----------------------------- MODULE ConfigProofs -----------------------------
(***************************************************************************)
(* Proofs about Config for any fields, any command lines and any           *)
(* configuration files, the ones with values of a wrong type included.     *)
(***************************************************************************)
EXTENDS Config, TLAPS

(***************************************************************************)
(* Where the value of a parameter is from.                                 *)
(***************************************************************************)
FromFile(f) == InFile(f, Params[f])
FromOptions(f) == Given(f) /\ Params[f] = opt[f]

Inputs ==
    /\ opt \in Options /\ file \in Files
    /\ DOMAIN Params = Fields

Provenance == \A f \in Fields : Params[f] = Default[f] \/ FromFile(f) \/ FromOptions(f)

\* Nothing goes on with a file that has a value of another type.
FileTyped == stage \in {"cli", "validate", "register", "running"} => Typed(file)

\* Nor with a broker that has not been checked.
Checked == stage \in {"register", "running"} => Secure

(***************************************************************************)
(* The inductive invariant: the properties follow from where the values    *)
(* are from and from what has been checked of them; DefaultUnlessGiven is  *)
(* a part of it, since the two sources are read one after the other.       *)
(***************************************************************************)
ConfigInv ==
    /\ Inputs /\ Provenance /\ DefaultUnlessGiven
    /\ FileTyped /\ Checked
    /\ stage = "file" => Params = Default

-----------------------------------------------------------------------------
(***************************************************************************)
(* What Given says of a field, by its type.                                *)
(***************************************************************************)
LEMMA GivenByType ==
  /\ Given("NoTLS") = opt["NoTLS"]
  /\ \A p \in Periods : Given(p) = (opt[p] > 0)
<1>1. "NoTLS" \notin Texts /\ "NoTLS" \in Switches /\ "NoTLS" \notin Numbers
  BY ConfigAssumption
<1>2. \A p \in Periods : p \notin Texts /\ p \notin Switches /\ p \in Numbers
  BY ConfigAssumption
<1>3. Given("NoTLS") = opt["NoTLS"]
  BY <1>1 DEF Given
<1>4. \A p \in Periods : Given(p) = (opt[p] > 0)
  BY <1>2 DEF Given
<1> QED
  BY <1>3, <1>4

(***************************************************************************)
(* The defaults are what they are from, at first.                          *)
(***************************************************************************)
LEMMA InitConfig == Init => ConfigInv
  BY ConfigAssumption
  DEF Init, ConfigInv, Inputs, Provenance, DefaultUnlessGiven, FileTyped, Checked

(***************************************************************************)
(* A step that leaves the parameters alone keeps where they are from.      *)
(***************************************************************************)
LEMMA SameParams ==
  ASSUME Inputs, Provenance, DefaultUnlessGiven, UNCHANGED <<opt, file, Params>>
  PROVE  Inputs' /\ Provenance' /\ DefaultUnlessGiven'
  BY DEF Inputs, Provenance, DefaultUnlessGiven, FromFile, FromOptions, InFile, Given

(***************************************************************************)
(* Reading the file: what it has is from the file, the rest is as before.  *)
(***************************************************************************)
LEMMA ReadFileConfig ==
  ASSUME ConfigInv, readNodeConfigFromFile
  PROVE  ConfigInv'
<1>1. stage = "file" /\ Inputs /\ Provenance /\ DefaultUnlessGiven
  BY DEF ConfigInv, readNodeConfigFromFile
<1>2. CASE DOMAIN file \subseteq Fields /\ Typed(file)
  <2>1. stage' = "cli" /\ Params' = Decode /\ UNCHANGED <<opt, file>>
    BY <1>2 DEF readNodeConfigFromFile, Goes
  <2>2. Inputs'
    BY <1>1, <2>1 DEF Inputs, Decode
  <2>3. Provenance'
    <3> SUFFICES ASSUME NEW f \in Fields
                 PROVE  (Params[f] = Default[f] \/ FromFile(f) \/ FromOptions(f))'
      BY DEF Provenance
    <3>1. CASE f \in DOMAIN file
      BY <2>1, <3>1 DEF Decode, FromFile, InFile
    <3>2. CASE f \notin DOMAIN file
      <4>1. Params'[f] = Params[f]
        BY <2>1, <3>2 DEF Decode
      <4>2. Params[f] = Default[f]
        BY <1>1 DEF ConfigInv
      <4> QED
        BY <4>1, <4>2
    <3> QED
      BY <3>1, <3>2
  <2>4. DefaultUnlessGiven'
    BY <1>1, <2>1 DEF DefaultUnlessGiven, Decode, Given
  <2>5. FileTyped' /\ Checked' /\ stage' # "file"
    BY <1>2, <2>1 DEF FileTyped, Checked, Typed
  <2> QED
    BY <2>2, <2>3, <2>4, <2>5 DEF ConfigInv
<1>3. CASE ~ (DOMAIN file \subseteq Fields /\ Typed(file))
  <2>1. stage' = "ended" /\ UNCHANGED <<opt, file, Params>>
    BY <1>3 DEF readNodeConfigFromFile, Goes, Fatal
  <2>2. Inputs' /\ Provenance' /\ DefaultUnlessGiven'
    BY <1>1, <2>1, SameParams
  <2> QED
    BY <2>1, <2>2 DEF ConfigInv, FileTyped, Checked
<1> QED
  BY <1>2, <1>3

(***************************************************************************)
(* The command line: what it gives is from it, the rest is as before.      *)
(***************************************************************************)
LEMMA ApplyConfig ==
  ASSUME ConfigInv, applyCLIparams
  PROVE  ConfigInv'
<1>1. stage = "cli" /\ Inputs /\ Provenance /\ DefaultUnlessGiven /\ FileTyped
  BY DEF ConfigInv, applyCLIparams
<1>2. /\ stage' = "validate" /\ UNCHANGED <<opt, file>>
      /\ Params' = [f \in Fields |-> IF Given(f) THEN opt[f] ELSE Params[f]]
  BY DEF applyCLIparams, Goes
<1>3. Inputs'
  BY <1>1, <1>2 DEF Inputs
<1>4. Provenance'
  <2> SUFFICES ASSUME NEW f \in Fields
               PROVE  (Params[f] = Default[f] \/ FromFile(f) \/ FromOptions(f))'
    BY DEF Provenance
  <2>1. Given(f)' = Given(f)
    BY <1>2 DEF Given
  <2>2. CASE Given(f)
    BY <1>2, <2>1, <2>2 DEF FromOptions
  <2>3. CASE ~ Given(f)
    <3>1. Params'[f] = Params[f]
      BY <1>2, <2>3
    <3>2. Params[f] = Default[f] \/ FromFile(f)
      BY <1>1, <2>3 DEF Provenance, FromOptions
    <3> QED
      BY <1>2, <3>1, <3>2 DEF FromFile, InFile
  <2> QED
    BY <2>2, <2>3
<1>5. DefaultUnlessGiven'
  BY <1>1, <1>2 DEF DefaultUnlessGiven, Given
<1>6. FileTyped' /\ Checked' /\ stage' # "file"
  BY <1>1, <1>2 DEF FileTyped, Checked, Typed
<1> QED
  BY <1>3, <1>4, <1>5, <1>6 DEF ConfigInv

(***************************************************************************)
(* The checks change no parameter, and only a broker with TLS, or one that *)
(* needs none, passes the first.                                           *)
(***************************************************************************)
LEMMA ChecksConfig ==
  ASSUME ConfigInv, validateConfig \/ RegisterNode
  PROVE  ConfigInv'
<1>1. /\ stage \in {"validate", "register"} /\ UNCHANGED <<opt, file, Params>>
      /\ stage' \in {"register", "running", "ended"}
  BY DEF validateConfig, RegisterNode, Goes, Fatal
<1>2. Inputs' /\ Provenance' /\ DefaultUnlessGiven'
  BY <1>1, SameParams DEF ConfigInv
<1>3. FileTyped'
  BY <1>1 DEF ConfigInv, FileTyped, Typed
<1>4. Checked'
  <2>1. Secure' = Secure
    BY <1>1 DEF Secure
  <2>2. stage' \in {"register", "running"} => Secure
    BY DEF ConfigInv, Checked, validateConfig, RegisterNode, Goes, Fatal
  <2> QED
    BY <2>1, <2>2 DEF Checked
<1> QED
  BY <1>1, <1>2, <1>3, <1>4 DEF ConfigInv

(***************************************************************************)
(* Every step keeps the invariant.                                         *)
(***************************************************************************)
LEMMA StepConfig == ConfigInv /\ [Next]_vars => ConfigInv'
<1> SUFFICES ASSUME ConfigInv, [Next]_vars PROVE ConfigInv'
  OBVIOUS
<1>1. CASE readNodeConfigFromFile
  BY <1>1, ReadFileConfig
<1>2. CASE applyCLIparams
  BY <1>2, ApplyConfig
<1>3. CASE validateConfig \/ RegisterNode
  BY <1>3, ChecksConfig
<1>4. CASE UNCHANGED vars
  <2>1. Inputs' /\ Provenance' /\ DefaultUnlessGiven'
    BY <1>4, SameParams DEF vars, ConfigInv
  <2> QED
    BY <1>4, <2>1 DEF vars, ConfigInv, FileTyped, Checked, Typed, Secure
<1> QED
  BY <1>1, <1>2, <1>3, <1>4 DEF Next

LEMMA AlwaysConfig == Spec => []ConfigInv
  BY InitConfig, StepConfig, PTL DEF Spec
-----------------------------------------------------------------------------
(***************************************************************************)
(* Without TLS only if asked: NoTLS is on by the file or the command line, *)
(* as its default is off.                                                  *)
(***************************************************************************)
LEMMA PlainIsAsked == ConfigInv => PlainOnlyIfAsked
<1> SUFFICES ASSUME ConfigInv, stage = "running", Scheme(Params["Broker"]) # "tls"
             PROVE  opt["NoTLS"] \/ InFile("NoTLS", TRUE)
  BY DEF PlainOnlyIfAsked
<1>1. Secure /\ Typed(file)
  BY DEF ConfigInv, Checked, FileTyped
<1>2. Params["NoTLS"]
  BY <1>1 DEF Secure
<1>3. "NoTLS" \in Fields /\ "NoTLS" \in Switches
  BY ConfigAssumption DEF Fields
<1>4. \/ Params["NoTLS"] = Default["NoTLS"]
      \/ FromFile("NoTLS") \/ FromOptions("NoTLS")
  BY <1>3 DEF ConfigInv, Provenance
<1>5. CASE Params["NoTLS"] = Default["NoTLS"]
  BY <1>2, <1>5, ConfigAssumption
<1>6. CASE FromFile("NoTLS")
  <2>1. "NoTLS" \in DOMAIN file /\ file["NoTLS"] = Params["NoTLS"]
    BY <1>6 DEF FromFile, InFile
  <2>2. file["NoTLS"] \in BOOLEAN
    BY <1>1, <1>3, <2>1 DEF Typed
  <2>3. file["NoTLS"] = TRUE
    BY <1>2, <2>1, <2>2
  <2> QED
    BY <2>1, <2>3 DEF InFile
<1>7. CASE FromOptions("NoTLS")
  BY <1>7, GivenByType DEF FromOptions
<1> QED
  BY <1>4, <1>5, <1>6, <1>7

(***************************************************************************)
(* For any fields, command lines and files: the agent runs without TLS     *)
(* only if one of the two says so.                                         *)
(***************************************************************************)
THEOREM NeverPlainUnasked == Spec => []PlainOnlyIfAsked
  BY AlwaysConfig, PlainIsAsked, PTL

(***************************************************************************)
(* For any fields, command lines and files: the pause of either loop is a  *)
(* second at least unless the file says less of it.                        *)
(***************************************************************************)
THEOREM PauseUnlessFileSaysNot == Spec => []NoPauseOnlyFromFile
<1>1. ConfigInv => NoPauseOnlyFromFile
  <2> SUFFICES ASSUME ConfigInv, NEW p \in Periods, Params[p] < 1
               PROVE  p \in DOMAIN file /\ file[p] < 1
    BY DEF NoPauseOnlyFromFile
  <2>1. p \in Fields /\ p \in Numbers
    BY ConfigAssumption DEF Fields
  <2>2. Default[p] \in Int /\ opt[p] \in Int
    BY <2>1, ConfigAssumption DEF ConfigInv, Inputs, Typed
  <2>3. Params[p] # Default[p]
    BY <2>2, ConfigAssumption
  <2>4. ~ FromOptions(p)
    <3>1. SUFFICES ASSUME Given(p), Params[p] = opt[p]
                   PROVE  FALSE
      BY DEF FromOptions
    <3>2. opt[p] > 0
      BY <3>1, GivenByType
    <3> QED
      BY <2>2, <3>1, <3>2
  <2> QED
    BY <2>1, <2>3, <2>4 DEF ConfigInv, Provenance, FromFile, InFile
<1> QED
  BY AlwaysConfig, <1>1, PTL

(***************************************************************************)
(* For any fields, command lines and files: a parameter nobody has given   *)
(* keeps its default.                                                      *)
(***************************************************************************)
THEOREM DefaultsStay == Spec => []DefaultUnlessGiven
<1>1. ConfigInv => DefaultUnlessGiven
  BY DEF ConfigInv
<1> QED
  BY AlwaysConfig, <1>1, PTL
=============================================================================
