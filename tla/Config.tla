-------------------------------- MODULE Config --------------------------------
(***************************************************************************)
(* How the parameters of the agent come about (internal/config/config.go): *)
(* defaults, overridden by the configuration file, overridden by what is   *)
(* given on the command line; then they are checked, and the node must     *)
(* have an identifier and a name (RegisterNode).  The agent ends at the    *)
(* first thing that is wrong.                                              *)
(*                                                                         *)
(* A broker URL is one of those whose parts the code tells apart.          *)
(***************************************************************************)
EXTENDS Integers

CONSTANTS Texts, Switches, Numbers, \* fields of ParamStruct, by type
          Default,                  \* their default values
          Options,                  \* command lines: a value for every field
          Files                     \* configuration files: values by key

Fields == Texts \cup Switches \cup Numbers

\* The numbers that are the pauses of the loops of heartbeat and logs.
Periods == {"Heartbeat", "LogSendInvl"}

\* The values have the types of the fields.
Typed(params) ==
    /\ \A f \in Texts \cap DOMAIN params : params[f] \in STRING
    /\ \A f \in Switches \cap DOMAIN params : params[f] \in BOOLEAN
    /\ \A f \in Numbers \cap DOMAIN params : params[f] \in Int

ASSUME ConfigAssumption ==
    /\ {"Broker", "NodeId", "NodeName"} \subseteq Texts
    /\ "NoTLS" \in Switches /\ Periods \subseteq Numbers
    /\ Texts \cap (Switches \cup Numbers) = {} /\ Switches \cap Numbers = {}
    /\ DOMAIN Default = Fields /\ Typed(Default)
    /\ ~ Default["NoTLS"] /\ \A p \in Periods : Default[p] >= 1
    /\ \A o \in Options : DOMAIN o = Fields /\ Typed(o)

VARIABLES opt,    \* model.Params: the command line
          file,   \* the configuration file, by key; none without --config
          Params,
          stage

vars == <<opt, file, Params, stage>>

\* What go-flags leaves in a field that is not on the command line.
Zero(f) == CASE f \in Texts -> "" [] f \in Switches -> FALSE [] f \in Numbers -> 0

\* Mutant: any number but 0 counts.
GivenNonZero(f) == opt[f] # Zero(f)

\* Does a value of the command line count?
Given(f) ==
    CASE f \in Texts -> opt[f] # "" [] f \in Switches -> opt[f] [] f \in Numbers -> opt[f] > 0

Init ==
    /\ opt \in Options /\ file \in Files
    /\ Params = Default
    /\ stage = "file"
-----------------------------------------------------------------------------
Goes(next, params) ==
    stage' = next /\ Params' = params /\ UNCHANGED <<opt, file>>

Fatal == Goes("ended", Params)

\* Mutant: what the file leaves out is empty.
DecodeAnew == [f \in Fields |-> IF f \in DOMAIN file THEN file[f] ELSE Zero(f)]

\* Decode into the defaults.
Decode == [f \in Fields |-> IF f \in DOMAIN file THEN file[f] ELSE Params[f]]

\* DisallowUnknownFields; a value of another type is an error of Decode, too.
readNodeConfigFromFile ==
    /\ stage = "file"
    /\ IF DOMAIN file \subseteq Fields /\ Typed(file) THEN Goes("cli", Decode) ELSE Fatal

applyCLIparams ==
    /\ stage = "cli"
    /\ Goes("validate", [f \in Fields |-> IF Given(f) THEN opt[f] ELSE Params[f]])

\* Protocol, host and port are there.
IsComplete(url) == url \in {"tls://host:port", "mqtt://host:port"}
Scheme(url) == IF url = "tls://host:port" THEN "tls" ELSE "mqtt"

\* Mutant: TLS is not asked for when the command line names the broker.
SecureIfFromFile == Given("Broker") \/ Params["NoTLS"] \/ Scheme(Params["Broker"]) = "tls"

Secure == Params["NoTLS"] \/ Scheme(Params["Broker"]) = "tls"

validateConfig ==
    /\ stage = "validate"
    /\ IF IsComplete(Params["Broker"]) /\ Secure THEN Goes("register", Params) ELSE Fatal

RegisterNode ==
    /\ stage = "register"
    /\ IF Params["NodeId"] # "" /\ Params["NodeName"] # "" THEN Goes("running", Params)
                                                         ELSE Fatal

Next == readNodeConfigFromFile \/ applyCLIparams \/ validateConfig \/ RegisterNode

Spec == Init /\ [][Next]_vars
-----------------------------------------------------------------------------
(* Properties *)

InFile(f, v) == f \in DOMAIN file /\ file[f] = v

(***************************************************************************)
(* Without TLS the agent runs only if the file or the command line has     *)
(* said so: no combination of the two sources gets around it.              *)
(***************************************************************************)
PlainOnlyIfAsked ==
    stage = "running" /\ Scheme(Params["Broker"]) # "tls" =>
        opt["NoTLS"] \/ InFile("NoTLS", TRUE)

(***************************************************************************)
(* The loops of heartbeat and logs have a pause unless the file says 0 or  *)
(* less of that one (nothing checks it there, agent.go:215 and 232 then    *)
(* send without a pause).                                                  *)
(***************************************************************************)
NoPauseOnlyFromFile ==
    \A p \in Periods : Params[p] < 1 => p \in DOMAIN file /\ file[p] < 1

(***************************************************************************)
(* A parameter nobody has given has its default: a file that leaves it out *)
(* does not change it.                                                     *)
(***************************************************************************)
DefaultUnlessGiven ==
    \A f \in Fields : ~ Given(f) /\ f \notin DOMAIN file => Params[f] = Default[f]
=============================================================================
