---------------------------- MODULE NodeKeyProofs ----------------------------
(***************************************************************************)
(* Proofs about NodeKey, for any number of runs, keys and messages: a      *)
(* public key that was sent stays that of the key in the file, and the     *)
(* organization key in use is that of the messages.                        *)
(***************************************************************************)
EXTENDS NodeKey, SequenceTheorems, TLAPS

\* Until there is a key in the file none was sent, and a run that has one to
\* send has it from the file.
FileInv ==
    /\ runs \in Nat
    /\ pc # "down" => runs \in Keys
    /\ pc = "create" => file = Absent
    /\ pc = "write" => file = Torn
    /\ pc = "create" \/ pc = "write" => key = runs
    /\ pc = "send" => key = file /\ file \in Keys
    /\ file = Absent \/ file = Torn => published = {}
    /\ PublishedKeyIsKept

USE DEF vars, processVars, mapiVars, FileInv, PublishedKeyIsKept, Keys, None, Absent, Torn

LEMMA InitFile == Init => FileInv
BY DEF Init

\* The steps of the start decide what is in the file.
LEMMA StartStep ==
    ASSUME FileInv,
           Start \/ Kill \/ InitNodeKeypair \/ RefuseTornFile \/ CreateFile \/ WriteFile
             \/ SendNodePublicKey
    PROVE  FileInv'
<1> USE KeyAssumption
<1>1. CASE Start
  BY <1>1 DEF Start
<1>2. CASE Kill \/ RefuseTornFile
  BY <1>2 DEF RefuseTornFile, Kill, Ends
<1>3. CASE InitNodeKeypair
  BY <1>3 DEF InitNodeKeypair
<1>4. CASE CreateFile
  BY <1>4 DEF CreateFile
<1>5. CASE WriteFile
  BY <1>5 DEF WriteFile, WriteKey
<1>6. CASE SendNodePublicKey
  BY <1>6 DEF SendNodePublicKey
<1> QED
  BY <1>1, <1>2, <1>3, <1>4, <1>5, <1>6

\* No message touches the file or the key.
LEMMA MessageStep ==
    ASSUME FileInv,
           Subscribe \/ LoseEarly \/ ProcessOrgPrivKeyMessage \/ SetOrgKeyHash \/ Deploy
             \/ AnswerKey \/ ChangeOrgKey \/ SendDeploy \/ UNCHANGED vars
    PROVE  FileInv'
<1>1. UNCHANGED <<pc, file, key, published, runs>>
  BY DEF Subscribe, LoseEarly, ProcessOrgPrivKeyMessage, SetOrgKeyHash, Deploy,
         AnswerKey, ChangeOrgKey, SendDeploy
<1> QED
  BY <1>1

(***************************************************************************)
(* Wherever the agent was killed while it made its key, a public key that  *)
(* was ever sent is that of the key in the file.                           *)
(***************************************************************************)
THEOREM SentKeyIsKept == Spec => []PublishedKeyIsKept
<1>1. FileInv /\ [Next]_vars => FileInv'
  BY StartStep, MessageStep DEF Next
<1>2. FileInv => PublishedKeyIsKept
  OBVIOUS
<1> QED
  BY InitFile, <1>1, <1>2, PTL DEF Spec

-----------------------------------------------------------------------------
(***************************************************************************)
(* The organization key: the queue of messages, in the order of the keys.  *)
(***************************************************************************)
\* A run has the key of the file once it has one to send, and no run, no keys.
RunKeyInv ==
    /\ pc = "running" => key = file /\ file \in Keys
    /\ pc = "down" \/ ~ subscribed => decryptor = None /\ handling = None
    /\ subscribed => pc \in {"send", "running"}
    /\ pc = "down" => hash = None
    /\ due # None => due \in published
    /\ published \subseteq Keys

QueuedMessage == [kind : {"orgKey", "deploy"}, for : Nat, org : Nat]

\* Messages carry the organization keys in the order in which MAPI has made
\* them, and organization keys are only encrypted for keys that were sent.
QueueInv ==
    /\ queue \in Seq(QueuedMessage) /\ orgKey \in Nat \ {0} /\ decryptor \in Nat
    /\ decryptor <= orgKey
    /\ \A i \in 1 .. Len(queue) :
         /\ queue[i].org \in 1 .. orgKey /\ decryptor <= queue[i].org
         /\ queue[i].kind = "orgKey" => queue[i].for \in published
    /\ \A i, j \in 1 .. Len(queue) : i < j => queue[i].org <= queue[j].org

\* A key is installed from the first message of the queue.
HandlingInv ==
    /\ HashIsOfKeyInUse /\ hash \in Nat
    /\ handling # None => /\ handling = decryptor
                          /\ queue # <<>> /\ queue[1].kind = "orgKey"
                          /\ queue[1].org = handling

\* No organization key is missing between two messages, after the last one
\* or -- if the agent has one and has missed none -- before the first one.
Follows(m, org) == m.kind = "orgKey" \/ m.org = org
NoGap ==
    /\ \A i \in 1 .. Len(queue) - 1 : Follows(queue[i + 1], queue[i].org)
    /\ queue # <<>> => queue[Len(queue)].org = orgKey
    /\ decryptor # None /\ ~ missed =>
         IF queue = <<>> THEN decryptor = orgKey ELSE Follows(queue[1], decryptor)

KeyInv == RunKeyInv /\ QueueInv /\ HandlingInv /\ NoGap /\ RejectedOnlyForWantOfKey

LEMMA InitKey == Init => KeyInv
BY KeyAssumption
   DEF Init, KeyInv, RunKeyInv, QueueInv, HandlingInv, HashIsOfKeyInUse, NoGap,
       RejectedOnlyForWantOfKey, QueuedMessage

\* The run goes on, and no message comes or goes.
LEMMA RunStep ==
    ASSUME FileInv, KeyInv,
           Start \/ Kill \/ InitNodeKeypair \/ RefuseTornFile \/ CreateFile \/ WriteFile
             \/ SendNodePublicKey \/ Subscribe \/ UNCHANGED vars
    PROVE  KeyInv'
<1> USE DEF KeyInv, RunKeyInv
<1>1. UNCHANGED <<queue, orgKey, rejected>>
  BY DEF Start, Kill, InitNodeKeypair, RefuseTornFile, CreateFile, WriteFile,
         SendNodePublicKey, Subscribe
<1>2. RunKeyInv'
  <2>1. CASE Start
    BY <2>1 DEF Start
  <2>2. CASE Kill \/ RefuseTornFile
    BY <2>2 DEF RefuseTornFile, Kill, Ends
  <2>3. CASE InitNodeKeypair
    BY <2>3 DEF InitNodeKeypair
  <2>4. CASE CreateFile
    BY <2>4 DEF CreateFile
  <2>5. CASE WriteFile
    BY <2>5 DEF WriteFile, WriteKey
  <2>6. CASE SendNodePublicKey
    BY <2>6 DEF SendNodePublicKey
  <2>7. CASE Subscribe
    BY <2>7 DEF Subscribe
  <2>8. CASE UNCHANGED vars
    BY <2>8
  <2> QED
    BY <2>1, <2>2, <2>3, <2>4, <2>5, <2>6, <2>7, <2>8
<1>3. published \subseteq published'
  BY DEF Start, Kill, InitNodeKeypair, RefuseTornFile, CreateFile, WriteFile,
         SendNodePublicKey, Subscribe
<1>4. /\ UNCHANGED <<decryptor, hash, handling>>
         \/ (decryptor' = None /\ hash' = None /\ handling' = None)
      /\ decryptor' # None => UNCHANGED missed
  BY DEF Start, Kill, InitNodeKeypair, RefuseTornFile, CreateFile, WriteFile,
         SendNodePublicKey, Subscribe, Ends
<1>5. QueueInv'
  <2>1. queue' \in Seq(QueuedMessage) /\ orgKey' \in Nat \ {0} /\ Len(queue') = Len(queue)
    BY <1>1 DEF QueueInv
  <2>2. decryptor' \in Nat /\ decryptor' <= decryptor
    BY <1>4 DEF QueueInv
  <2>3. \A i \in 1 .. Len(queue) :
          /\ queue[i].org \in 1 .. orgKey /\ decryptor' <= queue[i].org
          /\ queue[i].kind = "orgKey" => queue[i].for \in published'
    <3> SUFFICES ASSUME NEW i \in 1 .. Len(queue)
                 PROVE  /\ queue[i].org \in 1 .. orgKey /\ decryptor' <= queue[i].org
                        /\ queue[i].kind = "orgKey" => queue[i].for \in published'
      OBVIOUS
    <3>1. queue[i].org \in 1 .. orgKey /\ decryptor <= queue[i].org
      BY DEF QueueInv
    <3>2. queue[i].org \in Int /\ decryptor \in Int /\ decryptor' \in Int
      BY <2>2, <3>1 DEF QueueInv
    <3>3. decryptor' <= queue[i].org
      BY <2>2, <3>1, <3>2
    <3>4. queue[i].kind = "orgKey" => queue[i].for \in published'
      BY <1>3, Zenon DEF QueueInv
    <3> QED
      BY <3>1, <3>3, <3>4
  <2>4. decryptor' <= orgKey
    BY <2>2 DEF QueueInv
  <2> QED
    BY <1>1, <2>1, <2>2, <2>3, <2>4 DEF QueueInv
<1>6. HandlingInv'
  BY <1>1, <1>4 DEF HandlingInv, HashIsOfKeyInUse
<1>7. NoGap'
  BY <1>1, <1>4 DEF NoGap, Follows
<1>8. RejectedOnlyForWantOfKey'
  BY <1>1 DEF RejectedOnlyForWantOfKey
<1> QED
  BY <1>2, <1>5, <1>6, <1>7, <1>8

\* MAPI sends a message, of the newest organization key.
LEMMA SendStep ==
    ASSUME FileInv, KeyInv, AnswerKey \/ ChangeOrgKey \/ SendDeploy
    PROVE  KeyInv'
<1>1. /\ UNCHANGED <<processVars, file, published, missed, rejected>>
      /\ due' = due \/ due' = None
  BY DEF AnswerKey, ChangeOrgKey, SendDeploy
<1>2. PICK m \in QueuedMessage :
        /\ queue' = Append(queue, m) /\ m.org = orgKey'
        /\ m.kind = "orgKey" => m.for \in published
        /\ orgKey' = orgKey \/ (orgKey' = orgKey + 1 /\ m.kind = "orgKey")
  <2>1. published \subseteq Nat /\ orgKey \in Nat
    BY KeyAssumption DEF KeyInv, RunKeyInv, QueueInv
  <2>2. CASE AnswerKey
    <3>1. OrgKeyMsg(due) \in QueuedMessage /\ due \in published
      BY <2>1, <2>2 DEF AnswerKey, OrgKeyMsg, QueuedMessage, KeyInv, RunKeyInv
    <3> QED
      BY <2>2, <3>1 DEF AnswerKey, OrgKeyMsg
  <2>3. CASE ChangeOrgKey
    <3>1. PICK k \in published :
            queue' = Append(queue, [OrgKeyMsg(k) EXCEPT !.org = orgKey + 1])
      BY <2>3 DEF ChangeOrgKey
    <3>2. [OrgKeyMsg(k) EXCEPT !.org = orgKey + 1]
            = [kind |-> "orgKey", for |-> k, org |-> orgKey + 1]
      BY DEF OrgKeyMsg
    <3>3. [kind |-> "orgKey", for |-> k, org |-> orgKey + 1] \in QueuedMessage
      BY <2>1 DEF QueuedMessage
    <3> QED
      BY <2>3, <3>1, <3>2, <3>3 DEF ChangeOrgKey
  <2>4. CASE SendDeploy
    <3>1. DeployMsg \in QueuedMessage
      BY <2>1 DEF DeployMsg, QueuedMessage
    <3> QED
      BY <2>4, <3>1 DEF SendDeploy, DeployMsg
  <2> QED
    BY <2>2, <2>3, <2>4
<1>3. /\ queue' \in Seq(QueuedMessage) /\ queue' # <<>>
      /\ Len(queue) \in Nat /\ Len(queue') = Len(queue) + 1
      /\ \A i \in 1 .. Len(queue) : queue'[i] = queue[i]
      /\ queue'[Len(queue) + 1] = m
      /\ queue # <<>> => Len(queue) >= 1
  BY <1>2, AppendProperties, LenProperties, EmptySeq DEF KeyInv, QueueInv
<1>4. RunKeyInv'
  BY <1>1, <1>2 DEF KeyInv, RunKeyInv
<1>5. QueueInv'
  <2>1. orgKey' \in Nat /\ orgKey <= orgKey' /\ UNCHANGED decryptor
    BY <1>1, <1>2 DEF KeyInv, QueueInv
  <2>2. \A i \in 1 .. Len(queue') : i \in 1 .. Len(queue) \/ i = Len(queue) + 1
    BY <1>3
  <2>3. \A i \in 1 .. Len(queue') :
          /\ queue'[i].org \in 1 .. orgKey' /\ decryptor <= queue'[i].org
          /\ queue'[i].kind = "orgKey" => queue'[i].for \in published
    <3>1. orgKey' \in 1 .. orgKey' /\ decryptor <= orgKey'
      BY <2>1, <1>2, KeyAssumption DEF KeyInv, QueueInv, FileInv
    <3> QED
      BY <1>2, <1>3, <2>1, <2>2, <3>1 DEF KeyInv, QueueInv
  <2>4. \A i, j \in 1 .. Len(queue') : i < j => queue'[i].org <= queue'[j].org
    BY <1>2, <1>3, <2>1, <2>2, <2>3 DEF KeyInv, QueueInv
  <2> QED
    BY <1>1, <1>3, <2>1, <2>3, <2>4 DEF KeyInv, QueueInv
<1>6. HandlingInv'
  BY <1>1, <1>3 DEF KeyInv, HandlingInv, HashIsOfKeyInUse
<1>7. NoGap'
  <2>1. Follows(m, orgKey)
    BY <1>2 DEF Follows
  <2>2. ASSUME NEW i \in 1 .. Len(queue') - 1 PROVE Follows(queue'[i + 1], queue'[i].org)
    <3>1. CASE i < Len(queue)
      <4>1. queue'[i + 1] = queue[i + 1] /\ queue'[i] = queue[i] /\ i \in 1 .. Len(queue) - 1
        BY <1>3, <2>2, <3>1
      <4> QED
        BY <4>1 DEF KeyInv, NoGap
    <3>2. CASE i = Len(queue)
      BY <1>3, <2>1, <2>2, <3>2 DEF KeyInv, NoGap
    <3> QED
      BY <1>3, <2>2, <3>1, <3>2
  <2>3. decryptor # None /\ ~ missed => Follows(queue'[1], decryptor)
    BY <1>3, <2>1 DEF KeyInv, NoGap
  <2> QED
    BY <1>1, <1>2, <1>3, <2>2, <2>3 DEF NoGap
<1> QED
  BY <1>1, <1>4, <1>5, <1>6, <1>7 DEF KeyInv, RejectedOnlyForWantOfKey

\* The first message leaves the queue.
LEMMA TailOfQueue ==
    ASSUME KeyInv, queue # <<>>, queue' = Tail(queue)
    PROVE  /\ Head(queue) = queue[1] /\ Len(queue) \in Nat /\ Len(queue) >= 1
           /\ queue' \in Seq(QueuedMessage) /\ Len(queue') = Len(queue) - 1
           /\ \A i \in 1 .. Len(queue') : i + 1 \in 1 .. Len(queue) /\ queue'[i] = queue[i + 1]
           /\ queue' = <<>> <=> Len(queue) = 1
<1>1. queue \in Seq(QueuedMessage)
  BY DEF KeyInv, QueueInv
<1>2. Len(queue) \in Nat /\ Len(queue) >= 1
  BY <1>1, EmptySeq
<1>3. /\ queue' \in Seq(QueuedMessage) /\ Len(queue') = Len(queue) - 1
      /\ \A i \in 1 .. Len(queue') : queue'[i] = queue[i + 1]
  BY <1>1, HeadTailProperties
<1>4. queue' = <<>> <=> Len(queue') = 0
  BY <1>3, EmptySeq
<1>5. Head(queue) = queue[1]
  BY <1>1
<1> QED
  BY <1>2, <1>3, <1>4, <1>5

LEMMA ReceiveStep ==
    ASSUME KeyInv, queue # <<>>, queue' = Tail(queue), UNCHANGED <<orgKey, decryptor, published>>,
           decryptor # None /\ ~ missed' => queue[1].org = decryptor
    PROVE  QueueInv' /\ NoGap'
<1>1. /\ Len(queue) \in Nat /\ Len(queue) >= 1
      /\ queue' \in Seq(QueuedMessage) /\ Len(queue') = Len(queue) - 1
      /\ \A i \in 1 .. Len(queue') : i + 1 \in 1 .. Len(queue) /\ queue'[i] = queue[i + 1]
      /\ queue' = <<>> <=> Len(queue) = 1
  BY TailOfQueue
<1>2. QueueInv'
  <2>1. \A i, j \in 1 .. Len(queue') : i < j => queue'[i].org <= queue'[j].org
    BY <1>1 DEF KeyInv, QueueInv
  <2> QED
    BY <1>1, <2>1 DEF KeyInv, QueueInv
<1>3. ASSUME NEW i \in 1 .. Len(queue') - 1 PROVE Follows(queue'[i + 1], queue'[i].org)
  <2>1. /\ i + 1 \in 1 .. Len(queue) - 1
        /\ queue'[i + 1] = queue[(i + 1) + 1] /\ queue'[i] = queue[i + 1]
    BY <1>1
  <2> QED
    BY <2>1 DEF KeyInv, NoGap
<1>4. queue' # <<>> => queue'[Len(queue')].org = orgKey
  BY <1>1 DEF KeyInv, NoGap
<1>5. ASSUME decryptor # None, ~ missed'
      PROVE  IF queue' = <<>> THEN decryptor = orgKey ELSE Follows(queue'[1], decryptor)
  <2>1. queue[1].org = decryptor
    BY <1>5
  <2>2. CASE queue' = <<>>
    BY <1>1, <2>1, <2>2 DEF KeyInv, NoGap
  <2>3. CASE queue' # <<>>
    <3>1. queue'[1] = queue[1 + 1] /\ 1 \in 1 .. Len(queue) - 1
      BY <1>1, <2>3
    <3> QED
      BY <2>1, <2>3, <3>1 DEF KeyInv, NoGap
  <2> QED
    BY <2>2, <2>3
<1> QED
  BY <1>2, <1>3, <1>4, <1>5 DEF NoGap

\* A message is lost, installed or handled.
LEMMA LoseStep == FileInv /\ KeyInv /\ LoseEarly => KeyInv'
<1> SUFFICES ASSUME KeyInv, LoseEarly PROVE KeyInv'
  OBVIOUS
<1>1. /\ queue # <<>> /\ queue' = Tail(queue)
      /\ UNCHANGED <<processVars, file, published, mapiVars, rejected>>
      /\ decryptor = None /\ handling = None
  BY DEF LoseEarly, KeyInv, RunKeyInv
<1>2. QueueInv' /\ NoGap'
  BY <1>1, ReceiveStep
<1> QED
  BY <1>1, <1>2
     DEF KeyInv, RunKeyInv, HandlingInv, HashIsOfKeyInUse, RejectedOnlyForWantOfKey

LEMMA InstallStep == FileInv /\ KeyInv /\ ProcessOrgPrivKeyMessage => KeyInv'
<1> SUFFICES ASSUME FileInv, KeyInv, ProcessOrgPrivKeyMessage PROVE KeyInv'
  OBVIOUS
<1>1. /\ subscribed /\ handling = None /\ queue # <<>> /\ queue[1].kind = "orgKey"
      /\ Head(queue) = queue[1] /\ 1 \in 1 .. Len(queue)
  <2>1. queue \in Seq(QueuedMessage) /\ queue # <<>>
    BY DEF KeyInv, QueueInv, ProcessOrgPrivKeyMessage, CanHandle
  <2>2. Len(queue) \in Nat \ {0} /\ Head(queue) = queue[1]
    BY <2>1, EmptySeq
  <2> QED
    BY <2>1, <2>2 DEF ProcessOrgPrivKeyMessage, CanHandle
<1>2. queue[1].for = key
  BY <1>1 DEF KeyInv, RunKeyInv, QueueInv
<1>3. /\ decryptor' = queue[1].org /\ handling' = queue[1].org
      /\ UNCHANGED <<queue, orgKey, due, pc, key, hash, subscribed, file, published, missed,
                     rejected>>
  BY <1>1, <1>2 DEF ProcessOrgPrivKeyMessage, Installs
<1>4. queue[1].org \in 1 .. orgKey /\ orgKey \in Nat /\ decryptor <= queue[1].org
  BY <1>1 DEF KeyInv, QueueInv
<1>5. QueueInv'
  <2>1. \A i \in 1 .. Len(queue) : queue[1].org <= queue[i].org
    BY <1>1, <1>4 DEF KeyInv, QueueInv
  <2> QED
    BY <1>3, <1>4, <2>1 DEF KeyInv, QueueInv
<1>6. HandlingInv'
  BY <1>1, <1>3, <1>4 DEF KeyInv, HandlingInv, HashIsOfKeyInUse, QueueInv
<1>7. NoGap'
  BY <1>1, <1>3 DEF KeyInv, NoGap, Follows
<1>8. RunKeyInv'
  BY <1>1, <1>3 DEF KeyInv, RunKeyInv
<1> QED
  BY <1>3, <1>5, <1>6, <1>7, <1>8 DEF KeyInv, RejectedOnlyForWantOfKey

LEMMA HashStep == KeyInv /\ SetOrgKeyHash => KeyInv'
<1> SUFFICES ASSUME KeyInv, SetOrgKeyHash PROVE KeyInv'
  OBVIOUS
<1>1. /\ queue # <<>> /\ queue[1].org = decryptor /\ handling = decryptor
      /\ queue' = Tail(queue) /\ hash' = decryptor /\ handling' = None
      /\ UNCHANGED <<orgKey, due, pc, key, decryptor, subscribed, file, published, missed,
                     rejected>>
  BY DEF SetOrgKeyHash, KeyInv, HandlingInv
<1>2. QueueInv' /\ NoGap'
  BY <1>1, ReceiveStep
<1>3. HandlingInv'
  BY <1>1 DEF HandlingInv, HashIsOfKeyInUse, KeyInv, QueueInv
<1>4. pc # "down"
  BY <1>1 DEF SetOrgKeyHash, KeyInv, RunKeyInv
<1> QED
  BY <1>1, <1>2, <1>3, <1>4 DEF KeyInv, RunKeyInv, RejectedOnlyForWantOfKey

\* If the agent has a key and has missed none, it is that of the next message.
LEMMA DeployStep == KeyInv /\ Deploy => KeyInv'
<1> SUFFICES ASSUME KeyInv, Deploy PROVE KeyInv'
  OBVIOUS
<1>1. /\ queue # <<>> /\ queue' = Tail(queue) /\ handling = None
      /\ UNCHANGED <<processVars, mapiVars, file, published, missed>>
      /\ Head(queue).kind = "deploy"
  BY DEF Deploy, CanHandle
<1>2. Head(queue) = queue[1]
  BY <1>1, TailOfQueue
<1>3. decryptor # None /\ ~ missed => queue[1].org = decryptor
  BY <1>1, <1>2 DEF KeyInv, NoGap, Follows
<1>4. QueueInv' /\ NoGap'
  BY <1>1, <1>3, ReceiveStep
<1>5. RejectedOnlyForWantOfKey'
  BY <1>2, <1>3 DEF Deploy, Decrypts, KeyInv, RejectedOnlyForWantOfKey
<1> QED
  BY <1>1, <1>4, <1>5 DEF KeyInv, RunKeyInv, HandlingInv, HashIsOfKeyInUse

LEMMA KeyStep == FileInv /\ KeyInv /\ [Next]_vars => FileInv' /\ KeyInv'
<1>1. FileInv /\ [Next]_vars => FileInv'
  BY StartStep, MessageStep DEF Next
<1>2. FileInv /\ KeyInv /\ [Next]_vars => KeyInv'
  BY RunStep, SendStep, LoseStep, InstallStep, HashStep, DeployStep DEF Next
<1> QED
  BY <1>1, <1>2

(***************************************************************************)
(* The hash that the status messages tell of is never ahead of the key in  *)
(* use, for any number of organization keys and runs: the keys come in the *)
(* order in which they were made, also those that are delivered again.     *)
(***************************************************************************)
THEOREM HashNotAhead == Spec => []HashIsOfKeyInUse
<1>1. KeyInv => HashIsOfKeyInUse
  BY DEF KeyInv, HandlingInv
<1> QED
  BY InitFile, InitKey, KeyStep, <1>1, PTL DEF Spec

(***************************************************************************)
(* A DEPLOY is only rejected for its secrets by an agent that has no       *)
(* organization key yet or has missed one since its start, through all     *)
(* changes of the key and messages that are delivered again.               *)
(***************************************************************************)
THEOREM SecretsAreDecrypted == Spec => []RejectedOnlyForWantOfKey
<1>1. KeyInv => RejectedOnlyForWantOfKey
  BY DEF KeyInv
<1> QED
  BY InitFile, InitKey, KeyStep, <1>1, PTL DEF Spec
=============================================================================
