-------------------------- MODULE NodeSessionProofs --------------------------
(***************************************************************************)
(* Proofs about NodeSession, for any commands and numbers of connections:  *)
(* what the retained status says when the agent is down, that a deleted    *)
(* node keeps saying so, and that commands are handled in the order in     *)
(* which they were sent, and twice only if their handling was cut off.     *)
(***************************************************************************)
EXTENDS NodeSession, SequenceTheorems, WellFoundedInduction, TLAPS

\* There is neither a connection nor a handler before the client connects, and
\* a node deleted before main sets its status was deleted too soon.
RunInv ==
    /\ pc \in {"down", "start"} => client = "none" /\ handling = Idle
    /\ pc \in {"down", "start", "connected", "delete"} => (deleted => tooSoon)
    /\ DeletedIsReported

\* The client is never more connected than the broker believes.  Once there
\* was a connection in this run, its end leaves Disconnected behind, and a
\* leaving agent has said so unless something came after it.
SessionInv ==
    /\ broker \in {"none", "up"}
    /\ client = "up" => broker = "up"
    /\ pc \notin {"down", "start"} /\ broker = "none" => retained = "Disconnected"
    /\ pc = "leaving" /\ client = "up" => retained = "Disconnected" \/ overtaken
    /\ pc \in {"down", "start"} /\ broker = "none" =>
          retained \in {"None", "Disconnected"} \/ overtaken

LEMMA InitSession == Init => RunInv /\ SessionInv
BY DEF Init, RunInv, SessionInv, DeletedIsReported

USE DEF vars, processVars, sessionVars, mapiVars, history, Goes

\* The steps of main keep both parts.
LEMMA MainStep ==
    ASSUME RunInv, SessionInv, Start \/ Agent \/ Terminate \/ Kill
    PROVE  RunInv' /\ SessionInv'
<1> USE DEF RunInv, SessionInv, DeletedIsReported
<1>1. CASE Start
  BY <1>1 DEF Start
<1>2. CASE ConnectNode
  BY <1>2 DEF ConnectNode, Connected
<1>3. CASE SetNodeStatus
  BY <1>3 DEF SetNodeStatus
<1>4. CASE SendNodePublicKey
  BY <1>4 DEF SendNodePublicKey
<1>5. CASE SendDisconnected
  BY <1>5 DEF SendDisconnected, SendDisconnectedStatus, Publishes
<1>6. CASE Disconnect
  BY <1>6 DEF Disconnect, Ends
<1>7. CASE DeleteNode
  BY <1>7 DEF DeleteNode
<1>8. CASE Exit
  BY <1>8 DEF Exit, Ends, Publishes
<1>9. CASE Terminate
  BY <1>9 DEF Terminate
<1>10. CASE Kill
  BY <1>10 DEF Kill, Ends
<1> QED
  BY <1>1, <1>2, <1>3, <1>4, <1>5, <1>6, <1>7, <1>8, <1>9, <1>10 DEF Agent

\* The handlers and the heartbeat keep both parts.
LEMMA GoroutineStep ==
    ASSUME RunInv, SessionInv,
           BuildStatus \/ PublishStatus \/ Subscribe \/ Handle \/ ReceiveEarly \/ Handled
    PROVE  RunInv' /\ SessionInv'
<1> USE DEF RunInv, SessionInv, DeletedIsReported
<1>1. CASE BuildStatus
  BY <1>1 DEF BuildStatus
<1>2. CASE PublishStatus
  BY <1>2 DEF PublishStatus, Publishes, Overtakes
<1>3. CASE Subscribe
  BY <1>3 DEF Subscribe
<1>4. CASE Handle
  <2>1. client = "up" /\ UNCHANGED <<pc, nodeStatus, client, broker, retained, overtaken,
                                     deleted, tooSoon>>
    BY <1>4 DEF Handle, CanReceive
  <2> QED
    BY <2>1
<1>5. CASE ReceiveEarly
  BY <1>5 DEF ReceiveEarly, CanReceive
<1>6. CASE Handled
  <2>1. /\ handling # Idle /\ handling' = Idle
        /\ UNCHANGED <<pc, client, broker>>
    BY <1>6 DEF Handled
  <2>2. pc \notin {"down", "start"}
    BY <2>1
  <2>3. CASE handling.msg = NodeDelete
    <3>1. /\ nodeStatus' = "Deleted" /\ deleted' = TRUE /\ tooSoon' = (pc \in {"connected", "delete"})
          /\ Publishes("Deleted") /\ Overtakes
      BY <1>6, <2>3 DEF Handled, HandlerReports
    <3> QED
      BY <2>1, <2>2, <3>1 DEF Publishes, Overtakes
  <2>4. CASE handling.msg # NodeDelete
    <3>1. /\ UNCHANGED <<nodeStatus, deleted, tooSoon>>
          /\ (Publishes(nodeStatus) /\ Overtakes) \/ UNCHANGED <<retained, overtaken>>
      BY <1>6, <2>4 DEF Handled, HandlerReports
    <3> QED
      BY <2>1, <2>2, <3>1 DEF Publishes, Overtakes
  <2> QED
    BY <2>3, <2>4
<1> QED
  BY <1>1, <1>2, <1>3, <1>4, <1>5, <1>6

\* The network, the broker and MAPI keep both parts.
LEMMA OutsideStep ==
    ASSUME RunInv, SessionInv,
           Reconnect \/ Break \/ Will \/ SendCommand \/ AnswerKey \/ UNCHANGED vars
    PROVE  RunInv' /\ SessionInv'
<1> USE DEF RunInv, SessionInv, DeletedIsReported
<1>1. CASE Reconnect
  BY <1>1 DEF Reconnect, Connected
<1>2. CASE Break
  BY <1>2 DEF Break
<1>3. CASE Will
  BY <1>3 DEF Will
<1>4. CASE SendCommand
  <2>1. UNCHANGED <<processVars, client, broker, retained, overtaken, deleted, tooSoon>>
    BY <1>4 DEF SendCommand
  <2> QED
    BY <2>1
<1>5. CASE AnswerKey
  BY <1>5 DEF AnswerKey
<1>6. CASE UNCHANGED vars
  BY <1>6
<1> QED
  BY <1>1, <1>2, <1>3, <1>4, <1>5, <1>6

(***************************************************************************)
(* However runs and connections end, an agent that is down has left the    *)
(* status Disconnected, or published something after it said so.           *)
(***************************************************************************)
THEOREM DownNodesSaySo == Spec => []DownIsDisconnected
<1>1. RunInv /\ SessionInv /\ [Next]_vars => (RunInv /\ SessionInv)'
  BY MainStep, GoroutineStep, OutsideStep DEF Next, Heartbeat, Connection, MessageLoop
<1>2. SessionInv => DownIsDisconnected
  BY DEF SessionInv, DownIsDisconnected
<1> QED
  BY InitSession, <1>1, <1>2, PTL DEF Spec

(***************************************************************************)
(* A node that is deleted after main has set the status of the node, to    *)
(* Connected or with --delete to Disconnected, stays Deleted for the rest  *)
(* of the run.                                                             *)
(***************************************************************************)
THEOREM DeletedNodesSaySo == Spec => []DeletedIsReported
<1>1. RunInv /\ SessionInv /\ [Next]_vars => (RunInv /\ SessionInv)'
  BY MainStep, GoroutineStep, OutsideStep DEF Next, Heartbeat, Connection, MessageLoop
<1>2. RunInv => DeletedIsReported
  BY DEF RunInv
<1> QED
  BY InitSession, <1>1, <1>2, PTL DEF Spec
-----------------------------------------------------------------------------
(* The first of some positions, and a sequence without one of its elements *)

Less == {p \in Nat \X Nat : p[1] < p[2]}

(***************************************************************************)
(* A non-empty set of natural numbers has a least element.                 *)
(***************************************************************************)
LEMMA HasLeast ==
  ASSUME NEW S \in SUBSET Nat, S # {}
  PROVE  \E x \in S : \A y \in S : x <= y
<1>1. IsWellFoundedOn(Less, Nat)
  BY NatLessThanWellFounded DEF OpToRel, Less
<1>2. PICK x \in S : \A y \in S : ~ (<<y, x>> \in Less)
  BY <1>1, WFMin
<1>3. ASSUME NEW y \in S PROVE x <= y
  <2>1. x \in Nat /\ y \in Nat
    OBVIOUS
  <2>2. ~ (y < x)
    BY <1>2, <2>1 DEF Less
  <2> QED
    BY <2>1, <2>2
<1> QED
  BY <1>3

(***************************************************************************)
(* What RemoveAt returns.                                                  *)
(***************************************************************************)
LEMMA RemoveAtProperties ==
  ASSUME NEW S, NEW s \in Seq(S), NEW i \in 1 .. Len(s)
  PROVE  /\ RemoveAt(s, i) \in Seq(S)
         /\ Len(RemoveAt(s, i)) = Len(s) - 1
         /\ \A k \in 1 .. Len(s) - 1 :
              RemoveAt(s, i)[k] = IF k < i THEN s[k] ELSE s[k + 1]
<1> DEFINE front == SubSeq(s, 1, i - 1)
           back == SubSeq(s, i + 1, Len(s))
<1>1. Len(s) \in Nat /\ i \in Int /\ 1 <= i /\ i <= Len(s)
  BY LenProperties
<1>2. \A k \in 1 .. Len(s) : s[k] \in S
  BY ElementOfSeq
<1>3. /\ front \in Seq(S) /\ Len(front) = i - 1
      /\ \A k \in 1 .. i - 1 : front[k] = s[k]
  <2>1. \A k \in 1 .. i - 1 : s[k] \in S
    BY <1>1, <1>2
  <2>2. /\ front \in Seq(S)
        /\ Len(front) = IF 1 <= i - 1 THEN (i - 1) - 1 + 1 ELSE 0
        /\ \A k \in 1 .. (i - 1) - 1 + 1 : front[k] = s[1 + k - 1]
    BY <1>1, <2>1, SubSeqProperties
  <2>3. Len(front) = i - 1
    BY <1>1, <2>2
  <2>4. \A k \in 1 .. i - 1 : front[k] = s[k]
    <3> SUFFICES ASSUME NEW k \in 1 .. i - 1 PROVE front[k] = s[k]
      OBVIOUS
    <3>1. k \in 1 .. (i - 1) - 1 + 1 /\ 1 + k - 1 = k
      BY <1>1
    <3> HIDE DEF front
    <3> QED
      BY <2>2, <3>1
  <2> QED
    BY <2>2, <2>3, <2>4
<1>4. /\ back \in Seq(S) /\ Len(back) = Len(s) - i
      /\ \A k \in 1 .. Len(s) - i : back[k] = s[i + k]
  <2>1. \A k \in i + 1 .. Len(s) : s[k] \in S
    BY <1>1, <1>2
  <2>2. /\ back \in Seq(S)
        /\ Len(back) = IF i + 1 <= Len(s) THEN Len(s) - (i + 1) + 1 ELSE 0
        /\ \A k \in 1 .. Len(s) - (i + 1) + 1 : back[k] = s[i + 1 + k - 1]
    BY <1>1, <2>1, SubSeqProperties
  <2>3. Len(back) = Len(s) - i
    BY <1>1, <2>2
  <2>4. \A k \in 1 .. Len(s) - i : back[k] = s[i + k]
    <3> SUFFICES ASSUME NEW k \in 1 .. Len(s) - i PROVE back[k] = s[i + k]
      OBVIOUS
    <3>1. k \in 1 .. Len(s) - (i + 1) + 1 /\ i + 1 + k - 1 = i + k
      BY <1>1
    <3> HIDE DEF back
    <3> QED
      BY <2>2, <3>1
  <2> QED
    BY <2>2, <2>3, <2>4
<1>5. RemoveAt(s, i) = front \o back
  BY DEF RemoveAt
<1> HIDE DEF front, back
<1>6. /\ front \o back \in Seq(S)
      /\ Len(front \o back) = Len(front) + Len(back)
      /\ \A k \in 1 .. Len(front) + Len(back) :
           (front \o back)[k] = IF k <= Len(front) THEN front[k] ELSE back[k - Len(front)]
  BY <1>3, <1>4, ConcatProperties
<1>7. Len(front) + Len(back) = Len(s) - 1
  BY <1>1, <1>3, <1>4
<1>8. ASSUME NEW k \in 1 .. Len(s) - 1
      PROVE  (front \o back)[k] = IF k < i THEN s[k] ELSE s[k + 1]
  <2>1. CASE k < i
    <3>1. k <= Len(front) /\ k \in 1 .. i - 1
      BY <1>1, <1>3, <2>1
    <3> QED
      BY <1>3, <1>6, <1>7, <2>1, <3>1
  <2>2. CASE ~ (k < i)
    <3>1. /\ ~ (k <= Len(front)) /\ k - Len(front) = k - (i - 1)
          /\ k - (i - 1) \in 1 .. Len(s) - i /\ i + (k - (i - 1)) = k + 1
      BY <1>1, <1>3, <2>2
    <3>2. (front \o back)[k] = back[k - (i - 1)]
      BY <1>6, <1>7, <3>1
    <3>3. back[k - (i - 1)] = s[i + (k - (i - 1))]
      BY <1>4, <3>1
    <3> QED
      BY <2>2, <3>1, <3>2, <3>3
  <2> QED
    BY <2>1, <2>2
<1> QED
  BY <1>5, <1>6, <1>7, <1>8

-----------------------------------------------------------------------------
(***************************************************************************)
(* Why commands are handled in the order in which they were sent.  The     *)
(* session's queue has every command once at most, in that order; what is  *)
(* not in it was handled or came too early; and what a connection leaves   *)
(* out, because it had no handler yet, came too early, too.  So when the   *)
(* first message that waits is handled, nothing sent before it is missing. *)
(***************************************************************************)
IsSent(c) == \E i \in DOMAIN sent : sent[i] = c
Before(c, d) == \E i, j \in DOMAIN sent : i < j /\ sent[i] = c /\ sent[j] = d
IsQueued(m) == \E i \in DOMAIN queue : queue[i].msg = m

Sequences == queue \in Seq([msg : Messages, held : BOOLEAN]) /\ sent \in Seq(Commands)

SentOnce == \A i, j \in DOMAIN sent : sent[i] = sent[j] => i = j

QueueInOrder ==
    \A i, j \in DOMAIN queue :
        i < j /\ queue[i].msg \in Commands /\ queue[j].msg \in Commands
        => Before(queue[i].msg, queue[j].msg)

QueueIsSent == \A i \in DOMAIN queue : queue[i].msg \in Commands => IsSent(queue[i].msg)

HeldIsEarly ==
    \A i \in DOMAIN queue :
        queue[i].held /\ queue[i].msg \in Commands => queue[i].msg \in early

NoneLost ==
    \A k \in DOMAIN sent : IsQueued(sent[k]) \/ handled[sent[k]] > 0 \/ sent[k] \in early

(***************************************************************************)
(* Why a command is handled twice only if it was cut off: a message that   *)
(* is handled while its connection lasts is in the queue until it is       *)
(* acknowledged, and is gone then; one that was handled and is in the      *)
(* queue is that one, or was cut off.                                      *)
(***************************************************************************)
HandlingInv ==
    /\ handling \in [msg : Messages \cup {NoMessage}, live : BOOLEAN]
    /\ handling.live => client = "up" /\ handling.msg # NoMessage /\ IsQueued(handling.msg)
    /\ handling.msg \in Commands => handled[handling.msg] > 0

HandledInv ==
    /\ handled \in [Commands -> 0 .. 2]
    /\ \A c \in Commands : handled[c] > 0 => IsSent(c)
    /\ \A c \in Commands :
         handled[c] > 0 /\ IsQueued(c) => c \in cutOff \/ (handling.msg = c /\ handling.live)

OrderInv ==
    /\ Sequences /\ SentOnce /\ QueueInOrder /\ QueueIsSent /\ HeldIsEarly /\ NoneLost
    /\ HandlingInv /\ HandledInv
    /\ HandledInOrder /\ TwiceOnlyIfCutOff

Entry == [msg : Messages, held : BOOLEAN]

LEMMA Parts == OrderInv => /\ Sequences /\ SentOnce /\ QueueInOrder /\ QueueIsSent
                           /\ HeldIsEarly /\ NoneLost /\ HandlingInv /\ HandledInv
                           /\ HandledInOrder /\ TwiceOnlyIfCutOff
  BY DEF OrderInv

\* The indices of the two sequences.
LEMMA Indices ==
  ASSUME Sequences
  PROVE  /\ Len(queue) \in Nat /\ DOMAIN queue = 1 .. Len(queue)
         /\ Len(sent) \in Nat /\ DOMAIN sent = 1 .. Len(sent)
         /\ \A i \in DOMAIN queue : queue[i] \in Entry
         /\ \A i \in DOMAIN sent : sent[i] \in Commands
<1>1. queue \in Seq(Entry) /\ sent \in Seq(Commands)
  BY DEF Sequences, Entry
<1>2. /\ Len(queue) \in Nat /\ DOMAIN queue = 1 .. Len(queue)
      /\ Len(sent) \in Nat /\ DOMAIN sent = 1 .. Len(sent)
  BY <1>1, LenProperties
<1>3. \A i \in DOMAIN queue : queue[i] \in Entry
  BY <1>1, <1>2, ElementOfSeq
<1>4. \A i \in DOMAIN sent : sent[i] \in Commands
  BY <1>1, <1>2, ElementOfSeq
<1> QED
  BY <1>2, <1>3, <1>4

\* No command was sent before itself.
LEMMA NotBeforeItself ==
  ASSUME Sequences, SentOnce, NEW c
  PROVE  ~ Before(c, c)
<1> SUFFICES ASSUME Before(c, c) PROVE FALSE
  OBVIOUS
<1>1. PICK i, j \in DOMAIN sent : i < j /\ sent[i] = c /\ sent[j] = c
  BY DEF Before
<1>2. i = j
  BY <1>1 DEF SentOnce
<1>3. i \in Int
  BY <1>1, Indices
<1> QED
  BY <1>1, <1>2, <1>3

\* A command is in the queue once.
LEMMA QueuedOnce ==
  ASSUME Sequences, SentOnce, QueueInOrder,
         NEW i \in DOMAIN queue, NEW j \in DOMAIN queue,
         queue[i].msg = queue[j].msg, queue[i].msg \in Commands
  PROVE  i = j
<1>1. i \in Int /\ j \in Int
  BY Indices
<1>2. ~ (i < j) /\ ~ (j < i)
  BY NotBeforeItself DEF QueueInOrder
<1> QED
  BY <1>1, <1>2

(***************************************************************************)
(* Two commands in the queue are there in the order in which they were     *)
(* sent.                                                                   *)
(***************************************************************************)
LEMMA OrderOfPositions ==
  ASSUME Sequences, SentOnce, QueueInOrder,
         NEW i \in DOMAIN queue, NEW j \in DOMAIN queue,
         queue[i].msg \in Commands, queue[j].msg \in Commands,
         Before(queue[i].msg, queue[j].msg)
  PROVE  i < j
<1>1. i \in Int /\ j \in Int
  BY Indices
<1>2. i # j
  BY NotBeforeItself
<1>3. ~ (j < i)
  <2> SUFFICES ASSUME j < i PROVE FALSE
    OBVIOUS
  <2>1. Before(queue[j].msg, queue[i].msg)
    BY DEF QueueInOrder
  <2>2. PICK a, b \in DOMAIN sent : a < b /\ sent[a] = queue[i].msg /\ sent[b] = queue[j].msg
    BY DEF Before
  <2>3. PICK d, e \in DOMAIN sent : d < e /\ sent[d] = queue[j].msg /\ sent[e] = queue[i].msg
    BY <2>1 DEF Before
  <2>4. a = e /\ b = d
    BY <2>2, <2>3 DEF SentOnce
  <2>5. a \in Int /\ b \in Int
    BY <2>2, Indices
  <2> QED
    BY <2>2, <2>3, <2>4, <2>5
<1> QED
  BY <1>1, <1>2, <1>3

\* The first message that waits.
LEMMA FirstWaits ==
  ASSUME Sequences, Waiting # {}
  PROVE  First \in Waiting /\ \A j \in Waiting : First <= j
<1>1. Waiting \in SUBSET Nat
  BY Indices DEF Waiting
<1>2. \E i \in Waiting : \A j \in Waiting : i <= j
  BY <1>1, HasLeast
<1> QED
  BY <1>2 DEF First

-----------------------------------------------------------------------------
(* Steps *)

LEMMA InitOrder == Init => OrderInv
<1> SUFFICES ASSUME Init PROVE OrderInv
  OBVIOUS
<1>1. queue = <<>> /\ sent = <<>>
  BY DEF Init
<1>2. Sequences
  BY <1>1, EmptySeq DEF Sequences
<1>3. DOMAIN queue = {} /\ DOMAIN sent = {}
  BY <1>1
<1>4. \A c \in Commands : handled[c] = 0
  BY DEF Init
<1>5. SentOnce /\ QueueInOrder /\ QueueIsSent /\ HeldIsEarly /\ NoneLost /\ HandledInOrder
  BY <1>3 DEF SentOnce, QueueInOrder, QueueIsSent, HeldIsEarly, NoneLost, HandledInOrder
<1>6. HandlingInv
  BY SessionAssumption DEF Init, HandlingInv, Idle, Messages
<1>7. HandledInv /\ TwiceOnlyIfCutOff
  BY <1>4 DEF Init, HandledInv, TwiceOnlyIfCutOff
<1> QED
  BY <1>2, <1>5, <1>6, <1>7 DEF OrderInv

(***************************************************************************)
(* A step that leaves the messages alone, and the one that is handled --   *)
(* or cuts it off.                                                         *)
(***************************************************************************)
LEMMA QuietStep ==
  ASSUME OrderInv, UNCHANGED <<queue, sent, handled>>,
         early' \cap Commands = early \cap Commands, cutOff \subseteq cutOff',
         \/ UNCHANGED <<handling, client>>
         \/ handling' = handling /\ ~ handling.live
         \/ /\ handling' = Idle \/ handling' = [handling EXCEPT !.live = FALSE]
            /\ {handling.msg} \cap Commands \subseteq cutOff'
  PROVE  OrderInv'
<1> USE Parts
<1>1. Sequences' /\ SentOnce' /\ QueueInOrder' /\ QueueIsSent'
  BY DEF Sequences, SentOnce, QueueInOrder, QueueIsSent, Before, IsSent
<1>2. HeldIsEarly'
  BY DEF HeldIsEarly
<1>3. \A i \in DOMAIN sent : sent[i] \in Commands
  BY Indices
<1>4. NoneLost' /\ HandledInOrder'
  BY <1>3 DEF NoneLost, HandledInOrder, IsQueued
<1>5. TwiceOnlyIfCutOff'
  BY DEF TwiceOnlyIfCutOff
<1>6. HandlingInv'
  <2>0. \A m : IsQueued(m)' = IsQueued(m)
    BY DEF IsQueued
  <2>1. CASE UNCHANGED <<handling, client>> \/ (handling' = handling /\ ~ handling.live)
    BY <2>0, <2>1 DEF HandlingInv
  <2>2. CASE handling' = Idle
    BY <2>2, SessionAssumption DEF HandlingInv, Idle
  <2>3. CASE handling' = [handling EXCEPT !.live = FALSE]
    BY <2>3 DEF HandlingInv
  <2> QED
    BY <2>1, <2>2, <2>3
<1>7. HandledInv'
  <2>1. \A c \in Commands : handled[c] > 0 /\ IsQueued(c)
           => c \in cutOff' \/ (handling'.msg = c /\ handling'.live)
    BY DEF HandledInv
  <2> QED
    BY <2>1 DEF HandledInv, IsSent, IsQueued
<1> QED
  BY <1>1, <1>2, <1>4, <1>5, <1>6, <1>7 DEF OrderInv

(***************************************************************************)
(* A connection: what was left out comes again, in the same order.         *)
(***************************************************************************)
LEMMA ConnectedStep ==
  ASSUME OrderInv, Connected, ~ handling.live,
         UNCHANGED <<handling, sent, handled, early, cutOff>>
  PROVE  OrderInv'
<1> USE Parts, Indices
<1>1. /\ queue' = [i \in DOMAIN queue |-> [queue[i] EXCEPT !.held = FALSE]]
  BY DEF Connected, KeepsSession
<1>2. /\ DOMAIN queue' = DOMAIN queue
      /\ \A i \in DOMAIN queue : queue'[i].msg = queue[i].msg /\ ~ queue'[i].held
                                 /\ queue'[i] \in Entry
  BY <1>1 DEF Entry
<1>3. queue' \in Seq(Entry)
  <2>1. queue' \in [1 .. Len(queue) -> Entry]
    BY <1>1, <1>2
  <2> QED
    BY <2>1
<1>4. Sequences'
  BY <1>3 DEF Sequences, Entry
<1>5. SentOnce' /\ QueueInOrder' /\ QueueIsSent' /\ HeldIsEarly'
  BY <1>2 DEF SentOnce, QueueInOrder, QueueIsSent, HeldIsEarly, Before, IsSent
<1>6. \A m : IsQueued(m)' = IsQueued(m)
  BY <1>2 DEF IsQueued
<1>7. NoneLost' /\ HandledInOrder' /\ TwiceOnlyIfCutOff'
  BY <1>6 DEF NoneLost, HandledInOrder, TwiceOnlyIfCutOff
<1>8. HandlingInv' /\ HandledInv'
  BY <1>6 DEF HandlingInv, HandledInv, IsSent
<1> QED
  BY <1>4, <1>5, <1>7, <1>8 DEF OrderInv

(***************************************************************************)
(* A message leaves the queue: the others stay in their order.             *)
(***************************************************************************)
Kept(i, k) == IF k < i THEN k ELSE k + 1

LEMMA Removed ==
  ASSUME Sequences, NEW i \in DOMAIN queue, queue' = RemoveAt(queue, i)
  PROVE  /\ queue' \in Seq(Entry)
         /\ \A k \in DOMAIN queue' : /\ k \in Int /\ Kept(i, k) \in DOMAIN queue
                                     /\ Kept(i, k) # i /\ queue'[k] = queue[Kept(i, k)]
         /\ \A m \in DOMAIN queue : m # i => \E k \in DOMAIN queue' : queue'[k] = queue[m]
<1>1. queue \in Seq(Entry) /\ i \in 1 .. Len(queue) /\ Len(queue) \in Nat
      /\ DOMAIN queue = 1 .. Len(queue)
  BY Indices DEF Sequences, Entry
<1>2. /\ queue' \in Seq(Entry) /\ Len(queue') = Len(queue) - 1
      /\ \A k \in 1 .. Len(queue) - 1 : queue'[k] = IF k < i THEN queue[k] ELSE queue[k + 1]
  BY <1>1, RemoveAtProperties
<1>3. DOMAIN queue' = 1 .. Len(queue) - 1
  BY <1>2, LenProperties
<1>4. ASSUME NEW k \in DOMAIN queue'
      PROVE  /\ k \in Int /\ Kept(i, k) \in DOMAIN queue /\ Kept(i, k) # i
             /\ queue'[k] = queue[Kept(i, k)]
  BY <1>1, <1>2, <1>3 DEF Kept
<1>5. ASSUME NEW m \in DOMAIN queue, m # i
      PROVE  \E k \in DOMAIN queue' : queue'[k] = queue[m]
  <2>1. CASE m < i
    <3>1. m \in DOMAIN queue'
      BY <1>1, <1>3, <2>1
    <3>2. queue'[m] = queue[m]
      BY <1>2, <1>3, <2>1, <3>1
    <3> QED
      BY <3>1, <3>2
  <2>2. CASE ~ (m < i)
    <3>1. m - 1 \in DOMAIN queue' /\ ~ (m - 1 < i) /\ (m - 1) + 1 = m
      BY <1>1, <1>3, <1>5, <2>2
    <3>2. queue'[m - 1] = queue[(m - 1) + 1]
      BY <1>2, <1>3, <3>1
    <3> QED
      BY <3>1, <3>2
  <2> QED
    BY <2>1, <2>2
<1> QED
  BY <1>2, <1>4, <1>5

LEMMA RemovedOrder ==
  ASSUME OrderInv, NEW i \in DOMAIN queue, queue' = RemoveAt(queue, i),
         sent' = sent, early \subseteq early'
  PROVE  /\ Sequences' /\ SentOnce' /\ QueueInOrder' /\ QueueIsSent' /\ HeldIsEarly'
         /\ \A m : IsQueued(m)' => IsQueued(m)
         /\ \A m : IsQueued(m) /\ queue[i].msg # m => IsQueued(m)'
         /\ \A m \in Commands : queue[i].msg = m => ~ IsQueued(m)'
<1> USE Parts
<1> DEFINE pos(k) == Kept(i, k)
<1>1. /\ queue' \in Seq(Entry)
      /\ \A k \in DOMAIN queue' : /\ k \in Int /\ pos(k) \in DOMAIN queue
                                  /\ pos(k) # i /\ queue'[k] = queue[pos(k)]
      /\ \A m \in DOMAIN queue : m # i => \E k \in DOMAIN queue' : queue'[k] = queue[m]
  BY Removed
<1>2. i \in Int
  BY Indices
<1>3. \A k, n \in DOMAIN queue' : k < n => pos(k) < pos(n)
  BY <1>1, <1>2 DEF Kept
<1> HIDE DEF pos
<1>4. Sequences' /\ SentOnce'
  BY <1>1 DEF Sequences, Entry, SentOnce
<1>5. QueueInOrder'
  <2> SUFFICES ASSUME NEW k \in DOMAIN queue', NEW n \in DOMAIN queue', k < n,
                      queue'[k].msg \in Commands, queue'[n].msg \in Commands
               PROVE  Before(queue'[k].msg, queue'[n].msg)
    BY DEF QueueInOrder, Before
  <2>1. /\ pos(k) \in DOMAIN queue /\ pos(n) \in DOMAIN queue
        /\ queue'[k] = queue[pos(k)] /\ queue'[n] = queue[pos(n)]
    BY <1>1
  <2>2. pos(k) < pos(n)
    BY <1>3
  <2> QED
    BY <2>1, <2>2 DEF QueueInOrder
<1>6. QueueIsSent' /\ HeldIsEarly'
  BY <1>1 DEF QueueIsSent, HeldIsEarly, IsSent
<1>7. \A m : IsQueued(m)' => IsQueued(m)
  BY <1>1 DEF IsQueued
<1>8. \A m : IsQueued(m) /\ queue[i].msg # m => IsQueued(m)'
  BY <1>1 DEF IsQueued
<1>9. \A m \in Commands : queue[i].msg = m => ~ IsQueued(m)'
  <2> SUFFICES ASSUME NEW m \in Commands, queue[i].msg = m,
                      NEW k \in DOMAIN queue', queue'[k].msg = m
               PROVE  FALSE
    BY DEF IsQueued
  <2>1. pos(k) \in DOMAIN queue /\ pos(k) # i /\ queue[pos(k)].msg = queue[i].msg
    BY <1>1
  <2> QED
    BY <2>1, QueuedOnce
<1> QED
  BY <1>4, <1>5, <1>6, <1>7, <1>8, <1>9

(***************************************************************************)
(* A handler is called with the first message that waits: what was sent    *)
(* before it was handled, came too early, or was left out by this          *)
(* connection; and if it was handled before, it was cut off then.          *)
(***************************************************************************)
LEMMA HandleStep ==
  ASSUME OrderInv, Handle
  PROVE  OrderInv'
<1> USE Parts, Indices
<1>1. PICK i \in Waiting :
        /\ i = First
        /\ handling' = [msg |-> queue[i].msg, live |-> TRUE]
        /\ handled' = IF queue[i].msg \in Commands /\ handled[queue[i].msg] < 2
                      THEN [handled EXCEPT ![queue[i].msg] = @ + 1]
                      ELSE handled
  BY DEF Handle, IsNext
<1> DEFINE m == queue[i].msg
<1>2. /\ client = "up" /\ handling = Idle /\ i \in DOMAIN queue /\ m \in Messages
      /\ UNCHANGED <<queue, sent, early, cutOff, client>>
  BY DEF Handle, CanReceive, Waiting, Entry
<1>3. \A c \in Commands : handled[c] \in 0 .. 2
  BY DEF HandledInv
<1>4. /\ handled' \in [Commands -> 0 .. 2]
      /\ \A c \in Commands : c # m => handled'[c] = handled[c]
      /\ m \in Commands => handled'[m] > 0
      /\ \A c \in Commands : handled[c] > 0 => handled'[c] > 0
  <2>1. CASE m \in Commands /\ handled[m] < 2
    <3>1. handled' = [handled EXCEPT ![m] = @ + 1] /\ handled[m] + 1 \in 1 .. 2
      BY <1>1, <1>3, <2>1
    <3> QED
      BY <1>3, <3>1, <2>1 DEF HandledInv
  <2>2. CASE ~ (m \in Commands /\ handled[m] < 2)
    <3>1. handled' = handled /\ (m \in Commands => handled[m] > 0)
      BY <1>1, <1>3, <2>2
    <3> QED
      BY <3>1 DEF HandledInv
  <2> QED
    BY <2>1, <2>2
<1>5. IsQueued(m)
  BY <1>2 DEF IsQueued
<1>6. m \in Commands => IsSent(m)
  BY <1>2 DEF QueueIsSent
<1>7. Sequences' /\ SentOnce' /\ QueueInOrder' /\ QueueIsSent' /\ HeldIsEarly'
  BY <1>2 DEF Sequences, SentOnce, QueueInOrder, QueueIsSent, HeldIsEarly, Before, IsSent
<1>8. NoneLost'
  BY <1>2, <1>4 DEF NoneLost, IsQueued
<1>9. HandledInOrder'
  <2> SUFFICES ASSUME NEW a \in DOMAIN sent, NEW b \in DOMAIN sent, a < b, handled'[sent[b]] > 0
               PROVE  handled'[sent[a]] > 0 \/ sent[a] \in early
    BY <1>2 DEF HandledInOrder
  <2>1. sent[a] \in Commands /\ sent[b] \in Commands
    OBVIOUS
  <2>2. CASE sent[b] # m
    <3>1. handled[sent[b]] > 0
      BY <1>4, <2>1, <2>2
    <3> QED
      BY <1>4, <2>1, <3>1 DEF HandledInOrder
  <2>3. CASE sent[b] = m
    <3>1. SUFFICES ASSUME IsQueued(sent[a]) PROVE sent[a] \in early
      BY <1>4, <2>1 DEF NoneLost
    <3>2. PICK k \in DOMAIN queue : queue[k].msg = sent[a]
      BY <3>1 DEF IsQueued
    <3>3. Before(queue[k].msg, queue[i].msg)
      BY <2>3, <3>2 DEF Before
    <3>4. k < i
      BY <1>2, <2>1, <2>3, <3>2, <3>3, OrderOfPositions
    <3>5. k \notin Waiting
      <4>1. \A j \in Waiting : i <= j
        BY <1>1, FirstWaits
      <4>2. k \in Int /\ i \in Int
        BY <1>2
      <4> QED
        BY <3>4, <4>1, <4>2
    <3> QED
      BY <2>1, <3>2, <3>5 DEF Waiting, HeldIsEarly
  <2> QED
    BY <2>2, <2>3
<1>10. HandlingInv'
  <2>1. /\ handling'.msg = m /\ handling'.live
        /\ handling' \in [msg : Messages \cup {NoMessage}, live : BOOLEAN]
    BY <1>1, <1>2
  <2>2. m # NoMessage
    BY <1>2, SessionAssumption DEF Messages
  <2> QED
    BY <1>2, <1>4, <1>5, <2>1, <2>2 DEF HandlingInv, IsQueued
<1>11. \A c \in Commands : handled[c] > 0 /\ IsQueued(c) => c \in cutOff
  BY <1>2 DEF HandledInv, Idle
<1>12. HandledInv'
  <2>1. \A c \in Commands : handled'[c] > 0 => IsSent(c)
    BY <1>4, <1>6 DEF HandledInv
  <2>2. \A c \in Commands : handled'[c] > 0 /\ IsQueued(c) => c \in cutOff \/ c = m
    BY <1>4, <1>11
  <2>3. handling'.msg = m /\ handling'.live
    BY <1>1
  <2> QED
    BY <1>2, <1>4, <2>1, <2>2, <2>3 DEF HandledInv, IsSent, IsQueued
<1>13. TwiceOnlyIfCutOff'
  <2> SUFFICES ASSUME NEW c \in Commands, handled'[c] > 1 PROVE c \in cutOff
    BY <1>2 DEF TwiceOnlyIfCutOff
  <2>1. CASE c # m
    BY <1>4, <2>1 DEF TwiceOnlyIfCutOff
  <2>2. CASE c = m
    <3>1. handled[c] > 0
      BY <1>1, <1>3, <2>2 DEF HandledInv
    <3> QED
      BY <1>5, <1>11, <2>2, <3>1
  <2> QED
    BY <2>1, <2>2
<1> QED
  BY <1>7, <1>8, <1>9, <1>10, <1>12, <1>13 DEF OrderInv

(***************************************************************************)
(* A message without a handler is dropped, or left out for now.            *)
(***************************************************************************)
LEMMA EarlyStep ==
  ASSUME OrderInv, ReceiveEarly
  PROVE  OrderInv'
<1> USE Parts
<1> DEFINE i == First
           m == queue[i].msg
<1>1. /\ handling = Idle /\ early' = early \cup {m}
      /\ queue' = RemoveAt(queue, i) \/ queue' = [queue EXCEPT ![i].held = TRUE]
      /\ UNCHANGED <<sent, handled, handling, client, cutOff>>
  BY DEF ReceiveEarly, CanReceive
<1>2. i \in DOMAIN queue
  BY FirstWaits DEF ReceiveEarly, CanReceive, Waiting
<1> HIDE DEF i
<1>3. /\ Sequences' /\ SentOnce' /\ QueueInOrder' /\ QueueIsSent' /\ HeldIsEarly'
      /\ \A n : IsQueued(n)' => IsQueued(n)
      /\ \A n : IsQueued(n) /\ n # m => IsQueued(n)'
  <2>1. CASE queue' = RemoveAt(queue, i)
    BY <1>1, <1>2, <2>1, RemovedOrder
  <2>2. CASE queue' = [queue EXCEPT ![i].held = TRUE]
    <3>1. queue \in Seq(Entry) /\ [queue[i] EXCEPT !.held = TRUE] \in Entry
          /\ i \in 1 .. Len(queue) /\ queue[i] \in Entry
      BY <1>2, Indices DEF Sequences, Entry
    <3>2. queue' = [queue EXCEPT ![i] = [queue[i] EXCEPT !.held = TRUE]]
      BY <2>2
    <3>3. queue' \in Seq(Entry)
      BY <3>1, <3>2, ExceptSeq
    <3>4. /\ DOMAIN queue' = DOMAIN queue
          /\ \A k \in DOMAIN queue : /\ queue'[k].msg = queue[k].msg
                                     /\ k # i => queue'[k].held = queue[k].held
      BY <3>1, <3>2 DEF Entry
    <3>5. Sequences' /\ SentOnce'
      BY <1>1, <3>3 DEF Sequences, Entry, SentOnce
    <3>6. QueueInOrder' /\ QueueIsSent'
      BY <1>1, <3>4 DEF QueueInOrder, QueueIsSent, Before, IsSent
    <3>7. HeldIsEarly'
      BY <1>1, <3>4 DEF HeldIsEarly
    <3>8. \A n : IsQueued(n)' = IsQueued(n)
      BY <3>4 DEF IsQueued
    <3> QED
      BY <3>5, <3>6, <3>7, <3>8
  <2> QED
    BY <1>1, <2>1, <2>2
<1>4. NoneLost'
  BY <1>1, <1>3 DEF NoneLost
<1>5. HandledInOrder' /\ TwiceOnlyIfCutOff'
  BY <1>1 DEF HandledInOrder, TwiceOnlyIfCutOff
<1>6. HandlingInv' /\ HandledInv'
  BY <1>1, <1>3 DEF HandlingInv, HandledInv, IsSent, Idle
<1> QED
  BY <1>3, <1>4, <1>5, <1>6 DEF OrderInv

(***************************************************************************)
(* A handler returns: its message leaves the queue, if it is acknowledged. *)
(***************************************************************************)
LEMMA HandledStep ==
  ASSUME OrderInv, Handled
  PROVE  OrderInv'
<1> USE Parts
<1>1. /\ handling' = Idle /\ UNCHANGED <<sent, handled, client, cutOff, early>>
      /\ queue' = IF handling.live THEN RemoveAt(queue, Where(handling.msg)) ELSE queue
  BY DEF Handled, Acknowledged
<1>2. CASE ~ handling.live
  <2>1. queue' = queue
    BY <1>1, <1>2
  <2>2. HandledInv'
    BY <1>1, <1>2, <2>1 DEF HandledInv, IsSent, IsQueued
  <2>3. HandlingInv'
    BY <1>1, SessionAssumption DEF HandlingInv, Idle
  <2>4. Sequences' /\ SentOnce' /\ QueueInOrder' /\ QueueIsSent' /\ HeldIsEarly'
    BY <1>1, <2>1
       DEF Sequences, SentOnce, QueueInOrder, QueueIsSent, HeldIsEarly, Before, IsSent
  <2>5. NoneLost' /\ HandledInOrder' /\ TwiceOnlyIfCutOff'
    BY <1>1, <2>1 DEF NoneLost, HandledInOrder, TwiceOnlyIfCutOff, IsQueued
  <2> QED
    BY <2>2, <2>3, <2>4, <2>5 DEF OrderInv
<1>3. CASE handling.live
  <2> DEFINE i == Where(handling.msg)
  <2>1. i \in DOMAIN queue /\ queue[i].msg = handling.msg
    BY <1>3 DEF HandlingInv, IsQueued, Where
  <2>2. queue' = RemoveAt(queue, i)
    BY <1>1, <1>3
  <2> HIDE DEF i
  <2>3. /\ Sequences' /\ SentOnce' /\ QueueInOrder' /\ QueueIsSent' /\ HeldIsEarly'
        /\ \A m : IsQueued(m)' => IsQueued(m)
        /\ \A m : IsQueued(m) /\ handling.msg # m => IsQueued(m)'
        /\ \A m \in Commands : handling.msg = m => ~ IsQueued(m)'
    BY <1>1, <2>1, <2>2, RemovedOrder
  <2>4. NoneLost'
    <3>1. ASSUME NEW k \in DOMAIN sent
          PROVE  IsQueued(sent[k])' \/ handled[sent[k]] > 0 \/ sent[k] \in early
      <4>1. sent[k] \in Commands /\ sent' = sent
        BY <1>1, Indices
      <4>2. CASE IsQueued(sent[k]) /\ handling.msg # sent[k]
        BY <2>3, <4>1, <4>2
      <4>3. CASE handling.msg = sent[k]
        BY <4>1, <4>3 DEF HandlingInv
      <4> QED
        BY <4>2, <4>3 DEF NoneLost
    <3> QED
      BY <1>1, <3>1 DEF NoneLost
  <2>5. HandledInOrder' /\ TwiceOnlyIfCutOff'
    BY <1>1 DEF HandledInOrder, TwiceOnlyIfCutOff
  <2>6. HandlingInv'
    BY <1>1, SessionAssumption DEF HandlingInv, Idle
  <2>7. HandledInv'
    <3>1. \A c \in Commands : handled[c] > 0 /\ IsQueued(c)' => c \in cutOff
      BY <2>3 DEF HandledInv
    <3> QED
      BY <1>1, <3>1 DEF HandledInv, IsSent
  <2> QED
    BY <2>3, <2>4, <2>5, <2>6, <2>7 DEF OrderInv
<1> QED
  BY <1>2, <1>3

(***************************************************************************)
(* MAPI sends a command: it is the last of those sent, and comes last in   *)
(* the queue, or too early.                                                *)
(***************************************************************************)
LEMMA SentAppended ==
  ASSUME OrderInv, NEW c \in Commands, ~ IsSent(c), sent' = Append(sent, c)
  PROVE  /\ sent' \in Seq(Commands) /\ SentOnce'
         /\ \A d, e : Before(d, e) => Before(d, e)'
         /\ \A d : IsSent(d) => IsSent(d)' /\ Before(d, c)'
         /\ IsSent(c)'
         /\ DOMAIN sent \subseteq DOMAIN sent'
         /\ \A k \in DOMAIN sent : sent'[k] = sent[k]
         /\ \A k \in DOMAIN sent' : k \in DOMAIN sent \/ sent'[k] = c
         /\ \A j, k \in DOMAIN sent' : j < k => j \in DOMAIN sent
<1> USE Parts
<1>1. sent \in Seq(Commands) /\ Len(sent) \in Nat /\ DOMAIN sent = 1 .. Len(sent)
  BY Indices DEF Sequences
<1>2. /\ sent' \in Seq(Commands) /\ Len(sent') = Len(sent) + 1
      /\ \A k \in 1 .. Len(sent) : sent'[k] = sent[k]
      /\ sent'[Len(sent) + 1] = c
  BY <1>1, AppendProperties
<1>3. DOMAIN sent' = 1 .. Len(sent) + 1
  BY <1>2, LenProperties
<1>4. /\ DOMAIN sent \subseteq DOMAIN sent'
      /\ \A k \in DOMAIN sent' : k \in DOMAIN sent \/ k = Len(sent) + 1
      /\ \A j, k \in DOMAIN sent' : j < k => j \in DOMAIN sent
      /\ Len(sent) + 1 \in DOMAIN sent'
      /\ \A k \in DOMAIN sent : k < Len(sent) + 1
  BY <1>1, <1>3
<1>5. \A k \in DOMAIN sent : sent'[k] = sent[k]
  BY <1>1, <1>2
<1>6. \A k \in DOMAIN sent : sent[k] # c
  BY DEF IsSent
<1>7. SentOnce'
  BY <1>2, <1>4, <1>5, <1>6 DEF SentOnce
<1>8. \A d, e : Before(d, e) => Before(d, e)'
  BY <1>4, <1>5 DEF Before
<1>9. \A d : IsSent(d) => IsSent(d)' /\ Before(d, c)'
  BY <1>2, <1>4, <1>5 DEF IsSent, Before
<1>10. IsSent(c)'
  BY <1>2, <1>4 DEF IsSent
<1> QED
  BY <1>2, <1>4, <1>5, <1>7, <1>8, <1>9, <1>10

(***************************************************************************)
(* What is appended to the queue: a key, or the last command sent.         *)
(***************************************************************************)
LEMMA QueueAppended ==
  ASSUME OrderInv, NEW m \in Messages, queue' = Append(queue, [msg |-> m, held |-> FALSE]),
         early \subseteq early',
         \A d, e : Before(d, e) => Before(d, e)',
         \A d : IsSent(d) => IsSent(d)',
         m \in Commands => IsSent(m)' /\ \A d : IsSent(d) => Before(d, m)'
  PROVE  /\ queue' \in Seq(Entry)
         /\ QueueInOrder' /\ QueueIsSent' /\ HeldIsEarly'
         /\ \A n : IsQueued(n)' = (IsQueued(n) \/ n = m)
<1> USE Parts
<1> DEFINE new == [msg |-> m, held |-> FALSE]
<1>1. queue \in Seq(Entry) /\ Len(queue) \in Nat /\ DOMAIN queue = 1 .. Len(queue)
  BY Indices DEF Sequences, Entry
<1>2. new \in Entry /\ new.msg = m /\ ~ new.held
  BY DEF Entry
<1> HIDE DEF new
<1>3. queue' = Append(queue, new)
  BY DEF new
<1>4. /\ queue' \in Seq(Entry) /\ Len(queue') = Len(queue) + 1
      /\ \A k \in 1 .. Len(queue) : queue'[k] = queue[k]
      /\ queue'[Len(queue) + 1] = new
  BY <1>1, <1>2, <1>3, AppendProperties
<1>5. DOMAIN queue' = 1 .. Len(queue) + 1
  BY <1>4, LenProperties
<1>6. /\ \A k \in DOMAIN queue' : \/ k \in DOMAIN queue /\ queue'[k] = queue[k]
                                  \/ k = Len(queue) + 1 /\ queue'[k] = new
      /\ DOMAIN queue \subseteq DOMAIN queue' /\ Len(queue) + 1 \in DOMAIN queue'
      /\ \A j, k \in DOMAIN queue' : j < k => j \in DOMAIN queue
  BY <1>1, <1>4, <1>5
<1>7. \A j \in DOMAIN queue : queue[j].msg \in Commands => IsSent(queue[j].msg)
  BY DEF QueueIsSent
<1>8. QueueInOrder'
  <2> SUFFICES ASSUME NEW j \in DOMAIN queue', NEW k \in DOMAIN queue', j < k,
                      queue'[j].msg \in Commands, queue'[k].msg \in Commands
               PROVE  \E a, b \in DOMAIN sent' :
                         a < b /\ sent'[a] = queue'[j].msg /\ sent'[b] = queue'[k].msg
    BY DEF QueueInOrder, Before
  <2>1. j \in DOMAIN queue /\ queue'[j] = queue[j]
    BY <1>1, <1>4, <1>6
  <2>2. CASE k \in DOMAIN queue /\ queue'[k] = queue[k]
    <3>1. Before(queue[j].msg, queue[k].msg)
      BY <2>1, <2>2 DEF QueueInOrder
    <3>2. \A d, e : Before(d, e) => \E a, b \in DOMAIN sent' : a < b /\ sent'[a] = d /\ sent'[b] = e
      BY DEF Before
    <3> QED
      BY <2>1, <2>2, <3>1, <3>2
  <2>3. CASE k = Len(queue) + 1 /\ queue'[k] = new
    <3>1. queue'[k].msg = m /\ m \in Commands /\ IsSent(queue[j].msg)
      BY <1>2, <1>7, <2>1, <2>3
    <3>2. \A d : IsSent(d) => \E a, b \in DOMAIN sent' : a < b /\ sent'[a] = d /\ sent'[b] = m
      BY <3>1 DEF Before
    <3> QED
      BY <2>1, <3>1, <3>2
  <2> QED
    BY <1>6, <2>2, <2>3
<1>9. QueueIsSent'
  <2> SUFFICES ASSUME NEW k \in DOMAIN queue', queue'[k].msg \in Commands
               PROVE  \E a \in DOMAIN sent' : sent'[a] = queue'[k].msg
    BY DEF QueueIsSent, IsSent
  <2>1. \A d : IsSent(d) => \E a \in DOMAIN sent' : sent'[a] = d
    BY DEF IsSent
  <2>2. m \in Commands => \E a \in DOMAIN sent' : sent'[a] = m
    BY DEF IsSent
  <2> QED
    BY <1>2, <1>6, <1>7, <2>1, <2>2
<1>10. HeldIsEarly'
  BY <1>2, <1>6 DEF HeldIsEarly
<1>11. \A n : IsQueued(n)' = (IsQueued(n) \/ n = m)
  BY <1>1, <1>2, <1>4, <1>6 DEF IsQueued
<1> QED
  BY <1>4, <1>8, <1>9, <1>10, <1>11

LEMMA SendStep ==
  ASSUME OrderInv, SendCommand
  PROVE  OrderInv'
<1> USE Parts
<1>1. PICK c \in Commands \ ToSet(sent) : sent' = Append(sent, c) /\ Queued(c)
  BY DEF SendCommand
<1>2. UNCHANGED <<handling, client, handled, cutOff>>
  BY DEF SendCommand
<1>3. c \in Commands /\ c \in Messages /\ ~ IsSent(c)
  BY <1>1 DEF IsSent, ToSet, Messages
<1>4. /\ sent' \in Seq(Commands) /\ SentOnce'
      /\ \A d, e : Before(d, e) => Before(d, e)'
      /\ \A d : IsSent(d) => IsSent(d)' /\ Before(d, c)'
      /\ IsSent(c)'
      /\ DOMAIN sent \subseteq DOMAIN sent'
      /\ \A k \in DOMAIN sent : sent'[k] = sent[k]
      /\ \A k \in DOMAIN sent' : k \in DOMAIN sent \/ sent'[k] = c
      /\ \A j, k \in DOMAIN sent' : j < k => j \in DOMAIN sent
  BY <1>1, <1>3, SentAppended
<1>5. handled[c] = 0
  BY <1>3 DEF HandledInv
<1>6. /\ queue' \in Seq(Entry) /\ QueueInOrder' /\ QueueIsSent' /\ HeldIsEarly'
      /\ early \subseteq early'
      /\ \A n : IsQueued(n) => IsQueued(n)'
      /\ \A n : IsQueued(n)' => IsQueued(n) \/ n = c
      /\ c \in early' \/ \A n : n = c => IsQueued(n)'
  <2>1. CASE TopicOf(c) \in subs
    <3>1. queue' = Append(queue, [msg |-> c, held |-> FALSE]) /\ early' = early
      BY <1>1, <2>1 DEF Queued
    <3>2. /\ queue' \in Seq(Entry) /\ QueueInOrder' /\ QueueIsSent' /\ HeldIsEarly'
          /\ \A n : IsQueued(n)' = (IsQueued(n) \/ n = c)
      BY <1>3, <1>4, <3>1, QueueAppended
    <3> QED
      BY <3>1, <3>2
  <2>2. CASE TopicOf(c) \notin subs
    <3>1. queue' = queue /\ early' = early \cup {c}
      BY <1>1, <2>2 DEF Queued
    <3>2. QueueInOrder'
      BY <1>4, <3>1 DEF QueueInOrder, Before
    <3>3. QueueIsSent'
      BY <1>4, <3>1 DEF QueueIsSent, IsSent
    <3>4. HeldIsEarly' /\ \A n : IsQueued(n)' = IsQueued(n)
      BY <3>1 DEF HeldIsEarly, IsQueued
    <3> QED
      BY <3>1, <3>2, <3>3, <3>4 DEF Sequences, Entry
  <2> QED
    BY <2>1, <2>2
<1>7. Sequences'
  BY <1>4, <1>6 DEF Sequences, Entry
<1>8. NoneLost'
  <2>1. ASSUME NEW n, n \in Commands, IsQueued(n) \/ handled[n] > 0 \/ n \in early \/ n = c
        PROVE  IsQueued(n)' \/ handled[n] > 0 \/ n \in early'
    BY <1>6, <2>1
  <2>2. ASSUME NEW k \in DOMAIN sent'
        PROVE  LET n == sent'[k]
               IN  /\ n \in Commands
                   /\ IsQueued(n) \/ handled[n] > 0 \/ n \in early \/ n = c
    BY <1>3, <1>4, Indices DEF NoneLost
  <2>3. ASSUME NEW k \in DOMAIN sent'
        PROVE  \/ \E i \in DOMAIN queue' : queue'[i].msg = sent'[k]
               \/ handled[sent'[k]] > 0 \/ sent'[k] \in early'
    BY <2>1, <2>2 DEF IsQueued
  <2> QED
    BY <1>2, <2>3 DEF NoneLost, IsQueued
<1>9. HandledInOrder'
  <2> SUFFICES ASSUME NEW i \in DOMAIN sent', NEW j \in DOMAIN sent', i < j, handled[sent'[j]] > 0
               PROVE  handled[sent'[i]] > 0 \/ sent'[i] \in early'
    BY <1>2 DEF HandledInOrder
  <2>1. i \in DOMAIN sent /\ j \in DOMAIN sent
    BY <1>4, <1>5
  <2> QED
    BY <1>4, <1>6, <2>1 DEF HandledInOrder
<1>10. TwiceOnlyIfCutOff'
  BY <1>2 DEF TwiceOnlyIfCutOff
<1>11. HandlingInv'
  <2>1. handling.live => \E i \in DOMAIN queue' : queue'[i].msg = handling.msg
    <3>1. \A n : IsQueued(n) => \E i \in DOMAIN queue' : queue'[i].msg = n
      BY <1>6 DEF IsQueued
    <3> QED
      BY <3>1 DEF HandlingInv
  <2> QED
    BY <1>2, <2>1 DEF HandlingInv, IsQueued
<1>12. HandledInv'
  <2>1. \A n \in Commands : handled[n] > 0 => IsSent(n)'
    BY <1>4 DEF HandledInv
  <2>2. \A n \in Commands : handled[n] > 0 /\ IsQueued(n)'
           => n \in cutOff \/ (handling.msg = n /\ handling.live)
    BY <1>5, <1>6 DEF HandledInv
  <2> QED
    BY <1>2, <2>1, <2>2 DEF HandledInv
<1> QED
  BY <1>4, <1>6, <1>7, <1>8, <1>9, <1>10, <1>11, <1>12 DEF OrderInv

\* The organization key: no command.
LEMMA AnswerStep ==
  ASSUME OrderInv, AnswerKey
  PROVE  OrderInv'
<1> USE Parts
<1>1. Queued(OrgKey) /\ UNCHANGED <<sent, handling, client, handled, cutOff>>
      /\ OrgKey \notin Commands
  BY SessionAssumption DEF AnswerKey
<1>2. /\ queue' \in Seq(Entry) /\ QueueInOrder' /\ QueueIsSent' /\ HeldIsEarly'
      /\ early \subseteq early'
      /\ \A n : IsQueued(n) => IsQueued(n)'
      /\ \A n : IsQueued(n)' => IsQueued(n) \/ n = OrgKey
  <2>1. CASE TopicOf(OrgKey) \in subs
    <3>1. queue' = Append(queue, [msg |-> OrgKey, held |-> FALSE]) /\ early' = early
      BY <1>1, <2>1 DEF Queued
    <3>2. /\ \A d, e : Before(d, e) => Before(d, e)'
          /\ \A d : IsSent(d) => IsSent(d)'
      BY <1>1 DEF Before, IsSent
    <3>3. OrgKey \in Messages
      BY DEF Messages
    <3>4. /\ queue' \in Seq(Entry) /\ QueueInOrder' /\ QueueIsSent' /\ HeldIsEarly'
          /\ \A n : IsQueued(n)' = (IsQueued(n) \/ n = OrgKey)
      BY <1>1, <3>1, <3>2, <3>3, QueueAppended
    <3> QED
      BY <3>1, <3>4
  <2>2. CASE TopicOf(OrgKey) \notin subs
    <3>1. queue' = queue /\ early \subseteq early'
      BY <1>1, <2>2 DEF Queued
    <3> QED
      BY <1>1, <3>1
         DEF Sequences, Entry, QueueInOrder, QueueIsSent, HeldIsEarly, Before, IsSent, IsQueued
  <2> QED
    BY <2>1, <2>2
<1>3. Sequences' /\ SentOnce'
  BY <1>1, <1>2 DEF Sequences, Entry, SentOnce
<1>4. NoneLost'
  <2>1. \A n : IsQueued(n) => \E i \in DOMAIN queue' : queue'[i].msg = n
    BY <1>2 DEF IsQueued
  <2> QED
    BY <1>1, <1>2, <2>1 DEF NoneLost, IsQueued
<1>5. HandledInOrder' /\ TwiceOnlyIfCutOff'
  BY <1>1, <1>2 DEF HandledInOrder, TwiceOnlyIfCutOff
<1>6. HandlingInv'
  <2>1. \A n : IsQueued(n) => \E i \in DOMAIN queue' : queue'[i].msg = n
    BY <1>2 DEF IsQueued
  <2> QED
    BY <1>1, <2>1 DEF HandlingInv, IsQueued
<1>7. HandledInv'
  <2>1. \A n \in Commands : handled[n] > 0 /\ IsQueued(n)'
           => n \in cutOff \/ (handling.msg = n /\ handling.live)
    BY <1>1, <1>2 DEF HandledInv
  <2> QED
    BY <1>1, <2>1 DEF HandledInv, IsSent
<1> QED
  BY <1>2, <1>3, <1>4, <1>5, <1>6, <1>7 DEF OrderInv

(***************************************************************************)
(* Every step keeps the invariant.                                         *)
(***************************************************************************)
LEMMA StepOrder ==
  ASSUME RunInv, OrderInv, [Next]_vars
  PROVE  OrderInv'
<1> USE Parts
<1>1. CASE \/ Start \/ SetNodeStatus \/ DeleteNode \/ SendNodePublicKey
           \/ SendDisconnected \/ Terminate
           \/ BuildStatus \/ PublishStatus \/ Subscribe \/ UNCHANGED vars
  <2>1. /\ UNCHANGED <<queue, sent, handled, cutOff, handling, client>>
        /\ early' = early \/ early' = early \ {OrgKey}
    BY <1>1 DEF Start, SetNodeStatus, DeleteNode, SendNodePublicKey, SendDisconnected,
                Terminate, BuildStatus, PublishStatus, Subscribe
  <2> QED
    BY <2>1, QuietStep, SessionAssumption
<1>2. CASE Disconnect \/ Exit \/ Kill
  <2>1. Ends /\ UNCHANGED <<queue, sent, handled, early>>
    BY <1>2 DEF Disconnect, Exit, Kill, Ends
  <2> QED
    BY <2>1, QuietStep DEF Ends
<1>3. CASE Break
  BY <1>3, QuietStep DEF Break
<1>4. CASE Will
  BY <1>4, QuietStep DEF Will
<1>5. CASE ConnectNode
  <2>1. handling = Idle /\ UNCHANGED <<handling, sent, handled, early, cutOff>>
    BY <1>5 DEF ConnectNode, RunInv
  <2>2. CASE Connected
    BY <2>1, <2>2, ConnectedStep DEF Idle
  <2>3. CASE UNCHANGED sessionVars
    BY <2>1, <2>3, QuietStep
  <2> QED
    BY <1>5, <2>2, <2>3 DEF ConnectNode
<1>6. CASE Reconnect
  <2>1. ~ handling.live
    BY <1>6 DEF Reconnect, HandlingInv
  <2> QED
    BY <1>6, <2>1, ConnectedStep DEF Reconnect
<1>7. CASE Handle \/ ReceiveEarly \/ Handled \/ SendCommand \/ AnswerKey
  BY <1>7, HandleStep, EarlyStep, HandledStep, SendStep, AnswerStep
<1> QED
  BY <1>1, <1>2, <1>3, <1>4, <1>5, <1>6, <1>7
  DEF Next, Agent, Heartbeat, Connection, MessageLoop

LEMMA AlwaysInOrder == Spec => []OrderInv
<1>1. RunInv /\ SessionInv /\ OrderInv /\ [Next]_vars => (RunInv /\ SessionInv /\ OrderInv)'
  BY MainStep, GoroutineStep, OutsideStep, StepOrder
  DEF Next, Heartbeat, Connection, MessageLoop
<1> QED
  BY InitSession, InitOrder, <1>1, PTL DEF Spec

(***************************************************************************)
(* For any commands and any number of runs and connections: none is lost   *)
(* or overtaken but those that came too early (mqtt.go:103-146).           *)
(***************************************************************************)
THEOREM CommandsInOrder == Spec => []HandledInOrder
<1>1. OrderInv => HandledInOrder
  BY DEF OrderInv
<1> QED
  BY AlwaysInOrder, <1>1, PTL

(***************************************************************************)
(* For any commands and any number of runs and connections: none is        *)
(* handled twice but those whose handling was cut off.                     *)
(***************************************************************************)
THEOREM CommandsOnce == Spec => []TwiceOnlyIfCutOff
<1>1. OrderInv => TwiceOnlyIfCutOff
  BY DEF OrderInv
<1> QED
  BY AlwaysInOrder, <1>1, PTL
=============================================================================
