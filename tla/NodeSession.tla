----------------------------- MODULE NodeSession -----------------------------
(***************************************************************************)
(* The run of the agent and its MQTT session (main in cmd/agent/agent.go,  *)
(* internal/com/mqtt.go): connecting with a persistent session and a will, *)
(* subscribing in a goroutine of its own whenever the client has           *)
(* connected, handling messages one after the other, publishing the status *)
(* of the node and the public key, and disconnecting while the heartbeat   *)
(* goes on.  The agent may be stopped or killed at any time and the        *)
(* connection may break; client and broker notice that independently.      *)
(*                                                                         *)
(* The broker, MAPI and the MQTT library are external, and modelled from   *)
(* what the code asks of them.  MAPI answers a public key with the         *)
(* organization key.  A message that the client receives while its topic   *)
(* has no handler yet -- Subscribe sets it, mqtt.go:133 -- is dropped, or  *)
(* comes again with the next connection.                                   *)
(***************************************************************************)
EXTENDS Integers, Sequences, FiniteSets, SequencesExt

CONSTANTS Commands,    \* messages of MAPI; each is sent once
          NodeDelete,  \* the one that deletes the node, all others orchestrate
          OrgKey,      \* an organization key message
          NoMessage,
          MayFail,     \* bound: topics that the broker may refuse a subscription to
          MaxConnections \* bound on connections, of one or several runs

ASSUME SessionAssumption ==
    /\ OrgKey \notin Commands /\ NoMessage \notin Commands \cup {OrgKey}
    /\ MaxConnections \in Nat

VARIABLES pc,          \* how far the run of the agent is
          nodeStatus,  \* what the agent reports of itself
          hasKey,      \* whether it can decrypt
          routes,      \* topics that have a handler in this run
          subscribing, \* topics that onConnectHandler must still subscribe to
          handling,    \* the message being handled, and whether it can be acknowledged
          beat,        \* a status message that is built and not yet published
          client,      \* the connection as the client sees it
          broker,      \* as the broker sees it: a connected client has a will
          subs,        \* topics subscribed to in the persistent session
          queue,       \* messages of the session that are not acknowledged
          sent,        \* commands in the order MAPI has sent them
          keyDue,      \* MAPI has a public key to answer
          retained,    \* the retained node status
          handled,     \* how often each command has been handled
          early,       \* history: messages without subscription or handler
          cutOff,      \* history: commands that could not be acknowledged
          overtaken,   \* history: the last run published something after Disconnected
          deleted,     \* history: NodeDelete was handled in this run ...
          tooSoon,     \* history: ... before main set the status of the node
          connections  \* how many there have been

processVars == <<pc, nodeStatus, hasKey, routes, subscribing, handling, beat>>
sessionVars == <<client, broker, subs, queue, connections>>
mapiVars == <<sent, keyDue>>
history == <<handled, early, cutOff, overtaken, deleted, tooSoon>>
vars == <<processVars, sessionVars, mapiVars, retained, history>>

Messages == Commands \cup {OrgKey}
Topics == {"orchestration", "orgKey", "delete"}
TopicOf(m) ==
    CASE m = OrgKey -> "orgKey" [] m = NodeDelete -> "delete" [] OTHER -> "orchestration"

Stages == {"down", "start", "connected", "delete", "exiting", "key", "running",
           "stopping", "leaving"}
NodeStatus == {"Connected", "Disconnected", "Deleted"}
Idle == [msg |-> NoMessage, live |-> FALSE]

TypeOK ==
    /\ pc \in Stages /\ nodeStatus \in NodeStatus /\ hasKey \in BOOLEAN
    /\ routes \in SUBSET Topics /\ subscribing \in SUBSET Topics
    /\ handling \in [msg : Messages \cup {NoMessage}, live : BOOLEAN]
    /\ beat \in NodeStatus \cup {"None"}
    /\ client \in {"none", "up", "lost"} /\ broker \in {"none", "up"}
    /\ subs \in SUBSET Topics
    /\ \A i \in DOMAIN queue : queue[i] \in [msg : Messages, held : BOOLEAN]
    /\ \A i \in DOMAIN sent : sent[i] \in Commands
    /\ keyDue \in BOOLEAN /\ retained \in NodeStatus \cup {"None"}
    /\ handled \in [Commands -> 0 .. 2]
    /\ early \in SUBSET Messages /\ cutOff \in SUBSET Commands
    /\ {overtaken, deleted, tooSoon} \subseteq BOOLEAN
    /\ connections \in 0 .. MaxConnections

Init ==
    /\ pc = "down" /\ nodeStatus = "Disconnected" /\ hasKey = FALSE
    /\ routes = {} /\ subscribing = {} /\ handling = Idle /\ beat = "None"
    /\ client = "none" /\ broker = "none" /\ subs = {} /\ queue = <<>>
    /\ sent = <<>> /\ keyDue = FALSE
    /\ retained = "None"
    /\ handled = [c \in Commands |-> 0]
    /\ early = {} /\ cutOff = {}
    /\ overtaken = FALSE /\ deleted = FALSE /\ tooSoon = FALSE
    /\ connections = 0
-----------------------------------------------------------------------------
(* The run of the agent *)

\* The agent is started, after its records and its key pair were read.
Start ==
    /\ pc = "down"
    /\ pc' = "start"
    /\ early' = early \ {OrgKey}
    /\ UNCHANGED <<nodeStatus, hasKey, routes, subscribing, handling, beat, sessionVars,
                   mapiVars, retained, handled, cutOff, overtaken, deleted, tooSoon>>

\* Mutant: a clean session.
ForgetsSession == queue' = <<>> /\ subs' = {}

\* A persistent session: what was not acknowledged is delivered again.
KeepsSession ==
    /\ queue' = [i \in DOMAIN queue |-> [queue[i] EXCEPT !.held = FALSE]]
    /\ UNCHANGED subs

(***************************************************************************)
(* The client connects: the broker ends a connection it still has with the *)
(* will of that one.  onConnectHandler begins to subscribe.                *)
(***************************************************************************)
Connected ==
    /\ connections < MaxConnections
    /\ connections' = connections + 1
    /\ client' = "up" /\ broker' = "up"
    /\ retained' = IF broker = "up" THEN "Disconnected" ELSE retained
    /\ KeepsSession
    /\ subscribing' = Topics

\* createMqttClient; when it fails the agent ends.
ConnectNode ==
    /\ pc = "start"
    /\ \/ Connected /\ pc' = "connected" /\ overtaken' = FALSE
       \/ pc' = "down" /\ UNCHANGED <<sessionVars, retained, subscribing, overtaken>>
    /\ UNCHANGED <<nodeStatus, hasKey, routes, handling, beat, mapiVars,
                   handled, early, cutOff, deleted, tooSoon>>

\* The client connects again by itself.
Reconnect ==
    /\ client = "lost"
    /\ Connected
    /\ UNCHANGED <<pc, nodeStatus, hasKey, routes, handling, beat, mapiVars, history>>

Goes(next) == pc' = next

\* With --delete everything is removed next, otherwise the node is Connected.
SetNodeStatus ==
    /\ pc = "connected"
    /\ \/ Goes("delete") /\ UNCHANGED nodeStatus
       \/ Goes("key") /\ nodeStatus' = "Connected"
    /\ UNCHANGED <<hasKey, routes, subscribing, handling, beat, sessionVars, mapiVars,
                   retained, history>>

\* Mutant: with quality of service 0 the key is gone if the connection is.
SendKeyOnce ==
    /\ pc = "key"
    /\ Goes("running")
    /\ keyDue' = (client = "up")
    /\ UNCHANGED <<nodeStatus, hasKey, routes, subscribing, handling, beat, sessionVars,
                   sent, retained, history>>

\* Mutant: the status is set after the key was sent.
SendKeyThenSetStatus ==
    /\ pc = "key"
    /\ Goes("running")
    /\ keyDue' = TRUE
    /\ nodeStatus' = "Connected"
    /\ UNCHANGED <<hasKey, routes, subscribing, handling, beat, sessionVars,
                   sent, retained, history>>

\* With quality of service 1: it counts as sent also when the connection is
\* lost, and the library sends it later then.
SendNodePublicKey ==
    /\ pc = "key"
    /\ Goes("running")
    /\ keyDue' = TRUE
    /\ UNCHANGED <<nodeStatus, hasKey, routes, subscribing, handling, beat, sessionVars,
                   sent, retained, history>>

\* The status is published as a retained message; nothing arrives without a connection.
Publishes(status) == retained' = IF client = "up" THEN status ELSE retained

\* The agent has said already that it disconnects.
Overtakes == overtaken' = (overtaken \/ (pc = "leaving" /\ client = "up"))

\* Mutant: the message is built once and for all.
BuildStatusOnce ==
    /\ pc \in {"running", "stopping", "leaving"} /\ beat = "None"
    /\ beat' = "Connected"
    /\ UNCHANGED <<pc, nodeStatus, hasKey, routes, subscribing, handling, sessionVars,
                   mapiVars, retained, history>>

\* A heartbeat: the message is built, and published a while later.
BuildStatus ==
    /\ pc \in {"running", "stopping", "leaving"} /\ beat = "None"
    /\ beat' = nodeStatus
    /\ UNCHANGED <<pc, nodeStatus, hasKey, routes, subscribing, handling, sessionVars,
                   mapiVars, retained, history>>

PublishStatus ==
    /\ beat # "None"
    /\ beat' = "None"
    /\ Publishes(beat)
    /\ Overtakes
    /\ UNCHANGED <<pc, nodeStatus, hasKey, routes, subscribing, handling, sessionVars,
                   mapiVars, handled, early, cutOff, deleted, tooSoon>>

\* SIGTERM
Terminate ==
    /\ pc = "running"
    /\ Goes("stopping")
    /\ UNCHANGED <<nodeStatus, hasKey, routes, subscribing, handling, beat, sessionVars,
                   mapiVars, retained, history>>

\* Mutant: the agent leaves without a word, and without its will.
LeavesSilently == UNCHANGED retained

SendDisconnectedStatus == Publishes("Disconnected")

\* DisconnectNode, first part
SendDisconnected ==
    /\ pc = "stopping"
    /\ Goes("leaving")
    /\ SendDisconnectedStatus
    /\ overtaken' = FALSE
    /\ UNCHANGED <<nodeStatus, hasKey, routes, subscribing, handling, beat, sessionVars,
                   mapiVars, handled, early, cutOff, deleted, tooSoon>>

\* The memory of the agent is gone; what was being handled is not acknowledged.
Ends ==
    /\ pc' = "down"
    /\ routes' = {} /\ subscribing' = {} /\ handling' = Idle /\ beat' = "None"
    /\ nodeStatus' = "Disconnected" /\ hasKey' = FALSE
    /\ client' = "none"
    /\ deleted' = FALSE /\ tooSoon' = FALSE
    /\ cutOff' = cutOff \cup ({handling.msg} \cap Commands)
    /\ UNCHANGED <<subs, queue, connections, mapiVars, handled, early>>

\* DisconnectNode, second part: the broker forgets the will, if it is told.
Disconnect ==
    /\ pc = "leaving"
    /\ broker' = IF client = "up" THEN "none" ELSE broker
    /\ Ends
    /\ UNCHANGED <<retained, overtaken>>

\* --delete: when everything is removed, main sets the status of the node.
DeleteNode ==
    /\ pc = "delete"
    /\ Goes("exiting") /\ nodeStatus' = "Disconnected"
    /\ UNCHANGED <<hasKey, routes, subscribing, handling, beat, sessionVars, mapiVars,
                   retained, history>>

\* It is published as it is by then, and the agent exits without disconnecting.
Exit ==
    /\ pc = "exiting"
    /\ Publishes(nodeStatus)
    /\ Ends
    /\ UNCHANGED <<broker, overtaken>>

\* The agent is killed, or ends with log.Fatal.
Kill ==
    /\ pc # "down"
    /\ Ends
    /\ UNCHANGED <<broker, retained, overtaken>>
-----------------------------------------------------------------------------
(* Subscribing and handling *)

(***************************************************************************)
(* The next of subscriptionsMap, in random order: the library sets the     *)
(* handler, then asks the broker.  When that fails it is only logged, and  *)
(* the topic stays as it is until the client connects again.               *)
(***************************************************************************)
Subscribe ==
    /\ client = "up"
    /\ \E t \in subscribing :
         /\ subscribing' = subscribing \ {t}
         /\ routes' = routes \cup {t}
         /\ \/ subs' = subs \cup {t}
            \/ t \in MayFail /\ UNCHANGED subs
    /\ UNCHANGED <<pc, nodeStatus, hasKey, handling, beat, client, broker, queue, connections,
                   mapiVars, retained, history>>

\* The first message of the session that waits for this connection.
Waiting == {i \in DOMAIN queue : ~ queue[i].held}
First == CHOOSE i \in Waiting : \A j \in Waiting : i <= j

CanReceive ==
    /\ client = "up" /\ handling = Idle
    /\ Waiting # {}

\* Mutant: messages are handled in any order.
IsNextAnyhow(i) == i \in Waiting

IsNext(i) == i = First

\* A handler is called.  A command counts up to 2.
Handle ==
    /\ CanReceive
    /\ \E i \in Waiting :
         LET m == queue[i].msg
         IN  /\ IsNext(i)
             /\ TopicOf(m) \in routes
             /\ handling' = [msg |-> m, live |-> TRUE]
             /\ handled' = IF m \in Commands /\ handled[m] < 2
                           THEN [handled EXCEPT ![m] = @ + 1]
                           ELSE handled
    /\ UNCHANGED <<pc, nodeStatus, hasKey, routes, subscribing, beat, sessionVars, mapiVars,
                   retained, early, cutOff, overtaken, deleted, tooSoon>>

\* There is no handler: the message is dropped, or left to the next connection.
ReceiveEarly ==
    /\ CanReceive
    /\ LET i == First
           m == queue[i].msg
       IN  /\ TopicOf(m) \notin routes
           /\ early' = early \cup {m}
           /\ \/ queue' = RemoveAt(queue, i)
              \/ queue' = [queue EXCEPT ![i].held = TRUE]
    /\ UNCHANGED <<processVars, client, broker, subs, connections, mapiVars, retained, handled, cutOff,
                   overtaken, deleted, tooSoon>>

Where(m) == CHOOSE i \in DOMAIN queue : queue[i].msg = m

\* NodeDeleteHandler sets the status of the node and publishes it, the other
\* commands publish it or reject the message.
HandlerReports ==
    IF handling.msg = NodeDelete
    THEN /\ nodeStatus' = "Deleted"
         /\ Publishes("Deleted") /\ Overtakes
         /\ deleted' = TRUE
         /\ tooSoon' = (pc \in {"connected", "delete"})
    ELSE /\ \/ handling.msg \in Commands /\ Publishes(nodeStatus) /\ Overtakes
            \/ UNCHANGED <<retained, overtaken>>
         /\ UNCHANGED <<nodeStatus, deleted, tooSoon>>

\* Mutant: no message is acknowledged.
NotAcknowledged == [queue EXCEPT ![Where(handling.msg)].held = TRUE]

\* The message that was handled is acknowledged, if its connection still is.
Acknowledged ==
    IF handling.live THEN RemoveAt(queue, Where(handling.msg)) ELSE queue

\* The handler returns.
Handled ==
    /\ handling # Idle
    /\ handling' = Idle
    /\ hasKey' = (hasKey \/ handling.msg = OrgKey)
    /\ HandlerReports
    /\ queue' = Acknowledged
    /\ UNCHANGED <<pc, routes, subscribing, beat, client, broker, subs, connections, mapiVars,
                   handled, early, cutOff>>
-----------------------------------------------------------------------------
(* The network, the broker and MAPI *)

\* The connection breaks and the client notices.
Break ==
    /\ client = "up"
    /\ client' = "lost"
    /\ subscribing' = {}
    /\ handling' = [handling EXCEPT !.live = FALSE]
    /\ cutOff' = cutOff \cup ({handling.msg} \cap Commands)
    /\ UNCHANGED <<pc, nodeStatus, hasKey, routes, beat, broker, subs, queue, connections, mapiVars,
                   retained, handled, early, overtaken, deleted, tooSoon>>

\* The broker notices that a client has gone, and publishes its will.
Will ==
    /\ broker = "up" /\ client # "up"
    /\ broker' = "none"
    /\ retained' = "Disconnected"
    /\ UNCHANGED <<processVars, client, subs, queue, connections, mapiVars, history>>

\* A message for the session; there is none without a subscription.
Queued(m) ==
    IF TopicOf(m) \in subs
    THEN queue' = Append(queue, [msg |-> m, held |-> FALSE]) /\ UNCHANGED early
    ELSE early' = early \cup {m} /\ UNCHANGED queue

\* MAPI sends nothing after NodeDelete.
SendCommand ==
    /\ NodeDelete \notin ToSet(sent)
    /\ \E c \in Commands \ ToSet(sent) :
         sent' = Append(sent, c) /\ Queued(c)
    /\ UNCHANGED <<processVars, client, broker, subs, connections, keyDue, retained, handled, cutOff,
                   overtaken, deleted, tooSoon>>

AnswerKey ==
    /\ keyDue /\ broker = "up"
    /\ keyDue' = FALSE
    /\ Queued(OrgKey)
    /\ UNCHANGED <<processVars, client, broker, subs, connections, sent, retained, handled, cutOff,
                   overtaken, deleted, tooSoon>>

Agent ==
    \/ ConnectNode \/ SetNodeStatus \/ SendNodePublicKey
    \/ SendDisconnected \/ Disconnect \/ DeleteNode \/ Exit

Heartbeat == BuildStatus \/ PublishStatus
Connection == Reconnect \/ Subscribe
MessageLoop == Handle \/ ReceiveEarly \/ Handled

Next ==
    \/ Start \/ Agent \/ Terminate \/ Kill
    \/ Heartbeat \/ Connection \/ MessageLoop
    \/ Break \/ Will \/ SendCommand \/ AnswerKey

Spec == Init /\ [][Next]_vars

(***************************************************************************)
(* The loop of the heartbeat never ends, handlers return, and what library *)
(* and broker are to do they do in the end.                                *)
(***************************************************************************)
FairSpec ==
    /\ Spec
    /\ WF_vars(Heartbeat) /\ WF_vars(Connection) /\ WF_vars(MessageLoop)
    /\ WF_vars(Will) /\ WF_vars(AnswerKey)
-----------------------------------------------------------------------------
(* Properties *)

(***************************************************************************)
(* Commands are not lost or overtaken, whatever breaks: when one has been  *)
(* handled, all that were sent before it have been -- but those that came  *)
(* when the session had no subscription yet or the new run no handler.     *)
(***************************************************************************)
HandledInOrder ==
    \A i, j \in DOMAIN sent :
        i < j /\ handled[sent[j]] > 0 => handled[sent[i]] > 0 \/ sent[i] \in early

(***************************************************************************)
(* A command is handled twice only if the connection or the agent was lost *)
(* while it was being handled.                                             *)
(***************************************************************************)
TwiceOnlyIfCutOff == \A c \in Commands : handled[c] > 1 => c \in cutOff

(***************************************************************************)
(* When the agent is down, however it ended, and the broker knows, the     *)
(* retained status says Disconnected -- but when a heartbeat or a handler  *)
(* published something between the last status message and the             *)
(* disconnection (agent.go:102): then the node seems Connected until it is *)
(* started again.                                                          *)
(***************************************************************************)
DownIsDisconnected ==
    pc = "down" /\ broker = "none" => retained \in {"None", "Disconnected"} \/ overtaken

(***************************************************************************)
(* A deleted node says so for the rest of the run -- but when the message  *)
(* was waiting and is handled before main sets the status of the node: to  *)
(* Connected (agent.go:83) or, with --delete, to Disconnected when all     *)
(* edge apps are removed (node_msg.go:24, called at agent.go:79).  Then    *)
(* that status takes the place of Deleted.                                 *)
(***************************************************************************)
DeletedIsReported == deleted => nodeStatus = "Deleted" \/ tooSoon

(***************************************************************************)
(* An agent that stays up and connected is seen as what it is in the end,  *)
(* whatever wills and messages of earlier connections come.                *)
(***************************************************************************)
StaysUp == pc = "running" /\ client = "up"
UpIsReported == <>[]StaysUp => <>[](retained = nodeStatus)

(***************************************************************************)
(* It gets the organization key, and handles what is sent to it.  The key  *)
(* may come too early, for it is asked for while the subscriptions are     *)
(* still being made (agent.go:73-85).                                      *)
(***************************************************************************)
KeyComes == <>[]StaysUp => <>[](hasKey \/ OrgKey \in early)
CommandsComeThrough ==
    <>[]StaysUp => <>[](\A c \in ToSet(sent) : handled[c] > 0 \/ c \in early)
=============================================================================
