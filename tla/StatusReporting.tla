--------------------------- MODULE StatusReporting ---------------------------
(***************************************************************************)
(* How the agent reports on edge apps (internal/edgeapp/status.go, the     *)
(* monitor and the heartbeat of cmd/agent/agent.go).  The handler after    *)
(* every status it sets, the heartbeat periodically and the monitor when   *)
(* it notices a change each build a status message from the records and    *)
(* from docker, and publish it as a retained message.  They run            *)
(* concurrently and without a lock: building a message takes one call to   *)
(* docker per edge app and one per container, and the handler, containers  *)
(* and the other reporters go on in between.                               *)
(*                                                                         *)
(* What the handler does to edge apps is what Lifecycle allows, which      *)
(* EdgeApp implements; restarts do not take part.  Of a message the status *)
(* of the node and of each edge app is kept.  A status that is set once    *)
(* more to what it was is not sent again here.                             *)
(***************************************************************************)
EXTENDS Integers, Sequences, FiniteSets, Statuses

CONSTANTS Apps, NoApp,
          Reached,     \* the statuses that are reached, others are left out
          Modules,     \* number of modules in every manifest
          Containers,  \* what an edge app may have, also left from other versions
          Reporters,   \* those that take part
          Watched,     \* those of which a history is kept
          MaxEntries,  \* bound on entries of a message: no entry that was
                       \* removed and added again is visited again after it
          MaxFaults    \* bound on messages that are lost or not sent

ASSUME ReportingAssumption ==
    /\ Reporters \subseteq {"handler", "heartbeat", "monitor"}
    /\ Reached \subseteq Status \cup {"Deleted"} /\ "Unknown" \in Reached
    /\ Modules \in Nat /\ MaxEntries \in Nat /\ MaxFaults \in Nat

VARIABLES status,      \* the status of each record, or Unknown
          ctr,         \* the state of each container of each edge app
          nodeStatus,
          rep,         \* what each reporter is busy with
          monitor,     \* edgeApps and latestEdgeApps of the monitor
          retained,    \* the retained message on the topic nodestatus
          faults

envVars == <<status, ctr, nodeStatus>>
vars == <<envVars, rep, monitor, retained, faults>>

Absent == "absent"
\* "failed" has exited with another code than 0 and 137, "exited" with one of them.
ContainerState == {Absent, "created", "running", "restarting", "exited", "failed"}

ContainersOf(a) == {c \in Containers : ctr[a][c] # Absent}

IsKnown(a) == status[a] # "Unknown"
KnownApps == {a \in Apps : IsKnown(a)}

(***************************************************************************)
(* A call of GetEdgeAppStatus.  todo are the entries of the map that the   *)
(* range over it must still come to, done those it has come to.  Of the    *)
(* edge app at hand: status follows the record that manif points to, also  *)
(* when the map has another one by now (live), reported is                 *)
(* edgeApplication.Status, listed are the containers still to inspect,     *)
(* with their listed states.  History: truths are the statuses that were   *)
(* right since the edge app was picked, moved says that its record has     *)
(* changed since, after which truths are not kept.                         *)
(***************************************************************************)
NoEntry == [app |-> NoApp, status |-> "Initiated", live |-> FALSE,
            reported |-> "Initiated", listed |-> {}, truths |-> {}, moved |-> FALSE]
Nothing == [pc |-> "idle", compare |-> FALSE, todo |-> {}, done |-> {},
            at |-> NoEntry, out |-> <<>>, node |-> "Connected"]

Begin(apps, compare) ==
    [Nothing EXCEPT !.pc = "pick", !.compare = compare, !.todo = apps]

Message(node, entries) == [node |-> node, apps |-> entries]
EntriesOf(s) == {s[i] : i \in DOMAIN s}

Init ==
    /\ status = [a \in Apps |-> "Unknown"]
    /\ ctr = [a \in Apps |-> [c \in Containers |-> Absent]]
    /\ nodeStatus = "Connected"
    /\ rep = [r \in Reporters |-> Nothing]
    /\ monitor = [seen |-> <<>>, latest |-> <<>>]
    /\ retained = Message("Connected", {})
    /\ faults = 0
-----------------------------------------------------------------------------
(* What the status of an edge app should be *)

\* Mutant: the exit code is not looked at.
AsExpectedButCode(s, state, now) ==
    /\ s = "Running" => state = "running"
    /\ s = "Stopped" => state \in {"exited", "failed"}

\* The listed state and the exit code of now are those for this status (91-95).
AsExpected(s, state, now) ==
    /\ s = "Running" => state = "running"
    /\ s = "Stopped" => state \in {"exited", "failed"} /\ now # "failed"

\* What is right at one moment, as opposed to what is put together over time.
TrueStatus(a) ==
    IF \/ /\ status[a] = "Running"
          /\ \E c \in ContainersOf(a) : ctr[a][c] # "running"
       \/ /\ status[a] = "Stopped"
          /\ \E c \in ContainersOf(a) : ctr[a][c] # "exited"
       \/ /\ status[a] \in {"Running", "Stopped"}
          /\ Cardinality(ContainersOf(a)) # Modules
    THEN "Error"
    ELSE status[a]

Truth == Message(nodeStatus, {[app |-> a, status |-> TrueStatus(a)] : a \in KnownApps})
-----------------------------------------------------------------------------
(* GetEdgeAppStatus, step by step *)

Goes(r, new) == rep' = [rep EXCEPT ![r] = new]
Quietly == UNCHANGED <<envVars, monitor, retained, faults>>

\* The entry is complete: on to the next one.
Completed(m, s) ==
    [m EXCEPT !.pc = "pick", !.at = NoEntry,
              !.out = Append(@, [app |-> m.at.app, status |-> s])]

Noticed(r, truths) == IF r \in Watched THEN truths ELSE {}

\* The next entry of the map, in random order (63-69).
Pick(r) ==
    /\ rep[r].pc = "pick"
    /\ \E a \in KnownApps \ rep[r].done :
         LET m == [rep[r] EXCEPT
                     !.pc = "list", !.todo = @ \ {a}, !.done = @ \cup {a},
                     !.at = [NoEntry EXCEPT
                               !.app = a, !.status = status[a], !.live = TRUE,
                               !.reported = status[a],
                               !.truths = Noticed(r, {TrueStatus(a)})]]
         IN  Goes(r, IF status[a] = "Undeployed" THEN Completed(m, "Undeployed") ELSE m)
    /\ Quietly

\* ReadEdgeAppContainers, and the number of containers (71-78).
List(r) ==
    /\ rep[r].pc = "list"
    /\ LET at == rep[r].at
           cons == ContainersOf(at.app)
           reported == IF at.status \in {"Running", "Stopped"} /\ Cardinality(cons) # Modules
                       THEN "Error"
                       ELSE at.reported
       IN  Goes(r, IF cons = {}
                   THEN Completed(rep[r], reported)
                   ELSE [rep[r] EXCEPT
                           !.pc = "inspect",
                           !.at.reported = reported,
                           !.at.listed = {[con |-> c, state |-> ctr[at.app][c]] : c \in cons}])
    /\ Quietly

\* The record's status of now, the listed state, the exit code of now (90-97).
Judged(at, l) ==
    IF /\ at.status \notin {"Initiated", "Executing"}
       /\ ~ AsExpected(at.status, l.state, ctr[at.app][l.con])
    THEN "Error"
    ELSE at.reported

\* InspectContainer fails when the container is gone: there is no message.
Inspect(r) ==
    /\ rep[r].pc = "inspect"
    /\ LET at == rep[r].at
       IN  \E l \in at.listed :
             Goes(r, IF l.state = Absent
                     THEN Nothing
                     ELSE IF at.listed = {l}
                     THEN Completed(rep[r], Judged(at, l))
                     ELSE [rep[r] EXCEPT !.at.listed = @ \ {l},
                                         !.at.reported = Judged(at, l)])
    /\ Quietly

RangeEnds(r) == rep[r].pc = "pick" /\ rep[r].todo = {}

\* Mutant: a change is noticed only if edge apps have come or gone.
SameLength(seen, latest) == Len(seen) = Len(latest)

\* CompareEdgeAppStatus: position by position.
SameList(seen, latest) ==
    /\ Len(seen) = Len(latest)
    /\ \A i \in DOMAIN seen : seen[i].status = latest[i].status

\* The monitor sends a status message, built anew, when something changed.
Compare(r) ==
    /\ RangeEnds(r) /\ rep[r].compare
    /\ IF SameList(monitor.seen, rep[r].out)
       THEN Goes(r, Nothing) /\ UNCHANGED monitor
       ELSE /\ Goes(r, Begin(KnownApps, FALSE))
            /\ monitor' = [monitor EXCEPT !.latest = rep[r].out]
    /\ UNCHANGED <<envVars, retained, faults>>

Fault == faults < MaxFaults /\ faults' = faults + 1

\* GetStatusMessage is complete, or the parameters of the device are missing.
MakeMessage(r) ==
    /\ RangeEnds(r) /\ ~ rep[r].compare
    /\ \/ /\ Goes(r, [rep[r] EXCEPT !.pc = "publish", !.node = nodeStatus, !.done = {}])
          /\ UNCHANGED faults
       \/ Goes(r, Nothing) /\ Fault
    /\ UNCHANGED <<envVars, monitor, retained>>

\* The monitor takes over the list it has compared when it has sent a message.
Noted(r) == IF r = "monitor" THEN [seen |-> monitor.latest, latest |-> <<>>] ELSE monitor

\* The message is published, or lost without notice, or publishing fails.
Publish(r) ==
    /\ rep[r].pc = "publish"
    /\ Goes(r, Nothing)
    /\ \/ /\ retained' = Message(rep[r].node, EntriesOf(rep[r].out))
          /\ monitor' = Noted(r)
          /\ UNCHANGED faults
       \/ Fault /\ monitor' = Noted(r) /\ UNCHANGED retained
       \/ Fault /\ UNCHANGED <<monitor, retained>>
    /\ UNCHANGED envVars

\* Mutant: the heartbeat is sent once, not in a loop.
WakesOnce(r) == r = "monitor" \/ retained.apps = {}

Wakes(r) == r # "handler"

\* The heartbeat's and the monitor's sleep is over.
Wake(r) ==
    /\ Wakes(r)
    /\ rep[r].pc = "idle"
    /\ Goes(r, Begin(KnownApps, r = "monitor"))
    /\ Quietly

Report(r) ==
    Wake(r) \/ Pick(r) \/ List(r) \/ Inspect(r) \/ Compare(r) \/ MakeMessage(r)
      \/ Publish(r)
-----------------------------------------------------------------------------
(* What goes on meanwhile *)

\* AddKnownManifest or DeleteKnownManifest: the old record stays as it was.
Replaced(a) == status'[a] # status[a] /\ status'[a] \in {"Unknown", "Initiated"}

StillPointsTo(at) == at.live /\ ~ Replaced(at.app)
Moves(at) == at.live /\ status'[at.app] # status[at.app]

\* A container that is created later has another id, which is not in the list.
Gone(l) == [l EXCEPT !.state = Absent]

(***************************************************************************)
(* A message being built while records and containers change: an entry     *)
(* that is removed from the map need not be visited any more; one that is  *)
(* added may be, also if the range has come to it before.                  *)
(***************************************************************************)
FollowEntry(r, at) ==
    [at EXCEPT
       !.live = StillPointsTo(at),
       !.status = IF StillPointsTo(at) THEN status'[at.app] ELSE @,
       !.listed = {IF ctr'[at.app][l.con] = Absent THEN Gone(l) ELSE l : l \in @},
       !.moved = @ \/ (Moves(at) /\ r \in Watched),
       !.truths = IF at.live /\ ~ at.moved /\ ~ Moves(at)
                  THEN @ \cup Noticed(r, {TrueStatus(a)' : a \in {at.app}})
                  ELSE {}]

Follow(r, m) ==
    [m EXCEPT
       !.todo = @ \cap KnownApps',
       !.done = IF Len(m.out) < MaxEntries THEN @ \cap KnownApps' ELSE @,
       !.at = FollowEntry(r, @)]

\* setAndSendStatus, or SendStatus after a record or the node was deleted.
StatusSet ==
    \/ nodeStatus' # nodeStatus
    \/ \E a \in Apps : status'[a] # status[a] /\ status'[a] # "Initiated"

Everybody ==
    rep' = [r \in Reporters |-> IF r = "handler" /\ StatusSet
                                THEN Begin(KnownApps', FALSE)
                                ELSE Follow(r, rep[r])]

\* The handler goes on when its status message has been sent.
HandlerFree == "handler" \in Reporters => rep["handler"].pc = "idle"

SetContainer(a, c, state) == ctr' = [ctr EXCEPT ![a][c] = state]

\* What a command does to a container: deploy, stop, resume, undeploy.
HandleContainer(a, c) ==
    \/ /\ status[a] = "Initiated" /\ ctr[a][c] = Absent
       /\ SetContainer(a, c, "created")
    \/ /\ status[a] \in {"Initiated", "Executing"}
       /\ ctr[a][c] \in {"created", "exited", "failed"}
       /\ SetContainer(a, c, "running")
    \/ /\ status[a] = "Executing" /\ ctr[a][c] \in {"running", "restarting"}
       /\ SetContainer(a, c, "exited")
    \/ /\ status[a] = "Executing" /\ ctr[a][c] # Absent
       /\ SetContainer(a, c, Absent)

\* Commands are executed one after the other.
AtWork == {a \in Apps : status[a] \in {"Initiated", "Executing"}}

\* A step of a command: its edge app changes its status or a container.
HandlerActs ==
    /\ HandlerFree
    /\ \E a \in Apps :
         /\ AtWork \subseteq {a}
         /\ \/ /\ \E s \in Follows[status[a]] \cap Reached :
                   /\ s = "Undeployed" => ContainersOf(a) = {}
                   /\ status' = [status EXCEPT ![a] = s]
               /\ UNCHANGED ctr
            \/ /\ \E c \in Containers : HandleContainer(a, c)
               /\ UNCHANGED status
    /\ UNCHANGED nodeStatus
    /\ Everybody
    /\ UNCHANGED <<monitor, retained, faults>>

\* Everything has been removed, or could not be, when the status is set.
DeleteNode ==
    /\ HandlerFree /\ AtWork = {} /\ "Deleted" \in Reached
    /\ nodeStatus' = "Deleted"
    /\ UNCHANGED <<status, ctr>>
    /\ Everybody
    /\ UNCHANGED <<monitor, retained, faults>>

\* A container exits, fails, is restarted or given up by docker, or is removed.
ContainerActs ==
    /\ \E a \in Apps, c \in Containers :
         \/ /\ ctr[a][c] = "running"
            /\ \E state \in {"exited", "restarting"} : SetContainer(a, c, state)
         \/ /\ ctr[a][c] = "restarting"
            /\ \E state \in {"running", "failed"} : SetContainer(a, c, state)
         \/ ctr[a][c] # Absent /\ SetContainer(a, c, Absent)
    /\ UNCHANGED <<status, nodeStatus>>
    /\ Everybody
    /\ UNCHANGED <<monitor, retained, faults>>

Next ==
    \/ HandlerActs \/ DeleteNode \/ ContainerActs
    \/ \E r \in Reporters : Report(r)

Spec == Init /\ [][Next]_vars

\* The heartbeat's loop never ends and its calls answer.
FairSpec == Spec /\ WF_vars(Report("heartbeat"))
-----------------------------------------------------------------------------
(* Properties *)

(***************************************************************************)
(* Although an entry is put together from readings at different times,     *)
(* what it says was right at some time while it was built -- unless the    *)
(* record changed in between.  (Then it may be wrong: a STOP that ends     *)
(* between listing and inspecting makes a healthy edge app an Error.)      *)
(***************************************************************************)
EntryWasTrue ==
    [][\A r \in Reporters :
         r \in Watched /\ Len(rep'[r].out) > Len(rep[r].out) =>
            LET entry == rep'[r].out[Len(rep'[r].out)]
            IN  \/ entry.status \in rep[r].at.truths
                \/ rep[r].at.moved
                \/ entry.status = "Undeployed" /\ status[entry.app] = "Undeployed"]_vars

(***************************************************************************)
(* The handler's, the heartbeat's and the monitor's messages overtake each *)
(* other, and single ones are lost.  But when records and containers stop  *)
(* changing, the retained message becomes right and stays so: the          *)
(* heartbeat repairs what the monitor and the handler leave.               *)
(***************************************************************************)
truthVars == <<status, ctr, nodeStatus>>
RetainedBecomesTrue == <>[][FALSE]_truthVars => <>[](retained = Truth)

(***************************************************************************)
(* The lists that the monitor compares by position are in the random order *)
(* of a map (status.go:115).  Whatever the orders, it does not miss that   *)
(* the status of one edge app has changed, the others being the same --    *)
(* but when an edge app that was removed and added again during a range is *)
(* in a list twice.                                                        *)
(***************************************************************************)
OnceEach(s) == \A i, j \in DOMAIN s : s[i].app = s[j].app => i = j
OneChange(seen, latest) ==
    /\ OnceEach(seen) /\ OnceEach(latest)
    /\ {e.app : e \in EntriesOf(seen)} = {e.app : e \in EntriesOf(latest)}
    /\ Cardinality(EntriesOf(seen) \ EntriesOf(latest)) = 1
OneChangeNoticed ==
    [][\A r \in Reporters :
         rep[r].compare /\ RangeEnds(r) /\ rep'[r].pc = "idle" =>
            ~ OneChange(monitor.seen, rep[r].out)]_vars
=============================================================================
