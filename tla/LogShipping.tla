----------------------------- MODULE LogShipping -----------------------------
(***************************************************************************)
(* How the logs of edge apps are shipped (sendEdgeAppLogs in               *)
(* cmd/agent/agent.go, internal/edgeapp/logs.go).  A goroutine goes round  *)
(* the records.  For each it reads, container by container, the lines      *)
(* since LastLogReadTime and until the time the round began, publishes     *)
(* them and stores until as the new LastLogReadTime.  It works on a copy   *)
(* of the record and without a lock, while the handler deploys and         *)
(* undeploys and containers write on; a step that fails ends the work on   *)
(* the edge app until the next round.                                      *)
(*                                                                         *)
(* A time is modelled by what it separates: the number of lines that each  *)
(* container has written by then.  The clock of the host does not go back, *)
(* and no line has the very time a round began.  A container is one        *)
(* identity: it is created once.                                           *)
(*                                                                         *)
(* Of the image of a container it matters whether docker shows it with a   *)
(* slash: the name of the module is what follows it (logs.go:62).  A name  *)
(* without a registry or an owner has none, and neither has the ID that is *)
(* shown once the name stands for another image.                           *)
(***************************************************************************)
EXTENDS Integers, FiniteSets

CONSTANTS Apps, NoApp,
          Containers,
          Bare,        \* those whose image is shown without a slash
          MaxLines,    \* bound on the lines of a container
          MaxWritten,  \* bound on the lines of all containers
          MaxFaults,   \* bound on calls that fail and messages that are lost
          MaxKills     \* bound on restarts of the agent

ASSUME ShippingAssumption ==
    /\ NoApp \notin Apps
    /\ Bare \subseteq Containers
    /\ {MaxLines, MaxWritten, MaxFaults, MaxKills} \subseteq Nat

VARIABLES known,      \* the records: whether Undeployed, LastLogReadTime
          disk,       \* the records in the file
          owner,      \* the edge app of each container that was created
          here,       \* the containers that exist
          lines,      \* the number of lines each container has written
          round,      \* the goroutine
          times,      \* how often each line has been received
          lost,       \* lines that were lost although publishing seemed to succeed
          excused,    \* history: containers that may have lines received again
          faults, kills

vars == <<known, disk, owner, here, lines, round, times, lost, excused, faults, kills>>
dockerVars == <<owner, here, lines>>
history == <<times, lost, excused>>

Line == Containers \X (1 .. MaxLines)
Time == [Containers -> 0 .. MaxLines]
Never == [c \in Containers |-> 0]
Between(since, until) == {l \in Line : since[l[1]] < l[2] /\ l[2] <= until[l[1]]}

Unknown == [known |-> FALSE, undeployed |-> FALSE, since |-> Never]
Record(undeployed, since) == [known |-> TRUE, undeployed |-> undeployed, since |-> since]

IsKnown(a) == known[a].known
ContainersOf(a) == {c \in here : owner[c] = a}

Sleeping == [pc |-> "sleep", until |-> Never, todo |-> {}, app |-> NoApp,
             since |-> Never, unread |-> {}, msg |-> {}]

TypeOK ==
    /\ known \in [Apps -> [known : BOOLEAN, undeployed : BOOLEAN, since : Time]]
    /\ disk \in [Apps -> [known : BOOLEAN, undeployed : BOOLEAN, since : Time]]
    /\ owner \in [Containers -> Apps \cup {NoApp}]
    /\ here \in SUBSET Containers
    /\ lines \in Time
    /\ round \in [pc : {"sleep", "pick", "list", "read", "publish", "save"},
                  until : Time, todo : SUBSET Apps, app : Apps \cup {NoApp},
                  since : Time, unread : SUBSET Containers, msg : SUBSET Line]
    /\ times \in [Line -> 0 .. 2] /\ lost \in SUBSET Line
    /\ excused \in SUBSET Containers
    /\ faults \in 0 .. MaxFaults /\ kills \in 0 .. MaxKills

Init ==
    /\ known = [a \in Apps |-> Unknown]
    /\ disk = known
    /\ owner = [c \in Containers |-> NoApp]
    /\ here = {}
    /\ lines = Never
    /\ round = Sleeping
    /\ times = [l \in Line |-> 0]
    /\ lost = {} /\ excused = {}
    /\ faults = 0 /\ kills = 0
-----------------------------------------------------------------------------
(* A round of the goroutine *)

\* On to the next edge app; what one of them returns is not looked at.
NextApp == [round EXCEPT !.pc = "pick", !.app = NoApp, !.since = Never,
                         !.unread = {}, !.msg = {}]

Fault == faults < MaxFaults /\ faults' = faults + 1

\* Mutant: an error ends the goroutine.
FailsForGood ==
    /\ Fault
    /\ round' = [Sleeping EXCEPT !.pc = "ended"]
    /\ UNCHANGED <<known, disk, dockerVars, history, kills>>

\* A call fails: the edge app is left for the next round.
Fails ==
    /\ Fault
    /\ round' = NextApp
    /\ UNCHANGED <<known, disk, dockerVars, history, kills>>

Advances(new) ==
    /\ round' = new
    /\ UNCHANGED <<known, disk, dockerVars, history, faults, kills>>

Begin ==
    /\ round.pc = "sleep"
    /\ Advances([Sleeping EXCEPT !.pc = "pick", !.until = lines,
                                 !.todo = {a \in Apps : IsKnown(a)}])

\* The next record of the map; the arguments are a copy of it.  A record
\* that is added during the round may or may not be visited: it is not.
Pick ==
    /\ round.pc = "pick"
    /\ \E a \in round.todo :
         LET rest == [round EXCEPT !.todo = @ \ {a}]
         IN  Advances(IF ~ IsKnown(a) \/ known[a].undeployed
                      THEN rest
                      ELSE [rest EXCEPT !.pc = "list", !.app = a,
                                        !.since = known[a].since])

\* ReadEdgeAppContainers
List ==
    /\ round.pc = "list"
    /\ LET cons == ContainersOf(round.app)
       IN  \/ Advances([round EXCEPT !.pc = IF cons = {} THEN "publish" ELSE "read",
                                     !.unread = cons])
           \/ Fails

\* The lines of container c are added to the message.
Reads(c) ==
    LET left == round.unread \ {c}
        read == {l \in Between(round.since, round.until) : l[1] = c}
    IN  Advances([round EXCEPT !.pc = IF left = {} THEN "publish" ELSE "read",
                               !.unread = left,
                               !.msg = @ \cup read])

(***************************************************************************)
(* The index is out of range and the agent ends; systemd starts it again   *)
(* ("Restart=always"), with the records of the file.                       *)
(***************************************************************************)
Panics ==
    /\ known' = disk
    /\ round' = Sleeping
    /\ UNCHANGED <<disk, dockerVars, history, faults, kills>>

(***************************************************************************)
(* ReadContainerLogs of one container, which fails if it is gone by now;   *)
(* when it has been read, the module's name is taken from the image.       *)
(***************************************************************************)
ReadLogs ==
    /\ round.pc = "read"
    /\ \E c \in round.unread :
         \/ c \in here \ Bare /\ Reads(c)
         \/ c \in here \cap Bare /\ Panics
         \/ c \in here /\ Fails
         \/ c \notin here /\ Advances(NextApp)

\* Received: how often counts up to 2.
Received(msg) ==
    times' = [l \in Line |-> IF l \in msg /\ times[l] < 2 THEN times[l] + 1 ELSE times[l]]

(***************************************************************************)
(* Nothing is published if there are no lines.  Otherwise the message is   *)
(* received, or lost without an error -- while the client reconnects, or   *)
(* as nothing waits longer than a second for it --, or there is an error.  *)
(***************************************************************************)
Publish ==
    /\ round.pc = "publish"
    /\ \/ /\ round' = [round EXCEPT !.pc = "save"]
          /\ \/ Received(round.msg) /\ UNCHANGED <<lost, faults>>
             \/ /\ round.msg # {} /\ Fault
                /\ lost' = lost \cup round.msg
                /\ UNCHANGED times
          /\ UNCHANGED <<known, disk, dockerVars, excused, kills>>
       \/ round.msg # {} /\ Fails

\* Mutant: the time of now is stored, lines since the round began are skipped.
StoreNow(a) == known' = [known EXCEPT ![a].since = lines]

\* Mutant: the time is stored in the copy of the record.
StoreInCopy(a) == known' = known

Store(a) == known' = [known EXCEPT ![a].since = round.until]

\* SetLastLogRead, of the record that the map has by now, if it has one.
SetLastLogRead ==
    /\ round.pc = "save"
    /\ round' = NextApp
    /\ IF IsKnown(round.app)
       THEN Store(round.app) /\ disk' = known'
       ELSE UNCHANGED <<known, disk>>
    /\ UNCHANGED <<dockerVars, history, faults, kills>>

\* The round is over.
Sleep ==
    /\ round.pc = "pick" /\ round.todo = {}
    /\ Advances(Sleeping)

SendEdgeAppLogs ==
    Begin \/ Pick \/ List \/ ReadLogs \/ Publish \/ SetLastLogRead \/ Sleep
-----------------------------------------------------------------------------
(* What goes on meanwhile *)

(***************************************************************************)
(* DEPLOY: a new record, only in memory at first.  It may replace one that *)
(* was not Undeployed: the error of an incomplete removal before an update *)
(* is not looked at, and containers are left over.                         *)
(***************************************************************************)
AddKnownManifest(a) ==
    /\ known' = [known EXCEPT ![a] = Record(FALSE, Never)]
    /\ excused' = excused \cup ContainersOf(a)
    /\ UNCHANGED <<disk, dockerVars, round, times, lost, faults, kills>>

\* A status is set other than Undeployed: the file is written.
SetStatus ==
    /\ known # disk
    /\ disk' = known
    /\ UNCHANGED <<known, dockerVars, round, history, faults, kills>>

\* UNDEPLOY and REMOVE end with nothing left, REMOVE deletes the record too.
Undeploy(a) ==
    /\ IsKnown(a) /\ ContainersOf(a) = {}
    /\ known' = [known EXCEPT ![a] = IF @.undeployed THEN Unknown ELSE Record(TRUE, @.since)]
    /\ disk' = known'
    /\ UNCHANGED <<dockerVars, round, history, faults, kills>>

CreateContainer(a, c) ==
    /\ IsKnown(a) /\ ~ known[a].undeployed
    /\ owner[c] = NoApp
    /\ owner' = [owner EXCEPT ![c] = a]
    /\ here' = here \cup {c}
    /\ UNCHANGED <<known, disk, lines, round, history, faults, kills>>

\* By the handler, or by somebody else.
RemoveContainer(c) ==
    /\ c \in here
    /\ here' = here \ {c}
    /\ UNCHANGED <<known, disk, owner, lines, round, history, faults, kills>>

WriteLine(c) ==
    /\ c \in here /\ lines[c] < MaxLines
    /\ Cardinality({l \in Line : l[2] <= lines[l[1]]}) < MaxWritten
    /\ lines' = [lines EXCEPT ![c] = @ + 1]
    /\ UNCHANGED <<known, disk, owner, here, round, history, faults, kills>>

\* The agent ends, also because the file cannot be written (89-91), and is
\* started again.
Restart ==
    /\ kills < MaxKills
    /\ kills' = kills + 1
    /\ known' = disk
    /\ round' = Sleeping
    /\ excused' = IF round.pc = "save" THEN excused \cup {l[1] : l \in round.msg} ELSE excused
    /\ UNCHANGED <<disk, dockerVars, times, lost, faults>>

Next ==
    \/ SendEdgeAppLogs
    \/ \E a \in Apps : AddKnownManifest(a) \/ Undeploy(a)
    \/ SetStatus
    \/ \E a \in Apps, c \in Containers : CreateContainer(a, c)
    \/ \E c \in Containers : RemoveContainer(c) \/ WriteLine(c)
    \/ Restart

Spec == Init /\ [][Next]_vars

\* The loop of the goroutine never ends and its calls answer.
FairSpec == Spec /\ WF_vars(SendEdgeAppLogs)
-----------------------------------------------------------------------------
(* Properties *)

IsSent(l) == times[l] > 0 \/ l \in lost

(***************************************************************************)
(* No line is skipped: all lines of an existing container that are before  *)
(* the LastLogReadTime of its record have been sent.  (logs.go:46 sets the *)
(* time in the record of now, from a round that began earlier and with the *)
(* copy of what may be another record.)                                    *)
(***************************************************************************)
NothingSkipped ==
    \A a \in Apps : \A c \in ContainersOf(a) :
        IsKnown(a) => \A l \in Between(Never, known[a].since) : l[1] = c => IsSent(l)

(***************************************************************************)
(* No line is received twice, whatever is deployed and undeployed during a *)
(* round, but for two causes: the agent ended after it had published a     *)
(* message and before it had stored the time, or the record was replaced   *)
(* while the container was left over.                                      *)
(***************************************************************************)
NothingTwice == \A l \in Line : times[l] > 1 => l[1] \in excused

IsServed(c) == c \in here /\ IsKnown(owner[c]) /\ ~ known[owner[c]].undeployed

(***************************************************************************)
(* A failing round does not stop the logs for good: every line of a        *)
(* container that stays, with its record, is sent in the end.  What does   *)
(* stop them is a container whose image has no slash: while there is one   *)
(* in any edge app, the agent panics in every round that gets to it        *)
(* (logs.go:62), after every restart again, and no line may ever be sent.  *)
(***************************************************************************)
NoneBare == \A c \in Bare : ~ IsServed(c)
EventuallySent ==
    \A l \in Line :
        <>[](IsServed(l[1]) /\ lines[l[1]] >= l[2] /\ NoneBare) => <>IsSent(l)
=============================================================================
