-------------------------- MODULE EdgeAppRefinement --------------------------
(***************************************************************************)
(* EdgeApp implements Lifecycle; an edge app is at rest between commands;  *)
(* commands leave other edge apps alone, and images that no old name       *)
(* stands for; a deleted node has forgotten nothing; an edge app that is   *)
(* Running or Stopped is complete; a removal forgets no image; no version  *)
(* is deployed next to a newer one; modules start last first: proofs for   *)
(* any edge apps, names and IDs of images, manifests and bounds.           *)
(***************************************************************************)
EXTENDS EdgeAppProofs

-----------------------------------------------------------------------------
\* What the host holds something of.
Held == {a \in Apps : HasObjects(a)}

(***************************************************************************)
(* What the handler's place in the code says of its edge app: which status *)
(* its record has, and whether an error has been noted.                    *)
(***************************************************************************)
BetweenCommands == {"idle", "nextApp", "deleteNode"}

NoneAtHand == h.pc \in BetweenCommands => h.app = NoApp

AtHand(n, s) ==
    /\ n.pc \in Deploying => s = "Initiated"
    /\ n.pc = "listToStop" => s = "Running"
    /\ n.pc = "listToResume" => s = "Stopped"
    /\ n.pc \in {"stop", "stopped", "resume", "resumed", "listToRemove", "undeployed"}
         => s = "Executing"
    /\ n.pc \in {"removeContainer", "prune"}
         => s = IF n.failed THEN "Error" ELSE "Executing"
    /\ n.pc = "undeploy" => s # "Unknown"
    /\ n.pc \in {"listImages", "listUsers", "deleteRecord"} => s = "Undeployed"
    /\ n.pc = "removeImage" => s = IF n.failed THEN "Error" ELSE "Undeployed"
    /\ n.pc \in {"add", "rolledBack"} => s \in {"Error", "Unknown"}
    /\ n.pc \in {"listToRemove", "undeployed", "listImages", "listUsers", "deleteRecord"}
         => ~ n.failed

StatusAtHand == h.app \in Apps => AtHand(h, LifecycleStatus[h.app])

(***************************************************************************)
(* Where the records on disk lag behind, a deployment has begun, and the   *)
(* older record is one that a deployment may begin with.                   *)
(***************************************************************************)
DiskBehind ==
    \A a \in Apps : disk[a] # known[a] =>
        /\ HasStatus(a, "Initiated")
        /\ disk[a] = NoRecord \/ disk[a].status \in {"Undeployed", "Error"}

\* The loops over containers work on those of the handler's edge app.
OwnContainers ==
    h.pc \in {"stop", "resume", "removeContainer"} =>
        \A c \in h.todo : c.man.app = h.app

(***************************************************************************)
(* A deployment begins with nothing on the host, but for what restarts and *)
(* failed updates have left.                                               *)
(***************************************************************************)
Excused == interrupted \cup incomplete

Fresh ==
    /\ h.pc \in {"inspect", "pull", "network"} /\ HasObjects(h.app) => h.app \in Excused
    /\ h.pc = "add" /\ HasObjects(h.app) => h.failed \/ h.app \in interrupted

\* Every image on the handler's list has a name that is to be removed.
Named ==
    h.pc \in {"listUsers", "removeImage"} =>
        h.unused \subseteq GetImagesByName(removeImageNames)

\* The removal of all edge apps has ended without an error.
AllGone == h.pc = "deleteNode" /\ ~ h.failed => \A a \in Apps : ~ IsKnown(a)

RefinementInv ==
    /\ NoneAtHand
    /\ StatusAtHand
    /\ DiskBehind
    /\ OwnContainers
    /\ Fresh
    /\ Named
    /\ UnusedStayUnused
    /\ AllGone

Invariants == TypeInv /\ OrphanInv /\ RefinementInv
-----------------------------------------------------------------------------
(* The status of an edge app *)

LEMMA StatusType ==
  ASSUME RecordsTypeOK
  PROVE  /\ LifecycleStatus \in [Apps -> LC!Status]
         /\ \A a \in Apps : LifecycleStatus[a] = "Unknown" <=> ~ IsKnown(a)
         /\ \A a \in Apps : \A s \in EdgeAppStatus :
               HasStatus(a, s) <=> LifecycleStatus[a] = s
<1> SUFFICES ASSUME NEW a \in Apps
             PROVE  /\ LifecycleStatus[a] \in LC!Status
                    /\ LifecycleStatus[a] = "Unknown" <=> ~ IsKnown(a)
                    /\ \A s \in EdgeAppStatus :
                          HasStatus(a, s) <=> LifecycleStatus[a] = s
  BY DEF LifecycleStatus
<1>1. IsKnown(a) => known[a].status \in EdgeAppStatus
  BY DEF RecordsTypeOK, IsKnown, ManifestRecord
<1> QED
  BY <1>1 DEF LifecycleStatus, HasStatus, LC!Status, EdgeAppStatus

(***************************************************************************)
(* The records are left alone.                                             *)
(***************************************************************************)
LEMMA RecordsStay ==
  ASSUME UNCHANGED known
  PROVE  LifecycleStatus' = LifecycleStatus
  BY DEF LifecycleStatus, IsKnown

(***************************************************************************)
(* A record that is replaced by one with status s.                         *)
(***************************************************************************)
LEMMA RecordReplaced ==
  ASSUME RecordsTypeOK, NEW a \in Apps, NEW r \in ManifestRecord,
         known' = [known EXCEPT ![a] = r]
  PROVE  LifecycleStatus' = [LifecycleStatus EXCEPT ![a] = r.status]
<1>1. r # NoRecord
  BY NoRecordAssumption
<1>2. known'[a] = r /\ \A b \in Apps \ {a} : known'[b] = known[b]
  BY DEF RecordsTypeOK
<1>3. ASSUME NEW b \in Apps
      PROVE  LifecycleStatus'[b] = [LifecycleStatus EXCEPT ![a] = r.status][b]
  BY <1>1, <1>2 DEF LifecycleStatus, IsKnown
<1> QED
  BY <1>3 DEF LifecycleStatus

(***************************************************************************)
(* setAndSendStatus: the edge app at hand gets the status, if it is known, *)
(* and the records are written.                                            *)
(***************************************************************************)
LEMMA StatusSet ==
  ASSUME RecordsTypeOK, h.app \in Apps, NEW s \in EdgeAppStatus, SetStatus(h.app, s)
  PROVE  /\ LifecycleStatus' =
              IF IsKnown(h.app) THEN [LifecycleStatus EXCEPT ![h.app] = s]
                                ELSE LifecycleStatus
         /\ DiskBehind => DiskBehind'
<1>1. CASE IsKnown(h.app)
  <2> DEFINE r == [man |-> known[h.app].man, status |-> s]
  <2>1. known' = [known EXCEPT ![h.app] = r] /\ disk' = known'
    BY <1>1 DEF SetStatus
  <2>2. r \in ManifestRecord /\ r.status = s
    <3>1. known[h.app] \in ManifestRecord
      BY <1>1 DEF IsKnown, RecordsTypeOK
    <3> QED
      BY <3>1 DEF ManifestRecord
  <2> HIDE DEF r
  <2> QED
    BY <1>1, <2>1, <2>2, RecordReplaced DEF DiskBehind
<1>2. CASE ~ IsKnown(h.app)
  <2>1. UNCHANGED <<known, disk>>
    BY <1>2 DEF SetStatus, agentVars
  <2> QED
    BY <1>2, <2>1, RecordsStay DEF DiskBehind, HasStatus, IsKnown
<1> QED
  BY <1>1, <1>2
-----------------------------------------------------------------------------
(* Steps of a command *)

(***************************************************************************)
(* What Lifecycle lets a step of a command do to the status and to what    *)
(* the host holds, of the handler's edge app.                              *)
(***************************************************************************)
StatusWorks ==
    \/ LifecycleStatus' = LifecycleStatus /\ UNCHANGED interrupted
    \/ \E s \in LC!Follows[LifecycleStatus[h.app]] :
         /\ LifecycleStatus' = [LifecycleStatus EXCEPT ![h.app] = s]
         /\ s = "Undeployed" => h.app \notin Held
         /\ interrupted' = IF s = "Undeployed" THEN interrupted \ {h.app}
                                               ELSE interrupted

HeldWorks ==
    \/ Held' = Held
    \/ Held' = Held \cup {h.app} /\ LifecycleStatus[h.app] = "Initiated"
    \/ Held' = Held \ {h.app}

(***************************************************************************)
(* A step within these limits is a step of Lifecycle.                      *)
(***************************************************************************)
LEMMA WorkIsAllowed ==
  ASSUME h.app \in Apps, h'.app \in {h.app, NoApp}, StatusWorks, HeldWorks
  PROVE  LC!Next
  BY DEF StatusWorks, HeldWorks, Held, LC!Next, LC!Work, LC!Reaches

(***************************************************************************)
(* A status that is set, within these limits.                              *)
(***************************************************************************)
LEMMA StatusSetWorks ==
  ASSUME RecordsTypeOK, h.app \in Apps, NEW s \in EdgeAppStatus \ {"Undeployed"},
         SetStatus(h.app, s), UNCHANGED interrupted,
         \/ ~ IsKnown(h.app)
         \/ LifecycleStatus[h.app] = s
         \/ s \in LC!Follows[LifecycleStatus[h.app]]
  PROVE  StatusWorks
<1>1. LifecycleStatus' = IF IsKnown(h.app) THEN [LifecycleStatus EXCEPT ![h.app] = s]
                                           ELSE LifecycleStatus
  BY StatusSet
<1>2. LifecycleStatus[h.app] = s => [LifecycleStatus EXCEPT ![h.app] = s] = LifecycleStatus
  BY StatusType
<1> QED
  BY <1>1, <1>2 DEF StatusWorks

LEMMA StatusStays ==
  ASSUME UNCHANGED <<known, interrupted>>
  PROVE  StatusWorks
  BY RecordsStay DEF StatusWorks

(***************************************************************************)
(* The statuses that an error or a beginning may replace.                  *)
(***************************************************************************)
LEMMA ErrorMayFollow ==
  /\ \A s \in LC!Status \ {"Unknown", "Error"} : "Error" \in LC!Follows[s]
  /\ \A s \in LC!Status \ {"Unknown", "Executing"} : "Executing" \in LC!Follows[s]
  BY DEF LC!Follows, LC!Status

(***************************************************************************)
(* Calls that neither create nor remove a container or a network.          *)
(***************************************************************************)
Preserves == Existing' = Existing /\ UNCHANGED networks

LEMMA HeldStays ==
  ASSUME Preserves
  PROVE  Held' = Held
  BY DEF Preserves, Held, HasObjects, ContainersOf, NetworksOf

LEMMA PreservingCalls ==
  ASSUME DockerTypeOK
  PROVE  /\ UNCHANGED dockerVars => Preserves
         /\ \A i : PullImage(i) \/ ImageRemove(i) => Preserves
         /\ \A c, state :
               SetContainer(c, state) /\ ctr[c] # Absent /\ state # Absent => Preserves
<1>1. UNCHANGED dockerVars => Preserves
  BY DEF Preserves, Existing, dockerVars
<1>2. \A i : PullImage(i) \/ ImageRemove(i) => Preserves
  BY DEF Preserves, Existing, PullImage, ImageRemove
<1>3. \A c, state :
         SetContainer(c, state) /\ ctr[c] # Absent /\ state # Absent => Preserves
  <2> SUFFICES ASSUME NEW c, NEW state, SetContainer(c, state),
                      ctr[c] # Absent, state # Absent
               PROVE  Preserves
    OBVIOUS
  <2>1. ctr' = [ctr EXCEPT ![c] = state] /\ networks' = networks
    BY DEF SetContainer
  <2>2. ASSUME NEW d \in Containers
        PROVE  ctr'[d] # Absent <=> ctr[d] # Absent
    <3>1. CASE d = c
      BY <2>1, <3>1 DEF DockerTypeOK
    <3>2. CASE d # c
      BY <2>1, <3>2 DEF DockerTypeOK
    <3> QED
      BY <3>1, <3>2
  <2> QED
    BY <2>1, <2>2 DEF Preserves, Existing
<1> QED
  BY <1>1, <1>2, <1>3
-----------------------------------------------------------------------------
(* How a step can go on *)

(***************************************************************************)
(* When a command ends, its edge app is not Executing, and when it is      *)
(* still Initiated, then with nothing on the host.                         *)
(***************************************************************************)
LeavesAtRest ==
    h.app \in Apps /\ h'.app # h.app =>
        \/ h.app \in Excused'
        \/ LifecycleStatus'[h.app] \notin {"Executing", "Initiated"}
        \/ LifecycleStatus'[h.app] = "Initiated" /\ h.app \notin Held'

(***************************************************************************)
(* What is to be shown of every step.                                      *)
(***************************************************************************)
Refines ==
    /\ RefinementInv'
    /\ LC!Next \/ UNCHANGED LC!vars
    /\ LeavesAtRest

(***************************************************************************)
(* A step of a command that goes on with its edge app, or ends.            *)
(***************************************************************************)
Ends ==
    /\ h'.app = NoApp
    /\ h'.pc \in BetweenCommands
    /\ LeavesAtRest
    /\ AllGone'

GoesOn ==
    /\ h'.app = h.app
    /\ h'.pc \notin BetweenCommands
    /\ AtHand(h', LifecycleStatus'[h.app])
    /\ (OwnContainers /\ Fresh /\ Named /\ UnusedStayUnused)'

LEMMA StepWorks ==
  ASSUME h.app \in Apps, StatusWorks, HeldWorks, DiskBehind', Ends \/ GoesOn
  PROVE  Refines
<1>1. LC!Next
  BY WorkIsAllowed DEF Ends, GoesOn
<1>2. Ends => RefinementInv'
  BY EdgeAppAssumption
     DEF Ends, RefinementInv, NoneAtHand, StatusAtHand, OwnContainers, Fresh, Named,
         UnusedStayUnused, BetweenCommands
<1>3. GoesOn => RefinementInv'
  BY DEF GoesOn, RefinementInv, NoneAtHand, StatusAtHand, AllGone, BetweenCommands
<1> QED
  BY <1>1, <1>2, <1>3 DEF Refines, Ends, GoesOn, LeavesAtRest

(***************************************************************************)
(* setAndSendStatus within a command.                                      *)
(***************************************************************************)
LEMMA StatusStep ==
  ASSUME Invariants, h.app \in Apps, NEW s \in EdgeAppStatus \ {"Undeployed"},
         LifecycleStatus[h.app] # "Unknown",
         LifecycleStatus[h.app] = s \/ s \in LC!Follows[LifecycleStatus[h.app]],
         SetStatus(h.app, s), UNCHANGED interrupted
  PROVE  StatusWorks /\ DiskBehind' /\ LifecycleStatus'[h.app] = s
<1>1. RecordsTypeOK /\ IsKnown(h.app) /\ LifecycleStatus \in [Apps -> LC!Status]
  BY StatusType DEF Invariants, TypeInv
<1> QED
  BY <1>1, StatusSet, StatusSetWorks DEF Invariants, RefinementInv

LEMMA GiveUpStep ==
  ASSUME Invariants, h.app \in Apps, LifecycleStatus[h.app] # "Unknown",
         NEW n, GiveUp(n), UNCHANGED interrupted
  PROVE  StatusWorks /\ DiskBehind' /\ LifecycleStatus'[h.app] = "Error" /\ h' = n
<1>1. /\ LifecycleStatus[h.app] \in LC!Status
      /\ "Error" \in EdgeAppStatus \ {"Undeployed"}
  BY StatusType DEF Invariants, TypeInv, EdgeAppStatus
<1>2. \/ LifecycleStatus[h.app] = "Error"
      \/ "Error" \in LC!Follows[LifecycleStatus[h.app]]
  BY <1>1, ErrorMayFollow
<1> QED
  BY <1>1, <1>2, StatusStep DEF GiveUp

(***************************************************************************)
(* The records are left alone.                                             *)
(***************************************************************************)
LEMMA SameRecordsStep ==
  ASSUME Invariants, UNCHANGED <<known, disk, interrupted>>
  PROVE  StatusWorks /\ DiskBehind' /\ LifecycleStatus' = LifecycleStatus
  BY RecordsStay, StatusStays
     DEF Invariants, RefinementInv, DiskBehind, HasStatus, IsKnown

(***************************************************************************)
(* Where UndeployEdgeApp and RemoveEdgeApp return to.                      *)
(***************************************************************************)
LEMMA ReturnedPlace ==
  ASSUME NEW err \in BOOLEAN, h \in Handler
  PROVE  LET n == Returned(err)
         IN  \/ n.pc \in {"add", "rolledBack"} /\ n.app = h.app
             \/ n.pc \in BetweenCommands /\ n.app = NoApp
<1>1. CASE h.mode = "update"
  BY <1>1 DEF Returned, Handler
<1>2. CASE h.mode = "rollbackStart"
  BY <1>2 DEF Returned, Handler
<1>3. CASE h.mode = "removeAll"
  <2>1. Idle \in Handler /\ Idle.app = NoApp
    BY IdleWellFormed DEF WellFormed, Idle
  <2> QED
    BY <1>3, <2>1 DEF Returned, Handler, BetweenCommands
<1>4. CASE h.mode \notin {"update", "rollbackStart", "removeAll"}
  BY <1>4 DEF Returned, Idle, BetweenCommands
<1> QED
  BY <1>1, <1>2, <1>3, <1>4

LEMMA ReturnedFailed ==
  ASSUME NEW err \in BOOLEAN, h \in Handler,
         Returned(err).pc \in {"add", "deleteNode"}
  PROVE  /\ Returned(err).failed = err
         /\ Returned(err).pc = "deleteNode" => err
<1>1. CASE h.mode = "update"
  BY <1>1 DEF Returned, Handler
<1>2. CASE h.mode = "rollbackStart"
  BY <1>2 DEF Returned, Handler
<1>3. CASE h.mode = "removeAll"
  BY <1>3, IdleWellFormed DEF Returned, Handler, WellFormed
<1>4. CASE h.mode \notin {"update", "rollbackStart", "removeAll"}
  BY <1>4 DEF Returned, Idle
<1> QED
  BY <1>1, <1>2, <1>3, <1>4

LEMMA ReturnStep ==
  ASSUME h \in Handler, NEW err \in BOOLEAN, h' = Returned(err),
         LifecycleStatus'[h.app] \in {"Error", "Unknown"},
         err \/ h.app \notin Held', h.app \in Apps
  PROVE  Ends \/ GoesOn
<1>1. \/ h'.pc \in {"add", "rolledBack"} /\ h'.app = h.app
      \/ h'.pc \in BetweenCommands /\ h'.app = NoApp
  BY ReturnedPlace
<1>2. /\ h'.pc = "add" => h'.failed = err
      /\ h'.pc = "deleteNode" => h'.failed
  BY ReturnedFailed
<1>3. Fresh' \/ h'.pc \in BetweenCommands
  BY <1>1, <1>2 DEF Fresh, Held, BetweenCommands
<1>4. AllGone'
  BY <1>2 DEF AllGone
<1> QED
  BY <1>1, <1>3, <1>4
     DEF Ends, GoesOn, BetweenCommands, AtHand, Deploying, OwnContainers, Named,
         UnusedStayUnused, LeavesAtRest

LEMMA IdleEnds ==
  ASSUME h' = Idle,
         LifecycleStatus'[h.app] \in {"Running", "Stopped", "Error", "Undeployed", "Unknown"}
  PROVE  Ends
  BY DEF Ends, Idle, BetweenCommands, LeavesAtRest, AllGone

(***************************************************************************)
(* The status of the edge app at hand.                                     *)
(***************************************************************************)
LEMMA StatusHere ==
  ASSUME Invariants, h.pc \notin BetweenCommands
  PROVE  /\ h \in Handler /\ h.pc \in PC /\ h.app \in Apps
         /\ LifecycleStatus[h.app] \in LC!Status
         /\ AtHand(h, LifecycleStatus[h.app])
  BY InCommand, StatusType
     DEF Invariants, TypeInv, RefinementInv, StatusAtHand, BetweenCommands
-----------------------------------------------------------------------------
(* Commands begin *)

(***************************************************************************)
(* A command for edge app a that leaves its record alone.                  *)
(***************************************************************************)
LEMMA AcceptStep ==
  ASSUME Invariants, h.pc \in BetweenCommands,
         UNCHANGED <<dockerVars, known, disk, interrupted>>,
         h'.app \in Apps, h'.pc \in {"undeploy", "listToStop", "listToResume"},
         AtHand(h', LifecycleStatus[h'.app])
  PROVE  Refines
<1>1. h.app = NoApp
  BY DEF Invariants, RefinementInv, NoneAtHand
<1>2. Held' = Held
  BY HeldStays, PreservingCalls DEF Invariants, TypeInv
<1>3. LifecycleStatus' = LifecycleStatus /\ DiskBehind'
  BY SameRecordsStep
<1>4. LC!Accept(h'.app)
  BY <1>1, <1>2, <1>3 DEF LC!Accept, Held
<1> QED
  BY <1>1, <1>3, <1>4, EdgeAppAssumption
     DEF Refines, RefinementInv, LC!Next, NoneAtHand, BetweenCommands, StatusAtHand,
         OwnContainers, Fresh, Named, UnusedStayUnused, AllGone, LeavesAtRest

(***************************************************************************)
(* The removal of all edge apps, between two of them.                      *)
(***************************************************************************)
LEMMA BetweenStep ==
  ASSUME Invariants, h.pc \in BetweenCommands,
         UNCHANGED <<dockerVars, known, disk, interrupted>>,
         Ends
  PROVE  Refines
<1>1. h'.app = h.app
  BY DEF Invariants, RefinementInv, NoneAtHand, Ends
<1>2. Held' = Held
  BY HeldStays, PreservingCalls DEF Invariants, TypeInv
<1>3. LifecycleStatus' = LifecycleStatus /\ DiskBehind'
  BY SameRecordsStep
<1>4. UNCHANGED LC!vars
  BY <1>1, <1>2, <1>3 DEF LC!vars, Held
<1> QED
  BY <1>3, <1>4, EdgeAppAssumption
     DEF Ends, Refines, RefinementInv, NoneAtHand, BetweenCommands, StatusAtHand,
         OwnContainers, Fresh, Named, UnusedStayUnused

(***************************************************************************)
(* DEPLOY of a new edge app.                                               *)
(***************************************************************************)
LEMMA DeployNewStep ==
  ASSUME Invariants, NEW m \in Manifests, DeployNew(m)
  PROVE  Refines
<1> DEFINE r == [man |-> m, status |-> "Initiated"]
<1>1. /\ h.pc = "idle" /\ ~ IsDeployed(m.app)
      /\ known' = [known EXCEPT ![m.app] = r] /\ disk' = disk
      /\ UNCHANGED <<dockerVars, interrupted>>
      /\ h' = [Idle EXCEPT !.pc = "inspect", !.app = m.app, !.man = m, !.idx = 1]
  BY DEF DeployNew, AddKnownManifest, historyVars
<1>2. m.app \in Apps /\ r \in ManifestRecord /\ r.status = "Initiated"
  BY ManifestType DEF ManifestRecord, EdgeAppStatus
<1>3. RecordsTypeOK /\ h.app = NoApp
  BY <1>1 DEF Invariants, TypeInv, RefinementInv, NoneAtHand, BetweenCommands
<1>4. h'.pc = "inspect" /\ h'.app = m.app
  BY <1>1, IdleWellFormed DEF WellFormed, Handler
<1> HIDE DEF r
<1>5. LifecycleStatus' = [LifecycleStatus EXCEPT ![m.app] = "Initiated"]
  BY <1>1, <1>2, <1>3, RecordReplaced
<1>6. LifecycleStatus'[m.app] = "Initiated"
  BY <1>2, <1>3, <1>5, StatusType
<1>7. LifecycleStatus[m.app] \in {"Unknown", "Undeployed"}
  <2>1. ~ IsKnown(m.app) \/ HasStatus(m.app, "Undeployed")
    BY <1>1 DEF IsDeployed, HasStatus
  <2> QED
    BY <1>2, <1>3, <2>1, StatusType DEF EdgeAppStatus
<1>8. LC!Accept(m.app)
  <2>1. Held' = Held
    BY <1>1, HeldStays, PreservingCalls DEF Invariants, TypeInv
  <2> QED
    BY <1>1, <1>3, <1>4, <1>5, <1>7, <2>1 DEF LC!Accept, Held
<1>9. DiskBehind'
  <2>1. /\ known'[m.app] = r
        /\ \A a \in Apps \ {m.app} : known'[a] = known[a]
    BY <1>1, <1>2, <1>3 DEF RecordsTypeOK
  <2>2. r # NoRecord
    BY <1>2, NoRecordAssumption
  <2>3. DiskBehind
    BY DEF Invariants, RefinementInv
  <2>4. disk[m.app] = NoRecord \/ disk[m.app].status = "Undeployed"
    <3>1. disk[m.app] = known[m.app]
      BY <1>1, <1>2, <2>3 DEF DiskBehind, IsDeployed, HasStatus
    <3> QED
      BY <1>1, <3>1 DEF IsDeployed, IsKnown
  <2>5. HasStatus(m.app, "Initiated")'
    BY <1>1, <1>2, <2>1, <2>2 DEF HasStatus, IsKnown
  <2>6. ASSUME NEW a \in Apps, disk'[a] # known'[a]
        PROVE  /\ HasStatus(a, "Initiated")'
               /\ disk'[a] = NoRecord \/ disk'[a].status \in {"Undeployed", "Error"}
    <3>1. CASE a = m.app
      BY <1>1, <1>2, <2>1, <2>2, <2>4, <3>1 DEF HasStatus, IsKnown
    <3>2. CASE a # m.app
      BY <1>1, <2>1, <2>3, <2>6, <3>2 DEF DiskBehind, HasStatus, IsKnown
    <3> QED
      BY <3>1, <3>2
  <2> QED
    BY <2>6 DEF DiskBehind
<1>10. Fresh'
  <2>1. HasObjects(m.app)' => HasObjects(m.app)
    BY <1>1, ShrinkingCalls, ObjectsShrink DEF Invariants, TypeInv
  <2>2. HasObjects(m.app) => m.app \in interrupted
    BY <1>1, <1>2 DEF Invariants, OrphanInv, InMemory
  <2> QED
    BY <1>1, <1>4, <2>1, <2>2 DEF Fresh, Excused
<1> QED
  BY <1>2, <1>3, <1>4, <1>6, <1>8, <1>9, <1>10, EdgeAppAssumption
     DEF Refines, RefinementInv, LC!Next, NoneAtHand, BetweenCommands, StatusAtHand,
         AtHand, Deploying, OwnContainers, Named, UnusedStayUnused, AllGone, LeavesAtRest

(***************************************************************************)
(* The other commands leave the records alone at first.                    *)
(***************************************************************************)
LEMMA CommandStep ==
  ASSUME Invariants,
         \/ \E m \in Manifests : DeployUpdate(m)
         \/ \E a \in Apps : Stop(a) \/ Resume(a) \/ Undeploy(a) \/ Remove(a)
         \/ DeleteNode \/ RemoveNextApp \/ FinishDeleteNode
  PROVE  Refines
<1>1. /\ h \in Handler /\ Idle \in Handler /\ RecordsTypeOK
      /\ \A s \in EdgeAppStatus : s # "Unknown"
  BY IdleWellFormed DEF Invariants, TypeInv, WellFormed, EdgeAppStatus
<1>2. /\ h.pc \in BetweenCommands
      /\ UNCHANGED <<dockerVars, known, disk, interrupted>>
  BY DEF DeployUpdate, Stop, Resume, Undeploy, Remove, UndeployOrRemove, DeleteNode,
         RemoveNextApp, FinishDeleteNode, agentVars, historyVars, BetweenCommands
<1>3. LeavesAtRest
  BY <1>2, EdgeAppAssumption
     DEF Invariants, RefinementInv, NoneAtHand, LeavesAtRest
<1>4. ASSUME NEW a \in Apps, IsKnown(a), h'.app = a, h'.pc = "undeploy"
      PROVE  Refines
  <2>1. LifecycleStatus[a] # "Unknown"
    BY <1>1, <1>4, StatusType
  <2>2. AtHand(h', LifecycleStatus[a])
    BY <1>4, <2>1 DEF AtHand, Deploying
  <2> QED
    BY <1>2, <1>4, <2>2, AcceptStep
<1>5. CASE \E m \in Manifests : DeployUpdate(m)
  <2>1. PICK m \in Manifests : DeployUpdate(m)
    BY <1>5
  <2>2. m.app \in Apps /\ IsKnown(m.app)
    BY <2>1, ManifestType DEF DeployUpdate, IsDeployed
  <2>3. h'.app = m.app /\ h'.pc = "undeploy"
    BY <1>1, <2>1 DEF DeployUpdate, Handler
  <2> QED
    BY <1>4, <2>2, <2>3
<1>6. CASE \E a \in Apps : Stop(a)
  <2>1. PICK a \in Apps : Stop(a)
    BY <1>6
  <2>2. h'.app = a /\ h'.pc = "listToStop"
    BY <1>1, <2>1 DEF Stop, Handler
  <2>3. LifecycleStatus[a] = "Running"
    BY <1>1, <2>1, StatusType DEF Stop, EdgeAppStatus
  <2>4. AtHand(h', LifecycleStatus[a])
    BY <2>2, <2>3 DEF AtHand, Deploying
  <2> QED
    BY <1>2, <2>2, <2>4, AcceptStep
<1>7. CASE \E a \in Apps : Resume(a)
  <2>1. PICK a \in Apps : Resume(a)
    BY <1>7
  <2>2. h'.app = a /\ h'.pc = "listToResume"
    BY <1>1, <2>1 DEF Resume, Handler
  <2>3. LifecycleStatus[a] = "Stopped"
    BY <1>1, <2>1, StatusType DEF Resume, EdgeAppStatus
  <2>4. AtHand(h', LifecycleStatus[a])
    BY <2>2, <2>3 DEF AtHand, Deploying
  <2> QED
    BY <1>2, <2>2, <2>4, AcceptStep
<1>8. CASE \E a \in Apps : Undeploy(a) \/ Remove(a)
  <2>1. PICK a \in Apps, mode \in {"undeploy", "remove"} : UndeployOrRemove(a, mode)
    BY <1>8 DEF Undeploy, Remove
  <2>2. h'.app = a /\ h'.pc = "undeploy" /\ IsKnown(a)
    BY <1>1, <2>1 DEF UndeployOrRemove, MayUndeploy, Handler
  <2> QED
    BY <1>4, <2>2
<1>9. CASE DeleteNode
  <2>1. Ends
    BY <1>1, <1>3, <1>9 DEF DeleteNode, Ends, Idle, BetweenCommands, AllGone
  <2> QED
    BY <1>2, <2>1, BetweenStep
<1>10. CASE RemoveNextApp
  <2>1. h.pc = "nextApp" /\ h.app = NoApp
    BY <1>10 DEF RemoveNextApp, Invariants, RefinementInv, NoneAtHand, BetweenCommands
  <2>2. CASE (\A a \in Apps : ~ IsKnown(a)) /\ Goto("deleteNode")
    <3>1. Ends
      BY <1>1, <1>2, <1>3, <2>1, <2>2
         DEF Goto, Ends, Handler, BetweenCommands, AllGone, IsKnown
    <3> QED
      BY <1>2, <3>1, BetweenStep
  <2>3. CASE \E a \in Apps : IsKnown(a) /\ h' = [h EXCEPT !.pc = "undeploy", !.app = a]
    <3>1. PICK a \in Apps : IsKnown(a) /\ h' = [h EXCEPT !.pc = "undeploy", !.app = a]
      BY <2>3
    <3>2. h'.app = a /\ h'.pc = "undeploy"
      BY <1>1, <3>1 DEF Handler
    <3> QED
      BY <1>4, <3>1, <3>2
  <2> QED
    BY <1>10, <2>2, <2>3 DEF RemoveNextApp
<1>11. CASE FinishDeleteNode
  <2>1. Ends
    BY <1>11, <1>3 DEF FinishDeleteNode, Ends, Idle, BetweenCommands, AllGone
  <2> QED
    BY <1>2, <2>1, BetweenStep
<1> QED
  BY <1>5, <1>6, <1>7, <1>8, <1>9, <1>10, <1>11
-----------------------------------------------------------------------------
(* Deployments *)

(***************************************************************************)
(* The new version's record, when the old version is gone or could not be  *)
(* removed.                                                                *)
(***************************************************************************)
LEMMA AddNewVersionStep ==
  ASSUME Invariants, AddNewVersion
  PROVE  Refines
<1> DEFINE r == [man |-> h.man, status |-> "Initiated"]
<1>1. h.pc = "add" /\ h.pc \notin BetweenCommands
  BY DEF AddNewVersion, BetweenCommands
<1>2. /\ h \in Handler /\ h.app \in Apps
      /\ LifecycleStatus[h.app] \in {"Error", "Unknown"}
  BY <1>1, StatusHere DEF AtHand
<1>3. h.man \in Manifests /\ h.man.app = h.app /\ RecordsTypeOK
  BY <1>1 DEF Invariants, TypeInv, WellFormed
<1>4. /\ known' = [known EXCEPT ![h.app] = r] /\ disk' = disk
      /\ UNCHANGED <<dockerVars, interrupted>>
      /\ h' = [Idle EXCEPT !.pc = "inspect", !.app = h.app, !.man = h.man, !.idx = 1]
  BY <1>3 DEF AddNewVersion, AddKnownManifest
<1>5. r \in ManifestRecord /\ r.status = "Initiated"
  BY <1>3 DEF ManifestRecord, EdgeAppStatus
<1>6. h'.pc = "inspect" /\ h'.app = h.app
  BY <1>4, IdleWellFormed DEF WellFormed, Handler
<1> HIDE DEF r
<1>7. LifecycleStatus' = [LifecycleStatus EXCEPT ![h.app] = "Initiated"]
  BY <1>2, <1>3, <1>4, <1>5, RecordReplaced
<1>8. LifecycleStatus'[h.app] = "Initiated"
  BY <1>2, <1>3, <1>7, StatusType
<1>9. StatusWorks
  <2>1. "Initiated" \in LC!Follows[LifecycleStatus[h.app]]
    BY <1>2 DEF LC!Follows
  <2> QED
    BY <1>4, <1>7, <2>1 DEF StatusWorks
<1>10. HeldWorks
  BY <1>4, HeldStays, PreservingCalls DEF Invariants, TypeInv, HeldWorks
<1>11. DiskBehind'
  <2>1. /\ known'[h.app] = r
        /\ \A a \in Apps \ {h.app} : known'[a] = known[a]
    BY <1>2, <1>3, <1>4 DEF RecordsTypeOK
  <2>2. r # NoRecord
    BY <1>5, NoRecordAssumption
  <2>3. DiskBehind
    BY DEF Invariants, RefinementInv
  <2>4. disk[h.app] = NoRecord \/ disk[h.app].status = "Error"
    <3>1. ~ IsKnown(h.app) \/ HasStatus(h.app, "Error")
      BY <1>2, <1>3, StatusType DEF EdgeAppStatus
    <3>2. disk[h.app] = known[h.app]
      BY <1>2, <2>3, <3>1 DEF DiskBehind, HasStatus
    <3> QED
      BY <3>1, <3>2 DEF HasStatus, IsKnown
  <2>5. ASSUME NEW a \in Apps, disk'[a] # known'[a]
        PROVE  /\ HasStatus(a, "Initiated")'
               /\ disk'[a] = NoRecord \/ disk'[a].status \in {"Undeployed", "Error"}
    <3>1. CASE a = h.app
      BY <1>4, <1>5, <2>1, <2>2, <2>4, <3>1 DEF HasStatus, IsKnown
    <3>2. CASE a # h.app
      BY <1>4, <2>1, <2>3, <2>5, <3>2 DEF DiskBehind, HasStatus, IsKnown
    <3> QED
      BY <3>1, <3>2
  <2> QED
    BY <2>5 DEF DiskBehind
<1>12. Fresh'
  <2>1. HasObjects(h.app)' => HasObjects(h.app)
    BY <1>4, <1>6, ShrinkingCalls, ObjectsShrink DEF Invariants, TypeInv
  <2>2. HasObjects(h.app) => h.failed \/ h.app \in interrupted
    BY <1>1 DEF Invariants, RefinementInv, Fresh
  <2>3. h.failed => h.app \in incomplete'
    BY DEF AddNewVersion
  <2> QED
    BY <1>4, <1>6, <2>1, <2>2, <2>3 DEF Fresh, Excused
<1>13. GoesOn
  BY <1>6, <1>8, <1>12
     DEF GoesOn, BetweenCommands, AtHand, Deploying, OwnContainers, Named,
         UnusedStayUnused
<1> QED
  BY <1>2, <1>9, <1>10, <1>11, <1>13, StepWorks

(***************************************************************************)
(* Steps of a deployment that create nothing: to another place of the      *)
(* deployment, into a rollback, or to the end.                             *)
(***************************************************************************)
LEMMA DeployingStep ==
  ASSUME Invariants, h.pc \in Deploying, HeldWorks, UNCHANGED interrupted,
         \/ /\ UNCHANGED <<known, disk>>
            /\ \/ h'.app = h.app /\ h'.pc \in Deploying \cup {"undeploy"} /\ Fresh'
               \/ h' = Idle /\ (h.app \in Held' => h.app \in Excused')
         \/ \E mode : GiveUp(Rollback(mode))
  PROVE  Refines
<1>1. /\ h \in Handler /\ h.app \in Apps
      /\ LifecycleStatus[h.app] = "Initiated"
  BY StatusHere DEF Deploying, BetweenCommands, AtHand
<1>2. ASSUME UNCHANGED <<known, disk>>,
             h'.app = h.app, h'.pc \in Deploying \cup {"undeploy"}, Fresh'
      PROVE  Refines
  <2>1. StatusWorks /\ DiskBehind' /\ LifecycleStatus' = LifecycleStatus
    BY <1>2, SameRecordsStep
  <2>2. GoesOn
    BY <1>1, <1>2, <2>1
       DEF GoesOn, BetweenCommands, AtHand, Deploying, OwnContainers, Named,
           UnusedStayUnused
  <2> QED
    BY <1>1, <2>1, <2>2, StepWorks
<1>3. ASSUME UNCHANGED <<known, disk>>, h' = Idle, h.app \in Held' => h.app \in Excused'
      PROVE  Refines
  <2>1. StatusWorks /\ DiskBehind' /\ LifecycleStatus' = LifecycleStatus
    BY <1>3, SameRecordsStep
  <2>2. Ends
    BY <1>1, <1>3, <2>1 DEF Ends, Idle, BetweenCommands, LeavesAtRest, AllGone
  <2> QED
    BY <1>1, <2>1, <2>2, StepWorks
<1>4. ASSUME NEW mode, GiveUp(Rollback(mode))
      PROVE  Refines
  <2>1. StatusWorks /\ DiskBehind' /\ LifecycleStatus'[h.app] = "Error" /\ h' = Rollback(mode)
    BY <1>1, <1>4, GiveUpStep
  <2>2. h'.app = h.app /\ h'.pc = "undeploy"
    BY <1>1, <2>1 DEF Rollback, Handler
  <2>3. GoesOn
    BY <2>1, <2>2
       DEF GoesOn, BetweenCommands, AtHand, Deploying, OwnContainers, Fresh, Named,
           UnusedStayUnused
  <2> QED
    BY <1>1, <2>1, <2>3, StepWorks
<1> QED
  BY <1>2, <1>3, <1>4

LEMMA NextImagePlace ==
  ASSUME h \in Handler, NextImage
  PROVE  h'.app = h.app /\ h'.pc \in Deploying
<1>1. CASE h.idx < Len(h.man.modules)
  BY <1>1 DEF NextImage, Handler, Deploying
<1>2. CASE ~ (h.idx < Len(h.man.modules))
  BY <1>2 DEF NextImage, Goto, Handler, Deploying
<1> QED
  BY <1>1, <1>2

(***************************************************************************)
(* Images.                                                                 *)
(***************************************************************************)
LEMMA ImagesStep ==
  ASSUME Invariants, InspectImage \/ Pull
  PROVE  Refines
<1>1. h.pc \in Deploying /\ h \in Handler /\ h.app \in Apps /\ UNCHANGED interrupted
  BY StatusHere DEF InspectImage, Pull, Deploying, BetweenCommands, historyVars
<1>2. HeldWorks
  BY HeldStays, PreservingCalls
     DEF Invariants, TypeInv, HeldWorks, InspectImage, Pull
<1>3. \/ UNCHANGED agentVars /\ (NextImage \/ Goto("pull") \/ h' = Idle)
      \/ GiveUp(Rollback("rollback"))
  BY DEF InspectImage, Pull
<1>4. Goto("pull") => h'.app = h.app /\ h'.pc \in Deploying
  BY <1>1 DEF Goto, Handler, Deploying
<1>5. NextImage => h'.app = h.app /\ h'.pc \in Deploying
  BY <1>1, NextImagePlace
<1>6. h.app \in Held' => h.app \in Excused'
  <2>1. Preserves
    BY PreservingCalls DEF Invariants, TypeInv, InspectImage, Pull
  <2>2. UNCHANGED Excused
    BY DEF InspectImage, Pull, historyVars, Excused
  <2>3. HasObjects(h.app) => h.app \in Excused
    BY DEF InspectImage, Pull, Invariants, RefinementInv, Fresh
  <2> QED
    BY <2>1, <2>2, <2>3, HeldStays DEF Held
<1>7. h'.app = h.app /\ h'.pc \in Deploying => Fresh'
  BY <1>1, <1>6 DEF Fresh, Held, Deploying
<1> QED
  BY <1>1, <1>2, <1>3, <1>4, <1>5, <1>6, <1>7, DeployingStep DEF agentVars

(***************************************************************************)
(* The network and the containers.  Only here something appears.           *)
(***************************************************************************)
LEMMA CreateNetworkStep ==
  ASSUME Invariants, CreateNetwork
  PROVE  Refines
<1>1. /\ h.pc \in Deploying /\ h \in Handler /\ h.app \in Apps
      /\ LifecycleStatus[h.app] = "Initiated" /\ UNCHANGED interrupted
  BY StatusHere DEF CreateNetwork, Deploying, BetweenCommands, historyVars, AtHand
<1>2. \/ \E count :
           /\ NetworkCreate([app |-> h.app, num |-> count])
           /\ h' = [h EXCEPT !.pc = "create", !.net = count, !.idx = Len(h.man.modules)]
           /\ UNCHANGED <<known, disk>>
      \/ GiveUp(Rollback("rollback")) /\ UNCHANGED dockerVars
  BY DEF CreateNetwork, agentVars
<1>3. ASSUME NEW count,
             NetworkCreate([app |-> h.app, num |-> count]),
             h' = [h EXCEPT !.pc = "create", !.net = count, !.idx = Len(h.man.modules)],
             UNCHANGED <<known, disk>>
      PROVE  Refines
  <2>1. h'.app = h.app /\ h'.pc \in Deploying /\ Fresh'
    BY <1>1, <1>3 DEF Handler, Deploying, Fresh
  <2>2. Held' = Held \cup {h.app}
    <3>1. ASSUME NEW a \in Apps
          PROVE  HasObjects(a)' <=> HasObjects(a) \/ a = h.app
      <4>1. ContainersOf(a)' = ContainersOf(a)
        BY <1>3 DEF NetworkCreate, ContainersOf, Existing
      <4> DEFINE made == [app |-> h.app, num |-> count]
      <4>2. networks' = networks \cup {made} /\ made.app = h.app
        BY <1>3 DEF NetworkCreate
      <4> HIDE DEF made
      <4>3. NetworksOf(a)' = IF a = h.app THEN NetworksOf(a) \cup {made} ELSE NetworksOf(a)
        BY <4>2 DEF NetworksOf
      <4> QED
        BY <4>1, <4>3 DEF HasObjects
    <3> QED
      BY <1>1, <3>1 DEF Held
  <2> QED
    BY <1>1, <1>3, <2>1, <2>2, DeployingStep DEF HeldWorks
<1>4. CASE GiveUp(Rollback("rollback")) /\ UNCHANGED dockerVars
  <2>1. HeldWorks
    BY <1>4, HeldStays, PreservingCalls DEF Invariants, TypeInv, HeldWorks
  <2> QED
    BY <1>1, <1>4, <2>1, DeployingStep
<1> QED
  BY <1>2, <1>3, <1>4

LEMMA CreateStep ==
  ASSUME Invariants, Create
  PROVE  Refines
<1>1. /\ h.pc \in Deploying /\ h \in Handler /\ h.app \in Apps /\ h.man.app = h.app
      /\ LifecycleStatus[h.app] = "Initiated"
      /\ UNCHANGED <<known, disk, interrupted>>
  BY StatusHere
     DEF Create, Deploying, BetweenCommands, historyVars, agentVars, AtHand,
         Invariants, TypeInv, WellFormed
<1>2. CASE CreateContainer(Current) /\ Goto("start")
  <2>1. h'.app = h.app /\ h'.pc \in Deploying /\ Fresh'
    BY <1>1, <1>2 DEF Goto, Handler, Deploying, Fresh
  <2>2. /\ Current.man.app = h.app
        /\ ctr' = [ctr EXCEPT ![Current] = "created"] /\ networks' = networks
    BY <1>1, <1>2 DEF Current, CreateContainer, SetContainer
  <2> DEFINE made == Current
  <2>3. \A c \in Containers : c # made => ctr'[c] = ctr[c]
    BY <2>2 DEF Invariants, TypeInv, DockerTypeOK
  <2>4. made \in Containers => ctr'[made] # Absent
    BY <2>2 DEF Invariants, TypeInv, DockerTypeOK, Absent
  <2>5. ASSUME NEW a \in Apps
        PROVE  HasObjects(a)' => HasObjects(a) \/ a = h.app
    <3>1. ASSUME NEW c \in Containers, ctr'[c] # Absent, c.man.app = a, a # h.app
          PROVE  c \in ContainersOf(a)
      BY <2>2, <2>3, <3>1 DEF ContainersOf, Existing
    <3> QED
      BY <2>2, <3>1 DEF HasObjects, ContainersOf, Existing, NetworksOf
  <2>6. ASSUME NEW a \in Apps, HasObjects(a)
        PROVE  HasObjects(a)'
    <3>1. \A c \in Containers : ctr[c] # Absent => ctr'[c] # Absent
      BY <2>3, <2>4
    <3> QED
      BY <2>2, <2>6, <3>1 DEF HasObjects, ContainersOf, Existing, NetworksOf
  <2>7. Held' = Held \/ Held' = Held \cup {h.app}
    BY <1>1, <2>5, <2>6 DEF Held
  <2> QED
    BY <1>1, <2>1, <2>7, DeployingStep DEF HeldWorks
<1>3. CASE h' = Rollback("rollbackStart") /\ UNCHANGED dockerVars
  <2>1. h'.app = h.app /\ h'.pc = "undeploy" /\ Fresh'
    BY <1>1, <1>3 DEF Rollback, Handler, Fresh
  <2>2. HeldWorks
    BY <1>3, HeldStays, PreservingCalls DEF Invariants, TypeInv, HeldWorks
  <2> QED
    BY <1>1, <2>1, <2>2, DeployingStep
<1> QED
  BY <1>2, <1>3 DEF Create

LEMMA StartStep ==
  ASSUME Invariants, Start
  PROVE  Refines
<1>1. /\ h.pc \in Deploying /\ h \in Handler
      /\ UNCHANGED <<known, disk, interrupted>>
  BY StatusHere DEF Start, Deploying, BetweenCommands, historyVars, agentVars
<1>2. CASE /\ CanStart(Current) /\ StartContainer(Current)
           /\ Goto("deployed") \/ h' = [h EXCEPT !.pc = "create", !.idx = @ - 1]
  <2>1. h'.app = h.app /\ h'.pc \in Deploying /\ Fresh'
    BY <1>1, <1>2 DEF Goto, Handler, Deploying, Fresh
  <2>2. HeldWorks
    BY <1>2, HeldStays, PreservingCalls
       DEF Invariants, TypeInv, HeldWorks, CanStart, StartContainer, Absent
  <2> QED
    BY <1>1, <2>1, <2>2, DeployingStep
<1>3. CASE h' = Rollback("rollbackStart") /\ UNCHANGED dockerVars
  <2>1. h'.app = h.app /\ h'.pc = "undeploy" /\ Fresh'
    BY <1>1, <1>3 DEF Rollback, Handler, Fresh
  <2>2. HeldWorks
    BY <1>3, HeldStays, PreservingCalls DEF Invariants, TypeInv, HeldWorks
  <2> QED
    BY <1>1, <2>1, <2>2, DeployingStep
<1> QED
  BY <1>2, <1>3 DEF Start

(***************************************************************************)
(* The steps at the end of a command that only set a status.               *)
(***************************************************************************)
LEMMA FinishStep ==
  ASSUME Invariants, FinishDeploy \/ FinishRollback \/ FinishStop \/ FinishResume
  PROVE  Refines
<1>1. /\ h.pc \notin BetweenCommands /\ UNCHANGED <<dockerVars, interrupted>>
      /\ h' = Idle
  BY DEF FinishDeploy, FinishRollback, FinishStop, FinishResume, GiveUp,
         BetweenCommands, historyVars
<1>2. h.app \in Apps /\ AtHand(h, LifecycleStatus[h.app]) /\ RecordsTypeOK
  BY <1>1, StatusHere DEF Invariants, TypeInv
<1>3. HeldWorks
  BY <1>1, HeldStays, PreservingCalls DEF Invariants, TypeInv, HeldWorks
<1>4. PICK s \in {"Running", "Stopped", "Error"} :
           /\ SetStatus(h.app, s)
           /\ \/ LifecycleStatus[h.app] \in {s, "Unknown"}
              \/ s \in LC!Follows[LifecycleStatus[h.app]]
  <2>1. CASE FinishDeploy
    BY <1>2, <2>1 DEF FinishDeploy, AtHand, Deploying, LC!Follows
  <2>2. CASE FinishRollback
    BY <1>2, <2>2 DEF FinishRollback, GiveUp, AtHand, LC!Follows
  <2>3. CASE FinishStop
    BY <1>2, <2>3 DEF FinishStop, AtHand, LC!Follows
  <2>4. CASE FinishResume
    BY <1>2, <2>4 DEF FinishResume, AtHand, LC!Follows
  <2> QED
    BY <2>1, <2>2, <2>3, <2>4
<1>5. s \in EdgeAppStatus \ {"Undeployed"}
  BY DEF EdgeAppStatus
<1>6. LifecycleStatus[h.app] = "Unknown" => ~ IsKnown(h.app)
  BY <1>2, StatusType
<1>7. StatusWorks
  BY <1>1, <1>2, <1>4, <1>5, <1>6, StatusSetWorks
<1>8. DiskBehind'
  BY <1>2, <1>4, <1>5, StatusSet DEF Invariants, RefinementInv
<1>9. LifecycleStatus'[h.app] \in {s, "Unknown"}
  BY <1>2, <1>4, <1>5, <1>6, StatusSet, StatusType
<1> QED
  BY <1>1, <1>2, <1>3, <1>7, <1>8, <1>9, IdleEnds, StepWorks
-----------------------------------------------------------------------------
(* STOP and RESUME *)

(***************************************************************************)
(* The lists: an error, or Executing.                                      *)
(***************************************************************************)
LEMMA ListsStep ==
  ASSUME Invariants, ListToStop \/ ListToResume
  PROVE  Refines
<1>1. /\ h.pc \notin BetweenCommands /\ UNCHANGED <<dockerVars, interrupted>>
  BY DEF ListToStop, ListToResume, BetweenCommands, historyVars
<1>2. /\ h \in Handler /\ h.app \in Apps
      /\ LifecycleStatus[h.app] \in {"Running", "Stopped"}
  BY <1>1, StatusHere DEF ListToStop, ListToResume, AtHand
<1>3. HeldWorks
  BY <1>1, HeldStays, PreservingCalls DEF Invariants, TypeInv, HeldWorks
<1>4. \/ GiveUp(Idle)
      \/ h' = Idle /\ UNCHANGED <<known, disk>>
      \/ /\ SetStatus(h.app, "Executing")
         /\ \E todo \in SUBSET ContainersOf(h.app) :
            \E l \in {"stop", "stopped", "resume", "resumed"} :
               h' = [h EXCEPT !.todo = todo, !.pc = l]
  <2>1. CASE ListToStop
    BY <2>1 DEF ListToStop, agentVars, ReadEdgeAppContainers
  <2>2. CASE ListToResume
    BY <2>2 DEF ListToResume, agentVars, ReadEdgeAppContainers
  <2> QED
    BY <2>1, <2>2
<1>5. CASE GiveUp(Idle)
  BY <1>1, <1>2, <1>3, <1>5, GiveUpStep, IdleEnds, StepWorks
<1>6. CASE h' = Idle /\ UNCHANGED <<known, disk>>
  BY <1>1, <1>2, <1>3, <1>6, SameRecordsStep, IdleEnds, StepWorks
<1>7. ASSUME SetStatus(h.app, "Executing"),
             NEW todo \in SUBSET ContainersOf(h.app),
             NEW l \in {"stop", "stopped", "resume", "resumed"},
             h' = [h EXCEPT !.todo = todo, !.pc = l]
      PROVE  Refines
  <2>1. "Executing" \in LC!Follows[LifecycleStatus[h.app]]
    BY <1>2 DEF LC!Follows
  <2>2. StatusWorks /\ DiskBehind' /\ LifecycleStatus'[h.app] = "Executing"
    BY <1>1, <1>2, <1>7, <2>1, StatusStep DEF EdgeAppStatus
  <2>3. h'.app = h.app /\ h'.pc = l /\ h'.todo = todo
    BY <1>2, <1>7 DEF Handler
  <2>4. GoesOn
    BY <1>7, <2>2, <2>3
       DEF ContainersOf, GoesOn, BetweenCommands, AtHand, Deploying, OwnContainers,
           Fresh, Named, UnusedStayUnused
  <2> QED
    BY <1>2, <1>3, <2>2, <2>4, StepWorks
<1> QED
  BY <1>4, <1>5, <1>6, <1>7

(***************************************************************************)
(* The loops neither create nor remove containers.                         *)
(***************************************************************************)
LEMMA LoopsStep ==
  ASSUME Invariants, StopNext \/ ResumeNext
  PROVE  Refines
<1>1. h.pc \notin BetweenCommands /\ UNCHANGED interrupted
  BY DEF StopNext, ResumeNext, BetweenCommands, historyVars
<1>2. /\ h \in Handler /\ h.app \in Apps
      /\ LifecycleStatus[h.app] = "Executing"
  BY <1>1, StatusHere DEF StopNext, ResumeNext, AtHand
<1>3. \/ UNCHANGED dockerVars
      \/ \E c : CanStop(c) /\ StopContainer(c)
      \/ \E c : CanStart(c) /\ StartContainer(c)
  BY DEF StopNext, ResumeNext
<1>4. HeldWorks
  BY <1>3, HeldStays, PreservingCalls
     DEF Invariants, TypeInv, HeldWorks, CanStop, StopContainer, CanStart,
         StartContainer, Absent
<1>5. \/ GiveUp(Idle)
      \/ /\ UNCHANGED <<known, disk>>
         /\ \E todo \in SUBSET h.todo :
            \E l \in {"stop", "stopped", "resume", "resumed"} :
               h' = [h EXCEPT !.todo = todo, !.pc = l]
  <2>1. CASE StopNext
    BY <1>2, <2>1 DEF StopNext, agentVars
  <2>2. CASE ResumeNext
    BY <1>2, <2>2 DEF ResumeNext, agentVars
  <2> QED
    BY <2>1, <2>2
<1>6. CASE GiveUp(Idle)
  BY <1>1, <1>2, <1>4, <1>6, GiveUpStep, IdleEnds, StepWorks
<1>7. ASSUME UNCHANGED <<known, disk>>,
             NEW todo \in SUBSET h.todo,
             NEW l \in {"stop", "stopped", "resume", "resumed"},
             h' = [h EXCEPT !.todo = todo, !.pc = l]
      PROVE  Refines
  <2>1. StatusWorks /\ DiskBehind' /\ LifecycleStatus' = LifecycleStatus
    BY <1>1, <1>7, SameRecordsStep
  <2>2. h'.app = h.app /\ h'.pc = l /\ h'.todo = todo
    BY <1>2, <1>7 DEF Handler
  <2>3. \A c \in todo : c.man.app = h.app
    BY <1>7
       DEF StopNext, ResumeNext, Invariants, RefinementInv, OwnContainers
  <2>4. GoesOn
    BY <1>2, <2>1, <2>2, <2>3
       DEF GoesOn, BetweenCommands, AtHand, Deploying, OwnContainers, Fresh, Named,
           UnusedStayUnused
  <2> QED
    BY <1>2, <1>4, <2>1, <2>4, StepWorks
<1> QED
  BY <1>5, <1>6, <1>7
-----------------------------------------------------------------------------
(* UNDEPLOY and REMOVE *)

LEMMA BeginUndeployStep ==
  ASSUME Invariants, BeginUndeploy
  PROVE  Refines
<1>1. /\ h.pc = "undeploy" /\ h.pc \notin BetweenCommands
      /\ UNCHANGED <<dockerVars, interrupted>>
      /\ SetStatus(h.app, "Executing")
      /\ h' = [h EXCEPT !.pc = "listToRemove", !.failed = FALSE]
  BY DEF BeginUndeploy, BetweenCommands, historyVars
<1>2. /\ h \in Handler /\ h.app \in Apps
      /\ LifecycleStatus[h.app] \in LC!Status \ {"Unknown"}
  BY <1>1, StatusHere DEF AtHand
<1>3. \/ LifecycleStatus[h.app] = "Executing"
      \/ "Executing" \in LC!Follows[LifecycleStatus[h.app]]
  BY <1>2, ErrorMayFollow
<1>4. StatusWorks /\ DiskBehind' /\ LifecycleStatus'[h.app] = "Executing"
  BY <1>1, <1>2, <1>3, StatusStep DEF EdgeAppStatus
<1>5. h'.app = h.app /\ h'.pc = "listToRemove" /\ ~ h'.failed
  BY <1>1, <1>2 DEF Handler
<1>6. GoesOn
  BY <1>4, <1>5
     DEF GoesOn, BetweenCommands, AtHand, Deploying, OwnContainers, Fresh, Named,
         UnusedStayUnused
<1>7. HeldWorks
  BY <1>1, HeldStays, PreservingCalls DEF Invariants, TypeInv, HeldWorks
<1> QED
  BY <1>2, <1>4, <1>6, <1>7, StepWorks

(***************************************************************************)
(* An error on the way, with the status set or already set before.         *)
(***************************************************************************)
LEMMA ReturnsStep ==
  ASSUME Invariants, h.pc \notin BetweenCommands, HeldWorks, UNCHANGED interrupted,
         \/ GiveUp(Returned(TRUE)) /\ LifecycleStatus[h.app] # "Unknown"
         \/ /\ h' = Returned(TRUE) /\ UNCHANGED <<known, disk>>
            /\ LifecycleStatus[h.app] = "Error"
  PROVE  Refines
<1>1. h \in Handler /\ h.app \in Apps
  BY StatusHere
<1>2. /\ StatusWorks /\ DiskBehind' /\ h' = Returned(TRUE)
      /\ LifecycleStatus'[h.app] = "Error"
  BY <1>1, GiveUpStep, SameRecordsStep
<1>3. Ends \/ GoesOn
  BY <1>1, <1>2, ReturnStep
<1> QED
  BY <1>1, <1>2, <1>3, StepWorks

(***************************************************************************)
(* The loop over the containers: all are the edge app's own, and Error is  *)
(* its status if and only if an error has been noted.                      *)
(***************************************************************************)
LEMMA RemoveLoopStep ==
  ASSUME Invariants, h.pc \notin BetweenCommands, HeldWorks, StatusWorks, DiskBehind',
         NEW todo \in SUBSET Containers, \A c \in todo : c.man.app = h.app,
         \/ /\ h' = RemoveLoop(todo)
            /\ LifecycleStatus'[h.app] = IF h.failed THEN "Error" ELSE "Executing"
         \/ h' = Noted(RemoveLoop(todo)) /\ LifecycleStatus'[h.app] = "Error"
  PROVE  Refines
<1>1. h \in Handler /\ h.app \in Apps
  BY StatusHere
<1>2. PICK l \in {"prune", "removeContainer"} :
           RemoveLoop(todo) = [h EXCEPT !.todo = todo, !.pc = l]
  BY DEF RemoveLoop
<1>3. /\ h'.pc = l /\ h'.todo = todo /\ h'.app = h.app
      /\ h' = RemoveLoop(todo) => h'.failed = h.failed
      /\ h' = Noted(RemoveLoop(todo)) => h'.failed
  BY <1>1, <1>2 DEF Noted, Handler
<1>4. AtHand(h', LifecycleStatus'[h.app])
  BY <1>3 DEF AtHand, Deploying
<1>5. GoesOn
  BY <1>3, <1>4
     DEF GoesOn, BetweenCommands, OwnContainers, Fresh, Named, UnusedStayUnused
<1> QED
  BY <1>1, <1>5, StepWorks

LEMMA ListToRemoveStep ==
  ASSUME Invariants, ListToRemove
  PROVE  Refines
<1>1. /\ h.pc = "listToRemove" /\ h.pc \notin BetweenCommands
      /\ UNCHANGED <<dockerVars, interrupted>>
  BY DEF ListToRemove, BetweenCommands, historyVars
<1>2. /\ h \in Handler /\ h.app \in Apps /\ ~ h.failed
      /\ LifecycleStatus[h.app] = "Executing"
  BY <1>1, StatusHere DEF AtHand
<1>3. HeldWorks
  BY <1>1, HeldStays, PreservingCalls DEF Invariants, TypeInv, HeldWorks
<1>4. CASE GiveUp(Returned(TRUE))
  BY <1>1, <1>2, <1>3, <1>4, ReturnsStep
<1>5. CASE h' = RemoveLoop(ReadEdgeAppContainers(h.app)) /\ UNCHANGED agentVars
  <2> DEFINE todo == ReadEdgeAppContainers(h.app)
  <2>1. todo \in SUBSET Containers /\ \A c \in todo : c.man.app = h.app
    BY DEF ReadEdgeAppContainers, ContainersOf, Existing
  <2>2. StatusWorks /\ DiskBehind' /\ LifecycleStatus' = LifecycleStatus
    BY <1>1, <1>5, SameRecordsStep DEF agentVars
  <2> HIDE DEF todo
  <2> QED
    BY <1>1, <1>2, <1>3, <1>5, <2>1, <2>2, RemoveLoopStep DEF todo
<1> QED
  BY <1>4, <1>5 DEF ListToRemove

(***************************************************************************)
(* A container is removed, or not: nothing of another edge app is touched. *)
(***************************************************************************)
LEMMA RemoveNextStep ==
  ASSUME Invariants, RemoveNext
  PROVE  Refines
<1>1. /\ h.pc = "removeContainer" /\ h.pc \notin BetweenCommands
      /\ UNCHANGED interrupted
  BY DEF RemoveNext, BetweenCommands, historyVars
<1>2. /\ h \in Handler /\ h.app \in Apps
      /\ LifecycleStatus[h.app] = IF h.failed THEN "Error" ELSE "Executing"
      /\ h.todo \in SUBSET Containers
      /\ \A c \in h.todo : c.man.app = h.app
  BY <1>1, StatusHere
     DEF AtHand, Handler, Invariants, RefinementInv, OwnContainers
<1>3. PICK c \in HeadOf(h.todo) :
         \/ /\ RemoveContainer(c)
            /\ h' = RemoveLoop(h.todo \ {c})
            /\ UNCHANGED agentVars
         \/ /\ FailToRemoveContainer(c)
            /\ GiveUp(Noted(RemoveLoop(h.todo \ {c})))
  BY DEF RemoveNext
<1>4. /\ c \in Containers /\ c.man.app = h.app
      /\ h.todo \ {c} \in SUBSET Containers
      /\ \A d \in h.todo \ {c} : d.man.app = h.app
  BY <1>2 DEF HeadOf
<1>5. CASE RemoveContainer(c) /\ h' = RemoveLoop(h.todo \ {c}) /\ UNCHANGED agentVars
  <2>1. StatusWorks /\ DiskBehind' /\ LifecycleStatus' = LifecycleStatus
    BY <1>1, <1>5, SameRecordsStep DEF agentVars
  <2>2. ctr' = [ctr EXCEPT ![c] = Absent] /\ networks' = networks
    BY <1>5 DEF RemoveContainer, SetContainer
  <2>3. \A d \in Containers \ {c} : ctr'[d] = ctr[d]
    BY <2>2 DEF Invariants, TypeInv, DockerTypeOK
  <2>4. ASSUME NEW a \in Apps, a # h.app
        PROVE  HasObjects(a)' <=> HasObjects(a)
    BY <1>4, <2>2, <2>3, <2>4 DEF HasObjects, ContainersOf, Existing, NetworksOf
  <2>5. Shrinks
    BY <1>5, ShrinkingCalls DEF Invariants, TypeInv, RemoveContainer
  <2>6. \A a \in Apps : HasObjects(a)' => HasObjects(a)
    BY <2>5, ObjectsShrink
  <2>7. HeldWorks
    BY <1>2, <2>4, <2>6 DEF HeldWorks, Held
  <2> QED
    BY <1>1, <1>2, <1>4, <1>5, <2>1, <2>7, RemoveLoopStep
<1>6. CASE FailToRemoveContainer(c) /\ GiveUp(Noted(RemoveLoop(h.todo \ {c})))
  <2>1. /\ StatusWorks /\ DiskBehind' /\ LifecycleStatus'[h.app] = "Error"
        /\ h' = Noted(RemoveLoop(h.todo \ {c}))
    BY <1>1, <1>2, <1>6, GiveUpStep
  <2>2. HeldWorks
    BY <1>6, HeldStays, PreservingCalls
       DEF Invariants, TypeInv, HeldWorks, FailToRemoveContainer, StopContainer, Absent
  <2> QED
    BY <1>1, <1>4, <2>1, <2>2, RemoveLoopStep
<1> QED
  BY <1>3, <1>5, <1>6

(***************************************************************************)
(* Only the edge app's own networks are pruned.                            *)
(***************************************************************************)
LEMMA PruneStep ==
  ASSUME Invariants, Prune
  PROVE  Refines
<1>1. /\ h.pc = "prune" /\ h.pc \notin BetweenCommands /\ UNCHANGED interrupted
  BY DEF Prune, BetweenCommands, historyVars
<1>2. /\ h \in Handler /\ h.app \in Apps
      /\ LifecycleStatus[h.app] = IF h.failed THEN "Error" ELSE "Executing"
  BY <1>1, StatusHere DEF AtHand
<1>3. HeldWorks
  <2>1. CASE UNCHANGED dockerVars
    BY <2>1, HeldStays, PreservingCalls DEF Invariants, TypeInv, HeldWorks
  <2>2. CASE NetworkPrune(h.app)
    <3>1. ASSUME NEW a \in Apps, a # h.app
          PROVE  HasObjects(a)' <=> HasObjects(a)
      BY <2>2, <3>1 DEF NetworkPrune, HasObjects, ContainersOf, Existing, NetworksOf
    <3>2. \A a \in Apps : HasObjects(a)' => HasObjects(a)
      BY <2>2, ShrinkingCalls, ObjectsShrink DEF Invariants, TypeInv
    <3> QED
      BY <1>2, <3>1, <3>2 DEF HeldWorks, Held
  <2> QED
    BY <2>1, <2>2 DEF Prune
<1>4. CASE GiveUp(Returned(TRUE))
  BY <1>1, <1>2, <1>3, <1>4, ReturnsStep
<1>5. CASE h.failed /\ h' = Returned(TRUE) /\ UNCHANGED agentVars
  BY <1>1, <1>2, <1>3, <1>5, ReturnsStep DEF agentVars
<1>6. CASE ~ h.failed /\ h' = [h EXCEPT !.pc = "undeployed"] /\ UNCHANGED agentVars
  <2>1. StatusWorks /\ DiskBehind' /\ LifecycleStatus' = LifecycleStatus
    BY <1>1, <1>6, SameRecordsStep DEF agentVars
  <2>2. h'.app = h.app /\ h'.pc = "undeployed" /\ ~ h'.failed
    BY <1>2, <1>6 DEF Handler
  <2>3. GoesOn
    BY <1>2, <1>6, <2>1, <2>2
       DEF GoesOn, BetweenCommands, AtHand, Deploying, OwnContainers, Fresh, Named,
           UnusedStayUnused
  <2> QED
    BY <1>2, <1>3, <2>1, <2>3, StepWorks
<1> QED
  BY <1>4, <1>5, <1>6 DEF Prune

(***************************************************************************)
(* Undeployed, with nothing left on the host.                              *)
(***************************************************************************)
LEMMA FinishUndeployStep ==
  ASSUME Invariants, FinishUndeploy
  PROVE  Refines
<1>1. /\ h.pc = "undeployed" /\ h.pc \notin BetweenCommands
      /\ UNCHANGED dockerVars
      /\ SetStatus(h.app, "Undeployed")
      /\ interrupted' = interrupted \ {h.app}
      /\ h' = Idle \/ h' = [h EXCEPT !.pc = "listImages"]
  BY DEF FinishUndeploy, Goto, BetweenCommands
<1>2. /\ h \in Handler /\ h.app \in Apps /\ RecordsTypeOK
      /\ LifecycleStatus[h.app] = "Executing" /\ ~ h.failed
  BY <1>1, StatusHere DEF AtHand, Invariants, TypeInv
<1>3. IsKnown(h.app) /\ LifecycleStatus \in [Apps -> LC!Status]
  BY <1>2, StatusType
<1>4. h.app \notin Held
  BY <1>1 DEF Invariants, OrphanInv, NothingLeft, Emptied, Held
<1>5. /\ LifecycleStatus' = [LifecycleStatus EXCEPT ![h.app] = "Undeployed"]
      /\ DiskBehind'
  BY <1>1, <1>2, <1>3, StatusSet DEF Invariants, RefinementInv, EdgeAppStatus
<1>6. LifecycleStatus'[h.app] = "Undeployed"
  BY <1>2, <1>3, <1>5
<1>7. "Undeployed" \in LC!Follows[LifecycleStatus[h.app]]
  BY <1>2 DEF LC!Follows
<1>8. StatusWorks
  BY <1>1, <1>4, <1>5, <1>7 DEF StatusWorks
<1>9. HeldWorks
  BY <1>1, HeldStays, PreservingCalls DEF Invariants, TypeInv, HeldWorks
<1>10. CASE h' = [h EXCEPT !.pc = "listImages"]
  <2>1. h'.app = h.app /\ h'.pc = "listImages" /\ ~ h'.failed
    BY <1>2, <1>10 DEF Handler
  <2>2. GoesOn
    BY <1>6, <2>1
       DEF GoesOn, BetweenCommands, AtHand, Deploying, OwnContainers, Fresh, Named,
           UnusedStayUnused
  <2> QED
    BY <1>2, <1>5, <1>8, <1>9, <2>2, StepWorks
<1> QED
  BY <1>1, <1>2, <1>5, <1>6, <1>8, <1>9, <1>10, IdleEnds, StepWorks

(***************************************************************************)
(* A status is set in the record, which keeps its manifest.                *)
(***************************************************************************)
LEMMA ManifestStays ==
  ASSUME RecordsTypeOK, h.app \in Apps,
         UNCHANGED known \/ \E s : SetStatus(h.app, s)
  PROVE  \A a \in {h.app} : known'[a].man = known[a].man
<1>1. ASSUME NEW s, SetStatus(h.app, s), IsKnown(h.app)
      PROVE  known'[h.app].man = known[h.app].man
  <2>1. known' = [known EXCEPT ![h.app] = [man |-> known[h.app].man, status |-> s]]
    BY <1>1 DEF SetStatus
  <2>2. known'[h.app] = [man |-> known[h.app].man, status |-> s]
    BY <2>1 DEF RecordsTypeOK
  <2> QED
    BY <2>2
<1>2. ASSUME NEW s, SetStatus(h.app, s), ~ IsKnown(h.app)
      PROVE  UNCHANGED known
  BY <1>2 DEF SetStatus, agentVars
<1> QED
  BY <1>1, <1>2

(***************************************************************************)
(* While they are removed, the names of the images to remove stay.         *)
(***************************************************************************)
LEMMA NamesStay ==
  ASSUME known'[h.app].man = known[h.app].man,
         h'.app = h.app, h'.mode = h.mode, h'.man = h.man
  PROVE  removeImageNames' = removeImageNames
  BY DEF removeImageNames, keepImages, ImagesOf

(***************************************************************************)
(* The removal of one image leaves the names of the others.                *)
(***************************************************************************)
LEMMA OthersStayNamed ==
  ASSUME NEW i, UNCHANGED images \/ ImageRemove(i), NEW names
  PROVE  /\ GetImagesByName(names)' \subseteq GetImagesByName(names)
         /\ GetImagesByName(names) \ {i} \subseteq GetImagesByName(names)'
<1>1. CASE UNCHANGED images
  BY <1>1 DEF GetImagesByName
<1>2. CASE ImageRemove(i)
  BY <1>2 DEF ImageRemove, ReferencesTo, GetImagesByName
<1> QED
  BY <1>1, <1>2

(***************************************************************************)
(* Images are listed.                                                      *)
(***************************************************************************)
LEMMA ListsOfImagesStep ==
  ASSUME Invariants, ListImages \/ ListUsers
  PROVE  Refines
<1>1. h.pc \notin BetweenCommands /\ UNCHANGED <<dockerVars, interrupted>>
  BY DEF ListImages, ListUsers, BetweenCommands, historyVars
<1>2. /\ h \in Handler /\ h.app \in Apps /\ ~ h.failed
      /\ LifecycleStatus[h.app] = "Undeployed"
  BY <1>1, StatusHere DEF AtHand, ListImages, ListUsers
<1>3. HeldWorks
  BY <1>1, HeldStays, PreservingCalls DEF Invariants, TypeInv, HeldWorks
<1>4. \/ GiveUp(Returned(TRUE))
      \/ /\ UNCHANGED <<known, disk>>
         /\ \/ h' = [h EXCEPT !.pc = "deleteRecord"]
            \/ \E unused : \E l \in {"deleteRecord", "listUsers", "removeImage"} :
                  /\ h' = [h EXCEPT !.unused = unused, !.pc = l]
                  /\ unused \subseteq GetImagesByName(removeImageNames)
                  /\ l = "removeImage" => \A i \in unused : UsersOf(i) = {}
  <2>1. CASE ListImages
    <3> DEFINE listed == GetImagesByName(removeImageNames)
    <3>1. \A unused : [h EXCEPT !.pc = "listUsers", !.unused = unused]
                        = [h EXCEPT !.unused = unused, !.pc = "listUsers"]
      BY <1>2 DEF Handler
    <3>2. \/ GiveUp(Returned(TRUE))
          \/ UNCHANGED agentVars /\ h' = [h EXCEPT !.pc = "deleteRecord"]
          \/ /\ UNCHANGED agentVars
             /\ h' = [h EXCEPT !.unused = listed, !.pc = "listUsers"]
      BY <2>1, <3>1 DEF ListImages, Goto
    <3> HIDE DEF listed
    <3>3. listed \subseteq GetImagesByName(removeImageNames)
      BY DEF listed
    <3> QED
      BY <3>2, <3>3 DEF agentVars
  <2>2. CASE ListUsers
    <3> DEFINE unused == {i \in h.unused : HasNoUser(i)}
    <3>1. unused \subseteq GetImagesByName(removeImageNames)
      BY <2>2 DEF ListUsers, Invariants, RefinementInv, Named
    <3>2. \A i \in unused : UsersOf(i) = {}
      BY DEF HasNoUser
    <3>3. \/ GiveUp(Returned(TRUE))
          \/ /\ UNCHANGED agentVars
             /\ \E l \in {"deleteRecord", "removeImage"} :
                   h' = [h EXCEPT !.unused = unused, !.pc = l]
      BY <2>2 DEF ListUsers
    <3> HIDE DEF unused
    <3> QED
      BY <3>1, <3>2, <3>3 DEF agentVars
  <2> QED
    BY <2>1, <2>2
<1>5. CASE GiveUp(Returned(TRUE))
  BY <1>1, <1>2, <1>3, <1>5, ReturnsStep
<1>6. ASSUME UNCHANGED <<known, disk>>,
             \/ h' = [h EXCEPT !.pc = "deleteRecord"]
             \/ \E unused : \E l \in {"deleteRecord", "listUsers", "removeImage"} :
                   /\ h' = [h EXCEPT !.unused = unused, !.pc = l]
                   /\ unused \subseteq GetImagesByName(removeImageNames)
                   /\ l = "removeImage" => \A i \in unused : UsersOf(i) = {}
      PROVE  Refines
  <2>1. StatusWorks /\ DiskBehind' /\ LifecycleStatus' = LifecycleStatus
    BY <1>1, <1>6, SameRecordsStep
  <2>2. /\ h'.app = h.app /\ ~ h'.failed /\ h'.mode = h.mode /\ h'.man = h.man
        /\ h'.pc \in {"deleteRecord", "listUsers", "removeImage"}
    BY <1>2, <1>6 DEF Handler
  <2>3. \A i : UsersOf(i)' = UsersOf(i)
    BY <1>1 DEF UsersOf, Existing, dockerVars
  <2>4. h'.pc # "deleteRecord" =>
           /\ h'.unused \subseteq GetImagesByName(removeImageNames)
           /\ h'.pc = "removeImage" => \A i \in h'.unused : UsersOf(i) = {}
    BY <1>2, <1>6 DEF Handler
  <2>5. Named'
    <3>1. removeImageNames' = removeImageNames
      BY <1>6, <2>2, NamesStay
    <3>2. GetImagesByName(removeImageNames)' = GetImagesByName(removeImageNames)
      BY <1>1, <3>1 DEF GetImagesByName, dockerVars
    <3> QED
      BY <2>2, <2>4, <3>2 DEF Named
  <2>6. UnusedStayUnused'
    BY <2>2, <2>3, <2>4 DEF UnusedStayUnused
  <2>7. GoesOn
    BY <1>2, <2>1, <2>2, <2>5, <2>6
       DEF GoesOn, BetweenCommands, AtHand, Deploying, OwnContainers, Fresh
  <2> QED
    BY <1>2, <1>3, <2>1, <2>7, StepWorks
<1> QED
  BY <1>4, <1>5, <1>6

(***************************************************************************)
(* Images are removed; with the first error the status becomes Error.      *)
(***************************************************************************)
LEMMA RemoveImageStep ==
  ASSUME Invariants, RemoveImage
  PROVE  Refines
<1>1. h.pc = "removeImage" /\ h.pc \notin BetweenCommands /\ UNCHANGED interrupted
  BY DEF RemoveImage, BetweenCommands, historyVars
<1>2. /\ h \in Handler /\ h.app \in Apps /\ h.failed \in BOOLEAN
      /\ LifecycleStatus[h.app] = IF h.failed THEN "Error" ELSE "Undeployed"
  BY <1>1, StatusHere DEF AtHand, Handler
<1>3. HeldWorks
  BY HeldStays, PreservingCalls DEF Invariants, TypeInv, HeldWorks, RemoveImage
<1>4. PICK i \in h.unused, err \in BOOLEAN :
        LET rest == [h EXCEPT !.unused = @ \ {i}, !.failed = @ \/ err]
        IN  /\ IF err THEN SetStatus(h.app, "Error") ELSE UNCHANGED agentVars
            /\ UNCHANGED images \/ ImageRemove(i)
            /\ h' = rest \/ h' = AfterImages(rest)
  BY DEF RemoveImage, dockerVars
<1> DEFINE rest == [h EXCEPT !.unused = @ \ {i}, !.failed = @ \/ err]
<1>5. /\ rest.pc = "removeImage" /\ rest.app = h.app
      /\ rest.failed = (h.failed \/ err)
      /\ [rest EXCEPT !.pc = "deleteRecord"].pc = "deleteRecord"
      /\ [rest EXCEPT !.pc = "deleteRecord"].app = h.app
      /\ [rest EXCEPT !.pc = "deleteRecord"].failed = rest.failed
  BY <1>1, <1>2 DEF Handler
<1>6. \/ h' = rest
      \/ h' = [rest EXCEPT !.pc = "deleteRecord"] /\ ~ rest.failed
      \/ h' = Returned(TRUE) /\ rest.failed
  BY <1>4 DEF AfterImages
<1>7. /\ StatusWorks /\ DiskBehind'
      /\ LifecycleStatus'[h.app] = IF rest.failed THEN "Error" ELSE "Undeployed"
  <2>1. CASE err
    <3>1. SetStatus(h.app, "Error") /\ rest.failed
      BY <1>4, <1>5, <2>1
    <3>2. GiveUp(h')
      BY <3>1 DEF GiveUp
    <3> QED
      BY <1>1, <1>2, <3>1, <3>2, GiveUpStep
  <2>2. CASE ~ err
    <3>1. UNCHANGED <<known, disk>> /\ rest.failed = h.failed
      BY <1>2, <1>4, <1>5, <2>2 DEF agentVars
    <3> QED
      BY <1>1, <1>2, <3>1, SameRecordsStep
  <2> QED
    BY <2>1, <2>2
<1>8. /\ rest.unused = h.unused \ {i} /\ rest.mode = h.mode /\ rest.man = h.man
      /\ \A j : UsersOf(j)' = UsersOf(j)
  BY <1>2 DEF Handler, RemoveImage, ImageRemove, dockerVars, UsersOf, Existing
<1>9. h' = rest => Named' /\ UnusedStayUnused'
  <2> SUFFICES ASSUME h' = rest
               PROVE  Named' /\ UnusedStayUnused'
    OBVIOUS
  <2>1. known'[h.app].man = known[h.app].man
    BY <1>2, <1>4, ManifestStays DEF Invariants, TypeInv, agentVars
  <2>2. removeImageNames' = removeImageNames
    BY <1>5, <1>8, <2>1, NamesStay
  <2>3. GetImagesByName(removeImageNames) \ {i} \subseteq GetImagesByName(removeImageNames)'
    <3>1. \A names : GetImagesByName(names) \ {i} \subseteq GetImagesByName(names)'
      BY <1>4, OthersStayNamed
    <3> QED
      BY <2>2, <3>1 DEF GetImagesByName
  <2>4. h.unused \subseteq GetImagesByName(removeImageNames)
    BY <1>1 DEF Invariants, RefinementInv, Named
  <2>5. Named'
    BY <1>8, <2>3, <2>4 DEF Named
  <2>6. UnusedStayUnused'
    BY <1>1, <1>5, <1>8 DEF Invariants, RefinementInv, UnusedStayUnused
  <2> QED
    BY <2>5, <2>6
<1> HIDE DEF rest
<1>10. Ends \/ GoesOn
  <2>1. CASE h' = rest
    BY <1>5, <1>7, <1>9, <2>1
       DEF GoesOn, BetweenCommands, AtHand, Deploying, OwnContainers, Fresh, Named,
           UnusedStayUnused
  <2>2. CASE h' = [rest EXCEPT !.pc = "deleteRecord"] /\ ~ rest.failed
    BY <1>5, <1>7, <2>2
       DEF GoesOn, BetweenCommands, AtHand, Deploying, OwnContainers, Fresh, Named,
           UnusedStayUnused
  <2>3. CASE h' = Returned(TRUE) /\ rest.failed
    BY <1>2, <1>7, <2>3, ReturnStep
  <2> QED
    BY <1>6, <2>1, <2>2, <2>3
<1> QED
  BY <1>2, <1>3, <1>7, <1>10, StepWorks

(***************************************************************************)
(* The record is deleted.                                                  *)
(***************************************************************************)
LEMMA DeleteRecordStep ==
  ASSUME Invariants, DeleteRecord
  PROVE  Refines
<1>1. /\ h.pc = "deleteRecord" /\ h.pc \notin BetweenCommands
      /\ UNCHANGED <<dockerVars, interrupted>>
      /\ known' = [known EXCEPT ![h.app] = NoRecord] /\ disk' = known'
  BY DEF DeleteRecord, BetweenCommands, historyVars
<1>2. /\ h \in Handler /\ h.app \in Apps /\ RecordsTypeOK
      /\ LifecycleStatus[h.app] = "Undeployed"
  BY <1>1, StatusHere DEF AtHand, Invariants, TypeInv
<1>3. /\ known'[h.app] = NoRecord
      /\ \A a \in Apps \ {h.app} : known'[a] = known[a]
  BY <1>1, <1>2 DEF RecordsTypeOK
<1>4. \A a \in Apps :
         LifecycleStatus'[a] = [LifecycleStatus EXCEPT ![h.app] = "Unknown"][a]
  BY <1>3 DEF LifecycleStatus, IsKnown
<1>5. LifecycleStatus' = [LifecycleStatus EXCEPT ![h.app] = "Unknown"]
  BY <1>4 DEF LifecycleStatus
<1>6. "Unknown" \in LC!Follows[LifecycleStatus[h.app]]
  BY <1>2 DEF LC!Follows
<1>7. StatusWorks
  BY <1>1, <1>5, <1>6 DEF StatusWorks
<1>8. HeldWorks
  BY <1>1, HeldStays, PreservingCalls DEF Invariants, TypeInv, HeldWorks
<1>9. LifecycleStatus'[h.app] = "Unknown"
  BY <1>2, <1>4, <1>5, StatusType
<1>10. h.app \notin Held'
  <2>1. ~ HasObjects(h.app)
    BY <1>1 DEF Invariants, OrphanInv, NothingLeft, Emptied
  <2> QED
    BY <1>1, <2>1, HeldStays, PreservingCalls DEF Invariants, TypeInv, Held
<1>12. Ends \/ GoesOn
  BY <1>2, <1>9, <1>10, ReturnStep DEF DeleteRecord
<1>11. DiskBehind'
  BY <1>1 DEF DiskBehind
<1> QED
  BY <1>2, <1>7, <1>8, <1>11, <1>12, StepWorks
-----------------------------------------------------------------------------
(* Around the handler *)

LEMMA SetLastLogReadStep ==
  ASSUME Invariants, SetLastLogRead
  PROVE  Refines
<1>1. UNCHANGED <<dockerVars, known, h, interrupted>> /\ disk' = known
  BY DEF SetLastLogRead, historyVars
<1>2. Held' = Held /\ LifecycleStatus' = LifecycleStatus
  BY <1>1, HeldStays, PreservingCalls, RecordsStay DEF Invariants, TypeInv
<1>3. UNCHANGED LC!vars
  BY <1>1, <1>2 DEF LC!vars, Held
<1>4. DiskBehind'
  BY <1>1 DEF DiskBehind
<1>5. Fresh'
  <2>1. HasObjects(h.app)' => HasObjects(h.app)
    BY <1>1, ShrinkingCalls, ObjectsShrink DEF Invariants, TypeInv
  <2>2. UNCHANGED <<interrupted, incomplete>>
    BY DEF SetLastLogRead, historyVars
  <2> QED
    BY <1>1, <2>1, <2>2 DEF Invariants, RefinementInv, Fresh, Excused
<1>6. Named'
  BY <1>1 DEF Invariants, RefinementInv, Named, GetImagesByName, removeImageNames,
              keepImages, dockerVars
<1> QED
  BY <1>1, <1>2, <1>3, <1>4, <1>5, <1>6
     DEF Invariants, Refines, RefinementInv, NoneAtHand, StatusAtHand, OwnContainers,
         UnusedStayUnused, UsersOf, Existing, AllGone, IsKnown, dockerVars,
         LeavesAtRest

(***************************************************************************)
(* Containers that change may disappear, but never appear.                 *)
(***************************************************************************)
LEMMA ContainerChangesStep ==
  ASSUME Invariants, ContainerChanges \/ UNCHANGED vars
  PROVE  Refines
<1>1. UNCHANGED <<known, disk, h, interrupted>>
  BY DEF ContainerChanges, vars, agentVars, historyVars
<1>2. \/ UNCHANGED dockerVars
      \/ \E c, state : /\ SetContainer(c, state)
                       /\ ctr[c] # Absent \/ state = Absent
  BY DEF ContainerChanges, vars, dockerVars, ContainerExits, ContainerFails,
         ContainerRestarts, ContainerGivesUp, RemovedByHand, Absent
<1>3. Held' \in SUBSET Held
  BY <1>2, ShrinkingCalls, ObjectsShrink DEF Invariants, TypeInv, Held
<1>4. LifecycleStatus' = LifecycleStatus /\ DiskBehind'
  BY <1>1, SameRecordsStep
<1>5. LC!Vanish
  BY <1>1, <1>3, <1>4 DEF LC!Vanish, Held
<1>6. Fresh'
  <2>1. HasObjects(h.app)' => HasObjects(h.app)
    BY <1>1, <1>2, ShrinkingCalls, ObjectsShrink DEF Invariants, TypeInv
  <2>2. UNCHANGED <<interrupted, incomplete>>
    BY DEF ContainerChanges, vars, historyVars
  <2> QED
    BY <1>1, <2>1, <2>2 DEF Invariants, RefinementInv, Fresh, Excused
<1>7. UnusedStayUnused'
  <2>1. Shrinks
    BY <1>2, ShrinkingCalls DEF Invariants, TypeInv
  <2>2. \A i : UsersOf(i)' \subseteq UsersOf(i)
    BY <2>1 DEF Shrinks, UsersOf
  <2> QED
    BY <1>1, <2>2 DEF Invariants, RefinementInv, UnusedStayUnused
<1>8. Named' /\ AllGone'
  <2>1. UNCHANGED images
    BY DEF ContainerChanges, vars, ContainerExits, ContainerFails, ContainerRestarts,
           ContainerGivesUp, RemovedByHand, SetContainer
  <2> QED
    BY <1>1, <2>1 DEF Invariants, RefinementInv, Named, GetImagesByName,
                      removeImageNames, keepImages, AllGone, IsKnown
<1> QED
  BY <1>1, <1>4, <1>5, <1>6, <1>7, <1>8
     DEF Invariants, Refines, RefinementInv, LC!Next, NoneAtHand, StatusAtHand,
         OwnContainers, LeavesAtRest

(***************************************************************************)
(* A restart loses only what Lifecycle lets it lose: where memory and disk *)
(* differ, a deployment had begun; and if the older record does not        *)
(* account for what is on the host, that deployment was cut off            *)
(* (NoOrphans after the step).                                             *)
(***************************************************************************)
LEMMA RestartStep ==
  ASSUME Invariants, Restart
  PROVE  Refines
<1>1. /\ UNCHANGED <<dockerVars, disk>> /\ known' = disk /\ h' = Idle
      /\ interrupted' = interrupted \cup ({h.app} \cap Apps)
  BY DEF Restart
<1>2. Held' = Held
  BY <1>1, HeldStays, PreservingCalls DEF Invariants, TypeInv
<1>3. RecordsTypeOK /\ DiskBehind
  BY DEF Invariants, TypeInv, RefinementInv
<1>4. RecordsTypeOK'
  BY <1>1, <1>3 DEF RecordsTypeOK, Restart, NodeStatus
<1>5. LifecycleStatus' \in [Apps -> LC!Status]
  <2>1. \A a \in Apps : IsKnown(a)' => known'[a].status \in EdgeAppStatus
    BY <1>4 DEF RecordsTypeOK, IsKnown, ManifestRecord
  <2> QED
    BY <2>1 DEF LifecycleStatus, LC!Status, EdgeAppStatus
<1>6. ASSUME NEW a \in Apps
      PROVE  \/ LifecycleStatus'[a] = LifecycleStatus[a]
             \/ /\ LifecycleStatus[a] = "Initiated"
                /\ LifecycleStatus'[a] \in {"Unknown", "Undeployed", "Error"}
                /\ a \in Held /\ LifecycleStatus'[a] # "Error" => a \in interrupted'
  <2>1. CASE disk[a] = known[a]
    BY <1>1, <2>1 DEF LifecycleStatus, IsKnown
  <2>2. CASE disk[a] # known[a]
    <3>1. /\ LifecycleStatus[a] = "Initiated"
          /\ disk[a] = NoRecord \/ disk[a].status \in {"Undeployed", "Error"}
      BY <1>3, <2>2 DEF DiskBehind, HasStatus, LifecycleStatus
    <3>2. LifecycleStatus'[a] \in {"Unknown", "Undeployed", "Error"}
      BY <1>1, <3>1 DEF LifecycleStatus, IsKnown
    <3>3. LifecycleStatus'[a] # "Error" => ~ IsDeployed(a)'
      BY <1>1, <3>1 DEF LifecycleStatus, IsKnown, IsDeployed
    <3>4. a \in Held => HasObjects(a)'
      BY <1>2 DEF Held
    <3>5. a \notin interrupted' /\ HasObjects(a)' => IsDeployed(a)'
      BY RestartSafe DEF Invariants, OrphanInv, InMemory
    <3> QED
      BY <3>1, <3>2, <3>3, <3>4, <3>5
  <2> QED
    BY <2>1, <2>2
<1>7. LC!Restart
  BY <1>1, <1>2, <1>5, <1>6 DEF LC!Restart, Idle, Held
<1>8. RefinementInv'
  BY <1>1, EdgeAppAssumption
     DEF RefinementInv, NoneAtHand, StatusAtHand, DiskBehind, OwnContainers, Fresh,
         Named, UnusedStayUnused, AllGone, Idle
<1>9. LeavesAtRest
  BY <1>1 DEF LeavesAtRest, Excused
<1> QED
  BY <1>7, <1>8, <1>9 DEF Refines, LC!Next
-----------------------------------------------------------------------------
(***************************************************************************)
(* Every step is one of Lifecycle, or leaves what it speaks of alone.      *)
(***************************************************************************)
LEMMA StepRefines ==
  ASSUME Invariants, [Next]_vars
  PROVE  Invariants' /\ (LC!Next \/ UNCHANGED LC!vars) /\ LeavesAtRest
<1>1. SUFFICES Refines
  BY StepType, StepSafe DEF Invariants, Refines
<1>2. CASE Handle
  BY <1>2, AddNewVersionStep, ImagesStep, CreateNetworkStep, CreateStep, StartStep,
     FinishStep, ListsStep, LoopsStep, BeginUndeployStep, ListToRemoveStep,
     RemoveNextStep, PruneStep, FinishUndeployStep, ListsOfImagesStep,
     RemoveImageStep, DeleteRecordStep, CommandStep
     DEF Handle, HandlerStep
<1>3. CASE Command
  BY <1>3, DeployNewStep, CommandStep DEF Command
<1>4. CASE SetLastLogRead \/ Restart \/ ContainerChanges \/ UNCHANGED vars
  BY <1>4, SetLastLogReadStep, RestartStep, ContainerChangesStep
<1> QED
  BY <1>2, <1>3, <1>4 DEF Next

LEMMA InitRefines ==
  ASSUME Init
  PROVE  Invariants /\ LC!Init
<1>1. TypeInv
  BY InitType
<1>2. \A a \in Apps : ~ HasObjects(a)
  BY DEF Init, DockerInit, HasObjects, ContainersOf, Existing, NetworksOf
<1>3. OrphanInv
  BY <1>2 DEF Init, OrphanInv, InMemory, Saved, DeployingKnown, NoneMissed,
              NothingLeft, Idle, Deploying, Emptied
<1>4. \A a \in Apps : ~ IsKnown(a)
  BY DEF Init, IsKnown
<1>5. LC!Init
  BY <1>2, <1>4 DEF Init, LC!Init, LifecycleStatus, Idle
<1>6. RefinementInv
  BY EdgeAppAssumption
     DEF Init, RefinementInv, NoneAtHand, StatusAtHand, DiskBehind, OwnContainers, Fresh,
         Named, UnusedStayUnused, AllGone, Idle
<1> QED
  BY <1>1, <1>3, <1>5, <1>6 DEF Invariants

(***************************************************************************)
(* The orchestration implements Lifecycle, for any edge apps, manifests    *)
(* and failures: an edge app's status moves as Lifecycle says, only the    *)
(* edge app that is worked on changes, objects appear on the host only in  *)
(* a deployment, Undeployed means that nothing is left, and a restart      *)
(* loses no more than a deployment that had begun.                         *)
(***************************************************************************)
THEOREM OrchestrationImplementsLifecycle == Spec => ImplementsLifecycle
<1>1. Init => Invariants /\ LC!Init
  BY InitRefines
<1>2. Invariants /\ [Next]_vars => Invariants' /\ (LC!Next \/ UNCHANGED LC!vars)
  BY StepRefines
<1> QED
  BY <1>1, <1>2, PTL DEF Spec, ImplementsLifecycle, LC!Spec
-----------------------------------------------------------------------------
(* Between commands *)

RestsNow(a) ==
    /\ LifecycleStatus[a] # "Executing"
    /\ LifecycleStatus[a] = "Initiated" => a \notin Held

(***************************************************************************)
(* All but the edge app that is worked on are at rest.                     *)
(***************************************************************************)
OthersRest == \A a \in Apps \ Excused : a # h.app => RestsNow(a)

(***************************************************************************)
(* Only the undeployment of an edge app ends its excuse.                   *)
(***************************************************************************)
LEMMA ExcuseLasts ==
  ASSUME Invariants, [Next]_vars, NEW a \in Apps, a # h.app, a \in Excused
  PROVE  a \in Excused'
<1>1. UNCHANGED historyVars \/ AddNewVersion \/ FinishUndeploy \/ Restart
  <2>1. CASE HandlerStep
    BY <2>1
       DEF HandlerStep, InspectImage, Pull, CreateNetwork, Create, Start, FinishDeploy,
           FinishRollback, ListToStop, StopNext, FinishStop, ListToResume, ResumeNext,
           FinishResume, BeginUndeploy, ListToRemove, RemoveNext, Prune, ListImages,
           ListUsers, RemoveImage, DeleteRecord, RemoveNextApp, FinishDeleteNode
  <2>2. CASE Command \/ SetLastLogRead \/ ContainerChanges
    BY <2>2
       DEF Command, DeployNew, DeployUpdate, Stop, Resume, Undeploy, Remove,
           UndeployOrRemove, DeleteNode, SetLastLogRead, ContainerChanges
  <2> QED
    BY <2>1, <2>2 DEF Next, Handle, vars, historyVars
<1>2. CASE UNCHANGED historyVars
  BY <1>2 DEF historyVars, Excused
<1>3. CASE AddNewVersion
  BY <1>3 DEF AddNewVersion, Excused
<1>4. CASE FinishUndeploy
  BY <1>4 DEF FinishUndeploy, Excused
<1>5. CASE Restart
  BY <1>5 DEF Restart, Excused
<1> QED
  BY <1>1, <1>2, <1>3, <1>4, <1>5

(***************************************************************************)
(* A step of Lifecycle disturbs no edge app but the one worked on; a       *)
(* restart may turn an edge app back to one that rests.                    *)
(***************************************************************************)
LEMMA OthersLeftAlone ==
  ASSUME LC!Next \/ UNCHANGED LC!vars, NEW a \in Apps, a # h.app, a # h'.app,
         RestsNow(a), LifecycleStatus \in [Apps -> LC!Status]
  PROVE  LifecycleStatus'[a] # "Executing"
         /\ (LifecycleStatus'[a] = "Initiated" => a \notin Held')
<1> DEFINE quiet == /\ LifecycleStatus'[a] = LifecycleStatus[a]
                    /\ a \in Held' => a \in Held
<1>1. CASE UNCHANGED LC!vars
  BY <1>1 DEF LC!vars, RestsNow, Held
<1>2. ASSUME NEW b \in Apps, LC!Accept(b)
      PROVE  quiet
  BY <1>2 DEF LC!Accept, Held
<1>3. ASSUME NEW b \in Apps, LC!Work(b)
      PROVE  quiet
  BY <1>3 DEF LC!Work, Held
<1>4. CASE LC!Vanish
  BY <1>4 DEF LC!Vanish, RestsNow, Held
<1>5. CASE LC!Restart
  BY <1>5 DEF LC!Restart, RestsNow, Held
<1> QED
  BY <1>1, <1>2, <1>3, <1>4, <1>5 DEF LC!Next, RestsNow

LEMMA StepRests ==
  ASSUME Invariants, OthersRest, [Next]_vars
  PROVE  OthersRest'
<1> SUFFICES ASSUME NEW a \in Apps, a \notin Excused', a # h'.app
             PROVE  LifecycleStatus'[a] # "Executing"
                    /\ (LifecycleStatus'[a] = "Initiated" => a \notin Held')
  BY DEF OthersRest, RestsNow
<1>1. (LC!Next \/ UNCHANGED LC!vars) /\ LeavesAtRest
  BY StepRefines
<1>2. CASE a = h.app
  BY <1>1, <1>2 DEF LeavesAtRest
<1>3. CASE a # h.app
  <2>1. a \notin Excused
    BY <1>3, ExcuseLasts
  <2>2. RestsNow(a)
    BY <1>3, <2>1 DEF OthersRest
  <2>3. LifecycleStatus \in [Apps -> LC!Status]
    BY StatusType DEF Invariants, TypeInv
  <2> QED
    BY <1>1, <1>3, <2>2, <2>3, OthersLeftAlone
<1> QED
  BY <1>2, <1>3

(***************************************************************************)
(* Between commands no edge app is left Executing, and one that is left    *)
(* Initiated has nothing on the host, through every early return, failure  *)
(* and rollback -- but for edge apps whose command a restart cut off and   *)
(* whose update could not remove the old version.                          *)
(***************************************************************************)
THEOREM EdgeAppsRest == Spec => []AtRest
<1>1. Init => Invariants /\ OthersRest
  <2> SUFFICES ASSUME Init PROVE OthersRest
    BY InitRefines
  <2>1. LC!Init
    BY InitRefines
  <2> QED
    BY <2>1 DEF LC!Init, OthersRest, RestsNow, Excused
<1>2. Invariants /\ OthersRest /\ [Next]_vars => Invariants' /\ OthersRest'
  BY StepRefines, StepRests
<1>3. Invariants /\ OthersRest => AtRest
  <2> SUFFICES ASSUME Invariants, OthersRest, h.pc = "idle",
                      NEW a \in Apps \ (interrupted \cup incomplete)
               PROVE  /\ ~ HasStatus(a, "Executing")
                      /\ HasStatus(a, "Initiated") => ~ HasObjects(a)
    BY DEF AtRest
  <2>1. h.app = NoApp
    BY DEF Invariants, RefinementInv, NoneAtHand, BetweenCommands
  <2>2. RestsNow(a)
    BY <2>1, EdgeAppAssumption DEF OthersRest, Excused
  <2>3. \A s \in EdgeAppStatus : HasStatus(a, s) <=> LifecycleStatus[a] = s
    BY StatusType DEF Invariants, TypeInv
  <2> QED
    BY <2>2, <2>3 DEF RestsNow, Held, EdgeAppStatus
<1> QED
  BY <1>1, <1>2, <1>3, PTL DEF Spec
-----------------------------------------------------------------------------
(* Other edge apps *)

(***************************************************************************)
(* A step that changes containers and networks of the handler's edge app   *)
(* only, and at most its record.                                           *)
(***************************************************************************)
OwnObjects ==
    /\ \A c \in Containers : c.man.app # h.app => ctr'[c] = ctr[c]
    /\ \A n : n.app # h.app => (n \in networks' <=> n \in networks)

OwnRecord == \A a \in Apps \ {h.app} : known'[a] = known[a]

LEMMA OwnIsIsolated ==
  ASSUME OwnObjects, OwnRecord, NEW a \in Apps \ {h.app}
  PROVE  Untouched(a)
  BY DEF OwnObjects, OwnRecord, Untouched, NetworksOf

LEMMA OwnCalls ==
  ASSUME DockerTypeOK
  PROVE  /\ UNCHANGED <<networks, ctr>> => OwnObjects
         /\ NetworkPrune(h.app) => OwnObjects
         /\ \A count : NetworkCreate([app |-> h.app, num |-> count]) => OwnObjects
         /\ \A c, state : SetContainer(c, state) /\ c.man.app = h.app => OwnObjects
<1>1. UNCHANGED <<networks, ctr>> => OwnObjects
  BY DEF OwnObjects
<1>2. NetworkPrune(h.app) => OwnObjects
  BY DEF OwnObjects, NetworkPrune
<1>3. ASSUME NEW count, NetworkCreate([app |-> h.app, num |-> count])
      PROVE  OwnObjects
  <2> DEFINE made == [app |-> h.app, num |-> count]
  <2>1. networks' = networks \cup {made} /\ ctr' = ctr /\ made.app = h.app
    BY <1>3 DEF NetworkCreate
  <2> HIDE DEF made
  <2> QED
    BY <2>1 DEF OwnObjects
<1>4. ASSUME NEW c, NEW state, SetContainer(c, state), c.man.app = h.app
      PROVE  OwnObjects
  BY <1>4 DEF SetContainer, OwnObjects, DockerTypeOK
<1> QED
  BY <1>1, <1>2, <1>3, <1>4

LEMMA OwnStatus ==
  ASSUME RecordsTypeOK,
         \/ UNCHANGED known
         \/ \E s : SetStatus(h.app, s)
         \/ known' = [known EXCEPT ![h.app] = NoRecord]
         \/ h.man.app = h.app /\ AddKnownManifest(h.man)
  PROVE  OwnRecord
  BY DEF OwnRecord, RecordsTypeOK, SetStatus, agentVars, AddKnownManifest

(***************************************************************************)
(* The steps of each command.                                              *)
(***************************************************************************)
LEMMA OwnSteps ==
  ASSUME Invariants, HandlerStep
  PROVE  OwnObjects /\ OwnRecord
<1>1. DockerTypeOK /\ RecordsTypeOK
  BY DEF Invariants, TypeInv
<1>2. OwnRecord
  <2>1. CASE AddNewVersion
    <3>1. h.man.app = h.app
      BY <2>1 DEF AddNewVersion, Invariants, TypeInv, WellFormed
    <3> QED
      BY <1>1, <2>1, <3>1, OwnStatus DEF AddNewVersion
  <2>2. CASE DeleteRecord
    BY <1>1, <2>2, OwnStatus DEF DeleteRecord
  <2>3. CASE \/ InspectImage \/ Pull \/ CreateNetwork \/ Create \/ Start \/ FinishDeploy
             \/ FinishRollback \/ ListToStop \/ FinishStop \/ ListToResume
             \/ FinishResume \/ BeginUndeploy \/ ListToRemove \/ Prune \/ FinishUndeploy
             \/ ListImages \/ ListUsers \/ RemoveNextApp \/ FinishDeleteNode
    BY <1>1, <2>3, OwnStatus
       DEF InspectImage, Pull, CreateNetwork, Create, Start, FinishDeploy, FinishRollback,
           ListToStop, FinishStop, ListToResume, FinishResume, BeginUndeploy,
           ListToRemove, Prune, FinishUndeploy, ListImages, ListUsers, RemoveNextApp,
           FinishDeleteNode, GiveUp, agentVars
  <2>4. CASE StopNext \/ ResumeNext \/ RemoveNext \/ RemoveImage
    BY <1>1, <2>4, OwnStatus
       DEF StopNext, ResumeNext, RemoveNext, RemoveImage, GiveUp, agentVars
  <2> QED
    BY <2>1, <2>2, <2>3, <2>4 DEF HandlerStep
<1>3. OwnObjects
  <2>1. CASE UNCHANGED <<networks, ctr>>
    BY <1>1, <2>1, OwnCalls
  <2>2. CASE CreateNetwork
    BY <1>1, <2>2, OwnCalls DEF CreateNetwork, dockerVars
  <2>3. CASE Create \/ Start
    <3>1. Current.man.app = h.app
      BY <2>3 DEF Create, Start, Current, Invariants, TypeInv, WellFormed, Deploying
    <3>2. \/ UNCHANGED dockerVars
          \/ SetContainer(Current, "created")
          \/ SetContainer(Current, "running")
      BY <2>3 DEF Create, Start, CreateContainer, StartContainer
    <3> QED
      BY <1>1, <3>1, <3>2, OwnCalls DEF dockerVars
  <2>4. CASE StopNext \/ ResumeNext \/ RemoveNext
    <3>1. \A c \in h.todo : c.man.app = h.app
      BY <2>4 DEF StopNext, ResumeNext, RemoveNext, Invariants, RefinementInv, OwnContainers
    <3>2. UNCHANGED dockerVars \/ \E c \in h.todo : \E state : SetContainer(c, state)
      <4>1. HeadOf(h.todo) \subseteq h.todo /\ LastOf(h.todo) \subseteq h.todo
        BY DEF HeadOf, LastOf
      <4> QED
        BY <2>4, <4>1
           DEF StopNext, ResumeNext, RemoveNext, StopContainer, StartContainer,
               RemoveContainer, FailToRemoveContainer
    <3> QED
      BY <1>1, <3>1, <3>2, OwnCalls DEF dockerVars
  <2>5. CASE Prune
    BY <1>1, <2>5, OwnCalls DEF Prune, dockerVars
  <2>6. CASE \/ AddNewVersion \/ InspectImage \/ Pull \/ FinishDeploy \/ FinishRollback
             \/ ListToStop \/ FinishStop \/ ListToResume \/ FinishResume
             \/ BeginUndeploy \/ ListToRemove \/ FinishUndeploy
             \/ ListImages \/ ListUsers \/ RemoveImage \/ DeleteRecord
             \/ RemoveNextApp \/ FinishDeleteNode
    <3>1. UNCHANGED <<networks, ctr>>
      BY <2>6
         DEF AddNewVersion, InspectImage, Pull, FinishDeploy, FinishRollback,
             ListToStop, FinishStop, ListToResume, FinishResume, BeginUndeploy,
             ListToRemove, FinishUndeploy, ListImages, ListUsers, RemoveImage,
             DeleteRecord, RemoveNextApp, FinishDeleteNode, dockerVars, PullImage,
             ImageRemove
    <3> QED
      BY <2>1, <3>1
  <2> QED
    BY <2>2, <2>3, <2>4, <2>5, <2>6 DEF HandlerStep
<1> QED
  BY <1>2, <1>3

(***************************************************************************)
(* No step of a command touches a container, a network or the record of    *)
(* another edge app: the lists that the loops work through are those of    *)
(* the handler's edge app, and pruning is filtered by its label.           *)
(***************************************************************************)
THEOREM CommandsAreIsolated == Spec => Isolation
<1>1. Init => Invariants
  BY InitRefines
<1>2. Invariants /\ [Next]_vars => Invariants'
  BY StepRefines
<1>3. Invariants /\ HandlerStep => \A a \in Apps \ {h.app} : Untouched(a)
  BY OwnSteps, OwnIsIsolated
<1>4. Invariants => [HandlerStep => \A a \in Apps \ {h.app} : Untouched(a)]_vars
  BY <1>3
<1> QED
  BY <1>1, <1>2, <1>4, PTL DEF Spec, Isolation
-----------------------------------------------------------------------------
(* Images, and the deletion of the node *)

(***************************************************************************)
(* No container comes to use an image between the look at the list of      *)
(* containers and the removal of the image.                                *)
(***************************************************************************)
THEOREM UnusedImagesStayUnused == Spec => []UnusedStayUnused
<1>1. Init => Invariants
  BY InitRefines
<1>2. Invariants /\ [Next]_vars => Invariants'
  BY StepRefines
<1>3. Invariants => UnusedStayUnused
  BY DEF Invariants, RefinementInv
<1> QED
  BY <1>1, <1>2, <1>3, PTL DEF Spec

(***************************************************************************)
(* Only RemoveImage takes an image from the host.                          *)
(***************************************************************************)
LEMMA ImagesKept ==
  ASSUME Next
  PROVE  \/ images \subseteq images'
         \/ /\ h.pc = "removeImage"
            /\ \E i \in h.unused : images' = images \ ReferencesTo(i)
<1>1. CASE RemoveImage
  BY <1>1 DEF RemoveImage, ImageRemove, dockerVars
<1>2. CASE Pull
  BY <1>2 DEF Pull, PullImage, dockerVars
<1>3. CASE \/ AddNewVersion \/ InspectImage \/ CreateNetwork
           \/ Create \/ Start \/ FinishDeploy \/ FinishRollback
           \/ ListToStop \/ StopNext \/ FinishStop
           \/ ListToResume \/ ResumeNext \/ FinishResume
           \/ BeginUndeploy \/ ListToRemove \/ RemoveNext \/ Prune \/ FinishUndeploy
           \/ ListImages \/ ListUsers \/ DeleteRecord
           \/ RemoveNextApp \/ FinishDeleteNode
  BY <1>3
     DEF AddNewVersion, InspectImage, CreateNetwork, Create, Start, FinishDeploy,
         FinishRollback, ListToStop, StopNext, FinishStop, ListToResume, ResumeNext,
         FinishResume, BeginUndeploy, ListToRemove, RemoveNext, Prune, FinishUndeploy,
         ListImages, ListUsers, DeleteRecord, RemoveNextApp, FinishDeleteNode,
         dockerVars, NetworkCreate, CreateContainer, StartContainer, StopContainer,
         RemoveContainer, FailToRemoveContainer, SetContainer, NetworkPrune
<1>4. CASE Command \/ SetLastLogRead \/ Restart
  BY <1>4
     DEF Command, DeployNew, DeployUpdate, Stop, Resume, Undeploy, Remove,
         UndeployOrRemove, DeleteNode, SetLastLogRead, Restart, dockerVars
<1>5. CASE ContainerChanges
  BY <1>5
     DEF ContainerChanges, ContainerExits, ContainerFails, ContainerRestarts,
         ContainerGivesUp, RemovedByHand, SetContainer
<1> QED
  BY <1>1, <1>2, <1>3, <1>4, <1>5 DEF Next, Handle, HandlerStep

(***************************************************************************)
(* The removal of the old version takes an image of the new one only where *)
(* a name that the new one does not have stands for it, too: up to the     *)
(* last step of the loop, every image on the list has a name to remove.    *)
(***************************************************************************)
THEOREM UpdatesSpareImages == Spec => UpdateKeepsNeededImages
<1> DEFINE Old == ImagesOf(known[h.app].man) \ ImagesOf(h.man)
           Kept(n) == ImageExists(n) /\ ~ ImageExists(n)' =>
                        \E old \in Old : ImageID(n) \in GetImagesByName({old})
           KeepsAll == h.mode = "update" => \A n \in ImagesOf(h.man) : Kept(n)
<1>1. Init => Invariants
  BY InitRefines
<1>2. Invariants /\ [Next]_vars => Invariants'
  BY StepRefines
<1>3. Invariants /\ Next => KeepsAll
  <2> SUFFICES ASSUME Invariants, Next, h.mode = "update", NEW n \in ImagesOf(h.man),
                      ImageExists(n), ~ ImageExists(n)'
               PROVE  \E old \in Old : ImageID(n) \in GetImagesByName({old})
    OBVIOUS
  <2>1. Reference(n) \in images \ images'
    BY DEF ImageExists
  <2>2. PICK i \in h.unused : Reference(n) \in ReferencesTo(i) /\ h.pc = "removeImage"
    BY <2>1, ImagesKept
  <2>3. ImageID(n) \in GetImagesByName(removeImageNames)
    BY <2>2 DEF Invariants, RefinementInv, Named, ReferencesTo, ImageID
  <2>4. removeImageNames = Old
    BY DEF removeImageNames, keepImages
  <2> QED
    BY <2>3, <2>4 DEF GetImagesByName
<1>4. Invariants /\ [Next]_vars => [KeepsAll]_vars
  BY <1>3
<1> QED
  BY <1>1, <1>2, <1>4, PTL DEF Spec, UpdateKeepsNeededImages

(***************************************************************************)
(* What is on the host when the node is called Deleted is known, in memory *)
(* and on disk, unless a restart had cut it off; and if the removal of all *)
(* edge apps reported no error, there is nothing, and no record.           *)
(***************************************************************************)
THEOREM DeletedNodesForgetNothing == Spec => DeletedNodeForgetsNothing
<1> DEFINE Forgets(a) ==
             /\ HasObjects(a) => IsDeployed(a) /\ IsDeployedOnDisk(a)
             /\ ~ h.failed => ~ IsKnown(a) /\ disk[a] = NoRecord /\ ~ HasObjects(a)
           Deletes == nodeStatus' = "Deleted" /\ h.pc = "deleteNode"
<1>1. Init => Invariants
  BY InitRefines
<1>2. Invariants /\ [Next]_vars => Invariants'
  BY StepRefines
<1>3. ASSUME Invariants, h.pc = "deleteNode", NEW a \in Apps \ interrupted
      PROVE  Forgets(a)
  <2>1. HasObjects(a) => IsDeployed(a)
    BY <1>3 DEF Invariants, OrphanInv, InMemory
  <2>2. HasObjects(a) => IsDeployedOnDisk(a)
    BY <1>3 DEF Invariants, OrphanInv, Saved, Unsaved
  <2>3. ASSUME ~ h.failed
        PROVE  ~ IsKnown(a) /\ disk[a] = NoRecord /\ ~ HasObjects(a)
    <3>1. ~ IsKnown(a)
      BY <1>3, <2>3 DEF Invariants, RefinementInv, AllGone
    <3>2. disk[a] = NoRecord
      BY <1>3, <3>1 DEF Invariants, RefinementInv, DiskBehind, HasStatus, IsKnown
    <3> QED
      BY <2>1, <3>1, <3>2 DEF IsDeployed
  <2> QED
    BY <2>1, <2>2, <2>3
<1>4. Invariants => [Deletes => \A a \in Apps \ interrupted : Forgets(a)]_vars
  BY <1>3
<1> QED
  BY <1>1, <1>2, <1>4, PTL DEF Spec, DeletedNodeForgetsNothing

-----------------------------------------------------------------------------
(* What Running and Stopped mean *)

(***************************************************************************)
(* The containers that the loop over the modules has made so far, from the *)
(* last module down; and none but these, in the one network there is.      *)
(***************************************************************************)
Made(n) ==
    {c \in Containers :
        /\ c.man = n.man /\ c.net = n.net
        /\ n.pc = "create" => c.idx > n.idx
        /\ n.pc = "start" => c.idx >= n.idx}

SoFar(n) ==
    /\ NetworksOf(n.app) = {[app |-> n.app, num |-> n.net]}
    /\ ContainersOf(n.app) = Made(n)

Building == {"create", "start", "deployed"}
Changing == {"stop", "stopped", "resume", "resumed"}

AtHandExact ==
    h.app \in Apps \ Excused =>
        /\ h.pc \in Deploying => known[h.app].man = h.man
        /\ h.pc \in Building => SoFar(h)
        /\ h.pc \in Changing => IsComplete(h.app)

IsUp(a) == LifecycleStatus[a] \in {"Running", "Stopped"}

UpIsComplete == \A a \in Apps \ Excused : IsUp(a) => IsComplete(a)

ExactInv == Invariants /\ AtHandExact /\ UpIsComplete

(***************************************************************************)
(* Nothing that matters to completeness changes.                           *)
(***************************************************************************)
SameObjects(a) ==
    /\ ContainersOf(a)' = ContainersOf(a)
    /\ NetworksOf(a)' = NetworksOf(a)

LEMMA StaysComplete ==
  ASSUME NEW a, SameObjects(a), known'[a].man = known[a].man, IsComplete(a)
  PROVE  IsComplete(a)'
  BY DEF SameObjects, IsComplete

LEMMA PreservingSame ==
  ASSUME Preserves, NEW a
  PROVE  SameObjects(a)
  BY DEF Preserves, SameObjects, ContainersOf, NetworksOf

LEMMA UntouchedSame ==
  ASSUME OwnObjects, NEW a \in Apps \ {h.app}
  PROVE  SameObjects(a)
<1>1. \A c \in Containers : c.man.app = a => (ctr'[c] # Absent <=> ctr[c] # Absent)
  BY DEF OwnObjects
<1>2. ContainersOf(a)' = ContainersOf(a)
  BY <1>1 DEF ContainersOf, Existing
<1>3. NetworksOf(a)' = NetworksOf(a)
  BY DEF OwnObjects, NetworksOf
<1> QED
  BY <1>2, <1>3 DEF SameObjects

(***************************************************************************)
(* An edge app that the step is not about.                                 *)
(***************************************************************************)
LEMMA OtherStaysComplete ==
  ASSUME ExactInv, [Next]_vars, NEW a \in Apps, a # h.app, a \notin Excused',
         SameObjects(a), known'[a] = known[a], IsUp(a)'
  PROVE  IsComplete(a)'
<1>1. a \notin Excused
  BY ExcuseLasts DEF ExactInv
<1>2. IsUp(a)
  BY DEF IsUp, LifecycleStatus, IsKnown
<1> QED
  BY <1>1, <1>2, StaysComplete DEF ExactInv, UpIsComplete

LEMMA StatusNow ==
  ASSUME NEW a \in Apps
  PROVE  /\ HasStatus(a, "Running") \/ HasStatus(a, "Stopped") => IsUp(a)
         /\ IsUp(a) => IsKnown(a)
  BY DEF IsUp, LifecycleStatus, HasStatus
-----------------------------------------------------------------------------
(***************************************************************************)
(* What is to be shown of the handler's edge app, in each of its steps.    *)
(***************************************************************************)
OwnExact ==
    /\ \A a \in {h.app} : a \in Apps \ Excused' /\ IsUp(a)' => IsComplete(a)'
    /\ h'.app = h.app => AtHandExact'

LEMMA HandlerExact ==
  ASSUME ExactInv, HandlerStep, [Next]_vars, OwnExact,
         h'.app = h.app \/ h'.pc \notin Deploying \cup Changing
  PROVE  (AtHandExact /\ UpIsComplete)'
<1>1. OwnObjects /\ OwnRecord
  BY OwnSteps DEF ExactInv
<1>2. ASSUME NEW a \in Apps, a \notin Excused', IsUp(a)'
      PROVE  IsComplete(a)'
  <2>1. CASE a = h.app
    BY <1>2, <2>1 DEF OwnExact
  <2>2. CASE a # h.app
    <3>1. SameObjects(a) /\ known'[a] = known[a]
      BY <1>1, <2>2, UntouchedSame DEF OwnRecord
    <3> QED
      BY <1>2, <2>2, <3>1, OtherStaysComplete
  <2> QED
    BY <2>1, <2>2
<1>3. AtHandExact'
  <2>1. CASE h'.app = h.app
    BY <2>1 DEF OwnExact, AtHandExact
  <2>2. CASE h'.pc \notin Deploying \cup Changing
    BY <2>2 DEF AtHandExact, Building, Deploying
  <2> QED
    BY <2>1, <2>2
<1> QED
  BY <1>2, <1>3 DEF UpIsComplete

Exactly == OwnExact /\ (h'.app = h.app \/ h'.pc \notin Deploying \cup Changing)

(***************************************************************************)
(* The handler's edge app is not, or no longer, Running or Stopped.        *)
(***************************************************************************)
LEMMA IsDown ==
  ASSUME RecordsTypeOK, h.app \in Apps,
         \/ UNCHANGED known /\ ~ IsUp(h.app)
         \/ \E s \in EdgeAppStatus \ {"Running", "Stopped"} : SetStatus(h.app, s)
         \/ known' = [known EXCEPT ![h.app] = NoRecord]
  PROVE  \A a \in {h.app} : ~ IsUp(a)'
<1>1. CASE UNCHANGED known /\ ~ IsUp(h.app)
  BY <1>1, RecordsStay DEF IsUp
<1>2. ASSUME NEW s \in EdgeAppStatus \ {"Running", "Stopped"}, SetStatus(h.app, s)
      PROVE  \A a \in {h.app} : ~ IsUp(a)'
  <2>1. LifecycleStatus'[h.app] \in {s, "Unknown"}
    BY <1>2, StatusSet, StatusType
  <2> QED
    BY <1>2, <2>1 DEF IsUp
<1>3. CASE known' = [known EXCEPT ![h.app] = NoRecord]
  BY <1>3 DEF IsUp, LifecycleStatus, IsKnown, RecordsTypeOK
<1> QED
  BY <1>1, <1>2, <1>3

LEMMA DownExact ==
  ASSUME h.app \in Apps, \A a \in {h.app} : ~ IsUp(a)',
         h'.pc \notin Deploying \cup Changing
  PROVE  Exactly
<1>1. AtHandExact'
  BY DEF AtHandExact, Building, Deploying
<1> QED
  BY <1>1 DEF Exactly, OwnExact

(***************************************************************************)
(* Undeployment, removal, and the end of a rollback.                       *)
(***************************************************************************)
LEMMA UndeployingExact ==
  ASSUME ExactInv,
         \/ FinishRollback \/ BeginUndeploy \/ ListToRemove \/ RemoveNext \/ Prune
         \/ FinishUndeploy \/ ListImages \/ ListUsers \/ RemoveImage \/ DeleteRecord
  PROVE  Exactly
<1>1. Invariants /\ RecordsTypeOK
  BY DEF ExactInv, Invariants, TypeInv
<1>2. h.pc \notin BetweenCommands /\ h.pc \notin Deploying \cup Changing
  BY DEF FinishRollback, BeginUndeploy, ListToRemove, RemoveNext, Prune, FinishUndeploy,
         ListImages, ListUsers, RemoveImage, DeleteRecord, BetweenCommands, Deploying,
         Changing
<1>3. h \in Handler /\ h.app \in Apps /\ AtHand(h, LifecycleStatus[h.app])
  BY <1>1, <1>2, StatusHere
<1>4. h.pc # "undeploy" => ~ IsUp(h.app)
  BY <1>2, <1>3
     DEF FinishRollback, BeginUndeploy, ListToRemove, RemoveNext, Prune, FinishUndeploy,
         ListImages, ListUsers, RemoveImage, DeleteRecord, AtHand, IsUp
<1>5. \/ UNCHANGED known /\ ~ IsUp(h.app)
      \/ \E s \in EdgeAppStatus \ {"Running", "Stopped"} : SetStatus(h.app, s)
      \/ known' = [known EXCEPT ![h.app] = NoRecord]
  <2>1. {"Executing", "Error", "Undeployed"} \subseteq EdgeAppStatus \ {"Running", "Stopped"}
    BY DEF EdgeAppStatus
  <2> QED
    BY <1>4, <2>1
       DEF FinishRollback, BeginUndeploy, ListToRemove, RemoveNext, Prune, FinishUndeploy,
           ListImages, ListUsers, RemoveImage, DeleteRecord, GiveUp, agentVars
<1>6. h'.pc \notin Deploying \cup Changing
  <2>1. \A err \in BOOLEAN : Returned(err).pc \notin Deploying \cup Changing
    BY <1>3, ReturnedPlace DEF BetweenCommands, Deploying, Changing
  <2>2. Idle.pc \notin Deploying \cup Changing
    BY DEF Idle, Deploying, Changing
  <2>3. CASE FinishRollback \/ BeginUndeploy \/ FinishUndeploy \/ DeleteRecord
    BY <1>3, <2>1, <2>2, <2>3
       DEF FinishRollback, BeginUndeploy, FinishUndeploy, DeleteRecord, GiveUp, Goto,
           Handler, Deploying, Changing
  <2>4. CASE ListToRemove \/ RemoveNext
    <3>1. \A todo : /\ RemoveLoop(todo).pc \notin Deploying \cup Changing
                    /\ Noted(RemoveLoop(todo)).pc \notin Deploying \cup Changing
      BY <1>3 DEF RemoveLoop, Noted, Handler, Deploying, Changing
    <3> QED
      BY <2>1, <2>4, <3>1 DEF ListToRemove, RemoveNext, GiveUp
  <2>5. CASE Prune \/ ListImages \/ ListUsers
    BY <1>3, <2>1, <2>5
       DEF Prune, ListImages, ListUsers, GiveUp, Goto, Handler, Deploying, Changing
  <2>6. CASE RemoveImage
    <3>1. PICK i \in h.unused, err \in BOOLEAN :
             LET rest == [h EXCEPT !.unused = @ \ {i}, !.failed = @ \/ err]
             IN  h' = IF rest.unused # {} THEN rest ELSE AfterImages(rest)
      BY <2>6 DEF RemoveImage
    <3> DEFINE rest == [h EXCEPT !.unused = @ \ {i}, !.failed = @ \/ err]
    <3>2. rest.pc = "removeImage"
      BY <1>3, <2>6 DEF RemoveImage, Handler
    <3>3. [rest EXCEPT !.pc = "deleteRecord"].pc = "deleteRecord"
      BY <1>3 DEF Handler
    <3> HIDE DEF rest
    <3>4. h' = rest \/ h' = [rest EXCEPT !.pc = "deleteRecord"] \/ h' = Returned(TRUE)
      BY <3>1 DEF AfterImages, rest
    <3> QED
      BY <2>1, <3>2, <3>3, <3>4 DEF Deploying, Changing
  <2> QED
    BY <2>3, <2>4, <2>5, <2>6
<1> QED
  BY <1>1, <1>3, <1>5, <1>6, IsDown, DownExact

(***************************************************************************)
(* A deployment that goes on, and one that does not.                       *)
(***************************************************************************)
LEMMA BuildingExact ==
  ASSUME ExactInv, h.pc \in Deploying, UNCHANGED <<known, interrupted, incomplete>>,
         h'.app = h.app, h'.man = h.man, h'.pc \in Deploying,
         h.app \notin Excused /\ h'.pc \in Building => SoFar(h)'
  PROVE  Exactly
<1>1. h.app \in Apps /\ ~ IsUp(h.app) /\ RecordsTypeOK
  BY StatusHere DEF ExactInv, Invariants, TypeInv, IsUp, AtHand, Deploying, BetweenCommands
<1>2. \A a \in {h.app} : ~ IsUp(a)'
  BY <1>1, IsDown
<1>3. AtHandExact'
  <2>1. h.app \notin Excused => known[h.app].man = h.man
    BY <1>1 DEF ExactInv, AtHandExact
  <2> QED
    BY <2>1 DEF AtHandExact, Excused, Deploying, Changing
<1> QED
  BY <1>2, <1>3 DEF Exactly, OwnExact

LEMMA GivenUpExact ==
  ASSUME ExactInv, h.pc \in Deploying, NEW mode,
         \/ GiveUp(Rollback(mode))
         \/ UNCHANGED known /\ (h' = Rollback(mode) \/ h' = Idle)
  PROVE  Exactly
<1>1. h \in Handler /\ h.app \in Apps /\ ~ IsUp(h.app) /\ RecordsTypeOK
  BY StatusHere DEF ExactInv, Invariants, TypeInv, IsUp, AtHand, Deploying, BetweenCommands
<1>2. "Error" \in EdgeAppStatus \ {"Running", "Stopped"}
  BY DEF EdgeAppStatus
<1>3. \A a \in {h.app} : ~ IsUp(a)'
  BY <1>1, <1>2, IsDown DEF GiveUp
<1>4. h'.pc \in {"undeploy", "idle"}
  <2>1. Rollback(mode).pc = "undeploy"
    BY <1>1 DEF Rollback, Handler
  <2>2. Idle.pc = "idle"
    BY DEF Idle
  <2> QED
    BY <2>1, <2>2 DEF GiveUp
<1> QED
  BY <1>1, <1>3, <1>4, DownExact DEF Deploying, Changing

LEMMA ImagesExact ==
  ASSUME ExactInv, AddNewVersion \/ InspectImage \/ Pull
  PROVE  Exactly
<1>1. CASE AddNewVersion
  <2>1. /\ h \in Handler /\ h.app \in Apps /\ h.man \in Manifests /\ h.man.app = h.app
        /\ RecordsTypeOK
    BY <1>1, StatusHere
       DEF AddNewVersion, ExactInv, Invariants, TypeInv, WellFormed, BetweenCommands
  <2> DEFINE r == [man |-> h.man, status |-> "Initiated"]
  <2>2. known' = [known EXCEPT ![h.app] = r] /\ r \in ManifestRecord
    BY <1>1, <2>1 DEF AddNewVersion, AddKnownManifest, ManifestRecord, EdgeAppStatus
  <2>3. known'[h.app] = r
    BY <2>1, <2>2 DEF RecordsTypeOK
  <2>4. h'.app = h.app /\ h'.man = h.man /\ h'.pc = "inspect"
    BY <1>1 DEF AddNewVersion, Idle
  <2>5. \A a \in {h.app} : ~ IsUp(a)'
    <3>1. LifecycleStatus'[h.app] = "Initiated"
      BY <2>1, <2>2, RecordReplaced, StatusType
    <3> QED
      BY <3>1 DEF IsUp
  <2>6. AtHandExact'
    BY <2>3, <2>4 DEF AtHandExact, Building, Changing
  <2> QED
    BY <2>4, <2>5, <2>6 DEF Exactly, OwnExact
<1>2. CASE InspectImage \/ Pull
  <2>1. h \in Handler /\ h.pc \in Deploying /\ h.pc \in {"inspect", "pull"}
    BY <1>2, StatusHere
       DEF ExactInv, InspectImage, Pull, Deploying, BetweenCommands
  <2>2. \/ UNCHANGED known /\ (NextImage \/ Goto("pull") \/ h' = Idle)
        \/ GiveUp(Rollback("rollback"))
    BY <1>2 DEF InspectImage, Pull, agentVars
  <2>3. UNCHANGED <<interrupted, incomplete>>
    BY <1>2 DEF InspectImage, Pull, historyVars
  <2>4. ASSUME NextImage \/ Goto("pull")
        PROVE  h'.app = h.app /\ h'.man = h.man /\ h'.pc \in {"inspect", "pull", "network"}
    <3>1. CASE h' = [h EXCEPT !.pc = "inspect", !.idx = @ + 1]
      BY <2>1, <3>1 DEF Handler
    <3>2. CASE Goto("network") \/ Goto("pull")
      BY <2>1, <3>2 DEF Goto, Handler
    <3> QED
      BY <2>4, <3>1, <3>2 DEF NextImage
  <2>5. CASE UNCHANGED known /\ (NextImage \/ Goto("pull"))
    BY <2>1, <2>3, <2>4, <2>5, BuildingExact DEF Deploying, Building
  <2>6. CASE UNCHANGED known /\ h' = Idle
    BY <2>1, <2>6, GivenUpExact
  <2>7. CASE GiveUp(Rollback("rollback"))
    BY <2>1, <2>7, GivenUpExact
  <2> QED
    BY <2>2, <2>5, <2>6, <2>7
<1> QED
  BY <1>1, <1>2

(***************************************************************************)
(* The network is the only one of its edge app, and no container exists.   *)
(***************************************************************************)
LEMMA CreateNetworkExact ==
  ASSUME ExactInv, CreateNetwork
  PROVE  Exactly
<1>1. /\ h \in Handler /\ h.app \in Apps /\ h.man \in Manifests
      /\ h.pc \in Deploying /\ UNCHANGED <<interrupted, incomplete>>
  BY StatusHere
     DEF ExactInv, Invariants, TypeInv, WellFormed, CreateNetwork, Deploying,
         BetweenCommands, historyVars
<1>2. ASSUME NEW count,
             NetworkCreate([app |-> h.app, num |-> count]), UNCHANGED known,
             h' = [h EXCEPT !.pc = "create", !.net = count, !.idx = Len(h.man.modules)]
      PROVE  Exactly
  <2>1. /\ h'.app = h.app /\ h'.man = h.man /\ h'.pc = "create" /\ h'.net = count
        /\ h'.idx = Len(h.man.modules)
    BY <1>1, <1>2 DEF Handler
  <2>2. ASSUME h.app \notin Excused
        PROVE  SoFar(h)'
    <3>1. ContainersOf(h.app) = {} /\ NetworksOf(h.app) = {}
      BY <2>2 DEF CreateNetwork, ExactInv, Invariants, RefinementInv, Fresh, HasObjects
    <3> DEFINE made == [app |-> h.app, num |-> count]
    <3>2. networks' = networks \cup {made} /\ made.app = h.app /\ ctr' = ctr
      BY <1>2 DEF NetworkCreate
    <3>3. made = [app |-> h'.app, num |-> h'.net]
      BY <2>1
    <3> HIDE DEF made
    <3>4. NetworksOf(h.app)' = {made}
      BY <2>1, <3>1, <3>2 DEF NetworksOf
    <3>5. ContainersOf(h.app)' = {}
      BY <2>1, <3>1, <3>2 DEF ContainersOf, Existing
    <3>6. \A c \in Containers : c.man = h.man => c.idx \in Nat /\ c.idx <= Len(h.man.modules)
      BY <1>1, ManifestType DEF Containers
    <3>7. Made(h)' = {}
      BY <1>1, <2>1, <3>6, ManifestType DEF Made
    <3> QED
      BY <3>3, <3>4, <3>5, <3>7 DEF SoFar
  <2> QED
    BY <1>1, <1>2, <2>1, <2>2, BuildingExact DEF Deploying
<1>3. \/ \E count : /\ NetworkCreate([app |-> h.app, num |-> count]) /\ UNCHANGED known
                    /\ h' = [h EXCEPT !.pc = "create", !.net = count,
                                      !.idx = Len(h.man.modules)]
      \/ GiveUp(Rollback("rollback"))
  BY DEF CreateNetwork, agentVars
<1> QED
  BY <1>1, <1>2, <1>3, GivenUpExact

(***************************************************************************)
(* One more container, with the index at hand.                             *)
(***************************************************************************)
LEMMA CreateExact ==
  ASSUME ExactInv, Create
  PROVE  Exactly
<1>1. /\ h \in Handler /\ h.app \in Apps /\ h.man \in Manifests /\ h.man.app = h.app
      /\ h.pc \in Deploying /\ UNCHANGED <<known, interrupted, incomplete>>
      /\ h.idx \in Nat /\ h.pc = "create" /\ h.pc \in Building
  BY StatusHere
     DEF ExactInv, Invariants, TypeInv, WellFormed, Create, Deploying, Handler,
         BetweenCommands, historyVars, agentVars, Building
<1>2. ASSUME CreateContainer(Current), Goto("start")
      PROVE  Exactly
  <2>1. /\ h'.app = h.app /\ h'.man = h.man /\ h'.pc = "start" /\ h'.net = h.net
        /\ h'.idx = h.idx
    BY <1>1, <1>2 DEF Goto, Handler
  <2>2. ASSUME h.app \notin Excused
        PROVE  SoFar(h)'
    <3>1. SoFar(h)
      BY <1>1, <2>2 DEF ExactInv, AtHandExact
    <3> DEFINE made == Current
    <3>2. ctr' = [ctr EXCEPT ![made] = "created"] /\ networks' = networks
      BY <1>2 DEF CreateContainer, SetContainer
    <3>3. made.man = h.man /\ made.net = h.net /\ made.idx = h.idx
      BY DEF Current
    <3>4. \A c \in Containers : c.man = h.man /\ c.net = h.net /\ c.idx = h.idx => c = made
      BY DEF Containers, Current
    <3> HIDE DEF made
    <3>5. ASSUME NEW c \in Containers
          PROVE  ctr'[c] # Absent <=> ctr[c] # Absent \/ c = made
      BY <3>2 DEF ExactInv, Invariants, TypeInv, DockerTypeOK, Absent
    <3>6. ASSUME NEW c \in Containers, c.man.app = h.app
          PROVE  ctr[c] # Absent <=> c \in Made(h)
      BY <3>1, <3>6 DEF SoFar, ContainersOf, Existing
    <3>7. ASSUME NEW c \in Containers
          PROVE  /\ c \in Made(h)' <=> c.man = h.man /\ c.net = h.net /\ c.idx >= h.idx
                 /\ c \in Made(h) <=> c.man = h.man /\ c.net = h.net /\ c.idx > h.idx
      BY <1>1, <2>1 DEF Made
    <3>8. \A c \in Containers : c.man = h.man => c.idx \in Int
      BY <1>1, ManifestType DEF Containers
    <3>9. ASSUME NEW c \in Containers
          PROVE  c \in Made(h)' <=> c \in Made(h) \/ c = made
      BY <1>1, <3>3, <3>4, <3>7, <3>8
    <3>10. \A c \in Made(h)' : c.man.app = h.app
      BY <1>1, <2>1 DEF Made
    <3>11. ContainersOf(h.app)' = Made(h)'
      <4>1. ASSUME NEW c \in Containers
            PROVE  c \in ContainersOf(h.app)' <=> c \in Made(h)'
        BY <1>1, <2>1, <3>3, <3>5, <3>6, <3>9, <3>10 DEF ContainersOf, Existing
      <4>2. ContainersOf(h.app)' \subseteq Containers /\ Made(h)' \subseteq Containers
        BY DEF ContainersOf, Existing, Made
      <4> QED
        BY <4>1, <4>2
    <3>12. NetworksOf(h.app)' = NetworksOf(h.app)
      BY <2>1, <3>2 DEF NetworksOf
    <3> QED
      BY <2>1, <3>1, <3>11, <3>12 DEF SoFar
  <2> QED
    BY <1>1, <2>1, <2>2, BuildingExact DEF Deploying
<1>3. CASE h' = Rollback("rollbackStart")
  BY <1>1, <1>3, GivenUpExact
<1> QED
  BY <1>2, <1>3 DEF Create

(***************************************************************************)
(* A container is started: the loop goes on, or has come to its end.       *)
(***************************************************************************)
LEMMA StartExact ==
  ASSUME ExactInv, Start
  PROVE  Exactly
<1>1. /\ h \in Handler /\ h.app \in Apps /\ h.man \in Manifests /\ DockerTypeOK
      /\ h.pc \in Deploying /\ UNCHANGED <<known, interrupted, incomplete>>
      /\ h.idx \in Nat /\ h.pc = "start" /\ h.pc \in Building
  BY StatusHere
     DEF ExactInv, Invariants, TypeInv, WellFormed, Start, Deploying, Handler,
         BetweenCommands, historyVars, agentVars, Building
<1>2. ASSUME CanStart(Current), StartContainer(Current),
             IF h.idx = 1 THEN Goto("deployed")
                          ELSE h' = [h EXCEPT !.pc = "create", !.idx = @ - 1]
      PROVE  Exactly
  <2>1. /\ h'.app = h.app /\ h'.man = h.man /\ h'.net = h.net
        /\ \/ h'.pc = "deployed" /\ h.idx = 1
           \/ h'.pc = "create" /\ h'.idx = h.idx - 1
    BY <1>1, <1>2 DEF Goto, Handler
  <2>2. \A a \in {h.app} : SameObjects(a)
    <3>1. Preserves
      BY <1>1, <1>2, PreservingCalls DEF CanStart, StartContainer, Absent
    <3> QED
      BY <3>1, PreservingSame
  <2>3. Made(h)' = Made(h)
    <3>1. \A c \in Containers : c.man = h.man => c.idx \in Int /\ c.idx >= 1
      BY <1>1, ManifestType DEF Containers
    <3> QED
      BY <1>1, <2>1, <3>1 DEF Made
  <2>4. h.app \notin Excused => SoFar(h)'
    BY <1>1, <2>1, <2>2, <2>3 DEF ExactInv, AtHandExact, SoFar, SameObjects
  <2> QED
    BY <1>1, <2>1, <2>4, BuildingExact DEF Deploying
<1>3. CASE h' = Rollback("rollbackStart")
  BY <1>1, <1>3, GivenUpExact
<1> QED
  BY <1>2, <1>3 DEF Start, AllStarted

(***************************************************************************)
(* All modules have been started: the edge app is complete.                *)
(***************************************************************************)
LEMMA FinishDeployExact ==
  ASSUME ExactInv, FinishDeploy
  PROVE  Exactly
<1>1. /\ h.app \in Apps /\ h.pc = "deployed" /\ h.pc \in Deploying /\ h.pc \in Building
      /\ RecordsTypeOK /\ SetStatus(h.app, "Running")
      /\ UNCHANGED <<dockerVars, interrupted, incomplete>>
      /\ h'.pc \notin Deploying \cup Changing
  BY StatusHere
     DEF ExactInv, Invariants, TypeInv, FinishDeploy, BetweenCommands, historyVars,
         Deploying, Building, Changing, Idle
<1>2. ASSUME NEW a \in {h.app}, a \in Apps \ Excused', IsUp(a)'
      PROVE  IsComplete(a)'
  <2>1. /\ known[a].man = h.man
        /\ NetworksOf(a) = {[app |-> a, num |-> h.net]}
        /\ ContainersOf(a) = Made(h)
    BY <1>1, <1>2 DEF ExactInv, AtHandExact, SoFar, Excused
  <2>2. Made(h) = {c \in Containers : c.man = h.man /\ c.net = h.net}
    BY <1>1 DEF Made
  <2> DEFINE n == [app |-> a, num |-> h.net]
  <2>3. n.num = h.net
    OBVIOUS
  <2>4. NetworksOf(a) = {n}
    BY <2>1
  <2> HIDE DEF n
  <2>5. IsComplete(a)
    BY <2>1, <2>2, <2>3, <2>4 DEF IsComplete
  <2>6. SameObjects(a)
    BY <1>1 DEF SameObjects, dockerVars, ContainersOf, Existing, NetworksOf
  <2>7. known'[a].man = known[a].man
    BY <1>1, <1>2 DEF SetStatus, RecordsTypeOK, agentVars
  <2> QED
    BY <2>5, <2>6, <2>7, StaysComplete
<1>3. AtHandExact'
  BY <1>1 DEF AtHandExact, Building, Deploying
<1> QED
  BY <1>1, <1>2, <1>3 DEF Exactly, OwnExact

(***************************************************************************)
(* STOP and RESUME: an edge app that was complete when the list was made   *)
(* stays so to the end of the loop.                                        *)
(***************************************************************************)
LEMMA StopResumeExact ==
  ASSUME ExactInv,
         \/ ListToStop \/ StopNext \/ FinishStop
         \/ ListToResume \/ ResumeNext \/ FinishResume
  PROVE  Exactly
<1>1. /\ h \in Handler /\ h.app \in Apps /\ RecordsTypeOK /\ DockerTypeOK
      /\ AtHand(h, LifecycleStatus[h.app])
      /\ UNCHANGED <<interrupted, incomplete>>
      /\ h.pc \in Changing \cup {"listToStop", "listToResume"}
  BY StatusHere
     DEF ExactInv, Invariants, TypeInv, ListToStop, StopNext, FinishStop, ListToResume,
         ResumeNext, FinishResume, BetweenCommands, historyVars, Changing
<1>2. \A a \in {h.app} : a \notin Excused => IsComplete(a)
  <2>1. CASE h.pc \in Changing
    BY <1>1, <2>1 DEF ExactInv, AtHandExact
  <2>2. CASE h.pc \in {"listToStop", "listToResume"}
    BY <1>1, <2>2 DEF ExactInv, UpIsComplete, IsUp, AtHand
  <2> QED
    BY <1>1, <2>1, <2>2
<1>3. \A a \in {h.app} : SameObjects(a)
  <2>1. \/ UNCHANGED dockerVars
        \/ \E c : CanStop(c) /\ StopContainer(c)
        \/ \E c : CanStart(c) /\ StartContainer(c)
    BY DEF ListToStop, StopNext, FinishStop, ListToResume, ResumeNext, FinishResume
  <2>2. Preserves
    BY <1>1, <2>1, PreservingCalls
       DEF CanStop, StopContainer, CanStart, StartContainer, Absent
  <2> QED
    BY <2>2, PreservingSame
<1>4. \A a \in {h.app} : known'[a].man = known[a].man
  <2>1. UNCHANGED known \/ \E s : SetStatus(h.app, s)
    BY DEF ListToStop, StopNext, FinishStop, ListToResume, ResumeNext, FinishResume,
           GiveUp, agentVars
  <2> QED
    BY <1>1, <2>1, ManifestStays
<1>5. \A a \in {h.app} : a \notin Excused' => IsComplete(a)'
  BY <1>1, <1>2, <1>3, <1>4, StaysComplete DEF Excused
<1>6. \/ h'.app = h.app /\ h'.pc \in Changing
      \/ h' = Idle
  BY <1>1
     DEF ListToStop, StopNext, FinishStop, ListToResume, ResumeNext, FinishResume,
         GiveUp, Changing, Handler
<1>7. h'.pc \notin Deploying /\ (h' = Idle => h'.pc \notin Changing)
  BY <1>6 DEF Changing, Deploying, Idle
<1>8. AtHandExact'
  BY <1>1, <1>5, <1>6, <1>7 DEF AtHandExact, Building, Deploying
<1> QED
  BY <1>5, <1>6, <1>7, <1>8 DEF Exactly, OwnExact
-----------------------------------------------------------------------------
(***************************************************************************)
(* All steps, when no container is removed by hand.                        *)
(***************************************************************************)
LEMMA HandlerStepExact ==
  ASSUME ExactInv, HandlerStep
  PROVE  Exactly
<1>1. CASE RemoveNextApp \/ FinishDeleteNode
  <2>1. h.app \notin Apps
    BY <1>1, EdgeAppAssumption
       DEF RemoveNextApp, FinishDeleteNode, ExactInv, Invariants, RefinementInv,
           NoneAtHand, BetweenCommands
  <2>2. h \in Handler
    BY DEF ExactInv, Invariants, TypeInv, WellFormed
  <2>3. h'.pc \notin Deploying \cup Changing
    <3>1. CASE RemoveNextApp
      <4>1. h'.pc \in {"undeploy", "deleteNode"}
        BY <2>2, <3>1 DEF RemoveNextApp, Goto, Handler
      <4> QED
        BY <4>1 DEF Deploying, Changing
    <3>2. CASE FinishDeleteNode
      <4>1. h'.pc = "idle"
        BY <3>2 DEF FinishDeleteNode, Idle
      <4> QED
        BY <4>1 DEF Deploying, Changing
    <3> QED
      BY <1>1, <3>1, <3>2
  <2>4. AtHandExact'
    BY <2>3 DEF AtHandExact, Building, Deploying
  <2> QED
    BY <2>1, <2>3, <2>4 DEF Exactly, OwnExact
<1> QED
  BY <1>1, UndeployingExact, ImagesExact, CreateNetworkExact, CreateExact, StartExact,
     FinishDeployExact, StopResumeExact DEF HandlerStep

(***************************************************************************)
(* Steps that are none of the handler's, but for restarts.                 *)
(***************************************************************************)
LEMMA AroundExact ==
  ASSUME ExactInv, ~ ContainersVanish,
         Command \/ SetLastLogRead \/ ContainerChanges \/ UNCHANGED vars
  PROVE  (AtHandExact /\ UpIsComplete)'
<1>1. DockerTypeOK /\ RecordsTypeOK
  BY DEF ExactInv, Invariants, TypeInv
<1>2. Preserves /\ UNCHANGED <<interrupted, incomplete>>
  <2>1. CASE Command \/ SetLastLogRead \/ UNCHANGED vars
    <3>1. UNCHANGED <<dockerVars, interrupted, incomplete>>
      BY <2>1
         DEF Command, DeployNew, DeployUpdate, Stop, Resume, Undeploy, Remove,
             UndeployOrRemove, DeleteNode, SetLastLogRead, vars, dockerVars, historyVars
    <3> QED
      BY <1>1, <3>1, PreservingCalls
  <2>2. CASE ContainerChanges
    <3>1. \E c \in Containers : \E state \in ContainerState \ {Absent} :
             ctr[c] # Absent /\ SetContainer(c, state)
      BY <2>2
         DEF ContainerChanges, ContainerExits, ContainerFails, ContainerRestarts,
             ContainerGivesUp, ContainerState, Absent
    <3> QED
      BY <1>1, <2>2, <3>1, PreservingCalls DEF ContainerChanges, historyVars
  <2> QED
    BY <2>1, <2>2
<1>3. \A a \in Apps : SameObjects(a)
  BY <1>2, PreservingSame
<1>4. ASSUME UNCHANGED <<known, h>>
      PROVE  (AtHandExact /\ UpIsComplete)'
  <2>1. \A a \in Apps : IsComplete(a) => IsComplete(a)'
    BY <1>3, <1>4, StaysComplete
  <2>2. LifecycleStatus' = LifecycleStatus
    BY <1>4, RecordsStay
  <2>3. SoFar(h) => SoFar(h)' \/ h.app \notin Apps
    BY <1>3, <1>4 DEF SoFar, Made, SameObjects
  <2> QED
    BY <1>2, <1>4, <2>1, <2>2, <2>3
       DEF ExactInv, AtHandExact, UpIsComplete, IsUp, Excused
<1>5. CASE SetLastLogRead \/ ContainerChanges \/ UNCHANGED vars
  BY <1>4, <1>5 DEF SetLastLogRead, ContainerChanges, agentVars, vars
<1>6. ASSUME NEW m \in Manifests, DeployNew(m)
      PROVE  (AtHandExact /\ UpIsComplete)'
  <2> DEFINE r == [man |-> m, status |-> "Initiated"]
  <2>1. m.app \in Apps /\ r \in ManifestRecord /\ known' = [known EXCEPT ![m.app] = r]
    BY <1>6, ManifestType
       DEF DeployNew, AddKnownManifest, ManifestRecord, EdgeAppStatus
  <2>2. LifecycleStatus' = [LifecycleStatus EXCEPT ![m.app] = "Initiated"]
    BY <1>1, <2>1, RecordReplaced
  <2>3. h'.pc = "inspect" /\ h'.app = m.app /\ h'.man = m
    BY <1>6 DEF DeployNew, Idle
  <2>4. known'[m.app].man = m
    BY <1>1, <2>1 DEF RecordsTypeOK
  <2>5. AtHandExact'
    BY <2>3, <2>4 DEF AtHandExact, Building, Changing
  <2>6. ASSUME NEW a \in Apps, a \notin Excused', IsUp(a)'
        PROVE  IsComplete(a)'
    <3>1. a # m.app
      BY <1>1, <2>1, <2>2, <2>6, StatusType DEF IsUp
    <3>2. known'[a] = known[a]
      BY <1>1, <2>1, <3>1 DEF RecordsTypeOK
    <3>3. IsUp(a) /\ a \notin Excused
      BY <1>2, <2>6, <3>2 DEF IsUp, LifecycleStatus, IsKnown, Excused
    <3> QED
      BY <1>3, <3>2, <3>3, StaysComplete DEF ExactInv, UpIsComplete
  <2> QED
    BY <2>5, <2>6 DEF UpIsComplete
<1>7. CASE \/ \E m \in Manifests : DeployUpdate(m)
           \/ \E a \in Apps : Stop(a) \/ Resume(a) \/ Undeploy(a) \/ Remove(a)
           \/ DeleteNode
  <2>1. UNCHANGED known
    BY <1>7
       DEF DeployUpdate, Stop, Resume, Undeploy, Remove, UndeployOrRemove, DeleteNode,
           agentVars
  <2>2. h'.pc \in {"undeploy", "listToStop", "listToResume", "nextApp"}
    BY <1>7
       DEF DeployUpdate, Stop, Resume, Undeploy, Remove, UndeployOrRemove, DeleteNode,
           Idle
  <2>3. AtHandExact'
    BY <2>2 DEF AtHandExact, Building, Changing, Deploying
  <2>4. \A a \in Apps : IsComplete(a) => IsComplete(a)'
    BY <1>3, <2>1, StaysComplete
  <2>5. LifecycleStatus' = LifecycleStatus
    BY <2>1, RecordsStay
  <2> QED
    BY <1>2, <2>3, <2>4, <2>5 DEF ExactInv, UpIsComplete, IsUp, Excused
<1> QED
  BY <1>5, <1>6, <1>7 DEF Command

(***************************************************************************)
(* A restart brings back no record of an edge app that was Running or      *)
(* Stopped and is not so now: only Initiated ones differ on disk.          *)
(***************************************************************************)
LEMMA RestartExact ==
  ASSUME ExactInv, Restart
  PROVE  (AtHandExact /\ UpIsComplete)'
<1>1. /\ UNCHANGED <<dockerVars, disk, incomplete>> /\ known' = disk /\ h' = Idle
      /\ interrupted' = interrupted \cup ({h.app} \cap Apps)
  BY DEF Restart
<1>2. AtHandExact'
  BY <1>1, EdgeAppAssumption DEF AtHandExact, Idle
<1>3. ASSUME NEW a \in Apps, a \notin Excused', IsUp(a)'
      PROVE  IsComplete(a)'
  <2>1. a \notin Excused
    BY <1>1, <1>3 DEF Excused
  <2>2. known'[a] = known[a]
    BY <1>1, <1>3
       DEF ExactInv, Invariants, RefinementInv, DiskBehind, IsUp, LifecycleStatus,
           IsKnown
  <2>3. IsUp(a)
    BY <1>3, <2>2 DEF IsUp, LifecycleStatus, IsKnown
  <2>4. SameObjects(a)
    BY <1>1 DEF SameObjects, dockerVars, ContainersOf, Existing, NetworksOf
  <2> QED
    BY <2>1, <2>2, <2>3, <2>4, StaysComplete DEF ExactInv, UpIsComplete
<1> QED
  BY <1>2, <1>3 DEF UpIsComplete

LEMMA StepExact ==
  ASSUME ExactInv, ~ ContainersVanish, [Next]_vars
  PROVE  ExactInv'
<1>1. Invariants'
  BY StepRefines DEF ExactInv
<1>2. CASE HandlerStep
  <2>1. Exactly
    BY <1>2, HandlerStepExact
  <2> QED
    BY <1>1, <1>2, <2>1, HandlerExact DEF Exactly, ExactInv
<1>3. CASE Command \/ SetLastLogRead \/ ContainerChanges \/ UNCHANGED vars
  BY <1>1, <1>3, AroundExact DEF ExactInv
<1>4. CASE Restart
  BY <1>1, <1>4, RestartExact DEF ExactInv
<1> QED
  BY <1>2, <1>3, <1>4 DEF Next, Handle

(***************************************************************************)
(* An edge app that is Running or Stopped has exactly the containers of    *)
(* its manifest, in the one network there is of it, through every failure, *)
(* rollback, update, stop and resume, as long as nobody removes containers *)
(* by hand -- but where a restart cut off a command, or an update could    *)
(* not remove the old version.                                             *)
(***************************************************************************)
THEOREM RunningIsComplete ==
  ASSUME ~ ContainersVanish
  PROVE  Spec => []ExactContainers
<1>1. Init => ExactInv
  <2>1. Init => Invariants
    BY InitRefines
  <2>2. Init => AtHandExact /\ UpIsComplete
    BY EdgeAppAssumption
       DEF Init, AtHandExact, UpIsComplete, IsUp, LifecycleStatus, IsKnown, Idle
  <2> QED
    BY <2>1, <2>2 DEF ExactInv
<1>2. ExactInv /\ [Next]_vars => ExactInv'
  BY StepExact
<1>3. ExactInv => ExactContainers
  BY StatusNow DEF ExactInv, UpIsComplete, ExactContainers, Excused
<1> QED
  BY <1>1, <1>2, <1>3, PTL DEF Spec
-----------------------------------------------------------------------------
(* Images that nobody would remember *)

(***************************************************************************)
(* On the way to the deletion of the record every image to remove is on    *)
(* the handler's list, or gone, or in use.                                 *)
(***************************************************************************)
ToRemove == GetImagesByName(removeImageNames)

ImagesInv ==
    /\ h.pc = "listUsers" => ToRemove \subseteq h.unused
    /\ h.pc = "removeImage" /\ ~ h.failed =>
         \A i \in ToRemove : i \in h.unused \/ UsersOf(i) # {}
    /\ h.pc = "deleteRecord" => \A i \in ToRemove : UsersOf(i) # {}

Removing == {"listUsers", "removeImage", "deleteRecord"}

(***************************************************************************)
(* Where each step leads.                                                  *)
(***************************************************************************)
ReturnPlaces == {"add", "rolledBack"} \cup BetweenCommands

LEMMA NextPlaces ==
  ASSUME h \in Handler
  PROVE  /\ (\/ AddNewVersion \/ InspectImage \/ Pull \/ CreateNetwork
             \/ Create \/ Start \/ FinishDeploy \/ FinishRollback)
              => h'.pc \in Deploying \cup {"undeploy", "idle"}
         /\ ListToStop \/ StopNext \/ FinishStop => h'.pc \in {"stop", "stopped", "idle"}
         /\ ListToResume \/ ResumeNext \/ FinishResume
              => h'.pc \in {"resume", "resumed", "idle"}
         /\ (\/ BeginUndeploy \/ ListToRemove \/ RemoveNext \/ Prune \/ FinishUndeploy
             \/ DeleteRecord \/ RemoveNextApp \/ FinishDeleteNode)
              => h'.pc \in {"undeploy", "listToRemove", "removeContainer", "prune",
                            "undeployed", "listImages"} \cup ReturnPlaces
         /\ ListImages \/ ListUsers \/ RemoveImage => h'.pc \in Removing \cup ReturnPlaces
         /\ Command \/ Restart
              => h'.pc \in {"inspect", "undeploy", "listToStop", "listToResume", "nextApp",
                            "idle"}
<1>1. \A err \in BOOLEAN : Returned(err).pc \in ReturnPlaces
  BY ReturnedPlace DEF ReturnPlaces
<1>2. Idle.pc = "idle"
  BY DEF Idle
<1>3. ASSUME \/ AddNewVersion \/ InspectImage \/ Pull \/ CreateNetwork
             \/ Create \/ Start \/ FinishDeploy \/ FinishRollback
      PROVE  h'.pc \in Deploying \cup {"undeploy", "idle"}
  <2>1. NextImage => h'.pc \in {"inspect", "network"}
    BY DEF NextImage, Goto, Handler
  <2>2. \A l \in {"pull", "start", "deployed"} : Goto(l) => h'.pc = l
    BY DEF Goto, Handler
  <2>3. \A mode : Rollback(mode).pc = "undeploy"
    BY DEF Rollback, Handler
  <2>4. CASE AddNewVersion \/ FinishDeploy \/ FinishRollback
    <3>1. h'.pc = "inspect" \/ h' = Idle
      BY <2>4 DEF AddNewVersion, FinishDeploy, FinishRollback, GiveUp, Idle
    <3> QED
      BY <1>2, <3>1 DEF Deploying
  <2>5. CASE InspectImage \/ Pull
    BY <1>2, <2>1, <2>2, <2>3, <2>5 DEF InspectImage, Pull, GiveUp, Deploying
  <2>6. CASE CreateNetwork
    <3>1. \A c : [h EXCEPT !.pc = "create", !.net = c,
                         !.idx = Len(h.man.modules)].pc = "create"
      BY DEF Handler
    <3> QED
      BY <2>3, <2>6, <3>1 DEF CreateNetwork, GiveUp, Deploying
  <2>7. CASE Create \/ Start
    <3>1. [h EXCEPT !.pc = "create", !.idx = @ - 1].pc = "create"
      BY DEF Handler
    <3> QED
      BY <2>2, <2>3, <2>7, <3>1 DEF Create, Start, Deploying
  <2> QED
    BY <1>3, <2>4, <2>5, <2>6, <2>7
<1>4. \A todo, l : [h EXCEPT !.todo = todo, !.pc = l].pc = l
  BY DEF Handler
<1>5. ASSUME ListToStop \/ StopNext \/ FinishStop
      PROVE  h'.pc \in {"stop", "stopped", "idle"}
  <2>1. \A c : [h EXCEPT !.todo = @ \ {c},
                       !.pc = IF h.todo = {c} THEN "stopped" ELSE @].pc
                  \in {"stopped", h.pc}
    BY DEF Handler
  <2>2. CASE ListToStop \/ FinishStop
    <3>1. h' = Idle \/ \E todo : \E l \in {"stop", "stopped"} :
                              h' = [h EXCEPT !.todo = todo, !.pc = l]
      BY <2>2 DEF ListToStop, FinishStop, GiveUp
    <3> QED
      BY <1>2, <1>4, <3>1
  <2>3. CASE StopNext
    BY <1>2, <2>1, <2>3 DEF StopNext, GiveUp
  <2> QED
    BY <1>5, <2>2, <2>3
<1>6. ASSUME ListToResume \/ ResumeNext \/ FinishResume
      PROVE  h'.pc \in {"resume", "resumed", "idle"}
  <2>1. \A c : [h EXCEPT !.todo = @ \ {c},
                       !.pc = IF h.todo = {c} THEN "resumed" ELSE @].pc
                  \in {"resumed", h.pc}
    BY DEF Handler
  <2>2. CASE ListToResume \/ FinishResume
    <3>1. h' = Idle \/ \E todo : \E l \in {"resume", "resumed"} :
                              h' = [h EXCEPT !.todo = todo, !.pc = l]
      BY <2>2 DEF ListToResume, FinishResume, GiveUp
    <3> QED
      BY <1>2, <1>4, <3>1
  <2>3. CASE ResumeNext
    BY <1>2, <2>1, <2>3 DEF ResumeNext, GiveUp
  <2> QED
    BY <1>6, <2>2, <2>3
<1>7. ASSUME \/ BeginUndeploy \/ ListToRemove \/ RemoveNext \/ Prune \/ FinishUndeploy
             \/ DeleteRecord \/ RemoveNextApp \/ FinishDeleteNode
      PROVE  h'.pc \in {"undeploy", "listToRemove", "removeContainer", "prune",
                        "undeployed", "listImages"} \cup ReturnPlaces
  <2>1. \A todo : /\ RemoveLoop(todo).pc \in {"prune", "removeContainer"}
                  /\ Noted(RemoveLoop(todo)).pc \in {"prune", "removeContainer"}
    BY DEF RemoveLoop, Noted, Handler
  <2>2. /\ \A l : [h EXCEPT !.pc = l].pc = l
        /\ [h EXCEPT !.pc = "listToRemove", !.failed = FALSE].pc = "listToRemove"
    BY DEF Handler
  <2>3. CASE ListToRemove \/ RemoveNext \/ Prune \/ DeleteRecord
    <3>1. \/ \E err \in BOOLEAN : h' = Returned(err)
          \/ \E todo : h' = RemoveLoop(todo) \/ h' = Noted(RemoveLoop(todo))
          \/ h' = [h EXCEPT !.pc = "undeployed"]
      BY <2>3 DEF ListToRemove, RemoveNext, Prune, DeleteRecord, GiveUp
    <3> QED
      BY <1>1, <2>1, <2>2, <3>1
  <2>4. CASE BeginUndeploy
    BY <2>2, <2>4 DEF BeginUndeploy
  <2>5. CASE FinishUndeploy
    <3>1. h' = Idle \/ h' = [h EXCEPT !.pc = "listImages"]
      BY <2>5 DEF FinishUndeploy, Goto
    <3>2. h'.pc \in {"idle", "listImages"}
      BY <1>2, <2>2, <3>1
    <3> QED
      BY <3>2 DEF ReturnPlaces, BetweenCommands
  <2>6. CASE RemoveNextApp
    BY <2>6 DEF RemoveNextApp, Goto, Handler, ReturnPlaces, BetweenCommands
  <2>7. CASE FinishDeleteNode
    BY <1>2, <2>7 DEF FinishDeleteNode, ReturnPlaces, BetweenCommands
  <2> QED
    BY <1>7, <2>3, <2>4, <2>5, <2>6, <2>7
<1>8. ASSUME ListImages \/ ListUsers
      PROVE  h'.pc \in Removing \cup ReturnPlaces
  <2>1. \/ h' = Returned(TRUE)
        \/ h' = [h EXCEPT !.pc = "deleteRecord"]
        \/ \E unused : h' = [h EXCEPT !.pc = "listUsers", !.unused = unused]
        \/ \E unused : \E l \in {"deleteRecord", "removeImage"} :
               h' = [h EXCEPT !.unused = unused, !.pc = l]
    BY <1>8 DEF ListImages, ListUsers, GiveUp, Goto
  <2>2. h' = Returned(TRUE) \/ h'.pc \in {"deleteRecord", "listUsers", "removeImage"}
    BY <2>1 DEF Handler
  <2> QED
    BY <1>1, <2>2 DEF Removing
<1>9. ASSUME RemoveImage
      PROVE  h'.pc \in Removing \cup ReturnPlaces
  <2>1. PICK i \in h.unused, err \in BOOLEAN :
          LET rest == [h EXCEPT !.unused = @ \ {i}, !.failed = @ \/ err]
          IN  h' = IF rest.unused # {} THEN rest ELSE AfterImages(rest)
    BY <1>9 DEF RemoveImage
  <2> DEFINE rest == [h EXCEPT !.unused = @ \ {i}, !.failed = @ \/ err]
  <2>2. rest.pc = "removeImage" /\ [rest EXCEPT !.pc = "deleteRecord"].pc = "deleteRecord"
    BY <1>9 DEF Handler, RemoveImage
  <2>3. h' = Returned(TRUE) \/ h' = rest \/ h' = [rest EXCEPT !.pc = "deleteRecord"]
    BY <2>1 DEF AfterImages
  <2> HIDE DEF rest
  <2> QED
    BY <1>1, <2>2, <2>3 DEF Removing
<1>10. ASSUME Command \/ Restart
       PROVE  h'.pc \in {"inspect", "undeploy", "listToStop", "listToResume", "nextApp",
                         "idle"}
  <2>1. CASE Restart
    BY <2>1 DEF Restart, Idle
  <2>2. CASE DeleteNode
    BY <2>2 DEF DeleteNode, Idle
  <2>3. CASE \E a \in Apps : Stop(a) \/ Resume(a) \/ Undeploy(a) \/ Remove(a)
    BY <2>3 DEF Stop, Resume, Undeploy, Remove, UndeployOrRemove, Idle
  <2>4. CASE \E m \in Manifests : DeployNew(m) \/ DeployUpdate(m)
    BY <2>4 DEF DeployNew, DeployUpdate, Idle
  <2> QED
    BY <1>10, <2>1, <2>2, <2>3, <2>4 DEF Command
<1> QED
  BY <1>3, <1>5, <1>6, <1>7, <1>8, <1>9, <1>10

LEMMA SameToRemove ==
  ASSUME known'[h.app].man = known[h.app].man,
         h'.app = h.app, h'.mode = h.mode, h'.man = h.man, UNCHANGED images
  PROVE  ToRemove' = ToRemove
<1>1. removeImageNames' = removeImageNames
  BY NamesStay
<1> QED
  BY <1>1 DEF ToRemove, GetImagesByName

(***************************************************************************)
(* The lists of images and of their users are made.                        *)
(***************************************************************************)
LEMMA ListsOfImagesListed ==
  ASSUME Invariants, ImagesInv, ListImages \/ ListUsers
  PROVE  ImagesInv'
<1>1. h \in Handler
  BY DEF Invariants, TypeInv, WellFormed
<1>2. UNCHANGED <<images, ctr>>
  BY DEF ListImages, ListUsers, dockerVars
<1>3. \A i : UsersOf(i)' = UsersOf(i)
  BY <1>2 DEF UsersOf, Existing
<1>4. CASE GiveUp(Returned(TRUE))
  <2>1. h'.pc \notin Removing
    BY <1>1, <1>4, ReturnedPlace DEF GiveUp, Removing, BetweenCommands
  <2> QED
    BY <2>1 DEF ImagesInv, Removing
<1>5. CASE UNCHANGED agentVars /\ ListImages
  <2>1. \/ h' = [h EXCEPT !.pc = "deleteRecord"] /\ ToRemove = {}
        \/ h' = [h EXCEPT !.pc = "listUsers", !.unused = ToRemove]
        \/ h' = Returned(TRUE)
    BY <1>5 DEF ListImages, Goto, GiveUp, ToRemove, GetImagesByName
  <2>2. CASE h' = Returned(TRUE)
    <3>1. h'.pc \notin Removing
      BY <1>1, <2>2, ReturnedPlace DEF Removing, BetweenCommands
    <3> QED
      BY <3>1 DEF ImagesInv, Removing
  <2>3. CASE h' = [h EXCEPT !.pc = "deleteRecord"] /\ ToRemove = {}
    <3>1. h'.pc = "deleteRecord" /\ h'.app = h.app /\ h'.mode = h.mode /\ h'.man = h.man
      BY <1>1, <2>3 DEF Handler
    <3>2. ToRemove' = ToRemove
      BY <1>2, <1>5, <3>1, SameToRemove DEF agentVars
    <3> QED
      BY <2>3, <3>1, <3>2 DEF ImagesInv
  <2>4. CASE h' = [h EXCEPT !.pc = "listUsers", !.unused = ToRemove]
    <3>1. /\ h'.pc = "listUsers" /\ h'.unused = ToRemove
          /\ h'.app = h.app /\ h'.mode = h.mode /\ h'.man = h.man
      BY <1>1, <2>4 DEF Handler
    <3>2. ToRemove' = ToRemove
      BY <1>2, <1>5, <3>1, SameToRemove DEF agentVars
    <3> QED
      BY <1>2, <3>1, <3>2 DEF ImagesInv
  <2> QED
    BY <2>1, <2>2, <2>3, <2>4
<1>6. CASE UNCHANGED agentVars /\ ListUsers
  <2> DEFINE unused == {i \in h.unused : HasNoUser(i)}
  <2>1. \/ h' = [h EXCEPT !.unused = unused,
                          !.pc = IF unused = {} THEN "deleteRecord" ELSE "removeImage"]
        \/ h' = Returned(TRUE)
    BY <1>6 DEF ListUsers, GiveUp
  <2>2. ToRemove \subseteq h.unused
    BY <1>6 DEF ListUsers, ImagesInv
  <2>3. \A i \in ToRemove : i \in unused \/ UsersOf(i) # {}
    BY <2>2 DEF HasNoUser
  <2> HIDE DEF unused
  <2>4. CASE h' = Returned(TRUE)
    <3>1. h'.pc \notin Removing
      BY <1>1, <2>4, ReturnedPlace DEF Removing, BetweenCommands
    <3> QED
      BY <3>1 DEF ImagesInv, Removing
  <2>5. CASE h' # Returned(TRUE)
    <3>1. /\ h'.pc = IF unused = {} THEN "deleteRecord" ELSE "removeImage"
          /\ h'.unused = unused
          /\ h'.app = h.app /\ h'.mode = h.mode /\ h'.man = h.man
      BY <1>1, <2>1, <2>5 DEF Handler
    <3>2. ToRemove' = ToRemove
      BY <1>2, <1>6, <3>1, SameToRemove DEF agentVars
    <3>3. \A i \in ToRemove' : i \in h'.unused \/ UsersOf(i)' # {}
      BY <1>2, <1>3, <2>3, <3>1, <3>2
    <3>4. h'.pc = "deleteRecord" => h'.unused = {}
      BY <3>1
    <3>5. h'.pc # "listUsers"
      BY <3>1
    <3> QED
      BY <3>3, <3>4, <3>5 DEF ImagesInv
  <2> QED
    BY <2>4, <2>5
<1> QED
  BY <1>4, <1>5, <1>6 DEF ListImages, ListUsers

(***************************************************************************)
(* An image leaves the list when it leaves the host, or its removal fails. *)
(***************************************************************************)
LEMMA RemoveImageListed ==
  ASSUME Invariants, ImagesInv, RemoveImage
  PROVE  ImagesInv'
<1>1. h \in Handler /\ h.pc = "removeImage" /\ h.app \in Apps /\ RecordsTypeOK
  BY DEF Invariants, TypeInv, WellFormed, RemoveImage
<1>2. PICK i \in h.unused, err \in BOOLEAN :
        LET rest == [h EXCEPT !.unused = @ \ {i}, !.failed = @ \/ err]
        IN  /\ IF err THEN UNCHANGED images ELSE ImageRemove(i)
            /\ IF err THEN SetStatus(h.app, "Error") ELSE UNCHANGED agentVars
            /\ h' = IF rest.unused # {} THEN rest ELSE AfterImages(rest)
  BY DEF RemoveImage, dockerVars
<1> DEFINE rest == [h EXCEPT !.unused = @ \ {i}, !.failed = @ \/ err]
<1>3. /\ rest.pc = "removeImage" /\ rest.app = h.app /\ rest.man = h.man
      /\ rest.mode = h.mode /\ rest.unused = h.unused \ {i}
      /\ rest.failed = (h.failed \/ err) /\ rest \in Handler
  BY <1>1 DEF Handler
<1>4. \/ h' = rest
      \/ h' = [rest EXCEPT !.pc = "deleteRecord"] /\ ~ rest.failed /\ rest.unused = {}
      \/ h' = Returned(TRUE)
  BY <1>2 DEF AfterImages
<1> HIDE DEF rest
<1>5. \A j : UsersOf(j)' = UsersOf(j)
  BY DEF RemoveImage, ImageRemove, dockerVars, UsersOf, Existing
<1>6. CASE h' = Returned(TRUE)
  <2>1. h'.pc \notin Removing
    BY <1>1, <1>6, ReturnedPlace DEF Removing, BetweenCommands
  <2> QED
    BY <2>1 DEF ImagesInv, Removing
<1>7. ASSUME h' # Returned(TRUE)
      PROVE  ImagesInv'
  <2>1. /\ h'.app = h.app /\ h'.mode = h.mode /\ h'.man = h.man
        /\ h'.unused = rest.unused /\ h'.failed = rest.failed
        /\ h'.pc \in {"removeImage", "deleteRecord"}
        /\ h'.pc = "deleteRecord" => ~ h'.failed /\ h'.unused = {}
    BY <1>3, <1>4, <1>7 DEF Handler
  <2>2. known'[h.app].man = known[h.app].man
    BY <1>1, <1>2, ManifestStays DEF agentVars
  <2>3. ToRemove' \subseteq ToRemove /\ (~ err => i \notin ToRemove')
    <3>1. removeImageNames' = removeImageNames
      BY <2>1, <2>2, NamesStay
    <3>2. CASE err
      BY <1>2, <3>1, <3>2 DEF ToRemove, GetImagesByName
    <3>3. CASE ~ err
      BY <1>2, <3>1, <3>3 DEF ToRemove, GetImagesByName, ImageRemove, ReferencesTo
    <3> QED
      BY <3>2, <3>3
  <2>4. ASSUME ~ h'.failed, NEW j \in ToRemove'
        PROVE  j \in h'.unused \/ UsersOf(j)' # {}
    <3>1. ~ err /\ ~ h.failed
      BY <1>3, <2>1, <2>4
    <3>2. j \in h.unused \/ UsersOf(j) # {}
      BY <1>1, <2>3, <2>4, <3>1 DEF ImagesInv
    <3> QED
      BY <1>3, <1>5, <2>1, <2>3, <2>4, <3>1, <3>2
  <2> QED
    BY <2>1, <2>4 DEF ImagesInv
<1> QED
  BY <1>6, <1>7

(***************************************************************************)
(* The other steps of the handlers lead elsewhere; containers that run,    *)
(* stop or fail stay users of their images.                                *)
(***************************************************************************)
LEMMA OtherStepsListed ==
  ASSUME Invariants, ImagesInv, ~ ContainersVanish, [Next]_vars,
         ~ ListImages, ~ ListUsers, ~ RemoveImage
  PROVE  ImagesInv'
<1>1. h \in Handler /\ DockerTypeOK
  BY DEF Invariants, TypeInv, WellFormed
<1>2. CASE h'.pc \notin Removing
  BY <1>2 DEF ImagesInv, Removing
<1>3. CASE HandlerStep \/ Command \/ Restart
  <2>1. CASE \/ AddNewVersion \/ InspectImage \/ Pull \/ CreateNetwork
             \/ Create \/ Start \/ FinishDeploy \/ FinishRollback
    <3>1. h'.pc \in Deploying \cup {"undeploy", "idle"}
      BY <1>1, <2>1, NextPlaces
    <3> QED
      BY <1>2, <3>1 DEF Deploying, Removing
  <2>2. CASE \/ ListToStop \/ StopNext \/ FinishStop
             \/ ListToResume \/ ResumeNext \/ FinishResume
    BY <1>1, <1>2, <2>2, NextPlaces DEF Removing
  <2>3. CASE \/ BeginUndeploy \/ ListToRemove \/ RemoveNext \/ Prune \/ FinishUndeploy
             \/ DeleteRecord \/ RemoveNextApp \/ FinishDeleteNode
    <3>1. h'.pc \in {"undeploy", "listToRemove", "removeContainer", "prune",
                     "undeployed", "listImages"} \cup ReturnPlaces
      BY <1>1, <2>3, NextPlaces
    <3> QED
      BY <1>2, <3>1 DEF ReturnPlaces, BetweenCommands, Removing
  <2>4. CASE Command \/ Restart
    BY <1>1, <1>2, <2>4, NextPlaces DEF Removing
  <2> QED
    BY <1>3, <2>1, <2>2, <2>3, <2>4 DEF HandlerStep
<1>4. CASE SetLastLogRead \/ ContainerChanges \/ UNCHANGED vars
  <2>1. UNCHANGED <<known, h, images>>
    BY <1>4
       DEF SetLastLogRead, ContainerChanges, agentVars, vars, dockerVars,
           ContainerExits, ContainerFails, ContainerRestarts, ContainerGivesUp,
           RemovedByHand, SetContainer
  <2>2. Existing' = Existing
    <3>1. CASE SetLastLogRead \/ UNCHANGED vars
      BY <3>1 DEF SetLastLogRead, vars, dockerVars, Existing
    <3>2. CASE ContainerChanges
      <4>1. \E c \in Containers : \E state \in ContainerState \ {Absent} :
               ctr[c] # Absent /\ SetContainer(c, state)
        BY <3>2
           DEF ContainerChanges, ContainerExits, ContainerFails, ContainerRestarts,
               ContainerGivesUp, ContainerState, Absent
      <4> QED
        BY <1>1, <4>1, PreservingCalls DEF Preserves
    <3> QED
      BY <1>4, <3>1, <3>2
  <2>3. \A i : UsersOf(i)' = UsersOf(i)
    BY <2>2 DEF UsersOf
  <2>4. ToRemove' = ToRemove
    BY <2>1, SameToRemove
  <2> QED
    BY <2>1, <2>3, <2>4 DEF ImagesInv
<1> QED
  BY <1>3, <1>4 DEF Next, Handle

(***************************************************************************)
(* Only DeleteRecord, and a restart, forget a record.                      *)
(***************************************************************************)
LEMMA RecordForgotten ==
  ASSUME Invariants, Next, UNCHANGED restarts,
         NEW a \in Apps, IsKnown(a), known'[a] = NoRecord
  PROVE  h.pc = "deleteRecord" /\ a = h.app
<1>1. RecordsTypeOK /\ WellFormed(h)
  BY DEF Invariants, TypeInv
<1>2. ~ UNCHANGED known
  BY DEF IsKnown
<1>3. \A m \in Manifests : ~ AddKnownManifest(m)
  <2>1. \A m \in Manifests : [man |-> m, status |-> "Initiated"] \in ManifestRecord
    BY DEF ManifestRecord, EdgeAppStatus
  <2> QED
    BY <1>1, <2>1, NoRecordAssumption DEF AddKnownManifest, RecordsTypeOK, IsKnown
<1>4. \A s \in EdgeAppStatus : ~ SetStatus(h.app, s)
  <2> SUFFICES ASSUME NEW s \in EdgeAppStatus, SetStatus(h.app, s)
               PROVE  FALSE
    OBVIOUS
  <2>1. known' = [known EXCEPT ![h.app] = [man |-> known[h.app].man, status |-> s]]
        /\ IsKnown(h.app)
    BY <1>2 DEF SetStatus, agentVars
  <2>2. a = h.app
    BY <1>1, <2>1 DEF IsKnown, RecordsTypeOK
  <2>3. known[h.app] \in ManifestRecord
    BY <1>1, <2>1, <2>2 DEF IsKnown, RecordsTypeOK
  <2>4. [man |-> known[h.app].man, status |-> s] \in ManifestRecord
    BY <2>3 DEF ManifestRecord
  <2>5. known'[a] = [man |-> known[h.app].man, status |-> s]
    BY <1>1, <2>1, <2>2 DEF RecordsTypeOK
  <2> QED
    BY <2>4, <2>5, NoRecordAssumption
<1>5. {"Initiated", "Executing", "Running", "Stopped", "Error", "Undeployed"}
        \subseteq EdgeAppStatus
  BY DEF EdgeAppStatus
<1>6. CASE HandlerStep
  <2>1. ~ AddNewVersion
    BY <1>1, <1>3 DEF AddNewVersion, WellFormed
  <2>2. CASE DeleteRecord
    BY <1>1, <2>2 DEF DeleteRecord, RecordsTypeOK, IsKnown
  <2>3. \/ DeleteRecord
        \/ UNCHANGED known
        \/ \E s \in {"Initiated", "Executing", "Running", "Stopped", "Error", "Undeployed"} :
              SetStatus(h.app, s)
    <3>1. CASE \/ InspectImage \/ Pull \/ CreateNetwork
               \/ Create \/ Start \/ FinishDeploy \/ FinishRollback
      BY <3>1
         DEF InspectImage, Pull, CreateNetwork, Create, Start, FinishDeploy,
             FinishRollback, GiveUp, agentVars
    <3>2. CASE \/ ListToStop \/ StopNext \/ FinishStop
               \/ ListToResume \/ ResumeNext \/ FinishResume
      BY <3>2
         DEF ListToStop, StopNext, FinishStop, ListToResume, ResumeNext, FinishResume,
             GiveUp, agentVars
    <3>3. CASE \/ BeginUndeploy \/ ListToRemove \/ RemoveNext \/ Prune \/ FinishUndeploy
      BY <3>3
         DEF BeginUndeploy, ListToRemove, RemoveNext, Prune, FinishUndeploy, GiveUp,
             agentVars
    <3>4. CASE \/ ListImages \/ ListUsers \/ RemoveImage \/ DeleteRecord
               \/ RemoveNextApp \/ FinishDeleteNode
      BY <3>4
         DEF ListImages, ListUsers, RemoveImage, RemoveNextApp, FinishDeleteNode, GiveUp,
             agentVars
    <3> QED
      BY <1>6, <2>1, <3>1, <3>2, <3>3, <3>4 DEF HandlerStep
  <2> QED
    BY <1>2, <1>4, <1>5, <2>2, <2>3
<1>7. CASE Command \/ SetLastLogRead \/ ContainerChanges
  <2>1. UNCHANGED known \/ \E m \in Manifests : AddKnownManifest(m)
    BY <1>7
       DEF Command, DeployNew, DeployUpdate, Stop, Resume, Undeploy, Remove,
           UndeployOrRemove, DeleteNode, SetLastLogRead, ContainerChanges, agentVars
  <2> QED
    BY <1>2, <1>3, <2>1
<1>8. ~ Restart
  <2>1. restarts \in Nat
    BY EdgeAppAssumption DEF Invariants, TypeInv, CountersTypeOK
  <2>2. restarts + 1 # restarts
    BY <2>1
  <2> QED
    BY <2>2 DEF Restart
<1> QED
  BY <1>6, <1>7, <1>8 DEF Next, Handle

(***************************************************************************)
(* When a command deletes a record, every image of the edge app is gone,   *)
(* but those that a container uses or the new version needs: the list of   *)
(* images to remove has missed none, and an image whose removal failed     *)
(* keeps the record alive.  Provided that nobody removes containers by     *)
(* hand, which would free an image after the look at its users.            *)
(***************************************************************************)
THEOREM NoImageForgotten ==
  ASSUME ~ ContainersVanish
  PROVE  Spec => RemovalForgetsNoImage
<1> DEFINE Inv == Invariants /\ ImagesInv
           Forgets == \A a \in Apps :
                        restarts' = restarts /\ IsKnown(a) /\ known'[a] = NoRecord =>
                          \A n \in ImagesOf(known[a].man) :
                             ImageExists(n) =>
                                UsersOf(ImageID(n)) # {} \/ n \in keepImages
<1>1. Init => Inv
  <2>1. Init => ImagesInv
    BY DEF Init, Idle, ImagesInv
  <2> QED
    BY <2>1, InitRefines
<1>2. Inv /\ [Next]_vars => Inv'
  <2>1. Invariants /\ ImagesInv /\ [Next]_vars => ImagesInv'
    BY ListsOfImagesListed, RemoveImageListed, OtherStepsListed
  <2> QED
    BY <2>1, StepRefines
<1>3. Inv /\ Next => Forgets
  <2> SUFFICES ASSUME Inv, Next, NEW a \in Apps, restarts' = restarts, IsKnown(a),
                      known'[a] = NoRecord, NEW n \in ImagesOf(known[a].man),
                      ImageExists(n), n \notin keepImages
               PROVE  UsersOf(ImageID(n)) # {}
    OBVIOUS
  <2>1. h.pc = "deleteRecord" /\ a = h.app
    BY RecordForgotten
  <2>2. n \in removeImageNames
    BY <2>1 DEF removeImageNames
  <2>3. n \in Images
    <3>1. known[a].man \in Manifests
      BY DEF Invariants, TypeInv, RecordsTypeOK, ManifestRecord, IsKnown
    <3> QED
      BY <3>1, ManifestType DEF ImagesOf
  <2>4. ImageID(n) \in ToRemove
    BY <2>2, <2>3, NamesOfImages DEF ImageExists, ImageID, ToRemove, GetImagesByName
  <2> QED
    BY <2>1, <2>4 DEF ImagesInv
<1>4. Inv /\ [Next]_vars => [Forgets]_vars
  BY <1>3
<1> QED
  BY <1>1, <1>2, <1>4, PTL DEF Spec, RemovalForgetsNoImage

-----------------------------------------------------------------------------
(* Versions *)

(***************************************************************************)
(* No container of an edge app is of a newer version than its record, be   *)
(* it the one in memory or -- as a restart reads it back -- the one on     *)
(* disk, until a deployment has set its first status; an update is under   *)
(* way to a newer version only; and what is deployed is what the record    *)
(* says.                                                                   *)
(***************************************************************************)
NotNewer(a, record) ==
    \A c \in ContainersOf(a) :
        record # NoRecord /\ c.man.updatedAt <= record.man.updatedAt

NoneNewer ==
    \A a \in Apps \ interrupted :
        /\ NotNewer(a, known[a])
        /\ NotNewer(a, disk[a]) \/ (h.app = a /\ h.pc \in Unsaved)

VersionAtHand ==
    /\ h.mode = "update" /\ IsKnown(h.app) => IsNewer(h.man)
    /\ h.pc = "add" => h.mode = "update"
    /\ h.pc \in Deploying => known[h.app].man = h.man

VersionInv == NoneNewer /\ VersionAtHand

(***************************************************************************)
(* Steps that change no manifest of a record, and forget none.             *)
(***************************************************************************)
KeepsManifests ==
    \A a \in Apps : /\ IsKnown(a)' <=> IsKnown(a)
                    /\ IsKnown(a) => known'[a].man = known[a].man

LEMMA StatusKeepsManifests ==
  ASSUME RecordsTypeOK, h.app \in Apps,
         UNCHANGED agentVars \/ \E s \in EdgeAppStatus : SetStatus(h.app, s)
  PROVE  /\ KeepsManifests
         /\ disk' = known' \/ UNCHANGED <<known, disk>>
<1>1. CASE UNCHANGED <<known, disk>>
  BY <1>1 DEF KeepsManifests, IsKnown
<1>2. ASSUME NEW s \in EdgeAppStatus, SetStatus(h.app, s), IsKnown(h.app)
      PROVE  KeepsManifests /\ disk' = known'
  <2> DEFINE r == [man |-> known[h.app].man, status |-> s]
  <2>1. known' = [known EXCEPT ![h.app] = r] /\ disk' = known'
    BY <1>2 DEF SetStatus
  <2>2. known[h.app] \in ManifestRecord
    BY <1>2 DEF IsKnown, RecordsTypeOK
  <2>3. r \in ManifestRecord /\ r.man = known[h.app].man
    BY <2>2 DEF ManifestRecord
  <2>4. r # NoRecord
    BY <2>3, NoRecordAssumption
  <2> HIDE DEF r
  <2>5. known'[h.app] = r /\ \A a \in Apps \ {h.app} : known'[a] = known[a]
    BY <2>1 DEF RecordsTypeOK
  <2> QED
    BY <1>2, <2>1, <2>3, <2>4, <2>5 DEF KeepsManifests, IsKnown
<1>3. UNCHANGED agentVars => UNCHANGED <<known, disk>>
  BY DEF agentVars
<1>4. \A s : SetStatus(h.app, s) /\ ~ IsKnown(h.app) => UNCHANGED <<known, disk>>
  BY DEF SetStatus, agentVars
<1> QED
  BY <1>1, <1>2, <1>3, <1>4

(***************************************************************************)
(* The handler goes on with what it has at hand, or has nothing at hand.   *)
(***************************************************************************)
KeepsVersion ==
    /\ h'.mode = "update" => h.mode = "update" /\ h'.app = h.app /\ h'.man = h.man
    /\ h'.pc = "add" => h'.mode = "update"
    /\ h'.pc \in Deploying => h.pc \in Deploying /\ h'.app = h.app /\ h'.man = h.man

KeepsUnsaved ==
    \/ disk' = known'
    \/ /\ UNCHANGED <<known, disk>>
       /\ h.pc \in Unsaved => h'.app = h.app /\ h'.pc \in Unsaved

LEMMA KeepsVersionAtHand ==
  ASSUME TypeInv, DeployingKnown, VersionAtHand, KeepsManifests, KeepsVersion
  PROVE  VersionAtHand'
<1>1. WellFormed(h) /\ h.mode \in Mode
  BY DEF TypeInv, WellFormed, Handler
<1>2. ASSUME h'.mode = "update", IsKnown(h.app)'
      PROVE  IsNewer(h.man)'
  <2>1. h.mode = "update" /\ h'.app = h.app /\ h'.man = h.man
    BY <1>2 DEF KeepsVersion
  <2>2. h.man \in Manifests /\ h.man.app = h.app
    BY <1>1, <2>1 DEF WellFormed
  <2>3. h.app \in Apps
    BY <2>2, ManifestType
  <2>4. IsKnown(h.app) /\ known'[h.app].man = known[h.app].man
    BY <1>2, <2>1, <2>3 DEF KeepsManifests, IsKnown
  <2>5. IsNewer(h.man)
    BY <2>1, <2>4 DEF VersionAtHand
  <2> QED
    BY <2>1, <2>2, <2>4, <2>5 DEF IsNewer
<1>3. ASSUME h'.pc \in Deploying
      PROVE  known'[h'.app].man = h'.man
  <2>1. h.pc \in Deploying /\ h'.app = h.app /\ h'.man = h.man
    BY <1>3 DEF KeepsVersion
  <2>2. h.app \in Apps /\ IsKnown(h.app)
    BY <1>1, <2>1 DEF DeployingKnown, IsDeployed, WellFormed, Deploying
  <2> QED
    BY <2>1, <2>2 DEF KeepsManifests, VersionAtHand
<1> QED
  BY <1>2, <1>3 DEF VersionAtHand, KeepsVersion

LEMMA KeepsNoneNewer ==
  ASSUME NoneNewer, KeepsManifests, KeepsUnsaved, UNCHANGED interrupted,
         Existing' \subseteq Existing
  PROVE  NoneNewer'
<1> SUFFICES ASSUME NEW a \in Apps, a \notin interrupted
             PROVE  /\ NotNewer(a, known[a])'
                    /\ NotNewer(a, disk[a])' \/ (h'.app = a /\ h'.pc \in Unsaved)
  BY DEF NoneNewer
<1>1. ContainersOf(a)' \subseteq ContainersOf(a)
  BY DEF ContainersOf
<1>2. NotNewer(a, known[a])'
  <2>1. NotNewer(a, known[a])
    BY DEF NoneNewer
  <2> QED
    BY <1>1, <2>1 DEF NotNewer, KeepsManifests, IsKnown
<1>3. CASE disk' = known'
  BY <1>2, <1>3 DEF NotNewer
<1>4. CASE UNCHANGED <<known, disk>>
           /\ (h.pc \in Unsaved => h'.app = h.app /\ h'.pc \in Unsaved)
  <2>1. NotNewer(a, disk[a]) => NotNewer(a, disk[a])'
    BY <1>1, <1>4 DEF NotNewer
  <2> QED
    BY <1>2, <1>4, <2>1 DEF NoneNewer
<1> QED
  BY <1>2, <1>3, <1>4 DEF KeepsUnsaved

LEMMA KeepsVersions ==
  ASSUME Invariants, VersionInv, KeepsManifests, KeepsUnsaved, KeepsVersion,
         UNCHANGED interrupted, Existing' \subseteq Existing
  PROVE  VersionInv'
  BY KeepsVersionAtHand, KeepsNoneNewer DEF VersionInv, Invariants, OrphanInv

(***************************************************************************)
(* Only Create makes containers.                                           *)
(***************************************************************************)
LEMMA OnlyCreateMakes ==
  ASSUME DockerTypeOK, [Next]_vars
  PROVE  \/ Existing' \subseteq Existing
         \/ Create /\ CreateContainer(Current)
<1>1. UNCHANGED ctr => Existing' \subseteq Existing
  BY DEF Existing
<1>2. UNCHANGED dockerVars => UNCHANGED ctr
  BY DEF dockerVars
<1>3. \A c, state : SetContainer(c, state) /\ (ctr[c] # Absent \/ state = Absent)
        => Existing' \subseteq Existing
  BY ShrinkingCalls DEF Shrinks
<1>4. CASE Create
  BY <1>1, <1>2, <1>4 DEF Create
<1>5. CASE Start
  BY <1>1, <1>2, <1>3, <1>5 DEF Start, CanStart, StartContainer
<1>6. CASE StopNext \/ ResumeNext
  BY <1>1, <1>2, <1>3, <1>6
     DEF StopNext, ResumeNext, CanStop, StopContainer, CanStart, StartContainer
<1>7. CASE RemoveNext
  BY <1>1, <1>2, <1>3, <1>7
     DEF RemoveNext, RemoveContainer, FailToRemoveContainer, StopContainer
<1>8. CASE \/ AddNewVersion \/ InspectImage \/ Pull \/ CreateNetwork
           \/ FinishDeploy \/ FinishRollback \/ ListToStop \/ FinishStop
           \/ ListToResume \/ FinishResume
           \/ BeginUndeploy \/ ListToRemove \/ Prune \/ FinishUndeploy
           \/ ListImages \/ ListUsers \/ RemoveImage \/ DeleteRecord
           \/ RemoveNextApp \/ FinishDeleteNode
  <2>1. UNCHANGED ctr
    BY <1>2, <1>8
       DEF AddNewVersion, InspectImage, Pull, CreateNetwork, FinishDeploy,
           FinishRollback, ListToStop, FinishStop, ListToResume, FinishResume,
           BeginUndeploy, ListToRemove, Prune, FinishUndeploy, ListImages, ListUsers,
           RemoveImage, DeleteRecord, RemoveNextApp, FinishDeleteNode, PullImage,
           ImageRemove, NetworkCreate, NetworkPrune
  <2> QED
    BY <1>1, <2>1
<1>9. CASE Command \/ SetLastLogRead \/ Restart \/ UNCHANGED vars
  <2>1. UNCHANGED ctr
    BY <1>2, <1>9
       DEF Command, DeployNew, DeployUpdate, Stop, Resume, Undeploy, Remove,
           UndeployOrRemove, DeleteNode, SetLastLogRead, Restart, vars
  <2> QED
    BY <1>1, <2>1
<1>10. CASE ContainerChanges
  BY <1>3, <1>10
     DEF ContainerChanges, ContainerExits, ContainerFails, ContainerRestarts,
         ContainerGivesUp, RemovedByHand, Absent
<1> QED
  BY <1>4, <1>5, <1>6, <1>7, <1>8, <1>9, <1>10 DEF Next, Handle, HandlerStep

(***************************************************************************)
(* Steps with no change of a manifest, and how the handler goes on.        *)
(***************************************************************************)
LEMMA ReturnedVersion ==
  ASSUME h \in Handler, h.pc \notin Deploying, NEW err \in BOOLEAN,
         h' = Returned(err)
  PROVE  KeepsVersion
<1>1. CASE h.mode = "update"
  BY <1>1 DEF Returned, Handler, KeepsVersion, Deploying
<1>2. CASE h.mode = "rollbackStart"
  BY <1>2 DEF Returned, Handler, KeepsVersion, Deploying
<1>3. CASE h.mode = "removeAll"
  <2>1. Idle \in Handler
    BY IdleWellFormed DEF WellFormed
  <2>2. h'.pc \in {"deleteNode", "nextApp"} /\ h'.mode = "removeAll"
    BY <1>3, <2>1 DEF Returned, Handler
  <2> QED
    BY <2>2 DEF KeepsVersion, Deploying
<1>4. CASE h.mode \notin {"update", "rollbackStart", "removeAll"}
  BY <1>4 DEF Returned, Idle, KeepsVersion, Deploying
<1> QED
  BY <1>1, <1>2, <1>3, <1>4

LEMMA IdleVersion ==
  ASSUME h' = Idle
  PROVE  KeepsVersion
  BY DEF Idle, KeepsVersion, Deploying

LEMMA GoesOnVersion ==
  ASSUME h'.mode # "update" \/ h'.mode = h.mode, h'.app = h.app, h'.man = h.man,
         h'.pc # "add", h.pc \in Deploying \/ h'.pc \notin Deploying
  PROVE  KeepsVersion
  BY DEF KeepsVersion

(***************************************************************************)
(* The steps of a deployment, but for the creation of a container.         *)
(***************************************************************************)
LEMMA DeployingVersion ==
  ASSUME Invariants, VersionInv, [Next]_vars,
         \/ InspectImage \/ Pull \/ CreateNetwork \/ Start \/ FinishDeploy
         \/ Create /\ ~ CreateContainer(Current)
  PROVE  VersionInv'
<1>1. /\ h \in Handler /\ h.pc \in Deploying /\ h.app \in Apps /\ RecordsTypeOK
      /\ DockerTypeOK /\ IsKnown(h.app)
  <2>1. h.pc \in Deploying
    BY DEF InspectImage, Pull, CreateNetwork, Start, FinishDeploy, Create, Deploying
  <2> QED
    BY <2>1
       DEF Invariants, TypeInv, WellFormed, Deploying, OrphanInv, DeployingKnown, IsDeployed
<1>2. UNCHANGED interrupted
  BY DEF InspectImage, Pull, CreateNetwork, Start, FinishDeploy, Create, historyVars
<1>3. Existing' \subseteq Existing
  BY <1>1, OnlyCreateMakes
     DEF InspectImage, Pull, CreateNetwork, Start, FinishDeploy, Create
<1>4. UNCHANGED agentVars \/ \E s \in EdgeAppStatus : SetStatus(h.app, s)
  BY DEF InspectImage, Pull, CreateNetwork, Start, FinishDeploy, Create, GiveUp,
         EdgeAppStatus
<1>5. KeepsManifests /\ (disk' = known' \/ UNCHANGED <<known, disk>>)
  BY <1>1, <1>4, StatusKeepsManifests
<1>6. /\ NextImage => h'.pc \in {"inspect", "network"} /\ h'.app = h.app
                      /\ h'.man = h.man /\ h'.mode = h.mode
      /\ \A l : Goto(l) => h'.pc = l /\ h'.app = h.app
                          /\ h'.man = h.man /\ h'.mode = h.mode
      /\ \A mode : h' = Rollback(mode) =>
            h'.pc = "undeploy" /\ h'.app = h.app /\ h'.man = h.man /\ h'.mode = mode
  BY <1>1 DEF NextImage, Goto, Rollback, Handler
<1>7. KeepsVersion
  <2>1. CASE InspectImage \/ Pull
    <3>1. \/ h' = Idle \/ NextImage \/ Goto("pull") \/ h' = Rollback("rollback")
      BY <2>1 DEF InspectImage, Pull, GiveUp
    <3> QED
      BY <1>1, <1>6, <3>1, IdleVersion, GoesOnVersion DEF Deploying
  <2>2. CASE CreateNetwork
    <3>1. \/ \E count : h' = [h EXCEPT !.pc = "create", !.net = count,
                                       !.idx = Len(h.man.modules)]
          \/ h' = Rollback("rollback")
      BY <2>2 DEF CreateNetwork, GiveUp
    <3>2. h'.app = h.app /\ h'.man = h.man /\ h'.mode \in {h.mode, "rollback"}
          /\ h'.pc \in {"create", "undeploy"}
      BY <1>1, <3>1 DEF Rollback, Handler
    <3> QED
      BY <1>1, <3>2, GoesOnVersion
  <2>3. CASE Start \/ Create
    <3>1. \/ h' = [h EXCEPT !.pc = "create", !.idx = @ - 1]
          \/ Goto("deployed") \/ Goto("start") \/ h' = Rollback("rollbackStart")
      BY <2>3 DEF Start, Create
    <3>2. h' = [h EXCEPT !.pc = "create", !.idx = @ - 1] =>
            h'.app = h.app /\ h'.man = h.man /\ h'.mode = h.mode /\ h'.pc = "create"
      BY <1>1 DEF Handler
    <3> QED
      BY <1>1, <1>6, <3>1, <3>2, GoesOnVersion
  <2>4. CASE FinishDeploy
    BY <2>4, IdleVersion DEF FinishDeploy
  <2> QED
    BY <2>1, <2>2, <2>3, <2>4
<1>8. KeepsUnsaved
  <2>1. CASE FinishDeploy
    BY <1>1, <2>1 DEF FinishDeploy, SetStatus, KeepsUnsaved
  <2>2. CASE Start \/ Create
    <3>1. UNCHANGED <<known, disk>>
      BY <2>2 DEF Start, Create, agentVars
    <3>2. \/ h' = [h EXCEPT !.pc = "create", !.idx = @ - 1]
          \/ Goto("deployed") \/ Goto("start") \/ h' = Rollback("rollbackStart")
      BY <2>2 DEF Start, Create
    <3>3. h'.app = h.app /\ h'.pc \in {"create", "deployed", "start", "undeploy"}
      BY <1>1, <1>6, <3>2 DEF Handler
    <3> QED
      BY <3>1, <3>3 DEF KeepsUnsaved, Unsaved
  <2>3. CASE InspectImage \/ Pull \/ CreateNetwork
    BY <1>5, <2>3 DEF InspectImage, Pull, CreateNetwork, KeepsUnsaved, Unsaved
  <2> QED
    BY <2>1, <2>2, <2>3
<1> QED
  BY <1>2, <1>3, <1>5, <1>7, <1>8, KeepsVersions

(***************************************************************************)
(* The new container is of the version that the record says.               *)
(***************************************************************************)
LEMMA CreateVersion ==
  ASSUME Invariants, VersionInv, Create, CreateContainer(Current)
  PROVE  VersionInv'
<1>1. /\ h \in Handler /\ h.pc = "create" /\ h.app \in Apps /\ DockerTypeOK
      /\ h.man \in Manifests /\ h.man.app = h.app
      /\ known[h.app].man = h.man /\ IsKnown(h.app)
  BY DEF Create, Invariants, TypeInv, WellFormed, Deploying, OrphanInv, DeployingKnown,
         IsDeployed, VersionInv, VersionAtHand
<1>2. UNCHANGED <<known, disk, interrupted>>
  BY DEF Create, agentVars, historyVars
<1>3. h'.app = h.app /\ h'.man = h.man /\ h'.mode \in {h.mode, "rollbackStart"}
      /\ h'.pc \in {"start", "undeploy"}
  BY <1>1 DEF Create, Goto, Rollback, Handler
<1>4. KeepsVersion
  BY <1>1, <1>3, GoesOnVersion DEF Deploying
<1>5. KeepsManifests
  BY <1>2 DEF KeepsManifests, IsKnown
<1>6. VersionAtHand'
  BY <1>4, <1>5, KeepsVersionAtHand DEF Invariants, OrphanInv, VersionInv
<1>7. \A a : ContainersOf(a)' \subseteq ContainersOf(a) \cup {Current}
  <2>1. ctr' = [ctr EXCEPT ![Current] = "created"]
    BY DEF CreateContainer, SetContainer
  <2>2. \A c \in Containers : c # Current => ctr'[c] = ctr[c]
    BY <1>1, <2>1 DEF DockerTypeOK
  <2> QED
    BY <2>2 DEF ContainersOf, Existing
<1>8. Current.man = h.man
  BY DEF Current
<1>9. h.man.updatedAt <= h.man.updatedAt
  BY <1>1, ManifestsAssumption DEF Manifest
<1>10. ASSUME NEW a \in Apps, a \notin interrupted
       PROVE  /\ NotNewer(a, known[a])'
              /\ NotNewer(a, disk[a])' \/ (h'.app = a /\ h'.pc \in Unsaved)
  <2>1. CASE a = h.app
    <3>1. NotNewer(a, known[a])
      BY <1>10 DEF VersionInv, NoneNewer
    <3>2. ASSUME NEW c \in ContainersOf(a)'
          PROVE  known[a] # NoRecord /\ c.man.updatedAt <= known[a].man.updatedAt
      <4>1. c \in ContainersOf(a) \/ c.man = h.man
        BY <1>7, <1>8, <3>2
      <4> QED
        BY <1>1, <1>9, <2>1, <3>1, <4>1 DEF NotNewer, IsKnown
    <3>3. NotNewer(a, known[a])'
      BY <1>2, <3>2 DEF NotNewer
    <3> QED
      BY <1>3, <2>1, <3>3 DEF Unsaved
  <2>2. CASE a # h.app
    <3>1. ContainersOf(a)' \subseteq ContainersOf(a)
      <4>1. Current.man.app # a
        BY <1>1, <1>8, <2>2
      <4>2. \A c \in ContainersOf(a)' : c.man.app = a
        BY DEF ContainersOf
      <4> QED
        BY <1>7, <4>1, <4>2
    <3>2. NotNewer(a, known[a]) /\ NotNewer(a, disk[a])
      BY <1>10, <2>2 DEF VersionInv, NoneNewer
    <3> QED
      BY <1>2, <3>1, <3>2 DEF NotNewer
  <2> QED
    BY <2>1, <2>2
<1>11. NoneNewer'
  BY <1>2, <1>10 DEF NoneNewer
<1> QED
  BY <1>6, <1>11 DEF VersionInv

(***************************************************************************)
(* The steps of STOP, RESUME, UNDEPLOY and REMOVE that change no manifest. *)
(***************************************************************************)
LEMMA WorkVersion ==
  ASSUME Invariants, VersionInv, [Next]_vars,
         \/ FinishRollback \/ ListToStop \/ StopNext \/ FinishStop
         \/ ListToResume \/ ResumeNext \/ FinishResume
         \/ BeginUndeploy \/ ListToRemove \/ RemoveNext \/ Prune
         \/ ListImages \/ ListUsers \/ RemoveImage
  PROVE  VersionInv'
<1>1. h \in Handler /\ RecordsTypeOK /\ DockerTypeOK /\ WellFormed(h)
  BY DEF Invariants, TypeInv, WellFormed
<1>2. h.pc \notin Deploying /\ h.pc # "add" /\ h.app \in Apps
  BY <1>1 DEF WellFormed, FinishRollback, ListToStop, StopNext, FinishStop, ListToResume,
              ResumeNext, FinishResume, BeginUndeploy, ListToRemove, RemoveNext, Prune,
              ListImages, ListUsers, RemoveImage, Deploying
<1>3. UNCHANGED interrupted
  BY DEF FinishRollback, ListToStop, StopNext, FinishStop, ListToResume, ResumeNext,
         FinishResume, BeginUndeploy, ListToRemove, RemoveNext, Prune, ListImages,
         ListUsers, RemoveImage, historyVars
<1>4. Existing' \subseteq Existing
  <2>1. ~ Create
    BY <1>2 DEF Create, Deploying
  <2> QED
    BY <1>1, <2>1, OnlyCreateMakes
<1>5. UNCHANGED agentVars \/ \E s \in EdgeAppStatus : SetStatus(h.app, s)
  <2>1. {"Executing", "Running", "Stopped", "Error"} \subseteq EdgeAppStatus
    BY DEF EdgeAppStatus
  <2>2. CASE \/ FinishRollback \/ ListToStop \/ StopNext \/ FinishStop
             \/ ListToResume \/ ResumeNext \/ FinishResume
    BY <2>1, <2>2
       DEF FinishRollback, ListToStop, StopNext, FinishStop, ListToResume, ResumeNext,
           FinishResume, GiveUp
  <2>3. CASE \/ BeginUndeploy \/ ListToRemove \/ RemoveNext \/ Prune
             \/ ListImages \/ ListUsers \/ RemoveImage
    BY <2>1, <2>3
       DEF BeginUndeploy, ListToRemove, RemoveNext, Prune, ListImages, ListUsers,
           RemoveImage, GiveUp
  <2> QED
    BY <2>2, <2>3
<1>6. KeepsManifests /\ (disk' = known' \/ UNCHANGED <<known, disk>>)
  BY <1>1, <1>2, <1>5, StatusKeepsManifests
<1>7. KeepsUnsaved
  <2>1. CASE BeginUndeploy
    <3>1. IsKnown(h.app)
      <4>1. LifecycleStatus[h.app] # "Unknown"
        BY <1>2, <2>1
           DEF BeginUndeploy, Invariants, RefinementInv, StatusAtHand, AtHand
      <4> QED
        BY <1>2, <4>1 DEF LifecycleStatus
    <3> QED
      BY <2>1, <3>1 DEF BeginUndeploy, SetStatus, KeepsUnsaved
  <2>2. CASE ~ BeginUndeploy
    <3>1. h.pc \notin Unsaved
      BY <2>2 DEF FinishRollback, ListToStop, StopNext, FinishStop, ListToResume,
                  ResumeNext, FinishResume, ListToRemove, RemoveNext, Prune, ListImages,
                  ListUsers, RemoveImage, Unsaved
    <3> QED
      BY <1>6, <3>1 DEF KeepsUnsaved
  <2> QED
    BY <2>1, <2>2
<1> DEFINE SameTask(n, l) == /\ n.app = h.app /\ n.man = h.man /\ n.mode = h.mode
                             /\ n.pc = l
<1>8. KeepsVersion
  <2>1. CASE \/ FinishRollback \/ ListToStop \/ StopNext \/ FinishStop
             \/ ListToResume \/ ResumeNext \/ FinishResume
    <3>1. CASE h' = Idle
      BY <3>1, IdleVersion
    <3>2. CASE h' # Idle
      <4>1. \A todo, l : LET n == [h EXCEPT !.todo = todo, !.pc = l]
                         IN  SameTask(n, l)
        BY <1>1 DEF Handler
      <4>2. CASE ListToStop \/ ListToResume
        <5>1. \E todo : \E l \in {"stop", "stopped", "resume", "resumed"} :
                 h' = [h EXCEPT !.todo = todo, !.pc = l]
          BY <3>2, <4>2 DEF ListToStop, ListToResume, GiveUp
        <5> QED
          BY <4>1, <5>1, GoesOnVersion DEF Deploying
      <4>3. CASE StopNext \/ ResumeNext
        <5>1. \E todo : \E l \in {"stop", "stopped", "resume", "resumed"} :
                 h' = [h EXCEPT !.todo = todo, !.pc = l]
          BY <3>2, <4>3 DEF StopNext, ResumeNext, GiveUp
        <5> QED
          BY <4>1, <5>1, GoesOnVersion DEF Deploying
      <4> QED
        BY <2>1, <3>2, <4>2, <4>3 DEF FinishRollback, FinishStop, FinishResume, GiveUp
    <3> QED
      BY <3>1, <3>2
  <2>2. CASE BeginUndeploy \/ ListToRemove \/ RemoveNext \/ Prune
    <3>1. ASSUME NEW todo, h' = RemoveLoop(todo) \/ h' = Noted(RemoveLoop(todo))
          PROVE  SameTask(h', "prune") \/ SameTask(h', "removeContainer")
      BY <1>1, <3>1 DEF Handler, RemoveLoop, Noted
    <3>2. SameTask([h EXCEPT !.pc = "listToRemove", !.failed = FALSE], "listToRemove")
          /\ SameTask([h EXCEPT !.pc = "undeployed"], "undeployed")
      BY <1>1 DEF Handler
    <3>3. \/ h' = Returned(TRUE)
          \/ \E todo : h' = RemoveLoop(todo) \/ h' = Noted(RemoveLoop(todo))
          \/ h' = [h EXCEPT !.pc = "listToRemove", !.failed = FALSE]
          \/ h' = [h EXCEPT !.pc = "undeployed"]
      BY <2>2 DEF BeginUndeploy, ListToRemove, RemoveNext, Prune, GiveUp
    <3>4. \/ h' = Returned(TRUE)
          \/ \E l \in {"prune", "removeContainer", "listToRemove", "undeployed"} :
                SameTask(h', l)
      BY <3>1, <3>2, <3>3
    <3> QED
      BY <1>1, <1>2, <3>4, ReturnedVersion, GoesOnVersion DEF Deploying
  <2>3. CASE ListImages \/ ListUsers
    <3>1. \/ h' = Returned(TRUE)
          \/ h' = [h EXCEPT !.pc = "deleteRecord"]
          \/ \E unused : h' = [h EXCEPT !.pc = "listUsers", !.unused = unused]
          \/ \E unused : \E l \in {"deleteRecord", "removeImage"} :
                 h' = [h EXCEPT !.unused = unused, !.pc = l]
      BY <2>3 DEF ListImages, ListUsers, GiveUp, Goto
    <3>2. \/ h' = Returned(TRUE)
          \/ \E l \in {"deleteRecord", "listUsers", "removeImage"} : SameTask(h', l)
      BY <1>1, <3>1 DEF Handler
    <3> QED
      BY <1>1, <1>2, <3>2, ReturnedVersion, GoesOnVersion DEF Deploying
  <2>4. CASE RemoveImage
    <3>1. PICK i \in h.unused, err \in BOOLEAN :
            LET rest == [h EXCEPT !.unused = @ \ {i}, !.failed = @ \/ err]
            IN  h' = IF rest.unused # {} THEN rest ELSE AfterImages(rest)
      BY <2>4 DEF RemoveImage
    <3> DEFINE rest == [h EXCEPT !.unused = @ \ {i}, !.failed = @ \/ err]
    <3>2. SameTask(rest, "removeImage") /\ SameTask([rest EXCEPT !.pc = "deleteRecord"], "deleteRecord")
      BY <1>1, <2>4 DEF Handler, RemoveImage
    <3>3. h' = Returned(TRUE) \/ h' = rest \/ h' = [rest EXCEPT !.pc = "deleteRecord"]
      BY <3>1 DEF AfterImages
    <3> HIDE DEF rest
    <3> QED
      BY <1>1, <1>2, <3>2, <3>3, ReturnedVersion, GoesOnVersion DEF Deploying
  <2> QED
    BY <2>1, <2>2, <2>3, <2>4
<1> QED
  BY <1>3, <1>4, <1>6, <1>7, <1>8, KeepsVersions

(***************************************************************************)
(* A record for a new version: the old version is older, or there is none. *)
(***************************************************************************)
LEMMA NewRecordVersion ==
  ASSUME Invariants, VersionInv, NEW m \in Manifests, AddKnownManifest(m),
         UNCHANGED <<ctr, interrupted>>, h.pc \notin Unsaved,
         ~ IsDeployed(m.app) \/ IsNewer(m),
         h'.pc = "inspect", h'.mode = "none", h'.app = m.app, h'.man = m
  PROVE  VersionInv'
<1>1. RecordsTypeOK /\ m.app \in Apps
  BY ManifestType DEF Invariants, TypeInv
<1> DEFINE r == [man |-> m, status |-> "Initiated"]
<1>2. r.man = m /\ r # NoRecord
  <2>1. r \in ManifestRecord
    BY DEF ManifestRecord, EdgeAppStatus
  <2> QED
    BY <2>1, NoRecordAssumption
<1>3. known' = [known EXCEPT ![m.app] = r] /\ UNCHANGED disk
  BY DEF AddKnownManifest, agentVars
<1> HIDE DEF r
<1>4. known'[m.app] = r /\ \A a \in Apps \ {m.app} : known'[a] = known[a]
  BY <1>1, <1>3 DEF RecordsTypeOK
<1>5. VersionAtHand'
  BY <1>2, <1>4 DEF VersionAtHand
<1>6. \A a : ContainersOf(a)' = ContainersOf(a)
  BY DEF ContainersOf, Existing
<1>7. ASSUME NEW a \in Apps, a \notin interrupted
      PROVE  NotNewer(a, known'[a]) /\ NotNewer(a, disk[a])
  <2>1. NotNewer(a, known[a]) /\ NotNewer(a, disk[a])
    BY <1>7 DEF VersionInv, NoneNewer
  <2>2. CASE a # m.app
    BY <1>4, <2>1, <2>2
  <2>3. CASE a = m.app
    <3>1. ASSUME NEW c \in ContainersOf(a)
          PROVE  c.man.updatedAt <= m.updatedAt
      <4>1. known[a] # NoRecord /\ c.man.updatedAt <= known[a].man.updatedAt
        BY <2>1, <3>1 DEF NotNewer
      <4>2. IsDeployed(a)
        BY <1>7, <3>1 DEF Invariants, OrphanInv, InMemory, HasObjects
      <4>3. known[a].man.updatedAt < m.updatedAt
        BY <2>3, <4>2 DEF IsNewer
      <4>4. known[a].man \in Manifests
        BY <1>1, <4>1 DEF RecordsTypeOK, ManifestRecord
      <4>5. c.man \in Manifests
        BY <3>1 DEF ContainersOf, Existing, Containers
      <4>6. /\ known[a].man.updatedAt \in Nat /\ c.man.updatedAt \in Nat
            /\ m.updatedAt \in Nat
        BY <4>4, <4>5, ManifestsAssumption DEF Manifest
      <4> HIDE DEF r
      <4> QED
        BY <4>1, <4>3, <4>6
    <3> QED
      BY <1>2, <1>4, <2>1, <2>3, <3>1 DEF NotNewer
  <2> QED
    BY <2>2, <2>3
<1>8. NoneNewer'
  BY <1>3, <1>6, <1>7 DEF NoneNewer, NotNewer
<1> QED
  BY <1>5, <1>8 DEF VersionInv

LEMMA AddVersion ==
  ASSUME Invariants, VersionInv,
         AddNewVersion \/ \E m \in Manifests : DeployNew(m)
  PROVE  VersionInv'
<1>1. CASE AddNewVersion
  <2>1. /\ h.pc = "add" /\ h.mode = "update" /\ h.man \in Manifests /\ h.man.app = h.app
        /\ AddKnownManifest(h.man) /\ UNCHANGED <<ctr, interrupted>>
    BY <1>1
       DEF AddNewVersion, VersionInv, VersionAtHand, Invariants, TypeInv, WellFormed,
           dockerVars
  <2>2. h'.pc = "inspect" /\ h'.mode = "none" /\ h'.app = h.app /\ h'.man = h.man
    BY <1>1 DEF AddNewVersion, Idle
  <2>3. ~ IsDeployed(h.app) \/ IsNewer(h.man)
    BY <2>1 DEF VersionInv, VersionAtHand, IsDeployed
  <2> QED
    BY <2>1, <2>2, <2>3, NewRecordVersion DEF Unsaved
<1>2. ASSUME NEW m \in Manifests, DeployNew(m)
      PROVE  VersionInv'
  <2>1. h'.pc = "inspect" /\ h'.mode = "none" /\ h'.app = m.app /\ h'.man = m
    BY <1>2 DEF DeployNew, Idle
  <2>2. h.pc = "idle" /\ ~ IsDeployed(m.app) /\ AddKnownManifest(m)
        /\ UNCHANGED <<ctr, interrupted>>
    BY <1>2 DEF DeployNew, dockerVars, historyVars
  <2> QED
    BY <2>1, <2>2, NewRecordVersion DEF Unsaved
<1> QED
  BY <1>1, <1>2

(***************************************************************************)
(* Steps that leave records and containers alone, and begin or end no      *)
(* deployment.                                                             *)
(***************************************************************************)
LEMMA BetweenVersion ==
  ASSUME Invariants, VersionInv, [Next]_vars,
         \/ \E m \in Manifests : DeployUpdate(m)
         \/ \E a \in Apps : Stop(a) \/ Resume(a) \/ Undeploy(a) \/ Remove(a)
         \/ DeleteNode \/ RemoveNextApp \/ FinishDeleteNode
  PROVE  VersionInv'
<1>1. UNCHANGED <<ctr, known, disk, interrupted>>
  BY DEF DeployUpdate, Stop, Resume, Undeploy, Remove, UndeployOrRemove, DeleteNode,
         RemoveNextApp, FinishDeleteNode, dockerVars, agentVars, historyVars
<1>2. h.pc \in {"idle", "nextApp", "deleteNode"}
  BY DEF DeployUpdate, Stop, Resume, Undeploy, Remove, UndeployOrRemove, DeleteNode,
         RemoveNextApp, FinishDeleteNode
<1>3. NoneNewer'
  BY <1>1, <1>2
     DEF VersionInv, NoneNewer, NotNewer, ContainersOf, Existing, Unsaved
<1>4. CASE \E m \in Manifests : DeployUpdate(m)
  <2>1. PICK m \in Manifests : DeployUpdate(m)
    BY <1>4
  <2>2. h'.pc = "undeploy" /\ h'.man = m /\ h'.app = m.app /\ IsNewer(m)
    BY <2>1 DEF DeployUpdate, Idle
  <2>3. VersionAtHand'
    BY <1>1, <2>2 DEF VersionAtHand, IsNewer, Deploying
  <2> QED
    BY <1>3, <2>3 DEF VersionInv
<1>5. CASE \/ \E a \in Apps : Stop(a) \/ Resume(a) \/ Undeploy(a) \/ Remove(a)
           \/ DeleteNode \/ RemoveNextApp \/ FinishDeleteNode
  <2>1. h'.mode # "update" /\ h'.pc \notin Deploying \cup {"add"}
    <3>1. CASE RemoveNextApp
      <4>1. h.mode = "removeAll" /\ h \in Handler
        BY <3>1 DEF RemoveNextApp, Invariants, TypeInv, WellFormed
      <4> QED
        BY <3>1, <4>1 DEF RemoveNextApp, Goto, Handler, Deploying
    <3>2. CASE FinishDeleteNode
      BY <3>2 DEF FinishDeleteNode, Idle, Deploying
    <3>3. CASE \/ \E a \in Apps : Stop(a) \/ Resume(a) \/ Undeploy(a) \/ Remove(a)
               \/ DeleteNode
      <4>1. h'.pc \in {"listToStop", "listToResume", "undeploy", "nextApp"}
            /\ h'.mode \in {"none", "undeploy", "remove", "removeAll"}
        BY <3>3 DEF Stop, Resume, Undeploy, Remove, UndeployOrRemove, DeleteNode, Idle
      <4> QED
        BY <4>1 DEF Deploying
    <3> QED
      BY <1>5, <3>1, <3>2, <3>3
  <2> QED
    BY <1>3, <2>1 DEF VersionInv, VersionAtHand
<1> QED
  BY <1>4, <1>5

(***************************************************************************)
(* When an edge app is undeployed, and when its record is deleted, it has  *)
(* no containers.                                                          *)
(***************************************************************************)
LEMMA EmptiedVersion ==
  ASSUME Invariants, VersionInv, FinishUndeploy \/ DeleteRecord
  PROVE  VersionInv'
<1>1. /\ h \in Handler /\ h.pc \in {"undeployed", "deleteRecord"} /\ h.app \in Apps
      /\ RecordsTypeOK
  BY DEF FinishUndeploy, DeleteRecord, Invariants, TypeInv, WellFormed
<1>2. UNCHANGED ctr
  BY DEF FinishUndeploy, DeleteRecord, dockerVars
<1>3. ContainersOf(h.app) = {}
  BY <1>1 DEF Invariants, OrphanInv, NothingLeft, Emptied, HasObjects
<1>4. \A a : ContainersOf(a)' = ContainersOf(a)
  BY <1>2 DEF ContainersOf, Existing
<1>5. ASSUME NEW a \in Apps, a # h.app
      PROVE  known'[a] = known[a] /\ (a \in interrupted => a \in interrupted')
  BY <1>1, <1>5
     DEF FinishUndeploy, DeleteRecord, SetStatus, agentVars, RecordsTypeOK, historyVars
<1>6. disk' = known' \/ UNCHANGED <<known, disk>>
  BY DEF FinishUndeploy, DeleteRecord, SetStatus, agentVars
<1>7. NoneNewer'
  <2> SUFFICES ASSUME NEW a \in Apps, a \notin interrupted'
               PROVE  NotNewer(a, known[a])' /\ NotNewer(a, disk[a])'
    BY DEF NoneNewer
  <2>1. CASE a = h.app
    BY <1>3, <1>4, <2>1 DEF NotNewer
  <2>2. CASE a # h.app
    <3>1. a \notin interrupted /\ known'[a] = known[a]
      BY <1>5, <2>2
    <3>2. NotNewer(a, known[a]) /\ NotNewer(a, disk[a])
      BY <2>2, <3>1 DEF VersionInv, NoneNewer
    <3>3. NotNewer(a, known[a])'
      BY <1>4, <3>1, <3>2 DEF NotNewer
    <3>4. CASE disk' = known'
      BY <3>3, <3>4 DEF NotNewer
    <3>5. CASE UNCHANGED <<known, disk>>
      <4>1. NotNewer(a, disk[a])'
        BY <1>4, <3>2, <3>5 DEF NotNewer
      <4> QED
        BY <3>3, <4>1
    <3> QED
      BY <1>6, <3>4, <3>5
  <2> QED
    BY <2>1, <2>2
<1>8. VersionAtHand'
  <2>1. CASE FinishUndeploy
    <3>1. KeepsManifests
      BY <1>1, <2>1, StatusKeepsManifests DEF FinishUndeploy, EdgeAppStatus
    <3>2. KeepsVersion
      <4>1. Goto("listImages") => h'.app = h.app /\ h'.man = h.man /\ h'.mode = h.mode
                                  /\ h'.pc = "listImages"
        BY <1>1 DEF Goto, Handler
      <4> QED
        BY <2>1, <4>1, IdleVersion, GoesOnVersion DEF FinishUndeploy, Deploying
    <3> QED
      BY <3>1, <3>2, KeepsVersionAtHand DEF Invariants, OrphanInv, VersionInv
  <2>2. CASE DeleteRecord
    <3>1. KeepsVersion
      BY <1>1, <2>2, ReturnedVersion DEF DeleteRecord, Deploying
    <3>2. known'[h.app] = NoRecord
      BY <1>1, <2>2 DEF DeleteRecord, RecordsTypeOK
    <3>3. h.pc \notin Deploying
      BY <2>2 DEF DeleteRecord, Deploying
    <3> QED
      BY <3>1, <3>2, <3>3 DEF VersionAtHand, KeepsVersion, IsKnown
  <2> QED
    BY <2>1, <2>2
<1> QED
  BY <1>7, <1>8 DEF VersionInv

(***************************************************************************)
(* Around the handler: all records are written, or read back.              *)
(***************************************************************************)
LEMMA AroundVersion ==
  ASSUME Invariants, VersionInv, [Next]_vars,
         SetLastLogRead \/ ContainerChanges \/ Restart \/ UNCHANGED vars
  PROVE  VersionInv'
<1>1. \A a : ContainersOf(a)' \subseteq ContainersOf(a)
  <2>1. CASE SetLastLogRead \/ Restart \/ UNCHANGED vars
    BY <2>1 DEF SetLastLogRead, Restart, vars, dockerVars, ContainersOf, Existing
  <2>2. CASE ContainerChanges
    <3>1. \E c, state : SetContainer(c, state) /\ (ctr[c] # Absent \/ state = Absent)
      BY <2>2
         DEF ContainerChanges, ContainerExits, ContainerFails, ContainerRestarts,
             ContainerGivesUp, RemovedByHand, Absent
    <3> QED
      BY <3>1, ShrinkingCalls DEF Shrinks, ContainersOf, Invariants, TypeInv
  <2> QED
    BY <2>1, <2>2
<1>2. CASE SetLastLogRead \/ ContainerChanges \/ UNCHANGED vars
  <2>1. UNCHANGED <<known, h, interrupted>> /\ (disk' = known' \/ UNCHANGED disk)
    BY <1>2 DEF SetLastLogRead, ContainerChanges, vars, agentVars, historyVars
  <2>2. NoneNewer'
    <3> SUFFICES ASSUME NEW a \in Apps, a \notin interrupted
                 PROVE  /\ NotNewer(a, known[a])'
                        /\ NotNewer(a, disk[a])' \/ (h.app = a /\ h.pc \in Unsaved)
      BY <2>1 DEF NoneNewer
    <3>1. NotNewer(a, known[a])'
      BY <1>1, <2>1 DEF VersionInv, NoneNewer, NotNewer
    <3>2. CASE UNCHANGED disk
      BY <1>1, <3>1, <3>2 DEF VersionInv, NoneNewer, NotNewer
    <3>3. CASE disk' = known'
      BY <3>1, <3>3 DEF NotNewer
    <3> QED
      BY <2>1, <3>2, <3>3
  <2>3. VersionAtHand'
    BY <2>1 DEF VersionInv, VersionAtHand, IsKnown, IsNewer
  <2> QED
    BY <2>2, <2>3 DEF VersionInv
<1>3. CASE Restart
  <2>1. known' = disk /\ disk' = disk /\ h' = Idle
        /\ interrupted' = interrupted \cup ({h.app} \cap Apps)
    BY <1>3 DEF Restart
  <2>2. NoneNewer'
    <3> SUFFICES ASSUME NEW a \in Apps, a \notin interrupted'
                 PROVE  NotNewer(a, known[a])' /\ NotNewer(a, disk[a])'
      BY DEF NoneNewer
    <3>1. a \notin interrupted /\ a # h.app
      BY <2>1
    <3>2. NotNewer(a, disk[a])
      BY <3>1 DEF VersionInv, NoneNewer
    <3> QED
      BY <1>1, <2>1, <3>2 DEF NotNewer
  <2>3. VersionAtHand'
    BY <2>1 DEF VersionAtHand, Idle, Deploying
  <2> QED
    BY <2>2, <2>3 DEF VersionInv
<1> QED
  BY <1>2, <1>3

LEMMA StepVersion ==
  ASSUME Invariants, VersionInv, [Next]_vars
  PROVE  VersionInv'
<1>1. CASE HandlerStep
  BY <1>1, DeployingVersion, CreateVersion, WorkVersion, AddVersion, BetweenVersion,
     EmptiedVersion DEF HandlerStep
<1>2. CASE Command
  BY <1>2, AddVersion, BetweenVersion DEF Command
<1>3. CASE SetLastLogRead \/ ContainerChanges \/ Restart \/ UNCHANGED vars
  BY <1>3, AroundVersion
<1> QED
  BY <1>1, <1>2, <1>3 DEF Next, Handle

(***************************************************************************)
(* A container is only ever created next to containers of its edge app     *)
(* that are of its version or of an older one: the comparison of the       *)
(* versions holds through the removal of the old one, its failures and     *)
(* rollbacks -- but where a restart has cut off a command.                 *)
(***************************************************************************)
THEOREM NoDowngrade == Spec => NeverDowngrades
<1> DEFINE Inv == Invariants /\ VersionInv
           Upgrade == \A c \in Containers : Appears(c) =>
                         \A d \in ContainersOf(c.man.app) \ {c} :
                            \/ d.man.updatedAt <= c.man.updatedAt
                            \/ c.man.app \in interrupted
<1>1. Init => Inv
  <2>1. Init => \A a : ContainersOf(a) = {}
    BY DEF Init, DockerInit, ContainersOf, Existing
  <2>2. Init => VersionInv
    BY <2>1 DEF Init, VersionInv, NoneNewer, NotNewer, VersionAtHand, Idle, Deploying
  <2> QED
    BY <2>2, InitRefines
<1>2. Inv /\ [Next]_vars => Inv'
  BY StepVersion, StepRefines
<1>3. Inv /\ Next => Upgrade
  <2> SUFFICES ASSUME Inv, Next, NEW c \in Containers, Appears(c),
                      NEW d \in ContainersOf(c.man.app), c.man.app \notin interrupted
               PROVE  d.man.updatedAt <= c.man.updatedAt
    OBVIOUS
  <2>1. DockerTypeOK /\ WellFormed(h)
    BY DEF Invariants, TypeInv
  <2>2. Create /\ CreateContainer(Current)
    <3>1. ~ (Existing' \subseteq Existing)
      BY DEF Appears, Existing
    <3> QED
      BY <2>1, <3>1, OnlyCreateMakes
  <2>3. c = Current
    BY <2>1, <2>2 DEF Appears, CreateContainer, SetContainer, DockerTypeOK
  <2>4. c.man = h.man
    BY <2>3 DEF Current
  <2>5. h.man.app = h.app /\ h.app \in Apps /\ known[h.app].man = h.man
    BY <2>1, <2>2 DEF Create, WellFormed, Deploying, VersionInv, VersionAtHand
  <2>6. NotNewer(h.app, known[h.app])
    BY <2>4, <2>5 DEF VersionInv, NoneNewer
  <2> QED
    BY <2>4, <2>5, <2>6 DEF NotNewer
<1>4. Inv /\ [Next]_vars => [Upgrade]_vars
  BY <1>3
<1> QED
  BY <1>1, <1>2, <1>4, PTL DEF Spec, NeverDowngrades

-----------------------------------------------------------------------------
(* Order *)

(***************************************************************************)
(* The containers of an edge app lack no later module, unless they are     *)
(* being removed or a removal has failed, in which case no command but     *)
(* another removal or an update goes near them; the loops of DEPLOY and    *)
(* RESUME have started what comes later than what they start; and an       *)
(* update goes on with nothing on the host if the removal reported no      *)
(* error.                                                                  *)
(***************************************************************************)
Later(c, d) == SameNetwork(c, d) /\ d.idx > c.idx

LacksNone(a) == \A c \in ContainersOf(a), d \in Containers :
                   Later(c, d) => ctr[d] # Absent

MayLack(a) == /\ LifecycleStatus[a] \in {"Executing", "Error"}
              /\ h.app = a => h.pc \notin Changing

NoneLacking == \A a \in Apps \ incomplete : LacksNone(a) \/ MayLack(a)

LaterRun ==
    h.pc \in {"create", "start"} =>
        \A d \in Containers : SameNetwork(Current, d) /\ d.idx > h.idx => ctr[d] = "running"

ResumedRun ==
    h.pc = "resume" => \A c \in ContainersOf(h.app) \ h.todo : ctr[c] = "running"

AddEmpty == h.pc = "add" /\ ~ h.failed => ContainersOf(h.app) = {}

OrderInv == NoneLacking /\ LaterRun /\ ResumedRun /\ AddEmpty

(***************************************************************************)
(* What keeps an edge app from lacking a module.                           *)
(***************************************************************************)
LEMMA SameLacks ==
  ASSUME Existing' = Existing, NEW a, LacksNone(a)
  PROVE  LacksNone(a)'
<1>1. ContainersOf(a)' = ContainersOf(a)
  BY DEF ContainersOf
<1>2. \A d \in Containers : ctr'[d] # Absent <=> ctr[d] # Absent
  BY DEF Existing
<1> QED
  BY <1>1, <1>2 DEF LacksNone

LEMMA NothingLacks ==
  ASSUME NEW a, ContainersOf(a)' = {}
  PROVE  LacksNone(a)'
  BY DEF LacksNone

LEMMA OthersLack ==
  ASSUME OwnObjects, NEW a \in Apps \ {h.app}, LacksNone(a)
  PROVE  LacksNone(a)'
<1>1. \A c \in Containers : c.man.app = a => ctr'[c] = ctr[c]
  BY DEF OwnObjects
<1>2. \A c \in ContainersOf(a)' : c \in ContainersOf(a)
  BY <1>1 DEF ContainersOf, Existing
<1>3. ASSUME NEW c \in ContainersOf(a)', NEW d \in Containers, Later(c, d)
      PROVE  ctr'[d] # Absent
  <2>1. d.man.app = a
    BY <1>3 DEF ContainersOf, Later, SameNetwork
  <2> QED
    BY <1>1, <1>2, <1>3, <2>1 DEF LacksNone
<1> QED
  BY <1>3 DEF LacksNone

(***************************************************************************)
(* The containers of an edge app exist as before, but for the one that is  *)
(* created and those that the removal takes.                               *)
(***************************************************************************)
LEMMA ExistenceKept ==
  ASSUME DockerTypeOK, HandlerStep, ~ RemoveNext
  PROVE  Existing' = Existing \/ (Create /\ CreateContainer(Current))
<1>1. UNCHANGED ctr => Existing' = Existing
  BY DEF Existing
<1>2. UNCHANGED dockerVars => UNCHANGED ctr
  BY DEF dockerVars
<1>3. \A c, state : SetContainer(c, state) /\ ctr[c] # Absent /\ state # Absent
        => Existing' = Existing
  BY PreservingCalls DEF Preserves
<1>4. "running" # Absent /\ "exited" # Absent
  BY DEF Absent
<1>5. CASE Create
  BY <1>1, <1>2, <1>5 DEF Create
<1>6. CASE Start
  BY <1>1, <1>2, <1>3, <1>4, <1>6 DEF Start, CanStart, StartContainer
<1>7. CASE StopNext \/ ResumeNext
  BY <1>1, <1>2, <1>3, <1>4, <1>7
     DEF StopNext, ResumeNext, CanStop, StopContainer, CanStart, StartContainer
<1>8. CASE \/ AddNewVersion \/ InspectImage \/ Pull \/ CreateNetwork
           \/ FinishDeploy \/ FinishRollback \/ ListToStop \/ FinishStop
           \/ ListToResume \/ FinishResume
           \/ BeginUndeploy \/ ListToRemove \/ Prune \/ FinishUndeploy
           \/ ListImages \/ ListUsers \/ RemoveImage \/ DeleteRecord
           \/ RemoveNextApp \/ FinishDeleteNode
  <2>1. UNCHANGED ctr
    BY <1>2, <1>8
       DEF AddNewVersion, InspectImage, Pull, CreateNetwork, FinishDeploy,
           FinishRollback, ListToStop, FinishStop, ListToResume, FinishResume,
           BeginUndeploy, ListToRemove, Prune, FinishUndeploy, ListImages, ListUsers,
           RemoveImage, DeleteRecord, RemoveNextApp, FinishDeleteNode, PullImage,
           ImageRemove, NetworkCreate, NetworkPrune
  <2> QED
    BY <1>1, <2>1
<1> QED
  BY <1>5, <1>6, <1>7, <1>8 DEF HandlerStep

(***************************************************************************)
(* A created container has all its later modules.                          *)
(***************************************************************************)
LEMMA CreatedLacksNone ==
  ASSUME Invariants, LaterRun, Create, CreateContainer(Current),
         NEW a, a = h.app, LacksNone(a)
  PROVE  LacksNone(a)'
<1>1. DockerTypeOK /\ h.pc = "create"
  BY DEF Create, Invariants, TypeInv
<1>2. ctr' = [ctr EXCEPT ![Current] = "created"]
  BY DEF CreateContainer, SetContainer
<1>3. "created" # Absent /\ "running" # Absent
  BY DEF Absent
<1>4. \A d \in Containers : ctr[d] # Absent => ctr'[d] # Absent
  BY <1>1, <1>2, <1>3 DEF DockerTypeOK
<1>5. \A c \in ContainersOf(a)' : c \in ContainersOf(a) \/ c = Current
  BY <1>1, <1>2 DEF DockerTypeOK, ContainersOf, Existing
<1>6. ASSUME NEW d \in Containers, Later(Current, d)
      PROVE  ctr[d] # Absent
  <2>1. SameNetwork(Current, d) /\ d.idx > h.idx
    BY <1>6 DEF Later, Current
  <2> QED
    BY <1>1, <1>3, <2>1 DEF LaterRun
<1> QED
  BY <1>4, <1>5, <1>6 DEF LacksNone

(***************************************************************************)
(* Where the status is not that of a failed or a running removal, or the   *)
(* containers are being stopped or started, none lacks a later module.     *)
(***************************************************************************)
LEMMA WorkedOnLacksNone ==
  ASSUME ExactInv, OrderInv, NEW a \in Apps \ incomplete, a = h.app,
         h.pc \in Deploying \cup Changing \cup {"listToStop", "listToResume"}
  PROVE  LacksNone(a)
<1>1. h.pc \notin BetweenCommands
  BY DEF Deploying, Changing, BetweenCommands
<1>2. AtHand(h, LifecycleStatus[a])
  BY <1>1, StatusHere DEF ExactInv
<1>3. h.pc \in Changing \/ LifecycleStatus[a] \in {"Initiated", "Running", "Stopped"}
  BY <1>2 DEF AtHand
<1>4. ~ MayLack(a)
  BY <1>3 DEF MayLack
<1> QED
  BY <1>4 DEF OrderInv, NoneLacking

(***************************************************************************)
(* The removal may go through the containers in any state.                 *)
(***************************************************************************)
LEMMA RemovedMayLack ==
  ASSUME Invariants, NEW a \in Apps, a = h.app,
         \/ BeginUndeploy \/ ListToRemove \/ RemoveNext \/ Prune \/ FinishRollback,
         LifecycleStatus[a] \in {"Executing", "Error"}
  PROVE  MayLack(a)'
<1>1. RecordsTypeOK /\ h \in Handler /\ h.app \in Apps
  BY DEF Invariants, TypeInv, WellFormed
<1>2. UNCHANGED known \/ \E s \in {"Executing", "Error"} : SetStatus(h.app, s)
  BY DEF BeginUndeploy, ListToRemove, RemoveNext, Prune, FinishRollback, GiveUp, agentVars
<1>3. LifecycleStatus'[a] \in {"Executing", "Error"}
  <2>1. CASE UNCHANGED known
    BY <2>1, RecordsStay
  <2>2. ASSUME NEW s \in {"Executing", "Error"}, SetStatus(h.app, s)
        PROVE  LifecycleStatus'[a] \in {"Executing", "Error"}
    <3>1. s \in EdgeAppStatus
      BY DEF EdgeAppStatus
    <3>2. LifecycleStatus' = IF IsKnown(h.app) THEN [LifecycleStatus EXCEPT ![h.app] = s]
                                               ELSE LifecycleStatus
      BY <1>1, <2>2, <3>1, StatusSet
    <3>3. LifecycleStatus \in [Apps -> LC!Status]
      BY <1>1, StatusType
    <3> QED
      BY <3>2, <3>3
  <2> QED
    BY <1>2, <2>1, <2>2
<1>4. h'.pc \notin Changing
  BY <1>1, NextPlaces DEF ReturnPlaces, BetweenCommands, Deploying, Changing
<1> QED
  BY <1>3, <1>4 DEF MayLack

(***************************************************************************)
(* The edge app that a step works on.                                      *)
(***************************************************************************)
LEMMA OwnLacksNone ==
  ASSUME ExactInv, OrderInv, HandlerStep,
         NEW a \in Apps \ incomplete', a = h.app
  PROVE  LacksNone(a)' \/ MayLack(a)'
<1>1. Invariants /\ DockerTypeOK
  BY DEF ExactInv, Invariants, TypeInv
<1>2. h.pc \notin BetweenCommands
  BY <1>1, EdgeAppAssumption DEF Invariants, RefinementInv, NoneAtHand
<1>3. CASE \/ InspectImage \/ Pull \/ CreateNetwork \/ Create \/ Start \/ FinishDeploy
           \/ ListToStop \/ StopNext \/ FinishStop
           \/ ListToResume \/ ResumeNext \/ FinishResume
  <2>1. h.pc \in Deploying \cup Changing \cup {"listToStop", "listToResume"}
    BY <1>3 DEF InspectImage, Pull, CreateNetwork, Create, Start, FinishDeploy,
           ListToStop, StopNext, FinishStop, ListToResume, ResumeNext, FinishResume,
           Deploying, Changing
  <2>2. incomplete' = incomplete
    BY <1>3 DEF InspectImage, Pull, CreateNetwork, Create, Start, FinishDeploy,
           ListToStop, StopNext, FinishStop, ListToResume, ResumeNext, FinishResume,
           historyVars
  <2>3. LacksNone(a)
    BY <2>1, <2>2, WorkedOnLacksNone
  <2>4. ~ RemoveNext
    BY <2>1 DEF RemoveNext, Deploying, Changing
  <2>5. CASE Existing' = Existing
    BY <2>3, <2>5, SameLacks
  <2>6. CASE Create /\ CreateContainer(Current)
    BY <1>1, <2>3, <2>6, CreatedLacksNone DEF OrderInv
  <2> QED
    BY <1>1, <2>4, <2>5, <2>6, ExistenceKept
<1>4. CASE BeginUndeploy \/ ListToRemove \/ RemoveNext \/ Prune \/ FinishRollback
  <2>1. incomplete' = incomplete
    BY <1>4 DEF BeginUndeploy, ListToRemove, RemoveNext, Prune, FinishRollback, historyVars
  <2>2. LacksNone(a) \/ MayLack(a)
    BY <2>1 DEF OrderInv, NoneLacking
  <2>3. LifecycleStatus[a] \in {"Executing", "Error"} => MayLack(a)'
    BY <1>1, <1>4, RemovedMayLack
  <2>4. RemoveNext => LifecycleStatus[a] \in {"Executing", "Error"}
    BY <1>1, <1>2, StatusHere DEF RemoveNext, AtHand
  <2>5. ~ RemoveNext => Existing' = Existing
    <3>1. h.pc # "create"
      BY <1>4 DEF BeginUndeploy, ListToRemove, RemoveNext, Prune, FinishRollback
    <3> QED
      BY <1>1, <3>1, ExistenceKept DEF Create
  <2>6. ~ RemoveNext /\ LacksNone(a) => LacksNone(a)'
    BY <2>5, SameLacks
  <2> QED
    BY <2>2, <2>3, <2>4, <2>6 DEF MayLack
<1>5. CASE \/ FinishUndeploy \/ ListImages \/ ListUsers \/ RemoveImage \/ DeleteRecord
           \/ AddNewVersion
  <2>1. h.pc \in Emptied \cup {"add"}
    BY <1>5 DEF FinishUndeploy, ListImages, ListUsers, RemoveImage, DeleteRecord,
           AddNewVersion, Emptied
  <2>2. h.pc = "add" => ~ h.failed
    <3>1. h.pc = "add" => AddNewVersion
      BY <1>5 DEF FinishUndeploy, ListImages, ListUsers, RemoveImage, DeleteRecord
    <3> QED
      BY <3>1 DEF AddNewVersion
  <2>3. ContainersOf(a) = {}
    BY <1>1, <2>1, <2>2
       DEF Invariants, OrphanInv, NothingLeft, HasObjects, OrderInv, AddEmpty
  <2>4. Existing' = Existing
    <3>1. h.pc \notin {"create", "removeContainer"}
      BY <2>1 DEF Emptied
    <3> QED
      BY <1>1, <3>1, ExistenceKept DEF Create, RemoveNext
  <2>5. ContainersOf(a)' = {}
    BY <2>3, <2>4 DEF ContainersOf
  <2> QED
    BY <2>5, NothingLacks
<1>6. CASE RemoveNextApp \/ FinishDeleteNode
  BY <1>2, <1>6 DEF RemoveNextApp, FinishDeleteNode, BetweenCommands
<1> QED
  BY <1>3, <1>4, <1>5, <1>6 DEF HandlerStep

LEMMA HandlerLacksNone ==
  ASSUME ExactInv, OrderInv, HandlerStep
  PROVE  NoneLacking'
<1> SUFFICES ASSUME NEW a \in Apps \ incomplete'
             PROVE  LacksNone(a)' \/ MayLack(a)'
  BY DEF NoneLacking
<1>1. CASE a = h.app
  BY <1>1, OwnLacksNone
<1>2. CASE a # h.app
  <2>1. OwnObjects /\ known'[a] = known[a]
    BY <1>2, OwnSteps DEF ExactInv, OwnRecord
  <2>2. a \notin incomplete
    BY <1>2 DEF HandlerStep, historyVars, AddNewVersion, InspectImage, Pull, CreateNetwork,
           Create, Start, FinishDeploy, FinishRollback, ListToStop, StopNext, FinishStop,
           ListToResume, ResumeNext, FinishResume, BeginUndeploy, ListToRemove, RemoveNext,
           Prune, FinishUndeploy, ListImages, ListUsers, RemoveImage, DeleteRecord,
           RemoveNextApp, FinishDeleteNode
  <2>3. LacksNone(a) => LacksNone(a)'
    BY <1>2, <2>1, OthersLack
  <2>4. LifecycleStatus'[a] = LifecycleStatus[a]
    BY <2>1 DEF LifecycleStatus, IsKnown
  <2>5. h'.app = a => h'.pc \notin Changing
    BY <1>2, HandlerStepExact DEF Exactly
  <2>6. MayLack(a) => MayLack(a)'
    BY <2>4, <2>5 DEF MayLack
  <2> QED
    BY <2>2, <2>3, <2>6 DEF OrderInv, NoneLacking
<1> QED
  BY <1>1, <1>2

(***************************************************************************)
(* Commands, restarts and the logs leave the containers as they are.       *)
(***************************************************************************)
LEMMA AroundLacksNone ==
  ASSUME ExactInv, OrderInv,
         Command \/ SetLastLogRead \/ Restart \/ UNCHANGED vars
  PROVE  NoneLacking'
<1>1. RecordsTypeOK /\ h \in Handler /\ DiskBehind
  BY DEF ExactInv, Invariants, TypeInv, WellFormed, RefinementInv
<1>2. ctr' = ctr /\ incomplete' = incomplete
  BY DEF Command, DeployNew, DeployUpdate, Stop, Resume, Undeploy, Remove,
         UndeployOrRemove, DeleteNode, SetLastLogRead, Restart, vars, dockerVars,
         historyVars
<1>3. h' = h \/ h'.pc \notin Changing
  <2>1. Command \/ Restart => h'.pc \notin Changing
    BY <1>1, NextPlaces DEF Changing
  <2> QED
    BY <2>1 DEF SetLastLogRead, vars
<1> SUFFICES ASSUME NEW a \in Apps \ incomplete
             PROVE  LacksNone(a)' \/ MayLack(a)'
  BY <1>2 DEF NoneLacking
<1>4. LacksNone(a) \/ MayLack(a)
  BY DEF OrderInv, NoneLacking
<1>5. LacksNone(a) => LacksNone(a)'
  BY <1>2, SameLacks DEF Existing
<1>6. MayLack(a) => LifecycleStatus'[a] = LifecycleStatus[a]
  <2>1. SUFFICES ASSUME MayLack(a)
                 PROVE  known'[a] = known[a]
    BY DEF LifecycleStatus, IsKnown
  <2>2. IsKnown(a) /\ known[a].status \in {"Executing", "Error"}
    BY <2>1 DEF MayLack, LifecycleStatus
  <2>3. ASSUME NEW m \in Manifests, DeployNew(m)
        PROVE  known'[a] = known[a]
    <3>1. a # m.app
      BY <2>2, <2>3 DEF DeployNew, IsDeployed
    <3> QED
      BY <1>1, <2>3, <3>1 DEF DeployNew, AddKnownManifest, RecordsTypeOK
  <2>4. CASE Restart
    <3>1. disk[a] = known[a]
      BY <1>1, <2>2 DEF DiskBehind, HasStatus
    <3> QED
      BY <2>4, <3>1 DEF Restart
  <2>5. CASE ~ Restart /\ ~ \E m \in Manifests : DeployNew(m)
    BY <2>5 DEF Command, DeployUpdate, Stop, Resume, Undeploy, Remove, UndeployOrRemove,
           DeleteNode, SetLastLogRead, vars, agentVars
  <2> QED
    BY <2>3, <2>4, <2>5
<1>7. MayLack(a) => MayLack(a)'
  BY <1>3, <1>6 DEF MayLack
<1> QED
  BY <1>4, <1>5, <1>7

(***************************************************************************)
(* The loop of DEPLOY has started the later modules.                       *)
(***************************************************************************)
LEMMA IndexType ==
  ASSUME NEW d \in Containers
  PROVE  /\ d = [man |-> d.man, net |-> d.net, idx |-> d.idx]
         /\ d.idx \in 1 .. Len(d.man.modules) /\ d.idx \in Nat
         /\ d.man \in Manifests
<1>1. d.man \in Manifests /\ d.idx \in DOMAIN d.man.modules
  BY DEF Containers
<1>2. Len(d.man.modules) \in Nat /\ DOMAIN d.man.modules = 1 .. Len(d.man.modules)
  BY <1>1, ManifestType
<1> QED
  BY <1>1, <1>2 DEF Containers

LEMMA StartLaterRun ==
  ASSUME Invariants, LaterRun, Start
  PROVE  LaterRun'
<1> SUFFICES ASSUME h'.pc \in {"create", "start"}, NEW d \in Containers,
                    SameNetwork(Current', d), d.idx > h'.idx
             PROVE  ctr'[d] = "running"
  BY DEF LaterRun
<1>1. DockerTypeOK /\ WellFormed(h) /\ h \in Handler /\ h.pc = "start"
  BY DEF Invariants, TypeInv, WellFormed, Start
<1>2. h'.pc # "deployed" /\ h'.pc # "undeploy"
  OBVIOUS
<1>3. ~ Goto("deployed") /\ h' # Rollback("rollbackStart")
  BY <1>1, <1>2 DEF Goto, Rollback, Handler
<1>4. StartContainer(Current) /\ h' = [h EXCEPT !.pc = "create", !.idx = @ - 1]
  BY <1>3 DEF Start
<1>5. h'.idx = h.idx - 1 /\ h'.man = h.man /\ h'.net = h.net
  BY <1>1, <1>4 DEF Handler
<1>6. h.idx \in Nat /\ d.idx \in Nat /\ d = [man |-> d.man, net |-> d.net, idx |-> d.idx]
  BY <1>1, IndexType DEF Handler
<1>7. d.idx > h.idx \/ d.idx = h.idx
  BY <1>5, <1>6
<1>8. d.man = h.man /\ d.net = h.net
  BY <1>5 DEF SameNetwork, Current
<1>9. ctr' = [ctr EXCEPT ![Current] = "running"]
  BY <1>4 DEF StartContainer, SetContainer
<1>10. CASE d.idx = h.idx
  <2>1. d = Current
    BY <1>6, <1>8, <1>10 DEF Current
  <2> QED
    BY <1>1, <1>9, <2>1 DEF DockerTypeOK
<1>11. CASE d.idx > h.idx
  <2>1. SameNetwork(Current, d)
    BY <1>8 DEF SameNetwork, Current
  <2>2. ctr[d] = "running"
    BY <1>1, <1>11, <2>1 DEF LaterRun
  <2> QED
    BY <1>1, <1>9, <2>2 DEF DockerTypeOK
<1> QED
  BY <1>7, <1>10, <1>11

LEMMA CreateLaterRun ==
  ASSUME Invariants, LaterRun, Create
  PROVE  LaterRun'
<1> SUFFICES ASSUME h'.pc \in {"create", "start"}, NEW d \in Containers,
                    SameNetwork(Current', d), d.idx > h'.idx
             PROVE  ctr'[d] = "running"
  BY DEF LaterRun
<1>1. DockerTypeOK /\ h \in Handler /\ h.pc = "create"
  BY DEF Invariants, TypeInv, WellFormed, Create
<1>2. h'.pc # "undeploy"
  OBVIOUS
<1>3. h' # Rollback("rollbackStart")
  BY <1>1, <1>2 DEF Rollback, Handler
<1>4. CreateContainer(Current) /\ Goto("start")
  BY <1>3 DEF Create
<1>5. h'.idx = h.idx /\ h'.man = h.man /\ h'.net = h.net
  BY <1>1, <1>4 DEF Goto, Handler
<1>6. SameNetwork(Current, d) /\ d.idx > h.idx
  BY <1>5 DEF SameNetwork, Current
<1>7. h.idx \in Nat /\ d.idx \in Nat
  BY <1>1, IndexType DEF Handler
<1>8. d.idx # h.idx
  BY <1>6, <1>7
<1>9. d # Current
  BY <1>8 DEF Current
<1>10. ctr' = [ctr EXCEPT ![Current] = "created"]
  BY <1>4 DEF CreateContainer, SetContainer
<1>11. ctr[d] = "running"
  BY <1>1, <1>6 DEF LaterRun
<1> QED
  BY <1>1, <1>9, <1>10, <1>11 DEF DockerTypeOK

LEMMA NetworkLaterRun ==
  ASSUME Invariants, CreateNetwork
  PROVE  LaterRun'
<1> SUFFICES ASSUME h'.pc \in {"create", "start"}, NEW d \in Containers,
                    SameNetwork(Current', d), d.idx > h'.idx
             PROVE  FALSE
  BY DEF LaterRun
<1>1. h \in Handler
  BY DEF Invariants, TypeInv, WellFormed
<1>2. h' # Rollback("rollback")
  BY <1>1 DEF Rollback, Handler
<1>3. \E count : h' = [h EXCEPT !.pc = "create", !.net = count,
                                !.idx = Len(h.man.modules)]
  BY <1>2 DEF CreateNetwork, GiveUp
<1>4. h'.man = h.man /\ h'.idx = Len(h.man.modules)
  BY <1>1, <1>3 DEF Handler
<1>5. d.man = h.man
  BY <1>4 DEF SameNetwork, Current
<1>6. Len(d.man.modules) \in Nat
  BY IndexType, ManifestType
<1>7. d.idx \in 1 .. Len(d.man.modules) /\ d.idx > Len(d.man.modules)
  BY <1>4, <1>5, IndexType
<1> QED
  BY <1>6, <1>7

LEMMA StepLaterRun ==
  ASSUME Invariants, LaterRun, Next, ~ ContainersDie, ~ ContainersVanish
  PROVE  LaterRun'
<1>1. h \in Handler
  BY DEF Invariants, TypeInv, WellFormed
<1>2. CASE CreateNetwork \/ Create \/ Start
  BY <1>2, NetworkLaterRun, CreateLaterRun, StartLaterRun
<1>3. CASE AddNewVersion \/ InspectImage \/ Pull \/ FinishDeploy \/ FinishRollback
  <2>1. NextImage => h'.pc \in {"inspect", "network"}
    BY <1>1 DEF NextImage, Goto, Handler
  <2>2. Goto("pull") => h'.pc = "pull"
    BY <1>1 DEF Goto, Handler
  <2>3. h' = Rollback("rollback") => h'.pc = "undeploy"
    BY <1>1 DEF Rollback, Handler
  <2>4. AddNewVersion => h'.pc = "inspect"
    BY DEF AddNewVersion, Idle
  <2>5. h' = Idle => h'.pc = "idle"
    BY DEF Idle
  <2>6. h'.pc \in {"inspect", "network", "pull", "undeploy", "idle"}
    BY <1>3, <2>1, <2>2, <2>3, <2>4, <2>5
       DEF InspectImage, Pull, FinishDeploy, FinishRollback, GiveUp
  <2> QED
    BY <2>6 DEF LaterRun
<1>4. CASE \/ ListToStop \/ StopNext \/ FinishStop
           \/ ListToResume \/ ResumeNext \/ FinishResume
           \/ BeginUndeploy \/ ListToRemove \/ RemoveNext \/ Prune \/ FinishUndeploy
           \/ ListImages \/ ListUsers \/ RemoveImage \/ DeleteRecord
           \/ RemoveNextApp \/ FinishDeleteNode
           \/ Command \/ Restart
  <2>1. h'.pc \notin {"create", "start"}
    BY <1>1, <1>4, NextPlaces DEF ReturnPlaces, Removing, BetweenCommands
  <2> QED
    BY <2>1 DEF LaterRun
<1>5. CASE SetLastLogRead
  BY <1>5 DEF SetLastLogRead, dockerVars, LaterRun, Current
<1> QED
  BY <1>2, <1>3, <1>4, <1>5 DEF Next, Handle, HandlerStep, ContainerChanges

(***************************************************************************)
(* The loop of RESUME has started those no longer on its list.             *)
(***************************************************************************)
LEMMA StepResumedRun ==
  ASSUME Invariants, ResumedRun, Next, ~ ContainersDie, ~ ContainersVanish
  PROVE  ResumedRun'
<1>1. h \in Handler /\ DockerTypeOK
  BY DEF Invariants, TypeInv, WellFormed
<1> SUFFICES ASSUME h'.pc = "resume", NEW a, a = h'.app,
                    NEW c \in ContainersOf(a)', c \notin h'.todo
             PROVE  ctr'[c] = "running"
  BY DEF ResumedRun
<1>2. \/ ListToResume \/ ResumeNext \/ FinishResume \/ SetLastLogRead
  <2>1. "resume" \notin Deploying \cup Removing \cup ReturnPlaces
    BY DEF Deploying, Removing, ReturnPlaces, BetweenCommands
  <2> QED
    BY <1>1, <2>1, NextPlaces DEF Next, Handle, HandlerStep, ContainerChanges
<1>3. ~ FinishResume /\ h' # Idle
  BY DEF FinishResume, Idle
<1>4. CASE ListToResume
  <2>1. /\ ctr' = ctr
        /\ LET todo == {d \in ReadEdgeAppContainers(h.app) : ctr[d] # "running"}
           IN  h' = [h EXCEPT !.todo = todo,
                              !.pc = IF todo = {} THEN "resumed" ELSE "resume"]
    BY <1>3, <1>4 DEF ListToResume, GiveUp, dockerVars
  <2>2. h'.app = h.app
        /\ h'.todo = {d \in ReadEdgeAppContainers(h.app) : ctr[d] # "running"}
    BY <1>1, <2>1 DEF Handler
  <2>3. c \in ReadEdgeAppContainers(h.app)
    BY <2>1, <2>2 DEF ContainersOf, Existing, ReadEdgeAppContainers
  <2> QED
    BY <2>1, <2>2, <2>3
<1>5. CASE ResumeNext
  <2>1. PICK d : /\ CanStart(d) /\ StartContainer(d)
                 /\ h' = [h EXCEPT !.todo = @ \ {d},
                                   !.pc = IF h.todo = {d} THEN "resumed" ELSE @]
    BY <1>3, <1>5 DEF ResumeNext, GiveUp
  <2>2. h'.app = h.app /\ h'.todo = h.todo \ {d}
    BY <1>1, <2>1 DEF Handler
  <2>3. ctr' = [ctr EXCEPT ![d] = "running"]
    BY <2>1 DEF StartContainer, SetContainer
  <2>4. CASE c = d
    BY <1>1, <2>3, <2>4 DEF DockerTypeOK, ContainersOf, Existing
  <2>5. CASE c # d
    <3>1. ctr'[c] = ctr[c]
      BY <2>3, <2>5
    <3>2. c \in ContainersOf(h.app) \ h.todo
      BY <2>2, <2>5, <3>1 DEF ContainersOf, Existing
    <3> QED
      BY <1>5, <3>1, <3>2 DEF ResumedRun, ResumeNext
  <2> QED
    BY <2>4, <2>5
<1>6. CASE SetLastLogRead
  <2>1. h' = h /\ ctr' = ctr
    BY <1>6 DEF SetLastLogRead, dockerVars
  <2>2. c \in ContainersOf(h.app)
    BY <2>1 DEF ContainersOf, Existing
  <2> QED
    BY <2>1, <2>2 DEF ResumedRun
<1> QED
  BY <1>2, <1>3, <1>4, <1>5, <1>6

(***************************************************************************)
(* The removal that reports no error has left nothing.                     *)
(***************************************************************************)
LEMMA StepAddEmpty ==
  ASSUME Invariants, AddEmpty, Next, ~ ContainersDie, ~ ContainersVanish
  PROVE  AddEmpty'
<1>1. h \in Handler
  BY DEF Invariants, TypeInv, WellFormed
<1> SUFFICES ASSUME h'.pc = "add", ~ h'.failed, NEW a, a = h'.app
             PROVE  ContainersOf(a)' = {}
  BY DEF AddEmpty
<1>2. h' # Returned(TRUE)
  BY <1>1, ReturnedFailed
<1>3. h' # Idle
  BY DEF Idle
<1>4. \/ BeginUndeploy \/ ListToRemove \/ RemoveNext \/ Prune \/ FinishUndeploy
      \/ ListImages \/ ListUsers \/ RemoveImage \/ DeleteRecord
      \/ RemoveNextApp \/ FinishDeleteNode \/ SetLastLogRead
  <2>1. "add" \notin Deploying
    BY DEF Deploying
  <2> QED
    BY <1>1, <2>1, NextPlaces DEF Next, Handle, HandlerStep, ContainerChanges
<1>5. ~ BeginUndeploy /\ ~ ListToRemove /\ ~ RemoveNext /\ ~ Prune
  <2>1. ~ BeginUndeploy
    BY <1>1 DEF BeginUndeploy, Handler
  <2>2. \A todo : RemoveLoop(todo).pc # "add" /\ Noted(RemoveLoop(todo)).pc # "add"
    BY <1>1 DEF RemoveLoop, Noted, Handler
  <2>3. ~ ListToRemove /\ ~ RemoveNext
    BY <1>2, <2>2 DEF ListToRemove, RemoveNext, GiveUp
  <2>4. [h EXCEPT !.pc = "undeployed"].pc # "add"
    BY <1>1 DEF Handler
  <2> QED
    BY <1>2, <2>1, <2>3, <2>4 DEF Prune, GiveUp
<1>6. ~ FinishUndeploy /\ ~ RemoveNextApp /\ ~ FinishDeleteNode
  <2>1. ~ Goto("listImages") /\ ~ Goto("deleteNode")
    BY <1>1 DEF Goto, Handler
  <2>2. \A b : [h EXCEPT !.pc = "undeploy", !.app = b].pc # "add"
    BY <1>1 DEF Handler
  <2> QED
    BY <1>3, <2>1, <2>2 DEF FinishUndeploy, RemoveNextApp, FinishDeleteNode
<1>7. ~ ListImages /\ ~ ListUsers /\ ~ RemoveImage
  <2>1. ~ Goto("deleteRecord")
    BY <1>1 DEF Goto, Handler
  <2>2. \A u : [h EXCEPT !.pc = "listUsers", !.unused = u].pc # "add"
    BY <1>1 DEF Handler
  <2>3. \A u : [h EXCEPT !.unused = u, !.pc = IF u = {} THEN "deleteRecord"
                                                       ELSE "removeImage"].pc # "add"
    BY <1>1 DEF Handler
  <2>4. ~ ListImages /\ ~ ListUsers
    BY <1>2, <2>1, <2>2, <2>3 DEF ListImages, ListUsers, GiveUp
  <2>5. ~ RemoveImage
    <3> SUFFICES ASSUME RemoveImage
                 PROVE  FALSE
      OBVIOUS
    <3>1. PICK i \in h.unused, err \in BOOLEAN :
             LET rest == [h EXCEPT !.unused = @ \ {i}, !.failed = @ \/ err]
             IN  h' = IF rest.unused # {} THEN rest ELSE AfterImages(rest)
      BY DEF RemoveImage
    <3> DEFINE rest == [h EXCEPT !.unused = @ \ {i}, !.failed = @ \/ err]
    <3>2. rest.pc = "removeImage"
      BY <1>1 DEF RemoveImage, Handler
    <3>3. rest \in Handler
      BY <1>1 DEF Handler
    <3> HIDE DEF rest
    <3>4. [rest EXCEPT !.pc = "deleteRecord"].pc = "deleteRecord"
      BY <3>3 DEF Handler
    <3>5. h' = rest \/ h' = AfterImages(rest)
      BY <3>1 DEF rest
    <3> QED
      BY <1>2, <3>2, <3>4, <3>5 DEF AfterImages
  <2> QED
    BY <2>4, <2>5
<1>8. CASE DeleteRecord
  <2>1. h' = Returned(FALSE) /\ h.pc = "deleteRecord" /\ ctr' = ctr
    BY <1>2, <1>8 DEF DeleteRecord, dockerVars
  <2>2. h'.app = h.app
    BY <1>1, <2>1, ReturnedPlace DEF BetweenCommands
  <2>3. ContainersOf(h.app) = {}
    BY <2>1 DEF Invariants, OrphanInv, NothingLeft, Emptied, HasObjects
  <2> QED
    BY <2>1, <2>2, <2>3 DEF ContainersOf, Existing
<1>9. CASE SetLastLogRead
  BY <1>9 DEF SetLastLogRead, dockerVars, AddEmpty, ContainersOf, Existing
<1> QED
  BY <1>4, <1>5, <1>6, <1>7, <1>8, <1>9

LEMMA StepOrder ==
  ASSUME Invariants, AtHandExact, UpIsComplete, OrderInv, [Next]_vars,
         ~ ContainersDie, ~ ContainersVanish
  PROVE  OrderInv'
<1>1. CASE Next
  <2>1. NoneLacking'
    <3>1. ~ ContainerChanges
      BY DEF ContainerChanges
    <3>2. \/ HandlerStep
          \/ Command \/ SetLastLogRead \/ Restart
      BY <1>1, <3>1 DEF Next, Handle
    <3> QED
      BY <3>2, HandlerLacksNone, AroundLacksNone DEF ExactInv
  <2> QED
    BY <1>1, <2>1, StepLaterRun, StepResumedRun, StepAddEmpty DEF OrderInv
<1>2. CASE UNCHANGED vars
  <2>1. NoneLacking'
    BY <1>2, AroundLacksNone DEF ExactInv
  <2>2. h' = h /\ ctr' = ctr
    BY <1>2 DEF vars
  <2>3. LaterRun' /\ ResumedRun' /\ AddEmpty'
    BY <2>2 DEF OrderInv, LaterRun, Current, ResumedRun, AddEmpty, ContainersOf, Existing
  <2> QED
    BY <2>1, <2>3 DEF OrderInv
<1> QED
  BY <1>1, <1>2

(***************************************************************************)
(* Which steps start a container.                                          *)
(***************************************************************************)
LEMMA OnlyTheseStart ==
  ASSUME DockerTypeOK, Next, ~ ContainersDie, ~ ContainersVanish,
         NEW c \in Containers, Starts(c)
  PROVE  \/ Start /\ c = Current
         \/ ResumeNext /\ c \in LastOf(h.todo) /\ CanStart(c)
<1>1. ctr' # ctr
  BY DEF Starts
<1>2. \A d, state : SetContainer(d, state) => d = c /\ state = "running"
  BY DEF SetContainer, DockerTypeOK, Starts
<1>3. UNCHANGED dockerVars => ctr' = ctr
  BY DEF dockerVars
<1>4. "running" \notin {"created", "exited", Absent}
  BY DEF Absent
<1>5. CASE Start
  BY <1>1, <1>2, <1>3, <1>5 DEF Start, StartContainer
<1>6. CASE ResumeNext
  <2>1. PICK d \in LastOf(h.todo) :
           \/ CanStart(d) /\ StartContainer(d)
           \/ UNCHANGED dockerVars
    BY <1>6 DEF ResumeNext
  <2>2. CanStart(d) /\ SetContainer(d, "running")
    BY <1>1, <1>3, <2>1 DEF StartContainer
  <2> QED
    BY <1>2, <1>6, <2>2
<1>7. ~ Create /\ ~ StopNext /\ ~ RemoveNext
  <2>1. \A d : ~ CreateContainer(d) /\ ~ StopContainer(d) /\ ~ RemoveContainer(d)
    BY <1>2, <1>4 DEF CreateContainer, StopContainer, RemoveContainer
  <2>2. \A d : ~ FailToRemoveContainer(d)
    BY <1>1, <1>3, <2>1 DEF FailToRemoveContainer
  <2> QED
    BY <1>1, <1>3, <2>1, <2>2 DEF Create, StopNext, RemoveNext
<1>8. (\/ AddNewVersion \/ InspectImage \/ Pull \/ CreateNetwork
       \/ FinishDeploy \/ FinishRollback \/ ListToStop \/ FinishStop
       \/ ListToResume \/ FinishResume
       \/ BeginUndeploy \/ ListToRemove \/ Prune \/ FinishUndeploy
       \/ ListImages \/ ListUsers \/ RemoveImage \/ DeleteRecord
       \/ RemoveNextApp \/ FinishDeleteNode)
      => ctr' = ctr
  BY <1>3
     DEF AddNewVersion, InspectImage, Pull, CreateNetwork, FinishDeploy,
         FinishRollback, ListToStop, FinishStop, ListToResume, FinishResume,
         BeginUndeploy, ListToRemove, Prune, FinishUndeploy, ListImages, ListUsers,
         RemoveImage, DeleteRecord, RemoveNextApp, FinishDeleteNode, PullImage,
         ImageRemove, NetworkCreate, NetworkPrune
<1>9. Command \/ SetLastLogRead \/ Restart => ctr' = ctr
  BY <1>3
     DEF Command, DeployNew, DeployUpdate, Stop, Resume, Undeploy, Remove,
         UndeployOrRemove, DeleteNode, SetLastLogRead, Restart
<1> QED
  BY <1>1, <1>5, <1>6, <1>7, <1>8, <1>9
     DEF Next, Handle, HandlerStep, ContainerChanges

(***************************************************************************)
(* A module is started, by DEPLOY, an update or RESUME, only after the     *)
(* modules that follow it in its manifest, as long as containers do not    *)
(* stop or disappear on their own -- but for what an update left of a      *)
(* version that it could not remove.                                       *)
(***************************************************************************)
THEOREM LastModuleFirst ==
  ASSUME ~ ContainersDie, ~ ContainersVanish
  PROVE  Spec => StartsLastFirst
<1> DEFINE Inv == ExactInv /\ OrderInv
           InOrder == \A c \in Containers : Starts(c) =>
                         \A d \in Containers : SameNetwork(c, d) /\ d.idx > c.idx =>
                            ctr[d] = "running" \/ c.man.app \in incomplete
<1>1. Init => Inv
  <2>1. Init => Invariants
    BY InitRefines
  <2>2. Init => AtHandExact /\ UpIsComplete
    BY EdgeAppAssumption
       DEF Init, AtHandExact, UpIsComplete, IsUp, LifecycleStatus, IsKnown, Idle
  <2>3. Init => \A a : ContainersOf(a) = {}
    BY DEF Init, DockerInit, ContainersOf, Existing
  <2>4. Init => OrderInv
    BY <2>3
       DEF Init, OrderInv, NoneLacking, LacksNone, LaterRun, ResumedRun, AddEmpty, Idle
  <2> QED
    BY <2>1, <2>2, <2>4 DEF ExactInv
<1>2. Inv /\ [Next]_vars => Inv'
  BY StepExact, StepOrder DEF ExactInv
<1>3. Inv /\ Next => InOrder
  <2> SUFFICES ASSUME Inv, Next, NEW c \in Containers, NEW d \in Containers, Starts(c),
                      SameNetwork(c, d), d.idx > c.idx, c.man.app \notin incomplete
               PROVE  ctr[d] = "running"
    OBVIOUS
  <2>1. DockerTypeOK /\ WellFormed(h)
    BY DEF ExactInv, Invariants, TypeInv
  <2>2. CASE Start /\ c = Current
    <3>1. d.idx > h.idx /\ h.pc = "start"
      BY <2>2 DEF Current, Start
    <3> QED
      BY <2>2, <3>1 DEF OrderInv, LaterRun
  <2>3. CASE ResumeNext /\ c \in LastOf(h.todo) /\ CanStart(c)
    <3>1. h.pc = "resume" /\ c \in h.todo /\ ctr[c] # Absent
      BY <2>3 DEF ResumeNext, LastOf, CanStart
    <3>2. c.man.app = h.app /\ d.man.app = h.app
      BY <3>1 DEF ExactInv, Invariants, RefinementInv, OwnContainers, SameNetwork
    <3>3. h.app \in Apps \ incomplete
      BY <2>1, <3>1, <3>2 DEF WellFormed
    <3>4. LacksNone(h.app)
      BY <3>1, <3>3, WorkedOnLacksNone DEF Changing
    <3>5. c \in ContainersOf(h.app)
      BY <3>1, <3>2 DEF ContainersOf, Existing
    <3>6. ctr[d] # Absent
      BY <3>4, <3>5 DEF LacksNone, Later
    <3>7. d \in ContainersOf(h.app)
      BY <3>2, <3>6 DEF ContainersOf, Existing
    <3>8. d \notin h.todo
      <4>1. d \in h.todo => c.idx >= d.idx
        BY <2>3 DEF LastOf
      <4>2. c.idx \in Nat /\ d.idx \in Nat
        BY IndexType
      <4> QED
        BY <4>1, <4>2
    <3> QED
      BY <3>1, <3>7, <3>8 DEF OrderInv, ResumedRun
  <2> QED
    BY <2>1, <2>2, <2>3, OnlyTheseStart
<1>4. Inv /\ [Next]_vars => [InOrder]_vars
  BY <1>3
<1> QED
  BY <1>1, <1>2, <1>4, PTL DEF Spec, StartsLastFirst
=============================================================================
