------------------------------- MODULE EdgeApp -------------------------------
(***************************************************************************)
(* The orchestration of edge apps: the handlers of the commands DEPLOY,    *)
(* STOP, RESUME, UNDEPLOY and REMOVE and of the deletion of the node       *)
(* (internal/edgeapp/edgeapp.go, internal/handler), the records they keep  *)
(* in memory and on disk (internal/manifest/status.go), on a docker host   *)
(* whose calls may fail, with containers that stop on their own, and an    *)
(* agent that may be killed between any two steps.                         *)
(*                                                                         *)
(* Covered: one step per docker call, with the bookkeeping that follows    *)
(* it; every early return; the rollbacks; the update to a newer version;   *)
(* what survives a restart.  The MQTT client delivers one message at a     *)
(* time and waits for its handler, so there is one handler process.        *)
(*                                                                         *)
(* Not covered: the publication of status messages and logs (only that the *)
(* SendStatus which RemoveEdgeApp depends on may fail), secrets, and the   *)
(* parsing of messages.  A command that is rejected before it changes      *)
(* anything (unknown edge app, wrong status, no newer version) is a step   *)
(* that changes nothing and is not written down.                           *)
(***************************************************************************)
EXTENDS Docker

CONSTANTS NoApp, NoManifest,   \* the handler has no edge app, no manifest
          MaxFaults,           \* bound on calls that fail for no visible reason
          MaxRestarts,         \* bound on restarts of the agent
          ContainersDie,       \* do containers exit or fail on their own?
          ContainersVanish     \* are containers removed by hand?

ASSUME EdgeAppAssumption ==
    /\ NoApp \notin Apps
    /\ NoManifest \notin Manifests
    /\ MaxFaults \in Nat
    /\ MaxRestarts \in Nat
    /\ ContainersDie \in BOOLEAN
    /\ ContainersVanish \in BOOLEAN

VARIABLES known,        \* knownManifests, in memory
          disk,         \* known_manifests.jsonl
          nodeStatus,   \* status of the node in the status messages
          h,            \* the handler of the message being processed
          faults,       \* number of failed calls so far
          restarts,     \* number of restarts so far
          interrupted,  \* history: edge apps whose command was cut off
          incomplete    \* history: edge apps whose old version was not
                        \* removed completely before the update went on

vars == <<images, networks, ctr, known, disk, nodeStatus, h, faults, restarts,
          interrupted, incomplete>>

agentVars == <<known, disk, nodeStatus>>
historyVars == <<interrupted, incomplete>>
-----------------------------------------------------------------------------
(***************************************************************************)
(* The handler: what it does next (pc), for which edge app and manifest,   *)
(* and why it undeploys (mode): for a command ("undeploy", "remove"), to   *)
(* make room for a newer version ("update"), to roll a deployment back     *)
(* before or after containers were created ("rollback", "rollbackStart"),  *)
(* or to delete the node ("removeAll").  idx counts modules, net is the    *)
(* number of the network, todo and unused are what is left of the          *)
(* containers and images to handle, failed says that errorlist is not "".  *)
(***************************************************************************)
PC == {"idle",
       "add", "inspect", "pull", "network", "create", "start", "deployed",
       "listToStop", "stop", "stopped", "listToResume", "resume", "resumed",
       "undeploy", "listToRemove", "removeContainer", "prune", "undeployed",
       "listImages", "listUsers", "removeImage", "deleteRecord",
       "rolledBack", "nextApp", "deleteNode"}

Mode == {"none", "undeploy", "remove", "update", "rollback", "rollbackStart",
         "removeAll"}

Handler == [pc : PC, mode : Mode, app : Apps \cup {NoApp},
            man : Manifests \cup {NoManifest},
            idx : Nat, net : NetworkCounts,
            todo : SUBSET Containers, unused : SUBSET ImageIDs,
            failed : BOOLEAN]

Idle == [pc |-> "idle", mode |-> "none", app |-> NoApp, man |-> NoManifest,
         idx |-> 0, net |-> 0, todo |-> {}, unused |-> {}, failed |-> FALSE]

NodeStatus == {"Connected", "Deleted"}

TypeOK ==
    /\ DockerTypeOK
    /\ known \in [Apps -> ManifestRecord \cup {NoRecord}]
    /\ disk \in [Apps -> ManifestRecord \cup {NoRecord}]
    /\ nodeStatus \in NodeStatus
    /\ h \in Handler
    /\ faults \in 0 .. MaxFaults
    /\ restarts \in 0 .. MaxRestarts
    /\ interrupted \subseteq Apps
    /\ incomplete \subseteq Apps

Init ==
    /\ DockerInit
    /\ known = [a \in Apps |-> NoRecord]
    /\ disk = known
    /\ nodeStatus = "Connected"
    /\ h = Idle
    /\ faults = 0
    /\ restarts = 0
    /\ interrupted = {}
    /\ incomplete = {}
-----------------------------------------------------------------------------
(* Helpers *)

IsKnown(a) == known[a] # NoRecord
HasStatus(a, s) == IsKnown(a) /\ known[a].status = s

\* Mutant: the status is set in memory only.
SetStatusUnsaved(a, s) ==
    IF IsKnown(a)
    THEN /\ known' = [known EXCEPT ![a] = [man |-> @.man, status |-> s]]
         /\ UNCHANGED <<disk, nodeStatus>>
    ELSE UNCHANGED agentVars

\* setAndSendStatus: logged and skipped when the edge app is not known.
SetStatus(a, s) ==
    IF IsKnown(a)
    THEN /\ known' = [known EXCEPT ![a] = [man |-> @.man, status |-> s]]
         /\ disk' = known'
         /\ UNCHANGED nodeStatus
    ELSE UNCHANGED agentVars

\* AddKnownManifest: replaces any record; in memory only.
AddKnownManifest(m) ==
    /\ known' = [known EXCEPT ![m.app] = [man |-> m, status |-> "Initiated"]]
    /\ UNCHANGED <<disk, nodeStatus>>

Goto(l) == h' = [h EXCEPT !.pc = l]

\* A call that fails although nothing visible stands in its way.
Fault == faults < MaxFaults /\ faults' = faults + 1
NoFault == UNCHANGED faults

\* Mutant: the images of the new version are not spared.
keepNoImages == {}

\* subtractArray is called with the images of the new version, or with none.
keepImages == IF h.mode = "update" THEN ImagesOf(h.man) ELSE {}

\* Mutant: the removal of all edge apps drops the error of RemoveEdgeApp.
ReturnedDroppingError(err) ==
    IF h.mode = "update" THEN [h EXCEPT !.pc = "add", !.failed = err]
    ELSE IF h.mode = "rollbackStart" THEN [h EXCEPT !.pc = "rolledBack"]
    ELSE IF h.mode = "removeAll"
         THEN [Idle EXCEPT !.pc = IF err THEN "deleteNode" ELSE "nextApp",
                           !.mode = "removeAll"]
    ELSE Idle

(***************************************************************************)
(* Where UndeployEdgeApp or RemoveEdgeApp returns to.  An update goes on   *)
(* to the new version whether or not the old one was removed               *)
(* (edgeapp.go:39 drops the error), a rollback after a container failed    *)
(* sets the status once more (109), the removal of all edge apps ends at   *)
(* the first error (357).                                                  *)
(***************************************************************************)
Returned(err) ==
    IF h.mode = "update" THEN [h EXCEPT !.pc = "add", !.failed = err]
    ELSE IF h.mode = "rollbackStart" THEN [h EXCEPT !.pc = "rolledBack"]
    ELSE IF h.mode = "removeAll"
         THEN [Idle EXCEPT !.pc = IF err THEN "deleteNode" ELSE "nextApp",
                           !.mode = "removeAll", !.failed = err]
    ELSE Idle

\* Mutant: an early return that forgets the status.
GiveUpSilently(n) == h' = n /\ UNCHANGED agentVars

\* The call failed: status Error, and the handler returns or goes on with n.
GiveUp(n) == SetStatus(h.app, "Error") /\ h' = n

Rollback(mode) == [h EXCEPT !.pc = "undeploy", !.mode = mode]
-----------------------------------------------------------------------------
(* DEPLOY *)

\* Mutant: only a Running edge app counts as deployed.
IsDeployedIfRunning(a) == HasStatus(a, "Running")

IsDeployed(a) == IsKnown(a) /\ known[a].status # "Undeployed"

\* Mutant: the comparison the wrong way round.
IsOlder(m) == known[m.app].man.updatedAt > m.updatedAt

\* Before: an edge app that is deployed is replaced by a newer version only.
IsNewer(m) == known[m.app].man.updatedAt < m.updatedAt

\* The edge app is not on the node, or undeployed.
DeployNew(m) ==
    /\ h.pc = "idle"
    /\ ~ IsDeployed(m.app)
    /\ AddKnownManifest(m)
    /\ h' = [Idle EXCEPT !.pc = "inspect", !.app = m.app, !.man = m, !.idx = 1]
    /\ UNCHANGED <<dockerVars, faults, historyVars>>

\* A newer version of a deployed edge app: the old version is removed first.
DeployUpdate(m) ==
    /\ h.pc = "idle"
    /\ IsDeployed(m.app) /\ IsNewer(m)
    /\ h' = [Idle EXCEPT !.pc = "undeploy", !.mode = "update",
                         !.app = m.app, !.man = m]
    /\ UNCHANGED <<dockerVars, agentVars, faults, historyVars>>

\* Back from the removal of the old version, whatever became of it.
AddNewVersion ==
    /\ h.pc = "add"
    /\ AddKnownManifest(h.man)
    /\ h' = [Idle EXCEPT !.pc = "inspect", !.app = h.app, !.man = h.man, !.idx = 1]
    /\ incomplete' = incomplete \cup (IF h.failed THEN {h.app} ELSE {})
    /\ UNCHANGED <<dockerVars, faults, interrupted>>

NextImage ==
    IF h.idx < Len(h.man.modules)
    THEN h' = [h EXCEPT !.pc = "inspect", !.idx = @ + 1]
    ELSE Goto("network")

(***************************************************************************)
(* ImageExists.  If it fails, the deployment ends at once: no status is    *)
(* set, nothing is rolled back, the record stays Initiated (53-56).        *)
(***************************************************************************)
InspectImage ==
    /\ h.pc = "inspect"
    /\ \/ /\ NoFault
          /\ IF ImageExists(h.man.modules[h.idx]) THEN NextImage ELSE Goto("pull")
       \/ Fault /\ h' = Idle
    /\ UNCHANGED <<dockerVars, agentVars, historyVars>>

(***************************************************************************)
(* PullImage.  Docker reports an error that occurs during the transfer as  *)
(* an event of the stream, which the code logs at most: the pull counts as *)
(* successful and the image is missing (second disjunct).                  *)
(***************************************************************************)
Pull ==
    /\ h.pc = "pull"
    /\ \/ NoFault /\ PullImage(h.man.modules[h.idx]) /\ NextImage /\ UNCHANGED agentVars
       \/ Fault /\ NextImage /\ UNCHANGED <<dockerVars, agentVars>>
       \/ Fault /\ GiveUp(Rollback("rollback")) /\ UNCHANGED dockerVars
    /\ UNCHANGED historyVars

CreateNetwork ==
    /\ h.pc = "network"
    /\ LET count == makeNetworkCount(ExistingNetworkCounts)
       IN  \/ /\ count # NoCount
              /\ NetworkCreate([app |-> h.app, num |-> count])
              /\ h' = [h EXCEPT !.pc = "create", !.net = count,
                                !.idx = Len(h.man.modules)]
              /\ NoFault
              /\ UNCHANGED agentVars
           \/ /\ IF count = NoCount THEN NoFault ELSE Fault
              /\ GiveUp(Rollback("rollback"))
              /\ UNCHANGED dockerVars
    /\ UNCHANGED historyVars

\* The container of the module at hand.
Current == [man |-> h.man, net |-> h.net, idx |-> h.idx]

Create ==
    /\ h.pc = "create"
    /\ \/ /\ CanCreate(Current) /\ CreateContainer(Current)
          /\ Goto("start")
          /\ NoFault
       \/ /\ IF CanCreate(Current) THEN Fault ELSE NoFault
          /\ h' = Rollback("rollbackStart")
          /\ UNCHANGED dockerVars
    /\ UNCHANGED <<agentVars, historyVars>>

\* Mutant: the loop ends one module too early.
AllButFirstStarted == h.idx <= 2

\* The loop counts down to the first module.
AllStarted == h.idx = 1

\* From the last module to the first.
Start ==
    /\ h.pc = "start"
    /\ \/ /\ CanStart(Current) /\ StartContainer(Current)
          /\ IF AllStarted THEN Goto("deployed")
                           ELSE h' = [h EXCEPT !.pc = "create", !.idx = @ - 1]
          /\ NoFault
       \/ /\ IF CanStart(Current) THEN Fault ELSE NoFault
          /\ h' = Rollback("rollbackStart")
          /\ UNCHANGED dockerVars
    /\ UNCHANGED <<agentVars, historyVars>>

FinishDeploy ==
    /\ h.pc = "deployed"
    /\ SetStatus(h.app, "Running")
    /\ h' = Idle
    /\ UNCHANGED <<dockerVars, faults, historyVars>>

\* After the rollback of a failed container; the record is normally gone.
FinishRollback ==
    /\ h.pc = "rolledBack"
    /\ GiveUp(Idle)
    /\ UNCHANGED <<dockerVars, faults, historyVars>>
-----------------------------------------------------------------------------
(* STOP and RESUME *)

Stop(a) ==
    /\ h.pc = "idle"
    /\ HasStatus(a, "Running")
    /\ h' = [Idle EXCEPT !.pc = "listToStop", !.app = a]
    /\ UNCHANGED <<dockerVars, agentVars, faults, historyVars>>

\* The loop acts on the states of this list, not on the current ones.
ListToStop ==
    /\ h.pc = "listToStop"
    /\ \/ Fault /\ h' = Idle /\ UNCHANGED agentVars
       \/ /\ NoFault
          /\ ReadEdgeAppContainers(h.app) = {}
          /\ GiveUp(Idle)
       \/ /\ NoFault
          /\ ReadEdgeAppContainers(h.app) # {}
          /\ SetStatus(h.app, "Executing")
          /\ LET todo == {c \in ReadEdgeAppContainers(h.app) : ctr[c] = "running"}
             IN  h' = [h EXCEPT !.todo = todo,
                                !.pc = IF todo = {} THEN "stopped" ELSE "stop"]
    /\ UNCHANGED <<dockerVars, historyVars>>

StopNext ==
    /\ h.pc = "stop"
    /\ \E c \in HeadOf(h.todo) :
         \/ /\ CanStop(c) /\ StopContainer(c)
            /\ h' = [h EXCEPT !.todo = @ \ {c},
                              !.pc = IF h.todo = {c} THEN "stopped" ELSE @]
            /\ NoFault
            /\ UNCHANGED agentVars
         \/ /\ IF CanStop(c) THEN Fault ELSE NoFault
            /\ GiveUp(Idle)
            /\ UNCHANGED dockerVars
    /\ UNCHANGED historyVars

FinishStop ==
    /\ h.pc = "stopped"
    /\ SetStatus(h.app, "Stopped")
    /\ h' = Idle
    /\ UNCHANGED <<dockerVars, faults, historyVars>>

Resume(a) ==
    /\ h.pc = "idle"
    /\ HasStatus(a, "Stopped")
    /\ h' = [Idle EXCEPT !.pc = "listToResume", !.app = a]
    /\ UNCHANGED <<dockerVars, agentVars, faults, historyVars>>

ListToResume ==
    /\ h.pc = "listToResume"
    /\ \/ Fault /\ GiveUp(Idle)
       \/ /\ NoFault
          /\ ReadEdgeAppContainers(h.app) = {}
          /\ GiveUp(Idle)
       \/ /\ NoFault
          /\ ReadEdgeAppContainers(h.app) # {}
          /\ SetStatus(h.app, "Executing")
          /\ LET todo == {c \in ReadEdgeAppContainers(h.app) : ctr[c] # "running"}
             IN  h' = [h EXCEPT !.todo = todo,
                                !.pc = IF todo = {} THEN "resumed" ELSE "resume"]
    /\ UNCHANGED <<dockerVars, historyVars>>

\* From the end of the list: the last module first.
ResumeNext ==
    /\ h.pc = "resume"
    /\ \E c \in LastOf(h.todo) :
         \/ /\ CanStart(c) /\ StartContainer(c)
            /\ h' = [h EXCEPT !.todo = @ \ {c},
                              !.pc = IF h.todo = {c} THEN "resumed" ELSE @]
            /\ NoFault
            /\ UNCHANGED agentVars
         \/ /\ IF CanStart(c) THEN Fault ELSE NoFault
            /\ GiveUp(Idle)
            /\ UNCHANGED dockerVars
    /\ UNCHANGED historyVars

FinishResume ==
    /\ h.pc = "resumed"
    /\ SetStatus(h.app, "Running")
    /\ h' = Idle
    /\ UNCHANGED <<dockerVars, faults, historyVars>>
-----------------------------------------------------------------------------
(* UNDEPLOY *)

\* Mutant: an edge app that is being worked on is refused.
MayUndeployAtRest(a) == IsKnown(a) /\ known[a].status # "Executing"

\* UNDEPLOY and REMOVE of an edge app that is not known are rejected.
MayUndeploy(a) == IsKnown(a)

UndeployOrRemove(a, mode) ==
    /\ h.pc = "idle"
    /\ MayUndeploy(a)
    /\ h' = [Idle EXCEPT !.pc = "undeploy", !.mode = mode, !.app = a]
    /\ UNCHANGED <<dockerVars, agentVars, faults, historyVars>>

Undeploy(a) == UndeployOrRemove(a, "undeploy")
Remove(a) == UndeployOrRemove(a, "remove")

BeginUndeploy ==
    /\ h.pc = "undeploy"
    /\ SetStatus(h.app, "Executing")
    /\ h' = [h EXCEPT !.pc = "listToRemove", !.failed = FALSE]
    /\ UNCHANGED <<dockerVars, faults, historyVars>>

\* Mutant: the loop is entered with nothing to remove, and never left.
RemoveLoopAlways(todo) == [h EXCEPT !.todo = todo, !.pc = "removeContainer"]

RemoveLoop(todo) ==
    [h EXCEPT !.todo = todo, !.pc = IF todo = {} THEN "prune" ELSE "removeContainer"]

ListToRemove ==
    /\ h.pc = "listToRemove"
    /\ \/ /\ NoFault
          /\ h' = RemoveLoop(ReadEdgeAppContainers(h.app))
          /\ UNCHANGED agentVars
       \/ Fault /\ GiveUp(Returned(TRUE))
    /\ UNCHANGED <<dockerVars, historyVars>>

\* Mutant: an error in the loop is logged only.
NotNoted(n) == n

\* errorlist is extended.
Noted(n) == [n EXCEPT !.failed = TRUE]

\* An error is noted and the loop goes on with the next container.
RemoveNext ==
    /\ h.pc = "removeContainer"
    /\ \E c \in HeadOf(h.todo) :
         LET rest == RemoveLoop(h.todo \ {c})
         IN  \/ /\ CanRemove(c) /\ RemoveContainer(c)
                /\ h' = rest
                /\ NoFault
                /\ UNCHANGED agentVars
             \/ /\ FailToRemoveContainer(c)
                /\ IF CanRemove(c) THEN Fault ELSE NoFault
                /\ GiveUp(Noted(rest))
    /\ UNCHANGED historyVars

Prune ==
    /\ h.pc = "prune"
    /\ \/ /\ NetworkPrune(h.app)
          /\ NoFault
          /\ h' = IF h.failed THEN Returned(TRUE) ELSE [h EXCEPT !.pc = "undeployed"]
          /\ UNCHANGED agentVars
       \/ Fault /\ GiveUp(Returned(TRUE)) /\ UNCHANGED dockerVars
    /\ UNCHANGED historyVars

FinishUndeploy ==
    /\ h.pc = "undeployed"
    /\ SetStatus(h.app, "Undeployed")
    /\ IF h.mode = "undeploy" THEN h' = Idle ELSE Goto("listImages")
    /\ interrupted' = interrupted \ {h.app}
    /\ incomplete' = incomplete \ {h.app}
    /\ UNCHANGED <<dockerVars, faults>>
-----------------------------------------------------------------------------
(* REMOVE: what follows the undeployment *)

\* The names of images in the record, but those that are to be kept.
removeImageNames == ImagesOf(known[h.app].man) \ keepImages

(***************************************************************************)
(* Names are subtracted from names; from here on it is IDs that matter: of *)
(* every image that a name to remove matches.                              *)
(***************************************************************************)
ListImages ==
    /\ h.pc = "listImages"
    /\ \/ /\ removeImageNames = {}
          /\ Goto("deleteRecord")
          /\ NoFault
          /\ UNCHANGED agentVars
       \/ /\ removeImageNames # {}
          /\ h' = [h EXCEPT !.pc = "listUsers",
                            !.unused = GetImagesByName(removeImageNames)]
          /\ NoFault
          /\ UNCHANGED agentVars
       \/ /\ removeImageNames # {}
          /\ Fault
          /\ GiveUp(Returned(TRUE))
    /\ UNCHANGED <<dockerVars, historyVars>>

\* Mutant: only running containers count as users.
HasNoRunningUser(i) == \A c \in UsersOf(i) : ctr[c] # "running"

HasNoUser(i) == UsersOf(i) = {}

\* ReadAllContainers: images that a container of any edge app uses are spared.
ListUsers ==
    /\ h.pc = "listUsers"
    /\ \/ /\ LET unused == {i \in h.unused : HasNoUser(i)}
             IN  h' = [h EXCEPT !.unused = unused,
                         !.pc = IF unused = {} THEN "deleteRecord" ELSE "removeImage"]
          /\ NoFault
          /\ UNCHANGED agentVars
       \/ Fault /\ GiveUp(Returned(TRUE))
    /\ UNCHANGED <<dockerVars, historyVars>>

\* Mutant: the record is deleted although an image could not be removed.
AfterImagesAlways(n) == [n EXCEPT !.pc = "deleteRecord"]

AfterImages(n) ==
    IF n.failed THEN Returned(TRUE) ELSE [n EXCEPT !.pc = "deleteRecord"]

\* In the random order of a map; an error is noted and the loop goes on.
RemoveImage ==
    /\ h.pc = "removeImage"
    /\ \E i \in h.unused, err \in BOOLEAN :
         LET rest == [h EXCEPT !.unused = @ \ {i}, !.failed = @ \/ err]
         IN  /\ IF err THEN /\ IF MayRefuseImage(i) THEN NoFault ELSE Fault
                            /\ SetStatus(h.app, "Error")
                            /\ UNCHANGED dockerVars
                       ELSE /\ CanRemoveImage(i) /\ ImageRemove(i)
                            /\ NoFault
                            /\ UNCHANGED agentVars
             /\ h' = IF rest.unused # {} THEN rest ELSE AfterImages(rest)
    /\ UNCHANGED historyVars

\* The record is gone even if the status message cannot be sent (342-347).
DeleteRecord ==
    /\ h.pc = "deleteRecord"
    /\ known' = [known EXCEPT ![h.app] = NoRecord]
    /\ disk' = known'
    /\ \/ NoFault /\ h' = Returned(FALSE)
       \/ Fault /\ h' = Returned(TRUE)
    /\ UNCHANGED <<dockerVars, nodeStatus, historyVars>>
-----------------------------------------------------------------------------
(* Deletion of the node *)

DeleteNode ==
    /\ h.pc = "idle"
    /\ h' = [Idle EXCEPT !.pc = "nextApp", !.mode = "removeAll"]
    /\ UNCHANGED <<dockerVars, agentVars, faults, historyVars>>

\* RemoveAll ranges over the map of known manifests, in random order.
RemoveNextApp ==
    /\ h.pc = "nextApp"
    /\ \/ \E a \in Apps : IsKnown(a) /\ h' = [h EXCEPT !.pc = "undeploy", !.app = a]
       \/ (\A a \in Apps : ~ IsKnown(a)) /\ Goto("deleteNode")
    /\ UNCHANGED <<dockerVars, agentVars, faults, historyVars>>

\* An error of RemoveAll is only logged; the agent keeps running.
FinishDeleteNode ==
    /\ h.pc = "deleteNode"
    /\ nodeStatus' = "Deleted"
    /\ h' = Idle
    /\ UNCHANGED <<dockerVars, known, disk, faults, historyVars>>
-----------------------------------------------------------------------------
(* Around the handler *)

(***************************************************************************)
(* The goroutine that sends the logs of the edge apps notes the time of    *)
(* the last log in the record and, as a side effect, writes all records.   *)
(***************************************************************************)
SetLastLogRead ==
    /\ \E a \in Apps : IsDeployed(a)
    /\ disk' = known
    /\ UNCHANGED <<dockerVars, known, nodeStatus, h, faults, historyVars>>

(***************************************************************************)
(* The agent is killed at any point, and started again by systemd: what    *)
(* the handler was doing is forgotten, the records are read from disk.     *)
(***************************************************************************)
Restart ==
    /\ restarts < MaxRestarts
    /\ restarts' = restarts + 1
    /\ known' = disk
    /\ nodeStatus' = "Connected"
    /\ h' = Idle
    /\ interrupted' = interrupted \cup ({h.app} \cap Apps)
    /\ UNCHANGED <<dockerVars, disk, faults, incomplete>>

ContainerChanges ==
    /\ \E c \in Containers :
         \/ ContainersDie /\ \/ ContainerExits(c)
                             \/ ContainerFails(c)
                             \/ ContainerRestarts(c)
                             \/ ContainerGivesUp(c)
         \/ ContainersVanish /\ RemovedByHand(c)
    /\ UNCHANGED <<agentVars, h, faults, historyVars>>

Command ==
    \/ \E m \in Manifests : DeployNew(m) \/ DeployUpdate(m)
    \/ \E a \in Apps : Stop(a) \/ Resume(a) \/ Undeploy(a) \/ Remove(a)
    \/ DeleteNode

HandlerStep ==
    \/ AddNewVersion \/ InspectImage \/ Pull \/ CreateNetwork
    \/ Create \/ Start \/ FinishDeploy \/ FinishRollback
    \/ ListToStop \/ StopNext \/ FinishStop
    \/ ListToResume \/ ResumeNext \/ FinishResume
    \/ BeginUndeploy \/ ListToRemove \/ RemoveNext \/ Prune \/ FinishUndeploy
    \/ ListImages \/ ListUsers \/ RemoveImage \/ DeleteRecord
    \/ RemoveNextApp \/ FinishDeleteNode

Handle == HandlerStep /\ UNCHANGED restarts

Next ==
    \/ Handle
    \/ (Command \/ SetLastLogRead \/ ContainerChanges) /\ UNCHANGED restarts
    \/ Restart

Spec == Init /\ [][Next]_vars

(***************************************************************************)
(* A message being handled is worked on until its handler returns: it runs *)
(* in a goroutine of its own and every call to docker is taken to answer.  *)
(* Commands, restarts and what containers do are not forced to happen.     *)
(* (Every step of the handler and every command changes h.)                *)
(***************************************************************************)
FairSpec == Spec /\ WF_h(Handle)

\* MAPI goes on sending UNDEPLOY for every edge app that the agent knows.
RetrySpec ==
    FairSpec /\ \A a \in Apps : SF_h(Undeploy(a) /\ UNCHANGED restarts)
-----------------------------------------------------------------------------
(* Properties of states *)

HasObjects(a) == ContainersOf(a) # {} \/ NetworksOf(a) # {}

(***************************************************************************)
(* No orphans: docker holds nothing of an edge app that the agent does not *)
(* know or calls Undeployed, through every failure and rollback.  Nobody   *)
(* could remove such objects, as UNDEPLOY and REMOVE of an unknown edge    *)
(* app are rejected (edgeapp.go:222).  The exception is an edge app whose  *)
(* command was cut off by a restart.                                       *)
(***************************************************************************)
NoOrphans ==
    \A a \in Apps :
        ~ IsDeployed(a) /\ HasObjects(a) => a \in interrupted

(***************************************************************************)
(* What a restart forgets: a record on disk differs from the one in memory *)
(* only while the edge app is Initiated, as AddKnownManifest does not      *)
(* write the file (status.go:46) and every other change does.              *)
(***************************************************************************)
DiskMissesOnlyInitiated ==
    \A a \in Apps : disk[a] # known[a] => HasStatus(a, "Initiated")

(***************************************************************************)
(* An edge app that is Running or Stopped has exactly the containers of    *)
(* its manifest, one per module, in one network that exists -- unless a    *)
(* restart cut off a command or an update went on although the old version *)
(* could not be removed.                                                   *)
(***************************************************************************)
IsComplete(a) ==
    \E n \in NetworksOf(a) :
        /\ NetworksOf(a) = {n}
        /\ ContainersOf(a) =
             {c \in Containers : c.man = known[a].man /\ c.net = n.num}

ExactContainers ==
    \A a \in Apps :
        HasStatus(a, "Running") \/ HasStatus(a, "Stopped")
            => IsComplete(a) \/ a \in interrupted \cup incomplete

(***************************************************************************)
(* Between commands an edge app rests: it is not left Executing, and if it *)
(* is left Initiated (the image inspection failed, edgeapp.go:53), nothing *)
(* of it is on the host.                                                   *)
(***************************************************************************)
AtRest ==
    h.pc = "idle" =>
        \A a \in Apps \ (interrupted \cup incomplete) :
            /\ ~ HasStatus(a, "Executing")
            /\ HasStatus(a, "Initiated") => ~ HasObjects(a)

(***************************************************************************)
(* The images that RemoveEdgeApp has found unused stay unused until it     *)
(* removes them: the list of containers is not stale when it is acted on.  *)
(***************************************************************************)
UnusedStayUnused == \A i \in h.unused : h.pc = "removeImage" => UsersOf(i) = {}

(***************************************************************************)
(* Networks have distinct numbers even when an interrupted deployment or a *)
(* failed removal left networks behind.                                    *)
(***************************************************************************)
DistinctNetworkNumbers == \A m, n \in networks : m.num = n.num => m = n
-----------------------------------------------------------------------------
(* Properties of steps *)

(***************************************************************************)
(* A deployment is refused a network only when every number up to the      *)
(* maximum is in use: neither the wrap-around nor the loop's bound below   *)
(* maxNetworkIndex (network.go:144) wastes a number, whatever gaps were    *)
(* left by removals.                                                       *)
(***************************************************************************)
RefusedOnlyWhenFull ==
    [][h.pc = "network" /\ h'.pc = "undeploy" /\ faults' = faults =>
         ExistingNetworkCounts = NetworkCounts]_vars

Appears(c) == ctr[c] = Absent /\ ctr'[c] # Absent
Starts(c) == ctr[c] # "running" /\ ctr'[c] = "running"

(***************************************************************************)
(* A command only touches its own edge app: containers, networks and the   *)
(* record of another edge app are left alone.                              *)
(***************************************************************************)
Untouched(a) ==
    /\ \A c \in Containers : c.man.app = a => ctr'[c] = ctr[c]
    /\ {n \in networks' : n.app = a} = NetworksOf(a)
    /\ known'[a] = known[a]
Isolation ==
    [][HandlerStep => \A a \in Apps \ {h.app} : Untouched(a)]_vars

(***************************************************************************)
(* A module is started after the modules that follow it in the manifest    *)
(* ("start containers in reverse order", edgeapp.go:101, 193), as long as  *)
(* containers do not die on their own.  (What an incomplete update left of *)
(* the old version is started by RESUME without its other modules.)        *)
(***************************************************************************)
StartsLastFirst ==
    [][\A c \in Containers : Starts(c) =>
         \A d \in Containers : SameNetwork(c, d) /\ d.idx > c.idx =>
            ctr[d] = "running" \/ c.man.app \in incomplete]_vars

(***************************************************************************)
(* An older version is never deployed next to a newer one, although the    *)
(* version was compared many steps before the containers are created.      *)
(***************************************************************************)
NeverDowngrades ==
    [][\A c \in Containers : Appears(c) =>
         \A d \in ContainersOf(c.man.app) \ {c} :
            \/ d.man.updatedAt <= c.man.updatedAt
            \/ c.man.app \in interrupted]_vars

(***************************************************************************)
(* An update removes an image that the new version needs only where a name *)
(* of the old version that is not kept stands for that image, too: a name  *)
(* without a tag matches every tag of its repository, and two names may    *)
(* have one image.  (The names of the new version are kept,                *)
(* edgeapp.go:34-39, but what is removed are IDs, 297-327.)                *)
(***************************************************************************)
UpdateKeepsNeededImages ==
    [][h.mode = "update" =>
         \A n \in ImagesOf(h.man) :
            ImageExists(n) /\ ~ ImageExists(n)' =>
               \E old \in ImagesOf(known[h.app].man) \ ImagesOf(h.man) :
                   ImageID(n) \in GetImagesByName({old})]_vars

(***************************************************************************)
(* When a command deletes the record of an edge app, all its images are    *)
(* gone but those that a container uses or that have a name in the new     *)
(* version: after this step nobody remembers them.  (A restart that        *)
(* forgets a record that was not yet on disk forgets the images pulled for *)
(* it.)                                                                    *)
(***************************************************************************)
RemovalForgetsNoImage ==
    [][\A a \in Apps :
         restarts' = restarts /\ IsKnown(a) /\ known'[a] = NoRecord =>
           \A n \in ImagesOf(known[a].man) :
              ImageExists(n) => UsersOf(ImageID(n)) # {} \/ n \in keepImages]_vars

(***************************************************************************)
(* A node is called Deleted although the removal of all edge apps may have *)
(* ended with an error (node_msg.go:19, RemoveAll stops at the first one). *)
(* What is left on the host then is not forgotten: it has its record in    *)
(* memory and on disk, so that UNDEPLOY finds it, now and after a restart. *)
(* Without an error nothing is left, and no record.                        *)
(***************************************************************************)
IsDeployedOnDisk(a) == disk[a] # NoRecord /\ disk[a].status # "Undeployed"
DeletedNodeForgetsNothing ==
    [][nodeStatus' = "Deleted" /\ h.pc = "deleteNode" =>
         \A a \in Apps \ interrupted :
            /\ HasObjects(a) => IsDeployed(a) /\ IsDeployedOnDisk(a)
            /\ ~ h.failed => ~ IsKnown(a) /\ disk[a] = NoRecord /\ ~ HasObjects(a)]_vars
-----------------------------------------------------------------------------
(* Liveness *)

(***************************************************************************)
(* Every command ends, whatever calls fail and whatever containers do: no  *)
(* loop over containers, images or edge apps gets stuck, and the next      *)
(* message can be handled.                                                 *)
(***************************************************************************)
HandlerReturns == (h.pc # "idle") ~> (h.pc = "idle")

(***************************************************************************)
(* No failure and no restart leaves a known edge app that UNDEPLOY cannot  *)
(* clean up: if MAPI repeats UNDEPLOY, at some time nothing of the edge    *)
(* app is on the host, or the agent has forgotten it.                      *)
(***************************************************************************)
Recoverable ==
    \A a \in Apps : IsKnown(a) ~> (~ HasObjects(a) \/ ~ IsKnown(a))
-----------------------------------------------------------------------------
(***************************************************************************)
(* EdgeApp implements Lifecycle: the status is that of the record, the     *)
(* edge app being worked on is the handler's, the host holds something of  *)
(* an edge app if it has containers or networks of it.                     *)
(***************************************************************************)
LifecycleStatus == [a \in Apps |-> IF IsKnown(a) THEN known[a].status ELSE "Unknown"]

LC == INSTANCE Lifecycle WITH
        status <- LifecycleStatus,
        busy <- h.app,
        held <- {a \in Apps : HasObjects(a)},
        cutOff <- interrupted

(***************************************************************************)
(* Every step of the handlers is a step that Lifecycle allows, or changes  *)
(* nothing it speaks of.                                                   *)
(***************************************************************************)
ImplementsLifecycle == LC!Spec
=============================================================================
