---------------------------- MODULE EdgeAppProofs ----------------------------
(***************************************************************************)
(* Proofs about EdgeApp for any edge apps, images and manifests, any limit *)
(* of network numbers, and any number of failed calls and restarts: types, *)
(* no orphans, what a restart forgets, and distinct network numbers.       *)
(***************************************************************************)
EXTENDS EdgeApp, WellFoundedInduction, TLAPS

-----------------------------------------------------------------------------
(* The number of a new network *)

Less == {p \in Nat \X Nat : p[1] < p[2]}

(***************************************************************************)
(* The order of the natural numbers is well-founded.                       *)
(***************************************************************************)
LEMMA LessWellFounded == IsWellFoundedOn(Less, Nat)
  BY NatLessThanWellFounded DEF OpToRel, Less

(***************************************************************************)
(* A non-empty set of natural numbers has a least element.                 *)
(***************************************************************************)
LEMMA HasLeast ==
  ASSUME NEW S \in SUBSET Nat, S # {}
  PROVE  \E x \in S : \A y \in S : x <= y
<1>1. PICK x \in S : \A y \in S : ~ (<<y, x>> \in Less)
  BY LessWellFounded, WFMin
<1>2. ASSUME NEW y \in S PROVE x <= y
  <2>1. x \in Nat /\ y \in Nat
    OBVIOUS
  <2>2. ~ (<<y, x>> \in Less)
    BY <1>1
  <2>3. ~ (y < x)
    BY <2>1, <2>2 DEF Less
  <2> QED
    BY <2>1, <2>3
<1> QED
  BY <1>2

(***************************************************************************)
(* Min picks a least element of a non-empty set of natural numbers.        *)
(***************************************************************************)
LEMMA MinIsLeast ==
  ASSUME NEW S \in SUBSET Nat, S # {}
  PROVE  Min(S) \in S /\ \A y \in S : Min(S) <= y
<1>1. \E x \in S : \A y \in S : x <= y
  BY HasLeast
<1> QED
  BY <1>1 DEF Min

(***************************************************************************)
(* Max picks a greatest element of a non-empty set of numbers that are     *)
(* bounded by n.                                                           *)
(***************************************************************************)
LEMMA MaxIsGreatest ==
  ASSUME NEW n \in Nat, NEW S \in SUBSET (0 .. n), S # {}
  PROVE  Max(S) \in S /\ \A y \in S : y <= Max(S)
<1> DEFINE Gaps == {n - x : x \in S}
<1>1. Gaps \in SUBSET Nat /\ Gaps # {}
  OBVIOUS
<1> HIDE DEF Gaps
<1>2. PICK g \in Gaps : \A d \in Gaps : g <= d
  BY <1>1, HasLeast
<1>3. PICK x \in S : g = n - x
  BY DEF Gaps
<1>4. ASSUME NEW y \in S PROVE x >= y
  <2>1. n - y \in Gaps
    BY DEF Gaps
  <2>2. n - x <= n - y
    BY <1>2, <1>3, <2>1
  <2> QED
    BY <2>2
<1>5. \E z \in S : \A y \in S : z >= y
  BY <1>4
<1>6. Max(S) \in S /\ \A y \in S : Max(S) >= y
  BY <1>5 DEF Max
<1> QED
  BY <1>6
-----------------------------------------------------------------------------
(***************************************************************************)
(* makeNetworkName (network.go:61-76), whatever numbers are in use: the    *)
(* number it answers is in range and free, and it answers none only when   *)
(* all numbers are in use.                                                 *)
(***************************************************************************)
THEOREM NetworkCountIsFree ==
  ASSUME NEW counts \in SUBSET NetworkCounts, 0 \in counts
  PROVE  LET count == makeNetworkCount(counts)
         IN  \/ count \in NetworkCounts \ counts
             \/ count = NoCount /\ counts = NetworkCounts
<1> DEFINE last == getLastCreatedNetworkCount(counts)
           available == (0 .. MaxNetworkIndex - 1) \ counts
<1>1. MaxNetworkIndex \in Nat \ {0}
  BY MaxNetworkIndexAssumption
<1>2. last \in counts /\ \A c \in counts : c <= last
  <2>1. counts \cup {0} = counts /\ counts # {}
    OBVIOUS
  <2> QED
    BY <1>1, <2>1, MaxIsGreatest DEF getLastCreatedNetworkCount, NetworkCounts
<1>3. last \in 0 .. MaxNetworkIndex
  BY <1>2 DEF NetworkCounts
<1> HIDE DEF last
<1>4. CASE last < MaxNetworkIndex
  <2>1. makeNetworkCount(counts) = last + 1
    BY <1>4 DEF makeNetworkCount, last
  <2>2. last + 1 \in NetworkCounts
    BY <1>1, <1>3, <1>4 DEF NetworkCounts
  <2>3. last + 1 \notin counts
    BY <1>2, <1>3
  <2> QED
    BY <2>1, <2>2, <2>3
<1>5. CASE ~ (last < MaxNetworkIndex)
  <2>1. makeNetworkCount(counts) = getLowestAvailableNetworkCount(counts)
    BY <1>5 DEF makeNetworkCount, last
  <2>2. last = MaxNetworkIndex
    BY <1>1, <1>3, <1>5
  <2>3. CASE available = {}
    <3>1. makeNetworkCount(counts) = NoCount
      BY <2>1, <2>3 DEF getLowestAvailableNetworkCount
    <3>2. \A n \in NetworkCounts : n # MaxNetworkIndex => n \in 0 .. MaxNetworkIndex - 1
      BY <1>1 DEF NetworkCounts
    <3>3. counts = NetworkCounts
      BY <1>2, <2>2, <2>3, <3>2
    <3> QED
      BY <3>1, <3>3
  <2>4. CASE available # {}
    <3>1. makeNetworkCount(counts) = Min(available)
      BY <2>1, <2>4 DEF getLowestAvailableNetworkCount
    <3>2. available \in SUBSET Nat
      BY <1>1
    <3>3. Min(available) \in available
      BY <2>4, <3>2, MinIsLeast
    <3>4. available \subseteq NetworkCounts
      BY <1>1 DEF NetworkCounts
    <3> QED
      BY <3>1, <3>3, <3>4
  <2> QED
    BY <2>3, <2>4
<1> QED
  BY <1>4, <1>5

-----------------------------------------------------------------------------
(* The type invariant *)

RecordsTypeOK ==
    /\ known \in [Apps -> ManifestRecord \cup {NoRecord}]
    /\ disk \in [Apps -> ManifestRecord \cup {NoRecord}]
    /\ nodeStatus \in NodeStatus

CountersTypeOK ==
    /\ faults \in 0 .. MaxFaults
    /\ restarts \in 0 .. MaxRestarts
    /\ interrupted \subseteq Apps
    /\ incomplete \subseteq Apps

(***************************************************************************)
(* What the handler's place in the code says of its variables: inside a    *)
(* command it has an edge app, in a deployment or an update a manifest of  *)
(* that edge app, and in the loops over the modules the index of one.      *)
(***************************************************************************)
Deploying == {"inspect", "pull", "network", "create", "start", "deployed"}

WellFormed(n) ==
    /\ n \in Handler
    /\ n.pc \notin {"idle", "nextApp", "deleteNode"} => n.app \in Apps
    /\ n.pc \in Deploying \/ n.pc = "add" \/ n.mode = "update"
         => n.man \in Manifests /\ n.man.app = n.app
    /\ n.pc \in {"inspect", "pull", "create", "start"}
         => n.idx \in DOMAIN n.man.modules
    /\ n.pc = "nextApp" => n.mode = "removeAll"

TypeInv == DockerTypeOK /\ RecordsTypeOK /\ CountersTypeOK /\ WellFormed(h)

(***************************************************************************)
(* A manifest has modules, each with an image.                             *)
(***************************************************************************)
LEMMA ManifestType ==
  ASSUME NEW m \in Manifests
  PROVE  /\ m.app \in Apps
         /\ m.modules \in Seq(Images)
         /\ Len(m.modules) \in Nat \ {0}
         /\ DOMAIN m.modules = 1 .. Len(m.modules)
         /\ 1 \in DOMAIN m.modules
         /\ Len(m.modules) \in DOMAIN m.modules
         /\ \A i \in DOMAIN m.modules : m.modules[i] \in Images
<1>1. m \in Manifest /\ m.modules # <<>>
  BY ManifestsAssumption
<1>2. m.app \in Apps /\ m.modules \in Seq(Images) /\ m.modules # <<>>
  BY <1>1 DEF Manifest
<1> QED
  BY <1>2

(***************************************************************************)
(* The handler at rest is well-formed.                                     *)
(***************************************************************************)
LEMMA IdleWellFormed == WellFormed(Idle)
<1>1. 0 \in NetworkCounts
  BY MaxNetworkIndexAssumption DEF NetworkCounts
<1> QED
  BY <1>1 DEF WellFormed, Idle, Handler, PC, Mode, Deploying

(***************************************************************************)
(* setAndSendStatus keeps the records well-typed.                          *)
(***************************************************************************)
LEMMA SetStatusType ==
  ASSUME RecordsTypeOK, NEW a \in Apps, NEW s \in EdgeAppStatus, SetStatus(a, s)
  PROVE  RecordsTypeOK'
<1>1. CASE IsKnown(a)
  <2>1. known[a] \in ManifestRecord
    BY <1>1 DEF IsKnown, RecordsTypeOK
  <2>2. [man |-> known[a].man, status |-> s] \in ManifestRecord
    BY <2>1 DEF ManifestRecord
  <2> QED
    BY <1>1, <2>2 DEF SetStatus, RecordsTypeOK
<1>2. CASE ~ IsKnown(a)
  BY <1>2 DEF SetStatus, RecordsTypeOK, agentVars
<1> QED
  BY <1>1, <1>2

(***************************************************************************)
(* AddKnownManifest keeps the records well-typed.                          *)
(***************************************************************************)
LEMMA AddKnownManifestType ==
  ASSUME RecordsTypeOK, NEW m \in Manifests, AddKnownManifest(m)
  PROVE  RecordsTypeOK'
<1>1. [man |-> m, status |-> "Initiated"] \in ManifestRecord
  BY DEF ManifestRecord, EdgeAppStatus
<1> QED
  BY <1>1, ManifestType DEF AddKnownManifest, RecordsTypeOK

(***************************************************************************)
(* Whatever UndeployEdgeApp or RemoveEdgeApp returns to is well-formed.    *)
(***************************************************************************)
LEMMA ReturnedWellFormed ==
  ASSUME WellFormed(h), h.pc \notin Deploying, h.app \in Apps, NEW err \in BOOLEAN
  PROVE  WellFormed(Returned(err))
<1>1. CASE h.mode = "update"
  BY <1>1 DEF Returned, WellFormed, Handler, PC, Mode, Deploying
<1>2. CASE h.mode = "rollbackStart"
  BY <1>2 DEF Returned, WellFormed, Handler, PC, Mode, Deploying
<1>3. CASE h.mode = "removeAll"
  <2>1. ASSUME NEW l \in {"deleteNode", "nextApp"}
        PROVE  WellFormed([Idle EXCEPT !.pc = l, !.mode = "removeAll", !.failed = err])
    <3> DEFINE n == [Idle EXCEPT !.pc = l, !.mode = "removeAll", !.failed = err]
    <3>1. Idle \in Handler
      BY IdleWellFormed DEF WellFormed
    <3>2. n \in Handler
      BY <3>1 DEF Handler, PC, Mode
    <3>3. n.pc = l /\ n.mode = "removeAll"
      BY <3>1 DEF Handler
    <3> HIDE DEF n
    <3>4. WellFormed(n)
      BY <3>2, <3>3 DEF WellFormed, Deploying
    <3> QED
      BY <3>4 DEF n
  <2> QED
    BY <1>3, <2>1 DEF Returned
<1>4. CASE h.mode \notin {"update", "rollbackStart", "removeAll"}
  BY <1>4, IdleWellFormed DEF Returned
<1> QED
  BY <1>1, <1>2, <1>3, <1>4

(***************************************************************************)
(* A name stands for a reference that it matches, which has an image.      *)
(***************************************************************************)
LEMMA NamesOfImages ==
  ASSUME NEW n \in Images
  PROVE  /\ Reference(n) \in References
         /\ Matches(n, Reference(n))
         /\ ImageID(n) \in ImageIDs
<1>1. n \in [repo : STRING, tag : STRING]
  BY ImagesAssumption
<1>2. Reference(n) \in References
  BY DEF References
<1>3. Matches(n, Reference(n))
  BY <1>1 DEF Matches, Reference
<1>4. ImageID(n) \in ImageIDs
  BY <1>2, IDOfAssumption DEF ImageID
<1> QED
  BY <1>2, <1>3, <1>4

(***************************************************************************)
(* The IDs of images that names match.                                     *)
(***************************************************************************)
LEMMA ImagesByNameType ==
  ASSUME DockerTypeOK, NEW names
  PROVE  GetImagesByName(names) \in SUBSET ImageIDs
  BY IDOfAssumption DEF DockerTypeOK, GetImagesByName

(***************************************************************************)
(* The calls to docker keep images, networks and containers well-typed.    *)
(***************************************************************************)
LEMMA DockerCallsType ==
  ASSUME DockerTypeOK
  PROVE  /\ UNCHANGED dockerVars => DockerTypeOK'
         /\ \A i \in Images : PullImage(i) => DockerTypeOK'
         /\ \A i : ImageRemove(i) => DockerTypeOK'
         /\ \A n \in Network : NetworkCreate(n) => DockerTypeOK'
         /\ \A a : NetworkPrune(a) => DockerTypeOK'
         /\ \A c, state : SetContainer(c, state) /\ state \in ContainerState
               => DockerTypeOK'
<1>1. UNCHANGED dockerVars => DockerTypeOK'
  BY DEF DockerTypeOK, dockerVars
<1>2. \A i \in Images : PullImage(i) => DockerTypeOK'
  BY NamesOfImages DEF DockerTypeOK, PullImage
<1>3. \A i : ImageRemove(i) => DockerTypeOK'
  BY DEF DockerTypeOK, ImageRemove
<1>4. \A n \in Network : NetworkCreate(n) => DockerTypeOK'
  BY DEF DockerTypeOK, NetworkCreate
<1>5. \A a : NetworkPrune(a) => DockerTypeOK'
  BY DEF DockerTypeOK, NetworkPrune
<1>6. \A c, state : SetContainer(c, state) /\ state \in ContainerState
        => DockerTypeOK'
  BY DEF DockerTypeOK, SetContainer
<1> QED
  BY <1>1, <1>2, <1>3, <1>4, <1>5, <1>6

(***************************************************************************)
(* The states that the agent and the containers themselves bring about.    *)
(***************************************************************************)
LEMMA ContainerCallsType ==
  ASSUME DockerTypeOK, NEW c,
         \/ CreateContainer(c) \/ StartContainer(c) \/ StopContainer(c)
         \/ RemoveContainer(c) \/ FailToRemoveContainer(c)
         \/ ContainerExits(c) \/ ContainerFails(c)
         \/ ContainerRestarts(c) \/ ContainerGivesUp(c) \/ RemovedByHand(c)
  PROVE  DockerTypeOK'
  BY DockerCallsType
     DEF ContainerState, CreateContainer, StartContainer, StopContainer,
         RemoveContainer, FailToRemoveContainer, ContainerExits, ContainerFails,
         ContainerRestarts, ContainerGivesUp, RemovedByHand, Absent

(***************************************************************************)
(* The counters: a call either fails within the bound or does not count.   *)
(***************************************************************************)
LEMMA FaultsType ==
  ASSUME CountersTypeOK, Fault \/ NoFault, UNCHANGED <<restarts, historyVars>>
  PROVE  CountersTypeOK'
  BY EdgeAppAssumption DEF CountersTypeOK, Fault, NoFault, historyVars

(***************************************************************************)
(* Giving up: the status becomes Error, the handler goes on with n.        *)
(***************************************************************************)
LEMMA GiveUpType ==
  ASSUME RecordsTypeOK, h.app \in Apps, NEW n, GiveUp(n)
  PROVE  RecordsTypeOK' /\ h' = n
  BY SetStatusType DEF GiveUp, EdgeAppStatus

(***************************************************************************)
(* Unchanged records stay well-typed.                                      *)
(***************************************************************************)
LEMMA SameRecordsType ==
  ASSUME RecordsTypeOK, UNCHANGED agentVars
  PROVE  RecordsTypeOK'
  BY DEF RecordsTypeOK, agentVars
-----------------------------------------------------------------------------
(* Deployments *)

(***************************************************************************)
(* DEPLOY of a new edge app.                                               *)
(***************************************************************************)
LEMMA DeployNewType ==
  ASSUME TypeInv, NEW m \in Manifests, DeployNew(m), UNCHANGED restarts
  PROVE  TypeInv'
<1>1. DockerTypeOK'
  BY DockerCallsType DEF TypeInv, DeployNew
<1>2. RecordsTypeOK'
  BY AddKnownManifestType DEF TypeInv, DeployNew
<1>3. CountersTypeOK'
  BY DEF TypeInv, DeployNew, CountersTypeOK, historyVars
<1>4. WellFormed(h')
  <2>1. h' = [Idle EXCEPT !.pc = "inspect", !.app = m.app, !.man = m, !.idx = 1]
    BY DEF DeployNew
  <2>2. Idle \in Handler
    BY IdleWellFormed DEF WellFormed
  <2>3. /\ h' \in Handler
        /\ h'.pc = "inspect" /\ h'.app = m.app /\ h'.man = m /\ h'.idx = 1
    BY <2>1, <2>2, ManifestType DEF Handler, PC
  <2> QED
    BY <2>3, ManifestType DEF WellFormed, Deploying
<1> QED
  BY <1>1, <1>2, <1>3, <1>4 DEF TypeInv

(***************************************************************************)
(* DEPLOY of a newer version.                                              *)
(***************************************************************************)
LEMMA DeployUpdateType ==
  ASSUME TypeInv, NEW m \in Manifests, DeployUpdate(m), UNCHANGED restarts
  PROVE  TypeInv'
<1>1. DockerTypeOK'
  BY DockerCallsType DEF TypeInv, DeployUpdate
<1>2. RecordsTypeOK'
  BY SameRecordsType DEF TypeInv, DeployUpdate
<1>3. CountersTypeOK'
  BY DEF TypeInv, DeployUpdate, CountersTypeOK, historyVars
<1>4. WellFormed(h')
  <2>1. h' = [Idle EXCEPT !.pc = "undeploy", !.mode = "update",
                          !.app = m.app, !.man = m]
    BY DEF DeployUpdate
  <2>2. Idle \in Handler
    BY IdleWellFormed DEF WellFormed
  <2>3. /\ h' \in Handler
        /\ h'.pc = "undeploy" /\ h'.app = m.app /\ h'.man = m
    BY <2>1, <2>2, ManifestType DEF Handler, PC, Mode
  <2> QED
    BY <2>3, ManifestType DEF WellFormed, Deploying
<1> QED
  BY <1>1, <1>2, <1>3, <1>4 DEF TypeInv

(***************************************************************************)
(* The new version's record, after the removal of the old version.         *)
(***************************************************************************)
LEMMA AddNewVersionType ==
  ASSUME TypeInv, AddNewVersion, UNCHANGED restarts
  PROVE  TypeInv'
<1>0. h \in Handler /\ h.app \in Apps /\ h.man \in Manifests /\ h.man.app = h.app
  BY DEF TypeInv, WellFormed, AddNewVersion
<1>1. DockerTypeOK'
  BY DockerCallsType DEF TypeInv, AddNewVersion
<1>2. RecordsTypeOK'
  BY <1>0, AddKnownManifestType DEF TypeInv, AddNewVersion
<1>3. CountersTypeOK'
  BY <1>0 DEF TypeInv, AddNewVersion, CountersTypeOK
<1>4. WellFormed(h')
  <2>1. h' = [Idle EXCEPT !.pc = "inspect", !.app = h.app, !.man = h.man, !.idx = 1]
    BY DEF AddNewVersion
  <2>2. Idle \in Handler
    BY IdleWellFormed DEF WellFormed
  <2>3. /\ h' \in Handler
        /\ h'.pc = "inspect" /\ h'.app = h.app /\ h'.man = h.man /\ h'.idx = 1
    BY <1>0, <2>1, <2>2 DEF Handler, PC
  <2> QED
    BY <1>0, <2>3, ManifestType DEF WellFormed, Deploying
<1> QED
  BY <1>1, <1>2, <1>3, <1>4 DEF TypeInv

(***************************************************************************)
(* The next image, or the network after the last image.                    *)
(***************************************************************************)
LEMMA NextImageType ==
  ASSUME WellFormed(h), h.pc \in {"inspect", "pull"}, NextImage
  PROVE  WellFormed(h')
<1>0. /\ h \in Handler /\ h.app \in Apps /\ h.man \in Manifests
      /\ h.man.app = h.app /\ h.idx \in DOMAIN h.man.modules
  BY DEF WellFormed, Deploying
<1>1. CASE h.idx < Len(h.man.modules)
  <2>1. h' = [h EXCEPT !.pc = "inspect", !.idx = @ + 1]
    BY <1>1 DEF NextImage
  <2>2. h.idx + 1 \in DOMAIN h.man.modules /\ h.idx + 1 \in Nat
    BY <1>0, <1>1, ManifestType
  <2>3. /\ h' \in Handler
        /\ h'.pc = "inspect" /\ h'.app = h.app /\ h'.man = h.man
        /\ h'.idx = h.idx + 1
    BY <1>0, <2>1, <2>2 DEF Handler, PC
  <2> QED
    BY <1>0, <2>2, <2>3 DEF WellFormed
<1>2. CASE ~ (h.idx < Len(h.man.modules))
  <2>1. h' = [h EXCEPT !.pc = "network"]
    BY <1>2 DEF NextImage, Goto
  <2>2. /\ h' \in Handler
        /\ h'.pc = "network" /\ h'.app = h.app /\ h'.man = h.man
    BY <1>0, <2>1 DEF Handler, PC
  <2> QED
    BY <1>0, <2>2 DEF WellFormed
<1> QED
  BY <1>1, <1>2

(***************************************************************************)
(* A handler that stays with its edge app and manifest is well-formed      *)
(* wherever it goes but into the loops over the modules.                   *)
(***************************************************************************)
LEMMA StaysWellFormed ==
  ASSUME WellFormed(h), h.pc \notin {"idle", "nextApp", "deleteNode"},
         NEW n \in Handler, n.app = h.app, n.man = h.man, n.mode = h.mode,
         n.pc \notin {"inspect", "pull", "create", "start", "nextApp"},
         n.pc \in Deploying \cup {"add"} => h.pc \in Deploying
  PROVE  WellFormed(n)
  BY DEF WellFormed, Deploying

(***************************************************************************)
(* Goto changes nothing but the place.                                     *)
(***************************************************************************)
LEMMA GotoType ==
  ASSUME h \in Handler, NEW l \in PC, Goto(l)
  PROVE  /\ h' \in Handler
         /\ h' = [h EXCEPT !.pc = l]
         /\ h'.pc = l /\ h'.app = h.app /\ h'.man = h.man /\ h'.mode = h.mode
         /\ h'.idx = h.idx /\ h'.failed = h.failed /\ h'.todo = h.todo
  BY DEF Goto, Handler

(***************************************************************************)
(* A rollback is an undeployment of the handler's edge app.                *)
(***************************************************************************)
LEMMA RollbackType ==
  ASSUME WellFormed(h), h.pc \in Deploying,
         NEW mode \in {"rollback", "rollbackStart"}
  PROVE  /\ WellFormed(Rollback(mode))
         /\ Rollback(mode).pc = "undeploy" /\ Rollback(mode).app = h.app
  BY DEF WellFormed, Rollback, Handler, PC, Mode, Deploying

(***************************************************************************)
(* In a deployment the handler has a manifest of its edge app.             *)
(***************************************************************************)
LEMMA DeployingType ==
  ASSUME WellFormed(h), h.pc \in Deploying
  PROVE  /\ h \in Handler /\ h.app \in Apps /\ h.man \in Manifests
         /\ h.man.app = h.app
         /\ h.pc \in {"inspect", "pull", "create", "start"}
               => h.idx \in DOMAIN h.man.modules /\ h.man.modules[h.idx] \in Images
  BY ManifestType DEF WellFormed, Deploying

(***************************************************************************)
(* ImageExists.                                                            *)
(***************************************************************************)
LEMMA InspectImageType ==
  ASSUME TypeInv, InspectImage, UNCHANGED restarts
  PROVE  TypeInv'
<1>0. WellFormed(h) /\ h.pc = "inspect" /\ h.pc \in Deploying
  BY DEF TypeInv, InspectImage, Deploying
<1>1. DockerTypeOK' /\ RecordsTypeOK' /\ CountersTypeOK'
  BY DockerCallsType, SameRecordsType, FaultsType DEF TypeInv, InspectImage
<1>2. WellFormed(h')
  <2>1. CASE NextImage
    BY <1>0, <2>1, NextImageType
  <2>2. CASE Goto("pull")
    <3>1. h \in Handler /\ "pull" \in PC
      BY <1>0, DeployingType DEF PC
    <3> QED
      BY <1>0, <2>2, <3>1, GotoType DEF WellFormed, Deploying
  <2>3. CASE h' = Idle
    BY <2>3, IdleWellFormed
  <2> QED
    BY <2>1, <2>2, <2>3 DEF InspectImage
<1> QED
  BY <1>1, <1>2 DEF TypeInv

(***************************************************************************)
(* PullImage.                                                              *)
(***************************************************************************)
LEMMA PullType ==
  ASSUME TypeInv, Pull, UNCHANGED restarts
  PROVE  TypeInv'
<1>0. WellFormed(h) /\ h.pc = "pull" /\ h.pc \in Deploying
  BY DEF TypeInv, Pull, Deploying
<1>1. h.app \in Apps /\ h.man.modules[h.idx] \in Images
  BY <1>0, DeployingType
<1>2. CountersTypeOK'
  BY FaultsType DEF TypeInv, Pull
<1>3. CASE PullImage(h.man.modules[h.idx]) /\ NextImage /\ UNCHANGED agentVars
  BY <1>0, <1>1, <1>2, <1>3, DockerCallsType, SameRecordsType, NextImageType DEF TypeInv
<1>4. CASE NextImage /\ UNCHANGED <<dockerVars, agentVars>>
  BY <1>0, <1>2, <1>4, DockerCallsType, SameRecordsType, NextImageType DEF TypeInv
<1>5. CASE GiveUp(Rollback("rollback")) /\ UNCHANGED dockerVars
  <2>1. RecordsTypeOK' /\ h' = Rollback("rollback")
    BY <1>1, <1>5, GiveUpType DEF TypeInv
  <2>2. WellFormed(h')
    BY <1>0, <2>1, RollbackType
  <2> QED
    BY <1>2, <1>5, <2>1, <2>2, DockerCallsType DEF TypeInv
<1> QED
  BY <1>3, <1>4, <1>5 DEF Pull

(***************************************************************************)
(* The numbers of the networks of edge apps are in range.                  *)
(***************************************************************************)
LEMMA NewNetworkNumber ==
  ASSUME DockerTypeOK
  PROVE  LET count == makeNetworkCount(ExistingNetworkCounts)
         IN  \/ count \in NetworkNumbers \ ExistingNetworkCounts
             \/ count = NoCount
<1>1. 0 \in NetworkCounts
  BY MaxNetworkIndexAssumption DEF NetworkCounts
<1>2. ExistingNetworkCounts \in SUBSET NetworkCounts /\ 0 \in ExistingNetworkCounts
  BY <1>1 DEF DockerTypeOK, ExistingNetworkCounts, Network, NetworkNumbers
<1> QED
  BY <1>2, NetworkCountIsFree DEF NetworkNumbers

(***************************************************************************)
(* CreateNetwork.                                                          *)
(***************************************************************************)
LEMMA CreateNetworkType ==
  ASSUME TypeInv, CreateNetwork, UNCHANGED restarts
  PROVE  TypeInv'
<1> DEFINE count == makeNetworkCount(ExistingNetworkCounts)
<1>0. WellFormed(h) /\ h.pc = "network" /\ h.pc \in Deploying
  BY DEF TypeInv, CreateNetwork, Deploying
<1>1. h \in Handler /\ h.app \in Apps /\ h.man \in Manifests /\ h.man.app = h.app
  BY <1>0, DeployingType
<1>2. count \in NetworkNumbers \/ count = NoCount
  BY NewNetworkNumber DEF TypeInv
<1>3. CountersTypeOK'
  BY FaultsType DEF TypeInv, CreateNetwork
<1>4. \/ /\ count # NoCount
         /\ NetworkCreate([app |-> h.app, num |-> count])
         /\ h' = [h EXCEPT !.pc = "create", !.net = count, !.idx = Len(h.man.modules)]
         /\ UNCHANGED agentVars
      \/ GiveUp(Rollback("rollback")) /\ UNCHANGED dockerVars
  BY DEF CreateNetwork
<1> HIDE DEF count
<1>5. CASE /\ count # NoCount
           /\ NetworkCreate([app |-> h.app, num |-> count])
           /\ h' = [h EXCEPT !.pc = "create", !.net = count, !.idx = Len(h.man.modules)]
           /\ UNCHANGED agentVars
  <2>1. count \in NetworkNumbers /\ count \in NetworkCounts
    BY <1>2, <1>5 DEF NetworkNumbers
  <2>2. [app |-> h.app, num |-> count] \in Network
    BY <1>1, <2>1 DEF Network
  <2>3. DockerTypeOK'
    BY <1>5, <2>2, DockerCallsType DEF TypeInv
  <2>4. RecordsTypeOK'
    BY <1>5, SameRecordsType DEF TypeInv
  <2>5. /\ h' \in Handler /\ h'.pc = "create" /\ h'.app = h.app
        /\ h'.man = h.man /\ h'.idx = Len(h.man.modules)
    BY <1>1, <1>5, <2>1, ManifestType DEF Handler, PC
  <2>6. WellFormed(h')
    BY <1>1, <2>5, ManifestType DEF WellFormed
  <2> QED
    BY <1>3, <2>3, <2>4, <2>6 DEF TypeInv
<1>6. CASE GiveUp(Rollback("rollback")) /\ UNCHANGED dockerVars
  <2>1. RecordsTypeOK' /\ h' = Rollback("rollback")
    BY <1>1, <1>6, GiveUpType DEF TypeInv
  <2>2. WellFormed(h')
    BY <1>0, <2>1, RollbackType
  <2> QED
    BY <1>3, <1>6, <2>1, <2>2, DockerCallsType DEF TypeInv
<1> QED
  BY <1>4, <1>5, <1>6

(***************************************************************************)
(* The creation of a container.                                            *)
(***************************************************************************)
LEMMA CreateType ==
  ASSUME TypeInv, Create, UNCHANGED restarts
  PROVE  TypeInv'
<1>0. WellFormed(h) /\ h.pc = "create" /\ h.pc \in Deploying
  BY DEF TypeInv, Create, Deploying
<1>1. CountersTypeOK' /\ RecordsTypeOK'
  BY FaultsType, SameRecordsType DEF TypeInv, Create
<1>2. DockerTypeOK'
  <2>1. SetContainer(Current, "created") \/ UNCHANGED dockerVars
    BY DEF Create, CreateContainer
  <2> QED
    BY <2>1, DockerCallsType DEF TypeInv, ContainerState
<1>3. WellFormed(h')
  <2>1. CASE Goto("start")
    <3>1. h \in Handler /\ "start" \in PC
      BY <1>0, DeployingType DEF PC
    <3> QED
      BY <1>0, <2>1, <3>1, GotoType DEF WellFormed, Deploying
  <2>2. CASE h' = Rollback("rollbackStart")
    BY <1>0, <2>2, RollbackType
  <2> QED
    BY <2>1, <2>2 DEF Create
<1> QED
  BY <1>1, <1>2, <1>3 DEF TypeInv

(***************************************************************************)
(* The start of a container.                                               *)
(***************************************************************************)
LEMMA StartType ==
  ASSUME TypeInv, Start, UNCHANGED restarts
  PROVE  TypeInv'
<1>0. WellFormed(h) /\ h.pc = "start" /\ h.pc \in Deploying
  BY DEF TypeInv, Start, Deploying
<1>1. CountersTypeOK' /\ RecordsTypeOK'
  BY FaultsType, SameRecordsType DEF TypeInv, Start
<1>2. DockerTypeOK'
  <2>1. SetContainer(Current, "running") \/ UNCHANGED dockerVars
    BY DEF Start, StartContainer
  <2> QED
    BY <2>1, DockerCallsType DEF TypeInv, ContainerState
<1>3. WellFormed(h')
  <2>0. /\ h \in Handler /\ h.app \in Apps /\ h.man \in Manifests
        /\ h.man.app = h.app /\ h.idx \in DOMAIN h.man.modules
    BY <1>0, DeployingType
  <2>1. CASE Goto("deployed")
    <3>1. "deployed" \in PC
      BY DEF PC
    <3> QED
      BY <1>0, <2>0, <2>1, <3>1, GotoType DEF WellFormed, Deploying
  <2>2. CASE ~ AllStarted /\ h' = [h EXCEPT !.pc = "create", !.idx = @ - 1]
    <3>1. h.idx - 1 \in DOMAIN h.man.modules /\ h.idx - 1 \in Nat
      BY <2>0, <2>2, ManifestType DEF AllStarted
    <3>2. /\ h' \in Handler /\ h'.pc = "create" /\ h'.app = h.app
          /\ h'.man = h.man /\ h'.idx = h.idx - 1
      BY <2>0, <2>2, <3>1 DEF Handler, PC
    <3> QED
      BY <2>0, <3>1, <3>2 DEF WellFormed
  <2>3. CASE h' = Rollback("rollbackStart")
    BY <1>0, <2>3, RollbackType
  <2> QED
    BY <2>1, <2>2, <2>3 DEF Start
<1> QED
  BY <1>1, <1>2, <1>3 DEF TypeInv

(***************************************************************************)
(* The end of a deployment and of the rollback of a failed container.      *)
(***************************************************************************)
LEMMA FinishDeployType ==
  ASSUME TypeInv, FinishDeploy \/ FinishRollback, UNCHANGED restarts
  PROVE  TypeInv'
<1>1. h.app \in Apps
  BY DEF TypeInv, WellFormed, FinishDeploy, FinishRollback
<1>2. DockerTypeOK' /\ CountersTypeOK'
  BY DockerCallsType, FaultsType
     DEF TypeInv, FinishDeploy, FinishRollback, NoFault, historyVars
<1>3. \E s \in {"Running", "Error"} : SetStatus(h.app, s)
  BY DEF FinishDeploy, FinishRollback, GiveUp
<1>4. RecordsTypeOK'
  BY <1>1, <1>3, SetStatusType DEF TypeInv, EdgeAppStatus
<1>5. WellFormed(h')
  BY IdleWellFormed DEF FinishDeploy, FinishRollback, GiveUp
<1> QED
  BY <1>2, <1>4, <1>5 DEF TypeInv
-----------------------------------------------------------------------------
(* STOP, RESUME, UNDEPLOY and REMOVE *)

(***************************************************************************)
(* A command that starts with nothing but its edge app is well-formed.     *)
(***************************************************************************)
LEMMA CommandWellFormed ==
  ASSUME NEW a \in Apps, NEW l \in PC, l \notin Deploying \cup {"add", "nextApp"},
         NEW mode \in Mode, mode # "update"
  PROVE  /\ WellFormed([Idle EXCEPT !.pc = l, !.app = a])
         /\ WellFormed([Idle EXCEPT !.pc = l, !.mode = mode, !.app = a])
<1> DEFINE n == [Idle EXCEPT !.pc = l, !.app = a]
           m == [Idle EXCEPT !.pc = l, !.mode = mode, !.app = a]
<1>1. Idle \in Handler
  BY IdleWellFormed DEF WellFormed
<1>2. /\ n \in Handler /\ n.pc = l /\ n.mode = Idle.mode /\ n.app = a
      /\ m \in Handler /\ m.pc = l /\ m.mode = mode /\ m.app = a
  BY <1>1 DEF Handler
<1>3. Idle.mode # "update"
  BY DEF Idle
<1> HIDE DEF n, m
<1>4. WellFormed(n) /\ WellFormed(m)
  BY <1>2, <1>3 DEF WellFormed, Deploying
<1> QED
  BY <1>4 DEF n, m

(***************************************************************************)
(* The acceptance of a command but DEPLOY.                                 *)
(***************************************************************************)
LEMMA CommandType ==
  ASSUME TypeInv, NEW a \in Apps,
         Stop(a) \/ Resume(a) \/ Undeploy(a) \/ Remove(a),
         UNCHANGED restarts
  PROVE  TypeInv'
<1>1. UNCHANGED <<dockerVars, agentVars, faults, historyVars>>
  BY DEF Stop, Resume, Undeploy, Remove, UndeployOrRemove
<1>2. DockerTypeOK' /\ RecordsTypeOK' /\ CountersTypeOK'
  BY <1>1, DockerCallsType, SameRecordsType, FaultsType DEF TypeInv, NoFault
<1>4. CASE Stop(a) \/ Resume(a)
  <2>1. \E l \in {"listToStop", "listToResume"} : h' = [Idle EXCEPT !.pc = l, !.app = a]
    BY <1>4 DEF Stop, Resume
  <2>2. "none" \in Mode /\ "none" # "update"
    BY DEF Mode
  <2>3. WellFormed(h')
    BY <2>1, <2>2, CommandWellFormed DEF PC, Deploying
  <2> QED
    BY <1>2, <2>3 DEF TypeInv
<1>5. CASE Undeploy(a) \/ Remove(a)
  <2>1. \E mode \in {"undeploy", "remove"} :
           h' = [Idle EXCEPT !.pc = "undeploy", !.mode = mode, !.app = a]
    BY <1>5 DEF Undeploy, Remove, UndeployOrRemove
  <2>2. WellFormed(h')
    BY <2>1, CommandWellFormed DEF PC, Mode, Deploying
  <2> QED
    BY <1>2, <2>2 DEF TypeInv
<1> QED
  BY <1>4, <1>5

(***************************************************************************)
(* The list of containers of an edge app holds containers only.            *)
(***************************************************************************)
LEMMA ListType ==
  ASSUME NEW a
  PROVE  /\ ReadEdgeAppContainers(a) \subseteq Containers
         /\ ContainersOf(a) \subseteq Containers
  BY DEF ReadEdgeAppContainers, ContainersOf, Existing

(***************************************************************************)
(* The handler works on a list of containers, or is done with it.          *)
(***************************************************************************)
LEMMA TodoWellFormed ==
  ASSUME WellFormed(h), h.pc \notin Deploying \cup {"idle", "nextApp", "deleteNode"},
         NEW todo \in SUBSET Containers,
         NEW l \in PC, l \notin Deploying \cup {"add", "nextApp"}
  PROVE  WellFormed([h EXCEPT !.todo = todo, !.pc = l])
<1> DEFINE n == [h EXCEPT !.todo = todo, !.pc = l]
<1>1. /\ n \in Handler /\ n.pc = l
      /\ n.app = h.app /\ n.man = h.man /\ n.mode = h.mode
  BY DEF WellFormed, Handler
<1> HIDE DEF n
<1>2. WellFormed(n)
  BY <1>1, StaysWellFormed DEF Deploying
<1> QED
  BY <1>2 DEF n

(***************************************************************************)
(* The lists of STOP and RESUME.                                           *)
(***************************************************************************)
LEMMA ListToStopResumeType ==
  ASSUME TypeInv, ListToStop \/ ListToResume, UNCHANGED restarts
  PROVE  TypeInv'
<1>1. /\ WellFormed(h) /\ h.app \in Apps
      /\ h.pc \notin Deploying \cup {"idle", "nextApp", "deleteNode"}
  BY DEF TypeInv, WellFormed, ListToStop, ListToResume, Deploying
<1>2. DockerTypeOK' /\ CountersTypeOK'
  BY DockerCallsType, FaultsType DEF TypeInv, ListToStop, ListToResume
<1>3. \/ h' = Idle /\ UNCHANGED agentVars
      \/ GiveUp(Idle)
      \/ /\ SetStatus(h.app, "Executing")
         /\ \E todo \in SUBSET Containers,
               l \in {"stop", "stopped", "resume", "resumed"} :
                  h' = [h EXCEPT !.todo = todo, !.pc = l]
  <2>1. /\ {c \in ReadEdgeAppContainers(h.app) : ctr[c] = "running"} \in SUBSET Containers
        /\ {c \in ReadEdgeAppContainers(h.app) : ctr[c] # "running"} \in SUBSET Containers
    BY ListType
  <2> QED
    BY <2>1 DEF ListToStop, ListToResume
<1>4. RecordsTypeOK'
  BY <1>1, <1>3, SameRecordsType, SetStatusType DEF TypeInv, GiveUp, EdgeAppStatus
<1>5. WellFormed(h')
  <2>1. CASE h' = Idle
    BY <2>1, IdleWellFormed
  <2>2. ASSUME NEW todo \in SUBSET Containers,
               NEW l \in {"stop", "stopped", "resume", "resumed"},
               h' = [h EXCEPT !.todo = todo, !.pc = l]
        PROVE  WellFormed(h')
    <3>1. l \in PC /\ l \notin Deploying \cup {"add", "nextApp"}
      BY DEF PC, Deploying
    <3> QED
      BY <1>1, <2>2, <3>1, TodoWellFormed
  <2> QED
    BY <1>3, <2>1, <2>2 DEF GiveUp
<1> QED
  BY <1>2, <1>4, <1>5 DEF TypeInv

(***************************************************************************)
(* The loops of STOP and RESUME.                                           *)
(***************************************************************************)
LEMMA StopResumeNextType ==
  ASSUME TypeInv, StopNext \/ ResumeNext, UNCHANGED restarts
  PROVE  TypeInv'
<1>1. /\ WellFormed(h) /\ h.app \in Apps /\ h.pc \in PC
      /\ h.pc \notin Deploying \cup {"idle", "add", "nextApp", "deleteNode"}
      /\ h.todo \in SUBSET Containers
  BY DEF TypeInv, WellFormed, StopNext, ResumeNext, Deploying, Handler
<1>2. CountersTypeOK'
  BY FaultsType DEF TypeInv, StopNext, ResumeNext
<1>3. PICK c : \/ /\ StopContainer(c) \/ StartContainer(c)
                  /\ \E l \in {h.pc, "stopped", "resumed"} :
                       h' = [h EXCEPT !.todo = @ \ {c}, !.pc = l]
                  /\ UNCHANGED agentVars
               \/ GiveUp(Idle) /\ UNCHANGED dockerVars
  BY DEF StopNext, ResumeNext
<1>4. DockerTypeOK'
  <2>1. StopContainer(c) \/ StartContainer(c) \/ UNCHANGED dockerVars
    BY <1>3
  <2> QED
    BY <2>1, DockerCallsType, ContainerCallsType DEF TypeInv
<1>5. RecordsTypeOK'
  BY <1>1, <1>3, SameRecordsType, GiveUpType DEF TypeInv
<1>6. h.todo \ {c} \in SUBSET Containers
  BY <1>1
<1>7. \/ h' = Idle
      \/ \E l \in {h.pc, "stopped", "resumed"} :
            h' = [h EXCEPT !.todo = h.todo \ {c}, !.pc = l]
  BY <1>3 DEF GiveUp
<1>8. WellFormed(h')
  <2>1. CASE h' = Idle
    BY <2>1, IdleWellFormed
  <2>2. ASSUME NEW l \in {h.pc, "stopped", "resumed"},
               h' = [h EXCEPT !.todo = h.todo \ {c}, !.pc = l]
        PROVE  WellFormed(h')
    <3>1. l \in PC /\ l \notin Deploying \cup {"add", "nextApp"}
      BY <1>1 DEF PC, Deploying
    <3> QED
      BY <1>1, <1>6, <2>2, <3>1, TodoWellFormed
  <2> QED
    BY <1>7, <2>1, <2>2
<1> QED
  BY <1>2, <1>4, <1>5, <1>8 DEF TypeInv

(***************************************************************************)
(* The end of STOP and RESUME.                                             *)
(***************************************************************************)
LEMMA FinishStopResumeType ==
  ASSUME TypeInv, FinishStop \/ FinishResume, UNCHANGED restarts
  PROVE  TypeInv'
<1>1. h.app \in Apps
  BY DEF TypeInv, WellFormed, FinishStop, FinishResume
<1>2. DockerTypeOK' /\ CountersTypeOK'
  BY DockerCallsType, FaultsType DEF TypeInv, FinishStop, FinishResume, NoFault, historyVars
<1>3. RecordsTypeOK'
  BY <1>1, SetStatusType DEF TypeInv, FinishStop, FinishResume, EdgeAppStatus
<1>4. WellFormed(h')
  BY IdleWellFormed DEF FinishStop, FinishResume
<1> QED
  BY <1>2, <1>3, <1>4 DEF TypeInv

(***************************************************************************)
(* The part of UndeployEdgeApp and RemoveEdgeApp that the handler is in.   *)
(***************************************************************************)
Undeploying == {"undeploy", "listToRemove", "removeContainer", "prune", "undeployed",
                "listImages", "listUsers", "removeImage", "deleteRecord"}

LEMMA UndeployingType ==
  ASSUME WellFormed(h), h.pc \in Undeploying
  PROVE  /\ h \in Handler /\ h.app \in Apps /\ h.pc \in PC
         /\ h.pc \notin Deploying \cup {"idle", "add", "nextApp", "deleteNode"}
         /\ h.todo \in SUBSET Containers /\ h.unused \in SUBSET ImageIDs
  BY DEF WellFormed, Undeploying, Deploying, Handler

(***************************************************************************)
(* A handler that stays in UndeployEdgeApp or RemoveEdgeApp.               *)
(***************************************************************************)
LEMMA UndeployingWellFormed ==
  ASSUME WellFormed(h), h.pc \in Undeploying,
         NEW l \in Undeploying, NEW todo \in SUBSET Containers,
         NEW unused \in SUBSET ImageIDs, NEW failed \in BOOLEAN
  PROVE  /\ WellFormed([h EXCEPT !.pc = l])
         /\ WellFormed([h EXCEPT !.pc = l, !.failed = failed])
         /\ WellFormed([h EXCEPT !.unused = unused, !.pc = l])
         /\ WellFormed([h EXCEPT !.pc = l, !.unused = unused])
         /\ WellFormed([h EXCEPT !.unused = unused, !.failed = failed])
<1> USE DEF WellFormed, Handler, PC, Undeploying, Deploying
<1>1. WellFormed([h EXCEPT !.pc = l])
  OBVIOUS
<1>2. WellFormed([h EXCEPT !.pc = l, !.failed = failed])
  OBVIOUS
<1>3. WellFormed([h EXCEPT !.unused = unused, !.pc = l])
  OBVIOUS
<1>4. WellFormed([h EXCEPT !.pc = l, !.unused = unused])
  OBVIOUS
<1>5. WellFormed([h EXCEPT !.unused = unused, !.failed = failed])
  <2> DEFINE n == [h EXCEPT !.unused = unused, !.failed = failed]
  <2>1. /\ n \in Handler /\ n.pc = h.pc
        /\ n.app = h.app /\ n.man = h.man /\ n.mode = h.mode
    OBVIOUS
  <2> HIDE DEF n
  <2>2. WellFormed(n)
    BY <2>1
  <2> QED
    BY <2>2 DEF n
<1> QED
  BY <1>1, <1>2, <1>3, <1>4, <1>5

(***************************************************************************)
(* BeginUndeploy and FinishUndeploy, which only set a status.              *)
(***************************************************************************)
LEMMA BeginUndeployType ==
  ASSUME TypeInv, BeginUndeploy, UNCHANGED restarts
  PROVE  TypeInv'
<1>1. WellFormed(h) /\ h.pc \in Undeploying /\ h.app \in Apps
  BY UndeployingType DEF TypeInv, BeginUndeploy, Undeploying
<1>2. DockerTypeOK' /\ CountersTypeOK'
  BY DockerCallsType, FaultsType DEF TypeInv, BeginUndeploy, NoFault, historyVars
<1>3. RecordsTypeOK'
  BY <1>1, SetStatusType DEF TypeInv, BeginUndeploy, EdgeAppStatus
<1>4. WellFormed(h')
  BY <1>1, UndeployingWellFormed DEF BeginUndeploy, Undeploying
<1> QED
  BY <1>2, <1>3, <1>4 DEF TypeInv

LEMMA FinishUndeployType ==
  ASSUME TypeInv, FinishUndeploy, UNCHANGED restarts
  PROVE  TypeInv'
<1>1. WellFormed(h) /\ h.pc \in Undeploying /\ h.app \in Apps
  BY UndeployingType DEF TypeInv, FinishUndeploy, Undeploying
<1>2. DockerTypeOK'
  BY DockerCallsType DEF TypeInv, FinishUndeploy
<1>3. CountersTypeOK'
  BY DEF TypeInv, CountersTypeOK, FinishUndeploy
<1>4. RecordsTypeOK'
  BY <1>1, SetStatusType DEF TypeInv, FinishUndeploy, EdgeAppStatus
<1>5. WellFormed(h')
  BY <1>1, IdleWellFormed, UndeployingWellFormed DEF FinishUndeploy, Goto, Undeploying
<1> QED
  BY <1>2, <1>3, <1>4, <1>5 DEF TypeInv

(***************************************************************************)
(* Leaving UndeployEdgeApp or RemoveEdgeApp with status Error.             *)
(***************************************************************************)
LEMMA GiveUpReturnedType ==
  ASSUME TypeInv, h.pc \in Undeploying, GiveUp(Returned(TRUE))
  PROVE  RecordsTypeOK' /\ WellFormed(h')
<1>1. WellFormed(h) /\ h.app \in Apps /\ h.pc \notin Deploying
  BY UndeployingType DEF TypeInv
<1>2. RecordsTypeOK' /\ h' = Returned(TRUE)
  BY <1>1, GiveUpType DEF TypeInv
<1> QED
  BY <1>1, <1>2, ReturnedWellFormed

(***************************************************************************)
(* The loop over the containers to remove.                                 *)
(***************************************************************************)
LEMMA RemoveLoopType ==
  ASSUME WellFormed(h), h.pc \in Undeploying, NEW todo \in SUBSET Containers
  PROVE  WellFormed(RemoveLoop(todo)) /\ WellFormed(Noted(RemoveLoop(todo)))
<1>1. PICK l \in {"prune", "removeContainer"} :
           RemoveLoop(todo) = [h EXCEPT !.todo = todo, !.pc = l]
  BY DEF RemoveLoop
<1> DEFINE n == [h EXCEPT !.todo = todo, !.pc = l]
           m == [n EXCEPT !.failed = TRUE]
<1>2. /\ n \in Handler /\ n.pc = l
      /\ n.app = h.app /\ n.man = h.man /\ n.mode = h.mode
  BY UndeployingType DEF Handler, PC
<1>3. /\ m \in Handler /\ m.pc = l
      /\ m.app = h.app /\ m.man = h.man /\ m.mode = h.mode
  BY <1>2 DEF Handler
<1>4. Noted(RemoveLoop(todo)) = m
  BY <1>1 DEF Noted
<1> HIDE DEF n, m
<1>5. WellFormed(n) /\ WellFormed(m)
  BY <1>2, <1>3, UndeployingType DEF WellFormed, Deploying
<1> QED
  BY <1>1, <1>4, <1>5 DEF n

(***************************************************************************)
(* The list of containers to remove.                                       *)
(***************************************************************************)
LEMMA ListToRemoveType ==
  ASSUME TypeInv, ListToRemove, UNCHANGED restarts
  PROVE  TypeInv'
<1>1. WellFormed(h) /\ h.pc \in Undeploying
  BY DEF TypeInv, ListToRemove, Undeploying
<1>2. DockerTypeOK' /\ CountersTypeOK'
  BY DockerCallsType, FaultsType DEF TypeInv, ListToRemove
<1>3. CASE h' = RemoveLoop(ReadEdgeAppContainers(h.app)) /\ UNCHANGED agentVars
  BY <1>1, <1>2, <1>3, ListType, RemoveLoopType, SameRecordsType DEF TypeInv
<1>4. CASE GiveUp(Returned(TRUE))
  BY <1>1, <1>2, <1>4, GiveUpReturnedType DEF TypeInv
<1> QED
  BY <1>3, <1>4 DEF ListToRemove

(***************************************************************************)
(* The removal of a container.                                             *)
(***************************************************************************)
LEMMA RemoveNextType ==
  ASSUME TypeInv, RemoveNext, UNCHANGED restarts
  PROVE  TypeInv'
<1>1. WellFormed(h) /\ h.pc \in Undeploying /\ h.app \in Apps
  BY UndeployingType DEF TypeInv, RemoveNext, Undeploying
<1>2. CountersTypeOK'
  BY FaultsType DEF TypeInv, RemoveNext
<1>3. PICK c : \/ /\ RemoveContainer(c)
                  /\ h' = RemoveLoop(h.todo \ {c})
                  /\ UNCHANGED agentVars
               \/ /\ FailToRemoveContainer(c)
                  /\ GiveUp(Noted(RemoveLoop(h.todo \ {c})))
  BY DEF RemoveNext
<1>4. h.todo \ {c} \in SUBSET Containers
  BY <1>1, UndeployingType
<1>5. RemoveContainer(c) \/ FailToRemoveContainer(c)
  BY <1>3
<1>6. DockerTypeOK'
  BY <1>5, ContainerCallsType DEF TypeInv
<1>7. WellFormed(h')
  BY <1>1, <1>3, <1>4, RemoveLoopType DEF GiveUp
<1>8. RecordsTypeOK'
  BY <1>1, <1>3, SameRecordsType, GiveUpType DEF TypeInv
<1> QED
  BY <1>2, <1>6, <1>7, <1>8 DEF TypeInv

(***************************************************************************)
(* NetworkPrune.                                                           *)
(***************************************************************************)
LEMMA PruneType ==
  ASSUME TypeInv, Prune, UNCHANGED restarts
  PROVE  TypeInv'
<1>1. WellFormed(h) /\ h.pc \in Undeploying /\ h.app \in Apps /\ h.pc \notin Deploying
  BY UndeployingType DEF TypeInv, Prune, Undeploying
<1>2. CountersTypeOK'
  BY FaultsType DEF TypeInv, Prune
<1>3. NetworkPrune(h.app) \/ UNCHANGED dockerVars
  BY DEF Prune
<1>4. DockerTypeOK'
  BY <1>3, DockerCallsType DEF TypeInv
<1>5. \/ /\ h' = Returned(TRUE) \/ h' = [h EXCEPT !.pc = "undeployed"]
         /\ UNCHANGED agentVars
      \/ GiveUp(Returned(TRUE))
  BY DEF Prune
<1>6. WellFormed([h EXCEPT !.pc = "undeployed"])
  BY <1>1, UndeployingWellFormed DEF Undeploying
<1>7. RecordsTypeOK' /\ WellFormed(h')
  BY <1>1, <1>5, <1>6, SameRecordsType, ReturnedWellFormed, GiveUpReturnedType DEF TypeInv
<1> QED
  BY <1>2, <1>4, <1>7 DEF TypeInv

(***************************************************************************)
(* The lists of images and of their users.                                 *)
(***************************************************************************)
LEMMA ListImagesType ==
  ASSUME TypeInv, ListImages \/ ListUsers, UNCHANGED restarts
  PROVE  TypeInv'
<1>1. /\ WellFormed(h) /\ h.pc \in Undeploying
      /\ h.unused \in SUBSET ImageIDs
  BY UndeployingType DEF TypeInv, ListImages, ListUsers, Undeploying
<1>2. DockerTypeOK' /\ CountersTypeOK'
  BY DockerCallsType, FaultsType DEF TypeInv, ListImages, ListUsers
<1>3. \/ /\ \/ h' = [h EXCEPT !.pc = "deleteRecord"]
            \/ \E unused \in SUBSET ImageIDs :
                  h' = [h EXCEPT !.pc = "listUsers", !.unused = unused]
            \/ \E unused \in SUBSET ImageIDs, l \in {"deleteRecord", "removeImage"} :
                  h' = [h EXCEPT !.unused = unused, !.pc = l]
         /\ UNCHANGED agentVars
      \/ GiveUp(Returned(TRUE))
  <2>1. CASE ListImages
    <3>1. GetImagesByName(removeImageNames) \in SUBSET ImageIDs
      BY ImagesByNameType DEF TypeInv
    <3> QED
      BY <2>1, <3>1 DEF ListImages, Goto
  <2>2. CASE ListUsers
    <3>1. {i \in h.unused : HasNoUser(i)} \in SUBSET ImageIDs
      BY <1>1
    <3> QED
      BY <2>2, <3>1 DEF ListUsers
  <2> QED
    BY <2>1, <2>2
<1>4. CASE UNCHANGED agentVars /\ h' = [h EXCEPT !.pc = "deleteRecord"]
  BY <1>1, <1>2, <1>4, SameRecordsType, UndeployingWellFormed DEF TypeInv, Undeploying
<1>5. CASE /\ \E unused \in SUBSET ImageIDs :
                 h' = [h EXCEPT !.pc = "listUsers", !.unused = unused]
           /\ UNCHANGED agentVars
  BY <1>1, <1>2, <1>5, SameRecordsType, UndeployingWellFormed DEF TypeInv, Undeploying
<1>6. CASE /\ \E unused \in SUBSET ImageIDs, l \in {"deleteRecord", "removeImage"} :
                 h' = [h EXCEPT !.unused = unused, !.pc = l]
           /\ UNCHANGED agentVars
  <2>1. PICK unused \in SUBSET ImageIDs, l \in {"deleteRecord", "removeImage"} :
             h' = [h EXCEPT !.unused = unused, !.pc = l]
    BY <1>6
  <2>2. l \in Undeploying
    BY DEF Undeploying
  <2>3. WellFormed(h')
    BY <1>1, <2>1, <2>2, UndeployingWellFormed
  <2> QED
    BY <1>2, <1>6, <2>3, SameRecordsType DEF TypeInv
<1>7. CASE GiveUp(Returned(TRUE))
  BY <1>1, <1>2, <1>7, GiveUpReturnedType DEF TypeInv
<1> QED
  BY <1>3, <1>4, <1>5, <1>6, <1>7

(***************************************************************************)
(* The removal of an image.                                                *)
(***************************************************************************)
LEMMA RemoveImageType ==
  ASSUME TypeInv, RemoveImage, UNCHANGED restarts
  PROVE  TypeInv'
<1>1. /\ WellFormed(h) /\ h.pc = "removeImage" /\ h.pc \in Undeploying
      /\ h.app \in Apps /\ h.pc \notin Deploying
      /\ h \in Handler /\ h.unused \in SUBSET ImageIDs /\ h.failed \in BOOLEAN
  BY UndeployingType DEF TypeInv, RemoveImage, Undeploying, Handler
<1>2. PICK i \in h.unused, err \in BOOLEAN :
         LET rest == [h EXCEPT !.unused = @ \ {i}, !.failed = @ \/ err]
         IN  /\ IF err THEN /\ IF MayRefuseImage(i) THEN NoFault ELSE Fault
                            /\ SetStatus(h.app, "Error")
                            /\ UNCHANGED dockerVars
                       ELSE /\ CanRemoveImage(i) /\ ImageRemove(i)
                            /\ NoFault
                            /\ UNCHANGED agentVars
             /\ h' = IF rest.unused # {} THEN rest ELSE AfterImages(rest)
  BY DEF RemoveImage
<1>3. CountersTypeOK'
  BY <1>2, FaultsType DEF TypeInv, RemoveImage
<1>4. ImageRemove(i) \/ UNCHANGED dockerVars
  BY <1>2
<1>5. DockerTypeOK'
  BY <1>4, DockerCallsType DEF TypeInv
<1>6. SetStatus(h.app, "Error") \/ UNCHANGED agentVars
  BY <1>2
<1>7. RecordsTypeOK'
  BY <1>1, <1>6, SetStatusType, SameRecordsType DEF TypeInv, EdgeAppStatus
<1>8. WellFormed(h')
  <2> DEFINE unused == h.unused \ {i}
             failed == h.failed \/ err
             rest == [h EXCEPT !.unused = unused, !.failed = failed]
  <2>1. unused \in SUBSET ImageIDs /\ failed \in BOOLEAN
    BY <1>1
  <2>2. h' = IF rest.unused # {} THEN rest ELSE AfterImages(rest)
    BY <1>2
  <2> HIDE DEF unused, failed
  <2>3. WellFormed(rest)
    BY <1>1, <2>1, UndeployingWellFormed
  <2>4. /\ rest \in Handler /\ rest.pc = "removeImage" /\ rest.app = h.app
        /\ rest.man = h.man /\ rest.mode = h.mode
    BY <1>1, <2>1 DEF Handler
  <2> HIDE DEF rest
  <2>5. WellFormed([rest EXCEPT !.pc = "deleteRecord"])
    <3> DEFINE n == [rest EXCEPT !.pc = "deleteRecord"]
    <3>1. /\ n \in Handler /\ n.pc = "deleteRecord" /\ n.app = h.app
          /\ n.man = h.man /\ n.mode = h.mode
      BY <2>4 DEF Handler, PC
    <3> HIDE DEF n
    <3>2. WellFormed(n)
      BY <1>1, <3>1 DEF WellFormed, Deploying
    <3> QED
      BY <3>2 DEF n
  <2>6. WellFormed(Returned(TRUE))
    BY <1>1, ReturnedWellFormed
  <2> QED
    BY <2>2, <2>3, <2>5, <2>6 DEF AfterImages
<1> QED
  BY <1>3, <1>5, <1>7, <1>8 DEF TypeInv

(***************************************************************************)
(* The deletion of a record.                                               *)
(***************************************************************************)
LEMMA DeleteRecordType ==
  ASSUME TypeInv, DeleteRecord, UNCHANGED restarts
  PROVE  TypeInv'
<1>1. WellFormed(h) /\ h.pc \in Undeploying /\ h.app \in Apps /\ h.pc \notin Deploying
  BY UndeployingType DEF TypeInv, DeleteRecord, Undeploying
<1>2. DockerTypeOK' /\ CountersTypeOK'
  BY DockerCallsType, FaultsType DEF TypeInv, DeleteRecord
<1>3. RecordsTypeOK'
  BY DEF TypeInv, DeleteRecord, RecordsTypeOK
<1>4. WellFormed(h')
  BY <1>1, ReturnedWellFormed DEF DeleteRecord
<1> QED
  BY <1>2, <1>3, <1>4 DEF TypeInv
-----------------------------------------------------------------------------
(* The deletion of the node, and what happens around the handler *)

(***************************************************************************)
(* The deletion of the node.                                               *)
(***************************************************************************)
LEMMA DeleteNodeType ==
  ASSUME TypeInv, DeleteNode \/ RemoveNextApp \/ FinishDeleteNode, UNCHANGED restarts
  PROVE  TypeInv'
<1>1. DockerTypeOK' /\ CountersTypeOK'
  BY DockerCallsType, FaultsType
     DEF TypeInv, DeleteNode, RemoveNextApp, FinishDeleteNode, NoFault, historyVars
<1>2. RecordsTypeOK'
  BY DEF TypeInv, RecordsTypeOK, NodeStatus, agentVars,
         DeleteNode, RemoveNextApp, FinishDeleteNode
<1>3. h \in Handler /\ Idle \in Handler
  BY IdleWellFormed DEF TypeInv, WellFormed
<1>4. WellFormed(h')
  <2>1. CASE DeleteNode
    <3>1. h' = [Idle EXCEPT !.pc = "nextApp", !.mode = "removeAll"]
      BY <2>1 DEF DeleteNode
    <3>2. h' \in Handler /\ h'.pc = "nextApp" /\ h'.mode = "removeAll"
      BY <1>3, <3>1 DEF Handler, PC, Mode
    <3> QED
      BY <3>2 DEF WellFormed, Deploying
  <2>2. CASE RemoveNextApp
    <3>1. WellFormed(h) /\ h.pc = "nextApp"
      BY <2>2 DEF TypeInv, RemoveNextApp
    <3>2. CASE \E a \in Apps : h' = [h EXCEPT !.pc = "undeploy", !.app = a]
      <4>1. PICK a \in Apps : h' = [h EXCEPT !.pc = "undeploy", !.app = a]
        BY <3>2
      <4>2. h' \in Handler /\ h'.pc = "undeploy" /\ h'.app = a /\ h'.mode = h.mode
        BY <1>3, <4>1 DEF Handler, PC
      <4>3. h.mode # "update"
        BY <3>1 DEF WellFormed
      <4> QED
        BY <4>2, <4>3 DEF WellFormed, Deploying
    <3>3. CASE Goto("deleteNode")
      <4>1. "deleteNode" \in PC
        BY DEF PC
      <4> QED
        BY <1>3, <3>1, <3>3, <4>1, GotoType DEF WellFormed, Deploying
    <3> QED
      BY <2>2, <3>2, <3>3 DEF RemoveNextApp
  <2>3. CASE FinishDeleteNode
    BY <2>3, IdleWellFormed DEF FinishDeleteNode
  <2> QED
    BY <2>1, <2>2, <2>3
<1> QED
  BY <1>1, <1>2, <1>4 DEF TypeInv

(***************************************************************************)
(* The writing of the log times, a restart, and what containers do.        *)
(***************************************************************************)
LEMMA SurroundingsType ==
  ASSUME TypeInv
  PROVE  /\ SetLastLogRead /\ UNCHANGED restarts => TypeInv'
         /\ Restart => TypeInv'
         /\ ContainerChanges /\ UNCHANGED restarts => TypeInv'
         /\ UNCHANGED vars => TypeInv'
<1>1. ASSUME SetLastLogRead, UNCHANGED restarts PROVE TypeInv'
  <2>1. h' = h
    BY <1>1 DEF SetLastLogRead
  <2>2. DockerTypeOK' /\ CountersTypeOK'
    BY <1>1, DockerCallsType, FaultsType DEF TypeInv, SetLastLogRead, NoFault, historyVars
  <2>3. RecordsTypeOK'
    BY <1>1 DEF TypeInv, SetLastLogRead, RecordsTypeOK
  <2> QED
    BY <2>1, <2>2, <2>3 DEF TypeInv
<1>2. ASSUME Restart PROVE TypeInv'
  <2>1. WellFormed(h')
    BY <1>2, IdleWellFormed DEF Restart
  <2>2. DockerTypeOK'
    BY <1>2, DockerCallsType DEF TypeInv, Restart
  <2>3. RecordsTypeOK'
    BY <1>2 DEF TypeInv, Restart, RecordsTypeOK, NodeStatus
  <2>4. CountersTypeOK'
    BY <1>2, EdgeAppAssumption DEF TypeInv, Restart, CountersTypeOK
  <2> QED
    BY <2>1, <2>2, <2>3, <2>4 DEF TypeInv
<1>3. ASSUME ContainerChanges, UNCHANGED restarts PROVE TypeInv'
  <2>1. h' = h
    BY <1>3 DEF ContainerChanges
  <2>2. RecordsTypeOK' /\ CountersTypeOK'
    BY <1>3, SameRecordsType, FaultsType DEF TypeInv, ContainerChanges, NoFault, historyVars
  <2>3. \E c : \/ ContainerExits(c) \/ ContainerFails(c) \/ ContainerRestarts(c)
               \/ ContainerGivesUp(c) \/ RemovedByHand(c)
    BY <1>3 DEF ContainerChanges
  <2>4. DockerTypeOK'
    BY <2>3, ContainerCallsType DEF TypeInv
  <2> QED
    BY <2>1, <2>2, <2>4 DEF TypeInv
<1>4. ASSUME UNCHANGED vars PROVE TypeInv'
  <2>1. UNCHANGED <<h, restarts, dockerVars, agentVars, faults, historyVars>>
    BY <1>4 DEF vars, dockerVars, agentVars, historyVars
  <2>2. DockerTypeOK' /\ RecordsTypeOK' /\ CountersTypeOK'
    BY <2>1, DockerCallsType, SameRecordsType, FaultsType DEF TypeInv, NoFault
  <2> QED
    BY <2>1, <2>2 DEF TypeInv
<1> QED
  BY <1>1, <1>2, <1>3, <1>4
-----------------------------------------------------------------------------
(***************************************************************************)
(* The initial state is well-typed.                                        *)
(***************************************************************************)
LEMMA InitType == Init => TypeInv
<1> SUFFICES ASSUME Init PROVE TypeInv
  OBVIOUS
<1>1. DockerTypeOK
  BY DEF Init, DockerInit, DockerTypeOK, ContainerState, Absent
<1>2. RecordsTypeOK /\ CountersTypeOK
  BY EdgeAppAssumption DEF Init, RecordsTypeOK, CountersTypeOK, NodeStatus
<1>3. WellFormed(h)
  BY IdleWellFormed DEF Init
<1> QED
  BY <1>1, <1>2, <1>3 DEF TypeInv

(***************************************************************************)
(* Every step keeps the variables well-typed.                              *)
(***************************************************************************)
LEMMA StepType ==
  ASSUME TypeInv, [Next]_vars
  PROVE  TypeInv'
<1>1. CASE Handle
  <2>1. HandlerStep /\ UNCHANGED restarts
    BY <1>1 DEF Handle
  <2> QED
    BY <2>1, AddNewVersionType, InspectImageType, PullType, CreateNetworkType,
       CreateType, StartType, FinishDeployType, ListToStopResumeType,
       StopResumeNextType, FinishStopResumeType, BeginUndeployType,
       ListToRemoveType, RemoveNextType, PruneType, FinishUndeployType,
       ListImagesType, RemoveImageType, DeleteRecordType, DeleteNodeType
       DEF HandlerStep
<1>2. CASE Command /\ UNCHANGED restarts
  BY <1>2, DeployNewType, DeployUpdateType, CommandType, DeleteNodeType DEF Command
<1>3. CASE \/ (SetLastLogRead \/ ContainerChanges) /\ UNCHANGED restarts
           \/ Restart
           \/ UNCHANGED vars
  BY <1>3, SurroundingsType
<1> QED
  BY <1>1, <1>2, <1>3 DEF Next

(***************************************************************************)
(* In every state of the handlers the records, the host and the handler's  *)
(* variables are well-typed: in particular no loop of a deployment indexes *)
(* a module that does not exist, and network numbers stay in range.        *)
(***************************************************************************)
THEOREM TypeCorrect == Spec => []TypeOK
<1>1. TypeInv => TypeOK
  BY DEF TypeInv, TypeOK, RecordsTypeOK, CountersTypeOK, WellFormed
<1>2. TypeInv /\ [Next]_vars => TypeInv'
  BY StepType
<1> QED
  BY InitType, <1>1, <1>2, PTL DEF Spec

-----------------------------------------------------------------------------
(***************************************************************************)
(* The inductive invariant behind NoOrphans.  NoOrphans alone is not       *)
(* inductive: a restart forgets the records in memory, so the records on   *)
(* disk must account for docker's objects too, but for those of the edge   *)
(* app whose deployment has not yet set a status; and the status is only   *)
(* set to Undeployed if the loop over the containers has missed none.      *)
(***************************************************************************)
\* The handler has, or may have, made objects since AddKnownManifest.
Unsaved == {"create", "start", "deployed", "undeploy"}

InMemory == \A a \in Apps \ interrupted : HasObjects(a) => IsDeployed(a)

Saved == \A a \in Apps \ interrupted :
            HasObjects(a) => IsDeployedOnDisk(a) \/ (h.app = a /\ h.pc \in Unsaved)

DeployingKnown == h.pc \in Deploying => IsDeployed(h.app)

NoneMissed ==
    /\ h.pc \in {"removeContainer", "prune"} /\ ~ h.failed
         => ContainersOf(h.app) \subseteq h.todo
    /\ h.pc = "prune" => h.todo = {}

Emptied == {"undeployed", "listImages", "listUsers", "removeImage", "deleteRecord"}

NothingLeft == h.pc \in Emptied => ~ HasObjects(h.app)

OrphanInv == InMemory /\ Saved /\ DeployingKnown /\ NoneMissed /\ NothingLeft
-----------------------------------------------------------------------------
(* Steps that create nothing *)

Shrinks == Existing' \subseteq Existing /\ networks' \subseteq networks

(***************************************************************************)
(* All calls to docker but the creation of networks and containers, and    *)
(* all that containers do on their own.                                    *)
(***************************************************************************)
LEMMA ShrinkingCalls ==
  ASSUME DockerTypeOK
  PROVE  /\ UNCHANGED dockerVars => Shrinks
         /\ \A i : PullImage(i) \/ ImageRemove(i) => Shrinks
         /\ \A a : NetworkPrune(a) => Shrinks
         /\ \A c, state :
               SetContainer(c, state) /\ (ctr[c] # Absent \/ state = Absent) => Shrinks
<1>1. UNCHANGED dockerVars => Shrinks
  BY DEF Shrinks, Existing, dockerVars
<1>2. \A i : PullImage(i) \/ ImageRemove(i) => Shrinks
  BY DEF Shrinks, Existing, PullImage, ImageRemove
<1>3. \A a : NetworkPrune(a) => Shrinks
  BY DEF Shrinks, Existing, NetworkPrune
<1>4. \A c, state :
         SetContainer(c, state) /\ (ctr[c] # Absent \/ state = Absent) => Shrinks
  <2> SUFFICES ASSUME NEW c, NEW state, SetContainer(c, state),
                      ctr[c] # Absent \/ state = Absent
               PROVE  Shrinks
    OBVIOUS
  <2>1. ctr' = [ctr EXCEPT ![c] = state] /\ networks' = networks
    BY DEF SetContainer
  <2>2. ASSUME NEW d \in Containers, ctr'[d] # Absent
        PROVE  ctr[d] # Absent
    <3>1. CASE d = c
      BY <2>1, <2>2, <3>1 DEF DockerTypeOK
    <3>2. CASE d # c
      BY <2>1, <2>2, <3>2 DEF DockerTypeOK
    <3> QED
      BY <3>1, <3>2
  <2> QED
    BY <2>1, <2>2 DEF Shrinks, Existing
<1> QED
  BY <1>1, <1>2, <1>3, <1>4

(***************************************************************************)
(* What shrinks, shrinks for every edge app.                               *)
(***************************************************************************)
LEMMA ObjectsShrink ==
  ASSUME Shrinks, NEW a
  PROVE  /\ ContainersOf(a)' \subseteq ContainersOf(a)
         /\ HasObjects(a)' => HasObjects(a)
  BY DEF Shrinks, ContainersOf, NetworksOf, HasObjects

(***************************************************************************)
(* A step that creates nothing, and sets no status but for the handler's   *)
(* edge app, and not to Undeployed.                                        *)
(***************************************************************************)
Statuses == EdgeAppStatus \ {"Undeployed"}

Quiet ==
    /\ Shrinks
    /\ UNCHANGED interrupted
    /\ UNCHANGED <<known, disk>> \/ \E s \in Statuses : SetStatus(h.app, s)

(***************************************************************************)
(* setAndSendStatus writes all records, and forgets none.                  *)
(***************************************************************************)
LEMMA SetStatusSaves ==
  ASSUME RecordsTypeOK, h.app \in Apps, NEW s \in Statuses, SetStatus(h.app, s),
         NEW a \in Apps, IsDeployed(a)
  PROVE  /\ IsDeployed(a)'
         /\ IsDeployedOnDisk(a)' \/ (h.app # a /\ UNCHANGED <<known, disk>>)
<1>1. CASE IsKnown(h.app)
  <2>1. known' = [known EXCEPT ![h.app] = [man |-> known[h.app].man, status |-> s]]
    BY <1>1 DEF SetStatus
  <2>2. disk' = known'
    BY <1>1 DEF SetStatus
  <2>3. known[h.app] \in ManifestRecord /\ s \in EdgeAppStatus
    BY <1>1 DEF IsKnown, RecordsTypeOK, Statuses
  <2>4. [man |-> known[h.app].man, status |-> s] \in ManifestRecord
    BY <2>3 DEF ManifestRecord
  <2>5. /\ [man |-> known[h.app].man, status |-> s] # NoRecord
        /\ [man |-> known[h.app].man, status |-> s].status # "Undeployed"
    BY <2>4, NoRecordAssumption DEF Statuses
  <2>6. known'[a] # NoRecord /\ known'[a].status # "Undeployed"
    <3>1. CASE a = h.app
      BY <2>1, <2>5, <3>1 DEF RecordsTypeOK
    <3>2. CASE a # h.app
      BY <2>1, <3>2 DEF RecordsTypeOK, IsDeployed, IsKnown
    <3> QED
      BY <3>1, <3>2
  <2> QED
    BY <2>2, <2>6 DEF IsDeployed, IsKnown, IsDeployedOnDisk
<1>2. CASE ~ IsKnown(h.app)
  <2>1. UNCHANGED <<known, disk>>
    BY <1>2 DEF SetStatus, agentVars
  <2> QED
    BY <1>2, <2>1 DEF IsDeployed, IsKnown, IsDeployedOnDisk
<1> QED
  BY <1>1, <1>2

(***************************************************************************)
(* Unchanged records.                                                      *)
(***************************************************************************)
LEMMA SameRecords ==
  ASSUME UNCHANGED <<known, disk>>, NEW a
  PROVE  (IsDeployed(a)' <=> IsDeployed(a)) /\ (IsDeployedOnDisk(a)' <=> IsDeployedOnDisk(a))
  BY DEF IsDeployed, IsKnown, IsDeployedOnDisk

(***************************************************************************)
(* A quiet step keeps docker's objects accounted for, in memory and on     *)
(* disk, if a handler that has unsaved objects goes on with them.          *)
(***************************************************************************)
LEMMA QuietAccounts ==
  ASSUME TypeInv, InMemory, Saved, Quiet,
         UNCHANGED <<known, disk>> \/ h.app \in Apps,
         h.pc \in Unsaved /\ UNCHANGED <<known, disk>>
           => h'.app = h.app /\ h'.pc \in Unsaved
  PROVE  InMemory' /\ Saved'
<1> SUFFICES ASSUME NEW a \in Apps, a \notin interrupted, HasObjects(a)'
             PROVE  /\ IsDeployed(a)'
                    /\ IsDeployedOnDisk(a)' \/ (h'.app = a /\ h'.pc \in Unsaved)
  BY DEF Quiet, InMemory, Saved
<1>1. HasObjects(a)
  BY ObjectsShrink DEF Quiet
<1>2. IsDeployed(a)
  BY <1>1 DEF InMemory
<1>3. IsDeployedOnDisk(a) \/ (h.app = a /\ h.pc \in Unsaved)
  BY <1>1 DEF Saved
<1>4. CASE UNCHANGED <<known, disk>>
  <2>1. IsDeployed(a)' /\ (IsDeployedOnDisk(a)' <=> IsDeployedOnDisk(a))
    BY <1>2, <1>4, SameRecords
  <2> QED
    BY <1>3, <1>4, <2>1
<1>5. CASE ~ UNCHANGED <<known, disk>>
  <2>1. PICK s \in Statuses : SetStatus(h.app, s)
    BY <1>5 DEF Quiet
  <2>2. RecordsTypeOK /\ h.app \in Apps
    BY <1>5 DEF TypeInv
  <2>3. IsDeployed(a)' /\ (IsDeployedOnDisk(a)' \/ (h.app # a /\ UNCHANGED <<known, disk>>))
    BY <1>2, <2>1, <2>2, SetStatusSaves
  <2> QED
    BY <1>5, <2>3
<1> QED
  BY <1>4, <1>5

(***************************************************************************)
(* The places of which the invariant says nothing.                         *)
(***************************************************************************)
Elsewhere == PC \ (Deploying \cup {"removeContainer", "prune"} \cup Emptied)

LEMMA QuietToElsewhere ==
  ASSUME TypeInv, OrphanInv, Quiet, h'.pc \in Elsewhere,
         UNCHANGED <<known, disk>> \/ h.app \in Apps,
         h.pc \in Unsaved /\ UNCHANGED <<known, disk>>
           => h'.app = h.app /\ h'.pc \in Unsaved
  PROVE  OrphanInv'
<1>1. InMemory' /\ Saved'
  BY QuietAccounts DEF OrphanInv
<1>2. DeployingKnown' /\ NoneMissed' /\ NothingLeft'
  BY DEF Elsewhere, DeployingKnown, NoneMissed, NothingLeft
<1> QED
  BY <1>1, <1>2 DEF OrphanInv

(***************************************************************************)
(* UndeployEdgeApp and RemoveEdgeApp return to such places.                *)
(***************************************************************************)
LEMMA ReturnedElsewhere ==
  ASSUME NEW err \in BOOLEAN, h \in Handler
  PROVE  Returned(err).pc \in Elsewhere \ Unsaved
<1> USE DEF Elsewhere, Unsaved, Deploying, Emptied, PC
<1>1. CASE h.mode = "update"
  BY <1>1 DEF Returned, Handler
<1>2. CASE h.mode = "rollbackStart"
  BY <1>2 DEF Returned, Handler
<1>3. CASE h.mode = "removeAll"
  BY <1>3, IdleWellFormed DEF Returned, Handler, WellFormed
<1>4. CASE h.mode \notin {"update", "rollbackStart", "removeAll"}
  BY <1>4 DEF Returned, Idle
<1> QED
  BY <1>1, <1>2, <1>3, <1>4
-----------------------------------------------------------------------------
(* The invariant is inductive *)

(***************************************************************************)
(* What the steps that only make sense inside a command know.              *)
(***************************************************************************)
LEMMA InCommand ==
  ASSUME TypeInv, h.pc \notin {"idle", "nextApp", "deleteNode"}
  PROVE  h \in Handler /\ h.pc \in PC /\ h.app \in Apps
  BY DEF TypeInv, WellFormed, Handler

(***************************************************************************)
(* Errors are reported with a status, and the handler goes on with n.      *)
(***************************************************************************)
LEMMA GiveUpQuiet ==
  ASSUME TypeInv, Shrinks, UNCHANGED interrupted, NEW n, GiveUp(n)
  PROVE  Quiet /\ h' = n
  BY DEF GiveUp, Quiet, Statuses, EdgeAppStatus

(***************************************************************************)
(* DEPLOY: the record appears in memory.                                   *)
(***************************************************************************)
LEMMA NewRecordSafe ==
  ASSUME TypeInv, OrphanInv, NEW m \in Manifests, AddKnownManifest(m),
         UNCHANGED <<dockerVars, interrupted>>,
         h.pc \notin Unsaved, h'.pc = "inspect", h'.app = m.app
  PROVE  OrphanInv'
<1>1. m.app \in Apps
  BY ManifestType
<1>2. /\ known' = [known EXCEPT ![m.app] = [man |-> m, status |-> "Initiated"]]
      /\ disk' = disk
  BY DEF AddKnownManifest
<1>3. [man |-> m, status |-> "Initiated"] \in ManifestRecord
  BY DEF ManifestRecord, EdgeAppStatus
<1>4. /\ [man |-> m, status |-> "Initiated"] # NoRecord
      /\ [man |-> m, status |-> "Initiated"].status = "Initiated"
  BY <1>3, NoRecordAssumption
<1>5. ASSUME NEW a \in Apps
      PROVE  /\ IsDeployed(a) \/ a = m.app => IsDeployed(a)'
             /\ IsDeployedOnDisk(a)' <=> IsDeployedOnDisk(a)
             /\ HasObjects(a)' <=> HasObjects(a)
  <2>1. known \in [Apps -> ManifestRecord \cup {NoRecord}]
    BY DEF TypeInv, RecordsTypeOK
  <2>2. IsDeployed(a) \/ a = m.app => IsDeployed(a)'
    <3>1. CASE a = m.app
      BY <1>1, <1>2, <1>4, <2>1, <3>1 DEF IsDeployed, IsKnown
    <3>2. CASE a # m.app
      BY <1>2, <2>1, <3>2 DEF IsDeployed, IsKnown
    <3> QED
      BY <3>1, <3>2
  <2>3. IsDeployedOnDisk(a)' <=> IsDeployedOnDisk(a)
    BY <1>2 DEF IsDeployedOnDisk
  <2>4. HasObjects(a)' <=> HasObjects(a)
    BY DEF HasObjects, ContainersOf, Existing, NetworksOf, dockerVars
  <2> QED
    BY <2>2, <2>3, <2>4
<1>6. InMemory' /\ Saved'
  BY <1>5 DEF OrphanInv, InMemory, Saved
<1>7. DeployingKnown'
  <2>1. PICK a \in Apps : a = m.app
    BY <1>1
  <2>2. IsDeployed(a)' /\ h'.app = a
    BY <1>5, <2>1
  <2> QED
    BY <2>2 DEF DeployingKnown, IsDeployed, IsKnown
<1>8. NoneMissed' /\ NothingLeft'
  BY DEF NoneMissed, NothingLeft, Emptied
<1> QED
  BY <1>6, <1>7, <1>8 DEF OrphanInv

LEMMA NewVersionSafe ==
  ASSUME TypeInv, OrphanInv
  PROVE  /\ \A m \in Manifests : DeployNew(m) => OrphanInv'
         /\ AddNewVersion => OrphanInv'
<1>1. Idle \in Handler
  BY IdleWellFormed DEF WellFormed
<1>2. ASSUME NEW m \in Manifests, DeployNew(m) PROVE OrphanInv'
  <2>1. h' = [Idle EXCEPT !.pc = "inspect", !.app = m.app, !.man = m, !.idx = 1]
    BY <1>2 DEF DeployNew
  <2>2. h'.pc = "inspect" /\ h'.app = m.app
    BY <1>1, <2>1 DEF Handler
  <2>3. /\ h.pc \notin Unsaved /\ AddKnownManifest(m)
        /\ UNCHANGED <<dockerVars, interrupted>>
    BY <1>2 DEF DeployNew, Unsaved, historyVars
  <2> QED
    BY <2>2, <2>3, NewRecordSafe
<1>3. ASSUME AddNewVersion PROVE OrphanInv'
  <2>1. h.man \in Manifests /\ h.man.app = h.app
    BY <1>3 DEF TypeInv, WellFormed, AddNewVersion
  <2>2. h' = [Idle EXCEPT !.pc = "inspect", !.app = h.app, !.man = h.man, !.idx = 1]
    BY <1>3 DEF AddNewVersion
  <2>3. h'.pc = "inspect" /\ h'.app = h.man.app
    BY <1>1, <2>1, <2>2 DEF Handler
  <2>4. /\ h.pc \notin Unsaved /\ AddKnownManifest(h.man)
        /\ UNCHANGED <<dockerVars, interrupted>>
    BY <1>3 DEF AddNewVersion, Unsaved
  <2> QED
    BY <2>1, <2>3, <2>4, NewRecordSafe
<1> QED
  BY <1>2, <1>3

(***************************************************************************)
(* A quiet step of a handler that stays with its edge app, in the same     *)
(* part of the code.                                                       *)
(***************************************************************************)
LEMMA QuietStays ==
  ASSUME TypeInv, OrphanInv, Quiet,
         UNCHANGED <<known, disk>> \/ (h.pc \in Emptied /\ h.app \in Apps),
         h'.app = h.app,
         h'.pc \in Deploying => h.pc \in Deploying,
         h'.pc \in Emptied => h.pc \in Emptied,
         h'.pc \in {"removeContainer", "prune"} => h' = h,
         h.pc \in Unsaved => h'.pc \in Unsaved
  PROVE  OrphanInv'
<1>1. InMemory' /\ Saved'
  BY QuietAccounts DEF OrphanInv, Emptied
<1>2. DeployingKnown'
  <2>1. CASE h.pc \in Deploying
    BY <2>1, SameRecords DEF OrphanInv, DeployingKnown, IsDeployed, IsKnown, Deploying, Emptied
  <2>2. CASE h.pc \notin Deploying
    BY <2>2 DEF DeployingKnown
  <2> QED
    BY <2>1, <2>2
<1>3. NoneMissed'
  BY DEF OrphanInv, NoneMissed, Quiet, Shrinks, ContainersOf
<1>4. NothingLeft'
  BY DEF OrphanInv, NothingLeft, Quiet, Shrinks, HasObjects, ContainersOf, NetworksOf
<1> QED
  BY <1>1, <1>2, <1>3, <1>4 DEF OrphanInv

(***************************************************************************)
(* ImageExists and PullImage.                                              *)
(***************************************************************************)
LEMMA ImagesSafe ==
  ASSUME TypeInv, OrphanInv, InspectImage \/ Pull
  PROVE  OrphanInv'
<1>1. h \in Handler /\ h.app \in Apps /\ h.pc \in Deploying \ Unsaved
  BY InCommand DEF InspectImage, Pull, Deploying, Unsaved
<1>2. Shrinks
  BY ShrinkingCalls DEF TypeInv, InspectImage, Pull, dockerVars
<1>3. UNCHANGED interrupted
  BY DEF InspectImage, Pull, historyVars
<1>4. \/ (NextImage \/ Goto("pull")) /\ UNCHANGED <<known, disk>>
      \/ h' = Idle /\ UNCHANGED <<known, disk>>
      \/ GiveUp(Rollback("rollback"))
  BY DEF InspectImage, Pull, agentVars
<1>5. CASE (NextImage \/ Goto("pull")) /\ UNCHANGED <<known, disk>>
  <2>1. h'.app = h.app /\ h'.pc \in {"inspect", "network", "pull"}
    BY <1>1, <1>5 DEF NextImage, Goto, Handler
  <2> QED
    BY <1>1, <1>2, <1>3, <1>5, <2>1, QuietStays DEF Quiet, Deploying, Emptied
<1>6. CASE h' = Idle /\ UNCHANGED <<known, disk>>
  BY <1>1, <1>2, <1>3, <1>6, QuietToElsewhere
     DEF Quiet, Idle, Elsewhere, PC, Deploying, Emptied
<1>7. CASE GiveUp(Rollback("rollback"))
  <2>1. Quiet /\ h' = Rollback("rollback")
    BY <1>2, <1>3, <1>7, GiveUpQuiet
  <2>2. h'.pc = "undeploy"
    BY <1>1, <2>1 DEF Rollback, Handler
  <2> QED
    BY <1>1, <2>1, <2>2, QuietToElsewhere DEF Elsewhere, PC, Deploying, Emptied
<1> QED
  BY <1>4, <1>5, <1>6, <1>7

(***************************************************************************)
(* New networks and containers belong to the handler's edge app, which is  *)
(* known.                                                                  *)
(***************************************************************************)
LEMMA NewObjectsSafe ==
  ASSUME TypeInv, OrphanInv, UNCHANGED <<known, disk, interrupted>>,
         h.pc \in Deploying, h'.app = h.app, h'.pc \in {"create", "start"},
         \A a \in Apps : a # h.app /\ HasObjects(a)' => HasObjects(a)
  PROVE  OrphanInv'
<1>1. IsDeployed(h.app)
  BY DEF OrphanInv, DeployingKnown
<1>2. ASSUME NEW a \in Apps, a \notin interrupted, HasObjects(a)'
      PROVE  IsDeployed(a)' /\ (IsDeployedOnDisk(a)' \/ (h'.app = a /\ h'.pc \in Unsaved))
  <2>1. CASE a = h.app
    BY <1>1, <2>1, SameRecords DEF Unsaved
  <2>2. CASE a # h.app
    <3>1. HasObjects(a)
      BY <1>2, <2>2
    <3> QED
      BY <1>2, <2>2, <3>1, SameRecords DEF OrphanInv, InMemory, Saved
  <2> QED
    BY <2>1, <2>2
<1>3. InMemory' /\ Saved'
  BY <1>2 DEF InMemory, Saved
<1>4. DeployingKnown'
  BY <1>1 DEF DeployingKnown, IsDeployed, IsKnown
<1>5. NoneMissed' /\ NothingLeft'
  BY DEF NoneMissed, NothingLeft, Emptied
<1> QED
  BY <1>3, <1>4, <1>5 DEF OrphanInv

(***************************************************************************)
(* CreateNetwork, and the creation and the start of containers.            *)
(***************************************************************************)
LEMMA CreateNetworkSafe ==
  ASSUME TypeInv, OrphanInv, CreateNetwork
  PROVE  OrphanInv'
<1>1. h \in Handler /\ h.app \in Apps /\ h.pc = "network"
  BY InCommand DEF CreateNetwork
<1>2. UNCHANGED interrupted
  BY DEF CreateNetwork, historyVars
<1>3. \/ \E count :
           /\ NetworkCreate([app |-> h.app, num |-> count])
           /\ h' = [h EXCEPT !.pc = "create", !.net = count, !.idx = Len(h.man.modules)]
           /\ UNCHANGED <<known, disk>>
      \/ GiveUp(Rollback("rollback")) /\ UNCHANGED dockerVars
  BY DEF CreateNetwork, agentVars
<1>4. ASSUME NEW count,
             NetworkCreate([app |-> h.app, num |-> count]),
             h' = [h EXCEPT !.pc = "create", !.net = count, !.idx = Len(h.man.modules)],
             UNCHANGED <<known, disk>>
      PROVE  OrphanInv'
  <2>1. h'.app = h.app /\ h'.pc = "create"
    BY <1>1, <1>4 DEF Handler
  <2>2. ASSUME NEW a \in Apps, a # h.app, HasObjects(a)' PROVE HasObjects(a)
    BY <1>4, <2>2 DEF NetworkCreate, HasObjects, ContainersOf, Existing, NetworksOf
  <2> QED
    BY <1>1, <1>2, <1>4, <2>1, <2>2, NewObjectsSafe DEF Deploying
<1>5. CASE GiveUp(Rollback("rollback")) /\ UNCHANGED dockerVars
  <2>1. Quiet /\ h' = Rollback("rollback")
    BY <1>2, <1>5, GiveUpQuiet, ShrinkingCalls DEF TypeInv
  <2>2. h'.pc = "undeploy"
    BY <1>1, <2>1 DEF Rollback, Handler
  <2> QED
    BY <1>1, <2>1, <2>2, QuietToElsewhere DEF Elsewhere, PC, Deploying, Emptied, Unsaved
<1> QED
  BY <1>3, <1>4, <1>5

LEMMA CreateStartSafe ==
  ASSUME TypeInv, OrphanInv, Create \/ Start
  PROVE  OrphanInv'
<1>1. /\ h \in Handler /\ h.app \in Apps /\ h.man.app = h.app
      /\ h.pc \in Deploying \cap Unsaved
  BY InCommand DEF TypeInv, WellFormed, Create, Start, Deploying, Unsaved
<1>2. UNCHANGED <<known, disk, interrupted>>
  BY DEF Create, Start, agentVars, historyVars
<1>3. \/ CreateContainer(Current) /\ Goto("start")
      \/ /\ CanStart(Current) /\ StartContainer(Current)
         /\ Goto("deployed") \/ h' = [h EXCEPT !.pc = "create", !.idx = @ - 1]
      \/ h' = Rollback("rollbackStart") /\ UNCHANGED dockerVars
  BY DEF Create, Start
<1>4. CASE CreateContainer(Current) /\ Goto("start")
  <2>1. h'.app = h.app /\ h'.pc = "start"
    BY <1>1, <1>4 DEF Goto, Handler
  <2>2. Current.man.app = h.app
    BY <1>1 DEF Current
  <2>3. ASSUME NEW c \in Containers, c # Current PROVE ctr'[c] = ctr[c]
    BY <1>4, <2>3 DEF CreateContainer, SetContainer, TypeInv, DockerTypeOK
  <2>4. networks' = networks
    BY <1>4 DEF CreateContainer, SetContainer
  <2>5. ASSUME NEW a \in Apps, a # h.app, HasObjects(a)' PROVE HasObjects(a)
    <3>1. CASE ContainersOf(a)' # {}
      <4>1. PICK c \in Containers : ctr'[c] # Absent /\ c.man.app = a
        BY <3>1 DEF ContainersOf, Existing
      <4>2. ctr[c] # Absent
        BY <2>2, <2>3, <2>5, <4>1
      <4> QED
        BY <4>1, <4>2 DEF HasObjects, ContainersOf, Existing
    <3>2. CASE NetworksOf(a)' # {}
      BY <2>4, <3>2 DEF HasObjects, NetworksOf
    <3> QED
      BY <2>5, <3>1, <3>2 DEF HasObjects
  <2> QED
    BY <1>1, <1>2, <2>1, <2>5, NewObjectsSafe
<1>5. CASE /\ CanStart(Current) /\ StartContainer(Current)
           /\ Goto("deployed") \/ h' = [h EXCEPT !.pc = "create", !.idx = @ - 1]
  <2>1. Shrinks
    BY <1>5, ShrinkingCalls DEF TypeInv, CanStart, StartContainer
  <2>2. h'.app = h.app /\ h'.pc \in {"deployed", "create"}
    BY <1>1, <1>5 DEF Goto, Handler
  <2> QED
    BY <1>1, <1>2, <2>1, <2>2, QuietStays DEF Quiet, Deploying, Emptied, Unsaved
<1>6. CASE h' = Rollback("rollbackStart") /\ UNCHANGED dockerVars
  <2>1. Shrinks
    BY <1>6, ShrinkingCalls DEF TypeInv
  <2>2. h'.app = h.app /\ h'.pc = "undeploy"
    BY <1>1, <1>6 DEF Rollback, Handler
  <2> QED
    BY <1>1, <1>2, <2>1, <2>2, QuietToElsewhere
       DEF Quiet, Elsewhere, PC, Deploying, Emptied, Unsaved
<1> QED
  BY <1>3, <1>4, <1>5, <1>6

(***************************************************************************)
(* A command that begins.                                                  *)
(***************************************************************************)
LEMMA CommandSafe ==
  ASSUME TypeInv, OrphanInv,
         \/ \E m \in Manifests : DeployUpdate(m)
         \/ \E a \in Apps : Stop(a) \/ Resume(a) \/ Undeploy(a) \/ Remove(a)
         \/ DeleteNode \/ RemoveNextApp \/ FinishDeleteNode
  PROVE  OrphanInv'
<1>1. h \in Handler /\ Idle \in Handler
  BY IdleWellFormed DEF TypeInv, WellFormed
<1>2. /\ h.pc \notin Unsaved
      /\ UNCHANGED <<dockerVars, known, disk, interrupted>>
  BY DEF DeployUpdate, Stop, Resume, Undeploy, Remove, UndeployOrRemove, DeleteNode,
         RemoveNextApp, FinishDeleteNode, agentVars, historyVars, Unsaved
<1>3. Quiet
  BY <1>2, ShrinkingCalls DEF TypeInv, Quiet
<1>4. h'.pc \in {"undeploy", "listToStop", "listToResume", "nextApp", "deleteNode", "idle"}
  <2>1. CASE \E m \in Manifests : DeployUpdate(m)
    BY <1>1, <2>1 DEF DeployUpdate, Handler
  <2>2. CASE \E a \in Apps : Stop(a) \/ Resume(a) \/ Undeploy(a) \/ Remove(a)
    <3>1. CASE \E a \in Apps : Stop(a) \/ Resume(a)
      BY <1>1, <3>1 DEF Stop, Resume, Handler
    <3>2. CASE \E a \in Apps : Undeploy(a) \/ Remove(a)
      <4>1. PICK a \in Apps, mode \in {"undeploy", "remove"} :
                 h' = [Idle EXCEPT !.pc = "undeploy", !.mode = mode, !.app = a]
        BY <3>2 DEF Undeploy, Remove, UndeployOrRemove
      <4> QED
        BY <1>1, <4>1 DEF Handler
    <3> QED
      BY <2>2, <3>1, <3>2
  <2>3. CASE DeleteNode
    BY <1>1, <2>3 DEF DeleteNode, Handler
  <2>4. CASE RemoveNextApp
    BY <1>1, <2>4 DEF RemoveNextApp, Goto, Handler
  <2>5. CASE FinishDeleteNode
    BY <2>5 DEF FinishDeleteNode, Idle
  <2> QED
    BY <2>1, <2>2, <2>3, <2>4, <2>5
<1> QED
  BY <1>2, <1>3, <1>4, QuietToElsewhere DEF Elsewhere, PC, Deploying, Emptied

(***************************************************************************)
(* The steps that only set a status, but for Undeployed.                   *)
(***************************************************************************)
LEMMA FinishSafe ==
  ASSUME TypeInv, OrphanInv,
         \/ FinishDeploy \/ FinishRollback \/ FinishStop \/ FinishResume
         \/ BeginUndeploy
  PROVE  OrphanInv'
<1>1. h \in Handler /\ h.app \in Apps
  BY InCommand DEF FinishDeploy, FinishRollback, FinishStop, FinishResume, BeginUndeploy
<1>2. /\ UNCHANGED <<dockerVars, interrupted>>
      /\ \E s \in Statuses : SetStatus(h.app, s)
  BY DEF FinishDeploy, FinishRollback, FinishStop, FinishResume, BeginUndeploy, GiveUp,
         Statuses, EdgeAppStatus, historyVars
<1>3. Quiet
  BY <1>2, ShrinkingCalls DEF TypeInv, Quiet
<1>4. h'.pc \in {"idle", "listToRemove"}
  <2>1. h' = Idle \/ h' = [h EXCEPT !.pc = "listToRemove", !.failed = FALSE]
    BY DEF FinishDeploy, FinishRollback, FinishStop, FinishResume, BeginUndeploy, GiveUp
  <2>2. CASE h' = Idle
    BY <2>2 DEF Idle
  <2>3. CASE h' = [h EXCEPT !.pc = "listToRemove", !.failed = FALSE]
    BY <1>1, <2>3 DEF Handler
  <2> QED
    BY <2>1, <2>2, <2>3
<1>5. h'.pc \in Elsewhere
  BY <1>4 DEF Elsewhere, PC, Deploying, Emptied
<1>6. InMemory' /\ Saved'
  <2> SUFFICES ASSUME NEW a \in Apps, a \notin interrupted, HasObjects(a)'
               PROVE  IsDeployed(a)' /\ IsDeployedOnDisk(a)'
    BY <1>2 DEF InMemory, Saved
  <2>1. IsDeployed(a)
    BY <1>3, ObjectsShrink DEF Quiet, OrphanInv, InMemory
  <2>2. PICK s \in Statuses : SetStatus(h.app, s)
    BY <1>2
  <2>3. IsDeployed(a)' /\ (IsDeployedOnDisk(a)' \/ (h.app # a /\ UNCHANGED <<known, disk>>))
    BY <1>1, <2>1, <2>2, SetStatusSaves DEF TypeInv
  <2>4. CASE h.app # a /\ UNCHANGED <<known, disk>>
    <3>1. IsDeployedOnDisk(a)
      BY <1>3, <2>4, ObjectsShrink DEF Quiet, OrphanInv, Saved
    <3> QED
      BY <2>3, <2>4, <3>1, SameRecords
  <2> QED
    BY <2>3, <2>4
<1>7. DeployingKnown' /\ NoneMissed' /\ NothingLeft'
  BY <1>5 DEF Elsewhere, DeployingKnown, NoneMissed, NothingLeft
<1> QED
  BY <1>6, <1>7 DEF OrphanInv

(***************************************************************************)
(* STOP and RESUME.                                                        *)
(***************************************************************************)
LEMMA StopResumeSafe ==
  ASSUME TypeInv, OrphanInv, ListToStop \/ StopNext \/ ListToResume \/ ResumeNext
  PROVE  OrphanInv'
<1>1. h \in Handler /\ h.app \in Apps /\ h.pc \notin Unsaved /\ UNCHANGED interrupted
  BY InCommand DEF ListToStop, StopNext, ListToResume, ResumeNext, Unsaved, historyVars
<1>2. \/ UNCHANGED dockerVars
      \/ \E c : CanStop(c) /\ StopContainer(c)
      \/ \E c : CanStart(c) /\ StartContainer(c)
  BY DEF ListToStop, StopNext, ListToResume, ResumeNext
<1>3. Shrinks
  BY <1>2, ShrinkingCalls
     DEF TypeInv, CanStop, StopContainer, CanStart, StartContainer
<1>4. Quiet
  <2>1. UNCHANGED <<known, disk>> \/ \E s \in Statuses : SetStatus(h.app, s)
    BY DEF ListToStop, StopNext, ListToResume, ResumeNext, GiveUp, agentVars,
           Statuses, EdgeAppStatus
  <2> QED
    BY <1>1, <1>3, <2>1 DEF Quiet
<1>5. h'.pc \in {"idle", "stop", "stopped", "resume", "resumed"}
  <2>1. \/ h' = Idle
        \/ \E todo : \E l \in {"stop", "stopped", "resume", "resumed"} :
              h' = [h EXCEPT !.todo = todo, !.pc = l]
    <3>1. CASE ListToStop \/ ListToResume
      BY <3>1 DEF ListToStop, ListToResume, GiveUp
    <3>2. CASE StopNext
      BY <3>2 DEF StopNext, GiveUp
    <3>3. CASE ResumeNext
      BY <3>3 DEF ResumeNext, GiveUp
    <3> QED
      BY <3>1, <3>2, <3>3
  <2>2. CASE h' = Idle
    BY <2>2 DEF Idle
  <2>3. ASSUME NEW todo, NEW l \in {"stop", "stopped", "resume", "resumed"},
               h' = [h EXCEPT !.todo = todo, !.pc = l]
        PROVE  h'.pc = l
    BY <1>1, <2>3 DEF Handler
  <2> QED
    BY <2>1, <2>2, <2>3
<1> QED
  BY <1>1, <1>4, <1>5, QuietToElsewhere DEF Elsewhere, PC, Deploying, Emptied

(***************************************************************************)
(* An error in UNDEPLOY or REMOVE.                                         *)
(***************************************************************************)
LEMMA GiveUpUndeploySafe ==
  ASSUME TypeInv, OrphanInv, h.pc \in Undeploying \ {"undeploy"},
         Shrinks, UNCHANGED interrupted, NEW err \in BOOLEAN,
         \/ GiveUp(Returned(err))
         \/ h' = Returned(err) /\ UNCHANGED <<known, disk>>
  PROVE  OrphanInv'
<1>1. h \in Handler /\ h.app \in Apps /\ h.pc \notin Unsaved
  BY UndeployingType DEF TypeInv, Undeploying, Unsaved
<1>2. h'.pc \in Elsewhere
  BY <1>1, ReturnedElsewhere DEF GiveUp
<1>3. Quiet
  BY GiveUpQuiet DEF Quiet
<1> QED
  BY <1>1, <1>2, <1>3, QuietToElsewhere

(***************************************************************************)
(* The loop over the containers to remove misses none, but when an error   *)
(* has been noted.                                                         *)
(***************************************************************************)
LEMMA RemoveLoopSafe ==
  ASSUME TypeInv, OrphanInv, Quiet, NEW todo \in SUBSET Containers,
         h.pc \in Undeploying \ {"undeploy"},
         h' \in {RemoveLoop(todo), Noted(RemoveLoop(todo))},
         h' = RemoveLoop(todo) /\ ~ h.failed => ContainersOf(h.app)' \subseteq todo
  PROVE  OrphanInv'
<1>1. h \in Handler /\ h.app \in Apps /\ h.pc \notin Unsaved
  BY UndeployingType DEF TypeInv, Undeploying, Unsaved
<1>2. PICK l \in {"prune", "removeContainer"} :
           /\ RemoveLoop(todo) = [h EXCEPT !.todo = todo, !.pc = l]
           /\ l = "prune" => todo = {}
  BY DEF RemoveLoop
<1>3. /\ h'.pc = l /\ h'.todo = todo /\ h'.app = h.app
      /\ h' = RemoveLoop(todo) => h'.failed = h.failed
      /\ h' = Noted(RemoveLoop(todo)) => h'.failed
  BY <1>1, <1>2 DEF Noted, Handler
<1>4. InMemory' /\ Saved'
  BY <1>1, QuietAccounts DEF OrphanInv
<1>5. NoneMissed'
  BY <1>2, <1>3 DEF NoneMissed, ContainersOf
<1>6. DeployingKnown' /\ NothingLeft'
  BY <1>3 DEF DeployingKnown, NothingLeft, Deploying, Emptied
<1> QED
  BY <1>4, <1>5, <1>6 DEF OrphanInv

LEMMA ListToRemoveSafe ==
  ASSUME TypeInv, OrphanInv, ListToRemove
  PROVE  OrphanInv'
<1>1. h.pc \in Undeploying \ {"undeploy"} /\ UNCHANGED interrupted
  BY DEF ListToRemove, Undeploying, historyVars
<1>2. Shrinks
  BY ShrinkingCalls DEF TypeInv, ListToRemove
<1>3. CASE h' = RemoveLoop(ReadEdgeAppContainers(h.app)) /\ UNCHANGED agentVars
  <2>1. Quiet
    BY <1>1, <1>2, <1>3 DEF Quiet, agentVars
  <2>2. h'.app = h.app
    BY <1>1, <1>3, UndeployingType DEF TypeInv, RemoveLoop, Handler
  <2>3. ContainersOf(h.app)' \subseteq ReadEdgeAppContainers(h.app)
    BY <1>2, <2>2 DEF Shrinks, ContainersOf, ReadEdgeAppContainers
  <2> QED
    BY <1>1, <1>3, <2>1, <2>3, ListType, RemoveLoopSafe
<1>4. CASE GiveUp(Returned(TRUE))
  BY <1>1, <1>2, <1>4, GiveUpUndeploySafe
<1> QED
  BY <1>3, <1>4 DEF ListToRemove

LEMMA RemoveNextSafe ==
  ASSUME TypeInv, OrphanInv, RemoveNext
  PROVE  OrphanInv'
<1>1. /\ h.pc \in Undeploying \ {"undeploy"} /\ h.pc = "removeContainer"
      /\ UNCHANGED interrupted
  BY DEF RemoveNext, Undeploying, historyVars
<1>2. h \in Handler /\ h.app \in Apps /\ h.todo \in SUBSET Containers
  BY <1>1, UndeployingType DEF TypeInv
<1>3. PICK c \in HeadOf(h.todo) :
         \/ /\ RemoveContainer(c)
            /\ h' = RemoveLoop(h.todo \ {c})
            /\ UNCHANGED agentVars
         \/ /\ FailToRemoveContainer(c)
            /\ GiveUp(Noted(RemoveLoop(h.todo \ {c})))
  BY DEF RemoveNext
<1>4. c \in Containers /\ h.todo \ {c} \in SUBSET Containers
  BY <1>2 DEF HeadOf
<1>5. CASE RemoveContainer(c) /\ h' = RemoveLoop(h.todo \ {c}) /\ UNCHANGED agentVars
  <2>1. Shrinks
    BY <1>5, ShrinkingCalls DEF TypeInv, RemoveContainer
  <2>2. Quiet
    BY <1>1, <1>5, <2>1 DEF Quiet, agentVars
  <2>3. ctr'[c] = Absent
    BY <1>4, <1>5 DEF RemoveContainer, SetContainer, TypeInv, DockerTypeOK
  <2>4. h'.app = h.app
    BY <1>2, <1>5 DEF RemoveLoop, Handler
  <2>5. ~ h.failed => ContainersOf(h.app) \subseteq h.todo
    BY <1>1 DEF OrphanInv, NoneMissed
  <2>6. ~ h.failed => ContainersOf(h.app)' \subseteq h.todo \ {c}
    BY <2>1, <2>3, <2>4, <2>5 DEF Shrinks, ContainersOf, Existing
  <2> QED
    BY <1>1, <1>4, <1>5, <2>2, <2>6, RemoveLoopSafe
<1>6. CASE FailToRemoveContainer(c) /\ GiveUp(Noted(RemoveLoop(h.todo \ {c})))
  <2>1. Shrinks
    BY <1>6, ShrinkingCalls DEF TypeInv, FailToRemoveContainer, StopContainer
  <2>2. Quiet /\ h' = Noted(RemoveLoop(h.todo \ {c}))
    BY <1>1, <1>6, <2>1, GiveUpQuiet
  <2>3. h' = RemoveLoop(h.todo \ {c}) => h.failed
    BY <1>2, <2>2 DEF Noted, RemoveLoop, Handler
  <2> QED
    BY <1>1, <1>4, <2>2, <2>3, RemoveLoopSafe
<1> QED
  BY <1>3, <1>5, <1>6

(***************************************************************************)
(* After all containers are gone, no network of the edge app is kept.      *)
(***************************************************************************)
LEMMA PruneSafe ==
  ASSUME TypeInv, OrphanInv, Prune
  PROVE  OrphanInv'
<1>1. /\ h.pc \in Undeploying \ {"undeploy"} /\ h.pc = "prune"
      /\ UNCHANGED interrupted
  BY DEF Prune, Undeploying, historyVars
<1>2. h \in Handler /\ h.app \in Apps /\ h.pc \notin Unsaved
  BY <1>1, UndeployingType DEF TypeInv, Unsaved
<1>3. NetworkPrune(h.app) \/ UNCHANGED dockerVars
  BY DEF Prune
<1>4. Shrinks
  BY <1>3, ShrinkingCalls DEF TypeInv
<1>5. CASE \/ GiveUp(Returned(TRUE))
           \/ h' = Returned(TRUE) /\ UNCHANGED agentVars
  BY <1>1, <1>4, <1>5, GiveUpUndeploySafe DEF agentVars
<1>6. CASE /\ NetworkPrune(h.app) /\ ~ h.failed
           /\ h' = [h EXCEPT !.pc = "undeployed"] /\ UNCHANGED agentVars
  <2>1. Quiet
    BY <1>1, <1>4, <1>6 DEF Quiet, agentVars
  <2>2. InMemory' /\ Saved'
    BY <1>2, <2>1, QuietAccounts DEF OrphanInv
  <2>3. h'.pc = "undeployed" /\ h'.app = h.app
    BY <1>2, <1>6 DEF Handler
  <2>4. ContainersOf(h.app) = {}
    BY <1>1, <1>6 DEF OrphanInv, NoneMissed
  <2>5. \A n \in networks : \A states : n.app = h.app => ~ AttachedTo(n, states)
    BY <2>4 DEF AttachedTo, ContainersOf
  <2>6. \A n \in networks' : n.app # h.app
    BY <1>6, <2>5 DEF NetworkPrune
  <2>7. NothingLeft'
    BY <1>4, <2>3, <2>4, <2>6
       DEF NothingLeft, HasObjects, ContainersOf, NetworksOf, Shrinks
  <2>8. DeployingKnown' /\ NoneMissed'
    BY <2>3 DEF DeployingKnown, NoneMissed, Deploying
  <2> QED
    BY <2>2, <2>7, <2>8 DEF OrphanInv
<1> QED
  BY <1>5, <1>6 DEF Prune

(***************************************************************************)
(* The status becomes Undeployed when nothing is left.                     *)
(***************************************************************************)
LEMMA FinishUndeploySafe ==
  ASSUME TypeInv, OrphanInv, FinishUndeploy
  PROVE  OrphanInv'
<1>1. h \in Handler /\ h.app \in Apps /\ h.pc = "undeployed" /\ h.pc \notin Unsaved
  BY InCommand DEF FinishUndeploy, Unsaved
<1>2. ~ HasObjects(h.app)
  BY <1>1 DEF OrphanInv, NothingLeft, Emptied
<1>3. /\ UNCHANGED dockerVars /\ interrupted' = interrupted \ {h.app}
      /\ SetStatus(h.app, "Undeployed")
      /\ h' = Idle \/ h' = [h EXCEPT !.pc = "listImages"]
  BY DEF FinishUndeploy, Goto
<1>4. \A a \in Apps : HasObjects(a)' <=> HasObjects(a)
  BY <1>3 DEF dockerVars, HasObjects, ContainersOf, Existing, NetworksOf
<1>5. ASSUME NEW a \in Apps, a \notin interrupted', HasObjects(a)'
      PROVE  IsDeployed(a)' /\ IsDeployedOnDisk(a)'
  <2>1. HasObjects(a) /\ a # h.app /\ a \notin interrupted
    BY <1>2, <1>3, <1>4, <1>5
  <2>2. IsDeployed(a) /\ IsDeployedOnDisk(a)
    BY <1>1, <2>1 DEF OrphanInv, InMemory, Saved
  <2>3. CASE IsKnown(h.app)
    <3>1. known' = [known EXCEPT ![h.app] = [man |-> @.man, status |-> "Undeployed"]]
          /\ disk' = known'
      BY <1>3, <2>3 DEF SetStatus
    <3>2. known'[a] = known[a]
      BY <2>1, <3>1 DEF TypeInv, RecordsTypeOK
    <3> QED
      BY <2>2, <3>1, <3>2 DEF IsDeployed, IsKnown, IsDeployedOnDisk
  <2>4. CASE ~ IsKnown(h.app)
    <3>1. UNCHANGED <<known, disk>>
      BY <1>3, <2>4 DEF SetStatus, agentVars
    <3> QED
      BY <2>2, <3>1, SameRecords
  <2> QED
    BY <2>3, <2>4
<1>6. InMemory' /\ Saved'
  BY <1>5 DEF InMemory, Saved
<1>7. /\ h'.pc \in {"idle", "listImages"}
      /\ h'.pc = "listImages" => h'.app = h.app
  <2>1. CASE h' = Idle
    BY <2>1 DEF Idle
  <2>2. CASE h' = [h EXCEPT !.pc = "listImages"]
    BY <1>1, <2>2 DEF Handler
  <2> QED
    BY <1>3, <2>1, <2>2
<1>8. NothingLeft'
  BY <1>2, <1>3, <1>7
     DEF NothingLeft, Emptied, dockerVars, HasObjects, ContainersOf, Existing, NetworksOf
<1>9. DeployingKnown' /\ NoneMissed'
  BY <1>7 DEF DeployingKnown, NoneMissed, Deploying
<1> QED
  BY <1>6, <1>8, <1>9 DEF OrphanInv

(***************************************************************************)
(* The removal of images touches neither containers nor networks.          *)
(***************************************************************************)
LEMMA RemoveImagesSafe ==
  ASSUME TypeInv, OrphanInv, ListImages \/ ListUsers \/ RemoveImage
  PROVE  OrphanInv'
<1>1. /\ h.pc \in Undeploying \ {"undeploy"} /\ h.pc \in Emptied
      /\ UNCHANGED interrupted
  BY DEF ListImages, ListUsers, RemoveImage, Undeploying, Emptied, historyVars
<1>2. h \in Handler /\ h.app \in Apps /\ h.pc \notin Unsaved
  BY <1>1, UndeployingType DEF TypeInv, Unsaved, Emptied
<1>3. Shrinks
  BY ShrinkingCalls DEF TypeInv, ListImages, ListUsers, RemoveImage, dockerVars
<1>4. Quiet
  <2>1. UNCHANGED <<known, disk>> \/ \E s \in Statuses : SetStatus(h.app, s)
    BY DEF ListImages, ListUsers, RemoveImage, GiveUp, agentVars, Statuses, EdgeAppStatus
  <2> QED
    BY <1>1, <1>3, <2>1 DEF Quiet
<1>5. h' = Returned(TRUE) \/ (h'.app = h.app /\ h'.pc \in Emptied)
  <2>1. CASE ListImages
    <3>1. \/ h' = [h EXCEPT !.pc = "deleteRecord"]
          \/ \E unused : h' = [h EXCEPT !.pc = "listUsers", !.unused = unused]
          \/ h' = Returned(TRUE)
      BY <2>1 DEF ListImages, Goto, GiveUp
    <3> QED
      BY <1>2, <3>1 DEF Handler, Emptied
  <2>2. CASE ListUsers
    <3>1. \/ \E unused : \E l \in {"deleteRecord", "removeImage"} :
                h' = [h EXCEPT !.unused = unused, !.pc = l]
          \/ h' = Returned(TRUE)
      BY <2>2 DEF ListUsers, GiveUp
    <3> QED
      BY <1>2, <3>1 DEF Handler, Emptied
  <2>3. CASE RemoveImage
    <3>1. PICK unused, failed :
               LET rest == [h EXCEPT !.unused = unused, !.failed = failed]
               IN  h' = rest \/ h' = AfterImages(rest)
      BY <2>3 DEF RemoveImage
    <3> DEFINE rest == [h EXCEPT !.unused = unused, !.failed = failed]
    <3>2. \/ h' = rest
          \/ h' = [rest EXCEPT !.pc = "deleteRecord"]
          \/ h' = Returned(TRUE)
      BY <3>1 DEF AfterImages
    <3>3. CASE h' = rest
      BY <1>1, <1>2, <3>3 DEF Handler
    <3>4. CASE h' = [rest EXCEPT !.pc = "deleteRecord"]
      BY <1>2, <3>4 DEF Handler, Emptied
    <3> QED
      BY <3>2, <3>3, <3>4
  <2> QED
    BY <2>1, <2>2, <2>3
<1>6. CASE h' = Returned(TRUE)
  <2>1. h'.pc \in Elsewhere
    BY <1>2, <1>6, ReturnedElsewhere
  <2> QED
    BY <1>2, <1>4, <2>1, QuietToElsewhere
<1>7. CASE h'.app = h.app /\ h'.pc \in Emptied
  BY <1>1, <1>2, <1>4, <1>7, QuietStays DEF Emptied, Deploying
<1> QED
  BY <1>5, <1>6, <1>7

(***************************************************************************)
(* The record is deleted when nothing is left.                             *)
(***************************************************************************)
LEMMA DeleteRecordSafe ==
  ASSUME TypeInv, OrphanInv, DeleteRecord
  PROVE  OrphanInv'
<1>1. h \in Handler /\ h.app \in Apps /\ h.pc = "deleteRecord" /\ h.pc \notin Unsaved
  BY InCommand DEF DeleteRecord, Unsaved
<1>2. ~ HasObjects(h.app)
  BY <1>1 DEF OrphanInv, NothingLeft, Emptied
<1>3. /\ UNCHANGED <<dockerVars, interrupted>>
      /\ known' = [known EXCEPT ![h.app] = NoRecord] /\ disk' = known'
      /\ \E err \in BOOLEAN : h' = Returned(err)
  BY DEF DeleteRecord, historyVars
<1>4. ASSUME NEW a \in Apps, a \notin interrupted, HasObjects(a)'
      PROVE  IsDeployed(a)' /\ IsDeployedOnDisk(a)'
  <2>1. HasObjects(a)
    BY <1>3, <1>4 DEF dockerVars, HasObjects, ContainersOf, Existing, NetworksOf
  <2>2. a # h.app /\ IsDeployed(a)
    BY <1>2, <1>4, <2>1 DEF OrphanInv, InMemory
  <2>3. known'[a] = known[a]
    BY <1>3, <2>2 DEF TypeInv, RecordsTypeOK
  <2> QED
    BY <1>3, <2>2, <2>3 DEF IsDeployed, IsKnown, IsDeployedOnDisk
<1>5. InMemory' /\ Saved'
  BY <1>3, <1>4 DEF InMemory, Saved
<1>6. h'.pc \in Elsewhere
  BY <1>1, <1>3, ReturnedElsewhere
<1>7. DeployingKnown' /\ NoneMissed' /\ NothingLeft'
  BY <1>6 DEF Elsewhere, DeployingKnown, NoneMissed, NothingLeft
<1> QED
  BY <1>5, <1>7 DEF OrphanInv

(***************************************************************************)
(* Around the handler: records written to disk with the log times, a       *)
(* restart, containers that change, and nothing at all.                    *)
(***************************************************************************)
LEMMA SetLastLogReadSafe ==
  ASSUME TypeInv, OrphanInv, SetLastLogRead
  PROVE  OrphanInv'
<1>1. /\ UNCHANGED <<dockerVars, known, h, interrupted>> /\ disk' = known
  BY DEF SetLastLogRead, historyVars
<1>2. \A a \in Apps : HasObjects(a)' <=> HasObjects(a)
  BY <1>1 DEF dockerVars, HasObjects, ContainersOf, Existing, NetworksOf
<1>3. \A a \in Apps : (IsDeployed(a)' <=> IsDeployed(a)) /\ (IsDeployedOnDisk(a)' <=> IsDeployed(a))
  BY <1>1 DEF IsDeployed, IsKnown, IsDeployedOnDisk
<1>4. InMemory' /\ Saved'
  BY <1>1, <1>2, <1>3 DEF OrphanInv, InMemory, Saved
<1>5. DeployingKnown'
  BY <1>1 DEF OrphanInv, DeployingKnown, IsDeployed, IsKnown
<1>6. NoneMissed' /\ NothingLeft'
  BY <1>1 DEF OrphanInv, NoneMissed, NothingLeft, dockerVars, HasObjects,
              ContainersOf, Existing, NetworksOf
<1> QED
  BY <1>4, <1>5, <1>6 DEF OrphanInv

LEMMA RestartSafe ==
  ASSUME TypeInv, OrphanInv, Restart
  PROVE  OrphanInv'
<1>1. /\ UNCHANGED <<dockerVars, disk>> /\ known' = disk /\ h' = Idle
      /\ interrupted' = interrupted \cup ({h.app} \cap Apps)
  BY DEF Restart
<1>2. ASSUME NEW a \in Apps, a \notin interrupted', HasObjects(a)'
      PROVE  IsDeployed(a)' /\ IsDeployedOnDisk(a)'
  <2>1. HasObjects(a)
    BY <1>1, <1>2 DEF dockerVars, HasObjects, ContainersOf, Existing, NetworksOf
  <2>2. a \notin interrupted /\ a # h.app
    BY <1>1, <1>2
  <2>3. IsDeployedOnDisk(a)
    BY <2>1, <2>2 DEF OrphanInv, Saved
  <2> QED
    BY <1>1, <2>3 DEF IsDeployedOnDisk, IsDeployed, IsKnown
<1>3. InMemory' /\ Saved'
  BY <1>2 DEF InMemory, Saved
<1>4. DeployingKnown' /\ NoneMissed' /\ NothingLeft'
  BY <1>1 DEF DeployingKnown, NoneMissed, NothingLeft, Idle, Deploying, Emptied
<1> QED
  BY <1>3, <1>4 DEF OrphanInv

LEMMA ContainerChangesSafe ==
  ASSUME TypeInv, OrphanInv, ContainerChanges \/ UNCHANGED vars
  PROVE  OrphanInv'
<1>1. UNCHANGED <<known, disk, h, interrupted>>
  BY DEF ContainerChanges, vars, agentVars, historyVars
<1>2. \/ UNCHANGED dockerVars
      \/ \E c, state : /\ SetContainer(c, state)
                       /\ ctr[c] # Absent \/ state = Absent
  BY DEF ContainerChanges, vars, dockerVars, ContainerExits, ContainerFails,
         ContainerRestarts, ContainerGivesUp, RemovedByHand, Absent
<1>3. Shrinks
  BY <1>2, ShrinkingCalls DEF TypeInv
<1>4. Quiet
  BY <1>1, <1>3 DEF Quiet
<1> QED
  BY <1>1, <1>4, QuietStays
-----------------------------------------------------------------------------
(***************************************************************************)
(* Every step keeps the invariant.                                         *)
(***************************************************************************)
LEMMA StepSafe ==
  ASSUME TypeInv, OrphanInv, [Next]_vars
  PROVE  OrphanInv'
<1>1. CASE Handle
  BY <1>1, NewVersionSafe, ImagesSafe, CreateNetworkSafe, CreateStartSafe, FinishSafe,
     StopResumeSafe, ListToRemoveSafe, RemoveNextSafe, PruneSafe, FinishUndeploySafe,
     RemoveImagesSafe, DeleteRecordSafe, CommandSafe
     DEF Handle, HandlerStep
<1>2. CASE Command
  BY <1>2, NewVersionSafe, CommandSafe DEF Command
<1>3. CASE SetLastLogRead \/ Restart \/ ContainerChanges \/ UNCHANGED vars
  BY <1>3, SetLastLogReadSafe, RestartSafe, ContainerChangesSafe
<1> QED
  BY <1>1, <1>2, <1>3 DEF Next

(***************************************************************************)
(* Whatever calls fail, wherever the agent is killed and whatever          *)
(* containers do, docker holds nothing of an edge app that the agent has   *)
(* forgotten or calls Undeployed -- but for the edge apps whose command    *)
(* was cut off by a restart and that have not been undeployed since.       *)
(***************************************************************************)
THEOREM OrphansOnlyAfterRestart == Spec => []NoOrphans
<1>1. Init => TypeInv /\ OrphanInv
  <2> SUFFICES ASSUME Init PROVE OrphanInv
    BY InitType
  <2>1. \A a \in Apps : ~ HasObjects(a)
    BY DEF Init, DockerInit, HasObjects, ContainersOf, Existing, NetworksOf
  <2> QED
    BY <2>1 DEF Init, OrphanInv, InMemory, Saved, DeployingKnown, NoneMissed,
                NothingLeft, Idle, Deploying, Emptied
<1>2. TypeInv /\ OrphanInv /\ [Next]_vars => TypeInv' /\ OrphanInv'
  BY StepType, StepSafe
<1>3. OrphanInv => NoOrphans
  BY DEF OrphanInv, InMemory, NoOrphans
<1> QED
  BY <1>1, <1>2, <1>3, PTL DEF Spec
-----------------------------------------------------------------------------
(* What a restart forgets *)

(***************************************************************************)
(* The records on disk follow those in memory, but in AddKnownManifest.    *)
(***************************************************************************)
LEMMA RecordSteps ==
  ASSUME TypeInv, [Next]_vars
  PROVE  \/ UNCHANGED <<known, disk>>
         \/ disk' = known'
         \/ \E m \in Manifests : AddKnownManifest(m)
<1>1. \A a, s : SetStatus(a, s) => UNCHANGED <<known, disk>> \/ disk' = known'
  BY DEF SetStatus, agentVars
<1>2. UNCHANGED agentVars => UNCHANGED <<known, disk>>
  BY DEF agentVars
<1>3. CASE HandlerStep
  <2>0. CASE AddNewVersion
    BY <2>0 DEF TypeInv, WellFormed, AddNewVersion
  <2>1. CASE \/ InspectImage \/ Pull \/ CreateNetwork
             \/ Create \/ Start \/ FinishDeploy \/ FinishRollback
    BY <1>1, <1>2, <2>1
       DEF InspectImage, Pull, CreateNetwork, Create, Start,
           FinishDeploy, FinishRollback, GiveUp, agentVars
  <2>2. CASE \/ ListToStop \/ StopNext \/ FinishStop
             \/ ListToResume \/ ResumeNext \/ FinishResume
    BY <1>1, <1>2, <2>2
       DEF ListToStop, StopNext, FinishStop, ListToResume, ResumeNext, FinishResume,
           GiveUp
  <2>3. CASE \/ BeginUndeploy \/ ListToRemove \/ RemoveNext \/ Prune \/ FinishUndeploy
    BY <1>1, <1>2, <2>3
       DEF BeginUndeploy, ListToRemove, RemoveNext, Prune, FinishUndeploy, GiveUp
  <2>4. CASE \/ ListImages \/ ListUsers \/ RemoveImage \/ DeleteRecord
             \/ RemoveNextApp \/ FinishDeleteNode
    BY <1>1, <1>2, <2>4
       DEF ListImages, ListUsers, RemoveImage, DeleteRecord, RemoveNextApp,
           FinishDeleteNode, GiveUp, agentVars
  <2> QED
    BY <1>3, <2>0, <2>1, <2>2, <2>3, <2>4 DEF HandlerStep
<1>4. CASE Command
  BY <1>2, <1>4 DEF Command, DeployNew, DeployUpdate, Stop, Resume, Undeploy, Remove,
                    UndeployOrRemove, DeleteNode
<1>5. CASE SetLastLogRead \/ Restart \/ ContainerChanges \/ UNCHANGED vars
  BY <1>2, <1>5 DEF SetLastLogRead, Restart, ContainerChanges, vars
<1> QED
  BY <1>3, <1>4, <1>5 DEF Next, Handle

(***************************************************************************)
(* Whatever happens, a restart only forgets records of edge apps that are  *)
(* Initiated: every other change of a record has been written to disk.     *)
(***************************************************************************)
THEOREM RestartForgetsOnlyInitiated == Spec => []DiskMissesOnlyInitiated
<1>1. Init => TypeInv /\ DiskMissesOnlyInitiated
  BY InitType DEF Init, DiskMissesOnlyInitiated
<1>2. ASSUME TypeInv, DiskMissesOnlyInitiated, [Next]_vars
      PROVE  DiskMissesOnlyInitiated'
  <2>1. CASE UNCHANGED <<known, disk>>
    BY <1>2, <2>1 DEF DiskMissesOnlyInitiated, HasStatus, IsKnown
  <2>2. CASE disk' = known'
    BY <2>2 DEF DiskMissesOnlyInitiated
  <2>3. ASSUME NEW m \in Manifests, AddKnownManifest(m)
        PROVE  DiskMissesOnlyInitiated'
    <3> SUFFICES ASSUME NEW a \in Apps, disk'[a] # known'[a]
                 PROVE  known'[a] # NoRecord /\ known'[a].status = "Initiated"
      BY DEF DiskMissesOnlyInitiated, HasStatus, IsKnown
    <3>1. /\ known' = [known EXCEPT ![m.app] = [man |-> m, status |-> "Initiated"]]
          /\ disk' = disk
      BY <2>3 DEF AddKnownManifest
    <3>2. known \in [Apps -> ManifestRecord \cup {NoRecord}]
      BY <1>2 DEF TypeInv, RecordsTypeOK
    <3>3. CASE a = m.app
      <4>1. known'[a] = [man |-> m, status |-> "Initiated"]
        BY <3>1, <3>2, <3>3
      <4>2. [man |-> m, status |-> "Initiated"] \in ManifestRecord
        BY DEF ManifestRecord, EdgeAppStatus
      <4> QED
        BY <4>1, <4>2, NoRecordAssumption
    <3>4. CASE a # m.app
      BY <1>2, <3>1, <3>2, <3>4 DEF DiskMissesOnlyInitiated, HasStatus, IsKnown
    <3> QED
      BY <3>3, <3>4
  <2> QED
    BY <1>2, <2>1, <2>2, <2>3, RecordSteps
<1>3. TypeInv /\ DiskMissesOnlyInitiated /\ [Next]_vars
        => TypeInv' /\ DiskMissesOnlyInitiated'
  BY <1>2, StepType
<1> QED
  BY <1>1, <1>3, PTL DEF Spec
-----------------------------------------------------------------------------
(* The numbers of networks *)

(***************************************************************************)
(* Only the creation of a network adds one.                                *)
(***************************************************************************)
LEMMA NetworkSteps ==
  ASSUME [Next]_vars
  PROVE  networks' \subseteq networks \/ CreateNetwork
<1>1. UNCHANGED dockerVars => networks' = networks
  BY DEF dockerVars
<1>2. \A c, state : SetContainer(c, state) => networks' = networks
  BY DEF SetContainer
<1>3. CASE HandlerStep
  <2>1. CASE \/ AddNewVersion \/ InspectImage \/ Pull
             \/ Create \/ Start \/ FinishDeploy \/ FinishRollback
    BY <1>1, <1>2, <2>1
       DEF AddNewVersion, InspectImage, Pull, Create, Start,
           FinishDeploy, FinishRollback, PullImage, CreateContainer, StartContainer,
           dockerVars
  <2>2. CASE \/ ListToStop \/ StopNext \/ FinishStop
             \/ ListToResume \/ ResumeNext \/ FinishResume
    BY <1>1, <1>2, <2>2
       DEF ListToStop, StopNext, FinishStop, ListToResume, ResumeNext, FinishResume,
           StopContainer, StartContainer
  <2>3. CASE \/ BeginUndeploy \/ ListToRemove \/ RemoveNext \/ Prune \/ FinishUndeploy
    BY <1>1, <1>2, <2>3
       DEF BeginUndeploy, ListToRemove, RemoveNext, Prune, FinishUndeploy,
           RemoveContainer, FailToRemoveContainer, StopContainer, NetworkPrune
  <2>4. CASE \/ ListImages \/ ListUsers \/ RemoveImage \/ DeleteRecord
             \/ RemoveNextApp \/ FinishDeleteNode
    BY <1>1, <2>4
       DEF ListImages, ListUsers, RemoveImage, DeleteRecord, RemoveNextApp,
           FinishDeleteNode, ImageRemove
  <2> QED
    BY <1>3, <2>1, <2>2, <2>3, <2>4 DEF HandlerStep
<1>4. CASE Command
  BY <1>1, <1>4 DEF Command, DeployNew, DeployUpdate, Stop, Resume, Undeploy, Remove,
                    UndeployOrRemove, DeleteNode
<1>5. CASE SetLastLogRead \/ Restart \/ ContainerChanges \/ UNCHANGED vars
  BY <1>1, <1>2, <1>5
     DEF SetLastLogRead, Restart, ContainerChanges, vars, ContainerExits,
         ContainerFails, ContainerRestarts, ContainerGivesUp, RemovedByHand
<1> QED
  BY <1>3, <1>4, <1>5 DEF Next, Handle

(***************************************************************************)
(* Two networks of edge apps never have the same number, whatever          *)
(* networks failed removals and restarts have left behind.                 *)
(***************************************************************************)
THEOREM NetworkNumbersDistinct == Spec => []DistinctNetworkNumbers
<1>1. Init => TypeInv /\ DistinctNetworkNumbers
  BY InitType DEF Init, DockerInit, DistinctNetworkNumbers
<1>2. ASSUME TypeInv, DistinctNetworkNumbers, [Next]_vars
      PROVE  DistinctNetworkNumbers'
  <2>1. CASE networks' \subseteq networks
    BY <1>2, <2>1 DEF DistinctNetworkNumbers
  <2>2. CASE CreateNetwork
    <3> DEFINE count == makeNetworkCount(ExistingNetworkCounts)
    <3>1. \/ NetworkCreate([app |-> h.app, num |-> count]) /\ count # NoCount
          \/ UNCHANGED dockerVars
      BY <2>2 DEF CreateNetwork
    <3>2. count \in NetworkNumbers \ ExistingNetworkCounts \/ count = NoCount
      BY <1>2, NewNetworkNumber DEF TypeInv
    <3> HIDE DEF count
    <3>3. CASE NetworkCreate([app |-> h.app, num |-> count]) /\ count # NoCount
      <4>1. networks' = networks \cup {[app |-> h.app, num |-> count]}
        BY <3>3 DEF NetworkCreate
      <4>2. \A n \in networks : n.num # count
        BY <3>2, <3>3 DEF ExistingNetworkCounts
      <4> QED
        BY <1>2, <4>1, <4>2 DEF DistinctNetworkNumbers
    <3>4. CASE UNCHANGED dockerVars
      BY <1>2, <3>4 DEF dockerVars, DistinctNetworkNumbers
    <3> QED
      BY <3>1, <3>3, <3>4
  <2> QED
    BY <1>2, <2>1, <2>2, NetworkSteps
<1>3. TypeInv /\ DistinctNetworkNumbers /\ [Next]_vars
        => TypeInv' /\ DistinctNetworkNumbers'
  BY <1>2, StepType
<1> QED
  BY <1>1, <1>3, PTL DEF Spec
(***************************************************************************)
(* A handler that is about to create a network goes on only with           *)
(* CreateNetwork, unless it is cut off.                                    *)
(***************************************************************************)
LEMMA LeavingNetwork ==
  ASSUME [Next]_vars, h.pc = "network", h'.pc = "undeploy"
  PROVE  CreateNetwork
<1>1. CASE HandlerStep
  BY <1>1
     DEF HandlerStep, AddNewVersion, InspectImage, Pull, Create, Start, FinishDeploy,
         FinishRollback, ListToStop, StopNext, FinishStop, ListToResume, ResumeNext,
         FinishResume, BeginUndeploy, ListToRemove, RemoveNext, Prune, FinishUndeploy,
         ListImages, ListUsers, RemoveImage, DeleteRecord, RemoveNextApp,
         FinishDeleteNode
<1>2. CASE Command
  BY <1>2 DEF Command, DeployNew, DeployUpdate, Stop, Resume, Undeploy, Remove,
              UndeployOrRemove, DeleteNode
<1>3. CASE SetLastLogRead \/ Restart \/ ContainerChanges \/ UNCHANGED vars
  BY <1>3 DEF SetLastLogRead, Restart, ContainerChanges, Idle, vars
<1> QED
  BY <1>1, <1>2, <1>3 DEF Next, Handle

(***************************************************************************)
(* makeNetworkCount wastes no number: as long as one up to the maximum is  *)
(* free, a deployment is refused a network only by a failing call          *)
(* (network.go:61-76, 138-157).                                            *)
(***************************************************************************)
THEOREM NoNumberWasted == Spec => RefusedOnlyWhenFull
<1>1. ASSUME TypeInv, [Next]_vars, h.pc = "network", h'.pc = "undeploy", faults' = faults
      PROVE  ExistingNetworkCounts = NetworkCounts
  <2> DEFINE count == makeNetworkCount(ExistingNetworkCounts)
  <2>1. ExistingNetworkCounts \in SUBSET NetworkCounts /\ 0 \in ExistingNetworkCounts
    <3>1. 0 \in NetworkCounts
      BY MaxNetworkIndexAssumption DEF NetworkCounts
    <3> QED
      BY <1>1, <3>1 DEF TypeInv, DockerTypeOK, ExistingNetworkCounts, Network, NetworkNumbers
  <2>2. \/ count \in NetworkCounts
        \/ count = NoCount /\ ExistingNetworkCounts = NetworkCounts
    BY <2>1, NetworkCountIsFree
  <2>3. CreateNetwork
    BY <1>1, LeavingNetwork
  <2>4. faults \in Nat
    BY <1>1, EdgeAppAssumption DEF TypeInv, CountersTypeOK
  <2>5. count = NoCount
    <3>1. SUFFICES ASSUME count # NoCount PROVE FALSE
      OBVIOUS
    <3>2. h' = [h EXCEPT !.pc = "create", !.net = count, !.idx = Len(h.man.modules)]
            \/ faults' = faults + 1
      BY <2>3, <3>1 DEF CreateNetwork, Fault
    <3>3. h \in Handler
      BY <1>1 DEF TypeInv, WellFormed
    <3>4. h'.pc = "create" \/ faults' = faults + 1
      BY <3>2, <3>3 DEF Handler
    <3> QED
      BY <1>1, <2>4, <3>4
  <2>6. NoCount \notin NetworkCounts
    BY MaxNetworkIndexAssumption DEF NoCount, NetworkCounts
  <2> QED
    BY <2>2, <2>5, <2>6
<1>2. TypeInv /\ [Next]_vars =>
        [h.pc = "network" /\ h'.pc = "undeploy" /\ faults' = faults =>
           ExistingNetworkCounts = NetworkCounts]_vars
  BY <1>1
<1>3. TypeInv /\ [Next]_vars => TypeInv'
  BY StepType
<1> QED
  BY InitType, <1>2, <1>3, PTL DEF Spec, RefusedOnlyWhenFull
=============================================================================
