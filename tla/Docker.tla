-------------------------------- MODULE Docker --------------------------------
(***************************************************************************)
(* The docker host as the agent sees it through internal/docker: images,   *)
(* networks and containers, the calls that change them, and what happens   *)
(* to them without the agent (containers exit, fail, are restarted by      *)
(* docker's on-failure policy, or are removed by hand).                    *)
(*                                                                         *)
(* An image is not its name.  Docker keeps images under their IDs, and     *)
(* references to them, a repository with a tag.  Several references may    *)
(* have the same image, and the names in manifests stand for references in *)
(* more than one way (Reference, Matches).  The registries are assumed to  *)
(* give the same image for a reference whenever it is pulled.              *)
(*                                                                         *)
(* An operator named for a call describes the call's success; whether the  *)
(* call may also fail is up to the caller's module.                        *)
(***************************************************************************)
EXTENDS Manifests, NetworkNames

CONSTANTS ImageIDs,
          IDOf        \* the image that each reference has in its registry

\* What a name stands for: without a tag, the tag latest.
Reference(n) == IF n.tag = "" THEN [n EXCEPT !.tag = "latest"] ELSE n
References == {Reference(n) : n \in Images}
ImageID(n) == IDOf[Reference(n)]

ASSUME IDOfAssumption == IDOf \in [References -> ImageIDs]

VARIABLES images,     \* references that the host has
          networks,   \* networks that carry the label of an edge app
          ctr         \* state of every container there can be

dockerVars == <<images, networks, ctr>>

\* 0 is always taken by docker's own networks (ExistingNetworkCounts).
NetworkNumbers == NetworkCounts \ {0}
Network == [app : Apps, num : NetworkNumbers]

(***************************************************************************)
(* A container is named <network>.<image>.<index> (makeContainerName) and  *)
(* labelled with the edge app, so manifest, network number and the         *)
(* module's index (from 1) identify it.                                    *)
(***************************************************************************)
Containers ==
    {c \in [man : Manifests, net : NetworkNumbers,
            idx : UNION {DOMAIN m.modules : m \in Manifests}] :
        c.idx \in DOMAIN c.man.modules}

ImageOf(c) == c.man.modules[c.idx]

Absent == "absent"
ContainerState == {Absent, "created", "running", "restarting", "exited"}

DockerTypeOK ==
    /\ images \subseteq References
    /\ networks \subseteq Network
    /\ ctr \in [Containers -> ContainerState]

DockerInit ==
    /\ images = {}
    /\ networks = {}
    /\ ctr = [c \in Containers |-> Absent]
-----------------------------------------------------------------------------
(* Reading *)

Existing == {c \in Containers : ctr[c] # Absent}

ContainersOf(a) == {c \in Existing : c.man.app = a}

\* Mutant: without the option All, docker lists running containers only.
ReadRunningContainers(a) == {c \in ContainersOf(a) : ctr[c] = "running"}

\* All containers with the label of the edge app, in any state.
ReadEdgeAppContainers(a) == ContainersOf(a)

(***************************************************************************)
(* ContainerList answers the newest container first.  The containers of a  *)
(* network are created from the last module to the first, so within a      *)
(* network the list is ordered by index; between networks any order is     *)
(* allowed here.  HeadOf(S) are the containers of S that a loop over the   *)
(* list may handle next, LastOf(S) those that a loop from its end may.     *)
(***************************************************************************)
SameNetwork(c, d) == c.man = d.man /\ c.net = d.net
HeadOf(S) == {c \in S : \A d \in S : SameNetwork(c, d) => c.idx <= d.idx}
LastOf(S) == {c \in S : \A d \in S : SameNetwork(c, d) => c.idx >= d.idx}

NetworksOf(a) == {n \in networks : n.app = a}

\* getExistingNetworkCounts; docker's own networks count as 0.
ExistingNetworkCounts == {n.num : n \in networks} \cup {0}

ImageExists(n) == Reference(n) \in images

\* A filter of ImageList: a name without a tag matches every tag.
Matches(n, ref) == n.repo = ref.repo /\ n.tag \in {"", ref.tag}

GetImagesByName(names) ==
    {IDOf[r] : r \in {s \in images : \E n \in names : Matches(n, s)}}

ReferencesTo(i) == {r \in images : IDOf[r] = i}

\* The containers that keep docker from removing image i.
UsersOf(i) == {c \in Existing : ImageID(ImageOf(c)) = i}
-----------------------------------------------------------------------------
(* Calls that change the host *)

PullImage(n) == /\ images' = images \cup {Reference(n)}
                /\ UNCHANGED <<networks, ctr>>

(***************************************************************************)
(* ImageRemove of an ID, not forced: docker refuses an image that is used, *)
(* or has references in several repositories.  With several tags in one    *)
(* repository it depends on docker's image store whether it is refused, or *)
(* all the tags go.                                                        *)
(***************************************************************************)
CanRemoveImage(i) ==
    /\ ReferencesTo(i) # {}
    /\ UsersOf(i) = {}
    /\ \A r, s \in ReferencesTo(i) : r.repo = s.repo
MayRefuseImage(i) == ~ CanRemoveImage(i) \/ \E r, s \in ReferencesTo(i) : r # s
ImageRemove(i) == /\ images' = images \ ReferencesTo(i)
                  /\ UNCHANGED <<networks, ctr>>

NetworkCreate(n) == /\ networks' = networks \cup {n}
                    /\ UNCHANGED <<images, ctr>>

(***************************************************************************)
(* NetworkPrune(a): docker removes the networks with the label that no     *)
(* running container is attached to.  A restarting container is attached   *)
(* only part of the time.                                                  *)
(***************************************************************************)
AttachedTo(n, states) ==
    \E c \in Existing : c.man.app = n.app /\ c.net = n.num /\ ctr[c] \in states
NetworkPruneAll(a) ==   \* Mutant: without the filter for the label.
    /\ networks' = {n \in networks : AttachedTo(n, {"running"})}
    /\ UNCHANGED <<images, ctr>>
NetworkPrune(a) ==
    /\ \E maybe \in BOOLEAN :
         networks' = {n \in networks :
                        \/ n.app # a
                        \/ AttachedTo(n, {"running"})
                        \/ maybe /\ AttachedTo(n, {"restarting"})}
    /\ UNCHANGED <<images, ctr>>

SetContainer(c, state) == /\ ctr' = [ctr EXCEPT ![c] = state]
                          /\ UNCHANGED <<images, networks>>

\* Creation needs the image, the network and a name that is not in use.
CanCreate(c) ==
    /\ ImageExists(ImageOf(c))
    /\ [app |-> c.man.app, num |-> c.net] \in networks
    /\ \A d \in Existing :
         ~ /\ d.man.app = c.man.app
           /\ d.net = c.net
           /\ d.idx = c.idx
           /\ ImageOf(d) = ImageOf(c)
CreateContainer(c) == SetContainer(c, "created")

CanStart(c) ==
    /\ ctr[c] # Absent
    /\ [app |-> c.man.app, num |-> c.net] \in networks
StartContainer(c) == SetContainer(c, "running")

CanStop(c) == ctr[c] # Absent
StopContainer(c) == SetContainer(c, "exited")

(***************************************************************************)
(* StopAndRemoveContainer: a failed stop is only logged, the removal is    *)
(* forced.  When the removal fails, the container may have been stopped.   *)
(***************************************************************************)
CanRemove(c) == ctr[c] # Absent
RemoveContainer(c) == SetContainer(c, Absent)
FailToRemoveContainer(c) ==
    \/ UNCHANGED dockerVars
    \/ ctr[c] # Absent /\ StopContainer(c)
-----------------------------------------------------------------------------
(* What happens without the agent *)

\* The process ends with exit code 0: docker leaves it exited.
ContainerExits(c) == ctr[c] = "running" /\ SetContainer(c, "exited")

\* The process fails: docker waits and starts it again (on-failure policy).
ContainerFails(c) == ctr[c] = "running" /\ SetContainer(c, "restarting")
ContainerRestarts(c) == ctr[c] = "restarting" /\ SetContainer(c, "running")

\* After MaximumRetryCount restarts docker gives up.
ContainerGivesUp(c) == ctr[c] = "restarting" /\ SetContainer(c, "exited")

\* Somebody removes the container with docker's own tools.
RemovedByHand(c) == ctr[c] # Absent /\ SetContainer(c, Absent)
=============================================================================
