------------------------------ MODULE Manifests ------------------------------
(***************************************************************************)
(* What the agent knows of an edge app (internal/manifest/manifest.go,     *)
(* internal/manifest/status.go): the manifest that MAPI sends with DEPLOY, *)
(* and the record that the agent keeps of it.                              *)
(*                                                                         *)
(* Of a manifest only what decides about docker objects is kept: the       *)
(* identifier of the edge app (UniqueID), the time of its last change      *)
(* (UpdatedAt) and the image of each module, in order.  Environment,       *)
(* mounts, ports, devices and connections only configure a container.      *)
(***************************************************************************)
EXTENDS Integers, Sequences

CONSTANTS Apps,        \* identifiers of edge apps (model.ManifestUniqueID)
          Images,      \* names of images (ImageNameFull), see below
          Manifests,   \* the manifests that MAPI may send
          NoRecord     \* the map of known manifests has no entry

(***************************************************************************)
(* The name of an image is that of a repository, with a tag or without one *)
(* ("" here).  It is written in the short form that docker itself shows:   *)
(* a name that begins with docker.io/ would match nothing in a list of     *)
(* images.                                                                 *)
(***************************************************************************)
ASSUME ImagesAssumption == Images \subseteq [repo : STRING, tag : STRING]

Manifest == [app : Apps, updatedAt : Nat, modules : Seq(Images)]

\* Parse rejects a manifest without modules (manifest_model.go, "notblank").
ASSUME ManifestsAssumption ==
    \A m \in Manifests : m \in Manifest /\ m.modules # <<>>

EdgeAppStatus ==
    {"Initiated", "Executing", "Running", "Stopped", "Error", "Undeployed"}

ManifestRecord == [man : Manifests, status : EdgeAppStatus]

ASSUME NoRecordAssumption == NoRecord \notin ManifestRecord

ImagesOf(m) == {m.modules[i] : i \in DOMAIN m.modules}
=============================================================================
