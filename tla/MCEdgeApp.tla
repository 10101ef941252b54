------------------------------ MODULE MCEdgeApp ------------------------------
(***************************************************************************)
(* Small instances of EdgeApp for TLC.                                     *)
(***************************************************************************)
EXTENDS EdgeApp

CONSTANTS a1, a2, id1, id2

Source == [repo |-> "source", tag |-> ""]
SourceLatest == [repo |-> "source", tag |-> "latest"]
Source2 == [repo |-> "source", tag |-> "2"]
Filter == [repo |-> "filter", tag |-> "1"]

(***************************************************************************)
(* An edge app a1 in two versions and an edge app a2.  The versions of a1  *)
(* share the image filter:1, in another place of the list; they both need  *)
(* source:latest, too, under two names.  That of a2 is an image of a1.     *)
(***************************************************************************)
MCApps == {a1, a2}
MCImages == {Source, SourceLatest, Filter}
MCImageIDs == {id1, id2}
MCIDOf == [r \in References |-> IF r = Filter THEN id2 ELSE id1]

v1 == [app |-> a1, updatedAt |-> 1, modules |-> <<Source, Filter>>]
v2 == [app |-> a1, updatedAt |-> 2, modules |-> <<Filter, SourceLatest>>]
other == [app |-> a2, updatedAt |-> 1, modules |-> <<Source>>]

MCManifests == {v1, v2, other}

(***************************************************************************)
(* One edge app only, for the runs whose state graph must be small.  Its   *)
(* images are one image, which has two tags.                               *)
(***************************************************************************)
MCOneApp == {a1}
MCTags == {Source, Source2}

w1 == [app |-> a1, updatedAt |-> 1, modules |-> <<Source, Source2>>]
w2 == [app |-> a1, updatedAt |-> 2, modules |-> <<Source2>>]

MCVersions == {w1, w2}
=============================================================================
