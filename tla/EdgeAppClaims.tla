---------------------------- MODULE EdgeAppClaims ----------------------------
(***************************************************************************)
(* What comments, tests and the README of the repository say of edge apps, *)
(* where the code does something else.                                     *)
(***************************************************************************)
EXTENDS MCEdgeApp

(***************************************************************************)
(* "remove the old version of the edge app, except for the images that are *)
(* used by the new edge app" (edgeapp.go:34): once the new version runs,   *)
(* no container of another version is left.  The error of RemoveEdgeApp is *)
(* dropped (39), so one failed call leaves modules of both versions.       *)
(***************************************************************************)
OldVersionRemoved ==
    \A a \in Apps : HasStatus(a, "Running") =>
        \A c \in ContainersOf(a) : c.man = known[a].man

(***************************************************************************)
(* After STOP all containers of the edge app are "exited"                  *)
(* (orchestration_msg_test.go:188).  A container that is being restarted   *)
(* by docker when the list is read is skipped (edgeapp.go:146), and runs   *)
(* again later although the edge app is Stopped.                           *)
(***************************************************************************)
StoppedIsExited ==
    \A a \in Apps : HasStatus(a, "Stopped") =>
        \A c \in ContainersOf(a) : ctr[c] = "exited"
=============================================================================
