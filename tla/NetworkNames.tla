---------------------------- MODULE NetworkNames ----------------------------
(***************************************************************************)
(* The number that the agent appends to the name of a docker network       *)
(* (internal/docker/network.go).  A network is called <name>_<number> with *)
(* a number of three digits; the numbers in use are read back from the     *)
(* last three characters of the names of ALL networks of the host.         *)
(*                                                                         *)
(* The name in front of the number is left out: the number alone is meant  *)
(* to be unique, because the counts below are taken over every network,    *)
(* whatever its name.  A suffix that is not a number counts as 0           *)
(* (network.go:169), so that docker's own networks (bridge, host, none)    *)
(* always occupy 0.                                                        *)
(***************************************************************************)
EXTENDS Integers, FiniteSetsExt

CONSTANT MaxNetworkIndex   \* maxNetworkIndex, 999 in the code

ASSUME MaxNetworkIndexAssumption == MaxNetworkIndex \in Nat \ {0}

NetworkCounts == 0 .. MaxNetworkIndex

\* What makeNetworkName answers instead of a number when all are taken.
NoCount == -1

getLastCreatedNetworkCount(counts) == Max(counts \cup {0})

\* The loop runs below maxNetworkIndex, so the last number is never tried here.
getLowestAvailableNetworkCount(counts) ==
    LET available == (0 .. MaxNetworkIndex - 1) \ counts
    IN  IF available = {} THEN NoCount ELSE Min(available)

\* Mutant: no wrap-around, and numbers of more than three digits.
makeUnboundedCount(counts) == getLastCreatedNetworkCount(counts) + 1

\* Mutant: no wrap-around, creation is refused instead.
makeCountOnce(counts) ==
    IF getLastCreatedNetworkCount(counts) < MaxNetworkIndex
    THEN getLastCreatedNetworkCount(counts) + 1
    ELSE NoCount

\* Mutant: the wrap-around begins at 1 again, in use or not.
makeWrappedCount(counts) ==
    IF getLastCreatedNetworkCount(counts) < MaxNetworkIndex
    THEN getLastCreatedNetworkCount(counts) + 1
    ELSE 1

(***************************************************************************)
(* The number of the next network: one more than the highest in use, or,   *)
(* once the highest number has been handed out, the lowest free one.       *)
(***************************************************************************)
makeNetworkCount(counts) ==
    IF getLastCreatedNetworkCount(counts) < MaxNetworkIndex
    THEN getLastCreatedNetworkCount(counts) + 1
    ELSE getLowestAvailableNetworkCount(counts)
=============================================================================
