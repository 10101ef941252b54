------------------------------ MODULE Lifecycle ------------------------------
(***************************************************************************)
(* What the agent promises of the life of an edge app, without saying how  *)
(* it works on docker: the statuses an edge app goes through, that only    *)
(* one edge app is worked on at a time, when something of it may be on the *)
(* host, and what a restart can lose.  EdgeApp implements it.              *)
(***************************************************************************)
EXTENDS Statuses

CONSTANTS Apps, NoApp

VARIABLES status,   \* status of each edge app, or Unknown
          busy,     \* the edge app that is being worked on
          held,     \* edge apps of which the host holds something
          cutOff    \* edge apps whose last command was cut off by a restart

vars == <<status, busy, held, cutOff>>

Init ==
    /\ status = [a \in Apps |-> "Unknown"]
    /\ busy = NoApp
    /\ held = {}
    /\ cutOff = {}

\* A command for a is accepted; DEPLOY of a new edge app creates its record.
Accept(a) ==
    /\ busy = NoApp
    /\ busy' = a
    /\ \/ UNCHANGED status
       \/ /\ status[a] \in {"Unknown", "Undeployed"}
          /\ status' = [status EXCEPT ![a] = "Initiated"]
    /\ UNCHANGED <<held, cutOff>>

\* UndeployEdgeApp ends with an error while something of a is left.
Reaches(a, s) == s = "Undeployed" => a \notin held

(***************************************************************************)
(* A step of the command for a.  Objects appear only in a deployment, and  *)
(* Undeployed is reached only with nothing of a left on the host.          *)
(***************************************************************************)
Work(a) ==
    /\ busy = a
    /\ busy' \in {a, NoApp}
    /\ \/ status' = status /\ cutOff' = cutOff
       \/ \E s \in Follows[status[a]] :
            /\ status' = [status EXCEPT ![a] = s]
            /\ Reaches(a, s)
            /\ cutOff' = IF s = "Undeployed" THEN cutOff \ {a} ELSE cutOff
    /\ \/ held' = held
       \/ held' = held \cup {a} /\ status[a] = "Initiated"
       \/ held' = held \ {a}

\* Something disappears from the host without the agent.
Vanish ==
    /\ held' \in SUBSET held
    /\ UNCHANGED <<status, busy, cutOff>>

(***************************************************************************)
(* The agent is restarted.  Only a record that was Initiated may be lost   *)
(* or be an older one again.                                               *)
(***************************************************************************)
Restart ==
    /\ busy' = NoApp
    /\ cutOff' = cutOff \cup ({busy} \cap Apps)
    /\ status' \in [Apps -> Status]
    /\ \A a \in Apps :
         \/ status'[a] = status[a]
         \/ /\ status[a] = "Initiated"
            /\ status'[a] \in {"Unknown", "Undeployed", "Error"}
            /\ a \in held /\ status'[a] # "Error" => a \in cutOff'
    /\ UNCHANGED held

Next ==
    \/ \E a \in Apps : Accept(a) \/ Work(a)
    \/ Vanish
    \/ Restart

Spec == Init /\ [][Next]_vars
=============================================================================
