------------------------------- MODULE Statuses -------------------------------
(* The statuses of an edge app (internal/model/edgeApp.go). *)
Status == {"Unknown", "Initiated", "Executing", "Running", "Stopped", "Error",
           "Undeployed"}

(***************************************************************************)
(* The statuses that may follow each status while a command is executed.   *)
(* Running is only reached by a completed deployment or RESUME, a record   *)
(* is only deleted when the edge app is Undeployed.                        *)
(***************************************************************************)
Follows ==
    [Unknown    |-> {"Initiated"},
     Initiated  |-> {"Running", "Error", "Executing"},
     Executing  |-> {"Running", "Stopped", "Error", "Undeployed"},
     Running    |-> {"Executing", "Error"},
     Stopped    |-> {"Executing", "Error"},
     Error      |-> {"Executing", "Initiated"},
     Undeployed |-> {"Unknown", "Initiated", "Executing", "Error"}]
=============================================================================
