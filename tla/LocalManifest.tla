---------------------------- MODULE LocalManifest ----------------------------
(***************************************************************************)
(* The start of the agent with --manifest (ReadDeployManifestLocal, called *)
(* by main before the node is connected): the edge app of the file is      *)
(* undeployed, then deployed.  The option is part of the command line, and *)
(* the service starts the agent with the same one again whenever it has    *)
(* ended.  Only the record of the edge app and what ends the process are   *)
(* kept: docker does all it is asked to, nobody kills the agent, and MAPI  *)
(* leaves the edge app alone (see EdgeApp for all that).                   *)
(***************************************************************************)
VARIABLES stage,   \* how far the process is
          client,  \* is there an MQTT client?
          known,   \* status of the edge app's record in memory
          disk     \* and in the file

vars == <<stage, client, known, disk>>

\* The node is fresh, or knows the edge app from before.
Init ==
    /\ stage = "down" /\ client = FALSE /\ known = "Unknown"
    /\ disk \in {"Unknown", "Undeployed", "Running"}

Ends == stage' = "down" /\ client' = FALSE

\* main comes to ReadDeployManifestLocal with the records of the file.
Start ==
    /\ stage = "down"
    /\ stage' = "local"
    /\ known' = disk
    /\ UNCHANGED <<client, disk>>

(***************************************************************************)
(* setAndSendStatus: the record is written, then a message is built -- an  *)
(* error there is only logged -- and published with the client, which is   *)
(* nil before the node is connected (mqtt.go:29, 180): the process panics. *)
(***************************************************************************)
SetAndSendStatus(s, next) ==
    /\ known' = s /\ disk' = s
    /\ \/ stage' = next /\ UNCHANGED client
       \/ ~ client /\ Ends

\* UndeployEdgeApp is an error when the edge app is not known; main ends then.
UndeployUnknown ==
    /\ stage = "local" /\ known = "Unknown"
    /\ Ends
    /\ UNCHANGED <<known, disk>>

Undeploy ==
    /\ stage = "local" /\ known # "Unknown"
    /\ SetAndSendStatus("Executing", "undeploy")

FinishUndeploy == stage = "undeploy" /\ SetAndSendStatus("Undeployed", "deploy")

\* DeployEdgeApp: AddKnownManifest, and Running at the end.
Deploy ==
    /\ stage = "deploy"
    /\ stage' = "start" /\ known' = "Initiated"
    /\ UNCHANGED <<client, disk>>

FinishDeploy == stage = "start" /\ SetAndSendStatus("Running", "connect")

\* ConnectNode makes the client.
ConnectNode ==
    /\ stage = "connect"
    /\ stage' = "running" /\ client' = TRUE
    /\ UNCHANGED <<known, disk>>

Main == UndeployUnknown \/ Undeploy \/ FinishUndeploy \/ Deploy \/ FinishDeploy \/ ConnectNode

Next == Start \/ Main

Spec == Init /\ [][Next]_vars

\* The process goes on, and the service starts it again.
FairSpec == Spec /\ WF_vars(Main) /\ WF_vars(Start)
-----------------------------------------------------------------------------
(***************************************************************************)
(* "Path to the .json manifest file to be deployed" (README.md:91): when   *)
(* the agent is started with --manifest, its edge app runs in the end, and *)
(* the agent too.  On a fresh node every start ends with an error, because *)
(* the edge app that is undeployed first is not known (local_deploy.go:33, *)
(* edgeapp.go:222); where it is known, every start may end with a panic,   *)
(* because the first status message finds no client.                       *)
(***************************************************************************)
LocalManifestDeployed == stage = "local" ~> stage = "running" /\ known = "Running"
=============================================================================
