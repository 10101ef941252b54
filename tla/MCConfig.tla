------------------------------ MODULE MCConfig ------------------------------
(***************************************************************************)
(* Instance of Config for TLC: brokers of all kinds, numbers that are      *)
(* negative, zero and positive, and a value in the file that has none of   *)
(* the types of the fields.                                                *)
(***************************************************************************)
EXTENDS Config, TLC

CONSTANT Mistyped

MCTexts == {"Broker", "NodeId", "NodeName"}
MCSwitches == {"NoTLS"}
MCNumbers == {"Heartbeat", "LogSendInvl"}
MCDefault == [f \in MCTexts \cup MCSwitches \cup MCNumbers |->
                 CASE f = "NoTLS" -> FALSE [] f = "Heartbeat" -> 10 [] f = "LogSendInvl" -> 60
                   [] OTHER -> ""]

MCOptions ==
    {[MCDefault EXCEPT !["Broker"] = b, !["NoTLS"] = t, !["Heartbeat"] = n, !["LogSendInvl"] = l] :
        b \in {"", "host", "tls://host:port", "mqtt://host:port"},
        t \in BOOLEAN, n \in {-1, 0, 5}, l \in {0, 30}}

Nothing == [k \in {} |-> ""]
Maybe(key, values) == {Nothing} \cup {key :> v : v \in values}

MCFiles ==
    {b @@ t @@ n @@ l @@ i @@ m @@ r :
        b \in Maybe("Broker", {"host", "tls://host:port", "mqtt://host:port"}),
        t \in Maybe("NoTLS", BOOLEAN \cup {Mistyped}), n \in Maybe("Heartbeat", {-1, 0, 7, Mistyped}),
        l \in Maybe("LogSendInvl", {0, 3}),
        i \in Maybe("NodeId", {"id"}), m \in Maybe("NodeName", {"name"}),
        r \in Maybe("Registered", {TRUE})}
=============================================================================
