--------------------------- MODULE MCDomainWizard ---------------------------
(* Instance of DomainWizard.                                               *)
EXTENDS DomainWizard

MCPlan == <<"console_dns", "console_app">>
MCToolPlan == <<"tunnel", "console_app", "pgadmin_app", "redisinsight_app">>

(* Bound: a second deployment is made, and a read fails, only while the    *)
(* port is shut by the environment file and not by the marker.             *)
OneThingAtATime ==
    \/ applies < 2 /\ misreads = 0
    \/ env = "closed" /\ ~marker /\ ~port
=============================================================================
