---------------------------- MODULE MCWebServer ----------------------------
(* People for model-checking WebServer: a user and the administrator. *)
EXTENDS WebServer, TLC

CONSTANTS ana, admin

MCPeople == {ana, admin}
MCLevel == ana :> 0 @@ admin :> 2
=============================================================================
