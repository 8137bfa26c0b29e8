---------------------------- MODULE MCHostBridge ----------------------------
(***************************************************************************)
(* A run with one target, a scheduler that logs a skipped slot, and the    *)
(* startup recovery's listing.                                             *)
(***************************************************************************)
EXTENDS HostBridge, TLC

MCProgram == "run" :> <<"log", "list", "model", "restore", "log">>
    @@ "scheduler" :> <<"log">> @@ "recovery" :> <<"recovery", "log">>

RunOnly == "run" :> <<"model">>

MCTimeout == "log" :> 0 @@ "list" :> 0 @@ "recovery" :> 2 @@ "model" :> 1
    @@ "restore" :> 1
=============================================================================
