---------------------------- MODULE MCRunRecovery ----------------------------
(* An instance of RunRecovery for TLC: runs that start, ask the user, are  *)
(* stopped or paused, and end, with crashes in between.                    *)
EXTENDS RunRecovery

LifecycleKinds == {"started", "awaiting_user_input", "cancelling", "cancelled",
                   "timed_out"}
=============================================================================
