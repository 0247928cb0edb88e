------------------------------ MODULE MCShutdown ------------------------------
(* Two workers; timeouts of two ticks, so that a task can end during any of *)
(* the waits and one wait can begin when another has run out.               *)
EXTENDS Shutdown
=============================================================================
