------------------------- MODULE MCServerLifecycle --------------------------
(* The process with one goroutine that serves requests; batches and a      *)
(* history of two.                                                         *)
EXTENDS ServerLifecycle
=============================================================================
