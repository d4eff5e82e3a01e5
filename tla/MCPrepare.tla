------------------------------ MODULE MCPrepare ------------------------------
(* A small instance of the run: pipes of one, an agent of few words. *)
EXTENDS EventLoop

Words == [p \in Output |-> IF p = "out" THEN 2 ELSE 1]
=============================================================================
