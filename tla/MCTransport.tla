----------------------------- MODULE MCTransport -----------------------------
(* Sessions as the operations of a node make them: a call and a RESET; and   *)
(* the fallback of Malloc, which sends no RESET.                             *)
EXTENDS Transport

WithFallback == {<<"READ", "RESET">>, <<"WRITE", "RESET">>, <<"MALLOC">>}

=============================================================================
