----------------------------- MODULE MCProcess -----------------------------
(* An instance of Process: two listeners, two chunks one way and one the    *)
(* other.                                                                   *)
EXTENDS Process

mcListeners == <<"http_proxy", "http_redirect">>

mcChunks == [s \in Side |-> IF s = "client" THEN 2 ELSE 1]
=============================================================================
