---------------------------- MODULE MCConnection ----------------------------
(* A small instance of Connection for TLC. *)
EXTENDS Connection

CONSTANTS a1, a2, n1, ip, r1, r2

mcAll == [h \in Host |-> [p \in Proto |-> "mitm"]]
mcOpen == [auth |-> FALSE, conn |-> mcAll, egress |-> Addr \X Handler, msg |-> "forward"]
\* Interception of n1, behind a login, to a1 only.
mcGated == [mcOpen EXCEPT !.auth = TRUE, !.conn[ip] = [p \in Proto |-> "none"],
                          !.egress = {a1} \X Handler, !.msg = "page"]
\* Everything is spliced, a2 only as HTTP.
mcSplice == [mcOpen EXCEPT !.conn = [h \in Host |-> [p \in Proto |-> "splice"]],
                           !.egress = {<<a1, "http">>, <<a1, "tcp">>, <<a2, "http">>},
                           !.msg = "none"]
\* Only opaque traffic to an address may be looked into, and no name in it passes.
mcDeny == [mcOpen EXCEPT !.conn = [h \in Host |-> [p \in Proto |->
                                      IF h = ip /\ p = "tcp" THEN "mitm" ELSE "deny"]],
                         !.msg = "reset"]

mcPolicies == {mcOpen, mcGated, mcSplice, mcDeny}
=============================================================================
