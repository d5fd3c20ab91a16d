----------------------------- MODULE MCOutcall -----------------------------
(* Small instances of Outcall for TLC. *)
EXTENDS Outcall, TLC

CONSTANTS k1, k2, c1, c2

\* Two keys compete for the semaphore; the broker of k2 never replies.
mcRuns == {<<c1, k1>>, <<c2, k1>>, <<c2, k2>>}
mcReplies == k1 :> 2 @@ k2 :> 0

mcNoStore == [noStore |-> TRUE, must |-> FALSE, maxAge |-> None, expires |-> None,
              swr |-> 0, sie |-> 0]
mcSilent == [mcNoStore EXCEPT !.noStore = FALSE]
mcMaxAge == [mcSilent EXCEPT !.maxAge = 1, !.swr = 1, !.sie = 1]
mcMust == [mcMaxAge EXCEPT !.must = TRUE]

mcFew == {mcSilent, mcMaxAge, mcMust}
=============================================================================
