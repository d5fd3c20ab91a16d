---------------------------- MODULE MCCertFleet ----------------------------
(* Instances of CertFleet for TLC. *)
EXTENDS CertFleet, TLC

CONSTANTS n1, n2, c1, c2, c3, r1, r2, host

mcNodeOf == c1 :> n1 @@ c2 :> n2 @@ c3 :> n2
mcConns == Permutations({c2, c3})
mcNameOf == [r \in Real |-> host]

\* An operator CA, the same key re-issued, and a bundle under another password.
mcIssued == [ca |-> [key |-> 9, policy |-> 1], opens |-> TRUE]
mcReissued == [ca |-> [key |-> 9, policy |-> 2], opens |-> TRUE]
mcLocked == [ca |-> [key |-> 9, policy |-> 1], opens |-> FALSE]
mcBundles == {mcIssued, mcReissued, mcLocked}
=============================================================================
