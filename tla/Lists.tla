------------------------------- MODULE Lists -------------------------------
(***************************************************************************)
(* Loops over slices, as the pure algorithms of the code use them: the     *)
(* first element that passes a test, and the orders a sort may return.     *)
(***************************************************************************)
EXTENDS Sequences, FiniteSetsExt

\* The index of the first element that passes, 0 if none does.
FirstIn(s, Test(_)) ==
    LET I == {i \in 1 .. Len(s) : Test(s[i])} IN IF I = {} THEN 0 ELSE Min(I)

\* The index of the last one.
LastIn(s, Test(_)) ==
    LET I == {i \in 1 .. Len(s) : Test(s[i])} IN IF I = {} THEN 0 ELSE Max(I)

\* All ways to list the elements of a finite set once each.
Orders(S) == Injection(1 .. Cardinality(S), S)

\* The lists of ss one after the other.
Concat(ss) ==
    LET joined[n \in 0 .. Len(ss)] == IF n = 0 THEN <<>> ELSE joined[n - 1] \o ss[n]
    IN joined[Len(ss)]
=============================================================================
