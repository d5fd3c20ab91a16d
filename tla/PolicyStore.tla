---------------------------- MODULE PolicyStore ----------------------------
(***************************************************************************)
(* What RuleEngine.Lookup promises its callers: the client's policy is a   *)
(* register that operators write, and a Lookup that confirmed what it      *)
(* cached returns a value the register held while it ran.  A Lookup may    *)
(* also write the register, when it persists the uuid it minted for a      *)
(* file, but never anything else than what it read there.                  *)
(***************************************************************************)
EXTENDS Naturals

CONSTANTS
    Thread, \* callers of Lookup
    Rules   \* what a rule file or a default bucket makes the proxy do

Policy == [exists : BOOLEAN, rules : Rules]
Kinds == {"override", "default", "empty"}
Answer == [kind : Kinds \cup {"none", "error"}, rules : Rules, sure : BOOLEAN]

VARIABLES
    override, \* the client's own policy
    table,    \* the policy of the default bucket that covers the client
    edits,    \* how often operators wrote
    busy,     \* per caller: a Lookup runs
    saw,      \* per caller: overrides held since its Lookup began
    tsaw,     \* per caller: buckets held since its Lookup began
    answer    \* per caller: what its last Lookup returned

register == <<override, table, edits>>
vars == <<override, table, edits, busy, saw, tsaw, answer>>

Observed(h, p) == [t \in Thread |-> IF busy[t] THEN h[t] \cup {p} ELSE h[t]]
ObserveAll == saw' = Observed(saw, override') /\ tsaw' = Observed(tsaw, table')

Init ==
    /\ override \in Policy /\ table \in Policy /\ edits = 0
    /\ busy = [t \in Thread |-> FALSE]
    /\ saw = [t \in Thread |-> {}] /\ tsaw = [t \in Thread |-> {}]
    /\ answer \in [Thread -> {a \in Answer : a.kind = "none"}]

\* An operator writes the override or the table.
Write ==
    /\ override' \in Policy /\ table' \in Policy
    /\ override' = override \/ table' = table
    /\ edits' = edits + 1
    /\ ObserveAll
    /\ UNCHANGED <<busy, answer>>

\* A Lookup persists what it read in the course of this very Lookup.  This may
\* undo an operator's write of the meantime; it invents nothing.
WriteBack(t) ==
    /\ busy[t]
    /\ \/ \E p \in saw[t] : override' = [p EXCEPT !.exists = TRUE] /\ table' = table
       \/ table' \in tsaw[t] /\ override' = override
    /\ ObserveAll
    /\ UNCHANGED <<edits, busy, answer>>

\* Only t's answer changes.
Reply(t) ==
    /\ answer'[t] \in Answer
    /\ answer' = [answer EXCEPT ![t] = answer'[t]]

Begin(t) ==
    /\ ~busy[t]
    /\ busy' = [busy EXCEPT ![t] = TRUE]
    /\ saw' = [saw EXCEPT ![t] = {override}]
    /\ tsaw' = [tsaw EXCEPT ![t] = {table}]
    /\ Reply(t) /\ answer'[t].kind = "none"
    /\ UNCHANGED register

\* The register held the answer: the override (one that is deleted between Stat
\* and Load reads as an override without rules), or the bucket and no override.
Held(t, a) ==
    \/ a.kind = "override" /\ \E p \in saw[t] : p.rules = a.rules
    \/ /\ a.kind \in {"default", "empty"}
       /\ \E p \in saw[t] : ~p.exists
       /\ \E p \in tsaw[t] : p.exists = (a.kind = "default") /\ p.rules = a.rules

End(t) ==
    /\ busy[t]
    /\ Reply(t) /\ answer'[t].kind # "none"
    /\ answer'[t].sure => Held(t, answer'[t])
    /\ busy' = [busy EXCEPT ![t] = FALSE]
    /\ saw' = [saw EXCEPT ![t] = {}] /\ tsaw' = [tsaw EXCEPT ![t] = {}]
    /\ UNCHANGED register

\* An answer from a cache that is still fresh confirms nothing.
Recall(t) ==
    /\ ~busy[t]
    /\ Reply(t) /\ answer'[t].kind # "none" /\ ~answer'[t].sure
    /\ saw' = [saw EXCEPT ![t] = {}] /\ tsaw' = [tsaw EXCEPT ![t] = {}]
    /\ UNCHANGED <<register, busy>>

Next == Write \/ \E t \in Thread : WriteBack(t) \/ Begin(t) \/ End(t) \/ Recall(t)

Spec == Init /\ [][Next]_vars
=============================================================================
