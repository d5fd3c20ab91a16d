------------------------------ MODULE Storage ------------------------------
(***************************************************************************)
(* What the Storage interface of internal/storage/storage.go promises to   *)
(* several callers at once: every call takes effect at one moment between  *)
(* its invocation and its return, a Put that fails changes nothing, and    *)
(* DeletePrefix removes keys one at a time and succeeds only after a       *)
(* moment at which none was left.  A process that dies leaves its call     *)
(* applied or not; a power failure goes back to an earlier whole value.    *)
(***************************************************************************)
CONSTANTS
    Proc,   \* callers
    Key,    \* keys
    Prefix, \* the keys under the prefix that DeletePrefix removes
    Value,  \* what may be stored under a key
    None    \* the key does not exist

Ops == {"put", "get", "stat", "delete", "wipe"}

\* A call: pending until it takes effect or fails; `res` is what it returns.
Call == [op : Ops \cup {"idle"}, key : Key, val : Value \cup {None},
         st : {"pending", "applied", "failed"}, res : Value \cup {None}]

VARIABLES
    blob,    \* what each key holds
    durable, \* what each key holds on the medium
    call     \* per caller: the call it makes

vars == <<blob, durable, call>>

Pending(p, o) == call[p].op = o /\ call[p].st = "pending"

\* Only p's call changes, and not what it is a call of.
Reply(p, s, r) ==
    call' = [call EXCEPT ![p] = [call[p] EXCEPT !.st = s, !.res = r]]

Init ==
    /\ blob \in [Key -> Value \cup {None}] /\ durable = blob
    /\ call \in [Proc -> {c \in Call : c.op = "idle"}]

Invoke(p) ==
    /\ call[p].op = "idle"
    /\ call'[p] \in Call /\ call'[p].op # "idle" /\ call'[p].st = "pending"
    /\ call' = [call EXCEPT ![p] = call'[p]]
    /\ UNCHANGED <<blob, durable>>

Put(p) ==
    /\ Pending(p, "put")
    /\ blob' = [blob EXCEPT ![call[p].key] = call[p].val]
    /\ Reply(p, "applied", None)
    /\ UNCHANGED durable

\* Get, and Stat, which reports the same but for the content.
Read(p) ==
    /\ Pending(p, "get") \/ Pending(p, "stat")
    /\ Reply(p, "applied", blob[call[p].key])
    /\ UNCHANGED <<blob, durable>>

Delete(p) ==
    /\ Pending(p, "delete")
    /\ blob' = [blob EXCEPT ![call[p].key] = None]
    /\ Reply(p, "applied", None)
    /\ UNCHANGED durable

\* DeletePrefix removes one key of the prefix.
Erase(p) ==
    /\ Pending(p, "wipe")
    /\ \E k \in Prefix : blob' = [blob EXCEPT ![k] = None]
    /\ UNCHANGED <<durable, call>>

Wiped(p) ==
    /\ Pending(p, "wipe")
    /\ \A k \in Prefix : blob[k] = None
    /\ Reply(p, "applied", None)
    /\ UNCHANGED <<blob, durable>>

\* A call that fails has changed nothing, apart from keys DeletePrefix erased.
Fail(p) ==
    /\ call[p].op # "idle" /\ (call[p].st = "pending" \/ call[p].op = "get")
    /\ Reply(p, "failed", None)
    /\ UNCHANGED <<blob, durable>>

Return(p) ==
    /\ call[p].st # "pending"
    /\ call'[p] \in Call /\ call'[p].op = "idle"
    /\ call' = [call EXCEPT ![p] = call'[p]]
    /\ UNCHANGED <<blob, durable>>

\* The process of the caller dies.
Crash(p) ==
    /\ call'[p] \in Call /\ call'[p].op = "idle"
    /\ call' = [call EXCEPT ![p] = call'[p]]
    /\ UNCHANGED <<blob, durable>>

\* What the keys hold reaches the medium.
Settle == durable' = blob /\ UNCHANGED <<blob, call>>

PowerLoss ==
    /\ blob' = durable
    /\ \A p \in Proc : call'[p] \in Call /\ call'[p].op = "idle"
    /\ UNCHANGED durable

Next ==
    \/ \E p \in Proc :
          \/ Invoke(p) \/ Put(p) \/ Read(p) \/ Delete(p) \/ Erase(p) \/ Wiped(p)
          \/ Fail(p) \/ Return(p) \/ Crash(p)
    \/ Settle \/ PowerLoss

Spec == Init /\ [][Next]_vars
=============================================================================
