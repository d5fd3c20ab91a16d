------------------------------ MODULE Outcall ------------------------------
(***************************************************************************)
(* The broker client: internal/outcall/service.go and cachecontrol.go, and *)
(* the verdicts internal/proxy/outcall.go draws from it.  Requests call Do *)
(* for a cache key; Do answers from the cache, or joins or starts the one  *)
(* call in flight for the key; stale answers are revalidated by background *)
(* goroutines.  Each critical section of cacheMu, each singleflight step   *)
(* and the broker's reply is a step of its own.                            *)
(*                                                                         *)
(* Times are kept as what is left of a window; a tick of the clock takes   *)
(* one from every window of the cache.                                     *)
(***************************************************************************)
EXTENDS Integers, FiniteSets

CONSTANTS
    Key,        \* outcall cache keys
    Caller,     \* requests in progress
    Runs,       \* which requests run which key's action
    FailOpen,   \* callers whose action sets failOpen
    Fetch,      \* callers whose action is header.fetch
    Headers,    \* caching headers brokers send
    Code,       \* non-2xx statuses brokers refuse with
    Override,   \* http_status values of their envelopes, 0 for none
    MaxInflight,
    MaxReplies  \* bound on the replies, per key

None == -1

\* Cache-Control and Expires: maxAge and expires are None when absent, expires
\* counts from now.
Header == [noStore : BOOLEAN, must : BOOLEAN, maxAge : Nat \cup {None},
           expires : Int, swr : Nat, sie : Nat]

ASSUME OutcallAssumption ==
    /\ Runs \subseteq Caller \X Key /\ Key # {}
    /\ FailOpen \subseteq Caller /\ Fetch \subseteq Caller
    /\ Headers \subseteq Header /\ Code \subseteq Nat /\ Override \subseteq Nat
    /\ MaxInflight \in Nat \ {0} /\ MaxReplies \in [Key -> Nat]

\* A broker's answer.  `forbidden`: it sets a header of OutcallDenylist; seq is
\* history, the number of the reply that gave or confirmed it.
Answer == [allow : BOOLEAN, forbidden : BOOLEAN, code : Code \cup {200},
           override : Override \cup {0}, seq : Nat]
NoAnswer == [allow |-> FALSE, forbidden |-> FALSE, code |-> 200, override |-> 0, seq |-> 0]

\* A cacheEntry with what is left of its windows.
Entry == [has : BOOLEAN, answer : Answer, fresh : Nat, swr : Nat, sie : Nat, must : BOOLEAN]
NoEntry == [has |-> FALSE, answer |-> NoAnswer, fresh |-> 0, swr |-> 0, sie |-> 0,
            must |-> FALSE]

\* A background revalidation: the key it is for and the entry it revalidates.
NoTask == [key |-> None, prior |-> NoEntry]
Task == [key : Key, prior : Entry] \cup {NoTask}

\* What Do returns: an answer of the broker or of the cache, or an error.
Result == [kind : {"allow", "deny", "fail"}, answer : Answer, status : Nat]
Fail == [kind |-> "fail", answer |-> NoAnswer, status |-> 0]

\* The call in flight for a key: st is where doHTTP is, slot whether it holds
\* a place of the semaphore.
Flights == [st : {"none", "acquire", "sent", "done"}, prior : Entry, slot : BOOLEAN, result : Result]
NoFlight == [st |-> "none", prior |-> NoEntry, slot |-> FALSE, result |-> Fail]

VARIABLES
    cache,    \* per key: the cached entry
    flight,   \* per key: the singleflight call
    sem,      \* places of the semaphore taken
    spawned,  \* per caller: a background revalidation that has not started
    pc,       \* per caller
    key,      \* per caller: the cache key of its action
    entry,    \* per caller: the entry Do read, with its windows at Do's `now`
    result,   \* per caller: what Do returned
    verdict,  \* per caller: what became of the request
    seq,      \* history, per key: replies so far
    since     \* history, per caller: seq when Do began

vars == <<cache, flight, sem, spawned, pc, key, entry, result, verdict, seq, since>>

Verdicts == {"none", "proceed", "refused", "failed"}

TypeOK ==
    /\ cache \in [Key -> Entry] /\ flight \in [Key -> Flights]
    /\ sem \in 0 .. MaxInflight /\ spawned \in [Caller -> Task]
    /\ pc \in [Caller -> {"idle", "call", "wait"}] /\ key \in [Caller -> Key]
    /\ entry \in [Caller -> Entry] /\ result \in [Caller -> Result]
    /\ verdict \in [Caller -> Verdicts]
    /\ seq \in [Key -> Nat] /\ \A k \in Key : seq[k] <= MaxReplies[k]
    /\ since \in [Caller -> Nat]

-----------------------------------------------------------------------------
(* The cache *)

\* parseFreshness: no heuristic freshness, an unparsable header is absent.
parseFreshness(h) ==
    [cacheable |-> ~h.noStore /\ (h.maxAge # None \/ h.expires # None),
     for |-> IF h.maxAge # None THEN h.maxAge
             ELSE IF h.expires > 0 THEN h.expires ELSE 0]

Windows(e, h) ==
    LET f == parseFreshness(h).for IN
    [e EXCEPT !.has = TRUE, !.fresh = f, !.swr = f + h.swr, !.sie = f + h.sie,
              !.must = h.must]

\* What a call uses of the entry it revalidates.
AsPrior(e) == [e EXCEPT !.fresh = 0, !.swr = 0, !.sie = 0, !.must = FALSE]

\* Mutant: a reply that may not be cached leaves the old entry.
storeKeeping(k, a, h) ==
    cache' = [cache EXCEPT ![k] =
                IF ~parseFreshness(h).cacheable THEN @
                ELSE Windows([NoEntry EXCEPT !.answer = a], h)]

store(k, a, h) ==
    cache' = [cache EXCEPT ![k] =
                IF ~parseFreshness(h).cacheable THEN NoEntry
                ELSE Windows([NoEntry EXCEPT !.answer = a], h)]

\* refresh: the prior entry with new windows, whatever the cache holds now.
refresh(k, prior, h) ==
    cache' = [cache EXCEPT ![k] =
                IF ~parseFreshness(h).cacheable THEN NoEntry
                ELSE Windows([prior EXCEPT !.answer.seq = seq'[k]], h)]

\* cacheEntry.result: a cached refusal reports the status the broker replied
\* with; a refusal just received reports the http_status of its envelope.
Cached(a) == [kind |-> IF a.allow THEN "allow" ELSE "deny", answer |-> a,
              status |-> IF a.allow THEN 0 ELSE a.code]
Received(a) == [kind |-> IF a.allow THEN "allow" ELSE "deny", answer |-> a,
                status |-> IF a.allow THEN 0 ELSE a.override]

-----------------------------------------------------------------------------
(* Verdicts *)

\* Mutant: a refusal is an outage too.
OutcomeOpen(c, r) ==
    IF r.kind = "allow" THEN "proceed"
    ELSE IF c \in FailOpen THEN "proceed" ELSE "refused"

\* applyWebhook and applyHeaderFetch: failOpen is for outages, and for replies
\* header.fetch may not apply, never for a refusal.
Outcome(c, r) ==
    IF r.kind = "deny" THEN "refused"
    ELSE IF r.kind = "allow" /\ ~(c \in Fetch /\ r.answer.forbidden) THEN "proceed"
    ELSE IF c \in FailOpen THEN "proceed" ELSE "failed"

\* The callers of S return from Do with res[c].
Return(S, res) ==
    /\ pc' = [c \in Caller |-> IF c \in S THEN "idle" ELSE pc[c]]
    /\ result' = [c \in Caller |-> IF c \in S THEN res[c] ELSE result[c]]
    /\ verdict' = [c \in Caller |-> IF c \in S THEN Outcome(c, res[c]) ELSE verdict[c]]

-----------------------------------------------------------------------------
(* Do *)

\* A caller has one background revalidation yet to start at most (a bound).
Do(c, k) ==
    LET e == cache[k]
        hit == e.has /\ (e.fresh > 0 \/ (~e.must /\ e.swr > 0))
        stale == e.has /\ e.fresh = 0
    IN
    /\ pc[c] = "idle"
    /\ key' = [key EXCEPT ![c] = k]
    /\ since' = [since EXCEPT ![c] = seq[k]]
    /\ entry' = [entry EXCEPT ![c] = e]
    /\ \/ /\ hit
          /\ stale => spawned[c] = NoTask
          /\ Return({c}, [d \in {c} |-> Cached(e.answer)])
          /\ spawned' = IF stale THEN [spawned EXCEPT ![c] = [key |-> k, prior |-> AsPrior(e)]] ELSE spawned
       \/ /\ ~hit
          /\ pc' = [pc EXCEPT ![c] = "call"]
          /\ verdict' = [verdict EXCEPT ![c] = "none"]
          /\ result' = [result EXCEPT ![c] = Fail]
          /\ UNCHANGED spawned
    /\ UNCHANGED <<cache, flight, sem, seq>>

\* call: join the call in flight for the key, or start one.
Launch(k, prior) ==
    flight' = IF flight[k].st = "none"
              THEN [flight EXCEPT ![k] = [NoFlight EXCEPT !.st = "acquire", !.prior = AsPrior(prior)]]
              ELSE flight

call(c) ==
    /\ pc[c] = "call"
    /\ Launch(key[c], entry[c])
    /\ pc' = [pc EXCEPT ![c] = "wait"]
    /\ UNCHANGED <<cache, sem, spawned, key, entry, result, verdict, seq, since>>

\* The background goroutine of a stale-while-revalidate hit.
Revalidate(c) ==
    /\ spawned[c] # NoTask
    /\ Launch(spawned[c].key, spawned[c].prior)
    /\ spawned' = [spawned EXCEPT ![c] = NoTask]
    /\ UNCHANGED <<cache, sem, pc, key, entry, result, verdict, seq, since>>

To(k, s, r) == flight' = [flight EXCEPT ![k].st = s, ![k].result = r]

\* doHTTP: take a place of the semaphore or fail at once.
Acquire(k) ==
    /\ flight[k].st = "acquire"
    /\ \/ /\ sem < MaxInflight
          /\ sem' = sem + 1
          /\ flight' = [flight EXCEPT ![k].st = "sent", ![k].slot = TRUE]
       \/ /\ sem = MaxInflight
          /\ To(k, "done", Fail)
          /\ UNCHANGED sem
    /\ UNCHANGED <<cache, spawned, pc, key, entry, result, verdict, seq, since>>

\* doHTTP: the reply, by kind; a timeout, a cancelled caller, an unreachable
\* broker and an incoherent body are failures.
ReplyFails(k) ==
    /\ flight[k].st = "sent"
    /\ To(k, "done", Fail)
    /\ UNCHANGED <<cache, sem, spawned, pc, key, entry, result, verdict, seq, since>>

Numbered(k) == seq[k] < MaxReplies[k] /\ seq' = [seq EXCEPT ![k] = @ + 1]

\* Any 304 confirms the prior entry, whether or not an If-None-Match was sent.
ReplyNotModified(k, h) ==
    LET prior == flight[k].prior IN
    /\ flight[k].st = "sent" /\ prior.has
    /\ Numbered(k)
    /\ refresh(k, prior, h)
    /\ To(k, "done", Cached([prior.answer EXCEPT !.seq = seq'[k]]))
    /\ UNCHANGED <<sem, spawned, pc, key, entry, result, verdict, since>>

Reply(k, h) ==
    /\ flight[k].st = "sent"
    /\ Numbered(k)
    /\ \E a \in [allow : {TRUE}, forbidden : BOOLEAN, code : {200}, override : {0}, seq : {seq'[k]}]
               \cup [allow : {FALSE}, forbidden : {FALSE}, code : Code, override : Override,
                     seq : {seq'[k]}] :
          store(k, a, h) /\ To(k, "done", Received(a))
    /\ UNCHANGED <<sem, spawned, pc, key, entry, result, verdict, since>>

Waiting(k) == {c \in Caller : pc[c] = "wait" /\ key[c] = k}

\* Do replaces a failure by the entry it read, if that was within stale-if-error.
ForCaller(c, r) ==
    IF r.kind = "fail" /\ entry[c].sie > 0 THEN Cached(entry[c].answer) ELSE r

\* Mutant: a failed call keeps its place.
FinishLeaking(k) ==
    /\ flight[k].st = "done"
    /\ sem' = IF flight[k].slot /\ flight[k].result.kind # "fail" THEN sem - 1 ELSE sem
    /\ flight' = [flight EXCEPT ![k] = NoFlight]
    /\ Return(Waiting(k), [c \in Waiting(k) |-> ForCaller(c, flight[k].result)])
    /\ UNCHANGED <<cache, spawned, key, entry, seq, since>>

\* Mutant: a call that found no place gives one back.
FinishUnpaired(k) ==
    /\ flight[k].st = "done"
    /\ sem' = sem - 1
    /\ flight' = [flight EXCEPT ![k] = NoFlight]
    /\ Return(Waiting(k), [c \in Waiting(k) |-> ForCaller(c, flight[k].result)])
    /\ UNCHANGED <<cache, spawned, key, entry, seq, since>>

\* Mutant: one caller gets the result, whoever joined it does not.
FinishAlone(k) ==
    /\ flight[k].st = "done"
    /\ sem' = IF flight[k].slot THEN sem - 1 ELSE sem
    /\ flight' = [flight EXCEPT ![k] = NoFlight]
    /\ \/ Waiting(k) = {} /\ Return({}, <<>>)
       \/ \E c \in Waiting(k) : Return({c}, [d \in {c} |-> ForCaller(d, flight[k].result)])
    /\ UNCHANGED <<cache, spawned, key, entry, seq, since>>

\* doHTTP returns: the place is given back and everyone who waits gets the
\* result.
Finish(k) ==
    /\ flight[k].st = "done"
    /\ sem' = IF flight[k].slot THEN sem - 1 ELSE sem
    /\ flight' = [flight EXCEPT ![k] = NoFlight]
    /\ Return(Waiting(k), [c \in Waiting(k) |-> ForCaller(c, flight[k].result)])
    /\ UNCHANGED <<cache, spawned, key, entry, seq, since>>

\* Time passes.
Less(n) == IF n = 0 THEN 0 ELSE n - 1
Tick ==
    /\ \E k \in Key : cache[k].fresh + cache[k].swr + cache[k].sie > 0
    /\ cache' = [k \in Key |-> [cache[k] EXCEPT !.fresh = Less(@), !.swr = Less(@),
                                                !.sie = Less(@)]]
    /\ UNCHANGED <<flight, sem, spawned, pc, key, entry, result, verdict, seq, since>>

Init ==
    /\ cache = [k \in Key |-> NoEntry] /\ flight = [k \in Key |-> NoFlight]
    /\ sem = 0 /\ spawned = [c \in Caller |-> NoTask]
    /\ pc = [c \in Caller |-> "idle"] /\ key = [c \in Caller |-> CHOOSE k \in Key : TRUE]
    /\ entry = [c \in Caller |-> NoEntry]
    /\ result = [c \in Caller |-> Fail]
    /\ verdict = [c \in Caller |-> "none"] /\ seq = [k \in Key |-> 0]
    /\ since = [c \in Caller |-> 0]

Flight(k) ==
    \/ Acquire(k) \/ ReplyFails(k) \/ Finish(k)
    \/ \E h \in Headers : ReplyNotModified(k, h) \/ Reply(k, h)

Next ==
    \/ \E r \in Runs : Do(r[1], r[2])
    \/ \E c \in Caller : call(c) \/ Revalidate(c)
    \/ \E k \in Key : Flight(k)
    \/ Tick

Spec == Init /\ [][Next]_vars

\* Goroutines run, and a broker call ends: its context has a deadline.
FairSpec ==
    /\ Spec
    /\ \A c \in Caller : WF_vars(call(c)) /\ WF_vars(Revalidate(c))
    /\ \A k \in Key : WF_vars(Flight(k))

-----------------------------------------------------------------------------
(* Properties *)

\* A reply supersedes every earlier one: a request that starts after a reply
\* was received is never answered with an older reply, whether the new one was
\* cacheable or not and whichever of Do, the background goroutines and the 304
\* path wrote the cache since (store, refresh, Do).
NoSupersededAnswer ==
    \A c \in Caller :
        verdict[c] # "none" /\ result[c].kind # "fail" => result[c].answer.seq >= since[c]

\* A refusal is a decision, not an outage (outcallDeniedVerdict): a request
\* that starts while a cached refusal is fresh or within stale-if-error only
\* proceeds on a later reply that allows it, whatever fails and whatever
\* failOpen says.
RefusalStands ==
    \A c \in Caller :
        LET e == entry[c] IN
        /\ verdict[c] = "proceed"
        /\ e.has /\ ~e.answer.allow /\ (e.fresh > 0 \/ e.sie > 0)
        => result[c].answer.allow /\ result[c].answer.seq > e.answer.seq

\* The semaphore counts the calls that hold a place: no path out of doHTTP,
\* timeouts and coalesced calls included, leaks one or gives back one it never
\* took, so --outcall-max-inflight stays the number of calls it admits.
SlotsBalanced == sem = Cardinality({k \in Key : flight[k].slot})

\* Every Do returns: callers coalesced onto a call that another request or a
\* background revalidation started are answered too, and nobody waits for a
\* place of the semaphore (call, doHTTP).
EveryDoReturns == \A c \in Caller : pc[c] # "idle" ~> pc[c] = "idle"
=============================================================================
