--------------------------- MODULE Outcall_proofs ---------------------------
(***************************************************************************)
(* Proofs about Outcall for any keys, callers, headers and replies.        *)
(***************************************************************************)
EXTENDS Outcall, FiniteSetTheorems, TLAPS

-----------------------------------------------------------------------------
(* The inductive invariant *)

Holders == {k \in Key : flight[k].slot}

\* The semaphore counts its holders, and a call that has not yet tried to
\* acquire holds nothing.
Slots ==
    /\ IsFiniteSet(Holders) /\ sem = Cardinality(Holders)
    /\ \A k \in Key : flight[k].st \in {"none", "acquire"} => ~flight[k].slot

\* What the cache holds, and what a call in flight has brought and not yet
\* handed out, is the latest reply for the key.
Latest ==
    \A k \in Key :
        /\ cache[k].has => cache[k].answer.seq = seq[k]
        /\ cache[k].sie > 0 => cache[k].has
        /\ flight[k].st = "done" /\ flight[k].result.kind # "fail" =>
              /\ flight[k].result.answer.seq = seq[k]
              /\ flight[k].result.kind = "allow" => flight[k].result.answer.allow
              /\ cache[k].has => cache[k].answer = flight[k].result.answer

\* What a caller read when Do began: the latest reply of that moment.  While it
\* waits, a result that is no later than what it read is what it read.
Read(c) ==
    LET e == entry[c]
        f == flight[key[c]]
    IN
    /\ since[c] <= seq[key[c]]
    /\ e.has => e.answer.seq = since[c]
    /\ e.sie > 0 => e.has
    /\ pc[c] # "idle" /\ e.has =>
          /\ e.fresh = 0
          /\ f.st = "done" /\ f.result.kind # "fail" /\ since[c] = seq[key[c]] =>
                e.answer = f.result.answer

\* The two properties, for one caller, and what a miss has not decided yet.
Told(c) ==
    LET e == entry[c]
        r == result[c]
    IN
    /\ pc[c] # "idle" => verdict[c] = "none"
    /\ verdict[c] # "none" /\ r.kind # "fail" => r.answer.seq >= since[c]
    /\ verdict[c] = "proceed" /\ e.has /\ ~e.answer.allow /\ (e.fresh > 0 \/ e.sie > 0) =>
          r.answer.allow /\ r.answer.seq > e.answer.seq

Reads == \A c \in Caller : Read(c)
Verdict == \A c \in Caller : Told(c)

Inv == TypeOK /\ Slots /\ Latest /\ Reads /\ Verdict
-----------------------------------------------------------------------------
(* What the operators return *)

LEMMA Sentinels ==
    /\ NoAnswer \in Answer /\ NoEntry \in Entry /\ ~NoEntry.has /\ NoEntry.sie = 0
    /\ Fail \in Result /\ Fail.kind = "fail"
    /\ NoFlight \in Flights /\ NoFlight.st = "none" /\ ~NoFlight.slot
    /\ NoTask \in Task
<1>1. NoAnswer \in Answer
    BY Zenon DEF NoAnswer, Answer
<1>2. NoEntry \in Entry /\ ~NoEntry.has /\ NoEntry.sie = 0
    BY Zenon, <1>1 DEF NoEntry, Entry
<1>3. Fail \in Result /\ Fail.kind = "fail"
    BY Zenon, <1>1 DEF Fail, Result
<1>4. NoFlight \in Flights /\ NoFlight.st = "none" /\ ~NoFlight.slot
    BY Zenon, <1>2, <1>3 DEF NoFlight, Flights
<1> QED BY Zenon, <1>1, <1>2, <1>3, <1>4 DEF Task

LEMMA Fields ==
    /\ \A a \in Answer : a.allow \in BOOLEAN /\ a.seq \in Nat
    /\ \A e \in Entry : /\ e.has \in BOOLEAN /\ e.answer \in Answer
                        /\ e.fresh \in Nat /\ e.swr \in Nat /\ e.sie \in Nat
    /\ \A r \in Result : r.kind \in {"allow", "deny", "fail"} /\ r.answer \in Answer
    /\ \A f \in Flights : /\ f.st \in {"none", "acquire", "sent", "done"} /\ f.prior \in Entry
                          /\ f.slot \in BOOLEAN /\ f.result \in Result
<1>1. \A a \in Answer : a.allow \in BOOLEAN /\ a.seq \in Nat
    BY Zenon DEF Answer
<1>2. \A e \in Entry : /\ e.has \in BOOLEAN /\ e.answer \in Answer
                       /\ e.fresh \in Nat /\ e.swr \in Nat /\ e.sie \in Nat
    BY Zenon DEF Entry
<1>3. \A r \in Result : r.kind \in {"allow", "deny", "fail"} /\ r.answer \in Answer
    BY Zenon DEF Result
<1>4. \A f \in Flights : /\ f.st \in {"none", "acquire", "sent", "done"} /\ f.prior \in Entry
                         /\ f.slot \in BOOLEAN /\ f.result \in Result
    BY Zenon DEF Flights
<1> QED BY Zenon, <1>1, <1>2, <1>3, <1>4

\* cacheEntry.result and the result of a reply carry the answer and its decision.
LEMMA ResultOf ==
    ASSUME NEW a \in Answer
    PROVE  /\ Cached(a) \in Result /\ Cached(a).answer = a
           /\ Cached(a).kind = (IF a.allow THEN "allow" ELSE "deny")
           /\ Received(a) \in Result /\ Received(a).answer = a
           /\ Received(a).kind = (IF a.allow THEN "allow" ELSE "deny")
<1>1. a.code \in Nat /\ a.override \in Nat
    <2>1. (\A x \in Code \cup {200} : x \in Nat) /\ (\A x \in Override \cup {0} : x \in Nat)
        <3>1. Code \subseteq Nat /\ Override \subseteq Nat
            BY Zenon, OutcallAssumption
        <3>2. 200 \in Nat /\ 0 \in Nat
            OBVIOUS
        <3> QED BY Zenon, <3>1, <3>2
    <2>2. a.code \in Code \cup {200} /\ a.override \in Override \cup {0}
        BY Zenon DEF Answer
    <2> QED BY <2>1, <2>2
<1>2. /\ Cached(a).answer = a /\ Cached(a).kind = (IF a.allow THEN "allow" ELSE "deny")
      /\ Received(a).answer = a /\ Received(a).kind = (IF a.allow THEN "allow" ELSE "deny")
    BY Zenon DEF Cached, Received
<1>3. Cached(a) \in Result
    BY Zenon, <1>1 DEF Cached, Result
<1>4. Received(a) \in Result
    BY Zenon, <1>1 DEF Received, Result
<1> QED BY Zenon, <1>2, <1>3, <1>4

LEMMA WindowsOf ==
    ASSUME NEW e \in Entry, NEW h \in Header
    PROVE  /\ Windows(e, h) \in Entry /\ Windows(e, h).has /\ Windows(e, h).answer = e.answer
           /\ AsPrior(e) \in Entry
<1> DEFINE f == parseFreshness(h).for
<1>1. f \in Nat
    BY DEF parseFreshness, Header, None
<1>2. h.swr \in Nat /\ h.sie \in Nat /\ h.must \in BOOLEAN
    BY Zenon DEF Header
<1>3. f + h.swr \in Nat /\ f + h.sie \in Nat
    BY <1>1, <1>2
<1> HIDE DEF f
<1>4. Windows(e, h) = [e EXCEPT !.has = TRUE, !.fresh = f, !.swr = f + h.swr, !.sie = f + h.sie,
                                !.must = h.must]
    BY Zenon DEF Windows, f
<1>5. Windows(e, h) \in Entry /\ Windows(e, h).answer = e.answer
    BY Zenon, <1>1, <1>2, <1>3, <1>4 DEF Entry
<1>6. Windows(e, h).has
    BY Zenon, <1>4 DEF Entry
<1>7. AsPrior(e) \in Entry
    BY Zenon DEF AsPrior, Entry
<1> QED BY Zenon, <1>5, <1>6, <1>7

\* What store and refresh leave in the cache: the new answer or nothing.
Fresh(k, a) ==
    /\ cache' \in [Key -> Entry] /\ \A j \in Key : j # k => cache'[j] = cache[j]
    /\ cache'[k].has => cache'[k].answer = a
    /\ cache'[k].sie > 0 => cache'[k].has

LEMMA StoreIs ==
    ASSUME TypeOK, NEW k \in Key, NEW a \in Answer, NEW h \in Header, store(k, a, h)
    PROVE  Fresh(k, a)
<1> DEFINE e == [NoEntry EXCEPT !.answer = a]
<1>1. e \in Entry /\ e.answer = a
    BY Zenon, Sentinels DEF Entry
<1>2. Windows(e, h) \in Entry /\ Windows(e, h).has /\ Windows(e, h).answer = a
    BY Zenon, <1>1, WindowsOf
<1> HIDE DEF e
<1>3. cache' = [cache EXCEPT ![k] = NoEntry] \/ cache' = [cache EXCEPT ![k] = Windows(e, h)]
    BY Zenon DEF store, e
<1> QED BY <1>2, <1>3, Sentinels DEF TypeOK, Fresh

LEMMA RefreshIs ==
    ASSUME TypeOK, NEW k \in Key, NEW p \in Entry, NEW h \in Header, refresh(k, p, h),
           seq'[k] \in Nat
    PROVE  /\ [p.answer EXCEPT !.seq = seq'[k]] \in Answer
           /\ [p.answer EXCEPT !.seq = seq'[k]].seq = seq'[k]
           /\ Fresh(k, [p.answer EXCEPT !.seq = seq'[k]])
<1> DEFINE a == [p.answer EXCEPT !.seq = seq'[k]]
           e == [p EXCEPT !.answer.seq = seq'[k]]
<1>1. p.answer \in Answer
    BY Zenon, Fields
<1>2. a \in Answer /\ a.seq = seq'[k]
    BY Zenon, <1>1 DEF Answer
<1>3. e = [p EXCEPT !.answer = a]
    BY Zenon
<1> HIDE DEF a
<1>4. e \in Entry /\ e.answer = a
    BY Zenon, <1>2, <1>3 DEF Entry
<1>5. cache' = [cache EXCEPT ![k] = NoEntry] \/ cache' = [cache EXCEPT ![k] = Windows(e, h)]
    BY Zenon DEF refresh
<1> HIDE DEF e
<1>6. Windows(e, h) \in Entry /\ Windows(e, h).has /\ Windows(e, h).answer = a
    BY Zenon, <1>4, WindowsOf
<1>7. Fresh(k, a)
    BY <1>5, <1>6, Sentinels DEF TypeOK, Fresh
<1> QED BY Zenon, <1>2, <1>7 DEF a

\* A step of doHTTP keeps the rest of the call.
LEMMA ToIs ==
    ASSUME TypeOK, NEW k \in Key, NEW s \in {"sent", "done"}, NEW r \in Result, To(k, s, r)
    PROVE  /\ flight' \in [Key -> Flights] /\ \A j \in Key : j # k => flight'[j] = flight[j]
           /\ flight'[k].st = s /\ flight'[k].result = r /\ flight'[k].slot = flight[k].slot
<1>1. flight[k] \in Flights
    BY Zenon DEF TypeOK
<1>2. flight' = [flight EXCEPT ![k] = [flight[k] EXCEPT !.st = s, !.result = r]]
    BY Zenon DEF To, TypeOK
<1> DEFINE f == [flight[k] EXCEPT !.st = s, !.result = r]
<1>3. f \in Flights /\ f.st = s /\ f.result = r /\ f.slot = flight[k].slot
    BY Zenon, <1>1 DEF Flights
<1> HIDE DEF f
<1>4. flight'[k] = f
    BY Zenon, <1>2 DEF TypeOK, f
<1> QED BY Zenon, <1>2, <1>3, <1>4 DEF TypeOK, f

\* A reply that counts, whether new or a confirmation of the prior entry.
Replied(k, a) ==
    /\ flight[k].st = "sent" /\ a \in Answer /\ a.seq = seq[k] + 1
    /\ seq' = [seq EXCEPT ![k] = @ + 1] /\ seq[k] < MaxReplies[k]
    /\ Fresh(k, a)
    /\ flight' \in [Key -> Flights] /\ \A j \in Key : j # k => flight'[j] = flight[j]
    /\ flight'[k].st = "done" /\ flight'[k].slot = flight[k].slot
    /\ flight'[k].result.answer = a
    /\ flight'[k].result.kind = (IF a.allow THEN "allow" ELSE "deny")
    /\ UNCHANGED <<sem, spawned, pc, key, entry, result, verdict, since>>

LEMMA ReplyIs ==
    ASSUME TypeOK, NEW k \in Key, NEW h \in Headers, ReplyNotModified(k, h) \/ Reply(k, h)
    PROVE  \E a \in Answer : Replied(k, a)
<1>h. h \in Header
    BY Zenon, OutcallAssumption
<1>s. seq' = [seq EXCEPT ![k] = @ + 1] /\ seq[k] < MaxReplies[k] /\ seq'[k] = seq[k] + 1
      /\ seq'[k] \in Nat
    <2>1. Numbered(k)
        BY Zenon DEF ReplyNotModified, Reply
    <2> QED BY <2>1 DEF TypeOK, Numbered
<1>1. CASE ReplyNotModified(k, h)
    <2> DEFINE p == flight[k].prior
               a == [p.answer EXCEPT !.seq = seq'[k]]
    <2>1. p \in Entry
        BY Zenon, Fields DEF TypeOK
    <2>2. a \in Answer /\ a.seq = seq'[k] /\ Fresh(k, a)
        BY Zenon, <1>h, <1>s, <1>1, <2>1, RefreshIs DEF ReplyNotModified
    <2>3. To(k, "done", Cached(a))
        BY Zenon, <1>1 DEF ReplyNotModified
    <2> HIDE DEF a
    <2>4. Cached(a) \in Result /\ Cached(a).answer = a
          /\ Cached(a).kind = (IF a.allow THEN "allow" ELSE "deny")
        BY Zenon, <2>2, ResultOf
    <2>5. /\ flight' \in [Key -> Flights] /\ \A j \in Key : j # k => flight'[j] = flight[j]
          /\ flight'[k].st = "done" /\ flight'[k].result = Cached(a)
          /\ flight'[k].slot = flight[k].slot
        BY Zenon, <2>3, <2>4, ToIs
    <2> QED BY Zenon, <1>s, <1>1, <2>2, <2>4, <2>5 DEF ReplyNotModified, Replied
<1>2. CASE Reply(k, h)
    <2>1. PICK a \in [allow : {TRUE}, forbidden : BOOLEAN, code : {200}, override : {0}, seq : {seq'[k]}]
                   \cup [allow : {FALSE}, forbidden : {FALSE}, code : Code, override : Override,
                         seq : {seq'[k]}] :
             store(k, a, h) /\ To(k, "done", Received(a))
        BY Zenon, <1>2 DEF Reply
    <2>2. a \in Answer /\ a.seq = seq'[k]
        BY Zenon, <1>s DEF Answer
    <2>3. Received(a) \in Result /\ Received(a).answer = a
          /\ Received(a).kind = (IF a.allow THEN "allow" ELSE "deny")
        BY Zenon, <2>2, ResultOf
    <2>4. /\ flight' \in [Key -> Flights] /\ \A j \in Key : j # k => flight'[j] = flight[j]
          /\ flight'[k].st = "done" /\ flight'[k].result = Received(a)
          /\ flight'[k].slot = flight[k].slot
        BY Zenon, <2>1, <2>3, ToIs
    <2>5. Fresh(k, a)
        BY Zenon, <1>h, <2>1, <2>2, StoreIs
    <2> QED BY ZenonT(60), <1>s, <1>2, <2>2, <2>3, <2>4, <2>5 DEF Reply, Replied
<1> QED BY Zenon, <1>1, <1>2

LEMMA LaunchIs ==
    ASSUME TypeOK, NEW k \in Key, NEW p \in Entry, Launch(k, p)
    PROVE  /\ flight' \in [Key -> Flights] /\ \A j \in Key : j # k => flight'[j] = flight[j]
           /\ \/ flight'[k] = flight[k]
              \/ flight[k].st = "none" /\ flight'[k].st = "acquire" /\ ~flight'[k].slot
<1> DEFINE f == [NoFlight EXCEPT !.st = "acquire", !.prior = AsPrior(p)]
<1>1. NoFlight \in Flights /\ ~NoFlight.slot
    BY Zenon, Sentinels
<1>2. AsPrior(p) \in Entry
    BY Zenon DEF AsPrior, Entry
<1>3. f \in Flights /\ f.st = "acquire" /\ f.slot = NoFlight.slot
    BY Zenon, <1>1, <1>2 DEF Flights
<1> HIDE DEF f
<1>4. flight' = flight \/ (flight[k].st = "none" /\ flight' = [flight EXCEPT ![k] = f])
    BY Zenon DEF Launch, f
<1> QED BY <1>1, <1>3, <1>4 DEF TypeOK

\* Do's return, to one caller or to all who waited.
LEMMA ReturnIs ==
    ASSUME TypeOK, NEW S \in SUBSET Caller, NEW res, \A c \in S : res[c] \in Result, Return(S, res)
    PROVE  /\ pc' \in [Caller -> {"idle", "call", "wait"}]
           /\ result' \in [Caller -> Result] /\ verdict' \in [Caller -> Verdicts]
           /\ \A c \in S : /\ pc'[c] = "idle" /\ result'[c] = res[c]
                           /\ verdict'[c] = Outcome(c, res[c])
           /\ \A c \in Caller \ S : /\ pc'[c] = pc[c] /\ result'[c] = result[c]
                                    /\ verdict'[c] = verdict[c]
<1>1. \A c \in S : Outcome(c, res[c]) \in Verdicts
    BY Zenon DEF Outcome, Verdicts
<1>2. \A c \in Caller : verdict'[c] \in Verdicts
    BY Zenon, <1>1 DEF Return, TypeOK
<1>3. verdict' \in [Caller -> Verdicts]
    BY Zenon, <1>2 DEF Return
<1>4. pc' \in [Caller -> {"idle", "call", "wait"}] /\ result' \in [Caller -> Result]
    BY Zenon DEF Return, TypeOK
<1>5. \A c \in S : /\ pc'[c] = "idle" /\ result'[c] = res[c]
                   /\ verdict'[c] = Outcome(c, res[c])
    BY Zenon DEF Return
<1>6. \A c \in Caller \ S : /\ pc'[c] = pc[c] /\ result'[c] = result[c]
                            /\ verdict'[c] = verdict[c]
    BY Zenon DEF Return
<1> QED BY Zenon, <1>3, <1>4, <1>5, <1>6

\* Do: a hit answers at once, a miss goes on to the call.
LEMMA DoIs ==
    ASSUME TypeOK, NEW c \in Caller, NEW k \in Key, Do(c, k)
    PROVE  /\ key' = [key EXCEPT ![c] = k] /\ since' = [since EXCEPT ![c] = seq[k]]
           /\ entry' = [entry EXCEPT ![c] = cache[k]]
           /\ pc' \in [Caller -> {"idle", "call", "wait"}] /\ result' \in [Caller -> Result]
           /\ verdict' \in [Caller -> Verdicts] /\ spawned' \in [Caller -> Task]
           /\ \A d \in Caller : d # c => /\ pc'[d] = pc[d] /\ result'[d] = result[d]
                                         /\ verdict'[d] = verdict[d]
           /\ \/ /\ pc'[c] = "idle" /\ cache[k].has
                 /\ result'[c] = Cached(cache[k].answer)
                 /\ verdict'[c] = Outcome(c, Cached(cache[k].answer))
              \/ pc'[c] = "call" /\ verdict'[c] = "none" /\ (cache[k].has => cache[k].fresh = 0)
           /\ UNCHANGED <<cache, flight, sem, seq>>
<1> DEFINE e == cache[k]
           hit == e.has /\ (e.fresh > 0 \/ (~e.must /\ e.swr > 0))
<1>e. e \in Entry /\ e.fresh \in Nat /\ Cached(e.answer) \in Result
    BY Zenon, Fields, ResultOf DEF TypeOK
<1>0. /\ key' = [key EXCEPT ![c] = k] /\ since' = [since EXCEPT ![c] = seq[k]]
      /\ entry' = [entry EXCEPT ![c] = cache[k]] /\ UNCHANGED <<cache, flight, sem, seq>>
    BY Zenon DEF Do
<1>1. spawned' \in [Caller -> Task]
    <2>1. AsPrior(e) \in Entry
        BY Zenon, <1>e DEF AsPrior, Entry
    <2>2. [key |-> k, prior |-> AsPrior(e)] \in Task
        BY Zenon, <2>1 DEF Task
    <2>3. spawned' = spawned \/ spawned' = [spawned EXCEPT ![c] = [key |-> k, prior |-> AsPrior(e)]]
        BY Zenon DEF Do
    <2> QED BY Zenon, <2>2, <2>3 DEF TypeOK
<1>2. CASE hit /\ Return({c}, [d \in {c} |-> Cached(e.answer)])
    <2> DEFINE res == [d \in {c} |-> Cached(e.answer)]
    <2>1. {c} \in SUBSET Caller /\ (\A d \in {c} : res[d] \in Result) /\ res[c] = Cached(e.answer)
        BY Zenon, <1>e
    <2> HIDE DEF res
    <2>2. Return({c}, res)
        BY Zenon, <1>2 DEF res
    <2>3. /\ pc' \in [Caller -> {"idle", "call", "wait"}]
          /\ result' \in [Caller -> Result] /\ verdict' \in [Caller -> Verdicts]
          /\ \A d \in {c} : /\ pc'[d] = "idle" /\ result'[d] = res[d]
                            /\ verdict'[d] = Outcome(d, res[d])
          /\ \A d \in Caller \ {c} : /\ pc'[d] = pc[d] /\ result'[d] = result[d]
                                     /\ verdict'[d] = verdict[d]
        BY Zenon, <2>1, <2>2, ReturnIs
    <2>4. pc'[c] = "idle" /\ result'[c] = Cached(e.answer)
          /\ verdict'[c] = Outcome(c, Cached(e.answer))
        BY Zenon, <2>1, <2>3
    <2>5. \A d \in Caller : d # c => /\ pc'[d] = pc[d] /\ result'[d] = result[d]
                                     /\ verdict'[d] = verdict[d]
        BY Zenon, <2>3
    <2> QED BY Zenon, <1>0, <1>1, <1>2, <2>3, <2>4, <2>5
<1>3. CASE /\ ~hit /\ pc' = [pc EXCEPT ![c] = "call"]
           /\ verdict' = [verdict EXCEPT ![c] = "none"] /\ result' = [result EXCEPT ![c] = Fail]
    <2>1. e.has => e.fresh = 0
        BY <1>e, <1>3
    <2>2. /\ pc' \in [Caller -> {"idle", "call", "wait"}] /\ result' \in [Caller -> Result]
          /\ verdict' \in [Caller -> Verdicts] /\ pc'[c] = "call" /\ verdict'[c] = "none"
          /\ \A d \in Caller : d # c => /\ pc'[d] = pc[d] /\ result'[d] = result[d]
                                        /\ verdict'[d] = verdict[d]
        BY Zenon, <1>3, Sentinels DEF TypeOK, Verdicts
    <2> QED BY Zenon, <1>0, <1>1, <2>1, <2>2
<1> QED BY Zenon, <1>2, <1>3 DEF Do

LEMMA FinishIs ==
    ASSUME TypeOK, NEW k \in Key, Finish(k)
    PROVE  /\ flight[k].st = "done" /\ flight' = [flight EXCEPT ![k] = NoFlight]
           /\ sem' = IF flight[k].slot THEN sem - 1 ELSE sem
           /\ pc' \in [Caller -> {"idle", "call", "wait"}]
           /\ result' \in [Caller -> Result] /\ verdict' \in [Caller -> Verdicts]
           /\ \A c \in Caller : pc[c] = "wait" /\ key[c] = k =>
                 /\ pc'[c] = "idle" /\ result'[c] = ForCaller(c, flight[k].result)
                 /\ verdict'[c] = Outcome(c, ForCaller(c, flight[k].result))
           /\ \A c \in Caller : ~(pc[c] = "wait" /\ key[c] = k) =>
                 pc'[c] = pc[c] /\ result'[c] = result[c] /\ verdict'[c] = verdict[c]
           /\ UNCHANGED <<cache, spawned, key, entry, seq, since>>
<1> DEFINE S == Waiting(k)
           res == [c \in S |-> ForCaller(c, flight[k].result)]
<1>1. /\ flight[k].st = "done" /\ flight' = [flight EXCEPT ![k] = NoFlight]
      /\ sem' = IF flight[k].slot THEN sem - 1 ELSE sem
      /\ UNCHANGED <<cache, spawned, key, entry, seq, since>>
    BY Zenon DEF Finish
<1>2. S \in SUBSET Caller /\ \A c \in Caller : c \in S <=> pc[c] = "wait" /\ key[c] = k
    BY Zenon DEF Waiting
<1>3. flight[k].result \in Result
    BY Zenon, Fields DEF TypeOK
<1>4. \A c \in S : ForCaller(c, flight[k].result) \in Result
    <2>1. \A c \in S : Cached(entry[c].answer) \in Result
        BY Zenon, <1>2, Fields, ResultOf DEF TypeOK
    <2> QED BY Zenon, <1>3, <2>1 DEF ForCaller
<1>5. Return(S, res)
    BY Zenon DEF Finish
<1>6. \A c \in S : res[c] = ForCaller(c, flight[k].result) /\ res[c] \in Result
    BY Zenon, <1>4
<1> HIDE DEF S, res
<1>7. /\ pc' \in [Caller -> {"idle", "call", "wait"}]
      /\ result' \in [Caller -> Result] /\ verdict' \in [Caller -> Verdicts]
      /\ \A c \in S : /\ pc'[c] = "idle" /\ result'[c] = res[c]
                      /\ verdict'[c] = Outcome(c, res[c])
      /\ \A c \in Caller \ S : /\ pc'[c] = pc[c] /\ result'[c] = result[c]
                               /\ verdict'[c] = verdict[c]
    BY Zenon, <1>2, <1>5, <1>6, ReturnIs
<1> QED BY Zenon, <1>1, <1>2, <1>6, <1>7

LEMMA TickIs ==
    ASSUME TypeOK, Tick
    PROVE  /\ cache' \in [Key -> Entry]
           /\ \A k \in Key : /\ cache'[k].has = cache[k].has /\ cache'[k].answer = cache[k].answer
                             /\ cache'[k].sie > 0 => cache[k].sie > 0
           /\ UNCHANGED <<flight, sem, spawned, pc, key, entry, result, verdict, seq, since>>
<1>1. ASSUME NEW e \in Entry
      PROVE  LET f == [e EXCEPT !.fresh = Less(@), !.swr = Less(@), !.sie = Less(@)]
             IN  f \in Entry /\ f.has = e.has /\ f.answer = e.answer /\ (f.sie > 0 => e.sie > 0)
    <2>1. Less(e.fresh) \in Nat /\ Less(e.swr) \in Nat /\ Less(e.sie) \in Nat
          /\ (Less(e.sie) > 0 => e.sie > 0)
        BY Fields DEF Less
    <2> QED BY Zenon, <2>1 DEF Entry
<1> QED BY Zenon, <1>1 DEF Tick, TypeOK

\* The place of the semaphore that Acquire takes.
LEMMA AcquireIs ==
    ASSUME TypeOK, NEW k \in Key, Acquire(k)
    PROVE  /\ flight[k].st = "acquire"
           /\ flight' \in [Key -> Flights] /\ \A j \in Key : j # k => flight'[j] = flight[j]
           /\ \/ /\ sem < MaxInflight /\ sem' = sem + 1
                 /\ flight'[k].st = "sent" /\ flight'[k].slot
              \/ /\ sem' = sem /\ flight'[k].slot = flight[k].slot
                 /\ flight'[k].st = "done" /\ flight'[k].result = Fail
           /\ UNCHANGED <<cache, spawned, pc, key, entry, result, verdict, seq, since>>
<1>1. CASE /\ sem < MaxInflight /\ sem' = sem + 1
           /\ flight' = [flight EXCEPT ![k].st = "sent", ![k].slot = TRUE]
    <2> DEFINE f == [flight[k] EXCEPT !.st = "sent", !.slot = TRUE]
    <2>1. flight[k] \in Flights
        BY Zenon DEF TypeOK
    <2>2. f \in Flights /\ f.st = "sent"
        BY Zenon, <2>1 DEF Flights
    <2>3. f.slot
        BY Zenon, <2>1 DEF Flights
    <2>4. flight' = [flight EXCEPT ![k] = f]
        BY Zenon, <1>1 DEF TypeOK
    <2> HIDE DEF f
    <2>5. flight \in [Key -> Flights]
        BY Zenon DEF TypeOK
    <2>6. /\ flight' \in [Key -> Flights] /\ flight'[k] = f
          /\ \A j \in Key : j # k => flight'[j] = flight[j]
        BY Zenon, <2>2, <2>4, <2>5
    <2>7. /\ flight[k].st = "acquire"
          /\ UNCHANGED <<cache, spawned, pc, key, entry, result, verdict, seq, since>>
        BY Zenon DEF Acquire
    <2> QED BY Zenon, <1>1, <2>2, <2>3, <2>6, <2>7
<1>2. CASE sem = MaxInflight /\ To(k, "done", Fail) /\ UNCHANGED sem
    BY Zenon, <1>2, ToIs, Sentinels DEF Acquire
<1> QED BY Zenon, <1>1, <1>2 DEF Acquire

\* A foreground or background call joins or starts the call for its key.
Launched(k) ==
    /\ flight' \in [Key -> Flights] /\ \A j \in Key : j # k => flight'[j] = flight[j]
    /\ \/ flight'[k] = flight[k]
       \/ flight[k].st = "none" /\ flight'[k].st = "acquire" /\ ~flight'[k].slot
    /\ spawned' \in [Caller -> Task]
    /\ pc' \in [Caller -> {"idle", "call", "wait"}]
    /\ \A c \in Caller : pc'[c] # "idle" => pc[c] # "idle"
    /\ UNCHANGED <<cache, sem, key, entry, result, verdict, seq, since>>

LEMMA CallIs ==
    ASSUME TypeOK, NEW c \in Caller, call(c) \/ Revalidate(c)
    PROVE  \E k \in Key : Launched(k)
<1>1. CASE call(c)
    <2>1. key[c] \in Key /\ entry[c] \in Entry /\ Launch(key[c], entry[c])
        BY Zenon, <1>1 DEF call, TypeOK
    <2>2. /\ flight' \in [Key -> Flights] /\ \A j \in Key : j # key[c] => flight'[j] = flight[j]
          /\ \/ flight'[key[c]] = flight[key[c]]
             \/ /\ flight[key[c]].st = "none" /\ flight'[key[c]].st = "acquire"
                /\ ~flight'[key[c]].slot
        BY Zenon, <2>1, LaunchIs
    <2>3. pc' \in [Caller -> {"idle", "call", "wait"}]
          /\ \A d \in Caller : pc'[d] # "idle" => pc[d] # "idle"
        BY Zenon, <1>1 DEF call, TypeOK
    <2>4. Launched(key[c])
        BY Zenon, <1>1, <2>2, <2>3 DEF call, Launched, TypeOK
    <2> QED BY Zenon, <2>1, <2>4
<1>2. CASE Revalidate(c)
    <2> DEFINE k == spawned[c].key
    <2>1. k \in Key /\ spawned[c].prior \in Entry /\ Launch(k, spawned[c].prior)
        BY Zenon, <1>2 DEF Revalidate, TypeOK, Task
    <2>2. /\ flight' \in [Key -> Flights] /\ \A j \in Key : j # k => flight'[j] = flight[j]
          /\ \/ flight'[k] = flight[k]
             \/ flight[k].st = "none" /\ flight'[k].st = "acquire" /\ ~flight'[k].slot
        BY Zenon, <2>1, LaunchIs
    <2>3. spawned' \in [Caller -> Task]
        BY Zenon, <1>2, Sentinels DEF Revalidate, TypeOK
    <2>4. Launched(k)
        BY Zenon, <1>2, <2>2, <2>3 DEF Revalidate, Launched, TypeOK
    <2> QED BY Zenon, <2>1, <2>4
<1> QED BY Zenon, <1>1, <1>2

\* A call that fails changes no cache entry.
Failed(k) ==
    /\ flight[k].st = "sent"
    /\ flight' \in [Key -> Flights] /\ \A j \in Key : j # k => flight'[j] = flight[j]
    /\ flight'[k].st = "done" /\ flight'[k].result.kind = "fail"
    /\ flight'[k].slot = flight[k].slot
    /\ UNCHANGED <<cache, sem, spawned, pc, key, entry, result, verdict, seq, since>>

\* The steps of Next, by what they do.
LEMMA Steps ==
    ASSUME TypeOK, [Next]_vars
    PROVE  \/ UNCHANGED vars
           \/ \E c \in Caller, k \in Key : Do(c, k)
           \/ \E k \in Key : Launched(k) \/ Acquire(k) \/ Failed(k) \/ Finish(k)
           \/ \E k \in Key, a \in Answer : Replied(k, a)
           \/ Tick
<1>1. ASSUME NEW r \in Runs, Do(r[1], r[2]) PROVE \E c \in Caller, k \in Key : Do(c, k)
    <2>1. r[1] \in Caller /\ r[2] \in Key
        BY Zenon, OutcallAssumption
    <2> QED BY Zenon, <1>1, <2>1
<1>2. ASSUME NEW k \in Key, ReplyFails(k) PROVE Failed(k)
    BY Zenon, <1>2, ToIs, Sentinels DEF ReplyFails, Failed
<1>3. ASSUME NEW k \in Key, Flight(k)
      PROVE  Acquire(k) \/ Failed(k) \/ Finish(k) \/ \E a \in Answer : Replied(k, a)
    BY Zenon, <1>2, <1>3, ReplyIs DEF Flight
<1> QED BY Zenon, <1>1, <1>3, CallIs DEF Next
-----------------------------------------------------------------------------
(* Types, and the semaphore *)

LEMMA SlotsStep ==
    ASSUME TypeOK, Slots, [Next]_vars
    PROVE  Slots'
<1>f. \A k \in Key : flight[k] \in Flights /\ flight[k].slot \in BOOLEAN
    BY Zenon, Fields DEF TypeOK
<1>u. ASSUME UNCHANGED sem, \A k \in Key : flight'[k].slot = flight[k].slot,
             \A k \in Key : flight'[k].st \in {"none", "acquire"} => ~flight'[k].slot
      PROVE  Slots'
    <2>1. Holders' = Holders
        BY Zenon, <1>u DEF Holders
    <2> QED BY Zenon, <1>u, <2>1 DEF Slots
<1>1. CASE UNCHANGED <<flight, sem>>
    BY Zenon, <1>u, <1>1 DEF Slots
<1>2. ASSUME NEW k \in Key, Launched(k) PROVE Slots'
    <2>1. flight'[k].slot \in BOOLEAN
        BY Zenon, <1>2, Fields DEF Launched
    <2>2. flight'[k].slot = flight[k].slot
        <3>1. CASE flight'[k] = flight[k]
            BY Zenon, <3>1
        <3>2. CASE flight[k].st = "none" /\ ~flight'[k].slot
            <4>1. ~flight[k].slot
                BY Zenon, <3>2 DEF Slots
            <4> QED BY Zenon, <1>f, <2>1, <3>2, <4>1
        <3> QED BY Zenon, <1>2, <3>1, <3>2 DEF Launched
    <2>3. \A j \in Key : flight'[j].slot = flight[j].slot
        BY Zenon, <1>2, <2>2 DEF Launched
    <2>4. \A j \in Key : flight'[j].st \in {"none", "acquire"} => ~flight'[j].slot
        BY Zenon, <1>2 DEF Launched, Slots
    <2> QED BY Zenon, <1>u, <1>2, <2>3, <2>4 DEF Launched
<1>3. ASSUME NEW k \in Key, Acquire(k) PROVE Slots'
    <2>1. ~flight[k].slot /\ k \notin Holders
        BY Zenon, <1>3, AcquireIs DEF Slots, Holders
    <2>2. CASE sem' = sem + 1 /\ flight'[k].st = "sent" /\ flight'[k].slot
        <3>1. Holders' = Holders \cup {k}
            BY Zenon, <1>3, <2>2, AcquireIs DEF Holders
        <3>2. IsFiniteSet(Holders') /\ Cardinality(Holders') = Cardinality(Holders) + 1
            BY Zenon, <2>1, <3>1, FS_AddElement DEF Slots
        <3>3. sem' = Cardinality(Holders')
            BY Zenon, <2>2, <3>2 DEF Slots
        <3>4. \A j \in Key : flight'[j].st \in {"none", "acquire"} => ~flight'[j].slot
            BY Zenon, <1>3, <2>2, AcquireIs DEF Slots
        <3> QED BY Zenon, <3>2, <3>3, <3>4 DEF Slots
    <2>3. CASE sem' = sem /\ flight'[k].slot = flight[k].slot /\ flight'[k].st = "done"
        BY Zenon, <1>u, <1>3, <2>3, AcquireIs DEF Slots
    <2> QED BY Zenon, <1>3, <2>2, <2>3, AcquireIs
<1>4. ASSUME NEW k \in Key, Failed(k) PROVE Slots'
    BY Zenon, <1>u, <1>4 DEF Failed, Slots
<1>5. ASSUME NEW k \in Key, NEW a \in Answer, Replied(k, a) PROVE Slots'
    BY Zenon, <1>u, <1>5 DEF Replied, Slots
<1>6. ASSUME NEW k \in Key, Finish(k) PROVE Slots'
    <2>1. /\ flight'[k] = NoFlight /\ ~flight'[k].slot
          /\ \A j \in Key : j # k => flight'[j] = flight[j]
        BY <1>6, FinishIs, Sentinels DEF TypeOK
    <2>2. Holders' = Holders \ {k}
        BY Zenon, <2>1 DEF Holders
    <2>3. /\ IsFiniteSet(Holders')
          /\ Cardinality(Holders') = IF k \in Holders THEN Cardinality(Holders) - 1
                                     ELSE Cardinality(Holders)
        BY Zenon, <2>2, FS_RemoveElement DEF Slots
    <2>4. sem' = Cardinality(Holders')
        BY <1>6, <2>3, FinishIs DEF Slots, Holders
    <2>5. \A j \in Key : flight'[j].st \in {"none", "acquire"} => ~flight'[j].slot
        BY Zenon, <2>1 DEF Slots
    <2> QED BY Zenon, <2>3, <2>4, <2>5 DEF Slots
<1>7. ASSUME NEW c \in Caller, NEW k \in Key, Do(c, k) PROVE Slots'
    BY Zenon, <1>1, <1>7 DEF Do
<1>8. CASE Tick
    BY Zenon, <1>1, <1>8 DEF Tick
<1> QED BY Zenon, <1>1, <1>2, <1>3, <1>4, <1>5, <1>6, <1>7, <1>8, Steps DEF vars

LEMMA TypeStep ==
    ASSUME TypeOK, Slots, [Next]_vars
    PROVE  TypeOK'
<1>1. CASE UNCHANGED vars
    BY Zenon, <1>1 DEF TypeOK, vars
<1>2. ASSUME NEW c \in Caller, NEW k \in Key, Do(c, k) PROVE TypeOK'
    <2>1. /\ key' \in [Caller -> Key] /\ since' \in [Caller -> Nat]
          /\ entry' \in [Caller -> Entry]
        BY Zenon, <1>2 DEF Do, TypeOK
    <2> QED BY Zenon, <1>2, <2>1, DoIs DEF TypeOK
<1>3. ASSUME NEW k \in Key, Launched(k) PROVE TypeOK'
    BY Zenon, <1>3 DEF TypeOK, Launched
<1>4. ASSUME NEW k \in Key, Acquire(k) PROVE TypeOK'
    <2>1. sem' \in 0 .. MaxInflight
        <3>1. sem' = sem \/ (sem < MaxInflight /\ sem' = sem + 1)
            BY Zenon, <1>4, AcquireIs
        <3>2. MaxInflight \in Nat
            BY Zenon, OutcallAssumption
        <3> QED BY <3>1, <3>2 DEF TypeOK
    <2> QED BY Zenon, <1>4, <2>1, AcquireIs DEF TypeOK
<1>5. ASSUME NEW k \in Key, Failed(k) PROVE TypeOK'
    BY Zenon, <1>5 DEF TypeOK, Failed
<1>6. ASSUME NEW k \in Key, Finish(k) PROVE TypeOK'
    <2>1. sem' \in 0 .. MaxInflight
        <3>1. flight[k].slot => sem >= 1
            <4> SUFFICES ASSUME flight[k].slot PROVE sem >= 1
                BY Zenon
            <4>1. k \in Holders /\ IsFiniteSet(Holders) /\ sem = Cardinality(Holders)
                BY Zenon DEF Holders, Slots
            <4>2. Cardinality(Holders) # 0
                BY Zenon, <4>1, FS_EmptySet
            <4> QED BY <4>1, <4>2 DEF TypeOK
        <3> QED BY <1>6, <3>1, FinishIs, OutcallAssumption DEF TypeOK
    <2>2. flight' \in [Key -> Flights]
        BY <1>6, FinishIs, Sentinels DEF TypeOK
    <2> QED BY Zenon, <1>6, <2>1, <2>2, FinishIs DEF TypeOK
<1>7. ASSUME NEW k \in Key, NEW a \in Answer, Replied(k, a) PROVE TypeOK'
    <2>1. seq' \in [Key -> Nat] /\ \A j \in Key : seq'[j] <= MaxReplies[j]
        <3>1. seq' = [seq EXCEPT ![k] = @ + 1] /\ seq[k] < MaxReplies[k]
            BY Zenon, <1>7 DEF Replied
        <3>2. \A j \in Key : MaxReplies[j] \in Nat
            BY Zenon, OutcallAssumption
        <3> QED BY <3>1, <3>2 DEF TypeOK
    <2> QED BY Zenon, <1>7, <2>1 DEF TypeOK, Replied, Fresh
<1>8. CASE Tick
    BY Zenon, <1>8, TickIs DEF TypeOK
<1> QED BY Zenon, <1>1, <1>2, <1>3, <1>4, <1>5, <1>6, <1>7, <1>8, Steps
-----------------------------------------------------------------------------
(* The latest reply *)

LEMMA LatestStep ==
    ASSUME TypeOK, Latest, [Next]_vars
    PROVE  Latest'
<1>1. CASE UNCHANGED <<cache, flight, seq>>
    BY Zenon, <1>1 DEF Latest
<1>2. ASSUME NEW c \in Caller, NEW k \in Key, Do(c, k) PROVE Latest'
    BY Zenon, <1>1, <1>2 DEF Do
<1>3. ASSUME NEW k \in Key, Launched(k) PROVE Latest'
    <2>1. /\ \A j \in Key : j # k => flight'[j] = flight[j]
          /\ flight'[k] = flight[k] \/ flight'[k].st = "acquire"
          /\ UNCHANGED <<cache, seq>>
        BY Zenon, <1>3 DEF Launched
    <2>2. \A j \in Key : flight'[j] = flight[j] \/ flight'[j].st # "done"
        BY Zenon, <2>1
    <2> QED BY ZenonT(60), <2>1, <2>2 DEF Latest
<1>4. ASSUME NEW k \in Key, Acquire(k) PROVE Latest'
    BY ZenonT(60), <1>4, AcquireIs, Sentinels DEF Latest
<1>5. ASSUME NEW k \in Key, Failed(k) PROVE Latest'
    BY Zenon, <1>5 DEF Failed, Latest
<1>6. ASSUME NEW k \in Key, Finish(k) PROVE Latest'
    <2>1. flight'[k].st = "none" /\ \A j \in Key : j # k => flight'[j] = flight[j]
        BY <1>6, FinishIs, Sentinels DEF TypeOK
    <2> QED BY <1>6, <2>1, FinishIs DEF Latest
<1>7. ASSUME NEW k \in Key, NEW a \in Answer, Replied(k, a) PROVE Latest'
    <2>1. seq'[k] = a.seq /\ \A j \in Key : j # k => seq'[j] = seq[j]
        BY Zenon, <1>7 DEF Replied, TypeOK
    <2>2. /\ cache'[k].has => cache'[k].answer = a
          /\ cache'[k].sie > 0 => cache'[k].has
          /\ flight'[k].result.answer = a
          /\ flight'[k].result.kind = "allow" => a.allow
        BY Zenon, <1>7 DEF Replied, Fresh
    <2>3. \A j \in Key : j # k => cache'[j] = cache[j] /\ flight'[j] = flight[j]
        BY Zenon, <1>7 DEF Replied, Fresh
    <2> QED BY <2>1, <2>2, <2>3 DEF Latest
<1>8. CASE Tick
    BY ZenonT(60), <1>8, TickIs DEF Latest
<1> QED BY Zenon, <1>1, <1>2, <1>3, <1>4, <1>5, <1>6, <1>7, <1>8, Steps DEF vars

LEMMA ReadsStep ==
    ASSUME TypeOK, Latest, Reads, [Next]_vars
    PROVE  Reads'
<1>t. \A c \in Caller : key[c] \in Key /\ since[c] \in Nat /\ seq[key[c]] \in Nat
    BY Zenon DEF TypeOK
<1>s. ASSUME UNCHANGED <<key, entry, since, seq>>,
             \A c \in Caller : pc'[c] # "idle" => pc[c] # "idle",
             \A k \in Key : \/ flight'[k] = flight[k] \/ flight'[k].st # "done"
                            \/ flight'[k].result.kind = "fail"
      PROVE  Reads'
    BY ZenonT(60), <1>s, <1>t DEF Reads, Read
<1>1. CASE UNCHANGED vars
    BY Zenon, <1>s, <1>1 DEF vars
<1>2. ASSUME NEW c \in Caller, NEW k \in Key, Do(c, k) PROVE Reads'
    <2>1. ASSUME NEW d \in Caller, d # c PROVE Read(d)'
        <3>1. key'[d] = key[d] /\ since'[d] = since[d] /\ entry'[d] = entry[d] /\ pc'[d] = pc[d]
              /\ UNCHANGED <<flight, seq>>
            <4>1. /\ key' = [key EXCEPT ![c] = k] /\ since' = [since EXCEPT ![c] = seq[k]]
                  /\ entry' = [entry EXCEPT ![c] = cache[k]]
                BY Zenon, <1>2 DEF Do
            <4>2. key \in [Caller -> Key] /\ DOMAIN since = Caller /\ DOMAIN entry = Caller
                BY Zenon DEF TypeOK
            <4>3. UNCHANGED <<flight, seq>>
                BY Zenon, <1>2 DEF Do
            <4>4. pc'[d] = pc[d]
                BY Zenon, <1>2, <2>1, DoIs
            <4> QED BY Zenon, <2>1, <4>1, <4>2, <4>3, <4>4
        <3>2. Read(d)
            BY Zenon DEF Reads
        <3> QED BY ZenonT(60), <3>1, <3>2 DEF Read
    <2>2. Read(c)'
        <3>1. key'[c] = k /\ since'[c] = seq[k] /\ entry'[c] = cache[k]
            BY Zenon, <1>2 DEF Do, TypeOK
        <3>2. UNCHANGED <<flight, seq>> /\ (pc'[c] # "idle" /\ cache[k].has => cache[k].fresh = 0)
            BY Zenon, <1>2, DoIs
        <3>3. seq[k] \in Nat
            BY Zenon DEF TypeOK
        <3> QED BY <3>1, <3>2, <3>3 DEF Latest, Read
    <2> QED BY Zenon, <2>1, <2>2 DEF Reads
<1>3. ASSUME NEW k \in Key, Launched(k) PROVE Reads'
    BY Zenon, <1>s, <1>3 DEF Launched
<1>4. ASSUME NEW k \in Key, Acquire(k) PROVE Reads'
    <2>1. flight'[k].st # "done" \/ flight'[k].result.kind = "fail"
        BY Zenon, <1>4, AcquireIs, Sentinels
    <2> QED BY Zenon, <1>s, <1>4, <2>1, AcquireIs
<1>5. ASSUME NEW k \in Key, Failed(k) PROVE Reads'
    BY Zenon, <1>s, <1>5 DEF Failed
<1>6. ASSUME NEW k \in Key, Finish(k) PROVE Reads'
    <2>1. flight'[k].st = "none" /\ \A j \in Key : j # k => flight'[j] = flight[j]
        BY <1>6, FinishIs, Sentinels DEF TypeOK
    <2>2. UNCHANGED <<key, entry, since, seq>> /\ \A c \in Caller : pc'[c] # "idle" => pc[c] # "idle"
        BY Zenon, <1>6, FinishIs
    <2> QED BY Zenon, <1>s, <2>1, <2>2
<1>7. ASSUME NEW k \in Key, NEW a \in Answer, Replied(k, a) PROVE Reads'
    <2>1. seq'[k] = seq[k] + 1 /\ \A j \in Key : j # k => seq'[j] = seq[j] /\ flight'[j] = flight[j]
        BY Zenon, <1>7 DEF Replied, TypeOK
    <2>2. UNCHANGED <<key, entry, since, pc>>
        BY Zenon, <1>7 DEF Replied
    <2> QED BY <1>t, <2>1, <2>2 DEF Reads, Read
<1>8. CASE Tick
    BY Zenon, <1>s, <1>8 DEF Tick
<1> QED BY Zenon, <1>1, <1>2, <1>3, <1>4, <1>5, <1>6, <1>7, <1>8, Steps

\* What a call hands to a caller that waited for it.
LEMMA Handed ==
    ASSUME TypeOK, Latest, Reads, NEW c \in Caller, pc[c] = "wait", flight[key[c]].st = "done"
    PROVE  LET e == entry[c]
               r == ForCaller(c, flight[key[c]].result)
           IN  /\ r.kind # "fail" => r.answer.seq >= since[c]
               /\ Outcome(c, r) = "proceed" /\ e.has /\ ~e.answer.allow /\ (e.fresh > 0 \/ e.sie > 0) =>
                     r.answer.allow /\ r.answer.seq > e.answer.seq
<1> DEFINE e == entry[c]
           k == key[c]
           q == flight[k].result
           r == ForCaller(c, q)
<1>t. /\ k \in Key /\ since[c] \in Nat /\ seq[k] \in Nat
      /\ e \in Entry /\ e.answer \in Answer /\ e.sie \in Nat
      /\ q \in Result /\ q.kind \in {"allow", "deny", "fail"}
    BY Zenon, Fields DEF TypeOK
<1>c. Cached(e.answer).answer = e.answer /\ Cached(e.answer).kind = (IF e.answer.allow THEN "allow" ELSE "deny")
    BY Zenon, <1>t, ResultOf
<1>r. /\ since[c] <= seq[k] /\ (e.has => e.answer.seq = since[c]) /\ (e.sie > 0 => e.has)
      /\ e.has => /\ e.fresh = 0
                  /\ q.kind # "fail" /\ since[c] = seq[k] => e.answer = q.answer
    BY Zenon DEF Reads, Read
<1>l. q.kind # "fail" => q.answer.seq = seq[k] /\ (q.kind = "allow" => q.answer.allow)
    BY Zenon, <1>t DEF Latest
<1>1. CASE q.kind = "fail" /\ e.sie > 0
    <2>1. r = Cached(e.answer)
        BY Zenon, <1>1 DEF ForCaller
    <2>2. r.answer.seq = since[c]
        BY Zenon, <1>c, <1>r, <1>1, <2>1
    <2>3. ~e.answer.allow => Outcome(c, r) = "refused"
        BY Zenon, <1>c, <2>1 DEF Outcome
    <2> QED BY <1>t, <2>2, <2>3
<1>2. CASE q.kind = "fail" /\ ~(e.sie > 0)
    <2>1. r = q
        BY Zenon, <1>2 DEF ForCaller
    <2>2. ~(e.has /\ (e.fresh > 0 \/ e.sie > 0))
        BY <1>r, <1>2
    <2> QED BY Zenon, <1>2, <2>1, <2>2
<1>3. CASE q.kind # "fail"
    <2>1. r = q
        BY Zenon, <1>3 DEF ForCaller
    <2>2. r.answer.seq = seq[k] /\ r.answer.seq >= since[c]
        BY Zenon, <1>t, <1>r, <1>l, <1>3, <2>1
    <2>3. Outcome(c, r) = "proceed" => r.kind = "allow" /\ r.answer.allow
        BY Zenon, <1>t, <1>l, <1>3, <2>1 DEF Outcome
    <2>4. ASSUME e.has, ~e.answer.allow, r.answer.allow PROVE r.answer.seq > e.answer.seq
        <3>1. since[c] # seq[k]
            BY Zenon, <1>r, <1>3, <2>1, <2>4
        <3> QED BY <1>t, <1>r, <2>2, <2>4, <3>1
    <2> QED BY Zenon, <2>2, <2>3, <2>4
<1> QED BY Zenon, <1>1, <1>2, <1>3

LEMMA VerdictStep ==
    ASSUME TypeOK, Latest, Reads, Verdict, [Next]_vars
    PROVE  Verdict'
<1>s. ASSUME UNCHANGED <<entry, result, verdict, since>>,
             \A c \in Caller : pc'[c] # "idle" => pc[c] # "idle"
      PROVE  Verdict'
    BY Zenon, <1>s DEF Verdict, Told
<1>1. CASE UNCHANGED vars
    BY Zenon, <1>s, <1>1 DEF vars
<1>2. ASSUME NEW c \in Caller, NEW k \in Key, Do(c, k) PROVE Verdict'
    <2>1. ASSUME NEW d \in Caller, d # c PROVE Told(d)'
        <3>1. /\ since'[d] = since[d] /\ entry'[d] = entry[d] /\ pc'[d] = pc[d]
              /\ result'[d] = result[d] /\ verdict'[d] = verdict[d]
            BY <1>2, <2>1, DoIs DEF TypeOK
        <3> QED BY Zenon, <3>1 DEF Verdict, Told
    <2>2. Told(c)'
        <3>1. since'[c] = seq[k] /\ entry'[c] = cache[k] /\ seq[k] \in Nat /\ cache[k].answer \in Answer
            BY Zenon, <1>2, Fields DEF Do, TypeOK
        <3>2. CASE /\ pc'[c] = "idle" /\ cache[k].has
                   /\ result'[c] = Cached(cache[k].answer)
                   /\ verdict'[c] = Outcome(c, Cached(cache[k].answer))
            <4>1. /\ Cached(cache[k].answer).answer = cache[k].answer
                  /\ Cached(cache[k].answer).kind = (IF cache[k].answer.allow THEN "allow" ELSE "deny")
                BY Zenon, <3>1, ResultOf
            <4>2. result'[c].answer.seq = since'[c]
                BY ZenonT(60), <3>1, <3>2, <4>1 DEF Latest
            <4>3. ~cache[k].answer.allow => verdict'[c] = "refused"
                BY Zenon, <3>2, <4>1 DEF Outcome
            <4> QED BY <3>1, <3>2, <4>2, <4>3 DEF Told
        <3>3. CASE pc'[c] = "call" /\ verdict'[c] = "none"
            BY Zenon, <3>3 DEF Told
        <3> QED BY Zenon, <1>2, <3>2, <3>3, DoIs
    <2> QED BY Zenon, <2>1, <2>2 DEF Verdict
<1>3. ASSUME NEW k \in Key, Launched(k) PROVE Verdict'
    BY Zenon, <1>s, <1>3 DEF Launched
<1>4. ASSUME NEW k \in Key, Acquire(k) PROVE Verdict'
    BY Zenon, <1>s, <1>4 DEF Acquire
<1>5. ASSUME NEW k \in Key, Failed(k) PROVE Verdict'
    BY Zenon, <1>s, <1>5 DEF Failed
<1>6. ASSUME NEW k \in Key, Finish(k) PROVE Verdict'
    <2>0. UNCHANGED <<entry, since>> /\ flight[k].st = "done"
        BY Zenon, <1>6 DEF Finish
    <2>1. ASSUME NEW c \in Caller, ~(pc[c] = "wait" /\ key[c] = k) PROVE Told(c)'
        <3>1. pc'[c] = pc[c] /\ result'[c] = result[c] /\ verdict'[c] = verdict[c]
            BY Zenon, <1>6, <2>1, FinishIs
        <3> QED BY Zenon, <2>0, <3>1 DEF Verdict, Told
    <2>2. ASSUME NEW c \in Caller, pc[c] = "wait", key[c] = k PROVE Told(c)'
        <3> DEFINE r == ForCaller(c, flight[k].result)
        <3>1. pc'[c] = "idle" /\ result'[c] = r /\ verdict'[c] = Outcome(c, r)
            BY Zenon, <1>6, <2>2, FinishIs
        <3>2. /\ r.kind # "fail" => r.answer.seq >= since[c]
              /\ Outcome(c, r) = "proceed" /\ entry[c].has /\ ~entry[c].answer.allow
                 /\ (entry[c].fresh > 0 \/ entry[c].sie > 0) =>
                    r.answer.allow /\ r.answer.seq > entry[c].answer.seq
            BY Zenon, <2>0, <2>2, Handed
        <3> HIDE DEF r
        <3> QED BY Zenon, <2>0, <3>1, <3>2 DEF Told
    <2> QED BY Zenon, <2>1, <2>2 DEF Verdict
<1>7. ASSUME NEW k \in Key, NEW a \in Answer, Replied(k, a) PROVE Verdict'
    BY Zenon, <1>s, <1>7 DEF Replied
<1>8. CASE Tick
    BY Zenon, <1>s, <1>8 DEF Tick
<1> QED BY Zenon, <1>1, <1>2, <1>3, <1>4, <1>5, <1>6, <1>7, <1>8, Steps
-----------------------------------------------------------------------------
(* The theorems *)

LEMMA InitInv == Init => Inv
<1> SUFFICES ASSUME Init PROVE Inv
    BY Zenon
<1> USE Sentinels
<1>1. TypeOK
    <2>1. (CHOOSE k \in Key : TRUE) \in Key
        BY Zenon, OutcallAssumption
    <2>2. 0 \in 0 .. MaxInflight /\ \A k \in Key : 0 <= MaxReplies[k]
        BY OutcallAssumption
    <2> QED BY Zenon, <2>1, <2>2 DEF Init, TypeOK, Verdicts
<1>2. Slots
    <2>1. \A k \in Key : ~flight[k].slot
        BY Zenon DEF Init
    <2>2. Holders = {}
        BY Zenon, <2>1 DEF Holders
    <2> QED BY Zenon, <2>1, <2>2, FS_EmptySet DEF Init, Slots
<1>3. Latest
    BY DEF Init, Latest
<1>4. Reads
    BY <1>1 DEF Init, TypeOK, Reads, Read
<1>5. Verdict
    BY Zenon DEF Init, Verdict, Told
<1> QED BY Zenon, <1>1, <1>2, <1>3, <1>4, <1>5 DEF Inv

LEMMA Inductive == Spec => []Inv
<1>1. Inv /\ [Next]_vars => Inv'
    BY Zenon, TypeStep, SlotsStep, LatestStep, ReadsStep, VerdictStep DEF Inv
<1> QED BY InitInv, <1>1, PTL DEF Spec

\* Every variable of the broker client keeps its type; in particular the
\* semaphore never exceeds --outcall-max-inflight and never drops below zero.
THEOREM TypeCorrect == Spec => []TypeOK
<1>1. Inv => TypeOK
    BY Zenon DEF Inv
<1> QED BY Inductive, <1>1, PTL

\* For any number of keys and callers, the places of the semaphore taken are
\* exactly the calls that hold one, whichever way doHTTP ends.
THEOREM SemaphoreBalanced == Spec => []SlotsBalanced
<1>1. Inv => SlotsBalanced
    BY Zenon DEF Inv, Slots, Holders, SlotsBalanced
<1> QED BY Inductive, <1>1, PTL

\* For any caching headers and any interleaving of requests, background
\* revalidations and replies, a request is never answered with a reply older
\* than the latest one received before it began.
THEOREM NeverSuperseded == Spec => []NoSupersededAnswer
<1>1. Inv => NoSupersededAnswer
    BY Zenon DEF Inv, Verdict, Told, NoSupersededAnswer
<1> QED BY Inductive, <1>1, PTL

\* A refusal that was current when a request began is overturned only by a
\* later reply that allows it; neither failOpen nor stale-if-error does.
THEOREM RefusalKept == Spec => []RefusalStands
<1>1. Inv => RefusalStands
    BY Zenon DEF Inv, Verdict, Told, RefusalStands
<1> QED BY Inductive, <1>1, PTL
=============================================================================
