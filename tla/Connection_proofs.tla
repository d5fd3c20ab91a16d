------------------------- MODULE Connection_proofs -------------------------
(***************************************************************************)
(* Proofs about Connection for any addresses, rule sets and requests, and  *)
(* any number of upstream connections: the inductive invariant, what the   *)
(* operators return, the steps of the connection phase, how a request ends *)
(* or goes on, the steps of the requests, and the theorems.                *)
(***************************************************************************)
EXTENDS Connection, FiniteSetTheorems, TLAPS

-----------------------------------------------------------------------------
(* The inductive invariant *)

Early == {"accepted", "lookup", "auth", "match", "parse", "pin"}
Serving == {"splice", "h2connect", "relay"}

\* The rule set in rs has let the connection through every gate.
Passed ==
    /\ authed /\ rs.conn[host][proto] \in {"splice", "mitm"} /\ dst \in Addr
    /\ EgressAllows(answer)

\* Small facts about lengths and positions.
LEMMA LenNat == ASSUME NEW S, NEW s \in Seq(S) PROVE Len(s) \in Nat
OBVIOUS

LEMMA UpTo == ASSUME NEW n \in Nat PROVE n <= n /\ 0 \in 0 .. n
OBVIOUS

LEMMA Wider == ASSUME NEW m \in Nat, NEW n \in Nat, m <= n, NEW i \in 0 .. m PROVE i \in 0 .. n
OBVIOUS

LEMMA NonZero == ASSUME NEW n \in Nat, NEW i \in 0 .. n, i # 0 PROVE i \in 1 .. n
OBVIOUS

\* Nothing is dialed early, and nothing of the connection phase changes later.
Gates ==
    /\ pc \in Early => ups = <<>>
    /\ pc = "match" => authed
    /\ pc = "pin" => authed /\ rs.conn[host][proto] \in {"splice", "mitm"}
    /\ pc \notin Early \cup {"closed"} \/ ups # <<>> \/ (\E r \in Req : Active(r)) => Passed
    /\ \A i \in 1 .. Len(ups) : ups[i].addr = dst

\* One request, with a client that speaks c: what it has written so far, and what
\* its state says of the connections it uses.
Sound(q, c, h) ==
    /\ q.st \notin {"new", "done"} \/ q.wrote # {} => q.host = h /\ q.msg = "forward"
    /\ q.st \in {"new", "conn", "send"} => q.wrote = {}
    /\ q.st = "retry" => q.wrote = {} \/ q.idem
    /\ ~q.idem => \A i, j \in q.wrote : i = j
    /\ q.st \in {"send", "retry"} \/ q.fb # 0 => c = "h1"
    /\ q.st \in {"new", "conn", "sent"} => q.fb = 0
    /\ q.st \in {"send", "sent"} => q.on # 0

\* Requests begin in the relay phase; those of an h1 client follow one another,
\* and an h1 round tripper always has its connection.
Requests ==
    /\ \A r \in Req : Sound(req[r], client, host)
    /\ pc \notin {"relay", "closed"} => \A r \in Req : req[r].st = "new"
    /\ client = "h1" => \A r \in Req : Active(r) =>
          pc = "relay" /\ \A p \in Req : Active(p) => p = r
    /\ up = "h1" => /\ \A r \in Req : req[r].st # "conn"
                    /\ pc \in {"h2connect", "relay"} => cur # 0

\* Somebody will close every upstream connection that is open: the handler, the
\* request it was opened for, or nobody when the client left before it.
Owned(us, i, c) ==
    us[i].st = "open" =>
        \/ i = c /\ pc \in Serving
        \/ \E r \in Req : Active(r) /\ req[r].fb = i
        \/ i = c /\ us[i].late /\ client = "h2"

Owners == \A i \in 1 .. Len(ups) : Owned(ups, i, cur) /\ (ups[i].late => pc = "closed")

\* Where the client has been told that the tunnel is up, and that it is lost.
Channel ==
    /\ told = "established" => pc \in {"hello", "tunnel", "failed", "closed"} \cup Serving
    /\ told = "desync" => pc \in {"failed", "closed"}

Inv == TypeOK /\ Gates /\ Requests /\ Owners /\ Channel
-----------------------------------------------------------------------------
(* What the operators return *)

LEMMA Fields ==
    /\ \A q \in Request : /\ q.st \in {"new", "send", "retry", "conn", "sent", "done"}
                          /\ q.host \in Host \cup {NoHost} /\ q.idem \in BOOLEAN /\ q.upgrade \in BOOLEAN
                          /\ q.msg \in {"none", "page", "reset", "forward"}
                          /\ q.on \in Nat /\ q.fb \in Nat /\ q.wrote \in SUBSET Nat
    /\ \A u \in Upstream : /\ u.addr \in Addr /\ u.st \in {"open", "draining", "closed"}
                           /\ u.usable \in BOOLEAN /\ u.late \in BOOLEAN
                          /\ u.lost \in {"no", "origin", "deadline"}
    /\ NoReq \in Request /\ NoReq.st = "new" /\ NoReq.wrote = {} /\ NoReq.fb = 0 /\ NoReq.on = 0
<1>1. \A q \in Request : /\ q.st \in {"new", "send", "retry", "conn", "sent", "done"}
                         /\ q.host \in Host \cup {NoHost} /\ q.idem \in BOOLEAN /\ q.upgrade \in BOOLEAN
                         /\ q.msg \in {"none", "page", "reset", "forward"}
                         /\ q.on \in Nat /\ q.fb \in Nat /\ q.wrote \in SUBSET Nat
    BY DEF Request
<1>2. \A u \in Upstream : /\ u.addr \in Addr /\ u.st \in {"open", "draining", "closed"}
                          /\ u.usable \in BOOLEAN /\ u.late \in BOOLEAN
                          /\ u.lost \in {"no", "origin", "deadline"}
    BY DEF Upstream
<1>3. NoReq \in Request /\ NoReq.st = "new" /\ NoReq.wrote = {} /\ NoReq.fb = 0 /\ NoReq.on = 0
    BY DEF NoReq, Request
<1> QED BY <1>1, <1>2, <1>3

\* vs is us with the states of some connections changed.
Same(us, vs) ==
    /\ vs \in Seq(Upstream) /\ Len(vs) = Len(us)
    /\ \A j \in 1 .. Len(us) : /\ vs[j].addr = us[j].addr /\ vs[j].late = us[j].late
                               /\ vs[j].lost = us[j].lost

LEMMA Sequence ==
    ASSUME NEW S, NEW n \in Nat, NEW f \in [1 .. n -> S]
    PROVE  f \in Seq(S) /\ Len(f) = n
OBVIOUS

\* The same, but that what took a connection from its streams may be recorded.
Relost(us, vs) ==
    /\ vs \in Seq(Upstream) /\ Len(vs) = Len(us)
    /\ \A j \in 1 .. Len(us) : /\ vs[j].addr = us[j].addr /\ vs[j].late = us[j].late
                               /\ us[j].lost # "no" => vs[j].lost # "no"

LEMMA SameRelost ==
    ASSUME NEW us, NEW vs, Same(us, vs)
    PROVE  Relost(us, vs)
BY Zenon DEF Same, Relost

\* Close, and the other updates of one connection, change that one alone.
Put(us, i, u) == [us EXCEPT ![i] = u]
Broken(us, i) == [us EXCEPT ![i].usable = FALSE, ![i].lost = "origin"]
Expired(us, i) == [us EXCEPT ![i].st = "closed", ![i].lost = "deadline"]

LEMMA Replaced ==
    ASSUME NEW us \in Seq(Upstream), NEW i \in 1 .. Len(us), NEW u \in Upstream
    PROVE  LET vs == Put(us, i, u) IN
           /\ vs \in Seq(Upstream) /\ Len(vs) = Len(us) /\ vs[i] = u
           /\ \A j \in 1 .. Len(us) : j # i => vs[j] = us[j]
<1> DEFINE vs == Put(us, i, u)
<1>1. us \in [1 .. Len(us) -> Upstream] /\ Len(us) \in Nat
    OBVIOUS
<1>2. vs \in [1 .. Len(us) -> Upstream]
    BY Zenon, <1>1 DEF Put
<1>3. vs \in Seq(Upstream) /\ Len(vs) = Len(us)
    BY Zenon, <1>1, <1>2, Sequence
<1>4. vs[i] = u /\ \A j \in 1 .. Len(us) : j # i => vs[j] = us[j]
    BY Zenon, <1>1 DEF Put
<1> QED BY Zenon, <1>3, <1>4

LEMMA Member ==
    ASSUME NEW us \in Seq(Upstream), NEW i \in 1 .. Len(us)
    PROVE  us[i] \in Upstream /\ us \in [1 .. Len(us) -> Upstream]
OBVIOUS

LEMMA UpdatedSt ==
    ASSUME NEW us \in Seq(Upstream), NEW i \in 1 .. Len(us),
           NEW s \in {"open", "draining", "closed"}, NEW vs, vs = [us EXCEPT ![i].st = s]
    PROVE  /\ Same(us, vs) /\ vs[i].st = s
           /\ \A j \in 1 .. Len(us) : j # i => vs[j].st = us[j].st
<1> DEFINE u == [us[i] EXCEPT !.st = s]
<1>1. /\ u \in Upstream /\ u.st = s /\ u.addr = us[i].addr /\ u.late = us[i].late
      /\ u.lost = us[i].lost
    BY Zenon, Member DEF Upstream
<1> DEFINE w == Put(us, i, u)
<1>2. vs = w
    BY Zenon DEF Put
<1> HIDE DEF u
<1>3. /\ w \in Seq(Upstream) /\ Len(w) = Len(us) /\ w[i] = u
      /\ \A j \in 1 .. Len(us) : j # i => w[j] = us[j]
    BY Zenon, <1>1, Replaced
<1> HIDE DEF w
<1>4. /\ Same(us, w) /\ w[i].st = s
      /\ \A j \in 1 .. Len(us) : j # i => w[j].st = us[j].st
    BY Zenon, <1>1, <1>3 DEF Same
<1> QED BY Zenon, <1>2, <1>4

LEMMA UpdatedUsable ==
    ASSUME NEW us \in Seq(Upstream), NEW i \in 1 .. Len(us),
           NEW vs, vs = [us EXCEPT ![i].usable = FALSE]
    PROVE  Same(us, vs) /\ \A j \in 1 .. Len(us) : vs[j].st = us[j].st
<1> DEFINE u == [us[i] EXCEPT !.usable = FALSE]
<1>1. /\ u \in Upstream /\ u.st = us[i].st /\ u.addr = us[i].addr /\ u.late = us[i].late
      /\ u.lost = us[i].lost
    BY Zenon, Member DEF Upstream
<1> DEFINE w == Put(us, i, u)
<1>2. vs = w
    BY Zenon DEF Put
<1> HIDE DEF u
<1>3. /\ w \in Seq(Upstream) /\ Len(w) = Len(us) /\ w[i] = u
      /\ \A j \in 1 .. Len(us) : j # i => w[j] = us[j]
    BY Zenon, <1>1, Replaced
<1> HIDE DEF w
<1>4. Same(us, w) /\ \A j \in 1 .. Len(us) : w[j].st = us[j].st
    BY Zenon, <1>1, <1>3 DEF Same
<1> QED BY Zenon, <1>2, <1>4

LEMMA BrokenIs ==
    ASSUME NEW us \in Seq(Upstream), NEW i \in 1 .. Len(us),
           NEW vs, vs = Broken(us, i)
    PROVE  Relost(us, vs) /\ \A j \in 1 .. Len(us) : vs[j].st = us[j].st
<1> DEFINE u == [us[i] EXCEPT !.usable = FALSE, !.lost = "origin"]
<1>1. /\ u \in Upstream /\ u.st = us[i].st /\ u.addr = us[i].addr /\ u.late = us[i].late
      /\ u.lost = "origin"
    BY Zenon, Member DEF Upstream
<1> DEFINE w == Put(us, i, u)
<1>2. vs = w
    BY Zenon, Member DEF Put, Broken, Expired
<1> HIDE DEF u
<1>3. /\ w \in Seq(Upstream) /\ Len(w) = Len(us) /\ w[i] = u
      /\ \A j \in 1 .. Len(us) : j # i => w[j] = us[j]
    BY Zenon, <1>1, Replaced
<1> HIDE DEF w
<1>4. "origin" # "no"
    BY Zenon
<1>5. Relost(us, w) /\ \A j \in 1 .. Len(us) : w[j].st = us[j].st
    BY Zenon, <1>1, <1>3, <1>4 DEF Relost
<1> QED BY Zenon, <1>2, <1>5

LEMMA ExpiredIs ==
    ASSUME NEW us \in Seq(Upstream), NEW i \in 1 .. Len(us),
           NEW vs, vs = Expired(us, i)
    PROVE  /\ Relost(us, vs) /\ vs[i].lost # "no" /\ vs[i].st = "closed"
           /\ \A j \in 1 .. Len(us) : j # i => vs[j].st = us[j].st
<1> DEFINE u == [us[i] EXCEPT !.st = "closed", !.lost = "deadline"]
<1>1. /\ u \in Upstream /\ u.st = "closed" /\ u.addr = us[i].addr /\ u.late = us[i].late
      /\ u.lost = "deadline"
    BY Zenon, Member DEF Upstream
<1> DEFINE w == Put(us, i, u)
<1>2. vs = w
    BY Zenon, Member DEF Put, Broken, Expired
<1> HIDE DEF u
<1>3. /\ w \in Seq(Upstream) /\ Len(w) = Len(us) /\ w[i] = u
      /\ \A j \in 1 .. Len(us) : j # i => w[j] = us[j]
    BY Zenon, <1>1, Replaced
<1> HIDE DEF w
<1>4. "deadline" # "no"
    BY Zenon
<1>5. /\ Relost(us, w) /\ w[i].lost # "no" /\ w[i].st = "closed"
      /\ \A j \in 1 .. Len(us) : j # i => w[j].st = us[j].st
    BY Zenon, <1>1, <1>3, <1>4 DEF Relost
<1> QED BY Zenon, <1>2, <1>5

LEMMA CloseIs ==
    ASSUME NEW us \in Seq(Upstream), NEW i \in 0 .. Len(us)
    PROVE  /\ Same(us, Close(us, i))
           /\ \A j \in 1 .. Len(us) : Close(us, i)[j].st = IF j = i THEN "closed" ELSE us[j].st
<1>1. CASE i = 0
    <2>1. Close(us, i) = us /\ \A j \in 1 .. Len(us) : j # i
        BY <1>1 DEF Close
    <2> QED BY Zenon, <2>1 DEF Same
<1>2. CASE i # 0
    <2>1. i \in 1 .. Len(us)
        BY <1>2
    <2>2. Close(us, i) = [us EXCEPT ![i].st = "closed"]
        BY <1>2 DEF Close
    <2>3. "closed" \in {"open", "draining", "closed"}
        OBVIOUS
    <2> DEFINE vs == [us EXCEPT ![i].st = "closed"]
    <2>4. /\ Same(us, vs) /\ vs[i].st = "closed"
          /\ \A j \in 1 .. Len(us) : j # i => vs[j].st = us[j].st
        BY <2>1, <2>3, UpdatedSt
    <2> HIDE DEF vs
    <2>5. \A j \in 1 .. Len(us) : vs[j].st = IF j = i THEN "closed" ELSE us[j].st
        BY Zenon, <2>4
    <2> QED BY Zenon, <2>2, <2>4, <2>5 DEF vs
<1> QED BY <1>1, <1>2

LEMMA OpenedIs ==
    ASSUME ups \in Seq(Upstream), NEW a \in Addr, NEW s \in {"open", "draining", "closed"}
    PROVE  LET vs == Opened(a, s)
               n == Len(ups) + 1
           IN  /\ vs \in Seq(Upstream) /\ Len(vs) = n /\ vs[n].addr = a /\ vs[n].st = s
               /\ (vs[n].late <=> pc = "closed") /\ vs[n] \in Upstream
               /\ \A j \in 1 .. Len(ups) : vs[j] = ups[j]
<1> DEFINE u == [addr |-> a, st |-> s, usable |-> TRUE, late |-> pc = "closed", lost |-> "no"]
<1>1. u \in Upstream /\ u.addr = a /\ u.st = s
    BY DEF Upstream
<1>2. u.late <=> pc = "closed"
    BY Zenon
<1> HIDE DEF u
<1>3. /\ Append(ups, u) \in Seq(Upstream) /\ Len(Append(ups, u)) = Len(ups) + 1
      /\ Append(ups, u)[Len(ups) + 1] = u
      /\ \A j \in 1 .. Len(ups) : Append(ups, u)[j] = ups[j]
    BY <1>1
<1>4. Opened(a, s) = Append(ups, u)
    BY Zenon DEF Opened, u
<1> QED BY Zenon, <1>1, <1>2, <1>3, <1>4

\* Stale lets the current connection drain, and closes none.
LEMMA StaleIs ==
    ASSUME NEW us \in Seq(Upstream), cur \in 0 .. Len(us)
    PROVE  /\ Same(us, Stale(us))
           /\ \A j \in 1 .. Len(us) :
                 /\ Stale(us)[j].st = "open" => us[j].st = "open" /\ j # cur
                 /\ Stale(us)[j].st = "closed" => us[j].st = "closed"
<1>1. CASE cur = 0 \/ us[cur].st # "open"
    <2>1. Stale(us) = us
        BY <1>1 DEF Stale
    <2>2. \A j \in 1 .. Len(us) : us[j].st = "open" => j # cur
        BY <1>1
    <2> QED BY Zenon, <2>1, <2>2 DEF Same
<1>2. CASE ~(cur = 0 \/ us[cur].st # "open")
    <2>1. cur \in 1 .. Len(us) /\ "draining" \in {"open", "draining", "closed"}
        BY <1>2
    <2> DEFINE vs == [us EXCEPT ![cur].st = "draining"]
    <2>2. Stale(us) = vs
        BY Zenon, <1>2 DEF Stale
    <2>3. /\ Same(us, vs) /\ vs[cur].st = "draining"
          /\ \A j \in 1 .. Len(us) : j # cur => vs[j].st = us[j].st
        BY <2>1, UpdatedSt
    <2> HIDE DEF vs
    <2>4. \A j \in 1 .. Len(us) : /\ vs[j].st = "open" => us[j].st = "open" /\ j # cur
                                  /\ vs[j].st = "closed" => us[j].st = "closed"
        BY <2>3
    <2> QED BY Zenon, <2>2, <2>3, <2>4
<1> QED BY <1>1, <1>2

LEMMA SameTrans ==
    ASSUME NEW us, NEW vs, NEW ws, Same(us, vs), Same(vs, ws)
    PROVE  Same(us, ws)
BY Zenon DEF Same

-----------------------------------------------------------------------------
(* The connection phase *)

LEMMA InitInv == Init => Inv
<1> SUFFICES ASSUME Init PROVE Inv
    OBVIOUS
<1>1. /\ ups = <<>> /\ Len(ups) = 0 /\ pc = "accepted" /\ told = "nothing"
      /\ \A r \in Req : req[r] = NoReq
    BY DEF Init
<1>2. TypeOK
    <2>1. req \in [Req -> Request] /\ ups \in Seq(Upstream) /\ answer \in Seq(Addr)
        BY Fields DEF Init
    <2>2. \A r \in Req : {req[r].on, req[r].fb} \subseteq 0 .. Len(ups) /\ req[r].wrote = {}
        BY <1>1, Fields
    <2>3. cur \in 0 .. Len(ups) /\ Len(ups) <= MaxDials
        BY <1>1, ConnectionAssumption DEF Init
    <2>4. rs \in Policies \cup {NoPolicy} /\ dst \in Addr \cup {NoAddr} /\ proto \in Proto
        BY DEF Init, Proto
    <2>5. \A r \in Req : req[r].wrote \subseteq 1 .. Len(ups)
        BY Zenon, <2>2
    <2> QED BY Zenon, <2>1, <2>2, <2>3, <2>4, <2>5 DEF Init, TypeOK
<1>3. Gates
    <2>1. \A r \in Req : ~Active(r)
        BY <1>1, Fields DEF Active
    <2> QED BY <1>1, <2>1 DEF Gates, Early
<1>4. Requests
    <2>1. \A r \in Req : req[r].st = "new" /\ ~Active(r)
        BY <1>1, Fields DEF Active
    <2>2. \A r \in Req : Sound(req[r], client, host)
        BY <1>1, Fields DEF Sound
    <2>3. \A r \in Req : req[r].st # "conn"
        BY <2>1
    <2>4. pc \notin {"h2connect", "relay"}
        BY <1>1
    <2> QED BY Zenon, <2>1, <2>2, <2>3, <2>4 DEF Requests
<1>5. Owners /\ Channel
    BY <1>1 DEF Owners, Channel
<1> QED BY <1>2, <1>3, <1>4, <1>5 DEF Inv

\* Before the relay phase no request has begun, and the only connection that may
\* be open is the current one.
LEMMA Idle ==
    ASSUME Inv, pc \notin {"relay", "closed"}
    PROVE  /\ \A r \in Req : req[r].st = "new" /\ ~Active(r) /\ req[r].fb = 0
           /\ \A i \in 1 .. Len(ups) : /\ ~ups[i].late
                                       /\ ups[i].st = "open" => i = cur /\ pc \in Serving
<1>1. \A r \in Req : req[r].st = "new"
    BY DEF Inv, Requests
<1>2. \A r \in Req : ~Active(r) /\ req[r].fb = 0
    BY <1>1 DEF Inv, Requests, Sound, Active
<1>3. \A i \in 1 .. Len(ups) : ~ups[i].late
    BY DEF Inv, Owners
<1>4. \A i \in 1 .. Len(ups) : ups[i].st = "open" => i = cur /\ pc \in Serving
    BY <1>2, <1>3 DEF Inv, Owners, Owned
<1> QED BY <1>1, <1>2, <1>3, <1>4

LEMMA IdleRequests ==
    ASSUME Inv, pc \notin {"relay", "closed"}, req' = req,
           up' = "h1" /\ pc' \in {"h2connect", "relay"} => cur' # 0
    PROVE  Requests'
<1>1. \A r \in Req : req'[r].st = "new" /\ ~Active(r)'
    BY Idle DEF Active
<1>2. \A r \in Req : Sound(req[r], client, host)' 
    BY <1>1 DEF Inv, Requests, Sound
<1>3. \A r \in Req : req'[r].st # "conn"
    BY <1>1
<1> QED BY Zenon, <1>1, <1>2, <1>3 DEF Requests

LEMMA HostKept ==
    ASSUME UNCHANGED phase
    PROVE  UNCHANGED <<kind, proto, host, sni, mitm>>
BY Zenon DEF phase

LEMMA PassedKept ==
    ASSUME Passed, UNCHANGED phase
    PROVE  Passed'
BY Zenon DEF Passed, EgressAllows, handler, phase

LEMMA StepReturn ==
    ASSUME Inv, NEW t, Return(t), pc \notin Serving \cup {"closed"},
           t \in {"nothing", "page", "established", "tls", "tlspage", "desync"}
    PROVE  Inv'
<1>1. pc' = "closed" /\ told' = t /\ UNCHANGED <<phase, client, up, ups, cur, req>>
    BY Zenon DEF Return
<1>2. TypeOK'
    BY <1>1 DEF Inv, TypeOK, phase
<1>3. pc \notin {"relay", "closed"}
    BY DEF Serving
<1>4. Requests'
    BY <1>1, <1>3, IdleRequests
<1>5. \A r \in Req : ~Active(r)'
    BY <1>1, <1>3, Idle DEF Active
<1>6. Gates'
    <2>1. ups # <<>> => Passed'
        BY Zenon, <1>1, PassedKept DEF Inv, Gates
    <2>2. \A i \in 1 .. Len(ups) : ups[i].addr = dst
        BY DEF Inv, Gates
    <2> QED BY <1>1, <1>5, <2>1, <2>2 DEF Gates, Early, phase
<1>7. Owners'
    BY <1>1, <1>3, Idle DEF Owners, Owned
<1>8. Channel'
    BY <1>1 DEF Channel
<1> QED BY <1>2, <1>4, <1>6, <1>7, <1>8 DEF Inv

LEMMA StepPage ==
    ASSUME Inv, Page, pc \notin Serving \cup {"closed"}
    PROVE  Inv'
<1>1. (IF Explicit THEN "page" ELSE told) \in
          {"nothing", "page", "established", "tls", "tlspage", "desync"}
    BY DEF Inv, TypeOK
<1> QED BY Zenon, <1>1, StepReturn DEF Page

\* A step of the connection phase that goes on to l.
LEMMA StepPhase ==
    ASSUME Inv, pc \in Early, NEW l, Goto(l), NoUpstream, TypeOK',
           l \notin {"closed"} \cup Serving,
           l = "match" => authed',
           l = "pin" => authed' /\ rs'.conn[host'][proto'] \in {"splice", "mitm"},
           l \notin Early => Passed'
    PROVE  Inv'
<1>1. pc' = l /\ UNCHANGED <<told, client, up, ups, cur, req>>
    BY Zenon DEF Goto, NoUpstream
<1>2. pc \notin {"relay", "closed"} /\ ups = <<>> /\ Len(ups) = 0
    BY DEF Early, Inv, Gates
<1>3. Requests'
    BY <1>1, <1>2, IdleRequests DEF Serving
<1>4. \A r \in Req : ~Active(r)'
    BY <1>1, <1>2, Idle DEF Active
<1>5. Gates'
    BY <1>1, <1>2, <1>4 DEF Gates
<1>6. Owners'
    BY <1>1, <1>2 DEF Owners
<1>7. Channel'
    BY <1>1 DEF Inv, Channel, Early, Serving
<1> QED BY <1>3, <1>5, <1>6, <1>7 DEF Inv

LEMMA Types ==
    ASSUME Inv
    PROVE  /\ kind \in {"connect", "absolute", "transparent", "tls", "opaque"} /\ proto \in Proto
           /\ rs \in Policies \cup {NoPolicy} /\ authed \in BOOLEAN /\ mitm \in BOOLEAN
           /\ host \in Host \cup {NoHost} /\ sni \in Host \cup {NoHost}
           /\ told \in {"nothing", "page", "established", "tls", "tlspage", "desync"}
BY DEF Inv, TypeOK

LEMMA StepServe ==
    ASSUME Inv, Serve \/ serveTransparent
    PROVE  Inv'
<1>1. pc = "accepted" /\ pc \in Early /\ pc \notin Serving \cup {"closed"}
    BY DEF Serve, serveTransparent, Early, Serving
<1>2. ASSUME NEW t \in {"nothing", "page", told}, Return(t) PROVE Inv'
    BY <1>1, <1>2, Types, StepReturn
<1>3. ASSUME Goto("lookup"), NoUpstream, UNCHANGED <<rs, authed, mitm, answer, dst>>,
             proto' \in Proto, kind' \in {"connect", "absolute", "transparent", "tls", "opaque"},
             host' \in Host, sni' \in Host \cup {NoHost}
      PROVE  Inv'
    <2>1. TypeOK'
        BY <1>3 DEF Inv, TypeOK, Goto, NoUpstream
    <2> QED BY <1>1, <1>3, <2>1, StepPhase DEF Early, Serving
<1>4. CASE Serve
    <2>1. CASE \E t \in {"nothing", "page"} : Return(t)
        BY <1>2, <2>1
    <2>2. CASE /\ Goto("lookup") /\ proto' = (IF kind = "connect" THEN "https" ELSE "http")
               /\ host' \in Host
               /\ UNCHANGED <<kind, sni, rs, authed, mitm, answer, dst>> /\ NoUpstream
        BY <1>3, <2>2, Types DEF Proto
    <2> QED BY Zenon, <1>4, <2>1, <2>2 DEF Serve
<1>5. CASE serveTransparent
    <2>1. CASE Return(told)
        BY <1>2, <2>1
    <2>2. CASE /\ Goto("lookup") /\ NoUpstream /\ UNCHANGED <<rs, authed, mitm, answer, dst>>
               /\ kind' = "tls" /\ proto' = "https" /\ host' \in Host /\ sni' = host'
        BY <1>3, <2>2 DEF Proto
    <2>3. CASE /\ Goto("lookup") /\ NoUpstream /\ UNCHANGED <<rs, authed, mitm, answer, dst>>
               /\ kind' = "opaque" /\ proto' = "tcp" /\ host' = OrigHost /\ UNCHANGED sni
        BY <1>3, <2>3, Types, ConnectionAssumption DEF Proto
    <2> QED BY Zenon, <1>5, <2>1, <2>2, <2>3 DEF serveTransparent
<1> QED BY <1>4, <1>5

LEMMA StepLookup ==
    ASSUME Inv, Lookup
    PROVE  Inv'
<1>1. pc = "lookup" /\ pc \in Early /\ pc \notin Serving \cup {"closed"}
    BY DEF Lookup, Early, Serving
<1>2. CASE Return(told)
    BY <1>1, <1>2, Types, StepReturn
<1>3. ASSUME NEW p \in Policies, Goto("auth"), rs' = p, authed' = FALSE, NoUpstream,
             UNCHANGED <<kind, proto, host, sni, mitm, answer, dst>>
      PROVE  Inv'
    <2>1. TypeOK'
        BY Zenon, <1>3 DEF Inv, TypeOK, Goto, NoUpstream
    <2> QED BY <1>1, <1>3, <2>1, StepPhase DEF Early, Serving
<1> QED BY Zenon, <1>2, <1>3 DEF Lookup

LEMMA StepAuth ==
    ASSUME Inv, checkAuth
    PROVE  Inv'
<1>1. pc = "auth" /\ pc \in Early /\ pc \notin Serving \cup {"closed"}
    BY DEF checkAuth, Early, Serving
<1>2. CASE Return("page")
    BY <1>1, <1>2, StepReturn
<1>3. CASE /\ Goto("match") /\ authed' = TRUE
           /\ UNCHANGED <<kind, proto, host, sni, rs, mitm, answer, dst>> /\ NoUpstream
    <2>1. TypeOK'
        BY <1>3 DEF Inv, TypeOK, Goto, NoUpstream
    <2> QED BY <1>1, <1>3, <2>1, StepPhase DEF Early, Serving
<1> QED BY Zenon, <1>2, <1>3 DEF checkAuth

LEMMA StepMatch ==
    ASSUME Inv, LookupConn
    PROVE  Inv'
<1>1. pc = "match" /\ pc \in Early /\ pc \notin Serving \cup {"closed"} /\ authed
    BY DEF LookupConn, Early, Serving, Inv, Gates
<1>2. CASE Page
    BY <1>1, <1>2, StepPage
<1> DEFINE d == rs.conn[host][proto]
           l == IF proto = "tcp" /\ d = "mitm" THEN "parse" ELSE "pin"
<1>3. CASE /\ d \in {"splice", "mitm"} /\ mitm' = (d = "mitm") /\ Goto(l)
           /\ UNCHANGED <<kind, proto, host, sni, rs, authed, answer, dst>> /\ NoUpstream
    <2>1. TypeOK'
        BY <1>3 DEF Inv, TypeOK, Goto, NoUpstream
    <2>2. l \in Early \ {"match"} /\ l \notin {"closed"} \cup Serving
        BY DEF Early, Serving
    <2>3. authed' /\ rs'.conn[host'][proto'] \in {"splice", "mitm"}
        BY <1>1, <1>3
    <2> HIDE DEF l
    <2> QED BY <1>1, <1>3, <2>1, <2>2, <2>3, StepPhase
<1> QED BY Zenon, <1>2, <1>3 DEF LookupConn

LEMMA StepParse ==
    ASSUME Inv, serveTransparentOpaqueMITM
    PROVE  Inv'
<1>1. pc = "parse" /\ pc \in Early /\ pc \notin Serving \cup {"closed"}
    BY DEF serveTransparentOpaqueMITM, Early, Serving
<1>2. CASE Return(told)
    BY <1>1, <1>2, Types, StepReturn
<1>3. CASE /\ Goto("lookup") /\ proto' = "http" /\ host' \in Host
           /\ UNCHANGED <<kind, sni, rs, authed, mitm, answer, dst>> /\ NoUpstream
    <2>1. TypeOK'
        BY <1>3 DEF Inv, TypeOK, Goto, NoUpstream, Proto
    <2> QED BY <1>1, <1>3, <2>1, StepPhase DEF Early, Serving
<1> QED BY Zenon, <1>2, <1>3 DEF serveTransparentOpaqueMITM

LEMMA StepPin ==
    ASSUME Inv, resolveAndPin
    PROVE  Inv'
<1>1. /\ pc = "pin" /\ pc \in Early /\ pc \notin Serving \cup {"closed"}
      /\ authed /\ rs.conn[host][proto] \in {"splice", "mitm"}
    BY DEF resolveAndPin, Early, Serving, Inv, Gates
<1>2. CASE Page
    BY <1>1, <1>2, StepPage
<1> DEFINE S == IF Explicit THEN {<<a>> : a \in Addr} \cup (Addr \X Addr) ELSE {<<OrigDst>>}
           l == IF kind = "connect" THEN "probe" ELSE IF proto = "http" THEN "dial" ELSE "tunnel"
<1>3. ASSUME NEW s \in S, EgressAllows(s), answer' = s, dst' = s[1], Goto(l),
             UNCHANGED <<kind, proto, host, sni, rs, authed, mitm>>, NoUpstream
      PROVE  Inv'
    <2>1. s \in Seq(Addr) /\ s[1] \in Addr
        <3>1. ASSUME NEW a \in Addr PROVE <<a>> \in Seq(Addr) /\ <<a>>[1] \in Addr
            OBVIOUS
        <3>2. ASSUME NEW p \in Addr \X Addr PROVE p \in Seq(Addr) /\ p[1] \in Addr
            <4>1. PICK a \in Addr, b \in Addr : p = <<a, b>>
                OBVIOUS
            <4> QED BY <4>1
        <3>3. OrigDst \in Addr
            BY ConnectionAssumption
        <3> QED BY Zenon, <3>1, <3>2, <3>3
    <2>2. l \in {"probe", "tunnel", "dial"}
        OBVIOUS
    <2> HIDE DEF S, l
    <2>3. TypeOK'
        BY <1>3, <2>1, <2>2 DEF Inv, TypeOK, Goto, NoUpstream
    <2>4. Passed'
        BY Zenon, <1>1, <1>3, <2>1 DEF Passed, EgressAllows, handler
    <2> QED BY <1>1, <1>3, <2>2, <2>3, <2>4, StepPhase DEF Early, Serving
<1> QED BY Zenon, <1>2, <1>3 DEF resolveAndPin

-----------------------------------------------------------------------------
(* The tunnel *)

\* The state once every gate is passed, and what a dial adds to it.
LEMMA Tunnel ==
    ASSUME Inv, pc \notin Early \cup {"closed"}
    PROVE  /\ Passed /\ dst \in Addr /\ ups \in Seq(Upstream) /\ cur \in 0 .. Len(ups)
           /\ Len(ups) \in Nat /\ \A i \in 1 .. Len(ups) : ups[i].addr = dst
<1>1. Passed /\ \A i \in 1 .. Len(ups) : ups[i].addr = dst
    BY DEF Inv, Gates
<1>2. ups \in Seq(Upstream) /\ cur \in 0 .. Len(ups)
    BY DEF Inv, TypeOK
<1> QED BY <1>1, <1>2 DEF Passed

LEMMA Dialed ==
    ASSUME Inv, Passed, MayDial, NEW s \in {"open", "closed"}
    PROVE  LET vs == Opened(dst, s)
               n == Len(ups) + 1
           IN  /\ vs \in Seq(Upstream) /\ Len(vs) = n /\ n <= MaxDials /\ vs[n].st = s
               /\ (vs[n].late <=> pc = "closed") /\ vs[n] \in Upstream
               /\ \A j \in 1 .. Len(ups) : vs[j] = ups[j]
               /\ \A j \in 1 .. n : vs[j].addr = dst
<1> DEFINE vs == Opened(dst, s)
           n == Len(ups) + 1
<1>1. ups \in Seq(Upstream) /\ Len(ups) \in Nat /\ dst \in Addr
    BY DEF Inv, TypeOK, Passed
<1>2. /\ vs \in Seq(Upstream) /\ Len(vs) = n /\ vs[n].addr = dst /\ vs[n].st = s
      /\ (vs[n].late <=> pc = "closed") /\ vs[n] \in Upstream
      /\ \A j \in 1 .. Len(ups) : vs[j] = ups[j]
    BY <1>1, OpenedIs
<1>3. n <= MaxDials
    BY <1>1, ConnectionAssumption DEF MayDial
<1>4. \A j \in 1 .. Len(ups) : ups[j].addr = dst
    BY DEF Inv, Gates
<1> HIDE DEF vs
<1>5. ASSUME NEW j \in 1 .. n PROVE vs[j].addr = dst
    <2>1. j = n \/ j \in 1 .. Len(ups)
        BY <1>1
    <2> QED BY Zenon, <1>2, <1>4, <2>1
<1> QED BY Zenon, <1>2, <1>3, <1>5 DEF vs

\* The requests' indexes stay in range when connections are added.
LEMMA MoreUps ==
    ASSUME TypeOK, req' = req, Len(ups) <= Len(ups'), ups' \in Seq(Upstream)
    PROVE  /\ req' \in [Req -> Request]
           /\ \A r \in Req : /\ {req'[r].on, req'[r].fb} \subseteq 0 .. Len(ups')
                             /\ req'[r].wrote \subseteq 1 .. Len(ups')
<1>1. Len(ups) \in Nat /\ Len(ups') \in Nat
    BY DEF TypeOK
<1>2. 0 .. Len(ups) \subseteq 0 .. Len(ups') /\ 1 .. Len(ups) \subseteq 1 .. Len(ups')
    BY <1>1
<1>3. /\ req \in [Req -> Request]
      /\ \A r \in Req : /\ {req[r].on, req[r].fb} \subseteq 0 .. Len(ups)
                        /\ req[r].wrote \subseteq 1 .. Len(ups)
    BY DEF TypeOK
<1> QED BY Zenon, <1>2, <1>3

LEMMA Ends ==
    ASSUME Inv
    PROVE  /\ TypeOK /\ client \in {"h1", "h2"} /\ up \in {"h1", "h2"}
           /\ client = "h2" => up = "h2"
BY Zenon DEF Inv, TypeOK

LEMMA TunnelType ==
    ASSUME TypeOK, UNCHANGED phase, req' = req, Len(ups) <= Len(ups'),
           pc' \in {"hello", "tunnel", "splice", "failed", "h2connect", "relay", "closed"},
           told' \in {"nothing", "page", "established", "tls", "tlspage", "desync"},
           client' \in {"h1", "h2"}, up' \in {"h1", "h2"}, client' = "h2" => up' = "h2",
           ups' \in Seq(Upstream), Len(ups') <= MaxDials, cur' \in 0 .. Len(ups')
    PROVE  TypeOK'
<1>1. /\ req' \in [Req -> Request]
      /\ \A r \in Req : /\ {req'[r].on, req'[r].fb} \subseteq 0 .. Len(ups')
                        /\ req'[r].wrote \subseteq 1 .. Len(ups')
    BY MoreUps
<1> QED BY <1>1 DEF TypeOK, phase

\* A step between the gates and the relay phase: only the upstream connections
\* change, all of them to dst, and only the new current one is open.
LEMMA StepTunnel ==
    ASSUME Inv, pc \notin Early \cup {"relay", "closed"}, pc' \notin Early, Passed', dst' = dst,
           req' = req, TypeOK', Channel',
           up' = "h1" /\ pc' \in {"h2connect", "relay"} => cur' # 0,
           \A i \in 1 .. Len(ups') :
               /\ ups'[i].addr = dst /\ ~ups'[i].late
               /\ ups'[i].st = "open" => i = cur' /\ pc' \in Serving
    PROVE  Inv'
<1>2. Requests'
    BY IdleRequests
<1>3. Gates'
    <2>2. \A i \in 1 .. Len(ups') : ups'[i].addr = dst'
        BY Zenon
    <2>3. pc' # "match" /\ pc' # "pin"
        BY DEF Early
    <2> QED BY Zenon, <2>2, <2>3 DEF Gates
<1>4. Owners'
    BY Zenon DEF Owners, Owned
<1> QED BY <1>2, <1>3, <1>4 DEF Inv

\* The gates stay passed while the connection's phase stays as it is.
LEMMA TunnelKept ==
    ASSUME Inv, pc \notin Early \cup {"closed"}, UNCHANGED phase
    PROVE  Passed' /\ dst' = dst
<1>1. dst' = dst
    BY DEF phase
<1> QED BY Zenon, <1>1, Tunnel, PassedKept

LEMMA StepProbe ==
    ASSUME Inv, Probe
    PROVE  Inv'
<1>1. /\ pc = "probe" /\ pc \notin Early \cup {"relay", "closed"}
      /\ pc \notin Serving \cup {"closed"}
    BY DEF Probe, Early, Serving
<1>2. CASE Page
    BY <1>1, <1>2, StepPage
<1>3. CASE /\ MayDial /\ ups' = Opened(dst, "closed") /\ UNCHANGED <<phase, client, up, cur, req>>
           /\ \/ pc' = "closed" /\ UNCHANGED told
              \/ pc' = (IF mitm THEN "hello" ELSE "tunnel") /\ told' = "established"
    <2> DEFINE n == Len(ups) + 1
    <2>1. /\ ups' \in Seq(Upstream) /\ Len(ups') = n /\ n <= MaxDials /\ ups'[n].st = "closed"
          /\ ~ups'[n].late /\ \A j \in 1 .. Len(ups) : ups'[j] = ups[j]
          /\ \A j \in 1 .. n : ups'[j].addr = dst
        BY <1>1, <1>3, Tunnel, Dialed
    <2>2. Len(ups) \in Nat /\ cur \in 0 .. Len(ups)
        BY <1>1, Tunnel
    <2>3. pc' \in {"hello", "tunnel", "closed"} /\ pc' \notin Early
        BY <1>3 DEF Early
    <2>4. TypeOK'
        BY <1>3, <2>1, <2>2, <2>3, Types, TunnelType DEF Inv, TypeOK
    <2>5. Channel'
        BY <1>3, <2>3 DEF Inv, Channel, Serving
    <2>6. ASSUME NEW i \in 1 .. Len(ups') PROVE ~ups'[i].late /\ ups'[i].st # "open"
        <3>1. i = n \/ i \in 1 .. Len(ups)
            BY <2>1, <2>2
        <3> QED BY <1>1, <2>1, <3>1, Idle
    <2> QED BY <1>1, <1>3, <2>1, <2>3, <2>4, <2>5, <2>6, TunnelKept, StepTunnel
<1> QED BY Zenon, <1>2, <1>3 DEF Probe

LEMMA StepHello ==
    ASSUME Inv, Hello \/ terminateFailed
    PROVE  Inv'
<1>1. pc \in {"hello", "failed"} /\ pc \notin Serving \cup {"closed"}
    BY DEF Hello, terminateFailed, Fallback, Serving
<1>2. ASSUME NEW t \in {told, "tlspage", "desync"}, Return(t) PROVE Inv'
    BY <1>1, <1>2, Types, StepReturn
<1>3. ASSUME NEW s \in Host, sni' = s, Goto("tunnel"), pc = "hello", NoUpstream,
             UNCHANGED <<kind, proto, host, rs, authed, mitm, answer, dst>>
      PROVE  Inv'
    <2>1. TypeOK'
        BY <1>3 DEF Inv, TypeOK, Goto, NoUpstream
    <2>2. /\ pc' \notin Early /\ Channel' /\ pc \notin Early \cup {"relay", "closed"}
          /\ pc' \notin {"h2connect", "relay"}
        BY <1>3 DEF Inv, Channel, Goto, Early, Serving
    <2>3. \A i \in 1 .. Len(ups') : ups'[i].addr = dst /\ ~ups'[i].late /\ ups'[i].st # "open"
        BY <1>1, <1>3, <2>2, Tunnel, Idle DEF NoUpstream
    <2>4. Passed'
        <3>1. Passed
            BY Zenon, <2>2, Tunnel
        <3> QED BY Zenon, <1>3, <3>1 DEF Passed, EgressAllows, handler
    <2> QED BY <1>3, <2>1, <2>2, <2>3, <2>4, StepTunnel DEF NoUpstream
<1>4. CASE Hello
    BY Zenon, <1>2, <1>3, <1>4 DEF Hello, Fallback
<1>5. CASE terminateFailed
    BY Zenon, <1>2, <1>5 DEF terminateFailed, Fallback
<1> QED BY <1>4, <1>5

\* The dial of a connection that is kept: rawSplice, Terminate, DialPlain.
LEMMA StepOpen ==
    ASSUME Inv, pc \in {"tunnel", "dial"}, MayDial, ups' = Opened(dst, "open"),
           cur' = Len(ups'), UNCHANGED <<phase, req>>, pc' \in Serving,
           told' \in {"tls", told},
           client' \in {"h1", "h2"}, up' \in {"h1", "h2"}, client' = "h2" => up' = "h2"
    PROVE  Inv'
<1> DEFINE n == Len(ups) + 1
<1>1. pc \notin Early \cup {"relay", "closed"} /\ pc \notin Serving
    BY DEF Early, Serving
<1>2. /\ ups' \in Seq(Upstream) /\ Len(ups') = n /\ n <= MaxDials
      /\ ~ups'[n].late /\ \A j \in 1 .. Len(ups) : ups'[j] = ups[j]
      /\ \A j \in 1 .. n : ups'[j].addr = dst
    BY <1>1, Tunnel, Dialed
<1>3. Len(ups) \in Nat /\ cur' = n /\ n \in 0 .. n
    BY <1>1, <1>2, Tunnel
<1>4. TypeOK'
    BY <1>2, <1>3, Types, TunnelType DEF Inv, Serving
<1>5. Channel'
    <2>1. told' # "desync"
        BY DEF Inv, Channel
    <2> QED BY <2>1 DEF Channel
<1>6. ASSUME NEW i \in 1 .. Len(ups')
      PROVE  ~ups'[i].late /\ (ups'[i].st = "open" => i = cur')
    <2>1. i = n \/ i \in 1 .. Len(ups)
        BY <1>2, <1>3
    <2> QED BY <1>1, <1>2, <1>3, <2>1, Idle
<1>7. pc' \notin Early
    BY DEF Early, Serving
<1> QED BY <1>1, <1>2, <1>4, <1>5, <1>6, <1>7, TunnelKept, StepTunnel

LEMMA StepSplice ==
    ASSUME Inv, rawSplice \/ DialPlain
    PROVE  Inv'
<1>1. pc \in {"tunnel", "dial"} /\ pc \notin Serving \cup {"closed"}
    BY DEF rawSplice, DialPlain, Serving
<1>2. CASE Return(told) \/ Page
    BY <1>1, <1>2, Types, StepReturn, StepPage
<1>3. CASE /\ MayDial /\ ups' = Opened(dst, "open") /\ cur' = Len(ups')
           /\ Goto("splice") /\ UNCHANGED <<phase, client, up, req>>
    BY <1>1, <1>3, StepOpen DEF Goto, Serving, Inv, TypeOK
<1>4. CASE /\ MayDial /\ ups' = Opened(dst, "open") /\ cur' = Len(ups')
           /\ Goto("relay") /\ client' = "h1" /\ up' = "h1" /\ UNCHANGED <<phase, req>>
    BY <1>1, <1>4, StepOpen DEF Goto, Serving
<1>5. CASE rawSplice
    BY Zenon, <1>2, <1>3, <1>5 DEF rawSplice
<1>6. CASE DialPlain
    BY Zenon, <1>2, <1>4, <1>6 DEF DialPlain
<1> QED BY <1>5, <1>6

\* The current connection, and with it every open one, is closed.
LEMMA StepEnd ==
    ASSUME Inv, pc \in {"splice", "h2connect"}, pc' = "closed", ups' = Close(ups, cur),
           told' \in {told, "tlspage"}, UNCHANGED <<phase, client, up, cur, req>>
    PROVE  Inv'
<1>1. pc \notin Early \cup {"relay", "closed"} /\ pc' \notin Early
    BY DEF Early
<1>2. ups \in Seq(Upstream) /\ cur \in 0 .. Len(ups) /\ Len(ups) \in Nat
    BY <1>1, Tunnel
<1>3. /\ Same(ups, ups')
      /\ \A j \in 1 .. Len(ups) : ups'[j].st = IF j = cur THEN "closed" ELSE ups[j].st
    BY <1>2, CloseIs
<1>4. ups' \in Seq(Upstream) /\ Len(ups') = Len(ups)
    BY <1>3 DEF Same
<1>5. TypeOK'
    <2>1. Len(ups) <= MaxDials
        BY DEF Inv, TypeOK
    <2>2. told' \in {"nothing", "page", "established", "tls", "tlspage", "desync"}
        BY Zenon, Types
    <2>3. pc' \in {"hello", "tunnel", "splice", "failed", "h2connect", "relay", "closed"}
        BY Zenon
    <2>4. Len(ups) <= Len(ups') /\ Len(ups') <= MaxDials
        BY <1>2, <1>4, <2>1
    <2> QED BY Zenon, <1>2, <1>4, <2>2, <2>3, <2>4, Ends, TunnelType
<1>6. Channel'
    BY DEF Channel
<1>7. \A i \in 1 .. Len(ups') : ups'[i].addr = dst /\ ~ups'[i].late /\ ups'[i].st # "open"
    BY <1>1, <1>3, <1>4, Tunnel, Idle DEF Same
<1> QED BY <1>1, <1>5, <1>6, <1>7, TunnelKept, StepTunnel

LEMMA StepSpliceEnds ==
    ASSUME Inv, SpliceEnds
    PROVE  Inv'
BY StepEnd DEF SpliceEnds, Goto

LEMMA StepTerminate ==
    ASSUME Inv, Terminate
    PROVE  Inv'
<1>1. /\ pc = "tunnel" /\ pc \notin Early \cup {"relay", "closed"} /\ pc \notin Serving
      /\ UNCHANGED <<phase, req>>
    BY DEF Terminate, Early, Serving
<1>2. CASE Goto("failed") /\ UNCHANGED <<ups, cur, client, up>>
    <2>1. TypeOK'
        BY <1>1, <1>2 DEF Inv, TypeOK, phase, Goto
    <2>2. pc' \notin Early /\ Channel' /\ pc' \notin {"h2connect", "relay"}
        BY <1>2 DEF Inv, Channel, Goto, Early, Serving
    <2>3. \A i \in 1 .. Len(ups') : ups'[i].addr = dst /\ ~ups'[i].late /\ ups'[i].st # "open"
        BY <1>1, <1>2, Tunnel, Idle
    <2> QED BY <1>1, <2>1, <2>2, <2>3, TunnelKept, StepTunnel
<1>3. CASE /\ MayDial /\ ups' = Opened(dst, "closed") /\ UNCHANGED <<cur, client, up>>
           /\ pc' = "failed" /\ told' \in {told, "desync"}
    <2> DEFINE n == Len(ups) + 1
    <2>1. /\ ups' \in Seq(Upstream) /\ Len(ups') = n /\ n <= MaxDials /\ ups'[n].st = "closed"
          /\ ~ups'[n].late /\ \A j \in 1 .. Len(ups) : ups'[j] = ups[j]
          /\ \A j \in 1 .. n : ups'[j].addr = dst
        BY <1>1, <1>3, Tunnel, Dialed
    <2>2. Len(ups) \in Nat /\ cur \in 0 .. Len(ups)
        BY <1>1, Tunnel
    <2>4. TypeOK'
        <3>1. told' \in {"nothing", "page", "established", "tls", "tlspage", "desync"}
            BY Zenon, <1>3, Types
        <3>2. pc' \in {"hello", "tunnel", "splice", "failed", "h2connect", "relay", "closed"}
            BY Zenon, <1>3
        <3>3. Len(ups) <= Len(ups') /\ Len(ups') <= MaxDials /\ cur' \in 0 .. Len(ups')
            BY <1>3, <2>1, <2>2
        <3> HIDE DEF n
        <3> QED BY Zenon, <1>1, <1>3, <2>1, <3>1, <3>2, <3>3, Ends, TunnelType
    <2>5. Channel' /\ pc' \notin Early /\ pc' \notin {"h2connect", "relay"}
        BY <1>3 DEF Channel, Early
    <2>6. ASSUME NEW i \in 1 .. Len(ups') PROVE ~ups'[i].late /\ ups'[i].st # "open"
        <3>1. i = n \/ i \in 1 .. Len(ups)
            BY <2>1, <2>2
        <3> QED BY <1>1, <2>1, <3>1, Idle
    <2> QED BY <1>1, <2>1, <2>4, <2>5, <2>6, TunnelKept, StepTunnel
<1>4. ASSUME NEW u \in {"h1", "h2"}, NEW c \in {"h1", "h2"}, MayDial, c = "h2" => u = "h2",
             ups' = Opened(dst, "open"), cur' = Len(ups'), told' = "tls", client' = c, up' = u,
             pc' = IF u = "h2" THEN "h2connect" ELSE "relay"
      PROVE  Inv'
    BY <1>1, <1>4, StepOpen DEF Serving
<1> QED BY Zenon, <1>2, <1>3, <1>4 DEF Terminate

LEMMA StepH2Connect ==
    ASSUME Inv, newUpstreamH2ClientConn
    PROVE  Inv'
<1>1. /\ pc = "h2connect" /\ pc \notin Early \cup {"relay", "closed"}
      /\ UNCHANGED <<phase, client, up, req>>
    BY DEF newUpstreamH2ClientConn, Early
<1>2. CASE Goto("relay") /\ UNCHANGED <<ups, cur>>
    <2>1. TypeOK'
        BY <1>1, <1>2 DEF Inv, TypeOK, phase, Goto
    <2>2. pc' \notin Early /\ pc' \in Serving /\ Channel'
        BY <1>1, <1>2 DEF Inv, Channel, Goto, Early, Serving
    <2>3. \A i \in 1 .. Len(ups') : /\ ups'[i].addr = dst /\ ~ups'[i].late
                                    /\ ups'[i].st = "open" => i = cur'
        BY <1>1, <1>2, Tunnel, Idle
    <2>4. up' = "h1" => cur' # 0
        BY <1>1, <1>2 DEF Inv, Requests
    <2> QED BY <1>1, <2>1, <2>2, <2>3, <2>4, TunnelKept, StepTunnel
<1>3. CASE /\ MayDial /\ Goto("h2connect")
           /\ ups' = Append(Close(ups, cur), Opened(dst, "open")[Len(ups) + 1])
           /\ cur' = Len(ups')
    <2> DEFINE n == Len(ups) + 1
               us == Close(ups, cur)
               u == Opened(dst, "open")[n]
    <2>1. ups \in Seq(Upstream) /\ cur \in 0 .. Len(ups) /\ Len(ups) \in Nat
        BY <1>1, Tunnel
    <2>2. /\ Same(ups, us)
          /\ \A j \in 1 .. Len(ups) : us[j].st = IF j = cur THEN "closed" ELSE ups[j].st
        BY <2>1, CloseIs
    <2>3. u \in Upstream /\ ~u.late /\ u.addr = dst /\ n <= MaxDials
        <3>1. n \in 1 .. n
            BY <2>1
        <3> QED BY <1>1, <1>3, <3>1, Tunnel, Dialed
    <2> HIDE DEF us, u
    <2>4. us \in Seq(Upstream) /\ Len(us) = Len(ups)
        BY <2>2 DEF Same
    <2>5. /\ ups' \in Seq(Upstream) /\ Len(ups') = n /\ ups'[n] = u /\ cur' = n
          /\ \A j \in 1 .. Len(ups) : ups'[j] = us[j]
        BY <1>3, <2>1, <2>3, <2>4 DEF us, u
    <2>6. TypeOK'
        <3>1. cur' \in 0 .. Len(ups') /\ Len(ups) <= Len(ups')
            BY <2>1, <2>5
        <3> QED BY ZenonT(60), <1>1, <1>3, <2>3, <2>5, <3>1, Types, Ends, TunnelType DEF Goto
    <2>7. pc' \notin Early /\ pc' \in Serving /\ Channel'
        BY <1>1, <1>3 DEF Inv, Channel, Goto, Early, Serving
    <2>8. ASSUME NEW i \in 1 .. Len(ups')
          PROVE  /\ ups'[i].addr = dst /\ ~ups'[i].late
                 /\ ups'[i].st = "open" => i = cur'
        <3>1. i = n \/ i \in 1 .. Len(ups)
            BY <2>1, <2>5
        <3>2. CASE i \in 1 .. Len(ups)
            <4>1. ups[i].addr = dst /\ ~ups[i].late /\ (ups[i].st = "open" => i = cur)
                BY Zenon, <1>1, <3>2, Tunnel, Idle
            <4>2. us[i].addr = ups[i].addr /\ us[i].late = ups[i].late
                BY Zenon, <2>2, <3>2 DEF Same
            <4>3. us[i].st = IF i = cur THEN "closed" ELSE ups[i].st
                BY Zenon, <2>2, <3>2
            <4> QED BY Zenon, <2>5, <3>2, <4>1, <4>2, <4>3
        <3>3. CASE i = n
            BY <2>3, <2>5, <3>3
        <3> QED BY <3>1, <3>2, <3>3
    <2>9. cur' # 0
        BY <2>1, <2>5
    <2> QED BY <1>1, <2>6, <2>7, <2>8, <2>9, TunnelKept, StepTunnel
<1>4. CASE /\ pc' = "closed" /\ told' = IF client = "h1" THEN "tlspage" ELSE told
           /\ ups' = Close(ups, cur) /\ UNCHANGED cur
    BY <1>1, <1>4, StepEnd
<1> QED BY Zenon, <1>2, <1>3, <1>4 DEF newUpstreamH2ClientConn

-----------------------------------------------------------------------------
(* How a request ends, and how it goes on *)

\* What Finish leaves: r is done, what it owns is closed, and so is the
\* connection of an h1 client that is not kept alive.
Finished(r, q, us, c, keep) ==
    /\ req' \in [Req -> Request] /\ \A p \in Req : p # r => req'[p] = req[p]
    /\ req'[r].st = "done" /\ req'[r].host = q.host /\ req'[r].msg = q.msg
    /\ req'[r].idem = q.idem /\ req'[r].wrote = q.wrote
    /\ req'[r].on = q.on /\ req'[r].fb = q.fb
    /\ Same(us, ups')
    /\ \A i \in 1 .. Len(us) :
          /\ ups'[i].st = "open" => us[i].st = "open" /\ i # q.fb /\ (i = c => pc' = pc)
          /\ pc' # "closed" /\ ups'[i].st = "closed" => us[i].st = "closed" \/ i = q.fb
    /\ cur' = c /\ (IF client = "h1" /\ ~keep THEN pc' = "closed" ELSE pc' = pc)
    /\ UNCHANGED <<phase, told, client, up>>

LEMMA FinishIs ==
    ASSUME Inv, NEW r \in Req, NEW q \in Request, NEW us \in Seq(Upstream),
           NEW c \in 0 .. Len(us), NEW keep \in BOOLEAN, Finish(r, q, us, c, keep),
           q.fb \in 0 .. Len(us)
    PROVE  Finished(r, q, us, c, keep)
<1> DEFINE d == [q EXCEPT !.st = "done"]
           over == client = "h1" /\ ~keep
           vs == IF over THEN Close(us, c) ELSE us
<1>1. /\ req' = [req EXCEPT ![r] = d] /\ ups' = Close(vs, q.fb) /\ cur' = c
      /\ pc' = (IF over THEN "closed" ELSE pc) /\ UNCHANGED <<phase, told, client, up>>
    BY Zenon DEF Finish
<1>2. /\ d \in Request /\ d.st = "done" /\ d.host = q.host /\ d.msg = q.msg
      /\ d.idem = q.idem /\ d.wrote = q.wrote /\ d.on = q.on /\ d.fb = q.fb
    BY DEF Request
<1>3. req \in [Req -> Request]
    BY DEF Inv, TypeOK
<1> HIDE DEF d
<1>4. /\ req' \in [Req -> Request] /\ req'[r] = d
      /\ \A p \in Req : p # r => req'[p] = req[p]
    BY <1>1, <1>2, <1>3
<1>5. /\ Same(us, vs)
      /\ \A i \in 1 .. Len(us) : vs[i].st = IF over /\ i = c THEN "closed" ELSE us[i].st
    <2>1. CASE over
        BY Zenon, <2>1, CloseIs
    <2>2. CASE ~over
        BY Zenon, <2>2 DEF Same
    <2> QED BY <2>1, <2>2
<1> HIDE DEF vs
<1>6. vs \in Seq(Upstream) /\ Len(vs) = Len(us) /\ q.fb \in 0 .. Len(vs)
    BY <1>5 DEF Same
<1>7. /\ Same(vs, ups')
      /\ \A i \in 1 .. Len(us) : ups'[i].st = IF i = q.fb THEN "closed" ELSE vs[i].st
    BY <1>1, <1>6, CloseIs
<1>8. Same(us, ups')
    BY Zenon, <1>5, <1>7, SameTrans
<1>9. ASSUME NEW i \in 1 .. Len(us)
      PROVE  /\ ups'[i].st = "open" => us[i].st = "open" /\ i # q.fb /\ (i = c => pc' = pc)
             /\ pc' # "closed" /\ ups'[i].st = "closed" => us[i].st = "closed" \/ i = q.fb
    BY <1>1, <1>5, <1>7
<1>10. IF client = "h1" /\ ~keep THEN pc' = "closed" ELSE pc' = pc
    BY Zenon, <1>1
<1> HIDE DEF over
<1> QED BY Zenon, <1>1, <1>2, <1>4, <1>8, <1>9, <1>10 DEF Finished

\* A step of the relay's handlers that leaves the connection's phase alone keeps
\* the types when its requests and its upstreams keep theirs.
LEMMA TypeKept ==
    ASSUME TypeOK, UNCHANGED <<phase, told, client, up>>, pc' \in {"relay", "closed"},
           ups' \in Seq(Upstream), Len(ups') <= MaxDials, cur' \in 0 .. Len(ups'),
           req' \in [Req -> Request],
           \A p \in Req : /\ {req'[p].on, req'[p].fb} \subseteq 0 .. Len(ups')
                          /\ req'[p].wrote \subseteq 1 .. Len(ups')
    PROVE  TypeOK'
<1>1. UNCHANGED <<kind, proto, host, sni, rs, authed, mitm, answer, dst, told, client, up>>
    BY Zenon DEF phase
<1>2. pc' \in {"accepted", "lookup", "auth", "match", "parse", "pin", "probe", "hello",
               "tunnel", "splice", "failed", "h2connect", "dial", "relay", "closed"}
    BY Zenon
<1> QED BY ZenonT(60), <1>1, <1>2 DEF TypeOK

LEMMA StepFinish ==
    ASSUME Inv, NEW r \in Req, NEW q \in Request, NEW us \in Seq(Upstream),
           NEW c \in 0 .. Len(us), NEW keep \in BOOLEAN, Finish(r, q, us, c, keep),
           Len(ups) <= Len(us), Len(us) <= MaxDials,
           q.on \in 0 .. Len(us), q.fb = req[r].fb, q.wrote \subseteq 1 .. Len(us),
           q.wrote # {} => q.host = host /\ q.msg = "forward",
           ~q.idem => \A i, j \in q.wrote : i = j,
           pc \in {"relay", "closed"}, Passed,
           client = "h1" => pc = "relay" /\ \A p \in Req : Active(p) => p = r,
           pc = "relay" /\ up = "h1" => c # 0,
           \A i \in 1 .. Len(us) : /\ us[i].addr = dst /\ (us[i].late => pc = "closed")
                                   /\ Owned(us, i, c)
    PROVE  Inv'
<1>0. ups \in Seq(Upstream) /\ req[r].fb \in 0 .. Len(ups)
    BY Zenon DEF Inv, TypeOK
<1>1. Len(ups) \in Nat /\ Len(us) \in Nat /\ q.fb \in 0 .. Len(us)
    <2>1. Len(ups) \in Nat /\ Len(us) \in Nat
        BY Zenon, <1>0, LenNat
    <2> QED BY Zenon, <1>0, <2>1, Wider
<1>f. Finished(r, q, us, c, keep)
    BY ZenonT(60), <1>1, FinishIs
<1>2. /\ req' \in [Req -> Request] /\ \A p \in Req : p # r => req'[p] = req[p]
      /\ req'[r].st = "done" /\ req'[r].host = q.host /\ req'[r].msg = q.msg
      /\ req'[r].idem = q.idem /\ req'[r].wrote = q.wrote
      /\ req'[r].on = q.on /\ req'[r].fb = q.fb
    BY Zenon, <1>f DEF Finished
<1>3. /\ ups' \in Seq(Upstream) /\ Len(ups') = Len(us)
      /\ \A i \in 1 .. Len(us) :
            /\ ups'[i].addr = us[i].addr /\ ups'[i].late = us[i].late
            /\ ups'[i].st = "open" => us[i].st = "open" /\ i # q.fb /\ (i = c => pc' = pc)
    <2>1. /\ Same(us, ups')
          /\ \A i \in 1 .. Len(us) :
                ups'[i].st = "open" => us[i].st = "open" /\ i # q.fb /\ (i = c => pc' = pc)
        BY Zenon, <1>f DEF Finished
    <2> QED BY Zenon, <2>1 DEF Same
<1>4. /\ cur' = c /\ (IF client = "h1" /\ ~keep THEN pc' = "closed" ELSE pc' = pc)
      /\ UNCHANGED <<phase, told, client, up>>
    BY Zenon, <1>f DEF Finished
<1>5. pc' \in {"relay", "closed"} /\ (pc = "closed" => pc' = "closed")
    BY <1>4
<1>6. TypeOK'
    <2>1. ASSUME NEW p \in Req
          PROVE  /\ {req'[p].on, req'[p].fb} \subseteq 0 .. Len(ups')
                 /\ req'[p].wrote \subseteq 1 .. Len(ups')
        <3>0. Len(ups') = Len(us)
            BY <1>3
        <3>1. CASE p = r
            <4>1. req'[p].on = q.on /\ req'[p].fb = q.fb /\ req'[p].wrote = q.wrote
                BY Zenon, <1>2, <3>1
            <4>2. {q.on, q.fb} \subseteq 0 .. Len(us)
                BY <1>1
            <4> QED BY Zenon, <3>0, <4>1, <4>2
        <3>2. CASE p # r
            <4>1. 0 .. Len(ups) \subseteq 0 .. Len(us) /\ 1 .. Len(ups) \subseteq 1 .. Len(us)
                BY <1>1
            <4>2. {req[p].on, req[p].fb} \subseteq 0 .. Len(ups) /\ req[p].wrote \subseteq 1 .. Len(ups)
                BY DEF Inv, TypeOK
            <4>3. req'[p] = req[p]
                BY Zenon, <1>2, <3>2
            <4>4. {req[p].on, req[p].fb} \subseteq 0 .. Len(us) /\ req[p].wrote \subseteq 1 .. Len(us)
                BY Zenon, <4>1, <4>2
            <4> QED BY Zenon, <3>0, <4>3, <4>4
        <3> QED BY Zenon, <3>1, <3>2
    <2>2. cur' \in 0 .. Len(ups') /\ Len(ups') <= MaxDials
        BY Zenon, <1>3, <1>4
    <2>3. pc' \in {"relay", "closed"} /\ UNCHANGED <<phase, told, client, up>>
        BY Zenon, <1>4, <1>5
    <2>4. TypeOK
        BY Zenon DEF Inv
    <2>5. req' \in [Req -> Request] /\ ups' \in Seq(Upstream)
        BY Zenon, <1>2, <1>3
    <2> QED BY Zenon, <2>1, <2>2, <2>3, <2>4, <2>5, TypeKept
<1>7. \A p \in Req : (Active(p)' <=> p # r /\ Active(p))
    BY <1>2 DEF Active
<1>8. Gates'
    <2>1. Passed' /\ dst' = dst
        BY <1>4, PassedKept DEF phase
    <2>2. \A i \in 1 .. Len(ups') : ups'[i].addr = dst'
        BY Zenon, <1>3, <2>1
    <2>3. pc' \notin Early
        BY <1>5 DEF Early
    <2>4. pc' # "match" /\ pc' # "pin"
        BY <1>5
    <2> QED BY Zenon, <2>1, <2>2, <2>3, <2>4 DEF Gates
<1>9. Requests'
    <2>1. Sound(req[r], client, host)'
        <3>1. q.fb # 0 => client = "h1"
            BY DEF Inv, Requests, Sound
        <3>2. /\ req'[r].wrote # {} => req'[r].host = host /\ req'[r].msg = "forward"
              /\ ~req'[r].idem => \A i, j \in req'[r].wrote : i = j
              /\ req'[r].fb # 0 => client' = "h1"
            BY Zenon, <1>2, <1>4, <3>1
        <3>3. host' = host
            BY Zenon, <1>4, HostKept
        <3> QED BY <1>2, <3>2, <3>3 DEF Sound
    <2>2. \A p \in Req : p # r => Sound(req[p], client, host)'
        BY Zenon, <1>2, <1>4, HostKept DEF Inv, Requests
    <2>3. client' = "h1" => \A p \in Req : ~Active(p)'
        BY Zenon, <1>4, <1>7
    <2>4. up' = "h1" => \A p \in Req : req'[p].st # "conn"
        BY <1>2, <1>4 DEF Inv, Requests
    <2>5. up' = "h1" /\ pc' \in {"h2connect", "relay"} => cur' # 0
        BY <1>4, <1>5
    <2> QED BY Zenon, <1>5, <2>1, <2>2, <2>3, <2>4, <2>5 DEF Requests
<1>10. Owners'
    <2> SUFFICES ASSUME NEW i \in 1 .. Len(ups')
                 PROVE  Owned(ups, i, cur)' /\ (ups'[i].late => pc' = "closed")
        BY DEF Owners
    <2>1. i \in 1 .. Len(us)
        BY Zenon, <1>3
    <2>2. ups'[i].late => pc' = "closed"
        BY Zenon, <1>3, <1>5, <2>1
    <2>3. Owned(ups, i, cur)'
        <3> SUFFICES ASSUME ups'[i].st = "open"
                     PROVE  \/ i = cur' /\ pc' \in Serving
                            \/ \E p \in Req : Active(p)' /\ req'[p].fb = i
                            \/ i = cur' /\ ups'[i].late /\ client' = "h2"
            BY Zenon DEF Owned
        <3>1. us[i].st = "open" /\ i # q.fb /\ (i = c => pc' = pc)
            BY Zenon, <1>3, <2>1
        <3>2. \/ i = c /\ pc \in Serving
              \/ \E p \in Req : Active(p) /\ req[p].fb = i
              \/ i = c /\ us[i].late /\ client = "h2"
            BY Zenon, <2>1, <3>1 DEF Owned
        <3>3. CASE i = c /\ pc \in Serving
            BY Zenon, <1>4, <3>1, <3>3
        <3>4. ASSUME NEW p \in Req, Active(p), req[p].fb = i
              PROVE  Active(p)' /\ req'[p].fb = i
            <4>1. p # r
                BY Zenon, <3>1, <3>4
            <4> QED BY Zenon, <1>2, <1>7, <3>4, <4>1
        <3>5. CASE i = c /\ us[i].late /\ client = "h2"
            BY Zenon, <1>3, <1>4, <2>1, <3>5
        <3> QED BY Zenon, <3>2, <3>3, <3>4, <3>5
    <2> QED BY <2>2, <2>3
<1>11. Channel'
    <2>1. pc' \in {"hello", "tunnel", "failed", "closed"} \cup Serving
        BY <1>5 DEF Serving
    <2>2. told' = "desync" => pc' = "closed"
        BY <1>4, <1>5 DEF Inv, Channel
    <2> QED BY <2>1, <2>2 DEF Channel
<1> QED BY <1>6, <1>8, <1>9, <1>10, <1>11 DEF Inv

\* What holds while a request is being handled, or may begin.
LEMMA Handling ==
    ASSUME Inv, NEW r \in Req, Active(r) \/ MayBegin(r)
    PROVE  /\ Passed /\ pc \in {"relay", "closed"} /\ req[r] \in Request
           /\ client = "h1" => pc = "relay" /\ \A p \in Req : Active(p) => p = r
           /\ ups \in Seq(Upstream) /\ cur \in 0 .. Len(ups)
           /\ Len(ups) \in Nat /\ Len(ups) <= MaxDials /\ req \in [Req -> Request]
           /\ req[r].on \in 0 .. Len(ups) /\ req[r].fb \in 0 .. Len(ups)
           /\ req[r].wrote \subseteq 1 .. Len(ups) /\ Sound(req[r], client, host)
           /\ up = "h1" => req[r].st # "conn" /\ (pc = "relay" => cur # 0)
           /\ \A i \in 1 .. Len(ups) : /\ ups[i].addr = dst /\ (ups[i].late => pc = "closed")
                                       /\ Owned(ups, i, cur)
<1>1. pc \in {"relay", "closed"}
    <2>1. CASE Active(r)
        BY <2>1, Idle
    <2>2. CASE MayBegin(r)
        BY <2>2 DEF MayBegin
    <2> QED BY <2>1, <2>2
<1>2. Passed
    <2>1. pc \notin Early \cup {"closed"} \/ \E p \in Req : Active(p)
        BY DEF MayBegin, Early
    <2> QED BY Zenon, <2>1 DEF Inv, Gates
<1>3. client = "h1" => pc = "relay" /\ \A p \in Req : Active(p) => p = r
    BY Zenon DEF MayBegin, Inv, Requests
<1>4. /\ req[r] \in Request /\ ups \in Seq(Upstream) /\ cur \in 0 .. Len(ups)
      /\ Len(ups) \in Nat /\ Len(ups) <= MaxDials /\ req \in [Req -> Request]
      /\ req[r].on \in 0 .. Len(ups) /\ req[r].fb \in 0 .. Len(ups)
      /\ req[r].wrote \subseteq 1 .. Len(ups)
    BY DEF Inv, TypeOK
<1>5. Sound(req[r], client, host)
    BY DEF Inv, Requests
<1>6. \A i \in 1 .. Len(ups) : /\ ups[i].addr = dst /\ (ups[i].late => pc = "closed")
                               /\ Owned(ups, i, cur)
    BY DEF Inv, Gates, Owners
<1>7. up = "h1" => req[r].st # "conn" /\ (pc = "relay" => cur # 0)
    BY DEF Inv, Requests
<1> QED BY <1>1, <1>2, <1>3, <1>4, <1>5, <1>6, <1>7

\* Request r goes on as q.
LEMMA StepGoOn ==
    ASSUME Inv, NEW r \in Req, Active(r) \/ MayBegin(r), NEW q \in Request,
           req' = [req EXCEPT ![r] = q], UNCHANGED <<phase, pc, told, client, up>>,
           q.st \notin {"new", "done"}, Sound(q, client, host), ups' \in Seq(Upstream),
           up = "h1" => q.st # "conn" /\ (pc = "relay" => cur' # 0),
           Len(ups) <= Len(ups'), Len(ups') <= MaxDials, cur' \in 0 .. Len(ups'),
           q.on \in 0 .. Len(ups'), q.fb \in 0 .. Len(ups'), q.wrote \subseteq 1 .. Len(ups'),
           \A i \in 1 .. Len(ups') :
              /\ ups'[i].addr = dst /\ (ups'[i].late => pc = "closed")
              /\ ups'[i].st = "open" => \/ i = cur' /\ pc \in Serving
                                        \/ i = q.fb
                                        \/ \E p \in Req : p # r /\ Active(p) /\ req[p].fb = i
                                        \/ i = cur' /\ ups'[i].late /\ client = "h2"
    PROVE  Inv'
<1>1. /\ Passed /\ pc \in {"relay", "closed"} /\ Len(ups) \in Nat /\ req \in [Req -> Request]
      /\ client = "h1" => pc = "relay" /\ \A p \in Req : Active(p) => p = r
    BY Handling
<1>2. /\ req' \in [Req -> Request] /\ req'[r] = q
      /\ \A p \in Req : p # r => req'[p] = req[p]
    BY <1>1
<1>3. TypeOK'
    <2>1. ASSUME NEW p \in Req
          PROVE  /\ {req'[p].on, req'[p].fb} \subseteq 0 .. Len(ups')
                 /\ req'[p].wrote \subseteq 1 .. Len(ups')
        <3>1. CASE p = r
            BY Zenon, <1>2, <3>1
        <3>2. CASE p # r
            <4>1. 0 .. Len(ups) \subseteq 0 .. Len(ups') /\ 1 .. Len(ups) \subseteq 1 .. Len(ups')
                BY <1>1
            <4>2. {req[p].on, req[p].fb} \subseteq 0 .. Len(ups) /\ req[p].wrote \subseteq 1 .. Len(ups)
                BY DEF Inv, TypeOK
            <4>3. req'[p] = req[p]
                BY Zenon, <1>2, <3>2
            <4> QED BY Zenon, <4>1, <4>2, <4>3
        <3> QED BY <3>1, <3>2
    <2>2. TypeOK /\ pc' \in {"relay", "closed"} /\ UNCHANGED <<phase, told, client, up>>
        BY Zenon, <1>1 DEF Inv
    <2> QED BY Zenon, <1>2, <2>1, <2>2, TypeKept
<1>4. \A p \in Req : Active(p)' <=> p = r \/ Active(p)
    BY <1>2 DEF Active
<1>5. Gates'
    <2>1. Passed' /\ dst' = dst
        BY <1>1, PassedKept DEF phase
    <2>2. pc' # "match" /\ pc' # "pin" /\ pc' \notin Early
        BY <1>1 DEF Early
    <2>3. \A i \in 1 .. Len(ups') : ups'[i].addr = dst'
        BY Zenon, <2>1
    <2> QED BY Zenon, <2>1, <2>2, <2>3 DEF Gates
<1>6. Requests'
    <2>1. Sound(req[r], client, host)'
        <3>1. Sound(q, client', host')
            BY Zenon, HostKept
        <3> QED BY Zenon, <1>2, <3>1 DEF Sound
    <2>2. \A p \in Req : p # r => Sound(req[p], client, host)'
        <3>1. \A p \in Req : Sound(req[p], client, host)
            BY DEF Inv, Requests
        <3>2. client' = client /\ host' = host
            BY Zenon, HostKept
        <3> QED BY Zenon, <1>2, <3>1, <3>2
    <2>3. client' = "h1" => pc' = "relay" /\ \A p \in Req : Active(p)' => p = r
        BY Zenon, <1>1, <1>4
    <2>4. up' = "h1" => \A p \in Req : req'[p].st # "conn"
        BY <1>2 DEF Inv, Requests
    <2>5. up' = "h1" /\ pc' \in {"h2connect", "relay"} => cur' # 0
        BY <1>1
    <2> QED BY Zenon, <1>1, <2>1, <2>2, <2>3, <2>4, <2>5 DEF Requests
<1>7. Owners'
    <2> SUFFICES ASSUME NEW i \in 1 .. Len(ups')
                 PROVE  Owned(ups, i, cur)' /\ (ups'[i].late => pc' = "closed")
        BY DEF Owners
    <2>1. (\E p \in Req : p # r /\ Active(p) /\ req[p].fb = i)
             => \E p \in Req : Active(p)' /\ req'[p].fb = i
        BY Zenon, <1>2, <1>4
    <2>2. i = q.fb => \E p \in Req : Active(p)' /\ req'[p].fb = i
        BY Zenon, <1>2, <1>4
    <2> QED BY Zenon, <2>1, <2>2 DEF Owned
<1>8. Channel'
    BY DEF Inv, Channel
<1> QED BY <1>3, <1>5, <1>6, <1>7, <1>8 DEF Inv

\* A handler that ends without having touched the connections.
LEMMA StepGiveUp ==
    ASSUME Inv, NEW r \in Req, Active(r), NEW keep \in BOOLEAN, Finish(r, req[r], ups, cur, keep)
    PROVE  Inv'
<1>1. /\ Passed /\ pc \in {"relay", "closed"} /\ req[r] \in Request
      /\ client = "h1" => pc = "relay" /\ \A p \in Req : Active(p) => p = r
      /\ ups \in Seq(Upstream) /\ cur \in 0 .. Len(ups)
      /\ Len(ups) \in Nat /\ Len(ups) <= MaxDials
      /\ req[r].on \in 0 .. Len(ups) /\ req[r].wrote \subseteq 1 .. Len(ups)
      /\ Sound(req[r], client, host) /\ (up = "h1" /\ pc = "relay" => cur # 0)
      /\ \A i \in 1 .. Len(ups) : /\ ups[i].addr = dst /\ (ups[i].late => pc = "closed")
                                  /\ Owned(ups, i, cur)
    BY Zenon, Handling
<1>2. /\ req[r].wrote # {} => req[r].host = host /\ req[r].msg = "forward"
      /\ ~req[r].idem => \A i, j \in req[r].wrote : i = j
    BY <1>1 DEF Sound
<1>3. Len(ups) <= Len(ups)
    BY <1>1
<1> QED BY Zenon, <1>1, <1>2, <1>3, StepFinish

-----------------------------------------------------------------------------
(* The steps of a request *)

\* A change of its state leaves the rest of a request alone.
Moved(q, d, s) ==
    /\ d \in Request /\ d.st = s /\ d.host = q.host /\ d.msg = q.msg /\ d.idem = q.idem
    /\ d.wrote = q.wrote /\ d.on = q.on /\ d.fb = q.fb

LEMMA InState ==
    ASSUME NEW q \in Request, NEW s \in {"new", "send", "retry", "conn", "sent", "done"}
    PROVE  Moved(q, [q EXCEPT !.st = s], s)
BY Zenon DEF Request, Moved

\* A request as the two handlers read it, and what becomes of it in one step.
Fresh(q) ==
    /\ q \in Request /\ q.st = "new" /\ q.wrote = {} /\ q.fb = 0
    /\ q.on = IF up = "h1" THEN cur ELSE 0

Begins(r, q) ==
    \/ Finish(r, q, ups, cur, FALSE)
    \/ /\ q.host = host /\ q.msg = "forward"
       /\ req' = [req EXCEPT ![r] = [q EXCEPT !.st = IF up = "h1" THEN "send" ELSE "conn"]]
       /\ UNCHANGED <<phase, pc, told, client, up, ups, cur>>

LEMMA ReadIs ==
    ASSUME NEW h \in Host, cur \in Nat
    PROVE  Fresh(Read(h)) /\ Read(h).host = h
<1> DEFINE n == IF up = "h1" THEN cur ELSE 0
<1>1. n \in Nat
    OBVIOUS
<1>2. Read(h) = [NoReq EXCEPT !.host = h, !.on = n]
    BY Zenon DEF Read
<1>3. n = IF up = "h1" THEN cur ELSE 0
    OBVIOUS
<1> HIDE DEF n
<1>4. Read(h) = [st |-> "new", host |-> h, msg |-> "none", idem |-> TRUE, body |-> FALSE,
                 upgrade |-> FALSE, on |-> n, fb |-> 0, wrote |-> {}, spent |-> FALSE]
    BY Zenon, <1>2 DEF NoReq
<1>5. /\ Read(h).st = "new" /\ Read(h).wrote = {} /\ Read(h).fb = 0
      /\ Read(h).on = n /\ Read(h).host = h
    BY <1>4
<1>6. Read(h) \in Request
    BY <1>1, <1>4 DEF Request
<1> QED BY Zenon, <1>3, <1>5, <1>6 DEF Fresh

LEMMA DescribedIs ==
    ASSUME NEW q, Fresh(q), NEW idem \in BOOLEAN, NEW body \in BOOLEAN, NEW upgrade \in BOOLEAN
    PROVE  LET d == [q EXCEPT !.idem = idem, !.body = body, !.upgrade = upgrade]
           IN  Fresh(d) /\ d.host = q.host
<1> DEFINE d == [q EXCEPT !.idem = idem, !.body = body, !.upgrade = upgrade]
<1>1. /\ d \in Request /\ d.st = q.st /\ d.wrote = q.wrote /\ d.fb = q.fb /\ d.on = q.on
      /\ d.host = q.host
    BY Zenon DEF Fresh, Request
<1> HIDE DEF d
<1>2. Fresh(d) /\ d.host = q.host
    BY Zenon, <1>1 DEF Fresh
<1> QED BY Zenon, <1>2 DEF d

LEMMA RuledIs ==
    ASSUME NEW q, Fresh(q), NEW m \in {"none", "page", "reset", "forward"}
    PROVE  LET d == [q EXCEPT !.msg = m] IN Fresh(d) /\ d.host = q.host /\ d.msg = m
<1> DEFINE d == [q EXCEPT !.msg = m]
<1>1. /\ d \in Request /\ d.st = q.st /\ d.wrote = q.wrote /\ d.fb = q.fb /\ d.on = q.on
      /\ d.host = q.host /\ d.msg = m
    BY Zenon DEF Fresh, Request
<1> HIDE DEF d
<1>2. Fresh(d) /\ d.host = q.host /\ d.msg = m
    BY Zenon, <1>1 DEF Fresh
<1> QED BY Zenon, <1>2 DEF d

LEMMA JudgedBegins ==
    ASSUME NEW r \in Req, NEW q, Fresh(q), q.host = host, Judged(r, q)
    PROVE  \E d : Fresh(d) /\ Begins(r, d)
<1>1. CASE Finish(r, q, ups, cur, FALSE)
    BY Zenon, <1>1 DEF Begins
<1>2. CASE ~Finish(r, q, ups, cur, FALSE)
    <2>1. PICK p \in Policies :
             LET d == [q EXCEPT !.msg = p.msg] IN
             \/ p.msg # "forward" /\ Finish(r, d, ups, cur, FALSE)
             \/ /\ p.msg = "forward"
                /\ req' = [req EXCEPT ![r] = [d EXCEPT !.st = IF up = "h1" THEN "send" ELSE "conn"]]
                /\ UNCHANGED <<phase, pc, told, client, up, ups, cur>>
        BY Zenon, <1>2 DEF Judged
    <2> DEFINE d == [q EXCEPT !.msg = p.msg]
    <2>2. Fresh(d) /\ d.host = host /\ d.msg = p.msg
        <3>1. p.msg \in {"none", "page", "reset", "forward"}
            BY Zenon, ConnectionAssumption DEF Policy
        <3> QED BY Zenon, <3>1, RuledIs
    <2>3. Begins(r, d)
        <3>1. \/ Finish(r, d, ups, cur, FALSE)
              \/ /\ p.msg = "forward"
                 /\ req' = [req EXCEPT ![r] = [d EXCEPT !.st = IF up = "h1" THEN "send" ELSE "conn"]]
                 /\ UNCHANGED <<phase, pc, told, client, up, ups, cur>>
            BY Zenon, <2>1
        <3> HIDE DEF d
        <3> QED BY Zenon, <2>2, <3>1 DEF Begins
    <2> HIDE DEF d
    <2> QED BY Zenon, <2>2, <2>3
<1> QED BY Zenon, <1>1, <1>2

\* Either handler begins a request with its authority checked and a rule found,
\* or ends it.
LEMMA HandlerBegins ==
    ASSUME Inv, NEW r \in Req, handleOneRequest(r) \/ handleH2Stream(r)
    PROVE  MayBegin(r) /\ \E q : Fresh(q) /\ Begins(r, q)
<1>1. MayBegin(r)
    BY Zenon DEF handleOneRequest, handleH2Stream
<1>2. cur \in Nat
    <2>1. cur \in 0 .. Len(ups) /\ Len(ups) \in Nat
        BY Zenon, <1>1, Handling
    <2> QED BY <2>1
<1>3. ASSUME NEW h \in Host, NEW q, Fresh(q), q.host = h,
             \/ ~authorityMatches(h) /\ Finish(r, q, ups, cur, FALSE)
             \/ authorityMatches(h) /\ Judged(r, q)
      PROVE  \E d : Fresh(d) /\ Begins(r, d)
    <2>1. CASE Finish(r, q, ups, cur, FALSE)
        BY Zenon, <1>3, <2>1 DEF Begins
    <2>2. CASE authorityMatches(h) /\ Judged(r, q)
        <3>1. q.host = host
            BY Zenon, <1>3, <2>2 DEF authorityMatches, sameHost
        <3> QED BY Zenon, <1>3, <2>2, <3>1, JudgedBegins
    <2> QED BY Zenon, <1>3, <2>1, <2>2
<1>4. CASE handleH2Stream(r)
    <2>1. PICK h \in Host : \/ ~authorityMatches(h) /\ Finish(r, Read(h), ups, cur, FALSE)
                            \/ authorityMatches(h) /\ Judged(r, Read(h))
        BY Zenon, <1>4 DEF handleH2Stream
    <2>2. Fresh(Read(h)) /\ Read(h).host = h
        BY Zenon, <1>2, ReadIs
    <2> QED BY Zenon, <1>1, <1>3, <2>1, <2>2
<1>5. CASE handleOneRequest(r)
    <2>1. PICK h \in Host, idem \in BOOLEAN, body \in BOOLEAN, upgrade \in BOOLEAN :
             LET q == [Read(h) EXCEPT !.idem = idem, !.body = body, !.upgrade = upgrade] IN
             \/ ~authorityMatches(h) /\ Finish(r, q, ups, cur, FALSE)
             \/ authorityMatches(h) /\ Judged(r, q)
        BY Zenon, <1>5 DEF handleOneRequest
    <2> DEFINE q == [Read(h) EXCEPT !.idem = idem, !.body = body, !.upgrade = upgrade]
    <2>2. Fresh(Read(h)) /\ Read(h).host = h
        BY Zenon, <1>2, ReadIs
    <2>3. Fresh(q) /\ q.host = h
        BY Zenon, <2>2, DescribedIs
    <2>4. \/ ~authorityMatches(h) /\ Finish(r, q, ups, cur, FALSE)
          \/ authorityMatches(h) /\ Judged(r, q)
        BY Zenon, <2>1
    <2> HIDE DEF q
    <2> QED BY Zenon, <1>1, <1>3, <2>3, <2>4
<1> QED BY Zenon, <1>4, <1>5

LEMMA StepHandle ==
    ASSUME Inv, NEW r \in Req, handleOneRequest(r) \/ handleH2Stream(r)
    PROVE  Inv'
<1>1. MayBegin(r) /\ req[r].st = "new" /\ ~Active(r)
    BY Zenon, HandlerBegins DEF MayBegin, Active
<1>2. /\ Passed /\ pc \in {"relay", "closed"}
      /\ client = "h1" => pc = "relay" /\ \A p \in Req : Active(p) => p = r
      /\ ups \in Seq(Upstream) /\ cur \in 0 .. Len(ups)
      /\ Len(ups) \in Nat /\ Len(ups) <= MaxDials /\ Sound(req[r], client, host)
      /\ (up = "h1" /\ pc = "relay" => cur # 0) /\ pc = "relay"
      /\ \A i \in 1 .. Len(ups) : /\ ups[i].addr = dst /\ (ups[i].late => pc = "closed")
                                  /\ Owned(ups, i, cur)
    BY Zenon, <1>1, Handling DEF MayBegin
<1>3. req[r].fb = 0 /\ Len(ups) <= Len(ups)
    BY Zenon, <1>1, <1>2, UpTo DEF Sound
<1> DEFINE n == IF up = "h1" THEN cur ELSE 0
           s == IF up = "h1" THEN "send" ELSE "conn"
<1>4. n \in 0 .. Len(ups) /\ n \in Nat
    BY <1>2
<1>5. s \in {"send", "conn"} /\ (s = "send" => client = "h1" /\ n # 0) /\ (up = "h1" => s # "conn")
    BY Zenon, <1>2 DEF Inv, TypeOK
<1>6. PICK q : Fresh(q) /\ Begins(r, q)
    BY Zenon, HandlerBegins
<1>7. q \in Request /\ q.st = "new" /\ q.wrote = {} /\ q.on = n /\ q.fb = 0
    BY Zenon, <1>6 DEF Fresh
<1>10. \/ Finish(r, q, ups, cur, FALSE)
       \/ /\ q.host = host /\ q.msg = "forward" /\ req' = [req EXCEPT ![r] = [q EXCEPT !.st = s]]
          /\ UNCHANGED <<phase, pc, told, client, up, ups, cur>>
    BY Zenon, <1>6 DEF Begins
<1> HIDE DEF n, s
<1>8. CASE Finish(r, q, ups, cur, FALSE)
    <2>1. /\ q.wrote # {} => q.host = host /\ q.msg = "forward"
          /\ ~q.idem => \A i, j \in q.wrote : i = j
          /\ q.wrote \subseteq 1 .. Len(ups) /\ q.fb = req[r].fb
        BY Zenon, <1>3, <1>7
    <2> QED BY Zenon, <1>2, <1>3, <1>4, <1>7, <1>8, <2>1, StepFinish
<1>9. CASE /\ q.host = host /\ q.msg = "forward"
           /\ req' = [req EXCEPT ![r] = [q EXCEPT !.st = s]]
           /\ UNCHANGED <<phase, pc, told, client, up, ups, cur>>
    <2> DEFINE d == [q EXCEPT !.st = s]
    <2>1. /\ d \in Request /\ d.st = s /\ d.host = q.host /\ d.msg = q.msg
          /\ d.wrote = q.wrote /\ d.on = q.on /\ d.fb = q.fb
        <3>1. s \in {"new", "send", "retry", "conn", "sent", "done"}
            BY Zenon, <1>5
        <3>2. Moved(q, d, s)
            BY Zenon, <1>7, <3>1, InState
        <3> HIDE DEF d
        <3> QED BY Zenon, <3>2 DEF Moved
    <2>2. req' = [req EXCEPT ![r] = d]
        BY Zenon, <1>9
    <2> HIDE DEF d
    <2>3. Sound(d, client, host) /\ d.st \notin {"new", "done"}
        <3>1. d.host = host /\ d.msg = "forward" /\ d.wrote = {} /\ d.fb = 0
            BY Zenon, <1>7, <1>9, <2>1
        <3>2. d.st \in {"send", "conn"} /\ (d.st = "send" => client = "h1" /\ d.on # 0)
            BY Zenon, <1>5, <1>7, <2>1
        <3> QED BY Zenon, <3>1, <3>2 DEF Sound
    <2>4. /\ d.on \in 0 .. Len(ups') /\ d.fb \in 0 .. Len(ups') /\ d.wrote \subseteq 1 .. Len(ups')
          /\ ups' = ups /\ cur' = cur
        <3>1. 0 \in 0 .. Len(ups)
            BY <1>2
        <3> QED BY Zenon, <1>4, <1>7, <1>9, <2>1, <3>1
    <2>5. ASSUME NEW i \in 1 .. Len(ups')
          PROVE  /\ ups'[i].addr = dst /\ (ups'[i].late => pc = "closed")
                 /\ ups'[i].st = "open" => \/ i = cur' /\ pc \in Serving
                                           \/ i = d.fb
                                           \/ \E t \in Req : t # r /\ Active(t) /\ req[t].fb = i
                                           \/ i = cur' /\ ups'[i].late /\ client = "h2"
        BY Zenon, <1>1, <1>2, <2>4 DEF Owned
    <2>6. /\ ups' \in Seq(Upstream) /\ Len(ups) <= Len(ups') /\ Len(ups') <= MaxDials
          /\ cur' \in 0 .. Len(ups')
        BY <1>2, <2>4
    <2>7. up = "h1" => d.st # "conn" /\ cur' # 0
        BY Zenon, <1>2, <1>5, <2>1, <2>4
    <2> QED BY Zenon, <1>1, <1>9, <2>1, <2>2, <2>3, <2>4, <2>5, <2>6, <2>7, StepGoOn
<1> QED BY Zenon, <1>10, <1>8, <1>9

\* The connections after a dial on behalf of request r: the new one is the last.
DialsTo(vs, s) ==
    LET n == Len(ups) + 1 IN
    /\ vs \in Seq(Upstream) /\ Len(vs) = n /\ n \in Nat /\ n <= MaxDials
    /\ vs[n].st = s /\ (vs[n].late <=> pc = "closed")
    /\ \A j \in 1 .. Len(ups) : vs[j] = ups[j] /\ Owned(ups, j, cur)
    /\ \A j \in 1 .. n : vs[j].addr = dst /\ (vs[j].late => pc = "closed")

LEMMA DialedFor ==
    ASSUME Inv, NEW r \in Req, Active(r), MayDial, NEW s \in {"open", "closed"},
           NEW vs, vs = Opened(dst, s)
    PROVE  LET n == Len(ups) + 1 IN
           /\ vs \in Seq(Upstream) /\ Len(vs) = n /\ n \in Nat /\ n <= MaxDials
           /\ vs[n].st = s /\ (vs[n].late <=> pc = "closed")
           /\ \A j \in 1 .. Len(ups) : vs[j] = ups[j] /\ Owned(ups, j, cur)
           /\ \A j \in 1 .. n : vs[j].addr = dst /\ (vs[j].late => pc = "closed")
<1> DEFINE n == Len(ups) + 1
<1>1. /\ Passed /\ Len(ups) \in Nat
      /\ \A i \in 1 .. Len(ups) : (ups[i].late => pc = "closed") /\ Owned(ups, i, cur)
    BY Zenon, Handling
<1>2. /\ vs \in Seq(Upstream) /\ Len(vs) = n /\ n <= MaxDials /\ vs[n].st = s
      /\ (vs[n].late <=> pc = "closed") /\ \A j \in 1 .. Len(ups) : vs[j] = ups[j]
      /\ \A j \in 1 .. n : vs[j].addr = dst
    BY Zenon, <1>1, Dialed
<1>3. ASSUME NEW j \in 1 .. n PROVE vs[j].late => pc = "closed"
    <2>1. j = n \/ j \in 1 .. Len(ups)
        BY <1>1
    <2> QED BY Zenon, <1>1, <1>2, <2>1
<1>4. n \in Nat
    BY <1>1
<1> QED BY Zenon, <1>1, <1>2, <1>3, <1>4

LEMMA DialedTo ==
    ASSUME Inv, NEW r \in Req, Active(r), MayDial, NEW s \in {"open", "closed"},
           NEW vs, vs = Opened(dst, s)
    PROVE  DialsTo(vs, s)
BY Zenon, DialedFor DEF DialsTo

LEMMA StepFallback ==
    ASSUME Inv, NEW r \in Req, H1Fallback(r)
    PROVE  Inv'
<1>1. Active(r) /\ req[r].st = "conn" /\ client = "h1"
    BY Zenon DEF H1Fallback, Active
<1>2. CASE Finish(r, req[r], ups, cur, FALSE)
    BY Zenon, <1>1, <1>2, StepGiveUp
<1>3. CASE /\ MayDial /\ ups' = Opened(dst, "open")
           /\ req' = [req EXCEPT ![r].st = "send", ![r].on = Len(ups'), ![r].fb = Len(ups')]
           /\ UNCHANGED <<phase, pc, told, client, up, cur>>
    <2> DEFINE n == Len(ups) + 1
               q == req[r]
               d == [q EXCEPT !.st = "send", !.on = n, !.fb = n]
    <2>1. /\ ups' \in Seq(Upstream) /\ Len(ups') = n /\ n \in Nat /\ n <= MaxDials
          /\ \A j \in 1 .. Len(ups) : ups'[j] = ups[j] /\ Owned(ups, j, cur)
          /\ \A j \in 1 .. n : ups'[j].addr = dst /\ (ups'[j].late => pc = "closed")
        BY Zenon, <1>1, <1>3, DialedFor
    <2>2. /\ q \in Request /\ Sound(q, client, host) /\ cur \in 0 .. Len(ups)
          /\ Len(ups) \in Nat /\ req \in [Req -> Request] /\ (up = "h1" => cur # 0)
        BY Zenon, <1>1, Handling
    <2>3. q.host = host /\ q.msg = "forward" /\ q.wrote = {} /\ q.fb = 0
        BY Zenon, <1>1, <2>2 DEF Sound
    <2>4. /\ d \in Request /\ d.st = "send" /\ d.host = q.host /\ d.msg = q.msg
          /\ d.wrote = q.wrote /\ d.on = n /\ d.fb = n
        BY Zenon, <2>1, <2>2 DEF Request
    <2>5. req' = [req EXCEPT ![r] = d]
        BY Zenon, <1>3, <2>1, <2>2
    <2> HIDE DEF d
    <2>6. Sound(d, client, host) /\ d.st \notin {"new", "done"} /\ (up = "h1" => d.st # "conn" /\ cur' # 0)
        <3>1. n # 0
            BY <2>2
        <3> QED BY Zenon, <1>1, <1>3, <2>2, <2>3, <2>4, <3>1 DEF Sound
    <2>7. /\ cur' \in 0 .. Len(ups') /\ Len(ups) <= Len(ups') /\ Len(ups') <= MaxDials
          /\ d.on \in 0 .. Len(ups') /\ d.fb \in 0 .. Len(ups') /\ d.wrote \subseteq 1 .. Len(ups')
        BY <1>3, <2>1, <2>2, <2>3, <2>4
    <2>8. ASSUME NEW i \in 1 .. Len(ups')
          PROVE  /\ ups'[i].addr = dst /\ (ups'[i].late => pc = "closed")
                 /\ ups'[i].st = "open" => \/ i = cur' /\ pc \in Serving
                                           \/ i = d.fb
                                           \/ \E t \in Req : t # r /\ Active(t) /\ req[t].fb = i
                                           \/ i = cur' /\ ups'[i].late /\ client = "h2"
        <3>1. i = n \/ i \in 1 .. Len(ups)
            BY <2>1, <2>2
        <3>2. i \in 1 .. Len(ups) => i # 0
            OBVIOUS
        <3> QED BY Zenon, <1>3, <2>1, <2>3, <2>4, <3>1, <3>2 DEF Owned
    <2> QED BY Zenon, <1>1, <1>3, <2>1, <2>4, <2>5, <2>6, <2>7, <2>8, StepGoOn
<1> QED BY Zenon, <1>2, <1>3 DEF H1Fallback

\* What an attempt records.
Written(q, i, o) == IF o = "nothing" THEN q.wrote ELSE q.wrote \cup {i}

LEMMA TriedIs ==
    ASSUME NEW q \in Request, NEW i \in Nat, NEW o
    PROVE  /\ Tried(q, i, o) \in Request
           /\ Tried(q, i, o).host = q.host /\ Tried(q, i, o).msg = q.msg
           /\ Tried(q, i, o).idem = q.idem
           /\ Tried(q, i, o).on = q.on /\ Tried(q, i, o).fb = q.fb
           /\ Tried(q, i, o).wrote = Written(q, i, o)
<1> DEFINE t == Tried(q, i, o)
           w == Written(q, i, o)
<1>1. w \in SUBSET Nat /\ q.body \in BOOLEAN
    BY Zenon DEF Request, Written
<1>2. t = [q EXCEPT !.wrote = w, !.spent = q.body]
    BY Zenon DEF Tried, Written
<1> HIDE DEF t, w
<1>3. /\ t \in Request /\ t.host = q.host /\ t.msg = q.msg /\ t.idem = q.idem
      /\ t.on = q.on /\ t.fb = q.fb /\ t.wrote = w
    BY Zenon, <1>1, <1>2 DEF Request
<1> QED BY Zenon, <1>3 DEF t, w

\* An attempt of a request that had written nothing, or may be repeated.
LEMMA TriedSound ==
    ASSUME NEW q \in Request, NEW n \in Nat, NEW i \in 1 .. n, NEW o,
           q.host = host, q.msg = "forward", q.wrote = {} \/ q.idem, q.wrote \subseteq 1 .. n
    PROVE  LET t == Tried(q, i, o) IN
           /\ t \in Request /\ t.on = q.on /\ t.fb = q.fb /\ t.idem = q.idem
           /\ t.wrote = Written(q, i, o)
           /\ t.wrote \subseteq 1 .. n /\ t.host = host /\ t.msg = "forward"
           /\ ~t.idem => \A k, l \in t.wrote : k = l
<1> DEFINE t == Tried(q, i, o)
<1>1. i \in Nat
    OBVIOUS
<1>2. /\ t \in Request /\ t.host = q.host /\ t.msg = q.msg /\ t.idem = q.idem
      /\ t.on = q.on /\ t.fb = q.fb
      /\ t.wrote = Written(q, i, o)
    BY Zenon, <1>1, TriedIs
<1> HIDE DEF t
<1>3. t.wrote \subseteq 1 .. n
    BY Zenon, <1>2 DEF Written
<1>4. ASSUME ~t.idem PROVE \A k, l \in t.wrote : k = l
    <2>1. q.wrote = {}
        BY Zenon, <1>2, <1>4
    <2> QED BY Zenon, <1>2, <2>1 DEF Written
<1> QED BY Zenon, <1>2, <1>3, <1>4 DEF t

LEMMA StepRoundTrip ==
    ASSUME Inv, NEW r \in Req, RoundTrip(r)
    PROVE  Inv'
<1> DEFINE q == req[r]
<1>1. Active(r) /\ q.st = "send"
    BY Zenon DEF RoundTrip, Active
<1>2. /\ Passed /\ pc \in {"relay", "closed"} /\ q \in Request
      /\ client = "h1" => pc = "relay" /\ \A p \in Req : Active(p) => p = r
      /\ ups \in Seq(Upstream) /\ cur \in 0 .. Len(ups)
      /\ Len(ups) \in Nat /\ Len(ups) <= MaxDials /\ q.on \in 0 .. Len(ups)
      /\ q.fb \in 0 .. Len(ups) /\ Sound(q, client, host) /\ (up = "h1" /\ pc = "relay" => cur # 0)
      /\ \A i \in 1 .. Len(ups) : /\ ups[i].addr = dst /\ (ups[i].late => pc = "closed")
                                  /\ Owned(ups, i, cur)
    BY Zenon, <1>1, Handling
<1>3. q.host = host /\ q.msg = "forward" /\ q.wrote = {} /\ client = "h1" /\ q.on # 0
    BY Zenon, <1>1, <1>2 DEF Sound
<1>4. q.on \in 1 .. Len(ups) /\ q.on \in Nat /\ Len(ups) <= Len(ups)
    BY <1>2, <1>3
<1>5. ASSUME NEW o
      PROVE  LET t == Tried(q, q.on, o) IN
             /\ t \in Request /\ t.on = q.on /\ t.fb = q.fb /\ t.idem = q.idem
             /\ t.wrote = Written(q, q.on, o)
             /\ t.wrote \subseteq 1 .. Len(ups) /\ t.host = host /\ t.msg = "forward"
             /\ ~t.idem => \A k, l \in t.wrote : k = l
    <2>1. q.wrote \subseteq 1 .. Len(ups)
        BY Zenon, <1>3
    <2> HIDE DEF q
    <2>2. QED BY Zenon, <1>2, <1>3, <1>4, <2>1, TriedSound
<1>6. ASSUME NEW o, NEW keep \in BOOLEAN, Finish(r, Tried(q, q.on, o), ups, cur, keep)
      PROVE  Inv'
    BY Zenon, <1>2, <1>4, <1>5, <1>6, StepFinish
<1>7. ASSUME NEW o \in Outcomes(q), o # "answered", MayRetry(q, o),
             req' = [req EXCEPT ![r] = [Tried(q, q.on, o) EXCEPT !.st = "retry"]],
             UNCHANGED <<phase, pc, told, client, up, ups, cur>>
      PROVE  Inv'
    <2> DEFINE t == Tried(q, q.on, o)
               d == [t EXCEPT !.st = "retry"]
    <2>1. /\ t \in Request /\ t.on = q.on /\ t.fb = q.fb /\ t.idem = q.idem
          /\ t.wrote = Written(q, q.on, o)
          /\ t.wrote \subseteq 1 .. Len(ups) /\ t.host = host /\ t.msg = "forward"
          /\ ~t.idem => \A k, l \in t.wrote : k = l
        BY Zenon, <1>5
    <2>2. t.wrote = {} \/ t.idem
        BY Zenon, <1>3, <1>7, <2>1 DEF MayRetry, Written
    <2> HIDE DEF t
    <2>3. /\ d \in Request /\ d.st = "retry" /\ d.host = t.host /\ d.msg = t.msg /\ d.idem = t.idem
          /\ d.wrote = t.wrote /\ d.on = t.on /\ d.fb = t.fb
        <3>1. "retry" \in {"new", "send", "retry", "conn", "sent", "done"}
            BY Zenon
        <3>2. Moved(t, d, "retry")
            BY Zenon, <2>1, <3>1, InState
        <3> HIDE DEF d
        <3> QED BY Zenon, <3>2 DEF Moved
    <2>4. req' = [req EXCEPT ![r] = d] /\ ups' = ups /\ cur' = cur
        BY Zenon, <1>7 DEF t
    <2> HIDE DEF d
    <2>5. Sound(d, client, host) /\ d.st \notin {"new", "done", "conn"}
        <3>1. /\ d.host = host /\ d.msg = "forward" /\ d.st = "retry" /\ (d.wrote = {} \/ d.idem)
              /\ ~d.idem => \A k, l \in d.wrote : k = l
            BY Zenon, <2>1, <2>2, <2>3
        <3> QED BY Zenon, <1>3, <3>1 DEF Sound
    <2>6. /\ d.on \in 0 .. Len(ups') /\ d.fb \in 0 .. Len(ups') /\ d.wrote \subseteq 1 .. Len(ups')
          /\ d.fb = q.fb
        BY Zenon, <1>2, <2>1, <2>3, <2>4
    <2>7. ASSUME NEW i \in 1 .. Len(ups')
          PROVE  /\ ups'[i].addr = dst /\ (ups'[i].late => pc = "closed")
                 /\ ups'[i].st = "open" => \/ i = cur' /\ pc \in Serving
                                           \/ i = d.fb
                                           \/ \E p \in Req : p # r /\ Active(p) /\ req[p].fb = i
                                           \/ i = cur' /\ ups'[i].late /\ client = "h2"
        BY Zenon, <1>2, <2>4, <2>6 DEF Owned
    <2> QED BY Zenon, <1>1, <1>2, <1>4, <1>7, <2>3, <2>4, <2>5, <2>6, <2>7, StepGoOn
<1> QED BY Zenon, <1>6, <1>7 DEF RoundTrip

LEMMA StepRetry ==
    ASSUME Inv, NEW r \in Req, Retry(r)
    PROVE  Inv'
<1> DEFINE q == req[r]
           n == Len(ups) + 1
<1>1. Active(r) /\ q.st = "retry"
    BY Zenon DEF Retry, Active
<1>2. /\ Passed /\ pc \in {"relay", "closed"} /\ q \in Request
      /\ client = "h1" => pc = "relay" /\ \A p \in Req : Active(p) => p = r
      /\ ups \in Seq(Upstream) /\ cur \in 0 .. Len(ups) /\ Len(ups) \in Nat
      /\ q.on \in 0 .. Len(ups) /\ q.fb \in 0 .. Len(ups)
      /\ q.wrote \subseteq 1 .. Len(ups) /\ Sound(q, client, host)
      /\ (up = "h1" /\ pc = "relay" => cur # 0)
    BY Zenon, <1>1, Handling
<1>3. q.host = host /\ q.msg = "forward" /\ (q.wrote = {} \/ q.idem) /\ client = "h1" /\ pc = "relay"
    BY Zenon, <1>1, <1>2 DEF Sound
<1>4. CASE Finish(r, q, ups, cur, FALSE)
    BY Zenon, <1>1, <1>4, StepGiveUp
<1>5. ASSUME MayDial, NEW o, NEW keep \in BOOLEAN, NEW s \in {"open", "closed"}, NEW vs,
             NEW us \in Seq(Upstream), NEW c \in {n, cur},
             vs = Opened(dst, s), Same(vs, us), Finish(r, Tried(q, n, o), us, c, keep),
             \A i \in 1 .. n : us[i].st = "open" => /\ vs[i].st = "open"
                                                    /\ i # n => (i = cur => c = cur)
                                                    /\ i = n => c = n
      PROVE  Inv'
    <2>1. /\ Len(vs) = n /\ n \in Nat /\ n <= MaxDials
          /\ \A j \in 1 .. Len(ups) : vs[j] = ups[j] /\ Owned(ups, j, cur)
          /\ \A j \in 1 .. n : vs[j].addr = dst /\ (vs[j].late => pc = "closed")
        <3>1. DialsTo(vs, s)
            BY Zenon, <1>1, <1>5, DialedTo
        <3> QED BY Zenon, <3>1 DEF DialsTo
    <2>2. Len(us) = n /\ \A j \in 1 .. n : us[j].addr = vs[j].addr /\ us[j].late = vs[j].late
        BY Zenon, <1>5, <2>1 DEF Same
    <2>3. /\ Len(ups) <= Len(us) /\ Len(us) <= MaxDials /\ c \in 0 .. Len(us) /\ n \in 1 .. n
          /\ q.wrote \subseteq 1 .. n /\ q.on \in 0 .. Len(us)
        BY <1>2, <2>1, <2>2
    <2>4. pc = "relay" /\ up = "h1" => c # 0
        BY <1>2, <2>1
    <2> DEFINE t == Tried(q, n, o)
    <2>5. /\ t \in Request /\ t.on = q.on /\ t.fb = q.fb
          /\ t.wrote \subseteq 1 .. n /\ t.host = host /\ t.msg = "forward"
          /\ ~t.idem => \A k, l \in t.wrote : k = l
        <3>1. /\ q \in Request /\ n \in Nat /\ n \in 1 .. n /\ q.host = host /\ q.msg = "forward"
              /\ q.wrote = {} \/ q.idem
              /\ q.wrote \subseteq 1 .. n
            BY Zenon, <1>2, <1>3, <2>1, <2>3
        <3> HIDE DEF q, n
        <3>2. LET e == Tried(q, n, o) IN
              /\ e \in Request /\ e.on = q.on /\ e.fb = q.fb /\ e.idem = q.idem
              /\ e.wrote = Written(q, n, o)
              /\ e.wrote \subseteq 1 .. n /\ e.host = host /\ e.msg = "forward"
              /\ ~e.idem => \A k, l \in e.wrote : k = l
            BY Zenon, <3>1, TriedSound
        <3> QED BY Zenon, <3>2
    <2>6. ASSUME NEW i \in 1 .. Len(us)
          PROVE  us[i].addr = dst /\ (us[i].late => pc = "closed") /\ Owned(us, i, c)
        <3>1. us[i].addr = dst /\ (us[i].late => pc = "closed")
            BY Zenon, <2>1, <2>2
        <3>2. CASE i = n
            <4>1. us[i].st = "open" => i = c
                BY Zenon, <1>5, <2>2, <3>2
            <4>2. pc \in Serving
                BY Zenon, <1>3 DEF Serving
            <4> QED BY Zenon, <3>1, <4>1, <4>2 DEF Owned
        <3>3. CASE i # n
            <4>1. i \in 1 .. Len(ups) /\ i \in 1 .. n
                BY <1>2, <2>2, <3>3
            <4>2. us[i].late = ups[i].late /\ (us[i].st = "open" => ups[i].st = "open" /\ (i = cur => c = cur))
                BY Zenon, <1>5, <2>1, <2>2, <3>3, <4>1
            <4>3. Owned(ups, i, cur)
                BY Zenon, <2>1, <4>1
            <4> QED BY Zenon, <3>1, <4>2, <4>3 DEF Owned
        <3> QED BY Zenon, <3>1, <3>2, <3>3
    <2> HIDE DEF t
    <2>7. Finish(r, t, us, c, keep)
        BY Zenon, <1>5 DEF t
    <2>8. t.on \in 0 .. Len(us) /\ t.fb = req[r].fb /\ t.wrote \subseteq 1 .. Len(us)
        BY Zenon, <2>2, <2>3, <2>5
    <2> QED BY Zenon, <1>2, <2>3, <2>4, <2>5, <2>6, <2>7, <2>8, StepFinish
<1>6. ASSUME MayDial, NEW o, NEW keep \in BOOLEAN,
             Finish(r, Tried(q, n, o), Close(Opened(dst, "open"), cur), n, keep)
      PROVE  Inv'
    <2> DEFINE vs == Opened(dst, "open")
               us == Close(vs, cur)
    <2>1. "open" \in {"open", "closed"}
        BY Zenon
    <2>2. vs \in Seq(Upstream) /\ Len(vs) = n
        BY Zenon, <1>1, <1>6, <2>1, DialedFor
    <2>3. cur \in 0 .. Len(vs) /\ cur # n
        BY <1>2, <2>2
    <2> HIDE DEF vs
    <2>4. /\ Same(vs, us) /\ us \in Seq(Upstream)
          /\ \A i \in 1 .. n : us[i].st = IF i = cur THEN "closed" ELSE vs[i].st
        <3>1. /\ Same(vs, us)
              /\ \A i \in 1 .. Len(vs) : us[i].st = IF i = cur THEN "closed" ELSE vs[i].st
            BY Zenon, <2>2, <2>3, CloseIs
        <3> HIDE DEF us, n
        <3> QED BY Zenon, <2>2, <3>1 DEF Same
    <2> HIDE DEF us
    <2>5. \A i \in 1 .. n : us[i].st = "open" => /\ vs[i].st = "open"
                                                 /\ i # n => (i = cur => n = cur)
                                                 /\ i = n => n = n
        BY Zenon, <2>4
    <2>6. Finish(r, Tried(q, n, o), us, n, keep) /\ vs = Opened(dst, "open") /\ n \in {n, cur}
        BY Zenon, <1>6 DEF us, vs
    <2> QED BY Zenon, <1>5, <1>6, <2>1, <2>4, <2>5, <2>6
<1>7. ASSUME MayDial, NEW o, Finish(r, Tried(q, n, o), Opened(dst, "closed"), cur, FALSE)
      PROVE  Inv'
    <2> DEFINE vs == Opened(dst, "closed")
    <2>1. "closed" \in {"open", "closed"} /\ "closed" # "open" /\ FALSE \in BOOLEAN
        BY Zenon
    <2>2. /\ vs \in Seq(Upstream) /\ Len(vs) = n /\ vs[n].st = "closed"
        BY Zenon, <1>1, <1>7, <2>1, DialedFor
    <2>3. Finish(r, Tried(q, n, o), vs, cur, FALSE) /\ vs = Opened(dst, "closed") /\ cur \in {n, cur}
        BY Zenon, <1>7
    <2> HIDE DEF vs
    <2>4. Same(vs, vs)
        BY Zenon, <2>2 DEF Same
    <2>5. \A i \in 1 .. n : vs[i].st = "open" => /\ vs[i].st = "open"
                                                 /\ i # n => (i = cur => cur = cur)
                                                 /\ i = n => cur = n
        BY Zenon, <2>1, <2>2
    <2> QED BY Zenon, <1>5, <1>7, <2>1, <2>2, <2>3, <2>4, <2>5
<1> QED BY Zenon, <1>4, <1>6, <1>7 DEF Retry

LEMMA StepCurrentConn ==
    ASSUME Inv, NEW r \in Req, currentConn(r)
    PROVE  Inv'
<1> DEFINE q == req[r]
           n == Len(ups) + 1
           d(i) == [q EXCEPT !.st = "sent", !.on = i, !.wrote = {i}]
<1>1. Active(r) /\ q.st = "conn"
    BY Zenon DEF currentConn, Active
<1>2. /\ Passed /\ pc \in {"relay", "closed"} /\ q \in Request /\ req \in [Req -> Request]
      /\ client = "h1" => pc = "relay" /\ \A p \in Req : Active(p) => p = r
      /\ ups \in Seq(Upstream) /\ cur \in 0 .. Len(ups) /\ Len(ups) \in Nat
      /\ Len(ups) <= MaxDials /\ q.on \in 0 .. Len(ups) /\ q.fb \in 0 .. Len(ups)
      /\ q.wrote \subseteq 1 .. Len(ups) /\ Sound(q, client, host) /\ up # "h1"
      /\ \A i \in 1 .. Len(ups) : /\ ups[i].addr = dst /\ (ups[i].late => pc = "closed")
                                  /\ Owned(ups, i, cur)
    BY Zenon, <1>1, Handling
<1>3. q.host = host /\ q.msg = "forward" /\ q.wrote = {} /\ q.fb = 0
    BY Zenon, <1>1, <1>2 DEF Sound
<1>4. ASSUME NEW i \in Nat, i # 0
      PROVE  /\ d(i) \in Request /\ d(i).st \notin {"new", "done", "conn"} /\ Sound(d(i), client, host)
             /\ d(i).on = i /\ d(i).fb = 0 /\ d(i).wrote = {i}
             /\ [req EXCEPT ![r].st = "sent", ![r].on = i, ![r].wrote = {i}]
                  = [req EXCEPT ![r] = d(i)]
    <2>1. /\ d(i) \in Request /\ d(i).st = "sent" /\ d(i).host = q.host /\ d(i).msg = q.msg
          /\ d(i).on = i /\ d(i).fb = q.fb /\ d(i).wrote = {i}
        BY Zenon, <1>2, <1>4 DEF Request
    <2>2. [req EXCEPT ![r].st = "sent", ![r].on = i, ![r].wrote = {i}] = [req EXCEPT ![r] = d(i)]
        BY Zenon, <1>2
    <2> HIDE DEF d
    <2>3. d(i).host = host /\ d(i).msg = "forward" /\ \A k, l \in d(i).wrote : k = l
        BY Zenon, <1>3, <2>1
    <2>4. Sound(d(i), client, host)
        BY Zenon, <1>3, <1>4, <2>1, <2>3 DEF Sound
    <2> QED BY Zenon, <1>3, <2>1, <2>2, <2>4
<1> HIDE DEF d
<1>5. CASE /\ cur # 0 /\ req' = [req EXCEPT ![r].st = "sent", ![r].on = cur, ![r].wrote = {cur}]
           /\ UNCHANGED <<phase, pc, told, client, up, ups, cur>>
    <2>1. cur \in Nat /\ cur \in 1 .. Len(ups) /\ 0 \in 0 .. Len(ups)
        BY <1>2, <1>5
    <2>2. /\ d(cur) \in Request /\ d(cur).st \notin {"new", "done", "conn"}
          /\ Sound(d(cur), client, host) /\ d(cur).on = cur /\ d(cur).fb = 0 /\ d(cur).wrote = {cur}
          /\ req' = [req EXCEPT ![r] = d(cur)] /\ ups' = ups /\ cur' = cur
        BY Zenon, <1>4, <1>5, <2>1
    <2>3. /\ d(cur).on \in 0 .. Len(ups') /\ d(cur).fb \in 0 .. Len(ups')
          /\ d(cur).wrote \subseteq 1 .. Len(ups')
        BY Zenon, <1>2, <2>1, <2>2
    <2>4. ASSUME NEW i \in 1 .. Len(ups')
          PROVE  /\ ups'[i].addr = dst /\ (ups'[i].late => pc = "closed")
                 /\ ups'[i].st = "open" => \/ i = cur' /\ pc \in Serving
                                           \/ i = d(cur).fb
                                           \/ \E p \in Req : p # r /\ Active(p) /\ req[p].fb = i
                                           \/ i = cur' /\ ups'[i].late /\ client = "h2"
        <3>1. i \in 1 .. Len(ups) /\ ups'[i] = ups[i]
            BY Zenon, <2>2
        <3>2. /\ ups[i].addr = dst /\ (ups[i].late => pc = "closed") /\ Owned(ups, i, cur)
            BY Zenon, <1>2, <1>3, <3>1
        <3>3. i # 0
            BY <3>1
        <3> QED BY ZenonT(60), <1>3, <2>2, <3>1, <3>2, <3>3 DEF Owned
    <2>5. Len(ups) <= Len(ups') /\ cur' \in 0 .. Len(ups') /\ Len(ups') <= MaxDials /\ ups' \in Seq(Upstream)
        BY Zenon, <1>2, <2>2, UpTo
    <2> QED BY Zenon, <1>1, <1>2, <1>5, <2>2, <2>3, <2>4, <2>5, StepGoOn
<1>6. CASE Finish(r, q, Stale(ups), 0, FALSE)
    <2> DEFINE us == Stale(ups)
    <2>1. /\ Same(ups, us)
          /\ \A j \in 1 .. Len(ups) : us[j].st = "open" => ups[j].st = "open" /\ j # cur
        BY Zenon, <1>2, StaleIs
    <2>2. Finish(r, q, us, 0, FALSE)
        BY Zenon, <1>6
    <2> HIDE DEF us
    <2>3. us \in Seq(Upstream) /\ Len(us) = Len(ups)
        BY Zenon, <2>1 DEF Same
    <2>4. ASSUME NEW i \in 1 .. Len(us)
          PROVE  us[i].addr = dst /\ (us[i].late => pc = "closed") /\ Owned(us, i, 0)
        <3>1. i \in 1 .. Len(ups) /\ us[i].addr = ups[i].addr /\ us[i].late = ups[i].late
            BY Zenon, <2>1, <2>3 DEF Same
        <3> QED BY Zenon, <1>2, <2>1, <3>1 DEF Owned
    <2>5. /\ 0 \in 0 .. Len(us) /\ Len(ups) <= Len(us) /\ Len(us) <= MaxDials
          /\ q.on \in 0 .. Len(us) /\ q.wrote \subseteq 1 .. Len(us)
        BY Zenon, <1>2, <2>3, UpTo
    <2>6. /\ q.wrote # {} => q.host = host /\ q.msg = "forward"
          /\ ~q.idem => \A i, j \in q.wrote : i = j
        BY Zenon, <1>3
    <2> QED BY Zenon, <1>2, <2>2, <2>3, <2>4, <2>5, <2>6, StepFinish
<1>7. CASE /\ MayDial /\ ups' = Stale(Opened(dst, "open")) /\ cur' = Len(ups')
           /\ req' = [req EXCEPT ![r].st = "sent", ![r].on = cur', ![r].wrote = {cur'}]
           /\ UNCHANGED <<phase, pc, told, client, up>>
    <2> DEFINE vs == Opened(dst, "open")
    <2>1. "open" \in {"open", "closed"}
        BY Zenon
    <2>2. /\ vs \in Seq(Upstream) /\ Len(vs) = n /\ n \in Nat /\ n <= MaxDials
          /\ (vs[n].late <=> pc = "closed")
          /\ \A j \in 1 .. Len(ups) : vs[j] = ups[j] /\ Owned(ups, j, cur)
          /\ \A j \in 1 .. n : vs[j].addr = dst /\ (vs[j].late => pc = "closed")
        BY Zenon, <1>1, <1>7, <2>1, DialedFor
    <2>3. ups' = Stale(vs)
        BY Zenon, <1>7
    <2> HIDE DEF vs
    <2>4. cur \in 0 .. Len(vs) /\ n # 0 /\ n \in 1 .. n /\ n \in 0 .. n /\ 0 \in 0 .. n /\ Len(ups) <= n
        BY <1>2, <2>2
    <2>5. /\ Same(vs, ups')
          /\ \A j \in 1 .. Len(vs) : ups'[j].st = "open" => vs[j].st = "open" /\ j # cur
        BY Zenon, <2>2, <2>3, <2>4, StaleIs
    <2>6. ups' \in Seq(Upstream) /\ Len(ups') = n /\ cur' = n
        BY Zenon, <1>7, <2>2, <2>5 DEF Same
    <2>7. /\ d(n) \in Request /\ d(n).st \notin {"new", "done", "conn"}
          /\ Sound(d(n), client, host) /\ d(n).on = n /\ d(n).fb = 0 /\ d(n).wrote = {n}
          /\ req' = [req EXCEPT ![r] = d(n)]
        <3> HIDE DEF n
        <3> QED BY Zenon, <1>4, <1>7, <2>2, <2>4, <2>6
    <2>8. ASSUME NEW i \in 1 .. Len(ups')
          PROVE  /\ ups'[i].addr = dst /\ (ups'[i].late => pc = "closed")
                 /\ ups'[i].st = "open" => \/ i = cur' /\ pc \in Serving
                                           \/ i = d(n).fb
                                           \/ \E p \in Req : p # r /\ Active(p) /\ req[p].fb = i
                                           \/ i = cur' /\ ups'[i].late /\ client = "h2"
        <3>1. /\ i \in 1 .. n /\ i \in 1 .. Len(vs)
              /\ ups'[i].addr = vs[i].addr /\ ups'[i].late = vs[i].late
            <4> HIDE DEF n
            <4> QED BY Zenon, <2>2, <2>5, <2>6 DEF Same
        <3>2. ups'[i].addr = dst /\ (ups'[i].late => pc = "closed")
            BY Zenon, <2>2, <3>1
        <3>3. CASE i = n
            <4>1. pc \in Serving \/ (pc = "closed" /\ client = "h2")
                BY Zenon, <1>2 DEF Serving, Inv, TypeOK
            <4>2. i = cur'
                BY Zenon, <2>6, <3>3
            <4>3. ups'[i].late <=> pc = "closed"
                BY Zenon, <2>2, <3>1, <3>3
            <4> QED BY Zenon, <3>2, <4>1, <4>2, <4>3
        <3>4. CASE i # n
            <4>1. i \in 1 .. Len(ups) /\ i # 0
                <5>1. Len(ups) \in Nat /\ i \in 1 .. n
                    BY Zenon, <1>2, <3>1
                <5> QED BY <5>1, <3>4
            <4>2. ups'[i].st = "open" => ups[i].st = "open" /\ i # cur
                BY Zenon, <2>2, <2>5, <3>1, <4>1
            <4>3. ups'[i].late = ups[i].late
                BY Zenon, <2>2, <3>1, <4>1
            <4> QED BY Zenon, <1>3, <2>2, <3>2, <4>1, <4>2, <4>3 DEF Owned
        <3> QED BY Zenon, <3>3, <3>4
    <2>9. /\ Len(ups) <= Len(ups') /\ cur' \in 0 .. Len(ups') /\ Len(ups') <= MaxDials
          /\ d(n).on \in 0 .. Len(ups') /\ d(n).fb \in 0 .. Len(ups')
          /\ d(n).wrote \subseteq 1 .. Len(ups')
        <3> HIDE DEF n
        <3> QED BY Zenon, <2>2, <2>4, <2>6, <2>7
    <2> HIDE DEF n
    <2> QED BY Zenon, <1>1, <1>2, <1>7, <2>6, <2>7, <2>8, <2>9, StepGoOn
<1> QED BY Zenon, <1>5, <1>6, <1>7 DEF currentConn

LEMMA StepStreamEnds ==
    ASSUME Inv, NEW r \in Req, StreamEnds(r)
    PROVE  Inv'
<1>1. Active(r)
    BY Zenon DEF StreamEnds, Active
<1>2. PICK keep \in BOOLEAN : Finish(r, req[r], ups, cur, keep)
    BY Zenon DEF StreamEnds
<1> QED BY Zenon, <1>1, <1>2, StepGiveUp

\* A step that only changes the states of upstream connections, and may end the
\* client's: none is opened, and the current one is not left open.
LEMMA StepUps ==
    ASSUME Inv, UNCHANGED <<phase, told, client, up, cur, req>>, Relost(ups, ups'), Passed,
           pc \notin Early,
           \/ pc' = pc
           \/ pc = "relay" /\ pc' = "closed" /\ (client = "h1" => \A r \in Req : ~Active(r)),
           \A i \in 1 .. Len(ups) :
              ups'[i].st = "open" => ups[i].st = "open" /\ (i = cur => pc' = pc)
    PROVE  Inv'
<1>1. /\ ups' \in Seq(Upstream) /\ Len(ups') = Len(ups) /\ cur' = cur /\ req' = req
      /\ client' = client /\ up' = up /\ told' = told
      /\ \A i \in 1 .. Len(ups) : ups'[i].addr = ups[i].addr /\ ups'[i].late = ups[i].late
    BY Zenon DEF Relost
<1>2. TypeOK'
    <2>1. TypeOK
        BY Zenon DEF Inv
    <2>2. pc' \in {"accepted", "lookup", "auth", "match", "parse", "pin", "probe", "hello",
                   "tunnel", "splice", "failed", "h2connect", "dial", "relay", "closed"}
        BY Zenon, <2>1 DEF TypeOK
    <2> QED BY ZenonT(60), <1>1, <2>1, <2>2 DEF TypeOK, phase
<1>3. \A r \in Req : Active(r)' <=> Active(r)
    BY Zenon, <1>1 DEF Active
<1>4. Gates'
    <2>2. Passed' /\ dst' = dst
        BY Zenon, PassedKept DEF phase
    <2>3. pc' \notin Early /\ pc' # "match" /\ pc' # "pin"
        BY Zenon DEF Early
    <2>4. \A i \in 1 .. Len(ups') : ups'[i].addr = dst'
        BY Zenon, <1>1, <2>2 DEF Inv, Gates
    <2> QED BY Zenon, <2>2, <2>3, <2>4 DEF Gates
<1>5. Requests'
    <2>1. \A r \in Req : Sound(req[r], client, host)'
        BY Zenon, <1>1, HostKept DEF Inv, Requests
    <2>2. pc' \notin {"relay", "closed"} => \A r \in Req : req'[r].st = "new"
        BY Zenon, <1>1 DEF Inv, Requests
    <2>3. client' = "h1" => \A r \in Req : Active(r)' =>
             pc' = "relay" /\ \A p \in Req : Active(p)' => p = r
        BY Zenon, <1>1, <1>3 DEF Inv, Requests
    <2>4. pc' \in {"h2connect", "relay"} => pc \in {"h2connect", "relay"}
        BY Zenon
    <2>5. up' = "h1" => /\ \A r \in Req : req'[r].st # "conn"
                        /\ pc' \in {"h2connect", "relay"} => cur' # 0
        BY Zenon, <1>1, <2>4 DEF Inv, Requests
    <2> QED BY Zenon, <2>1, <2>2, <2>3, <2>5 DEF Requests
<1>6. Owners'
    <2> SUFFICES ASSUME NEW i \in 1 .. Len(ups)
                 PROVE  Owned(ups, i, cur)' /\ (ups'[i].late => pc' = "closed")
        BY Zenon, <1>1 DEF Owners
    <2>1. Owned(ups, i, cur) /\ (ups[i].late => pc = "closed")
        BY Zenon DEF Inv, Owners
    <2>2. pc = "closed" => pc' = "closed"
        BY Zenon
    <2> QED BY Zenon, <1>1, <1>3, <2>1, <2>2 DEF Owned
<1>7. Channel'
    BY Zenon, <1>1 DEF Inv, Channel
<1> QED BY Zenon, <1>2, <1>4, <1>5, <1>6, <1>7 DEF Inv

LEMMA StepClientLeaves ==
    ASSUME Inv, ClientLeaves
    PROVE  Inv'
<1>1. pc = "relay" /\ pc' = "closed" /\ (client = "h1" => \A r \in Req : ~Active(r))
    BY Zenon DEF ClientLeaves, Goto
<1>2. UNCHANGED <<phase, told, client, up, cur, req>> /\ ups' = Close(ups, cur)
    BY Zenon DEF ClientLeaves, Goto
<1>3. ups \in Seq(Upstream) /\ cur \in 0 .. Len(ups)
    BY Zenon DEF Inv, TypeOK
<1>4. /\ Same(ups, ups')
      /\ \A j \in 1 .. Len(ups) : ups'[j].st = IF j = cur THEN "closed" ELSE ups[j].st
    BY Zenon, <1>2, <1>3, CloseIs
<1>5. \A i \in 1 .. Len(ups) : ups'[i].st = "open" => ups[i].st = "open" /\ (i = cur => pc' = pc)
    BY Zenon, <1>4
<1>6. Passed /\ pc \notin Early
    BY Zenon, <1>1 DEF Inv, Gates, Early
<1> QED BY Zenon, <1>1, <1>2, <1>4, <1>5, <1>6, SameRelost, StepUps

LEMMA Connected ==
    ASSUME Inv, NEW i \in 1 .. Len(ups)
    PROVE  Passed /\ pc \notin Early
<1>1. ups # <<>>
    OBVIOUS
<1> QED BY Zenon, <1>1 DEF Inv, Gates

LEMMA StepOriginStops ==
    ASSUME Inv, OriginStops
    PROVE  Inv'
<1>1. /\ cur # 0 /\ ups' = [ups EXCEPT ![cur].usable = FALSE]
      /\ UNCHANGED <<phase, told, client, up, cur, req>> /\ pc' = pc
    BY Zenon DEF OriginStops
<1>2. ups \in Seq(Upstream) /\ cur \in 1 .. Len(ups)
    BY <1>1 DEF Inv, TypeOK
<1>3. Same(ups, ups') /\ \A j \in 1 .. Len(ups) : ups'[j].st = ups[j].st
    <2> DEFINE vs == [ups EXCEPT ![cur].usable = FALSE]
    <2>1. Same(ups, vs) /\ \A j \in 1 .. Len(ups) : vs[j].st = ups[j].st
        BY <1>2, UpdatedUsable
    <2>2. ups' = vs
        BY Zenon, <1>1
    <2> HIDE DEF vs
    <2> QED BY Zenon, <2>1, <2>2
<1>4. Passed /\ pc \notin Early
    BY Zenon, <1>2, Connected
<1> QED BY Zenon, <1>1, <1>3, <1>4, SameRelost, StepUps

\* What is lost with a connection is only recorded in it.
LEMMA StepOriginBreaks ==
    ASSUME Inv, NEW i \in 1 .. Len(ups), OriginBreaks(i)
    PROVE  Inv'
<1>1. ups' = Broken(ups, i) /\ UNCHANGED <<phase, told, client, up, cur, req>> /\ pc' = pc
    BY Zenon DEF OriginBreaks, Broken
<1>2. Relost(ups, ups') /\ \A j \in 1 .. Len(ups) : ups'[j].st = ups[j].st
    <2>1. ups \in Seq(Upstream)
        BY Zenon DEF Inv, TypeOK
    <2> QED BY Zenon, <1>1, <2>1, BrokenIs
<1>3. Passed /\ pc \notin Early
    BY Zenon, Connected
<1> QED BY Zenon, <1>1, <1>2, <1>3, StepUps

LEMMA StepDrainExpires ==
    ASSUME Inv, NEW i \in 1 .. Len(ups), DrainExpires(i)
    PROVE  Inv'
<1>1. ups' = Expired(ups, i) /\ UNCHANGED <<phase, told, client, up, cur, req>> /\ pc' = pc
    BY Zenon DEF DrainExpires, Expired
<1>2. /\ Relost(ups, ups') /\ ups'[i].st = "closed"
      /\ \A j \in 1 .. Len(ups) : j # i => ups'[j].st = ups[j].st
    <2>1. ups \in Seq(Upstream)
        BY Zenon DEF Inv, TypeOK
    <2> QED BY Zenon, <1>1, <2>1, ExpiredIs
<1>3. Passed /\ pc \notin Early
    BY Zenon, Connected
<1>4. ASSUME NEW j \in 1 .. Len(ups), ups'[j].st = "open"
      PROVE  ups[j].st = "open" /\ (j = cur => pc' = pc)
    BY Zenon, <1>1, <1>2, <1>4
<1> QED BY Zenon, <1>1, <1>2, <1>3, <1>4, StepUps

LEMMA StepDrained ==
    ASSUME Inv, NEW i \in 1 .. Len(ups), Drained(i)
    PROVE  Inv'
<1>1. /\ ups' = Close(ups, i) /\ UNCHANGED <<phase, told, client, up, cur, req>> /\ pc' = pc
    BY Zenon DEF Drained
<1>2. ups \in Seq(Upstream) /\ i \in 0 .. Len(ups)
    BY DEF Inv, TypeOK
<1>3. /\ Same(ups, ups')
      /\ \A j \in 1 .. Len(ups) : ups'[j].st = IF j = i THEN "closed" ELSE ups[j].st
    BY Zenon, <1>1, <1>2, CloseIs
<1>4. Passed /\ pc \notin Early
    BY Zenon, Connected
<1>5. \A j \in 1 .. Len(ups) : ups'[j].st = "open" => ups[j].st = "open" /\ (j = cur => pc' = pc)
    BY Zenon, <1>1, <1>3
<1> QED BY Zenon, <1>1, <1>3, <1>4, <1>5, SameRelost, StepUps

RequestStep(r) ==
    \/ handleOneRequest(r) \/ handleH2Stream(r) \/ H1Fallback(r) \/ RoundTrip(r) \/ Retry(r)
    \/ currentConn(r) \/ StreamEnds(r)

LEMMA StepRequest ==
    ASSUME Inv, NEW r \in Req, RequestStep(r)
    PROVE  Inv'
BY Zenon, StepHandle, StepFallback, StepRoundTrip, StepRetry, StepCurrentConn, StepStreamEnds
   DEF RequestStep

LEMMA StepStutter ==
    ASSUME Inv, UNCHANGED vars
    PROVE  Inv'
<1>0. TypeOK
    BY Zenon DEF Inv
<1>1. TypeOK'
    BY SMTT(30), <1>0 DEF TypeOK, vars
<1>2. \A r \in Req : Active(r)' <=> Active(r)
    BY Zenon DEF Active, vars
<1>3. Passed' <=> Passed
    BY Zenon DEF Passed, EgressAllows, handler, vars
<1>4. Gates' /\ Requests' /\ Owners' /\ Channel'
    <2>1. Gates'
        BY Zenon, <1>2, <1>3 DEF Inv, Gates, vars
    <2>2. Requests'
        BY Zenon, <1>2 DEF Inv, Requests, vars
    <2>3. Owners'
        BY Zenon, <1>2 DEF Inv, Owners, Owned, vars
    <2>4. Channel'
        BY Zenon DEF Inv, Channel, vars
    <2> QED BY Zenon, <2>1, <2>2, <2>3, <2>4
<1> QED BY Zenon, <1>1, <1>4 DEF Inv

LEMMA Inductive == Spec => []Inv
<1>1. Inv /\ [Next]_vars => Inv'
    <2> SUFFICES ASSUME Inv, [Next]_vars PROVE Inv'
        BY Zenon
    <2>1. CASE UNCHANGED vars
        BY Zenon, <2>1, StepStutter
    <2>2. CASE Serve \/ serveTransparent \/ Lookup \/ checkAuth \/ LookupConn
               \/ serveTransparentOpaqueMITM \/ resolveAndPin
        BY Zenon, <2>2, StepServe, StepLookup, StepAuth, StepMatch, StepParse, StepPin
    <2>3. CASE Probe \/ Hello \/ rawSplice \/ SpliceEnds \/ Terminate \/ terminateFailed
               \/ newUpstreamH2ClientConn \/ DialPlain
        BY Zenon, <2>3, StepProbe, StepHello, StepSplice, StepSpliceEnds, StepTerminate, StepH2Connect
    <2>4. CASE ClientLeaves \/ OriginStops
        BY Zenon, <2>4, StepClientLeaves, StepOriginStops
    <2>5. CASE \E r \in Req : RequestStep(r)
        BY Zenon, <2>5, StepRequest
    <2>6. CASE \E i \in 1 .. Len(ups) : OriginBreaks(i) \/ Drained(i) \/ DrainExpires(i)
        BY Zenon, <2>6, StepOriginBreaks, StepDrained, StepDrainExpires
    <2> QED BY Zenon, <2>1, <2>2, <2>3, <2>4, <2>5, <2>6 DEF Next, RequestStep
<1> QED BY InitInv, <1>1, PTL DEF Spec

-----------------------------------------------------------------------------
(* The theorems *)

\* Every variable of a connection keeps its type; in particular a request only
\* names upstream connections that exist.
THEOREM TypeCorrect == Spec => []TypeOK
<1>1. Inv => TypeOK
    BY Zenon DEF Inv
<1> QED BY Inductive, <1>1, PTL

\* DialsAuthorized: whatever dials (probe, splice, termination, retry, reconnect,
\* fallback), one rule set has let the connection through checkAuth, LookupConn
\* and resolveAndPin, and the one pinned address is dialed.
THEOREM DialsOnlyAuthorized == Spec => []DialsAuthorized
<1>1. Inv => DialsAuthorized
    <2> SUFFICES ASSUME Inv, ups # <<>> PROVE DialsAuthorized
        BY Zenon DEF DialsAuthorized
    <2>1. Passed /\ \A i \in 1 .. Len(ups) : ups[i].addr = dst
        BY Zenon DEF Inv, Gates
    <2> QED BY Zenon, <2>1 DEF DialsAuthorized, Passed, EgressAllows, handler
<1> QED BY Inductive, <1>1, PTL

\* A step of a request leaves the connection's phase and the other requests alone.
LEMMA RequestKeeps ==
    ASSUME Inv, NEW r \in Req, RequestStep(r)
    PROVE  /\ UNCHANGED phase /\ told' = told /\ pc' \in {pc, "closed"}
           /\ Active(r) \/ MayBegin(r)
           /\ \A p \in Req : p # r => req'[p] = req[p]
<1> DEFINE Kept == /\ UNCHANGED phase /\ told' = told /\ pc' \in {pc, "closed"}
                   /\ \A p \in Req : p # r => req'[p] = req[p]
<1>1. req \in [Req -> Request]
    BY Zenon DEF Inv, TypeOK
<1>2. ASSUME NEW q, NEW us, NEW c, NEW keep, Finish(r, q, us, c, keep) PROVE Kept
    BY Zenon, <1>1, <1>2 DEF Finish
<1>3. ASSUME NEW q, req' = [req EXCEPT ![r] = q], UNCHANGED <<phase, pc, told>> PROVE Kept
    BY Zenon, <1>1, <1>3
<1> HIDE DEF Kept
<1>4. CASE handleOneRequest(r) \/ handleH2Stream(r)
    <2>1. MayBegin(r) /\ \E q : Begins(r, q)
        BY Zenon, <1>4, HandlerBegins
    <2> QED BY Zenon, <1>2, <1>3, <2>1 DEF Begins, Kept
<1>5. CASE H1Fallback(r)
    <2>1. Active(r)
        BY Zenon, <1>5 DEF H1Fallback, Active
    <2>2. ASSUME req' = [req EXCEPT ![r].st = "send", ![r].on = Len(ups'), ![r].fb = Len(ups')],
                 UNCHANGED <<phase, pc, told, client, up, cur>>
          PROVE  Kept
        BY Zenon, <1>1, <2>2 DEF Kept
    <2> QED BY Zenon, <1>2, <1>5, <2>1, <2>2 DEF H1Fallback, Kept
<1>6. CASE RoundTrip(r)
    <2>1. Active(r)
        BY Zenon, <1>6 DEF RoundTrip, Active
    <2> QED BY Zenon, <1>2, <1>3, <1>6, <2>1 DEF RoundTrip, Kept
<1>7. CASE Retry(r)
    <2>1. Active(r)
        BY Zenon, <1>7 DEF Retry, Active
    <2> QED BY Zenon, <1>2, <1>7, <2>1 DEF Retry, Kept
<1>8. CASE currentConn(r)
    <2>1. Active(r)
        BY Zenon, <1>8 DEF currentConn, Active
    <2>2. ASSUME NEW i, req' = [req EXCEPT ![r].st = "sent", ![r].on = i, ![r].wrote = {i}],
                 UNCHANGED <<phase, pc, told, client, up>>
          PROVE  Kept
        BY Zenon, <1>1, <2>2 DEF Kept
    <2> QED BY Zenon, <1>2, <1>8, <2>1, <2>2 DEF currentConn, Kept
<1>9. CASE StreamEnds(r)
    <2>1. Active(r)
        BY Zenon, <1>9 DEF StreamEnds, Active
    <2> QED BY Zenon, <1>2, <1>9, <2>1 DEF StreamEnds, Kept
<1> QED BY Zenon, <1>4, <1>5, <1>6, <1>7, <1>8, <1>9 DEF RequestStep

\* TLS is terminated for the host the connection goes by: serveTransparentTLS
\* takes that host from the SNI, serveConnect compares the two.
Begun == (pc = "tunnel" /\ mitm) \/ pc \in {"h2connect", "relay"} \/ \E r \in Req : req[r].st # "new"

Names ==
    /\ proto = "https" => kind \in {"connect", "tls"}
    /\ kind = "tls" => proto = "https" /\ sni = host
    /\ pc = "parse" => proto = "tcp"
    /\ pc = "dial" => kind \notin {"connect", "tls"}
    /\ kind = "connect" /\ Begun => sni = host

LEMMA NamesKept ==
    ASSUME Names, UNCHANGED phase, Begun' => Begun, pc' \notin {"parse", "dial"}
    PROVE  Names'
BY Zenon, HostKept DEF Names

LEMMA NamesEarly ==
    ASSUME Inv, Names,
           \/ Serve \/ serveTransparent \/ Lookup \/ checkAuth \/ LookupConn
           \/ serveTransparentOpaqueMITM \/ resolveAndPin \/ Probe \/ Hello
    PROVE  Names'
<1>1. pc \in {"accepted", "lookup", "auth", "match", "parse", "pin", "probe", "hello"}
    BY Zenon DEF Serve, serveTransparent, Lookup, checkAuth, LookupConn,
                 serveTransparentOpaqueMITM, resolveAndPin, Probe, Hello
<1>2. \A r \in Req : req[r].st = "new"
    BY Zenon, <1>1, Idle
<1>3. ASSUME req' = req, pc' \notin {"tunnel", "h2connect", "relay"} PROVE ~Begun'
    BY Zenon, <1>2, <1>3 DEF Begun
<1>4. ASSUME NEW t, Return(t) PROVE Names'
    <2>1. pc' = "closed" /\ UNCHANGED phase /\ req' = req
        BY Zenon, <1>4 DEF Return
    <2>2. ~Begun'
        BY Zenon, <1>3, <2>1
    <2> QED BY Zenon, <2>1, <2>2, NamesKept
<1>5. ASSUME NEW l \in {"lookup", "auth", "match", "parse", "pin", "probe", "dial"},
             Goto(l), NoUpstream
      PROVE  pc' = l /\ ~Begun'
    BY Zenon, <1>3, <1>5 DEF Goto, NoUpstream
<1>6. CASE Serve
    <2>1. ASSUME Goto("lookup"), NoUpstream, proto' = (IF kind = "connect" THEN "https" ELSE "http"),
                 UNCHANGED <<kind, sni>>
          PROVE  Names'
        <3>1. pc' = "lookup" /\ ~Begun' /\ kind' # "tls"
            BY Zenon, <1>5, <1>6, <2>1 DEF Serve, Explicit
        <3>2. proto' = "https" => kind' = "connect"
            BY <2>1
        <3> QED BY Zenon, <3>1, <3>2 DEF Names
    <2> QED BY Zenon, <1>4, <1>6, <2>1 DEF Serve
<1>7. CASE serveTransparent
    <2>1. ASSUME Goto("lookup"), NoUpstream,
                 \/ kind' = "tls" /\ proto' = "https" /\ sni' = host'
                 \/ kind' = "opaque" /\ proto' = "tcp"
          PROVE  Names'
        <3>1. pc' = "lookup" /\ ~Begun'
            BY Zenon, <1>5, <2>1
        <3> QED BY Zenon, <2>1, <3>1 DEF Names
    <2> QED BY Zenon, <1>4, <1>7, <2>1 DEF serveTransparent
<1>8. ASSUME NEW l \in {"auth", "match", "pin"}, Goto(l), NoUpstream,
             UNCHANGED <<kind, proto, host, sni>>
      PROVE  Names'
    <2>1. pc' = l /\ ~Begun'
        BY Zenon, <1>5, <1>8
    <2> QED BY Zenon, <1>8, <2>1 DEF Names
<1>9. CASE Lookup
    BY Zenon, <1>4, <1>8, <1>9 DEF Lookup
<1>10. CASE checkAuth
    BY Zenon, <1>4, <1>8, <1>10 DEF checkAuth
<1>11. CASE LookupConn
    <2>1. ASSUME Goto(IF proto = "tcp" /\ rs.conn[host][proto] = "mitm" THEN "parse" ELSE "pin"),
                 NoUpstream, UNCHANGED <<kind, proto, host, sni>>
          PROVE  Names'
        <3>1. CASE Goto("pin")
            BY Zenon, <1>8, <2>1, <3>1
        <3>2. CASE Goto("parse") /\ proto = "tcp"
            <4>1. pc' = "parse" /\ ~Begun'
                BY Zenon, <1>5, <2>1, <3>2
            <4> QED BY Zenon, <2>1, <3>2, <4>1 DEF Names
        <3> QED BY Zenon, <2>1, <3>1, <3>2
    <2> QED BY Zenon, <1>4, <1>11, <2>1 DEF LookupConn, Page
<1>12. CASE serveTransparentOpaqueMITM
    <2>1. ASSUME Goto("lookup"), NoUpstream, proto' = "http", kind' = kind PROVE Names'
        <3>1. pc' = "lookup" /\ ~Begun' /\ kind # "tls"
            BY Zenon, <1>5, <1>12, <2>1 DEF serveTransparentOpaqueMITM, Names
        <3> QED BY Zenon, <2>1, <3>1 DEF Names
    <2> QED BY Zenon, <1>4, <1>12, <2>1 DEF serveTransparentOpaqueMITM
<1>13. CASE resolveAndPin
    <2> DEFINE l == IF kind = "connect" THEN "probe" ELSE IF proto = "http" THEN "dial" ELSE "tunnel"
    <2>1. /\ l = "dial" => kind \notin {"connect", "tls"}
          /\ l \in {"probe", "tunnel", "dial"} /\ (l = "tunnel" => kind # "connect")
        BY DEF Names
    <2> HIDE DEF l
    <2>2. ASSUME Goto(l), NoUpstream, UNCHANGED <<kind, proto, host, sni, rs, authed, mitm>>
          PROVE  Names'
        <3>1. pc' = l /\ req' = req
            BY Zenon, <2>2 DEF Goto, NoUpstream
        <3>2. kind = "connect" => ~Begun'
            BY Zenon, <1>3, <2>1, <3>1
        <3> QED BY Zenon, <2>1, <2>2, <3>1, <3>2 DEF Names
    <2> QED BY Zenon, <1>4, <1>13, <2>2 DEF resolveAndPin, Page, l
<1>14. CASE Probe
    <2>1. ASSUME UNCHANGED <<phase, client, up, cur, req>>,
                 \/ pc' = "closed"
                 \/ pc' = IF mitm THEN "hello" ELSE "tunnel"
          PROVE  Names'
        <3>1. pc' \in {"closed", "hello", "tunnel"} /\ (pc' = "tunnel" => ~mitm)
            BY Zenon, <2>1
        <3>2. ~Begun'
            BY Zenon, <1>2, <2>1, <3>1, HostKept DEF Begun
        <3> QED BY Zenon, <2>1, <3>1, <3>2, NamesKept
    <2> QED BY Zenon, <1>4, <1>14, <2>1 DEF Probe, Page
<1>15. CASE Hello
    <2>1. ASSUME NEW h \in Host, sameHost(h, host), sni' = h, Goto("tunnel"),
                 UNCHANGED <<kind, proto, host, rs, authed, mitm, answer, dst>>
          PROVE  Names'
        BY Zenon, <2>1 DEF Names, sameHost, Goto
    <2> QED BY Zenon, <1>4, <1>15, <2>1 DEF Hello, Fallback
<1> QED BY Zenon, <1>6, <1>7, <1>9, <1>10, <1>11, <1>12, <1>13, <1>14, <1>15

LEMMA NamesNext == ASSUME Inv, Names, [Next]_vars PROVE Names'
<1>1. ASSUME UNCHANGED phase, req' = req, pc' \in {pc, "closed"} PROVE Names'
    <2>1. Begun' => Begun
        BY Zenon, <1>1, HostKept DEF Begun
    <2> QED BY Zenon, <1>1, <2>1, HostKept DEF Names
<1>2. CASE UNCHANGED vars
    <2>1. UNCHANGED phase /\ req' = req /\ pc' = pc
        BY Zenon, <1>2 DEF vars, phase
    <2> QED BY Zenon, <1>1, <2>1
<1>3. CASE Serve \/ serveTransparent \/ Lookup \/ checkAuth \/ LookupConn
           \/ serveTransparentOpaqueMITM \/ resolveAndPin \/ Probe \/ Hello
    BY Zenon, <1>3, NamesEarly
<1>4. ASSUME NEW t, Return(t) PROVE Names'
    BY Zenon, <1>1, <1>4 DEF Return
<1>5. ASSUME UNCHANGED phase, Begun, pc' \notin {"parse", "dial"} PROVE Names'
    BY Zenon, <1>5, NamesKept
<1>6. CASE rawSplice \/ DialPlain
    <2>1. pc \in {"tunnel", "dial"}
        BY Zenon, <1>6 DEF rawSplice, DialPlain
    <2>2. \A r \in Req : req[r].st = "new"
        BY Zenon, <2>1, Idle
    <2>3. ASSUME Goto("splice"), UNCHANGED <<phase, client, up, req>> PROVE Names'
        <3>1. pc' = "splice" /\ ~Begun'
            BY Zenon, <2>2, <2>3 DEF Goto, Begun
        <3> QED BY Zenon, <2>3, <3>1, NamesKept
    <2>4. CASE DialPlain /\ Goto("relay") /\ UNCHANGED <<phase, req>>
        <3>1. kind \notin {"connect", "tls"} /\ pc' = "relay"
            BY Zenon, <2>4 DEF DialPlain, Goto, Names
        <3> QED BY Zenon, <2>4, <3>1, HostKept DEF Names
    <2>5. CASE DialPlain
        BY Zenon, <1>4, <2>4, <2>5 DEF DialPlain, Page
    <2> QED BY Zenon, <1>4, <1>6, <2>3, <2>5 DEF rawSplice
<1>7. CASE SpliceEnds \/ ClientLeaves
    BY Zenon, <1>1, <1>7 DEF SpliceEnds, ClientLeaves, Goto
<1>8. CASE Terminate
    <2>1. Begun /\ UNCHANGED phase
        BY Zenon, <1>8 DEF Terminate, Begun
    <2>2. pc' \in {"failed", "h2connect", "relay"}
        BY Zenon, <1>8 DEF Terminate, Goto
    <2> QED BY Zenon, <1>5, <2>1, <2>2
<1>9. CASE newUpstreamH2ClientConn
    <2>1. Begun /\ UNCHANGED phase
        BY Zenon, <1>9 DEF newUpstreamH2ClientConn, Begun
    <2>2. pc' \in {"h2connect", "relay", "closed"}
        BY Zenon, <1>9 DEF newUpstreamH2ClientConn, Goto
    <2> QED BY Zenon, <1>5, <2>1, <2>2
<1>10. CASE terminateFailed
    BY Zenon, <1>4, <1>10 DEF terminateFailed, Fallback
<1>11. CASE OriginStops \/ \E i \in 1 .. Len(ups) : OriginBreaks(i) \/ Drained(i) \/ DrainExpires(i)
    BY Zenon, <1>1, <1>11 DEF OriginStops, OriginBreaks, Drained, DrainExpires
<1>12. ASSUME NEW r \in Req, RequestStep(r) PROVE Names'
    <2>1. UNCHANGED phase /\ pc' \in {pc, "closed"} /\ (Active(r) \/ MayBegin(r))
        BY Zenon, <1>12, RequestKeeps
    <2>2. Begun /\ pc \in {"relay", "closed"}
        <3>1. pc \in {"relay", "closed"}
            BY Zenon, <2>1, Handling
        <3> QED BY Zenon, <2>1, <3>1 DEF Begun, MayBegin, Active
    <2>3. pc' \notin {"parse", "dial"}
        BY Zenon, <2>1, <2>2
    <2> QED BY Zenon, <1>5, <2>1, <2>2, <2>3
<1> QED BY Zenon, <1>2, <1>3, <1>6, <1>7, <1>8, <1>9, <1>10, <1>11, <1>12 DEF Next, RequestStep

\* OneHost: the host the rules judged, the one TLS was terminated for and the one a
\* written request names are the same, on every path of either round tripper.
THEOREM OneHostEndToEnd == Spec => []OneHost
<1>1. Init => Names
    <2> SUFFICES ASSUME Init PROVE Names
        BY Zenon
    <2>1. pc = "accepted" /\ kind # "tls" /\ proto = "tcp" /\ \A r \in Req : req[r].st = "new"
        BY Fields DEF Init
    <2>2. ~Begun
        BY Zenon, <2>1 DEF Begun
    <2> QED BY Zenon, <2>1, <2>2 DEF Names
<1>2. Inv /\ Names /\ [Next]_vars => Names'
    BY Zenon, NamesNext
<1>3. Inv /\ Names => OneHost
    <2> SUFFICES ASSUME Inv, Names, NEW r \in Req, req[r].wrote # {}
                 PROVE  /\ req[r].host = host /\ req[r].msg = "forward"
                        /\ proto = "https" => sni = host
        BY Zenon DEF OneHost
    <2>1. Sound(req[r], client, host)
        BY Zenon DEF Inv, Requests
    <2>2. req[r].host = host /\ req[r].msg = "forward" /\ req[r].st # "new"
        BY Zenon, <2>1 DEF Sound
    <2>3. Begun
        BY Zenon, <2>2 DEF Begun
    <2> QED BY Zenon, <2>2, <2>3 DEF Names
<1> QED BY Inductive, <1>1, <1>2, <1>3, PTL DEF Spec

\* SentOnce: no failure of h1RoundTripper's first attempt makes it write a
\* request that is not idempotent to a second connection.
THEOREM WrittenOnce == Spec => []SentOnce
<1>1. Inv => SentOnce
    <2> SUFFICES ASSUME Inv, NEW r \in Req, ~req[r].idem PROVE Cardinality(req[r].wrote) <= 1
        BY Zenon DEF SentOnce
    <2> DEFINE w == req[r].wrote
    <2>1. \A i, j \in w : i = j
        BY Zenon DEF Inv, Requests, Sound
    <2>2. CASE w = {}
        BY <2>2, FS_EmptySet
    <2>3. CASE w # {}
        <3>1. PICK i : i \in w
            BY Zenon, <2>3
        <3>2. w = {i}
            BY Zenon, <2>1, <3>1
        <3>3. Cardinality({i}) = 1
            BY Zenon, FS_Singleton
        <3> QED BY <3>2, <3>3
    <2> QED BY Zenon, <2>2, <2>3
<1> QED BY Inductive, <1>1, PTL

\* NothingOutlives: one upstream connection at most is open besides those of
\* running upgrades, and however the client connection ends, what stays open is
\* the one a stream dialed after h2RoundTripper.Close.
THEOREM NothingLeftOpen == Spec => []NothingOutlives
<1>1. Inv => NothingOutlives
    <2> SUFFICES ASSUME Inv, NEW i \in 1 .. Len(ups), ups[i].st = "open"
                 PROVE  /\ i = cur \/ \E r \in Req : Active(r) /\ req[r].fb = i
                        /\ pc = "closed" /\ (\A r \in Req : ~Active(r)) => ups[i].late /\ client = "h2"
        BY Zenon DEF NothingOutlives
    <2>1. Owned(ups, i, cur) /\ (pc = "closed" => pc \notin Serving)
        BY Zenon DEF Inv, Owners, Serving
    <2> QED BY Zenon, <2>1 DEF Owned
<1> QED BY Inductive, <1>1, PTL

\* A stream under way names an upstream connection, and has no fallback of its own.
LEMMA Sent ==
    ASSUME Inv, NEW r \in Req, req[r].st = "sent"
    PROVE  /\ Active(r) /\ req[r].on \in 1 .. Len(ups) /\ req[r].fb = 0
           /\ pc \in {"relay", "closed"} /\ ups \in Seq(Upstream) /\ Len(ups) \in Nat
           /\ cur \in 0 .. Len(ups) /\ (client = "h1" => \A p \in Req : Active(p) => p = r)
<1>1. Active(r)
    BY Zenon DEF Active
<1>2. /\ req[r].on \in 0 .. Len(ups) /\ Len(ups) \in Nat /\ Sound(req[r], client, host)
      /\ pc \in {"relay", "closed"} /\ ups \in Seq(Upstream) /\ cur \in 0 .. Len(ups)
      /\ client = "h1" => \A p \in Req : Active(p) => p = r
    BY Zenon, <1>1, Handling
<1>3. req[r].on # 0 /\ req[r].fb = 0
    BY Zenon, <1>2 DEF Sound
<1>4. req[r].on \in 1 .. Len(ups)
    BY Zenon, <1>2, <1>3, NonZero
<1> QED BY Zenon, <1>1, <1>2, <1>3, <1>4

\* Connection o of us is neither closed nor taken from its streams by a step.
Holds(us, o) ==
    /\ ups'[o].lost = us[o].lost
    /\ ups'[o].st = "closed" => us[o].st = "closed"

\* A request that ends closes no connection of a stream under way, but for the end
\* of the client connection.
LEMMA FinishSevers ==
    ASSUME Inv, NEW r \in Req, req[r].st = "sent", NEW p \in Req, Active(p) \/ MayBegin(p),
           NEW q \in Request, NEW us \in Seq(Upstream), NEW c \in 0 .. Len(us),
           NEW keep \in BOOLEAN, Finish(p, q, us, c, keep), q.fb = req[p].fb,
           Len(ups) <= Len(us), pc' # "closed"
    PROVE  Holds(us, req[r].on)
<1>1. /\ Active(r) /\ req[r].on \in 1 .. Len(ups) /\ req[r].fb = 0 /\ Len(ups) \in Nat
      /\ client = "h1" => \A t \in Req : Active(t) => t = r
    BY Zenon, Sent
<1>2. req[p].fb \in 0 .. Len(ups) /\ Sound(req[p], client, host)
    BY Zenon, Handling
<1>3. q.fb \in 0 .. Len(us) /\ req[r].on \in 1 .. Len(us)
    <2>1. 0 .. Len(ups) \subseteq 0 .. Len(us) /\ 1 .. Len(ups) \subseteq 1 .. Len(us)
        BY <1>1
    <2> QED BY Zenon, <1>1, <1>2, <2>1
<1>4. /\ ups'[req[r].on].st = "closed" => us[req[r].on].st = "closed" \/ req[r].on = q.fb
      /\ ups'[req[r].on].lost = us[req[r].on].lost
    <2>1. Finished(p, q, us, c, keep)
        BY Zenon, <1>3, FinishIs
    <2> QED BY Zenon, <1>3, <2>1 DEF Finished, Same
<1>5. req[p].fb = 0
    <2>1. CASE Active(p)
        <3>1. req[p].fb # 0 => client = "h1"
            BY Zenon, <1>2 DEF Sound
        <3> QED BY Zenon, <1>1, <2>1, <3>1
    <2>2. CASE MayBegin(p)
        BY Zenon, <1>2, <2>2 DEF Sound, MayBegin
    <2> QED BY Zenon, <2>1, <2>2
<1>6. req[r].on # 0
    BY <1>1
<1> QED BY Zenon, <1>4, <1>5, <1>6 DEF Holds

LEMMA RequestSevers ==
    ASSUME Inv, NEW r \in Req, req[r].st = "sent", pc' # "closed", NEW p \in Req, RequestStep(p)
    PROVE  Holds(ups, req[r].on)
<1> DEFINE o == req[r].on
<1>1. /\ Active(r) /\ o \in 1 .. Len(ups) /\ ups \in Seq(Upstream) /\ Len(ups) \in Nat
      /\ cur \in 0 .. Len(ups) /\ (client = "h1" => \A t \in Req : Active(t) => t = r)
    BY Zenon, Sent
<1>2. Active(p) \/ MayBegin(p)
    BY Zenon, RequestKeeps
<1>3. req[p] \in Request /\ Sound(req[p], client, host) /\ Len(ups) <= Len(ups)
    <2>1. req[p] \in Request /\ Sound(req[p], client, host)
        BY Zenon, <1>2, Handling
    <2>2. Len(ups) <= Len(ups)
        BY Zenon, <1>1, UpTo
    <2> QED BY Zenon, <2>1, <2>2
<1>4. ASSUME ups' = ups PROVE Holds(ups, o)
    BY Zenon, <1>4 DEF Holds
<1>5. ASSUME \A j \in 1 .. Len(ups) : ups'[j] = ups[j] PROVE Holds(ups, o)
    BY Zenon, <1>1, <1>5 DEF Holds
<1>6. ASSUME NEW keep \in BOOLEAN, Finish(p, req[p], ups, cur, keep)
      PROVE  Holds(ups, o)
    BY Zenon, <1>1, <1>2, <1>3, <1>6, FinishSevers
<1>7. ASSUME req[p].st \in {"send", "retry"} PROVE FALSE
    <2>1. client = "h1" /\ Active(p)
        BY Zenon, <1>3, <1>7 DEF Sound, Active
    <2>2. p = r
        BY Zenon, <1>1, <2>1
    <2> QED BY Zenon, <1>7, <2>2
<1>8. CASE handleOneRequest(p) \/ handleH2Stream(p)
    <2>1. PICK q : Fresh(q) /\ Begins(p, q)
        BY Zenon, <1>8, HandlerBegins
    <2>2. q \in Request /\ q.fb = 0 /\ (Finish(p, q, ups, cur, FALSE) \/ ups' = ups)
        BY Zenon, <2>1 DEF Fresh, Begins
    <2>3. req[p].fb = 0
        <3>1. req[p].st = "new"
            BY Zenon, <1>8, HandlerBegins DEF MayBegin
        <3> QED BY Zenon, <1>3, <3>1 DEF Sound
    <2>4. CASE Finish(p, q, ups, cur, FALSE)
        BY Zenon, <1>1, <1>2, <1>3, <2>2, <2>3, <2>4, FinishSevers
    <2> QED BY Zenon, <1>4, <2>2, <2>4
<1>9. CASE H1Fallback(p)
    <2>1. CASE Finish(p, req[p], ups, cur, FALSE)
        BY Zenon, <1>6, <2>1
    <2>2. CASE MayDial /\ ups' = Opened(dst, "open")
        <3>1. Active(p)
            BY Zenon, <1>9 DEF H1Fallback, Active
        <3>2. \A j \in 1 .. Len(ups) : ups'[j] = ups[j]
            BY Zenon, <2>2, <3>1, DialedFor
        <3> QED BY Zenon, <1>5, <3>2
    <2> QED BY Zenon, <1>9, <2>1, <2>2 DEF H1Fallback
<1>10. CASE RoundTrip(p) \/ Retry(p)
    BY Zenon, <1>7, <1>10 DEF RoundTrip, Retry
<1>11. CASE currentConn(p)
    <2>1. CASE ups' = ups
        BY Zenon, <1>4, <2>1
    <2>2. CASE Finish(p, req[p], Stale(ups), 0, FALSE)
        <3> DEFINE us == Stale(ups)
        <3>1. Same(ups, us) /\ \A j \in 1 .. Len(ups) : us[j].st = "closed" => ups[j].st = "closed"
            BY Zenon, <1>1, StaleIs
        <3>2. Finish(p, req[p], us, 0, FALSE)
            BY Zenon, <2>2
        <3> HIDE DEF us
        <3>3. us \in Seq(Upstream) /\ Len(ups) <= Len(us) /\ 0 \in 0 .. Len(us)
            BY <1>1, <3>1 DEF Same
        <3>4. Holds(us, o)
            BY Zenon, <1>1, <1>2, <1>3, <3>2, <3>3, FinishSevers
        <3>5. us[o].lost = ups[o].lost /\ (us[o].st = "closed" => ups[o].st = "closed")
            BY Zenon, <1>1, <3>1 DEF Same
        <3> QED BY Zenon, <3>4, <3>5 DEF Holds
    <2>3. CASE MayDial /\ ups' = Stale(Opened(dst, "open"))
        <3> DEFINE vs == Opened(dst, "open")
        <3>1. Active(p) /\ "open" \in {"open", "closed"}
            BY Zenon, <1>11 DEF currentConn, Active
        <3>2. /\ vs \in Seq(Upstream) /\ Len(vs) = Len(ups) + 1
              /\ \A j \in 1 .. Len(ups) : vs[j] = ups[j]
            BY Zenon, <2>3, <3>1, DialedFor
        <3>3. ups' = Stale(vs)
            BY Zenon, <2>3
        <3> HIDE DEF vs
        <3>4. o \in 1 .. Len(vs) /\ cur \in 0 .. Len(vs)
            BY <1>1, <3>2
        <3>5. Same(vs, ups') /\ \A j \in 1 .. Len(vs) : ups'[j].st = "closed" => vs[j].st = "closed"
            BY Zenon, <3>2, <3>3, <3>4, StaleIs
        <3>6. ups'[o].lost = vs[o].lost /\ vs[o] = ups[o]
            BY Zenon, <1>1, <3>2, <3>4, <3>5 DEF Same
        <3> QED BY Zenon, <3>4, <3>5, <3>6 DEF Holds
    <2> QED BY Zenon, <1>11, <2>1, <2>2, <2>3 DEF currentConn
<1>12. CASE StreamEnds(p)
    <2>1. PICK keep \in BOOLEAN : Finish(p, req[p], ups, cur, keep)
        BY Zenon, <1>12 DEF StreamEnds
    <2> QED BY Zenon, <1>6, <2>1
<1> QED BY Zenon, <1>8, <1>9, <1>10, <1>11, <1>12 DEF RequestStep

\* Only currentConn sends a stream.
LEMMA OnlyCurrentConn ==
    ASSUME Inv, NEW r \in Req, RequestStep(r), req'[r].st = "sent"
    PROVE  currentConn(r)
<1>1. req \in [Req -> Request] /\ req[r] \in Request /\ ups \in Seq(Upstream)
    BY Zenon DEF Inv, TypeOK
<1>2. ASSUME NEW q \in Request, NEW us, NEW c, NEW keep, Finish(r, q, us, c, keep) PROVE FALSE
    <2> DEFINE d == [q EXCEPT !.st = "done"]
    <2>1. d.st = "done"
        BY Zenon DEF Request
    <2>2. req' = [req EXCEPT ![r] = d]
        BY Zenon, <1>2 DEF Finish
    <2> HIDE DEF d
    <2>3. req'[r] = d
        BY Zenon, <1>1, <2>2
    <2> QED BY Zenon, <2>1, <2>3
<1>3. ASSUME NEW q \in Request, NEW s, s # "sent", req' = [req EXCEPT ![r] = [q EXCEPT !.st = s]]
      PROVE  FALSE
    <2> DEFINE d == [q EXCEPT !.st = s]
    <2>1. d.st = s /\ req' = [req EXCEPT ![r] = d]
        BY Zenon, <1>3 DEF Request
    <2> HIDE DEF d
    <2>2. req'[r] = d
        BY Zenon, <1>1, <2>1
    <2> QED BY Zenon, <1>3, <2>1, <2>2
<1>4. ASSUME NEW o, NEW i \in Nat PROVE Tried(req[r], i, o) \in Request
    BY Zenon, <1>1, TriedIs
<1>5. CASE handleOneRequest(r) \/ handleH2Stream(r)
    <2>1. PICK q : Fresh(q) /\ Begins(r, q)
        BY Zenon, <1>5, HandlerBegins
    <2> DEFINE s == IF up = "h1" THEN "send" ELSE "conn"
    <2>2. s # "sent"
        BY Zenon
    <2>3. q \in Request /\ (Finish(r, q, ups, cur, FALSE) \/ req' = [req EXCEPT ![r] = [q EXCEPT !.st = s]])
        BY Zenon, <2>1 DEF Fresh, Begins
    <2> HIDE DEF s
    <2> QED BY Zenon, <1>2, <1>3, <2>2, <2>3
<1>6. CASE H1Fallback(r)
    <2>1. CASE req' = [req EXCEPT ![r].st = "send", ![r].on = Len(ups'), ![r].fb = Len(ups')]
        <3>1. req'[r].st = "send"
            BY Zenon, <1>1, <2>1 DEF Request
        <3> QED BY Zenon, <3>1
    <2> QED BY Zenon, <1>1, <1>2, <1>6, <2>1 DEF H1Fallback
<1>7. CASE RoundTrip(r)
    <2>1. req[r].on \in Nat /\ "retry" # "sent"
        BY Zenon, <1>1, Fields
    <2> QED BY Zenon, <1>2, <1>3, <1>4, <1>7, <2>1 DEF RoundTrip
<1>8. CASE Retry(r)
    <2>1. Len(ups) + 1 \in Nat
        BY <1>1
    <2> QED BY Zenon, <1>1, <1>2, <1>4, <1>8, <2>1 DEF Retry
<1>9. CASE StreamEnds(r)
    BY Zenon, <1>1, <1>2, <1>9 DEF StreamEnds
<1> QED BY Zenon, <1>5, <1>6, <1>7, <1>8, <1>9 DEF RequestStep

\* A stream starts on a connection that is not closed.
LEMMA SentOnOpen ==
    ASSUME Inv, NEW r \in Req, currentConn(r), req'[r].st = "sent"
    PROVE  ups'[req'[r].on].st # "closed"
<1>1. req \in [Req -> Request] /\ req[r] \in Request /\ Active(r)
    BY Zenon DEF Inv, TypeOK, currentConn, Active
<1>2. ASSUME NEW i, req' = [req EXCEPT ![r].st = "sent", ![r].on = i, ![r].wrote = {i}]
      PROVE  req'[r].on = i
    BY Zenon, <1>1, <1>2 DEF Request
<1>3. CASE cur # 0 /\ ups[cur].st = "open" /\ ups' = ups
           /\ req' = [req EXCEPT ![r].st = "sent", ![r].on = cur, ![r].wrote = {cur}]
    <2>1. req'[r].on = cur
        BY Zenon, <1>2, <1>3
    <2> QED BY Zenon, <1>3, <2>1
<1>4. ~Finish(r, req[r], Stale(ups), 0, FALSE)
    <2> SUFFICES ASSUME Finish(r, req[r], Stale(ups), 0, FALSE) PROVE FALSE
        BY Zenon
    <2> DEFINE d == [req[r] EXCEPT !.st = "done"]
    <2>1. d.st = "done" /\ req' = [req EXCEPT ![r] = d]
        BY Zenon, <1>1 DEF Request, Finish
    <2> HIDE DEF d
    <2>2. req'[r] = d
        BY Zenon, <1>1, <2>1
    <2> QED BY Zenon, <2>1, <2>2
<1>5. CASE /\ MayDial /\ ups' = Stale(Opened(dst, "open")) /\ cur' = Len(ups')
           /\ req' = [req EXCEPT ![r].st = "sent", ![r].on = cur', ![r].wrote = {cur'}]
    <2> DEFINE vs == Opened(dst, "open")
               n == Len(ups) + 1
    <2>1. /\ vs \in Seq(Upstream) /\ Len(vs) = n /\ vs[n].st = "open"
        <3>1. "open" \in {"open", "closed"}
            BY Zenon
        <3> QED BY Zenon, <1>1, <1>5, <3>1, DialedFor
    <2>2. ups' = Stale(vs)
        BY Zenon, <1>5
    <2> HIDE DEF vs
    <2>3. cur \in 0 .. Len(vs) /\ n \in 1 .. Len(vs)
        <3>1. cur \in 0 .. Len(ups) /\ Len(ups) \in Nat
            BY Zenon, <1>1, Handling
        <3> QED BY <2>1, <3>1
    <2>4. Same(vs, ups') /\ (ups'[n].st = "closed" => vs[n].st = "closed")
        BY Zenon, <2>1, <2>2, <2>3, StaleIs
    <2>5. req'[r].on = n
        <3>1. req'[r].on = cur'
            BY Zenon, <1>2, <1>5
        <3>2. Len(ups') = Len(vs)
            BY Zenon, <2>4 DEF Same
        <3> QED BY Zenon, <1>5, <2>1, <3>1, <3>2
    <2> HIDE DEF n
    <2> QED BY Zenon, <2>1, <2>4, <2>5
<1> QED BY Zenon, <1>3, <1>4, <1>5 DEF currentConn

\* StreamsSurvive: while the client stays, a stream in flight loses its upstream
\* connection to the origin or to the end of a drain, never to another stream;
\* currentConn leaves the one it replaces to drain.
THEOREM ReconnectsAreGraceful == Spec => []StreamsSurvive
<1>1. Init => StreamsSurvive
    <2> SUFFICES ASSUME Init PROVE StreamsSurvive
        BY Zenon
    <2>1. \A r \in Req : req[r].st = "new"
        BY Fields DEF Init
    <2> QED BY Zenon, <2>1 DEF StreamsSurvive
<1>2. Inv /\ StreamsSurvive /\ [Next]_vars => StreamsSurvive'
    <2> SUFFICES ASSUME Inv, StreamsSurvive, [Next]_vars, NEW r \in Req, req'[r].st = "sent",
                        ups'[req'[r].on].st = "closed", pc' # "closed"
                 PROVE  ups'[req'[r].on].lost # "no"
        BY Zenon DEF StreamsSurvive
    <2> DEFINE o == req[r].on
    <2>1. ASSUME req[r].st = "sent", req'[r] = req[r], pc # "closed",
                 ups[o].lost # "no" => ups'[o].lost # "no", ups'[o].st = "closed" => ups[o].st = "closed"
          PROVE  ups'[req'[r].on].lost # "no"
        BY Zenon, <2>1 DEF StreamsSurvive
    <2>2. ASSUME req' = req
          PROVE  /\ req[r].st = "sent" /\ req'[r] = req[r] /\ o \in 1 .. Len(ups)
                 /\ pc \in {"relay", "closed"} /\ ups \in Seq(Upstream) /\ cur \in 0 .. Len(ups)
        BY Zenon, <2>2, Sent
    <2>3. CASE UNCHANGED vars
        <3>1. req' = req /\ ups' = ups /\ pc' = pc
            BY Zenon, <2>3 DEF vars
        <3> QED BY Zenon, <2>1, <2>2, <3>1
    <2>4. CASE Serve \/ serveTransparent \/ Lookup \/ checkAuth \/ LookupConn
               \/ serveTransparentOpaqueMITM \/ resolveAndPin
        <3>1. pc \notin {"relay", "closed"} /\ req' = req
            BY Zenon, <2>4 DEF Serve, serveTransparent, Lookup, checkAuth, LookupConn,
                   serveTransparentOpaqueMITM, resolveAndPin, NoUpstream, Return, Page
        <3> QED BY Zenon, <2>2, <3>1
    <2>5. CASE Probe \/ Hello \/ rawSplice \/ SpliceEnds \/ Terminate \/ terminateFailed
               \/ newUpstreamH2ClientConn \/ DialPlain
        <3>1. pc \notin {"relay", "closed"} /\ req' = req
            BY Zenon, <2>5 DEF Probe, Hello, rawSplice, SpliceEnds, Terminate, terminateFailed,
                   Fallback, newUpstreamH2ClientConn, DialPlain, NoUpstream, Return, Page
        <3> QED BY Zenon, <2>2, <3>1
    <2>6. CASE ClientLeaves
        BY Zenon, <2>6 DEF ClientLeaves, Goto
    <2>7. CASE OriginStops
        <3>1. req' = req /\ pc' = pc /\ cur # 0 /\ ups' = [ups EXCEPT ![cur].usable = FALSE]
            BY Zenon, <2>7 DEF OriginStops
        <3>2. cur \in 1 .. Len(ups)
            BY <2>2, <3>1
        <3>3. Same(ups, ups') /\ \A j \in 1 .. Len(ups) : ups'[j].st = ups[j].st
            BY Zenon, <2>2, <3>1, <3>2, UpdatedUsable
        <3>4. Relost(ups, ups')
            BY Zenon, <3>3, SameRelost
        <3> QED BY Zenon, <2>1, <2>2, <3>1, <3>3, <3>4 DEF Relost
    <2>8. ASSUME NEW p \in Req, RequestStep(p) PROVE ups'[req'[r].on].lost # "no"
        <3>1. pc' \in {pc, "closed"} /\ (p # r => req'[r] = req[r])
            BY Zenon, <2>8, RequestKeeps
        <3>2. CASE p # r
            <4>1. req'[r] = req[r] /\ req[r].st = "sent" /\ pc # "closed"
                BY Zenon, <3>1, <3>2
            <4>2. Holds(ups, o)
                BY Zenon, <2>8, <4>1, RequestSevers
            <4> QED BY Zenon, <2>1, <4>1, <4>2 DEF Holds
        <3>3. CASE p = r
            BY Zenon, <2>8, <3>3, OnlyCurrentConn, SentOnOpen
        <3> QED BY Zenon, <3>2, <3>3
    <2>9. ASSUME NEW i \in 1 .. Len(ups), OriginBreaks(i) PROVE ups'[req'[r].on].lost # "no"
        <3>1. req' = req /\ pc' = pc /\ ups' = Broken(ups, i)
            BY Zenon, <2>9 DEF OriginBreaks, Broken
        <3>2. Relost(ups, ups') /\ \A j \in 1 .. Len(ups) : ups'[j].st = ups[j].st
            BY Zenon, <2>2, <3>1, BrokenIs
        <3> QED BY Zenon, <2>1, <2>2, <3>1, <3>2 DEF Relost
    <2>10. ASSUME NEW i \in 1 .. Len(ups), DrainExpires(i) PROVE ups'[req'[r].on].lost # "no"
        <3>1. req' = req /\ pc' = pc /\ ups' = Expired(ups, i)
            BY Zenon, <2>10 DEF DrainExpires, Expired
        <3>2. /\ Relost(ups, ups') /\ ups'[i].lost # "no" /\ ups'[i].st = "closed"
              /\ \A j \in 1 .. Len(ups) : j # i => ups'[j].st = ups[j].st
            <4>1. ups' = Expired(ups, i) /\ ups \in Seq(Upstream)
                BY Zenon, <2>2, <3>1
            <4> QED BY <4>1, ExpiredIs
        <3>3. CASE o = i
            BY Zenon, <2>2, <3>1, <3>2, <3>3
        <3>4. CASE o # i
            BY Zenon, <2>1, <2>2, <3>1, <3>2, <3>4 DEF Relost
        <3> QED BY Zenon, <3>3, <3>4
    <2>11. ASSUME NEW i \in 1 .. Len(ups), Drained(i) PROVE ups'[req'[r].on].lost # "no"
        <3>1. /\ req' = req /\ pc' = pc /\ ups' = Close(ups, i) /\ (~Carries(i) \/ ups[i].lost = "origin")
              /\ ups[i].st = "draining"
            BY Zenon, <2>11 DEF Drained
        <3>2. i \in 0 .. Len(ups)
            OBVIOUS
        <3>3. /\ Same(ups, ups')
              /\ \A j \in 1 .. Len(ups) : ups'[j].st = IF j = i THEN "closed" ELSE ups[j].st
            BY Zenon, <2>2, <3>1, <3>2, CloseIs
        <3>4. CASE o = i
            <4>1. ups[o].lost = "origin"
                BY Zenon, <2>2, <3>1, <3>4 DEF Carries
            <4>2. ups'[o].lost = "origin" /\ "origin" # "no"
                BY Zenon, <2>2, <3>1, <3>3, <4>1 DEF Same
            <4> QED BY Zenon, <2>2, <3>1, <4>2
        <3>5. CASE o # i
            <4>1. ups'[o].lost = ups[o].lost /\ ups'[o].st = ups[o].st
                BY Zenon, <2>2, <3>1, <3>3, <3>5 DEF Same
            <4> QED BY Zenon, <2>1, <2>2, <3>1, <4>1
        <3> QED BY Zenon, <3>4, <3>5
    <2> QED BY Zenon, <2>3, <2>4, <2>5, <2>6, <2>7, <2>8, <2>9, <2>10, <2>11 DEF Next, RequestStep
<1> QED BY Inductive, <1>1, <1>2, PTL DEF Spec

\* OneChannel: no page in the clear after "200 Connection established", and nothing
\* more once terminateFailed has found the client's own handshake broken.
THEOREM OneChannelOnly == Spec => OneChannel
<1> DEFINE A == /\ told = "established" => told' # "page"
                /\ told = "desync" => told' = "desync"
<1>1. Inv /\ [Next]_vars => [A]_vars
    <2> SUFFICES ASSUME Inv, Next PROVE A
        BY Zenon
    <2>1. /\ told = "established" => pc \in {"hello", "tunnel", "failed", "closed"} \cup Serving
          /\ told = "desync" => pc \in {"failed", "closed"}
        BY Zenon DEF Inv, Channel
    <2>2. ASSUME told' = told PROVE A
        BY Zenon, <2>2
    <2>3. CASE Serve \/ serveTransparent \/ Lookup \/ checkAuth \/ LookupConn
               \/ serveTransparentOpaqueMITM \/ resolveAndPin \/ Probe \/ DialPlain
        BY Zenon, <2>1, <2>3 DEF Serve, serveTransparent, Lookup, checkAuth, LookupConn, Serving,
                          serveTransparentOpaqueMITM, resolveAndPin, Probe, DialPlain
    <2>4. CASE Hello \/ terminateFailed
        BY Zenon, <2>1, <2>4 DEF Hello, terminateFailed, Fallback, Return, Goto
    <2>5. CASE rawSplice \/ SpliceEnds \/ ClientLeaves \/ OriginStops
        BY Zenon, <2>2, <2>5 DEF rawSplice, SpliceEnds, ClientLeaves, OriginStops, Return, Goto
    <2>6. CASE Terminate \/ newUpstreamH2ClientConn
        BY Zenon, <2>1, <2>6 DEF Terminate, newUpstreamH2ClientConn, Goto
    <2>7. CASE \E r \in Req : RequestStep(r)
        BY Zenon, <2>2, <2>7, RequestKeeps
    <2>8. CASE \E i \in 1 .. Len(ups) : OriginBreaks(i) \/ Drained(i) \/ DrainExpires(i)
        BY Zenon, <2>2, <2>8 DEF OriginBreaks, Drained, DrainExpires
    <2> QED BY Zenon, <2>2, <2>3, <2>4, <2>5, <2>6, <2>7, <2>8 DEF Next, RequestStep
<1>2. OneChannel <=> [][A]_vars
    BY Zenon DEF OneChannel
<1> QED BY Inductive, <1>1, <1>2, PTL DEF Spec
=============================================================================
