--------------------------- MODULE Process_proofs ---------------------------
(***************************************************************************)
(* Proofs about Process and the splice in it (Relay), for any listeners    *)
(* and any number of chunks either way.                                    *)
(***************************************************************************)
EXTENDS Process, SequenceTheorems, TLAPS

-----------------------------------------------------------------------------
(* The inductive invariant *)

\* The chunks of one direction, between the sender and the receiver: numbered
\* on from what the receiver got, with none missing up to the last one sent
\* while the sender's connection holds.
Numbered(q, n) == \A i \in 1 .. Len(q) : q[i] = n + i

InOrder(g, h, b, w) ==
    /\ Numbered(g, 0)
    /\ Numbered(h, Len(g))
    /\ Numbered(b, Len(g) + Len(h))
    /\ Numbered(w, Len(g) + Len(h) + Len(b))

Total(g, h, b, w) == Len(g) + Len(h) + Len(b) + Len(w)

Line(s) ==
    LET d == Other(s) IN
    copy[s] \in {"none", "read", "write"} =>
        /\ InOrder(got[d], hold[s], buf[s], wire[s])
        /\ ~rst[s] => Total(got[d], hold[s], buf[s], wire[s]) = sent[s]

\* The copy loop holds a chunk exactly between its read and its write.
Loop(s) ==
    /\ copy[s] = "none" <=> splice \in {"idle", "request", "dialed"}
    /\ splice = "closed" => copy[s] = "done"
    /\ IF copy[s] = "write" THEN Len(hold[s]) = 1 ELSE hold[s] = <<>>

\* What got across is in order, and its end is told only after all of it.
Across(s) ==
    LET d == Other(s) IN
    /\ Numbered(got[d], 0)
    /\ eof[d] => copy[s] = "done"
    /\ copy[s] = "half" \/ eof[d] =>
          (fin[s] /\ Len(got[d]) = sent[s]) \/ \E p \in Side : rst[p]

Directions == \A s \in Side : Line(s) /\ Loop(s) /\ Across(s)

\* run starts the control API and the listeners only after it saw a table.
Seeded == (main \in {"control", "bind"} \/ loops # {}) => table

Inv == TypeOK /\ Directions /\ Seeded
-----------------------------------------------------------------------------
(* What the operators do *)

LEMMA OtherSide ==
    /\ Other("client") = "upstream" /\ Other("upstream") = "client"
    /\ \A s \in Side : Other(s) \in Side /\ Other(s) # s /\ Other(Other(s)) = s
    /\ \A s, t \in Side : t # s => t = Other(s)
<1>1. Other("client") = "upstream"
    BY DEF Other, Side
<1>2. Other("upstream") = "client"
    BY DEF Other, Side
<1> QED BY <1>1, <1>2 DEF Side

LEMMA NumberedAppend ==
    ASSUME NEW q \in Seq(Nat), NEW m \in Nat, NEW x, x = m + Len(q) + 1, Numbered(q, m)
    PROVE  /\ Append(q, x) \in Seq(Nat) /\ Len(Append(q, x)) = Len(q) + 1
           /\ Numbered(Append(q, x), m)
<1> DEFINE v == Append(q, x)
<1>1. x \in Nat /\ Len(q) \in Nat
    OBVIOUS
<1>2. v \in Seq(Nat) /\ Len(v) = Len(q) + 1 /\ v[Len(q) + 1] = x
    BY <1>1
<1>3. \A i \in 1 .. Len(q) : v[i] = q[i]
    OBVIOUS
<1> HIDE DEF v
<1>4. ASSUME NEW i \in 1 .. Len(v) PROVE v[i] = m + i
    <2>1. CASE i = Len(q) + 1
        BY <1>1, <1>2, <2>1
    <2>2. CASE i # Len(q) + 1
        <3>1. i \in 1 .. Len(q)
            BY <1>1, <1>2, <2>2
        <3> QED BY <1>3, <3>1 DEF Numbered
    <2> QED BY <2>1, <2>2
<1> QED BY <1>2, <1>4 DEF Numbered, v

LEMMA NumberedTail ==
    ASSUME NEW q \in Seq(Nat), NEW m \in Nat, q # <<>>, Numbered(q, m)
    PROVE  /\ Head(q) = m + 1 /\ Tail(q) \in Seq(Nat) /\ Len(Tail(q)) = Len(q) - 1
           /\ Len(q) \in Nat /\ Numbered(Tail(q), m + 1)
<1> DEFINE t == Tail(q)
<1>1. /\ Len(q) \in Nat /\ Len(q) >= 1 /\ Head(q) = q[1]
      /\ t \in Seq(Nat) /\ Len(t) = Len(q) - 1 /\ \A i \in 1 .. Len(t) : t[i] = q[i + 1]
    OBVIOUS
<1> HIDE DEF t
<1>2. q[1] = m + 1
    BY <1>1 DEF Numbered
<1>3. ASSUME NEW i \in 1 .. Len(t) PROVE t[i] = m + 1 + i
    <2>1. i + 1 \in 1 .. Len(q)
        BY <1>1
    <2>2. q[i + 1] = m + (i + 1)
        BY <2>1 DEF Numbered
    <2> QED BY <1>1, <2>2
<1> QED BY <1>1, <1>2, <1>3 DEF Numbered, t

\* A chunk is sent, or leaves one queue for the end of the next one.
LEMMA OrderSend ==
    ASSUME NEW g \in Seq(Nat), NEW h \in Seq(Nat), NEW b \in Seq(Nat), NEW w \in Seq(Nat),
           InOrder(g, h, b, w)
    PROVE  LET x == Total(g, h, b, w) + 1 IN
           /\ InOrder(g, h, b, Append(w, x))
           /\ Total(g, h, b, Append(w, x)) = x
<1> DEFINE m == Len(g) + Len(h) + Len(b)
           x == Total(g, h, b, w) + 1
<1>1. m \in Nat /\ x = m + Len(w) + 1
    BY DEF Total
<1>2. Numbered(w, m)
    BY DEF InOrder
<1>3. Len(Append(w, x)) = Len(w) + 1 /\ Numbered(Append(w, x), m)
    BY <1>1, <1>2, NumberedAppend
<1>4. InOrder(g, h, b, Append(w, x))
    BY <1>3 DEF InOrder
<1>5. Total(g, h, b, Append(w, x)) = x
    BY <1>1, <1>3 DEF Total
<1> QED BY <1>4, <1>5

LEMMA OrderReadAhead ==
    ASSUME NEW g \in Seq(Nat), NEW h \in Seq(Nat), NEW b \in Seq(Nat), NEW w \in Seq(Nat),
           InOrder(g, h, b, w), w # <<>>
    PROVE  /\ InOrder(g, h, Append(b, Head(w)), Tail(w))
           /\ Total(g, h, Append(b, Head(w)), Tail(w)) = Total(g, h, b, w)
<1> DEFINE m == Len(g) + Len(h)
           v == Append(b, Head(w))
<1>1. m \in Nat /\ Len(b) \in Nat /\ Numbered(b, m) /\ Numbered(w, m + Len(b))
    BY DEF InOrder
<1>2. /\ Head(w) = m + Len(b) + 1 /\ Len(Tail(w)) = Len(w) - 1 /\ Len(w) \in Nat
      /\ Numbered(Tail(w), m + Len(b) + 1)
    BY <1>1, NumberedTail
<1>3. Len(v) = Len(b) + 1 /\ Numbered(v, m)
    BY <1>1, <1>2, NumberedAppend
<1>4. m + Len(v) = m + Len(b) + 1
    BY <1>1, <1>3
<1>5. InOrder(g, h, v, Tail(w))
    <2>1. Numbered(Tail(w), m + Len(v))
        BY Zenon, <1>2, <1>4
    <2> QED BY Zenon, <1>3, <2>1 DEF InOrder
<1>6. Total(g, h, v, Tail(w)) = Total(g, h, b, w)
    <2> HIDE DEF v
    <2> QED BY <1>1, <1>2, <1>3 DEF Total
<1> QED BY <1>5, <1>6

LEMMA OrderFetchBuf ==
    ASSUME NEW g \in Seq(Nat), NEW b \in Seq(Nat), NEW w \in Seq(Nat),
           InOrder(g, <<>>, b, w), b # <<>>
    PROVE  /\ InOrder(g, <<Head(b)>>, Tail(b), w)
           /\ Total(g, <<Head(b)>>, Tail(b), w) = Total(g, <<>>, b, w)
<1> DEFINE h == <<Head(b)>>
<1>1. Len(g) \in Nat /\ Len(g) + Len(<<>>) = Len(g)
    OBVIOUS
<1>2. Numbered(g, 0) /\ Numbered(b, Len(g)) /\ Numbered(w, Len(g) + Len(b))
    BY <1>1 DEF InOrder
<1>3. /\ Head(b) = Len(g) + 1 /\ Len(Tail(b)) = Len(b) - 1 /\ Len(b) \in Nat
      /\ Numbered(Tail(b), Len(g) + 1)
    BY <1>1, <1>2, NumberedTail
<1>4. Len(h) = 1 /\ h[1] = Len(g) + 1
    BY <1>3
<1> HIDE DEF h
<1>5. Numbered(h, Len(g))
    BY <1>4 DEF Numbered
<1>6. Len(g) + Len(h) = Len(g) + 1 /\ Len(g) + Len(h) + Len(Tail(b)) = Len(g) + Len(b)
    BY <1>1, <1>3, <1>4
<1>7. InOrder(g, h, Tail(b), w)
    <2>1. Numbered(Tail(b), Len(g) + Len(h)) /\ Numbered(w, Len(g) + Len(h) + Len(Tail(b)))
        BY Zenon, <1>2, <1>3, <1>6
    <2> QED BY Zenon, <1>2, <1>5, <2>1 DEF InOrder
<1>8. Total(g, h, Tail(b), w) = Total(g, <<>>, b, w)
    BY Zenon, <1>1, <1>6 DEF Total
<1> QED BY <1>7, <1>8 DEF h

LEMMA OrderFetchWire ==
    ASSUME NEW g \in Seq(Nat), NEW w \in Seq(Nat), InOrder(g, <<>>, <<>>, w), w # <<>>
    PROVE  /\ InOrder(g, <<Head(w)>>, <<>>, Tail(w))
           /\ Total(g, <<Head(w)>>, <<>>, Tail(w)) = Total(g, <<>>, <<>>, w)
<1> DEFINE h == <<Head(w)>>
<1>1. Len(g) \in Nat /\ Len(<<>>) = 0
    OBVIOUS
<1>2. Numbered(g, 0) /\ Numbered(w, Len(g))
    BY <1>1 DEF InOrder
<1>3. /\ Head(w) = Len(g) + 1 /\ Len(Tail(w)) = Len(w) - 1 /\ Len(w) \in Nat
      /\ Numbered(Tail(w), Len(g) + 1)
    BY <1>1, <1>2, NumberedTail
<1>4. Len(h) = 1 /\ h[1] = Len(g) + 1
    BY <1>3
<1> HIDE DEF h
<1>5. Numbered(h, Len(g)) /\ Numbered(<<>>, Len(g) + Len(h))
    BY <1>4 DEF Numbered
<1>6. Len(g) + Len(h) + Len(<<>>) = Len(g) + 1
    BY <1>1, <1>4
<1>7. InOrder(g, h, <<>>, Tail(w))
    <2>1. Numbered(Tail(w), Len(g) + Len(h) + Len(<<>>))
        BY Zenon, <1>3, <1>6
    <2> QED BY Zenon, <1>2, <1>5, <2>1 DEF InOrder
<1>8. Total(g, h, <<>>, Tail(w)) = Total(g, <<>>, <<>>, w)
    <2>1. Total(g, h, <<>>, Tail(w)) = Len(g) + 1 + (Len(w) - 1)
        BY Zenon, <1>3, <1>6 DEF Total
    <2>2. Total(g, <<>>, <<>>, w) = Len(g) + Len(w)
        BY <1>1 DEF Total
    <2>3. Len(g) \in Nat /\ Len(w) \in Nat
        BY <1>1, <1>3
    <2> QED BY <2>1, <2>2, <2>3
<1> QED BY <1>7, <1>8 DEF h

LEMMA OrderDeliver ==
    ASSUME NEW g \in Seq(Nat), NEW h \in Seq(Nat), NEW b \in Seq(Nat), NEW w \in Seq(Nat),
           InOrder(g, h, b, w), Len(h) = 1
    PROVE  /\ InOrder(g \o h, <<>>, b, w)
           /\ Total(g \o h, <<>>, b, w) = Total(g, h, b, w)
<1> DEFINE v == g \o h
<1>1. Len(g) \in Nat /\ Len(<<>>) = 0 /\ Len(b) \in Nat /\ Len(w) \in Nat
    OBVIOUS
<1>2. /\ Len(v) = Len(g) + 1 /\ v[Len(g) + 1] = h[1]
      /\ \A i \in 1 .. Len(g) : v[i] = g[i]
    <2>1. Len(v) = Len(g) + Len(h)
        BY Zenon, ConcatProperties
    <2>2. ASSUME NEW i \in 1 .. Len(g) PROVE v[i] = g[i]
        BY <1>1, ConcatProperties
    <2>3. Len(g) + 1 \in 1 .. Len(g) + Len(h) /\ ~(Len(g) + 1 <= Len(g)) /\ (Len(g) + 1) - Len(g) = 1
        BY <1>1
    <2>4. v[Len(g) + 1] = h[(Len(g) + 1) - Len(g)]
        BY Zenon, <2>3, ConcatProperties
    <2> QED BY <2>1, <2>2, <2>3, <2>4
<1> HIDE DEF v
<1>3. h[1] = Len(g) + 1 /\ Numbered(g, 0)
    BY DEF InOrder, Numbered
<1>4. ASSUME NEW i \in 1 .. Len(v) PROVE v[i] = 0 + i
    <2>1. CASE i = Len(g) + 1
        BY <1>1, <1>2, <1>3, <2>1
    <2>2. CASE i # Len(g) + 1
        <3>1. i \in 1 .. Len(g)
            <4>1. Len(v) = Len(g) + 1
                BY Zenon, <1>2
            <4>2. Len(g) \in Nat
                OBVIOUS
            <4> QED BY <2>2, <4>1, <4>2
        <3>2. g[i] = 0 + i
            BY <1>3, <3>1 DEF Numbered
        <3> QED BY Zenon, <1>2, <3>1, <3>2
    <2> QED BY <2>1, <2>2
<1>5. Numbered(v, 0) /\ Numbered(<<>>, Len(v))
    BY <1>1, <1>4 DEF Numbered
<1>6. Len(v) + Len(<<>>) = Len(g) + Len(h)
    BY <1>1, <1>2
<1>7. InOrder(v, <<>>, b, w)
    <2>1. Numbered(b, Len(v) + Len(<<>>)) /\ Numbered(w, Len(v) + Len(<<>>) + Len(b))
        BY Zenon, <1>6 DEF InOrder
    <2> QED BY Zenon, <1>5, <2>1 DEF InOrder
<1>8. Total(v, <<>>, b, w) = Total(g, h, b, w)
    BY Zenon, <1>1, <1>6 DEF Total
<1> QED BY <1>7, <1>8 DEF v
-----------------------------------------------------------------------------
(* The steps of the splice *)

LEMMA InitInv == Init => Inv
<1> SUFFICES ASSUME Init PROVE Inv
    OBVIOUS
<1> USE DEF Init, RelayInit
<1>1. RelayTypeOK
    <2>1. \A s \in Side : MaxChunks[s] \in Nat /\ Other(s) \in Side
        BY ChunksAssumption, OtherSide
    <2> QED BY <2>1 DEF RelayTypeOK, Chunks
<1>2. TypeOK
    BY <1>1, ListenersAssumption DEF TypeOK
<1>3. ASSUME NEW s \in Side PROVE Line(s) /\ Loop(s) /\ Across(s)
    <2>1. Other(s) \in Side
        BY OtherSide
    <2>2. Line(s)
        BY <2>1 DEF Line, InOrder, Numbered, Total
    <2>3. Loop(s)
        BY DEF Loop
    <2>4. Across(s)
        BY <2>1 DEF Across, Numbered
    <2> QED BY <2>2, <2>3, <2>4
<1>4. Seeded
    BY DEF Seeded
<1> QED BY <1>2, <1>3, <1>4 DEF Inv, Directions

LEMMA Queues ==
    ASSUME RelayTypeOK, NEW s \in Side
    PROVE  /\ wire[s] \in Seq(Nat) /\ buf[s] \in Seq(Nat) /\ hold[s] \in Seq(Nat)
           /\ got[s] \in Seq(Nat) /\ got[Other(s)] \in Seq(Nat)
           /\ sent[s] \in Nat /\ MaxChunks[s] \in Nat /\ Other(s) \in Side
           /\ copy[s] \in {"none", "read", "write", "half", "done"}
<1>1. Other(s) \in Side
    BY OtherSide
<1>2. /\ wire \in [Side -> Seq(Nat)] /\ buf \in [Side -> Seq(Nat)]
      /\ hold \in [Side -> Seq(Nat)] /\ got \in [Side -> Seq(Nat)]
    BY DEF RelayTypeOK
<1>3. sent \in [Side -> Nat] /\ copy \in [Side -> {"none", "read", "write", "half", "done"}]
    BY DEF RelayTypeOK
<1> QED BY <1>1, <1>2, <1>3, ChunksAssumption

LEMMA Moves ==
    ASSUME NEW S, NEW q \in Seq(S)
    PROVE  /\ \A x \in S : Append(q, x) \in Seq(S) /\ <<x>> \in Seq(S)
           /\ q # <<>> => Head(q) \in S /\ Tail(q) \in Seq(S)
OBVIOUS

LEMMA StepSend ==
    ASSUME RelayTypeOK, Directions, NEW s \in Side, Send(s)
    PROVE  RelayTypeOK' /\ Directions'
<1> DEFINE d == Other(s)
<1>1. /\ sent \in [Side -> Nat] /\ wire \in [Side -> Seq(Nat)]
      /\ sent[s] \in Nat /\ MaxChunks[s] \in Nat /\ wire[s] \in Seq(Nat)
    BY Queues DEF RelayTypeOK
<1>2. /\ sent'[s] = sent[s] + 1 /\ wire'[s] = Append(wire[s], sent[s] + 1)
      /\ \A t \in Side \ {s} : sent'[t] = sent[t] /\ wire'[t] = wire[t]
    BY <1>1 DEF Send
<1>3. RelayTypeOK'
    <2>1. wire' \in [Side -> Seq(Nat)] /\ sent' \in [Side -> Nat]
        BY <1>1 DEF Send
    <2>2. \A t \in Side : sent'[t] <= MaxChunks[t] /\ wire'[t] \in Chunks(t)
        <3>1. wire[s] \in Seq(1 .. MaxChunks[s]) /\ sent[s] + 1 \in 1 .. MaxChunks[s]
            BY <1>1 DEF Send, RelayTypeOK, Chunks
        <3>2. wire'[s] \in Chunks(s)
            BY <1>2, <3>1, Moves DEF Chunks
        <3>3. \A t \in Side : sent[t] <= MaxChunks[t] /\ wire[t] \in Chunks(t)
            BY DEF RelayTypeOK
        <3>4. sent'[s] <= MaxChunks[s]
            BY <1>1, <1>2, <3>1
        <3> QED BY Zenon, <1>2, <3>2, <3>3, <3>4
    <2> QED BY <2>1, <2>2 DEF Send, RelayTypeOK
<1>4. ASSUME NEW t \in Side PROVE Line(t)'
    <2>1. CASE t # s
        <3>1. sent'[t] = sent[t] /\ wire'[t] = wire[t]
            BY <1>2, <2>1
        <3> QED BY <3>1 DEF Directions, Line, Send
    <2>2. CASE t = s
        <3>1. CASE copy[s] \in {"none", "read", "write"}
            <4>1. InOrder(got[d], hold[s], buf[s], wire[s])
                BY <3>1 DEF Directions, Line
            <4>2. Total(got[d], hold[s], buf[s], wire[s]) = sent[s]
                BY <3>1 DEF Directions, Line, Send
            <4>3. /\ InOrder(got[d], hold[s], buf[s], wire'[s])
                  /\ Total(got[d], hold[s], buf[s], wire'[s]) = sent'[s]
                BY <1>2, <4>1, <4>2, Queues, OrderSend
            <4> QED BY <2>2, <4>3 DEF Line, Send
        <3>2. CASE copy[s] \notin {"none", "read", "write"}
            BY <2>2, <3>2 DEF Line, Send
        <3> QED BY <3>1, <3>2
    <2> QED BY <2>1, <2>2
<1>5. ASSUME NEW t \in Side PROVE Loop(t)' /\ Across(t)'
    <2>1. Loop(t)'
        BY DEF Directions, Loop, Send
    <2>2. Across(t)'
        BY <1>2 DEF Directions, Across, Send
    <2> QED BY <2>1, <2>2
<1> QED BY <1>3, <1>4, <1>5 DEF Directions

LEMMA StepFinish ==
    ASSUME RelayTypeOK, Directions, NEW s \in Side, Finish(s)
    PROVE  RelayTypeOK' /\ Directions'
<1>1. fin \in [Side -> BOOLEAN]
    BY DEF RelayTypeOK
<1>2. fin' \in [Side -> BOOLEAN] /\ \A t \in Side : fin[t] => fin'[t]
    BY Zenon, <1>1 DEF Finish
<1>3. RelayTypeOK'
    BY <1>2 DEF Finish, RelayTypeOK
<1>4. ASSUME NEW t \in Side PROVE Line(t)' /\ Loop(t)' /\ Across(t)'
    <2>1. Line(t)'
        BY Zenon DEF Directions, Line, Finish
    <2>2. Loop(t)'
        BY Zenon DEF Directions, Loop, Finish
    <2>3. Across(t)'
        BY Zenon, <1>2 DEF Directions, Across, Finish
    <2> QED BY <2>1, <2>2, <2>3
<1> QED BY <1>3, <1>4 DEF Directions

LEMMA StepAbort ==
    ASSUME RelayTypeOK, Directions, NEW s \in Side, Abort(s)
    PROVE  RelayTypeOK' /\ Directions'
<1>1. /\ rst \in [Side -> BOOLEAN] /\ stalled \in [Side -> BOOLEAN]
      /\ wire \in [Side -> Seq(Nat)]
    BY DEF RelayTypeOK
<1>2. /\ rst' \in [Side -> BOOLEAN] /\ stalled' \in [Side -> BOOLEAN]
      /\ rst'[s] /\ \A t \in Side : t # s => rst'[t] = rst[t]
    BY Zenon, <1>1 DEF Abort
<1>3. /\ wire' \in [Side -> Seq(Nat)] /\ wire'[s] = <<>>
      /\ \A t \in Side : t # s => wire'[t] = wire[t]
    BY <1>1 DEF Abort
<1>4. RelayTypeOK'
    <2>1. \A t \in Side : wire'[t] \in Chunks(t)
        <3>1. <<>> \in Chunks(s) /\ \A t \in Side : wire[t] \in Chunks(t)
            BY DEF RelayTypeOK, Chunks
        <3> QED BY Zenon, <1>3, <3>1
    <2> QED BY <1>2, <1>3, <2>1 DEF Abort, RelayTypeOK
<1>5. ASSUME NEW t \in Side PROVE Line(t)' /\ Loop(t)' /\ Across(t)'
    <2>1. CASE t # s
        <3>1. rst'[t] = rst[t] /\ wire'[t] = wire[t]
            BY <1>2, <1>3, <2>1
        <3> QED BY Zenon, <1>2, <3>1 DEF Directions, Line, Loop, Across, Abort
    <2>2. CASE t = s
        <3>1. Line(t)'
            <4>1. Numbered(<<>>, Len(got[Other(s)]) + Len(hold[s]) + Len(buf[s]))
                BY DEF Numbered
            <4> QED BY Zenon, <1>2, <1>3, <2>2, <4>1 DEF Directions, Line, InOrder, Abort
        <3>2. Loop(t)'
            BY Zenon DEF Directions, Loop, Abort
        <3>3. Across(t)'
            BY Zenon, <1>2 DEF Directions, Across, Abort
        <3> QED BY <3>1, <3>2, <3>3
    <2> QED BY <2>1, <2>2
<1> QED BY <1>4, <1>5 DEF Directions

LEMMA StepStall ==
    ASSUME RelayTypeOK, Directions, NEW s \in Side, Stall(s)
    PROVE  RelayTypeOK' /\ Directions'
<1>1. stalled' \in [Side -> BOOLEAN]
    <2>1. stalled \in [Side -> BOOLEAN]
        BY DEF RelayTypeOK
    <2> QED BY <2>1 DEF Stall
<1>2. RelayTypeOK'
    BY <1>1 DEF Stall, RelayTypeOK
<1>3. ASSUME NEW t \in Side PROVE Line(t)' /\ Loop(t)' /\ Across(t)'
    <2>1. Line(t)' /\ Loop(t)'
        BY Zenon DEF Directions, Line, Loop, Stall
    <2>2. Across(t)'
        BY Zenon DEF Directions, Across, Stall
    <2> QED BY <2>1, <2>2
<1> QED BY <1>2, <1>3 DEF Directions

LEMMA StepReadAhead ==
    ASSUME RelayTypeOK, Directions, NEW s \in Side, ReadAhead(s)
    PROVE  RelayTypeOK' /\ Directions'
<1> DEFINE d == Other(s)
<1>1. wire \in [Side -> Seq(Nat)] /\ buf \in [Side -> Seq(Nat)]
    BY DEF RelayTypeOK
<1>2. /\ wire'[s] = Tail(wire[s]) /\ buf'[s] = Append(buf[s], Head(wire[s]))
      /\ \A t \in Side \ {s} : wire'[t] = wire[t] /\ buf'[t] = buf[t]
    BY <1>1 DEF ReadAhead
<1>3. RelayTypeOK'
    <2>1. wire'[s] \in Chunks(s) /\ buf'[s] \in Chunks(s)
        <3>1. wire[s] \in Chunks(s) /\ buf[s] \in Chunks(s) /\ wire[s] # <<>>
            BY DEF ReadAhead, RelayTypeOK
        <3>2. Head(wire[s]) \in 1 .. MaxChunks[s] /\ Tail(wire[s]) \in Chunks(s)
            BY Zenon, <3>1, Moves DEF Chunks
        <3>3. Append(buf[s], Head(wire[s])) \in Chunks(s)
            BY <3>1, <3>2, Moves DEF Chunks
        <3> QED BY <1>2, <3>2, <3>3
    <2>2. wire' \in [Side -> Seq(Nat)] /\ buf' \in [Side -> Seq(Nat)]
        BY <1>1 DEF ReadAhead
    <2>3. \A t \in Side : wire'[t] \in Chunks(t) /\ buf'[t] \in Chunks(t)
        <3>1. \A t \in Side : wire[t] \in Chunks(t) /\ buf[t] \in Chunks(t)
            BY DEF RelayTypeOK
        <3> QED BY Zenon, <1>2, <2>1, <3>1
    <2> QED BY <2>2, <2>3 DEF ReadAhead, RelayTypeOK, peers
<1>4. ASSUME NEW t \in Side PROVE Line(t)'
    <2>1. CASE t # s
        <3>1. wire'[t] = wire[t] /\ buf'[t] = buf[t]
            BY <1>2, <2>1
        <3> QED BY Zenon, <3>1 DEF Directions, Line, ReadAhead, peers
    <2>2. CASE t = s
        <3>1. copy[s] = "none"
            BY DEF Directions, Loop, ReadAhead
        <3>2. InOrder(got[d], hold[s], buf[s], wire[s])
            BY <3>1 DEF Directions, Line
        <3>3. /\ InOrder(got[d], hold[s], buf'[s], wire'[s])
              /\ Total(got[d], hold[s], buf'[s], wire'[s]) = Total(got[d], hold[s], buf[s], wire[s])
            BY <1>2, <3>2, Queues, OrderReadAhead DEF ReadAhead
        <3> QED BY Zenon, <2>2, <3>1, <3>3 DEF Directions, Line, ReadAhead, peers
    <2> QED BY <2>1, <2>2
<1>5. ASSUME NEW t \in Side PROVE Loop(t)' /\ Across(t)'
    BY Zenon DEF Directions, Loop, Across, ReadAhead, peers
<1> QED BY <1>3, <1>4, <1>5 DEF Directions

LEMMA StepClosed ==
    ASSUME RelayTypeOK, Directions, Closed
    PROVE  RelayTypeOK' /\ Directions'
<1>1. /\ wire' = [s \in Side |-> <<>>] /\ buf' = [s \in Side |-> <<>>]
      /\ hold' = [s \in Side |-> <<>>] /\ stalled' = [s \in Side |-> FALSE]
      /\ copy' = [s \in Side |-> "done"] /\ splice' = "closed"
      /\ UNCHANGED <<sent, fin, rst, got, eof>>
    BY Zenon DEF Closed
<1>2. RelayTypeOK'
    <2>1. \A s \in Side : <<>> \in Chunks(s) /\ Len(<<>>) <= 1 /\ <<>> \in Seq(Nat)
        BY DEF Chunks
    <2>2. {wire', buf', hold', got'} \subseteq [Side -> Seq(Nat)]
        BY <1>1, <2>1 DEF RelayTypeOK
    <2>3. \A s \in Side : /\ wire'[s] \in Chunks(s) /\ buf'[s] \in Chunks(s)
                          /\ hold'[s] \in Chunks(s) /\ Len(hold'[s]) <= 1
                          /\ got'[s] \in Chunks(Other(s))
        BY <1>1, <2>1 DEF RelayTypeOK
    <2>4. {fin', rst', stalled', eof'} \subseteq [Side -> BOOLEAN]
        BY <1>1 DEF RelayTypeOK
    <2> QED BY <1>1, <2>2, <2>3, <2>4 DEF RelayTypeOK
<1>3. ASSUME NEW s \in Side PROVE Line(s)' /\ Loop(s)' /\ Across(s)'
    <2>1. copy'[s] = "done" /\ hold'[s] = <<>> /\ splice' = "closed"
        BY <1>1
    <2>2. Line(s)' /\ Loop(s)'
        BY <2>1 DEF Line, Loop
    <2>3. Across(s)'
        BY Zenon, <1>1, <2>1 DEF Directions, Across
    <2> QED BY <2>2, <2>3
<1> QED BY <1>2, <1>3 DEF Directions

LEMMA StepHandler ==
    ASSUME RelayTypeOK, Directions, Handler
    PROVE  RelayTypeOK' /\ Directions'
<1>1. CASE Dial
    <2>1. RelayTypeOK'
        BY <1>1 DEF Dial, RelayTypeOK, peers
    <2>2. ASSUME NEW s \in Side PROVE Line(s)' /\ Loop(s)' /\ Across(s)'
        <3>1. Line(s)' /\ Across(s)'
            BY Zenon, <1>1 DEF Directions, Line, Across, Dial, peers
        <3>2. Loop(s)'
            BY <1>1 DEF Directions, Loop, Dial, peers
        <3> QED BY <3>1, <3>2
    <2> QED BY <2>1, <2>2 DEF Directions
<1>2. CASE Start
    <2>1. RelayTypeOK'
        BY <1>2 DEF Start, RelayTypeOK, peers
    <2>2. ASSUME NEW s \in Side PROVE Line(s)' /\ Loop(s)' /\ Across(s)'
        <3>1. copy[s] = "none" /\ copy'[s] = "read" /\ hold[s] = <<>>
            BY <1>2 DEF Directions, Loop, Start
        <3>2. Line(s)'
            BY Zenon, <1>2, <3>1 DEF Directions, Line, Start, peers
        <3>3. Loop(s)'
            BY <1>2, <3>1 DEF Loop, Start
        <3>4. Across(s)'
            <4>1. ~eof[Other(s)] /\ Numbered(got[Other(s)], 0)
                BY <3>1 DEF Directions, Across
            <4> QED BY <1>2, <3>1, <4>1 DEF Across, Start
        <3> QED BY <3>2, <3>3, <3>4
    <2> QED BY <2>1, <2>2 DEF Directions
<1>3. CASE Refuse \/ Close
    BY <1>3, StepClosed DEF Refuse, Close
<1> QED BY <1>1, <1>2, <1>3 DEF Handler

\* Fetch, from either of the two readers of the MultiReader.
LEMMA StepFetch ==
    ASSUME RelayTypeOK, Directions, NEW s \in Side, Fetch(s)
    PROVE  RelayTypeOK' /\ Directions'
<1> DEFINE d == Other(s)
<1>1. /\ wire \in [Side -> Seq(Nat)] /\ buf \in [Side -> Seq(Nat)]
      /\ hold \in [Side -> Seq(Nat)]
      /\ copy \in [Side -> {"none", "read", "write", "half", "done"}]
    BY DEF RelayTypeOK
<1>2. /\ copy[s] = "read" /\ hold[s] = <<>> /\ copy'[s] = "write"
      /\ InOrder(got[d], <<>>, buf[s], wire[s])
    <2>1. copy[s] = "read" /\ copy'[s] = "write"
        BY <1>1 DEF Fetch
    <2>2. hold[s] = <<>>
        BY <2>1 DEF Directions, Loop
    <2>3. InOrder(got[d], hold[s], buf[s], wire[s])
        BY <2>1 DEF Directions, Line
    <2> QED BY <2>1, <2>2, <2>3
<1>3. \A t \in Side \ {s} : /\ copy'[t] = copy[t] /\ hold'[t] = hold[t]
                            /\ buf'[t] = buf[t] /\ wire'[t] = wire[t]
    BY <1>1 DEF Fetch
<1>4. wire[s] \in Chunks(s) /\ buf[s] \in Chunks(s)
    BY DEF RelayTypeOK
<1>5. /\ hold'[s] \in Chunks(s) /\ Len(hold'[s]) = 1
      /\ buf'[s] \in Chunks(s) /\ wire'[s] \in Chunks(s)
      /\ InOrder(got[d], hold'[s], buf'[s], wire'[s])
      /\ Total(got[d], hold'[s], buf'[s], wire'[s]) = Total(got[d], hold[s], buf[s], wire[s])
    <2>1. CASE buf[s] # <<>>
        <3>1. hold'[s] = <<Head(buf[s])>> /\ buf'[s] = Tail(buf[s]) /\ wire'[s] = wire[s]
            BY <1>1, <2>1 DEF Fetch
        <3>2. hold'[s] \in Chunks(s) /\ Len(hold'[s]) = 1 /\ buf'[s] \in Chunks(s)
            BY Zenon, <1>4, <2>1, <3>1, Moves DEF Chunks
        <3> QED BY <1>2, <1>4, <2>1, <3>1, <3>2, Queues, OrderFetchBuf
    <2>2. CASE buf[s] = <<>>
        <3>1. /\ wire[s] # <<>> /\ hold'[s] = <<Head(wire[s])>> /\ wire'[s] = Tail(wire[s])
              /\ buf'[s] = buf[s]
            BY <1>1, <2>2 DEF Fetch
        <3>2. hold'[s] \in Chunks(s) /\ Len(hold'[s]) = 1 /\ wire'[s] \in Chunks(s)
            BY Zenon, <1>4, <3>1, Moves DEF Chunks
        <3>3. InOrder(got[d], <<>>, <<>>, wire[s])
            BY Zenon, <1>2, <2>2
        <3>4. /\ InOrder(got[d], hold'[s], <<>>, wire'[s])
              /\ Total(got[d], hold'[s], <<>>, wire'[s]) = Total(got[d], <<>>, <<>>, wire[s])
            BY <3>1, <3>3, Queues, OrderFetchWire
        <3> QED BY Zenon, <1>2, <1>4, <2>2, <3>1, <3>2, <3>4
    <2> QED BY <2>1, <2>2
<1>6. RelayTypeOK'
    <2>1. \A t \in Side : /\ hold'[t] \in Chunks(t) /\ Len(hold'[t]) <= 1
                          /\ buf'[t] \in Chunks(t) /\ wire'[t] \in Chunks(t)
        <3>1. \A t \in Side : /\ hold[t] \in Chunks(t) /\ Len(hold[t]) <= 1
                              /\ buf[t] \in Chunks(t) /\ wire[t] \in Chunks(t)
            BY DEF RelayTypeOK
        <3>2. Len(hold'[s]) <= 1
            BY <1>5
        <3> QED BY Zenon, <1>3, <1>5, <3>1, <3>2
    <2>2. {wire', buf', hold'} \subseteq [Side -> Seq(Nat)]
        <3>1. CASE buf[s] # <<>>
            <4>1. <<Head(buf[s])>> \in Seq(Nat) /\ Tail(buf[s]) \in Seq(Nat)
                BY <1>1, <3>1
            <4>2. /\ hold' = [hold EXCEPT ![s] = <<Head(buf[s])>>]
                  /\ buf' = [buf EXCEPT ![s] = Tail(buf[s])] /\ wire' = wire
                BY <3>1 DEF Fetch
            <4> QED BY Zenon, <1>1, <4>1, <4>2
        <3>2. CASE buf[s] = <<>>
            <4>1. <<Head(wire[s])>> \in Seq(Nat) /\ Tail(wire[s]) \in Seq(Nat)
                BY <1>1, <3>2 DEF Fetch
            <4>2. /\ hold' = [hold EXCEPT ![s] = <<Head(wire[s])>>]
                  /\ wire' = [wire EXCEPT ![s] = Tail(wire[s])] /\ buf' = buf
                BY <3>2 DEF Fetch
            <4> QED BY Zenon, <1>1, <4>1, <4>2
        <3> QED BY <3>1, <3>2
    <2>3. copy' \in [Side -> {"none", "read", "write", "half", "done"}]
        BY <1>1 DEF Fetch
    <2>4. UNCHANGED <<splice, sent, fin, rst, stalled, got, eof>>
        BY DEF Fetch, peers
    <2> QED BY <2>1, <2>2, <2>3, <2>4 DEF RelayTypeOK
<1>7. ASSUME NEW t \in Side PROVE Line(t)' /\ Loop(t)' /\ Across(t)'
    <2>0. UNCHANGED <<splice, sent, fin, rst, stalled, got, eof>>
        BY DEF Fetch, peers
    <2>1. CASE t # s
        <3>1. /\ copy'[t] = copy[t] /\ hold'[t] = hold[t]
              /\ buf'[t] = buf[t] /\ wire'[t] = wire[t]
            BY <1>3, <2>1
        <3> QED BY Zenon, <2>0, <3>1 DEF Directions, Line, Loop, Across
    <2>2. CASE t = s
        <3>1. Line(s)'
            BY Zenon, <2>0, <1>2, <1>5 DEF Directions, Line
        <3>2. Loop(s)'
            BY <2>0, <1>2, <1>5 DEF Directions, Loop
        <3>3. Across(s)'
            BY Zenon, <2>0, <1>2 DEF Directions, Across
        <3> QED BY <2>2, <3>1, <3>2, <3>3
    <2> QED BY <2>1, <2>2
<1> QED BY <1>6, <1>7 DEF Directions

LEMMA StepReadEnd ==
    ASSUME RelayTypeOK, Directions, NEW s \in Side, ReadEnd(s)
    PROVE  RelayTypeOK' /\ Directions'
<1> DEFINE d == Other(s)
<1>0. UNCHANGED <<splice, sent, fin, rst, stalled, wire, buf, hold, got, eof>>
    BY DEF ReadEnd, peers
<1>1. copy \in [Side -> {"none", "read", "write", "half", "done"}]
    BY DEF RelayTypeOK
<1>2. /\ copy[s] = "read" /\ copy'[s] = "half" /\ \A t \in Side \ {s} : copy'[t] = copy[t]
      /\ copy' \in [Side -> {"none", "read", "write", "half", "done"}]
    BY <1>1 DEF ReadEnd
<1>3. RelayTypeOK'
    BY <1>0, <1>2 DEF RelayTypeOK
<1>4. ASSUME ~rst[s] PROVE fin[s] /\ Len(got[d]) = sent[s]
    <2>1. fin[s] /\ buf[s] = <<>> /\ wire[s] = <<>>
        BY <1>4 DEF ReadEnd
    <2>2. hold[s] = <<>>
        BY <1>2 DEF Directions, Loop
    <2>3. Total(got[d], hold[s], buf[s], wire[s]) = sent[s]
        BY Zenon, <1>2, <1>4 DEF Directions, Line
    <2>4. Total(got[d], <<>>, <<>>, <<>>) = sent[s]
        BY Zenon, <2>1, <2>2, <2>3
    <2>5. Total(got[d], <<>>, <<>>, <<>>) = Len(got[d])
        BY Queues DEF Total
    <2> QED BY <2>1, <2>4, <2>5
<1>5. ASSUME NEW t \in Side PROVE Line(t)' /\ Loop(t)' /\ Across(t)'
    <2>1. CASE t # s
        <3>1. copy'[t] = copy[t]
            BY <1>2, <2>1
        <3> QED BY Zenon, <1>0, <3>1 DEF Directions, Line, Loop, Across
    <2>2. CASE t = s
        <3>1. Line(s)'
            BY <1>2 DEF Line
        <3>2. Loop(s)'
            BY <1>0, <1>2 DEF Directions, Loop
        <3>3. Across(s)'
            BY Zenon, <1>0, <1>2, <1>4 DEF Directions, Across
        <3> QED BY <2>2, <3>1, <3>2, <3>3
    <2> QED BY <2>1, <2>2
<1> QED BY <1>3, <1>5 DEF Directions

LEMMA StepDeliver ==
    ASSUME RelayTypeOK, Directions, NEW s \in Side, Deliver(s)
    PROVE  RelayTypeOK' /\ Directions'
<1> DEFINE d == Other(s)
<1>0. UNCHANGED <<splice, sent, fin, rst, stalled, wire, buf, eof>>
    BY DEF Deliver, peers
<1>1. /\ got \in [Side -> Seq(Nat)] /\ hold \in [Side -> Seq(Nat)]
      /\ copy \in [Side -> {"none", "read", "write", "half", "done"}]
    BY DEF RelayTypeOK
<1>2. d \in Side /\ d # s /\ Other(d) = s
    BY OtherSide
<1>3. /\ copy[s] = "write" /\ copy'[s] = "read" /\ hold'[s] = <<>>
      /\ got'[d] = got[d] \o hold[s] /\ got'[s] = got[s]
      /\ copy'[d] = copy[d] /\ hold'[d] = hold[d]
    BY <1>1, <1>2 DEF Deliver
<1>4. Len(hold[s]) = 1 /\ InOrder(got[d], hold[s], buf[s], wire[s])
    BY <1>3 DEF Directions, Line, Loop
<1>5. RelayTypeOK'
    <2>1. /\ got' \in [Side -> Seq(Nat)] /\ hold' \in [Side -> Seq(Nat)]
          /\ copy' \in [Side -> {"none", "read", "write", "half", "done"}]
        <3>1. got[d] \o hold[s] \in Seq(Nat) /\ <<>> \in Seq(Nat)
            BY <1>1, <1>2, ConcatProperties
        <3> QED BY <1>1, <1>2, <3>1 DEF Deliver
    <2>2. got'[d] \in Chunks(s)
        <3>1. got[d] \in Chunks(s) /\ hold[s] \in Chunks(s)
            BY <1>2 DEF RelayTypeOK
        <3> QED BY <1>3, <3>1, ConcatProperties DEF Chunks
    <2>3. \A t \in Side : /\ hold'[t] \in Chunks(t) /\ Len(hold'[t]) <= 1
                          /\ got'[t] \in Chunks(Other(t))
        <3>1. \A t \in Side : /\ hold[t] \in Chunks(t) /\ Len(hold[t]) <= 1
                              /\ got[t] \in Chunks(Other(t))
            BY DEF RelayTypeOK
        <3>2. <<>> \in Chunks(s) /\ Len(<<>>) <= 1
            BY DEF Chunks
        <3>3. \A t \in Side : t = s \/ t = d
            BY OtherSide
        <3> QED BY Zenon, <1>2, <1>3, <2>2, <3>1, <3>2, <3>3
    <2> QED BY <1>0, <2>1, <2>3 DEF RelayTypeOK
<1>6. /\ InOrder(got'[d], hold'[s], buf[s], wire[s])
      /\ Total(got'[d], hold'[s], buf[s], wire[s]) = Total(got[d], hold[s], buf[s], wire[s])
    BY <1>3, <1>4, Queues, OrderDeliver
<1>7. Line(s)' /\ Loop(s)' /\ Across(s)'
    <2>1. Line(s)'
        BY Zenon, <1>0, <1>3, <1>6 DEF Directions, Line
    <2>2. Loop(s)'
        BY <1>0, <1>3 DEF Directions, Loop
    <2>3. ~eof[d]
        BY <1>3 DEF Directions, Across
    <2>4. Across(s)'
        BY Zenon, <1>0, <1>3, <1>6, <2>3 DEF Across, InOrder
    <2> QED BY <2>1, <2>2, <2>4
<1>8. Line(d)' /\ Loop(d)' /\ Across(d)'
    BY Zenon, <1>0, <1>2, <1>3 DEF Directions, Line, Loop, Across
<1> QED
    <2>1. \A t \in Side : t = s \/ t = d
        BY OtherSide
    <2> QED BY Zenon, <1>5, <1>7, <1>8, <2>1 DEF Directions

LEMMA StepWriteEnd ==
    ASSUME RelayTypeOK, Directions, NEW s \in Side, WriteEnd(s)
    PROVE  RelayTypeOK' /\ Directions'
<1>0. UNCHANGED <<splice, sent, fin, rst, stalled, wire, buf, got, eof>>
    BY DEF WriteEnd, peers
<1>1. /\ hold \in [Side -> Seq(Nat)]
      /\ copy \in [Side -> {"none", "read", "write", "half", "done"}]
    BY DEF RelayTypeOK
<1>2. /\ copy[s] = "write" /\ copy'[s] = "half" /\ hold'[s] = <<>>
      /\ \A t \in Side \ {s} : copy'[t] = copy[t] /\ hold'[t] = hold[t]
    BY <1>1 DEF WriteEnd
<1>3. RelayTypeOK'
    <2>1. /\ copy' \in [Side -> {"none", "read", "write", "half", "done"}]
          /\ hold' \in [Side -> Seq(Nat)]
        BY <1>1 DEF WriteEnd
    <2>2. \A t \in Side : hold'[t] \in Chunks(t) /\ Len(hold'[t]) <= 1
        <3>1. \A t \in Side : hold[t] \in Chunks(t) /\ Len(hold[t]) <= 1
            BY DEF RelayTypeOK
        <3>2. <<>> \in Chunks(s) /\ Len(<<>>) <= 1
            BY DEF Chunks
        <3> QED BY Zenon, <1>2, <3>1, <3>2
    <2> QED BY <1>0, <2>1, <2>2 DEF RelayTypeOK
<1>4. \E p \in Side : rst[p]
    BY OtherSide DEF WriteEnd
<1>5. ASSUME NEW t \in Side PROVE Line(t)' /\ Loop(t)' /\ Across(t)'
    <2>1. CASE t # s
        <3>1. copy'[t] = copy[t] /\ hold'[t] = hold[t]
            BY <1>2, <2>1
        <3> QED BY Zenon, <1>0, <3>1 DEF Directions, Line, Loop, Across
    <2>2. CASE t = s
        <3>1. Line(s)'
            BY <1>2 DEF Line
        <3>2. Loop(s)'
            BY <1>0, <1>2 DEF Directions, Loop
        <3>3. Across(s)'
            BY Zenon, <1>0, <1>2, <1>4 DEF Directions, Across
        <3> QED BY <2>2, <3>1, <3>2, <3>3
    <2> QED BY <2>1, <2>2
<1> QED BY <1>3, <1>5 DEF Directions

LEMMA StepCloseWrite ==
    ASSUME RelayTypeOK, Directions, NEW s \in Side, CloseWrite(s)
    PROVE  RelayTypeOK' /\ Directions'
<1> DEFINE d == Other(s)
<1>0. UNCHANGED <<splice, sent, fin, rst, stalled, wire, buf, hold, got>>
    BY DEF CloseWrite, peers
<1>1. eof \in [Side -> BOOLEAN] /\ copy \in [Side -> {"none", "read", "write", "half", "done"}]
    BY DEF RelayTypeOK
<1>2. d \in Side /\ d # s /\ Other(d) = s
    BY OtherSide
<1>3. copy[s] = "half" /\ copy'[s] = "done" /\ copy'[d] = copy[d]
    BY <1>1, <1>2 DEF CloseWrite
<1>4. eof'[s] = eof[s] /\ eof' \in [Side -> BOOLEAN]
    BY Zenon, <1>1, <1>2 DEF CloseWrite
<1>5. RelayTypeOK'
    <2>1. copy' \in [Side -> {"none", "read", "write", "half", "done"}]
        BY <1>1 DEF CloseWrite
    <2> QED BY <1>0, <1>4, <2>1 DEF RelayTypeOK
<1>6. Line(s)' /\ Loop(s)' /\ Across(s)'
    <2>1. Line(s)'
        BY <1>3 DEF Line
    <2>2. Loop(s)'
        BY <1>0, <1>3 DEF Directions, Loop
    <2>3. Across(s)'
        BY Zenon, <1>0, <1>3 DEF Directions, Across
    <2> QED BY <2>1, <2>2, <2>3
<1>7. Line(d)' /\ Loop(d)' /\ Across(d)'
    BY Zenon, <1>0, <1>2, <1>3, <1>4 DEF Directions, Line, Loop, Across
<1> QED
    <2>1. \A t \in Side : t = s \/ t = d
        BY OtherSide
    <2> QED BY Zenon, <1>5, <1>6, <1>7, <2>1 DEF Directions

\* The steps of run, of the control API and of the listeners that leave the
\* splice alone.
LEMMA Untouched ==
    ASSUME RelayTypeOK, Directions, UNCHANGED relayVars
    PROVE  RelayTypeOK' /\ Directions'
<1> USE DEF relayVars, peers
<1>1. RelayTypeOK'
    BY Zenon DEF RelayTypeOK
<1>2. Directions'
    BY Zenon DEF Directions, Line, Loop, Across
<1> QED BY <1>1, <1>2

LEMMA StepRelay ==
    ASSUME Inv, [Next]_vars
    PROVE  RelayTypeOK' /\ Directions'
<1>0. RelayTypeOK /\ Directions
    BY DEF Inv, TypeOK
<1>1. CASE UNCHANGED relayVars
    BY <1>0, <1>1, Untouched
<1>2. ASSUME NEW l \in Listener, Accept(l) PROVE RelayTypeOK' /\ Directions'
    <2>1. RelayTypeOK'
        BY <1>0, <1>2 DEF Accept, RelayTypeOK, peers
    <2>2. ASSUME NEW s \in Side PROVE Line(s)' /\ Loop(s)' /\ Across(s)'
        <3>1. Line(s)' /\ Across(s)'
            BY Zenon, <1>0, <1>2 DEF Directions, Line, Across, Accept, peers
        <3>2. Loop(s)'
            BY <1>0, <1>2 DEF Directions, Loop, Accept, peers
        <3> QED BY <3>1, <3>2
    <2> QED BY <2>1, <2>2 DEF Directions
<1>3. CASE Return
    BY <1>0, <1>3, <1>1, StepClosed DEF Return
<1>4. CASE Handler
    BY <1>0, <1>4, StepHandler
<1>5. ASSUME NEW s \in Side, Peer(s) \/ ReadAhead(s) PROVE RelayTypeOK' /\ Directions'
    BY Zenon, <1>0, <1>5, StepSend, StepFinish, StepAbort, StepStall, StepReadAhead DEF Peer
<1>6. ASSUME NEW s \in Side, Copy(s) PROVE RelayTypeOK' /\ Directions'
    BY Zenon, <1>0, <1>6, StepFetch, StepReadEnd, StepDeliver, StepWriteEnd, StepCloseWrite
       DEF Copy
<1>7. CASE \/ Fail \/ Boot \/ EnsureStat \/ EnsureSeed \/ StartControl
           \/ Bind \/ BindFails \/ StartLoops
    <2>1. UNCHANGED relayVars
        BY <1>7 DEF Fail, Boot, EnsureStat, EnsureSeed, StartControl, Bind, BindFails, StartLoops
    <2> QED BY <1>1, <2>1
<1>8. CASE ControlListen \/ ControlFails \/ ControlShutdown \/ Signal \/ OthersWrite
    <2>1. UNCHANGED relayVars
        BY <1>8 DEF ControlListen, ControlFails, ControlShutdown, Signal, OthersWrite
    <2> QED BY <1>1, <2>1
<1>9. ASSUME NEW l \in Listener, Closer(l) \/ LoopEnds(l) PROVE RelayTypeOK' /\ Directions'
    <2>1. UNCHANGED relayVars
        BY <1>9 DEF Closer, LoopEnds
    <2> QED BY <1>1, <2>1
<1>10. CASE UNCHANGED vars
    <2>1. UNCHANGED relayVars
        BY <1>10 DEF vars
    <2> QED BY <1>1, <2>1
<1> QED
    BY Zenon, <1>2, <1>3, <1>4, <1>5, <1>6, <1>7, <1>8, <1>9, <1>10 DEF Next, Run

-----------------------------------------------------------------------------
(* The steps of the process *)

\* The type of the process's own variables.
ProcTypeOK ==
    /\ main \in {"boot", "stat", "seed", "control", "bind", "wait", "exit"}
    /\ next \in 1 .. Len(Listeners) + 1
    /\ live \in BOOLEAN
    /\ ctl \in {"none", "starting", "serving", "done"}
    /\ open \subseteq Listener /\ closers \subseteq Listener /\ loops \subseteq Listener
    /\ table \in BOOLEAN

LEMMA StepRun ==
    ASSUME ProcTypeOK, Seeded, Run
    PROVE  ProcTypeOK' /\ Seeded'
<1> USE DEF ProcTypeOK, Seeded
<1>1. CASE Fail \/ Boot
    BY <1>1 DEF Fail, Boot
<1>2. CASE EnsureStat
    BY <1>2 DEF EnsureStat
<1>3. CASE EnsureSeed \/ StartControl
    BY Zenon, <1>3 DEF EnsureSeed, StartControl
<1>4. CASE Bind
    <2>1. Listeners[next] \in Listener /\ next + 1 \in 1 .. Len(Listeners) + 1
        BY <1>4, ListenersAssumption DEF Bind
    <2> QED BY <1>4, <2>1 DEF Bind
<1>5. CASE BindFails \/ StartLoops
    BY Zenon, <1>5 DEF BindFails, StartLoops
<1>6. CASE Return
    BY <1>6 DEF Return
<1> QED BY <1>1, <1>2, <1>3, <1>4, <1>5, <1>6 DEF Run

LEMMA StepProcess ==
    ASSUME ProcTypeOK, Seeded, [Next]_vars
    PROVE  ProcTypeOK' /\ Seeded'
<1> USE DEF ProcTypeOK, Seeded
<1>1. CASE Run
    BY <1>1, StepRun
<1>2. CASE ControlListen \/ ControlFails \/ ControlShutdown
    BY Zenon, <1>2 DEF ControlListen, ControlFails, ControlShutdown
<1>3. ASSUME NEW l \in Listener, Closer(l) \/ LoopEnds(l) PROVE ProcTypeOK' /\ Seeded'
    BY <1>3 DEF Closer, LoopEnds
<1>4. CASE Signal \/ OthersWrite
    BY Zenon, <1>4 DEF Signal, OthersWrite
<1>5. CASE UNCHANGED procVars
    BY <1>5 DEF procVars
<1>6. ASSUME NEW l \in Listener, Accept(l) PROVE UNCHANGED procVars
    BY <1>6 DEF Accept
<1>7. CASE UNCHANGED vars
    BY <1>5, <1>7 DEF vars
<1> QED BY Zenon, <1>1, <1>2, <1>3, <1>4, <1>5, <1>6, <1>7 DEF Next

LEMMA Inductive == Spec => []Inv
<1>1. Inv /\ [Next]_vars => Inv'
    <2> SUFFICES ASSUME Inv, [Next]_vars PROVE Inv'
        OBVIOUS
    <2>1. RelayTypeOK' /\ Directions'
        BY StepRelay
    <2>2. ProcTypeOK /\ Seeded
        BY DEF Inv, TypeOK, ProcTypeOK
    <2>3. ProcTypeOK' /\ Seeded'
        BY <2>2, StepProcess
    <2> QED BY <2>1, <2>3 DEF Inv, TypeOK, ProcTypeOK
<1> QED BY InitInv, <1>1, PTL DEF Spec

-----------------------------------------------------------------------------
(* The theorems *)

\* Every reachable state of the process and its splice has the type its
\* declarations say; a copy loop never holds more than one chunk.
THEOREM TypeCorrect == Spec => []TypeOK
<1>1. Inv => TypeOK
    BY DEF Inv
<1> QED BY Inductive, <1>1, PTL

\* However startup, other nodes' writes and operators' writes interleave, no
\* accept loop runs before Storage has a default table (EnsureDefault in run).
THEOREM TableBeforeListeners == Spec => []ServesWithTable
<1>1. Inv => ServesWithTable
    BY DEF Inv, Seeded, ServesWithTable
<1> QED BY Inductive, <1>1, PTL

\* Whatever either peer sends, finishes or breaks, and wherever the process
\* stops: what reaches a peer through relay is a gapless prefix of what the other
\* sent, bytes read ahead included, and closeWrite reports the end of it only
\* when all of it was delivered or a connection broke.
THEOREM RelayIsFaithful == Spec => []SpliceFaithful
<1>1. Inv => SpliceFaithful
    <2> SUFFICES ASSUME Inv, NEW s \in Side
                 PROVE  LET d == Other(s) IN
                        /\ got[d] = [i \in 1 .. Len(got[d]) |-> i]
                        /\ eof[d] => \/ fin[s] /\ Len(got[d]) = sent[s]
                                     \/ \E p \in Side : rst[p]
        BY DEF SpliceFaithful
    <2> DEFINE d == Other(s)
    <2>1. got[d] \in Seq(Nat)
        BY Queues DEF Inv, TypeOK
    <2>2. Across(s)
        BY DEF Inv, Directions
    <2>3. got[d] = [i \in 1 .. Len(got[d]) |-> i]
        <3>1. \A i \in 1 .. Len(got[d]) : got[d][i] = i
            BY <2>1, <2>2 DEF Across, Numbered
        <3> QED BY <2>1, <3>1
    <2> QED BY Zenon, <2>2, <2>3 DEF Across
<1> QED BY Inductive, <1>1, PTL
=============================================================================
