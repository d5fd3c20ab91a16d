------------------------- MODULE Algorithms_proofs -------------------------
(***************************************************************************)
(* Proofs about the other pure algorithms, for every chain, bundle, header *)
(* and gate, and the theorems about the inputs of Algorithms.              *)
(***************************************************************************)
EXTENDS Algorithms, Tables_proofs

-----------------------------------------------------------------------------
(* Client addresses behind load balancers *)

\* The places of a list that hold an address no trusted proxy has.
Outside(hops) == {i \in 1 .. Len(hops) : hops[i] \in Peer /\ ~isTrustedPeer(hops[i])}

\* The last hop outside the trusted networks, if there is one.
LEMMA OutsideMax ==
    ASSUME NEW X, NEW s \in Seq(X), Outside(s) # {}
    PROVE  /\ Max(Outside(s)) \in 1 .. Len(s) /\ Max(Outside(s)) \in Outside(s)
           /\ \A i \in Outside(s) : i <= Max(Outside(s))
<1>1. Len(s) \in Nat /\ Outside(s) \in SUBSET (0 .. Len(s)) /\ Outside(s) \in SUBSET (1 .. Len(s))
    BY DEF Outside
<1>2. Max(Outside(s)) \in Outside(s) /\ \A i \in Outside(s) : Max(Outside(s)) >= i
    BY Zenon, <1>1, MaxIs
<1> QED BY <1>1, <1>2

\* recoverClientIP: the peer unless it is trusted, else the last hop that is not,
\* else X-Real-IP.
LEMMA RecoverIs ==
    ASSUME NEW X, NEW lines \in Seq(Seq(X)), NEW peer, NEW xri
    PROVE  recoverClientIP(peer, lines, xri) =
             LET hops == Concat(lines) IN
             IF ~isTrustedPeer(peer) THEN peer
             ELSE IF Outside(hops) # {} THEN hops[Max(Outside(hops))]
             ELSE IF xri \in Peer THEN xri ELSE peer
<1> DEFINE hops == Concat(lines)
           at == IF Outside(hops) # {} THEN Max(Outside(hops)) ELSE 0
<1>1. hops \in Seq(X)
    BY Zenon, ConcatType
<1>2. recoverClientIP(peer, lines, xri) =
        IF ~isTrustedPeer(peer) THEN peer ELSE IF at # 0 THEN hops[at]
        ELSE IF xri \in Peer THEN xri ELSE peer
    BY Zenon DEF recoverClientIP, LastIn, Outside
<1> HIDE DEF hops
<1>3. Outside(hops) # {} => Max(Outside(hops)) # 0
    BY <1>1, OutsideMax
<1> QED BY Zenon, <1>2, <1>3 DEF hops

\* Hops in front do not change which untrusted hop is the last.
LEMMA OutsideConcat ==
    ASSUME NEW X, NEW s \in Seq(X), NEW t \in Seq(X), Outside(t) # {}
    PROVE  Outside(s \o t) # {} /\ (s \o t)[Max(Outside(s \o t))] = t[Max(Outside(t))]
<1> DEFINE m == Max(Outside(t))
           k == Max(Outside(s \o t))
<1>1. m \in 1 .. Len(t) /\ m \in Outside(t) /\ \A i \in Outside(t) : i <= m
    BY Zenon, OutsideMax
<1>2. /\ s \o t \in Seq(X) /\ Len(s \o t) = Len(s) + Len(t) /\ Len(s) \in Nat /\ Len(t) \in Nat
      /\ \A i \in 1 .. Len(t) : (s \o t)[Len(s) + i] = t[i]
    OBVIOUS
<1> HIDE DEF m
<1>3. Len(s) + m \in Outside(s \o t)
    BY <1>1, <1>2 DEF Outside
<1>4. k \in 1 .. Len(s \o t) /\ k \in Outside(s \o t) /\ \A i \in Outside(s \o t) : i <= k
    BY Zenon, <1>2, <1>3, OutsideMax
<1> HIDE DEF k
<1>5. k - Len(s) \in 1 .. Len(t) /\ Len(s) + (k - Len(s)) = k /\ Len(s) + m <= k
    BY <1>1, <1>2, <1>3, <1>4
<1>6. k - Len(s) \in Outside(t)
    BY Zenon, <1>2, <1>4, <1>5 DEF Outside
<1>7. k = Len(s) + m
    BY <1>1, <1>2, <1>4, <1>5, <1>6
<1> QED BY <1>1, <1>2, <1>3, <1>7 DEF m, k

\* The recovered client is one a trusted hop wrote: lines in front of the header
\* change nothing once an untrusted hop follows, and neither does splitting a line.
LEMMA Vouched ==
    ASSUME NEW X, NEW lines \in Seq(Seq(X)), NEW seeds \in SUBSET Seq(X), NEW peer, NEW xri
    PROVE  RecoveredIsVouchedFor(peer, lines, xri, seeds)
<1> DEFINE hops == Concat(lines)
           pick(hs) == IF ~isTrustedPeer(peer) THEN peer
                       ELSE IF Outside(hs) # {} THEN hs[Max(Outside(hs))]
                       ELSE IF xri \in Peer THEN xri ELSE peer
<1>1. hops \in Seq(X) /\ recoverClientIP(peer, lines, xri) = pick(hops)
    BY Zenon, ConcatType, RecoverIs
<1>2. <<hops>> \in Seq(Seq(X))
    BY <1>1
<1>3. recoverClientIP(peer, <<hops>>, xri) = pick(hops)
    <2>1. Concat(<<hops>>) = hops
        BY Zenon, <1>1, ConcatOne
    <2> HIDE DEF hops
    <2> QED BY Zenon, <1>2, <2>1, RecoverIs
<1>4. ASSUME NEW s \in seeds, \E h \in Range(hops) : h \in Peer \ Trusted
      PROVE  recoverClientIP(peer, <<s>> \o lines, xri) = pick(hops)
    <2>1. s \in Seq(X)
        OBVIOUS
    <2>2. <<s>> \o lines \in Seq(Seq(X))
        BY <2>1
    <2>3. recoverClientIP(peer, <<s>> \o lines, xri) = pick(s \o hops)
        <3>1. Concat(<<s>> \o lines) = s \o hops
            BY Zenon, <2>1, ConcatFirst
        <3> HIDE DEF hops
        <3> QED BY Zenon, <2>2, <3>1, RecoverIs
    <2>4. Outside(hops) # {}
        <3> HIDE DEF hops
        <3>1. PICK i \in DOMAIN hops : hops[i] \in Peer \ Trusted
            BY Zenon, <1>4 DEF Range
        <3>2. i \in 1 .. Len(hops)
            BY <1>1
        <3> QED BY Zenon, <3>1, <3>2 DEF Outside, isTrustedPeer
    <2>5. Outside(s \o hops) # {}
          /\ (s \o hops)[Max(Outside(s \o hops))] = hops[Max(Outside(hops))]
        BY Zenon, <1>1, <2>1, <2>4, OutsideConcat
    <2> QED BY Zenon, <2>3, <2>4, <2>5
<1>5. ~isTrustedPeer(peer) => pick(hops) = peer
    BY Zenon
<1> QED BY Zenon, <1>1, <1>3, <1>4, <1>5 DEF RecoveredIsVouchedFor

-----------------------------------------------------------------------------
(* The auth gate *)

\* Where strings.Cut splits a Basic credential, and the two parts.
Cut(text) == First({i \in 1 .. Len(text) : text[i] = Colon})

Before(text) == SubSeq(text, 1, Cut(text) - 1)

After(text) == SubSeq(text, Cut(text) + 1, Len(text))

\* The cut is at the first colon.
LEMMA CutIs ==
    ASSUME NEW C, NEW text \in Seq(C)
    PROVE  /\ Cut(text) \in 0 .. Len(text)
           /\ Cut(text) = 0 => \A i \in 1 .. Len(text) : text[i] # Colon
           /\ Cut(text) # 0 => /\ text[Cut(text)] = Colon
                               /\ \A i \in 1 .. Len(text) : i < Cut(text) => text[i] # Colon
<1> DEFINE I == {i \in 1 .. Len(text) : text[i] = Colon}
<1>0. Len(text) \in Nat /\ I \in SUBSET (1 .. Len(text)) /\ I \in SUBSET Nat
    OBVIOUS
<1>1. /\ First(I) \in 0 .. Len(text) /\ (First(I) = 0 <=> I = {})
      /\ I # {} => First(I) \in I /\ \A i \in I : First(I) <= i
    BY ZenonT(60), <1>0, FirstIs
<1>2. Cut(text) = First(I)
    BY Zenon DEF Cut
<1>3. Cut(text) = 0 => \A i \in 1 .. Len(text) : text[i] # Colon
    BY Zenon, <1>1, <1>2
<1>4. Cut(text) # 0 => text[Cut(text)] = Colon /\ \A i \in I : Cut(text) <= i
    BY Zenon, <1>1, <1>2
<1>5. \A i \in 1 .. Len(text) : i < Cut(text) => ~(Cut(text) <= i)
    BY <1>1, <1>2
<1> QED BY Zenon, <1>1, <1>2, <1>3, <1>4, <1>5

\* s is t from m + 1 to n.
Piece(s, C, t, m, n) ==
    s \in Seq(C) /\ Len(s) = n - m /\ \A i \in 1 .. n - m : s[i] = t[m + i]

\* SubSeq cuts out a piece.
LEMMA PieceIs ==
    ASSUME NEW C, NEW t \in Seq(C), NEW n \in 0 .. Len(t), NEW m \in 0 .. n
    PROVE  Piece(SubSeq(t, m + 1, n), C, t, m, n)
<1> DEFINE s == SubSeq(t, m + 1, n)
<1>1. s \in Seq(C)
    OBVIOUS
<1>2. Len(s) = n - m
    OBVIOUS
<1>3. \A i \in 1 .. n - m : s[i] = t[m + i]
    OBVIOUS
<1> QED BY Zenon, <1>1, <1>2, <1>3 DEF Piece

\* t is b, x and a in this order.
Joins(t, C, b, x, a) ==
    /\ t \in Seq(C) /\ Len(t) = Len(b) + 1 + Len(a) /\ t[Len(b) + 1] = x
    /\ \A i \in 1 .. Len(b) : t[i] = b[i]
    /\ \A i \in 1 .. Len(a) : t[Len(b) + 1 + i] = a[i]

\* Concatenation puts the three in this order.
LEMMA JoinIs ==
    ASSUME NEW C, NEW b \in Seq(C), NEW x \in C, NEW a \in Seq(C)
    PROVE  Joins(b \o <<x>> \o a, C, b, x, a)
<1> DEFINE t == b \o <<x>>
           u == t \o a
<1>1. /\ t \in Seq(C) /\ Len(t) = Len(b) + 1 /\ t[Len(b) + 1] = x
      /\ \A i \in 1 .. Len(b) : t[i] = b[i]
    OBVIOUS
<1>2. Len(b) \in Nat /\ Len(a) \in Nat
    OBVIOUS
<1>t. t \in Seq(C)
    BY Zenon, <1>1
<1> HIDE DEF t
<1>3. /\ u \in Seq(C) /\ Len(u) = Len(t) + Len(a)
      /\ \A i \in 1 .. Len(t) : u[i] = t[i]
      /\ \A i \in 1 .. Len(a) : u[Len(t) + i] = a[i]
    BY <1>t
<1>4. Joins(u, C, b, x, a)
    <2> HIDE DEF u
    <2>1. /\ Len(b) + 1 \in 1 .. Len(t) /\ 1 .. Len(b) \subseteq 1 .. Len(t)
        BY <1>1, <1>2
    <2> QED BY Zenon, <1>1, <1>3, <2>1 DEF Joins
<1> QED BY Zenon, <1>4 DEF t

\* The parts of a cut make up the text again.
LEMMA CutParts ==
    ASSUME NEW C, NEW text \in Seq(C), Cut(text) # 0
    PROVE  /\ Before(text) \in Seq(C) /\ After(text) \in Seq(C)
           /\ text = Before(text) \o <<Colon>> \o After(text)
<1> DEFINE c == Cut(text)
           n == Len(text)
           b == Before(text)
           a == After(text)
           t == b \o <<Colon>> \o a
<1>1. c \in 1 .. n /\ text[c] = Colon /\ n \in Nat /\ Colon \in C
    BY CutIs
<1>2. b \in Seq(C) /\ Len(b) = c - 1 /\ \A i \in 1 .. c - 1 : b[i] = text[i]
    <2>1. c - 1 \in 0 .. Len(text) /\ 0 \in 0 .. c - 1 /\ (c - 1) - 0 = c - 1 /\ 0 + 1 = 1
          /\ \A i \in 1 .. c - 1 : 0 + i = i
        BY <1>1
    <2>2. Piece(b, C, text, 0, c - 1)
        BY Zenon, <2>1, PieceIs DEF Before
    <2> HIDE DEF b, c
    <2> QED BY Zenon, <2>1, <2>2 DEF Piece
<1>3. a \in Seq(C) /\ Len(a) = n - c /\ \A i \in 1 .. n - c : a[i] = text[c + i]
    <2>1. n \in 0 .. Len(text) /\ c \in 0 .. n
        BY <1>1
    <2>2. Piece(a, C, text, c, n)
        BY Zenon, <2>1, PieceIs DEF After
    <2> HIDE DEF a, c
    <2> QED BY Zenon, <2>2 DEF Piece
<1> HIDE DEF a, b, c
<1>4. Joins(t, C, b, Colon, a)
    BY Zenon, <1>1, <1>2, <1>3, JoinIs
<1> HIDE DEF t, n
<1>5. t \in Seq(C) /\ Len(t) = n /\ \A i \in 1 .. n : t[i] = text[i]
    <2>1. /\ t \in Seq(C) /\ Len(t) = (c - 1) + 1 + (n - c) /\ t[(c - 1) + 1] = Colon
          /\ \A i \in 1 .. c - 1 : t[i] = b[i]
          /\ \A i \in 1 .. n - c : t[(c - 1) + 1 + i] = a[i]
        BY Zenon, <1>2, <1>3, <1>4 DEF Joins
    <2>2. Len(t) = n /\ t[c] = Colon /\ (\A i \in 1 .. n - c : t[c + i] = a[i])
        BY <1>1, <2>1
    <2>3. ASSUME NEW i \in 1 .. n PROVE t[i] = text[i]
        <3>1. CASE i < c
            <4>1. i \in 1 .. c - 1
                BY <1>1, <3>1
            <4> QED BY Zenon, <1>2, <2>1, <4>1
        <3>2. CASE i = c
            BY Zenon, <1>1, <2>2, <3>2
        <3>3. CASE i > c
            <4>1. i - c \in 1 .. n - c /\ c + (i - c) = i
                BY <1>1, <3>3
            <4> QED BY Zenon, <1>3, <2>2, <4>1
        <3> QED BY <1>1, <3>1, <3>2, <3>3
    <2> QED BY Zenon, <2>1, <2>2, <2>3
<1>6. t = text
    BY Zenon, <1>5, SameSeq DEF n
<1> QED BY Zenon, <1>2, <1>3, <1>6 DEF t, a, b

\* A text made of a name without a colon, a colon and a password is cut there: a
\* password may hold colons.
LEMMA CutUnique ==
    ASSUME NEW C, Colon \in C, NEW u \in Seq(C), NEW p \in Seq(C), NEW text \in Seq(C),
           text = u \o <<Colon>> \o p, \A i \in 1 .. Len(u) : u[i] # Colon
    PROVE  Cut(text) # 0 /\ Before(text) = u /\ After(text) = p
<1> DEFINE k == Len(u) + 1
<1>0. Joins(text, C, u, Colon, p)
    BY Zenon, JoinIs
<1>1. /\ Len(u) \in Nat /\ Len(p) \in Nat /\ Len(text) = Len(u) + 1 + Len(p) /\ text[k] = Colon
      /\ \A i \in 1 .. Len(u) : text[i] = u[i]
      /\ \A i \in 1 .. Len(p) : text[k + i] = p[i]
    BY Zenon, <1>0, SeqIs DEF Joins
<1>2. Cut(text) = k
    <2>1. k \in 1 .. Len(text)
        BY <1>1
    <2>2. Cut(text) # 0
        BY Zenon, <1>1, <2>1, CutIs
    <2>3. Cut(text) \in 0 .. Len(text) /\ text[Cut(text)] = Colon /\ ~(k < Cut(text))
        BY Zenon, <1>1, <2>1, <2>2, CutIs
    <2>4. Cut(text) \notin 1 .. Len(u)
        BY Zenon, <1>1, <2>3
    <2> QED BY <1>1, <2>2, <2>3, <2>4
<1> HIDE DEF k
<1>k. k = Len(u) + 1
    BY DEF k
<1>3. Before(text) \in Seq(C) /\ Len(Before(text)) = Len(u)
      /\ \A i \in 1 .. Len(u) : Before(text)[i] = u[i]
    <2>1. Len(u) \in 0 .. Len(text) /\ k - 1 = Len(u) /\ 0 \in 0 .. Len(u) /\ Len(u) - 0 = Len(u)
          /\ 0 + 1 = 1 /\ \A i \in 1 .. Len(u) : 0 + i = i
        BY <1>1, <1>k
    <2>2. Piece(Before(text), C, text, 0, Len(u))
        BY Zenon, <1>2, <2>1, PieceIs DEF Before
    <2> QED BY ZenonT(60), <1>1, <2>1, <2>2 DEF Piece
<1>4. After(text) \in Seq(C) /\ Len(After(text)) = Len(p)
      /\ \A i \in 1 .. Len(p) : After(text)[i] = p[i]
    <2>1. Len(text) \in 0 .. Len(text) /\ k \in 0 .. Len(text) /\ Len(text) - k = Len(p)
        BY <1>1, <1>k
    <2>2. Piece(After(text), C, text, k, Len(text))
        BY Zenon, <1>2, <2>1, PieceIs DEF After
    <2> QED BY Zenon, <1>1, <2>1, <2>2 DEF Piece
<1>5. Before(text) = u
    BY Zenon, <1>3, SameSeq
<1>6. After(text) = p
    BY Zenon, <1>4, SameSeq
<1>7. k # 0
    BY <1>1, <1>k
<1> QED BY Zenon, <1>2, <1>5, <1>6, <1>7

\* authenticateBasic finds the principals whose credential is the text, and only
\* those, if no user name holds a colon.
LEMMA BasicIs ==
    ASSUME NEW hp, NEW text \in Seq(Char), Colon \in Char,
           hp.basic \in Seq([user : Seq(Char), hash : Seq(Char)]),
           Nameable(hp), CompileAuth(hp)
    PROVE  LET mine == {c \in Range(hp.basic) : text = c.user \o <<Colon>> \o c.hash}
           IN /\ mine = {} => authenticateBasic(hp, text) = NoPrincipal
              /\ mine # {} => /\ authenticateBasic(hp, text) \in {c.user : c \in mine}
                              /\ authenticateBasic(hp, text) # NoPrincipal
<1> DEFINE b == hp.basic
           I == {i \in 1 .. Len(b) : b[i].user = Before(text) /\ b[i].hash = After(text)}
           mine == {c \in Range(b) : text = c.user \o <<Colon>> \o c.hash}
<1>1. authenticateBasic(hp, text) =
        IF Cut(text) = 0 \/ First(I) = 0 THEN NoPrincipal ELSE b[First(I)].user
    BY Zenon DEF authenticateBasic, FirstIn, Cut, First, Before, After
<1>2. Len(b) \in Nat /\ I \in SUBSET (1 .. Len(b)) /\ DOMAIN b = 1 .. Len(b)
      /\ \A i \in 1 .. Len(b) : b[i].user \in Seq(Char) /\ b[i].hash \in Seq(Char)
    <2>1. Len(b) \in Nat /\ DOMAIN b = 1 .. Len(b)
          /\ \A i \in 1 .. Len(b) : b[i] \in [user : Seq(Char), hash : Seq(Char)]
        <3> HIDE DEF b
        <3>1. b \in Seq([user : Seq(Char), hash : Seq(Char)])
            BY DEF b
        <3> QED BY Zenon, <3>1, SeqIs
    <2> QED BY Zenon, <2>1
<1>3. /\ First(I) = 0 <=> I = {}
      /\ I # {} => First(I) \in I
    <2> HIDE DEF I
    <2> QED BY Zenon, <1>2, FirstIs
<1>4. Cut(text) # 0 => text = Before(text) \o <<Colon>> \o After(text)
    BY Zenon, CutParts
<1>5. \A i \in 1 .. Len(b) : b[i].user # <<>> /\ \A k \in 1 .. Len(b[i].user) : b[i].user[k] # Colon
    <2> SUFFICES ASSUME NEW i \in 1 .. Len(b)
                 PROVE  b[i].user # <<>> /\ \A k \in 1 .. Len(b[i].user) : b[i].user[k] # Colon
        BY Zenon
    <2>1. b[i].user # <<>> /\ Colon \notin Range(b[i].user)
        BY Zenon, <1>2 DEF CompileAuth, Nameable
    <2>2. DOMAIN (b[i].user) = 1 .. Len(b[i].user)
        BY <1>2
    <2> QED BY Zenon, <2>1, <2>2 DEF Range
<1>6. ASSUME NEW i \in 1 .. Len(b), text = b[i].user \o <<Colon>> \o b[i].hash
      PROVE  Cut(text) # 0 /\ i \in I
    <2> DEFINE u == b[i].user
               p == b[i].hash
    <2>1. u \in Seq(Char) /\ p \in Seq(Char) /\ text = u \o <<Colon>> \o p
          /\ \A k \in 1 .. Len(u) : u[k] # Colon
        BY Zenon, <1>2, <1>5, <1>6
    <2> HIDE DEF u, p
    <2>2. Cut(text) # 0 /\ Before(text) = u /\ After(text) = p
        BY ZenonT(60), <2>1, CutUnique
    <2> QED BY Zenon, <2>2 DEF u, p
<1>7. ASSUME NEW c \in mine PROVE Cut(text) # 0 /\ First(I) # 0
    <2>1. PICK i \in 1 .. Len(b) : c = b[i]
        BY Zenon, <1>2 DEF Range
    <2> HIDE DEF I
    <2> QED BY Zenon, <1>3, <1>6, <2>1
<1>8. ASSUME Cut(text) # 0, First(I) # 0
      PROVE  b[First(I)] \in mine /\ b[First(I)].user # NoPrincipal
    <2>1. First(I) \in 1 .. Len(b) /\ b[First(I)].user = Before(text) /\ b[First(I)].hash = After(text)
        BY Zenon, <1>3, <1>8
    <2>2. b[First(I)] \in Range(b)
        BY Zenon, <1>2, <2>1 DEF Range
    <2> HIDE DEF I
    <2> QED BY Zenon, <1>4, <1>5, <1>8, <2>1, <2>2 DEF NoPrincipal
<1> HIDE DEF I
<1>9. mine = {} => authenticateBasic(hp, text) = NoPrincipal
    BY Zenon, <1>1, <1>8
<1>10. mine # {} => /\ authenticateBasic(hp, text) \in {c.user : c \in mine}
                    /\ authenticateBasic(hp, text) # NoPrincipal
    BY Zenon, <1>1, <1>7, <1>8
<1> QED BY Zenon, <1>9, <1>10

\* authenticateBearer finds the principals whose token is presented, and only those.
LEMMA BearerIs ==
    ASSUME NEW hp, NEW token, hp.bearer \in Seq([id : Seq(Char), hash : Seq(Char)]), CompileAuth(hp)
    PROVE  LET tokens == {c \in Range(hp.bearer) : token = c.hash}
           IN /\ tokens = {} => authenticateBearer(hp, token) = NoPrincipal
              /\ tokens # {} => /\ authenticateBearer(hp, token) \in {c.id : c \in tokens}
                                /\ authenticateBearer(hp, token) # NoPrincipal
<1> DEFINE b == hp.bearer
           I == {i \in 1 .. Len(b) : b[i].hash = token}
           tokens == {c \in Range(b) : token = c.hash}
<1>1. authenticateBearer(hp, token) = IF First(I) = 0 THEN NoPrincipal ELSE b[First(I)].id
    BY Zenon DEF authenticateBearer, FirstIn, First
<1>2. Len(b) \in Nat /\ I \in SUBSET (1 .. Len(b)) /\ DOMAIN b = 1 .. Len(b)
    OBVIOUS
<1>3. /\ First(I) = 0 <=> I = {}
      /\ I # {} => First(I) \in I
    <2> HIDE DEF I
    <2> QED BY Zenon, <1>2, FirstIs
<1>4. \A i \in 1 .. Len(b) : b[i].id # NoPrincipal
    BY Zenon, <1>2 DEF CompileAuth, NoPrincipal
<1>5. ASSUME NEW c \in tokens PROVE First(I) # 0
    BY Zenon, <1>2, <1>3 DEF Range
<1>6. ASSUME First(I) # 0 PROVE b[First(I)] \in tokens /\ b[First(I)].id # NoPrincipal
    <2>1. First(I) \in 1 .. Len(b) /\ b[First(I)].hash = token
        BY Zenon, <1>3, <1>6
    <2>2. b[First(I)] \in Range(b)
        BY Zenon, <1>2, <2>1 DEF Range
    <2> QED BY Zenon, <1>4, <2>1, <2>2
<1> HIDE DEF I
<1>7. tokens = {} => authenticateBearer(hp, token) = NoPrincipal
    BY Zenon, <1>1, <1>6
<1>8. tokens # {} => /\ authenticateBearer(hp, token) \in {c.id : c \in tokens}
                     /\ authenticateBearer(hp, token) # NoPrincipal
    BY Zenon, <1>1, <1>5, <1>6
<1> QED BY Zenon, <1>7, <1>8

\* The credentials a header presents.
Mine(hp, h) ==
    {c \in Range(hp.basic) : h.scheme = "Basic" /\ h.value = c.user \o <<Colon>> \o c.hash}

Tokens(hp, h) == {c \in Range(hp.bearer) : h.scheme = "Bearer" /\ h.value = c.hash}

\* Authenticate by scheme: a principal exactly if a credential was presented.
LEMMA AuthenticateIs ==
    ASSUME NEW hp \in Gates, NEW h \in Headers, Nameable(hp), CompileAuth(hp)
    PROVE  /\ Authenticate(hp, h) = NoPrincipal <=> Mine(hp, h) = {} /\ Tokens(hp, h) = {}
           /\ Mine(hp, h) # {} => Authenticate(hp, h) \in {c.user : c \in Mine(hp, h)}
           /\ Tokens(hp, h) # {} => Authenticate(hp, h) \in {c.id : c \in Tokens(hp, h)}
<1>1. /\ hp.basic \in Seq([user : Seq(Char), hash : Seq(Char)]) /\ h.value \in Seq(Char)
      /\ hp.bearer \in Seq([id : Seq(Char), hash : Seq(Char)]) /\ Colon \in Char
    BY Zenon, GateAssumption
<1>2. CASE h.scheme = "Basic"
    <2> DEFINE mine == {c \in Range(hp.basic) : h.value = c.user \o <<Colon>> \o c.hash}
    <2>1. Authenticate(hp, h) = authenticateBasic(hp, h.value)
        BY <1>2 DEF Authenticate
    <2>2. "Basic" # "Bearer"
        OBVIOUS
    <2>3. Mine(hp, h) = mine /\ Tokens(hp, h) = {}
        BY Zenon, <1>2, <2>2 DEF Mine, Tokens
    <2>4. /\ mine = {} => authenticateBasic(hp, h.value) = NoPrincipal
          /\ mine # {} => /\ authenticateBasic(hp, h.value) \in {c.user : c \in mine}
                          /\ authenticateBasic(hp, h.value) # NoPrincipal
        BY Zenon, <1>1, BasicIs
    <2> HIDE DEF mine
    <2> QED BY Zenon, <2>1, <2>3, <2>4
<1>3. CASE h.scheme = "Bearer"
    <2> DEFINE tokens == {c \in Range(hp.bearer) : h.value = c.hash}
    <2>1. Authenticate(hp, h) = authenticateBearer(hp, h.value)
        BY <1>3 DEF Authenticate
    <2>2. "Basic" # "Bearer"
        OBVIOUS
    <2>3. Mine(hp, h) = {} /\ Tokens(hp, h) = tokens
        BY Zenon, <1>3, <2>2 DEF Mine, Tokens
    <2>4. /\ tokens = {} => authenticateBearer(hp, h.value) = NoPrincipal
          /\ tokens # {} => /\ authenticateBearer(hp, h.value) \in {c.id : c \in tokens}
                            /\ authenticateBearer(hp, h.value) # NoPrincipal
        BY Zenon, <1>1, BearerIs
    <2> HIDE DEF tokens
    <2> QED BY Zenon, <2>1, <2>3, <2>4
<1>4. CASE h.scheme # "Basic" /\ h.scheme # "Bearer"
    <2>1. Authenticate(hp, h) = NoPrincipal
        BY <1>4 DEF Authenticate
    <2>2. Mine(hp, h) = {} /\ Tokens(hp, h) = {}
        BY Zenon, <1>4 DEF Mine, Tokens
    <2> QED BY Zenon, <2>1, <2>2
<1> QED BY Zenon, <1>2, <1>3, <1>4

\* Whether and as whom an explicit client passes a required gate.
Approved(hp, h, v) == hp.broker # NoBroker /\ h # Absent /\ v \notin {Refused, Broken, NoPrincipal}

\* checkAuth of a gate that requires credentials: admitted are those the gate knows
\* and those its broker approves of, and a CONNECT without a header is refused.
LEMMA CheckIs ==
    ASSUME NEW hp \in Gates, NEW h \in Headers, NEW v \in Verdicts,
           Nameable(hp), CompileAuth(hp), hp.required
    PROVE  LET r == checkAuth(hp, TRUE, h, v) IN
           /\ checkAuth(hp, FALSE, h, v).status = 403
           /\ r.status = 0 <=> Mine(hp, h) # {} \/ Tokens(hp, h) # {} \/ Approved(hp, h, v)
           /\ Mine(hp, h) # {} => r.principal \in {c.user : c \in Mine(hp, h)}
           /\ Tokens(hp, h) # {} => r.principal \in {c.id : c \in Tokens(hp, h)}
<1> DEFINE local == Authenticate(hp, h)
           p == IF local = NoPrincipal /\ hp.broker # NoBroker
                THEN authenticateBroker(h, v) ELSE local
           r == checkAuth(hp, TRUE, h, v)
<1>1. checkAuth(hp, FALSE, h, v).status = 403
    BY DEF checkAuth
<1>2. p = NoPrincipal => r.status = 407
    <2> HIDE DEF local, p
    <2> QED BY DEF checkAuth, p, local
<1>3. p # NoPrincipal => r.status = 0 /\ r.principal = p
    BY DEF checkAuth
<1>4. local = NoPrincipal => (p # NoPrincipal <=> Approved(hp, h, v))
    BY DEF authenticateBroker, Approved
<1>5. local # NoPrincipal => p = local
    OBVIOUS
<1>6. 407 # 0
    OBVIOUS
<1>7. /\ local = NoPrincipal <=> Mine(hp, h) = {} /\ Tokens(hp, h) = {}
      /\ Mine(hp, h) # {} => local \in {c.user : c \in Mine(hp, h)}
      /\ Tokens(hp, h) # {} => local \in {c.id : c \in Tokens(hp, h)}
    BY Zenon, AuthenticateIs
<1> HIDE DEF local, p, r
<1>8. r.status = 0 <=> p # NoPrincipal
    BY Zenon, <1>2, <1>3, <1>6
<1>9. r.status = 0 <=> Mine(hp, h) # {} \/ Tokens(hp, h) # {} \/ Approved(hp, h, v)
    BY Zenon, <1>4, <1>5, <1>7, <1>8
<1>10. /\ Mine(hp, h) # {} => r.principal \in {c.user : c \in Mine(hp, h)}
       /\ Tokens(hp, h) # {} => r.principal \in {c.id : c \in Tokens(hp, h)}
    BY Zenon, <1>3, <1>5, <1>7
<1> QED BY Zenon, <1>1, <1>9, <1>10 DEF r

\* A gate that compiles admits exactly its own credentials, under their names
\* (AuthGateIsExact), for every gate, header and verdict.
LEMMA GateExact == ASSUME NEW hp \in Gates PROVE AuthGateIsExact(hp, Headers, Verdicts)
<1> SUFFICES ASSUME Nameable(hp), CompileAuth(hp), hp.required
             PROVE  /\ \A h \in Headers, v \in Verdicts :
                          LET r == checkAuth(hp, TRUE, h, v) IN
                          /\ checkAuth(hp, FALSE, h, v).status = 403
                          /\ (r.status = 0) = (\/ Mine(hp, h) # {} \/ Tokens(hp, h) # {}
                                               \/ hp.broker # NoBroker /\ h # Absent
                                                  /\ v \notin {Refused, Broken, NoPrincipal})
                          /\ Mine(hp, h) # {} => r.principal \in {c.user : c \in Mine(hp, h)}
                          /\ Tokens(hp, h) # {} => r.principal \in {c.id : c \in Tokens(hp, h)}
                    /\ ChallengeSchemes(hp) # {}
                    /\ \A s \in ChallengeSchemes(hp) : \E h \in Headers, v \in Verdicts :
                          h.scheme = s /\ checkAuth(hp, TRUE, h, v).status = 0
    BY Zenon DEF AuthGateIsExact, GateIsExact, Mine, Tokens
<1>1. ASSUME NEW h \in Headers, NEW v \in Verdicts
      PROVE  LET r == checkAuth(hp, TRUE, h, v) IN
             /\ checkAuth(hp, FALSE, h, v).status = 403
             /\ (r.status = 0) = (\/ Mine(hp, h) # {} \/ Tokens(hp, h) # {}
                                  \/ hp.broker # NoBroker /\ h # Absent
                                     /\ v \notin {Refused, Broken, NoPrincipal})
             /\ Mine(hp, h) # {} => r.principal \in {c.user : c \in Mine(hp, h)}
             /\ Tokens(hp, h) # {} => r.principal \in {c.id : c \in Tokens(hp, h)}
    <2> DEFINE r == checkAuth(hp, TRUE, h, v)
    <2>1. /\ checkAuth(hp, FALSE, h, v).status = 403
          /\ r.status = 0 <=> Mine(hp, h) # {} \/ Tokens(hp, h) # {} \/ Approved(hp, h, v)
          /\ Mine(hp, h) # {} => r.principal \in {c.user : c \in Mine(hp, h)}
          /\ Tokens(hp, h) # {} => r.principal \in {c.id : c \in Tokens(hp, h)}
        BY Zenon, CheckIs
    <2> HIDE DEF r
    <2>2. (r.status = 0) = (Mine(hp, h) # {} \/ Tokens(hp, h) # {} \/ Approved(hp, h, v))
        BY <2>1
    <2>3. Approved(hp, h, v) = (hp.broker # NoBroker /\ h # Absent /\ v \notin {Refused, Broken, NoPrincipal})
        BY Zenon DEF Approved
    <2> QED BY Zenon, <2>1, <2>2, <2>3 DEF r
<1>a. ASSUME NEW h \in Headers, NEW w \in Verdicts,
             Mine(hp, h) # {} \/ Tokens(hp, h) # {} \/ Approved(hp, h, w)
      PROVE  checkAuth(hp, TRUE, h, w).status = 0
    <2> DEFINE r == checkAuth(hp, TRUE, h, w)
    <2>1. /\ checkAuth(hp, FALSE, h, w).status = 403
          /\ r.status = 0 <=> Mine(hp, h) # {} \/ Tokens(hp, h) # {} \/ Approved(hp, h, w)
          /\ Mine(hp, h) # {} => r.principal \in {c.user : c \in Mine(hp, h)}
          /\ Tokens(hp, h) # {} => r.principal \in {c.id : c \in Tokens(hp, h)}
        BY Zenon, CheckIs
    <2> QED BY Zenon, <1>a, <2>1
<1>2. PICK v \in Verdicts : v \notin {Refused, Broken, NoPrincipal}
    BY Zenon, GateAssumption
<1>3. ASSUME NEW h \in Headers, Mine(hp, h) # {} \/ Tokens(hp, h) # {}
      PROVE  checkAuth(hp, TRUE, h, v).status = 0
    BY Zenon, <1>3, <1>a
<1>4. ASSUME hp.broker # NoBroker, NEW s \in {"Basic", "Bearer"}
      PROVE  \E h \in Headers : h.scheme = s /\ checkAuth(hp, TRUE, h, v).status = 0
    <2>1. PICK h \in Headers : h.scheme = s
        BY Zenon, GateAssumption
    <2>2. h # Absent
        BY <2>1 DEF Absent
    <2>3. Approved(hp, h, v)
        BY Zenon, <1>2, <1>4, <2>2 DEF Approved
    <2> QED BY Zenon, <2>1, <2>3, <1>a
<1>5. ASSUME hp.basic # <<>>
      PROVE  \E h \in Headers : h.scheme = "Basic" /\ checkAuth(hp, TRUE, h, v).status = 0
    <2>1. hp.basic \in Seq([user : Seq(Char), hash : Seq(Char)])
        BY Zenon, GateAssumption
    <2>2. 1 \in DOMAIN hp.basic
        BY <1>5, <2>1
    <2>3. hp.basic[1] \in Range(hp.basic)
        BY Zenon, <2>2 DEF Range
    <2>4. PICK h \in Headers : h.scheme = "Basic" /\ h.value = hp.basic[1].user \o <<Colon>> \o hp.basic[1].hash
        BY Zenon, <2>3, GateAssumption
    <2>5. Mine(hp, h) # {}
        BY Zenon, <2>3, <2>4 DEF Mine
    <2> QED BY Zenon, <1>3, <2>4, <2>5
<1>6. ASSUME hp.bearer # <<>>
      PROVE  \E h \in Headers : h.scheme = "Bearer" /\ checkAuth(hp, TRUE, h, v).status = 0
    <2>1. hp.bearer \in Seq([id : Seq(Char), hash : Seq(Char)])
        BY Zenon, GateAssumption
    <2>2. 1 \in DOMAIN hp.bearer
        BY <1>6, <2>1
    <2>3. hp.bearer[1] \in Range(hp.bearer)
        BY Zenon, <2>2 DEF Range
    <2>4. PICK h \in Headers : h.scheme = "Bearer" /\ h.value = hp.bearer[1].hash
        BY Zenon, <2>3, GateAssumption
    <2>5. Tokens(hp, h) # {}
        BY Zenon, <2>3, <2>4 DEF Tokens
    <2> QED BY Zenon, <1>3, <2>4, <2>5
<1>7. hp.basic # <<>> \/ hp.bearer # <<>> \/ hp.broker # NoBroker
    BY Zenon DEF CompileAuth
<1>8. ChallengeSchemes(hp) # {}
    BY Zenon, <1>7 DEF ChallengeSchemes
<1>9. ASSUME NEW s \in ChallengeSchemes(hp)
      PROVE  \E h \in Headers, w \in Verdicts : h.scheme = s /\ checkAuth(hp, TRUE, h, w).status = 0
    <2>1. \/ s = "Basic" /\ (hp.basic # <<>> \/ hp.broker # NoBroker)
          \/ s = "Bearer" /\ (hp.bearer # <<>> \/ hp.broker # NoBroker)
        BY Zenon DEF ChallengeSchemes
    <2>2. \E h \in Headers : h.scheme = s /\ checkAuth(hp, TRUE, h, v).status = 0
        BY Zenon, <1>4, <1>5, <1>6, <2>1
    <2> QED BY Zenon, <2>2
<1> QED BY Zenon, <1>1, <1>8, <1>9

-----------------------------------------------------------------------------
(* Clones *)

\* The chain CloneChain copies, and an element of the copy.
Kept(ca, realChain) == IF Fits(ca, Len(realChain) - 1) THEN realChain ELSE <<realChain[1]>>

\* An element of the copy.
Copy(ca, chain, i) ==
    [sub |-> chain[i].sub,
     iss |-> IF i = Len(chain) THEN CAName ELSE chain[i + 1].sub,
     key |-> derivedKey(chain[i], i),
     by |-> IF i = Len(chain) THEN CAKey ELSE derivedKey(chain[i + 1], i + 1),
     notAfter |-> notAfter(ca, chain, i),
     isCA |-> chain[i].isCA]

\* c is the copy of chain.
Clone(ca, chain, c) ==
    /\ chain \in Seq(RealCert) /\ Len(chain) \in Nat /\ Len(chain) # 0 /\ Len(c) = Len(chain)
    /\ c \in Seq({Copy(ca, chain, i) : i \in 1 .. Len(chain)}) /\ DOMAIN c = 1 .. Len(chain)
    /\ \A i \in 1 .. Len(chain) : chain[i] \in RealCert /\ c[i] = Copy(ca, chain, i)

\* CloneChain copies what fits, element by element.
LEMMA CloneIs ==
    ASSUME NEW p \in RealChains
    PROVE  Clone(p.ca, Kept(p.ca, p.chain), CloneChain(p.ca, p.chain))
<1> DEFINE k == Kept(p.ca, p.chain)
           n == Len(k)
           S == {Copy(p.ca, k, i) : i \in 1 .. n}
           f == [i \in 1 .. n |-> Copy(p.ca, k, i)]
<1>1. p.chain \in Seq(RealCert) /\ p.chain # <<>>
    BY Zenon, ChainAssumption
<1>2. p.chain[1] \in RealCert /\ Len(p.chain) # 0
    BY <1>1
<1>3. k \in Seq(RealCert) /\ Len(k) # 0
    <2>1. CASE k = p.chain
        BY Zenon, <1>1, <1>2, <2>1
    <2>2. CASE k = <<p.chain[1]>>
        BY <1>2, <2>2
    <2> QED BY Zenon, <2>1, <2>2 DEF Kept
<1> HIDE DEF k
<1>4. n \in Nat /\ DOMAIN k = 1 .. n /\ \A i \in 1 .. n : k[i] \in RealCert
    BY <1>3
<1>5. CloneChain(p.ca, p.chain) = f
    BY Zenon, <1>4 DEF CloneChain, Kept, k, Copy
<1> HIDE DEF n
<1>6. f \in [1 .. n -> S] /\ \A i \in 1 .. n : f[i] = Copy(p.ca, k, i)
    BY Zenon
<1> HIDE DEF f, S
<1>7. f \in Seq(S) /\ Len(f) = n /\ DOMAIN f = 1 .. n
    BY Zenon, <1>4, <1>6, Numbered
<1>8. Clone(p.ca, k, f)
    BY Zenon, <1>3, <1>4, <1>6, <1>7 DEF Clone, n, S
<1> QED BY Zenon, <1>5, <1>8 DEF k

\* A clone never exceeds what its CA may issue (CloneIsIssuable), for every chain.
LEMMA Issues == ASSUME NEW p \in RealChains PROVE CloneIsIssuable(p.ca, p.chain)
<1> DEFINE ca == p.ca
           real == p.chain
           k == Kept(ca, real)
           c == CloneChain(ca, real)
           n == Len(c)
<1>1. /\ ca.pathLen \in Nat \cup {Unconstrained} /\ ca.notAfter \in Nat
      /\ real \in Seq(RealCert) /\ real # <<>>
    BY Zenon, ChainAssumption
<1>2. Clone(ca, k, c)
    BY Zenon, CloneIs
<1>3. Fits(ca, Len(real) - 1) => k = real
    BY Zenon DEF Kept
<1>4. ~Fits(ca, Len(real) - 1) => k = <<real[1]>>
    BY Zenon DEF Kept
<1>k. Len(real) \in Nat /\ Len(real) # 0
    BY <1>1
<1> HIDE DEF ca, real, k, c
<1>5. n = Len(k) /\ n \in Nat /\ n # 0
      /\ \A i \in 1 .. n : c[i].notAfter = notAfter(ca, k, i) /\ k[i].notAfter \in Nat
    <2>1. n = Len(k) /\ n \in Nat /\ n # 0
        BY Zenon, <1>2 DEF Clone
    <2>2. ASSUME NEW i \in 1 .. n PROVE c[i].notAfter = notAfter(ca, k, i) /\ k[i].notAfter \in Nat
        <3>1. k[i] \in RealCert /\ c[i] = Copy(ca, k, i)
            BY Zenon, <1>2, <2>1 DEF Clone
        <3> QED BY <3>1 DEF Copy, RealCert
    <2> QED BY Zenon, <2>1, <2>2
<1> HIDE DEF n
<1>6. ca.pathLen # Unconstrained => n - 1 <= ca.pathLen
    <2>1. CASE Fits(ca, Len(real) - 1)
        <3>1. n = Len(real)
            BY Zenon, <1>3, <1>5, <2>1
        <3> QED BY <2>1, <3>1 DEF Fits
    <2>2. CASE ~Fits(ca, Len(real) - 1)
        <3>1. n = 1
            BY <1>4, <1>5, <2>2
        <3> QED BY <1>1, <3>1
    <2> QED BY Zenon, <2>1, <2>2
<1>7. n < Len(real) => Len(real) - 1 > ca.pathLen
    <2>1. n < Len(real) => ~Fits(ca, Len(real) - 1)
        <3>1. ~(Len(real) < Len(real))
            BY <1>k
        <3> QED BY Zenon, <1>3, <1>5, <3>1
    <2> QED BY <1>1, <1>k, <2>1 DEF Fits
<1>8. c[n].notAfter <= ca.notAfter
    <2>1. n \in 1 .. n
        BY <1>5
    <2>2. c[n].notAfter = notAfter(ca, k, n) /\ k[n].notAfter \in Nat
        BY Zenon, <1>5, <2>1
    <2>3. notAfter(ca, k, n) = IF k[n].notAfter > ca.notAfter THEN ca.notAfter ELSE k[n].notAfter
        BY Zenon, <1>5 DEF notAfter
    <2> QED BY <1>1, <2>2, <2>3
<1>9. ASSUME NEW i \in 1 .. n - 1 PROVE c[i].notAfter = real[i].notAfter
    <2>1. i \in 1 .. n /\ i # n /\ n # 1
        BY <1>5
    <2>2. notAfter(ca, k, i) = k[i].notAfter
        BY Zenon, <1>5, <2>1 DEF notAfter
    <2>3. k = real
        <3>1. CASE ~Fits(ca, Len(real) - 1)
            <4>1. n = 1
                BY <1>4, <1>5, <3>1
            <4> QED BY Zenon, <2>1, <4>1
        <3> QED BY Zenon, <1>3, <3>1
    <2> QED BY Zenon, <1>5, <2>1, <2>2, <2>3
<1> QED BY Zenon, <1>6, <1>7, <1>8, <1>9 DEF CloneIsIssuable, n, c, ca, real

\* c is a chain whose names are distinct, each element issued by the next, and
\* bag holds its elements in some order.
Shuffled(c, n, q, bag) ==
    /\ n \in Nat /\ n # 0 /\ q \in [1 .. n -> 1 .. n]
    /\ \A j \in 1 .. n : \E i \in 1 .. n : q[i] = j
    /\ \A i \in 1 .. n, j \in 1 .. n : c[i].sub = c[j].sub => i = j
    /\ \A i \in 1 .. n : c[i].sub # CAName
    /\ \A i \in 1 .. n : i # n => c[i].iss = c[i + 1].sub
    /\ c[n].iss = CAName
    /\ Len(bag) = n /\ DOMAIN bag = 1 .. n /\ \A i \in 1 .. n : bag[i] = c[q[i]]

\* bySubject finds every element of the chain in the bag, and nothing for the CA.
Subjects(c, n, bag) ==
    /\ bySubject(bag, CAName) = 0
    /\ \A j \in 1 .. n : /\ bySubject(bag, c[j].sub) \in 1 .. n
                         /\ bag[bySubject(bag, c[j].sub)] = c[j]

\* bySubject finds every element of a chain with distinct names in any order.
LEMMA SubjectIs ==
    ASSUME NEW c, NEW n, NEW q, NEW bag, Shuffled(c, n, q, bag)
    PROVE  Subjects(c, n, bag)
<1> DEFINE At(x) == {i \in DOMAIN bag : bag[i].sub = x}
<1>1. /\ n \in Nat /\ DOMAIN bag = 1 .. n /\ q \in [1 .. n -> 1 .. n]
      /\ \A i \in 1 .. n : bag[i] = c[q[i]]
    BY Zenon DEF Shuffled
<1>q. \A i \in 1 .. n : q[i] \in 1 .. n
    BY Zenon, <1>1
<1>d. /\ \A i \in 1 .. n, j \in 1 .. n : c[i].sub = c[j].sub => i = j
      /\ \A i \in 1 .. n : c[i].sub # CAName
    BY Zenon DEF Shuffled
<1>2. At(CAName) = {}
    <2>1. ASSUME NEW i \in 1 .. n PROVE bag[i].sub # CAName
        <3>1. bag[i] = c[q[i]] /\ c[q[i]].sub # CAName
            BY Zenon, <1>1, <1>q, <1>d
        <3> QED BY Zenon, <3>1
    <2> QED BY Zenon, <1>1, <2>1
<1>3. bySubject(bag, CAName) = 0
    BY Zenon, <1>2 DEF bySubject
<1>4. ASSUME NEW j \in 1 .. n
      PROVE  /\ bySubject(bag, c[j].sub) \in 1 .. n
             /\ bag[bySubject(bag, c[j].sub)] = c[j]
    <2> DEFINE S == At(c[j].sub)
    <2>1. PICK i \in 1 .. n : q[i] = j
        BY Zenon DEF Shuffled
    <2>2. S # {} /\ S \in SUBSET (1 .. n)
        BY Zenon, <1>1, <2>1
    <2>3. S \in SUBSET (0 .. n)
        <3>1. 1 .. n \subseteq 0 .. n
            BY <1>1
        <3> HIDE DEF S
        <3> QED BY Zenon, <2>2, <3>1
    <2>4. bySubject(bag, c[j].sub) = Max(S)
        BY Zenon, <2>2 DEF bySubject
    <2>5. Max(S) \in S
        <3> HIDE DEF S
        <3> QED BY Zenon, <1>1, <2>2, <2>3, MaxIs
    <2>6. Max(S) \in 1 .. n /\ c[q[Max(S)]].sub = c[j].sub
        BY Zenon, <1>1, <2>5
    <2> HIDE DEF S
    <2>7. q[Max(S)] = j
        BY Zenon, <1>q, <1>d, <2>6
    <2> QED BY Zenon, <1>1, <2>4, <2>6, <2>7
<1> QED BY Zenon, <1>3, <1>4 DEF Subjects

\* Where the leaf of the bag is.
Leaf(bag) == FirstIn(bag, LAMBDA d : ~isIssuer(bag, d.sub))

\* The first certificate that issued none is the leaf.
LEMMA LeafIs ==
    ASSUME NEW c, NEW n, NEW q, NEW bag, Shuffled(c, n, q, bag)
    PROVE  Leaf(bag) \in 1 .. n /\ bag[Leaf(bag)] = c[1]
<1> DEFINE I == {i \in 1 .. n : ~isIssuer(bag, bag[i].sub)}
<1>1. /\ n \in Nat /\ n # 0 /\ DOMAIN bag = 1 .. n /\ q \in [1 .. n -> 1 .. n] /\ Len(bag) = n
      /\ \A i \in 1 .. n : bag[i] = c[q[i]]
    BY Zenon DEF Shuffled
<1>d. /\ \A i \in 1 .. n, j \in 1 .. n : c[i].sub = c[j].sub => i = j
      /\ \A i \in 1 .. n : i # n => c[i].iss = c[i + 1].sub
    BY Zenon DEF Shuffled
<1>2. Leaf(bag) = First(I)
    BY Zenon, <1>1 DEF FirstIn, First, Leaf
<1>3. 1 \in 1 .. n /\ \A i \in 1 .. n : i # n => i + 1 \in 1 .. n /\ i + 1 # 1
    BY <1>1
<1>4. ~isIssuer(bag, c[1].sub)
    <2>0. \A i \in 1 .. n : q[i] \in 1 .. n
        BY Zenon, <1>1
    <2>1. ASSUME NEW i \in 1 .. n PROVE c[i].iss # c[1].sub
        <3>1. CASE i = n
            BY Zenon, <1>3, <3>1 DEF Shuffled
        <3>2. CASE i # n
            <4>1. c[i].iss = c[i + 1].sub /\ i + 1 \in 1 .. n /\ i + 1 # 1
                BY Zenon, <1>3, <3>2 DEF Shuffled
            <4> QED BY Zenon, <1>3, <1>d, <4>1
        <3> QED BY Zenon, <3>1, <3>2
    <2> QED BY ZenonT(60), <1>1, <2>0, <2>1 DEF isIssuer
<1>5. ASSUME NEW j \in 1 .. n, j # 1 PROVE isIssuer(bag, c[j].sub)
    <2>1. j - 1 \in 1 .. n /\ j - 1 # n /\ (j - 1) + 1 = j
        BY <1>1, <1>5
    <2>2. c[j - 1].iss = c[j].sub
        <3>1. c[j - 1].iss = c[(j - 1) + 1].sub
            BY Zenon, <1>d, <2>1
        <3> QED BY Zenon, <2>1, <3>1
    <2>3. PICK i \in 1 .. n : q[i] = j - 1
        BY Zenon, <2>1 DEF Shuffled
    <2> QED BY ZenonT(60), <1>1, <2>2, <2>3 DEF isIssuer
<1>6. I # {} /\ I \in SUBSET (1 .. n)
    <2>1. PICK i \in 1 .. n : q[i] = 1
        BY Zenon, <1>3 DEF Shuffled
    <2>2. i \in I
        BY Zenon, <1>1, <1>4, <2>1
    <2> QED BY Zenon, <2>2
<1>7. First(I) \in I
    <2> HIDE DEF I
    <2> QED BY Zenon, <1>1, <1>6, FirstIs
<1>8. First(I) \in 1 .. n /\ ~isIssuer(bag, c[q[First(I)]].sub)
    BY Zenon, <1>1, <1>7
<1> HIDE DEF I
<1>9. q[First(I)] = 1
    BY Zenon, <1>1, <1>5, <1>8
<1> QED BY Zenon, <1>1, <1>2, <1>8, <1>9

\* The loop of orderChainLeafFirst after m turns has found the first m + 1.
Found(c, n, C, m, s) ==
    s \in Seq(C) /\ Len(s) = m + 1 /\ \A i \in 1 .. m + 1 : s[i] = c[i]

\* A turn of orderChainLeafFirst finds the next element of the chain.
LEMMA FollowIs ==
    ASSUME NEW c, NEW n, NEW q, NEW bag, Shuffled(c, n, q, bag), NEW C, NEW m \in 1 .. n, m # n,
           \A i \in 1 .. n : c[i] \in C, NEW s, Found(c, n, C, m - 1, s)
    PROVE  Found(c, n, C, m, follow(bag, s))
<1> DEFINE next == bySubject(bag, c[m + 1].sub)
<1>1. n \in Nat /\ m \in Nat /\ m + 1 \in 1 .. n /\ m \in 1 .. n /\ (m - 1) + 1 = m /\ next # 0
    <2>1. n \in Nat
        BY Zenon DEF Shuffled
    <2>2. m \in Nat /\ m + 1 \in 1 .. n /\ (m - 1) + 1 = m
        BY <2>1
    <2>3. next \in 1 .. n
        <3>1. Subjects(c, n, bag)
            BY Zenon, SubjectIs
        <3> QED BY Zenon, <2>2, <3>1 DEF Subjects
    <2>4. next # 0
        BY <2>1, <2>3
    <2> QED BY Zenon, <2>1, <2>2, <2>4
<1>2. s \in Seq(C) /\ Len(s) = m /\ \A i \in 1 .. m : s[i] = c[i]
    BY Zenon, <1>1 DEF Found
<1>3. bag[next] = c[m + 1] /\ c[m + 1] \in C
    <2>1. m + 1 \in 1 .. n
        BY Zenon, <1>1
    <2>2. Subjects(c, n, bag)
        BY Zenon, SubjectIs
    <2> QED BY Zenon, <2>1, <2>2 DEF Subjects
<1>4. s[Len(s)].iss = c[m + 1].sub
    <2>1. m \in 1 .. m
        BY <1>1
    <2> QED BY Zenon, <1>1, <1>2, <2>1 DEF Shuffled
<1>5. \A i \in DOMAIN s : s[i].sub # c[m + 1].sub
    <2>1. DOMAIN s = 1 .. m
        BY <1>2
    <2>2. \A i \in 1 .. m : i \in 1 .. n /\ i # m + 1
        BY <1>1
    <2>3. \A i \in 1 .. n, j \in 1 .. n : c[i].sub = c[j].sub => i = j
        BY Zenon DEF Shuffled
    <2>4. \A i \in 1 .. m : c[i].sub # c[m + 1].sub
        BY Zenon, <1>1, <2>2, <2>3
    <2> QED BY Zenon, <1>2, <2>1, <2>4
<1> DEFINE t == Append(s, c[m + 1])
<1>6. follow(bag, s) = t
    <2> HIDE DEF next
    <2>1. follow(bag, s) = IF next = 0 \/ \E i \in DOMAIN s : s[i].sub = bag[next].sub
                           THEN s ELSE Append(s, bag[next])
        BY Zenon, <1>4 DEF follow, next
    <2> QED BY Zenon, <1>1, <1>3, <1>5, <2>1
<1>7. t \in Seq(C) /\ Len(t) = m + 1 /\ t[m + 1] = c[m + 1] /\ \A i \in 1 .. m : t[i] = s[i]
    BY <1>1, <1>2, <1>3
<1> HIDE DEF t
<1>8. \A i \in 1 .. m + 1 : i \in 1 .. m \/ i = m + 1
    BY <1>1
<1>9. \A i \in 1 .. m + 1 : t[i] = c[i]
    BY Zenon, <1>2, <1>7, <1>8
<1> QED BY Zenon, <1>6, <1>7, <1>9 DEF Found

\* A turn of orderChainLeafFirst leaves a sequence of certificates.
LEMMA FollowType ==
    ASSUME NEW c, NEW n, NEW q, NEW bag, Shuffled(c, n, q, bag), NEW C,
           \A i \in 1 .. n : c[i] \in C, NEW s \in Seq(C)
    PROVE  follow(bag, s) \in Seq(C)
<1> DEFINE next == bySubject(bag, s[Len(s)].iss)
           S == {i \in DOMAIN bag : bag[i].sub = s[Len(s)].iss}
<1>1. /\ n \in Nat /\ DOMAIN bag = 1 .. n /\ \A i \in 1 .. n : bag[i] \in C
    <2>1. /\ n \in Nat /\ DOMAIN bag = 1 .. n /\ q \in [1 .. n -> 1 .. n]
          /\ \A i \in 1 .. n : bag[i] = c[q[i]]
        BY Zenon DEF Shuffled
    <2>2. \A i \in 1 .. n : q[i] \in 1 .. n
        BY Zenon, <2>1
    <2> QED BY Zenon, <2>1, <2>2
<1>2. next = 0 \/ bag[next] \in C
    <2>1. CASE S = {}
        BY Zenon, <2>1 DEF bySubject
    <2>2. CASE S # {}
        <3>1. next = Max(S)
            BY Zenon, <2>2 DEF bySubject
        <3>2. S \in SUBSET (1 .. n) /\ 1 .. n \subseteq 0 .. n
            BY <1>1
        <3>3. S \in SUBSET (0 .. n)
            BY Zenon, <3>2
        <3> HIDE DEF S
        <3>4. Max(S) \in S
            BY Zenon, <1>1, <2>2, <3>3, MaxIs
        <3> QED BY Zenon, <1>1, <3>1, <3>2, <3>4
    <2> QED BY Zenon, <2>1, <2>2
<1>3. follow(bag, s) = IF next = 0 \/ \E i \in DOMAIN s : s[i].sub = bag[next].sub
                       THEN s ELSE Append(s, bag[next])
    BY Zenon DEF follow
<1> HIDE DEF next
<1>4. ASSUME NEW x \in C PROVE Append(s, x) \in Seq(C)
    OBVIOUS
<1> QED BY Zenon, <1>2, <1>3, <1>4

\* orderChainLeafFirst puts the chain back together.
LEMMA OrderIs ==
    ASSUME NEW c, NEW n, NEW q, NEW bag, Shuffled(c, n, q, bag), NEW C,
           c \in Seq(C), Len(c) = n, \A i \in 1 .. n : c[i] \in C
    PROVE  orderChainLeafFirst(bag) = c
<1> DEFINE leaf == Leaf(bag)
           s0 == <<bag[leaf]>>
           R(w) == [m \in 0 .. Len(bag) |-> IF m = 0 THEN s0 ELSE follow(bag, w[m - 1])]
           f == [p \in (1 .. n) \X Seq(C) |-> follow(bag, p[2])]
<1>1. n \in Nat /\ n # 0 /\ Len(bag) = n
    BY Zenon DEF Shuffled
<1>2. leaf \in 1 .. n /\ bag[leaf] = c[1]
    BY Zenon, LeafIs
<1>3. leaf # 0 /\ 1 \in 1 .. n
    BY <1>1, <1>2
<1> HIDE DEF leaf
<1>4. s0 \in Seq(C) /\ Len(s0) = 1 /\ s0[1] = c[1]
    <2>1. bag[leaf] \in C
        BY Zenon, <1>2, <1>3
    <2> QED BY <1>2, <2>1
<1> HIDE DEF s0
<1>5. f \in [(1 .. n) \X Seq(C) -> Seq(C)]
    <2>1. \A p \in (1 .. n) \X Seq(C) : p[2] \in Seq(C)
        OBVIOUS
    <2> QED BY Zenon, <2>1, FollowType
<1>6. \A i \in 1 .. n, s \in Seq(C) : f[<<i, s>>] = follow(bag, s)
    <2> TAKE i \in 1 .. n, s \in Seq(C)
    <2>1. <<i, s>> \in (1 .. n) \X Seq(C) /\ <<i, s>>[2] = s
        OBVIOUS
    <2> QED BY Zenon, <2>1
<1> HIDE DEF f
<1>7. PICK g : Built(Seq(C), s0, n, f, g)
    BY Zenon, <1>1, <1>4, <1>5, Builds
<1>8. g = R(g)
    <2>1. g \in [0 .. n -> Seq(C)]
        BY Zenon, <1>7 DEF Built
    <2>2. ASSUME NEW m \in 0 .. n PROVE g[m] = IF m = 0 THEN s0 ELSE follow(bag, g[m - 1])
        <3>1. CASE m = 0
            BY Zenon, <1>7, <3>1 DEF Built
        <3>2. CASE m # 0
            <4>1. m \in 1 .. n /\ m - 1 \in 0 .. n
                BY <1>1, <3>2
            <4>2. g[m - 1] \in Seq(C)
                BY Zenon, <2>1, <4>1
            <4> QED BY Zenon, <1>6, <1>7, <3>2, <4>1, <4>2 DEF Built
        <3> QED BY Zenon, <3>1, <3>2
    <2> QED BY Zenon, <1>1, <2>1, <2>2
<1>9. PICK w : /\ w = R(w)
               /\ orderChainLeafFirst(bag) =
                     IF Len(w[Len(bag)]) # Len(bag) THEN NoOrder ELSE w[Len(bag)]
    BY Zenon, <1>3, <1>8 DEF orderChainLeafFirst, leaf, s0, Leaf
<1>10. w[0] = s0 /\ \A m \in 1 .. n : w[m] = follow(bag, w[m - 1])
    <2>1. 0 \in 0 .. n /\ \A m \in 1 .. n : m \in 0 .. n /\ m # 0
        BY <1>1
    <2> QED BY Zenon, <1>1, <1>9, <2>1
<1> DEFINE G == {m \in 0 .. n : m # n => Found(c, n, C, m, w[m])}
<1>11. 0 \in G
    <2>1. 0 \in 0 .. n /\ 0 + 1 = 1 /\ \A i \in 1 .. 0 + 1 : i = 1
        BY <1>1
    <2> QED BY Zenon, <1>4, <1>10, <2>1 DEF Found
<1>12. ASSUME NEW m \in 1 .. n, m - 1 \in G PROVE m \in G
    <2>1. m \in 0 .. n /\ m - 1 # n
        BY <1>1
    <2>2. Found(c, n, C, m - 1, w[m - 1])
        BY Zenon, <1>12, <2>1
    <2>3. m # n => Found(c, n, C, m, follow(bag, w[m - 1]))
        BY Zenon, <2>2, FollowIs
    <2> QED BY Zenon, <1>10, <2>1, <2>3
<1>13. Found(c, n, C, n - 1, w[n - 1])
    <2>1. n - 1 \in 0 .. n /\ n - 1 # n
        BY <1>1
    <2>2. \A i \in 0 .. n : i \in G
        <3> HIDE DEF G
        <3> QED BY Zenon, <1>1, <1>11, <1>12, Counting
    <2> QED BY Zenon, <2>1, <2>2
<1>14. w[n - 1] = c
    <2>1. (n - 1) + 1 = n
        BY <1>1
    <2>2. w[n - 1] \in Seq(C) /\ Len(w[n - 1]) = n /\ \A i \in 1 .. n : w[n - 1][i] = c[i]
        BY Zenon, <1>13, <2>1 DEF Found
    <2> QED BY Zenon, <2>2, SameSeq
<1>15. w[n] = c
    <2>1. c[Len(c)].iss = CAName
        BY Zenon DEF Shuffled
    <2>2. bySubject(bag, CAName) = 0
        <3>1. Subjects(c, n, bag)
            BY Zenon, SubjectIs
        <3> QED BY Zenon, <3>1 DEF Subjects
    <2>3. follow(bag, c) = c
        BY Zenon, <2>1, <2>2 DEF follow
    <2>4. n \in 1 .. n
        BY <1>1
    <2> QED BY Zenon, <1>10, <1>14, <2>3, <2>4
<1> QED BY Zenon, <1>1, <1>9, <1>15

\* The names of a clone and its signatures.
LEMMA ClonedChain ==
    ASSUME NEW ca, NEW k, NEW c, Clone(ca, k, c), Distinct(k), NEW q \in Bijection(DOMAIN c, DOMAIN c)
    PROVE  Shuffled(c, Len(c), q, [i \in DOMAIN c |-> c[q[i]]])
<1> DEFINE n == Len(c)
           bag == [i \in 1 .. n |-> c[q[i]]]
           S == {Copy(ca, k, i) : i \in 1 .. n}
<1>1. /\ n \in Nat /\ n # 0 /\ n = Len(k) /\ DOMAIN c = 1 .. n /\ c \in Seq(S)
      /\ k \in Seq(RealCert) /\ \A i \in 1 .. n : c[i] = Copy(ca, k, i)
    BY Zenon DEF Clone
<1>2. DOMAIN k = 1 .. n
    <2>1. k \in Seq(RealCert) /\ n = Len(k)
        BY Zenon, <1>1
    <2>2. DOMAIN k = 1 .. Len(k)
        BY Zenon, <2>1, SeqIs
    <2> QED BY Zenon, <2>1, <2>2
<1>3. q \in [1 .. n -> 1 .. n] /\ \A j \in 1 .. n : \E i \in 1 .. n : q[i] = j
    BY Zenon, <1>1 DEF Bijection, Injection, Surjection
<1>4. \A i \in 1 .. n : /\ c[i].sub = k[i].sub
                        /\ c[i].iss = IF i = n THEN CAName ELSE k[i + 1].sub
    <2> TAKE i \in 1 .. n
    <2>1. c[i] = Copy(ca, k, i)
        BY Zenon, <1>1
    <2>2. c[i].sub = k[i].sub
        BY <2>1 DEF Copy
    <2>3. c[i].iss = IF i = Len(k) THEN CAName ELSE k[i + 1].sub
        BY <2>1 DEF Copy
    <2> QED BY Zenon, <1>1, <2>2, <2>3
<1>5. n \in 1 .. n /\ \A i \in 1 .. n : i # n => i + 1 \in 1 .. n
    <2> HIDE DEF n
    <2>1. n \in Nat /\ n # 0
        BY Zenon, <1>1
    <2> QED BY <2>1
<1>6. \A i \in 1 .. n : q[i] \in 1 .. n
    BY Zenon, <1>3
<1>7. bag \in [1 .. n -> S]
    <2>1. \A i \in 1 .. n : c[i] \in S
        BY Zenon, <1>1
    <2> HIDE DEF S, n
    <2> QED BY Zenon, <1>6, <2>1
<1>8. Len(bag) = n /\ DOMAIN bag = 1 .. n /\ \A i \in 1 .. n : bag[i] = c[q[i]]
    <2>1. \A i \in 1 .. n : bag[i] = c[q[i]]
        BY Zenon
    <2> HIDE DEF bag, S, n
    <2> QED BY Zenon, <1>1, <1>7, <2>1, Numbered
<1>9. /\ \A i \in 1 .. n, j \in 1 .. n : c[i].sub = c[j].sub => i = j
      /\ \A i \in 1 .. n : c[i].sub # CAName
    BY Zenon, <1>2, <1>4 DEF Distinct
<1>10. c[n].iss = CAName /\ \A i \in 1 .. n : i # n => c[i].iss = c[i + 1].sub
    BY Zenon, <1>4, <1>5
<1>11. bag = [i \in DOMAIN c |-> c[q[i]]]
    BY Zenon, <1>1
<1> HIDE DEF bag, n
<1>12. Shuffled(c, n, q, bag)
    BY Zenon, <1>1, <1>3, <1>8, <1>9, <1>10 DEF Shuffled
<1> QED BY Zenon, <1>11, <1>12 DEF n

\* A clone whose issuers are CAs passes verify: each element is signed by the key
\* of the next, the last by the CA.
LEMMA CloneVerifies ==
    ASSUME NEW ca, NEW k, NEW c, Clone(ca, k, c), Issuable(c)
    PROVE  verify(c)
<1> DEFINE n == Len(c)
<1>1. /\ n \in Nat /\ n # 0 /\ n = Len(k) /\ DOMAIN c = 1 .. n
      /\ \A i \in 1 .. n : c[i] = Copy(ca, k, i)
    BY Zenon DEF Clone
<1> HIDE DEF n
<1>2. \A i \in 1 .. n : /\ c[i].sub = k[i].sub /\ c[i].key = derivedKey(k[i], i)
                        /\ c[i].by = IF i = n THEN CAKey ELSE derivedKey(k[i + 1], i + 1)
    <2> TAKE i \in 1 .. n
    <2>1. c[i] = Copy(ca, k, i)
        BY Zenon, <1>1
    <2>2. c[i].sub = k[i].sub /\ c[i].key = derivedKey(k[i], i)
        BY <2>1 DEF Copy
    <2>3. c[i].by = IF i = Len(k) THEN CAKey ELSE derivedKey(k[i + 1], i + 1)
        BY <2>1 DEF Copy
    <2> QED BY Zenon, <1>1, <2>2, <2>3
<1>3. 1 \in 1 .. n /\ \A i \in 1 .. n : i # n => i + 1 \in 1 .. n /\ i + 1 \in 2 .. n
    BY <1>1
<1>4. \A i \in 1 .. n : ~(i < n) => i = n
    BY <1>1
<1>5. \A i \in 1 .. n : i < n => i # n
    BY <1>1
<1>6. c[1].key = derivedKey(c[1], 1)
    BY Zenon, <1>2, <1>3 DEF derivedKey
<1>7. ASSUME NEW i \in 1 .. n, i < n PROVE CheckSignatureFrom(c[i], c[i + 1])
    BY Zenon, <1>2, <1>3, <1>5, <1>7 DEF CheckSignatureFrom, Issuable, n
<1>8. ASSUME NEW i \in 1 .. n, ~(i < n) PROVE c[i].by = CAKey
    BY Zenon, <1>2, <1>4, <1>8
<1> QED BY Zenon, <1>1, <1>6, <1>7, <1>8 DEF verify, n

\* A stored clone reloads as it was minted, in whatever order PKCS#12 returns it
\* (CloneReloads), for every chain of distinct names.
LEMMA Reloads == ASSUME NEW p \in RealChains PROVE CloneReloads(p.ca, p.chain)
<1> DEFINE ca == p.ca
           real == p.chain
           k == Kept(ca, real)
           c == CloneChain(ca, real)
           n == Len(c)
           C == {Copy(ca, k, i) : i \in 1 .. n}
<1> SUFFICES ASSUME Distinct(real) PROVE ReloadsAs(ca, real)
    BY Zenon DEF CloneReloads
<1>1. Clone(ca, k, c)
    BY Zenon, CloneIs
<1>2. Distinct(k)
    <2>1. real \in Seq(RealCert) /\ real # <<>>
        BY Zenon, ChainAssumption
    <2> HIDE DEF real
    <2>2. 1 \in DOMAIN real
        BY <2>1
    <2>3. CASE k = <<real[1]>>
        <3>1. DOMAIN k = {1} /\ k[1] = real[1]
            BY <2>3
        <3> QED BY Zenon, <2>2, <3>1 DEF Distinct
    <2> QED BY Zenon, <2>3 DEF Kept
<1> HIDE DEF ca, real, k
<1>3. c \in Seq(C) /\ \A i \in 1 .. n : c[i] \in C
    BY Zenon, <1>1 DEF Clone
<1> HIDE DEF c, C
<1>4. ASSUME NEW q \in Bijection(DOMAIN c, DOMAIN c)
      PROVE  /\ orderChainLeafFirst([i \in DOMAIN c |-> c[q[i]]]) = c
             /\ Issuable(c) => verify(orderChainLeafFirst([i \in DOMAIN c |-> c[q[i]]]))
    <2> DEFINE bag == [i \in DOMAIN c |-> c[q[i]]]
    <2>1. Shuffled(c, n, q, bag)
        BY Zenon, <1>1, <1>2, ClonedChain
    <2> HIDE DEF bag
    <2>2. orderChainLeafFirst(bag) = c
        BY Zenon, <1>3, <2>1, OrderIs
    <2>3. Issuable(c) => verify(c)
        BY Zenon, <1>1, CloneVerifies
    <2> QED BY Zenon, <2>2, <2>3 DEF bag
<1> QED BY Zenon, <1>4 DEF ReloadsAs, c

-----------------------------------------------------------------------------
(* The chain of the signing CA *)

\* A state of the loop of resolveChain.
LoopState == [st : {"run", "ok", "error"}, links : Seq(Cert)]

\* The loop of resolveChain after n turns.
Climbed(c, pool, n, s) ==
    /\ s \in LoopState /\ Len(s.links) \in Nat /\ Len(s.links) >= 1 /\ s.links[1] = c
    /\ \A i, j \in 1 .. Len(s.links) : i # j => s.links[i] # s.links[j]
    /\ \A i \in 1 .. Len(s.links) - 1 :
          CheckSignatureFrom(s.links[i], s.links[i + 1]) /\ s.links[i + 1] \in Range(pool)
    /\ s.st = "run" => Len(s.links) = n + 1
    /\ s.st = "ok" => \E p \in Range(pool) : isSelfSigned(p) /\ CheckSignatureFrom(s.links[Len(s.links)], p)

\* findVerifiedParent returns a certificate of the bundle that signed this one.
LEMMA ParentIs ==
    ASSUME NEW c, NEW pool \in Seq(Cert), findVerifiedParent(c, pool) # 0
    PROVE  LET p == pool[findVerifiedParent(c, pool)] IN
           p \in Cert /\ p \in Range(pool) /\ CheckSignatureFrom(c, p)
<1> DEFINE I == {i \in 1 .. Len(pool) : pool[i].sub = c.iss /\ CheckSignatureFrom(c, pool[i])}
<1>1. findVerifiedParent(c, pool) = First(I)
    BY Zenon DEF findVerifiedParent, FirstIn, First
<1>2. Len(pool) \in Nat /\ DOMAIN pool = 1 .. Len(pool) /\ \A i \in 1 .. Len(pool) : pool[i] \in Cert
    OBVIOUS
<1>3. I \in SUBSET (1 .. Len(pool))
    BY Zenon
<1>4. First(I) # 0 => First(I) \in I
    <2> HIDE DEF I
    <2> QED BY Zenon, <1>2, <1>3, FirstIs
<1>5. First(I) \in 1 .. Len(pool) /\ CheckSignatureFrom(c, pool[First(I)])
    BY Zenon, <1>1, <1>4
<1> HIDE DEF I
<1> QED BY Zenon, <1>1, <1>2, <1>5 DEF Range

\* A turn of resolveChain leaves a state of its loop.
LEMMA ClimbType ==
    ASSUME NEW pool \in Seq(Cert), NEW s \in LoopState
    PROVE  climb(pool, s) \in LoopState
<1> DEFINE p == findVerifiedParent(s.links[Len(s.links)], pool)
<1>1. p # 0 => pool[p] \in Cert
    BY Zenon, ParentIs
<1> HIDE DEF p
<1>2. s.links \in Seq(Cert) /\ s.st \in {"run", "ok", "error"}
    BY DEF LoopState
<1>3. p # 0 => Append(s.links, pool[p]) \in Seq(Cert)
    BY <1>1, <1>2
<1>4. [s EXCEPT !.st = "error"] \in LoopState /\ [s EXCEPT !.st = "ok"] \in LoopState
    BY DEF LoopState
<1>5. p # 0 => [s EXCEPT !.links = Append(@, pool[p])] \in LoopState
    BY Zenon, <1>3 DEF LoopState
<1>6. \/ climb(pool, s) = s \/ climb(pool, s) = [s EXCEPT !.st = "error"]
      \/ climb(pool, s) = [s EXCEPT !.st = "ok"]
      \/ p # 0 /\ climb(pool, s) = [s EXCEPT !.links = Append(@, pool[p])]
    <2>1. CASE s.st # "run"
        BY <2>1 DEF climb
    <2>2. CASE s.st = "run" /\ (p = 0 \/ pool[p] \in Range(s.links))
        BY <2>2 DEF climb, p
    <2>3. CASE s.st = "run" /\ p # 0 /\ pool[p] \notin Range(s.links)
        BY <2>3 DEF climb, p
    <2> QED BY Zenon, <2>1, <2>2, <2>3
<1> QED BY Zenon, <1>4, <1>5, <1>6

\* A turn of resolveChain keeps what is known of the links so far.
LEMMA ClimbIs ==
    ASSUME NEW c, NEW pool \in Seq(Cert), NEW n \in Nat, n # 0, NEW s, Climbed(c, pool, n - 1, s)
    PROVE  Climbed(c, pool, n, climb(pool, s))
<1> DEFINE k == findVerifiedParent(s.links[Len(s.links)], pool)
           p == pool[k]
           m == Len(s.links)
<1>0. s \in LoopState /\ s.links \in Seq(Cert) /\ m \in Nat /\ m >= 1 /\ n - 1 # n
    BY DEF Climbed, LoopState
<1>1. k # 0 => p \in Cert /\ p \in Range(pool) /\ CheckSignatureFrom(s.links[Len(s.links)], p)
    BY Zenon, ParentIs
<1> HIDE DEF k, p
<1>2. CASE s.st # "run"
    <2>1. climb(pool, s) = s
        BY <1>2 DEF climb
    <2>2. Climbed(c, pool, n, s)
        BY ZenonT(30), <1>2 DEF Climbed
    <2> QED BY Zenon, <2>1, <2>2
<1>3. CASE s.st = "run" /\ (k = 0 \/ p \in Range(s.links))
    <2>1. climb(pool, s) = [s EXCEPT !.st = "error"]
        BY <1>3 DEF climb, k, p
    <2> DEFINE t == climb(pool, s)
    <2>2. t \in LoopState /\ t.links = s.links /\ t.st # "run" /\ t.st # "ok"
        BY <1>0, <2>1 DEF LoopState
    <2> HIDE DEF t
    <2>3. Climbed(c, pool, n, t)
        BY Zenon, <2>2 DEF Climbed
    <2> QED BY Zenon, <2>3 DEF t
<1>4. CASE s.st = "run" /\ k # 0 /\ p \notin Range(s.links) /\ isSelfSigned(p)
    <2>1. climb(pool, s) = [s EXCEPT !.st = "ok"]
        BY <1>4 DEF climb, k, p
    <2> DEFINE t == climb(pool, s)
    <2>2. t \in LoopState /\ t.links = s.links /\ t.st # "run"
        BY <1>0, <2>1 DEF LoopState
    <2> HIDE DEF t
    <2>3. Climbed(c, pool, n, t)
        BY Zenon, <1>1, <1>4, <2>2 DEF Climbed
    <2> QED BY Zenon, <2>3 DEF t
<1>5. CASE s.st = "run" /\ k # 0 /\ p \notin Range(s.links) /\ ~isSelfSigned(p)
    <2>1. climb(pool, s) = [s EXCEPT !.links = Append(@, p)]
        BY <1>5 DEF climb, k, p
    <2> DEFINE t == climb(pool, s)
               u == Append(s.links, p)
    <2>2. t \in LoopState
        BY Zenon, <1>0, ClimbType
    <2>3. t.links = u /\ t.st = "run"
        BY <1>0, <1>5, <2>1 DEF LoopState
    <2>4. /\ Len(u) = m + 1 /\ u[m + 1] = p /\ \A i \in 1 .. m : u[i] = s.links[i]
        BY <1>0, <1>1, <1>5
    <2>5. \A i \in 1 .. m : s.links[i] # p
        <3>1. DOMAIN s.links = 1 .. m
            BY <1>0
        <3> QED BY Zenon, <1>5, <3>1 DEF Range
    <2> HIDE DEF t, u
    <2>6. Len(u) \in Nat /\ Len(u) >= 1 /\ u[1] = c /\ Len(u) = n + 1
        <3>1. 1 \in 1 .. m
            BY <1>0
        <3>2. u[1] = c /\ m = n - 1 + 1
            BY Zenon, <1>5, <2>4, <3>1 DEF Climbed
        <3>3. m + 1 \in Nat /\ m + 1 >= 1 /\ m + 1 = n + 1
            BY <1>0, <3>2
        <3> QED BY Zenon, <2>4, <3>2, <3>3
    <2>7. ASSUME NEW i \in 1 .. Len(u), NEW j \in 1 .. Len(u), i # j PROVE u[i] # u[j]
        <3>1. (i \in 1 .. m \/ i = m + 1) /\ (j \in 1 .. m \/ j = m + 1)
            BY <1>0, <2>4
        <3> QED BY Zenon, <2>4, <2>5, <2>7, <3>1 DEF Climbed
    <2>8. ASSUME NEW i \in 1 .. Len(u) - 1
          PROVE  CheckSignatureFrom(u[i], u[i + 1]) /\ u[i + 1] \in Range(pool)
        <3>1. CASE i = m
            <4>1. m \in 1 .. m
                BY <1>0
            <4>2. u[i] = s.links[Len(s.links)] /\ u[i + 1] = p
                BY Zenon, <2>4, <3>1, <4>1
            <4> QED BY Zenon, <1>1, <1>5, <4>2
        <3>2. CASE i # m
            <4>1. i \in 1 .. m - 1 /\ i \in 1 .. m /\ i + 1 \in 1 .. m
                BY <1>0, <2>4, <3>2
            <4> QED BY Zenon, <2>4, <4>1 DEF Climbed
        <3> QED BY Zenon, <3>1, <3>2
    <2>9. "run" # "ok"
        OBVIOUS
    <2>10. Climbed(c, pool, n, t)
        BY Zenon, <2>2, <2>3, <2>6, <2>7, <2>8, <2>9 DEF Climbed
    <2> QED BY Zenon, <2>10 DEF t
<1> QED BY Zenon, <1>2, <1>3, <1>4, <1>5

\* resolveChain returns what its loop has after Len(pool) + 1 turns.
LEMMA ResolveIs ==
    ASSUME NEW c \in Cert, NEW pool \in Seq(Cert), ~isSelfSigned(c)
    PROVE  \E s : /\ Climbed(c, pool, Len(pool) + 1, s)
                  /\ resolveChain(c, pool) = [st |-> s.st, chain |-> Tail(s.links)]
<1> DEFINE N == Len(pool) + 1
           s0 == [st |-> "run", links |-> <<c>>]
           R(w) == [n \in 0 .. N |-> IF n = 0 THEN s0 ELSE climb(pool, w[n - 1])]
           f == [q \in (1 .. N) \X LoopState |-> climb(pool, q[2])]
<1>1. N \in Nat /\ N \in 0 .. N
    OBVIOUS
<1>2. s0 \in LoopState
    BY DEF LoopState
<1> HIDE DEF N, s0
<1>3. f \in [(1 .. N) \X LoopState -> LoopState]
    <2>1. \A q \in (1 .. N) \X LoopState : q[2] \in LoopState
        OBVIOUS
    <2> QED BY Zenon, <2>1, ClimbType
<1>f. \A i \in 1 .. N, s \in LoopState : f[<<i, s>>] = climb(pool, s)
    <2> TAKE i \in 1 .. N, s \in LoopState
    <2>1. <<i, s>> \in (1 .. N) \X LoopState /\ <<i, s>>[2] = s
        OBVIOUS
    <2> QED BY Zenon, <2>1
<1> HIDE DEF f
<1>4. PICK g : Built(LoopState, s0, N, f, g)
    BY Zenon, <1>1, <1>2, <1>3, Builds
<1>5. g = R(g)
    <2>1. g \in [0 .. N -> LoopState]
        BY Zenon, <1>4 DEF Built
    <2>2. ASSUME NEW n \in 0 .. N PROVE g[n] = IF n = 0 THEN s0 ELSE climb(pool, g[n - 1])
        <3>1. CASE n = 0
            BY Zenon, <1>4, <3>1 DEF Built
        <3>2. CASE n # 0
            <4>1. n \in 1 .. N /\ n - 1 \in 0 .. N
                BY <1>1, <3>2
            <4>2. g[n - 1] \in LoopState
                BY Zenon, <2>1, <4>1
            <4> QED BY Zenon, <1>4, <1>f, <3>2, <4>1, <4>2 DEF Built
        <3> QED BY Zenon, <3>1, <3>2
    <2> QED BY Zenon, <2>1, <2>2
<1>6. PICK w : w = R(w) /\ resolveChain(c, pool) = [st |-> w[N].st, chain |-> Tail(w[N].links)]
    BY Zenon, <1>5 DEF resolveChain, N, s0
<1>7. w[0] = s0 /\ \A n \in 1 .. N : w[n] = climb(pool, w[n - 1])
    <2>1. 0 \in 0 .. N /\ \A n \in 1 .. N : n \in 0 .. N /\ n # 0
        BY <1>1
    <2> QED BY Zenon, <1>6, <2>1
<1> DEFINE G == {n \in 0 .. N : Climbed(c, pool, n, w[n])}
<1>8. 0 \in G
    <2>1. s0 \in LoopState /\ s0.links = <<c>> /\ Len(<<c>>) = 1 /\ <<c>>[1] = c /\ s0.st = "run"
        BY <1>2 DEF s0
    <2>2. \A i, j \in 1 .. 1 : i = j
        OBVIOUS
    <2>3. 1 \in Nat /\ 1 >= 1 /\ 1 .. 1 - 1 = {} /\ 1 = 0 + 1 /\ "run" # "ok" /\ 0 \in 0 .. N
        BY <1>1
    <2> QED BY Zenon, <1>7, <2>1, <2>2, <2>3 DEF Climbed
<1>9. ASSUME NEW n \in 1 .. N, n - 1 \in G PROVE n \in G
    <2>1. n \in Nat /\ n # 0 /\ n \in 0 .. N
        BY <1>1
    <2>2. Climbed(c, pool, n - 1, w[n - 1])
        BY Zenon, <1>9
    <2>3. Climbed(c, pool, n, w[n])
        BY Zenon, <1>7, <2>1, <2>2, ClimbIs
    <2> QED BY Zenon, <2>1, <2>3
<1>10. N \in G
    <2> HIDE DEF G
    <2> QED BY Zenon, <1>1, <1>8, <1>9, Counting
<1> QED BY Zenon, <1>6, <1>10 DEF N

\* The climb ends and an accepted chain verifies up to a root
\* (ResolvedChainVerifies), for every bundle, its cycles included: a loop that went on
\* would have met more certificates than the bundle holds.
LEMMA Resolves == ASSUME NEW q \in Bundles PROVE ResolvedChainVerifies(q.cert, q.pool)
<1> DEFINE c == q.cert
           pool == q.pool
           r == resolveChain(c, pool)
<1>1. c \in Cert /\ pool \in Seq(Cert)
    BY Zenon, BundleAssumption
<1> HIDE DEF c, pool
<1>2. CASE isSelfSigned(c)
    <2>1. r.st = "ok" /\ r.chain = <<>>
        BY Zenon, <1>2 DEF resolveChain
    <2>2. Len(<<>>) = 0 /\ 1 .. 0 = {} /\ "ok" # "run"
        OBVIOUS
    <2> HIDE DEF r
    <2> QED BY Zenon, <1>2, <2>1, <2>2 DEF ResolvedChainVerifies, r, c, pool
<1>3. CASE ~isSelfSigned(c)
    <2>1. PICK s : /\ Climbed(c, pool, Len(pool) + 1, s)
                   /\ r = [st |-> s.st, chain |-> Tail(s.links)]
        BY Zenon, <1>1, <1>3, ResolveIs
    <2>2. r.st = s.st /\ r.chain = Tail(s.links)
        BY <2>1
    <2> HIDE DEF r
    <2> DEFINE u == s.links
               m == Len(u)
    <2>3. u \in Seq(Cert) /\ m \in Nat /\ m >= 1 /\ u[1] = c
        <3>1. s \in LoopState
            BY Zenon, <2>1 DEF Climbed
        <3>2. u \in Seq(Cert)
            BY <3>1 DEF LoopState
        <3> QED BY Zenon, <2>1, <3>2 DEF Climbed
    <2> HIDE DEF u
    <2>4. <<c>> \o Tail(u) = u /\ Len(Tail(u)) = m - 1
        BY <2>3
    <2>5. r.st # "run"
        <3> SUFFICES ASSUME r.st = "run" PROVE FALSE
            OBVIOUS
        <3> DEFINE N == Len(pool) + 1
                   h == [i \in 1 .. N |-> CHOOSE j \in 1 .. Len(pool) : pool[j] = u[i + 1]]
        <3>0. Len(pool) \in Nat /\ N \in Nat /\ DOMAIN pool = 1 .. Len(pool)
            BY <1>1
        <3>1. m = N + 1
            BY Zenon, <2>1, <2>2 DEF Climbed, u
        <3>2. ASSUME NEW i \in 1 .. N
              PROVE  h[i] \in 1 .. Len(pool) /\ pool[h[i]] = u[i + 1]
            <4>1. i \in 1 .. m - 1
                BY <3>0, <3>1
            <4>2. u[i + 1] \in Range(pool)
                BY Zenon, <2>1, <4>1 DEF Climbed, u
            <4>3. \E j \in 1 .. Len(pool) : pool[j] = u[i + 1]
                BY Zenon, <3>0, <4>2 DEF Range
            <4> HIDE DEF N
            <4> QED BY Zenon, <4>3
        <3>3. h \in [1 .. N -> 1 .. Len(pool)]
            <4> HIDE DEF N
            <4> QED BY Zenon, <3>2
        <3>4. IsFiniteSet(1 .. N) /\ Cardinality(1 .. N) = N
            BY Zenon, <3>0, Upto
        <3>5. IsFiniteSet(1 .. Len(pool)) /\ Cardinality(1 .. Len(pool)) = Len(pool)
            BY Zenon, <3>0, Upto
        <3>6. Len(pool) < N
            BY <3>0
        <3> HIDE DEF N, h
        <3>7. PICK i, j \in 1 .. N : i # j /\ h[i] = h[j]
            <4>1. Cardinality(1 .. Len(pool)) < Cardinality(1 .. N)
                BY Zenon, <3>4, <3>5, <3>6
            <4>2. IsFiniteSet(1 .. N) /\ IsFiniteSet(1 .. Len(pool))
                BY Zenon, <3>4, <3>5
            <4> QED BY ZenonT(60), <3>3, <4>1, <4>2, FS_PigeonHole
        <3>8. i + 1 \in 1 .. m /\ j + 1 \in 1 .. m /\ i + 1 # j + 1
            BY <3>0, <3>1, <3>7
        <3>9. u[i + 1] = u[j + 1]
            BY Zenon, <3>2, <3>7
        <3> QED BY Zenon, <2>1, <3>8, <3>9 DEF Climbed, u
    <2>6. \A i \in 1 .. m - 1 : CheckSignatureFrom(u[i], u[i + 1])
        BY Zenon, <2>1 DEF Climbed, u
    <2>7. r.st = "ok" => \E p \in Range(pool) : isSelfSigned(p) /\ CheckSignatureFrom(u[Len(u)], p)
        BY Zenon, <2>1, <2>2 DEF Climbed, u
    <2>8. r.chain = Tail(u)
        BY Zenon, <2>2 DEF u
    <2> HIDE DEF m
    <2> QED BY Zenon, <2>4, <2>5, <2>6, <2>7, <2>8 DEF ResolvedChainVerifies, r, c, pool
<1> QED BY Zenon, <1>2, <1>3
-----------------------------------------------------------------------------
(* The invariants of the run *)

\* The input is the start or one that was drawn.
Drawn ==
    \/ input = Start
    \/ \E d \in Documents : input = [kind |-> "table", doc |-> d]
    \/ \E r \in RuleLists : input = [kind |-> "rules", rules |-> r]
    \/ \E p \in RealChains : input = [kind |-> "chain", ca |-> p.ca, chain |-> p.chain]
    \/ \E p \in Bundles : input = [kind |-> "bundle", cert |-> p.cert, pool |-> p.pool]
    \/ \E p \in Forwardings :
          input = [kind |-> "forwarded", peer |-> p.peer, lines |-> p.lines, xri |-> p.xri]
    \/ \E hp \in Gates : input = [kind |-> "gate", hp |-> hp]
    \/ \E l \in Listenings :
          input = [kind |-> "listener", first |-> l.first, second |-> l.second,
                   later |-> l.later, end |-> l.end]

\* Every step draws an input or starts again.
LEMMA AlwaysDrawn == Spec => []Drawn
<1>1. Init => Drawn
    BY Zenon DEF Init, Drawn
<1>2. Drawn /\ [Next]_input => Drawn'
    <2> SUFFICES ASSUME Drawn, [Next]_input PROVE Drawn'
        BY Zenon
    <2>1. CASE UNCHANGED input
        BY Zenon, <2>1 DEF Drawn
    <2>2. CASE DrawTable
        BY Zenon, <2>2 DEF DrawTable, Drawn
    <2>3. CASE DrawRules
        BY Zenon, <2>3 DEF DrawRules, Drawn
    <2>4. CASE DrawChain
        BY Zenon, <2>4 DEF DrawChain, Drawn
    <2>5. CASE DrawBundle
        BY Zenon, <2>5 DEF DrawBundle, Drawn
    <2>6. CASE DrawForwarded
        BY Zenon, <2>6 DEF DrawForwarded, Drawn
    <2>7. CASE DrawGate
        BY Zenon, <2>7 DEF DrawGate, Drawn
    <2>8. CASE DrawListener
        BY Zenon, <2>8 DEF DrawListener, Drawn
    <2>9. CASE input' = Start
        BY Zenon, <2>9 DEF Drawn, Start
    <2> QED BY Zenon, <2>1, <2>2, <2>3, <2>4, <2>5, <2>6, <2>7, <2>8, <2>9 DEF Next
<1> QED BY <1>1, <1>2, PTL DEF Spec

\* The kind of an input says what was drawn.
LEMMA DrawnByKind ==
    ASSUME Drawn
    PROVE  /\ input.kind = "table" => \E d \in Documents : input.doc = d
           /\ input.kind = "rules" => \E r \in RuleLists : input.rules = r
           /\ input.kind = "listener" =>
                 \E l \in Listenings :
                    /\ input.first = l.first /\ input.second = l.second
                    /\ input.later = l.later /\ input.end = l.end
           /\ input.kind = "chain" =>
                 \E p \in RealChains : input.ca = p.ca /\ input.chain = p.chain
           /\ input.kind = "bundle" =>
                 \E p \in Bundles : input.cert = p.cert /\ input.pool = p.pool
           /\ input.kind = "forwarded" =>
                 \E p \in Forwardings :
                    input.peer = p.peer /\ input.lines = p.lines /\ input.xri = p.xri
           /\ input.kind = "gate" => \E hp \in Gates : input.hp = hp
<1>1. CASE input = Start
    BY <1>1 DEF Start
<1>2. ASSUME NEW d \in Documents, input = [kind |-> "table", doc |-> d]
      PROVE  input.kind = "table" /\ input.doc = d
    BY <1>2
<1>3. ASSUME NEW r \in RuleLists, input = [kind |-> "rules", rules |-> r]
      PROVE  input.kind = "rules" /\ input.rules = r
    BY <1>3
<1>4. ASSUME NEW p \in RealChains, input = [kind |-> "chain", ca |-> p.ca, chain |-> p.chain]
      PROVE  input.kind = "chain" /\ input.ca = p.ca /\ input.chain = p.chain
    BY <1>4
<1>5. ASSUME NEW p \in Bundles, input = [kind |-> "bundle", cert |-> p.cert, pool |-> p.pool]
      PROVE  input.kind = "bundle" /\ input.cert = p.cert /\ input.pool = p.pool
    BY <1>5
<1>6. ASSUME NEW p \in Forwardings,
             input = [kind |-> "forwarded", peer |-> p.peer, lines |-> p.lines, xri |-> p.xri]
      PROVE  /\ input.kind = "forwarded" /\ input.peer = p.peer /\ input.lines = p.lines
             /\ input.xri = p.xri
    BY <1>6
<1>7. ASSUME NEW hp \in Gates, input = [kind |-> "gate", hp |-> hp]
      PROVE  input.kind = "gate" /\ input.hp = hp
    BY <1>7
<1>8. ASSUME NEW l \in Listenings,
             input = [kind |-> "listener", first |-> l.first, second |-> l.second,
                      later |-> l.later, end |-> l.end]
      PROVE  /\ input.kind = "listener" /\ input.first = l.first /\ input.second = l.second
             /\ input.later = l.later /\ input.end = l.end
    BY <1>8
<1>9. input.kind = "table" => \E d \in Documents : input.doc = d
    BY <1>1, <1>2, <1>3, <1>4, <1>5, <1>6, <1>7, <1>8 DEF Drawn
<1>10. input.kind = "chain" => \E p \in RealChains : input.ca = p.ca /\ input.chain = p.chain
    BY <1>1, <1>2, <1>3, <1>4, <1>5, <1>6, <1>7, <1>8 DEF Drawn
<1>11. input.kind = "bundle" => \E p \in Bundles : input.cert = p.cert /\ input.pool = p.pool
    BY <1>1, <1>2, <1>3, <1>4, <1>5, <1>6, <1>7, <1>8 DEF Drawn
<1>12. input.kind = "forwarded" =>
          \E p \in Forwardings : input.peer = p.peer /\ input.lines = p.lines /\ input.xri = p.xri
    BY <1>1, <1>2, <1>3, <1>4, <1>5, <1>6, <1>7, <1>8 DEF Drawn
<1>13. input.kind = "gate" => \E hp \in Gates : input.hp = hp
    BY <1>1, <1>2, <1>3, <1>4, <1>5, <1>6, <1>7, <1>8 DEF Drawn
<1>14. input.kind = "rules" => \E r \in RuleLists : input.rules = r
    BY <1>1, <1>2, <1>3, <1>4, <1>5, <1>6, <1>7, <1>8 DEF Drawn
<1>15. input.kind = "listener" =>
          \E l \in Listenings : /\ input.first = l.first /\ input.second = l.second
                                /\ input.later = l.later /\ input.end = l.end
    BY <1>1, <1>2, <1>3, <1>4, <1>5, <1>6, <1>7, <1>8 DEF Drawn
<1> QED BY Zenon, <1>9, <1>10, <1>11, <1>12, <1>13, <1>14, <1>15

\* checkCoverage accepts a document exactly when its plain prefixes cover every
\* address of every family, for every document and every address width.
THEOREM TableCoverageHolds == Spec => []TableCoverage
<1>1. Drawn => TableCoverage
    BY Zenon, DrawnByKind, CoversExactly, TableAssumption DEF TableCoverage
<1> QED BY <1>1, AlwaysDrawn, PTL

\* In an accepted table Lookup gives every client the entry of greatest mask that
\* contains it, in whatever order sort.Slice leaves equal masks.
THEOREM TableBucketsHolds == Spec => []TableBuckets
<1>1. Drawn => TableBuckets
    BY Zenon, DrawnByKind, OneBucket, TableAssumption DEF TableBuckets
<1> QED BY <1>1, AlwaysDrawn, PTL

\* Of the entries of a document that normalise to one key, the last one decides.
THEOREM TableLastEntryHolds == Spec => []TableLastEntry
<1>1. Drawn => TableLastEntry
    BY Zenon, DrawnByKind, LastWins, TableAssumption DEF TableLastEntry
<1> QED BY <1>1, AlwaysDrawn, PTL

\* The host index of LookupConn and LookupRequest is transparent for every list of
\* rules and every host: appendCandidates never omits a rule that matches, and
\* keeps the order of the document.
THEOREM IndexTransparentHolds == Spec => []IndexTransparent
<1>1. Drawn => IndexTransparent
    BY Zenon, DrawnByKind, Transparent, TableAssumption DEF IndexTransparent
<1> QED BY <1>1, AlwaysDrawn, PTL

\* A stored clone of a chain with distinct names is put back in order by
\* orderChainLeafFirst and passes verify, for every chain and every order.
THEOREM ClonesReloadHolds == Spec => []ClonesReload
<1>1. Drawn => ClonesReload
    BY Zenon, DrawnByKind, Reloads DEF ClonesReload
<1> QED BY <1>1, AlwaysDrawn, PTL

\* CloneChain stays within the path length and the validity of the CA, and
\* drops no intermediate that would have fitted.
THEOREM ClonesIssuableHolds == Spec => []ClonesIssuable
<1>1. Drawn => ClonesIssuable
    BY Zenon, DrawnByKind, Issues DEF ClonesIssuable
<1> QED BY <1>1, AlwaysDrawn, PTL

\* resolveChain ends on every bundle, and a chain it accepts verifies link by link
\* up to a self-signed root of the bundle.
THEOREM BundleResolvesHolds == Spec => []BundleResolves
<1>1. Drawn => BundleResolves
    BY Zenon, DrawnByKind, Resolves DEF BundleResolves
<1> QED BY <1>1, AlwaysDrawn, PTL

\* recoverClientIP returns an address that a trusted hop wrote, for every number of
\* lines and hops and whatever a client put in front.
THEOREM ClientIsVouchedForHolds == Spec => []ClientIsVouchedFor
<1>1. Drawn => ClientIsVouchedFor
    <2> SUFFICES ASSUME Drawn, input.kind = "forwarded"
                 PROVE  RecoveredIsVouchedFor(input.peer, input.lines, input.xri, Seeds)
        BY Zenon DEF ClientIsVouchedFor
    <2>1. PICK p \in Forwardings :
             input.peer = p.peer /\ input.lines = p.lines /\ input.xri = p.xri
        BY Zenon, DrawnByKind
    <2>2. p.lines \in Seq(Seq(Hop)) /\ Seeds \in SUBSET Seq(Hop)
        BY Zenon, ForwardingAssumption
    <2>3. RecoveredIsVouchedFor(p.peer, p.lines, p.xri, Seeds)
        BY Zenon, <2>2, Vouched
    <2> QED BY Zenon, <2>1, <2>3
<1> QED BY <1>1, AlwaysDrawn, PTL

\* A gate that compiles admits exactly its own credentials and what its broker
\* approves of, under their names, for every gate and every header.
THEOREM GateAdmitsItsOwnHolds == Spec => []GateAdmitsItsOwn
<1>1. Drawn => GateAdmitsItsOwn
    BY Zenon, DrawnByKind, GateExact DEF GateAdmitsItsOwn
<1> QED BY <1>1, AlwaysDrawn, PTL

\* SelfCert, for every two lists of names and every point in time: the https
\* listener keeps its certificate over a restart with the same names and gets one
\* of its own with others, whose SANs are exactly the valid ones.
THEOREM ListenerCertFitsHolds == Spec => []ListenerCertFits
<1>1. Drawn => ListenerCertFits
    <2> SUFFICES ASSUME Drawn, input.kind = "listener"
                 PROVE  ListenerKeepsIdentity(input.first, input.second, input.later, input.end)
        BY Zenon DEF ListenerCertFits
    <2>1. PICK l \in Listenings : /\ input.first = l.first /\ input.second = l.second
                                  /\ input.later = l.later /\ input.end = l.end
        BY Zenon, DrawnByKind
    <2>2. /\ l.first \in Seq(Seq(Char \ {Nul})) /\ l.second \in Seq(Seq(Char \ {Nul}))
          /\ l.second # <<>> /\ l.later \in Nat /\ l.end \in Nat
        BY Zenon, ListenerAssumption
    <2>3. ListenerKeepsIdentity(l.first, l.second, l.later, l.end)
        BY Zenon, <2>2, ListenerFits
    <2> QED BY Zenon, <2>1, <2>3
<1> QED BY <1>1, AlwaysDrawn, PTL
=============================================================================
