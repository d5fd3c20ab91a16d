--------------------------- MODULE Tables_proofs ---------------------------
(***************************************************************************)
(* Proofs about the two tables a policy is looked up in, rules/default, for*)
(* every document and every address width, and the host index, for every   *)
(* list of rules and every host; and about the listener's own certificate, *)
(* whose names are split into labels as the hosts of the index are.  A loop*)
(* of the code is a recursive function in a LET: Builds shows that it      *)
(* exists, Counting what holds after each of its turns.  The first section *)
(* is about any loop and any list.                                         *)
(***************************************************************************)
EXTENDS DefaultTable, OwnCerts, FiniteSetTheorems, TLAPS

-----------------------------------------------------------------------------
(* Numbers, functions and loops *)

\* A sequence is a function on its indices.
LEMMA SeqIs ==
    ASSUME NEW X, NEW s \in Seq(X)
    PROVE  /\ Len(s) \in Nat /\ DOMAIN s = 1 .. Len(s) /\ s \in [1 .. Len(s) -> X]
           /\ \A i \in 1 .. Len(s) : s[i] \in X
OBVIOUS

\* Sequences with the same elements are equal.
LEMMA SameSeq ==
    ASSUME NEW X, NEW s \in Seq(X), NEW t \in Seq(X), Len(s) = Len(t),
           \A i \in 1 .. Len(s) : s[i] = t[i]
    PROVE  s = t
OBVIOUS

\* The empty sequence adds nothing.
LEMMA ConcatNone == ASSUME NEW X, NEW s \in Seq(X) PROVE s \o <<>> = s /\ <<>> \o s = s
OBVIOUS

\* A set of numbers has a least one (the loops of the code are counted up).
LEMMA Least ==
    ASSUME NEW S \in SUBSET Nat, S # {}
    PROVE  \E x \in S : \A y \in S : x <= y
<1>1. PICK R : IsWellFoundedOn(R, Nat) /\ \A x, y \in Nat : y < x => <<y, x>> \in R
    BY NatLessThanWellFounded DEF OpToRel
<1>2. PICK x \in S : \A y \in S : ~(<<y, x>> \in R)
    BY Zenon, <1>1, WFMin
<1>3. ASSUME NEW y \in S PROVE x <= y
    <2>1. ~(y < x)
        BY Zenon, <1>1, <1>2
    <2> QED BY <2>1
<1> QED BY <1>3

\* A bounded set of numbers has a greatest one.
LEMMA Greatest ==
    ASSUME NEW n \in Nat, NEW S \in SUBSET (0 .. n), S # {}
    PROVE  \E x \in S : \A y \in S : x >= y
<1> DEFINE T == {n - x : x \in S}
<1>1. T \in SUBSET Nat
    OBVIOUS
<1>a. T # {}
    BY Zenon
<1>2. PICK t \in T : \A u \in T : t <= u
    BY Zenon, <1>1, <1>a, Least
<1>3. PICK x \in S : t = n - x
    OBVIOUS
<1>4. ASSUME NEW y \in S PROVE x >= y
    <2>1. n - y \in T
        OBVIOUS
    <2>2. t <= n - y
        BY <1>2, <2>1
    <2> QED BY <1>3, <2>2
<1> QED BY <1>4

\* Max, by which bySubject and recoverClientIP pick the last of several.
LEMMA MaxIs ==
    ASSUME NEW n \in Nat, NEW S \in SUBSET (0 .. n), S # {}
    PROVE  Max(S) \in S /\ \A y \in S : Max(S) >= y
BY Zenon, Greatest DEF Max

\* Min, by which FirstIn picks the first of several.
LEMMA MinIs ==
    ASSUME NEW S \in SUBSET Nat, S # {}
    PROVE  Min(S) \in S /\ \A y \in S : Min(S) <= y
BY Zenon, Least DEF Min

\* What FirstIn returns: the first index of a set, 0 for none.
First(I) == IF I = {} THEN 0 ELSE Min(I)

\* First is in its set unless that is empty, and nothing of it is before.
LEMMA FirstIs ==
    ASSUME NEW n \in Nat, NEW I \in SUBSET (1 .. n)
    PROVE  /\ First(I) \in 0 .. n /\ (First(I) = 0 <=> I = {})
           /\ I # {} => First(I) \in I /\ \A i \in I : First(I) <= i
<1>1. CASE I = {}
    BY <1>1 DEF First
<1>2. CASE I # {}
    <2>1. Min(I) \in I /\ \A i \in I : Min(I) <= i
        BY <1>2, MinIs
    <2>2. First(I) = Min(I)
        BY Zenon, <1>2 DEF First
    <2>3. Min(I) \in 1 .. n
        BY Zenon, <2>1
    <2>4. Min(I) \in 0 .. n /\ Min(I) # 0
        BY <2>3
    <2> QED BY Zenon, <1>2, <2>1, <2>2, <2>4
<1> QED BY Zenon, <1>1, <1>2

\* A function on 1 .. n is a sequence.
LEMMA Numbered ==
    ASSUME NEW S, NEW n \in Nat, NEW f \in [1 .. n -> S]
    PROVE  f \in Seq(S) /\ Len(f) = n /\ DOMAIN f = 1 .. n
OBVIOUS

\* Functions that agree are equal.
Equal(f, g) == f = g

\* They are, on one domain.
LEMMA FcnEqual ==
    ASSUME NEW S, NEW T, NEW f \in [S -> T], NEW g \in [S -> T], \A x \in S : f[x] = g[x]
    PROVE  Equal(f, g)
BY DEF Equal

\* 1 .. n has n elements.
LEMMA Upto == ASSUME NEW n \in Nat PROVE IsFiniteSet(1 .. n) /\ Cardinality(1 .. n) = n
<1>1. IsFiniteSet(1 .. n) /\ Cardinality(1 .. n) = IF 1 > n THEN 0 ELSE n - 1 + 1
    BY FS_Interval
<1> QED BY <1>1

\* Induction up to n, as a statement about a set of numbers.
LEMMA Counting ==
    ASSUME NEW n \in Nat, NEW G, 0 \in G, \A i \in 1 .. n : i - 1 \in G => i \in G
    PROVE  \A i \in 0 .. n : i \in G
<1> DEFINE Bad == {i \in 0 .. n : i \notin G}
<1> SUFFICES ASSUME Bad # {} PROVE FALSE
    BY Zenon
<1>1. Bad \in SUBSET Nat
    OBVIOUS
<1>2. PICK i \in Bad : \A j \in Bad : i <= j
    <2> HIDE DEF Bad
    <2> QED BY Zenon, <1>1, Least
<1>3. i # 0 /\ i \in 0 .. n
    BY Zenon, <1>2
<1>4. i \in 1 .. n /\ i - 1 \in 0 .. n /\ ~(i <= i - 1)
    BY <1>3
<1> QED BY Zenon, <1>2, <1>4

\* h holds the first n turns of the loop body f from s0.
Iteration(n, S, s0, f, h) ==
    /\ h \in [0 .. n -> S] /\ h[0] = s0
    /\ \A i \in 0 .. n : i # n => h[i + 1] = f[<<i, h[i]>>]

\* Turns of one loop agree as far as both go.
LEMMA IterationUnique ==
    ASSUME NEW S, NEW s0 \in S, NEW f \in [Nat \X S -> S], NEW m \in Nat, NEW n \in Nat, m <= n,
           NEW h, Iteration(m, S, s0, f, h), NEW k, Iteration(n, S, s0, f, k)
    PROVE  \A i \in 0 .. m : h[i] = k[i]
<1> DEFINE Bad == {i \in 0 .. m : h[i] # k[i]}
<1> SUFFICES ASSUME Bad # {} PROVE FALSE
    OBVIOUS
<1>1. Bad \in SUBSET Nat
    OBVIOUS
<1>2. PICK i \in Bad : \A j \in Bad : i <= j
    BY Zenon, <1>1, Least
<1>3. i # 0
    BY DEF Iteration
<1>4. i - 1 \in 0 .. m /\ i - 1 \in 0 .. n /\ i - 1 # m /\ i - 1 # n /\ (i - 1) + 1 = i
    BY <1>3
<1>5. h[i - 1] = k[i - 1]
    BY <1>2, <1>4
<1> QED BY Zenon, <1>4, <1>5 DEF Iteration

\* A loop body can be run for any number of turns.
LEMMA IterationExists ==
    ASSUME NEW S, NEW s0 \in S, NEW f \in [Nat \X S -> S]
    PROVE  \A n \in Nat : \E h : Iteration(n, S, s0, f, h)
<1> DEFINE Bad == {n \in Nat : ~\E h : Iteration(n, S, s0, f, h)}
<1> SUFFICES ASSUME Bad # {} PROVE FALSE
    OBVIOUS
<1>1. PICK n \in Bad : \A j \in Bad : n <= j
    BY Zenon, Least
<1>2. n # 0
    <2>1. Iteration(0, S, s0, f, [i \in 0 .. 0 |-> s0])
        BY DEF Iteration
    <2> QED BY <2>1
<1>3. n - 1 \in Nat /\ n - 1 \notin Bad
    BY <1>1, <1>2
<1>4. PICK h : Iteration(n - 1, S, s0, f, h)
    BY <1>3
<1> DEFINE k == [i \in 0 .. n |-> IF i = n THEN f[<<n - 1, h[n - 1]>>] ELSE h[i]]
<1>5. h[n - 1] \in S /\ f[<<n - 1, h[n - 1]>>] \in S
    BY <1>3, <1>4 DEF Iteration
<1>6. k \in [0 .. n -> S] /\ k[0] = s0
    BY <1>2, <1>4, <1>5 DEF Iteration
<1>7. ASSUME NEW i \in 0 .. n, i # n PROVE k[i + 1] = f[<<i, k[i]>>]
    <2>1. i \in 0 .. n - 1 /\ i + 1 \in 0 .. n /\ k[i] = h[i]
        BY <1>7
    <2>2. CASE i = n - 1
        BY <2>1, <2>2
    <2>3. CASE i # n - 1
        BY <1>4, <2>1, <2>3 DEF Iteration
    <2> QED BY <2>2, <2>3
<1>8. Iteration(n, S, s0, f, k)
    BY Zenon, <1>6, <1>7 DEF Iteration
<1> QED BY <1>8

\* g holds all turns of the loop body f from s0.
Iterates(S, s0, f, g) ==
    g \in [Nat -> S] /\ g[0] = s0 /\ \A n \in Nat : g[n + 1] = f[<<n, g[n]>>]

\* A recursive function on Nat with a given step exists.
LEMMA Iterated ==
    ASSUME NEW S, NEW s0 \in S, NEW f \in [Nat \X S -> S]
    PROVE  \E g : Iterates(S, s0, f, g)
<1> DEFINE it(n) == CHOOSE h : Iteration(n, S, s0, f, h)
           g == [n \in Nat |-> it(n)[n]]
<1>1. \A n \in Nat : Iteration(n, S, s0, f, it(n))
    BY Zenon, IterationExists
<1> HIDE DEF it
<1>2. g \in [Nat -> S] /\ g[0] = s0
    BY <1>1 DEF Iteration
<1>3. ASSUME NEW n \in Nat PROVE g[n + 1] = f[<<n, g[n]>>]
    <2>1. Iteration(n, S, s0, f, it(n)) /\ Iteration(n + 1, S, s0, f, it(n + 1))
        BY <1>1
    <2>2. it(n)[n] = it(n + 1)[n]
        BY <2>1, IterationUnique
    <2>3. it(n + 1)[n + 1] = f[<<n, it(n + 1)[n]>>]
        BY <2>1 DEF Iteration
    <2> QED BY <2>2, <2>3
<1> QED BY Zenon, <1>2, <1>3 DEF Iterates

\* A function defined by recursion up to n.
Built(S, s0, n, f, g) ==
    g \in [0 .. n -> S] /\ g[0] = s0 /\ \A i \in 1 .. n : g[i] = f[<<i, g[i - 1]>>]

\* A recursive function on 0 .. n with a given step exists: this unfolds the
\* loops that the model writes as functions in a LET.
LEMMA Builds ==
    ASSUME NEW S, NEW s0 \in S, NEW n \in Nat, NEW f \in [(1 .. n) \X S -> S]
    PROVE  \E g : Built(S, s0, n, f, g)
<1> DEFINE e == [p \in Nat \X S |-> IF p[1] + 1 \in 1 .. n THEN f[<<p[1] + 1, p[2]>>] ELSE p[2]]
<1>1. e \in [Nat \X S -> S]
    <2>1. ASSUME NEW p \in Nat \X S
          PROVE  (IF p[1] + 1 \in 1 .. n THEN f[<<p[1] + 1, p[2]>>] ELSE p[2]) \in S
        <3>1. p[2] \in S
            OBVIOUS
        <3>2. p[1] + 1 \in 1 .. n => <<p[1] + 1, p[2]>> \in (1 .. n) \X S
            BY Zenon, <3>1
        <3> QED BY Zenon, <3>1, <3>2
    <2> QED BY Zenon, <2>1
<1>2. \A i \in 1 .. n, s \in S : e[<<i - 1, s>>] = f[<<i, s>>]
    <2> TAKE i \in 1 .. n, s \in S
    <2>1. i - 1 \in Nat /\ (i - 1) + 1 = i
        OBVIOUS
    <2>2. <<i - 1, s>> \in Nat \X S
        BY Zenon, <2>1
    <2>3. e[<<i - 1, s>>] = IF <<i - 1, s>>[1] + 1 \in 1 .. n
                            THEN f[<< <<i - 1, s>>[1] + 1, <<i - 1, s>>[2]>>] ELSE <<i - 1, s>>[2]
        BY Zenon, <2>2
    <2>4. <<i - 1, s>>[1] = i - 1 /\ <<i - 1, s>>[2] = s
        OBVIOUS
    <2> HIDE DEF e
    <2> QED BY Zenon, <2>1, <2>3, <2>4
<1> HIDE DEF e
<1>3. PICK h : Iterates(S, s0, e, h)
    BY Zenon, <1>1, Iterated
<1>4. h \in [Nat -> S] /\ h[0] = s0 /\ \A i \in Nat : h[i + 1] = e[<<i, h[i]>>]
    BY Zenon, <1>3 DEF Iterates
<1> DEFINE g == [i \in 0 .. n |-> h[i]]
<1>5. \A i \in 0 .. n : i \in Nat
    OBVIOUS
<1>6. g \in [0 .. n -> S]
    BY Zenon, <1>4, <1>5
<1>7. 0 \in 0 .. n
    OBVIOUS
<1>8. ASSUME NEW i \in 1 .. n PROVE g[i] = f[<<i, g[i - 1]>>]
    <2>1. i \in 0 .. n /\ i - 1 \in 0 .. n /\ i - 1 \in Nat /\ (i - 1) + 1 = i
        OBVIOUS
    <2>2. g[i] = e[<<i - 1, h[i - 1]>>] /\ g[i - 1] = h[i - 1] /\ h[i - 1] \in S
        BY Zenon, <1>4, <2>1
    <2> HIDE DEF g
    <2> QED BY Zenon, <1>2, <2>2
<1>9. g[0] = s0
    BY Zenon, <1>4, <1>7
<1> HIDE DEF g
<1> QED BY Zenon, <1>6, <1>8, <1>9 DEF Built

\* q lists the n elements of S, each once.
Listing(q, n, S) ==
    /\ n \in Nat /\ q \in [1 .. n -> S] /\ \A i, j \in 1 .. n : i # j => q[i] # q[j]

\* q is sorted by the key f.
ByKey(f, q, n) == \A i, j \in 1 .. n : i < j => f[q[i]] <= f[q[j]]

\* A finite set can be listed in the order of a key.
LEMMA Sorts ==
    ASSUME NEW S, IsFiniteSet(S), NEW f \in [S -> Nat]
    PROVE  \E q : Listing(q, Cardinality(S), S) /\ ByKey(f, q, Cardinality(S))
<1> DEFINE N == Cardinality(S)
           G == {m \in 0 .. N : \A T \in SUBSET S : Cardinality(T) = m => \E q : Listing(q, m, T) /\ ByKey(f, q, m)}
<1>1. N \in Nat
    BY Zenon, FS_CardinalityType
<1>2. 0 \in G
    <2>1. 0 \in 0 .. N /\ 1 .. 0 = {} /\ 0 \in Nat
        BY <1>1
    <2>2. ASSUME NEW T \in SUBSET S PROVE \E q : Listing(q, 0, T) /\ ByKey(f, q, 0)
        <3> DEFINE q == [i \in 1 .. 0 |-> 0]
        <3>1. q \in [1 .. 0 -> T]
            BY Zenon, <2>1
        <3> HIDE DEF q
        <3>2. Listing(q, 0, T) /\ ByKey(f, q, 0)
            BY Zenon, <2>1, <3>1 DEF Listing, ByKey
        <3> QED BY Zenon, <3>2
    <2> QED BY Zenon, <2>1, <2>2
<1>3. ASSUME NEW m \in 1 .. N, m - 1 \in G PROVE m \in G
    <2>0. m \in Nat /\ m # 0 /\ m \in 0 .. N /\ m - 1 \in Nat
        BY <1>1
    <2>1. ASSUME NEW T \in SUBSET S, Cardinality(T) = m
          PROVE  \E q : Listing(q, m, T) /\ ByKey(f, q, m)
        <3>1. IsFiniteSet(T)
            BY Zenon, FS_Subset
        <3>2. T # {}
            BY Zenon, <2>0, <2>1, FS_EmptySet
        <3> DEFINE Z == {f[t] : t \in T}
        <3>3. Z \in SUBSET Nat /\ Z # {}
            BY Zenon, <3>2
        <3>4. PICK z \in Z : \A y \in Z : z <= y
            <4> HIDE DEF Z
            <4> QED BY Zenon, <3>3, Least
        <3>5. PICK x \in T : f[x] = z
            BY Zenon, <3>4
        <3>6. \A t \in T : f[x] <= f[t]
            BY Zenon, <3>4, <3>5
        <3> DEFINE U == T \ {x}
        <3>7. U \in SUBSET S /\ Cardinality(U) = m - 1
            BY Zenon, <2>1, <3>1, <3>5, FS_RemoveElement
        <3>u. \A y \in U : y \in T /\ y # x
            BY Zenon
        <3> HIDE DEF U
        <3>8. PICK p : Listing(p, m - 1, U) /\ ByKey(f, p, m - 1)
            BY Zenon, <1>3, <3>7
        <3> DEFINE q == [i \in 1 .. m |-> IF i = 1 THEN x ELSE p[i - 1]]
        <3>9. /\ \A i \in 1 .. m : i # 1 => i - 1 \in 1 .. m - 1
              /\ \A i, j \in 1 .. m : i < j => j # 1
              /\ \A i, j \in 1 .. m : i < j /\ i # 1 => i - 1 < j - 1
              /\ \A i, j \in 1 .. m : i - 1 = j - 1 => i = j
            BY <2>0
        <3>10. \A i \in 1 .. m - 1 : p[i] \in U
            BY Zenon, <3>8 DEF Listing
        <3>11. \A i, j \in 1 .. m - 1 : i # j => p[i] # p[j]
            BY Zenon, <3>8 DEF Listing
        <3>12. \A i \in 1 .. m : q[i] = IF i = 1 THEN x ELSE p[i - 1]
            BY Zenon
        <3>13. q \in [1 .. m -> T]
            BY Zenon, <3>5, <3>9, <3>10, <3>u
        <3> HIDE DEF q
        <3>14. ASSUME NEW i \in 1 .. m, NEW j \in 1 .. m, q[i] = q[j] PROVE i = j
            <4>0. \A l \in 1 .. m : l # 1 => q[l] # x
                BY Zenon, <3>9, <3>10, <3>12, <3>u
            <4>1. CASE i = 1
                <5>1. q[i] = x
                    BY Zenon, <3>12, <4>1
                <5> QED BY Zenon, <3>14, <4>0, <4>1, <5>1
            <4>2. CASE j = 1
                <5>1. q[j] = x
                    BY Zenon, <3>12, <4>2
                <5> QED BY Zenon, <3>14, <4>0, <4>2, <5>1
            <4>3. CASE i # 1 /\ j # 1
                <5>1. p[i - 1] = p[j - 1] /\ i - 1 \in 1 .. m - 1 /\ j - 1 \in 1 .. m - 1
                    BY Zenon, <3>9, <3>12, <3>14, <4>3
                <5> QED BY Zenon, <3>9, <3>11, <5>1
            <4> QED BY Zenon, <4>1, <4>2, <4>3
        <3>15. ASSUME NEW i \in 1 .. m, NEW j \in 1 .. m, i < j PROVE f[q[i]] <= f[q[j]]
            <4>1. j # 1 /\ q[j] = p[j - 1] /\ j - 1 \in 1 .. m - 1 /\ p[j - 1] \in T
                BY Zenon, <3>9, <3>10, <3>12, <3>15, <3>u
            <4>2. CASE i = 1
                BY Zenon, <3>6, <3>12, <4>1, <4>2
            <4>3. CASE i # 1
                <5>1. q[i] = p[i - 1] /\ i - 1 \in 1 .. m - 1 /\ i - 1 < j - 1
                    BY Zenon, <3>9, <3>12, <3>15, <4>3
                <5> QED BY Zenon, <3>8, <4>1, <5>1 DEF ByKey
            <4> QED BY Zenon, <4>2, <4>3
        <3>16. Listing(q, m, T)
            BY Zenon, <2>0, <3>13, <3>14 DEF Listing
        <3>17. ByKey(f, q, m)
            BY Zenon, <3>15 DEF ByKey
        <3> QED BY Zenon, <3>16, <3>17
    <2> QED BY Zenon, <2>0, <2>1
<1>4. N \in 0 .. N
    BY <1>1
<1>5. N \in G
    <2> HIDE DEF G
    <2> QED BY Zenon, <1>1, <1>2, <1>3, <1>4, Counting
<1>6. S \in SUBSET S
    BY Zenon
<1> QED BY Zenon, <1>5, <1>6

\* An order of a finite set leaves none of its elements out.
LEMMA ListsAll ==
    ASSUME NEW S, IsFiniteSet(S), NEW q \in Orders(S)
    PROVE  /\ Listing(q, Cardinality(S), S)
           /\ \A s \in S : \E i \in 1 .. Cardinality(S) : q[i] = s
           /\ q \in Seq(S) /\ Len(q) = Cardinality(S) /\ DOMAIN q = 1 .. Cardinality(S)
<1> DEFINE n == Cardinality(S)
<1>1. n \in Nat
    BY Zenon, FS_CardinalityType
<1>3. IsFiniteSet(1 .. n) /\ Cardinality(1 .. n) = n
    BY Zenon, <1>1, Upto
<1>4. q \in Injection(1 .. n, S)
    BY Zenon DEF Orders
<1>2. q \in [1 .. n -> S] /\ \A i, j \in 1 .. n : i # j => q[i] # q[j]
    BY Zenon, <1>4 DEF Injection, IsInjective
<1>5. q \in Surjection(1 .. n, S)
    BY Zenon, <1>3, <1>4, FS_Injection
<1>6. \A s \in S : \E i \in 1 .. n : q[i] = s
    BY Zenon, <1>5 DEF Surjection
<1> HIDE DEF n
<1>7. q \in Seq(S) /\ Len(q) = n /\ DOMAIN q = 1 .. n
    BY Zenon, <1>1, <1>2, Numbered
<1> QED BY Zenon, <1>1, <1>2, <1>6, <1>7 DEF Listing, n

\* A list of a finite set is one of its orders.
LEMMA OrdersHas ==
    ASSUME NEW S, NEW q, Listing(q, Cardinality(S), S)
    PROVE  q \in Orders(S) /\ DOMAIN q = 1 .. Cardinality(S)
BY Zenon DEF Orders, Listing, Injection, IsInjective

-----------------------------------------------------------------------------
(* The default table: keys and entries *)

\* A normalised key: no address bit outside its mask.
IsKey(k) ==
    /\ k.fam \in Family /\ k = [fam |-> k.fam, addr |-> k.addr, mask |-> k.mask]
    /\ k.addr \in Bits(k.fam) /\ k.mask \in Bits(k.fam)
    /\ \A i \in 1 .. Width[k.fam] : k.mask[i] = 0 => k.addr[i] = 0

\* k is what the raw key r is normalised to.
Normal(r, k) ==
    /\ IsKey(k) /\ k.fam = r.fam /\ r.addr \in Bits(k.fam)
    /\ \A i \in 1 .. Width[k.fam] : k.addr[i] = r.addr[i] * k.mask[i]

\* parseMaskedKey normalises: both spellings of a mask, host bits cleared.
LEMMA NormalIs == ASSUME NEW r \in RawKey PROVE Normal(r, parseMaskedKey(r))
<1>1. PICK f \in Family : \/ r \in [fam : {f}, addr : Bits(f), len : 0 .. Width[f]]
                          \/ r \in [fam : {f}, addr : Bits(f), mask : Bits(f)]
    <2> DEFINE A(g) == [fam : {g}, addr : Bits(g), len : 0 .. Width[g]]
               B(g) == [fam : {g}, addr : Bits(g), mask : Bits(g)]
    <2>1. r \in UNION {A(g) : g \in Family} \/ r \in UNION {B(g) : g \in Family}
        <3>1. RawKey = (UNION {A(g) : g \in Family}) \cup (UNION {B(g) : g \in Family})
            BY Zenon DEF RawKey
        <3> HIDE DEF A, B
        <3> QED BY <3>1
    <2> HIDE DEF A, B
    <2>2. \E g \in Family : r \in A(g) \/ r \in B(g)
        BY <2>1
    <2> QED BY Zenon, <2>2 DEF A, B
<1> DEFINE m == IF "len" \in DOMAIN r THEN prefixMask(r.fam, r.len) ELSE r.mask
           k == parseMaskedKey(r)
           W == Width[f]
<1>2. r.fam = f /\ r.addr \in Bits(f)
    <2>1. CASE r \in [fam : {f}, addr : Bits(f), len : 0 .. Width[f]]
        BY <2>1
    <2>2. CASE r \in [fam : {f}, addr : Bits(f), mask : Bits(f)]
        BY <2>2
    <2> QED BY Zenon, <1>1, <2>1, <2>2
<1>3. m \in Bits(f)
    <2>1. CASE r \in [fam : {f}, addr : Bits(f), len : 0 .. Width[f]]
        <3>1. "len" \in DOMAIN r
            BY <2>1
        <3>2. m = prefixMask(f, r.len)
            BY Zenon, <1>2, <3>1
        <3>3. prefixMask(f, r.len) \in Bits(f)
            BY Zenon DEF prefixMask, Bits
        <3> QED BY Zenon, <3>2, <3>3
    <2>2. CASE r \in [fam : {f}, addr : Bits(f), mask : Bits(f)]
        <3>1. "len" \notin DOMAIN r /\ r.mask \in Bits(f)
            BY <2>2
        <3> QED BY Zenon, <3>1
    <2> QED BY Zenon, <1>1, <2>1, <2>2
<1>4. k = [fam |-> r.fam, addr |-> [i \in DOMAIN m |-> r.addr[i] * m[i]], mask |-> m]
    BY Zenon DEF parseMaskedKey
<1> HIDE DEF m, k
<1>5. DOMAIN m = 1 .. W
    BY Zenon, <1>3 DEF Bits
<1> DEFINE a == [i \in 1 .. W |-> r.addr[i] * m[i]]
<1>6. k = [fam |-> f, addr |-> a, mask |-> m]
    BY Zenon, <1>2, <1>4, <1>5
<1>7. a \in Bits(f)
    <2>1. ASSUME NEW i \in 1 .. W PROVE r.addr[i] * m[i] \in {0, 1}
        <3>1. r.addr[i] \in {0, 1} /\ m[i] \in {0, 1}
            BY Zenon, <1>2, <1>3 DEF Bits
        <3> DEFINE x == r.addr[i]
                   y == m[i]
        <3> HIDE DEF x, y
        <3>2. x \in {0, 1} /\ y \in {0, 1} => x * y \in {0, 1}
            OBVIOUS
        <3> QED BY Zenon, <3>1, <3>2 DEF x, y
    <2> QED BY Zenon, <2>1 DEF Bits
<1>8. \A i \in 1 .. W : a[i] = r.addr[i] * m[i]
    BY Zenon
<1> HIDE DEF a
<1>9. k.fam = f /\ k.addr = a /\ k.mask = m
    BY <1>6
<1>10. ASSUME NEW i \in 1 .. W, m[i] = 0 PROVE a[i] = 0
    <2>1. r.addr[i] \in {0, 1}
        BY Zenon, <1>2 DEF Bits
    <2>2. r.addr[i] * 0 = 0
        BY <2>1
    <2> QED BY Zenon, <1>8, <1>10, <2>2
<1> QED BY Zenon, <1>2, <1>3, <1>6, <1>7, <1>8, <1>9, <1>10 DEF Normal, IsKey, k

\* Keys of one mask that contain one address are one key.
LEMMA SameKey ==
    ASSUME NEW k, IsKey(k), NEW l, IsKey(l), k.fam = l.fam, k.mask = l.mask,
           NEW a \in Bits(k.fam), contains(k, a), contains(l, a)
    PROVE  k = l
<1> DEFINE W == Width[k.fam]
<1>1. DOMAIN a = 1 .. W /\ k.addr \in [1 .. W -> {0, 1}] /\ l.addr \in [1 .. W -> {0, 1}]
    BY Zenon DEF IsKey, Bits
<1>2. \A i \in 1 .. W : k.addr[i] = l.addr[i]
    BY Zenon, <1>1 DEF contains
<1>3. k.addr = l.addr
    <2> DEFINE u == k.addr
               v == l.addr
               B == {0, 1}
               D == 1 .. W
    <2>1. u \in [D -> B] /\ v \in [D -> B]
        BY Zenon, <1>1
    <2>2. \A i \in D : u[i] = v[i]
        BY Zenon, <1>2
    <2> HIDE DEF D, u, v, B
    <2>3. Equal(u, v)
        BY Zenon, <2>1, <2>2, FcnEqual
    <2> QED BY Zenon, <2>3 DEF u, v, Equal
<1> QED BY Zenon, <1>3 DEF IsKey

\* A key contains what it was normalised from.
LEMMA ContainsOwn ==
    ASSUME NEW r, NEW k, Normal(r, k) PROVE contains(k, r.addr)
<1>1. DOMAIN r.addr = 1 .. Width[k.fam]
    BY Zenon DEF Normal, Bits
<1> QED BY Zenon, <1>1 DEF Normal, contains

\* The entry of the n-th key of a document.
EntryOf(doc, n) == [key |-> parseMaskedKey(doc[n]), rule |-> n]

\* The entries a document can have.
EntrySet(doc) == {EntryOf(doc, n) : n \in 1 .. Len(doc)}

\* The entries after n keys of the document: their keys are distinct, every
\* key so far has one, and its rule is the last of its key.
Parsed(doc, n, es) ==
    /\ es \in Seq(EntrySet(doc))
    /\ \A i, j \in 1 .. Len(es) : es[i].key = es[j].key => i = j
    /\ \A j \in 1 .. n : \E i \in 1 .. Len(es) : es[i].key = parseMaskedKey(doc[j])
    /\ \A i \in 1 .. Len(es) :
          /\ es[i].rule \in 1 .. n /\ es[i].key = parseMaskedKey(doc[es[i].rule])
          /\ \A j \in 1 .. n : es[i].key = parseMaskedKey(doc[j]) => j <= es[i].rule

\* addEntry returns a sequence of entries.
LEMMA AddType ==
    ASSUME NEW E, NEW es \in Seq(E), NEW e \in E PROVE addEntry(es, e) \in Seq(E)
<1> DEFINE at == {j \in DOMAIN es : es[j].key = e.key}
           x == CHOOSE j \in at : TRUE
<1>1. CASE at = {}
    <2>1. addEntry(es, e) = Append(es, e)
        BY Zenon, <1>1 DEF addEntry
    <2>2. Append(es, e) \in Seq(E)
        OBVIOUS
    <2> QED BY Zenon, <2>1, <2>2
<1>2. CASE at # {}
    <2>1. x \in DOMAIN es
        BY Zenon, <1>2
    <2>2. addEntry(es, e) = [es EXCEPT ![x] = e]
        BY Zenon, <1>2 DEF addEntry
    <2> HIDE DEF x
    <2>3. [es EXCEPT ![x] = e] \in Seq(E)
        BY <2>1
    <2> QED BY Zenon, <2>2, <2>3
<1> QED BY Zenon, <1>1, <1>2

\* addEntry keeps what is known of the entries so far.
LEMMA AddIs ==
    ASSUME NEW doc, NEW n \in 1 .. Len(doc), Len(doc) \in Nat, NEW es, Parsed(doc, n - 1, es)
    PROVE  Parsed(doc, n, addEntry(es, EntryOf(doc, n)))
<1> DEFINE E == EntrySet(doc)
           e == EntryOf(doc, n)
           at == {j \in DOMAIN es : es[j].key = e.key}
           x == CHOOSE j \in at : TRUE
           t == addEntry(es, e)
           m == Len(es)
           K(j) == parseMaskedKey(doc[j])
<1>0. e \in E
    BY Zenon DEF EntrySet
<1>1. es \in Seq(E)
    BY Zenon DEF Parsed
<1>2. t \in Seq(E)
    BY Zenon, <1>0, <1>1, AddType
<1>3. e.key = K(n) /\ e.rule = n
    BY DEF EntryOf
<1>k. /\ \A i, j \in 1 .. m : es[i].key = es[j].key => i = j
      /\ \A j \in 1 .. n - 1 : \E i \in 1 .. m : es[i].key = K(j)
      /\ \A i \in 1 .. m :
          /\ es[i].rule \in 1 .. n - 1 /\ es[i].key = K(es[i].rule)
          /\ \A j \in 1 .. n - 1 : es[i].key = K(j) => j <= es[i].rule
    BY Zenon DEF Parsed
<1> HIDE DEF E, e, K
<1>m. m \in Nat /\ DOMAIN es = 1 .. m
    BY <1>1
<1>n. /\ n \in Nat /\ n # 0 /\ n \in 1 .. n /\ n <= n
      /\ \A j \in 1 .. n : j = n \/ j \in 1 .. n - 1
      /\ \A j \in 1 .. n - 1 : j \in 1 .. n
      /\ \A j \in 1 .. n : j <= n
    OBVIOUS
<1>4. CASE at = {}
    <2>1. t = Append(es, e)
        BY Zenon, <1>4 DEF addEntry
    <2>2. Len(t) = m + 1 /\ t[m + 1] = e /\ \A i \in 1 .. m : t[i] = es[i]
        <3> HIDE DEF m, t
        <3> QED BY <1>0, <1>1, <1>m, <2>1 DEF m
    <2> HIDE DEF t
    <2>n. /\ \A i \in 1 .. m + 1 : i = m + 1 \/ i \in 1 .. m
          /\ \A i \in 1 .. m : i \in 1 .. m + 1
          /\ m + 1 \in 1 .. m + 1
        <3> HIDE DEF m
        <3> QED BY <1>m
    <2>3. \A i \in 1 .. m : es[i].key # K(n)
        BY Zenon, <1>3, <1>4, <1>m
    <2> HIDE DEF m, at
    <2>4. \A i, j \in 1 .. m + 1 : t[i].key = t[j].key => i = j
        BY ZenonT(60), <1>k, <1>3, <2>2, <2>3, <2>n
    <2>5. \A j \in 1 .. n : \E i \in 1 .. m + 1 : t[i].key = K(j)
        <3> TAKE j \in 1 .. n
        <3>1. CASE j = n
            BY Zenon, <1>3, <2>2, <2>n, <3>1
        <3>2. CASE j \in 1 .. n - 1
            <4>1. PICK i \in 1 .. m : es[i].key = K(j)
                BY Zenon, <1>k, <3>2
            <4> QED BY Zenon, <2>2, <2>n, <4>1
        <3> QED BY Zenon, <1>n, <3>1, <3>2
    <2>6. ASSUME NEW i \in 1 .. m + 1
          PROVE  /\ t[i].rule \in 1 .. n /\ t[i].key = K(t[i].rule)
                 /\ \A j \in 1 .. n : t[i].key = K(j) => j <= t[i].rule
        <3>1. CASE i = m + 1
            BY Zenon, <1>3, <1>n, <2>2, <3>1
        <3>2. CASE i \in 1 .. m
            <4>1. t[i] = es[i] /\ t[i].key # K(n)
                BY Zenon, <2>2, <2>3, <3>2
            <4>2. /\ t[i].rule \in 1 .. n - 1 /\ t[i].key = K(t[i].rule)
                  /\ \A j \in 1 .. n - 1 : t[i].key = K(j) => j <= t[i].rule
                BY Zenon, <1>k, <3>2, <4>1
            <4> QED BY Zenon, <1>n, <4>1, <4>2
        <3> QED BY Zenon, <2>n, <3>1, <3>2
    <2> QED BY Zenon, <1>2, <2>2, <2>4, <2>5, <2>6 DEF Parsed, E, K, t, e
<1>5. CASE at # {}
    <2>1. t = [es EXCEPT ![x] = e]
        BY Zenon, <1>5 DEF addEntry
    <2>2. x \in 1 .. m /\ es[x].key = K(n)
        BY Zenon, <1>5, <1>3, <1>m
    <2> HIDE DEF x, at
    <2>3. Len(t) = m /\ t[x] = e /\ \A i \in 1 .. m : i # x => t[i] = es[i]
        <3>1. DOMAIN t = 1 .. m /\ t[x] = e /\ \A i \in 1 .. m : i # x => t[i] = es[i]
            BY Zenon, <1>m, <2>1, <2>2
        <3>2. Len(t) \in Nat /\ DOMAIN t = 1 .. Len(t)
            BY Zenon, <1>2, SeqIs
        <3>3. Len(t) = m
            <4> HIDE DEF t, m
            <4> QED BY <1>m, <3>1, <3>2
        <3> QED BY Zenon, <3>1, <3>3
    <2> HIDE DEF t, m
    <2>4. \A i \in 1 .. m : t[i].key = es[i].key
        BY Zenon, <1>3, <2>2, <2>3
    <2>5. \A j \in 1 .. n : \E i \in 1 .. m : t[i].key = K(j)
        <3> TAKE j \in 1 .. n
        <3>1. CASE j = n
            BY Zenon, <2>2, <2>4, <3>1
        <3>2. CASE j \in 1 .. n - 1
            BY Zenon, <1>k, <2>4, <3>2
        <3> QED BY Zenon, <1>n, <3>1, <3>2
    <2>6. ASSUME NEW i \in 1 .. m
          PROVE  /\ t[i].rule \in 1 .. n /\ t[i].key = K(t[i].rule)
                 /\ \A j \in 1 .. n : t[i].key = K(j) => j <= t[i].rule
        <3>1. CASE i = x
            BY Zenon, <1>3, <1>n, <2>3, <3>1
        <3>2. CASE i # x
            <4>1. t[i] = es[i] /\ t[i].key # K(n)
                BY ZenonT(60), <1>k, <2>2, <2>3, <3>2
            <4>2. /\ t[i].rule \in 1 .. n - 1 /\ t[i].key = K(t[i].rule)
                  /\ \A j \in 1 .. n - 1 : t[i].key = K(j) => j <= t[i].rule
                BY Zenon, <1>k, <4>1
            <4> QED BY Zenon, <1>n, <4>1, <4>2
        <3> QED BY Zenon, <3>1, <3>2
    <2>7. \A i, j \in 1 .. m : t[i].key = t[j].key => i = j
        BY Zenon, <1>k, <2>4
    <2> QED BY Zenon, <1>2, <2>3, <2>5, <2>6, <2>7 DEF Parsed, E, K, t, e
<1> QED BY Zenon, <1>4, <1>5

\* What parseDefaultRuleset returns.
LEMMA ParseIs ==
    ASSUME NEW doc \in Seq(RawKey) PROVE Parsed(doc, Len(doc), parseDefaultRuleset(doc))
<1> DEFINE E == EntrySet(doc)
           N == Len(doc)
           R(w) == [n \in 0 .. N |-> IF n = 0 THEN <<>> ELSE addEntry(w[n - 1], EntryOf(doc, n))]
           f == [p \in (1 .. N) \X Seq(E) |-> addEntry(p[2], EntryOf(doc, p[1]))]
<1>1. N \in Nat /\ <<>> \in Seq(E)
    OBVIOUS
<1>2. \A n \in 1 .. N : EntryOf(doc, n) \in E
    BY Zenon DEF EntrySet
<1> HIDE DEF N, E
<1>3. f \in [(1 .. N) \X Seq(E) -> Seq(E)]
    <2>1. \A p \in (1 .. N) \X Seq(E) : p[1] \in 1 .. N /\ p[2] \in Seq(E)
        OBVIOUS
    <2> QED BY Zenon, <1>2, <2>1, AddType
<1>4. \A i \in 1 .. N, s \in Seq(E) : f[<<i, s>>] = addEntry(s, EntryOf(doc, i))
    <2> TAKE i \in 1 .. N, s \in Seq(E)
    <2>1. <<i, s>> \in (1 .. N) \X Seq(E) /\ <<i, s>>[2] = s /\ <<i, s>>[1] = i
        OBVIOUS
    <2> QED BY Zenon, <2>1
<1> HIDE DEF f
<1>5. PICK g : Built(Seq(E), <<>>, N, f, g)
    BY Zenon, <1>1, <1>3, Builds
<1>6. g = R(g)
    <2>1. g \in [0 .. N -> Seq(E)]
        BY Zenon, <1>5 DEF Built
    <2>2. ASSUME NEW n \in 0 .. N
          PROVE  g[n] = IF n = 0 THEN <<>> ELSE addEntry(g[n - 1], EntryOf(doc, n))
        <3>1. CASE n = 0
            BY Zenon, <1>5, <3>1 DEF Built
        <3>2. CASE n # 0
            <4>1. n \in 1 .. N /\ n - 1 \in 0 .. N
                BY <1>1, <3>2
            <4>2. g[n - 1] \in Seq(E)
                BY Zenon, <2>1, <4>1
            <4> QED BY Zenon, <1>4, <1>5, <3>2, <4>1, <4>2 DEF Built
        <3> QED BY Zenon, <3>1, <3>2
    <2> QED BY Zenon, <2>1, <2>2
<1>7. PICK w : w = R(w) /\ parseDefaultRuleset(doc) = w[N]
    BY Zenon, <1>6 DEF parseDefaultRuleset, N, EntryOf
<1>8. w[0] = <<>> /\ \A n \in 1 .. N : w[n] = addEntry(w[n - 1], EntryOf(doc, n))
    <2>1. 0 \in 0 .. N /\ \A n \in 1 .. N : n \in 0 .. N /\ n # 0
        BY <1>1
    <2> QED BY Zenon, <1>7, <2>1
<1> DEFINE G == {n \in 0 .. N : Parsed(doc, n, w[n])}
<1>9. 0 \in G
    <2>1. 0 \in 0 .. N /\ Len(<<>>) = 0 /\ 1 .. 0 = {}
        BY <1>1
    <2> QED BY Zenon, <1>1, <1>8, <2>1 DEF Parsed, E
<1>10. ASSUME NEW n \in 1 .. N, n - 1 \in G PROVE n \in G
    <2>1. n \in 0 .. N
        BY <1>1
    <2>2. Parsed(doc, n, addEntry(w[n - 1], EntryOf(doc, n)))
        BY Zenon, <1>1, <1>10, AddIs DEF N
    <2> QED BY Zenon, <1>8, <2>1, <2>2
<1>11. N \in G
    <2>1. N \in 0 .. N
        BY <1>1
    <2> HIDE DEF G
    <2> QED BY Zenon, <1>1, <1>9, <1>10, <2>1, Counting
<1> QED BY Zenon, <1>7, <1>11 DEF N

\* Of two entries for the same addresses under one mask the later decides
\* (LastEntryWins), for every document.
LEMMA LastWins == ASSUME NEW doc \in Seq(RawKey) PROVE LastEntryWins(doc)
<1> DEFINE es == parseDefaultRuleset(doc)
           n == Len(doc)
           K(j) == parseMaskedKey(doc[j])
<1>1. doc \in Seq(RawKey)
    BY Zenon, WidthAssumption
<1>2. n \in Nat /\ DOMAIN doc = 1 .. n /\ \A i \in 1 .. n : doc[i] \in RawKey
    BY <1>1
<1>3. \A i \in 1 .. n : Normal(doc[i], K(i))
    BY Zenon, <1>2, NormalIs
<1>4. Parsed(doc, n, es)
    BY Zenon, <1>1, ParseIs
<1>5. es \in Seq(EntrySet(doc))
    BY Zenon, <1>4 DEF Parsed
<1> HIDE DEF es
<1>6. Len(es) \in Nat /\ DOMAIN es = 1 .. Len(es)
    BY <1>5
<1> SUFFICES ASSUME NEW i \in DOMAIN doc
             PROVE  LET same == {j \in DOMAIN doc :
                                    /\ doc[j].fam = doc[i].fam
                                    /\ K(j).mask = K(i).mask
                                    /\ contains(K(j), doc[i].addr)}
                    IN \E e \in Matching(es, doc[i].fam, doc[i].addr) :
                          e.rule = CHOOSE j \in same : \A k \in same : k <= j
    BY Zenon DEF LastEntryWins, es
<1> DEFINE same == {j \in DOMAIN doc : /\ doc[j].fam = doc[i].fam /\ K(j).mask = K(i).mask
                                       /\ contains(K(j), doc[i].addr)}
<1>7. \A j \in 1 .. n : /\ IsKey(K(j)) /\ K(j).fam = doc[j].fam
                        /\ doc[j].addr \in Bits(K(j).fam) /\ contains(K(j), doc[j].addr)
    BY Zenon, <1>3, ContainsOwn DEF Normal
<1> HIDE DEF K
<1>8. \A j \in 1 .. n : j \in same <=> K(j) = K(i)
    <2> TAKE j \in 1 .. n
    <2>1. ASSUME j \in same PROVE K(j) = K(i)
        <3>1. /\ K(j).fam = K(i).fam /\ K(j).mask = K(i).mask
              /\ doc[i].addr \in Bits(K(j).fam)
              /\ contains(K(j), doc[i].addr) /\ contains(K(i), doc[i].addr)
            BY Zenon, <1>2, <1>7, <2>1
        <3> QED BY Zenon, <1>2, <1>7, <3>1, SameKey
    <2>2. ASSUME K(j) = K(i) PROVE j \in same
        BY Zenon, <1>2, <1>7, <2>2
    <2> QED BY Zenon, <2>1, <2>2
<1>9. PICK x \in 1 .. Len(es) : es[x].key = K(i)
    BY Zenon, <1>2, <1>4 DEF Parsed, K
<1>10. /\ es[x].rule \in 1 .. n /\ K(i) = K(es[x].rule)
       /\ \A j \in 1 .. n : K(i) = K(j) => j <= es[x].rule
    BY Zenon, <1>4, <1>9 DEF Parsed, K
<1>11. es[x].rule \in same /\ \A j \in same : j <= es[x].rule
    BY Zenon, <1>2, <1>8, <1>10
<1>12. \A j \in same : j \in Nat
    <2>1. \A j \in 1 .. n : j \in Nat
        BY <1>2
    <2> QED BY Zenon, <1>2, <2>1
<1> HIDE DEF same
<1>13. es[x].rule = CHOOSE j \in same : \A k \in same : k <= j
    <2>1. \A j \in same : (\A k \in same : k <= j) => j = es[x].rule
        BY <1>11, <1>12
    <2> QED BY Zenon, <1>11, <2>1
<1>14. es[x] \in Matching(es, doc[i].fam, doc[i].addr)
    BY Zenon, <1>2, <1>6, <1>7, <1>9 DEF Matching, OfFamily, Range
<1> QED BY Zenon, <1>13, <1>14 DEF same

-----------------------------------------------------------------------------
(* The default table: addresses as numbers *)

\* Weight is the power of two.
LEMMA WeightIs ==
    /\ Weight \in [Nat -> Nat] /\ Weight[0] = 1
    /\ \A n \in Nat : n # 0 => Weight[n] = 2 * Weight[n - 1]
<1> DEFINE R(w) == [n \in Nat |-> IF n = 0 THEN 1 ELSE 2 * w[n - 1]]
           f == [p \in Nat \X Nat |-> 2 * p[2]]
<1>1. f \in [Nat \X Nat -> Nat] /\ 1 \in Nat
    OBVIOUS
<1>2. \A n \in Nat, s \in Nat : f[<<n, s>>] = 2 * s
    OBVIOUS
<1> HIDE DEF f
<1>3. PICK h : Iterates(Nat, 1, f, h)
    BY Zenon, <1>1, Iterated
<1>4. h \in [Nat -> Nat] /\ h[0] = 1 /\ \A n \in Nat : h[n + 1] = 2 * h[n]
    BY Zenon, <1>2, <1>3 DEF Iterates
<1>5. h = R(h)
    <2>1. ASSUME NEW n \in Nat PROVE h[n] = IF n = 0 THEN 1 ELSE 2 * h[n - 1]
        <3>1. CASE n # 0
            <4>1. n - 1 \in Nat /\ (n - 1) + 1 = n
                BY <3>1
            <4> QED BY Zenon, <1>4, <3>1, <4>1
        <3> QED BY Zenon, <1>4, <3>1
    <2> QED BY Zenon, <1>4, <2>1
<1>6. Weight = R(Weight)
    BY Zenon, <1>5 DEF Weight
<1>7. Weight[0] = 1 /\ \A n \in Nat : n # 0 => Weight[n] = 2 * Weight[n - 1]
    BY Zenon, <1>6
<1>8. DOMAIN Weight = Nat
    BY Zenon, <1>6
<1>9. ASSUME NEW n \in Nat PROVE Weight[n] \in Nat
    <2> DEFINE G == {i \in 0 .. n : Weight[i] \in Nat}
    <2>1. 0 \in G
        BY <1>7
    <2>2. ASSUME NEW i \in 1 .. n, i - 1 \in G PROVE i \in G
        <3>1. i \in Nat /\ i # 0 /\ i \in 0 .. n
            OBVIOUS
        <3>2. Weight[i] = 2 * Weight[i - 1] /\ Weight[i - 1] \in Nat
            BY Zenon, <1>7, <2>2, <3>1
        <3>3. 2 * Weight[i - 1] \in Nat
            BY <3>2
        <3> QED BY Zenon, <3>1, <3>2, <3>3
    <2>3. n \in 0 .. n
        OBVIOUS
    <2>4. n \in G
        <3> HIDE DEF G
        <3> QED BY Zenon, <2>1, <2>2, <2>3, Counting
    <2> QED BY Zenon, <2>4
<1> QED BY Zenon, <1>6, <1>7, <1>8, <1>9

\* It is at least 1.
LEMMA WeightPositive == ASSUME NEW n \in Nat PROVE Weight[n] \in Nat /\ Weight[n] >= 1
<1> DEFINE G == {i \in 0 .. n : Weight[i] >= 1}
<1>1. 0 \in G
    BY WeightIs
<1>2. ASSUME NEW i \in 1 .. n, i - 1 \in G PROVE i \in G
    <2>1. i \in Nat /\ i # 0 /\ i \in 0 .. n /\ i - 1 \in Nat
        OBVIOUS
    <2>2. Weight[i] = 2 * Weight[i - 1] /\ Weight[i - 1] \in Nat /\ Weight[i - 1] >= 1
        BY Zenon, <1>2, <2>1, WeightIs
    <2>3. 2 * Weight[i - 1] >= 1
        BY <2>2
    <2> QED BY Zenon, <2>1, <2>2, <2>3
<1>3. n \in 0 .. n
    OBVIOUS
<1>4. n \in G
    <2> HIDE DEF G
    <2> QED BY Zenon, <1>1, <1>2, <1>3, Counting
<1> QED BY Zenon, <1>4, WeightIs

\* g holds the numbers the first bits of b stand for.
Valued(b, w, g) ==
    /\ g \in [0 .. w -> Nat] /\ g[0] = 0
    /\ \A i \in 1 .. w : b[i] \in {0, 1} /\ g[i] = 2 * g[i - 1] + b[i]

\* Value reads the bits from the most significant on.
LEMMA ValueIs ==
    ASSUME NEW w \in Nat, NEW b \in [1 .. w -> {0, 1}]
    PROVE  \E g : Valued(b, w, g) /\ ValueUpTo(b, w) = g[w]
<1> DEFINE R(v) == [i \in 0 .. w |-> IF i = 0 THEN 0 ELSE 2 * v[i - 1] + b[i]]
           f == [p \in (1 .. w) \X Nat |-> 2 * p[2] + b[p[1]]]
<1>0. \A i \in 1 .. w : b[i] \in {0, 1}
    BY Zenon
<1>1. \A i \in 1 .. w, s \in Nat : 2 * s + b[i] \in Nat
    <2> TAKE i \in 1 .. w, s \in Nat
    <2>1. b[i] = 0 \/ b[i] = 1
        BY Zenon, <1>0
    <2> QED BY <2>1
<1>2. f \in [(1 .. w) \X Nat -> Nat]
    <2>1. \A p \in (1 .. w) \X Nat : p[1] \in 1 .. w /\ p[2] \in Nat
        OBVIOUS
    <2> QED BY Zenon, <1>1, <2>1
<1>3. \A i \in 1 .. w, s \in Nat : f[<<i, s>>] = 2 * s + b[i]
    <2> TAKE i \in 1 .. w, s \in Nat
    <2>1. <<i, s>> \in (1 .. w) \X Nat /\ <<i, s>>[2] = s /\ <<i, s>>[1] = i
        OBVIOUS
    <2> QED BY Zenon, <2>1
<1> HIDE DEF f
<1>4. 0 \in Nat /\ w \in 0 .. w
    OBVIOUS
<1>5. PICK g : Built(Nat, 0, w, f, g)
    BY Zenon, <1>2, <1>4, Builds
<1>6. g = R(g)
    <2>1. g \in [0 .. w -> Nat]
        BY Zenon, <1>5 DEF Built
    <2>2. ASSUME NEW i \in 0 .. w PROVE g[i] = IF i = 0 THEN 0 ELSE 2 * g[i - 1] + b[i]
        <3>1. CASE i = 0
            BY Zenon, <1>5, <3>1 DEF Built
        <3>2. CASE i # 0
            <4>1. i \in 1 .. w /\ i - 1 \in 0 .. w
                BY <3>2
            <4>2. g[i - 1] \in Nat
                BY Zenon, <2>1, <4>1
            <4> QED BY Zenon, <1>3, <1>5, <3>2, <4>1, <4>2 DEF Built
        <3> QED BY Zenon, <3>1, <3>2
    <2> QED BY Zenon, <2>1, <2>2
<1>7. PICK v : v = R(v) /\ ValueUpTo(b, w) = v[w]
    BY Zenon, <1>6 DEF ValueUpTo
<1>8. DOMAIN v = 0 .. w /\ v[0] = 0 /\ \A i \in 1 .. w : v[i] = 2 * v[i - 1] + b[i]
    <2>1. 0 \in 0 .. w /\ \A i \in 1 .. w : i \in 0 .. w /\ i # 0
        OBVIOUS
    <2> QED BY Zenon, <1>7, <2>1
<1> DEFINE G == {i \in 0 .. w : v[i] \in Nat}
<1>9. 0 \in G
    BY <1>8
<1>10. ASSUME NEW i \in 1 .. w, i - 1 \in G PROVE i \in G
    <2>1. i \in 0 .. w
        OBVIOUS
    <2> QED BY Zenon, <1>1, <1>8, <1>10, <2>1
<1>11. \A i \in 0 .. w : v[i] \in Nat
    <2>1. \A i \in 0 .. w : i \in G
        <3> HIDE DEF G
        <3> QED BY Zenon, <1>9, <1>10, Counting
    <2> QED BY Zenon, <2>1
<1>12. v \in [0 .. w -> Nat]
    BY Zenon, <1>7, <1>11
<1> QED BY Zenon, <1>0, <1>7, <1>8, <1>12 DEF Valued

\* A value is a number.
LEMMA ValueIsNat ==
    ASSUME NEW w \in Nat, NEW b \in [1 .. w -> {0, 1}] PROVE ValueUpTo(b, w) \in Nat
<1>1. PICK g : Valued(b, w, g) /\ ValueUpTo(b, w) = g[w]
    BY Zenon, ValueIs
<1>2. w \in 0 .. w
    OBVIOUS
<1> QED BY ZenonT(60), <1>1, <1>2 DEF Valued

\* x and y followed by a bit are one number exactly if both parts are the same.
LastBit(x, y, p, q) == 2 * x + p = 2 * y + q <=> x = y /\ p = q

\* A number determines its last bit and the rest.
LEMMA Bit ==
    ASSUME NEW x \in Nat, NEW y \in Nat, NEW p \in {0, 1}, NEW q \in {0, 1}
    PROVE  LastBit(x, y, p, q)
BY DEF LastBit

\* One bit of a value.
LEMMA ValuedAt ==
    ASSUME NEW b, NEW w \in Nat, NEW g, Valued(b, w, g), NEW i \in 1 .. w
    PROVE  g[i] \in Nat /\ g[i - 1] \in Nat /\ b[i] \in {0, 1} /\ g[i] = 2 * g[i - 1] + b[i]
<1>1. i \in 0 .. w /\ i - 1 \in 0 .. w
    OBVIOUS
<1> QED BY Zenon, <1>1 DEF Valued

\* The first n bits are the same.
SameUpTo(a, b, n) == \A i \in 1 .. n : a[i] = b[i]

\* The numbers of the first n bits are equal exactly when the bits are.
Agree(a, b, g, h, n) == g[n] = h[n] <=> SameUpTo(a, b, n)

\* Numbers are equal exactly when their bits are.
LEMMA SameTop ==
    ASSUME NEW w \in Nat, NEW n \in 0 .. w,
           NEW a, NEW g, Valued(a, w, g), NEW b, NEW h, Valued(b, w, h)
    PROVE  Agree(a, b, g, h, n)
<1>0. n \in Nat /\ \A i \in 1 .. n : i \in 1 .. w
    OBVIOUS
<1>s. \A i \in 1 .. n : g[i] = h[i] <=> g[i - 1] = h[i - 1] /\ a[i] = b[i]
    <2> TAKE i \in 1 .. n
    <2>1. g[i - 1] \in Nat /\ a[i] \in {0, 1} /\ g[i] = 2 * g[i - 1] + a[i]
        BY ZenonT(60), <1>0, ValuedAt
    <2>2. h[i - 1] \in Nat /\ b[i] \in {0, 1} /\ h[i] = 2 * h[i - 1] + b[i]
        BY ZenonT(60), <1>0, ValuedAt
    <2>3. g[i - 1] \in Nat /\ h[i - 1] \in Nat /\ a[i] \in {0, 1} /\ b[i] \in {0, 1}
        BY Zenon, <2>1, <2>2
    <2>4. LastBit(g[i - 1], h[i - 1], a[i], b[i])
        BY ZenonT(60), <2>3, Bit
    <2> QED BY Zenon, <2>1, <2>2, <2>4 DEF LastBit
<1>1. ASSUME g[n] = h[n] PROVE \A i \in 1 .. n : a[i] = b[i]
    <2> DEFINE G == {m \in 0 .. n : g[n - m] = h[n - m]}
    <2>1. 0 \in G
        <3>1. n - 0 = n /\ 0 \in 0 .. n
            BY <1>0
        <3> QED BY Zenon, <1>1, <3>1
    <2>2. ASSUME NEW m \in 1 .. n, m - 1 \in G PROVE m \in G
        <3>1. m \in 0 .. n /\ n - (m - 1) \in 1 .. n /\ (n - (m - 1)) - 1 = n - m
            BY <1>0
        <3>2. g[n - (m - 1)] = h[n - (m - 1)]
            BY Zenon, <2>2
        <3>3. g[(n - (m - 1)) - 1] = h[(n - (m - 1)) - 1]
            BY Zenon, <1>s, <3>1, <3>2
        <3> QED BY Zenon, <3>1, <3>3
    <2>3. \A m \in 0 .. n : m \in G
        <3> HIDE DEF G
        <3> QED BY Zenon, <1>0, <2>1, <2>2, Counting
    <2> TAKE i \in 1 .. n
    <2>4. n - i \in 0 .. n /\ n - (n - i) = i
        BY <1>0
    <2>5. g[n - (n - i)] = h[n - (n - i)]
        BY Zenon, <2>3, <2>4
    <2> QED BY Zenon, <1>s, <2>4, <2>5
<1>2. ASSUME \A i \in 1 .. n : a[i] = b[i] PROVE g[n] = h[n]
    <2> DEFINE G == {m \in 0 .. n : g[m] = h[m]}
    <2>1. 0 \in G
        <3>1. 0 \in 0 .. n
            BY <1>0
        <3> QED BY Zenon, <3>1 DEF Valued
    <2>2. ASSUME NEW m \in 1 .. n, m - 1 \in G PROVE m \in G
        <3>1. m \in 0 .. n
            BY <1>0
        <3> QED BY Zenon, <1>2, <1>s, <2>2, <3>1
    <2>3. n \in G
        <3>1. n \in 0 .. n
            BY <1>0
        <3> HIDE DEF G
        <3> QED BY Zenon, <1>0, <2>1, <2>2, <3>1, Counting
    <2> QED BY Zenon, <2>3
<1> QED BY Zenon, <1>1, <1>2 DEF SameUpTo, Agree

\* A number of w bits is less than Weight[w].
LEMMA Bounded ==
    ASSUME NEW w \in Nat, NEW a, NEW g, Valued(a, w, g) PROVE g[w] < Weight[w]
<1> DEFINE G == {m \in 0 .. w : g[m] < Weight[m]}
<1>1. 0 \in G
    <2>1. 0 \in 0 .. w /\ 0 < 1
        OBVIOUS
    <2>2. g[0] = 0 /\ Weight[0] = 1
        BY Zenon, WeightIs DEF Valued
    <2> QED BY Zenon, <2>1, <2>2
<1>2. ASSUME NEW m \in 1 .. w, m - 1 \in G PROVE m \in G
    <2>1. m \in 0 .. w /\ m \in Nat /\ m - 1 \in Nat /\ m # 0
        OBVIOUS
    <2>2. g[m - 1] \in Nat /\ a[m] \in {0, 1} /\ g[m] = 2 * g[m - 1] + a[m]
        BY Zenon, ValuedAt
    <2>3. Weight[m] = 2 * Weight[m - 1] /\ Weight[m - 1] \in Nat
        BY Zenon, <2>1, WeightIs
    <2>4. g[m - 1] < Weight[m - 1]
        BY Zenon, <1>2
    <2>5. 2 * g[m - 1] + a[m] < 2 * Weight[m - 1]
        BY <2>2, <2>3, <2>4
    <2> QED BY Zenon, <2>1, <2>2, <2>3, <2>5
<1>3. w \in 0 .. w
    OBVIOUS
<1>4. w \in G
    <2> HIDE DEF G
    <2> QED BY Zenon, <1>1, <1>2, <1>3, Counting
<1> QED BY Zenon, <1>4

\* How far y, of m bits more than its equal or unequal top, is from x, whose last
\* m bits are zero.
Apart(top, x, y, z) ==
    /\ top = 0 => x <= y /\ y <= x + z - 1
    /\ top > 0 => y >= x + z
    /\ top < 0 => y < x

\* One bit more keeps the distance.
LEMMA ApartStep ==
    ASSUME NEW top \in Int, NEW x \in Nat, NEW y \in Nat, NEW z \in Nat, z >= 1, NEW p \in {0, 1},
           Apart(top, x, y, z)
    PROVE  Apart(top, 2 * x + 0, 2 * y + p, 2 * z)
BY DEF Apart

\* Addresses below one prefix are less than a block apart, others at least one.
LEMMA Spread ==
    ASSUME NEW w \in Nat, NEW n \in 0 .. w,
           NEW a, NEW g, Valued(a, w, g), NEW b, NEW h, Valued(b, w, h),
           \A i \in 1 .. w : ~(i <= n) => b[i] = 0
    PROVE  Apart(g[n] - h[n], h[w], g[w], Weight[w - n])
<1> DEFINE top == g[n] - h[n]
           G == {m \in 0 .. w - n : Apart(top, h[n + m], g[n + m], Weight[m])}
<1>0. n \in Nat /\ w - n \in Nat /\ n \in 0 .. w
    OBVIOUS
<1>1. g[n] \in Nat /\ h[n] \in Nat
    BY Zenon, <1>0 DEF Valued
<1>2. top \in Int
    BY <1>1
<1>3. 0 \in G
    <2>1. n + 0 = n /\ 0 \in 0 .. w - n
        BY <1>0
    <2>2. Apart(top, h[n], g[n], 1)
        BY <1>1 DEF Apart
    <2> HIDE DEF top
    <2> QED BY Zenon, <2>1, <2>2, WeightIs
<1> HIDE DEF top
<1>4. ASSUME NEW m \in 1 .. w - n, m - 1 \in G PROVE m \in G
    <2> DEFINE i == n + m
    <2>1. /\ m \in 0 .. w - n /\ i \in 1 .. w /\ ~(i <= n) /\ i - 1 = n + (m - 1)
          /\ m \in Nat /\ m # 0 /\ m - 1 \in Nat
        BY <1>0
    <2> HIDE DEF i
    <2>2. g[i - 1] \in Nat /\ a[i] \in {0, 1} /\ g[i] = 2 * g[i - 1] + a[i]
        BY Zenon, <2>1, ValuedAt
    <2>3. h[i - 1] \in Nat /\ h[i] = 2 * h[i - 1] + 0
        <3>1. h[i - 1] \in Nat /\ h[i] = 2 * h[i - 1] + b[i]
            BY Zenon, <2>1, ValuedAt
        <3>2. b[i] = 0
            BY Zenon, <2>1
        <3> QED BY Zenon, <3>1, <3>2
    <2>4. Weight[m] = 2 * Weight[m - 1] /\ Weight[m - 1] \in Nat /\ Weight[m - 1] >= 1
        BY Zenon, <2>1, WeightIs, WeightPositive
    <2>5. Apart(top, h[i - 1], g[i - 1], Weight[m - 1])
        BY Zenon, <1>4, <2>1
    <2>6. Apart(top, h[i], g[i], Weight[m])
        BY ZenonT(60), <1>2, <2>2, <2>3, <2>4, <2>5, ApartStep
    <2> QED BY Zenon, <2>1, <2>6 DEF i
<1>5. w - n \in 0 .. w - n /\ n + (w - n) = w
    BY <1>0
<1>6. w - n \in G
    <2> HIDE DEF G
    <2> QED BY Zenon, <1>0, <1>3, <1>4, <1>5, Counting
<1>7. Apart(top, h[n + (w - n)], g[n + (w - n)], Weight[w - n])
    BY Zenon, <1>6
<1> QED BY Zenon, <1>5, <1>7 DEF top

\* The bits of every number.
LEMMA Onto ==
    ASSUME NEW w \in Nat, NEW v \in Nat, v < Weight[w]
    PROVE  \E a \in [1 .. w -> {0, 1}] : ValueUpTo(a, w) = v
<1> DEFINE Has(m, u) == \E a, g : Valued(a, m, g) /\ a \in [1 .. m -> {0, 1}] /\ g[m] = u
           G == {m \in 0 .. w : \A u \in Nat : u < Weight[m] => Has(m, u)}
<1>1. 0 \in G
    <2>1. 0 \in 0 .. w /\ \A u \in Nat : u < 1 => u = 0
        OBVIOUS
    <2> DEFINE a == [i \in 1 .. 0 |-> 0]
               g == [i \in 0 .. 0 |-> 0]
    <2>2. a \in [1 .. 0 -> {0, 1}]
        OBVIOUS
    <2>3. g \in [0 .. 0 -> Nat] /\ g[0] = 0 /\ 1 .. 0 = {}
        OBVIOUS
    <2> HIDE DEF a, g
    <2>4. Valued(a, 0, g)
        BY Zenon, <2>3 DEF Valued
    <2>5. Has(0, 0)
        <3>1. Valued(a, 0, g) /\ a \in [1 .. 0 -> {0, 1}] /\ g[0] = 0
            BY Zenon, <2>2, <2>3, <2>4
        <3> QED BY Zenon, <3>1
    <2> HIDE DEF Has
    <2> QED BY Zenon, <2>1, <2>5, WeightIs
<1>2. ASSUME NEW m \in 1 .. w, m - 1 \in G PROVE m \in G
    <2>1. m \in 0 .. w /\ m \in Nat /\ m # 0 /\ m - 1 \in Nat
        OBVIOUS
    <2>2. Weight[m] = 2 * Weight[m - 1] /\ Weight[m - 1] \in Nat
        BY Zenon, <2>1, WeightIs
    <2>3. ASSUME NEW u \in Nat, u < Weight[m] PROVE Has(m, u)
        <3> DEFINE t == u \div 2
                   r == u % 2
        <3>1. t \in Nat /\ r \in {0, 1} /\ u = 2 * t + r /\ t < Weight[m - 1]
            BY <2>2, <2>3
        <3> HIDE DEF t, r
        <3>2. PICK a, g : Valued(a, m - 1, g) /\ a \in [1 .. m - 1 -> {0, 1}] /\ g[m - 1] = t
            BY Zenon, <1>2, <3>1
        <3> DEFINE b == [i \in 1 .. m |-> IF i = m THEN r ELSE a[i]]
                   h == [i \in 0 .. m |-> IF i = m THEN u ELSE g[i]]
        <3>3. /\ \A i \in 1 .. m : i # m => i \in 1 .. m - 1 /\ i \in 0 .. m - 1 /\ i - 1 # m
              /\ \A i \in 1 .. m : i - 1 \in 0 .. m /\ i \in 0 .. m /\ i - 1 # m
              /\ \A i \in 0 .. m : i # m => i \in 0 .. m - 1
              /\ m \in 0 .. m /\ 0 \in 0 .. m /\ 0 # m
            BY <2>1
        <3>4. /\ \A i \in 1 .. m - 1 : a[i] \in {0, 1} /\ g[i] = 2 * g[i - 1] + a[i]
              /\ \A i \in 0 .. m - 1 : g[i] \in Nat /\ g[0] = 0
            BY Zenon, <3>2 DEF Valued
        <3>5. b \in [1 .. m -> {0, 1}] /\ \A i \in 1 .. m : b[i] = IF i = m THEN r ELSE a[i]
            BY Zenon, <3>1, <3>3, <3>4
        <3>6. h \in [0 .. m -> Nat] /\ \A i \in 0 .. m : h[i] = IF i = m THEN u ELSE g[i]
            BY Zenon, <3>3, <3>4
        <3> HIDE DEF b, h
        <3>7. h[0] = 0
            <4>1. 0 \in 0 .. m - 1
                BY <2>1
            <4> QED BY Zenon, <3>3, <3>4, <3>6, <4>1
        <3>8. ASSUME NEW i \in 1 .. m PROVE b[i] \in {0, 1} /\ h[i] = 2 * h[i - 1] + b[i]
            <4>1. h[i - 1] = g[i - 1]
                BY Zenon, <3>3, <3>6
            <4>2. CASE i = m
                <5>1. h[i] = u /\ b[i] = r /\ h[i - 1] = t
                    BY Zenon, <3>2, <3>3, <3>5, <3>6, <4>1, <4>2
                <5> QED BY Zenon, <3>1, <5>1
            <4>3. CASE i # m
                BY Zenon, <3>3, <3>4, <3>5, <3>6, <4>1, <4>3
            <4> QED BY Zenon, <4>2, <4>3
        <3>9. Valued(b, m, h)
            BY Zenon, <3>6, <3>7, <3>8 DEF Valued
        <3>10. h[m] = u
            BY Zenon, <3>3, <3>6
        <3> QED BY Zenon, <3>5, <3>9, <3>10
    <2> HIDE DEF Has
    <2> QED BY Zenon, <2>1, <2>3
<1>3. w \in 0 .. w
    OBVIOUS
<1>4. w \in G
    <2> HIDE DEF G
    <2> QED BY Zenon, <1>1, <1>2, <1>3, Counting
<1>5. PICK a, g : Valued(a, w, g) /\ a \in [1 .. w -> {0, 1}] /\ g[w] = v
    BY Zenon, <1>4
<1>6. PICK h : Valued(a, w, h) /\ ValueUpTo(a, w) = h[w]
    BY Zenon, <1>5, ValueIs
<1>7. g[w] = h[w]
    <2>1. Agree(a, a, g, h, w)
        BY Zenon, <1>3, <1>5, <1>6, SameTop
    <2> QED BY Zenon, <2>1 DEF SameUpTo, Agree
<1> QED BY Zenon, <1>5, <1>6, <1>7

\* Addresses of a family with one value are one address.
LEMMA ValueInjective ==
    ASSUME NEW fam \in Family, NEW a \in Bits(fam), NEW b \in Bits(fam), Value(fam, a) = Value(fam, b)
    PROVE  Equal(a, b)
<1> DEFINE w == Width[fam]
           D == 1 .. w
<1>1. w \in Nat
    BY Zenon, WidthAssumption
<1>2. a \in [D -> {0, 1}] /\ b \in [D -> {0, 1}]
    BY Zenon DEF Bits
<1>3. w \in 0 .. w
    BY <1>1
<1> HIDE DEF w
<1>4. PICK g : Valued(a, w, g) /\ ValueUpTo(a, w) = g[w]
    BY Zenon, <1>1, <1>2, ValueIs
<1>5. PICK h : Valued(b, w, h) /\ ValueUpTo(b, w) = h[w]
    BY Zenon, <1>1, <1>2, ValueIs
<1>6. SameUpTo(a, b, w)
    <2>1. Agree(a, b, g, h, w)
        BY Zenon, <1>1, <1>3, <1>4, <1>5, SameTop
    <2>2. g[w] = h[w]
        BY Zenon, <1>4, <1>5 DEF Value, w
    <2> QED BY Zenon, <2>1, <2>2 DEF Agree
<1>7. \A i \in D : a[i] = b[i]
    BY Zenon, <1>6 DEF SameUpTo
<1> HIDE DEF D
<1> QED BY Zenon, <1>2, <1>7, FcnEqual

\* The values of a family's addresses are the numbers below Weight[Width[fam]].
LEMMA Values ==
    ASSUME NEW fam \in Family
    PROVE  /\ Weight[Width[fam]] \in Nat /\ Weight[Width[fam]] >= 1
           /\ \A a \in Bits(fam) : Value(fam, a) \in Nat /\ Value(fam, a) < Weight[Width[fam]]
           /\ \A v \in Nat : v < Weight[Width[fam]] => \E a \in Bits(fam) : Value(fam, a) = v
<1> DEFINE w == Width[fam]
<1>1. w \in Nat
    BY Zenon, WidthAssumption
<1>2. Weight[w] \in Nat /\ Weight[w] >= 1
    BY Zenon, <1>1, WeightPositive
<1>3. Bits(fam) = [1 .. w -> {0, 1}] /\ \A a : Value(fam, a) = ValueUpTo(a, w)
    BY Zenon DEF Bits, Value
<1> HIDE DEF w
<1>4. ASSUME NEW a \in [1 .. w -> {0, 1}] PROVE ValueUpTo(a, w) \in Nat /\ ValueUpTo(a, w) < Weight[w]
    <2>1. PICK g : Valued(a, w, g) /\ ValueUpTo(a, w) = g[w]
        BY Zenon, <1>1, ValueIs
    <2> QED BY Zenon, <1>1, <2>1, Bounded, ValueIsNat
<1>5. \A v \in Nat : v < Weight[w] => \E a \in [1 .. w -> {0, 1}] : ValueUpTo(a, w) = v
    BY Zenon, <1>1, Onto
<1> QED BY Zenon, <1>2, <1>3, <1>4, <1>5 DEF w

\* s holds the values from its start to its end.
Span(fam, s) == /\ s.start \in Nat /\ s.end \in Nat /\ s.start <= s.end
                /\ s.start < Weight[Width[fam]]

\* v is one of them.
Within(v, s) == s.start <= v /\ v <= s.end

\* The range of a prefix holds the addresses it contains.
LEMMA RangeIs ==
    ASSUME NEW k, IsKey(k), IsPrefixKey(k)
    PROVE  /\ Span(k.fam, prefixRange(k))
           /\ \A a \in Bits(k.fam) : contains(k, a) <=> Within(Value(k.fam, a), prefixRange(k))
<1> DEFINE fam == k.fam
           w == Width[fam]
           n == PrefixLen(k)
           s == Value(fam, k.addr)
           z == Weight[w - n]
<1>1. fam \in Family /\ k.addr \in Bits(fam) /\ k.mask \in Bits(fam)
    BY Zenon DEF IsKey
<1>2. w \in Nat
    BY Zenon, <1>1, WidthAssumption
<1>3. n \in 0 .. w /\ k.mask = prefixMask(fam, n)
    BY Zenon DEF IsPrefixKey, PrefixLen, contiguousPrefixLen
<1>4. \A i \in 1 .. w : k.mask[i] = IF i <= n THEN 1 ELSE 0
    <2> HIDE DEF n
    <2> QED BY Zenon, <1>3 DEF prefixMask
<1>5. prefixRange(k) = [start |-> s, end |-> s + z - 1]
    BY Zenon DEF prefixRange
<1>6. prefixRange(k).start = s /\ prefixRange(k).end = s + z - 1
    <2> HIDE DEF s, z
    <2> QED BY <1>5
<1>7. \A i \in 1 .. w : ~(i <= n) => k.addr[i] = 0
    BY Zenon, <1>4 DEF IsKey
<1> HIDE DEF n
<1>8. z \in Nat /\ z >= 1
    <2>1. w - n \in Nat
        BY <1>2, <1>3
    <2> QED BY Zenon, <2>1, WeightPositive
<1>9. s \in Nat /\ s < Weight[w]
    BY Zenon, <1>1, Values
<1> HIDE DEF z
<1>10. Span(fam, prefixRange(k))
    <2>1. s + z - 1 \in Nat /\ s <= s + z - 1
        <3> HIDE DEF s
        <3> QED BY <1>8, <1>9
    <2> QED BY Zenon, <1>6, <1>9, <2>1 DEF Span
<1>11. ASSUME NEW a \in Bits(fam)
       PROVE  contains(k, a) <=> Within(Value(fam, a), prefixRange(k))
    <2>1. PICK g : Valued(a, w, g) /\ ValueUpTo(a, w) = g[w]
        BY Zenon, <1>2, ValueIs DEF Bits
    <2>2. PICK h : Valued(k.addr, w, h) /\ ValueUpTo(k.addr, w) = h[w]
        BY Zenon, <1>1, <1>2, ValueIs DEF Bits
    <2>3. Apart(g[n] - h[n], s, Value(fam, a), z)
        <3>1. Apart(g[n] - h[n], h[w], g[w], Weight[w - n])
            BY Zenon, <1>2, <1>3, <1>7, <2>1, <2>2, Spread
        <3> QED BY Zenon, <2>1, <2>2, <3>1 DEF Value, z
    <2>4. g[n] = h[n] <=> SameUpTo(a, k.addr, n)
        <3>1. Agree(a, k.addr, g, h, n)
            BY Zenon, <1>2, <1>3, <2>1, <2>2, SameTop
        <3> QED BY Zenon, <3>1 DEF Agree
    <2>5. contains(k, a) <=> SameUpTo(a, k.addr, n)
        <3>0. DOMAIN a = 1 .. w /\ \A i \in 1 .. w : a[i] \in {0, 1}
            BY Zenon DEF Bits
        <3>1. ASSUME NEW i \in 1 .. w
              PROVE  /\ i <= n => a[i] * k.mask[i] = a[i]
                     /\ ~(i <= n) => a[i] * k.mask[i] = k.addr[i]
            <4>1. a[i] * 1 = a[i] /\ a[i] * 0 = 0
                <5>1. a[i] = 0 \/ a[i] = 1
                    BY Zenon, <3>0
                <5> QED BY <5>1
            <4> QED BY Zenon, <1>4, <1>7, <4>1
        <3>2. \A i \in 1 .. w : i <= n <=> i \in 1 .. n
            BY <1>2, <1>3
        <3>3. \A i \in 1 .. n : i \in 1 .. w
            BY <1>2, <1>3
        <3>4. contains(k, a) <=> \A i \in 1 .. w : i <= n => a[i] = k.addr[i]
            BY Zenon, <3>0, <3>1 DEF contains
        <3> QED BY Zenon, <3>2, <3>3, <3>4 DEF SameUpTo
    <2>6. g[n] \in Nat /\ h[n] \in Nat
        BY Zenon, <1>3, <2>1, <2>2 DEF Valued
    <2>7. Value(fam, a) \in Nat
        BY Zenon, <1>1, Values
    <2>8. g[n] = h[n] <=> s <= Value(fam, a) /\ Value(fam, a) <= s + z - 1
        <3> DEFINE v == Value(fam, a)
                   x == g[n]
                   y == h[n]
        <3>1. Apart(x - y, s, v, z) /\ x \in Nat /\ y \in Nat /\ v \in Nat
            BY Zenon, <2>3, <2>6, <2>7
        <3> HIDE DEF v, x, y, s
        <3>2. x = y <=> s <= v /\ v <= s + z - 1
            BY <1>8, <1>9, <3>1 DEF Apart
        <3> QED BY Zenon, <3>2 DEF v, x, y
    <2> QED BY Zenon, <1>6, <2>4, <2>5, <2>8 DEF Within
<1> QED BY Zenon, <1>10, <1>11

-----------------------------------------------------------------------------
(* The default table: the sweep *)

\* s is sorted by start.
ByStart(s, n) == \A i, j \in 1 .. n : i < j => s[i].start <= s[j].start

\* sortByStart returns an order by start.
LEMMA SortIs ==
    ASSUME NEW S, IsFiniteSet(S), \A s \in S : s.start \in Nat
    PROVE  sortByStart(S) \in Orders(S) /\ ByStart(sortByStart(S), Cardinality(S))
<1> DEFINE n == Cardinality(S)
           P(s) == \A i, j \in DOMAIN s : i < j => s[i].start <= s[j].start
           f == [s \in S |-> s.start]
<1>0. f \in [S -> Nat]
    BY Zenon
<1>1. PICK q : Listing(q, n, S) /\ ByKey(f, q, n)
    <2> HIDE DEF f
    <2> QED BY Zenon, <1>0, Sorts
<1>2. q \in Orders(S) /\ DOMAIN q = 1 .. n
    BY Zenon, <1>1, OrdersHas
<1>3. P(q)
    <2>1. \A i \in 1 .. n : q[i] \in S
        BY Zenon, <1>1 DEF Listing
    <2> QED BY Zenon, <1>1, <1>2, <2>1 DEF ByKey
<1>4. sortByStart(S) \in Orders(S) /\ P(sortByStart(S))
    BY Zenon, <1>2, <1>3 DEF sortByStart
<1>5. DOMAIN sortByStart(S) = 1 .. n
    BY Zenon, <1>4, ListsAll
<1> QED BY Zenon, <1>4, <1>5 DEF ByStart

\* A state of the sweep.
Reach == [upto : Int, gap : BOOLEAN]

\* After m of the n spans s: without a gap they hold everything up to upto and
\* nothing else; with one, some value is in none of the spans.
Swept(s, n, max, m, c) ==
    /\ c \in Reach /\ c.upto >= -1
    /\ ~c.gap => /\ \A j \in 1 .. m : s[j].end <= c.upto
                 /\ \A v \in Nat : v <= c.upto => \E j \in 1 .. m : Within(v, s[j])
    /\ c.gap => \E v \in Nat : v < max /\ \A j \in 1 .. n : ~Within(v, s[j])

\* The spans of the sweep, sorted.
Spans(s, n, max) ==
    /\ n \in Nat /\ max \in Nat /\ ByStart(s, n)
    /\ \A j \in 1 .. n : /\ s[j].start \in Nat /\ s[j].end \in Nat
                         /\ s[j].start <= s[j].end /\ s[j].start < max

\* A turn of the sweep leaves a state of it.
LEMMA ExtendType ==
    ASSUME NEW c \in Reach, NEW s, s.end \in Nat PROVE extend(c, s) \in Reach
<1>1. c.upto \in Int
    BY DEF Reach
<1>2. CASE c.gap \/ s.start > c.upto + 1
    <2>1. extend(c, s) = [c EXCEPT !.gap = TRUE]
        BY Zenon, <1>2 DEF extend
    <2> QED BY Zenon, <2>1 DEF Reach
<1>3. CASE ~(c.gap \/ s.start > c.upto + 1)
    <2> DEFINE u == IF s.end > c.upto THEN s.end ELSE c.upto
    <2>1. extend(c, s) = [c EXCEPT !.upto = u]
        BY Zenon, <1>3 DEF extend
    <2>2. u \in Int
        BY <1>1
    <2> HIDE DEF u
    <2> QED BY <2>1, <2>2 DEF Reach
<1> QED BY Zenon, <1>2, <1>3

\* A turn of the sweep keeps what is known of the spans so far: with them sorted, a
\* start beyond the frontier is a gap no later span closes.
LEMMA ExtendIs ==
    ASSUME NEW s, NEW n, NEW max, Spans(s, n, max), NEW m \in 1 .. n,
           NEW c, Swept(s, n, max, m - 1, c)
    PROVE  Swept(s, n, max, m, extend(c, s[m]))
<1> DEFINE d == extend(c, s[m])
           x == s[m].start
           y == s[m].end
           u == c.upto
<1>0. n \in Nat /\ max \in Nat
    BY Zenon DEF Spans
<1>1. x \in Nat /\ y \in Nat /\ x <= y /\ x < max
    BY Zenon DEF Spans
<1>2. c \in Reach /\ u >= -1
    BY Zenon DEF Swept
<1>3. u \in Int /\ c.gap \in BOOLEAN
    BY <1>2 DEF Reach
<1>4. d \in Reach
    BY Zenon, <1>1, <1>2, ExtendType
<1>m. /\ m \in Nat /\ m \in 1 .. m
      /\ \A j \in 1 .. m : j = m \/ j \in 1 .. m - 1
      /\ \A j \in 1 .. m - 1 : j \in 1 .. m
      /\ \A j \in 1 .. n : j \in 1 .. m - 1 \/ j = m \/ m < j
    BY <1>0
<1>5. CASE c.gap \/ x > u + 1
    <2>1. d = [c EXCEPT !.gap = TRUE]
        BY Zenon, <1>5 DEF extend
    <2>2. d.gap = TRUE /\ d.upto = u
        BY <1>2, <2>1 DEF Reach
    <2>3. \E v \in Nat : v < max /\ \A j \in 1 .. n : ~Within(v, s[j])
        <3>1. CASE c.gap
            BY Zenon, <3>1 DEF Swept
        <3>2. CASE ~c.gap
            <4> DEFINE v == u + 1
            <4>1. x > u + 1
                BY Zenon, <1>5, <3>2
            <4>2. v \in Nat /\ v < max /\ ~(x <= v)
                <5> HIDE DEF u, x
                <5> QED BY <1>0, <1>1, <1>2, <1>3, <4>1
            <4>3. ASSUME NEW j \in 1 .. n PROVE ~Within(v, s[j])
                <5>0. s[j].start \in Nat /\ s[j].end \in Nat
                    BY Zenon DEF Spans
                <5>1. CASE j \in 1 .. m - 1
                    <6>1. s[j].end <= u
                        BY Zenon, <3>2, <5>1 DEF Swept
                    <6>2. ~(v <= s[j].end)
                        <7> HIDE DEF u
                        <7> QED BY <1>3, <5>0, <6>1
                    <6> QED BY Zenon, <6>2 DEF Within
                <5>2. CASE j = m
                    BY Zenon, <4>2, <5>2 DEF Within
                <5>3. CASE m < j
                    <6>1. x <= s[j].start
                        BY Zenon, <5>3 DEF Spans, ByStart
                    <6>2. ~(s[j].start <= v)
                        <7> HIDE DEF v, x
                        <7> QED BY <1>1, <4>2, <5>0, <6>1
                    <6> QED BY Zenon, <6>2 DEF Within
                <5> QED BY Zenon, <1>m, <5>1, <5>2, <5>3
            <4> QED BY Zenon, <4>2, <4>3
        <3> QED BY Zenon, <3>1, <3>2
    <2> HIDE DEF d
    <2> QED BY Zenon, <1>2, <1>4, <2>2, <2>3 DEF Swept, d
<1>6. CASE ~(c.gap \/ x > u + 1)
    <2> DEFINE z == IF y > u THEN y ELSE u
    <2>1. d = [c EXCEPT !.upto = z]
        BY Zenon, <1>6 DEF extend
    <2>2. d.gap = FALSE /\ d.upto = z
        <3>1. c.gap = FALSE
            BY Zenon, <1>3, <1>6
        <3> HIDE DEF z
        <3> QED BY <1>2, <2>1, <3>1 DEF Reach
    <2>3. z \in Int /\ z >= -1 /\ y <= z /\ u <= z /\ x <= u + 1 /\ (z = y \/ z = u)
        <3>1. ~(x > u + 1)
            BY Zenon, <1>6
        <3> HIDE DEF x, y, u
        <3> QED BY <1>1, <1>2, <1>3, <3>1
    <2> HIDE DEF z
    <2>4. ASSUME NEW j \in 1 .. m PROVE s[j].end <= z
        <3>1. CASE j = m
            BY Zenon, <2>3, <3>1
        <3>2. CASE j \in 1 .. m - 1
            <4>1. s[j].end <= u
                BY Zenon, <1>6, <3>2 DEF Swept
            <4>2. s[j].end \in Nat
                <5>1. j \in 1 .. n
                    BY <1>0, <1>m
                <5> QED BY Zenon, <5>1 DEF Spans
            <4> HIDE DEF u
            <4> QED BY <1>3, <2>3, <4>1, <4>2
        <3> QED BY Zenon, <1>m, <3>1, <3>2
    <2>5. ASSUME NEW v \in Nat, v <= z PROVE \E j \in 1 .. m : Within(v, s[j])
        <3>1. CASE v <= u
            BY Zenon, <1>6, <1>m, <3>1 DEF Swept
        <3>2. CASE ~(v <= u)
            <4>1. x <= v /\ v <= y
                <5> HIDE DEF x, y, u
                <5> QED BY <1>1, <1>3, <2>3, <2>5, <3>2
            <4>2. Within(v, s[m])
                BY Zenon, <4>1 DEF Within
            <4> QED BY Zenon, <1>m, <4>2
        <3> QED BY Zenon, <3>1, <3>2
    <2> HIDE DEF d
    <2> QED BY Zenon, <1>4, <2>2, <2>3, <2>4, <2>5 DEF Swept, d
<1> QED BY Zenon, <1>5, <1>6

\* The ranges of some prefixes.
Ranges(keys) == {prefixRange(k) : k \in keys}

\* Every number of the family is in one of them.
Covered(fam, keys) ==
    \A v \in Nat : v < Weight[Width[fam]] => \E k \in keys : Within(v, prefixRange(k))

\* The sweep finds a gap if and only if there is one.
LEMMA CoverIs ==
    ASSUME NEW fam \in Family, NEW keys, IsFiniteSet(Ranges(keys)),
           \A k \in keys : Span(fam, prefixRange(k))
    PROVE  checkCoverage(fam, keys) <=> Covered(fam, keys)
<1> DEFINE S == {prefixRange(k) : k \in keys}
           s == sortByStart(S)
           N == Len(s)
           max == Weight[Width[fam]]
           c0 == [upto |-> -1, gap |-> keys = {}]
           R(w) == [n \in 0 .. N |-> IF n = 0 THEN c0 ELSE extend(w[n - 1], s[n])]
           f == [p \in (1 .. N) \X Reach |-> extend(p[2], s[p[1]])]
<1>1. IsFiniteSet(S) /\ \A t \in S : Span(fam, t)
    BY Zenon DEF Ranges
<1>2. \A t \in S : t.start \in Nat
    BY Zenon, <1>1 DEF Span
<1>m. max \in Nat /\ max >= 1
    BY Zenon, Values
<1>k. keys = {} <=> S = {}
    BY Zenon
<1>r. \A v : (\E k \in keys : Within(v, prefixRange(k))) <=> \E t \in S : Within(v, t)
    BY Zenon
<1> HIDE DEF S
<1>3. s \in Orders(S) /\ ByStart(s, Cardinality(S))
    BY Zenon, <1>1, <1>2, SortIs
<1>4. /\ Listing(s, N, S) /\ \A t \in S : \E i \in 1 .. N : s[i] = t
      /\ N = Cardinality(S)
    <2>1. /\ Listing(s, Cardinality(S), S) /\ \A t \in S : \E i \in 1 .. Cardinality(S) : s[i] = t
          /\ N = Cardinality(S)
        BY Zenon, <1>1, <1>3, ListsAll
    <2> HIDE DEF N
    <2> QED BY Zenon, <2>1
<1>5. N \in Nat /\ \A i \in 1 .. N : s[i] \in S
    BY Zenon, <1>4 DEF Listing
<1>b. ByStart(s, N)
    BY Zenon, <1>3, <1>4
<1> HIDE DEF s, N
<1>6. Spans(s, N, max)
    BY Zenon, <1>1, <1>5, <1>b, <1>m DEF Spans, Span
<1>7. c0 \in Reach /\ c0.upto = -1 /\ c0.gap = (keys = {})
    BY DEF Reach
<1> HIDE DEF c0
<1>8. f \in [(1 .. N) \X Reach -> Reach]
    <2>1. \A p \in (1 .. N) \X Reach : p[1] \in 1 .. N /\ p[2] \in Reach
        OBVIOUS
    <2>2. \A i \in 1 .. N : s[i].end \in Nat
        BY Zenon, <1>6 DEF Spans
    <2> QED BY Zenon, <2>1, <2>2, ExtendType
<1>9. \A i \in 1 .. N, c \in Reach : f[<<i, c>>] = extend(c, s[i])
    <2> TAKE i \in 1 .. N, c \in Reach
    <2>1. <<i, c>> \in (1 .. N) \X Reach /\ <<i, c>>[2] = c /\ <<i, c>>[1] = i
        OBVIOUS
    <2> QED BY Zenon, <2>1
<1> HIDE DEF f
<1>10. PICK g : Built(Reach, c0, N, f, g)
    BY Zenon, <1>5, <1>7, <1>8, Builds
<1>11. g = R(g)
    <2>1. g \in [0 .. N -> Reach]
        BY Zenon, <1>10 DEF Built
    <2>2. ASSUME NEW n \in 0 .. N PROVE g[n] = IF n = 0 THEN c0 ELSE extend(g[n - 1], s[n])
        <3>1. CASE n = 0
            BY Zenon, <1>10, <3>1 DEF Built
        <3>2. CASE n # 0
            <4>1. n \in 1 .. N /\ n - 1 \in 0 .. N
                BY <1>5, <3>2
            <4>2. g[n - 1] \in Reach
                BY Zenon, <2>1, <4>1
            <4> QED BY Zenon, <1>9, <1>10, <3>2, <4>1, <4>2 DEF Built
        <3> QED BY Zenon, <3>1, <3>2
    <2> QED BY Zenon, <2>1, <2>2
<1>12. PICK w : w = R(w) /\ checkCoverage(fam, keys) = (~w[N].gap /\ w[N].upto >= max - 1)
    BY Zenon, <1>11 DEF checkCoverage, N, s, S, c0
<1>13. w[0] = c0 /\ \A n \in 1 .. N : w[n] = extend(w[n - 1], s[n])
    <2>1. 0 \in 0 .. N /\ \A n \in 1 .. N : n \in 0 .. N /\ n # 0
        BY <1>5
    <2> QED BY Zenon, <1>12, <2>1
<1> DEFINE G == {n \in 0 .. N : Swept(s, N, max, n, w[n])}
<1>14. 0 \in G
    <2>1. 0 \in 0 .. N /\ 1 .. 0 = {} /\ -1 >= -1 /\ \A v \in Nat : ~(v <= -1)
        BY <1>5
    <2>2. c0.gap => \E v \in Nat : v < max /\ \A j \in 1 .. N : ~Within(v, s[j])
        <3>1. ASSUME keys = {} PROVE \A j \in 1 .. N : FALSE
            BY Zenon, <1>5, <1>k, <3>1
        <3>2. 0 \in Nat /\ 0 < max
            <4> HIDE DEF max
            <4> QED BY <1>m
        <3> HIDE DEF max
        <3> QED BY Zenon, <1>7, <3>1, <3>2
    <2>3. Swept(s, N, max, 0, c0)
        BY Zenon, <1>7, <2>1, <2>2 DEF Swept
    <2> QED BY Zenon, <1>13, <2>1, <2>3
<1> HIDE DEF max
<1>15. ASSUME NEW n \in 1 .. N, n - 1 \in G PROVE n \in G
    <2>1. n \in 0 .. N
        BY <1>5
    <2>2. Swept(s, N, max, n, extend(w[n - 1], s[n]))
        BY Zenon, <1>6, <1>15, ExtendIs
    <2> QED BY Zenon, <1>13, <2>1, <2>2
<1>16. Swept(s, N, max, N, w[N])
    <2>1. N \in 0 .. N
        BY <1>5
    <2>2. N \in G
        <3> HIDE DEF G
        <3> QED BY Zenon, <1>5, <1>14, <1>15, <2>1, Counting
    <2> QED BY Zenon, <2>2
<1> DEFINE c == w[N]
           All == \A v \in Nat : v < max => \E j \in 1 .. N : Within(v, s[j])
<1>17. c.upto \in Int /\ c.upto >= -1
    <2>1. c \in Reach /\ c.upto >= -1
        BY Zenon, <1>16 DEF Swept
    <2> HIDE DEF c
    <2> QED BY <2>1 DEF Reach
<1>18. ASSUME ~c.gap, c.upto >= max - 1 PROVE All
    <2> TAKE v \in Nat
    <2> HAVE v < max
    <2>1. v <= c.upto
        <3> HIDE DEF c
        <3> QED BY <1>17, <1>18, <1>m
    <2> QED BY Zenon, <1>16, <1>18, <2>1 DEF Swept
<1>19. ASSUME All PROVE ~c.gap /\ c.upto >= max - 1
    <2>1. ~c.gap
        BY Zenon, <1>16, <1>19 DEF Swept
    <2>2. ASSUME ~(c.upto >= max - 1) PROVE FALSE
        <3> DEFINE v == c.upto + 1
        <3>1. v \in Nat /\ v < max
            <4> HIDE DEF c
            <4> QED BY <1>17, <1>m, <2>2
        <3>2. PICK j \in 1 .. N : Within(v, s[j])
            <4> HIDE DEF v
            <4> QED BY Zenon, <1>19, <3>1
        <3>3. s[j].end <= c.upto /\ s[j].end \in Nat /\ v <= s[j].end
            BY Zenon, <1>6, <1>16, <2>1, <3>2 DEF Swept, Spans, Within
        <3> HIDE DEF c
        <3> QED BY <1>17, <3>3
    <2> QED BY Zenon, <2>1, <2>2
<1>20. All <=> Covered(fam, keys)
    <2>1. \A v : (\E j \in 1 .. N : Within(v, s[j])) <=> \E t \in S : Within(v, t)
        BY Zenon, <1>4, <1>5
    <2> QED BY Zenon, <1>r, <2>1 DEF Covered, max
<1> QED BY Zenon, <1>12, <1>18, <1>19, <1>20

-----------------------------------------------------------------------------
(* The default table: buckets *)

\* The entries of an accepted document.
Entries(doc, es, n) ==
    /\ es = parseDefaultRuleset(doc) /\ n \in Nat /\ n = Len(es) /\ DOMAIN es = 1 .. n
    /\ \A i, j \in 1 .. n : es[i].key = es[j].key => i = j
    /\ \A i \in 1 .. n : IsKey(es[i].key)

\* parseDefaultRuleset returns distinct normalised keys.
LEMMA EntriesAre ==
    ASSUME NEW doc \in Seq(RawKey)
    PROVE  Entries(doc, parseDefaultRuleset(doc), Len(parseDefaultRuleset(doc)))
<1> DEFINE es == parseDefaultRuleset(doc)
           m == Len(doc)
<1>1. doc \in Seq(RawKey)
    BY Zenon, WidthAssumption
<1>2. m \in Nat /\ \A i \in 1 .. m : doc[i] \in RawKey
    BY <1>1
<1>3. Parsed(doc, m, es)
    BY Zenon, <1>1, ParseIs
<1> HIDE DEF es
<1>4. es \in Seq(EntrySet(doc))
    BY Zenon, <1>3 DEF Parsed
<1>5. Len(es) \in Nat /\ DOMAIN es = 1 .. Len(es)
    BY Zenon, <1>4, SeqIs
<1>6. \A i \in 1 .. Len(es) : IsKey(es[i].key)
    <2> TAKE i \in 1 .. Len(es)
    <2>1. es[i].rule \in 1 .. m /\ es[i].key = parseMaskedKey(doc[es[i].rule])
        BY Zenon, <1>3 DEF Parsed
    <2>2. Normal(doc[es[i].rule], parseMaskedKey(doc[es[i].rule]))
        BY Zenon, <1>2, <2>1, NormalIs
    <2> QED BY Zenon, <2>1, <2>2 DEF Normal
<1>7. \A i, j \in 1 .. Len(es) : es[i].key = es[j].key => i = j
    BY Zenon, <1>3 DEF Parsed
<1> QED BY Zenon, <1>5, <1>6, <1>7 DEF Entries, es

\* The plain prefixes of a family.
PlainPrefixes(es, fam) == {e.key : e \in {e \in OfFamily(es, fam) : IsPrefixKey(e.key)}}

\* They are finitely many keys of this family.
LEMMA PlainPrefixesAre ==
    ASSUME NEW doc, NEW es, NEW n, Entries(doc, es, n), NEW fam \in Family
    PROVE  /\ IsFiniteSet(OfFamily(es, fam)) /\ IsFiniteSet(Ranges(PlainPrefixes(es, fam)))
           /\ \A k \in PlainPrefixes(es, fam) : IsKey(k) /\ k.fam = fam /\ IsPrefixKey(k)
<1>1. n \in Nat /\ DOMAIN es = 1 .. n /\ \A i \in 1 .. n : IsKey(es[i].key)
    BY Zenon DEF Entries
<1> DEFINE I == {i \in 1 .. n : es[i].key.fam = fam}
           J == {i \in I : IsPrefixKey(es[i].key)}
           f == [i \in I |-> es[i]]
           g == [i \in J |-> prefixRange(es[i].key)]
<1>2. IsFiniteSet(1 .. n) /\ I \in SUBSET (1 .. n) /\ J \in SUBSET (1 .. n)
    BY Zenon, <1>1, Upto
<1>3. IsFiniteSet(I) /\ IsFiniteSet(J)
    <2> HIDE DEF I, J
    <2> QED BY Zenon, <1>2, FS_Subset
<1>4. \A e : e \in OfFamily(es, fam) <=> \E i \in I : e = es[i]
    BY Zenon, <1>1 DEF OfFamily, Range
<1>5. f \in Surjection(I, OfFamily(es, fam))
    <2> HIDE DEF I
    <2> QED BY Zenon, <1>4 DEF Surjection
<1>6. \A k : k \in PlainPrefixes(es, fam) <=> \E i \in J : k = es[i].key
    <2> HIDE DEF I
    <2>1. ASSUME NEW k \in PlainPrefixes(es, fam) PROVE \E i \in J : k = es[i].key
        <3>1. PICK e \in OfFamily(es, fam) : IsPrefixKey(e.key) /\ k = e.key
            BY Zenon DEF PlainPrefixes
        <3>2. PICK i \in I : e = es[i]
            BY Zenon, <1>4
        <3> QED BY Zenon, <3>1, <3>2
    <2>2. ASSUME NEW i \in J PROVE es[i].key \in PlainPrefixes(es, fam)
        <3>1. es[i] \in OfFamily(es, fam) /\ IsPrefixKey(es[i].key)
            BY Zenon, <1>4
        <3> QED BY Zenon, <3>1 DEF PlainPrefixes
    <2> HIDE DEF J
    <2> QED BY Zenon, <2>1, <2>2
<1>7. \A t : t \in Ranges(PlainPrefixes(es, fam)) <=> \E i \in J : t = prefixRange(es[i].key)
    <2> HIDE DEF J
    <2> QED BY Zenon, <1>6 DEF Ranges
<1>8. g \in Surjection(J, Ranges(PlainPrefixes(es, fam)))
    <2> HIDE DEF J
    <2> QED BY Zenon, <1>7 DEF Surjection
<1>9. \A k \in PlainPrefixes(es, fam) : IsKey(k) /\ k.fam = fam /\ IsPrefixKey(k)
    BY Zenon, <1>1, <1>6
<1> HIDE DEF I, J, f, g
<1>10. IsFiniteSet(OfFamily(es, fam))
    BY Zenon, <1>3, <1>5, FS_Surjection
<1>11. IsFiniteSet(Ranges(PlainPrefixes(es, fam)))
    BY Zenon, <1>3, <1>8, FS_Surjection
<1> QED BY Zenon, <1>9, <1>10, <1>11

\* checkCoverage accepts a family exactly when every address has a plain prefix.
LEMMA Accepts ==
    ASSUME NEW doc, NEW es, NEW n, Entries(doc, es, n), NEW fam \in Family
    PROVE  checkCoverage(fam, PlainPrefixes(es, fam))
              <=> \A a \in Bits(fam) : \E e \in Matching(es, fam, a) : IsPrefixKey(e.key)
<1> DEFINE P == PlainPrefixes(es, fam)
<1>1. IsFiniteSet(Ranges(P)) /\ \A k \in P : IsKey(k) /\ k.fam = fam /\ IsPrefixKey(k)
    BY Zenon, PlainPrefixesAre
<1>p. \A a : (\E k \in P : contains(k, a)) <=> \E e \in Matching(es, fam, a) : IsPrefixKey(e.key)
    BY Zenon DEF PlainPrefixes, Matching
<1> HIDE DEF P
<1>2. \A k \in P : /\ Span(fam, prefixRange(k))
                   /\ \A a \in Bits(fam) :
                        contains(k, a) <=> Within(Value(fam, a), prefixRange(k))
    BY Zenon, <1>1, RangeIs
<1>3. checkCoverage(fam, P) <=> Covered(fam, P)
    BY Zenon, <1>1, <1>2, CoverIs
<1>4. Covered(fam, P) <=> \A a \in Bits(fam) : \E k \in P : contains(k, a)
    <2>1. ASSUME Covered(fam, P), NEW a \in Bits(fam) PROVE \E k \in P : contains(k, a)
        <3>1. Value(fam, a) \in Nat /\ Value(fam, a) < Weight[Width[fam]]
            BY Zenon, Values
        <3>2. PICK k \in P : Within(Value(fam, a), prefixRange(k))
            BY Zenon, <2>1, <3>1 DEF Covered
        <3> QED BY Zenon, <1>2, <3>2
    <2>2. ASSUME \A a \in Bits(fam) : \E k \in P : contains(k, a) PROVE Covered(fam, P)
        <3>1. ASSUME NEW v \in Nat, v < Weight[Width[fam]]
              PROVE  \E k \in P : Within(v, prefixRange(k))
            <4>1. PICK a \in Bits(fam) : Value(fam, a) = v
                BY Zenon, <3>1, Values
            <4>2. PICK k \in P : contains(k, a)
                BY Zenon, <2>2
            <4>3. Within(Value(fam, a), prefixRange(k))
                BY Zenon, <1>2, <4>2
            <4> QED BY Zenon, <4>1, <4>3
        <3> QED BY Zenon, <3>1 DEF Covered
    <2> QED BY Zenon, <2>1, <2>2
<1> QED BY Zenon, <1>3, <1>4, <1>p DEF P

\* A document is accepted exactly when every address of every family lies in one of
\* its plain prefixes (CoverageIsExact), for every document and every width.
LEMMA CoversExactly == ASSUME NEW doc \in Seq(RawKey) PROVE CoverageIsExact(doc)
<1> DEFINE es == parseDefaultRuleset(doc)
<1>1. Entries(doc, es, Len(es))
    BY Zenon, EntriesAre
<1>2. \A fam \in Family : checkCoverage(fam, PlainPrefixes(es, fam))
           <=> \A a \in Bits(fam) : \E e \in Matching(es, fam, a) : IsPrefixKey(e.key)
    <2> HIDE DEF es
    <2> QED BY Zenon, <1>1, Accepts
<1> HIDE DEF es
<1>3. compileParsedEntries(es) <=> \A fam \in Family : checkCoverage(fam, PlainPrefixes(es, fam))
    BY Zenon DEF compileParsedEntries, PlainPrefixes
<1> QED BY Zenon, <1>2, <1>3 DEF CoverageIsExact, es

\* Every client of an accepted table has one bucket, that of its greatest mask, in
\* whatever order the sort leaves equal masks (OneBucketPerClient).
LEMMA OneBucket == ASSUME NEW doc \in Seq(RawKey) PROVE OneBucketPerClient(doc)
<1> DEFINE es == parseDefaultRuleset(doc)
           n == Len(es)
<1>1. Entries(doc, es, n)
    BY Zenon, EntriesAre
<1> HIDE DEF es
<1> SUFFICES ASSUME compileParsedEntries(es), NEW fam \in Family,
                    NEW s \in sortByMaskDescending(OfFamily(es, fam)), NEW a \in Bits(fam)
             PROVE  /\ Lookup(s, a) # 0
                    /\ \A e \in Matching(es, fam, a) :
                          \/ e = s[Lookup(s, a)]
                          \/ Value(fam, e.key.mask) < Value(fam, s[Lookup(s, a)].key.mask)
    BY Zenon DEF OneBucketPerClient, es
<1> DEFINE S == OfFamily(es, fam)
           m == Len(s)
           I == {i \in 1 .. m : contains(s[i].key, a)}
           L == First(I)
<1>2. s \in Orders(S)
    BY Zenon DEF sortByMaskDescending
<1>3. IsFiniteSet(S)
    BY Zenon, <1>1, PlainPrefixesAre
<1>4. /\ DOMAIN s = 1 .. m /\ m \in Nat /\ \A i \in 1 .. m : s[i] \in S
      /\ \A e \in S : \E i \in 1 .. m : s[i] = e
    <2> HIDE DEF S
    <2>1. /\ Listing(s, Cardinality(S), S) /\ Len(s) = Cardinality(S) /\ DOMAIN s = 1 .. Cardinality(S)
          /\ \A e \in S : \E i \in 1 .. Cardinality(S) : s[i] = e
        BY Zenon, <1>2, <1>3, ListsAll
    <2>2. DOMAIN s = 1 .. m /\ Listing(s, m, S)
        BY Zenon, <2>1
    <2>3. \A e \in S : \E i \in 1 .. m : s[i] = e
        BY Zenon, <2>1
    <2> QED BY Zenon, <2>2, <2>3 DEF Listing
<1>5. \A i, j \in 1 .. m : i < j =>
          Value(s[i].key.fam, s[i].key.mask) >= Value(s[j].key.fam, s[j].key.mask)
    BY Zenon, <1>4 DEF sortByMaskDescending
<1>6. Lookup(s, a) = L
    BY Zenon, <1>4 DEF Lookup, FirstIn, First
<1>7. \A e \in S : \E i \in 1 .. n : e = es[i] /\ IsKey(e.key) /\ e.key.fam = fam
    BY Zenon, <1>1 DEF OfFamily, Range, Entries
<1>8. \A e : e \in Matching(es, fam, a) <=> e \in S /\ contains(e.key, a)
    BY Zenon DEF Matching
<1>9. \E e \in Matching(es, fam, a) : IsPrefixKey(e.key)
    <2>1. checkCoverage(fam, PlainPrefixes(es, fam))
        BY Zenon DEF compileParsedEntries, PlainPrefixes
    <2>2. checkCoverage(fam, PlainPrefixes(es, fam))
              <=> \A b \in Bits(fam) : \E e \in Matching(es, fam, b) : IsPrefixKey(e.key)
        BY Zenon, <1>1, Accepts
    <2> QED BY Zenon, <2>1, <2>2
<1> HIDE DEF S
<1>10. I # {} /\ I \in SUBSET (1 .. m)
    BY Zenon, <1>4, <1>8, <1>9
<1>11. L # 0 /\ L \in I /\ \A i \in I : L <= i
    <2> HIDE DEF I
    <2> QED BY Zenon, <1>4, <1>10, FirstIs
<1>12. L \in 1 .. m /\ contains(s[L].key, a) /\ s[L] \in S
    <2> HIDE DEF L
    <2> QED BY Zenon, <1>4, <1>11
<1>13. ASSUME NEW e \in Matching(es, fam, a)
       PROVE  e = s[L] \/ Value(fam, e.key.mask) < Value(fam, s[L].key.mask)
    <2>1. e \in S /\ contains(e.key, a)
        BY Zenon, <1>8
    <2>2. PICK j \in 1 .. m : s[j] = e
        BY Zenon, <1>4, <2>1
    <2>3. L <= j
        <3>1. j \in I
            BY Zenon, <2>1, <2>2
        <3> QED BY Zenon, <1>11, <3>1
    <2>4. L = j \/ L < j
        <3> HIDE DEF L
        <3> QED BY <1>4, <1>12, <2>3
    <2> HIDE DEF L, I
    <2>5. PICK x \in 1 .. n : e = es[x] /\ IsKey(e.key) /\ e.key.fam = fam
        BY Zenon, <1>7, <2>1
    <2>6. PICK y \in 1 .. n : s[L] = es[y] /\ IsKey(s[L].key) /\ s[L].key.fam = fam
        BY Zenon, <1>7, <1>12
    <2>7. e.key.mask \in Bits(fam) /\ s[L].key.mask \in Bits(fam)
        BY Zenon, <2>5, <2>6 DEF IsKey
    <2>8. Value(fam, e.key.mask) \in Nat /\ Value(fam, s[L].key.mask) \in Nat
        BY Zenon, <2>7, Values
    <2>9. CASE L < j
        <3>1. Value(fam, s[L].key.mask) >= Value(fam, e.key.mask)
            BY Zenon, <1>5, <1>12, <2>2, <2>5, <2>6, <2>9
        <3>2. CASE Value(fam, e.key.mask) = Value(fam, s[L].key.mask)
            <4>1. e.key.mask = s[L].key.mask
                BY Zenon, <2>7, <3>2, ValueInjective DEF Equal
            <4>2. e.key = s[L].key
                BY Zenon, <1>12, <2>1, <2>5, <2>6, <4>1, SameKey
            <4>3. x = y
                BY Zenon, <1>1, <2>5, <2>6, <4>2 DEF Entries
            <4> QED BY Zenon, <2>5, <2>6, <4>3
        <3>3. CASE Value(fam, e.key.mask) # Value(fam, s[L].key.mask)
            <4> DEFINE p == Value(fam, e.key.mask)
                       q == Value(fam, s[L].key.mask)
            <4>1. p \in Nat /\ q \in Nat /\ p # q /\ q >= p
                BY Zenon, <2>8, <3>1, <3>3
            <4> HIDE DEF p, q
            <4>2. p < q
                BY <4>1
            <4> QED BY Zenon, <4>2 DEF p, q
        <3> QED BY Zenon, <3>2, <3>3
    <2> QED BY Zenon, <2>2, <2>4, <2>9
<1> QED BY Zenon, <1>6, <1>11, <1>13

-----------------------------------------------------------------------------
(* The host index *)

\* Where the label that starts at b ends.
EndOf(s, b) == Min({i \in b .. Len(s) : s[i] = Dot} \cup {Len(s) + 1})

\* A label ends before the next dot.
LEMMA EndIs ==
    ASSUME NEW X, NEW s \in Seq(X), NEW b \in 1 .. Len(s) + 1
    PROVE  /\ EndOf(s, b) \in b .. Len(s) + 1 /\ Label(s, b) = SubSeq(s, b, EndOf(s, b) - 1)
           /\ EndOf(s, b) # Len(s) + 1 => s[EndOf(s, b)] = Dot
           /\ \A i \in b .. EndOf(s, b) - 1 : s[i] # Dot
<1> DEFINE D == {i \in b .. Len(s) : s[i] = Dot}
           M == D \cup {Len(s) + 1}
           e == EndOf(s, b)
<1>1. Len(s) \in Nat
    OBVIOUS
<1>2. M \in SUBSET Nat /\ M # {}
    BY <1>1
<1>3. e \in M /\ \A y \in M : e <= y
    <2>1. e = Min(M)
        BY Zenon DEF EndOf
    <2> HIDE DEF M, e
    <2> QED BY Zenon, <1>2, <2>1, MinIs
<1>4. Label(s, b) = SubSeq(s, b, e - 1)
    BY Zenon DEF Label, EndOf
<1> HIDE DEF e
<1>5. e \in b .. Len(s) + 1
    BY <1>1, <1>3
<1>6. e # Len(s) + 1 => s[e] = Dot
    BY Zenon, <1>3
<1>7. ASSUME NEW i \in b .. e - 1 PROVE s[i] # Dot
    <2>1. i \in b .. Len(s) /\ ~(e <= i)
        BY <1>1, <1>5
    <2> QED BY Zenon, <1>3, <2>1
<1> QED BY Zenon, <1>4, <1>5, <1>6, <1>7 DEF e

\* The characters of a label.
LEMMA LabelIs ==
    ASSUME NEW X, NEW s \in Seq(X), NEW b \in 1 .. Len(s) + 1
    PROVE  /\ Label(s, b) \in Seq(X) /\ Len(Label(s, b)) = EndOf(s, b) - b
           /\ DOMAIN Label(s, b) = 1 .. EndOf(s, b) - b
           /\ \A i \in b .. EndOf(s, b) - 1 : Label(s, b)[i - b + 1] = s[i]
<1> DEFINE e == EndOf(s, b)
           l == Label(s, b)
<1>1. e \in b .. Len(s) + 1 /\ l = SubSeq(s, b, e - 1)
    BY Zenon, EndIs
<1>2. Len(s) \in Nat
    OBVIOUS
<1> HIDE DEF e, l
<1>3. l \in Seq(X) /\ Len(l) = e - b
    BY <1>1, <1>2
<1>4. DOMAIN l = 1 .. e - b
    <2>1. DOMAIN l = 1 .. Len(l)
        BY Zenon, <1>3, SeqIs
    <2> QED BY Zenon, <1>3, <2>1
<1>5. \A i \in b .. e - 1 : l[i - b + 1] = s[i]
    BY <1>1, <1>2
<1> QED BY Zenon, <1>3, <1>4, <1>5 DEF e, l

\* Starts are places of the text, or the place after it.
LEMMA StartsType ==
    ASSUME NEW X, NEW s \in Seq(X), NEW c \in Starts(s)
    PROVE  c \in 1 .. Len(s) + 1 /\ c \in Nat
<1>1. Len(s) \in Nat
    OBVIOUS
<1>2. 1 \in Nat /\ 1 \in 1 .. Len(s) + 1
      /\ \A i \in 1 .. Len(s) : i + 1 \in 1 .. Len(s) + 1 /\ i + 1 \in Nat
    BY <1>1
<1>3. c = 1 \/ \E i \in 1 .. Len(s) : c = i + 1
    BY Zenon DEF Starts
<1> QED BY Zenon, <1>2, <1>3

\* c is the last start up to i.
LabelOf(s, i, c) ==
    /\ c \in Starts(s) /\ c <= i /\ \A d \in Starts(s) : d <= i => c >= d
    /\ \A j \in c .. i : j # i => s[j] # Dot

\* Every place is in a label.
LEMMA LabelAt ==
    ASSUME NEW X, NEW s \in Seq(X), NEW i \in 1 .. Len(s)
    PROVE  \E c : LabelOf(s, i, c)
<1> DEFINE n == Len(s)
           C == {c \in Starts(s) : c <= i}
<1>1. n \in Nat /\ i \in Nat /\ i <= n /\ 1 <= i
    OBVIOUS
<1>2. C \in SUBSET (0 .. n) /\ 1 \in C
    <2>1. \A c \in Nat : c <= i => c \in 0 .. n
        BY <1>1
    <2>2. 1 \in Starts(s)
        BY Zenon DEF Starts
    <2> QED BY Zenon, <1>1, <2>1, <2>2, StartsType
<1>3. PICK c \in C : \A d \in C : c >= d
    <2> HIDE DEF C
    <2>1. Max(C) \in C /\ \A d \in C : Max(C) >= d
        BY Zenon, <1>1, <1>2, MaxIs
    <2> QED BY Zenon, <2>1
<1>4. c \in 1 .. n + 1
    BY Zenon, <1>3, StartsType
<1>5. ASSUME NEW j \in c .. i, j # i PROVE s[j] # Dot
    <2>1. j \in 1 .. n /\ j + 1 <= i /\ ~(c >= j + 1)
        BY <1>1, <1>4, <1>5
    <2>2. s[j] = Dot => j + 1 \in Starts(s)
        BY Zenon, <2>1 DEF Starts
    <2> QED BY Zenon, <1>3, <2>1, <2>2
<1>6. LabelOf(s, i, c)
    BY Zenon, <1>3, <1>5 DEF LabelOf
<1> QED BY Zenon, <1>6

\* The labels of s from b on are literal.
LiteralFrom(s, b) == \A c \in Starts(s) : b <= c => isLiteralDNSLabel(Label(s, c))

\* Plain characters, of which the last one is no dot.
Plain(x) ==
    /\ Len(x) \in Nat /\ Len(x) # 0 /\ x[Len(x)] # Dot
    /\ \A i \in 1 .. Len(x) : x[i] \in Lower \cup {Dash, Dot}

\* Literal labels hold letters, digits, dashes and dots, and no dot at the end.
LEMMA LiteralIs ==
    ASSUME NEW X, NEW s \in Seq(X), NEW b \in Starts(s), LiteralFrom(s, b)
    PROVE  /\ b \in 1 .. Len(s) /\ s[Len(s)] # Dot
           /\ \A i \in b .. Len(s) : s[i] \in Lower \cup {Dash, Dot}
<1> DEFINE n == Len(s)
<1>1. n \in Nat
    OBVIOUS
<1> HIDE DEF n
<1>2. \A c \in Starts(s) : c \in 1 .. n + 1 /\ c \in Nat
    BY Zenon, StartsType DEF n
<1>3. ASSUME NEW c \in Starts(s), b <= c PROVE c # n + 1
    <2>1. isLiteralDNSLabel(Label(s, c))
        BY Zenon, <1>3 DEF LiteralFrom
    <2>2. Label(s, c) # <<>>
        BY Zenon, <2>1 DEF isLiteralDNSLabel
    <2>3. Label(s, c) \in Seq(X) /\ Len(Label(s, c)) = EndOf(s, c) - c /\ EndOf(s, c) \in c .. n + 1
        BY Zenon, <1>2, LabelIs, EndIs DEF n
    <2> QED BY <1>1, <2>2, <2>3
<1>4. b \in 1 .. n
    <2>1. b \in 1 .. n + 1 /\ b <= b
        BY <1>1, <1>2
    <2>2. b # n + 1
        BY Zenon, <1>3, <2>1
    <2> QED BY <1>1, <2>1, <2>2
<1>5. s[n] # Dot
    <2>1. n \in 1 .. n /\ b <= n + 1
        BY <1>1, <1>4
    <2>2. s[n] = Dot => n + 1 \in Starts(s)
        BY Zenon, <2>1 DEF Starts, n
    <2> QED BY Zenon, <1>3, <2>1, <2>2
<1>6. ASSUME NEW i \in b .. n PROVE s[i] \in Lower \cup {Dash, Dot}
    <2> SUFFICES ASSUME s[i] # Dot PROVE s[i] \in Lower \cup {Dash, Dot}
        BY Zenon
    <2>1. i \in Nat /\ i <= n /\ b <= i /\ i \in 1 .. n
        BY <1>1, <1>4
    <2>2. PICK c : LabelOf(s, i, c)
        BY Zenon, <2>1, LabelAt DEF n
    <2>3. c \in Starts(s) /\ c <= i /\ c \in 1 .. n + 1 /\ c >= b
        BY Zenon, <1>2, <2>1, <2>2 DEF LabelOf
    <2>4. \A j \in c .. i : s[j] # Dot
        BY Zenon, <2>2 DEF LabelOf
    <2> DEFINE e == EndOf(s, c)
    <2>5. /\ e \in c .. n + 1 /\ (e # n + 1 => s[e] = Dot) /\ DOMAIN Label(s, c) = 1 .. e - c
          /\ \A k \in c .. e - 1 : Label(s, c)[k - c + 1] = s[k]
        BY ZenonT(60), <2>3, EndIs, LabelIs DEF n
    <2> HIDE DEF e
    <2>6. i \in c .. e - 1 /\ i - c + 1 \in 1 .. e - c
        <3>1. e > i
            <4>1. e <= i => e \in c .. i /\ e # n + 1
                BY <1>1, <2>1, <2>3, <2>5
            <4>2. ~(e <= i)
                BY Zenon, <2>4, <2>5, <4>1
            <4> QED BY <1>1, <2>1, <2>3, <2>5, <4>2
        <3> QED BY <1>1, <2>1, <2>3, <2>5, <3>1
    <2>7. isLiteralDNSLabel(Label(s, c))
        <3>1. b <= c
            BY <1>4, <2>3
        <3> QED BY Zenon, <2>3, <3>1 DEF LiteralFrom
    <2> QED BY Zenon, <2>5, <2>6, <2>7 DEF isLiteralDNSLabel
<1> QED BY Zenon, <1>4, <1>5, <1>6 DEF n

\* One turn of the glob loop: how far the first i characters of g reach in s.
GlobStep(g, s, i, r) ==
    IF g[i] = Star
    THEN {j \in 0 .. Len(s) : \E k \in r : k <= j}
    ELSE {j \in 1 .. Len(s) : j - 1 \in r /\ s[j] = g[i]}

\* w holds the turns of GlobMatch.
GlobSteps(g, s, w) ==
    /\ w[0] = {0} /\ \A i \in 1 .. Len(g) : w[i] = GlobStep(g, s, i, w[i - 1])
    /\ GlobMatch(g, s) <=> Len(s) \in w[Len(g)]

\* The loop of GlobMatch, unfolded.
LEMMA GlobIs ==
    ASSUME NEW X, NEW g \in Seq(X), NEW s \in Seq(X)
    PROVE  \E w : GlobSteps(g, s, w)
<1> DEFINE N == Len(g)
           M == SUBSET (0 .. Len(s))
           f == [p \in (1 .. N) \X M |-> GlobStep(g, s, p[1], p[2])]
           R(w) == [i \in 0 .. N |-> IF i = 0 THEN {0} ELSE GlobStep(g, s, i, w[i - 1])]
<1>1. N \in Nat /\ Len(s) \in Nat
    OBVIOUS
<1>2. {0} \in M /\ 1 .. Len(s) \subseteq 0 .. Len(s)
    BY <1>1
<1>3. \A i \in 1 .. N, r \in M : GlobStep(g, s, i, r) \in M
    BY Zenon, <1>2 DEF GlobStep
<1>4. f \in [(1 .. N) \X M -> M] /\ \A i \in 1 .. N, r \in M : f[<<i, r>>] = GlobStep(g, s, i, r)
    <2>1. \A p \in (1 .. N) \X M : p[1] \in 1 .. N /\ p[2] \in M
        OBVIOUS
    <2>2. \A i \in 1 .. N, r \in M : <<i, r>> \in (1 .. N) \X M /\ <<i, r>>[1] = i /\ <<i, r>>[2] = r
        BY Zenon
    <2> HIDE DEF M
    <2> QED BY Zenon, <1>3, <2>1, <2>2
<1> HIDE DEF f, M
<1>5. PICK w : Built(M, {0}, N, f, w)
    BY Zenon, <1>1, <1>2, <1>4, Builds
<1>6. w \in [0 .. N -> M] /\ w[0] = {0} /\ \A i \in 1 .. N : w[i] = GlobStep(g, s, i, w[i - 1])
    <2>1. w \in [0 .. N -> M] /\ w[0] = {0} /\ \A i \in 1 .. N : w[i] = f[<<i, w[i - 1]>>]
        BY Zenon, <1>5 DEF Built
    <2>2. \A i \in 1 .. N : i - 1 \in 0 .. N
        BY <1>1
    <2> QED BY Zenon, <1>4, <2>1, <2>2
<1>7. w = R(w)
    <2>1. \A i \in 0 .. N : i # 0 => i \in 1 .. N
        BY <1>1
    <2>2. \A i \in 0 .. N : w[i] = IF i = 0 THEN {0} ELSE GlobStep(g, s, i, w[i - 1])
        BY Zenon, <1>6, <2>1
    <2>3. R(w) \in [0 .. N -> M]
        BY Zenon, <1>6, <2>2
    <2>4. \A i \in 0 .. N : w[i] = R(w)[i]
        BY Zenon, <2>2
    <2> HIDE DEF R
    <2>5. Equal(w, R(w))
        BY Zenon, <1>6, <2>3, <2>4, FcnEqual
    <2> QED BY Zenon, <2>5 DEF Equal
<1>8. PICK v : v = R(v) /\ (GlobMatch(g, s) <=> Len(s) \in v[N])
    BY Zenon, <1>7 DEF GlobMatch, GlobStep, N
<1>9. v[0] = {0} /\ \A i \in 1 .. N : v[i] = GlobStep(g, s, i, v[i - 1])
    <2>1. 0 \in 0 .. N /\ \A i \in 1 .. N : i \in 0 .. N /\ i # 0
        BY <1>1
    <2> HIDE DEF N
    <2> QED BY Zenon, <1>8, <2>1
<1>10. GlobSteps(g, s, v)
    BY Zenon, <1>8, <1>9 DEF GlobSteps
<1> QED BY Zenon, <1>10

\* s ends with what g has from b on.
EndsWith(s, g, b) ==
    LET k == Len(g) - b + 1 IN
    k <= Len(s) /\ \A i \in 1 .. k : s[Len(s) - k + i] = g[b - 1 + i]

\* What a glob matches ends with what follows the last star of the glob.
LEMMA GlobTail ==
    ASSUME NEW X, NEW g \in Seq(X), NEW s \in Seq(X), GlobMatch(g, s),
           NEW b \in 1 .. Len(g), \A i \in b .. Len(g) : g[i] # Star
    PROVE  EndsWith(s, g, b) /\ (b = 1 => Len(s) = Len(g))
<1> DEFINE n == Len(g)
           m == Len(s)
           k == n - b + 1
<1>1. n \in Nat /\ m \in Nat /\ k \in Nat /\ k >= 1 /\ k <= n /\ b \in 1 .. n
    OBVIOUS
<1>2. PICK w : GlobSteps(g, s, w)
    BY Zenon, GlobIs
<1>3. /\ w[0] = {0} /\ (\A i \in 1 .. n : w[i] = GlobStep(g, s, i, w[i - 1])) /\ m \in w[n]
      /\ \A i \in b .. n : g[i] # Star
    BY Zenon, <1>2 DEF GlobSteps
<1> DEFINE Q(j) == /\ j <= m /\ m - j \in w[n - j]
                   /\ \A i \in 0 .. j - 1 : s[m - i] = g[n - i]
           G == {j \in 0 .. k : Q(j)}
<1> HIDE DEF n, m, k
<1>4. 0 \in G
    <2>1. 0 \in 0 .. k /\ 0 <= m /\ m - 0 = m /\ n - 0 = n /\ 0 .. 0 - 1 = {}
        BY <1>1
    <2> QED BY Zenon, <1>3, <2>1
<1>5. ASSUME NEW j \in 1 .. k, j - 1 \in G PROVE j \in G
    <2>1. j - 1 <= m /\ m - (j - 1) \in w[n - (j - 1)] /\ \A i \in 0 .. (j - 1) - 1 : s[m - i] = g[n - i]
        BY Zenon, <1>5
    <2>2. /\ j \in Nat /\ j \in 0 .. k /\ n - (j - 1) \in 1 .. n /\ n - (j - 1) \in b .. n
          /\ (n - (j - 1)) - 1 = n - j /\ (m - (j - 1)) - 1 = m - j
        BY <1>1 DEF k
    <2>3. m - (j - 1) \in GlobStep(g, s, n - (j - 1), w[n - j]) /\ g[n - (j - 1)] # Star
        BY Zenon, <1>3, <2>1, <2>2
    <2>4. m - (j - 1) \in 1 .. m /\ m - j \in w[n - j] /\ s[m - (j - 1)] = g[n - (j - 1)]
        BY Zenon, <2>2, <2>3 DEF GlobStep, m
    <2>5. j <= m /\ \A i \in 0 .. j - 1 : i \in 0 .. (j - 1) - 1 \/ i = j - 1
        BY <1>1, <2>2, <2>4
    <2> QED BY Zenon, <2>1, <2>2, <2>4, <2>5
<1>6. Q(k)
    <2>1. k \in 0 .. k
        BY <1>1
    <2> HIDE DEF Q
    <2> QED BY ZenonT(60), <1>1, <1>4, <1>5, <2>1, Counting
<1>7. EndsWith(s, g, b)
    <2>1. ASSUME NEW i \in 1 .. k PROVE s[m - k + i] = g[b - 1 + i]
        <3>1. k - i \in 0 .. k - 1 /\ m - (k - i) = m - k + i /\ n - (k - i) = b - 1 + i
            BY <1>1 DEF k
        <3> QED BY Zenon, <1>6, <3>1
    <2> QED BY Zenon, <1>6, <2>1 DEF EndsWith, k, n, m
<1>8. ASSUME b = 1 PROVE m = n
    <2>1. n - k = 0 /\ k = n
        BY <1>1, <1>8 DEF k
    <2>2. m - k \in {0}
        BY Zenon, <1>3, <1>6, <2>1
    <2> QED BY <1>1, <2>1, <2>2
<1> QED BY Zenon, <1>7, <1>8 DEF n, m

\* Letters: what lower leaves alone, and the star is none of it.
LEMMA Letters ==
    /\ \A c \in Lower \cup {Dash, Dot} : c \notin Upper /\ c # Star
    /\ Dot # Dash /\ Dot # Star /\ Dash # Star
    /\ \A c \in Upper : ToLower[c] \in Lower
<1>1. Dot # Dash /\ Dot # Star /\ Dash # Star
    BY DEF Dot, Dash, Star
<1> QED BY Zenon, <1>1, LetterAssumption

\* lower keeps the length, and every character that is no capital.
LEMMA LowerIs ==
    ASSUME NEW X, NEW s \in Seq(X)
    PROVE  /\ lower(s) \in Seq(X \cup Lower) /\ Len(lower(s)) = Len(s) /\ DOMAIN lower(s) = 1 .. Len(s)
           /\ \A i \in 1 .. Len(s) : s[i] \notin Upper => lower(s)[i] = s[i]
           /\ \A i \in 1 .. Len(s) : lower(s)[i] = IF s[i] \in Upper THEN ToLower[s[i]] ELSE s[i]
<1>1. Len(s) \in Nat /\ DOMAIN s = 1 .. Len(s) /\ \A i \in 1 .. Len(s) : s[i] \in X
    BY Zenon, SeqIs
<1>2. \A i \in 1 .. Len(s) : lower(s)[i] = IF s[i] \in Upper THEN ToLower[s[i]] ELSE s[i]
    BY Zenon, <1>1 DEF lower
<1>3. lower(s) \in [1 .. Len(s) -> X \cup Lower]
    BY Zenon, <1>1, <1>2, Letters DEF lower
<1>4. lower(s) \in Seq(X \cup Lower) /\ Len(lower(s)) = Len(s) /\ DOMAIN lower(s) = 1 .. Len(s)
    BY Zenon, <1>1, <1>3, Numbered
<1> QED BY Zenon, <1>2, <1>4

\* The end of a sequence.
LEMMA FromIs ==
    ASSUME NEW X, NEW s \in Seq(X), NEW b \in 1 .. Len(s) + 1
    PROVE  /\ From(s, b) \in Seq(X) /\ Len(From(s, b)) = Len(s) - b + 1
           /\ \A i \in 1 .. Len(s) - b + 1 : From(s, b)[i] = s[b - 1 + i]
<1>1. Len(s) \in Nat /\ From(s, b) = SubSeq(s, b, Len(s))
    BY DEF From
<1>2. From(s, b) \in Seq(X) /\ Len(From(s, b)) = Len(s) - b + 1
    BY <1>1
<1>3. \A i \in 1 .. Len(s) - b + 1 : From(s, b)[i] = s[b - 1 + i]
    BY <1>1
<1> QED BY Zenon, <1>2, <1>3

\* The host s ends with the plain name x, at a label boundary.
Hangs(x, s) ==
    /\ Plain(x) /\ Len(x) <= Len(s)
    /\ \A i \in 1 .. Len(x) : lower(s)[Len(s) - Len(x) + i] = x[i]
    /\ Len(s) > Len(x) => s[Len(s) - Len(x)] = Dot

\* The place in the lowered host s where the name x starts.
PlaceOf(x, s) == Len(s) - Len(x) + 1

\* What the walk of appendCandidates meets on the way to the name.
OnTheWay(x, s) ==
    LET name == lower(s)
        b == PlaceOf(x, s)
    IN /\ s # <<>> /\ s[Len(s)] # Dot /\ name # <<>> /\ b \in Starts(name) /\ From(name, b) = x
       /\ \A c \in Starts(name) : b <= c => \E d \in Starts(x) : From(name, c) = From(x, d)

\* A host that ends with a name leads the walk to the name, over the nodes that
\* insertHostSuffix made for it.
LEMMA WalkIs ==
    ASSUME NEW X, NEW x \in Seq(X), NEW s \in Seq(X), Hangs(x, s)
    PROVE  OnTheWay(x, s)
<1> DEFINE name == lower(s)
           n == Len(s)
           k == Len(x)
           b == PlaceOf(x, s)
           Y == X \cup Lower
<1>1. /\ name \in Seq(Y) /\ Len(name) = n /\ n \in Nat
      /\ \A i \in 1 .. n : s[i] \notin Upper => name[i] = s[i]
    <2>1. n \in Nat
        OBVIOUS
    <2> QED BY Zenon, <2>1, LowerIs
<1>2. /\ k \in Nat /\ k # 0 /\ k <= n /\ x[k] # Dot /\ x \in Seq(Y)
      /\ \A i \in 1 .. k : name[n - k + i] = x[i]
      /\ n > k => s[n - k] = Dot
    <2>1. x \in Seq(Y)
        OBVIOUS
    <2> QED BY Zenon, <2>1 DEF Hangs, Plain
<1>3. b = n - k + 1
    BY Zenon DEF PlaceOf
<1> HIDE DEF name, n, k, b, Y
<1>4. k \in 1 .. k /\ n - k + k = n /\ n \in 1 .. n /\ b \in 1 .. n /\ n > 0
    BY <1>1, <1>2, <1>3
<1>5. s # <<>> /\ name # <<>>
    <2>1. Len(<<>>) = 0 /\ n # 0
        BY <1>4
    <2> QED BY Zenon, <1>1, <2>1 DEF n
<1>6. s[n] # Dot
    <2>1. name[n] = x[k]
        BY Zenon, <1>2, <1>4
    <2> QED BY Zenon, <1>1, <1>2, <1>4, <2>1, Letters
<1>7. b \in Starts(name)
    <2>1. CASE n > k
        <3>1. n - k \in 1 .. n /\ n - k + 1 = b
            BY <1>1, <1>2, <1>3, <2>1
        <3>2. name[n - k] = Dot
            BY Zenon, <1>1, <1>2, <2>1, <3>1, Letters
        <3> QED BY Zenon, <1>1, <3>1, <3>2 DEF Starts
    <2>2. CASE ~(n > k)
        <3>1. b = 1
            BY <1>1, <1>2, <1>3, <2>2
        <3> QED BY Zenon, <3>1 DEF Starts
    <2> QED BY Zenon, <2>1, <2>2
<1>8. From(name, b) = x
    <2>0. b \in 1 .. n + 1
        BY <1>1, <1>4
    <2>1. n - b + 1 = k /\ b - 1 = n - k
        BY <1>1, <1>2, <1>3
    <2>2. /\ From(name, b) \in Seq(Y) /\ Len(From(name, b)) = n - b + 1
          /\ \A i \in 1 .. n - b + 1 : From(name, b)[i] = name[b - 1 + i]
        BY ZenonT(60), <1>1, <2>0, FromIs
    <2>3. From(name, b) \in Seq(Y) /\ Len(From(name, b)) = k /\ \A i \in 1 .. k : From(name, b)[i] = name[n - k + i]
        BY Zenon, <2>1, <2>2
    <2> QED BY ZenonT(60), <1>2, <2>3, SameSeq DEF k
<1>9. ASSUME NEW c \in Starts(name), b <= c PROVE \E d \in Starts(x) : From(name, c) = From(x, d)
    <2> DEFINE d == c - b + 1
    <2>1. c = 1 \/ \E i \in 1 .. n : name[i] = Dot /\ c = i + 1
        BY Zenon, <1>1 DEF Starts
    <2>2. c \in 1 .. n + 1 /\ c \in b .. n + 1
        BY <1>1, <1>4, <1>9, <2>1
    <2>3. d \in 1 .. k + 1 /\ n - c + 1 = k - d + 1
        BY <1>1, <1>2, <1>3, <2>2
    <2>4. d \in Starts(x)
        <3>1. CASE c = b
            <4>1. d = 1
                BY <1>4, <3>1
            <4> QED BY Zenon, <4>1 DEF Starts
        <3>2. CASE c # b
            <4>1. PICK i \in 1 .. n : name[i] = Dot /\ c = i + 1
                BY <1>4, <1>9, <2>1, <3>2
            <4>2. i - (n - k) \in 1 .. k /\ n - k + (i - (n - k)) = i /\ (i - (n - k)) + 1 = d
                BY <1>1, <1>2, <1>3, <1>9, <3>2, <4>1
            <4>3. x[i - (n - k)] = Dot
                BY Zenon, <1>2, <4>1, <4>2
            <4> QED BY Zenon, <4>2, <4>3 DEF Starts, k
        <3> QED BY Zenon, <3>1, <3>2
    <2>5. From(name, c) = From(x, d)
        <3>1. /\ From(name, c) \in Seq(Y) /\ Len(From(name, c)) = n - c + 1
              /\ \A i \in 1 .. n - c + 1 : From(name, c)[i] = name[c - 1 + i]
            BY ZenonT(60), <1>1, <2>2, FromIs
        <3>2. /\ From(x, d) \in Seq(Y) /\ Len(From(x, d)) = k - d + 1
              /\ \A i \in 1 .. k - d + 1 : From(x, d)[i] = x[d - 1 + i]
            BY Zenon, <1>2, <2>3, FromIs DEF k
        <3>3. ASSUME NEW i \in 1 .. k - d + 1 PROVE name[c - 1 + i] = x[d - 1 + i]
            <4>1. d - 1 + i \in 1 .. k /\ n - k + (d - 1 + i) = c - 1 + i
                BY <1>1, <1>2, <1>3, <2>2
            <4> QED BY Zenon, <1>2, <4>1
        <3> HIDE DEF d
        <3> QED BY ZenonT(60), <2>3, <3>1, <3>2, <3>3, SameSeq
    <2> QED BY Zenon, <2>4, <2>5
<1> QED BY Zenon, <1>5, <1>6, <1>7, <1>8, <1>9 DEF OnTheWay, name, n, b

\* The parts a matcher of each kind has.
LEMMA MatcherIs ==
    ASSUME NEW m \in Matcher
    PROVE  /\ m.kind \in {"always", "glob", "re", "suffixes"}
           /\ m.kind = "glob" => m.glob \in Seq(Char)
           /\ m.kind = "suffixes" => m.suffixes \in SUBSET ImportedName
BY DEF Matcher

\* An imported name is plain.
LEMMA ImportedIs ==
    ASSUME NEW x \in ImportedName
    PROVE  x \in Seq(Char) /\ Plain(x) /\ \A i \in 1 .. Len(x) : lower(x)[i] = x[i]
<1>1. x \in Seq(Char) /\ \A b \in Starts(x) : isLiteralDNSLabel(Label(x, b))
    BY Zenon DEF ImportedName
<1>2. 1 \in Starts(x) /\ LiteralFrom(x, 1)
    BY Zenon, <1>1 DEF Starts, LiteralFrom
<1>3. 1 \in 1 .. Len(x) /\ x[Len(x)] # Dot /\ \A i \in 1 .. Len(x) : x[i] \in Lower \cup {Dash, Dot}
    BY Zenon, <1>1, <1>2, LiteralIs
<1>4. Len(x) \in Nat /\ Len(x) # 0
    BY <1>1, <1>3
<1>5. \A i \in 1 .. Len(x) : lower(x)[i] = x[i]
    BY Zenon, <1>1, <1>3, LowerIs, Letters
<1> QED BY Zenon, <1>1, <1>3, <1>4, <1>5 DEF Plain

\* A host an imported regular expression matches ends with one of its names.
LEMMA SuffixHangs ==
    ASSUME NEW x \in ImportedName, NEW s \in Seq(Char), SuffixMatch(x, s)
    PROVE  Hangs(x, s)
<1>1. Plain(x) /\ \A i \in 1 .. Len(x) : lower(x)[i] = x[i]
    BY Zenon, ImportedIs
<1> QED BY Zenon, <1>1 DEF SuffixMatch, Hangs

\* From where on the labels of a glob are literal.
Literals(g) == {b \in Starts(g) : LiteralFrom(g, b)}

\* A host a glob matches ends with the literal labels the glob ends with, at a
\* label boundary: the glob has a dot before them, or nothing.
LEMMA GlobHangs ==
    ASSUME NEW g \in Seq(Char), NEW s \in Seq(Char), GlobMatch(g, s), NEW b \in Literals(g)
    PROVE  Hangs(From(g, b), s) /\ From(g, b) \in Seq(Char)
<1> DEFINE n == Len(g)
           m == Len(s)
           x == From(g, b)
           k == n - b + 1
<1>1. n \in Nat /\ m \in Nat
    OBVIOUS
<1>2. b \in 1 .. n /\ g[n] # Dot /\ \A i \in b .. n : g[i] \in Lower \cup {Dash, Dot}
    BY Zenon, LiteralIs DEF Literals
<1>3. b \in 1 .. n + 1
    BY <1>1, <1>2
<1>4. x \in Seq(Char) /\ Len(x) = k /\ \A i \in 1 .. k : x[i] = g[b - 1 + i]
    BY Zenon, <1>3, FromIs
<1>5. EndsWith(s, g, b) /\ (b = 1 => m = n)
    BY Zenon, <1>2, GlobTail, Letters
<1>6. k <= m /\ \A i \in 1 .. k : s[m - k + i] = g[b - 1 + i]
    BY Zenon, <1>5 DEF EndsWith
<1>7. b # 1 => g[b - 1] = Dot
    <2>1. b \in Starts(g)
        BY Zenon DEF Literals
    <2>2. b = 1 \/ \E i \in 1 .. n : g[i] = Dot /\ b = i + 1
        BY Zenon, <2>1 DEF Starts
    <2>3. \A i \in 1 .. n : (i + 1) - 1 = i
        BY <1>1
    <2> QED BY Zenon, <2>2, <2>3
<1>8. m > k => s[m - k] = Dot
    <2> SUFFICES ASSUME m > k PROVE s[m - k] = Dot
        BY Zenon
    <2>1. b # 1
        BY <1>1, <1>2, <1>5
    <2>2. b - 1 \in 1 .. n /\ \A i \in b - 1 .. n : i = b - 1 \/ i \in b .. n
        BY <1>1, <1>2, <2>1
    <2>3. \A i \in b - 1 .. n : g[i] # Star
        BY Zenon, <1>2, <1>7, <2>1, <2>2, Letters
    <2>4. EndsWith(s, g, b - 1)
        BY Zenon, <2>2, <2>3, GlobTail
    <2>5. \A i \in 1 .. n - (b - 1) + 1 : s[m - (n - (b - 1) + 1) + i] = g[(b - 1) - 1 + i]
        BY Zenon, <2>4 DEF EndsWith
    <2>6. 1 \in 1 .. n - (b - 1) + 1 /\ m - (n - (b - 1) + 1) + 1 = m - k /\ (b - 1) - 1 + 1 = b - 1
        BY <1>1, <1>2
    <2> QED BY Zenon, <1>7, <2>1, <2>5, <2>6
<1> HIDE DEF n, m, x, k
<1>9. ASSUME NEW i \in 1 .. k PROVE x[i] \in Lower \cup {Dash, Dot} /\ lower(s)[m - k + i] = x[i]
    <2>1. b - 1 + i \in b .. n /\ m - k + i \in 1 .. m
        BY <1>1, <1>2, <1>6 DEF k
    <2>2. x[i] \in Lower \cup {Dash, Dot} /\ s[m - k + i] = x[i]
        BY Zenon, <1>2, <1>4, <1>6, <2>1
    <2> QED BY Zenon, <2>1, <2>2, LowerIs, Letters DEF m
<1>10. k \in Nat /\ k # 0 /\ k \in 1 .. k /\ b - 1 + k = n
    BY <1>1, <1>2 DEF k
<1>11. Plain(x)
    <2>1. x[k] # Dot
        BY Zenon, <1>2, <1>4, <1>10
    <2> QED BY Zenon, <1>4, <1>9, <1>10, <2>1 DEF Plain
<1> QED BY Zenon, <1>4, <1>6, <1>8, <1>9, <1>11 DEF Hangs, m, x

\* A host that a rule matches ends with a name the rule is hung at, if the rule
\* is hung at all.
LEMMA HungEnds ==
    ASSUME NEW m \in Matcher, NEW s \in Seq(Char), match(m, s), HungAt(m) # {}
    PROVE  \E x \in HungAt(m) : x \in Seq(Char) /\ Hangs(x, s)
<1>0. "always" # "glob" /\ "re" # "glob" /\ "suffixes" # "glob" /\ "always" # "suffixes" /\ "re" # "suffixes"
    OBVIOUS
<1>1. CASE m.kind = "suffixes"
    <2>1. PICK x \in m.suffixes : SuffixMatch(x, s)
        BY <1>1 DEF match
    <2>2. x \in HungAt(m) /\ x \in ImportedName
        BY Zenon, <1>1, MatcherIs DEF HungAt
    <2> QED BY Zenon, <2>1, <2>2, ImportedIs, SuffixHangs
<1>2. CASE m.kind = "glob"
    <2>1. m.glob \in Seq(Char) /\ GlobMatch(m.glob, s)
        BY <1>2, MatcherIs DEF match
    <2>2. HungAt(m) = {literalGlobSuffix(m)} /\ literalGlobSuffix(m) # <<>>
        BY Zenon, <1>0, <1>2 DEF HungAt
    <2>3. literalGlobSuffix(m) = IF Literals(m.glob) = {} THEN <<>> ELSE From(m.glob, Min(Literals(m.glob)))
        BY Zenon, <1>2 DEF literalGlobSuffix, Literals, LiteralFrom
    <2>4. Literals(m.glob) # {} /\ literalGlobSuffix(m) = From(m.glob, Min(Literals(m.glob)))
        BY Zenon, <2>2, <2>3
    <2>5. Literals(m.glob) \in SUBSET Nat
        <3>1. 1 \in Nat /\ \A i \in 1 .. Len(m.glob) : i + 1 \in Nat
            BY <2>1
        <3> QED BY Zenon, <3>1 DEF Literals, Starts
    <2>6. Min(Literals(m.glob)) \in Literals(m.glob)
        BY Zenon, <2>4, <2>5, MinIs
    <2>7. Hangs(literalGlobSuffix(m), s) /\ literalGlobSuffix(m) \in Seq(Char)
        BY Zenon, <2>1, <2>4, <2>6, GlobHangs
    <2> QED BY Zenon, <2>2, <2>7
<1>3. CASE m.kind \notin {"suffixes", "glob"}
    BY Zenon, <1>3 DEF HungAt, literalGlobSuffix
<1> QED BY Zenon, <1>1, <1>2, <1>3

\* The name that appendCandidates looks for: the lowered host without a trailing dot.
NameOf(host) ==
    lower(IF host # <<>> /\ host[Len(host)] = Dot THEN SubSeq(host, 1, Len(host) - 1) ELSE host)

\* The labels it can walk.
Walked(index, name) ==
    {b \in Starts(name) :
       name # <<>> /\ \A c \in Starts(name) : b <= c => From(name, c) \in index.nodes}

\* The rules it finds.
Candidates(index, host) ==
    index.fallback
      \cup {h[2] : h \in {h \in index.hung : \E b \in Walked(index, NameOf(host)) : h[1] = From(NameOf(host), b)}}

\* A set of rules in the order of the document.
Ascending(S) == CHOOSE s \in Orders(S) : \A i, j \in DOMAIN s : i < j => s[i] < s[j]

\* appendCandidates in these terms.
LEMMA CandidatesAre ==
    ASSUME NEW index, NEW host
    PROVE  appendCandidates(index, host) = Ascending(Candidates(index, host))
BY Zenon DEF appendCandidates, Ascending, Candidates, Walked, NameOf

\* A walk along a name of the tree goes on to the end of the name.
LEMMA WalkedIs ==
    ASSUME NEW index, NEW x \in Seq(Char), NEW s \in Seq(Char), Hangs(x, s),
           \A d \in Starts(x) : From(x, d) \in index.nodes
    PROVE  \E b \in Walked(index, NameOf(s)) : x = From(NameOf(s), b)
<1>1. OnTheWay(x, s)
    BY Zenon, WalkIs
<1> DEFINE name == lower(s)
           b == PlaceOf(x, s)
<1>2. /\ s[Len(s)] # Dot /\ name # <<>> /\ b \in Starts(name) /\ From(name, b) = x
      /\ \A c \in Starts(name) : b <= c => \E d \in Starts(x) : From(name, c) = From(x, d)
    BY Zenon, <1>1 DEF OnTheWay
<1>3. NameOf(s) = name
    BY Zenon, <1>2 DEF NameOf
<1> HIDE DEF name, b
<1>4. \A c \in Starts(name) : b <= c => From(name, c) \in index.nodes
    BY Zenon, <1>2
<1>5. b \in Walked(index, name)
    BY Zenon, <1>2, <1>4 DEF Walked
<1> QED BY Zenon, <1>2, <1>3, <1>5

\* The nodes that a rule hung at a name adds to the tree.
NodesOf(h) == {From(h[1], b) : b \in Starts(h[1])}

\* "must never omit a possible match": a rule whose matcher matches is among the
\* candidates, and candidates are rules.
LEMMA NoneOmitted ==
    ASSUME NEW rules \in Seq(Rule), NEW host \in Seq(Char)
    PROVE  LET F == Candidates(buildHostCandidateIndex(rules), host) IN
           F \in SUBSET (1 .. Len(rules)) /\ \A i \in 1 .. Len(rules) : match(rules[i].host, host) => i \in F
<1> DEFINE n == Len(rules)
           index == buildHostCandidateIndex(rules)
           F == Candidates(index, host)
           hung == UNION {HungAt(rules[i].host) \X {i} : i \in DOMAIN rules}
<1>1. n \in Nat /\ DOMAIN rules = 1 .. n /\ \A i \in 1 .. n : rules[i] \in Rule
    BY Zenon, SeqIs
<1>2. \A i \in 1 .. n : rules[i].host \in Matcher
    <2>1. \A r \in Rule : r.host \in Matcher
        BY DEF Rule
    <2> QED BY Zenon, <1>1, <2>1
<1>3. index = [hung |-> hung, nodes |-> UNION {NodesOf(h) : h \in hung},
               fallback |-> {i \in DOMAIN rules : HungAt(rules[i].host) = {}}]
    BY Zenon DEF buildHostCandidateIndex, NodesOf
<1>4. /\ index.hung = hung /\ index.nodes = UNION {NodesOf(h) : h \in hung}
      /\ index.fallback = {i \in DOMAIN rules : HungAt(rules[i].host) = {}}
    <2> HIDE DEF index, hung
    <2> QED BY <1>3
<1>5. \A i \in 1 .. n : \A x \in HungAt(rules[i].host) : <<x, i>> \in hung
    <2> TAKE i \in 1 .. n
    <2> TAKE x \in HungAt(rules[i].host)
    <2>1. <<x, i>> \in HungAt(rules[i].host) \X {i}
        OBVIOUS
    <2> QED BY Zenon, <1>1, <2>1
<1>6. \A h \in hung : h[2] \in 1 .. n
    <2> TAKE h \in hung
    <2>1. PICK k \in DOMAIN rules : h \in HungAt(rules[k].host) \X {k}
        BY Zenon
    <2>2. h[2] = k
        BY <2>1
    <2> QED BY Zenon, <1>1, <2>1, <2>2
<1>7. \A x, i : <<x, i>>[1] = x /\ <<x, i>>[2] = i
    OBVIOUS
<1> HIDE DEF index, hung
<1>8. F \in SUBSET (1 .. n)
    BY Zenon, <1>1, <1>4, <1>6 DEF Candidates
<1>9. ASSUME NEW i \in 1 .. n, match(rules[i].host, host) PROVE i \in F
    <2>1. CASE HungAt(rules[i].host) = {}
        BY Zenon, <1>1, <1>4, <2>1 DEF Candidates
    <2>2. CASE HungAt(rules[i].host) # {}
        <3>1. PICK x \in HungAt(rules[i].host) : x \in Seq(Char) /\ Hangs(x, host)
            BY Zenon, <1>2, <1>9, <2>2, HungEnds
        <3> DEFINE h == <<x, i>>
        <3>2. h \in index.hung /\ h[1] = x /\ h[2] = i
            BY Zenon, <1>4, <1>5, <1>7
        <3> HIDE DEF h
        <3>3. \A d \in Starts(x) : From(x, d) \in index.nodes
            <4>1. \A d \in Starts(h[1]) : From(h[1], d) \in NodesOf(h)
                BY Zenon DEF NodesOf
            <4>2. \A d \in Starts(h[1]) : From(h[1], d) \in index.nodes
                BY Zenon, <1>4, <3>2, <4>1
            <4> QED BY Zenon, <3>2, <4>2
        <3>4. PICK b \in Walked(index, NameOf(host)) : x = From(NameOf(host), b)
            BY ZenonT(60), <3>1, <3>3, WalkedIs
        <3> QED BY Zenon, <3>2, <3>4 DEF Candidates
    <2> QED BY Zenon, <2>1, <2>2
<1> QED BY Zenon, <1>8, <1>9 DEF index

\* q lists F in ascending order.
Sorted(q, F) ==
    /\ q \in Seq(Nat) /\ (\A k \in 1 .. Len(q) : q[k] \in F)
    /\ \A i \in F : \E k \in 1 .. Len(q) : q[k] = i
    /\ \A j, k \in 1 .. Len(q) : j < k => q[j] < q[k]

\* appendCandidates sorts: its order exists and leaves no candidate out.
LEMMA AscendingIs ==
    ASSUME NEW n \in Nat, NEW F \in SUBSET (1 .. n)
    PROVE  Sorted(Ascending(F), F)
<1> DEFINE f == [x \in F |-> x]
           N == Cardinality(F)
           P(q) == \A i, j \in DOMAIN q : i < j => q[i] < q[j]
<1>1. IsFiniteSet(F)
    BY Zenon, Upto, FS_Subset
<1>2. \A x \in F : x \in Nat
    OBVIOUS
<1>3. f \in [F -> Nat] /\ \A x \in F : f[x] = x
    BY Zenon, <1>2
<1> HIDE DEF f
<1>4. PICK p : Listing(p, N, F) /\ ByKey(f, p, N)
    BY Zenon, <1>1, <1>3, Sorts
<1>5. p \in Orders(F) /\ DOMAIN p = 1 .. N
    BY Zenon, <1>4, OrdersHas
<1>6. P(p)
    <2> SUFFICES ASSUME NEW i \in 1 .. N, NEW j \in 1 .. N, i < j PROVE p[i] < p[j]
        BY Zenon, <1>5
    <2>1. i # j /\ N \in Nat
        BY <1>4 DEF Listing
    <2>2. p[i] \in F /\ p[j] \in F /\ p[i] # p[j] /\ f[p[i]] <= f[p[j]]
        BY Zenon, <1>4, <2>1 DEF Listing, ByKey
    <2>3. p[i] \in Nat /\ p[j] \in Nat /\ p[i] <= p[j] /\ p[i] # p[j]
        BY Zenon, <1>2, <1>3, <2>2
    <2> QED BY <2>3
<1> DEFINE q == Ascending(F)
<1>7. q \in Orders(F) /\ P(q)
    BY Zenon, <1>5, <1>6 DEF Ascending
<1> HIDE DEF q, N
<1>8. /\ q \in Seq(F) /\ Len(q) = N /\ DOMAIN q = 1 .. N
      /\ \A s \in F : \E i \in 1 .. N : q[i] = s
    BY Zenon, <1>1, <1>7, ListsAll DEF N
<1>9. q \in Seq(Nat) /\ \A k \in 1 .. Len(q) : q[k] \in F
    <2>1. N \in Nat /\ q \in [1 .. N -> F]
        BY Zenon, <1>8, SeqIs
    <2>2. q \in [1 .. N -> Nat] /\ \A k \in 1 .. N : q[k] \in F
        BY Zenon, <1>2, <2>1
    <2> QED BY Zenon, <1>8, <2>1, <2>2, Numbered
<1> QED BY Zenon, <1>7, <1>8, <1>9 DEF Sorted, q

\* The places of q that hold elements of I.
Places(q, I) == {k \in 1 .. Len(q) : q[k] \in I}

\* Scanning an ascending list that holds all of I finds what scanning all finds.
LEMMA FirstOfListed ==
    ASSUME NEW n \in Nat, NEW F \in SUBSET (1 .. n), NEW I \in SUBSET F, NEW q, Sorted(q, F)
    PROVE  Picked(q, First(Places(q, I))) = First(I)
<1> DEFINE K == Places(q, I)
<1>1. /\ q \in Seq(Nat) /\ Len(q) \in Nat /\ (\A i \in F : \E k \in 1 .. Len(q) : q[k] = i)
      /\ \A j, k \in 1 .. Len(q) : j < k => q[j] < q[k]
    <2>1. q \in Seq(Nat)
        BY Zenon DEF Sorted
    <2>2. Len(q) \in Nat
        BY <2>1
    <2> QED BY Zenon, <2>1, <2>2 DEF Sorted
<1>2. I \in SUBSET (1 .. n) /\ K \in SUBSET (1 .. Len(q)) /\ \A k \in K : q[k] \in I
    BY Zenon DEF Places
<1>3. K = {} <=> I = {}
    BY Zenon, <1>1 DEF Places
<1>4. /\ First(I) = 0 <=> I = {}
      /\ I # {} => First(I) \in I /\ \A i \in I : First(I) <= i
    BY Zenon, <1>2, FirstIs
<1>5. /\ First(K) = 0 <=> K = {}
      /\ K # {} => First(K) \in K /\ \A i \in K : First(K) <= i
    <2> HIDE DEF K
    <2> QED BY Zenon, <1>1, <1>2, FirstIs
<1>6. CASE I = {}
    <2>1. First(K) = 0 /\ First(I) = 0
        BY Zenon, <1>3, <1>4, <1>5, <1>6
    <2> QED BY Zenon, <2>1 DEF Picked
<1>7. CASE I # {}
    <2> DEFINE k == First(K)
               i == First(I)
    <2>1. k \in K /\ k # 0 /\ i \in I /\ (\A j \in K : k <= j) /\ \A j \in I : i <= j
        BY Zenon, <1>3, <1>4, <1>5, <1>7
    <2>2. PICK j \in 1 .. Len(q) : q[j] = i
        BY Zenon, <1>1, <2>1
    <2>3. k <= j /\ i <= q[k] /\ k \in 1 .. Len(q)
        BY Zenon, <2>1, <2>2 DEF Places
    <2>4. k < j => q[k] < q[j]
        BY Zenon, <1>1, <2>3
    <2> HIDE DEF k, i
    <2>5. q[k] = i
        <3>1. q[k] \in Nat /\ i \in Nat
            BY <1>1, <2>2, <2>3
        <3>2. CASE k < j
            BY <2>2, <2>3, <2>4, <3>1, <3>2
        <3>3. CASE ~(k < j)
            <4>1. k = j
                BY <1>1, <2>2, <2>3, <3>3
            <4> QED BY Zenon, <2>2, <4>1
        <3> QED BY Zenon, <3>2, <3>3
    <2> QED BY Zenon, <2>1, <2>5 DEF Picked, k, i
<1> QED BY Zenon, <1>6, <1>7

\* The rules that apply to a connection, and to a message.
ConnHits(rules, host) ==
    {i \in 1 .. Len(rules) : match(rules[i].host, host) /\ rules[i].conn}
RequestHits(rules, host) ==
    {i \in 1 .. Len(rules) : ~rules[i].deny /\ match(rules[i].host, host) /\ rules[i].conn /\ rules[i].msg}

\* The lookups over candidates: the first candidate among the rules that apply.
LEMMA LookupsAre ==
    ASSUME NEW rules, NEW F \in SUBSET (1 .. Len(rules)), NEW q, Sorted(q, F), NEW host
    PROVE  /\ LookupConn(rules, q, host) = First(Places(q, ConnHits(rules, host)))
           /\ LookupRequest(rules, q, host) = First(Places(q, RequestHits(rules, host)))
<1>1. \A k \in 1 .. Len(q) : q[k] \in 1 .. Len(rules)
    BY Zenon DEF Sorted
<1> DEFINE C == {k \in 1 .. Len(q) : match(rules[q[k]].host, host) /\ rules[q[k]].conn}
           R == {k \in 1 .. Len(q) : ~rules[q[k]].deny /\ match(rules[q[k]].host, host) /\ rules[q[k]].conn /\ rules[q[k]].msg}
<1>2. C = Places(q, ConnHits(rules, host))
    BY Zenon, <1>1 DEF ConnHits, Places
<1>3. R = Places(q, RequestHits(rules, host))
    BY Zenon, <1>1 DEF RequestHits, Places
<1>4. LookupConn(rules, q, host) = First(C)
    BY Zenon DEF LookupConn, FirstIn, First
<1>5. LookupRequest(rules, q, host) = First(R)
    BY Zenon DEF LookupRequest, FirstIn, First
<1> QED BY Zenon, <1>2, <1>3, <1>4, <1>5

\* The lookups over the index select what a scan of all rules selects.
LEMMA Transparent ==
    ASSUME NEW rules \in Seq(Rule), NEW hosts \in SUBSET Seq(Char)
    PROVE  IndexIsTransparent(rules, hosts)
<1> DEFINE n == Len(rules)
           index == buildHostCandidateIndex(rules)
           all == [i \in DOMAIN rules |-> i]
<1>1. n \in Nat /\ DOMAIN rules = 1 .. n
    BY Zenon, SeqIs
<1>2. all \in [1 .. n -> Nat] /\ \A i \in 1 .. n : all[i] = i
    <2>1. \A i \in 1 .. n : i \in Nat
        BY <1>1
    <2> QED BY Zenon, <1>1, <2>1
<1>3. all \in Seq(Nat) /\ Len(all) = n
    <2> HIDE DEF all
    <2> QED BY Zenon, <1>1, <1>2, Numbered
<1>4. Sorted(all, 1 .. n)
    BY Zenon, <1>2, <1>3 DEF Sorted
<1> HIDE DEF all
<1>5. ASSUME NEW host \in hosts
      PROVE  LET some == appendCandidates(index, host) IN
             /\ Picked(some, LookupConn(rules, some, host)) = LookupConn(rules, all, host)
             /\ Picked(some, LookupRequest(rules, some, host)) = LookupRequest(rules, all, host)
    <2> DEFINE F == Candidates(index, host)
               some == Ascending(F)
               C == ConnHits(rules, host)
               R == RequestHits(rules, host)
    <2>1. F \in SUBSET (1 .. n) /\ \A i \in 1 .. n : match(rules[i].host, host) => i \in F
        BY Zenon, NoneOmitted
    <2>2. C \in SUBSET F /\ R \in SUBSET F /\ C \in SUBSET (1 .. n) /\ R \in SUBSET (1 .. n)
        BY Zenon, <2>1 DEF ConnHits, RequestHits
    <2>3. appendCandidates(index, host) = some
        BY Zenon, CandidatesAre
    <2> HIDE DEF F, index
    <2>4. Sorted(some, F)
        BY Zenon, <1>1, <2>1, AscendingIs
    <2> HIDE DEF some
    <2>5. /\ LookupConn(rules, some, host) = First(Places(some, C))
          /\ LookupRequest(rules, some, host) = First(Places(some, R))
        BY Zenon, <2>1, <2>4, LookupsAre
    <2>6. /\ LookupConn(rules, all, host) = First(Places(all, C))
          /\ LookupRequest(rules, all, host) = First(Places(all, R))
        BY Zenon, <1>4, LookupsAre
    <2>7. Places(all, C) = C /\ Places(all, R) = R
        <3> HIDE DEF C, R
        <3> QED BY Zenon, <1>2, <1>3, <2>2 DEF Places
    <2> HIDE DEF C, R
    <2>8. /\ Picked(some, First(Places(some, C))) = First(C)
          /\ Picked(some, First(Places(some, R))) = First(R)
        BY Zenon, <1>1, <2>1, <2>2, <2>4, FirstOfListed
    <2> QED BY Zenon, <2>3, <2>5, <2>6, <2>7, <2>8
<1> QED BY Zenon, <1>5 DEF IndexIsTransparent, index, all

-----------------------------------------------------------------------------
(* Lists one after the other *)

\* What Concat computes.
Concats(X, ss, g) ==
    /\ g \in [0 .. Len(ss) -> Seq(X)] /\ g[0] = <<>> /\ Concat(ss) = g[Len(ss)]
    /\ \A i \in 1 .. Len(ss) : g[i] = g[i - 1] \o ss[i]

\* Concat, which joins the X-Forwarded-For lines, appends one after the other.
LEMMA ConcatIs ==
    ASSUME NEW X, NEW ss \in Seq(Seq(X))
    PROVE  \E g : Concats(X, ss, g)
<1> DEFINE N == Len(ss)
           R(u) == [n \in 0 .. N |-> IF n = 0 THEN <<>> ELSE u[n - 1] \o ss[n]]
           f == [p \in (1 .. N) \X Seq(X) |-> p[2] \o ss[p[1]]]
<1>1. N \in Nat /\ <<>> \in Seq(X) /\ \A n \in 1 .. N : ss[n] \in Seq(X)
    OBVIOUS
<1> HIDE DEF N
<1>2. \A s, t \in Seq(X) : s \o t \in Seq(X)
    OBVIOUS
<1>3. f \in [(1 .. N) \X Seq(X) -> Seq(X)]
    <2>1. \A p \in (1 .. N) \X Seq(X) : p[1] \in 1 .. N /\ p[2] \in Seq(X)
        OBVIOUS
    <2> QED BY Zenon, <1>1, <1>2, <2>1
<1>4. \A i \in 1 .. N, s \in Seq(X) : f[<<i, s>>] = s \o ss[i]
    <2> TAKE i \in 1 .. N, s \in Seq(X)
    <2>1. <<i, s>> \in (1 .. N) \X Seq(X) /\ <<i, s>>[2] = s /\ <<i, s>>[1] = i
        OBVIOUS
    <2> QED BY Zenon, <2>1
<1> HIDE DEF f
<1>5. PICK g : Built(Seq(X), <<>>, N, f, g)
    BY Zenon, <1>1, <1>3, Builds
<1>6. g = R(g)
    <2>1. g \in [0 .. N -> Seq(X)]
        BY Zenon, <1>5 DEF Built
    <2>2. ASSUME NEW n \in 0 .. N PROVE g[n] = IF n = 0 THEN <<>> ELSE g[n - 1] \o ss[n]
        <3>1. CASE n = 0
            BY Zenon, <1>5, <3>1 DEF Built
        <3>2. CASE n # 0
            <4>1. n \in 1 .. N /\ n - 1 \in 0 .. N
                BY <1>1, <3>2
            <4>2. g[n - 1] \in Seq(X)
                BY Zenon, <2>1, <4>1
            <4> QED BY Zenon, <1>4, <1>5, <3>2, <4>1, <4>2 DEF Built
        <3> QED BY Zenon, <3>1, <3>2
    <2> QED BY Zenon, <2>1, <2>2
<1>7. PICK u : u = R(u) /\ Concat(ss) = u[N]
    BY Zenon, <1>6 DEF Concat, N
<1>8. u[0] = <<>> /\ \A n \in 1 .. N : u[n] = u[n - 1] \o ss[n]
    <2>1. 0 \in 0 .. N /\ \A n \in 1 .. N : n \in 0 .. N /\ n # 0
        BY <1>1
    <2> QED BY Zenon, <1>7, <2>1
<1> DEFINE G == {n \in 0 .. N : u[n] \in Seq(X)}
<1>9. 0 \in G
    <2>1. 0 \in 0 .. N
        BY <1>1
    <2> QED BY Zenon, <1>1, <1>8, <2>1
<1>10. ASSUME NEW n \in 1 .. N, n - 1 \in G PROVE n \in G
    <2>1. n \in 0 .. N
        BY <1>1
    <2> QED BY Zenon, <1>1, <1>2, <1>8, <1>10, <2>1
<1>11. \A n \in 0 .. N : n \in G
    <2> HIDE DEF G
    <2> QED BY Zenon, <1>1, <1>9, <1>10, Counting
<1>12. u \in [0 .. N -> Seq(X)]
    <2>1. \A n \in 0 .. N : u[n] \in Seq(X)
        BY Zenon, <1>11
    <2> QED BY Zenon, <1>7, <2>1
<1> QED BY Zenon, <1>7, <1>8, <1>12 DEF N, Concats

\* Concatenation may be regrouped.
Associative(a, b, c) == (a \o b) \o c = a \o (b \o c)

\* It may, for sequences.
LEMMA Associates ==
    ASSUME NEW X, NEW a \in Seq(X), NEW b \in Seq(X), NEW c \in Seq(X)
    PROVE  Associative(a, b, c)
<1> DEFINE u == (a \o b) \o c
           v == a \o (b \o c)
<1>1. u \in Seq(X) /\ v \in Seq(X) /\ Len(u) = Len(v)
    OBVIOUS
<1>2. \A i \in 1 .. Len(u) : u[i] = v[i]
    OBVIOUS
<1> HIDE DEF u, v
<1>3. u = v
    BY Zenon, <1>1, <1>2, SameSeq
<1> QED BY Zenon, <1>3 DEF u, v, Associative

\* A line in front of the others comes out in front (strings.Join of the lines).
LEMMA ConcatFirst ==
    ASSUME NEW X, NEW s \in Seq(X), NEW ss \in Seq(Seq(X))
    PROVE  Concat(<<s>> \o ss) = s \o Concat(ss)
<1> DEFINE tt == <<s>> \o ss
           n == Len(ss)
<1>1. /\ tt \in Seq(Seq(X)) /\ Len(tt) = n + 1 /\ n \in Nat /\ tt[1] = s
      /\ \A i \in 1 .. n : tt[i + 1] = ss[i] /\ ss[i] \in Seq(X)
    OBVIOUS
<1> HIDE DEF tt
<1>2. PICK g : Concats(X, ss, g)
    BY Zenon, ConcatIs
<1>3. PICK h : Concats(X, tt, h)
    BY Zenon, <1>1, ConcatIs
<1>4. /\ g \in [0 .. n -> Seq(X)] /\ g[0] = <<>> /\ Concat(ss) = g[n]
      /\ \A i \in 1 .. n : g[i] = g[i - 1] \o ss[i]
    BY Zenon, <1>2 DEF Concats
<1> HIDE DEF n
<1>5. /\ h[0] = <<>> /\ Concat(tt) = h[n + 1]
      /\ \A i \in 1 .. n + 1 : h[i] = h[i - 1] \o tt[i]
    BY Zenon, <1>1, <1>3 DEF Concats
<1>6. \A i \in 0 .. n : h[i + 1] = s \o g[i]
    <2> DEFINE Bad == {i \in 0 .. n : h[i + 1] # s \o g[i]}
    <2> SUFFICES ASSUME Bad # {} PROVE FALSE
        BY Zenon
    <2>1. Bad \in SUBSET Nat
        BY <1>1
    <2>2. PICK i \in Bad : \A j \in Bad : i <= j
        BY Zenon, <2>1, Least
    <2>3. i # 0
        <3>1. 1 \in 1 .. n + 1 /\ 1 - 1 = 0 /\ 0 + 1 = 1
            BY <1>1
        <3>2. h[0 + 1] = <<>> \o s
            BY Zenon, <1>1, <1>5, <3>1
        <3>3. <<>> \o s = s /\ s \o <<>> = s
            BY Zenon, ConcatNone
        <3> QED BY Zenon, <1>4, <3>2, <3>3
    <2>4. i - 1 \in 0 .. n /\ i \in 1 .. n /\ i + 1 \in 1 .. n + 1 /\ ~(i <= i - 1)
          /\ (i - 1) + 1 = i /\ (i + 1) - 1 = i
        BY <1>1, <2>3
    <2>5. h[i] = s \o g[i - 1]
        BY Zenon, <2>2, <2>4
    <2>6. h[i + 1] = h[i] \o ss[i]
        BY Zenon, <1>1, <1>5, <2>4
    <2>7. (s \o g[i - 1]) \o ss[i] = s \o (g[i - 1] \o ss[i])
        <3>1. g[i - 1] \in Seq(X) /\ ss[i] \in Seq(X)
            BY Zenon, <1>1, <1>4, <2>4
        <3>2. Associative(s, g[i - 1], ss[i])
            BY Zenon, <3>1, Associates
        <3> QED BY Zenon, <3>2 DEF Associative
    <2> QED BY Zenon, <1>4, <2>4, <2>5, <2>6, <2>7
<1>7. n \in 0 .. n
    BY <1>1
<1> QED BY Zenon, <1>4, <1>5, <1>6, <1>7 DEF tt

\* A single line is itself.
LEMMA ConcatOne ==
    ASSUME NEW X, NEW s \in Seq(X)
    PROVE  Concat(<<s>>) = s
<1>1. <<>> \in Seq(Seq(X)) /\ <<s>> \o <<>> = <<s>>
    OBVIOUS
<1>2. Concat(<<>>) = <<>>
    <2>1. PICK g : Concats(X, <<>>, g)
        BY Zenon, <1>1, ConcatIs
    <2>2. Len(<<>>) = 0
        OBVIOUS
    <2> QED BY Zenon, <2>1, <2>2 DEF Concats
<1>3. s \o <<>> = s
    BY Zenon, ConcatNone
<1> QED BY Zenon, <1>1, <1>2, <1>3, ConcatFirst

\* Joined lines are a sequence of hops.
LEMMA ConcatType ==
    ASSUME NEW X, NEW ss \in Seq(Seq(X))
    PROVE  Concat(ss) \in Seq(X)
<1>1. PICK g : Concats(X, ss, g)
    BY Zenon, ConcatIs
<1>2. Len(ss) \in 0 .. Len(ss)
    OBVIOUS
<1> QED BY Zenon, <1>1, <1>2 DEF Concats

-----------------------------------------------------------------------------
(* The listener's own certificate *)

\* The condition isValidDNSName puts on a label.
GoodLabel(x) ==
    /\ x # <<>> /\ Len(x) <= MaxLabel
    /\ \A i \in DOMAIN x : \/ x[i] \in Lower \cup Upper
                           \/ x[i] = Dash /\ i \notin {1, Len(x)}

\* The same, of the label of s that starts at b.
GoodAt(s, b) ==
    LET e == EndOf(s, b) IN
    /\ b < e /\ e - b <= MaxLabel
    /\ \A i \in b .. e - 1 : \/ s[i] \in Lower \cup Upper
                             \/ s[i] = Dash /\ i # b /\ i # e - 1

\* It is the same.
LEMMA GoodIs ==
    ASSUME NEW X, NEW s \in Seq(X), NEW b \in 1 .. Len(s) + 1
    PROVE  GoodLabel(Label(s, b)) <=> GoodAt(s, b)
<1> DEFINE x == Label(s, b)
           e == EndOf(s, b)
           Ok(i) == s[i] \in Lower \cup Upper \/ (s[i] = Dash /\ i # b /\ i # e - 1)
           OkX(i) == x[i] \in Lower \cup Upper \/ (x[i] = Dash /\ i \notin {1, e - b})
<1>1. /\ x \in Seq(X) /\ Len(x) = e - b /\ DOMAIN x = 1 .. e - b
      /\ \A i \in b .. e - 1 : x[i - b + 1] = s[i]
    BY Zenon, LabelIs
<1>2. e \in b .. Len(s) + 1
    BY Zenon, EndIs
<1>3. Len(s) \in Nat
    OBVIOUS
<1> HIDE DEF x, e
<1>4. x # <<>> <=> b < e
    BY <1>1, <1>2, <1>3
<1>5. ASSUME \A i \in 1 .. e - b : OkX(i), NEW i \in b .. e - 1 PROVE Ok(i)
    <2>1. /\ i - b + 1 \in 1 .. e - b /\ (i = b => i - b + 1 = 1)
          /\ (i = e - 1 => i - b + 1 = e - b)
        BY <1>2, <1>3
    <2>2. OkX(i - b + 1) /\ x[i - b + 1] = s[i]
        BY Zenon, <1>1, <1>5, <2>1
    <2> QED BY Zenon, <2>1, <2>2
<1>6. ASSUME \A i \in b .. e - 1 : Ok(i), NEW i \in 1 .. e - b PROVE OkX(i)
    <2>1. /\ i + b - 1 \in b .. e - 1 /\ (i + b - 1) - b + 1 = i
          /\ (i = 1 => i + b - 1 = b) /\ (i = e - b => i + b - 1 = e - 1)
        BY <1>2, <1>3
    <2>2. x[i] = s[i + b - 1]
        BY Zenon, <1>1, <2>1
    <2>3. Ok(i + b - 1)
        BY Zenon, <1>6, <2>1
    <2> QED BY Zenon, <2>1, <2>2, <2>3
<1>7. GoodLabel(x) <=> x # <<>> /\ e - b <= MaxLabel /\ \A i \in 1 .. e - b : OkX(i)
    BY Zenon, <1>1 DEF GoodLabel
<1>8. GoodAt(s, b) <=> b < e /\ e - b <= MaxLabel /\ \A i \in b .. e - 1 : Ok(i)
    BY Zenon DEF GoodAt, e
<1> HIDE DEF Ok, OkX
<1> QED BY Zenon, <1>4, <1>5, <1>6, <1>7, <1>8 DEF x

\* isValidDNSName, place by place.
LEMMA ValidIs ==
    ASSUME NEW X, NEW s \in Seq(X)
    PROVE  isValidDNSName(s) <=> s # <<>> /\ Len(s) <= MaxName /\ \A b \in Starts(s) : GoodAt(s, b)
<1>1. isValidDNSName(s) <=> s # <<>> /\ Len(s) <= MaxName /\ \A b \in Starts(s) : GoodLabel(Label(s, b))
    BY Zenon DEF isValidDNSName, GoodLabel
<1> QED BY Zenon, <1>1, StartsType, GoodIs

\* A place outside of s, or a dot of it.
Edge(s, i) == i \in {0, Len(s) + 1} \/ s[i] = Dot

\* LDH in these terms.
LEMMA LDHIs ==
    ASSUME NEW X, NEW s \in Seq(X)
    PROVE  LDH(s) <=>
             /\ Len(s) \in 1 .. MaxName
             /\ \A i \in 1 .. Len(s) : s[i] \in Lower \cup Upper \cup {Dot, Dash}
             /\ \A i \in 1 .. Len(s) - MaxLabel : \E j \in i .. i + MaxLabel : s[j] = Dot
             /\ \A i \in 1 .. Len(s) + 1 : ~(Edge(s, i - 1) /\ Edge(s, i))
             /\ \A i \in 1 .. Len(s) : s[i] = Dash => ~Edge(s, i - 1) /\ ~Edge(s, i + 1)
<1>1. DOMAIN s = 1 .. Len(s)
    BY Zenon, SeqIs
<1> QED BY Zenon, <1>1 DEF LDH, Edge

\* A label starts after an edge.
LEMMA EdgeStarts ==
    ASSUME NEW X, NEW s \in Seq(X), NEW i \in 1 .. Len(s) + 1
    PROVE  Edge(s, i - 1) <=> i \in Starts(s)
<1>1. Len(s) \in Nat /\ i - 1 # Len(s) + 1 /\ (i - 1 = 0 <=> i = 1) /\ (i - 1) + 1 = i
    OBVIOUS
<1>2. i # 1 => i - 1 \in 1 .. Len(s)
    BY <1>1
<1>3. ASSUME Edge(s, i - 1) PROVE i \in Starts(s)
    <2>1. i = 1 \/ s[i - 1] = Dot
        BY Zenon, <1>1, <1>3 DEF Edge
    <2> QED BY Zenon, <1>1, <1>2, <2>1 DEF Starts
<1>4. ASSUME i \in Starts(s) PROVE Edge(s, i - 1)
    <2>1. i = 1 \/ \E j \in 1 .. Len(s) : s[j] = Dot /\ i = j + 1
        BY Zenon, <1>4 DEF Starts
    <2>2. \A j \in 1 .. Len(s) : (j + 1) - 1 = j
        BY <1>1
    <2>3. i = 1 \/ s[i - 1] = Dot
        BY Zenon, <2>1, <2>2
    <2> QED BY Zenon, <1>1, <2>3 DEF Edge
<1> QED BY Zenon, <1>3, <1>4

\* A label ends at the next edge.
LEMMA EdgeEnds ==
    ASSUME NEW X, NEW s \in Seq(X), NEW b \in 1 .. Len(s) + 1, NEW i \in b .. Len(s) + 1,
           \A j \in b .. i : j # i => s[j] # Dot
    PROVE  (Edge(s, i) <=> EndOf(s, b) = i) /\ EndOf(s, b) >= i
<1> DEFINE e == EndOf(s, b)
           n == Len(s)
<1>1. /\ e \in b .. n + 1 /\ (e # n + 1 => s[e] = Dot) /\ \A j \in b .. e - 1 : s[j] # Dot
    BY Zenon, EndIs
<1>2. n \in Nat /\ b \in Nat
    OBVIOUS
<1> HIDE DEF e, n
<1>0. b \in 1 .. n + 1 /\ i \in b .. n + 1
    BY Zenon DEF n
<1>3. e >= i
    <2>1. e < i => e \in b .. i /\ e # i /\ e # n + 1
        BY <1>0, <1>1, <1>2
    <2>2. ~(e < i)
        BY Zenon, <1>1, <2>1
    <2> QED BY <1>0, <1>1, <1>2, <2>2
<1>4. i # 0
    BY <1>0, <1>2
<1>5. ASSUME Edge(s, i) PROVE e = i
    <2>1. i = n + 1 \/ s[i] = Dot
        BY Zenon, <1>4, <1>5 DEF Edge, n
    <2>2. e # i => i \in b .. e - 1 /\ i # n + 1
        BY <1>0, <1>1, <1>2, <1>3
    <2> QED BY Zenon, <1>1, <2>1, <2>2
<1>6. ASSUME e = i PROVE Edge(s, i)
    BY Zenon, <1>1, <1>6 DEF Edge, n
<1> QED BY Zenon, <1>3, <1>5, <1>6 DEF e

\* isValidDNSName accepts only names of letters, digits and hyphens.
LEMMA ValidIsLDH ==
    ASSUME NEW X, NEW s \in Seq(X), isValidDNSName(s)
    PROVE  LDH(s)
<1> DEFINE n == Len(s)
<1>1. n \in Nat /\ MaxLabel \in Nat /\ MaxName \in Nat
    BY ValidityAssumption
<1>2. s # <<>> /\ n <= MaxName /\ \A b \in Starts(s) : GoodAt(s, b)
    BY Zenon, ValidIs
<1>3. n \in 1 .. MaxName
    BY <1>1, <1>2
<1>4. ASSUME NEW i \in 1 .. n
      PROVE  \E c \in Starts(s) : /\ c \in 1 .. n + 1 /\ c <= i
                                  /\ \A j \in c .. i : j # i => s[j] # Dot
    <2>1. PICK c : LabelOf(s, i, c)
        BY Zenon, LabelAt
    <2> QED BY Zenon, <2>1, StartsType DEF LabelOf
<1>5. Dot # Dash /\ Dash \notin Lower \cup Upper
    BY Zenon, LetterAssumption, Letters
<1> HIDE DEF n
<1>6. ASSUME NEW i \in 1 .. n PROVE s[i] \in Lower \cup Upper \cup {Dot, Dash}
    <2> SUFFICES ASSUME s[i] # Dot PROVE s[i] \in Lower \cup Upper \cup {Dot, Dash}
        BY Zenon
    <2>1. PICK c \in Starts(s) : c \in 1 .. n + 1 /\ c <= i /\ \A j \in c .. i : j # i => s[j] # Dot
        BY Zenon, <1>4
    <2>2. i \in c .. n + 1 /\ i \notin {0, n + 1}
        BY <1>1, <2>1
    <2>3. EndOf(s, c) >= i /\ EndOf(s, c) # i /\ EndOf(s, c) \in c .. n + 1
        BY Zenon, <2>1, <2>2, EdgeEnds, EndIs DEF Edge, n
    <2>4. i \in c .. EndOf(s, c) - 1
        BY <1>1, <2>1, <2>2, <2>3
    <2> QED BY Zenon, <1>2, <2>4 DEF GoodAt
<1>7. ASSUME NEW i \in 1 .. n - MaxLabel PROVE \E j \in i .. i + MaxLabel : s[j] = Dot
    <2> SUFFICES ASSUME \A j \in i .. i + MaxLabel : s[j] # Dot PROVE FALSE
        BY Zenon
    <2>0. i \in 1 .. n
        BY <1>1
    <2>1. PICK c \in Starts(s) : c \in 1 .. n + 1 /\ c <= i /\ \A j \in c .. i : j # i => s[j] # Dot
        BY Zenon, <1>4, <2>0
    <2> DEFINE k == i + MaxLabel + 1
    <2>2. k \in c .. n + 1 /\ \A j \in c .. k : j # k => (j \in c .. i /\ j # i) \/ j \in i .. i + MaxLabel
        BY <1>1, <2>0, <2>1
    <2>3. \A j \in c .. k : j # k => s[j] # Dot
        BY Zenon, <2>1, <2>2
    <2>4. EndOf(s, c) >= k /\ EndOf(s, c) \in c .. n + 1
        <3> HIDE DEF k
        <3> QED BY Zenon, <2>1, <2>2, <2>3, EdgeEnds, EndIs DEF n
    <2>5. EndOf(s, c) - c <= MaxLabel
        BY Zenon, <1>2 DEF GoodAt
    <2> QED BY <1>1, <2>0, <2>1, <2>4, <2>5
<1>8. ASSUME NEW i \in 1 .. n + 1, Edge(s, i - 1) PROVE ~Edge(s, i)
    <2>1. i \in Starts(s)
        BY Zenon, <1>8, EdgeStarts DEF n
    <2>2. i < EndOf(s, i)
        BY Zenon, <1>2, <2>1 DEF GoodAt
    <2>3. i \in i .. n + 1 /\ \A j \in i .. i : j = i
        BY <1>1
    <2>4. Edge(s, i) => EndOf(s, i) = i
        BY Zenon, <2>3, EdgeEnds DEF n
    <2> QED BY <1>1, <2>2, <2>4
<1>9. ASSUME NEW i \in 1 .. n, s[i] = Dash PROVE ~Edge(s, i - 1)
    <2> SUFFICES ASSUME Edge(s, i - 1) PROVE FALSE
        BY Zenon
    <2>0. i \in 1 .. n + 1
        BY <1>1
    <2>1. i \in Starts(s)
        BY Zenon, <2>0, EdgeStarts DEF n
    <2>2. i < EndOf(s, i) /\ EndOf(s, i) \in i .. n + 1
        BY Zenon, <1>2, <2>0, <2>1, EndIs DEF GoodAt, n
    <2>3. i \in i .. EndOf(s, i) - 1
        BY <1>1, <2>2
    <2> QED BY Zenon, <1>2, <1>5, <1>9, <2>1, <2>3 DEF GoodAt
<1>10. ASSUME NEW i \in 1 .. n, s[i] = Dash PROVE ~Edge(s, i + 1)
    <2> SUFFICES ASSUME Edge(s, i + 1) PROVE FALSE
        BY Zenon
    <2>1. PICK c \in Starts(s) : c \in 1 .. n + 1 /\ c <= i /\ \A j \in c .. i : j # i => s[j] # Dot
        BY Zenon, <1>4
    <2> DEFINE k == i + 1
    <2>2. k \in c .. n + 1 /\ \A j \in c .. k : j # k => (j \in c .. i /\ j # i) \/ j = i
        BY <1>1, <2>1
    <2>3. \A j \in c .. k : j # k => s[j] # Dot
        BY Zenon, <1>5, <1>10, <2>1, <2>2
    <2>4. EndOf(s, c) = k
        <3>1. Edge(s, k)
            BY Zenon
        <3> HIDE DEF k
        <3> QED BY Zenon, <2>1, <2>2, <2>3, <3>1, EdgeEnds DEF n
    <2>5. i \in c .. EndOf(s, c) - 1 /\ i = EndOf(s, c) - 1
        BY <1>1, <2>1, <2>4
    <2> QED BY Zenon, <1>2, <1>5, <1>10, <2>5 DEF GoodAt
<1> QED BY Zenon, <1>3, <1>6, <1>7, <1>8, <1>9, <1>10, LDHIs DEF n

\* It accepts all of them.
LEMMA LDHIsValid ==
    ASSUME NEW X, NEW s \in Seq(X), LDH(s)
    PROVE  isValidDNSName(s)
<1> DEFINE n == Len(s)
<1>1. n \in Nat /\ MaxLabel \in Nat /\ MaxName \in Nat
    BY ValidityAssumption
<1>2. /\ n \in 1 .. MaxName
      /\ \A i \in 1 .. n : s[i] \in Lower \cup Upper \cup {Dot, Dash}
      /\ \A i \in 1 .. n - MaxLabel : \E j \in i .. i + MaxLabel : s[j] = Dot
      /\ \A i \in 1 .. n + 1 : ~(Edge(s, i - 1) /\ Edge(s, i))
      /\ \A i \in 1 .. n : s[i] = Dash => ~Edge(s, i - 1) /\ ~Edge(s, i + 1)
    BY Zenon, LDHIs
<1>3. s # <<>> /\ n <= MaxName
    BY <1>1, <1>2
<1> HIDE DEF n
<1>4. ASSUME NEW b \in Starts(s) PROVE GoodAt(s, b)
    <2> DEFINE e == EndOf(s, b)
    <2>1. b \in 1 .. n + 1 /\ Edge(s, b - 1) /\ ~Edge(s, b)
        BY Zenon, <1>2, StartsType, EdgeStarts DEF n
    <2>2. e \in b .. n + 1 /\ (e # n + 1 => s[e] = Dot) /\ \A j \in b .. e - 1 : s[j] # Dot
        BY Zenon, <2>1, EndIs DEF n
    <2>3. Edge(s, e)
        BY Zenon, <2>2 DEF Edge, n
    <2> HIDE DEF e
    <2>4. b < e
        <3>1. b # e
            BY Zenon, <2>1, <2>3
        <3> QED BY <1>1, <2>1, <2>2, <3>1
    <2>5. e - b <= MaxLabel
        <3> SUFFICES ASSUME ~(e - b <= MaxLabel) PROVE FALSE
            BY Zenon
        <3>1. b \in 1 .. n - MaxLabel /\ \A j \in b .. b + MaxLabel : j \in b .. e - 1
            BY <1>1, <2>1, <2>2
        <3> QED BY Zenon, <1>2, <2>2, <3>1
    <2>6. ASSUME NEW i \in b .. e - 1
          PROVE  s[i] \in Lower \cup Upper \/ (s[i] = Dash /\ i # b /\ i # e - 1)
        <3>1. i \in 1 .. n /\ (i = e - 1 => i + 1 = e)
            BY <1>1, <2>1, <2>2
        <3>2. s[i] # Dot /\ s[i] \in Lower \cup Upper \cup {Dot, Dash}
            BY Zenon, <1>2, <2>2, <3>1
        <3>3. s[i] = Dash => i # b /\ i # e - 1
            BY Zenon, <1>2, <2>1, <2>3, <3>1
        <3> QED BY Zenon, <3>2, <3>3
    <2> QED BY Zenon, <2>4, <2>5, <2>6 DEF GoodAt, e
<1> QED BY Zenon, <1>3, <1>4, ValidIs DEF n

\* isValidDNSName is the letter-digit-hyphen rule.
LEMMA ValidExactly ==
    ASSUME NEW X, NEW s \in Seq(X)
    PROVE  isValidDNSName(s) <=> LDH(s)
BY Zenon, ValidIsLDH, LDHIsValid

\* The names among the first k, in a set S, that become DNS names, and the
\* addresses.
NamesUpTo(names, k) == {names[i] : i \in 1 .. k}
DNSOf(S) == {n \in S : ~IsIP(n) /\ isValidDNSName(n)}
IPsOf(S) == {IPOf[n] : n \in {n \in S : IsIP(n)}}

\* The SANs collected from a set S of names.
Collected(sans, S) == Range(sans.dns) = DNSOf(S) /\ Range(sans.ips) = IPsOf(S)

\* SANs: lists of names and of addresses.
SANs(X) == [dns : Seq(Seq(X)), ips : Seq({IPOf[n] : n \in DOMAIN IPOf})]

\* What a list ends with is one more element.
Appended(X, s, x) == Append(s, x) \in Seq(X) /\ Range(Append(s, x)) = Range(s) \cup {x}

\* It is.
LEMMA AppendRange ==
    ASSUME NEW X, NEW s \in Seq(X), NEW x \in X
    PROVE  Appended(X, s, x)
<1> DEFINE n == Len(s)
           t == Append(s, x)
<1>1. /\ n \in Nat /\ t \in Seq(X) /\ DOMAIN s = 1 .. n /\ DOMAIN t = 1 .. n + 1
      /\ t[n + 1] = x /\ \A i \in 1 .. n : t[i] = s[i]
    OBVIOUS
<1>2. \A i \in 1 .. n + 1 : i \in 1 .. n \/ i = n + 1
    BY <1>1
<1>3. n + 1 \in 1 .. n + 1 /\ \A i \in 1 .. n : i \in 1 .. n + 1
    BY <1>1
<1> HIDE DEF n, t
<1>4. Range(t) = Range(s) \cup {x}
    BY Zenon, <1>1, <1>2, <1>3 DEF Range
<1> QED BY Zenon, <1>1, <1>4 DEF t, Appended

\* One turn of the loop of SelfCert.
Adds(X, sans, n) ==
    /\ addSAN(sans, n) \in SANs(X)
    /\ \A S : Collected(sans, S) => Collected(addSAN(sans, n), S \cup {n})

\* It adds what the name stands for.
LEMMA AddIsOne ==
    ASSUME NEW X, NEW sans \in SANs(X), NEW n \in Seq(X)
    PROVE  Adds(X, sans, n)
<1> DEFINE Q == {IPOf[m] : m \in DOMAIN IPOf}
<1>1. /\ sans.dns \in Seq(Seq(X)) /\ sans.ips \in Seq(Q)
      /\ sans = [dns |-> sans.dns, ips |-> sans.ips]
    <2> HIDE DEF Q
    <2>1. SANs(X) = [dns : Seq(Seq(X)), ips : Seq(Q)]
        BY Zenon DEF SANs, Q
    <2> QED BY <2>1
<1>2. ASSUME NEW d \in Seq(Seq(X)), NEW p \in Seq(Q)
      PROVE  [dns |-> d, ips |-> p] \in SANs(X) /\ [dns |-> d, ips |-> p].dns = d /\ [dns |-> d, ips |-> p].ips = p
    <2> HIDE DEF Q
    <2>1. SANs(X) = [dns : Seq(Seq(X)), ips : Seq(Q)]
        BY Zenon DEF SANs, Q
    <2> QED BY <2>1
<1>3. CASE IsIP(n)
    <2> DEFINE r == [dns |-> sans.dns, ips |-> Append(sans.ips, IPOf[n])]
    <2>1. addSAN(sans, n) = r
        <3>1. addSAN(sans, n) = [sans EXCEPT !.ips = Append(sans.ips, IPOf[n])]
            BY Zenon, <1>3 DEF addSAN
        <3> QED BY Zenon, <1>1, <3>1
    <2>2. IPOf[n] \in Q
        BY Zenon, <1>3 DEF IsIP
    <2>3. Append(sans.ips, IPOf[n]) \in Seq(Q) /\ Range(Append(sans.ips, IPOf[n])) = Range(sans.ips) \cup {IPOf[n]}
        <3> HIDE DEF Q
        <3>1. Appended(Q, sans.ips, IPOf[n])
            BY Zenon, <1>1, <2>2, AppendRange
        <3> QED BY Zenon, <3>1 DEF Appended
    <2> HIDE DEF Q
    <2>4. r \in SANs(X) /\ r.dns = sans.dns /\ r.ips = Append(sans.ips, IPOf[n])
        BY Zenon, <1>1, <1>2, <2>3
    <2> HIDE DEF r
    <2>5. \A S : DNSOf(S \cup {n}) = DNSOf(S) /\ IPsOf(S \cup {n}) = IPsOf(S) \cup {IPOf[n]}
        BY Zenon, <1>3 DEF DNSOf, IPsOf
    <2> QED BY Zenon, <2>1, <2>3, <2>4, <2>5 DEF Collected, Adds
<1>4. CASE ~IsIP(n) /\ isValidDNSName(n)
    <2> DEFINE r == [dns |-> Append(sans.dns, n), ips |-> sans.ips]
    <2>1. addSAN(sans, n) = r
        <3>1. addSAN(sans, n) = [sans EXCEPT !.dns = Append(sans.dns, n)]
            BY Zenon, <1>4 DEF addSAN
        <3> QED BY Zenon, <1>1, <3>1
    <2>3. Append(sans.dns, n) \in Seq(Seq(X)) /\ Range(Append(sans.dns, n)) = Range(sans.dns) \cup {n}
        <3>1. Appended(Seq(X), sans.dns, n)
            BY Zenon, <1>1, AppendRange
        <3> QED BY Zenon, <3>1 DEF Appended
    <2> HIDE DEF Q
    <2>4. r \in SANs(X) /\ r.ips = sans.ips /\ r.dns = Append(sans.dns, n)
        BY Zenon, <1>1, <1>2, <2>3
    <2> HIDE DEF r
    <2>5. \A S : DNSOf(S \cup {n}) = DNSOf(S) \cup {n} /\ IPsOf(S \cup {n}) = IPsOf(S)
        BY Zenon, <1>4 DEF DNSOf, IPsOf
    <2> QED BY Zenon, <2>1, <2>3, <2>4, <2>5 DEF Collected, Adds
<1>5. CASE ~IsIP(n) /\ ~isValidDNSName(n)
    <2>1. addSAN(sans, n) = sans
        BY Zenon, <1>5 DEF addSAN
    <2>2. \A S : DNSOf(S \cup {n}) = DNSOf(S) /\ IPsOf(S \cup {n}) = IPsOf(S)
        BY Zenon, <1>5 DEF DNSOf, IPsOf
    <2> QED BY Zenon, <2>1, <2>2 DEF Collected, Adds
<1> QED BY Zenon, <1>3, <1>4, <1>5

\* The SANs SelfCert collects: exactly the valid names and the addresses.
LEMMA SANsAre ==
    ASSUME NEW X, NEW names \in Seq(Seq(X))
    PROVE  SANsOf(names) \in SANs(X) /\ Collected(SANsOf(names), Range(names))
<1> DEFINE N == Len(names)
           S == SANs(X)
           none == [dns |-> <<>>, ips |-> <<>>]
           R(u) == [k \in 0 .. N |-> IF k = 0 THEN none ELSE addSAN(u[k - 1], names[k])]
           f == [p \in (1 .. N) \X S |-> addSAN(p[2], names[p[1]])]
<1>1. N \in Nat /\ DOMAIN names = 1 .. N /\ \A k \in 1 .. N : names[k] \in Seq(X)
    BY Zenon, SeqIs
<1>2. none \in S /\ Collected(none, {})
    <2>1. \A Y, Z : <<>> \in Seq(Y) /\ <<>> \in Seq(Z) /\ Range(<<>>) = {}
        BY DEF Range
    <2>2. none.dns = <<>> /\ none.ips = <<>>
        OBVIOUS
    <2>3. none \in S
        BY DEF SANs
    <2>4. DNSOf({}) = {} /\ IPsOf({}) = {}
        BY Zenon DEF DNSOf, IPsOf
    <2> QED BY Zenon, <2>1, <2>2, <2>3, <2>4 DEF Collected
<1>3. \A s \in S, n \in Seq(X) : addSAN(s, n) \in S
    BY Zenon, AddIsOne DEF Adds
<1> HIDE DEF N, S, none
<1>4. f \in [(1 .. N) \X S -> S]
    <2>1. \A p \in (1 .. N) \X S : p[1] \in 1 .. N /\ p[2] \in S
        OBVIOUS
    <2> QED BY Zenon, <1>1, <1>3, <2>1
<1>5. \A k \in 1 .. N, s \in S : f[<<k, s>>] = addSAN(s, names[k])
    <2> TAKE k \in 1 .. N, s \in S
    <2>1. <<k, s>> \in (1 .. N) \X S /\ <<k, s>>[2] = s /\ <<k, s>>[1] = k
        OBVIOUS
    <2> QED BY Zenon, <2>1
<1> HIDE DEF f
<1>6. PICK g : Built(S, none, N, f, g)
    BY Zenon, <1>1, <1>2, <1>4, Builds
<1>7. g = R(g)
    <2>1. g \in [0 .. N -> S]
        BY Zenon, <1>6 DEF Built
    <2>2. ASSUME NEW k \in 0 .. N PROVE g[k] = IF k = 0 THEN none ELSE addSAN(g[k - 1], names[k])
        <3>1. CASE k = 0
            BY Zenon, <1>6, <3>1 DEF Built
        <3>2. CASE k # 0
            <4>1. k \in 1 .. N /\ k - 1 \in 0 .. N
                BY <1>1, <3>2
            <4>2. g[k - 1] \in S
                BY Zenon, <2>1, <4>1
            <4> QED BY Zenon, <1>5, <1>6, <3>2, <4>1, <4>2 DEF Built
        <3> QED BY Zenon, <3>1, <3>2
    <2> QED BY Zenon, <2>1, <2>2
<1>8. PICK u : u = R(u) /\ SANsOf(names) = u[N]
    BY Zenon, <1>7 DEF SANsOf, N, none
<1>9. u[0] = none /\ \A k \in 1 .. N : u[k] = addSAN(u[k - 1], names[k])
    <2>1. 0 \in 0 .. N /\ \A k \in 1 .. N : k \in 0 .. N /\ k # 0
        BY <1>1
    <2> QED BY Zenon, <1>8, <2>1
<1> DEFINE G == {k \in 0 .. N : u[k] \in S /\ Collected(u[k], NamesUpTo(names, k))}
<1>10. 0 \in G
    <2>1. 0 \in 0 .. N /\ 1 .. 0 = {}
        BY <1>1
    <2>2. NamesUpTo(names, 0) = {}
        BY Zenon, <2>1 DEF NamesUpTo
    <2> QED BY Zenon, <1>2, <1>9, <2>1, <2>2
<1>11. ASSUME NEW k \in 1 .. N, k - 1 \in G PROVE k \in G
    <2>1. k \in 0 .. N /\ k \in 1 .. k /\ \A i \in 1 .. k : i \in 1 .. k - 1 \/ i = k
        BY <1>1
    <2>2. \A i \in 1 .. k - 1 : i \in 1 .. k
        BY <1>1
    <2>3. NamesUpTo(names, k) = NamesUpTo(names, k - 1) \cup {names[k]}
        BY Zenon, <2>1, <2>2 DEF NamesUpTo
    <2>4. u[k - 1] \in S /\ Collected(u[k - 1], NamesUpTo(names, k - 1))
        BY Zenon, <1>11
    <2>5. Adds(X, u[k - 1], names[k])
        BY Zenon, <1>1, <2>4, AddIsOne DEF S
    <2>6. addSAN(u[k - 1], names[k]) \in S /\ Collected(addSAN(u[k - 1], names[k]), NamesUpTo(names, k - 1) \cup {names[k]})
        BY Zenon, <2>4, <2>5 DEF Adds, S
    <2>7. u[k] = addSAN(u[k - 1], names[k])
        BY Zenon, <1>9
    <2>8. u[k] \in S /\ Collected(u[k], NamesUpTo(names, k))
        BY Zenon, <2>3, <2>6, <2>7
    <2> QED BY Zenon, <2>1, <2>8
<1>12. N \in G
    <2>1. N \in 0 .. N
        BY <1>1
    <2> HIDE DEF G
    <2> QED BY Zenon, <1>1, <1>10, <1>11, <2>1, Counting
<1>13. NamesUpTo(names, N) = Range(names)
    BY Zenon, <1>1 DEF NamesUpTo, Range
<1>14. u[N] \in S /\ Collected(u[N], Range(names))
    BY Zenon, <1>12, <1>13
<1> QED BY Zenon, <1>8, <1>14 DEF S

\* A name after its NUL.
Marked(x) == <<Nul>> \o x

\* t is u followed by v.
Follows(u, v, t) ==
    /\ Len(t) = Len(u) + Len(v) /\ (\A i \in 1 .. Len(u) : t[i] = u[i])
    /\ \A i \in 1 .. Len(v) : t[Len(u) + i] = v[i]

\* Concatenation does that.
LEMMA FollowsIs ==
    ASSUME NEW X, NEW u \in Seq(X), NEW v \in Seq(X)
    PROVE  u \o v \in Seq(X) /\ Follows(u, v, u \o v)
BY DEF Follows

\* What follows the same prefix is the same.
Same(a, b) == a = b

\* It is.
LEMMA SameRest ==
    ASSUME NEW X, NEW p \in Seq(X), NEW u \in Seq(X), NEW v \in Seq(X), p \o u = p \o v
    PROVE  Same(u, v)
<1> DEFINE t == p \o u
<1>1. Follows(p, u, t) /\ Follows(p, v, t) /\ Len(p) \in Nat /\ Len(u) \in Nat /\ Len(v) \in Nat
    <2>1. Len(p) \in Nat /\ Len(u) \in Nat /\ Len(v) \in Nat
        OBVIOUS
    <2> QED BY Zenon, <2>1, FollowsIs
<1> HIDE DEF t
<1>2. Len(t) = Len(p) + Len(u) /\ Len(t) = Len(p) + Len(v)
    BY Zenon, <1>1 DEF Follows
<1>3. Len(u) = Len(v)
    BY <1>1, <1>2
<1>4. \A i \in 1 .. Len(u) : u[i] = v[i]
    BY Zenon, <1>1, <1>3 DEF Follows
<1>5. u = v
    BY Zenon, <1>3, <1>4, SameSeq
<1> QED BY Zenon, <1>5 DEF Same

\* s is P of length p, a NUL and x of length k.
Splits(s, P, p, x, k) ==
    /\ Len(s) = p + k + 1 /\ s[p + 1] = Nul /\ (\A i \in 1 .. p : s[i] = P[i])
    /\ \A i \in 1 .. k : s[p + 1 + i] = x[i]

\* Where the NUL and the name are in a text that ends with them.
LEMMA MarkedAt ==
    ASSUME NEW P, NEW m, NEW x, NEW s, Follows(P, m, s), NEW p \in Nat, NEW k \in Nat, Len(P) = p,
           Len(m) = k + 1, m[1] = Nul, \A i \in 1 .. k : m[i + 1] = x[i]
    PROVE  Splits(s, P, p, x, k)
<1>1. /\ Len(s) = p + (k + 1) /\ (\A i \in 1 .. p : s[i] = P[i])
      /\ \A i \in 1 .. k + 1 : s[p + i] = m[i]
    BY Zenon DEF Follows
<1>2. p + (k + 1) = p + k + 1 /\ 1 \in 1 .. k + 1
    OBVIOUS
<1>3. \A i \in 1 .. k : i + 1 \in 1 .. k + 1 /\ p + (i + 1) = p + 1 + i
    OBVIOUS
<1> QED BY Zenon, <1>1, <1>2, <1>3 DEF Splits

\* The last NUL of a text tells where the last name starts.
LEMMA MarkedUnique ==
    ASSUME NEW X, NEW P \in Seq(X), NEW Q \in Seq(X), NEW x \in Seq(X \ {Nul}), NEW y \in Seq(X \ {Nul}),
           Nul \in X, P \o Marked(x) = Q \o Marked(y)
    PROVE  Same(P, Q) /\ Same(x, y)
<1> DEFINE s == P \o Marked(x)
           p == Len(P)
           q == Len(Q)
           k == Len(x)
           l == Len(y)
<1>1. /\ p \in Nat /\ q \in Nat /\ k \in Nat /\ l \in Nat /\ x \in Seq(X) /\ y \in Seq(X)
      /\ (\A i \in 1 .. k : x[i] # Nul) /\ \A i \in 1 .. l : y[i] # Nul
    OBVIOUS
<1>2. /\ Marked(x) \in Seq(X) /\ Len(Marked(x)) = k + 1 /\ Marked(x)[1] = Nul
      /\ \A i \in 1 .. k : Marked(x)[i + 1] = x[i]
    BY <1>1 DEF Marked
<1>3. /\ Marked(y) \in Seq(X) /\ Len(Marked(y)) = l + 1 /\ Marked(y)[1] = Nul
      /\ \A i \in 1 .. l : Marked(y)[i + 1] = y[i]
    BY <1>1 DEF Marked
<1>4. /\ Len(s) = p + k + 1 /\ s[p + 1] = Nul /\ (\A i \in 1 .. p : s[i] = P[i])
      /\ \A i \in 1 .. k : s[p + 1 + i] = x[i]
    <2> DEFINE m == Marked(x)
    <2>1. m \in Seq(X) /\ Len(m) = k + 1 /\ m[1] = Nul /\ \A i \in 1 .. k : m[i + 1] = x[i]
        BY Zenon, <1>2
    <2>2. Follows(P, m, s)
        BY Zenon, <2>1, FollowsIs
    <2>3. Len(P) = p
        OBVIOUS
    <2> HIDE DEF m, s, p, k
    <2>4. Splits(s, P, p, x, k)
        BY Zenon, <1>1, <2>1, <2>2, <2>3, MarkedAt
    <2> QED BY Zenon, <2>4 DEF Splits
<1>5. /\ Len(s) = q + l + 1 /\ s[q + 1] = Nul /\ (\A i \in 1 .. q : s[i] = Q[i])
      /\ \A i \in 1 .. l : s[q + 1 + i] = y[i]
    <2> DEFINE m == Marked(y)
    <2>1. m \in Seq(X) /\ Len(m) = l + 1 /\ m[1] = Nul /\ \A i \in 1 .. l : m[i + 1] = y[i]
        BY Zenon, <1>3
    <2>2. Follows(Q, m, Q \o m)
        BY Zenon, <2>1, FollowsIs
    <2>3. Follows(Q, m, s)
        BY Zenon, <2>2
    <2>4. Len(Q) = q
        OBVIOUS
    <2> HIDE DEF m, s, q, l
    <2>5. Splits(s, Q, q, y, l)
        BY Zenon, <1>1, <2>1, <2>3, <2>4, MarkedAt
    <2> QED BY Zenon, <2>5 DEF Splits
<1> HIDE DEF s, p, q, k, l
<1>6. ~(p < q)
    <2> SUFFICES ASSUME p < q PROVE FALSE
        BY Zenon
    <2>1. q - p \in 1 .. k /\ p + 1 + (q - p) = q + 1
        BY <1>1, <1>4, <1>5
    <2>2. s[p + 1 + (q - p)] = x[q - p] /\ x[q - p] # Nul
        BY Zenon, <1>1, <1>4, <2>1
    <2> QED BY Zenon, <1>5, <2>1, <2>2
<1>7. ~(q < p)
    <2> SUFFICES ASSUME q < p PROVE FALSE
        BY Zenon
    <2>1. p - q \in 1 .. l /\ q + 1 + (p - q) = p + 1
        BY <1>1, <1>4, <1>5
    <2>2. s[q + 1 + (p - q)] = y[p - q] /\ y[p - q] # Nul
        BY Zenon, <1>1, <1>5, <2>1
    <2> QED BY Zenon, <1>4, <2>1, <2>2
<1>8. p = q /\ k = l
    BY <1>1, <1>4, <1>5, <1>6, <1>7
<1>9. P = Q
    BY Zenon, <1>4, <1>5, <1>8, SameSeq DEF p, q
<1>10. x = y
    <2>1. \A i \in 1 .. k : s[p + 1 + i] = y[i]
        BY Zenon, <1>5, <1>8
    <2>2. \A i \in 1 .. k : x[i] = y[i]
        BY Zenon, <1>4, <2>1
    <2> QED BY Zenon, <1>1, <1>8, <2>2, SameSeq DEF k, l
<1> QED BY Zenon, <1>9, <1>10 DEF Same

\* What selfCertIdentityHash writes for the first i names.
Writes(X, names, g) ==
    /\ g \in [0 .. Len(names) -> Seq(X)] /\ g[0] = <<>>
    /\ selfCertIdentityHash(names) = <<"self">> \o g[Len(names)]
    /\ \A i \in 1 .. Len(names) : g[i] = g[i - 1] \o Marked(names[i])

\* selfCertIdentityHash, unfolded.
LEMMA HashIs ==
    ASSUME NEW X, Nul \in X, NEW names \in Seq(Seq(X))
    PROVE  \E g : Writes(X, names, g)
<1> DEFINE N == Len(names)
           ss == [i \in DOMAIN names |-> Marked(names[i])]
<1>1. N \in Nat /\ DOMAIN names = 1 .. N /\ \A i \in 1 .. N : names[i] \in Seq(X)
    BY Zenon, SeqIs
<1>2. \A x \in Seq(X) : Marked(x) \in Seq(X)
    BY DEF Marked
<1>3. ss \in [1 .. N -> Seq(X)] /\ \A i \in 1 .. N : ss[i] = Marked(names[i])
    BY Zenon, <1>1, <1>2
<1>4. selfCertIdentityHash(names) = <<"self">> \o Concat(ss)
    BY Zenon DEF selfCertIdentityHash, Marked
<1> HIDE DEF ss, N
<1>5. ss \in Seq(Seq(X)) /\ Len(ss) = N
    BY Zenon, <1>1, <1>3, Numbered
<1>6. PICK g : Concats(X, ss, g)
    BY Zenon, <1>5, ConcatIs
<1>7. /\ g \in [0 .. N -> Seq(X)] /\ g[0] = <<>> /\ Concat(ss) = g[N]
      /\ \A i \in 1 .. N : g[i] = g[i - 1] \o ss[i]
    BY Zenon, <1>5, <1>6 DEF Concats
<1>8. Writes(X, names, g)
    BY Zenon, <1>3, <1>4, <1>7 DEF Writes, N
<1> QED BY Zenon, <1>8

\* Different lists of names have different identities: no list of names without
\* NULs is hashed like another.
LEMMA HashInjective ==
    ASSUME NEW X, Nul \in X, NEW a \in Seq(Seq(X \ {Nul})), NEW b \in Seq(Seq(X \ {Nul})),
           selfCertIdentityHash(a) = selfCertIdentityHash(b)
    PROVE  a = b
<1> DEFINE N == Len(a)
           M == Len(b)
           Z == X \ {Nul}
<1>1. /\ N \in Nat /\ M \in Nat /\ a \in Seq(Seq(X)) /\ b \in Seq(Seq(X))
      /\ (\A i \in 1 .. N : a[i] \in Seq(Z)) /\ \A i \in 1 .. M : b[i] \in Seq(Z)
    <2>1. \A s \in Seq(Z) : s \in Seq(X)
        OBVIOUS
    <2>2. N \in Nat /\ M \in Nat /\ (\A i \in 1 .. N : a[i] \in Seq(Z)) /\ (\A i \in 1 .. M : b[i] \in Seq(Z))
          /\ a \in [1 .. N -> Seq(Z)] /\ b \in [1 .. M -> Seq(Z)]
        BY Zenon, SeqIs
    <2> HIDE DEF N, M, Z
    <2>3. a \in [1 .. N -> Seq(X)] /\ b \in [1 .. M -> Seq(X)]
        BY Zenon, <2>1, <2>2
    <2>4. a \in Seq(Seq(X)) /\ b \in Seq(Seq(X))
        BY Zenon, <2>2, <2>3, Numbered
    <2> QED BY Zenon, <2>2, <2>4
<1>2. PICK g : Writes(X, a, g)
    BY Zenon, <1>1, HashIs
<1>3. PICK h : Writes(X, b, h)
    BY Zenon, <1>1, HashIs
<1>4. /\ g \in [0 .. N -> Seq(X)] /\ g[0] = <<>> /\ selfCertIdentityHash(a) = <<"self">> \o g[N]
      /\ \A i \in 1 .. N : g[i] = g[i - 1] \o Marked(a[i])
    BY Zenon, <1>2 DEF Writes
<1>5. /\ h \in [0 .. M -> Seq(X)] /\ h[0] = <<>> /\ selfCertIdentityHash(b) = <<"self">> \o h[M]
      /\ \A i \in 1 .. M : h[i] = h[i - 1] \o Marked(b[i])
    BY Zenon, <1>3 DEF Writes
<1> HIDE DEF N, M, Z
<1>6. g[N] = h[M]
    <2> DEFINE Y == X \cup {"self"}
    <2>1. g[N] \in Seq(X) /\ h[M] \in Seq(X) /\ <<"self">> \o g[N] = <<"self">> \o h[M]
        <3>1. N \in 0 .. N /\ M \in 0 .. M
            BY <1>1
        <3> QED BY Zenon, <1>4, <1>5, <3>1
    <2>2. <<"self">> \in Seq(Y) /\ \A t \in Seq(X) : t \in Seq(Y)
        OBVIOUS
    <2> HIDE DEF Y
    <2>3. Same(g[N], h[M])
        BY Zenon, <2>1, <2>2, SameRest
    <2> QED BY Zenon, <2>3 DEF Same
<1>7. \A P \in Seq(X), x \in Seq(X) : P \o Marked(x) # <<>>
    BY DEF Marked
<1>8. \A x \in Seq(Z) : x \in Seq(X)
    BY DEF Z
<1> DEFINE E(j) == /\ j <= M /\ g[N - j] = h[M - j]
                   /\ \A i \in 0 .. j - 1 : a[N - i] = b[M - i]
           G == {j \in 0 .. N : E(j)}
<1>9. 0 \in G
    <2>1. 0 \in 0 .. N /\ 0 <= M /\ N - 0 = N /\ M - 0 = M /\ 0 .. 0 - 1 = {}
        BY <1>1
    <2> QED BY Zenon, <1>6, <2>1
<1>10. ASSUME NEW j \in 1 .. N, j - 1 \in G PROVE j \in G
    <2> DEFINE c == N - (j - 1)
               d == M - (j - 1)
    <2>1. j - 1 <= M /\ g[c] = h[d] /\ \A i \in 0 .. (j - 1) - 1 : a[N - i] = b[M - i]
        BY Zenon, <1>10
    <2>2. c \in 1 .. N /\ c - 1 = N - j /\ c - 1 \in 0 .. N /\ j \in 0 .. N
        BY <1>1
    <2>3. g[c] = g[c - 1] \o Marked(a[c]) /\ g[c - 1] \in Seq(X) /\ a[c] \in Seq(Z)
        BY Zenon, <1>1, <1>4, <2>2
    <2>4. d # 0
        <3>1. g[c] # <<>>
            BY Zenon, <1>7, <1>8, <2>3
        <3> QED BY Zenon, <1>5, <2>1, <3>1
    <2>5. d \in 1 .. M /\ d - 1 = M - j /\ d - 1 \in 0 .. M /\ j <= M
        BY <1>1, <2>1, <2>4
    <2>6. h[d] = h[d - 1] \o Marked(b[d]) /\ h[d - 1] \in Seq(X) /\ b[d] \in Seq(Z)
        BY Zenon, <1>1, <1>5, <2>5
    <2>7. g[c - 1] = h[d - 1] /\ a[c] = b[d]
        <3>1. g[c - 1] \o Marked(a[c]) = h[d - 1] \o Marked(b[d])
            BY Zenon, <2>1, <2>3, <2>6
        <3> HIDE DEF c, d
        <3>2. Same(g[c - 1], h[d - 1]) /\ Same(a[c], b[d])
            BY Zenon, <2>3, <2>6, <3>1, MarkedUnique DEF Z
        <3> QED BY Zenon, <3>2 DEF Same
    <2>8. \A i \in 0 .. j - 1 : i \in 0 .. (j - 1) - 1 \/ i = j - 1
        BY <1>1
    <2>9. \A i \in 0 .. j - 1 : a[N - i] = b[M - i]
        BY Zenon, <2>1, <2>7, <2>8
    <2>10. g[N - j] = h[M - j]
        BY Zenon, <2>2, <2>5, <2>7
    <2> QED BY Zenon, <2>2, <2>5, <2>9, <2>10
<1>11. E(N)
    <2>1. N \in 0 .. N
        BY <1>1
    <2> HIDE DEF E
    <2> QED BY Zenon, <1>1, <1>9, <1>10, <2>1, Counting
<1>12. N = M
    <2> SUFFICES ASSUME N # M PROVE FALSE
        BY Zenon
    <2>1. N - N = 0 /\ M - N \in 1 .. M /\ (M - N) - 1 \in 0 .. M
        BY <1>1, <1>11
    <2>2. h[M - N] = h[(M - N) - 1] \o Marked(b[M - N]) /\ h[(M - N) - 1] \in Seq(X) /\ b[M - N] \in Seq(X)
        BY Zenon, <1>1, <1>5, <1>8, <2>1
    <2>3. h[M - N] = <<>>
        BY Zenon, <1>4, <1>11, <2>1
    <2> QED BY Zenon, <1>7, <2>2, <2>3
<1>13. ASSUME NEW i \in 1 .. N PROVE a[i] = b[i]
    <2>1. N - i \in 0 .. N - 1 /\ N - (N - i) = i /\ M - (N - i) = i
        BY <1>1, <1>12
    <2> QED BY Zenon, <1>11, <2>1
<1> QED BY Zenon, <1>1, <1>12, <1>13, SameSeq DEF N, M

\* The certificate SelfCert mints for some names.
LEMMA MintIs ==
    ASSUME NEW X, NEW names \in Seq(Seq(X)), NEW now \in Nat, NEW caEnd \in Nat
    PROVE  LET c == MintSelf(names, now, caEnd) IN
           /\ c.cn = names[1] /\ c.serial = selfCertIdentityHash(names) /\ c.key = Rekeyed(c)
           /\ Range(c.dns) = DNSOf(Range(names)) /\ Range(c.ips) = IPsOf(Range(names))
           /\ c.notAfter <= caEnd
<1> DEFINE c == MintSelf(names, now, caEnd)
           sans == SANsOf(names)
           end == IF now + SelfValidity > caEnd THEN caEnd ELSE now + SelfValidity
           id == selfCertIdentityHash(names)
           key == LeafKey(tagSANs(sans.dns, sans.ips))
<1>1. c = [cn |-> names[1], dns |-> sans.dns, ips |-> sans.ips, serial |-> id, key |-> key, notAfter |-> end]
    BY Zenon DEF MintSelf
<1>2. Range(sans.dns) = DNSOf(Range(names)) /\ Range(sans.ips) = IPsOf(Range(names))
    BY Zenon, SANsAre DEF Collected
<1>3. end <= caEnd
    BY ValidityAssumption
<1> HIDE DEF c, sans, end, id
<1>4. /\ c.cn = names[1] /\ c.dns = sans.dns /\ c.ips = sans.ips /\ c.serial = id /\ c.notAfter = end
      /\ c.key = key
    <2> HIDE DEF key
    <2> QED BY <1>1
<1>5. c.key = Rekeyed(c)
    BY Zenon, <1>4 DEF Rekeyed
<1> QED BY Zenon, <1>2, <1>3, <1>4, <1>5 DEF c, id

\* The first start finds nothing in the cache.
LEMMA FirstStart ==
    ASSUME NEW names, NEW caEnd
    PROVE  LET id == selfCertIdentityHash(names)
               c == MintSelf(names, 0, caEnd)
           IN SelfCert(<<>>, names, 0, caEnd) = [cert |-> c, key |-> c.key, cache |-> [i \in {id} |-> c]]
<1> DEFINE id == selfCertIdentityHash(names)
           c == MintSelf(names, 0, caEnd)
           cache == [i \in DOMAIN <<>> \cup {id} |-> IF i = id THEN c ELSE (<<>>)[i]]
<1>1. DOMAIN <<>> = {}
    OBVIOUS
<1>2. SelfCert(<<>>, names, 0, caEnd) = [cert |-> c, key |-> c.key, cache |-> cache]
    BY Zenon, <1>1 DEF SelfCert
<1> HIDE DEF id, c
<1>3. cache = [i \in {id} |-> c]
    BY <1>1
<1> QED BY Zenon, <1>2, <1>3 DEF id, c

\* A later start: the stored certificate for the same names, else a new one.
Restarted(first, second, later, caEnd, a, b) ==
    /\ first = second => b = a /\ b.cert = MintSelf(second, 0, caEnd)
    /\ first # second => b.cert = MintSelf(second, later, caEnd)
    /\ b.key = b.cert.key

\* What SelfCert answers then.
LEMMA LaterStart ==
    ASSUME NEW X, Nul \in X, NEW first \in Seq(Seq(X \ {Nul})), NEW second \in Seq(Seq(X \ {Nul})),
           NEW later \in Nat, NEW caEnd \in Nat
    PROVE  LET a == SelfCert(<<>>, first, 0, caEnd)
               b == SelfCert(a.cache, second, later, caEnd)
           IN Restarted(first, second, later, caEnd, a, b)
<1> DEFINE a == SelfCert(<<>>, first, 0, caEnd)
           b == SelfCert(a.cache, second, later, caEnd)
           c == MintSelf(first, 0, caEnd)
           d == MintSelf(second, later, caEnd)
           i1 == selfCertIdentityHash(first)
           i2 == selfCertIdentityHash(second)
           cache == [i \in {i1} |-> c]
<1>1. a = [cert |-> c, key |-> c.key, cache |-> cache]
    BY Zenon, FirstStart
<1>2. c.key = Rekeyed(c)
    <2>1. 0 \in Nat
        OBVIOUS
    <2> QED BY Zenon, <2>1, MintIs
<1> HIDE DEF a, c
<1>3. a.cache = cache /\ DOMAIN cache = {i1} /\ cache[i1] = c
    BY <1>1
<1> HIDE DEF cache
<1>4. CASE first = second
    <2>1. i2 \in DOMAIN a.cache /\ a.cache[i2] = c /\ a.cache[i2].key = Rekeyed(a.cache[i2])
        BY Zenon, <1>2, <1>3, <1>4
    <2>2. b = [cert |-> c, key |-> Rekeyed(c), cache |-> a.cache]
        BY Zenon, <2>1 DEF SelfCert
    <2>3. b = a
        BY Zenon, <1>1, <1>2, <1>3, <2>2
    <2>4. a.cert = c /\ a.key = c.key
        BY <1>1
    <2>5. c = MintSelf(second, 0, caEnd)
        BY Zenon, <1>4 DEF c
    <2> HIDE DEF b
    <2> QED BY Zenon, <1>4, <2>3, <2>4, <2>5 DEF a, b, Restarted
<1>5. CASE first # second
    <2>1. i2 # i1
        BY Zenon, <1>5, HashInjective
    <2>2. i2 \notin DOMAIN a.cache
        BY Zenon, <1>3, <2>1
    <2> DEFINE e == [i \in DOMAIN a.cache \cup {i2} |-> IF i = i2 THEN d ELSE a.cache[i]]
    <2>3. b = [cert |-> d, key |-> d.key, cache |-> e]
        BY Zenon, <2>2 DEF SelfCert
    <2> HIDE DEF e, b, d
    <2>4. b.cert = d /\ b.key = d.key
        BY <2>3
    <2> QED BY Zenon, <1>5, <2>4 DEF a, b, d, Restarted
<1> QED BY Zenon, <1>4, <1>5

\* Listeners keep their identity, and no other listener gets it.
LEMMA ListenerFits ==
    ASSUME NEW X, NEW first \in Seq(Seq(X \ {Nul})), NEW second \in Seq(Seq(X \ {Nul})),
           second # <<>>, NEW later \in Nat, NEW caEnd \in Nat
    PROVE  ListenerKeepsIdentity(first, second, later, caEnd)
<1> DEFINE Y == X \cup {Nul}
           Z == X \ {Nul}
           a == SelfCert(<<>>, first, 0, caEnd)
           b == SelfCert(a.cache, second, later, caEnd)
           f == Fallback(second[1], later, caEnd)
<1>1. Nul \in Y /\ Y \ {Nul} = Z
    BY Zenon
<1>2. /\ first = second => b = a /\ b.cert = MintSelf(second, 0, caEnd)
      /\ first # second => b.cert = MintSelf(second, later, caEnd)
      /\ b.key = b.cert.key
    <2>1. first \in Seq(Seq(Y \ {Nul})) /\ second \in Seq(Seq(Y \ {Nul}))
        BY Zenon, <1>1
    <2> HIDE DEF Y
    <2>2. Restarted(first, second, later, caEnd, a, b)
        BY Zenon, <1>1, <2>1, LaterStart
    <2> HIDE DEF a, b
    <2> QED BY Zenon, <2>2 DEF Restarted
<1>3. PICK now \in Nat : b.cert = MintSelf(second, now, caEnd)
    <2>1. 0 \in Nat
        OBVIOUS
    <2> QED BY Zenon, <1>2, <2>1
<1> DEFINE c == b.cert
<1>4. /\ c.cn = second[1] /\ c.serial = selfCertIdentityHash(second)
      /\ Range(c.dns) = DNSOf(Range(second)) /\ Range(c.ips) = IPsOf(Range(second))
      /\ c.notAfter <= caEnd
    <2> DEFINE m == MintSelf(second, now, caEnd)
    <2>1. /\ m.cn = second[1] /\ m.serial = selfCertIdentityHash(second)
          /\ Range(m.dns) = DNSOf(Range(second)) /\ Range(m.ips) = IPsOf(Range(second))
          /\ m.notAfter <= caEnd
        BY Zenon, MintIs
    <2> HIDE DEF m, c
    <2>2. c = m
        BY Zenon, <1>3 DEF m, c
    <2> QED BY Zenon, <2>1, <2>2
<1>5. \A n \in Range(second) : n \in Seq(Z) /\ (isValidDNSName(n) <=> LDH(n))
    <2>1. \A n \in Range(second) : n \in Seq(Z)
        <3>1. DOMAIN second = 1 .. Len(second) /\ \A i \in 1 .. Len(second) : second[i] \in Seq(Z)
            BY Zenon, SeqIs
        <3> QED BY Zenon, <3>1 DEF Range
    <2> QED BY Zenon, <2>1, ValidExactly
<1> HIDE DEF c, a, b, f
<1>6. \A n \in Range(second) \ DOMAIN IPOf : LDH(n) => n \in Range(c.dns)
    BY Zenon, <1>4, <1>5 DEF DNSOf, IsIP
<1>7. \A n \in Range(c.dns) : n \in Range(second) /\ LDH(n)
    BY Zenon, <1>4, <1>5 DEF DNSOf
<1>8. Range(c.ips) = {IPOf[n] : n \in Range(second) \cap DOMAIN IPOf}
    <2>1. {n \in Range(second) : IsIP(n)} = Range(second) \cap DOMAIN IPOf
        BY Zenon DEF IsIP
    <2> QED BY Zenon, <1>4, <2>1 DEF IPsOf
<1>9. f.notAfter <= caEnd /\ f.serial = <<"fallback", Nul>> \o second[1]
    <2> DEFINE sni == second[1]
               dns == IF IsIP(sni) THEN <<>> ELSE <<sni>>
               ips == IF IsIP(sni) THEN <<IPOf[sni]>> ELSE <<>>
               id == <<"fallback", Nul>> \o sni
               key == LeafKey(tagSANs(dns, ips))
               end == IF later + FallbackValidity > caEnd THEN caEnd ELSE later + FallbackValidity
    <2>1. f = [cn |-> sni, dns |-> dns, ips |-> ips, serial |-> id, key |-> key, notAfter |-> end]
        BY Zenon DEF Fallback, f
    <2>2. end <= caEnd
        BY ValidityAssumption
    <2> HIDE DEF sni, dns, ips, id, key, end
    <2>3. f.serial = id /\ f.notAfter = end
        BY <2>1
    <2> QED BY Zenon, <2>2, <2>3 DEF id, sni
<1>10. f.serial # c.serial
    <2> DEFINE W == X \cup {Nul, "self", "fallback"}
    <2>1. second[1] \in Seq(W)
        BY <1>1
    <2>2. PICK t \in Seq(W) : selfCertIdentityHash(second) = <<"self">> \o t
        <3>1. Nul \in W /\ second \in Seq(Seq(W))
            OBVIOUS
        <3> HIDE DEF W
        <3>2. PICK g : Writes(W, second, g)
            BY Zenon, <3>1, HashIs
        <3>3. Len(second) \in 0 .. Len(second)
            OBVIOUS
        <3> QED BY Zenon, <3>2, <3>3 DEF Writes
    <2> DEFINE u == <<"fallback", Nul>> \o second[1]
               v == <<"self">> \o t
    <2>3. u[1] = "fallback" /\ v[1] = "self" /\ "fallback" # "self"
        BY <2>1, <2>2
    <2>4. u # v
        BY Zenon, <2>3
    <2> QED BY Zenon, <1>4, <1>9, <2>2, <2>4
<1> QED BY Zenon, <1>2, <1>4, <1>6, <1>7, <1>8, <1>9, <1>10 DEF ListenerKeepsIdentity, a, b, c, f
=============================================================================
