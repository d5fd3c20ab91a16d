-------------------------- MODULE CertFleet_proofs --------------------------
(***************************************************************************)
(* Proofs about CertFleet for any number of nodes, connections, chains and *)
(* keys, and any number of restarts, CA changes, crashes and flushes.      *)
(***************************************************************************)
EXTENDS CertFleet, TLAPS

\* The sentinels are no clones, and what CloneChain mints is one.
LEMMA Records ==
    /\ NoCA \in CA /\ NoP12 \in P12
    /\ NoChain \notin Clone /\ Error \notin Clone /\ NoChain # Error
    /\ \A r \in Real, a \in CA : [real |-> r, by |-> a] \in Clone
    /\ \A x \in Clone : x.real \in Real /\ x.by \in CA
    /\ \A x \in P12 : x.ca \in CA
    /\ Cold \in [Real -> Clone \cup {NoChain}]
<1>1. NoCA \in CA /\ NoP12 \in P12
    BY Zenon DEF NoCA, NoP12, CA, P12
<1>2. NoChain \notin Clone /\ Error \notin Clone /\ NoChain # Error
    BY Zenon, CertAssumption DEF NoChain, Error, Clone, NoReal
<1>3. /\ \A r \in Real, a \in CA : [real |-> r, by |-> a] \in Clone
      /\ \A x \in Clone : x.real \in Real /\ x.by \in CA
    BY Zenon DEF Clone
<1>4. \A x \in P12 : x.ca \in CA
    BY Zenon DEF P12
<1>5. Cold \in [Real -> Clone \cup {NoChain}]
    BY Zenon DEF Cold
<1> QED BY Zenon, <1>1, <1>2, <1>3, <1>4, <1>5
-----------------------------------------------------------------------------
(* The inductive invariant *)

\* What is stored under a real chain's id is a clone of it.
StoredRight ==
    /\ \A r \in Real : certs[r] \in Clone => certs[r].real = r
    /\ \A n \in Node, r \in Real : hot[n][r] \in Clone => hot[n][r].real = r

\* Nothing of a connection or of the hot map survives the process.
DownIsEmpty ==
    \A n \in Node : ~Running(n) =>
        /\ hot[n] = Cold
        /\ \A c \in Conn : NodeOf[c] = n => pc[c] = "idle" /\ got[c] = NoChain

\* A connection holds a clone before it stores or delivers it, and a clone it
\* holds, delivered or not, is the one it asked for.
HeldRight ==
    \A c \in Conn :
        /\ pc[c] \in {"fill", "hotput", "link"} => got[c] \in Clone
        /\ got[c] \in Clone => got[c].real = req[c] /\ got[c].by.key = ca[NodeOf[c]].key

ServedInv == StoredRight /\ DownIsEmpty /\ HeldRight

\* As long as no history taints it, every clone in Storage is governed by the
\* CA of .tuple and by that of every running node, and while a node starts, by
\* its own CA unless it is about to be wiped.
StoredCurrent ==
    /\ \A r \in Real : certs[r] \in Clone => certs[r].by = tuple
    /\ \A n \in Node, r \in Real : certs[r] \in Clone =>
          /\ Running(n) \/ phase[n] = "tuple" => certs[r].by = ca[n]
          /\ phase[n] = "wipe" => r \in todo[n] \/ certs[r].by = ca[n]

\* The clones of a node's hot map and of its connections are by its own CA.
MemoryCurrent ==
    /\ \A n \in Node, r \in Real : hot[n][r] \in Clone => hot[n][r].by = ca[n]
    /\ \A c \in Conn : got[c] \in Clone => got[c].by = ca[NodeOf[c]]

PolicyInv == ~tainted => StoredCurrent /\ MemoryCurrent
-----------------------------------------------------------------------------
(* Types *)

\* A node's startup, flush and death keep the types.
LEMMA NodeTypes ==
    ASSUME TypeOK, NEW n \in Node, Start(n) \/ Flush(n) \/ Crash(n)
    PROVE  TypeOK'
<1> USE Records
<1>1. CASE LoadOrGenerateCA(n)
    <2>1. ca' \in [Node -> CA] /\ keys' \subseteq Nat
        <3>1. CASE p12 = NoP12
            <4>1. PICK k \in FreshKey : /\ ca' = [ca EXCEPT ![n] = [key |-> k, policy |-> 0]]
                                        /\ keys' = keys \cup {k}
                BY Zenon, <1>1, <3>1 DEF LoadOrGenerateCA
            <4>2. k \in Nat /\ [key |-> k, policy |-> 0] \in CA
                BY Zenon, CertAssumption DEF CA
            <4> QED BY Zenon, <4>1, <4>2 DEF TypeOK
        <3>2. CASE p12 # NoP12
            BY Zenon, <1>1, <3>2 DEF LoadOrGenerateCA, TypeOK
        <3> QED BY Zenon, <3>1, <3>2
    <2>2. phase' \in [Node -> {"down", "up", "flist", "fwipe", "freset"} \cup Starting]
        BY Zenon, <1>1 DEF TypeOK, LoadOrGenerateCA, Go, Starting
    <2> QED BY Zenon, <1>1, <2>1, <2>2 DEF TypeOK, LoadOrGenerateCA, blobs, conns, bounds
<1>2. CASE persistCA(n)
    <2>1. [ca |-> ca[n], opens |-> TRUE] \in P12
        BY Zenon DEF TypeOK, P12
    <2>2. p12' \in P12 \cup {NoP12}
        BY Zenon, <1>2, <2>1 DEF TypeOK, persistCA
    <2>3. /\ phase' \in [Node -> {"down", "up", "flist", "fwipe", "freset"} \cup Starting]
          /\ ca' \in [Node -> CA]
        BY Zenon, <1>2 DEF TypeOK, persistCA, Exit, Go, Starting
    <2> QED BY Zenon, <1>2, <2>2, <2>3 DEF TypeOK, persistCA, conns, bounds
<1>3. CASE CheckTuple(n)
    BY Zenon, <1>3 DEF TypeOK, CheckTuple, Exit, Go, Starting, blobs, conns, bounds
<1>4. CASE ListLeaf(n)
    <2>1. tainted' \in BOOLEAN
        BY Zenon, <1>4 DEF ListLeaf
    <2>2. todo' \in [Node -> SUBSET (Real \cup Name)]
        <3>1. PICK found \in SUBSET (Real \cup Name) : todo' = [todo EXCEPT ![n] = found]
            BY Zenon, <1>4 DEF ListLeaf
        <3> QED BY Zenon, <3>1 DEF TypeOK
    <2>3. phase' \in [Node -> {"down", "up", "flist", "fwipe", "freset"} \cup Starting]
        BY Zenon, <1>4 DEF TypeOK, ListLeaf, Go, Starting
    <2> QED BY Zenon, <1>4, <2>1, <2>2, <2>3 DEF TypeOK, ListLeaf, blobs, conns, bounds
<1>5. CASE WipeLeaf(n)
    <2>1. todo' \in [Node -> SUBSET (Real \cup Name)]
        BY <1>5 DEF TypeOK, WipeLeaf
    <2>2. certs' \in [Real -> Clone \cup {NoChain}] /\ names' \in [Name -> Real \cup {NoReal}]
        BY Zenon, <1>5 DEF TypeOK, WipeLeaf
    <2>3. /\ phase' \in [Node -> {"down", "up", "flist", "fwipe", "freset"} \cup Starting]
          /\ ca' \in [Node -> CA]
        BY Zenon, <1>5 DEF TypeOK, WipeLeaf, Exit, Go, Starting
    <2> QED BY Zenon, <1>5, <2>1, <2>2, <2>3 DEF TypeOK, WipeLeaf, conns, bounds
<1>6. CASE WriteTuple(n)
    <2>1. tuple' \in CA
        BY Zenon, <1>6 DEF TypeOK, WriteTuple
    <2>2. /\ phase' \in [Node -> {"down", "up", "flist", "fwipe", "freset"} \cup Starting]
          /\ ca' \in [Node -> CA]
        BY Zenon, <1>6 DEF TypeOK, WriteTuple, Exit, Go, Starting
    <2> QED BY Zenon, <1>6, <2>1, <2>2 DEF TypeOK, WriteTuple, conns, bounds
<1>7. CASE ResetHot(n)
    BY Zenon, <1>7 DEF TypeOK, ResetHot, Go, blobs, conns, bounds
<1>8. CASE Flush(n)
    BY <1>8, CertAssumption DEF TypeOK, Flush, Go, blobs, conns
<1>9. CASE Crash(n)
    BY <1>9, CertAssumption DEF TypeOK, Crash, Exit, Go, blobs
<1> QED BY Zenon, <1>1, <1>2, <1>3, <1>4, <1>5, <1>6, <1>7, <1>8, <1>9 DEF Start

\* Delivering a chain or an error keeps the types of the connections.
LEMMA DeliverType ==
    ASSUME TypeOK, NEW c \in Conn, NEW x \in Clone \cup {NoChain, Error}, Deliver(c, x)
    PROVE  /\ pc' \in [Conn -> {"idle", "wait"} \cup Leader]
           /\ req' \in [Conn -> Real] /\ got' \in [Conn -> Clone \cup {NoChain, Error}]
BY Zenon DEF TypeOK, Deliver

\* The steps of a connection keep the types.
LEMMA ConnTypes ==
    ASSUME TypeOK, HeldRight, NEW c \in Conn, For(c) \/ Mint(c)
    PROVE  TypeOK'
<1> USE Records
<1>0. NodeOf[c] \in Node /\ req[c] \in Real /\ CloneChain(NodeOf[c], req[c]) \in Clone
    BY Zenon, CertAssumption DEF TypeOK, CloneChain
<1>1. CASE For(c)
    <2>1. PICK r \in Real :
            /\ req' = [req EXCEPT ![c] = r]
            /\ \/ At(c, "wait") /\ got' = [got EXCEPT ![c] = NoChain]
               \/ got' = [got EXCEPT ![c] = hot[NodeOf[c]][r]] /\ UNCHANGED pc
               \/ (At(c, "read") \/ At(c, "put")) /\ got' = [got EXCEPT ![c] = NoChain]
            /\ UNCHANGED <<blobs, nodes, bounds, keys, tainted>>
        BY Zenon, <1>1 DEF For
    <2>2. hot[NodeOf[c]][r] \in Clone \cup {NoChain}
        BY <1>0 DEF TypeOK
    <2> QED BY Zenon, <2>1, <2>2 DEF TypeOK, At, blobs, nodes, bounds, Leader
<1>2. CASE ReadClone(c)
    BY Zenon, <1>0, <1>2, DeliverType DEF TypeOK, ReadClone, At, blobs, nodes, bounds, Leader
<1>3. CASE FillHot(c)
    BY Zenon, <1>0, <1>3, DeliverType DEF TypeOK, HeldRight, FillHot, blobs, bounds
<1>4. CASE PutClone(c)
    <2>1. tainted' \in BOOLEAN
        BY Zenon, <1>4 DEF PutClone, TypeOK
    <2>2. certs' \in [Real -> Clone \cup {NoChain}]
        BY Zenon, <1>0, <1>4 DEF TypeOK, PutClone
    <2>3. /\ pc' \in [Conn -> {"idle", "wait"} \cup Leader]
          /\ req' \in [Conn -> Real] /\ got' \in [Conn -> Clone \cup {NoChain, Error}]
        <3>1. CASE At(c, "hotput") /\ got' = [got EXCEPT ![c] = CloneChain(NodeOf[c], req[c])]
                   /\ UNCHANGED req
            BY Zenon, <1>0, <3>1 DEF TypeOK, At, Leader
        <3>2. CASE Deliver(c, Error)
            BY Zenon, <3>2, DeliverType
        <3> QED BY Zenon, <1>4, <3>1, <3>2 DEF PutClone
    <2> QED BY Zenon, <1>4, <2>1, <2>2, <2>3 DEF TypeOK, PutClone, nodes, bounds
<1>5. CASE PutHot(c)
    BY Zenon, <1>0, <1>5 DEF TypeOK, HeldRight, PutHot, At, blobs, bounds, Leader
<1>6. CASE ensureLinks(c)
    BY Zenon, <1>0, <1>6, CertAssumption, DeliverType DEF TypeOK, ensureLinks, nodes, bounds
<1> QED BY Zenon, <1>1, <1>2, <1>3, <1>4, <1>5, <1>6 DEF Mint

\* The initial state is well typed, and every step keeps it so.
LEMMA InitTypes == Init => TypeOK /\ ServedInv /\ PolicyInv
<1> SUFFICES ASSUME Init PROVE TypeOK /\ ServedInv /\ PolicyInv
    BY Zenon
<1> USE Records
<1>1. TypeOK
    <2>1. p12 \in P12 \cup {NoP12} /\ tuple \in CA
        BY Zenon, CertAssumption DEF Init
    <2>2. 0 \in 0 .. MaxEdits /\ 0 \in 0 .. MaxCrashes /\ 0 \in 0 .. MaxFlushes
        BY CertAssumption
    <2> QED BY Zenon, <2>1, <2>2 DEF Init, TypeOK
<1>2. \A r \in Real : Cold[r] \notin Clone
    BY Zenon DEF Cold
<1>3. ServedInv
    BY Zenon, <1>2 DEF Init, ServedInv, StoredRight, DownIsEmpty, HeldRight
<1>4. PolicyInv
    BY Zenon, <1>2 DEF Init, PolicyInv, StoredCurrent, MemoryCurrent
<1> QED BY Zenon, <1>1, <1>3, <1>4

LEMMA NextTypes ==
    ASSUME TypeOK, HeldRight, [Next]_vars
    PROVE  TypeOK'
<1>1. CASE \E n \in Node : Start(n) \/ Flush(n) \/ Crash(n)
    BY Zenon, <1>1, NodeTypes
<1>2. CASE \E c \in Conn : For(c) \/ Mint(c)
    BY Zenon, <1>2, ConnTypes
<1>3. CASE EditCA
    <2>1. p12' \in P12 \cup {NoP12} /\ edits' \in 0 .. MaxEdits
        BY <1>3, CertAssumption DEF TypeOK, EditCA
    <2> QED BY Zenon, <1>3, <2>1 DEF TypeOK, EditCA, nodes, conns
<1>4. CASE UNCHANGED vars
    BY Zenon, <1>4 DEF TypeOK, vars
<1> QED BY Zenon, <1>1, <1>2, <1>3, <1>4 DEF Next
-----------------------------------------------------------------------------
(* What is served verifies *)

\* A CA changes in memory only while its node serves nobody.
LEMMA OwnCA ==
    ASSUME TypeOK, DownIsEmpty, HeldRight, NEW n \in Node,
           ca' = ca \/ (~Running(n) /\ \E x \in CA : ca' = [ca EXCEPT ![n] = x]),
           UNCHANGED conns
    PROVE  HeldRight'
<1> USE Records
<1>1. ASSUME NEW c \in Conn, got[c] \in Clone PROVE ca'[NodeOf[c]] = ca[NodeOf[c]]
    BY <1>1, CertAssumption DEF TypeOK, DownIsEmpty
<1> QED BY Zenon, <1>1 DEF HeldRight, conns

\* A node stops serving only by dying.
LEMMA OwnPhase ==
    ASSUME TypeOK, DownIsEmpty, NEW n \in Node, NEW p,
           Go(n, p), Running(n) => p \in {"up", "flist", "fwipe", "freset"},
           UNCHANGED <<hot, conns>>
    PROVE  DownIsEmpty'
BY Zenon DEF TypeOK, DownIsEmpty, Running, Go, conns

LEMMA NodeServes ==
    ASSUME TypeOK, ServedInv, NEW n \in Node, Start(n) \/ Flush(n) \/ Crash(n)
    PROVE  ServedInv'
<1> USE Records DEF ServedInv
<1>1. CASE LoadOrGenerateCA(n)
    <2>1. ~Running(n) /\ \E x \in CA : ca' = [ca EXCEPT ![n] = x]
        <3>1. \A k \in FreshKey : [key |-> k, policy |-> 0] \in CA
            BY Zenon, CertAssumption DEF CA
        <3> QED BY Zenon, <1>1, <3>1 DEF TypeOK, LoadOrGenerateCA, Running
    <2>2. HeldRight'
        BY Zenon, <1>1, <2>1, OwnCA DEF LoadOrGenerateCA
    <2>3. DownIsEmpty'
        BY Zenon, <1>1, <2>1, OwnPhase DEF LoadOrGenerateCA
    <2> QED BY Zenon, <1>1, <2>2, <2>3 DEF LoadOrGenerateCA, StoredRight, blobs
<1>2. CASE persistCA(n)
    <2>1. ~Running(n) /\ (Go(n, "list") \/ Go(n, "down"))
          /\ (ca' = ca \/ ca' = [ca EXCEPT ![n] = NoCA])
        BY Zenon, <1>2 DEF persistCA, Running, Exit
    <2>2. HeldRight'
        BY Zenon, <1>2, <2>1, OwnCA DEF persistCA
    <2>3. DownIsEmpty'
        BY Zenon, <1>2, <2>1, OwnPhase DEF persistCA
    <2> QED BY Zenon, <1>2, <2>2, <2>3 DEF persistCA, StoredRight
<1>3. CASE CheckTuple(n)
    <2>1. ~Running(n) /\ (\E p \in {"up", "list", "down"} : Go(n, p))
          /\ (ca' = ca \/ ca' = [ca EXCEPT ![n] = NoCA])
        BY Zenon, <1>3 DEF CheckTuple, Running, Exit
    <2>2. HeldRight'
        BY Zenon, <1>3, <2>1, OwnCA DEF CheckTuple
    <2>3. DownIsEmpty'
        BY Zenon, <1>3, <2>1, OwnPhase DEF CheckTuple
    <2> QED BY Zenon, <1>3, <2>2, <2>3 DEF CheckTuple, StoredRight, blobs
<1>4. CASE ListLeaf(n)
    <2>1. DownIsEmpty'
        BY Zenon, <1>4, OwnPhase DEF ListLeaf, Running
    <2> QED BY Zenon, <1>4, <2>1 DEF ListLeaf, StoredRight, HeldRight, blobs, conns
<1>5. CASE WipeLeaf(n)
    <2>1. HeldRight'
        <3>1. ca' = ca \/ (~Running(n) /\ ca' = [ca EXCEPT ![n] = NoCA])
            BY Zenon, <1>5 DEF WipeLeaf, Exit, Running
        <3> QED BY Zenon, <1>5, <3>1, OwnCA DEF WipeLeaf
    <2>2. DownIsEmpty'
        <3>1. CASE UNCHANGED phase
            BY Zenon, <1>5, <3>1 DEF WipeLeaf, DownIsEmpty, Running, conns
        <3>2. CASE Go(n, IF phase[n] = "wipe" THEN "tuple" ELSE "freset")
            BY Zenon, <1>5, <3>2, OwnPhase DEF WipeLeaf, Running
        <3>3. CASE IF phase[n] = "wipe" THEN Exit(n) ELSE Go(n, "up")
            BY Zenon, <1>5, <3>3, OwnPhase DEF WipeLeaf, Running, Exit
        <3> QED BY Zenon, <1>5, <3>1, <3>2, <3>3 DEF WipeLeaf
    <2>3. StoredRight'
        BY ZenonT(60), <1>5 DEF WipeLeaf, StoredRight, TypeOK
    <2> QED BY Zenon, <2>1, <2>2, <2>3
<1>6. CASE WriteTuple(n)
    <2>1. ~Running(n) /\ (\E p \in {"up", "down"} : Go(n, p))
          /\ (ca' = ca \/ ca' = [ca EXCEPT ![n] = NoCA])
        BY Zenon, <1>6 DEF WriteTuple, Running, Exit
    <2>2. HeldRight'
        BY Zenon, <1>6, <2>1, OwnCA DEF WriteTuple
    <2>3. DownIsEmpty'
        BY Zenon, <1>6, <2>1, OwnPhase DEF WriteTuple
    <2> QED BY Zenon, <1>6, <2>2, <2>3 DEF WriteTuple, StoredRight
<1>7. CASE ResetHot(n)
    <2>1. StoredRight'
        BY Zenon, <1>7 DEF ResetHot, StoredRight, TypeOK, Cold, blobs
    <2>2. DownIsEmpty'
        BY Zenon, <1>7 DEF ResetHot, DownIsEmpty, TypeOK, Running, Go, conns
    <2> QED BY Zenon, <1>7, <2>1, <2>2 DEF ResetHot, HeldRight, conns
<1>8. CASE Flush(n)
    <2>1. DownIsEmpty'
        BY Zenon, <1>8, OwnPhase DEF Flush, Running
    <2> QED BY Zenon, <1>8, <2>1 DEF Flush, StoredRight, HeldRight, blobs, conns
<1>9. CASE Crash(n)
    <2>1. StoredRight'
        BY Zenon, <1>9 DEF Crash, StoredRight, TypeOK, Cold, blobs
    <2>2. DownIsEmpty'
        BY ZenonT(60), <1>9, CertAssumption DEF Crash, DownIsEmpty, TypeOK, Running, Exit, Go
    <2>3. HeldRight'
        BY Zenon, <1>9, CertAssumption DEF Crash, HeldRight, TypeOK, Exit
    <2> QED BY Zenon, <2>1, <2>2, <2>3
<1> QED BY Zenon, <1>1, <1>2, <1>3, <1>4, <1>5, <1>6, <1>7, <1>8, <1>9 DEF Start

\* Delivering an error, or a clone that is the right one, to the leader of a
\* call and to all who wait for it.
LEMMA DeliverServes ==
    ASSUME TypeOK, DownIsEmpty, HeldRight, NEW c \in Conn, Running(NodeOf[c]),
           NEW x \in Clone \cup {NoChain, Error}, Deliver(c, x),
           x \in Clone => x.real = req[c] /\ x.by.key = ca[NodeOf[c]].key,
           UNCHANGED <<phase, ca>>, \A n \in Node : ~Running(n) => hot'[n] = hot[n]
    PROVE  DownIsEmpty' /\ HeldRight'
<1>1. DownIsEmpty'
    BY Zenon, CertAssumption DEF TypeOK, DownIsEmpty, Running, Deliver, Waiting, Same
<1>2. HeldRight'
    BY Zenon DEF TypeOK, HeldRight, Deliver, Waiting, Same
<1> QED BY Zenon, <1>1, <1>2

LEMMA ConnServes ==
    ASSUME TypeOK, ServedInv, NEW c \in Conn, For(c) \/ Mint(c)
    PROVE  ServedInv'
<1> USE Records DEF ServedInv
<1> DEFINE n == NodeOf[c]
<1>0. n \in Node /\ req[c] \in Real /\ (pc[c] # "idle" => Running(n))
    BY Zenon, CertAssumption DEF TypeOK, DownIsEmpty
<1>c. CloneChain(n, req[c]) \in Clone /\ CloneChain(n, req[c]).real = req[c]
      /\ CloneChain(n, req[c]).by = ca[n]
    BY Zenon, <1>0 DEF TypeOK, CloneChain
<1>1. CASE For(c)
    <2>1. StoredRight'
        BY Zenon, <1>1 DEF For, StoredRight, blobs, nodes
    <2>2. DownIsEmpty'
        BY <1>0, <1>1 DEF For, DownIsEmpty, TypeOK, Running, At, nodes
    <2>3. HeldRight'
        <3>1. PICK r \in Real :
                /\ req' = [req EXCEPT ![c] = r] /\ pc[c] = "idle" /\ UNCHANGED ca
                /\ \/ /\ got' = [got EXCEPT ![c] = NoChain]
                      /\ \E p \in {"wait", "read", "put"} : At(c, p)
                   \/ /\ got' = [got EXCEPT ![c] = hot[n][r]] /\ UNCHANGED pc
                      /\ verify(n, hot[n][r])
            BY Zenon, <1>1 DEF For, nodes
        <3>2. hot[n][r] \in Clone \cup {NoChain}
            <4>1. hot \in [Node -> [Real -> Clone \cup {NoChain}]]
                BY Zenon DEF TypeOK
            <4> QED BY Zenon, <1>0, <4>1
        <3>3. CASE got' = [got EXCEPT ![c] = NoChain] /\ \E p \in {"wait", "read", "put"} : At(c, p)
            BY Zenon, <3>1, <3>3 DEF TypeOK, HeldRight, At
        <3>4. CASE /\ got' = [got EXCEPT ![c] = hot[n][r]] /\ UNCHANGED pc
                   /\ verify(n, hot[n][r])
            BY Zenon, <1>0, <3>1, <3>2, <3>4 DEF TypeOK, HeldRight, StoredRight, verify
        <3> QED BY Zenon, <3>1, <3>3, <3>4
    <2> QED BY Zenon, <2>1, <2>2, <2>3
<1>2. CASE ReadClone(c)
    <2>1. StoredRight'
        BY Zenon, <1>2 DEF ReadClone, StoredRight, blobs, nodes
    <2>2. CASE Deliver(c, Error)
        BY Zenon, <1>0, <1>2, <2>1, <2>2, DeliverServes DEF ReadClone, nodes
    <2>3. CASE At(c, "put") /\ UNCHANGED <<req, got>>
        <3>1. DownIsEmpty'
            BY Zenon, <1>0, <1>2, <2>3 DEF ReadClone, DownIsEmpty, TypeOK, Running, At, nodes
        <3> QED BY Zenon, <1>2, <2>1, <2>3, <3>1 DEF ReadClone, HeldRight, TypeOK, At, nodes
    <2>4. CASE /\ At(c, "fill") /\ got' = [got EXCEPT ![c] = certs[req[c]]] /\ UNCHANGED req
               /\ verify(n, certs[req[c]])
        <3>1. DownIsEmpty'
            BY Zenon, <1>0, <1>2, <2>4 DEF ReadClone, DownIsEmpty, TypeOK, Running, At, nodes
        <3>2. certs[req[c]] \in Clone /\ certs[req[c]].real = req[c]
              /\ certs[req[c]].by.key = ca[n].key
            BY Zenon, <1>0, <2>4 DEF TypeOK, StoredRight, verify
        <3>3. HeldRight'
            BY Zenon, <1>2, <2>4, <3>2 DEF ReadClone, HeldRight, TypeOK, At, nodes
        <3> QED BY Zenon, <2>1, <3>1, <3>3
    <2> QED BY Zenon, <1>2, <2>2, <2>3, <2>4 DEF ReadClone
<1>3. CASE FillHot(c)
    <2>1. got[c] \in Clone /\ got[c].real = req[c] /\ got[c].by.key = ca[n].key
        BY Zenon, <1>3 DEF FillHot, HeldRight
    <2>2. StoredRight'
        BY Zenon, <1>0, <1>3, <2>1 DEF FillHot, StoredRight, TypeOK, blobs
    <2>3. \A m \in Node : ~Running(m) => hot'[m] = hot[m]
        BY Zenon, <1>0, <1>3 DEF FillHot, TypeOK
    <2> QED BY Zenon, <1>0, <1>3, <2>1, <2>2, <2>3, DeliverServes DEF FillHot
<1>4. CASE PutClone(c)
    <2>1. StoredRight'
        BY Zenon, <1>0, <1>c, <1>4 DEF PutClone, StoredRight, TypeOK, nodes
    <2>2. CASE Deliver(c, Error)
        BY Zenon, <1>0, <1>4, <2>1, <2>2, DeliverServes DEF PutClone, nodes
    <2>3. CASE /\ got' = [got EXCEPT ![c] = CloneChain(n, req[c])]
               /\ At(c, "hotput") /\ UNCHANGED req
        <3>1. DownIsEmpty'
            BY Zenon, <1>0, <1>4, <2>3 DEF PutClone, DownIsEmpty, TypeOK, Running, At, nodes
        <3>2. HeldRight'
            BY Zenon, <1>c, <1>4, <2>3 DEF PutClone, HeldRight, TypeOK, At, nodes
        <3> QED BY Zenon, <2>1, <3>1, <3>2
    <2> QED BY Zenon, <1>4, <2>2, <2>3 DEF PutClone
<1>5. CASE PutHot(c)
    <2>1. got[c] \in Clone /\ got[c].real = req[c]
        BY Zenon, <1>5 DEF PutHot, HeldRight
    <2>2. StoredRight'
        BY Zenon, <1>0, <1>5, <2>1 DEF PutHot, StoredRight, TypeOK, blobs
    <2>3. DownIsEmpty'
        BY Zenon, <1>0, <1>5 DEF PutHot, DownIsEmpty, TypeOK, Running, At
    <2>4. HeldRight'
        BY Zenon, <1>5, <2>1 DEF PutHot, HeldRight, TypeOK, At
    <2> QED BY Zenon, <2>2, <2>3, <2>4
<1>6. CASE ensureLinks(c)
    <2>1. got[c] \in Clone /\ got[c].real = req[c] /\ got[c].by.key = ca[n].key
        BY Zenon, <1>6 DEF ensureLinks, HeldRight
    <2>2. StoredRight'
        BY Zenon, <1>6 DEF ensureLinks, StoredRight, nodes
    <2>3. Deliver(c, got[c]) \/ Deliver(c, Error)
        BY Zenon, <1>6 DEF ensureLinks
    <2> QED BY Zenon, <1>0, <1>6, <2>1, <2>2, <2>3, DeliverServes DEF ensureLinks, nodes
<1> QED BY Zenon, <1>1, <1>2, <1>3, <1>4, <1>5, <1>6 DEF Mint

LEMMA ServedStep ==
    ASSUME TypeOK, ServedInv, [Next]_vars
    PROVE  ServedInv'
<1>1. CASE \E n \in Node : Start(n) \/ Flush(n) \/ Crash(n)
    BY Zenon, <1>1, NodeServes
<1>2. CASE \E c \in Conn : For(c) \/ Mint(c)
    BY Zenon, <1>2, ConnServes
<1>3. CASE EditCA
    BY <1>3 DEF EditCA, ServedInv, StoredRight, DownIsEmpty, HeldRight, Running, nodes, conns
<1>4. CASE UNCHANGED vars
    BY Zenon, <1>4 DEF vars, ServedInv, StoredRight, DownIsEmpty, HeldRight, Running
<1> QED BY Zenon, <1>1, <1>2, <1>3, <1>4 DEF Next
-----------------------------------------------------------------------------
(* What is served is governed by the node's own CA *)

\* A CA changes in memory only while the node's hot map is empty and it serves
\* nobody.
LEMMA OwnMemory ==
    ASSUME TypeOK, DownIsEmpty, MemoryCurrent, NEW n \in Node,
           ca' = ca \/ (~Running(n) /\ \E x \in CA : ca' = [ca EXCEPT ![n] = x]),
           UNCHANGED <<hot, conns>>
    PROVE  MemoryCurrent'
<1> USE Records
<1>1. ASSUME NEW c \in Conn, got[c] \in Clone PROVE ca'[NodeOf[c]] = ca[NodeOf[c]]
    BY <1>1, CertAssumption DEF TypeOK, DownIsEmpty
<1>2. ASSUME NEW m \in Node, NEW r \in Real, hot[m][r] \in Clone PROVE ca'[m] = ca[m]
    <2>1. ca \in [Node -> CA] /\ (~Running(n) => hot[n] = Cold)
        BY Zenon DEF TypeOK, DownIsEmpty
    <2>2. hot[n] = Cold => hot[n][r] = NoChain
        BY Zenon DEF Cold
    <2>3. NoChain \notin Clone
        BY Zenon
    <2>4. m # n \/ ca' = ca
        BY Zenon, <1>2, <2>1, <2>2, <2>3
    <2> QED BY Zenon, <2>1, <2>4
<1> QED BY Zenon, <1>1, <1>2 DEF MemoryCurrent, conns

LEMMA NodeCurrent ==
    ASSUME TypeOK, ServedInv, PolicyInv, NEW n \in Node, Start(n) \/ Flush(n) \/ Crash(n)
    PROVE  PolicyInv'
<1> SUFFICES ASSUME ~tainted' PROVE StoredCurrent' /\ MemoryCurrent'
    BY Zenon DEF PolicyInv
<1> USE Records DEF ServedInv
<1>1. CASE LoadOrGenerateCA(n)
    <2>1. ~Running(n) /\ \E x \in CA : ca' = [ca EXCEPT ![n] = x]
        <3>1. \A k \in FreshKey : [key |-> k, policy |-> 0] \in CA
            BY Zenon, CertAssumption DEF CA
        <3> QED BY Zenon, <1>1, <3>1 DEF TypeOK, LoadOrGenerateCA, Running
    <2>2. MemoryCurrent'
        BY Zenon, <1>1, <2>1, OwnMemory DEF LoadOrGenerateCA, PolicyInv
    <2>3. Go(n, "persist") \/ Go(n, "check")
        BY Zenon, <1>1 DEF LoadOrGenerateCA
    <2>4. StoredCurrent'
        BY <1>1, <2>1, <2>3 DEF LoadOrGenerateCA, PolicyInv, StoredCurrent, TypeOK, Running, Go, blobs
    <2> QED BY Zenon, <2>2, <2>4
<1>2. CASE persistCA(n)
    <2>1. ~Running(n) /\ (Go(n, "list") \/ Go(n, "down"))
          /\ (ca' = ca \/ ca' = [ca EXCEPT ![n] = NoCA])
        BY Zenon, <1>2 DEF persistCA, Running, Exit
    <2>2. MemoryCurrent'
        <3>1. ca' = ca \/ (~Running(n) /\ \E x \in CA : ca' = [ca EXCEPT ![n] = x])
            BY Zenon, <2>1
        <3>2. UNCHANGED <<hot, conns>> /\ MemoryCurrent
            BY Zenon, <1>2 DEF persistCA, PolicyInv
        <3> QED BY Zenon, <3>1, <3>2, OwnMemory
    <2>3. StoredCurrent'
        <3>1. StoredCurrent /\ UNCHANGED <<tuple, certs, todo>>
            BY Zenon, <1>2 DEF persistCA, PolicyInv
        <3>2. phase'[n] \in {"list", "down"} /\ ~Running(n)'
            BY Zenon, <2>1 DEF Go, TypeOK, Running
        <3>3. \A m \in Node : m # n => phase'[m] = phase[m] /\ ca'[m] = ca[m]
            BY Zenon, <2>1 DEF Go, TypeOK
        <3>4. \A m \in Node : m # n => (Running(m)' <=> Running(m))
            BY Zenon, <3>3 DEF Running
        <3>5. "list" # "tuple" /\ "list" # "wipe" /\ "down" # "tuple" /\ "down" # "wipe"
            BY Zenon
        <3>6. phase'[n] # "tuple" /\ phase'[n] # "wipe"
            BY Zenon, <3>2, <3>5
        <3> QED BY Zenon, <3>1, <3>2, <3>3, <3>4, <3>6 DEF StoredCurrent
    <2> QED BY Zenon, <2>2, <2>3
<1>3. CASE CheckTuple(n)
    <2>1. ~Running(n) /\ (ca' = ca \/ ca' = [ca EXCEPT ![n] = NoCA])
        BY Zenon, <1>3 DEF CheckTuple, Running, Exit
    <2>2. MemoryCurrent'
        BY Zenon, <1>3, <2>1, OwnMemory DEF CheckTuple, PolicyInv
    <2>3. StoredCurrent'
        BY ZenonT(60), <1>3 DEF CheckTuple, PolicyInv, StoredCurrent, TypeOK, Running, Go, Exit, blobs
    <2> QED BY Zenon, <2>2, <2>3
<1>4. CASE ListLeaf(n)
    <2>1. \A r \in Real : certs[r] \in Clone => r \in todo'[n]
        <3> DEFINE all == {r \in Real : certs[r] # NoChain} \cup {m \in Name : names[m] # NoReal}
        <3>1. todo' = [todo EXCEPT ![n] = all]
            BY Zenon, <1>4 DEF ListLeaf
        <3> QED BY Zenon, <3>1 DEF TypeOK
    <2>2. ~tainted
        BY Zenon, <1>4 DEF ListLeaf
    <2>3. StoredCurrent'
        BY Zenon, <1>4, <2>1, <2>2 DEF ListLeaf, PolicyInv, StoredCurrent, TypeOK, Running, Go, blobs
    <2> QED BY Zenon, <1>4, <2>2, <2>3 DEF ListLeaf, PolicyInv, MemoryCurrent, conns
<1>5. CASE WipeLeaf(n)
    <2>1. ~tainted
        BY Zenon, <1>5 DEF WipeLeaf
    <2>2. MemoryCurrent'
        <3>1. ca' = ca \/ (~Running(n) /\ ca' = [ca EXCEPT ![n] = NoCA])
            BY Zenon, <1>5 DEF WipeLeaf, Exit, Running
        <3> QED BY Zenon, <1>5, <2>1, <3>1, OwnMemory DEF WipeLeaf, PolicyInv
    <2>3. StoredCurrent'
        <3>1. ASSUME NEW d \in todo[n], UNCHANGED <<phase, ca, tuple>>,
                     todo' = [todo EXCEPT ![n] = @ \ {d}],
                     certs' = [r \in Real |-> IF r = d THEN NoChain ELSE certs[r]]
              PROVE  StoredCurrent'
            BY Zenon, <2>1, <3>1 DEF PolicyInv, StoredCurrent, TypeOK, Running
        <3>2. CASE /\ todo[n] = {} /\ UNCHANGED <<ca, todo, certs, tuple>>
                   /\ Go(n, IF phase[n] = "wipe" THEN "tuple" ELSE "freset")
            BY Zenon, <1>5, <2>1, <3>2 DEF WipeLeaf, PolicyInv, StoredCurrent, TypeOK, Running, Go
        <3>3. CASE /\ IF phase[n] = "wipe" THEN Exit(n) ELSE Go(n, "up") /\ UNCHANGED ca
                   /\ todo' = [todo EXCEPT ![n] = {}] /\ UNCHANGED <<certs, tuple>>
            BY ZenonT(60), <1>5, <2>1, <3>3 DEF WipeLeaf, PolicyInv, StoredCurrent, TypeOK, Running, Go, Exit
        <3> QED BY Zenon, <1>5, <3>1, <3>2, <3>3 DEF WipeLeaf
    <2> QED BY Zenon, <2>2, <2>3
<1>6. CASE WriteTuple(n)
    <2>1. ~Running(n) /\ (ca' = ca \/ ca' = [ca EXCEPT ![n] = NoCA])
        BY Zenon, <1>6 DEF WriteTuple, Running, Exit
    <2>2. MemoryCurrent'
        BY Zenon, <1>6, <2>1, OwnMemory DEF WriteTuple, PolicyInv
    <2>3. StoredCurrent'
        BY ZenonT(60), <1>6 DEF WriteTuple, PolicyInv, StoredCurrent, TypeOK, Running, Go, Exit
    <2> QED BY Zenon, <2>2, <2>3
<1>7. CASE ResetHot(n)
    <2>1. StoredCurrent'
        BY Zenon, <1>7 DEF ResetHot, PolicyInv, StoredCurrent, TypeOK, Running, Go, blobs
    <2> QED BY Zenon, <1>7, <2>1 DEF ResetHot, PolicyInv, MemoryCurrent, TypeOK, Cold, conns
<1>8. CASE Flush(n)
    <2>1. StoredCurrent'
        BY Zenon, <1>8 DEF Flush, PolicyInv, StoredCurrent, TypeOK, Running, Go, blobs
    <2> QED BY Zenon, <1>8, <2>1 DEF Flush, PolicyInv, MemoryCurrent, conns
<1>9. CASE Crash(n)
    <2>1. StoredCurrent'
        BY Zenon, <1>9 DEF Crash, PolicyInv, StoredCurrent, TypeOK, Running, Go, Exit, blobs
    <2>2. ~tainted
        BY Zenon, <1>9 DEF Crash
    <2>3. ASSUME NEW m \in Node, NEW r \in Real, hot'[m][r] \in Clone
          PROVE  hot'[m][r].by = ca'[m]
        BY Zenon, <1>9, <2>2, <2>3 DEF Crash, PolicyInv, MemoryCurrent, TypeOK, Exit, Cold
    <2>4. ASSUME NEW c \in Conn, got'[c] \in Clone PROVE got'[c].by = ca'[NodeOf[c]]
        BY Zenon, <1>9, <2>2, <2>4, CertAssumption DEF Crash, PolicyInv, MemoryCurrent, TypeOK, Exit
    <2>5. MemoryCurrent'
        BY Zenon, <2>3, <2>4 DEF MemoryCurrent
    <2> QED BY Zenon, <2>1, <2>5
<1> QED BY Zenon, <1>1, <1>2, <1>3, <1>4, <1>5, <1>6, <1>7, <1>8, <1>9 DEF Start

\* Delivering keeps what connections hold governed by their node's CA.
LEMMA DeliverCurrent ==
    ASSUME TypeOK, MemoryCurrent, NEW c \in Conn,
           NEW x \in Clone \cup {NoChain, Error}, Deliver(c, x),
           x \in Clone => x.by = ca[NodeOf[c]], UNCHANGED ca
    PROVE  \A d \in Conn : got'[d] \in Clone => got'[d].by = ca'[NodeOf[d]]
BY Zenon DEF TypeOK, MemoryCurrent, Deliver, Waiting, Same

LEMMA ConnCurrent ==
    ASSUME TypeOK, ServedInv, PolicyInv, NEW c \in Conn, For(c) \/ Mint(c)
    PROVE  PolicyInv'
<1> SUFFICES ASSUME ~tainted' PROVE StoredCurrent' /\ MemoryCurrent'
    BY Zenon DEF PolicyInv
<1> USE Records DEF ServedInv
<1> DEFINE n == NodeOf[c]
<1>0. /\ n \in Node /\ req[c] \in Real
      /\ pc[c] # "idle" => Running(n)
      /\ pc[c] \in {"fill", "hotput", "link"} => got[c] \in Clone
    BY Zenon, CertAssumption DEF TypeOK, DownIsEmpty, HeldRight
<1>c. CloneChain(n, req[c]) \in Clone /\ CloneChain(n, req[c]).by = ca[n]
    BY Zenon, <1>0 DEF TypeOK, CloneChain
<1>t. ~tainted
    BY Zenon DEF For, Mint, ReadClone, FillHot, PutClone, PutHot, ensureLinks
<1>i. StoredCurrent /\ MemoryCurrent
    BY Zenon, <1>t DEF PolicyInv
<1>1. CASE For(c)
    <2>1. StoredCurrent'
        BY <1>1, <1>i DEF For, StoredCurrent, Running, blobs, nodes
    <2>2. PICK r \in Real : \/ got' = [got EXCEPT ![c] = NoChain]
                            \/ got' = [got EXCEPT ![c] = hot[n][r]]
        BY Zenon, <1>1 DEF For
    <2>3. \A d \in Conn : got'[d] \in Clone => got'[d].by = ca[NodeOf[d]]
        <3>1. ASSUME NEW d \in Conn, d # c
              PROVE  got'[d] = got[d]
            BY Zenon, <2>2, <3>1 DEF TypeOK
        <3>2. got'[c] = NoChain \/ got'[c] = hot[n][r]
            BY Zenon, <2>2 DEF TypeOK
        <3>3. /\ \A d \in Conn : got[d] \in Clone => got[d].by = ca[NodeOf[d]]
              /\ hot[n][r] \in Clone => hot[n][r].by = ca[n]
            BY Zenon, <1>0, <1>i DEF MemoryCurrent
        <3>4. got'[c] \in Clone => got'[c].by = ca[n]
            BY <3>2, <3>3
        <3>5. ASSUME NEW d \in Conn, d # c
              PROVE  got'[d] \in Clone => got'[d].by = ca[NodeOf[d]]
            BY Zenon, <3>1, <3>3, <3>5
        <3> QED BY Zenon, <3>4, <3>5
    <2>4. hot' = hot /\ ca' = ca
        BY Zenon, <1>1 DEF For, nodes
    <2>5. MemoryCurrent'
        BY Zenon, <1>i, <2>3, <2>4 DEF MemoryCurrent
    <2> QED BY Zenon, <2>1, <2>5
<1>2. CASE ReadClone(c)
    <2>1. StoredCurrent'
        BY Zenon, <1>2, <1>i DEF ReadClone, StoredCurrent, Running, blobs, nodes
    <2>2. certs[req[c]] \in Clone => certs[req[c]].by = ca[n]
        BY Zenon, <1>0, <1>2, <1>i DEF ReadClone, StoredCurrent
    <2>3. \A d \in Conn : got'[d] \in Clone => got'[d].by = ca[NodeOf[d]]
        <3>1. CASE Deliver(c, Error)
            BY Zenon, <1>2, <1>i, <3>1, DeliverCurrent DEF ReadClone, nodes
        <3>2. CASE UNCHANGED got
            BY Zenon, <1>i, <3>2 DEF MemoryCurrent
        <3>3. CASE got' = [got EXCEPT ![c] = certs[req[c]]]
            BY Zenon, <1>i, <2>2, <3>3 DEF MemoryCurrent, TypeOK
        <3> QED BY Zenon, <1>2, <3>1, <3>2, <3>3 DEF ReadClone
    <2> QED BY Zenon, <1>2, <1>i, <2>1, <2>3 DEF ReadClone, MemoryCurrent, nodes
<1>3. CASE FillHot(c)
    <2>1. StoredCurrent'
        BY Zenon, <1>3, <1>i DEF FillHot, StoredCurrent, Running, blobs
    <2>2. got[c] \in Clone /\ got[c].by = ca[n]
        BY Zenon, <1>0, <1>3, <1>i DEF FillHot, MemoryCurrent
    <2>3. \A d \in Conn : got'[d] \in Clone => got'[d].by = ca'[NodeOf[d]]
        BY Zenon, <1>3, <1>i, <2>2, DeliverCurrent DEF FillHot
    <2>4. \A m \in Node, r \in Real : hot'[m][r] \in Clone => hot'[m][r].by = ca'[m]
        BY Zenon, <1>0, <1>3, <1>i, <2>2 DEF FillHot, MemoryCurrent, TypeOK
    <2> QED BY Zenon, <2>1, <2>3, <2>4 DEF MemoryCurrent
<1>4. CASE PutClone(c)
    <2>1. CASE /\ certs' = [certs EXCEPT ![req[c]] = CloneChain(n, req[c])]
               /\ got' = [got EXCEPT ![c] = CloneChain(n, req[c])]
               /\ tuple = ca[n] /\ \A m \in Node : phase[m] # "down" => ca[m] = ca[n]
        <3>1. StoredCurrent'
            BY Zenon, <1>0, <1>c, <1>4, <1>i, <2>1 DEF PutClone, StoredCurrent, TypeOK, Running, nodes
        <3> QED BY Zenon, <1>c, <1>4, <1>i, <2>1, <3>1 DEF PutClone, MemoryCurrent, TypeOK, nodes
    <2>2. CASE Deliver(c, Error) /\ UNCHANGED certs
        <3>1. StoredCurrent'
            BY Zenon, <1>4, <1>i, <2>2 DEF PutClone, StoredCurrent, Running, nodes
        <3>2. \A d \in Conn : got'[d] \in Clone => got'[d].by = ca'[NodeOf[d]]
            BY Zenon, <1>4, <1>i, <2>2, DeliverCurrent DEF PutClone, nodes
        <3> QED BY Zenon, <1>4, <1>i, <3>1, <3>2 DEF PutClone, MemoryCurrent, nodes
    <2> QED BY Zenon, <1>4, <2>1, <2>2 DEF PutClone
<1>5. CASE PutHot(c)
    <2>1. StoredCurrent'
        BY Zenon, <1>5, <1>i DEF PutHot, StoredCurrent, Running, blobs
    <2>2. got[c] \in Clone /\ got[c].by = ca[n]
        BY Zenon, <1>0, <1>5, <1>i DEF PutHot, MemoryCurrent
    <2> QED BY Zenon, <1>0, <1>5, <1>i, <2>1, <2>2 DEF PutHot, MemoryCurrent, TypeOK
<1>6. CASE ensureLinks(c)
    <2>1. StoredCurrent'
        BY Zenon, <1>6, <1>i DEF ensureLinks, StoredCurrent, Running, nodes
    <2>2. got[c] \in Clone /\ got[c].by = ca[n]
        BY Zenon, <1>0, <1>6, <1>i DEF ensureLinks, MemoryCurrent
    <2>3. Deliver(c, got[c]) \/ Deliver(c, Error)
        BY Zenon, <1>6 DEF ensureLinks
    <2>4. \A d \in Conn : got'[d] \in Clone => got'[d].by = ca'[NodeOf[d]]
        BY Zenon, <1>6, <1>i, <2>2, <2>3, DeliverCurrent DEF ensureLinks, nodes
    <2> QED BY Zenon, <1>6, <1>i, <2>1, <2>4 DEF ensureLinks, MemoryCurrent, nodes
<1> QED BY Zenon, <1>1, <1>2, <1>3, <1>4, <1>5, <1>6 DEF Mint

LEMMA PolicyStep ==
    ASSUME TypeOK, ServedInv, PolicyInv, [Next]_vars
    PROVE  PolicyInv'
<1>1. CASE \E n \in Node : Start(n) \/ Flush(n) \/ Crash(n)
    BY Zenon, <1>1, NodeCurrent
<1>2. CASE \E c \in Conn : For(c) \/ Mint(c)
    BY Zenon, <1>2, ConnCurrent
<1>3. CASE EditCA
    BY Zenon, <1>3 DEF EditCA, PolicyInv, StoredCurrent, MemoryCurrent, Running, nodes, conns
<1>4. CASE UNCHANGED vars
    BY Zenon, <1>4 DEF vars, PolicyInv, StoredCurrent, MemoryCurrent, Running
<1> QED BY Zenon, <1>1, <1>2, <1>3, <1>4 DEF Next
-----------------------------------------------------------------------------
(* The theorems *)

LEMMA Inductive == Spec => [](TypeOK /\ ServedInv /\ PolicyInv)
<1>1. TypeOK /\ ServedInv /\ PolicyInv /\ [Next]_vars => (TypeOK /\ ServedInv /\ PolicyInv)'
    BY Zenon, NextTypes, ServedStep, PolicyStep DEF ServedInv
<1> QED BY InitTypes, <1>1, PTL DEF Spec

\* Every variable of the fleet, of its shared Storage and of the connections
\* keeps its type: what CertCache holds, in leaf/certs or in its hot map, is a
\* clone or nothing.
THEOREM TypeCorrect == Spec => []TypeOK
BY Inductive, PTL

\* In a fleet of any size, through any sequence of CA replacements, crashes and
\* flushes, a connection is served a clone of the chain it asked for, signed by
\* the key of the CA that its node sends along.
THEOREM ServesOnlyVerified == Spec => []ServedVerifies
<1>1. TypeOK /\ ServedInv => ServedVerifies
    BY Zenon DEF ServedInv, HeldRight, ServedVerifies, Answered
<1> QED BY Inductive, <1>1, PTL

\* In a fleet of any size, without a clone stored across a CA change and
\* without a listing cut short, the CA certificate behind a served clone is the
\* node's current one: wiping leaf/ before .tuple is written is enough, whatever
\* crashes in between.
THEOREM ServesCurrentPolicy == Spec => []PolicyIsCurrent
<1>1. PolicyInv => PolicyIsCurrent
    BY Zenon DEF PolicyInv, MemoryCurrent, PolicyIsCurrent, Answered
<1> QED BY Inductive, <1>1, PTL
=============================================================================
