----------------------------- MODULE CertFleet -----------------------------
(***************************************************************************)
(* The signing CA and the leaf cache of a fleet: internal/cert/ca.go,      *)
(* cache.go and factory.go over the shared Storage.  Nodes start (load or  *)
(* generate the CA, reconcile .tuple, wipe leaf/), serve clones of real    *)
(* chains through singleflight, a hot map and Storage, flush, and crash;   *)
(* operators replace or remove ca/ca.p12.  Every Storage call and every    *)
(* critical section of CertCache.mu is a step of its own.                  *)
(*                                                                         *)
(* All nodes run under one clusterKey, which names the cache ids, encrypts *)
(* ca.p12 and derives the leaf keys.  A CA is its key and its policy       *)
(* (pathLen, validity, chain): a re-issued CA keeps the key.  CertChain    *)
(* models what a clone is.                                                 *)
(***************************************************************************)
EXTENDS Naturals, FiniteSets

CONSTANTS
    Node,      \* proxy processes
    Conn,      \* connections that ask for a certificate
    NodeOf,    \* the node a connection arrives at
    Real,      \* real chains observed upstream
    Tangled,   \* the real chains whose stored clone cannot be put in order again
    Name,      \* host names, and the one a real chain's leaf is for
    NameOf,
    FreshKey,  \* keys generateCA() may draw
    Bundles,   \* ca.p12 files operators install
    MaxEdits,  \* bound on installs and removals of ca.p12
    MaxCrashes,
    MaxFlushes,
    MayFail    \* Storage calls may fail

CA == [key : Nat, policy : Nat]

\* A ca.p12: `opens` is decodeCA succeeding, i.e. the right clusterKey, a valid
\* signing certificate and a complete chain.
P12 == [ca : CA, opens : BOOLEAN]

NoCA    == [key |-> 0, policy |-> 0]
NoP12   == [ca |-> NoCA, opens |-> FALSE]
NoReal  == "none"

\* A clone: the real chain it copies and the CA that signed it.
Clone == [real : Real, by : CA]
NoChain == [real |-> NoReal, by |-> NoCA]
Error == [real |-> "error", by |-> NoCA]

ASSUME CertAssumption ==
    /\ NodeOf \in [Conn -> Node] /\ Tangled \subseteq Real /\ NameOf \in [Real -> Name]
    /\ {NoReal, "error"} \cap Real = {}
    /\ FreshKey \subseteq Nat \ {0} /\ Bundles \subseteq P12
    /\ MaxEdits \in Nat /\ MaxCrashes \in Nat /\ MaxFlushes \in Nat
    /\ MayFail \in BOOLEAN

VARIABLES
    p12,     \* the blob ca/ca.p12
    tuple,   \* the blob .tuple: the CA certificate it was computed from
    certs,   \* leaf/certs: per real chain, the stored clone
    names,   \* leaf/names: per name, the real chain the operator index links to
    phase,   \* per node: where its startup, or its Flush, is
    ca,      \* per node: the CA in memory
    hot,     \* per node: CertCache.hot
    todo,    \* per node: what DeletePrefix still has to delete
    pc,      \* per connection: the next step of CertFactory.For
    req,     \* per connection: the real chain it asks for
    got,     \* per connection: the chain served, or the error
    edits, crashes, flushes,
    keys,    \* history: keys drawn so far
    tainted  \* history: a clone was stored while another CA was in use, or the
             \* listing of a wipe was cut short

blobs == <<p12, tuple, certs, names>>
nodes == <<phase, ca, hot, todo>>
conns == <<pc, req, got>>
bounds == <<edits, crashes, flushes>>
vars == <<p12, tuple, certs, names, phase, ca, hot, todo, pc, req, got,
          edits, crashes, flushes, keys, tainted>>

Leader == {"read", "fill", "put", "hotput", "link"}
Starting == {"persist", "check", "list", "wipe", "tuple"}

TypeOK ==
    /\ p12 \in P12 \cup {NoP12} /\ tuple \in CA
    /\ certs \in [Real -> Clone \cup {NoChain}] /\ names \in [Name -> Real \cup {NoReal}]
    /\ phase \in [Node -> {"down", "up", "flist", "fwipe", "freset"} \cup Starting]
    /\ ca \in [Node -> CA]
    /\ hot \in [Node -> [Real -> Clone \cup {NoChain}]]
    /\ todo \in [Node -> SUBSET (Real \cup Name)]
    /\ pc \in [Conn -> {"idle", "wait"} \cup Leader]
    /\ req \in [Conn -> Real] /\ got \in [Conn -> Clone \cup {NoChain, Error}]
    /\ edits \in 0 .. MaxEdits /\ crashes \in 0 .. MaxCrashes
    /\ flushes \in 0 .. MaxFlushes
    /\ keys \subseteq Nat /\ tainted \in BOOLEAN

-----------------------------------------------------------------------------
(* Startup: LoadOrGenerateCA and reconcileTuple *)

Cold == [r \in Real |-> NoChain]
Go(n, p) == phase' = [phase EXCEPT ![n] = p]

\* A failed start: the process exits.
Exit(n) == Go(n, "down") /\ ca' = [ca EXCEPT ![n] = NoCA]

LoadOrGenerateCA(n) ==
    /\ phase[n] = "down"
    /\ \/ /\ p12 = NoP12
          /\ \E k \in {k \in FreshKey \ keys : \A j \in FreshKey \ keys : k <= j} :
                /\ ca' = [ca EXCEPT ![n] = [key |-> k, policy |-> 0]]
                /\ keys' = keys \cup {k}
          /\ Go(n, "persist")
       \/ /\ p12 # NoP12 /\ p12.opens
          /\ ca' = [ca EXCEPT ![n] = p12.ca]
          /\ Go(n, "check")
          /\ UNCHANGED keys
    /\ UNCHANGED <<blobs, hot, todo, conns, bounds, tainted>>

persistCA(n) ==
    /\ phase[n] = "persist"
    /\ \/ /\ p12' = [ca |-> ca[n], opens |-> TRUE]
          /\ Go(n, "list") /\ UNCHANGED ca
       \/ MayFail /\ Exit(n) /\ UNCHANGED p12
    /\ UNCHANGED <<tuple, certs, names, hot, todo, conns, bounds, keys, tainted>>

\* Mutant: the tuple hashes the CA's public key only.
CheckTupleKeyOnly(n) ==
    /\ phase[n] = "check"
    /\ Go(n, IF tuple.key = ca[n].key THEN "up" ELSE "list")
    /\ UNCHANGED <<blobs, ca, hot, todo, conns, bounds, keys, tainted>>

\* reconcileTuple: an unchanged tuple ends the startup.
CheckTuple(n) ==
    /\ phase[n] = "check"
    /\ \/ tuple = ca[n] /\ Go(n, "up") /\ UNCHANGED ca
       \/ tuple # ca[n] /\ Go(n, "list") /\ UNCHANGED ca
       \/ MayFail /\ Exit(n)
    /\ UNCHANGED <<blobs, hot, todo, conns, bounds, keys, tainted>>

\* DeletePrefix lists leaf/ and deletes what it found, object by object.  A
\* listing that fails midway (S3) ends the list and not the call.
ListLeaf(n) ==
    LET all == {r \in Real : certs[r] # NoChain} \cup {m \in Name : names[m] # NoReal} IN
    /\ phase[n] \in {"list", "flist"}
    /\ \E found \in IF MayFail THEN SUBSET all ELSE {all} :
          /\ todo' = [todo EXCEPT ![n] = found]
          /\ tainted' = (tainted \/ found # all)
    /\ Go(n, IF phase[n] = "list" THEN "wipe" ELSE "fwipe")
    /\ UNCHANGED <<blobs, ca, hot, conns, bounds, keys>>

WipeLeaf(n) ==
    /\ phase[n] \in {"wipe", "fwipe"}
    /\ \/ \E d \in todo[n] :
             /\ todo' = [todo EXCEPT ![n] = @ \ {d}]
             /\ certs' = [r \in Real |-> IF r = d THEN NoChain ELSE certs[r]]
             /\ names' = [m \in Name |-> IF m = d THEN NoReal ELSE names[m]]
             /\ UNCHANGED <<phase, ca>>
       \/ /\ todo[n] = {}
          /\ Go(n, IF phase[n] = "wipe" THEN "tuple" ELSE "freset")
          /\ UNCHANGED <<ca, todo, certs, names>>
       \/ /\ MayFail
          /\ IF phase[n] = "wipe" THEN Exit(n) ELSE Go(n, "up") /\ UNCHANGED ca
          /\ todo' = [todo EXCEPT ![n] = {}]
          /\ UNCHANGED <<certs, names>>
    /\ UNCHANGED <<p12, tuple, hot, conns, bounds, keys, tainted>>

WriteTuple(n) ==
    /\ phase[n] = "tuple"
    /\ \/ tuple' = ca[n] /\ Go(n, "up") /\ UNCHANGED ca
       \/ MayFail /\ Exit(n) /\ UNCHANGED tuple
    /\ UNCHANGED <<p12, certs, names, hot, todo, conns, bounds, keys, tainted>>

-----------------------------------------------------------------------------
(* CertFactory.For *)

Running(n) == phase[n] \in {"up", "flist", "fwipe", "freset"}

\* Mutant: a hit is served without being verified.
verifyNothing(n, c) == c # NoChain

\* CertCache.verify: the leaf key is derived from the clusterKey the id is
\* derived from, so what can fail is the signature under the current CA's key.
verify(n, c) == c # NoChain /\ c.by.key = ca[n].key

CloneChain(n, r) == [real |-> r, by |-> ca[n]]

\* singleflight: the leader of c's call and those who wait for it.
Same(c, d) == NodeOf[c] = NodeOf[d] /\ req[c] = req[d]
Waiting(c) == {d \in Conn : d # c /\ pc[d] = "wait" /\ Same(c, d)}
Deliver(c, x) ==
    /\ pc' = [d \in Conn |-> IF d = c \/ d \in Waiting(c) THEN "idle" ELSE pc[d]]
    /\ got' = [d \in Conn |-> IF d = c \/ d \in Waiting(c) THEN x ELSE got[d]]
    /\ UNCHANGED req

At(c, p) == pc' = [pc EXCEPT ![c] = p]

\* For: join a call in flight, or lead one, which reads the hot map first.
For(c) ==
    LET n == NodeOf[c] IN
    \E r \in Real :
        /\ Running(n) /\ pc[c] = "idle"
        /\ req' = [req EXCEPT ![c] = r]
        /\ IF \E d \in Conn : NodeOf[d] = n /\ req[d] = r /\ pc[d] \in Leader
           THEN At(c, "wait") /\ got' = [got EXCEPT ![c] = NoChain]
           ELSE IF verify(n, hot[n][r])
           THEN got' = [got EXCEPT ![c] = hot[n][r]] /\ UNCHANGED pc
           ELSE /\ At(c, IF hot[n][r] = NoChain THEN "read" ELSE "put")
                /\ got' = [got EXCEPT ![c] = NoChain]
        /\ UNCHANGED <<blobs, nodes, bounds, keys, tainted>>

\* Mutant: get goes on after a failed read.
ReadCloneIgnoringErrors(c) ==
    /\ pc[c] = "read"
    /\ \/ MayFail /\ got' = [got EXCEPT ![c] = Error]
       \/ got' = [got EXCEPT ![c] = certs[req[c]]]
    /\ At(c, "fill")
    /\ UNCHANGED <<blobs, nodes, bounds, keys, tainted, req>>

\* get: Storage.Get, decode, order and verify.
ReadClone(c) ==
    LET n == NodeOf[c]
        x == certs[req[c]]
    IN
    /\ pc[c] = "read"
    /\ \/ /\ MayFail \/ (x # NoChain /\ req[c] \in Tangled)
          /\ Deliver(c, Error)
       \/ /\ x = NoChain \/ (req[c] \notin Tangled /\ ~verify(n, x))
          /\ At(c, "put") /\ UNCHANGED <<req, got>>
       \/ /\ x # NoChain /\ req[c] \notin Tangled /\ verify(n, x)
          /\ At(c, "fill") /\ got' = [got EXCEPT ![c] = x] /\ UNCHANGED req
    /\ UNCHANGED <<blobs, nodes, bounds, keys, tainted>>

FillHot(c) ==
    /\ pc[c] = "fill"
    /\ hot' = [hot EXCEPT ![NodeOf[c]][req[c]] = got[c]]
    /\ Deliver(c, got[c])
    /\ UNCHANGED <<blobs, phase, ca, todo, bounds, keys, tainted>>

\* mint: CloneChain, and put's Storage write.
PutClone(c) ==
    LET n == NodeOf[c] IN
    /\ pc[c] = "put"
    /\ \/ /\ certs' = [certs EXCEPT ![req[c]] = CloneChain(n, req[c])]
          /\ got' = [got EXCEPT ![c] = CloneChain(n, req[c])]
          /\ tainted' = \/ tainted
                        \/ tuple # ca[n]
                        \/ \E m \in Node : phase[m] # "down" /\ ca[m] # ca[n]
          /\ At(c, "hotput") /\ UNCHANGED req
       \/ /\ MayFail /\ Deliver(c, Error)
          /\ UNCHANGED <<certs, tainted>>
    /\ UNCHANGED <<p12, tuple, names, nodes, bounds, keys>>

PutHot(c) ==
    /\ pc[c] = "hotput"
    /\ hot' = [hot EXCEPT ![NodeOf[c]][req[c]] = got[c]]
    /\ At(c, "link")
    /\ UNCHANGED <<blobs, phase, ca, todo, req, got, bounds, keys, tainted>>

ensureLinks(c) ==
    /\ pc[c] = "link"
    /\ \/ names' = [names EXCEPT ![NameOf[req[c]]] = req[c]] /\ Deliver(c, got[c])
       \/ MayFail /\ Deliver(c, Error) /\ UNCHANGED names
    /\ UNCHANGED <<p12, tuple, certs, nodes, bounds, keys, tainted>>

-----------------------------------------------------------------------------
(* DELETE /cache, operators, crashes *)

Flush(n) ==
    /\ phase[n] = "up" /\ flushes < MaxFlushes
    /\ flushes' = flushes + 1
    /\ Go(n, "flist")
    /\ UNCHANGED <<blobs, ca, hot, todo, conns, edits, crashes, keys, tainted>>

ResetHot(n) ==
    /\ phase[n] = "freset"
    /\ hot' = [hot EXCEPT ![n] = Cold]
    /\ Go(n, "up")
    /\ UNCHANGED <<blobs, ca, todo, conns, bounds, keys, tainted>>

\* An operator installs, re-issues or removes ca.p12.
EditCA ==
    /\ edits < MaxEdits
    /\ edits' = edits + 1
    /\ p12' \in Bundles \cup {NoP12}
    /\ UNCHANGED <<tuple, certs, names, nodes, conns, crashes, flushes, keys, tainted>>

\* A node dies; its memory, its hot map and its connections go with it.
Crash(n) ==
    /\ phase[n] # "down" /\ crashes < MaxCrashes
    /\ crashes' = crashes + 1
    /\ Exit(n)
    /\ hot' = [hot EXCEPT ![n] = Cold]
    /\ todo' = [todo EXCEPT ![n] = {}]
    /\ pc' = [c \in Conn |-> IF NodeOf[c] = n THEN "idle" ELSE pc[c]]
    /\ got' = [c \in Conn |-> IF NodeOf[c] = n THEN NoChain ELSE got[c]]
    /\ UNCHANGED <<blobs, req, edits, flushes, keys, tainted>>

Start(n) ==
    \/ LoadOrGenerateCA(n) \/ persistCA(n) \/ CheckTuple(n) \/ ListLeaf(n)
    \/ WipeLeaf(n) \/ WriteTuple(n) \/ ResetHot(n)

Mint(c) ==
    ReadClone(c) \/ FillHot(c) \/ PutClone(c) \/ PutHot(c) \/ ensureLinks(c)

Init ==
    /\ p12 \in Bundles \cup {NoP12} /\ tuple = NoCA
    /\ certs = Cold /\ names = [m \in Name |-> NoReal]
    /\ phase = [n \in Node |-> "down"] /\ ca = [n \in Node |-> NoCA]
    /\ hot = [n \in Node |-> Cold] /\ todo = [n \in Node |-> {}]
    /\ pc = [c \in Conn |-> "idle"] /\ req \in [Conn -> Real]
    /\ got = [c \in Conn |-> NoChain]
    /\ edits = 0 /\ crashes = 0 /\ flushes = 0 /\ keys = {} /\ tainted = FALSE

Next ==
    \/ \E n \in Node : Start(n) \/ Flush(n) \/ Crash(n)
    \/ \E c \in Conn : For(c) \/ Mint(c)
    \/ EditCA

Spec == Init /\ [][Next]_vars

-----------------------------------------------------------------------------
(* Properties *)

Answered(c) == pc[c] = "idle" /\ got[c] \in Clone

\* Whatever other nodes, an older CA or a crashed startup left in leaf/, a
\* connection is served a clone of the chain it asked for that verifies under
\* the CA its node sends along (verify-on-hit in CertCache.get, the id in
\* CertFactory.For, toDERCertificate appending the node's own CA).
ServedVerifies ==
    \A c \in Conn : Answered(c) =>
        got[c].real = req[c] /\ got[c].by.key = ca[NodeOf[c]].key

\* A clone governed by an older certificate of the same key is never served,
\* through any restarts, half-finished startups and flushes, unless some clone
\* was stored while another CA was in use, i.e. while nodes on both sides of a
\* CA change were up, or an S3 listing was cut short, which DeletePrefix does
\* not report (tupleHash over the full certificate, reconcileTuple wiping leaf/
\* before it writes .tuple).
PolicyIsCurrent ==
    ~tainted => \A c \in Conn : Answered(c) => got[c].by = ca[NodeOf[c]]
=============================================================================
