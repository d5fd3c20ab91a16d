----------------------------- MODULE CertChain -----------------------------
(***************************************************************************)
(* What a clone is: internal/cert/clone.go, the order and verification of  *)
(* a stored clone in cache.go, and the chain of a bring-your-own signing   *)
(* CA in ca.go.  A certificate is its subject and issuer names, its key,   *)
(* the key that signed it, its NotAfter and whether it is a CA.            *)
(***************************************************************************)
EXTENDS Lists

CONSTANTS Name, CAName, Unconstrained

Cert == [sub : Name, iss : Name, key : Nat \X Nat, by : Nat \X Nat,
         notAfter : Nat, isCA : BOOLEAN]

\* A signing CA: its path length constraint is a number or Unconstrained.
CAKey == <<0, 0>>

\* x509.Certificate.CheckSignatureFrom.
CheckSignatureFrom(c, p) == c.by = p.key /\ p.isCA

\* issuanceBudget: may ca issue n intermediate levels?
Fits(ca, n) == ca.pathLen = Unconstrained \/ n <= ca.pathLen

\* CloneChain: flatten a chain that does not fit; each element copies its real
\* counterpart, is signed by the next one up, and the last by the CA, which it
\* may not outlive.  Keys are derived: the leaf's from its names, an
\* intermediate's from its issuer and serial number.
derivedKey(real, i) == IF i = 1 THEN <<1, real.sub>> ELSE <<2 + real.serial, real.iss>>

\* Mutant: every element is clamped to the CA's validity.
notAfterClamped(ca, chain, i) ==
    IF chain[i].notAfter > ca.notAfter THEN ca.notAfter ELSE chain[i].notAfter

notAfter(ca, chain, i) ==
    IF i = Len(chain) /\ chain[i].notAfter > ca.notAfter
    THEN ca.notAfter ELSE chain[i].notAfter

CloneChain(ca, realChain) ==
    LET chain == IF Fits(ca, Len(realChain) - 1) THEN realChain ELSE <<realChain[1]>>
        last == Len(chain)
    IN [i \in DOMAIN chain |->
          [sub |-> chain[i].sub,
           iss |-> IF i = last THEN CAName ELSE chain[i + 1].sub,
           key |-> derivedKey(chain[i], i),
           by |-> IF i = last THEN CAKey ELSE derivedKey(chain[i + 1], i + 1),
           notAfter |-> notAfter(ca, chain, i),
           isCA |-> chain[i].isCA]]

-----------------------------------------------------------------------------
(* A stored clone *)

NoOrder == <<>>

\* bySubject keeps the last certificate of a name.
bySubject(bag, n) ==
    LET at == {i \in DOMAIN bag : bag[i].sub = n} IN
    IF at = {} THEN 0 ELSE Max(at)

isIssuer(bag, n) == \E i \in DOMAIN bag : bag[i].iss = n

\* One turn of the loop of orderChainLeafFirst: the issuer of the last element
\* is appended unless it is missing or was seen.
follow(bag, ordered) ==
    LET next == bySubject(bag, ordered[Len(ordered)].iss) IN
    IF next = 0 \/ \E i \in DOMAIN ordered : ordered[i].sub = bag[next].sub
    THEN ordered ELSE Append(ordered, bag[next])

\* Mutant: the bag order is trusted.
orderAsStored(bag) == bag

\* orderChainLeafFirst: follow the issuers from the first element that issued
\* none; NoOrder is its error.  Every turn of the loop adds a name of the bag, so
\* it has ended after Len(bag) turns.
orderChainLeafFirst(bag) ==
    LET leaf == FirstIn(bag, LAMBDA c : ~isIssuer(bag, c.sub))
        walk[n \in 0 .. Len(bag)] ==
            IF n = 0 THEN <<bag[leaf]>> ELSE follow(bag, walk[n - 1])
        ordered == walk[Len(bag)]
    IN IF leaf = 0 THEN NoOrder
       ELSE IF Len(ordered) # Len(bag) THEN NoOrder ELSE ordered

\* CertCache.verify; the leaf key is derived again from the leaf's names.
verify(chain) ==
    /\ chain[1].key = derivedKey(chain[1], 1)
    /\ \A i \in DOMAIN chain :
          IF i < Len(chain) THEN CheckSignatureFrom(chain[i], chain[i + 1])
          ELSE chain[i].by = CAKey

-----------------------------------------------------------------------------
(* The chain of the signing CA *)

isSelfSigned(c) == CheckSignatureFrom(c, c)

\* Mutant: a parent is found by its name alone.
findParentByName(c, pool) == FirstIn(pool, LAMBDA p : p.sub = c.iss)

\* findVerifiedParent: the first of the pool with the right name and key.
findVerifiedParent(c, pool) ==
    FirstIn(pool, LAMBDA p : p.sub = c.iss /\ CheckSignatureFrom(c, p))

\* One turn of the loop of resolveChain.  links is the certificate and the
\* intermediates so far, which are also the ones seen; st is "run" until the
\* root is found ("ok") or there is none: an incomplete chain, or a cycle.
climb(pool, s) ==
    LET p == findVerifiedParent(s.links[Len(s.links)], pool) IN
    CASE s.st # "run" -> s
      [] s.st = "run" /\ (p = 0 \/ pool[p] \in Range(s.links)) -> [s EXCEPT !.st = "error"]
      [] s.st = "run" /\ p # 0 /\ pool[p] \notin Range(s.links) ->
            IF isSelfSigned(pool[p]) THEN [s EXCEPT !.st = "ok"]
            ELSE [s EXCEPT !.links = Append(@, pool[p])]

\* resolveChain: the intermediates up to a root of the pool, or an error.  The
\* loop ends after Len(pool) + 1 turns at the latest: none repeats a certificate.
resolveChain(c, pool) ==
    LET walk[n \in 0 .. Len(pool) + 1] ==
            IF n = 0 THEN [st |-> "run", links |-> <<c>>] ELSE climb(pool, walk[n - 1])
        s == walk[Len(pool) + 1]
    IN IF isSelfSigned(c) THEN [st |-> "ok", chain |-> <<>>]
       ELSE [st |-> s.st, chain |-> Tail(s.links)]

-----------------------------------------------------------------------------
(* Properties *)

Distinct(chain) ==
    /\ \A i, j \in DOMAIN chain : i # j => chain[i].sub # chain[j].sub
    /\ \A i \in DOMAIN chain : chain[i].sub # CAName

Issuable(chain) == \A i \in 2 .. Len(chain) : chain[i].isCA

ReloadsAs(ca, realChain) ==
    LET clone == CloneChain(ca, realChain) IN
    \A bag \in {[i \in DOMAIN clone |-> clone[p[i]]] : p \in Bijection(DOMAIN clone, DOMAIN clone)} :
        /\ orderChainLeafFirst(bag) = clone
        /\ Issuable(clone) => verify(orderChainLeafFirst(bag))

\* A clone stored by one process is served unchanged by the next: whatever
\* order PKCS#12 returns its certificates in, they are put back in the order
\* they were minted in and pass verify-on-hit, if the names of the real chain
\* are distinct and its issuers are CAs.
CloneReloads(ca, realChain) == Distinct(realChain) => ReloadsAs(ca, realChain)

\* No clone asks its client to accept more intermediates than the signing CA
\* may issue, none is dropped that would have fitted, and the element the CA
\* signs does not outlive the CA; every other validity is the real one.
CloneIsIssuable(ca, realChain) ==
    LET clone == CloneChain(ca, realChain)
        n == Len(clone)
    IN /\ ca.pathLen # Unconstrained => n - 1 <= ca.pathLen
       /\ n < Len(realChain) => Len(realChain) - 1 > ca.pathLen
       /\ clone[n].notAfter <= ca.notAfter
       /\ \A i \in 1 .. n - 1 : clone[i].notAfter = realChain[i].notAfter

\* The climb from a signing certificate ends, whatever cycles its bundle holds;
\* a signing CA that loads has a chain every link of which verifies, up to a
\* self-signed root of its bundle.
ResolvedChainVerifies(c, pool) ==
    LET r == resolveChain(c, pool)
        links == <<c>> \o r.chain
    IN /\ r.st # "run"
       /\ r.st = "ok" =>
          /\ \A i \in 1 .. Len(r.chain) : CheckSignatureFrom(links[i], links[i + 1])
          /\ isSelfSigned(c) \/ \E p \in Range(pool) :
                isSelfSigned(p) /\ CheckSignatureFrom(links[Len(links)], p)

\* A leaf and CAs above it, as servers send them: an intermediate may be sent
\* twice.
WellFormed(chain) ==
    ~chain[1].isCA /\ Issuable(chain)
    /\ \A i \in 2 .. Len(chain) : chain[i].sub \notin {chain[1].sub, CAName}

\* "a restart just means a cold, empty map that refills lazily from Storage":
\* every clone that was minted and stored can be loaded again.
EveryCloneReloads(ca, realChain) ==
    WellFormed(realChain) => ReloadsAs(ca, realChain)
=============================================================================
