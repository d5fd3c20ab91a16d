----------------------------- MODULE Algorithms -----------------------------
(***************************************************************************)
(* The pure algorithms: the default table, the host index, cloned, bundled *)
(* and own certificates, client addresses behind load balancers and the    *)
(* auth gate.  A behaviour draws an input of one of them, of which         *)
(* something is claimed, and starts again.                                 *)
(***************************************************************************)
EXTENDS DefaultTable, CertChain, ClientIdentity, OwnCerts

CONSTANTS
    Documents,     \* rules/default documents: sequences of keys
    RuleLists,     \* lists of rules with a host matcher
    Hosts,         \* hosts clients ask for
    RealChains,    \* a signing CA and the chain of a real server
    Bundles,       \* a signing certificate and the bundle it came with
    Forwardings,   \* a peer with its X-Forwarded-For lines and X-Real-IP
    Gates,         \* auth.http_proxy blocks
    Listenings,    \* names of the https listener at two starts
    Hop,           \* what a comma separates in X-Forwarded-For
    Seeds,         \* X-Forwarded-For lines a client may put in front
    Headers,       \* Proxy-Authorization headers
    Verdicts       \* what a broker may answer

VARIABLE input

\* Documents, rule lists and hosts are sequences.
ASSUME TableAssumption ==
    Documents \subseteq Seq(RawKey) /\ RuleLists \subseteq Seq(Rule) /\ Hosts \subseteq Seq(Char)

\* The certificates of a real chain as far as a clone copies them.
RealCert == [sub : Name, iss : Name, serial : Nat, notAfter : Nat, isCA : BOOLEAN]

\* A server sends at least its leaf; the pathLenConstraint of a CA is a number
\* if there is one.
ASSUME ChainAssumption ==
    \A p \in RealChains :
        /\ p.ca.pathLen \in Nat \cup {Unconstrained} /\ p.ca.notAfter \in Nat
        /\ p.chain \in Seq(RealCert) /\ p.chain # <<>>

\* A bundle is a sequence of certificates.
ASSUME BundleAssumption ==
    \A p \in Bundles : p.cert \in Cert /\ p.pool \in Seq(Cert)

\* X-Forwarded-For lines are sequences of hops.
ASSUME ForwardingAssumption ==
    /\ Seeds \subseteq Seq(Hop)
    /\ \A p \in Forwardings : p.lines \in Seq(Seq(Hop))

\* Credentials are texts; each one of a gate that compiles may be sent in a
\* header, so may something of either scheme that only a broker knows, and a
\* broker may approve of it.
ASSUME GateAssumption ==
    /\ Colon \in Char
    /\ \A h \in Headers : h.value \in Seq(Char)
    /\ \A hp \in Gates :
          /\ hp.basic \in Seq([user : Seq(Char), hash : Seq(Char)])
          /\ hp.bearer \in Seq([id : Seq(Char), hash : Seq(Char)])
          /\ CompileAuth(hp) =>
                /\ \A c \in Range(hp.basic) : \E h \in Headers :
                      h.scheme = "Basic" /\ h.value = c.user \o <<Colon>> \o c.hash
                /\ \A c \in Range(hp.bearer) : \E h \in Headers :
                      h.scheme = "Bearer" /\ h.value = c.hash
    /\ \A s \in {"Basic", "Bearer"} : \E h \in Headers : h.scheme = s
    /\ Verdicts \ {Refused, Broken, NoPrincipal} # {}

\* A listener has a name; no name holds a NUL.
ASSUME ListenerAssumption ==
    \A l \in Listenings :
        /\ {l.first, l.second} \subseteq Seq(Seq(Char \ {Nul})) \ {<<>>}
        /\ l.later \in Nat /\ l.end \in Nat

DrawTable == \E d \in Documents : input' = [kind |-> "table", doc |-> d]
DrawRules == \E r \in RuleLists : input' = [kind |-> "rules", rules |-> r]
DrawChain == \E p \in RealChains : input' = [kind |-> "chain", ca |-> p.ca, chain |-> p.chain]
DrawBundle == \E p \in Bundles : input' = [kind |-> "bundle", cert |-> p.cert, pool |-> p.pool]
DrawForwarded ==
    \E p \in Forwardings :
        input' = [kind |-> "forwarded", peer |-> p.peer, lines |-> p.lines, xri |-> p.xri]
DrawGate == \E hp \in Gates : input' = [kind |-> "gate", hp |-> hp]
DrawListener ==
    \E l \in Listenings :
        input' = [kind |-> "listener", first |-> l.first, second |-> l.second,
                  later |-> l.later, end |-> l.end]

Start == [kind |-> "start"]
Init == input = Start
Next ==
    \/ input = Start /\ (DrawTable \/ DrawRules \/ DrawChain \/ DrawBundle
                          \/ DrawForwarded \/ DrawGate \/ DrawListener)
    \/ input # Start /\ input' = Start

Spec == Init /\ [][Next]_input

-----------------------------------------------------------------------------
(* Properties *)

\* checkCoverage accepts a default table exactly when its plain prefixes
\* cover every address of both families (it walks sorted ranges: gaps, overlaps
\* and the last address of a family are where it could go wrong).
TableCoverage == input.kind = "table" => CoverageIsExact(input.doc)

\* A client gets the bucket of the matching mask that is largest as a number,
\* whatever the order of the document (sortByMaskDescending, Lookup).
TableBuckets == input.kind = "table" => OneBucketPerClient(input.doc)

\* Entries that name one masked key in different spellings are one entry, the
\* last one (parseDefaultRuleset, canonical).
TableLastEntry == input.kind = "table" => LastEntryWins(input.doc)

\* The host index of LookupConn and LookupRequest never changes which rule is
\* selected: appendCandidates omits no possible match and keeps rule order.
IndexTransparent == input.kind = "rules" => IndexIsTransparent(input.rules, Hosts)

\* A clone of a chain with distinct names, stored, loads again in leaf
\* first order and verifies (orderChainLeafFirst, verify).
ClonesReload == input.kind = "chain" => CloneReloads(input.ca, input.chain)

\* A clone never exceeds what the CA may issue: path length and the
\* validity of what it signs (CloneChain, issuanceBudget).
ClonesIssuable == input.kind = "chain" => CloneIsIssuable(input.ca, input.chain)

\* The climb from a signing CA ends, and the chain served with the CA verifies
\* link by link up to a root (resolveChain, findVerifiedParent).
BundleResolves == input.kind = "bundle" => ResolvedChainVerifies(input.cert, input.pool)

\* The client address behind load balancers is one a trusted hop wrote, whatever
\* the client put in front (recoverClientIP).
ClientIsVouchedFor ==
    input.kind = "forwarded" => RecoveredIsVouchedFor(input.peer, input.lines, input.xri, Seeds)

\* A gate that compiles admits exactly its credentials, under their names, and can
\* be passed by every scheme it challenges with (CompileAuth, checkAuth).
GateAdmitsItsOwn == input.kind = "gate" => AuthGateIsExact(input.hp, Headers, Verdicts)

\* The https listener keeps its certificate over restarts and gets another one
\* with other names (SelfCert, selfCertIdentityHash).
ListenerCertFits ==
    input.kind = "listener" =>
        ListenerKeepsIdentity(input.first, input.second, input.later, input.end)
=============================================================================
