-------------------------- MODULE ClientIdentity --------------------------
(***************************************************************************)
(* Who a client is: the address rules are selected by, recovered behind    *)
(* load balancers (internal/proxy/trustedproxy.go), and the principal of   *)
(* the auth.http_proxy gate (internal/rules/auth.go, proxy/auth.go).       *)
(* Texts are sequences of characters only where the code cuts them.        *)
(***************************************************************************)
EXTENDS Lists

CONSTANTS
    Peer,      \* addresses
    Trusted    \* those covered by --trusted-proxies

isTrustedPeer(a) == a \in Trusted

\* Mutant: the walk goes from the client's end of the list.
recoverClientIPLeft(peer, lines, xri) ==
    LET hops == Concat(lines)
        at == FirstIn(hops, LAMBDA h : h \in Peer /\ ~isTrustedPeer(h))
    IN IF ~isTrustedPeer(peer) THEN peer
       ELSE IF at # 0 THEN hops[at]
       ELSE IF xri \in Peer THEN xri ELSE peer

\* recoverClientIP: the X-Forwarded-For lines are one list, walked from the
\* right past empty, unparsable and trusted hops; then X-Real-IP; then the peer.
recoverClientIP(peer, lines, xri) ==
    LET hops == Concat(lines)
        at == LastIn(hops, LAMBDA h : h \in Peer /\ ~isTrustedPeer(h))
    IN IF ~isTrustedPeer(peer) THEN peer
       ELSE IF at # 0 THEN hops[at]
       ELSE IF xri \in Peer THEN xri ELSE peer

-----------------------------------------------------------------------------
(* The gate.  A configuration has `required`, `basic`, a sequence of users  *)
(* and passwords, `bearer`, a sequence of ids and tokens, and `broker`: none,*)
(* or which of socket, url and path are given.  A hash is what it is the    *)
(* hash of, or BadHash.                                                     *)

Colon == ":"
NoBroker == {}
NoPrincipal == <<>>
BadHash == <<"bad">>
Absent == [scheme |-> "none", value |-> <<>>]
Refused == <<"refused">>  \* the broker said no
Broken == <<"broken">>    \* the broker cannot be reached or makes no sense

\* Mutant: a required gate may have no scheme.
CompileAuthLax(hp) ==
    /\ hp.broker # NoBroker =>
          /\ ("socket" \in hp.broker) # ("url" \in hp.broker)
          /\ ~({"url", "path"} \subseteq hp.broker)
    /\ \A i \in DOMAIN hp.basic : hp.basic[i].user # <<>> /\ hp.basic[i].hash # BadHash
    /\ \A i \in DOMAIN hp.bearer : hp.bearer[i].id # <<>> /\ hp.bearer[i].hash # BadHash

\* CompileAuth: is the block accepted?
CompileAuth(hp) ==
    /\ hp.broker # NoBroker =>
          /\ ("socket" \in hp.broker) # ("url" \in hp.broker)
          /\ ~({"url", "path"} \subseteq hp.broker)
    /\ hp.required => hp.basic # <<>> \/ hp.bearer # <<>> \/ hp.broker # NoBroker
    /\ \A i \in DOMAIN hp.basic : hp.basic[i].user # <<>> /\ hp.basic[i].hash # BadHash
    /\ IsInjective([i \in DOMAIN hp.basic |-> hp.basic[i].user])
    /\ \A i \in DOMAIN hp.bearer : hp.bearer[i].id # <<>> /\ hp.bearer[i].hash # BadHash
    /\ IsInjective([i \in DOMAIN hp.bearer |-> hp.bearer[i].id])

ChallengeSchemes(hp) ==
    (IF hp.basic # <<>> \/ hp.broker # NoBroker THEN {"Basic"} ELSE {})
    \cup (IF hp.bearer # <<>> \/ hp.broker # NoBroker THEN {"Bearer"} ELSE {})

\* The decoded text is cut at its first colon.
authenticateBasic(hp, text) ==
    LET cut == FirstIn(text, LAMBDA c : c = Colon)
        user == SubSeq(text, 1, cut - 1)
        pass == SubSeq(text, cut + 1, Len(text))
        at == FirstIn(hp.basic, LAMBDA c : c.user = user /\ c.hash = pass)
    IN IF cut = 0 \/ at = 0 THEN NoPrincipal ELSE hp.basic[at].user

authenticateBearer(hp, token) ==
    LET at == FirstIn(hp.bearer, LAMBDA c : c.hash = token)
    IN IF at = 0 THEN NoPrincipal ELSE hp.bearer[at].id

\* header is a scheme and a value, or Absent: none, or one that is not such a pair.
Authenticate(hp, header) ==
    CASE header.scheme = "Basic" -> authenticateBasic(hp, header.value)
      [] header.scheme = "Bearer" -> authenticateBearer(hp, header.value)
      [] OTHER -> NoPrincipal

\* Outcall.Do's verdict: a principal, which may be missing, or a failure.
authenticateBroker(header, verdict) ==
    IF header = Absent \/ verdict \in {Refused, Broken} THEN NoPrincipal ELSE verdict

\* checkAuth: the status the client is told (0: it may pass) and the principal.
checkAuth(hp, explicit, header, verdict) ==
    LET local == Authenticate(hp, header)
        p == IF local = NoPrincipal /\ hp.broker # NoBroker
             THEN authenticateBroker(header, verdict) ELSE local
    IN CASE ~hp.required -> [status |-> 0, principal |-> NoPrincipal]
         [] hp.required /\ ~explicit -> [status |-> 403, principal |-> NoPrincipal]
         [] hp.required /\ explicit /\ p = NoPrincipal ->
                [status |-> 407, principal |-> NoPrincipal]
         [] OTHER -> [status |-> 0, principal |-> p]

-----------------------------------------------------------------------------
(* Properties *)

\* The address rules are selected by is one a trusted hop vouched for: an
\* untrusted peer's headers count for nothing, the split of the list into header
\* lines makes no difference, and what stands left of the last untrusted address
\* cannot change the outcome ("a client cannot inject a fake identity by
\* pre-seeding its own XFF").
RecoveredIsVouchedFor(peer, lines, xri, seeds) ==
    LET c == recoverClientIP(peer, lines, xri)
        hops == Concat(lines)
        vouched == \E h \in Range(hops) : h \in Peer \ Trusted
    IN /\ ~isTrustedPeer(peer) => c = peer
       /\ c = recoverClientIP(peer, <<hops>>, xri)
       /\ vouched => \A s \in seeds : c = recoverClientIP(peer, <<s>> \o lines, xri)

\* A user a Basic header can name.
Nameable(hp) == \A i \in DOMAIN hp.basic : Colon \notin Range(hp.basic[i].user)

\* A required gate that was accepted at load time lets through exactly the
\* explicit clients whose credential is configured or approved by the broker,
\* under the name it belongs to; it never opens when the broker fails; and it is
\* no dead end: each scheme a 407 challenges with is one by which somebody can
\* pass ("a required gate actually has some way to authenticate").  headers and
\* verdicts are all there are.
GateIsExact(hp, headers, verdicts) ==
    CompileAuth(hp) /\ hp.required =>
        /\ \A h \in headers, v \in verdicts :
              LET r == checkAuth(hp, TRUE, h, v)
                  mine == {c \in Range(hp.basic) :
                             h.scheme = "Basic" /\ h.value = c.user \o <<Colon>> \o c.hash}
                  tokens == {c \in Range(hp.bearer) :
                             h.scheme = "Bearer" /\ h.value = c.hash}
              IN /\ checkAuth(hp, FALSE, h, v).status = 403
                 /\ (r.status = 0) =
                       (\/ mine # {} \/ tokens # {}
                        \/ hp.broker # NoBroker /\ h # Absent
                           /\ v \notin {Refused, Broken, NoPrincipal})
                 /\ mine # {} => r.principal \in {c.user : c \in mine}
                 /\ tokens # {} => r.principal \in {c.id : c \in tokens}
        /\ ChallengeSchemes(hp) # {}
        /\ \A s \in ChallengeSchemes(hp) : \E h \in headers, v \in verdicts :
              h.scheme = s /\ checkAuth(hp, TRUE, h, v).status = 0

\* GateIsExact for the users that can be named: CompileAuth also accepts a user
\* with a colon, whom authenticateBasic never recognises.
AuthGateIsExact(hp, headers, verdicts) == Nameable(hp) => GateIsExact(hp, headers, verdicts)
=============================================================================
