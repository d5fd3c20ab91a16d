----------------------------- MODULE Connection -----------------------------
(***************************************************************************)
(* One client connection through internal/proxy: the entry points          *)
(* (serveConnect, serveAbsoluteForm, serveTransparentTLS and               *)
(* serveTransparentOpaque), the gates they share (rule lookup, checkAuth,  *)
(* LookupConn, resolveAndPin), TLS termination, the request loop of h1     *)
(* clients and the concurrent streams of h2 clients, and the upstream      *)
(* connections both round trippers open, replace and close.                *)
(*                                                                         *)
(* Every rule lookup may return another rule set: operators write rules    *)
(* while connections live.  Hosts are kept as far as the code compares     *)
(* them: a CONNECT line, an SNI and every request name one each.           *)
(***************************************************************************)
EXTENDS Naturals, FiniteSets, Sequences

CONSTANTS
    Addr,      \* addresses names resolve to
    Host,      \* hosts, in canonical form
    OrigDst,   \* the destination recovered for a transparent session
    OrigHost,  \* that destination as a literal host
    Policies,  \* rule sets a lookup may return
    Req,       \* requests of the connection
    MaxDials   \* bound on upstream connections that get opened

Proto == {"http", "https", "tcp"}
Handler == {"http", "tcp"}

\* A rule set by its verdicts: the auth gate, the connection phase per host and
\* protocol, the allowed destinations, and what the rule a request matches does.
Policy == [auth : BOOLEAN,
           conn : [Host -> [Proto -> {"none", "deny", "splice", "mitm"}]],
           egress : SUBSET (Addr \X Handler),
           msg : {"none", "page", "reset", "forward"}]

ASSUME ConnectionAssumption ==
    /\ OrigDst \in Addr /\ OrigHost \in Host /\ Policies \subseteq Policy /\ MaxDials \in Nat

NoAddr == "none"
NoHost == "none"
NoPolicy == [auth |-> TRUE, conn |-> [h \in Host |-> [p \in Proto |-> "none"]],
             egress |-> {}, msg |-> "none"]

VARIABLES
    kind,    \* how the connection arrived
    pc,
    proto,   \* connIn.Proto
    host,    \* connIn.Host
    sni,     \* the host TLS is terminated for and dialed with
    rs,      \* the rule set of the connection phase
    authed,  \* checkAuth let it pass
    mitm,
    answer,  \* the addresses the name resolved to
    dst,     \* the pinned one
    told,    \* what the client was told last, outside of responses
    client,  \* the protocol spoken with the client
    up,      \* the round tripper's protocol
    ups,     \* every upstream connection opened
    cur,     \* the round tripper's current one
    req      \* per request

vars == <<kind, pc, proto, host, sni, rs, authed, mitm, answer, dst, told, client, up, ups,
          cur, req>>
phase == <<kind, proto, host, sni, rs, authed, mitm, answer, dst>>

\* An upstream connection: whether it takes new streams, whether the client was
\* gone when it was dialed, and (history) what took it from its streams.
Upstream == [addr : Addr, st : {"open", "draining", "closed"}, usable : BOOLEAN,
             late : BOOLEAN, lost : {"no", "origin", "deadline"}]

\* A request: the host it names, its method is idempotent, it has a body, it
\* asks for an upgrade; the connection it is on, the one opened for it alone,
\* those that got bytes of it, and whether its body was read.
Request == [st : {"new", "send", "retry", "conn", "sent", "done"}, host : Host \cup {NoHost},
            msg : {"none", "page", "reset", "forward"}, idem : BOOLEAN, body : BOOLEAN,
            upgrade : BOOLEAN, on : Nat, fb : Nat, wrote : SUBSET Nat, spent : BOOLEAN]
NoReq == [st |-> "new", host |-> NoHost, msg |-> "none", idem |-> TRUE, body |-> FALSE,
          upgrade |-> FALSE, on |-> 0, fb |-> 0, wrote |-> {}, spent |-> FALSE]

\* The type invariant.
TypeOK ==
    /\ kind \in {"connect", "absolute", "transparent", "tls", "opaque"}
    /\ pc \in {"accepted", "lookup", "auth", "match", "parse", "pin", "probe", "hello",
               "tunnel", "splice", "failed", "h2connect", "dial", "relay", "closed"}
    /\ proto \in Proto /\ {host, sni} \subseteq Host \cup {NoHost} /\ rs \in Policies \cup {NoPolicy}
    /\ authed \in BOOLEAN /\ mitm \in BOOLEAN /\ answer \in Seq(Addr) /\ dst \in Addr \cup {NoAddr}
    /\ told \in {"nothing", "page", "established", "tls", "tlspage", "desync"}
    /\ client \in {"h1", "h2"} /\ up \in {"h1", "h2"} /\ (client = "h2" => up = "h2")
    /\ ups \in Seq(Upstream) /\ Len(ups) <= MaxDials /\ cur \in 0 .. Len(ups)
    /\ req \in [Req -> Request]
    /\ \A r \in Req : /\ {req[r].on, req[r].fb} \subseteq 0 .. Len(ups)
                      /\ req[r].wrote \subseteq 1 .. Len(ups)

Explicit == kind \in {"connect", "absolute"}

\* An upstream connection to a.
Opened(a, s) == Append(ups, [addr |-> a, st |-> s, usable |-> TRUE, late |-> pc = "closed",
                             lost |-> "no"])
MayDial == Len(ups) < MaxDials
Close(us, i) == IF i = 0 THEN us ELSE [us EXCEPT ![i].st = "closed"]

\* The handler returns before any upstream connection is kept, having told the
\* client t.
Return(t) ==
    /\ pc' = "closed" /\ told' = t
    /\ UNCHANGED <<phase, client, up, ups, cur, req>>

\* An error page where the client can still read one; silence otherwise.
Page == Return(IF Explicit THEN "page" ELSE told)

Goto(l) == pc' = l /\ UNCHANGED told
NoUpstream == UNCHANGED <<client, up, ups, cur, req>>

-----------------------------------------------------------------------------
(* The connection phase *)

\* Serve: an explicit request is read and parsed, or refused.
Serve ==
    /\ pc = "accepted" /\ Explicit
    /\ \/ \E t \in {"nothing", "page"} : Return(t)
       \/ /\ Goto("lookup")
          /\ proto' = IF kind = "connect" THEN "https" ELSE "http"
          /\ host' \in Host
          /\ UNCHANGED <<kind, sni, rs, authed, mitm, answer, dst>> /\ NoUpstream

\* serveTransparent: a ClientHello, whose SNI (or else the destination) is the
\* host, other bytes, or nothing before the deadline.
serveTransparent ==
    /\ pc = "accepted" /\ kind = "transparent"
    /\ \/ Return(told)
       \/ /\ Goto("lookup")
          /\ \/ kind' = "tls" /\ proto' = "https" /\ host' \in Host /\ sni' = host'
             \/ kind' = "opaque" /\ proto' = "tcp" /\ host' = OrigHost /\ UNCHANGED sni
          /\ UNCHANGED <<rs, authed, mitm, answer, dst>> /\ NoUpstream

Lookup ==
    /\ pc = "lookup"
    /\ \/ Return(told)
       \/ \E p \in Policies :
             /\ Goto("auth") /\ rs' = p /\ authed' = FALSE
             /\ UNCHANGED <<kind, proto, host, sni, mitm, answer, dst>> /\ NoUpstream

\* checkAuth writes its page on transparent connections too.
checkAuth ==
    /\ pc = "auth"
    /\ \/ rs.auth /\ Return("page")
       \/ /\ rs.auth => Explicit
          /\ Goto("match") /\ authed' = TRUE
          /\ UNCHANGED <<kind, proto, host, sni, rs, mitm, answer, dst>> /\ NoUpstream

\* LookupConn and its refusals.  Opaque traffic that is to be intercepted is
\* parsed as HTTP and starts over with the host it names.
LookupConn ==
    LET d == rs.conn[host][proto] IN
    /\ pc = "match"
    /\ \/ d \in {"none", "deny"} /\ Page
       \/ /\ d \in {"splice", "mitm"}
          /\ mitm' = (d = "mitm")
          /\ Goto(IF proto = "tcp" /\ d = "mitm" THEN "parse" ELSE "pin")
          /\ UNCHANGED <<kind, proto, host, sni, rs, authed, answer, dst>> /\ NoUpstream

serveTransparentOpaqueMITM ==
    /\ pc = "parse"
    /\ \/ Return(told)
       \/ /\ Goto("lookup") /\ proto' = "http" /\ host' \in Host
          /\ UNCHANGED <<kind, sni, rs, authed, mitm, answer, dst>> /\ NoUpstream

handler == IF proto = "tcp" THEN "tcp" ELSE "http"

\* Mutant: the address to be dialed is checked, the others are not.
EgressAllowsFirst(s) == <<s[1], handler>> \in rs.egress

EgressAllows(s) == \A i \in 1 .. Len(s) : <<s[i], handler>> \in rs.egress

\* resolveAndPin: one resolution, every address checked, the first one pinned.
resolveAndPin ==
    /\ pc = "pin"
    /\ \/ Explicit /\ Page
       \/ \E s \in IF Explicit THEN {<<a>> : a \in Addr} \cup (Addr \X Addr) ELSE {<<OrigDst>>} :
             \/ ~EgressAllows(s) /\ Page
             \/ /\ EgressAllows(s)
                /\ answer' = s /\ dst' = s[1]
                /\ Goto(IF kind = "connect" THEN "probe" ELSE IF proto = "http" THEN "dial"
                        ELSE "tunnel")
                /\ UNCHANGED <<kind, proto, host, sni, rs, authed, mitm>> /\ NoUpstream

\* serveConnect: the reachability probe, closed at once, and the 200.
Probe ==
    /\ pc = "probe"
    /\ \/ Page
       \/ /\ MayDial
          /\ ups' = Opened(dst, "closed")
          /\ \/ pc' = "closed" /\ UNCHANGED told
             \/ pc' = (IF mitm THEN "hello" ELSE "tunnel") /\ told' = "established"
          /\ UNCHANGED <<phase, client, up, cur, req>>

sameHost(a, b) == a = b

\* A page over a handshake with a synthetic leaf.  Minting the leaf may fail,
\* and so may its handshake.
Fallback == \E t \in {told, "tlspage", "desync"} : Return(t)

\* serveConnect: the ClientHello, and an SNI (the CONNECT host where it has none)
\* that must name the CONNECT host.
Hello ==
    /\ pc = "hello"
    /\ \/ Return(told)
       \/ \E s \in Host :
             \/ ~sameHost(s, host) /\ Fallback
             \/ /\ sameHost(s, host) /\ sni' = s /\ Goto("tunnel")
                /\ UNCHANGED <<kind, proto, host, rs, authed, mitm, answer, dst>> /\ NoUpstream

-----------------------------------------------------------------------------
(* The tunnel *)

rawSplice ==
    /\ pc = "tunnel" /\ ~mitm
    /\ \/ Return(told)
       \/ /\ MayDial /\ ups' = Opened(dst, "open") /\ cur' = Len(ups')
          /\ Goto("splice") /\ UNCHANGED <<phase, client, up, req>>

SpliceEnds ==
    /\ pc = "splice"
    /\ Goto("closed") /\ ups' = Close(ups, cur)
    /\ UNCHANGED <<phase, client, up, cur, req>>

\* Mutant: the upstream connection stays open when minting fails.
TerminateLeaving ==
    /\ pc = "tunnel" /\ mitm
    /\ \/ Goto("failed") /\ UNCHANGED <<ups, cur, client, up>>
       \/ /\ MayDial /\ ups' = Opened(dst, "open") /\ UNCHANGED <<cur, client, up>>
          /\ pc' = "failed" /\ told' \in {told, "desync"}
    /\ UNCHANGED <<phase, req>>

\* Mutant: h2 is offered whatever upstream negotiated.
TerminateAnyALPN ==
    /\ pc = "tunnel" /\ mitm /\ MayDial
    /\ \E u \in {"h1", "h2"}, c \in {"h1", "h2"} :
          /\ ups' = Opened(dst, "open") /\ cur' = Len(ups')
          /\ told' = "tls" /\ client' = c /\ up' = u
          /\ pc' = IF u = "h2" THEN "h2connect" ELSE "relay"
    /\ UNCHANGED <<phase, req>>

\* Terminate: dial, mint the clone, shake hands.  h2 is offered to the client
\* only when upstream speaks it.
Terminate ==
    /\ pc = "tunnel" /\ mitm
    /\ \/ Goto("failed") /\ UNCHANGED <<ups, cur, client, up>>
       \/ /\ MayDial /\ ups' = Opened(dst, "closed") /\ UNCHANGED <<cur, client, up>>
          /\ pc' = "failed" /\ told' \in {told, "desync"}
       \/ \E u \in {"h1", "h2"}, c \in {"h1", "h2"} :
             /\ MayDial /\ (c = "h2" => u = "h2")
             /\ ups' = Opened(dst, "open") /\ cur' = Len(ups')
             /\ told' = "tls" /\ client' = c /\ up' = u
             /\ pc' = IF u = "h2" THEN "h2connect" ELSE "relay"
    /\ UNCHANGED <<phase, req>>

\* Mutant: a page is tried after a failed handshake too.
terminateFailedAnyPhase ==
    /\ pc = "failed"
    /\ Fallback

\* terminateFailed: the fallback, unless the client's own handshake was tried.
terminateFailed ==
    /\ pc = "failed"
    /\ \/ told = "desync" /\ Return(told)
       \/ told # "desync" /\ Fallback

\* newUpstreamH2ClientConn: the preface exchange, on a new connection when it
\* failed, until the tries are used up.
newUpstreamH2ClientConn ==
    /\ pc = "h2connect"
    /\ \/ Goto("relay") /\ UNCHANGED <<ups, cur>>
       \/ /\ MayDial /\ Goto("h2connect")
          /\ ups' = Append(Close(ups, cur), Opened(dst, "open")[Len(ups) + 1])
          /\ cur' = Len(ups')
       \/ /\ pc' = "closed" /\ told' = IF client = "h1" THEN "tlspage" ELSE told
          /\ ups' = Close(ups, cur) /\ UNCHANGED cur
    /\ UNCHANGED <<phase, client, up, req>>

\* serveAbsoluteForm and serveTransparentOpaqueMITM dial in the clear.
DialPlain ==
    /\ pc = "dial"
    /\ \/ Page
       \/ /\ MayDial /\ ups' = Opened(dst, "open") /\ cur' = Len(ups')
          /\ Goto("relay") /\ client' = "h1" /\ up' = "h1"
          /\ UNCHANGED <<phase, req>>

-----------------------------------------------------------------------------
(* Requests *)

Active(r) == req[r].st \notin {"new", "done"}

\* The handler is done with r, now q, upstream connections us, current c.  An
\* h1 connection ends with it unless it is kept alive, and closes what it owns.
Finish(r, q, us, c, keep) ==
    LET over == client = "h1" /\ ~keep IN
    /\ req' = [req EXCEPT ![r] = [q EXCEPT !.st = "done"]]
    /\ ups' = Close(IF over THEN Close(us, c) ELSE us, q.fb)
    /\ cur' = c
    /\ pc' = IF over THEN "closed" ELSE pc
    /\ UNCHANGED <<phase, told, client, up>>

\* The client leaves: an h1 handler notices between two requests, http2.Server
\* at any time, and its streams' handlers run on.
ClientLeaves ==
    /\ pc = "relay"
    /\ client = "h1" => \A r \in Req : ~Active(r)
    /\ Goto("closed") /\ ups' = Close(ups, cur)
    /\ UNCHANGED <<phase, client, up, cur, req>>

\* h1 requests follow one another, h2 streams run side by side.
MayBegin(r) ==
    /\ pc = "relay" /\ req[r].st = "new"
    /\ client = "h1" => \A q \in Req : ~Active(q)

\* Another port is another host here.
authorityMatches(h) == sameHost(h, host)

\* A request that is read from the client: it names h.
Read(h) == [NoReq EXCEPT !.host = h, !.on = IF up = "h1" THEN cur ELSE 0]

\* A lookup of its own and the actions of the rule it matches: the lookup fails,
\* the request is refused or answered with a page, or it goes to the round trip.
Judged(r, q) ==
    \/ Finish(r, q, ups, cur, FALSE)
    \/ \E p \in Policies :
          LET d == [q EXCEPT !.msg = p.msg] IN
          \/ p.msg # "forward" /\ Finish(r, d, ups, cur, FALSE)
          \/ /\ p.msg = "forward"
             /\ req' = [req EXCEPT ![r] = [d EXCEPT !.st = IF up = "h1" THEN "send" ELSE "conn"]]
             /\ UNCHANGED <<phase, pc, told, client, up, ups, cur>>

\* A request of an h1 client, up to the round trip.
handleOneRequest(r) ==
    /\ MayBegin(r) /\ client = "h1"
    /\ \E h \in Host, idem, body, upgrade \in BOOLEAN :
          LET q == [Read(h) EXCEPT !.idem = idem, !.body = body, !.upgrade = upgrade] IN
          \/ ~authorityMatches(h) /\ Finish(r, q, ups, cur, FALSE)
          \/ authorityMatches(h) /\ Judged(r, q)

\* Mutant: a stream's authority is not compared with the connection's host.
handleH2StreamAnyHost(r) ==
    /\ MayBegin(r) /\ client = "h2"
    /\ \E h \in Host : Judged(r, Read(h))

\* A stream of an h2 client, up to the round trip; a refusal ends the stream
\* alone.
handleH2Stream(r) ==
    /\ MayBegin(r) /\ client = "h2"
    /\ \E h \in Host :
          \/ ~authorityMatches(h) /\ Finish(r, Read(h), ups, cur, FALSE)
          \/ authorityMatches(h) /\ Judged(r, Read(h))

\* An upgrade cannot go over h2: one h1 connection for this request alone.
H1Fallback(r) ==
    /\ req[r].st = "conn" /\ client = "h1" /\ req[r].upgrade
    /\ \/ Finish(r, req[r], ups, cur, FALSE)
       \/ /\ MayDial /\ ups' = Opened(dst, "open")
          /\ req' = [req EXCEPT ![r].st = "send", ![r].on = Len(ups'), ![r].fb = Len(ups')]
          /\ UNCHANGED <<phase, pc, told, client, up, cur>>

\* roundTripOnce: q after an attempt on connection i that wrote nothing, wrote
\* something, or was answered.  Request.Write reads or closes the body either
\* way, so a second attempt with a body cannot be answered.
Tried(q, i, o) ==
    [q EXCEPT !.wrote = IF o = "nothing" THEN @ ELSE @ \cup {i}, !.spent = q.body]
Outcomes(q) == {"nothing", "some"} \cup (IF q.spent THEN {} ELSE {"answered"})

\* Mutant: whatever failed is tried again.
MayRetryAlways(q, o) == q.fb = 0

MayRetry(q, o) == q.fb = 0 /\ (o = "nothing" \/ q.idem)

\* h1RoundTripper.RoundTrip, first attempt; a failure that may not be retried
\* (or whose header block was too large) becomes a page.
RoundTrip(r) ==
    LET q == req[r] IN
    /\ q.st = "send"
    /\ \E o \in Outcomes(q) :
          \/ o = "answered" /\ \E keep \in BOOLEAN : Finish(r, Tried(q, q.on, o), ups, cur, keep)
          \/ (o = "some" \/ (o = "nothing" /\ ~MayRetry(q, o)))
             /\ Finish(r, Tried(q, q.on, o), ups, cur, FALSE)
          \/ /\ o # "answered" /\ MayRetry(q, o)
             /\ req' = [req EXCEPT ![r] = [Tried(q, q.on, o) EXCEPT !.st = "retry"]]
             /\ UNCHANGED <<phase, pc, told, client, up, ups, cur>>

\* Its second attempt, on a new connection, which replaces the first if it is
\* answered and is closed if not.
Retry(r) ==
    LET q == req[r]
        n == Len(ups) + 1
    IN
    /\ q.st = "retry"
    /\ \/ Finish(r, q, ups, cur, FALSE)
       \/ /\ MayDial
          /\ \E o \in Outcomes(q) :
                IF o = "answered"
                THEN \E keep \in BOOLEAN :
                        Finish(r, Tried(q, n, o), Close(Opened(dst, "open"), cur), n, keep)
                ELSE Finish(r, Tried(q, n, o), Opened(dst, "closed"), cur, FALSE)

\* Mutant: a stale connection is closed under the streams it still carries.
StaleClosed(us) == IF cur = 0 THEN us ELSE Close(us, cur)

\* A stale h2 connection drains in the background.
Stale(us) == IF cur = 0 \/ us[cur].st # "open" THEN us
             ELSE [us EXCEPT ![cur].st = "draining"]

\* h2RoundTripper.currentConn, under its mutex.
currentConn(r) ==
    LET live == cur # 0 /\ ups[cur].st = "open" /\ ups[cur].usable
        On(i) == [req EXCEPT ![r].st = "sent", ![r].on = i, ![r].wrote = {i}]
    IN
    /\ req[r].st = "conn" /\ ~(client = "h1" /\ req[r].upgrade)
    /\ \/ live /\ req' = On(cur) /\ UNCHANGED <<phase, pc, told, client, up, ups, cur>>
       \/ ~live /\ Finish(r, req[r], Stale(ups), 0, FALSE)
       \/ /\ ~live /\ MayDial
          /\ ups' = Stale(Opened(dst, "open")) /\ cur' = Len(ups') /\ req' = On(cur')
          /\ UNCHANGED <<phase, pc, told, client, up>>

\* h2RoundTripper.RoundTrip: the response, or a reset, a closed connection, the
\* read timeout.
StreamEnds(r) ==
    /\ req[r].st = "sent"
    /\ \/ Finish(r, req[r], ups, cur, FALSE)
       \/ ups[req[r].on].st # "closed" /\ Finish(r, req[r], ups, cur, TRUE)

\* The origin sends GOAWAY: no new streams, those in flight may finish.
OriginStops ==
    /\ up = "h2" /\ cur # 0 /\ ups[cur].st = "open" /\ ups[cur].usable
    /\ ups' = [ups EXCEPT ![cur].usable = FALSE]
    /\ UNCHANGED <<phase, pc, told, client, up, cur, req>>

Carries(i) == \E r \in Req : req[r].st = "sent" /\ req[r].on = i

\* The origin breaks off a connection that carries streams, current or draining.
OriginBreaks(i) ==
    /\ Carries(i) /\ ups[i].st # "closed"
    /\ ups' = [ups EXCEPT ![i].usable = FALSE, ![i].lost = "origin"]
    /\ UNCHANGED <<phase, pc, told, client, up, cur, req>>

\* The background shutdown of a stale connection returns: no stream is left on
\* it, or the origin broke it off.
Drained(i) ==
    /\ ups[i].st = "draining" /\ (~Carries(i) \/ ups[i].lost = "origin")
    /\ ups' = Close(ups, i)
    /\ UNCHANGED <<phase, pc, told, client, up, cur, req>>

\* Its ten seconds are over, and streams are still on it.
DrainExpires(i) ==
    /\ ups[i].st = "draining" /\ Carries(i)
    /\ ups' = [ups EXCEPT ![i].st = "closed", ![i].lost = "deadline"]
    /\ UNCHANGED <<phase, pc, told, client, up, cur, req>>

Init ==
    /\ kind \in {"connect", "absolute", "transparent"} /\ pc = "accepted"
    /\ proto = "tcp" /\ host = NoHost /\ sni = NoHost /\ rs = NoPolicy /\ authed = FALSE /\ mitm = FALSE
    /\ answer = <<>> /\ dst = NoAddr /\ told = "nothing" /\ client = "h1" /\ up = "h1"
    /\ ups = <<>> /\ cur = 0 /\ req = [r \in Req |-> NoReq]

Next ==
    \/ Serve \/ serveTransparent \/ Lookup \/ checkAuth \/ LookupConn
    \/ serveTransparentOpaqueMITM \/ resolveAndPin \/ Probe \/ Hello \/ rawSplice
    \/ SpliceEnds \/ Terminate \/ terminateFailed \/ newUpstreamH2ClientConn \/ DialPlain
    \/ ClientLeaves \/ OriginStops
    \/ \E r \in Req : \/ handleOneRequest(r) \/ handleH2Stream(r) \/ H1Fallback(r)
                      \/ RoundTrip(r) \/ Retry(r) \/ currentConn(r) \/ StreamEnds(r)
    \/ \E i \in 1 .. Len(ups) : OriginBreaks(i) \/ Drained(i) \/ DrainExpires(i)

Spec == Init /\ [][Next]_vars

-----------------------------------------------------------------------------
(* Properties *)

\* Nothing is dialed for a connection, probe, splice, redials, reconnects and
\* upgrade fallbacks included, before one rule set has let it through all its
\* gates under the host it goes by, and nothing but the one pinned address of a
\* resolution whose every address that rule set allows (checkAuth, LookupConn,
\* resolveAndPin).
DialsAuthorized ==
    ups # <<>> =>
        /\ authed /\ rs.conn[host][proto] \in {"splice", "mitm"}
        /\ \A i \in 1 .. Len(ups) : ups[i].addr = dst
        /\ \A i \in 1 .. Len(answer) :
              <<answer[i], IF proto = "tcp" THEN "tcp" ELSE "http">> \in rs.egress

\* One host end to end: whatever a connection went by when it arrived, a request
\* that reaches upstream names the host the rules were asked about, TLS was
\* terminated and dialed for that host, and a rule forwards the request.  Three
\* separate checks keep it so: the SNI's (serveConnect), and the authority's of
\* kept-alive h1 requests and of h2 streams (authorityMatches).
OneHost ==
    \A r \in Req : req[r].wrote # {} =>
        /\ req[r].host = host /\ req[r].msg = "forward"
        /\ proto = "https" => sni = host

\* The bytes of a request that is not idempotent reach one upstream connection
\* at most, whichever of them fails and when (h1RoundTripper's "only when it's
\* provably safe").
SentOnce ==
    \A r \in Req : ~req[r].idem => Cardinality(req[r].wrote) <= 1

\* Upstream connections neither pile up nor stay behind.  However often streams
\* race to reconnect and requests are retried, one is open besides those of
\* running upgrades, the others closed or draining; and whatever path ends the
\* client connection, that one is closed too, unless a stream reconnected after
\* h2RoundTripper.Close, which nobody closes any more.
NothingOutlives ==
    \A i \in 1 .. Len(ups) : ups[i].st = "open" =>
        /\ i = cur \/ \E r \in Req : Active(r) /\ req[r].fb = i
        /\ pc = "closed" /\ (\A r \in Req : ~Active(r)) => ups[i].late /\ client = "h2"

\* While the client stays, a stream in flight has lost its upstream connection
\* to the origin or to the ten seconds a replaced connection has to drain, never
\* to another stream that reconnects, fails to, or ends: currentConn's "Closing
\* rt.upConn here immediately would sever those too".
StreamsSurvive ==
    \A r \in Req : req[r].st = "sent" /\ ups[req[r].on].st = "closed" =>
        pc = "closed" \/ ups[req[r].on].lost # "no"

\* A client is told things on one channel: no page in the clear once the tunnel
\* is up, nothing at all once its own handshake failed (terminateFailed).
OneChannel ==
    [][/\ told = "established" => told' # "page"
       /\ told = "desync" => told' = "desync"]_vars
=============================================================================
