------------------------------- MODULE Relay -------------------------------
(* One spliced connection: internal/proxy/relay.go with its two users,      *)
(* rawSplice (mitm:false) and the 101 upgrade of http1.go, and the wrappers *)
(* that give bytes read too early back to it (prependConn, replayConn,      *)
(* drainBuffered).                                                          *)
(*                                                                          *)
(* A chunk is the number of its place in what its sender sent.  What a peer *)
(* has sent and the proxy has not read is on `wire`, what a parser read past*)
(* the headers is in `buf`, what a copy loop read and did not write yet is  *)
(* in `hold`.  copy[s] is the goroutine that copies FROM side s.            *)
EXTENDS Naturals, Sequences

CONSTANT MaxChunks     \* MaxChunks[s]: chunks that side s may send

Side == {"client", "upstream"}

Other(s) == CHOOSE d \in Side : d # s

ASSUME ChunksAssumption == MaxChunks \in [Side -> Nat]

VARIABLES
    splice,    \* the connection: idle, request, dialed, relay, closed
    sent,      \* sent[s]: how many chunks s has sent
    fin,       \* fin[s]: s has finished sending
    rst,       \* rst[s]: s has aborted its connection
    stalled,   \* stalled[s]: s does not read, and its window is full
    wire,
    buf,
    hold,
    got,       \* got[s]: the chunks s has received
    eof,       \* eof[s]: the proxy has half-closed its connection to s
    copy

peers == <<sent, fin, rst, stalled>>

relayVars == <<splice, peers, wire, buf, hold, got, eof, copy>>

Chunks(s) == Seq(1 .. MaxChunks[s])

\* The type invariant; a direction holds at most one chunk between read and write.
RelayTypeOK ==
    /\ splice \in {"idle", "request", "dialed", "relay", "closed"}
    /\ sent \in [Side -> Nat] /\ \A s \in Side : sent[s] <= MaxChunks[s]
    /\ {fin, rst, stalled, eof} \subseteq [Side -> BOOLEAN]
    /\ {wire, buf, hold, got} \subseteq [Side -> Seq(Nat)]
    /\ \A s \in Side : /\ wire[s] \in Chunks(s) /\ buf[s] \in Chunks(s)
                       /\ hold[s] \in Chunks(s) /\ Len(hold[s]) <= 1
                       /\ got[s] \in Chunks(Other(s))
    /\ copy \in [Side -> {"none", "read", "write", "half", "done"}]

RelayInit ==
    /\ splice = "idle"
    /\ sent = [s \in Side |-> 0]
    /\ fin = [s \in Side |-> FALSE]
    /\ rst = [s \in Side |-> FALSE]
    /\ stalled = [s \in Side |-> FALSE]
    /\ wire = [s \in Side |-> <<>>]
    /\ buf = [s \in Side |-> <<>>]
    /\ hold = [s \in Side |-> <<>>]
    /\ got = [s \in Side |-> <<>>]
    /\ eof = [s \in Side |-> FALSE]
    /\ copy = [s \in Side |-> "none"]

----------------------------------------------------------------------------
(* The peers.                                                               *)

Connected(s) ==
    \/ splice \in {"dialed", "relay"}
    \/ splice = "request" /\ s = "client"

Send(s) ==
    /\ Connected(s) /\ ~fin[s] /\ ~rst[s]
    /\ sent[s] < MaxChunks[s]
    /\ sent' = [sent EXCEPT ![s] = @ + 1]
    /\ wire' = [wire EXCEPT ![s] = Append(@, sent[s] + 1)]
    /\ UNCHANGED <<splice, fin, rst, stalled, buf, hold, got, eof, copy>>

Finish(s) ==
    /\ Connected(s) /\ ~fin[s] /\ ~rst[s]
    /\ fin' = [fin EXCEPT ![s] = TRUE]
    /\ UNCHANGED <<splice, sent, rst, stalled, wire, buf, hold, got, eof, copy>>

\* The connection breaks: what s has sent and nobody read is gone, and writes to
\* s fail.  Closing a socket on data that still arrives has this effect too.
Abort(s) ==
    /\ Connected(s) /\ ~rst[s]
    /\ rst' = [rst EXCEPT ![s] = TRUE]
    /\ stalled' = [stalled EXCEPT ![s] = FALSE]
    /\ wire' = [wire EXCEPT ![s] = <<>>]
    /\ UNCHANGED <<splice, sent, fin, buf, hold, got, eof, copy>>

\* s stops reading or resumes.  It matters while a write to s is pending.
Stall(s) ==
    /\ splice = "relay" /\ ~rst[s]
    /\ copy[Other(s)] = "write"
    /\ stalled' = [stalled EXCEPT ![s] = ~@]
    /\ UNCHANGED <<splice, sent, fin, rst, wire, buf, hold, got, eof, copy>>

Peer(s) == Send(s) \/ Finish(s) \/ Abort(s) \/ Stall(s)

----------------------------------------------------------------------------
(* The handler, up to the splice.                                           *)

\* A parser takes bytes off the connection which it does not consume: the peeked
\* ClientHello, what a client pipelined behind CONNECT, frames behind a 101.
ReadAhead(s) ==
    /\ splice \in {"request", "dialed"}
    /\ wire[s] # <<>>
    /\ buf' = [buf EXCEPT ![s] = Append(@, Head(wire[s]))]
    /\ wire' = [wire EXCEPT ![s] = Tail(@)]
    /\ UNCHANGED <<splice, peers, hold, got, eof, copy>>

Dial ==
    /\ splice = "request"
    /\ splice' = "dialed"
    /\ UNCHANGED <<peers, wire, buf, hold, got, eof, copy>>

\* Both sockets are closed; what was in them is gone.
Closed ==
    /\ splice' = "closed"
    /\ wire' = [s \in Side |-> <<>>]
    /\ buf' = [s \in Side |-> <<>>]
    /\ hold' = [s \in Side |-> <<>>]
    /\ stalled' = [s \in Side |-> FALSE]
    /\ copy' = [s \in Side |-> "done"]
    /\ UNCHANGED <<sent, fin, rst, got, eof>>

\* The dial or the request before it failed: Serve's deferred Close.
Refuse ==
    /\ splice \in {"request", "dialed"}
    /\ Closed

\* Mutant: the splice is started on the bare connections.
StartRaw ==
    /\ splice = "dialed"
    /\ splice' = "relay"
    /\ buf' = [s \in Side |-> <<>>]
    /\ copy' = [s \in Side |-> "read"]
    /\ UNCHANGED <<peers, wire, hold, got, eof>>

\* relay(ctx, Replay(client, ...), Replay(upstream, ...)): two goroutines.
Start ==
    /\ splice = "dialed"
    /\ splice' = "relay"
    /\ copy' = [s \in Side |-> "read"]
    /\ UNCHANGED <<peers, wire, buf, hold, got, eof>>

----------------------------------------------------------------------------
(* The copy loop of one direction (pooledCopy, then closeWrite).            *)

\* Mutant: the next chunk is read before the last one is written.
FetchAhead(s) ==
    /\ copy[s] \in {"read", "write"}
    /\ buf[s] = <<>> /\ wire[s] # <<>>
    /\ hold' = [hold EXCEPT ![s] = Append(@, Head(wire[s]))]
    /\ wire' = [wire EXCEPT ![s] = Tail(@)]
    /\ copy' = [copy EXCEPT ![s] = "write"]
    /\ UNCHANGED <<splice, peers, buf, got, eof>>

\* io.MultiReader: the prefix first, then the connection.
Fetch(s) ==
    /\ copy[s] = "read"
    /\ \/ /\ buf[s] # <<>>
          /\ hold' = [hold EXCEPT ![s] = <<Head(buf[s])>>]
          /\ buf' = [buf EXCEPT ![s] = Tail(@)]
          /\ UNCHANGED wire
       \/ /\ buf[s] = <<>> /\ wire[s] # <<>>
          /\ hold' = [hold EXCEPT ![s] = <<Head(wire[s])>>]
          /\ wire' = [wire EXCEPT ![s] = Tail(@)]
          /\ UNCHANGED buf
    /\ copy' = [copy EXCEPT ![s] = "write"]
    /\ UNCHANGED <<splice, peers, got, eof>>

\* Mutant: a broken connection is read again, as a transient error would be.
ReadEndFin(s) ==
    /\ copy[s] = "read"
    /\ buf[s] = <<>> /\ wire[s] = <<>>
    /\ fin[s]
    /\ copy' = [copy EXCEPT ![s] = "half"]
    /\ UNCHANGED <<splice, peers, wire, buf, hold, got, eof>>

\* The read side is exhausted or broken.
ReadEnd(s) ==
    /\ copy[s] = "read"
    /\ buf[s] = <<>> /\ wire[s] = <<>>
    /\ fin[s] \/ rst[s]
    /\ copy' = [copy EXCEPT ![s] = "half"]
    /\ UNCHANGED <<splice, peers, wire, buf, hold, got, eof>>

Deliver(s) ==
    LET d == Other(s) IN
    /\ copy[s] = "write" /\ ~rst[d] /\ ~stalled[d]
    /\ got' = [got EXCEPT ![d] = @ \o hold[s]]
    /\ hold' = [hold EXCEPT ![s] = <<>>]
    /\ copy' = [copy EXCEPT ![s] = "read"]
    /\ UNCHANGED <<splice, peers, wire, buf, eof>>

WriteEnd(s) ==
    /\ copy[s] = "write" /\ rst[Other(s)]
    /\ hold' = [hold EXCEPT ![s] = <<>>]
    /\ copy' = [copy EXCEPT ![s] = "half"]
    /\ UNCHANGED <<splice, peers, wire, buf, got, eof>>

\* Mutant: the wrapper hides the connection's CloseWrite, which is then a no-op.
CloseWriteHidden(s) ==
    /\ copy[s] = "half"
    /\ copy' = [copy EXCEPT ![s] = "done"]
    /\ UNCHANGED <<splice, peers, wire, buf, hold, got, eof>>

\* closeWrite(dst), then wg.Done.
CloseWrite(s) ==
    /\ copy[s] = "half"
    /\ eof' = [eof EXCEPT ![Other(s)] = TRUE]
    /\ copy' = [copy EXCEPT ![s] = "done"]
    /\ UNCHANGED <<splice, peers, wire, buf, hold, got>>

Copy(s) == Fetch(s) \/ ReadEnd(s) \/ Deliver(s) \/ WriteEnd(s) \/ CloseWrite(s)

\* wg.Wait, then the deferred Close of the upstream and of the client.
Close ==
    /\ splice = "relay"
    /\ \A s \in Side : copy[s] = "done"
    /\ Closed

----------------------------------------------------------------------------
(* Properties.                                                              *)

\* Each peer receives the other one's chunks in order and without a gap, the
\* ones read too early included, and it is told that the other one finished only
\* after it has received everything (relay: "half-closing each side as its
\* direction finishes so the other isn't cut short"), unless a peer broke its
\* connection.
SpliceFaithful ==
    \A s \in Side : LET d == Other(s) IN
        /\ got[d] = [i \in 1 .. Len(got[d]) |-> i]
        /\ eof[d] => \/ fin[s] /\ Len(got[d]) = sent[s]
                     \/ \E p \in Side : rst[p]

\* What a peer of a running splice has sent reaches the other one, and so does the
\* end of it, whatever the other direction does meanwhile (prependConn.CloseWrite
\* and replayConn.CloseWrite pass the half-close on), unless the receiver stops
\* reading, somebody breaks the connection, or the process ends.
SpliceDelivers ==
    \A s \in Side : LET d == Other(s)
                        Owed == Len(got[d]) < sent[s] \/ (fin[s] /\ ~eof[d])
                    IN (splice = "relay" /\ Owed) ~>
                           (~Owed \/ rst[s] \/ rst[d] \/ stalled[d] \/ splice = "closed")

\* A splice does not outlive its peers: when both have finished or broken off,
\* both sockets are closed (wg.Wait in relay), unless one that has only finished
\* sending does not read what is left for it.
SpliceFinishes ==
    (splice = "relay" /\ \A s \in Side : fin[s] \/ rst[s]) ~>
        (splice = "closed" \/ \E s \in Side : stalled[s])
=============================================================================
