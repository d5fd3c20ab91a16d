------------------------------ MODULE Process ------------------------------
(* The life of one mitmania process: run in cmd/mitmania/main.go, with the  *)
(* control API's goroutine (control.ListenAndServe), the goroutines of each *)
(* listener, and one spliced connection (Relay) that lives across it.       *)
(* run waits for the former (wg) and not for connections.                   *)
EXTENDS Relay, FiniteSets

CONSTANT Listeners     \* the configured listeners, in the order they are bound

Listener == {Listeners[i] : i \in DOMAIN Listeners}

ASSUME ListenersAssumption == Listeners \in Seq(Listener) /\ Len(Listeners) > 0

VARIABLES
    main,      \* where run is
    next,      \* the listener it binds next
    live,      \* ctx is not cancelled
    ctl,       \* the control API's goroutine
    open,      \* listeners that are bound and not closed
    closers,   \* goroutines that wait for ctx.Done
    loops,     \* accept loops
    table      \* Storage, which all nodes share, has rules/default

procVars == <<main, next, live, ctl, open, closers, loops, table>>

vars == <<relayVars, procVars>>

\* The type invariant.
TypeOK ==
    /\ RelayTypeOK
    /\ main \in {"boot", "stat", "seed", "control", "bind", "wait", "exit"}
    /\ next \in 1 .. Len(Listeners) + 1
    /\ live \in BOOLEAN
    /\ ctl \in {"none", "starting", "serving", "done"}
    /\ open \subseteq Listener /\ closers \subseteq Listener /\ loops \subseteq Listener
    /\ table \in BOOLEAN

Init ==
    /\ RelayInit
    /\ main = "boot" /\ next = 1 /\ live = TRUE /\ ctl = "none"
    /\ open = {} /\ closers = {} /\ loops = {}
    /\ table \in BOOLEAN

----------------------------------------------------------------------------
(* run.                                                                     *)

\* An error before the first goroutine: run returns it.
Fail ==
    /\ main \in {"boot", "stat", "seed"}
    /\ main' = "exit"
    /\ UNCHANGED <<next, live, ctl, open, closers, loops, table, relayVars>>

\* Telemetry, Storage and the CA are there.
Boot ==
    /\ main = "boot"
    /\ main' = "stat"
    /\ UNCHANGED <<next, live, ctl, open, closers, loops, table, relayVars>>

\* Mutant: a table that could not be looked at is taken to exist.
EnsureStatLenient ==
    /\ main = "stat"
    /\ main' \in {"control", "seed"}
    /\ UNCHANGED <<next, live, ctl, open, closers, loops, table, relayVars>>

\* EnsureDefault, first call: StatDefault.
EnsureStat ==
    /\ main = "stat"
    /\ main' = IF table THEN "control" ELSE "seed"
    /\ UNCHANGED <<next, live, ctl, open, closers, loops, table, relayVars>>

\* EnsureDefault, second call: SaveDefault, whoever wrote in between.
EnsureSeed ==
    /\ main = "seed"
    /\ table' = TRUE
    /\ main' = "control"
    /\ UNCHANGED <<next, live, ctl, open, closers, loops, relayVars>>

StartControl ==
    /\ main = "control"
    /\ ctl' = "starting"
    /\ main' = "bind"
    /\ UNCHANGED <<next, live, open, closers, loops, table, relayVars>>

Bind ==
    /\ main = "bind" /\ next <= Len(Listeners)
    /\ open' = open \cup {Listeners[next]}
    /\ next' = next + 1
    /\ UNCHANGED <<main, live, ctl, closers, loops, table, relayVars>>

\* stop(), closeAll(), wg.Wait().
BindFails ==
    /\ main = "bind" /\ next <= Len(Listeners)
    /\ live' = FALSE
    /\ open' = {}
    /\ main' = "wait"
    /\ UNCHANGED <<next, ctl, closers, loops, table, relayVars>>

\* Two goroutines for each listener.
StartLoops ==
    /\ main = "bind" /\ next > Len(Listeners)
    /\ closers' = open /\ loops' = open
    /\ main' = "wait"
    /\ UNCHANGED <<next, live, ctl, open, table, relayVars>>

\* Mutant: connections are waited for as well.
ReturnDrained ==
    /\ main = "wait"
    /\ ctl = "done" /\ closers = {} /\ loops = {}
    /\ splice \in {"idle", "closed"}
    /\ main' = "exit"
    /\ IF splice = "idle" THEN UNCHANGED relayVars ELSE Closed
    /\ UNCHANGED <<next, live, ctl, open, closers, loops, table>>

\* wg.Wait is over; the process ends, its connections with it.
Return ==
    /\ main = "wait"
    /\ ctl = "done" /\ closers = {} /\ loops = {}
    /\ main' = "exit"
    /\ IF splice = "idle" THEN UNCHANGED relayVars ELSE Closed
    /\ UNCHANGED <<next, live, ctl, open, closers, loops, table>>

Run == \/ Fail \/ Boot \/ EnsureStat \/ EnsureSeed \/ StartControl
       \/ Bind \/ BindFails \/ StartLoops \/ Return

----------------------------------------------------------------------------
(* The control API's goroutine.                                             *)

\* The socket is cleared, bound and made private.
ControlListen ==
    /\ main # "exit" /\ ctl = "starting"
    /\ ctl' = "serving"
    /\ UNCHANGED <<main, next, live, open, closers, loops, table, relayVars>>

\* It cannot be bound, or Serve fails later: run's goroutine calls stop().
ControlFails ==
    /\ main # "exit" /\ ctl \in {"starting", "serving"}
    /\ ctl' = "done"
    /\ live' = FALSE
    /\ UNCHANGED <<main, next, open, closers, loops, table, relayVars>>

\* ctx is done: Shutdown, for at most five seconds.
ControlShutdown ==
    /\ main # "exit" /\ ctl = "serving" /\ ~live
    /\ ctl' = "done"
    /\ UNCHANGED <<main, next, live, open, closers, loops, table, relayVars>>

----------------------------------------------------------------------------
(* The goroutines of a listener.                                            *)

Closer(l) ==
    /\ l \in closers /\ ~live
    /\ open' = open \ {l}
    /\ closers' = closers \ {l}
    /\ UNCHANGED <<main, next, live, ctl, loops, table, relayVars>>

\* acceptLoop, a connection: its goroutine is not waited for.
Accept(l) ==
    /\ l \in loops /\ l \in open
    /\ splice = "idle"
    /\ splice' = "request"
    /\ UNCHANGED <<peers, wire, buf, hold, got, eof, copy, procVars>>

\* acceptLoop, an error: net.ErrClosed, or any error once ctx is done.  Any other
\* error is logged and the loop goes on.
LoopEnds(l) ==
    /\ l \in loops
    /\ l \notin open \/ ~live
    /\ loops' = loops \ {l}
    /\ UNCHANGED <<main, next, live, ctl, open, closers, table, relayVars>>

----------------------------------------------------------------------------
(* The world.                                                               *)

Signal ==
    /\ main # "exit" /\ live
    /\ live' = FALSE
    /\ UNCHANGED <<main, next, ctl, open, closers, loops, table, relayVars>>

\* Operators and other nodes that start write the table as well; nothing here
\* depends on it once run has seen to it that there is one.
OthersWrite ==
    /\ main \in {"boot", "stat", "seed"}
    /\ table' = TRUE
    /\ UNCHANGED <<main, next, live, ctl, open, closers, loops, relayVars>>

Handler == Dial \/ Refuse \/ Start \/ Close

Next ==
    \/ Run
    \/ ControlListen \/ ControlFails \/ ControlShutdown
    \/ \E l \in Listener : Closer(l) \/ Accept(l) \/ LoopEnds(l)
    \/ Signal \/ OthersWrite
    \/ /\ main # "exit"
       /\ \/ Handler
          \/ \E s \in Side : Peer(s) \/ ReadAhead(s) \/ Copy(s)
       /\ UNCHANGED procVars

Spec == Init /\ [][Next]_vars

\* A goroutine that can run does.  Nothing is assumed of signals, of clients, of
\* peers, of operators, or of which of two outcomes a call has.
Fairness ==
    /\ WF_vars(Run)
    /\ WF_vars(ControlListen \/ ControlShutdown)
    /\ \A l \in Listener : WF_vars(Closer(l)) /\ WF_vars(l \notin open /\ LoopEnds(l))
    /\ WF_vars(main # "exit" /\ Handler /\ UNCHANGED procVars)
    /\ \A s \in Side : WF_vars(main # "exit" /\ Copy(s) /\ UNCHANGED procVars)

FairSpec == Spec /\ Fairness

----------------------------------------------------------------------------
(* Properties.                                                              *)

\* No connection is accepted by a process whose Storage has no default table,
\* however its startup, other nodes' and operators' writes interleave
\* (EnsureDefault: "safe under concurrent multi-node startup").
ServesWithTable == loops # {} => table

\* A signal, a listener that cannot be bound, and a control API that dies all end
\* the process, with its listeners closed, however long its connections live and
\* whether or not anybody connects again.
StopMeansStop == (~live \/ ctl = "done") ~> (main = "exit" /\ open = {})
=============================================================================
