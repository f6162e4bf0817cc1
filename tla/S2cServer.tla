----------------------------- MODULE S2cServer -----------------------------
(***************************************************************************)
(* The server of src/src/network/server.rs: start binds the port and       *)
(* spawns a task that serves it, which accepts connections, spawns a       *)
(* handler for each and binds anew when accept fails; close takes the      *)
(* server down.  They share an atomic state and two cancellation tokens.   *)
(*                                                                         *)
(* The runtime has several threads: an action is a stretch of code between *)
(* two awaits, cut where another thread's access to the state makes a      *)
(* difference.  start borrows the server mutably, so that it overlaps with *)
(* no other method; it does overlap with the tasks.  A serving task that   *)
(* waits may take the other branch of its select once the token is         *)
(* cancelled.  A handler is dropped at an await once its token is, but     *)
(* with_cancellation_token polls it first: it may still go on if it can.   *)
(***************************************************************************)
EXTENDS Integers, FiniteSets

CONSTANTS
    Closers,    \* the tasks that call close
    MaxServes,  \* bound: serving tasks spawned
    MaxConns    \* bound: connections accepted

ASSUME S2cServerAssumption == MaxServes \in Nat /\ MaxConns \in Nat

VARIABLES
    server_state,  \* S2cServer.server_state
    cancelled,     \* S2cServer.cancellation_token is cancelled
    registered,    \* group_servers holds the group
    starting,      \* start waits for bind
    closing,       \* where each caller of close is
    serve,         \* where each serving task is
    spawned,       \* how many there have been
    inner,         \* the tasks whose inner_cancellation_token is cancelled
    handler,       \* where the handler of each connection is
    by,            \* the serving task that accepted it
    conns,         \* the connections accepted so far
    shared,        \* the system lets a port be bound that is listened on
    ended,         \* history: a close has waited and returned
    startFailed,   \* history: the bind of a start has failed
    acceptFailed   \* history: the tasks whose accept has failed

startVars == <<starting, spawned, startFailed>>
handlerVars == <<handler, by, conns>>
serveVars == <<serve, inner, acceptFailed>>
fixed == <<registered, shared>>
vars == <<server_state, cancelled, closing, ended, startVars, handlerVars, serveVars, fixed>>

----------------------------------------------------------------------------
(* Values *)

ServerState == {"NotBound", "Binding", "Ready", "Closed"}

Tasks == 1..MaxServes

Conns == 1..MaxConns

\* How a handler ends: without a handshake, for a group nobody serves, without
\* a node identity, with the future of GroupServer::handle_client dropped.
Over == {"refused", "unknown", "invalid", "dropped", "cancelled"}

Handling(c) == handler[c] \notin Over \cup {"none"}

Serving(s) == serve[s] \notin {"none", "done"}

HandlersEnded(s) == \A c \in Conns : by[c] = s => ~Handling(c)

\* do_serve owns a listener until it ends or is dropped.
Listening(s) == Serving(s) /\ serve[s] # "shutdown"

\* TcpListener::bind can succeed.
PortFree == shared \/ \A s \in Tasks : ~Listening(s)

Init ==
    /\ server_state = "NotBound"
    /\ cancelled = FALSE
    /\ registered = FALSE
    /\ starting = FALSE
    /\ closing = [p \in Closers |-> "idle"]
    /\ serve = [s \in Tasks |-> "none"]
    /\ spawned = 0
    /\ inner = {}
    /\ handler = [c \in Conns |-> "none"]
    /\ by = [c \in Conns |-> 0]
    /\ conns = 0
    /\ shared \in BOOLEAN
    /\ ended = FALSE
    /\ startFailed = FALSE
    /\ acceptFailed = {}

\* compare_and_exchange that succeeds.
Exchange(current, new) == server_state = current /\ server_state' = new

----------------------------------------------------------------------------
(* start, register_group_server, close *)

\* &mut self: no other method runs.
Exclusive == ~starting /\ \A p \in Closers : closing[p] = "idle"

\* In any other state start logs a warning and returns Ok.
StartBegins ==
    /\ Exclusive /\ spawned < MaxServes
    /\ Exchange("NotBound", "Binding")
    /\ starting' = TRUE
    /\ UNCHANGED <<cancelled, closing, ended, spawned, startFailed, handlerVars,
                   serveVars, fixed>>

StartBound ==
    /\ starting /\ PortFree
    /\ server_state' = "Ready"
    /\ starting' = FALSE
    /\ spawned' = spawned + 1
    /\ serve' = [serve EXCEPT ![spawned + 1] = "spawned"]
    /\ UNCHANGED <<cancelled, closing, ended, startFailed, handlerVars, inner,
                   acceptFailed, fixed>>

\* The state is put back for another start.
StartFailsClean ==
    /\ starting
    /\ server_state' = "NotBound"
    /\ starting' = FALSE
    /\ startFailed' = TRUE
    /\ UNCHANGED <<cancelled, closing, ended, spawned, handlerVars, serveVars, fixed>>

\* The attempts are used up, or the caller drops start: the state stays Binding.
StartFails ==
    /\ starting
    /\ starting' = FALSE
    /\ startFailed' = TRUE
    /\ UNCHANGED <<server_state, cancelled, closing, ended, spawned, handlerVars,
                   serveVars, fixed>>

Register ==
    /\ ~starting /\ ~registered
    /\ registered' = TRUE
    /\ UNCHANGED <<server_state, cancelled, closing, ended, startVars, handlerVars,
                   serveVars, shared>>

CloseGoto(p, where) == closing' = [closing EXCEPT ![p] = where]

\* A server that is Closed is left alone, whoever else is closing it.
CloseChecks(p) ==
    /\ closing[p] = "idle" /\ ~starting
    /\ server_state # "Closed"
    /\ CloseGoto(p, "store")
    /\ UNCHANGED <<server_state, cancelled, ended, startVars, handlerVars, serveVars,
                   fixed>>

CloseStores(p) ==
    /\ closing[p] = "store"
    /\ server_state' = "Closed"
    /\ CloseGoto(p, "cancel")
    /\ UNCHANGED <<cancelled, ended, startVars, handlerVars, serveVars, fixed>>

\* The token is forgotten.
CloseCancelsNot(p) ==
    /\ closing[p] = "cancel"
    /\ CloseGoto(p, "wait")
    /\ UNCHANGED <<server_state, cancelled, ended, startVars, handlerVars, serveVars,
                   fixed>>

CloseCancels(p) ==
    /\ closing[p] = "cancel"
    /\ cancelled' = TRUE
    /\ CloseGoto(p, "wait")
    /\ UNCHANGED <<server_state, ended, startVars, handlerVars, serveVars, fixed>>

\* The serving tasks are not waited for.
CloseReturnsHasty(p) ==
    /\ closing[p] = "wait"
    /\ CloseGoto(p, "idle")
    /\ ended' = TRUE
    /\ UNCHANGED <<server_state, cancelled, startVars, handlerVars, serveVars, fixed>>

\* task_tracker.wait(): every serving task has ended.
CloseReturns(p) ==
    /\ closing[p] = "wait"
    /\ \A s \in Tasks : ~Serving(s)
    /\ CloseGoto(p, "idle")
    /\ ended' = TRUE
    /\ UNCHANGED <<server_state, cancelled, startVars, handlerVars, serveVars, fixed>>

----------------------------------------------------------------------------
(* serve and do_serve *)

ServeGoto(s, where) == serve' = [serve EXCEPT ![s] = where]

othersOfServe == <<cancelled, closing, ended, startVars, fixed>>

\* The top of the accept loop.
AcceptTop(s) ==
    /\ serve[s] \in {"spawned", "top"}
    /\ ServeGoto(s, IF server_state = "Closed" THEN "exit" ELSE "accept")
    /\ UNCHANGED <<server_state, inner, acceptFailed, handlerVars, othersOfServe>>

Accept(s) ==
    /\ serve[s] = "accept" /\ server_state # "Closed"
    /\ conns < MaxConns
    /\ conns' = conns + 1
    /\ handler' = [handler EXCEPT ![conns + 1] = "handshake"]
    /\ by' = [by EXCEPT ![conns + 1] = s]
    /\ ServeGoto(s, "top")
    /\ UNCHANGED <<server_state, inner, acceptFailed, othersOfServe>>

\* The state is looked at before the connection, which is dropped.
AcceptClosed(s) ==
    /\ serve[s] = "accept" /\ server_state = "Closed"
    /\ ServeGoto(s, "exit")
    /\ UNCHANGED <<server_state, inner, acceptFailed, handlerVars, othersOfServe>>

AcceptFails(s) ==
    /\ serve[s] = "accept" /\ server_state # "Closed"
    /\ acceptFailed' = acceptFailed \cup {s}
    /\ ServeGoto(s, "exit")
    /\ UNCHANGED <<server_state, inner, handlerVars, othersOfServe>>

\* Ready to NotBound, or the task ends and leaves its handlers as they are.
AcceptLoopEnded(s) ==
    /\ serve[s] = "exit"
    /\ IF server_state = "Ready"
         THEN Exchange("Ready", "NotBound") /\ ServeGoto(s, "rebind")
         ELSE ServeGoto(s, "done") /\ UNCHANGED server_state
    /\ UNCHANGED <<inner, acceptFailed, handlerVars, othersOfServe>>

\* A store where the code has an exchange.
RebindAnyway(s) ==
    /\ serve[s] = "rebind"
    /\ server_state' = "Binding" /\ ServeGoto(s, "binding")
    /\ UNCHANGED <<inner, acceptFailed, handlerVars, othersOfServe>>

\* NotBound to Binding, unless a start or a close has come in between.
Rebind(s) ==
    /\ serve[s] = "rebind"
    /\ IF server_state = "NotBound"
         THEN Exchange("NotBound", "Binding") /\ ServeGoto(s, "binding")
         ELSE ServeGoto(s, "done") /\ UNCHANGED server_state
    /\ UNCHANGED <<inner, acceptFailed, handlerVars, othersOfServe>>

\* The old listener is dropped before the port is bound.
ReboundFresh(s) ==
    /\ serve[s] = "binding" /\ \A t \in Tasks \ {s} : ~Listening(t)
    /\ server_state' = "Ready"
    /\ ServeGoto(s, "top")
    /\ UNCHANGED <<inner, acceptFailed, handlerVars, othersOfServe>>

\* The old listener is open until the new one takes its place.  The state is
\* stored whatever close has made of it.
Rebound(s) ==
    /\ serve[s] = "binding" /\ PortFree
    /\ server_state' = "Ready"
    /\ ServeGoto(s, "top")
    /\ UNCHANGED <<inner, acceptFailed, handlerVars, othersOfServe>>

RebindFails(s) ==
    /\ serve[s] = "binding"
    /\ server_state' = "Closed"
    /\ inner' = inner \cup {s}
    /\ ServeGoto(s, "waiting")
    /\ UNCHANGED <<acceptFailed, handlerVars, othersOfServe>>

\* The other branch of the select: do_serve, at an await, is dropped.
Shutdown(s) ==
    /\ cancelled
    /\ serve[s] \in {"spawned", "accept", "binding", "waiting"}
    /\ inner' = inner \cup {s}
    /\ ServeGoto(s, "shutdown")
    /\ UNCHANGED <<server_state, acceptFailed, handlerVars, othersOfServe>>

\* inner_task_tracker.wait(), on either branch.
ServeEnds(s) ==
    /\ serve[s] \in {"waiting", "shutdown"} /\ HandlersEnded(s)
    /\ ServeGoto(s, "done")
    /\ UNCHANGED <<server_state, inner, acceptFailed, handlerVars, othersOfServe>>

----------------------------------------------------------------------------
(* handle_client and handshake *)

HandlerGoto(c, where) ==
    /\ handler' = [handler EXCEPT ![c] = where]
    /\ UNCHANGED <<by, conns, server_state, serveVars, othersOfServe>>

\* A handshake has been read.  Other messages are skipped, without effect.
HandshakeRead(c) ==
    /\ handler[c] = "handshake"
    /\ HandlerGoto(c, "echo")

\* The read fails or times out, or the echo cannot be written.
HandshakeFails(c) ==
    /\ handler[c] \in {"handshake", "echo"}
    /\ HandlerGoto(c, "refused")

\* The handshake is written back and flushed: the client takes itself to be
\* connected.
HandshakeEchoed(c) ==
    /\ handler[c] = "echo"
    /\ HandlerGoto(c, "greeted")

\* The future of GroupServer::handle_client is dropped and never runs.
Lookup(c) ==
    /\ handler[c] = "greeted"
    /\ \E known, identified \in BOOLEAN :
         HandlerGoto(c, IF ~(known /\ registered) THEN "unknown"
                        ELSE IF ~identified THEN "invalid" ELSE "dropped")

HandlerCancelled(c) ==
    /\ Handling(c) /\ by[c] \in inner
    /\ HandlerGoto(c, "cancelled")

----------------------------------------------------------------------------

Start == StartBegins \/ StartBound \/ StartFails

Close(p) == CloseStores(p) \/ CloseCancels(p) \/ CloseReturns(p)

ServeStep(s) == AcceptTop(s) \/ AcceptLoopEnded(s) \/ Rebind(s) \/ Shutdown(s) \/ ServeEnds(s)

\* What accept and bind come to.
ServeInput(s) ==
    Accept(s) \/ AcceptClosed(s) \/ AcceptFails(s) \/ Rebound(s) \/ RebindFails(s)

HandlerStep(c) ==
    HandshakeRead(c) \/ HandshakeFails(c) \/ HandshakeEchoed(c) \/ Lookup(c) \/ HandlerCancelled(c)

Next ==
    \/ Start \/ Register
    \/ \E p \in Closers : CloseChecks(p) \/ Close(p)
    \/ \E s \in Tasks : ServeStep(s) \/ ServeInput(s)
    \/ \E c \in Conns : HandlerStep(c)

Spec == Init /\ [][Next]_vars

\* The runtime polls every task and timers fire.  Whenever do_serve waits, its
\* select polls the token too.  Clients need not come, a bind without a limit of
\* attempts may try for ever, and a handler that is not cancelled need not end:
\* its client may send other messages for ever.
Fairness ==
    /\ \A p \in Closers : WF_vars(Close(p))
    /\ \A s \in Tasks : WF_vars(ServeStep(s)) /\ SF_vars(Shutdown(s))
    /\ \A c \in Conns : WF_vars(HandlerCancelled(c))

FairSpec == Spec /\ Fairness

----------------------------------------------------------------------------
(* Properties *)

\* Every variable has its type.
TypeOK ==
    /\ server_state \in ServerState
    /\ {cancelled, registered, starting, shared, ended, startFailed} \subseteq BOOLEAN
    /\ closing \in [Closers -> {"idle", "store", "cancel", "wait"}]
    /\ serve \in [Tasks -> {"none", "spawned", "top", "accept", "exit", "rebind", "binding",
                            "waiting", "shutdown", "done"}]
    /\ spawned \in 0..MaxServes /\ conns \in 0..MaxConns
    /\ inner \subseteq Tasks /\ acceptFailed \subseteq Tasks
    /\ handler \in [Conns -> Over \cup {"none", "handshake", "echo", "greeted"}]
    /\ by \in [Conns -> {0} \cup Tasks]

\* The state belongs to one task at a time: two never serve, rebind or start at
\* once, although start may slip in between the two exchanges of do_serve, whose
\* task is then to find that the state is no longer its own, even if it is
\* NotBound again because the newer task has failed too.
Owner(s) == Serving(s) /\ serve[s] \notin {"rebind", "waiting", "shutdown"}

OneServing ==
    /\ \A s, t \in Tasks : Owner(s) /\ Owner(t) => s = t
    /\ starting => \A s \in Tasks : ~Owner(s)

\* When a close has waited and returned, nothing serves and nothing ever will:
\* the late store of a rebind can turn Closed into Ready, and an accept error then
\* Ready into Binding, but never into the NotBound that start looks for.
ClosedForGood ==
    ended => ~starting /\ \A s \in Tasks : ~Serving(s)

\* A close has stored Closed.
CloseBegun == cancelled \/ \E p \in Closers : closing[p] = "cancel"

\* A handler outlives its serving task, and then may go on talking to its client
\* after close has returned, only if the task's accept had failed and it found the
\* state taken, or it saw the Closed of a close before the token: the Closed of a
\* failed rebind strands no other task's handlers.  The token of such a handler is
\* not cancelled.
OrphansExplained ==
    \A c \in Conns : Handling(c) /\ ~Serving(by[c]) =>
        by[c] \notin inner /\ (by[c] \in acceptFailed \/ CloseBegun)

\* A start that has failed is the last: the state stays Binding, from which no
\* start goes on, and no serving task is spawned any more.
StartFailsForGood == [][startFailed => spawned' = spawned]_vars

\* A task whose accept has failed never accepts again where a port that is
\* listened on cannot be bound: the listener is open while the port is bound
\* anew.
RebindFutile ==
    ~shared => \A s \in acceptFailed : serve[s] \notin {"top", "accept"}

\* close returns: every serving task notices the token, and so do its handlers.
CloseEnds == \A p \in Closers : closing[p] # "idle" ~> closing[p] = "idle"
============================================================================
