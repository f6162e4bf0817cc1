-------------------------- MODULE S2cServer_proofs --------------------------
(***************************************************************************)
(* Proofs about the server, for any number of closers, serving tasks and   *)
(* connections.                                                            *)
(***************************************************************************)
EXTENDS S2cServer, TLAPS

----------------------------------------------------------------------------
(* Types *)

\* TypeOK without the Boolean variables, which the arithmetic of the counters
\* does not need.
Shape ==
    /\ server_state \in ServerState
    /\ closing \in [Closers -> {"idle", "store", "cancel", "wait"}]
    /\ serve \in [Tasks -> {"none", "spawned", "top", "accept", "exit", "rebind", "binding",
                            "waiting", "shutdown", "done"}]
    /\ spawned \in 0..MaxServes /\ conns \in 0..MaxConns
    /\ inner \subseteq Tasks /\ acceptFailed \subseteq Tasks
    /\ handler \in [Conns -> Over \cup {"none", "handshake", "echo", "greeted"}]
    /\ by \in [Conns -> {0} \cup Tasks]

Flags == {cancelled, registered, starting, shared, ended, startFailed} \subseteq BOOLEAN

\* A started server spawns a task only while it starts, which leaves room.
Room == starting => spawned < MaxServes

LEMMA ShapeInit == Init => Shape /\ Flags /\ Room
  <1>1. Init => Shape /\ Room
    BY S2cServerAssumption DEF Init, Shape, Room, ServerState, Tasks, Conns
  <1>2. Init => Flags
    BY Zenon DEF Init, Flags
  <1> QED
    BY <1>1, <1>2, Zenon

LEMMA ShapeStart == ASSUME Shape, Room, Start PROVE Shape' /\ Room'
  <1>1. CASE StartBegins
    BY <1>1 DEF StartBegins, Exchange, Shape, Room, ServerState, handlerVars, serveVars
  <1>2. CASE StartBound
    <2>1. spawned + 1 \in Tasks /\ spawned' \in 0..MaxServes
      BY <1>2, S2cServerAssumption DEF StartBound, Shape, Room, Tasks
    <2> QED
      BY <1>2, <2>1 DEF StartBound, Shape, Room, ServerState, handlerVars
  <1>3. CASE StartFails
    BY <1>3 DEF StartFails, Shape, Room, handlerVars, serveVars
  <1> QED
    BY <1>1, <1>2, <1>3 DEF Start

LEMMA ShapeClose ==
    ASSUME Shape, Room, NEW p \in Closers, CloseChecks(p) \/ Close(p)
    PROVE  Shape' /\ Room'
  BY DEF CloseChecks, Close, CloseStores, CloseCancels, CloseReturns, CloseGoto, Shape,
     Room, ServerState, startVars, handlerVars, serveVars

LEMMA ShapeServe ==
    ASSUME Shape, Room, NEW s \in Tasks, ServeStep(s) \/ ServeInput(s)
    PROVE  Shape' /\ Room'
  <1> USE DEF othersOfServe, startVars, ServeGoto, Shape, Room
  <1>1. CASE ServeStep(s) \/ Rebound(s) \/ RebindFails(s)
    BY <1>1 DEF ServeStep, AcceptTop, AcceptLoopEnded, Rebind, Rebound, RebindFails,
       Shutdown, ServeEnds, Exchange, handlerVars, ServerState
  <1>2. CASE Accept(s)
    <2>1. conns + 1 \in Conns /\ conns' \in 0..MaxConns
      BY <1>2, S2cServerAssumption DEF Accept, Conns
    <2> QED
      BY <1>2, <2>1 DEF Accept
  <1>3. CASE AcceptClosed(s) \/ AcceptFails(s)
    BY <1>3 DEF AcceptClosed, AcceptFails, handlerVars
  <1> QED
    BY <1>1, <1>2, <1>3 DEF ServeInput

LEMMA ShapeHandler ==
    ASSUME Shape, Room, NEW c \in Conns, HandlerStep(c)
    PROVE  Shape' /\ Room'
  BY DEF HandlerStep, HandshakeRead, HandshakeFails, HandshakeEchoed, Lookup,
     HandlerCancelled, HandlerGoto, Shape, Room, Over, othersOfServe, startVars, serveVars

\* A step changes a flag, if at all, to TRUE or FALSE.
LEMMA FlagsStep == ASSUME Flags, [Next]_vars PROVE Flags'
  <1>1. CASE Start
    BY <1>1, Zenon DEF Start, StartBegins, StartBound, StartFails, Flags, fixed
  <1>2. CASE Register
    BY <1>2, Zenon DEF Register, Flags, startVars
  <1>3. ASSUME NEW p \in Closers, CloseChecks(p) \/ Close(p) PROVE Flags'
    BY <1>3, Zenon DEF CloseChecks, Close, CloseStores, CloseCancels, CloseReturns,
       Flags, startVars, fixed
  <1>4. ASSUME NEW s \in Tasks, ServeStep(s) \/ ServeInput(s)
        PROVE  UNCHANGED othersOfServe
    BY <1>4, Zenon DEF ServeStep, AcceptTop, AcceptLoopEnded, Rebind, Rebound, RebindFails,
       Shutdown, ServeEnds, ServeInput, Accept, AcceptClosed, AcceptFails
  <1>5. ASSUME NEW c \in Conns, HandlerStep(c) PROVE UNCHANGED othersOfServe
    BY <1>5, Zenon DEF HandlerStep, HandshakeRead, HandshakeFails, HandshakeEchoed, Lookup,
       HandlerCancelled, HandlerGoto
  <1>6. CASE UNCHANGED othersOfServe
    BY <1>6, Zenon DEF othersOfServe, startVars, fixed, Flags
  <1>7. CASE UNCHANGED vars
    BY <1>7, Zenon DEF vars, startVars, fixed, Flags
  <1> QED
    BY <1>1, <1>2, <1>3, <1>4, <1>5, <1>6, <1>7, Zenon DEF Next

LEMMA ShapeInvariance == Spec => [](Shape /\ Flags /\ Room)
  <1> DEFINE Inv == Shape /\ Flags /\ Room
  <1>1. Init => Inv
    BY ShapeInit
  <1>2. Inv /\ [Next]_vars => Inv'
    <2> SUFFICES ASSUME Inv, [Next]_vars PROVE Shape' /\ Room'
      BY FlagsStep, Zenon
    <2>1. CASE Register
      BY <2>1 DEF Register, Shape, Room, startVars, handlerVars, serveVars
    <2>2. CASE UNCHANGED vars
      BY <2>2 DEF vars, Shape, Room, startVars, handlerVars, serveVars
    <2> QED
      BY <2>1, <2>2, ShapeStart, ShapeClose, ShapeServe, ShapeHandler DEF Next
  <1> QED
    BY <1>1, <1>2, PTL DEF Spec

\* Every variable of the server keeps its type: no more tasks are spawned, nor
\* connections accepted, than there are numbers for them.
THEOREM TypeCorrect == Spec => []TypeOK
  <1>1. Shape /\ Flags => TypeOK
    BY DEF Shape, Flags, TypeOK
  <1> QED
    BY <1>1, ShapeInvariance, PTL

----------------------------------------------------------------------------
(* Who owns the state *)

NoOwner == \A s \in Tasks : ~Owner(s)

\* OneServing is kept because the state is NotBound only when it is nobody's:
\* then one start or one rebind takes it.  A start holds it as Binding, and
\* shuts every close out.
OwnerInv ==
    /\ OneServing
    /\ server_state = "NotBound" => NoOwner /\ ~starting
    /\ starting => /\ server_state = "Binding"
                   /\ \A p \in Closers : closing[p] = "idle"

\* A state that has been left NotBound is taken up again by the task that left it,
\* unless there has been none; a close that has stored Closed by then keeps
\* every start away, and so does one that has returned.
CloseInv ==
    /\ ClosedForGood
    /\ server_state = "NotBound" => spawned = 0 \/ \E s \in Tasks : serve[s] = "rebind"
    /\ spawned = 0 => \A s \in Tasks : serve[s] = "none"
    /\ (ended \/ \E p \in Closers : closing[p] \in {"cancel", "wait"}) /\ spawned = 0
         => server_state = "Closed"

\* After a failed start nobody owns the state, and so nobody makes it NotBound.
FailInv ==
    startFailed => NoOwner /\ ~starting /\ server_state \in {"Binding", "Closed"}

StateInv == OwnerInv /\ CloseInv /\ FailInv

LEMMA StateStart == ASSUME Shape, Room, StateInv, Start PROVE StateInv'
  <1> USE DEF Shape, ServerState
  <1>1. CASE StartBegins
    <2>1. UNCHANGED <<closing, ended, spawned, startFailed, serve>> /\ server_state = "NotBound"
          /\ server_state' = "Binding" /\ starting' = TRUE /\ ~starting
          /\ \A p \in Closers : closing[p] = "idle"
      BY <1>1 DEF StartBegins, Exchange, Exclusive, serveVars
    <2>2. ~ended /\ ~startFailed /\ NoOwner
      BY <2>1 DEF StateInv, OwnerInv, CloseInv, FailInv, ClosedForGood, Serving
    <2> QED
      BY <2>1, <2>2 DEF StateInv, OwnerInv, OneServing, CloseInv, ClosedForGood, FailInv,
         NoOwner, Owner, Serving
  <1>2. CASE StartBound
    <2>1. spawned + 1 \in Tasks /\ spawned' = spawned + 1 /\ spawned' # 0
      BY <1>2, S2cServerAssumption DEF StartBound, Room, Tasks
    <2>2. UNCHANGED <<closing, ended, startFailed>> /\ server_state' = "Ready"
          /\ starting' = FALSE /\ serve' = [serve EXCEPT ![spawned + 1] = "spawned"]
          /\ starting
      BY <1>2 DEF StartBound
    <2>3. ~ended /\ ~startFailed /\ NoOwner
      BY <2>2 DEF StateInv, OwnerInv, OneServing, CloseInv, FailInv, ClosedForGood, NoOwner
    <2> QED
      BY <2>1, <2>2, <2>3 DEF StateInv, OwnerInv, OneServing, CloseInv, ClosedForGood,
         FailInv, NoOwner, Owner, Serving
  <1>3. CASE StartFails
    BY <1>3 DEF StartFails, serveVars, StateInv, OwnerInv, OneServing, CloseInv,
       ClosedForGood, FailInv, NoOwner, Owner, Serving
  <1> QED
    BY <1>1, <1>2, <1>3 DEF Start

LEMMA StateClose ==
    ASSUME Shape, StateInv, NEW p \in Closers, CloseChecks(p) \/ Close(p)
    PROVE  StateInv'
  <1> USE DEF Shape, CloseGoto, startVars, serveVars, StateInv, OwnerInv, OneServing,
          CloseInv, ClosedForGood, FailInv, NoOwner, Owner, Serving
  <1>1. CASE CloseChecks(p)
    BY <1>1 DEF CloseChecks
  <1>2. CASE CloseStores(p)
    BY <1>2 DEF CloseStores
  <1>3. CASE CloseCancels(p)
    BY <1>3 DEF CloseCancels
  <1>4. CASE CloseReturns(p)
    BY <1>4 DEF CloseReturns
  <1> QED
    BY <1>1, <1>2, <1>3, <1>4 DEF Close

\* A serving task that is there was spawned, and none has been waited for.
LEMMA ServingNow ==
    ASSUME Shape, StateInv, NEW s \in Tasks, Serving(s)
    PROVE  ~ended /\ spawned # 0
  BY DEF Shape, StateInv, CloseInv, ClosedForGood, Serving

LEMMA StateServe ==
    ASSUME Shape, StateInv, NEW s \in Tasks, ServeStep(s) \/ ServeInput(s)
    PROVE  StateInv'
  <1>1. Serving(s)
    BY DEF Shape, ServeStep, AcceptTop, AcceptLoopEnded, Rebind, Rebound, RebindFails,
       Shutdown, ServeEnds, ServeInput, Accept, AcceptClosed, AcceptFails, Serving
  <1>2. ~ended /\ spawned # 0
    BY <1>1, ServingNow
  <1>3. UNCHANGED <<closing, ended, starting, spawned, startFailed>>
    BY DEF ServeStep, AcceptTop, AcceptLoopEnded, Rebind, Rebound, RebindFails,
       Shutdown, ServeEnds, ServeInput, Accept, AcceptClosed, AcceptFails, othersOfServe,
       startVars
  <1> USE <1>1, <1>2, <1>3 DEF Shape, ServeGoto, StateInv, OwnerInv, OneServing, CloseInv,
      ClosedForGood, FailInv, NoOwner, Owner, Serving
  <1>4. CASE AcceptTop(s) \/ Accept(s) \/ AcceptClosed(s) \/ AcceptFails(s)
    BY <1>4 DEF AcceptTop, Accept, AcceptClosed, AcceptFails
  <1>5. CASE AcceptLoopEnded(s)
    BY <1>5 DEF AcceptLoopEnded, Exchange
  <1>6. CASE Rebind(s)
    BY <1>6 DEF Rebind, Exchange
  <1>7. CASE Rebound(s) \/ RebindFails(s)
    BY <1>7 DEF Rebound, RebindFails
  <1>8. CASE Shutdown(s) \/ ServeEnds(s)
    BY <1>8 DEF Shutdown, ServeEnds
  <1> QED
    BY <1>4, <1>5, <1>6, <1>7, <1>8 DEF ServeStep, ServeInput

LEMMA StateStutter ==
    ASSUME StateInv, UNCHANGED <<server_state, closing, ended, starting, spawned,
                                 startFailed, serve>>
    PROVE  StateInv'
  BY DEF StateInv, OwnerInv, OneServing, CloseInv, ClosedForGood, FailInv, NoOwner, Owner,
     Serving

\* The argument of the next theorems: the ownership of the state.
LEMMA StateInvariance == Spec => []StateInv
  <1>1. Init => StateInv
    BY DEF Init, StateInv, OwnerInv, OneServing, CloseInv, ClosedForGood, FailInv, NoOwner,
       Owner, Serving
  <1>2. Shape /\ Room /\ StateInv /\ [Next]_vars => StateInv'
    <2> SUFFICES ASSUME Shape, Room, StateInv, [Next]_vars PROVE StateInv'
      OBVIOUS
    <2>1. CASE Register
      BY <2>1, StateStutter DEF Register, startVars, serveVars
    <2>2. ASSUME NEW c \in Conns, HandlerStep(c) PROVE StateInv'
      BY <2>2, StateStutter DEF HandlerStep, HandshakeRead, HandshakeFails, HandshakeEchoed,
         Lookup, HandlerCancelled, HandlerGoto, serveVars, othersOfServe, startVars
    <2>3. CASE UNCHANGED vars
      BY <2>3, StateStutter DEF vars, startVars, serveVars
    <2> QED
      BY <2>1, <2>2, <2>3, StateStart, StateClose, StateServe DEF Next
  <1> QED
    BY <1>1, <1>2, ShapeInvariance, PTL DEF Spec

\* Never do two tasks serve, nor one while start binds, for any number of serving
\* tasks: the exchanges of do_serve and of start keep them apart.
THEOREM Exclusion == Spec => []OneServing
  BY StateInvariance, PTL DEF StateInv, OwnerInv

\* Once a close has waited and returned, nothing serves, and start never succeeds
\* again, whatever a late store has made of the state.
THEOREM Closing == Spec => []ClosedForGood
  BY StateInvariance, PTL DEF StateInv, CloseInv

\* After a start that has failed no task is ever spawned.
THEOREM FailedStart == Spec => StartFailsForGood
  <1>1. StateInv /\ [Next]_vars => [startFailed => spawned' = spawned]_vars
    <2> SUFFICES ASSUME StateInv, [Next]_vars, startFailed PROVE spawned' = spawned
      BY DEF vars, startVars
    <2>1. CASE Start
      BY <2>1 DEF StateInv, FailInv, Start, StartBegins, StartBound, StartFails, Exchange
    <2>2. CASE Register \/ UNCHANGED vars
      BY <2>2 DEF Register, vars, startVars
    <2>3. ASSUME NEW p \in Closers, CloseChecks(p) \/ Close(p) PROVE spawned' = spawned
      BY <2>3 DEF CloseChecks, Close, CloseStores, CloseCancels, CloseReturns, startVars
    <2>4. ASSUME NEW s \in Tasks, ServeStep(s) \/ ServeInput(s) PROVE spawned' = spawned
      BY <2>4 DEF ServeStep, AcceptTop, AcceptLoopEnded, Rebind, Rebound, RebindFails,
         Shutdown, ServeEnds, ServeInput, Accept, AcceptClosed, AcceptFails, othersOfServe,
         startVars
    <2>5. ASSUME NEW c \in Conns, HandlerStep(c) PROVE spawned' = spawned
      BY <2>5 DEF HandlerStep, HandshakeRead, HandshakeFails, HandshakeEchoed, Lookup,
         HandlerCancelled, HandlerGoto, othersOfServe, startVars
    <2> QED
      BY <2>1, <2>2, <2>3, <2>4, <2>5 DEF Next
  <1> QED
    BY <1>1, StateInvariance, PTL DEF Spec, StartFailsForGood

----------------------------------------------------------------------------
(* Tasks and handlers *)

\* A task's inner token is cancelled only by the task itself, when it is about to
\* wait for its handlers.  A task is spawned anew only under a number that has
\* not been used.
TaskInv ==
    /\ RebindFutile
    /\ \A s \in Tasks : s > spawned => serve[s] = "none"
    /\ \A s \in inner : serve[s] \in {"waiting", "shutdown", "done"}
    /\ \A s \in acceptFailed : serve[s] # "none" /\ (~shared => serve[s] # "spawned")
    /\ \A c \in Conns : Handling(c) => by[c] \in Tasks /\ serve[by[c]] # "none"

LEMMA TaskServe ==
    ASSUME Shape, TaskInv, NEW s \in Tasks, ServeStep(s) \/ ServeInput(s)
    PROVE  TaskInv'
  <1> USE DEF Shape, ServeGoto, othersOfServe, startVars, fixed, TaskInv, RebindFutile,
          Handling, Serving
  <1>1. CASE AcceptTop(s) \/ AcceptClosed(s) \/ AcceptFails(s)
    BY <1>1 DEF AcceptTop, AcceptClosed, AcceptFails, handlerVars
  <1>2. CASE Accept(s)
    <2>1. conns + 1 \in Conns
      BY <1>2, S2cServerAssumption DEF Accept, Conns
    <2> QED
      BY <1>2, <2>1 DEF Accept
  <1>3. CASE AcceptLoopEnded(s) \/ Rebind(s)
    BY <1>3 DEF AcceptLoopEnded, Rebind, handlerVars
  <1>4. CASE Rebound(s)
    <2>1. shared
      BY <1>4 DEF Rebound, PortFree, Listening
    <2> QED
      BY <1>4, <2>1 DEF Rebound, handlerVars
  <1>5. CASE RebindFails(s) \/ Shutdown(s)
    BY <1>5 DEF RebindFails, Shutdown, handlerVars
  <1>6. CASE ServeEnds(s)
    BY <1>6 DEF ServeEnds, HandlersEnded, handlerVars
  <1> QED
    BY <1>1, <1>2, <1>3, <1>4, <1>5, <1>6 DEF ServeStep, ServeInput

LEMMA TaskHandler ==
    ASSUME Shape, TaskInv, NEW c \in Conns, HandlerStep(c)
    PROVE  TaskInv'
  <1>1. /\ UNCHANGED <<serve, spawned, inner, acceptFailed, by, shared>>
        /\ \E w : handler' = [handler EXCEPT ![c] = w]
        /\ Handling(c)
    BY DEF HandlerStep, HandshakeRead, HandshakeFails, HandshakeEchoed, Lookup,
       HandlerCancelled, HandlerGoto, Handling, Over, serveVars, othersOfServe, startVars,
       fixed
  <1> QED
    BY <1>1 DEF Shape, TaskInv, RebindFutile, Handling, Serving

LEMMA TaskStutter ==
    ASSUME TaskInv, UNCHANGED <<serve, spawned, inner, acceptFailed, by, handler, shared>>
    PROVE  TaskInv'
  BY DEF TaskInv, RebindFutile, Handling, Serving

\* A start spawns its task under a new number.
LEMMA TaskStart ==
    ASSUME Shape, Room, TaskInv, StartBound
    PROVE  TaskInv' /\ serve[spawned + 1] = "none" /\ spawned + 1 \in Tasks
  <1>1. spawned + 1 \in Tasks /\ serve[spawned + 1] = "none"
    BY S2cServerAssumption DEF StartBound, Shape, Room, Tasks, TaskInv
  <1>2. spawned' = spawned + 1 /\ serve' = [serve EXCEPT ![spawned + 1] = "spawned"]
        /\ UNCHANGED <<inner, acceptFailed, by, handler, shared>>
    BY DEF StartBound, handlerVars, fixed
  <1>3. \A s \in Tasks : s > spawned' => serve'[s] = "none"
    BY <1>1, <1>2 DEF TaskInv, Shape, Tasks
  <1>4. spawned + 1 \notin inner /\ spawned + 1 \notin acceptFailed
    BY <1>1 DEF TaskInv
  <1> QED
    BY <1>1, <1>2, <1>3, <1>4 DEF Shape, TaskInv, RebindFutile, Handling, Serving

LEMMA TaskInvariance == Spec => []TaskInv
  <1>1. Init => TaskInv
    BY DEF Init, TaskInv, RebindFutile, Handling
  <1>2. Shape /\ Room /\ TaskInv /\ [Next]_vars => TaskInv'
    <2> SUFFICES ASSUME Shape, Room, TaskInv, [Next]_vars PROVE TaskInv'
      OBVIOUS
    <2>1. CASE StartBegins \/ StartFails \/ Register \/ UNCHANGED vars
      BY <2>1, TaskStutter DEF StartBegins, StartFails, Register, vars, startVars,
         handlerVars, serveVars, fixed
    <2>2. ASSUME NEW p \in Closers, CloseChecks(p) \/ Close(p) PROVE TaskInv'
      BY <2>2, TaskStutter DEF CloseChecks, Close, CloseStores, CloseCancels, CloseReturns,
         startVars, handlerVars, serveVars, fixed
    <2> QED
      BY <2>1, <2>2, TaskStart, TaskServe, TaskHandler DEF Next, Start
  <1> QED
    BY <1>1, <1>2, ShapeInvariance, PTL DEF Spec

\* Where a port that is listened on cannot be bound, no rebind ever succeeds: a
\* server that has failed to accept once accepts no more.
THEOREM FutileRebind == Spec => []RebindFutile
  BY TaskInvariance, PTL DEF TaskInv

----------------------------------------------------------------------------
(* Handlers left behind *)

\* Closed, where no close has stored it, is the work of a task that failed to bind
\* anew, and then nobody owns the state and nobody will.  So a task leaves its
\* accept loop after an accept error or because of a close.
OrphanInv ==
    /\ OrphansExplained
    /\ server_state = "Closed" => CloseBegun \/ NoOwner
    /\ \A s \in Tasks : serve[s] \in {"exit", "rebind", "binding", "waiting", "shutdown"}
                          => s \in acceptFailed \/ CloseBegun

LEMMA OrphanServe ==
    ASSUME Shape, StateInv, TaskInv, OrphanInv, NEW s \in Tasks, ServeStep(s) \/ ServeInput(s)
    PROVE  OrphanInv'
  <1>1. UNCHANGED <<cancelled, closing>> /\ (CloseBegun <=> CloseBegun')
    BY DEF ServeStep, AcceptTop, AcceptLoopEnded, Rebind, Rebound, RebindFails,
       Shutdown, ServeEnds, ServeInput, Accept, AcceptClosed, AcceptFails, othersOfServe,
       CloseBegun
  <1>2. \A t \in Tasks : Owner(t) /\ Owner(s) => t = s
    BY DEF StateInv, OwnerInv, OneServing
  <1>3. /\ s \in inner => serve[s] \in {"waiting", "shutdown", "done"}
        /\ \A c \in Conns : Handling(c) => by[c] \in Tasks
    BY DEF TaskInv
  <1> USE <1>1, <1>3 DEF Shape, ServeGoto, OrphanInv, OrphansExplained, NoOwner, Owner,
          Handling, Serving
  <1>4. CASE AcceptTop(s) \/ AcceptClosed(s)
    <2>1. /\ UNCHANGED <<server_state, inner, acceptFailed, handler, by>>
          /\ Owner(s) /\ s \notin inner
          /\ \/ serve' = [serve EXCEPT ![s] = "accept"]
             \/ server_state = "Closed" /\ serve' = [serve EXCEPT ![s] = "exit"]
      BY <1>4 DEF AcceptTop, AcceptClosed, handlerVars
    <2>2. server_state = "Closed" => CloseBegun
      BY <2>1
    <2> QED
      BY <2>1, <2>2
  <1>5. CASE AcceptFails(s)
    BY <1>5 DEF AcceptFails, handlerVars
  <1>6. CASE Accept(s)
    <2>1. conns + 1 \in Conns
      BY <1>6, S2cServerAssumption DEF Accept, Conns
    <2> QED
      BY <1>6, <2>1 DEF Accept
  <1>7. CASE AcceptLoopEnded(s) \/ Rebind(s)
    <2>1. /\ UNCHANGED <<inner, acceptFailed, handler, by>> /\ s \notin inner
          /\ server_state' # "Closed" \/ (UNCHANGED server_state /\ serve'[s] = "done")
          /\ \E w \in {"rebind", "binding", "done"} : serve' = [serve EXCEPT ![s] = w]
      BY <1>7 DEF AcceptLoopEnded, Rebind, Exchange, handlerVars
    <2>2. s \in acceptFailed \/ CloseBegun
      BY <1>7 DEF AcceptLoopEnded, Rebind
    <2>3. OrphansExplained'
      BY <2>1, <2>2
    <2>4. (server_state = "Closed" => CloseBegun \/ NoOwner)'
      BY <2>1
    <2> QED
      BY <2>1, <2>2, <2>3, <2>4
  <1>8. CASE Rebound(s)
    BY <1>8 DEF Rebound, handlerVars
  <1>9. CASE RebindFails(s)
    BY <1>2, <1>9 DEF RebindFails, handlerVars
  <1>10. CASE Shutdown(s)
    BY <1>10 DEF Shutdown, handlerVars, CloseBegun
  <1>11. CASE ServeEnds(s)
    BY <1>11 DEF ServeEnds, HandlersEnded, handlerVars
  <1> QED
    BY <1>4, <1>5, <1>6, <1>7, <1>8, <1>9, <1>10, <1>11 DEF ServeStep, ServeInput

LEMMA OrphanStart ==
    ASSUME Shape, Room, StateInv, TaskInv, OrphanInv, Start
    PROVE  OrphanInv'
  <1>1. UNCHANGED <<cancelled, closing, handler, by, inner, acceptFailed>>
    BY DEF Start, StartBegins, StartBound, StartFails, handlerVars, serveVars
  <1>2. CloseBegun <=> CloseBegun'
    BY <1>1 DEF CloseBegun
  <1>3. CASE StartBound
    <2>1. spawned + 1 \in Tasks /\ serve[spawned + 1] = "none"
      BY <1>3, TaskStart
    <2>2. serve' = [serve EXCEPT ![spawned + 1] = "spawned"] /\ server_state' = "Ready"
      BY <1>3 DEF StartBound
    <2> QED
      BY <1>1, <1>2, <2>1, <2>2 DEF Shape, OrphanInv, OrphansExplained, Handling, Serving
  <1>4. CASE StartBegins \/ StartFails
    BY <1>1, <1>2, <1>4 DEF StartBegins, StartFails, Exchange, serveVars, OrphanInv,
       OrphansExplained, Handling, Serving, NoOwner, Owner
  <1> QED
    BY <1>3, <1>4 DEF Start

LEMMA OrphanClose ==
    ASSUME Shape, OrphanInv, NEW p \in Closers, CloseChecks(p) \/ Close(p)
    PROVE  OrphanInv'
  <1>1. UNCHANGED <<serve, handler, by, inner, acceptFailed>>
    BY DEF CloseChecks, Close, CloseStores, CloseCancels, CloseReturns, handlerVars,
       serveVars
  <1>2. CloseBegun => CloseBegun'
    BY DEF CloseChecks, Close, CloseStores, CloseCancels, CloseReturns, CloseGoto, Shape,
       CloseBegun
  <1>3. UNCHANGED server_state \/ CloseBegun'
    BY DEF CloseChecks, Close, CloseStores, CloseCancels, CloseReturns, CloseGoto, Shape,
       CloseBegun
  <1> QED
    BY <1>1, <1>2, <1>3 DEF OrphanInv, OrphansExplained, Handling, Serving, NoOwner, Owner

LEMMA OrphanHandler ==
    ASSUME Shape, OrphanInv, NEW c \in Conns, HandlerStep(c)
    PROVE  OrphanInv'
  <1>1. /\ UNCHANGED <<serve, inner, acceptFailed, by, server_state, cancelled, closing>>
        /\ \E w : handler' = [handler EXCEPT ![c] = w]
        /\ Handling(c)
    BY DEF HandlerStep, HandshakeRead, HandshakeFails, HandshakeEchoed, Lookup,
       HandlerCancelled, HandlerGoto, Handling, Over, serveVars, othersOfServe
  <1>2. CloseBegun <=> CloseBegun'
    BY <1>1 DEF CloseBegun
  <1> QED
    BY <1>1, <1>2 DEF Shape, OrphanInv, OrphansExplained, Handling, Serving, NoOwner, Owner

\* A handler that outlives its serving task was stranded by an accept error or by
\* a close, and nobody has cancelled it.
THEOREM OrphanHandlers == Spec => []OrphansExplained
  <1>1. Init => OrphanInv
    BY DEF Init, OrphanInv, OrphansExplained, Handling, NoOwner, Owner, Serving
  <1>2. Shape /\ Room /\ StateInv /\ TaskInv /\ OrphanInv /\ [Next]_vars => OrphanInv'
    <2> SUFFICES ASSUME Shape, Room, StateInv, TaskInv, OrphanInv, [Next]_vars
                 PROVE  OrphanInv'
      OBVIOUS
    <2>1. CASE Register \/ UNCHANGED vars
      BY <2>1 DEF Register, vars, startVars, handlerVars, serveVars, OrphanInv,
         OrphansExplained, CloseBegun, Handling, Serving, NoOwner, Owner
    <2> QED
      BY <2>1, OrphanServe, OrphanStart, OrphanClose, OrphanHandler DEF Next
  <1>3. OrphanInv => OrphansExplained
    BY DEF OrphanInv
  <1> QED
    BY <1>1, <1>2, <1>3, ShapeInvariance, StateInvariance, TaskInvariance, PTL DEF Spec
============================================================================
