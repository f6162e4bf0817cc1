-------------------------- MODULE S2cClient_proofs --------------------------
(***************************************************************************)
(* Proofs about the client, for any number of callers, calls and           *)
(* connections and any capacity of the channel.                            *)
(***************************************************************************)
EXTENDS S2cClient, TLAPS

----------------------------------------------------------------------------
(* Types *)

\* TypeOK without the Boolean variables, part by part.
CallShape ==
    /\ op \in [Callers -> {"none", "connect", "send", "close"}]
    /\ pc \in [Callers -> {"idle", "lock", "drain", "tcp", "add", "enqueue", "await",
                           "wait"}]
    /\ req \in [Callers -> {0} \cup Requests]
    /\ answer \in [Callers -> {"none", "Ok", "Err"}]
    /\ calls \in 0..MaxCalls
    /\ inflight \subseteq Requests

TaskShape ==
    /\ client_state \in ClientState
    /\ lock \in Callers \cup {NoCaller}
    /\ conns \in 0..MaxConnects
    /\ reader \in [Connections -> {"none", "spawned", "top", "reading", "fail",
                                   "cancel", "store", "done"}]
    /\ writer \in [Connections -> {"none", "spawned", "top", "throttled", "recv",
                                   "writing", "done"}]

DataShape ==
    /\ channel \in Seq(Message) /\ Len(channel) <= Capacity
    /\ held \in [Connections -> Message \cup {NoMessage}]
    /\ buffer \in [Connections -> SUBSET Requests]
    /\ wire \in [Connections -> SUBSET Requests]
    /\ owed \in [Connections -> SUBSET Requests]

Flags == {closed, cancelled, throttle, handshakeFits, ended} \subseteq BOOLEAN

\* A call under way has a correlation id, and a writer writes a message.
InHand ==
    /\ \A p \in Callers : pc[p] # "idle" => req[p] \in Requests
    /\ \A c \in Connections : writer[c] = "writing" => held[c] \in Message

Shape == CallShape /\ TaskShape /\ DataShape /\ InHand

LEMMA Update ==
    ASSUME NEW S, NEW T, NEW f \in [S -> T], NEW a \in S, NEW b \in T
    PROVE  [f EXCEPT ![a] = b] \in [S -> T]
  OBVIOUS

LEMMA ShapeInit == Init => Shape
  <1> SUFFICES ASSUME Init PROVE Shape
    OBVIOUS
  <1>1. CallShape /\ TaskShape /\ InHand
    BY S2cClientAssumption DEF Init, CallShape, TaskShape, InHand, ClientState
  <1>2. channel \in Seq(Message) /\ Len(channel) <= Capacity
    BY S2cClientAssumption DEF Init
  <1>3. DataShape
    BY <1>2, Zenon DEF Init, DataShape
  <1> QED
    BY <1>1, <1>3 DEF Shape

\* A step of a caller moves it on, answers nobody, and changes at most what it
\* has in flight.
LEMMA NewCallShape ==
    ASSUME Shape, NEW p \in Callers, NewCall(p)
    PROVE  Shape'
  <1>1. calls + 1 \in Requests /\ calls' \in 0..MaxCalls
    BY S2cClientAssumption DEF NewCall, Call, Shape, CallShape, Requests
  <1>2. PICK method \in {"connect", "send", "close"} : Call(p, method)
    BY DEF NewCall
  <1>3. CallShape'
    BY <1>1, <1>2 DEF Call, Shape, CallShape
  <1>4. TaskShape' /\ DataShape'
    BY <1>2 DEF Call, Shape, TaskShape, DataShape, sharedVars, taskVars, historyVars
  <1>5. InHand'
    BY <1>1, <1>2 DEF Call, Shape, CallShape, InHand, taskVars
  <1> QED
    BY <1>3, <1>4, <1>5 DEF Shape

LEMMA CallerMoves ==
    ASSUME Shape, NEW p \in Callers, LocalStep(p) \/ TcpConnects(p)
    PROVE  /\ UNCHANGED <<op, req, answer, calls, held, buffer, wire, owed>>
           /\ pc[p] # "idle"
           /\ \E where \in {"idle", "drain", "tcp", "add", "enqueue", "await", "wait"} :
                pc' = [pc EXCEPT ![p] = where]
           /\ inflight' \in {inflight, inflight \cup {req[p]}, inflight \ {req[p]}}
           /\ lock' \in {lock, p, NoCaller}
           /\ client_state' \in ClientState
  BY DEF LocalStep, ConnectRefused, ConnectStart, ConnectDrained, TcpFails, HandshakeDone,
     HandshakeFails, Waited, SendRefused, SendChecked, SendAdd, Enqueue, SendReturns,
     CloseStart, CloseAgain, TcpConnects, At, Goto, Return, Add, Discard, taskVars,
     sharedVars, historyVars, Shape, TaskShape, ClientState

\* What a caller enqueues is a message.
LEMMA EnqueueShape ==
    ASSUME Shape, NEW p \in Callers, Enqueue(p), handshakeFits \in BOOLEAN
    PROVE  channel' \in Seq(Message) /\ Len(channel') <= Capacity
  <1>1. PICK fits \in BOOLEAN : channel' = Append(channel, [req |-> req[p], fits |-> fits])
    BY Zenon DEF Enqueue
  <1>2. req[p] \in Requests
    BY DEF Enqueue, Shape, InHand
  <1>3. [req |-> req[p], fits |-> fits] \in Message
    BY <1>2, Zenon DEF Message
  <1>4. PICK m \in Message : channel' = Append(channel, m)
    BY <1>1, <1>3
  <1> QED
    BY <1>4, S2cClientAssumption DEF Enqueue, HasRoom, Shape, DataShape

LEMMA CallerShape ==
    ASSUME Shape, handshakeFits \in BOOLEAN, NEW p \in Callers, LocalStep(p) \/ TcpConnects(p)
    PROVE  Shape'
  <1>1. req[p] \in Requests
    BY CallerMoves DEF Shape, InHand
  <1>2. CallShape'
    BY <1>1, CallerMoves DEF Shape, CallShape
  <1>3. DataShape'
    <2>1. CASE Enqueue(p)
      BY <2>1, EnqueueShape, CallerMoves DEF Shape, DataShape
    <2>2. CASE UNCHANGED channel
      BY <2>2, CallerMoves DEF Shape, DataShape
    <2>3. Enqueue(p) \/ UNCHANGED channel
      BY DEF LocalStep, ConnectRefused, ConnectStart, ConnectDrained, TcpFails, HandshakeDone,
         HandshakeFails, Waited, SendRefused, SendChecked, SendAdd, SendReturns, CloseStart,
         CloseAgain, TcpConnects
    <2> QED
      BY <2>1, <2>2, <2>3
  <1>4. TaskShape' /\ InHand'
    <2>1. CASE LocalStep(p)
      <3>1. UNCHANGED <<reader, writer, conns>>
        BY <2>1 DEF LocalStep, ConnectRefused, ConnectStart, ConnectDrained, TcpFails,
           HandshakeDone, HandshakeFails, Waited, SendRefused, SendChecked, SendAdd, Enqueue,
           SendReturns, CloseStart, CloseAgain, taskVars
      <3> QED
        BY <3>1, CallerMoves DEF Shape, CallShape, TaskShape, InHand
    <2>2. CASE TcpConnects(p)
      <3>1. conns + 1 \in Connections /\ conns' \in 0..MaxConnects
        BY <2>2, S2cClientAssumption DEF TcpConnects, Shape, TaskShape, Connections
      <3>2. TaskShape'
        BY <2>2, <3>1, CallerMoves DEF TcpConnects, Shape, TaskShape
      <3>3. \A c \in Connections : writer'[c] = "writing" => writer[c] = "writing"
        BY <2>2, <3>1 DEF TcpConnects, Shape, TaskShape
      <3> QED
        BY <3>2, <3>3, CallerMoves DEF Shape, CallShape, InHand
    <2> QED
      BY <2>1, <2>2
  <1> QED
    BY <1>2, <1>3, <1>4 DEF Shape

LEMMA ReaderShape ==
    ASSUME Shape, NEW c \in Connections, ReaderStep(c) \/ ReaderInput(c)
    PROVE  Shape'
  <1>1. /\ UNCHANGED <<writer, held, buffer, conns, owed, lock, channel, pc, op, req, calls>>
        /\ client_state' \in {client_state, "NotConnected"}
        /\ \E where \in {"top", "reading", "fail", "cancel", "store", "done"} :
             reader' = [reader EXCEPT ![c] = where]
        /\ inflight' \subseteq inflight
        /\ UNCHANGED wire \/ \E id : wire' = [wire EXCEPT ![c] = wire[c] \ {id}]
    BY DEF ReaderStep, DropReader, ReaderTop, FailAll, ReaderCancels, ReaderStores,
       ReaderInput, ReadAnswer, ReadAnswerTo, ReadOther, ReadFails, ReaderGoto, Answer,
       othersOfReader, historyVars, callVars, sharedVars
  <1>2. answer' \in [Callers -> {"none", "Ok", "Err"}]
    BY DEF ReaderStep, DropReader, ReaderTop, FailAll, ReaderCancels, ReaderStores,
       ReaderInput, ReadAnswer, ReadAnswerTo, ReadOther, ReadFails, Answer, callVars, Shape,
       CallShape
  <1>3. CallShape'
    BY <1>1, <1>2 DEF Shape, CallShape
  <1>4. TaskShape'
    BY <1>1 DEF Shape, TaskShape, ClientState
  <1>5. wire' \in [Connections -> SUBSET Requests]
    BY <1>1 DEF Shape, DataShape
  <1>6. DataShape' /\ InHand'
    BY <1>1, <1>5 DEF Shape, DataShape, InHand
  <1> QED
    BY <1>3, <1>4, <1>6 DEF Shape

LEMMA WriterShape ==
    ASSUME Shape, NEW c \in Connections, WriterStep(c)
    PROVE  Shape'
  <1>1. /\ UNCHANGED <<reader, conns, op, pc, req, answer, calls, lock, inflight>>
        /\ client_state' \in {client_state, "NotConnected"}
        /\ \E where \in {"top", "throttled", "recv", "writing", "done"} :
             writer' = [writer EXCEPT ![c] = where]
    BY DEF WriterStep, DropWriter, WriterStarts, WriterTop, WriterUnthrottled,
       WriterReceives, WriterWrites, WriteFails, WriterGoto, othersOfWriter, callVars
  <1>2. CallShape' /\ TaskShape'
    BY <1>1 DEF Shape, CallShape, TaskShape, ClientState
  <1>3. CASE WriterReceives(c)
    <2>1. Head(channel) \in Message /\ channel' \in Seq(Message) /\ Len(channel') <= Capacity
      BY <1>3, S2cClientAssumption DEF WriterReceives, Shape, DataShape
    <2>2. /\ UNCHANGED <<buffer, wire, owed>>
          /\ held' = [held EXCEPT ![c] = Head(channel)]
      BY <1>3 DEF WriterReceives
    <2>3. held' \in [Connections -> Message \cup {NoMessage}]
      BY <2>1, <2>2 DEF Shape, DataShape
    <2>4. InHand'
      BY <1>1, <2>1, <2>2 DEF Shape, TaskShape, DataShape, InHand
    <2> QED
      BY <1>2, <2>1, <2>2, <2>3, <2>4 DEF Shape, DataShape
  <1>4. CASE WriterWrites(c)
    <2>1. held[c].req \in Requests
      BY <1>4 DEF WriterWrites, Shape, InHand, Message
    <2>2. wire' \in [Connections -> SUBSET Requests] /\ buffer' \in [Connections -> SUBSET Requests]
      <3>1. PICK out \in SUBSET Requests :
                /\ wire' = [wire EXCEPT ![c] = @ \cup out]
                /\ buffer' = [buffer EXCEPT ![c] = (@ \cup {held[c].req}) \ out]
        BY <1>4, <2>1 DEF WriterWrites, Buffered, Shape, DataShape
      <3> QED
        BY <2>1, <3>1 DEF Shape, DataShape
    <2>3. UNCHANGED <<channel, held, owed>> /\ writer' = [writer EXCEPT ![c] = "top"]
      BY <1>4 DEF WriterWrites, WriterGoto
    <2>4. InHand'
      BY <1>1, <2>3 DEF Shape, TaskShape, InHand
    <2> QED
      BY <1>2, <2>2, <2>3, <2>4 DEF Shape, DataShape
  <1>5. CASE WriteFails(c)
    <2>1. UNCHANGED <<channel, held, buffer, wire>> /\ writer' = [writer EXCEPT ![c] = "done"]
          /\ owed' = [owed EXCEPT ![c] = inflight]
      BY <1>5 DEF WriteFails, WriterGoto
    <2> QED
      BY <1>1, <1>2, <2>1 DEF Shape, CallShape, TaskShape, DataShape, InHand
  <1>6. CASE DropWriter(c) \/ WriterStarts(c) \/ WriterTop(c) \/ WriterUnthrottled(c)
    <2>1. UNCHANGED <<channel, held, buffer, wire, owed>>
      BY <1>6 DEF DropWriter, WriterStarts, WriterTop, WriterUnthrottled
    <2>2. \E where \in {"top", "throttled", "recv", "done"} : writer' = [writer EXCEPT ![c] = where]
      BY <1>6 DEF DropWriter, WriterStarts, WriterTop, WriterUnthrottled, WriterGoto
    <2> QED
      BY <1>1, <1>2, <2>1, <2>2 DEF Shape, TaskShape, DataShape, InHand
  <1> QED
    BY <1>3, <1>4, <1>5, <1>6 DEF WriterStep

\* Where each step puts a flag.
LEMMA FlagsStep == ASSUME Flags, [Next]_vars PROVE Flags'
  <1>1. ASSUME NEW p \in Callers, NewCall(p) PROVE Flags'
    BY <1>1, Zenon DEF NewCall, Call, Flags, sharedVars, taskVars, historyVars
  <1>2. ASSUME NEW p \in Callers, CallStep(p) PROVE Flags'
    BY <1>2, Zenon DEF CallStep, LocalStep, ConnectRefused, ConnectStart, ConnectDrained,
       TcpFails, HandshakeDone, HandshakeFails, Waited, SendRefused, SendChecked, SendAdd,
       Enqueue, SendReturns, CloseStart, CloseAgain, TcpConnects, Return, taskVars,
       sharedVars, historyVars, Flags
  <1>3. ASSUME NEW c \in Connections, ReaderStep(c) \/ ReaderInput(c) PROVE Flags'
    BY <1>3, Zenon DEF ReaderStep, DropReader, ReaderTop, FailAll, ReaderCancels, ReaderStores,
       ReaderInput, ReadAnswer, ReadAnswerTo, ReadOther, ReadFails, othersOfReader,
       historyVars, sharedVars, Flags
  <1>4. ASSUME NEW c \in Connections, WriterStep(c) PROVE Flags'
    BY <1>4, Zenon DEF WriterStep, DropWriter, WriterStarts, WriterTop, WriterUnthrottled,
       WriterReceives, WriterWrites, WriteFails, othersOfWriter, Flags
  <1>5. CASE UNCHANGED vars
    BY <1>5, Zenon DEF vars, sharedVars, taskVars, historyVars, Flags
  <1> QED
    BY <1>1, <1>2, <1>3, <1>4, <1>5, Zenon DEF Next

LEMMA ShapeInvariance == Spec => [](Shape /\ Flags)
  <1>1. Init => Flags
    BY Zenon DEF Init, Flags
  <1>2. Shape /\ Flags /\ [Next]_vars => Shape' /\ Flags'
    <2> SUFFICES ASSUME Shape, Flags, [Next]_vars PROVE Shape'
      BY FlagsStep, Zenon
    <2>1. handshakeFits \in BOOLEAN
      BY Zenon DEF Flags
    <2>2. CASE UNCHANGED vars
      BY <2>2 DEF vars, callVars, sharedVars, taskVars, historyVars, Shape, CallShape,
         TaskShape, DataShape, InHand
    <2> QED
      BY <2>1, <2>2, NewCallShape, CallerShape, ReaderShape, WriterShape DEF Next, CallStep
  <1> QED
    BY <1>1, <1>2, ShapeInit, PTL DEF Spec

\* Every variable keeps its type, and the channel never holds more than
\* max_pending_reqs_per_client messages.
THEOREM TypeCorrect == Spec => []TypeOK
  <1>1. Shape /\ Flags => TypeOK
    BY DEF Shape, CallShape, TaskShape, DataShape, Flags, TypeOK
  <1> QED
    BY <1>1, ShapeInvariance, PTL

----------------------------------------------------------------------------
(* The write lock, the tracker and the connections *)

Connecting(p) == op[p] = "connect" /\ pc[p] \in {"tcp", "enqueue", "await"}

Holding(p) == Connecting(p) \/ pc[p] \in {"drain", "tcp", "wait"}

\* Whoever connects, or waits for the tasks, holds the lock; a connect has opened
\* the tracker.
LockInv ==
    /\ \A p \in Callers : Holding(p) => lock = p
    /\ \A p \in Callers : Connecting(p) => ~closed
    /\ \A p \in Callers : pc[p] \in {"drain", "tcp"} => op[p] = "connect"

\* Nobody but a connect opens a connection: the tasks have ended when it does,
\* and whenever the tracker is closed and nobody waits for it.
TaskInv ==
    /\ OneConnection
    /\ \A c \in Connections : c > conns => ~Alive(c)
    /\ \A p \in Callers : pc[p] = "tcp" => TasksEnded
    /\ closed => TasksEnded \/ \E p \in Callers : pc[p] \in {"drain", "wait"}

LEMMA LockCaller ==
    ASSUME Shape, LockInv, NEW p \in Callers, NewCall(p) \/ CallStep(p)
    PROVE  LockInv'
  <1> USE S2cClientAssumption DEF Shape, CallShape, TaskShape, LockInv, Holding, Connecting
  <1>1. CASE NewCall(p)
    BY <1>1 DEF NewCall, Call, sharedVars
  <1>2. CASE ConnectStart(p)
    <2>1. closed => ~closed'
      BY <1>2, Zenon DEF ConnectStart
    <2>2. /\ lock = NoCaller /\ lock' = p /\ UNCHANGED op /\ op[p] = "connect"
          /\ pc' = [pc EXCEPT ![p] = IF closed THEN "tcp" ELSE "drain"]
      BY <1>2 DEF ConnectStart, At, Goto
    <2>3. \A q \in Callers : ~Holding(q)
      BY <2>2
    <2> QED
      BY <2>1, <2>2, <2>3
  <1>3. CASE ConnectDrained(p)
    BY <1>3 DEF ConnectDrained, At, Goto
  <1>4. CASE ConnectRefused(p) \/ TcpFails(p) \/ HandshakeDone(p) \/ Waited(p)
             \/ SendRefused(p) \/ SendReturns(p) \/ CloseAgain(p)
    BY <1>4 DEF ConnectRefused, TcpFails, HandshakeDone, Waited, SendRefused, SendReturns,
       CloseAgain, At, Return, Goto, sharedVars
  <1>5. CASE TcpConnects(p) \/ SendChecked(p) \/ SendAdd(p) \/ Enqueue(p)
    BY <1>5 DEF TcpConnects, SendChecked, SendAdd, Enqueue, At, Goto, sharedVars
  <1>6. CASE HandshakeFails(p)
    BY <1>6 DEF HandshakeFails, At, Return, Goto
  <1>7. CASE CloseStart(p)
    BY <1>7 DEF CloseStart, At, Return, Goto
  <1> QED
    BY <1>1, <1>2, <1>4, <1>5, <1>6, <1>7, <1>3 DEF CallStep, LocalStep

LEMMA TaskCaller ==
    ASSUME Shape, LockInv, TaskInv, NEW p \in Callers, NewCall(p) \/ CallStep(p)
    PROVE  TaskInv'
  <1> USE S2cClientAssumption DEF Shape, CallShape, TaskShape, TaskInv, OneConnection,
          TasksEnded, Alive
  <1>1. CASE NewCall(p)
    BY <1>1 DEF NewCall, Call, sharedVars, taskVars
  <1>2. CASE ConnectStart(p)
    <2>1. \A q \in Callers : pc[q] \notin {"drain", "wait"}
      BY <1>2 DEF ConnectStart, LockInv, Holding
    <2> QED
      BY <1>2, <2>1 DEF ConnectStart, At, Goto, taskVars
  <1>3. CASE ConnectDrained(p)
    BY <1>3 DEF ConnectDrained, At, Goto, taskVars
  <1>4. CASE ConnectRefused(p) \/ TcpFails(p) \/ HandshakeDone(p) \/ SendRefused(p)
             \/ SendReturns(p) \/ CloseAgain(p)
    <2>1. /\ pc' = [pc EXCEPT ![p] = "idle"] /\ pc[p] \notin {"drain", "wait"}
          /\ UNCHANGED <<closed, reader, writer, conns>>
      BY <1>4 DEF ConnectRefused, TcpFails, HandshakeDone, SendRefused, SendReturns,
         CloseAgain, At, Return, Goto, sharedVars, taskVars
    <2> QED
      BY <2>1
  <1>5. CASE Waited(p)
    BY <1>5 DEF Waited, Return, Goto, sharedVars, taskVars
  <1>6. CASE SendChecked(p) \/ SendAdd(p) \/ Enqueue(p)
    BY <1>6 DEF SendChecked, SendAdd, Enqueue, At, Goto, sharedVars, taskVars
  <1>7. CASE TcpConnects(p)
    <2>1. conns + 1 \in Connections /\ conns' = conns + 1
      BY <1>7 DEF TcpConnects, Connections
    <2>2. \A c \in Connections : ~Alive(c)
      BY <1>7 DEF TcpConnects, At
    <2>3. ~closed' /\ \A q \in Callers : pc'[q] # "tcp"
      BY <1>7 DEF TcpConnects, At, Goto, LockInv, Holding, Connecting
    <2>4. \A c \in Connections : c # conns + 1 => reader'[c] = reader[c] /\ writer'[c] = writer[c]
      BY <1>7 DEF TcpConnects
    <2>5. \A c \in Connections : c > conns' => c # conns + 1
      BY <2>1 DEF Connections
    <2> QED
      BY <2>1, <2>2, <2>3, <2>4, <2>5
  <1>8. CASE HandshakeFails(p)
    BY <1>8 DEF HandshakeFails, At, Return, Goto, taskVars, LockInv, Connecting
  <1>9. CASE CloseStart(p)
    <2>1. closed => TasksEnded
      BY <1>9 DEF CloseStart, LockInv, Holding
    <2> QED
      BY <1>9, <2>1 DEF CloseStart, At, Return, Goto, taskVars
  <1> QED
    BY <1>1, <1>2, <1>3, <1>4, <1>5, <1>6, <1>7, <1>8, <1>9 DEF CallStep, LocalStep

\* A task that takes a step is alive, and no step but that of a connect makes one
\* alive.
LEMMA TasksOnly ==
    ASSUME Shape, NEW c \in Connections, ReaderStep(c) \/ ReaderInput(c) \/ WriterStep(c)
    PROVE  /\ Alive(c) /\ \A d \in Connections : Alive(d)' => Alive(d)
           /\ UNCHANGED <<op, pc, lock, closed, conns>>
  <1>1. CASE ReaderStep(c) \/ ReaderInput(c)
    BY <1>1 DEF Shape, TaskShape, Alive, ReaderStep, DropReader, ReaderTop, FailAll,
       ReaderCancels, ReaderStores, ReaderInput, ReadAnswer, ReadAnswerTo, ReadOther,
       ReadFails, ReaderGoto, Answer, othersOfReader, sharedVars, callVars
  <1>2. CASE WriterStep(c)
    BY <1>2 DEF Shape, TaskShape, Alive, WriterStep, DropWriter, WriterStarts, WriterTop,
       WriterUnthrottled, WriterReceives, WriterWrites, WriteFails, WriterGoto,
       othersOfWriter, callVars
  <1> QED
    BY <1>1, <1>2

LEMMA LockInvariance == Spec => [](LockInv /\ TaskInv)
  <1>1. Init => LockInv /\ TaskInv
    BY DEF Init, LockInv, Holding, Connecting, TaskInv, OneConnection, TasksEnded, Alive
  <1>2. Shape /\ LockInv /\ TaskInv /\ [Next]_vars => LockInv' /\ TaskInv'
    <2> SUFFICES ASSUME Shape, LockInv, TaskInv, [Next]_vars PROVE LockInv' /\ TaskInv'
      OBVIOUS
    <2>1. ASSUME NEW c \in Connections, ReaderStep(c) \/ ReaderInput(c) \/ WriterStep(c)
          PROVE  LockInv' /\ TaskInv'
      <3>1. /\ \A d \in Connections : Alive(d)' => Alive(d)
            /\ UNCHANGED <<op, pc, lock, closed, conns>>
        BY <2>1, TasksOnly
      <3>2. LockInv'
        BY <3>1 DEF LockInv, Holding, Connecting
      <3>3. TaskInv'
        BY <3>1 DEF TaskInv, OneConnection, TasksEnded
      <3> QED
        BY <3>2, <3>3
    <2>2. CASE UNCHANGED vars
      BY <2>2 DEF vars, callVars, sharedVars, taskVars, LockInv, Holding, Connecting, TaskInv,
         OneConnection, TasksEnded, Alive
    <2> QED
      BY <2>1, <2>2, LockCaller, TaskCaller DEF Next
  <1> QED
    BY <1>1, <1>2, ShapeInvariance, PTL DEF Spec

\* The tasks of two connections never run at the same time, however often and in
\* whatever way connections fail, and whoever connects.
THEOREM SingleConnection == Spec => []OneConnection
  BY LockInvariance, PTL DEF TaskInv

----------------------------------------------------------------------------
(* The requests in flight *)

\* Correlation ids are not used twice, and a call that has not added its request
\* yet has no answer.
OwnInv ==
    /\ InflightOwned
    /\ \A p \in Callers : req[p] <= calls
    /\ \A p, q \in Callers : req[p] = req[q] /\ req[p] # 0 => p = q
    /\ \A p \in Callers : pc[p] \in {"lock", "drain", "tcp", "add"} => answer[p] = "none"

\* An entry of the table is that of the one call with its id.
LEMMA Owner ==
    ASSUME Shape, OwnInv, NEW p \in Callers, req[p] \in inflight
    PROVE  pc[p] \in {"enqueue", "await"} /\ answer[p] = "none"
  <1>1. PICK q \in Callers : /\ req[q] = req[p] /\ pc[q] \in {"enqueue", "await"}
                             /\ answer[q] = "none"
    BY DEF OwnInv, InflightOwned
  <1>2. req[p] # 0
    BY DEF Shape, CallShape, Requests
  <1> QED
    BY <1>1, <1>2 DEF OwnInv

LEMMA OwnNewCall ==
    ASSUME Shape, OwnInv, NEW p \in Callers, NewCall(p)
    PROVE  OwnInv'
  <1>1. /\ pc[p] = "idle" /\ calls' = calls + 1 /\ UNCHANGED inflight
        /\ pc' = [pc EXCEPT ![p] = "lock"] /\ req' = [req EXCEPT ![p] = calls + 1]
        /\ answer' = [answer EXCEPT ![p] = "none"]
    BY DEF NewCall, Call
  <1>2. \A q \in Callers : req[q] \in Nat /\ req[q] <= calls /\ calls \in Nat
    BY DEF Shape, CallShape, OwnInv, Requests
  <1>3. \A q \in Callers : req'[q] <= calls'
    BY <1>1, <1>2 DEF Shape, CallShape
  <1>4. \A q, r \in Callers : req'[q] = req'[r] /\ req'[q] # 0 => q = r
    BY <1>1, <1>2 DEF Shape, CallShape, OwnInv
  <1>5. InflightOwned'
    BY <1>1 DEF Shape, CallShape, OwnInv, InflightOwned
  <1> QED
    BY <1>1, <1>3, <1>4, <1>5 DEF Shape, CallShape, OwnInv

\* A caller that moves on, where its own request is in flight afterwards exactly
\* if it still waits for it.
LEMMA OwnMoves ==
    ASSUME Shape, OwnInv, NEW p \in Callers, NEW where,
           UNCHANGED <<op, req, answer, calls>>, pc' = [pc EXCEPT ![p] = where],
           \/ /\ inflight' = inflight /\ where \in {"idle", "drain", "tcp", "add", "await", "wait"}
              /\ where \in {"idle", "drain", "tcp", "add", "wait"} => req[p] \notin inflight
              /\ where \in {"drain", "tcp", "add"} => answer[p] = "none"
           \/ /\ inflight' = inflight \cup {req[p]} /\ where = "enqueue"
              /\ answer[p] = "none"
           \/ /\ inflight' = inflight \ {req[p]} /\ where \in {"idle", "wait"}
    PROVE  OwnInv'
  <1>1. \A q \in Callers : q # p => pc'[q] = pc[q]
    BY DEF Shape, CallShape
  <1>2. pc'[p] = where
    BY DEF Shape, CallShape
  <1>3. InflightOwned'
    <2> SUFFICES ASSUME NEW id \in inflight'
                 PROVE  \E q \in Callers : /\ req[q] = id /\ pc'[q] \in {"enqueue", "await"}
                                            /\ answer[q] = "none"
      BY DEF InflightOwned
    <2>1. CASE id = req[p]
      BY <1>2, <2>1, Owner
    <2>2. CASE id # req[p]
      BY <1>1, <2>2 DEF OwnInv, InflightOwned
    <2> QED
      BY <2>1, <2>2
  <1>4. \A q \in Callers : pc'[q] \in {"lock", "drain", "tcp", "add"} => answer'[q] = "none"
    BY <1>1, <1>2 DEF OwnInv
  <1> QED
    BY <1>3, <1>4 DEF OwnInv

LEMMA OwnCaller ==
    ASSUME Shape, OwnInv, NEW p \in Callers, CallStep(p)
    PROVE  OwnInv'
  <1> USE DEF At, Goto, Return, Add, Discard
  <1>1. pc[p] \in {"lock", "drain", "tcp", "add"} => answer[p] = "none"
    BY DEF OwnInv
  <1>2. pc[p] \in {"lock", "drain", "tcp", "add", "wait"} \/ answer[p] # "none" => req[p] \notin inflight
    BY Owner
  <1>3. CASE ConnectRefused(p) \/ TcpFails(p) \/ Waited(p) \/ SendRefused(p) \/ CloseAgain(p)
             \/ HandshakeDone(p)
    <2>1. /\ UNCHANGED <<op, req, answer, calls, inflight>> /\ pc' = [pc EXCEPT ![p] = "idle"]
          /\ pc[p] \in {"lock", "tcp", "wait"} \/ answer[p] = "Ok"
      BY <1>3 DEF ConnectRefused, TcpFails, Waited, SendRefused, CloseAgain, HandshakeDone
    <2> QED
      BY <1>2, <2>1, OwnMoves
  <1>4. CASE ConnectStart(p) \/ ConnectDrained(p) \/ SendChecked(p)
    <2>1. PICK where \in {"drain", "tcp", "add"} :
            /\ UNCHANGED <<op, req, answer, calls, inflight>> /\ pc' = [pc EXCEPT ![p] = where]
            /\ pc[p] \in {"lock", "drain"}
      BY <1>4 DEF ConnectStart, ConnectDrained, SendChecked
    <2> QED
      BY <1>1, <1>2, <2>1, OwnMoves
  <1>5. CASE TcpConnects(p) \/ SendAdd(p)
    <2>1. /\ UNCHANGED <<op, req, answer, calls>> /\ pc' = [pc EXCEPT ![p] = "enqueue"]
          /\ inflight' = inflight \cup {req[p]} /\ pc[p] \in {"tcp", "add"}
      BY <1>5 DEF TcpConnects, SendAdd
    <2> QED
      BY <1>1, <2>1, OwnMoves
  <1>6. CASE Enqueue(p)
    <2>1. UNCHANGED <<op, req, answer, calls, inflight>> /\ pc' = [pc EXCEPT ![p] = "await"]
      BY <1>6 DEF Enqueue
    <2> QED
      BY <2>1, OwnMoves
  <1>7. CASE HandshakeFails(p) \/ SendReturns(p)
    <2>1. PICK where \in {"idle", "wait"} :
            /\ UNCHANGED <<op, req, answer, calls>> /\ pc' = [pc EXCEPT ![p] = where]
            /\ inflight' = inflight \ {req[p]}
      BY <1>7 DEF HandshakeFails, SendReturns
    <2> QED
      BY <2>1, OwnMoves
  <1>8. CASE CloseStart(p)
    <2>1. PICK where \in {"idle", "wait"} :
            /\ UNCHANGED <<op, req, answer, calls, inflight>> /\ pc' = [pc EXCEPT ![p] = where]
            /\ pc[p] = "lock"
      BY <1>8 DEF CloseStart
    <2> QED
      BY <1>2, <2>1, OwnMoves
  <1> QED
    BY <1>3, <1>4, <1>5, <1>6, <1>7, <1>8 DEF CallStep, LocalStep

\* Answers reach those whose entries they take away, and nobody else.
LEMMA OwnAnswer ==
    ASSUME Shape, OwnInv, NEW ids, NEW result, Answer(ids, result)
    PROVE  OwnInv'
  <1>1. /\ UNCHANGED <<pc, req, calls>> /\ inflight' = inflight \ ids
        /\ \A p \in Callers : answer'[p] = IF req[p] \in ids \cap inflight THEN result ELSE answer[p]
    BY DEF Answer
  <1>2. InflightOwned'
    BY <1>1 DEF OwnInv, InflightOwned
  <1>3. \A p \in Callers : pc[p] \in {"lock", "drain", "tcp", "add"} => answer'[p] = "none"
    BY <1>1, Owner DEF OwnInv
  <1> QED
    BY <1>1, <1>2, <1>3 DEF OwnInv

LEMMA OwnStutter ==
    ASSUME OwnInv, UNCHANGED <<pc, req, answer, calls, inflight>>
    PROVE  OwnInv'
  BY DEF OwnInv, InflightOwned

LEMMA OwnInvariance == Spec => []OwnInv
  <1>1. Init => OwnInv
    BY DEF Init, OwnInv, InflightOwned
  <1>2. Shape /\ OwnInv /\ [Next]_vars => OwnInv'
    <2> SUFFICES ASSUME Shape, OwnInv, [Next]_vars PROVE OwnInv'
      OBVIOUS
    <2>1. ASSUME NEW c \in Connections, ReaderStep(c) \/ ReaderInput(c) PROVE OwnInv'
      <3>1. \/ UNCHANGED <<pc, req, answer, calls, inflight>>
            \/ \E ids, result : Answer(ids, result)
        BY <2>1 DEF ReaderStep, DropReader, ReaderTop, FailAll, ReaderCancels, ReaderStores,
           ReaderInput, ReadAnswer, ReadAnswerTo, ReadOther, ReadFails, callVars
      <3> QED
        BY <3>1, OwnAnswer, OwnStutter
    <2>2. ASSUME NEW c \in Connections, WriterStep(c) PROVE OwnInv'
      BY <2>2, OwnStutter DEF WriterStep, DropWriter, WriterStarts, WriterTop,
         WriterUnthrottled, WriterReceives, WriterWrites, WriteFails, othersOfWriter, callVars
    <2>3. CASE UNCHANGED vars
      BY <2>3, OwnStutter DEF vars, callVars
    <2> QED
      BY <2>1, <2>2, <2>3, OwnNewCall, OwnCaller DEF Next
  <1> QED
    BY <1>1, <1>2, ShapeInvariance, PTL DEF Spec

\* No entry of the table of requests outlives the call that waits for it.
THEOREM NoLeak == Spec => []InflightOwned
  BY OwnInvariance, PTL DEF OwnInv

----------------------------------------------------------------------------
(* After close *)

Quiet(c) ==
    reader[c] \in {"none", "spawned", "done"} /\ writer[c] \in {"none", "spawned", "done"}

\* A tracker that stays closed means a cancelled token, and so does Closed.  A close
\* returns when the tasks have ended.  Those that a later connect spawns are
\* dropped before they begin, so that no handshake of theirs is ever answered.
EndInv ==
    /\ closed => cancelled \/ \E p \in Callers : pc[p] = "drain"
    /\ client_state = "Closed" =>
         cancelled /\ (TasksEnded \/ \E p \in Callers : At(p, "close", "wait"))
    /\ \A p \in Callers : At(p, "close", "wait") => client_state # "Ready" /\ cancelled
    /\ ended => /\ cancelled /\ client_state # "Ready"
                /\ \A c \in Connections : Quiet(c)
                /\ \A p \in Callers : Connecting(p) => answer[p] # "Ok"

\* A connect uncloses the tracker only while the token and the tasks are as they should be;
\* a close returns when the tasks have ended.
LEMMA EndCaller ==
    ASSUME Shape, LockInv, TaskInv, OwnInv, EndInv, NEW p \in Callers, NewCall(p) \/ CallStep(p)
    PROVE  EndInv'
  <1> USE S2cClientAssumption DEF Shape, CallShape, TaskShape, EndInv, At, Goto, Return
  <1>1. CASE NewCall(p)
    BY <1>1 DEF NewCall, Call, Connecting, Quiet, TasksEnded, Alive, sharedVars, taskVars,
       historyVars
  <1>2. lock = NoCaller =>
          \A q \in Callers : pc[q] \notin {"drain", "tcp", "wait"} /\ ~Connecting(q)
    BY DEF LockInv, Holding
  <1>3. lock = NoCaller /\ closed => cancelled /\ TasksEnded
    BY <1>2 DEF TaskInv
  <1>4. TasksEnded => \A c \in Connections : Quiet(c)
    BY DEF TasksEnded, Alive, Quiet
  <1>5. UNCHANGED <<reader, writer>> =>
          (TasksEnded <=> TasksEnded') /\ \A c \in Connections : Quiet(c) <=> Quiet(c)'
    BY DEF TasksEnded, Alive, Quiet
  <1>6. CASE ConnectStart(p)
    <2>1. /\ lock = NoCaller /\ closed' = ~closed /\ client_state = "NotConnected"
          /\ UNCHANGED <<client_state, cancelled, op, answer, ended, reader, writer>>
          /\ pc' = [pc EXCEPT ![p] = IF closed THEN "tcp" ELSE "drain"] /\ op[p] = "connect"
          /\ answer[p] = "none"
      BY <1>6 DEF ConnectStart, historyVars, taskVars, OwnInv
    <2> QED
      BY <1>2, <1>5, <2>1 DEF Connecting
  <1>7. CASE ConnectDrained(p)
    <2>1. /\ ~closed' /\ op[p] = "connect" /\ answer[p] = "none"
          /\ UNCHANGED <<client_state, cancelled, op, answer, ended, reader, writer>>
          /\ pc' = [pc EXCEPT ![p] = "tcp"]
      BY <1>7 DEF ConnectDrained, historyVars, taskVars, OwnInv
    <2> QED
      BY <1>5, <2>1 DEF Connecting
  <1>8. CASE ConnectRefused(p) \/ TcpFails(p) \/ SendRefused(p) \/ SendReturns(p)
    <2>1. /\ pc' = [pc EXCEPT ![p] = "idle"] /\ pc[p] \notin {"drain", "wait"}
          /\ UNCHANGED <<client_state, closed, cancelled, op, answer, reader, writer>>
          /\ ended' => ended
      BY <1>8 DEF ConnectRefused, TcpFails, SendRefused, SendReturns, sharedVars, taskVars
    <2> QED
      BY <1>5, <2>1 DEF Connecting
  <1>9. CASE SendChecked(p) \/ SendAdd(p) \/ Enqueue(p)
    <2>1. /\ UNCHANGED <<client_state, closed, cancelled, op, answer, ended, reader, writer>>
          /\ pc[p] \in {"lock", "add", "enqueue"}
          /\ \E where \in {"add", "enqueue", "await"} : pc' = [pc EXCEPT ![p] = where]
          /\ Connecting(p)' => Connecting(p)
      BY <1>9 DEF SendChecked, SendAdd, Enqueue, Connecting, sharedVars, taskVars, historyVars
    <2> QED
      BY <1>5, <2>1 DEF Connecting
  <1>10. CASE HandshakeDone(p)
    <2>1. /\ client_state' = "Ready" /\ pc' = [pc EXCEPT ![p] = "idle"] /\ Connecting(p)
          /\ UNCHANGED <<closed, cancelled, op, answer, reader, writer>> /\ answer[p] = "Ok"
          /\ ended' => ended
      BY <1>10 DEF HandshakeDone, taskVars, Connecting
    <2> QED
      BY <1>5, <2>1 DEF Connecting, LockInv, Holding
  <1>11. CASE HandshakeFails(p)
    <2>1. Connecting(p) /\ ~closed
      BY <1>11 DEF HandshakeFails, Connecting, LockInv
    <2>2. /\ client_state' = "NotConnected" /\ pc' = [pc EXCEPT ![p] = "wait"]
          /\ UNCHANGED <<op, answer, ended, reader, writer>> /\ cancelled'
      BY <1>11, <2>1 DEF HandshakeFails, taskVars, historyVars
    <2> QED
      BY <1>5, <2>1, <2>2 DEF Connecting
  <1>12. CASE TcpConnects(p)
    <2>1. /\ client_state' = "Connected" /\ pc' = [pc EXCEPT ![p] = "enqueue"] /\ Connecting(p)
          /\ UNCHANGED <<closed, cancelled, op, answer, ended>> /\ answer[p] = "none"
      BY <1>12 DEF TcpConnects, Connecting, historyVars, OwnInv
    <2>2. \A c \in Connections : Quiet(c) => Quiet(c)'
      BY <1>12 DEF TcpConnects, Quiet
    <2> QED
      BY <2>1, <2>2 DEF Connecting, LockInv, Holding
  <1>13. CASE Waited(p)
    <2>1. /\ pc' = [pc EXCEPT ![p] = "idle"] /\ TasksEnded /\ pc[p] = "wait"
          /\ UNCHANGED <<client_state, closed, cancelled, op, answer, reader, writer>>
          /\ ended' = (ended \/ op[p] = "close")
      BY <1>13 DEF Waited, sharedVars, taskVars
    <2>2. \A q \in Callers : ~Connecting(q)
      BY <2>1 DEF LockInv, Holding, Connecting
    <2> QED
      BY <1>4, <1>5, <2>1, <2>2 DEF Connecting
  <1>14. CASE CloseAgain(p)
    <2>1. /\ pc' = [pc EXCEPT ![p] = "idle"] /\ lock = NoCaller /\ pc[p] = "lock"
          /\ client_state = "Closed"
          /\ UNCHANGED <<client_state, closed, cancelled, op, answer, reader, writer>>
      BY <1>14 DEF CloseAgain, sharedVars, taskVars
    <2>2. cancelled /\ TasksEnded
      BY <1>2, <2>1
    <2> QED
      BY <1>2, <1>4, <1>5, <2>1, <2>2 DEF Connecting
  <1>15. CASE CloseStart(p)
    <2>1. /\ lock = NoCaller /\ client_state' = "Closed" /\ closed' /\ At(p, "close", "lock")
          /\ UNCHANGED <<op, answer, reader, writer>>
      BY <1>15 DEF CloseStart, taskVars
    <2>2. CASE closed
      <3>1. pc' = [pc EXCEPT ![p] = "idle"] /\ UNCHANGED cancelled
        BY <1>15, <2>2 DEF CloseStart
      <3> QED
        BY <1>2, <1>3, <1>4, <1>5, <2>1, <2>2, <3>1 DEF Connecting
    <2>3. CASE ~closed
      <3>1. pc' = [pc EXCEPT ![p] = "wait"] /\ cancelled' /\ UNCHANGED ended
        BY <1>15, <2>3 DEF CloseStart, historyVars
      <3> QED
        BY <1>2, <1>5, <2>1, <3>1 DEF Connecting
    <2> QED
      BY <2>2, <2>3
  <1> QED
    BY <1>1, <1>6, <1>7, <1>8, <1>9, <1>10, <1>11, <1>12, <1>13, <1>14, <1>15
       DEF CallStep, LocalStep

\* A task does not get past its first step once the token is cancelled; while the
\* client is not Running it ends.
LEMMA EndTasks ==
    ASSUME Shape, EndInv, NEW c \in Connections,
           ReaderStep(c) \/ ReaderInput(c) \/ WriterStep(c)
    PROVE  EndInv'
  <1>1. /\ \A d \in Connections : Alive(d)' => Alive(d)
        /\ UNCHANGED <<op, pc, closed>>
    BY TasksOnly
  <1>2. /\ client_state' \in {client_state, "NotConnected"} /\ UNCHANGED ended
        /\ cancelled => cancelled'
        /\ cancelled /\ Quiet(c) => UNCHANGED answer /\ \A d \in Connections : Quiet(d) => Quiet(d)'
    <2>1. CASE ReaderStep(c) \/ ReaderInput(c)
      <3>1. /\ client_state' \in {client_state, "NotConnected"} /\ UNCHANGED <<ended, writer>>
            /\ cancelled' = TRUE \/ UNCHANGED cancelled
        BY <2>1 DEF ReaderStep, DropReader, ReaderTop, FailAll, ReaderCancels, ReaderStores,
           ReaderInput, ReadAnswer, ReadAnswerTo, ReadOther, ReadFails, othersOfReader,
           sharedVars, historyVars
      <3>2. cancelled /\ Quiet(c) => DropReader(c)
        BY <2>1 DEF Quiet, ReaderStep, ReaderTop, FailAll, ReaderCancels, ReaderStores,
           ReaderInput, ReadAnswer, ReadAnswerTo, ReadOther, ReadFails
      <3>3. DropReader(c) => UNCHANGED answer /\ reader' = [reader EXCEPT ![c] = "done"]
        BY DEF DropReader, ReaderGoto, callVars
      <3> QED
        BY <3>1, <3>2, <3>3 DEF Shape, TaskShape, Quiet
    <2>2. CASE WriterStep(c)
      BY <2>2 DEF Shape, TaskShape, Quiet, WriterStep, DropWriter, WriterStarts, WriterTop,
         WriterUnthrottled, WriterReceives, WriterWrites, WriteFails, WriterGoto,
         othersOfWriter, callVars
    <2> QED
      BY <2>1, <2>2
  <1>3. TasksEnded => TasksEnded'
    BY <1>1 DEF TasksEnded
  <1> QED
    BY <1>1, <1>2, <1>3 DEF EndInv, At, Connecting

\* No step of a caller or a task breaks EndInv.
LEMMA EndInvariance == Spec => []EndInv
  <1>1. Init => EndInv
    BY DEF Init, EndInv, At
  <1>2. Shape /\ LockInv /\ TaskInv /\ OwnInv /\ EndInv /\ [Next]_vars => EndInv'
    <2> SUFFICES ASSUME Shape, LockInv, TaskInv, OwnInv, EndInv, [Next]_vars PROVE EndInv'
      OBVIOUS
    <2>1. CASE UNCHANGED vars
      BY <2>1 DEF vars, callVars, sharedVars, taskVars, historyVars, EndInv, At, Connecting,
         Quiet, TasksEnded, Alive
    <2> QED
      BY <2>1, EndCaller, EndTasks DEF Next
  <1> QED
    BY <1>1, <1>2, ShapeInvariance, LockInvariance, OwnInvariance, PTL DEF Spec

\* When close has returned, the client never becomes Ready again and no task of it
\* reads or writes, whatever connects come later and whatever late stores do to
\* the state.
THEOREM Closing == Spec => []ClosedForGood
  <1>1. EndInv => ClosedForGood
    BY DEF EndInv, ClosedForGood, Quiet
  <1> QED
    BY <1>1, EndInvariance, PTL

----------------------------------------------------------------------------
(* Broken connections *)

\* No caller answers itself, and none takes back the cancellation; the tasks a
\* connect spawns have not begun.
LEMMA CallerQuiet ==
    ASSUME Shape, NEW p \in Callers, NewCall(p) \/ CallStep(p)
    PROVE  /\ \A q \in Callers : answer'[q] \in {answer[q], "none"}
           /\ cancelled' = TRUE \/ UNCHANGED cancelled
           /\ \A c \in Connections : Quiet(c) => Quiet(c)'
  <1>1. \/ UNCHANGED answer
        \/ answer' = [answer EXCEPT ![p] = "none"]
    BY DEF NewCall, Call, CallStep, LocalStep, ConnectRefused, ConnectStart, ConnectDrained,
       TcpFails, HandshakeDone, HandshakeFails, Waited, SendRefused, SendChecked, SendAdd,
       Enqueue, SendReturns, CloseStart, CloseAgain, TcpConnects, Goto, Return
  <1>2. cancelled' = TRUE \/ UNCHANGED cancelled
    BY DEF NewCall, Call, CallStep, LocalStep, ConnectRefused, ConnectStart, ConnectDrained,
       TcpFails, HandshakeDone, HandshakeFails, Waited, SendRefused, SendChecked, SendAdd,
       Enqueue, SendReturns, CloseStart, CloseAgain, TcpConnects, sharedVars
  <1>3. CASE TcpConnects(p)
    BY <1>1, <1>2, <1>3 DEF TcpConnects, Quiet, Shape, CallShape, TaskShape
  <1>4. CASE ~TcpConnects(p)
    <2>1. UNCHANGED <<reader, writer>>
      BY <1>4 DEF NewCall, Call, CallStep, LocalStep, ConnectRefused, ConnectStart,
         ConnectDrained, TcpFails, HandshakeDone, HandshakeFails, Waited, SendRefused,
         SendChecked, SendAdd, Enqueue, SendReturns, CloseStart, CloseAgain, taskVars
    <2> QED
      BY <1>1, <1>2, <2>1 DEF Quiet, Shape, CallShape
  <1> QED
    BY <1>3, <1>4

\* A task that has not begun when the token is cancelled is dropped.
LEMMA TaskQuiet ==
    ASSUME Shape, cancelled, NEW c \in Connections, Quiet(c),
           ReaderStep(c) \/ ReaderInput(c) \/ WriterStep(c)
    PROVE  DropReader(c) \/ DropWriter(c)
  BY DEF Quiet, ReaderStep, ReaderTop, FailAll, ReaderCancels, ReaderStores, ReaderInput,
     ReadAnswer, ReadAnswerTo, ReadOther, ReadFails, WriterStep, WriterStarts, WriterTop,
     WriterUnthrottled, WriterReceives, WriterWrites, WriteFails

\* A client whose token is cancelled and whose tasks have ended is dead for good,
\* for any number of callers, calls and connections: what later connects spawn is
\* dropped before it begins, and no call is ever answered.
THEOREM NoComeback == Spec => DeadForGood
  <1>1. Shape /\ [Next]_vars => [Dead => Dead' /\ NoNewResponse]_vars
    <2> SUFFICES ASSUME Shape, Next, Dead PROVE Dead' /\ NoNewResponse
      OBVIOUS
    <2>1. cancelled /\ \A c \in Connections : Quiet(c)
      BY DEF Dead, Quiet
    <2>2. ASSUME NEW p \in Callers, NewCall(p) \/ CallStep(p) PROVE Dead' /\ NoNewResponse
      <3>1. /\ \A q \in Callers : answer'[q] \in {answer[q], "none"}
            /\ cancelled' = TRUE \/ UNCHANGED cancelled
            /\ \A c \in Connections : Quiet(c) => Quiet(c)'
        BY <2>2, CallerQuiet
      <3>2. cancelled'
        BY <2>1, <3>1, Zenon
      <3> QED
        BY <2>1, <3>1, <3>2 DEF Dead, Quiet, NoNewResponse
    <2>3. ASSUME NEW c \in Connections, ReaderStep(c) \/ ReaderInput(c) \/ WriterStep(c)
          PROVE  Dead' /\ NoNewResponse
      <3>1. DropReader(c) \/ DropWriter(c)
        BY <2>1, <2>3, TaskQuiet
      <3>2. UNCHANGED <<answer, cancelled>>
        BY <3>1 DEF DropReader, DropWriter, callVars, sharedVars, othersOfWriter
      <3>3. \A d \in Connections : Quiet(d) => Quiet(d)'
        BY <3>1 DEF DropReader, DropWriter, ReaderGoto, WriterGoto, othersOfReader,
           othersOfWriter, Quiet, Shape, TaskShape
      <3>4. cancelled'
        BY <2>1, <3>2, Zenon
      <3> QED
        BY <2>1, <3>2, <3>3, <3>4 DEF Dead, Quiet, NoNewResponse
    <2> QED
      BY <2>2, <2>3 DEF Next
  <1> QED
    BY <1>1, ShapeInvariance, PTL DEF Spec, DeadForGood

\* No connect is under way while the client is Ready: it is the connect that makes
\* it Ready, under the lock, and none begins before the state is another.
ReadyInv ==
    client_state = "Ready" =>
        \A p \in Callers : op[p] = "connect" => pc[p] \notin {"drain", "tcp", "enqueue", "await"}

LEMMA ReadyCaller ==
    ASSUME Shape, LockInv, ReadyInv, NEW p \in Callers, NewCall(p) \/ CallStep(p)
    PROVE  /\ ReadyInv'
           /\ client_state = "Ready" => client_state' \in {"Ready", "Closed"}
  <1> USE DEF Shape, CallShape, TaskShape, ReadyInv, At, Goto, Return
  <1>1. CASE NewCall(p)
    BY <1>1 DEF NewCall, Call, sharedVars
  <1>2. CASE HandshakeDone(p)
    <2>1. /\ pc' = [pc EXCEPT ![p] = "idle"] /\ UNCHANGED op
          /\ op[p] = "connect" /\ pc[p] = "await" /\ client_state' = "Ready"
      BY <1>2 DEF HandshakeDone
    <2> QED
      BY <2>1 DEF LockInv, Holding, Connecting
  <1>3. CASE ConnectStart(p) \/ ConnectDrained(p) \/ TcpConnects(p) \/ HandshakeFails(p)
             \/ CloseStart(p)
    BY <1>3 DEF ConnectStart, ConnectDrained, TcpConnects, HandshakeFails, CloseStart
  <1>4. CASE ConnectRefused(p) \/ TcpFails(p) \/ Waited(p) \/ SendRefused(p) \/ SendReturns(p)
             \/ CloseAgain(p)
    <2>1. pc' = [pc EXCEPT ![p] = "idle"] /\ UNCHANGED <<op, client_state>>
      BY <1>4 DEF ConnectRefused, TcpFails, Waited, SendRefused, SendReturns, CloseAgain,
         sharedVars
    <2> QED
      BY <2>1
  <1>5. CASE SendChecked(p) \/ SendAdd(p) \/ Enqueue(p)
    <2>1. /\ \E where : pc' = [pc EXCEPT ![p] = where]
          /\ UNCHANGED <<op, client_state>>
          /\ op[p] = "send" \/ pc[p] = "enqueue"
      BY <1>5 DEF SendChecked, SendAdd, Enqueue, sharedVars
    <2> QED
      BY <2>1
  <1> QED
    BY <1>1, <1>2, <1>3, <1>4, <1>5 DEF CallStep, LocalStep

LEMMA ReadyInvariance == Spec => []ReadyInv
  <1>1. Init => ReadyInv
    BY DEF Init, ReadyInv
  <1>2. Shape /\ LockInv /\ ReadyInv /\ [Next]_vars => ReadyInv'
    <2> SUFFICES ASSUME Shape, LockInv, ReadyInv, [Next]_vars PROVE ReadyInv'
      OBVIOUS
    <2>1. ASSUME NEW c \in Connections, ReaderStep(c) \/ ReaderInput(c) \/ WriterStep(c)
          PROVE  ReadyInv'
      <3>1. UNCHANGED <<op, pc>>
        BY <2>1, TasksOnly
      <3>2. client_state' \in {client_state, "NotConnected"}
        BY <2>1 DEF ReaderStep, DropReader, ReaderTop, FailAll, ReaderCancels, ReaderStores,
           ReaderInput, ReadAnswer, ReadAnswerTo, ReadOther, ReadFails, WriterStep, DropWriter,
           WriterStarts, WriterTop, WriterUnthrottled, WriterReceives, WriterWrites, WriteFails,
           sharedVars
      <3> QED
        BY <3>1, <3>2 DEF ReadyInv
    <2>2. CASE UNCHANGED vars
      BY <2>2 DEF vars, callVars, sharedVars, ReadyInv
    <2> QED
      BY <2>1, <2>2, ReadyCaller DEF Next
  <1> QED
    BY <1>1, <1>2, ShapeInvariance, LockInvariance, PTL DEF Spec

\* A Ready client whose tasks have ended stays so until it is closed, whoever calls
\* what: connect takes it for connected and no request is answered.
THEOREM StaleReady == Spec => StaleReadyStays
  <1>1. Shape /\ LockInv /\ ReadyInv /\ [Next]_vars =>
          [client_state = "Ready" /\ TasksEnded =>
             client_state' \in {"Ready", "Closed"} /\ NoNewResponse]_vars
    <2> SUFFICES ASSUME Shape, LockInv, ReadyInv, Next, client_state = "Ready", TasksEnded
                 PROVE  client_state' \in {"Ready", "Closed"} /\ NoNewResponse
      OBVIOUS
    <2>1. ASSUME NEW p \in Callers, NewCall(p) \/ CallStep(p)
          PROVE  client_state' \in {"Ready", "Closed"} /\ NoNewResponse
      BY <2>1, ReadyCaller, CallerQuiet DEF NoNewResponse
    <2>2. ASSUME NEW c \in Connections, ReaderStep(c) \/ ReaderInput(c) \/ WriterStep(c)
          PROVE  FALSE
      <3>1. reader[c] \in {"none", "done"} /\ writer[c] \in {"none", "done"}
        BY DEF TasksEnded, Alive
      <3> QED
        BY <2>2, <3>1 DEF ReaderStep, DropReader, ReaderTop, FailAll, ReaderCancels,
           ReaderStores, ReaderInput, ReadAnswer, ReadAnswerTo, ReadOther, ReadFails,
           WriterStep, DropWriter, WriterStarts, WriterTop, WriterUnthrottled,
           WriterReceives, WriterWrites, WriteFails
    <2> QED
      BY <2>1, <2>2 DEF Next
  <1> QED
    BY <1>1, ShapeInvariance, LockInvariance, ReadyInvariance, PTL DEF Spec, StaleReadyStays

----------------------------------------------------------------------------
(* Handshakes that fit into the buffer *)

Writing(c) == writer[c] = "writing"

\* Nothing is on its way to the peer.
NothingOut == channel = <<>> /\ \A c \in Connections : buffer[c] = {} /\ ~Writing(c)

\* A writer receives messages, or one that begins may come to: the token is not
\* cancelled, or was when the writer had begun.
Draining ==
    \/ ~cancelled
    \/ \E c \in Connections : writer[c] \in {"top", "throttled", "recv", "writing"}

\* A connect has sent its handshake and not returned yet.
Pending(p) == op[p] = "connect" /\ pc[p] \in {"await", "wait"}

\* The first handshake is alone until its connect returns with an error; by then
\* the token is cancelled and the writer has ended, and no other writer begins that
\* would receive another message and push it out of the buffer.
FitInv ==
    /\ \A c \in Connections : wire[c] = {}
    /\ \A p \in Callers : answer[p] # "Ok"
    /\ client_state # "Ready"
    /\ client_state = "Connected" =>
         \E p \in Callers : op[p] = "connect" /\ pc[p] \in {"enqueue", "await"}
    /\ \A p \in Callers : pc[p] # "add" /\ (pc[p] \in {"enqueue", "await"} => op[p] = "connect")
    /\ \A i \in 1..Len(channel) : channel[i].fits
    /\ \A c \in Connections : Writing(c) => buffer[c] = {} /\ held[c].fits
    /\ Draining /\ channel # <<>> =>
         Len(channel) = 1 /\ \A c \in Connections : buffer[c] = {} /\ ~Writing(c)
    /\ Draining => NothingOut \/ \E p \in Callers : Pending(p)
    /\ \A p \in Callers : At(p, "connect", "wait") => cancelled

\* A new call has no answer and sends nothing yet.
LEMMA FitNewCall ==
    ASSUME Shape, FitInv, NEW p \in Callers, NewCall(p)
    PROVE  FitInv'
  <1>1. /\ UNCHANGED <<client_state, cancelled, wire, channel, buffer, held, writer>>
        /\ pc[p] = "idle" /\ pc' = [pc EXCEPT ![p] = "lock"]
        /\ answer' = [answer EXCEPT ![p] = "none"]
        /\ \A q \in Callers : q # p => op'[q] = op[q]
    BY DEF NewCall, Call, sharedVars, taskVars, Shape, CallShape
  <1>2. \A q \in Callers : pc'[q] # "lock" => pc'[q] = pc[q] /\ op'[q] = op[q]
    BY <1>1 DEF Shape, CallShape
  <1>3. \A q \in Callers :
          pc[q] \in {"enqueue", "await", "wait"} => pc'[q] = pc[q] /\ op'[q] = op[q]
    BY <1>1 DEF Shape, CallShape
  <1> QED
    BY <1>1, <1>2, <1>3 DEF FitInv, Draining, Pending, NothingOut, Writing, At, Shape, CallShape

\* A step of a caller that changes no message on its way, as all but Enqueue are.
LEMMA FitMoves ==
    ASSUME Shape, FitInv, NEW p \in Callers, NEW where,
           UNCHANGED <<op, answer, wire, channel, buffer, held>>, cancelled => cancelled',
           pc' = [pc EXCEPT ![p] = where], where \notin {"add", "await"},
           where = "enqueue" => op[p] = "connect",
           \A c \in Connections : Writing(c)' <=> Writing(c),
           Draining' => Draining, Draining' /\ Pending(p) => where = "wait",
           where = "wait" /\ op[p] = "connect" => cancelled',
           \/ UNCHANGED client_state /\ pc[p] \notin {"enqueue", "await"}
           \/ client_state' \in {"NotConnected", "Closed"}
           \/ client_state' = "Connected" /\ where = "enqueue"
    PROVE  FitInv'
  <1>1. \A q \in Callers : q # p => pc'[q] = pc[q]
    BY DEF Shape, CallShape
  <1>2. pc'[p] = where
    BY DEF Shape, CallShape
  <1>3. client_state' # "Ready"
    BY DEF FitInv
  <1>4. client_state' = "Connected" =>
          \E q \in Callers : op'[q] = "connect" /\ pc'[q] \in {"enqueue", "await"}
    BY <1>1, <1>2 DEF FitInv
  <1>5. \A q \in Callers : pc'[q] # "add" /\ (pc'[q] \in {"enqueue", "await"} => op'[q] = "connect")
    BY <1>1, <1>2 DEF FitInv
  <1>6. Draining' => NothingOut' \/ \E q \in Callers : Pending(q)'
    BY <1>1, <1>2 DEF FitInv, NothingOut, Pending
  <1>7. \A q \in Callers : At(q, "connect", "wait")' => cancelled'
    BY <1>1, <1>2 DEF FitInv, At
  <1> QED
    BY <1>3, <1>4, <1>5, <1>6, <1>7 DEF FitInv

\* Only a connect gets as far as the channel, and finds it empty unless nobody
\* drains it.
LEMMA FitEnqueue ==
    ASSUME Shape, LockInv, handshakeFits, FitInv, NEW p \in Callers, Enqueue(p)
    PROVE  FitInv'
  <1>1. /\ pc[p] = "enqueue" /\ pc' = [pc EXCEPT ![p] = "await"]
        /\ UNCHANGED <<op, answer, client_state, cancelled, wire, buffer, held, writer>>
    BY DEF Enqueue, Goto, sharedVars, taskVars
  <1>2. op[p] = "connect"
    BY <1>1 DEF FitInv
  <1>3. PICK m \in Message : m.fits /\ channel' = Append(channel, m)
    <2>1. [req |-> req[p], fits |-> handshakeFits] \in Message
      BY <1>1 DEF Message, Shape, InHand
    <2>2. channel' = Append(channel, [req |-> req[p], fits |-> handshakeFits])
      BY <1>2 DEF Enqueue
    <2> QED
      BY <2>1, <2>2
  <1>4. channel \in Seq(Message)
    BY DEF Shape, DataShape
  <1>5. \A i \in 1..Len(channel') : channel'[i].fits
    BY <1>3, <1>4 DEF FitInv
  <1>6. \A q \in Callers : ~Pending(q)
    BY <1>1, <1>2 DEF LockInv, Holding, Connecting, Pending
  <1>7. Draining => Len(channel') = 1 /\ \A c \in Connections : buffer[c] = {} /\ ~Writing(c)
    BY <1>3, <1>4, <1>6 DEF FitInv, NothingOut
  <1>8. \A q \in Callers : pc'[q] = IF q = p THEN "await" ELSE pc[q]
    BY <1>1 DEF Shape, CallShape
  <1> QED
    BY <1>1, <1>2, <1>5, <1>7, <1>8 DEF FitInv, Draining, Pending, Writing, At

\* The other steps of a call: without an answer none of them stores Ready.
LEMMA FitCaller ==
    ASSUME Shape, LockInv, TaskInv, handshakeFits, FitInv, NEW p \in Callers, CallStep(p)
    PROVE  FitInv'
  <1> USE DEF At, Goto, Return
  <1>1. CASE ConnectRefused(p) \/ ConnectStart(p) \/ ConnectDrained(p) \/ TcpFails(p)
             \/ Waited(p) \/ SendRefused(p) \/ CloseAgain(p)
    <2>1. /\ UNCHANGED <<op, answer, cancelled, wire, channel, buffer, held, writer, client_state>>
          /\ \E where \in {"idle", "tcp", "drain"} : pc' = [pc EXCEPT ![p] = where]
          /\ pc[p] \notin {"enqueue", "await"} /\ (pc[p] = "wait" => TasksEnded)
      BY <1>1 DEF ConnectRefused, ConnectStart, ConnectDrained, TcpFails, Waited, SendRefused,
         CloseAgain, sharedVars, taskVars
    <2>2. Draining' <=> Draining
      BY <2>1 DEF Draining
    <2>3. Pending(p) => ~Draining
      BY <2>1 DEF Pending, Draining, FitInv, TasksEnded, Alive
    <2> QED
      BY <2>1, <2>2, <2>3, FitMoves DEF Writing
  <1>2. CASE TcpConnects(p)
    <2>1. /\ UNCHANGED <<op, answer, cancelled, wire, channel, buffer, held>>
          /\ pc' = [pc EXCEPT ![p] = "enqueue"] /\ client_state' = "Connected"
          /\ pc[p] = "tcp" /\ op[p] = "connect"
      BY <1>2 DEF TcpConnects
    <2>2. \A c \in Connections : Writing(c)' <=> Writing(c)
      BY <1>2 DEF TcpConnects, Writing, Shape, TaskShape, TaskInv, TasksEnded, Alive
    <2>3. PICK where : where = "enqueue" /\ pc' = [pc EXCEPT ![p] = where]
      BY <2>1
    <2>4. (cancelled => cancelled') /\ ~Pending(p)
      BY <2>1 DEF Pending
    <2>5. Draining' => Draining
      BY <1>2 DEF TcpConnects, Draining, Shape, TaskShape
    <2> QED
      BY <2>1, <2>2, <2>3, <2>4, <2>5, FitMoves DEF Writing
  <1>3. CASE HandshakeFails(p)
    <2>1. ~closed
      BY <1>3 DEF HandshakeFails, LockInv, Connecting
    <2>2. /\ UNCHANGED <<op, answer, wire, channel, buffer, held, writer>>
          /\ \E where \in {"wait"} : pc' = [pc EXCEPT ![p] = where]
          /\ cancelled' /\ client_state' = "NotConnected"
      BY <1>3, <2>1 DEF HandshakeFails, taskVars
    <2>3. Draining' => Draining
      BY <2>2 DEF Draining
    <2> QED
      BY <2>2, <2>3, FitMoves DEF Writing
  <1>4. CASE CloseStart(p)
    <2>1. /\ UNCHANGED <<op, answer, wire, channel, buffer, held, writer>>
          /\ \E where \in {"idle", "wait"} : pc' = [pc EXCEPT ![p] = where]
          /\ cancelled' = TRUE \/ UNCHANGED cancelled
          /\ pc[p] = "lock" /\ op[p] = "close" /\ client_state' = "Closed"
      BY <1>4 DEF CloseStart, taskVars
    <2>2. cancelled => cancelled'
      BY <2>1, Zenon
    <2>3. (Draining' => Draining) /\ ~Pending(p)
      BY <2>1, <2>2 DEF Draining, Pending
    <2> QED
      BY <2>1, <2>2, <2>3, FitMoves DEF Writing
  <1>5. ~HandshakeDone(p) /\ ~SendAdd(p) /\ ~SendReturns(p)
    BY DEF HandshakeDone, SendAdd, SendReturns, FitInv
  <1>6. ~SendChecked(p)
    <2>1. \A q \in Callers : Connecting(q) => lock \in Callers
      BY DEF LockInv, Holding
    <2>2. Running => \E q \in Callers : Connecting(q)
      BY DEF Running, FitInv, Connecting
    <2>3. Running => lock # NoCaller
      BY <2>1, <2>2, S2cClientAssumption
    <2> QED
      BY <2>3 DEF SendChecked
  <1> QED
    BY <1>1, <1>2, <1>3, <1>4, <1>5, <1>6, FitEnqueue DEF CallStep, LocalStep

\* Nothing has reached the peer, so that a reader has nothing to answer with.
LEMMA FitReader ==
    ASSUME Shape, FitInv, NEW c \in Connections, ReaderStep(c) \/ ReaderInput(c)
    PROVE  FitInv'
  <1>1. ~ReadAnswer(c)
    BY DEF ReadAnswer, FitInv
  <1>2. /\ UNCHANGED <<op, pc, wire, channel, buffer, held, writer>>
        /\ client_state' \in {client_state, "NotConnected"}
        /\ cancelled' = TRUE \/ UNCHANGED cancelled
    BY <1>1 DEF ReaderStep, DropReader, ReaderTop, FailAll, ReaderCancels, ReaderStores,
       ReaderInput, ReadOther, ReadFails, Answer, othersOfReader, sharedVars, callVars
  <1>3. cancelled => cancelled'
    BY <1>2, Zenon
  <1>4. \A p \in Callers : answer'[p] # "Ok"
    <2>1. CASE FailAll(c)
      BY <2>1 DEF FailAll, Answer, FitInv
    <2>2. CASE UNCHANGED answer
      BY <2>2 DEF FitInv
    <2> QED
      BY <1>1, <2>1, <2>2 DEF ReaderStep, DropReader, ReaderTop, ReaderCancels, ReaderStores,
         ReaderInput, ReadOther, ReadFails, callVars
  <1>5. Draining' => Draining
    BY <1>2, <1>3 DEF Draining
  <1> QED
    BY <1>2, <1>3, <1>4, <1>5 DEF FitInv, NothingOut, Pending, Writing, At

\* A handshake that is taken off the channel stays in the buffer.
LEMMA FitWriter ==
    ASSUME Shape, FitInv, NEW c \in Connections, WriterStep(c)
    PROVE  FitInv'
  <1>1. /\ UNCHANGED <<op, pc, answer, cancelled>>
        /\ client_state' \in {client_state, "NotConnected"}
        /\ \A d \in Connections : d # c => writer'[d] = writer[d]
    BY DEF WriterStep, DropWriter, WriterStarts, WriterTop, WriterUnthrottled,
       WriterReceives, WriterWrites, WriteFails, WriterGoto, othersOfWriter, callVars, Shape,
       TaskShape
  <1>2. CASE WriterReceives(c)
    <2>1. /\ Draining /\ channel # <<>> /\ channel' = Tail(channel)
          /\ UNCHANGED <<buffer, wire>>
          /\ held' = [held EXCEPT ![c] = Head(channel)]
      BY <1>2 DEF WriterReceives, Draining
    <2>2. Len(channel) = 1 /\ channel \in Seq(Message)
      BY <2>1 DEF FitInv, Shape, DataShape
    <2>3. channel' = <<>> /\ Len(channel') = 0 /\ Head(channel).fits
      BY <2>1, <2>2 DEF FitInv
    <2>4. \A d \in Connections : buffer[d] = {} /\ ~Writing(d)
      BY <2>1 DEF FitInv
    <2>5. \E p \in Callers : Pending(p)
      BY <2>1 DEF FitInv, NothingOut
    <2>6. \A d \in Connections : Writing(d)' => held'[d].fits
      BY <1>1, <2>1, <2>3, <2>4 DEF Writing, Shape, DataShape
    <2> QED
      BY <1>1, <2>1, <2>3, <2>4, <2>5, <2>6 DEF FitInv, Pending, At
  <1>3. CASE WriterWrites(c)
    <2>1. Writing(c) /\ buffer[c] = {} /\ held[c].fits
      BY <1>3 DEF WriterWrites, Writing, FitInv
    <2>2. /\ wire' = wire /\ \A d \in Connections : d # c => buffer'[d] = buffer[d]
      BY <1>3, <2>1 DEF WriterWrites, Buffered, Shape, DataShape
    <2>3. UNCHANGED <<channel, held>> /\ writer' = [writer EXCEPT ![c] = "top"]
      BY <1>3 DEF WriterWrites, WriterGoto
    <2>4. \A d \in Connections : Writing(d)' => d # c /\ Writing(d)
      BY <2>3 DEF Writing, Shape, TaskShape
    <2>5. channel = <<>> /\ \E p \in Callers : Pending(p)
      BY <2>1 DEF FitInv, NothingOut, Writing, Draining
    <2> QED
      BY <1>1, <2>2, <2>3, <2>4, <2>5 DEF FitInv, Pending, At
  <1>4. CASE DropWriter(c) \/ WriterStarts(c) \/ WriterTop(c) \/ WriterUnthrottled(c)
             \/ WriteFails(c)
    <2>1. UNCHANGED <<channel, held, buffer, wire>> /\ writer'[c] # "writing"
      BY <1>4 DEF DropWriter, WriterStarts, WriterTop, WriterUnthrottled, WriteFails,
         WriterGoto, Shape, TaskShape
    <2>2. Draining' => Draining
      <3>1. \/ WriterStarts(c) /\ ~cancelled
            \/ writer'[c] = "done"
            \/ writer[c] \in {"top", "throttled", "recv", "writing"}
        BY <1>4 DEF DropWriter, WriterStarts, WriterTop, WriterUnthrottled, WriteFails,
           WriterGoto, Shape, TaskShape
      <3> QED
        BY <1>1, <3>1 DEF Draining
    <2> QED
      BY <1>1, <2>1, <2>2 DEF FitInv, NothingOut, Pending, Writing, At
  <1> QED
    BY <1>2, <1>3, <1>4 DEF WriterStep

\* No step pushes a handshake out that fits into the buffer.
LEMMA FitInvariance == Spec => [](handshakeFits => FitInv)
  <1>1. Init => (handshakeFits => FitInv)
    BY DEF Init, FitInv, NothingOut, Writing, At, Pending
  <1>2. Shape /\ LockInv /\ TaskInv /\ (handshakeFits => FitInv) /\ [Next]_vars
          => (handshakeFits => FitInv)'
    <2> SUFFICES ASSUME Shape, LockInv, TaskInv, handshakeFits => FitInv, [Next]_vars,
                        handshakeFits'
                 PROVE  FitInv'
      OBVIOUS
    <2>1. UNCHANGED handshakeFits
      BY DEF Next, NewCall, Call, CallStep, LocalStep, ConnectRefused, ConnectStart,
         ConnectDrained, TcpFails, HandshakeDone, HandshakeFails, Waited, SendRefused,
         SendChecked, SendAdd, Enqueue, SendReturns, CloseStart, CloseAgain, TcpConnects,
         ReaderStep, DropReader, ReaderTop, FailAll, ReaderCancels, ReaderStores,
         ReaderInput, ReadAnswer, ReadAnswerTo, ReadOther, ReadFails, othersOfReader,
         WriterStep, DropWriter, WriterStarts, WriterTop, WriterUnthrottled,
         WriterReceives, WriterWrites, WriteFails, othersOfWriter, vars
    <2>2. handshakeFits /\ FitInv
      BY <2>1
    <2>3. CASE UNCHANGED vars
      BY <2>2, <2>3 DEF vars, callVars, sharedVars, taskVars, FitInv, Draining, Pending,
         NothingOut, Writing, At
    <2> QED
      BY <2>2, <2>3, FitNewCall, FitCaller, FitReader, FitWriter DEF Next
  <1> QED
    BY <1>1, <1>2, ShapeInvariance, LockInvariance, PTL DEF Spec

\* A client whose handshake fits into the BufWriter never becomes Ready, for
\* whatever number of callers, calls and connections: nothing pushes the
\* handshake out, and the failed connect cancels the token for good.
THEOREM Stuck == Spec => []SmallHandshakeStuck
  <1>1. (handshakeFits => FitInv) => SmallHandshakeStuck
    BY DEF FitInv, SmallHandshakeStuck
  <1> QED
    BY <1>1, FitInvariance, PTL
============================================================================
