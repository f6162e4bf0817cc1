------------------------ MODULE ClientServer_proofs ------------------------
(***************************************************************************)
(* No request of a client that is connected to the server is answered, for *)
(* any number of callers, calls and connections.                           *)
(***************************************************************************)
EXTENDS ClientServer, S2cClient_proofs

\* What the server can be asked and has not answered yet has reached it.
LEMMA AnswerableReached == \A c \in Connections : Answerable(c) \subseteq wire[c]
  BY DEF Answerable

\* A step of the handler alone is none of the client.
LEMMA HandlerStutters ==
    ASSUME NEW c \in Connections, HandlerStep(c)
    PROVE  UNCHANGED vars
  BY DEF HandlerStep, HandshakeEchoed, HandshakeRefused, Lookup, HandlerGoto

\* Every answer of the server is one that the client's peer may give.
LEMMA ServerIsPeer ==
    ASSUME NEW c \in Connections, ReadFromServer(c)
    PROVE  ReadAnswer(c)
  BY AnswerableReached DEF ReadFromServer, ReadAnswer

\* ClientServer takes the client's actions from S2cClient, so that the invariants of
\* the client with any peer are those of the client with this server.
LEMMA ClientSteps == CSSpec => Spec
  <1>1. CSInit => Init
    BY DEF CSInit
  <1>2. [CSNext]_allVars => [Next]_vars
    <2> SUFFICES ASSUME CSNext \/ UNCHANGED allVars PROVE Next \/ UNCHANGED vars
      BY DEF allVars
    <2>1. ASSUME NEW p \in Callers, Alone(NewCall(p)) \/ CallerStep(p) PROVE Next
      BY <2>1 DEF Alone, CallerStep, ConnectAccepted, CallStep, Next
    <2>2. ASSUME NEW c \in Connections,
                 Alone(ReaderStep(c)) \/ Alone(ReadFails(c)) \/ Alone(WriterStep(c))
          PROVE  Next
      BY <2>2 DEF Alone, ReaderInput, Next
    <2>3. ASSUME NEW c \in Connections, ReadFromServer(c) PROVE Next
      BY <2>3, ServerIsPeer DEF ReaderInput, Next
    <2>4. CASE UNCHANGED allVars
      BY <2>4 DEF allVars
    <2> QED
      BY <2>1, <2>2, <2>3, <2>4, HandlerStutters DEF CSNext
  <1> QED
    BY <1>1, <1>2, PTL DEF CSSpec, Spec

----------------------------------------------------------------------------
(* What the server answers *)

\* The server knows handshakes only.  The id of one is that of a connect, and of
\* no send, and no later call gets it again.
AnswerInv ==
    /\ NoRequestAnswered
    /\ handler \in [Connections -> {"none", "handshake", "greeted", "refused", "dropped"}]
    /\ handshake \in [Connections -> 0..calls]
    /\ \A p \in Callers : op[p] = "send" =>
         req[p] # 0 /\ \A c \in Connections : req[p] # handshake[c]

\* As long as no group server takes a connection over, the handshake is all that can be
\* answered on it.
LEMMA HandshakesOnly ==
    ASSUME NEW c \in Connections, handler[c] # "served"
    PROVE  Answerable(c) \subseteq {handshake[c]}
  BY Zenon DEF Answerable

\* Steps that touch neither calls nor handlers.
LEMMA AnswerStutter ==
    ASSUME AnswerInv, UNCHANGED <<op, req, answer, calls, handler, handshake>>
    PROVE  AnswerInv'
  BY DEF AnswerInv, NoRequestAnswered

\* A new call has an id that no handshake has.
LEMMA AnswerNewCall ==
    ASSUME Shape, OwnInv, AnswerInv, NEW p \in Callers, Alone(NewCall(p))
    PROVE  AnswerInv'
  <1>1. /\ UNCHANGED <<handler, handshake>> /\ calls' = calls + 1 /\ calls \in Nat
        /\ \A q \in Callers : q # p => op'[q] = op[q] /\ req'[q] = req[q] /\ answer'[q] = answer[q]
        /\ req'[p] = calls + 1 /\ answer'[p] = "none"
    BY DEF Alone, NewCall, Call, Shape, CallShape
  <1>2. handshake' \in [Connections -> 0..calls']
    BY <1>1 DEF AnswerInv
  <1>3. \A c \in Connections : req'[p] # handshake'[c]
    BY <1>1 DEF AnswerInv
  <1> QED
    BY <1>1, <1>2, <1>3 DEF AnswerInv, NoRequestAnswered

\* The handshake of a connection is that of the connect that made it.
LEMMA AnswerConnect ==
    ASSUME Shape, OwnInv, AnswerInv, NEW p \in Callers, ConnectAccepted(p)
    PROVE  AnswerInv'
  <1>1. /\ op[p] = "connect" /\ pc[p] = "tcp" /\ conns < MaxConnects
        /\ handler' = [handler EXCEPT ![conns + 1] = "handshake"]
        /\ handshake' = [handshake EXCEPT ![conns + 1] = req[p]]
        /\ UNCHANGED <<op, req, answer, calls>>
    BY DEF ConnectAccepted, TcpConnects, At, Goto
  <1>2. req[p] \in Requests /\ req[p] \in 0..calls
    BY <1>1 DEF Shape, CallShape, InHand, OwnInv, Requests
  <1>3. \A q \in Callers : op[q] = "send" => req[q] # req[p]
    BY <1>1, <1>2 DEF OwnInv, Requests
  <1>4. \A c \in Connections : handshake'[c] \in {handshake[c], req[p]}
    BY <1>1 DEF AnswerInv
  <1> QED
    BY <1>1, <1>2, <1>3, <1>4 DEF AnswerInv, NoRequestAnswered

\* What the client reads answers the handshake, whose id is that of no send.
LEMMA AnswerRead ==
    ASSUME AnswerInv, NEW c \in Connections, ReadFromServer(c)
    PROVE  AnswerInv'
  <1>1. PICK id \in Answerable(c) : ReadAnswerTo(c, id, "none")
    BY DEF ReadFromServer
  <1>2. id = handshake[c]
    BY HandshakesOnly DEF AnswerInv
  <1>3. UNCHANGED <<op, req, calls, handler, handshake>>
    BY <1>1 DEF ReadFromServer, ReadAnswerTo, Answer, callVars
  <1>4. \A p \in Callers : req[p] # handshake[c] => answer'[p] = answer[p]
    BY <1>1, <1>2 DEF ReadAnswerTo, Answer, callVars
  <1> QED
    BY <1>3, <1>4 DEF AnswerInv, NoRequestAnswered

\* The client's tasks answer otherwise only with errors.
LEMMA AnswerTask ==
    ASSUME AnswerInv, NEW c \in Connections,
           Alone(ReaderStep(c)) \/ Alone(ReadFails(c)) \/ Alone(WriterStep(c))
    PROVE  AnswerInv'
  <1>1. CASE FailAll(c)
    <2>1. UNCHANGED <<op, req, calls, handler, handshake>>
      BY <1>1 DEF Alone, FailAll, Answer
    <2>2. \A p \in Callers : answer'[p] \in {answer[p], "Err"}
      BY <1>1 DEF FailAll, Answer
    <2> QED
      BY <2>1, <2>2 DEF AnswerInv, NoRequestAnswered
  <1>2. CASE UNCHANGED <<op, req, answer, calls>>
    BY <1>2, AnswerStutter DEF Alone
  <1> QED
    BY <1>1, <1>2 DEF Alone, ReaderStep, DropReader, ReaderTop, ReaderCancels, ReaderStores,
       ReadFails, WriterStep, DropWriter, WriterStarts, WriterTop, WriterUnthrottled,
       WriterReceives, WriterWrites, WriteFails, othersOfWriter, callVars

\* A handler greets, refuses or drops its client, and never begins to serve it.
LEMMA AnswerHandler ==
    ASSUME AnswerInv, NEW c \in Connections, HandlerStep(c)
    PROVE  AnswerInv'
  <1>1. UNCHANGED <<op, req, answer, calls, handshake>>
    BY HandlerStutters DEF vars, callVars, HandlerStep, HandshakeEchoed, HandshakeRefused,
       Lookup, HandlerGoto
  <1>2. \E where \in {"greeted", "refused", "dropped"} : handler' = [handler EXCEPT ![c] = where]
    BY DEF HandlerStep, HandshakeEchoed, HandshakeRefused, Lookup, HandlerGoto
  <1> QED
    BY <1>1, <1>2 DEF AnswerInv, NoRequestAnswered

\* No request other than a handshake is answered, whoever sends how many over
\* however many connections: the server reads handshakes and drops the connection.
THEOREM Unanswered == CSSpec => []NoRequestAnswered
  <1>1. CSInit => AnswerInv
    BY DEF CSInit, Init, AnswerInv, NoRequestAnswered
  <1>2. Shape /\ OwnInv /\ AnswerInv /\ [CSNext]_allVars => AnswerInv'
    <2> SUFFICES ASSUME Shape, OwnInv, AnswerInv, [CSNext]_allVars PROVE AnswerInv'
      OBVIOUS
    <2>1. ASSUME NEW p \in Callers, Alone(LocalStep(p)) PROVE AnswerInv'
      <3>1. UNCHANGED <<op, req, answer, calls, handler, handshake>>
        BY <2>1, CallerMoves DEF Alone
      <3> QED
        BY <3>1, AnswerStutter
    <2>2. CASE UNCHANGED allVars
      BY <2>2, AnswerStutter DEF allVars, vars, callVars
    <2> QED
      BY <2>1, <2>2, AnswerNewCall, AnswerConnect, AnswerRead, AnswerTask, AnswerHandler
         DEF CSNext, CallerStep
  <1>3. Spec => [](Shape /\ OwnInv)
    BY ShapeInvariance, OwnInvariance, PTL
  <1> QED
    BY <1>1, <1>2, <1>3, ClientSteps, PTL DEF CSSpec, AnswerInv
============================================================================
