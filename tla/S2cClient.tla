----------------------------- MODULE S2cClient -----------------------------
(***************************************************************************)
(* The client of src/src/network/client.rs and the table of its requests,  *)
(* src/src/network/inflight.rs.  Any task of the process may connect, send *)
(* and close; each connection has a task that reads (drain_in) and one     *)
(* that writes (drain_out).  All of them share an atomic state, a channel, *)
(* one cancellation token and one task tracker, which outlive connections. *)
(*                                                                         *)
(* The runtime has several threads: an action is a stretch of code between *)
(* two awaits, or a part of one where another thread's access to the       *)
(* shared state makes a difference.  A task that is wrapped in the token   *)
(* does not begin once the token is cancelled, and is dropped at an await; *)
(* but with_cancellation_token polls the task before the token, so that it *)
(* goes on where it need not wait.  The peer, which is not modelled, may   *)
(* answer a request that has reached it, with an error or without, say     *)
(* something else, or break the connection.                                *)
(***************************************************************************)
EXTENDS Integers, Sequences, FiniteSets

CONSTANTS
    Callers,      \* the tasks that use the client
    NoCaller,     \* nobody: the write lock is free
    Capacity,     \* S2cNetworkOptions::max_pending_reqs_per_client
    MaxCalls,     \* bound: calls made by all callers together
    MaxConnects   \* bound: TCP connections made

ASSUME S2cClientAssumption ==
    /\ NoCaller \notin Callers
    /\ Capacity \in Nat /\ MaxCalls \in Nat /\ MaxConnects \in Nat

VARIABLES
    client_state,  \* S2cClient.client_state
    lock,          \* who holds rw_lock for writing
    closed,        \* task_tracker is closed
    cancelled,     \* cancellation_token is cancelled
    throttle,      \* S2cClient.throttle
    channel,       \* what sender has sent and receiver has not received
    inflight,      \* InflightRequests.requests: the correlation ids
    op, pc,        \* the method each caller is in, and where it waits
    req,           \* its correlation id, unlike that of any other call
    answer,        \* what its oneshot receiver holds
    calls, conns,  \* the calls and connections made so far
    reader,        \* where each connection's drain_in is
    writer,        \* where each connection's drain_out is
    held,          \* the message it has taken off the channel
    buffer,        \* its BufWriter: requests written and not flushed
    wire,          \* the requests that have reached the peer
    handshakeFits, \* a handshake fits into the BufWriter
    ended,         \* history: a close has returned
    owed           \* history: the requests in flight when a write failed

callVars == <<op, pc, req, answer, calls>>
sharedVars == <<client_state, closed, cancelled>>
taskVars == <<reader, writer, held, buffer, wire, throttle, conns>>
historyVars == <<ended, owed>>
othersOfReader == <<writer, held, buffer, conns, historyVars, lock, channel, handshakeFits>>
othersOfWriter == <<reader, conns, callVars, closed, cancelled, ended, lock, inflight,
                    handshakeFits>>
vars == <<callVars, sharedVars, taskVars, historyVars, lock, channel, inflight,
          handshakeFits>>

----------------------------------------------------------------------------
(* Values *)

ClientState == {"NotConnected", "Connected", "Ready", "Closed"}

Connections == 1..MaxConnects

Requests == 1..MaxCalls

NoMessage == [req |-> 0, fits |-> TRUE]

Init ==
    /\ client_state = "NotConnected"
    /\ lock = NoCaller
    /\ closed = FALSE
    /\ cancelled = FALSE
    /\ throttle = FALSE
    /\ channel = <<>>
    /\ inflight = {}
    /\ op = [p \in Callers |-> "none"]
    /\ pc = [p \in Callers |-> "idle"]
    /\ req = [p \in Callers |-> 0]
    /\ answer = [p \in Callers |-> "none"]
    /\ calls = 0
    /\ conns = 0
    /\ reader = [c \in Connections |-> "none"]
    /\ writer = [c \in Connections |-> "none"]
    /\ held = [c \in Connections |-> NoMessage]
    /\ buffer = [c \in Connections |-> {}]
    /\ wire = [c \in Connections |-> {}]
    /\ handshakeFits \in BOOLEAN
    /\ ended = FALSE
    /\ owed = [c \in Connections |-> {}]

Running == client_state \in {"Ready", "Connected"}

Alive(c) == reader[c] \notin {"none", "done"} \/ writer[c] \notin {"none", "done"}

\* task_tracker.wait() returns: the tasks have ended.
TasksEnded == \A c \in Connections : ~Alive(c)

----------------------------------------------------------------------------
(* Calls and returns *)

Call(p, method) ==
    /\ pc[p] = "idle"
    /\ calls < MaxCalls
    /\ calls' = calls + 1
    /\ op' = [op EXCEPT ![p] = method]
    /\ pc' = [pc EXCEPT ![p] = "lock"]
    /\ req' = [req EXCEPT ![p] = calls + 1]
    /\ answer' = [answer EXCEPT ![p] = "none"]
    /\ UNCHANGED <<sharedVars, taskVars, historyVars, lock, channel, inflight,
                   handshakeFits>>

At(p, method, where) == op[p] = method /\ pc[p] = where

Goto(p, where) ==
    /\ pc' = [pc EXCEPT ![p] = where]
    /\ UNCHANGED <<op, req, answer, calls>>

\* The method returns, and its guard is dropped.
Return(p) ==
    /\ Goto(p, "idle")
    /\ lock' = IF lock = p THEN NoCaller ELSE lock
    /\ ended' = (ended \/ op[p] = "close")
    /\ UNCHANGED owed

----------------------------------------------------------------------------
(* InflightRequests *)

Add(p) == inflight' = inflight \cup {req[p]}

\* The caller goes away and leaves its entry in the table.
DiscardNot(p) == UNCHANGED inflight

Discard(p) == inflight' = inflight \ {req[p]}

\* Every caller whose id is among these receives this result.
Answer(ids, result) ==
    /\ inflight' = inflight \ ids
    /\ answer' = [p \in Callers |->
                    IF req[p] \in ids \cap inflight THEN result ELSE answer[p]]
    /\ UNCHANGED <<op, pc, req, calls>>

----------------------------------------------------------------------------
(* connect *)

\* A client that is not NotConnected is connected, as far as connect goes.
ConnectRefused(p) ==
    /\ At(p, "connect", "lock") /\ lock = NoCaller
    /\ client_state # "NotConnected"
    /\ Return(p)
    /\ UNCHANGED <<sharedVars, taskVars, channel, inflight, handshakeFits>>

\* The tasks of the last connection are not waited for.
ConnectStartHasty(p) ==
    /\ At(p, "connect", "lock") /\ lock = NoCaller
    /\ client_state = "NotConnected"
    /\ lock' = p
    /\ closed' = FALSE
    /\ Goto(p, "tcp")
    /\ UNCHANGED <<client_state, cancelled, taskVars, historyVars, channel, inflight,
                   handshakeFits>>

\* A fresh token for every connection.
ConnectStartFresh(p) ==
    /\ At(p, "connect", "lock") /\ lock = NoCaller
    /\ client_state = "NotConnected"
    /\ lock' = p
    /\ closed' = ~closed
    /\ cancelled' = FALSE
    /\ Goto(p, IF closed THEN "tcp" ELSE "drain")
    /\ UNCHANGED <<client_state, taskVars, historyVars, channel, inflight, handshakeFits>>

\* A client that has no tasks left is connected anew, whatever its state says.
ConnectStartAnyway(p) ==
    /\ At(p, "connect", "lock") /\ lock = NoCaller
    /\ client_state = "NotConnected" \/ (client_state = "Ready" /\ TasksEnded)
    /\ lock' = p
    /\ closed' = ~closed
    /\ Goto(p, IF closed THEN "tcp" ELSE "drain")
    /\ UNCHANGED <<client_state, cancelled, taskVars, historyVars, channel, inflight,
                   handshakeFits>>

\* The tracker is closed, and then waited for, unless it was closed already; it
\* is reopened at once in that case.
ConnectStart(p) ==
    /\ At(p, "connect", "lock") /\ lock = NoCaller
    /\ client_state = "NotConnected"
    /\ lock' = p
    /\ closed' = ~closed
    /\ Goto(p, IF closed THEN "tcp" ELSE "drain")
    /\ UNCHANGED <<client_state, cancelled, taskVars, historyVars, channel, inflight,
                   handshakeFits>>

ConnectDrained(p) ==
    /\ At(p, "connect", "drain") /\ TasksEnded
    /\ closed' = FALSE
    /\ Goto(p, "tcp")
    /\ UNCHANGED <<client_state, cancelled, taskVars, historyVars, lock, channel,
                   inflight, handshakeFits>>

\* ConnectTimeout or Io.
TcpFails(p) ==
    /\ At(p, "connect", "tcp")
    /\ Return(p)
    /\ UNCHANGED <<sharedVars, taskVars, channel, inflight, handshakeFits>>

\* The state is Connected, both tasks are spawned and the handshake is added to
\* the requests in flight.
TcpConnects(p) ==
    /\ At(p, "connect", "tcp")
    /\ conns < MaxConnects
    /\ conns' = conns + 1
    /\ client_state' = "Connected"
    /\ reader' = [reader EXCEPT ![conns + 1] = "spawned"]
    /\ writer' = [writer EXCEPT ![conns + 1] = "spawned"]
    /\ Add(p)
    /\ Goto(p, "enqueue")
    /\ UNCHANGED <<closed, cancelled, held, buffer, wire, throttle, historyVars, lock,
                   channel, handshakeFits>>

HandshakeDone(p) ==
    /\ At(p, "connect", "await") /\ answer[p] = "Ok"
    /\ client_state' = "Ready"
    /\ Return(p)
    /\ UNCHANGED <<closed, cancelled, taskVars, channel, inflight, handshakeFits>>

\* An error or the timeout: the connection is taken down, and the token, which
\* is never replaced, cancelled.
HandshakeFails(p) ==
    /\ At(p, "connect", "await") /\ answer[p] # "Ok"
    /\ Discard(p)
    /\ client_state' = "NotConnected"
    /\ closed' = TRUE
    /\ IF closed
         THEN Return(p) /\ UNCHANGED cancelled
         ELSE Goto(p, "wait") /\ cancelled' = TRUE /\ UNCHANGED <<lock, historyVars>>
    /\ UNCHANGED <<taskVars, channel, handshakeFits>>

\* The wait of a failed connect, or of close, is over.
Waited(p) ==
    /\ pc[p] = "wait" /\ TasksEnded
    /\ Return(p)
    /\ UNCHANGED <<sharedVars, taskVars, channel, inflight, handshakeFits>>

----------------------------------------------------------------------------
(* send *)

\* Closed or NotConnected.
SendRefused(p) ==
    /\ At(p, "send", "lock") /\ lock = NoCaller
    /\ ~Running
    /\ Return(p)
    /\ UNCHANGED <<sharedVars, taskVars, channel, inflight, handshakeFits>>

\* The guard is dropped: what follows relies on a state that may be gone.
SendChecked(p) ==
    /\ At(p, "send", "lock") /\ lock = NoCaller
    /\ Running
    /\ Goto(p, "add")
    /\ UNCHANGED <<sharedVars, taskVars, historyVars, lock, channel, inflight,
                   handshakeFits>>

SendAdd(p) ==
    /\ At(p, "send", "add")
    /\ Add(p)
    /\ Goto(p, "enqueue")
    /\ UNCHANGED <<sharedVars, taskVars, historyVars, lock, channel, handshakeFits>>

\* Room for one message too many.
HasRoomTooMuch == Len(channel) <= Capacity

HasRoom == Len(channel) < Capacity

\* The request, or the handshake, enters the channel, for which it waits as long
\* as it takes.
Enqueue(p) ==
    /\ pc[p] = "enqueue" /\ HasRoom
    /\ \E fits \in IF op[p] = "connect" THEN {handshakeFits} ELSE BOOLEAN :
         channel' = Append(channel, [req |-> req[p], fits |-> fits])
    /\ Goto(p, "await")
    /\ UNCHANGED <<sharedVars, taskVars, historyVars, lock, inflight, handshakeFits>>

\* Without an answer the timeout does not fire either.
SendReturnsLate(p) ==
    /\ At(p, "send", "await") /\ answer[p] # "none"
    /\ Discard(p)
    /\ Return(p)
    /\ UNCHANGED <<sharedVars, taskVars, channel, handshakeFits>>

\* An answer, an error or the timeout.
SendReturns(p) ==
    /\ At(p, "send", "await")
    /\ Discard(p)
    /\ Return(p)
    /\ UNCHANGED <<sharedVars, taskVars, channel, handshakeFits>>

----------------------------------------------------------------------------
(* close *)

\* The lock is not taken.
CloseStartUnlocked(p) ==
    /\ At(p, "close", "lock")
    /\ client_state # "Closed"
    /\ client_state' = "Closed"
    /\ closed' = TRUE
    /\ IF closed
         THEN Return(p) /\ UNCHANGED cancelled
         ELSE Goto(p, "wait") /\ cancelled' = TRUE /\ UNCHANGED <<lock, historyVars>>
    /\ UNCHANGED <<taskVars, channel, inflight, handshakeFits>>

CloseStart(p) ==
    /\ At(p, "close", "lock") /\ lock = NoCaller
    /\ client_state # "Closed"
    /\ client_state' = "Closed"
    /\ closed' = TRUE
    /\ IF closed
         THEN Return(p) /\ UNCHANGED cancelled
         ELSE /\ Goto(p, "wait") /\ lock' = p /\ cancelled' = TRUE
              /\ UNCHANGED historyVars
    /\ UNCHANGED <<taskVars, channel, inflight, handshakeFits>>

CloseAgain(p) ==
    /\ At(p, "close", "lock") /\ lock = NoCaller
    /\ client_state = "Closed"
    /\ Return(p)
    /\ UNCHANGED <<sharedVars, taskVars, channel, inflight, handshakeFits>>

----------------------------------------------------------------------------
(* drain_in *)

ReaderGoto(c, where) == reader' = [reader EXCEPT ![c] = where]

\* The token ends the task where it waits, or before it begins.
DropReader(c) ==
    /\ cancelled
    /\ reader[c] \in {"spawned", "reading", "fail"}
    /\ ReaderGoto(c, "done")
    /\ UNCHANGED <<callVars, sharedVars, wire, throttle, inflight, othersOfReader>>

ReaderTop(c) ==
    /\ reader[c] = "top" \/ (reader[c] = "spawned" /\ ~cancelled)
    /\ ReaderGoto(c, IF Running THEN "reading" ELSE "done")
    /\ UNCHANGED <<callVars, sharedVars, wire, throttle, inflight, othersOfReader>>

\* The answer to a request that has reached the peer.  One with an error is not
\* given to the caller; SlowDownError throttles the writer.
ReadAnswerTo(c, id, error) ==
    /\ reader[c] = "reading"
    /\ wire' = [wire EXCEPT ![c] = @ \ {id}]
    /\ IF Running /\ error = "none"
         THEN Answer({id}, "Ok")
         ELSE UNCHANGED <<inflight, callVars>>
    /\ throttle' = (throttle \/ (Running /\ error = "SlowDownError"))
    /\ ReaderGoto(c, IF Running THEN "top" ELSE "done")
    /\ UNCHANGED <<sharedVars, othersOfReader>>

ReadAnswer(c) ==
    \E id \in wire[c], error \in {"none", "SlowDownError", "other"} :
        ReadAnswerTo(c, id, error)

\* A message that answers no request.
ReadOther(c) ==
    /\ reader[c] = "reading"
    /\ ReaderGoto(c, IF Running THEN "top" ELSE "done")
    /\ UNCHANGED <<callVars, sharedVars, wire, throttle, inflight, othersOfReader>>

\* The connection breaks, or a message is too large or cannot be decoded.
ReadFails(c) ==
    /\ reader[c] = "reading"
    /\ ReaderGoto(c, "fail")
    /\ UNCHANGED <<callVars, sharedVars, wire, throttle, inflight, othersOfReader>>

FailAll(c) ==
    /\ reader[c] = "fail"
    /\ Answer(inflight, "Err")
    /\ ReaderGoto(c, "cancel")
    /\ UNCHANGED <<sharedVars, wire, throttle, othersOfReader>>

ReaderCancels(c) ==
    /\ reader[c] = "cancel"
    /\ cancelled' = TRUE
    /\ ReaderGoto(c, "store")
    /\ UNCHANGED <<callVars, client_state, closed, wire, throttle, inflight, othersOfReader>>

\* Whatever the state is by now.
ReaderStores(c) ==
    /\ reader[c] = "store"
    /\ client_state' = "NotConnected"
    /\ ReaderGoto(c, "done")
    /\ UNCHANGED <<callVars, closed, cancelled, wire, throttle, inflight, othersOfReader>>

----------------------------------------------------------------------------
(* drain_out *)

WriterGoto(c, where) == writer' = [writer EXCEPT ![c] = where]

DropWriter(c) ==
    /\ cancelled
    /\ writer[c] \in {"spawned", "throttled", "recv", "writing"}
    /\ WriterGoto(c, "done")
    /\ UNCHANGED <<client_state, held, buffer, wire, throttle, owed, channel, othersOfWriter>>

\* The writer locks the receiver, which one writer holds until it ends.
WriterStarts(c) ==
    /\ writer[c] = "spawned" /\ ~cancelled
    /\ \A d \in Connections \ {c} : writer[d] \in {"none", "spawned", "done"}
    /\ WriterGoto(c, "top")
    /\ UNCHANGED <<client_state, held, buffer, wire, throttle, owed, channel, othersOfWriter>>

WriterTop(c) ==
    /\ writer[c] = "top"
    /\ WriterGoto(c, IF ~Running THEN "done" ELSE IF throttle THEN "throttled" ELSE "recv")
    /\ UNCHANGED <<client_state, held, buffer, wire, throttle, owed, channel, othersOfWriter>>

\* throttle_delay_ms is over.
WriterUnthrottled(c) ==
    /\ writer[c] = "throttled"
    /\ throttle' = FALSE
    /\ WriterGoto(c, "recv")
    /\ UNCHANGED <<client_state, held, buffer, wire, owed, channel, othersOfWriter>>

\* A message is taken off the channel, and lost if the state has changed.
WriterReceives(c) ==
    /\ writer[c] = "recv"
    /\ channel # <<>>
    /\ channel' = Tail(channel)
    /\ held' = [held EXCEPT ![c] = Head(channel)]
    /\ WriterGoto(c, IF Running THEN "writing" ELSE "done")
    /\ UNCHANGED <<client_state, buffer, wire, throttle, owed, othersOfWriter>>

\* Every message is flushed, as the server does.
BufferedFlushed(c, fills) ==
    /\ wire' = [wire EXCEPT ![c] = @ \cup buffer[c] \cup {held[c].req}]
    /\ UNCHANGED buffer

\* write_bytes on a BufWriter that nobody flushes: a message that fits stays in
\* the buffer, and what is there goes out when there is no room left for it; a
\* message that does not fit goes out at once, after what is there.
Buffered(c, fills) ==
    LET out == IF ~held[c].fits THEN buffer[c] \cup {held[c].req}
               ELSE IF fills THEN buffer[c] ELSE {}
    IN  /\ wire' = [wire EXCEPT ![c] = @ \cup out]
        /\ buffer' = [buffer EXCEPT ![c] = (@ \cup {held[c].req}) \ out]

WriterWrites(c) ==
    /\ writer[c] = "writing"
    /\ \E fills \in BOOLEAN : Buffered(c, fills)
    /\ WriterGoto(c, "top")
    /\ UNCHANGED <<client_state, held, throttle, owed, channel, othersOfWriter>>

\* "Writer dropped, reader clears up".
WriteFails(c) ==
    /\ writer[c] = "writing"
    /\ client_state' = "NotConnected"
    /\ WriterGoto(c, "done")
    /\ owed' = [owed EXCEPT ![c] = inflight]
    /\ UNCHANGED <<held, buffer, wire, throttle, channel, othersOfWriter>>

----------------------------------------------------------------------------

NewCall(p) == \E method \in {"connect", "send", "close"} : Call(p, method)

\* What the caller's own task does in a call, without a word to the peer.
LocalStep(p) ==
    \/ ConnectRefused(p) \/ ConnectStart(p) \/ ConnectDrained(p) \/ TcpFails(p)
    \/ HandshakeDone(p) \/ HandshakeFails(p) \/ Waited(p)
    \/ SendRefused(p) \/ SendChecked(p) \/ SendAdd(p) \/ Enqueue(p) \/ SendReturns(p)
    \/ CloseStart(p) \/ CloseAgain(p)

CallStep(p) == TcpConnects(p) \/ LocalStep(p)

ReaderStep(c) ==
    DropReader(c) \/ ReaderTop(c) \/ FailAll(c) \/ ReaderCancels(c) \/ ReaderStores(c)

ReaderInput(c) == ReadAnswer(c) \/ ReadOther(c) \/ ReadFails(c)

WriterStep(c) ==
    \/ DropWriter(c) \/ WriterStarts(c) \/ WriterTop(c) \/ WriterUnthrottled(c)
    \/ WriterReceives(c) \/ WriterWrites(c) \/ WriteFails(c)

Next ==
    \/ \E p \in Callers : NewCall(p) \/ CallStep(p)
    \/ \E c \in Connections : ReaderStep(c) \/ ReaderInput(c) \/ WriterStep(c)

Spec == Init /\ [][Next]_vars

\* The runtime polls every task and every timer fires.  Of the peer it is only
\* assumed that it does not keep its half of a connection open for ever, in
\* silence, when the client's half is gone.
Fairness ==
    /\ \A p \in Callers : WF_vars(CallStep(p))
    /\ \A c \in Connections :
        /\ WF_vars(ReaderStep(c))
        /\ WF_vars(WriterStep(c))
        /\ WF_vars(writer[c] = "done" /\ ReadFails(c))

FairSpec == Spec /\ Fairness

----------------------------------------------------------------------------
(* Properties *)

Message == [req : Requests, fits : BOOLEAN]

\* Every variable has its type and the channel holds no more than it may.
TypeOK ==
    /\ client_state \in ClientState
    /\ lock \in Callers \cup {NoCaller}
    /\ {closed, cancelled, throttle, handshakeFits, ended} \subseteq BOOLEAN
    /\ channel \in Seq(Message) /\ Len(channel) <= Capacity
    /\ inflight \subseteq Requests
    /\ op \in [Callers -> {"none", "connect", "send", "close"}]
    /\ pc \in [Callers -> {"idle", "lock", "drain", "tcp", "add", "enqueue", "await",
                           "wait"}]
    /\ req \in [Callers -> {0} \cup Requests]
    /\ answer \in [Callers -> {"none", "Ok", "Err"}]
    /\ calls \in 0..MaxCalls /\ conns \in 0..MaxConnects
    /\ reader \in [Connections -> {"none", "spawned", "top", "reading", "fail",
                                   "cancel", "store", "done"}]
    /\ writer \in [Connections -> {"none", "spawned", "top", "throttled", "recv",
                                   "writing", "done"}]
    /\ held \in [Connections -> Message \cup {NoMessage}]
    /\ buffer \in [Connections -> SUBSET Requests]
    /\ wire \in [Connections -> SUBSET Requests]
    /\ owed \in [Connections -> SUBSET Requests]

\* The tasks of two connections never run at the same time: connect does not
\* open one before drain_in and drain_out of the last have ended, however that
\* one failed.  Otherwise an old reader would fail the requests of the new one.
OneConnection ==
    \A c, d \in Connections : Alive(c) /\ Alive(d) => c = d

\* The table of requests in flight does not leak: an entry belongs to a call
\* that is still to look at its answer, although answers, fail_all, timeouts and
\* discards race.
InflightOwned ==
    \A id \in inflight : \E p \in Callers :
        /\ req[p] = id
        /\ pc[p] \in {"enqueue", "await"}
        /\ answer[p] = "none"

\* After close has returned the client is never Ready again and no task of it
\* reads or writes, although a late store can turn Closed into NotConnected and
\* a connect then opens a connection.
ClosedForGood ==
    ended => /\ client_state # "Ready"
             /\ \A c \in Connections : {reader[c], writer[c]} \subseteq {"none", "spawned", "done"}

\* A handshake is answered only if it is larger than the buffer: drain_out does
\* not flush, and no request can follow the first handshake and push it out.
SmallHandshakeStuck == handshakeFits => client_state # "Ready"

\* No caller gets a response it does not have already.
NoNewResponse == \A p \in Callers : answer'[p] = "Ok" => answer[p] = "Ok"

\* The token is cancelled and the tasks that had begun have ended.
Dead ==
    /\ cancelled
    /\ \A c \in Connections : {reader[c], writer[c]} \subseteq {"none", "spawned", "done"}

\* A broken connection is the client's last, with or without a close: the token
\* that drain_in or a failed connect cancels is never replaced, so that the tasks
\* of later connections are dropped before they begin and no later call, be it a
\* connect or a send, is ever answered.
DeadForGood == [][Dead => Dead' /\ NoNewResponse]_vars

\* A client that connect has made Ready after its tasks had ended stays Ready and
\* gets no response, until it is closed: connect takes it for connected, nothing
\* of it notices and no later connection replaces the lost one.
StaleReadyStays ==
    [][client_state = "Ready" /\ TasksEnded =>
         client_state' \in {"Ready", "Closed"} /\ NoNewResponse]_vars

\* Every call returns, with an answer, an error or a timeout, unless a caller is
\* stuck at the full channel: the send on it is the one wait without a limit.
CallsReturn ==
    \A p \in Callers : pc[p] # "idle" ~>
        pc[p] = "idle" \/ \E q \in Callers : pc[q] = "enqueue" /\ ~HasRoom

\* "Writer dropped, reader clears up": when a write has failed and the reader has
\* ended too, the requests that were in flight at the time are not any more.
ReaderClearsUp ==
    \A c \in Connections : reader[c] = "done" => owed[c] \cap inflight = {}
============================================================================
