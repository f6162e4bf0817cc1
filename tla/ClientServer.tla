---------------------------- MODULE ClientServer ----------------------------
(***************************************************************************)
(* S2cClient connected to S2cServer: the peer, which S2cClient leaves      *)
(* open, is the handler that server.rs spawns for each connection          *)
(* (handle_client, see S2cServer), and the network between them, which may *)
(* break.  The handler waits for a handshake, skips everything else, sends *)
(* the handshake back and looks its group up; the future of                *)
(* GroupServer::handle_client is dropped, and the connection with it.      *)
(***************************************************************************)
EXTENDS S2cClient

VARIABLES
    handler,   \* where the server's handler of each connection is
    handshake  \* the correlation id of its handshake

allVars == <<vars, handler, handshake>>

CSInit ==
    /\ Init
    /\ handler = [c \in Connections |-> "none"]
    /\ handshake = [c \in Connections |-> 0]

\* The connection is accepted, and the client is about to send its handshake.
ConnectAccepted(p) ==
    /\ TcpConnects(p)
    /\ handler' = [handler EXCEPT ![conns + 1] = "handshake"]
    /\ handshake' = [handshake EXCEPT ![conns + 1] = req[p]]

HandlerGoto(c, where) ==
    /\ handler' = [handler EXCEPT ![c] = where]
    /\ UNCHANGED <<vars, handshake>>

\* The handshake has reached the handler, which echoes and flushes it.
HandshakeEchoed(c) ==
    /\ handler[c] = "handshake" /\ handshake[c] \in wire[c]
    /\ HandlerGoto(c, "greeted")

\* Timeout, a broken connection, or an echo that cannot be written.
HandshakeRefused(c) ==
    /\ handler[c] = "handshake"
    /\ HandlerGoto(c, "refused")

\* The group's loops take the connection over.
LookupAwaited(c) ==
    /\ handler[c] = "greeted"
    /\ HandlerGoto(c, "served")

\* Whatever the lookup finds, the handler ends and drops the connection.
Lookup(c) ==
    /\ handler[c] = "greeted"
    /\ HandlerGoto(c, "dropped")

\* What the client may read: the echo, once, which can still be under way when the
\* handler is gone, and the answers of a group that serves the connection.
Answerable(c) ==
    CASE handler[c] = "served" -> wire[c]
      [] handler[c] \in {"greeted", "dropped"} -> wire[c] \cap {handshake[c]}
      [] OTHER -> {}

ReadFromServer(c) ==
    /\ \E id \in Answerable(c) : ReadAnswerTo(c, id, "none")
    /\ UNCHANGED <<handler, handshake>>

----------------------------------------------------------------------------

Alone(A) == A /\ UNCHANGED <<handler, handshake>>

CallerStep(p) == ConnectAccepted(p) \/ Alone(LocalStep(p))

HandlerStep(c) == HandshakeEchoed(c) \/ HandshakeRefused(c) \/ Lookup(c)

CSNext ==
    \/ \E p \in Callers : Alone(NewCall(p)) \/ CallerStep(p)
    \/ \E c \in Connections :
        \/ Alone(ReaderStep(c)) \/ Alone(ReadFails(c)) \/ Alone(WriterStep(c))
        \/ ReadFromServer(c) \/ HandlerStep(c)

CSSpec == CSInit /\ [][CSNext]_allVars

\* As in S2cClient and S2cServer.  A client reads the end of a connection that the
\* server has dropped.
CSFairness ==
    /\ \A p \in Callers : WF_allVars(CallerStep(p))
    /\ \A c \in Connections :
        /\ WF_allVars(Alone(ReaderStep(c)))
        /\ WF_allVars(Alone(WriterStep(c)))
        /\ WF_allVars(HandlerStep(c))
        /\ WF_allVars(handler[c] \in {"refused", "dropped"} /\ Alone(ReadFails(c)))

CSFairSpec == CSSpec /\ CSFairness

----------------------------------------------------------------------------
(* Properties *)

\* No request other than a handshake is ever answered: a connection that has been
\* greeted is dropped before anyone reads a request from it.
NoRequestAnswered == \A p \in Callers : op[p] = "send" => answer[p] # "Ok"

\* A client that is Ready soon has nobody left who reads or writes, be its state
\* NotConnected or still Ready: connect may store Ready when the reader has
\* already seen the connection end.
ReadyComesToNothing == client_state = "Ready" ~> TasksEnded
============================================================================
