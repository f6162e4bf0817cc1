---------------------------- MODULE GroupServer ----------------------------
(***************************************************************************)
(* The server of one group, src/src/network/group_server.rs: each client   *)
(* has a task that reads its requests into all_in (start_read_loop) and    *)
(* one that writes the responses from its inbox (drain_out); start spawns  *)
(* a task that moves responses from all_out to the inboxes                 *)
(* (inner_drain_out).  They share the flag running, the map clients_ins    *)
(* and two cancellation tokens, of which the first is to cancel the        *)
(* second.                                                                 *)
(*                                                                         *)
(* An action is a stretch of code between two awaits, cut where another    *)
(* thread can see the difference.  A task does not begin once the token it *)
(* is wrapped in is cancelled, and is dropped where it waits; but          *)
(* with_cancellation_token polls the task before the token, so that it     *)
(* goes on where it need not wait.  A response is the number at which it   *)
(* was sent; what the requests say is left out.                            *)
(***************************************************************************)
EXTENDS Integers, Sequences, FiniteSets

CONSTANTS
    Nodes,         \* the identities that clients present
    Capacity,      \* room in the channel behind all_out
    MaxStarts,     \* bound: tasks spawned by start
    MaxResponses   \* bound: responses sent to all_out

ASSUME GroupServerAssumption ==
    Capacity \in Nat /\ MaxStarts \in Nat /\ MaxResponses \in Nat

VARIABLES
    running,      \* GroupServer.running
    cancelled,    \* cancellation_token is cancelled
    inner,        \* inner_cancellation_token is cancelled
    closing,      \* where close is
    quiet,        \* history: close has returned and start not come since
    clients_ins,  \* the keys of GroupServer.clients_ins
    handling,     \* where handle_client is with a connection of each node
    reader,       \* where each client's start_read_loop is
    writer,       \* where each client's drain_out is
    inbox,        \* the channel of each client
    written,      \* the responses handed to each client's BufWriter, which is
                  \* not flushed
    drainer,      \* where each task of start is
    cached,       \* its local_client_ins
    starts,       \* how many there have been
    all_out,      \* the channel all_out
    sent,         \* history: the node each response was for
    dropped       \* the sender of all_out is dropped

tokenVars == <<running, cancelled, inner, closing, quiet>>
clientVars == <<clients_ins, handling, reader, writer, inbox, written>>
drainVars == <<drainer, cached, starts>>
outVars == <<all_out, sent, dropped>>
vars == <<tokenVars, clientVars, drainVars, outVars>>

Drainers == 1..MaxStarts

Ids == 1..MaxResponses

Init ==
    /\ running = FALSE
    /\ cancelled = FALSE
    /\ inner = FALSE
    /\ closing = "idle"
    /\ quiet = FALSE
    /\ clients_ins = {}
    /\ handling = [n \in Nodes |-> FALSE]
    /\ reader = [n \in Nodes |-> "none"]
    /\ writer = [n \in Nodes |-> "none"]
    /\ inbox = [n \in Nodes |-> <<>>]
    /\ written = [n \in Nodes |-> <<>>]
    /\ drainer = [d \in Drainers |-> "none"]
    /\ cached = [d \in Drainers |-> {}]
    /\ starts = 0
    /\ all_out = <<>>
    /\ sent = <<>>
    /\ dropped = FALSE

Over == {"none", "done"}

\* task_tracker.wait() returns.
TasksEnded ==
    /\ \A n \in Nodes : reader[n] \in Over /\ writer[n] \in Over
    /\ \A d \in Drainers : drainer[d] \in Over

----------------------------------------------------------------------------
(* start and close *)

Start ==
    /\ ~running /\ starts < MaxStarts
    /\ running' = TRUE
    /\ quiet' = FALSE
    /\ starts' = starts + 1
    /\ drainer' = [drainer EXCEPT ![starts + 1] = "spawned"]
    /\ UNCHANGED <<cancelled, inner, closing, cached, clientVars, outVars>>

\* A close that finds running FALSE returns at once.
CloseBegins ==
    /\ closing = "idle" /\ running
    /\ running' = FALSE
    /\ closing' = "cancel"
    /\ UNCHANGED <<cancelled, inner, quiet, clientVars, drainVars, outVars>>

\* The token is forgotten.
CloseCancelsNot ==
    /\ closing = "cancel"
    /\ closing' = "wait"
    /\ UNCHANGED <<running, cancelled, inner, quiet, clientVars, drainVars, outVars>>

CloseCancels ==
    /\ closing = "cancel"
    /\ cancelled' = TRUE
    /\ closing' = "wait"
    /\ UNCHANGED <<running, inner, quiet, clientVars, drainVars, outVars>>

\* The tasks are not waited for.
CloseReturnsHasty ==
    /\ closing = "wait"
    /\ closing' = "idle"
    /\ quiet' = ~running
    /\ UNCHANGED <<running, cancelled, inner, clientVars, drainVars, outVars>>

CloseReturns ==
    /\ closing = "wait" /\ TasksEnded
    /\ closing' = "idle"
    /\ quiet' = ~running
    /\ UNCHANGED <<running, cancelled, inner, clientVars, drainVars, outVars>>

----------------------------------------------------------------------------
(* handle_client *)

\* The flag is checked before the lock on the map is waited for.
HandleClient(n) ==
    /\ running /\ ~handling[n]
    /\ handling' = [handling EXCEPT ![n] = TRUE]
    /\ UNCHANGED <<tokenVars, clients_ins, reader, writer, inbox, written, drainVars,
                   outVars>>

Spawn(n) ==
    /\ clients_ins' = clients_ins \cup {n}
    /\ reader' = [reader EXCEPT ![n] = "spawned"]
    /\ writer' = [writer EXCEPT ![n] = "spawned"]
    /\ inbox' = [inbox EXCEPT ![n] = <<>>]

\* The entry of a client whose loops have ended is replaced.
InsertAgain(n) ==
    /\ handling[n]
    /\ handling' = [handling EXCEPT ![n] = FALSE]
    /\ IF n \in clients_ins /\ reader[n] # "done"
         THEN UNCHANGED <<clients_ins, reader, writer, inbox>>
         ELSE Spawn(n)
    /\ UNCHANGED <<tokenVars, written, drainVars, outVars>>

\* A node that is in the map is turned away, and its connection dropped.
Insert(n) ==
    /\ handling[n]
    /\ handling' = [handling EXCEPT ![n] = FALSE]
    /\ IF n \in clients_ins
         THEN UNCHANGED <<clients_ins, reader, writer, inbox>>
         ELSE Spawn(n)
    /\ UNCHANGED <<tokenVars, written, drainVars, outVars>>

----------------------------------------------------------------------------
(* start_read_loop *)

ReaderGoto(n, where) ==
    /\ reader' = [reader EXCEPT ![n] = where]
    /\ UNCHANGED <<running, inner, closing, quiet, clients_ins, handling, writer, inbox,
                   written, drainVars, outVars>>

ReaderBegins(n) ==
    /\ reader[n] = "spawned" /\ ~inner
    /\ ReaderGoto(n, IF running THEN "read" ELSE "done")
    /\ UNCHANGED cancelled

\* The request goes to all_in, unless the server has stopped running; whether it
\* stops before the request is sent on or just after makes no difference.
ReadOk(n) ==
    /\ reader[n] = "read"
    /\ ReaderGoto(n, IF running THEN "read" ELSE "done")
    /\ UNCHANGED cancelled

\* "Error in read loop. Exiting loop": it takes the whole group down.
ReadFails(n) ==
    /\ reader[n] = "read"
    /\ cancelled' = TRUE
    /\ ReaderGoto(n, "done")

\* Where it waits, or before it begins.
DropReader(n) ==
    /\ inner /\ reader[n] \in {"spawned", "read"}
    /\ ReaderGoto(n, "done")
    /\ UNCHANGED cancelled

----------------------------------------------------------------------------
(* drain_out *)

WriterGoto(n, where) ==
    /\ writer' = [writer EXCEPT ![n] = where]
    /\ UNCHANGED <<running, inner, closing, quiet, clients_ins, handling, reader,
                   drainVars, outVars>>

WriterBegins(n) ==
    /\ writer[n] = "spawned" /\ ~inner
    /\ WriterGoto(n, IF running THEN "recv" ELSE "done")
    /\ UNCHANGED <<cancelled, inbox, written>>

\* clients_ins keeps a sender: recv never returns None.  The flag is checked again
\* after the write.
Write(n) ==
    /\ writer[n] = "recv" /\ inbox[n] # <<>>
    /\ inbox' = [inbox EXCEPT ![n] = Tail(@)]
    /\ written' = [written EXCEPT ![n] = Append(@, Head(inbox[n]))]
    /\ WriterGoto(n, IF running THEN "recv" ELSE "done")
    /\ UNCHANGED cancelled

\* "Error while writing response. Exiting loop".
WriteFails(n) ==
    /\ writer[n] = "recv" /\ inbox[n] # <<>>
    /\ inbox' = [inbox EXCEPT ![n] = Tail(@)]
    /\ cancelled' = TRUE
    /\ WriterGoto(n, "done")
    /\ UNCHANGED written

\* A write in progress is cut off too.
DropWriter(n) ==
    /\ inner /\ writer[n] \in {"spawned", "recv"}
    /\ WriterGoto(n, "done")
    /\ UNCHANGED <<cancelled, inbox, written>>

----------------------------------------------------------------------------
(* The task of start: inner_drain_out inside a select *)

DrainerGoto(d, where) ==
    /\ drainer' = [drainer EXCEPT ![d] = where]
    /\ UNCHANGED <<running, cancelled, closing, quiet, clients_ins, handling, reader,
                   writer, written, starts, sent, dropped>>

\* The task holds the lock on all_out until it ends.
Locked(d) == \A e \in Drainers \ {d} : drainer[e] \notin {"top", "recv"}

\* The lock is held by a task of an earlier start.
DrainerWaits(d) ==
    /\ drainer[d] = "spawned" /\ ~cancelled /\ ~Locked(d)
    /\ DrainerGoto(d, "lock")
    /\ UNCHANGED <<inner, cached, inbox, all_out>>

DrainerTop(d) ==
    /\ \/ drainer[d] = "top"
       \/ drainer[d] = "lock" /\ Locked(d)
       \/ drainer[d] = "spawned" /\ ~cancelled /\ Locked(d)
    /\ DrainerGoto(d, IF running THEN "recv" ELSE "done")
    /\ UNCHANGED <<inner, cached, inbox, all_out>>

Deliver(n, id) == inbox' = [inbox EXCEPT ![n] = Append(@, id)]

\* The first response to a client is sent on as well.
ForwardFirst(d, id) ==
    LET n == sent[id]
    IN  IF n \in clients_ins
          THEN Deliver(n, id) /\ cached' = [cached EXCEPT ![d] = @ \cup {n}]
          ELSE UNCHANGED <<inbox, cached>>

\* A cache that is not keyed: the response goes to every cached client.
ForwardToAll(d, id) ==
    /\ inbox' = [n \in Nodes |-> IF n \in cached[d] THEN Append(inbox[n], id) ELSE inbox[n]]
    /\ cached' = [cached EXCEPT ![d] = @ \cup ({sent[id]} \cap clients_ins)]

\* A client that is not cached is looked up, and the response is lost.
Forward(d, id) ==
    LET n == sent[id]
    IN  \/ n \in cached[d] /\ Deliver(n, id) /\ UNCHANGED cached
        \/ /\ n \in clients_ins \ cached[d]
           /\ cached' = [cached EXCEPT ![d] = @ \cup {n}]
           /\ UNCHANGED inbox
        \/ n \notin clients_ins \cup cached[d] /\ UNCHANGED <<inbox, cached>>

Drain(d) ==
    /\ drainer[d] = "recv" /\ all_out # <<>>
    /\ Forward(d, Head(all_out))
    /\ all_out' = Tail(all_out)
    /\ DrainerGoto(d, "top")
    /\ UNCHANGED inner

DrainNone(d) ==
    /\ drainer[d] = "recv" /\ all_out = <<>> /\ dropped
    /\ DrainerGoto(d, "done")
    /\ UNCHANGED <<inner, cached, inbox, all_out>>

\* Both branches of the select are ready when the token is cancelled and
\* inner_drain_out waits.  The first cancels the inner token, the second does not.
DrainerCancelled(d) ==
    /\ cancelled /\ drainer[d] \in {"spawned", "lock", "recv"}
    /\ inner' \in {inner, TRUE}
    /\ DrainerGoto(d, "done")
    /\ UNCHANGED <<cached, inbox, all_out>>

----------------------------------------------------------------------------
(* The FSM's end of all_out *)

HasRoom == Len(all_out) < Capacity

\* The envelope names a node, which as fsm.rs stands is the sender itself.
Respond(n) ==
    /\ HasRoom /\ ~dropped /\ Len(sent) < MaxResponses
    /\ sent' = Append(sent, n)
    /\ all_out' = Append(all_out, Len(sent) + 1)
    /\ UNCHANGED <<tokenVars, clientVars, drainVars, dropped>>

DropSender ==
    /\ ~dropped
    /\ dropped' = TRUE
    /\ UNCHANGED <<tokenVars, clientVars, drainVars, all_out, sent>>

----------------------------------------------------------------------------

Close == CloseCancels \/ CloseReturns

ReaderStep(n) == ReaderBegins(n) \/ DropReader(n)

WriterStep(n) == WriterBegins(n) \/ Write(n) \/ WriteFails(n) \/ DropWriter(n)

DrainerStep(d) ==
    DrainerWaits(d) \/ DrainerTop(d) \/ Drain(d) \/ DrainNone(d) \/ DrainerCancelled(d)

Next ==
    \/ Start \/ CloseBegins \/ Close \/ DropSender
    \/ \E n \in Nodes :
        \/ HandleClient(n) \/ Insert(n) \/ Respond(n)
        \/ ReaderStep(n) \/ ReadOk(n) \/ ReadFails(n) \/ WriterStep(n)
    \/ \E d \in Drainers : DrainerStep(d)

Spec == Init /\ [][Next]_vars

\* The runtime polls every task; a read may wait for ever, but not in a task whose
\* token is cancelled.
Fairness ==
    /\ WF_vars(Close)
    /\ \A n \in Nodes :
        /\ WF_vars(Insert(n)) /\ WF_vars(WriterStep(n))
        /\ WF_vars(ReaderStep(n))
    /\ \A d \in Drainers : WF_vars(DrainerStep(d))

FairSpec == Spec /\ Fairness

----------------------------------------------------------------------------
(* Properties *)

\* Every variable has its type and all_out holds no more than it may.
TypeOK ==
    /\ {running, cancelled, inner, quiet, dropped} \subseteq BOOLEAN
    /\ closing \in {"idle", "cancel", "wait"}
    /\ clients_ins \subseteq Nodes
    /\ handling \in [Nodes -> BOOLEAN]
    /\ reader \in [Nodes -> Over \cup {"spawned", "read"}]
    /\ writer \in [Nodes -> Over \cup {"spawned", "recv"}]
    /\ inbox \in [Nodes -> Seq(Ids)] /\ written \in [Nodes -> Seq(Ids)]
    /\ drainer \in [Drainers -> Over \cup {"spawned", "lock", "top", "recv"}]
    /\ cached \in [Drainers -> SUBSET Nodes]
    /\ starts \in 0..MaxStarts
    /\ all_out \in Seq(Ids) /\ Len(all_out) <= Capacity
    /\ sent \in Seq(Nodes) /\ Len(sent) <= MaxResponses

\* When close has returned, nothing is read, written or moved until start comes
\* again, although a handle_client that saw the server running inserts its
\* client afterwards: the loops of that client find out at their first check.
Quiet ==
    quiet => /\ \A n \in Nodes : reader[n] # "read" /\ writer[n] # "recv"
             /\ \A d \in Drainers : drainer[d] \in Over

Increasing(s) == \A i, j \in DOMAIN s : i < j => s[i] < s[j]

\* What a client gets, now or later, was sent to it, in that order and no
\* response twice, even if start has spawned a second task with a cache of its
\* own.
ResponsesInOrder ==
    \A n \in Nodes : LET got == written[n] \o inbox[n]
                     IN  Increasing(got) /\ \A i \in DOMAIN got : sent[got[i]] = n

\* The first response to a client never gets there: it only fills the cache.
FirstLost ==
    \A n \in Nodes : LET got == written[n] \o inbox[n]
                     IN  \A i \in DOMAIN got : \E id \in 1..(got[i] - 1) : sent[id] = n

\* A client that loses its connection is not served again: its entry stays, and
\* turns away every later connection of the same node.
NoReturn == [][\A n \in Nodes : reader[n] = "done" => reader'[n] = "done"]_vars

\* close returns unless every task of start has ended without cancelling the
\* inner token, by the second branch of its select, because it found running FALSE
\* or because the sender of all_out was gone: then it waits for loops that nobody
\* wakes.
CloseEnds ==
    closing = "wait" ~> closing = "idle"
                        \/ (~inner /\ \A d \in Drainers : drainer[d] \in Over)
============================================================================
