------------------------- MODULE GroupServer_proofs -------------------------
(***************************************************************************)
(* Proofs about the group server, for any number of nodes, starts and      *)
(* responses and any capacity.                                             *)
(***************************************************************************)
EXTENDS GroupServer, TLAPS

----------------------------------------------------------------------------
(* Types *)

\* TypeOK without the Boolean variables.
Shape ==
    /\ closing \in {"idle", "cancel", "wait"}
    /\ clients_ins \subseteq Nodes
    /\ reader \in [Nodes -> Over \cup {"spawned", "read"}]
    /\ writer \in [Nodes -> Over \cup {"spawned", "recv"}]
    /\ inbox \in [Nodes -> Seq(Ids)] /\ written \in [Nodes -> Seq(Ids)]
    /\ drainer \in [Drainers -> Over \cup {"spawned", "lock", "top", "recv"}]
    /\ cached \in [Drainers -> SUBSET Nodes]
    /\ starts \in 0..MaxStarts
    /\ all_out \in Seq(Ids) /\ Len(all_out) <= Capacity
    /\ sent \in Seq(Nodes) /\ Len(sent) <= MaxResponses

Flags ==
    /\ {running, cancelled, inner, quiet, dropped} \subseteq BOOLEAN
    /\ handling \in [Nodes -> BOOLEAN]

\* What is queued on all_out has been sent.
Queued == \A i \in 1..Len(all_out) : all_out[i] \in 1..Len(sent)

LEMMA Update ==
    ASSUME NEW S, NEW T, NEW f \in [S -> T], NEW a \in S, NEW b \in T
    PROVE  [f EXCEPT ![a] = b] \in [S -> T]
  OBVIOUS

LEMMA ShapeInit == Init => Shape /\ Flags /\ Queued
  <1>1. Init => Shape /\ Queued
    BY GroupServerAssumption DEF Init, Shape, Queued, Over, Drainers, Ids
  <1>2. Init => Flags
    BY Zenon DEF Init, Flags
  <1> QED
    BY <1>1, <1>2, Zenon

LEMMA ShapeTokens ==
    ASSUME Shape, Queued, Start \/ CloseBegins \/ Close \/ DropSender
    PROVE  Shape' /\ Queued'
  <1>1. CASE Start
    <2>1. starts + 1 \in Drainers /\ starts' \in 0..MaxStarts
      BY <1>1, GroupServerAssumption DEF Start, Shape, Drainers
    <2> QED
      BY <1>1, <2>1 DEF Start, Shape, Queued, clientVars, outVars
  <1>2. CASE CloseBegins \/ Close \/ DropSender
    BY <1>2 DEF CloseBegins, Close, CloseCancels, CloseReturns, DropSender, Shape, Queued,
       tokenVars, clientVars, drainVars, outVars
  <1> QED
    BY <1>1, <1>2

LEMMA ShapeClients ==
    ASSUME Shape, Queued, NEW n \in Nodes,
           \/ HandleClient(n) \/ Insert(n)
           \/ ReaderStep(n) \/ ReadOk(n) \/ ReadFails(n) \/ WriterStep(n)
    PROVE  Shape' /\ Queued'
  <1> USE DEF Shape, Queued, Over
  <1>1. CASE HandleClient(n)
    BY <1>1 DEF HandleClient, tokenVars, drainVars, outVars
  <1>2. CASE Insert(n) /\ n \in clients_ins
    BY <1>2 DEF Insert, tokenVars, drainVars, outVars
  <1>3. CASE Insert(n) /\ n \notin clients_ins
    <2>1. inbox' = [inbox EXCEPT ![n] = <<>>] /\ <<>> \in Seq(Ids)
      BY <1>3 DEF Insert, Spawn
    <2>2. inbox' \in [Nodes -> Seq(Ids)]
      BY <2>1, Update, Zenon
    <2>3. /\ reader' = [reader EXCEPT ![n] = "spawned"]
          /\ writer' = [writer EXCEPT ![n] = "spawned"]
          /\ clients_ins' = clients_ins \cup {n}
          /\ UNCHANGED <<closing, written, drainer, cached, starts, all_out, sent>>
      BY <1>3 DEF Insert, Spawn, tokenVars, drainVars, outVars
    <2>4. reader' \in [Nodes -> Over \cup {"spawned", "read"}]
      BY <2>3
    <2>5. writer' \in [Nodes -> Over \cup {"spawned", "recv"}]
      BY <2>3
    <2> QED
      BY <2>2, <2>3, <2>4, <2>5
  <1>4. CASE ReaderStep(n) \/ ReadOk(n) \/ ReadFails(n)
    BY <1>4 DEF ReaderStep, ReaderBegins, DropReader, ReadOk, ReadFails, ReaderGoto, drainVars,
       outVars
  <1>5. CASE WriterBegins(n) \/ DropWriter(n)
    BY <1>5 DEF WriterBegins, DropWriter, WriterGoto, drainVars, outVars
  <1>6. CASE Write(n) \/ WriteFails(n)
    <2>1. Head(inbox[n]) \in Ids /\ Tail(inbox[n]) \in Seq(Ids)
      BY <1>6 DEF Write, WriteFails
    <2>2. /\ inbox' = [inbox EXCEPT ![n] = Tail(inbox[n])]
          /\ \/ written' = written
             \/ written' = [written EXCEPT ![n] = Append(written[n], Head(inbox[n]))]
      BY <1>6 DEF Write, WriteFails
    <2>3. Append(written[n], Head(inbox[n])) \in Seq(Ids)
      BY <2>1
    <2>4. inbox' \in [Nodes -> Seq(Ids)]
      BY <2>1, <2>2, Update, Zenon
    <2>5. [written EXCEPT ![n] = Append(written[n], Head(inbox[n]))] \in [Nodes -> Seq(Ids)]
      BY <2>3, Update, Zenon
    <2>6. inbox' \in [Nodes -> Seq(Ids)] /\ written' \in [Nodes -> Seq(Ids)]
      BY <2>2, <2>4, <2>5, Zenon
    <2>7. /\ \E w \in {"recv", "done"} : writer' = [writer EXCEPT ![n] = w]
          /\ UNCHANGED <<closing, clients_ins, reader, drainer, cached, starts, all_out, sent>>
      BY <1>6 DEF Write, WriteFails, WriterGoto, drainVars, outVars
    <2>8. writer' \in [Nodes -> Over \cup {"spawned", "recv"}]
      BY <2>7
    <2> QED
      BY <2>6, <2>7, <2>8
  <1> QED
    BY <1>1, <1>4, <1>5, <1>6, <1>2, <1>3 DEF WriterStep

\* A response that is moved goes to the end of one inbox, or nowhere.
LEMMA ForwardEffect ==
    ASSUME Shape, Queued, NEW d \in Drainers, all_out # <<>>, Forward(d, Head(all_out))
    PROVE  /\ Head(all_out) \in Ids /\ Head(all_out) \in 1..Len(sent)
           /\ sent[Head(all_out)] \in Nodes
           /\ inbox' \in [Nodes -> Seq(Ids)] /\ cached' \in [Drainers -> SUBSET Nodes]
  <1>1. Head(all_out) \in Ids /\ Head(all_out) \in 1..Len(sent)
    BY DEF Shape, Queued
  <1>2. sent[Head(all_out)] \in Nodes
    BY <1>1 DEF Shape
  <1>3. inbox' \in [Nodes -> Seq(Ids)]
    <2>1. CASE UNCHANGED inbox
      BY <2>1 DEF Shape
    <2>2. CASE Deliver(sent[Head(all_out)], Head(all_out))
      <3> DEFINE n == sent[Head(all_out)]
      <3>1. Append(inbox[n], Head(all_out)) \in Seq(Ids)
        BY <1>1, <1>2 DEF Shape
      <3>2. inbox' = [inbox EXCEPT ![n] = Append(inbox[n], Head(all_out))]
        BY <2>2, Zenon DEF Deliver
      <3> QED
        BY <1>2, <3>1, <3>2, Update, Zenon DEF Shape
    <2> QED
      BY <2>1, <2>2 DEF Forward
  <1>4. cached' \in [Drainers -> SUBSET Nodes]
    <2>1. cached[d] \cup {sent[Head(all_out)]} \in SUBSET Nodes
      BY <1>2 DEF Shape
    <2>2. \/ cached' = cached
          \/ cached' = [cached EXCEPT ![d] = cached[d] \cup {sent[Head(all_out)]}]
      BY DEF Forward
    <2> QED
      BY <2>1, <2>2, Update, Zenon DEF Shape
  <1> QED
    BY <1>1, <1>2, <1>3, <1>4

LEMMA ShapeDrainers ==
    ASSUME Shape, Queued, NEW d \in Drainers, DrainerStep(d)
    PROVE  Shape' /\ Queued'
  <1>1. CASE DrainerWaits(d) \/ DrainerTop(d) \/ DrainNone(d) \/ DrainerCancelled(d)
    BY <1>1 DEF DrainerWaits, DrainerTop, DrainNone, DrainerCancelled, DrainerGoto, Shape,
       Queued, Over
  <1>2. CASE Drain(d)
    <2>1. /\ inbox' \in [Nodes -> Seq(Ids)] /\ cached' \in [Drainers -> SUBSET Nodes]
      BY <1>2, ForwardEffect DEF Drain
    <2>2. /\ all_out' \in Seq(Ids) /\ Len(all_out') = Len(all_out) - 1
          /\ \A i \in 1..Len(all_out') : all_out'[i] = all_out[i + 1]
      BY <1>2 DEF Drain, Shape
    <2>3. Len(all_out') <= Capacity /\ Queued'
      BY <1>2, <2>2, GroupServerAssumption DEF Drain, DrainerGoto, Shape, Queued
    <2> QED
      BY <1>2, <2>1, <2>2, <2>3 DEF Drain, DrainerGoto, Shape, Over
  <1> QED
    BY <1>1, <1>2 DEF DrainerStep

LEMMA ShapeRespond ==
    ASSUME Shape, Queued, NEW n \in Nodes, Respond(n)
    PROVE  Shape' /\ Queued'
  <1>1. Len(sent) + 1 \in Ids
    BY GroupServerAssumption DEF Respond, Shape, Ids
  <1>2. /\ sent' \in Seq(Nodes) /\ Len(sent') = Len(sent) + 1
        /\ all_out' \in Seq(Ids) /\ Len(all_out') = Len(all_out) + 1
        /\ all_out' = Append(all_out, Len(sent) + 1)
    BY <1>1 DEF Respond, Shape
  <1>3. Len(sent') <= MaxResponses /\ Len(all_out') <= Capacity
    BY <1>2, GroupServerAssumption DEF Respond, HasRoom, Shape
  <1>4. Queued'
    BY <1>2 DEF Queued, Shape
  <1> QED
    BY <1>2, <1>3, <1>4 DEF Respond, Shape, tokenVars, clientVars, drainVars

LEMMA FlagsStep == ASSUME Flags, [Next]_vars PROVE Flags'
  <1>1. CASE Start \/ CloseBegins \/ Close \/ DropSender
    BY <1>1, Zenon DEF Start, CloseBegins, Close, CloseCancels, CloseReturns, DropSender,
       Flags, tokenVars, clientVars, outVars
  <1>2. ASSUME NEW n \in Nodes, HandleClient(n) \/ Insert(n) \/ Respond(n) PROVE Flags'
    BY <1>2, Zenon DEF HandleClient, Insert, Respond, Flags, tokenVars, clientVars, outVars
  <1>3. ASSUME NEW n \in Nodes,
               ReaderStep(n) \/ ReadOk(n) \/ ReadFails(n) \/ WriterStep(n)
        PROVE  Flags'
    BY <1>3, Zenon DEF ReaderStep, ReaderBegins, DropReader, ReadOk, ReadFails, ReaderGoto,
       WriterStep, WriterBegins, Write, WriteFails, DropWriter, WriterGoto, Flags, outVars
  <1>4. ASSUME NEW d \in Drainers, DrainerStep(d) PROVE Flags'
    BY <1>4, Zenon DEF DrainerStep, DrainerWaits, DrainerTop, Drain, DrainNone,
       DrainerCancelled, DrainerGoto, Flags
  <1>5. CASE UNCHANGED vars
    BY <1>5, Zenon DEF vars, tokenVars, clientVars, outVars, Flags
  <1> QED
    BY <1>1, <1>2, <1>3, <1>4, <1>5, Zenon DEF Next

LEMMA ShapeInvariance == Spec => [](Shape /\ Flags /\ Queued)
  <1>1. Shape /\ Flags /\ Queued /\ [Next]_vars => (Shape /\ Flags /\ Queued)'
    <2> SUFFICES ASSUME Shape, Flags, Queued, [Next]_vars PROVE Shape' /\ Queued'
      BY FlagsStep, Zenon
    <2>1. CASE UNCHANGED vars
      BY <2>1 DEF vars, tokenVars, clientVars, drainVars, outVars, Shape, Queued
    <2> QED
      BY <2>1, ShapeTokens, ShapeClients, ShapeDrainers, ShapeRespond DEF Next
  <1> QED
    BY <1>1, ShapeInit, PTL DEF Spec

\* Every variable keeps its type, and all_out never holds more than its capacity.
THEOREM TypeCorrect == Spec => []TypeOK
  <1>1. Shape /\ Flags => TypeOK
    BY DEF Shape, Flags, TypeOK
  <1> QED
    BY <1>1, ShapeInvariance, PTL

----------------------------------------------------------------------------
(* After close *)

\* A close that has returned leaves running FALSE until start comes, so that no
\* loop gets past its first check.
QuietInv == Quiet /\ (quiet => ~running)

LEMMA QuietStep ==
    ASSUME Shape, QuietInv, [Next]_vars
    PROVE  QuietInv'
  <1> USE DEF Shape, QuietInv, Quiet, Over
  <1>1. CASE Start
    BY <1>1 DEF Start
  <1>2. CASE CloseBegins \/ CloseCancels \/ DropSender
    BY <1>2 DEF CloseBegins, CloseCancels, DropSender, tokenVars, clientVars, drainVars
  <1>3. CASE CloseReturns
    BY <1>3 DEF CloseReturns, TasksEnded, clientVars, drainVars
  <1>4. ASSUME NEW n \in Nodes, HandleClient(n) \/ Insert(n) \/ Respond(n) PROVE QuietInv'
    BY <1>4 DEF HandleClient, Insert, Spawn, Respond, tokenVars, clientVars, drainVars
  <1>5. ASSUME NEW n \in Nodes, ReaderStep(n) \/ ReadOk(n) \/ ReadFails(n) PROVE QuietInv'
    BY <1>5 DEF ReaderStep, ReaderBegins, DropReader, ReadOk, ReadFails, ReaderGoto, drainVars
  <1>6. ASSUME NEW n \in Nodes, WriterStep(n) PROVE QuietInv'
    BY <1>6 DEF WriterStep, WriterBegins, Write, WriteFails, DropWriter, WriterGoto, drainVars
  <1>7. ASSUME NEW d \in Drainers, DrainerStep(d) PROVE QuietInv'
    <2>1. /\ \E w : drainer' = [drainer EXCEPT ![d] = w] /\ drainer[d] \notin Over
          /\ UNCHANGED <<running, quiet, reader, writer>>
      BY <1>7 DEF DrainerStep, DrainerWaits, DrainerTop, Drain, DrainNone, DrainerCancelled,
         DrainerGoto
    <2> QED
      BY <2>1
  <1>8. CASE UNCHANGED vars
    BY <1>8 DEF vars, tokenVars, clientVars, drainVars
  <1> QED
    BY <1>1, <1>2, <1>3, <1>4, <1>5, <1>6, <1>7, <1>8 DEF Next, Close

\* Nothing is read, written or moved between the return of close and the next
\* start, for any number of clients that come in late.
THEOREM QuietAfterClose == Spec => []Quiet
  <1>1. Init => QuietInv
    BY DEF Init, QuietInv, Quiet
  <1> QED
    BY <1>1, QuietStep, ShapeInvariance, PTL DEF Spec, QuietInv

----------------------------------------------------------------------------
(* Clients that have gone *)

\* Loops run only for nodes of the map, which nothing is taken from.
Entered == \A n \in Nodes : reader[n] # "none" => n \in clients_ins

LEMMA EnteredStep ==
    ASSUME Shape, Entered, [Next]_vars
    PROVE  /\ Entered'
           /\ \A n \in Nodes : reader[n] = "done" => reader'[n] = "done"
  <1>1. ASSUME NEW n \in Nodes, Insert(n)
        PROVE  \/ UNCHANGED <<reader, clients_ins>>
               \/ /\ n \notin clients_ins /\ clients_ins' = clients_ins \cup {n}
                  /\ reader' = [reader EXCEPT ![n] = "spawned"]
    BY <1>1 DEF Insert, Spawn
  <1>2. ASSUME NEW n \in Nodes, ReaderStep(n) \/ ReadOk(n) \/ ReadFails(n)
        PROVE  /\ UNCHANGED clients_ins /\ reader[n] \notin Over
               /\ \E w : reader' = [reader EXCEPT ![n] = w]
    BY <1>2 DEF ReaderStep, ReaderBegins, DropReader, ReadOk, ReadFails, ReaderGoto, Over
  <1>3. \/ UNCHANGED <<reader, clients_ins>>
        \/ \E n \in Nodes : Insert(n) \/ ReaderStep(n) \/ ReadOk(n) \/ ReadFails(n)
    BY DEF Next, Start, CloseBegins, Close, CloseCancels, CloseReturns, DropSender,
       HandleClient, Respond, WriterStep, WriterBegins, Write, WriteFails, DropWriter,
       WriterGoto, DrainerStep, DrainerWaits, DrainerTop, Drain, DrainNone, DrainerCancelled,
       DrainerGoto, vars, clientVars
  <1> QED
    BY <1>1, <1>2, <1>3 DEF Shape, Entered, Over

\* No node is ever served again once its read loop has ended.
THEOREM NeverAgain == Spec => NoReturn
  <1>1. Init => Entered
    BY DEF Init, Entered
  <1>2. Shape /\ Entered /\ [Next]_vars
          => Entered' /\ [\A n \in Nodes : reader[n] = "done" => reader'[n] = "done"]_vars
    BY EnteredStep
  <1> QED
    BY <1>1, <1>2, ShapeInvariance, PTL DEF Spec, NoReturn

----------------------------------------------------------------------------
(* Ascending sequences of numbers *)

Ascending(s) == \A i, j \in 1..Len(s) : i < j => s[i] < s[j]

Above(s, x) == \A k \in 1..Len(s) : x < s[k]

LEMMA Elements ==
    ASSUME NEW s \in Seq(Nat)
    PROVE  Len(s) \in Nat /\ \A k \in 1..Len(s) : s[k] \in Nat
  OBVIOUS

LEMMA TailFacts ==
    ASSUME NEW s \in Seq(Nat), s # <<>>
    PROVE  /\ Head(s) = s[1] /\ 1 \in 1..Len(s) /\ Head(s) \in Nat
           /\ Tail(s) \in Seq(Nat) /\ Len(Tail(s)) = Len(s) - 1
           /\ \A k \in 1..Len(Tail(s)) : k + 1 \in 1..Len(s) /\ Tail(s)[k] = s[k + 1]
  OBVIOUS

LEMMA AppendFacts ==
    ASSUME NEW s \in Seq(Nat), NEW x \in Nat
    PROVE  /\ Append(s, x) \in Seq(Nat) /\ Len(Append(s, x)) = Len(s) + 1
           /\ \A k \in 1..Len(Append(s, x)) :
                \/ k \in 1..Len(s) /\ Append(s, x)[k] = s[k]
                \/ k = Len(s) + 1 /\ Append(s, x)[k] = x
  OBVIOUS

LEMMA AscendingTail ==
    ASSUME NEW s \in Seq(Nat), s # <<>>, Ascending(s)
    PROVE  Ascending(Tail(s)) /\ Above(Tail(s), Head(s))
  <1>1. Len(s) \in Nat /\ \A k \in 1..Len(s) : s[k] \in Nat
    OBVIOUS
  <1>2. ASSUME NEW i \in 1..Len(Tail(s)), NEW j \in 1..Len(Tail(s)), i < j
        PROVE  Tail(s)[i] < Tail(s)[j]
    BY <1>1, <1>2, TailFacts DEF Ascending
  <1>3. ASSUME NEW k \in 1..Len(Tail(s)) PROVE Head(s) < Tail(s)[k]
    BY <1>1, TailFacts DEF Ascending
  <1> QED
    BY <1>2, <1>3 DEF Ascending, Above

LEMMA AscendingAppend ==
    ASSUME NEW s \in Seq(Nat), NEW x \in Nat, Ascending(s),
           \A k \in 1..Len(s) : s[k] < x
    PROVE  Ascending(Append(s, x))
  <1>1. Len(s) \in Nat /\ \A k \in 1..Len(s) : s[k] \in Nat
    OBVIOUS
  <1>2. ASSUME NEW i \in 1..Len(Append(s, x)), NEW j \in 1..Len(Append(s, x)), i < j
        PROVE  Append(s, x)[i] < Append(s, x)[j]
    BY <1>1, <1>2, AppendFacts DEF Ascending
  <1> QED
    BY <1>2 DEF Ascending

LEMMA AboveTail ==
    ASSUME NEW s \in Seq(Nat), NEW x \in Nat, s # <<>>, Above(s, x)
    PROVE  Above(Tail(s), x)
  BY TailFacts DEF Above

LEMMA AboveAppend ==
    ASSUME NEW s \in Seq(Nat), NEW x \in Nat, NEW y \in Nat, Above(s, x), x < y
    PROVE  Above(Append(s, y), x)
  BY AppendFacts DEF Above

----------------------------------------------------------------------------
(* The order of the responses *)

\* Response x was sent to n, not as the first, and before all that is queued.
Due(n, x) ==
    /\ x \in 1..Len(sent) /\ sent[x] = n
    /\ \E id \in 1..(x - 1) : sent[id] = n
    /\ Above(all_out, x)

\* A client in a cache has been sent a response that is not queued any more.
Known(n) == \E id \in 1..Len(sent) : sent[id] = n /\ Above(all_out, id)

Box(n) ==
    /\ Ascending(inbox[n]) /\ Ascending(written[n])
    /\ \A i \in 1..Len(written[n]) : Above(inbox[n], written[n][i])
    /\ \A j \in 1..Len(inbox[n]) : Due(n, inbox[n][j])
    /\ \A i \in 1..Len(written[n]) : Due(n, written[n][i])

\* all_out, the inboxes and what has been written are stretches of one ascending
\* sequence of numbers.
Order ==
    /\ Ascending(all_out)
    /\ \A n \in Nodes : Box(n)
    /\ \A d \in Drainers : \A n \in cached[d] : Known(n)

LEMMA Numbers ==
    ASSUME Shape
    PROVE  /\ all_out \in Seq(Nat) /\ Len(sent) \in Nat /\ Ids \subseteq Nat
           /\ \A n \in Nodes : inbox[n] \in Seq(Nat) /\ written[n] \in Seq(Nat)
  <1>1. Ids \subseteq Nat
    BY DEF Ids
  <1>2. ASSUME NEW s \in Seq(Ids) PROVE s \in Seq(Nat)
    <2>1. Len(s) \in Nat /\ s \in [1..Len(s) -> Ids]
      OBVIOUS
    <2>2. s \in [1..Len(s) -> Nat]
      BY <1>1, <2>1
    <2> QED
      BY <2>1, <2>2
  <1> QED
    BY <1>1, <1>2 DEF Shape

\* What is due stays due when a response is moved,
LEMMA DueMoved ==
    ASSUME Shape, all_out # <<>>, all_out' = Tail(all_out), UNCHANGED sent
    PROVE  /\ \A n \in Nodes : Known(n) => Known(n)'
           /\ \A n \in Nodes, x \in Nat : Due(n, x) => Due(n, x)'
  <1>1. \A x \in Nat : Above(all_out, x) => Above(all_out', x)
    BY Numbers, AboveTail
  <1>2. Len(sent) \in Nat /\ 1..Len(sent) \subseteq Nat
    BY Numbers
  <1>3. ASSUME NEW n \in Nodes, Known(n) PROVE Known(n)'
    <2>1. PICK id \in 1..Len(sent) : sent[id] = n /\ Above(all_out, id)
      BY <1>3 DEF Known
    <2> QED
      BY <1>1, <1>2, <2>1 DEF Known
  <1>4. ASSUME NEW n \in Nodes, NEW x \in Nat, Due(n, x) PROVE Due(n, x)'
    BY <1>1, <1>4 DEF Due
  <1> QED
    BY <1>3, <1>4

\* and when one is sent.
LEMMA DueSent ==
    ASSUME Shape, NEW m \in Nodes, sent' = Append(sent, m),
           all_out' = Append(all_out, Len(sent) + 1)
    PROVE  /\ \A n \in Nodes : Known(n) => Known(n)'
           /\ \A n \in Nodes, x \in Nat : Due(n, x) => Due(n, x)'
  <1>1. Len(sent') = Len(sent) + 1 /\ \A x \in 1..Len(sent) : sent'[x] = sent[x]
    BY DEF Shape
  <1>2. \A x \in 1..Len(sent) : Above(all_out, x) => Above(all_out', x)
    BY Numbers, AboveAppend
  <1>3. \A x \in 1..Len(sent) : x \in 1..Len(sent') /\ \A id \in 1..(x - 1) : sent'[id] = sent[id]
    BY <1>1, Numbers
  <1> QED
    BY <1>1, <1>2, <1>3 DEF Due, Known

\* The boxes that a step leaves alone, apart from a new client's inbox.
LEMMA BoxKept ==
    ASSUME Shape, NEW n \in Nodes, Box(n),
           \A x \in Nat : Due(n, x) => Due(n, x)',
           inbox'[n] = inbox[n] \/ inbox'[n] = <<>>, written'[n] = written[n]
    PROVE  Box(n)'
  <1>1. /\ \A k \in 1..Len(inbox[n]) : inbox[n][k] \in Nat
        /\ \A k \in 1..Len(written[n]) : written[n][k] \in Nat
    <2>1. inbox[n] \in Seq(Nat) /\ written[n] \in Seq(Nat)
      BY Numbers
    <2> QED
      BY <2>1, Elements
  <1>2. CASE inbox'[n] = inbox[n]
    BY <1>1, <1>2 DEF Box, Ascending, Above
  <1>3. CASE inbox'[n] = <<>>
    BY <1>1, <1>3 DEF Box, Ascending, Above
  <1> QED
    BY <1>2, <1>3

\* The oldest response is taken from the inbox, and written or lost.
LEMMA BoxTaken ==
    ASSUME Shape, NEW n \in Nodes, Box(n), inbox[n] # <<>>, UNCHANGED <<sent, all_out>>,
           inbox'[n] = Tail(inbox[n]),
           written'[n] = written[n] \/ written'[n] = Append(written[n], Head(inbox[n]))
    PROVE  Box(n)'
  <1>1. PICK in \in Seq(Nat), out \in Seq(Nat) : in = inbox[n] /\ out = written[n]
    BY Numbers
  <1>2. \A x \in Nat : Due(n, x) => Due(n, x)'
    BY DEF Due
  <1>3. /\ Ascending(in) /\ Ascending(out)
        /\ \A i \in 1..Len(out) : Above(in, out[i])
        /\ \A j \in 1..Len(in) : Due(n, in[j])
        /\ \A i \in 1..Len(out) : Due(n, out[i])
    BY <1>1 DEF Box
  <1>4. PICK y \in Nat : y = Head(in) /\ 1 \in 1..Len(in) /\ y = in[1]
    BY <1>1, TailFacts
  <1>5. PICK rest \in Seq(Nat) : rest = Tail(in) /\ Ascending(rest) /\ Above(rest, y)
    BY <1>1, <1>3, <1>4, TailFacts, AscendingTail
  <1>6. \A j \in 1..Len(rest) : j + 1 \in 1..Len(in) /\ rest[j] = in[j + 1]
    <2>1. in # <<>>
      BY <1>1
    <2> QED
      BY <1>5, <2>1, TailFacts, Zenon
  <1>7. Due(n, y)
    BY <1>3, <1>4
  <1>8. \A i \in 1..Len(out) : out[i] \in Nat /\ Above(rest, out[i]) /\ out[i] < y
    <2>1. \A i \in 1..Len(out) : out[i] \in Nat
      BY Elements, Zenon
    <2>2. \A i \in 1..Len(out) : Above(rest, out[i])
      BY <1>1, <1>3, <1>5, <2>1, AboveTail
    <2> QED
      BY <1>3, <1>4, <2>1, <2>2 DEF Above
  <1>9. \A j \in 1..Len(rest) : Due(n, rest[j]) /\ rest[j] \in Nat
    <2>1. \A k \in 1..Len(in) : in[k] \in Nat
      BY Elements, Zenon
    <2>2. \A k \in 1..Len(in) : Due(n, in[k])
      BY <1>3, Zenon
    <2> QED
      BY <1>6, <2>1, <2>2, Zenon
  <1>10. CASE written'[n] = out
    BY <1>1, <1>2, <1>3, <1>8, <1>9, <1>10, <1>5 DEF Box
  <1>11. CASE written'[n] = Append(out, y)
    <2>1. Ascending(Append(out, y))
      BY <1>3, <1>8, AscendingAppend
    <2>2. ASSUME NEW i \in 1..Len(Append(out, y))
          PROVE  /\ Append(out, y)[i] \in Nat /\ Above(rest, Append(out, y)[i])
                 /\ Due(n, Append(out, y)[i])
      BY <1>3, <1>7, <1>8, <1>5, AppendFacts
    <2> QED
      BY <1>1, <1>2, <1>9, <1>11, <1>5, <2>1, <2>2 DEF Box
  <1> QED
    BY <1>1, <1>10, <1>11, <1>4

\* The head of all_out is added to the inbox of a client in the cache.
LEMMA BoxFilled ==
    ASSUME Shape, Queued, Order, NEW n \in Nodes, Known(n), all_out # <<>>,
           sent[Head(all_out)] = n, UNCHANGED sent, all_out' = Tail(all_out),
           inbox'[n] = Append(inbox[n], Head(all_out)), written'[n] = written[n]
    PROVE  Box(n)'
  <1>1. PICK in \in Seq(Nat), out \in Seq(Nat) : in = inbox[n] /\ out = written[n]
    BY Numbers
  <1>2. PICK y \in Nat : /\ y = Head(all_out) /\ y = all_out[1] /\ 1 \in 1..Len(all_out)
                         /\ y \in 1..Len(sent)
    BY Numbers, TailFacts DEF Queued
  <1>3. \A x \in Nat : Due(n, x) => Due(n, x)' /\ x < y
    BY <1>2, DueMoved DEF Due, Above
  <1>4. /\ Ascending(in) /\ Ascending(out)
        /\ \A i \in 1..Len(out) : Above(in, out[i])
        /\ \A j \in 1..Len(in) : Due(n, in[j])
        /\ \A i \in 1..Len(out) : Due(n, out[i])
    BY <1>1 DEF Order, Box
  <1>5. /\ \A j \in 1..Len(in) : in[j] \in Nat
        /\ \A i \in 1..Len(out) : out[i] \in Nat
    BY Elements
  <1>6. Due(n, y)'
    <2>1. Above(all_out', y)
      BY <1>2, Numbers, AscendingTail DEF Order
    <2>2. \E id \in 1..(y - 1) : sent[id] = n
      <3>1. PICK id \in 1..Len(sent) : sent[id] = n /\ Above(all_out, id)
        BY DEF Known
      <3>2. id < y
        BY <1>2, <3>1 DEF Above
      <3> QED
        BY <1>2, <3>1, <3>2
    <2> QED
      BY <1>2, <2>1, <2>2 DEF Due, Above
  <1>7. Ascending(Append(in, y))
    <2>1. \A j \in 1..Len(in) : in[j] < y
      BY <1>3, <1>4, <1>5, Zenon
    <2> QED
      BY <1>4, <2>1, AscendingAppend
  <1>8. ASSUME NEW i \in 1..Len(out) PROVE Above(Append(in, y), out[i]) /\ Due(n, out[i])'
    BY <1>3, <1>4, <1>5, AboveAppend
  <1>9. ASSUME NEW j \in 1..Len(Append(in, y)) PROVE Due(n, Append(in, y)[j])'
    <2>1. \/ j \in 1..Len(in) /\ Append(in, y)[j] = in[j]
          \/ Append(in, y)[j] = y
      BY AppendFacts
    <2>2. PICK x : x = Append(in, y)[j]
      OBVIOUS
    <2>3. x = y \/ (x \in Nat /\ Due(n, x))
      BY <1>4, <1>5, <2>1, <2>2, Zenon
    <2>4. Due(n, x)'
      BY <1>3, <1>6, <2>3, Zenon
    <2> QED
      BY <2>2, <2>4
  <1> QED
    BY <1>1, <1>4, <1>7, <1>8, <1>9, <1>2 DEF Box

LEMMA OrderStutter ==
    ASSUME Shape, Order, UNCHANGED <<sent, all_out, cached, written>>,
           \A n \in Nodes : inbox'[n] = inbox[n] \/ inbox'[n] = <<>>
    PROVE  Order'
  <1>1. \A n \in Nodes, x \in Nat : Due(n, x) => Due(n, x)'
    BY DEF Due
  <1>2. \A n \in Nodes : Box(n)'
    BY <1>1, BoxKept DEF Order
  <1>3. Ascending(all_out)' /\ \A d \in Drainers : \A n \in cached'[d] : Known(n)'
    BY DEF Order, Ascending, Known
  <1> QED
    BY <1>2, <1>3 DEF Order

LEMMA OrderWrite ==
    ASSUME Shape, Order, NEW n \in Nodes, Write(n) \/ WriteFails(n)
    PROVE  Order'
  <1>1. /\ UNCHANGED <<sent, all_out, cached>> /\ inbox[n] # <<>>
        /\ inbox'[n] = Tail(inbox[n])
        /\ written'[n] = written[n] \/ written'[n] = Append(written[n], Head(inbox[n]))
        /\ \A m \in Nodes \ {n} : inbox'[m] = inbox[m] /\ written'[m] = written[m]
    BY DEF Write, WriteFails, WriterGoto, drainVars, outVars, Shape
  <1>2. Box(n)'
    BY <1>1, BoxTaken DEF Order
  <1>3. \A m \in Nodes, x \in Nat : Due(m, x) => Due(m, x)'
    BY <1>1 DEF Due
  <1>4. \A m \in Nodes \ {n} : Box(m)'
    BY <1>1, <1>3, BoxKept DEF Order
  <1>5. Ascending(all_out)' /\ \A d \in Drainers : \A m \in cached'[d] : Known(m)'
    BY <1>1 DEF Order, Ascending, Known
  <1> QED
    BY <1>2, <1>4, <1>5 DEF Order

LEMMA OrderDrain ==
    ASSUME Shape, Queued, Order, NEW d \in Drainers, Drain(d)
    PROVE  Order'
  <1>1. PICK y \in Nat, n \in Nodes :
            /\ y = Head(all_out) /\ sent[y] = n /\ y \in 1..Len(sent)
    BY ForwardEffect, Numbers DEF Drain
  <1>2. all_out # <<>> /\ all_out' = Tail(all_out) /\ UNCHANGED <<sent, written>>
    BY DEF Drain, DrainerGoto
  <1>3. \A m \in Nodes, x \in Nat : Due(m, x) => Due(m, x)'
    BY <1>2, DueMoved
  <1>4. \A m \in Nodes : Known(m) => Known(m)'
    BY <1>2, DueMoved
  <1>5. Ascending(all_out)' /\ Above(all_out, y)'
    <2>1. Ascending(Tail(all_out)) /\ Above(Tail(all_out), y)
      BY <1>1, <1>2, Numbers, AscendingTail DEF Order
    <2> QED
      BY <1>2, <2>1 DEF Ascending, Above
  <1>6. Known(n)'
    BY <1>1, <1>2, <1>5 DEF Known
  <1>7. \A m \in Nodes : Box(m)'
    <2>1. \A m \in Nodes : written'[m] = written[m]
      BY <1>2
    <2>2. CASE UNCHANGED inbox
      BY <1>3, <2>1, <2>2, BoxKept DEF Order
    <2>3. CASE n \in cached[d] /\ Deliver(n, y)
      <3>1. inbox'[n] = Append(inbox[n], y) /\ \A m \in Nodes \ {n} : inbox'[m] = inbox[m]
        BY <2>3 DEF Deliver, Shape
      <3>2. Known(n)
        BY <2>3 DEF Order
      <3>3. Box(n)'
        BY <1>1, <1>2, <2>1, <3>1, <3>2, BoxFilled
      <3>4. \A m \in Nodes \ {n} : Box(m)'
        BY <1>3, <2>1, <3>1, BoxKept DEF Order
      <3> QED
        BY <3>3, <3>4
    <2> QED
      BY <1>1, <2>2, <2>3 DEF Drain, Forward
  <1>8. ASSUME NEW e \in Drainers, NEW m \in cached'[e] PROVE Known(m)'
    <2>1. m \in cached[e] \/ m = n
      BY <1>1, ZenonT(30) DEF Drain, Forward, Shape
    <2>2. m \in cached[e] => m \in Nodes /\ Known(m)
      BY DEF Order, Shape
    <2> QED
      BY <1>4, <1>6, <2>1, <2>2
  <1> QED
    BY <1>5, <1>7, <1>8 DEF Order

LEMMA OrderRespond ==
    ASSUME Shape, Queued, Order, NEW n \in Nodes, Respond(n)
    PROVE  Order'
  <1>1. /\ sent' = Append(sent, n) /\ all_out' = Append(all_out, Len(sent) + 1)
        /\ UNCHANGED <<inbox, written, cached>>
    BY DEF Respond, clientVars, drainVars
  <1>2. \A m \in Nodes, x \in Nat : Due(m, x) => Due(m, x)'
    BY <1>1, DueSent
  <1>3. \A m \in Nodes : Known(m) => Known(m)'
    BY <1>1, DueSent
  <1>4. \A m \in Nodes : Box(m)'
    BY <1>1, <1>2, BoxKept DEF Order
  <1>5. Ascending(Append(all_out, Len(sent) + 1))
    <2>1. Len(sent) + 1 \in Nat /\ \A k \in 1..Len(all_out) : all_out[k] < Len(sent) + 1
      BY Numbers DEF Queued
    <2> QED
      BY <2>1, Numbers, AscendingAppend DEF Order
  <1>6. Ascending(all_out)'
    BY <1>1, <1>5 DEF Ascending
  <1>7. \A d \in Drainers : \A m \in cached'[d] : Known(m)'
    BY <1>1, <1>3 DEF Order, Shape
  <1> QED
    BY <1>4, <1>6, <1>7 DEF Order

LEMMA OrderInvariance == Spec => []Order
  <1>1. Init => Order
    BY DEF Init, Order, Box, Ascending, Above
  <1>2. Shape /\ Queued /\ Order /\ [Next]_vars => Order'
    <2> SUFFICES ASSUME Shape, Queued, Order, [Next]_vars PROVE Order'
      OBVIOUS
    <2>1. ASSUME NEW n \in Nodes, Insert(n) PROVE Order'
      <3>1. UNCHANGED <<sent, all_out, cached, written>>
        BY <2>1 DEF Insert, drainVars, outVars
      <3>2. \A m \in Nodes : inbox'[m] = inbox[m] \/ inbox'[m] = <<>>
        BY <2>1 DEF Insert, Spawn, Shape
      <3> QED
        BY <3>1, <3>2, OrderStutter
    <2>2. CASE UNCHANGED <<sent, all_out, cached, inbox, written>>
      BY <2>2, OrderStutter
    <2>3. \/ UNCHANGED <<sent, all_out, cached, inbox, written>>
          \/ \E n \in Nodes : Insert(n) \/ Respond(n) \/ Write(n) \/ WriteFails(n)
          \/ \E d \in Drainers : Drain(d)
      BY DEF Next, Start, CloseBegins, Close, CloseCancels, CloseReturns, DropSender,
         HandleClient, ReaderStep, ReaderBegins, DropReader, ReadOk, ReadFails, ReaderGoto,
         WriterStep, WriterBegins, DropWriter, WriterGoto, DrainerStep, DrainerWaits,
         DrainerTop, DrainNone, DrainerCancelled, DrainerGoto, vars, clientVars, drainVars, outVars
    <2> QED
      BY <2>1, <2>2, <2>3, OrderWrite, OrderDrain, OrderRespond
  <1> QED
    BY <1>1, <1>2, ShapeInvariance, PTL DEF Spec

\* What a client has got and what it will get are one sequence.
LEMMA GotFacts ==
    ASSUME Shape, Order, NEW n \in Nodes
    PROVE  LET got == written[n] \o inbox[n]
           IN  Increasing(got) /\ \A i \in DOMAIN got : Due(n, got[i])
  <1>1. PICK in \in Seq(Nat), out \in Seq(Nat) : in = inbox[n] /\ out = written[n]
    BY Numbers
  <1>2. /\ Ascending(in) /\ Ascending(out)
        /\ \A i \in 1..Len(out) : Above(in, out[i])
        /\ \A j \in 1..Len(in) : Due(n, in[j])
        /\ \A i \in 1..Len(out) : Due(n, out[i])
    BY <1>1 DEF Order, Box
  <1>3. /\ DOMAIN (out \o in) = 1..(Len(out) + Len(in))
        /\ \A i \in DOMAIN (out \o in) :
             \/ i \in 1..Len(out) /\ (out \o in)[i] = out[i]
             \/ /\ i > Len(out) /\ i - Len(out) \in 1..Len(in)
                /\ (out \o in)[i] = in[i - Len(out)]
    OBVIOUS
  <1>4. /\ Len(in) \in Nat /\ Len(out) \in Nat
        /\ \A j \in 1..Len(in) : in[j] \in Nat
        /\ \A i \in 1..Len(out) : out[i] \in Nat
    BY Elements
  <1>5. ASSUME NEW i \in DOMAIN (out \o in), NEW j \in DOMAIN (out \o in), i < j
        PROVE  (out \o in)[i] < (out \o in)[j]
    BY <1>2, <1>3, <1>4, <1>5, SMTT(20) DEF Ascending, Above
  <1>6. ASSUME NEW i \in DOMAIN (out \o in) PROVE Due(n, (out \o in)[i])
    BY <1>2, <1>3
  <1> QED
    BY <1>1, <1>5, <1>6 DEF Increasing

\* Every client gets only what was sent to it, in the order in which it was sent
\* and nothing twice, whatever the number of clients, of starts and of responses.
THEOREM InOrder == Spec => []ResponsesInOrder
  <1>1. Shape /\ Order => ResponsesInOrder
    BY GotFacts DEF ResponsesInOrder, Due
  <1> QED
    BY <1>1, ShapeInvariance, OrderInvariance, PTL

\* No client ever gets the first response that was sent to it.
THEOREM FirstNeverArrives == Spec => []FirstLost
  <1>1. Shape /\ Order => FirstLost
    BY GotFacts DEF FirstLost, Due
  <1> QED
    BY <1>1, ShapeInvariance, OrderInvariance, PTL
============================================================================
