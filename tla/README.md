# A TLA+ verification of s2c-rs

s2c-rs is an early implementation of the S2C protocol in Rust: the nodes of a
group share a log in an object store, elect a leader by a create-only write to
that log, and talk to each other over TCP.  This directory models the parts of it
that run, checks them with TLC on small instances and proves the main properties
with TLAPS.

`PROJECT.json` lists the runs, the source lines behind every definition, the
hazards, the findings and the theorems.

## 1. Inventory

| Component (`src/src/...`) | State | Operations | What must be right |
|---|---|---|---|
| `fsm.rs` FSM | state, commit_index, epoch, missed_heartbeats, followers, the leader loop's `acc`, two request channels, a response channel | start, join (discover_leader_state, connect, follow, attempt_leadership), follower_loop, leader_loop | at most one leader, whose claim is in the log; undecodable entries never get there; acknowledgements do not run ahead; the loops end and time out when they should |
| `sync_queue.rs` ReplicateQueue | queue, last_received_index | put, pop (unused), last_received_index | the queue is a prefix, without gaps or repeats |
| `log.rs` S2cLog | none of its own; the bucket | append, get_head, get_at | an acknowledged append is the entry, reads find it, the head is the newest entry, retries end |
| `paths.rs` KeysResolver | prefixes | log_entry, invert | the first name in the listing is the newest entry |
| `backoff.rs` BackoffCounter, `error.rs` is_transient | current_attempt | can_attempt, await_attempt, reset | retry loops end |
| `network/client.rs` S2cClient | atomic state, write lock, channel, token, task tracker, throttle | connect, send, close; tasks drain_in, drain_out | connections do not overlap, calls return, closed means closed |
| `network/inflight.rs` InflightRequests | table of one-shot senders | add, respond, discard, fail_all | no entry outlives its call |
| `network/server.rs` S2cServer | atomic state, listener, trackers and tokens | start, serve, do_serve, accept loop, handshake, close | rebinding and closing do not undo each other, close waits for every handler |
| `network/group_server.rs` GroupServer | running, clients_ins, two tokens, tracker | start, handle_client, start_read_loop, drain_out, inner_drain_out, close | responses reach the node they are for, close ends every loop |
| `network/message_rw.rs` | read buffer | read_next_message, write_bytes | frames stay aligned when one is refused |
| `config.rs`, `context.rs` | constants | | |
| `replicator.rs`, `rsm.rs`, `statemachine.rs`, `object_read_write.rs` | | commented out, empty, or a trait without implementation | |

How they interact.  FSM calls S2cLog and S2cClient and waits for the results.
Messages from peers reach it through `requests_tr`; its responses leave through
`requests_tx`, whose type fits `GroupServer`'s `all_out`.  The repository does not
contain the code that wires the parts together (`FSM::start` has no caller), so
the far ends of the channels are modelled from how fsm.rs uses the near ends, and
are marked external.  S2cClient's two tasks share its state with any number of
callers; nothing but the atomic state, the token and the tracker coordinates
them.  S2cServer spawns a serving task, which spawns one handler per connection;
close reaches them through two tokens.  GroupServer has two loops per client and one
that distributes responses, and again two tokens, of which a task forwards the first
to the second.  A client and a server meet in the handshake.

What is hard: nodes race for one object of the store while puts are lost, late or
repeated; nodes restart with nothing but the log; replication requests come in
any order; the client's tasks, callers and timeouts race on shared atomics; bounded
channels fill up; several loops wait without a limit.  The list, line by line, is
`hazards` in `PROJECT.json`.

## 2. Modules

| Module | Role |
|---|---|
| `ObjectStore` | the store as a map with create-only writes (external) |
| `OneShotElection` | abstract specification of leadership |
| `FSM`, `MCFSM` | the state machine of every node of a group, the shared log, restarts |
| `FSM_proofs` | theorems about FSM |
| `S2cLog`, `MCS2cLog` | append, get_head and get_at of concurrent callers, request by request |
| `S2cLog_proofs` | theorems about S2cLog |
| `S2cClient`, `MCS2cClient` | the client, its tasks and its table of requests |
| `S2cClient_proofs` | theorems about S2cClient |
| `S2cServer`, `MCS2cServer` | start, close, the serving tasks and the handlers of connections |
| `S2cServer_proofs` | theorems about S2cServer |
| `GroupServer`, `MCGroupServer` | the loops of a group's clients, the distribution of responses, close |
| `GroupServer_proofs` | theorems about GroupServer |
| `MessageReader`, `MCMessageReader` | frames, written and read |
| `MessageReader_proofs` | theorems about MessageReader |
| `ClientServer`, `MCClientServer` | S2cClient composed with the server's handlers |
| `ClientServer_proofs` | theorems about ClientServer |

Definitions such as `AlreadyExistsMissed` or `PutOkAnyway`, each placed before the
definition it is a variant of, are plausible mistakes: replacing the definition by
the variant must break the property that `mutants` names.  Nothing else uses them.

### FSM

One action is what a node's task does between two awaits; `pc` says at which await
it is.  `join` is `DiscoverLeader`/`DiscoverNothing`/`DiscoverBroken`, `Connect`,
`SendFollow`, `FollowAnswered`, `FollowFailed`; `attempt_leadership` is
`ClaimWon`/`ClaimLost`/`ClaimRetried`/`ClaimFailed`; the two loops have one action
per arm.  Steps that change nothing (a sleep, a retry of connect, an error that goes
round the same loop) are stuttering steps.

* *Results of the client* are any that the match arms of fsm.rs tell apart.
* *The store* is asked one request at a time.  A put answered with an error may
  be applied later (`delayed`, `Land`), also when its process has restarted.
* *`HeadIsIndex`* says whether get_head returns what get_at expects.  As log.rs
  stands it is FALSE: every discovery of a non-empty log fails and the node spins in
  join (finding `log_head`).  With FALSE nobody ever follows, and half of fsm.rs
  would go unchecked; the runs that need followers therefore set it TRUE, which
  is what fsm.rs is written for.  The theorems hold for both.
* *Batches* are appended at the leader's commit_index, which is taken: FlushDone
  covers Ok and AlreadyExists, as the code ignores the result.
* `missed` is not told apart above its maximum; `apply_index` is never assigned.
* `LeaderTick` needs the channel open, since `timeout` polls the receive first and
  a closed channel is ready at once.
* *Responses* leave through a bounded channel.  Nothing is assumed of who drains it:
  inner_drain_out, which does, ends for good when one client's connection breaks
  or running is FALSE (group_server.rs:74-79, 152, 175, 194), and its Receiver stays.
* *Replication* is checked with a queue of size 0.  The comparison in sync_queue.rs:20 is
  inverted, so that at any other size (the default is 1000) nothing is ever queued and
  the properties of the queue hold for want of entries.
* The response in `requests_tx` is one message with a kind and an index; that its
  envelope carries the follower's own identity instead of the asker's matters to
  GroupServer, not here.

### S2cLog

One action is one request to the store together with what the loop does with its
result.  Indexes, keys (`MaxU64 - i`) and payloads are numbers; a payload is
the number of its call, so that two appends never write the same, and 0 for the
entries 1..n that the bucket holds at the start.  File names of u64::MAX - i have
twenty digits for every index that can occur, so the lexicographic order of the
names is the order of the numbers.  Whether the store lists names in order is not
for the code to say (object_store promises no order, and get_head takes the first
item, log.rs:93-99): `sorted` is chosen at the start, and a store that does not
sort may list any entry first.  `limited` says whether max_attempts is given
(backoff.rs:40-43); without it every round may be followed by another.  Both are
fixed in a behaviour and free between them.  Errors are not counted; which may happen is
`FaultKinds`.  `round` changes with every further round of a retry loop and has no
counterpart in the code: without it a round that changes nothing would be a
stuttering step, and a loop without end could not be told from a store that does not
answer.

### S2cClient

Callers run connect, send and close; connection c has a reader (`drain_in`) and a
writer (`drain_out`).  The runtime is multi-threaded, so the code between two awaits
is split where another thread can see the difference: `fail_all`, the cancelling of
the token and the store of NotConnected are three steps of the reader; the check of
the state and the write are two of the writer.  A task wrapped in
`with_cancellation_token` does not begin if the token is cancelled by then, and is
dropped where it waits.  The task is polled before the token: one that has begun,
and need not wait, goes on although the token is cancelled, and may read or write
once more.  A message on the way out is taken off the channel, may stay in the
BufWriter (`buffer`) and reaches the peer (`wire`) only when the buffer overflows or
the message is larger than the buffer, because nobody flushes.  Whether a handshake
fits into the buffer (it holds the group id) is chosen at the start and then fixed;
requests may be of either size.

The peer answers what has reached it, in any order, with or without an error, says
unrelated things and breaks the connection; a response to a handshake with another
body, at which the client panics, is left out because server.rs echoes the
handshake.

### S2cServer

`start` takes `&mut self`, so that it overlaps with no other method (`Exclusive`),
but it does overlap with serving tasks: `StartBegins` and `StartBound`/`StartFails`
are the two sides of its await.  `close` is cut between the store of Closed and the
cancelling of the token, where the serving task can look.  A serving task goes
through `AcceptTop`, one of `Accept`/`AcceptClosed`/`AcceptFails`, and after an
error through the two exchanges of do_serve (`AcceptLoopEnded`, `Rebind`) and the
bind; `Shutdown` is the other branch of its select.  `shared` says whether the
operating system lets a port be bound that is listened on; it is fixed at the
start.  Whether a bind comes to an end is left open, since without max_attempts it may
be tried for ever.  The token of a handler is polled after the handler, as in S2cClient.  A
handler reads a handshake, echoes it, looks up its group and drops the
future of GroupServer::handle_client.

### GroupServer

`HandleClient` and `Insert` are the check of `running` and what follows the wait for
the lock on the map.  Each client has a reader and a writer under the inner token;
`start` spawns a drainer, which moves responses from `all_out` to the inboxes by way
of its own cache of clients, inside a select on the outer token.  Since both branches
of that select may be ready at once, `DrainerCancelled` may or may not cancel the
inner token.  Responses are numbered in the order in which they are sent.  What the FSM
does with requests is not part of this module; `all_in` is unbounded, so that a reader
never waits for it.  `written` is what drain_out has handed to its BufWriter, which
is not flushed either (group_server.rs:173): it is an upper bound of what the client gets, and
the properties speak of its order and of what is missing in it.  As in S2cClient, tasks
are polled before their tokens.  A reader's loop, and a writer's, checks `running`
after each message; both checks of a round are one step, since nobody can see the
difference.  Who calls handle_client is left open, since server.rs never runs it.
`Respond` names any node in the envelope.  fsm.rs:172 puts the responding node's own
identity there, so that as the repository stands only one name ever occurs; the type
of `all_out` allows for all, and the properties hold for all.

### MessageReader

`Write` puts a frame on the connection, made from a message as it is or the way
drain_out does, with zeros before it; `ReadTooLarge`, `ReadMessage` and `ReadCut` are
the three ways in which read_next_message returns, and come between the writes in any
order.  `Cut` ends the connection anywhere in what has been written and not yet been
read.  A read that waits for more is no step, and neither is one at the end of the
stream, which is an error every time.  `ends` is a history variable: where each frame
ends on the connection, so that a property can tell whether it got through.  The four bytes
of a length are one element of the stream, reduced modulo `U32`; payload bytes are
from a small set with 0.  Which byte strings decode is external: it is only used
that no message begins with the tag 0.  `buf` keeps what earlier messages
left in it.

### ClientServer

S2cClient's steps together with one handler per connection, as in S2cServer.  The
open peer of S2cClient is replaced: the client reads the echo of its handshake once
the handler has read it, and the end of the connection.  Starting and closing the server
are not repeated here; to the client they are connections refused or broken.

## 3. Runs

| Run | Shows | Bounds |
|---|---|---|
| `fsm_election` | LeaderOwnsLog, OneLeader, EntriesDecodable, OrphanOnlyIfDisturbed; refinement of OneShotElection | 3 nodes, 3 store errors, 2 restarts, no messages |
| `fsm_messages` | TypeOK, QueueIsPrefix, AcksNeverAhead; LeaderElected, SilenceNoticed | 2 nodes, 3 messages, indexes 1-2, channels of 1, one of them may close |
| `fsm_closed` | finding: ClosedEnds is violated | 1 node |
| `log` | TypeOK, AckedStored, OwnRefusalNeedsError, HeadNotStale, AckedReadable; AppendReturns, GetAtReturns | 2 callers, 2 calls, 2 indexes, 0-2 earlier entries, 2 attempts or no limit, a listing in order or not, every kind of error at any time |
| `log_head` | finding: HeadReadable is violated | 1 index |
| `client` | TypeOK, OneConnection, InflightOwned, ClosedForGood, SmallHandshakeStuck, DeadForGood, StaleReadyStays; CallsReturn | 2 callers, 3 calls, 2 connections, channel of 1 |
| `client_writer` | finding: ReaderClearsUp is violated | 2 callers, 3 calls |
| `server` | OneServing, ClosedForGood, OrphansExplained, RebindFutile, StartFailsForGood; CloseEnds | 2 closers, 2 serving tasks, 1 connection, ports shared or not |
| `group_safety` | Quiet, ResponsesInOrder, FirstLost, NoReturn | 2 nodes, 2 starts, 3 responses, all_out of 1 |
| `group_liveness` | CloseEnds | 1 node, 2 starts, 2 responses, all_out of 1 |
| `reader` | InStep, ResponsesGarbled | up to 3 frames of up to 3 bytes (6 with the zeros), written and read in any order, size limit 2, u32 of 6 values |
| `client_server` | NoRequestAnswered; ReadyComesToNothing | 2 callers, 3 calls, 2 connections, channel of 2 |

Why these bounds.  Three nodes let two lose a race that a third wins, or a late put
of a restarted node race two others; three errors and two restarts let both
happen in one behaviour.  Three messages with two indexes contain a gap, a repeat and
a full channel.  Two log calls are two competing appends, or an append and a read or
listing, on a bucket that already holds entries.  Two connections and three calls are
connect, send or close, and a connect after any of them.  Two serving tasks let a
start slip between the exchanges of a failing one; two closers let one return early
because of the other.  Two starts of a group server give two drainers with different
caches.  A frame longer than the size limit, one longer than a u32 and one shorter
than what the buffer still holds all fit into three frames.  What the bounds leave
open is what the theorems cover: every safety property of the passing runs, and the
refinement of OneShotElection, is proved.

Deadlock is not checked: STOPPED is an end state, a node that spins in a
loop without effect stutters, callers stop when the bound on calls is used up, a
closed server stays closed, and a connection that has been read to its end gives
nothing more.

Symmetry is used in two runs without liveness properties (`fsm_election`,
`group_safety`); nodes occur in no other way than as members of their sets.

Fairness.  In every module the runtime polls each task that can go on, and timers
fire.
* FSM: a node's own steps on the store and in the loops (the store's client has
  timeouts).  Nothing is assumed of calls to S2cClient, so that a node may wait in
  `follow` for ever, nor of the draining of responses, so that it may wait in the send
  at fsm.rs:168 for ever.  SilenceNoticed names that wait as the one excuse of a
  follower that does not notice the silence.
* S2cLog: the store answers, somehow.  That errors end is not assumed; the liveness
  properties say which repeated error keeps a call from returning.
* S2cClient: of the peer, only that it does not keep its half of a connection open
  in silence for ever once the client's half is gone.  This is what connect relies
  on when it waits for the old reader with the write lock held.
* S2cServer: strong fairness of `Shutdown`, because a serving task that goes round the
  accept loop comes back to the select again and again, and tokio's select looks at its
  branches in random order.  Clients need not come, a bind need not come to an end, and a
  handler that is not cancelled need not end.
* GroupServer: a read may wait for ever, but not in a task whose token is cancelled.
* ClientServer: as the two, and a client reads the end of a connection that the
  server has dropped.

## 4. Findings

* `fsm_closed`: "In channel was closed. Ending FSM." (fsm.rs:184, 208) is followed
  by a break that ends nothing; `start` calls the loop again, and the leader's
  collected requests are dropped.
* `log_head`: get_head returns the inverted name as an index, get_at inverts it
  again: a node can never read the entry of the leader.
* `client_writer`: "Writer dropped, reader clears up" (client.rs:323) is not so when
  the reader comes round its loop, or gets a message, after the write has failed: it
  finds the state NotConnected and returns without fail_all (client.rs:269-271, 275-277).

More facts that the properties state as they are, since no line of the repository
promises otherwise:

* A handshake that fits into the client's BufWriter never gets out
  (SmallHandshakeStuck).
* A batch never gets into the log, as its index is taken (EntriesDecodable).
* A failed start leaves the state Binding, from which no start goes on
  (StartFailsForGood).
* A rebind happens while the old listener is open, and so can only succeed where the
  system lets a port be bound twice (RebindFutile).
* A handler may outlive close when its serving task found the state taken away, or saw
  the Closed before the token; these are the only ways (OrphansExplained).
* The token of a client is never replaced: a broken read or a failed handshake is the end of
  it, although connect may be called again and opens connections (DeadForGood).
* A connect that stores Ready after its connection has broken leaves a client that
  says Ready, refuses to connect and never gets an answer, until it is closed
  (StaleReadyStays).
* put of ReplicateQueue compares the wrong way round (sync_queue.rs:20): a queue of any
  size but 0 takes nothing, and every acknowledgement is for index 0.
* get_head takes the first listed item for the newest; in a store whose listing is not
  sorted it may be any (the condition in HeadNotStale).
* A follower whose responses nobody drains waits for ever and counts no heartbeats
  (the exception in SilenceNoticed).
* Every connection that has been greeted is dropped, since the future of
  handle_client is not awaited; no request is ever answered, and a client may even stay
  Ready without a connection (NoRequestAnswered, ReadyComesToNothing).
* The first response to a client only fills a cache (FirstLost), the others are
  encoded behind zeros and cannot be decoded (ResponsesGarbled).
* A node whose connection to a group server broke is turned away from then on
  (NoReturn), and the break takes the other clients' loops down with it.
* close of a group server waits for ever if the task of start has ended without
  cancelling the inner token (the exception in CloseEnds).
* A Generic error that is not transient keeps append, and a body that gets lost keeps
  get_at, for ever; so does any transient error where max_attempts is None (the
  exceptions in AppendReturns and GetAtReturns).
* drain_out of a group server flushes its BufWriter as little as the client does
  (group_server.rs:173): a short response stays in it.

## 5. Proofs

The theorems hold for every value of the constants that satisfies the module's
assumption (`FSMAssumption`, `S2cLogAssumption` and so on): any set of nodes, callers
or closers, any bounds.

*FSM.*  `TypeCorrect` is by one step per action.  OneLeader is not inductive:
that two nodes cannot both win rests on what they write.  `ElectionInv` adds that a
node that does not lead has commit_index 0 (`ClaimsAtOne`), so that every claim is
for index 1; that the log has no other index (`OneIndex`); and that a put that may
still be applied is a claim of a disturbed node for index 1 or comes after
index 1 is taken (`PutsHarmless`).  With LeaderOwnsLog it gives OneLeader
(`Leadership`), since two leaders would own the same entry.  `Refinement` maps
`owner` to the node of the entry at index 1 and `leading` to the nodes in LEADER:
ClaimWon and Land are Claim steps or stutter, Restart is StepDown or stutters, and
everything else stutters.  `Replication` and `Acknowledgement` prove QueueIsPrefix and
AcksNeverAhead with the invariant that acknowledgements are bounded by last_received
and sorted.

*S2cLog.*  `AckedStoredHolds` uses that a create-only put keeps what is there
(`StoreGrows`).
`OwnRefusal` is proved with `OwnPuts`: the payload of a call is unique, and a
put of it that is stored or delayed while the call goes on has met an
error.  `HeadNotStaleHolds` is proved with `KnownStays`: the entries known at the
time of a call are still there when it returns, and the smallest key is the
largest index; that the smallest is listed first is a premise of that part, not an
assumption of the module.  `AckedReadableHolds` uses both.

*S2cClient.*  Types are in two parts, `Shape` and the Boolean `Flags`.
OneConnection needs the lock and the tracker: `LockInv` says that whoever connects or
waits for the tasks holds the lock and that a connect has opened the tracker, `TaskInv`
that tasks have ended when a connect opens its connection, and whenever the tracker is
closed and nobody waits for it (`SingleConnection`).  InflightOwned needs `OwnInv`:
request numbers are unique, and a call that has no entry yet has no answer
(`NoLeak`).  ClosedForGood needs to know why a task that is spawned after a close does
nothing: `EndInv` says that a closed tracker, unless a connect waits for it to drain,
means a cancelled token, and so does the state Closed; that a close which waits keeps the
client from Ready; and that after it has returned no task has got past its start, so that
no handshake of a later connect is answered (`Closing`).  `NoComeback` proves DeadForGood
from the types alone: no caller answers itself (`CallerQuiet`), and a task that has not
begun when the token is cancelled can only be dropped (`TaskQuiet`).  StaleReadyStays
needs `ReadyInv`, that no connect is under way while the client is Ready; otherwise its
failure would repair the state (`StaleReady`).  For SmallHandshakeStuck,
`FitInv` says that
nothing has reached the peer, that all that is in the channel and the buffers are
handshakes of connects, that as long as a writer may still receive (`Draining`: the token
is not cancelled, or a writer had begun before it was) there is at most one of them,
whose connect has not returned, and that no send gets beyond its check.  A second
handshake would push the first one out of the buffer; it needs a connect after the
first has failed, and that has cancelled the token and waited for the writer
(`Stuck`).

*S2cServer.*  `OwnerInv` ties the atomic state to the tasks: NotBound is
nobody's, and a start goes on only in Binding, with no owner and no close under way;
`Exclusion` follows.  `CloseInv` says that a state left NotBound is that of a task which
is about to take it up again, unless no task was ever spawned, in which case a close
that has stored Closed keeps every start away (`Closing`).  `FailInv` says that after a
failed start nobody owns the state, and so nobody makes it NotBound (`FailedStart`).
`TaskInv` says that an inner token is cancelled only when its task is about to wait
for its handlers (`FutileRebind`).  OrphansExplained needs to know where a Closed comes
from: `OrphanInv` adds that without a close it was stored by a task that failed to bind
anew, that nobody owns the state then, and that a task leaves its accept loop only
after an accept error or because of a close (`OrphanHandlers`).

*GroupServer.*  `QuietInv` says that `running` stays FALSE after close has returned,
until start comes, so that no loop gets past its first check (`QuietAfterClose`);
`Entered` that a node with a loop is in the
map (`NeverAgain`).  `Order` is the core of `InOrder` and `FirstNeverArrives`: what was
written to a client, what is in its inbox and what is still in all_out are stretches of
one ascending sequence, and a cached client has been sent a response that is no longer
queued.

*ClientServer.*  The composition takes the client's steps from S2cClient, so that its
invariants carry over (`ClientSteps`).  NoRequestAnswered uses one of them: with `OwnInv`
the ids of handshakes are those of connects, and `AnswerInv` adds that no handler begins
to serve and that no send has the id of a handshake (`Unanswered`).

*MessageReader.*  `ReaderInv` says where each frame lies on the connection (`Layout`),
that what is left of it is what was written (`Content`), and that the reader stands at
the end of as many frames as it has results, or at the end of the stream, or has
passed a length that did not fit (`Between`).  As `ends` records where the frames end,
no sum over frames has to be computed and none of this needs induction over data.  The
core is `NextFrame`: where the reader stands, it finds the length and then the payload
of the next frame.  `ReaderRead` then treats all three ways of returning alike (`StaysInStep`).
Of the constants no more is used than that they are natural numbers.  `Garbled` follows
with `ZerosAreNoTag`.

Only model-checked: the liveness properties, which need fairness (LeaderElected,
SilenceNoticed, AppendReturns, GetAtReturns, CallsReturn, ReadyComesToNothing, CloseEnds
of both servers).

## 6. Not modelled

* Lengths of timeouts and sleeps, so of backoff.rs calculate_duration: no property
  depends on when, only on whether, a wait ends.
* Protobuf encoding as such, and the texts that is_transient looks for.
* The wrapper of the message reader that makes reads fail in tests.
* replicator.rs, which is commented out; rsm.rs and statemachine.rs, which are empty or
  a trait nobody implements; object_read_write.rs.  Nothing there runs.
* Options without a reader, the snapshot key of KeysResolver, ReplicateQueue::pop,
  InflightRequests::clear and size: without a caller.
* A crash of the process, except in FSM: client and server keep nothing that outlives it.

## 7. Plan

All parts that run are modelled, and every safety property that a passing run checks is
proved.  What is left is a composition of FSM with S2cLog (the claim and the discovery
request by request, HeadIsIndex derived instead of assumed).
