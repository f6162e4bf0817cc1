-------------------------------- MODULE FSM --------------------------------
(***************************************************************************)
(* The group state machine of src/src/fsm.rs: every node of one S2C group  *)
(* runs FSM::start, joins through the shared log (a create-only object per *)
(* index), follows the leader it finds or tries to become leader itself,   *)
(* and then runs follower_loop or leader_loop.                             *)
(*                                                                         *)
(* One action is one uninterrupted stretch of a node's task between two    *)
(* awaits.  Results of S2cClient::connect and S2cClient::send, and of      *)
(* S2cLog::get_head and S2cLog::get_at, are any value the match arms of    *)
(* fsm.rs distinguish; the put of S2cLog::append is modelled one request   *)
(* to the store at a time.  Steps that change nothing (a backoff sleep, a  *)
(* retried connect, an error arm that goes round the same loop) are        *)
(* stuttering steps.  Payloads are abstracted: a request is its kind.      *)
(***************************************************************************)
EXTENDS Integers, Sequences, FiniteSets, ObjectStore

CONSTANTS
    Nodes,                \* the node identities of the group
    NoNode,               \* no identity: the owner of an empty log
    HeadIsIndex,          \* get_head returns the index that get_at expects
    MaxMissedHeartbeats,  \* S2cOptions::max_missed_heartbeats
    BatchMinCount,        \* S2cOptions::batch_min_count
    MaxBatchesPending,    \* S2cOptions::max_batches_pending_for_apply
    RequestsCapacity,     \* room in the channel behind requests_tr
    ResponsesCapacity,    \* room in the channel behind requests_tx
    MaxIndex,             \* bound: largest commit_index a peer replicates
    MaxInputs,            \* bound: requests that are sent and not lost
    MaxClosed,            \* bound: nodes whose request channel is closed
    MaxFaults,            \* bound: store errors
    MaxRestarts           \* bound: process restarts

ASSUME FSMAssumption ==
    /\ NoNode \notin Nodes
    /\ HeadIsIndex \in BOOLEAN
    /\ MaxMissedHeartbeats \in Nat
    /\ BatchMinCount \in Nat
    /\ MaxBatchesPending \in Nat
    /\ RequestsCapacity \in Nat
    /\ ResponsesCapacity \in Nat
    /\ MaxIndex \in Nat
    /\ MaxInputs \in Nat
    /\ MaxClosed \in Nat
    /\ MaxFaults \in Nat
    /\ MaxRestarts \in Nat

VARIABLES
    state,          \* FSM.state of every node
    pc,             \* where the node's task is waiting
    leader,         \* the leader_identity that join has discovered
    commit_index,   \* FSM.commit_index
    epoch,          \* FSM.epoch
    missed,         \* FSM.missed_heartbeats
    followers,      \* FSM.followers: how often each identity was pushed
    acc,            \* leader_loop's acc: requests waiting for a flush
    queue,          \* ReplicateQueue.queue: the commit_index of each request
    last_received,  \* ReplicateQueue.last_received_index
    response,       \* the follower_response being sent
    requests,       \* the channel behind requests_tr
    local,          \* the channel behind local_requests_tr
    closed,         \* the senders of requests_tr are gone
    responses,      \* the channel behind requests_tx
    log,            \* the group's log: index -> entry
    delayed,        \* puts reported as failed that the store may yet apply
    net,            \* Follow requests between nodes
    inputs, faults, restarts,  \* what has been used of each bound
    disturbed       \* history: nodes that restarted or saw a store error

claimVars == <<leader, commit_index, epoch>>
nodeVars == <<state, pc, claimVars>>
followerVars == <<missed, queue, last_received, response, responses>>
leaderVars == <<followers, acc>>
channelVars == <<requests, local, closed, net, inputs>>
storeVars == <<log, delayed, faults>>
historyVars == <<restarts, disturbed>>
loopVars == <<followerVars, leaderVars, channelVars>>
worldVars == <<storeVars, historyVars>>

vars == <<nodeVars, loopVars, worldVars>>

----------------------------------------------------------------------------
(* Values *)

FSMState == {"NOT_JOINED", "FOLLOWER", "LEADER", "STOPPED"}

\* The awaits at which a task can be found.  "loop" is the receive of
\* follower_loop or leader_loop, "append" and "flush" a put in flight.
PC == {"discover", "connect", "follow", "await", "append",
       "loop", "respond", "flush", "done"}

\* Request bodies.  "Other" stands for the bodies both loops ignore and for
\* a message without a body.
Body == {"ReplicateRequest", "StateRequest", "Follow", "Other"}

Request == [body : Body, node : Nodes, commit_index : Nat]

Response == [kind : {"ReplicateResponse", "NotLeaderError"}, apply_index : Nat]

NoResponse == [kind |-> "None", apply_index |-> 0]

\* What an object of the log holds.  Only a LogEntry has a leader_state.
Entry == [kind : {"LogEntry", "Batch"}, node : Nodes, commit_index : Nat, epoch : Nat]

LeadershipEntry(n, i, e) ==
    [kind |-> "LogEntry", node |-> n, commit_index |-> i, epoch |-> e]

\* leader_loop encodes a bare Batch.  The node is the writer, for the record.
BatchEntry(n) == [kind |-> "Batch", node |-> n, commit_index |-> 0, epoch |-> 0]

Put(i, entry) == [index |-> i, entry |-> entry]

----------------------------------------------------------------------------
(* FSM::new *)

Init ==
    /\ state = [n \in Nodes |-> "NOT_JOINED"]
    /\ pc = [n \in Nodes |-> "discover"]
    /\ leader = [n \in Nodes |-> n]
    /\ commit_index = [n \in Nodes |-> 0]
    /\ epoch = [n \in Nodes |-> 0]
    /\ missed = [n \in Nodes |-> 0]
    /\ followers = [n \in Nodes |-> [m \in Nodes |-> 0]]
    /\ acc = [n \in Nodes |-> 0]
    /\ queue = [n \in Nodes |-> <<>>]
    /\ last_received = [n \in Nodes |-> 0]
    /\ response = [n \in Nodes |-> NoResponse]
    /\ requests = [n \in Nodes |-> <<>>]
    /\ local = [n \in Nodes |-> <<>>]
    /\ closed = [n \in Nodes |-> FALSE]
    /\ responses = [n \in Nodes |-> <<>>]
    /\ log = EmptyStore
    /\ delayed = {}
    /\ net = {}
    /\ inputs = 0
    /\ faults = 0
    /\ restarts = 0
    /\ disturbed = {}

At(n, s, where) == state[n] = s /\ pc[n] = where

Goto(n, where) == pc' = [pc EXCEPT ![n] = where]

Become(n, s, where) == state' = [state EXCEPT ![n] = s] /\ Goto(n, where)

----------------------------------------------------------------------------
(* join: discover_leader_state, connect, follow *)

\* get_head names whichever entry the store lists first (an object store need not
\* list in order, and the log never holds two), get_at reads it and
\* parse_leader_state names its leader.  As log.rs stands get_head returns the file name, which
\* get_at inverts once more: HeadIsIndex is FALSE, get_at reports NotFound, and
\* join returns to be called again, which is a stuttering step.
DiscoverLeader(n) ==
    /\ At(n, "NOT_JOINED", "discover")
    /\ HeadIsIndex
    /\ \E i \in DOMAIN log : leader' = [leader EXCEPT ![n] = log[i].node]
    /\ Goto(n, "connect")
    /\ UNCHANGED <<state, commit_index, epoch, loopVars, worldVars>>

\* get_head returns None: the log is empty.
DiscoverNothing(n) ==
    /\ At(n, "NOT_JOINED", "discover")
    /\ log = EmptyStore
    /\ Goto(n, "append")
    /\ UNCHANGED <<state, claimVars, loopVars, worldVars>>

\* get_head returns None because a transient error ended the listing.
DiscoverBroken(n) ==
    /\ At(n, "NOT_JOINED", "discover")
    /\ faults < MaxFaults
    /\ faults' = faults + 1
    /\ Goto(n, "append")
    /\ UNCHANGED <<state, claimVars, loopVars, log, delayed, historyVars>>

\* connect succeeds ("follow"), reports Closed or NotConnected, so that join
\* returns and start calls it again ("discover"), or fails ("append").
Connect(n) ==
    /\ At(n, "NOT_JOINED", "connect")
    /\ \E where \in {"follow", "discover", "append"} : Goto(n, where)
    /\ UNCHANGED <<state, claimVars, loopVars, worldVars>>

\* follow hands a Follow request to the client, which may lose it.
SendFollow(n) ==
    /\ At(n, "NOT_JOINED", "follow")
    /\ \/ UNCHANGED <<net, inputs>>
       \/ /\ inputs < MaxInputs
          /\ inputs' = inputs + 1
          /\ net' = net \cup {[to |-> leader[n], from |-> n]}
    /\ Goto(n, "await")
    /\ UNCHANGED <<state, claimVars, followerVars, leaderVars, requests, local,
                   closed, worldVars>>

\* Any response makes the node a follower; its content is not looked at.
FollowAnswered(n) ==
    /\ At(n, "NOT_JOINED", "await")
    /\ Become(n, "FOLLOWER", "loop")
    /\ UNCHANGED <<claimVars, loopVars, worldVars>>

\* An Io error is retried with a new correlation id ("follow"); Closed and
\* NotConnected go round join's loop; any other error, or too many retries,
\* makes the node try to lead.
FollowFailed(n) ==
    /\ At(n, "NOT_JOINED", "await")
    /\ \E where \in {"follow", "discover", "append"} : Goto(n, where)
    /\ UNCHANGED <<state, claimVars, loopVars, worldVars>>

----------------------------------------------------------------------------
(* attempt_leadership *)

NextIndex(n) == IF commit_index[n] > 0 THEN commit_index[n] + 1 ELSE 1

NextEpoch(n) == IF commit_index[n] > 0 THEN epoch[n] + 1 ELSE 1

Claim(n) == LeadershipEntry(n, NextIndex(n), NextEpoch(n))

\* The refusal is not noticed.
AlreadyExistsMissed(n) == FALSE

\* PutMode::Create refuses the claim, whoever wrote the entry.
AlreadyExists(n) == NextIndex(n) \in DOMAIN log

\* The success arm forgets to take the LEADER state.
ClaimWonForgotten(n) ==
    /\ At(n, "NOT_JOINED", "append") /\ ~AlreadyExists(n)
    /\ log' = Create(log, NextIndex(n), Claim(n))
    /\ Goto(n, "discover")
    /\ UNCHANGED <<state, claimVars, loopVars, delayed, faults, historyVars>>

\* The entry is written: the node is LEADER, in leader_loop with an empty acc.
ClaimWon(n) ==
    /\ At(n, "NOT_JOINED", "append") /\ ~AlreadyExists(n)
    /\ log' = Create(log, NextIndex(n), Claim(n))
    /\ Become(n, "LEADER", "loop")
    /\ commit_index' = [commit_index EXCEPT ![n] = NextIndex(n)]
    /\ epoch' = [epoch EXCEPT ![n] = NextEpoch(n)]
    /\ acc' = [acc EXCEPT ![n] = 0]
    /\ UNCHANGED <<leader, followerVars, followers, channelVars, delayed, faults,
                   historyVars>>

\* AlreadyExists: back to join's loop, even if the entry is this node's own.
ClaimLost(n) ==
    /\ At(n, "NOT_JOINED", "append") /\ AlreadyExists(n)
    /\ Goto(n, "discover")
    /\ UNCHANGED <<state, claimVars, loopVars, worldVars>>

\* A store error that is retried: by append's loop while it has attempts (or
\* for ever, if the error is Generic and not transient), then by
\* attempt_leadership with unlimited backoff.  The put may still be applied.
ClaimRetried(n) ==
    /\ At(n, "NOT_JOINED", "append")
    /\ faults < MaxFaults
    /\ faults' = faults + 1
    /\ delayed' \in {delayed, delayed \cup {Put(NextIndex(n), Claim(n))}}
    /\ disturbed' = disturbed \cup {n}
    /\ UNCHANGED <<nodeVars, loopVars, log, restarts>>

\* Any other store error ends the FSM.
ClaimFailed(n) ==
    /\ At(n, "NOT_JOINED", "append")
    /\ faults < MaxFaults
    /\ faults' = faults + 1
    /\ delayed' \in {delayed, delayed \cup {Put(NextIndex(n), Claim(n))}}
    /\ Become(n, "STOPPED", "done")
    /\ disturbed' = disturbed \cup {n}
    /\ UNCHANGED <<claimVars, loopVars, log, restarts>>

\* The store applies a put whose caller has been told that it failed.
Land ==
    \E put \in delayed :
        /\ log' = Create(log, put.index, put.entry)
        /\ delayed' = delayed \ {put}
        /\ UNCHANGED <<nodeVars, loopVars, faults, historyVars>>

----------------------------------------------------------------------------
(* follower_loop *)

\* The miss at hand is not counted, and the count never exceeds the maximum.
SilentNever(n) == missed[n] > MaxMissedHeartbeats

\* The timeout that is being counted is the last one allowed.
Silent(n) == missed[n] + 1 >= MaxMissedHeartbeats

\* No message within leader_heartbeat_timeout_ms.  The count survives the
\* return to join; past the maximum it is not told apart.
FollowerTimeout(n) ==
    /\ At(n, "FOLLOWER", "loop")
    /\ requests[n] = <<>> /\ ~closed[n]
    /\ missed' = [missed EXCEPT ![n] = IF @ < MaxMissedHeartbeats THEN @ + 1 ELSE @]
    /\ IF Silent(n) THEN Become(n, "NOT_JOINED", "discover") ELSE UNCHANGED <<state, pc>>
    /\ UNCHANGED <<claimVars, queue, last_received, response, responses, leaderVars,
                   channelVars, worldVars>>

\* The index is not checked at all.
AcceptedAny(n, i) == Len(queue[n]) >= MaxBatchesPending

\* The index is only checked to be new.
AcceptedOutOfOrder(n, i) == i > last_received[n] /\ Len(queue[n]) >= MaxBatchesPending

\* The request is the next one, and ReplicateQueue::put takes it, which it does
\* while at least `size` are queued: above size zero the queue stays empty.
Accepted(n, i) == i = last_received[n] + 1 /\ Len(queue[n]) >= MaxBatchesPending

\* A ReplicateRequest, a heartbeat as well, is queued if it is accepted and
\* acknowledged with the last index received in either case.
FollowerReplicate(n) ==
    /\ At(n, "FOLLOWER", "loop")
    /\ requests[n] # <<>>
    /\ Head(requests[n]).body = "ReplicateRequest"
    /\ missed' = [missed EXCEPT ![n] = 0]
    /\ LET i == Head(requests[n]).commit_index
       IN  IF Accepted(n, i)
             THEN /\ last_received' = [last_received EXCEPT ![n] = i]
                  /\ queue' = [queue EXCEPT ![n] = Append(@, i)]
             ELSE UNCHANGED <<last_received, queue>>
    /\ response' = [response EXCEPT
                      ![n] = [kind |-> "ReplicateResponse",
                              apply_index |-> last_received'[n]]]
    /\ requests' = [requests EXCEPT ![n] = Tail(@)]
    /\ Goto(n, "respond")
    /\ UNCHANGED <<state, claimVars, responses, leaderVars, local, closed, net,
                   inputs, worldVars>>

\* "These could come when the current node is still thought being leader".
FollowerRefuse(n) ==
    /\ At(n, "FOLLOWER", "loop")
    /\ requests[n] # <<>>
    /\ Head(requests[n]).body \in {"StateRequest", "Follow"}
    /\ response' = [response EXCEPT ![n] = [kind |-> "NotLeaderError", apply_index |-> 0]]
    /\ requests' = [requests EXCEPT ![n] = Tail(@)]
    /\ Goto(n, "respond")
    /\ UNCHANGED <<state, claimVars, missed, queue, last_received, responses,
                   leaderVars, local, closed, net, inputs, worldVars>>

\* Anything else is dropped.  It has restarted the heartbeat timer all the same.
FollowerIgnore(n) ==
    /\ At(n, "FOLLOWER", "loop")
    /\ requests[n] # <<>>
    /\ Head(requests[n]).body = "Other"
    /\ requests' = [requests EXCEPT ![n] = Tail(@)]
    /\ UNCHANGED <<nodeVars, followerVars, leaderVars, local, closed, net,
                   inputs, worldVars>>

\* The response is put onto the channel whether there is room or not.
FollowerRespondAnyway(n) ==
    /\ At(n, "FOLLOWER", "respond")
    /\ responses' = [responses EXCEPT ![n] = Append(@, response[n])]
    /\ response' = [response EXCEPT ![n] = NoResponse]
    /\ Goto(n, "loop")
    /\ UNCHANGED <<state, claimVars, missed, queue, last_received, leaderVars,
                   channelVars, worldVars>>

\* The send on requests_tx waits for room, without a timeout.
FollowerRespond(n) ==
    /\ At(n, "FOLLOWER", "respond")
    /\ Len(responses[n]) < ResponsesCapacity
    /\ responses' = [responses EXCEPT ![n] = Append(@, response[n])]
    /\ response' = [response EXCEPT ![n] = NoResponse]
    /\ Goto(n, "loop")
    /\ UNCHANGED <<state, claimVars, missed, queue, last_received, leaderVars,
                   channelVars, worldVars>>

----------------------------------------------------------------------------
(* leader_loop *)

Due(n) == local[n] \o requests[n]

StateRequests(msgs) == Cardinality({k \in DOMAIN msgs : msgs[k].body = "StateRequest"})

Follows(msgs, m) ==
    Cardinality({k \in DOMAIN msgs : msgs[k].body = "Follow" /\ msgs[k].node = m})

\* One round that received something: both channels are drained, StateRequests
\* go to acc, a Follow pushes its sender (again, if it was there), and a flush
\* starts when the interval is over or acc is larger than batch_min_count.
LeaderReceive(n) ==
    /\ At(n, "LEADER", "loop")
    /\ Due(n) # <<>>
    /\ acc' = [acc EXCEPT ![n] = @ + StateRequests(Due(n))]
    /\ followers' = [followers EXCEPT
                       ![n] = [m \in Nodes |-> @[m] + Follows(Due(n), m)]]
    /\ local' = [local EXCEPT ![n] = <<>>]
    /\ requests' = [requests EXCEPT ![n] = <<>>]
    /\ \E elapsed \in BOOLEAN :
         Goto(n, IF elapsed \/ acc'[n] > BatchMinCount THEN "flush" ELSE "loop")
    /\ UNCHANGED <<state, claimVars, followerVars, closed, net, inputs,
                   worldVars>>

\* flush_interval_ms passes without a message.
LeaderTick(n) ==
    /\ At(n, "LEADER", "loop")
    /\ Due(n) = <<>> /\ ~closed[n]
    /\ Goto(n, "flush")
    /\ UNCHANGED <<state, claimVars, loopVars, worldVars>>

\* The closed channel ends leader_loop, and its acc with it; start, which still
\* finds LEADER, calls it again.
LeaderClosed(n) ==
    /\ At(n, "LEADER", "loop")
    /\ closed[n] /\ requests[n] = <<>>
    /\ acc' = [acc EXCEPT ![n] = 0]
    /\ UNCHANGED <<nodeVars, followerVars, followers, channelVars, worldVars>>

\* The index after the leadership entry, where a batch would find room.
FlushIndexNext(n) == commit_index[n] + 1

\* The index a batch is written at: commit_index is not advanced.
FlushIndex(n) == commit_index[n]

\* The append returns, Ok or AlreadyExists: no arm looks at it.
FlushDone(n) ==
    /\ At(n, "LEADER", "flush")
    /\ log' = Create(log, FlushIndex(n), BatchEntry(n))
    /\ acc' = [acc EXCEPT ![n] = 0]
    /\ Goto(n, "loop")
    /\ UNCHANGED <<state, claimVars, followerVars, followers, channelVars,
                   delayed, faults, historyVars>>

\* A store error: append tries again ("flush") or gives up ("loop"), and then
\* acc is cleared as if the batch had been written.
FlushFailed(n) ==
    /\ At(n, "LEADER", "flush")
    /\ faults < MaxFaults
    /\ faults' = faults + 1
    /\ delayed' \in {delayed, delayed \cup {Put(FlushIndex(n), BatchEntry(n))}}
    /\ \E where \in {"flush", "loop"} :
        /\ Goto(n, where)
        /\ acc' = [acc EXCEPT ![n] = IF where = "loop" THEN 0 ELSE @]
    /\ UNCHANGED <<state, claimVars, followerVars, followers, channelVars, log,
                   historyVars>>

----------------------------------------------------------------------------
(* The channels' other ends, and the process *)

Room(n) == Len(requests[n]) < RequestsCapacity

\* A message reaches the group's channel, which has room and is open.
Arrive(n, msg) ==
    /\ ~closed[n] /\ Room(n)
    /\ requests' = [requests EXCEPT ![n] = Append(@, msg)]

\* A Follow of another node, or of this one, is delivered.
DeliverFollow ==
    \E f \in net :
        /\ Arrive(f.to, [body |-> "Follow", node |-> f.from, commit_index |-> 0])
        /\ net' = net \ {f}
        /\ UNCHANGED <<nodeVars, followerVars, leaderVars, local, closed, inputs,
                       worldVars>>

\* A peer's message arrives: in any order, and any number of times.
Receive(n) ==
    /\ inputs < MaxInputs
    /\ inputs' = inputs + 1
    /\ \E body \in {"ReplicateRequest", "StateRequest", "Other"}, i \in 1..MaxIndex :
        /\ body # "ReplicateRequest" => i = 1
        /\ Arrive(n, [body |-> body, node |-> n, commit_index |-> i])
    /\ UNCHANGED <<nodeVars, followerVars, leaderVars, local, closed, net, worldVars>>

\* The node itself submits a request: the channel is unbounded.
Submit(n) ==
    /\ inputs < MaxInputs
    /\ inputs' = inputs + 1
    /\ local' = [local EXCEPT
                   ![n] = Append(@, [body |-> "StateRequest", node |-> n,
                                     commit_index |-> 0])]
    /\ UNCHANGED <<nodeVars, followerVars, leaderVars, requests, closed, net,
                   worldVars>>

\* The group server's inner_drain_out takes a response.  It may do so no more
\* while the channel stays open: it returns for good after one client's error.
DrainResponse(n) ==
    /\ responses[n] # <<>>
    /\ responses' = [responses EXCEPT ![n] = Tail(@)]
    /\ UNCHANGED <<nodeVars, missed, queue, last_received, response, leaderVars,
                   channelVars, worldVars>>

\* The last sender of requests_tr goes away.
CloseRequests(n) ==
    /\ ~closed[n]
    /\ Cardinality({m \in Nodes : closed[m]}) < MaxClosed
    /\ closed' = [closed EXCEPT ![n] = TRUE]
    /\ UNCHANGED <<nodeVars, followerVars, leaderVars, requests, local, net,
                   inputs, worldVars>>

\* The put a task waits for, if it waits for one.
InFlight(n) ==
    (IF At(n, "NOT_JOINED", "append") THEN {Put(NextIndex(n), Claim(n))} ELSE {})
    \cup (IF At(n, "LEADER", "flush") THEN {Put(FlushIndex(n), BatchEntry(n))} ELSE {})

\* The process ends and is started again: everything but the log is lost, and
\* a put that was under way may or may not reach the store.
Restart(n) ==
    /\ restarts < MaxRestarts
    /\ restarts' = restarts + 1
    /\ disturbed' = disturbed \cup {n}
    /\ delayed' \in {delayed, delayed \cup InFlight(n)}
    /\ Become(n, "NOT_JOINED", "discover")
    /\ leader' = [leader EXCEPT ![n] = n]
    /\ commit_index' = [commit_index EXCEPT ![n] = 0]
    /\ epoch' = [epoch EXCEPT ![n] = 0]
    /\ missed' = [missed EXCEPT ![n] = 0]
    /\ followers' = [followers EXCEPT ![n] = [m \in Nodes |-> 0]]
    /\ acc' = [acc EXCEPT ![n] = 0]
    /\ queue' = [queue EXCEPT ![n] = <<>>]
    /\ last_received' = [last_received EXCEPT ![n] = 0]
    /\ response' = [response EXCEPT ![n] = NoResponse]
    /\ requests' = [requests EXCEPT ![n] = <<>>]
    /\ local' = [local EXCEPT ![n] = <<>>]
    /\ closed' = [closed EXCEPT ![n] = FALSE]
    /\ responses' = [responses EXCEPT ![n] = <<>>]
    /\ UNCHANGED <<net, inputs, log, faults>>

----------------------------------------------------------------------------

\* The steps of a node's own task: what join asks the store, what it asks the
\* client, and the two loops.
JoinStore(n) ==
    \/ DiscoverLeader(n) \/ DiscoverNothing(n) \/ DiscoverBroken(n)
    \/ ClaimWon(n) \/ ClaimLost(n) \/ ClaimRetried(n) \/ ClaimFailed(n)

JoinClient(n) ==
    Connect(n) \/ SendFollow(n) \/ FollowAnswered(n) \/ FollowFailed(n)

FollowerLoop(n) ==
    \/ FollowerTimeout(n) \/ FollowerReplicate(n) \/ FollowerRefuse(n)
    \/ FollowerIgnore(n) \/ FollowerRespond(n)

LeaderLoop(n) ==
    \/ LeaderReceive(n) \/ LeaderTick(n) \/ LeaderClosed(n)
    \/ FlushDone(n) \/ FlushFailed(n)

Next ==
    \/ \E n \in Nodes :
        \/ JoinStore(n) \/ JoinClient(n) \/ FollowerLoop(n) \/ LeaderLoop(n)
        \/ Receive(n) \/ Submit(n) \/ DrainResponse(n) \/ CloseRequests(n) \/ Restart(n)
    \/ DeliverFollow
    \/ Land

Spec == Init /\ [][Next]_vars

\* The runtime polls every task, and calls to the store return (the store's
\* client has timeouts).  Nothing is assumed of the calls to S2cClient, which can
\* wait without a timeout, nor of the group server, which may stop taking
\* responses.
Fairness ==
    \A n \in Nodes : WF_vars(JoinStore(n) \/ FollowerLoop(n) \/ LeaderLoop(n))

FairSpec == Spec /\ Fairness

----------------------------------------------------------------------------
(* Properties *)

NodeTypeOK ==
    /\ state \in [Nodes -> FSMState]
    /\ pc \in [Nodes -> PC]
    /\ leader \in [Nodes -> Nodes]
    /\ commit_index \in [Nodes -> Nat]
    /\ epoch \in [Nodes -> Nat]

FollowerTypeOK ==
    /\ missed \in [Nodes -> 0..MaxMissedHeartbeats]
    /\ queue \in [Nodes -> Seq(Nat)]
    /\ last_received \in [Nodes -> Nat]
    /\ response \in [Nodes -> Response \cup {NoResponse}]
    /\ \A n \in Nodes : pc[n] = "respond" => response[n] \in Response
    /\ responses \in [Nodes -> Seq(Response)]
    /\ \A n \in Nodes : Len(responses[n]) <= ResponsesCapacity

LeaderTypeOK ==
    /\ followers \in [Nodes -> [Nodes -> Nat]]
    /\ acc \in [Nodes -> Nat]

ChannelTypeOK ==
    /\ requests \in [Nodes -> Seq(Request)]
    /\ \A n \in Nodes : Len(requests[n]) <= RequestsCapacity
    /\ local \in [Nodes -> Seq(Request)]
    /\ closed \in [Nodes -> BOOLEAN]
    /\ net \subseteq [to : Nodes, from : Nodes]
    /\ inputs \in 0..MaxInputs

WorldTypeOK ==
    /\ DOMAIN log \subseteq Nat
    /\ \A i \in DOMAIN log : log[i] \in Entry
    /\ delayed \subseteq [index : Nat, entry : Entry]
    /\ faults \in 0..MaxFaults
    /\ restarts \in 0..MaxRestarts
    /\ disturbed \subseteq Nodes

\* Every variable has its type, and no bounded channel holds more than it may.
TypeOK ==
    NodeTypeOK /\ FollowerTypeOK /\ LeaderTypeOK /\ ChannelTypeOK /\ WorldTypeOK

\* A node in LEADER has the leadership entry for its commit_index and epoch in
\* the log, whatever puts were lost, repeated or applied late: the append of
\* attempt_leadership is the only way in, and nothing takes the entry away.
LeaderOwnsLog ==
    \A n \in Nodes : state[n] = "LEADER" =>
        /\ commit_index[n] \in DOMAIN log
        /\ log[commit_index[n]] = LeadershipEntry(n, commit_index[n], epoch[n])

\* At most one node runs leader_loop at a time: the claims of all nodes that
\* have not led compete for one index of the log.
OneLeader ==
    \A m, n \in Nodes : state[m] = "LEADER" /\ state[n] = "LEADER" => m = n

\* parse_leader_state's expect("Invalid entry") never fails: no object of the
\* log is the bare Batch that leader_loop appends, because the index a leader
\* flushes to is always taken, by its own leadership entry.
EntriesDecodable == \A i \in DOMAIN log : log[i].kind = "LogEntry"

\* A leadership entry whose owner does not lead (so that the group has no
\* leader, and cannot get one) is the work of a restart or of a store error
\* during the owner's claim: lost races and follower timeouts do not orphan it.
OrphanOnlyIfDisturbed ==
    \A i \in DOMAIN log :
        state[log[i].node] # "LEADER" => log[i].node \in disturbed

\* Only a leader has an index above zero, so that every claim is for index 1.
ClaimsAtOne == \A n \in Nodes : state[n] # "LEADER" => commit_index[n] = 0

\* The log never grows: the leadership entry at index 1 is all it ever holds.
OneIndex == DOMAIN log \subseteq {1}

\* A put that may still be applied is for index 1: the claim of a disturbed node,
\* or a batch, which comes too late.
PutsHarmless ==
    \A put \in delayed :
        /\ put.index = 1
        /\ \/ put.entry.kind = "LogEntry" /\ put.entry.node \in disturbed
           \/ 1 \in DOMAIN log

\* The inductive invariant behind the properties of leadership.
ElectionInv ==
    /\ ClaimsAtOne /\ OneIndex /\ PutsHarmless
    /\ LeaderOwnsLog /\ EntriesDecodable /\ OrphanOnlyIfDisturbed

\* Replication requests may arrive in any order and more than once: what
\* ReplicateQueue holds is still 1, 2, 3 ... up to last_received_index.
QueueIsPrefix ==
    \A n \in Nodes :
        /\ Len(queue[n]) = last_received[n]
        /\ \A k \in DOMAIN queue[n] : queue[n][k] = k

Acks(n) == {k \in DOMAIN responses[n] : responses[n][k].kind = "ReplicateResponse"}

\* The acknowledgements on their way to the leader are in order, none names an
\* index that the follower has not queued, and one that waits for room is still
\* up to date when it is sent.
AcksNeverAhead ==
    \A n \in Nodes :
        /\ response[n].kind = "ReplicateResponse" =>
             response[n].apply_index = last_received[n]
        /\ \A k \in Acks(n) : responses[n][k].apply_index <= last_received[n]
        /\ \A j, k \in Acks(n) :
             j < k => responses[n][j].apply_index <= responses[n][k].apply_index

\* The machine implements the one-shot election: the owner is the node of the
\* entry at index 1, and the leading nodes are those in LEADER.
Election == INSTANCE OneShotElection
    WITH owner <- IF 1 \in DOMAIN log THEN log[1].node ELSE NoNode,
         leading <- {n \in Nodes : state[n] = "LEADER"}

ElectionSpec == Election!Spec

\* Without faults and restarts some node of the group comes to lead.
LeaderElected == <>(\E n \in Nodes : state[n] = "LEADER")

\* The send of a response waits for room in the full channel.
Blocked(n) == At(n, "FOLLOWER", "respond") /\ Len(responses[n]) = ResponsesCapacity

\* A follower to which no more messages come leaves FOLLOWER, by the heartbeat
\* timeout, unless a response waits for ever: the send on requests_tx has no
\* timeout, and while it waits no silence is counted.  That is the only excuse.
\* (A closed channel is not silence: see ClosedEnds.)
SilenceNoticed ==
    \A n \in Nodes :
        \/ <>[]Blocked(n)
        \/ state[n] = "FOLLOWER" /\ inputs = MaxInputs ~> state[n] # "FOLLOWER" \/ closed[n]

\* "In channel was closed. Ending FSM.": both loops log this and break.  The
\* machine should then come to its end state; start, which finds the state
\* unchanged, calls the same loop again, for ever.
ClosedEnds ==
    \A n \in Nodes :
        pc[n] = "loop" /\ closed[n] /\ requests[n] = <<>> ~> state[n] = "STOPPED"
============================================================================
