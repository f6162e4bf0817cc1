----------------------------- MODULE FSM_proofs -----------------------------
(***************************************************************************)
(* Proofs about FSM, for every group of nodes, every option and every bound *)
(* on faults, restarts and messages.                                       *)
(***************************************************************************)
EXTENDS FSM, FiniteSetTheorems, TLAPS

\* A create-only put adds its key and keeps every object there was.
LEMMA CreateEffect ==
    ASSUME NEW store, NEW key, NEW object
    PROVE  /\ DOMAIN Create(store, key, object) = DOMAIN store \cup {key}
           /\ \A k \in DOMAIN store : Create(store, key, object)[k] = store[k]
           /\ key \notin DOMAIN store => Create(store, key, object)[key] = object
           /\ key \in DOMAIN store => Create(store, key, object) = store
  BY DEF Create, Overwrite

\* Messages are counted in natural numbers.
LEMMA CountType ==
    ASSUME NEW S, NEW msgs \in Seq(S), NEW m
    PROVE  StateRequests(msgs) \in Nat /\ Follows(msgs, m) \in Nat
  <1>1. \A K \in SUBSET (1 .. Len(msgs)) : Cardinality(K) \in Nat
    <2>1. Len(msgs) \in Int
      OBVIOUS
    <2>2. IsFiniteSet(1 .. Len(msgs))
      BY <2>1, FS_Interval
    <2> QED
      BY <2>2, FS_Subset, FS_CardinalityType
  <1>2. DOMAIN msgs = 1 .. Len(msgs)
    OBVIOUS
  <1> QED
    BY <1>1, <1>2 DEF StateRequests, Follows

----------------------------------------------------------------------------
(* Types *)

LEMMA InitType == Init => TypeOK
  <1> SUFFICES ASSUME Init PROVE TypeOK
    OBVIOUS
  <1> USE FSMAssumption DEF Init
  <1>1. NodeTypeOK
    BY DEF NodeTypeOK, FSMState, PC
  <1>2. FollowerTypeOK
    BY DEF FollowerTypeOK
  <1>3. LeaderTypeOK
    BY DEF LeaderTypeOK
  <1>4. ChannelTypeOK
    BY DEF ChannelTypeOK
  <1>5. WorldTypeOK
    BY DEF WorldTypeOK, EmptyStore
  <1> QED
    BY <1>1, <1>2, <1>3, <1>4, <1>5 DEF TypeOK

\* The type of what a step leaves alone.
LEMMA Untouched ==
    ASSUME TypeOK
    PROVE  /\ UNCHANGED nodeVars => NodeTypeOK'
           /\ UNCHANGED <<followerVars, pc>> => FollowerTypeOK'
           /\ UNCHANGED leaderVars => LeaderTypeOK'
           /\ UNCHANGED channelVars => ChannelTypeOK'
           /\ UNCHANGED worldVars => WorldTypeOK'
  <1>1. UNCHANGED nodeVars => NodeTypeOK'
    BY DEF TypeOK, NodeTypeOK, nodeVars, claimVars
  <1>2. UNCHANGED <<followerVars, pc>> => FollowerTypeOK'
    BY DEF TypeOK, FollowerTypeOK, followerVars
  <1>3. UNCHANGED leaderVars => LeaderTypeOK'
    BY DEF TypeOK, LeaderTypeOK, leaderVars
  <1>4. UNCHANGED channelVars => ChannelTypeOK'
    BY DEF TypeOK, ChannelTypeOK, channelVars
  <1>5. UNCHANGED worldVars => WorldTypeOK'
    BY DEF TypeOK, WorldTypeOK, worldVars, storeVars, historyVars
  <1> QED
    BY <1>1, <1>2, <1>3, <1>4, <1>5

\* A step of the task that does not go to "respond" keeps the type of an
\* untouched follower.
LEMMA FollowerUntouched ==
    ASSUME TypeOK, NEW n \in Nodes, NEW where \in PC, where # "respond",
           Goto(n, where), UNCHANGED followerVars
    PROVE  FollowerTypeOK'
  BY DEF TypeOK, NodeTypeOK, FollowerTypeOK, followerVars, Goto

\* A claim has the type of a log entry.
LEMMA ClaimType ==
    ASSUME NodeTypeOK, NEW n \in Nodes
    PROVE  /\ NextIndex(n) \in Nat /\ NextEpoch(n) \in Nat
           /\ Claim(n) \in Entry
           /\ Put(NextIndex(n), Claim(n)) \in [index : Nat, entry : Entry]
  BY DEF NodeTypeOK, NextIndex, NextEpoch, Claim, LeadershipEntry, Entry, Put

\* A put of an entry keeps the log's type.
LEMMA LogType ==
    ASSUME DOMAIN log \subseteq Nat, \A i \in DOMAIN log : log[i] \in Entry,
           NEW index \in Nat, NEW entry \in Entry, log' = Create(log, index, entry)
    PROVE  DOMAIN log' \subseteq Nat /\ \A i \in DOMAIN log' : log'[i] \in Entry
  BY DEF Create, Overwrite

\* The steps of join that ask the store.
LEMMA JoinStoreType ==
    ASSUME TypeOK, NEW n \in Nodes, JoinStore(n)
    PROVE  TypeOK'
  <1> USE FSMAssumption DEF loopVars
  <1>0. /\ NextIndex(n) \in Nat /\ NextEpoch(n) \in Nat /\ Claim(n) \in Entry
        /\ Put(NextIndex(n), Claim(n)) \in [index : Nat, entry : Entry]
    BY ClaimType DEF TypeOK
  <1>1. NodeTypeOK'
    BY <1>0 DEF JoinStore, DiscoverLeader, DiscoverNothing, DiscoverBroken, ClaimWon,
       ClaimLost, ClaimRetried, ClaimFailed, Become, Goto, claimVars, nodeVars, TypeOK,
       NodeTypeOK, WorldTypeOK, FSMState, PC, Entry
  <1>2. FollowerTypeOK'
    BY DEF JoinStore, DiscoverLeader, DiscoverNothing, DiscoverBroken, ClaimWon,
       ClaimLost, ClaimRetried, ClaimFailed, Become, Goto, At, nodeVars, TypeOK,
       NodeTypeOK, FollowerTypeOK, followerVars, PC
  <1>3. LeaderTypeOK'
    BY DEF JoinStore, DiscoverLeader, DiscoverNothing, DiscoverBroken, ClaimWon,
       ClaimLost, ClaimRetried, ClaimFailed, TypeOK, LeaderTypeOK, leaderVars
  <1>4. ChannelTypeOK'
    BY Untouched DEF JoinStore, DiscoverLeader, DiscoverNothing, DiscoverBroken,
       ClaimWon, ClaimLost, ClaimRetried, ClaimFailed
  <1>5. WorldTypeOK'
    <2>1. CASE ClaimWon(n)
      BY <1>0, <2>1, LogType DEF ClaimWon, TypeOK, WorldTypeOK, historyVars
    <2>2. CASE DiscoverBroken(n) \/ ClaimRetried(n) \/ ClaimFailed(n)
      BY <1>0, <2>2 DEF DiscoverBroken, ClaimRetried, ClaimFailed, TypeOK, WorldTypeOK,
         historyVars
    <2>3. CASE DiscoverLeader(n) \/ DiscoverNothing(n) \/ ClaimLost(n)
      BY <2>3, Untouched DEF DiscoverLeader, DiscoverNothing, ClaimLost
    <2> QED
      BY <2>1, <2>2, <2>3 DEF JoinStore
  <1> QED
    BY <1>1, <1>2, <1>3, <1>4, <1>5 DEF TypeOK

LEMMA JoinClientType ==
    ASSUME TypeOK, NEW n \in Nodes, JoinClient(n)
    PROVE  TypeOK'
  <1> USE FSMAssumption DEF loopVars, JoinClient, Connect, SendFollow, FollowAnswered,
          FollowFailed
  <1>1. NodeTypeOK'
    BY DEF Become, Goto, claimVars, TypeOK, NodeTypeOK, FSMState, PC
  <1>2. FollowerTypeOK'
    BY DEF Become, Goto, TypeOK, NodeTypeOK, FollowerTypeOK, followerVars, PC
  <1>3. LeaderTypeOK'
    BY Untouched
  <1>4. ChannelTypeOK'
    BY DEF TypeOK, NodeTypeOK, ChannelTypeOK, channelVars
  <1>5. WorldTypeOK'
    BY Untouched
  <1> QED
    BY <1>1, <1>2, <1>3, <1>4, <1>5 DEF TypeOK

LEMMA FollowerLoopType ==
    ASSUME TypeOK, NEW n \in Nodes, FollowerLoop(n)
    PROVE  TypeOK'
  <1> USE FSMAssumption
  <1>1. NodeTypeOK'
    BY DEF FollowerLoop, FollowerTimeout, FollowerReplicate, FollowerRefuse,
       FollowerIgnore, FollowerRespond, Become, Goto, nodeVars, claimVars, TypeOK,
       NodeTypeOK, FSMState, PC
  <1>2. FollowerTypeOK'
    <2>1. CASE FollowerTimeout(n)
      BY <2>1, SMTT(20) DEF FollowerTimeout, Become, Goto, TypeOK, NodeTypeOK, FollowerTypeOK,
         PC
    <2>2. CASE FollowerReplicate(n)
      <3> DEFINE i == Head(requests[n]).commit_index
      <3>1. requests[n] \in Seq(Request) /\ requests[n] # <<>>
        BY <2>2 DEF FollowerReplicate, TypeOK, ChannelTypeOK
      <3>2. i \in Nat
        <4>1. Head(requests[n]) \in Request
          BY <3>1
        <4> QED
          BY <4>1 DEF Request
      <3>3. /\ last_received' \in [Nodes -> Nat]
            /\ queue' \in [Nodes -> Seq(Nat)]
        <4>1. CASE Accepted(n, i)
          <5>1. /\ last_received' = [last_received EXCEPT ![n] = i]
                /\ queue' = [queue EXCEPT ![n] = Append(queue[n], i)]
            BY <2>2, <4>1 DEF FollowerReplicate
          <5> QED
            BY <3>2, <5>1 DEF TypeOK, FollowerTypeOK
        <4>2. CASE ~Accepted(n, i)
          BY <2>2, <4>2 DEF FollowerReplicate, TypeOK, FollowerTypeOK
        <4> QED
          BY <4>1, <4>2
      <3>4. [kind |-> "ReplicateResponse", apply_index |-> last_received'[n]] \in Response
        BY <3>3 DEF Response
      <3> HIDE DEF i
      <3>5. /\ response' = [response EXCEPT ![n] = [kind |-> "ReplicateResponse",
                                                    apply_index |-> last_received'[n]]]
            /\ missed' = [missed EXCEPT ![n] = 0]
            /\ responses' = responses /\ Goto(n, "respond")
        BY <2>2 DEF FollowerReplicate
      <3> QED
        BY <3>3, <3>4, <3>5 DEF Goto, TypeOK, NodeTypeOK, FollowerTypeOK
    <2>3. CASE FollowerRefuse(n)
      BY <2>3 DEF FollowerRefuse, Goto, TypeOK, NodeTypeOK, FollowerTypeOK, Response
    <2>4. CASE FollowerIgnore(n)
      BY <2>4, Untouched DEF FollowerIgnore, nodeVars
    <2>5. CASE FollowerRespond(n)
      BY <2>5 DEF FollowerRespond, At, Goto, TypeOK, NodeTypeOK, FollowerTypeOK
    <2> QED
      BY <2>1, <2>2, <2>3, <2>4, <2>5 DEF FollowerLoop
  <1>3. LeaderTypeOK' /\ WorldTypeOK'
    BY Untouched DEF FollowerLoop, FollowerTimeout, FollowerReplicate, FollowerRefuse,
       FollowerIgnore, FollowerRespond
  <1>4. ChannelTypeOK'
    <2>1. CASE FollowerTimeout(n) \/ FollowerRespond(n)
      BY <2>1, Untouched DEF FollowerTimeout, FollowerRespond
    <2>2. CASE FollowerReplicate(n) \/ FollowerRefuse(n) \/ FollowerIgnore(n)
      <3>1. /\ requests[n] # <<>>
            /\ requests' = [requests EXCEPT ![n] = Tail(@)]
            /\ UNCHANGED <<local, closed, net, inputs>>
        BY <2>2 DEF FollowerReplicate, FollowerRefuse, FollowerIgnore
      <3> QED
        BY <3>1 DEF TypeOK, ChannelTypeOK
    <2> QED
      BY <2>1, <2>2 DEF FollowerLoop
  <1> QED
    BY <1>1, <1>2, <1>3, <1>4 DEF TypeOK

LEMMA LeaderLoopType ==
    ASSUME TypeOK, NEW n \in Nodes, LeaderLoop(n)
    PROVE  TypeOK'
  <1> USE FSMAssumption DEF loopVars
  <1>1. NodeTypeOK'
    BY DEF LeaderLoop, LeaderReceive, LeaderTick, LeaderClosed, FlushDone, FlushFailed,
       Goto, nodeVars, claimVars, TypeOK, NodeTypeOK, PC
  <1>2. FollowerTypeOK'
    BY DEF LeaderLoop, LeaderReceive, LeaderTick, LeaderClosed, FlushDone, FlushFailed,
       Goto, nodeVars, TypeOK, NodeTypeOK, FollowerTypeOK, followerVars, PC
  <1>3. LeaderTypeOK'
    <2>1. CASE LeaderReceive(n)
      <3>1. Due(n) \in Seq(Request)
        BY DEF TypeOK, ChannelTypeOK, Due
      <3>2. StateRequests(Due(n)) \in Nat /\ \A m \in Nodes : Follows(Due(n), m) \in Nat
        BY <3>1, CountType
      <3>3. /\ acc' = [acc EXCEPT ![n] = acc[n] + StateRequests(Due(n))]
            /\ followers' = [followers EXCEPT
                               ![n] = [m \in Nodes |-> followers[n][m] + Follows(Due(n), m)]]
        BY <2>1 DEF LeaderReceive
      <3>4. acc' \in [Nodes -> Nat]
        BY <3>2, <3>3 DEF TypeOK, LeaderTypeOK
      <3>5. [m \in Nodes |-> followers[n][m] + Follows(Due(n), m)] \in [Nodes -> Nat]
        BY <3>2 DEF TypeOK, LeaderTypeOK
      <3>6. followers' \in [Nodes -> [Nodes -> Nat]]
        BY <3>3, <3>5 DEF TypeOK, LeaderTypeOK
      <3> QED
        BY <3>4, <3>6 DEF LeaderTypeOK
    <2>2. CASE LeaderTick(n)
      BY <2>2, Untouched DEF LeaderTick
    <2>3. CASE LeaderClosed(n) \/ FlushDone(n) \/ FlushFailed(n)
      <3>1. PICK count \in {0, acc[n]} : acc' = [acc EXCEPT ![n] = count]
        BY <2>3 DEF LeaderClosed, FlushDone, FlushFailed
      <3>2. followers' = followers
        BY <2>3 DEF LeaderClosed, FlushDone, FlushFailed
      <3> QED
        BY <3>1, <3>2 DEF TypeOK, LeaderTypeOK
    <2> QED
      BY <2>1, <2>2, <2>3 DEF LeaderLoop
  <1>4. ChannelTypeOK'
    <2>1. CASE LeaderReceive(n)
      <3>1. /\ requests' = [requests EXCEPT ![n] = <<>>]
            /\ local' = [local EXCEPT ![n] = <<>>]
            /\ UNCHANGED <<closed, net, inputs>>
        BY <2>1 DEF LeaderReceive
      <3> QED
        BY <3>1 DEF TypeOK, ChannelTypeOK
    <2>2. CASE LeaderTick(n) \/ LeaderClosed(n) \/ FlushDone(n) \/ FlushFailed(n)
      <3>1. UNCHANGED channelVars
        BY <2>2 DEF LeaderTick, LeaderClosed, FlushDone, FlushFailed
      <3> QED
        BY <3>1, Untouched
    <2> QED
      BY <2>1, <2>2 DEF LeaderLoop
  <1>5. WorldTypeOK'
    <2>1. BatchEntry(n) \in Entry /\ FlushIndex(n) \in Nat
      BY DEF BatchEntry, Entry, FlushIndex, TypeOK, NodeTypeOK
    <2>2. CASE FlushDone(n)
      BY <2>1, <2>2, LogType DEF FlushDone, TypeOK, WorldTypeOK, historyVars
    <2>3. CASE FlushFailed(n)
      BY <2>1, <2>3 DEF FlushFailed, TypeOK, WorldTypeOK, historyVars, Put
    <2>4. CASE LeaderReceive(n) \/ LeaderTick(n) \/ LeaderClosed(n)
      BY <2>4, Untouched DEF LeaderReceive, LeaderTick, LeaderClosed
    <2> QED
      BY <2>2, <2>3, <2>4 DEF LeaderLoop
  <1> QED
    BY <1>1, <1>2, <1>3, <1>4, <1>5 DEF TypeOK

LEMMA ArriveType ==
    ASSUME ChannelTypeOK, NEW n \in Nodes, NEW msg \in Request, Arrive(n, msg)
    PROVE  /\ requests' \in [Nodes -> Seq(Request)]
           /\ \A m \in Nodes : Len(requests'[m]) <= RequestsCapacity
  BY FSMAssumption DEF ChannelTypeOK, Arrive, Room

LEMMA EnvironmentType ==
    ASSUME TypeOK, NEW n \in Nodes,
           Receive(n) \/ Submit(n) \/ DrainResponse(n) \/ CloseRequests(n)
    PROVE  TypeOK'
  <1> USE FSMAssumption
  <1>1. CASE Receive(n)
    <2>1. PICK body \in {"ReplicateRequest", "StateRequest", "Other"}, i \in 1..MaxIndex :
            Arrive(n, [body |-> body, node |-> n, commit_index |-> i])
      BY <1>1 DEF Receive
    <2>2. [body |-> body, node |-> n, commit_index |-> i] \in Request
      BY DEF Request, Body
    <2>3. ChannelTypeOK'
      BY <1>1, <2>1, <2>2, ArriveType DEF Receive, TypeOK, ChannelTypeOK
    <2> QED
      BY <1>1, <2>3, Untouched DEF Receive, nodeVars, TypeOK
  <1>2. CASE Submit(n)
    <2>1. [body |-> "StateRequest", node |-> n, commit_index |-> 0] \in Request
      BY DEF Request, Body
    <2>2. ChannelTypeOK'
      BY <1>2, <2>1 DEF Submit, TypeOK, ChannelTypeOK
    <2> QED
      BY <1>2, <2>2, Untouched DEF Submit, nodeVars, TypeOK
  <1>3. CASE DrainResponse(n)
    <2>1. FollowerTypeOK'
      BY <1>3 DEF DrainResponse, nodeVars, TypeOK, FollowerTypeOK
    <2> QED
      BY <1>3, <2>1, Untouched DEF DrainResponse, TypeOK
  <1>4. CASE CloseRequests(n)
    <2>1. ChannelTypeOK'
      BY <1>4 DEF CloseRequests, TypeOK, ChannelTypeOK
    <2> QED
      BY <1>4, <2>1, Untouched DEF CloseRequests, nodeVars, TypeOK
  <1> QED
    BY <1>1, <1>2, <1>3, <1>4

LEMMA RestartType ==
    ASSUME TypeOK, NEW n \in Nodes, Restart(n)
    PROVE  TypeOK'
  <1> USE FSMAssumption
  <1>1. NodeTypeOK'
    BY DEF Restart, Become, Goto, TypeOK, NodeTypeOK, FSMState, PC
  <1>2. FollowerTypeOK'
    BY DEF Restart, Become, Goto, TypeOK, NodeTypeOK, FollowerTypeOK
  <1>3. LeaderTypeOK'
    <2>1. /\ followers' = [followers EXCEPT ![n] = [m \in Nodes |-> 0]]
          /\ acc' = [acc EXCEPT ![n] = 0]
      BY DEF Restart
    <2> QED
      BY <2>1 DEF TypeOK, LeaderTypeOK
  <1>4. ChannelTypeOK'
    <2>1. /\ requests' = [requests EXCEPT ![n] = <<>>]
          /\ local' = [local EXCEPT ![n] = <<>>]
          /\ closed' = [closed EXCEPT ![n] = FALSE]
          /\ UNCHANGED <<net, inputs>>
      BY DEF Restart
    <2> QED
      BY <2>1 DEF TypeOK, ChannelTypeOK
  <1>5. WorldTypeOK'
    <2>1. FlushIndex(n) \in Nat /\ BatchEntry(n) \in Entry
      BY DEF BatchEntry, Entry, FlushIndex, TypeOK, NodeTypeOK
    <2>2. InFlight(n) \subseteq [index : Nat, entry : Entry]
      BY <2>1, ClaimType DEF InFlight, Put, TypeOK
    <2> QED
      BY <2>2 DEF Restart, TypeOK, WorldTypeOK
  <1> QED
    BY <1>1, <1>2, <1>3, <1>4, <1>5 DEF TypeOK

LEMMA NetworkType ==
    ASSUME TypeOK, DeliverFollow \/ Land
    PROVE  TypeOK'
  <1> USE FSMAssumption
  <1>1. CASE DeliverFollow
    <2>1. PICK f \in net :
            /\ Arrive(f.to, [body |-> "Follow", node |-> f.from, commit_index |-> 0])
            /\ net' = net \ {f}
            /\ UNCHANGED <<nodeVars, followerVars, leaderVars, local, closed, inputs,
                           worldVars>>
      BY <1>1 DEF DeliverFollow
    <2>2. f.to \in Nodes /\ f.from \in Nodes
      BY DEF TypeOK, ChannelTypeOK
    <2>3. [body |-> "Follow", node |-> f.from, commit_index |-> 0] \in Request
      BY <2>2 DEF Request, Body
    <2>4. ChannelTypeOK'
      BY <2>1, <2>2, <2>3, ArriveType DEF TypeOK, ChannelTypeOK
    <2> QED
      BY <2>1, <2>4, Untouched DEF nodeVars, TypeOK
  <1>2. CASE Land
    <2>1. PICK put \in delayed :
            /\ log' = Create(log, put.index, put.entry)
            /\ delayed' = delayed \ {put}
            /\ UNCHANGED <<nodeVars, loopVars, faults, historyVars>>
      BY <1>2 DEF Land
    <2>2. put.index \in Nat /\ put.entry \in Entry
      BY DEF TypeOK, WorldTypeOK
    <2>3. WorldTypeOK'
      BY <2>1, <2>2, LogType DEF TypeOK, WorldTypeOK, historyVars
    <2> QED
      BY <2>1, <2>3, Untouched DEF loopVars, nodeVars, TypeOK
  <1> QED
    BY <1>1, <1>2

\* Every variable keeps its type, and the bounded channels their bound, in
\* every behaviour of the state machine.
THEOREM TypeCorrect == Spec => []TypeOK
  <1>1. TypeOK /\ [Next]_vars => TypeOK'
    <2> SUFFICES ASSUME TypeOK, [Next]_vars PROVE TypeOK'
      OBVIOUS
    <2>1. CASE Next
      BY <2>1, JoinStoreType, JoinClientType, FollowerLoopType, LeaderLoopType,
         EnvironmentType, RestartType, NetworkType DEF Next
    <2>2. CASE UNCHANGED vars
      BY <2>2, Untouched DEF vars, nodeVars, loopVars, TypeOK
    <2> QED
      BY <2>1, <2>2
  <1> QED
    BY <1>1, InitType, PTL DEF Spec

----------------------------------------------------------------------------
(* Leadership *)

LEMMA InitElection == Init => ElectionInv
  BY DEF Init, ElectionInv, ClaimsAtOne, OneIndex, PutsHarmless, LeaderOwnsLog,
     EntriesDecodable, OrphanOnlyIfDisturbed, EmptyStore

\* A node that does not lead and does not come to lead, while no put is made,
\* keeps the invariant.
LEMMA NotLeading ==
    ASSUME TypeOK, ElectionInv, NEW n \in Nodes, NEW s, s # "LEADER",
           \/ UNCHANGED state
           \/ state[n] # "LEADER" /\ state' = [state EXCEPT ![n] = s],
           UNCHANGED <<commit_index, epoch, log, delayed, disturbed>>
    PROVE  ElectionInv'
  BY DEF TypeOK, NodeTypeOK, WorldTypeOK, Entry, ElectionInv, ClaimsAtOne, OneIndex,
     PutsHarmless, LeaderOwnsLog, EntriesDecodable, OrphanOnlyIfDisturbed

\* Every claim is for index 1 and epoch 1.
LEMMA FirstClaim ==
    ASSUME ClaimsAtOne, NEW n \in Nodes, state[n] = "NOT_JOINED"
    PROVE  NextIndex(n) = 1 /\ NextEpoch(n) = 1 /\ Claim(n) = LeadershipEntry(n, 1, 1)
  BY DEF ClaimsAtOne, NextIndex, NextEpoch, Claim

\* The first put fills the log.
LEMMA FirstPut ==
    ASSUME OneIndex, 1 \notin DOMAIN log, NEW entry, log' = Create(log, 1, entry)
    PROVE  DOMAIN log = {} /\ DOMAIN log' = {1} /\ log'[1] = entry
  <1>1. DOMAIN log = {}
    BY DEF OneIndex
  <1>2. log' = [k \in {1} |-> entry]
    BY <1>1 DEF Create, Overwrite
  <1> QED
    BY <1>1, <1>2

LEMMA ClaimElection ==
    ASSUME TypeOK, ElectionInv, NEW n \in Nodes,
           ClaimWon(n) \/ ClaimRetried(n) \/ ClaimFailed(n)
    PROVE  ElectionInv'
  <1>0. /\ state[n] = "NOT_JOINED"
        /\ NextIndex(n) = 1 /\ NextEpoch(n) = 1
        /\ Claim(n) = LeadershipEntry(n, 1, 1)
    BY FirstClaim DEF ClaimWon, ClaimRetried, ClaimFailed, At, ElectionInv
  <1>1. CASE ClaimWon(n)
    <2>0. 1 \notin DOMAIN log /\ log' = Create(log, 1, LeadershipEntry(n, 1, 1))
      BY <1>0, <1>1 DEF ClaimWon, AlreadyExists
    <2>1. DOMAIN log = {} /\ DOMAIN log' = {1} /\ log'[1] = LeadershipEntry(n, 1, 1)
      BY <2>0, FirstPut DEF ElectionInv
    <2>2. \A m \in Nodes : state[m] # "LEADER"
      BY <2>1 DEF ElectionInv, LeaderOwnsLog
    <2>3. /\ state' = [state EXCEPT ![n] = "LEADER"]
          /\ commit_index' = [commit_index EXCEPT ![n] = 1]
          /\ epoch' = [epoch EXCEPT ![n] = 1]
          /\ UNCHANGED <<delayed, disturbed>>
      BY <1>0, <1>1 DEF ClaimWon, Become, historyVars
    <2>4. ClaimsAtOne' /\ OneIndex' /\ PutsHarmless'
      BY <2>1, <2>3 DEF TypeOK, NodeTypeOK, ElectionInv, ClaimsAtOne, OneIndex, PutsHarmless
    <2>5. LeaderOwnsLog'
      BY <2>1, <2>2, <2>3 DEF TypeOK, NodeTypeOK, LeaderOwnsLog
    <2>6. EntriesDecodable' /\ OrphanOnlyIfDisturbed'
      BY <2>1, <2>3 DEF TypeOK, NodeTypeOK, EntriesDecodable, OrphanOnlyIfDisturbed,
         LeadershipEntry
    <2> QED
      BY <2>4, <2>5, <2>6 DEF ElectionInv
  <1>2. CASE ClaimRetried(n) \/ ClaimFailed(n)
    <2>1. /\ delayed' \in {delayed, delayed \cup {Put(1, LeadershipEntry(n, 1, 1))}}
          /\ disturbed' = disturbed \cup {n}
          /\ UNCHANGED <<log, commit_index, epoch>>
          /\ UNCHANGED state \/ state' = [state EXCEPT ![n] = "STOPPED"]
      BY <1>0, <1>2 DEF ClaimRetried, ClaimFailed, Become, nodeVars, claimVars
    <2>2. PutsHarmless'
      BY <2>1 DEF ElectionInv, PutsHarmless, Put, LeadershipEntry
    <2>3. ClaimsAtOne' /\ OneIndex' /\ EntriesDecodable' /\ LeaderOwnsLog'
      BY <1>0, <2>1 DEF TypeOK, NodeTypeOK, ElectionInv, ClaimsAtOne, OneIndex,
         EntriesDecodable, LeaderOwnsLog
    <2>4. OrphanOnlyIfDisturbed'
      BY <1>0, <2>1 DEF TypeOK, NodeTypeOK, WorldTypeOK, Entry, ElectionInv,
         OrphanOnlyIfDisturbed
    <2> QED
      BY <2>2, <2>3, <2>4 DEF ElectionInv
  <1> QED
    BY <1>1, <1>2

LEMMA FlushElection ==
    ASSUME TypeOK, ElectionInv, NEW n \in Nodes, FlushDone(n) \/ FlushFailed(n)
    PROVE  ElectionInv'
  <1>1. state[n] = "LEADER" /\ FlushIndex(n) = 1 /\ 1 \in DOMAIN log
    BY DEF FlushDone, FlushFailed, At, FlushIndex, ElectionInv, LeaderOwnsLog, OneIndex
  <1>2. UNCHANGED <<state, commit_index, epoch, log, disturbed>>
    BY <1>1, CreateEffect, ZenonT(30) DEF FlushDone, FlushFailed, claimVars, historyVars
  <1>3. delayed' \in {delayed, delayed \cup {Put(1, BatchEntry(n))}}
    BY <1>1 DEF FlushDone, FlushFailed
  <1>4. PutsHarmless'
    BY <1>1, <1>2, <1>3 DEF ElectionInv, PutsHarmless, Put
  <1> QED
    BY <1>2, <1>4 DEF ElectionInv, ClaimsAtOne, OneIndex, LeaderOwnsLog,
       EntriesDecodable, OrphanOnlyIfDisturbed

LEMMA RestartElection ==
    ASSUME TypeOK, ElectionInv, NEW n \in Nodes, Restart(n)
    PROVE  ElectionInv'
  <1>1. /\ state' = [state EXCEPT ![n] = "NOT_JOINED"]
        /\ commit_index' = [commit_index EXCEPT ![n] = 0]
        /\ epoch' = [epoch EXCEPT ![n] = 0]
        /\ disturbed' = disturbed \cup {n}
        /\ delayed' \in {delayed, delayed \cup InFlight(n)}
        /\ UNCHANGED log
    BY DEF Restart, Become
  <1>2. \A put \in InFlight(n) :
          /\ put.index = 1
          /\ \/ put.entry.kind = "LogEntry" /\ put.entry.node = n
             \/ 1 \in DOMAIN log
    <2>1. CASE At(n, "NOT_JOINED", "append")
      BY <2>1, FirstClaim DEF At, InFlight, Put, LeadershipEntry, ElectionInv
    <2>2. CASE At(n, "LEADER", "flush")
      BY <2>2 DEF At, InFlight, Put, FlushIndex, ElectionInv, LeaderOwnsLog, OneIndex
    <2>3. CASE ~At(n, "NOT_JOINED", "append") /\ ~At(n, "LEADER", "flush")
      BY <2>3 DEF InFlight
    <2> QED
      BY <2>1, <2>2, <2>3
  <1>3. PutsHarmless'
    BY <1>1, <1>2 DEF ElectionInv, PutsHarmless
  <1>4. ClaimsAtOne' /\ OneIndex' /\ EntriesDecodable' /\ LeaderOwnsLog'
    BY <1>1 DEF TypeOK, NodeTypeOK, ElectionInv, ClaimsAtOne, OneIndex,
       EntriesDecodable, LeaderOwnsLog
  <1>5. OrphanOnlyIfDisturbed'
    BY <1>1 DEF TypeOK, NodeTypeOK, WorldTypeOK, Entry, ElectionInv, OrphanOnlyIfDisturbed
  <1> QED
    BY <1>3, <1>4, <1>5 DEF ElectionInv

LEMMA LandElection ==
    ASSUME TypeOK, ElectionInv, Land
    PROVE  ElectionInv'
  <1>1. PICK put \in delayed :
          /\ log' = Create(log, put.index, put.entry)
          /\ delayed' = delayed \ {put}
          /\ UNCHANGED <<state, commit_index, epoch, disturbed>>
    BY DEF Land, nodeVars, claimVars, historyVars
  <1>2. put.index = 1
    BY DEF ElectionInv, PutsHarmless
  <1>3. CASE 1 \in DOMAIN log
    <2>1. UNCHANGED log
      BY <1>1, <1>2, <1>3, CreateEffect
    <2> QED
      BY <1>1, <2>1 DEF ElectionInv, ClaimsAtOne, OneIndex, PutsHarmless, LeaderOwnsLog,
         EntriesDecodable, OrphanOnlyIfDisturbed
  <1>4. CASE 1 \notin DOMAIN log
    <2>1. put.entry.kind = "LogEntry" /\ put.entry.node \in disturbed
      BY <1>4 DEF ElectionInv, PutsHarmless
    <2>2. DOMAIN log = {} /\ DOMAIN log' = {1} /\ log'[1] = put.entry
      BY <1>1, <1>2, <1>4, FirstPut DEF ElectionInv
    <2>3. \A m \in Nodes : state[m] # "LEADER"
      BY <2>2 DEF ElectionInv, LeaderOwnsLog
    <2> QED
      BY <1>1, <2>1, <2>2, <2>3 DEF ElectionInv, ClaimsAtOne, OneIndex, PutsHarmless,
         LeaderOwnsLog, EntriesDecodable, OrphanOnlyIfDisturbed
  <1> QED
    BY <1>3, <1>4

LEMMA QuietElection ==
    ASSUME TypeOK, ElectionInv, NEW n \in Nodes,
           \/ DiscoverLeader(n) \/ DiscoverNothing(n) \/ DiscoverBroken(n) \/ ClaimLost(n)
           \/ JoinClient(n) \/ FollowerLoop(n)
           \/ LeaderReceive(n) \/ LeaderTick(n) \/ LeaderClosed(n)
           \/ Receive(n) \/ Submit(n) \/ DrainResponse(n) \/ CloseRequests(n)
    PROVE  ElectionInv'
  <1>1. UNCHANGED <<commit_index, epoch, log, delayed, disturbed>>
    BY DEF DiscoverLeader, DiscoverNothing, DiscoverBroken, ClaimLost, JoinClient,
       Connect, SendFollow, FollowAnswered, FollowFailed, FollowerLoop, FollowerTimeout,
       FollowerReplicate, FollowerRefuse, FollowerIgnore, FollowerRespond, LeaderReceive,
       LeaderTick, LeaderClosed, Receive, Submit, DrainResponse, CloseRequests, nodeVars,
       claimVars, worldVars, storeVars, historyVars
  <1>2. \/ UNCHANGED state
        \/ state[n] # "LEADER" /\ state' = [state EXCEPT ![n] = "FOLLOWER"]
        \/ state[n] # "LEADER" /\ state' = [state EXCEPT ![n] = "NOT_JOINED"]
    BY DEF DiscoverLeader, DiscoverNothing, DiscoverBroken, ClaimLost, JoinClient,
       Connect, SendFollow, FollowAnswered, FollowFailed, FollowerLoop, FollowerTimeout,
       FollowerReplicate, FollowerRefuse, FollowerIgnore, FollowerRespond, LeaderReceive,
       LeaderTick, LeaderClosed, Receive, Submit, DrainResponse, CloseRequests, nodeVars,
       At, Become
  <1> QED
    BY <1>1, <1>2, NotLeading

\* ElectionInv holds in every behaviour of the state machine.
THEOREM ElectionInvariance == Spec => []ElectionInv
  <1>1. TypeOK /\ ElectionInv /\ [Next]_vars => ElectionInv'
    <2> SUFFICES ASSUME TypeOK, ElectionInv, [Next]_vars PROVE ElectionInv'
      OBVIOUS
    <2>1. CASE DeliverFollow \/ UNCHANGED vars
      BY <2>1 DEF DeliverFollow, vars, nodeVars, claimVars, worldVars, storeVars,
         historyVars, ElectionInv, ClaimsAtOne, OneIndex, PutsHarmless, LeaderOwnsLog,
         EntriesDecodable, OrphanOnlyIfDisturbed
    <2>2. CASE Land
      BY <2>2, LandElection
    <2>3. ASSUME NEW n \in Nodes, JoinStore(n) \/ LeaderLoop(n)
          PROVE  ElectionInv'
      BY <2>3, ClaimElection, FlushElection, QuietElection DEF JoinStore, LeaderLoop
    <2>4. ASSUME NEW n \in Nodes,
                 \/ JoinClient(n) \/ FollowerLoop(n)
                 \/ Receive(n) \/ Submit(n) \/ DrainResponse(n) \/ CloseRequests(n)
          PROVE  ElectionInv'
      BY <2>4, QuietElection
    <2>5. ASSUME NEW n \in Nodes, Restart(n)
          PROVE  ElectionInv'
      BY <2>5, RestartElection
    <2> QED
      BY <2>1, <2>2, <2>3, <2>4, <2>5 DEF Next
  <1> QED
    BY <1>1, InitElection, TypeCorrect, PTL DEF Spec

\* The entries of two leaders are the same entry.
LEMMA OneLeaderFromInv == ElectionInv => OneLeader
  <1> SUFFICES ASSUME ElectionInv, NEW m \in Nodes, NEW n \in Nodes,
                      state[m] = "LEADER", state[n] = "LEADER"
               PROVE  m = n
    BY DEF OneLeader
  <1>1. \A k \in Nodes : state[k] = "LEADER" =>
          log[1] = LeadershipEntry(k, commit_index[k], epoch[k])
    <2>1. \A k \in Nodes : state[k] = "LEADER" => commit_index[k] = 1
      BY DEF ElectionInv, LeaderOwnsLog, OneIndex
    <2> QED
      BY <2>1 DEF ElectionInv, LeaderOwnsLog
  <1>2. \A k, i, e : LeadershipEntry(k, i, e).node = k
    BY DEF LeadershipEntry
  <1>3. log[1].node = m /\ log[1].node = n
    BY <1>1, <1>2
  <1> QED
    BY <1>3

\* A node that is LEADER holds the leadership entry of the log, and no two nodes
\* lead at a time, whatever the store loses, delays or reports wrongly.
THEOREM Leadership == Spec => [](LeaderOwnsLog /\ OneLeader)
  <1>1. ElectionInv => LeaderOwnsLog /\ OneLeader
    BY OneLeaderFromInv DEF ElectionInv
  <1> QED
    BY <1>1, ElectionInvariance, PTL

\* A node in LEADER has its claim in the log.
THEOREM LeadersOwn == Spec => []LeaderOwnsLog
  BY Leadership, PTL

\* parse_leader_state never meets an entry it cannot decode.
THEOREM Decodable == Spec => []EntriesDecodable
  <1>1. ElectionInv => EntriesDecodable
    BY DEF ElectionInv
  <1> QED
    BY <1>1, ElectionInvariance, PTL

\* Only a restart or a store error during a claim leaves the group with a
\* leadership entry and no leader.
THEOREM Orphans == Spec => []OrphanOnlyIfDisturbed
  <1>1. ElectionInv => OrphanOnlyIfDisturbed
    BY DEF ElectionInv
  <1> QED
    BY <1>1, ElectionInvariance, PTL

----------------------------------------------------------------------------
(* Replication *)

\* AcksNeverAhead, for one node.
AcksOf(n) ==
    /\ response[n].kind = "ReplicateResponse" =>
         response[n].apply_index = last_received[n]
    /\ \A k \in Acks(n) : responses[n][k].apply_index <= last_received[n]
    /\ \A j, k \in Acks(n) :
         j < k => responses[n][j].apply_index <= responses[n][k].apply_index

\* The acknowledgements of other nodes are not concerned.
LEMMA OtherAcks ==
    ASSUME AcksNeverAhead, NEW n \in Nodes, AcksOf(n)',
           \A m \in Nodes \ {n} :
               /\ response'[m] = response[m]
               /\ responses'[m] = responses[m]
               /\ last_received'[m] = last_received[m]
    PROVE  AcksNeverAhead'
  <1> SUFFICES ASSUME NEW m \in Nodes \ {n} PROVE AcksOf(m)'
    BY DEF AcksNeverAhead, AcksOf
  <1>1. AcksOf(m)
    BY DEF AcksNeverAhead, AcksOf
  <1> QED
    BY <1>1 DEF AcksOf, Acks

LEMMA ReplicateQueue ==
    ASSUME TypeOK, QueueIsPrefix, AcksNeverAhead, NEW n \in Nodes, FollowerReplicate(n)
    PROVE  QueueIsPrefix' /\ AcksNeverAhead'
  <1> DEFINE i == Head(requests[n]).commit_index
  <1>1. /\ response' = [response EXCEPT ![n] = [kind |-> "ReplicateResponse",
                                                apply_index |-> last_received'[n]]]
        /\ UNCHANGED responses
    BY DEF FollowerReplicate
  <1>2. PICK received \in {last_received[n], last_received[n] + 1} :
          /\ last_received' = [last_received EXCEPT ![n] = received]
          /\ queue' = IF received = last_received[n]
                        THEN queue
                        ELSE [queue EXCEPT ![n] = Append(queue[n], received)]
    <2>1. CASE Accepted(n, i)
      BY <2>1 DEF FollowerReplicate, Accepted, TypeOK, FollowerTypeOK
    <2>2. CASE ~Accepted(n, i)
      BY <2>2 DEF FollowerReplicate, TypeOK, FollowerTypeOK
    <2> QED
      BY <2>1, <2>2
  <1>3. QueueIsPrefix'
    BY <1>2 DEF TypeOK, FollowerTypeOK, QueueIsPrefix
  <1>4. response'[n].apply_index = last_received'[n] /\ responses'[n] = responses[n]
    BY <1>1 DEF TypeOK, FollowerTypeOK
  <1>5. \A k \in Acks(n) : responses[n][k].apply_index \in Nat
    <2>1. \A k \in DOMAIN responses[n] : responses[n][k] \in Response
      BY DEF TypeOK, FollowerTypeOK
    <2> QED
      BY <2>1 DEF Response, Acks
  <1>6. last_received[n] \in Nat /\ last_received'[n] = received
    BY <1>2 DEF TypeOK, FollowerTypeOK
  <1>7. AcksOf(n)'
    BY <1>2, <1>4, <1>5, <1>6 DEF AcksNeverAhead, AcksOf, Acks
  <1> QED
    BY <1>1, <1>2, <1>3, <1>7, OtherAcks DEF TypeOK, FollowerTypeOK

LEMMA RespondQueue ==
    ASSUME TypeOK, QueueIsPrefix, AcksNeverAhead, NEW n \in Nodes, FollowerRespond(n)
    PROVE  QueueIsPrefix' /\ AcksNeverAhead'
  <1>1. /\ responses' = [responses EXCEPT ![n] = Append(responses[n], response[n])]
        /\ response' = [response EXCEPT ![n] = NoResponse]
        /\ UNCHANGED <<last_received, queue>>
    BY DEF FollowerRespond
  <1>2. QueueIsPrefix'
    BY <1>1 DEF QueueIsPrefix
  <1>3. /\ responses[n] \in Seq(Response) /\ last_received[n] \in Nat
        /\ responses'[n] = Append(responses[n], response[n])
        /\ response'[n].kind # "ReplicateResponse"
        /\ last_received'[n] = last_received[n]
    BY <1>1 DEF TypeOK, FollowerTypeOK, NoResponse
  <1>4. AcksOf(n)
    BY DEF AcksNeverAhead, AcksOf
  <1>5. /\ \A k \in Acks(n)' : \/ k \in Acks(n) /\ responses'[n][k] = responses[n][k]
                               \/ /\ k = Len(responses[n]) + 1
                                  /\ responses'[n][k].apply_index = last_received[n]
        /\ \A k \in Acks(n) : k \in 1 .. Len(responses[n])
    BY <1>3, <1>4 DEF Acks, AcksOf
  <1>6. Len(responses[n]) \in Nat
    BY <1>3
  <1>7. AcksOf(n)'
    BY <1>3, <1>4, <1>5, <1>6 DEF AcksOf
  <1> QED
    BY <1>1, <1>2, <1>7, OtherAcks DEF TypeOK, FollowerTypeOK

LEMMA DrainQueue ==
    ASSUME TypeOK, QueueIsPrefix, AcksNeverAhead, NEW n \in Nodes, DrainResponse(n)
    PROVE  QueueIsPrefix' /\ AcksNeverAhead'
  <1>1. /\ responses[n] # <<>>
        /\ responses' = [responses EXCEPT ![n] = Tail(responses[n])]
        /\ UNCHANGED <<response, last_received, queue>>
    BY DEF DrainResponse
  <1>2. QueueIsPrefix'
    BY <1>1 DEF QueueIsPrefix
  <1>3. responses[n] \in Seq(Response) /\ responses'[n] = Tail(responses[n])
    BY <1>1 DEF TypeOK, FollowerTypeOK
  <1>4. /\ DOMAIN responses'[n] \subseteq Nat
        /\ \A k \in DOMAIN responses'[n] : /\ k + 1 \in DOMAIN responses[n]
                                           /\ responses'[n][k] = responses[n][k + 1]
    <2>1. \A seq \in Seq(Response) :
            seq # <<>> => /\ DOMAIN Tail(seq) = 1 .. Len(seq) - 1
                          /\ \A k \in 1 .. Len(seq) - 1 : Tail(seq)[k] = seq[k + 1]
      OBVIOUS
    <2>2. DOMAIN responses[n] = 1 .. Len(responses[n]) /\ Len(responses[n]) \in Nat
      BY <1>3
    <2>3. /\ DOMAIN responses'[n] = 1 .. Len(responses[n]) - 1
          /\ \A k \in 1 .. Len(responses[n]) - 1 :
               responses'[n][k] = responses[n][k + 1]
      BY <1>1, <1>3, <2>1
    <2> QED
      BY <2>2, <2>3
  <1>5. \A k \in Acks(n)' : /\ k \in Nat /\ k + 1 \in Acks(n)
                            /\ responses'[n][k] = responses[n][k + 1]
    <2> SUFFICES ASSUME NEW k \in Acks(n)'
                 PROVE  /\ k \in Nat /\ k + 1 \in Acks(n)
                        /\ responses'[n][k] = responses[n][k + 1]
      OBVIOUS
    <2>1. k \in DOMAIN responses'[n] /\ responses'[n][k].kind = "ReplicateResponse"
      BY DEF Acks
    <2>2. k + 1 \in DOMAIN responses[n] /\ responses'[n][k] = responses[n][k + 1]
      BY <1>4, <2>1
    <2>3. k \in Nat
      BY <1>4, <2>1
    <2> QED
      BY <2>1, <2>2, <2>3 DEF Acks
  <1>6. AcksOf(n)
    BY DEF AcksNeverAhead, AcksOf
  <1>7. AcksOf(n)'
    <2>1. \A j, k \in Acks(n)' : j < k => j + 1 < k + 1
      BY <1>5
    <2> QED
      BY <1>1, <1>5, <1>6, <2>1 DEF AcksOf
  <1> QED
    BY <1>1, <1>2, <1>7, OtherAcks DEF TypeOK, FollowerTypeOK

LEMMA ResetQueue ==
    ASSUME TypeOK, QueueIsPrefix, AcksNeverAhead, NEW n \in Nodes,
           FollowerRefuse(n) \/ Restart(n)
    PROVE  QueueIsPrefix' /\ AcksNeverAhead'
  <1>1. CASE FollowerRefuse(n)
    BY <1>1 DEF FollowerRefuse, TypeOK, FollowerTypeOK, QueueIsPrefix, AcksNeverAhead, Acks
  <1>2. CASE Restart(n)
    <2>1. /\ queue' = [queue EXCEPT ![n] = <<>>]
          /\ last_received' = [last_received EXCEPT ![n] = 0]
          /\ response' = [response EXCEPT ![n] = NoResponse]
          /\ responses' = [responses EXCEPT ![n] = <<>>]
      BY <1>2 DEF Restart
    <2>2. QueueIsPrefix'
      BY <2>1 DEF TypeOK, FollowerTypeOK, QueueIsPrefix
    <2>3. AcksOf(n)'
      BY <2>1 DEF TypeOK, FollowerTypeOK, NoResponse, AcksOf, Acks
    <2> QED
      BY <2>1, <2>2, <2>3, OtherAcks DEF TypeOK, FollowerTypeOK
  <1> QED
    BY <1>1, <1>2

\* The queue is a prefix of the leader's log and the acknowledgements never run
\* ahead of it, however requests are reordered and repeated and whenever the
\* follower changes its state.
THEOREM Replication == Spec => [](QueueIsPrefix /\ AcksNeverAhead)
  <1> DEFINE Inv == QueueIsPrefix /\ AcksNeverAhead
  <1>1. Init => Inv
    BY DEF Init, QueueIsPrefix, AcksNeverAhead, Acks, NoResponse
  <1>2. TypeOK /\ Inv /\ [Next]_vars => Inv'
    <2> SUFFICES ASSUME TypeOK, Inv, [Next]_vars PROVE Inv'
      OBVIOUS
    <2>1. CASE UNCHANGED <<queue, last_received, response, responses>>
      BY <2>1 DEF QueueIsPrefix, AcksNeverAhead, Acks
    <2>2. ASSUME NEW n \in Nodes,
                 \/ FollowerReplicate(n) \/ FollowerRespond(n) \/ DrainResponse(n)
                 \/ FollowerRefuse(n) \/ Restart(n)
          PROVE  Inv'
      BY <2>2, ReplicateQueue, RespondQueue, DrainQueue, ResetQueue
    <2>3. ASSUME NEW n \in Nodes,
                 \/ JoinStore(n) \/ JoinClient(n) \/ LeaderLoop(n)
                 \/ FollowerTimeout(n) \/ FollowerIgnore(n)
                 \/ Receive(n) \/ Submit(n) \/ CloseRequests(n)
          PROVE  UNCHANGED <<queue, last_received, response, responses>>
      BY <2>3 DEF JoinStore, JoinClient, LeaderLoop, DiscoverLeader, DiscoverNothing,
         DiscoverBroken, ClaimWon, ClaimLost, ClaimRetried, ClaimFailed, Connect,
         SendFollow, FollowAnswered, FollowFailed, LeaderReceive, LeaderTick,
         LeaderClosed, FlushDone, FlushFailed, FollowerTimeout, FollowerIgnore, Receive,
         Submit, CloseRequests, loopVars, followerVars
    <2>4. CASE DeliverFollow \/ Land \/ UNCHANGED vars
      BY <2>1, <2>4 DEF DeliverFollow, Land, vars, loopVars, followerVars
    <2> QED
      BY <2>1, <2>2, <2>3, <2>4 DEF Next, FollowerLoop
  <1> QED
    BY <1>1, <1>2, TypeCorrect, PTL DEF Spec

\* No follower acknowledges an index it has not received, and the responses it
\* has handed out ascend: the second half of Replication, by itself.
THEOREM Acknowledgement == Spec => []AcksNeverAhead
  BY Replication, PTL

----------------------------------------------------------------------------
(* Refinement of the one-shot election *)

\* A step that neither makes nor unmakes a leader, and leaves the log alone, is
\* a stuttering step of the election.
LEMMA ElectionStutter ==
    ASSUME TypeOK, NEW n \in Nodes, NEW s, s # "LEADER", UNCHANGED log,
           \/ UNCHANGED state
           \/ state[n] # "LEADER" /\ state' = [state EXCEPT ![n] = s]
    PROVE  UNCHANGED Election!vars
  <1>1. \A m \in Nodes : state'[m] = "LEADER" <=> state[m] = "LEADER"
    BY DEF TypeOK, NodeTypeOK
  <1>2. {m \in Nodes : state'[m] = "LEADER"} = {m \in Nodes : state[m] = "LEADER"}
    BY <1>1
  <1> QED
    BY <1>2 DEF Election!vars

\* A won claim is the abstract claim of a node that leads from then on.
LEMMA ClaimWonRefines ==
    ASSUME TypeOK, ElectionInv, NEW n \in Nodes, ClaimWon(n)
    PROVE  Election!Claim(n)
  <1>1. /\ 1 \notin DOMAIN log
        /\ log' = Create(log, 1, LeadershipEntry(n, 1, 1))
        /\ state' = [state EXCEPT ![n] = "LEADER"]
    BY FirstClaim DEF ClaimWon, At, AlreadyExists, Become, ElectionInv
  <1>2. DOMAIN log = {} /\ DOMAIN log' = {1} /\ log'[1] = LeadershipEntry(n, 1, 1)
    BY <1>1, FirstPut DEF ElectionInv
  <1>3. \A m \in Nodes : state'[m] = "LEADER" <=> m = n
    BY <1>1, <1>2 DEF TypeOK, NodeTypeOK, ElectionInv, LeaderOwnsLog
  <1>4. {m \in Nodes : state'[m] = "LEADER"} = {n}
    BY <1>3
  <1>5. log'[1].node = n
    BY <1>2 DEF LeadershipEntry
  <1> QED
    BY <1>2, <1>4, <1>5 DEF Election!Claim

\* A late put is the abstract claim of a node that does not lead, or nothing.
LEMMA LandRefines ==
    ASSUME TypeOK, ElectionInv, Land
    PROVE  Election!Next \/ UNCHANGED Election!vars
  <1>1. PICK put \in delayed :
          log' = Create(log, put.index, put.entry) /\ UNCHANGED state
    BY DEF Land, nodeVars
  <1>2. put.index = 1 /\ put.entry \in Entry
    BY DEF TypeOK, WorldTypeOK, ElectionInv, PutsHarmless
  <1>3. CASE 1 \in DOMAIN log
    <2>1. UNCHANGED log
      BY <1>1, <1>2, <1>3, CreateEffect
    <2> QED
      BY <1>1, <2>1 DEF Election!vars
  <1>4. CASE 1 \notin DOMAIN log
    <2>1. DOMAIN log = {} /\ DOMAIN log' = {1} /\ log'[1] = put.entry
      BY <1>1, <1>2, <1>4, FirstPut DEF ElectionInv
    <2>2. {m \in Nodes : state'[m] = "LEADER"} = {}
      BY <1>1, <2>1 DEF ElectionInv, LeaderOwnsLog
    <2>3. put.entry.node \in Nodes
      BY <1>2 DEF Entry
    <2>4. Election!Claim(put.entry.node)
      BY <2>1, <2>2 DEF Election!Claim
    <2> QED
      BY <2>3, <2>4 DEF Election!Next
  <1> QED
    BY <1>3, <1>4

\* A restart of the leader is the abstract step down.
LEMMA RestartRefines ==
    ASSUME TypeOK, NEW n \in Nodes, Restart(n)
    PROVE  Election!Next \/ UNCHANGED Election!vars
  <1>1. state' = [state EXCEPT ![n] = "NOT_JOINED"] /\ UNCHANGED log
    BY DEF Restart, Become
  <1>2. CASE state[n] # "LEADER"
    BY <1>1, <1>2, ElectionStutter
  <1>3. CASE state[n] = "LEADER"
    <2>1. \A m \in Nodes : state'[m] = "LEADER" <=> state[m] = "LEADER" /\ m # n
      BY <1>1 DEF TypeOK, NodeTypeOK
    <2>2. {m \in Nodes : state'[m] = "LEADER"} = {m \in Nodes : state[m] = "LEADER"} \ {n}
      BY <2>1
    <2>3. Election!StepDown(n)
      BY <1>1, <1>3, <2>2 DEF Election!StepDown
    <2> QED
      BY <2>3 DEF Election!Next
  <1> QED
    BY <1>2, <1>3

\* Every other step leaves the log and the leaders as they are.
LEMMA QuietRefines ==
    ASSUME TypeOK, ElectionInv, NEW n \in Nodes,
           \/ DiscoverLeader(n) \/ DiscoverNothing(n) \/ DiscoverBroken(n)
           \/ ClaimLost(n) \/ ClaimRetried(n) \/ ClaimFailed(n)
           \/ JoinClient(n) \/ FollowerLoop(n) \/ LeaderLoop(n)
           \/ Receive(n) \/ Submit(n) \/ DrainResponse(n) \/ CloseRequests(n)
    PROVE  UNCHANGED Election!vars
  <1>1. UNCHANGED log
    <2>1. CASE FlushDone(n)
      <3>1. FlushIndex(n) \in DOMAIN log /\ log' = Create(log, FlushIndex(n), BatchEntry(n))
        BY <2>1 DEF FlushDone, At, FlushIndex, ElectionInv, LeaderOwnsLog
      <3> QED
        BY <3>1, CreateEffect
    <2>2. CASE ~FlushDone(n)
      BY <2>2 DEF DiscoverLeader, DiscoverNothing, DiscoverBroken, ClaimLost,
         ClaimRetried, ClaimFailed, JoinClient, Connect, SendFollow, FollowAnswered,
         FollowFailed, FollowerLoop, FollowerTimeout, FollowerReplicate, FollowerRefuse,
         FollowerIgnore, FollowerRespond, LeaderLoop, LeaderReceive, LeaderTick,
         LeaderClosed, FlushFailed, Receive, Submit, DrainResponse, CloseRequests,
         worldVars, storeVars
    <2> QED
      BY <2>1, <2>2
  <1>2. \/ UNCHANGED state
        \/ state[n] # "LEADER" /\ state' = [state EXCEPT ![n] = "FOLLOWER"]
        \/ state[n] # "LEADER" /\ state' = [state EXCEPT ![n] = "NOT_JOINED"]
        \/ state[n] # "LEADER" /\ state' = [state EXCEPT ![n] = "STOPPED"]
    BY DEF DiscoverLeader, DiscoverNothing, DiscoverBroken, ClaimLost, ClaimRetried,
       ClaimFailed, JoinClient, Connect, SendFollow, FollowAnswered, FollowFailed,
       FollowerLoop, FollowerTimeout, FollowerReplicate, FollowerRefuse, FollowerIgnore,
       FollowerRespond, LeaderLoop, LeaderReceive, LeaderTick, LeaderClosed, FlushDone,
       FlushFailed, Receive, Submit, DrainResponse, CloseRequests, nodeVars, At, Become
  <1> QED
    BY <1>1, <1>2, ElectionStutter

\* The state machine implements the one-shot election: leadership is claimed
\* once, a node leads only from the step in which its claim is recorded, and one
\* that stopped leading, or never learned of its claim, never leads again.
THEOREM Refinement == Spec => ElectionSpec
  <1>1. Init => Election!Init
    BY DEF Init, Election!Init, EmptyStore
  <1>2. TypeOK /\ ElectionInv /\ [Next]_vars => [Election!Next]_(Election!vars)
    <2> SUFFICES ASSUME TypeOK, ElectionInv, [Next]_vars
                 PROVE  Election!Next \/ UNCHANGED Election!vars
      OBVIOUS
    <2>1. CASE DeliverFollow \/ UNCHANGED vars
      BY <2>1 DEF DeliverFollow, vars, nodeVars, worldVars, storeVars, Election!vars
    <2>2. CASE Land
      BY <2>2, LandRefines
    <2>3. ASSUME NEW n \in Nodes, ClaimWon(n)
          PROVE  Election!Next
      BY <2>3, ClaimWonRefines DEF Election!Next
    <2>4. ASSUME NEW n \in Nodes, Restart(n)
          PROVE  Election!Next \/ UNCHANGED Election!vars
      BY <2>4, RestartRefines
    <2>5. ASSUME NEW n \in Nodes,
                 \/ JoinStore(n) /\ ~ClaimWon(n)
                 \/ JoinClient(n) \/ FollowerLoop(n) \/ LeaderLoop(n)
                 \/ Receive(n) \/ Submit(n) \/ DrainResponse(n) \/ CloseRequests(n)
          PROVE  UNCHANGED Election!vars
      BY <2>5, QuietRefines DEF JoinStore
    <2> QED
      BY <2>1, <2>2, <2>3, <2>4, <2>5 DEF Next
  <1> QED
    BY <1>1, <1>2, TypeCorrect, ElectionInvariance, PTL DEF Spec, ElectionSpec, Election!Spec
============================================================================
