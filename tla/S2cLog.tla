------------------------------- MODULE S2cLog -------------------------------
(***************************************************************************)
(* The log of src/src/log.rs on the keys of src/src/paths.rs: callers (one *)
(* node or many, which share the bucket) run append, get_head and get_at   *)
(* at the same time, each a retry loop around requests to the store.       *)
(*                                                                         *)
(* One action is one request to the store together with what its result    *)
(* makes the loop do.  The store answers a request correctly, or with an   *)
(* error, after which a put may still be applied.  Errors are not counted: *)
(* the store may fail for ever.  Error kinds are those the code tells      *)
(* apart: "transient" (Generic, and is_transient holds), "generic"         *)
(* (Generic, and it does not) and "other".  Keys are file names, all of    *)
(* twenty digits: their order is that of the numbers, but whether a store  *)
(* lists in that order is up to the store, and get_head does not sort.     *)
(***************************************************************************)
EXTENDS Integers, ObjectStore

CONSTANTS
    Callers,      \* the tasks that use the log
    MaxU64,       \* u64::MAX
    MaxIndex,     \* bound: indexes 1..MaxIndex are appended and read
    MaxAttempts,  \* S2cRetryOptions::max_attempts, when it is Some
    MaxCalls,     \* bound: calls made by all callers together
    FaultKinds    \* the errors that the store may answer with

ASSUME S2cLogAssumption ==
    /\ MaxIndex \in Nat /\ MaxAttempts \in Nat /\ MaxCalls \in Nat
    /\ MaxU64 \in Nat /\ MaxIndex <= MaxU64
    /\ FaultKinds \subseteq {"transient", "generic", "other"}

VARIABLES
    sorted,   \* the store lists keys in their order (chosen by Init, for good)
    limited,  \* S2cRetryOptions::max_attempts is not None (likewise)
    store,    \* the bucket, under the group's log prefix: key -> payload
    delayed,  \* puts reported as failed that the store may yet apply
    call,     \* the method each caller is in, or "idle"
    index,    \* its argument
    payload,  \* the payload of an append, unlike that of any other call
    attempt,  \* BackoffCounter.current_attempt
    got,      \* get_at is past the get, reading the body
    calls,    \* the calls made so far
    head,     \* the last index that get_head has returned to the caller
    acked,    \* history: index -> payload of the appends that returned Ok
    round,    \* turned over by every round after an error: a round that changes
              \* nothing else takes place all the same
    erred,    \* history: the call has met an error
    known,    \* history: the indexes stored (get_head) or acknowledged (get_at)
              \* when the call was made
    last      \* history: the last call of each caller and its result

callVars == <<call, index, payload, attempt, got, calls, round, erred, known>>
resultVars == <<head, acked, last>>
settings == <<sorted, limited>>
vars == <<settings, store, delayed, callVars, resultVars>>

----------------------------------------------------------------------------
(* KeysResolver *)

\* Indexes written as they are: the first key listed is the oldest entry.
InvertNot(i) == i

Invert(i) == MaxU64 - i

\* get_at forgets to invert its argument.
ReadKeyPlain(i) == i

ReadKey(i) == Invert(i)

Indexes == 1..MaxIndex

\* The indexes that have an entry.
Stored == {i \in Indexes : Invert(i) \in DOMAIN store}

----------------------------------------------------------------------------
(* Calls and returns *)

NoCall == [call |-> "none", index |-> 0, result |-> "none", payload |-> 0,
           erred |-> FALSE, known |-> {}]

\* The entries of earlier runs are in the bucket, under the first indexes.
Init ==
    /\ sorted \in BOOLEAN /\ limited \in BOOLEAN
    /\ \E n \in 0..MaxIndex : store = [k \in {Invert(i) : i \in 1..n} |-> 0]
    /\ delayed = {}
    /\ call = [p \in Callers |-> "idle"]
    /\ index = [p \in Callers |-> 0]
    /\ payload = [p \in Callers |-> 0]
    /\ attempt = [p \in Callers |-> 0]
    /\ got = [p \in Callers |-> FALSE]
    /\ calls = 0
    /\ head = [p \in Callers |-> 0]
    /\ acked = EmptyStore
    /\ round = [p \in Callers |-> FALSE]
    /\ erred = [p \in Callers |-> FALSE]
    /\ known = [p \in Callers |-> {}]
    /\ last = [p \in Callers |-> NoCall]

\* p calls a method, which starts with a new BackoffCounter.
Call(p, method, i, indexes) ==
    /\ call[p] = "idle"
    /\ calls < MaxCalls
    /\ calls' = calls + 1
    /\ call' = [call EXCEPT ![p] = method]
    /\ index' = [index EXCEPT ![p] = i]
    /\ payload' = [payload EXCEPT ![p] = calls + 1]
    /\ attempt' = [attempt EXCEPT ![p] = 0]
    /\ got' = [got EXCEPT ![p] = FALSE]
    /\ round' = [round EXCEPT ![p] = FALSE]
    /\ erred' = [erred EXCEPT ![p] = FALSE]
    /\ known' = [known EXCEPT ![p] = indexes]
    /\ UNCHANGED <<settings, store, delayed, resultVars>>

CallAppend(p) == \E i \in Indexes : Call(p, "append", i, {})

CallGetHead(p) == Call(p, "get_head", 0, Stored)

\* The argument is any index, or what get_head returned, as in
\* discover_leader_state.
CallGetAt(p) ==
    \E i \in Indexes \cup ({head[p]} \ {0}) :
        Call(p, "get_at", i, DOMAIN acked)

\* The method returns: result is Ok, None or the kind of error, value the index
\* or the payload that Ok carries.  Its variables are gone.
Return(p, result, value) ==
    /\ last' = [last EXCEPT ![p] = [call |-> call[p], index |-> index[p],
                                    result |-> result, payload |-> value,
                                    erred |-> erred[p], known |-> known[p]]]
    /\ call' = [call EXCEPT ![p] = "idle"]
    /\ attempt' = [attempt EXCEPT ![p] = 0]
    /\ got' = [got EXCEPT ![p] = FALSE]
    /\ round' = [round EXCEPT ![p] = FALSE]
    /\ UNCHANGED <<index, payload, calls, erred, known>>

----------------------------------------------------------------------------
(* BackoffCounter *)

\* The attempt under way is not counted in.
CanAttemptOneMore(p) == limited => attempt[p] <= MaxAttempts

CanAttempt(p) == limited => attempt[p] + 1 <= MaxAttempts

\* The counter is too narrow and wraps.
AwaitWraps(p) == attempt' = [attempt EXCEPT ![p] = (@ + 1) % 2]

\* Without a limit nothing looks at the count, and it is not kept.
AwaitAttempt(p) == attempt' = [attempt EXCEPT ![p] = IF limited THEN @ + 1 ELSE @]

\* Another round of the loop after an error.
Again(p) ==
    /\ round' = [round EXCEPT ![p] = ~@]
    /\ erred' = [erred EXCEPT ![p] = TRUE]
    /\ got' = [got EXCEPT ![p] = FALSE]
    /\ UNCHANGED <<call, index, payload, calls, known, resultVars>>

Retry(p) == CanAttempt(p) /\ AwaitAttempt(p) /\ Again(p)

\* Without an attempt left the loop goes on.
GiveUpNot(p) == ~CanAttempt(p) /\ Again(p) /\ UNCHANGED attempt

GiveUp(p) == ~CanAttempt(p) /\ Return(p, "transient", 0) /\ UNCHANGED <<head, acked>>

----------------------------------------------------------------------------
(* append *)

\* The put takes place whether or not the key is taken.
PutOkAnyway(p) ==
    /\ call[p] = "append"
    /\ store' = Overwrite(store, Invert(index[p]), payload[p])
    /\ acked' = Create(acked, index[p], payload[p])
    /\ Return(p, "Ok", payload[p])
    /\ UNCHANGED <<delayed, head>>

\* The success arm does not leave the loop.
PutOkRetried(p) ==
    /\ call[p] = "append"
    /\ Invert(index[p]) \notin DOMAIN store
    /\ store' = Create(store, Invert(index[p]), payload[p])
    /\ UNCHANGED <<delayed, callVars, resultVars>>

\* The answer to the put is Ok.
PutOk(p) ==
    /\ call[p] = "append"
    /\ Invert(index[p]) \notin DOMAIN store
    /\ store' = Create(store, Invert(index[p]), payload[p])
    /\ acked' = Create(acked, index[p], payload[p])
    /\ Return(p, "Ok", payload[p])
    /\ UNCHANGED <<delayed, head>>

PutExists(p) ==
    /\ call[p] = "append"
    /\ Invert(index[p]) \in DOMAIN store
    /\ Return(p, "AlreadyExists", store[Invert(index[p])])
    /\ UNCHANGED <<store, delayed, head, acked>>

\* An error, after which the put may or may not be applied: a transient one
\* costs an attempt, a Generic one that is not transient is tried again at once
\* and any number of times, and any other is returned.
PutFails(p) ==
    /\ call[p] = "append"
    /\ delayed' \in {delayed, delayed \cup {<<Invert(index[p]), payload[p]>>}}
    /\ \/ "transient" \in FaultKinds /\ (Retry(p) \/ GiveUp(p))
       \/ "generic" \in FaultKinds /\ Again(p) /\ UNCHANGED attempt
       \/ "other" \in FaultKinds /\ Return(p, "other", 0) /\ UNCHANGED <<head, acked>>
    /\ UNCHANGED store

\* The store applies a put that was reported as failed.
Land ==
    \E put \in delayed :
        /\ store' = Create(store, put[1], put[2])
        /\ delayed' = delayed \ {put}
        /\ UNCHANGED <<settings, callVars, resultVars>>

----------------------------------------------------------------------------
(* get_head *)

\* The first key of the listing, which is any key if the store does not sort, is
\* returned as it is, not inverted back.
ListItem(p) ==
    /\ call[p] = "get_head"
    /\ \E k \in DOMAIN store :
        /\ sorted => \A j \in DOMAIN store : k <= j
        /\ head' = [head EXCEPT ![p] = k]
        /\ Return(p, "Ok", k)
    /\ UNCHANGED <<store, delayed, acked>>

\* The stream ends: nothing is stored, or an error has ended it.
ListEnd(p) ==
    /\ call[p] = "get_head"
    /\ store = EmptyStore \/ erred[p]
    /\ Return(p, "None", 0)
    /\ UNCHANGED <<store, delayed, head, acked>>

\* A transient error is never returned: without an attempt left the loop goes
\* on to the next item at once.
ListFails(p) ==
    /\ call[p] = "get_head"
    /\ \/ "transient" \in FaultKinds /\ Retry(p)
       \/ "transient" \in FaultKinds /\ ~CanAttempt(p) /\ Again(p) /\ UNCHANGED attempt
       \/ /\ FaultKinds \cap {"generic", "other"} # {}
          /\ Return(p, "other", 0)
          /\ UNCHANGED <<head, acked>>
    /\ UNCHANGED <<store, delayed>>

----------------------------------------------------------------------------
(* get_at *)

\* The get succeeds, and the backoff starts anew before the body is read.
GetOk(p) ==
    /\ call[p] = "get_at" /\ ~got[p]
    /\ ReadKey(index[p]) \in DOMAIN store
    /\ got' = [got EXCEPT ![p] = TRUE]
    /\ attempt' = [attempt EXCEPT ![p] = 0]
    /\ UNCHANGED <<store, delayed, call, index, payload, calls, round, erred, known,
                   resultVars>>

GetNotFound(p) ==
    /\ call[p] = "get_at" /\ ~got[p]
    /\ ReadKey(index[p]) \notin DOMAIN store
    /\ Return(p, "NotFound", 0)
    /\ UNCHANGED <<store, delayed, head, acked>>

BytesOk(p) ==
    /\ call[p] = "get_at" /\ got[p]
    /\ Return(p, "Ok", store[ReadKey(index[p])])
    /\ UNCHANGED <<store, delayed, head, acked>>

\* The get or the reading of the body fails.
GetFails(p) ==
    /\ call[p] = "get_at"
    /\ \/ "transient" \in FaultKinds /\ (Retry(p) \/ GiveUp(p))
       \/ /\ FaultKinds \cap {"generic", "other"} # {}
          /\ Return(p, "other", 0)
          /\ UNCHANGED <<head, acked>>
    /\ UNCHANGED <<store, delayed>>

----------------------------------------------------------------------------

\* The requests of the call p is in.
Step(p) ==
    /\ \/ PutOk(p) \/ PutExists(p) \/ PutFails(p)
       \/ ListItem(p) \/ ListEnd(p) \/ ListFails(p)
       \/ GetOk(p) \/ GetNotFound(p) \/ BytesOk(p) \/ GetFails(p)
    /\ UNCHANGED settings

Next ==
    \/ \E p \in Callers : CallAppend(p) \/ CallGetHead(p) \/ CallGetAt(p) \/ Step(p)
    \/ Land

Spec == Init /\ [][Next]_vars

\* The store answers every request, in one way or another.
FairSpec == Spec /\ \A p \in Callers : WF_vars(Step(p))

----------------------------------------------------------------------------
(* Properties *)

Payload == 0..MaxCalls

Outcome ==
    [call : {"none", "append", "get_head", "get_at"}, index : Nat,
     result : {"none", "Ok", "None", "AlreadyExists", "NotFound", "transient", "other"},
     payload : Nat, erred : BOOLEAN, known : SUBSET Indexes]

Keys == {Invert(i) : i \in Indexes}

SettingsTypeOK == sorted \in BOOLEAN /\ limited \in BOOLEAN

StoreTypeOK ==
    /\ DOMAIN store \subseteq Keys
    /\ \A k \in DOMAIN store : store[k] \in Payload
    /\ delayed \subseteq Keys \X Payload

CallTypeOK ==
    /\ call \in [Callers -> {"idle", "append", "get_head", "get_at"}]
    /\ index \in [Callers -> 0..MaxU64]
    /\ \A p \in Callers : call[p] = "append" => index[p] \in Indexes
    /\ payload \in [Callers -> Payload]
    /\ attempt \in [Callers -> 0..MaxAttempts]
    /\ got \in [Callers -> BOOLEAN]
    /\ calls \in 0..MaxCalls
    /\ round \in [Callers -> BOOLEAN]
    /\ erred \in [Callers -> BOOLEAN]
    /\ known \in [Callers -> SUBSET Indexes]

ResultTypeOK ==
    /\ head \in [Callers -> 0..MaxU64]
    /\ DOMAIN acked \subseteq Indexes
    /\ \A i \in DOMAIN acked : acked[i] \in Payload
    /\ last \in [Callers -> Outcome]

Types == StoreTypeOK /\ CallTypeOK /\ ResultTypeOK

BodyExists ==
    \A p \in Callers :
        call[p] = "get_at" /\ got[p] => ReadKey(index[p]) \in DOMAIN store

\* Every variable has its type, keys are inverted indexes, no call has made more
\* attempts than it may, and a body that is being read is there.
TypeOK == SettingsTypeOK /\ Types /\ BodyExists

\* An append that returned Ok is the entry of its index: two appends of one
\* index, of whichever callers, never both succeed.
AckedStored ==
    \A i \in DOMAIN acked :
        Invert(i) \in DOMAIN store /\ store[Invert(i)] = acked[i]

\* An append refused because of its own, earlier, put has met an error: without
\* errors AlreadyExists always means that another append was first.
OwnRefusalNeedsError ==
    \A p \in Callers :
        call[p] = "append" /\ Invert(index[p]) \in DOMAIN store
            /\ store[Invert(index[p])] = payload[p] => erred[p]

\* What get_head lists is the key of an entry, in a store that sorts of one no
\* older than any there was at the call (elsewhere it may be older), and None
\* without an error means there was none: entries never go away in between.
HeadNotStale ==
    \A p \in Callers : last[p].call = "get_head" =>
        /\ last[p].result = "Ok" =>
             \E i \in Indexes : /\ Invert(i) = last[p].payload
                                /\ sorted => \A j \in last[p].known : j <= i
        /\ last[p].result = "None" /\ ~last[p].erred => last[p].known = {}

\* get_at finds every entry that was acknowledged before it was called, and
\* what it returns is what append was given.
AckedReadable ==
    \A p \in Callers : last[p].call = "get_at" /\ last[p].index \in last[p].known =>
        /\ last[p].result # "NotFound"
        /\ last[p].result = "Ok" => last[p].payload = acked[last[p].index]

\* A round that no limit counts: of append after a Generic error that is not
\* transient, of get_at with the attempts counted anew after the get, and any
\* round when there is no limit.
AppendUncounted(p) ==
    /\ call[p] = "append" /\ call'[p] = "append"
    /\ round'[p] # round[p] /\ attempt'[p] = attempt[p]

GetAtUncounted(p) ==
    /\ call[p] = "get_at" /\ call'[p] = "get_at"
    /\ round'[p] # round[p] /\ (got[p] \/ ~limited)

\* An append comes to an end even if the store answers with transient errors for
\* ever, since the attempts are bounded.  What can keep it is round after round
\* that no limit counts.
AppendReturns ==
    \A p \in Callers :
        (call[p] = "append" ~> call[p] = "idle") \/ []<><<AppendUncounted(p)>>_round

\* So does get_at, unless the body of the entry gets lost again and again after
\* the backoff was reset, or there is no limit.
GetAtReturns ==
    \A p \in Callers :
        (call[p] = "get_at" ~> call[p] = "idle") \/ []<><<GetAtUncounted(p)>>_round

\* What get_head returns is an index ("Not a valid index" is what its expect
\* would complain of): get_at finds the entry it names.
HeadReadable ==
    \A p \in Callers :
        last[p].call = "get_at" /\ last[p].index = head[p] => last[p].result # "NotFound"
============================================================================
