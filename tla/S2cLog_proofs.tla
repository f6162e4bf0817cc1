--------------------------- MODULE S2cLog_proofs ---------------------------
(***************************************************************************)
(* Proofs about S2cLog, for any number of callers, calls and attempts.     *)
(***************************************************************************)
EXTENDS S2cLog, TLAPS

\* A create-only put keeps every object there was.
LEMMA CreateKeeps ==
    ASSUME NEW objects, NEW key, NEW object
    PROVE  \A k \in DOMAIN objects : /\ k \in DOMAIN Create(objects, key, object)
                                     /\ Create(objects, key, object)[k] = objects[k]
  BY DEF Create, Overwrite

\* It adds its own key, with its own object if the key was free.
LEMMA CreateAdds ==
    ASSUME NEW objects, NEW key, NEW object
    PROVE  /\ DOMAIN Create(objects, key, object) = DOMAIN objects \cup {key}
           /\ key \notin DOMAIN objects => Create(objects, key, object)[key] = object
  BY DEF Create, Overwrite

\* Keys are natural numbers, and different indexes have different keys.
LEMMA InvertFacts ==
    /\ \A i \in Indexes : Invert(i) \in Keys /\ Invert(i) \in 0..MaxU64
    /\ \A i, j \in Indexes : Invert(i) = Invert(j) => i = j
    /\ \A i, j \in Indexes : Invert(i) <= Invert(j) => j <= i
  BY S2cLogAssumption DEF Invert, Keys, Indexes

----------------------------------------------------------------------------
(* Types *)

LEMMA InitType == Init => Types
  <1> SUFFICES ASSUME Init PROVE Types
    OBVIOUS
  <1>1. PICK n \in 0..MaxIndex : store = [k \in {Invert(i) : i \in 1..n} |-> 0]
    BY DEF Init
  <1>2. {Invert(i) : i \in 1..n} \subseteq Keys /\ 0 \in Payload
    BY S2cLogAssumption DEF Keys, Indexes, Payload
  <1>3. StoreTypeOK
    BY <1>1, <1>2 DEF Init, StoreTypeOK
  <1> QED
    BY <1>3, S2cLogAssumption DEF Init, Types, CallTypeOK, ResultTypeOK, EmptyStore,
       Payload, Outcome, NoCall, Indexes

\* The methods' calls.
LEMMA CallType ==
    ASSUME TypeOK, NEW p \in Callers, CallAppend(p) \/ CallGetHead(p) \/ CallGetAt(p)
    PROVE  Types'
  <1>1. PICK method \in {"append", "get_head", "get_at"}, i \in 0..MaxU64,
             indexes \in SUBSET Indexes :
          Call(p, method, i, indexes) /\ (method = "append" => i \in Indexes)
    <2>1. CASE CallAppend(p)
      BY <2>1, S2cLogAssumption DEF CallAppend, Indexes
    <2>2. CASE CallGetHead(p)
      BY <2>2, S2cLogAssumption DEF CallGetHead, Stored
    <2>3. CASE CallGetAt(p)
      BY <2>3, S2cLogAssumption DEF CallGetAt, TypeOK, Types, ResultTypeOK, Indexes
    <2> QED
      BY <2>1, <2>2, <2>3
  <1>2. CallTypeOK'
    BY <1>1, S2cLogAssumption DEF Call, TypeOK, Types, CallTypeOK, Payload
  <1>3. StoreTypeOK' /\ ResultTypeOK'
    BY <1>1 DEF Call, TypeOK, Types, StoreTypeOK, ResultTypeOK, resultVars
  <1> QED
    BY <1>2, <1>3 DEF TypeOK, Types

\* A return with a proper result.
LEMMA ReturnType ==
    ASSUME TypeOK, NEW p \in Callers, NEW result, NEW value \in Nat,
           Return(p, result, value),
           result \in {"Ok", "None", "AlreadyExists", "NotFound", "transient", "other"},
           call[p] # "idle"
    PROVE  CallTypeOK' /\ last' \in [Callers -> Outcome]
  <1>1. CallTypeOK'
    BY S2cLogAssumption DEF Return, TypeOK, Types, CallTypeOK
  <1>2. [call |-> call[p], index |-> index[p], result |-> result, payload |-> value,
         erred |-> erred[p], known |-> known[p]] \in Outcome
    BY S2cLogAssumption DEF TypeOK, Types, CallTypeOK, Outcome
  <1> QED
    BY <1>1, <1>2 DEF Return, TypeOK, Types, ResultTypeOK

\* Another round, after an error or with a new attempt.
LEMMA AgainType ==
    ASSUME TypeOK, NEW p \in Callers, Again(p),
           UNCHANGED attempt \/ (CanAttempt(p) /\ AwaitAttempt(p))
    PROVE  CallTypeOK' /\ ResultTypeOK'
  <1>1. CallTypeOK'
    BY S2cLogAssumption DEF Again, CanAttempt, AwaitAttempt, TypeOK, Types, CallTypeOK
  <1>2. ResultTypeOK'
    BY DEF Again, resultVars, TypeOK, Types, ResultTypeOK
  <1> QED
    BY <1>1, <1>2

LEMMA PutOkType ==
    ASSUME TypeOK, NEW p \in Callers, PutOk(p)
    PROVE  Types'
  <1>1. /\ call[p] = "append" /\ index[p] \in Indexes /\ payload[p] \in Payload
        /\ payload[p] \in Nat
    BY S2cLogAssumption DEF PutOk, TypeOK, Types, CallTypeOK, Payload
  <1>2. CallTypeOK' /\ last' \in [Callers -> Outcome]
    BY <1>1, ReturnType DEF PutOk
  <1>3. StoreTypeOK'
    BY <1>1, InvertFacts DEF PutOk, TypeOK, Types, StoreTypeOK, Create, Overwrite
  <1>4. DOMAIN acked' \subseteq Indexes /\ \A i \in DOMAIN acked' : acked'[i] \in Payload
    BY <1>1 DEF PutOk, TypeOK, Types, ResultTypeOK, Create, Overwrite
  <1> QED
    BY <1>2, <1>3, <1>4 DEF PutOk, TypeOK, Types, ResultTypeOK

LEMMA LandType ==
    ASSUME TypeOK, Land
    PROVE  Types'
  <1>1. PICK put \in delayed :
          /\ store' = Create(store, put[1], put[2])
          /\ delayed' = delayed \ {put}
          /\ UNCHANGED <<callVars, resultVars>>
    BY DEF Land
  <1>2. put[1] \in Keys /\ put[2] \in Payload
    BY DEF TypeOK, Types, StoreTypeOK
  <1>3. StoreTypeOK'
    BY <1>1, <1>2 DEF TypeOK, Types, StoreTypeOK, Create, Overwrite
  <1> QED
    BY <1>1, <1>3 DEF TypeOK, Types, CallTypeOK, ResultTypeOK, callVars, resultVars

LEMMA ReplyType ==
    ASSUME TypeOK, NEW p \in Callers,
           \/ PutExists(p) \/ PutFails(p)
           \/ ListItem(p) \/ ListEnd(p) \/ ListFails(p)
           \/ GetOk(p) \/ GetNotFound(p) \/ BytesOk(p) \/ GetFails(p)
    PROVE  Types'
  <1>1. StoreTypeOK'
    <2>1. CASE PutFails(p)
      <3>1. <<Invert(index[p]), payload[p]>> \in Keys \X Payload
        BY <2>1, InvertFacts DEF PutFails, TypeOK, Types, CallTypeOK
      <3> QED
        BY <2>1, <3>1 DEF PutFails, TypeOK, Types, StoreTypeOK
    <2>2. CASE ~PutFails(p)
      BY <2>2 DEF PutExists, ListItem, ListEnd, ListFails, GetOk, GetNotFound, BytesOk,
         GetFails, TypeOK, Types, StoreTypeOK
    <2> QED
      BY <2>1, <2>2
  <1>2. ASSUME NEW result \in {"None", "NotFound", "transient", "other"}, call[p] # "idle",
               Return(p, result, 0), UNCHANGED <<head, acked>>
        PROVE  CallTypeOK' /\ ResultTypeOK'
    BY <1>2, ReturnType DEF TypeOK, Types, ResultTypeOK
  <1>3. ASSUME NEW key \in DOMAIN store, NEW result \in {"AlreadyExists", "Ok"},
               call[p] # "idle", Return(p, result, store[key]), UNCHANGED <<head, acked>>
        PROVE  CallTypeOK' /\ ResultTypeOK'
    <2>1. store[key] \in Nat
      BY S2cLogAssumption DEF TypeOK, Types, StoreTypeOK, Payload
    <2> QED
      BY <1>3, <2>1, ReturnType DEF TypeOK, Types, ResultTypeOK
  <1>4. CASE PutExists(p)
    BY <1>1, <1>3, <1>4 DEF PutExists, TypeOK, Types
  <1>5. CASE PutFails(p)
    BY <1>1, <1>2, <1>5, AgainType DEF PutFails, Retry, GiveUp, TypeOK, Types
  <1>6. CASE ListItem(p)
    <2>1. PICK k \in DOMAIN store :
            head' = [head EXCEPT ![p] = k] /\ Return(p, "Ok", k) /\ UNCHANGED acked
      BY <1>6 DEF ListItem
    <2>2. k \in 0..MaxU64 /\ k \in Nat
      BY InvertFacts, S2cLogAssumption DEF TypeOK, Types, StoreTypeOK, Keys
    <2>3. call[p] # "idle"
      BY <1>6 DEF ListItem
    <2>4. CallTypeOK' /\ last' \in [Callers -> Outcome]
      BY <2>1, <2>2, <2>3, ReturnType
    <2> QED
      BY <1>1, <2>1, <2>2, <2>4 DEF TypeOK, Types, ResultTypeOK
  <1>7. CASE ListEnd(p)
    BY <1>1, <1>2, <1>7 DEF ListEnd, TypeOK, Types
  <1>8. CASE ListFails(p)
    BY <1>1, <1>2, <1>8, AgainType DEF ListFails, Retry, TypeOK, Types
  <1>9. CASE GetOk(p)
    <2>1. CallTypeOK'
      BY <1>9, S2cLogAssumption DEF GetOk, TypeOK, Types, CallTypeOK
    <2> QED
      BY <1>1, <1>9, <2>1 DEF GetOk, TypeOK, Types, ResultTypeOK, resultVars
  <1>10. CASE GetNotFound(p)
    BY <1>1, <1>2, <1>10 DEF GetNotFound, TypeOK, Types
  <1>11. CASE BytesOk(p)
    <2>1. ReadKey(index[p]) \in DOMAIN store
      BY <1>11 DEF BytesOk, TypeOK, BodyExists
    <2> QED
      BY <1>1, <1>3, <1>11, <2>1 DEF BytesOk, TypeOK, Types
  <1>12. CASE GetFails(p)
    BY <1>1, <1>2, <1>12, AgainType DEF GetFails, Retry, GiveUp, TypeOK, Types
  <1> QED
    BY <1>4, <1>5, <1>6, <1>7, <1>8, <1>9, <1>10, <1>11, <1>12

\* Steps other than a successful or a late put leave the store alone.
LEMMA StoreSteps ==
    ASSUME Next
    PROVE  \/ UNCHANGED store
           \/ \E p \in Callers : PutOk(p)
           \/ Land
  BY DEF Next, CallAppend, CallGetHead, CallGetAt, Call, Step, PutExists, PutFails,
     ListItem, ListEnd, ListFails, GetOk, GetNotFound, BytesOk, GetFails

LEMMA StoreGrows ==
    ASSUME [Next]_vars
    PROVE  \A k \in DOMAIN store : k \in DOMAIN store' /\ store'[k] = store[k]
  <1>1. UNCHANGED store \/ \E key, object : store' = Create(store, key, object)
    BY StoreSteps DEF vars, PutOk, Land
  <1> QED
    BY <1>1, CreateKeeps

\* Nothing changes what Init has chosen.
LEMMA SettingsStay ==
    ASSUME [Next]_vars
    PROVE  UNCHANGED settings
  BY DEF Next, Step, CallAppend, CallGetHead, CallGetAt, Call, Land, vars

LEMMA BodyStays ==
    ASSUME TypeOK, [Next]_vars
    PROVE  BodyExists'
  <1> SUFFICES ASSUME NEW q \in Callers, call'[q] = "get_at", got'[q]
               PROVE  ReadKey(index'[q]) \in DOMAIN store'
    BY DEF BodyExists, ReadKey, Invert
  <1>1. CASE \E p \in Callers : GetOk(p)
    BY <1>1 DEF GetOk, TypeOK, Types, CallTypeOK, BodyExists
  <1>2. CASE ~(\E p \in Callers : GetOk(p))
    <2>1. call[q] = "get_at" /\ got[q] /\ index'[q] = index[q]
      BY <1>2 DEF Next, CallAppend, CallGetHead, CallGetAt, Call, Step, PutOk, PutExists,
         PutFails, ListItem, ListEnd, ListFails, GetNotFound, BytesOk, GetFails, Land,
         Return, Retry, GiveUp, Again, vars, callVars, TypeOK, Types, CallTypeOK
    <2>2. ReadKey(index[q]) \in DOMAIN store
      BY <2>1 DEF TypeOK, BodyExists
    <2> QED
      BY <2>1, <2>2, StoreGrows
  <1> QED
    BY <1>1, <1>2

\* Every variable keeps its type, the attempts of a call their bound.
THEOREM TypeCorrect == Spec => []TypeOK
  <1>1. Init => TypeOK
    BY InitType DEF TypeOK, SettingsTypeOK, BodyExists, Init
  <1>2. TypeOK /\ [Next]_vars => TypeOK'
    <2> SUFFICES ASSUME TypeOK, [Next]_vars PROVE Types'
      BY BodyStays, SettingsStay DEF TypeOK, SettingsTypeOK, settings
    <2>1. CASE Next
      BY <2>1, CallType, PutOkType, ReplyType, LandType DEF Next, Step
    <2>2. CASE UNCHANGED vars
      BY <2>2 DEF vars, callVars, resultVars, TypeOK, Types, StoreTypeOK, CallTypeOK,
         ResultTypeOK
    <2> QED
      BY <2>1, <2>2
  <1> QED
    BY <1>1, <1>2, PTL DEF Spec

----------------------------------------------------------------------------
(* Acknowledged entries *)

\* Only a successful put acknowledges.
LEMMA AckedSteps ==
    ASSUME [Next]_vars
    PROVE  UNCHANGED acked \/ \E p \in Callers : PutOk(p)
  BY DEF Next, CallAppend, CallGetHead, CallGetAt, Call, Step, PutExists, PutFails,
     ListItem, ListEnd, ListFails, GetOk, GetNotFound, BytesOk, GetFails, Retry, GiveUp,
     Again, Land, vars, resultVars

LEMMA AckedGrows ==
    ASSUME [Next]_vars
    PROVE  \A i \in DOMAIN acked : i \in DOMAIN acked' /\ acked'[i] = acked[i]
  <1>1. UNCHANGED acked \/ \E i, e : acked' = Create(acked, i, e)
    BY AckedSteps DEF PutOk
  <1> QED
    BY <1>1, CreateKeeps

LEMMA AckedStep ==
    ASSUME TypeOK, AckedStored, [Next]_vars
    PROVE  AckedStored'
  <1>1. CASE UNCHANGED acked
    BY <1>1, StoreGrows DEF AckedStored, Invert
  <1>2. ASSUME NEW p \in Callers, PutOk(p) PROVE AckedStored'
    <2>1. /\ index[p] \in Indexes
          /\ Invert(index[p]) \notin DOMAIN store
          /\ store' = Create(store, Invert(index[p]), payload[p])
          /\ acked' = Create(acked, index[p], payload[p])
      BY <1>2 DEF PutOk, TypeOK, Types, CallTypeOK
    <2>2. index[p] \notin DOMAIN acked
      BY <2>1 DEF AckedStored
    <2>3. /\ DOMAIN acked' = DOMAIN acked \cup {index[p]}
          /\ acked'[index[p]] = payload[p]
          /\ Invert(index[p]) \in DOMAIN store'
          /\ store'[Invert(index[p])] = payload[p]
      BY <2>1, <2>2 DEF Create, Overwrite
    <2>4. ASSUME NEW i \in DOMAIN acked'
          PROVE  Invert(i) \in DOMAIN store' /\ store'[Invert(i)] = acked'[i]
      <3>1. CASE i = index[p]
        BY <2>3, <3>1
      <3>2. CASE i # index[p]
        <4>1. i \in DOMAIN acked
          BY <2>3, <3>2
        <4>2. Invert(i) \in DOMAIN store /\ store[Invert(i)] = acked[i]
          BY <4>1 DEF AckedStored
        <4> QED
          BY <4>1, <4>2, StoreGrows, AckedGrows
      <3> QED
        BY <3>1, <3>2
    <2> QED
      BY <2>4 DEF AckedStored, Invert
  <1> QED
    BY <1>1, <1>2, AckedSteps

\* An append that returned Ok holds its index for good: no two appends of one
\* index both succeed.
THEOREM AckedStoredHolds == Spec => []AckedStored
  <1>1. Init => AckedStored
    BY DEF Init, AckedStored, EmptyStore
  <1> QED
    BY <1>1, AckedStep, TypeCorrect, PTL DEF Spec

----------------------------------------------------------------------------
(* Whose put was it *)

\* Payloads are numbered by calls, and the payload of an append that is still
\* running has left the caller's hands only if the call has met an error.
OwnPuts ==
    /\ \A k \in DOMAIN store : store[k] <= calls
    /\ \A put \in delayed : put[2] <= calls
    /\ \A p \in Callers : payload[p] <= calls
    /\ \A p, q \in Callers :
         call[p] = "append" /\ call[q] = "append" /\ p # q => payload[p] # payload[q]
    /\ \A p \in Callers : call[p] = "append" /\ ~erred[p] =>
         /\ \A k \in DOMAIN store : store[k] # payload[p]
         /\ \A put \in delayed : put[2] # payload[p]

LEMMA CallOwn ==
    ASSUME TypeOK, OwnPuts, NEW p \in Callers,
           CallAppend(p) \/ CallGetHead(p) \/ CallGetAt(p)
    PROVE  OwnPuts'
  <1>1. PICK method, i, indexes : Call(p, method, i, indexes)
    BY DEF CallAppend, CallGetHead, CallGetAt
  <1>2. /\ calls' = calls + 1 /\ calls \in Nat
        /\ payload' = [payload EXCEPT ![p] = calls + 1]
        /\ call' = [call EXCEPT ![p] = method]
        /\ erred' = [erred EXCEPT ![p] = FALSE]
        /\ UNCHANGED <<store, delayed>>
    BY <1>1 DEF Call, TypeOK, Types, CallTypeOK
  <1>3. /\ \A k \in DOMAIN store : store[k] \in Nat
        /\ \A put \in delayed : put[2] \in Nat
        /\ \A q \in Callers : payload[q] \in Nat
    BY S2cLogAssumption DEF TypeOK, Types, StoreTypeOK, CallTypeOK, Payload
  <1> QED
    BY <1>2, <1>3 DEF TypeOK, Types, CallTypeOK, OwnPuts

LEMMA PutOwn ==
    ASSUME TypeOK, OwnPuts, NEW p \in Callers, PutOk(p) \/ PutFails(p)
    PROVE  OwnPuts'
  <1>1. CASE PutOk(p)
    <2>1. /\ store' = Create(store, Invert(index[p]), payload[p])
          /\ call[p] = "append"
          /\ call' = [call EXCEPT ![p] = "idle"]
          /\ UNCHANGED <<delayed, payload, calls, erred>>
      BY <1>1 DEF PutOk, Return
    <2>2. \A k \in DOMAIN store' : \/ store'[k] = payload[p]
                                   \/ k \in DOMAIN store /\ store'[k] = store[k]
      BY <2>1 DEF Create, Overwrite
    <2> QED
      BY <2>1, <2>2 DEF TypeOK, Types, CallTypeOK, OwnPuts
  <1>2. CASE PutFails(p)
    <2>1. /\ delayed' \in {delayed, delayed \cup {<<Invert(index[p]), payload[p]>>}}
          /\ UNCHANGED <<store, payload, calls>>
          /\ call[p] = "append"
          /\ \/ UNCHANGED call /\ erred' = [erred EXCEPT ![p] = TRUE]
             \/ call' = [call EXCEPT ![p] = "idle"] /\ UNCHANGED erred
      BY <1>2 DEF PutFails, Retry, GiveUp, Again, Return
    <2>2. \A put \in delayed' : put[2] = payload[p] \/ put \in delayed
      BY <2>1
    <2>3. \A q \in Callers : call'[q] = "append" /\ ~erred'[q] =>
            q # p /\ call[q] = "append" /\ ~erred[q]
      BY <2>1 DEF TypeOK, Types, CallTypeOK
    <2>4. \A q \in Callers : call'[q] = "append" => call[q] = "append"
      BY <2>1 DEF TypeOK, Types, CallTypeOK
    <2> QED
      BY <2>1, <2>2, <2>3, <2>4 DEF OwnPuts
  <1> QED
    BY <1>1, <1>2

LEMMA OtherOwn ==
    ASSUME TypeOK, OwnPuts,
           \/ Land
           \/ \E p \in Callers : \/ PutExists(p)
                                 \/ ListItem(p) \/ ListEnd(p) \/ ListFails(p)
                                 \/ GetOk(p) \/ GetNotFound(p) \/ BytesOk(p) \/ GetFails(p)
           \/ UNCHANGED vars
    PROVE  OwnPuts'
  <1>1. CASE Land
    <2>1. PICK put \in delayed : /\ store' = Create(store, put[1], put[2])
                                 /\ delayed' = delayed \ {put}
                                 /\ UNCHANGED <<calls, payload, call, erred>>
      BY <1>1 DEF Land, callVars
    <2>2. \A k \in DOMAIN store' : \/ store'[k] = put[2]
                                   \/ k \in DOMAIN store /\ store'[k] = store[k]
      BY <2>1 DEF Create, Overwrite
    <2> QED
      BY <2>1, <2>2 DEF OwnPuts
  <1>2. CASE ~Land
    <2>1. /\ UNCHANGED <<store, delayed, payload, calls>>
          /\ \A q \in Callers : call'[q] = "append" => call[q] = "append" /\ erred'[q] = erred[q]
      BY <1>2 DEF PutExists, ListItem, ListEnd, ListFails, GetOk, GetNotFound, BytesOk,
         GetFails, Retry, GiveUp, Again, Return, vars, callVars, TypeOK, Types, CallTypeOK
    <2> QED
      BY <2>1 DEF OwnPuts
  <1> QED
    BY <1>1, <1>2

\* AlreadyExists for an append's own put needs an error in the same call.
THEOREM OwnRefusal == Spec => []OwnRefusalNeedsError
  <1>1. Init => OwnPuts
    BY DEF Init, OwnPuts, EmptyStore
  <1>2. TypeOK /\ OwnPuts /\ [Next]_vars => OwnPuts'
    BY CallOwn, PutOwn, OtherOwn DEF Next, Step
  <1>3. TypeOK /\ OwnPuts => OwnRefusalNeedsError
    BY DEF OwnPuts, OwnRefusalNeedsError
  <1> QED
    BY <1>1, <1>2, <1>3, TypeCorrect, PTL DEF Spec

----------------------------------------------------------------------------
(* What the readers see *)

\* What a reader knew of when it was called is still there.
KnownStays ==
    \A p \in Callers :
        /\ call[p] = "get_head" => known[p] \subseteq Stored
        /\ call[p] = "get_at" => known[p] \subseteq DOMAIN acked
        /\ last[p].call = "get_at" => last[p].known \subseteq DOMAIN acked

LEMMA StoredGrows ==
    ASSUME [Next]_vars
    PROVE  Stored \subseteq Stored'
  BY StoreGrows DEF Stored, Invert, Indexes

\* A step of p's call either goes on with it or records its outcome.
LEMMA ReaderSteps ==
    ASSUME TypeOK, [Next]_vars, NEW p \in Callers
    PROVE  \/ CallAppend(p) \/ CallGetHead(p) \/ CallGetAt(p)
           \/ UNCHANGED <<call[p], known[p], index[p], last[p]>>
           \/ /\ call'[p] = "idle" /\ call[p] # "idle"
              /\ last'[p].call = call[p] /\ last'[p].known = known[p]
              /\ last'[p].index = index[p] /\ last'[p].erred = erred[p]
              /\ Step(p)
  <1>1. CASE \E q \in Callers \ {p} : \/ CallAppend(q) \/ CallGetHead(q) \/ CallGetAt(q)
                                      \/ Step(q)
    BY <1>1 DEF CallAppend, CallGetHead, CallGetAt, Call, Step, PutOk, PutExists,
       PutFails, ListItem, ListEnd, ListFails, GetOk, GetNotFound, BytesOk, GetFails,
       Retry, GiveUp, Again, Return, resultVars, TypeOK, Types, CallTypeOK, ResultTypeOK
  <1>2. CASE Step(p)
    BY <1>2 DEF Step, PutOk, PutExists, PutFails, ListItem, ListEnd, ListFails, GetOk,
       GetNotFound, BytesOk, GetFails, Retry, GiveUp, Again, Return, resultVars, TypeOK,
       Types, CallTypeOK, ResultTypeOK
  <1>3. CASE Land \/ UNCHANGED vars
    BY <1>3 DEF Land, vars, callVars, resultVars
  <1> QED
    BY <1>1, <1>2, <1>3 DEF Next

LEMMA KnownStep ==
    ASSUME TypeOK, KnownStays, [Next]_vars
    PROVE  KnownStays'
  <1> SUFFICES ASSUME NEW p \in Callers
               PROVE  /\ call'[p] = "get_head" => known'[p] \subseteq Stored'
                      /\ call'[p] = "get_at" => known'[p] \subseteq DOMAIN acked'
                      /\ last'[p].call = "get_at" => last'[p].known \subseteq DOMAIN acked'
    BY DEF KnownStays
  <1>1. Stored \subseteq Stored' /\ DOMAIN acked \subseteq DOMAIN acked'
    BY StoredGrows, AckedGrows
  <1>2. CASE CallAppend(p) \/ CallGetHead(p) \/ CallGetAt(p)
    BY <1>1, <1>2 DEF CallAppend, CallGetHead, CallGetAt, Call, resultVars, KnownStays,
       TypeOK, Types, CallTypeOK
  <1>3. CASE ~(CallAppend(p) \/ CallGetHead(p) \/ CallGetAt(p))
    BY <1>1, <1>3, ReaderSteps DEF KnownStays
  <1> QED
    BY <1>2, <1>3

\* get_head returns: the key it lists is that of an index, as new as any known if
\* the store sorts.
LEMMA HeadReturns ==
    ASSUME TypeOK, KnownStays, NEW p \in Callers, Step(p), call[p] = "get_head",
           call'[p] = "idle"
    PROVE  /\ last'[p].result = "Ok" =>
                \E i \in Indexes : /\ Invert(i) = last'[p].payload
                                   /\ sorted => \A j \in known[p] : j <= i
           /\ last'[p].result = "None" /\ ~erred[p] => known[p] = {}
  <1>0. ListItem(p) \/ ListEnd(p) \/ ListFails(p)
    BY DEF Step, PutOk, PutExists, PutFails, GetOk, GetNotFound, BytesOk, GetFails
  <1>1. CASE ListItem(p)
    <2>1. PICK k \in DOMAIN store :
            (sorted => \A j \in DOMAIN store : k <= j) /\ Return(p, "Ok", k)
      BY <1>1 DEF ListItem
    <2>2. last'[p].result = "Ok" /\ last'[p].payload = k
      BY <2>1 DEF Return, TypeOK, Types, ResultTypeOK
    <2>3. PICK i \in Indexes : Invert(i) = k
      BY DEF TypeOK, Types, StoreTypeOK, Keys
    <2>4. \A j \in known[p] : j \in Indexes /\ Invert(j) \in DOMAIN store
      BY DEF KnownStays, Stored
    <2>5. sorted => \A j \in known[p] : j <= i
      BY <2>1, <2>3, <2>4, InvertFacts
    <2> QED
      BY <2>2, <2>3, <2>5
  <1>2. CASE ListEnd(p)
    <2>1. last'[p].result = "None" /\ (store = EmptyStore \/ erred[p])
      BY <1>2 DEF ListEnd, Return, TypeOK, Types, ResultTypeOK
    <2> QED
      BY <2>1 DEF KnownStays, Stored, EmptyStore
  <1>3. CASE ListFails(p)
    BY <1>3 DEF ListFails, Retry, Again, Return, TypeOK, Types, ResultTypeOK
  <1> QED
    BY <1>0, <1>1, <1>2, <1>3

LEMMA HeadStep ==
    ASSUME TypeOK, KnownStays, HeadNotStale, [Next]_vars
    PROVE  HeadNotStale'
  <1> SUFFICES ASSUME NEW p \in Callers, last'[p].call = "get_head"
               PROVE  /\ last'[p].result = "Ok" =>
                           \E i \in Indexes : /\ Invert(i) = last'[p].payload
                                              /\ sorted => \A j \in last'[p].known : j <= i
                      /\ last'[p].result = "None" /\ ~last'[p].erred => last'[p].known = {}
    BY SettingsStay DEF HeadNotStale, Invert, Indexes, settings
  <1>1. CASE UNCHANGED last[p]
    BY <1>1 DEF HeadNotStale
  <1>2. CASE last'[p] # last[p]
    <2>1. ~(CallAppend(p) \/ CallGetHead(p) \/ CallGetAt(p))
      BY <1>2 DEF CallAppend, CallGetHead, CallGetAt, Call, resultVars
    <2> QED
      BY <1>2, <2>1, ReaderSteps, HeadReturns
  <1> QED
    BY <1>1, <1>2

\* What get_head returns is the key of an index; in a store that sorts no entry
\* there was at the call is newer; and an empty log is reported only when it was
\* empty or after an error.
THEOREM HeadNotStaleHolds == Spec => []HeadNotStale
  <1>1. Init => KnownStays /\ HeadNotStale
    BY DEF Init, KnownStays, HeadNotStale, NoCall
  <1> QED
    BY <1>1, KnownStep, HeadStep, TypeCorrect, PTL DEF Spec

\* get_at returns: an entry that was acknowledged is found.
LEMMA GetReturns ==
    ASSUME TypeOK, KnownStays, AckedStored, NEW p \in Callers, Step(p),
           call[p] = "get_at", call'[p] = "idle", index[p] \in known[p]
    PROVE  /\ last'[p].result # "NotFound"
           /\ last'[p].result = "Ok" => last'[p].payload = acked[index[p]]
  <1>0. GetNotFound(p) \/ BytesOk(p) \/ GetFails(p)
    BY DEF Step, PutOk, PutExists, PutFails, ListItem, ListEnd, ListFails, GetOk,
       TypeOK, Types, CallTypeOK
  <1>1. /\ ReadKey(index[p]) \in DOMAIN store
        /\ store[ReadKey(index[p])] = acked[index[p]]
    BY DEF KnownStays, AckedStored, ReadKey
  <1>2. CASE GetNotFound(p)
    BY <1>1, <1>2 DEF GetNotFound
  <1>3. CASE BytesOk(p)
    BY <1>1, <1>3 DEF BytesOk, Return, TypeOK, Types, ResultTypeOK
  <1>4. CASE GetFails(p)
    BY <1>4 DEF GetFails, Retry, GiveUp, Again, Return, TypeOK, Types, ResultTypeOK
  <1> QED
    BY <1>0, <1>2, <1>3, <1>4

LEMMA ReadStep ==
    ASSUME TypeOK, KnownStays, AckedStored, AckedReadable, [Next]_vars
    PROVE  AckedReadable'
  <1> SUFFICES ASSUME NEW p \in Callers, last'[p].call = "get_at",
                      last'[p].index \in last'[p].known
               PROVE  /\ last'[p].result # "NotFound"
                      /\ last'[p].result = "Ok" =>
                           last'[p].payload = acked'[last'[p].index]
    BY DEF AckedReadable
  <1>1. CASE UNCHANGED last[p]
    <2>1. last[p].index \in DOMAIN acked
      BY <1>1 DEF KnownStays
    <2> QED
      BY <1>1, <2>1, AckedGrows DEF AckedReadable
  <1>2. CASE last'[p] # last[p]
    <2>1. ~(CallAppend(p) \/ CallGetHead(p) \/ CallGetAt(p))
      BY <1>2 DEF CallAppend, CallGetHead, CallGetAt, Call, resultVars
    <2>2. /\ call'[p] = "idle" /\ call[p] = "get_at" /\ Step(p)
          /\ last'[p].index = index[p] /\ index[p] \in known[p]
      BY <1>2, <2>1, ReaderSteps
    <2>3. index[p] \in DOMAIN acked
      BY <2>2 DEF KnownStays
    <2> QED
      BY <2>2, <2>3, GetReturns, AckedGrows
  <1> QED
    BY <1>1, <1>2

\* get_at finds what was acknowledged before it was called, and returns it as it
\* was appended.
THEOREM AckedReadableHolds == Spec => []AckedReadable
  <1>1. Init => KnownStays /\ AckedReadable
    BY DEF Init, KnownStays, AckedReadable, NoCall
  <1> QED
    BY <1>1, KnownStep, ReadStep, TypeCorrect, AckedStoredHolds, PTL DEF Spec
============================================================================
