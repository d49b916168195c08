-------------------------- MODULE VoteServerProofs --------------------------
(***************************************************************************)
(* Theorems about one replica, for any number of connections, any keys and *)
(* values, and any table size.                                             *)
(*                                                                         *)
(* One inductive invariant carries them all.  AllocInv says what holding   *)
(* numKeysLock buys, TableInv which entries are untouched, ThreadInv what  *)
(* each thread's private variables still say about the shared table.       *)
(***************************************************************************)
EXTENDS VoteServer, Minimum, TLAPS

InAlloc(t) == pc[t] \in {"new_slot", "new_incr", "new_unlock"}

AllocInv ==
  /\ \A t, u \in Threads : InAlloc(t) /\ InAlloc(u) => t = u
  /\ \A t \in Threads : InAlloc(t) => numKeysLock = 0
  /\ \A t \in Threads : pc[t] = "new_incr" => kv[t] = numKeys

TableInv ==
  /\ \A i \in Slots : i >= numKeys => key[i] = NoKey
  /\ \A i \in Slots : key[i] = NoKey => value[i] = NoVal

ThreadInv ==
  \A t \in Threads :
    /\ pc[t] \in NewLabels \cup PutLabels => op[t] = "PUT"
    /\ pc[t] \in Labels \ {"new", "recv", "done"} => reqKey[t] \in Keys
    /\ HasEntry(t) => kv[t] \in Slots /\ key[kv[t]] \in {NoKey, reqKey[t]}
    /\ HasEntry(t) /\ pc[t] # "new_incr" => kv[t] < numKeys
    /\ pc[t] \in {"new_incr", "new_unlock", "new_init"} => key[kv[t]] = NoKey
    /\ pc[t] \in GetLabels \cup {"upd_value", "upd_vno"} =>
         kv[t] \in Slots /\ key[kv[t]] = reqKey[t]
    /\ pc[t] \in {"upd_find", "upd_value"} =>
         msg[t].value \in Values /\ msg[t].value[1] = reqKey[t]
    /\ pc[t] \in {"new", "recv"} => sent[t] = None

IndInv ==
  TypeOK /\ AllocInv /\ TableInv /\ ThreadInv /\ NewEntriesPrivate /\
      ValueOfKey

-----------------------------------------------------------------------------
(* searchKey returns the first entry in use with that name, or NoSlot when *)
(* there is none (Server.c:4-14).                                          *)
LEMMA SearchKey ==
  ASSUME NEW k
  PROVE  \/ searchKey(k) = NoSlot /\ Named(k) = {}
         \/ searchKey(k) \in Named(k) /\ \A j \in Named(k) : searchKey(k) <= j
<1>1. CASE Named(k) = {}
  BY <1>1 DEF searchKey
<1>2. CASE Named(k) # {}
  <2>1. Named(k) \in SUBSET Nat
    BY MaxKeysAssumption DEF Named, Slots
  <2>2. \E i \in Named(k) : \A j \in Named(k) : i <= j
    BY <1>2, <2>1, NatMin, Zenon
  <2> QED BY <1>2, <2>2 DEF searchKey
<1> QED BY <1>1, <1>2

(* The invariant holds of the table that main() sets up.                     *)
LEMMA InitIndInv == Init => IndInv
<1> SUFFICES ASSUME Init PROVE IndInv
  OBVIOUS
<1> USE KeysAssumption, ValsAssumption, MaxKeysAssumption DEF Init
<1>1. TypeOK
  BY DEF TypeOK, Slots, NoSlot, Values, Labels, Messages, None, NoUpdate
<1>2. AllocInv
  BY DEF AllocInv, InAlloc
<1>3. TableInv
  BY DEF TableInv, Slots
<1>4. ThreadInv
  BY DEF ThreadInv, NewLabels, PutLabels, GetLabels, HasEntry
<1>5. NewEntriesPrivate
  BY DEF NewEntriesPrivate, HasEntry
<1>6. ValueOfKey
  BY DEF ValueOfKey, Slots, None
<1> QED BY <1>1, <1>2, <1>3, <1>4, <1>5, <1>6 DEF IndInv

-----------------------------------------------------------------------------
(* Where searchKey points, with the types at hand.                         *)
LEMMA SearchKeyType ==
  ASSUME TypeOK, NEW k \in Keys
  PROVE  /\ searchKey(k) \in Slots \cup {NoSlot}
         /\ searchKey(k) # NoSlot =>
              /\ searchKey(k) \in Slots
              /\ searchKey(k) < numKeys
              /\ key[searchKey(k)] = k
BY SearchKey DEF Named

(* Every action keeps the types; the bound on numKeys is AllocInv's.         *)
LEMMA TypeStep ==
  ASSUME IndInv, NEW t \in Threads, Accept(t) \/ Step(t)
  PROVE  TypeOK'
<1> USE MaxKeysAssumption, KeysAssumption, LierAssumption
    DEF IndInv, TypeOK, Labels, NewLabels, PutLabels, GetLabels, UpdateLabels,
        Slots, NoSlot, Goto, table, locals
<1>1. CASE Accept(t) \/ RecvNothing(t)
  BY <1>1 DEF Accept, RecvNothing
<1>2. ASSUME NEW k \in Keys, RecvGet(t, k) \/ RecvPut(t, k) PROVE TypeOK'
  <2>1. searchKey(k) \in Slots \cup {NoSlot}
    BY SearchKeyType
  <2> HIDE DEF Slots, NoSlot
  <2>2. CASE RecvGet(t, k)
    BY <2>1, <2>2 DEF RecvGet
  <2>3. CASE RecvPut(t, k)
    BY <2>1, <2>3 DEF RecvPut
  <2> QED BY <1>2, <2>2, <2>3
<1>3. ASSUME NEW k \in Keys, RecvReleaseRequest(t, k) PROVE TypeOK'
  BY <1>3 DEF RecvReleaseRequest
<1>4. ASSUME NEW k \in Keys, NEW v \in Vals, NEW n \in Vnos,
    RecvUpdateRequest(t, k, v, n)
      PROVE TypeOK'
  BY <1>4, VnosAssumption DEF RecvUpdateRequest, Values
<1>5. CASE GetCheckLock(t)
  BY <1>5 DEF GetCheckLock
<1>6. CASE GetLoadGetters(t)
  BY <1>6 DEF GetLoadGetters, ThreadInv
<1>7. CASE GetStoreGetters(t)
  BY <1>7 DEF GetStoreGetters, ThreadInv
<1>8. CASE GetReadVno(t)
  BY <1>8 DEF GetReadVno, ThreadInv
<1>9. CASE GetSend(t)
  BY <1>9 DEF GetSend, ThreadInv, Messages, Answer
<1>10. CASE GetDecrGetters(t)
  BY <1>10 DEF GetDecrGetters, ThreadInv
<1>11. CASE LockNumKeys(t)
  BY <1>11 DEF LockNumKeys
<1>12. CASE TakeSlot(t)
  BY <1>12 DEF TakeSlot
<1>13. CASE IncrNumKeys(t)
  BY <1>13 DEF IncrNumKeys, AllocInv, ThreadInv, HasEntry
<1>14. CASE UnlockNumKeys(t)
  BY <1>14 DEF UnlockNumKeys
<1>15. CASE initKeyValStruct(t)
  BY <1>15 DEF initKeyValStruct, ThreadInv, HasEntry
<1>16. CASE PutReadVno(t)
  BY <1>16 DEF PutReadVno, ThreadInv, HasEntry, LIER_VNO_INCR
<1>17. CASE PutCheckLock(t)
  BY <1>17 DEF PutCheckLock
<1>18. CASE PutCheckGetters(t)
  BY <1>18 DEF PutCheckGetters
<1>19. CASE PutSetLock(t)
  BY <1>19 DEF PutSetLock, ThreadInv, HasEntry
<1>20. CASE PutSendVote(t)
  BY <1>20 DEF PutSendVote, Messages, Vote
<1>21. CASE PutGiveUp(t)
  BY <1>21 DEF PutGiveUp
<1>22. CASE PutRecvRelease(t)
  BY <1>22 DEF PutRecvRelease
<1>23. CASE UpdateFind(t)
  BY <1>23, SearchKeyType DEF UpdateFind, Updatable, ThreadInv
<1>24. CASE UpdateRefused(t)
  BY <1>24 DEF UpdateRefused, AfterUpdate
<1>25. CASE UpdateValue(t)
  BY <1>25 DEF UpdateValue, ThreadInv
<1>26. CASE UpdateVno(t)
  BY <1>26 DEF UpdateVno
<1>27. CASE SendUpdateDone(t)
  BY <1>27 DEF SendUpdateDone, AfterUpdate, Messages, UpdateDone
<1>28. CASE ReleaseLock(t)
  BY <1>28, SearchKeyType DEF ReleaseLock, ThreadInv
<1>29. ASSUME NEW v \in Vals, NEW n \in Vnos, PutRecvUpdate(t, v, n)
       PROVE  TypeOK'
  BY <1>29, VnosAssumption DEF PutRecvUpdate, ThreadInv, HasEntry, Values
<1> QED BY <1>1, <1>2, <1>3, <1>4, <1>5, <1>6, <1>7, <1>8, <1>9, <1>10, <1>11,
    <1>12, <1>13, <1>14, <1>15, <1>16, <1>17, <1>18, <1>19, <1>20, <1>21,
    <1>22, <1>23, <1>24, <1>25, <1>26, <1>27, <1>28, <1>29
  DEF Step, Request, Get, Allocate, Put, Update

(* numKeysLock keeps the allocation to one thread at a time.                 *)
LEMMA AllocStep ==
  ASSUME IndInv, NEW t \in Threads, Accept(t) \/ Step(t)
  PROVE  AllocInv'
<1> USE DEF IndInv, TypeOK, AllocInv, InAlloc, Goto, table, locals
<1>1. CASE Accept(t)
  BY <1>1 DEF Accept
<1>2. CASE RecvNothing(t)
  BY <1>2 DEF RecvNothing
<1>3. CASE GetCheckLock(t)
  BY <1>3 DEF GetCheckLock
<1>4. CASE GetLoadGetters(t)
  BY <1>4 DEF GetLoadGetters
<1>5. CASE GetStoreGetters(t)
  BY <1>5 DEF GetStoreGetters
<1>6. CASE GetReadVno(t)
  BY <1>6 DEF GetReadVno
<1>7. CASE GetSend(t)
  BY <1>7 DEF GetSend
<1>8. CASE GetDecrGetters(t)
  BY <1>8 DEF GetDecrGetters
<1>9. CASE LockNumKeys(t)
  BY <1>9 DEF LockNumKeys
<1>10. CASE TakeSlot(t)
  BY <1>10 DEF TakeSlot
<1>11. CASE IncrNumKeys(t)
  BY <1>11 DEF IncrNumKeys
<1>12. CASE UnlockNumKeys(t)
  BY <1>12 DEF UnlockNumKeys
<1>13. CASE initKeyValStruct(t)
  BY <1>13 DEF initKeyValStruct
<1>14. CASE PutReadVno(t)
  BY <1>14 DEF PutReadVno
<1>15. CASE PutCheckLock(t)
  BY <1>15 DEF PutCheckLock
<1>16. CASE PutCheckGetters(t)
  BY <1>16 DEF PutCheckGetters
<1>17. CASE PutSetLock(t)
  BY <1>17 DEF PutSetLock
<1>18. CASE PutSendVote(t)
  BY <1>18 DEF PutSendVote
<1>19. CASE PutGiveUp(t)
  BY <1>19 DEF PutGiveUp
<1>20. CASE PutRecvRelease(t)
  BY <1>20 DEF PutRecvRelease
<1>21. CASE UpdateFind(t)
  BY <1>21 DEF UpdateFind
<1>22. CASE UpdateRefused(t)
  BY <1>22 DEF UpdateRefused, AfterUpdate
<1>23. CASE UpdateValue(t)
  BY <1>23 DEF UpdateValue
<1>24. CASE UpdateVno(t)
  BY <1>24 DEF UpdateVno
<1>25. CASE SendUpdateDone(t)
  BY <1>25 DEF SendUpdateDone, AfterUpdate
<1>26. CASE ReleaseLock(t)
  BY <1>26 DEF ReleaseLock
<1>27. ASSUME NEW k \in Keys, RecvGet(t, k) PROVE AllocInv'
  BY <1>27 DEF RecvGet
<1>28. ASSUME NEW k \in Keys, RecvPut(t, k) PROVE AllocInv'
  BY <1>28 DEF RecvPut
<1>29. ASSUME NEW k \in Keys, RecvReleaseRequest(t, k) PROVE AllocInv'
  BY <1>29 DEF RecvReleaseRequest
<1>30. ASSUME NEW k \in Keys, NEW v \in Vals, NEW n \in Vnos,
              RecvUpdateRequest(t, k, v, n)
       PROVE  AllocInv'
  BY <1>30 DEF RecvUpdateRequest
<1>31. ASSUME NEW v \in Vals, NEW n \in Vnos, PutRecvUpdate(t, v, n)
       PROVE  AllocInv'
  BY <1>31 DEF PutRecvUpdate
<1> QED BY <1>1, <1>2, <1>3, <1>4, <1>5, <1>6, <1>7, <1>8, <1>9, <1>10, <1>11,
    <1>12, <1>13, <1>14, <1>15, <1>16, <1>17, <1>18, <1>19, <1>20, <1>21,
    <1>22, <1>23, <1>24, <1>25, <1>26, <1>27, <1>28, <1>29, <1>30, <1>31
  DEF Step, Request, Get, Allocate, Put, Update

(* Only an entry in use is named, and only a named one gets a value.         *)
LEMMA TableStep ==
  ASSUME IndInv, NEW t \in Threads, Accept(t) \/ Step(t)
  PROVE  TableInv'
<1> USE KeysAssumption, MaxKeysAssumption DEF IndInv, TypeOK, TableInv, Slots
<1>1. CASE UNCHANGED <<key, value, numKeys>>
  BY <1>1
<1>2. CASE IncrNumKeys(t)
  BY <1>2 DEF IncrNumKeys, table
<1>3. CASE initKeyValStruct(t)
  BY <1>3 DEF initKeyValStruct, Goto, ThreadInv, HasEntry, NewLabels
<1>4. ASSUME NEW v \in Vals, NEW n \in Vnos, PutRecvUpdate(t, v, n)
      PROVE  TableInv'
  <2>1. reqKey[t] # NoKey /\ kv[t] \in Slots /\ kv[t] < numKeys
    BY <1>4 DEF PutRecvUpdate, Goto, ThreadInv, HasEntry, Labels, PutLabels
  <2>2. key' = [key EXCEPT ![kv[t]] = reqKey[t]] /\ UNCHANGED <<value,
      numKeys>>
    BY <1>4 DEF PutRecvUpdate
  <2>3. ASSUME NEW i \in Slots, i >= numKeys PROVE key'[i] = NoKey
    BY <2>1, <2>2, <2>3
  <2>4. ASSUME NEW i \in Slots, key'[i] = NoKey PROVE value[i] = NoVal
    BY <2>1, <2>2, <2>4
  <2> QED BY <2>2, <2>3, <2>4
<1>5. CASE UpdateValue(t)
  <2>1. reqKey[t] \in Keys /\ key[kv[t]] = reqKey[t]
    BY <1>5 DEF UpdateValue, Goto, ThreadInv, Labels, UpdateLabels
  <2> QED BY <1>5, <2>1 DEF UpdateValue
<1> QED BY <1>1, <1>2, <1>3, <1>4, <1>5
  DEF Step, Request, RecvGet, RecvPut, RecvReleaseRequest, RecvUpdateRequest,
      Accept, RecvNothing, Get, GetCheckLock, GetLoadGetters, GetStoreGetters,
      GetReadVno, GetSend, GetDecrGetters, Allocate, LockNumKeys, TakeSlot,
      IncrNumKeys, UnlockNumKeys, Put, PutReadVno, PutCheckLock,
      PutCheckGetters, PutSetLock, PutSendVote, PutGiveUp, PutRecvRelease,
      Update, UpdateFind, UpdateRefused, UpdateVno, SendUpdateDone,
      ReleaseLock, Goto, table, locals

(* Two allocations never get the same entry.                                 *)
LEMMA PrivateStep ==
  ASSUME IndInv, NEW t \in Threads, Accept(t) \/ Step(t)
  PROVE  NewEntriesPrivate'
<1> USE DEF IndInv, TypeOK, NewEntriesPrivate, HasEntry, Goto, table, locals
<1>1. CASE Accept(t)
  BY <1>1 DEF Accept
<1>2. CASE RecvNothing(t)
  BY <1>2 DEF RecvNothing
<1>3. CASE GetCheckLock(t)
  BY <1>3 DEF GetCheckLock
<1>4. CASE GetLoadGetters(t)
  BY <1>4 DEF GetLoadGetters
<1>5. CASE GetStoreGetters(t)
  BY <1>5 DEF GetStoreGetters
<1>6. CASE GetReadVno(t)
  BY <1>6 DEF GetReadVno
<1>7. CASE GetSend(t)
  BY <1>7 DEF GetSend
<1>8. CASE GetDecrGetters(t)
  BY <1>8 DEF GetDecrGetters
<1>9. CASE LockNumKeys(t)
  BY <1>9 DEF LockNumKeys
<1>10. CASE TakeSlot(t)
  BY <1>10, MaxKeysAssumption DEF TakeSlot, ThreadInv, AllocInv, InAlloc
<1>11. CASE IncrNumKeys(t)
  BY <1>11 DEF IncrNumKeys
<1>12. CASE UnlockNumKeys(t)
  BY <1>12 DEF UnlockNumKeys
<1>13. CASE initKeyValStruct(t)
  BY <1>13 DEF initKeyValStruct, ThreadInv, NewLabels
<1>14. CASE PutReadVno(t)
  BY <1>14 DEF PutReadVno
<1>15. CASE PutCheckLock(t)
  BY <1>15 DEF PutCheckLock
<1>16. CASE PutCheckGetters(t)
  BY <1>16 DEF PutCheckGetters
<1>17. CASE PutSetLock(t)
  BY <1>17 DEF PutSetLock
<1>18. CASE PutSendVote(t)
  BY <1>18 DEF PutSendVote
<1>19. CASE PutGiveUp(t)
  BY <1>19 DEF PutGiveUp
<1>20. CASE PutRecvRelease(t)
  BY <1>20 DEF PutRecvRelease
<1>21. CASE UpdateFind(t)
  BY <1>21 DEF UpdateFind
<1>22. CASE UpdateRefused(t)
  BY <1>22 DEF UpdateRefused, AfterUpdate
<1>23. CASE UpdateValue(t)
  BY <1>23 DEF UpdateValue
<1>24. CASE UpdateVno(t)
  BY <1>24 DEF UpdateVno
<1>25. CASE SendUpdateDone(t)
  BY <1>25 DEF SendUpdateDone, AfterUpdate
<1>26. CASE ReleaseLock(t)
  BY <1>26 DEF ReleaseLock
<1>27. ASSUME NEW k \in Keys, RecvGet(t, k) PROVE NewEntriesPrivate'
  BY <1>27 DEF RecvGet
<1>28. ASSUME NEW k \in Keys, RecvPut(t, k) PROVE NewEntriesPrivate'
  BY <1>28, SearchKeyType, KeysAssumption DEF RecvPut
<1>29. ASSUME NEW k \in Keys, RecvReleaseRequest(t, k) PROVE NewEntriesPrivate'
  BY <1>29 DEF RecvReleaseRequest
<1>30. ASSUME NEW k \in Keys, NEW v \in Vals, NEW n \in Vnos,
              RecvUpdateRequest(t, k, v, n)
       PROVE  NewEntriesPrivate'
  BY <1>30 DEF RecvUpdateRequest
<1>31. ASSUME NEW v \in Vals, NEW n \in Vnos, PutRecvUpdate(t, v, n)
       PROVE  NewEntriesPrivate'
  BY <1>31 DEF PutRecvUpdate, ThreadInv, Labels, NewLabels, PutLabels,
      GetLabels, UpdateLabels
<1> QED BY <1>1, <1>2, <1>3, <1>4, <1>5, <1>6, <1>7, <1>8, <1>9, <1>10, <1>11,
    <1>12, <1>13, <1>14, <1>15, <1>16, <1>17, <1>18, <1>19, <1>20, <1>21,
    <1>22, <1>23, <1>24, <1>25, <1>26, <1>27, <1>28, <1>29, <1>30, <1>31
  DEF Step, Request, Get, Allocate, Put, Update

(* What a thread knows of its entry stays true when others take steps.       *)
LEMMA ThreadStep ==
  ASSUME IndInv, NEW t \in Threads, Accept(t) \/ Step(t)
  PROVE  ThreadInv'
<1> USE KeysAssumption DEF IndInv, TypeOK, ThreadInv, HasEntry, Goto, table,
    locals, Labels, NewLabels, PutLabels, GetLabels, UpdateLabels
<1>1. CASE Accept(t)
  BY <1>1 DEF Accept
<1>2. CASE RecvNothing(t)
  BY <1>2 DEF RecvNothing
<1>3. CASE GetCheckLock(t)
  BY <1>3 DEF GetCheckLock
<1>4. CASE GetLoadGetters(t)
  BY <1>4 DEF GetLoadGetters
<1>5. CASE GetStoreGetters(t)
  BY <1>5 DEF GetStoreGetters
<1>6. CASE GetReadVno(t)
  BY <1>6 DEF GetReadVno
<1>7. CASE GetSend(t)
  BY <1>7 DEF GetSend
<1>8. CASE GetDecrGetters(t)
  BY <1>8 DEF GetDecrGetters
<1>9. CASE LockNumKeys(t)
  BY <1>9 DEF LockNumKeys
<1>10. CASE TakeSlot(t)
  BY <1>10, MaxKeysAssumption DEF TakeSlot, TableInv, Slots
<1>11. CASE IncrNumKeys(t)
  BY <1>11, MaxKeysAssumption DEF IncrNumKeys, AllocInv, Slots
<1>12. CASE UnlockNumKeys(t)
  BY <1>12 DEF UnlockNumKeys
<1>13. CASE initKeyValStruct(t)
  BY <1>13 DEF initKeyValStruct
<1>14. CASE PutReadVno(t)
  BY <1>14 DEF PutReadVno
<1>15. CASE PutCheckLock(t)
  BY <1>15 DEF PutCheckLock
<1>16. CASE PutCheckGetters(t)
  BY <1>16 DEF PutCheckGetters
<1>17. CASE PutSetLock(t)
  BY <1>17 DEF PutSetLock
<1>18. CASE PutSendVote(t)
  BY <1>18 DEF PutSendVote
<1>19. CASE PutGiveUp(t)
  BY <1>19 DEF PutGiveUp
<1>20. CASE PutRecvRelease(t)
  BY <1>20 DEF PutRecvRelease
<1>21. CASE UpdateFind(t)
  BY <1>21, SearchKeyType DEF UpdateFind, Updatable
<1>22. CASE UpdateRefused(t)
  BY <1>22 DEF UpdateRefused, AfterUpdate
<1>23. CASE UpdateValue(t)
  BY <1>23 DEF UpdateValue
<1>24. CASE UpdateVno(t)
  BY <1>24 DEF UpdateVno
<1>25. CASE SendUpdateDone(t)
  BY <1>25 DEF SendUpdateDone, AfterUpdate
<1>26. CASE ReleaseLock(t)
  BY <1>26 DEF ReleaseLock
<1>27. ASSUME NEW k \in Keys, RecvGet(t, k) PROVE ThreadInv'
  BY <1>27, SearchKeyType DEF RecvGet
<1>28. ASSUME NEW k \in Keys, RecvPut(t, k) PROVE ThreadInv'
  BY <1>28, SearchKeyType DEF RecvPut
<1>29. ASSUME NEW k \in Keys, RecvReleaseRequest(t, k) PROVE ThreadInv'
  BY <1>29 DEF RecvReleaseRequest
<1>30. ASSUME NEW k \in Keys, NEW v \in Vals, NEW n \in Vnos,
              RecvUpdateRequest(t, k, v, n)
       PROVE  ThreadInv'
  BY <1>30 DEF RecvUpdateRequest, Values
<1>31. ASSUME NEW v \in Vals, NEW n \in Vnos, PutRecvUpdate(t, v, n)
       PROVE  ThreadInv'
  BY <1>31 DEF PutRecvUpdate, Values, NewEntriesPrivate
<1> QED BY <1>1, <1>2, <1>3, <1>4, <1>5, <1>6, <1>7, <1>8, <1>9, <1>10, <1>11,
    <1>12, <1>13, <1>14, <1>15, <1>16, <1>17, <1>18, <1>19, <1>20, <1>21,
    <1>22, <1>23, <1>24, <1>25, <1>26, <1>27, <1>28, <1>29, <1>30, <1>31
  DEF Step, Request, Get, Allocate, Put, Update

(* A value is stored only under the name it was sent for.                    *)
LEMMA ValueStep ==
  ASSUME IndInv, NEW t \in Threads, Accept(t) \/ Step(t)
  PROVE  ValueOfKey'
<1> USE DEF IndInv, TypeOK, ValueOfKey, Goto
<1>1. CASE UNCHANGED <<key, value, sent, reqKey>>
  BY <1>1
<1>2. CASE Request(t)
  BY <1>2 DEF Request, RecvGet, RecvPut, RecvReleaseRequest,
              RecvUpdateRequest, ThreadInv, None, table
<1>3. CASE GetSend(t)
  <2>1. value[kv[t]] # NoVal => value[kv[t]][1] = reqKey[t]
    BY <1>3, KeysAssumption
       DEF GetSend, ThreadInv, GetLabels, NewLabels, PutLabels, UpdateLabels,
           Labels
  <2>2. sent'[t] = Answer(reg[t], value[kv[t]])
    BY <1>3 DEF GetSend
  <2> QED BY <1>3, <2>1, <2>2 DEF GetSend, Answer, table
<1>4. CASE initKeyValStruct(t)
  BY <1>4 DEF initKeyValStruct, ThreadInv, HasEntry, NewLabels, locals
<1>5. CASE PutSendVote(t)
  BY <1>5 DEF PutSendVote, Vote, table
<1>6. ASSUME NEW v \in Vals, NEW n \in Vnos, PutRecvUpdate(t, v, n)
      PROVE  ValueOfKey'
  BY <1>6 DEF PutRecvUpdate, ThreadInv, TableInv, HasEntry, Labels, PutLabels
<1>7. CASE UpdateValue(t)
  BY <1>7 DEF UpdateValue, ThreadInv, locals
<1>8. CASE SendUpdateDone(t)
  BY <1>8 DEF SendUpdateDone, UpdateDone, table
<1> QED BY <1>1, <1>2, <1>3, <1>4, <1>5, <1>6, <1>7, <1>8
  DEF Step, Request, RecvGet, RecvPut, RecvReleaseRequest, RecvUpdateRequest,
      Accept, RecvNothing, Get, GetCheckLock, GetLoadGetters, GetStoreGetters,
      GetReadVno, GetSend, GetDecrGetters, Allocate, LockNumKeys, TakeSlot,
      IncrNumKeys, UnlockNumKeys, Put, PutReadVno, PutCheckLock,
      PutCheckGetters, PutSetLock, PutSendVote, PutGiveUp, PutRecvRelease,
      Update, UpdateFind, UpdateRefused, UpdateVno, SendUpdateDone,
      ReleaseLock, Goto, table, locals

(* The invariant is inductive.                                               *)
LEMMA IndInvStep == IndInv /\ [Next]_vars => IndInv'
<1> SUFFICES ASSUME IndInv, [Next]_vars PROVE IndInv'
  OBVIOUS
<1>1. CASE Next
  <2>1. PICK t \in Threads : Accept(t) \/ Step(t)
    BY <1>1 DEF Next
  <2> QED BY <2>1, TypeStep, AllocStep, TableStep, PrivateStep, ThreadStep,
             ValueStep DEF IndInv
<1>2. CASE UNCHANGED vars
  BY <1>2 DEF vars, table, locals, IndInv, TypeOK, AllocInv, InAlloc, TableInv,
     ThreadInv, NewEntriesPrivate, ValueOfKey, HasEntry
<1> QED BY <1>1, <1>2

(* So it holds in every state.                                               *)
LEMMA Inductive == Spec => []IndInv
BY InitIndInv, IndInvStep, PTL DEF Spec

(* Every variable keeps its type, for any number of connections, keys and  *)
(* entries: kv points into the table, numKeys stays within it.             *)
THEOREM TypeCorrect == Spec => []TypeOK
<1>1. IndInv => TypeOK
  BY DEF IndInv
<1> QED BY <1>1, Inductive, PTL

(* numKeysLock gives every allocating PUT an entry of its own              *)
(* (Server.c:179-184).                                                     *)
THEOREM EntriesPrivate == Spec => []NewEntriesPrivate
<1>1. IndInv => NewEntriesPrivate
  BY DEF IndInv
<1> QED BY <1>1, Inductive, PTL

(* Whatever threads interleave, no entry and no answer to a GET holds a    *)
(* value sent for another key (Server.c:16-37, 72-85, 237-239).            *)
THEOREM ValuesStayWithTheirKey == Spec => []ValueOfKey
<1>1. IndInv => ValueOfKey
  BY DEF IndInv
<1> QED BY <1>1, Inductive, PTL

-----------------------------------------------------------------------------
(* The entries of a name are the same after a step, unless the step is the *)
(* strcpy of a name into an entry, for that name: then there is one more.  *)
Renames(t, k) == k = reqKey[t] /\ \E v \in Vals, n \in Vnos : PutRecvUpdate(t,
    v, n)

LEMMA NamedStep ==
  ASSUME IndInv, NEW t \in Threads, Accept(t) \/ Step(t), NEW k \in Keys
  PROVE  /\ Named(k) \subseteq Named(k)'
         /\ Renames(t, k) \/ Named(k)' = Named(k)
<1> USE KeysAssumption, MaxKeysAssumption DEF IndInv, TypeOK, Slots, Goto
<1>1. CASE UNCHANGED <<key, numKeys>>
  BY <1>1 DEF Named
<1>2. CASE IncrNumKeys(t)
  BY <1>2 DEF IncrNumKeys, Named, TableInv, table
<1>3. CASE initKeyValStruct(t)
  <2>1. key' = key
    BY <1>3 DEF initKeyValStruct, ThreadInv, HasEntry
  <2> QED BY <1>3, <2>1 DEF Named, initKeyValStruct
<1>4. ASSUME NEW v \in Vals, NEW n \in Vnos, PutRecvUpdate(t, v, n)
      PROVE  /\ Named(k) \subseteq Named(k)'
             /\ k = reqKey[t] \/ Named(k)' = Named(k)
  BY <1>4 DEF PutRecvUpdate, Named, ThreadInv, HasEntry
<1> QED BY <1>1, <1>2, <1>3, <1>4
  DEF Renames, Step, Request, RecvGet, RecvPut, RecvReleaseRequest,
      RecvUpdateRequest, Accept, RecvNothing, Get, GetCheckLock,
      GetLoadGetters, GetStoreGetters, GetReadVno, GetSend, GetDecrGetters,
      Allocate, LockNumKeys, TakeSlot, UnlockNumKeys, Put, PutReadVno,
      PutCheckLock, PutCheckGetters, PutSetLock, PutSendVote, PutGiveUp,
      PutRecvRelease, Update, UpdateFind, UpdateRefused, UpdateValue,
      UpdateVno, SendUpdateDone, ReleaseLock, table, locals

(* searchKey after the step, in terms of the entries of the name then.     *)
LEMMA SearchKeyNext ==
  ASSUME NEW k
  PROVE  \/ searchKey(k)' = NoSlot /\ Named(k)' = {}
         \/ searchKey(k)' \in Named(k)' /\ \A j \in Named(k)' : searchKey(k)'
             <= j
<1>1. CASE Named(k)' = {}
  BY <1>1 DEF searchKey
<1>2. CASE Named(k)' # {}
  <2>1. Named(k)' \in SUBSET Nat
    BY MaxKeysAssumption DEF Named, Slots
  <2>2. \E i \in Named(k)' : \A j \in Named(k)' : i <= j
    BY <1>2, <2>1, NatMin, Zenon
  <2> QED BY <1>2, <2>2 DEF searchKey
<1> QED BY <1>1, <1>2

(* Same entries of a name, same result.                                      *)
LEMMA SearchKeySame ==
  ASSUME NEW k, Named(k)' = Named(k)
  PROVE  searchKey(k)' = searchKey(k)
BY DEF searchKey

(* A key never loses its entry, and what searchKey finds for it only moves *)
(* towards the front: by the first PUT of a key that another PUT has       *)
(* created meanwhile (Server.c:4-14, 238).                                 *)
THEOREM KeptKeys == Spec => KeysAreKept
<1> DEFINE Kept == \A k \in Keys : searchKey(k) # NoSlot =>
                     searchKey(k)' # NoSlot /\ searchKey(k)' <= searchKey(k)
<1>1. IndInv /\ Next => Kept
  <2> SUFFICES ASSUME IndInv, NEW t \in Threads, Accept(t) \/ Step(t),
                      NEW k \in Keys, searchKey(k) # NoSlot
               PROVE  searchKey(k)' # NoSlot /\ searchKey(k)' <= searchKey(k)
    BY DEF Next
  <2>1. searchKey(k) \in Named(k)'
    BY SearchKey, NamedStep
  <2>2. searchKey(k)' \in Named(k)' /\ searchKey(k)' <= searchKey(k)
    BY <2>1, SearchKeyNext
  <2>3. Named(k)' \subseteq Nat
    BY MaxKeysAssumption DEF Named, Slots
  <2> QED BY <2>2, <2>3 DEF NoSlot
<1>2. IndInv /\ [Next]_vars => [Kept]_vars
  BY <1>1
<1> QED BY <1>2, Inductive, PTL DEF Spec, KeysAreKept

-----------------------------------------------------------------------------
(* A thread that will release keeps to its path until it does.             *)
LEMMA WillReleaseStep ==
  ASSUME IndInv, NEW t \in Threads, Accept(t) \/ Step(t),
         NEW u \in Threads, WillRelease(u)
  PROVE  /\ reqKey'[u] = reqKey[u]
         /\ WillRelease(u)' \/ (u = t /\ ReleaseLock(t))
<1> USE DEF IndInv, TypeOK, WillRelease, UpdateLabels, Goto, table, locals
<1>1. CASE u # t
  BY <1>1 DEF Step, Accept, RecvNothing, Request, RecvGet, RecvPut,
     RecvReleaseRequest, RecvUpdateRequest, Get, GetCheckLock, GetLoadGetters,
     GetStoreGetters, GetReadVno, GetSend, GetDecrGetters, Allocate,
     LockNumKeys, TakeSlot, IncrNumKeys, UnlockNumKeys, initKeyValStruct, Put,
     PutReadVno, PutCheckLock, PutCheckGetters, PutSetLock, PutSendVote,
     PutGiveUp, PutRecvRelease, PutRecvUpdate, Update, UpdateFind,
     UpdateRefused, UpdateValue, UpdateVno, SendUpdateDone, ReleaseLock
<1>2. CASE u = t
  BY <1>2 DEF Step, Accept, RecvNothing, Request, RecvGet, RecvPut,
     RecvReleaseRequest, RecvUpdateRequest, Get, GetCheckLock, GetLoadGetters,
     GetStoreGetters, GetReadVno, GetSend, GetDecrGetters, Allocate,
     LockNumKeys, TakeSlot, IncrNumKeys, UnlockNumKeys, initKeyValStruct, Put,
     PutReadVno, PutCheckLock, PutCheckGetters, PutSetLock, PutSendVote,
     PutGiveUp, PutRecvRelease, PutRecvUpdate, Update, UpdateFind,
     UpdateRefused, UpdateValue, UpdateVno, SendUpdateDone, ReleaseLock,
     AfterUpdate
<1> QED BY <1>1, <1>2

(* Only PutSetLock locks an entry.                                         *)
LEMMA LockStep ==
  ASSUME IndInv, NEW t \in Threads, Accept(t) \/ Step(t),
         NEW i \in Slots, lock[i] # 1, lock'[i] = 1
  PROVE  PutSetLock(t) /\ kv[t] = i
BY MaxKeysAssumption
   DEF IndInv, TypeOK, Step, Accept, RecvNothing, Request, RecvGet, RecvPut,
     RecvReleaseRequest, RecvUpdateRequest, Get, GetCheckLock, GetLoadGetters,
     GetStoreGetters, GetReadVno, GetSend, GetDecrGetters, Allocate,
     LockNumKeys, TakeSlot, IncrNumKeys, UnlockNumKeys, initKeyValStruct, Put,
     PutReadVno, PutCheckLock, PutCheckGetters, PutSetLock, PutSendVote,
     PutGiveUp, PutRecvRelease, PutRecvUpdate, Update, UpdateFind,
     UpdateRefused, UpdateValue, UpdateVno, SendUpdateDone, ReleaseLock,
     table, locals

(* Every step keeps NoOrphanLock: the PUT that locks, or renames an entry,   *)
(* is itself the one that will release.                                      *)
LEMMA OrphanStep ==
  ASSUME IndInv, NoOrphanLock, NEW t \in Threads, Accept(t) \/ Step(t)
  PROVE  NoOrphanLock'
<1> SUFFICES ASSUME NEW k \in Keys, Locked(k)'
             PROVE  \E u \in Threads : WillRelease(u)' /\ reqKey'[u] = k
  BY DEF NoOrphanLock
<1>1. CASE Renames(t, k)
  BY <1>1 DEF Renames, PutRecvUpdate, Goto, WillRelease, UpdateLabels, IndInv,
              TypeOK, ThreadInv, PutLabels
<1>2. CASE ~ Renames(t, k)
  <2> DEFINE i == searchKey(k)
  <2>1. searchKey(k)' = i
    BY <1>2, NamedStep, SearchKeySame
  <2>2. i # NoSlot /\ lock'[i] = 1
    BY <2>1 DEF Locked
  <2>3. i \in Slots /\ key[i] = k
    BY <2>2, SearchKeyType DEF IndInv
  <2>4. CASE lock[i] = 1
    <3>1. PICK u \in Threads : WillRelease(u) /\ reqKey[u] = k
      BY <2>2, <2>4 DEF NoOrphanLock, Locked
    <3>2. ~ (u = t /\ ReleaseLock(t))
      BY <2>2, <2>3, <3>1 DEF ReleaseLock, IndInv, TypeOK
    <3> QED BY <3>1, <3>2, WillReleaseStep
  <2>5. CASE lock[i] # 1
    <3>1. PutSetLock(t) /\ kv[t] = i
      BY <2>2, <2>3, <2>5, LockStep
    <3>2. reqKey[t] = k /\ op[t] = "PUT"
      BY <2>3, <3>1, KeysAssumption
         DEF PutSetLock, Goto, IndInv, ThreadInv, HasEntry, PutLabels
    <3> QED BY <3>1, <3>2 DEF PutSetLock, Goto, WillRelease, locals, IndInv,
        TypeOK
  <2> QED BY <2>4, <2>5
<1> QED BY <1>1, <1>2

(* A visible entry is never left locked with no PUT under way that will    *)
(* unlock it: releaselockResponse goes by name, so it clears the entry     *)
(* that requests see even when it is not the one the thread locked         *)
(* (Server.c:213-281, 317-330).                                            *)
THEOREM NoOrphanLocks == Spec => []NoOrphanLock
<1>1. Init => NoOrphanLock
  BY SearchKey, MaxKeysAssumption DEF Init, NoOrphanLock, Locked, Named
<1>2. IndInv /\ NoOrphanLock /\ [Next]_vars => NoOrphanLock'
  <2>1. ASSUME IndInv, NoOrphanLock, Next PROVE NoOrphanLock'
    BY <2>1, OrphanStep DEF Next
  <2>2. ASSUME NoOrphanLock, UNCHANGED vars PROVE NoOrphanLock'
    BY <2>2 DEF vars, table, locals, NoOrphanLock, Locked, WillRelease,
                searchKey, Named
  <2> QED BY <2>1, <2>2
<1> QED BY <1>1, <1>2, Inductive, PTL DEF Spec

=============================================================================
