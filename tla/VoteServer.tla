----------------------------- MODULE VoteServer -----------------------------
(***************************************************************************)
(* One replica of the voting key-value store (Server.c).                   *)
(*                                                                         *)
(* The main loop accepts a connection and gives it a thread; the threads   *)
(* share the table keyVals without a lock of their own, except around the  *)
(* allocation of a new entry.  Every access to shared memory that another  *)
(* thread can come between is an action of its own; a scan of the table by *)
(* searchKey is one step together with the access it is made for.          *)
(*                                                                         *)
(* A connection is one member of Threads.  Its peer is any program that    *)
(* speaks the protocol of Vote.h: it sends one request, answers a vote     *)
(* with an update or with anything else, or stays silent until recvTimeout *)
(* gives up; what the peer sends is chosen by the actions.                 *)
(***************************************************************************)
EXTENDS Integers, FiniteSets

CONSTANTS
  Threads,    \* the connections, one server thread each
  Keys,       \* key names
  InitKey,    \* the key that main() installs ("key1")
  Vals,       \* payloads of values
  InitVal,    \* the payload that main() installs ("value1")
  Vnos,       \* version numbers an update message may carry
  MaxKeys,    \* entries of the table (MAXKEYS)
  Lier,       \* the server was started with lier = 1
  NoKey,      \* the empty key name of an entry that has none yet
  NoVal       \* the empty value of such an entry

ASSUME KeysAssumption == InitKey \in Keys /\ NoKey \notin Keys
ASSUME ValsAssumption == InitVal \in Vals /\ NoVal \notin Keys \X Vals
ASSUME VnosAssumption == Vnos \subseteq Nat
ASSUME MaxKeysAssumption == MaxKeys \in Nat \ {0}
ASSUME LierAssumption == Lier \in BOOLEAN

(* How much a lying server adds to the version number of its vote.         *)
LIER_VNO_INCR == 10

Slots == 0 .. MaxKeys - 1
NoSlot == -1

(* A value remembers the key it was sent for.                              *)
Values == Keys \X Vals

VARIABLES
  key, value, vno, lock, numGetters,  \* the fields of keyVals[i]
  numKeys,                            \* entries in use
  numKeysLock,                        \* 1 = free, 0 = taken
  pc,       \* what each thread does next
  op,       \* the request it serves
  reqKey,   \* the key named in the request
  kv,       \* its pointer into the table (keyval, keyToUpdate)
  reg,      \* an integer it has loaded and not used yet
  msg,      \* value and version number of the update it received
  sent      \* the last message it sent to its peer

table == <<key, value, vno, lock, numGetters>>
locals == <<op, reqKey, kv, reg, msg, sent>>
vars == <<table, numKeys, numKeysLock, pc, locals>>

None == [type |-> "none"]
Vote(n) == [type |-> "vote", vno |-> n]
Answer(n, v) == [type |-> "value", vno |-> n, value |-> v, lie |-> Lier]
UpdateDone == [type |-> "updatedone"]
NoUpdate == [value |-> NoVal, vno |-> 0]

(***************************************************************************)
(* main() installs one entry; the rest of the static table is zero.        *)
(***************************************************************************)
Init ==
  /\ key = [i \in Slots |-> IF i = 0 THEN InitKey ELSE NoKey]
  /\ value = [i \in Slots |-> IF i = 0 THEN <<InitKey, InitVal>> ELSE NoVal]
  /\ vno = [i \in Slots |-> IF i = 0 THEN 1 ELSE 0]
  /\ lock = [i \in Slots |-> 0]
  /\ numGetters = [i \in Slots |-> 0]
  /\ numKeys = 1
  /\ numKeysLock = 1
  /\ pc = [t \in Threads |-> "new"]
  /\ op = [t \in Threads |-> "none"]
  /\ reqKey = [t \in Threads |-> NoKey]
  /\ kv = [t \in Threads |-> NoSlot]
  /\ reg = [t \in Threads |-> 0]
  /\ msg = [t \in Threads |-> NoUpdate]
  /\ sent = [t \in Threads |-> None]

(***************************************************************************)
(* The first entry with that name.                                         *)
(***************************************************************************)
(* Mutant: the comparison of the names is gone.                            *)
Named_Any(k) == {i \in Slots : i < numKeys}

Named(k) == {i \in Slots : i < numKeys /\ key[i] = k}

searchKey(k) ==
  IF Named(k) = {} THEN NoSlot
  ELSE CHOOSE i \in Named(k) : \A j \in Named(k) : i <= j

Goto(t, from, to) ==
  /\ pc[t] = from
  /\ pc' = [pc EXCEPT ![t] = to]

-----------------------------------------------------------------------------
(* The thread of a connection.                                             *)

(* tcpServer: a connection that isReply lets through gets a thread.        *)
Accept(t) ==
  /\ Goto(t, "new", "recv")
  /\ UNCHANGED <<table, numKeys, numKeysLock, locals>>

(* serverThread: the peer goes away without a request, or sends one of an  *)
(* unknown type: nothing but the close.                                    *)
RecvNothing(t) ==
  /\ Goto(t, "recv", "done")
  /\ UNCHANGED <<table, numKeys, numKeysLock, locals>>

(* responseServer: the request decides the handler, which starts with a    *)
(* search for the key.                                                     *)
RecvGet(t, k) ==
  /\ Goto(t, "recv", IF searchKey(k) = NoSlot THEN "done" ELSE "get_check")
  /\ op' = [op EXCEPT ![t] = "GET"]
  /\ reqKey' = [reqKey EXCEPT ![t] = k]
  /\ kv' = [kv EXCEPT ![t] = searchKey(k)]
  /\ UNCHANGED <<table, numKeys, numKeysLock, reg, msg, sent>>

RecvPut(t, k) ==
  /\ Goto(t, "recv", IF searchKey(k) = NoSlot THEN "new_lock" ELSE "put_vno")
  /\ op' = [op EXCEPT ![t] = "PUT"]
  /\ reqKey' = [reqKey EXCEPT ![t] = k]
  /\ kv' = [kv EXCEPT ![t] = searchKey(k)]
  /\ UNCHANGED <<table, numKeys, numKeysLock, reg, msg, sent>>

RecvUpdateRequest(t, k, v, n) ==
  /\ Goto(t, "recv", "upd_find")
  /\ op' = [op EXCEPT ![t] = "update"]
  /\ reqKey' = [reqKey EXCEPT ![t] = k]
  /\ msg' = [msg EXCEPT ![t] = [value |-> <<k, v>>, vno |-> n]]
  /\ UNCHANGED <<table, numKeys, numKeysLock, kv, reg, sent>>

RecvReleaseRequest(t, k) ==
  /\ Goto(t, "recv", "release")
  /\ op' = [op EXCEPT ![t] = "releaselock"]
  /\ reqKey' = [reqKey EXCEPT ![t] = k]
  /\ UNCHANGED <<table, numKeys, numKeysLock, kv, reg, msg, sent>>

-----------------------------------------------------------------------------
(* getResponse.  The calls on condWaitLock are commented out.              *)

GetCheckLock(t) ==
  /\ Goto(t, "get_check", IF lock[kv[t]] = 0 THEN "get_load" ELSE "get_decr")
  /\ UNCHANGED <<table, numKeys, numKeysLock, locals>>

(* numGetters++ is a load and a store.                                     *)
GetLoadGetters(t) ==
  /\ Goto(t, "get_load", "get_store")
  /\ reg' = [reg EXCEPT ![t] = numGetters[kv[t]]]
  /\ UNCHANGED <<table, numKeys, numKeysLock, op, reqKey, kv, msg, sent>>

GetStoreGetters(t) ==
  /\ Goto(t, "get_store", "get_vno")
  /\ numGetters' = [numGetters EXCEPT ![kv[t]] = reg[t] + 1]
  /\ UNCHANGED <<key, value, vno, lock, numKeys, numKeysLock, locals>>

(* sprintf is given the version number and reads the value later.          *)
GetReadVno(t) ==
  /\ Goto(t, "get_vno", "get_send")
  /\ reg' = [reg EXCEPT ![t] = vno[kv[t]]]
  /\ UNCHANGED <<table, numKeys, numKeysLock, op, reqKey, kv, msg, sent>>

GetSend(t) ==
  /\ Goto(t, "get_send", "get_decr")
  /\ sent' = [sent EXCEPT ![t] = Answer(reg[t], value[kv[t]])]
  /\ UNCHANGED <<table, numKeys, numKeysLock, op, reqKey, kv, reg, msg>>

(* atomicDecr: the loop ends with the one compare-and-swap that succeeds.  *)
GetDecrGetters(t) ==
  /\ Goto(t, "get_decr", "done")
  /\ numGetters' = [numGetters EXCEPT ![kv[t]] = @ - 1]
  /\ UNCHANGED <<key, value, vno, lock, numKeys, numKeysLock, locals>>

-----------------------------------------------------------------------------
(* putResponse, a key without an entry: take numKeysLock (lll_lock spins   *)
(* until its compare-and-swap finds 1), take the next entry, initialise it *)
(* once the lock is released.  The code has no test for a full table: the  *)
(* model stops at the bound MaxKeys, past which the write is undefined.    *)

(* Mutant: the lock is taken without waiting for it to be free.            *)
LockNumKeys_NoWait(t) ==
  /\ Goto(t, "new_lock", "new_slot")
  /\ numKeysLock' = 0
  /\ UNCHANGED <<table, numKeys, locals>>

LockNumKeys(t) ==
  /\ Goto(t, "new_lock", "new_slot")
  /\ numKeysLock = 1
  /\ numKeysLock' = 0
  /\ UNCHANGED <<table, numKeys, locals>>

(* Mutants: one entry too far, one entry short.                            *)
TakeSlot_Past(t) ==
  /\ Goto(t, "new_slot", "new_incr")
  /\ kv' = [kv EXCEPT ![t] = numKeys + 1]
  /\ UNCHANGED <<table, numKeys, numKeysLock, op, reqKey, reg, msg, sent>>
TakeSlot_Last(t) ==
  /\ Goto(t, "new_slot", "new_incr")
  /\ numKeys < MaxKeys
  /\ kv' = [kv EXCEPT ![t] = numKeys - 1]
  /\ UNCHANGED <<table, numKeys, numKeysLock, op, reqKey, reg, msg, sent>>

TakeSlot(t) ==
  /\ Goto(t, "new_slot", "new_incr")
  /\ numKeys < MaxKeys
  /\ kv' = [kv EXCEPT ![t] = numKeys]
  /\ UNCHANGED <<table, numKeys, numKeysLock, op, reqKey, reg, msg, sent>>

IncrNumKeys(t) ==
  /\ Goto(t, "new_incr", "new_unlock")
  /\ numKeys' = numKeys + 1
  /\ UNCHANGED <<table, numKeysLock, locals>>

(* Mutant: the unlock is forgotten.                                        *)
UnlockNumKeys_Never(t) ==
  /\ Goto(t, "new_unlock", "new_init")
  /\ UNCHANGED <<table, numKeys, numKeysLock, locals>>

UnlockNumKeys(t) ==
  /\ Goto(t, "new_unlock", "new_init")
  /\ numKeysLock' = 1
  /\ UNCHANGED <<table, numKeys, locals>>

initKeyValStruct(t) ==
  /\ Goto(t, "new_init", "put_vno")
  /\ key' = [key EXCEPT ![kv[t]] = NoKey]
  /\ value' = [value EXCEPT ![kv[t]] = NoVal]
  /\ vno' = [vno EXCEPT ![kv[t]] = 0]
  /\ lock' = [lock EXCEPT ![kv[t]] = 0]
  /\ numGetters' = [numGetters EXCEPT ![kv[t]] = 0]
  /\ UNCHANGED <<numKeys, numKeysLock, locals>>

-----------------------------------------------------------------------------
(* putResponse, from the text of the vote to the release of the lock.      *)

(* The version number of the vote is read before the lock is looked at.    *)
PutReadVno(t) ==
  /\ Goto(t, "put_vno", "put_check_lock")
  /\ reg' = [reg EXCEPT ![t] = vno[kv[t]] + (IF Lier THEN LIER_VNO_INCR ELSE 0)]
  /\ UNCHANGED <<table, numKeys, numKeysLock, op, reqKey, kv, msg, sent>>

PutCheckLock(t) ==
  /\ Goto(t, "put_check_lock",
          IF lock[kv[t]] = 0 THEN "put_check_getters" ELSE "done")
  /\ UNCHANGED <<table, numKeys, numKeysLock, locals>>

PutCheckGetters(t) ==
  /\ Goto(t, "put_check_getters",
          IF numGetters[kv[t]] = 0 THEN "put_set_lock" ELSE "done")
  /\ UNCHANGED <<table, numKeys, numKeysLock, locals>>

PutSetLock(t) ==
  /\ Goto(t, "put_set_lock", "put_vote")
  /\ lock' = [lock EXCEPT ![kv[t]] = 1]
  /\ UNCHANGED <<key, value, vno, numGetters, numKeys, numKeysLock, locals>>

PutSendVote(t) ==
  /\ Goto(t, "put_vote", "put_wait")
  /\ sent' = [sent EXCEPT ![t] = Vote(reg[t])]
  /\ UNCHANGED <<table, numKeys, numKeysLock, op, reqKey, kv, reg, msg>>

(* The client answers the vote with an update for the key of its request,  *)
(* whose name goes into the entry.                                         *)
PutRecvUpdate(t, v, n) ==
  /\ Goto(t, "put_wait", "upd_find")
  /\ msg' = [msg EXCEPT ![t] = [value |-> <<reqKey[t], v>>, vno |-> n]]
  /\ key' = [key EXCEPT ![kv[t]] = reqKey[t]]
  /\ UNCHANGED <<value, vno, lock, numGetters, numKeys, numKeysLock,
                 op, reqKey, kv, reg, sent>>

(* Mutant: a timeout returns without the release.                          *)
PutGiveUp_KeepLock(t) ==
  /\ Goto(t, "put_wait", "done")
  /\ UNCHANGED <<table, numKeys, numKeysLock, locals>>

(* Another message, a closed connection or a timeout.                      *)
PutGiveUp(t) ==
  /\ Goto(t, "put_wait", "release")
  /\ UNCHANGED <<table, numKeys, numKeysLock, locals>>

(* releaselock, another message, a closed connection or a timeout: all of  *)
(* them end in releaselockResponse.                                        *)
PutRecvRelease(t) ==
  /\ Goto(t, "put_wait_release", "release")
  /\ UNCHANGED <<table, numKeys, numKeysLock, locals>>

-----------------------------------------------------------------------------
(* updateResponse, called by putResponse and for an update request.        *)

AfterUpdate(t) == IF op[t] = "PUT" THEN "put_wait_release" ELSE "done"

(* updateKey looks the entry up by name again, and refuses one that is not *)
(* locked; no answer is sent then.                                         *)
Updatable(k) == searchKey(k) # NoSlot /\ lock[searchKey(k)] # 0

UpdateFind(t) ==
  /\ Updatable(reqKey[t])
  /\ Goto(t, "upd_find", "upd_value")
  /\ kv' = [kv EXCEPT ![t] = searchKey(reqKey[t])]
  /\ UNCHANGED <<table, numKeys, numKeysLock, op, reqKey, reg, msg, sent>>

UpdateRefused(t) ==
  /\ ~ Updatable(reqKey[t])
  /\ Goto(t, "upd_find", AfterUpdate(t))
  /\ UNCHANGED <<table, numKeys, numKeysLock, locals>>

UpdateValue(t) ==
  /\ Goto(t, "upd_value", "upd_vno")
  /\ value' = [value EXCEPT ![kv[t]] = msg[t].value]
  /\ UNCHANGED <<key, vno, lock, numGetters, numKeys, numKeysLock, locals>>

UpdateVno(t) ==
  /\ Goto(t, "upd_vno", "upd_done")
  /\ vno' = [vno EXCEPT ![kv[t]] = msg[t].vno]
  /\ UNCHANGED <<key, value, lock, numGetters, numKeys, numKeysLock, locals>>

SendUpdateDone(t) ==
  /\ Goto(t, "upd_done", AfterUpdate(t))
  /\ sent' = [sent EXCEPT ![t] = UpdateDone]
  /\ UNCHANGED <<table, numKeys, numKeysLock, op, reqKey, kv, reg, msg>>

(* releaselockResponse: by name too, so not always the entry that this     *)
(* thread locked.                                                          *)
ReleaseLock(t) ==
  LET i == searchKey(reqKey[t])
  IN  /\ Goto(t, "release", "done")
      /\ lock' = IF i = NoSlot THEN lock ELSE [lock EXCEPT ![i] = 0]
      /\ UNCHANGED <<key, value, vno, numGetters, numKeys, numKeysLock, locals>>

-----------------------------------------------------------------------------
Request(t) ==
  \E k \in Keys :
    \/ RecvGet(t, k)
    \/ RecvPut(t, k)
    \/ RecvReleaseRequest(t, k)
    \/ \E v \in Vals, n \in Vnos : RecvUpdateRequest(t, k, v, n)

Get(t) ==
  \/ GetCheckLock(t) \/ GetLoadGetters(t) \/ GetStoreGetters(t)
  \/ GetReadVno(t) \/ GetSend(t) \/ GetDecrGetters(t)

Allocate(t) ==
  \/ LockNumKeys(t) \/ TakeSlot(t) \/ IncrNumKeys(t) \/ UnlockNumKeys(t)
  \/ initKeyValStruct(t)

Put(t) ==
  \/ PutReadVno(t) \/ PutCheckLock(t) \/ PutCheckGetters(t) \/ PutSetLock(t)
  \/ PutSendVote(t) \/ PutGiveUp(t) \/ PutRecvRelease(t)
  \/ \E v \in Vals, n \in Vnos : PutRecvUpdate(t, v, n)

Update(t) ==
  \/ UpdateFind(t) \/ UpdateRefused(t) \/ UpdateValue(t) \/ UpdateVno(t)
  \/ SendUpdateDone(t) \/ ReleaseLock(t)

(* Everything a thread does once it exists.                                *)
Step(t) ==
  RecvNothing(t) \/ Request(t) \/ Get(t) \/ Allocate(t) \/ Put(t) \/ Update(t)

Next == \E t \in Threads : Accept(t) \/ Step(t)

Spec == Init /\ [][Next]_vars

(* The operating system schedules every thread that serves a request, and  *)
(* recvTimeout bounds its waits for the peer.  No connection has to be     *)
(* made, and the recv of the request has no timeout: a peer may say        *)
(* nothing for ever.                                                       *)
Serve(t) == Get(t) \/ Allocate(t) \/ Put(t) \/ Update(t)

FairSpec == Spec /\ \A t \in Threads : WF_vars(Serve(t))

-----------------------------------------------------------------------------
PutLabels ==
  {"put_vno", "put_check_lock", "put_check_getters", "put_set_lock",
   "put_vote", "put_wait", "put_wait_release"}
NewLabels == {"new_lock", "new_slot", "new_incr", "new_unlock", "new_init"}
GetLabels ==
  {"get_check", "get_load", "get_store", "get_vno", "get_send", "get_decr"}
UpdateLabels == {"upd_find", "upd_value", "upd_vno", "upd_done", "release"}
Labels ==
  {"new", "recv", "done"} \cup NewLabels \cup PutLabels \cup GetLabels
    \cup UpdateLabels

Messages ==
  {None, UpdateDone} \cup [type : {"vote"}, vno : Int]
    \cup [type : {"value"}, vno : Int, value : Values \cup {NoVal}, lie : {Lier}]

(* The types of the table and of the threads' variables.                   *)
TypeOK ==
  /\ key \in [Slots -> Keys \cup {NoKey}]
  /\ value \in [Slots -> Values \cup {NoVal}]
  /\ vno \in [Slots -> Nat]
  /\ lock \in [Slots -> {0, 1}]
  /\ numGetters \in [Slots -> Int]
  /\ numKeys \in 1 .. MaxKeys
  /\ numKeysLock \in {0, 1}
  /\ pc \in [Threads -> Labels]
  /\ op \in [Threads -> {"none", "GET", "PUT", "update", "releaselock"}]
  /\ reqKey \in [Threads -> Keys \cup {NoKey}]
  /\ kv \in [Threads -> Slots \cup {NoSlot}]
  /\ reg \in [Threads -> Int]
  /\ msg \in [Threads -> [value : Values \cup {NoVal}, vno : Nat]]
  /\ \A t \in Threads : sent[t] \in Messages
  /\ DOMAIN sent = Threads

(* putResponse works on the entry kv, allocated or found.                  *)
HasEntry(t) ==
  pc[t] \in {"new_incr", "new_unlock", "new_init", "put_vno",
             "put_check_lock", "put_check_getters", "put_set_lock",
             "put_vote", "put_wait"}

(* Two PUTs that both allocated got different entries: what they write     *)
(* before the entry has a name (initKeyValStruct, the lock, the name)      *)
(* never lands in the other's.  This is what numKeysLock is for            *)
(* (Server.c:179-184).                                                     *)
NewEntriesPrivate ==
  \A t, u \in Threads :
    t # u /\ HasEntry(t) /\ HasEntry(u) /\ kv[t] = kv[u] => key[kv[t]] # NoKey

(* An entry, and the answer to a GET, hold a value that was sent for that  *)
(* key, whatever threads allocate, name, look up and update meanwhile      *)
(* (Server.c:16-37, 72-85, 178-184, 237-239).                              *)
ValueOfKey ==
  /\ \A i \in Slots : key[i] # NoKey /\ value[i] # NoVal => value[i][1] = key[i]
  /\ \A t \in Threads :
       sent[t].type = "value" /\ sent[t].value # NoVal
         => sent[t].value[1] = reqKey[t]

(* The entry that requests for k see is locked.                            *)
Locked(k) == searchKey(k) # NoSlot /\ lock[searchKey(k)] = 1

(* The thread is past keyval->lock=1 and on a path to releaselockResponse. *)
WillRelease(t) ==
  /\ op[t] = "PUT"
  /\ pc[t] \in {"put_vote", "put_wait", "put_wait_release"} \cup UpdateLabels

(* A lock on the visible entry of a key always has a PUT in flight that    *)
(* will release that key: no timeout, failed update, second entry of the   *)
(* same name or release of another's lock leaves the key locked with       *)
(* nobody to unlock it (Server.c:213-281, 317-330).                        *)
NoOrphanLock ==
  \A k \in Keys : Locked(k) => \E t \in Threads : WillRelease(t) /\ reqKey[t] = k

(* A key that has an entry keeps one, and the entry that searchKey finds   *)
(* for it only ever moves towards the front of the table (Server.c:4-14).  *)
KeysAreKept ==
  [][\A k \in Keys : searchKey(k) # NoSlot =>
       searchKey(k)' # NoSlot /\ searchKey(k)' <= searchKey(k)]_vars

(* A locked key is unlocked again: every way out of putResponse after      *)
(* keyval->lock=1 passes releaselockResponse, and the waits before it are  *)
(* bounded by TIMEOUT (Server.c:226-281).                                  *)
LocksAreReleased == \A k \in Keys : Locked(k) ~> ~ Locked(k)

(* The thread of a connection that sent a request gets to its              *)
(* close(sockDesc): nothing blocks it for ever, the spin on numKeysLock    *)
(* included (Server.c:179-182, 384-413).                                   *)
ConnectionsEnd ==
  \A t \in Threads : pc[t] \notin {"new", "recv"} ~> pc[t] = "done"

-----------------------------------------------------------------------------
(* Three statements of the source's comments that the code does not keep.  *)

(* "incr getters of keyval" and "decr getters of keyval" (Server.c:66, 86) *)
(* bracket the answer to a GET: numGetters counts the GETs under way and   *)
(* is never below zero.                                                    *)
GettersNonNegative == \A i \in Slots : numGetters[i] >= 0

(* "check lock; check getters; reply; update; releaselock;"                *)
(* (Server.c:172-176): a PUT goes past the check only while no other PUT   *)
(* is between its check and its releaselock on the same entry.             *)
OnePutAtATime ==
  \A t, u \in Threads :
    t # u /\ HasEntry(t) /\ HasEntry(u) /\ kv[t] = kv[u] =>
      ~ (pc[t] \in {"put_vote", "put_wait"} /\ pc[u] \in {"put_vote", "put_wait"})

(* "UPDATEDONE: updatedone key" (Vote.h:14): once a server has sent it for *)
(* a key, the key has a version there, at the latest when no request is    *)
(* under way any more.                                                     *)
UpdateDoneSticks ==
  (\A t \in Threads : pc[t] \in {"new", "done"}) =>
    \A t \in Threads : sent[t] = UpdateDone => vno[searchKey(reqKey[t])] # 0

=============================================================================
