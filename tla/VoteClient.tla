----------------------------- MODULE VoteClient -----------------------------
(***************************************************************************)
(* One run of the client (Client.c): a GET or a PUT of one key.            *)
(*                                                                         *)
(* The main thread starts one connectTo thread per server, joins them,     *)
(* checks the quorum, runs selectServer over the answers and, for a PUT,   *)
(* starts a second round of threads that send the update to every server   *)
(* that voted.  The threads share keyVals_c (each its own entry) and the   *)
(* counter responsesG.  The servers are the environment: each answers the  *)
(* request with some version and value, or not at all.                     *)
(***************************************************************************)
EXTENDS Votes, Sequences

CONSTANTS
  Commands,   \* "GET", "PUT": what the client may be started with
  N, Nr, Nw,  \* servers, read quorum, write quorum (the command line)
  Vnos,       \* version numbers that answers carry
  Vals,       \* values that answers carry
  NoVal       \* no value yet

Servers == 0 .. N - 1

(* main() goes on only if the quorums meet; the quorums are real ones.     *)
ASSUME QuorumAssumption ==
  /\ N \in Nat \ {0} /\ Nr \in 1 .. N /\ Nw \in 1 .. N
  /\ Nr + Nw > N
  /\ 2 * Nw > N
ASSUME CommandsAssumption == Commands \subseteq {"GET", "PUT"}
ASSUME VnosAssumption == Vnos \subseteq Nat
ASSUME ValsAssumption == NoVal \notin Vals

VARIABLES
  msgType,     \* "GET" or "PUT"
  pc,          \* what the main thread does next
  th,          \* what each connectTo thread does next
  round,       \* 0: request (connectionExists = 0), 1: update
  recv_data,   \* the answer a thread has received
  sock,        \* keyVals_c[i].sock: "undef" (malloc), "none" (-1) or "open"
  ans,         \* keyVals_c[i].vno and .value
  responsesG, resO,
  i, index, max, hashMap,    \* locals of selectServer and its hashTable
  HVNO, lied,  \* the server selected, the servers reported as liars
  wire         \* what was sent to each server

threads == <<th, recv_data, sock, ans, responsesG, resO, wire>>
select == <<i, index, max, hashMap, HVNO, lied>>
vars == <<msgType, pc, round, threads, select>>

NoAnswer == [vno |-> 0, value |-> NoVal]
NoServer == -1
EmptyGroup == [tag |-> NoVal, idx |-> <<>>]

Init ==
  /\ msgType \in Commands
  /\ pc = "join"
  /\ round = 0
  /\ th = [s \in Servers |-> "connect"]
  /\ recv_data = [s \in Servers |-> NoAnswer]
  /\ sock = [s \in Servers |-> "undef"]
  /\ ans = [s \in Servers |-> NoAnswer]
  /\ responsesG = 0
  /\ resO = [s \in Servers |-> 0]
  /\ i = 0 /\ index = 0 /\ max = -1
  /\ hashMap = [g \in 0 .. N |-> EmptyGroup]
  /\ HVNO = NoServer /\ lied = {}
  /\ wire = [s \in Servers |-> <<>>]

-----------------------------------------------------------------------------
(* connectTo, the thread of server s.                                      *)

Goto(s, from, to) ==
  /\ th[s] = from
  /\ th' = [th EXCEPT ![s] = to]

(* new_vnoG: one more than the version of the selected server.             *)
(* Mutant: the wrong sign.                                                 *)
new_vnoG_Minus == ans[HVNO].vno - 1

new_vnoG == ans[HVNO].vno + 1

Message == IF round = 0 THEN [type |-> msgType]
           ELSE [type |-> "update", vno |-> new_vnoG]

(* The first round connects; a server that is not there gives no answer.   *)
ConnectFails(s) ==
  /\ round = 0
  /\ Goto(s, "connect", "end")
  /\ sock' = [sock EXCEPT ![s] = "none"]
  /\ UNCHANGED <<msgType, pc, round, recv_data, ans, responsesG, resO, wire,
                 select>>

SendMsg(s) ==
  /\ Goto(s, "connect", "recv")
  /\ wire' = [wire EXCEPT ![s] = Append(@, Message)]
  /\ UNCHANGED <<msgType, pc, round, recv_data, sock, ans, responsesG, resO,
                 select>>

(* recvTimeout: 0 (the server closed, or TIMEOUT passed) or -1.            *)
RecvFails(s) ==
  /\ Goto(s, "recv", "end")
  /\ sock' = [sock EXCEPT ![s] = "none"]
  /\ UNCHANGED <<msgType, pc, round, recv_data, ans, responsesG, resO, wire,
                 select>>

(* A vote or a value in the first round, "updatedone" in the second.       *)
RecvAnswer(s, n, v) ==
  /\ round = 0
  /\ Goto(s, "recv", "incr")
  /\ recv_data' = [recv_data EXCEPT ![s] = [vno |-> n, value |-> v]]
  /\ resO' = [resO EXCEPT ![s] = responsesG]
  /\ UNCHANGED <<msgType, pc, round, sock, ans, responsesG, wire, select>>

RecvUpdateDone(s) ==
  /\ round = 1
  /\ Goto(s, "recv", "incr")
  /\ resO' = [resO EXCEPT ![s] = responsesG]
  /\ UNCHANGED <<msgType, pc, round, recv_data, sock, ans, responsesG, wire,
                 select>>

(* Mutant: responsesG = resO + 1 without the comparison.                   *)
CountResponse_Plain(s) ==
  /\ Goto(s, "incr", "store")
  /\ responsesG' = resO[s] + 1
  /\ UNCHANGED <<msgType, pc, round, recv_data, sock, ans, resO, wire, select>>

(* The compare-and-swap on responsesG, tried again when another thread was *)
(* faster.                                                                 *)
CountResponse(s) ==
  /\ responsesG = resO[s]
  /\ Goto(s, "incr", "store")
  /\ responsesG' = resO[s] + 1
  /\ UNCHANGED <<msgType, pc, round, recv_data, sock, ans, resO, wire, select>>

(* Mutant: the loop does not load the counter again.                       *)
RetryCount_Stale(s) ==
  /\ th[s] = "incr"
  /\ responsesG # resO[s]
  /\ UNCHANGED vars

RetryCount(s) ==
  /\ th[s] = "incr"
  /\ responsesG # resO[s]
  /\ resO' = [resO EXCEPT ![s] = responsesG]
  /\ UNCHANGED <<msgType, pc, round, th, recv_data, sock, ans, responsesG, wire,
                 select>>

(* sscanf fills the entry in the first round and finds no number in        *)
(* "updatedone key" in the second, which is answered by releaselock.       *)
StoreAnswer(s) ==
  /\ Goto(s, "store", "end")
  /\ sock' = [sock EXCEPT ![s] = "open"]
  /\ ans' = IF round = 0 THEN [ans EXCEPT ![s] = recv_data[s]] ELSE ans
  /\ wire' = IF round = 0 THEN wire
             ELSE [wire EXCEPT ![s] = Append(@, [type |-> "releaselock"])]
  /\ UNCHANGED <<msgType, pc, round, recv_data, responsesG, resO, select>>

-----------------------------------------------------------------------------
(* connectThread, the main thread.                                         *)

Quorum == IF msgType = "GET" THEN Nr ELSE Nw
Joined == \A s \in Servers : th[s] = "end"
nrnwCheck == Cardinality({s \in Servers : sock[s] = "open"})

(* "less than read quorum": exit.  The second test of the quorum, by the   *)
(* sockets (selectServer), comes to the same.                              *)
LesserQuorum ==
  /\ pc = "join" /\ round = 0 /\ Joined
  /\ responsesG < Quorum \/ nrnwCheck < Quorum
  /\ pc' = "end"
  /\ UNCHANGED <<msgType, round, threads, select>>

StartSelect ==
  /\ pc = "join" /\ round = 0 /\ Joined
  /\ responsesG >= Quorum /\ nrnwCheck >= Quorum
  /\ pc' = "group"
  /\ hashMap' = [g \in 0 .. N |->
                   IF g < N THEN [hashMap[g] EXCEPT !.idx = <<>>] ELSE hashMap[g]]
  /\ UNCHANGED <<msgType, round, threads, i, index, max, HVNO, lied>>

(* An answer joins the groups with its tag, or starts group g.             *)
AddTo(groups, s) ==
  [g \in 0 .. N |->
     IF g \in groups THEN [hashMap[g] EXCEPT !.idx = Append(@, s)] ELSE hashMap[g]]
(* Mutant: the count of a reused entry is not reset.                       *)
NewGroup_Stale(g, t, s) ==
  [hashMap EXCEPT ![g] = [tag |-> t, idx |-> Append(@.idx, s)]]

NewGroup(g, t, s) == [hashMap EXCEPT ![g] = [tag |-> t, idx |-> <<s>>]]

(* One turn of the loop over the answers to a GET: a higher version starts *)
(* the table anew, the same version joins the group of its value.          *)
GroupValue ==
  LET a == ans[i]
      same == {g \in 0 .. index : hashMap[g].tag = a.value}
  IN  /\ pc = "group" /\ msgType = "GET" /\ i < N
      /\ i' = i + 1
      /\ \/ /\ sock[i] = "open" /\ a.vno > max
            /\ max' = a.vno
            /\ index' = 0
            /\ hashMap' = NewGroup(0, a.value, i)
         \/ /\ sock[i] = "open" /\ a.vno = max /\ same # {}
            /\ hashMap' = AddTo(same, i)
            /\ UNCHANGED <<max, index>>
         \/ /\ sock[i] = "open" /\ a.vno = max /\ same = {}
            /\ index' = index + 1
            /\ hashMap' = NewGroup(index + 1, a.value, i)
            /\ UNCHANGED max
         \/ /\ sock[i] = "none" \/ a.vno < max
            /\ UNCHANGED <<max, index, hashMap>>
      /\ UNCHANGED <<msgType, pc, round, threads, HVNO, lied>>

(* One turn of the loop over the votes for a PUT: a group per version.     *)
GroupVno ==
  LET n == ans[i].vno
      same == {g \in 0 .. index - 1 : hashMap[g].tag = n}
  IN  /\ pc = "group" /\ msgType = "PUT" /\ i < N
      /\ i' = i + 1
      /\ \/ /\ sock[i] = "open" /\ same # {}
            /\ hashMap' = AddTo(same, i)
            /\ UNCHANGED index
         \/ /\ sock[i] = "open" /\ same = {}
            /\ hashMap' = NewGroup(index, n, i)
            /\ index' = index + 1
         \/ /\ sock[i] = "none"
            /\ UNCHANGED <<index, hashMap>>
      /\ UNCHANGED <<msgType, pc, round, threads, max, HVNO, lied>>

Count(g) == Len(hashMap[g].idx)
Members(g) == {hashMap[g].idx[x] : x \in 1 .. Count(g)}

(* Mutant: the last of the largest groups.                                 *)
LargestGroup_Last ==
  CHOOSE g \in 0 .. index :
    /\ \A h \in 0 .. index : Count(h) <= Count(g)
    /\ \A h \in g + 1 .. index : Count(h) < Count(g)

(* The first of the groups with the most answers (the loop replaces its    *)
(* candidate only by a larger one), and the groups it reports.             *)
LargestGroup ==
  CHOOSE g \in 0 .. index :
    /\ \A h \in 0 .. index : Count(h) <= Count(g)
    /\ \A h \in 0 .. g - 1 : Count(h) < Count(g)

LiarGroups ==
  {g \in 0 .. index :
     IF msgType = "GET" THEN Count(g) < Count(LargestGroup)
     ELSE /\ Count(g) # Count(LargestGroup)
          /\ Count(g) > 0 /\ hashMap[g].tag > hashMap[LargestGroup].tag}

(* Mutant: the update goes to every server.                                *)
Selected_All ==
  /\ pc = "group" /\ i = N
  /\ HVNO' = hashMap[LargestGroup].idx[1]
  /\ lied' = UNION {Members(g) : g \in LiarGroups}
  /\ pc' = IF msgType = "GET" THEN "end" ELSE "join"
  /\ round' = IF msgType = "GET" THEN 0 ELSE 1
  /\ th' = IF msgType = "GET" THEN th ELSE [s \in Servers |-> "connect"]
  /\ UNCHANGED <<msgType, recv_data, sock, ans, responsesG, resO, wire,
                 i, index, max, hashMap>>

(* The rest of selectServer and what follows it: a GET prints the value of *)
(* the selected server, a PUT starts a thread for every server that voted. *)
Selected ==
  /\ pc = "group" /\ i = N
  /\ HVNO' = hashMap[LargestGroup].idx[1]
  /\ lied' = UNION {Members(g) : g \in LiarGroups}
  /\ pc' = IF msgType = "GET" THEN "end" ELSE "join"
  /\ round' = IF msgType = "GET" THEN 0 ELSE 1
  /\ th' = IF msgType = "GET" THEN th
           ELSE [s \in Servers |->
                   IF sock[s] = "open" THEN "connect" ELSE "end"]
  /\ UNCHANGED <<msgType, recv_data, sock, ans, responsesG, resO, wire,
                 i, index, max, hashMap>>

(* The second join: the client is done, whatever the updates came to.      *)
Finish ==
  /\ pc = "join" /\ round = 1 /\ Joined
  /\ pc' = "end"
  /\ UNCHANGED <<msgType, round, threads, select>>

-----------------------------------------------------------------------------
Thread(s) ==
  \/ ConnectFails(s) \/ SendMsg(s) \/ RecvFails(s) \/ RecvUpdateDone(s)
  \/ \E n \in Vnos, v \in Vals : RecvAnswer(s, n, v)
  \/ CountResponse(s) \/ RetryCount(s) \/ StoreAnswer(s)

Main ==
  \/ LesserQuorum \/ StartSelect \/ GroupValue \/ GroupVno \/ Selected
  \/ Finish

Next == Main \/ \E s \in Servers : Thread(s)

Spec == Init /\ [][Next]_vars

(* Every thread runs on, and recvTimeout bounds its wait for the server.   *)
FairSpec == Spec /\ WF_vars(Main) /\ \A s \in Servers : WF_vars(Thread(s))

-----------------------------------------------------------------------------
Positions == {"join", "group", "end"}
ThreadLabels == {"connect", "recv", "incr", "store", "end"}
Answers == [vno : Nat, value : Vals \cup {NoVal}]
Groups == [tag : Nat \cup Vals \cup {NoVal}, idx : Seq(Servers)]
SentMessages ==
  [type : {"GET", "PUT", "releaselock"}] \cup [type : {"update"}, vno : Nat]

(* The types of the client's variables.                                    *)
TypeOK ==
  /\ msgType \in {"GET", "PUT"} /\ pc \in Positions /\ round \in {0, 1}
  /\ th \in [Servers -> ThreadLabels]
  /\ recv_data \in [Servers -> Answers] /\ ans \in [Servers -> Answers]
  /\ sock \in [Servers -> {"undef", "none", "open"}]
  /\ responsesG \in Nat /\ resO \in [Servers -> Nat]
  /\ i \in 0 .. N /\ index \in 0 .. N /\ max \in {-1} \cup Nat
  /\ hashMap \in [0 .. N -> Groups]
  /\ HVNO \in {NoServer} \cup Servers /\ lied \subseteq Servers
  /\ wire \in [Servers -> Seq(SentMessages)]

(* The answers of the first round, once every thread is joined.            *)
Voters == {s \in Servers : sock[s] = "open"}
Received == [s \in Voters |-> ans[s]]

(* The compare-and-swap loop counts every answer once, whatever the order  *)
(* in which the threads get to it: when the first round is joined,         *)
(* responsesG is the number of servers that voted (Client.c:243-253).      *)
EveryResponseCounts ==
  round = 0 /\ Joined => responsesG = Cardinality(Voters)

(* The answers as they were when selectServer looked at them; a lost       *)
(* connection in the second round does not take a vote back.               *)
Voted == {s \in Servers : Len(wire[s]) > 1 \/ sock[s] = "open"}
Votes1 == [s \in Voted |-> ans[s]]

(* selectServer's loops over hashTable come to the answer that Votes       *)
(* defines: for a GET the first of the largest group of equal values with  *)
(* the highest version number, for a PUT the first of the largest group of *)
(* equal version numbers, and the liars it names are the answers that      *)
(* these groups outvote (Client.c:60-176).                                 *)
SelectsAsVoted ==
  HVNO # NoServer =>
    /\ HVNO = IF msgType = "GET" THEN SelectGet(Votes1) ELSE SelectPut(Votes1)
    /\ lied = IF msgType = "GET" THEN LiedGet(Votes1) ELSE LiedPut(Votes1)

(* What a server sees of a PUT is a prefix of "PUT, update, releaselock"   *)
(* (Vote.h:6-18); only servers that voted see an update, all of them the   *)
(* same version, one above a version that some server voted for, and only  *)
(* when a write quorum had voted.                                          *)
PutProtocol ==
  \A s \in Servers :
    /\ Len(wire[s]) <= 3
    /\ Len(wire[s]) >= 1 => wire[s][1].type = msgType
    /\ Len(wire[s]) >= 2 =>
         /\ msgType = "PUT" /\ wire[s][2].type = "update"
         /\ ans[s] \in [vno : Vnos, value : Vals]
         /\ \E u \in Servers : wire[s][2].vno = ans[u].vno + 1
         /\ \A u \in Servers : Len(wire[u]) >= 2 => wire[u][2] = wire[s][2]
         /\ responsesG >= Nw
    /\ Len(wire[s]) = 3 => wire[s][3].type = "releaselock"

(* The client comes to its end: every thread is joined, no compare-and-    *)
(* swap loop goes on for ever (Client.c:246, 324-326, 397-401).            *)
ClientEnds == <>(pc = "end")

=============================================================================
