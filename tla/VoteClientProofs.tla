-------------------------- MODULE VoteClientProofs ---------------------------
(***************************************************************************)
(* Theorems about the client, for any number of servers and any versions   *)
(* and values in their answers.                                            *)
(*                                                                         *)
(* The loops of selectServer are steps of the model, so what they compute  *)
(* is an invariant of the loop: after the answers below i, the filled      *)
(* entries of hashTable are the groups of those answers that count, in the *)
(* order of their first members (GroupsInv).                               *)
(***************************************************************************)
EXTENDS VoteClient, VoteLemmas

(* Where the main thread can be in each round.                             *)
Control ==
  /\ pc # "join" => Joined
  /\ pc = "group" => round = 0
  /\ round = 0 /\ pc # "end" => HVNO = NoServer
  /\ round = 0 /\ HVNO # NoServer => msgType = "GET"
  /\ round = 1 => msgType = "PUT" /\ HVNO # NoServer /\ responsesG >= Nw
  /\ pc = "join" /\ round = 0 =>
       i = 0 /\ index = 0 /\ max = -1 /\ hashMap = [g \in 0 .. N |-> EmptyGroup]

FullAnswers == [vno : Vnos, value : Vals]

(* Where each thread can be, what it has received and what it has sent.    *)
ThreadInv(s) ==
  /\ th[s] = "end" => sock[s] # "undef"
  /\ round = 0 => /\ th[s] # "end" => sock[s] = "undef"
                  /\ th[s] \in {"incr", "store"} => recv_data[s] \in FullAnswers
                  /\ Len(wire[s]) <= 1
                  /\ th[s] = "connect" => Len(wire[s]) = 0
                  /\ th[s] \in {"recv", "incr", "store"} => Len(wire[s]) = 1
                  /\ sock[s] = "open" => Len(wire[s]) = 1
  /\ round = 1 => /\ th[s] # "end" => sock[s] = "open"
                  /\ th[s] = "connect" => Len(wire[s]) = 1
                  /\ th[s] \in {"recv", "incr", "store"} => Len(wire[s]) = 2
  /\ sock[s] = "open" \/ Len(wire[s]) >= 2 => ans[s] \in FullAnswers
  /\ Len(wire[s]) <= 3
  /\ Len(wire[s]) >= 1 => wire[s][1] = [type |-> msgType]
  /\ Len(wire[s]) >= 2 => wire[s][2] = [type |-> "update", vno |-> new_vnoG]
  /\ Len(wire[s]) = 3 => wire[s][3] = [type |-> "releaselock"]

ThreadsInv == \A s \in Servers : ThreadInv(s)

(* The threads of the first round whose answers are counted.               *)
Counted == {s \in Servers : th[s] = "store" \/ (th[s] = "end" /\ sock[s] = "open")}
CountInv == round = 0 => responsesG = Cardinality(Counted)

(* The answers that the loop has seen, those of them that count, and what  *)
(* they are grouped by.                                                    *)
Seen == {s \in Voters : s < i}
Counting == IF msgType = "GET" THEN {s \in Seen : ans[s].vno = max} ELSE Seen
Key(s) == IF msgType = "GET" THEN ans[s].value ELSE ans[s].vno
Agreeing(k) == {s \in Counting : Key(s) = k}

(* The entries of hashTable in use.                                        *)
Filled ==
  IF msgType = "GET" THEN {g \in 0 .. index : max # -1} ELSE 0 .. index - 1

GroupOf(g) ==
  /\ Count(g) >= 1 /\ g <= hashMap[g].idx[1]
  /\ Members(g) = Agreeing(hashMap[g].tag)
  /\ Count(g) = Cardinality(Members(g))
  /\ \A s \in Members(g) : hashMap[g].idx[1] <= s

Ordered ==
  \A g, h \in Filled :
    g < h => /\ hashMap[g].idx[1] < hashMap[h].idx[1]
             /\ hashMap[g].tag # hashMap[h].tag

Grouped ==
  /\ \A g \in Filled : GroupOf(g)
  /\ Ordered
  /\ \A s \in Counting : \E g \in Filled : hashMap[g].tag = Key(s)

GroupsInv ==
  pc = "group" =>
    /\ Grouped
    /\ Seen # {} => Counting # {}
    /\ msgType = "GET" => /\ \A s \in Seen : ans[s].vno <= max
                          /\ max = -1 => index = 0
                          /\ max = -1 <=> Seen = {}
    /\ msgType = "PUT" => \A g \in index .. N : hashMap[g].idx = <<>>
    /\ responsesG >= Quorum

Inv ==
  /\ TypeOK /\ Control /\ ThreadsInv /\ CountInv /\ GroupsInv /\ SelectsAsVoted

-----------------------------------------------------------------------------
(* The servers: finitely many, numbered.                                   *)
LEMMA ServersFinite ==
  Servers \in SUBSET Nat /\ IsFiniteSet(Servers) /\ Cardinality(Servers) = N
<1>1. IsFiniteSet(0 .. N - 1) /\ Cardinality(0 .. N - 1) = N
  BY FS_Interval, QuorumAssumption
<1> QED BY <1>1, QuorumAssumption DEF Servers

(* Nothing is counted and nothing is sent before the threads run.          *)
LEMMA InitInv == Init => Inv
<1> SUFFICES ASSUME Init PROVE Inv
  OBVIOUS
<1> USE DEF Init
<1>1. TypeOK
  <2>1. EmptyGroup \in Groups /\ NoAnswer \in Answers
    BY DEF EmptyGroup, Groups, NoAnswer, Answers
  <2> QED BY <2>1, QuorumAssumption, CommandsAssumption
          DEF TypeOK, Positions, ThreadLabels
<1>2. Control
  BY QuorumAssumption DEF Control
<1>3. ThreadsInv
  BY DEF ThreadsInv, ThreadInv
<1>4. CountInv
  <2>1. Counted = {}
    BY DEF Counted
  <2> QED BY <2>1, FS_EmptySet DEF CountInv
<1>5. GroupsInv /\ SelectsAsVoted
  BY DEF GroupsInv, SelectsAsVoted
<1> QED BY <1>1, <1>2, <1>3, <1>4, <1>5 DEF Inv

-----------------------------------------------------------------------------
(* A thread that stays among the counted, or outside them.                 *)
LEMMA SameCount ==
  ASSUME TypeOK, CountInv, NEW s \in Servers, responsesG' = responsesG,
         th' \in [Servers -> ThreadLabels],
         \A u \in Servers \ {s} : th'[u] = th[u] /\ sock'[u] = sock[u],
         s \in Counted' <=> s \in Counted, round' = round
  PROVE  CountInv'
<1>1. Counted' = Counted
  BY DEF Counted
<1> QED BY <1>1 DEF CountInv

(* What was selected stands as long as the votes do.                       *)
LEMMA SelectionStands ==
  ASSUME SelectsAsVoted, Voted' = Voted, HVNO # NoServer => ans' = ans,
         HVNO' = HVNO, lied' = lied, msgType' = msgType
  PROVE  SelectsAsVoted'
<1>1. HVNO # NoServer => Votes1' = Votes1
  BY DEF Votes1
<1> QED BY <1>1 DEF SelectsAsVoted

(* Where a thread is that takes a step, and what it leaves alone.          *)
LEMMA ThreadFrame ==
  ASSUME Inv, NEW s \in Servers, Thread(s)
  PROVE  /\ pc = "join" /\ th[s] # "end"
         /\ UNCHANGED <<msgType, pc, round, i, index, max, hashMap, HVNO, lied>>
         /\ round = 1 => ans' = ans
         /\ \A u \in Servers \ {s} :
              /\ th'[u] = th[u] /\ sock'[u] = sock[u] /\ wire'[u] = wire[u]
              /\ ans'[u] = ans[u] /\ recv_data'[u] = recv_data[u]
<1>1. th[s] # "end"
  BY DEF Thread, Goto, ConnectFails, SendMsg, RecvFails, RecvUpdateDone, RecvAnswer,
         CountResponse, RetryCount, StoreAnswer
<1>2. pc = "join"
  BY <1>1 DEF Inv, Control, Joined
<1> QED BY <1>1, <1>2
        DEF Thread, Goto, ConnectFails, SendMsg, RecvFails, RecvUpdateDone, RecvAnswer,
            CountResponse, RetryCount, StoreAnswer, select, Inv, TypeOK

(* The message of a round has its type.                                    *)
LEMMA MessageTyped == ASSUME Inv PROVE Message \in SentMessages
<1>1. round = 1 => new_vnoG \in Nat
  BY DEF Inv, Control, TypeOK, new_vnoG, Answers
<1> QED BY <1>1 DEF Message, SentMessages, Inv, TypeOK

(* A thread's step keeps the types.                                        *)
LEMMA ThreadTyped ==
  ASSUME Inv, NEW s \in Servers, Thread(s)
  PROVE  TypeOK'
<1> USE DEF Inv, TypeOK, ThreadLabels, Goto
<1>1. CASE ConnectFails(s)
  BY <1>1 DEF ConnectFails, select
<1>2. CASE SendMsg(s)
  BY <1>2, MessageTyped DEF SendMsg, select
<1>3. CASE RecvFails(s)
  BY <1>3 DEF RecvFails, select
<1>4. CASE RecvUpdateDone(s)
  BY <1>4 DEF RecvUpdateDone, select
<1>5. CASE \E n \in Vnos, v \in Vals : RecvAnswer(s, n, v)
  BY <1>5, VnosAssumption DEF RecvAnswer, select, Answers
<1>6. CASE CountResponse(s)
  BY <1>6 DEF CountResponse, select
<1>7. CASE RetryCount(s)
  BY <1>7 DEF RetryCount, select
<1>8. CASE StoreAnswer(s)
  <2>1. [type |-> "releaselock"] \in SentMessages
    BY DEF SentMessages
  <2> QED BY <1>8, <2>1 DEF StoreAnswer, select
<1> QED BY <1>1, <1>2, <1>3, <1>4, <1>5, <1>6, <1>7, <1>8 DEF Thread

(* It is counted once: when it adds one to responsesG.                     *)
LEMMA ThreadCounts ==
  ASSUME Inv, NEW s \in Servers, Thread(s)
  PROVE  CountInv'
<1> USE DEF Inv
<1>1. /\ th \in [Servers -> ThreadLabels] /\ sock \in [Servers -> {"undef", "none", "open"}]
      /\ th' \in [Servers -> ThreadLabels] /\ round' = round
      /\ \A u \in Servers \ {s} : th'[u] = th[u] /\ sock'[u] = sock[u]
  BY ThreadFrame, ThreadTyped DEF TypeOK
<1>2. CASE CountResponse(s) /\ round = 0
  <2>1. /\ th[s] = "incr" /\ th'[s] = "store" /\ sock' = sock
        /\ responsesG' = responsesG + 1
    BY <1>1, <1>2 DEF CountResponse, Goto
  <2>2. Counted' = Counted \cup {s} /\ s \notin Counted
    BY <1>1, <2>1 DEF Counted
  <2>3. IsFiniteSet(Counted)
    BY ServersFinite, Sizes DEF Counted
  <2> QED BY <1>1, <1>2, <2>1, <2>2, <2>3, FS_AddElement DEF CountInv
<1>3. CASE ~ CountResponse(s) /\ round = 0
  <2>1. responsesG' = responsesG /\ (s \in Counted' <=> s \in Counted)
    BY <1>1, <1>3 DEF Thread, Goto, ConnectFails, SendMsg, RecvFails, RecvUpdateDone,
       RecvAnswer, RetryCount, StoreAnswer, Counted, ThreadsInv, ThreadInv
  <2> QED BY <1>1, <2>1, SameCount
<1>4. CASE round # 0
  BY <1>1, <1>4 DEF CountInv
<1> QED BY <1>2, <1>3, <1>4

(* A thread's step keeps where it can be and what it has sent.             *)
LEMMA ThreadKeeps ==
  ASSUME Inv, NEW s \in Servers, Thread(s)
  PROVE  ThreadsInv'
<1> DEFINE old == wire[s]
<1>1. /\ pc = "join" /\ th[s] # "end" /\ round' = round /\ msgType' = msgType
      /\ HVNO' = HVNO /\ (round = 1 => ans' = ans)
      /\ \A u \in Servers \ {s} :
           /\ th'[u] = th[u] /\ sock'[u] = sock[u] /\ wire'[u] = wire[u]
           /\ ans'[u] = ans[u] /\ recv_data'[u] = recv_data[u]
  BY ThreadFrame
<1>2. round \in {0, 1} /\ \A u \in Servers : ThreadInv(u)
  BY DEF Inv, TypeOK, ThreadsInv
<1>3. round = 1 => new_vnoG' = new_vnoG
  BY <1>1 DEF new_vnoG
<1>4. ASSUME NEW u \in Servers \ {s} PROVE ThreadInv(u)'
  BY <1>1, <1>2, <1>3 DEF ThreadInv
<1>5. /\ wire \in [Servers -> Seq(SentMessages)] /\ th \in [Servers -> ThreadLabels]
      /\ sock \in [Servers -> {"undef", "none", "open"}]
      /\ ans \in [Servers -> Answers] /\ recv_data \in [Servers -> Answers]
      /\ old \in Seq(SentMessages) /\ Len(old) \in Nat
      /\ ThreadInv(s)
  BY <1>2 DEF Inv, TypeOK
<1>6. ThreadInv(s)'
  <2>1. CASE ConnectFails(s)
    BY <1>1, <1>2, <1>3, <1>5, <2>1 DEF ConnectFails, Goto, ThreadInv
  <2>2. CASE SendMsg(s)
    <3>1. /\ wire'[s] = Append(old, Message)
          /\ th[s] = "connect" /\ th'[s] = "recv"
          /\ sock' = sock /\ ans' = ans /\ recv_data' = recv_data
      BY <1>5, <2>2 DEF SendMsg, Goto
    <3>2. Len(wire'[s]) = Len(old) + 1 /\ wire'[s][Len(old) + 1] = Message
          /\ \A k \in 1 .. Len(old) : wire'[s][k] = old[k]
      BY <1>5, <3>1, MessageTyped
    <3>3. CASE round = 0
      BY <1>1, <1>5, <3>1, <3>2, <3>3 DEF ThreadInv, Message
    <3>4. CASE round = 1
      <4>1. /\ Len(old) = 1 /\ old[1] = [type |-> msgType] /\ sock[s] = "open"
            /\ ans[s] \in FullAnswers
        BY <1>5, <3>1, <3>4 DEF ThreadInv
      <4>2. /\ Len(wire'[s]) = 2 /\ wire'[s][1] = [type |-> msgType]
            /\ wire'[s][2] = [type |-> "update", vno |-> new_vnoG]
        BY <3>2, <3>4, <4>1 DEF Message
      <4> HIDE DEF old
      <4> QED BY <1>1, <1>3, <3>1, <3>4, <4>1, <4>2 DEF ThreadInv
    <3> QED BY <1>2, <3>3, <3>4
  <2>3. CASE RecvFails(s)
    BY <1>1, <1>2, <1>3, <1>5, <2>3 DEF RecvFails, Goto, ThreadInv
  <2>4. CASE RecvUpdateDone(s)
    BY <1>1, <1>2, <1>3, <1>5, <2>4 DEF RecvUpdateDone, Goto, ThreadInv
  <2>5. CASE \E n \in Vnos, v \in Vals : RecvAnswer(s, n, v)
    <3>1. /\ recv_data'[s] \in FullAnswers /\ round = 0
          /\ th[s] = "recv" /\ th'[s] = "incr"
          /\ sock' = sock /\ ans' = ans /\ wire' = wire
      <4>1. PICK n \in Vnos, v \in Vals : RecvAnswer(s, n, v)
        BY <2>5
      <4>2. recv_data'[s] = [vno |-> n, value |-> v]
        BY <1>5, <4>1 DEF RecvAnswer
      <4>3. /\ round = 0 /\ th[s] = "recv" /\ th'[s] = "incr"
            /\ sock' = sock /\ ans' = ans /\ wire' = wire
        BY <1>5, <4>1 DEF RecvAnswer, Goto
      <4> QED BY <4>2, <4>3 DEF FullAnswers
    <3>2. ThreadInv(s)
      BY <1>5
    <3>3. /\ Len(wire[s]) = 1 /\ sock[s] = "undef" /\ wire[s][1] = [type |-> msgType]
      BY <3>1, <3>2 DEF ThreadInv
    <3> QED BY <1>1, <3>1, <3>3 DEF ThreadInv
  <2>6. CASE CountResponse(s)
    BY <1>1, <1>2, <1>3, <1>5, <2>6 DEF CountResponse, Goto, ThreadInv
  <2>7. CASE RetryCount(s)
    BY <1>1, <1>2, <1>3, <1>5, <2>7 DEF RetryCount, Goto, ThreadInv
  <2>8. CASE StoreAnswer(s)
    <3>1. /\ th[s] = "store" /\ th'[s] = "end" /\ sock'[s] = "open"
          /\ recv_data' = recv_data
      BY <1>5, <2>8 DEF StoreAnswer, Goto
    <3>2. CASE round = 0
      <4>1. wire' = wire /\ ans'[s] = recv_data[s]
        BY <1>5, <2>8, <3>2 DEF StoreAnswer
      <4>2. recv_data[s] \in FullAnswers /\ Len(wire[s]) = 1
        BY <1>5, <3>1, <3>2 DEF ThreadInv
      <4> QED BY <1>1, <1>5, <3>1, <3>2, <4>1, <4>2 DEF ThreadInv
    <3>3. CASE round = 1
      <4>1. wire'[s] = Append(old, [type |-> "releaselock"])
        BY <1>5, <2>8, <3>3 DEF StoreAnswer
      <4>2. Len(wire'[s]) = Len(old) + 1
            /\ wire'[s][Len(old) + 1] = [type |-> "releaselock"]
            /\ \A k \in 1 .. Len(old) : wire'[s][k] = old[k]
        <5>1. [type |-> "releaselock"] \in SentMessages
          BY DEF SentMessages
        <5> QED BY <1>5, <4>1, <5>1
      <4>3. /\ Len(old) = 2 /\ old[1] = [type |-> msgType]
            /\ old[2] = [type |-> "update", vno |-> new_vnoG]
            /\ ans[s] \in FullAnswers
        <5>1. ThreadInv(s)
          BY <1>5
        <5>2. Len(wire[s]) = 2 /\ sock[s] = "open"
          BY <3>1, <3>3, <5>1 DEF ThreadInv
        <5> QED BY <5>1, <5>2 DEF ThreadInv
      <4>4. /\ Len(wire'[s]) = 3 /\ wire'[s][1] = old[1] /\ wire'[s][2] = old[2]
            /\ wire'[s][3] = [type |-> "releaselock"]
        BY <4>2, <4>3
      <4> HIDE DEF old
      <4> QED BY <1>1, <1>3, <3>1, <3>3, <4>3, <4>4 DEF ThreadInv
    <3> QED BY <1>2, <3>2, <3>3
  <2> QED BY <2>1, <2>2, <2>3, <2>4, <2>5, <2>6, <2>7, <2>8 DEF Thread
<1> QED BY <1>4, <1>6 DEF ThreadsInv

(* The update is sent when a quorum was counted, and responsesG only       *)
(* grows; the main thread is where it was.                                 *)
LEMMA ThreadStep ==
  ASSUME Inv, NEW s \in Servers, Thread(s)
  PROVE  Inv'
<1>1. /\ pc = "join" /\ th[s] # "end"
      /\ UNCHANGED <<msgType, pc, round, i, index, max, hashMap, HVNO, lied>>
      /\ round = 1 => ans' = ans
      /\ \A u \in Servers \ {s} :
           /\ th'[u] = th[u] /\ sock'[u] = sock[u] /\ wire'[u] = wire[u]
           /\ ans'[u] = ans[u] /\ recv_data'[u] = recv_data[u]
  BY ThreadFrame
<1>2. TypeOK' /\ CountInv' /\ ThreadsInv'
  BY ThreadTyped, ThreadCounts, ThreadKeeps
<1>3. Control'
  <2>1. responsesG' >= responsesG /\ responsesG \in Nat
    BY DEF Inv, TypeOK, Thread, Goto, ConnectFails, SendMsg, RecvFails, RecvUpdateDone,
           RecvAnswer, CountResponse, RetryCount, StoreAnswer
  <2>2. Nw \in Nat /\ responsesG' \in Nat
    BY <1>2, QuorumAssumption DEF TypeOK
  <2> QED BY <1>1, <2>1, <2>2 DEF Inv, Control
<1>4. GroupsInv'
  BY <1>1 DEF GroupsInv
<1>5. SelectsAsVoted'
  <2>1. CASE round = 0
    BY <1>1, <2>1 DEF Inv, Control, SelectsAsVoted
  <2>2. CASE round = 1
    <3>1. /\ wire \in [Servers -> Seq(SentMessages)]
          /\ wire' \in [Servers -> Seq(SentMessages)]
      BY <1>2 DEF Inv, TypeOK
    <3>2. ThreadInv(s) /\ ThreadInv(s)'
      BY <1>2 DEF Inv, ThreadsInv
    <3>3. s \in Voted
      BY <1>1, <2>2, <3>1, <3>2 DEF Voted, ThreadInv
    <3>4. Len(wire'[s]) > 1 \/ sock'[s] = "open"
      <4>1. CASE RecvFails(s)
        <5>1. th[s] = "recv" /\ wire' = wire
          BY <4>1 DEF RecvFails, Goto
        <5>2. Len(wire[s]) = 2
          BY <2>2, <3>2, <5>1 DEF ThreadInv
        <5> QED BY <5>1, <5>2
      <4>2. CASE StoreAnswer(s)
        BY <4>2 DEF StoreAnswer, Inv, TypeOK
      <4>3. CASE ~ RecvFails(s) /\ ~ StoreAnswer(s)
        <5>1. sock' = sock
          BY <2>2, <4>3 DEF Thread, ConnectFails, SendMsg, RecvUpdateDone, RecvAnswer,
             CountResponse, RetryCount
        <5> QED BY <1>1, <2>2, <3>2, <5>1 DEF ThreadInv
      <4> QED BY <4>1, <4>2, <4>3
    <3>5. Voted' = Voted
      BY <1>1, <3>3, <3>4 DEF Voted
    <3> QED BY <1>1, <2>2, <3>5, SelectionStands DEF Inv
  <2> QED BY <2>1, <2>2 DEF Inv, TypeOK
<1> QED BY <1>2, <1>3, <1>4, <1>5 DEF Inv

-----------------------------------------------------------------------------
(* When the first round is joined, the answers counted are the votes.      *)
LEMMA JoinedCount ==
  ASSUME Inv, Joined
  PROVE  /\ Counted = Voters
         /\ round = 0 => responsesG = Cardinality(Voters)
         /\ IsFiniteSet(Voters) /\ Cardinality(Voters) \in Nat
         /\ \A s \in Servers : sock[s] \in {"none", "open"}
         /\ \A s \in Voters : ans[s] \in FullAnswers
         /\ Voters \in SUBSET Servers
<1>1. Counted = Voters
  BY DEF Counted, Voters, Joined
<1>2. IsFiniteSet(Voters) /\ Cardinality(Voters) \in Nat
  BY ServersFinite, Sizes DEF Voters
<1> QED BY <1>1, <1>2 DEF Inv, CountInv, TypeOK, Joined, ThreadsInv, ThreadInv, Voters

(* The main thread leaves the threads alone.                               *)
LEMMA ThreadsStand ==
  ASSUME Inv, UNCHANGED <<msgType, round, threads>>, HVNO' = HVNO \/ round = 0
  PROVE  ThreadsInv' /\ CountInv'
<1>1. ThreadsInv'
  <2>1. round \in {0, 1} /\ \A s \in Servers : ThreadInv(s)
    BY DEF Inv, TypeOK, ThreadsInv
  <2>2. CASE HVNO' = HVNO
    <3>1. new_vnoG' = new_vnoG
      BY <2>2 DEF new_vnoG, threads
    <3> QED BY <2>1, <3>1 DEF threads, ThreadsInv, ThreadInv
  <2>3. CASE round = 0
    <3>1. \A s \in Servers : Len(wire[s]) \in Nat
      BY DEF Inv, TypeOK
    <3> QED BY <2>1, <2>3, <3>1 DEF threads, ThreadsInv, ThreadInv
  <2> QED BY <2>2, <2>3
<1>2. CountInv'
  BY DEF Inv, CountInv, Counted, threads
<1> QED BY <1>1, <1>2

(* The client ends short of a quorum or after the second round.            *)
LEMMA EndStep ==
  ASSUME Inv, LesserQuorum \/ Finish
  PROVE  Inv'
<1>1. /\ pc = "join" /\ pc' = "end" /\ Joined /\ Joined'
      /\ UNCHANGED <<msgType, round, threads, select>>
  BY DEF LesserQuorum, Finish, threads, Joined
<1>2. TypeOK'
  BY <1>1 DEF Inv, TypeOK, threads, select, Positions
<1>3. Control'
  BY <1>1 DEF Inv, Control, threads, select
<1>4. ThreadsInv' /\ CountInv'
  BY <1>1, ThreadsStand DEF select
<1>5. GroupsInv'
  BY <1>1 DEF GroupsInv
<1>6. SelectsAsVoted'
  BY <1>1, SelectionStands DEF Inv, threads, select, Voted
<1> QED BY <1>2, <1>3, <1>4, <1>5, <1>6 DEF Inv

(* selectServer starts with no group.                                      *)
LEMMA StartStep ==
  ASSUME Inv, StartSelect
  PROVE  Inv'
<1>1. /\ pc = "join" /\ pc' = "group" /\ round = 0 /\ Joined /\ Joined'
      /\ UNCHANGED <<msgType, round, threads, i, index, max, HVNO, lied>>
      /\ i = 0 /\ index = 0 /\ max = -1
      /\ hashMap' = [g \in 0 .. N |-> EmptyGroup]
  <2>1. hashMap = [g \in 0 .. N |-> EmptyGroup]
    BY DEF StartSelect, Inv, Control
  <2>2. \A g \in 0 .. N : [hashMap[g] EXCEPT !.idx = <<>>] = EmptyGroup
    BY <2>1 DEF EmptyGroup
  <2>3. hashMap' = [g \in 0 .. N |-> EmptyGroup]
    BY <2>1, <2>2 DEF StartSelect
  <2> QED BY <2>3 DEF StartSelect, Inv, Control, Joined, threads
<1>2. TypeOK'
  <2>1. EmptyGroup \in Groups
    BY DEF EmptyGroup, Groups
  <2> QED BY <1>1, <2>1 DEF Inv, TypeOK, threads, Positions
<1>3. Control'
  BY <1>1 DEF Inv, Control, threads
<1>4. ThreadsInv' /\ CountInv'
  BY <1>1, ThreadsStand
<1>5. GroupsInv'
  <2>1. Seen' = {} /\ Counting' = {}
    <3>1. Seen' = {}
      BY <1>1 DEF Seen, Voters, Servers
    <3> QED BY <3>1 DEF Counting
  <2>2. Filled' = {}
    BY <1>1 DEF Filled
  <2>3. responsesG' >= Quorum'
    BY <1>1 DEF StartSelect, Quorum, threads
  <2>4. Grouped'
    BY <2>1, <2>2 DEF Grouped, Ordered
  <2> QED BY <1>1, <2>1, <2>3, <2>4 DEF GroupsInv, EmptyGroup
<1>6. SelectsAsVoted'
  BY <1>1, SelectionStands DEF Inv, threads, Voted
<1> QED BY <1>2, <1>3, <1>4, <1>5, <1>6 DEF Inv

-----------------------------------------------------------------------------
(* What the entries of hashTable in use hold while the loop runs.          *)
LEMMA FilledEntries ==
  ASSUME Inv, pc = "group"
  PROVE  /\ Filled \in SUBSET (0 .. N) /\ index \in 0 .. N /\ i \in 0 .. N
         /\ Seen \in SUBSET Servers /\ Counting \in SUBSET Seen
         /\ \A s \in Seen : ans[s] \in FullAnswers
         /\ \A g \in 0 .. N : hashMap[g].idx \in Seq(Servers)
         /\ \A g \in Filled : /\ hashMap[g].idx[1] \in Members(g)
                              /\ hashMap[g].idx[1] \in Nat /\ hashMap[g].idx[1] < i
                              /\ g < i /\ Members(g) \in SUBSET Counting
<1>1. /\ index \in 0 .. N /\ i \in 0 .. N /\ N \in Nat
      /\ \A g \in 0 .. N : hashMap[g].idx \in Seq(Servers)
  BY QuorumAssumption DEF Inv, TypeOK, Groups
<1>2. Filled \in SUBSET (0 .. N)
  BY <1>1 DEF Filled
<1>3. Seen \in SUBSET Servers /\ Counting \in SUBSET Seen
  BY DEF Seen, Counting, Voters
<1>4. \A s \in Seen : ans[s] \in FullAnswers
  BY DEF Seen, Voters, Inv, ThreadsInv, ThreadInv
<1>5. ASSUME NEW g \in Filled
      PROVE  /\ hashMap[g].idx[1] \in Members(g)
             /\ hashMap[g].idx[1] \in Nat /\ hashMap[g].idx[1] < i
             /\ g < i /\ Members(g) \in SUBSET Counting
  <2>1. GroupOf(g)
    BY DEF Inv, GroupsInv, Grouped
  <2>2. hashMap[g].idx[1] \in Members(g)
    BY <1>1, <1>2, <2>1 DEF GroupOf, Members, Count
  <2>3. Members(g) \in SUBSET Counting
    BY <2>1 DEF GroupOf, Agreeing
  <2>4. hashMap[g].idx[1] \in Nat /\ hashMap[g].idx[1] < i
    BY <1>3, <2>2, <2>3, ServersFinite DEF Seen
  <2>5. g < i
    BY <1>1, <1>2, <2>1, <2>4 DEF GroupOf
  <2> QED BY <2>2, <2>3, <2>4, <2>5
<1> QED BY <1>1, <1>2, <1>3, <1>4, <1>5

(* An answer joins the group of its key.                                   *)
LEMMA Joins ==
  ASSUME Inv, pc = "group", UNCHANGED <<msgType, ans>>, i \in Servers,
         NEW p \in Filled, hashMap[p].tag = Key(i),
         hashMap' = [hashMap EXCEPT ![p].idx = Append(@, i)],
         Filled' = Filled, Counting' = Counting \cup {i}
  PROVE  Grouped'
<1>1. /\ Filled \in SUBSET (0 .. N) /\ Counting \in SUBSET Servers
      /\ \A s \in Counting : s < i
      /\ hashMap \in [0 .. N -> Groups]
      /\ \A g \in 0 .. N : hashMap[g].idx \in Seq(Servers)
      /\ \A g \in Filled : GroupOf(g)
      /\ \A g \in Filled : hashMap[g].idx[1] \in Nat /\ hashMap[g].idx[1] < i
      /\ Ordered
  BY FilledEntries DEF Inv, TypeOK, GroupsInv, Grouped, Seen
<1>2. i \in Nat /\ i \notin Counting /\ IsFiniteSet(Counting)
  <2>1. i \in Nat /\ \A s \in Counting : s \in Nat
    BY <1>1, ServersFinite
  <2> QED BY <1>1, <2>1, ServersFinite, Sizes
<1>3. \A s \in Servers : Key(s)' = Key(s)
  BY DEF Key
<1>4. \A g \in 0 .. N \ {p} : hashMap'[g] = hashMap[g]
  BY <1>1
<1>5. /\ hashMap'[p].tag = hashMap[p].tag
      /\ hashMap'[p].idx = Append(hashMap[p].idx, i)
  BY <1>1 DEF Groups
<1>6. ASSUME NEW g \in Filled \ {p}
      PROVE  GroupOf(g)'
  <2>1. hashMap[g].tag # Key(i)
    BY <1>1 DEF Ordered
  <2>2. Members(g)' = Members(g) /\ Count(g)' = Count(g)
    BY <1>1, <1>4 DEF Members, Count
  <2>3. Agreeing(hashMap[g].tag)' = Agreeing(hashMap[g].tag)
    BY <1>1, <1>3, <2>1 DEF Agreeing
  <2>4. GroupOf(g) /\ hashMap'[g] = hashMap[g]
    BY <1>1, <1>4
  <2> QED BY <2>2, <2>3, <2>4 DEF GroupOf
<1>7. GroupOf(p)'
  <2> DEFINE old == hashMap[p].idx
  <2>1. /\ old \in Seq(Servers) /\ Len(old) \in Nat /\ GroupOf(p)
    BY <1>1
  <2>2. /\ Len(hashMap'[p].idx) = Len(old) + 1
        /\ hashMap'[p].idx[Len(old) + 1] = i
        /\ \A x \in 1 .. Len(old) : hashMap'[p].idx[x] = old[x]
    BY <1>5, <2>1
  <2>3. Len(old) >= 1 /\ hashMap'[p].idx[1] = old[1]
    BY <2>1, <2>2 DEF GroupOf, Count
  <2>4. Members(p)' = Members(p) \cup {i}
    BY <2>1, <2>2 DEF Members, Count
  <2>5. Agreeing(hashMap[p].tag)' = Agreeing(hashMap[p].tag) \cup {i}
    BY <1>1, <1>3 DEF Agreeing
  <2>6. Members(p)' = Agreeing(hashMap[p].tag)'
    BY <1>5, <2>1, <2>4, <2>5 DEF GroupOf
  <2>7. Count(p)' = Cardinality(Members(p)')
    <3>1. Members(p) \in SUBSET Counting
      BY <2>1 DEF GroupOf, Agreeing
    <3>2. IsFiniteSet(Members(p)) /\ i \notin Members(p)
      BY <1>2, <3>1, FS_Subset
    <3>3. Cardinality(Members(p) \cup {i}) = Cardinality(Members(p)) + 1
      BY <3>2, FS_AddElement
    <3> QED BY <2>1, <2>2, <2>4, <3>3 DEF GroupOf, Count
  <2>8. Count(p)' >= 1
    BY <2>1, <2>2 DEF Count
  <2>9. \A s \in Members(p)' : hashMap'[p].idx[1] <= s
    BY <1>1, <1>2, <2>1, <2>3, <2>4 DEF GroupOf
  <2> QED BY <2>1, <2>3, <2>6, <2>7, <2>8, <2>9 DEF GroupOf
<1>8. Ordered'
  <2>1. \A g \in Filled : /\ hashMap'[g].tag = hashMap[g].tag
                          /\ hashMap'[g].idx[1] = hashMap[g].idx[1]
    <3>1. hashMap[p].idx \in Seq(Servers) /\ Len(hashMap[p].idx) >= 1
      BY <1>1 DEF GroupOf, Count
    <3>2. hashMap'[p].idx[1] = hashMap[p].idx[1]
      BY <1>5, <3>1
    <3> QED BY <1>1, <1>4, <1>5, <3>2
  <2> QED BY <1>1, <2>1 DEF Ordered
<1>9. \A s \in Counting' : \E g \in Filled' : hashMap'[g].tag = Key(s)'
  <2>1. \A g \in Filled : hashMap'[g].tag = hashMap[g].tag
    BY <1>1, <1>4, <1>5
  <2> QED BY <1>1, <1>3, <2>1 DEF Inv, GroupsInv, Grouped
<1> QED BY <1>6, <1>7, <1>8, <1>9 DEF Grouped

(* An answer with a key of its own starts a group at the end of the table. *)
LEMMA Starts ==
  ASSUME Inv, pc = "group", UNCHANGED <<msgType, ans>>, i \in Servers,
         NEW p \in 0 .. N, p <= i, NEW C \in SUBSET Counting, NEW F \in SUBSET Filled,
         \A g \in F : g < p /\ hashMap[g].tag # Key(i) /\ Members(g) \subseteq C,
         \A s \in C : \E g \in F : hashMap[g].tag = Key(s),
         hashMap' = [hashMap EXCEPT ![p] = [tag |-> Key(i), idx |-> <<i>>]],
         Filled' = F \cup {p}, Counting' = C \cup {i},
         F = {} \/ C = Counting
  PROVE  Grouped'
<1>1. /\ Filled \in SUBSET (0 .. N) /\ Counting \in SUBSET Servers
      /\ hashMap \in [0 .. N -> Groups]
      /\ \A g \in Filled : GroupOf(g)
      /\ \A g \in Filled : hashMap[g].idx[1] \in Nat /\ hashMap[g].idx[1] < i
      /\ Ordered /\ i \in Nat
  BY FilledEntries, ServersFinite DEF Inv, TypeOK, GroupsInv, Grouped
<1>2. \A s \in Servers : Key(s)' = Key(s)
  BY DEF Key
<1>3. /\ \A g \in F : hashMap'[g] = hashMap[g]
      /\ hashMap'[p].tag = Key(i) /\ hashMap'[p].idx = <<i>>
  BY <1>1
<1>4. \A s \in C : Key(s) # Key(i)
  OBVIOUS
<1>5. ASSUME NEW g \in F
      PROVE  GroupOf(g)'
  <2>1. C = Counting
    OBVIOUS
  <2>2. Members(g)' = Members(g) /\ Count(g)' = Count(g)
    BY <1>3 DEF Members, Count
  <2>3. Agreeing(hashMap[g].tag)' = Agreeing(hashMap[g].tag)
    <3>1. hashMap'[g].tag = hashMap[g].tag /\ hashMap[g].tag # Key(i)
      BY <1>3
    <3>2. \A s \in Counting \cup {i} : Key(s)' = Key(s)
      BY <1>1, <1>2
    <3>3. \A s \in Counting \cup {i} :
            Key(s)' = hashMap'[g].tag <=> s \in Counting /\ Key(s) = hashMap[g].tag
      BY <3>1, <3>2
    <3>4. Counting' = Counting \cup {i}
      BY <2>1
    <3> QED BY <3>3, <3>4 DEF Agreeing
  <2>4. GroupOf(g) /\ hashMap'[g] = hashMap[g]
    BY <1>1, <1>3
  <2> QED BY <2>2, <2>3, <2>4 DEF GroupOf
<1>6. GroupOf(p)'
  <2>1. Members(p)' = {i} /\ Count(p)' = 1
    BY <1>3 DEF Members, Count
  <2>2. Agreeing(hashMap[p].tag)' = {i}
    <3>1. \A s \in C \cup {i} : Key(s)' = hashMap'[p].tag <=> s = i
      BY <1>1, <1>2, <1>3, <1>4
    <3> QED BY <3>1 DEF Agreeing
  <2>3. Cardinality({i}) = 1
    BY FS_Singleton
  <2> QED BY <1>1, <1>3, <2>1, <2>2, <2>3 DEF GroupOf
<1>7. Ordered'
  <2>1. \A g \in F : /\ hashMap'[g] = hashMap[g] /\ g < p
                     /\ hashMap[g].tag # Key(i) /\ hashMap[g].idx[1] < i
                     /\ g \in Filled /\ g \in Nat
    BY <1>1, <1>3
  <2>2. hashMap'[p].idx[1] = i
    BY <1>3
  <2>3. p \in Nat
    OBVIOUS
  <2> QED BY <1>1, <1>3, <2>1, <2>2, <2>3 DEF Ordered
<1>8. \A s \in Counting' : \E g \in Filled' : hashMap'[g].tag = Key(s)'
  BY <1>1, <1>2, <1>3
<1> QED BY <1>5, <1>6, <1>7, <1>8 DEF Grouped

(* An answer that does not count leaves the groups as they are.            *)
LEMMA GroupsStand ==
  ASSUME Grouped, UNCHANGED <<msgType, ans, hashMap>>, Counting' = Counting,
         Filled' = Filled
  PROVE  Grouped'
<1>1. \A s \in Counting : Key(s)' = Key(s)
  BY DEF Key
<1>2. \A g \in Filled : Members(g)' = Members(g) /\ Count(g)' = Count(g)
  BY DEF Members, Count
<1>3. \A g \in Filled : Agreeing(hashMap[g].tag)' = Agreeing(hashMap[g].tag)
  BY <1>1 DEF Agreeing
<1>4. \A g \in Filled : GroupOf(g)'
  BY <1>2, <1>3 DEF Grouped, GroupOf
<1> QED BY <1>1, <1>4 DEF Grouped, Ordered

(* A group with one more member has its type.                              *)
LEMMA AppendTyped ==
  ASSUME NEW r \in Groups, NEW s \in Servers
  PROVE  [r EXCEPT !.idx = Append(@, s)] \in Groups
<1>1. Append(r.idx, s) \in Seq(Servers)
  BY DEF Groups
<1> QED BY <1>1 DEF Groups

(* A turn of a loop looks at the answer of server i.                       *)
LEMMA Turn ==
  ASSUME Inv, pc = "group", i < N, i' = i + 1, UNCHANGED threads
  PROVE  /\ i \in Servers /\ i \in Nat /\ i + 1 \in 0 .. N
         /\ i \notin Seen /\ ans' = ans
         /\ sock[i] \in {"none", "open"}
         /\ sock[i] = "open" => Seen' = Seen \cup {i} /\ ans[i] \in FullAnswers
         /\ sock[i] = "none" => Seen' = Seen
<1>1. i \in Servers /\ i \in Nat /\ i + 1 \in 0 .. N
  BY QuorumAssumption DEF Inv, TypeOK, Servers
<1>2. \A s \in Servers : s \in Nat
  BY ServersFinite
<1>3. Joined /\ sock[i] \in {"none", "open"} /\ (sock[i] = "open" => ans[i] \in FullAnswers)
  <2>1. Joined
    BY DEF Inv, Control
  <2> QED BY <1>1, <2>1, JoinedCount DEF Voters
<1>4. /\ sock[i] = "open" => Seen' = Seen \cup {i}
      /\ sock[i] = "none" => Seen' = Seen
  <2>1. Voters' = Voters /\ (i \in Voters <=> sock[i] = "open")
    BY <1>1 DEF Voters, threads
  <2>2. \A s \in Voters : s < i + 1 <=> s < i \/ s = i
    BY <1>1, <1>2 DEF Voters
  <2>3. Seen' = {s \in Voters : s < i + 1}
    BY <2>1 DEF Seen
  <2>4. i \in Voters => Seen' = Seen \cup {i}
    BY <1>1, <2>2, <2>3 DEF Seen
  <2>5. i \notin Voters => Seen' = Seen
    BY <2>2, <2>3 DEF Seen
  <2> QED BY <2>1, <2>4, <2>5
<1>5. i \notin Seen
  BY <1>1 DEF Seen
<1>6. ans' = ans
  BY DEF threads
<1> QED BY <1>1, <1>3, <1>4, <1>5, <1>6

(* What a turn of a loop keeps besides the groups.                         *)
LEMMA TurnKeeps ==
  ASSUME Inv, pc = "group", i < N, i' = i + 1,
         UNCHANGED <<msgType, pc, round, threads, HVNO, lied>>,
         index' \in 0 .. N, max' \in {-1} \cup Nat, hashMap' \in [0 .. N -> Groups],
         GroupsInv'
  PROVE  Inv'
<1>1. TypeOK'
  <2>1. i' \in 0 .. N
    BY Turn
  <2> QED BY <2>1 DEF Inv, TypeOK, threads
<1>2. Control'
  BY DEF Inv, Control, threads, Joined
<1>3. ThreadsInv' /\ CountInv'
  BY ThreadsStand
<1>4. SelectsAsVoted'
  BY SelectionStands DEF Inv, threads, Voted
<1> QED BY <1>1, <1>2, <1>3, <1>4 DEF Inv

(* A turn of the loop over the answers to a GET keeps the groups of the    *)
(* values with the highest version number so far.                          *)
LEMMA ValueStep ==
  ASSUME Inv, GroupValue
  PROVE  Inv'
<1> DEFINE a == ans[i]
           same == {g \in 0 .. index : hashMap[g].tag = a.value}
<1>1. /\ pc = "group" /\ msgType = "GET" /\ i < N /\ i' = i + 1
      /\ UNCHANGED <<msgType, pc, round, threads, HVNO, lied>>
  BY DEF GroupValue
<1>2. /\ i \in Servers /\ i \in Nat /\ i + 1 \in 0 .. N
      /\ i \notin Seen /\ ans' = ans
      /\ sock[i] \in {"none", "open"}
      /\ sock[i] = "open" => Seen' = Seen \cup {i} /\ ans[i] \in FullAnswers
      /\ sock[i] = "none" => Seen' = Seen
  BY <1>1, Turn
<1>3. /\ Filled \in SUBSET (0 .. N) /\ index \in 0 .. N
      /\ Seen \in SUBSET Servers /\ Counting \in SUBSET Seen
      /\ \A s \in Seen : ans[s].vno \in Nat
      /\ \A g \in 0 .. N : hashMap[g].idx \in Seq(Servers)
      /\ \A g \in Filled : g < i /\ Members(g) \in SUBSET Counting
      /\ hashMap \in [0 .. N -> Groups] /\ max \in {-1} \cup Nat /\ N \in Nat
  <2>1. \A s \in Seen : ans[s].vno \in Nat
    BY <1>1, FilledEntries, VnosAssumption DEF FullAnswers
  <2> QED BY <1>1, <2>1, FilledEntries, QuorumAssumption DEF Inv, TypeOK
<1>4. /\ Grouped /\ Ordered
      /\ Seen # {} => Counting # {}
      /\ \A s \in Seen : ans[s].vno <= max
      /\ (max = -1 => index = 0) /\ (max = -1 <=> Seen = {})
      /\ responsesG >= Quorum /\ responsesG' >= Quorum'
  BY <1>1 DEF Inv, GroupsInv, Grouped, Quorum, threads
<1>5. /\ Counting = {s \in Seen : ans[s].vno = max}
      /\ Counting' = {s \in Seen' : ans[s].vno = max'}
      /\ Filled = {g \in 0 .. index : max # -1}
      /\ Filled' = {g \in 0 .. index' : max' # -1}
      /\ Key(i) = a.value
  BY <1>1, <1>2 DEF Counting, Filled, Key
<1>6. sock[i] = "open" => a.vno \in Nat /\ a.value \in Vals
  BY <1>2, VnosAssumption DEF FullAnswers
<1>7. CASE sock[i] = "open" /\ a.vno > max /\ max' = a.vno /\ index' = 0
           /\ hashMap' = NewGroup(0, a.value, i)
  <2>1. Seen' = Seen \cup {i} /\ a.vno \in Nat
    BY <1>2, <1>6, <1>7
  <2>2. Counting' = {} \cup {i} /\ Filled' = {} \cup {0}
    BY <1>3, <1>4, <1>5, <1>7, <2>1
  <2>3. Grouped'
    <3> DEFINE E == {}
    <3>1. hashMap' = [hashMap EXCEPT ![0] = [tag |-> Key(i), idx |-> <<i>>]]
      BY <1>5, <1>7 DEF NewGroup
    <3>2. 0 \in 0 .. N /\ 0 <= i /\ E \in SUBSET Counting /\ E \in SUBSET Filled
      BY <1>2, <1>3
    <3>3. UNCHANGED <<msgType, ans>>
      BY <1>1, <1>2
    <3>4. Counting' = E \cup {i} /\ Filled' = E \cup {0}
      BY <2>2
    <3>5. /\ \A g \in E : g < 0 /\ hashMap[g].tag # Key(i) /\ Members(g) \subseteq E
          /\ \A s \in E : \E g \in E : hashMap[g].tag = Key(s)
          /\ E = {} \/ E = Counting
      OBVIOUS
    <3> HIDE DEF E
    <3> QED BY <1>1, <1>2, <3>1, <3>2, <3>3, <3>4, <3>5, Starts
  <2>4. GroupsInv'
    <3>1. \A s \in Seen' : ans'[s].vno <= max'
      <4>1. \A s \in Seen : ans[s].vno \in Nat /\ ans[s].vno <= max
        BY <1>3, <1>4
      <4>2. max' = a.vno /\ max < a.vno /\ max \in {-1} \cup Nat /\ ans' = ans
        BY <1>2, <1>3, <1>7
      <4> QED BY <2>1, <4>1, <4>2
    <3>2. max' # -1 /\ Seen' # {} /\ Counting' # {}
      BY <1>7, <2>1, <2>2
    <3> QED BY <1>1, <1>4, <2>3, <3>1, <3>2 DEF GroupsInv
  <2>5. hashMap' \in [0 .. N -> Groups]
    BY <1>2, <1>3, <1>6, <1>7 DEF NewGroup, Groups
  <2> QED BY <1>1, <1>3, <1>7, <2>1, <2>4, <2>5, TurnKeeps
<1>8. CASE sock[i] = "open" /\ a.vno = max /\ UNCHANGED max
  <2>1. Seen' = Seen \cup {i} /\ max \in Nat /\ Counting' = Counting \cup {i}
    BY <1>2, <1>3, <1>5, <1>6, <1>8
  <2>2. Filled = 0 .. index /\ Filled' = 0 .. index'
    BY <1>5, <1>8, <2>1
  <2>3. /\ \A s \in Seen' : ans'[s].vno <= max'
        /\ max' # -1 /\ Counting' # {} /\ Seen' # {}
    BY <1>2, <1>3, <1>4, <1>8, <2>1
  <2>4. Grouped' => GroupsInv'
    BY <1>1, <1>4, <2>3 DEF GroupsInv
  <2>5. CASE same # {} /\ hashMap' = AddTo(same, i) /\ UNCHANGED index
    <3>1. PICK p \in 0 .. index : hashMap[p].tag = a.value
      BY <2>5
    <3>2. same = {p}
      BY <1>3, <1>4, <2>2, <3>1 DEF Ordered
    <3>3. hashMap' = [hashMap EXCEPT ![p].idx = Append(@, i)]
      BY <1>3, <2>5, <3>2 DEF AddTo
    <3>4. Grouped'
      BY <1>1, <1>2, <1>5, <2>1, <2>2, <2>5, <3>1, <3>3, Joins
    <3>5. hashMap' \in [0 .. N -> Groups]
      BY <1>2, <1>3, <3>1, <3>3, AppendTyped
    <3> QED BY <1>1, <1>3, <1>8, <2>4, <2>5, <3>4, <3>5, TurnKeeps
  <2>6. CASE same = {} /\ index' = index + 1 /\ hashMap' = NewGroup(index + 1, a.value, i)
    <3>1. index + 1 <= i /\ index + 1 \in 0 .. N
      BY <1>1, <1>2, <1>3, <2>2
    <3>2. Filled' = Filled \cup {index + 1}
      BY <1>3, <2>2, <2>6
    <3>3. ASSUME NEW g \in Filled
          PROVE  g < index + 1 /\ hashMap[g].tag # Key(i) /\ Members(g) \subseteq Counting
      <4>1. g \in 0 .. index /\ g \notin same
        BY <2>2, <2>6
      <4> QED BY <1>3, <1>5, <4>1
    <3>4. hashMap' = [hashMap EXCEPT ![index + 1] = [tag |-> Key(i), idx |-> <<i>>]]
      BY <1>5, <2>6 DEF NewGroup
    <3>5. Grouped'
      <4>1. \A s \in Counting : \E g \in Filled : hashMap[g].tag = Key(s)
        BY <1>4 DEF Grouped
      <4> QED BY <1>1, <1>2, <2>1, <3>1, <3>2, <3>3, <3>4, <4>1, Starts
    <3>6. hashMap' \in [0 .. N -> Groups]
      BY <1>2, <1>3, <1>6, <1>8, <3>1, <2>6 DEF NewGroup, Groups
    <3> QED BY <1>1, <1>3, <1>8, <2>4, <2>6, <3>1, <3>5, <3>6, TurnKeeps
  <2>7. ~ (a.vno > max) /\ ~ (a.vno < max) /\ sock[i] # "none"
    BY <1>8, <2>1
  <2> QED BY <1>8, <2>5, <2>6, <2>7 DEF GroupValue
<1>9. CASE (sock[i] = "none" \/ a.vno < max) /\ UNCHANGED <<max, index, hashMap>>
  <2>1. Counting' = Counting /\ Filled' = Filled
    BY <1>2, <1>3, <1>5, <1>6, <1>9
  <2>2. /\ \A s \in Seen' : ans'[s].vno <= max'
        /\ Seen' # {} => Counting' # {}
        /\ (max' = -1 => index' = 0) /\ (max' = -1 <=> Seen' = {})
    <3>1. CASE sock[i] = "none"
      BY <1>2, <1>4, <1>9, <2>1, <3>1
    <3>2. CASE sock[i] = "open" /\ a.vno < max
      <4>1. /\ Seen' = Seen \cup {i} /\ a.vno \in Nat /\ max # -1 /\ max' = max
            /\ a.vno <= max
        BY <1>2, <1>3, <1>6, <1>9, <3>2
      <4>2. Seen # {}
        BY <1>3, <1>4, <4>1 DEF Inv
      <4> QED BY <1>2, <1>4, <2>1, <4>1, <4>2
    <3> QED BY <1>2, <1>9, <3>1, <3>2
  <2>3. Grouped'
    BY <1>1, <1>2, <1>4, <1>9, <2>1, GroupsStand
  <2>4. GroupsInv'
    BY <1>1, <1>4, <2>2, <2>3 DEF GroupsInv
  <2> QED BY <1>1, <1>3, <1>9, <2>4, TurnKeeps
<1> QED BY <1>7, <1>8, <1>9 DEF GroupValue

(* A turn of the loop over the votes for a PUT keeps the groups of equal   *)
(* version numbers.                                                        *)
LEMMA VnoStep ==
  ASSUME Inv, GroupVno
  PROVE  Inv'
<1> DEFINE n == ans[i].vno
           same == {g \in 0 .. index - 1 : hashMap[g].tag = n}
<1>1. /\ pc = "group" /\ msgType = "PUT" /\ i < N /\ i' = i + 1
      /\ UNCHANGED <<msgType, pc, round, threads, max, HVNO, lied>>
  BY DEF GroupVno
<1>2. /\ i \in Servers /\ i \in Nat /\ i + 1 \in 0 .. N
      /\ i \notin Seen /\ ans' = ans
      /\ sock[i] \in {"none", "open"}
      /\ sock[i] = "open" => Seen' = Seen \cup {i} /\ ans[i] \in FullAnswers
      /\ sock[i] = "none" => Seen' = Seen
  BY <1>1, Turn
<1>3. /\ Filled \in SUBSET (0 .. N) /\ index \in 0 .. N
      /\ \A g \in Filled : g < i /\ Members(g) \in SUBSET Counting
      /\ hashMap \in [0 .. N -> Groups] /\ max' \in {-1} \cup Nat /\ N \in Nat
  BY <1>1, FilledEntries, QuorumAssumption DEF Inv, TypeOK
<1>4. /\ Grouped /\ Ordered
      /\ \A g \in index .. N : hashMap[g].idx = <<>>
      /\ responsesG >= Quorum /\ responsesG' >= Quorum'
  BY <1>1 DEF Inv, GroupsInv, Grouped, Quorum, threads
<1>5. /\ Counting = Seen /\ Counting' = Seen'
      /\ Filled = 0 .. index - 1 /\ Filled' = 0 .. index' - 1
      /\ Key(i) = n
  BY <1>1, <1>2 DEF Counting, Filled, Key
<1>6. CASE sock[i] = "open" /\ same # {} /\ hashMap' = AddTo(same, i) /\ UNCHANGED index
  <2>1. PICK p \in Filled : hashMap[p].tag = n
    BY <1>5, <1>6
  <2>2. same = {p}
    BY <1>3, <1>4, <1>5, <2>1 DEF Ordered
  <2>3. hashMap' = [hashMap EXCEPT ![p].idx = Append(@, i)]
    BY <1>3, <1>6, <2>2 DEF AddTo
  <2>4. Grouped'
    <3>1. Counting' = Counting \cup {i} /\ Filled' = Filled
      BY <1>2, <1>5, <1>6
    <3> QED BY <1>1, <1>2, <1>5, <2>1, <2>3, <3>1, Joins
  <2>5. hashMap' \in [0 .. N -> Groups]
    BY <1>2, <1>3, <2>1, <2>3, AppendTyped
  <2>6. \A g \in index' .. N : hashMap'[g].idx = <<>>
    <3>1. p \in 0 .. index - 1
      BY <1>5, <2>1
    <3>2. \A g \in index .. N : g # p /\ g \in 0 .. N
      BY <1>3, <3>1
    <3> QED BY <1>3, <1>4, <1>6, <2>3, <3>2
  <2>7. GroupsInv'
    BY <1>1, <1>4, <1>5, <2>4, <2>6 DEF GroupsInv
  <2> QED BY <1>1, <1>3, <1>6, <2>5, <2>7, TurnKeeps
<1>7. CASE sock[i] = "open" /\ same = {} /\ hashMap' = NewGroup(index, n, i)
           /\ index' = index + 1
  <2>1. index <= i /\ index + 1 \in 0 .. N
    BY <1>1, <1>2, <1>3, <1>5
  <2>2. Filled' = Filled \cup {index} /\ Counting' = Counting \cup {i}
    BY <1>2, <1>3, <1>5, <1>7
  <2>3. ASSUME NEW g \in Filled
        PROVE  g < index /\ hashMap[g].tag # Key(i) /\ Members(g) \subseteq Counting
    <3>1. g \in 0 .. index - 1 /\ g \notin same
      BY <1>5, <1>7
    <3> QED BY <1>3, <1>5, <3>1
  <2>4. hashMap' = [hashMap EXCEPT ![index] = [tag |-> Key(i), idx |-> <<i>>]]
    BY <1>5, <1>7 DEF NewGroup
  <2>5. Grouped'
    <3>1. \A s \in Counting : \E g \in Filled : hashMap[g].tag = Key(s)
      BY <1>4 DEF Grouped
    <3> QED BY <1>1, <1>2, <1>3, <2>1, <2>2, <2>3, <2>4, <3>1, Starts
  <2>6. hashMap' \in [0 .. N -> Groups]
    <3>1. n \in Nat
      BY <1>2, <1>7, VnosAssumption DEF FullAnswers
    <3> QED BY <1>2, <1>3, <1>7, <3>1 DEF NewGroup, Groups
  <2>7. \A g \in index' .. N : hashMap'[g].idx = <<>>
    <3>1. \A g \in index + 1 .. N : g \in index .. N /\ g # index /\ g \in 0 .. N
      BY <1>3
    <3> QED BY <1>3, <1>4, <1>7, <2>4, <3>1
  <2>8. GroupsInv'
    BY <1>1, <1>4, <1>5, <2>5, <2>7 DEF GroupsInv
  <2> QED BY <1>1, <1>3, <1>7, <2>1, <2>6, <2>8, TurnKeeps
<1>8. CASE sock[i] = "none" /\ UNCHANGED <<index, hashMap>>
  <2>1. Counting' = Counting /\ Filled' = Filled
    BY <1>2, <1>5, <1>8
  <2>2. Grouped'
    BY <1>1, <1>2, <1>4, <1>8, <2>1, GroupsStand
  <2>3. GroupsInv'
    BY <1>1, <1>4, <1>5, <1>8, <2>2 DEF GroupsInv
  <2> QED BY <1>1, <1>3, <1>8, <2>3, TurnKeeps
<1> QED BY <1>6, <1>7, <1>8 DEF GroupVno

-----------------------------------------------------------------------------
(* The answers that count whose group no other exceeds.                    *)
Largest ==
  {s \in Counting : \A j \in Counting :
     Cardinality(Agreeing(Key(j))) <= Cardinality(Agreeing(Key(s)))}

(* Once all answers are grouped, the entry that selectServer takes is in   *)
(* use, it starts with the first of the answers in the largest groups, and *)
(* an answer is in one of these when its entry has as many members.        *)
LEMMA LargestEntry ==
  ASSUME Inv, pc = "group", i = N
  PROVE  /\ Seen = Voters /\ LargestGroup \in Filled
         /\ hashMap[LargestGroup].idx[1] = First(Largest)
         /\ hashMap[LargestGroup].idx[1] \in Members(LargestGroup)
         /\ First(Largest) \in Largest
         /\ \A g \in Filled : \A s \in Members(g) :
              s \in Largest <=> Count(g) = Count(LargestGroup)
         /\ \A s \in Counting : \E g \in Filled : s \in Members(g)
         /\ \A g \in (0 .. index) \ Filled : Count(g) = 0
         /\ \A g \in 0 .. index : Count(g) \in Nat
         /\ Filled \in SUBSET (0 .. index)
<1> DEFINE L == LargestGroup
<1>1. /\ Filled \in SUBSET (0 .. N) /\ index \in 0 .. N /\ N \in Nat
      /\ Seen \in SUBSET Servers /\ Counting \in SUBSET Seen /\ Servers \in SUBSET Nat
      /\ \A g \in 0 .. N : hashMap[g].idx \in Seq(Servers) /\ Count(g) \in Nat
      /\ \A g \in Filled : /\ hashMap[g].idx[1] \in Members(g)
                           /\ hashMap[g].idx[1] \in Nat
                           /\ Members(g) \in SUBSET Counting
  <2>1. \A g \in 0 .. N : hashMap[g].idx \in Seq(Servers)
    BY FilledEntries
  <2> QED BY <2>1, FilledEntries, ServersFinite, QuorumAssumption DEF Count
<1>2. /\ \A g \in Filled : GroupOf(g)
      /\ Ordered
      /\ \A s \in Counting : \E g \in Filled : hashMap[g].tag = Key(s)
  BY DEF Inv, GroupsInv, Grouped
<1>3. Seen = Voters /\ Counting # {}
  <2>1. Seen = Voters
    <3>1. \A s \in Servers : s < N
      BY <1>1 DEF Servers
    <3> QED BY <3>1 DEF Seen, Voters
  <2>2. Voters # {}
    <3>1. round = 0 /\ Joined /\ responsesG >= Quorum
      BY DEF Inv, Control, GroupsInv
    <3>2. Cardinality(Voters) >= Quorum /\ Quorum >= 1
      BY <3>1, JoinedCount, QuorumAssumption DEF Quorum
    <3>3. Cardinality({}) = 0
      BY FS_EmptySet
    <3>4. ASSUME Voters = {} PROVE FALSE
      <4> DEFINE q == Quorum
      <4>1. 0 >= q /\ q >= 1 /\ q \in Nat
        BY <3>2, <3>3, <3>4, QuorumAssumption DEF Quorum
      <4> HIDE DEF q
      <4> QED BY <4>1
    <3> QED BY <3>4
  <2> QED BY <2>1, <2>2 DEF Inv, GroupsInv
<1>4. \A g \in (0 .. index) \ Filled : Count(g) = 0
  <2>1. CASE msgType = "GET"
    <3>1. Filled = 0 .. index
      BY <1>3, <2>1 DEF Inv, GroupsInv, Filled, Counting, Seen
    <3> QED BY <3>1
  <2>2. CASE msgType = "PUT"
    <3>1. Filled = 0 .. index - 1 /\ hashMap[index].idx = <<>>
      BY <1>1, <2>2 DEF Inv, GroupsInv, Filled
    <3> QED BY <1>1, <3>1 DEF Count
  <2> QED BY <2>1, <2>2 DEF Inv, TypeOK
<1>5. Filled \in SUBSET (0 .. index) /\ Filled # {}
  <2>1. Filled \in SUBSET (0 .. index)
    BY <1>1 DEF Filled
  <2>2. Filled # {}
    BY <1>2, <1>3
  <2> QED BY <2>1, <2>2
<1>6. \A g \in 0 .. index : Count(g) \in Nat /\ Count(g) <= N
  <2>1. ASSUME NEW g \in Filled PROVE Count(g) <= N
    <3>1. Members(g) \in SUBSET Servers
      BY <1>1
    <3>2. Count(g) = Cardinality(Members(g))
      BY <1>2 DEF GroupOf
    <3>3. Cardinality(Members(g)) <= Cardinality(Servers)
      BY <3>1, ServersFinite, Sizes
    <3> QED BY <3>2, <3>3, ServersFinite
  <2>2. \A g \in 0 .. index : g \in 0 .. N
    BY <1>1
  <2> QED BY <1>1, <1>4, <2>1, <2>2
<1>7. /\ L \in 0 .. index
      /\ \A h \in 0 .. index : Count(h) <= Count(L)
      /\ \A h \in 0 .. L - 1 : Count(h) < Count(L)
  <2> DEFINE C == {Count(g) : g \in 0 .. index}
  <2>1. C \in SUBSET Nat /\ C # {} /\ \A k \in C : k <= N
    BY <1>1, <1>6
  <2>2. PICK m \in C : \A k \in C : k <= m
    <3> HIDE DEF C
    <3> QED BY <1>1, <2>1, NatMax, Zenon
  <2> DEFINE G == {g \in 0 .. index : Count(g) = m}
  <2>3. G \in SUBSET Nat /\ G # {}
    BY <2>2
  <2>4. PICK l \in G : \A h \in G : l <= h
    <3> HIDE DEF G
    <3> QED BY <2>3, NatMin, Zenon
  <2>5. /\ \A h \in 0 .. index : Count(h) <= Count(l)
        /\ \A h \in 0 .. l - 1 : Count(h) < Count(l)
    <3>1. \A h \in 0 .. index : Count(h) <= m
      BY <2>2
    <3>2. l \in 0 .. index /\ Count(l) = m /\ l \in Nat
      BY <2>4
    <3>3. ASSUME NEW h \in 0 .. l - 1 PROVE Count(h) < m
      <4>1. h \in 0 .. index /\ h < l
        BY <1>1, <3>2
      <4>2. h \notin G
        BY <2>4, <3>2, <4>1
      <4> QED BY <1>6, <2>1, <3>1, <4>1, <4>2
    <3> QED BY <3>1, <3>2, <3>3
  <2> QED BY <2>4, <2>5 DEF LargestGroup
<1>8. L \in Filled
  <2>1. PICK g \in Filled : TRUE
    BY <1>5
  <2>2. Count(g) >= 1 /\ Count(g) \in Nat /\ Count(g) <= Count(L) /\ Count(L) \in Nat
    BY <1>2, <1>5, <1>6, <1>7 DEF GroupOf
  <2> QED BY <1>4, <1>7, <2>2
<1>9. \A s \in Counting : \E g \in Filled : s \in Members(g)
  BY <1>2 DEF GroupOf, Agreeing
<1>10. \A g \in Filled : \A s \in Members(g) :
         /\ s \in Counting /\ Cardinality(Agreeing(Key(s))) = Count(g)
         /\ hashMap[g].idx[1] <= s
  BY <1>2 DEF GroupOf, Agreeing
<1>11. \A g \in Filled : \A s \in Members(g) :
         s \in Largest <=> Count(g) = Count(L)
  <2>1. ASSUME NEW g \in Filled, NEW s \in Members(g), Count(g) = Count(L)
        PROVE  s \in Largest
    <3>1. \A j \in Counting : Cardinality(Agreeing(Key(j))) <= Count(L)
      BY <1>5, <1>7, <1>9, <1>10
    <3> QED BY <1>10, <2>1, <3>1 DEF Largest
  <2>2. ASSUME NEW g \in Filled, NEW s \in Members(g), s \in Largest
        PROVE  Count(g) = Count(L)
    <3>1. PICK j \in Members(L) : TRUE
      BY <1>1, <1>8
    <3>2. Count(L) <= Count(g)
      BY <1>8, <1>10, <2>2, <3>1 DEF Largest
    <3>3. Count(g) <= Count(L)
      BY <1>5, <1>7
    <3>4. Count(g) \in Nat /\ Count(L) \in Nat
      BY <1>5, <1>6, <1>7
    <3> QED BY <3>2, <3>3, <3>4
  <2> QED BY <2>1, <2>2
<1>12. hashMap[L].idx[1] \in Largest /\ \A s \in Largest : hashMap[L].idx[1] <= s
  <2>1. hashMap[L].idx[1] \in Largest
    BY <1>1, <1>8, <1>11
  <2>2. ASSUME NEW s \in Largest PROVE hashMap[L].idx[1] <= s
    <3>1. PICK g \in Filled : s \in Members(g)
      BY <1>9 DEF Largest
    <3>2. Count(g) = Count(L)
      BY <1>11, <3>1
    <3>3. ~ (g < L)
      <4>1. ASSUME g < L PROVE FALSE
        <5>1. g \in 0 .. L - 1 /\ Count(L) \in Nat
          BY <1>1, <1>5, <1>6, <1>7, <4>1
        <5> QED BY <1>7, <3>2, <5>1
      <4> QED BY <4>1
    <3>4. g = L \/ L < g
      BY <1>5, <1>7, <3>3
    <3>5. hashMap[L].idx[1] <= hashMap[g].idx[1]
      BY <1>1, <1>2, <1>8, <3>4 DEF Ordered
    <3>6. hashMap[g].idx[1] <= s
      BY <1>10, <3>1
    <3>7. s \in Nat /\ hashMap[g].idx[1] \in Nat /\ hashMap[L].idx[1] \in Nat
      BY <1>1, <1>8 DEF Largest
    <3> QED BY <3>5, <3>6, <3>7
  <2> QED BY <2>1, <2>2
<1>13. hashMap[L].idx[1] = First(Largest)
  <2>1. Largest \in SUBSET Nat
    BY <1>1 DEF Largest
  <2> DEFINE f == hashMap[L].idx[1]
             S == Largest
  <2>2. S \in SUBSET Nat /\ f \in S /\ \A s \in S : f <= s
    BY <1>12, <2>1
  <2> HIDE DEF f, S
  <2>3. \A s \in S : (\A j \in S : s <= j) => s = f
    BY <2>2
  <2>4. f = First(S)
    BY <2>2, <2>3 DEF First
  <2> QED BY <2>4 DEF f, S
<1> QED BY <1>1, <1>3, <1>4, <1>5, <1>6, <1>8, <1>9, <1>11, <1>12, <1>13

(* What Votes selects from the answers, in terms of the groups.            *)
LEMMA GetGroups ==
  ASSUME Inv, pc = "group", i = N, msgType = "GET",
         NEW V, V = [s \in Voters |-> ans[s]]
  PROVE  SelectGet(V) = First(Largest) /\ LiedGet(V) = Counting \ Largest
<1>1. Voters # {} => Counting # {}
  BY LargestEntry DEF Inv, GroupsInv
<1>2. /\ \A s \in Voters : V[s] = ans[s] /\ ans[s].vno \in Nat /\ ans[s].vno <= max
      /\ Counting = {s \in Voters : ans[s].vno = max} /\ max \in {-1} \cup Nat
      /\ DOMAIN V = Voters
  <2>1. \A s \in Voters : ans[s].vno \in Nat
    BY LargestEntry, FilledEntries, VnosAssumption DEF FullAnswers
  <2>2. Seen = Voters /\ \A s \in Seen : ans[s].vno <= max
    BY LargestEntry DEF Inv, GroupsInv
  <2>3. Counting = {s \in Seen : ans[s].vno = max}
    BY DEF Counting
  <2> QED BY <2>1, <2>2, <2>3 DEF Inv, TypeOK
<1>3. Latest(V) = Counting
  <2>1. ASSUME NEW s \in Counting PROVE s \in Latest(V)
    BY <1>2 DEF Latest
  <2>2. ASSUME NEW s \in Latest(V) PROVE s \in Counting
    <3>1. s \in Voters /\ \A j \in Voters : ans[j].vno <= ans[s].vno
      BY <1>2 DEF Latest
    <3>2. PICK j \in Counting : TRUE
      BY <1>1, <3>1, LargestEntry DEF Inv, GroupsInv
    <3>3. j \in Voters /\ ans[j].vno = max
      BY <1>2
    <3>4. max <= ans[s].vno /\ ans[s].vno <= max /\ ans[s].vno \in Nat /\ max \in Int
      BY <1>2, <3>1, <3>3
    <3>5. ans[s].vno = max
      BY <3>4
    <3> QED BY <1>2, <3>1, <3>5
  <2> QED BY <2>1, <2>2
<1>4. \A s \in Counting : SameValue(V, s) = Agreeing(Key(s))
  BY <1>2, <1>3 DEF SameValue, Agreeing, Key
<1>5. LargestValue(V) = Largest
  BY <1>3, <1>4 DEF LargestValue, Largest
<1> QED BY <1>3, <1>5 DEF SelectGet, LiedGet

LEMMA PutGroups ==
  ASSUME Inv, pc = "group", i = N, msgType = "PUT",
         NEW V, V = [s \in Voters |-> ans[s]]
  PROVE  /\ SelectPut(V) = First(Largest)
         /\ LiedPut(V) =
              {s \in Counting \ Largest : ans[s].vno > ans[First(Largest)].vno}
<1>1. Counting = Voters /\ DOMAIN V = Voters /\ \A s \in Voters : V[s] = ans[s]
  BY LargestEntry DEF Counting
<1>2. \A s \in Counting : SameVno(V, s) = Agreeing(Key(s))
  BY <1>1 DEF SameVno, Agreeing, Key
<1>3. LargestVno(V) = Largest
  BY <1>1, <1>2 DEF LargestVno, Largest
<1>4. First(Largest) \in Voters
  BY <1>1, LargestEntry DEF Largest
<1> QED BY <1>1, <1>3, <1>4 DEF SelectPut, LiedPut

(* The liars reported are the answers that Votes calls so.                 *)
LEMMA LiarsFound ==
  ASSUME Inv, pc = "group", i = N, NEW V, V = [s \in Voters |-> ans[s]]
  PROVE  UNION {Members(g) : g \in LiarGroups} =
           IF msgType = "GET" THEN LiedGet(V) ELSE LiedPut(V)
<1> DEFINE L == LargestGroup
           Lied == UNION {Members(g) : g \in LiarGroups}
<1>1. /\ L \in Filled /\ Filled \in SUBSET (0 .. index)
      /\ \A g \in Filled : \A s \in Members(g) : s \in Largest <=> Count(g) = Count(L)
      /\ \A s \in Counting : \E g \in Filled : s \in Members(g)
      /\ \A g \in (0 .. index) \ Filled : Count(g) = 0
      /\ \A g \in 0 .. index : Count(g) \in Nat
      /\ First(Largest) \in Members(L)
  BY LargestEntry
<1>2. \A g \in Filled : \A s \in Members(g) :
        s \in Counting /\ Key(s) = hashMap[g].tag /\ Count(g) >= 1
  BY DEF Inv, GroupsInv, Grouped, GroupOf, Agreeing
<1>3. \A g \in (0 .. index) \ Filled : Members(g) = {}
  BY <1>1 DEF Members
<1>4. CASE msgType = "GET"
  <2>1. \A g \in 0 .. index : Count(g) <= Count(L)
    <3>1. ASSUME NEW g \in Filled PROVE Count(g) <= Count(L)
      <4>1. GroupOf(g) /\ GroupOf(L)
        BY <1>1 DEF Inv, GroupsInv, Grouped
      <4>2. PICK s \in Members(g) : s \in Counting /\ Key(s) = hashMap[g].tag
        BY <1>2, FilledEntries
      <4>3. Cardinality(Agreeing(Key(s))) <= Cardinality(Agreeing(Key(First(Largest))))
        BY <4>2, LargestEntry DEF Largest
      <4>4. Key(First(Largest)) = hashMap[L].tag
        BY <1>1, <1>2
      <4> QED BY <4>1, <4>2, <4>3, <4>4 DEF GroupOf
    <3>2. Count(L) >= 0
      BY <1>1
    <3> QED BY <1>1, <3>1, <3>2
  <2>2. \A g \in Filled : g \in LiarGroups <=> Count(g) # Count(L)
    BY <1>1, <1>4, <2>1 DEF LiarGroups
  <2>3. Lied = Counting \ Largest
    <3>1. ASSUME NEW s \in Lied PROVE s \in Counting \ Largest
      <4>1. PICK g \in LiarGroups : s \in Members(g)
        OBVIOUS
      <4>2. g \in Filled
        BY <1>3, <4>1 DEF LiarGroups
      <4> QED BY <1>1, <1>2, <2>2, <4>1, <4>2
    <3>2. ASSUME NEW s \in Counting \ Largest PROVE s \in Lied
      BY <1>1, <2>2
    <3> QED BY <3>1, <3>2
  <2> QED BY <1>4, <2>3, GetGroups
<1>5. CASE msgType = "PUT"
  <2>1. \A g \in Filled : \A s \in Members(g) :
          ans[s].vno = hashMap[g].tag /\ ans[First(Largest)].vno = hashMap[L].tag
    BY <1>1, <1>2, <1>5 DEF Key
  <2>2. ASSUME NEW g \in Filled PROVE Count(g) > 0
    <3>1. PICK s \in Members(g) : Count(g) >= 1
      BY <1>2, FilledEntries
    <3>2. Count(g) \in Nat
      BY <1>1
    <3> QED BY <3>1, <3>2
  <2>3. Lied = {s \in Counting \ Largest : ans[s].vno > ans[First(Largest)].vno}
    <3>1. ASSUME NEW s \in Lied
          PROVE  s \in Counting \ Largest /\ ans[s].vno > ans[First(Largest)].vno
      <4>1. PICK g \in LiarGroups : s \in Members(g)
        OBVIOUS
      <4>2. g \in Filled
        BY <1>3, <4>1 DEF LiarGroups
      <4>3. Count(g) # Count(L) /\ hashMap[g].tag > hashMap[L].tag
        BY <1>5, <4>1 DEF LiarGroups
      <4>4. s \in Counting /\ s \notin Largest
        BY <1>1, <1>2, <4>1, <4>2, <4>3
      <4>5. ans[s].vno = hashMap[g].tag /\ ans[First(Largest)].vno = hashMap[L].tag
        BY <2>1, <4>1, <4>2
      <4> QED BY <4>3, <4>4, <4>5
    <3>2. ASSUME NEW s \in Counting \ Largest, ans[s].vno > ans[First(Largest)].vno
          PROVE  s \in Lied
      <4>1. PICK g \in Filled : s \in Members(g)
        BY <1>1
      <4>2. Count(g) # Count(L) /\ hashMap[g].tag > hashMap[L].tag
        BY <1>1, <2>1, <3>2, <4>1
      <4>3. g \in LiarGroups
        BY <1>1, <1>5, <2>2, <4>1, <4>2 DEF LiarGroups
      <4> QED BY <4>1, <4>3
    <3> QED BY <3>1, <3>2
  <2> QED BY <1>5, <2>3, PutGroups
<1> QED BY <1>4, <1>5 DEF Inv, TypeOK

-----------------------------------------------------------------------------
(* The server selected and the liars are those of Votes, and a PUT starts  *)
(* its second round with a thread for every vote.                          *)
LEMMA SelectedStep ==
  ASSUME Inv, Selected
  PROVE  Inv'
<1> DEFINE V == [s \in Voters |-> ans[s]]
<1>1. /\ pc = "group" /\ i = N /\ round = 0 /\ Joined /\ msgType \in {"GET", "PUT"}
      /\ HVNO' = hashMap[LargestGroup].idx[1]
      /\ lied' = UNION {Members(g) : g \in LiarGroups}
      /\ UNCHANGED <<msgType, recv_data, sock, ans, responsesG, resO, wire,
                     i, index, max, hashMap>>
  BY DEF Inv, Control, TypeOK, Selected
<1>2. /\ msgType = "GET" => pc' = "end" /\ round' = 0 /\ th' = th
      /\ msgType = "PUT" =>
           /\ pc' = "join" /\ round' = 1
           /\ th' = [s \in Servers |-> IF sock[s] = "open" THEN "connect" ELSE "end"]
  BY <1>1 DEF Selected
<1>3. HVNO' = First(Largest) /\ HVNO' \in Voters /\ HVNO' \in Nat
  <2>1. First(Largest) \in Counting
    BY <1>1, LargestEntry DEF Largest
  <2> QED BY <1>1, <2>1, LargestEntry, FilledEntries, ServersFinite DEF Voters
<1>4. /\ lied' = IF msgType = "GET" THEN LiedGet(V) ELSE LiedPut(V)
      /\ HVNO' = IF msgType = "GET" THEN SelectGet(V) ELSE SelectPut(V)
  BY <1>1, <1>3, LiarsFound, GetGroups, PutGroups
<1>5. \A s \in Servers : ThreadInv(s) /\ th[s] = "end" /\ Len(wire[s]) \in Nat
  BY <1>1 DEF Inv, TypeOK, ThreadsInv, Joined
<1>6. TypeOK'
  <2>1. lied' \subseteq Servers
    <3>1. lied' \subseteq Voters
      <4>1. Counting \in SUBSET Voters
        BY <1>1, LargestEntry, FilledEntries
      <4> QED BY <1>1, <1>4, <4>1, GetGroups, PutGroups
    <3> QED BY <3>1 DEF Voters
  <2>2. HVNO' \in Servers
    BY <1>3 DEF Voters
  <2>3. pc' \in Positions /\ round' \in {0, 1} /\ th' \in [Servers -> ThreadLabels]
    BY <1>1, <1>2 DEF Inv, TypeOK, Positions, ThreadLabels
  <2> QED BY <1>1, <2>1, <2>2, <2>3 DEF Inv, TypeOK
<1>7. Control'
  <2>1. HVNO' # NoServer
    BY <1>3 DEF NoServer
  <2>2. msgType = "PUT" => responsesG >= Nw
    BY <1>1 DEF Inv, GroupsInv, Quorum
  <2> QED BY <1>1, <1>2, <2>1, <2>2 DEF Control, Joined
<1>8. ThreadsInv'
  <2>1. ASSUME NEW s \in Servers PROVE ThreadInv(s)'
    <3>1. CASE msgType = "GET"
      BY <1>1, <1>2, <1>5, <3>1 DEF ThreadInv
    <3>2. CASE msgType = "PUT"
      <4>1. th'[s] = IF sock[s] = "open" THEN "connect" ELSE "end"
        BY <1>2, <3>2
      <4>2. /\ sock[s] # "undef" /\ Len(wire[s]) <= 1
            /\ sock[s] = "open" => Len(wire[s]) = 1 /\ ans[s] \in FullAnswers
            /\ Len(wire[s]) >= 1 => wire[s][1] = [type |-> msgType]
        BY <1>1, <1>5 DEF ThreadInv
      <4>3. Len(wire[s]) \in Nat
        BY <1>5
      <4> QED BY <1>1, <1>2, <3>2, <4>1, <4>2, <4>3 DEF ThreadInv
    <3> QED BY <1>1, <3>1, <3>2
  <2> QED BY <2>1 DEF ThreadsInv
<1>9. CountInv'
  <2>1. CASE msgType = "GET"
    BY <1>1, <1>2, <2>1 DEF Inv, CountInv, Counted
  <2>2. CASE msgType = "PUT"
    BY <1>2, <2>2 DEF CountInv
  <2> QED BY <1>1, <2>1, <2>2
<1>10. GroupsInv'
  BY <1>1, <1>2 DEF GroupsInv
<1>11. SelectsAsVoted'
  <2>1. Voted' = Voters
    <3>1. \A s \in Servers : ~ (Len(wire[s]) > 1)
      BY <1>1, <1>5 DEF ThreadInv
    <3> QED BY <1>1, <3>1 DEF Voted, Voters
  <2>2. Votes1' = V
    BY <1>1, <2>1 DEF Votes1
  <2> QED BY <1>1, <1>4, <2>2 DEF SelectsAsVoted
<1> QED BY <1>6, <1>7, <1>8, <1>9, <1>10, <1>11 DEF Inv

(* The invariant is kept by every step.                                    *)
LEMMA StepInv == Inv /\ [Next]_vars => Inv'
<1> SUFFICES ASSUME Inv, [Next]_vars PROVE Inv'
  OBVIOUS
<1>1. CASE LesserQuorum \/ Finish
  BY <1>1, EndStep
<1>2. CASE StartSelect
  BY <1>2, StartStep
<1>3. CASE GroupValue
  BY <1>3, ValueStep
<1>4. CASE GroupVno
  BY <1>4, VnoStep
<1>5. CASE Selected
  BY <1>5, SelectedStep
<1>6. CASE \E s \in Servers : Thread(s)
  BY <1>6, ThreadStep
<1>7. CASE UNCHANGED vars
  <2>1. /\ UNCHANGED <<msgType, pc, round>> /\ UNCHANGED threads /\ UNCHANGED select
    BY <1>7 DEF vars
  <2>2. /\ UNCHANGED <<th, recv_data, sock, ans, responsesG, resO, wire>>
        /\ UNCHANGED <<i, index, max, hashMap, HVNO, lied>>
    BY <2>1 DEF threads, select
  <2>3. TypeOK' /\ Control'
    BY <2>1, <2>2 DEF Inv, TypeOK, Control, Joined
  <2>4. ThreadsInv' /\ CountInv'
    BY <2>1, <2>2, ThreadsStand
  <2>5. SelectsAsVoted'
    BY <2>1, <2>2, SelectionStands DEF Inv, Voted
  <2>6. GroupsInv'
    <3>1. Seen' = Seen /\ Counting' = Counting /\ Filled' = Filled /\ Quorum' = Quorum
      BY <2>1, <2>2 DEF Seen, Counting, Voters, Filled, Quorum
    <3>2. Grouped => Grouped'
      BY <2>1, <2>2, <3>1, GroupsStand
    <3> QED BY <2>1, <2>2, <3>1, <3>2 DEF Inv, GroupsInv
  <2> QED BY <2>3, <2>4, <2>5, <2>6 DEF Inv
<1> QED BY <1>1, <1>2, <1>3, <1>4, <1>5, <1>6, <1>7 DEF Next, Main

THEOREM Invariant == Spec => []Inv
<1> QED BY InitInv, StepInv, PTL DEF Spec

(* The client's variables have their types: the loop of selectServer never *)
(* leaves hashTable, and what it selects is a server (Client.c:25-178).    *)
THEOREM TypeCorrect == Spec => []TypeOK
<1>1. Inv => TypeOK
  BY DEF Inv
<1> QED BY <1>1, Invariant, PTL

(* However many threads race for it, the counter has one for every answer  *)
(* when the threads are joined (Client.c:243-253).                         *)
THEOREM EveryAnswerCounted == Spec => []EveryResponseCounts
<1>1. Inv => EveryResponseCounts
  BY JoinedCount DEF EveryResponseCounts
<1> QED BY <1>1, Invariant, PTL

(* The nested loops over hashTable select the server, and name the liars,  *)
(* that the definitions of Votes do: for any number of servers, in any     *)
(* order of versions and values among their answers (Client.c:60-176).     *)
THEOREM SelectionCorrect == Spec => []SelectsAsVoted
<1>1. Inv => SelectsAsVoted
  BY DEF Inv
<1> QED BY <1>1, Invariant, PTL

(* A server sees "PUT", then perhaps an update and a releaselock; updates  *)
(* go only to servers that voted, with one version above a vote, and only  *)
(* after a write quorum of votes (Client.c:226-240, 374-401).              *)
THEOREM ProtocolKept == Spec => []PutProtocol
<1>1. ASSUME Inv, NEW s \in Servers
      PROVE  /\ Len(wire[s]) <= 3
             /\ Len(wire[s]) >= 1 => wire[s][1].type = msgType
             /\ Len(wire[s]) = 3 => wire[s][3].type = "releaselock"
  BY <1>1 DEF Inv, ThreadsInv, ThreadInv
<1>2. ASSUME Inv, NEW s \in Servers, Len(wire[s]) >= 2
      PROVE  /\ msgType = "PUT" /\ wire[s][2].type = "update"
             /\ ans[s] \in [vno : Vnos, value : Vals]
             /\ \E u \in Servers : wire[s][2].vno = ans[u].vno + 1
             /\ \A u \in Servers : Len(wire[u]) >= 2 => wire[u][2] = wire[s][2]
             /\ responsesG >= Nw
  <2>1. \A u \in Servers : ThreadInv(u) /\ Len(wire[u]) \in Nat
    BY <1>2 DEF Inv, ThreadsInv, TypeOK
  <2>2. round = 1
    BY <1>2, <2>1 DEF ThreadInv, Inv, TypeOK
  <2>3. msgType = "PUT" /\ HVNO \in Servers /\ responsesG >= Nw
    BY <1>2, <2>2 DEF Inv, Control, TypeOK
  <2>4. \A u \in Servers :
          Len(wire[u]) >= 2 => wire[u][2] = [type |-> "update", vno |-> new_vnoG]
    BY <2>1 DEF ThreadInv
  <2>5. ans[s] \in [vno : Vnos, value : Vals]
    BY <1>2, <2>1 DEF ThreadInv, FullAnswers
  <2> QED BY <1>2, <2>3, <2>4, <2>5 DEF new_vnoG
<1>3. Inv => PutProtocol
  BY <1>1, <1>2 DEF PutProtocol
<1> QED BY <1>3, Invariant, PTL
=============================================================================
