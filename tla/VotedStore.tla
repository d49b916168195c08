----------------------------- MODULE VotedStore -----------------------------
(***************************************************************************)
(* The replicated store as its users see it: servers and clients together, *)
(* for one key and with one client at a time (Server.c, Client.c).         *)
(*                                                                         *)
(* A client reaches the servers that accept its connection (isReply, a     *)
(* server that is down or does not have the key): any subset.  A PUT is    *)
(* the votes of that subset, selectServer and the update of every server   *)
(* that voted; a GET is the answers and selectServer.  Liars answer a GET  *)
(* with a false value and a PUT with a false version number, and store     *)
(* updates like the others.                                                *)
(***************************************************************************)
EXTENDS Votes

CONSTANTS
  N, Nr, Nw,  \* servers, read quorum, write quorum
  Liars,      \* the servers started with lier = 1
  Vals, NoVal,
  MaxVno      \* bound on the version numbers

Servers == 0 .. N - 1

ASSUME SizesAssumption == N \in Nat /\ Nr \in Nat /\ Nw \in Nat
ASSUME LiarsAssumption == Liars \subseteq Servers
ASSUME ValsAssumption == NoVal \notin Vals
ASSUME MaxVnoAssumption == MaxVno \in Nat

VARIABLES
  vno, value,   \* the key's entry at each server; vno = 0: it has none
  output        \* what the last client printed: command, value, lie

vars == <<vno, value, output>>

LIER_VNO_INCR == 10
Output(op, v, lie) == [op |-> op, value |-> v, lie |-> lie]
NoOutput == Output("none", NoVal, FALSE)

(* Either every server has installed the key (main) or nobody has it.      *)
Init ==
  \/ /\ vno = [s \in Servers |-> 1]
     /\ \E v \in Vals : value = [s \in Servers |-> v]
     /\ output = NoOutput
  \/ /\ vno = [s \in Servers |-> 0]
     /\ value = [s \in Servers |-> NoVal]
     /\ output = NoOutput

(* The answers of the servers in R to a GET; one without the key has none. *)
GetAnswers(R) ==
  [s \in R |-> [vno |-> vno[s],
                value |-> [value |-> value[s], lie |-> s \in Liars]]]

(* The votes of the servers in V on a PUT.                                 *)
PutVotes(V) ==
  [s \in V |-> [vno |-> vno[s] + (IF s \in Liars THEN LIER_VNO_INCR ELSE 0)]]

(* Mutant: no test of the read quorum.                                     *)
Get_AnyAnswer(R) ==
  /\ R \subseteq {s \in Servers : vno[s] # 0}
  /\ Cardinality(R) >= 1
  /\ LET a == GetAnswers(R)[SelectGet(GetAnswers(R))].value
     IN  output' = Output("GET", a.value, a.lie)
  /\ UNCHANGED <<vno, value>>

Get(R) ==
  /\ R \subseteq {s \in Servers : vno[s] # 0}
  /\ Cardinality(R) >= Nr
  /\ LET a == GetAnswers(R)[SelectGet(GetAnswers(R))].value
     IN  output' = Output("GET", a.value, a.lie)
  /\ UNCHANGED <<vno, value>>

(* Mutants: no test of the write quorum; the version number is not         *)
(* incremented; the value of a server without the key is not stored.       *)
Put_AnyVotes(V, v) ==
  LET new_vnoG == PutVotes(V)[SelectPut(PutVotes(V))].vno + 1
  IN  /\ V # {} /\ new_vnoG <= MaxVno
      /\ vno' = [s \in Servers |-> IF s \in V THEN new_vnoG ELSE vno[s]]
      /\ value' = [s \in Servers |-> IF s \in V THEN v ELSE value[s]]
      /\ output' = Output("PUT", v, FALSE)
Put_SameVersion(V, v) ==
  LET new_vnoG == PutVotes(V)[SelectPut(PutVotes(V))].vno
  IN  /\ Cardinality(V) >= Nw /\ new_vnoG \in 1 .. MaxVno
      /\ vno' = [s \in Servers |-> IF s \in V THEN new_vnoG ELSE vno[s]]
      /\ value' = [s \in Servers |-> IF s \in V THEN v ELSE value[s]]
      /\ output' = Output("PUT", v, FALSE)
Put_OldOnly(V, v) ==
  LET new_vnoG == PutVotes(V)[SelectPut(PutVotes(V))].vno + 1
  IN  /\ Cardinality(V) >= Nw /\ new_vnoG <= MaxVno
      /\ vno' = [s \in Servers |-> IF s \in V THEN new_vnoG ELSE vno[s]]
      /\ value' = [s \in Servers |-> IF s \in V /\ vno[s] # 0 THEN v ELSE value[s]]
      /\ output' = Output("PUT", v, FALSE)

Put(V, v) ==
  LET votes == PutVotes(V)
      new_vnoG == votes[SelectPut(votes)].vno + 1
  IN  /\ Cardinality(V) >= Nw
      /\ new_vnoG <= MaxVno
      /\ vno' = [s \in Servers |-> IF s \in V THEN new_vnoG ELSE vno[s]]
      /\ value' = [s \in Servers |-> IF s \in V THEN v ELSE value[s]]
      /\ output' = Output("PUT", v, FALSE)

(* Too few answers: the client exits, the servers that voted time out and  *)
(* unlock the key.                                                         *)
LesserQuorum ==
  /\ output' = NoOutput
  /\ UNCHANGED <<vno, value>>

Next ==
  \/ LesserQuorum
  \/ \E S \in SUBSET Servers : Get(S) \/ \E v \in Vals : Put(S, v)

Spec == Init /\ [][Next]_vars

-----------------------------------------------------------------------------
(* The quorums of the command line, with what selectServer's vote needs on *)
(* top of main()'s test (Client.c:419): the readers that hold the latest   *)
(* value outnumber the liars among them, and so do the voters that hold    *)
(* the latest version outnumber all others.                                *)
Sound ==
  /\ Nr \in 1 .. N /\ Nw \in 1 .. N
  /\ Nr + Nw > N + 2 * Cardinality(Liars)
  /\ 3 * Nw > 2 * N + 2 * Cardinality(Liars)

Outputs ==
  [op : {"none", "GET", "PUT"}, value : Vals \cup {NoVal}, lie : BOOLEAN]

(* The types of the entries and of what a client prints.                   *)
TypeOK ==
  /\ vno \in [Servers -> Nat]
  /\ value \in [Servers -> Vals \cup {NoVal}]
  /\ output \in Outputs
  /\ \A s \in Servers : vno[s] = 0 <=> value[s] = NoVal

(* The servers with the highest version of the key.                        *)
Top == {s \in Servers : \A u \in Servers : vno[u] <= vno[s]}

(* The highest version is held by a write quorum and stands for one value: *)
(* no PUT reuses a version or writes below one that an earlier PUT reached *)
(* (Client.c:373-402).                                                     *)
LatestIsReplicated ==
  /\ Cardinality(Top) >= Nw
  /\ \A s, u \in Top : value[s] = value[u]

(* Only servers that lie are reported as liars (Client.c:152-175),         *)
(* whichever quorum answers.                                               *)
AccusationsJust ==
  \A S \in SUBSET Servers :
    /\ Cardinality(S) >= Nw => LiedPut(PutVotes(S)) \subseteq Liars
    /\ (\A s \in S : vno[s] # 0) /\ Cardinality(S) >= Nr
         => LiedGet(GetAnswers(S)) \subseteq Liars

(* The store is a register: no PUT that went through is lost, every GET    *)
(* prints the value of the last one and never a lie, although each of the  *)
(* two reaches only some servers and takes a vote among their answers      *)
(* (Client.c:25-178, 345-402).                                             *)
LatestValue == value[CHOOSE s \in Top : TRUE]
Printed == IF output.lie THEN output
           ELSE [op |-> output.op, value |-> output.value]
Abstract == INSTANCE Register WITH reg <- LatestValue, output <- Printed
ActsAsRegister == Abstract!Spec
=============================================================================
