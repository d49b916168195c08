----------------------------- MODULE VoteSystem -----------------------------
(***************************************************************************)
(* The store with several clients at once: each runs one GET or PUT of the *)
(* key that every server has installed, and the servers' locks keep them   *)
(* apart (Server.c, Client.c).                                             *)
(*                                                                         *)
(* A server's handler up to its next message is one step here, and so is   *)
(* selectServer (VoteClient).  VoteServer interleaves the threads inside a *)
(* server and finds that the lock is tested and set in two steps; this     *)
(* module shows what the protocol achieves when nothing comes in between.  *)
(* A request may be slow or never be served: a server closes it unread     *)
(* (isReply), refuses it, is down or answers when the client waits no      *)
(* longer.  All that is a request that stays where it is until its client  *)
(* decides: a lock that such a request takes and gives up again keeps      *)
(* others from being served, which they may be without it.                 *)
(*                                                                         *)
(* A server that has voted waits 30 seconds for the update and its client  *)
(* 10 for all votes (TIMEOUT in Server.h and Client.h), so a PUT that has  *)
(* its quorum still finds every vote standing; that it goes on to update   *)
(* them all is assumed.                                                    *)
(***************************************************************************)
EXTENDS Votes

CONSTANTS
  NumClients, \* the runs of the client
  N, Nr, Nw,  \* servers, read quorum, write quorum
  InitVal,    \* the value that main() installs ("value1")
  MaxRunning  \* bound on the clients that run at once

Servers == 0 .. N - 1

(* One run of the client each, numbered in the order in which they start;  *)
(* a PUT writes its client's number.                                       *)
Clients == 1 .. NumClients

(* The command line's test, and what selectServer's vote needs besides     *)
(* (Sound of VotedStore, without liars).                                   *)
ASSUME QuorumAssumption ==
  /\ N \in Nat \ {0} /\ Nr \in 1 .. N /\ Nw \in 1 .. N
  /\ Nr + Nw > N
  /\ 3 * Nw > 2 * N
ASSUME InitValAssumption == InitVal \notin Clients

VARIABLES
  vno, value, lock, numGetters,  \* the key's entry at each server
  phase,    \* of a client: idle, GET or PUT (answers come in), update, end
  session,  \* of a client and a server: see Sessions
  answer,   \* the answer that the client has got from the server
  result,   \* what the client printed: version and value
  floor     \* the highest version that clients had printed when it started

entries == <<vno, value, lock, numGetters>>
vars == <<entries, phase, session, answer, result, floor>>

(* sent: the request is on its way; voted: the server has locked the key   *)
(* and answered; answered, to a GET; update: the update is on its way;     *)
(* updated: it is done, the lock is still held; closed.                    *)
Sessions == {"none", "GET", "PUT", "answered", "voted", "update", "updated", "closed"}

Entry(n, v) == [vno |-> n, value |-> v]
NoEntry == Entry(0, InitVal)

Init ==
  /\ vno = [s \in Servers |-> 1]
  /\ value = [s \in Servers |-> InitVal]
  /\ lock = [s \in Servers |-> 0]
  /\ numGetters = [s \in Servers |-> 0]
  /\ phase = [c \in Clients |-> "idle"]
  /\ session = [c \in Clients |-> [s \in Servers |-> "none"]]
  /\ answer = [c \in Clients |-> [s \in Servers |-> NoEntry]]
  /\ result = [c \in Clients |-> NoEntry]
  /\ floor = [c \in Clients |-> 0]

-----------------------------------------------------------------------------
(* The clients.                                                            *)

Printed == {result[c].vno : c \in {d \in Clients : phase[d] = "end"}}
Highest == CHOOSE n \in Printed \cup {0} : \A m \in Printed : m <= n

(* connectThread: a thread for every server sends the request.             *)
Start(c, msgType) ==
  /\ phase[c] = "idle" /\ \A d \in 1 .. c - 1 : phase[d] # "idle"
  /\ Cardinality({d \in Clients : phase[d] \notin {"idle", "end"}}) < MaxRunning
  /\ phase' = [phase EXCEPT ![c] = msgType]
  /\ session' = [session EXCEPT ![c] = [s \in Servers |-> msgType]]
  /\ floor' = [floor EXCEPT ![c] = Highest]
  /\ UNCHANGED <<entries, answer, result>>

Answered(c) == {s \in Servers : session[c][s] \in {"answered", "voted"}}
Answers(c) == [s \in Answered(c) |-> answer[c][s]]

(* The threads that still wait give up when TIMEOUT has passed.            *)
DecideGet(c) ==
  /\ phase[c] = "GET"
  /\ Cardinality(Answered(c)) >= Nr
  /\ phase' = [phase EXCEPT ![c] = "end"]
  /\ result' = [result EXCEPT ![c] = answer[c][SelectGet(Answers(c))]]
  /\ session' = [session EXCEPT ![c] = [s \in Servers |-> "closed"]]
  /\ answer' = [answer EXCEPT ![c] = [s \in Servers |-> NoEntry]]
  /\ UNCHANGED <<entries, floor>>

(* Mutants: the version of the first answer; one that is never set.        *)
new_vnoG_First(c) == answer[c][First(Answered(c))].vno + 1

new_vnoG_Unset(c) == result[c].vno

new_vnoG(c) == answer[c][SelectPut(Answers(c))].vno + 1

DecidePut(c) ==
  /\ phase[c] = "PUT"
  /\ Cardinality(Answered(c)) >= Nw
  /\ phase' = [phase EXCEPT ![c] = "update"]
  /\ result' = [result EXCEPT ![c] = Entry(new_vnoG(c), c)]
  /\ session' = [session EXCEPT ![c] =
       [s \in Servers |-> IF s \in Answered(c) THEN "update" ELSE "closed"]]
  /\ answer' = [answer EXCEPT ![c] = [s \in Servers |-> NoEntry]]
  /\ UNCHANGED <<entries, floor>>

(* Mutant: the votes are forgotten with their locks set.                   *)
LesserQuorum_Forgets(c) ==
  /\ \/ phase[c] = "GET" /\ Cardinality(Answered(c)) < Nr
     \/ phase[c] = "PUT" /\ Cardinality(Answered(c)) < Nw
  /\ phase' = [phase EXCEPT ![c] = "end"]
  /\ answer' = [answer EXCEPT ![c] = [s \in Servers |-> NoEntry]]
  /\ session' = [session EXCEPT ![c] = [s \in Servers |-> "closed"]]
  /\ UNCHANGED <<entries, result, floor>>

(* Too few answers: the client exits, which closes its sockets; a server   *)
(* that has voted is still to see that.                                    *)
LesserQuorum(c) ==
  /\ \/ phase[c] = "GET" /\ Cardinality(Answered(c)) < Nr
     \/ phase[c] = "PUT" /\ Cardinality(Answered(c)) < Nw
  /\ phase' = [phase EXCEPT ![c] = "end"]
  /\ answer' = [answer EXCEPT ![c] = [s \in Servers |-> NoEntry]]
  /\ session' = [session EXCEPT ![c] =
       [s \in Servers |-> IF @[s] = "voted" THEN "voted" ELSE "closed"]]
  /\ UNCHANGED <<entries, result, floor>>

(* Every update is acknowledged, every releaselock is sent.                *)
Finish(c) ==
  /\ phase[c] = "update"
  /\ \A s \in Servers : session[c][s] # "update"
  /\ phase' = [phase EXCEPT ![c] = "end"]
  /\ UNCHANGED <<entries, session, answer, result, floor>>

-----------------------------------------------------------------------------
(* The servers.                                                            *)

Session(c, s, from, to) ==
  /\ session[c][s] = from
  /\ session' = [session EXCEPT ![c][s] = to]

Answer(c, s) == answer' = [answer EXCEPT ![c][s] = Entry(vno[s], value[s])]

(* Mutant: the lock is not looked at.                                      *)
GetAnswer_Locked(c, s) ==
  /\ Session(c, s, "GET", "answered")
  /\ Answer(c, s)
  /\ UNCHANGED <<entries, phase, result, floor>>

(* getResponse: numGetters goes up and down again.                         *)
GetAnswer(c, s) ==
  /\ lock[s] = 0
  /\ Session(c, s, "GET", "answered")
  /\ Answer(c, s)
  /\ UNCHANGED <<entries, phase, result, floor>>

(* A locked key: no answer, but numGetters goes down.  Nothing brings it   *)
(* up again, so that all counts below zero are -1 here.                    *)
GetLocked(c, s) ==
  /\ lock[s] = 1
  /\ Session(c, s, "GET", "closed")
  /\ numGetters' = [numGetters EXCEPT ![s] = -1]
  /\ UNCHANGED <<vno, value, lock, phase, answer, result, floor>>

(* putResponse, up to the vote.                                            *)
PutVote(c, s) ==
  /\ lock[s] = 0 /\ numGetters[s] = 0
  /\ Session(c, s, "PUT", "voted")
  /\ lock' = [lock EXCEPT ![s] = 1]
  /\ Answer(c, s)
  /\ UNCHANGED <<vno, value, numGetters, phase, result, floor>>

(* updateResponse: a locked key takes the value and the version, and the   *)
(* client answers updatedone with releaselock.                             *)
RecvUpdate(c, s) ==
  /\ lock[s] # 0
  /\ Session(c, s, "update", "updated")
  /\ vno' = [vno EXCEPT ![s] = result[c].vno]
  /\ value' = [value EXCEPT ![s] = result[c].value]
  /\ UNCHANGED <<lock, numGetters, phase, answer, result, floor>>

(* putResponse, from releaselock, or from the closed connection of a       *)
(* client that no longer waits for the vote.                               *)
ReleaseLock(c, s) ==
  /\ \/ Session(c, s, "updated", "closed")
     \/ phase[c] # "PUT" /\ Session(c, s, "voted", "closed")
  /\ lock' = [lock EXCEPT ![s] = 0]
  /\ UNCHANGED <<vno, value, numGetters, phase, answer, result, floor>>

-----------------------------------------------------------------------------
Client(c) == DecideGet(c) \/ DecidePut(c) \/ LesserQuorum(c) \/ Finish(c)

Server(c, s) ==
  \/ GetAnswer(c, s) \/ GetLocked(c, s) \/ PutVote(c, s)
  \/ RecvUpdate(c, s) \/ ReleaseLock(c, s)

Next ==
  \E c \in Clients :
    \/ Start(c, "GET") \/ Start(c, "PUT") \/ Client(c)
    \/ \E s \in Servers : Server(c, s)

Spec == Init /\ [][Next]_vars

-----------------------------------------------------------------------------
Entries == [vno : Nat, value : Clients \cup {InitVal}]

(* The types of the entries and of the clients' variables.                 *)
TypeOK ==
  /\ vno \in [Servers -> Nat \ {0}]
  /\ value \in [Servers -> Clients \cup {InitVal}]
  /\ lock \in [Servers -> {0, 1}] /\ numGetters \in [Servers -> Int]
  /\ phase \in [Clients -> {"idle", "GET", "PUT", "update", "end"}]
  /\ session \in [Clients -> [Servers -> Sessions]]
  /\ answer \in [Clients -> [Servers -> Entries]]
  /\ result \in [Clients -> Entries] /\ floor \in [Clients -> Nat]

Wrote(c) == result[c].vno # 0 /\ result[c].value = c
Read(c) == result[c].vno # 0 /\ result[c].value # c

(* Concurrent GETs and PUTs act one at a time, at a moment between their   *)
(* start and their end: versions order the PUTs, no two share one, a PUT   *)
(* comes after everything printed before it started and a GET never goes   *)
(* back behind that, and the value of a GET is the one written with its    *)
(* version.  This is what the locks held from the vote to the update are   *)
(* for, although neither servers nor clients see more than a quorum        *)
(* (Server.c:213-281, Client.c:345-402).                                   *)
ActsAtomically ==
  \A c \in Clients :
    /\ Wrote(c) => /\ result[c].vno > floor[c]
                   /\ \A d \in Clients \ {c} : Wrote(d) => result[d].vno # result[c].vno
    /\ Read(c) =>
         /\ result[c].vno >= floor[c]
         /\ \/ result[c] = Entry(1, InitVal)
            \/ \E d \in Clients : Wrote(d) /\ result[d] = result[c]

(* No server goes back to an older version: of two PUTs under way at once  *)
(* the one that decided later also has the higher version, wherever its    *)
(* update comes first (Server.c:16-37, Client.c:373-402).                  *)
VersionsGrow == [][\A s \in Servers : vno[s] <= vno'[s]]_vars

(* A locked key has one PUT, at every server, that holds the lock and will *)
(* release it: from its vote to its release, whether it has its quorum,    *)
(* gives up or updates, no other PUT gets in between and no lock is left   *)
(* behind (Server.c:213-281).                                              *)
Holders(s) ==
  {c \in Clients : session[c][s] \in {"voted", "update", "updated"}}
OneHolder ==
  \A s \in Servers :
    /\ lock[s] = 1 <=> Holders(s) # {}
    /\ \A c, d \in Holders(s) : c = d
=============================================================================
