-------------------------- MODULE VoteSystemProofs ---------------------------
(***************************************************************************)
(* Theorems about VoteSystem, for any number of servers and clients.       *)
(***************************************************************************)
EXTENDS VoteSystem, VoteLemmas

(* Where the sessions of a client can be in each of its phases.            *)
Stages(p) ==
  CASE p = "idle" -> {"none"}
    [] p = "GET" -> {"GET", "answered", "closed"}
    [] p = "PUT" -> {"PUT", "voted"}
    [] p = "update" -> {"update", "updated", "closed"}
    [] p = "end" -> {"voted", "updated", "closed"}

Held == {"voted", "update", "updated"}

SessionsTyped ==
  /\ lock \in [Servers -> {0, 1}]
  /\ phase \in [Clients -> {"idle", "GET", "PUT", "update", "end"}]
  /\ session \in [Clients -> [Servers -> Sessions]]

InStage == \A c \in Clients, s \in Servers : session[c][s] \in Stages(phase[c])

LockInv == SessionsTyped /\ InStage /\ OneHolder

-----------------------------------------------------------------------------
(* A session that moves within its held states, or outside them, leaves    *)
(* the holders of every server as they are.                                *)
LEMMA SameHolders ==
  ASSUME NEW c \in Clients, lock' = lock, LockInv,
         session' \in [Clients -> [Servers -> Sessions]],
         \A d \in Clients \ {c} : session'[d] = session[d],
         \A s \in Servers : session'[c][s] \in Held <=> session[c][s] \in Held
  PROVE  OneHolder'
<1>1. ASSUME NEW s \in Servers PROVE Holders(s)' = Holders(s)
  BY DEF Holders, Held
<1> QED BY <1>1 DEF OneHolder, LockInv

(* The client's steps keep the votes of the servers it leaves, and what it *)
(* held before it decides it holds afterwards.                             *)
LEMMA ClientKeepsLocks ==
  ASSUME LockInv, NEW c \in Clients, Client(c)
  PROVE  LockInv'
<1> USE DEF LockInv, SessionsTyped, InStage
<1>1. CASE DecideGet(c)
  <2>1. /\ phase[c] = "GET" /\ phase' = [phase EXCEPT ![c] = "end"]
        /\ session' = [session EXCEPT ![c] = [s \in Servers |-> "closed"]]
        /\ lock' = lock
    BY <1>1 DEF DecideGet, entries
  <2>2. SessionsTyped'
    BY <2>1 DEF Sessions
  <2>3. InStage'
    BY <2>1 DEF Stages
  <2>4. \A s \in Servers : session[c][s] \notin Held
    BY <2>1 DEF Stages, Held
  <2>5. OneHolder'
    BY <2>1, <2>2, <2>4, SameHolders DEF Held
  <2> QED BY <2>2, <2>3, <2>5
<1>2. CASE DecidePut(c)
  <2>1. /\ phase[c] = "PUT" /\ phase' = [phase EXCEPT ![c] = "update"]
        /\ session' = [session EXCEPT ![c] =
             [s \in Servers |-> IF s \in Answered(c) THEN "update" ELSE "closed"]]
        /\ lock' = lock
    BY <1>2 DEF DecidePut, entries
  <2>2. SessionsTyped'
    BY <2>1 DEF Sessions
  <2>3. InStage'
    BY <2>1 DEF Stages
  <2>4. \A s \in Servers : session[c][s] \in Held <=> s \in Answered(c)
    BY <2>1 DEF Stages, Held, Answered
  <2>5. OneHolder'
    BY <2>1, <2>2, <2>4, SameHolders DEF Held
  <2> QED BY <2>2, <2>3, <2>5
<1>3. CASE LesserQuorum(c)
  <2>1. /\ phase[c] \in {"GET", "PUT"} /\ phase' = [phase EXCEPT ![c] = "end"]
        /\ session' = [session EXCEPT ![c] =
             [s \in Servers |-> IF session[c][s] = "voted" THEN "voted" ELSE "closed"]]
        /\ lock' = lock
    BY <1>3 DEF LesserQuorum, entries
  <2>2. SessionsTyped'
    BY <2>1 DEF Sessions
  <2>3. InStage'
    BY <2>1 DEF Stages
  <2>4. \A s \in Servers : session[c][s] \in Held <=> session[c][s] = "voted"
    BY <2>1 DEF Stages, Held
  <2>5. OneHolder'
    BY <2>1, <2>2, <2>4, SameHolders DEF Held
  <2> QED BY <2>2, <2>3, <2>5
<1>4. CASE Finish(c)
  <2>1. /\ phase[c] = "update" /\ phase' = [phase EXCEPT ![c] = "end"]
        /\ \A s \in Servers : session[c][s] # "update"
        /\ session' = session /\ lock' = lock
    BY <1>4 DEF Finish, entries
  <2>2. SessionsTyped' /\ InStage'
    BY <2>1 DEF Stages
  <2>3. OneHolder'
    BY <2>1, <2>2, SameHolders
  <2> QED BY <2>2, <2>3
<1> QED BY <1>1, <1>2, <1>3, <1>4 DEF Client

(* A server gives a free lock to one client, and takes it back from the    *)
(* client that has it.                                                     *)
LEMMA ServerKeepsLocks ==
  ASSUME LockInv, NEW c \in Clients, NEW s \in Servers, Server(c, s)
  PROVE  LockInv'
<1> USE DEF LockInv, SessionsTyped, InStage
<1>1. ASSUME NEW from \in Sessions, NEW to \in Sessions, Session(c, s, from, to),
             phase' = phase, to \in Stages(phase[c])
      PROVE  /\ session' \in [Clients -> [Servers -> Sessions]]
             /\ InStage'
             /\ \A d \in Clients \ {c} : session'[d] = session[d]
             /\ \A u \in Servers : session'[c][u] = IF u = s THEN to ELSE session[c][u]
  BY <1>1 DEF Session
<1>2. CASE GetAnswer(c, s) \/ GetLocked(c, s) \/ RecvUpdate(c, s)
  <2>1. PICK from, to \in Sessions :
          /\ Session(c, s, from, to) /\ phase' = phase /\ lock' = lock
          /\ \/ from = "GET" /\ to \in {"answered", "closed"}
             \/ from = "update" /\ to = "updated"
    <3>1. CASE GetAnswer(c, s)
      BY <3>1 DEF GetAnswer, Sessions, entries
    <3>2. CASE GetLocked(c, s)
      BY <3>2 DEF GetLocked, Sessions
    <3>3. CASE RecvUpdate(c, s)
      BY <3>3 DEF RecvUpdate, Sessions
    <3> QED BY <1>2, <3>1, <3>2, <3>3
  <2>2. session[c][s] = from /\ to \in Stages(phase[c])
    BY <2>1 DEF Session, Stages
  <2>3. /\ SessionsTyped' /\ InStage'
        /\ \A d \in Clients \ {c} : session'[d] = session[d]
        /\ \A u \in Servers : session'[c][u] = IF u = s THEN to ELSE session[c][u]
    BY <2>1, <2>2, <1>1
  <2>4. \A u \in Servers : session'[c][u] \in Held <=> session[c][u] \in Held
    BY <2>1, <2>2, <2>3 DEF Held
  <2>5. OneHolder'
    BY <2>1, <2>3, <2>4, SameHolders
  <2> QED BY <2>3, <2>5
<1>3. CASE PutVote(c, s)
  <2>1. /\ Session(c, s, "PUT", "voted") /\ phase' = phase
        /\ lock[s] = 0 /\ lock' = [lock EXCEPT ![s] = 1]
    BY <1>3 DEF PutVote
  <2>2. session[c][s] = "PUT" /\ "voted" \in Stages(phase[c])
    BY <2>1 DEF Session, Stages
  <2>3. /\ SessionsTyped' /\ InStage'
        /\ \A d \in Clients \ {c} : session'[d] = session[d]
        /\ \A u \in Servers : session'[c][u] = IF u = s THEN "voted" ELSE session[c][u]
    BY <2>1, <2>2, <1>1 DEF Sessions
  <2>4. Holders(s) = {}
    BY <2>1 DEF OneHolder
  <2>5. Holders(s)' = {c}
    BY <2>3, <2>4 DEF Holders
  <2>6. \A u \in Servers \ {s} : Holders(u)' = Holders(u)
    BY <2>3 DEF Holders
  <2>7. ASSUME NEW u \in Servers
        PROVE  /\ lock'[u] = 1 <=> Holders(u)' # {}
               /\ \A d, e \in Holders(u)' : d = e
    <3>1. CASE u = s
      BY <2>1, <2>5, <3>1
    <3>2. CASE u # s
      <4>1. lock'[u] = lock[u] /\ Holders(u)' = Holders(u)
        BY <2>1, <2>6, <3>2
      <4> QED BY <4>1 DEF OneHolder
    <3> QED BY <3>1, <3>2
  <2>8. OneHolder'
    BY <2>7 DEF OneHolder
  <2> QED BY <2>3, <2>8
<1>4. CASE ReleaseLock(c, s)
  <2>1. PICK from \in {"updated", "voted"} :
          /\ Session(c, s, from, "closed") /\ phase' = phase
          /\ from = "voted" => phase[c] # "PUT"
          /\ lock' = [lock EXCEPT ![s] = 0]
    BY <1>4 DEF ReleaseLock
  <2>2. session[c][s] = from /\ "closed" \in Stages(phase[c])
    BY <2>1 DEF Session, Stages
  <2>3. /\ SessionsTyped' /\ InStage'
        /\ \A d \in Clients \ {c} : session'[d] = session[d]
        /\ \A u \in Servers : session'[c][u] = IF u = s THEN "closed" ELSE session[c][u]
    BY <2>1, <2>2, <1>1 DEF Sessions
  <2>4. Holders(s) = {c}
    BY <2>2 DEF OneHolder, Holders
  <2>5. Holders(s)' = {}
    BY <2>3, <2>4 DEF Holders
  <2>6. \A u \in Servers \ {s} : Holders(u)' = Holders(u)
    BY <2>3 DEF Holders
  <2>7. ASSUME NEW u \in Servers
        PROVE  /\ lock'[u] = 1 <=> Holders(u)' # {}
               /\ \A d, e \in Holders(u)' : d = e
    <3>1. CASE u = s
      BY <2>1, <2>5, <3>1
    <3>2. CASE u # s
      <4>1. lock'[u] = lock[u] /\ Holders(u)' = Holders(u)
        BY <2>1, <2>6, <3>2
      <4> QED BY <4>1 DEF OneHolder
    <3> QED BY <3>1, <3>2
  <2>8. OneHolder'
    BY <2>7 DEF OneHolder
  <2> QED BY <2>3, <2>8
<1> QED BY <1>2, <1>3, <1>4 DEF Server

(* A client that starts holds nothing yet.                                 *)
LEMMA StartKeepsLocks ==
  ASSUME LockInv, NEW c \in Clients, NEW m \in {"GET", "PUT"}, Start(c, m)
  PROVE  LockInv'
<1> USE DEF LockInv, SessionsTyped, InStage
<1>1. /\ phase[c] = "idle" /\ phase' = [phase EXCEPT ![c] = m]
      /\ session' = [session EXCEPT ![c] = [s \in Servers |-> m]]
      /\ lock' = lock
  BY DEF Start, entries
<1>2. SessionsTyped'
  BY <1>1 DEF Sessions
<1>3. InStage'
  BY <1>1 DEF Stages
<1>4. \A s \in Servers : session[c][s] \notin Held
  BY <1>1 DEF Stages, Held
<1>5. OneHolder'
  BY <1>1, <1>2, <1>4, SameHolders DEF Held
<1> QED BY <1>2, <1>3, <1>5

-----------------------------------------------------------------------------
(* However many clients run, a locked key has exactly one PUT that will    *)
(* unlock it, from its vote to its release (Server.c:213-281).             *)
THEOREM OneHolderEver == Spec => []OneHolder
<1>1. Init => LockInv
  BY DEF Init, LockInv, SessionsTyped, InStage, OneHolder, Holders, Sessions, Stages
<1>2. LockInv /\ [Next]_vars => LockInv'
  <2> SUFFICES ASSUME LockInv, [Next]_vars PROVE LockInv'
    OBVIOUS
  <2>1. CASE Next
    BY <2>1, StartKeepsLocks, ClientKeepsLocks, ServerKeepsLocks DEF Next
  <2>2. CASE UNCHANGED vars
    BY <2>2 DEF vars, entries, LockInv, SessionsTyped, InStage, OneHolder, Holders
  <2> QED BY <2>1, <2>2
<1>3. LockInv => OneHolder
  BY DEF LockInv
<1> QED BY <1>1, <1>2, <1>3, PTL DEF Spec

-----------------------------------------------------------------------------
(* The version that a server has or is to have: that of the update on its  *)
(* way to it, if there is one.                                             *)
Due(s) == {c \in Clients : session[c][s] = "update"}
Eff(s) == IF Due(s) = {} THEN vno[s] ELSE result[CHOOSE c \in Due(s) : TRUE].vno

Top == {s \in Servers : \A u \in Servers : Eff(u) <= Eff(s)}
Reached(n) == \A t \in Top : n <= Eff(t)

(* What has been written.                                                  *)
Known(e) == e = Entry(1, InitVal) \/ \E d \in Clients : Wrote(d) /\ result[d] = e

(* The servers whose answer to a GET is, or would be, behind what had been *)
(* printed when it started.                                                *)
Behind(c) ==
  {s \in Servers : IF session[c][s] = "answered" THEN answer[c][s].vno < floor[c]
                                                 ELSE Eff(s) < floor[c]}

EntriesTyped ==
  /\ vno \in [Servers -> Nat \ {0}]
  /\ value \in [Servers -> Clients \cup {InitVal}]
  /\ answer \in [Clients -> [Servers -> Entries]]
  /\ result \in [Clients -> Entries] /\ floor \in [Clients -> Nat]

AllKnown ==
  /\ \A s \in Servers : Known(Entry(vno[s], value[s]))
  /\ \A c \in Clients : \A s \in Answered(c) : phase[c] # "end" => Known(answer[c][s])
  /\ \A c \in Clients : result[c].vno # 0 => Known(result[c])

ResultsFollow ==
  \A c \in Clients :
    /\ phase[c] \in {"idle", "GET", "PUT"} => result[c] = NoEntry
    /\ phase[c] = "update" => Wrote(c)
    /\ Wrote(c) => result[c].vno > floor[c]
    /\ Read(c) => result[c].vno >= floor[c]
    /\ \A d \in Clients \ {c} : Wrote(c) /\ Wrote(d) => result[c].vno # result[d].vno

VotesStand ==
  \A c \in Clients, s \in Servers :
    /\ session[c][s] = "update" => result[c].vno > vno[s]
    /\ phase[c] = "PUT" /\ session[c][s] = "voted" => answer[c][s].vno = vno[s]

TopIsReplicated ==
  /\ Cardinality(Top) >= Nw
  /\ \A c \in Clients : Wrote(c) => Reached(result[c].vno)
  /\ \A c \in Clients : Reached(floor[c])
  /\ \A c \in Clients : phase[c] = "GET" => Cardinality(Behind(c)) <= N - Nw

AtomicInv ==
  /\ LockInv /\ EntriesTyped /\ AllKnown /\ ResultsFollow /\ VotesStand
  /\ TopIsReplicated

(* The servers: finitely many, numbered.                                   *)
LEMMA ServersFinite ==
  Servers \in SUBSET Nat /\ IsFiniteSet(Servers) /\ Cardinality(Servers) = N
<1>1. IsFiniteSet(0 .. N - 1) /\ Cardinality(0 .. N - 1) = N
  BY FS_Interval, QuorumAssumption
<1> QED BY <1>1, QuorumAssumption DEF Servers

(* At most one update is due at a server: it comes from the one PUT that   *)
(* holds the lock.                                                         *)
LEMMA EffIs ==
  ASSUME LockInv, NEW s \in Servers
  PROVE  /\ Due(s) = {} => Eff(s) = vno[s]
         /\ \A c \in Clients :
              session[c][s] = "update" => Due(s) = {c} /\ Eff(s) = result[c].vno
<1>1. ASSUME NEW c \in Clients, session[c][s] = "update"
      PROVE  Due(s) = {c} /\ Eff(s) = result[c].vno
  <2>1. Due(s) = {c}
    BY <1>1 DEF Due, LockInv, OneHolder, Holders
  <2>2. (CHOOSE d \in Due(s) : TRUE) = c
    BY <2>1
  <2> QED BY <2>1, <2>2 DEF Eff
<1> QED BY <1>1 DEF Eff

(* A server never is to have an older version than it has.                 *)
LEMMA EffAbove ==
  ASSUME AtomicInv, NEW s \in Servers
  PROVE  Eff(s) \in Nat \ {0} /\ vno[s] <= Eff(s)
<1> USE DEF AtomicInv, EntriesTyped, VotesStand
<1>1. CASE Due(s) = {}
  BY <1>1, EffIs
<1>2. CASE Due(s) # {}
  <2>1. PICK c \in Clients : session[c][s] = "update"
    BY <1>2 DEF Due
  <2>2. Eff(s) = result[c].vno /\ result[c].vno > vno[s]
    BY <2>1, EffIs
  <2>3. result[c].vno \in Nat /\ vno[s] \in Nat \ {0}
    BY DEF Entries
  <2> QED BY <2>2, <2>3
<1> QED BY <1>1, <1>2

(* The highest version is somewhere.                                       *)
LEMMA TopExists == ASSUME AtomicInv PROVE Top \in SUBSET Servers /\ Top # {}
<1>1. Cardinality({}) = 0 /\ Nw > 0 /\ Nw \in Nat
  BY FS_EmptySet, QuorumAssumption
<1>2. Cardinality(Top) >= Nw
  BY DEF AtomicInv, TopIsReplicated
<1> QED BY <1>1, <1>2 DEF Top

(* Whatever is known has been reached.                                     *)
LEMMA KnownReached ==
  ASSUME AtomicInv, NEW e, Known(e)
  PROVE  Reached(e.vno)
<1>1. CASE e = Entry(1, InitVal)
  <2>1. e.vno = 1
    BY <1>1 DEF Entry
  <2>2. \A t \in Top : Eff(t) \in Nat \ {0}
    BY EffAbove, TopExists
  <2> QED BY <2>1, <2>2 DEF Reached
<1>2. CASE \E d \in Clients : Wrote(d) /\ result[d] = e
  BY <1>2 DEF AtomicInv, TopIsReplicated
<1> QED BY <1>1, <1>2 DEF Known

(* What is known stays known while nobody's result is replaced.            *)
LEMMA KnownStays ==
  ASSUME NEW e, Known(e), \A d \in Clients : Wrote(d) => result'[d] = result[d]
  PROVE  Known(e)'
BY DEF Known, Wrote

(* A version that is not written, and no update sent or received, leaves   *)
(* what the servers have or are to have.                                   *)
LEMMA SameEff ==
  ASSUME NEW s \in Servers, vno'[s] = vno[s], Due(s)' = Due(s),
         \A d \in Due(s) : result'[d] = result[d]
  PROVE  Eff(s)' = Eff(s)
<1>1. CASE Due(s) = {}
  BY <1>1 DEF Eff
<1>2. CASE Due(s) # {}
  <2>1. (CHOOSE c \in Due(s) : TRUE) \in Due(s)
    BY <1>2
  <2> QED BY <1>2, <2>1 DEF Eff
<1> QED BY <1>1, <1>2

(* The servers at the top depend on nothing else.                          *)
LEMMA SameTop ==
  ASSUME \A s \in Servers : Eff(s)' = Eff(s)
  PROVE  Top' = Top
BY DEF Top

-----------------------------------------------------------------------------
(* The steps that neither write nor print.                                 *)
LEMMA SmallStep ==
  ASSUME AtomicInv, LockInv', result' = result, vno' = vno, value' = value,
         answer' \in [Clients -> [Servers -> Entries]],
         floor' \in [Clients -> Nat],
         \A s \in Servers : Due(s)' = Due(s),
         \A c \in Clients :
           /\ phase'[c] \in {"idle", "GET", "PUT"} => result[c] = NoEntry
           /\ phase'[c] = "update" => Wrote(c)
           /\ result[c].vno # 0 => floor'[c] = floor[c]
           /\ Reached(floor'[c])
           /\ phase'[c] = "GET" => Cardinality(Behind(c)') <= N - Nw,
         \A c \in Clients : \A s \in Answered(c)' :
           /\ phase'[c] # "end" => Known(answer'[c][s])
           /\ phase'[c] = "PUT" => answer'[c][s].vno = vno[s]
  PROVE  AtomicInv'
<1> USE DEF AtomicInv
<1>1. \A s \in Servers : Eff(s)' = Eff(s)
  BY SameEff
<1>2. Top' = Top
  BY <1>1, SameTop
<1>3. EntriesTyped'
  BY DEF EntriesTyped
<1>4. AllKnown'
  <2>1. \A e : Known(e) => Known(e)'
    BY KnownStays
  <2> QED BY <2>1 DEF AllKnown
<1>5. ResultsFollow'
  BY DEF ResultsFollow, Wrote, Read
<1>6. VotesStand'
  <2>1. \A c \in Clients, s \in Servers :
          (session'[c][s] = "update") => session[c][s] = "update"
    BY DEF Due
  <2>2. \A c \in Clients, s \in Servers :
          session'[c][s] = "voted" => s \in Answered(c)'
    BY DEF Answered
  <2> QED BY <2>1, <2>2 DEF VotesStand
<1>7. TopIsReplicated'
  <2>1. Top' \in SUBSET Servers
    BY DEF Top
  <2>2. \A c \in Clients : Reached(result[c].vno) => Reached(result[c].vno)'
    BY <1>1, <1>2, <2>1 DEF Reached
  <2>3. \A c \in Clients : Reached(floor[c])'
    BY <1>1, <1>2, <2>1 DEF Reached
  <2> QED BY <1>2, <2>2, <2>3 DEF TopIsReplicated, Wrote
<1> QED BY <1>3, <1>4, <1>5, <1>6, <1>7

(* Nor does who is behind, but for the client's own variables.             *)
LEMMA SameBehind ==
  ASSUME NEW c \in Clients, \A s \in Servers : Eff(s)' = Eff(s),
         session'[c] = session[c], answer'[c] = answer[c], floor'[c] = floor[c]
  PROVE  Behind(c)' = Behind(c)
BY DEF Behind

(* The same for a step of client c, or of a server towards c.              *)
LEMMA OwnStep ==
  ASSUME AtomicInv, LockInv', NEW c \in Clients,
         result' = result, vno' = vno, value' = value,
         answer' \in [Clients -> [Servers -> Entries]],
         floor' \in [Clients -> Nat],
         \A d \in Clients \ {c} :
           /\ phase'[d] = phase[d] /\ session'[d] = session[d]
           /\ answer'[d] = answer[d] /\ floor'[d] = floor[d],
         \A s \in Servers : session'[c][s] = "update" <=> session[c][s] = "update",
         phase'[c] \in {"idle", "GET", "PUT"} => result[c] = NoEntry,
         phase'[c] = "update" => Wrote(c),
         result[c].vno # 0 => floor'[c] = floor[c],
         Reached(floor'[c]),
         phase'[c] = "GET" => Cardinality(Behind(c)') <= N - Nw,
         \A s \in Answered(c)' :
           /\ phase'[c] # "end" => Known(answer'[c][s])
           /\ phase'[c] = "PUT" => answer'[c][s].vno = vno[s]
  PROVE  AtomicInv'
<1> USE DEF AtomicInv
<1>1. \A s \in Servers : Due(s)' = Due(s)
  BY DEF Due
<1>2. \A s \in Servers : Eff(s)' = Eff(s)
  BY <1>1, SameEff
<1>3. ASSUME NEW d \in Clients
      PROVE  /\ phase'[d] \in {"idle", "GET", "PUT"} => result[d] = NoEntry
             /\ phase'[d] = "update" => Wrote(d)
             /\ result[d].vno # 0 => floor'[d] = floor[d]
             /\ Reached(floor'[d])
             /\ phase'[d] = "GET" => Cardinality(Behind(d)') <= N - Nw
  <2>1. CASE d = c
    BY <2>1
  <2>2. CASE d # c
    <3>1. Behind(d)' = Behind(d)
      BY <1>2, <2>2, SameBehind
    <3> QED BY <2>2, <3>1 DEF ResultsFollow, TopIsReplicated
  <2> QED BY <2>1, <2>2
<1>4. ASSUME NEW d \in Clients, NEW s \in Answered(d)'
      PROVE  /\ phase'[d] # "end" => Known(answer'[d][s])
             /\ phase'[d] = "PUT" => answer'[d][s].vno = vno[s]
  <2>1. CASE d = c
    BY <1>4, <2>1
  <2>2. CASE d # c
    <3>1. s \in Answered(d) /\ s \in Servers
      BY <1>4, <2>2 DEF Answered
    <3>2. phase[d] = "PUT" => session[d][s] = "voted"
      BY <3>1 DEF LockInv, InStage, Stages, Answered
    <3> QED BY <2>2, <3>1, <3>2 DEF AllKnown, VotesStand
  <2> QED BY <2>1, <2>2
<1> QED BY <1>1, <1>3, <1>4, SmallStep

(* What has been printed has been reached.                                 *)
LEMMA HighestReached == ASSUME AtomicInv PROVE Highest \in Nat /\ Reached(Highest)
<1> DEFINE S == Printed \cup {0}
<1>1. PICK t \in Top : t \in Servers
  BY TopExists
<1>2. Eff(t) \in Nat
  BY <1>1, EffAbove
<1>3. ASSUME NEW n \in S PROVE n \in Nat /\ Reached(n)
  <2>1. CASE n = 0
    BY <2>1, TopExists, EffAbove DEF Reached
  <2>2. CASE n # 0
    <3>1. PICK c \in Clients : n = result[c].vno
      BY <2>2 DEF Printed
    <3>2. result[c] \in Entries
      BY DEF AtomicInv, EntriesTyped
    <3> QED BY <2>2, <3>1, <3>2, KnownReached DEF AtomicInv, AllKnown, Entries
  <2> QED BY <2>1, <2>2
<1>4. S \in SUBSET Nat /\ S # {} /\ \A n \in S : n <= Eff(t)
  BY <1>1, <1>3 DEF Reached
<1>5. PICK m \in S : \A n \in S : n <= m
  <2> HIDE DEF S
  <2> QED BY <1>2, <1>4, NatMax, Zenon
<1>6. Highest \in S
  BY <1>5 DEF Highest
<1> QED BY <1>3, <1>6

(* Servers outside a write quorum are few.                                 *)
LEMMA Few ==
  ASSUME NEW S \in SUBSET Servers, NEW T \in SUBSET Servers,
         Cardinality(T) >= Nw, S \cap T = {}
  PROVE  Cardinality(S) <= N - Nw
<1>1. /\ IsFiniteSet(S) /\ IsFiniteSet(T) /\ Cardinality(S) \in Nat
      /\ Cardinality(T) \in Nat
  BY ServersFinite, Sizes
<1>2. Cardinality(S \cup T) <= N
  <2>1. S \cup T \in SUBSET Servers
    OBVIOUS
  <2> QED BY <2>1, ServersFinite, Sizes
<1>3. Cardinality(S \cup T) = Cardinality(S) + Cardinality(T)
  <2>1. Cardinality(S \cap T) = 0
    BY FS_EmptySet
  <2>2. Cardinality(S \cup T) = Cardinality(S) + Cardinality(T) - Cardinality(S \cap T)
    BY <1>1, FS_Union
  <2> QED BY <1>1, <2>1, <2>2
<1> QED BY <1>1, <1>2, <1>3, QuorumAssumption

(* A new GET is owed what has been printed, and a write quorum has it or   *)
(* is to have it.                                                          *)
LEMMA StartStep ==
  ASSUME AtomicInv, NEW c \in Clients, NEW m \in {"GET", "PUT"}, Start(c, m)
  PROVE  AtomicInv'
<1> USE DEF AtomicInv
<1>1. /\ phase[c] = "idle" /\ phase' = [phase EXCEPT ![c] = m]
      /\ session' = [session EXCEPT ![c] = [s \in Servers |-> m]]
      /\ floor' = [floor EXCEPT ![c] = Highest]
      /\ vno' = vno /\ value' = value /\ answer' = answer /\ result' = result
  BY DEF Start, entries
<1>2. LockInv'
  BY StartKeepsLocks
<1>3. /\ phase \in [Clients -> {"idle", "GET", "PUT", "update", "end"}]
      /\ session \in [Clients -> [Servers -> Sessions]]
      /\ \A s \in Servers : session[c][s] = "none"
  BY <1>1 DEF LockInv, SessionsTyped, InStage, Stages
<1>4. \A s \in Servers : /\ session'[c][s] = m
                         /\ session'[c][s] = "update" <=> session[c][s] = "update"
  BY <1>1, <1>3
<1>5. /\ answer' \in [Clients -> [Servers -> Entries]]
      /\ floor' \in [Clients -> Nat] /\ floor'[c] = Highest
  BY <1>1, HighestReached DEF EntriesTyped
<1>6. Cardinality(Behind(c)') <= N - Nw
  <2>1. \A s \in Servers : Due(s)' = Due(s)
    BY <1>1, <1>3, <1>4 DEF Due
  <2>2. \A s \in Servers : Eff(s)' = Eff(s)
    BY <1>1, <2>1, SameEff
  <2>3. Behind(c)' = {s \in Servers : Eff(s) < Highest}
    BY <1>4, <1>5, <2>2 DEF Behind
  <2>4. Behind(c)' \cap Top = {}
    <3>1. \A s \in Top : Highest <= Eff(s) /\ Eff(s) \in Nat /\ Highest \in Nat
      BY HighestReached, EffAbove, TopExists DEF Reached
    <3> QED BY <2>3, <3>1
  <2> QED BY <2>3, <2>4, TopExists, Few DEF TopIsReplicated
<1>7. result[c] = NoEntry /\ result[c].vno = 0 /\ phase'[c] = m
  BY <1>1, <1>3 DEF ResultsFollow, NoEntry, Entry
<1>8. Answered(c)' = {}
  BY <1>4 DEF Answered
<1> QED BY <1>1, <1>2, <1>3, <1>4, <1>5, <1>6, <1>7, <1>8, HighestReached, OwnStep

(* A client ends: what it held stays with the servers.                     *)
LEMMA EndStep ==
  ASSUME AtomicInv, NEW c \in Clients, LesserQuorum(c) \/ Finish(c)
  PROVE  AtomicInv'
<1> USE DEF AtomicInv
<1>1. /\ phase' = [phase EXCEPT ![c] = "end"]
      /\ vno' = vno /\ value' = value /\ result' = result /\ floor' = floor
  BY DEF LesserQuorum, Finish, entries
<1>2. LockInv'
  BY ClientKeepsLocks DEF Client
<1>3. /\ phase \in [Clients -> {"idle", "GET", "PUT", "update", "end"}]
      /\ session \in [Clients -> [Servers -> Sessions]]
  BY DEF LockInv, SessionsTyped
<1>4. /\ \A d \in Clients \ {c} : session'[d] = session[d] /\ answer'[d] = answer[d]
      /\ answer' \in [Clients -> [Servers -> Entries]]
      /\ \A s \in Servers : session'[c][s] = "update" <=> session[c][s] = "update"
  <2>1. CASE LesserQuorum(c)
    <3>1. NoEntry \in Entries
      BY DEF NoEntry, Entry, Entries
    <3>2. \A s \in Servers : session[c][s] # "update"
      BY <2>1 DEF LesserQuorum, LockInv, InStage, Stages
    <3> QED BY <1>3, <2>1, <3>1, <3>2 DEF LesserQuorum, EntriesTyped
  <2>2. CASE Finish(c)
    BY <2>2 DEF Finish, EntriesTyped
  <2> QED BY <2>1, <2>2
<1>5. floor' \in [Clients -> Nat] /\ Reached(floor'[c])
  BY <1>1 DEF EntriesTyped, TopIsReplicated
<1>6. phase'[c] = "end" /\ \A d \in Clients \ {c} : phase'[d] = phase[d]
  BY <1>1, <1>3
<1> QED BY <1>1, <1>2, <1>4, <1>5, <1>6, OwnStep

(* A server answers, refuses or releases: an answer to a GET comes from an *)
(* unlocked server, which is to have nothing newer.                        *)
LEMMA AnswerStep ==
  ASSUME AtomicInv, NEW c \in Clients, NEW s \in Servers,
         GetAnswer(c, s) \/ GetLocked(c, s) \/ PutVote(c, s) \/ ReleaseLock(c, s)
  PROVE  AtomicInv'
<1> USE DEF AtomicInv
<1>1. /\ phase' = phase /\ floor' = floor
      /\ vno' = vno /\ value' = value /\ result' = result
  BY DEF GetAnswer, GetLocked, PutVote, ReleaseLock, entries
<1>2. LockInv'
  BY ServerKeepsLocks DEF Server
<1>3. /\ phase \in [Clients -> {"idle", "GET", "PUT", "update", "end"}]
      /\ session \in [Clients -> [Servers -> Sessions]]
  BY DEF LockInv, SessionsTyped
<1>4. PICK from, to \in Sessions :
        /\ Session(c, s, from, to)
        /\ \/ from = "GET" /\ to = "answered" /\ lock[s] = 0 /\ Answer(c, s)
           \/ from = "PUT" /\ to = "voted" /\ Answer(c, s)
           \/ from \in {"GET", "voted", "updated"} /\ to = "closed" /\ answer' = answer
  BY DEF GetAnswer, GetLocked, PutVote, ReleaseLock, Sessions
<1>5. /\ session[c][s] = from /\ session'[c][s] = to
      /\ \A u \in Servers \ {s} : session'[c][u] = session[c][u]
      /\ \A d \in Clients \ {c} : session'[d] = session[d]
  BY <1>3, <1>4 DEF Session
<1>6. /\ \A u \in Servers : session'[c][u] = "update" <=> session[c][u] = "update"
      /\ \A u \in Answered(c)' : \/ u \in Answered(c)
                                 \/ u = s /\ to \in {"answered", "voted"}
  BY <1>4, <1>5 DEF Answered
<1>7. Entry(vno[s], value[s]) \in Entries
  BY DEF EntriesTyped, Entry, Entries
<1>8. /\ answer' \in [Clients -> [Servers -> Entries]]
      /\ \A d \in Clients \ {c} : answer'[d] = answer[d]
      /\ \A u \in Servers \ {s} : answer'[c][u] = answer[c][u]
      /\ to \in {"answered", "voted"} => answer'[c][s] = Entry(vno[s], value[s])
  BY <1>4, <1>7 DEF Answer, EntriesTyped
<1>9. \A u \in Answered(c)' :
        /\ phase'[c] # "end" => Known(answer'[c][u])
        /\ phase'[c] = "PUT" => answer'[c][u].vno = vno[u]
  <2> SUFFICES ASSUME NEW u \in Answered(c)'
               PROVE  /\ phase'[c] # "end" => Known(answer'[c][u])
                      /\ phase'[c] = "PUT" => answer'[c][u].vno = vno[u]
    OBVIOUS
  <2>1. CASE u = s /\ to \in {"answered", "voted"}
    BY <1>8, <2>1 DEF AllKnown, Entry
  <2>2. CASE ~ (u = s /\ to \in {"answered", "voted"})
    <3>1. u \in Answered(c) /\ u \in Servers /\ (u = s => to = "closed")
      BY <1>4, <1>6, <2>2 DEF Answered
    <3>2. u # s
      BY <1>5, <3>1 DEF Answered
    <3>3. phase[c] = "PUT" => session[c][u] = "voted"
      BY <3>1 DEF LockInv, InStage, Stages, Answered
    <3> QED BY <1>1, <1>8, <3>1, <3>2, <3>3 DEF AllKnown, VotesStand
  <2> QED BY <2>1, <2>2
<1>10. phase[c] = "GET" => Behind(c)' = Behind(c)
  <2> SUFFICES ASSUME phase[c] = "GET" PROVE Behind(c)' = Behind(c)
    OBVIOUS
  <2>1. from = "GET" /\ to \in {"answered", "closed"}
    BY <1>4, <1>5 DEF LockInv, InStage, Stages
  <2>2. \A u \in Servers : Due(u)' = Due(u)
    BY <1>5, <1>6 DEF Due
  <2>3. \A u \in Servers : Eff(u)' = Eff(u)
    BY <1>1, <2>2, SameEff
  <2>4. to = "answered" => answer'[c][s].vno = Eff(s)
    <3> SUFFICES ASSUME to = "answered" PROVE answer'[c][s].vno = Eff(s)
      OBVIOUS
    <3>1. lock[s] = 0
      BY <1>4, <2>1
    <3>2. Due(s) = {}
      BY <3>1 DEF LockInv, OneHolder, Holders, Due
    <3> QED BY <1>8, <3>2, EffIs DEF Entry
  <2>5. ASSUME NEW u \in Servers
        PROVE  u \in Behind(c)' <=> u \in Behind(c)
    <3>1. CASE u = s
      BY <1>1, <1>5, <2>1, <2>3, <2>4, <3>1 DEF Behind
    <3>2. CASE u # s
      BY <1>1, <1>5, <1>8, <2>3, <3>2 DEF Behind
    <3> QED BY <3>1, <3>2
  <2> QED BY <2>5 DEF Behind
<1>11. /\ phase'[c] \in {"idle", "GET", "PUT"} => result[c] = NoEntry
       /\ phase'[c] = "update" => Wrote(c)
       /\ Reached(floor'[c]) /\ floor' \in [Clients -> Nat]
       /\ phase'[c] = "GET" => Cardinality(Behind(c)') <= N - Nw
  BY <1>1, <1>10 DEF ResultsFollow, TopIsReplicated, EntriesTyped
<1> QED BY <1>1, <1>2, <1>5, <1>6, <1>8, <1>9, <1>11, OwnStep

-----------------------------------------------------------------------------
(* A server takes the update: it has what it was to have.                  *)
LEMMA UpdateStep ==
  ASSUME AtomicInv, NEW c \in Clients, NEW s \in Servers, RecvUpdate(c, s)
  PROVE  AtomicInv'
<1> USE DEF AtomicInv
<1>1. /\ session[c][s] = "update"
      /\ session' = [session EXCEPT ![c][s] = "updated"]
      /\ vno' = [vno EXCEPT ![s] = result[c].vno]
      /\ value' = [value EXCEPT ![s] = result[c].value]
      /\ phase' = phase /\ answer' = answer /\ result' = result /\ floor' = floor
  BY DEF RecvUpdate, Session
<1>2. LockInv'
  BY ServerKeepsLocks DEF Server
<1>3. session \in [Clients -> [Servers -> Sessions]]
  BY DEF LockInv, SessionsTyped
<1>4. /\ session'[c][s] = "updated"
      /\ \A u \in Servers \ {s} : session'[c][u] = session[c][u]
      /\ \A d \in Clients \ {c} : session'[d] = session[d]
  BY <1>1, <1>3
<1>5. phase[c] = "update" /\ Wrote(c)
  <2>1. phase[c] \notin {"idle", "GET", "PUT", "end"}
    BY <1>1 DEF LockInv, InStage, Stages
  <2> QED BY <2>1 DEF LockInv, SessionsTyped, ResultsFollow
<1>6. result[c] \in Entries /\ result[c].vno > vno[s]
  BY <1>1 DEF EntriesTyped, VotesStand
<1>7. \A d \in Clients : d # c => session[d][s] \notin Held
  <2>1. c \in Holders(s)
    BY <1>1 DEF Holders
  <2> QED BY <2>1 DEF LockInv, OneHolder, Holders, Held
<1>8. \A u \in Servers : Eff(u)' = Eff(u)
  <2>1. Eff(s)' = Eff(s)
    <3>1. Eff(s) = result[c].vno
      BY <1>1, EffIs
    <3>2. Due(s)' = {}
      BY <1>4, <1>7 DEF Due, Held
    <3>3. vno'[s] = result[c].vno
      BY <1>1 DEF EntriesTyped
    <3> QED BY <3>1, <3>2, <3>3 DEF Eff
  <2>2. ASSUME NEW u \in Servers \ {s} PROVE Eff(u)' = Eff(u)
    <3>1. Due(u)' = Due(u)
      BY <1>4 DEF Due
    <3> QED BY <1>1, <3>1, SameEff
  <2> QED BY <2>1, <2>2
<1>9. Top' = Top /\ Top \in SUBSET Servers
  BY <1>8, SameTop, TopExists
<1>10. EntriesTyped'
  <2>1. result[c].vno \in Nat \ {0} /\ result[c].value \in Clients \cup {InitVal}
    BY <1>6 DEF EntriesTyped, Entries
  <2> QED BY <1>1, <2>1 DEF EntriesTyped
<1>11. AllKnown'
  <2>1. \A e : Known(e) => Known(e)'
    BY <1>1, KnownStays
  <2>2. Entry(vno'[s], value'[s]) = result[c]
    BY <1>1, <1>6 DEF EntriesTyped, Entry, Entries
  <2>3. Known(result[c])
    BY <1>5 DEF Known
  <2>4. \A u \in Servers : Known(Entry(vno[u], value[u]))'
    <3>1. ASSUME NEW u \in Servers, u # s PROVE Known(Entry(vno[u], value[u]))'
      <4>1. vno'[u] = vno[u] /\ value'[u] = value[u]
        BY <1>1, <3>1 DEF EntriesTyped
      <4>2. Known(Entry(vno[u], value[u]))
        BY DEF AllKnown
      <4> QED BY <1>1, <4>1, <4>2 DEF Known, Wrote
    <3>2. Known(Entry(vno[s], value[s]))'
      BY <1>1, <2>2, <2>3 DEF Known, Wrote
    <3> QED BY <3>1, <3>2
  <2>5. \A d \in Clients : Answered(d)' \subseteq Answered(d)
    BY <1>4 DEF Answered
  <2>6. \A d \in Clients : \A u \in Answered(d)' : phase'[d] # "end" => Known(answer[d][u])'
    BY <1>1, <2>1, <2>5 DEF AllKnown, Known, Wrote
  <2>7. \A d \in Clients : result'[d].vno # 0 => Known(result[d])'
    BY <1>1 DEF AllKnown, Known, Wrote
  <2> QED BY <2>4, <2>6, <2>7 DEF AllKnown
<1>12. ResultsFollow'
  BY <1>1 DEF ResultsFollow, Wrote, Read
<1>13. VotesStand'
  <2>1. ASSUME NEW d \in Clients, NEW u \in Servers
        PROVE  /\ session'[d][u] = "update" => result'[d].vno > vno'[u]
               /\ phase'[d] = "PUT" /\ session'[d][u] = "voted"
                    => answer'[d][u].vno = vno'[u]
    <3>1. CASE u = s
      BY <1>1, <1>4, <1>5, <1>7, <3>1 DEF Held
    <3>2. CASE u # s
      <4>1. vno'[u] = vno[u] /\ session'[d][u] = session[d][u]
        BY <1>1, <1>4, <3>2 DEF EntriesTyped
      <4> QED BY <1>1, <4>1 DEF VotesStand
    <3> QED BY <3>1, <3>2
  <2> QED BY <2>1 DEF VotesStand
<1>14. TopIsReplicated'
  <2>1. \A d \in Clients : /\ Reached(result[d].vno) => Reached(result[d].vno)'
                           /\ Reached(floor[d])'
    BY <1>1, <1>8, <1>9 DEF Reached, TopIsReplicated
  <2>2. \A d \in Clients : phase'[d] = "GET" => Behind(d)' = Behind(d)
    BY <1>1, <1>4, <1>5, <1>8, SameBehind
  <2> QED BY <1>1, <1>9, <2>1, <2>2 DEF TopIsReplicated, Wrote
<1> QED BY <1>2, <1>10, <1>11, <1>12, <1>13, <1>14

(* A GET has an answer that is not behind, and takes none that is older.   *)
LEMMA GetSelects ==
  ASSUME AtomicInv, NEW c \in Clients, DecideGet(c)
  PROVE  LET g == SelectGet(Answers(c))
         IN  /\ g \in Answered(c) /\ answer[c][g] \in Entries
             /\ Known(answer[c][g]) /\ answer[c][g].vno >= floor[c]
<1> DEFINE R == Answered(c)
           a == Answers(c)
           g == SelectGet(a)
<1> USE DEF AtomicInv
<1>1. phase[c] = "GET" /\ Cardinality(R) >= Nr
  BY DEF DecideGet
<1>2. R \in SUBSET Servers /\ \A s \in R : session[c][s] = "answered"
  BY <1>1 DEF Answered, LockInv, InStage, Stages
<1>3. PICK t \in Top : t \in Servers /\ Eff(t) \in Nat
  BY TopExists, EffAbove
<1>4. \A s \in R : /\ a[s] = answer[c][s] /\ Known(a[s])
                   /\ a[s] \in Entries /\ a[s].vno \in Nat /\ a[s].vno <= Eff(t)
  <2>1. ASSUME NEW s \in R
        PROVE  /\ a[s] = answer[c][s] /\ Known(a[s])
               /\ a[s] \in Entries /\ a[s].vno \in Nat
    BY <1>1, <1>2 DEF Answers, AllKnown, EntriesTyped, Entries
  <2>2. ASSUME NEW s \in R PROVE a[s].vno <= Eff(t)
    <3>1. Reached(a[s].vno)
      BY <2>1, KnownReached
    <3> QED BY <1>3, <3>1 DEF Reached
  <2> QED BY <2>1, <2>2
<1>5. R # {}
  <2>1. Cardinality({}) = 0
    BY FS_EmptySet
  <2> QED BY <1>1, <2>1, QuorumAssumption
<1>6. PICK j \in R : j \notin Behind(c)
  <2> SUFFICES ASSUME R \subseteq Behind(c) PROVE FALSE
    OBVIOUS
  <2>1. Behind(c) \in SUBSET Servers /\ Cardinality(Behind(c)) <= N - Nw
    BY <1>1 DEF Behind, TopIsReplicated
  <2>2. IsFiniteSet(Behind(c))
    BY <2>1, ServersFinite, Sizes
  <2>3. /\ Cardinality(R) <= Cardinality(Behind(c))
        /\ Cardinality(R) \in Nat /\ Cardinality(Behind(c)) \in Nat
    BY <2>2, Sizes
  <2> QED BY <1>1, <2>1, <2>3, QuorumAssumption
<1>7. answer[c][j].vno >= floor[c]
  <2>1. ~ (answer[c][j].vno < floor[c])
    BY <1>2, <1>6 DEF Behind
  <2>2. answer[c][j].vno \in Nat /\ floor[c] \in Nat
    BY <1>2, <1>4 DEF EntriesTyped
  <2> QED BY <2>1, <2>2
<1>8. g \in R /\ \A i \in R : a[i].vno <= a[g].vno
  <2>1. DOMAIN a = R
    BY DEF Answers
  <2>2. \A i \in R : a[i].vno \in Nat /\ a[i].vno <= Eff(t)
    BY <1>4
  <2> HIDE DEF a, R
  <2> QED BY <1>2, <1>3, <1>5, <2>1, <2>2, ServersFinite, GetTakesLatest
<1>9. answer[c][g].vno >= floor[c]
  <2>1. /\ a[j].vno <= a[g].vno /\ a[j].vno = answer[c][j].vno
        /\ a[g].vno = answer[c][g].vno
    BY <1>4, <1>8
  <2>2. a[j].vno \in Nat /\ a[g].vno \in Nat /\ floor[c] \in Nat
    BY <1>4, <1>8 DEF EntriesTyped
  <2> QED BY <1>7, <2>1, <2>2
<1> QED BY <1>4, <1>8, <1>9

(* No answer has the value of a client that has not written.               *)
LEMMA NotOwn ==
  ASSUME NEW c \in Clients, ~ Wrote(c), NEW e, Known(e), e.vno # 0
  PROVE  e.value # c
<1>1. CASE e = Entry(1, InitVal)
  BY <1>1, InitValAssumption DEF Entry
<1>2. CASE \E d \in Clients : Wrote(d) /\ result[d] = e
  BY <1>2 DEF Wrote
<1> QED BY <1>1, <1>2 DEF Known

(* A GET has decided: its result is one that was written.                  *)
LEMMA GetStep ==
  ASSUME AtomicInv, NEW c \in Clients, DecideGet(c)
  PROVE  AtomicInv'
<1> DEFINE e == answer[c][SelectGet(Answers(c))]
<1> USE DEF AtomicInv
<1>1. /\ phase[c] = "GET" /\ phase' = [phase EXCEPT ![c] = "end"]
      /\ result' = [result EXCEPT ![c] = e]
      /\ session' = [session EXCEPT ![c] = [s \in Servers |-> "closed"]]
      /\ answer' = [answer EXCEPT ![c] = [s \in Servers |-> NoEntry]]
      /\ vno' = vno /\ value' = value /\ floor' = floor
  BY DEF DecideGet, entries
<1>2. LockInv'
  BY ClientKeepsLocks DEF Client
<1>3. e \in Entries /\ Known(e) /\ e.vno >= floor[c]
  BY GetSelects
<1> HIDE DEF e
<1>4. result[c] = NoEntry /\ ~ Wrote(c) /\ ~ Read(c)
  BY <1>1 DEF ResultsFollow, NoEntry, Entry, Wrote, Read
<1>5. /\ result'[c] = e /\ \A d \in Clients \ {c} : result'[d] = result[d]
      /\ phase'[c] = "end" /\ \A d \in Clients \ {c} : phase'[d] = phase[d]
      /\ \A s \in Servers : session'[c][s] = "closed"
      /\ \A d \in Clients \ {c} : session'[d] = session[d] /\ answer'[d] = answer[d]
  BY <1>1 DEF EntriesTyped, LockInv, SessionsTyped
<1>6. ~ Wrote(c)'
  BY <1>3, <1>4, <1>5, NotOwn DEF Wrote
<1>7. \A d \in Clients : /\ Wrote(d)' <=> Wrote(d)
                         /\ Wrote(d) => d # c /\ result'[d] = result[d]
                         /\ d # c => (Read(d)' <=> Read(d))
  BY <1>4, <1>5, <1>6 DEF Wrote, Read
<1>8. \A u \in Servers : Eff(u)' = Eff(u)
  <2>1. \A u \in Servers : session[c][u] # "update"
    BY <1>1 DEF LockInv, InStage, Stages
  <2>2. ASSUME NEW u \in Servers PROVE Eff(u)' = Eff(u)
    <3>1. Due(u)' = Due(u) /\ c \notin Due(u)
      BY <1>5, <2>1 DEF Due
    <3>2. \A d \in Due(u) : result'[d] = result[d]
      BY <1>5, <3>1 DEF Due
    <3> QED BY <1>1, <3>1, <3>2, SameEff
  <2> QED BY <2>2
<1>9. Top' = Top /\ Top \in SUBSET Servers
  BY <1>8, SameTop, TopExists
<1>10. EntriesTyped'
  <2>1. NoEntry \in Entries
    BY DEF NoEntry, Entry, Entries
  <2> QED BY <1>1, <1>3, <2>1 DEF EntriesTyped
<1>11. \A x : Known(x) => Known(x)'
  BY <1>7, KnownStays
<1>12. AllKnown'
  <2>1. \A s \in Servers : Known(Entry(vno[s], value[s]))'
    BY <1>1, <1>11 DEF AllKnown, Known
  <2>2. \A d \in Clients : \A s \in Answered(d)' : phase'[d] # "end" => Known(answer[d][s])'
    <3>1. ASSUME NEW d \in Clients, NEW s \in Answered(d)', phase'[d] # "end"
          PROVE  Known(answer[d][s])'
      <4>1. d # c /\ s \in Answered(d) /\ phase[d] # "end" /\ answer'[d] = answer[d]
        BY <1>5, <3>1 DEF Answered
      <4>2. Known(answer[d][s])
        BY <4>1 DEF AllKnown
      <4> QED BY <1>7, <4>1, <4>2 DEF Known
    <3> QED BY <3>1
  <2>3. \A d \in Clients : result'[d].vno # 0 => Known(result[d])'
    <3>1. ASSUME NEW d \in Clients, result'[d].vno # 0 PROVE Known(result[d])'
      <4>1. Known(result'[d])
        BY <1>3, <1>5, <3>1 DEF AllKnown
      <4> QED BY <1>7, <4>1 DEF Known
    <3> QED BY <3>1
  <2> QED BY <2>1, <2>2, <2>3 DEF AllKnown
<1>13. ResultsFollow'
  <2>1. ASSUME NEW d \in Clients
        PROVE  /\ phase'[d] \in {"idle", "GET", "PUT"} => result'[d] = NoEntry
               /\ phase'[d] = "update" => Wrote(d)'
               /\ Wrote(d)' => result'[d].vno > floor'[d]
               /\ Read(d)' => result'[d].vno >= floor'[d]
    <3>1. CASE d = c
      BY <1>1, <1>3, <1>5, <1>6, <3>1
    <3>2. CASE d # c
      BY <1>1, <1>5, <1>7, <3>2 DEF ResultsFollow
    <3> QED BY <3>1, <3>2
  <2>2. \A d, f \in Clients : d # f /\ Wrote(d)' /\ Wrote(f)' => result'[d].vno # result'[f].vno
    BY <1>7 DEF ResultsFollow
  <2> QED BY <2>1, <2>2 DEF ResultsFollow
<1>14. VotesStand'
  BY <1>1, <1>5 DEF VotesStand
<1>15. TopIsReplicated'
  <2>1. \A d \in Clients : Wrote(d)' => Reached(result[d].vno)'
    BY <1>7, <1>8, <1>9 DEF Reached, TopIsReplicated
  <2>2. \A d \in Clients : Reached(floor[d])'
    BY <1>1, <1>8, <1>9 DEF Reached, TopIsReplicated
  <2>3. \A d \in Clients : phase'[d] = "GET" => phase[d] = "GET" /\ Behind(d)' = Behind(d)
    BY <1>1, <1>5, <1>8, SameBehind
  <2> QED BY <1>9, <2>1, <2>2, <2>3 DEF TopIsReplicated
<1> QED BY <1>2, <1>10, <1>12, <1>13, <1>14, <1>15


(* The votes of a PUT are what the servers have, and the version selected  *)
(* is the highest of all, that of the servers that are not behind.         *)
LEMMA PutSelects ==
  ASSUME AtomicInv, NEW c \in Clients, DecidePut(c)
  PROVE  LET V == Answered(c)
             p == SelectPut(Answers(c))
         IN  /\ V \in SUBSET Servers /\ Cardinality(V) >= Nw
             /\ \A s \in V : session[c][s] = "voted"
             /\ p \in V \cap Top /\ answer[c][p].vno = Eff(p)
<1> DEFINE V == Answered(c)
           a == Answers(c)
           p == SelectPut(a)
<1> USE DEF AtomicInv
<1>1. phase[c] = "PUT" /\ Cardinality(V) >= Nw
  BY DEF DecidePut
<1>2. V \in SUBSET Servers /\ \A s \in V : session[c][s] = "voted"
  BY <1>1 DEF Answered, LockInv, InStage, Stages
<1>3. ASSUME NEW s \in V PROVE a[s].vno = Eff(s)
  <2>1. Due(s) = {}
    <3>1. c \in Holders(s) /\ session[c][s] = "voted"
      BY <1>2 DEF Holders
    <3> QED BY <1>2, <3>1 DEF LockInv, OneHolder, Holders, Due
  <2>2. Eff(s) = vno[s]
    BY <1>2, <2>1, EffIs
  <2> QED BY <1>1, <1>2, <2>2 DEF Answers, VotesStand
<1>4. \A i \in V, j \in V \cap Top : a[i].vno = a[j].vno <=> i \in Top
  <2> SUFFICES ASSUME NEW i \in V, NEW j \in V \cap Top
               PROVE  Eff(i) = Eff(j) <=> i \in Top
    BY <1>3
  <2>1. \A u \in Servers : Eff(u) \in Nat
    BY EffAbove
  <2> QED BY <1>2, <2>1 DEF Top
<1>5. p \in V \cap Top
  <2>1. DOMAIN a = V
    BY DEF Answers
  <2>2. Top \in SUBSET Servers /\ Cardinality(Top) >= Nw
    BY TopExists DEF TopIsReplicated
  <2>3. Nw \in Nat /\ 3 * Nw > 2 * Cardinality(Servers)
    BY ServersFinite, QuorumAssumption
  <2> HIDE DEF a, V
  <2> QED BY <1>1, <1>2, <1>4, <2>1, <2>2, <2>3, ServersFinite, VotedByTop
<1>6. answer[c][p].vno = Eff(p)
  BY <1>3, <1>5 DEF Answers
<1> QED BY <1>1, <1>2, <1>5, <1>6


(* A PUT has decided: its voters are to have a version that is higher than *)
(* all, and they are a write quorum.                                       *)
LEMMA PutStep ==
  ASSUME AtomicInv, NEW c \in Clients, DecidePut(c)
  PROVE  AtomicInv'
<1> DEFINE V == Answered(c)
           p == SelectPut(Answers(c))
           new == answer[c][p].vno + 1
<1> USE DEF AtomicInv
<1>1. /\ V \in SUBSET Servers /\ Cardinality(V) >= Nw
      /\ \A s \in V : session[c][s] = "voted"
      /\ p \in V \cap Top /\ answer[c][p].vno = Eff(p)
  BY PutSelects
<1>2. /\ phase[c] = "PUT" /\ phase' = [phase EXCEPT ![c] = "update"]
      /\ result' = [result EXCEPT ![c] = Entry(new, c)]
      /\ session' = [session EXCEPT ![c] =
           [s \in Servers |-> IF s \in V THEN "update" ELSE "closed"]]
      /\ answer' = [answer EXCEPT ![c] = [s \in Servers |-> NoEntry]]
      /\ vno' = vno /\ value' = value /\ floor' = floor
  BY DEF DecidePut, entries, new_vnoG
<1>3. LockInv'
  BY ClientKeepsLocks DEF Client
<1>4. /\ new \in Nat \ {0} /\ p \in Servers /\ p \in V
      /\ \A s \in Servers : Eff(s) \in Nat \ {0} /\ vno[s] <= Eff(s) /\ Eff(s) < new
  <2>1. \A s \in Servers : Eff(s) \in Nat \ {0} /\ vno[s] <= Eff(s)
    BY EffAbove
  <2>2. p \in Servers /\ \A s \in Servers : Eff(s) <= Eff(p)
    BY <1>1 DEF Top
  <2> QED BY <1>1, <2>1, <2>2
<1>5. \A n : n \in Nat /\ Reached(n) => n < new
  BY <1>1, <1>4 DEF Reached
<1> HIDE DEF V, new, p
<1>6. /\ result'[c] = Entry(new, c) /\ \A d \in Clients \ {c} : result'[d] = result[d]
      /\ phase'[c] = "update" /\ \A d \in Clients \ {c} : phase'[d] = phase[d]
      /\ \A s \in Servers : session'[c][s] = IF s \in V THEN "update" ELSE "closed"
      /\ \A d \in Clients \ {c} : session'[d] = session[d] /\ answer'[d] = answer[d]
  BY <1>2 DEF EntriesTyped, LockInv, SessionsTyped
<1>7. ~ Wrote(c) /\ ~ Read(c)
  BY <1>2 DEF ResultsFollow, NoEntry, Entry, Wrote, Read
<1>8. /\ Wrote(c)' /\ ~ Read(c)' /\ result'[c].vno = new
      /\ \A d \in Clients \ {c} : /\ Wrote(d)' <=> Wrote(d)
                                  /\ Read(d)' <=> Read(d)
  BY <1>4, <1>6 DEF Wrote, Read, Entry
<1>9. \A s \in Servers : Eff(s)' = IF s \in V THEN new ELSE Eff(s)
  <2>1. ASSUME NEW s \in V PROVE Eff(s)' = new
    <3>1. s \in Servers /\ c \in Holders(s)
      BY <1>1, <2>1 DEF Holders
    <3>2. \A d \in Clients \ {c} : session'[d][s] # "update"
      BY <1>6, <3>1 DEF LockInv, OneHolder, Holders
    <3>3. Due(s)' = {c}
      BY <1>6, <2>1, <3>1, <3>2 DEF Due
    <3> QED BY <1>8, <3>3 DEF Eff
  <2>2. ASSUME NEW s \in Servers, s \notin V PROVE Eff(s)' = Eff(s)
    <3>1. session[c][s] # "update"
      BY <1>2 DEF LockInv, InStage, Stages
    <3>2. Due(s)' = Due(s) /\ c \notin Due(s)
      BY <1>6, <2>2, <3>1 DEF Due
    <3>3. \A d \in Due(s) : result'[d] = result[d]
      BY <1>6, <3>2 DEF Due
    <3> QED BY <1>2, <3>2, <3>3, SameEff
  <2> QED BY <2>1, <2>2
<1>10. Top' = V
  <2>1. \A s \in V, u \in Servers : Eff(u)' <= Eff(s)'
    BY <1>1, <1>4, <1>9
  <2>2. ASSUME NEW s \in Servers, s \notin V
        PROVE  \E u \in Servers : ~ (Eff(u)' <= Eff(s)')
    <3>1. PICK u \in Servers : u \in V
      BY <1>4
    <3>2. Eff(u)' = new /\ Eff(s)' = Eff(s) /\ Eff(s) \in Nat /\ Eff(s) < new
      BY <1>4, <1>9, <2>2, <3>1
    <3> QED BY <1>4, <3>2
  <2> QED BY <1>1, <2>1, <2>2 DEF Top
<1>11. EntriesTyped'
  <2>1. NoEntry \in Entries /\ Entry(new, c) \in Entries
    BY <1>4 DEF NoEntry, Entry, Entries
  <2> QED BY <1>2, <2>1 DEF EntriesTyped
<1>12. \A x : Known(x) => Known(x)'
  BY <1>6, <1>7, KnownStays
<1>13. AllKnown'
  <2>1. \A s \in Servers : Known(Entry(vno[s], value[s]))'
    BY <1>2, <1>12 DEF AllKnown, Known
  <2>2. ASSUME NEW d \in Clients, NEW s \in Answered(d)', phase'[d] # "end"
        PROVE  Known(answer[d][s])'
    <3>1. d # c /\ s \in Answered(d) /\ phase[d] # "end" /\ answer'[d] = answer[d]
      BY <1>6, <2>2 DEF Answered
    <3>2. Known(answer[d][s])
      BY <3>1 DEF AllKnown
    <3> QED BY <1>12, <3>1, <3>2 DEF Known
  <2>3. ASSUME NEW d \in Clients, result'[d].vno # 0 PROVE Known(result[d])'
    <3>1. CASE d = c
      BY <1>8, <3>1 DEF Known
    <3>2. CASE d # c
      <4>1. result'[d] = result[d] /\ Known(result[d])
        BY <1>6, <2>3, <3>2 DEF AllKnown
      <4> QED BY <1>12, <4>1 DEF Known
    <3> QED BY <3>1, <3>2
  <2> QED BY <2>1, <2>2, <2>3 DEF AllKnown
<1>14. \A d \in Clients : Wrote(d) => Reached(result[d].vno) /\ result[d].vno \in Nat
  BY DEF TopIsReplicated, EntriesTyped, Entries
<1>15. ResultsFollow'
  <2>1. ASSUME NEW d \in Clients
        PROVE  /\ phase'[d] \in {"idle", "GET", "PUT"} => result'[d] = NoEntry
               /\ phase'[d] = "update" => Wrote(d)'
               /\ Wrote(d)' => result'[d].vno > floor'[d]
               /\ Read(d)' => result'[d].vno >= floor'[d]
    <3>1. CASE d = c
      <4>1. floor[c] \in Nat /\ Reached(floor[c])
        BY DEF EntriesTyped, TopIsReplicated
      <4>2. new > floor[c]
        BY <1>4, <1>5, <4>1
      <4> QED BY <1>2, <1>6, <1>8, <3>1, <4>2
    <3>2. CASE d # c
      BY <1>2, <1>6, <1>8, <3>2 DEF ResultsFollow
    <3> QED BY <3>1, <3>2
  <2>2. \A d \in Clients \ {c} : Wrote(d)' => result'[d].vno # new
    <3>1. ASSUME NEW d \in Clients \ {c}, Wrote(d)' PROVE result'[d].vno # new
      <4>1. result[d].vno < new /\ result[d].vno \in Nat /\ result'[d] = result[d]
        BY <1>5, <1>6, <1>8, <1>14, <3>1
      <4> QED BY <1>4, <4>1
    <3> QED BY <3>1
  <2>3. ASSUME NEW d \in Clients, NEW f \in Clients \ {d}, Wrote(d)', Wrote(f)'
        PROVE  result'[d].vno # result'[f].vno
    <3>1. CASE d = c \/ f = c
      BY <1>8, <2>2, <2>3, <3>1
    <3>2. CASE d # c /\ f # c
      BY <1>6, <1>8, <2>3, <3>2 DEF ResultsFollow
    <3> QED BY <3>1, <3>2
  <2> QED BY <2>1, <2>3 DEF ResultsFollow
<1>16. VotesStand'
  <2>1. ASSUME NEW d \in Clients, NEW s \in Servers
        PROVE  /\ session'[d][s] = "update" => result'[d].vno > vno'[s]
               /\ phase'[d] = "PUT" /\ session'[d][s] = "voted"
                    => answer'[d][s].vno = vno'[s]
    <3>1. CASE d = c
      <4>1. new > vno[s]
        BY <1>4 DEF EntriesTyped
      <4> QED BY <1>2, <1>6, <1>8, <3>1, <4>1
    <3>2. CASE d # c
      BY <1>2, <1>6, <3>2 DEF VotesStand
    <3> QED BY <3>1, <3>2
  <2> QED BY <2>1 DEF VotesStand
<1>17. TopIsReplicated'
  <2>1. \A n \in Nat : Reached(n) => Reached(n)'
    BY <1>1, <1>4, <1>5, <1>9, <1>10 DEF Reached
  <2>2. \A d \in Clients : Wrote(d)' => Reached(result[d].vno)'
    <3>1. Reached(result[c].vno)'
      BY <1>1, <1>4, <1>8, <1>9, <1>10 DEF Reached
    <3>2. ASSUME NEW d \in Clients \ {c}, Wrote(d)' PROVE Reached(result[d].vno)'
      <4>1. result'[d] = result[d] /\ Reached(result[d].vno)'
        <5>1. result'[d] = result[d] /\ Reached(result[d].vno) /\ result[d].vno \in Nat
          BY <1>6, <1>8, <1>14, <3>2
        <5>2. \A t \in Top' : result[d].vno <= Eff(t)'
          BY <2>1, <5>1 DEF Reached
        <5> QED BY <5>1, <5>2 DEF Reached
      <4> QED BY <4>1
    <3> QED BY <3>1, <3>2
  <2>3. \A d \in Clients : Reached(floor[d])'
    <3>1. ASSUME NEW d \in Clients PROVE Reached(floor[d])'
      <4>1. floor'[d] = floor[d] /\ floor[d] \in Nat /\ Reached(floor[d])
        BY <1>2 DEF EntriesTyped, TopIsReplicated
      <4>2. \A t \in Top' : floor[d] <= Eff(t)'
        BY <2>1, <4>1 DEF Reached
      <4> QED BY <4>1, <4>2 DEF Reached
    <3> QED BY <3>1
  <2>4. ASSUME NEW d \in Clients, phase'[d] = "GET"
        PROVE  Cardinality(Behind(d)') <= N - Nw
    <3>1. /\ d # c /\ phase[d] = "GET" /\ session'[d] = session[d]
          /\ answer'[d] = answer[d] /\ floor'[d] = floor[d]
      BY <1>2, <1>6, <2>4
    <3>2. floor[d] \in Nat /\ \A s \in Servers : Eff(s) <= Eff(s)' /\ Eff(s)' \in Nat
      BY <1>4, <1>9 DEF EntriesTyped
    <3>3. Behind(d)' \subseteq Behind(d)
      <4>1. \A s \in Servers : Eff(s)' < floor[d] => Eff(s) < floor[d]
        BY <1>4, <3>2
      <4> QED BY <3>1, <4>1 DEF Behind
    <3>4. Behind(d) \in SUBSET Servers /\ Cardinality(Behind(d)) <= N - Nw
      BY <3>1 DEF Behind, TopIsReplicated
    <3> DEFINE B == Behind(d)
               B2 == Behind(d)'
    <3>5. IsFiniteSet(B) /\ B2 \in SUBSET B
      BY <3>3, <3>4, ServersFinite, Sizes
    <3>6. Cardinality(B2) <= Cardinality(B) /\ Cardinality(B2) \in Nat /\ Cardinality(B) \in Nat
      <4> HIDE DEF B, B2
      <4> QED BY <3>5, Sizes
    <3> QED BY <3>4, <3>6, QuorumAssumption
  <2> QED BY <1>1, <1>10, <2>2, <2>3, <2>4 DEF TopIsReplicated
<1> QED BY <1>3, <1>11, <1>13, <1>15, <1>16, <1>17


-----------------------------------------------------------------------------
(* Before anyone starts, every server is at the top.                       *)
LEMMA InitAtomic == Init => AtomicInv
<1> SUFFICES ASSUME Init PROVE AtomicInv
  OBVIOUS
<1> USE DEF Init
<1>1. LockInv
  BY DEF LockInv, SessionsTyped, InStage, OneHolder, Holders, Sessions, Stages
<1>2. EntriesTyped
  BY DEF EntriesTyped, Entries, NoEntry, Entry
<1>3. \A c \in Clients : ~ Wrote(c) /\ ~ Read(c) /\ result[c].vno = 0
  BY DEF Wrote, Read, NoEntry, Entry
<1>4. AllKnown
  <2>1. \A c \in Clients : Answered(c) = {}
    BY DEF Answered
  <2> QED BY <1>3, <2>1 DEF AllKnown, Known
<1>5. ResultsFollow
  BY <1>3 DEF ResultsFollow
<1>6. VotesStand
  BY DEF VotesStand
<1>7. \A s \in Servers : Eff(s) = 1
  BY DEF Eff, Due
<1>8. Top = Servers
  BY <1>7 DEF Top
<1>9. TopIsReplicated
  BY <1>3, <1>7, <1>8, ServersFinite, QuorumAssumption DEF TopIsReplicated, Reached
<1> QED BY <1>1, <1>2, <1>4, <1>5, <1>6, <1>9 DEF AtomicInv

(* Every step, one lemma each.                                             *)
LEMMA StepAtomic == AtomicInv /\ [Next]_vars => AtomicInv'
<1> SUFFICES ASSUME AtomicInv, [Next]_vars PROVE AtomicInv'
  OBVIOUS
<1>1. CASE Next
  BY <1>1, StartStep, EndStep, AnswerStep, UpdateStep, GetStep, PutStep
     DEF Next, Client, Server
<1>2. CASE UNCHANGED vars
  <2>1. LockInv'
    BY <1>2 DEF vars, entries, AtomicInv, LockInv, SessionsTyped, InStage, OneHolder, Holders
  <2>2. /\ \A s \in Servers : Due(s)' = Due(s)
        /\ \A c \in Clients : Answered(c)' = Answered(c) /\ Behind(c)' = Behind(c)
    BY <1>2 DEF vars, entries, Due, Answered, Behind, Eff
  <2>3. \A c \in Clients : phase[c] = "PUT" => \A s \in Answered(c) : session[c][s] = "voted"
    BY DEF AtomicInv, LockInv, InStage, Stages, Answered
  <2>4. \A c \in Clients : Answered(c) \subseteq Servers
    BY DEF Answered
  <2> QED BY <1>2, <2>1, <2>2, <2>3, <2>4, SmallStep
          DEF vars, entries, AtomicInv, EntriesTyped, AllKnown, ResultsFollow,
              VotesStand, TopIsReplicated
<1> QED BY <1>1, <1>2

(* For any number of servers, whose quorums overlap as QuorumAssumption    *)
(* says, and any number of concurrent clients, GETs and PUTs act one at a  *)
(* time (Server.c:213-281, Client.c:345-402).                              *)
THEOREM ActsAtomicallyEver == Spec => []ActsAtomically
<1>1. AtomicInv => ActsAtomically
  <2> SUFFICES ASSUME AtomicInv PROVE ActsAtomically
    OBVIOUS
  <2>1. ASSUME NEW c \in Clients, Read(c)
        PROVE  \/ result[c] = Entry(1, InitVal)
               \/ \E d \in Clients : Wrote(d) /\ result[d] = result[c]
    BY <2>1 DEF AtomicInv, AllKnown, Known, Read
  <2> QED BY <2>1 DEF AtomicInv, ResultsFollow, ActsAtomically
<1> QED BY <1>1, InitAtomic, StepAtomic, PTL DEF Spec

(* Whatever updates are under way at once, no server goes back to an older *)
(* version (Server.c:16-37, Client.c:373-402).                             *)
THEOREM VersionsGrowEver == Spec => VersionsGrow
<1>1. AtomicInv /\ [Next]_vars => [\A s \in Servers : vno[s] <= vno'[s]]_vars
  <2> SUFFICES ASSUME AtomicInv, Next PROVE \A s \in Servers : vno[s] <= vno'[s]
    OBVIOUS
  <2>1. \A s \in Servers : vno[s] \in Nat
    BY DEF AtomicInv, EntriesTyped
  <2>2. CASE vno' = vno
    BY <2>1, <2>2
  <2>3. CASE \E c \in Clients, s \in Servers : RecvUpdate(c, s)
    <3>1. PICK c \in Clients, s \in Servers : RecvUpdate(c, s)
      BY <2>3
    <3>2. /\ session[c][s] = "update"
          /\ vno' = [vno EXCEPT ![s] = result[c].vno]
      BY <3>1 DEF RecvUpdate, Session
    <3>3. result[c].vno > vno[s] /\ result[c].vno \in Nat
      BY <3>2 DEF AtomicInv, VotesStand, EntriesTyped, Entries
    <3>4. \A u \in Servers : vno'[u] = IF u = s THEN result[c].vno ELSE vno[u]
      BY <3>2 DEF AtomicInv, EntriesTyped
    <3> QED BY <2>1, <3>3, <3>4
  <2> QED BY <2>2, <2>3 DEF Next, Client, Server, entries, Start, DecideGet, DecidePut,
             LesserQuorum, Finish, GetAnswer, GetLocked, PutVote, ReleaseLock
<1> QED BY <1>1, InitAtomic, StepAtomic, PTL DEF Spec, VersionsGrow

(* Everything has its type: versions stay positive and locks are 0 or 1,   *)
(* whatever order requests come in (Server.h, struct keyInfo).             *)
THEOREM TypeCorrect == Spec => []TypeOK
<1> DEFINE Counted == numGetters \in [Servers -> Int]
<1>1. Init => Counted
  BY DEF Init
<1>2. Counted /\ [Next]_vars => Counted'
  <2> SUFFICES ASSUME Counted, [Next]_vars PROVE Counted'
    OBVIOUS
  <2>1. CASE \E c \in Clients, s \in Servers : GetLocked(c, s)
    BY <2>1 DEF GetLocked
  <2>2. CASE numGetters' = numGetters
    BY <2>2
  <2> QED BY <2>1, <2>2 DEF Next, Client, Server, vars, entries, Start, DecideGet, DecidePut,
             LesserQuorum, Finish, GetAnswer, RecvUpdate, PutVote, ReleaseLock
<1>3. AtomicInv /\ Counted => TypeOK
  BY DEF AtomicInv, LockInv, SessionsTyped, EntriesTyped, TypeOK
<1> HIDE DEF Counted
<1> QED BY <1>1, <1>2, <1>3, InitAtomic, StepAtomic, PTL DEF Spec
=============================================================================
