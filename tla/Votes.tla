------------------------------- MODULE Votes --------------------------------
(***************************************************************************)
(* What selectServer (Client.c:25-178) is for, said without its loops.     *)
(*                                                                         *)
(* The answers to a request are a function a from the indices of the       *)
(* servers that answered to [vno, value].  Answers that agree are votes    *)
(* for the same thing; the server selected is the first one of the largest *)
(* group.                                                                  *)
(***************************************************************************)
EXTENDS Integers, FiniteSets

(* The answers with the highest version number.                            *)
Latest(a) == {i \in DOMAIN a : \A j \in DOMAIN a : a[j].vno <= a[i].vno}

(* The answers that count as the same vote as i's: for a PUT those with    *)
(* the same version number, for a GET those with the same value among the  *)
(* latest.                                                                 *)
SameVno(a, i) == {j \in DOMAIN a : a[j].vno = a[i].vno}
SameValue(a, i) == {j \in Latest(a) : a[j].value = a[i].value}

(* The votes of the largest groups.                                        *)
LargestVno(a) ==
  {i \in DOMAIN a : \A j \in DOMAIN a :
     Cardinality(SameVno(a, j)) <= Cardinality(SameVno(a, i))}
LargestValue(a) ==
  {i \in Latest(a) : \A j \in Latest(a) :
     Cardinality(SameValue(a, j)) <= Cardinality(SameValue(a, i))}

First(S) == CHOOSE i \in S : \A j \in S : i <= j

(* The server that a GET takes its value from, and the one that a PUT      *)
(* takes its version number from.                                          *)
SelectGet(a) == First(LargestValue(a))
SelectPut(a) == First(LargestVno(a))

(* Whom the client says to have lied: after a GET, the latest answers with *)
(* a value that fewer gave; after a PUT, the answers with a version number *)
(* above the selected one that fewer gave.                                 *)
LiedGet(a) == Latest(a) \ LargestValue(a)
LiedPut(a) ==
  {i \in DOMAIN a \ LargestVno(a) : a[i].vno > a[SelectPut(a)].vno}
=============================================================================
