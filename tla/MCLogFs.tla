------------------------------ MODULE MCLogFs -------------------------------
(***************************************************************************)
(* LogFs for TLC: three records of two days, written alone, two at a time  *)
(* across midnight, and without the newline.                               *)
(***************************************************************************)
EXTENDS LogFs, TLC

rec1 == [date |-> "Mar-17-2012", time |-> 1]
rec2 == [date |-> "Mar-17-2012", time |-> 2]
rec3 == [date |-> "Mar-18-2012", time |-> 3]

MCRecords == {rec1, rec2, rec3}
MCTexts == { <<rec1, NL>>, <<rec2, NL, rec3>> }

FileSymmetry == Permutations(Files)
=============================================================================
