------------------------------ MODULE Register ------------------------------
(***************************************************************************)
(* What the replicated store promises the user of one key: a GET prints    *)
(* the value of the last PUT that went through, whichever servers answer.  *)
(***************************************************************************)
CONSTANTS Vals, NoVal
VARIABLES reg,     \* the value of the key, NoVal while it has none
          output   \* the last client's command and value, "none" if it gave up

Did(op, v) == [op |-> op, value |-> v]

Init == reg \in Vals \cup {NoVal} /\ output = Did("none", NoVal)

Write(v) == reg' = v /\ output' = Did("PUT", v)
Read == reg # NoVal /\ output' = Did("GET", reg) /\ UNCHANGED reg
GiveUp == output' = Did("none", NoVal) /\ UNCHANGED reg

Next == Read \/ GiveUp \/ \E v \in Vals : Write(v)

Spec == Init /\ [][Next]_<<reg, output>>
=============================================================================
