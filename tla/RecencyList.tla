---------------------------- MODULE RecencyList -----------------------------
(***************************************************************************)
(* What a cache with least-recently-used replacement promises: it holds    *)
(* the last files asked for, and what it evicts is the one that was not    *)
(* asked for the longest.                                                  *)
(***************************************************************************)
EXTENDS Naturals, Sequences

CONSTANTS Files, NoFile, Size
VARIABLES recent,   \* the files held, the last one used first
          asked,    \* the file of the last request, or NoFile
          evicted   \* the file that this request evicted, or NoFile

Held == {recent[j] : j \in 1 .. Len(recent)}

(* f first, and the files before place k behind it, among n files.         *)
Front(f, k, n) ==
  [j \in 1 .. n |->
     IF j = 1 THEN f ELSE IF j <= k THEN recent[j - 1] ELSE recent[j]]

Init == recent = <<>> /\ asked = NoFile /\ evicted = NoFile

Hit(f) ==
  /\ \E k \in 1 .. Len(recent) :
       recent[k] = f /\ recent' = Front(f, k, Len(recent))
  /\ asked' = f
  /\ evicted' = NoFile

Add(f) ==
  /\ f \notin Held /\ Len(recent) < Size
  /\ recent' = Front(f, Len(recent) + 1, Len(recent) + 1)
  /\ asked' = f
  /\ evicted' = NoFile

Replace(f) ==
  /\ f \notin Held /\ Len(recent) = Size
  /\ recent' = Front(f, Size, Size)
  /\ asked' = f
  /\ evicted' = recent[Size]

Next == \E f \in Files : Hit(f) \/ Add(f) \/ Replace(f)

Spec == Init /\ [][Next]_<<recent, asked, evicted>>
=============================================================================
