----------------------------- MODULE MCNumbers -----------------------------
(* Values for TLC: with a unit of 16 bytes the sizes that an int64 of that     *)
(* scale holds, those near the borders of all units and near quarters of them  *)
(* among them, where tenths tie and, from half of the last unit on, float64s    *)
(* have gaps; and durations on both sides of the borders of theirs.           *)
EXTENDS Numbers

MCExact == 8 * Unit^5
MCSizes ==
  (0..600) \union
  {b \in {(m * Unit^k) \div 4 + d :
            m \in {4, 5, 8, 15, 28, 32, 60}, k \in 1..6, d \in -60..20} :
     b > 0 /\ b < 8 * Unit^6}
MCOneSize == {0}
MCDurations ==
  (990..1010) \union (99990..100020) \union (999940..1000060)
  \union {n * 10000 : n \in 100..199} \union {n * 1000000 : n \in 1..120}
=============================================================================
