--------------------------- MODULE MCAlarmeingang ---------------------------
(* Two alarms, one of them of a triggering type, two large-scale incidents   *)
(* and three sites: an alarm can be sent again after the first incident has  *)
(* been closed and a second one runs.                                        *)
EXTENDS Alarmeingang, TLC

CONSTANTS w1, w2, a1, a2, l1, l2, z1, z2, z3

EinWorker == {w1}
ZweiWorker == {w1, w2}
MCSchluessel == {a1, a2}
MCAusloeser == {a1}
MCLagen == {l1, l2}
MCZeilen == {z1, z2, z3}
Symmetrie == Permutations(ZweiWorker) \cup Permutations(MCLagen)
               \cup Permutations(MCZeilen)
=============================================================================
