--------------------------- MODULE MCDisposition ---------------------------
(* Two units, one of them a vehicle, two sites and one section: enough for a *)
(* unit to be at one site and alarmed for the other, and for a site to enter *)
(* and leave a section.                                                      *)
EXTENDS Disposition, TLC

CONSTANTS e1, e2, s1, s2, k1

MCEinheiten == {e1, e2}
MCFahrzeuge == {e1}
MCStellen == {s1, s2}
MCSektoren == {k1}

StellenSymmetrie == Permutations(MCStellen)
=============================================================================
