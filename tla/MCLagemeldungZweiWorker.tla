---------------------- MODULE MCLagemeldungZweiWorker ----------------------
(* Two workers, one vehicle, and one site, or two when the race needs a site *)
(* the other worker finds overdue later; the settings never change.          *)
EXTENDS LagemeldungZweiWorker, TLC

CONSTANTS e1, s1, s2, w1, w2

Fahrzeug == {e1}
EineStelle == {s1}
ZweiStellen == {s1, s2}
KeinSektor == {}
KeinFreitext == {}
PhasenKurz == {"eingegangen", "in_arbeit"}
ZweiWorker == {w1, w2}
=============================================================================
