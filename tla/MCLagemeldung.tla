--------------------------- MODULE MCLagemeldung ---------------------------
(* One site, a vehicle with its unit and a resource assigned by its label,   *)
(* every setting, and as many reopened orders as MaxOffen allows.            *)
EXTENDS Lagemeldung, TLC

CONSTANTS e1, s1, Funkgeraete

Fahrzeug == {e1}
EineStelle == {s1}
KeinSektor == {}
EinFreitext == {Funkgeraete}
KeinFreitext == {}
PhasenKlein == {"eingegangen", "in_arbeit", "erledigt"}
=============================================================================
