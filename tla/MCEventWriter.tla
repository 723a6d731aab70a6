---------------------------- MODULE MCEventWriter ----------------------------
(* A small instance of EventWriter: two rows share a cache of one, and the *)
(* events of the first row have two actors more than it has room for.      *)
EXTENDS EventWriter

CONSTANTS r1, r2, a1, a2, a3, a4, f1, f2, f3, f4

MCRowOf == [f \in Folds |-> IF f = f4 THEN r2 ELSE r1]

MCActorsOf == [f \in Folds |->
    CASE f = f1 -> <<a1>>
      [] f = f2 -> <<a2, a4>>
      [] f = f3 -> <<a3, a1>>
      [] f = f4 -> <<a1>>]
=============================================================================
