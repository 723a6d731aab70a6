--------------------------- MODULE MCLoginThrottle ---------------------------
(* Small instances of LoginThrottle for TLC.                               *)
EXTENDS LoginThrottle, TLC

(* Handlers are interchangeable; addresses are too.                        *)
Interchangeable == Permutations(Handlers) \cup Permutations(Keys)
=============================================================================
