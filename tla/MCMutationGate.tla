--------------------------- MODULE MCMutationGate ---------------------------
(* A small instance of MutationGate: a document is the set of the commands *)
(* that have updated it, so that a lost update is a missing member.        *)
EXTENDS MutationGate

CONSTANTS a, b, c, d1, d2

MCDocs == SUBSET Commands
MCInitDocs == [i \in Ids |-> {}]
MCTargets == [x \in Commands |-> IF x = a THEN {d1, d2} ELSE {d1}]
MCUpdate(x, d) == d \cup {x}
=============================================================================
