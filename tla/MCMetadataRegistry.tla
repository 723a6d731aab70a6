------------------------- MODULE MCMetadataRegistry -------------------------
(* An instance of MetadataRegistry for TLC.                                *)
EXTENDS MetadataRegistry, TLC

(* One index, another of the same name, two, and three of which two are    *)
(* those two.                                                              *)
Lists ==
    {<<<<"x", "k">>>>, <<<<"x", "m">>>>, <<<<"x", "k">>, <<"y", "m">>>>,
     <<<<"x", "k">>, <<"y", "m">>, <<"z", "n">>>>}

(* One collection of the old format, with an index or without; capped or   *)
(* not.                                                                    *)
OldDatabases ==
    {[n \in {name} |-> [capped |-> capped, indexes |-> [i \in listed |-> IF i = DefaultIndex THEN "_id" ELSE "k"]]] :
       name \in Names, capped \in BOOLEAN, listed \in {{DefaultIndex}, {DefaultIndex, "x"}}}

NameSymmetry == Permutations(Names)

=============================================================================
