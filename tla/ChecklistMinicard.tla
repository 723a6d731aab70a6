-------------------------- MODULE ChecklistMinicard --------------------------
(***************************************************************************)
(* The step that removes the old default of a checklist's minicard flag    *)
(* (internal/migrations/checklist.go).  An old default and a user's choice *)
(* are the same false in the database, so the step is meant to run once    *)
(* ever: a marker of its own says that it has.  Boots check it again, when *)
(* forced or of a new version, and a command line option runs it alone.    *)
(***************************************************************************)
EXTENDS Naturals

CONSTANTS
    Checklists,
    MaxRuns,      \* bound: times the step is begun
    MaxChoices    \* bound: changes the users make

ASSUME MinicardAssumption == MaxRuns \in Nat /\ MaxChoices \in Nat

VARIABLES
    flag,      \* absent, true, or false as an old default or as a choice
    marker,    \* checklist-minicard-unset is stored
    phase,     \* where the step is; idle between two runs
    completed, \* history: the step has ended once without an error
    later,     \* history: checklists whose flag a user set after that
    runs, choices

vars == <<flag, marker, phase, completed, later, runs, choices>>

Falses == {c \in Checklists : flag[c] \in {"default", "choice"}}

-----------------------------------------------------------------------------
(* A boot begins with the check; the command line goes straight to the run.*)
Begin(p) ==
    /\ phase = "idle" /\ runs < MaxRuns
    /\ p \in {"check", "run"}
    /\ phase' = p /\ runs' = runs + 1
    /\ UNCHANGED <<flag, marker, completed, later, choices>>

(* A user shows or hides a checklist at the minicard.                      *)
Choose(c, value) ==
    /\ choices < MaxChoices
    /\ choices' = choices + 1
    /\ flag' = [flag EXCEPT ![c] = value]
    /\ later' = IF completed THEN later \cup {c} ELSE later
    /\ UNCHANGED <<marker, phase, completed, runs>>

Completes == phase' = "idle" /\ completed' = TRUE

Done == marker

(* CheckChecklistMinicard, and the same questions in RunChecklistMinicard. *)
Look(next) ==
    \/ (Done \/ Falses = {}) /\ Completes
    \/ ~Done /\ Falses # {} /\ phase' = next /\ UNCHANGED completed

Check ==
    /\ phase = "check" /\ Look("run")
    /\ UNCHANGED <<flag, marker, later, runs, choices>>

Run ==
    /\ phase = "run" /\ Look("unset")
    /\ UNCHANGED <<flag, marker, later, runs, choices>>

(* Mutant of AfterUnset: an update that fails part of the way is taken for *)
(* a whole one.                                                            *)
AfterUnset_Always(cs) == "mark"

AfterUnset(cs) == IF cs = Falses THEN "mark" ELSE "idle"

(* UpdateMany changes one document after the other, or fails before the    *)
(* last.                                                                   *)
Unset(cs) ==
    /\ phase = "unset" /\ cs \subseteq Falses
    /\ flag' = [c \in Checklists |-> IF c \in cs THEN "absent" ELSE flag[c]]
    /\ phase' = AfterUnset(cs)
    /\ later' = later \ cs
    /\ UNCHANGED <<marker, completed, runs, choices>>

Mark ==
    /\ phase = "mark"
    /\ marker' = TRUE /\ Completes
    /\ UNCHANGED <<flag, later, runs, choices>>

(* An error of the database, a shutdown or a crash.                        *)
Fail ==
    /\ phase # "idle"
    /\ phase' = "idle"
    /\ UNCHANGED <<flag, marker, completed, later, runs, choices>>

Init ==
    /\ flag \in [Checklists -> {"absent", "true", "default"}]
    /\ marker = FALSE /\ phase = "idle" /\ completed = FALSE
    /\ later = {} /\ runs = 0 /\ choices = 0

Next ==
    \/ \E p \in {"check", "run"} : Begin(p)
    \/ \E c \in Checklists, value \in {"true", "choice"} : Choose(c, value)
    \/ Check \/ Run \/ Mark \/ Fail
    \/ \E cs \in SUBSET Checklists : Unset(cs)

Spec == Init /\ [][Next]_vars
-----------------------------------------------------------------------------
(* Once the marker is stored no old default is left, and no run, forced or *)
(* not, takes a flag away any more, whatever failed before                 *)
(* (checklist.go, the order of UpdateMany and the marker's upsert).        *)
MarkerMeansDone == marker => \A c \in Checklists : flag[c] # "default"

MarkerIsFinal ==
    [][marker => /\ marker'
                 /\ \A c \in Checklists : flag'[c] = "absent" => flag[c] = "absent"]_vars

Later(c) == c \in later /\ flag[c] = "choice"

(* "later false values are user choices, not old defaults" and "survive    *)
(* forced rechecks": a choice made after the step has once completed is    *)
(* never taken away.                                                       *)
LaterChoicesSurvive ==
    [][\A c \in Checklists : Later(c) => flag'[c] # "absent"]_vars
=============================================================================
