---------------------------- MODULE SchemaUpgrade ----------------------------
(***************************************************************************)
(* The schema upgrade runner (internal/migrations/upgrade.go), started in  *)
(* the background at every boot (main.go).  A marker in the database says  *)
(* for which version every step has been checked; a boot of that version   *)
(* does nothing.  Any database call may fail, a shutdown cancels the       *)
(* context of the run, and the process may be killed between any two       *)
(* steps.  A step is seen as a set of problems, some of which it can fix,  *)
(* one at a time.                                                          *)
(***************************************************************************)
EXTENDS Naturals, FiniteSets

CONSTANTS
    N,             \* number of steps, run in the order 1 .. N
    Versions,      \* versions of the application
    NoVersion,     \* the marker has no lastCheck
    Problems,      \* what may be wrong with the documents a step looks at
    Fixable,       \* problems a step can fix; the others it reports
    MaxBoots, MaxImports   \* bounds: boots, and problems that appear later

ASSUME UpgradeAssumption ==
    /\ N \in Nat \ {0} /\ Fixable \subseteq Problems
    /\ NoVersion \notin Versions
    /\ MaxBoots \in Nat /\ MaxImports \in Nat

Steps == 1 .. N

VARIABLES
    lastCheck,   \* database: the version in the marker
    problems,    \* database: problems[s]
    phase,       \* down, booted, gate, check, run, stamp, ended
    version, force, cancelled,
    marker,      \* the lastCheck this run has read
    step,        \* the step the run is at
    work,        \* the problems the running step has found and not fixed
    clean,       \* no step of this run has failed or left something
    state,       \* what the dashboard shows
    fresh,       \* history: fresh[s], the problems imported since the boot
    resolved,    \* history: the steps this run has left with nothing to do
    passed,      \* history: versions of which a run resolved every step
    boots, imports

database == <<lastCheck, problems>>
process == <<version, force, cancelled, fresh, boots, imports>>
run == <<marker, step, work, clean, resolved>>
vars == <<database, process, run, phase, state, passed>>

All(status) == [s \in Steps |-> status]

NotStarted == [running |-> FALSE, gated |-> FALSE, current |-> 0,
               steps |-> All("none"), lastCheck |-> NoVersion]

Show(s, status) == [state EXCEPT !.current = s, !.steps[s] = status]

-----------------------------------------------------------------------------
(* main.go: boot, shutdown, and what happens around the process.           *)

Boot(v, f) ==
    /\ phase = "down" /\ boots < MaxBoots
    /\ boots' = boots + 1
    /\ version' = v /\ force' = f /\ cancelled' = FALSE
    /\ fresh' = [s \in Steps |-> {}]
    /\ phase' = "booted"
    /\ state' = NotStarted
    /\ UNCHANGED <<database, run, passed, imports>>

Cancel ==
    /\ phase # "down" /\ ~cancelled
    /\ cancelled' = TRUE
    /\ UNCHANGED <<database, run, phase, version, force, state, fresh, passed,
                   boots, imports>>

(* The shutdown joins the run before it closes the database.               *)
Exit ==
    /\ phase = "ended" /\ cancelled
    /\ phase' = "down"
    /\ UNCHANGED <<database, process, run, state, passed>>

Crash ==
    /\ phase # "down"
    /\ phase' = "down"
    /\ UNCHANGED <<database, process, run, state, passed>>

(* Another writer adds old-style documents.  A step that is running may or *)
(* may not come across them.                                               *)
Import(s, p) ==
    /\ imports < MaxImports
    /\ imports' = imports + 1
    /\ p \notin problems[s]
    /\ problems' = [problems EXCEPT ![s] = @ \cup {p}]
    /\ fresh' = [fresh EXCEPT ![s] = @ \cup {p}]
    /\ \/ UNCHANGED work
       \/ phase = "run" /\ s = step /\ work' = work \cup {p}
    /\ UNCHANGED <<lastCheck, phase, version, force, cancelled, marker, step, clean,
                   resolved, state, passed, boots>>

-----------------------------------------------------------------------------
(* Runner.Run.  A cancelled context makes every database call fail.        *)

ReadMarker ==
    /\ phase = "booted" /\ ~cancelled
    /\ marker' = lastCheck
    /\ state' = [NotStarted EXCEPT !.running = TRUE, !.steps = All("pending"),
                                   !.lastCheck = lastCheck]
    /\ phase' = "gate"
    /\ UNCHANGED <<database, process, step, work, clean, resolved, passed>>

MarkerError ==
    /\ phase = "booted"
    /\ phase' = "ended"
    /\ UNCHANGED <<database, process, run, state, passed>>

(* Mutant of Gated: any earlier check will do.                             *)
Gated_AnyVersion == ~force /\ marker # NoVersion

Gated == ~force /\ marker = version

Stop(st) ==
    /\ phase' = "ended"
    /\ state' = [st EXCEPT !.running = FALSE, !.current = 0]

Gate ==
    /\ phase = "gate"
    /\ \/ /\ Gated
          /\ Stop([state EXCEPT !.gated = TRUE, !.steps = All("skipped")])
          /\ UNCHANGED <<step, clean, resolved>>
       \/ /\ ~Gated
          /\ phase' = "check" /\ step' = 1 /\ clean' = TRUE /\ resolved' = {}
          /\ state' = Show(1, "checking")
    /\ UNCHANGED <<database, process, marker, work, passed>>

(* Mutant of Advance: a step that failed is tried again at once.           *)
Advance_Retry(status) ==
    \/ status = "error" /\ phase' = "check" /\ state' = Show(step, "checking")
       /\ UNCHANGED step
    \/ status # "error" /\ step = N /\ phase' = "stamp"
       /\ state' = Show(step, status) /\ UNCHANGED step
    \/ status # "error" /\ step < N /\ phase' = "check" /\ step' = step + 1
       /\ state' = [Show(step, status) EXCEPT !.current = step + 1,
                                              !.steps[step + 1] = "checking"]

(* The step ends with a status, and the next one is begun.                 *)
Advance(status) ==
    \/ /\ step = N
       /\ phase' = "stamp" /\ state' = Show(step, status)
       /\ UNCHANGED step
    \/ /\ step < N
       /\ phase' = "check" /\ step' = step + 1
       /\ state' = [Show(step, status) EXCEPT !.current = step + 1,
                                              !.steps[step + 1] = "checking"]

Check ==
    /\ phase = "check" /\ ~cancelled
    /\ \/ /\ problems[step] = {}
          /\ Advance("skipped")
          /\ resolved' = resolved \cup {step}
          /\ UNCHANGED work
       \/ /\ problems[step] # {}
          /\ phase' = "run" /\ state' = Show(step, "running")
          /\ work' = problems[step]
          /\ UNCHANGED <<step, resolved>>
    /\ UNCHANGED <<database, process, marker, clean, passed>>

Fix(p) ==
    /\ phase = "run" /\ ~cancelled
    /\ p \in work \cap Fixable
    /\ work' = work \ {p}
    /\ problems' = [problems EXCEPT ![step] = @ \ {p}]
    /\ UNCHANGED <<lastCheck, process, phase, marker, step, clean, resolved, state,
                   passed>>

(* Mutant of CleanAfter: only an error makes the run unclean.              *)
CleanAfter_AnyResult == clean

(* A step that leaves problems unresolved keeps the version unstamped.     *)
CleanAfter == clean /\ work = {}

(* The write of the step's history may fail and nobody minds.              *)
RunEnds ==
    /\ phase = "run" /\ ~cancelled
    /\ work \cap Fixable = {}
    /\ clean' = CleanAfter
    /\ resolved' = IF work = {} THEN resolved \cup {step} ELSE resolved
    /\ Advance("done")
    /\ UNCHANGED <<database, process, marker, work, passed>>

(* Mutant of CleanAfterError: the version is stamped all the same.         *)
CleanAfterError_Kept == clean

CleanAfterError == FALSE

StepError ==
    /\ phase \in {"check", "run"}
    /\ clean' = CleanAfterError
    /\ Advance("error")
    /\ UNCHANGED <<database, process, marker, work, resolved, passed>>

(* The dashboard shows the new check before it is written, and keeps it    *)
(* when the write fails.                                                   *)
Stamp ==
    /\ phase = "stamp"
    /\ \/ /\ clean
          /\ Stop([state EXCEPT !.lastCheck = version])
          /\ \/ ~cancelled /\ lastCheck' = version
             \/ UNCHANGED lastCheck
       \/ /\ ~clean
          /\ Stop(state)
          /\ UNCHANGED lastCheck
    /\ passed' = IF resolved = Steps THEN passed \cup {version} ELSE passed
    /\ UNCHANGED <<problems, process, run>>

Init ==
    /\ lastCheck = NoVersion
    /\ problems \in [Steps -> SUBSET Problems]
    /\ phase = "down"
    /\ version \in Versions /\ force = FALSE /\ cancelled = FALSE
    /\ marker = NoVersion /\ step = 1 /\ clean = TRUE /\ work = {}
    /\ state = NotStarted
    /\ fresh = [s \in Steps |-> {}] /\ resolved = {} /\ passed = {}
    /\ boots = 0 /\ imports = 0

Run ==
    \/ ReadMarker \/ MarkerError \/ Gate \/ Check
    \/ \E p \in Problems : Fix(p)
    \/ RunEnds \/ StepError \/ Stamp

Next ==
    \/ Run \/ Cancel \/ Exit \/ Crash
    \/ \E v \in Versions, f \in BOOLEAN : Boot(v, f)
    \/ \E s \in Steps, p \in Problems : Import(s, p)

(* The goroutine of the run is scheduled, and so is the shutdown.          *)
Fairness == WF_vars(Run) /\ WF_vars(Exit)

Spec == Init /\ [][Next]_vars /\ Fairness

-----------------------------------------------------------------------------
(* Properties.                                                             *)

Statuses == {"none", "pending", "checking", "running", "skipped", "done", "error"}

Dashboard ==
    [running : BOOLEAN, gated : BOOLEAN, current : Steps \cup {0},
     steps : [Steps -> Statuses], lastCheck : Versions \cup {NoVersion}]

(* Types of the variables (upgrade.go, State and Runner).                  *)
TypeOK ==
    /\ lastCheck \in Versions \cup {NoVersion}
    /\ problems \in [Steps -> SUBSET Problems]
    /\ phase \in {"down", "booted", "gate", "check", "run", "stamp", "ended"}
    /\ version \in Versions /\ force \in BOOLEAN /\ cancelled \in BOOLEAN
    /\ marker \in Versions \cup {NoVersion}
    /\ step \in Steps /\ work \subseteq Problems /\ clean \in BOOLEAN
    /\ state \in Dashboard
    /\ fresh \in [Steps -> SUBSET Problems]
    /\ resolved \subseteq Steps /\ passed \subseteq Versions
    /\ boots \in Nat /\ imports \in Nat

(* The version in the marker, the one the dashboard shows, and the version *)
(* of a run that skips every step, are of runs in which each step, one     *)
(* after another, found nothing or left nothing: an error, a failed write, *)
(* a shutdown or a crash anywhere has a later boot check again             *)
(* (upgrade.go, the gate and the last check).                              *)
StampIsEarned ==
    /\ lastCheck \in passed \cup {NoVersion}
    /\ state.lastCheck \in passed \cup {NoVersion}
    /\ state.gated => version \in passed

(* When a run is about to stamp its version, what is still wrong with the  *)
(* documents has been written since it was started.                        *)
CleanMeansResolved ==
    phase = "stamp" /\ clean => \A s \in Steps : problems[s] \subseteq fresh[s]

(* Every run ends, whatever fails in it, and a shutdown, which waits for    *)
(* the run before it closes the database, is over at some time (main.go).  *)
EveryRunEnds ==
    /\ phase = "booted" ~> phase \in {"ended", "down"}
    /\ cancelled /\ phase # "down" ~> phase = "down"
=============================================================================
