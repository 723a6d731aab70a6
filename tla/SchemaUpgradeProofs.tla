------------------------ MODULE SchemaUpgradeProofs ------------------------
(***************************************************************************)
(* Proofs about SchemaUpgrade for any number of steps, any problems and    *)
(* any failures.  A stamp is justified by everything the run has seen, so  *)
(* the inductive invariant says at each step what the run knows of the     *)
(* steps before it, and while a step runs, of the problems it has found.   *)
(***************************************************************************)
EXTENDS SchemaUpgrade, TLAPS

(* The marker a run has read was earned.                                   *)
MarkerEarned == phase = "gate" => marker \in passed \cup {NoVersion}

(* A run that is clean so far has resolved every step before this one.     *)
CleanSoFar ==
    clean => /\ phase \in {"check", "run"} => 1 .. step - 1 \subseteq resolved
             /\ phase = "stamp" => resolved = Steps

(* ... and left nothing in them but what has been written since the boot.  *)
NothingOldSoFar ==
    /\ clean /\ phase \in {"check", "run"} =>
          \A s \in 1 .. step - 1 : problems[s] \subseteq fresh[s]
    /\ phase = "run" => problems[step] \subseteq work \cup fresh[step]

IInv == /\ TypeOK /\ StampIsEarned /\ CleanMeansResolved
        /\ MarkerEarned /\ CleanSoFar /\ NothingOldSoFar

-----------------------------------------------------------------------------
(* What the dashboard's writes keep.                                       *)
LEMMA ShowKeeps ==
    ASSUME state \in Dashboard, NEW s \in Steps, NEW st \in Statuses
    PROVE  /\ Show(s, st) \in Dashboard
           /\ Show(s, st).lastCheck = state.lastCheck
           /\ Show(s, st).gated = state.gated
<1>1. Show(s, st) = [state EXCEPT !.current = s, !.steps = [state.steps EXCEPT ![s] = st]]
    BY DEF Show, Dashboard
<1>2. QED
    BY <1>1 DEF Dashboard

(* What the end of a step does, whatever its status.                       *)
LEMMA AdvanceKeeps ==
    ASSUME TypeOK, NEW st \in Statuses, Advance(st)
    PROVE  /\ state' \in Dashboard /\ step' \in Steps
           /\ state'.lastCheck = state.lastCheck /\ state'.gated = state.gated
           /\ \/ step = N /\ phase' = "stamp" /\ step' = step
              \/ step < N /\ phase' = "check" /\ step' = step + 1
<1> USE UpgradeAssumption
<1>1. step \in Steps /\ state \in Dashboard
    BY DEF TypeOK
<1>2. CASE step = N
    BY <1>1, <1>2, ShowKeeps DEF Advance, Steps
<1>3. CASE step < N
    <2>1. step + 1 \in Steps
        BY <1>1, <1>3 DEF Steps
    <2> DEFINE shown == Show(step, st)
    <2>2. /\ shown \in Dashboard /\ shown.lastCheck = state.lastCheck
          /\ shown.gated = state.gated
        BY <1>1, ShowKeeps
    <2>3. /\ state' = [shown EXCEPT !.current = step + 1, !.steps[step + 1] = "checking"]
          /\ phase' = "check" /\ step' = step + 1
        BY <1>3 DEF Advance
    <2> HIDE DEF shown
    <2>4. state' = [shown EXCEPT !.current = step + 1,
                                 !.steps = [shown.steps EXCEPT ![step + 1] = "checking"]]
        BY <2>2, <2>3 DEF Dashboard
    <2>5. state' \in Dashboard
          /\ state'.lastCheck = shown.lastCheck /\ state'.gated = shown.gated
        BY <2>1, <2>2, <2>4 DEF Dashboard, Statuses
    <2>6. QED
        BY <1>3, <2>1, <2>2, <2>3, <2>5
<1>4. QED
    BY <1>1, <1>2, <1>3 DEF Steps

LEMMA InitInv == Init => IInv
<1> SUFFICES ASSUME Init PROVE IInv
    OBVIOUS
<1> USE UpgradeAssumption
<1>1. NotStarted \in Dashboard
    BY DEF NotStarted, Dashboard, Statuses, All
<1>2. 1 \in Steps /\ [s \in Steps |-> {}] \in [Steps -> SUBSET Problems]
    BY DEF Steps
<1>3. TypeOK
    BY <1>1, <1>2 DEF Init, TypeOK
<1>4. QED
    BY <1>3 DEF Init, IInv, StampIsEarned, CleanMeansResolved, MarkerEarned, CleanSoFar,
                NothingOldSoFar, NotStarted

-----------------------------------------------------------------------------
(* The process around the run, and other writers.                          *)
LEMMA ProcessInv ==
    ASSUME IInv,
           \/ \E v \in Versions, f \in BOOLEAN : Boot(v, f)
           \/ Cancel \/ Exit \/ Crash
           \/ \E s \in Steps, p \in Problems : Import(s, p)
    PROVE  IInv'
<1> USE UpgradeAssumption
<1>1. ASSUME NEW v \in Versions, NEW f \in BOOLEAN, Boot(v, f) PROVE IInv'
    <2>1. NotStarted \in Dashboard
        BY DEF NotStarted, Dashboard, Statuses, All
    <2>2. [s \in Steps |-> {}] \in [Steps -> SUBSET Problems]
        OBVIOUS
    <2>3. force' \in BOOLEAN /\ cancelled' \in BOOLEAN
        BY <1>1, Zenon DEF Boot
    <2>4. /\ phase' = "booted" /\ version' \in Versions /\ boots' = boots + 1
          /\ state' \in Dashboard /\ fresh' \in [Steps -> SUBSET Problems]
          /\ UNCHANGED <<database, run, passed, imports>>
        BY <1>1, <2>1, <2>2, Zenon DEF Boot
    <2>5. TypeOK'
        BY <2>3, <2>4 DEF IInv, TypeOK, run, database
    <2>6. QED
        BY <1>1, <2>5 DEF Boot, IInv, StampIsEarned, CleanMeansResolved, MarkerEarned,
                          CleanSoFar, NothingOldSoFar, NotStarted, database, run
<1>2. CASE Cancel \/ Exit \/ Crash
    <2>1. /\ phase' = phase \/ phase' = "down"
          /\ cancelled' = cancelled \/ cancelled' = TRUE
          /\ UNCHANGED <<database, run, version, force, fresh, boots, imports, state, passed>>
        BY <1>2 DEF Cancel, Exit, Crash, process
    <2>2. QED
        BY <2>1 DEF IInv, TypeOK, StampIsEarned, CleanMeansResolved, MarkerEarned,
                      CleanSoFar, NothingOldSoFar, database, run
<1>3. ASSUME NEW s \in Steps, NEW p \in Problems, Import(s, p) PROVE IInv'
    <2>1. /\ problems' = [problems EXCEPT ![s] = @ \cup {p}]
          /\ fresh' = [fresh EXCEPT ![s] = @ \cup {p}]
          /\ work \subseteq work' /\ work' \subseteq work \cup {p}
          /\ UNCHANGED <<lastCheck, phase, version, force, cancelled, marker, step,
                         clean, resolved, state, passed, boots>>
          /\ imports' = imports + 1
        BY <1>3 DEF Import
    <2>2. TypeOK'
        BY <2>1 DEF IInv, TypeOK
    <2>3. \A t \in Steps : problems[t] \subseteq fresh[t] => problems'[t] \subseteq fresh'[t]
        BY <2>1 DEF IInv, TypeOK
    <2>4. \A t \in Steps : problems[t] \subseteq work \cup fresh[t]
                             => problems'[t] \subseteq work' \cup fresh'[t]
        BY <2>1 DEF IInv, TypeOK
    <2>5. step \in Steps /\ 1 .. step - 1 \subseteq Steps
        BY DEF IInv, TypeOK, Steps
    <2>6. NothingOldSoFar'
        BY <2>1, <2>3, <2>4, <2>5 DEF IInv, NothingOldSoFar
    <2>7. QED
        BY <2>1, <2>2, <2>3, <2>6 DEF IInv, StampIsEarned, CleanMeansResolved, MarkerEarned,
                                      CleanSoFar
<1>4. QED
    BY <1>1, <1>2, <1>3

(* The gate: what the run reads, and whether it goes on.                   *)
LEMMA GateInv ==
    ASSUME IInv, ReadMarker \/ MarkerError \/ Gate
    PROVE  IInv'
<1> USE UpgradeAssumption
<1>1. CASE ReadMarker
    <2>1. state' = [running |-> TRUE, gated |-> FALSE, current |-> 0,
                    steps |-> All("pending"), lastCheck |-> lastCheck]
        BY <1>1 DEF ReadMarker, NotStarted
    <2>2. state' \in Dashboard
        BY <2>1 DEF IInv, TypeOK, Dashboard, Statuses, All
    <2>3. TypeOK'
        BY <1>1, <2>2 DEF ReadMarker, IInv, TypeOK, database, process
    <2>4. state'.lastCheck = lastCheck /\ state'.gated = FALSE
        BY <2>1
    <2>5. /\ phase' = "gate" /\ marker' = lastCheck
          /\ UNCHANGED <<database, process, step, work, clean, resolved, passed>>
        BY <1>1 DEF ReadMarker
    <2>6. QED
        BY <2>3, <2>4, <2>5
        DEF IInv, StampIsEarned, CleanMeansResolved, MarkerEarned, CleanSoFar,
            NothingOldSoFar, database, process
<1>2. CASE MarkerError
    BY <1>2 DEF MarkerError, IInv, TypeOK, StampIsEarned, CleanMeansResolved,
                MarkerEarned, CleanSoFar, NothingOldSoFar, database, process, run
<1>3. CASE Gate /\ Gated
    <2>1. state' = [state EXCEPT !.gated = TRUE, !.steps = All("skipped"),
                                 !.running = FALSE, !.current = 0]
        BY <1>3 DEF Gate, Stop, IInv, TypeOK, Dashboard
    <2>2. state' \in Dashboard /\ state'.lastCheck = state.lastCheck
        BY <2>1 DEF IInv, TypeOK, Dashboard, Statuses, All
    <2>3. version \in passed
        BY <1>3 DEF Gate, Gated, IInv, TypeOK, MarkerEarned
    <2>4. TypeOK'
        BY <1>3, <2>2 DEF Gate, Stop, IInv, TypeOK, database, process
    <2>5. QED
        BY <1>3, <2>2, <2>3, <2>4
        DEF Gate, Stop, IInv, StampIsEarned, CleanMeansResolved, MarkerEarned, CleanSoFar,
            NothingOldSoFar, database, process
<1>4. CASE Gate /\ ~Gated
    <2>1. 1 \in Steps /\ 1 .. 1 - 1 = {}
        BY DEF Steps
    <2>2. /\ state' \in Dashboard /\ state'.lastCheck = state.lastCheck
          /\ state'.gated = state.gated
        BY <1>4, <2>1, ShowKeeps DEF Gate, IInv, TypeOK, Statuses
    <2>3. /\ phase' = "check" /\ step' = 1 /\ clean' = TRUE /\ resolved' = {}
          /\ UNCHANGED <<database, process, marker, work, passed>>
        BY <1>4 DEF Gate
    <2>4. TypeOK'
        BY <2>1, <2>2, <2>3 DEF IInv, TypeOK, database, process
    <2>5. QED
        BY <2>1, <2>2, <2>3, <2>4
        DEF IInv, StampIsEarned, CleanMeansResolved, MarkerEarned, CleanSoFar,
            NothingOldSoFar, database, process
<1>5. QED
    BY <1>1, <1>2, <1>3, <1>4

(* The steps.  The end of one carries what is known to the next.           *)
LEMMA StepInv ==
    ASSUME IInv, Check \/ RunEnds \/ StepError \/ \E p \in Problems : Fix(p)
    PROVE  IInv'
<1> USE UpgradeAssumption
<1>0. step \in Steps /\ 1 .. step - 1 \subseteq Steps
    BY DEF IInv, TypeOK, Steps
<1>1. ASSUME NEW st \in Statuses, Advance(st), phase \in {"check", "run"},
             UNCHANGED <<database, process, marker, work, passed>>,
             clean' \in BOOLEAN, clean' => clean,
             resolved \subseteq resolved', resolved' \subseteq resolved \cup {step},
             clean' => step \in resolved' /\ problems[step] \subseteq fresh[step]
      PROVE  IInv'
    <2>1. /\ state' \in Dashboard /\ step' \in Steps
          /\ state'.lastCheck = state.lastCheck /\ state'.gated = state.gated
          /\ \/ step = N /\ phase' = "stamp" /\ step' = step
             \/ step < N /\ phase' = "check" /\ step' = step + 1
        BY <1>1, AdvanceKeeps DEF IInv
    <2>2. TypeOK'
        BY <1>0, <1>1, <2>1 DEF IInv, TypeOK, database, process
    <2>3. StampIsEarned' /\ MarkerEarned'
        BY <1>1, <2>1 DEF IInv, StampIsEarned, MarkerEarned, database, process
    <2>4. clean' => /\ 1 .. step \subseteq resolved'
                    /\ \A s \in 1 .. step : problems[s] \subseteq fresh[s]
        <3> SUFFICES ASSUME clean', NEW s \in 1 .. step
                     PROVE  s \in resolved' /\ problems[s] \subseteq fresh[s]
            BY Zenon
        <3>1. s = step \/ s \in 1 .. step - 1
            BY <1>0 DEF Steps
        <3>2. QED
            BY <1>1, <3>1 DEF IInv, CleanSoFar, NothingOldSoFar
    <2>5. step = N => 1 .. step = Steps
        BY DEF Steps
    <2>6. step' = step + 1 => 1 .. step' - 1 = 1 .. step
        BY <1>0 DEF Steps
    <2>7. problems' = problems /\ fresh' = fresh
        BY <1>1 DEF database, process
    <2>8. CleanSoFar' /\ CleanMeansResolved' /\ NothingOldSoFar'
        BY <2>1, <2>2, <2>4, <2>5, <2>6, <2>7
        DEF CleanSoFar, CleanMeansResolved, NothingOldSoFar, TypeOK
    <2>9. QED
        BY <2>2, <2>3, <2>8 DEF IInv
<1>2. CASE Check
    <2>1. CASE problems[step] = {}
        BY <1>1, <1>2, <2>1 DEF Check, Statuses, IInv, TypeOK
    <2>2. CASE problems[step] # {}
        <3>1. /\ state' \in Dashboard /\ state'.lastCheck = state.lastCheck
              /\ state'.gated = state.gated
            BY <1>0, <1>2, <2>2, ShowKeeps DEF Check, IInv, TypeOK, Statuses
        <3>2. /\ phase = "check" /\ phase' = "run" /\ work' = problems[step]
              /\ UNCHANGED <<step, resolved, database, process, marker, clean, passed>>
            BY <1>2, <2>2 DEF Check
        <3>3. TypeOK'
            BY <1>0, <3>1, <3>2 DEF IInv, TypeOK, database, process
        <3>4. QED
            BY <3>1, <3>2, <3>3
            DEF IInv, StampIsEarned, CleanMeansResolved, MarkerEarned, CleanSoFar,
                NothingOldSoFar, database, process
    <2>3. QED
        BY <2>1, <2>2
<1>3. CASE RunEnds
    <2>1. clean' => clean /\ work = {}
        BY <1>3 DEF RunEnds, CleanAfter
    <2>2. problems[step] \subseteq work \cup fresh[step]
        BY <1>3 DEF RunEnds, IInv, NothingOldSoFar
    <2>3. QED
        BY <1>1, <1>3, <2>1, <2>2 DEF RunEnds, CleanAfter, Statuses, IInv, TypeOK
<1>4. CASE StepError
    BY <1>1, <1>4 DEF StepError, CleanAfterError, Statuses, IInv, TypeOK
<1>5. ASSUME NEW p \in Problems, Fix(p) PROVE IInv'
    <2>1. /\ phase = "run" /\ work' = work \ {p}
          /\ problems' = [problems EXCEPT ![step] = @ \ {p}]
          /\ UNCHANGED <<lastCheck, process, phase, marker, step, clean, resolved, state,
                         passed>>
        BY <1>5 DEF Fix
    <2>2. TypeOK'
        BY <2>1 DEF IInv, TypeOK, process
    <2>3. \A s \in Steps : problems'[s] \subseteq problems[s]
        BY <2>1 DEF IInv, TypeOK
    <2>4. problems'[step] \subseteq work' \cup fresh[step]
        BY <1>0, <2>1 DEF IInv, TypeOK, NothingOldSoFar
    <2>5. NothingOldSoFar'
        BY <1>0, <2>1, <2>3, <2>4 DEF IInv, NothingOldSoFar, process
    <2>6. QED
        BY <2>1, <2>2, <2>5 DEF IInv, StampIsEarned, CleanMeansResolved, MarkerEarned,
                                CleanSoFar, process
<1>6. QED
    BY <1>2, <1>3, <1>4, <1>5

LEMMA StampInv ==
    ASSUME IInv, Stamp
    PROVE  IInv'
<1> USE UpgradeAssumption
<1>1. /\ phase = "stamp" /\ phase' = "ended"
      /\ UNCHANGED <<problems, process, run>>
      /\ passed' = IF resolved = Steps THEN passed \cup {version} ELSE passed
    BY DEF Stamp, Stop
<1>2. clean => passed' = passed \cup {version}
    BY <1>1 DEF IInv, CleanSoFar
<1>3. /\ state' \in Dashboard /\ state'.gated = state.gated
      /\ \/ clean /\ state'.lastCheck = version
         \/ state'.lastCheck = state.lastCheck
      /\ lastCheck' = lastCheck \/ (clean /\ lastCheck' = version)
    <2>1. state \in Dashboard /\ version \in Versions
        BY DEF IInv, TypeOK
    <2>2. CASE clean
        <3>1. state' = [[state EXCEPT !.lastCheck = version] EXCEPT !.running = FALSE,
                                                                   !.current = 0]
            BY <2>2 DEF Stamp, Stop
        <3>2. QED
            BY <2>1, <2>2, <3>1 DEF Dashboard, Stamp
    <2>3. CASE ~clean
        <3>1. state' = [state EXCEPT !.running = FALSE, !.current = 0]
            BY <2>3 DEF Stamp, Stop
        <3>2. QED
            BY <2>1, <2>3, <3>1 DEF Dashboard, Stamp
    <2>4. QED
        BY <2>2, <2>3
<1>4. TypeOK'
    BY <1>1, <1>3 DEF IInv, TypeOK, process, run
<1>5. StampIsEarned'
    BY <1>1, <1>2, <1>3 DEF IInv, StampIsEarned, process
<1>6. QED
    BY <1>1, <1>4, <1>5 DEF IInv, CleanMeansResolved, MarkerEarned, CleanSoFar,
                            NothingOldSoFar

LEMMA NextInv == IInv /\ [Next]_vars => IInv'
<1> SUFFICES ASSUME IInv, [Next]_vars PROVE IInv'
    OBVIOUS
<1>1. CASE Next
    <2>1. CASE Run
        BY <2>1, GateInv, StepInv, StampInv DEF Run
    <2>2. QED
        BY <1>1, <2>1, ProcessInv DEF Next
<1>2. CASE UNCHANGED vars
    BY <1>2 DEF vars, database, process, run, IInv, TypeOK, StampIsEarned,
                CleanMeansResolved, MarkerEarned, CleanSoFar, NothingOldSoFar
<1>3. QED
    BY <1>1, <1>2

-----------------------------------------------------------------------------
(* The strengthening of what follows is an invariant of the runner.        *)
THEOREM Inductive == Spec => []IInv
<1>1. QED
    BY InitInv, NextInv, PTL DEF Spec

(* The variables have their types.                                         *)
THEOREM TypeCorrect == Spec => []TypeOK
<1>1. IInv => TypeOK
    BY DEF IInv
<1>2. QED
    BY <1>1, Inductive, PTL

(* No version is stamped, shown as stamped or skipped over unless one run  *)
(* of it resolved every step (upgrade.go, the gate and the last check).    *)
THEOREM StampsAreEarned == Spec => []StampIsEarned
<1>1. IInv => StampIsEarned
    BY DEF IInv
<1>2. QED
    BY <1>1, Inductive, PTL

(* A run that may stamp has left nothing that was there when it began.     *)
THEOREM CleanRunsResolve == Spec => []CleanMeansResolved
<1>1. IInv => CleanMeansResolved
    BY DEF IInv
<1>2. QED
    BY <1>1, Inductive, PTL
=============================================================================
