---------------------------- MODULE UsageReporter ----------------------------
(***************************************************************************)
(* API usage reporting (internal/eventlog/usage.go and reporter.go).       *)
(* Request handlers add calls to an accumulator; one worker goroutine      *)
(* drains it, some time after a first call, when it has grown large, or    *)
(* when the reporter is closed, and folds its rows into the event log.     *)
(* Handlers that are still running when it has been closed may call Add    *)
(* later; module ServerProcess has the application around it.              *)
(***************************************************************************)
EXTENDS Naturals, FiniteSetsExt

CONSTANTS
    Keys,         \* pairs of a user and a route
    MaxTracked,   \* rows the accumulator has room for
    FlushSize,    \* rows that are flushed without waiting
    MaxCalls      \* bound: calls of Add for each key

ASSUME ReporterAssumption ==
    /\ IsFiniteSet(Keys)
    /\ MaxTracked \in Nat \ {0} /\ FlushSize \in Nat \ {0} /\ MaxCalls \in Nat

VARIABLES
    calls,      \* calls[k]: how often Add was called
    pending,    \* pending[k]: the count of the row of k, 0 without a row
    overflow,   \* calls that found no room for a row
    wake,       \* the channel of capacity one
    timer,      \* off, armed, or fired: its channel holds a tick
    closed,     \* Close was called, and the stop channel is closed
    worker,     \* select, flush, folding, or done
    final,      \* the flush under way is the last
    batch,      \* the rows drained and not folded, with their counts
    admitted,   \* history: calls that Add did not ignore
    finished    \* history: calls in rows that were folded or given up

accumulator == <<pending, overflow>>
vars == <<calls, accumulator, wake, timer, closed, worker, final, batch,
          admitted, finished>>

InRows == {k \in Keys : pending[k] > 0}
Size == Cardinality(InRows)

Empty == [k \in Keys |-> 0]

-----------------------------------------------------------------------------
(* The accumulator.                                                        *)

(* Mutant of Full: one row too many.                                       *)
Full_Late == Size > MaxTracked

Full == Size >= MaxTracked

Count(k) ==
    \/ /\ k \in InRows \/ ~Full
       /\ pending' = [pending EXCEPT ![k] = @ + 1]
       /\ UNCHANGED overflow
    \/ /\ k \notin InRows /\ Full
       /\ overflow' = overflow + 1
       /\ UNCHANGED pending

(* Mutant of Ignored: calls are accepted for ever.                         *)
Ignored_Never == FALSE

Ignored == closed

(* The send on wake never blocks: a token that is there says enough.       *)
Add(k) ==
    /\ calls[k] < MaxCalls
    /\ calls' = [calls EXCEPT ![k] = @ + 1]
    /\ \/ Ignored /\ UNCHANGED <<accumulator, wake, admitted>>
       \/ ~Ignored /\ Count(k) /\ wake' = TRUE /\ admitted' = admitted + 1
    /\ UNCHANGED <<timer, closed, worker, final, batch, finished>>

-----------------------------------------------------------------------------
(* The worker.                                                             *)

OnStop ==
    /\ worker = "select" /\ closed
    /\ worker' = "flush"
    /\ final' = TRUE
    /\ UNCHANGED <<calls, accumulator, wake, timer, closed, batch, admitted, finished>>

Armed == IF timer = "off" THEN "armed" ELSE timer

OnWake ==
    /\ worker = "select" /\ wake
    /\ wake' = FALSE
    /\ \/ Size >= FlushSize /\ worker' = "flush" /\ UNCHANGED timer
       \/ Size < FlushSize /\ timer' = Armed /\ UNCHANGED worker
    /\ UNCHANGED <<calls, accumulator, closed, final, batch, admitted, finished>>

TimerFires ==
    /\ timer = "armed"
    /\ timer' = "fired"
    /\ UNCHANGED <<calls, accumulator, wake, closed, worker, final, batch, admitted, finished>>

(* Mutant of TimerAfterTick: the timer that has fired is kept.             *)
TimerAfterTick_Kept == "stopped"

TimerAfterTick == "off"

OnTick ==
    /\ worker = "select" /\ timer = "fired"
    /\ timer' = TimerAfterTick
    /\ worker' = "flush"
    /\ UNCHANGED <<calls, accumulator, wake, closed, final, batch, admitted, finished>>

(* Mutant of OverflowAfterDrain: the overflow is reported again.           *)
OverflowAfterDrain_Kept == overflow

OverflowAfterDrain == 0

(* Drain hands all the rows over, the overflow as a row of its own.        *)
Drain ==
    /\ worker = "flush"
    /\ batch' = [rows |-> pending, overflow |-> overflow]
    /\ pending' = Empty
    /\ overflow' = OverflowAfterDrain
    /\ worker' = "folding"
    /\ UNCHANGED <<calls, wake, timer, closed, final, admitted, finished>>

InBatch == SumFunction(batch.rows) + batch.overflow

(* One row is folded.                                                      *)
Fold ==
    /\ worker = "folding"
    /\ \/ \E k \in Keys :
            /\ batch.rows[k] > 0
            /\ finished' = finished + batch.rows[k]
            /\ batch' = [batch EXCEPT !.rows[k] = 0]
       \/ /\ batch.rows = Empty /\ batch.overflow > 0
          /\ finished' = finished + batch.overflow
          /\ batch' = [batch EXCEPT !.overflow = 0]
    /\ UNCHANGED <<calls, accumulator, wake, timer, closed, worker, final, admitted>>

(* The names cannot be read, a row cannot be folded, or the five seconds   *)
(* are over: the rest of the batch is lost.                                *)
GiveUp ==
    /\ worker = "folding" /\ InBatch > 0
    /\ finished' = finished + InBatch
    /\ batch' = [rows |-> Empty, overflow |-> 0]
    /\ UNCHANGED <<calls, accumulator, wake, timer, closed, worker, final, admitted>>

(* Mutant of AfterFlush: the worker goes on.                               *)
AfterFlush_Select == "select"

AfterFlush == IF final THEN "done" ELSE "select"

FlushEnds ==
    /\ worker = "folding" /\ InBatch = 0
    /\ worker' = AfterFlush
    /\ UNCHANGED <<calls, accumulator, wake, timer, closed, final, batch, admitted, finished>>

-----------------------------------------------------------------------------
(* The application.                                                        *)

Close ==
    /\ closed' = TRUE
    /\ UNCHANGED <<calls, accumulator, wake, timer, worker, final, batch, admitted, finished>>

(* Mutant of CloseReturns: Close does not wait for the worker.             *)
CloseReturns_AtOnce == closed

CloseReturns == closed /\ worker = "done"

Init ==
    /\ calls = Empty
    /\ pending = Empty /\ overflow = 0
    /\ wake = FALSE /\ timer = "off" /\ closed = FALSE
    /\ worker = "select" /\ final = FALSE
    /\ batch = [rows |-> Empty, overflow |-> 0]
    /\ admitted = 0 /\ finished = 0

Flushing == Drain \/ Fold \/ GiveUp \/ FlushEnds

Next ==
    \/ \E k \in Keys : Add(k)
    \/ OnStop \/ OnWake \/ TimerFires \/ OnTick \/ Flushing
    \/ Close

(* A flush is bounded by its deadline, timers fire, and select chooses     *)
(* among the ready channels at random, so that none is ignored for ever.   *)
Fairness ==
    /\ WF_vars(Flushing) /\ WF_vars(TimerFires)
    /\ SF_vars(OnStop) /\ SF_vars(OnWake) /\ SF_vars(OnTick)

Spec == Init /\ [][Next]_vars /\ Fairness
-----------------------------------------------------------------------------
(* Every call that Add admitted is in one place: in the accumulator, which *)
(* has no more rows than its limit, in the batch, or finished.  None is    *)
(* counted twice and none disappears between a handler and the worker,     *)
(* tracked or not, and none is left behind when the worker has ended.      *)
CallsConserved ==
    /\ Size <= MaxTracked
    /\ admitted = SumFunction(pending) + overflow + InBatch + finished
    /\ worker = "done" => finished = admitted

(* Every admitted call leaves the accumulator, without a further call to   *)
(* push it: the one token of wake and the one timer are enough.            *)
EveryCallFlushed ==
    \A k \in Keys : k \in InRows ~> k \notin InRows
=============================================================================
