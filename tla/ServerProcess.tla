---------------------------- MODULE ServerProcess ----------------------------
(***************************************************************************)
(* The whole process (main.go): what it starts, in which order, and how    *)
(* the deferred calls end it in the reverse order, with the reporters,     *)
(* the schema upgrade and the requests that use the database meanwhile.    *)
(*                                                                         *)
(* The usage reporter is module UsageReporter.  Of the security reporter   *)
(* (internal/eventlog/security.go) this module has the admission of an     *)
(* event, its two independent effects, and Close.                          *)
(***************************************************************************)
EXTENDS UsageReporter, Sequences, SequencesExt

CONSTANTS
    Handlers,      \* goroutines that serve requests, one request each
    Configurations \* the parts that may be left out together

(* What the flags and the address of the database may leave out.          *)
ASSUME ProcessAssumption == Configurations \subseteq SUBSET {"database", "upgrade"}

VARIABLES
    main,      \* starting, serving, unwinding or exited
    deferred,  \* the stack of deferred calls
    called,    \* the last of them has begun
    skipped,   \* what this configuration does without
    cancelled, \* the context of the process is done
    handler,   \* new, running or ended
    reported,  \* handlers that have recorded a security event
    effects,   \* handlers whose admitted event has effects that have not ended
    refusing,  \* the security reporter is closed
    upgrade,   \* none, running or ended
    connected, \* the client of the database is connected
    storage,   \* the embedded database, or the external one, is there
    overrun,   \* history: the server's shutdown gave up on a request
    dropped    \* history: a report was ignored before that

process == <<main, deferred, called, skipped, cancelled, handler, reported, effects,
             refusing, upgrade, connected, storage, overrun, dropped>>
allVars == <<vars, process>>

-----------------------------------------------------------------------------
(* Starting.                                                               *)

(* Mutant of StartOrder: the server is there before the reporters.         *)
StartOrder_ServerFirst ==
    <<"database", "client", "server", "usage", "security", "transport", "upgrade">>

(* Each of these defers a call when it has succeeded.                      *)
StartOrder == <<"database", "client", "usage", "security", "server", "transport", "upgrade">>

(* An external database is not started, and the upgrade can be left out.   *)
ToStart == {i \in DOMAIN StartOrder : StartOrder[i] \notin skipped \cup ToSet(deferred)}

Start ==
    /\ main = "starting" /\ ToStart # {}
    /\ LET c == StartOrder[Min(ToStart)]
       IN /\ deferred' = Append(deferred, c)
          /\ connected' = (connected \/ c = "client")
          /\ storage' = (storage \/ c = "database")
          /\ upgrade' = IF c = "upgrade" THEN "running" ELSE upgrade
    /\ UNCHANGED <<vars, main, called, skipped, cancelled, handler, reported, effects,
                   refusing, overrun, dropped>>

(* An error of any of them (the ping of the database ends when the process *)
(* is cancelled), and the run of one migration from the command line.      *)
StartFails ==
    /\ main = "starting"
    /\ main' = "unwinding"
    /\ UNCHANGED <<vars, deferred, called, skipped, cancelled, handler, reported, effects,
                   refusing, upgrade, connected, storage, overrun, dropped>>

Started ==
    /\ main = "starting" /\ ToStart = {}
    /\ main' = "serving"
    /\ UNCHANGED <<vars, deferred, called, skipped, cancelled, handler, reported, effects,
                   refusing, upgrade, connected, storage, overrun, dropped>>

-----------------------------------------------------------------------------
(* While it runs.                                                          *)

(* SIGINT or SIGTERM; once main leaves, it has no one left to tell.        *)
Signal ==
    /\ main \in {"starting", "serving"} /\ ~cancelled
    /\ cancelled' = TRUE
    /\ UNCHANGED <<vars, main, deferred, called, skipped, handler, reported, effects,
                   refusing, upgrade, connected, storage, overrun, dropped>>

(* The select at the end of run: a signal, or the server has failed.       *)
Leave ==
    /\ main = "serving"
    /\ main' = "unwinding"
    /\ UNCHANGED <<vars, deferred, called, skipped, cancelled, handler, reported, effects,
                   refusing, upgrade, connected, storage, overrun, dropped>>

Ending(c) == deferred # <<>> /\ Last(deferred) = c /\ called
Accepting == "server" \in ToSet(deferred) /\ ~Ending("server")

Serve(h) ==
    /\ Accepting /\ handler[h] = "new"
    /\ handler' = [handler EXCEPT ![h] = "running"]
    /\ UNCHANGED <<vars, main, deferred, called, skipped, cancelled, reported, effects,
                   refusing, upgrade, connected, storage, overrun, dropped>>

EndRequest(h) ==
    /\ handler[h] = "running"
    /\ handler' = [handler EXCEPT ![h] = "ended"]
    /\ UNCHANGED <<vars, main, deferred, called, skipped, cancelled, reported, effects,
                   refusing, upgrade, connected, storage, overrun, dropped>>

Drops(ignored) == dropped' = (dropped \/ (ignored /\ ~overrun))

Report(h, k) ==
    /\ handler[h] = "running"
    /\ Add(k) /\ Drops(Ignored)
    /\ UNCHANGED <<main, deferred, called, skipped, cancelled, handler, reported, effects,
                   refusing, upgrade, connected, storage, overrun>>

(* Mutant of Refusing: events are admitted for ever.                       *)
Refusing_Never == FALSE

Refusing == refusing

(* The two effects, the row of the event log and the block of the account, *)
(* are added to the wait group before the lock is released.                *)
Record(h) ==
    /\ handler[h] = "running" /\ h \notin reported
    /\ reported' = reported \cup {h}
    /\ effects' = IF Refusing THEN effects ELSE effects \cup {h}
    /\ Drops(Refusing)
    /\ UNCHANGED <<vars, main, deferred, called, skipped, cancelled, handler,
                   refusing, upgrade, connected, storage, overrun>>

(* Both effects are done, have failed, panicked, or run out of their five  *)
(* seconds.                                                                *)
EffectsEnd(h) ==
    /\ h \in effects
    /\ effects' = effects \ {h}
    /\ UNCHANGED <<vars, main, deferred, called, skipped, cancelled, handler, reported,
                   refusing, upgrade, connected, storage, overrun, dropped>>

UpgradeEnds ==
    /\ upgrade = "running"
    /\ upgrade' = "ended"
    /\ UNCHANGED <<vars, main, deferred, called, skipped, cancelled, handler, reported, effects,
                   refusing, connected, storage, overrun, dropped>>

-----------------------------------------------------------------------------
(* Ending: the deferred calls, the last one first.                         *)

Call ==
    /\ main = "unwinding" /\ deferred # <<>> /\ ~called
    /\ called' = TRUE
    /\ IF Last(deferred) = "usage" THEN Close ELSE UNCHANGED vars
    /\ refusing' = (refusing \/ Last(deferred) = "security")
    /\ UNCHANGED <<main, deferred, skipped, cancelled, handler, reported, effects,
                   upgrade, connected, storage, overrun, dropped>>

Running == {h \in Handlers : handler[h] = "running"}

(* What a deferred call waits for.  The server's shutdown gives up after   *)
(* ten seconds, the disconnection of the client after five.                *)
Returns(c) ==
    CASE c = "upgrade"  -> upgrade = "ended"
      [] c = "security" -> effects = {}
      [] c = "usage"    -> CloseReturns
      [] OTHER          -> TRUE

Return ==
    /\ main = "unwinding" /\ called /\ Returns(Last(deferred))
    /\ LET c == Last(deferred)
       IN /\ overrun' = (overrun \/ (c = "server" /\ Running # {}))
          /\ connected' = (connected /\ c # "client")
          /\ storage' = (storage /\ c # "database")
    /\ deferred' = Front(deferred) /\ called' = FALSE
    /\ UNCHANGED <<vars, main, skipped, cancelled, handler, reported, effects,
                   refusing, upgrade, dropped>>

Exit ==
    /\ main = "unwinding" /\ deferred = <<>>
    /\ main' = "exited"
    /\ UNCHANGED <<vars, deferred, called, skipped, cancelled, handler, reported, effects,
                   refusing, upgrade, connected, storage, overrun, dropped>>

Worker == OnStop \/ OnWake \/ TimerFires \/ OnTick \/ Flushing
WorkerSteps == Worker /\ UNCHANGED process

ProcessInit ==
    /\ Init
    /\ main = "starting" /\ deferred = <<>> /\ called = FALSE /\ cancelled = FALSE
    /\ skipped \in Configurations
    /\ handler = [h \in Handlers |-> "new"]
    /\ reported = {} /\ effects = {} /\ refusing = FALSE
    /\ upgrade = "none" /\ connected = FALSE /\ storage = ("database" \in skipped)
    /\ overrun = FALSE /\ dropped = FALSE

ProcessNext ==
    \/ main # "exited" /\
         \/ Start \/ StartFails \/ Started \/ Signal \/ Leave \/ UpgradeEnds
         \/ \E h \in Handlers : \/ Serve(h) \/ EndRequest(h) \/ Record(h)
                                \/ \E k \in Keys : Report(h, k)
         \/ \E h \in effects : EffectsEnd(h)
         \/ Call \/ Return \/ Exit
    \/ WorkerSteps

(* The main goroutine goes on, and leaves when it is told to; deadlines    *)
(* end the effects and the context of the upgrade, which is cancelled with *)
(* the process or by its deferred call, ends the upgrade.                  *)
ProcessFairness ==
    /\ WF_allVars(Start) /\ WF_allVars(Started) /\ WF_allVars(cancelled /\ Leave)
    /\ WF_allVars(Call) /\ WF_allVars(Return) /\ WF_allVars(Exit)
    /\ WF_allVars(\E h \in effects : EffectsEnd(h))
    /\ WF_allVars((cancelled \/ Ending("upgrade")) /\ UpgradeEnds)
    /\ WF_allVars(Flushing /\ UNCHANGED process) /\ WF_allVars(TimerFires /\ UNCHANGED process)
    /\ SF_allVars(OnStop /\ UNCHANGED process) /\ SF_allVars(OnWake /\ UNCHANGED process)
    /\ SF_allVars(OnTick /\ UNCHANGED process)

ProcessSpec == ProcessInit /\ [][ProcessNext]_allVars /\ ProcessFairness
-----------------------------------------------------------------------------
(* What uses the database has ended before the client is disconnected and  *)
(* the storage closed: the upgrade, the effects of the security events and *)
(* the usage worker; only requests that outlive the server's shutdown may  *)
(* still be running.  Unless one does, no report is ignored: the reporters *)
(* are closed after the server (main.go, the order of the deferred calls). *)
ShutdownInOrder ==
    /\ "client" \notin ToSet(deferred) /\ main # "starting" =>
         /\ effects = {} /\ upgrade # "running" /\ ~connected
         /\ closed => worker = "done"
         /\ Running # {} => overrun
    /\ connected => storage
    /\ ~dropped

(* A process that is told to stop, or cannot go on, exits.                 *)
ShutdownEnds == cancelled \/ main = "unwinding" ~> main = "exited"

(* Both: nothing that has begun hangs, a call on its way to the event log  *)
(* as little as the shutdown (usage.go, run and Close; main.go).           *)
NothingHangs == EveryCallFlushed /\ ShutdownEnds
=============================================================================
