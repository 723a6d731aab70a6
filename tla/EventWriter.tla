----------------------------- MODULE EventWriter -----------------------------
(***************************************************************************)
(* The event log's writer (internal/eventlog/writer.go and summary.go).    *)
(* Occurrences of one kind share a row, which counts them and remembers    *)
(* up to MaxActors actors; further actors only count as overflow.  Which   *)
(* actors are known is decided by the writer, from a cache that a gate     *)
(* serializes, and not by the database, which applies each update as it    *)
(* comes.  Fold gives up after its deadline; what becomes of the update    *)
(* it has sent is up to the database.                                      *)
(***************************************************************************)
EXTENDS Integers, FiniteSets, SequencesExt

CONSTANTS
    Rows,            \* identities of events
    Actors,          \* actor keys
    Folds,           \* calls of Fold
    RowOf, ActorsOf, \* the row of a call, and its actors in order
    MaxActors, MaxCachedRows,
    NoOne            \* the gate holds no token

ASSUME WriterAssumption ==
    /\ IsFiniteSet(Actors)
    /\ RowOf \in [Folds -> Rows]
    /\ ActorsOf \in [Folds -> Seq(Actors)]
    /\ \A f \in Folds : IsInjective(ActorsOf[f])
    /\ MaxActors \in Nat \ {0} /\ MaxCachedRows \in Nat \ {0}
    /\ NoOne \notin Folds

VARIABLES
    gate,         \* the call whose token is in the channel, or NoOne
    phase,        \* where each call is
    knownActors,  \* the cache: what the writer believes of some rows
    known,        \* the actors a call goes by
    updates,      \* updates[f]: none, under way, applied or failed
    count,        \* count[r]: occurrences the row counts
    actors,       \* actors[r][a]: occurrences the row counts for an actor
    actorsOverflow,
    late          \* history: an update was applied after its caller gave up

rows == <<count, actors, actorsOverflow>>
writerVars == <<gate, phase, knownActors, known, updates, rows, late>>

-----------------------------------------------------------------------------
(* ActorUpdate: which actors of an event get a place of their own.         *)

(* The places of the actors that are not known.                            *)
Unknown(f) == {i \in DOMAIN ActorsOf[f] : ActorsOf[f][i] \notin known[f]}

(* Mutant of Room: a row with room for one takes whatever the event has.   *)
Room_ForOne(f) ==
    IF Cardinality(known[f]) < MaxActors THEN Cardinality(Unknown(f)) ELSE 0

Room(f) == MaxActors - Cardinality(known[f])

(* The first of the unknown actors, as long as there is room.              *)
Admits(f) == {i \in Unknown(f) : Cardinality({j \in Unknown(f) : j < i}) < Room(f)}

Admitted(f) == {ActorsOf[f][i] : i \in Admits(f)}

Tracked(f) == Admitted(f) \cup {a \in ToSet(ActorsOf[f]) : a \in known[f]}

(* Mutant of Overflow: an event counts as one, however many actors it has. *)
Overflow_Once(f) == IF Tracked(f) = ToSet(ActorsOf[f]) THEN 0 ELSE 1

Overflow(f) == Cardinality(ToSet(ActorsOf[f]) \ Tracked(f))

-----------------------------------------------------------------------------
(* Fold.                                                                   *)

(* Mutant of Idle: calls are not serialized.                               *)
Idle_Always == TRUE

Idle == gate = NoOne

Enter(f) ==
    /\ phase[f] = "new" /\ Idle
    /\ gate' = f
    /\ phase' = [phase EXCEPT ![f] = "entered"]
    /\ UNCHANGED <<knownActors, known, updates, rows, late>>

(* The context ends before the gate is free.                               *)
NeverEnter(f) ==
    /\ phase[f] = "new"
    /\ phase' = [phase EXCEPT ![f] = "error"]
    /\ UNCHANGED <<gate, knownActors, known, updates, rows, late>>

Cached(r) == r \in DOMAIN knownActors

Stored(r) == {a \in Actors : actors[r][a] > 0}

(* A full cache is emptied before a row is added.                          *)
Caching(r, as) ==
    LET kept == IF Cardinality(DOMAIN knownActors) >= MaxCachedRows THEN {}
                ELSE DOMAIN knownActors
    IN  [s \in kept \cup {r} |-> IF s = r THEN as ELSE knownActors[s]]

(* The cache, or else FindOne, says which actors the row has.              *)
Hydrate(f) ==
    LET r == RowOf[f] IN
    /\ phase[f] = "entered"
    /\ \/ Cached(r) /\ UNCHANGED knownActors
       \/ ~Cached(r) /\ knownActors' = Caching(r, Stored(r))
    /\ known' = [known EXCEPT ![f] = knownActors'[r]]
    /\ phase' = [phase EXCEPT ![f] = "hydrated"]
    /\ UNCHANGED <<gate, updates, rows, late>>

(* FindOne fails, or the lookup of the user's name took all the time.      *)
HydrateError(f) ==
    /\ phase[f] = "entered" /\ ~Cached(RowOf[f])
    /\ phase' = [phase EXCEPT ![f] = "error"]
    /\ gate' = NoOne
    /\ UNCHANGED <<knownActors, known, updates, rows, late>>

SendUpdate(f) ==
    /\ phase[f] = "hydrated"
    /\ phase' = [phase EXCEPT ![f] = "sent"]
    /\ updates' = [updates EXCEPT ![f] = "underway"]
    /\ UNCHANGED <<gate, knownActors, known, rows, late>>

(* The database finds or inserts the row and increments its counters.      *)
Apply(f) ==
    LET r == RowOf[f] IN
    /\ updates[f] = "underway"
    /\ updates' = [updates EXCEPT ![f] = "applied"]
    /\ count' = [count EXCEPT ![r] = @ + 1]
    /\ actors' = [actors EXCEPT ![r] =
            [a \in Actors |-> @[a] + (IF a \in Tracked(f) THEN 1 ELSE 0)]]
    /\ actorsOverflow' = [actorsOverflow EXCEPT ![r] = @ + Overflow(f)]
    /\ late' = (late \/ phase[f] # "sent")
    /\ UNCHANGED <<gate, phase, knownActors, known>>

FailUpdate(f) ==
    /\ updates[f] = "underway"
    /\ updates' = [updates EXCEPT ![f] = "failed"]
    /\ UNCHANGED <<gate, phase, knownActors, known, rows, late>>

(* known is the set in the cache: both learn the actors that were stored.  *)
ReturnOk(f) ==
    /\ phase[f] = "sent" /\ updates[f] = "applied"
    /\ knownActors' = [knownActors EXCEPT ![RowOf[f]] = known[f] \cup Tracked(f)]
    /\ phase' = [phase EXCEPT ![f] = "ok"]
    /\ gate' = NoOne
    /\ UNCHANGED <<known, updates, rows, late>>

(* Mutant of AfterError: the cache is kept when the update fails.          *)
AfterError_Kept(r) == knownActors

AfterError(r) == [s \in DOMAIN knownActors \ {r} |-> knownActors[s]]

(* The update has failed, or the context ends while it is under way or     *)
(* while its result travels back.                                          *)
ReturnError(f) ==
    /\ phase[f] = "sent"
    /\ knownActors' = AfterError(RowOf[f])
    /\ phase' = [phase EXCEPT ![f] = "error"]
    /\ gate' = NoOne
    /\ UNCHANGED <<known, updates, rows, late>>

WriterInit ==
    /\ gate = NoOne
    /\ phase = [f \in Folds |-> "new"]
    /\ knownActors = [r \in {} |-> {}]
    /\ known = [f \in Folds |-> {}]
    /\ updates = [f \in Folds |-> "none"]
    /\ count = [r \in Rows |-> 0]
    /\ actors = [r \in Rows |-> [a \in Actors |-> 0]]
    /\ actorsOverflow = [r \in Rows |-> 0]
    /\ late = FALSE

WriterStep(f) ==
    \/ Enter(f) \/ NeverEnter(f) \/ Hydrate(f) \/ HydrateError(f)
    \/ SendUpdate(f) \/ Apply(f) \/ FailUpdate(f) \/ ReturnOk(f) \/ ReturnError(f)

WriterNext == \E f \in Folds : WriterStep(f)

WriterSpec == WriterInit /\ [][WriterNext]_writerVars
-----------------------------------------------------------------------------
(* "Concurrent callers cannot overflow the cap": calls may be interleaved, *)
(* fail, or give up while their update is under way.  The cap is kept as   *)
(* long as none of the abandoned updates is applied after all; then it may *)
(* be overflowed, because the row that the next call reloads does not show *)
(* the update that is still waiting in the database.                       *)
ActorCapInTime == ~late => \A r \in Rows : Cardinality(Stored(r)) <= MaxActors

(* Between calls, and as long as no abandoned update is applied, what the  *)
(* writer believes of a row is what is stored: it neither forgets an actor *)
(* nor counts one that was not written.                                    *)
CacheExact ==
    gate = NoOne /\ ~late => \A r \in DOMAIN knownActors : knownActors[r] = Stored(r)

Applied(r) == {f \in Folds : RowOf[f] = r /\ updates[f] = "applied"}

(* A call that returned no error has been applied, and each actor of every *)
(* applied call is counted, for itself or as overflow, and counted once.   *)
EveryActorCounted ==
    /\ \A f \in Folds : phase[f] = "ok" => f \in Applied(RowOf[f])
    /\ \A r \in Rows :
          SumFunction(actors[r]) + actorsOverflow[r]
              = SumFunctionOnSet([f \in Folds |-> Len(ActorsOf[f])], Applied(r))

(* Both: the rows say who was there, and the writer what the rows say      *)
(* (writer.go, updateRow and knownActors).                                 *)
RowsAreExact == EveryActorCounted /\ CacheExact
=============================================================================
