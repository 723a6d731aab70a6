# Formal models of WeKan Go

WeKan Go is a Go server that takes over a WeKan installation: it serves a part
of WeKan's REST API, brings old databases up to date at every start, and embeds
a FerretDB server (a MongoDB protocol server over SQLite) so that no other
database is needed. This directory holds TLA+ models of the parts of it in
which several actors, failures or restarts meet, the TLC configurations that
check them on small instances, and TLAPS proofs of what matters most for every
instance. Source paths below are relative to the repository.

- [The system](#the-system): components, state, operations, what is hard
- [The modules](#the-modules): how each module corresponds to the code
- [What the runs check](#what-the-runs-check): instances, bounds, results
- [What is proved](#what-is-proved): theorems, assumptions, arguments
- [Where code and comments disagree](#where-code-and-comments-disagree)
- [What is not modelled](#what-is-not-modelled)
- [Plan](#plan)

To repeat a run: `tlc -config LoginThrottle.cfg MCLoginThrottle`; a proof:
`tlapm LoginProofs.tla`. PROJECT.json names, for every definition that
models code, the lines it models, and for every property a mutated definition
that breaks it (the operators with an underscore in their name, such as
`Stale_EvenIfBusy`, which no specification uses).

## The system

One process (main.go) starts, in this order, the embedded database or a
connection to an external one, the usage and security reporters, the HTTP
server, Caddy in front of it, and the schema upgrade in a goroutine of its own.
Everything shares one database, also with other programs: an import may write to
it, and a Meteor WeKan may run on the same external database.

| component | state | operations | what is hard |
|---|---|---|---|
| login throttle, `internal/api/api.go` | a map from client address to failures, start of the window, end of the lock and a busy flag, under one mutex | `begin`, `finish` around every login | several handlers for one address; the sweep of one request meets the entry of another; boundaries of window and lock; a full map |
| accounts and tokens, `internal/api/api.go` | the account document: hash, method, disabled flag, two-factor, token array | `login`, `logout`, `authenticate`; `BlockSecurityAccount`; edits by Meteor | bcrypt takes long after the account is read; an update may be applied after the handler has timed out; two requests change one array |
| mutation gate, FerretDB `handler/mutations.go` | a channel of capacity one | `lockMutation` around each command that changes documents | read-modify-write of whole documents; release on error, panic, refusal; disconnects while waiting |
| event writer, `internal/eventlog/writer.go` | a cache of known actors behind a gate; rows in the database | `Fold` | the cap on actors is decided from the cache; errors and timeouts after the update has been sent |
| usage reporter, `internal/eventlog/usage.go`, `reporter.go` | an accumulator under a mutex, a wake channel, a timer, a stop channel | `Add`, `Drain`, `Close`, the worker `run` | `Add` racing with `Close`; lost wake-ups; the last flush before the database closes |
| security reporter, `internal/eventlog/security.go` | a closed flag and a wait group | `Record`, `Close` | two effects for each event, each with its own deadline |
| schema upgrade, `internal/migrations/upgrade.go` | the last-check marker in the database; a dashboard state under a mutex | `Run`, `Snapshot` | errors, shutdown and crashes between any two steps; forced runs; documents written meanwhile |
| checklist step, `checklist.go` | a marker of its own; the flags of checklists | check, run | once ever: a default and a choice look alike |
| structure steps, `structure.go` | swimlanes, lists, cards, markers of boards | check, run of each step | many single writes, a crash between any two, and the next run has to make sense of what is there |
| field steps, `fields.go` | documents of several collections | eight pairs of check and run | arrays written back from an earlier read; insert, then unset |
| path step, `files.go` | versions of attachments and avatars, files | find, copy, update | volumes that are missing; copies that are interrupted |
| board and user reads, `board_reads.go`, `user_boards.go`, `user_reads.go` | none | reads after an access decision | which boards a caller may see |
| FerretDB connections, `clientconn/` | a goroutine for each connection | read, route, reply | cancellation, grace period at the end |
| FerretDB collections, `backends/sqlite/` | the metadata table, tables, the registry's memory | create, index, rename, drop | every statement may fail or be the last; memory and file must agree |
| FerretDB queries and updates, `handler/common/`, `msg_*.go` | documents as JSON in SQLite | insert, find, update, delete | a WHERE clause that selects too little loses matches in silence |
| FerretDB aggregation, `handler/common/aggregations/` | none | stages, accumulators, expressions, projections | many operators, each with its own treatment of missing, null and array |
| FerretDB cursors, `clientconn/cursor`, `msg_getmore.go` | a registry under a mutex; a position in the log | create, read, wait, close | a notification between query and wait; close while in use |
| FerretDB sessions | a registry under a mutex | start, refresh, end | |
| FerretDB throttle, `throttle.go`, `selfregulate.go` | atomic counters | delay every command | nothing but delays depends on them |

How they meet:

- A login handler calls `begin` (throttle), reads and updates the account
  (through the driver, a FerretDB connection and the mutation gate), reports to
  the usage and security reporters, and calls `finish` in a defer.
- The usage worker and the security goroutines call `Fold` of the event writer,
  which updates rows through the same database.
- The schema upgrade runs the steps one after another against the same
  database while requests are served.
- On shutdown the deferred calls of `run` (main.go) run in reverse order: cancel
  and join the upgrade, stop Caddy, shut the server down (at most ten seconds),
  close the security reporter, close the usage reporter, disconnect, close
  the embedded database.

What makes each component correct:

- throttle: one password verification per address; a bounded rate of tries; a
  lock that is served in full.
- tokens: a token is only stored for an account that may log in at that
  moment; a session lasts until it is ended and never comes back.
- gate: no two commands work from the same snapshot; the token is never leaked.
- event writer: a row never takes more actors than its cap; each actor is
  counted once; the cache says what is stored.
- usage reporter: no call is lost or counted twice on the way to the worker;
  each is flushed without another call to push it; closing ends, and
  nothing is admitted after the last drain.
- upgrade: a version is stamped only after a run that resolved every step;
  every run ends; the dashboard never shows an impossible state.
- shutdown: what uses the database has ended when it is disconnected, and nothing
  hangs.
- field and path steps: nothing is copied twice, no user's change is lost, a healed
  path leads to its own whole file.
- collections: after any failure and restart, what memory, metadata and tables say is one.
- queries: no match is missed, a reported change is stored, an upsert agrees with its filter.
- expressions: a variable is its value, and the operators keep the laws they are known by.
- cursors: the log is delivered in order and without holes; nobody waits for what is there.
- structure: a card never loses its column; a run that ends without an error
  has repaired the boards and the next one does nothing.

## The modules

| module | models | composes |
|---|---|---|
| LoginThrottle | `begin`, `finish`, concurrent handlers, the clock | |
| AtomicDocuments | abstract: atomic updates of single documents | |
| MutationGate | clients, connections, the gate, the update loop | implements AtomicDocuments |
| AccountSessions | one account, its tokens, every request and edit | updates are atomic, as MutationGate shows |
| EventWriter | concurrent `Fold` calls, cache, database | updates are atomic, applied at any time |
| UsageReporter | handlers, accumulator, worker, close of the storage | |
| ServerProcess | main.go from start to exit, the security reporter, requests | extends UsageReporter |
| SchemaUpgrade | boots, crashes, the runner, the dashboard | sees a step as a set of problems |
| ChecklistMinicard | one step in detail, with users | one step of SchemaUpgrade |
| DataSteps | four steps in detail, in the order of the runner, with users and files | extends ChecklistMinicard |
| BoardStructure | two steps in detail, write by write | two steps of SchemaUpgrade |
| TailCursor | a cursor over the operations log, its writers, cleanup, closers | entries are stored in order, as MutationGate shows |
| MetadataRegistry | commands on collections and indexes, statement by statement | one command at a time, as MutationGate shows |
| Documents | values, comparison, filters | |
| Pushdown | the WHERE clause of a query, and what SQLite makes of it | Documents |
| Updates | the update operators | Documents |
| Pipelines | the stages of aggregations, sorting | Updates |
| DocumentStore | one collection and the commands on it | Pushdown, Pipelines |
| Operands | how operators look at the values they are given | Updates |
| Dates, Texts, Conversions | the operators on dates, strings, types and rounding | Operands; Conversions extends the other two |
| Expressions | evaluation of expressions, 103 operators | Pipelines, Conversions |
| Projections | projections of find, `$project`, `$set` | Expressions |
| ExpressionLaws | reference: laws, what an expression means, what a projection selects | Projections |
| StoreLaws | what the commands of DocumentStore compute, against those laws | DocumentStore, ExpressionLaws |

A module `MCx` instantiates `x` for TLC and `xProofs` holds the theorems about
`x`; of those with other names, LoginProofs is about LoginThrottle and AccountSessions,
FerretProofs about MutationGate and MetadataRegistry, EventLogProofs about EventWriter,
UsageReporter and ServerProcess, StoreProofs about DocumentStore and what it extends,
and DataStepsProofs also about ChecklistMinicard. Data that the properties do not tell apart is a model value.

**LoginThrottle.** `attempts` is the map `s.attempts`; an entry has the fields of
the struct `attempt`. `begin` holds the mutex from its sweep to its answer, so
it is one action: `Admit` when it answers true and `Refuse` when it answers false.
The sweep is part of both: `Retained` is what it leaves, `Keeping` the map with
the entry created or reset. `finish` is `FinishSuccess` or `FinishFailure`. What the
handler does between them is AccountSessions. `admitted` is a history variable.

**MutationGate.** A document is a value, an operator of an update is
`Update(c, d)`. `Acquire` and `Refuse` are the two ends of `lockMutation`;
`TokenOfRefused` is the second look at the context after the select, which takes
the token out again. `Read` and `Replace` are one turn of the loop of
`UpdateDocument`, with the replacement of the whole document in one SQL
transaction. `Fail` covers errors, panics and cancelled contexts in the middle of a
command; `release` is deferred. `GiveUp` is a client that leaves: nothing at the
server changes, since `conn.run` does not read from the socket while it handles a
request. `Cancel` is the end of the connection's context, when the listener
stops.

**AccountSessions.** A login is `Find` (find the account, compare the password),
`Issue` (send the update), `ApplyLogin` (the database applies it, at once
or after the handler has given up), and `LoginReply` or `LoginTimeout`. `Selector` is
the filter of the update, field by field; `twoFactor` stands for the fields
that the filter requires to be absent, `other` for the login providers that are
looked at only when the account is found. `Retain` keeps a history of removed tokens.
`Disable` and `ChangePolicy` are Meteor's; `BlockSecurityAccount` is the
security reporter's, and keeps the tokens, which `authenticate` then refuses.

**EventWriter.** `Unknown`, `Room`, `Admitted`, `Tracked` and `Overflow` are `ActorUpdate`:
the actors of an event that are not known, the places a row has left, those who get one in
the order of the event, those who are counted by name, and how many are not. `Hydrate`
is the cache or a `FindOne`; `Apply` is the database and may come long after
`ReturnError`. `late` is a history variable: an update was applied after its
caller gave up.

**UsageReporter.** `Add`, `Drain` and the branches of the worker's select are
actions. `wake` is a channel of capacity one, `timer` its channel and whether it
is armed. `GiveUp` is every error after which a flush drops the rest of its rows.
`CloseStorage` is what main.go does once `Close` has returned. Handlers may call
`Add` at any time: the HTTP server's shutdown gives up after ten seconds, while a
request may take fifteen.

**SchemaUpgrade.** A step is the set of its problems in the database. `Check`,
`Fix`, `RunEnds` and `StepError` are one turn of the loop in `Runner.Run`; a problem
that is not `Fixable` is what a step counts as unresolved. `Boot`, `Cancel` and
`Exit` are main.go's; `Crash` may come between any two of them. `Import` is
another writer, whose documents the running step may or may not come across.
`state` is what `Snapshot` copies. Three history variables (`fresh`, `resolved`,
`passed`) say what the runs have really achieved.

**ChecklistMinicard.** A stored `false` is `default` or `choice`; the code cannot
tell them apart, and neither does any guard of the model. `Unset` is an UpdateMany
that may reach some of the documents.

**BoardStructure.** One action for each write, in the order of the code, from
what it has read at the start of the step (`defaults`, `owners`, `first`). Lanes and
lists have numbers in the order of their sort and creation, so that the first of
a sorted query is the least number. `Fail` ends a step with an error (the next
step is tried) or the process. An UpdateMany is one action per card in any order,
since it may fail part of the way.

**ServerProcess.** `deferred` is the stack of the deferred calls of `run`, pushed
as the parts start, and `Call` and `Return` end them in the reverse order; a start
that fails unwinds what has been started. Of UsageReporter it has every action,
of the security reporter the admission of an event, its two effects, which end
on their own, and `Close`. A request may outlive the ten seconds that the server is
given. A configuration may be without a database of its own or an upgrade.

**DataSteps.** `turn` is the step whose turn it is and `at` where it is in its
reads and writes. `read` is what it writes back from later: the items of a checklist,
the members of a board, the versions of an attachment. Users who choose flags, touch items
and set members come between.
`disk` says which version's bytes a file has, and a copy that fails leaves a short one.
The name of a file is a sequence of `Words`; `Candidates` are the places of older layouts in
the order of the code, `Search` what begins with the name of a version, and `Found` what may
be taken. A version with a broken path stays in the set `Broken` until its turn in the document
(`Current`). `DatabasesAssumption` says what the application leaves: no short file, and files
whose names say whose they are. A volume may come and go between boots.

**TailCursor.** Entries of the log are their record ids, and only those that match
the filter of the cursor. The iterator of a query is the set of what it has still
to yield. `Find`, `FindQuery`, `FindReply`, `GetMore`, `MoreReply`, `Query`, `Skip`, `Wake` and
`BatchReply` are the steps of msg_find.go and msg_getmore.go; `Store` and `Notify` are the
oplog decorator's; `Cleanup` is the background cleanup, `Watch` and `Remove` the cursor registry's. A deadline may come at any of them. The client
stops after an error, and sends getMore on the connection of its find.

**MetadataRegistry.** One SQL statement is one action, outside of any transaction,
as in the code: it may fail, and the process may stop between two of them; dropIndexes
takes its indexes in any order. `tables`
are the tables of the file, `rows` the metadata table, `colls` what the registry
holds in memory, `told` what clients have been told. A table is named by the first name its collection had and a count for the hash.
At the start there is no file, or one of `Databases`: complete collections in the old index
format, whose documents and indexes count as told. A list of indexes
has no two of one name or key, since the handler refuses such a request, and none for `_id`,
which it takes out.

**Documents, Pushdown, Updates, Pipelines, Expressions, Projections** are functions,
one for each of the code's: a value is a record with its type; `FilterDocument` is the
filter in Go, `WhereClause` the text of the SQL condition as a set of arms, and `Candidate`
what SQLite makes of it; `UpdateDocument` gives the new fields and whether the document is
reported as changed; a stage maps a sequence of documents to another or fails;
`Computed(e, document)` is `evaluateExpression`, with `Bind` as the substitution of
variables that the code works by; `ProjectDocument` adds path after path to a
result, as the code does. **Dates, Texts, Conversions** take the values of the arguments:
a date is a number of minutes, a zone its offset before and after one change, with the
calendar and the clock of Go's time package; a format is a sequence of specifiers; a string
is its bytes in UTF-8. **ExpressionLaws** holds what no code computes:
pairs of expressions that must agree, the meaning of an expression with variables in
scope, and the selection of a projection as a set of paths.

An operator of the code that calls itself on a part of its argument (comparison on the elements
of an array, a filter on its branches and on the documents in an array, the WHERE clause on the
branches, the pipelines of `$facet`) calls a constant operator there: `EqualsWithin`,
`PrecedesWithin`, `MatchesWithin`, `HoldsWithin`, `WhereWithin`, `StagesWithin` and `NestedWithin`.
The configuration gives each of them the operator it stands for, so that TLC evaluates the
recursion, and `KnotsAssumption` says so for those the proofs need, which cannot be made about RECURSIVE
operators. A recursion over a sequence is a recursive function.

**DocumentStore.** A command (find, insert, update, delete, aggregate) is one step,
since the gate keeps the commands that write apart, and `answer` keeps what it
did until the client has the reply. Inserts go in batches of `BatchSize` (`Batch`), a
batch that cannot be stored as a whole (`IsWhole`) is stored document by document (`Take`). The only
bound is `Storable`, the documents that may be stored: an update that would make another is not
taken (`Bounded`).
**StoreLaws** ties `AddedFields` and `ProjectedFields` to the operators of Expressions and Projections.

## What the runs check

| run | instance | states | what it shows |
|---|---|---|---|
| throttle | 2 addresses, 2 handlers, map of 1, window 2, lock 3, 8 instants | 1,879 | serial verification, rate of admissions, lock served, with a full map, sweeps, resets |
| gate | 3 commands, 2 documents, one command with both | 210,384 | implements AtomicDocuments, token exact, every waiting command ends |
| sessions | 2 logins, 1 logout, 2 edits, 2 instants | 477,070 | tokens stored only under policy, sessions honoured, logouts and revocations final |
| writer | 4 calls, 2 rows, 4 actors, cap 2, cache of 1 | 19,180 | cap kept in time, rows and cache exact |
| process | 3 keys, room for 2, 1 handler, with and without database and upgrade | 187,442 | calls conserved, shutdown in order, everything flushed and ended |
| upgrade | 2 steps, 2 versions, 3 boots, 1 import, 2 problems | 162,752 | stamps earned, clean means resolved, runs and shutdowns end |
| data_steps | 2 checklists, 2 items, 2 users, 1 attachment of 2 versions, 3 runs, 2 choices, 14 databases | 476,195 | marker means done, fields keep their values, healed files are whole |
| minicard_choices | 2 checklists, 3 runs, 3 choices | | expected violation, see below |
| structure | 2 boards, 2 lanes, 2 lists, 2 cards and what a run creates, 3 runs | 2,794,294 | columns kept, created once, repaired, idempotent, marker last |
| store | 2 documents of 14 shapes, 34 filters, 5 windows, 21 pipelines, 12 updates | 1,268,040 | no match lost, stages lose nothing, upserts and updates consistent, laws of expressions, projections |
| tail | 2 writers, 2 entries, 4 kinds of cursor, batches of 0 to 2 | 734,885 | the log in its order, no lost wake-up, registry follows the client |
| registry | 2 names, 4 lists of indexes, old databases capped or not, with an index or without, 4 commands, 2 failures or crashes | 3,703,214 | memory is stored, collections whole, acknowledged commands stay |

The longest (tail, store, process) take two to three minutes with two workers.

Why these bounds are enough to be worth running:

- **throttle.** The lock is longer than the window, so that a lock can outlive
  the window of its entry and a sweep can meet both; the map holds one address,
  so that two compete for it; eight instants are a lock, a window, and one more
  window. The proofs below do not depend on any of these values.
- **gate.** Three commands are the least number with one running, one waiting
  and one that gives up or is refused; two commands visit the same document,
  and one visits both. Proved for any number.
- **sessions.** Two logins and a logout are every pair of requests on one array;
  two edits are a change and its reversal, which a filter that compares values
  cannot see. Proved for any number.
- **writer.** The four calls on the first row bring more actors than it has
  room for, one of them two at once; the second row exists to empty the cache.
  Proved for any number.
- **process.** One key more than the accumulator has room for, and one row more
  than the flush size: the overflow row, a second timer and a wake-up during a
  flush all occur. One handler is enough for a request that outlives the server,
  since handlers meet only in the accumulator, whose keys are more than its calls.
- **upgrade.** Three boots: one that fails or crashes, one that repairs, one that
  is gated or forced. With two versions a marker can be of another version.
  Two steps suffice for a step before and a step after the one that fails.
- **structure.** Two lists suffice for a duplicate, two lanes for a mismatch, two
  boards for a foreign lane, and one board may have been deleted. The databases
  at the start are chosen so that cards name lists and lanes that are gone, missing
  or of another board. Three runs: one interrupted, one that repairs, one that
  must find nothing.

- **data_steps.** Two items: one copied and one not; two users: one who changes
  while the other's value is written back. Three runs: one that fails in the
  middle, one that repeats, one that should find nothing. Each database gives
  one step something to do, among them files that are found by a prefix, under the
  identifier alone, at another root, or not at all. Proved for any number.
- **store.** The fourteen shapes are a missing field, each kind of value that the
  pushdown or the comparison treats in its own way, arrays of them, and
  documents in arrays; every filter is one arm of the code or a combination that
  meets two of them; windows are the sort, skip and limit of find; each pipeline has
  a stage, or a pair of which the second is pushed down. Two documents suffice for a
  duplicate, for a group of two and for a tie. The laws of expressions and
  projections are over single documents with arrays of at most two elements and
  numbers up to two, and each law names the operators it relates. Those of dates are
  over ends of months, years, leap days and weeks that belong to another year, in three
  zones without a change and at the changes of three others, one of them at midnight;
  those of strings over letters of one and two bytes, and one string that ends inside a letter.
- **tail.** Two writers may store in one order and notify in the other; two entries
  in one write are more than a batch of one. Proved for any number.
- **registry.** Two names are a collection and the one it is renamed to or
  collides with; two failures are an interruption and a failure of what repairs it.
  Proved for any number.

Deadlock is not checked: every model stops when its bounded requests, boots or
runs are used up. Liveness properties say what must not stop before.

**Fairness.** Four specifications have any.
`MutationGate`: a command that runs goes on running (weak), and a command that
waits for the channel gets it if it is free again and again (strong): the
runtime queues the senders of a channel in order. Clients owe nothing.
`ServerProcess`: main goes on, and the deferred calls return because each of them
has a deadline or waits for something that has (weak); a flush is bounded by a
five-second deadline, the effects of a security event by theirs, and timers fire
(weak); the upgrade ends once it is cancelled, since its context ends the driver's
calls; Go's select chooses among ready cases at random, so an arm of the worker that is
ready again and again is taken (strong). Nothing forces anyone to send a request, to call
`Add`, or to stop the process.
`SchemaUpgrade`: the goroutine of the run is scheduled and the shutdown goes on
(weak). Boots, imports and shutdowns need not happen.
`TailCursor`: a command at the server goes on, the watcher of a closed cursor
runs, a write that has stored its entries notifies, and the client of a tail asks again
(weak); a wait whose channel is closed or whose deadline has passed ends (strong,
again a select).

**Refinement.** `Linearizable` of MutationGate is the specification of AtomicDocuments
under the mapping that keeps `docs` and `todo`. The other modules use what it shows:
AccountSessions, EventWriter and DataSteps take an update of one document as one
step, DocumentStore a whole command as one, MetadataRegistry one command at a time,
TailCursor record ids in the order in which they are stored.

**Named gaps.** Where the code falls short of what a property should say, the
property names the states or requests in which it does, by an operator of its own
that has a comment, and holds of all others: `ExplicitNull`, `TextIsAbove`,
`ThroughArray`, `Unreported` (updates), `ReadsOutputs`, `SortsArrays`
(windows), `NeedsFields` (expressions in projections), `TakenForWhole`, `TakenForOwn` (files),
`OutOfRange` (createIndexes), `withheld`, `rewound`, `lost` and `alerted` (tails). The section
on defects says what each is.

**Limits.** `CallsConserved` is about the accumulator and not the event
log: a flush that fails loses its rows, which is what flush does on an error.
Every actor is counted once however late an update is applied; `ActorCapInTime`
and the cache need that none is applied after its caller has given up.

## What is proved

All theorems are proved for every value of the constants that the named
assumptions admit: finite or infinite sets of requests, any positive limits. TLC
evaluates these assumptions in each run.

**LoginProofs.** The throttle: `SerialVerification`, `BoundedFailures`,
`BoundedAdmissionRate` and `LockoutIsServed`, for every window, lockout, capacity and
number of failures (`ThrottleAssumption`). The run's invariants are not inductive:
they do not say how the failures of an entry relate to the admissions in the
history. `IInv` adds it: `EntryOK` says that the last `Seen(a)` admissions
(failures and the one in progress) lie in the entry's window or before its lock;
`Rested` says that an address without a usable entry has rested long enough for a
fresh one, whatever it admits, to stay within the rate. `FreshAdmission`,
`LaterAdmission` and `FailureRecorded` are the arithmetic of the three ways an
entry moves, and the proof of a step only combines them. The rate proved,
2 * MaxFailures - 2 in less than the shorter of window and lock, is what fixed
windows give; it is not MaxFailures per window.

The sessions: `PolicyHoldsAtIssue`, `SessionsAreHonoured`,
`RevocationIsFinal` and `LogoutsAreFinal`. The properties speak of answered
requests, the invariant follows an update from its handler through the
database: an update under way was sent by a login that verified (`LoginOK`); what
was matched is stored or revoked (`TokenOK`); a stamp is the one of the login
and not in the future (`StampOK`); a logout ends tokens of answered logins only,
and has ended them once its update is applied (`LogoutOK`).

**FerretProofs.** The gate: `GateIsExact` and `NoLostUpdate` from the conjunction
`OneAtATime` of the two with `WorkToDo` (the document being changed is still to be done) and
`Unsent`. `GateLinearizes`: every step maps to an `Apply` of
AtomicDocuments (`Replace`) or a stutter, with `docs` and `todo` as they are; the
`Replace` step needs `NoLostUpdate`, since it writes what was computed from the snapshot.

The registry, from `RegistryAssumption`: `RegistryStaysStored`, `AcknowledgedIsKept` and
`CollectionsStayWhole`, for any names, lists of indexes and old databases, any number of
commands, and a failure or crash at every statement. The properties speak of a server
between commands; what makes them true is what holds in the middle of one, so each has an
invariant that follows the command from statement to statement.

- `RegistryInv`: what a command may rely on where it is (`Control`), each
  collection with a table and a number of its own (`Named`), and memory equal to the metadata
  table but for what a crash at this very point would leave half made or without a
  row (`Agreed`, by way of `Interrupted`, the operator with which the model marks what a
  crash leaves). A free name for a table exists by a pigeonhole argument on the finite
  set of tables (`TableIsFree`).
- `StaysInv`: what was told is in the rows and in memory (`Kept`), in the settings
  that a command is about to store (`Storing`), and an index that was asked
  for is there or still on the list (`AskedFor`). The list is shortened by
  positions while the code goes on counting in the original; `ListGoesOn` and
  its neighbours say what is left when it does that right, and `OutOfRange` is the case where it does not.
- `WholeInv`: collections in the rows and in memory fit their tables up to the marks that
  a crash would leave now (`Wholes` under `Left`), and so do the settings that a command
  is working on (`Working`); only an orphaned table has no row (`Owned`).

**SchemaUpgradeProofs.** `StampsAreEarned`, `CleanRunsResolve`, `TypeCorrect` and
`Inductive`, for any number of steps, boots and imports. A stamp is justified by all that the
run has seen before, so the invariant says at each step what a clean run knows
of the steps before (`CleanSoFar`, `NothingOldSoFar`), and while a step runs, that
its problems are in its work or have been written since the boot.

**DataStepsProofs.** `MarkerMeansNoDefault` and `MarkerStops` for the checklist step on its own, and
`MarkerMeansNoDefaultInBoots` for the step among the others; the invariant `MinicardInv` adds
that a run past its look at the marker still has none, since nobody else writes it,
and that a run about to store it has left no old default. `FieldsAreKept`, for any items, users and choices: an item has one copy more than its
edits by users at most, and loses its embedded form only when it has a copy (`ItemsInv`); the members
that are written back are those in the database but for users who have set theirs
in between (`MembersInv`). `PathsAreHealed`, from
`DatabasesAssumption`: the invariant `FilesInv` says of every file whose
name says a version that it has the bytes of this version, or is what an interrupted copy left
(`DiskInv`), of every path that it is recorded or still to be healed (`PathsInv`), and of a step in
the middle of a copy where it copies from (`HealInv`).

**BoardStructureProofs.** `TypeCorrect`, `NothingCreatedTwice`, `CardsKeepTheirColumn`,
`MarkersGoLast`, `RunsRepair` and `RunsAreIdempotent`, for any boards, cards and number of runs, and from every database that
`DatabasesAssumption` admits: typed references, which may dangle, be missing or
cross boards. The invariant says of what a run has read that it is still true:
a board without a default has no visible lane (`LanesOnce`), and while cards are rescued
a board with lists has its first one (`ListsOnce`), so that a later run finds what an
earlier one made; the list being emptied is in use on the joined board, where its
survivor has its title, and a board has no duplicates when its stamps are removed and
no stamps when its markers are (`JoinOrdered`). New identifiers are 1 + the greatest:
`Greatest` shows that a finite set of naturals has one, from the well-foundedness
of < on the naturals. `RunsRepair` and `RunsAreIdempotent` speak of whole runs, so a second
invariant, `Running`, says of each phase what it has behind it: what it
still holds from its reads is true (`ReadsTrue`), each board, list and card it has passed is
repaired (`StructureProgress`, `MergeProgress`), and after a run that completed
nothing is left that a later one would change (`AfterCompletion`).

**EventLogProofs.** `ActorsStayCapped` and `RowsStayExact`, for any calls and rows, finitely many actors
and any cap: `WriterInv` says that one call is past the gate, which knows its row (`GateInv`), and that
without a late update it knows it as it is stored (`ExactInv`), and that the counts are sums over the
calls that were applied (`CountedInv`). `CallsStayConserved`, for finitely many keys and any room: what handlers
have added is what the accumulator, the batch of the worker and the flushed rows hold together
(`ReporterInv`). `ShutdownStaysInOrder`: the deferred calls are a stack in the order of
the start, a part that runs is on it, and who still uses the database is among
those that are closed before it (`ProcessInv`). Sums over finite sets are sums over
subsets that grow by one element: the lemmas state the family of subsets for which the sum is
right as a set and show that it holds every subset (`Subsets`).

**TailCursorProofs.** `LogIsDelivered` and `WakeupsAreNotLost`, for any writers, entries and sizes
of batches. `IInv` says that every entry up to the cursor's position is delivered, in
the batch or lost to the cleanup (`Covered`), that the iterator has what follows
without holes (`RestFollows`), and that an entry beyond the iterator will still be announced (`Announcing`):
its writer has yet to notify, or the cursor has yet to look, or an answer left it behind (`withheld`).
`Position` is the target while Reset looks for it. `RegistryAgreesWithClient` is the part of
`RegistryFollowsClient` that is an invariant: between commands the registry has the cursor
that the client holds.

**StoreProofs.** For any values, filters, updates and requests that the named assumptions of
DocumentStore admit, of any number, size and nesting: a stored document has an ObjectId for its
`_id`; what is inside a value has a lower number in `Depths` and what is inside a filter a lower one in
`Levels`, which is what "finite" comes to and what stands for induction over data (a least
counterexample, `LeastNatural`); a filter is a finite set of conditions.

- `InsertsKeepTheirOrder`: the invariant follows a request from batch to batch, for every batch size.
- `ClauseLosesNothing`: by the least filter for which it fails, arm by arm of the WHERE clause
  (one lemma for each: `IndexableSelects` for an equality and `$in`, `RangeSelects`, `ElementSelects`, `OutsideSelects`
  for `$nor`, `ConditionSelects` for branches), each of which says that a document that Go would take is selected by
  SQLite unless one of the named gaps holds of it.
- `CountsAreComplete`: that, with the invariant `ContentsInv`, that what is stored stays
  finite and within `Storable`.
- `UpdatesReachTheirDocuments`: operator by operator (`UpdateReports`), a document that is
  not reported as changed is what it was, though Go compares by `Compare`: two values of a
  type that compare equal are the same (`EqualsSame`, by their depths); `WriteSteps` follows the loop over the documents.
- `UpsertsKeepToTheirFilter`: the equalities of a filter with paths that are apart are written
  one after the other and do not disturb each other (`SetLeads`, `SetKeeps`), an update whose paths
  are apart from them keeps them (`UpdateKeeps`), and a value that is there is found by Go
  and by SQLite (`EqualitiesFind`).
- `QueriesAreComplete`: counts as above. A sequence of documents is the image of a list of ids, each of them once
  (`Lists`), so that no step of a sort, a filter or the heap can lose or double a document
  (`SortLists`, `FilterLists`, `HeapLists`). A find: SQLite's order is any list of what it selects; the sort is sorted, the
  heap of `SortLimitIterator` keeps documents none of the others is before (`HeapKeeps`, step by step), and such a part,
  followed by the rest in order, is a sorted order of all the matches with the same window (`WindowExtends`); so is
  the part that is left when the limit is pushed. A pipeline: a document that the pushed $match would
  refuse changes nothing behind that $match, be there a sort before it or not (`SortUnseen`, `PipelineAlike`), so that the
  pipeline over what SQLite selects is the pipeline over the whole collection, for any stages behind it.
  `WindowsAssumption` says that the values a find sorts by are in an order: it excludes nested arrays, whose comparison
  is none (see below), and for which "sorted" has no meaning. Pipelines need no such assumption.
- `GroupsLoseNothing`: what `StagesLoseNothing` asks of `$group` (`GroupsAreWhole`), for any documents, whichever
  stage they come from. After every document each group has those with its key so far, in their order (`Parted`,
  kept by `GroupStep`), and two increasing lists of the same positions are the same (`IncreasingOnce`). It assumes
  that keys are values, so that those that compare equal are one key, that there is an output, and what group.go
  makes sure of: that no output is named `_id`, which is the key, or as another, which is refused.

Only model-checked: the liveness properties (`GateServesAll`, `NothingHangs`, `EveryRunEnds`,
`EveryEntryReached`, and of `RegistryFollowsClient` that a cursor is removed when its connection has ended), which
the prover does not reach; `StagesLoseNothing` but for `$group`, about sums and sorts computed by folds; and `BindingIsScoped`,
`LawsHold` and `ProjectionsSelect`, whose operators are recursive over expressions. Every other
property that a passing run checks is a theorem.

## Where code and comments disagree

The run `minicard_choices` shows one: checklist.go:18-19 and
docs/Go-Compatibility.md:183-184 say that later choices of users survive. A database
without old defaults at the first run gets no marker, so the recheck of the next
version takes the first choice a user makes for an old default.

Others were met while modelling and are part of the models or of a named gap.

Gate and event log:

- Comments say that a command that waits for the gate honours a client that
  disconnects (mutations.go:29, conn.go:368, msg_update.go:34). A connection does
  not read its socket while it handles a request, so a command whose client
  has gone still gets the gate and writes (`GiveUp` changes nothing at the server).
- writer.go:29-31 and 134 say that the cap on actors cannot be overflowed. An
  update that is still waiting in the database when its caller gives up is not in
  the row that is read then; the next call gives the same place to another actor
  (`late` in `ActorCapInTime`).

Steps of the upgrade:

- When a board without markers is joined and the run ends before the last list
  has lost its swimlane, the next run may see no symptom and leaves the rest as
  they are. `RunRepairs` says what is guaranteed. A card is rescued to the first
  list of its board, which may be archived.
- files.go:19 speaks of recoverable copy failures. A copy that fails or is killed leaves
  a short file under the final name; when that name is the conventional one, or
  when the source has gone and the search by prefix finds it, the next boot records it
  as healthy (`TakenForWhole`). A thumbnail can be given the file of the original,
  by prefix or by a name without a version (`TakenForOwn`).
- The members step writes back an array that it has read before, and replaces
  a scalar member. A copy of an item that a user edits is inserted again after an
  interrupted run. Both are hazards that `FieldsKeepTheirValues` bounds.
- The dashboard shows the new last check before it is written, and keeps it when
  the write fails (upgrade.go); nobody reads it but the page.

Queries and updates:

- `$in` with null misses documents that store an explicit null (query.go:921; the comment
  at 866 says it does not), and structure.go:84 asks just that (`ExplicitNull`). `$lt` on
  arrays and a one-sided `$nor` on arrays are compared as text (`TextIsAbove`). Dotted
  paths through arrays are lost by update, delete, count, distinct and findAndModify
  (`ThroughArray`). `$expr` with a projection reads fields that are not decoded.
- `$push` and `$addToSet` with an empty `$each`, and `$push` with `$slice`, change a document
  without reporting it, so that it is not written (`Unreported`). An upsert with two operators
  on one field keeps one of them, and equalities under `$and` are not copied into it.
- An ordered insert goes on after a duplicate (msg_insert.go:177).
- `$group` hands one iterator to all of its accumulators, so that the second sees no documents
  (group.go:131; the comment says that all are applied). `$unwind` of an array keeps only
  `_id` and the field (unwind.go:150), and panics without `_id`. `$setWindowFields` reads
  fields that earlier outputs have overwritten, ranks arrays in another order
  than the sort, and panics when the partition is missing in some document.
  `$skip` and `$limit` are taken modulo 2^32. Pipelines inside `$facet` that look up other
  collections get no documents.
- Comparison of nested arrays is not an order, so `$bucketAuto` and the set operators
  lose elements over them.
- The variables of `$map`, `$filter`, `$reduce` and `$let` are replaced by their values, which are
  evaluated again: a stored string that begins with `$` is taken for a field, an inner
  variable of the same name is captured, and an array that is the whole operand is
  spread over the arguments. `$literal` of an array of one element is that element
  (literal.go says that the original value is preserved). `BindingIsScoped` says for which
  values the substitution means the same as scope.
- `$project` tries every expression on a document without fields, so that `$range` and
  `$slice` of fields are refused (`NeedsFields`). Overlapping paths of a projection, and a
  document without `_id`, may panic. `{"v.$": 1}` on a document gives an empty one.
  `$set` stores a field path as a string.
- A zone that is not known to `$dateFromString` ends the connection: the error is built from
  another variable, which is nil (date.go:585). `%Z` is written as minutes and read as hours and minutes,
  and the default text of a date ends with Z whatever the zone. Where a day has no midnight,
  `$dateTrunc` and the ISO weeks of `$dateFromParts` give a date of the day before (`WithoutMidnight`), and
  an hour that a clock shows twice is read as the first (`ShownTwice`). `$dateTrunc` by several hours may give a
  date behind its argument after a change of time. `$substrBytes` cuts inside a character (`IsText`), and
  the year of an ObjectID is refused.

Collections:

- registry.go:470-480 says that startup heals itself. A crash between the
  creation of the file and of its metadata table leaves a file that no start can open.
- A creation that is interrupted between the row and its settings leaves a collection
  without its unique index on `_id` after a restart. The rollback of createIndexes
  removes nothing, so that an index without a row is adopted later under another key.
  dropIndexes that fails midway leaves a row for an index that is gone, which
  queries then name. A DROP TABLE that fails keeps a collection in memory without a row:
  documents written then are gone after a restart. An orphan table may be adopted by
  a collection of another name, and a failed adoption drops it. dropDatabase whose
  file cannot be removed brings it back. createIndexes with two existing indexes
  skips by the position in another list (msg_createindexes.go:749, `OutOfRange`).

Tails:

- When more entries are found than a batch holds, the rest stays invisible until the next
  write (msg_getmore.go:351, 379); so does an entry found at a deadline (`withheld`). A deadline in
  the middle of a batch loses it, one during Reset repeats entries (`rewound`), and the
  cleanup of the last record makes Reset fail (`alerted`). Entries that are cleaned before the
  cursor has a position are passed over in silence (`lost`).
- A find with maxTimeMS removes its tailable cursor, whose id the client has
  (msg_find.go:197 says that it must stay open), and a find that fails leaves one until the
  connection ends.

## What is not modelled

Most of the repository is the FerretDB server, of which WeKan needs one backend
and a part of the commands. Not modelled of it:

- the MySQL, PostgreSQL and SAP HANA backends;
- the wire protocol, authentication and users, logical sessions, the throttle and
  self-regulation, which only delay, expiry of documents, diagnostics;
- `$regex`, the bit operators, `$text`, `$where`, JavaScript, geometry, `$meta`, the positional
  projection, `$currentDate`, `$bit`, the sort of `$push`, several fields of `$sortArray`,
  roots, logarithms and angles, averages and deviations, units of a second and less,
  `$sample`, `$collStats`;
- the width of numbers (values are small integers), the order of keys in documents,
  texts that Go and SQLite render differently;
- of the registry: case folding and the 32-bit hash of table names, duplicates
  of `_id` in adopted tables, the index of the log on its time, several databases, VACUUM;
- of the cursors: getMore from another connection than find's, a clock that steps back.

Of WeKan Go: configuration, the web page, the database tools, versions and the
manifest have no state. The board and user reads are functions of one snapshot.
The catalogue, the formatting and the geolocation of security events are data, as
are the names and times in event rows. Times are instants: two clock readings in
one critical section are one. Of the field steps the four that have
nothing to write back are seen by SchemaUpgrade as sets of problems; names of files
beyond 220 characters are not cut. In the login, the fields of other providers are
looked at when the account is found and are not in the selector of the update
(api.go:318): an account that is switched to another provider in between
still gets its token.

## Plan

Written, in this order: LoginThrottle; AtomicDocuments and MutationGate;
AccountSessions; EventWriter; UsageReporter; SchemaUpgrade; ChecklistMinicard;
BoardStructure; ServerProcess; TailCursor; Documents, Pushdown, Updates, Pipelines and
DocumentStore; MetadataRegistry; DataSteps; Expressions, Projections, ExpressionLaws, StoreLaws;
Operands, Dates, Texts, Conversions.

Proved: every invariant and action property of the runs outside DocumentStore, and there what
inserts, updates, upserts, counts, finds and pipelines do.

Next: of DocumentStore, the stages that arrange documents; of the model, the registry's connection pool and several databases, the expiry of documents,
and the sessions of the embedded server.
