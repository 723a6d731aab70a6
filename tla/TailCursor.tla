----------------------------- MODULE TailCursor -----------------------------
(***************************************************************************)
(* One cursor of the embedded FerretDB server over the capped operations   *)
(* log, from the find that opens it to its removal, together with the      *)
(* writers that append to the log, the cleanup that drops its oldest       *)
(* entries, and whoever closes the cursor from outside: killCursors, drop, *)
(* and the end of the connection that opened it                            *)
(* (handler/msg_find.go, handler/msg_getmore.go, clientconn/cursor,        *)
(* backends/decorators/oplog, handler/handler.go).                         *)
(*                                                                         *)
(* Entries are their record ids, counted from one, and only those that     *)
(* match the filter of the cursor are kept: a write of no entry is one     *)
(* whose entries do not match.  The iterator of a query is the set of the  *)
(* entries it still has to yield, in the order of their record ids.        *)
(***************************************************************************)
EXTENDS Naturals, FiniteSets, FiniteSetsExt

CONSTANTS
    Writers,      \* the commands that write
    MaxEntries,   \* entries ever numbered
    MaxInsert,    \* matching entries of one write
    Kinds,        \* the kinds of cursors a find may ask for
    FindSizes,    \* batch sizes of find
    MoreSizes     \* batch sizes of getMore; it takes 250 for 0

(* "await" is a TailableAwait cursor that has a notifier, "polling" one on *)
(* a server without a replica set name, which has none.                    *)
Tails == {"tailable", "await", "polling"}
Awaits == {"await", "polling"}

ASSUME TailAssumption ==
    /\ MaxEntries \in Nat /\ MaxInsert \in Nat
    /\ Kinds \subseteq Tails \cup {"normal"}
    /\ FindSizes \subseteq Nat /\ MoreSizes \subseteq Nat \ {0}

VARIABLES
    log,          \* entries that have been stored
    oldest,       \* those below it have been cleaned up
    numbered,     \* the last record id given out
    writing,      \* the entries of each writer's insert
    stage,        \* where each writer is
    kind,         \* the type of the cursor
    single,       \* find asked for a single batch
    timer,        \* the context that maxTimeMS of find adds: none, armed, cancelled
    registered,   \* the registry holds the cursor
    closing,      \* who has begun to close and remove it: none, kill, watch
    rest,         \* what the iterator of the cursor still yields
    rows,         \* the iterator holds a statement of the database open
    last,         \* lastRecordID
    changed,      \* the channel the cursor holds has been closed
    at,           \* where the command on the cursor is; "rest" between commands
    size,         \* its batchSize
    target,       \* the record id Reset looks for
    batch,        \* the documents read so far
    handle,       \* the cursor id the client knows: none, open, closed
    ended,        \* the connection is gone
    delivered,    \* the entries the client has been given
    alerted,      \* the client has been given an error
    withheld,     \* an answer left entries behind that nothing announces
    lost,         \* entries in answers that a deadline has emptied, and those
                  \* cleaned up before the cursor had a position
    rewound       \* a deadline has stopped Reset before the last known entry

writers == <<log, oldest, numbered, writing, stage>>
asked   == <<kind, single>>
history == <<withheld, lost, rewound>>
client  == <<handle, ended, delivered, alerted>>
cursor  == <<registered, closing, rest, rows, last, timer>>
command == <<at, size, target, batch>>

vars == <<writers, asked, cursor, changed, command, client, history>>

Stored == {n \in log : n >= oldest}

Gone == log \ Stored

-----------------------------------------------------------------------------
(* The writers.  InsertAll of the collection gives every document its      *)
(* record id, then inserts; the oplog decorator then closes the channel.   *)

(* Mutant of GateFree: the commands do not wait for each other.            *)
GateFree_Always == TRUE

(* A command that writes, or a cleanup, holds the mutation gate.           *)
GateFree == \A w \in Writers : stage[w] = "idle"

(* The record ids are taken before the transaction.                        *)
Number(w, k) ==
    /\ stage[w] = "idle" /\ GateFree
    /\ numbered + k <= MaxEntries
    /\ numbered' = numbered + k
    /\ writing' = [writing EXCEPT ![w] = (numbered + 1) .. (numbered + k)]
    /\ stage' = [stage EXCEPT ![w] = "numbered"]
    /\ UNCHANGED <<log, oldest, asked, cursor, changed, command, client, history>>

Store(w) ==
    /\ stage[w] = "numbered"
    /\ log' = log \cup writing[w]
    /\ writing' = [writing EXCEPT ![w] = {}]
    /\ stage' = [stage EXCEPT ![w] = "stored"]
    /\ UNCHANGED <<oldest, numbered, asked, cursor, changed, command, client, history>>

(* The insert into the log fails, which is only reported to the logger.    *)
StoreFails(w) ==
    /\ stage[w] = "numbered"
    /\ stage' = [stage EXCEPT ![w] = "idle"]
    /\ writing' = [writing EXCEPT ![w] = {}]
    /\ UNCHANGED <<log, oldest, numbered, asked, cursor, changed, command, client, history>>

(* Only the cursors with a notifier hold a channel.                        *)
Announced == kind = "await"

(* Mutant of Announce: nobody closes the channel.                          *)
Announce_Never == changed

Announce == Announced

Notify(w) ==
    /\ stage[w] = "stored"
    /\ changed' = Announce
    /\ stage' = [stage EXCEPT ![w] = "idle"]
    /\ UNCHANGED <<log, oldest, numbered, writing, asked, cursor, command, client, history>>

(* cleanupCappedCollection drops the first entries, up to n; the decorator *)
(* of the log then inserts no entry into it, and closes the channel.       *)
Cleanup(n) ==
    /\ GateFree
    /\ n \in Stored
    /\ oldest' = n + 1
    /\ changed' = Announced
    /\ UNCHANGED <<log, numbered, writing, stage, asked, cursor, command, client, history>>

-----------------------------------------------------------------------------
(* Cursor.Next, Cursor.Close and Registry.CloseAndRemove.                  *)

(* iter.Close: the statement is finished, and the context of a find with   *)
(* maxTimeMS is cancelled, whose cancel is one of the closers.             *)
IterClosed ==
    /\ rest' = {} /\ rows' = FALSE
    /\ timer' = IF timer = "armed" /\ rows THEN "cancelled" ELSE timer

(* Mutant of Closed: a normal cursor stays in the registry.                *)
Closed_Stays == IterClosed /\ UNCHANGED registered

(* Cursor.Close: a normal cursor leaves the registry.                      *)
Closed ==
    /\ IterClosed
    /\ registered' = (registered /\ kind # "normal")

Kept == UNCHANGED <<rest, rows, timer, registered>>

(* killCursors, drop and dropDatabase from any connection, and the         *)
(* goroutine of NewCursor once the context of find is done.                *)
CloseFrom(who) ==
    /\ registered /\ closing = "none"
    /\ closing' = who
    /\ IterClosed
    /\ UNCHANGED <<writers, asked, registered, last, changed, command, client, history>>

Kill == CloseFrom("kill")

(* Mutant of ContextDone: the connection's end cancels nothing.            *)
ContextDone_Limit == timer = "cancelled"

(* The context that NewCursor was given is done.                           *)
ContextDone == ended \/ timer = "cancelled"

Watch == ContextDone /\ CloseFrom("watch")

Remove ==
    /\ registered /\ closing # "none"
    /\ registered' = FALSE
    /\ UNCHANGED <<writers, asked, closing, rest, rows, last, timer, changed, command, client, history>>

(* Mutant of LastAfter: Next does not keep the position.                   *)
LastAfter_Unset(n) == last

LastAfter(n) == n

Reading == at \in {"first", "more", "batch"}

(* The context of the iterator is done; a closed one does not look at it.  *)
Interrupted ==
    \/ ended /\ at # "rest" /\ at # "new"
    \/ timer = "cancelled" /\ (at = "findQuery" \/ (at \in {"first", "more"} /\ rows))

(* Next of ConsumeValuesN.                                                 *)
Next1 ==
    /\ Reading /\ ~Interrupted
    /\ Cardinality(batch) < size /\ rest # {}
    /\ batch' = batch \cup {Min(rest)}
    /\ last' = LastAfter(Min(rest))
    /\ rest' = rest \ {Min(rest)}
    /\ UNCHANGED <<writers, asked, registered, closing, rows, timer, changed, at, size, target, client, history>>

(* ConsumeValuesN has what it was asked for, or has met the end, and then  *)
(* has closed the cursor.                                                  *)
Full == Cardinality(batch) = size
Over == Reading /\ ~Interrupted /\ (Full \/ rest = {})

Answer(next) ==
    /\ delivered' = delivered \cup batch
    /\ batch' = {}
    /\ at' = next
    /\ size' = IF next = "rest" THEN 0 ELSE size
    /\ UNCHANGED <<writers, kind, target, ended, alerted, lost, rewound>>

-----------------------------------------------------------------------------
(* find.                                                                   *)

Find(k, one, limited, n) ==
    /\ at = "new" /\ ~ended
    /\ kind' = k /\ single' = one /\ size' = n
    /\ timer' = IF limited THEN "armed" ELSE "none"
    /\ changed' = FALSE
    /\ at' = "findQuery"
    /\ UNCHANGED <<writers, registered, closing, rest, rows, last, target, batch, client, history>>

FindQuery ==
    /\ at = "findQuery" /\ ~Interrupted
    /\ rest' = Stored /\ rows' = TRUE /\ registered' = TRUE
    /\ lost' = Gone
    /\ at' = "first"
    /\ UNCHANGED <<writers, asked, closing, last, timer, changed, size, target, batch,
                   client, withheld, rewound>>

(* The timer of maxTimeMS, until find returns.                             *)
TimeLimit ==
    /\ at \in {"findQuery", "first"} /\ timer = "armed"
    /\ timer' = "cancelled"
    /\ UNCHANGED <<writers, asked, registered, closing, rest, rows, last, changed, command, client, history>>

(* find leaves nothing to ask for.                                         *)
Exhausted == single \/ (kind = "normal" /\ ~Full)

(* Mutant of Keeps: a tail without an entry yet is removed.                *)
Keeps_IfFull == registered /\ Full /\ ~single

(* What the registry has after find has closed the iterator.               *)
Keeps == registered /\ ~Exhausted

FindReply ==
    /\ at = "first" /\ Over
    /\ IF single \/ ~Full
       THEN IterClosed /\ registered' = Keeps
       ELSE Kept
    /\ handle' = IF Exhausted THEN "closed" ELSE "open"
    /\ single' = FALSE
    /\ Answer("rest")
    /\ UNCHANGED <<closing, last, changed, withheld>>

-----------------------------------------------------------------------------
(* getMore.                                                                *)

GetMore(n) ==
    /\ at = "rest" /\ handle = "open" /\ ~ended
    /\ registered
    /\ at' = "more" /\ size' = n
    /\ UNCHANGED <<writers, asked, cursor, changed, target, batch, client, history>>

NotFound ==
    /\ at = "rest" /\ handle = "open" /\ ~ended
    /\ ~registered
    /\ handle' = "closed" /\ alerted' = TRUE
    /\ UNCHANGED <<writers, asked, cursor, changed, command, ended, delivered, history>>

(* A tailable cursor whose iterator has come to its end makes another.     *)
MoreReply ==
    /\ at = "more" /\ Over
    /\ IF Full THEN Kept ELSE Closed
    /\ handle' = IF kind = "normal" /\ ~Full THEN "closed" ELSE handle
    /\ Answer(IF batch # {} \/ kind = "normal" THEN "rest"
              ELSE IF kind = "await" THEN "waiting" ELSE "query")
    /\ UNCHANGED <<single, closing, last, changed, withheld>>

(* Mutant of ChangedAfter: the next channel is taken after the query.      *)
ChangedAfter_Late(step) == IF step = "wake" THEN changed ELSE FALSE

(* The channel for the next time is taken before the query.                *)
ChangedAfter(step) == IF step = "wake" THEN FALSE ELSE changed

(* awaitData: the channel is closed, or the poll interval is over.         *)
Wake ==
    /\ at = "waiting"
    /\ changed \/ kind = "polling"
    /\ changed' = ChangedAfter("wake")
    /\ at' = "query"
    /\ UNCHANGED <<writers, asked, cursor, size, target, batch, client, history>>

(* A new iterator from the beginning, which Reset then moves to the last   *)
(* entry it knows.                                                         *)
Query ==
    /\ at = "query" /\ ~Interrupted
    /\ rest' = Stored /\ rows' = TRUE
    /\ target' = last
    /\ at' = IF last = 0 THEN "batch" ELSE "reset"
    /\ withheld' = FALSE
    /\ lost' = IF last = 0 THEN Gone ELSE lost
    /\ UNCHANGED <<writers, asked, registered, closing, last, timer, changed, size, batch, client, rewound>>

Skip ==
    /\ at = "reset" /\ ~Interrupted
    /\ rest # {}
    /\ last' = Min(rest)
    /\ rest' = rest \ {Min(rest)}
    /\ IF Min(rest) = target
       THEN at' = "batch" /\ target' = 0
       ELSE UNCHANGED <<at, target>>
    /\ UNCHANGED <<writers, asked, registered, closing, rows, timer, changed, size, batch, client, history>>

(* The deferred closer closes the new iterator, whatever it still holds.   *)
BatchReply ==
    /\ at = "batch" /\ Over
    /\ IterClosed
    /\ withheld' = (rest # {})
    /\ Answer(IF batch = {} /\ kind # "tailable" THEN "waiting" ELSE "rest")
    /\ changed' = ChangedAfter("batch")
    /\ UNCHANGED <<single, registered, closing, last, handle>>

(* maxTimeMS of getMore: awaitData answers with an empty batch, and no     *)
(* error, wherever it is.                                                  *)
Expire ==
    /\ kind \in Awaits
    /\ \/ at \in {"waiting", "query"}
       \/ at = "reset" /\ rows
       \/ at = "batch" /\ rows /\ ~Full
    /\ IterClosed
    /\ withheld' = (withheld \/ at # "waiting")
    /\ lost' = lost \cup batch
                     \cup (IF at = "reset" THEN {n \in log : target < n /\ n <= last} ELSE {})
    /\ rewound' = (rewound \/ (at = "reset" /\ last < target))
    /\ at' = "rest" /\ batch' = {} /\ size' = 0 /\ target' = 0
    /\ UNCHANGED <<writers, asked, registered, closing, last, changed, client>>

-----------------------------------------------------------------------------
(* Errors.                                                                 *)

(* The command answers with an error; ConsumeValuesN and the closers have  *)
(* closed the iterator.  A driver asks no more of a cursor that has failed. *)
BreakOff ==
    /\ IF at \in {"first", "more"} THEN Closed ELSE IterClosed /\ UNCHANGED registered
    /\ handle' = "closed"
    /\ at' = "rest" /\ batch' = {} /\ size' = 0 /\ target' = 0 /\ alerted' = TRUE
    /\ UNCHANGED <<writers, asked, closing, last, changed, ended, delivered, history>>

(* The context of the command is done.                                     *)
Interrupt == Interrupted /\ BreakOff

(* The database fails.                                                     *)
Fail == at \in {"findQuery", "first", "more", "query", "reset", "batch"} /\ BreakOff

(* Reset has not found the last entry.                                     *)
ResetFails == at = "reset" /\ rest = {} /\ BreakOff

Disconnect ==
    /\ ~ended
    /\ ended' = TRUE
    /\ UNCHANGED <<writers, asked, cursor, changed, command, handle, delivered, alerted, history>>

-----------------------------------------------------------------------------
Init ==
    /\ log = {} /\ oldest = 1 /\ numbered = 0
    /\ writing = [w \in Writers |-> {}] /\ stage = [w \in Writers |-> "idle"]
    /\ kind = "normal" /\ single = FALSE /\ timer = "none"
    /\ registered = FALSE /\ closing = "none"
    /\ rest = {} /\ rows = FALSE /\ last = 0 /\ changed = FALSE
    /\ at = "new" /\ size = 0 /\ target = 0 /\ batch = {}
    /\ handle = "none" /\ ended = FALSE /\ delivered = {} /\ alerted = FALSE
    /\ withheld = FALSE /\ lost = {} /\ rewound = FALSE

Write(w) == (\E k \in 0 .. MaxInsert : Number(w, k)) \/ Store(w) \/ StoreFails(w) \/ Notify(w)

Ask ==
    \/ \E k \in Kinds, one, limited \in BOOLEAN, n \in FindSizes : Find(k, one, limited, n)
    \/ \E n \in MoreSizes : GetMore(n)
    \/ NotFound

Serve ==
    \/ FindQuery \/ Next1 \/ FindReply \/ MoreReply
    \/ Query \/ Skip \/ BatchReply \/ Interrupt \/ ResetFails

Next ==
    \/ \E w \in Writers : Write(w)
    \/ \E n \in 1 .. MaxEntries : Cleanup(n)
    \/ Ask \/ Serve \/ Wake \/ Expire \/ TimeLimit \/ Fail
    \/ Kill \/ Watch \/ Remove \/ Disconnect

(* Go runs what can run; a writer that has stored goes on to notify; the   *)
(* client goes on asking.  Of a closed channel and a deadline select takes *)
(* either, so a channel that stays closed wakes the cursor in the end.     *)
Fairness ==
    /\ WF_vars(Serve) /\ WF_vars(Watch) /\ WF_vars(Remove)
    /\ WF_vars(\E n \in MoreSizes : GetMore(n))
    /\ SF_vars(Wake)
    /\ \A w \in Writers : WF_vars(Store(w) \/ Notify(w))

Spec == Init /\ [][Next]_vars /\ Fairness

-----------------------------------------------------------------------------
(* The properties.                                                         *)

(* The entries of a batch follow what the client already has, and none is  *)
(* given twice (Next, Reset), unless a deadline has stopped Reset on its   *)
(* way: then lastRecordID stays where the scan was.                        *)
EntriesInOrder ==
    rewound \/ \A n \in batch, m \in delivered : m < n

(* The cursor passes over no entry without a word: what is not above its   *)
(* position was given to the client, is being given, was cleaned up before *)
(* the cursor had a position, or was in a batch that a deadline emptied;   *)
(* else the client has been given an error.  The gate is what keeps record *)
(* ids in the order in which they are stored.                              *)
NothingPassedOver ==
    at = "reset" \/ alerted \/
    \A n \in log : n <= last => n \in delivered \cup batch \cup lost

(* What the client is given is the log, in its order.                      *)
DeliversTheLog == EntriesInOrder /\ NothingPassedOver

(* A cursor does not wait for a channel that nobody is about to close      *)
(* while the log has entries for it (the channel is taken before the       *)
(* query), except after a full batch or a deadline: then it does, until    *)
(* the next write.                                                         *)
NoLostWakeup ==
    at = "waiting" /\ kind = "await" /\ closing = "none" /\ ~changed
    /\ (\E n \in Stored : n > last)
    => withheld \/ alerted \/ \E w \in Writers : stage[w] = "stored"

(* A tailable cursor whose id the client has stays in the registry until   *)
(* it is killed or its connection ends.  The find that has a maxTimeMS is  *)
(* an exception: its closers cancel the context that the cursor lives in.  *)
TailStaysOpen ==
    handle = "open" /\ kind \in Tails /\ ~registered
    => closing = "kill" \/ ended \/ timer = "cancelled"

(* A cursor the client has been told is finished is not in the registry,   *)
(* and an open statement of the database belongs to a cursor of it or to a *)
(* running command; a find that fails leaves its tailable cursor behind    *)
(* until the connection ends.                                              *)
NothingLeftOpen ==
    /\ handle = "closed" /\ registered => alerted /\ ~rows
    /\ rows => registered \/ at # "rest"

RegistryMatchesClient == TailStaysOpen /\ NothingLeftOpen

EndsWithConnection == ended ~> ~registered /\ ~rows

(* The registry holds what the client may still ask for, and no more, and  *)
(* when the connection ends the cursor leaves it, with its statement       *)
(* closed, whatever command is running on it.                              *)
RegistryFollowsClient == []RegistryMatchesClient /\ EndsWithConnection

(* Every entry is reached by a tail whose client goes on asking, or the    *)
(* client has been told, or the entry waits for the next write.            *)
EveryEntryReached ==
    \A n \in 1 .. MaxEntries :
        handle = "open" /\ kind \in Tails /\ n \in log
        ~> n <= last \/ n < oldest \/ withheld \/ alerted \/ ended \/ ~registered
=============================================================================
