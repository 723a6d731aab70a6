--------------------------- MODULE TailCursorProofs ---------------------------
(***************************************************************************)
(* Proofs about TailCursor for any writers, batch sizes and kinds of       *)
(* cursors: what the client of a cursor is given is the log in its order,  *)
(* and a cursor does not sleep on entries that nothing will announce.  The *)
(* argument is about the position of the cursor and the snapshot its       *)
(* iterator still has to yield, whatever is appended, cleaned up, killed   *)
(* or cut off meanwhile.                                                   *)
(***************************************************************************)
EXTENDS TailCursor, FiniteSetTheorems, NaturalsInduction, WellFoundedInduction, TLAPS

(* The next entry of an iterator is the least one it still has.            *)
LEMMA NextEntry ==
    ASSUME NEW S \in SUBSET Nat, S # {}
    PROVE  Min(S) \in S /\ \A m \in S : Min(S) <= m
<1> DEFINE Less == OpToRel(<, Nat)
<1>1. \E n \in S : \A m \in S : ~ (<<m, n>> \in Less)
  <2>1. IsWellFoundedOn(Less, Nat)
    BY NatLessThanWellFounded
  <2> HIDE DEF Less
  <2> QED BY <2>1, WFMin
<1>2. PICK n \in S : \A m \in S : ~ (<<m, n>> \in Less)
  BY <1>1
<1>3. \A m \in S : m < n => <<m, n>> \in Less
  BY DEF OpToRel
<1> HIDE DEF Less
<1>4. \A m \in S : ~(m < n)
  BY <1>2, <1>3
<1>5. \A m \in S : n <= m
  BY <1>4
<1> QED BY <1>5 DEF Min

-----------------------------------------------------------------------------
(* The inductive invariant.                                                *)

Places == {"new", "findQuery", "first", "rest", "more", "waiting", "query", "reset", "batch"}

(* The places of a getMore.                                                *)
More == {"more", "waiting", "query", "reset", "batch"}

Types ==
    /\ oldest \in Nat /\ numbered \in Nat /\ log \subseteq 1 .. numbered
    /\ writing \in [Writers -> SUBSET (1 .. numbered)]
    /\ stage \in [Writers -> {"idle", "numbered", "stored"}]
    /\ rest \subseteq log /\ batch \subseteq log /\ delivered \subseteq log
    /\ last \in log \cup {0} /\ target \in log \cup {0}
    /\ at \in Places /\ size \in Nat

(* The gate lets one command write at a time, and so what it stores comes  *)
(* after everything that is stored.                                        *)
Gated ==
    /\ \A w, v \in Writers : stage[w] # "idle" /\ stage[v] # "idle" => w = v
    /\ \A w \in Writers : stage[w] = "numbered" => \A n \in writing[w], m \in log : m < n

Located ==
    /\ ~Reading => batch = {}
    /\ at \in {"waiting", "query"} => rest = {}
    /\ at \in {"new", "findQuery"} => last = 0 /\ delivered = {} /\ handle = "none"
    /\ at \in More => size # 0 /\ handle = "open"
    /\ at = "reset" => target # 0
    /\ alerted => at = "rest" /\ handle = "closed"

(* While Reset looks for the target, lastRecordID runs behind or ahead.    *)
Position == IF at = "reset" THEN target ELSE last

Covered ==
    alerted \/ \A n \in log : n <= Position => n \in delivered \cup batch \cup lost

(* What the iterator has to yield comes after the position, and leaves out *)
(* nothing in between but what was lost; so it will when Reset finds its   *)
(* target.                                                                 *)
RestFollows ==
    /\ at # "reset" =>
         \A m \in rest : /\ last < m
                         /\ \A n \in log : last < n /\ n < m => n \in rest \cup lost
    /\ at = "reset" /\ target \in rest =>
         \A m \in rest, n \in log : target < n /\ n < m => n \in rest

Ordered ==
    rewound \/ alerted \/
        /\ \A n \in delivered : n <= Position
        /\ \A n \in batch : n <= last /\ \A m \in delivered : m < n

(* The cursor's channel is open, and nobody has to close it.               *)
Watching ==
    /\ kind = "await" /\ closing = "none" /\ ~changed /\ ~alerted
    /\ \A w \in Writers : stage[w] # "stored"

(* Then every stored entry after the position is one the iterator has, or  *)
(* one an answer has left behind.                                          *)
Announcing ==
    Watching =>
        /\ at \in {"first", "batch"} => \A n \in Stored : last < n => n \in rest
        /\ at \in {"rest", "more", "waiting"} /\ handle = "open" =>
             \A n \in Stored : last < n => n \in rest \/ withheld
        /\ at = "reset" => \A n \in Stored : n \in rest \/ \A m \in rest : n < m

IInv == Types /\ Gated /\ Located /\ Covered /\ RestFollows /\ Ordered /\ Announcing

LEMMA InitInv == Init => IInv
BY DEF Init, IInv, Types, Places, More, Gated, Located, Position, Covered, RestFollows,
   Ordered, Watching, Announcing, Reading, Stored

-----------------------------------------------------------------------------
(* The writers and the cleanup: what they store comes after the position   *)
(* and after all that an iterator holds.                                   *)

LEMMA WriteInv ==
    ASSUME IInv, NEW w \in Writers,
           (\E k \in 0 .. MaxInsert : Number(w, k)) \/ Store(w) \/ StoreFails(w) \/ Notify(w)
    PROVE  IInv'
<1> USE DEF IInv, Types, asked, cursor, command, client, history
<1>a. UNCHANGED <<oldest, rest, last, target, batch, at, size, kind, closing, handle,
                  delivered, alerted, withheld, lost, rewound>>
  BY DEF Number, Store, StoreFails, Notify
<1>1. Located'
  BY <1>a DEF Located, Reading, More
<1>2. ASSUME NEW k \in Nat, Number(w, k) PROVE IInv'
  <2>1. Types' /\ Gated'
    BY <1>2 DEF Number, GateFree, Gated
  <2>2. Covered' /\ RestFollows' /\ Ordered' /\ Announcing'
    BY <1>2 DEF Number, Covered, Position, RestFollows, Ordered, Announcing, Watching, Stored
  <2> QED BY <1>1, <2>1, <2>2
<1>3. CASE Store(w)
  <2>1. Types' /\ Gated'
    BY <1>3 DEF Store, Gated
  <2>2. \A n \in writing[w] : \A m \in log : m < n /\ 0 < n
    BY <1>3 DEF Store, Gated
  <2>3. Covered' /\ RestFollows' /\ Ordered'
    BY <1>a, <1>3, <2>2 DEF Store, Covered, Position, RestFollows, Ordered
  <2>4. Announcing'
    BY <1>3 DEF Store, Announcing, Watching
  <2> QED BY <1>1, <2>1, <2>3, <2>4
<1>4. CASE StoreFails(w)
  <2>1. Types' /\ Gated'
    BY <1>4 DEF StoreFails, Gated
  <2>2. Covered' /\ RestFollows' /\ Ordered' /\ Announcing'
    BY <1>4 DEF StoreFails, Covered, Position, RestFollows, Ordered, Announcing, Watching, Stored
  <2> QED BY <1>1, <2>1, <2>2
<1>5. CASE Notify(w)
  <2>1. Types' /\ Gated'
    BY <1>5 DEF Notify, Gated
  <2>2. Covered' /\ RestFollows' /\ Ordered' /\ Announcing'
    BY <1>5 DEF Notify, Announce, Announced, Covered, Position, RestFollows, Ordered, Announcing,
       Watching
  <2> QED BY <1>1, <2>1, <2>2
<1> QED BY <1>2, <1>3, <1>4, <1>5, TailAssumption

(* A cleanup, whoever closes the cursor, and the timer stop at no place of *)
(* a command.                                                              *)
LEMMA AsideInv ==
    ASSUME IInv,
           \/ \E n \in 1 .. MaxEntries : Cleanup(n)
           \/ Kill \/ Watch \/ Remove \/ Disconnect \/ TimeLimit
    PROVE  IInv'
<1> USE DEF IInv, Types, writers, asked, cursor, command, client, history
<1>1. /\ UNCHANGED <<log, numbered, writing, stage, kind, last, target, batch, at, size,
                     handle, delivered, alerted, withheld, lost, rewound>>
      /\ rest' \in {rest, {}}
  BY DEF Cleanup, Kill, Watch, CloseFrom, IterClosed, Remove, Disconnect, TimeLimit
<1>2. Types' /\ Gated' /\ Located' /\ Covered' /\ RestFollows' /\ Ordered'
  <2>1. Types'
    BY <1>1 DEF Cleanup, Stored, Kill, Watch, CloseFrom, Remove, Disconnect, TimeLimit
  <2>2. Gated' /\ Located' /\ Covered' /\ RestFollows' /\ Ordered'
    BY <1>1 DEF Gated, Located, Reading, More, Covered, Position, RestFollows, Ordered
  <2> QED BY <2>1, <2>2
<1>3. Announcing'
  <2>1. ASSUME NEW n \in 1 .. MaxEntries, Cleanup(n) PROVE Announcing'
    BY <2>1 DEF Cleanup, Announced, Announcing, Watching
  <2>2. CASE Kill \/ Watch
    BY <2>2 DEF Kill, Watch, CloseFrom, Announcing, Watching
  <2>3. CASE Remove \/ Disconnect \/ TimeLimit
    BY <1>1, <2>3 DEF Remove, Disconnect, TimeLimit, Announcing, Watching, Stored
  <2> QED BY <2>1, <2>2, <2>3
<1> QED BY <1>2, <1>3

-----------------------------------------------------------------------------
(* Steps of a command that read no entry.                                  *)

LEMMA AskInv ==
    ASSUME IInv, Ask \/ Wake
    PROVE  IInv'
<1> USE DEF IInv, Types, writers, asked, cursor, command, client, history
<1>1. /\ UNCHANGED <<log, oldest, numbered, writing, stage, rest, last, target, batch, closing,
                     delivered, withheld, lost, rewound>>
      /\ Gated'
  BY DEF Ask, Find, GetMore, NotFound, Wake, Gated
<1>2. ASSUME NEW k \in Kinds, NEW one \in BOOLEAN, NEW limited \in BOOLEAN,
             NEW n \in FindSizes, Find(k, one, limited, n)
      PROVE  IInv'
  BY <1>1, <1>2, TailAssumption DEF Find, Places, Located, Reading, More, Covered, Position,
     RestFollows, Ordered, Announcing
<1>3. ASSUME NEW n \in MoreSizes, GetMore(n) PROVE IInv'
  <2>1. n \in Nat \ {0}
    BY TailAssumption
  <2>2. Types' /\ Located' /\ Covered' /\ RestFollows' /\ Ordered'
    BY <1>1, <1>3, <2>1 DEF GetMore, Places, Located, Reading, More, Covered, Position,
       RestFollows, Ordered
  <2>3. Announcing'
    BY <1>1, <1>3 DEF GetMore, Announcing, Watching, Stored
  <2> QED BY <1>1, <2>2, <2>3
<1>4. CASE NotFound
  BY <1>1, <1>4 DEF NotFound, Located, Reading, More, Covered, Position, RestFollows, Ordered,
     Announcing, Watching
<1>5. CASE Wake
  BY <1>1, <1>5 DEF Wake, Places, Located, Reading, More, Covered, Position, RestFollows,
     Ordered, Announcing
<1> QED BY <1>2, <1>3, <1>4, <1>5 DEF Ask

(* A query holds all that is stored, and what it does not hold has gone.   *)
LEMMA QueryInv ==
    ASSUME IInv, FindQuery \/ Query
    PROVE  IInv'
<1> USE DEF IInv, Types, writers, asked, cursor, command, client, history
<1>1. /\ UNCHANGED <<log, oldest, numbered, writing, stage, kind, closing, changed, last, batch,
                     size, handle, delivered, alerted, rewound>>
      /\ Gated' /\ rest' = Stored
  BY DEF FindQuery, Query, Gated
<1>2. \A n \in log : n \in Stored \/ n \in Gone
  BY DEF Gone
<1>3. CASE FindQuery
  <2>1. at = "findQuery" /\ at' = "first" /\ lost' = Gone /\ target' = target
    BY <1>3 DEF FindQuery
  <2>2. Types' /\ Located'
    BY <1>1, <2>1 DEF Places, Located, Reading, More, Stored
  <2>3. Covered' /\ RestFollows' /\ Ordered' /\ Announcing'
    BY <1>1, <1>2, <2>1, <2>2 DEF Located, Covered, Position, RestFollows, Ordered, Announcing, Watching, Stored
  <2> QED BY <1>1, <2>2, <2>3
<1>4. CASE Query
  <2>1. /\ at = "query" /\ target' = last /\ withheld' = FALSE
        /\ at' = IF last = 0 THEN "batch" ELSE "reset"
        /\ lost' = IF last = 0 THEN Gone ELSE lost
    BY <1>4 DEF Query
  <2>2. Types' /\ Located'
    BY <1>1, <2>1 DEF Places, Located, Reading, More, Stored
  <2>3. Covered' /\ Ordered'
    BY <1>1, <1>2, <2>1 DEF Located, Reading, Covered, Position, Ordered
  <2>4. RestFollows'
    BY <1>1, <1>2, <2>1 DEF RestFollows, Stored
  <2>5. Announcing'
    BY <1>1, <2>1 DEF Announcing, Stored
  <2> QED BY <1>1, <2>2, <2>3, <2>4, <2>5
<1> QED BY <1>3, <1>4

-----------------------------------------------------------------------------
(* Steps that read an entry, and those that answer.                        *)

LEMMA Next1Inv ==
    ASSUME IInv, Next1
    PROVE  IInv'
<1> USE DEF IInv, Types, writers, asked, command, client, history
<1>1. /\ UNCHANGED <<log, oldest, numbered, writing, stage, kind, closing, changed, at, size,
                     target, handle, delivered, alerted, withheld, lost, rewound>>
      /\ Gated' /\ at \in {"first", "more", "batch"} /\ rest # {}
  BY DEF Next1, Reading, Gated
<1>2. PICK n : n = Min(rest)
  OBVIOUS
<1>3. n \in rest /\ n \in Nat /\ \A m \in rest : n <= m
  <2>1. rest \in SUBSET Nat
    OBVIOUS
  <2> QED BY <1>1, <1>2, <2>1, NextEntry
<1>4. batch' = batch \cup {n} /\ last' = n /\ rest' = rest \ {n}
  BY <1>2 DEF Next1, LastAfter
<1>5. Types' /\ Located'
  BY <1>1, <1>3, <1>4 DEF Located, Reading, More
<1>6. Covered'
  BY <1>1, <1>3, <1>4 DEF Covered, Position, RestFollows
<1>7. RestFollows'
  BY <1>1, <1>3, <1>4 DEF RestFollows
<1>8. Ordered'
  BY <1>1, <1>3, <1>4 DEF Ordered, Position, RestFollows
<1>9. Announcing'
  BY <1>1, <1>3, <1>4 DEF Announcing, Watching, Stored, RestFollows
<1> QED BY <1>1, <1>5, <1>6, <1>7, <1>8, <1>9

(* An empty answer of a getMore comes from an iterator at its end.         *)
LEMMA OverFacts ==
    ASSUME IInv, Over
    PROVE  /\ at \in {"first", "more", "batch"}
           /\ ~Full => rest = {}
           /\ at \in More /\ batch = {} => rest = {}
BY FS_EmptySet DEF IInv, Types, Located, Over, Reading, Full

LEMMA ReplyInv ==
    ASSUME IInv, FindReply \/ MoreReply \/ BatchReply
    PROVE  IInv'
<1> USE DEF IInv, Types, writers
<1>1. /\ UNCHANGED <<log, oldest, numbered, writing, stage, kind, closing, changed, last, target,
                     alerted, lost, rewound>>
      /\ Gated' /\ Over /\ delivered' = delivered \cup batch /\ batch' = {}
      /\ size' = IF at' = "rest" THEN 0 ELSE size
      /\ rest' \in {rest, {}} /\ (~Full => rest' = {})
  BY DEF FindReply, MoreReply, BatchReply, Answer, Kept, Closed, IterClosed, ChangedAfter, Gated, Over
<1>2. /\ at = "first" => at' = "rest"
      /\ at # "first" => at' \in {"rest", "waiting", "query"}
      /\ at # "first" /\ at' # "rest" => batch = {} /\ (at = "more" => kind # "normal")
      /\ at \in {"first", "more", "batch"}
  <2>1. CASE FindReply
    BY <2>1 DEF FindReply, Answer
  <2>2. CASE MoreReply
    BY <2>2 DEF MoreReply, Answer
  <2>3. CASE BatchReply
    BY <2>3 DEF BatchReply, Answer
  <2> QED BY <2>1, <2>2, <2>3
<1>3. Types'
  BY <1>1, <1>2 DEF Places
<1>4. Located'
  <2>1. at' \in {"waiting", "query"} => rest = {}
    BY <1>1, <1>2, OverFacts DEF More
  <2>2. at # "first" /\ at' # "rest" => handle' = "open"
    BY <1>1, <1>2 DEF FindReply, MoreReply, BatchReply, Located, More
  <2> QED BY <1>1, <1>2, <2>1, <2>2 DEF Located, Reading, More
<1>5. Covered' /\ RestFollows'
  BY <1>1, <1>2 DEF Covered, Position, RestFollows
<1>6. Ordered'
  BY <1>1, <1>2 DEF Ordered, Position
<1>7. Announcing'
  <2>1. CASE FindReply
    <3>1. handle' = "open" => (rest' = {} /\ rest = {}) \/ rest' = rest
      BY <1>1, <2>1, OverFacts DEF FindReply, Exhausted, Kept
    <3> QED BY <1>1, <1>2, <2>1, <3>1 DEF FindReply, Announcing, Watching, Stored
  <2>2. CASE MoreReply
    <3>1. (rest' = {} /\ rest = {}) \/ rest' = rest
      BY <1>1, <2>2, OverFacts DEF MoreReply, Kept
    <3> QED BY <1>1, <1>2, <2>2, <3>1 DEF MoreReply, Announcing, Watching, Stored, Located, More
  <2>3. CASE BatchReply
    <3>1. at = "batch" /\ withheld' = (rest # {})
      BY <2>3 DEF BatchReply
    <3> QED BY <1>1, <1>2, <3>1 DEF Announcing, Watching, Stored
  <2> QED BY <2>1, <2>2, <2>3
<1> QED BY <1>1, <1>3, <1>4, <1>5, <1>6, <1>7

-----------------------------------------------------------------------------
(* Reset, and what breaks a command off.                                   *)

LEMMA SkipInv ==
    ASSUME IInv, Skip
    PROVE  IInv'
<1> USE DEF IInv, Types, writers, asked, client, history
<1>1. /\ UNCHANGED <<log, oldest, numbered, writing, stage, kind, closing, changed, size, batch,
                     handle, delivered, alerted, withheld, lost, rewound>>
      /\ Gated' /\ at = "reset" /\ rest # {} /\ batch = {}
  BY DEF Skip, Gated, Located, Reading
<1>2. PICK n : n = Min(rest)
  OBVIOUS
<1>3. n \in rest /\ n \in Nat /\ \A m \in rest : n <= m
  <2>1. rest \in SUBSET Nat
    OBVIOUS
  <2> QED BY <1>1, <1>2, <2>1, NextEntry
<1>4. /\ last' = n /\ rest' = rest \ {n}
      /\ n = target => at' = "batch" /\ target' = 0
      /\ n # target => at' = at /\ target' = target
  BY <1>2 DEF Skip
<1>5. Types' /\ Located'
  BY <1>1, <1>3, <1>4 DEF Places, Located, Reading, More
<1>6. Covered' /\ Ordered'
  BY <1>1, <1>3, <1>4 DEF Covered, Position, Ordered
<1>7. RestFollows'
  BY <1>1, <1>3, <1>4 DEF RestFollows
<1>8. Announcing'
  BY <1>1, <1>3, <1>4 DEF Announcing, Watching, Stored
<1> QED BY <1>1, <1>5, <1>6, <1>7, <1>8

LEMMA ExpireInv ==
    ASSUME IInv, Expire
    PROVE  IInv'
<1> USE DEF IInv, Types, writers, asked, client
<1>1. /\ UNCHANGED <<log, oldest, numbered, writing, stage, kind, closing, changed, last,
                     handle, delivered, alerted>>
      /\ Gated' /\ at \in More
      /\ rest' = {} /\ at' = "rest" /\ batch' = {} /\ size' = 0 /\ target' = 0
      /\ withheld' = (withheld \/ at # "waiting")
      /\ lost' = lost \cup batch
                   \cup (IF at = "reset" THEN {n \in log : target < n /\ n <= last} ELSE {})
      /\ rewound' = (rewound \/ (at = "reset" /\ last < target))
  BY DEF Expire, IterClosed, Gated, More
<1>2. Types' /\ Located'
  BY <1>1 DEF Places, Located, Reading, More
<1>3. Covered' /\ RestFollows'
  BY <1>1 DEF Covered, Position, RestFollows
<1>4. Ordered'
  <2> SUFFICES ASSUME ~rewound', ~alerted' PROVE \A n \in delivered : n <= last
    BY <1>1 DEF Ordered, Position
  <2>1. ~rewound /\ ~alerted /\ ~(at = "reset" /\ last < target)
    BY <1>1
  <2>2. \A n \in delivered : n <= Position
    BY <2>1 DEF Ordered
  <2> QED BY <2>1, <2>2 DEF Position
<1>5. Announcing'
  BY <1>1 DEF Announcing, Watching, Stored, Located, More
<1> QED BY <1>1, <1>2, <1>3, <1>4, <1>5

LEMMA BreakOffInv ==
    ASSUME IInv, Interrupt \/ Fail \/ ResetFails
    PROVE  IInv'
<1> USE DEF IInv, Types, writers, asked, history
<1>1. /\ UNCHANGED <<log, oldest, numbered, writing, stage, last, delivered>>
      /\ Gated' /\ at # "new"
      /\ rest' = {} /\ handle' = "closed" /\ at' = "rest" /\ batch' = {} /\ size' = 0
      /\ target' = 0 /\ alerted' = TRUE
  BY DEF Interrupt, Interrupted, Fail, ResetFails, BreakOff, Closed, IterClosed, Gated
<1>2. Types' /\ Located'
  BY <1>1 DEF Places, Located, Reading, More
<1>3. Covered' /\ RestFollows' /\ Ordered' /\ Announcing'
  BY <1>1 DEF Covered, RestFollows, Ordered, Announcing, Watching
<1> QED BY <1>1, <1>2, <1>3

LEMMA NextInv == IInv /\ [Next]_vars => IInv'
<1> SUFFICES ASSUME IInv, [Next]_vars PROVE IInv'
  OBVIOUS
<1>1. CASE \E w \in Writers : Write(w)
  BY <1>1, WriteInv DEF Write
<1>2. CASE Ask \/ Wake
  BY <1>2, AskInv
<1>3. CASE Serve
  BY <1>3, QueryInv, Next1Inv, ReplyInv, SkipInv, BreakOffInv DEF Serve
<1>4. CASE Expire \/ Fail
  BY <1>4, ExpireInv, BreakOffInv
<1>5. CASE (\E n \in 1 .. MaxEntries : Cleanup(n)) \/ Kill \/ Watch \/ Remove \/ Disconnect \/ TimeLimit
  BY <1>5, AsideInv
<1>6. CASE UNCHANGED vars
  <2> USE DEF vars, writers, asked, cursor, command, client, history
  <2>1. Types' /\ Gated' /\ Located' /\ Covered' /\ RestFollows' /\ Ordered'
    BY <1>6 DEF IInv, Types, Gated, Located, Reading, Covered, Position, RestFollows, Ordered
  <2>2. Announcing'
    BY <1>6 DEF IInv, Announcing, Watching, Stored
  <2> QED BY <2>1, <2>2 DEF IInv
<1> QED BY <1>1, <1>2, <1>3, <1>4, <1>5, <1>6 DEF Next

LEMMA Inductive == Spec => []IInv
BY InitInv, NextInv, PTL DEF Spec

(* What the client of a cursor is given is the log, in its order: nothing  *)
(* twice and nothing passed over, but for what the property excepts.       *)
THEOREM LogIsDelivered == Spec => []DeliversTheLog
<1>1. ASSUME IInv PROVE DeliversTheLog
  <2>1. EntriesInOrder
    BY <1>1 DEF IInv, Located, Reading, Ordered, EntriesInOrder
  <2>2. NothingPassedOver
    BY <1>1 DEF IInv, Covered, Position, NothingPassedOver
  <2> QED BY <2>1, <2>2 DEF DeliversTheLog
<1> QED BY <1>1, Inductive, PTL

(* No cursor waits for a channel that nobody is about to close while the   *)
(* log has entries for it, unless an answer has left them behind.          *)
THEOREM WakeupsAreNotLost == Spec => []NoLostWakeup
<1>1. ASSUME IInv PROVE NoLostWakeup
  <2> SUFFICES ASSUME at = "waiting", kind = "await", closing = "none", ~changed, ~alerted,
                      \A w \in Writers : stage[w] # "stored",
                      NEW n \in Stored, n > last
               PROVE  withheld
    BY DEF NoLostWakeup
  <2>1. rest = {} /\ handle = "open" /\ last < n
    BY <1>1 DEF IInv, Types, Located, More, Stored
  <2> QED BY <1>1, <2>1 DEF IInv, Announcing, Watching
<1> QED BY <1>1, Inductive, PTL

-----------------------------------------------------------------------------
(* The registry and the client.                                            *)

RegistryInv ==
    /\ closing \in {"none", "kill", "watch"}
    /\ closing = "watch" => ContextDone
    /\ at \in {"new", "findQuery"} => ~registered /\ ~rows /\ closing = "none"
    /\ ~registered /\ kind \in Tails /\ at \notin {"new", "findQuery"} /\ handle # "closed"
         => closing # "none"
    /\ rows /\ at \in {"first", "more", "rest"} => registered /\ closing = "none"
    /\ handle = "closed" => at = "rest" /\ (registered => alerted /\ ~rows)

LEMMA RegistryInit == Init => RegistryInv
BY DEF Init, RegistryInv, Tails

LEMMA RegistryStep == IInv /\ RegistryInv /\ [Next]_vars => RegistryInv'
<1> SUFFICES ASSUME IInv, RegistryInv, [Next]_vars PROVE RegistryInv'
  OBVIOUS
<1> USE DEF RegistryInv, writers, asked, cursor, command, client, history
<1>1. CASE UNCHANGED <<kind, registered, closing, rows, timer, at, handle, ended, alerted>>
  BY <1>1 DEF ContextDone
<1>2. CASE \E w \in Writers : Write(w)
  BY <1>1, <1>2 DEF Write, Number, Store, StoreFails, Notify
<1>3. CASE \E n \in 1 .. MaxEntries : Cleanup(n)
  BY <1>1, <1>3 DEF Cleanup
<1>4. CASE Kill \/ Watch \/ Remove
  BY <1>4 DEF Kill, Watch, Remove, CloseFrom, IterClosed, ContextDone
<1>5. CASE Disconnect \/ TimeLimit
  BY <1>5 DEF Disconnect, TimeLimit, ContextDone
<1>6. CASE Ask \/ Wake
  BY <1>6 DEF Ask, Find, GetMore, NotFound, Wake, ContextDone, IInv, Located
<1>7. CASE FindQuery \/ Query \/ Next1 \/ Skip
  <2>1. CASE FindQuery
    BY <2>1 DEF FindQuery, ContextDone, IInv, Located
  <2>2. CASE Query \/ Skip
    BY <2>2 DEF Query, Skip, ContextDone
  <2>3. CASE Next1
    BY <1>1, <2>3 DEF Next1
  <2> QED BY <1>7, <2>1, <2>2, <2>3
<1>8. CASE FindReply
  BY <1>8 DEF FindReply, Answer, IterClosed, Kept, Keeps, Exhausted, ContextDone, Tails, IInv,
     Located, Over, Reading
<1>9. CASE MoreReply
  <2>1. at = "more" /\ handle = "open"
    BY <1>9 DEF MoreReply, IInv, Located, More
  <2>2. at' \in {"rest", "waiting", "query"} /\ (kind = "normal" => at' = "rest")
    BY <1>9 DEF MoreReply, Answer
  <2>3. CASE Full
    BY <1>9, <2>1, <2>2, <2>3 DEF MoreReply, Answer, Kept, ContextDone
  <2>4. CASE ~Full
    BY <1>9, <2>1, <2>2, <2>4 DEF MoreReply, Answer, Closed, IterClosed, ContextDone, Tails
  <2> QED BY <2>3, <2>4
<1>10. CASE BatchReply
  <2>1. handle = "open"
    BY <1>10 DEF BatchReply, IInv, Located, More
  <2> QED BY <1>10, <2>1 DEF BatchReply, Answer, IterClosed, ContextDone
<1>11. CASE Expire
  <2>1. handle = "open"
    BY <1>11 DEF Expire, IInv, Located, More
  <2> QED BY <1>11, <2>1 DEF Expire, IterClosed, ContextDone
<1>12. CASE Interrupt \/ Fail \/ ResetFails
  BY <1>12 DEF Interrupt, Fail, ResetFails, BreakOff, Closed, IterClosed, ContextDone
<1>13. CASE UNCHANGED vars
  BY <1>1, <1>13 DEF vars
<1> QED BY <1>2, <1>3, <1>4, <1>5, <1>6, <1>7, <1>8, <1>9, <1>10, <1>11, <1>12, <1>13 DEF Next, Serve

(* The registry holds a tail as long as the client has its id and nothing  *)
(* has closed it, and no cursor the client has been told is finished: the  *)
(* part of RegistryFollowsClient that holds in every state.                *)
THEOREM RegistryAgreesWithClient == Spec => []RegistryMatchesClient
<1>1. ASSUME IInv, RegistryInv PROVE RegistryMatchesClient
  <2>1. TailStaysOpen
    <3>1. handle = "open" => at \notin {"new", "findQuery"}
      BY <1>1 DEF IInv, Located
    <3> QED BY <1>1, <3>1 DEF RegistryInv, ContextDone, TailStaysOpen
  <2>2. NothingLeftOpen
    BY <1>1 DEF RegistryInv, NothingLeftOpen
  <2> QED BY <2>1, <2>2 DEF RegistryMatchesClient
<1>2. Spec => []RegistryInv
  <2>1. IInv /\ RegistryInv /\ [Next]_vars => RegistryInv'
    BY RegistryStep
  <2> QED BY <2>1, RegistryInit, Inductive, PTL DEF Spec
<1> QED BY <1>1, <1>2, Inductive, PTL
=============================================================================
