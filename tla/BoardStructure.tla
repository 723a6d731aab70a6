---------------------------- MODULE BoardStructure ----------------------------
(***************************************************************************)
(* The two steps of the schema upgrade that repair the structure of boards *)
(* (internal/migrations/structure.go): every card gets a swimlane of its   *)
(* board and a list that exists, and lists that were split by swimlane are *)
(* joined again.  They are long sequences of single writes, without a      *)
(* transaction, over documents that any earlier version may have left; an  *)
(* update of many documents writes them one by one.  A run may fail or be  *)
(* killed before each of these, and a later boot begins again.             *)
(* SchemaUpgrade models when the steps run and what their errors do.       *)
(***************************************************************************)
EXTENDS Integers, FiniteSets, FiniteSetsExt

CONSTANTS
    Boards,      \* ids of boards, of which some may have been deleted
    Cards,
    Titles, Rescued,     \* titles of lists, and the one the rescue gives
    Lanes, Lists,        \* numbers of the lanes and lists there have been, in
                         \* the order of their sort and creation
    None,                \* a missing, null or empty reference
    Databases,           \* what earlier versions may have left
    MaxRuns              \* bound: runs of the two steps

ASSUME StructureAssumption ==
    /\ Lanes \in SUBSET Nat /\ Lists \in SUBSET Nat
    /\ IsFiniteSet(Lanes \cup Lists) /\ IsFiniteSet(Cards)
    /\ Lanes # {} /\ Lists # {}
    /\ None \notin Nat \cup Boards /\ Rescued \notin Titles
    /\ MaxRuns \in Nat

(* What the steps read of the documents.                                   *)
Lane == [board : Boards, kind : {"visible", "hidden"}]
List == [board : Boards, title : Titles \cup {Rescued}, lane : Nat \cup {None},
         kind : {"active", "archived", "template"}]
Card == [board : Boards, list : Nat \cup {None}, lane : Nat \cup {None},
         archived : BOOLEAN]

ASSUME DatabasesAssumption ==
    \A d \in Databases :
        /\ d.boards \subseteq Boards /\ d.marked \subseteq d.boards
        /\ DOMAIN d.lanes \subseteq Lanes /\ d.lanes \in [DOMAIN d.lanes -> Lane]
        /\ DOMAIN d.lists \subseteq Lists /\ d.lists \in [DOMAIN d.lists -> List]
        /\ d.cards \in [Cards -> Card]

VARIABLES
    boards,      \* boards that have a document
    marked,      \* those with a marker of the era of split lists
    lanes,       \* lanes[i]: board and kind
    lists,       \* lists[i]: board, title, swimlane and kind
    cards,       \* cards[c]: board, list, swimlane, archived
    phase,       \* what the run is at
    defaults, owners, first,   \* what the run has read or decided of boards
    todo, board, from,         \* boards and lists the run has to join
    clean,       \* no step of the run has failed
    completed,   \* history: a run has ended without an error
    runs

database == <<boards, marked, lanes, lists, cards>>
reads == <<defaults, owners, first>>
work == <<todo, board, from>>
vars == <<database, phase, reads, work, clean, completed, runs>>

Least(S) == IF S = {} THEN None ELSE Min(S)

(* An identifier that no document has had.                                 *)
New(S) == 1 + Max(S)

(* The local variables of a step are gone when it has ended.               *)
Unread == [b \in Boards |-> None]

Forget == defaults' = Unread /\ owners' = [i \in {} |-> None] /\ first' = Unread

-----------------------------------------------------------------------------
(* What the two steps ask of the database.                                 *)

(* Mutant of Defaults: a lane without cards does not count.                *)
Defaults_Used == [b \in Boards |->
    Least({i \in DOMAIN lanes : /\ lanes[i].board = b /\ lanes[i].kind = "visible"
                                /\ \E c \in Cards : cards[c].lane = i})]

(* The first lane of a board that is neither archived nor of a template.   *)
Defaults == [b \in Boards |->
    Least({i \in DOMAIN lanes : lanes[i].board = b /\ lanes[i].kind = "visible"})]

Owners == [i \in DOMAIN lanes |-> lanes[i].board]

OwnedBy(i, b) == i \in DOMAIN owners /\ owners[i] = b

(* Any list will do for a rescue, archived ones too.                       *)
First == [b \in Boards |-> Least({i \in DOMAIN lists : lists[i].board = b})]

Lost(c) == cards[c].list # None /\ cards[c].list \notin DOMAIN lists

Foreign(c) ==
    /\ ~cards[c].archived /\ cards[c].lane # None
    /\ cards[c].lane \notin {i \in DOMAIN lanes : lanes[i].board = cards[c].board}

(* Mutant of NeedsStructure: the join of cards and swimlanes is left out.  *)
NeedsStructure_NoJoin ==
    \/ \E c \in Cards : cards[c].lane = None \/ Lost(c)
    \/ \E b \in boards : \A i \in DOMAIN lanes : lanes[i].board # b

NeedsStructure ==
    \/ \E c \in Cards : cards[c].lane = None \/ Lost(c) \/ Foreign(c)
    \/ \E b \in boards : \A i \in DOMAIN lanes : lanes[i].board # b

ListsOf(b) == {i \in DOMAIN lists : lists[i].board = b /\ lists[i].kind # "template"}

Active(b) == {i \in ListsOf(b) : lists[i].kind = "active"}

Stamped(b) == {i \in ListsOf(b) : lists[i].lane # None}

Duplicates(b) ==
    \E i, j \in Active(b) : i # j /\ lists[i].title = lists[j].title

(* A list of one swimlane holds a card of another.                         *)
Mismatch(i) ==
    /\ lists[i].lane # None
    /\ \E c \in Cards : cards[c].list = i /\ cards[c].lane \notin {lists[i].lane, None}

NeedsMerge ==
    \/ marked # {}
    \/ \E b \in Boards : Stamped(b) # {} /\ (Duplicates(b) \/ \E i \in ListsOf(b) : Mismatch(i))

(* Archived lists count for the question whether to run, and not here.     *)
Split(b) == b \in marked \/ Duplicates(b) \/ \E i \in Active(b) : Mismatch(i)

-----------------------------------------------------------------------------
(* The run, and the ways it can fail.                                      *)

Begin ==
    /\ phase = "idle" /\ runs < MaxRuns
    /\ runs' = runs + 1 /\ clean' = TRUE
    /\ phase' = "check"
    /\ UNCHANGED <<database, reads, work, completed>>

Structural == {"check", "lanes", "fill", "rescue", "rehome"}

(* The first step fails and the second is tried; or the process is gone.   *)
Fail ==
    /\ phase # "idle"
    /\ \/ phase \in Structural /\ phase' = "checkmerge"
       \/ phase' = "idle"
    /\ clean' = FALSE
    /\ Forget /\ todo' = {} /\ board' = None /\ from' = None
    /\ UNCHANGED <<database, completed, runs>>

End ==
    /\ phase = "ended"
    /\ phase' = "idle" /\ completed' = (completed \/ clean)
    /\ UNCHANGED <<database, reads, work, clean, runs>>

-----------------------------------------------------------------------------
(* RunSwimlaneStructure.                                                   *)

CheckStructure ==
    /\ phase = "check"
    /\ \/ NeedsStructure /\ phase' = "lanes" /\ defaults' = Defaults /\ owners' = Owners
       \/ ~NeedsStructure /\ phase' = "checkmerge" /\ UNCHANGED <<defaults, owners>>
    /\ UNCHANGED <<database, first, work, clean, completed, runs>>

Bare == {b \in boards : defaults[b] = None}

InsertLane(b) ==
    /\ phase = "lanes" /\ b \in Bare
    /\ LET i == New(DOMAIN lanes \cup Lanes) IN
       /\ lanes' = [j \in DOMAIN lanes \cup {i} |->
                       IF j = i THEN [board |-> b, kind |-> "visible"] ELSE lanes[j]]
       /\ defaults' = [defaults EXCEPT ![b] = i]
    /\ UNCHANGED <<boards, marked, lists, cards, phase, owners, first, work, clean,
                   completed, runs>>

LanesEnd ==
    /\ phase = "lanes" /\ Bare = {}
    /\ phase' = "fill"
    /\ UNCHANGED <<database, reads, work, clean, completed, runs>>

(* UpdateMany reaches one more card.                                       *)
Place(c, list, lane) ==
    /\ cards' = [cards EXCEPT ![c].list = list, ![c].lane = lane]
    /\ UNCHANGED <<boards, marked, lanes, lists, phase, reads, work, clean, completed, runs>>

Unplaced == {c \in Cards : cards[c].lane = None /\ defaults[cards[c].board] # None}

Fill(c) ==
    /\ phase = "fill" /\ c \in Unplaced
    /\ Place(c, cards[c].list, defaults[cards[c].board])

FillEnds ==
    /\ phase = "fill" /\ Unplaced = {}
    /\ phase' = "rescue" /\ first' = First
    /\ UNCHANGED <<database, defaults, owners, work, clean, completed, runs>>

InsertRescueList(b) ==
    /\ phase = "rescue" /\ first[b] = None
    /\ \E c \in Cards : Lost(c) /\ cards[c].board = b
    /\ LET i == New(DOMAIN lists \cup Lists) IN
       /\ lists' = [j \in DOMAIN lists \cup {i} |->
                       IF j = i THEN [board |-> b, title |-> Rescued,
                                      lane |-> defaults[b], kind |-> "active"]
                       ELSE lists[j]]
       /\ first' = [first EXCEPT ![b] = i]
    /\ UNCHANGED <<boards, marked, lanes, cards, phase, defaults, owners, work, clean,
                   completed, runs>>

(* A rescued card takes the swimlane of the list, if that has one.         *)
Rescue(c) ==
    LET b == cards[c].board IN
    /\ phase = "rescue" /\ Lost(c) /\ first[b] # None
    /\ Place(c, first[b], IF lists[first[b]].lane # None THEN lists[first[b]].lane
                          ELSE defaults[b])

RescueEnds ==
    /\ phase = "rescue" /\ \A c \in Cards : ~Lost(c)
    /\ phase' = "rehome"
    /\ UNCHANGED <<database, reads, work, clean, completed, runs>>

(* A card in use whose swimlane is not of its board goes to the default.   *)
Stray == {c \in Cards :
    /\ ~cards[c].archived /\ cards[c].lane # None
    /\ ~OwnedBy(cards[c].lane, cards[c].board)
    /\ defaults[cards[c].board] \notin {None, cards[c].lane}}

Rehome(c) ==
    /\ phase = "rehome" /\ c \in Stray
    /\ Place(c, cards[c].list, defaults[cards[c].board])

RehomeEnds ==
    /\ phase = "rehome" /\ Stray = {}
    /\ phase' = "checkmerge" /\ Forget
    /\ UNCHANGED <<database, work, clean, completed, runs>>

-----------------------------------------------------------------------------
(* RunMergePerSwimlaneLists.                                               *)

CheckMerge ==
    /\ phase = "checkmerge"
    /\ \/ NeedsMerge /\ phase' = "merge" /\ todo' = marked \cup {b \in Boards : Stamped(b) # {}}
       \/ ~NeedsMerge /\ phase' = "ended" /\ UNCHANGED todo
    /\ UNCHANGED <<database, reads, board, from, clean, completed, runs>>

MergeBoard(b) ==
    /\ phase = "merge" /\ b \in todo
    /\ todo' = todo \ {b}
    /\ \/ Split(b) /\ phase' = "join" /\ board' = b
       \/ ~Split(b) /\ UNCHANGED <<phase, board>>
    /\ UNCHANGED <<database, reads, from, clean, completed, runs>>

MergeEnds ==
    /\ phase = "merge" /\ todo = {}
    /\ phase' = "ended"
    /\ UNCHANGED <<database, reads, work, clean, completed, runs>>

(* Of the lists of one title the first shared one stays, or else the first.*)
Survivor(i) ==
    LET same == {j \in Active(board) : lists[j].title = lists[i].title}
        shared == {j \in same : lists[j].lane = None}
    IN  Min(IF shared # {} THEN shared ELSE same)

Absorbed == {i \in Active(board) : Survivor(i) # i}

JoinList(i) ==
    /\ phase = "join" /\ i \in Absorbed
    /\ from' = i /\ phase' = "relink"
    /\ UNCHANGED <<database, reads, todo, board, clean, completed, runs>>

(* Mutant of Held: archived cards are not asked for.                       *)
Held_InUse(c) == cards[c].list = from /\ ~cards[c].archived

Held(c) == cards[c].list = from

Relink(c) ==
    /\ phase = "relink" /\ Held(c)
    /\ Place(c, Survivor(from), cards[c].lane)

DeleteList ==
    /\ phase = "relink" /\ \A c \in Cards : ~Held(c)
    /\ lists' = [i \in DOMAIN lists \ {from} |-> lists[i]]
    /\ phase' = "join" /\ from' = None
    /\ UNCHANGED <<boards, marked, lanes, cards, reads, todo, board, clean, completed,
                   runs>>

(* Mutant of AfterJoin: the lists keep their swimlanes.                    *)
AfterJoin_Clear == "clear"

AfterJoin == "unstamp"

JoinEnds ==
    /\ phase = "join" /\ Absorbed = {}
    /\ phase' = AfterJoin
    /\ UNCHANGED <<database, reads, work, clean, completed, runs>>

(* Archived lists become shared again as well.                             *)
Unstamp(i) ==
    /\ phase = "unstamp" /\ i \in Stamped(board)
    /\ lists' = [lists EXCEPT ![i].lane = None]
    /\ UNCHANGED <<boards, marked, lanes, cards, phase, reads, work, clean, completed, runs>>

UnstampEnds ==
    /\ phase = "unstamp" /\ Stamped(board) = {}
    /\ phase' = "clear"
    /\ UNCHANGED <<database, reads, work, clean, completed, runs>>

ClearMarkers ==
    /\ phase = "clear"
    /\ marked' = marked \ {board}
    /\ phase' = "merge" /\ board' = None
    /\ UNCHANGED <<boards, lanes, lists, cards, reads, todo, from, clean, completed, runs>>

-----------------------------------------------------------------------------
Init ==
    /\ \E d \in Databases :
         /\ boards = d.boards /\ marked = d.marked
         /\ lanes = d.lanes /\ lists = d.lists /\ cards = d.cards
    /\ phase = "idle"
    /\ defaults = Unread /\ owners = [i \in {} |-> None] /\ first = Unread
    /\ todo = {} /\ board = None /\ from = None
    /\ clean = TRUE /\ completed = FALSE /\ runs = 0

StructureStep ==
    \/ CheckStructure \/ LanesEnd \/ FillEnds \/ RescueEnds \/ RehomeEnds
    \/ \E b \in Boards : InsertLane(b) \/ InsertRescueList(b)
    \/ \E c \in Cards : Fill(c) \/ Rescue(c) \/ Rehome(c)

MergeStep ==
    \/ CheckMerge \/ MergeEnds \/ DeleteList \/ JoinEnds \/ UnstampEnds \/ ClearMarkers
    \/ \E b \in Boards : MergeBoard(b)
    \/ \E i \in DOMAIN lists : JoinList(i) \/ Unstamp(i)
    \/ \E c \in Cards : Relink(c)

Next == Begin \/ StructureStep \/ MergeStep \/ End \/ Fail

Spec == Init /\ [][Next]_vars
-----------------------------------------------------------------------------
TypeOK ==
    /\ boards \subseteq Boards /\ marked \subseteq boards
    /\ DOMAIN lanes \subseteq Nat /\ lanes \in [DOMAIN lanes -> Lane]
    /\ DOMAIN lists \subseteq Nat /\ lists \in [DOMAIN lists -> List]
    /\ cards \in [Cards -> Card]
    /\ todo \subseteq Boards /\ board \in Boards \cup {None} /\ from \in Nat \cup {None}

Housed(c) == cards[c].list \in DOMAIN lists

Column(c) == [board |-> lists[cards[c].list].board, title |-> lists[cards[c].list].title]

(* Whatever is joined, rescued or interrupted, a card that is in a list    *)
(* stays in one, of the same title on the same board: no list goes before  *)
(* its last card (RunMergePerSwimlaneLists, "preserves renamed columns").  *)
CardsStayInTheirColumn ==
    [][\A c \in Cards : Housed(c) => Housed(c)' /\ Column(c)' = Column(c)]_vars

(* Lanes and lists that the run creates are found again by later runs: a   *)
(* board gets at most one of each, however many runs fail on the way.      *)
CreatedOnce ==
    \A b \in Boards :
        /\ Cardinality({i \in DOMAIN lanes \ Lanes : lanes[i].board = b}) <= 1
        /\ Cardinality({i \in DOMAIN lists \ Lists : lists[i].board = b}) <= 1

(* After a run without errors, whatever its predecessors left behind: the  *)
(* cards of a board that exists have a lane, those in use one of their     *)
(* board, every list that a card names exists, and no board has a list in  *)
(* use that is split or holds cards of several lanes under the name of one.*)
RunRepairs ==
    completed =>
        /\ \A c \in Cards : ~Lost(c)
        /\ \A c \in Cards : cards[c].board \in boards => cards[c].lane # None /\ ~Foreign(c)
        /\ marked = {}
        /\ \A b \in Boards : Stamped(b) # {} => ~Split(b)

(* ... and a later run, forced or of another version, finds nothing to do. *)
RunIsIdempotent == [][completed => UNCHANGED database]_vars

(* The marker of a split board, which makes a later run join it whatever   *)
(* its lists look like, goes when it is joined and not before.             *)
MarkerGoesLast ==
    [][\A b \in marked \ marked' : Stamped(b) = {} /\ ~Duplicates(b)]_vars
=============================================================================
