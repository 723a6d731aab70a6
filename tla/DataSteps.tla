------------------------------ MODULE DataSteps ------------------------------
(***************************************************************************)
(* Four steps of the schema upgrade that read documents and write them     *)
(* back, while users change them, in the order of the runner: the embedded *)
(* items of a checklist, the members of a board, the minicard flags        *)
(* (module ChecklistMinicard) and the paths of attachments                 *)
(* (internal/migrations/fields.go and files.go).                           *)
(*                                                                         *)
(* A step that fails leaves its turn to the next; a boot begins again at   *)
(* the first.  There is one checklist, one board and one attachment, whose *)
(* long names are not cut, and files of one prefix are found in any order. *)
(***************************************************************************)
EXTENDS ChecklistMinicard, Sequences, FiniteSetsExt, Functions, TLC

CONSTANTS
    Items,       \* the embedded items of the checklist
    Users,       \* the users of the board
    Words,       \* the parts that the names of files are made of
    Databases    \* the databases to begin with

VARIABLES
    turn, at,    \* whose turn it is, and where the step is
    read,        \* what the step has read
    embedded,    \* the items that are still in the checklist
    copied,      \* items with a copy of their own, as the step has made it
    made,        \* history: copies made of each item
    touched,     \* history: copies of each that a user edited or deleted
    members,     \* none, unset, active or inactive, for each user
    wish,        \* history: what each user was last set to
    raced,       \* history: users set while the members were being changed
    disk,        \* the files, [dir, name], with the version each holds
    mounted,     \* the old upload directory is there
    path,        \* the path each version of the attachment records
    guessed      \* history: versions whose file was found by its prefix only

items == <<embedded, copied, made, touched>>
board == <<members, wish, raced>>
files == <<disk, mounted, path, guessed>>
runner == <<turn, at, read>>
allVars == <<vars, items, board, files, runner>>

-----------------------------------------------------------------------------
(* The runner.                                                             *)

NextTurn ==
    [items |-> "members", members |-> "minicard", minicard |-> "paths", paths |-> "none",
     command |-> "none"]

Advance == turn' = NextTurn[turn] /\ at' = "check" /\ read' = "nothing"

Go(place, what) == at' = place /\ read' = what /\ UNCHANGED turn

Boot ==
    /\ turn = "none" /\ phase = "idle"
    /\ turn' = "items" /\ at' = "check" /\ read' = "nothing"
    /\ UNCHANGED <<vars, items, board, files>>

(* Any call to the database fails, at any place of a step.                 *)
StepFails ==
    /\ turn \in {"items", "members", "paths"}
    /\ Advance
    /\ UNCHANGED <<vars, items, board, files>>

Crash ==
    /\ turn # "none"
    /\ turn' = "none" /\ at' = "check" /\ read' = "nothing" /\ phase' = "idle"
    /\ UNCHANGED <<flag, marker, completed, later, runs, choices, items, board, files>>

(* The check of a step, which is skipped when it finds nothing.            *)
CheckStep(step, needed) ==
    /\ turn = step /\ at = "check"
    /\ IF needed THEN Go("read", read) ELSE Advance
    /\ UNCHANGED <<vars, items, board, files>>

-----------------------------------------------------------------------------
(* checklist-items-embedded.                                               *)

CheckItems == CheckStep("items", embedded # {})

ReadItems ==
    /\ turn = "items" /\ at = "read"
    /\ Go("insert", copied)
    /\ UNCHANGED <<vars, items, board, files>>

(* Mutant of Missing: the copies that are there are not looked at.         *)
Missing_All == embedded

Missing == embedded \ read

(* InsertMany without an order inserts some before it fails.               *)
InsertItems(some) ==
    /\ turn = "items" /\ at = "insert" /\ some \subseteq Missing
    /\ copied' = copied \cup some
    /\ made' = [i \in Items |-> IF i \in some THEN made[i] + 1 ELSE made[i]]
    /\ IF some = Missing THEN Go("unset", read) ELSE Advance
    /\ UNCHANGED <<vars, embedded, touched, board, files>>

UnsetItems ==
    /\ turn = "items" /\ at = "unset"
    /\ embedded' = {}
    /\ Advance
    /\ UNCHANGED <<vars, copied, made, touched, board, files>>

(* A user renames, moves, finishes or deletes a copy, which the step knows *)
(* by its title, sort and state only.                                      *)
TouchItem(i) ==
    /\ i \in copied /\ choices < MaxChoices
    /\ choices' = choices + 1
    /\ copied' = copied \ {i}
    /\ touched' = [touched EXCEPT ![i] = @ + 1]
    /\ UNCHANGED <<flag, marker, phase, completed, later, runs, embedded, made,
                   board, files, runner>>

-----------------------------------------------------------------------------
(* board-members-isactive.                                                 *)

CheckMembers == CheckStep("members", \E u \in Users : members[u] = "unset")

ReadMembers ==
    /\ turn = "members" /\ at = "read"
    /\ Go("write", members)
    /\ UNCHANGED <<vars, items, board, files>>

(* Mutant of NeedsDefault: false is taken for a default, too.              *)
NeedsDefault_Falsy(value) == value \in {"unset", "inactive"}

NeedsDefault(value) == value = "unset"

WriteMembers ==
    /\ turn = "members" /\ at = "write"
    /\ members' = IF \A u \in Users : ~NeedsDefault(read[u]) THEN members
                  ELSE [u \in Users |-> IF NeedsDefault(read[u]) THEN "active" ELSE read[u]]
    /\ Advance
    /\ UNCHANGED <<vars, items, wish, raced, files>>

(* A user joins, leaves, or is taken out of the board.                     *)
SetMember(u, value) ==
    /\ choices < MaxChoices /\ members[u] # value
    /\ choices' = choices + 1
    /\ members' = [members EXCEPT ![u] = value]
    /\ wish' = [wish EXCEPT ![u] = value]
    /\ raced' = IF turn = "members" /\ at = "write" THEN raced \cup {u} ELSE raced \ {u}
    /\ UNCHANGED <<flag, marker, phase, completed, later, runs, items, files, runner>>

-----------------------------------------------------------------------------
(* fs-path-heal.  A name is the sequence of its parts.                     *)

Versions == <<"original", "thumbnail">>
NoPath == [dir |-> "none", name |-> <<>>]
File(dir, name) == [dir |-> dir, name |-> name]
AnyFile == [dir : {"none", "files", "uploads", "root", "lost"}, name : Seq(Words)]
Short == "short"

(* The name of a copy, and the names that say no version.                  *)
Prefixed(v, name) == <<"id", v>> \o name
NoVersion == {<<"id">>, <<"id", "name">>}

(* A name that begins like those of a version's copies.                    *)
SaysVersion(v, name) == Len(name) > 2 /\ name[1] = "id" /\ name[2] = v

IsThere(f) == f \in DOMAIN disk /\ (f.dir = "uploads" => mounted)
NeedsHeal(v) == ~IsThere(path[v])
Broken == {v \in Range(Versions) : NeedsHeal(v)}

(* Where an older layout may have left the file.  No file has the name of  *)
(* a version without a path, which is empty.                               *)
Candidates(v) ==
    LET base == path[v].name
    IN <<File("files", base), File("files", <<"id">>), File("files", Prefixed(v, <<"name">>)),
         File("files", <<"id", "name">>), File("uploads", base), File("uploads", <<"id">>),
         File("root", <<"id", "name">>)>>

Named(version) == {f \in DOMAIN disk : f.dir = "files" /\ SaysVersion(version, f.name)}

(* The directory is searched in the order of the names.                    *)
Search(v) == IF Named("original") # {} THEN Named("original") ELSE Named(v)

(* The first candidate is taken that is there, or else what is found.      *)
Found(v) ==
    LET there == {n \in DOMAIN Candidates(v) : IsThere(Candidates(v)[n])}
    IN IF there = {} THEN Search(v) ELSE {Candidates(v)[Min(there)]}

Final(v, f) == IF f.dir = "files" THEN f ELSE File("files", Prefixed(v, f.name))

CheckPaths == CheckStep("paths", Broken # {})

ReadPaths ==
    /\ turn = "paths" /\ at = "read"
    /\ IF Broken = {} THEN Advance ELSE Go("heal", [broken |-> Broken])
    /\ UNCHANGED <<vars, items, board, files>>

(* The version the step is at, in the order of the document, and the rest. *)
Current == Versions[Min({n \in DOMAIN Versions : Versions[n] \in read.broken})]

Rest ==
    LET left == read.broken \ {Current}
    IN IF left = {} THEN Advance ELSE Go("heal", [broken |-> left])

(* Nothing is found, or the directory or the file cannot be made.          *)
NotHealed ==
    /\ turn = "paths" /\ at = "heal"
    /\ \/ Found(Current) = {}
       \/ \E from \in Found(Current) : from # Final(Current, from)
    /\ Rest
    /\ UNCHANGED <<vars, items, board, files>>

(* A file in an old place is copied, into the file that it will be.        *)
Heal ==
    /\ turn = "paths" /\ at = "heal"
    /\ \E from \in Found(Current) :
          LET to == Final(Current, from)
          IN /\ Go(IF from = to THEN "record" ELSE "copy",
                   [broken |-> read.broken, from |-> from, to |-> to])
             /\ disk' = IF from = to THEN disk
                        ELSE [f \in DOMAIN disk \cup {to} |-> IF f = to THEN Short ELSE disk[f]]
             /\ guessed' = IF from \in Range(Candidates(Current)) THEN guessed \ {Current}
                           ELSE guessed \cup {Current}
    /\ UNCHANGED <<vars, items, board, mounted, path>>

(* Mutant of CopyFailed: a copy that has failed is recorded.               *)
CopyFailed_Recorded == Go("record", read)

CopyFailed == Rest

CopyEnds ==
    /\ turn = "paths" /\ at = "copy"
    /\ \/ IsThere(read.from) /\ disk' = [disk EXCEPT ![read.to] = disk[read.from]] /\ Go("record", read)
       \/ UNCHANGED disk /\ CopyFailed
    /\ UNCHANGED <<vars, items, board, mounted, path, guessed>>

RecordPath ==
    /\ turn = "paths" /\ at = "record"
    /\ path' = [path EXCEPT ![Current] = read.to]
    /\ Rest
    /\ UNCHANGED <<vars, items, board, disk, mounted, guessed>>

(* A volume is missing, or comes back.                                     *)
Mount ==
    /\ choices < MaxChoices
    /\ choices' = choices + 1
    /\ mounted' = ~mounted
    /\ UNCHANGED <<flag, marker, phase, completed, later, runs, items, board, disk, path, guessed, runner>>

-----------------------------------------------------------------------------
(* checklist-minicard-unset, which the command line also runs alone.       *)

Minicard ==
    /\ \/ turn = "minicard" /\ at = "check" /\ Begin("check") /\ Go("run", read)
       \/ turn = "none" /\ Begin("run") /\ turn' = "command" /\ at' = "run" /\ UNCHANGED read
       \/ /\ turn \in {"minicard", "command"} /\ at = "run"
          /\ \/ Check \/ Run \/ Mark \/ Fail
             \/ \E cs \in SUBSET Checklists : Unset(cs)
          /\ IF phase' = "idle" THEN Advance ELSE UNCHANGED runner
    /\ UNCHANGED <<items, board, files>>

ChooseFlag ==
    /\ \E c \in Checklists, value \in {"true", "choice"} : Choose(c, value)
    /\ UNCHANGED <<items, board, files, runner>>

ASSUME WordsAssumption == {"id", "name", "original", "thumbnail"} \subseteq Words

(* What the application leaves: an item that is not embedded has a copy;   *)
(* no file is short; and the file that a version's path names, wherever it *)
(* is now, is its own, as is one whose name says the version, but for old  *)
(* names that do not say it.                                               *)
ASSUME DatabasesAssumption ==
    \A d \in Databases :
       /\ d.embedded \subseteq Items /\ d.copied \subseteq Items
       /\ Items \ d.embedded \subseteq d.copied
       /\ d.members \in [Users -> {"none", "unset", "active", "inactive"}]
       /\ d.path \in [Range(Versions) -> AnyFile]
       /\ \A f \in DOMAIN d.disk :
             /\ f \in AnyFile /\ f.name # <<>> /\ d.disk[f] \in Range(Versions)
             /\ \A v \in Range(Versions) :
                  \/ d.disk[f] = v
                  \/ f.dir = "files" /\ \E name \in NoVersion : f.name = Prefixed(v, name)
                  \/ /\ f.name = d.path[v].name => f.name \in NoVersion
                     /\ f.dir = "files" => ~SaysVersion(v, f.name)
       /\ \A v, w \in Range(Versions) : SaysVersion(w, d.path[v].name) => w = v

DataInit ==
    /\ Init
    /\ turn = "none" /\ at = "check" /\ read = "nothing"
    /\ \E d \in Databases :
          /\ flag \in d.flags /\ embedded = d.embedded /\ copied = d.copied /\ members = d.members
          /\ disk = d.disk /\ path = d.path
    /\ made = [i \in Items |-> IF i \in copied THEN 1 ELSE 0]
    /\ touched = [i \in Items |-> 0]
    /\ wish = members /\ raced = {} /\ mounted = TRUE /\ guessed = {}

DataNext ==
    \/ Boot \/ StepFails \/ Crash
    \/ CheckItems \/ ReadItems \/ UnsetItems
    \/ \E some \in SUBSET Items : InsertItems(some)
    \/ CheckMembers \/ ReadMembers \/ WriteMembers
    \/ CheckPaths \/ ReadPaths \/ NotHealed \/ Heal \/ CopyEnds \/ RecordPath
    \/ Minicard
    \/ ChooseFlag \/ Mount
    \/ \E i \in Items : TouchItem(i)
    \/ \E u \in Users, value \in {"none", "active", "inactive"} : SetMember(u, value)

DataSpec == DataInit /\ [][DataNext]_allVars
-----------------------------------------------------------------------------
(* An embedded item gets one copy of its own, and another only when a user *)
(* has touched the last before the checklist gave the item up, whatever    *)
(* fails in between; none is given up before it has one (fields.go,        *)
(* RunChecklistItemsEmbedded).                                             *)
ItemsOnce ==
    /\ \A i \in Items : made[i] <= 1 + touched[i]
    /\ embedded = {} => \A i \in Items : made[i] >= 1

(* "null and false are stored choices, not missing defaults" (fields.go:4):*)
(* a member is what it was last set to, or active if it never was, unless  *)
(* it was set between the step's read and its write.                       *)
MembersKept ==
    \A u \in Users :
       \/ u \in raced
       \/ members[u] = wish[u]
       \/ wish[u] = "unset" /\ members[u] = "active"

FieldsKeepTheirValues == ItemsOnce /\ MembersKept

(* What a version records is its own file, and whole, but for three gaps:  *)
(* a file that was found by its prefix may be the original's or one that   *)
(* an interrupted copy has left short; a short one may also have the very  *)
(* name the next boot looks for first; and an old name that does not say   *)
(* the version may be another's (files.go, healFilesystemVersion).         *)
FromNoVersion(v) == {Prefixed(v, name) : name \in NoVersion}

TakenForWhole(v) == v \in guessed \/ path[v].name \in FromNoVersion(v) \cup {Prefixed(v, <<"name">>)}
TakenForOwn(v) == (v = "thumbnail" /\ v \in guessed) \/ path[v].name \in NoVersion \cup FromNoVersion(v)

HealedIsWhole ==
    \A v \in Range(Versions) : IsThere(path[v]) =>
        \/ disk[path[v]] = v
        \/ disk[path[v]] = Short /\ TakenForWhole(v)
        \/ disk[path[v]] # Short /\ TakenForOwn(v)
=============================================================================
