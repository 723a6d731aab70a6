-------------------------- MODULE MetadataRegistry --------------------------
(***************************************************************************)
(* The registry of the collections of one SQLite database of the embedded  *)
(* FerretDB server: what its metadata table, its other tables and the      *)
(* registry's memory say, through the commands that change them            *)
(* (backends/sqlite/metadata/registry.go and pool/pool.go).                *)
(*                                                                         *)
(* A command executes its SQL statements one by one, outside any           *)
(* transaction; every one of them may fail (the context of a client that   *)
(* has gone is cancelled), and the process may stop between any two.  The  *)
(* mutation gate lets one command in at a time.                            *)
(*                                                                         *)
(* A table is named after the first name of its collection and the hash of *)
(* that name, counted up while a collection has the table: here the name   *)
(* and the count.                                                          *)
(***************************************************************************)
EXTENDS Naturals, FiniteSets, FiniteSetsExt, Sequences, SequencesExt, Functions

CONSTANTS
    Names,       \* the names of collections
    IndexLists,  \* what createIndexes may ask for: sequences of <<name, key>>
    Databases,   \* what may be there at first: name -> [capped, indexes]
    MaxCommands, \* commands that change something
    MaxFailures  \* statements that fail, and crashes

(* The handler refuses a request with two indexes of one name or one key;  *)
(* one for the index on _id, which it takes out of the list, is left out.  *)
(* What is there at first is complete: its collections have that index.    *)
ASSUME RegistryAssumption ==
    /\ MaxCommands \in Nat /\ MaxFailures \in Nat
    /\ IndexLists \subseteq Seq(STRING \X STRING)
    /\ \A list \in IndexLists : \A i \in DOMAIN list :
         /\ list[i][1] # "_id_" /\ list[i][2] # "_id"
         /\ \A j \in DOMAIN list : list[i][1] = list[j][1] \/ list[i][2] = list[j][2] => i = j
    /\ \A old \in Databases :
         /\ DOMAIN old \subseteq Names /\ IsFiniteSet(DOMAIN old)
         /\ \A n \in DOMAIN old :
              /\ old[n].capped \in BOOLEAN
              /\ old[n].indexes = [i \in DOMAIN old[n].indexes |-> old[n].indexes[i]]
              /\ "_id_" \in DOMAIN old[n].indexes /\ old[n].indexes["_id_"] = "_id"

VARIABLES
    file,    \* the database file: none, empty (no metadata table), ready
    rows,    \* the metadata table: name -> [table, settings, born]
    tables,  \* the other tables: table -> [docs, indexes, recordIds]
    up,      \* the process: down, starting, up
    open,    \* the pool holds the database
    colls,   \* the registry's memory: name -> [table, settings, born]
    op,      \* the command in progress
    marks,   \* tables that an interruption has left in some state
    told,    \* what clients have been told is stored
    counted  \* commands, failures and collections made so far

registryVars == <<file, rows, tables, up, open, colls, op, marks, told, counted>>

-----------------------------------------------------------------------------
(* Settings, tables and the functions on them.                             *)

DefaultIndex == "_id_"

Empty == [x \in {} |-> x]

(* The "{}" of the row that is inserted first.                             *)
Blank == [uuid |-> FALSE, indexes |-> Empty, capped |-> FALSE, current |-> FALSE]

NewSettings(capped) == [uuid |-> TRUE, indexes |-> Empty, capped |-> capped, current |-> TRUE]

(* An index in SQLite is what it is on and whether it holds the type of    *)
(* the value too; a unique one never does.                                 *)
Built(index, key) == [key |-> key, covering |-> index # DefaultIndex]

NewTable(capped) == [docs |-> {}, indexes |-> Empty, recordIds |-> capped]

Without(f, x) == [y \in DOMAIN f \ {x} |-> f[y]]

(* What is there stays.                                                    *)
With(f, x, v) == [y \in DOMAIN f \cup {x} |-> IF y \in DOMAIN f THEN f[y] ELSE v]

(* Mutant of TableFor: nobody looks whether the table is taken.            *)
TableFor_First(name) == <<name, 0>>

(* The loop that names a table looks at the collections in memory.         *)
TableFor(name) ==
    <<name, Min({k \in 0 .. Cardinality(DOMAIN colls) :
                   \A n \in DOMAIN colls : colls[n].table # <<name, k>>})>>

(* The collections whose row UPDATE ... WHERE table_name = ? changes.      *)
RowsOf(table) == {n \in DOMAIN rows : rows[n].table = table}

Stored(table, settings) ==
    [n \in DOMAIN rows |-> IF n \in RowsOf(table) THEN [rows[n] EXCEPT !.settings = settings] ELSE rows[n]]

-----------------------------------------------------------------------------
(* What an interruption leaves behind: orphaned, a table without its row;  *)
(* halfMade, a collection that was never completed; leftover, an index     *)
(* that is not listed; unindexed, a listed index that is gone.             *)

NoMarks == [orphaned |-> {}, halfMade |-> {}, leftover |-> {}, unindexed |-> {}]

Forget(table) == [k \in DOMAIN marks |-> marks[k] \ {table}]

When(condition, table) == IF condition THEN {table} ELSE {}

Interrupted ==
    [orphaned  |-> marks.orphaned  \cup When(op.at \in {"row", "dropTable"}, op.table),
     halfMade  |-> marks.halfMade  \cup When(op.at \in {"index", "deleteRow"} /\ op.creating, op.table),
     leftover  |-> marks.leftover  \cup When(op.at = "index" /\ op.made # {}, op.table),
     unindexed |-> marks.unindexed \cup When(op.at = "unindex" /\ op.made # {}, op.table)]

(* What a client has been told stays: the documents of a collection, by    *)
(* the number of the collection, and its indexes; doomed are collections   *)
(* whose row has gone and whose table could not be dropped.                *)
NothingTold == [documents |-> {}, indexes |-> {}, doomed |-> {}]

ToldWithout(born) ==
    [told EXCEPT !.documents = @ \ {born}, !.indexes = {i \in @ : i[1] # born}]

-----------------------------------------------------------------------------
(* The command in progress and its end.                                    *)

Idle ==
    [at |-> "idle", goal |-> "none", name |-> "", table |-> <<"", 0>>, list |-> <<>>, made |-> {},
     asked |-> {}, settings |-> Blank, creating |-> FALSE, capped |-> FALSE]

Ready(bound) == up = "up" /\ op = Idle /\ counted.commands < bound

Begin(goal, name) == [Idle EXCEPT !.goal = goal, !.name = name]

Counted == counted' = [counted EXCEPT !.commands = @ + 1]

Fails == counted.failures < MaxFailures /\ counted' = [counted EXCEPT !.failures = @ + 1]

(* A database of the old format, with collections numbered in some order;  *)
(* of its indexes, the unique one is as it is today.                       *)
Old(old, number) ==
    /\ file = "ready"
    /\ rows = [n \in DOMAIN old |->
                 [table |-> <<n, 0>>, born |-> number[n],
                  settings |-> [uuid |-> TRUE, indexes |-> old[n].indexes, capped |-> old[n].capped, current |-> FALSE]]]
    /\ tables = [t \in {<<n, 0>> : n \in DOMAIN old} |->
                 [docs |-> {number[t[1]]}, recordIds |-> old[t[1]].capped,
                  indexes |-> [i \in DOMAIN old[t[1]].indexes |-> [key |-> old[t[1]].indexes[i], covering |-> FALSE]]]]
    /\ told = [documents |-> {number[n] : n \in DOMAIN old}, doomed |-> {},
               indexes |-> UNION {{<<number[n], i, old[n].indexes[i]>> : i \in DOMAIN old[n].indexes} : n \in DOMAIN old}]
    /\ counted = [commands |-> 0, failures |-> 0, born |-> Cardinality(DOMAIN old)]

RegistryInit ==
    /\ \/ /\ file = "none" /\ rows = Empty /\ tables = Empty /\ told = NothingTold
          /\ counted = [commands |-> 0, failures |-> 0, born |-> 0]
       \/ \E old \in Databases : \E number \in Injection(DOMAIN old, 1 .. Cardinality(DOMAIN old)) : Old(old, number)
    /\ up = "down" /\ open = FALSE /\ colls = Empty /\ op = Idle
    /\ marks = NoMarks

-----------------------------------------------------------------------------
(* The process.                                                            *)

(* NewRegistry opens the files there are and reads their metadata tables;  *)
(* it fails for a file without one, and the process ends.                  *)
Start ==
    /\ up = "down" /\ file # "empty"
    /\ up' = "starting"
    /\ open' = (file = "ready")
    /\ colls' = rows
    /\ UNCHANGED <<file, rows, tables, op, marks, told, counted>>

(* Mutant of Rebuilt: the indexes are dropped and not created.             *)
Rebuilt_DropsOnly(indexes, settings) ==
    [i \in {j \in DOMAIN indexes : j \notin DOMAIN settings.indexes \ {DefaultIndex}} |-> indexes[i]]

(* Each listed index that is not unique is dropped and created again.      *)
Rebuilt(indexes, settings) ==
    [i \in (DOMAIN settings.indexes \ {DefaultIndex}) \cup DOMAIN indexes |->
       IF i \in DOMAIN settings.indexes \ {DefaultIndex} THEN Built(i, settings.indexes[i]) ELSE indexes[i]]

(* upgradeIndexFormat, one transaction for a collection.                   *)
UpgradeIndexFormat(name) ==
    LET c == colls[name]
        settings == [c.settings EXCEPT !.current = TRUE]
    IN /\ up = "starting" /\ ~c.settings.current
       /\ tables' = [tables EXCEPT ![c.table].indexes = Rebuilt(@, settings)]
       /\ rows' = Stored(c.table, settings)
       /\ colls' = [colls EXCEPT ![name].settings = settings]
       /\ marks' = [marks EXCEPT !.unindexed = @ \ {c.table}]
       /\ UNCHANGED <<file, up, open, op, told, counted>>

Serve ==
    /\ up = "starting"
    /\ \A n \in DOMAIN colls : colls[n].settings.current
    /\ up' = "up"
    /\ UNCHANGED <<file, rows, tables, open, colls, op, marks, told, counted>>

(* The process is killed, or an upgrade fails, which ends it.              *)
Crash ==
    /\ up # "down" /\ Fails
    /\ up' = "down" /\ open' = FALSE /\ colls' = Empty /\ op' = Idle
    /\ marks' = Interrupted
    /\ UNCHANGED <<file, rows, tables, told>>

-----------------------------------------------------------------------------
(* The commands.  create, createIndexes and the first insert share         *)
(* collectionCreate, which begins with databaseGetOrCreate.                *)

Create(name, capped) ==
    /\ Ready(MaxCommands) /\ Counted
    /\ op' = [Begin("create", name) EXCEPT !.at = "open", !.capped = capped]
    /\ UNCHANGED <<file, rows, tables, up, open, colls, marks, told>>

Listed(name) == IF name \in DOMAIN colls THEN colls[name].settings.indexes ELSE Empty

Same(indexes, spec) == spec[1] \in DOMAIN indexes /\ indexes[spec[1]] = spec[2]

Conflict(indexes, spec) ==
    /\ ~Same(indexes, spec)
    /\ spec[1] \in DOMAIN indexes \/ \E i \in DOMAIN indexes : indexes[i] = spec[2]

There(name, list) == {i \in DOMAIN list : Same(Listed(name), list[i])}

(* validateIndexesForCreation takes an index that is there out of a copy   *)
(* of the list, at the place it has in the list itself: after the first    *)
(* one has gone, that is the place of another.                             *)
Removed(list, there) ==
    LET kept[i \in 0 .. Len(list)] ==
          IF i = 0 THEN list ELSE IF i \in there THEN RemoveAt(kept[i - 1], i) ELSE kept[i - 1]
    IN kept[Len(list)]

ToCreate(name, list) == Removed(list, There(name, list))

(* Of two indexes that are there, the second at the end of the list is out *)
(* of range: the handler panics and the connection ends.                   *)
OutOfRange(name, list) ==
    \E i \in There(name, list) : i > Len(list) - Cardinality({j \in There(name, list) : j < i})

(* After two that are there, others are not created, without an error.     *)
ToKeep(name, list) ==
    IF Cardinality(There(name, list)) < 2 THEN ToSet(list) ELSE {list[i] : i \in There(name, list)}

CreateIndexes(name, list) ==
    /\ Ready(MaxCommands) /\ Counted
    /\ ~OutOfRange(name, list)
    /\ \A i \in DOMAIN list : ~Conflict(Listed(name), list[i])
    /\ op' = [Begin("createIndexes", name) EXCEPT
                !.at = "open", !.list = ToCreate(name, list), !.asked = ToKeep(name, list)]
    /\ UNCHANGED <<file, rows, tables, up, open, colls, marks, told>>

(* InsertAll creates a collection that memory does not have.               *)
Insert(name) ==
    /\ Ready(MaxCommands) /\ Counted
    /\ op' = [Begin("insert", name) EXCEPT !.at = IF name \in DOMAIN colls THEN "write" ELSE "open"]
    /\ UNCHANGED <<file, rows, tables, up, open, colls, marks, told>>

(* A new file is written when the database is opened, before its metadata  *)
(* table is created.                                                       *)
OpenDatabase ==
    /\ op.at = "open"
    /\ open' = TRUE
    /\ file' = IF file = "none" THEN "empty" ELSE file
    /\ op' = [op EXCEPT !.at = IF open THEN "table" ELSE "metadata"]
    /\ UNCHANGED <<rows, tables, up, colls, marks, told, counted>>

CreateMetadata ==
    /\ op.at = "metadata" /\ file = "empty"
    /\ file' = "ready"
    /\ op' = [op EXCEPT !.at = "table"]
    /\ UNCHANGED <<rows, tables, up, open, colls, marks, told, counted>>

(* The file goes, unless that fails, which is only logged.                 *)
RemoveFile(removed) ==
    /\ open' = FALSE /\ colls' = Empty /\ told' = NothingTold
    /\ IF removed THEN file' = "none" /\ rows' = Empty /\ tables' = Empty /\ marks' = NoMarks
                  ELSE UNCHANGED <<file, rows, tables, marks>>

(* The table of a file that could not be removed exists already.           *)
MetadataFails ==
    /\ op.at = "metadata"
    /\ \/ file = "ready" /\ RemoveFile(TRUE) /\ UNCHANGED counted
       \/ \E removed \in BOOLEAN : RemoveFile(removed) /\ Fails
    /\ op' = Idle
    /\ UNCHANGED up

(* What follows a collection that is there.                                *)
Continue(command, settings) ==
    CASE command.goal = "create" -> Idle
      [] command.goal = "insert" -> [command EXCEPT !.at = "write", !.creating = FALSE]
      [] command.goal = "createIndexes" ->
           [command EXCEPT !.at = "index", !.creating = FALSE, !.settings = settings, !.made = {}]

Exists ==
    /\ op.at = "table" /\ op.name \in DOMAIN colls
    /\ op' = Continue([op EXCEPT !.table = colls[op.name].table], colls[op.name].settings)
    /\ UNCHANGED <<file, rows, tables, up, open, colls, marks, told, counted>>

(* Mutant of Made: the column of the record ids is left out.               *)
Made_Plain(capped) == NewTable(FALSE)

Made(capped) == NewTable(capped)

(* CREATE TABLE IF NOT EXISTS takes a table that is there as it is.        *)
CreateTable ==
    LET table == TableFor(op.name)
    IN /\ op.at = "table" /\ op.name \notin DOMAIN colls
       /\ tables' = With(tables, table, Made(op.capped))
       /\ op' = [op EXCEPT !.at = "row", !.table = table]
       /\ UNCHANGED <<file, rows, up, open, colls, marks, told, counted>>

(* Neither the file nor a table could be written: nothing has changed.     *)
NothingDone ==
    /\ op.at \in {"open", "table"} /\ Fails
    /\ op' = Idle
    /\ UNCHANGED <<file, rows, tables, up, open, colls, marks, told>>

(* Both columns of the row are unique.  A new settings record is kept in   *)
(* memory, and the row has none.                                           *)
InsertRow ==
    LET number == counted.born + 1
    IN /\ op.at = "row"
       /\ op.name \notin DOMAIN rows /\ RowsOf(op.table) = {}
       /\ rows' = With(rows, op.name, [table |-> op.table, settings |-> Blank, born |-> number])
       /\ colls' = With(colls, op.name, [table |-> op.table, settings |-> NewSettings(op.capped), born |-> number])
       /\ counted' = [counted EXCEPT !.born = @ + 1]
       /\ op' = [op EXCEPT !.at = "index", !.creating = TRUE, !.settings = NewSettings(op.capped)]
       /\ UNCHANGED <<file, tables, up, open, marks, told>>

DropsTable(table) ==
    /\ tables' = Without(tables, table)
    /\ marks' = Forget(table)

(* The table is dropped when its row cannot be inserted, also one that was *)
(* there before.                                                           *)
RowFails ==
    /\ op.at = "row"
    /\ \/ (op.name \in DOMAIN rows \/ RowsOf(op.table) # {}) /\ DropsTable(op.table) /\ UNCHANGED counted
       \/ Fails /\ DropsTable(op.table)
       \/ Fails /\ marks' = Interrupted /\ UNCHANGED tables
    /\ op' = Idle
    /\ UNCHANGED <<file, rows, up, open, colls, told>>

-----------------------------------------------------------------------------
(* indexesCreate works on a copy of the settings.  While a collection is   *)
(* created, the list is the index on _id.                                  *)

IndexesLeft == IF op.creating THEN (IF op.made = {} THEN <<<<DefaultIndex, "_id">>>> ELSE <<>>) ELSE op.list

NextIndex == IndexesLeft[1]

After == IF op.creating THEN op.list ELSE Tail(op.list)

(* CREATE INDEX IF NOT EXISTS keeps an index of that name as it is.        *)
CreateIndex ==
    /\ op.at = "index" /\ IndexesLeft # <<>>
    /\ IF NextIndex[1] \in DOMAIN op.settings.indexes
       THEN op' = [op EXCEPT !.list = After] /\ UNCHANGED tables
       ELSE /\ tables' = [tables EXCEPT ![op.table].indexes = With(@, NextIndex[1], Built(NextIndex[1], NextIndex[2]))]
            /\ op' = [op EXCEPT !.list = After, !.made = @ \cup {NextIndex[1]},
                                !.settings.indexes = With(@, NextIndex[1], NextIndex[2])]
    /\ UNCHANGED <<file, rows, up, open, colls, marks, told, counted>>

IndexesAsked(command) == {<<colls[command.name].born, i[1], i[2]>> : i \in command.asked}

WriteSettings ==
    /\ op.at = "index" /\ IndexesLeft = <<>>
    /\ rows' = Stored(op.table, op.settings)
    /\ colls' = [colls EXCEPT ![op.name].settings = op.settings]
    /\ op' = IF op.creating THEN Continue(op, op.settings) ELSE Idle
    /\ told' = IF op.creating THEN told ELSE [told EXCEPT !.indexes = @ \cup IndexesAsked(op)]
    /\ UNCHANGED <<file, tables, up, open, marks, counted>>

(* indexesDrop takes the indexes back that memory lists, which it does for *)
(* none of them, and writes the settings of memory.                        *)
TakenBack == {i \in op.made : i \in DOMAIN Listed(op.name)}

IndexFails ==
    /\ op.at = "index" /\ Fails
    /\ marks' = Interrupted
    /\ tables' = [tables EXCEPT ![op.table].indexes = [i \in DOMAIN @ \ TakenBack |-> @[i]]]
    /\ rows' \in {rows, Stored(op.table, colls[op.name].settings)}
    /\ op' = IF op.creating THEN [op EXCEPT !.at = "deleteRow"] ELSE Idle
    /\ UNCHANGED <<file, up, open, colls, told>>

-----------------------------------------------------------------------------
(* collectionDrop, of the command drop and of a creation that has failed.  *)

Drop(name) ==
    /\ Ready(MaxCommands) /\ Counted
    /\ name \in DOMAIN colls
    /\ op' = [Begin("drop", name) EXCEPT !.at = "deleteRow", !.table = colls[name].table]
    /\ told' = ToldWithout(colls[name].born)
    /\ UNCHANGED <<file, rows, tables, up, open, colls, marks>>

(* Mutant of RowsAfterDelete: the row is left to be removed later.         *)
RowsAfterDelete_Kept == rows

RowsAfterDelete == Without(rows, op.name)

DeleteRow ==
    /\ op.at = "deleteRow"
    /\ rows' = RowsAfterDelete
    /\ op' = [op EXCEPT !.at = "dropTable"]
    /\ UNCHANGED <<file, tables, up, open, colls, marks, told, counted>>

(* Mutant of TablesAfterDrop: the table is left to be removed later.       *)
TablesAfterDrop_Kept == tables

TablesAfterDrop == Without(tables, op.table)

DropTable ==
    /\ op.at = "dropTable"
    /\ tables' = TablesAfterDrop
    /\ marks' = Forget(op.table)
    /\ colls' = Without(colls, op.name)
    /\ op' = Idle
    /\ UNCHANGED <<file, rows, up, open, told, counted>>

DropFails ==
    /\ op.at \in {"deleteRow", "dropTable"} /\ Fails
    /\ marks' = Interrupted
    /\ told' = [told EXCEPT !.doomed = @ \cup IF op.at = "dropTable" THEN {colls[op.name].born} ELSE {}]
    /\ op' = Idle
    /\ UNCHANGED <<file, rows, tables, up, open, colls>>

-----------------------------------------------------------------------------
(* The other commands.                                                     *)

(* One statement, and the table keeps its name.                            *)
Rename(name, new) ==
    LET c == colls[name]
    IN /\ Ready(MaxCommands) /\ Counted
       /\ name \in DOMAIN colls /\ new \notin DOMAIN colls
       /\ rows' = [n \in (DOMAIN rows \ RowsOf(c.table)) \cup When(RowsOf(c.table) # {}, new) |->
                     IF n = new THEN rows[CHOOSE m \in RowsOf(c.table) : TRUE] ELSE rows[n]]
       /\ colls' = With(Without(colls, name), new, c)
       /\ UNCHANGED <<file, tables, up, open, op, marks, told>>

DropIndexes(name, indexes) ==
    /\ Ready(MaxCommands) /\ Counted
    /\ name \in DOMAIN colls
    /\ indexes # {} /\ indexes \subseteq DOMAIN Listed(name) \ {DefaultIndex}
    /\ op' = [Begin("dropIndexes", name) EXCEPT !.at = "unindex", !.asked = indexes,
                                                !.table = colls[name].table, !.settings = colls[name].settings]
    /\ told' = [told EXCEPT !.indexes = {i \in @ : i[1] # colls[name].born \/ i[2] \notin indexes}]
    /\ UNCHANGED <<file, rows, tables, up, open, colls, marks>>

(* DROP INDEX fails for an index that is not there.  The indexes go in the *)
(* order of the request.                                                   *)
DropIndex ==
    \E index \in op.asked :
       /\ op.at = "unindex"
       /\ index \in DOMAIN tables[op.table].indexes
       /\ tables' = [tables EXCEPT ![op.table].indexes = Without(@, index)]
       /\ op' = [op EXCEPT !.asked = @ \ {index}, !.made = @ \cup {index},
                           !.settings.indexes = Without(@, index)]
       /\ UNCHANGED <<file, rows, up, open, colls, marks, told, counted>>

UnlistIndexes ==
    /\ op.at = "unindex" /\ op.asked = {}
    /\ rows' = Stored(op.table, op.settings)
    /\ colls' = [colls EXCEPT ![op.name].settings = op.settings]
    /\ op' = Idle
    /\ UNCHANGED <<file, tables, up, open, marks, told, counted>>

UnindexFails ==
    /\ op.at = "unindex"
    /\ \/ Fails
       \/ ~(op.asked \subseteq DOMAIN tables[op.table].indexes) /\ UNCHANGED counted
    /\ marks' = Interrupted
    /\ op' = Idle
    /\ UNCHANGED <<file, rows, tables, up, open, colls, told>>

DropDatabase ==
    /\ Ready(MaxCommands) /\ open
    /\ \/ RemoveFile(TRUE) /\ Counted
       \/ RemoveFile(FALSE) /\ Fails
    /\ UNCHANGED <<up, op>>

(* A batch is one transaction.  The rows of a capped collection have a     *)
(* record id, for which its table has to have the column.                  *)
Write ==
    LET c == colls[op.name]
    IN /\ op.at = "write"
       /\ c.settings.capped => tables[c.table].recordIds
       /\ tables' = [tables EXCEPT ![c.table].docs = @ \cup {c.born}]
       /\ told' = [told EXCEPT !.documents = @ \cup {c.born}]
       /\ op' = Idle
       /\ UNCHANGED <<file, rows, up, open, colls, marks, counted>>

WriteFails ==
    /\ op.at = "write"
    /\ Fails \/ (colls[op.name].settings.capped /\ ~tables[colls[op.name].table].recordIds /\ UNCHANGED counted)
    /\ op' = Idle
    /\ UNCHANGED <<file, rows, tables, up, open, colls, marks, told>>

Statement ==
    \/ OpenDatabase \/ CreateMetadata \/ MetadataFails
    \/ NothingDone \/ Exists \/ CreateTable \/ InsertRow \/ RowFails
    \/ CreateIndex \/ WriteSettings \/ IndexFails
    \/ DeleteRow \/ DropTable \/ DropFails
    \/ DropIndex \/ UnlistIndexes \/ UnindexFails
    \/ Write \/ WriteFails

Command ==
    \/ \E name \in Names, capped \in BOOLEAN : Create(name, capped)
    \/ \E name \in Names, list \in IndexLists : CreateIndexes(name, list)
    \/ \E name \in Names : Insert(name) \/ Drop(name)
    \/ \E name, new \in Names : Rename(name, new)
    \/ \E name \in DOMAIN colls : \E indexes \in SUBSET DOMAIN Listed(name) : DropIndexes(name, indexes)
    \/ DropDatabase

RegistryNext ==
    \/ Start
    \/ \E name \in DOMAIN colls : UpgradeIndexFormat(name)
    \/ Serve
    \/ Crash
    \/ Command
    \/ Statement

RegistrySpec == RegistryInit /\ [][RegistryNext]_registryVars

-----------------------------------------------------------------------------
(* Properties.                                                             *)

Serving == up = "up" /\ op = Idle

(* Every row of the metadata table has a table, and no two rows have the   *)
(* same; and whenever no command runs, memory holds the collections of the *)
(* metadata table as they are there.  Only a collection whose drop or      *)
(* creation was interrupted is in memory and not, or otherwise, in the     *)
(* metadata table (registry.go:511 and :606: memory changes after the      *)
(* statements).                                                            *)
RegistryIsStored ==
    /\ \A n \in DOMAIN rows : rows[n].table \in DOMAIN tables
    /\ \A n, m \in DOMAIN rows : rows[n].table = rows[m].table => n = m
    /\ \A n \in DOMAIN colls : colls[n].table \in DOMAIN tables
    /\ \A n, m \in DOMAIN colls : colls[n].table = colls[m].table => n = m
    /\ Serving /\ open =>
         /\ DOMAIN rows \subseteq DOMAIN colls
         /\ \A n \in DOMAIN colls :
              \/ n \in DOMAIN rows /\ colls[n] = rows[n]
              \/ colls[n].table \in marks.orphaned \cup marks.halfMade

(* A collection that a client sees is whole: it has an identity, a unique  *)
(* index on _id, record ids when it is capped, and its listed indexes are  *)
(* those of its table, so a query that names one finds it.  The exceptions *)
(* are what an interrupted creation, createIndexes or dropIndexes leaves.  *)
DefinitionsAreWhole ==
    Serving => \A n \in DOMAIN colls :
      LET c == colls[n]
          t == tables[c.table]
      IN /\ \/ c.table \in marks.halfMade
            \/ /\ c.settings.uuid
               /\ DefaultIndex \in DOMAIN c.settings.indexes
               /\ c.settings.capped = t.recordIds \/ c.table \in marks.orphaned
         /\ \/ c.table \in marks.unindexed
            \/ DOMAIN c.settings.indexes \subseteq DOMAIN t.indexes
         /\ \/ c.table \in marks.orphaned \cup marks.leftover \cup marks.unindexed
            \/ t.indexes = [i \in DOMAIN c.settings.indexes |-> Built(i, c.settings.indexes[i])]

(* The documents of a collection were inserted into it, since it was       *)
(* created, under whatever name it had.  Only a table that an interrupted  *)
(* drop or creation has left may bring the documents of another.           *)
NoForeignDocuments ==
    Serving => \A n \in DOMAIN colls :
      \/ tables[colls[n].table].docs \subseteq {colls[n].born}
      \/ colls[n].table \in marks.orphaned

(* Both: what a client finds under a name is that collection, and all of   *)
(* it (registry.go, collectionCreate and its rollbacks).                   *)
CollectionsAreWhole == DefinitionsAreWhole /\ NoForeignDocuments

(* What a client was told is stored is there until it is dropped, through  *)
(* restarts, renames, failures of other commands and the upgrade at the    *)
(* start: its documents, and its indexes in the list.  A collection whose  *)
(* own drop has failed half-way is the exception.                          *)
AcknowledgedStays ==
    Serving =>
      /\ \A born \in told.documents \ told.doomed : \E n \in DOMAIN colls :
           colls[n].born = born /\ colls[n].table \in DOMAIN tables /\ born \in tables[colls[n].table].docs
      /\ \A i \in told.indexes : i[1] \in told.doomed \/ \E n \in DOMAIN colls :
           colls[n].born = i[1] /\ Same(Listed(n), <<i[2], i[3]>>)
=============================================================================
