--------------------------- MODULE DataStepsProofs ---------------------------
(***************************************************************************)
(* Proofs about the steps of the schema upgrade that write back what they  *)
(* have read: ChecklistMinicard for any checklists, runs and failures, and *)
(* DataSteps for any items, users and databases of DatabasesAssumption.    *)
(***************************************************************************)
EXTENDS DataSteps, TLAPS

-----------------------------------------------------------------------------
(* checklist-minicard-unset.                                               *)

(* What the step relies on between its database calls: nobody else writes  *)
(* the marker, and nobody else writes an old default.                      *)
MinicardInv ==
    /\ flag \in [Checklists -> {"absent", "true", "default", "choice"}]
    /\ marker \in BOOLEAN
    /\ phase \in {"idle", "check", "run", "unset", "mark"}
    /\ phase \in {"unset", "mark"} => ~marker
    /\ phase = "mark" \/ marker => \A c \in Checklists : flag[c] # "default"

LEMMA MinicardInit == Init => MinicardInv
    BY DEF Init, MinicardInv

LEMMA MinicardStep == MinicardInv /\ [Next]_vars => MinicardInv'
<1> SUFFICES ASSUME MinicardInv, [Next]_vars PROVE MinicardInv'
    OBVIOUS
<1>1. ASSUME NEW p \in {"check", "run"}, Begin(p) PROVE MinicardInv'
    BY <1>1 DEF Begin, MinicardInv
<1>2. ASSUME NEW c \in Checklists, NEW value \in {"true", "choice"}, Choose(c, value)
      PROVE  MinicardInv'
    BY <1>2 DEF Choose, MinicardInv
<1>3. CASE Check
    BY <1>3 DEF Check, Look, Done, Completes, MinicardInv
<1>4. CASE Run
    BY <1>4 DEF Run, Look, Done, Completes, MinicardInv
<1>5. ASSUME NEW cs \in SUBSET Checklists, Unset(cs) PROVE MinicardInv'
    <2>1. cs = Falses => \A c \in Checklists : flag'[c] # "default"
        BY <1>5 DEF Unset, Falses, MinicardInv
    <2>2. \A c \in Checklists : flag'[c] = "absent" \/ flag'[c] = flag[c]
        BY <1>5 DEF Unset, MinicardInv
    <2>3. QED
        BY <1>5, <2>1, <2>2 DEF Unset, AfterUnset, MinicardInv
<1>6. CASE Mark
    BY <1>6 DEF Mark, Completes, MinicardInv
<1>7. CASE Fail
    BY <1>7 DEF Fail, MinicardInv
<1>8. CASE UNCHANGED vars
    BY <1>8 DEF vars, MinicardInv
<1>9. QED
    BY <1>1, <1>2, <1>3, <1>4, <1>5, <1>6, <1>7, <1>8 DEF Next

(* A stored marker means that no old default is left.                      *)
THEOREM MarkerMeansNoDefault == Spec => []MarkerMeansDone
<1>1. MinicardInv => MarkerMeansDone
    BY DEF MinicardInv, MarkerMeansDone
<1>2. QED
    BY <1>1, MinicardInit, MinicardStep, PTL DEF Spec

(* A stored marker stays, and no flag is taken away after it.              *)
THEOREM MarkerStops == Spec => MarkerIsFinal
<1> DEFINE Stays == marker => /\ marker'
                              /\ \A c \in Checklists : flag'[c] = "absent" => flag[c] = "absent"
<1>1. MinicardInv /\ [Next]_vars => [Stays]_vars
    <2> SUFFICES ASSUME MinicardInv, Next, marker PROVE Stays
        BY Zenon
    <2>1. ASSUME NEW p \in {"check", "run"}, Begin(p) PROVE Stays
        BY <2>1 DEF Begin
    <2>2. ASSUME NEW c \in Checklists, NEW value \in {"true", "choice"}, Choose(c, value)
          PROVE  Stays
        BY <2>2 DEF Choose, MinicardInv
    <2>3. CASE Check \/ Run
        BY <2>3 DEF Check, Run
    <2>4. ASSUME NEW cs \in SUBSET Checklists, Unset(cs) PROVE Stays
        BY <2>4 DEF Unset, MinicardInv
    <2>5. CASE Mark \/ Fail
        BY <2>5 DEF Mark, Fail
    <2>6. QED
        BY <2>1, <2>2, <2>3, <2>4, <2>5 DEF Next
<1>2. QED
    BY <1>1, MinicardInit, MinicardStep, PTL DEF Spec, MarkerIsFinal

-----------------------------------------------------------------------------
(* The same step as the runner and the command line take it.               *)

LEMMA MinicardSteps ==
    ASSUME [DataNext]_allVars
    PROVE  \/ [Next]_vars
           \/ UNCHANGED <<flag, marker, phase>>
           \/ Fail
<1>1. CASE UNCHANGED allVars
  BY <1>1 DEF allVars, vars
<1>2. CASE Boot \/ StepFails \/ CheckItems \/ ReadItems \/ UnsetItems
  BY <1>2 DEF Boot, StepFails, CheckItems, CheckStep, ReadItems, UnsetItems, vars
<1>3. CASE Crash
  BY <1>3 DEF Crash, Fail
<1>4. ASSUME NEW some, InsertItems(some) PROVE UNCHANGED vars
  BY <1>4 DEF InsertItems
<1>5. CASE CheckMembers \/ ReadMembers \/ WriteMembers
  BY <1>5 DEF CheckMembers, CheckStep, ReadMembers, WriteMembers, vars
<1>6. CASE CheckPaths \/ ReadPaths \/ NotHealed \/ Heal \/ CopyEnds \/ RecordPath
  BY <1>6 DEF CheckPaths, CheckStep, ReadPaths, NotHealed, Heal, CopyEnds, RecordPath, vars
<1>7. CASE Minicard
  <2>1. Begin("check") \/ Begin("run") \/ Check \/ Run \/ Mark \/ Fail \/ \E cs \in SUBSET Checklists : Unset(cs)
    BY <1>7 DEF Minicard
  <2> QED BY <2>1 DEF Next
<1>8. CASE ChooseFlag \/ Mount
  BY <1>8 DEF ChooseFlag, Mount, Next
<1>9. ASSUME NEW i, TouchItem(i) PROVE UNCHANGED <<flag, marker, phase>>
  BY <1>9 DEF TouchItem
<1>10. ASSUME NEW u, NEW value, SetMember(u, value) PROVE UNCHANGED <<flag, marker, phase>>
  BY <1>10 DEF SetMember
<1> QED BY <1>1, <1>2, <1>3, <1>4, <1>5, <1>6, <1>7, <1>8, <1>9, <1>10 DEF DataNext

LEMMA MinicardInductive == DataSpec => []MinicardInv
<1>1. DataInit => MinicardInv
  BY MinicardInit DEF DataInit
<1>2. MinicardInv /\ [DataNext]_allVars => MinicardInv'
  <2> SUFFICES ASSUME MinicardInv, [DataNext]_allVars PROVE MinicardInv'
    OBVIOUS
  <2>1. CASE UNCHANGED <<flag, marker, phase>>
    BY <2>1 DEF MinicardInv
  <2>2. CASE Fail
    BY <2>2, MinicardStep DEF Next
  <2> QED BY <2>1, <2>2, MinicardSteps, MinicardStep
<1> QED BY <1>1, <1>2, PTL DEF DataSpec

(* The same in the pipeline of the boots, with the other steps' failures   *)
(* and crashes around it, and alone from the command line.                 *)
THEOREM MarkerMeansNoDefaultInBoots == DataSpec => []MarkerMeansDone
<1>1. MinicardInv => MarkerMeansDone
  BY DEF MinicardInv, MarkerMeansDone
<1> QED BY <1>1, MinicardInductive, PTL

-----------------------------------------------------------------------------
(* checklist-items-embedded and board-members-isactive.                    *)

ItemsInv ==
    /\ embedded \subseteq Items /\ copied \subseteq Items
    /\ made \in [Items -> Nat] /\ touched \in [Items -> Nat]
    /\ \A i \in Items : made[i] = touched[i] + (IF i \in copied THEN 1 ELSE 0)
    /\ \A i \in Items \ embedded : made[i] >= 1
    /\ turn = "items" /\ at = "insert" => copied \subseteq read /\ \A i \in Items \cap read : made[i] >= 1
    /\ turn = "items" /\ at = "unset" => \A i \in Items : made[i] >= 1

MembersInv ==
    /\ members \in [Users -> {"none", "unset", "active", "inactive"}] /\ DOMAIN wish = Users
    /\ turn = "members" /\ at = "write" =>
         /\ read \in [Users -> {"none", "unset", "active", "inactive"}]
         /\ \A u \in Users \ raced : read[u] = members[u]
    /\ MembersKept

LEMMA InitFields == DataInit => ItemsInv /\ MembersInv
<1> SUFFICES ASSUME DataInit PROVE ItemsInv /\ MembersInv
  OBVIOUS
<1>1. PICK d \in Databases : embedded = d.embedded /\ copied = d.copied /\ members = d.members
  BY DEF DataInit
<1>2. /\ embedded \subseteq Items /\ copied \subseteq Items /\ Items \ embedded \subseteq copied
      /\ members \in [Users -> {"none", "unset", "active", "inactive"}]
  BY <1>1, DatabasesAssumption
<1>3. ItemsInv
  BY <1>2 DEF DataInit, ItemsInv
<1>4. MembersInv
  BY <1>2 DEF DataInit, MembersInv, MembersKept
<1> QED BY <1>3, <1>4

(* Where the runner goes.                                                  *)
LEMMA Runner ==
    ASSUME Advance
    PROVE  at' = "check"
BY DEF Advance

(* A copy is inserted only when the step's read has found none, and the    *)
(* user has taken none away since.                                         *)
LEMMA ItemsStep ==
    ASSUME ItemsInv, [DataNext]_allVars
    PROVE  ItemsInv'
<1>1. CASE UNCHANGED items /\ (turn' # "items" \/ at' = "check" \/ at' = "read" \/ UNCHANGED runner)
  BY <1>1 DEF ItemsInv, items, runner
<1>2. CASE UNCHANGED allVars \/ Boot \/ StepFails \/ Crash \/ CheckItems \/ ChooseFlag \/ Mount
  BY <1>1, <1>2, Runner DEF allVars, Boot, StepFails, Crash, CheckItems, CheckStep, Go, ChooseFlag, Mount
<1>3. CASE CheckMembers \/ ReadMembers \/ WriteMembers
  BY <1>1, <1>3, Runner DEF CheckMembers, CheckStep, ReadMembers, WriteMembers, Go
<1>4. CASE CheckPaths \/ ReadPaths \/ NotHealed \/ Heal \/ CopyEnds \/ RecordPath
  BY <1>1, <1>4, Runner DEF CheckPaths, CheckStep, ReadPaths, NotHealed, Heal, CopyEnds, CopyFailed, RecordPath,
                            Rest, Go
<1>5. CASE Minicard
  BY <1>1, <1>5, Runner DEF Minicard, Go
<1>6. ASSUME NEW u, NEW value, SetMember(u, value) PROVE ItemsInv'
  BY <1>1, <1>6 DEF SetMember
<1>7. CASE ReadItems
  <2>1. UNCHANGED items /\ read' = copied /\ at' = "insert" /\ turn' = "items"
    BY <1>7 DEF ReadItems, Go
  <2> QED BY <2>1 DEF ItemsInv, items
<1>8. ASSUME NEW some \in SUBSET Items, InsertItems(some) PROVE ItemsInv'
  <2>1. /\ turn = "items" /\ at = "insert" /\ some \subseteq embedded \ read
        /\ copied' = copied \cup some
        /\ made' = [i \in Items |-> IF i \in some THEN made[i] + 1 ELSE made[i]]
        /\ UNCHANGED <<embedded, touched>>
    BY <1>8 DEF InsertItems, Missing
  <2>2. copied \subseteq read /\ \A i \in Items \cap read : made[i] >= 1
    BY <2>1 DEF ItemsInv
  <2>3. \A i \in Items : made'[i] \in Nat /\ made'[i] = touched[i] + (IF i \in copied' THEN 1 ELSE 0)
    BY <2>1, <2>2 DEF ItemsInv
  <2>4. \A i \in Items : made[i] >= 1 => made'[i] >= 1
    BY <2>1 DEF ItemsInv
  <2>5. \A i \in some : made'[i] >= 1
    BY <2>1 DEF ItemsInv
  <2>6. \/ at' = "check"
        \/ at' = "unset" /\ some = embedded \ read
    BY <1>8, Runner DEF InsertItems, Missing, Go
  <2>7. some = embedded \ read => \A i \in Items : made'[i] >= 1
    BY <2>2, <2>4, <2>5 DEF ItemsInv
  <2> QED BY <2>1, <2>3, <2>4, <2>6, <2>7 DEF ItemsInv
<1>9. CASE UnsetItems
  <2>1. /\ turn = "items" /\ at = "unset" /\ embedded' = {} /\ UNCHANGED <<copied, made, touched>>
        /\ at' = "check"
    BY <1>9, Runner DEF UnsetItems
  <2> QED BY <2>1 DEF ItemsInv
<1>10. ASSUME NEW i \in Items, TouchItem(i) PROVE ItemsInv'
  <2>1. /\ i \in copied /\ copied' = copied \ {i} /\ touched' = [touched EXCEPT ![i] = @ + 1]
        /\ UNCHANGED <<embedded, made, turn, at, read>>
    BY <1>10 DEF TouchItem, runner
  <2>2. touched' \in [Items -> Nat]
    BY <2>1 DEF ItemsInv
  <2>3. \A j \in Items : made[j] = touched'[j] + (IF j \in copied' THEN 1 ELSE 0)
    BY <2>1 DEF ItemsInv
  <2> QED BY <2>1, <2>2, <2>3 DEF ItemsInv
<1> QED BY <1>2, <1>3, <1>4, <1>5, <1>6, <1>7, <1>8, <1>9, <1>10 DEF DataNext

(* What is written is what was read, and still true of every user that was *)
(* not set meanwhile.                                                      *)
LEMMA MembersStep ==
    ASSUME MembersInv, [DataNext]_allVars
    PROVE  MembersInv'
<1> DEFINE Values == {"none", "unset", "active", "inactive"}
<1>1. CASE UNCHANGED board /\ (turn' # "members" \/ at' = "check" \/ at' = "read" \/ UNCHANGED runner)
  BY <1>1 DEF MembersInv, MembersKept, board, runner
<1>2. CASE UNCHANGED allVars \/ Boot \/ StepFails \/ Crash \/ CheckMembers \/ ChooseFlag \/ Mount
  BY <1>1, <1>2, Runner DEF allVars, Boot, StepFails, Crash, CheckMembers, CheckStep, Go, ChooseFlag, Mount
<1>3. CASE CheckItems \/ ReadItems \/ UnsetItems
  BY <1>1, <1>3, Runner DEF CheckItems, CheckStep, ReadItems, UnsetItems, Go
<1>4. CASE CheckPaths \/ ReadPaths \/ NotHealed \/ Heal \/ CopyEnds \/ RecordPath
  BY <1>1, <1>4, Runner DEF CheckPaths, CheckStep, ReadPaths, NotHealed, Heal, CopyEnds, CopyFailed, RecordPath,
                            Rest, Go
<1>5. CASE Minicard
  BY <1>1, <1>5, Runner DEF Minicard, Go
<1>6. ASSUME NEW some, InsertItems(some) PROVE MembersInv'
  BY <1>1, <1>6, Runner DEF InsertItems, Go
<1>7. ASSUME NEW i, TouchItem(i) PROVE MembersInv'
  BY <1>1, <1>7 DEF TouchItem
<1>8. CASE ReadMembers
  <2>1. UNCHANGED board /\ read' = members
    BY <1>8 DEF ReadMembers, Go
  <2> QED BY <2>1 DEF MembersInv, MembersKept, board
<1>9. CASE WriteMembers
  <2>1. /\ turn = "members" /\ at = "write" /\ at' = "check" /\ UNCHANGED <<wish, raced>>
        /\ members' = IF \A u \in Users : read[u] # "unset" THEN members
                      ELSE [u \in Users |-> IF read[u] = "unset" THEN "active" ELSE read[u]]
    BY <1>9, Runner DEF WriteMembers, NeedsDefault
  <2>2. members' \in [Users -> Values]
    BY <2>1 DEF MembersInv
  <2>3. \A u \in Users \ raced : \/ members'[u] = members[u]
                                 \/ members[u] = "unset" /\ members'[u] = "active"
    BY <2>1 DEF MembersInv
  <2>4. MembersKept'
    BY <2>1, <2>3 DEF MembersInv, MembersKept
  <2> QED BY <2>1, <2>2, <2>4 DEF MembersInv
<1>10. ASSUME NEW u \in Users, NEW value \in {"none", "active", "inactive"}, SetMember(u, value)
       PROVE  MembersInv'
  <2>1. /\ members' = [members EXCEPT ![u] = value] /\ wish' = [wish EXCEPT ![u] = value]
        /\ raced' = IF turn = "members" /\ at = "write" THEN raced \cup {u} ELSE raced \ {u}
        /\ UNCHANGED <<turn, at, read>>
    BY <1>10 DEF SetMember, runner
  <2>2. members' \in [Users -> Values]
    BY <2>1 DEF MembersInv
  <2>3. MembersKept'
    BY <2>1 DEF MembersInv, MembersKept
  <2> QED BY <2>1, <2>2, <2>3 DEF MembersInv
<1> QED BY <1>2, <1>3, <1>4, <1>5, <1>6, <1>7, <1>8, <1>9, <1>10 DEF DataNext

(* An item gets one copy, and another only after a user has touched it,    *)
(* and none is given up without; a member is what it was last set to, or   *)
(* active if never (fields.go), for any failures, crashes and edits.       *)
THEOREM FieldsAreKept == DataSpec => []FieldsKeepTheirValues
<1>1. ItemsInv /\ MembersInv /\ [DataNext]_allVars => ItemsInv' /\ MembersInv'
  BY ItemsStep, MembersStep
<1>2. ItemsInv /\ MembersInv => FieldsKeepTheirValues
  <2> SUFFICES ASSUME ItemsInv, MembersInv PROVE FieldsKeepTheirValues
    OBVIOUS
  <2>1. \A i \in Items : made[i] <= 1 + touched[i]
    BY DEF ItemsInv
  <2>2. embedded = {} => \A i \in Items : made[i] >= 1
    BY DEF ItemsInv
  <2> QED BY <2>1, <2>2 DEF FieldsKeepTheirValues, ItemsOnce, MembersInv
<1> QED BY <1>1, <1>2, InitFields, PTL DEF DataSpec

-----------------------------------------------------------------------------
(* fs-path-heal.                                                           *)

CopyNames(v) == {Prefixed(v, name) : name \in NoVersion \cup {<<"name">>}}

(* What a file with the name of a version's path may hold: the version,    *)
(* anything when the name does not say one, or the start of a copy when it *)
(* has the name of one.                                                    *)
Tells(v, f) ==
    \/ disk[f] = v
    \/ disk[f] # Short /\ f.name \in NoVersion
    \/ f.dir = "files" /\ f.name \in CopyNames(v) /\ (disk[f] = Short \/ f.name \in FromNoVersion(v))

(* What a version may record: such a file, or one found by its prefix.     *)
Good(v, f) ==
    \/ Tells(v, f) /\ \A w \in Range(Versions) : SaysVersion(w, f.name) => w = v
    \/ /\ v \in guessed
       /\ disk[f] \in {v, Short} \/ v = "thumbnail" \/ f.name \in FromNoVersion(v)
       /\ \A w \in Range(Versions) : SaysVersion(w, f.name) => w = v \/ v = "thumbnail"

(* A version has the path that it had, or one that a boot has recorded.    *)
Unhealed(v) ==
    /\ \A f \in DOMAIN disk : f.name = path[v].name => Tells(v, f)
    /\ \A w \in Range(Versions) : SaysVersion(w, path[v].name) => w = v

Recorded(v) == path[v] \in DOMAIN disk /\ path[v].dir = "files" /\ Good(v, path[v])

DiskInv ==
    \A f \in DOMAIN disk :
       /\ f \in AnyFile /\ f.name # <<>> /\ disk[f] \in Range(Versions) \cup {Short}
       /\ disk[f] = Short => f.dir = "files" /\ \E v \in Range(Versions) : SaysVersion(v, f.name)
       /\ \A v \in Range(Versions) : f.dir = "files" /\ SaysVersion(v, f.name) =>
             disk[f] \in {v, Short} \/ f.name \in FromNoVersion(v)

(* What the step knows of the version it is at: nothing else changes the   *)
(* paths, and files only the step.                                         *)
HealInv ==
    turn = "paths" /\ at \in {"heal", "copy", "record"} =>
       /\ read.broken \subseteq Range(Versions) /\ read.broken # {}
       /\ \A v \in read.broken : Unhealed(v)
       /\ at = "copy" => /\ read.from \in DOMAIN disk /\ read.from.dir # "files"
                         /\ read.from.name \in NoVersion \cup {path[Current].name}
                         /\ read.to = File("files", Prefixed(Current, read.from.name))
                         /\ read.to \in DOMAIN disk
       /\ at = "record" => read.to \in DOMAIN disk /\ read.to.dir = "files" /\ Good(Current, read.to)

PathsInv ==
    /\ path \in [Range(Versions) -> AnyFile]
    /\ \A v \in Range(Versions) : Unhealed(v) \/ Recorded(v)

FilesInv == DiskInv /\ PathsInv /\ HealInv

LEMMA BothVersions == Range(Versions) = {"original", "thumbnail"} /\ Short \notin Range(Versions)
<1>1. DOMAIN Versions = {1, 2} /\ Versions[1] = "original" /\ Versions[2] = "thumbnail"
  BY DEF Versions
<1>2. Range(Versions) = {"original", "thumbnail"}
  BY <1>1 DEF Range
<1> QED BY <1>2 DEF Short

LEMMA CurrentFacts ==
    ASSUME NEW S \in SUBSET Range(Versions), S # {}, read.broken = S
    PROVE  Current \in S
<1> DEFINE left == {n \in DOMAIN Versions : Versions[n] \in S}
<1>1. DOMAIN Versions = {1, 2} /\ Versions[1] = "original" /\ Versions[2] = "thumbnail"
  BY DEF Versions
<1>2. left \subseteq {1, 2} /\ left # {}
  BY <1>1, BothVersions
<1> HIDE DEF left
<1>3. \E x \in left : \A y \in left : x <= y
  <2>1. CASE 1 \in left
    BY <1>2, <2>1
  <2>2. CASE 1 \notin left
    <3>1. left = {2}
      BY <1>2, <2>2
    <3> QED BY <3>1
  <2> QED BY <2>1, <2>2
<1>4. Min(left) \in left
  BY <1>3 DEF Min
<1> QED BY <1>4 DEF left, Current

(* The name of a copy says its version, and is not the name copied.        *)
LEMMA CopyName ==
    ASSUME NEW v \in Range(Versions), NEW name \in Seq(Words), name # <<>>
    PROVE  /\ Prefixed(v, name) \in Seq(Words) /\ Prefixed(v, name) # <<>>
           /\ Prefixed(v, name) # name
           /\ SaysVersion(v, Prefixed(v, name))
           /\ \A w : SaysVersion(w, Prefixed(v, name)) => w = v
<1>1. <<"id", v>> \in Seq(Words) /\ Len(<<"id", v>>) = 2
  <2>1. "id" \in Words /\ v \in Words
    BY BothVersions, WordsAssumption
  <2> QED BY <2>1
<1>2. PICK p : p = Prefixed(v, name)
  OBVIOUS
<1>3. Len(name) \in Nat \ {0}
  OBVIOUS
<1>4. p \in Seq(Words) /\ Len(p) = 2 + Len(name) /\ p[1] = "id" /\ p[2] = v
  BY <1>1, <1>2, <1>3 DEF Prefixed
<1>5. p # <<>> /\ p # name /\ Len(p) > 2
  BY <1>3, <1>4
<1> QED BY <1>2, <1>4, <1>5 DEF SaysVersion

LEMMA NoVersionNames ==
    /\ NoVersion \subseteq Seq(Words) \ {<<>>}
    /\ \A w : \A name \in NoVersion : ~SaysVersion(w, name)
    /\ <<"name">> \in Seq(Words) \ {<<>>}
<1>1. "id" \in Words /\ "name" \in Words
  BY WordsAssumption
<1>2. /\ <<"id">> \in Seq(Words) \ {<<>>} /\ Len(<<"id">>) = 1
      /\ <<"id", "name">> \in Seq(Words) \ {<<>>} /\ Len(<<"id", "name">>) = 2
      /\ <<"name">> \in Seq(Words) \ {<<>>}
  BY <1>1
<1> QED BY <1>2 DEF NoVersion, SaysVersion

(* What may be found of a version.                                         *)
LEMMA FoundFacts ==
    ASSUME NEW v \in Range(Versions), NEW f \in Found(v)
    PROVE  /\ f \in DOMAIN disk
           /\ \/ /\ f \in Range(Candidates(v))
                 /\ \/ f.name = path[v].name \/ f.name \in NoVersion
                    \/ f.dir = "files" /\ f.name = Prefixed(v, <<"name">>)
              \/ f \in Named("original") \cup Named(v)
<1> DEFINE C == Candidates(v)
           there == {n \in DOMAIN C : IsThere(C[n])}
<1>1. CASE there = {}
  BY <1>1 DEF Found, Search, Named
<1>2. CASE there # {}
  <2>1. f = C[Min(there)]
    BY <1>2 DEF Found
  <2>2. DOMAIN C = 1..7
    BY DEF Candidates
  <2> HIDE DEF C
  <2>3. Min(there) \in there
    <3>1. there \subseteq 1..7
      BY <2>2
    <3> HIDE DEF there
    <3>2. \E x \in there : \A y \in there : x <= y
      <4> DEFINE Below(n) == \A m \in there : n <= m
      <4>1. Below(1)
        BY <3>1
      <4>2. \A n \in 1..7 : n \notin there /\ Below(n) => Below(n + 1)
        BY <3>1
      <4>3. ~Below(8)
        <5>1. PICK m \in there : m \in 1..7
          BY <1>2, <3>1
        <5> QED BY <5>1
      <4> HIDE DEF Below
      <4>4. \E n \in 1..7 : n \in there /\ Below(n)
        BY <4>1, <4>2, <4>3
      <4> QED BY <4>4 DEF Below
    <3> QED BY <3>2 DEF Min
  <2>4. f \in DOMAIN disk /\ \E n \in 1..7 : f = C[n]
    BY <2>1, <2>2, <2>3 DEF IsThere
  <2>5. f \in Range(C)
    BY <2>2, <2>4 DEF Range
  <2>6. \/ f.name = path[v].name \/ f.name \in NoVersion
        \/ f.dir = "files" /\ f.name = Prefixed(v, <<"name">>)
    <3>1. PICK n \in 1..7 : f = C[n]
      BY <2>4
    <3>2. n = 1 \/ n = 2 \/ n = 3 \/ n = 4 \/ n = 5 \/ n = 6 \/ n = 7
      OBVIOUS
    <3> QED BY <3>1, <3>2 DEF C, Candidates, File, NoVersion
  <2> QED BY <2>4, <2>5, <2>6 DEF C
<1> QED BY <1>1, <1>2

(* A file that is found where it belongs is good to record.                *)
LEMMA FoundIsGood ==
    ASSUME FilesInv, NEW v \in Range(Versions), Unhealed(v), NEW f \in Found(v), f.dir = "files",
           UNCHANGED <<disk, path>>,
           guessed' = IF f \in Range(Candidates(v)) THEN guessed \ {v} ELSE guessed \cup {v}
    PROVE  Good(v, f)'
<1>1. /\ f \in DOMAIN disk /\ f \in AnyFile /\ disk[f] \in Range(Versions) \cup {Short}
      /\ disk[f] = Short => \E w \in Range(Versions) : SaysVersion(w, f.name)
      /\ \A w \in Range(Versions) : SaysVersion(w, f.name) => disk[f] \in {w, Short} \/ f.name \in FromNoVersion(w)
  BY FoundFacts DEF FilesInv, DiskInv
<1>2. (Tells(v, f)' <=> Tells(v, f)) /\ disk'[f] = disk[f]
  BY DEF Tells
<1>3. CASE f \in Range(Candidates(v))
  <2>1. CASE f.name = path[v].name
    BY <1>1, <1>2, <2>1 DEF Unhealed, Good
  <2>2. CASE f.name \in NoVersion
    BY <1>1, <1>2, <2>2, NoVersionNames DEF Tells, Good
  <2>3. CASE f.name = Prefixed(v, <<"name">>)
    <3>1. SaysVersion(v, f.name) /\ \A w : SaysVersion(w, f.name) => w = v
      <4>1. <<"name">> \in Seq(Words) /\ <<"name">> # <<>>
        BY NoVersionNames
      <4>2. /\ SaysVersion(v, Prefixed(v, <<"name">>))
            /\ \A w : SaysVersion(w, Prefixed(v, <<"name">>)) => w = v
        BY <4>1, CopyName
      <4> QED BY <2>3, <4>2
    <3>2. f.name \in CopyNames(v)
      BY <2>3 DEF CopyNames
    <3> QED BY <1>1, <1>2, <3>1, <3>2 DEF Tells, Good
  <2>4. CASE f \in Named("original") \cup Named(v)
    <3>1. CASE f.name = path[v].name \/ f.name \in NoVersion \/ f.name = Prefixed(v, <<"name">>)
      BY <2>1, <2>2, <2>3, <3>1
    <3>2. f.name = path[v].name \/ f.name \in NoVersion \/ f.name = Prefixed(v, <<"name">>)
      <4>1. PICK n \in 1..7 : f = Candidates(v)[n]
        BY <1>3 DEF Range, Candidates
      <4>2. n = 1 \/ n = 2 \/ n = 3 \/ n = 4 \/ n = 5 \/ n = 6 \/ n = 7
        OBVIOUS
      <4> QED BY <4>1, <4>2 DEF Candidates, File, NoVersion
    <3> QED BY <3>1, <3>2
  <2> QED BY <2>1, <2>2, <2>3, <2>4, FoundFacts
<1>4. CASE f \notin Range(Candidates(v))
  <2>1. v \in guessed'
    BY <1>4
  <2>2. f \in Named("original") \cup Named(v)
    BY <1>4, FoundFacts
  <2>3. CASE v = "thumbnail"
    BY <2>1, <2>3 DEF Good
  <2>4. CASE v = "original"
    <3>1. SaysVersion("original", f.name)
      BY <2>2, <2>4 DEF Named
    <3>2. \A w : SaysVersion(w, f.name) => w = v
      BY <2>4, <3>1 DEF SaysVersion
    <3>3. disk'[f] \in {v, Short} \/ f.name \in FromNoVersion(v)
      BY <1>1, <1>2, <2>4, <3>1, BothVersions
    <3> QED BY <2>1, <3>2, <3>3 DEF Good
  <2> QED BY <2>3, <2>4, BothVersions
<1> QED BY <1>3, <1>4

(* The one write to the disk: a copy of a version gets other contents.     *)
LEMMA DiskStep ==
    ASSUME FilesInv, NEW v \in Range(Versions), Unhealed(v),
           NEW name \in NoVersion \cup {path[v].name}, name \in Seq(Words), name # <<>>,
           NEW to, to = File("files", Prefixed(v, name)),
           NEW c \in Range(Versions) \cup {Short}, c \in {v, Short} \/ name \in NoVersion,
           DOMAIN disk' = DOMAIN disk \cup {to}, disk'[to] = c,
           \A f \in DOMAIN disk : f # to => disk'[f] = disk[f],
           path' = path, \A w \in Range(Versions) : w # v => (w \in guessed' <=> w \in guessed)
    PROVE  /\ DiskInv'
           /\ \A w \in Range(Versions) : Unhealed(w) => Unhealed(w)'
           /\ PathsInv'
<1>1. /\ to \in AnyFile /\ to.dir = "files" /\ to.name = Prefixed(v, name)
      /\ to.name # <<>> /\ to.name # name /\ SaysVersion(v, to.name)
      /\ \A w : SaysVersion(w, to.name) => w = v
  <2>1. to.dir = "files" /\ to.name = Prefixed(v, name)
    BY DEF File
  <2>2. /\ Prefixed(v, name) \in Seq(Words) /\ Prefixed(v, name) # <<>> /\ Prefixed(v, name) # name
        /\ SaysVersion(v, Prefixed(v, name)) /\ \A w : SaysVersion(w, Prefixed(v, name)) => w = v
    BY CopyName
  <2>3. to \in AnyFile
    BY <2>2 DEF File, AnyFile
  <2> QED BY <2>1, <2>2, <2>3
<1>2. name \in NoVersion => to.name \in FromNoVersion(v) /\ to.name \in CopyNames(v)
  BY <1>1 DEF FromNoVersion, CopyNames
<1>3. DiskInv'
  <2> SUFFICES ASSUME NEW f \in DOMAIN disk'
               PROVE  /\ f \in AnyFile /\ f.name # <<>> /\ disk'[f] \in Range(Versions) \cup {Short}
                      /\ disk'[f] = Short => f.dir = "files" /\ \E u \in Range(Versions) : SaysVersion(u, f.name)
                      /\ \A u \in Range(Versions) : f.dir = "files" /\ SaysVersion(u, f.name) =>
                            disk'[f] \in {u, Short} \/ f.name \in FromNoVersion(u)
    BY DEF DiskInv
  <2>1. CASE f = to
    BY <1>1, <1>2, <2>1
  <2>2. CASE f # to
    BY <2>2 DEF FilesInv, DiskInv
  <2> QED BY <2>1, <2>2
<1>4. ASSUME NEW w \in Range(Versions), Unhealed(w) PROVE Unhealed(w)'
  <2>1. ASSUME NEW f \in DOMAIN disk', f.name = path[w].name PROVE Tells(w, f)'
    <3>1. CASE f = to
      <4>1. w = v
        BY <1>1, <1>4, <2>1, <3>1 DEF Unhealed
      <4>2. name \in NoVersion
        BY <1>1, <2>1, <3>1, <4>1
      <4> QED BY <1>1, <1>2, <3>1, <4>1, <4>2 DEF Tells
    <3>2. CASE f # to
      BY <1>4, <2>1, <3>2 DEF Unhealed, Tells
    <3> QED BY <3>1, <3>2
  <2> QED BY <1>4, <2>1 DEF Unhealed
<1>5. ASSUME NEW w \in Range(Versions), w # v, Recorded(w) PROVE Recorded(w)'
  <2> DEFINE f == path[w]
  <2>1. f \in DOMAIN disk /\ f.dir = "files" /\ Good(w, f) /\ path'[w] = f
    BY <1>5 DEF Recorded
  <2>2. CASE f # to
    <3>1. disk'[f] = disk[f] /\ (w \in guessed' <=> w \in guessed)
      BY <1>5, <2>1, <2>2
    <3>2. Tells(w, f) => Tells(w, f)'
      BY <3>1 DEF Tells
    <3>3. Good(w, f)'
      BY <2>1, <3>1, <3>2 DEF Good
    <3> QED BY <2>1, <3>3 DEF Recorded
  <2>3. CASE f = to
    <3>1. w = "thumbnail" /\ w \in guessed
      BY <1>1, <1>5, <2>1, <2>3 DEF Good
    <3>2. Good(w, f)'
      BY <1>5, <3>1 DEF Good
    <3> QED BY <2>1, <3>2 DEF Recorded
  <2> QED BY <2>2, <2>3
<1>6. PathsInv'
  BY <1>4, <1>5 DEF FilesInv, PathsInv
<1> QED BY <1>3, <1>4, <1>6

(* What the step has still to do, when the disk and the paths are as they  *)
(* were.                                                                   *)
LEMMA SamePlaces ==
    ASSUME FilesInv, UNCHANGED <<disk, path, guessed>>
    PROVE  /\ DiskInv' /\ PathsInv'
           /\ \A v : Unhealed(v) => Unhealed(v)'
           /\ \A v, f : Good(v, f) => Good(v, f)'
<1>1. \A v, f : Tells(v, f)' <=> Tells(v, f)
  BY DEF Tells
<1>2. \A v, f : Good(v, f)' <=> Good(v, f)
  BY <1>1 DEF Good
<1>3. \A v : Unhealed(v)' <=> Unhealed(v)
  BY <1>1 DEF Unhealed
<1>4. \A v : Recorded(v)' <=> Recorded(v)
  BY <1>2 DEF Recorded
<1>5. DiskInv'
  BY DEF FilesInv, DiskInv
<1>6. PathsInv'
  BY <1>3, <1>4 DEF FilesInv, PathsInv
<1> QED BY <1>2, <1>3, <1>5, <1>6

LEMMA OtherSteps ==
    ASSUME FilesInv, UNCHANGED <<disk, path, guessed>>,
           turn' # "paths" \/ at' = "check" \/ at' = "read" \/ UNCHANGED runner
    PROVE  FilesInv'
<1>1. DiskInv' /\ PathsInv'
  BY SamePlaces
<1>2. CASE turn' # "paths" \/ at' = "check" \/ at' = "read"
  BY <1>1, <1>2 DEF FilesInv, HealInv
<1>3. CASE UNCHANGED runner
  <2>1. UNCHANGED <<turn, at, read, Current>>
    BY <1>3 DEF runner, Current
  <2>2. HealInv'
    BY <2>1, SamePlaces DEF FilesInv, HealInv
  <2> QED BY <1>1, <2>2 DEF FilesInv
<1> QED BY <1>2, <1>3

(* The rest of the versions are where they were.                           *)
LEMMA RestOfThem ==
    ASSUME FilesInv, turn = "paths", at \in {"heal", "copy", "record"}, Rest,
           DiskInv', PathsInv',
           \A v \in read.broken \ {Current} : Unhealed(v)'
    PROVE  FilesInv'
<1> DEFINE left == read.broken \ {Current}
<1>1. CASE left = {}
  <2>1. at' = "check"
    BY <1>1, Runner DEF Rest
  <2> QED BY <2>1 DEF FilesInv, HealInv
<1>2. CASE left # {}
  <2>1. at' = "heal" /\ read'.broken = left
    BY <1>2 DEF Rest, Go
  <2>2. left \subseteq Range(Versions)
    BY DEF FilesInv, HealInv
  <2> QED BY <1>2, <2>1, <2>2 DEF FilesInv, HealInv
<1> QED BY <1>1, <1>2

LEMMA HealStep ==
    ASSUME FilesInv, Heal
    PROVE  FilesInv'
<1>1. /\ turn = "paths" /\ at = "heal" /\ UNCHANGED path
      /\ read.broken \subseteq Range(Versions) /\ read.broken # {}
      /\ \A v \in read.broken : Unhealed(v)
  BY DEF Heal, files, FilesInv, HealInv
<1>2. PICK v : v = Current
  OBVIOUS
<1>3. v \in read.broken /\ v \in Range(Versions) /\ Unhealed(v)
  BY <1>1, <1>2, CurrentFacts
<1>4. PICK from \in Found(v) :
        LET to == Final(v, from)
        IN /\ Go(IF from = to THEN "record" ELSE "copy",
                 [broken |-> read.broken, from |-> from, to |-> to])
           /\ disk' = IF from = to THEN disk ELSE [f \in DOMAIN disk \cup {to} |-> IF f = to THEN Short ELSE disk[f]]
           /\ guessed' = IF from \in Range(Candidates(v)) THEN guessed \ {v} ELSE guessed \cup {v}
  BY <1>2 DEF Heal
<1>5. PICK to : to = Final(v, from)
  OBVIOUS
<1>6. /\ at' = IF from = to THEN "record" ELSE "copy"
      /\ turn' = "paths"
      /\ read' = [broken |-> read.broken, from |-> from, to |-> to]
      /\ disk' = IF from = to THEN disk ELSE [f \in DOMAIN disk \cup {to} |-> IF f = to THEN Short ELSE disk[f]]
      /\ guessed' = IF from \in Range(Candidates(v)) THEN guessed \ {v} ELSE guessed \cup {v}
  BY <1>1, <1>4, <1>5 DEF Go
<1>7. read'.broken = read.broken /\ read'.from = from /\ read'.to = to
  BY <1>6
<1>8. Current' = v
  BY <1>2, <1>7 DEF Current
<1>9. from \in DOMAIN disk /\ from \in AnyFile /\ from.name # <<>> /\ from.name \in Seq(Words)
  BY <1>3, FoundFacts DEF FilesInv, DiskInv, AnyFile
<1>10. \A w \in Range(Versions) : w # v => (w \in guessed' <=> w \in guessed)
  BY <1>6
<1>11. CASE from.dir = "files"
  <2>1. from = to /\ at' = "record" /\ disk' = disk
    BY <1>5, <1>6, <1>11 DEF Final
  <2>2. Good(v, to)'
    BY <1>1, <1>3, <1>6, <1>11, <2>1, FoundIsGood
  <2>3. \A w \in read.broken : Unhealed(w)'
    BY <1>1, <2>1 DEF Unhealed, Tells
  <2>4. DiskInv'
    BY <2>1 DEF FilesInv, DiskInv
  <2>5. ASSUME NEW w \in Range(Versions) PROVE Unhealed(w)' \/ Recorded(w)'
    <3>1. CASE w = v
      BY <1>3, <2>3, <3>1
    <3>2. CASE w # v
      <4>1. w \in guessed' <=> w \in guessed
        BY <1>10, <3>2
      <4> QED BY <1>1, <2>1, <4>1 DEF FilesInv, PathsInv, Unhealed, Recorded, Good, Tells
    <3> QED BY <3>1, <3>2
  <2>6. PathsInv'
    BY <1>1, <2>5 DEF FilesInv, PathsInv
  <2>7. HealInv'
    BY <1>1, <1>6, <1>7, <1>8, <1>9, <1>11, <2>1, <2>2, <2>3 DEF HealInv
  <2> QED BY <2>4, <2>6, <2>7 DEF FilesInv
<1>12. CASE from.dir # "files"
  <2>1. to = File("files", Prefixed(v, from.name)) /\ to.dir = "files"
    BY <1>5, <1>12 DEF Final, File
  <2>2. from # to /\ at' = "copy" /\ disk' = [f \in DOMAIN disk \cup {to} |-> IF f = to THEN Short ELSE disk[f]]
    BY <1>6, <1>12, <2>1
  <2>3. from.name \in NoVersion \cup {path[v].name}
    BY <1>3, <1>12, FoundFacts DEF Named
  <2>4. DOMAIN disk' = DOMAIN disk \cup {to} /\ disk'[to] = Short /\ \A f \in DOMAIN disk : f # to => disk'[f] = disk[f]
    BY <2>2
  <2>5. DiskInv' /\ PathsInv' /\ \A w \in Range(Versions) : Unhealed(w) => Unhealed(w)'
    BY <1>1, <1>3, <1>9, <1>10, <2>1, <2>3, <2>4, DiskStep
  <2>6. from \in DOMAIN disk' /\ to \in DOMAIN disk'
    BY <1>9, <2>4
  <2>7. HealInv'
    BY <1>1, <1>6, <1>7, <1>8, <1>12, <2>1, <2>2, <2>3, <2>5, <2>6 DEF HealInv
  <2> QED BY <2>5, <2>7 DEF FilesInv
<1> QED BY <1>11, <1>12

LEMMA CopyStep ==
    ASSUME FilesInv, CopyEnds
    PROVE  FilesInv'
<1>1. /\ turn = "paths" /\ at = "copy" /\ UNCHANGED <<path, guessed>>
      /\ read.broken \subseteq Range(Versions) /\ read.broken # {}
      /\ \A v \in read.broken : Unhealed(v)
      /\ read.from \in DOMAIN disk /\ read.from.dir # "files"
      /\ read.from.name \in NoVersion \cup {path[Current].name}
      /\ read.to = File("files", Prefixed(Current, read.from.name))
      /\ read.to \in DOMAIN disk
  BY DEF CopyEnds, files, FilesInv, HealInv
<1>2. PICK v, from, to : v = Current /\ from = read.from /\ to = read.to
  OBVIOUS
<1>3. v \in read.broken /\ v \in Range(Versions) /\ Unhealed(v)
  BY <1>1, <1>2, CurrentFacts
<1>4. CASE UNCHANGED disk /\ CopyFailed
  <2>1. DiskInv' /\ PathsInv' /\ \A w : Unhealed(w) => Unhealed(w)'
    BY <1>1, <1>4, SamePlaces
  <2> QED BY <1>1, <1>4, <2>1, RestOfThem DEF CopyFailed
<1>5. CASE disk' = [disk EXCEPT ![read.to] = disk[read.from]] /\ Go("record", read)
  <2>1. at' = "record" /\ turn' = "paths" /\ read' = read /\ Current' = v
    BY <1>1, <1>2, <1>5 DEF Go, Current
  <2>2. DOMAIN disk' = DOMAIN disk \cup {to} /\ disk'[to] = disk[from] /\ \A f \in DOMAIN disk : f # to => disk'[f] = disk[f]
    BY <1>1, <1>2, <1>5
  <2>3. /\ from.name \in Seq(Words) /\ from.name # <<>>
        /\ disk[from] \in Range(Versions)
    BY <1>1, <1>2 DEF FilesInv, DiskInv, AnyFile
  <2>4. disk[from] = v \/ from.name \in NoVersion
    BY <1>1, <1>2, <1>3 DEF Unhealed, Tells
  <2>5. to = File("files", Prefixed(v, from.name)) /\ from.name \in NoVersion \cup {path[v].name}
    BY <1>1, <1>2
  <2>6. DiskInv' /\ PathsInv' /\ \A w \in Range(Versions) : Unhealed(w) => Unhealed(w)'
    BY <1>1, <1>3, <2>2, <2>3, <2>4, <2>5, DiskStep
  <2>7. to.dir = "files" /\ to.name = Prefixed(v, from.name) /\ \A w : SaysVersion(w, to.name) => w = v
    BY <1>3, <2>3, <2>5, CopyName DEF File
  <2>8. from.name \in NoVersion => to.name \in CopyNames(v) /\ to.name \in FromNoVersion(v)
    BY <2>7 DEF CopyNames, FromNoVersion
  <2>9. Good(v, to)'
    BY <2>2, <2>4, <2>7, <2>8 DEF Good, Tells
  <2>10. HealInv'
    BY <1>1, <1>2, <2>1, <2>2, <2>6, <2>7, <2>9 DEF HealInv
  <2> QED BY <2>6, <2>10 DEF FilesInv
<1> QED BY <1>4, <1>5 DEF CopyEnds

LEMMA RecordStep ==
    ASSUME FilesInv, RecordPath
    PROVE  FilesInv'
<1>1. /\ turn = "paths" /\ at = "record" /\ UNCHANGED <<disk, guessed>> /\ Rest
      /\ path' = [path EXCEPT ![Current] = read.to]
      /\ read.broken \subseteq Range(Versions) /\ read.broken # {}
      /\ \A v \in read.broken : Unhealed(v)
      /\ read.to \in DOMAIN disk /\ read.to.dir = "files" /\ Good(Current, read.to)
  BY DEF RecordPath, files, FilesInv, HealInv
<1>2. PICK v, to : v = Current /\ to = read.to
  OBVIOUS
<1>3. v \in Range(Versions)
  BY <1>1, <1>2, CurrentFacts
<1>4. path \in [Range(Versions) -> AnyFile] /\ to \in AnyFile
  BY <1>1, <1>2 DEF FilesInv, PathsInv, DiskInv
<1>5. path' \in [Range(Versions) -> AnyFile] /\ path'[v] = to /\ \A w \in Range(Versions) : w # v => path'[w] = path[w]
  BY <1>1, <1>2, <1>3, <1>4
<1>6. DiskInv'
  BY <1>1 DEF FilesInv, DiskInv
<1>7. ASSUME NEW w \in Range(Versions), w # v
      PROVE  (Unhealed(w) => Unhealed(w)') /\ (Recorded(w) => Recorded(w)')
  <2>1. path'[w] = path[w] /\ disk' = disk /\ guessed' = guessed
    BY <1>1, <1>5, <1>7
  <2> QED BY <2>1 DEF Unhealed, Recorded, Good, Tells
<1>8. Recorded(v)'
  BY <1>1, <1>2, <1>5 DEF Recorded, Good, Tells
<1>9. PathsInv'
  <2>1. ASSUME NEW w \in Range(Versions) PROVE Unhealed(w)' \/ Recorded(w)'
    <3>1. CASE w = v
      BY <1>8, <3>1
    <3>2. CASE w # v
      <4>1. Unhealed(w) \/ Recorded(w)
        BY DEF FilesInv, PathsInv
      <4> QED BY <1>7, <3>2, <4>1
    <3> QED BY <3>1, <3>2
  <2> QED BY <1>5, <2>1 DEF PathsInv
<1>10. \A w \in read.broken \ {Current} : Unhealed(w)'
  <2> SUFFICES ASSUME NEW w \in read.broken \ {Current} PROVE Unhealed(w)'
    OBVIOUS
  <2>1. w \in Range(Versions) /\ w # v /\ Unhealed(w)
    BY <1>1, <1>2
  <2> QED BY <1>7, <2>1
<1> QED BY <1>1, <1>6, <1>9, <1>10, RestOfThem

LEMMA FilesStep ==
    ASSUME FilesInv, [DataNext]_allVars
    PROVE  FilesInv'
<1>1. CASE UNCHANGED allVars \/ Boot \/ StepFails \/ Crash \/ CheckItems \/ ChooseFlag \/ Mount
  BY <1>1, OtherSteps, Runner DEF allVars, files, Boot, StepFails, Crash, CheckItems, CheckStep, Go, ChooseFlag, Mount
<1>2. CASE ReadItems \/ UnsetItems \/ CheckMembers \/ ReadMembers \/ WriteMembers
  BY <1>2, OtherSteps, Runner DEF files, ReadItems, UnsetItems, CheckMembers, CheckStep, ReadMembers, WriteMembers, Go
<1>3. ASSUME NEW some, InsertItems(some) PROVE FilesInv'
  BY <1>3, OtherSteps, Runner DEF files, InsertItems, Go
<1>4. CASE Minicard
  BY <1>4, OtherSteps, Runner DEF files, Minicard, Go
<1>5. ASSUME NEW i, TouchItem(i) PROVE FilesInv'
  BY <1>5, OtherSteps DEF TouchItem, files
<1>6. ASSUME NEW u, NEW value, SetMember(u, value) PROVE FilesInv'
  BY <1>6, OtherSteps DEF SetMember, files
<1>7. CASE CheckPaths
  BY <1>7, OtherSteps, Runner DEF files, CheckPaths, CheckStep, Go
<1>8. CASE ReadPaths
  <2>1. UNCHANGED <<disk, path, guessed>>
    BY <1>8 DEF ReadPaths, files
  <2>2. CASE Broken = {}
    BY <1>8, <2>1, <2>2, OtherSteps, Runner DEF ReadPaths
  <2>3. CASE Broken # {}
    <3>1. at' = "heal" /\ read'.broken = Broken
      BY <1>8, <2>3 DEF ReadPaths, Go
    <3>2. \A v \in Broken : v \in Range(Versions) /\ Unhealed(v)
      BY DEF Broken, NeedsHeal, IsThere, FilesInv, PathsInv, Recorded
    <3>3. DiskInv' /\ PathsInv' /\ \A v : Unhealed(v) => Unhealed(v)'
      BY <2>1, SamePlaces
    <3>4. HealInv'
      BY <2>3, <3>1, <3>2, <3>3 DEF HealInv
    <3> QED BY <3>3, <3>4 DEF FilesInv
  <2> QED BY <2>2, <2>3
<1>9. CASE NotHealed
  <2>1. UNCHANGED <<disk, path, guessed>> /\ turn = "paths" /\ at = "heal" /\ Rest
    BY <1>9 DEF NotHealed, files
  <2>2. DiskInv' /\ PathsInv' /\ \A v : Unhealed(v) => Unhealed(v)'
    BY <2>1, SamePlaces
  <2>3. \A v \in read.broken : Unhealed(v)
    BY <2>1 DEF FilesInv, HealInv
  <2> QED BY <2>1, <2>2, <2>3, RestOfThem
<1> QED BY <1>1, <1>2, <1>3, <1>4, <1>5, <1>6, <1>7, <1>8, <1>9, HealStep, CopyStep, RecordStep DEF DataNext

LEMMA FilesInit == DataInit => FilesInv
<1> SUFFICES ASSUME DataInit PROVE FilesInv
  OBVIOUS
<1>1. PICK d \in Databases : disk = d.disk /\ path = d.path
  BY DEF DataInit
<1>2. /\ path \in [Range(Versions) -> AnyFile]
      /\ \A f \in DOMAIN disk :
            /\ f \in AnyFile /\ f.name # <<>> /\ disk[f] \in Range(Versions)
            /\ \A v \in Range(Versions) :
                 \/ disk[f] = v
                 \/ f.dir = "files" /\ \E name \in NoVersion : f.name = Prefixed(v, name)
                 \/ /\ f.name = path[v].name => f.name \in NoVersion
                    /\ f.dir = "files" => ~SaysVersion(v, f.name)
      /\ \A v, w \in Range(Versions) : SaysVersion(w, path[v].name) => w = v
  BY <1>1, DatabasesAssumption
<1>3. DiskInv
  BY <1>2, BothVersions DEF DiskInv, FromNoVersion
<1>4. \A v \in Range(Versions) : Unhealed(v)
  BY <1>2, BothVersions DEF Unhealed, Tells, FromNoVersion, CopyNames
<1> QED BY <1>2, <1>3, <1>4 DEF FilesInv, PathsInv, HealInv, DataInit

(* The path of a version names its own file, and a whole one, but for the  *)
(* gaps HealedIsWhole names, wherever boots fail or crash and the volume   *)
(* of the old files comes and goes (files.go, healFilesystemVersion).      *)
THEOREM PathsAreHealed == DataSpec => []HealedIsWhole
<1>1. FilesInv => HealedIsWhole
  <2> SUFFICES ASSUME FilesInv, NEW v \in Range(Versions), IsThere(path[v])
               PROVE  \/ disk[path[v]] = v
                      \/ disk[path[v]] = Short /\ TakenForWhole(v)
                      \/ disk[path[v]] # Short /\ TakenForOwn(v)
    BY DEF HealedIsWhole
  <2>1. path[v] \in DOMAIN disk
    BY DEF IsThere
  <2>2. CopyNames(v) = FromNoVersion(v) \cup {Prefixed(v, <<"name">>)}
    BY DEF CopyNames, FromNoVersion
  <2>3. CASE Tells(v, path[v])
    BY <2>2, <2>3 DEF Tells, TakenForWhole, TakenForOwn
  <2>4. Tells(v, path[v]) \/ Good(v, path[v])
    BY <2>1 DEF FilesInv, PathsInv, Unhealed, Recorded
  <2>5. CASE Good(v, path[v]) /\ ~Tells(v, path[v])
    BY <2>5 DEF Good, TakenForWhole, TakenForOwn
  <2> QED BY <2>3, <2>4, <2>5
<1>2. FilesInv /\ [DataNext]_allVars => FilesInv'
  BY FilesStep
<1> QED BY <1>1, <1>2, FilesInit, PTL DEF DataSpec

=============================================================================
