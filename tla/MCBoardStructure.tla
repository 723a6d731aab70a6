-------------------------- MODULE MCBoardStructure --------------------------
(***************************************************************************)
(* A small instance of BoardStructure.  b1 has two lists, which may have   *)
(* the same title and belong to swimlanes; b2 may have been deleted, and   *)
(* may own the second lane.  The cards name lists and lanes that are gone, *)
(* missing, of another board or of another lane than their list.           *)
(***************************************************************************)
EXTENDS BoardStructure

CONSTANTS b1, b2, c1, c2, A, B

Gone == 3

LaneSets == [1 .. 2 -> [board : Boards, kind : {"visible", "hidden"}]]

ListSets ==
    {ls \in [1 .. 2 -> [board : {b1}, title : Titles, lane : {None, 1, 2},
                        kind : {"active", "archived", "template"}]] :
        /\ ls[1].title = A /\ ls[1].kind = "active" /\ ls[1].lane # 2
        /\ ls[2].lane # 1}

CardSets ==
    {cs \in [Cards -> [board : Boards, list : {1, 2, Gone}, lane : {None, 1, 2, Gone},
                       archived : BOOLEAN]] :
        /\ cs[c1].board = b1 /\ ~cs[c1].archived
        /\ cs[c1].list \in {1, Gone} /\ cs[c1].lane # Gone
        /\ cs[c2].list # 1 /\ cs[c2].lane \in {None, 2, Gone}
        /\ cs[c2].list = 2 => cs[c2].board = b1}

MCDatabases ==
    {d \in [boards : {{b1}, {b1, b2}}, marked : {{}, {b1}}, lanes : LaneSets,
            lists : ListSets, cards : CardSets] :
        d.lanes[1].board = b1 /\ d.lanes[2].kind = "visible"}
=============================================================================
