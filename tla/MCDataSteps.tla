----------------------------- MODULE MCDataSteps -----------------------------
(* Small instances of DataSteps: in each, one of the steps has something   *)
(* to do.                                                                  *)
EXTENDS DataSteps

CONSTANTS c1, c2, i1, i2, u1, u2

Old(name) == File("uploads", name)
Lost(name) == File("lost", name)
Holding(contents) == [f \in {p[1] : p \in contents} |-> (CHOOSE p \in contents : p[1] = f)[2]]

NoFlags == {[c \in Checklists |-> "absent"]}

Clean == [flags |-> NoFlags, embedded |-> {}, copied |-> Items, members |-> [u \in Users |-> "active"],
          disk |-> Holding({<<File("files", <<v>>), v>> : v \in Range(Versions)}),
          path |-> [v \in Range(Versions) |-> File("files", <<v>>)]]

Paths(original, thumbnail) == [v \in Range(Versions) |-> IF v = "original" THEN original ELSE thumbnail]
WithFiles(contents, original, thumbnail) ==
    [Clean EXCEPT !.disk = Holding(contents), !.path = Paths(original, thumbnail)]

MCWords == {"id", "name", "original", "thumbnail", "a", "b"}

MCDatabases ==
    {[Clean EXCEPT !.flags = [Checklists -> {"absent", "true", "default"}]]}
    \cup {[Clean EXCEPT !.embedded = Items, !.copied = c] : c \in {{}, {i1}, Items}}
    \cup {[Clean EXCEPT !.members = (u1 :> value @@ u2 :> "unset")] :
             value \in {"none", "unset", "active", "inactive"}}
    \cup {
      WithFiles({<<Old(<<"a">>), "original">>, <<Old(<<"b">>), "thumbnail">>}, Lost(<<"a">>), Lost(<<"b">>)),
      WithFiles({<<Old(<<"name">>), "original">>}, Lost(<<"name">>), NoPath),
      WithFiles({<<Old(<<"id">>), "original">>}, NoPath, Lost(<<"b">>)),
      WithFiles({<<File("root", <<"id", "name">>), "original">>, <<Old(<<"b">>), "thumbnail">>},
                Lost(<<"a">>), Old(<<"b">>)),
      WithFiles({<<Old(<<"id">>), "thumbnail">>}, NoPath, File("files", <<"id", "thumbnail", "id">>)),
      WithFiles({<<File("files", <<"id", "original", "a">>), "original">>}, NoPath, NoPath)}
=============================================================================
