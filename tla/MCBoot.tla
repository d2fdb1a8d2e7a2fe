------------------------------- MODULE MCBoot -------------------------------
(* Two tables with one of every kind of change between the versions *)
EXTENDS Boot

MCOrder == <<"file", "perm">>
MCObsolete == <<"gone">>
MCSnapshot ==
  [file |-> [cols |-> {"size"}, rels |-> {"uploadedBy"}, uniques |-> {"location"},
             indexes |-> {"status"}, stamps |-> {"dates"}, enum |-> TRUE],
   perm |-> [cols |-> {"kind"}, rels |-> {"file"}, uniques |-> {"pair"},
             indexes |-> {}, stamps |-> {"dates"}, enum |-> FALSE]]
MCMigration ==
  [file |-> [renames |-> <<<<"bytes", "size">>>>, removals |-> <<"legacy">>,
             relationRenames |-> <<<<"uploaded_by", "uploadedBy">>>>, relationRemovals |-> <<>>],
   perm |-> [renames |-> <<>>, removals |-> <<>>,
             relationRenames |-> <<>>, relationRemovals |-> <<"allowedUsers">>]]
MCMoved == <<"perm", "allowedUsers">>

MCDefaults == <<"setting", "get", "route", "hook", "parent", "child">>
Plain(t, c) == [table |-> t, constrained |-> c, parents |-> {}, needed |-> FALSE,
                kept |-> FALSE, methods |-> {}, inline |-> FALSE]
MCDefault ==
  [setting |-> Plain("setting", FALSE),
   get     |-> Plain("method", FALSE),
   route   |-> [Plain("route", TRUE) EXCEPT !.methods = {"get"}],
   hook    |-> [Plain("hook", FALSE) EXCEPT !.parents = {"route"}, !.needed = TRUE,
                                            !.methods = {"get"}, !.inline = TRUE],
   parent  |-> [Plain("menu", TRUE) EXCEPT !.kept = TRUE],
   child   |-> [Plain("menu", TRUE) EXCEPT !.kept = TRUE, !.parents = {"parent"}]]

AllKeys == {<<"file", "size">>, <<"file", "uploadedBy">>, <<"perm", "kind">>, <<"perm", "file">>,
            <<"perm", "allowedUsers">>, <<"file", "bytes">>, <<"file", "uploaded_by">>,
            <<"file", "legacy">>, <<"gone", "any">>}
Names == {"setting", "get", "route", "hook", "parent", "child"}

\* An empty database, and one of an older version whose isInit was reset.
Fresh ==
  [tables |-> [t \in {"file", "perm", "gone"} |-> NoTable], links |-> {},
   junction |-> [there |-> FALSE, rows |-> {}],
   metadata |-> [k \in AllKeys |-> 0], records |-> [r \in Names |-> 0],
   refs |-> [r \in Names |-> {}], initialised |-> FALSE]
OldTables ==
  [file |-> [NoTable EXCEPT !.there = TRUE, !.cols = {"bytes", "legacy", "uploaded_by"},
                            !.fks = {"uploaded_by"}, !.indexes = {"dates", "uploaded_by"},
                            !.enum = "old", !.type = TRUE, !.cased = TRUE, !.doubled = {"location"},
                            !.misfit = {"size"}],
   perm |-> [NoTable EXCEPT !.there = TRUE, !.cols = {"allowedUsers"}, !.fks = {"allowedUsers"}],
   gone |-> [NoTable EXCEPT !.there = TRUE]]
Old ==
  [tables |-> OldTables, links |-> {1, 2},
   junction |-> [there |-> FALSE, rows |-> {}],
   metadata |-> [k \in AllKeys |-> IF k \in {<<"file", "bytes">>, <<"file", "uploaded_by">>,
       <<"file", "legacy">>, <<"perm", "allowedUsers">>, <<"gone", "any">>} THEN 1 ELSE 0],
   records |-> [r \in Names |-> IF r \in {"hook", "parent", "child"} THEN 0 ELSE 1],
   refs |-> [r \in Names |-> IF r = "route" THEN {"get"} ELSE {}], initialised |-> FALSE]

\* A database of this version, but for an action on delete.
Restyled ==
  [Old EXCEPT
    !.tables = [t \in {"file", "perm", "gone"} |->
      IF t = "gone" THEN NoTable
      ELSE [NoTable EXCEPT !.there = TRUE, !.cols = MCSnapshot[t].cols \cup MCSnapshot[t].rels,
                           !.fks = MCSnapshot[t].rels, !.uniques = MCSnapshot[t].uniques,
                           !.enum = IF t = "file" THEN "new" ELSE "none",
                           !.stale = IF t = "file" THEN {"uploadedBy"} ELSE {}]],
    !.links = {}, !.junction = [there |-> TRUE, rows |-> {}],
    !.metadata = [k \in AllKeys |-> IF k \in UNION {Listed(t) : t \in {"file", "perm"}} THEN 1 ELSE 0]]

\* Databases whose rows do not fit the snapshot.
Unfit(v, name, n) == [v EXCEPT !.tables[name].unfit = {n}, !.tables[name].fks = {}]
Tight == {Unfit(Old, "file", n) : n \in {"size", "enum", "uploadedBy"}}
         \cup {Unfit(Old, "perm", n) : n \in {"kind", "file"}}
         \cup {Unfit(Restyled, "file", "uploadedBy")}

Deployed(v, servers, n) ==
  [tables |-> v.tables, links |-> v.links, junction |-> v.junction, metadata |-> v.metadata,
   records |-> v.records, refs |-> v.refs, initialised |-> v.initialised,
   servers |-> servers, trouble |-> n]

One == {CHOOSE i \in Instances : TRUE}
MCVersions == {Deployed(v, One, 2) : v \in {Fresh, Old, Restyled}}
              \cup {Deployed(v, Instances, 0) : v \in {Fresh, Old, Restyled}}
              \cup {Deployed(v, One, 1) : v \in Tight}
=============================================================================
