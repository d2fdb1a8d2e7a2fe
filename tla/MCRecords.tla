----------------------------- MODULE MCRecords ------------------------------
(* Five tables with one relation of every kind, seen from both sides *)
EXTENDS Records

Rel(name, kind, inverse, column, target, back) ==
  [name |-> name, kind |-> kind, inverse |-> inverse, column |-> column, target |-> target, back |-> back]
MCRelations ==
  [post    |-> <<Rel("author", "m2o", FALSE, "author", "user", "posts"),
                 Rel("tags", "m2m", FALSE, "tags", "tag", "tagged"),
                 Rel("comments", "o2m", TRUE, "about", "comment", "about")>>,
   user    |-> <<Rel("posts", "o2m", TRUE, "author", "post", "author"),
                 Rel("face", "o2o", FALSE, "face", "profile", "holder")>>,
   comment |-> <<Rel("about", "m2o", FALSE, "about", "post", "comments")>>,
   tag     |-> <<Rel("tagged", "m2m", TRUE, "tags", "post", "tags")>>,
   profile |-> <<Rel("holder", "o2o", TRUE, "face", "user", "face")>>,
   setting |-> <<>>]

\* Rows: user 1, post 2, tags 3 and 4, comment 5, profile 6, setting 7.
Existing == {<<"user", 1, 1>>, <<"post", 2, 2>>, <<"tag", 3, 3>>, <<"tag", 4, 4>>,
             <<"comment", 5, 5>>, <<"profile", 6, 6>>, <<"setting", 7, 7>>,
             <<"author", 2, 1>>, <<"tags", 2, 3>>, <<"about", 5, 2>>, <<"face", 1, 6>>,
             <<"isSystem", 1, 1>>, <<"isSystem", 2, 2>>, <<"isSystem", 6, 6>>, <<"fixed", 6, 6>>}
MCStored == [sql |-> Existing,
             mongodb |-> Existing \cup {<<"posts", 1, 2>>, <<"tagged", 3, 2>>, <<"comments", 2, 5>>,
                                        <<"holder", 6, 1>>}]

Plain == Data(TRUE, {}, <<>>)
Fixed == Data(TRUE, {<<"fixed", 0>>}, <<>>)
Unflagged(rels) == Data(TRUE, {<<"isSystem", 0>>}, rels)
With(rels) == Data(TRUE, {}, rels)
One(x) == Value("object", <<x>>)
List(xs) == Value("list", xs)
Scalar(n) == Value("scalar", <<[id |-> n, scalar |-> TRUE, data |-> NoData]>>)
Null == Value("null", <<>>)
Request(op, t, n, data) == 
  [op |-> op, table |-> t, id |-> n, data |-> data, flagged |-> FALSE, shown |-> TRUE, flags |-> {}]

CreatePost == Request("create", "post", 0, With([author |-> One(Given(1)), tags |-> List(<<Given(4), New(Plain)>>)]))
CreateAll == Request("create", "post", 0, With([comments |-> List(<<New(Plain), Given(5)>>)]))
ReplaceLists == Request("update", "post", 2, With([author |-> Null, tags |-> List(<<Given(4)>>), comments |-> List(<<>>)]))
NestAuthor == Request("update", "post", 2, With([tags |-> Null, author |-> One(New(With([face |-> One(New(Plain))])))]))
Comment == Request("create", "comment", 0, With([about |-> Scalar(2)]))
Profile == Request("create", "profile", 0, With([holder |-> One(Given(1))]))
Retag == Request("update", "tag", 3, With([tagged |-> List(<<>>)]))
DropPost == [Request("delete", "post", 2, NoData) EXCEPT !.shown = FALSE]
DropUser == Request("delete", "user", 1, NoData)
Setting == Request("create", "setting", 0, Plain)
Keep == [op |-> "keep", table |-> "user", id |-> 1, data |-> With([face |-> Null]), flagged |-> FALSE,
         shown |-> TRUE, flags |-> {}, old |-> <<<<"comment", 5>>>>]
EditNested == Request("update", "user", 1,
  With([face |-> One([id |-> 6, scalar |-> FALSE, data |-> Fixed])]))
Rewrite == Request("update", "profile", 6, Data(TRUE, {<<"fixed", 0>>, <<"isSystem", 0>>}, <<>>))
Unflag == Request("update", "user", 1, Unflagged([posts |-> Null]))
Face == Request("create", "profile", 0, With([holder |-> Scalar(1)]))
Dispossess == [Request("update", "user", 1, With([posts |-> List(<<>>)])) EXCEPT !.flags = {"posts"}]
Flagged == [Request("create", "tag", 0, Plain) EXCEPT !.flagged = TRUE]

\* The requests at their work in pairs, each pair once.
Catalogue == <<CreatePost, CreateAll, ReplaceLists, NestAuthor, Comment, Profile, Retag, DropPost,
               DropUser, Setting, Keep, EditNested, Rewrite, Dispossess, Flagged, Unflag, Face>>
Pairs == {w \in (1 .. Len(Catalogue)) \X (1 .. Len(Catalogue)) : w[1] <= w[2]}
MCWorkloads == {<<Catalogue[w[1]], Catalogue[w[2]]>> : w \in Pairs}
=============================================================================
