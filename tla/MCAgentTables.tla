---------------------------- MODULE MCAgentTables ----------------------------
EXTENDS AgentTables

MCKeyOf(name) == IF name = "author" THEN "authorId" ELSE "ownerId"

Relation(name, kind, target) ==
  [name |-> name, kind |-> kind, target |-> target, inverse |-> kind = "many-to-many"]
Author == Relation("author", "many-to-one", "users")
Tags == Relation("tags", "many-to-many", "users")

MCStored ==
  [n \in {"users", "posts"} |->
     LET columns == IF n = "users" THEN {"id", "name"} ELSE {"id", "title"}
         relations == IF n = "users" THEN {} ELSE {Author}
     IN [columns |-> columns, relations |-> relations,
         ids |-> ThingsOf(columns, relations) \X {0}, lost |-> {}]]

Table(name, columns, relations) == [name |-> name, columns |-> columns, relations |-> relations]
Create(items) == <<[tool |-> "create_tables", items |-> items]>>
Update(items) == <<[tool |-> "update_tables", items |-> items]>>
Delete(items) == <<[tool |-> "delete_tables", items |-> items]>>
Row(name) == [name |-> name]
Records(tool, names) == <<[tool |-> tool, items |-> [i \in DOMAIN names |-> Row(names[i])]]>>

Notes == Table("notes", {"id", "text"}, {Author})
Clashing == Table("notes", {"id", "authorId"}, {Author})
NoId == Table("notes", {"text"}, NotGiven)
Wider == Table("posts", {"body"}, NotGiven)
Linked == Table("posts", NotGiven, {Tags})
Retyping == Table("posts", NotGiven, {Relation("author", "one-to-one", "users")})
Unlinked == Table("posts", {"id"}, {})
Keyed == Table("users", {"ownerId"}, NotGiven)
Owned == Table("users", NotGiven, {Relation("owner", "many-to-one", "users")})
Wrong == Table("posts", {"createdAt"}, {Tags})
Users == Table("users", NotGiven, NotGiven)
Posts == Table("posts", NotGiven, NotGiven)

MCCalls == <<Create(<<Notes>>), Create(<<Clashing, Notes>>), Create(<<NoId>>), Update(<<Wider>>), Update(<<Linked>>),
          Update(<<Wider, Linked>>), Update(<<Retyping>>), Update(<<Unlinked>>), Update(<<Keyed>>), Update(<<Owned>>),
          Update(<<Wrong>>), Delete(<<Users>>), Delete(<<Posts>>), Update(<<Wider>>) \o Update(<<Linked>>)>>
Writes == <<Records("create_records", <<"new", "other", "third">>), Records("delete_records", <<"old", "gone">>),
           Records("update_records", <<"old">>)>>

\* The conversations do not differ: each pair of plans once.
Pairs(plans) == {[w \in Workers |-> IF w = 1 THEN plans[p[1]] ELSE plans[p[2]]] :
                   p \in {q \in (DOMAIN plans) \X (DOMAIN plans) : q[1] <= q[2]}}
MCPlans == Pairs(MCCalls) \cup Pairs(Writes)
=============================================================================
