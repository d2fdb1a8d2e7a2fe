--------------------------- MODULE MCMongoSchema ---------------------------
(* With one trouble: two changes at once, two with tables of two names, or    *)
(* three of columns one after the other.                                      *)
EXTENDS MongoSchema, TLC

CONSTANTS c1, c2, user, post

MCPlans ==
  {[calls |-> {c1, c2}, changes |-> 2, names |-> {user}, related |-> TRUE, unique |-> BOOLEAN, troubles |-> 1],
   [calls |-> {c1}, changes |-> 2, names |-> {user, post}, related |-> TRUE, unique |-> {FALSE}, troubles |-> 1],
   [calls |-> {c1}, changes |-> 3, names |-> {user}, related |-> FALSE, unique |-> {FALSE}, troubles |-> 1]}
=============================================================================
