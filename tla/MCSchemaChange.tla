--------------------------- MODULE MCSchemaChange ---------------------------
(* Changes one after the other on one instance, of every kind: three with a   *)
(* fault, or one with two; or, on two instances and two at a time, changes of *)
(* one table without columns: two with a fault, three without.                *)
EXTENDS SchemaChange

CONSTANTS i1, i2, c1, c2, t, u, a

Sequence(names, n, f) ==
  [instances |-> {i1}, calls |-> {c1}, names |-> names, columns |-> {a},
   related |-> BOOLEAN, single |-> BOOLEAN, changes |-> n, faults |-> f]

Together(n, f) ==
  [instances |-> {i1, i2}, calls |-> {c1, c2}, names |-> {t}, columns |-> {},
   related |-> {FALSE}, single |-> {FALSE}, changes |-> n, faults |-> f]

MCPlans == {Sequence({t, u}, 3, 1), Sequence({t}, 1, 2), Together(2, 1), Together(3, 0)}
=============================================================================
