------------------------------ MODULE MCFiles ------------------------------
(* One cloud and one file that is there: two requests with two troubles, two *)
(* of clients that see parts of the row, or three requests with none.        *)
EXTENDS Files, TLC

MCPlans ==
  {[requests |-> 2, asked |-> {"plain", "image", "wrong", "format"}, misses |-> {"nothing"}, troubles |-> 2],
   [requests |-> 2, asked |-> {"plain"}, misses |-> {"nothing", "storage", "location", "row"}, troubles |-> 1],
   [requests |-> 3, asked |-> {"plain"}, misses |-> {"nothing"}, troubles |-> 0]}
=============================================================================
