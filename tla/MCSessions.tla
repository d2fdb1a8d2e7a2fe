----------------------------- MODULE MCSessions -----------------------------
(* Sessions with the cleanup, sessions that many requests share, people from   *)
(* providers with failures and deletions, and the cleanup of two servers.      *)
EXTENDS Sessions, TLC

Plan(databases, zone, requests, ops, nights, time, old, stuck, faults) ==
  [databases |-> databases, zone |-> zone, requests |-> requests, ops |-> ops, cleanups |-> nights, time |-> time,
   old |-> old, stuck |-> stuck, troubles |-> faults]

All == {"mysql", "postgres", "mongodb"}
MCPlans ==
  {Plan({"mysql"}, 0, 2, {"login", "refresh", "logout"}, 1, 5, {Given}, {}, 0),
   Plan({"mysql"}, -2, 2, {"login", "refresh"}, 1, 4, {Given}, {}, 0),
   Plan({"mysql"}, 1, 1, {"login", "refresh"}, 1, 5, {Given}, {}, 0),
   Plan({"mysql"}, 0, 3, {"refresh", "logout"}, 0, 2, {Given}, {}, 0),
   Plan({"mysql", "mongodb"}, 0, 2, {"login", "refresh", "logout"}, 0, 1, {Given}, {}, 1),
   Plan(All, 0, 3, {"oauth"}, 0, 1, {}, {}, 1),
   Plan({"mysql"}, 0, 0, {}, 2, 2, {6, 7, 8, 9}, {9}, 2),
   Plan({"mysql"}, 0, 0, {}, 1, 2, {7, 8, 9}, {8, 9}, 0)}
=============================================================================
