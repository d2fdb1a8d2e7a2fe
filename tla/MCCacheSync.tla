----------------------------- MODULE MCCacheSync -----------------------------
\* Instances of CacheSync for TLC: two servers, the first of which may run two
\* reloads at once.
EXTENDS CacheSync

CONSTANTS i1, i2, c1, c2, c3

MCHome == [c \in Calls |-> IF c = c3 THEN i2 ELSE i1]

\* Reloads of the routes are one on each server, for the services built from them.
OneReload == kind = "route" => pc[c2] = "idle"

==============================================================================
