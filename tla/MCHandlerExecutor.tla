-------------------------- MODULE MCHandlerExecutor --------------------------
\* Instances of HandlerExecutor for TLC: more runs than the pool has children.
EXTENDS HandlerExecutor, TLC

CONSTANTS r1, r2, r3, c1, c2
==============================================================================
