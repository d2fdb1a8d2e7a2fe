-------------------------- MODULE MCRequestContext --------------------------
\* Instances of RequestContext for TLC: a route with hooks around its handler.
EXTENDS RequestContext, TLC
==============================================================================
