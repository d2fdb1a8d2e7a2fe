-------------------------------- MODULE Turn --------------------------------
(***************************************************************************)
(* What one turn of the agent promises about the tools it runs: one at a   *)
(* time, a call that has returned is never run again, none is started once *)
(* the request is stopped, and none after the turn has ended.              *)
(***************************************************************************)
CONSTANT NoKey
VARIABLES ended, stopped, running, done
vars == <<ended, stopped, running, done>>

Init == ended = FALSE /\ stopped = FALSE /\ running = NoKey /\ done = {}

Start ==
  /\ ~ended /\ ~stopped /\ running = NoKey
  /\ running' \notin done \cup {NoKey}
  /\ UNCHANGED <<ended, stopped, done>>

\* The tool returned a result (its call is then done) or threw.
Finish ==
  /\ running /= NoKey
  /\ running' = NoKey
  /\ done' \in {done, done \cup {running}}
  /\ UNCHANGED <<ended, stopped>>

Stop == ~ended /\ ~stopped /\ stopped' = TRUE /\ UNCHANGED <<ended, running, done>>

End == ~ended /\ running = NoKey /\ ended' = TRUE /\ UNCHANGED <<stopped, running, done>>

FinishAndEnd ==
  /\ running /= NoKey /\ ~ended
  /\ running' = NoKey /\ ended' = TRUE
  /\ done' \in {done, done \cup {running}}
  /\ UNCHANGED stopped

Next == Start \/ Finish \/ Stop \/ End \/ FinishAndEnd
Spec == Init /\ [][Next]_vars
=============================================================================
