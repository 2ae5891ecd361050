--------------------------- MODULE DurableProgress ---------------------------
(***************************************************************************)
(* What a restartable training run promises: a number of epochs that is    *)
(* safe on disk and never falls, work in memory at most Every epochs ahead *)
(* of it, no epoch left out or trained twice into the same weights, and a  *)
(* restart that continues exactly where the disk stands.                   *)
(***************************************************************************)
EXTENDS Naturals

CONSTANTS
  N,      \* epochs of the whole run
  Every   \* the most epochs that may be unsaved

VARIABLES
  durable,   \* epochs in the checkpoint a restart would load
  now        \* epochs in the weights being trained

Init == durable = 0 /\ now = 0

Advance ==
  /\ now < N
  /\ now < durable + Every
  /\ now' = now + 1
  /\ UNCHANGED durable

Commit ==
  /\ durable < now
  /\ durable' = now
  /\ UNCHANGED now

Restart ==
  /\ now' = durable
  /\ UNCHANGED durable

Next == Advance \/ Commit \/ Restart

Spec == Init /\ [][Next]_<<durable, now>>
=============================================================================
