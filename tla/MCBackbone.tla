----------------------------- MODULE MCBackbone -----------------------------
(* Backbone training on a small token cache, for TLC.                      *)
EXTENDS Backbone, Integers

(* Arbitrary but fixed generators.                                         *)
MCShuffle(k) == [i \in 1 .. Clips |-> ((i * (1 + (k % 3)) + k) % Clips) + 1]
MCWeighted(k, f, i) == ((k * 3 + f * i) % Clips) + 1

Base == [world |-> 2, accum |-> 2, random |-> FALSE, workers |-> TRUE,
         lookup |-> FALSE, factor |-> 1, start |-> 0, factor2 |-> 1, start2 |-> 0]

MCConfigs == {Base,
  [Base EXCEPT !.accum = 1, !.random = TRUE, !.lookup = TRUE, !.factor = 2, !.start = 2,
               !.factor2 = 3, !.start2 = 3],
  [Base EXCEPT !.workers = FALSE, !.factor = 2]}

=============================================================================
