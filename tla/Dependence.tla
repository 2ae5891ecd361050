----------------------------- MODULE Dependence -----------------------------
(***************************************************************************)
(* Tensors by what they depend on.                                         *)
(*                                                                         *)
(* The value at a position of a tensor is the set of the inputs it was     *)
(* computed from.  The empty set is the number zero, which a multiplication *)
(* by a mask leaves behind; Weight stands for parameters of the network:   *)
(* the result of a biased layer on a zero is not zero any more.            *)
(***************************************************************************)
EXTENDS Integers, FiniteSets

Zero   == {}
Weight == {<<"weight">>}

(* x * mask, and the sum of two tensors of one shape.                      *)
Masked(x, valid) == [p \in DOMAIN x |-> IF p \in valid THEN x[p] ELSE Zero]
Plus(x, y) == [p \in DOMAIN x |-> x[p] \cup y[p]]

(* The same vector broadcast to every position, zero allowed.              *)
PlusAll(x, v) == [p \in DOMAIN x |-> x[p] \cup v]

(* A linear layer with bias, or a norm with a shift.                       *)
Layer(x) == PlusAll(x, Weight)

(* x * (1 + scale(c)) + shift(c).                                          *)
FiLM(x, c) == PlusAll(x, c \cup Weight)

Padding == {<<"padding">>}

(* A weighted mean over the positions ks.  It depends on how many of them  *)
(* are padding even when those hold zeros.                                 *)
Mean(x, ks, real) == UNION {x[k] : k \in ks} \cup (IF ks \subseteq real THEN Zero ELSE Padding)

(* Attention of one query: masked scores are -1e9, so that a row with no   *)
(* valid key at all is the uniform mean of every key.                      *)
Read(x, keys, valid, real) ==
  Mean(x, IF keys \cap valid = {} THEN keys ELSE keys \cap valid, real)

(* The same with scores of -inf and NaN rows replaced by zero.             *)
StrictRead(x, keys, valid, real) == Mean(x, keys \cap valid, real)

=============================================================================
