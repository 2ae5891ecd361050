---------------------------- MODULE MCExportMerge ----------------------------
(***************************************************************************)
(* ExportMerge for the model checker: a tokenizer is only ever compared    *)
(* with another, so the tokenizers may be exchanged.                       *)
(***************************************************************************)
EXTENDS ExportMerge, TLC

Symmetry == Permutations(Tokenizers)
=============================================================================
