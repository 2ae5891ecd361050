SPECIFICATION Spec
INVARIANTS
  ItemFaithful
  PaddingInert
  SignalReaches
\* The program stops at the end of an item, a loss or a sample.
CHECK_DEADLOCK FALSE
