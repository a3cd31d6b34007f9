\* Three readers and a writer.
CONSTANTS
  ReadThread = {r1, r2, r3}
  WriteThread = {w1}
  PaddingVaries = FALSE
  NULL = NULL
SPECIFICATION Spec
INVARIANT MutualExclusion
