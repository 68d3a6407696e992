SPECIFICATION Spec
CONSTANTS
    Jobs = {j1, j2, j3}
    Files = {f1, f2}
SYMMETRY Symmetry
INVARIANTS Exclusive IInv
\* All jobs end.
CHECK_DEADLOCK FALSE
