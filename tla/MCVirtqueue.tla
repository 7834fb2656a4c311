---------------------------- MODULE MCVirtqueue -----------------------------
(* Two descriptors: a chain of two, or two requests at once, with buffers of *)
(* either kind.  No symmetry, as the run checks a liveness property.        *)
EXTENDS Virtqueue

CONSTANTS near, far1, far2, p1, p2

ThreeBufs == {near, far1, far2}
FarBufs == {far1, far2}
TwoPages == {p1, p2}
=============================================================================
