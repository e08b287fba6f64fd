----------------------------- MODULE MCPostProc -----------------------------
(* Values of PostProc's constants that a .cfg cannot write. *)
EXTENDS PostProc

\* Sizes and capacities: a negative int32 (a corrupt block), zero, one and
\* two, so that the `size > 1` branches and repeated keys are reached; and
\* 2148, the high word of a Date after the year 2262, whose nanoseconds
\* wrap in int64.
MCWords == {-1, 0, 1, 2, 2148}

====
