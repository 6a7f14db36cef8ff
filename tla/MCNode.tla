------------------------------ MODULE MCNode ------------------------------
EXTENDS Node

\* A new home; one left by an older release, a block of it not written; one
\* that was rolled back, with an older image of the new format.
StartHomes ==
  {[files |-> {}, v3 |-> 0, v4 |-> 0],
   [files |-> {1, 3, 4, 5}, v3 |-> 3, v4 |-> 0],
   [files |-> {1, 2, 4}, v3 |-> 4, v4 |-> 2]}
=============================================================================
