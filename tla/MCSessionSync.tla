---------------------------- MODULE MCSessionSync ----------------------------
(* Small instances of SessionSync for TLC. *)
EXTENDS SessionSync, TLC

CONSTANTS p1, p2

TwoPaths == {p1, p2}

(* The second save after a failed one, and the return to a file. *)
TwoSaves == [edits |-> 2, loads |-> 1, saves |-> 2, background |-> 1]
TwoLoads == [edits |-> 2, loads |-> 2, saves |-> 1, background |-> 0]
Scenarios == {TwoSaves, TwoLoads}
=============================================================================
