---------------------------- MODULE MCWhiteboard ----------------------------
(* Small instances of Whiteboard for TLC. *)
EXTENDS Whiteboard, TLC

CONSTANTS p1, p2, w1, w2, f1, f2, c1, c2

OneProc == {p1}
TwoProcs == {p1, p2}
OneWindow == {w1}
TwoWindows == {w1, w2}
OneFolder == {f1}
TwoFolders == {f1, f2}
OneCopy == {c1}
TwoCopies == {c1, c2}

(* Everything goes well, or one or two things go wrong. *)
Fine(n) == [tasks |-> n, kills |-> 0, exits |-> 0, fails |-> 0, holds |-> 0]
AllWell == {Fine(3)}
OpenElsewhere == {[Fine(3) EXCEPT !.holds = 1]}
SomeFaults == {[Fine(3) EXCEPT !.kills = 1, !.fails = 1],
             [Fine(3) EXCEPT !.holds = 1, !.fails = 1],
             [Fine(4) EXCEPT !.fails = 1],
             [Fine(4) EXCEPT !.exits = 1]}

Alike == Permutations({p1, p2}) \cup Permutations({w1, w2})
             \cup Permutations({f1, f2}) \cup Permutations({c1, c2})
=============================================================================
