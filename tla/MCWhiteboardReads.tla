------------------------- MODULE MCWhiteboardReads --------------------------
(* Small instances of WhiteboardReads for TLC. *)
EXTENDS WhiteboardReads

TwoFiles == <<"f1", "f2">>
TwoTurns == 1 .. 2

Bound(n) == [b \in Bounds |-> IF b \in DOMAIN n THEN n[b] ELSE 0]

(* Every log of at most n records. *)
LogsUpto(n) ==
    LET logs[k \in 0 .. n] ==
          IF k = 0 THEN {<<Other>>}
          ELSE logs[k - 1] \cup UNION {{Append(l, r) : r \in Continuations(l)} : l \in logs[k - 1]}
    IN {[records |-> l, partial |-> FALSE] : l \in logs[n - 1]}

Empty == [records |-> <<>>, partial |-> FALSE]
Log(records) == [records |-> records, partial |-> FALSE]
Unfinished == Log(<<Other, Record("started", 1, Blank), Record("final", NoTurn, 1)>>)
Finished == Log(<<Record("started", 1, Blank), Record("complete", 1, 1),
                  Record("started", 2, Blank), Record("complete", 2, 2)>>)

Menu(asks, providers, limits, kinds) ==
    [asks |-> asks, providers |-> providers, limits |-> limits, kinds |-> kinds]

(* One history of any log. *)
AnyLog ==
    [bounds |-> Bound([calls |-> 1, appends |-> 1]),
     menu |-> Menu({"s1"}, {"codex"}, {1, 2}, Kinds), logs |-> LogsUpto(5), rest |-> Empty]

(* Requests that overtake and replace each other. *)
Overtaking ==
    [bounds |-> Bound([calls |-> 3, tabs |-> 1]),
     menu |-> Menu({"s1", Nothing}, {"codex", "zcode"}, {1}, {}), logs |-> {Empty}, rest |-> Empty]

(* Histories of a session whose log grows and moves. *)
Moving ==
    [bounds |-> Bound([calls |-> 2, appends |-> 1, moves |-> 1, ticks |-> 2]),
     menu |-> Menu({"s1"}, {"codex"}, {1, 2}, {"complete"}), logs |-> {Unfinished, Finished}, rest |-> Empty]

(* The same with a locked database and reads that fail. *)
Troubled ==
    [bounds |-> Bound([calls |-> 2, moves |-> 1, locks |-> 1, faults |-> 2, ticks |-> 1]),
     menu |-> Menu({"s1"}, {"codex"}, {1}, {}), logs |-> {Finished}, rest |-> Empty]

(* Codex sessions listed twice while their logs begin and grow, or cannot  *)
(* be read once.                                                           *)
Listing ==
    [bounds |-> Bound([calls |-> 2, appends |-> 2, faults |-> 1, ticks |-> 1]),
     menu |-> Menu({Nothing}, {"codex"}, {3}, {"other"}), logs |-> {Empty}, rest |-> Empty]

(* Two threads list the same sessions. *)
Shared ==
    [bounds |-> Bound([calls |-> 1, touches |-> 2, ticks |-> 1, tabs |-> 1]),
     menu |-> Menu({Nothing}, {"claude"}, {3}, {}), logs |-> {Empty}, rest |-> Empty]

(* Every provider's loader, twice, with a change and a failure. *)
EachLoader ==
    {[bounds |-> Bound([calls |-> 2, touches |-> 1, faults |-> 1]),
      menu |-> Menu({Nothing}, {p}, {3}, {}), logs |-> {Empty}, rest |-> Empty] : p \in Providers}

AllScenarios == {AnyLog, Overtaking, Moving, Troubled, Listing, Shared} \cup EachLoader
=============================================================================
