--------------------------- MODULE MCSessionList ---------------------------
(* Small instances of SessionList for TLC. *)
EXTENDS SessionList

MCLower == [i \in {"S1", "K1"} |-> IF i = "S1" THEN "s1" ELSE "k1"]
(* The last characters of k1 begin with a "-". *)
MCLastDigits == [i \in {"S1", "s1", "K1", "k1"} |->
                   IF i = "k1" THEN <<Word("-"), Word("k")>>
                   ELSE <<Word(IF i = "K1" THEN "k" ELSE "1")>>]
MCExecutable == [w \in {"claude.exe", "qwen.cmd"} |-> IF w = "qwen.cmd" THEN "qwen" ELSE "claude"]

MCSessions == {[provider |-> "codex", id |-> "S1"], [provider |-> "muse", id |-> "K1"]}

(* No name, a plain one, one with a mark in front, one that holds a        *)
(* command, one that holds a command if it is cut, and one that no header  *)
(* can hold.                                                               *)
Plain == <<Word("a")>>
Marked == <<Word("-"), Word("*"), Word("a")>>
Chained == <<Word("a"), Word("&&"), Word("codex"), Word("resume"), Word("b")>>
Longer == Chained \o <<Word("&&")>>
Barred == <<Word("a"), Word("|"), Word("b")>>
MCNames == {NoName, Plain, Marked, Chained, Longer, Barred}
MCColors == {"#83A598"}

Header(w) == HeaderLine(<<<<Word(w)>>, 1>>, <<Word(w)>>, "#FB4934")
Text(w) == TextLine(<<Word("#"), Word(w)>>)
Command(p, id) == TextLine(ResumeCommand(p, id))

(* Lines by hand: the other forms of a command, a command after another,   *)
(* commands that name no session, and labels.                              *)
HandLines ==
  {Header("g"), HeaderLine(<<<<Word("g")>>, 1>>, NoName, "#FB4934"), EndLine, Text("t"),
   TextLine(<<Word("-"), Word("#"), Word("t")>>),
   TextLine(<<Word("cd"), Word("&&"), Word("claude.exe"), Inline("--resume", "K1")>>),
   TextLine(<<Word("kimi"), Word("--auto"), Inline("--session", "K1")>>),
   TextLine(<<Word("qwen.cmd"), Word("-r"), Word("K1")>>),
   TextLine(<<Word("opencode"), Word("-s"), Word("K1")>>),
   TextLine(<<Word("codex"), Word("fork"), Word("S1"), Word("--full-auto")>>),
   TextLine(<<Word("qwen"), Word("--fork"), Word("K1")>>),
   TextLine(<<Word("codex"), Word("resume")>>)}

(* Two groups with sessions in, between and behind them. *)
TwoGroups ==
  <<Text("t"), Command("codex", "s1"), Header("g"), Text("u"), Command("kimi", "K1"), EndLine,
    Command("qwen", "K1"), Header("h"), Command("claude", "K1"), EndLine, Command("opencode", "K1")>>

Bounds(files, e, s, c) == [files |-> files, edits |-> e, saves |-> s, cuts |-> c]

(* Every file by hand of up to three lines, as it is loaded and written    *)
(* back; edits of short lists, and of the two groups; a write cut short    *)
(* before and after a whole one.                                           *)
ByHand == {Bounds(BoundedSeq(HandLines, 3), 0, 1, 0)}
Edited == {Bounds({<<>>, <<Command("kimi", "K1")>>, <<Header("g"), Command("codex", "S1")>>}, 2, 1, 0),
           Bounds({<<>>}, 3, 1, 0)}
Dragged == {Bounds({TwoGroups}, 2, 1, 0)}
Torn == {Bounds({TwoGroups}, 0, 1, 2), Bounds({<<>>, <<Header("g"), Command("codex", "S1")>>}, 1, 1, 1)}
MCScenarios == ByHand \cup Edited \cup Dragged \cup Torn
=============================================================================
