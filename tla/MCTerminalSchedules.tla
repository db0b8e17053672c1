------------------------ MODULE MCTerminalSchedules ------------------------
(* The instances of the runs of TerminalSchedules. *)
EXTENDS TerminalSchedules

CONSTANTS s1, s2, f1

(* One tab in an open window whose group is kept alive. *)
Alive == [open |-> TRUE, alive |-> TRUE, tabs |-> {s1}, file |-> f1, events |-> 0, clicks |-> 0,
          troubles |-> 0, follows |-> 0, toggles |-> 0, ticks |-> 0, turns |-> 0, restarts |-> 0]
Toggling == [Alive EXCEPT !.events = 1, !.troubles = 1, !.toggles = 3, !.ticks = 1, !.restarts = 1]
Continuing == [Alive EXCEPT !.troubles = 2, !.toggles = 1, !.ticks = 3, !.turns = 2, !.restarts = 1]
Pressing == [Alive EXCEPT !.clicks = 2, !.toggles = 1, !.ticks = 1, !.troubles = 1]
Following == [Alive EXCEPT !.events = 1, !.follows = 2, !.toggles = 1, !.ticks = 1, !.turns = 1]
Crowding == [Alive EXCEPT !.events = 3, !.ticks = 2]

(* Tabs that are opened, closed and restored, without Keep Alive. *)
Loose == [Alive EXCEPT !.alive = FALSE]
Remembering == [Loose EXCEPT !.open = FALSE, !.tabs = {}, !.events = 3, !.clicks = 1]
Shrinking == [Loose EXCEPT !.tabs = {s1, s2}, !.events = 1, !.clicks = 1, !.troubles = 1]
Restoring == [Loose EXCEPT !.open = FALSE, !.tabs = {s1, s2}, !.clicks = 2, !.troubles = 1]
Reclosing == [Loose EXCEPT !.tabs = {s1, s2}, !.events = 2, !.clicks = 2]

Cases == {Toggling, Continuing, Pressing, Following, Crowding, Remembering, Shrinking, Restoring,
          Reclosing}
=============================================================================
