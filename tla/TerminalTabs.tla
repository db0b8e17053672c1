---------------------------- MODULE TerminalTabs ----------------------------
(***************************************************************************)
(* The terminal tabs monitor (TerminalTabs, lib/app/terminal_tabs.dart):   *)
(* snapshots of the sessions that run in Windows Terminal, the groups it   *)
(* remembers of each window's tabs, and the restoring of a group.          *)
(*                                                                         *)
(* A session stands for its reference; its resume ID is known and its tab  *)
(* is found by its title.  A window stands for its identity, which is      *)
(* never reused.  Instead of a clock, whatever the code times (20 s of a   *)
(* closing window, 2 min of a launch, 2 s of a shrinking group) has passed *)
(* or not by the time the code looks.                                      *)
(***************************************************************************)
EXTENDS FiniteSets, FiniteSetsExt, Naturals

CONSTANTS Sessions, Windows, Groups, Files,
          None,       \* no window, session, group or file
          Deleted,    \* in place of a group that the user forgot
          Scenarios   \* what runs at the start, and the bounds

(* TerminalTabGroup *)
SavedGroup == [window : Windows, file : Files, members : SUBSET Sessions, closed : BOOLEAN,
               pending : SUBSET Sessions]

ASSUME TabsAssumption ==
    /\ {None, Deleted} \cap (Sessions \cup Windows \cup Groups \cup Files) = {} /\ None # Deleted
    /\ None \notin {"free", "latest"} /\ {"free", "latest"} \cap Groups = {}
    /\ {None, Deleted} \cap SavedGroup = {}
    /\ IsFiniteSet(Sessions) /\ IsFiniteSet(Windows) /\ Windows # {}
    /\ \A c \in Scenarios : {c.events, c.clicks, c.troubles, c.follows} \subseteq Nat

VARIABLES
    tab,       \* Terminal: the window each session runs in, or None
    frame,     \* Terminal: each window is new, open, dying (its tabs go) or gone
    named,     \* Terminal: the group each window was opened for by name, or None
    starting,  \* Terminal: tabs asked for that are not there yet: "latest",
               \* the group whose named window is wanted, or None
    path,      \* _path
    snap,      \* sessions, tabs, windows, _processesComplete, _windowsComplete
               \* and _hasCompleteSnapshot
    read,      \* the read in progress (busy, _generation) and the processes it listed
    groups,    \* groups: each None, Deleted or what is remembered of it
    reserved,  \* _pendingLaunches: each session's group, None, or "free"
    closing,   \* _closing
    shrinking, \* _shrinking: the members a window's group may shrink to
    opening,   \* opening: the openGroup in progress, or Idle
    left,      \* bounds: what the user and Terminal may still do to tabs and
               \* windows (events), the groups and tabs that may still be
               \* clicked (clicks), reads and launches that may fail (troubles),
               \* and changes of the sessions file (follows)
    held,      \* history: sessions that run and have been seen or launched
    owed       \* history: tabs that went with their window, and its group

world == <<tab, frame, named, starting>>
monitor == <<path, snap, read, groups, reserved, closing, shrinking>>
tabVars == <<world, monitor, opening, left, held, owed>>

Idle == [phase |-> "idle"]
NoRead == [on |-> FALSE, stale |-> FALSE, seen |-> {}]
NoSnap == [sessions |-> {}, at |-> [s \in Sessions |-> None], windows |-> {},
           processes |-> FALSE, inventory |-> FALSE, whole |-> FALSE]
Running == {s \in Sessions : tab[s] # None}
OpenWindows == {w \in Windows : frame[w] = "open"}
Listed == {w \in Windows : frame[w] \in {"open", "dying"}}
Known(gs) == {g \in Groups : gs[g] \notin {None, Deleted}}

Spend(bound) == left[bound] > 0 /\ left' = [left EXCEPT ![bound] = @ - 1]

(* isActive *)
Active(g, gs, windows) == ~gs[g].closed /\ gs[g].window \in windows

-----------------------------------------------------------------------------
(* Terminal and the user. *)

(* A tab that was asked for appears: by name in its group's window, else   *)
(* in the latest one; a window that is not there is opened.  A tab of a    *)
(* session that runs already makes no difference here.                     *)
Landing(target) ==
    LET own == {w \in OpenWindows : target = "latest" \/ named[w] = target}
    IN IF own # {} THEN own ELSE {w \in Windows : frame[w] = "new"}

Appears(s) ==
    /\ starting[s] # None
    /\ starting' = [starting EXCEPT ![s] = None]
    /\ IF tab[s] # None
         THEN UNCHANGED <<tab, frame, named>>
         ELSE \E w \in Landing(starting[s]) :
                /\ tab' = [tab EXCEPT ![s] = w]
                /\ frame' = [frame EXCEPT ![w] = "open"]
                /\ named' = IF frame[w] = "new" /\ starting[s] # "latest"
                              THEN [named EXCEPT ![w] = starting[s]] ELSE named
    /\ owed' = {o \in owed : o[1] # s}
    /\ UNCHANGED <<monitor, opening, left, held>>

FailsToStart(s) ==
    /\ Spend("troubles")
    /\ starting[s] # None
    /\ starting' = [starting EXCEPT ![s] = None]
    /\ held' = IF tab[s] = None THEN held \ {s} ELSE held
    /\ UNCHANGED <<tab, frame, named, monitor, opening, owed>>

(* The user opens a session from the list, or by typing. *)
UserOpens(s) ==
    /\ Spend("events")
    /\ tab[s] = None /\ starting[s] = None
    /\ starting' = [starting EXCEPT ![s] = "latest"]
    /\ UNCHANGED <<tab, frame, named, monitor, opening, held, owed>>

(* The user closes one tab; with the last one the window may go too. *)
CloseTab(s) ==
    /\ Spend("events")
    /\ tab[s] \in OpenWindows
    /\ tab' = [tab EXCEPT ![s] = None]
    /\ \E last \in BOOLEAN :
         /\ last => \A t \in Sessions \ {s} : tab[t] # tab[s]
         /\ frame' = IF last THEN [frame EXCEPT ![tab[s]] = "gone"] ELSE frame
    /\ held' = held \ {s}
    /\ UNCHANGED <<named, starting, monitor, opening, owed>>

(* A window closes: its tabs go one after another, then itself, all within *)
(* the two seconds a shrinking group is watched.                           *)
CloseWindow(w) ==
    /\ Spend("events")
    /\ frame[w] = "open"
    /\ frame' = [frame EXCEPT ![w] = "dying"]
    /\ UNCHANGED <<tab, named, starting, monitor, opening, held, owed>>

(* openGroup awaits the launch of this tab. *)
Launching(s) == opening.phase = "launching" /\ opening.tab = s

(* For the history: the tab, or tabs of the group into its own window, are *)
(* being launched.                                                         *)
BeingRestored(s, g) ==
    \/ reserved[s] # None
    \/ \E t \in Sessions : reserved[t] = g
    \/ opening.phase \in {"launch", "launching"} /\ opening.target = g

TabEnds(s) ==
    /\ tab[s] # None /\ frame[tab[s]] = "dying"
    /\ tab' = [tab EXCEPT ![s] = None]
    /\ held' = held \ {s}
    /\ owed' = owed \cup {<<s, g>> : g \in {g \in Known(groups) :
                groups[g].window = tab[s] /\ s \in groups[g].members /\ ~BeingRestored(s, g)}}
    /\ UNCHANGED <<frame, named, starting, monitor, opening, left>>

WindowEnds(w) ==
    /\ frame[w] = "dying" /\ \A s \in Sessions : tab[s] # w
    /\ frame' = [frame EXCEPT ![w] = "gone"]
    /\ UNCHANGED <<tab, named, starting, monitor, opening, left, held, owed>>

-----------------------------------------------------------------------------
(* Snapshots. *)

(* refresh, up to its await; the helper lists the processes first. *)
Began == [on |-> TRUE, stale |-> FALSE, seen |-> Running]

BeginRead ==
    /\ ~read.on
    /\ read' = Began
    /\ UNCHANGED <<world, path, snap, groups, reserved, closing, shrinking, opening, left,
                   held, owed>>

(* refresh: a snapshot that is not complete does not replace one that is. *)
Snapshot(processes, inventory) ==
    LET seen == IF processes THEN read.seen ELSE {}
        windows == IF inventory THEN Listed ELSE {}
        whole == processes /\ inventory
    IN IF whole \/ ~snap.whole
         THEN [sessions |-> seen,
               at |-> [s \in Sessions |-> IF s \in seen /\ tab[s] \in windows THEN tab[s] ELSE None],
               windows |-> windows,
               processes |-> processes, inventory |-> inventory, whole |-> whole]
         ELSE [snap EXCEPT !.processes = processes, !.inventory = inventory]

(* _syncGroups: the window a session is counted to. *)
PlaceOf(s, sn) ==
    LET of == {g \in Known(groups) : Active(g, groups, sn.windows) /\ s \in groups[g].members}
    IN IF sn.at[s] # None THEN sn.at[s]
       ELSE IF of # {} THEN groups[CHOOSE g \in of : TRUE].window
       ELSE IF Cardinality(sn.windows) = 1 THEN CHOOSE w \in sn.windows : TRUE
       ELSE None

(* _syncGroups: the group a window with these members belongs to: the one  *)
(* remembered for it, or the closed one whose tabs were launched into it.  *)
GroupsOf(w, members, gs, res, sn) ==
    LET own == {g \in Known(gs) : ~gs[g].closed /\ gs[g].window = w}
        restoring == {res[s] : s \in members} \ {None, "free"}
    IN IF own = {} /\ members # {} /\ Cardinality(restoring) = 1
         THEN {g \in restoring \cap Known(gs) : ~Active(g, gs, sn.windows)}
         ELSE own

(* Mutants. *)
Unsettled(watched, members, settled) == TRUE
SkipsOpen(entries, res) == entries \ snap.sessions

(* _syncGroups: a group that lost members is watched for two seconds with  *)
(* the same ones left before they are believed.                            *)
Believed(watched, members, settled) == watched = [members |-> members] /\ settled

(* _syncGroups, for one window. *)
SyncWindow(w, acc, members, asleep, settled, res, sn) ==
    LET own == GroupsOf(w, members, acc.groups, res, sn)
        free == {g \in Groups : acc.groups[g] = None}
        g == CHOOSE x \in own : TRUE
        old == acc.groups[g]
        outstanding == old.pending \ members
        now == members \cup (old.members \cap outstanding)
        removed == ~(old.members \subseteq now)
        new == [window |-> w, file |-> path, members |-> members, closed |-> FALSE,
                pending |-> {}]
    IN IF own = {}
         THEN IF members = {} \/ free = {} THEN acc
              ELSE [acc EXCEPT !.groups = [@ EXCEPT ![CHOOSE x \in free : TRUE] = new]]
       ELSE IF asleep THEN acc
       ELSE IF removed /\ old.window = w /\ ~Believed(acc.shrinking[w], now, settled)
         THEN [acc EXCEPT !.shrinking = [@ EXCEPT ![w] = [members |-> now]]]
       ELSE [groups |-> [acc.groups EXCEPT ![g] = [new EXCEPT !.file = old.file,
                                               !.members = now, !.pending = outstanding]],
             shrinking |-> [acc.shrinking EXCEPT ![w] = None]]

(* _syncGroups: a group whose window is not listed is closed. *)
Closed(gs, sn) ==
    [g \in Groups |-> IF g \notin Known(gs) THEN gs[g]
       ELSE LET closed == gs[g].closed \/ gs[g].window \notin sn.windows IN
            [gs[g] EXCEPT !.closed = closed, !.pending = IF closed THEN @ \ sn.sessions ELSE @]]

(* _syncGroups, for all windows. *)
SyncWindows(sn, asleep, settled, res) ==
    LET placed(w) == {s \in sn.sessions : PlaceOf(s, sn) = w}
        sync(w, acc) == SyncWindow(w, acc, placed(w), w \in asleep, w \in settled, res, sn)
    IN FoldSet(sync, [groups |-> groups, shrinking |-> shrinking], sn.windows)

(* _syncGroups: expired launches and closings are dropped, and launches    *)
(* that have been matched to their group's window.                         *)
SyncGroups(sn, late, slow, settled) ==
    LET res == [s \in Sessions |-> IF s \in late THEN None ELSE reserved[s]]
        acc == SyncWindows(sn, closing \ slow, settled, res)
        gs == Closed(acc.groups, sn)
        matched(s) == \/ res[s] = "free"
                      \/ /\ res[s] \in Known(gs)
                         /\ Active(res[s], gs, sn.windows) /\ s \in gs[res[s]].members
    IN /\ groups' = gs
       /\ shrinking' = [w \in Windows |-> IF w \in sn.windows THEN acc.shrinking[w] ELSE None]
       /\ closing' = (closing \ slow) \cap sn.windows
       /\ reserved' = [s \in Sessions |-> IF s \in sn.sessions /\ matched(s) THEN None ELSE res[s]]
       /\ held' = (held \ (late \ sn.sessions)) \cup (sn.sessions \cap Running)

(* A group that shrinks because its window goes is not watched for two     *)
(* seconds.                                                                *)
Settles(w) ==
    /\ shrinking[w] # None
    /\ frame[w] = "dying" => ~\E o \in owed : o[2] \in Known(groups) /\ groups[o[2]].window = w

(* refresh, once the reader has answered; an answer for another file is    *)
(* dropped.  Whoever awaits the read goes on at once, with whatever the    *)
(* monitor holds then; only an ensureFresh that was called for the file    *)
(* before reads again by itself.                                           *)
Answered(op) == IF op.phase = "fresh" THEN [op EXCEPT !.phase = "answered"]
                ELSE IF op.phase = "refresh" THEN Idle
                ELSE op

EndStale ==
    /\ read.on /\ read.stale
    /\ read' \in {Began, NoRead}
    /\ \/ opening' = Answered(opening)
       \/ opening.phase = "fresh" /\ read'.on /\ UNCHANGED opening
    /\ UNCHANGED <<world, path, snap, groups, reserved, closing, shrinking, left, held, owed>>

EndRead ==
    /\ read.on /\ ~read.stale
    /\ read' = NoRead
    /\ opening' = Answered(opening)
    /\ \/ /\ snap' = Snapshot(TRUE, TRUE)
          /\ \E late \in SUBSET {s \in Sessions : reserved[s] # None}, slow \in SUBSET closing,
                settled \in SUBSET {w \in Windows : Settles(w)} :
               SyncGroups(snap', late, slow, settled)
          /\ UNCHANGED left
       \/ /\ Spend("troubles")
          /\ snap' \in {Snapshot(TRUE, FALSE), Snapshot(FALSE, TRUE),
                        [snap EXCEPT !.processes = FALSE, !.inventory = FALSE]}
          /\ UNCHANGED <<groups, reserved, closing, shrinking, held>>
    /\ UNCHANGED <<world, path, owed>>

-----------------------------------------------------------------------------
(* Opening a group. *)

(* ensureFresh, up to its await: a read in progress is waited for. *)
AwaitFresh == read' = IF read.on THEN read ELSE Began

(* openGroup, up to its first await, for all of a group or one of its tabs; *)
(* the user clicks when nothing is being opened.                            *)
OpenGroup(g, entries, only, required) ==
    /\ opening' = [phase |-> "fresh", group |-> g, only |-> only, todo |-> entries,
                   tab |-> None, target |-> "latest", required |-> required]
    /\ AwaitFresh

ClickGroup(g, entries, only) ==
    /\ Spend("clicks")
    /\ opening = Idle
    /\ OpenGroup(g, entries, only, None)
    /\ UNCHANGED <<world, path, snap, groups, reserved, closing, shrinking, held, owed>>

(* openGroup ends with an error, which the check of Keep Alive looks at. *)
Threw == IF opening.required = None THEN Idle ELSE [phase |-> "threw", required |-> opening.required]

(* openGroup: what is neither open nor starting. *)
Missing(entries, res) == {s \in Sessions : s \in entries \ snap.sessions /\ res[s] = None}

(* openGroup: a required window must be the only one. *)
Certain(w) == snap.processes /\ snap.inventory /\ snap.windows = {w} /\ w \notin closing

(* openGroup, after the fresh read. *)
PlanLaunches ==
    /\ opening.phase = "answered"
    /\ IF ~snap.processes \/ (opening.required # None /\ ~Certain(opening.required))
         THEN opening' = Threw /\ UNCHANGED <<groups, reserved, held>>
         ELSE \E late \in SUBSET {s \in Sessions : reserved[s] # None} :
                LET res == [s \in Sessions |-> IF s \in late THEN None ELSE reserved[s]]
                    missing == Missing(opening.todo, res)
                    g == opening.group
                    own == opening.required = None /\ ~opening.only
                             /\ opening.todo \cap snap.sessions = {}
                IN /\ reserved' = res
                   /\ held' = held \ {s \in late : s \notin snap.sessions \/ tab[s] = None}
                   /\ groups' = IF missing # {} /\ ~opening.only /\ g \in Known(groups)
                                  THEN [groups EXCEPT ![g].pending = @ \cup missing] ELSE groups
                   /\ opening' = IF missing = {} THEN Idle
                                 ELSE [opening EXCEPT !.phase = "launch", !.todo = missing,
                                         !.target = IF own THEN g ELSE "latest"]
    /\ UNCHANGED <<world, path, snap, read, closing, shrinking, left, owed>>

(* openGroup: the next tab is reserved, and its launcher awaited: whether  *)
(* the app is elevated, what the user answers, the settings of Terminal.   *)
BeginLaunch(s) ==
    /\ opening.phase = "launch" /\ s \in opening.todo
    /\ reserved' = [reserved EXCEPT ![s] = IF opening.target = "latest" THEN "free" ELSE opening.group]
    /\ opening' = [opening EXCEPT !.phase = "launching", !.tab = s]
    /\ owed' = {o \in owed : o[1] # s \/ o[2] = opening.target}
    /\ UNCHANGED <<world, path, snap, read, groups, closing, shrinking, left, held>>

(* A launch that Terminal accepts; after the last one a refresh is         *)
(* awaited, if none is in progress.                                        *)
LaunchTab(s) ==
    /\ Launching(s)
    /\ opening.required # None => OpenWindows = {opening.required}
    /\ starting' = [starting EXCEPT ![s] = opening.target]
    /\ held' = IF reserved[s] = None THEN held ELSE held \cup ({s} \ read.seen)
    /\ LET rest == opening.todo \ {s}
           done == rest = {} /\ read.on
       IN /\ opening' = IF done THEN Idle
                        ELSE [opening EXCEPT !.todo = rest,
                                !.phase = IF rest = {} THEN "refresh" ELSE "launch"]
          /\ read' = IF rest = {} /\ ~read.on THEN Began ELSE read
    /\ UNCHANGED <<tab, frame, named, path, snap, groups, reserved, closing, shrinking, left, owed>>

(* openGroup: a launch that is declined or fails ends it. *)
RefuseLaunch(s) ==
    /\ Launching(s)
    /\ reserved' = [reserved EXCEPT ![s] = None]
    /\ opening' = Threw
    /\ UNCHANGED <<world, path, snap, read, groups, closing, shrinking, left, held, owed>>

(* closingWindow and deleteGroup: what the X of a group does in the end.    *)
CloseWindowOf(g) ==
    /\ frame' = IF frame[groups[g].window] = "open"
                  THEN [frame EXCEPT ![groups[g].window] = "dying"] ELSE frame
    /\ closing' = closing \cup {groups[g].window}

DeleteGroup(g) == groups' = [groups EXCEPT ![g] = Deleted]

(* follow: another sessions file, whose snapshot is not known yet; while   *)
(* the page is shown it is read at once.                                   *)
Follow(p) ==
    /\ Spend("follows")
    /\ path # p
    /\ path' = p
    /\ snap' = NoSnap
    /\ IF read.on THEN read' = [read EXCEPT !.stale = TRUE] ELSE read' \in {Began, NoRead}
    /\ UNCHANGED <<world, groups, reserved, closing, shrinking, opening, held, owed>>

Terminal ==
    \/ \E s \in Sessions : Appears(s) \/ FailsToStart(s) \/ UserOpens(s) \/ CloseTab(s) \/ TabEnds(s)
    \/ \E w \in Windows : CloseWindow(w) \/ WindowEnds(w)

(* A group saved by an earlier run of the app, closed by now or not yet    *)
(* noticed; or one whose window is open, as a complete read has shown.     *)
TabsInit ==
    \E c \in Scenarios, closed \in BOOLEAN :
      LET g == CHOOSE x \in Groups : TRUE
          w == CHOOSE x \in Windows : TRUE
      IN
        /\ c.open => ~closed
        /\ groups = [x \in Groups |-> IF x = g /\ c.tabs # {}
              THEN [window |-> w, file |-> c.file, members |-> c.tabs, closed |-> closed,
                    pending |-> {}]
              ELSE None]
        /\ frame = [x \in Windows |-> IF x # w \/ c.tabs = {} THEN "new"
                                     ELSE IF c.open THEN "open" ELSE "gone"]
        /\ tab = [s \in Sessions |-> IF c.open /\ s \in c.tabs THEN w ELSE None]
        /\ path = c.file
        /\ snap = IF c.open
                    THEN [sessions |-> c.tabs, at |-> tab, windows |-> {w},
                          processes |-> TRUE, inventory |-> TRUE, whole |-> TRUE]
                    ELSE NoSnap
        /\ left = c
        /\ held = IF c.open THEN c.tabs ELSE {}
    /\ named = [x \in Windows |-> None] /\ starting = [s \in Sessions |-> None]
    /\ read = NoRead /\ reserved = [s \in Sessions |-> None] /\ closing = {}
    /\ shrinking = [x \in Windows |-> None] /\ opening = Idle /\ owed = {}

-----------------------------------------------------------------------------
(* A session is never opened a second time: once the app has launched it,  *)
(* or a complete read has shown it, no later click or check decides to     *)
(* launch it while it starts or runs, whichever group or tab is clicked    *)
(* and whatever reads are dropped or fail.  Two minutes without being seen *)
(* end the protection of a launch; and a read that was under way when it   *)
(* was launched may still list an earlier tab of it, which ends it too.    *)
LaunchedOnce ==
    [][opening.phase = "answered" /\ opening'.phase = "launch"
         => opening'.todo \cap held' = {}]_tabVars

(* A tab that went with its window stays in the group saved for it, until  *)
(* it runs again or is asked for elsewhere, whatever half-closed windows,  *)
(* incomplete reads and failed or partial restores come between.  A tab    *)
(* whose own launch, or a restoring of its group, is not over when its     *)
(* window closes is excepted.                                              *)
SavedTabsStay ==
    \A g \in Known(groups), s \in Sessions : <<s, g>> \in owed => s \in groups[g].members
=============================================================================
