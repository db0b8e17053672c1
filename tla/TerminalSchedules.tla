------------------------- MODULE TerminalSchedules -------------------------
(***************************************************************************)
(* Keep Alive (TerminalSchedules, lib/app/terminal_schedules.dart) with    *)
(* the tabs monitor it uses: one timer, a check of every group that is due *)
(* (its missing tabs are opened, failed Codex turns are continued once),   *)
(* and the page's actions on groups (lib/ui/home_screen.dart): the Keep    *)
(* Alive switch, the X, clicks on a group or a tab.                        *)
(*                                                                         *)
(* A job is an object; the check holds on to one while the switch replaces *)
(* it, so a job has a number.  A job is due or not instead of a clock.     *)
(* What awaits something goes on as soon as it has ended, before anything  *)
(* else happens (Ready).                                                   *)
(***************************************************************************)
EXTENDS TerminalTabs, Sequences

CONSTANTS Codex,  \* the sessions of the Codex provider
          Acts    \* actions of the page that may be in progress at once

ASSUME SchedulesAssumption ==
    /\ Codex \subseteq Sessions /\ IsFiniteSet(Acts) /\ "check" \notin Acts
    /\ Scenarios \subseteq [open : BOOLEAN, alive : BOOLEAN, tabs : SUBSET Sessions, file : Files,
                            events : Nat, clicks : Nat, troubles : Nat, follows : Nat,
                            toggles : Nat, ticks : Nat, turns : Nat, restarts : Nat]

VARIABLES
    jobs,    \* _jobs: each group's job, or None
    claims,  \* _claims: the failed turns taken on, each a session and a turn
    disk,    \* the preferences: jobs and claims
    writes,  \* _writes: what is still to be saved, and who awaits it
    timer,   \* _timer is set
    check,   \* checkDue and _check
    acts,    \* setEnabled and _closeTerminalGroup in progress
    stuck,   \* external: the failed turn each Codex session is stuck in, or None
    sent,    \* history: the recoveries sent
    said     \* history: the last setEnabled of each group

schedules == <<jobs, claims, disk, writes, timer, check, acts, sent, said>>
vars == <<tabVars, schedules, stuck>>

NoCheck == [phase |-> "idle"]
NoAct == [phase |-> "idle"]

(* A number for a job that no job had before. *)
Fresh == left.toggles + left.clicks

(* Mutants. *)
AnyJob(job) == jobs[job.group] # None
PersistsOld(who, js, cs) == writes' = Append(writes, [who |-> who, jobs |-> js, claims |-> claims])
StalePath(js, p) == \E g \in Groups : js[g] # None /\ js[g].on /\ js[g].file = path

(* _current *)
Current(job) ==
    /\ jobs[job.group] # None /\ jobs[job.group].n = job.n
    /\ jobs[job.group].on /\ jobs[job.group].file = path

(* _schedule, while no check is in progress. *)
Scheduled(js, p) == \E g \in Groups : js[g] # None /\ js[g].on /\ js[g].file = p

(* _persist: the text is that of the call, the writes go one by one. *)
Persist(who, js, cs) == writes' = Append(writes, [who |-> who, jobs |-> js, claims |-> cs])

-----------------------------------------------------------------------------
(* The switch and the X of a group. *)

(* setEnabled, from its last await before the save. *)
SetEnabled(a, kind, g, n, on, desired) ==
    /\ jobs' = [jobs EXCEPT ![g] = [n |-> n, on |-> on, due |-> FALSE, file |-> desired.file,
                                    window |-> desired.window, members |-> desired.members]]
    /\ acts' = [acts EXCEPT ![a] = [kind |-> kind, phase |-> "save", group |-> g, n |-> n,
                                    prev |-> jobs[g]]]
    /\ Persist(a, jobs', claims)
    /\ said' = [said EXCEPT ![g] = [n |-> n, off |-> FALSE, undone |-> FALSE]]

(* The switch of a group shows its job, and works for open groups and to   *)
(* turn a job off.                                                         *)
ShownOn(g) == jobs[g] # None /\ jobs[g].on

(* setEnabled(on), up to its await. *)
SwitchOn(a, g) ==
    /\ Spend("toggles")
    /\ acts[a] = NoAct /\ ~ShownOn(g)
    /\ Active(g, groups, snap.windows) /\ groups[g].file = path
    /\ acts' = [acts EXCEPT ![a] = [kind |-> "on", phase |-> "fresh", group |-> g,
                                    n |-> Fresh, desired |-> groups[g]]]
    /\ AwaitFresh
    /\ UNCHANGED <<world, path, snap, groups, reserved, closing, shrinking, opening, held,
                   owed, jobs, claims, disk, writes, timer, check, sent, said, stuck>>

EnableJob(a) ==
    LET act == acts[a] IN
    /\ act.phase = "answered" /\ act.kind = "on"
    /\ IF /\ snap.processes /\ snap.inventory
          /\ ~act.desired.closed /\ act.desired.window \in snap.windows \ closing
          /\ act.desired.members # {}
         THEN SetEnabled(a, "on", act.group, act.n, TRUE, act.desired)
         ELSE /\ acts' = [acts EXCEPT ![a] = NoAct]
              /\ UNCHANGED <<jobs, writes, said>>
    /\ UNCHANGED <<tabVars, claims, disk, timer, check, sent, stuck>>

SwitchOff(a, g) ==
    /\ Spend("toggles")
    /\ acts[a] = NoAct /\ ShownOn(g)
    /\ SetEnabled(a, "off", g, Fresh, FALSE, groups[g])
    /\ UNCHANGED <<world, monitor, opening, held, owed, claims, disk, timer, check, sent, stuck>>

(* _terminalActionBusy, set by the X; a click that opens sets opening too. *)
Busy == \E a \in Acts : acts[a] # NoAct /\ acts[a].kind \in {"x", "close", "delete"}

(* _closeTerminalGroup, up to its await. *)

PressX(a, g) ==
    /\ Spend("clicks")
    /\ acts[a] = NoAct /\ ~Busy /\ opening = Idle
    /\ acts' = [acts EXCEPT ![a] = [kind |-> "x", phase |-> "fresh", group |-> g,
                                    n |-> Fresh, active |-> Active(g, groups, snap.windows)]]
    /\ AwaitFresh
    /\ UNCHANGED <<world, path, snap, groups, reserved, closing, shrinking, opening, held,
                   owed, jobs, claims, disk, writes, timer, check, sent, said, stuck>>

(* _closeTerminalGroup, after the fresh read: the group must be as it was. *)
ChooseX(a) ==
    LET act == acts[a]
        g == act.group IN
    /\ act.phase = "answered" /\ act.kind = "x"
    /\ acts' = [acts EXCEPT ![a] =
          IF ~snap.processes \/ g \notin Known(groups)
               \/ Active(g, groups, snap.windows) # act.active THEN NoAct
          ELSE [kind |-> IF act.active THEN "close" ELSE "delete",
                phase |-> IF act.active THEN "dialog" ELSE "stop", group |-> g, n |-> act.n]]
    /\ UNCHANGED <<tabVars, jobs, claims, disk, writes, timer, check, sent, said, stuck>>

AnswerDialog(a) ==
    /\ acts[a].phase = "dialog"
    /\ acts' \in {[acts EXCEPT ![a].phase = "stop"], [acts EXCEPT ![a] = NoAct]}
    /\ UNCHANGED <<tabVars, jobs, claims, disk, writes, timer, check, sent, said, stuck>>

(* stop: only a job that is on is turned off. *)
Stop(a) ==
    LET act == acts[a]
        g == act.group IN
    /\ act.phase = "stop"
    /\ IF ShownOn(g)
         THEN SetEnabled(a, act.kind, g, act.n, FALSE, jobs[g])
         ELSE /\ acts' = [acts EXCEPT ![a].phase = "stopped"]
              /\ UNCHANGED <<jobs, writes, said>>
    /\ UNCHANGED <<tabVars, claims, disk, timer, check, sent, stuck>>

(* After stop: the window is asked to close, or deleteGroup reads again.   *)
Stopped(a) ==
    LET act == acts[a]
        g == act.group IN
    /\ act.phase = "stopped"
    /\ IF act.kind = "close"
         THEN CloseWindowOf(g) /\ acts' = [acts EXCEPT ![a] = NoAct] /\ UNCHANGED read
       ELSE IF act.kind = "delete" /\ opening = Idle
         THEN /\ acts' = [acts EXCEPT ![a].phase = "fresh"]
              /\ AwaitFresh
              /\ UNCHANGED <<frame, closing>>
       ELSE acts' = [acts EXCEPT ![a] = NoAct] /\ UNCHANGED <<frame, closing, read>>
    /\ UNCHANGED <<tab, named, starting, path, snap, groups, reserved, shrinking, opening, left,
                   held, owed, jobs, claims, disk, writes, timer, check, sent, said, stuck>>

Forget(a) ==
    LET g == acts[a].group IN
    /\ acts[a].phase = "answered" /\ acts[a].kind = "delete"
    /\ IF snap.processes /\ snap.inventory /\ g \in Known(groups)
            /\ ~Active(g, groups, snap.windows)
         THEN DeleteGroup(g) ELSE UNCHANGED groups
    /\ acts' = [acts EXCEPT ![a] = NoAct]
    /\ UNCHANGED <<world, path, snap, read, reserved, closing, shrinking, opening, left, held,
                   owed, jobs, claims, disk, writes, timer, check, sent, said, stuck>>

(* setEnabled, once the save has ended. *)
Switched(a) ==
    LET act == acts[a]
        g == act.group IN
    /\ act.phase = "saved"
    /\ acts' = [acts EXCEPT ![a] = IF act.kind \in {"on", "off"} THEN NoAct
                                   ELSE [@ EXCEPT !.phase = "stopped"]]
    /\ timer' = IF check = NoCheck THEN Scheduled(jobs, path) ELSE timer
    /\ said' = IF act.kind # "on" /\ said[g].n = act.n
                 THEN [said EXCEPT ![g].off = TRUE] ELSE said
    /\ UNCHANGED <<tabVars, jobs, claims, disk, writes, check, sent, stuck>>

(* A save that fails puts back the job that was there, whatever has        *)
(* happened to the group since.                                            *)
NotSwitched(a) ==
    LET act == acts[a] IN
    /\ act.phase = "unsaved"
    /\ acts' = [acts EXCEPT ![a] = NoAct]
    /\ jobs' = [jobs EXCEPT ![act.group] = act.prev]
    /\ said' = [said EXCEPT ![act.group].undone = TRUE]
    /\ UNCHANGED <<tabVars, claims, disk, writes, timer, check, sent, stuck>>

-----------------------------------------------------------------------------
(* The check. *)

(* The timer fires: checkDue. *)
CheckDue ==
    /\ timer /\ check = NoCheck
    /\ \E g \in Groups : jobs[g] # None /\ jobs[g].due /\ Current([group |-> g, n |-> jobs[g].n])
    /\ timer' = FALSE
    /\ check' = [phase |-> "next", job |-> None, live |-> {}, rows |-> {},
                 todo |-> {[group |-> g, n |-> jobs[g].n] : g \in {x \in Groups : jobs[x] # None}}]
    /\ UNCHANGED <<tabVars, jobs, claims, disk, writes, acts, sent, said, stuck>>

Goes(phase) == check' = [check EXCEPT !.phase = phase]

(* checkDue: the next deadline is saved before anything is done. *)
NextJob ==
    LET due == {r \in check.todo : Current(r) /\ jobs[r.group].due} IN
    /\ check.phase = "next"
    /\ IF due = {}
         THEN /\ check' = NoCheck
              /\ timer' = Scheduled(jobs, path)
              /\ UNCHANGED <<jobs, writes>>
         ELSE \E r \in due :
                /\ check' = [check EXCEPT !.phase = "save", !.job = r, !.todo = @ \ {r}]
                /\ jobs' = [jobs EXCEPT ![r.group].due = FALSE]
                /\ Persist("check", jobs', claims)
                /\ UNCHANGED timer
    /\ UNCHANGED <<tabVars, claims, disk, acts, sent, said, stuck>>

(* _check, up to its await. *)
BeginCheck ==
    /\ check.phase = "saved"
    /\ IF Current(check.job) THEN Goes("fresh") /\ AwaitFresh
                             ELSE Goes("next") /\ UNCHANGED read
    /\ UNCHANGED <<world, path, snap, groups, reserved, closing, shrinking, opening, left, held,
                   owed, jobs, claims, disk, writes, timer, acts, sent, said, stuck>>

(* checkDue: a deadline that cannot be saved ends all checks of this run.  *)
GiveUp ==
    /\ check.phase = "unsaved"
    /\ check' = NoCheck
    /\ jobs' = [g \in Groups |-> IF jobs[g] = None THEN None ELSE [jobs[g] EXCEPT !.on = FALSE]]
    /\ timer' = FALSE
    /\ UNCHANGED <<tabVars, claims, disk, writes, acts, sent, said, stuck>>

(* checkDue saves again when _check has ended, however it has. *)
Leave(js) == Goes("save again") /\ Persist("check", js, claims)

(* _check: the members of the job and those its window's group has now. *)
Wanted(job) ==
    LET of == {g \in Known(groups) : groups[g].window = job.window} IN
    job.members \cup (IF of = {} THEN {} ELSE groups[CHOOSE g \in of : TRUE].members)

(* _check, after the fresh read; openGroup refuses if it is already busy.  *)
Compare ==
    LET g == check.job.group
        job == jobs[g]
        restore == Wanted(job) \ snap.sessions # {} /\ snap.windows = {job.window}
                     /\ opening = Idle
    IN
    /\ check.phase = "answered"
    /\ IF ~snap.processes \/ ~Current(check.job) \/ ~snap.inventory
         THEN UNCHANGED <<jobs, opening, read>> /\ Leave(jobs)
       ELSE IF job.window \notin snap.windows \ closing
         THEN /\ jobs' = [jobs EXCEPT ![g].on = FALSE]
              /\ Leave(jobs')
              /\ UNCHANGED <<opening, read>>
       ELSE /\ jobs' = [jobs EXCEPT ![g].members = Wanted(job)]
            /\ IF restore THEN OpenGroup(g, Wanted(job), FALSE, job.window)
                          ELSE UNCHANGED <<opening, read>>
            /\ Goes(IF restore THEN "opening" ELSE "live")
            /\ UNCHANGED writes
    /\ UNCHANGED <<world, path, snap, groups, reserved, closing, shrinking, left, held, owed,
                   claims, disk, timer, acts, sent, said, stuck>>

(* The launcher given to openGroup: no launch is begun for a job that is   *)
(* not current.  It is not asked again after the awaits of _launchChecked. *)
BeginIfCurrent(s) ==
    /\ BeginLaunch(s)
    /\ opening.required # None => Current(check.job)
    /\ UNCHANGED <<schedules, stuck>>

StopLaunching ==
    /\ opening.phase = "launch" /\ opening.required # None /\ ~Current(check.job)
    /\ opening' = Idle
    /\ UNCHANGED <<world, monitor, left, held, owed, schedules, stuck>>

Opened ==
    /\ check.phase = "opening" /\ opening.phase \in {"idle", "threw"}
    /\ opening' = Idle
    /\ IF opening = Idle THEN Goes("live") /\ UNCHANGED writes ELSE Leave(jobs)
    /\ UNCHANGED <<world, monitor, left, held, owed, jobs, claims, disk, timer, acts, sent,
                   said, stuck>>

(* _check: the members in the window's group whose turns are asked about.  *)
AskStatus ==
    LET job == jobs[check.job.group]
        live == {s \in job.members \cap Codex \cap snap.sessions :
                   \E g \in Known(groups) : groups[g].window = job.window /\ s \in groups[g].members}
    IN
    /\ check.phase = "live"
    /\ IF Current(check.job) /\ live # {}
         THEN check' = [check EXCEPT !.phase = "status", !.live = live] /\ UNCHANGED writes
         ELSE Leave(jobs)
    /\ UNCHANGED <<tabVars, jobs, claims, disk, timer, acts, sent, said, stuck>>

StatusArrives ==
    /\ check.phase = "status"
    /\ \/ /\ check' = [check EXCEPT !.phase = "rows",
                          !.rows = {<<s, stuck[s]>> : s \in {x \in check.live : stuck[x] # None}}]
          /\ UNCHANGED <<left, writes>>
       \/ Spend("troubles") /\ Leave(jobs)
    /\ UNCHANGED <<world, monitor, opening, held, owed, jobs, claims, disk, timer, acts, sent,
                   said, stuck>>

(* _check: a turn is claimed, and the claim saved, before it is recovered. *)
NextRow ==
    /\ check.phase = "rows"
    /\ IF ~Current(check.job) \/ check.rows = {}
         THEN Leave(jobs) /\ UNCHANGED claims
         ELSE \E row \in check.rows :
                /\ claims' = claims \cup {row}
                /\ IF row \in claims
                     THEN check' = [check EXCEPT !.rows = @ \ {row}] /\ UNCHANGED writes
                     ELSE /\ check' = [check EXCEPT !.rows = @ \ {row}, !.live = {row},
                                         !.phase = "claim"]
                          /\ Persist("check", jobs, claims')
    /\ UNCHANGED <<tabVars, jobs, disk, timer, acts, sent, said, stuck>>

Recover ==
    /\ check.phase = "claimed"
    /\ IF Current(check.job)
         THEN Goes("recover") /\ sent' = sent \cup check.live /\ UNCHANGED writes
         ELSE Leave(jobs) /\ UNCHANGED sent
    /\ UNCHANGED <<tabVars, jobs, claims, disk, timer, acts, said, stuck>>

NotClaimed ==
    /\ check.phase = "unclaimed"
    /\ Leave(jobs)
    /\ UNCHANGED <<tabVars, jobs, claims, disk, timer, acts, sent, said, stuck>>

(* The helper continues the turn, or not; its answer may be lost. *)
Recovered ==
    /\ check.phase = "recover"
    /\ stuck' \in {stuck} \cup {[stuck EXCEPT ![row[1]] = IF @ = row[2] THEN None ELSE @] :
                                  row \in check.live}
    /\ \/ Goes("rows") /\ UNCHANGED <<left, writes>>
       \/ Spend("troubles") /\ Leave(jobs)
    /\ UNCHANGED <<world, monitor, opening, held, owed, jobs, claims, disk, timer, acts, sent,
                   said>>

-----------------------------------------------------------------------------
(* What is awaited, time, and the end of the app. *)

(* A write ends: who awaits it goes on. *)
After(phase, saved) ==
    IF phase = "save" THEN IF saved THEN "saved" ELSE "unsaved"
    ELSE IF phase = "save again" THEN IF saved THEN "next" ELSE "unsaved"
    ELSE IF saved THEN "claimed" ELSE "unclaimed"

Written ==
    /\ writes # <<>>
    /\ \E saved \in BOOLEAN :
         /\ IF saved THEN UNCHANGED left ELSE Spend("troubles")
         /\ LET w == Head(writes) IN
              /\ disk' = IF saved THEN [jobs |-> w.jobs, claims |-> w.claims] ELSE disk
              /\ check' = IF w.who = "check"
                            THEN [check EXCEPT !.phase = After(@, saved)] ELSE check
              /\ acts' = IF w.who = "check" THEN acts
                         ELSE [acts EXCEPT ![w.who].phase = After(@, saved)]
    /\ writes' = Tail(writes)
    /\ UNCHANGED <<world, monitor, opening, held, owed, jobs, claims, timer, sent, said, stuck>>

(* Everything that awaits ensureFresh goes on with the read it waits for.  *)
Reply(waiting) == IF waiting.phase = "fresh" THEN [waiting EXCEPT !.phase = "answered"]
                  ELSE waiting

ReadEnds ==
    /\ \/ EndRead /\ check' = Reply(check) /\ acts' = [a \in Acts |-> Reply(acts[a])]
       \/ EndStale /\ \/ check' = Reply(check) /\ acts' = [a \in Acts |-> Reply(acts[a])]
                      \/ read'.on /\ UNCHANGED <<check, acts>>
    /\ UNCHANGED <<jobs, claims, disk, writes, timer, sent, said, stuck>>

Elapses(g) ==
    /\ Spend("ticks")
    /\ jobs[g] # None /\ ~jobs[g].due
    /\ jobs' = [jobs EXCEPT ![g].due = TRUE]
    /\ UNCHANGED <<world, monitor, opening, held, owed, claims, disk, writes, timer, check, acts,
                   sent, said, stuck>>

TurnFails(s) ==
    /\ Spend("turns")
    /\ s \in Codex /\ tab[s] # None /\ stuck[s] = None
    /\ stuck' = [stuck EXCEPT ![s] = left.turns]
    /\ UNCHANGED <<world, monitor, opening, held, owed, schedules>>

(* follow, of both. *)
FollowFile(p) ==
    /\ Follow(p)
    /\ timer' = IF check = NoCheck THEN Scheduled(jobs, p) ELSE timer
    /\ UNCHANGED <<jobs, claims, disk, writes, check, acts, sent, said, stuck>>

(* The app ends and starts again (restore, _loadGroups): what is not saved *)
(* is lost; a save under way may have been made.                           *)
Restart ==
    /\ Spend("restarts")
    /\ disk' \in {disk} \cup IF writes = <<>> THEN {}
                    ELSE {[jobs |-> writes[1].jobs, claims |-> writes[1].claims]}
    /\ jobs' = disk'.jobs /\ claims' = disk'.claims
    /\ writes' = <<>> /\ check' = NoCheck /\ acts' = [a \in Acts |-> NoAct]
    /\ timer' = Scheduled(jobs', path)
    /\ snap' = NoSnap /\ read' = NoRead /\ opening' = Idle /\ closing' = {}
    /\ reserved' = [s \in Sessions |-> None] /\ shrinking' = [w \in Windows |-> None]
    /\ held' = {}
    /\ said' = [g \in Groups |-> [said[g] EXCEPT !.undone = FALSE,
                                            !.off = @ /\ ~(said[g].undone /\ jobs'[g] # None /\ jobs'[g].on)]]
    /\ UNCHANGED <<world, path, groups, owed, sent, stuck>>

Ready ==
    \/ opening.phase \in {"answered", "launch"}
    \/ check.phase \in {"next", "saved", "unsaved", "answered", "live", "rows", "claimed", "unclaimed"}
    \/ check.phase = "opening" /\ opening.phase \in {"idle", "threw"}
    \/ \E a \in Acts : acts[a].phase \in {"answered", "stop", "stopped", "saved", "unsaved"}

Resume ==
    \/ PlanLaunches /\ UNCHANGED <<schedules, stuck>>
    \/ StopLaunching \/ \E s \in Sessions : BeginIfCurrent(s)
    \/ NextJob \/ BeginCheck \/ GiveUp \/ Compare \/ Opened \/ AskStatus \/ NextRow \/ Recover
    \/ NotClaimed
    \/ \E a \in Acts : \/ EnableJob(a) \/ ChooseX(a) \/ Stop(a) \/ Stopped(a) \/ Forget(a)
                       \/ Switched(a) \/ NotSwitched(a)

Clicked ==
    \/ \E a \in Acts, g \in Known(groups) : SwitchOn(a, g) \/ SwitchOff(a, g) \/ PressX(a, g)
    \/ \E a \in Acts : AnswerDialog(a)
    \/ /\ ~Busy
       /\ \E g \in Known(groups) :
            \/ ClickGroup(g, groups[g].members, FALSE)
            \/ \E s \in groups[g].members : ClickGroup(g, {s}, TRUE)
       /\ UNCHANGED <<schedules, stuck>>

Next ==
    IF Ready THEN Resume
    ELSE \/ /\ Terminal \/ BeginRead \/ \E s \in Sessions : LaunchTab(s) \/ RefuseLaunch(s)
            /\ UNCHANGED <<schedules, stuck>>
         \/ \E s \in Sessions : TurnFails(s)
         \/ ReadEnds \/ Clicked \/ Written \/ CheckDue \/ StatusArrives \/ Recovered
         \/ Restart
         \/ \E g \in Groups : Elapses(g)
         \/ \E p \in Files : FollowFile(p)

Init ==
    /\ TabsInit
    /\ jobs = [g \in Groups |-> IF groups[g] = None \/ ~left.alive THEN None
             ELSE [n |-> Fresh + 1, on |-> TRUE, due |-> FALSE, file |-> path,
                   window |-> groups[g].window, members |-> groups[g].members]]
    /\ claims = {} /\ disk = [jobs |-> jobs, claims |-> {}]
    /\ writes = <<>> /\ timer = Scheduled(jobs, path) /\ check = NoCheck
    /\ acts = [a \in Acts |-> NoAct]
    /\ stuck = [s \in Sessions |-> None] /\ sent = {}
    /\ said = [g \in Groups |-> [n |-> Fresh + 1, off |-> FALSE, undone |-> FALSE]]

Spec == Init /\ [][Next]_vars

-----------------------------------------------------------------------------
(* A failed turn is continued at most once: no second recovery of it is    *)
(* ever sent, whatever saves fail, answers are lost and restarts come      *)
(* between its claim and its answer.                                       *)
RecoveredOnce ==
    [][check.phase = "claimed" /\ check'.phase = "recover" => check.live \cap sent = {}]_vars

(* A group turned off stays off: once the switch or the X has saved it, a  *)
(* check begins no launch of a tab of it and continues no turn of it,      *)
(* until it is turned on again, also in the next run of the app.  The one  *)
(* launch that the check had begun by then is not taken back: Terminal may *)
(* still be asked for that tab, and no other.  If an earlier switch of the *)
(* group fails to be saved after this one was made, the job from before    *)
(* comes back, and stays in the next run if it is saved again, which is    *)
(* excepted.                                                               *)
Begins(s) == opening.phase = "launch" /\ Launching(s)'

StaysOff ==
    [][\A g \in Groups : said[g].off /\ ~said[g].undone =>
         /\ \A s \in Sessions :
              Begins(s) /\ opening.required # None => opening.group # g
         /\ sent' # sent => check.job.group # g]_vars

(* A group that is on has a timer that will check it whenever no check is  *)
(* in progress and no switch of it is being saved.  A job that came back   *)
(* when a switch failed to be saved is excepted: nothing sets its timer.   *)
AlwaysWatched ==
    \A g \in Groups :
      /\ check = NoCheck /\ ShownOn(g) /\ jobs[g].file = path /\ ~said[g].undone
      /\ \A a \in Acts : acts[a].phase \in {"save", "saved", "unsaved"} => acts[a].group # g
      => timer
=============================================================================
