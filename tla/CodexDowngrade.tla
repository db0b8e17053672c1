--------------------------- MODULE CodexDowngrade ---------------------------
(***************************************************************************)
(* The one-shot downgrade (CodexResetDowngrade, lib/app/codex_downgrade    *)
(* .dart): armed for the active account's next quota reset or for a        *)
(* deadline, it sends chosen settings to the live tabs once.  The same     *)
(* class with defaultsOnly serves Claude (lib/app/claude_accounts.dart).   *)
(*                                                                         *)
(* Everything persisted is the record pol; a write carries the copy of it  *)
(* made when _persist was called, and writes complete in that order.  The  *)
(* controller c is one record because each handler runs to its first await *)
(* as one step.  A model and an effort are known by the number of the      *)
(* arming that chose them.  Slot identity, quota reading and account key   *)
(* stand for themselves; percentages matter only as unused (0) or used (1) *)
(* and reset times differ, if they do, by a minute or more.                *)
(***************************************************************************)
EXTENDS Naturals, Sequences

CONSTANTS Slots, Keys, Paths,
          NoPath,        \* CodexResetDowngrade._workspace before any follow
          DefaultsOnly,  \* what defaultsOnly may be: FALSE for Codex, TRUE for Claude
          Triggers,      \* the triggers offered: "reset", "hours"
          Week,          \* length of a quota window, in ticks
          MaxTime,       \* bound: ticks of the clock
          MaxArms,       \* bound: armings
          MaxQuota,      \* bound: uses, resets and drifts of the quotas
          MaxChanges,    \* bound: switches and replacements of accounts
          MaxFetches,    \* bound: usage readings taken
          MaxFailures,   \* bound: writes that fail
          MaxCrashes     \* bound: exits of the app

ASSUME DowngradeAssumption ==
    /\ DefaultsOnly \subseteq BOOLEAN /\ Triggers \subseteq {"reset", "hours"}
    /\ NoPath \notin Paths /\ Week \in Nat \ {0}
    /\ {MaxTime, MaxArms, MaxQuota, MaxChanges, MaxFetches, MaxFailures, MaxCrashes} \subseteq Nat

VARIABLES
    c,        \* the controller: defaultsOnly, pol, changing, workspace, timer, writes
    disk,     \* the policy stored in the preferences
    calls,    \* apply requests sent and not answered
    now,      \* the clock
    quota,    \* the provider's record of each account: used, reset
    slotKey,  \* the account whose credentials are in each slot
    active,   \* AppState.codexActiveAccount
    shown,    \* AppState.codexAccounts: the latest reading of each slot
    used,     \* how much of each bound is used up
    sent,     \* history: apply requests sent for each arming
    over,     \* history: armings disarmed for good or already sent
    resets,   \* history: when each account's quota was reset
    late      \* history: a failed save of a reading undid a later state

envVars == <<quota, slotKey, active, shown, resets>>
historyVars == <<sent, over, late>>
vars == <<c, disk, calls, now, envVars, used, historyVars>>

Times == 0..MaxTime
Arms == 1..MaxArms
None == [key |-> NoPath]   \* no weekly reading (_Usage.of returns null)
Readings == [used : 0..1, reset : 0..MaxTime + Week, observed : Times, key : Keys]
Phases == {"off", "armed", "running", "done", "failed"}
Policies == [phase : Phases, arm : 0..MaxArms, trigger : {"reset", "hours"},
             due : 0..MaxTime, armedAt : Times, path : Paths \cup {NoPath},
             base : [Slots -> Readings \cup {None}]]
Writers == {"arm", "disarm", "watch", "claim", "final"}
Controllers == [defaultsOnly : DefaultsOnly, pol : Policies, changing : BOOLEAN,
                workspace : Paths \cup {NoPath}, timer : BOOLEAN,
                writes : Seq([who : Writers, snap : Policies])]

(* Types, and that arm and disarm exclude each other: _changing is set     *)
(* exactly while one of them, and no second, waits for its write.          *)
TypeOK ==
    /\ c \in Controllers
    /\ \A i \in DOMAIN c.writes : c.writes[i].who \in {"arm", "disarm"} =>
         c.changing /\ \A j \in DOMAIN c.writes \ {i} : c.writes[j].who \notin {"arm", "disarm"}
    /\ disk \in Policies
    /\ calls \in Nat
    /\ now \in Times
    /\ quota \in [Keys -> [used : 0..1, reset : 0..MaxTime + Week]]
    /\ slotKey \in [Slots -> Keys]
    /\ active \in Slots
    /\ shown \in [Slots -> Readings \cup {None}]
    /\ sent \in [Arms -> Nat]
    /\ over \subseteq Arms
    /\ late \in BOOLEAN

Spend(bound, limit) == used[bound] < limit /\ used' = [used EXCEPT ![bound] = @ + 1]

Fresh == [phase |-> "off", arm |-> 0, trigger |-> "reset", due |-> 0, armedAt |-> 0,
          path |-> NoPath, base |-> [s \in Slots |-> None]]

(* Mutants. *)
Replayed(policy, claude) ==
    [defaultsOnly |-> claude,
     pol |-> [policy EXCEPT !.phase = IF @ = "running" THEN "armed" ELSE @],
     changing |-> FALSE, workspace |-> NoPath, timer |-> FALSE, writes |-> <<>>]
OnlyRunning(x) == x.pol.phase = "running"
OnlyCancels(x, p) == IF x.workspace = p THEN x ELSE [x EXCEPT !.workspace = p, !.timer = FALSE]

(* restore: an interrupted run is not repeated; timers and the followed    *)
(* workspace start empty.                                                  *)
Restored(policy, claude) ==
    [defaultsOnly |-> claude,
     pol |-> [policy EXCEPT !.phase = IF @ = "running" THEN "failed" ELSE @],
     changing |-> FALSE, workspace |-> NoPath, timer |-> FALSE, writes |-> <<>>]

Init ==
    /\ c \in {Restored(Fresh, claude) : claude \in DefaultsOnly}
    /\ disk = Fresh
    /\ calls = 0
    /\ now = 0
    /\ quota \in [Keys -> [used : 0..1, reset : {Week}]]
    /\ slotKey \in [Slots -> Keys]
    /\ active \in Slots
    /\ shown = [s \in Slots |-> None]
    /\ used = [b \in {"arms", "quota", "changes", "fetches", "failures", "crashes"} |-> 0]
    /\ sent = [a \in Arms |-> 0]
    /\ over = {}
    /\ resets = [k \in Keys |-> {}]
    /\ late = FALSE

-----------------------------------------------------------------------------
(* The controller's methods, up to their first await. *)

Armed(x) == x.pol.phase = "armed"
Busy(x) == x.pol.phase = "running" \/ x.changing

(* _persist *)
Persist(x, who) == [x EXCEPT !.writes = Append(@, [who |-> who, snap |-> x.pol])]

(* _begin, and _execute up to its first await *)
Begin(x) == Persist([x EXCEPT !.pol.phase = "running", !.timer = FALSE], "claim")

(* checkDeadline *)
CheckDeadline(x) ==
    IF ~Armed(x) \/ x.changing \/ x.pol.trigger # "hours" \/ x.workspace # x.pol.path
      THEN x
      ELSE IF x.pol.due <= now THEN Begin(x) ELSE [x EXCEPT !.timer = TRUE]

(* follow *)
Followed(x, p) ==
    CheckDeadline(IF x.workspace = p THEN x ELSE [x EXCEPT !.workspace = p, !.timer = FALSE])

(* observe: which readings are news, and which shows a reset *)
IsNews(x, s) ==
    /\ shown[s] # None
    /\ shown[s].observed > x.pol.armedAt
    /\ x.pol.base[s] # None => shown[s].observed > x.pol.base[s].observed

AnyKey(x, s) ==
    LET usage == shown[s]  previous == x.pol.base[s] IN
      /\ s = active /\ previous # None /\ usage.reset > usage.observed /\ usage.used = 0
      /\ previous.used > 0 \/ usage.reset > previous.reset

AnyDrift(x, s) ==
    LET usage == shown[s]  previous == x.pol.base[s] IN
      /\ s = active /\ previous # None /\ usage.reset > usage.observed /\ usage.used = 0
      /\ previous.key = usage.key
      /\ previous.used > 0 \/ usage.reset > previous.reset

ShowsReset(x, s) ==
    LET usage == shown[s]  previous == x.pol.base[s] IN
      /\ s = active
      /\ previous # None
      /\ usage.reset > usage.observed
      /\ usage.used = 0
      /\ previous.key = usage.key
      /\ \/ previous.used > 0
         \/ usage.reset > previous.reset /\ (x.defaultsOnly => previous.reset <= usage.observed)

(* observe *)
Observed(x, p) ==
    LET news == {s \in Slots : IsNews(x, s)}
        y == [x EXCEPT !.pol.base = [s \in Slots |-> IF s \in news THEN shown[s] ELSE @[s]]]
    IN IF ~Armed(x) \/ x.pol.trigger # "reset" \/ x.changing \/ p # x.pol.path \/ news = {}
         THEN x
         ELSE IF \E s \in news : ShowsReset(x, s) THEN Begin(y) ELSE Persist(y, "watch")

-----------------------------------------------------------------------------
(* The user. *)

(* arm: the dialog offers it when the controller is not busy; its path is  *)
(* the one it was opened with.                                             *)
Arm(p, trigger) ==
    /\ ~Busy(c)
    /\ now < MaxTime
    /\ Spend("arms", MaxArms)
    /\ c.defaultsOnly /\ trigger = "reset" => \E s \in Slots : shown[s] # None
    /\ c' = Persist([c EXCEPT !.changing = TRUE, !.timer = FALSE, !.workspace = p,
                       !.pol = [phase |-> "armed", arm |-> used.arms + 1,
                                trigger |-> trigger, path |-> p, armedAt |-> now,
                                due |-> IF trigger = "hours" THEN now + 1 ELSE 0,
                                base |-> shown]], "arm")
    /\ UNCHANGED <<disk, calls, now, envVars, historyVars>>

(* disarm: the dialog offers it while armed. *)
Disarm ==
    /\ Armed(c) /\ ~Busy(c)
    /\ c' = Persist([c EXCEPT !.changing = TRUE, !.timer = FALSE, !.pol.phase = "off"],
                    "disarm")
    /\ UNCHANGED <<disk, calls, now, envVars, used, historyVars>>

(* AppState: a UiState without an account error or a running account       *)
(* operation shows the readings to the controller and follows the file.    *)
OnUiState(p) ==
    /\ c' = Followed(Observed(c, p), p)
    /\ UNCHANGED <<disk, calls, now, envVars, used, historyVars>>

(* AppState: start, file switch, resume and the 30 s tick only follow. *)
Follow(p) ==
    /\ c' = Followed(c, p)
    /\ UNCHANGED <<disk, calls, now, envVars, used, historyVars>>

(* The deadline timer. *)
TimerFires ==
    /\ c.timer /\ now >= c.pol.due
    /\ c' = CheckDeadline([c EXCEPT !.timer = FALSE])
    /\ UNCHANGED <<disk, calls, now, envVars, used, historyVars>>

-----------------------------------------------------------------------------
(* Awaited results. *)

(* _execute once its claim is saved: the request carries the settings the  *)
(* controller holds at that moment.                                        *)
Send(x) ==
    /\ calls' = calls + 1
    /\ sent' = [sent EXCEPT ![x.pol.arm] = @ + 1]
    /\ over' = over \cup {x.pol.arm}

(* observe's catchError, which does not ask what the phase is by then. *)
WatchFailed(x) == [x EXCEPT !.pol.phase = "failed"]

(* The oldest write completes and the caller that awaits it continues. *)
WriteDone(ok) ==
    /\ c.writes # <<>>
    /\ IF ok THEN used' = used ELSE Spend("failures", MaxFailures)
    /\ LET w == Head(c.writes)
           x == [c EXCEPT !.writes = Tail(@)]
       IN /\ disk' = IF ok THEN w.snap ELSE disk
          /\ c' = CASE w.who = "arm" ->
                         CheckDeadline([x EXCEPT !.changing = FALSE,
                                          !.pol.phase = IF ok THEN @ ELSE "off"])
                    [] w.who = "disarm" -> [x EXCEPT !.changing = FALSE]
                    [] w.who = "watch" /\ ~ok -> WatchFailed(x)
                    [] w.who = "claim" /\ ~ok ->
                         Persist([x EXCEPT !.pol.phase = "failed"], "final")
                    [] OTHER -> x
          /\ IF w.who = "claim" /\ ok
               THEN Send(x)
               ELSE /\ over' = IF w.who = "disarm" /\ ok THEN over \cup {w.snap.arm} ELSE over
                    /\ UNCHANGED <<calls, sent>>
          /\ late' = (late \/ (/\ w.who = "watch" /\ ~ok
                              /\ <<x.pol.phase, x.pol.arm>> # <<"armed", w.snap.arm>>))
    /\ UNCHANGED <<now, envVars>>

(* _execute once the request is answered, in full, in part, with an error  *)
(* or by the client's timeout.                                             *)
Answered(phase) ==
    /\ calls > 0
    /\ calls' = calls - 1
    /\ c' = Persist([c EXCEPT !.pol.phase = phase], "final")
    /\ UNCHANGED <<disk, now, envVars, used, historyVars>>

(* The app exits, by dispose or by a crash, and starts again; the write in *)
(* progress has reached the preferences or not.                            *)
Restart ==
    /\ Spend("crashes", MaxCrashes)
    /\ \E d \in {disk} \cup {c.writes[i].snap : i \in DOMAIN c.writes \cap {1}} :
         /\ disk' = d
         /\ c' = Restored(d, c.defaultsOnly)
    /\ calls' = 0
    /\ UNCHANGED <<now, envVars, historyVars>>

-----------------------------------------------------------------------------
(* External: time, the provider's quotas, the accounts and their readings. *)

Tick ==
    /\ now < MaxTime
    /\ now' = now + 1
    /\ UNCHANGED <<c, disk, calls, envVars, used, historyVars>>

UseQuota(k) ==
    /\ Spend("quota", MaxQuota)
    /\ quota[k].used = 0
    /\ quota' = [quota EXCEPT ![k].used = 1]
    /\ UNCHANGED <<c, disk, calls, now, slotKey, active, shown, resets, historyVars>>

ResetQuota(k) ==
    /\ Spend("quota", MaxQuota)
    /\ now > 0
    /\ quota' = [quota EXCEPT ![k] = [used |-> 0, reset |-> now + Week]]
    /\ resets' = [resets EXCEPT ![k] = @ \cup {now}]
    /\ UNCHANGED <<c, disk, calls, now, slotKey, active, shown, historyVars>>

(* The reset time of an unused Claude window moves with the clock (the     *)
(* "empty-window timestamp drift" of test/claude_accounts_test.dart).      *)
Drift(k) ==
    /\ c.defaultsOnly
    /\ Spend("quota", MaxQuota)
    /\ quota[k].used = 0 /\ quota[k].reset > now
    /\ quota' = [quota EXCEPT ![k].reset = now + Week]
    /\ UNCHANGED <<c, disk, calls, now, slotKey, active, shown, resets, historyVars>>

SwitchAccount(s) ==
    /\ Spend("changes", MaxChanges)
    /\ active # s
    /\ active' = s
    /\ UNCHANGED <<c, disk, calls, now, quota, slotKey, shown, resets, historyVars>>

ReplaceCredentials(s, k) ==
    /\ Spend("changes", MaxChanges)
    /\ slotKey[s] # k
    /\ slotKey' = [slotKey EXCEPT ![s] = k]
    /\ UNCHANGED <<c, disk, calls, now, quota, active, shown, resets, historyVars>>

Fetch(s) ==
    /\ Spend("fetches", MaxFetches)
    /\ shown' = [shown EXCEPT ![s] =
                   [used |-> quota[slotKey[s]].used, reset |-> quota[slotKey[s]].reset,
                    observed |-> now, key |-> slotKey[s]]]
    /\ UNCHANGED <<c, disk, calls, now, quota, slotKey, active, resets, historyVars>>

World ==
    \/ Tick
    \/ \E k \in Keys : UseQuota(k) \/ ResetQuota(k) \/ Drift(k)
    \/ \E s \in Slots : SwitchAccount(s) \/ Fetch(s)
    \/ \E s \in Slots, k \in Keys : ReplaceCredentials(s, k)

Next ==
    \/ \E p \in Paths, trigger \in Triggers : Arm(p, trigger)
    \/ Disarm
    \/ \E p \in Paths : OnUiState(p)
    \/ \E p \in Paths : Follow(p)
    \/ TimerFires
    \/ \E ok \in BOOLEAN : WriteDone(ok)
    \/ \E phase \in {"done", "failed"} : Answered(phase)
    \/ Restart
    \/ World

(* Preferences writes complete, requests are answered or time out, due     *)
(* timers fire, and time passes.                                           *)
Fairness ==
    /\ WF_vars(\E ok \in BOOLEAN : WriteDone(ok))
    /\ WF_vars(\E phase \in {"done", "failed"} : Answered(phase))
    /\ WF_vars(TimerFires)
    /\ WF_vars(Tick)

Spec == Init /\ [][Next]_vars
FairSpec == Spec /\ Fairness

-----------------------------------------------------------------------------
Begins == Armed(c) /\ c'.pol.phase = "running"

(* The reset trigger (observe) fires only on a quota reset of the active   *)
(* account between the two readings compared: not for another account, a   *)
(* replaced credential, a repeated or older reading or, in the Claude      *)
(* instance, a window that drifts without having reached its end.          *)
FiresOnlyOnReset ==
    [][Begins /\ c.pol.trigger = "reset" =>
         LET usage == shown[active]  previous == c.pol.base[active] IN
           \/ \E t \in resets[usage.key] : previous.observed <= t /\ t <= usage.observed
           \/ c.defaultsOnly /\ previous.reset <= usage.observed]_vars

(* An arming is sent at most once, never after a saved disarm and only     *)
(* with its claim on disk, whatever restarts and failed writes come        *)
(* between, unless a failed save of a reading overwrote the phase (late).  *)
SentOnce ==
    [][~late => \A a \in Arms : sent'[a] > sent[a] =>
         a \notin over /\ disk'.phase = "running" /\ disk'.arm = a]_vars

(* GUIDE.md: "The one-shot claim is saved before settings are sent": when  *)
(* the settings of an arming are sent, its running claim is on disk.       *)
ClaimSavedFirst ==
    [][\A a \in Arms : sent'[a] > sent[a] => disk'.phase = "running" /\ disk'.arm = a]_vars

(* An armed deadline on the followed workspace is met: the action begins,  *)
(* or it is disarmed, replaced, failed, restarted or followed elsewhere.   *)
DeadlineIsMet ==
    (Armed(c) /\ ~c.changing /\ c.pol.trigger = "hours" /\ c.workspace = c.pol.path)
      ~> (~Armed(c) \/ c.changing \/ c.workspace # c.pol.path)
=============================================================================
