----------------------------- MODULE SessionSync -----------------------------
(***************************************************************************)
(* The session list shared by the UI (AppState, lib/app/app_state.dart)    *)
(* and the backend actor (native/hub/src/actors/context.rs).               *)
(*                                                                         *)
(* AppState owns the edited list and saves it after a pause; the actor     *)
(* keeps its own copy, which travels in every UiState it emits, also in    *)
(* those that announce account or recent-session news.  UiState and        *)
(* OpFinished arrive in the order they were sent; signals to the actor     *)
(* keep their order only within a type.                                    *)
(*                                                                         *)
(* A list is a record: the file it was read from, the number of the newest *)
(* edit in it, and whether it is the whole list of the file: the empty one *)
(* that a failed load leaves is not, nor is what a failed save leaves in a *)
(* file.  What else it holds makes no difference here.                     *)
(* AppState._lastItemsJson is left out: whenever it equals the JSON of a   *)
(* UiState, items is already that list.  Autosave is on (its default) and  *)
(* the session window is in front.                                         *)
(***************************************************************************)
EXTENDS Naturals, Sequences, FiniteSets

CONSTANTS Paths, FirstPath,
          Limits,    \* bounds a behaviour may have: edits by the user, loads and
                     \* reloads asked for, saves by timer or button, and
                     \* background news (account loads, other emissions)
          LoadsFail, SavesFail   \* whether file reads and writes may fail

ASSUME SyncAssumption ==
    /\ FirstPath \in Paths
    /\ Limits \subseteq [edits : Nat, loads : Nat, saves : Nat, background : Nat]
    /\ LoadsFail \in BOOLEAN /\ SavesFail \in BOOLEAN

VARIABLES
    uiPath, uiItems, uiBusy, uiError,  \* AppState: path, items, busy, lastError
    dirty,       \* AppState.dirty
    rev,         \* AppState._itemsRevision
    timer,       \* AppState._autosaveTimer is active
    pendingOps,  \* AppState._pendingOps, loads and saves only
    mail,        \* signals on their way to the actor, in the order sent
    out,         \* UiState and OpFinished on their way to the UI
    aPath, aItems, aBusy, aError,      \* the actor's copies
    aOp,         \* the load or save whose handler awaits, or {}
    md,          \* disk: the list in each file
    used,        \* the bounds of this behaviour and how much of each is used up
    asked,       \* history: edits made before the last load was asked for
    mixed,       \* history: how a file may come to receive another list
    torn         \* history: the files that a failed save cut short, with the
                 \* newest edit that each of them held before

uiVars    == <<uiPath, uiItems, uiBusy, uiError, dirty, rev, timer, pendingOps>>
actorVars == <<aPath, aItems, aBusy, aError, aOp>>
vars == <<uiVars, mail, out, actorVars, md, used, asked, mixed, torn>>

(* The list of FirstPath was loaded, as after AppState.init and InitApp. *)
Init ==
    /\ md = [p \in Paths |-> [from |-> p, ed |-> 0, whole |-> TRUE]]
    /\ uiPath = FirstPath /\ uiItems = md[FirstPath] /\ uiBusy = FALSE /\ uiError = FALSE
    /\ dirty = FALSE /\ rev = 0 /\ timer = FALSE /\ pendingOps = {}
    /\ mail = <<>> /\ out = <<>>
    /\ aPath = FirstPath /\ aItems = md[FirstPath] /\ aBusy = FALSE /\ aError = FALSE
    /\ aOp = {}
    /\ \E limit \in Limits :
         used = [limit |-> limit, edits |-> 0, loads |-> 0, saves |-> 0,
                 background |-> 0, ids |-> 0]
    /\ asked = 0 /\ mixed = {} /\ torn = {}

-----------------------------------------------------------------------------
(* AppState. *)

(* The load that was asked for last and is not answered yet, if any. *)
PendingLoads == {o \in pendingOps : o.kind = "load"}
LatestLoad == {o \in PendingLoads : \A q \in PendingLoads : q.id <= o.id}

Signal(t, p) == [type |-> t, id |-> used.ids + 1, path |-> p, items |-> uiItems]

(* _runOp: the request is remembered with the revision and the path it was *)
(* made at, and sent.                                                      *)
RunOp(kind, t, p) ==
    /\ pendingOps' = pendingOps \cup
         {[kind |-> kind, id |-> used.ids + 1, rev |-> rev, path |-> p]}
    /\ mail' = Append(mail, Signal(t, p))

(* _applyItems, called by every edit of the list: it also restarts the     *)
(* autosave timer (_scheduleAutosave).                                     *)
Edit ==
    /\ used.edits < used.limit.edits
    /\ uiItems' = [uiItems EXCEPT !.ed = used.edits + 1]
    /\ rev' = rev + 1
    /\ dirty' = TRUE
    /\ timer' = TRUE
    /\ used' = [used EXCEPT !.edits = @ + 1]
    /\ mixed' = mixed
         \cup {c \in {"edit during load"} : PendingLoads # {}}
         \cup {c \in {"edit of a part"} : ~uiItems.whole}
    /\ UNCHANGED <<uiPath, uiBusy, uiError, pendingOps, out, mail, actorVars, md, asked, torn>>

(* loadConfig: picking a file (or reloading the present one). *)
LoadConfig(p) ==
    /\ used.loads < used.limit.loads
    /\ timer' = FALSE
    /\ uiPath' = p
    /\ RunOp("load", "LoadConfig", p)
    /\ used' = [used EXCEPT !.loads = @ + 1, !.ids = @ + 1]
    /\ asked' = used.edits
    /\ UNCHANGED <<uiItems, uiBusy, uiError, dirty, rev, out, actorVars, md, mixed, torn>>

(* saveConfig, from the Save button (which needs dirty and not busy). *)
SaveConfig ==
    /\ used.saves < used.limit.saves
    /\ dirty /\ ~uiBusy
    /\ timer' = FALSE
    /\ RunOp("save", "SaveConfig", uiPath)
    /\ used' = [used EXCEPT !.saves = @ + 1, !.ids = @ + 1]
    /\ mixed' = mixed \cup {c \in {"save during load"} : PendingLoads # {}}
    /\ UNCHANGED <<uiPath, uiItems, uiBusy, uiError, dirty, rev, out, actorVars, md, asked, torn>>

(* The timer fires: _runAutosave saves, or does nothing while busy. *)
AutosaveFires ==
    /\ timer
    /\ IF dirty /\ ~uiBusy
       THEN SaveConfig
       ELSE /\ timer' = FALSE
            /\ UNCHANGED <<uiPath, uiItems, uiBusy, uiError, dirty, rev, pendingOps, mail,
                           out, actorVars, md, used, asked, mixed, torn>>

(* The account timers and focus events: loadCodexAccounts, for the path    *)
(* that is selected now.                                                   *)
LoadCodexAccounts ==
    /\ used.background < used.limit.background
    /\ mail' = Append(mail, Signal("LoadCodexAccounts", uiPath))
    /\ used' = [used EXCEPT !.background = @ + 1, !.ids = @ + 1]
    /\ UNCHANGED <<uiVars, out, actorVars, md, asked, mixed, torn>>

(* A loaded list may replace unsaved edits: the user asked for it and has  *)
(* not edited since.                                                       *)
ReloadingItems(s) ==
    ~s.busy /\ ~s.error /\ \E o \in PendingLoads : o.path = s.path /\ o.rev = rev

(* A state of another file is ignored while a load is pending. *)
Foreign(s) == \E o \in LatestLoad : o.path # s.path

(* The list the UI shows after a UiState. *)
ShowsNewest(s) == s.items   \* mutant: local edits are not protected
ShownItems(s) == IF ~dirty \/ ReloadingItems(s) THEN s.items ELSE uiItems

(* _onUiState reschedules autosave when a load or save has ended. *)
NotRescheduled(s) == timer   \* mutant
TimerAfterState(s) == timer \/ (uiBusy /\ ~s.busy /\ ~s.error /\ dirty)

OnUiState ==
    /\ out # <<>> /\ Head(out).kind = "state"
    /\ out' = Tail(out)
    /\ LET s == Head(out) IN
       IF Foreign(s) THEN UNCHANGED <<uiVars, mixed>>
       ELSE /\ uiBusy' = s.busy
            /\ uiError' = s.error
            /\ uiPath' = s.path
            /\ uiItems' = ShownItems(s)
            /\ timer' = TimerAfterState(s)
            /\ mixed' = IF dirty /\ s.error /\ ~s.busy /\ uiItems.from # s.path
                        THEN mixed \cup {"failed load over edits"} ELSE mixed
            /\ UNCHANGED <<dirty, rev, pendingOps>>
    /\ UNCHANGED <<mail, actorVars, md, used, asked, torn>>

(* The answered request made at the present revision and path settles the  *)
(* edits.                                                                  *)
AlwaysSettles(o) == TRUE   \* mutant: an older save counts for newer edits
Settles(o) == o.rev = rev /\ o.path = uiPath

OnOpFinished ==
    /\ out # <<>> /\ Head(out).kind = "finished"
    /\ out' = Tail(out)
    /\ \E o \in pendingOps :
         /\ o.id = Head(out).id
         /\ pendingOps' = pendingOps \ {o}
         /\ dirty' = (dirty /\ ~(Head(out).ok /\ Settles(o)))
         /\ timer' = IF ~Head(out).ok THEN timer
                     ELSE ~Settles(o) /\ IF o.kind = "save" THEN dirty ELSE timer
    /\ UNCHANGED <<uiPath, uiItems, uiBusy, uiError, rev, mail, actorVars, md, used, asked,
                   mixed, torn>>

-----------------------------------------------------------------------------
(* ContextActor. *)

(* emit_state: what every UiState says of the session list. *)
UiState(p, l, b, e) == [kind |-> "state", path |-> p, items |-> l, busy |-> b, error |-> e]
Finished(i, ok) == [kind |-> "finished", id |-> i, ok |-> ok]

(* One forwarder per signal type: order is kept within a type only. *)
Deliverable == {j \in DOMAIN mail : \A i \in 1..(j - 1) : mail[i].type # mail[j].type}

(* The actor runs one handler at a time, also while it awaits a file. *)
Idle == aOp = {}

(* The actor takes a signal; load_config and save_config announce that     *)
(* they are busy and await the file, load_codex_accounts only selects the  *)
(* path and announces it, or joins the refresh that is under way.          *)
ReceiveSignal(j) ==
    LET m == mail[j]
        works == m.type # "LoadCodexAccounts" IN
    /\ Idle
    /\ j \in Deliverable
    /\ mail' = SubSeq(mail, 1, j - 1) \o SubSeq(mail, j + 1, Len(mail))
    /\ aPath' = m.path
    /\ aItems' = IF m.type = "SaveConfig" THEN m.items ELSE aItems
    /\ aBusy' = works
    /\ aError' = (aError /\ ~works)
    /\ aOp' = IF works THEN aOp \cup {m} ELSE aOp
    /\ \/ out' = Append(out, UiState(aPath', aItems', aBusy', aError'))
       \/ ~works /\ out' = out
    /\ mixed' = IF j > 1 THEN mixed \cup {"overtaken"} ELSE mixed
    /\ UNCHANGED <<uiVars, md, used, asked, torn>>

(* load_config_file, and the list load_config keeps: the one in the file,  *)
(* or after a failed read the empty one.                                   *)
KeepsOnFailure(p, ok) == IF ok THEN md[p] ELSE aItems   \* mutant: items not cleared
LoadedList(p, ok) == IF ok THEN md[p] ELSE [from |-> p, ed |-> 0, whole |-> FALSE]

(* The end of load_config.  load_codex_accounts follows, and emits once    *)
(* more unless a refresh is under way already.                             *)
EndLoadConfig ==
    \E m \in aOp, ok \in {TRUE, ~LoadsFail}, emits \in 1..2 :
      /\ m.type = "LoadConfig"
      /\ aItems' = LoadedList(aPath, ok)
      /\ aBusy' = FALSE
      /\ aError' = ~ok
      /\ aOp' = aOp \ {m}
      /\ out' = out \o [i \in 1..emits |-> UiState(aPath, aItems', FALSE, ~ok)]
                    \o <<Finished(m.id, ok)>>
      /\ UNCHANGED <<uiVars, mail, aPath, md, used, asked, mixed, torn>>

(* save_config_file rewrites the file in place: it wrote the list, or      *)
(* failed before it touched the file, or left the beginning of the list.   *)
CutShort(l) == [l EXCEPT !.ed = 0, !.whole = FALSE]

WritesFile(m, ok, cut) ==
    /\ cut => ~ok
    /\ md' = IF ok THEN [md EXCEPT ![m.path] = m.items]
             ELSE IF cut THEN [md EXCEPT ![m.path] = CutShort(m.items)]
             ELSE md
    /\ torn' = torn \cup {t \in {[path |-> m.path, ed |-> md[m.path].ed]} : cut}

(* The end of save_config. *)
EndSaveConfig ==
    \E m \in aOp, ok \in {TRUE, ~SavesFail}, cut \in BOOLEAN :
      /\ m.type = "SaveConfig"
      /\ WritesFile(m, ok, cut)
      /\ aBusy' = FALSE
      /\ aError' = ~ok
      /\ aOp' = aOp \ {m}
      /\ out' = out \o <<UiState(aPath, aItems, FALSE, ~ok), Finished(m.id, ok)>>
      /\ UNCHANGED <<uiVars, mail, aPath, aItems, used, asked, mixed>>

(* emit_state from the account and recent-session handlers. *)
EmitState ==
    /\ Idle
    /\ used.background < used.limit.background
    /\ used' = [used EXCEPT !.background = @ + 1]
    /\ out' = Append(out, UiState(aPath, aItems, aBusy, aError))
    /\ UNCHANGED <<uiVars, mail, actorVars, md, asked, mixed, torn>>

Next ==
    \/ Edit
    \/ \E p \in Paths : LoadConfig(p)
    \/ SaveConfig
    \/ AutosaveFires
    \/ LoadCodexAccounts
    \/ OnUiState
    \/ OnOpFinished
    \/ \E j \in DOMAIN mail : ReceiveSignal(j)
    \/ EndLoadConfig
    \/ EndSaveConfig
    \/ EmitState

(* The Dart event loop runs due timers and delivers stream events; the     *)
(* actor takes its messages and the blocking pool runs its tasks.  Nothing *)
(* makes the user or the background timers act.                            *)
Fairness ==
    /\ WF_vars(AutosaveFires)
    /\ WF_vars(OnUiState)
    /\ WF_vars(OnOpFinished)
    /\ WF_vars(\E j \in DOMAIN mail : ReceiveSignal(j))
    /\ WF_vars(EndLoadConfig)
    /\ WF_vars(EndSaveConfig)

Spec == Init /\ [][Next]_vars
FairSpec == Spec /\ Fairness

-----------------------------------------------------------------------------
(* Every file keeps its own list: what AppState saves into a file was read *)
(* from it, and is all of it unless a save of the file failed half way.    *)
(* The code does not ensure it after one of the causes which mixed         *)
(* records; over all other interleavings of loads, saves, edits, failures  *)
(* and background news it does.                                            *)
Torn(p) == \E t \in torn : t.path = p
FilesKeepTheirLists ==
    mixed = {} => \A p \in Paths : md[p].from = p /\ (md[p].whole \/ Torn(p))

(* The newest edit is shown or saved unless the user asked for a load      *)
(* after it: GUIDE.md, "Background refreshes do not replace unsaved edits, *)
(* and edits made during a save remain pending for the next save".  Once   *)
(* it is saved, a failing save may cut its file short.                     *)
EditsAreKept ==
    \/ uiItems.ed = used.edits
    \/ asked = used.edits
    \/ \E p \in Paths : md[p].ed = used.edits
    \/ \E t \in torn : t.ed = used.edits

(* Once everything sent has been handled and no autosave is due, the list  *)
(* shown without an error is saved: no edit is left behind by an autosave  *)
(* that fired while busy, or was settled by an older save.                 *)
Quiet == mail = <<>> /\ out = <<>> /\ aOp = {} /\ ~timer
QuietMeansSaved ==
    Quiet /\ ~uiError =>
      ~dirty /\ pendingOps = {} /\ (mixed = {} => md[uiPath] = uiItems)

(* An edit is eventually saved, replaced by a load or met by an error      *)
(* (unless the bound on saves is used up).                                 *)
EditsAreSaved == dirty ~> (~dirty \/ uiError \/ used.saves = used.limit.saves)
=============================================================================
