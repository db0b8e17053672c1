---------------------------- MODULE ContextActor ----------------------------
(***************************************************************************)
(* The Rust backend actor of Context (native/hub/src/actors/context.rs).   *)
(*                                                                         *)
(* The UI talks to the actor with typed signals.  Every signal type has    *)
(* its own queue and its own forwarder task, so signals of one type arrive *)
(* in order and signals of different types may overtake each other.  The   *)
(* actor handles one message at a time; a handler that awaits blocking     *)
(* file work keeps the actor occupied (`op') until that work returns.  No  *)
(* other handler can run in between, so the blocking work and what the     *)
(* handler does with its result are one step (the End actions).            *)
(*                                                                         *)
(* Four refreshes (Codex, Muse and ZCode accounts, recent sessions) run as *)
(* background tasks next to the actor.  Requests that arrive while one is  *)
(* running join it (`waiting').  Selecting another sessions file bumps     *)
(* `generation': waiting requests are failed, shown data is cleared, and a *)
(* task that was started for an older generation is thrown away on         *)
(* completion and started again.                                           *)
(*                                                                         *)
(* Left out: status texts, warnings and the theme colour, which no guard   *)
(* reads, and the UiState snapshots sent to the UI (module SessionSync).   *)
(* A store is taken to hold at least one account, so that shown Codex      *)
(* accounts carry a manual reset.                                          *)
(***************************************************************************)
EXTENDS Integers, Sequences, FiniteSets

CONSTANTS
    Paths,          \* sessions markdown files, EmptyPath (none picked) included
    EmptyPath,
    Homes,          \* user homes; every account store lives in one
    HomeOf,         \* infer_user_home_root: the home a sessions file is in
    Contents,       \* session lists a markdown file can hold
    NoItems,        \* the empty list, also what an absent file is read as
    Torn,           \* what a failed write may leave in a file
    Resets,         \* timestamps for the manual weekly reset
    NoReset,
    SignalTypes,    \* the signal types the UI sends (a run may take some)
    MaxSignals,     \* bound: signals the UI sends in one behaviour
    NoData, NoTask

AccountKinds == {"codex", "muse", "zcode"}
Kinds == AccountKinds \cup {"recent"}
AccountOps == {"SaveCodexAccount", "SwitchCodexAccount",
               "RenameCodexAccount", "DeleteCodexAccount"}
ResetOps == {"SetCodexManualReset", "ClearCodexManualReset"}
LoadSignal == [codex |-> "LoadCodexAccounts", muse |-> "LoadMuseAccounts",
               zcode |-> "LoadZcodeAccounts"]
AllSignals == {"InitApp", "LoadConfig", "SaveConfig", "RefreshRecent",
               "LoadCodexAccounts", "LoadMuseAccounts", "LoadZcodeAccounts"}
              \cup AccountOps \cup ResetOps
Ids == 1..MaxSignals

ASSUME ConstantsAssumption ==
    /\ MaxSignals \in Nat
    /\ EmptyPath \in Paths
    /\ HomeOf \in [Paths -> Homes]
    /\ SignalTypes \subseteq AllSignals
    /\ NoData \notin Paths
    /\ NoReset \notin Resets
    /\ NoItems \in Contents
    /\ "malformed" \notin Contents

VARIABLES
    sent,         \* the signals sent so far; a request id is an index of it
    pending,      \* indices of the signals still in a queue or the mailbox
    initialized,  \* ContextActor::initialized
    generation,   \* ContextActor::path_generation
    path,         \* ContextActor::sessions_markdown_path
    busy,         \* ContextActor::busy (a load or a save of the file runs)
    codexBusy,    \* ContextActor::codex_account_busy
    refreshing,   \* per kind: *_account_refreshing, recent_busy
    waiting,      \* per kind: ids of the requests that joined the refresh
    shown,        \* per kind: the sessions file the shown data was read for
    shownReset,   \* manual_reset_at carried by the shown Codex accounts
    manualReset,  \* ContextActor::codex_manual_reset_at
    resetRev,     \* ContextActor::codex_manual_reset_revision
    items,        \* ContextActor::items
    lastError,    \* ContextActor::last_error is set
    op,           \* index of the signal whose handler awaits, 0 if none does
    opChanged,    \* that handler's local path_changed
    task,         \* per kind: the background refresh, or NoTask
    md,           \* disk: the list in each sessions file
    diskReset,    \* disk: manual reset in the metadata of each home
    elapsed,      \* timestamps that lie in the past
    answers       \* the OpFinished signals sent for each request id

refreshVars == <<refreshing, codexBusy, task>>
resetVars   == <<shownReset, manualReset, resetRev>>
configVars  == <<initialized, busy, items, lastError>>
opVars      == <<op, opChanged>>
diskVars    == <<md, diskReset, elapsed>>
actorVars   == <<generation, path, refreshVars, waiting, shown, resetVars,
                 configVars, opVars>>
vars == <<sent, pending, actorVars, diskVars, answers>>

-----------------------------------------------------------------------------
(* Types. *)

Payloads == Contents \cup {"malformed"} \cup Resets \cup {"valid", "invalid", "none"}
Message == [type : AllSignals, path : Paths, arg : Payloads, reply : BOOLEAN]
ResetOrNone == Resets \cup {NoReset}
Task == [gen : Nat, path : Paths, rev : Nat, phase : {"running", "done"},
         ok : BOOLEAN, reset : ResetOrNone]
ASSUME NoTaskAssumption == NoTask \notin Task

TypeOK ==
    /\ sent \in Seq(Message) /\ Len(sent) \in 0..MaxSignals
    /\ pending \subseteq DOMAIN sent
    /\ initialized \in BOOLEAN
    /\ generation \in Nat
    /\ path \in Paths
    /\ busy \in BOOLEAN
    /\ codexBusy \in BOOLEAN
    /\ refreshing \in [Kinds -> BOOLEAN]
    /\ waiting \in [Kinds -> SUBSET Ids]
    /\ shown \in [Kinds -> Paths \cup {NoData}]
    /\ shownReset \in ResetOrNone
    /\ manualReset \in ResetOrNone
    /\ resetRev \in Nat
    /\ items \in Contents \cup {Torn}
    /\ lastError \in BOOLEAN
    /\ op \in {0} \cup DOMAIN sent
    /\ opChanged \in BOOLEAN
    /\ task \in [Kinds -> Task \cup {NoTask}]
    /\ md \in [Paths -> Contents \cup {Torn}]
    /\ diskReset \in [Homes -> ResetOrNone]
    /\ elapsed \subseteq Resets
    /\ answers \in [Ids -> Seq(BOOLEAN)]

(* ContextActor::new; the files hold anything. *)
Init ==
    /\ sent = <<>> /\ pending = {}
    /\ initialized = FALSE
    /\ generation = 0
    /\ path = EmptyPath
    /\ busy = FALSE /\ codexBusy = FALSE
    /\ refreshing = [k \in Kinds |-> FALSE]
    /\ waiting = [k \in Kinds |-> {}]
    /\ shown = [k \in Kinds |-> NoData]
    /\ shownReset = NoReset /\ manualReset = NoReset /\ resetRev = 0
    /\ items = NoItems
    /\ lastError = FALSE
    /\ op = 0 /\ opChanged = FALSE
    /\ task = [k \in Kinds |-> NoTask]
    /\ md \in {f \in [Paths -> Contents] : f[EmptyPath] = NoItems}
    /\ diskReset \in [Homes -> ResetOrNone]
    /\ elapsed = {}
    /\ answers = [i \in Ids |-> <<>>]

-----------------------------------------------------------------------------
(* The UI and the clock. *)

(* What the UI may put in a signal.  InitApp carries no request id, and    *)
(* RefreshRecent may carry 0, which asks for no answer.  Only InitApp and  *)
(* LoadConfig are sent while no sessions file is picked.                   *)
ArgsOf(t) == CASE t = "SaveConfig" -> Contents \cup {"malformed"}
               [] t = "SetCodexManualReset" -> Resets
               [] t \in AccountOps -> {"valid", "invalid"}
               [] OTHER -> {"none"}
PathsOf(t) == IF t \in {"InitApp", "LoadConfig"} THEN Paths ELSE Paths \ {EmptyPath}
RepliesOf(t) == CASE t = "InitApp" -> {FALSE}
                  [] t = "RefreshRecent" -> BOOLEAN
                  [] OTHER -> {TRUE}

UiSends(t) ==
    /\ Len(sent) < MaxSignals
    /\ t = "InitApp" => \A i \in DOMAIN sent : sent[i].type # "InitApp"
    /\ \E p \in PathsOf(t), a \in ArgsOf(t), r \in RepliesOf(t) :
         sent' = Append(sent, [type |-> t, path |-> p, arg |-> a, reply |-> r])
    /\ pending' = pending \cup {Len(sent) + 1}
    /\ UNCHANGED <<actorVars, diskVars, answers>>

TimePasses ==
    /\ \E r \in Resets \ elapsed : elapsed' = elapsed \cup {r}
    /\ UNCHANGED <<sent, pending, actorVars, md, diskReset, answers>>

-----------------------------------------------------------------------------
(* Common parts of the handlers. *)

(* forward_dart_signal and the actor's mailbox: the next message is the    *)
(* oldest waiting signal of some type; nothing else is being handled.      *)
ReceiveAny(t, i) ==   \* mutant: a queue that does not keep its order
    /\ op = 0
    /\ sent[i].type = t
    /\ pending' = pending \ {i}
    /\ UNCHANGED <<sent, diskVars>>
Receive(t, i) ==
    /\ op = 0
    /\ sent[i].type = t
    /\ \A j \in pending : sent[j].type = t => i <= j
    /\ pending' = pending \ {i}
    /\ UNCHANGED <<sent, diskVars>>

(* finish_op: one OpFinished for every id in ids that asked for one. *)
Finish(ids, ok) == [i \in Ids |-> IF i \in ids /\ sent[i].reply
                                  THEN Append(answers[i], ok) ELSE answers[i]]

(* set_sessions_markdown_path(p), as the values it leaves behind, and the  *)
(* waiting requests it answers with a failure.                             *)
Changed(p)       == p # path
GenAfter(p)      == IF Changed(p) THEN generation + 1 ELSE generation
WaitingKept(p)   == waiting   \* mutant: the lists are not emptied
WaitingAfter(p)  == IF Changed(p) THEN [k \in Kinds |-> {}] ELSE waiting
ShownAfter(p)    == IF Changed(p) THEN [k \in Kinds |-> NoData] ELSE shown
ResetAfter(p, r) == IF Changed(p) THEN NoReset ELSE r
Abandoned(p)     == IF Changed(p) THEN UNION {waiting[k] : k \in Kinds} ELSE {}

SetPath(p) == /\ path' = p
              /\ generation' = GenAfter(p)
              /\ shown' = ShownAfter(p)
              /\ manualReset' = ResetAfter(p, manualReset)
              /\ shownReset' = ResetAfter(p, shownReset)
              /\ UNCHANGED resetRev

(* The refreshes in ks start for the path and the generation the actor now *)
(* has; each captures them and the revision of the manual reset.           *)
StartNotBusy(ks) ==   \* mutant: busy is not set with refreshing
    /\ refreshing' = [k \in Kinds |-> refreshing[k] \/ k \in ks]
    /\ task' = [k \in Kinds |-> IF k \in ks
                  THEN [gen |-> generation', path |-> path', rev |-> resetRev',
                        phase |-> "running", ok |-> FALSE, reset |-> NoReset]
                  ELSE task[k]]
    /\ UNCHANGED codexBusy
StartSameGen(ks) ==   \* mutant: a restart keeps the generation it replaces
    /\ refreshing' = [k \in Kinds |-> refreshing[k] \/ k \in ks]
    /\ codexBusy' = (codexBusy \/ "codex" \in ks)
    /\ task' = [k \in Kinds |-> IF k \in ks
                  THEN [gen |-> IF task[k] = NoTask THEN generation' ELSE task[k].gen,
                        path |-> path', rev |-> resetRev',
                        phase |-> "running", ok |-> FALSE, reset |-> NoReset]
                  ELSE task[k]]
Start(ks) ==
    /\ refreshing' = [k \in Kinds |-> refreshing[k] \/ k \in ks]
    /\ codexBusy' = (codexBusy \/ "codex" \in ks)
    /\ task' = [k \in Kinds |-> IF k \in ks
                  THEN [gen |-> generation', path |-> path', rev |-> resetRev',
                        phase |-> "running", ok |-> FALSE, reset |-> NoReset]
                  ELSE task[k]]

(* load_codex_accounts(None, 0), called by other handlers: it starts a     *)
(* refresh unless one runs, and its error is dropped.                      *)
CodexIf(cond) == IF cond /\ ~codexBusy /\ ~refreshing["codex"] THEN {"codex"} ELSE {}

-----------------------------------------------------------------------------
(* Handlers that start or join a refresh. *)

(* Notifiable<LoadCodexAccounts>, <LoadMuseAccounts>, <LoadZcodeAccounts>.  *)
(* The busy flags of Muse and ZCode are set and cleared together with      *)
(* their refreshing flags, so only Codex can meet the first guard.         *)
LoadAccounts(k) == \E i \in pending :
    LET p == sent[i].path
        rejected == k = "codex" /\ codexBusy /\ ~refreshing[k]
    IN
    /\ Receive(LoadSignal[k], i)
    /\ IF rejected
       THEN /\ answers' = Finish({i}, FALSE)
            /\ UNCHANGED actorVars
       ELSE /\ SetPath(p)
            /\ answers' = Finish(Abandoned(p), FALSE)
            /\ waiting' = [WaitingAfter(p) EXCEPT ![k] = @ \cup {i}]
            /\ Start(IF refreshing[k] THEN {} ELSE {k})
            /\ UNCHANGED <<configVars, opVars>>

(* Notifiable<RefreshRecent>. *)
RefreshRecent == \E i \in pending :
    LET p == sent[i].path IN
    /\ Receive("RefreshRecent", i)
    /\ \/ /\ busy \/ ~initialized
          /\ answers' = Finish({i}, TRUE)
          /\ UNCHANGED actorVars
       \/ /\ ~busy /\ initialized
          /\ SetPath(p)
          /\ answers' = Finish(Abandoned(p), FALSE)
          /\ waiting' = [WaitingAfter(p) EXCEPT
                           !["recent"] = @ \cup (IF sent[i].reply THEN {i} ELSE {})]
          /\ Start(CodexIf(Changed(p)) \cup
                   (IF refreshing["recent"] THEN {} ELSE {"recent"}))
          /\ UNCHANGED <<configVars, opVars>>

-----------------------------------------------------------------------------
(* Background refreshes and their completion. *)

(* effective_codex_manual_reset_at: a reset that lies in the past is       *)
(* removed from the metadata and reported as none.                         *)
EffectiveReset(h) == IF diskReset[h] \in elapsed THEN NoReset ELSE diskReset[h]

(* What reading the accounts of home h leaves of the metadata: a read that *)
(* fails may fail before or after it dropped an expired reset.             *)
ResetsAfterRead(h, ok) ==
    LET expired == [diskReset EXCEPT ![h] = EffectiveReset(h)]
    IN IF ok THEN {expired} ELSE {diskReset, expired}

(* The blocking part of a refresh: it reads the stores of the path it was  *)
(* started for.                                                            *)
RunRefresh(k) ==
    /\ task[k] # NoTask
    /\ task[k].phase = "running"
    /\ LET h == HomeOf[task[k].path] IN
       \E ok \in BOOLEAN :
         /\ task' = [task EXCEPT ![k].phase = "done", ![k].ok = ok,
                                 ![k].reset = IF ok /\ k = "codex"
                                              THEN EffectiveReset(h) ELSE NoReset]
         /\ IF k = "codex" THEN diskReset' \in ResetsAfterRead(h, ok)
                           ELSE UNCHANGED diskReset
    /\ UNCHANGED <<sent, pending, generation, path, refreshing, codexBusy, waiting,
                   shown, resetVars, configVars, opVars, md, elapsed, answers>>

(* The completion message of a finished refresh reaches the actor. *)
Completed(k) == /\ op = 0
                /\ task[k] # NoTask
                /\ task[k].phase = "done"
                /\ UNCHANGED <<sent, pending, diskVars>>

(* The sessions file was changed since the task was started. *)
NeverStale(k) == FALSE   \* mutant: no generation check
Stale(k) == task[k].gen # generation

(* complete_*_refresh when the path changed since the task was started:    *)
(* its result is dropped and the refresh starts again for the present      *)
(* path.  The recent one passes the guard of refresh_recent again.         *)
DropStale(k) ==   \* mutant: the stale result is dropped and that is all
    /\ Completed(k)
    /\ Stale(k)
    /\ refreshing' = [refreshing EXCEPT ![k] = FALSE]
    /\ codexBusy' = (codexBusy /\ k # "codex")
    /\ task' = [task EXCEPT ![k] = NoTask]
    /\ UNCHANGED <<generation, path, waiting, shown, resetVars, configVars, opVars,
                   answers>>
RestartRefresh(k) ==
    /\ Completed(k)
    /\ Stale(k)
    /\ UNCHANGED <<generation, path, waiting, shown, resetVars, configVars, opVars,
                   answers>>
    /\ IF k = "recent" /\ (busy \/ ~initialized)
       THEN /\ refreshing' = [refreshing EXCEPT ![k] = FALSE]
            /\ task' = [task EXCEPT ![k] = NoTask]
            /\ UNCHANGED codexBusy
       ELSE Start({k})

(* A reset edited after the fetch started wins over the fetched one. *)
FetchedReset(t) == t.reset   \* mutant: the fetched reset always wins
ResetOnCompletion(t) == IF t.rev # resetRev THEN manualReset ELSE t.reset

(* complete_*_refresh for the present path: the result is shown and every  *)
(* request that joined is answered.                                        *)
ApplyRefresh(k) ==
    /\ Completed(k)
    /\ ~Stale(k)
    /\ refreshing' = [refreshing EXCEPT ![k] = FALSE]
    /\ codexBusy' = (codexBusy /\ k # "codex")
    /\ task' = [task EXCEPT ![k] = NoTask]
    /\ shown' = IF task[k].ok THEN [shown EXCEPT ![k] = task[k].path] ELSE shown
    /\ IF task[k].ok /\ k = "codex"
       THEN /\ shownReset' = ResetOnCompletion(task[k])
            /\ manualReset' = ResetOnCompletion(task[k])
       ELSE UNCHANGED <<shownReset, manualReset>>
    /\ answers' = Finish(waiting[k], task[k].ok)
    /\ waiting' = [waiting EXCEPT ![k] = {}]
    /\ UNCHANGED <<generation, path, resetRev, configVars, opVars>>

-----------------------------------------------------------------------------
(* Handlers that await blocking work: a Begin and an End action each. *)

(* What every Begin does: select the path and occupy the actor. *)
Occupy(i) ==
    /\ SetPath(sent[i].path)
    /\ waiting' = WaitingAfter(sent[i].path)
    /\ answers' = Finish(Abandoned(sent[i].path), FALSE)
    /\ op' = i
    /\ opChanged' = Changed(sent[i].path)

(* What every End does: answer the request and release the actor. *)
Release(ok) == /\ op # 0
               /\ op' = 0
               /\ opChanged' = FALSE
               /\ answers' = Finish({op}, ok)
               /\ UNCHANGED <<sent, pending, generation, path, waiting, initialized,
                              elapsed>>

(* Notifiable<InitApp>, up to the await in load_config. *)
BeginInitApp == \E i \in pending :
    /\ Receive("InitApp", i)
    /\ Occupy(i)
    /\ initialized' = TRUE
    /\ busy' = TRUE
    /\ lastError' = FALSE
    /\ UNCHANGED <<refreshVars, items>>

(* Notifiable<LoadConfig>: before InitApp, or while another load or save   *)
(* runs, it is answered as done without touching anything.                 *)
BeginLoadConfig == \E i \in pending :
    /\ Receive("LoadConfig", i)
    /\ \/ /\ busy \/ ~initialized
          /\ answers' = Finish({i}, TRUE)
          /\ UNCHANGED actorVars
       \/ /\ ~busy /\ initialized
          /\ Occupy(i)
          /\ busy' = TRUE
          /\ lastError' = FALSE
          /\ UNCHANGED <<initialized, refreshVars, items>>

(* load_config_file: no file picked, or an absent file, is an empty list;   *)
(* any text parses to some list; reading may fail.                         *)
ReadList(p, ok) == IF ok THEN md[p] ELSE NoItems

(* The rest of load_config: read the file, then refresh the accounts. *)
EndLoad(ok) ==
    /\ op # 0 /\ sent[op].type \in {"InitApp", "LoadConfig"}
    /\ Release(ok)
    /\ items' = ReadList(path, ok)
    /\ lastError' = ~ok
    /\ busy' = FALSE
    /\ UNCHANGED <<shown, resetVars, md, diskReset>>
    /\ Start(CodexIf(TRUE))

(* Notifiable<SaveConfig>: items_json is parsed before anything changes. *)
BeginSaveConfig == \E i \in pending :
    /\ Receive("SaveConfig", i)
    /\ \/ /\ sent[i].arg = "malformed"
          /\ answers' = Finish({i}, FALSE)
          /\ UNCHANGED actorVars
       \/ /\ sent[i].arg # "malformed"
          /\ Occupy(i)
          /\ items' = sent[i].arg
          /\ lastError' = FALSE
          /\ busy' = TRUE
          /\ UNCHANGED <<initialized, refreshVars>>

(* save_config_file writes in place, so a failed write may leave the file  *)
(* torn.                                                                   *)
WriteList(p, c, ok) == IF ok THEN {[md EXCEPT ![p] = c]}
                             ELSE {md, [md EXCEPT ![p] = Torn]}

(* The rest of save_config. *)
EndSaveConfig(ok) ==
    /\ op # 0 /\ sent[op].type = "SaveConfig"
    /\ Release(ok)
    /\ md' \in WriteList(path, sent[op].arg, ok)
    /\ lastError' = ~ok
    /\ busy' = FALSE
    /\ UNCHANGED <<items, shown, resetVars, diskReset>>
    /\ Start(CodexIf(opChanged))

(* Notifiable<SetCodexManualReset> and <ClearCodexManualReset>. *)
BeginReset(t) == \E i \in pending :
    /\ Receive(t, i)
    /\ Occupy(i)
    /\ UNCHANGED <<configVars, refreshVars>>

ResetValue(i) == IF sent[i].type = "SetCodexManualReset" THEN sent[i].arg ELSE NoReset

(* The rest of update_codex_manual_reset.  A timestamp that lies in the    *)
(* past is refused; the metadata file is replaced as a whole or not at all.*)
EndReset(ok) ==
    /\ op # 0 /\ sent[op].type \in ResetOps
    /\ ok => sent[op].arg \notin elapsed
    /\ Release(ok)
    /\ IF ok THEN /\ resetRev' = resetRev + 1
                  /\ manualReset' = ResetValue(op)
                  /\ shownReset' = ResetValue(op)
                  /\ diskReset' = [diskReset EXCEPT ![HomeOf[path]] = ResetValue(op)]
             ELSE UNCHANGED <<resetVars, diskReset>>
    /\ UNCHANGED <<busy, items, lastError, shown, refreshVars, md>>

(* The account operations are refused while a refresh or another account   *)
(* operation runs, and for an invalid slot or name.                        *)
RefusedIfInvalid(i) == sent[i].arg = "invalid"   \* mutant: no busy check
Refused(i) == codexBusy \/ sent[i].arg = "invalid"

(* Notifiable<SaveCodexAccount>, <SwitchCodexAccount>,                     *)
(* <RenameCodexAccount>, <DeleteCodexAccount>.                             *)
BeginAccountOp(t) == \E i \in pending :
    /\ Receive(t, i)
    /\ \/ /\ Refused(i)
          /\ answers' = Finish({i}, FALSE)
          /\ UNCHANGED actorVars
       \/ /\ ~Refused(i)
          /\ Occupy(i)
          /\ codexBusy' = TRUE
          /\ UNCHANGED <<configVars, refreshing, task>>

(* The rest of the account operations: the accounts are listed again after *)
(* a success (codex_manual_reset_at is not).                               *)
EndAccountOp(ok) ==
    /\ op # 0 /\ sent[op].type \in AccountOps
    /\ Release(ok)
    /\ diskReset' \in ResetsAfterRead(HomeOf[path], ok)
    /\ shown' = IF ok THEN [shown EXCEPT !["codex"] = path] ELSE shown
    /\ shownReset' = IF ok THEN EffectiveReset(HomeOf[path]) ELSE shownReset
    /\ codexBusy' = FALSE
    /\ UNCHANGED <<busy, items, lastError, manualReset, resetRev, refreshing, task, md>>

-----------------------------------------------------------------------------
(* The actor's steps, by what they handle. *)
Handle == \/ \E k \in AccountKinds : LoadAccounts(k)
          \/ RefreshRecent
          \/ BeginInitApp
          \/ BeginLoadConfig
          \/ BeginSaveConfig
          \/ \E t \in ResetOps : BeginReset(t)
          \/ \E t \in AccountOps : BeginAccountOp(t)
Resume == \E ok \in BOOLEAN : \/ EndLoad(ok)
                              \/ EndSaveConfig(ok)
                              \/ EndReset(ok)
                              \/ EndAccountOp(ok)
Complete == \E k \in Kinds : RestartRefresh(k) \/ ApplyRefresh(k)
ActorStep == Handle \/ Resume \/ Complete

Next == \/ \E t \in SignalTypes : UiSends(t)
        \/ TimePasses
        \/ \E k \in Kinds : RunRefresh(k)
        \/ ActorStep

(* The actor's run loop and every blocking task make progress; the UI and  *)
(* the clock need not.                                                     *)
Fairness == WF_vars(ActorStep) /\ \A k \in Kinds : WF_vars(RunRefresh(k))

Spec == Init /\ [][Next]_vars /\ Fairness

-----------------------------------------------------------------------------
(* Safety. *)

(* Signals the actor still owes an answer. *)
Open == pending \cup ({op} \ {0}) \cup UNION {waiting[k] : k \in Kinds}

(* Every request is held in exactly one place (a queue, the awaiting       *)
(* handler, one refresh's list) until it is answered, and is answered      *)
(* exactly once: joining, abandoning on a path change, restarting and      *)
(* completing a refresh neither lose a request nor answer it twice.        *)
AnsweredOnce ==
    /\ \A i \in Ids : Len(answers[i]) =
         IF i \in DOMAIN sent /\ i \notin Open /\ sent[i].reply THEN 1 ELSE 0
    /\ op \notin pending
    /\ \A k \in Kinds : /\ waiting[k] \cap (pending \cup {op}) = {}
                        /\ \A l \in Kinds \ {k} : waiting[k] \cap waiting[l] = {}

(* A request waits only on a refresh that is under way and that belongs to *)
(* the sessions file the request was made for.                             *)
WaitersHaveRefresh ==
    \A k \in Kinds : /\ refreshing[k] <=> task[k] # NoTask
                     /\ waiting[k] # {} => refreshing[k]
                     /\ \A i \in waiting[k] : sent[i].path = path

(* Accounts and recent sessions on show were read for the selected file,   *)
(* whatever refreshes were in flight when the file changed (A, B, A too).  *)
ShownDataIsCurrent == \A k \in Kinds : shown[k] \in {NoData, path}

(* While an account operation rewrites snapshots and the live login, no    *)
(* refresh does (it also writes both).                                     *)
AccountOpsExclusive ==
    op # 0 /\ sent[op].type \in AccountOps => task["codex"] = NoTask

(* "A reset edited after this fetch started wins over its older UI         *)
(* snapshot": the reset on show is the stored one unless it has expired.   *)
ResetShownIsLatest ==
    shown["codex"] # NoData => \/ shownReset = diskReset[HomeOf[path]]
                               \/ {shownReset, diskReset[HomeOf[path]]} \subseteq
                                     elapsed \cup {NoReset}

(* Between two messages no busy flag is left set but that of a refresh, so *)
(* no load is skipped and no refresh is refused by a busy guard.           *)
NoGuardMetBusy == op = 0 => /\ ~busy
                            /\ codexBusy <=> refreshing["codex"]

(* Save requests for one file take effect in the order they were made: the *)
(* file holds what the last one carried, if that one was answered with ok. *)
LastSaveWins ==
    \A i \in DOMAIN sent :
       /\ sent[i].type = "SaveConfig" /\ answers[i] = <<TRUE>>
       /\ \A j \in DOMAIN sent : /\ j > i /\ sent[j].type = "SaveConfig"
                                 /\ sent[j].path = sent[i].path
                                 => j \in pending \cup {op}
       => md[sent[i].path] = sent[i].arg

(* A request that joined a refresh and is told it succeeded finds data of  *)
(* its own sessions file on show.                                          *)
JoinedAnswerIsForItsPath ==
    [][\A k \in Kinds : \A i \in waiting[k] :
         answers'[i] = <<TRUE>> => shown'[k] = sent[i].path]_vars

-----------------------------------------------------------------------------
(* Liveness. *)

(* Every request gets its answer, however often the file is switched under *)
(* a running refresh (AppState waits for it without a timeout).            *)
EveryRequestAnswered ==
    \A i \in Ids : (i \in DOMAIN sent /\ sent[i].reply) ~> answers[i] # <<>>

(* No refresh spins for ever: the busy indicator goes out. *)
RefreshEnds == \A k \in Kinds : refreshing[k] ~> ~refreshing[k]
=============================================================================
