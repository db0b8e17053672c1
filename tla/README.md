# Verification of Context

Context is a desktop application: a Flutter UI (`src/lib/`), a Rust backend
(`src/native/hub/`), a separate writer program for whiteboards
(`src/native/whiteboard_writer/`) and the platform runners. It keeps a markdown
list of AI coding sessions, lists the recent sessions of several providers,
manages Codex accounts, shows whiteboards that agents publish, and drives
terminal tabs and scheduled input.

This directory holds TLA+ modules translated from that source, TLC runs that
check them on small instances, and TLAPS proofs of what they promise for all
instances. `PROJECT.json` maps every definition to the lines it models and lists
components, runs, mutants, hazards, findings and theorems.

    tlc -config Board.cfg MCWhiteboard      # one run
    tlapm ContextActorProofs.tla            # one proof module

## 1. Inventory

### Parts, their state and their operations

| Part | State it keeps | Operations |
| --- | --- | --- |
| Backend actor (`actors/context.rs`) | selected file and its generation, items, busy flags, one refresh per kind with the requests that joined it, shown accounts and recents, the manual reset and its revision | one handler per signal, one completion per refresh |
| Codex account store (`context.rs`, `codex_refresh.rs`) | numbered slots of credentials, the live `auth.json`, metadata (labels, remembered usage, reset), a process-wide metadata lock | list with renewal and usage, save, rename, delete, switch with rollback, reset edits |
| Sessions list in the UI (`app_state.dart`) | items, dirty, revision, autosave timer, pending requests | edit, load, save, autosave, `onUiState`, `onOpFinished` |
| One-shot downgrade (`codex_downgrade.dart`) | a persisted policy (phase, trigger, deadline, base readings), a serial write queue, a deadline timer | arm, disarm, observe, follow, check deadline, execute, restore |
| Whiteboard writer (`whiteboard_writer/src/main.rs`) | `whiteboard.md`, the claim `.whiteboard-write.lock`, folders with markers | publish, drop, replace, remove, prune; retire and clean folders |
| Whiteboard inputs (`whiteboard_input.dart`, `whiteboard_drop.dart`) | drafts in windows; in a folder README, manifest, stored copies, lease | create, load, save, add, remove, older drop |
| Whiteboard history reads (`actors/whiteboard.rs`, `whiteboard.dart`) | queue of one history and one list per provider, one worker; a kept database connection, session locations, answers kept by log size | ask, replace, start, locate, query, snapshot, read the window at the end of a rollout, reply |
| Recent sessions of the providers (`recent_cache.rs` and a loader per provider) | lists kept with the stamps of the files they came from, headers of rollouts | load, track, read, keep, drop |
| Sessions file format (`context.rs`) | none | parse, normalise, render |
| Session list operations (`app_state.dart`, `home_screen.dart`) | the list and the index a dialog was opened for | add, rename, recolour, delete, drag sessions and groups |
| Terminal tabs and groups (`terminal_tabs.dart`) | last snapshot and whether it is complete, a group per window with members, pending and closed, launch reservations, closing and shrinking windows | follow, refresh, sync, open all or one, close, delete |
| Keep Alive (`terminal_schedules.dart`) | a job per group, claims of failed turns, one timer, a queue of saves | enable, stop, check due, restore missing tabs, recover, restore |
| Whiteboard reader and notifications (`whiteboard_file.dart`, `whiteboard_publications.dart`) | cache keyed by revision, pending events | read, invalidate, announce |
| Session control, Claude accounts, clipboard writer, elevated broker | small queues with timeouts | request, answer, time out, retry |
| Paths, previews | none | pure functions |
| UI, runners, packaging | presentation | - |

### How they interact

* The UI sends typed signals. Every signal type has its own queue and forwarder
  task on a single-threaded runtime, so signals of one type stay in order and
  signals of different types can overtake each other (`context.rs` 379-475).
  The actor handles one message at a time and answers with `UiState` snapshots
  and one `OpFinished` per request.
* Four refreshes run as background tasks beside the actor. Requests join a
  running one; a file switch makes it stale and it is started again.
* The account refresh, the account operations, reset edits and the Codex program
  itself share the credential files. Only metadata has a lock; the rest relies on
  the actor's busy flags and on re-reading before writing.
* Agents and windows start writer processes. Writers exclude each other with a
  claim file and fail closed; writers and windows share the input folders with
  *different* locks (marker and listing on one side, lease and second look on
  the other).
* The downgrade watches the account readings the actor publishes and sends
  settings through session control once.
* Two threads list recent sessions, the whiteboard's worker and the discovery of
  terminal tabs. They share one mutex, the stamp cache and the headers.
* Keep Alive, the page and the user all act on Windows Terminal, which nobody
  locks. What the app knows of it is its last snapshot; checks, clicks and the X
  await fresh ones, join a read that is under way, and reserve what they launch.

### What is hard here

Overtaking signals; results of an older generation; edits during a load or a
save; the order of saves; a timer dropped while busy; read-modify-write of
metadata around network calls; credentials the server rotates before they are
stored; a switch whose rollback fails; crashes between claim, save and send;
file protocols between processes that hold different locks; deletion that stops
half way; caches over files that other programs append to and replace; a
request replaced while it waits; a list edited through an index that may be stale;
windows that close tab by tab under a reader; a session opened twice; a turn
continued twice. Each is a `hazards` entry at its line. What makes each part correct is
stated by the properties in section 3; for the parts that are planned, by the
plan in section 6.

## 2. Modules and their code

| Module | Models | Correspondence |
| --- | --- | --- |
| `ContextActor` | the actor, its forwarders, refresh tasks and files | a variable per field of `ContextActor`; `Begin*`/`End*` are a handler before and after its blocking call, `RunRefresh` is the background task, `RestartRefresh`/`ApplyRefresh` its completion |
| `ContextActorProofs` | | nine theorems: types, refreshes, files, requests, saves, resets |
| `SessionSync` | `AppState`'s list and the actor serving it | UI and actor copies of path, items, busy, error; queues `mail` and `out` between them; a list is known by the file it came from, its last edit and whether it is whole; a save writes in place, fails before or fails half way |
| `SessionSyncProofs` | | three theorems |
| `CodexAccountStore` | slots, `auth.json`, metadata, provider, Codex program | a worker advances one file operation at a time (`w.pc`); every one may fail and the program may crash between two; the listing after a switch is part of the switch; a reset edit runs beside it under the metadata lock |
| `CodexAccountStoreProofs` | | six theorems |
| `CodexDowngrade` | `CodexResetDowngrade`, both instances | the controller is one record; a method up to its first await is one operator; a write carries the copy made when it was queued |
| `CodexDowngradeProofs` | | three theorems |
| `WhiteboardBoard` | what a board promises | abstract: each request changes the board at most once, by one function of the board of that moment |
| `Whiteboard` | writer processes and windows' inputs | a process advances one file operation at a time; folders have marker, lease, files and manifest, and a write in one may be cut short; windows follow `_lease`, `_validate`, `_store` and the saves |
| `WhiteboardProofs` | | five theorems: types, refinement, folders |
| `ResponseLog` | one rollout and `read_response_window` | records by what they do to the reader: a turn starts, answers, completes or aborts, a record too large; the last may be half written |
| `RecentCache` | `recent_cache.rs` and every provider's loader | a loader is the list of its `track` and `read` calls in the order of the source; a source's content is its version; a file that cannot be read is passed over or fails the load, as its loader does; two threads, one mutex |
| `WhiteboardReads` | `listen`, `PendingReads`, the worker and its three caches | extends both; the worker is one record that advances one await or file access at a time |
| `WhiteboardReadsProofs` | | three theorems: requests, recent sessions, histories |
| `SessionsFormat` | `parse_markdown_items`, `render_markdown_items`, the normalisations | functions over lines of words; a character that matters to the parser is a word of its own |
| `SessionList` | the editing operations of `AppState` and the dialogs that call them, writing and loading the file | extends `SessionsFormat`; the dialog keeps the index it was opened for; a write may be cut short after any line |
| `SessionListProofs` | | three theorems: groups, drags, files |
| `TerminalTabs` | `TerminalTabs`, Windows Terminal and its user | `snap`, `groups`, `reserved`, `closing`, `shrinking`, `opening` are its fields; a read lists processes when it begins and windows when it ends; each launch is begun, awaited, and accepted or refused |
| `TerminalSchedules` | `TerminalSchedules` and the page's actions | extends `TerminalTabs`; a check and an action in progress are records whose phase is what they await; completed futures resume first (`Ready`) |
| `TerminalSchedulesProofs` | | five theorems: claims, timers, switches off, launches, saved groups |
| `MC*` | instances for TLC | constants, symmetry, scenarios |

What the models abstract: names and payloads are members of small sets; status
texts, colours and formats are left out. A blocking call inside a handler of the
actor is one step with the handler's continuation, because the actor runs no
other handler in between; what that call does file by file is
`CodexAccountStore`. Quota percentages matter only as used or unused. The scan
limit of 256 folder entries, byte budgets of copies, symbolic links and `--init`
of the writer are left out. In `ContextActor` and `SessionSync` the
sessions file is written in one step that succeeds, fails before it touches the file, or
leaves it torn (`WriteList`, `CutShort`), as `fs::write` truncates before it writes; what
a torn file holds, and what that loads as, is `SessionList`.

* `ResponseLog`, `RecentCache`, `WhiteboardReads`: logs only grow, a completion may
  be recorded twice only in a row (as in the tests), and a database that is
  replaced has another creation time. The key of a cached list is its provider,
  because there is one sessions file. The 20 s after which the client stops
  waiting are not modelled: the backend does not know of them.
* `SessionsFormat`, `SessionList`: "|" stands for both characters a group header
  cannot hold, marks before a title and "&&" are words. `moveItemIntoGroup` and the
  group of a new session have no caller and are left out.
* `TerminalTabs`, `TerminalSchedules`: what the code times (20 s for a closing
  window, 2 minutes for a reservation, 2 s for a shrinking group, 15 minutes for
  a job) has passed or not, as the model chooses; only a window that closes does
  so within the 2 s. The part of a snapshot that is incomplete is empty, groups are
  saved at once, and the tabs of a group are launched in any order. What a launcher
  awaits (whether the app is elevated, the user's answer, the settings of Terminal) is
  one await, between `BeginLaunch` and `LaunchTab` or `RefuseLaunch`.

The instances keep a behaviour to one of a few scenarios (which signals, how many
of what, which fault), so one run covers several small cases instead of one that
is too large. Most modules draw their bounds from a constant set at the start;
`MCContextActor`, `MCCodexAccountStore` and `MCCodexDowngrade` restrict what
happens next, and every step they take is a step of the component's module.

## 3. Runs

| Run | Bounds | Checks |
| --- | --- | --- |
| `ctx_safe` | two files and "none" in one home; five menus: 4 signals of reset edits and Codex loads with time passing; 3 of those with account switches; 3 of start, load and save with two list contents; 3 of loads, recents, Codex refresh and save account; 3 of the other account kinds and operations | `AnsweredOnce` and `WaitersHaveRefresh` (a request is in one place until answered once); `JoinedAnswerIsForItsPath`; `ShownDataIsCurrent`; `ResetShownIsLatest`; `AccountOpsExclusive`; `NoGuardMetBusy`; `LastSaveWins` |
| `ctx_live` | 3 signals of start, recents, Codex load and save account, without symmetry | `EveryRequestAnswered`, `RefreshEnds` |
| `sync` | two files; 2 edits with 1 load, 2 saves and a background emission, or with 2 loads and 1 save; reads may fail, and writes, before they begin or half way | `EditsAreKept`, `FilesKeepTheirLists`, `QuietMeansSaved`, `EditsAreSaved` |
| `store` | two slots, two accounts, two workers, one failure, one crash; 3 logins with a renewal each, or 2 reset edits while Codex is quiet | `SavedAccountsUsable`, `UsageIsOwn`, `SlotsKeepTheirAccounts`, `FailedSwitchKeepsLive`, `ResetEditKept` |
| `downgrade` | clock to 2 (one quota window); Codex with two slots and accounts, 1 arming, 1 quota event, 1 switch or replacement, 3 readings; Claude with two keys, 2 quota events, 1 replacement; two files, both triggers, 2 armings, 2 restarts; one file with 1 failed write and 1 restart | `TypeOK` (with the exclusion of arm and disarm), `FiresOnlyOnReset`, `SentOnce`, `DeadlineIsMet` |
| `downgrade_claim` | 2 armings, 2 quota events, 3 readings, 1 failed write | `ClaimSavedFirst`: violated, finding 1 |
| `board` | two writers, two windows, one folder, two copies, at most two posts and one stored copy; 4 tasks with one exit or failure, or 3 tasks with a failure and a kill or an open file | `BoardSpec`, `EditedFilesStay`, `InputsAreReadable`, `CopiesAreOwned` |
| `board_live` | two writers, one window, up to three posts found on a board that keeps two, 3 tasks, no fault | `LeftInputsGo` |
| `board_retry` | one writer, one window, one copy opened elsewhere | `RetryCanFinish`: violated, finding 2 |
| `reads` | two rollouts, two turns, caches of one or two entries. Any log of up to 5 records and one more; 3 requests of two kinds and providers; a log that grows, moves, or whose database is replaced between 2 reads; a locked database and 2 failures; 2 listings while logs begin and grow; two threads; each provider's loader twice with a change and a failure | `SupersededByNewer`, `HistoryIsCurrent`, `RecentsAreCurrent`, `ReadsAreAnswered` |
| `sessions` | every file by hand of up to 3 of 12 lines; up to 3 edits of short lists, 2 of two groups with sessions in, between and behind them; writes cut short before or after a whole one | `GroupsAreFlat`, `FileLoadsAsSaved`, `DragsKeepMembers` |
| `tabs` | two sessions, windows, groups and files. A group kept alive: 3 toggles with a failed save and a restart; 2 failed turns over 3 checks, 2 failures and a restart; 2 presses of the X with a check; 2 changes of file; 3 closings and openings over 2 checks. Without Keep Alive: 3 openings and closings; a tab that closes by itself, then the window; 2 clicks that restore a group; 2 clicks around 2 openings or closings; each with a failure | `LaunchedOnce`, `SavedTabsStay`, `RecoveredOnce`, `StaysOff`, `AlwaysWatched` |

Why these bounds are enough to be of interest: a stale result needs one refresh
and one or two file switches (away, and back); an overtaken or lost save needs
two requests in flight; a lost edit of metadata needs one reader beside one
writer; a token is lost in one renewal and one crash; a repeated send needs one
restart, an undone disarm two; a race on a folder needs one writer between two
steps of one window, and a stale draft needs two windows; a stale cache needs one
change between a look and a read; a superseded request needs two more; a marker
out of place needs two groups and one drag; a group shrinks by one tab of two; a
session is opened twice by two clicks, or a click and a check, around one read; a turn is
continued twice over one failed save or restart. Each of these happens inside the
bounds, which the mutants confirm: every property of every passing
run has at least one plausible change of the code (a dropped guard, a stale copy,
a missing restore) under which TLC finds it violated in that same run.

Some properties name the exceptions the code really has instead of hiding them.
`FilesKeepTheirLists` records in `mixed` the five ways in which one file can
receive another's list (a save overtaken by a load, an edit or a save during a
load, a failed load over edits, an edit of a list that is only a part) and says there
is no sixth; it and `EditsAreKept` except a file that a failed save cut short.
`FailedSwitchKeepsLive` asks of a switch that fails after the replacement, in its listing,
that `auth.json` is the requested account's, and excepts Codex signing in by itself.
`CopiesAreOwned` excepts a manifest whose own write was cut short.
`SavedAccountsUsable` excuses an account whose newest credentials were replaced
by the user or by Codex, a renewal whose answer was never stored, and what Codex
writes during a switch. `SentOnce` excludes states after finding 1.
`RecentsAreCurrent` excepts sources a loader reads before it tracks them
(`TrackedLate`), files it does not track because a limit is reached, waits at
most `Rediscovery`, and lists a subagent whose header could not be read (`Untold`: it is
remembered as none until the rollout changes); `HistoryIsCurrent` allows a location to be `LocationTime` old, and a
history to have fewer answers than asked for if the largest window ended before them.
`FileLoadsAsSaved` speaks of names a file can hold (`Storable`), though no name may
cost a session, and for a write that was cut short also of names without a command in any
part of them (`SafelyCut`). `LaunchedOnce` ends
with two minutes in which the tab was not seen, counted from the reservation, and with a
read under way at the launch that still lists an earlier tab of the session. `SavedTabsStay` excepts tabs
asked for elsewhere, and those whose own launch, or the restoring of their group, was
not over when the window closed.
`StaysOff` and `AlwaysWatched` except a group whose switch failed to be saved and
put an older job back; and `StaysOff` is about launches that begin, because one that
awaits its launcher when the group is turned off is not taken back. All of these are real, and section 5 lists them.

Deadlock checking is off in the runs whose behaviours may end because the user
does nothing more and every bound is used up; `downgrade` checks it.

### Fairness

* `ContextActor`: weak fairness of the actor's loop and of each refresh task.
  The runtime polls ready tasks and the blocking calls return; the UI and the
  clock owe nothing.
* `SessionSync`: weak fairness of the autosave timer, delivery in both
  directions and the actor's load and save. The user owes nothing.
  `EditsAreSaved` is conditional on no error being shown, because after one
  the code waits for the user.
* `CodexDowngrade`: preference writes complete, requests are answered or time
  out (20 s in the client), due timers fire, time passes.
* `Whiteboard` (`board_live` only): a process or a task that has begun goes on,
  and somebody prunes again and again. Starting a writer is strongly fair
  because the model's pool of process names is finite and the system's is not.
  Removing an abandoned claim is left to the user and is not fair, so the
  liveness run has no kills.
* `WhiteboardReads`: weak fairness of the listener's task, of the worker with the
  load it makes, and of the tabs' thread. A mutex is passed on as it is released.
  Other programs owe nothing.
* None for the other runs: what `tabs`, `sessions`, `store` and `board` check is
  safety.

## 4. Proofs

Proved with TLAPS for every set of files, homes, contents, slots, accounts,
processes, windows, folders, sessions and groups and every bound, from the named
`ASSUME`s of the modules (`ConstantsAssumption`, `NoTaskAssumption`,
`SyncAssumption`, `StoreAssumption`, `DowngradeAssumption`, `WhiteboardAssumption`,
`RecentAssumption`, `ReadsAssumption`, `FormatAssumption`, `SessionListAssumption`, `TabsAssumption`,
`SchedulesAssumption`), which TLC evaluates in
every run of their modules. They say that bounds are numbers, that sets are finite where the
code counts their members, that a directory lists a file once, that there is a rollout and each begins as Codex
may have written it (`Written`), that a header in a sessions
file has an id (`normalize_group_id` makes one up for an empty name, `context.rs:5734`), that
an added session has a provider and an id, names and lines are lists of words, an id in lower
case is an id and stays as it is, providers are called by their names, and that
a name which means "none" is not one of the others. Type invariants that are proved are not in the runs again, except `TypeOK` of
`CodexDowngrade`, which also says that arming and disarming exclude each other.

* `ContextActorProofs`. A handler stores what its signal carries, so the types
  are inductive only together with `SignalsOK`: signals in flight carry payloads
  of their own type, and a save that is under way was parsed. `TypeCorrect` comes
  first. The inductive invariant behind the others (`RefreshInv`) says that a
  refresh runs exactly when its flag is set, that waiting requests were made for
  the selected file, that a task of the current generation was started for the
  selected file, that generations never exceed the current one, and which
  refresh or operation each busy flag stands for. From it follow `WaitersAreServed`, `ShownIsCurrent`, `SnapshotWritersExclude` and
  `BusyGuardsAreIdle`. The point of the generation clause: comparing paths alone
  would accept the result of a refresh after a switch away and back.
  Of requests, every handler does one of a few things (taken and answered at once,
  joined to a refresh, made the operation under way, released, applied), and the
  other four theorems look at those only.
  `RequestsAnsweredOnce`: a request is in the inbox, the operation, one waiting list
  or the answers. `LastSaveIsInTheFile`: saves leave the inbox in the order they were
  made, so the newest answered one is the last that wrote its file.
  `JoinedAnswersAreForTheirPath`: those who wait on a refresh wait for the selected
  file. `ResetOnShow` is about the data: a refresh that began before an edit of the
  reset carries an older count than the one on show, and the edit is applied to it.
* `SessionSyncProofs`. All three rest on a ledger (`Ledger`) of the requests: each has one
  number, is in the mail, with the actor or answered, and requests of one type are
  answered in the order they were sent. `EditsStay` (`Kept`): until a load is asked for, the
  newest edit is in the UI, and once the request that saves it is answered, in the
  file, unless a save that failed half way is recorded to have cut it off (`torn`).
  `ListsStayInTheirFiles`: what the UI, the mail and the actor call the list
  of a file was read from it (`Own`), as long as none of the recorded causes (`mixed`)
  has occurred; such a list is whole unless the file was cut short, and then an edit of it is
  one of these causes. `QuietIsSaved` needs all of it: what the UI shows is the last
  report of the actor or one edit later (`Same`), and each answer follows the report
  of its own request (`Told`), so with the queues empty UI, actor and file agree.
* `CodexAccountStoreProofs`. `StoreTypeCorrect` includes that the metadata lock is
  held exactly between a read and its write. `ResetEditsSurvive` strengthens
  `ResetEditKept` with the copies in flight: a worker or an editor that holds the
  lock has a copy of the metadata as it is on disk. `UsageStaysWithAccount` needs
  that the metadata, too, keeps the key of the account each usage was reported
  for, also where a crash has left the usage of a slot's former account.
  The other three rest on `CredInv`, about credentials: those in use are valid
  (`LiveValid`), two slots hold the same account only when it is the one in use
  (`OneSlot`), a saved account that is not in use has valid credentials unless the
  worker has just renewed them and is about to store them (`Fresh`), and what the
  worker holds is, at each of its steps, what these clauses will need at the next.
  The renewal is why: for one step the only valid credentials of an account are in
  the worker's hands. `SlotsStayTheirs` and `SwitchFailsSafe` are action properties. The
  latter follows the switch into its listing (`Aims`): until that has ended, `auth.json`
  has an account the requested slot has too, whatever Codex renews, unless somebody signs in.
* `CodexDowngradeProofs`. For `SentAtMostOnce` the policies in memory, on disk and in every
  queued save carry the number of an arming made so far (`Counted`). An arming whose
  settings were sent or whose disarm was saved is over, and no armed policy,
  wherever it is, belongs to one that is over; a claim is the last save queued, is of the
  arming that runs, and nothing is sent while it is queued (`OneShot`). That holds
  until a save of a reading fails and restores an older policy over a later one
  (`late`), the exception of the property. `FiresOnReset` needs an invariant about
  readings (`Traced`): the controller makes up none, and between any two that are kept
  for one account the quota was reset or has only been used up further.
* `WhiteboardProofs`. `TheBoardIsAtomic` is the refinement `BoardSpec`, step by step: of
  what a writer does, only the rename of the new `whiteboard.md` is a step of the
  abstract board, which is why a writer holds the lock from its read of the board to
  that rename (`BoardInv`) and has computed what it renames from the board there is.
  The other theorems are about folders, which windows and writers change under
  no common lock. The invariant (`FolderInv`) says what each may rely on at
  each step: a window past its lease has the only lease of a folder (`OneHolder`);
  a folder being made is on no board yet and has one maker, the window until it starts
  the writer and the writer until it publishes (`Made`, `OneMaker`); what a writer retires has
  left the board (`LeftBehind`), and is marked before it is listed (`Marked`); nobody edits a
  folder whose files are being deleted (`Apart`), since the writer looks for leases after
  it has marked and the window looks for the mark after it has leased. A stored copy is
  named before it is there, and a write that is cut short leaves a copy that is
  named already, or a manifest that counts as torn, which no cleanup accepts.
* `WhiteboardReadsProofs`. `RequestsKeepTheirPlaces` is `SupersededByNewer` for any
  number of requests, providers and sessions. Its invariant (`QueueInv`): a request
  in the inbox, the queue or the worker has not been answered and is in one of
  these places only, the inbox holds the latest requests in the order of asking,
  and so what is queued or worked on is older than all of it. Whatever a new
  request replaces is therefore older, and of its kind. The caches and the loading
  threads leave these places alone, one lemma per group of actions.
  `RecentsAreUpToDate` is `RecentsAreCurrent` for any providers, rollouts, limits and
  changes of the files. Its invariant (`RecentsInv`) is about versions, which only grow: a load
  sees a source at a version no older than when it was asked for, or finds it unreadable at one; a stamp it holds
  is no newer than the file; and, unless the source is one of `TrackedLate`, what it
  saw of a source is no older than its stamp (`Honest`), because the stamp was taken
  first. A kept result carries `Honest`, so when its stamps are those of the
  files, it shows them as they are. The work is in the lists of steps: lemmas on
  `ForEachFile` and on each provider's loader say which reads come after the track of
  their source, and that Codex looks at a header between the read of a rollout and
  its track; a source without a stamp had no room left for one, and none later.
  `HistoriesAreCurrent` is `HistoryIsCurrent`, which compares the reader's walk over the
  tail of a log with the answers of the whole of it. About the log, by the least
  record at which the claim fails: what a scan has kept after a record are the latest
  answers so far (`ScanInv`, `Shown`), though it has not seen what lies before its window,
  because Codex writes a turn's completions next to each other (`Written`): a completion
  that repeats none is of a new turn (`FreshTurn`), and one with a text is the latest answer
  of the log so far, or repeats it (`LastAnswer`). So a window shows the latest answers, and all of them if it
  begins with the file or is filled (`WindowShows`). About the worker (`HistoryInv`): what a
  cache holds was true of the disk when it was stored, and is still true of it later as long
  as the log has the size under which it is kept (`Later`, `KnownPlaces`, `KeptAnswers`).
* `TerminalSchedulesProofs`, for any number of groups, sessions, windows, checks, failing
  saves and restarts. `TurnsAreContinuedOnce` is `RecoveredOnce`. Looking at the claims
  in memory is not enough, because a restart forgets them. The invariant
  (`ClaimInv`): the check has at most one save under way and awaits it; what has been
  sent is claimed in memory, on disk and in every save still queued; a claim in
  hand is new, and is in the save that is awaited and in all that follow. So when
  that save has ended well, no older copy can take the claim off the disk again.
  `GroupsStayOff` (`StaysOff`) is about the switch of the page in the same way
  (`PageInv`): a job that was turned off is off in memory, on disk and in every save
  still queued (`OffEverywhere`), and one that is being turned off is off in its own save
  and in those after it (`TurningOff`); that the actions have numbers of their own
  tells which of them switched a group last. `OpeningInv` then ties an opening that
  requires a window to the job of the check that awaits it, whose job is on when it
  begins a launch or sends. `GroupsAreWatched` (`AlwaysWatched`) needs both: whoever ends a
  check or a switch sets the timer for what is then on. `TabsLaunchedOnce`
  (`LaunchedOnce`) is about what is known of a session that was launched or seen
  (`HeldInv`): either its launch is reserved, awaited or not, or it runs and both the snapshot
  and a read that is still wanted list it, and what does not run yet is in no read.
  `SavedTabsAreKept` (`SavedTabsStay`) is about tabs whose window closed and that nobody
  has opened again (`OwedInv`): the saved group lists them, and so does every opening
  that is to restore it. A read brings the saved groups up to date in a fold over the groups
  (`SyncedInTurn`); a group it takes for shrunk or adopted has a tab in sight, and what
  is owed has none.
  Three exceptions that the properties state were met here, in steps no run had
  reached: a read under way at a launch that lists an earlier tab of the session, a
  job put back by a failed save that is saved again before a restart, and a single tab
  whose window closes before the launch was seen.
* `SessionListProofs`, for files of any length and any edits. The list is the work of
  three folds: the parser, the normalisation of what it found, and the text written. They are
  unrolled line by line (`ParsedInTurn`, `RenderedInTurn`). `GroupsStayFlat`
  (`GroupsAreFlat`) follows from what the parser keeps at every line (`ParseOK`): the
  list so far is flat once the group that is open has been closed. The same holds of
  each piece an edit cuts out, inserts or moves (`PieceWhole`, `JoinedWhole`,
  `EmbeddedWhole`), if the place it goes to lies between groups, to which a drop of a group
  is snapped (`Snapped`). `DragsKeepTheMembers` (`DragsKeepMembers`) counts the
  sessions a group encloses, and counts add up over flat lists that are joined
  (`CountsJoined`).
  `FilesLoadAsSaved` (`FileLoadsAsSaved`) says that reader and writer of the format, two
  folds over lines with folds over the words of a line inside, undo one another. Its invariant
  (`FileInv`): items are well made (a session has a provider and an id, `Made`), and the
  file is what was written of a list, whole or cut (`SavedInv`). The text is laid out by
  item (`Laid`); after the lines of an item the parser has that item, no title, and the
  group it is in open (`After`). From it follow `WholeLoaded` and `CutLoaded`, where at most
  one item is left of which only the first lines, or words, are there; and, for
  names no file can hold, `IdsLoaded`: the line of a command adds its
  session whatever the lines before it were read as. A title that chains
  commands and is cut between them was met in this proof: no run had a name of
  that kind. `SafelyCut` excepts it, and section 5 lists it.

Only model-checked: all liveness, because fairness and `ENABLED` are outside the
prover's reach. Every safety property a passing run checks is a theorem. The induction
theorems of the library take an operator as parameter, which the provers cannot
instantiate; folds are reasoned about by the least index at which a claim fails
instead (`LeastOf`, from the library's `WFMin`).

## 5. Findings

1. **A failed save of a reading undoes a running downgrade**
   (`codex_downgrade.dart:317`, run `downgrade_claim`). `observe` saves a reading and,
   if that fails, sets the phase to failed without looking at what it is by then.
   If a later reading has started the action meanwhile, the controller stops
   being busy; the user can arm again, and the first action then sends the new
   arming's settings although their claim was not saved. `src/docs/GUIDE.md:236` says the
   claim is saved before settings are sent. It needs one failed write of the
   preferences at the right moment.
2. **A locked copy makes an input folder permanent**
   (`whiteboard_writer/src/main.rs:149`, run `board_retry`). Cleanup deletes the files
   of a retired folder in directory order, the manifest among them. If it then
   meets a stored copy that is open elsewhere it stops, and on the next attempt
   the copy is no longer named by a manifest, so the folder is refused for good.
   `main.rs:169` says such a file "can be retried by the next publisher".

Noted while modelling, without a run of their own:

* An app that exits while it edits an input leaves the lease file, after which the
  input cannot be edited and its folder is not cleaned; a folder whose retirement
  fails is not retired later.
* `read_sessions` of Codex, `claude_sessions` and Qwen's loader read the times of files
  before they `track` them, where the comment at `recent_cache.rs:105` expects the
  opposite ("Never associate data with a newer source stamp"): a change in between is
  not noticed until the next one (`TrackedLate`).
* A rollout whose header cannot be read or parsed counts as no subagent's, and that is
  remembered under its size and time (`whiteboard.rs:566-600`): the subagent stays in the
  list until its log changes. A file most loaders cannot read is left out of a list
  that is kept all the same.
* A failed save can leave part of a list in the sessions file (`context.rs:5292`), or of
  `.input.json` in an input (`whiteboard_input.dart:501`). The input's stored copies are then
  named by nobody: it can no longer be edited, nor its folder removed.
* When the listing that ends a switch fails (`context.rs:5172`), the switch is reported
  as failed although `auth.json` has been replaced.
* Turning Keep Alive off does not take back the launch a check has begun: whether the
  group is on is asked before `isElevated` and the settings of Terminal are awaited
  (`terminal_schedules.dart:305`, 61-85), so one tab of it may still open.
* `_moveGroupBlock` (`app_state.dart:1865`) subtracts the wrong length, so a group
  dragged down lands one row too low.
* A group whose name holds "|" or ">" loses its marker on the next load, and the
  branch that reports a malformed group line is never reached; a title with
  "&& codex resume x" loads as one more session, and one in which commands are chained
  can leave a session that was in no list if the write is cut inside it; a session without a
  name loads with the last characters of its id, less a "-" in front of them; leading "#", "*" and "-" of a title are lost.
* The rename dialog applies to its index even if the list was replaced meanwhile.
* `whiteboard_file.dart` 186-198: a refresh after a change event may join an older read
  and show the change only with the next event; an event during a read that fails
  is dropped.
* `ensureFresh` accepts a read that began before the click, and a read whose
  windows are incomplete, where `sessions` is the earlier snapshot: "Restore missing"
  can then open a tab that is open. A planned launch does not look again at what
  has been seen since. One that waits on a read of another file throws although
  the next read is under way.
* A tab clicked by itself and then with its group within two minutes is skipped, and
  is dropped from the saved group when the restored window adopts it, even if its
  launch failed. Restoring a group while its window still closes drops the
  tabs that were still open.
* A failed save of `setEnabled` puts the older job back over a newer change, so that a
  group turned off can go on; and it sets no timer, so that a job put back may
  not be checked.
* Jobs are never removed: after 32 groups no further one can be kept alive.

## 6. Plan

Done: `ContextActor`, `SessionSync`, `CodexAccountStore`, `CodexDowngrade`,
`Whiteboard` with its abstraction, `WhiteboardReads` with the caches below it,
`SessionList` with the file's format, `TerminalTabs` and `TerminalSchedules`, and 36
theorems. Next, in order:

1. `WhiteboardReader`: no read begun before an invalidation fills the cache, the
   last change of the board is shown and announced once.
2. `ClipboardWriter` and the queues of session control and Claude accounts: the
   newest request wins, every request completes once, and an answer after the
   20 s is dropped.

## 7. Not modelled

The user interface (layout, focus, rendering: what it asks of the parts above is
an input of the models, and the actions of the page on terminal groups are part of
`TerminalSchedules`), the platform runners and packaging (generated code and
plain I/O), the parsing of provider transcripts, tokens and usage answers (formats
outside the repository), window placement and path translation (no state worth a
model). Of the parts that are modelled: which tab a title belongs to, sessions whose
ID is unknown, distributions, renaming a group, the limits of 32 groups and jobs,
64 tabs and 4096 claims; the answers of providers other than Codex in the history;
the append cache of Kimi's index (`kimi_index.rs`; the index is one source with one
version) and the `opencode` command that is asked where there is no database
(`context.rs` 2947-2973);
token parsing and usage formats; link handling and byte budgets of inputs. The
elevated broker is C++ around named pipes and processes, mostly I/O. The parts
listed as planned above are not modelled yet.
