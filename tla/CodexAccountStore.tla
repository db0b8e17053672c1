-------------------------- MODULE CodexAccountStore --------------------------
(***************************************************************************)
(* The saved Codex accounts on disk: the live credentials that the Codex   *)
(* command line uses (auth.json), one snapshot file per slot and the       *)
(* metadata file (context.rs 3821-5275, codex_refresh.rs).                 *)
(*                                                                         *)
(* A credential is the version of a grant: a login makes a grant, renewing *)
(* a grant with the server rotates it, and only its newest version is      *)
(* usable.  One worker runs at a time, a refresh or an account operation   *)
(* (ContextActor's AccountOpsExclusive); an edit of the manual reset runs  *)
(* beside it, and so does Codex itself, which is not part of this program. *)
(* Names are left out of the metadata: they only are written back.         *)
(***************************************************************************)
EXTENDS Naturals, Sequences, FiniteSets

CONSTANTS Slots, Accounts,     \* numbers
          NoCred, NoUsage,
          MaxGrants, MaxVer,   \* bounds: logins, renewals of each
          MaxOps, MaxEdits,    \* bounds: workers started, reset edits
          MaxFailures,         \* bound: failing file operations
          MaxCrashes           \* bound: crashes of the program

ASSUME StoreAssumption ==
    /\ Slots \subseteq Nat \ {0} /\ Accounts = 1..Cardinality(Accounts)
    /\ Accounts # {} /\ IsFiniteSet(Slots) /\ IsFiniteSet(Accounts)
    /\ {MaxGrants, MaxVer, MaxOps, MaxEdits, MaxFailures, MaxCrashes} \subseteq Nat
    /\ Cardinality(Accounts) <= MaxGrants /\ MaxVer >= 1
    /\ NoCred \notin [grant : 1..MaxGrants, ver : 1..MaxVer]
    /\ NoUsage \notin [key : Accounts, of : Accounts]

VARIABLES
    live,     \* auth.json
    snap,     \* <slot>.json of each slot
    meta,     \* the metadata file: manual reset, weekly usage per slot
    lock,     \* the holder of CODEX_METADATA_LOCK
    w,        \* the worker: where it is and what it has read (its logins are
              \* history: those made before a switch replaced auth.json)
    edit,     \* the thread that edits the reset
    shown,    \* the usage in the result of the last worker
    outcome,  \* how the last worker ended
    grants,   \* the server: account and newest version of each grant
    cli,      \* Codex is running
    used,     \* how much of each bound is used up
    lastReset,  \* history: the reset edited last, 0 when cleared or expired
    excused     \* history: accounts whose newest credential was given up

files == <<live, snap, meta>>
vars == <<files, lock, w, edit, shown, outcome, grants, cli, used, lastReset, excused>>

Creds == [grant : 1..MaxGrants, ver : 1..MaxVer]
Usage == [key : Accounts, of : Accounts]
Ops == {"list", "save", "switch", "rename", "delete"}

AcctOf(c) == grants[c.grant].acct
Valid(c) == c # NoCred /\ grants[c.grant].ver = c.ver
SameAccount(c, d) == c # NoCred /\ d # NoCred /\ AcctOf(c) = AcctOf(d)
(* The credentials of account a in the files, and those a worker is about  *)
(* to store.                                                               *)
Holders(a) ==
    {c \in {live} \cup {snap[s] : s \in Slots} \cup {b \in {w.bytes} : w.pc = "store"} :
       c # NoCred /\ AcctOf(c) = a}

Resting == [op |-> "list", pc |-> "idle", slot |-> 0, target |-> 0, live |-> NoCred,
            bytes |-> NoCred, todo |-> {}, read |-> [s \in Slots |-> 0], logins |-> 0,
            copy |-> [reset |-> 0, usage |-> [s \in Slots |-> NoUsage]]]

(* Credentials that some login has made. *)
Known == {c \in Creds : c.grant \in DOMAIN grants} \cup {NoCred}
Metadata == [reset : 0..MaxEdits, usage : [Slots -> Usage \cup {NoUsage}]]
Phases == {"idle", "prepare", "store", "meta.lock", "meta.write", "save", "remove", "undo",
           "resolve", "keep", "replace", "restore"}

FilesOK == live \in Known /\ snap \in [Slots -> Known] /\ meta \in Metadata
WorkerOK ==
    /\ w \in [op : Ops, pc : Phases, slot : Slots \cup {0}, target : Slots \cup {0},
              live : Known, bytes : Known, todo : SUBSET Slots,
              read : [Slots -> Accounts \cup {0}], copy : Metadata, logins : 0..MaxGrants]
    /\ w.pc = "store" => w.bytes # NoCred
    /\ w.op = "switch" \/ w.pc \in {"resolve", "keep", "replace"} => w.target \in Slots
EditOK == edit \in [pc : {"idle", "lock", "write"}, reset : 0..MaxEdits, copy : Metadata]
ServerOK == grants \in Seq([acct : Accounts, ver : 1..MaxVer]) /\ Len(grants) <= MaxGrants
RestOK ==
    /\ shown \in [Slots -> Usage \cup {NoUsage}]
    /\ outcome \in {"ok", "error", "unrestored"}
    /\ cli \in BOOLEAN /\ excused \subseteq Accounts /\ lastReset \in 0..MaxEdits
    /\ used \in [ops : 0..MaxOps, edits : 0..MaxEdits, failures : 0..MaxFailures,
                 crashes : 0..MaxCrashes]
LocksOK ==
    /\ lock \in {"none", "worker", "edit"}
    /\ (lock = "worker") <=> (w.pc = "meta.write")
    /\ (lock = "edit") <=> (edit.pc = "write")

TypeOK == FilesOK /\ WorkerOK /\ EditOK /\ ServerOK /\ RestOK /\ LocksOK

(* Every account has signed in once; either none of them is saved yet or   *)
(* each is, in the slot of its number.                                     *)
Init ==
    /\ grants = [a \in Accounts |-> [acct |-> a, ver |-> 1]]
    /\ live = [grant |-> 1, ver |-> 1]
    /\ snap \in {[s \in Slots |-> NoCred],
                 [s \in Slots |-> IF s \in Accounts THEN [grant |-> s, ver |-> 1] ELSE NoCred]}
    /\ meta = [reset |-> 0, usage |-> [s \in Slots |-> NoUsage]]
    /\ lock = "none" /\ w = Resting
    /\ edit = [pc |-> "idle", reset |-> 0, copy |-> meta]
    /\ shown = [s \in Slots |-> NoUsage] /\ outcome = "ok"
    /\ cli = FALSE /\ lastReset = 0 /\ excused = {}
    /\ used = [ops |-> 0, edits |-> 0, failures |-> 0, crashes |-> 0]

-----------------------------------------------------------------------------
(* Steps of the worker. *)

(* A file operation succeeds, or fails while the bound allows. *)
Outcome(ok) ==
    /\ ok \/ used.failures < MaxFailures
    /\ used' = IF ok THEN used ELSE [used EXCEPT !.failures = @ + 1]

(* Every operation ends with list_codex_account_metadata: the live         *)
(* credentials and the names of the snapshots are read first.              *)
Listing(saved) ==
    [Resting EXCEPT !.pc = "prepare", !.live = live,
                    !.todo = {s \in Slots : saved[s] # NoCred}]

Fails == w' = Resting /\ outcome' = "error"

BeginList ==
    /\ w.pc = "idle" /\ used.ops < MaxOps
    /\ used' = [used EXCEPT !.ops = @ + 1]
    /\ w' = Listing(snap)
    /\ UNCHANGED <<files, lock, edit, shown, outcome, grants, cli, lastReset, excused>>

(* prepare_codex_account_auth for the next slot.  The credentials of the   *)
(* live account are mirrored into its slot, others are renewed when they   *)
(* are about to expire (when that is, is left open).                       *)
NextSlots == {s \in w.todo : \A t \in w.todo : s <= t}

Mirror(s) == SameAccount(snap[s], w.live)

PrepareMirror ==
    \E s \in NextSlots, ok \in BOOLEAN :
      /\ w.pc = "prepare" /\ Mirror(s)
      /\ snap[s] = w.live => ok
      /\ Outcome(ok)
      /\ snap' = IF ok THEN [snap EXCEPT ![s] = w.live] ELSE snap
      /\ w' = [w EXCEPT !.todo = @ \ {s}, !.read[s] = IF ok THEN AcctOf(w.live) ELSE 0]
      /\ UNCHANGED <<live, meta, lock, edit, shown, outcome, grants, cli, lastReset, excused>>

PrepareFresh ==
    \E s \in NextSlots :
      /\ w.pc = "prepare" /\ ~Mirror(s)
      /\ w' = [w EXCEPT !.todo = @ \ {s},
                        !.read[s] = IF snap[s] = NoCred THEN 0 ELSE AcctOf(snap[s])]
      /\ UNCHANGED <<files, lock, edit, shown, outcome, grants, cli, used, lastReset, excused>>

(* refresh_with: the server rotates a valid grant, and the answer may be   *)
(* lost; an older version is rejected.                                     *)
PrepareRejected ==
    \E s \in NextSlots :
      /\ w.pc = "prepare" /\ ~Mirror(s)
      /\ snap[s] # NoCred /\ ~Valid(snap[s])
      /\ w' = [w EXCEPT !.todo = @ \ {s}]
      /\ UNCHANGED <<files, lock, edit, shown, outcome, grants, cli, used, lastReset, excused>>

PrepareRenew ==
    \E s \in NextSlots, ok \in BOOLEAN :
      LET c == snap[s] IN
      /\ w.pc = "prepare" /\ ~Mirror(s)
      /\ Valid(c) /\ c.ver < MaxVer
      /\ grants' = [grants EXCEPT ![c.grant].ver = @ + 1]
      /\ Outcome(ok)
      /\ w' = IF ok THEN [w EXCEPT !.pc = "store", !.slot = s, !.todo = @ \ {s},
                                   !.bytes = [c EXCEPT !.ver = @ + 1]]
              ELSE [w EXCEPT !.todo = @ \ {s}]
      /\ excused' = IF ok THEN excused ELSE excused \cup {AcctOf(c)}
      /\ UNCHANGED <<files, lock, edit, shown, outcome, cli, lastReset>>

(* save_snapshot_bytes of the renewed credentials. *)
StoreRenewed ==
    \E ok \in BOOLEAN :
      /\ w.pc = "store"
      /\ Outcome(ok)
      /\ snap' = IF ok THEN [snap EXCEPT ![w.slot] = w.bytes] ELSE snap
      /\ w' = [w EXCEPT !.pc = "prepare", !.slot = 0, !.bytes = NoCred,
                        !.read[w.slot] = IF ok THEN AcctOf(w.bytes) ELSE 0]
      /\ excused' = IF ok THEN excused ELSE excused \cup {AcctOf(w.bytes)}
      /\ UNCHANGED <<live, meta, lock, edit, shown, outcome, grants, cli, lastReset>>

(* The usage reads, up to three at a time, change nothing here: any of     *)
(* them may fail.  The worker then turns to the metadata.                  *)
ReadUsage ==
    /\ w.pc = "prepare" /\ w.todo = {}
    /\ \E failed \in SUBSET {s \in Slots : w.read[s] # 0} :
         w' = [w EXCEPT !.pc = "meta.lock",
                        !.read = [s \in Slots |-> IF s \in failed THEN 0 ELSE w.read[s]]]
    /\ UNCHANGED <<files, lock, edit, shown, outcome, grants, cli, used, lastReset, excused>>

(* lock_codex_metadata and read_codex_account_labels: every update of the  *)
(* metadata file is a read and a write under one lock.                     *)
LockIsFree == lock = "none"

(* The worker updates what the file says now, whatever it knew before. *)
BlankMeta == w.copy   \* mutant: an update starts from empty metadata
LatestMeta == meta

WorkerLocks ==
    /\ w.pc = "meta.lock"
    /\ LockIsFree
    /\ lock' = "worker"
    /\ w' = [w EXCEPT !.pc = "meta.write", !.copy = LatestMeta]
    /\ UNCHANGED <<files, edit, shown, outcome, grants, cli, used, lastReset, excused>>

(* apply_codex_weekly_usage_history: a zero reported for the same period   *)
(* is replaced by the usage remembered, if that is of the same account.    *)
AnyHistory(s) == w.copy.usage[s] # NoUsage   \* mutant: the account key is not compared
OwnHistory(s) == w.copy.usage[s] # NoUsage /\ w.copy.usage[s].key = w.read[s]

ShownUsage(s, zeros) ==
    IF w.read[s] = 0 THEN NoUsage
    ELSE [key |-> w.read[s],
          of |-> IF s \in zeros /\ OwnHistory(s) THEN w.copy.usage[s].of ELSE w.read[s]]

(* remember_codex_weekly_usage: kept while its reset lies ahead. *)
Remembered(s, zeros, ahead) ==
    IF w.read[s] = 0 THEN w.copy.usage[s]
    ELSE IF s \in ahead THEN ShownUsage(s, zeros) ELSE NoUsage

(* The end of list_codex_account_metadata: usage and expiry of the reset   *)
(* go into the latest metadata.                                            *)
MergeUsage ==
    /\ w.pc = "meta.write" /\ w.op \in {"list", "switch"}
    /\ lock' = "none"
    /\ w' = Resting
    /\ \E ok \in BOOLEAN, expired \in BOOLEAN, zeros, ahead \in SUBSET Slots :
         /\ Outcome(ok)
         /\ expired => w.copy.reset # 0
         /\ zeros \cup ahead \subseteq {s \in Slots : w.read[s] # 0}
         /\ meta' = IF ok THEN [reset |-> IF expired THEN 0 ELSE w.copy.reset,
                                usage |-> [s \in Slots |-> Remembered(s, zeros, ahead)]]
                    ELSE meta
         /\ lastReset' = IF ok /\ expired THEN 0 ELSE lastReset
         /\ shown' = IF ok THEN [s \in Slots |-> ShownUsage(s, zeros)] ELSE shown
         /\ outcome' = IF ok THEN "ok" ELSE "error"
    /\ UNCHANGED <<live, snap, edit, grants, cli, excused>>

-----------------------------------------------------------------------------
(* The account operations. *)

Begin(op) ==
    /\ w.pc = "idle" /\ used.ops < MaxOps
    /\ used' = [used EXCEPT !.ops = @ + 1]

(* The usable credentials of account a that a write to slot s replaces. *)
GivenUp(s, new) ==
    {a \in Accounts : /\ snap[s] # NoCred /\ Valid(snap[s]) /\ AcctOf(snap[s]) = a
                      /\ (new = NoCred \/ ~SameAccount(snap[s], new))}

(* save_codex_account_file: the live credentials, as read, go into slot s. *)
BeginSave(s) ==
    /\ Begin("save")
    /\ IF live = NoCred THEN Fails
       ELSE /\ w' = [Resting EXCEPT !.op = "save", !.pc = "save", !.slot = s, !.bytes = live,
                       !.target = IF SameAccount(snap[s], live) THEN s ELSE 0]
            /\ UNCHANGED outcome
    /\ UNCHANGED <<files, lock, edit, shown, grants, cli, lastReset, excused>>

SaveSnapshot ==
    /\ w.pc = "save"
    /\ \E ok \in BOOLEAN :
         /\ Outcome(ok)
         /\ IF ok THEN /\ snap' = [snap EXCEPT ![w.slot] = w.bytes]
                       /\ excused' = excused \cup GivenUp(w.slot, w.bytes)
                       /\ w' = [w EXCEPT !.pc = "meta.lock"]
                       /\ UNCHANGED outcome
            ELSE Fails /\ UNCHANGED <<snap, excused>>
    /\ UNCHANGED <<live, meta, lock, edit, shown, grants, cli, lastReset>>

(* rename_codex_account_file. *)
BeginRename(s) ==
    /\ Begin("rename")
    /\ IF snap[s] = NoCred THEN Fails
       ELSE /\ w' = [Resting EXCEPT !.op = "rename", !.pc = "meta.lock", !.slot = s]
            /\ UNCHANGED outcome
    /\ UNCHANGED <<files, lock, edit, shown, grants, cli, lastReset, excused>>

(* delete_codex_account_file: the snapshot goes first, then its metadata;  *)
(* if that fails the snapshot is put back.                                 *)
BeginDelete(s) ==
    /\ Begin("delete")
    /\ IF snap[s] = NoCred THEN Fails
       ELSE /\ w' = [Resting EXCEPT !.op = "delete", !.pc = "remove", !.slot = s,
                                    !.bytes = snap[s]]
            /\ UNCHANGED outcome
    /\ UNCHANGED <<files, lock, edit, shown, grants, cli, lastReset, excused>>

RemoveSnapshot ==
    /\ w.pc = "remove"
    /\ \E ok \in BOOLEAN :
         /\ Outcome(ok)
         /\ IF ok THEN /\ snap' = [snap EXCEPT ![w.slot] = NoCred]
                       /\ excused' = excused \cup GivenUp(w.slot, NoCred)
                       /\ w' = [w EXCEPT !.pc = "meta.lock"]
                       /\ UNCHANGED outcome
            ELSE Fails /\ UNCHANGED <<snap, excused>>
    /\ UNCHANGED <<live, meta, lock, edit, shown, grants, cli, lastReset>>

(* The metadata update of save, rename and delete: the usage of a slot is  *)
(* forgotten when another account moves in or the slot is deleted.         *)
WriteLabels ==
    /\ w.pc = "meta.write" /\ w.op \in {"save", "rename", "delete"}
    /\ lock' = "none"
    /\ \E ok \in BOOLEAN :
         /\ Outcome(ok)
         /\ meta' = IF ~ok THEN meta
                    ELSE IF w.op = "rename" \/ w.target = w.slot THEN w.copy
                    ELSE [w.copy EXCEPT !.usage[w.slot] = NoUsage]
         /\ IF ok THEN w' = Listing(snap) /\ UNCHANGED outcome
            ELSE IF w.op = "delete" THEN w' = [w EXCEPT !.pc = "undo"] /\ UNCHANGED outcome
            ELSE Fails
    /\ UNCHANGED <<live, snap, edit, shown, grants, cli, lastReset, excused>>

UndoDelete ==
    /\ w.pc = "undo"
    /\ Fails
    /\ \E ok \in BOOLEAN :
         /\ Outcome(ok)
         /\ snap' = IF ok THEN [snap EXCEPT ![w.slot] = w.bytes] ELSE snap
    /\ UNCHANGED <<live, meta, lock, edit, shown, grants, cli, lastReset, excused>>

(* switch_codex_account_file: refused while Codex runs. *)
BeginSwitch(s) ==
    /\ Begin("switch")
    /\ IF cli \/ live = NoCred THEN Fails
       ELSE /\ w' = [Resting EXCEPT !.op = "switch", !.pc = "resolve", !.target = s,
                                    !.live = live]
            /\ UNCHANGED outcome
    /\ UNCHANGED <<files, lock, edit, shown, grants, cli, lastReset, excused>>

(* resolve_codex_active_account_slot: the one slot with the account of     *)
(* auth.json, which is read once more.                                     *)
Owners == {s \in Slots : SameAccount(snap[s], live)}
AnyOwner == {s \in Slots : snap[s] # NoCred}   \* mutant: a remembered slot is trusted
ActiveSlots == {s \in Owners : Owners = {s}}

ResolveActive ==
    /\ w.pc = "resolve"
    /\ \/ /\ ActiveSlots = {} \/ (snap[w.target] = NoCred /\ w.target \notin ActiveSlots)
          /\ Fails
       \/ \E s \in ActiveSlots :
            /\ w.target = s \/ snap[w.target] # NoCred
            /\ w' = [w EXCEPT !.pc = "keep", !.slot = s,
                              !.bytes = IF w.target = s THEN w.live ELSE snap[w.target]]
            /\ UNCHANGED outcome
    /\ UNCHANGED <<files, lock, edit, shown, grants, cli, used, lastReset, excused>>

(* The current credentials go into their slot before they are replaced. *)
NothingKept(ok) == snap   \* mutant: the switch forgets the current credentials
KeptSnapshots(ok) == IF ok THEN [snap EXCEPT ![w.slot] = w.live] ELSE snap

KeepCurrent ==
    /\ w.pc = "keep"
    /\ \E ok \in BOOLEAN :
         /\ Outcome(ok)
         /\ snap' = KeptSnapshots(ok)
         /\ IF ok THEN w' = [w EXCEPT !.pc = "replace"] /\ UNCHANGED outcome ELSE Fails
    /\ UNCHANGED <<live, meta, lock, edit, shown, grants, cli, lastReset, excused>>

(* replace_live_auth_with_rollback.  A failed replacement may leave        *)
(* auth.json as it was or missing; it is put back from the backup.  The    *)
(* listing that follows a replacement is part of the switch: if it fails,  *)
(* so does the switch, and auth.json stays replaced.                       *)
ReplaceLive ==
    /\ w.pc = "replace"
    /\ \/ /\ Outcome(TRUE)
          /\ live' = w.bytes
          /\ w' = [Listing(snap) EXCEPT !.op = "switch", !.target = w.target,
                                        !.live = w.bytes, !.logins = Len(grants)]
          /\ UNCHANGED outcome
       \/ /\ Outcome(FALSE)
          /\ live' = live
          /\ Fails
       \/ /\ Outcome(FALSE)
          /\ live' \in {live, NoCred}
          /\ w' = [w EXCEPT !.pc = "restore", !.live = live]
          /\ UNCHANGED outcome
    /\ UNCHANGED <<snap, meta, lock, edit, shown, grants, cli, lastReset, excused>>

NoRestore(ok) == live   \* mutant: the rollback is left out
Restored(ok) == IF ok THEN w.live ELSE live

RestoreLive ==
    /\ w.pc = "restore"
    /\ \E ok \in BOOLEAN :
         /\ Outcome(ok)
         /\ live' = Restored(ok)
         /\ outcome' = IF ok THEN "error" ELSE "unrestored"
    /\ w' = Resting
    /\ UNCHANGED <<snap, meta, lock, edit, shown, grants, cli, lastReset, excused>>

-----------------------------------------------------------------------------
(* set_codex_manual_reset_at and clear_codex_manual_reset_at. *)
BeginEdit ==
    /\ edit.pc = "idle" /\ used.edits < MaxEdits
    /\ used' = [used EXCEPT !.edits = @ + 1]
    /\ \E r \in {0, used.edits + 1} : edit' = [edit EXCEPT !.pc = "lock", !.reset = r]
    /\ UNCHANGED <<files, lock, w, shown, outcome, grants, cli, lastReset, excused>>

EditLocks ==
    /\ edit.pc = "lock" /\ LockIsFree
    /\ lock' = "edit"
    /\ edit' = [edit EXCEPT !.pc = "write", !.copy = meta]
    /\ UNCHANGED <<files, w, shown, outcome, grants, cli, used, lastReset, excused>>

EditWrites ==
    /\ edit.pc = "write"
    /\ lock' = "none"
    /\ edit' = [edit EXCEPT !.pc = "idle"]
    /\ \E ok \in BOOLEAN :
         /\ Outcome(ok)
         /\ meta' = IF ok THEN [edit.copy EXCEPT !.reset = edit.reset] ELSE meta
         /\ lastReset' = IF ok THEN edit.reset ELSE lastReset
    /\ UNCHANGED <<live, snap, w, shown, outcome, grants, cli, excused>>

-----------------------------------------------------------------------------
(* Codex, and crashes. *)
CliStartsOrStops ==
    /\ cli' = ~cli
    /\ UNCHANGED <<files, lock, w, edit, shown, outcome, grants, used, lastReset, excused>>

(* What Codex writes while a switch is under way may be lost. *)
Raced == IF w.pc \in {"resolve", "keep", "replace", "restore"} THEN Accounts ELSE {}

CliRenews ==
    /\ cli /\ live # NoCred /\ Valid(live) /\ live.ver < MaxVer
    /\ grants' = [grants EXCEPT ![live.grant].ver = @ + 1]
    /\ live' = [live EXCEPT !.ver = @ + 1]
    /\ excused' = excused \cup Raced
    /\ UNCHANGED <<snap, meta, lock, w, edit, shown, outcome, cli, used, lastReset>>

CliLogin(a) ==
    /\ cli /\ Len(grants) < MaxGrants
    /\ grants' = Append(grants, [acct |-> a, ver |-> 1])
    /\ live' = [grant |-> Len(grants) + 1, ver |-> 1]
    /\ excused' = excused \cup Raced \cup
         {b \in Accounts : live # NoCred /\ Valid(live) /\ AcctOf(live) = b /\ b # a}
    /\ UNCHANGED <<snap, meta, lock, w, edit, shown, outcome, cli, used, lastReset>>

(* A crash loses the threads and the lock, never part of a file: snapshots *)
(* and metadata are written beside their file and moved into place.        *)
Crash ==
    /\ used.crashes < MaxCrashes
    /\ used' = [used EXCEPT !.crashes = @ + 1]
    /\ lock' = "none" /\ w' = Resting /\ edit' = [edit EXCEPT !.pc = "idle"]
    /\ shown' = [s \in Slots |-> NoUsage]
    /\ outcome' = IF w.pc = "restore" THEN "unrestored" ELSE "error"
    /\ excused' = excused \cup {a \in Accounts : w.pc = "store" /\ AcctOf(w.bytes) = a}
    /\ UNCHANGED <<files, grants, cli, lastReset>>

WorkerStep ==
    \/ PrepareMirror \/ PrepareFresh \/ PrepareRejected \/ PrepareRenew \/ StoreRenewed
    \/ ReadUsage \/ WorkerLocks \/ MergeUsage
    \/ SaveSnapshot \/ RemoveSnapshot \/ WriteLabels \/ UndoDelete
    \/ ResolveActive \/ KeepCurrent \/ ReplaceLive \/ RestoreLive

Next ==
    \/ BeginList
    \/ \E s \in Slots : BeginSave(s) \/ BeginRename(s) \/ BeginDelete(s) \/ BeginSwitch(s)
    \/ WorkerStep
    \/ BeginEdit \/ EditLocks \/ EditWrites
    \/ CliStartsOrStops \/ CliRenews
    \/ \E a \in Accounts : CliLogin(a)
    \/ Crash

Spec == Init /\ [][Next]_vars

-----------------------------------------------------------------------------
(* Every saved account stays usable: some file holds (or is about to) its  *)
(* credentials as the server accepts them, through refreshes, renewals, switches and      *)
(* their failures.  Excused are the accounts whose newest credentials the  *)
(* user or Codex replaced, a renewal whose answer was not stored, and what *)
(* Codex wrote during a switch.                                            *)
SavedAccountsUsable ==
    \A s \in Slots : snap[s] # NoCred /\ AcctOf(snap[s]) \notin excused =>
      \E c \in Holders(AcctOf(snap[s])) : Valid(c)

(* Usage is shown only for the account it was reported for, although a     *)
(* crash or failure may leave the usage of a slot's previous account.      *)
UsageIsOwn == \A s \in Slots : shown[s] # NoUsage => shown[s].of = shown[s].key

(* A reset edit is neither lost nor undone by a refresh or an account      *)
(* operation that runs beside it.                                          *)
ResetEditKept == meta.reset = lastReset

(* Only saving puts another account into an occupied slot: refresh and     *)
(* switch keep every slot's account (unless Codex signs in during the      *)
(* switch).                                                                *)
SlotsKeepTheirAccounts ==
    [][\A s \in Slots :
         /\ snap[s] # NoCred /\ snap'[s] # NoCred
         /\ grants[snap[s].grant].acct # grants'[snap'[s].grant].acct
         => w.op = "save" \/ excused = Accounts]_vars

(* A switch that fails leaves auth.json with the credentials it found, or, *)
(* if it had replaced them already, with credentials of the account that   *)
(* was asked for: never with another account's or none.  Excepted is a     *)
(* switch that reports it could not restore them, and what Codex writes    *)
(* itself: anything while they are replaced, a sign-in from then on.       *)
Replacing == w.pc \in {"keep", "replace", "restore"}
ListsSwitched == w.pc \in {"prepare", "store", "meta.lock", "meta.write"}

FailedSwitchKeepsLive ==
    [][w.op = "switch" /\ w'.pc = "idle" /\ outcome' = "error" =>
         /\ Replacing /\ excused # Accounts => live' = w.live
         /\ ListsSwitched /\ Len(grants) = w.logins => SameAccount(live', snap'[w.target])]_vars
=============================================================================
