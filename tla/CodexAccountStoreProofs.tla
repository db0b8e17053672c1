----------------------- MODULE CodexAccountStoreProofs -----------------------
(***************************************************************************)
(* Proofs about CodexAccountStore, for any slots, accounts and bounds.     *)
(*                                                                         *)
(* ResetEditKept and UsageIsOwn are not inductive: a writer puts back the  *)
(* copy of the metadata it read before, so the invariant must say that the *)
(* copy of whoever holds the lock still equals the file, and that all the  *)
(* usage remembered in it is attributed to the account it is about.  The   *)
(* invariant for the credentials is described below, before its parts.     *)
(***************************************************************************)
EXTENDS CodexAccountStore, FiniteSetTheorems, TLAPS

Attributed(u) == \A s \in Slots : u[s] # NoUsage => u[s].of = u[s].key

(* The copy of the holder of the lock is the file. *)
Copies ==
    /\ w.pc = "meta.write" => w.copy = meta
    /\ edit.pc = "write" => edit.copy = meta

MetaInv == Copies /\ Attributed(meta.usage) /\ Attributed(shown) /\ ResetEditKept

(* A sequence is a function on its indices. *)
LEMMA SeqIsFunction ==
    ASSUME NEW S, NEW q \in Seq(S)
    PROVE  DOMAIN q = 1..Len(q) /\ q \in [1..Len(q) -> S] /\ Len(q) \in Nat
  OBVIOUS

LEMMA FunctionIsSeq ==
    ASSUME NEW S, NEW n \in Nat, NEW f \in [1..n -> S]
    PROVE  f \in Seq(S) /\ Len(f) = n
  OBVIOUS

(* Accounts and validity of credentials are well typed. *)
LEMMA AcctType ==
    ASSUME ServerOK, NEW c \in Known, c # NoCred
    PROVE  AcctOf(c) \in Accounts /\ c.grant \in 1..Len(grants) /\ c \in Creds
  <1>1. c \in Creds /\ c.grant \in DOMAIN grants
    BY DEF Known
  <1>2. DOMAIN grants = 1..Len(grants)
    BY SeqIsFunction DEF ServerOK
  <1>3. grants[c.grant] \in [acct : Accounts, ver : 1..MaxVer]
    BY <1>1, <1>2, SeqIsFunction DEF ServerOK
  <1> QED BY <1>1, <1>2, <1>3 DEF AcctOf

LEMMA NoCredKnown == NoCred \in Known
  BY DEF Known

(* The worker at rest, and one that starts to list the accounts. *)
LEMMA RestingType ==
    /\ Resting \in [op : Ops, pc : Phases, slot : Slots \cup {0}, target : Slots \cup {0},
                    live : Known, bytes : Known, todo : SUBSET Slots,
                    read : [Slots -> Accounts \cup {0}], copy : Metadata, logins : 0..MaxGrants]
    /\ Resting.pc = "idle" /\ Resting.op = "list"
  <1>1. [reset |-> 0, usage |-> [s \in Slots |-> NoUsage]] \in Metadata
    BY StoreAssumption DEF Metadata
  <1>2. [s \in Slots |-> 0] \in [Slots -> Accounts \cup {0}]
    OBVIOUS
  <1>3. 0 \in 0..MaxGrants
    BY StoreAssumption
  <1> QED BY <1>1, <1>2, <1>3, NoCredKnown DEF Resting, Ops, Phases

(* The worker that lists the accounts at the end of a switch.             *)
Switched == [Listing(snap) EXCEPT !.op = "switch", !.target = w.target, !.live = w.bytes,
                                  !.logins = Len(grants)]

LEMMA ListingType ==
    ASSUME FilesOK
    PROVE  /\ Listing(snap) \in
                [op : Ops, pc : Phases, slot : Slots \cup {0}, target : Slots \cup {0},
                 live : Known, bytes : Known, todo : SUBSET Slots,
                 read : [Slots -> Accounts \cup {0}], copy : Metadata, logins : 0..MaxGrants]
           /\ Listing(snap).pc = "prepare" /\ Listing(snap).op = "list"
  <1> DEFINE S == {s \in Slots : snap[s] # NoCred}
  <1>1. S \in SUBSET Slots /\ live \in Known /\ "prepare" \in Phases
    BY DEF FilesOK, Phases
  <1>2. Listing(snap) = [Resting EXCEPT !.pc = "prepare", !.live = live, !.todo = S]
    BY DEF Listing
  <1> HIDE DEF S
  <1> QED BY <1>1, <1>2, RestingType

LEMMA OutcomeType ==
    ASSUME RestOK, NEW ok \in BOOLEAN, Outcome(ok)
    PROVE  used' \in [ops : 0..MaxOps, edits : 0..MaxEdits, failures : 0..MaxFailures,
                      crashes : 0..MaxCrashes]
  <1> DEFINE Bounds == [ops : 0..MaxOps, edits : 0..MaxEdits, failures : 0..MaxFailures,
                        crashes : 0..MaxCrashes]
  <1>1. used \in Bounds
    BY DEF RestOK
  <1>2. used' = used \/ (used.failures < MaxFailures /\ used' = [used EXCEPT !.failures = @ + 1])
    BY DEF Outcome
  <1>3. CASE used' = used
    BY <1>1, <1>3
  <1>4. CASE used.failures < MaxFailures /\ used' = [used EXCEPT !.failures = @ + 1]
    <2>1. used.failures + 1 \in 0..MaxFailures
      BY <1>1, <1>4, StoreAssumption
    <2> QED BY <1>1, <1>4, <2>1
  <1> QED BY <1>2, <1>3, <1>4

(* The parts of the type invariant that a step leaves alone. *)
LEMMA Kept ==
    ASSUME TypeOK
    PROVE  /\ UNCHANGED <<live, snap, meta, grants>> => FilesOK'
           /\ UNCHANGED <<w, grants>> => WorkerOK'
           /\ UNCHANGED edit => EditOK'
           /\ UNCHANGED grants => ServerOK'
           /\ UNCHANGED <<shown, outcome, cli, excused, lastReset, used>> => RestOK'
           /\ UNCHANGED grants => Known' = Known
  <1>1. UNCHANGED grants => Known' = Known
    BY DEF Known
  <1>2. UNCHANGED <<live, snap, meta, grants>> => FilesOK'
    BY <1>1 DEF TypeOK, FilesOK
  <1>3. UNCHANGED <<w, grants>> => WorkerOK'
    BY <1>1 DEF TypeOK, WorkerOK
  <1>4. UNCHANGED edit => EditOK'
    BY DEF TypeOK, EditOK
  <1>5. UNCHANGED grants => ServerOK'
    BY DEF TypeOK, ServerOK
  <1>6. UNCHANGED <<shown, outcome, cli, excused, lastReset, used>> => RestOK'
    BY DEF TypeOK, RestOK
  <1> QED BY <1>1, <1>2, <1>3, <1>4, <1>5, <1>6
-----------------------------------------------------------------------------
(* One lemma per group of actions: each preserves the type invariant. *)

LEMMA ListTypes ==
    ASSUME TypeOK, BeginList \/ PrepareMirror \/ PrepareFresh \/ PrepareRejected \/ ReadUsage
    PROVE  TypeOK'
  <1>1. CASE BeginList
    <2>1. WorkerOK'
      <3>1. w' = Listing(snap) /\ Known' = Known
        BY <1>1, Kept DEF BeginList
      <3>2. w'.pc = "prepare" /\ w'.op = "list"
        BY <3>1, ListingType DEF TypeOK
      <3>3. w' \in [op : Ops, pc : Phases, slot : Slots \cup {0}, target : Slots \cup {0},
                     live : Known, bytes : Known, todo : SUBSET Slots,
                     read : [Slots -> Accounts \cup {0}], copy : Metadata, logins : 0..MaxGrants]
        BY <3>1, ListingType DEF TypeOK
      <3> QED BY <3>1, <3>2, <3>3 DEF WorkerOK
    <2>2. RestOK'
      <3>1. UNCHANGED <<shown, outcome, cli, excused, lastReset>>
        BY <1>1 DEF BeginList
      <3>2. used.ops + 1 \in 0..MaxOps /\ used' = [used EXCEPT !.ops = used.ops + 1]
        BY <1>1, StoreAssumption DEF BeginList, RestOK, TypeOK
      <3>3. used' \in [ops : 0..MaxOps, edits : 0..MaxEdits, failures : 0..MaxFailures,
                       crashes : 0..MaxCrashes]
        BY <3>2 DEF RestOK, TypeOK
      <3> QED BY <3>1, <3>3 DEF RestOK, TypeOK
    <2>3. LocksOK'
      <3>1. UNCHANGED <<lock, edit>> /\ w.pc = "idle"
        BY <1>1 DEF BeginList
      <3>2. w'.pc = "prepare"
        BY <1>1, ListingType DEF BeginList, TypeOK
      <3> QED BY <3>1, <3>2 DEF LocksOK, TypeOK
    <2> QED BY <1>1, <2>1, <2>2, <2>3, Kept DEF BeginList, TypeOK, files
  <1>2. CASE PrepareMirror
    <2> PICK s \in NextSlots, ok \in BOOLEAN : PrepareMirror!(s, ok)
      BY <1>2 DEF PrepareMirror
    <2>1. s \in Slots /\ w.live # NoCred /\ w.live \in Known /\ AcctOf(w.live) \in Accounts
      BY AcctType DEF NextSlots, Mirror, SameAccount, TypeOK, WorkerOK
    <2>2. FilesOK'
      BY <2>1, Kept DEF FilesOK, TypeOK
    <2>3. WorkerOK'
      BY <2>1, Kept DEF WorkerOK, TypeOK
    <2>4. RestOK'
      BY OutcomeType DEF RestOK, TypeOK
    <2>5. LocksOK'
      BY DEF LocksOK, TypeOK, WorkerOK
    <2> QED BY <2>2, <2>3, <2>4, <2>5, Kept DEF TypeOK
  <1>3. CASE PrepareFresh
    <2> PICK s \in NextSlots : PrepareFresh!(s)
      BY <1>3 DEF PrepareFresh
    <2>1. s \in Slots /\ (snap[s] # NoCred => AcctOf(snap[s]) \in Accounts)
      BY AcctType DEF NextSlots, TypeOK, WorkerOK, FilesOK
    <2>3. WorkerOK'
      BY <2>1, Kept DEF WorkerOK, TypeOK
    <2>5. LocksOK'
      BY DEF LocksOK, TypeOK, WorkerOK
    <2> QED BY <2>3, <2>5, Kept DEF TypeOK, files
  <1>4. CASE PrepareRejected
    <2> PICK s \in NextSlots : PrepareRejected!(s)
      BY <1>4 DEF PrepareRejected
    <2>3. WorkerOK'
      BY Kept DEF WorkerOK, TypeOK
    <2>5. LocksOK'
      BY DEF LocksOK, TypeOK, WorkerOK
    <2> QED BY <2>3, <2>5, Kept DEF TypeOK, files
  <1>5. CASE ReadUsage
    <2> PICK failed \in SUBSET {s \in Slots : w.read[s] # 0} :
          w' = [w EXCEPT !.pc = "meta.lock",
                         !.read = [s \in Slots |-> IF s \in failed THEN 0 ELSE w.read[s]]]
      BY <1>5 DEF ReadUsage
    <2>1. [s \in Slots |-> IF s \in failed THEN 0 ELSE w.read[s]] \in [Slots -> Accounts \cup {0}]
      BY DEF TypeOK, WorkerOK
    <2>3. WorkerOK'
      BY <1>5, <2>1, Kept DEF WorkerOK, TypeOK, Phases, ReadUsage
    <2>5. LocksOK'
      BY <1>5 DEF LocksOK, TypeOK, WorkerOK, ReadUsage
    <2> QED BY <1>5, <2>3, <2>5, Kept DEF TypeOK, files, ReadUsage
  <1> QED BY <1>1, <1>2, <1>3, <1>4, <1>5

LEMMA RenewTypes ==
    ASSUME TypeOK, PrepareRenew
    PROVE  TypeOK'
  <1> PICK s \in NextSlots, ok \in BOOLEAN : PrepareRenew!(s, ok)
    BY DEF PrepareRenew
  <1> DEFINE c == snap[s]
             d == [c EXCEPT !.ver = @ + 1]
  <1>1. s \in Slots /\ c \in Known /\ c # NoCred
    BY DEF NextSlots, TypeOK, WorkerOK, FilesOK, Valid
  <1>2. AcctOf(c) \in Accounts /\ c.grant \in 1..Len(grants) /\ c \in Creds
    BY <1>1, AcctType DEF TypeOK
  <1>3. c.ver = grants[c.grant].ver /\ c.ver < MaxVer
    BY DEF Valid
  <1>4. DOMAIN grants = 1..Len(grants) /\ grants \in [1..Len(grants) -> [acct : Accounts, ver : 1..MaxVer]]
    <2>1. grants \in Seq([acct : Accounts, ver : 1..MaxVer])
      BY DEF TypeOK, ServerOK
    <2> QED BY <2>1, SeqIsFunction
  <1>5. grants' \in [1..Len(grants) -> [acct : Accounts, ver : 1..MaxVer]]
    <2>1. c.ver + 1 \in 1..MaxVer
      <3>1. MaxVer \in Nat
        BY StoreAssumption
      <3>2. c.ver \in 1..MaxVer
        BY <1>2 DEF Creds
      <3> HIDE DEF c
      <3> QED BY <1>3, <3>1, <3>2
    <2>2. grants[c.grant] \in [acct : Accounts, ver : 1..MaxVer]
      BY <1>2, <1>4
    <2>3. [grants[c.grant] EXCEPT !.ver = @ + 1] \in [acct : Accounts, ver : 1..MaxVer]
      BY <1>3, <2>1, <2>2
    <2>4. grants' = [grants EXCEPT ![c.grant] = [grants[c.grant] EXCEPT !.ver = @ + 1]]
      OBVIOUS
    <2> QED BY <1>4, <2>3, <2>4
  <1>6. ServerOK' /\ DOMAIN grants' = DOMAIN grants
    BY <1>4, <1>5 DEF TypeOK, ServerOK
  <1>7. Known' = Known
    BY <1>6 DEF Known
  <1>8. d \in Creds /\ d.grant = c.grant
    BY <1>2, <1>3, StoreAssumption DEF Creds
  <1>9. d \in Known /\ d # NoCred
    BY <1>2, <1>4, <1>8, StoreAssumption DEF Known, Creds
  <1> HIDE DEF d
  <1>10. WorkerOK'
    BY <1>1, <1>7, <1>9 DEF TypeOK, WorkerOK, Phases, d
  <1>11. FilesOK'
    BY <1>7 DEF TypeOK, FilesOK, files
  <1>12. RestOK'
    BY <1>2, OutcomeType DEF TypeOK, RestOK
  <1>13. LocksOK'
    BY DEF TypeOK, LocksOK, WorkerOK
  <1> QED BY <1>6, <1>10, <1>11, <1>12, <1>13, Kept DEF TypeOK

LEMMA StoreTypes ==
    ASSUME TypeOK, StoreRenewed \/ WorkerLocks
    PROVE  TypeOK'
  <1>1. CASE StoreRenewed
    <2> PICK ok \in BOOLEAN : StoreRenewed!(ok)
      BY <1>1 DEF StoreRenewed
    <2>1. w.bytes \in Known /\ w.bytes # NoCred /\ AcctOf(w.bytes) \in Accounts
      BY AcctType DEF TypeOK, WorkerOK
    <2>2. FilesOK'
      BY <2>1, Kept DEF FilesOK, TypeOK
    <2>3. WorkerOK'
      BY <2>1, Kept, NoCredKnown DEF WorkerOK, TypeOK, Phases
    <2>4. RestOK'
      BY <2>1, OutcomeType DEF RestOK, TypeOK
    <2>5. LocksOK'
      BY DEF LocksOK, TypeOK, WorkerOK
    <2> QED BY <2>2, <2>3, <2>4, <2>5, Kept DEF TypeOK
  <1>2. CASE WorkerLocks
    <2>1. WorkerOK'
      BY <1>2, Kept DEF WorkerLocks, LatestMeta, WorkerOK, TypeOK, Phases, FilesOK
    <2>2. LocksOK'
      BY <1>2 DEF WorkerLocks, LockIsFree, LocksOK, WorkerOK, TypeOK
    <2> QED BY <1>2, <2>1, <2>2, Kept DEF WorkerLocks, TypeOK, files
  <1> QED BY <1>1, <1>2

(* The metadata writes. *)
LEMMA ShownType ==
    ASSUME TypeOK, NEW s \in Slots, NEW zeros \in SUBSET Slots, NEW ahead \in SUBSET Slots
    PROVE  /\ ShownUsage(s, zeros) \in Usage \cup {NoUsage}
           /\ Remembered(s, zeros, ahead) \in Usage \cup {NoUsage}
  <1>1. w.read[s] \in Accounts \cup {0} /\ w.copy.usage[s] \in Usage \cup {NoUsage}
    BY DEF TypeOK, WorkerOK, Metadata
  <1>2. w.copy.usage[s] # NoUsage => w.copy.usage[s].of \in Accounts
    BY <1>1 DEF Usage
  <1>3. ShownUsage(s, zeros) \in Usage \cup {NoUsage}
    BY <1>1, <1>2 DEF ShownUsage, OwnHistory, Usage
  <1> QED BY <1>1, <1>3 DEF Remembered

LEMMA MergeTypes ==
    ASSUME TypeOK, MergeUsage
    PROVE  TypeOK'
  <1> PICK ok \in BOOLEAN, expired \in BOOLEAN, zeros \in SUBSET Slots, ahead \in SUBSET Slots :
         /\ Outcome(ok)
         /\ meta' = IF ok THEN [reset |-> IF expired THEN 0 ELSE w.copy.reset,
                                usage |-> [s \in Slots |-> Remembered(s, zeros, ahead)]]
                    ELSE meta
         /\ lastReset' = IF ok /\ expired THEN 0 ELSE lastReset
         /\ shown' = IF ok THEN [s \in Slots |-> ShownUsage(s, zeros)] ELSE shown
         /\ outcome' = IF ok THEN "ok" ELSE "error"
    BY DEF MergeUsage
  <1>1. [s \in Slots |-> Remembered(s, zeros, ahead)] \in [Slots -> Usage \cup {NoUsage}]
    BY ShownType
  <1>2. [s \in Slots |-> ShownUsage(s, zeros)] \in [Slots -> Usage \cup {NoUsage}]
    BY ShownType
  <1>3. w.copy.reset \in 0..MaxEdits /\ 0 \in 0..MaxEdits
    BY StoreAssumption DEF TypeOK, WorkerOK, Metadata
  <1>4. meta' \in Metadata
    BY <1>1, <1>3 DEF TypeOK, FilesOK, Metadata
  <1>5. FilesOK'
    BY <1>4, Kept DEF MergeUsage, TypeOK, FilesOK
  <1>6. WorkerOK'
    BY RestingType, Kept DEF MergeUsage, TypeOK, WorkerOK
  <1>7. RestOK'
    BY <1>2, <1>3, OutcomeType DEF MergeUsage, TypeOK, RestOK
  <1>8. LocksOK'
    BY RestingType DEF MergeUsage, TypeOK, LocksOK
  <1> QED BY <1>5, <1>6, <1>7, <1>8, Kept DEF MergeUsage, TypeOK

LEMMA BeginTypes ==
    ASSUME TypeOK, NEW s \in Slots,
           BeginSave(s) \/ BeginRename(s) \/ BeginDelete(s) \/ BeginSwitch(s)
    PROVE  TypeOK'
  <1>1. /\ UNCHANGED <<files, lock, edit, shown, grants, cli, lastReset, excused>>
        /\ w.pc = "idle" /\ used.ops < MaxOps /\ used' = [used EXCEPT !.ops = @ + 1]
        /\ \/ Fails
           \/ outcome' = outcome /\ w' = [Resting EXCEPT !.op = "save", !.pc = "save", !.slot = s,
                     !.bytes = live, !.target = IF SameAccount(snap[s], live) THEN s ELSE 0]
           \/ outcome' = outcome /\ w' = [Resting EXCEPT !.op = "rename", !.pc = "meta.lock", !.slot = s]
           \/ outcome' = outcome /\ w' = [Resting EXCEPT !.op = "delete", !.pc = "remove", !.slot = s,
                                                        !.bytes = snap[s]]
           \/ outcome' = outcome /\ w' = [Resting EXCEPT !.op = "switch", !.pc = "resolve",
                                                        !.target = s, !.live = live]
    BY DEF BeginSave, BeginRename, BeginDelete, BeginSwitch, Begin
  <1>2. live \in Known /\ snap[s] \in Known
    BY DEF TypeOK, FilesOK
  <1>3. WorkerOK' /\ w'.pc # "meta.write"
    <2>1. /\ Known' = Known /\ Resting.pc = "idle" /\ Resting.op = "list"
          /\ Resting \in [op : Ops, pc : Phases, slot : Slots \cup {0}, target : Slots \cup {0},
                          live : Known, bytes : Known, todo : SUBSET Slots,
                          read : [Slots -> Accounts \cup {0}], copy : Metadata, logins : 0..MaxGrants]
      BY <1>1, RestingType, Kept
    <2>2. CASE w' = Resting
      BY <2>1, <2>2 DEF WorkerOK
    <2>3. CASE w' = [Resting EXCEPT !.op = "save", !.pc = "save", !.slot = s, !.bytes = live,
                                    !.target = IF SameAccount(snap[s], live) THEN s ELSE 0]
      BY <1>2, <2>1, <2>3 DEF WorkerOK, Ops, Phases
    <2>4. CASE w' = [Resting EXCEPT !.op = "rename", !.pc = "meta.lock", !.slot = s]
      BY <2>1, <2>4 DEF WorkerOK, Ops, Phases
    <2>5. CASE w' = [Resting EXCEPT !.op = "delete", !.pc = "remove", !.slot = s, !.bytes = snap[s]]
      BY <1>2, <2>1, <2>5 DEF WorkerOK, Ops, Phases
    <2>6. CASE w' = [Resting EXCEPT !.op = "switch", !.pc = "resolve", !.target = s, !.live = live]
      BY <1>2, <2>1, <2>6 DEF WorkerOK, Ops, Phases
    <2> QED BY <1>1, <2>2, <2>3, <2>4, <2>5, <2>6 DEF Fails
  <1>4. RestOK'
    <2>1. outcome' \in {"ok", "error", "unrestored"}
      BY <1>1 DEF TypeOK, RestOK, Fails
    <2>2. used' \in [ops : 0..MaxOps, edits : 0..MaxEdits, failures : 0..MaxFailures,
                     crashes : 0..MaxCrashes]
      <3>1. /\ used \in [ops : 0..MaxOps, edits : 0..MaxEdits, failures : 0..MaxFailures,
                          crashes : 0..MaxCrashes]
            /\ used.ops + 1 \in 0..MaxOps
        BY <1>1, StoreAssumption DEF TypeOK, RestOK
      <3> QED BY <1>1, <3>1
    <2> QED BY <1>1, <2>1, <2>2 DEF TypeOK, RestOK
  <1>5. LocksOK'
    BY <1>1, <1>3 DEF TypeOK, LocksOK
  <1> QED BY <1>1, <1>3, <1>4, <1>5, Kept DEF TypeOK, files

LEMMA SnapshotTypes ==
    ASSUME TypeOK, SaveSnapshot \/ RemoveSnapshot \/ UndoDelete \/ KeepCurrent
    PROVE  TypeOK'
  <1>1. w.bytes \in Known /\ w.live \in Known /\ NoCred \in Known
    BY NoCredKnown DEF TypeOK, WorkerOK
  <1>2. /\ UNCHANGED <<live, meta, lock, edit, shown, grants, cli, lastReset>>
        /\ w.pc \notin {"meta.write", "store"}
        /\ Outcome(TRUE) \/ Outcome(FALSE)
        /\ snap' = snap \/ \E c \in Known : snap' = [snap EXCEPT ![w.slot] = c]
        /\ excused' \subseteq Accounts
        /\ \/ Fails
           \/ outcome' = outcome /\ w' = [w EXCEPT !.pc = "meta.lock"]
           \/ outcome' = outcome /\ w.pc = "keep" /\ w' = [w EXCEPT !.pc = "replace"]
    BY <1>1 DEF SaveSnapshot, RemoveSnapshot, UndoDelete, KeepCurrent, KeptSnapshots, GivenUp,
                TypeOK, RestOK
  <1>3. FilesOK'
    BY <1>2, Kept DEF TypeOK, FilesOK
  <1>4. WorkerOK' /\ w'.pc # "meta.write"
    BY <1>2, RestingType, Kept DEF TypeOK, WorkerOK, Fails, Phases
  <1>5. RestOK'
    BY <1>2, OutcomeType DEF TypeOK, RestOK, Fails
  <1>6. LocksOK'
    BY <1>2, <1>4 DEF TypeOK, LocksOK
  <1> QED BY <1>2, <1>3, <1>4, <1>5, <1>6, Kept DEF TypeOK

LEMMA LabelTypes ==
    ASSUME TypeOK, WriteLabels
    PROVE  TypeOK'
  <1> PICK ok \in BOOLEAN :
         /\ Outcome(ok)
         /\ meta' = IF ~ok THEN meta
                    ELSE IF w.op = "rename" \/ w.target = w.slot THEN w.copy
                    ELSE [w.copy EXCEPT !.usage[w.slot] = NoUsage]
         /\ IF ok THEN w' = Listing(snap) /\ UNCHANGED outcome
            ELSE IF w.op = "delete" THEN w' = [w EXCEPT !.pc = "undo"] /\ UNCHANGED outcome
            ELSE Fails
    BY DEF WriteLabels
  <1>1. w.copy \in Metadata /\ [w.copy EXCEPT !.usage[w.slot] = NoUsage] \in Metadata
    BY DEF TypeOK, WorkerOK, Metadata
  <1>2. FilesOK'
    BY <1>1, Kept DEF WriteLabels, TypeOK, FilesOK
  <1>3. WorkerOK' /\ w'.pc # "meta.write"
    BY RestingType, ListingType, Kept DEF WriteLabels, TypeOK, WorkerOK, Fails, Phases
  <1>4. RestOK'
    BY OutcomeType DEF WriteLabels, TypeOK, RestOK, Fails
  <1>5. LocksOK'
    BY <1>3 DEF WriteLabels, TypeOK, LocksOK
  <1> QED BY <1>2, <1>3, <1>4, <1>5, Kept DEF WriteLabels, TypeOK

LEMMA SwitchTypes ==
    ASSUME TypeOK, ResolveActive \/ ReplaceLive \/ RestoreLive
    PROVE  TypeOK'
  <1>1. w.bytes \in Known /\ w.live \in Known /\ NoCred \in Known /\ live \in Known
    BY NoCredKnown DEF TypeOK, WorkerOK, FilesOK
  <1>2. CASE ResolveActive
    <2>1. /\ UNCHANGED <<files, lock, edit, shown, grants, cli, used, lastReset, excused>>
          /\ w.pc = "resolve"
          /\ \/ Fails
             \/ /\ outcome' = outcome
                /\ \E s \in Slots, c \in Known :
                     w' = [w EXCEPT !.pc = "keep", !.slot = s, !.bytes = c]
      <3>1. CASE Fails
        BY <1>2, <3>1 DEF ResolveActive
      <3>2. CASE ~Fails
        <4> PICK s \in ActiveSlots :
              /\ w.target = s \/ snap[w.target] # NoCred
              /\ w' = [w EXCEPT !.pc = "keep", !.slot = s,
                                !.bytes = IF w.target = s THEN w.live ELSE snap[w.target]]
              /\ UNCHANGED outcome
          BY <1>2, <3>2 DEF ResolveActive
        <4>1. s \in Slots
          BY DEF ActiveSlots, Owners
        <4> DEFINE c == IF w.target = s THEN w.live ELSE snap[w.target]
        <4>2. c \in Known
          BY <1>1, <1>2 DEF ResolveActive, TypeOK, WorkerOK, FilesOK
        <4> QED BY <1>2, <4>1, <4>2 DEF ResolveActive
      <3> QED BY <3>1, <3>2
    <2>2. WorkerOK' /\ w'.pc # "meta.write"
      BY <2>1, RestingType, Kept DEF TypeOK, WorkerOK, Fails, Phases
    <2>3. RestOK'
      BY <2>1 DEF TypeOK, RestOK, Fails
    <2>4. LocksOK'
      BY <2>1, <2>2 DEF TypeOK, LocksOK
    <2> QED BY <2>1, <2>2, <2>3, <2>4, Kept DEF TypeOK, files
  <1>3. CASE ReplaceLive
    <2>1. /\ UNCHANGED <<snap, meta, lock, edit, shown, grants, cli, lastReset, excused>>
          /\ w.pc = "replace"
          /\ live' \in Known
          /\ Outcome(TRUE) \/ Outcome(FALSE)
          /\ outcome' \in {"error", outcome}
          /\ \/ Fails
             \/ /\ outcome' = outcome
                /\ \/ w' = Switched
                   \/ w' = [w EXCEPT !.pc = "restore", !.live = live]
      BY <1>1, <1>3 DEF ReplaceLive, Fails, Switched
    <2>2. WorkerOK' /\ w'.pc # "meta.write"
      <3>1. CASE Fails
        BY <2>1, <3>1, RestingType, Kept DEF TypeOK, WorkerOK, Fails
      <3>2. CASE w' = Switched
        <4> DEFINE l == Listing(snap)
        <4>1. /\ l \in [op : Ops, pc : Phases, slot : Slots \cup {0}, target : Slots \cup {0},
                        live : Known, bytes : Known, todo : SUBSET Slots,
                        read : [Slots -> Accounts \cup {0}], copy : Metadata, logins : 0..MaxGrants]
              /\ l.pc = "prepare"
          BY ListingType DEF TypeOK
        <4>2. Len(grants) \in 0..MaxGrants
          BY SeqIsFunction, StoreAssumption DEF TypeOK, ServerOK
        <4>3. w.target \in Slots /\ "switch" \in Ops
          BY <2>1 DEF TypeOK, WorkerOK, Ops
        <4>4. w' = [l EXCEPT !.op = "switch", !.target = w.target, !.live = w.bytes,
                             !.logins = Len(grants)]
          BY <3>2 DEF Switched
        <4> HIDE DEF l
        <4> QED BY <1>1, <2>1, <4>1, <4>2, <4>3, <4>4, Kept DEF WorkerOK
      <3>3. CASE w' = [w EXCEPT !.pc = "restore", !.live = live]
        BY <1>1, <2>1, <3>3, Kept DEF TypeOK, WorkerOK, Phases
      <3> QED BY <2>1, <3>1, <3>2, <3>3
    <2>3. RestOK'
      <3>1. used' \in [ops : 0..MaxOps, edits : 0..MaxEdits, failures : 0..MaxFailures,
                       crashes : 0..MaxCrashes]
        BY <2>1, OutcomeType DEF TypeOK
      <3>2. outcome' \in {"ok", "error", "unrestored"}
        BY <2>1 DEF TypeOK, RestOK
      <3> QED BY <2>1, <3>1, <3>2 DEF TypeOK, RestOK
    <2>4. LocksOK'
      BY <2>1, <2>2 DEF TypeOK, LocksOK
    <2>5. FilesOK'
      BY <2>1, Kept DEF TypeOK, FilesOK
    <2> QED BY <2>1, <2>2, <2>3, <2>4, <2>5, Kept DEF TypeOK
  <1>4. CASE RestoreLive
    <2>1. /\ UNCHANGED <<snap, meta, lock, edit, shown, grants, cli, lastReset, excused>>
          /\ w.pc = "restore" /\ w' = Resting
          /\ live' \in Known
          /\ Outcome(TRUE) \/ Outcome(FALSE)
          /\ outcome' \in {"error", "unrestored"}
      BY <1>1, <1>4 DEF RestoreLive, Restored
    <2>2. WorkerOK' /\ w'.pc # "meta.write"
      BY <2>1, RestingType, Kept DEF TypeOK, WorkerOK
    <2>3. RestOK'
      BY <2>1, OutcomeType DEF TypeOK, RestOK
    <2>4. LocksOK'
      BY <2>1, <2>2 DEF TypeOK, LocksOK
    <2>5. FilesOK'
      BY <2>1, Kept DEF TypeOK, FilesOK
    <2> QED BY <2>1, <2>2, <2>3, <2>4, <2>5, Kept DEF TypeOK
  <1> QED BY <1>2, <1>3, <1>4

LEMMA EditTypes ==
    ASSUME TypeOK, BeginEdit \/ EditLocks \/ EditWrites
    PROVE  TypeOK'
  <1>1. CASE BeginEdit
    <2>1. EditOK' /\ edit'.pc # "write"
      <3> PICK r \in {0, used.edits + 1} : edit' = [edit EXCEPT !.pc = "lock", !.reset = r]
        BY <1>1 DEF BeginEdit
      <3>1. r \in 0..MaxEdits
        BY <1>1, StoreAssumption DEF BeginEdit, TypeOK, RestOK
      <3> QED BY <3>1 DEF TypeOK, EditOK
    <2>2. RestOK'
      <3>1. used.edits + 1 \in 0..MaxEdits
        BY <1>1, StoreAssumption DEF BeginEdit, TypeOK, RestOK
      <3>2. used' = [used EXCEPT !.edits = used.edits + 1]
        BY <1>1 DEF BeginEdit
      <3>3. used' \in [ops : 0..MaxOps, edits : 0..MaxEdits, failures : 0..MaxFailures,
                       crashes : 0..MaxCrashes]
        BY <3>1, <3>2 DEF TypeOK, RestOK
      <3> QED BY <1>1, <3>1, <3>3 DEF BeginEdit, TypeOK, RestOK
    <2>3. LocksOK'
      BY <1>1, <2>1 DEF BeginEdit, TypeOK, LocksOK
    <2> QED BY <1>1, <2>1, <2>2, <2>3, Kept DEF BeginEdit, TypeOK, files
  <1>2. CASE EditLocks
    <2>1. EditOK' /\ edit'.pc = "write"
      BY <1>2 DEF EditLocks, TypeOK, EditOK, FilesOK
    <2>2. LocksOK'
      BY <1>2, <2>1 DEF EditLocks, LockIsFree, TypeOK, LocksOK
    <2> QED BY <1>2, <2>1, <2>2, Kept DEF EditLocks, TypeOK, files
  <1>3. CASE EditWrites
    <2> PICK ok \in BOOLEAN :
          /\ Outcome(ok)
          /\ meta' = IF ok THEN [edit.copy EXCEPT !.reset = edit.reset] ELSE meta
          /\ lastReset' = IF ok THEN edit.reset ELSE lastReset
      BY <1>3 DEF EditWrites
    <2>1. edit.copy \in Metadata /\ edit.reset \in 0..MaxEdits
      BY DEF TypeOK, EditOK
    <2>2. meta' \in Metadata
      BY <2>1 DEF TypeOK, FilesOK, Metadata
    <2>3. FilesOK'
      BY <1>3, <2>2, Kept DEF EditWrites, TypeOK, FilesOK
    <2>4. EditOK' /\ edit'.pc # "write"
      BY <1>3 DEF EditWrites, TypeOK, EditOK
    <2>5. RestOK'
      BY <1>3, <2>1, OutcomeType DEF EditWrites, TypeOK, RestOK
    <2>6. LocksOK'
      BY <1>3, <2>4 DEF EditWrites, TypeOK, LocksOK
    <2> QED BY <1>3, <2>3, <2>4, <2>5, <2>6, Kept DEF EditWrites, TypeOK
  <1> QED BY <1>1, <1>2, <1>3

LEMMA CliTypes ==
    ASSUME TypeOK, CliStartsOrStops \/ CliRenews \/ \E a \in Accounts : CliLogin(a)
    PROVE  TypeOK'
  <1>0. /\ DOMAIN grants = 1..Len(grants) /\ Len(grants) \in Nat
        /\ grants \in [1..Len(grants) -> [acct : Accounts, ver : 1..MaxVer]]
    BY SeqIsFunction DEF TypeOK, ServerOK
  <1>1. CASE CliStartsOrStops
    <2>1. RestOK'
      BY <1>1 DEF CliStartsOrStops, TypeOK, RestOK
    <2>2. LocksOK'
      BY <1>1 DEF CliStartsOrStops, TypeOK, LocksOK
    <2> QED BY <1>1, <2>1, <2>2, Kept DEF CliStartsOrStops, TypeOK, files
  <1>2. CASE CliRenews
    <2> DEFINE d == [live EXCEPT !.ver = @ + 1]
    <2>1. live \in Known /\ live # NoCred
      BY <1>2 DEF CliRenews, TypeOK, FilesOK
    <2>2. live.grant \in 1..Len(grants) /\ live \in Creds
      BY <2>1, AcctType DEF TypeOK
    <2>3. live.ver = grants[live.grant].ver /\ live.ver < MaxVer
      BY <1>2 DEF CliRenews, Valid
    <2>4. grants' \in [1..Len(grants) -> [acct : Accounts, ver : 1..MaxVer]]
      <3>1. live.ver + 1 \in 1..MaxVer
        <4>1. MaxVer \in Nat
          BY StoreAssumption
        <4>2. live.ver \in 1..MaxVer
          BY <2>2 DEF Creds
        <4> QED BY <2>3, <4>1, <4>2
      <3>2. grants[live.grant] \in [acct : Accounts, ver : 1..MaxVer]
        BY <1>0, <2>2
      <3>3. [grants[live.grant] EXCEPT !.ver = @ + 1] \in [acct : Accounts, ver : 1..MaxVer]
        BY <2>3, <3>1, <3>2
      <3>4. grants' = [grants EXCEPT ![live.grant] = [grants[live.grant] EXCEPT !.ver = @ + 1]]
        BY <1>2 DEF CliRenews
      <3> QED BY <1>0, <3>3, <3>4
    <2>5. ServerOK' /\ DOMAIN grants' = DOMAIN grants
      BY <1>0, <2>4 DEF TypeOK, ServerOK
    <2>6. Known' = Known
      BY <2>5 DEF Known
    <2>7. d \in Creds /\ d.grant = live.grant
      BY <2>2, <2>3, StoreAssumption DEF Creds
    <2>8. live' \in Known
      BY <1>0, <1>2, <2>2, <2>7 DEF CliRenews, Known
    <2>9. FilesOK'
      BY <1>2, <2>6, <2>8 DEF CliRenews, TypeOK, FilesOK
    <2>10. WorkerOK'
      BY <1>2, <2>6 DEF CliRenews, TypeOK, WorkerOK
    <2>11. RestOK'
      BY <1>2 DEF CliRenews, Raced, TypeOK, RestOK
    <2>12. LocksOK'
      BY <1>2 DEF CliRenews, TypeOK, LocksOK
    <2> QED BY <1>2, <2>5, <2>9, <2>10, <2>11, <2>12, Kept DEF CliRenews, TypeOK
  <1>3. ASSUME NEW a \in Accounts, CliLogin(a) PROVE TypeOK'
    <2> DEFINE d == [grant |-> Len(grants) + 1, ver |-> 1]
    <2>1. /\ ServerOK' /\ DOMAIN grants' = 1..(Len(grants) + 1)
      BY <1>0, <1>3, StoreAssumption DEF CliLogin, TypeOK, ServerOK
    <2>2. Known \subseteq Known'
      BY <1>0, <2>1 DEF Known, Creds
    <2>3. d \in Creds /\ d.grant \in DOMAIN grants'
      BY <1>0, <1>3, <2>1, StoreAssumption DEF CliLogin, Creds
    <2>4. live' \in Known'
      BY <1>3, <2>3 DEF CliLogin, Known, Creds
    <2>5. FilesOK'
      BY <1>3, <2>2, <2>4 DEF CliLogin, TypeOK, FilesOK
    <2>6. WorkerOK'
      BY <1>3, <2>2 DEF CliLogin, TypeOK, WorkerOK
    <2>7. RestOK'
      BY <1>3 DEF CliLogin, Raced, TypeOK, RestOK
    <2>8. LocksOK'
      BY <1>3 DEF CliLogin, TypeOK, LocksOK
    <2> QED BY <1>3, <2>1, <2>5, <2>6, <2>7, <2>8, Kept DEF CliLogin, TypeOK
  <1> QED BY <1>1, <1>2, <1>3

LEMMA CrashTypes ==
    ASSUME TypeOK, Crash
    PROVE  TypeOK'
  <1>1. WorkerOK' /\ w'.pc # "meta.write"
    BY RestingType, Kept DEF Crash, TypeOK, WorkerOK
  <1>2. EditOK' /\ edit'.pc # "write"
    BY DEF Crash, TypeOK, EditOK
  <1>3. RestOK'
    <2>1. used.crashes + 1 \in 0..MaxCrashes
      BY StoreAssumption DEF Crash, TypeOK, RestOK
    <2>2. used' \in [ops : 0..MaxOps, edits : 0..MaxEdits, failures : 0..MaxFailures,
                     crashes : 0..MaxCrashes]
      BY <2>1 DEF Crash, TypeOK, RestOK
    <2>3. /\ shown' \in [Slots -> Usage \cup {NoUsage}]
          /\ outcome' \in {"ok", "error", "unrestored"}
          /\ excused' \subseteq Accounts
      BY DEF Crash, TypeOK, RestOK
    <2> QED BY <2>2, <2>3 DEF Crash, TypeOK, RestOK
  <1>4. LocksOK'
    BY <1>1, <1>2 DEF Crash, LocksOK
  <1> QED BY <1>1, <1>2, <1>3, <1>4, Kept DEF Crash, TypeOK, files

(* The initial states are well typed. *)
LEMMA InitTypes == Init => TypeOK
  <1> SUFFICES ASSUME Init PROVE TypeOK
    OBVIOUS
  <1>1. ServerOK /\ DOMAIN grants = Accounts
    <2> DEFINE n == Cardinality(Accounts)
    <2>1. n \in Nat /\ Accounts = 1..n /\ n <= MaxGrants
      BY StoreAssumption, FS_CardinalityType
    <2> HIDE DEF n
    <2>2. grants \in [1..n -> [acct : Accounts, ver : 1..MaxVer]]
      BY <2>1, StoreAssumption DEF Init
    <2>3. grants \in Seq([acct : Accounts, ver : 1..MaxVer]) /\ Len(grants) = n
      BY <2>1, <2>2, FunctionIsSeq
    <2> QED BY <2>1, <2>2, <2>3 DEF ServerOK
  <1>2. \A a \in Accounts : [grant |-> a, ver |-> 1] \in Known
    <2>1. Accounts \subseteq 1..MaxGrants
      <3>1. Cardinality(Accounts) \in Nat
        BY StoreAssumption, FS_CardinalityType
      <3> QED BY <3>1, StoreAssumption
    <2> QED BY <1>1, <2>1, StoreAssumption DEF Known, Creds
  <1>3. 1 \in Accounts
    <2>1. Cardinality(Accounts) \in Nat
      BY StoreAssumption, FS_CardinalityType
    <2> QED BY <2>1, StoreAssumption
  <1>4. [reset |-> 0, usage |-> [s \in Slots |-> NoUsage]] \in Metadata
    BY StoreAssumption DEF Metadata
  <1>5. snap \in [Slots -> Known]
    BY <1>2, NoCredKnown DEF Init
  <1>6. FilesOK
    BY <1>2, <1>3, <1>4, <1>5 DEF Init, FilesOK
  <1>7. WorkerOK
    BY RestingType DEF Init, WorkerOK
  <1>8. EditOK
    BY <1>4, StoreAssumption DEF Init, EditOK
  <1>9. RestOK
    <2>1. used \in [ops : 0..MaxOps, edits : 0..MaxEdits, failures : 0..MaxFailures,
                    crashes : 0..MaxCrashes]
      BY StoreAssumption DEF Init
    <2>2. shown \in [Slots -> Usage \cup {NoUsage}] /\ lastReset \in 0..MaxEdits
      BY StoreAssumption DEF Init
    <2> QED BY <2>1, <2>2 DEF Init, RestOK
  <1>10. LocksOK
    BY RestingType, <1>8 DEF Init, LocksOK
  <1> QED BY <1>1, <1>6, <1>7, <1>8, <1>9, <1>10 DEF TypeOK

(* Every step preserves the types. *)
LEMMA NextTypes == TypeOK /\ [Next]_vars => TypeOK'
  <1> SUFFICES ASSUME TypeOK, [Next]_vars PROVE TypeOK'
    OBVIOUS
  <1>1. CASE UNCHANGED vars
    <2>1. LocksOK'
      BY <1>1 DEF vars, TypeOK, LocksOK
    <2> QED BY <1>1, <2>1, Kept DEF vars, files, TypeOK
  <1>2. CASE Next
    BY <1>2, ListTypes, RenewTypes, StoreTypes, MergeTypes, BeginTypes, SnapshotTypes,
       LabelTypes, SwitchTypes, EditTypes, CliTypes, CrashTypes DEF Next, WorkerStep
  <1> QED BY <1>1, <1>2

(* All reachable states are well typed: in particular every credential in  *)
(* a file or in a worker's hands comes from some login, and the metadata   *)
(* lock is held exactly between a read and the write that follows it.      *)
THEOREM StoreTypeCorrect == Spec => []TypeOK
  BY InitTypes, NextTypes, PTL DEF Spec

-----------------------------------------------------------------------------
(* Steps that neither write the metadata nor begin or end to hold its lock *)
(* leave everything the invariant speaks of alone.                         *)
LEMMA Aside ==
    ASSUME TypeOK, TypeOK', MetaInv, UNCHANGED <<meta, edit, lock, shown, lastReset>>,
           w.pc # "meta.write"
    PROVE  MetaInv'
  <1>1. w'.pc # "meta.write"
    BY DEF TypeOK, LocksOK
  <1> QED BY <1>1 DEF MetaInv, Copies, Attributed, ResetEditKept

LEMMA MergeInv ==
    ASSUME TypeOK, TypeOK', MetaInv, MergeUsage
    PROVE  MetaInv'
  <1> PICK ok \in BOOLEAN, expired \in BOOLEAN, zeros \in SUBSET Slots, ahead \in SUBSET Slots :
         /\ meta' = IF ok THEN [reset |-> IF expired THEN 0 ELSE w.copy.reset,
                                usage |-> [s \in Slots |-> Remembered(s, zeros, ahead)]]
                    ELSE meta
         /\ lastReset' = IF ok /\ expired THEN 0 ELSE lastReset
         /\ shown' = IF ok THEN [s \in Slots |-> ShownUsage(s, zeros)] ELSE shown
    BY DEF MergeUsage
  <1>1. w.copy = meta /\ edit.pc # "write" /\ edit' = edit /\ w'.pc # "meta.write"
    BY RestingType DEF MergeUsage, MetaInv, Copies, TypeOK, LocksOK
  <1>2. Copies'
    BY <1>1 DEF Copies
  <1>3. ResetEditKept'
    BY <1>1 DEF MetaInv, ResetEditKept
  <1>4. \A s \in Slots : ShownUsage(s, zeros) # NoUsage =>
                          ShownUsage(s, zeros).of = ShownUsage(s, zeros).key
    BY <1>1 DEF MetaInv, Attributed, ShownUsage, OwnHistory
  <1>5. \A s \in Slots : Remembered(s, zeros, ahead) # NoUsage =>
                          Remembered(s, zeros, ahead).of = Remembered(s, zeros, ahead).key
    BY <1>1, <1>4 DEF MetaInv, Attributed, Remembered
  <1>6. Attributed(shown')
    BY <1>4 DEF MetaInv, Attributed
  <1>7. Attributed(meta'.usage)
    BY <1>5 DEF MetaInv, Attributed
  <1> QED BY <1>2, <1>3, <1>6, <1>7 DEF MetaInv, Attributed

LEMMA LabelInv ==
    ASSUME TypeOK, TypeOK', MetaInv, WriteLabels
    PROVE  MetaInv'
  <1>1. /\ w.copy = meta /\ edit.pc # "write" /\ lock' = "none"
        /\ edit' = edit /\ shown' = shown /\ lastReset' = lastReset
        /\ \/ meta' = meta
           \/ meta' = [meta EXCEPT !.usage[w.slot] = NoUsage]
    BY DEF WriteLabels, MetaInv, Copies, TypeOK, LocksOK
  <1>2. w'.pc # "meta.write"
    BY <1>1 DEF TypeOK, LocksOK
  <1>3. meta'.reset = meta.reset /\ Attributed(meta'.usage)
    BY <1>1 DEF TypeOK, FilesOK, Metadata, MetaInv, Attributed
  <1> QED BY <1>1, <1>2, <1>3 DEF MetaInv, Copies, Attributed, ResetEditKept

LEMMA LockInv ==
    ASSUME TypeOK, TypeOK', MetaInv, WorkerLocks \/ EditLocks
    PROVE  MetaInv'
  <1>1. CASE WorkerLocks
    <2>1. /\ w'.copy = meta /\ edit' = edit /\ meta' = meta /\ shown' = shown
          /\ lastReset' = lastReset
      BY <1>1 DEF WorkerLocks, LatestMeta, TypeOK, WorkerOK, files
    <2> QED BY <2>1 DEF MetaInv, Copies, Attributed, ResetEditKept
  <1>2. CASE EditLocks
    <2>1. /\ edit'.copy = meta /\ w' = w /\ meta' = meta /\ shown' = shown
          /\ lastReset' = lastReset
      BY <1>2 DEF EditLocks, TypeOK, EditOK, files
    <2> QED BY <2>1 DEF MetaInv, Copies, Attributed, ResetEditKept
  <1> QED BY <1>1, <1>2

LEMMA EditInv ==
    ASSUME TypeOK, TypeOK', MetaInv, EditWrites
    PROVE  MetaInv'
  <1> PICK ok \in BOOLEAN :
        /\ meta' = IF ok THEN [edit.copy EXCEPT !.reset = edit.reset] ELSE meta
        /\ lastReset' = IF ok THEN edit.reset ELSE lastReset
    BY DEF EditWrites
  <1>1. /\ edit.copy = meta /\ w' = w /\ shown' = shown /\ w.pc # "meta.write"
        /\ lock' = "none"
    BY DEF EditWrites, MetaInv, Copies, TypeOK, LocksOK
  <1>2. edit'.pc # "write"
    BY <1>1 DEF TypeOK, LocksOK
  <1>3. meta'.usage = meta.usage /\ (meta.reset = lastReset => meta'.reset = lastReset')
    BY <1>1 DEF TypeOK, FilesOK, Metadata
  <1> QED BY <1>1, <1>2, <1>3 DEF MetaInv, Copies, Attributed, ResetEditKept

LEMMA QuietInv ==
    ASSUME TypeOK, TypeOK', MetaInv,
           CliStartsOrStops \/ CliRenews \/ (\E a \in Accounts : CliLogin(a))
             \/ Crash \/ BeginEdit \/ UNCHANGED vars
    PROVE  MetaInv'
  <1>1. CASE Crash
    <2>1. w'.pc # "meta.write" /\ edit'.pc # "write"
      BY <1>1 DEF Crash, TypeOK, LocksOK
    <2>2. Attributed(shown)'
      BY <1>1 DEF Crash, Attributed
    <2> QED BY <1>1, <2>1, <2>2 DEF Crash, files, MetaInv, Copies, Attributed, ResetEditKept
  <1>2. CASE BeginEdit
    <2>1. edit'.pc # "write"
      BY <1>2 DEF BeginEdit, TypeOK, EditOK
    <2> QED BY <1>2, <2>1 DEF BeginEdit, files, MetaInv, Copies, Attributed, ResetEditKept
  <1>3. CASE UNCHANGED <<meta, w, edit, shown, lastReset>>
    BY <1>3 DEF MetaInv, Copies, Attributed, ResetEditKept
  <1> QED BY <1>1, <1>2, <1>3 DEF CliStartsOrStops, CliRenews, CliLogin, files, vars

LEMMA NextInv == TypeOK /\ MetaInv /\ [Next]_vars => MetaInv'
  <1> SUFFICES ASSUME TypeOK, MetaInv, [Next]_vars PROVE MetaInv'
    OBVIOUS
  <1>0. TypeOK'
    BY NextTypes
  <1>1. CASE \/ BeginList \/ PrepareMirror \/ PrepareFresh \/ PrepareRejected \/ PrepareRenew
             \/ StoreRenewed \/ ReadUsage
    BY <1>0, <1>1, Aside DEF BeginList, PrepareMirror, PrepareFresh, PrepareRejected,
       PrepareRenew, StoreRenewed, ReadUsage, files
  <1>2. CASE \E s \in Slots : BeginSave(s) \/ BeginRename(s) \/ BeginDelete(s) \/ BeginSwitch(s)
    BY <1>0, <1>2, Aside DEF BeginSave, BeginRename, BeginDelete, BeginSwitch, Begin, files
  <1>3. CASE \/ SaveSnapshot \/ RemoveSnapshot \/ UndoDelete \/ ResolveActive \/ KeepCurrent
             \/ ReplaceLive \/ RestoreLive
    BY <1>0, <1>3, Aside DEF SaveSnapshot, RemoveSnapshot, UndoDelete, ResolveActive,
       KeepCurrent, ReplaceLive, RestoreLive, files
  <1> QED BY <1>0, <1>1, <1>2, <1>3, MergeInv, LabelInv, LockInv, EditInv, QuietInv
          DEF Next, WorkerStep

LEMMA InitInv == Init => MetaInv
  BY RestingType DEF Init, MetaInv, Copies, Attributed, ResetEditKept

(* No reset edit is lost: whatever refreshes, account operations, failures *)
(* and crashes run beside it, the metadata file says what was edited last. *)
THEOREM ResetEditsSurvive == Spec => []ResetEditKept
  <1>1. MetaInv => ResetEditKept
    BY DEF MetaInv
  <1> QED BY <1>1, InitTypes, NextTypes, InitInv, NextInv, PTL DEF Spec

(* Usage is never shown for an account other than the one it is about.     *)
THEOREM UsageStaysWithAccount == Spec => []UsageIsOwn
  <1>1. MetaInv => UsageIsOwn
    BY DEF MetaInv, Attributed, UsageIsOwn
  <1> QED BY <1>1, InitTypes, NextTypes, InitInv, NextInv, PTL DEF Spec

-----------------------------------------------------------------------------
(* SavedAccountsUsable is far from inductive.  What makes it true is that  *)
(* credentials are overwritten only by newer ones of their grant, by the   *)
(* live ones of their account, or when they are given up: this needs what  *)
(* the worker holds at each step of each operation, and that the grant it  *)
(* renews is never the one Codex uses at the same time.                    *)

(* Credentials of account a; those nothing is asked of any more, as their  *)
(* account is live (Codex or the worker holds newer ones) or excused.      *)
IsOf(c, a) == c # NoCred /\ AcctOf(c) = a
Near(c) == c # NoCred => AcctOf(c) \in excused \/ IsOf(live, AcctOf(c))

(* The live credentials are usable, an account is in one slot, and a slot  *)
(* that is not near has usable credentials, unless these were renewed just *)
(* now.                                                                    *)
LiveValid == live # NoCred /\ AcctOf(live) \notin excused => Valid(live)
OneSlot ==
    \A s, t \in Slots :
       SameAccount(snap[s], snap[t]) /\ s # t => Near(snap[s])
Fresh ==
    \A s \in Slots :
       \/ Near(snap[s])
       \/ Valid(snap[s])
       \/ w.pc = "store" /\ w.slot = s

(* Codex uses the grant the worker read, or one that no slot knows: so     *)
(* what the worker renews is never what Codex uses.                        *)
LiveIsOurs ==
    \/ live # NoCred /\ w.live # NoCred /\ live.grant = w.live.grant
    \/ \A s \in Slots : snap[s] # NoCred /\ live # NoCred => snap[s].grant # live.grant

(* What a worker holds, by where it stands.                                *)
Listed ==
    w.pc \in {"prepare", "store"} => w.op \in {"list", "switch"} /\ Near(w.live) /\ LiveIsOurs
Renewing ==
    w.pc = "store" =>
      /\ w.slot \in Slots /\ snap[w.slot] # NoCred
      /\ Valid(w.bytes) /\ w.bytes.grant = snap[w.slot].grant
      /\ ~SameAccount(w.bytes, w.live)
Saving == w.pc = "save" => w.op = "save" /\ w.slot \in Slots /\ w.bytes # NoCred /\ Near(w.bytes)
Deleting ==
    /\ w.pc = "remove" => /\ w.op = "delete" /\ w.slot \in Slots
                          /\ w.bytes # NoCred /\ snap[w.slot] = w.bytes
    /\ w.pc = "undo" => w.op = "delete"
    /\ w.op = "delete" /\ w.pc \in {"meta.lock", "meta.write", "undo"} =>
          w.slot \in Slots /\ snap[w.slot] = NoCred /\ w.bytes # NoCred /\ Near(w.bytes)

(* The slot of the live account, and what is to become live.               *)
Chosen ==
    /\ w.slot \in Slots
    /\ \A s \in Slots : SameAccount(snap[s], w.live) <=> s = w.slot
    /\ \/ w.bytes = w.live
       \/ \E t \in Slots \ {w.slot} : w.bytes = snap[t] /\ snap[t] # NoCred
Switching ==
    w.pc \in {"resolve", "keep", "replace", "restore"} =>
      /\ w.op = "switch"
      /\ excused # Accounts =>
           /\ w.live # NoCred
           /\ live = w.live \/ (w.pc = "restore" /\ live = NoCred)
           /\ AcctOf(w.live) \notin excused => Valid(w.live)
           /\ w.pc \in {"keep", "replace"} => Chosen
           /\ w.pc = "replace" => snap[w.slot] = w.live

WorkerInv == Listed /\ Renewing /\ Saving /\ Deleting /\ Switching
CredInv == LiveValid /\ OneSlot /\ Fresh /\ WorkerInv

-----------------------------------------------------------------------------
(* A worker at rest.                                                       *)
LEMMA RestFields == Resting.pc = "idle" /\ Resting.op = "list" /\ Resting.live = NoCred
  BY DEF Resting

(* A worker that starts to list the accounts.                              *)
LEMMA ListFields ==
    /\ Listing(snap).pc = "prepare" /\ Listing(snap).op = "list" /\ Listing(snap).live = live
    /\ Switched.pc = "prepare" /\ Switched.op = "switch" /\ Switched.live = w.bytes
    /\ Switched.target = w.target /\ Switched.logins = Len(grants)
  BY DEF Switched, Listing, Resting

(* What the invariant says of a worker, by where it stands.                *)
LEMMA AtRest ==
    ASSUME w'.pc = "idle"
    PROVE  WorkerInv'
  BY DEF WorkerInv, Listed, Renewing, Saving, Deleting, Switching

LEMMA ToList ==
    ASSUME w'.pc = "prepare", w'.op \in {"list", "switch"}, w'.live = live'
    PROVE  WorkerInv'
  BY DEF WorkerInv, Listed, Renewing, Saving, Deleting, Switching, Near, IsOf, LiveIsOurs

LEMMA ToMeta ==
    ASSUME w'.pc \in {"meta.lock", "meta.write"}, w'.op # "delete"
    PROVE  WorkerInv'
  BY DEF WorkerInv, Listed, Renewing, Saving, Deleting, Switching

(* What the invariant says of the files, while they are left alone.        *)
LEMMA FilesStay ==
    ASSUME CredInv, UNCHANGED <<live, snap, grants, excused>>, w.pc # "store"
    PROVE  LiveValid' /\ OneSlot' /\ Fresh'
  BY DEF CredInv, LiveValid, OneSlot, Fresh, Near, IsOf, SameAccount, Valid, AcctOf

(* The steps of a listing that write no credentials.                       *)
LEMMA ListMoves ==
    ASSUME TypeOK, CredInv, BeginList \/ PrepareFresh \/ PrepareRejected \/ ReadUsage \/ MergeUsage
    PROVE  CredInv'
  <1>1. UNCHANGED <<live, snap, grants, excused>> /\ w.pc # "store"
    BY DEF BeginList, PrepareFresh, PrepareRejected, ReadUsage, MergeUsage, files
  <1>2. CASE BeginList
    <2>1. w'.pc = "prepare" /\ w'.op = "list" /\ w'.live = live'
      BY <1>1, <1>2, ListFields DEF BeginList
    <2> QED BY <1>1, <2>1, ToList, FilesStay DEF CredInv
  <1>3. CASE MergeUsage
    <2>1. w'.pc = "idle"
      BY <1>3, RestFields DEF MergeUsage
    <2> QED BY <1>1, <2>1, AtRest, FilesStay DEF CredInv
  <1>4. CASE PrepareFresh \/ PrepareRejected
    <2>1. w'.pc = w.pc /\ w.pc = "prepare" /\ w'.op = w.op /\ w'.live = w.live
      BY <1>4 DEF PrepareFresh, PrepareRejected, TypeOK, WorkerOK
    <2>2. Listed'
      BY <1>1, <2>1 DEF CredInv, WorkerInv, Listed, Near, IsOf, LiveIsOurs, AcctOf
    <2>3. WorkerInv'
      BY <2>1, <2>2 DEF WorkerInv, Renewing, Saving, Deleting, Switching
    <2> QED BY <1>1, <2>3, FilesStay DEF CredInv
  <1>5. CASE ReadUsage
    <2>1. w'.pc = "meta.lock" /\ w'.op \in {"list", "switch"}
      BY <1>5 DEF ReadUsage, TypeOK, WorkerOK, CredInv, WorkerInv, Listed
    <2> QED BY <1>1, <2>1, ToMeta, FilesStay DEF CredInv
  <1> QED BY <1>2, <1>3, <1>4, <1>5

(* The metadata updates write no credentials either.                       *)
LEMMA MetaMoves ==
    ASSUME TypeOK, CredInv, WorkerLocks \/ WriteLabels
    PROVE  CredInv'
  <1>1. UNCHANGED <<live, snap, grants, excused>> /\ w.pc \in {"meta.lock", "meta.write"}
    BY DEF WorkerLocks, WriteLabels, files
  <1>2. CASE WorkerLocks
    <2>1. w'.pc = "meta.write" /\ w'.op = w.op /\ w'.slot = w.slot /\ w'.bytes = w.bytes
      BY <1>2 DEF WorkerLocks, TypeOK, WorkerOK
    <2>2. Deleting'
      BY <1>1, <2>1 DEF CredInv, WorkerInv, Deleting, Near, IsOf, AcctOf
    <2>3. WorkerInv'
      BY <2>1, <2>2 DEF WorkerInv, Listed, Renewing, Saving, Switching
    <2> QED BY <1>1, <2>3, FilesStay DEF CredInv
  <1>3. CASE WriteLabels
    <2>1. \/ w' = Listing(snap)
          \/ w.op = "delete" /\ w' = [w EXCEPT !.pc = "undo"]
          \/ w' = Resting
      BY <1>3 DEF WriteLabels, Fails
    <2>2. CASE w' = Listing(snap)
      <3>1. w'.pc = "prepare" /\ w'.op = "list" /\ w'.live = live'
        BY <1>1, <2>2, ListFields
      <3> QED BY <1>1, <3>1, ToList, FilesStay DEF CredInv
    <2>3. CASE w.op = "delete" /\ w' = [w EXCEPT !.pc = "undo"]
      <3>1. w'.pc = "undo" /\ w'.op = w.op /\ w'.slot = w.slot /\ w'.bytes = w.bytes
        BY <2>3 DEF TypeOK, WorkerOK
      <3>2. Deleting'
        BY <1>1, <2>3, <3>1 DEF CredInv, WorkerInv, Deleting, Near, IsOf, AcctOf
      <3>3. WorkerInv'
        BY <3>1, <3>2 DEF WorkerInv, Listed, Renewing, Saving, Switching
      <3> QED BY <1>1, <3>3, FilesStay DEF CredInv
    <2>4. CASE w' = Resting
      BY <1>1, <2>4, RestFields, AtRest, FilesStay DEF CredInv
    <2> QED BY <2>1, <2>2, <2>3, <2>4
  <1> QED BY <1>2, <1>3

(* An operation that begins keeps in hand what it has read.                *)
LEMMA OpMoves ==
    ASSUME TypeOK, CredInv, NEW s \in Slots,
           BeginSave(s) \/ BeginRename(s) \/ BeginDelete(s) \/ BeginSwitch(s)
    PROVE  CredInv'
  <1>1. UNCHANGED <<live, snap, grants, excused>> /\ w.pc = "idle"
    BY DEF BeginSave, BeginRename, BeginDelete, BeginSwitch, Begin, files
  <1>2. /\ live # NoCred => live \in Creds /\ AcctOf(live) \in Accounts
        /\ snap[s] # NoCred => snap[s] \in Creds /\ AcctOf(snap[s]) \in Accounts
    BY AcctType DEF TypeOK, FilesOK
  <1>3. \/ w'.pc = "idle"
        \/ w'.pc = "save" /\ w'.op = "save" /\ w'.slot = s /\ w'.bytes = live /\ live # NoCred
        \/ w'.pc = "meta.lock" /\ w'.op = "rename"
        \/ /\ w'.pc = "remove" /\ w'.op = "delete" /\ w'.slot = s /\ w'.bytes = snap[s]
           /\ snap[s] # NoCred
        \/ w'.pc = "resolve" /\ w'.op = "switch" /\ w'.live = live /\ live # NoCred
    <2>1. CASE w' = Resting
      BY <2>1, RestFields
    <2>2. CASE BeginSave(s) /\ w' # Resting
      <3>1. /\ live # NoCred
            /\ w' = [Resting EXCEPT !.op = "save", !.pc = "save", !.slot = s, !.bytes = live,
                       !.target = IF SameAccount(snap[s], live) THEN s ELSE 0]
        BY <2>2 DEF BeginSave, Fails
      <3> QED BY <3>1 DEF Resting
    <2>3. CASE BeginRename(s) /\ w' # Resting
      BY <2>3 DEF BeginRename, Fails, Resting
    <2>4. CASE BeginDelete(s) /\ w' # Resting
      BY <2>4 DEF BeginDelete, Fails, Resting
    <2>5. CASE BeginSwitch(s) /\ w' # Resting
      BY <2>5 DEF BeginSwitch, Fails, Resting
    <2> QED BY <2>1, <2>2, <2>3, <2>4, <2>5
  <1>4. CASE w'.pc = "idle"
    BY <1>1, <1>4, AtRest, FilesStay DEF CredInv
  <1>5. CASE w'.pc = "meta.lock" /\ w'.op = "rename"
    BY <1>1, <1>5, ToMeta, FilesStay DEF CredInv
  <1>6. CASE w'.pc = "save" /\ w'.op = "save" /\ w'.slot = s /\ w'.bytes = live /\ live # NoCred
    <2>1. WorkerInv'
      BY <1>1, <1>6 DEF WorkerInv, Listed, Renewing, Saving, Deleting, Switching, Near, IsOf, AcctOf
    <2> QED BY <1>1, <2>1, FilesStay DEF CredInv
  <1>7. CASE /\ w'.pc = "remove" /\ w'.op = "delete" /\ w'.slot = s /\ w'.bytes = snap[s]
             /\ snap[s] # NoCred
    <2>1. WorkerInv'
      BY <1>1, <1>7 DEF WorkerInv, Listed, Renewing, Saving, Deleting, Switching
    <2> QED BY <1>1, <2>1, FilesStay DEF CredInv
  <1>8. CASE w'.pc = "resolve" /\ w'.op = "switch" /\ w'.live = live /\ live # NoCred
    <2>1. Switching'
      BY <1>1, <1>8 DEF CredInv, LiveValid, Switching, Valid, AcctOf
    <2>2. WorkerInv'
      BY <1>8, <2>1 DEF WorkerInv, Listed, Renewing, Saving, Deleting
    <2> QED BY <1>1, <2>2, FilesStay DEF CredInv
  <1> QED BY <1>3, <1>4, <1>5, <1>6, <1>7, <1>8

(* A switch has found the one slot with the account of auth.json.          *)
LEMMA ResolveMoves ==
    ASSUME TypeOK, CredInv, ResolveActive
    PROVE  CredInv'
  <1>1. UNCHANGED <<live, snap, grants, excused>> /\ w.pc = "resolve"
    BY DEF ResolveActive, files
  <1>2. CASE Fails
    BY <1>1, <1>2, RestFields, AtRest, FilesStay DEF Fails, CredInv
  <1>3. CASE ~Fails
    <2> PICK s \in ActiveSlots :
          /\ w.target = s \/ snap[w.target] # NoCred
          /\ w' = [w EXCEPT !.pc = "keep", !.slot = s,
                            !.bytes = IF w.target = s THEN w.live ELSE snap[w.target]]
      BY <1>3 DEF ResolveActive
    <2>1. s \in Slots /\ w.target \in Slots /\ \A t \in Slots : SameAccount(snap[t], live) <=> t = s
      BY <1>1 DEF ActiveSlots, Owners, TypeOK, WorkerOK
    <2>2. /\ w'.pc = "keep" /\ w'.op = w.op /\ w'.slot = s /\ w'.live = w.live
          /\ w'.bytes = IF w.target = s THEN w.live ELSE snap[w.target]
      BY DEF TypeOK, WorkerOK
    <2>3. ASSUME excused # Accounts PROVE Chosen' /\ w.live = live /\ live # NoCred
      <3>1. w.live = live /\ live # NoCred
        BY <1>1, <2>3 DEF CredInv, WorkerInv, Switching
      <3>2. \A t \in Slots : SameAccount(snap[t], w.live)' <=> SameAccount(snap[t], live)
        BY <1>1, <2>2, <3>1 DEF SameAccount, AcctOf
      <3> QED BY <1>1, <2>1, <2>2, <3>1, <3>2 DEF Chosen
    <2>4. Switching'
      BY <1>1, <2>2, <2>3 DEF CredInv, WorkerInv, Switching, Valid, AcctOf
    <2>5. WorkerInv'
      BY <2>2, <2>4 DEF WorkerInv, Listed, Renewing, Saving, Deleting
    <2> QED BY <1>1, <2>5, FilesStay DEF CredInv
  <1> QED BY <1>2, <1>3

(* Credentials of the live account, or of an excused one, may go into any  *)
(* slot.                                                                   *)
LEMMA WriteNear ==
    ASSUME TypeOK, TypeOK', CredInv, UNCHANGED <<live, grants>>, excused \subseteq excused',
           NEW k \in Slots, NEW c, snap' = [snap EXCEPT ![k] = c], Near(c), w.pc # "store"
    PROVE  LiveValid' /\ OneSlot' /\ Fresh'
  <1>1. snap \in [Slots -> Known]
    BY DEF TypeOK, FilesOK
  <1>2. snap'[k] = c /\ \A s \in Slots : s # k => snap'[s] = snap[s]
    BY <1>1
  <1>3. \A x : Near(x) => (x # NoCred => AcctOf(x) \in excused' \/ (live # NoCred /\ AcctOf(live) = AcctOf(x)))
    BY DEF Near, IsOf
  <1>4. LiveValid'
    BY DEF CredInv, LiveValid, Valid, AcctOf
  <1>5. OneSlot'
    BY <1>2, <1>3 DEF CredInv, OneSlot, Near, IsOf, SameAccount, AcctOf
  <1>6. Fresh'
    BY <1>2, <1>3 DEF CredInv, Fresh, Near, IsOf, Valid, AcctOf
  <1> QED BY <1>4, <1>5, <1>6

(* Nothing is asked of the files once every account is excused: Codex      *)
(* wrote to auth.json during a switch.                                     *)
LEMMA AllExcused ==
    ASSUME TypeOK', excused' = Accounts
    PROVE  LiveValid' /\ OneSlot' /\ Fresh'
  <1>1. /\ DOMAIN grants' = 1..Len(grants')
        /\ grants' \in [1..Len(grants') -> [acct : Accounts, ver : 1..MaxVer]]
    BY SeqIsFunction DEF TypeOK, ServerOK
  <1>2. \A c \in Known' : c # NoCred => grants'[c.grant].acct \in Accounts
    BY <1>1 DEF Known
  <1>3. live' \in Known' /\ \A s \in Slots : snap'[s] \in Known'
    BY DEF TypeOK, FilesOK
  <1> QED BY <1>2, <1>3 DEF LiveValid, OneSlot, Fresh, Near, AcctOf

(* The live credentials go into a slot of their account.                   *)
LEMMA MirrorMoves ==
    ASSUME TypeOK, TypeOK', CredInv, PrepareMirror
    PROVE  CredInv'
  <1> PICK s \in NextSlots, ok \in BOOLEAN : PrepareMirror!(s, ok)
    BY DEF PrepareMirror
  <1>1. s \in Slots /\ UNCHANGED <<live, grants, excused>> /\ w.pc = "prepare"
    BY DEF NextSlots, TypeOK, WorkerOK
  <1>2. w'.pc = "prepare" /\ w'.op = w.op /\ w'.live = w.live
    BY DEF TypeOK, WorkerOK
  <1>3. Near(w.live) /\ w.op \in {"list", "switch"} /\ LiveIsOurs
    BY <1>1 DEF CredInv, WorkerInv, Listed
  <1>4. LiveValid' /\ OneSlot' /\ Fresh'
    <2>1. CASE ok
      BY <1>1, <1>3, <2>1, WriteNear
    <2>2. CASE ~ok
      BY <1>1, <2>2, FilesStay
    <2> QED BY <2>1, <2>2
  <1>5. snap \in [Slots -> Known]
    BY DEF TypeOK, FilesOK
  <1>6. \A t \in Slots : snap'[t] = snap[t] \/ snap'[t] = w.live
    BY <1>1, <1>5
  <1>7. LiveIsOurs'
    BY <1>1, <1>2, <1>3, <1>6 DEF LiveIsOurs
  <1>8. Near(w.live)'
    BY <1>1, <1>2, <1>3 DEF Near, IsOf, AcctOf
  <1>9. WorkerInv'
    BY <1>2, <1>3, <1>7, <1>8 DEF WorkerInv, Listed, Renewing, Saving, Deleting, Switching
  <1> QED BY <1>4, <1>9 DEF CredInv

(* Renewed credentials go where the older version of their grant was.      *)
LEMMA StoreMoves ==
    ASSUME TypeOK, TypeOK', CredInv, StoreRenewed
    PROVE  CredInv'
  <1> PICK ok \in BOOLEAN : StoreRenewed!(ok)
    BY DEF StoreRenewed
  <1>1. UNCHANGED <<live, grants>> /\ w.pc = "store" /\ excused \subseteq excused'
    OBVIOUS
  <1>2. w'.pc = "prepare" /\ w'.op = w.op /\ w'.live = w.live
    BY DEF TypeOK, WorkerOK
  <1>3. Near(w.live) /\ w.op \in {"list", "switch"} /\ LiveIsOurs
    BY <1>1 DEF CredInv, WorkerInv, Listed
  <1>4. /\ w.slot \in Slots /\ snap[w.slot] # NoCred /\ w.bytes # NoCred
        /\ Valid(w.bytes) /\ w.bytes.grant = snap[w.slot].grant
    BY <1>1 DEF CredInv, WorkerInv, Renewing, Valid
  <1>5. snap \in [Slots -> Known]
    BY DEF TypeOK, FilesOK
  <1>6. \A t \in Slots : /\ t # w.slot => snap'[t] = snap[t]
                         /\ snap'[t] # NoCred <=> snap[t] # NoCred
                         /\ snap[t] # NoCred => snap'[t].grant = snap[t].grant
    BY <1>4, <1>5
  <1>7. AcctOf(w.bytes) = AcctOf(snap[w.slot])
    BY <1>4 DEF AcctOf
  <1>8. snap'[w.slot] = w.bytes \/ AcctOf(snap[w.slot]) \in excused'
    BY <1>4, <1>5, <1>7
  <1>9. LiveValid'
    BY <1>1 DEF CredInv, LiveValid, Valid, AcctOf
  <1>10. OneSlot'
    BY <1>1, <1>6 DEF CredInv, OneSlot, Near, IsOf, SameAccount, AcctOf
  <1>11. ASSUME NEW t \in Slots PROVE (Near(snap[t]) \/ Valid(snap[t]))'
    <2>1. CASE t = w.slot
      BY <1>1, <1>4, <1>6, <1>8, <2>1 DEF Near, Valid, AcctOf
    <2>2. CASE t # w.slot
      BY <1>1, <1>6, <2>2 DEF CredInv, Fresh, Near, IsOf, Valid, AcctOf
    <2> QED BY <2>1, <2>2
  <1>12. LiveIsOurs'
    BY <1>1, <1>2, <1>3, <1>6 DEF LiveIsOurs
  <1>13. Near(w.live)'
    BY <1>1, <1>2, <1>3 DEF Near, IsOf, AcctOf
  <1>14. WorkerInv'
    BY <1>2, <1>3, <1>12, <1>13 DEF WorkerInv, Listed, Renewing, Saving, Deleting, Switching
  <1> QED BY <1>9, <1>10, <1>11, <1>14 DEF CredInv, Fresh

(* Saving gives up the usable credentials of another account.              *)
LEMMA SaveMoves ==
    ASSUME TypeOK, TypeOK', CredInv, SaveSnapshot
    PROVE  CredInv'
  <1> PICK ok \in BOOLEAN :
         IF ok THEN /\ snap' = [snap EXCEPT ![w.slot] = w.bytes]
                    /\ excused' = excused \cup GivenUp(w.slot, w.bytes)
                    /\ w' = [w EXCEPT !.pc = "meta.lock"]
         ELSE Fails /\ UNCHANGED <<snap, excused>>
    BY DEF SaveSnapshot
  <1>1. UNCHANGED <<live, grants>> /\ w.pc = "save"
    BY DEF SaveSnapshot
  <1>2. w.op = "save" /\ w.slot \in Slots /\ Near(w.bytes)
    BY <1>1 DEF CredInv, WorkerInv, Saving
  <1>3. CASE ok
    <2>1. LiveValid' /\ OneSlot' /\ Fresh'
      BY <1>1, <1>2, <1>3, WriteNear
    <2>2. w'.pc = "meta.lock" /\ w'.op = w.op
      BY <1>3 DEF TypeOK, WorkerOK
    <2> QED BY <1>2, <2>1, <2>2, ToMeta DEF CredInv
  <1>4. CASE ~ok
    BY <1>1, <1>4, RestFields, AtRest, FilesStay DEF Fails, CredInv
  <1> QED BY <1>3, <1>4

(* So does deleting: what is put back, if that fails, counts for nothing.  *)
LEMMA RemoveMoves ==
    ASSUME TypeOK, TypeOK', CredInv, RemoveSnapshot
    PROVE  CredInv'
  <1> PICK ok \in BOOLEAN :
         IF ok THEN /\ snap' = [snap EXCEPT ![w.slot] = NoCred]
                    /\ excused' = excused \cup GivenUp(w.slot, NoCred)
                    /\ w' = [w EXCEPT !.pc = "meta.lock"]
         ELSE Fails /\ UNCHANGED <<snap, excused>>
    BY DEF RemoveSnapshot
  <1>1. UNCHANGED <<live, grants>> /\ w.pc = "remove"
    BY DEF RemoveSnapshot
  <1>2. w.op = "delete" /\ w.slot \in Slots /\ w.bytes # NoCred /\ snap[w.slot] = w.bytes
    BY <1>1 DEF CredInv, WorkerInv, Deleting
  <1>3. CASE ok
    <2>1. LiveValid' /\ OneSlot' /\ Fresh'
      BY <1>1, <1>2, <1>3, WriteNear DEF Near
    <2>2. w'.pc = "meta.lock" /\ w'.op = w.op /\ w'.slot = w.slot /\ w'.bytes = w.bytes
      BY <1>3 DEF TypeOK, WorkerOK
    <2>3. snap'[w.slot] = NoCred
      BY <1>2, <1>3 DEF TypeOK, FilesOK
    <2>4. AcctOf(w.bytes) \in Accounts
      BY <1>2, AcctType DEF TypeOK, WorkerOK
    <2>5. Near(w.bytes) \/ Valid(w.bytes)
      BY <1>1, <1>2 DEF CredInv, Fresh
    <2>6. Valid(w.bytes) => AcctOf(w.bytes) \in GivenUp(w.slot, NoCred)
      BY <1>2, <2>4 DEF GivenUp
    <2>7. Near(w.bytes)'
      BY <1>1, <1>3, <2>2, <2>5, <2>6 DEF Near, IsOf, AcctOf
    <2>8. WorkerInv'
      BY <1>2, <2>2, <2>3, <2>7 DEF WorkerInv, Listed, Renewing, Saving, Deleting, Switching
    <2> QED BY <2>1, <2>8 DEF CredInv
  <1>4. CASE ~ok
    BY <1>1, <1>4, RestFields, AtRest, FilesStay DEF Fails, CredInv
  <1> QED BY <1>3, <1>4

(* A failed deletion puts the credentials back.                            *)
LEMMA UndoMoves ==
    ASSUME TypeOK, TypeOK', CredInv, UndoDelete
    PROVE  CredInv'
  <1> PICK ok \in BOOLEAN : snap' = IF ok THEN [snap EXCEPT ![w.slot] = w.bytes] ELSE snap
    BY DEF UndoDelete
  <1>1. UNCHANGED <<live, grants, excused>> /\ w.pc = "undo" /\ w' = Resting
    BY DEF UndoDelete, Fails
  <1>2. w.slot \in Slots /\ Near(w.bytes)
    BY <1>1 DEF CredInv, WorkerInv, Deleting
  <1>3. LiveValid' /\ OneSlot' /\ Fresh'
    <2>1. CASE ok
      BY <1>1, <1>2, <2>1, WriteNear
    <2>2. CASE ~ok
      BY <1>1, <2>2, FilesStay
    <2> QED BY <2>1, <2>2
  <1> QED BY <1>1, <1>3, RestFields, AtRest DEF CredInv

(* The current credentials go into their slot: now auth.json may be        *)
(* replaced.                                                               *)
LEMMA KeepMoves ==
    ASSUME TypeOK, TypeOK', CredInv, KeepCurrent
    PROVE  CredInv'
  <1> PICK ok \in BOOLEAN :
         /\ snap' = KeptSnapshots(ok)
         /\ IF ok THEN w' = [w EXCEPT !.pc = "replace"] /\ UNCHANGED outcome ELSE Fails
    BY DEF KeepCurrent
  <1>1. UNCHANGED <<live, grants, excused>> /\ w.pc = "keep"
    BY DEF KeepCurrent
  <1>2. CASE ~ok
    BY <1>1, <1>2, RestFields, AtRest, FilesStay DEF Fails, CredInv, KeptSnapshots
  <1>3. CASE ok
    <2>1. w'.pc = "replace" /\ w'.op = w.op /\ w'.live = w.live /\ w'.slot = w.slot /\ w'.bytes = w.bytes
      BY <1>3 DEF TypeOK, WorkerOK
    <2>2. snap' = [snap EXCEPT ![w.slot] = w.live] /\ w.op = "switch"
      BY <1>1, <1>3 DEF KeptSnapshots, CredInv, WorkerInv, Switching
    <2>3. CASE excused = Accounts
      <3>1. LiveValid' /\ OneSlot' /\ Fresh'
        BY <1>1, <2>3, AllExcused
      <3>4. WorkerInv'
        BY <1>1, <2>1, <2>2, <2>3 DEF WorkerInv, Listed, Renewing, Saving, Deleting, Switching
      <3> QED BY <3>1, <3>4 DEF CredInv
    <2>4. CASE excused # Accounts
      <3>1. /\ w.live # NoCred /\ live = w.live /\ Chosen
            /\ AcctOf(w.live) \notin excused => Valid(w.live)
        BY <1>1, <2>4 DEF CredInv, WorkerInv, Switching
      <3>2. w.slot \in Slots /\ Near(w.live)
        BY <3>1 DEF Chosen, Near, IsOf
      <3>3. LiveValid' /\ OneSlot' /\ Fresh'
        BY <1>1, <2>2, <3>2, WriteNear
      <3>4. snap'[w.slot] = w.live /\ \A t \in Slots \ {w.slot} : snap'[t] = snap[t]
        BY <2>2, <3>2 DEF TypeOK, FilesOK
      <3>5. \A t \in Slots : SameAccount(snap[t], w.live)' <=> SameAccount(snap[t], w.live)
        <4>1. SameAccount(snap[w.slot], w.live)
          BY <3>1, <3>2 DEF Chosen
        <4> QED BY <1>1, <2>1, <3>1, <3>2, <3>4, <4>1 DEF SameAccount, AcctOf
      <3>6. Chosen'
        BY <2>1, <3>1, <3>4, <3>5 DEF Chosen
      <3>7. Switching'
        BY <1>1, <2>1, <2>2, <3>1, <3>4, <3>6 DEF Switching, Valid, AcctOf
      <3>8. WorkerInv'
        BY <2>1, <2>2, <3>7 DEF WorkerInv, Listed, Renewing, Saving, Deleting
      <3> QED BY <3>3, <3>8 DEF CredInv
    <2> QED BY <2>3, <2>4
  <1> QED BY <1>2, <1>3

(* Whatever becomes of auth.json, the slot has its credentials, and the    *)
(* target is the only slot with its account.                               *)
LEMMA ReplaceMoves ==
    ASSUME TypeOK, TypeOK', CredInv, ReplaceLive
    PROVE  CredInv'
  <1>1. UNCHANGED <<snap, grants, excused>> /\ w.pc = "replace"
    BY DEF ReplaceLive
  <1>2. \/ live' = w.bytes /\ w' = Switched
        \/ live' = live /\ w' = Resting
        \/ live' \in {live, NoCred} /\ w' = [w EXCEPT !.pc = "restore", !.live = live]
    BY DEF ReplaceLive, Fails, Switched
  <1>3. \/ w'.pc = "prepare" /\ w'.op = "switch" /\ w'.live = live'
        \/ w'.pc = "idle"
        \/ w'.pc = "restore" /\ w'.op = w.op /\ w'.live = live
    BY <1>2, RestFields, ListFields DEF TypeOK, WorkerOK
  <1>4. w.op = "switch"
    BY <1>1 DEF CredInv, WorkerInv, Switching
  <1>5. CASE excused = Accounts
    <2>1. LiveValid' /\ OneSlot' /\ Fresh'
      BY <1>1, <1>5, AllExcused
    <2>2. CASE w'.pc = "restore" /\ w'.op = w.op /\ w'.live = live
      BY <1>1, <1>4, <1>5, <2>1, <2>2
         DEF CredInv, WorkerInv, Listed, Renewing, Saving, Deleting, Switching
    <2> QED BY <1>3, <2>1, <2>2, ToList, AtRest DEF CredInv
  <1>6. CASE excused # Accounts
    <2>1. /\ w.live # NoCred /\ live = w.live /\ Chosen /\ snap[w.slot] = live
          /\ AcctOf(live) \in excused \/ Valid(live)
      BY <1>1, <1>6 DEF CredInv, WorkerInv, Switching
    <2>2. \A s \in Slots : s # w.slot => ~SameAccount(snap[s], live)
      BY <2>1 DEF Chosen
    <2>3. \A s \in Slots : s # w.slot /\ Near(snap[s]) /\ snap[s] # NoCred => AcctOf(snap[s]) \in excused
      BY <2>1, <2>2 DEF Near, IsOf, SameAccount
    <2>4. OneSlot'
      <3>1. \A s, t \in Slots : SameAccount(snap[s], snap[t]) /\ s # t => AcctOf(snap[s]) \in excused
        BY <2>1, <2>2, <2>3 DEF CredInv, OneSlot, SameAccount
      <3> QED BY <1>1, <3>1 DEF OneSlot, Near, SameAccount, AcctOf
    <2>5. Fresh'
      <3>1. \A s \in Slots : snap[s] = NoCred \/ AcctOf(snap[s]) \in excused \/ Valid(snap[s])
        BY <1>1, <2>1, <2>3 DEF CredInv, Fresh
      <3> QED BY <1>1, <3>1 DEF Fresh, Near, Valid, AcctOf
    <2>6. LiveValid'
      <3>1. live' = NoCred \/ live' = live \/ \E t \in Slots \ {w.slot} : live' = snap[t]
        BY <1>2, <2>1 DEF Chosen
      <3>2. \A t \in Slots \ {w.slot} : snap[t] = NoCred \/ AcctOf(snap[t]) \in excused \/ Valid(snap[t])
        BY <1>1, <2>3 DEF CredInv, Fresh
      <3> QED BY <1>1, <2>1, <3>1, <3>2 DEF LiveValid, Valid, AcctOf
    <2>7. CASE w'.pc = "restore" /\ w'.op = w.op /\ w'.live = live
      <3>1. live' \in {live, NoCred}
        BY <1>2, <2>7, RestFields, ListFields
      <3>2. Switching'
        BY <1>1, <1>4, <2>1, <2>7, <3>1 DEF Switching, Valid, AcctOf
      <3>3. WorkerInv'
        BY <2>7, <3>2, <1>4 DEF WorkerInv, Listed, Renewing, Saving, Deleting
      <3> QED BY <2>4, <2>5, <2>6, <3>3 DEF CredInv
    <2> QED BY <1>3, <2>4, <2>5, <2>6, <2>7, ToList, AtRest DEF CredInv
  <1> QED BY <1>5, <1>6

(* The rollback of auth.json.                                              *)
LEMMA RestoreMoves ==
    ASSUME TypeOK, TypeOK', CredInv, RestoreLive
    PROVE  CredInv'
  <1>1. UNCHANGED <<snap, grants, excused>> /\ w.pc = "restore" /\ w' = Resting
    BY DEF RestoreLive
  <1>2. live' = w.live \/ live' = live
    BY DEF RestoreLive, Restored
  <1>3. WorkerInv'
    BY <1>1, RestFields, AtRest
  <1>4. CASE excused = Accounts
    BY <1>1, <1>3, <1>4, AllExcused DEF CredInv
  <1>5. CASE excused # Accounts
    <2>1. /\ (w.live # NoCred /\ live = w.live) \/ live = NoCred
          /\ AcctOf(w.live) \in excused \/ Valid(w.live)
      BY <1>1, <1>5 DEF CredInv, WorkerInv, Switching
    <2>2. live' = live \/ live = NoCred
      BY <1>2, <2>1
    <2>3. \A c : Near(c) => (c # NoCred => AcctOf(c) \in excused \/ (live' # NoCred /\ AcctOf(live') = AcctOf(c)))
      BY <2>2 DEF Near, IsOf
    <2>4. LiveValid'
      BY <1>1, <1>2, <2>1 DEF CredInv, LiveValid, Valid, AcctOf
    <2>5. OneSlot' /\ Fresh'
      BY <1>1, <2>3 DEF CredInv, OneSlot, Fresh, Near, IsOf, SameAccount, Valid, AcctOf
    <2> QED BY <1>3, <2>4, <2>5 DEF CredInv
  <1> QED BY <1>4, <1>5

(* A renewal makes older versions of its grant unusable: auth.json has     *)
(* none, and another slot with the account would be excused.               *)
LEMMA RenewMoves ==
    ASSUME TypeOK, TypeOK', CredInv, PrepareRenew
    PROVE  CredInv'
  <1> PICK s \in NextSlots, ok \in BOOLEAN : PrepareRenew!(s, ok)
    BY DEF PrepareRenew
  <1> DEFINE c == snap[s]
             d == [c EXCEPT !.ver = @ + 1]
  <1>1. s \in Slots /\ UNCHANGED <<live, snap>> /\ w.pc = "prepare"
    BY DEF NextSlots, TypeOK, WorkerOK, files
  <1>2. c # NoCred /\ c.ver = grants[c.grant].ver /\ ~SameAccount(c, w.live)
    BY DEF Valid, Mirror
  <1>3. c.grant \in 1..Len(grants) /\ c \in Creds /\ AcctOf(c) \in Accounts
    BY <1>1, <1>2, AcctType DEF TypeOK, FilesOK
  <1>4. /\ DOMAIN grants = 1..Len(grants)
        /\ grants \in [1..Len(grants) -> [acct : Accounts, ver : 1..MaxVer]]
    BY SeqIsFunction DEF TypeOK, ServerOK
  <1>5. /\ grants'[c.grant].acct = grants[c.grant].acct
        /\ grants'[c.grant].ver = c.ver + 1
        /\ \A g \in DOMAIN grants : g # c.grant => grants'[g] = grants[g]
    BY <1>2, <1>3, <1>4
  <1>6. \A x \in Known : x # NoCred =>
          /\ x.grant \in DOMAIN grants
          /\ grants'[x.grant].acct = AcctOf(x)
          /\ x.grant # c.grant => grants'[x.grant].ver = grants[x.grant].ver
    BY <1>5 DEF Known, AcctOf
  <1>7. live \in Known /\ w.live \in Known /\ \A t \in Slots : snap[t] \in Known
    BY DEF TypeOK, FilesOK, WorkerOK
  <1>8. d # NoCred /\ d.grant = c.grant /\ d.ver = c.ver + 1
    BY <1>3, StoreAssumption DEF Creds
  <1>9. /\ w'.op = w.op /\ w'.live = w.live
        /\ \/ /\ ok /\ w'.pc = "store" /\ w'.slot = s /\ w'.bytes = d
              /\ excused' = excused
           \/ ~ok /\ w'.pc = "prepare" /\ excused' = excused \cup {AcctOf(c)}
    BY <1>1 DEF TypeOK, WorkerOK
  <1> HIDE DEF d
  <1>10. Near(w.live) /\ w.op \in {"list", "switch"} /\ LiveIsOurs
    BY <1>1 DEF CredInv, WorkerInv, Listed
  <1>11. live # NoCred => live.grant # c.grant
    BY <1>1, <1>2, <1>10 DEF LiveIsOurs, SameAccount, AcctOf
  <1>12. \A x \in Known : Near(x) => (x # NoCred =>
            AcctOf(x) \in excused' \/ (live # NoCred /\ AcctOf(live) = AcctOf(x)))
    BY <1>9 DEF Near, IsOf
  <1>13. LiveValid'
    BY <1>1, <1>6, <1>7, <1>9, <1>11 DEF CredInv, LiveValid, Valid, AcctOf
  <1>14. OneSlot'
    BY <1>1, <1>6, <1>7, <1>12 DEF CredInv, OneSlot, SameAccount, Near, IsOf, AcctOf
  <1>15. ASSUME NEW t \in Slots
         PROVE  (Near(snap[t]) \/ Valid(snap[t]) \/ (w.pc = "store" /\ w.slot = t))'
    <2>1. CASE t = s
      BY <1>1, <1>6, <1>7, <1>9, <2>1 DEF Near, AcctOf
    <2>2. CASE t # s
      <3>1. snap[t].grant = c.grant /\ snap[t] # NoCred => Near(snap[t])
        BY <1>1, <1>2, <2>2 DEF CredInv, OneSlot, SameAccount, AcctOf
      <3>2. Near(snap[t]) => Near(snap[t])'
        BY <1>1, <1>6, <1>7, <1>12 DEF Near, IsOf, AcctOf
      <3>3. Valid(snap[t]) /\ snap[t].grant # c.grant => Valid(snap[t])'
        BY <1>1, <1>6, <1>7 DEF Valid
      <3>4. Near(snap[t]) \/ Valid(snap[t])
        BY <1>1 DEF CredInv, Fresh
      <3> QED BY <3>1, <3>2, <3>3, <3>4 DEF Valid
    <2> QED BY <2>1, <2>2
  <1>16. Listed'
    <2>1. Near(w.live)'
      BY <1>1, <1>6, <1>7, <1>9, <1>10, <1>12 DEF Near, IsOf, AcctOf
    <2>2. LiveIsOurs'
      BY <1>1, <1>9, <1>10 DEF LiveIsOurs
    <2> QED BY <1>9, <1>10, <2>1, <2>2 DEF Listed
  <1>17. Renewing'
    <2>1. w'.pc = "store" => ~SameAccount(w.bytes, w.live)'
      <3> SUFFICES ASSUME w'.pc = "store", SameAccount(w.bytes, w.live)'
                   PROVE  FALSE
        OBVIOUS
      <3>1. w'.bytes = d /\ w'.live = w.live
        BY <1>9
      <3>2. w.live # NoCred /\ grants'[d.grant].acct = grants'[w.live.grant].acct
        BY <3>1 DEF SameAccount, AcctOf
      <3>3. grants'[w.live.grant].acct = AcctOf(w.live)
        BY <1>6, <1>7, <3>2
      <3>4. grants'[d.grant].acct = AcctOf(c)
        BY <1>5, <1>8 DEF AcctOf
      <3> QED BY <1>2, <3>2, <3>3, <3>4 DEF SameAccount
    <2> QED BY <1>1, <1>2, <1>5, <1>8, <1>9, <2>1 DEF Renewing, Valid
  <1>18. WorkerInv'
    BY <1>9, <1>16, <1>17 DEF WorkerInv, Saving, Deleting, Switching
  <1> QED BY <1>13, <1>14, <1>15, <1>18 DEF CredInv, Fresh

(* What Codex writes to auth.json. *)
LEMMA CliMoves ==
    ASSUME TypeOK, TypeOK', CredInv, UNCHANGED <<snap, w>>, excused' \cap Accounts = excused',
           Raced \cup excused \subseteq excused', live' # NoCred, Valid(live)',
           \A x \in Known : x # NoCred => grants'[x.grant].acct = AcctOf(x),
           \A x \in Known : Near(x) /\ x # NoCred =>
              AcctOf(x) \in excused' \/ AcctOf(live)' = AcctOf(x),
           \A x \in Known : Valid(x) /\ (live = NoCred \/ x.grant # live.grant)
                                  => grants'[x.grant].ver = grants[x.grant].ver,
           \/ live # NoCred /\ live'.grant = live.grant
           \/ /\ \A x \in Known : x # NoCred => x.grant # live'.grant
              /\ \A x \in Known : Valid(x) => grants'[x.grant].ver = grants[x.grant].ver
    PROVE  CredInv'
  <1>1. /\ live \in Known /\ w.live \in Known /\ w.bytes \in Known
        /\ \A t \in Slots : snap[t] \in Known
    BY DEF TypeOK, FilesOK, WorkerOK
  <1>2. \A x \in Known : Near(x) => Near(x)'
    BY DEF Near, IsOf, AcctOf
  <1>3. LiveValid'
    BY DEF LiveValid
  <1>4. OneSlot'
    BY <1>1, <1>2 DEF CredInv, OneSlot, SameAccount, Near, AcctOf
  <1>5. \A x \in Known : Valid(x) => Near(x) \/ Valid(x)'
    <2> TAKE x \in Known
    <2>1. CASE live # NoCred /\ x.grant = live.grant
      BY <2>1 DEF Near, IsOf, AcctOf
    <2>2. CASE live = NoCred \/ x.grant # live.grant
      BY <2>2 DEF Valid
    <2> QED BY <2>1, <2>2
  <1>6. Fresh'
    BY <1>1, <1>2, <1>5 DEF CredInv, Fresh
  <1>7. LiveIsOurs => LiveIsOurs'
    BY <1>1 DEF LiveIsOurs
  <1>8. Listed'
    BY <1>1, <1>2, <1>7 DEF CredInv, WorkerInv, Listed
  <1>9. Renewing'
    <2> SUFFICES ASSUME w.pc = "store" PROVE Renewing'
      BY DEF Renewing
    <2>1. /\ w.slot \in Slots /\ snap[w.slot] # NoCred /\ Valid(w.bytes)
          /\ w.bytes.grant = snap[w.slot].grant /\ ~SameAccount(w.bytes, w.live) /\ LiveIsOurs
      BY DEF CredInv, WorkerInv, Renewing, Listed
    <2>2. live = NoCred \/ w.bytes.grant # live.grant
      BY <2>1 DEF LiveIsOurs, SameAccount, AcctOf, Valid
    <2>3. Valid(w.bytes)'
      BY <1>1, <2>1, <2>2 DEF Valid
    <2>4. ~SameAccount(w.bytes, w.live)'
      BY <1>1, <2>1 DEF SameAccount, AcctOf
    <2> QED BY <2>1, <2>3, <2>4 DEF Renewing
  <1>10. Saving' /\ Deleting'
    BY <1>1, <1>2 DEF CredInv, WorkerInv, Saving, Deleting
  <1>11. Switching'
    BY DEF CredInv, WorkerInv, Switching, Raced
  <1> QED BY <1>3, <1>4, <1>6, <1>8, <1>9, <1>10, <1>11 DEF CredInv, WorkerInv

(* Codex renews the live grant.                                            *)
LEMMA CliRenewMoves ==
    ASSUME TypeOK, TypeOK', CredInv, CliRenews
    PROVE  CredInv'
  <1>1. /\ live # NoCred /\ live.ver = grants[live.grant].ver /\ live.ver < MaxVer
        /\ UNCHANGED <<snap, w>>
        /\ grants' = [grants EXCEPT ![live.grant].ver = @ + 1]
        /\ live' = [live EXCEPT !.ver = @ + 1] /\ excused' = excused \cup Raced
    BY DEF CliRenews, Valid
  <1>2. live.grant \in 1..Len(grants) /\ live \in Creds
    BY <1>1, AcctType DEF TypeOK, FilesOK
  <1>3. /\ DOMAIN grants = 1..Len(grants)
        /\ grants \in [1..Len(grants) -> [acct : Accounts, ver : 1..MaxVer]]
    BY SeqIsFunction DEF TypeOK, ServerOK
  <1>4. /\ grants'[live.grant].acct = grants[live.grant].acct
        /\ grants'[live.grant].ver = live.ver + 1
        /\ \A g \in DOMAIN grants : g # live.grant => grants'[g] = grants[g]
    BY <1>1, <1>2, <1>3
  <1>5. live' # NoCred /\ live'.grant = live.grant /\ live'.ver = live.ver + 1
    <2>1. live' \in Creds /\ live'.grant = live.grant /\ live'.ver = live.ver + 1
      BY <1>1, <1>2, StoreAssumption DEF Creds
    <2> QED BY <2>1, StoreAssumption DEF Creds
  <1>6. \A x \in Known : x # NoCred =>
          /\ x.grant \in DOMAIN grants
          /\ grants'[x.grant].acct = AcctOf(x)
          /\ x.grant # live.grant => grants'[x.grant].ver = grants[x.grant].ver
    BY <1>4 DEF Known, AcctOf
  <1>7. Valid(live)' /\ AcctOf(live)' = AcctOf(live)
    BY <1>4, <1>5 DEF Valid, AcctOf
  <1>8. excused' \cap Accounts = excused' /\ Raced \cup excused \subseteq excused'
    BY <1>1 DEF TypeOK, RestOK
  <1>9. \A x \in Known : Near(x) /\ x # NoCred => AcctOf(x) \in excused' \/ AcctOf(live)' = AcctOf(x)
    BY <1>7, <1>8 DEF Near, IsOf
  <1>10. \A x \in Known : Valid(x) /\ (live = NoCred \/ x.grant # live.grant)
                             => grants'[x.grant].ver = grants[x.grant].ver
    BY <1>1, <1>6 DEF Valid
  <1> HIDE DEF CliRenews
  <1> QED BY <1>1, <1>5, <1>6, <1>7, <1>8, <1>9, <1>10, CliMoves

(* Codex signs in: the account that was live is excused.                   *)
LEMMA CliLoginMoves ==
    ASSUME TypeOK, TypeOK', CredInv, NEW a \in Accounts, CliLogin(a)
    PROVE  CredInv'
  <1> DEFINE n == Len(grants) + 1
  <1>1. /\ UNCHANGED <<snap, w>>
        /\ grants' = Append(grants, [acct |-> a, ver |-> 1])
        /\ live' = [grant |-> n, ver |-> 1]
        /\ excused' = excused \cup Raced \cup
             {b \in Accounts : live # NoCred /\ Valid(live) /\ AcctOf(live) = b /\ b # a}
    BY DEF CliLogin
  <1>2. /\ DOMAIN grants = 1..Len(grants) /\ Len(grants) \in Nat
        /\ grants \in [1..Len(grants) -> [acct : Accounts, ver : 1..MaxVer]]
    BY SeqIsFunction DEF TypeOK, ServerOK
  <1>3. /\ grants'[n].acct = a /\ grants'[n].ver = 1
        /\ \A g \in DOMAIN grants : grants'[g] = grants[g]
    BY <1>1, <1>2 DEF TypeOK, ServerOK
  <1>4. live' # NoCred
    BY <1>1, <1>2, StoreAssumption DEF CliLogin, Creds
  <1>5. \A x \in Known : x # NoCred =>
          /\ x.grant \in DOMAIN grants /\ x.grant # n
          /\ grants'[x.grant].acct = AcctOf(x)
          /\ grants'[x.grant].ver = grants[x.grant].ver
    BY <1>2, <1>3 DEF Known, AcctOf
  <1>6. live'.grant = n /\ Valid(live)' /\ AcctOf(live)' = a
    BY <1>1, <1>3, <1>4 DEF Valid, AcctOf
  <1>7. excused' \cap Accounts = excused' /\ Raced \cup excused \subseteq excused'
    BY <1>1 DEF TypeOK, RestOK, Raced
  <1>8. live # NoCred => AcctOf(live) \in excused' \/ AcctOf(live) = a
    <2> SUFFICES ASSUME live # NoCred, AcctOf(live) # a PROVE AcctOf(live) \in excused'
      OBVIOUS
    <2>1. AcctOf(live) \in Accounts
      BY AcctType DEF TypeOK, FilesOK
    <2>2. CASE Valid(live)
      BY <1>1, <2>1, <2>2
    <2>3. CASE ~Valid(live)
      BY <1>7, <2>3 DEF CredInv, LiveValid
    <2> QED BY <2>2, <2>3
  <1>9. \A x \in Known : Near(x) /\ x # NoCred => AcctOf(x) \in excused' \/ AcctOf(live)' = AcctOf(x)
    BY <1>6, <1>7, <1>8 DEF Near, IsOf
  <1>10. \A x \in Known : Valid(x) => x # NoCred
    BY DEF Valid
  <1> HIDE DEF n
  <1> QED BY <1>1, <1>4, <1>5, <1>6, <1>7, <1>9, <1>10, CliMoves

(* A crash loses what a worker was about to store.                         *)
LEMMA CrashMoves ==
    ASSUME TypeOK, TypeOK', CredInv, Crash
    PROVE  CredInv'
  <1>1. /\ UNCHANGED <<live, snap, grants>> /\ w' = Resting
        /\ excused' = excused \cup {a \in Accounts : w.pc = "store" /\ AcctOf(w.bytes) = a}
    BY DEF Crash, files
  <1>2. WorkerInv'
    BY <1>1, RestFields, AtRest
  <1>3. LiveValid'
    BY <1>1 DEF CredInv, LiveValid, Valid, AcctOf
  <1>4. OneSlot'
    BY <1>1 DEF CredInv, OneSlot, Near, IsOf, SameAccount, AcctOf
  <1>5. ASSUME NEW t \in Slots PROVE (Near(snap[t]) \/ Valid(snap[t]))'
    <2>1. CASE w.pc = "store" /\ w.slot = t
      <3>1. AcctOf(w.bytes) = AcctOf(snap[t]) /\ w.bytes # NoCred
        BY <2>1 DEF CredInv, WorkerInv, Renewing, Valid, AcctOf
      <3>2. AcctOf(w.bytes) \in Accounts
        BY <3>1, AcctType DEF TypeOK, WorkerOK
      <3> QED BY <1>1, <2>1, <3>1, <3>2 DEF Near, AcctOf
    <2>2. CASE ~(w.pc = "store" /\ w.slot = t)
      BY <1>1, <2>2 DEF CredInv, Fresh, Near, IsOf, Valid, AcctOf
    <2> QED BY <2>1, <2>2
  <1> QED BY <1>2, <1>3, <1>4, <1>5 DEF CredInv, Fresh

(* The other steps touch no credentials.                                   *)
LEMMA AsideMoves ==
    ASSUME CredInv, UNCHANGED <<live, snap, grants, excused, w>>
    PROVE  CredInv'
  BY DEF CredInv, LiveValid, OneSlot, Fresh, WorkerInv, Listed, LiveIsOurs, Renewing, Saving,
         Deleting, Switching, Chosen, Near, IsOf, SameAccount, Valid, AcctOf

(* Every step preserves the invariant.                                     *)
LEMMA NextCred == TypeOK /\ CredInv /\ [Next]_vars => CredInv'
  <1> SUFFICES ASSUME TypeOK, CredInv, [Next]_vars PROVE CredInv'
    OBVIOUS
  <1>0. TypeOK'
    BY NextTypes
  <1>1. CASE BeginEdit \/ EditLocks \/ EditWrites \/ CliStartsOrStops \/ UNCHANGED vars
    BY <1>1, AsideMoves DEF BeginEdit, EditLocks, EditWrites, CliStartsOrStops, vars, files
  <1>2. CASE BeginList \/ WorkerStep
    BY <1>0, <1>2, ListMoves, MirrorMoves, RenewMoves, StoreMoves, MetaMoves, SaveMoves,
       RemoveMoves, UndoMoves, ResolveMoves, KeepMoves, ReplaceMoves, RestoreMoves
       DEF WorkerStep
  <1> QED BY <1>0, <1>1, <1>2, OpMoves, CliRenewMoves, CliLoginMoves, CrashMoves DEF Next

(* It holds initially: a slot has the account of its number, or none.      *)
LEMMA InitCred == Init => CredInv
  <1> SUFFICES ASSUME Init PROVE CredInv
    OBVIOUS
  <1>0. Cardinality(Accounts) \in Nat
    BY StoreAssumption, FS_CardinalityType
  <1>1. live = [grant |-> 1, ver |-> 1] /\ grants[1].ver = 1
    BY <1>0, StoreAssumption DEF Init
  <1>2. LiveValid
    BY <1>1 DEF LiveValid, Valid
  <1>3. \A s \in Slots : snap[s] # NoCred =>
          s \in Accounts /\ snap[s] = [grant |-> s, ver |-> 1] /\ grants[s] = [acct |-> s, ver |-> 1]
    BY DEF Init
  <1>4. \A s \in Slots : snap[s] # NoCred => AcctOf(snap[s]) = s /\ Valid(snap[s])
    <2> SUFFICES ASSUME NEW s \in Slots, snap[s] # NoCred
                 PROVE  AcctOf(snap[s]) = s /\ Valid(snap[s])
      OBVIOUS
    <2>1. snap[s] = [grant |-> s, ver |-> 1]
      BY <1>3
    <2>2. grants[s] = [acct |-> s, ver |-> 1]
      BY <1>3
    <2>3. snap[s].grant = s /\ snap[s].ver = 1
      BY <2>1
    <2>4. grants[s].acct = s /\ grants[s].ver = 1
      BY <2>2
    <2> QED BY <2>3, <2>4 DEF AcctOf, Valid
  <1>5. OneSlot
    BY <1>4 DEF OneSlot, SameAccount
  <1>6. Fresh
    BY <1>4 DEF Fresh, Near
  <1>7. WorkerInv
    BY RestFields DEF Init, WorkerInv, Listed, Renewing, Saving, Deleting, Switching
  <1> QED BY <1>2, <1>5, <1>6, <1>7 DEF CredInv

(* The invariant names the usable credentials of every saved account.      *)
LEMMA UsableByCred == TypeOK /\ CredInv => SavedAccountsUsable
  <1> SUFFICES ASSUME TypeOK, CredInv, NEW s \in Slots, snap[s] # NoCred,
                      AcctOf(snap[s]) \notin excused
               PROVE  \E c \in Holders(AcctOf(snap[s])) : Valid(c)
    BY DEF SavedAccountsUsable
  <1>1. CASE IsOf(live, AcctOf(snap[s]))
    <2>1. Valid(live) /\ live \in Holders(AcctOf(snap[s]))
      BY <1>1 DEF CredInv, LiveValid, IsOf, Holders
    <2> QED BY <2>1
  <1>2. CASE Valid(snap[s])
    <2>1. snap[s] \in Holders(AcctOf(snap[s]))
      BY DEF Holders
    <2> QED BY <1>2, <2>1
  <1>3. CASE w.pc = "store" /\ w.slot = s
    <2>1. Valid(w.bytes) /\ AcctOf(w.bytes) = AcctOf(snap[s])
      BY <1>3 DEF CredInv, WorkerInv, Renewing, AcctOf
    <2>2. w.bytes \in Holders(AcctOf(snap[s]))
      BY <1>3, <2>1 DEF Holders, Valid
    <2> QED BY <2>1, <2>2
  <1> QED BY <1>1, <1>2, <1>3 DEF CredInv, Fresh, Near

(* Every saved account can still be used, for any number of slots, logins  *)
(* and renewals: refreshes, saves, switches and deletions, with any of     *)
(* their file operations failing or the program crashing, lose none.       *)
THEOREM AccountsStayUsable == Spec => []SavedAccountsUsable
  BY InitTypes, NextTypes, InitCred, NextCred, UsableByCred, PTL DEF Spec

-----------------------------------------------------------------------------
(* A grant belongs to one account for good.                                *)
LEMMA AccountsStay ==
    ASSUME TypeOK, [Next]_vars
    PROVE  \A x \in Known : x # NoCred => grants'[x.grant].acct = grants[x.grant].acct
  <1>1. /\ DOMAIN grants = 1..Len(grants) /\ Len(grants) \in Nat
        /\ grants \in [1..Len(grants) -> [acct : Accounts, ver : 1..MaxVer]]
    BY SeqIsFunction DEF TypeOK, ServerOK
  <1>2. \/ grants' = grants
        \/ \E g \in DOMAIN grants, v \in Nat : grants' = [grants EXCEPT ![g].ver = v]
        \/ \E a \in Accounts : grants' = Append(grants, [acct |-> a, ver |-> 1])
    <2>1. CASE PrepareRenew
      <3> PICK s \in NextSlots, ok \in BOOLEAN : PrepareRenew!(s, ok)
        BY <2>1 DEF PrepareRenew
      <3>1. s \in Slots /\ snap[s] \in Known /\ snap[s] # NoCred
        BY DEF NextSlots, Valid, TypeOK, WorkerOK, FilesOK
      <3>2. snap[s].grant \in DOMAIN grants
        BY <3>1 DEF Known
      <3>3. grants[snap[s].grant].ver + 1 \in Nat
        BY <1>1, <3>2, StoreAssumption
      <3> QED BY <3>2, <3>3
    <2>2. CASE CliRenews
      <3>1. live # NoCred /\ live \in Known
        BY <2>2 DEF CliRenews, TypeOK, FilesOK
      <3>2. live.grant \in DOMAIN grants
        BY <3>1 DEF Known
      <3>3. grants[live.grant].ver + 1 \in Nat
        BY <1>1, <3>2, StoreAssumption
      <3> QED BY <2>2, <3>2, <3>3 DEF CliRenews
    <2>3. CASE \E a \in Accounts : CliLogin(a)
      BY <2>3 DEF CliLogin
    <2>4. CASE \/ BeginList \/ PrepareMirror \/ PrepareFresh \/ PrepareRejected \/ StoreRenewed
               \/ ReadUsage \/ WorkerLocks \/ MergeUsage
      BY <2>4 DEF BeginList, PrepareMirror, PrepareFresh, PrepareRejected, StoreRenewed,
         ReadUsage, WorkerLocks, MergeUsage
    <2>5. CASE \E s \in Slots : BeginSave(s) \/ BeginRename(s) \/ BeginDelete(s) \/ BeginSwitch(s)
      BY <2>5 DEF BeginSave, BeginRename, BeginDelete, BeginSwitch
    <2>6. CASE \/ SaveSnapshot \/ RemoveSnapshot \/ WriteLabels \/ UndoDelete
               \/ ResolveActive \/ KeepCurrent \/ ReplaceLive \/ RestoreLive
      BY <2>6 DEF SaveSnapshot, RemoveSnapshot, WriteLabels, UndoDelete, ResolveActive,
         KeepCurrent, ReplaceLive, RestoreLive
    <2>7. CASE BeginEdit \/ EditLocks \/ EditWrites \/ CliStartsOrStops \/ Crash \/ UNCHANGED vars
      BY <2>7 DEF BeginEdit, EditLocks, EditWrites, CliStartsOrStops, Crash, vars
    <2> QED BY <2>1, <2>2, <2>3, <2>4, <2>5, <2>6, <2>7 DEF Next, WorkerStep
  <1>3. \A g \in DOMAIN grants : grants'[g].acct = grants[g].acct
    <2>1. CASE \E g \in DOMAIN grants, v \in Nat : grants' = [grants EXCEPT ![g].ver = v]
      BY <1>1, <2>1
    <2>2. CASE \E a \in Accounts : grants' = Append(grants, [acct |-> a, ver |-> 1])
      BY <1>1, <2>2 DEF TypeOK, ServerOK
    <2> QED BY <1>2, <2>1, <2>2
  <1> QED BY <1>3 DEF Known

(* What a step writes into a slot. *)
LEMMA SlotWrites ==
    ASSUME TypeOK, CredInv, [Next]_vars, NEW s \in Slots,
           w.op # "save", excused # Accounts, snap[s] # NoCred, snap'[s] # NoCred
    PROVE  \E c \in Known : snap'[s] = c /\ SameAccount(snap[s], c)
  <1>0. snap \in [Slots -> Known]
    BY DEF TypeOK, FilesOK
  <1>1. CASE snap' = snap
    BY <1>0, <1>1 DEF SameAccount
  <1>2. CASE PrepareMirror
    <2> PICK t \in NextSlots, ok \in BOOLEAN : PrepareMirror!(t, ok)
      BY <1>2 DEF PrepareMirror
    <2>1. t \in Slots /\ w.live \in Known
      BY DEF NextSlots, TypeOK, WorkerOK
    <2>2. CASE ok /\ s = t
      BY <1>0, <2>1, <2>2 DEF Mirror
    <2>3. CASE ~(ok /\ s = t)
      BY <1>0, <2>1, <2>3 DEF SameAccount
    <2> QED BY <2>2, <2>3
  <1>3. CASE StoreRenewed
    <2>1. w.slot \in Slots /\ SameAccount(snap[w.slot], w.bytes) /\ w.bytes \in Known
      BY <1>3 DEF StoreRenewed, CredInv, WorkerInv, Renewing, SameAccount, Valid, AcctOf,
                  TypeOK, WorkerOK
    <2>2. snap' = snap \/ snap' = [snap EXCEPT ![w.slot] = w.bytes]
      BY <1>3 DEF StoreRenewed
    <2> QED BY <1>0, <1>1, <2>1, <2>2 DEF SameAccount
  <1>4. CASE RemoveSnapshot
    <2>1. w.slot \in Slots
      BY <1>4 DEF RemoveSnapshot, CredInv, WorkerInv, Deleting
    <2>2. snap' = snap \/ snap' = [snap EXCEPT ![w.slot] = NoCred]
      BY <1>4 DEF RemoveSnapshot
    <2> QED BY <1>0, <1>1, <2>1, <2>2 DEF SameAccount
  <1>5. CASE UndoDelete
    <2>1. w.slot \in Slots /\ snap[w.slot] = NoCred
      BY <1>5 DEF UndoDelete, CredInv, WorkerInv, Deleting
    <2>2. snap' = snap \/ snap' = [snap EXCEPT ![w.slot] = w.bytes]
      BY <1>5 DEF UndoDelete
    <2> QED BY <1>0, <1>1, <2>1, <2>2 DEF SameAccount
  <1>6. CASE KeepCurrent
    <2>1. w.slot \in Slots /\ SameAccount(snap[w.slot], w.live) /\ w.live \in Known
      BY <1>6 DEF KeepCurrent, CredInv, WorkerInv, Switching, Chosen, TypeOK, WorkerOK
    <2>2. snap' = snap \/ snap' = [snap EXCEPT ![w.slot] = w.live]
      BY <1>6 DEF KeepCurrent, KeptSnapshots
    <2> QED BY <1>0, <1>1, <2>1, <2>2 DEF SameAccount
  <1>7. ASSUME SaveSnapshot PROVE FALSE
    BY <1>7 DEF SaveSnapshot, CredInv, WorkerInv, Saving
  <1>8. CASE \/ BeginList \/ PrepareFresh \/ PrepareRejected \/ PrepareRenew \/ ReadUsage
             \/ WorkerLocks \/ MergeUsage \/ WriteLabels \/ ResolveActive \/ ReplaceLive \/ RestoreLive
    BY <1>1, <1>8 DEF BeginList, PrepareFresh, PrepareRejected, PrepareRenew, ReadUsage,
       WorkerLocks, MergeUsage, WriteLabels, ResolveActive, ReplaceLive, RestoreLive, files
  <1>9. CASE \E t \in Slots : BeginSave(t) \/ BeginRename(t) \/ BeginDelete(t) \/ BeginSwitch(t)
    BY <1>1, <1>9 DEF BeginSave, BeginRename, BeginDelete, BeginSwitch, files
  <1>10. CASE \/ BeginEdit \/ EditLocks \/ EditWrites \/ CliStartsOrStops \/ CliRenews
              \/ (\E a \in Accounts : CliLogin(a)) \/ Crash \/ UNCHANGED vars
    BY <1>1, <1>10 DEF BeginEdit, EditLocks, EditWrites, CliStartsOrStops, CliRenews, CliLogin,
       Crash, vars, files
  <1> QED BY <1>2, <1>3, <1>4, <1>5, <1>6, <1>7, <1>8, <1>9, <1>10 DEF Next, WorkerStep

(* Hence an account leaves its slot by saving only.                        *)
LEMMA SlotSteps ==
    TypeOK /\ CredInv /\ [Next]_vars =>
      [\A s \in Slots :
         /\ snap[s] # NoCred /\ snap'[s] # NoCred
         /\ grants[snap[s].grant].acct # grants'[snap'[s].grant].acct
         => w.op = "save" \/ excused = Accounts]_vars
  <1> SUFFICES ASSUME TypeOK, CredInv, [Next]_vars, NEW s \in Slots, w.op # "save",
                      excused # Accounts, snap[s] # NoCred, snap'[s] # NoCred
               PROVE  grants[snap[s].grant].acct = grants'[snap'[s].grant].acct
    OBVIOUS
  <1>1. PICK c \in Known : snap'[s] = c /\ SameAccount(snap[s], c)
    BY SlotWrites
  <1>2. c # NoCred /\ grants[snap[s].grant].acct = grants[c.grant].acct
    BY <1>1 DEF SameAccount, AcctOf
  <1> QED BY <1>1, <1>2, AccountsStay

(* No refresh, mirror, switch or undone deletion moves an account into     *)
(* another account's slot: only saving does.                               *)
THEOREM SlotsStayTheirs == Spec => SlotsKeepTheirAccounts
  BY InitTypes, NextTypes, InitCred, NextCred, SlotSteps, PTL DEF Spec, SlotsKeepTheirAccounts

-----------------------------------------------------------------------------
(* What a switch is about to make live belongs to the account of its       *)
(* target, and so does auth.json while the switch lists the accounts,      *)
(* unless Codex signs in.                                                  *)
Aims ==
    w.op = "switch" =>
      /\ w.pc \in {"resolve", "keep"} => w.live # NoCred
      /\ w.pc = "keep" => IF w.target = w.slot THEN w.bytes = w.live
                          ELSE w.bytes = snap[w.target] /\ w.bytes # NoCred
      /\ w.pc = "replace" => SameAccount(w.bytes, snap[w.target])
      /\ ListsSwitched => /\ w.logins <= Len(grants)
                          /\ Len(grants) = w.logins => SameAccount(live, snap[w.target])

LEMMA InitAims == Init => Aims
  BY RestFields DEF Init, Aims

(* As many logins as indices. *)
LEMMA SameLogins ==
    ASSUME TypeOK, TypeOK', DOMAIN grants' = DOMAIN grants
    PROVE  Len(grants') = Len(grants)
  <1>1. /\ DOMAIN grants = 1..Len(grants) /\ Len(grants) \in Nat
        /\ DOMAIN grants' = 1..Len(grants') /\ Len(grants') \in Nat
    BY SeqIsFunction DEF TypeOK, ServerOK
  <1> QED BY <1>1

(* Credentials of one account stay those of one account. *)
LEMMA SameStays ==
    ASSUME TypeOK, [Next]_vars, NEW c \in Known, NEW d \in Known, SameAccount(c, d)
    PROVE  /\ c # NoCred /\ d # NoCred
           /\ grants'[c.grant].acct = grants'[d.grant].acct
  BY AccountsStay DEF SameAccount, AcctOf

(* The steps of the listing leave live and the account of every slot. *)
LEMMA ListAims ==
    ASSUME TypeOK, TypeOK', CredInv, Aims, [Next]_vars,
           \/ PrepareMirror \/ PrepareFresh \/ PrepareRejected \/ PrepareRenew \/ StoreRenewed
           \/ ReadUsage \/ WorkerLocks \/ MergeUsage
    PROVE  Aims'
  <1> SUFFICES ASSUME w'.op = "switch" PROVE Aims'
    BY DEF Aims
  <1>1. /\ w.op = "switch" /\ w'.target = w.target /\ w'.logins = w.logins
        /\ ListsSwitched /\ ListsSwitched' /\ live' = live
        /\ ~MergeUsage
    <2>1. CASE PrepareMirror
      BY <2>1 DEF PrepareMirror, TypeOK, WorkerOK, ListsSwitched, MergeUsage
    <2>2. CASE PrepareFresh \/ PrepareRejected
      BY <2>2 DEF PrepareFresh, PrepareRejected, TypeOK, WorkerOK, files, ListsSwitched, MergeUsage
    <2>3. CASE PrepareRenew
      <3>1. UNCHANGED <<live, snap>> /\ w.pc = "prepare"
        BY <2>3 DEF PrepareRenew, files
      <3>2. \E t, b :
              \/ w' = [w EXCEPT !.pc = "store", !.slot = t, !.todo = w.todo \ {t}, !.bytes = b]
              \/ w' = [w EXCEPT !.todo = w.todo \ {t}]
        BY <2>3 DEF PrepareRenew
      <3>3. /\ UNCHANGED <<w.op, w.target, w.logins, w.live>>
            /\ w'.pc \in {"prepare", "store"}
        BY <3>1, <3>2 DEF TypeOK, WorkerOK
      <3> QED BY <3>1, <3>3 DEF ListsSwitched, MergeUsage
    <2>4. CASE StoreRenewed
      BY <2>4 DEF StoreRenewed, TypeOK, WorkerOK, ListsSwitched, MergeUsage
    <2>5. CASE ReadUsage \/ WorkerLocks
      BY <2>5 DEF ReadUsage, WorkerLocks, TypeOK, WorkerOK, files, ListsSwitched, MergeUsage
    <2>6. ~MergeUsage
      BY RestFields DEF MergeUsage
    <2> QED BY <2>1, <2>2, <2>3, <2>4, <2>5, <2>6
  <1>2. Len(grants') = Len(grants)
    <2>1. DOMAIN grants' = DOMAIN grants
      BY <1>1 DEF PrepareMirror, PrepareFresh, PrepareRejected, PrepareRenew, StoreRenewed,
         ReadUsage, WorkerLocks
    <2> QED BY <2>1, SameLogins
  <1>3. w.target \in Slots /\ live \in Known /\ snap \in [Slots -> Known]
    BY <1>1 DEF TypeOK, WorkerOK, FilesOK
  <1>4. ASSUME Len(grants) = w.logins PROVE SameAccount(live, snap[w.target])'
    <2>1. SameAccount(live, snap[w.target])
      BY <1>1, <1>4 DEF Aims
    <2>2. w.op # "save" /\ snap[w.target] # NoCred
      BY <1>1, <2>1 DEF SameAccount
    <2>3. \E c \in Known : snap'[w.target] = c /\ SameAccount(snap[w.target], c)
      <3>1. CASE snap' = snap
        BY <1>3, <2>2, <3>1 DEF SameAccount
      <3>2. CASE PrepareMirror
        <4> PICK t \in NextSlots, ok \in BOOLEAN : PrepareMirror!(t, ok)
          BY <3>2 DEF PrepareMirror
        <4>1. t \in Slots /\ w.live \in Known /\ SameAccount(snap[t], w.live)
          BY DEF NextSlots, Mirror, TypeOK, WorkerOK
        <4>2. snap' = snap \/ snap' = [snap EXCEPT ![t] = w.live]
          OBVIOUS
        <4> QED BY <1>3, <3>1, <4>1, <4>2, <2>2 DEF SameAccount
      <3>3. CASE StoreRenewed
        <4>1. w.slot \in Slots /\ SameAccount(snap[w.slot], w.bytes) /\ w.bytes \in Known
          BY <3>3 DEF StoreRenewed, CredInv, WorkerInv, Renewing, SameAccount, Valid, AcctOf,
                      TypeOK, WorkerOK
        <4>2. snap' = snap \/ snap' = [snap EXCEPT ![w.slot] = w.bytes]
          BY <3>3 DEF StoreRenewed
        <4> QED BY <1>3, <3>1, <4>1, <4>2, <2>2 DEF SameAccount
      <3> QED BY <1>1, <3>1, <3>2, <3>3 DEF PrepareFresh, PrepareRejected, PrepareRenew,
              ReadUsage, WorkerLocks, files
    <2> PICK c \in Known : snap'[w.target] = c /\ SameAccount(snap[w.target], c)
      BY <2>3
    <2>4. SameAccount(live, c)
      BY <2>1 DEF SameAccount
    <2>5. live # NoCred /\ c # NoCred /\ grants'[live.grant].acct = grants'[c.grant].acct
      BY <1>3, <2>4, SameStays
    <2> QED BY <1>1, <2>5 DEF SameAccount, AcctOf
  <1>5. w.logins <= Len(grants)
    BY <1>1 DEF Aims
  <1> QED BY <1>1, <1>2, <1>4, <1>5 DEF Aims, ListsSwitched

(* The steps of a switch up to the replacement. *)
LEMMA SwitchAims ==
    ASSUME TypeOK, TypeOK', CredInv, Aims,
           ResolveActive \/ KeepCurrent \/ ReplaceLive \/ RestoreLive
    PROVE  Aims'
  <1> SUFFICES ASSUME w'.op = "switch" PROVE Aims'
    BY DEF Aims
  <1>0. snap \in [Slots -> Known] /\ grants' = grants
    BY DEF TypeOK, FilesOK, ResolveActive, KeepCurrent, ReplaceLive, RestoreLive
  <1>1. CASE ResolveActive
    <2> PICK s \in ActiveSlots :
          /\ w.target = s \/ snap[w.target] # NoCred
          /\ w' = [w EXCEPT !.pc = "keep", !.slot = s,
                            !.bytes = IF w.target = s THEN w.live ELSE snap[w.target]]
      BY <1>1, RestFields DEF ResolveActive, Fails
    <2>1. /\ w'.pc = "keep" /\ w'.slot = s /\ w'.live = w.live /\ w'.target = w.target
          /\ w'.bytes = IF w.target = s THEN w.live ELSE snap[w.target]
          /\ w.pc = "resolve" /\ w.op = "switch" /\ snap' = snap
      BY <1>1 DEF TypeOK, WorkerOK, ResolveActive, files
    <2> QED BY <2>1 DEF Aims, ListsSwitched
  <1>2. CASE KeepCurrent
    <2>1. /\ w.pc = "keep" /\ w.op = "switch" /\ w'.pc = "replace" /\ w'.target = w.target
          /\ w'.bytes = w.bytes /\ snap' = [snap EXCEPT ![w.slot] = w.live]
      BY <1>2, RestFields DEF KeepCurrent, KeptSnapshots, Fails, TypeOK, WorkerOK
    <2>2. w.target \in Slots /\ w.bytes # NoCred /\ snap'[w.target] = w.bytes
      BY <1>0, <2>1 DEF Aims, TypeOK, WorkerOK
    <2>3. SameAccount(w.bytes, snap[w.target])'
      BY <2>1, <2>2 DEF SameAccount
    <2> QED BY <2>1, <2>3 DEF Aims, ListsSwitched
  <1>3. CASE ReplaceLive
    <2>1. w.pc = "replace" /\ snap' = snap /\ w.op = "switch"
      BY <1>3 DEF ReplaceLive, CredInv, WorkerInv, Switching
    <2>2. CASE w' = Switched /\ live' = w.bytes
      <3>1. w'.pc = "prepare" /\ w'.target = w.target /\ w'.logins = Len(grants)
        BY <2>2, ListFields
      <3>2. SameAccount(live, snap[w.target])'
        BY <1>0, <2>1, <2>2, <3>1 DEF Aims, SameAccount, AcctOf
      <3>3. Len(grants) \in Nat
        BY SeqIsFunction DEF TypeOK, ServerOK
      <3> QED BY <1>0, <3>1, <3>2, <3>3 DEF Aims, ListsSwitched
    <2>3. CASE w'.pc = "restore"
      BY <2>3 DEF Aims, ListsSwitched
    <2>4. \/ w' = Switched /\ live' = w.bytes
          \/ w' = Resting
          \/ w' = [w EXCEPT !.pc = "restore", !.live = live]
      BY <1>3 DEF ReplaceLive, Fails, Switched
    <2> QED BY <2>2, <2>3, <2>4, RestFields DEF TypeOK, WorkerOK
  <1>4. CASE RestoreLive
    BY <1>4, RestFields DEF RestoreLive
  <1> QED BY <1>1, <1>2, <1>3, <1>4

(* What Codex writes: a renewal stays with its account, a login counts. *)
LEMMA CliAims ==
    ASSUME TypeOK, TypeOK', Aims, [Next]_vars, CliRenews \/ \E a \in Accounts : CliLogin(a)
    PROVE  Aims'
  <1>1. snap' = snap /\ w' = w
    BY DEF CliRenews, CliLogin
  <1>2. live \in Known /\ w.bytes \in Known /\ snap \in [Slots -> Known]
    BY DEF TypeOK, FilesOK, WorkerOK
  <1> SUFFICES ASSUME w.op = "switch" PROVE Aims'
    BY <1>1 DEF Aims
  <1>3. w.target \in Slots
    BY DEF TypeOK, WorkerOK
  <1>4. w.pc = "replace" => SameAccount(w.bytes, snap[w.target])'
    <2> SUFFICES ASSUME w.pc = "replace" PROVE SameAccount(w.bytes, snap[w.target])'
      OBVIOUS
    <2>1. SameAccount(w.bytes, snap[w.target])
      BY DEF Aims
    <2>2. /\ w.bytes # NoCred /\ snap[w.target] # NoCred
          /\ grants'[w.bytes.grant].acct = grants'[snap[w.target].grant].acct
      BY <1>2, <1>3, <2>1, SameStays
    <2> QED BY <1>1, <2>2 DEF SameAccount, AcctOf
  <1>5. ListsSwitched => /\ w.logins <= Len(grants')
                         /\ Len(grants') = w.logins => SameAccount(live, snap[w.target])'
    <2> SUFFICES ASSUME ListsSwitched
                 PROVE  /\ w.logins <= Len(grants')
                        /\ Len(grants') = w.logins => SameAccount(live, snap[w.target])'
      OBVIOUS
    <2>1. w.logins \in Nat /\ w.logins <= Len(grants)
      BY DEF Aims, TypeOK, WorkerOK
    <2>2. CASE CliRenews
      <3>1. live # NoCred /\ live' # NoCred /\ live'.grant = live.grant
        <4>1. live # NoCred /\ live' = [live EXCEPT !.ver = @ + 1]
          BY <2>2 DEF CliRenews
        <4>2. live \in Creds
          BY <1>2, <4>1 DEF Known
        <4>3. live'.grant = live.grant /\ live'.ver = live.ver + 1 /\ live.ver < MaxVer
          BY <2>2, <4>1, <4>2 DEF CliRenews, Creds
        <4>4. live' \in Creds
          BY <4>1, <4>2, <4>3, StoreAssumption DEF Creds
        <4> QED BY <4>1, <4>3, <4>4, StoreAssumption DEF Creds
      <3>2. ASSUME Len(grants) = w.logins PROVE SameAccount(live, snap[w.target])'
        <4>1. SameAccount(live, snap[w.target])
          BY <3>2 DEF Aims
        <4>2. /\ snap[w.target] # NoCred
              /\ grants'[live.grant].acct = grants'[snap[w.target].grant].acct
          BY <1>2, <1>3, <4>1, SameStays
        <4> QED BY <1>1, <3>1, <4>2 DEF SameAccount, AcctOf
      <3>3. Len(grants') = Len(grants)
        BY <2>2, SameLogins DEF CliRenews
      <3> QED BY <2>1, <3>2, <3>3
    <2>3. CASE \E a \in Accounts : CliLogin(a)
      <3>1. Len(grants) \in Nat
        BY SeqIsFunction DEF TypeOK, ServerOK
      <3>2. Len(grants') = Len(grants) + 1
        BY <2>3 DEF CliLogin, TypeOK, ServerOK
      <3> QED BY <2>1, <3>1, <3>2
    <2> QED BY <2>2, <2>3
  <1> QED BY <1>1, <1>4, <1>5 DEF Aims, ListsSwitched

LEMMA NextAims == TypeOK /\ CredInv /\ Aims /\ [Next]_vars => Aims'
  <1> SUFFICES ASSUME TypeOK, CredInv, Aims, [Next]_vars PROVE Aims'
    OBVIOUS
  <1>0. TypeOK'
    BY NextTypes
  <1>1. CASE \/ PrepareMirror \/ PrepareFresh \/ PrepareRejected \/ PrepareRenew \/ StoreRenewed
             \/ ReadUsage \/ WorkerLocks \/ MergeUsage
    BY <1>0, <1>1, ListAims
  <1>2. CASE ResolveActive \/ KeepCurrent \/ ReplaceLive \/ RestoreLive
    BY <1>0, <1>2, SwitchAims
  <1>3. CASE CliRenews \/ \E a \in Accounts : CliLogin(a)
    BY <1>0, <1>3, CliAims
  <1>4. CASE BeginEdit \/ EditLocks \/ EditWrites \/ CliStartsOrStops \/ UNCHANGED vars
    BY <1>4 DEF BeginEdit, EditLocks, EditWrites, CliStartsOrStops, vars, files, Aims,
       ListsSwitched, SameAccount, AcctOf
  <1>5. CASE BeginList \/ SaveSnapshot \/ RemoveSnapshot \/ WriteLabels \/ UndoDelete \/ Crash
    <2>1. w'.op # "switch"
      <3>1. CASE BeginList \/ UndoDelete \/ Crash
        BY <3>1, RestFields, ListFields DEF BeginList, UndoDelete, Crash, Fails
      <3>2. CASE SaveSnapshot \/ RemoveSnapshot
        BY <3>2, RestFields
           DEF SaveSnapshot, RemoveSnapshot, Fails, TypeOK, WorkerOK, CredInv, WorkerInv,
               Saving, Deleting
      <3>3. CASE WriteLabels
        BY <3>3, RestFields, ListFields DEF WriteLabels, Fails, TypeOK, WorkerOK
      <3> QED BY <1>5, <3>1, <3>2, <3>3
    <2> QED BY <2>1 DEF Aims
  <1>6. CASE \E s \in Slots : BeginSave(s) \/ BeginRename(s) \/ BeginDelete(s) \/ BeginSwitch(s)
    <2> PICK s \in Slots : BeginSave(s) \/ BeginRename(s) \/ BeginDelete(s) \/ BeginSwitch(s)
      BY <1>6
    <2>1. w'.op # "switch" \/ (w'.pc = "resolve" /\ w'.live = live /\ live # NoCred)
      <3>1. CASE w' = Resting
        BY <3>1, RestFields
      <3>2. CASE BeginSave(s) /\ w' # Resting
        BY <3>2 DEF BeginSave, Fails, Resting
      <3>3. CASE BeginRename(s) /\ w' # Resting
        BY <3>3 DEF BeginRename, Fails, Resting
      <3>4. CASE BeginDelete(s) /\ w' # Resting
        BY <3>4 DEF BeginDelete, Fails, Resting
      <3>5. CASE BeginSwitch(s) /\ w' # Resting
        BY <3>5 DEF BeginSwitch, Fails, Resting
      <3> QED BY <3>1, <3>2, <3>3, <3>4, <3>5
    <2> QED BY <2>1 DEF Aims, ListsSwitched
  <1> QED BY <1>1, <1>2, <1>3, <1>4, <1>5, <1>6 DEF Next, WorkerStep

(* A switch that fails before it has replaced auth.json, or while it does, *)
(* has put back what it read.                                              *)
LEMMA ReplaceSteps ==
    ASSUME TypeOK, CredInv, [Next]_vars, Replacing, w'.pc = "idle", outcome' = "error",
           excused # Accounts
    PROVE  live' = w.live
  <1>0. w.pc \in {"keep", "replace", "restore"}
    BY DEF Replacing
  <1>1. live = w.live \/ (w.pc = "restore" /\ live = NoCred)
    BY <1>0 DEF CredInv, WorkerInv, Switching
  <1>2. CASE KeepCurrent
    BY <1>1, <1>2 DEF KeepCurrent
  <1>3. CASE ReplaceLive
    <2>1. live' = live \/ w' = Switched \/ w' = [w EXCEPT !.pc = "restore", !.live = live]
      BY <1>3 DEF ReplaceLive, Switched
    <2>2. live' = live
      BY <2>1, ListFields DEF TypeOK, WorkerOK
    <2> QED BY <1>1, <1>3, <2>2 DEF ReplaceLive
  <1>4. CASE RestoreLive
    BY <1>4 DEF RestoreLive, Restored
  <1>5. CASE Crash
    BY <1>1, <1>5 DEF Crash, files
  <1>6. CASE \/ BeginEdit \/ EditLocks \/ EditWrites \/ CliStartsOrStops \/ CliRenews
             \/ (\E a \in Accounts : CliLogin(a)) \/ UNCHANGED vars
    BY <1>0, <1>6 DEF BeginEdit, EditLocks, EditWrites, CliStartsOrStops, CliRenews, CliLogin, vars
  <1>7. ASSUME BeginList \/ PrepareMirror \/ PrepareFresh \/ PrepareRejected \/ PrepareRenew \/ StoreRenewed
               \/ ReadUsage \/ WorkerLocks \/ MergeUsage \/ SaveSnapshot \/ RemoveSnapshot
               \/ WriteLabels \/ UndoDelete \/ ResolveActive
        PROVE  FALSE
    BY <1>0, <1>7 DEF BeginList, PrepareMirror, PrepareFresh, PrepareRejected, PrepareRenew, StoreRenewed,
       ReadUsage, WorkerLocks, MergeUsage, SaveSnapshot, RemoveSnapshot, WriteLabels, UndoDelete, ResolveActive
  <1>8. ASSUME NEW s \in Slots, BeginSave(s) \/ BeginRename(s) \/ BeginDelete(s) \/ BeginSwitch(s)
        PROVE  FALSE
    BY <1>0, <1>8 DEF BeginSave, BeginRename, BeginDelete, BeginSwitch, Begin
  <1> QED BY <1>2, <1>3, <1>4, <1>5, <1>6, <1>7, <1>8 DEF Next, WorkerStep

(* One that fails in its listing leaves auth.json with the target account. *)
LEMMA ListingSteps ==
    ASSUME TypeOK, Aims, [Next]_vars, w.op = "switch", ListsSwitched, w'.pc = "idle",
           Len(grants) = w.logins
    PROVE  SameAccount(live', snap'[w.target])
  <1>1. SameAccount(live, snap[w.target])
    BY DEF Aims
  <1>2. CASE MergeUsage \/ Crash
    BY <1>1, <1>2 DEF MergeUsage, Crash, files
  <1>3. CASE \/ BeginEdit \/ EditLocks \/ EditWrites \/ CliStartsOrStops \/ CliRenews
             \/ (\E a \in Accounts : CliLogin(a)) \/ UNCHANGED vars
    BY <1>3 DEF BeginEdit, EditLocks, EditWrites, CliStartsOrStops, CliRenews, CliLogin, vars,
       ListsSwitched
  <1>4. ASSUME PrepareMirror \/ PrepareFresh \/ PrepareRejected \/ PrepareRenew \/ StoreRenewed
               \/ ReadUsage \/ WorkerLocks
        PROVE  FALSE
    BY <1>4 DEF PrepareMirror, PrepareFresh, PrepareRejected, PrepareRenew, StoreRenewed,
       ReadUsage, WorkerLocks, TypeOK, WorkerOK
  <1>5. ASSUME \/ BeginList \/ SaveSnapshot \/ RemoveSnapshot \/ WriteLabels \/ UndoDelete
               \/ ResolveActive \/ KeepCurrent \/ ReplaceLive \/ RestoreLive
        PROVE  FALSE
    BY <1>5 DEF BeginList, SaveSnapshot, RemoveSnapshot, WriteLabels, UndoDelete, ResolveActive,
       KeepCurrent, ReplaceLive, RestoreLive, ListsSwitched
  <1>6. ASSUME NEW s \in Slots, BeginSave(s) \/ BeginRename(s) \/ BeginDelete(s) \/ BeginSwitch(s)
        PROVE  FALSE
    BY <1>6 DEF BeginSave, BeginRename, BeginDelete, BeginSwitch, Begin, ListsSwitched
  <1> QED BY <1>2, <1>3, <1>4, <1>5, <1>6 DEF Next, WorkerStep

LEMMA SwitchSteps ==
    TypeOK /\ CredInv /\ Aims /\ [Next]_vars =>
      [w.op = "switch" /\ w'.pc = "idle" /\ outcome' = "error" =>
         /\ Replacing /\ excused # Accounts => live' = w.live
         /\ ListsSwitched /\ Len(grants) = w.logins => SameAccount(live', snap'[w.target])]_vars
  BY ReplaceSteps, ListingSteps

(* A switch that fails leaves auth.json as the switch found it or, once it *)
(* was replaced, with the account that was asked for, at every step it may *)
(* fail or crash, or reports that it could not.                            *)
THEOREM SwitchFailsSafe == Spec => FailedSwitchKeepsLive
  BY InitTypes, NextTypes, InitCred, NextCred, InitAims, NextAims, SwitchSteps, PTL
     DEF Spec, FailedSwitchKeepsLive
=============================================================================
