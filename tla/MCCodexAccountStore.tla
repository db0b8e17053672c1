------------------------- MODULE MCCodexAccountStore -------------------------
(***************************************************************************)
(* The instance of CodexAccountStore for TLC.  Reset edits and renewals by *)
(* Codex together are too many: a behaviour of MCSpec has reset edits only *)
(* while all logins are fresh, and Codex is quiet after one.  Every step   *)
(* of MCSpec is a step of CodexAccountStore.                               *)
(***************************************************************************)
EXTENDS CodexAccountStore, TLC

AllFresh == Len(grants) = Cardinality(Accounts) /\ \A i \in DOMAIN grants : grants[i].ver = 1

MCNext ==
    \/ BeginList
    \/ \E s \in Slots : BeginSave(s) \/ BeginRename(s) \/ BeginDelete(s) \/ BeginSwitch(s)
    \/ WorkerStep
    \/ AllFresh /\ BeginEdit
    \/ EditLocks \/ EditWrites
    \/ CliStartsOrStops
    \/ used.edits = 0 /\ CliRenews
    \/ \E a \in Accounts : used.edits = 0 /\ CliLogin(a)
    \/ Crash

MCSpec == Init /\ [][MCNext]_vars
=============================================================================
