-------------------------- MODULE MCCodexDowngrade --------------------------
(***************************************************************************)
(* Small instances of CodexDowngrade for TLC.  A behaviour of MCSpec keeps *)
(* to one case: which accounts and triggers it has, whether time can show  *)
(* a reset, and how many of each event happen.  Every step of MCSpec is a  *)
(* step of CodexDowngrade.                                                 *)
(***************************************************************************)
EXTENDS CodexDowngrade, TLC

CONSTANTS s1, s2, k1, k2, p1, p2,
          Cases   \* the cases of the run

VARIABLE case

TwoSlots == {s1, s2}
OneSlot == {s1}
TwoKeys == {k1, k2}
OneKey == {k1}
TwoPaths == {p1, p2}
OnePath == {p1}
ResetOnly == {"reset"}
Both == {"reset", "hours"}

Limits(arms, quotas, changes, fetches, failures, crashes) ==
    [arms |-> arms, quota |-> quotas, changes |-> changes, fetches |-> fetches,
     failures |-> failures, crashes |-> crashes]

(* Two accounts in two slots, switched or replaced between readings. *)
Accounts == [claude |-> FALSE, slots |-> TwoSlots, keys |-> TwoKeys, paths |-> OnePath,
             triggers |-> ResetOnly, limits |-> Limits(1, 1, 1, 3, 0, 0)]
(* The Claude instance, whose unused windows drift. *)
Drifting == [claude |-> TRUE, slots |-> OneSlot, keys |-> TwoKeys, paths |-> OnePath,
             triggers |-> ResetOnly, limits |-> Limits(1, 2, 1, 3, 0, 0)]
(* Restarts, a failed write, both triggers and two workspaces. *)
Restarting == [claude |-> FALSE, slots |-> OneSlot, keys |-> OneKey, paths |-> TwoPaths,
               triggers |-> Both, limits |-> Limits(2, 1, 0, 2, 0, 2)]
Failing == [Restarting EXCEPT !.paths = OnePath, !.limits = Limits(2, 1, 0, 2, 1, 1)]
Passing == {Accounts, Drifting, Restarting, Failing}

(* Two armings overtake each other around a failed write. *)
Overlapping == [claude |-> FALSE, slots |-> OneSlot, keys |-> OneKey, paths |-> OnePath,
                triggers |-> ResetOnly, limits |-> Limits(2, 2, 0, 3, 1, 0)]
Claiming == {Overlapping}

(* The first slot and the first account are as good as any other. *)
MCInit ==
    /\ Init
    /\ case \in Cases
    /\ c.defaultsOnly = case.claude
    /\ active = s1 /\ slotKey[s1] = k1
    /\ \A k \in Keys \ case.keys : quota[k].used = 0
    /\ \A s \in Slots \ case.slots : slotKey[s] = k1

MCNext ==
    /\ Next
    /\ UNCHANGED case
    /\ \A b \in DOMAIN used : used'[b] <= case.limits[b]
    /\ c'.pol.path \in case.paths \cup {NoPath} /\ c'.workspace \in case.paths \cup {NoPath}
    /\ c'.pol.trigger \in case.triggers
    /\ active' \in case.slots
    /\ \A s \in Slots \ case.slots : shown'[s] = shown[s] /\ slotKey'[s] = slotKey[s]
    /\ \A k \in Keys \ case.keys : quota'[k] = quota[k] /\ \A s \in Slots : slotKey'[s] # k

MCSpec == MCInit /\ [][MCNext]_<<vars, case>> /\ Fairness
=============================================================================
