---------------------- MODULE TerminalSchedulesProofs -----------------------
(***************************************************************************)
(* Proofs about TerminalSchedules and TerminalTabs, for any sessions,      *)
(* windows, groups, files, actions at once and bounds: a failed turn is    *)
(* continued at most once (RecoveredOnce), a group that is on is checked   *)
(* (AlwaysWatched), one turned off stays off (StaysOff), no session is     *)
(* opened twice (LaunchedOnce), and a tab that went with its window stays  *)
(* in the group saved for it (SavedTabsStay).                              *)
(***************************************************************************)
EXTENDS TerminalSchedules, SequenceTheorems, FiniteSetTheorems, WellFoundedInduction, TLAPS

(* What the check awaits a save in. *)
Saving == {"save", "save again", "claim"}

IsQueue(q) == \E S : q \in Seq(S)

CheckShape == check = NoCheck \/ DOMAIN check = {"phase", "job", "live", "rows", "todo"}

(* The check has at most one save under way, and awaits it. *)
OneAwaited ==
    \A i \in 1 .. Len(writes) : writes[i].who = "check" =>
      /\ check.phase \in Saving
      /\ \A j \in 1 .. Len(writes) : j # i => writes[j].who # "check"

(* What has been sent is claimed, on disk and whatever is saved next. *)
SentIsClaimed ==
    /\ sent \subseteq claims /\ sent \subseteq disk.claims
    /\ \A i \in 1 .. Len(writes) : sent \subseteq writes[i].claims

(* A claim is new, and saved by the save that is awaited and all later ones. *)
ClaimIsNew ==
    /\ check.phase \in {"claim", "claimed"} =>
         check.live \subseteq claims /\ check.live \cap sent = {}
    /\ check.phase = "claimed" =>
         /\ check.live \subseteq disk.claims
         /\ \A i \in 1 .. Len(writes) : check.live \subseteq writes[i].claims
    /\ check.phase = "claim" =>
         \A i \in 1 .. Len(writes) : writes[i].who = "check" =>
           \A j \in i .. Len(writes) : check.live \subseteq writes[j].claims

ClaimInv == IsQueue(writes) /\ CheckShape /\ OneAwaited /\ SentIsClaimed /\ ClaimIsNew

-----------------------------------------------------------------------------
(* Appending to the queue of saves, and taking the first. *)
LEMMA Appended ==
    ASSUME NEW q, IsQueue(q), NEW e
    PROVE  /\ Len(q) \in Nat
           /\ IsQueue(Append(q, e)) /\ Len(Append(q, e)) = Len(q) + 1
           /\ \A i \in 1 .. Len(q) : Append(q, e)[i] = q[i]
           /\ Append(q, e)[Len(q) + 1] = e
  <1>1. PICK S : q \in Seq(S)
    BY DEF IsQueue
  <1>2. q \in Seq(S \cup {e}) /\ e \in S \cup {e}
    BY <1>1
  <1>3. Append(q, e) \in Seq(S \cup {e})
    BY <1>2
  <1> QED BY <1>2, <1>3, AppendProperties DEF IsQueue

LEMMA Taken ==
    ASSUME NEW q, IsQueue(q), q # <<>>
    PROVE  /\ Len(q) \in Nat \ {0} /\ Head(q) = q[1]
           /\ IsQueue(Tail(q)) /\ Len(Tail(q)) = Len(q) - 1
           /\ \A i \in 1 .. Len(q) - 1 : Tail(q)[i] = q[i + 1]
  <1>1. PICK S : q \in Seq(S)
    BY DEF IsQueue
  <1> QED BY <1>1, HeadTailProperties DEF IsQueue

-----------------------------------------------------------------------------
(* Nothing that the claims depend on changes. *)
LEMMA QuietKeeps ==
    ASSUME ClaimInv, UNCHANGED <<claims, disk, writes, check, sent>>
    PROVE  ClaimInv'
  BY DEF ClaimInv, CheckShape, OneAwaited, SentIsClaimed, ClaimIsNew

(* The page saves a job, with the claims as they are. *)
LEMMA PageSaves ==
    ASSUME ClaimInv, NEW a \in Acts, NEW js, writes' = Append(writes, [who |-> a, jobs |-> js, claims |-> claims]),
           UNCHANGED <<claims, disk, check, sent>>
    PROVE  ClaimInv'
  <1> DEFINE e == [who |-> a, jobs |-> js, claims |-> claims]
             n == Len(writes)
  <1>1. e.who # "check" /\ e.claims = claims
    BY SchedulesAssumption
  <1>2. /\ n \in Nat /\ IsQueue(writes') /\ Len(writes') = n + 1
        /\ \A i \in 1 .. n : writes'[i] = writes[i]
        /\ writes'[n + 1] = e
    BY Appended DEF ClaimInv
  <1> HIDE DEF e, n
  <1>3. \A i \in 1 .. n + 1 : i \in 1 .. n \/ i = n + 1
    BY <1>2
  <1>4. OneAwaited'
    BY <1>1, <1>2, <1>3 DEF ClaimInv, OneAwaited, n
  <1>5. SentIsClaimed'
    BY <1>1, <1>2, <1>3 DEF ClaimInv, SentIsClaimed, n
  <1>6. ClaimIsNew'
    BY <1>1, <1>2, <1>3 DEF ClaimInv, ClaimIsNew, n
  <1> QED BY <1>2, <1>4, <1>5, <1>6 DEF ClaimInv, CheckShape

(* The check goes on, with no claim in hand afterwards. *)
LEMMA CheckMoves ==
    ASSUME ClaimInv, check.phase \notin Saving, CheckShape',
           check'.phase \notin {"claim", "claimed"},
           UNCHANGED <<claims, disk, writes, sent>>
    PROVE  ClaimInv'
  BY DEF ClaimInv, OneAwaited, SentIsClaimed, ClaimIsNew

(* The same, and the check saves. *)
LEMMA CheckSaves ==
    ASSUME ClaimInv, check.phase \notin Saving, CheckShape',
           check'.phase \in Saving \ {"claim"}, NEW js,
           writes' = Append(writes, [who |-> "check", jobs |-> js, claims |-> claims]),
           UNCHANGED <<claims, disk, sent>>
    PROVE  ClaimInv'
  <1> DEFINE e == [who |-> "check", jobs |-> js, claims |-> claims]
             n == Len(writes)
  <1>1. e.claims = claims
    OBVIOUS
  <1>2. /\ n \in Nat /\ IsQueue(writes') /\ Len(writes') = n + 1
        /\ \A i \in 1 .. n : writes'[i] = writes[i]
        /\ writes'[n + 1] = e
    BY Appended DEF ClaimInv
  <1> HIDE DEF e, n
  <1>3. \A i \in 1 .. n + 1 : i \in 1 .. n \/ i = n + 1
    BY <1>2
  <1>4. \A i \in 1 .. n : writes[i].who # "check"
    BY DEF ClaimInv, OneAwaited, n
  <1>5. OneAwaited'
    BY <1>2, <1>3, <1>4 DEF OneAwaited
  <1>6. SentIsClaimed'
    BY <1>1, <1>2, <1>3 DEF ClaimInv, SentIsClaimed, n
  <1>7. ClaimIsNew'
    BY DEF ClaimIsNew, Saving
  <1> QED BY <1>2, <1>5, <1>6, <1>7 DEF ClaimInv

(* _check ends, from any phase in which it awaits no save. *)
LEMMA LeaveKeeps ==
    ASSUME ClaimInv, check # NoCheck, check.phase \notin Saving, NEW js, Leave(js),
           UNCHANGED <<claims, disk, sent>>
    PROVE  ClaimInv'
  <1>1. CheckShape' /\ check'.phase = "save again"
    BY DEF ClaimInv, CheckShape, Leave, Goes
  <1>2. writes' = Append(writes, [who |-> "check", jobs |-> js, claims |-> claims])
    BY DEF Leave, Persist
  <1> QED BY <1>1, <1>2, CheckSaves DEF Saving

-----------------------------------------------------------------------------
(* A check in progress is a record with these fields, and keeps them. *)
LEMMA CheckInProgress ==
    ASSUME CheckShape, check.phase # "idle"
    PROVE  check # NoCheck /\ DOMAIN check = {"phase", "job", "live", "rows", "todo"}
  BY DEF CheckShape, NoCheck

(* A step that only changes the phase. *)
LEMMA GoesOn ==
    ASSUME CheckShape, check.phase # "idle", NEW p, Goes(p)
    PROVE  CheckShape' /\ check'.phase = p /\ check'.live = check.live
  BY CheckInProgress DEF Goes, CheckShape

(* The page's actions and what is seen of them. *)
LEMMA PageKeeps ==
    ASSUME ClaimInv, NEW a \in Acts,
           \/ \E g \in Groups : SwitchOn(a, g) \/ SwitchOff(a, g) \/ PressX(a, g)
           \/ EnableJob(a) \/ ChooseX(a) \/ AnswerDialog(a) \/ Stop(a) \/ Stopped(a)
           \/ Forget(a) \/ Switched(a) \/ NotSwitched(a)
    PROVE  ClaimInv'
  <1>1. ASSUME NEW g \in Groups, SwitchOn(a, g) \/ PressX(a, g) PROVE ClaimInv'
    BY <1>1, QuietKeeps DEF SwitchOn, PressX
  <1>2. CASE ChooseX(a) \/ AnswerDialog(a) \/ Stopped(a) \/ Forget(a) \/ Switched(a) \/ NotSwitched(a)
    BY <1>2, QuietKeeps DEF ChooseX, AnswerDialog, Stopped, Forget, Switched, NotSwitched
  <1>3. ASSUME NEW kind, NEW g, NEW n, NEW on, NEW desired, SetEnabled(a, kind, g, n, on, desired),
               UNCHANGED <<claims, disk, check, sent>>
        PROVE  ClaimInv'
    BY <1>3, PageSaves DEF SetEnabled, Persist
  <1>4. ASSUME NEW g \in Groups, SwitchOff(a, g) PROVE ClaimInv'
    BY <1>3, <1>4 DEF SwitchOff
  <1>5. CASE EnableJob(a)
    <2>1. CASE UNCHANGED writes
      BY <1>5, <2>1, QuietKeeps DEF EnableJob
    <2>2. CASE SetEnabled(a, "on", acts[a].group, acts[a].n, TRUE, acts[a].desired)
      BY <1>3, <1>5, <2>2 DEF EnableJob
    <2> QED BY <1>5, <2>1, <2>2 DEF EnableJob
  <1>6. CASE Stop(a)
    <2>1. CASE UNCHANGED writes
      BY <1>6, <2>1, QuietKeeps DEF Stop
    <2>2. CASE SetEnabled(a, acts[a].kind, acts[a].group, acts[a].n, FALSE, jobs[acts[a].group])
      BY <1>3, <1>6, <2>2 DEF Stop
    <2> QED BY <1>6, <2>1, <2>2 DEF Stop
  <1> QED BY <1>1, <1>2, <1>4, <1>5, <1>6

(* Terminal, the user and Codex, and the opening of a group. *)
LEMMA WorldKeeps ==
    ASSUME ClaimInv,
           \/ UNCHANGED schedules
           \/ \E s \in Sessions : BeginIfCurrent(s) \/ TurnFails(s)
           \/ StopLaunching
           \/ \E g \in Groups : Elapses(g)
           \/ \E p \in Files : FollowFile(p)
    PROVE  ClaimInv'
  BY QuietKeeps DEF schedules, BeginIfCurrent, TurnFails, StopLaunching, Elapses, FollowFile

(* A read of the windows ends. *)
LEMMA ReadKeeps ==
    ASSUME ClaimInv, ReadEnds
    PROVE  ClaimInv'
  <1>1. CASE UNCHANGED check
    BY <1>1, QuietKeeps DEF ReadEnds
  <1>2. CASE check' = Reply(check) /\ check' # check
    <2>1. check.phase = "fresh" /\ Goes("answered")
      BY <1>2 DEF Reply, Goes
    <2>2. CheckShape' /\ check'.phase = "answered"
      BY <2>1, GoesOn DEF ClaimInv
    <2> QED BY <2>1, <2>2, CheckMoves DEF ReadEnds, Saving
  <1> QED BY <1>1, <1>2 DEF ReadEnds

-----------------------------------------------------------------------------
(* The check, as far as it has no claim in hand. *)
LEMMA DueKeeps ==
    ASSUME ClaimInv, CheckDue \/ NextJob \/ BeginCheck \/ GiveUp
    PROVE  ClaimInv'
  <1>1. CASE CheckDue
    <2>1. CheckShape' /\ check'.phase = "next" /\ check.phase = "idle"
      BY <1>1 DEF CheckDue, NoCheck, CheckShape
    <2> QED BY <1>1, <2>1, CheckMoves DEF CheckDue, Saving
  <1>2. CASE NextJob
    <2>1. CASE check' = NoCheck /\ UNCHANGED writes
      <3>1. CheckShape' /\ check'.phase = "idle"
        BY <2>1 DEF NoCheck, CheckShape
      <3>2. check.phase = "next" /\ UNCHANGED <<claims, disk, sent>>
        BY <1>2 DEF NextJob
      <3> QED BY <2>1, <3>1, <3>2, CheckMoves DEF Saving
    <2>2. ASSUME NEW r, check' = [check EXCEPT !.phase = "save", !.job = r, !.todo = @ \ {r}],
                 Persist("check", jobs', claims)
          PROVE  ClaimInv'
      <3>1. check.phase = "next" /\ UNCHANGED <<claims, disk, sent>>
        BY <1>2 DEF NextJob
      <3>2. DOMAIN check = {"phase", "job", "live", "rows", "todo"}
        BY <3>1, CheckInProgress DEF ClaimInv
      <3>3. CheckShape' /\ check'.phase = "save"
        BY <2>2, <3>2 DEF CheckShape
      <3> QED BY <2>2, <3>1, <3>3, CheckSaves DEF Persist, Saving
    <2> QED BY <1>2, <2>1, <2>2 DEF NextJob
  <1>3. CASE BeginCheck
    <2>1. check.phase = "saved" /\ \E p \in {"fresh", "next"} : Goes(p)
      BY <1>3 DEF BeginCheck
    <2>2. CheckShape' /\ check'.phase \in {"fresh", "next"}
      BY <2>1, GoesOn DEF ClaimInv
    <2> QED BY <1>3, <2>1, <2>2, CheckMoves DEF BeginCheck, Saving
  <1>4. CASE GiveUp
    BY <1>4, CheckMoves DEF GiveUp, NoCheck, CheckShape, Saving
  <1> QED BY <1>1, <1>2, <1>3, <1>4

(* _check, from the fresh read to the status of the turns. *)
LEMMA CompareKeeps ==
    ASSUME ClaimInv, Compare \/ Opened \/ AskStatus \/ StatusArrives
    PROVE  ClaimInv'
  <1>1. /\ check.phase \in {"answered", "opening", "live", "status"}
        /\ UNCHANGED <<claims, disk, sent>>
    BY DEF Compare, Opened, AskStatus, StatusArrives
  <1>2. check.phase \notin Saving
    BY <1>1 DEF Saving
  <1>5. check # NoCheck /\ DOMAIN check = {"phase", "job", "live", "rows", "todo"}
    BY <1>1, CheckInProgress DEF ClaimInv
  <1>3. ASSUME NEW js, Leave(js) PROVE ClaimInv'
    BY <1>1, <1>2, <1>3, <1>5, LeaveKeeps
  <1>4. ASSUME NEW p \in {"opening", "live"}, Goes(p), UNCHANGED writes PROVE ClaimInv'
    <2>1. CheckShape' /\ check'.phase = p
      BY <1>1, <1>4, GoesOn DEF ClaimInv
    <2> QED BY <1>1, <1>2, <1>4, <2>1, CheckMoves
  <1>6. CASE Compare
    <2>1. \/ \E js : Leave(js)
          \/ \E p \in {"opening", "live"} : Goes(p) /\ UNCHANGED writes
      BY <1>6 DEF Compare
    <2> QED BY <1>3, <1>4, <2>1
  <1>7. CASE Opened
    BY <1>3, <1>4, <1>7 DEF Opened
  <1>8. CASE AskStatus
    <2>1. ASSUME NEW live, check' = [check EXCEPT !.phase = "status", !.live = live], UNCHANGED writes
          PROVE  ClaimInv'
      <3>1. CheckShape' /\ check'.phase = "status"
        BY <1>5, <2>1 DEF CheckShape
      <3> QED BY <1>1, <1>2, <2>1, <3>1, CheckMoves
    <2> QED BY <1>3, <1>8, <2>1 DEF AskStatus
  <1>9. CASE StatusArrives
    <2>1. ASSUME NEW rows, check' = [check EXCEPT !.phase = "rows", !.rows = rows], UNCHANGED writes
          PROVE  ClaimInv'
      <3>1. CheckShape' /\ check'.phase = "rows"
        BY <1>5, <2>1 DEF CheckShape
      <3> QED BY <1>1, <1>2, <2>1, <3>1, CheckMoves
    <2> QED BY <1>3, <1>9, <2>1 DEF StatusArrives
  <1> QED BY <1>6, <1>7, <1>8, <1>9

(* A claim is taken, and saved at the end of the queue. *)
LEMMA ClaimKeeps ==
    ASSUME ClaimInv, NextRow
    PROVE  ClaimInv'
  <1>1. check.phase = "rows" /\ UNCHANGED <<disk, sent>>
    BY DEF NextRow
  <1>2. check # NoCheck /\ check.phase \notin Saving /\ CheckShape
        /\ DOMAIN check = {"phase", "job", "live", "rows", "todo"}
    BY <1>1, CheckInProgress DEF ClaimInv, Saving
  <1>3. CASE Leave(jobs) /\ UNCHANGED claims
    BY <1>1, <1>2, <1>3, LeaveKeeps
  <1>4. ASSUME NEW row, claims' = claims \cup {row}, row \in claims,
               check' = [check EXCEPT !.rows = @ \ {row}], UNCHANGED writes
        PROVE  ClaimInv'
    <2>1. CheckShape' /\ check'.phase = "rows" /\ claims' = claims
      BY <1>1, <1>2, <1>4 DEF CheckShape
    <2> QED BY <1>1, <1>2, <1>4, <2>1, CheckMoves
  <1>5. ASSUME NEW row, claims' = claims \cup {row}, row \notin claims,
               check' = [check EXCEPT !.rows = @ \ {row}, !.live = {row}, !.phase = "claim"],
               Persist("check", jobs, claims')
        PROVE  ClaimInv'
    <2> DEFINE e == [who |-> "check", jobs |-> jobs, claims |-> claims']
               n == Len(writes)
    <2>1. CheckShape' /\ check'.phase = "claim" /\ check'.live = {row}
      BY <1>2, <1>5 DEF CheckShape
    <2>2. e.claims = claims' /\ row \in claims'
      BY <1>5
    <2>3. /\ n \in Nat /\ IsQueue(writes') /\ Len(writes') = n + 1
          /\ \A i \in 1 .. n : writes'[i] = writes[i]
          /\ writes'[n + 1] = e
      BY <1>5, Appended DEF ClaimInv, Persist
    <2>4. \A i \in 1 .. n : writes[i].who # "check"
      BY <1>2 DEF ClaimInv, OneAwaited
    <2> HIDE DEF e
    <2>5. \A i \in 1 .. n + 1 : i \in 1 .. n \/ i = n + 1
      BY <2>3
    <2>6. OneAwaited'
      BY <2>1, <2>3, <2>4, <2>5 DEF OneAwaited, Saving
    <2>7. SentIsClaimed'
      BY <1>1, <1>5, <2>2, <2>3, <2>5 DEF ClaimInv, SentIsClaimed
    <2>8. ClaimIsNew'
      <3>1. check'.live \subseteq claims' /\ check'.live \cap sent' = {}
        BY <1>1, <1>5, <2>1, <2>2 DEF ClaimInv, SentIsClaimed
      <3>2. ASSUME NEW i \in 1 .. Len(writes'), writes'[i].who = "check",
                   NEW j \in i .. Len(writes')
            PROVE  check'.live \subseteq writes'[j].claims
        <4>1. i = n + 1
          BY <2>3, <2>4, <2>5, <3>2
        <4>2. j = n + 1
          BY <2>3, <3>2, <4>1
        <4> QED BY <2>1, <2>2, <2>3, <4>2
      <3> QED BY <2>1, <3>1, <3>2 DEF ClaimIsNew
    <2> QED BY <2>1, <2>3, <2>6, <2>7, <2>8 DEF ClaimInv
  <1> QED BY <1>3, <1>4, <1>5 DEF NextRow

(* A claim that has been saved is sent, or given up. *)
LEMMA RecoverKeeps ==
    ASSUME ClaimInv, Recover \/ NotClaimed \/ Recovered
    PROVE  ClaimInv'
  <1>1. CASE Recover
    <2>1. check.phase = "claimed" /\ UNCHANGED <<claims, disk>>
      BY <1>1 DEF Recover
    <2>2. check # NoCheck /\ check.phase \notin Saving
      BY <2>1, CheckInProgress DEF ClaimInv, Saving
    <2>3. CASE Leave(jobs) /\ UNCHANGED sent
      BY <2>1, <2>2, <2>3, LeaveKeeps
    <2>4. CASE Goes("recover") /\ sent' = sent \cup check.live /\ UNCHANGED writes
      <3>1. CheckShape' /\ check'.phase = "recover"
        BY <2>1, <2>4, GoesOn DEF ClaimInv
      <3>2. SentIsClaimed'
        BY <2>1, <2>4 DEF ClaimInv, SentIsClaimed, ClaimIsNew
      <3>3. OneAwaited' /\ ClaimIsNew'
        BY <2>2, <2>4, <3>1 DEF ClaimInv, OneAwaited, ClaimIsNew
      <3> QED BY <2>4, <3>1, <3>2, <3>3 DEF ClaimInv
    <2> QED BY <1>1, <2>3, <2>4 DEF Recover
  <1>2. ASSUME check.phase \in {"unclaimed", "recover"}, UNCHANGED <<claims, disk, sent>>,
               Leave(jobs)
        PROVE  ClaimInv'
    <2>1. check # NoCheck /\ check.phase \notin Saving
      BY <1>2, CheckInProgress DEF ClaimInv, Saving
    <2> QED BY <1>2, <2>1, LeaveKeeps
  <1>3. ASSUME check.phase = "recover", UNCHANGED <<claims, disk, sent, writes>>, Goes("rows")
        PROVE  ClaimInv'
    <2>1. CheckShape' /\ check'.phase = "rows"
      BY <1>3, GoesOn DEF ClaimInv
    <2> QED BY <1>3, <2>1, CheckMoves DEF Saving
  <1>4. CASE NotClaimed
    BY <1>2, <1>4 DEF NotClaimed
  <1>5. CASE Recovered
    BY <1>2, <1>3, <1>5 DEF Recovered
  <1> QED BY <1>1, <1>4, <1>5

-----------------------------------------------------------------------------
(* A save ends, made or not. *)
LEMMA WrittenKeeps ==
    ASSUME ClaimInv, Written
    PROVE  ClaimInv'
  <1> DEFINE n == Len(writes)
  <1>1. PICK saved \in BOOLEAN :
          /\ disk' = IF saved THEN [jobs |-> writes[1].jobs, claims |-> writes[1].claims] ELSE disk
          /\ check' = IF writes[1].who = "check"
                        THEN [check EXCEPT !.phase = After(@, saved)] ELSE check
    <2>1. writes # <<>>
      BY DEF Written
    <2>2. Head(writes) = writes[1]
      BY <2>1, Taken DEF ClaimInv
    <2> QED BY <2>2 DEF Written
  <1>2. writes' = Tail(writes) /\ UNCHANGED <<claims, sent>>
    BY DEF Written
  <1>3. /\ n \in Nat \ {0} /\ IsQueue(writes') /\ Len(writes') = n - 1
        /\ \A i \in 1 .. n - 1 : writes'[i] = writes[i + 1]
    BY <1>2, Taken DEF ClaimInv, Written
  <1> HIDE DEF n
  <1>4. /\ 1 \in 1 .. n
        /\ \A i \in 1 .. n - 1 : i + 1 \in 1 .. n /\ i + 1 # 1
        /\ \A i \in 1 .. n - 1 : \A j \in i .. n - 1 : j \in 1 .. n - 1 /\ j + 1 \in i + 1 .. n
    BY <1>3
  <1>5. disk'.claims = disk.claims \/ (saved /\ disk'.claims = writes[1].claims)
    BY <1>1
  <1>6. SentIsClaimed'
    BY <1>2, <1>3, <1>4, <1>5 DEF ClaimInv, SentIsClaimed, n
  <1>7. CASE writes[1].who = "check"
    <2>1. /\ check.phase \in Saving
          /\ \A i \in 1 .. n - 1 : writes'[i].who # "check"
      BY <1>3, <1>4, <1>7 DEF ClaimInv, OneAwaited, n
    <2>2. DOMAIN check = {"phase", "job", "live", "rows", "todo"}
      BY <2>1, CheckInProgress DEF ClaimInv, Saving
    <2>3. CheckShape' /\ check'.phase = After(check.phase, saved) /\ check'.live = check.live
      BY <1>1, <1>7, <2>2 DEF CheckShape
    <2>4. /\ check'.phase # "claim"
          /\ check'.phase = "claimed" => check.phase = "claim" /\ saved
      BY <2>1, <2>3 DEF After, Saving
    <2>5. OneAwaited'
      BY <1>3, <2>1 DEF OneAwaited
    <2>6. ASSUME check'.phase = "claimed"
          PROVE  /\ check.live \subseteq claims /\ check.live \cap sent = {}
                 /\ check.live \subseteq disk'.claims
                 /\ \A i \in 1 .. n - 1 : check.live \subseteq writes'[i].claims
      <3>1. check.phase = "claim" /\ disk'.claims = writes[1].claims
        BY <1>1, <2>4, <2>6
      <3>2. \A j \in 1 .. n : check.live \subseteq writes[j].claims
        BY <1>4, <1>7, <3>1 DEF ClaimInv, ClaimIsNew, n
      <3>3. check.live \subseteq claims /\ check.live \cap sent = {}
        BY <3>1 DEF ClaimInv, ClaimIsNew
      <3> QED BY <1>3, <1>4, <3>1, <3>2, <3>3
    <2>7. ClaimIsNew'
      BY <1>2, <1>3, <2>3, <2>4, <2>6 DEF ClaimIsNew
    <2> QED BY <1>3, <1>6, <2>3, <2>5, <2>7 DEF ClaimInv
  <1>8. CASE writes[1].who # "check"
    <2>1. check' = check
      BY <1>1, <1>8
    <2>2. OneAwaited'
      <3>1. ASSUME NEW i \in 1 .. n - 1, writes'[i].who = "check"
            PROVE  /\ check.phase \in Saving
                   /\ \A j \in 1 .. n - 1 : j # i => writes'[j].who # "check"
        <4>1. writes[i + 1].who = "check" /\ i + 1 \in 1 .. n
          BY <1>3, <1>4, <3>1
        <4>2. \A j \in 1 .. n : j # i + 1 => writes[j].who # "check"
          BY <4>1 DEF ClaimInv, OneAwaited, n
        <4>3. ASSUME NEW j \in 1 .. n - 1, j # i PROVE writes'[j].who # "check"
          BY <1>3, <1>4, <4>2, <4>3
        <4> QED BY <4>1, <4>3 DEF ClaimInv, OneAwaited, n
      <3> QED BY <1>3, <2>1, <3>1 DEF OneAwaited
    <2>3. ClaimIsNew'
      <3>1. check.phase \in {"claim", "claimed"} =>
              check.live \subseteq claims' /\ check.live \cap sent' = {}
        BY <1>2 DEF ClaimInv, ClaimIsNew
      <3>2. check.phase = "claimed" =>
              /\ check.live \subseteq disk'.claims
              /\ \A i \in 1 .. n - 1 : check.live \subseteq writes'[i].claims
        BY <1>3, <1>4, <1>5 DEF ClaimInv, ClaimIsNew, n
      <3>3. ASSUME check.phase = "claim", NEW i \in 1 .. n - 1, writes'[i].who = "check",
                   NEW j \in i .. n - 1
            PROVE  check.live \subseteq writes'[j].claims
        <4>1. writes[i + 1].who = "check" /\ i + 1 \in 1 .. n /\ j + 1 \in i + 1 .. n
          BY <1>3, <1>4, <3>3
        <4>2. check.live \subseteq writes[j + 1].claims
          BY <3>3, <4>1 DEF ClaimInv, ClaimIsNew, n
        <4> QED BY <1>3, <1>4, <3>3, <4>2
      <3> QED BY <1>3, <2>1, <3>1, <3>2, <3>3 DEF ClaimIsNew
    <2> QED BY <1>3, <1>6, <2>1, <2>2, <2>3 DEF ClaimInv, CheckShape
  <1> QED BY <1>7, <1>8

(* The app ends: the next run has the claims of the last save. *)
LEMMA RestartKeeps ==
    ASSUME ClaimInv, Restart
    PROVE  ClaimInv'
  <1>1. /\ writes' = <<>> /\ check' = NoCheck /\ claims' = disk'.claims /\ sent' = sent
        /\ \/ disk' = disk
           \/ writes # <<>> /\ disk' = [jobs |-> writes[1].jobs, claims |-> writes[1].claims]
    BY DEF Restart
  <1>2. IsQueue(writes') /\ Len(writes') = 0
    <2>1. <<>> \in Seq({}) /\ Len(<<>>) = 0
      BY EmptySeq
    <2> QED BY <1>1, <2>1 DEF IsQueue
  <1>3. sent \subseteq disk'.claims
    <2>1. writes # <<>> => 1 \in 1 .. Len(writes)
      BY Taken DEF ClaimInv
    <2> QED BY <1>1, <2>1 DEF ClaimInv, SentIsClaimed
  <1>4. CheckShape' /\ check'.phase = "idle"
    BY <1>1 DEF CheckShape, NoCheck
  <1> QED BY <1>1, <1>2, <1>3, <1>4 DEF ClaimInv, OneAwaited, SentIsClaimed, ClaimIsNew

-----------------------------------------------------------------------------
(* The invariant holds at the start, and every step keeps it. *)
LEMMA InitClaims == Init => ClaimInv
  <1> SUFFICES ASSUME Init PROVE ClaimInv
    OBVIOUS
  <1>1. writes = <<>> /\ check = NoCheck /\ sent = {}
    BY DEF Init
  <1>2. IsQueue(writes) /\ Len(writes) = 0
    <2>1. <<>> \in Seq({}) /\ Len(<<>>) = 0
      BY EmptySeq
    <2> QED BY <1>1, <2>1 DEF IsQueue
  <1>3. CheckShape /\ check.phase = "idle"
    BY <1>1 DEF CheckShape, NoCheck
  <1> QED BY <1>1, <1>2, <1>3 DEF ClaimInv, OneAwaited, SentIsClaimed, ClaimIsNew

LEMMA NextClaims == ClaimInv /\ [Next]_vars => ClaimInv'
  <1> SUFFICES ASSUME ClaimInv, [Next]_vars PROVE ClaimInv'
    OBVIOUS
  <1>1. CASE UNCHANGED vars
    BY <1>1, WorldKeeps DEF vars
  <1>2. CASE Resume
    <2>1. CASE \/ PlanLaunches /\ UNCHANGED <<schedules, stuck>>
               \/ StopLaunching \/ \E s \in Sessions : BeginIfCurrent(s)
      BY <2>1, WorldKeeps
    <2>2. CASE NextJob \/ BeginCheck \/ GiveUp
      BY <2>2, DueKeeps
    <2>3. CASE Compare \/ Opened \/ AskStatus
      BY <2>3, CompareKeeps
    <2>4. CASE NextRow
      BY <2>4, ClaimKeeps
    <2>5. CASE Recover \/ NotClaimed
      BY <2>5, RecoverKeeps
    <2>6. CASE \E a \in Acts : \/ EnableJob(a) \/ ChooseX(a) \/ Stop(a) \/ Stopped(a) \/ Forget(a)
                               \/ Switched(a) \/ NotSwitched(a)
      BY <2>6, PageKeeps
    <2> QED BY <1>2, <2>1, <2>2, <2>3, <2>4, <2>5, <2>6 DEF Resume
  <1>3. CASE Clicked
    <2>1. ASSUME NEW g \in Known(groups) PROVE g \in Groups
      BY <2>1 DEF Known
    <2>2. ASSUME NEW a \in Acts, NEW g \in Known(groups),
                 SwitchOn(a, g) \/ SwitchOff(a, g) \/ PressX(a, g)
          PROVE  ClaimInv'
      BY <2>1, <2>2, PageKeeps
    <2>3. ASSUME NEW a \in Acts, AnswerDialog(a) PROVE ClaimInv'
      BY <2>3, PageKeeps
    <2>4. CASE UNCHANGED schedules
      BY <2>4, WorldKeeps
    <2> QED BY <1>3, <2>2, <2>3, <2>4 DEF Clicked
  <1>4. CASE UNCHANGED schedules
    BY <1>4, WorldKeeps
  <1>5. CASE \E s \in Sessions : TurnFails(s)
    BY <1>5, WorldKeeps
  <1>6. CASE ReadEnds
    BY <1>6, ReadKeeps
  <1>7. CASE Written
    BY <1>7, WrittenKeeps
  <1>8. CASE CheckDue
    BY <1>8, DueKeeps
  <1>9. CASE StatusArrives
    BY <1>9, CompareKeeps
  <1>10. CASE Recovered
    BY <1>10, RecoverKeeps
  <1>11. CASE Restart
    BY <1>11, RestartKeeps
  <1>12. CASE (\E g \in Groups : Elapses(g)) \/ \E p \in Files : FollowFile(p)
    BY <1>12, WorldKeeps
  <1> QED BY <1>1, <1>2, <1>3, <1>4, <1>5, <1>6, <1>7, <1>8, <1>9, <1>10, <1>11, <1>12 DEF Next

(* A failed turn is continued at most once: _check saves its claim before  *)
(* it sends the recovery, every later save keeps the claim, and the next   *)
(* run of the app reads it back.                                           *)
THEOREM TurnsAreContinuedOnce == Spec => RecoveredOnce
  <1>1. ClaimInv => [check.phase = "claimed" /\ check'.phase = "recover" =>
                       check.live \cap sent = {}]_vars
    BY DEF ClaimInv, ClaimIsNew
  <1> QED BY <1>1, InitClaims, NextClaims, PTL DEF Spec, RecoveredOnce

-----------------------------------------------------------------------------
(***************************************************************************)
(* The page's actions and the saves (PageInv): a group that was turned off *)
(* is off in memory, on disk and in every save still to be made. The       *)
(* numbers of the actions tell which of two switches of a group was the    *)
(* later.                                                                  *)
(***************************************************************************)
(* A job that is saved, remembered or on disk: none, or a record.          *)
JobFields == {"n", "on", "due", "file", "window", "members"}
IsJob(j) == j = None \/ DOMAIN j = JobFields
AllJobs(js) == DOMAIN js = Groups /\ \A g \in Groups : IsJob(js[g])
Off(j) == j = None \/ ~j.on

(* The bounds, and what is remembered of each group's last switch.         *)
Budgets == {"events", "clicks", "troubles", "follows", "toggles", "ticks", "turns", "restarts"}
Bounded == \A b \in Budgets : b \in DOMAIN left /\ left[b] \in Nat
Remembered == /\ DOMAIN said = Groups
              /\ \A g \in Groups : DOMAIN said[g] = {"n", "off", "undone"}

(* An action of the page, and one that has made its change to the jobs.    *)
Changing == {"save", "saved", "unsaved"}
IsAct(x) ==
    x = NoAct \/ /\ {"kind", "phase", "group", "n"} \subseteq DOMAIN x
                 /\ x.phase # "idle" /\ x.group \in Groups /\ x.n \in Nat
                 /\ x.phase \in Changing => "prev" \in DOMAIN x /\ IsJob(x.prev)
AllActs == DOMAIN acts = Acts /\ \A a \in Acts : IsAct(acts[a])

Shaped ==
    /\ Bounded /\ Remembered /\ AllActs
    /\ IsQueue(writes) /\ AllJobs(jobs) /\ AllJobs(disk.jobs)
    /\ \A i \in 1 .. Len(writes) : /\ AllJobs(writes[i].jobs)
                                   /\ writes[i].who \in Acts \cup {"check"}

(* An action has at most one save under way, and awaits it.                *)
PagesAwait ==
    \A i \in 1 .. Len(writes) : writes[i].who # "check" =>
      /\ acts[writes[i].who].phase = "save"
      /\ \A j \in 1 .. Len(writes) : j # i => writes[j].who # writes[i].who

(* The numbers of the actions in progress differ, and no later one has them. *)
Numbered ==
    /\ \A a \in Acts : acts[a].phase # "idle" => acts[a].n > Fresh
    /\ \A a, b \in Acts :
         acts[a].phase # "idle" /\ acts[b].phase # "idle" /\ acts[a].n = acts[b].n => a = b

(* A group turned off is off in memory, on disk and in what is saved next. *)
OffEverywhere ==
    \A g \in Groups : said[g].off /\ ~said[g].undone =>
      /\ Off(jobs[g]) /\ Off(disk.jobs[g])
      /\ \A i \in 1 .. Len(writes) : Off(writes[i].jobs[g])

(* The last to switch its group, off, and so far not overtaken.            *)
TurnsOff(a) ==
    /\ acts[a].phase \in {"save", "saved"} /\ acts[a].kind # "on"
    /\ said[acts[a].group].n = acts[a].n /\ ~said[acts[a].group].undone

(* It is off in memory, and from its save on in all that follows.          *)
OffFrom(a) ==
    LET g == acts[a].group IN
    /\ Off(jobs[g])
    /\ \A i \in 1 .. Len(writes) : writes[i].who = a =>
         \A j \in i .. Len(writes) : Off(writes[j].jobs[g])
    /\ acts[a].phase = "saved" =>
         Off(disk.jobs[g]) /\ \A i \in 1 .. Len(writes) : Off(writes[i].jobs[g])

TurningOff == \A a \in Acts : TurnsOff(a) => OffFrom(a)

PageInv == Shaped /\ PagesAwait /\ Numbered /\ OffEverywhere /\ TurningOff

-----------------------------------------------------------------------------
(* Spending a bound.                                                       *)
LEMMA Spent ==
    ASSUME Bounded, NEW b \in Budgets, Spend(b)
    PROVE  /\ Bounded' /\ Fresh \in Nat /\ Fresh' \in Nat /\ Fresh' <= Fresh
           /\ b \in {"toggles", "clicks"} => Fresh' = Fresh - 1
  <1>1. /\ \A x \in Budgets : x \in DOMAIN left' /\ left'[x] \in Nat
        /\ \A x \in Budgets \ {b} : left'[x] = left[x]
        /\ left'[b] = left[b] - 1
    BY DEF Spend, Bounded
  <1>2. {"toggles", "clicks"} \subseteq Budgets
    BY DEF Budgets
  <1>3. /\ left["toggles"] \in Nat /\ left["clicks"] \in Nat
        /\ left'["toggles"] \in Nat /\ left'["clicks"] \in Nat
    BY <1>1, <1>2 DEF Bounded
  <1>4. Fresh = left["toggles"] + left["clicks"] /\ Fresh' = left'["toggles"] + left'["clicks"]
    BY DEF Fresh
  <1>5. Bounded'
    BY <1>1 DEF Bounded
  <1>6. CASE b = "toggles"
    <2>1. left'["toggles"] = left["toggles"] - 1 /\ left'["clicks"] = left["clicks"]
      BY <1>1, <1>2, <1>6
    <2> QED BY <1>3, <1>4, <1>5, <2>1
  <1>7. CASE b = "clicks"
    <2>1. left'["clicks"] = left["clicks"] - 1 /\ left'["toggles"] = left["toggles"]
      BY <1>1, <1>2, <1>7
    <2> QED BY <1>3, <1>4, <1>5, <2>1
  <1>8. CASE b \notin {"toggles", "clicks"}
    <2>1. left'["clicks"] = left["clicks"] /\ left'["toggles"] = left["toggles"]
      BY <1>1, <1>2, <1>8
    <2> QED BY <1>3, <1>4, <1>5, <1>8, <2>1
  <1> QED BY <1>6, <1>7, <1>8

(* Spending nothing.                                                       *)
LEMMA Unspent ==
    ASSUME Bounded, UNCHANGED left
    PROVE  Bounded' /\ Fresh \in Nat /\ Fresh' = Fresh
  <1>1. "toggles" \in Budgets /\ "clicks" \in Budgets
    BY DEF Budgets
  <1> QED BY <1>1 DEF Bounded, Fresh

(* A step that spends something, or nothing.                               *)
Spends == UNCHANGED left \/ \E b \in Budgets : Spend(b)

(* A number that was not taken is not taken by going on.                   *)
LEMMA StillFresh ==
    ASSUME Bounded, Spends
    PROVE  Bounded' /\ Fresh \in Nat /\ Fresh' \in Nat /\ Fresh' <= Fresh
  <1>1. CASE UNCHANGED left
    BY <1>1, Unspent
  <1>2. CASE \E b \in Budgets : Spend(b)
    BY <1>2, Spent
  <1> QED BY <1>1, <1>2 DEF Spends

(* What is not in progress. *)
LEMMA IdleAct == ASSUME NEW x, IsAct(x) PROVE x = NoAct <=> x.phase = "idle"
  <1>1. NoAct.phase = "idle"
    BY DEF NoAct
  <1> QED BY <1>1 DEF IsAct

(* An action that goes on, away from any save, or ends.                    *)
Moves(x, y) == /\ x.phase \notin Changing /\ y.phase \notin Changing /\ IsAct(y)
               /\ y = NoAct \/ (x # NoAct /\ y.n = x.n)

(* Actions that start, move or end without a change of the jobs.           *)
LEMMA ActsMove ==
    ASSUME PageInv, UNCHANGED <<jobs, disk, writes, said>>, Spends, DOMAIN acts' = Acts,
           \A a \in Acts : acts'[a] = acts[a] \/ Moves(acts[a], acts'[a])
    PROVE  PageInv'
  <1>1. Shaped
    BY DEF PageInv
  <1>2. Bounded' /\ Fresh \in Nat /\ Fresh' \in Nat /\ Fresh' <= Fresh
    BY <1>1, StillFresh DEF Shaped
  <1>3. AllActs /\ AllActs'
    BY <1>1 DEF Shaped, AllActs, Moves
  <1>4. Shaped'
    BY <1>1, <1>2, <1>3 DEF Shaped, Remembered
  <1>5. \A a \in Acts : (acts[a] = NoAct <=> acts[a].phase = "idle")
                        /\ (acts'[a] = NoAct <=> acts'[a].phase = "idle")
    BY <1>3, IdleAct DEF AllActs
  <1>6. \A a \in Acts : /\ acts'[a].phase # "idle" =>
                             acts[a].phase # "idle" /\ acts'[a].n = acts[a].n
                        /\ acts'[a].phase \in Changing <=> acts[a].phase \in Changing
                        /\ acts'[a].phase \in Changing => acts'[a] = acts[a]
                        /\ acts[a].phase \in Changing => acts'[a] = acts[a]
    BY <1>5 DEF Moves
  <1>7. PagesAwait'
    <2> SUFFICES ASSUME NEW i \in 1 .. Len(writes), writes[i].who # "check"
                 PROVE  /\ acts'[writes[i].who].phase = "save"
                        /\ \A j \in 1 .. Len(writes) : j # i => writes[j].who # writes[i].who
      BY DEF PagesAwait
    <2>1. writes[i].who \in Acts
      BY <1>1 DEF Shaped
    <2>2. /\ acts[writes[i].who].phase = "save"
          /\ \A j \in 1 .. Len(writes) : j # i => writes[j].who # writes[i].who
      BY DEF PageInv, PagesAwait
    <2> QED BY <1>6, <2>1, <2>2 DEF Changing
  <1>8. Numbered'
    <2>1. \A a \in Acts : acts[a].phase # "idle" => acts[a].n \in Nat
      BY <1>3, <1>5 DEF AllActs, IsAct
    <2>2. Numbered
      BY DEF PageInv
    <2> QED BY <1>2, <1>6, <2>1, <2>2 DEF Numbered
  <1>9. OffEverywhere'
    BY DEF PageInv, OffEverywhere
  <1>10. TurningOff'
    <2> SUFFICES ASSUME NEW a \in Acts, TurnsOff(a)' PROVE OffFrom(a)'
      BY DEF TurningOff
    <2>1. acts'[a] = acts[a]
      BY <1>6 DEF TurnsOff, Changing
    <2>2. OffFrom(a)
      BY <2>1 DEF PageInv, TurningOff, TurnsOff
    <2> QED BY <2>1, <2>2 DEF OffFrom
  <1> QED BY <1>4, <1>7, <1>8, <1>9, <1>10 DEF PageInv

(* One action starts: its number is new.                                   *)
LEMMA ActStarts ==
    ASSUME PageInv, UNCHANGED <<jobs, disk, writes, said>>, NEW b \in {"toggles", "clicks"}, Spend(b),
           NEW a \in Acts, acts[a] = NoAct, NEW x, acts' = [acts EXCEPT ![a] = x],
           IsAct(x), x.phase \notin Changing, x.n = Fresh
    PROVE  PageInv'
  <1>1. Shaped
    BY DEF PageInv
  <1>2. Bounded' /\ Fresh \in Nat /\ Fresh' \in Nat /\ Fresh' = Fresh - 1
    <2>1. b \in Budgets
      BY DEF Budgets
    <2> QED BY <1>1, <2>1, Spent DEF Shaped
  <1>3. AllActs /\ AllActs' /\ acts'[a] = x /\ \A c \in Acts \ {a} : acts'[c] = acts[c]
    BY <1>1 DEF Shaped, AllActs
  <1>4. Shaped'
    BY <1>1, <1>2, <1>3 DEF Shaped, Remembered
  <1>5. acts[a].phase = "idle"
    BY <1>3, IdleAct DEF AllActs
  <1>7. PagesAwait'
    <2> SUFFICES ASSUME NEW i \in 1 .. Len(writes), writes[i].who # "check"
                 PROVE  /\ acts'[writes[i].who].phase = "save"
                        /\ \A j \in 1 .. Len(writes) : j # i => writes[j].who # writes[i].who
      BY DEF PagesAwait
    <2>1. writes[i].who \in Acts
      BY <1>1 DEF Shaped
    <2>2. /\ acts[writes[i].who].phase = "save"
          /\ \A j \in 1 .. Len(writes) : j # i => writes[j].who # writes[i].who
      BY DEF PageInv, PagesAwait
    <2> QED BY <1>3, <1>5, <2>1, <2>2
  <1>8. Numbered'
    <2>1. \A c \in Acts : acts[c].phase # "idle" => acts[c].n \in Nat
      BY <1>3, IdleAct DEF AllActs, IsAct
    <2>2. Numbered
      BY DEF PageInv
    <2>3. \A c \in Acts \ {a} : acts'[c].phase # "idle" => acts'[c].n > Fresh
      BY <1>3, <2>2 DEF Numbered
    <2>4. acts'[a].n = Fresh
      BY <1>3
    <2>5. \A c \in Acts : acts'[c].phase # "idle" => acts'[c].n > Fresh'
      BY <1>2, <1>3, <2>1, <2>3, <2>4
    <2>6. ASSUME NEW c \in Acts, NEW d \in Acts, acts'[c].phase # "idle", acts'[d].phase # "idle",
                 acts'[c].n = acts'[d].n
          PROVE  c = d
      <3>1. CASE c = a \/ d = a
        BY <1>2, <2>3, <2>4, <2>6, <3>1
      <3>2. CASE c # a /\ d # a
        BY <1>3, <2>2, <2>6, <3>2 DEF Numbered
      <3> QED BY <3>1, <3>2
    <2> QED BY <2>5, <2>6 DEF Numbered
  <1>9. OffEverywhere'
    BY DEF PageInv, OffEverywhere
  <1>10. TurningOff'
    <2> SUFFICES ASSUME NEW c \in Acts, TurnsOff(c)' PROVE OffFrom(c)'
      BY DEF TurningOff
    <2>1. acts'[c] = acts[c]
      BY <1>3 DEF TurnsOff, Changing
    <2>2. OffFrom(c)
      BY <2>1 DEF PageInv, TurningOff, TurnsOff
    <2> QED BY <2>1, <2>2 DEF OffFrom
  <1> QED BY <1>4, <1>7, <1>8, <1>9, <1>10 DEF PageInv

(* The queue with one more save, and its places.                           *)
LEMMA AddsOne ==
    ASSUME IsQueue(writes), NEW e, writes' = Append(writes, e)
    PROVE  /\ Len(writes) \in Nat /\ IsQueue(writes)' /\ Len(writes') = Len(writes) + 1
           /\ \A i \in 1 .. Len(writes) : writes'[i] = writes[i] /\ i \in 1 .. Len(writes')
           /\ writes'[Len(writes) + 1] = e /\ Len(writes) + 1 \in 1 .. Len(writes')
           /\ \A i \in 1 .. Len(writes') : i \in 1 .. Len(writes) \/ i = Len(writes) + 1
           /\ \A i \in 1 .. Len(writes') : \A j \in i .. Len(writes') :
                (j \in i .. Len(writes) /\ i \in 1 .. Len(writes)) \/ j = Len(writes) + 1
  <1>1. /\ Len(writes) \in Nat /\ IsQueue(writes') /\ Len(writes') = Len(writes) + 1
        /\ \A i \in 1 .. Len(writes) : writes'[i] = writes[i]
        /\ writes'[Len(writes) + 1] = e
    BY Appended
  <1> QED BY <1>1

(* The check changes jobs, and saves them or not; it turns none on.        *)
LEMMA JobsChange ==
    ASSUME PageInv, UNCHANGED <<acts, disk, said>>, Spends, AllJobs(jobs'),
           \A g \in Groups : Off(jobs[g]) => Off(jobs'[g]),
           UNCHANGED writes \/ \E cs : Persist("check", jobs', cs)
    PROVE  PageInv'
  <1>1. Shaped
    BY DEF PageInv
  <1>2. Bounded' /\ Fresh \in Nat /\ Fresh' \in Nat /\ Fresh' <= Fresh
    BY <1>1, StillFresh DEF Shaped
  <1>3. Numbered'
    <2>1. \A a \in Acts : acts[a].phase # "idle" => acts[a].n \in Nat
      BY <1>1, IdleAct DEF Shaped, AllActs, IsAct
    <2>2. Numbered
      BY DEF PageInv
    <2> QED BY <1>2, <2>1, <2>2 DEF Numbered
  <1>4. /\ Remembered' /\ AllActs' /\ AllJobs(jobs)' /\ AllJobs(disk.jobs)'
        /\ \A a \in Acts : acts'[a] = acts[a] /\ (TurnsOff(a)' <=> TurnsOff(a))
    BY <1>1 DEF Shaped, Remembered, AllActs, TurnsOff, AllJobs
  <1>5. \A a \in Acts : TurnsOff(a) => OffFrom(a) /\ acts[a].group \in Groups
    <2>1. \A a \in Acts : TurnsOff(a) => acts[a] # NoAct
      BY <1>1, IdleAct DEF TurnsOff, Shaped, AllActs
    <2> QED BY <1>1, <2>1 DEF PageInv, TurningOff, Shaped, AllActs, IsAct
  <1>6. CASE UNCHANGED writes
    <2>1. Shaped' /\ PagesAwait'
      BY <1>1, <1>2, <1>4, <1>6 DEF PageInv, Shaped, PagesAwait
    <2>2. OffEverywhere'
      BY <1>6 DEF PageInv, OffEverywhere
    <2>3. TurningOff'
      BY <1>4, <1>5, <1>6 DEF TurningOff, OffFrom
    <2> QED BY <1>3, <2>1, <2>2, <2>3 DEF PageInv
  <1>7. ASSUME NEW cs, Persist("check", jobs', cs) PROVE PageInv'
    <2> DEFINE e == [who |-> "check", jobs |-> jobs', claims |-> cs]
               n == Len(writes)
    <2>1. e.who = "check" /\ e.jobs = jobs' /\ writes' = Append(writes, e)
      BY <1>7 DEF Persist
    <2> HIDE DEF e
    <2>2. /\ n \in Nat /\ IsQueue(writes)' /\ Len(writes') = n + 1
          /\ \A i \in 1 .. n : writes'[i] = writes[i] /\ i \in 1 .. n + 1
          /\ writes'[n + 1] = e /\ n + 1 \in 1 .. n + 1
          /\ \A i \in 1 .. n + 1 : i \in 1 .. n \/ i = n + 1
          /\ \A i \in 1 .. n + 1 : \A j \in i .. n + 1 : (j \in i .. n /\ i \in 1 .. n) \/ j = n + 1
      BY <1>1, <2>1, AddsOne DEF Shaped
    <2> HIDE DEF n
    <2>3. \A i \in 1 .. n : AllJobs(writes[i].jobs) /\ writes[i].who \in Acts \cup {"check"}
      BY <1>1 DEF Shaped, n
    <2>4. Shaped'
      <3>1. ASSUME NEW i \in 1 .. n + 1
            PROVE  AllJobs(writes'[i].jobs) /\ writes'[i].who \in Acts \cup {"check"}
        BY <2>1, <2>2, <2>3
      <3> QED BY <1>2, <1>4, <2>2, <3>1 DEF Shaped, AllJobs
    <2>5. PagesAwait'
      <3>1. ASSUME NEW i \in 1 .. n + 1, writes'[i].who # "check"
            PROVE  /\ acts[writes'[i].who].phase = "save"
                   /\ \A j \in 1 .. n + 1 : j # i => writes'[j].who # writes'[i].who
        <4>1. i \in 1 .. n /\ writes'[i] = writes[i]
          BY <2>1, <2>2, <3>1
        <4>2. /\ acts[writes[i].who].phase = "save"
              /\ \A j \in 1 .. n : j # i => writes[j].who # writes[i].who
          BY <3>1, <4>1 DEF PageInv, PagesAwait, n
        <4> QED BY <2>1, <2>2, <3>1, <4>1, <4>2
      <3> QED BY <2>2, <3>1 DEF PagesAwait
    <2>6. OffEverywhere'
      <3> SUFFICES ASSUME NEW g \in Groups, said[g].off, ~said[g].undone
                   PROVE  /\ Off(jobs'[g]) /\ Off(disk.jobs[g])
                          /\ \A i \in 1 .. n + 1 : Off(writes'[i].jobs[g])
        BY <2>2 DEF OffEverywhere
      <3>1. /\ Off(jobs[g]) /\ Off(disk.jobs[g]) /\ Off(jobs'[g])
            /\ \A i \in 1 .. n : Off(writes[i].jobs[g])
        BY DEF PageInv, OffEverywhere, n
      <3> QED BY <2>1, <2>2, <3>1
    <2>7. TurningOff'
      <3> SUFFICES ASSUME NEW a \in Acts, TurnsOff(a)' PROVE OffFrom(a)'
        BY DEF TurningOff
      <3> DEFINE g == acts[a].group
      <3>1. acts'[a] = acts[a] /\ g \in Groups /\ TurnsOff(a) /\ OffFrom(a)
        BY <1>4, <1>5
      <3>2. /\ Off(jobs'[g])
            /\ \A i \in 1 .. n : writes[i].who = a => \A j \in i .. n : Off(writes[j].jobs[g])
            /\ acts[a].phase = "saved" =>
                 Off(disk.jobs[g]) /\ \A i \in 1 .. n : Off(writes[i].jobs[g])
        BY <3>1 DEF OffFrom, n
      <3>3. ASSUME NEW i \in 1 .. n + 1, writes'[i].who = a, NEW j \in i .. n + 1
            PROVE  Off(writes'[j].jobs[g])
        <4>1. CASE j = n + 1
          BY <2>1, <2>2, <3>2, <4>1
        <4>2. CASE j \in i .. n /\ i \in 1 .. n
          <5>1. j \in 1 .. n
            BY <4>2
          <5> QED BY <2>2, <3>2, <3>3, <4>2, <5>1
        <4> QED BY <2>2, <4>1, <4>2
      <3>4. acts[a].phase = "saved" => \A i \in 1 .. n + 1 : Off(writes'[i].jobs[g])
        BY <2>1, <2>2, <3>2
      <3> HIDE DEF g
      <3> QED BY <2>2, <3>1, <3>2, <3>3, <3>4 DEF OffFrom, g
    <2> QED BY <1>3, <2>4, <2>5, <2>6, <2>7 DEF PageInv
  <1> QED BY <1>6, <1>7

(* setEnabled, in an action that had made no change before.                *)
LEMMA SetKeeps ==
    ASSUME PageInv, NEW a \in Acts, NEW g \in Groups, NEW n \in Nat, NEW kind, NEW on \in BOOLEAN,
           NEW desired, SetEnabled(a, kind, g, n, on, desired), UNCHANGED disk,
           acts[a].phase \notin Changing, on => kind = "on",
           \/ UNCHANGED left /\ acts[a] # NoAct /\ n = acts[a].n
           \/ Spend("toggles") /\ acts[a] = NoAct /\ n = Fresh
    PROVE  PageInv'
  <1> DEFINE job == [n |-> n, on |-> on, due |-> FALSE, file |-> desired.file,
                     window |-> desired.window, members |-> desired.members]
             x == [kind |-> kind, phase |-> "save", group |-> g, n |-> n, prev |-> jobs[g]]
             e == [who |-> a, jobs |-> jobs', claims |-> claims]
             z == [n |-> n, off |-> FALSE, undone |-> FALSE]
             m == Len(writes)
  <1>1. Shaped
    BY DEF PageInv
  <1>2. /\ jobs' = [jobs EXCEPT ![g] = job] /\ acts' = [acts EXCEPT ![a] = x]
        /\ said' = [said EXCEPT ![g] = z] /\ writes' = Append(writes, e)
    BY DEF SetEnabled, Persist
  <1>3. DOMAIN job = JobFields /\ job.on = on
    BY DEF JobFields
  <1>4. IsAct(x) /\ x.kind = kind /\ x.phase = "save" /\ x.group = g /\ x.n = n
    BY <1>1 DEF IsAct, NoAct, Shaped, AllJobs, Changing
  <1>5. e.who = a /\ e.jobs = jobs' /\ e.who # "check"
    BY SchedulesAssumption
  <1>6. DOMAIN z = {"n", "off", "undone"} /\ z.n = n /\ ~z.off /\ ~z.undone
    OBVIOUS
  <1> HIDE DEF job, x, e, z
  <1>7. /\ m \in Nat /\ IsQueue(writes)' /\ Len(writes') = m + 1
        /\ \A i \in 1 .. m : writes'[i] = writes[i] /\ i \in 1 .. m + 1
        /\ writes'[m + 1] = e /\ m + 1 \in 1 .. m + 1
        /\ \A i \in 1 .. m + 1 : i \in 1 .. m \/ i = m + 1
        /\ \A i \in 1 .. m + 1 : \A j \in i .. m + 1 : (j \in i .. m /\ i \in 1 .. m) \/ j = m + 1
    BY <1>1, <1>2, AddsOne DEF Shaped
  <1> HIDE DEF m
  <1>8. /\ AllActs' /\ acts'[a] = x /\ \A c \in Acts \ {a} : acts'[c] = acts[c]
    BY <1>1, <1>2, <1>4 DEF Shaped, AllActs
  <1>9. /\ AllJobs(jobs)' /\ jobs'[g] = job /\ \A h \in Groups \ {g} : jobs'[h] = jobs[h]
    BY <1>1, <1>2, <1>3 DEF Shaped, AllJobs, IsJob
  <1>10. /\ Remembered' /\ said'[g] = z /\ \A h \in Groups \ {g} : said'[h] = said[h]
    BY <1>1, <1>2, <1>6 DEF Shaped, Remembered
  <1>11. Bounded' /\ Fresh \in Nat /\ Fresh' \in Nat /\ Fresh' <= Fresh
         /\ (acts[a] = NoAct => Fresh' = Fresh - 1)
    <2>1. "toggles" \in Budgets
      BY DEF Budgets
    <2> QED BY <1>1, <2>1, Spent, Unspent DEF Shaped
  <1>12. Shaped'
    <2>1. \A i \in 1 .. m : AllJobs(writes[i].jobs) /\ writes[i].who \in Acts \cup {"check"}
      BY <1>1 DEF Shaped, m
    <2>2. ASSUME NEW i \in 1 .. m + 1
          PROVE  AllJobs(writes'[i].jobs) /\ writes'[i].who \in Acts \cup {"check"}
      <3>1. AllJobs(jobs')
        BY <1>9 DEF AllJobs
      <3> QED BY <1>5, <1>7, <2>1, <3>1
    <2>3. AllJobs(disk.jobs)'
      BY <1>1 DEF Shaped, AllJobs
    <2> QED BY <1>7, <1>8, <1>9, <1>10, <1>11, <2>2, <2>3 DEF Shaped, AllJobs
  <1>13. \A i \in 1 .. m : /\ writes[i].who # "check" => acts[writes[i].who].phase = "save"
                                                         /\ writes[i].who \in Acts \ {a}
                           /\ writes[i].who # a
    <2>1. \A i \in 1 .. m : writes[i].who \in Acts \cup {"check"}
      BY <1>1 DEF Shaped, m
    <2>2. \A i \in 1 .. m : writes[i].who # "check" => acts[writes[i].who].phase = "save"
      BY DEF PageInv, PagesAwait, m
    <2>3. a # "check"
      BY SchedulesAssumption
    <2> QED BY <2>1, <2>2, <2>3 DEF Changing
  <1>14. PagesAwait'
    <2>1. ASSUME NEW i \in 1 .. m + 1, writes'[i].who # "check"
          PROVE  /\ acts'[writes'[i].who].phase = "save"
                 /\ \A j \in 1 .. m + 1 : j # i => writes'[j].who # writes'[i].who
      <3>1. CASE i = m + 1
        BY <1>4, <1>5, <1>7, <1>8, <1>13, <3>1
      <3>2. CASE i \in 1 .. m
        <4>1. \A j \in 1 .. m : j # i => writes[j].who # writes[i].who
          BY <1>7, <2>1, <3>2 DEF PageInv, PagesAwait, m
        <4> QED BY <1>5, <1>7, <1>8, <1>13, <2>1, <3>2, <4>1
      <3> QED BY <1>7, <3>1, <3>2
    <2> QED BY <1>7, <2>1 DEF PagesAwait
  <1>15. \A c \in Acts : /\ acts[c].phase # "idle" => acts[c].n \in Nat /\ acts[c].n > Fresh
                         /\ acts[c].phase = "idle" <=> acts[c] = NoAct
    BY <1>1, IdleAct DEF Shaped, AllActs, IsAct, PageInv, Numbered
  <1>16. \A c \in Acts \ {a} : acts[c].phase # "idle" => acts[c].n # n
    <2>1. CASE acts[a] = NoAct
      BY <1>11, <1>15, <2>1
    <2>2. CASE acts[a] # NoAct /\ n = acts[a].n
      BY <1>15, <2>2 DEF PageInv, Numbered
    <2> QED BY <2>1, <2>2
  <1>17. Numbered'
    <2>1. ASSUME NEW c \in Acts, acts'[c].phase # "idle" PROVE acts'[c].n > Fresh'
      <3>1. CASE c # a
        BY <1>8, <1>11, <1>15, <2>1, <3>1
      <3>2. CASE c = a
        BY <1>4, <1>8, <1>11, <1>15, <3>2
      <3> QED BY <3>1, <3>2
    <2>2. ASSUME NEW c \in Acts, NEW d \in Acts, acts'[c].phase # "idle", acts'[d].phase # "idle",
                 acts'[c].n = acts'[d].n
          PROVE  c = d
      <3>1. CASE c = a \/ d = a
        BY <1>4, <1>8, <1>16, <2>2, <3>1
      <3>2. CASE c # a /\ d # a
        BY <1>8, <2>2, <3>2 DEF PageInv, Numbered
      <3> QED BY <3>1, <3>2
    <2> QED BY <2>1, <2>2 DEF Numbered
  <1>18. OffEverywhere'
    <2> SUFFICES ASSUME NEW h \in Groups, said'[h].off, ~said'[h].undone
                 PROVE  /\ Off(jobs'[h]) /\ Off(disk.jobs[h])
                        /\ \A i \in 1 .. m + 1 : Off(writes'[i].jobs[h])
      BY <1>7 DEF OffEverywhere
    <2>1. h # g
      BY <1>6, <1>10
    <2>2. /\ Off(jobs[h]) /\ Off(disk.jobs[h]) /\ Off(jobs'[h])
          /\ \A i \in 1 .. m : Off(writes[i].jobs[h])
      BY <1>9, <1>10, <2>1 DEF PageInv, OffEverywhere, m
    <2> QED BY <1>5, <1>7, <2>2
  <1>19. TurningOff'
    <2> SUFFICES ASSUME NEW c \in Acts, TurnsOff(c)' PROVE OffFrom(c)'
      BY DEF TurningOff
    <2>1. CASE c = a
      <3>1. kind # "on" /\ ~on
        BY <1>4, <1>8, <2>1 DEF TurnsOff
      <3>2. Off(jobs'[g]) /\ acts'[c].group = g /\ acts'[c].phase = "save"
        BY <1>3, <1>4, <1>8, <1>9, <2>1, <3>1 DEF Off
      <3>3. ASSUME NEW i \in 1 .. m + 1, writes'[i].who = c, NEW j \in i .. m + 1
            PROVE  Off(writes'[j].jobs[g])
        <4>1. i = m + 1
          BY <1>7, <1>13, <2>1, <3>3
        <4>2. j = m + 1
          BY <1>7, <3>3, <4>1
        <4> QED BY <1>5, <1>7, <3>2, <4>2
      <3> QED BY <1>7, <3>2, <3>3 DEF OffFrom
    <2>2. CASE c # a
      <3> DEFINE h == acts[c].group
      <3>1. acts'[c] = acts[c] /\ acts[c].phase # "idle" /\ acts[c].n # n
        BY <1>8, <1>16, <2>2 DEF TurnsOff
      <3>2. h # g /\ h \in Groups
        <4>1. said'[h].n = acts[c].n /\ h \in Groups
          BY <1>1, <1>15, <3>1 DEF TurnsOff, Shaped, AllActs, IsAct
        <4> QED BY <1>6, <1>10, <3>1, <4>1
      <3>3. TurnsOff(c) /\ OffFrom(c)
        <4>1. said'[h] = said[h]
          BY <1>10, <3>2
        <4>2. TurnsOff(c)
          BY <3>1, <4>1 DEF TurnsOff
        <4> QED BY <4>2 DEF PageInv, TurningOff
      <3>4. /\ Off(jobs'[h])
            /\ \A i \in 1 .. m : writes[i].who = c => \A j \in i .. m : Off(writes[j].jobs[h])
            /\ acts[c].phase = "saved" =>
                 Off(disk.jobs[h]) /\ \A i \in 1 .. m : Off(writes[i].jobs[h])
        BY <1>9, <3>2, <3>3 DEF OffFrom, m
      <3>5. ASSUME NEW i \in 1 .. m + 1, writes'[i].who = c, NEW j \in i .. m + 1
            PROVE  Off(writes'[j].jobs[h])
        <4>1. CASE j = m + 1
          BY <1>5, <1>7, <3>4, <4>1
        <4>2. CASE j \in i .. m /\ i \in 1 .. m
          <5>1. j \in 1 .. m
            BY <4>2
          <5> QED BY <1>7, <3>4, <3>5, <4>2, <5>1
        <4> QED BY <1>7, <4>1, <4>2
      <3>6. acts[c].phase = "saved" => \A i \in 1 .. m + 1 : Off(writes'[i].jobs[h])
        BY <1>5, <1>7, <3>4
      <3> HIDE DEF h
      <3> QED BY <1>7, <3>1, <3>4, <3>5, <3>6 DEF OffFrom, h
    <2> QED BY <2>1, <2>2
  <1> QED BY <1>12, <1>14, <1>17, <1>18, <1>19 DEF PageInv

(* An action in progress.                                                  *)
LEMMA ActFields ==
    ASSUME Shaped, NEW a \in Acts, acts[a].phase # "idle"
    PROVE  /\ {"kind", "phase", "group", "n"} \subseteq DOMAIN acts[a]
           /\ acts[a].group \in Groups /\ acts[a].n \in Nat
           /\ acts[a].phase \in Changing => "prev" \in DOMAIN acts[a] /\ IsJob(acts[a].prev)
  BY IdleAct DEF Shaped, AllActs, IsAct

(* An action goes on from its save, which has ended.                       *)
LEMMA SwitchedKeeps ==
    ASSUME PageInv, NEW a \in Acts, Switched(a)
    PROVE  PageInv'
  <1> DEFINE g == acts[a].group
  <1>1. Shaped
    BY DEF PageInv
  <1>2. acts[a].phase = "saved" /\ UNCHANGED <<left, jobs, disk, writes>>
    BY DEF Switched, tabVars
  <1>3. g \in Groups /\ acts[a].n \in Nat /\ {"kind", "phase", "group", "n"} \subseteq DOMAIN acts[a]
    BY <1>1, <1>2, ActFields
  <1>4. \/ acts' = [acts EXCEPT ![a] = NoAct]
        \/ acts' = [acts EXCEPT ![a] = [acts[a] EXCEPT !.phase = "stopped"]]
    BY DEF Switched
  <1>5. \A c \in Acts \ {a} : acts'[c] = acts[c]
    BY <1>1, <1>4 DEF Shaped, AllActs
  <1>6. AllActs' /\ acts'[a].phase \in {"idle", "stopped"}
        /\ (acts'[a].phase # "idle" => acts'[a].n = acts[a].n)
    BY <1>1, <1>3, <1>4 DEF Shaped, AllActs, IsAct, NoAct, Changing
  <1>7. /\ Remembered' /\ \A h \in Groups : /\ said'[h].n = said[h].n /\ said'[h].undone = said[h].undone
                                            /\ said'[h].off => said[h].off \/ (h = g /\ TurnsOff(a))
                                                                \/ said[h].undone
    <2>1. CASE said' = said
      BY <1>1, <2>1 DEF Shaped, Remembered
    <2>2. CASE said' = [said EXCEPT ![g].off = TRUE] /\ acts[a].kind # "on" /\ said[g].n = acts[a].n
      BY <1>1, <1>2, <1>3, <2>2 DEF Shaped, Remembered, TurnsOff
    <2> QED BY <2>1, <2>2 DEF Switched
  <1>8. Bounded' /\ Fresh' = Fresh
    BY <1>1, <1>2, Unspent DEF Shaped
  <1>9. Shaped'
    BY <1>1, <1>2, <1>6, <1>7, <1>8 DEF Shaped
  <1>10. PagesAwait'
    <2> SUFFICES ASSUME NEW i \in 1 .. Len(writes), writes[i].who # "check"
                 PROVE  /\ acts'[writes[i].who].phase = "save"
                        /\ \A j \in 1 .. Len(writes) : j # i => writes[j].who # writes[i].who
      BY <1>2 DEF PagesAwait
    <2>1. writes[i].who \in Acts
      BY <1>1 DEF Shaped
    <2>2. /\ acts[writes[i].who].phase = "save"
          /\ \A j \in 1 .. Len(writes) : j # i => writes[j].who # writes[i].who
      BY DEF PageInv, PagesAwait
    <2> QED BY <1>2, <1>5, <2>1, <2>2
  <1>11. Numbered'
    BY <1>2, <1>5, <1>6, <1>8 DEF PageInv, Numbered
  <1>12. OffEverywhere'
    <2>1. ASSUME NEW h \in Groups, said'[h].off, ~said'[h].undone
          PROVE  /\ Off(jobs[h]) /\ Off(disk.jobs[h])
                 /\ \A i \in 1 .. Len(writes) : Off(writes[i].jobs[h])
      <3>1. CASE said[h].off
        BY <1>7, <2>1, <3>1 DEF PageInv, OffEverywhere
      <3>2. CASE h = g /\ TurnsOff(a)
        BY <1>2, <3>2 DEF PageInv, TurningOff, OffFrom
      <3> QED BY <1>7, <2>1, <3>1, <3>2
    <2> QED BY <1>2, <2>1 DEF OffEverywhere
  <1>13. TurningOff'
    <2> SUFFICES ASSUME NEW c \in Acts, TurnsOff(c)' PROVE OffFrom(c)'
      BY DEF TurningOff
    <2>1. c # a
      BY <1>6 DEF TurnsOff
    <2>2. acts'[c] = acts[c] /\ acts[c].phase # "idle"
      BY <1>5, <2>1 DEF TurnsOff
    <2>3. acts[c].group \in Groups
      BY <1>1, <2>2, ActFields
    <2>4. OffFrom(c)
      BY <1>7, <2>2, <2>3 DEF PageInv, TurningOff, TurnsOff
    <2> QED BY <1>2, <2>2, <2>4 DEF OffFrom
  <1> QED BY <1>9, <1>10, <1>11, <1>12, <1>13 DEF PageInv

(* A save that failed puts back the job there was, and says so.            *)
LEMMA NotSwitchedKeeps ==
    ASSUME PageInv, NEW a \in Acts, NotSwitched(a)
    PROVE  PageInv'
  <1> DEFINE g == acts[a].group
  <1>1. Shaped
    BY DEF PageInv
  <1>2. /\ acts[a].phase = "unsaved" /\ UNCHANGED <<left, disk, writes>>
        /\ acts' = [acts EXCEPT ![a] = NoAct] /\ jobs' = [jobs EXCEPT ![g] = acts[a].prev]
        /\ said' = [said EXCEPT ![g].undone = TRUE]
    BY DEF NotSwitched, tabVars
  <1>3. g \in Groups /\ IsJob(acts[a].prev)
    BY <1>1, <1>2, ActFields DEF Changing
  <1> HIDE DEF g
  <1>5. acts'[a] = NoAct /\ acts'[a].phase = "idle" /\ \A c \in Acts \ {a} : acts'[c] = acts[c]
    BY <1>1, <1>2 DEF Shaped, AllActs, NoAct
  <1>6. AllActs'
    BY <1>1, <1>2, <1>5 DEF Shaped, AllActs, IsAct
  <1>7. /\ Remembered' /\ said'[g].undone /\ \A h \in Groups \ {g} : said'[h] = said[h]
    BY <1>1, <1>2, <1>3 DEF Shaped, Remembered
  <1>8. Bounded' /\ Fresh' = Fresh
    BY <1>1, <1>2, Unspent DEF Shaped
  <1>4. AllJobs(jobs)' /\ \A h \in Groups \ {g} : jobs'[h] = jobs[h]
    BY <1>1, <1>2, <1>3 DEF Shaped, AllJobs
  <1>9. Shaped'
    BY <1>1, <1>2, <1>4, <1>6, <1>7, <1>8 DEF Shaped, AllJobs
  <1>10. PagesAwait'
    <2> SUFFICES ASSUME NEW i \in 1 .. Len(writes), writes[i].who # "check"
                 PROVE  /\ acts'[writes[i].who].phase = "save"
                        /\ \A j \in 1 .. Len(writes) : j # i => writes[j].who # writes[i].who
      BY <1>2 DEF PagesAwait
    <2>1. writes[i].who \in Acts
      BY <1>1 DEF Shaped
    <2>2. /\ acts[writes[i].who].phase = "save"
          /\ \A j \in 1 .. Len(writes) : j # i => writes[j].who # writes[i].who
      BY DEF PageInv, PagesAwait
    <2> QED BY <1>2, <1>5, <2>1, <2>2
  <1>11. Numbered'
    BY <1>2, <1>5, <1>8 DEF PageInv, Numbered
  <1>12. OffEverywhere'
    <2>1. ASSUME NEW h \in Groups, said'[h].off, ~said'[h].undone
          PROVE  /\ Off(jobs'[h]) /\ Off(disk.jobs[h])
                 /\ \A i \in 1 .. Len(writes) : Off(writes[i].jobs[h])
      <3>1. h # g /\ said'[h] = said[h] /\ jobs'[h] = jobs[h]
        BY <1>4, <1>7, <2>1
      <3> QED BY <2>1, <3>1 DEF PageInv, OffEverywhere
    <2> QED BY <1>2, <2>1 DEF OffEverywhere
  <1>13. TurningOff'
    <2> SUFFICES ASSUME NEW c \in Acts, TurnsOff(c)' PROVE OffFrom(c)'
      BY DEF TurningOff
    <2>2. c # a /\ acts'[c] = acts[c] /\ acts[c].phase # "idle"
      BY <1>5 DEF TurnsOff
    <2>3. acts[c].group \in Groups
      BY <1>1, <2>2, ActFields
    <2>4. acts[c].group # g
      BY <1>7, <2>2 DEF TurnsOff
    <2>5. OffFrom(c) /\ jobs'[acts[c].group] = jobs[acts[c].group]
      BY <1>4, <1>7, <2>2, <2>3, <2>4 DEF PageInv, TurningOff, TurnsOff
    <2> QED BY <1>2, <2>2, <2>5 DEF OffFrom
  <1> QED BY <1>9, <1>10, <1>11, <1>12, <1>13 DEF PageInv

(* The queue without its first save, and its places.                       *)
LEMMA TakesOne ==
    ASSUME IsQueue(writes), writes # <<>>, writes' = Tail(writes)
    PROVE  /\ Len(writes) \in Nat \ {0} /\ IsQueue(writes)' /\ Len(writes') = Len(writes) - 1
           /\ Head(writes) = writes[1] /\ 1 \in 1 .. Len(writes)
           /\ \A i \in 1 .. Len(writes') :
                writes'[i] = writes[i + 1] /\ i + 1 \in 1 .. Len(writes) /\ i + 1 # 1
           /\ \A i \in 1 .. Len(writes') : \A j \in i .. Len(writes') :
                j + 1 \in i + 1 .. Len(writes) /\ j \in 1 .. Len(writes')
           /\ \A i \in 1 .. Len(writes') : \A j \in 1 .. Len(writes') : i # j => i + 1 # j + 1
  <1>1. /\ Len(writes) \in Nat \ {0} /\ IsQueue(writes') /\ Len(writes') = Len(writes) - 1
        /\ Head(writes) = writes[1] /\ \A i \in 1 .. Len(writes) - 1 : writes'[i] = writes[i + 1]
    BY Taken
  <1> QED BY <1>1

(* The first save of the queue ends.                                       *)
LEMMA WrittenKeepsPage ==
    ASSUME PageInv, Written
    PROVE  PageInv'
  <1> DEFINE m == Len(writes')
             a == writes[1].who
  <1>1. Shaped
    BY DEF PageInv
  <1>2. /\ Len(writes) \in Nat \ {0} /\ IsQueue(writes)' /\ m = Len(writes) - 1
        /\ Head(writes) = writes[1] /\ 1 \in 1 .. Len(writes)
        /\ \A i \in 1 .. m : writes'[i] = writes[i + 1] /\ i + 1 \in 1 .. Len(writes) /\ i + 1 # 1
        /\ \A i \in 1 .. m : \A j \in i .. m : j + 1 \in i + 1 .. Len(writes) /\ j \in 1 .. m
        /\ \A i \in 1 .. m : \A j \in 1 .. m : i # j => i + 1 # j + 1
    BY <1>1, TakesOne DEF Shaped, Written
  <1>3. PICK saved \in BOOLEAN :
          /\ disk' = IF saved THEN [jobs |-> writes[1].jobs, claims |-> writes[1].claims] ELSE disk
          /\ acts' = IF a = "check" THEN acts ELSE [acts EXCEPT ![a].phase = After(@, saved)]
    BY <1>2 DEF Written
  <1>4. UNCHANGED <<jobs, said>>
    BY DEF Written
  <1>5. Bounded' /\ Fresh \in Nat /\ Fresh' \in Nat /\ Fresh' <= Fresh
    <2>1. "troubles" \in Budgets
      BY DEF Budgets
    <2> QED BY <1>1, <2>1, StillFresh DEF Written, Spends, Shaped
  <1>6. a # "check" => a \in Acts /\ acts[a].phase = "save"
    BY <1>1, <1>2 DEF Shaped, PageInv, PagesAwait
  <1>7. ASSUME a # "check"
        PROVE  /\ {"kind", "phase", "group", "n"} \subseteq DOMAIN acts[a]
               /\ acts[a].group \in Groups /\ acts[a].n \in Nat
               /\ "prev" \in DOMAIN acts[a] /\ IsJob(acts[a].prev)
    BY <1>1, <1>6, <1>7, ActFields DEF Changing
  <1> HIDE DEF m, a
  <1>8. /\ DOMAIN acts' = Acts /\ \A c \in Acts : c # a => acts'[c] = acts[c]
        /\ a # "check" => acts'[a] = [acts[a] EXCEPT !.phase = After("save", saved)]
    BY <1>1, <1>3, <1>6 DEF Shaped, AllActs
  <1>9. /\ a # "check" => /\ acts'[a].phase = IF saved THEN "saved" ELSE "unsaved"
                          /\ acts'[a].n = acts[a].n /\ acts'[a].kind = acts[a].kind
                          /\ acts'[a].group = acts[a].group /\ acts'[a].prev = acts[a].prev
                          /\ DOMAIN acts'[a] = DOMAIN acts[a]
    BY <1>7, <1>8 DEF After
  <1>18. \A c \in Acts : c = a => a # "check"
    BY SchedulesAssumption
  <1>10. AllActs'
    <2>1. a # "check" => IsAct(acts'[a])
      BY <1>7, <1>9 DEF IsAct, Changing
    <2>2. a = "check" => acts' = acts
      BY <1>3 DEF a
    <2> QED BY <1>1, <1>8, <2>1, <2>2 DEF Shaped, AllActs
  <1>11. (~saved /\ disk'.jobs = disk.jobs) \/ (saved /\ disk'.jobs = writes[1].jobs)
    BY <1>3
  <1>12. Shaped'
    <2>1. \A i \in 1 .. Len(writes) : AllJobs(writes[i].jobs) /\ writes[i].who \in Acts \cup {"check"}
      BY <1>1 DEF Shaped
    <2>2. \A i \in 1 .. m : AllJobs(writes'[i].jobs) /\ writes'[i].who \in Acts \cup {"check"}
      BY <1>2, <2>1
    <2>3. AllJobs(disk'.jobs) /\ AllJobs(jobs)
      BY <1>1, <1>2, <1>11, <2>1 DEF Shaped
    <2> QED BY <1>1, <1>2, <1>4, <1>5, <1>10, <2>2, <2>3 DEF Shaped, AllJobs, Remembered, m
  <1>13. \A i \in 1 .. m : writes'[i].who # a \/ writes'[i].who = "check"
    BY <1>2 DEF PageInv, PagesAwait, a
  <1>14. PagesAwait'
    <2>1. ASSUME NEW i \in 1 .. m, writes'[i].who # "check"
          PROVE  /\ acts'[writes'[i].who].phase = "save"
                 /\ \A j \in 1 .. m : j # i => writes'[j].who # writes'[i].who
      <3>1. /\ acts[writes[i + 1].who].phase = "save" /\ writes[i + 1].who \in Acts
            /\ \A j \in 1 .. Len(writes) : j # i + 1 => writes[j].who # writes[i + 1].who
        BY <1>1, <1>2, <2>1 DEF Shaped, PageInv, PagesAwait
      <3> QED BY <1>2, <1>8, <1>13, <2>1, <3>1
    <2> QED BY <2>1 DEF PagesAwait, m
  <1>15. Numbered'
    <2>1. \A c \in Acts : acts'[c].phase # "idle" => acts[c].phase # "idle" /\ acts'[c].n = acts[c].n
      BY <1>6, <1>8, <1>9, <1>18
    <2>2. \A c \in Acts : acts[c].phase # "idle" => acts[c].n \in Nat
      BY <1>1, ActFields
    <2> QED BY <1>5, <2>1, <2>2 DEF PageInv, Numbered
  <1>16. OffEverywhere'
    <2>1. ASSUME NEW h \in Groups, said[h].off, ~said[h].undone
          PROVE  /\ Off(jobs[h]) /\ Off(disk'.jobs[h]) /\ \A i \in 1 .. m : Off(writes'[i].jobs[h])
      <3>1. /\ Off(jobs[h]) /\ Off(disk.jobs[h]) /\ \A i \in 1 .. Len(writes) : Off(writes[i].jobs[h])
        BY <2>1 DEF PageInv, OffEverywhere
      <3> QED BY <1>2, <1>11, <3>1
    <2> QED BY <1>4, <2>1 DEF OffEverywhere, m
  <1>17. TurningOff'
    <2> SUFFICES ASSUME NEW c \in Acts, TurnsOff(c)' PROVE OffFrom(c)'
      BY DEF TurningOff
    <2> DEFINE g == acts[c].group
    <2>1. /\ acts'[c].group = g /\ TurnsOff(c) /\ OffFrom(c)
      <3>1. acts'[c].group = g /\ acts'[c].kind = acts[c].kind /\ acts'[c].n = acts[c].n
            /\ acts[c].phase \in {"save", "saved"}
        BY <1>6, <1>8, <1>9, <1>18 DEF TurnsOff
      <3>2. TurnsOff(c)
        BY <1>4, <3>1 DEF TurnsOff
      <3> QED BY <3>1, <3>2 DEF PageInv, TurningOff
    <2>2. /\ Off(jobs[g])
          /\ \A i \in 1 .. Len(writes) : writes[i].who = c => \A j \in i .. Len(writes) : Off(writes[j].jobs[g])
          /\ acts[c].phase = "saved" =>
               Off(disk.jobs[g]) /\ \A i \in 1 .. Len(writes) : Off(writes[i].jobs[g])
      BY <2>1 DEF OffFrom
    <2> HIDE DEF g
    <2>3. ASSUME NEW i \in 1 .. m, writes'[i].who = c, NEW j \in i .. m
          PROVE  Off(writes'[j].jobs[g])
      <3>1. writes[i + 1].who = c /\ j + 1 \in i + 1 .. Len(writes) /\ i + 1 \in 1 .. Len(writes)
            /\ writes'[j] = writes[j + 1]
        BY <1>2, <2>3
      <3> QED BY <2>2, <3>1
    <2>4. ASSUME acts'[c].phase = "saved"
          PROVE  Off(disk'.jobs[g]) /\ \A i \in 1 .. m : Off(writes'[i].jobs[g])
      <3>1. CASE acts[c].phase = "saved"
        BY <1>2, <1>11, <2>2, <3>1
      <3>2. CASE acts[c].phase # "saved"
        <4>1. c = a /\ a # "check" /\ saved
          BY <1>8, <1>9, <2>4, <3>2, SchedulesAssumption
        <4>2. \A j \in 1 .. Len(writes) : Off(writes[j].jobs[g])
          BY <1>2, <2>2, <4>1 DEF a
        <4> QED BY <1>2, <1>11, <4>1, <4>2
      <3> QED BY <3>1, <3>2
    <2> QED BY <1>4, <2>1, <2>2, <2>3, <2>4 DEF OffFrom, m
  <1> QED BY <1>12, <1>14, <1>15, <1>16, <1>17 DEF PageInv

(* No action in progress, and nothing to save.                             *)
LEMMA NoneInProgress ==
    ASSUME NEW as, NEW ws, as = [a \in Acts |-> NoAct], ws = <<>>
    PROVE  /\ IsQueue(ws) /\ Len(ws) = 0 /\ \A i \in 1 .. Len(ws) : FALSE
           /\ DOMAIN as = Acts /\ \A a \in Acts : IsAct(as[a]) /\ as[a].phase = "idle"
  <1>1. <<>> \in Seq({}) /\ Len(<<>>) = 0
    BY EmptySeq
  <1>2. IsQueue(ws) /\ Len(ws) = 0
    BY <1>1 DEF IsQueue
  <1> QED BY <1>2 DEF IsAct, NoAct

(* The next run has the jobs of the last save.                             *)
LEMMA RestartKeepsPage ==
    ASSUME PageInv, Restart
    PROVE  PageInv'
  <1>1. Shaped
    BY DEF PageInv
  <1>2. /\ disk' = disk \/ (writes # <<>> /\ disk' = [jobs |-> writes[1].jobs, claims |-> writes[1].claims])
        /\ jobs' = disk'.jobs /\ writes' = <<>> /\ acts' = [a \in Acts |-> NoAct]
    BY DEF Restart
  <1>3. said' = [g \in Groups |-> [said[g] EXCEPT !.undone = FALSE,
                   !.off = @ /\ ~(said[g].undone /\ jobs'[g] # None /\ jobs'[g].on)]]
    BY DEF Restart
  <1>4. writes # <<>> => 1 \in 1 .. Len(writes)
    BY <1>1, Taken DEF Shaped
  <1>5. AllJobs(jobs') /\ AllJobs(disk'.jobs)
    BY <1>1, <1>2, <1>4 DEF Shaped
  <1>6. Remembered' /\ \A g \in Groups : /\ ~said'[g].undone
                                         /\ said'[g].off => said[g].off /\ (said[g].undone => Off(jobs'[g]))
    BY <1>1, <1>3 DEF Shaped, Remembered, Off
  <1>7. Bounded' /\ Fresh \in Nat /\ Fresh' \in Nat /\ Fresh' <= Fresh
    <2>1. "restarts" \in Budgets
      BY DEF Budgets
    <2> QED BY <1>1, <2>1, StillFresh DEF Restart, Spends, Shaped
  <1>8. /\ IsQueue(writes') /\ Len(writes') = 0 /\ \A i \in 1 .. Len(writes') : FALSE
        /\ DOMAIN acts' = Acts /\ \A a \in Acts : IsAct(acts'[a]) /\ acts'[a].phase = "idle"
    BY <1>2, NoneInProgress
  <1>9. Shaped'
    BY <1>5, <1>6, <1>7, <1>8 DEF Shaped, AllActs, AllJobs
  <1>10. PagesAwait' /\ Numbered' /\ TurningOff'
    BY <1>8 DEF PagesAwait, Numbered, TurningOff, TurnsOff
  <1>11. OffEverywhere'
    <2> SUFFICES ASSUME NEW g \in Groups, said'[g].off, ~said'[g].undone
                 PROVE  Off(jobs'[g]) /\ Off(disk'.jobs[g])
      BY <1>8 DEF OffEverywhere
    <2>1. CASE said[g].undone
      BY <1>2, <1>6, <2>1
    <2>2. CASE ~said[g].undone
      BY <1>2, <1>4, <1>6, <2>2 DEF PageInv, OffEverywhere
    <2> QED BY <2>1, <2>2
  <1> QED BY <1>9, <1>10, <1>11 DEF PageInv

(* It holds at the start.                                                  *)
LEMMA InitPage == Init => PageInv
  <1> SUFFICES ASSUME Init PROVE PageInv
    OBVIOUS
  <1>1. left \in Scenarios
    BY DEF Init, TabsInit
  <1>2. Bounded
    BY <1>1, SchedulesAssumption DEF Bounded, Budgets
  <1>3. AllJobs(jobs)
    BY DEF Init, AllJobs, IsJob, JobFields
  <1>4. disk.jobs = jobs /\ writes = <<>> /\ acts = [a \in Acts |-> NoAct]
    BY DEF Init
  <1>5. Remembered /\ \A g \in Groups : ~said[g].off
    BY DEF Init, Remembered
  <1>6. /\ IsQueue(writes) /\ Len(writes) = 0 /\ \A i \in 1 .. Len(writes) : FALSE
        /\ DOMAIN acts = Acts /\ \A a \in Acts : IsAct(acts[a]) /\ acts[a].phase = "idle"
    BY <1>4, NoneInProgress
  <1>7. Shaped
    BY <1>2, <1>3, <1>4, <1>5, <1>6 DEF Shaped, AllActs
  <1> QED BY <1>5, <1>6, <1>7 DEF PageInv, PagesAwait, Numbered, TurningOff, TurnsOff, OffEverywhere

(* A job that is not turned on.                                            *)
LEMMA JobEdited ==
    ASSUME AllJobs(jobs), NEW h, jobs[h] # None, NEW j, jobs' = [jobs EXCEPT ![h] = j],
           h \in Groups => DOMAIN j = JobFields /\ (j.on => jobs[h].on)
    PROVE  AllJobs(jobs') /\ \A g \in Groups : Off(jobs[g]) => Off(jobs'[g])
  BY DEF AllJobs, IsJob, Off

(* No job changes.                                                         *)
LEMMA JobsSame ==
    ASSUME AllJobs(jobs), UNCHANGED jobs
    PROVE  AllJobs(jobs') /\ \A g \in Groups : Off(jobs[g]) => Off(jobs'[g])
  OBVIOUS

(* A job that was there has its fields.                                    *)
LEMMA JobThere ==
    ASSUME AllJobs(jobs), NEW h \in Groups, jobs[h] # None
    PROVE  DOMAIN jobs[h] = JobFields
  BY DEF AllJobs, IsJob

(* The steps of the check, and time.                                       *)
LEMMA CheckKeepsPage ==
    ASSUME PageInv,
           \/ CheckDue \/ NextJob \/ BeginCheck \/ GiveUp \/ Compare \/ Opened \/ AskStatus
           \/ StatusArrives \/ NextRow \/ Recover \/ NotClaimed \/ Recovered
           \/ \E g \in Groups : Elapses(g)
    PROVE  PageInv'
  <1>1. AllJobs(jobs)
    BY DEF PageInv, Shaped
  <1>2. {"troubles", "ticks"} \subseteq Budgets
    BY DEF Budgets
  <1>3. CASE \/ CheckDue \/ BeginCheck \/ Opened \/ AskStatus \/ StatusArrives
             \/ NextRow \/ Recover \/ NotClaimed \/ Recovered
    <2>1. UNCHANGED <<jobs, acts, disk, said>>
      BY <1>3 DEF CheckDue, BeginCheck, Opened, AskStatus, StatusArrives, NextRow, Recover,
                  NotClaimed, Recovered
    <2>2. Spends
      BY <1>2, <1>3 DEF CheckDue, BeginCheck, Opened, AskStatus, StatusArrives, NextRow, Recover,
                  NotClaimed, Recovered, tabVars, Spends
    <2>3. UNCHANGED writes \/ \E cs : Persist("check", jobs', cs)
      BY <1>3, <2>1 DEF CheckDue, BeginCheck, Opened, AskStatus, StatusArrives, NextRow, Recover,
                  NotClaimed, Recovered, Leave
    <2> QED BY <1>1, <2>1, <2>2, <2>3, JobsSame, JobsChange
  <1>4. CASE NextJob
    <2>1. UNCHANGED <<acts, disk, said, left>>
      BY <1>4 DEF NextJob, tabVars
    <2>2. \/ UNCHANGED <<jobs, writes>>
          \/ \E r : /\ jobs[r.group] # None
                    /\ jobs' = [jobs EXCEPT ![r.group].due = FALSE]
                    /\ Persist("check", jobs', claims)
      BY <1>4 DEF NextJob, Current
    <2>3. CASE UNCHANGED <<jobs, writes>>
      BY <1>1, <2>1, <2>3, JobsSame, JobsChange DEF Spends
    <2>4. ASSUME NEW r, jobs[r.group] # None, jobs' = [jobs EXCEPT ![r.group].due = FALSE],
                 Persist("check", jobs', claims)
          PROVE  PageInv'
      <3>1. jobs' = [jobs EXCEPT ![r.group] = [jobs[r.group] EXCEPT !.due = FALSE]]
        BY <2>4
      <3>2. r.group \in Groups => /\ DOMAIN [jobs[r.group] EXCEPT !.due = FALSE] = JobFields
                                  /\ [jobs[r.group] EXCEPT !.due = FALSE].on => jobs[r.group].on
        BY <1>1, <2>4, JobThere DEF JobFields
      <3>3. AllJobs(jobs') /\ \A g \in Groups : Off(jobs[g]) => Off(jobs'[g])
        BY <1>1, <2>4, <3>1, <3>2, JobEdited
      <3> QED BY <2>1, <2>4, <3>3, JobsChange DEF Spends
    <2> QED BY <2>2, <2>3, <2>4
  <1>5. CASE GiveUp
    <2>1. UNCHANGED <<acts, disk, said, left, writes>>
      BY <1>5 DEF GiveUp, tabVars
    <2>2. jobs' = [g \in Groups |-> IF jobs[g] = None THEN None ELSE [jobs[g] EXCEPT !.on = FALSE]]
      BY <1>5 DEF GiveUp
    <2>3. \A g \in Groups : IsJob(jobs'[g]) /\ Off(jobs'[g])
      <3> SUFFICES ASSUME NEW g \in Groups PROVE IsJob(jobs'[g]) /\ Off(jobs'[g])
        OBVIOUS
      <3>1. CASE jobs[g] = None
        BY <2>2, <3>1 DEF IsJob, Off
      <3>2. CASE jobs[g] # None
        BY <1>1, <2>2, <3>2, JobThere DEF IsJob, Off, JobFields
      <3> QED BY <3>1, <3>2
    <2>4. AllJobs(jobs')
      BY <2>2, <2>3 DEF AllJobs
    <2> QED BY <2>1, <2>3, <2>4, JobsChange DEF Spends
  <1>6. CASE Compare
    <2> DEFINE h == check.job.group
    <2>1. UNCHANGED <<acts, disk, said, left>>
      BY <1>6 DEF Compare
    <2>2. \/ UNCHANGED jobs /\ Persist("check", jobs', claims)
          \/ /\ jobs[h] # None
             /\ \/ jobs' = [jobs EXCEPT ![h].on = FALSE] /\ Persist("check", jobs', claims)
                \/ jobs' = [jobs EXCEPT ![h].members = Wanted(jobs[h])] /\ UNCHANGED writes
      BY <1>6 DEF Compare, Leave, Current
    <2> HIDE DEF h
    <2>3. CASE UNCHANGED jobs /\ Persist("check", jobs', claims)
      BY <1>1, <2>1, <2>3, JobsSame, JobsChange DEF Spends
    <2>4. CASE jobs[h] # None /\ jobs' = [jobs EXCEPT ![h].on = FALSE] /\ Persist("check", jobs', claims)
      <3>1. jobs' = [jobs EXCEPT ![h] = [jobs[h] EXCEPT !.on = FALSE]]
        BY <2>4
      <3>2. h \in Groups => /\ DOMAIN [jobs[h] EXCEPT !.on = FALSE] = JobFields
                            /\ ~[jobs[h] EXCEPT !.on = FALSE].on
        BY <1>1, <2>4, JobThere DEF JobFields
      <3>3. AllJobs(jobs') /\ \A g \in Groups : Off(jobs[g]) => Off(jobs'[g])
        BY <1>1, <2>4, <3>1, <3>2, JobEdited
      <3> QED BY <2>1, <2>4, <3>3, JobsChange DEF Spends
    <2>5. CASE jobs[h] # None /\ jobs' = [jobs EXCEPT ![h].members = Wanted(jobs[h])] /\ UNCHANGED writes
      <3> DEFINE wanted == Wanted(jobs[h])
      <3> HIDE DEF wanted
      <3>1. jobs' = [jobs EXCEPT ![h] = [jobs[h] EXCEPT !.members = wanted]]
        BY <2>5 DEF wanted
      <3>2. h \in Groups => /\ DOMAIN [jobs[h] EXCEPT !.members = wanted] = JobFields
                            /\ [jobs[h] EXCEPT !.members = wanted].on => jobs[h].on
        BY <1>1, <2>5, JobThere DEF JobFields
      <3>3. AllJobs(jobs') /\ \A g \in Groups : Off(jobs[g]) => Off(jobs'[g])
        BY <1>1, <2>5, <3>1, <3>2, JobEdited
      <3> QED BY <2>1, <2>5, <3>3, JobsChange DEF Spends
    <2> QED BY <2>2, <2>3, <2>4, <2>5
  <1>7. ASSUME NEW g \in Groups, Elapses(g) PROVE PageInv'
    <2>1. UNCHANGED <<acts, disk, said, writes>> /\ jobs[g] # None
      BY <1>7 DEF Elapses
    <2>2. Spends
      BY <1>2, <1>7 DEF Elapses, Spends
    <2>3. jobs' = [jobs EXCEPT ![g] = [jobs[g] EXCEPT !.due = TRUE]]
      BY <1>7 DEF Elapses
    <2>4. /\ DOMAIN [jobs[g] EXCEPT !.due = TRUE] = JobFields
          /\ [jobs[g] EXCEPT !.due = TRUE].on => jobs[g].on
      BY <1>1, <2>1, JobThere DEF JobFields
    <2>5. AllJobs(jobs') /\ \A x \in Groups : Off(jobs[x]) => Off(jobs'[x])
      BY <1>1, <2>1, <2>3, <2>4, JobEdited
    <2> QED BY <2>1, <2>2, <2>5, JobsChange
  <1> QED BY <1>3, <1>4, <1>5, <1>6, <1>7

(* One action goes on, away from any save, or ends.                        *)
LEMMA ActMoves ==
    ASSUME PageInv, UNCHANGED <<jobs, disk, writes, said, left>>,
           NEW a \in Acts, NEW y, acts' = [acts EXCEPT ![a] = y], Moves(acts[a], y)
    PROVE  PageInv'
  <1>1. DOMAIN acts = Acts
    BY DEF PageInv, Shaped, AllActs
  <1>2. DOMAIN acts' = Acts /\ acts'[a] = y /\ \A c \in Acts \ {a} : acts'[c] = acts[c]
    BY <1>1
  <1>3. \A c \in Acts : acts'[c] = acts[c] \/ Moves(acts[c], acts'[c])
    BY <1>2
  <1> QED BY <1>2, <1>3, ActsMove DEF Spends

(* It ends, or goes to a phase in which nothing is saved.                  *)
LEMMA MovesOn ==
    ASSUME PageInv, NEW a \in Acts, acts[a].phase \notin Changing, acts[a].phase # "idle"
    PROVE  /\ acts[a].group \in Groups /\ acts[a].n \in Nat /\ acts[a] # NoAct
           /\ Moves(acts[a], NoAct)
           /\ \A p \in {"answered", "stop", "stopped", "fresh"} : Moves(acts[a], [acts[a] EXCEPT !.phase = p])
  <1>1. /\ {"kind", "phase", "group", "n"} \subseteq DOMAIN acts[a]
        /\ acts[a].group \in Groups /\ acts[a].n \in Nat
    BY ActFields DEF PageInv
  <1>2. acts[a] # NoAct /\ NoAct.phase = "idle"
    BY DEF NoAct
  <1>3. Moves(acts[a], NoAct)
    BY <1>2 DEF Moves, IsAct, Changing
  <1>4. ASSUME NEW p \in {"answered", "stop", "stopped", "fresh"}
        PROVE  Moves(acts[a], [acts[a] EXCEPT !.phase = p])
    BY <1>1, <1>2 DEF Moves, IsAct, Changing
  <1> QED BY <1>1, <1>2, <1>3, <1>4

(* The switch and the X of a group.                                        *)
LEMMA StartsKeepPage ==
    ASSUME PageInv, NEW a \in Acts, NEW g \in Groups, SwitchOn(a, g) \/ SwitchOff(a, g) \/ PressX(a, g)
    PROVE  PageInv'
  <1>1. Fresh \in Nat /\ NoAct.phase = "idle" /\ "idle" \notin Changing /\ "fresh" \notin Changing
    BY StillFresh, Unspent DEF PageInv, Shaped, NoAct, Changing, Fresh, Bounded, Budgets
  <1>2. CASE SwitchOn(a, g)
    <2> DEFINE x == [kind |-> "on", phase |-> "fresh", group |-> g, n |-> Fresh, desired |-> groups[g]]
    <2>1. /\ UNCHANGED <<jobs, disk, writes, said>> /\ Spend("toggles") /\ acts[a] = NoAct
          /\ acts' = [acts EXCEPT ![a] = x]
      BY <1>2 DEF SwitchOn
    <2>2. IsAct(x) /\ x.phase \notin Changing /\ x.n = Fresh
      BY <1>1 DEF IsAct, Changing
    <2> HIDE DEF x
    <2> QED BY <2>1, <2>2, ActStarts
  <1>3. CASE PressX(a, g)
    <2> DEFINE x == [kind |-> "x", phase |-> "fresh", group |-> g, n |-> Fresh,
                     active |-> Active(g, groups, snap.windows)]
    <2>1. /\ UNCHANGED <<jobs, disk, writes, said>> /\ Spend("clicks") /\ acts[a] = NoAct
          /\ acts' = [acts EXCEPT ![a] = x]
      BY <1>3 DEF PressX
    <2>2. IsAct(x) /\ x.phase \notin Changing /\ x.n = Fresh
      BY <1>1 DEF IsAct, Changing
    <2> HIDE DEF x
    <2> QED BY <2>1, <2>2, ActStarts
  <1>4. CASE SwitchOff(a, g)
    <2>1. /\ Spend("toggles") /\ acts[a] = NoAct /\ UNCHANGED disk
          /\ SetEnabled(a, "off", g, Fresh, FALSE, groups[g])
      BY <1>4 DEF SwitchOff
    <2>2. acts[a].phase \notin Changing
      BY <1>1, <2>1
    <2> QED BY <1>1, <2>1, <2>2, SetKeeps
  <1> QED BY <1>2, <1>3, <1>4

(* They go on.                                                             *)
LEMMA ActionsKeepPage ==
    ASSUME PageInv, NEW a \in Acts,
           \/ EnableJob(a) \/ ChooseX(a) \/ AnswerDialog(a) \/ Stop(a) \/ Stopped(a) \/ Forget(a)
    PROVE  PageInv'
  <1>1. acts[a].phase \in {"answered", "dialog", "stop", "stopped"}
    BY DEF EnableJob, ChooseX, AnswerDialog, Stop, Stopped, Forget
  <1>2. acts[a].phase \notin Changing /\ acts[a].phase # "idle"
    BY <1>1 DEF Changing
  <1>3. /\ acts[a].group \in Groups /\ acts[a].n \in Nat /\ acts[a] # NoAct
        /\ Moves(acts[a], NoAct)
        /\ \A p \in {"answered", "stop", "stopped", "fresh"} : Moves(acts[a], [acts[a] EXCEPT !.phase = p])
    BY <1>2, MovesOn
  <1>4. UNCHANGED <<left, disk>>
    BY DEF EnableJob, ChooseX, AnswerDialog, Stop, Stopped, Forget, tabVars
  <1>5. ASSUME NEW y, acts' = [acts EXCEPT ![a] = y], Moves(acts[a], y), UNCHANGED <<jobs, writes, said>>
        PROVE  PageInv'
    BY <1>4, <1>5, ActMoves
  <1>6. CASE EnableJob(a)
    <2>1. CASE SetEnabled(a, "on", acts[a].group, acts[a].n, TRUE, acts[a].desired)
      BY <1>2, <1>3, <1>4, <2>1, SetKeeps
    <2>2. CASE acts' = [acts EXCEPT ![a] = NoAct] /\ UNCHANGED <<jobs, writes, said>>
      BY <1>3, <1>5, <2>2
    <2> QED BY <1>6, <2>1, <2>2 DEF EnableJob
  <1>7. CASE Stop(a)
    <2>1. CASE SetEnabled(a, acts[a].kind, acts[a].group, acts[a].n, FALSE, jobs[acts[a].group])
      BY <1>2, <1>3, <1>4, <2>1, SetKeeps
    <2>2. CASE acts' = [acts EXCEPT ![a].phase = "stopped"] /\ UNCHANGED <<jobs, writes, said>>
      <3>1. acts' = [acts EXCEPT ![a] = [acts[a] EXCEPT !.phase = "stopped"]]
        BY <2>2
      <3> QED BY <1>3, <1>5, <2>2, <3>1
    <2> QED BY <1>7, <2>1, <2>2 DEF Stop
  <1>8. CASE ChooseX(a)
    <2> DEFINE y == [kind |-> IF acts[a].active THEN "close" ELSE "delete",
                     phase |-> IF acts[a].active THEN "dialog" ELSE "stop",
                     group |-> acts[a].group, n |-> acts[a].n]
    <2>1. (acts' = [acts EXCEPT ![a] = NoAct] \/ acts' = [acts EXCEPT ![a] = y])
          /\ UNCHANGED <<jobs, writes, said>>
      BY <1>8 DEF ChooseX
    <2>2. Moves(acts[a], y)
      BY <1>2, <1>3 DEF Moves, IsAct, Changing
    <2> HIDE DEF y
    <2> QED BY <1>3, <1>5, <2>1, <2>2
  <1>9. CASE AnswerDialog(a) \/ Stopped(a) \/ Forget(a)
    <2>1. UNCHANGED <<jobs, writes, said>>
      BY <1>9 DEF AnswerDialog, Stopped, Forget
    <2>2. \/ acts' = [acts EXCEPT ![a] = NoAct]
          \/ acts' = [acts EXCEPT ![a].phase = "stop"]
          \/ acts' = [acts EXCEPT ![a].phase = "fresh"]
      BY <1>9 DEF AnswerDialog, Stopped, Forget
    <2>3. \/ acts' = [acts EXCEPT ![a] = NoAct]
          \/ acts' = [acts EXCEPT ![a] = [acts[a] EXCEPT !.phase = "stop"]]
          \/ acts' = [acts EXCEPT ![a] = [acts[a] EXCEPT !.phase = "fresh"]]
      BY <2>2
    <2> QED BY <1>3, <1>5, <2>1, <2>3
  <1> QED BY <1>6, <1>7, <1>8, <1>9

(* What leaves the actions and the jobs alone.                             *)
LEMMA WorldKeepsPage ==
    ASSUME PageInv, UNCHANGED <<jobs, disk, writes, said, acts>>, Spends
    PROVE  PageInv'
  <1>1. DOMAIN acts' = Acts
    BY DEF PageInv, Shaped, AllActs
  <1> QED BY <1>1, ActsMove

(* What Terminal and the user do spends one bound, or none.                *)
LEMMA WorldSpends ==
    ASSUME \/ Terminal \/ BeginRead \/ StopLaunching \/ PlanLaunches
           \/ \E s \in Sessions : BeginIfCurrent(s) \/ LaunchTab(s) \/ RefuseLaunch(s) \/ TurnFails(s)
           \/ \E p \in Files : FollowFile(p)
           \/ \E g, es, o : ClickGroup(g, es, o)
    PROVE  Spends
  <1>1. {"events", "clicks", "troubles", "turns", "follows"} \subseteq Budgets
    BY DEF Budgets
  <1>2. CASE Terminal
    <2>1. UNCHANGED left \/ Spend("events") \/ Spend("troubles")
      BY <1>2 DEF Terminal, Appears, FailsToStart, UserOpens, CloseTab, TabEnds, CloseWindow, WindowEnds
    <2> QED BY <1>1, <2>1 DEF Spends
  <1>3. CASE BeginRead \/ StopLaunching \/ PlanLaunches
    BY <1>3 DEF BeginRead, StopLaunching, PlanLaunches, Spends
  <1>4. ASSUME NEW s \in Sessions, BeginIfCurrent(s) \/ LaunchTab(s) \/ RefuseLaunch(s) \/ TurnFails(s)
        PROVE  Spends
    <2>1. UNCHANGED left \/ Spend("turns")
      BY <1>4 DEF BeginIfCurrent, BeginLaunch, LaunchTab, RefuseLaunch, TurnFails
    <2> QED BY <1>1, <2>1 DEF Spends
  <1>5. ASSUME NEW p \in Files, FollowFile(p) PROVE Spends
    BY <1>1, <1>5 DEF FollowFile, Follow, Spends
  <1>6. ASSUME NEW g, NEW es, NEW o, ClickGroup(g, es, o) PROVE Spends
    BY <1>1, <1>6 DEF ClickGroup, Spends
  <1> QED BY <1>2, <1>3, <1>4, <1>5, <1>6

(* A read ends, and whoever awaits it goes on.                             *)
LEMMA ReadKeepsPage ==
    ASSUME PageInv, ReadEnds
    PROVE  PageInv'
  <1>1. UNCHANGED <<jobs, disk, writes, said>>
    BY DEF ReadEnds
  <1>2. Spends
    <2>1. UNCHANGED left \/ Spend("troubles")
      BY DEF ReadEnds, EndRead, EndStale
    <2>2. "troubles" \in Budgets
      BY DEF Budgets
    <2> QED BY <2>1, <2>2 DEF Spends
  <1>3. UNCHANGED acts \/ acts' = [a \in Acts |-> Reply(acts[a])]
    BY DEF ReadEnds
  <1>4. \A a \in Acts : Reply(acts[a]) = acts[a] \/ Moves(acts[a], Reply(acts[a]))
    <2> SUFFICES ASSUME NEW a \in Acts, acts[a].phase = "fresh" PROVE Moves(acts[a], Reply(acts[a]))
      BY DEF Reply
    <2>1. acts[a].phase \notin Changing /\ acts[a].phase # "idle"
      BY DEF Changing
    <2>2. Moves(acts[a], [acts[a] EXCEPT !.phase = "answered"])
      BY <2>1, MovesOn
    <2> QED BY <2>2 DEF Reply
  <1>5. DOMAIN acts' = Acts /\ \A a \in Acts : acts'[a] = acts[a] \/ Moves(acts[a], acts'[a])
    <2>1. DOMAIN acts = Acts
      BY DEF PageInv, Shaped, AllActs
    <2> QED BY <1>3, <1>4, <2>1
  <1> QED BY <1>1, <1>2, <1>5, ActsMove

(* Every step keeps it.                                                    *)
LEMMA NextPage == PageInv /\ [Next]_vars => PageInv'
  <1> SUFFICES ASSUME PageInv, [Next]_vars PROVE PageInv'
    OBVIOUS
  <1>1. CASE UNCHANGED vars
    BY <1>1, WorldKeepsPage DEF vars, schedules, tabVars, Spends
  <1>2. ASSUME UNCHANGED <<schedules, stuck>>,
               \/ Terminal \/ BeginRead \/ PlanLaunches
               \/ \E s \in Sessions : LaunchTab(s) \/ RefuseLaunch(s)
               \/ \E g, es, o : ClickGroup(g, es, o)
        PROVE  PageInv'
    BY <1>2, WorldSpends, WorldKeepsPage DEF schedules
  <1>3. CASE \/ \E s \in Sessions : BeginIfCurrent(s) \/ TurnFails(s)
             \/ StopLaunching \/ \E p \in Files : FollowFile(p)
    <2>1. UNCHANGED <<jobs, disk, writes, said, acts>>
      BY <1>3 DEF BeginIfCurrent, TurnFails, StopLaunching, FollowFile, schedules
    <2> QED BY <1>3, <2>1, WorldSpends, WorldKeepsPage
  <1>4. CASE Resume
    <2>1. CASE PlanLaunches /\ UNCHANGED <<schedules, stuck>>
      BY <1>2, <2>1
    <2>2. CASE \/ NextJob \/ BeginCheck \/ GiveUp \/ Compare \/ Opened \/ AskStatus \/ NextRow \/ Recover
               \/ NotClaimed
      BY <2>2, CheckKeepsPage
    <2>3. ASSUME NEW a \in Acts, \/ EnableJob(a) \/ ChooseX(a) \/ Stop(a) \/ Stopped(a) \/ Forget(a)
                                 \/ Switched(a) \/ NotSwitched(a)
          PROVE  PageInv'
      BY <2>3, ActionsKeepPage, SwitchedKeeps, NotSwitchedKeeps
    <2> QED BY <1>3, <1>4, <2>1, <2>2, <2>3 DEF Resume
  <1>5. CASE Clicked
    <2>1. ASSUME NEW a \in Acts, NEW g \in Known(groups),
                 SwitchOn(a, g) \/ SwitchOff(a, g) \/ PressX(a, g)
          PROVE  PageInv'
      <3>1. g \in Groups
        BY DEF Known
      <3> QED BY <2>1, <3>1, StartsKeepPage
    <2>2. ASSUME NEW a \in Acts, AnswerDialog(a) PROVE PageInv'
      BY <2>2, ActionsKeepPage
    <2>3. CASE UNCHANGED <<schedules, stuck>> /\ \E g, es, o : ClickGroup(g, es, o)
      BY <1>2, <2>3
    <2> QED BY <1>5, <2>1, <2>2, <2>3 DEF Clicked
  <1>6. CASE Written
    BY <1>6, WrittenKeepsPage
  <1>7. CASE ReadEnds
    BY <1>7, ReadKeepsPage
  <1>8. CASE CheckDue \/ StatusArrives \/ Recovered \/ \E g \in Groups : Elapses(g)
    BY <1>8, CheckKeepsPage
  <1>9. CASE Restart
    BY <1>9, RestartKeepsPage
  <1> QED BY <1>1, <1>2, <1>3, <1>4, <1>5, <1>6, <1>7, <1>8, <1>9 DEF Next

-----------------------------------------------------------------------------
(***************************************************************************)
(* The timer (AlwaysWatched): whatever turns a group on, ends a check or   *)
(* changes the file sets the timer, or is excepted.                        *)
(***************************************************************************)
(* A group that needs its timer.                                           *)
Needed(g) ==
    /\ check = NoCheck /\ ShownOn(g) /\ jobs[g].file = path /\ ~said[g].undone
    /\ \A a \in Acts : acts[a].phase \in Changing => acts[a].group # g

(* AlwaysWatched says that a group that needs its timer has it.            *)
LEMMA IsWatched == AlwaysWatched <=> \A g \in Groups : Needed(g) => timer
  BY DEF AlwaysWatched, Needed, Changing

(* The timer is set anew, or is not needed, or no group comes to need it.  *)
LEMMA WatchSet ==
    ASSUME NEW js, NEW p, jobs' = js, path' = p, timer' = Scheduled(js, p)
    PROVE  AlwaysWatched'
  BY DEF AlwaysWatched, ShownOn, Scheduled

(* While a check is in progress no timer is needed.                        *)
LEMMA WatchChecks == ASSUME check' # NoCheck PROVE AlwaysWatched'
  BY DEF AlwaysWatched

(* The timer stays, and so does the need for it.                           *)
LEMMA WatchStays ==
    ASSUME AlwaysWatched, UNCHANGED timer, \A g \in Groups : Needed(g)' => Needed(g)
    PROVE  AlwaysWatched'
  BY IsWatched DEF AlwaysWatched, Needed, Changing

(* Jobs, switches and the check stay; what is being saved stays so.        *)
LEMMA WatchMoves ==
    ASSUME AlwaysWatched, UNCHANGED <<timer, path, jobs, said>>, check' = NoCheck => check = NoCheck,
           \A a \in Acts : acts[a].phase \in Changing =>
             acts'[a].phase \in Changing /\ acts'[a].group = acts[a].group
    PROVE  AlwaysWatched'
  <1>1. \A g \in Groups : Needed(g)' => Needed(g)
    BY DEF Needed, ShownOn
  <1> QED BY <1>1, WatchStays

(* A check in progress.                                                    *)
LEMMA StillChecks == ASSUME check'.phase # "idle" PROVE check' # NoCheck
  BY DEF NoCheck

(* The page's actions.                                                     *)
LEMMA SetWatches ==
    ASSUME AlwaysWatched, PageInv, NEW a \in Acts, NEW g \in Groups, NEW kind, NEW n, NEW on, NEW desired,
           SetEnabled(a, kind, g, n, on, desired), acts[a].phase \notin Changing,
           UNCHANGED <<timer, path, check>>
    PROVE  AlwaysWatched'
  <1>1. DOMAIN acts = Acts /\ DOMAIN jobs = Groups /\ DOMAIN said = Groups
    BY DEF PageInv, Shaped, AllActs, AllJobs, Remembered
  <1>2. /\ acts'[a].phase \in Changing /\ acts'[a].group = g
        /\ \A c \in Acts \ {a} : acts'[c] = acts[c]
    BY <1>1 DEF SetEnabled, Changing
  <1>3. \A h \in Groups \ {g} : jobs'[h] = jobs[h] /\ said'[h] = said[h]
    BY <1>1 DEF SetEnabled
  <1>4. ASSUME NEW h \in Groups, Needed(h)' PROVE Needed(h)
    <2>1. h # g
      BY <1>2, <1>4 DEF Needed
    <2> QED BY <1>2, <1>3, <1>4, <2>1 DEF Needed, ShownOn
  <1> QED BY <1>4, WatchStays

(* An action of the page sets the timer when it has saved its job.         *)
LEMMA ActsWatch ==
    ASSUME AlwaysWatched, PageInv, NEW a \in Acts,
           \/ \E g \in Groups : SwitchOn(a, g) \/ SwitchOff(a, g) \/ PressX(a, g)
           \/ EnableJob(a) \/ ChooseX(a) \/ AnswerDialog(a) \/ Stop(a) \/ Stopped(a)
           \/ Forget(a) \/ Switched(a) \/ NotSwitched(a)
    PROVE  AlwaysWatched'
  <1>1. DOMAIN acts = Acts
    BY DEF PageInv, Shaped, AllActs
  <1>2. ASSUME acts[a].phase \notin Changing, NEW y, acts' = [acts EXCEPT ![a] = y],
               UNCHANGED <<timer, path, jobs, said, check>>
        PROVE  AlwaysWatched'
    <2>1. \A c \in Acts : acts[c].phase \in Changing => acts'[c] = acts[c]
      BY <1>1, <1>2
    <2> QED BY <1>2, <2>1, WatchMoves
  <1>3. NoAct.phase \notin Changing
    BY DEF NoAct, Changing
  <1>4. ASSUME NEW g \in Groups, SwitchOn(a, g) \/ PressX(a, g) PROVE AlwaysWatched'
    <2>1. acts[a] = NoAct /\ (\E y : acts' = [acts EXCEPT ![a] = y]) /\ UNCHANGED <<timer, path, jobs, said, check>>
      BY <1>4 DEF SwitchOn, PressX
    <2> QED BY <1>2, <1>3, <2>1
  <1>5. ASSUME NEW g \in Groups, SwitchOff(a, g) PROVE AlwaysWatched'
    <2>1. /\ acts[a] = NoAct /\ UNCHANGED <<timer, path, check>>
          /\ SetEnabled(a, "off", g, Fresh, FALSE, groups[g])
      BY <1>5 DEF SwitchOff, monitor
    <2> QED BY <1>3, <2>1, SetWatches
  <1>6. CASE EnableJob(a) \/ Stop(a)
    <2>1. acts[a].phase \in {"answered", "stop"} /\ UNCHANGED <<timer, path, check>>
      BY <1>6 DEF EnableJob, Stop, tabVars, monitor
    <2>2. acts[a].phase \notin Changing /\ acts[a].group \in Groups
      BY <2>1, ActFields DEF PageInv, Changing
    <2>3. \/ (\E y : acts' = [acts EXCEPT ![a] = y]) /\ UNCHANGED <<jobs, said>>
          \/ SetEnabled(a, "on", acts[a].group, acts[a].n, TRUE, acts[a].desired)
          \/ SetEnabled(a, acts[a].kind, acts[a].group, acts[a].n, FALSE, jobs[acts[a].group])
      <3>1. CASE EnableJob(a)
        BY <3>1 DEF EnableJob
      <3>2. CASE Stop(a)
        <4>1. SetEnabled(a, acts[a].kind, acts[a].group, acts[a].n, FALSE, jobs[acts[a].group])
              \/ (acts' = [acts EXCEPT ![a].phase = "stopped"] /\ UNCHANGED <<jobs, said>>)
          BY <3>2 DEF Stop
        <4>2. [acts EXCEPT ![a].phase = "stopped"] = [acts EXCEPT ![a] = [acts[a] EXCEPT !.phase = "stopped"]]
          OBVIOUS
        <4> QED BY <4>1, <4>2
      <3> QED BY <1>6, <3>1, <3>2
    <2> QED BY <1>2, <2>1, <2>2, <2>3, SetWatches
  <1>7. CASE ChooseX(a) \/ AnswerDialog(a) \/ Stopped(a) \/ Forget(a)
    <2>1. acts[a].phase \in {"answered", "dialog", "stopped"} /\ UNCHANGED <<timer, path, jobs, said, check>>
      BY <1>7 DEF ChooseX, AnswerDialog, Stopped, Forget, tabVars, monitor
    <2>2. \A c \in Acts \ {a} : acts'[c] = acts[c]
      BY <1>1, <1>7 DEF ChooseX, AnswerDialog, Stopped, Forget
    <2>3. \A c \in Acts : acts[c].phase \in Changing => acts'[c] = acts[c]
      BY <2>1, <2>2 DEF Changing
    <2> QED BY <2>1, <2>3, WatchMoves
  <1>8. CASE Switched(a)
    <2>1. UNCHANGED <<path, jobs, check>>
      BY <1>8 DEF Switched, tabVars, monitor
    <2>2. CASE check = NoCheck
      BY <1>8, <2>1, <2>2, WatchSet DEF Switched
    <2>3. CASE check # NoCheck
      BY <2>1, <2>3, WatchChecks
    <2> QED BY <2>2, <2>3
  <1>9. CASE NotSwitched(a)
    <2> DEFINE g == acts[a].group
    <2>1. /\ acts[a].phase = "unsaved" /\ UNCHANGED <<path, timer, check>>
          /\ acts' = [acts EXCEPT ![a] = NoAct] /\ jobs' = [jobs EXCEPT ![g] = acts[a].prev]
          /\ said' = [said EXCEPT ![g].undone = TRUE]
      BY <1>9 DEF NotSwitched, tabVars, monitor
    <2>2. g \in Groups
      BY <2>1, ActFields DEF PageInv
    <2>3. said'[g].undone /\ \A h \in Groups \ {g} : said'[h] = said[h] /\ jobs'[h] = jobs[h]
      BY <2>1, <2>2 DEF PageInv, Shaped, Remembered, AllJobs
    <2>4. ASSUME NEW h \in Groups, Needed(h)' PROVE Needed(h)
      <3>1. h # g
        BY <2>3, <2>4 DEF Needed
      <3>2. \A c \in Acts \ {a} : acts'[c] = acts[c]
        BY <1>1, <2>1
      <3> QED BY <2>1, <2>3, <2>4, <3>1, <3>2 DEF Needed, ShownOn
    <2> QED BY <2>1, <2>4, WatchStays
  <1> QED BY <1>4, <1>5, <1>6, <1>7, <1>8, <1>9

(* The check.                                                              *)
LEMMA CheckWatches ==
    ASSUME AlwaysWatched, PageInv, ClaimInv,
           \/ CheckDue \/ NextJob \/ BeginCheck \/ GiveUp \/ Compare \/ Opened \/ AskStatus
           \/ StatusArrives \/ NextRow \/ Recover \/ NotClaimed \/ Recovered
    PROVE  AlwaysWatched'
  <1>1. CASE CheckDue
    BY <1>1, StillChecks, WatchChecks DEF CheckDue
  <1>2. CASE NextJob
    <2>1. check.phase = "next" /\ UNCHANGED path
      BY <1>2 DEF NextJob, tabVars, monitor
    <2>2. DOMAIN check = {"phase", "job", "live", "rows", "todo"}
      BY <2>1, CheckInProgress DEF ClaimInv
    <2>3. CASE timer' = Scheduled(jobs, path) /\ UNCHANGED jobs
      BY <2>1, <2>3, WatchSet
    <2>4. ASSUME NEW r, check' = [check EXCEPT !.phase = "save", !.job = r, !.todo = @ \ {r}]
          PROVE  AlwaysWatched'
      <3>1. check'.phase = "save"
        BY <2>2, <2>4
      <3> QED BY <3>1, StillChecks, WatchChecks
    <2> QED BY <1>2, <2>3, <2>4 DEF NextJob
  <1>3. CASE GiveUp
    <2>1. \A g \in Groups : Off(jobs'[g])
      <3> SUFFICES ASSUME NEW g \in Groups PROVE Off(jobs'[g])
        OBVIOUS
      <3>1. jobs' = [x \in Groups |-> IF jobs[x] = None THEN None ELSE [jobs[x] EXCEPT !.on = FALSE]]
        BY <1>3 DEF GiveUp
      <3>2. jobs[g] # None => DOMAIN jobs[g] = JobFields
        BY JobThere DEF PageInv, Shaped
      <3>3. CASE jobs[g] = None
        BY <3>1, <3>3 DEF Off
      <3>4. CASE jobs[g] # None
        BY <3>1, <3>2, <3>4 DEF Off, JobFields
      <3> QED BY <3>3, <3>4
    <2> QED BY <2>1 DEF AlwaysWatched, ShownOn, Off
  <1>4. CASE \/ BeginCheck \/ Compare \/ Opened \/ AskStatus \/ StatusArrives \/ NextRow \/ Recover
             \/ NotClaimed \/ Recovered
    <2>1. check.phase \in {"saved", "answered", "opening", "live", "status", "rows", "claimed",
                           "unclaimed", "recover"}
      BY <1>4 DEF BeginCheck, Compare, Opened, AskStatus, StatusArrives, NextRow, Recover, NotClaimed,
                  Recovered
    <2>2. DOMAIN check = {"phase", "job", "live", "rows", "todo"}
      BY <2>1, CheckInProgress DEF ClaimInv
    <2>3. \/ \E p \in {"fresh", "next", "save again", "opening", "live", "rows", "recover"} :
                check' = [check EXCEPT !.phase = p]
          \/ \E x : check' = [check EXCEPT !.phase = "status", !.live = x]
          \/ \E x : check' = [check EXCEPT !.phase = "rows", !.rows = x]
          \/ \E row : check' = [check EXCEPT !.rows = @ \ {row}] /\ check.phase = "rows"
          \/ \E row : check' = [check EXCEPT !.rows = @ \ {row}, !.live = {row}, !.phase = "claim"]
      BY <1>4 DEF BeginCheck, Compare, Opened, AskStatus, StatusArrives, NextRow, Recover, NotClaimed,
                  Recovered, Leave, Goes
    <2>4. check'.phase # "idle"
      BY <2>2, <2>3
    <2> QED BY <2>4, StillChecks, WatchChecks
  <1> QED BY <1>1, <1>2, <1>3, <1>4

(* What leaves the jobs, the switches and the check alone.                 *)
LEMMA WorldWatches ==
    ASSUME AlwaysWatched, UNCHANGED <<timer, path, jobs, said, check, acts>>
    PROVE  AlwaysWatched'
  BY WatchMoves

(* A job becomes due.                                                      *)
LEMMA ElapsesWatches ==
    ASSUME AlwaysWatched, PageInv, NEW g \in Groups, Elapses(g)
    PROVE  AlwaysWatched'
  <1>1. UNCHANGED <<timer, path, said, check, acts>> /\ jobs[g] # None
        /\ jobs' = [jobs EXCEPT ![g] = [jobs[g] EXCEPT !.due = TRUE]]
    BY DEF Elapses, monitor
  <1>2. DOMAIN jobs = Groups /\ DOMAIN jobs[g] = JobFields
    BY <1>1, JobThere DEF PageInv, Shaped, AllJobs
  <1>3. \A h \in Groups : \/ jobs'[h] = jobs[h]
                          \/ jobs[h] # None /\ jobs'[h].on = jobs[h].on /\ jobs'[h].file = jobs[h].file
    BY <1>1, <1>2 DEF JobFields
  <1>4. \A h \in Groups : Needed(h)' => Needed(h)
    BY <1>1, <1>3 DEF Needed, ShownOn
  <1> QED BY <1>1, <1>4, WatchStays

(* A read ends: a save that is awaited is awaited still.                   *)
LEMMA ReadWatches ==
    ASSUME AlwaysWatched, PageInv, ReadEnds
    PROVE  AlwaysWatched'
  <1>1. UNCHANGED <<timer, path, jobs, said>>
    BY DEF ReadEnds, EndRead, EndStale
  <1>2. check' = NoCheck => check = NoCheck
    BY DEF ReadEnds, Reply, NoCheck
  <1>3. \A a \in Acts : acts[a].phase \in Changing => acts'[a] = acts[a]
    BY DEF ReadEnds, Reply, Changing, PageInv, Shaped, AllActs
  <1> QED BY <1>1, <1>2, <1>3, WatchMoves

(* A save ends: its action, or the check, is not over yet.                 *)
LEMMA WrittenWatches ==
    ASSUME AlwaysWatched, PageInv, ClaimInv, Written
    PROVE  AlwaysWatched'
  <1> DEFINE w == writes[1].who
  <1>1. UNCHANGED <<timer, path, jobs, said>> /\ Head(writes) = writes[1] /\ 1 \in 1 .. Len(writes)
    BY Taken DEF Written, monitor, ClaimInv
  <1>2. CASE w = "check"
    <2>1. check.phase \in Saving
      BY <1>1, <1>2 DEF ClaimInv, OneAwaited
    <2>2. DOMAIN check = {"phase", "job", "live", "rows", "todo"}
      BY <2>1, CheckInProgress DEF ClaimInv, Saving
    <2>3. \E saved \in BOOLEAN : check' = [check EXCEPT !.phase = After(@, saved)]
      BY <1>1, <1>2 DEF Written
    <2>4. check'.phase # "idle"
      BY <2>2, <2>3 DEF After
    <2> QED BY <2>4, StillChecks, WatchChecks
  <1>3. CASE w # "check"
    <2>1. w \in Acts /\ acts[w].phase = "save" /\ DOMAIN acts = Acts
      BY <1>1, <1>3 DEF PageInv, PagesAwait, Shaped, AllActs
    <2>2. /\ check' = check
          /\ \E saved \in BOOLEAN : acts' = [acts EXCEPT ![w] = [acts[w] EXCEPT !.phase = After("save", saved)]]
      <3>1. PICK saved \in BOOLEAN : check' = check /\ acts' = [acts EXCEPT ![w].phase = After(@, saved)]
        BY <1>1, <1>3 DEF Written
      <3> QED BY <2>1, <3>1
    <2>3. {"phase", "group"} \subseteq DOMAIN acts[w]
      BY <2>1, ActFields DEF PageInv
    <2>4. \A a \in Acts : acts[a].phase \in Changing =>
            acts'[a].phase \in Changing /\ acts'[a].group = acts[a].group
      BY <2>1, <2>2, <2>3 DEF Changing, After
    <2> QED BY <1>1, <2>2, <2>4, WatchMoves
  <1> QED BY <1>2, <1>3

(* Terminal, the opening of a group and clicks leave the file alone.       *)
LEMMA SameFile ==
    ASSUME \/ Terminal \/ BeginRead \/ PlanLaunches \/ StopLaunching
           \/ \E s \in Sessions : BeginIfCurrent(s) \/ LaunchTab(s) \/ RefuseLaunch(s) \/ TurnFails(s)
           \/ \E g, es, o : ClickGroup(g, es, o)
    PROVE  UNCHANGED path
  <1>1. CASE Terminal
    BY <1>1 DEF Terminal, Appears, FailsToStart, UserOpens, CloseTab, TabEnds, CloseWindow, WindowEnds,
                monitor
  <1>2. CASE BeginRead \/ PlanLaunches \/ StopLaunching
    BY <1>2 DEF BeginRead, PlanLaunches, StopLaunching, monitor
  <1>3. ASSUME NEW s \in Sessions, BeginIfCurrent(s) \/ LaunchTab(s) \/ RefuseLaunch(s) \/ TurnFails(s)
        PROVE  UNCHANGED path
    BY <1>3 DEF BeginIfCurrent, BeginLaunch, LaunchTab, RefuseLaunch, TurnFails, monitor
  <1>4. ASSUME NEW g, NEW es, NEW o, ClickGroup(g, es, o) PROVE UNCHANGED path
    BY <1>4 DEF ClickGroup
  <1> QED BY <1>1, <1>2, <1>3, <1>4

(* The timer is set at the start.                                          *)
LEMMA InitWatched == Init => AlwaysWatched
  BY DEF Init, AlwaysWatched, ShownOn, Scheduled

(* Every step keeps the timer of a group that needs it.                    *)
LEMMA NextWatched == ClaimInv /\ PageInv /\ AlwaysWatched /\ [Next]_vars => AlwaysWatched'
  <1> SUFFICES ASSUME ClaimInv, PageInv, AlwaysWatched, [Next]_vars PROVE AlwaysWatched'
    OBVIOUS
  <1>1. CASE UNCHANGED vars
    BY <1>1, WorldWatches DEF vars, schedules, tabVars, monitor
  <1>2. ASSUME UNCHANGED <<schedules, stuck>>,
               \/ Terminal \/ BeginRead \/ PlanLaunches
               \/ \E s \in Sessions : LaunchTab(s) \/ RefuseLaunch(s)
               \/ \E g, es, o : ClickGroup(g, es, o)
        PROVE  AlwaysWatched'
    BY <1>2, SameFile, WorldWatches DEF schedules
  <1>3. CASE StopLaunching \/ \E s \in Sessions : BeginIfCurrent(s) \/ TurnFails(s)
    <2>1. UNCHANGED <<timer, jobs, said, check, acts>>
      BY <1>3 DEF BeginIfCurrent, TurnFails, StopLaunching, schedules
    <2> QED BY <1>3, <2>1, SameFile, WorldWatches
  <1>4. CASE Resume
    <2>1. CASE PlanLaunches /\ UNCHANGED <<schedules, stuck>>
      BY <1>2, <2>1
    <2>2. CASE \/ NextJob \/ BeginCheck \/ GiveUp \/ Compare \/ Opened \/ AskStatus \/ NextRow \/ Recover
               \/ NotClaimed
      BY <2>2, CheckWatches
    <2>3. ASSUME NEW a \in Acts, \/ EnableJob(a) \/ ChooseX(a) \/ Stop(a) \/ Stopped(a) \/ Forget(a)
                                 \/ Switched(a) \/ NotSwitched(a)
          PROVE  AlwaysWatched'
      BY <2>3, ActsWatch
    <2> QED BY <1>3, <1>4, <2>1, <2>2, <2>3 DEF Resume
  <1>5. CASE Clicked
    <2>1. ASSUME NEW a \in Acts, NEW g \in Known(groups),
                 SwitchOn(a, g) \/ SwitchOff(a, g) \/ PressX(a, g)
          PROVE  AlwaysWatched'
      <3>1. g \in Groups
        BY DEF Known
      <3> QED BY <2>1, <3>1, ActsWatch
    <2>2. ASSUME NEW a \in Acts, AnswerDialog(a) PROVE AlwaysWatched'
      BY <2>2, ActsWatch
    <2>3. CASE UNCHANGED <<schedules, stuck>> /\ \E g, es, o : ClickGroup(g, es, o)
      BY <1>2, <2>3
    <2> QED BY <1>5, <2>1, <2>2, <2>3 DEF Clicked
  <1>6. CASE Written
    BY <1>6, WrittenWatches
  <1>7. CASE ReadEnds
    BY <1>7, ReadWatches
  <1>8. CASE CheckDue \/ StatusArrives \/ Recovered
    BY <1>8, CheckWatches
  <1>9. CASE \E g \in Groups : Elapses(g)
    BY <1>9, ElapsesWatches
  <1>10. ASSUME NEW p \in Files, FollowFile(p) PROVE AlwaysWatched'
    <2>1. path' = p /\ UNCHANGED <<jobs, check>>
      BY <1>10 DEF FollowFile, Follow
    <2>2. CASE check = NoCheck
      BY <1>10, <2>1, <2>2, WatchSet DEF FollowFile
    <2> QED BY <2>1, <2>2, WatchChecks
  <1>11. CASE Restart
    BY <1>11, WatchSet DEF Restart
  <1> QED BY <1>1, <1>2, <1>3, <1>4, <1>5, <1>6, <1>7, <1>8, <1>9, <1>10, <1>11 DEF Next

(* A group that is on has its timer: setEnabled sets it when its save has  *)
(* ended, checkDue when it has gone through the groups, follow when the    *)
(* file changes and restore when the app starts again; nothing else clears *)
(* it or makes a group current.                                            *)
THEOREM GroupsAreWatched == Spec => []AlwaysWatched
  BY InitClaims, NextClaims, InitPage, NextPage, InitWatched, NextWatched, PTL DEF Spec

-----------------------------------------------------------------------------
(***************************************************************************)
(* openGroup and the check that awaits it (OpeningInv), from which         *)
(* StaysOff: a launch for a check is begun only while the job of that      *)
(* check is current, and that is a job of the group being opened.          *)
(***************************************************************************)
(* openGroup: what it opens, and for whom.                                 *)
OpenPhases == {"fresh", "answered", "launch", "launching", "refresh"}
OpenFields == {"phase", "group", "only", "todo", "tab", "target", "required"}

OpenShape ==
    \/ opening = Idle
    \/ DOMAIN opening = {"phase", "required"} /\ opening.phase = "threw"
    \/ DOMAIN opening = OpenFields /\ opening.phase \in OpenPhases /\ opening.group \in Groups

(* A required window is one of the check that awaits the opening.          *)
OpenedByCheck ==
    opening.phase \in OpenPhases /\ opening.required # None =>
      check.phase = "opening" /\ check.job.group = opening.group

(* A launch that has not been begun is not reserved.                       *)
Unreserved ==
    /\ DOMAIN reserved = Sessions
    /\ opening.phase \in {"launch", "launching"} =>
         \A s \in Sessions : s \in opening.todo /\ ~Launching(s) => reserved[s] = None

(* The check is of groups that are there.                                  *)
CheckJobs ==
    check.phase # "idle" =>
      /\ \A r \in check.todo : r.group \in Groups
      /\ check.phase # "next" => check.job.group \in Groups

OpeningInv == OpenShape /\ OpenedByCheck /\ Unreserved /\ CheckJobs

-----------------------------------------------------------------------------
(* Nothing is being opened in these phases.                                *)
LEMMA OpenIdle == Idle.phase = "idle" /\ "idle" \notin OpenPhases /\ "threw" \notin OpenPhases
  BY DEF Idle, OpenPhases

(* An opening in progress has these fields.                                *)
LEMMA OpenInProgress ==
    ASSUME OpenShape, opening.phase \in OpenPhases
    PROVE  DOMAIN opening = OpenFields /\ opening.group \in Groups
  BY OpenIdle DEF OpenShape

(* openGroup ends.                                                         *)
LEMMA OpenEnds ==
    ASSUME OpeningInv, opening' \in {Idle, Threw}, DOMAIN reserved' = Sessions, CheckJobs'
    PROVE  OpeningInv'
  <1>1. OpenShape' /\ opening'.phase \in {"idle", "threw"}
    BY DEF Threw, OpenShape, Idle
  <1>2. OpenedByCheck' /\ Unreserved'
    BY <1>1, OpenIdle DEF OpenedByCheck, Unreserved, OpenPhases
  <1> QED BY <1>1, <1>2 DEF OpeningInv

(* Nothing of an opening changes, and no check that awaits one.            *)
LEMMA OpenStays ==
    ASSUME OpeningInv, UNCHANGED <<opening, reserved>>, CheckJobs',
           check.phase = "opening" => check' = check
    PROVE  OpeningInv'
  BY DEF OpeningInv, OpenShape, OpenedByCheck, Unreserved, Launching

(* Neither the opening nor the check changes.                              *)
LEMMA OpenQuiet ==
    ASSUME OpeningInv, UNCHANGED <<opening, reserved, check>>
    PROVE  OpeningInv'
  BY OpenStays DEF OpeningInv, CheckJobs

(* The check goes on with its job.                                         *)
LEMMA JobStays ==
    ASSUME CheckJobs, check.phase \notin {"idle", "next"}, check'.job = check.job,
           check'.todo \subseteq check.todo
    PROVE  CheckJobs'
  BY DEF CheckJobs

(* The check, in every step but the two that deal with openGroup.          *)
LEMMA CheckOpens ==
    ASSUME OpeningInv, ClaimInv,
           \/ CheckDue \/ NextJob \/ BeginCheck \/ GiveUp \/ AskStatus
           \/ StatusArrives \/ NextRow \/ Recover \/ NotClaimed \/ Recovered
    PROVE  OpeningInv'
  <1>1. UNCHANGED <<opening, reserved>>
    BY DEF CheckDue, NextJob, BeginCheck, GiveUp, AskStatus, StatusArrives, NextRow, Recover, NotClaimed,
           Recovered, tabVars, monitor
  <1>2. check.phase # "opening"
    <2>1. CASE CheckDue
      BY <2>1 DEF CheckDue, NoCheck
    <2>2. CASE NextJob \/ BeginCheck \/ GiveUp \/ AskStatus \/ StatusArrives
      BY <2>2 DEF NextJob, BeginCheck, GiveUp, AskStatus, StatusArrives
    <2>3. CASE NextRow \/ Recover \/ NotClaimed \/ Recovered
      BY <2>3 DEF NextRow, Recover, NotClaimed, Recovered
    <2> QED BY <2>1, <2>2, <2>3
  <1>3. CASE CheckDue
    <2>1. /\ check'.phase = "next"
          /\ check'.todo = {[group |-> g, n |-> jobs[g].n] : g \in {x \in Groups : jobs[x] # None}}
      BY <1>3 DEF CheckDue
    <2>2. CheckJobs'
      BY <2>1 DEF CheckJobs
    <2> QED BY <1>1, <1>2, <2>2, OpenStays
  <1>4. CASE GiveUp
    <2>1. CheckJobs'
      BY <1>4 DEF GiveUp, NoCheck, CheckJobs
    <2> QED BY <1>1, <1>2, <2>1, OpenStays
  <1>5. CASE NextJob
    <2>1. check.phase = "next"
      BY <1>5 DEF NextJob
    <2>2. DOMAIN check = {"phase", "job", "live", "rows", "todo"}
      BY <2>1, CheckInProgress DEF ClaimInv
    <2>3. CASE check' = NoCheck
      <3>1. CheckJobs'
        BY <2>3 DEF NoCheck, CheckJobs
      <3> QED BY <1>1, <1>2, <3>1, OpenStays
    <2>4. ASSUME NEW r \in check.todo, check' = [check EXCEPT !.phase = "save", !.job = r, !.todo = @ \ {r}]
          PROVE  OpeningInv'
      <3>1. check'.phase = "save" /\ check'.job = r /\ check'.todo = check.todo \ {r}
        BY <2>2, <2>4
      <3>2. CheckJobs'
        BY <2>1, <3>1 DEF CheckJobs, OpeningInv
      <3> QED BY <1>1, <1>2, <3>2, OpenStays
    <2> QED BY <1>5, <2>3, <2>4 DEF NextJob
  <1>6. CASE \/ BeginCheck \/ AskStatus \/ StatusArrives \/ NextRow \/ Recover \/ NotClaimed \/ Recovered
    <2>1. check.phase \in {"saved", "live", "status", "rows", "claimed", "unclaimed", "recover"}
      BY <1>6 DEF BeginCheck, AskStatus, StatusArrives, NextRow, Recover, NotClaimed, Recovered
    <2>2. DOMAIN check = {"phase", "job", "live", "rows", "todo"}
      BY <2>1, CheckInProgress DEF ClaimInv
    <2>3. \/ \E p : check' = [check EXCEPT !.phase = p]
          \/ \E p, x : check' = [check EXCEPT !.phase = p, !.live = x]
          \/ \E p, x : check' = [check EXCEPT !.phase = p, !.rows = x]
          \/ \E row : check' = [check EXCEPT !.rows = @ \ {row}]
          \/ \E row : check' = [check EXCEPT !.rows = @ \ {row}, !.live = {row}, !.phase = "claim"]
      BY <1>6 DEF BeginCheck, AskStatus, StatusArrives, NextRow, Recover, NotClaimed,
                  Recovered, Leave, Goes
    <2>4. check'.job = check.job /\ check'.todo = check.todo
      BY <2>2, <2>3
    <2>5. CheckJobs'
      BY <2>1, <2>4, JobStays DEF OpeningInv
    <2> QED BY <1>1, <1>2, <2>5, OpenStays
  <1> QED BY <1>3, <1>4, <1>5, <1>6

(* The check opens what is missing, and goes on when that has ended.       *)
LEMMA CompareOpens ==
    ASSUME OpeningInv, ClaimInv, Compare \/ Opened
    PROVE  OpeningInv'
  <1>1. check.phase \in {"answered", "opening"} /\ UNCHANGED reserved
    BY DEF Compare, Opened, monitor
  <1>2. DOMAIN check = {"phase", "job", "live", "rows", "todo"}
    BY <1>1, CheckInProgress DEF ClaimInv
  <1>3. \E p \in {"save again", "opening", "live"} : Goes(p)
    BY DEF Compare, Opened, Leave
  <1>4. check'.job = check.job /\ check'.todo = check.todo
    BY <1>2, <1>3 DEF Goes
  <1>5. CheckJobs'
    BY <1>1, <1>4, JobStays DEF OpeningInv
  <1>6. CASE Opened
    BY <1>1, <1>5, <1>6, OpenEnds DEF Opened, OpeningInv, Unreserved
  <1>7. CASE Compare
    <2>1. check.phase = "answered"
      BY <1>7 DEF Compare
    <2>2. CASE UNCHANGED opening
      BY <1>1, <1>5, <2>1, <2>2, OpenStays
    <2>3. ASSUME NEW es, NEW w, OpenGroup(check.job.group, es, FALSE, w), Goes("opening")
          PROVE  OpeningInv'
      <3>1. /\ DOMAIN opening' = OpenFields /\ opening'.phase = "fresh" /\ opening'.group = check.job.group
        BY <2>3 DEF OpenGroup, OpenFields
      <3>2. check.job.group \in Groups
        BY <2>1 DEF OpeningInv, CheckJobs
      <3>3. check'.phase = "opening"
        BY <1>2, <2>3 DEF Goes
      <3>4. OpenShape' /\ OpenedByCheck' /\ Unreserved'
        BY <1>1, <1>4, <3>1, <3>2, <3>3 DEF OpenShape, OpenedByCheck, Unreserved, OpenPhases, OpeningInv
      <3> QED BY <1>5, <3>4 DEF OpeningInv
    <2> QED BY <1>7, <2>2, <2>3 DEF Compare
  <1> QED BY <1>6, <1>7

(* What a read does with the launches that are reserved: it drops some.    *)
LEMMA SyncReserved ==
    ASSUME NEW sn, NEW late, NEW slow, NEW settled, SyncGroups(sn, late, slow, settled)
    PROVE  \E m : reserved' = [s \in Sessions |-> IF s \in sn.sessions /\ m[s] THEN None
                                                  ELSE IF s \in late THEN None ELSE reserved[s]]
  <1> DEFINE res == [s \in Sessions |-> IF s \in late THEN None ELSE reserved[s]]
             gs == groups'
             matched(s) == \/ res[s] = "free"
                           \/ /\ res[s] \in Known(gs)
                              /\ Active(res[s], gs, sn.windows) /\ s \in gs[res[s]].members
  <1>1. reserved' = [s \in Sessions |-> IF s \in sn.sessions /\ matched(s) THEN None ELSE res[s]]
    BY DEF SyncGroups
  <1> WITNESS [s \in Sessions |-> matched(s)]
  <1> HIDE DEF matched
  <1> QED BY <1>1

(* None that was not reserved is afterwards.                               *)
LEMMA SyncReserves ==
    ASSUME NEW sn, NEW late, NEW slow, NEW settled, SyncGroups(sn, late, slow, settled)
    PROVE  /\ DOMAIN reserved' = Sessions
           /\ \A s \in Sessions : reserved'[s] = None \/ reserved'[s] = reserved[s]
  BY SyncReserved

(* A read ends: openGroup goes on with it.                                 *)
LEMMA ReadOpens ==
    ASSUME OpeningInv, ReadEnds
    PROVE  OpeningInv'
  <1>1. /\ DOMAIN reserved' = Sessions
        /\ \A s \in Sessions : reserved'[s] = None \/ reserved'[s] = reserved[s]
    <2>1. CASE UNCHANGED reserved
      BY <2>1 DEF OpeningInv, Unreserved
    <2>2. ASSUME NEW sn, NEW late, NEW slow, NEW settled, SyncGroups(sn, late, slow, settled)
          PROVE  /\ DOMAIN reserved' = Sessions
                 /\ \A s \in Sessions : reserved'[s] = None \/ reserved'[s] = reserved[s]
      BY <2>2, SyncReserves
    <2>3. CASE EndStale
      BY <2>1, <2>3 DEF EndStale
    <2>4. CASE EndRead
      <3>1. \/ UNCHANGED reserved
            \/ \E late, slow, settled : SyncGroups(snap', late, slow, settled)
        BY <2>4 DEF EndRead
      <3> QED BY <2>1, <2>2, <3>1
    <2> QED BY <2>3, <2>4 DEF ReadEnds
  <1>2. opening' \in {opening, Answered(opening)}
    BY DEF ReadEnds, EndRead, EndStale
  <1>3. check' = check \/ (check.phase = "fresh" /\ check' = [check EXCEPT !.phase = "answered"])
    BY DEF ReadEnds, Reply
  <1>4. CheckJobs'
    <2>1. CASE check' = check
      BY <2>1 DEF OpeningInv, CheckJobs
    <2>2. CASE check.phase = "fresh" /\ check' = [check EXCEPT !.phase = "answered"]
      <3>1. check'.job = check.job /\ check'.todo = check.todo
        BY <2>2
      <3> QED BY <2>2, <3>1, JobStays DEF OpeningInv
    <2> QED BY <1>3, <2>1, <2>2
  <1>5. CASE opening' = Idle
    BY <1>1, <1>4, <1>5, OpenEnds
  <1>6. CASE opening' = opening
    BY <1>1, <1>3, <1>4, <1>6 DEF OpeningInv, OpenShape, OpenedByCheck, Unreserved, Launching
  <1>7. CASE opening.phase = "fresh" /\ opening' = [opening EXCEPT !.phase = "answered"]
    <2>1. DOMAIN opening = OpenFields /\ opening.group \in Groups
      BY <1>7, OpenInProgress DEF OpeningInv, OpenPhases
    <2>2. /\ DOMAIN opening' = OpenFields /\ opening'.phase = "answered"
          /\ opening'.group = opening.group /\ opening'.required = opening.required
      BY <1>7, <2>1 DEF OpenFields
    <2>3. OpenShape' /\ OpenedByCheck' /\ Unreserved'
      BY <1>1, <1>3, <1>7, <2>1, <2>2 DEF OpeningInv, OpenShape, OpenedByCheck, Unreserved, OpenPhases
    <2> QED BY <1>4, <2>3 DEF OpeningInv
  <1> QED BY <1>2, <1>5, <1>6, <1>7 DEF Answered

(* openGroup decides what to launch, and launches.                         *)
LEMMA PlanOpens ==
    ASSUME OpeningInv, PlanLaunches, UNCHANGED check
    PROVE  OpeningInv'
  <1>1. CheckJobs'
    BY DEF OpeningInv, CheckJobs
  <1>2. opening.phase = "answered"
    BY DEF PlanLaunches
  <1>3. DOMAIN opening = OpenFields /\ opening.group \in Groups
    BY <1>2, OpenInProgress DEF OpeningInv, OpenPhases
  <1>4. CASE opening' = Threw /\ UNCHANGED reserved
    BY <1>1, <1>4, OpenEnds DEF OpeningInv, Unreserved
  <1>5. ASSUME NEW late, NEW todo, NEW target,
               reserved' = [s \in Sessions |-> IF s \in late THEN None ELSE reserved[s]],
               todo = Missing(opening.todo, reserved'),
               \/ opening' = Idle
               \/ opening' = [opening EXCEPT !.phase = "launch", !.todo = todo, !.target = target]
        PROVE  OpeningInv'
    <2>1. CASE opening' = Idle
      BY <1>1, <1>5, <2>1, OpenEnds
    <2>2. CASE opening' = [opening EXCEPT !.phase = "launch", !.todo = todo, !.target = target]
      <3>1. /\ DOMAIN opening' = OpenFields /\ opening'.phase = "launch" /\ opening'.todo = todo
            /\ opening'.group = opening.group /\ opening'.required = opening.required
        BY <1>3, <2>2 DEF OpenFields
      <3>2. \A s \in todo : reserved'[s] = None
        BY <1>5 DEF Missing
      <3>3. OpenShape' /\ OpenedByCheck' /\ Unreserved'
        BY <1>2, <1>3, <1>5, <3>1, <3>2
           DEF OpeningInv, OpenShape, OpenedByCheck, Unreserved, OpenPhases
      <3> QED BY <1>1, <3>3 DEF OpeningInv
    <2> QED BY <1>5, <2>1, <2>2
  <1>6. ASSUME ~(opening' = Threw /\ UNCHANGED <<groups, reserved, held>>) PROVE OpeningInv'
    <2>1. PICK late \in SUBSET {s \in Sessions : reserved[s] # None} :
            LET res == [s \in Sessions |-> IF s \in late THEN None ELSE reserved[s]]
                missing == Missing(opening.todo, res)
                g == opening.group
                own == opening.required = None /\ ~opening.only
                         /\ opening.todo \cap snap.sessions = {}
            IN /\ reserved' = res
               /\ opening' = IF missing = {} THEN Idle
                             ELSE [opening EXCEPT !.phase = "launch", !.todo = missing,
                                     !.target = IF own THEN g ELSE "latest"]
      BY <1>6 DEF PlanLaunches
    <2> QED BY <1>5, <2>1
  <1> QED BY <1>4, <1>6

(* The launch of one tab is begun.                                         *)
LEMMA BeginOpens ==
    ASSUME OpeningInv, NEW s \in Sessions, BeginLaunch(s), UNCHANGED check
    PROVE  OpeningInv'
  <1>1. CheckJobs'
    BY DEF OpeningInv, CheckJobs
  <1>2. opening.phase = "launch"
    BY DEF BeginLaunch
  <1>3. DOMAIN opening = OpenFields /\ opening.group \in Groups
    BY <1>2, OpenInProgress DEF OpeningInv, OpenPhases
  <1>4. /\ DOMAIN reserved' = Sessions
        /\ \A t \in Sessions \ {s} : reserved'[t] = reserved[t]
    BY DEF BeginLaunch, OpeningInv, Unreserved
  <1>5. opening' = [opening EXCEPT !.phase = "launching", !.tab = s]
    BY DEF BeginLaunch
  <1>6. /\ DOMAIN opening' = OpenFields /\ opening'.phase = "launching" /\ opening'.tab = s
        /\ opening'.todo = opening.todo /\ opening'.group = opening.group
        /\ opening'.required = opening.required
    BY <1>3, <1>5 DEF OpenFields
  <1>7. OpenShape' /\ OpenedByCheck'
    BY <1>2, <1>3, <1>6 DEF OpeningInv, OpenShape, OpenedByCheck, OpenPhases
  <1>8. Unreserved'
    BY <1>2, <1>4, <1>6 DEF OpeningInv, Unreserved, Launching
  <1> QED BY <1>1, <1>7, <1>8 DEF OpeningInv

(* One tab is launched.                                                    *)
LEMMA LaunchOpens ==
    ASSUME OpeningInv, NEW s \in Sessions, LaunchTab(s), UNCHANGED check
    PROVE  OpeningInv'
  <1>1. CheckJobs'
    BY DEF OpeningInv, CheckJobs
  <1>2. opening.phase = "launching" /\ opening.tab = s
    BY DEF LaunchTab, Launching
  <1>3. DOMAIN opening = OpenFields /\ opening.group \in Groups
    BY <1>2, OpenInProgress DEF OpeningInv, OpenPhases
  <1>4. DOMAIN reserved' = Sessions /\ UNCHANGED reserved
    BY DEF LaunchTab, OpeningInv, Unreserved
  <1>5. CASE opening' = Idle
    BY <1>1, <1>4, <1>5, OpenEnds
  <1>6. ASSUME NEW p \in {"refresh", "launch"},
               opening' = [opening EXCEPT !.todo = opening.todo \ {s}, !.phase = p]
        PROVE  OpeningInv'
    <2>1. /\ DOMAIN opening' = OpenFields /\ opening'.phase = p /\ opening'.todo = opening.todo \ {s}
          /\ opening'.group = opening.group /\ opening'.required = opening.required
      BY <1>3, <1>6 DEF OpenFields
    <2>2. OpenShape' /\ OpenedByCheck'
      BY <1>2, <1>3, <2>1 DEF OpeningInv, OpenShape, OpenedByCheck, OpenPhases
    <2>3. Unreserved'
      BY <1>2, <1>4, <2>1 DEF OpeningInv, Unreserved, Launching
    <2> QED BY <1>1, <2>2, <2>3 DEF OpeningInv
  <1> QED BY <1>5, <1>6 DEF LaunchTab

(* A click opens for nobody.                                               *)
LEMMA ClickOpens ==
    ASSUME OpeningInv, NEW g \in Groups, NEW es, NEW only, ClickGroup(g, es, only), UNCHANGED check
    PROVE  OpeningInv'
  <1>1. CheckJobs' /\ UNCHANGED reserved
    BY DEF OpeningInv, CheckJobs, ClickGroup
  <1>2. /\ DOMAIN opening' = OpenFields /\ opening'.phase = "fresh" /\ opening'.group = g
        /\ opening'.required = None
    BY DEF ClickGroup, OpenGroup, OpenFields
  <1>3. OpenShape' /\ OpenedByCheck' /\ Unreserved'
    BY <1>1, <1>2 DEF OpeningInv, OpenShape, OpenedByCheck, Unreserved, OpenPhases
  <1> QED BY <1>1, <1>3 DEF OpeningInv

(* A save ends: the check that awaits openGroup awaits no save.            *)
LEMMA WrittenOpens ==
    ASSUME OpeningInv, ClaimInv, Written
    PROVE  OpeningInv'
  <1>1. UNCHANGED <<opening, reserved>> /\ Head(writes) = writes[1] /\ 1 \in 1 .. Len(writes)
    BY Taken DEF Written, monitor, ClaimInv
  <1>2. CASE writes[1].who = "check"
    <2>1. check.phase \in Saving
      BY <1>1, <1>2 DEF ClaimInv, OneAwaited
    <2>2. DOMAIN check = {"phase", "job", "live", "rows", "todo"}
      BY <2>1, CheckInProgress DEF ClaimInv, Saving
    <2>3. \E saved \in BOOLEAN : check' = [check EXCEPT !.phase = After(@, saved)]
      BY <1>1, <1>2 DEF Written
    <2>4. check'.job = check.job /\ check'.todo = check.todo
      BY <2>2, <2>3
    <2>5. CheckJobs'
      BY <2>1, <2>4, JobStays DEF OpeningInv, Saving
    <2> QED BY <1>1, <2>1, <2>5, OpenStays DEF Saving
  <1>3. CASE writes[1].who # "check"
    BY <1>1, <1>3, OpenQuiet DEF Written
  <1> QED BY <1>2, <1>3

(* The next run of the app opens nothing.                                  *)
LEMMA RestartOpens ==
    ASSUME OpeningInv, Restart
    PROVE  OpeningInv'
  <1>1. opening' = Idle /\ DOMAIN reserved' = Sessions /\ check' = NoCheck
    BY DEF Restart
  <1>2. CheckJobs'
    BY <1>1 DEF CheckJobs, NoCheck
  <1> QED BY <1>1, <1>2, OpenEnds

(* What opens nothing.                                                     *)
LEMMA OthersOpen ==
    ASSUME OpeningInv,
           \/ (Terminal \/ BeginRead) /\ UNCHANGED schedules
           \/ \E s \in Sessions : TurnFails(s)
           \/ \E g \in Groups : Elapses(g)
           \/ \E p \in Files : FollowFile(p)
           \/ \E a \in Acts :
                \/ \E g \in Groups : SwitchOn(a, g) \/ SwitchOff(a, g) \/ PressX(a, g)
                \/ EnableJob(a) \/ ChooseX(a) \/ AnswerDialog(a) \/ Stop(a) \/ Stopped(a)
                \/ Forget(a) \/ Switched(a) \/ NotSwitched(a)
    PROVE  OpeningInv'
  <1>1. CASE (Terminal \/ BeginRead) /\ UNCHANGED schedules
    <2>1. UNCHANGED <<opening, reserved>>
      BY <1>1 DEF Terminal, Appears, FailsToStart, UserOpens, CloseTab, TabEnds, CloseWindow, WindowEnds,
                  BeginRead, monitor
    <2> QED BY <1>1, <2>1, OpenQuiet DEF schedules
  <1>2. CASE \/ \E s \in Sessions : TurnFails(s)
             \/ \E g \in Groups : Elapses(g)
             \/ \E p \in Files : FollowFile(p)
    BY <1>2, OpenQuiet DEF TurnFails, Elapses, FollowFile, Follow, monitor, schedules
  <1>3. ASSUME NEW a \in Acts,
               \/ \E g \in Groups : SwitchOn(a, g) \/ SwitchOff(a, g) \/ PressX(a, g)
               \/ EnableJob(a) \/ ChooseX(a) \/ AnswerDialog(a) \/ Stop(a) \/ Stopped(a)
               \/ Forget(a) \/ Switched(a) \/ NotSwitched(a)
        PROVE  OpeningInv'
    <2>1. CASE \E g \in Groups : SwitchOn(a, g) \/ SwitchOff(a, g) \/ PressX(a, g)
      BY <2>1, OpenQuiet DEF SwitchOn, SwitchOff, PressX, monitor
    <2>2. CASE EnableJob(a) \/ ChooseX(a) \/ AnswerDialog(a) \/ Stop(a)
      BY <2>2, OpenQuiet DEF EnableJob, ChooseX, AnswerDialog, Stop, tabVars, monitor
    <2>3. CASE Stopped(a) \/ Forget(a) \/ Switched(a) \/ NotSwitched(a)
      BY <2>3, OpenQuiet DEF Stopped, Forget, Switched, NotSwitched, tabVars, monitor
    <2> QED BY <1>3, <2>1, <2>2, <2>3
  <1> QED BY <1>1, <1>2, <1>3

(* It holds at the start.                                                  *)
LEMMA InitOpening == Init => OpeningInv
  BY DEF Init, TabsInit, OpeningInv, OpenShape, OpenedByCheck, Unreserved, CheckJobs, Idle, NoCheck,
         OpenPhases

(* Every step keeps it.                                                    *)
LEMMA NextOpening == ClaimInv /\ OpeningInv /\ [Next]_vars => OpeningInv'
  <1> SUFFICES ASSUME ClaimInv, OpeningInv, [Next]_vars PROVE OpeningInv'
    OBVIOUS
  <1>1. CASE UNCHANGED vars
    BY <1>1, OpenQuiet DEF vars, schedules, tabVars, monitor
  <1>2. CASE /\ Terminal \/ BeginRead \/ \E s \in Sessions : LaunchTab(s) \/ RefuseLaunch(s)
             /\ UNCHANGED <<schedules, stuck>>
    <2>1. ASSUME NEW s \in Sessions, RefuseLaunch(s), UNCHANGED schedules PROVE OpeningInv'
      <3>1. opening' = Threw /\ DOMAIN reserved' = Sessions /\ UNCHANGED check
        BY <2>1 DEF RefuseLaunch, schedules, OpeningInv, Unreserved
      <3>2. CheckJobs'
        BY <3>1 DEF OpeningInv, CheckJobs
      <3> QED BY <3>1, <3>2, OpenEnds
    <2>2. ASSUME NEW s \in Sessions, LaunchTab(s), UNCHANGED schedules PROVE OpeningInv'
      BY <2>2, LaunchOpens DEF schedules
    <2> QED BY <1>2, <2>1, <2>2, OthersOpen DEF schedules
  <1>3. CASE StopLaunching
    <2>1. opening' = Idle /\ UNCHANGED <<reserved, check>>
      BY <1>3 DEF StopLaunching, monitor, schedules
    <2> QED BY <2>1, OpenEnds DEF OpeningInv, Unreserved, CheckJobs
  <1>4. ASSUME NEW s \in Sessions, BeginIfCurrent(s) \/ TurnFails(s) PROVE OpeningInv'
    BY <1>4, BeginOpens, OthersOpen DEF BeginIfCurrent, schedules
  <1>5. CASE Resume
    <2>1. CASE PlanLaunches /\ UNCHANGED <<schedules, stuck>>
      BY <2>1, PlanOpens DEF schedules
    <2>2. CASE NextJob \/ BeginCheck \/ GiveUp \/ AskStatus \/ NextRow \/ Recover \/ NotClaimed
      BY <2>2, CheckOpens
    <2>3. CASE Compare \/ Opened
      BY <2>3, CompareOpens
    <2>4. ASSUME NEW a \in Acts, \/ EnableJob(a) \/ ChooseX(a) \/ Stop(a) \/ Stopped(a) \/ Forget(a)
                                 \/ Switched(a) \/ NotSwitched(a)
          PROVE  OpeningInv'
      BY <2>4, OthersOpen
    <2> QED BY <1>3, <1>4, <1>5, <2>1, <2>2, <2>3, <2>4 DEF Resume
  <1>6. CASE Clicked
    <2>1. ASSUME NEW a \in Acts, NEW g \in Known(groups),
                 SwitchOn(a, g) \/ SwitchOff(a, g) \/ PressX(a, g)
          PROVE  OpeningInv'
      <3>1. g \in Groups
        BY DEF Known
      <3> QED BY <2>1, <3>1, OthersOpen
    <2>2. ASSUME NEW a \in Acts, AnswerDialog(a) PROVE OpeningInv'
      BY <2>2, OthersOpen
    <2>3. ASSUME NEW g \in Known(groups), NEW es, NEW only, ClickGroup(g, es, only),
                 UNCHANGED <<schedules, stuck>>
          PROVE  OpeningInv'
      <3>1. g \in Groups
        BY DEF Known
      <3> QED BY <2>3, <3>1, ClickOpens DEF schedules
    <2> QED BY <1>6, <2>1, <2>2, <2>3 DEF Clicked
  <1>7. CASE Written
    BY <1>7, WrittenOpens
  <1>8. CASE ReadEnds
    BY <1>8, ReadOpens
  <1>9. CASE CheckDue \/ StatusArrives \/ Recovered
    BY <1>9, CheckOpens
  <1>10. CASE (\E g \in Groups : Elapses(g)) \/ \E p \in Files : FollowFile(p)
    BY <1>10, OthersOpen
  <1>11. CASE Restart
    BY <1>11, RestartOpens
  <1> QED BY <1>1, <1>2, <1>3, <1>4, <1>5, <1>6, <1>7, <1>8, <1>9, <1>10, <1>11 DEF Next

(* openGroup goes on with what it launches only in steps of its own.       *)
LEMMA OpeningActs ==
    ASSUME [Next]_vars, opening.phase \in {"answered", "launch"},
           opening'.phase \in {"launch", "launching"}, opening'.phase # opening.phase
    PROVE  PlanLaunches \/ \E s \in Sessions : BeginIfCurrent(s)
  <1>1. ASSUME UNCHANGED opening PROVE FALSE
    BY <1>1
  <1>2. Ready
    BY DEF Ready
  <1>3. Resume
    BY <1>1, <1>2 DEF Next, vars, tabVars
  <1>4. ~(NextJob \/ BeginCheck \/ GiveUp \/ AskStatus \/ NextRow \/ Recover \/ NotClaimed)
    BY <1>1 DEF NextJob, BeginCheck, GiveUp, AskStatus, NextRow, Recover, NotClaimed, tabVars
  <1>5. ~Opened /\ ~StopLaunching
    BY DEF Opened, StopLaunching, Idle
  <1>6. ~Compare
    BY <1>1 DEF Compare, OpenGroup
  <1>7. ASSUME NEW a \in Acts, EnableJob(a) \/ ChooseX(a) \/ Stop(a) \/ Stopped(a) PROVE FALSE
    BY <1>1, <1>7 DEF EnableJob, ChooseX, Stop, Stopped, tabVars
  <1>8. ASSUME NEW a \in Acts, Forget(a) \/ Switched(a) \/ NotSwitched(a) PROVE FALSE
    BY <1>1, <1>8 DEF Forget, Switched, NotSwitched, tabVars
  <1> QED BY <1>3, <1>4, <1>5, <1>6, <1>7, <1>8 DEF Resume

(* Only Recover sends a recovery.                                          *)
LEMMA OnlyRecoverSends ==
    ASSUME [Next]_vars, sent' # sent
    PROVE  Recover
  <1>1. ~UNCHANGED vars /\ ~UNCHANGED schedules
    BY DEF vars, schedules
  <1>2. ASSUME NEW s \in Sessions PROVE ~BeginIfCurrent(s) /\ ~TurnFails(s)
    BY DEF BeginIfCurrent, TurnFails, schedules
  <1>3. /\ ~StopLaunching /\ \A g \in Groups : ~Elapses(g)
        /\ \A p \in Files : ~FollowFile(p)
    BY DEF StopLaunching, Elapses, FollowFile, schedules
  <1>4. ~(NextJob \/ BeginCheck \/ GiveUp \/ Compare \/ Opened \/ AskStatus \/ NextRow \/ NotClaimed)
    BY DEF NextJob, BeginCheck, GiveUp, Compare, Opened, AskStatus, NextRow, NotClaimed
  <1>5. ASSUME NEW a \in Acts PROVE ~(EnableJob(a) \/ ChooseX(a) \/ Stop(a) \/ Stopped(a))
    BY DEF EnableJob, ChooseX, Stop, Stopped
  <1>6. ASSUME NEW a \in Acts PROVE ~(Forget(a) \/ Switched(a) \/ NotSwitched(a) \/ AnswerDialog(a))
    BY DEF Forget, Switched, NotSwitched, AnswerDialog
  <1>7. ASSUME NEW a \in Acts, NEW g PROVE ~(SwitchOn(a, g) \/ SwitchOff(a, g) \/ PressX(a, g))
    BY DEF SwitchOn, SwitchOff, PressX
  <1>8. ~(Written \/ CheckDue \/ StatusArrives \/ Recovered \/ ReadEnds \/ Restart)
    BY DEF Written, CheckDue, StatusArrives, Recovered, ReadEnds, Restart
  <1>9. ~Clicked
    BY <1>1, <1>6, <1>7 DEF Clicked, schedules
  <1>10. CASE Resume
    BY <1>1, <1>2, <1>3, <1>4, <1>5, <1>6, <1>10 DEF Resume, schedules
  <1> QED BY <1>1, <1>2, <1>3, <1>8, <1>9, <1>10 DEF Next, schedules

(* A group that is off: no launch of a tab of it is begun by a check.      *)
LEMMA OffLaunchesNone ==
    ASSUME OpeningInv, PageInv, [Next]_vars, NEW g \in Groups, said[g].off, ~said[g].undone,
           NEW s \in Sessions, Begins(s), opening.required # None
    PROVE  opening.group # g
  <1>1. opening.phase = "launch" /\ opening'.phase = "launching"
    BY DEF Begins, Launching
  <1>2. ~PlanLaunches
    BY <1>1 DEF PlanLaunches
  <1>3. PICK t \in Sessions : BeginIfCurrent(t)
    BY <1>1, <1>2, OpeningActs
  <1>4. Current(check.job) /\ check.job.group = opening.group
    BY <1>1, <1>3 DEF BeginIfCurrent, OpeningInv, OpenedByCheck, OpenPhases
  <1>5. jobs[opening.group] # None /\ jobs[opening.group].on
    BY <1>4 DEF Current
  <1>6. Off(jobs[g])
    BY DEF PageInv, OffEverywhere
  <1> QED BY <1>5, <1>6 DEF Off

(* Nor is a turn of it continued.                                          *)
LEMMA OffSendsNothing ==
    ASSUME PageInv, [Next]_vars, NEW g \in Groups, said[g].off, ~said[g].undone, sent' # sent
    PROVE  check.job.group # g
  <1>1. Current(check.job)
    BY OnlyRecoverSends DEF Recover
  <1>2. Off(jobs[g])
    BY DEF PageInv, OffEverywhere
  <1> QED BY <1>1, <1>2 DEF Current, Off

(* A group turned off stays off: once its save has been made, every copy   *)
(* of its job, in memory, on disk and in the saves still to be made, is    *)
(* off. The launcher that _check gives to openGroup begins by asking for   *)
(* the current job, as does the step before the recovery, and that is on.  *)
THEOREM GroupsStayOff == Spec => StaysOff
  <1> DEFINE Step == \A g \in Groups : said[g].off /\ ~said[g].undone =>
                       /\ \A s \in Sessions :
                            Begins(s) /\ opening.required # None => opening.group # g
                       /\ sent' # sent => check.job.group # g
  <1>1. OpeningInv /\ PageInv /\ [Next]_vars => [Step]_vars
    BY OffLaunchesNone, OffSendsNothing
  <1> QED BY <1>1, InitClaims, NextClaims, InitPage, NextPage, InitOpening, NextOpening, PTL
          DEF Spec, StaysOff

-----------------------------------------------------------------------------
(***************************************************************************)
(* What is known of the sessions that run (HeldInv), from which            *)
(* LaunchedOnce: a session that has been seen or launched is reserved, or  *)
(* is shown by the snapshot and by the read in progress.                   *)
(***************************************************************************)
SnapFields == {"sessions", "at", "windows", "processes", "inventory", "whole"}

TabShape ==
    /\ DOMAIN tab = Sessions /\ held \subseteq Sessions
    /\ DOMAIN snap = SnapFields /\ DOMAIN read = {"on", "stale", "seen"}

(* No launch of the session is reserved, or none but the one that openGroup *)
(* awaits and may take back.                                               *)
Unasked(s) == reserved[s] = None \/ Launching(s)

(* A session that has been seen or launched, and of which no launch is     *)
(* reserved any more, runs, and what has been or is being read shows it.   *)
HeldRuns ==
    \A s \in held : Unasked(s) =>
      /\ tab[s] # None
      /\ snap.processes \/ snap.whole => s \in snap.sessions
      /\ read.on /\ ~read.stale => s \in read.seen

(* One that does not run yet has not been listed by the read in progress.  *)
HeldUnseen == \A s \in held : tab[s] = None => s \notin read.seen

(* While openGroup goes on with a read, none but a new one is in progress. *)
AnsweredFresh == opening.phase = "answered" /\ read.on => read.seen = Running

HeldInv == TabShape /\ HeldRuns /\ HeldUnseen /\ AnsweredFresh

-----------------------------------------------------------------------------
(* The fields of a read and of a snapshot.                                 *)
LEMMA ReadFields ==
    /\ DOMAIN Began = {"on", "stale", "seen"} /\ Began.on /\ ~Began.stale /\ Began.seen = Running
    /\ DOMAIN NoRead = {"on", "stale", "seen"} /\ ~NoRead.on /\ NoRead.seen = {}
    /\ DOMAIN NoSnap = SnapFields /\ ~NoSnap.processes /\ ~NoSnap.whole /\ NoSnap.sessions = {}
  BY DEF Began, NoRead, NoSnap, SnapFields

(* A read begins or is dropped.                                            *)
LEMMA HeldReads ==
    ASSUME HeldInv, UNCHANGED <<tab, snap, reserved, held>>, read' \in {read, Began, NoRead},
           opening'.phase = "answered" => opening.phase = "answered" \/ read' # read,
           opening'.phase = "launching" => UNCHANGED opening
    PROVE  HeldInv'
  <1>1. Running' = Running /\ \A s \in Sessions : s \in Running <=> tab[s] # None
    BY DEF Running
  <1>5. \A s : Unasked(s)' => Unasked(s)
    BY DEF Unasked, Launching
  <1>2. CASE read' = read
    BY <1>1, <1>2, <1>5 DEF HeldInv, TabShape, HeldRuns, HeldUnseen, AnsweredFresh
  <1>3. CASE read' = Began
    <2>1. TabShape'
      BY <1>3, ReadFields DEF HeldInv, TabShape
    <2>2. HeldRuns' /\ HeldUnseen'
      BY <1>1, <1>3, <1>5, ReadFields DEF HeldInv, TabShape, HeldRuns, HeldUnseen
    <2>3. AnsweredFresh'
      BY <1>1, <1>3, ReadFields DEF AnsweredFresh
    <2> QED BY <2>1, <2>2, <2>3 DEF HeldInv
  <1>4. CASE read' = NoRead
    BY <1>4, <1>5, ReadFields DEF HeldInv, TabShape, HeldRuns, HeldUnseen, AnsweredFresh
  <1> QED BY <1>2, <1>3, <1>4

(* Nothing that is known of the sessions changes.                          *)
LEMMA HeldQuiet ==
    ASSUME HeldInv, UNCHANGED <<tab, snap, read, reserved, held>>,
           opening'.phase = "answered" => opening.phase = "answered",
           opening'.phase = "launching" => UNCHANGED opening
    PROVE  HeldInv'
  BY HeldReads

(* Tabs come and go: those that go are no longer held.                     *)
LEMMA HeldTabs ==
    ASSUME HeldInv, UNCHANGED <<snap, read, reserved, opening>>, opening.phase # "answered",
           DOMAIN tab' = Sessions, held' \subseteq held,
           \A s \in held' : tab'[s] = tab[s] \/ tab'[s] # None
    PROVE  HeldInv'
  BY DEF HeldInv, TabShape, HeldRuns, HeldUnseen, AnsweredFresh, Unasked, Launching

(* Terminal and the user open and close tabs.                              *)
LEMMA TerminalHolds ==
    ASSUME HeldInv, Terminal, opening.phase # "answered"
    PROVE  HeldInv'
  <1>1. UNCHANGED <<snap, read, reserved, opening>>
    BY DEF Terminal, Appears, FailsToStart, UserOpens, CloseTab, TabEnds, CloseWindow, WindowEnds, monitor
  <1>2. DOMAIN tab = Sessions
    BY DEF HeldInv, TabShape
  <1>3. ASSUME NEW s \in Sessions, Appears(s) PROVE HeldInv'
    <2>1. UNCHANGED tab \/ \E w \in Windows : tab' = [tab EXCEPT ![s] = w]
      BY <1>3 DEF Appears, Landing, OpenWindows
    <2>2. None \notin Windows
      BY TabsAssumption
    <2>3. DOMAIN tab' = Sessions /\ \A t \in Sessions : tab'[t] = tab[t] \/ tab'[t] # None
      BY <1>2, <2>1, <2>2
    <2> QED BY <1>1, <1>3, <2>3, HeldTabs DEF Appears, HeldInv, TabShape
  <1>4. ASSUME NEW s \in Sessions, CloseTab(s) \/ TabEnds(s) PROVE HeldInv'
    <2>1. tab' = [tab EXCEPT ![s] = None] /\ held' = held \ {s}
      BY <1>4 DEF CloseTab, TabEnds
    <2>2. DOMAIN tab' = Sessions /\ \A t \in held' : tab'[t] = tab[t]
      BY <1>2, <2>1 DEF HeldInv, TabShape
    <2> QED BY <1>1, <2>1, <2>2, HeldTabs
  <1>5. CASE \/ \E s \in Sessions : FailsToStart(s) \/ UserOpens(s)
             \/ \E w \in Windows : CloseWindow(w) \/ WindowEnds(w)
    <2>1. UNCHANGED tab /\ held' \subseteq held
      BY <1>5 DEF FailsToStart, UserOpens, CloseWindow, WindowEnds
    <2> QED BY <1>1, <1>2, <2>1, HeldTabs
  <1> QED BY <1>3, <1>4, <1>5 DEF Terminal

(* openGroup decides: what it will launch is not held.                     *)
LEMMA PlanHolds ==
    ASSUME HeldInv, OpenShape, PlanLaunches
    PROVE  HeldInv' /\ (opening'.phase = "launch" => opening'.todo \cap held' = {})
  <1>1. opening.phase = "answered" /\ UNCHANGED <<tab, snap, read>>
    BY DEF PlanLaunches, world
  <1>4. DOMAIN opening = OpenFields
    BY <1>1, OpenInProgress DEF OpenPhases
  <1>2. CASE opening' = Threw /\ UNCHANGED <<groups, reserved, held>>
    <2>1. opening'.phase \in {"idle", "threw"}
      BY <1>2 DEF Threw, Idle
    <2> QED BY <1>1, <1>2, <2>1, HeldQuiet
  <1>3. ASSUME ~(opening' = Threw /\ UNCHANGED <<groups, reserved, held>>)
        PROVE  HeldInv' /\ (opening'.phase = "launch" => opening'.todo \cap held' = {})
    <2>1. PICK late \in SUBSET {s \in Sessions : reserved[s] # None} :
            LET res == [s \in Sessions |-> IF s \in late THEN None ELSE reserved[s]]
                missing == Missing(opening.todo, res)
                g == opening.group
                own == opening.required = None /\ ~opening.only
                         /\ opening.todo \cap snap.sessions = {}
            IN /\ reserved' = res
               /\ held' = held \ {s \in late : s \notin snap.sessions \/ tab[s] = None}
               /\ opening' = IF missing = {} THEN Idle
                             ELSE [opening EXCEPT !.phase = "launch", !.todo = missing,
                                     !.target = IF own THEN g ELSE "latest"]
      BY <1>3 DEF PlanLaunches
    <2>2. snap.processes
      BY <1>3 DEF PlanLaunches
    <2>3. /\ held' \subseteq held /\ held' \subseteq Sessions
          /\ \A s \in held' : s \in late => s \in snap.sessions /\ tab[s] # None
          /\ \A s \in held' : s \notin late => reserved'[s] = reserved[s]
      BY <2>1 DEF HeldInv, TabShape
    <2>4. opening'.phase \notin {"answered", "launching"}
      <3>1. opening' = Idle \/ \E m, t : opening' = [opening EXCEPT !.phase = "launch", !.todo = m, !.target = t]
        BY <2>1
      <3>2. CASE opening' = Idle
        BY <3>2 DEF Idle
      <3>3. ASSUME NEW m, NEW t, opening' = [opening EXCEPT !.phase = "launch", !.todo = m, !.target = t]
            PROVE  opening'.phase = "launch"
        BY <1>4, <3>3 DEF OpenFields
      <3> QED BY <3>1, <3>2, <3>3
    <2>5. TabShape' /\ HeldUnseen' /\ AnsweredFresh'
      BY <1>1, <2>3, <2>4 DEF HeldInv, TabShape, HeldUnseen, AnsweredFresh
    <2>6. HeldRuns'
      <3> SUFFICES ASSUME NEW s \in held', reserved'[s] = None
                   PROVE  /\ tab[s] # None
                          /\ snap.processes \/ snap.whole => s \in snap.sessions
                          /\ read.on /\ ~read.stale => s \in read.seen
        BY <1>1, <2>4 DEF HeldRuns, Unasked, Launching
      <3>1. CASE s \in late
        BY <1>1, <2>3, <3>1 DEF HeldInv, AnsweredFresh, Running
      <3>2. CASE s \notin late
        BY <2>3, <3>2 DEF HeldInv, HeldRuns, Unasked
      <3> QED BY <3>1, <3>2
    <2>7. ASSUME opening'.phase = "launch", NEW s \in opening'.todo, s \in held' PROVE FALSE
      <3>1. s \notin snap.sessions /\ reserved'[s] = None
        BY <1>4, <2>1, <2>7 DEF Missing, Idle, OpenFields
      <3>2. s \in held /\ reserved[s] = None
        BY <2>3, <2>7, <3>1
      <3> QED BY <2>2, <3>1, <3>2 DEF HeldInv, HeldRuns, Unasked
    <2> QED BY <2>5, <2>6, <2>7 DEF HeldInv
  <1> QED BY <1>2, <1>3

(* A complete read: what it does not show is held only if reserved still.  *)
LEMMA SyncHolds ==
    ASSUME NEW sn, NEW late, NEW slow, NEW settled, SyncGroups(sn, late, slow, settled)
    PROVE  /\ held' = (held \ (late \ sn.sessions)) \cup (sn.sessions \cap Running)
           /\ \A s \in Sessions \ sn.sessions : s \notin late => reserved'[s] = reserved[s]
  <1>1. held' = (held \ (late \ sn.sessions)) \cup (sn.sessions \cap Running)
    BY DEF SyncGroups
  <1>2. PICK m : reserved' = [s \in Sessions |-> IF s \in sn.sessions /\ m[s] THEN None
                                                 ELSE IF s \in late THEN None ELSE reserved[s]]
    BY SyncReserved
  <1>3. \A s \in Sessions \ sn.sessions : s \notin late => reserved'[s] = reserved[s]
    BY <1>2
  <1> QED BY <1>1, <1>3

(* A read that was complete.                                               *)
LEMMA WholeHolds ==
    ASSUME HeldInv, read.on, ~read.stale, UNCHANGED tab, read' = NoRead, snap' = Snapshot(TRUE, TRUE),
           opening'.phase = "launching" => UNCHANGED opening,
           NEW late, NEW slow, NEW settled, SyncGroups(snap', late, slow, settled)
    PROVE  HeldInv'
  <1>1. snap'.sessions = read.seen /\ DOMAIN snap' = SnapFields
    BY DEF Snapshot, SnapFields
  <1>2. /\ held' = (held \ (late \ read.seen)) \cup (read.seen \cap Running)
        /\ \A s \in Sessions \ read.seen : s \notin late => reserved'[s] = reserved[s]
    BY <1>1, SyncHolds
  <1>3. TabShape' /\ HeldUnseen' /\ AnsweredFresh'
    BY <1>1, <1>2, ReadFields DEF HeldInv, TabShape, HeldUnseen, AnsweredFresh, Running
  <1>4. HeldRuns'
    <2> SUFFICES ASSUME NEW s \in held', Unasked(s)'
                 PROVE  tab[s] # None /\ s \in read.seen
      BY <1>1, ReadFields DEF HeldRuns
    <2>1. CASE s \in read.seen \cap Running
      BY <2>1 DEF Running
    <2>2. CASE s \in held /\ s \in read.seen
      BY <2>2 DEF HeldInv, HeldUnseen
    <2>3. CASE s \in held /\ s \notin read.seen /\ s \notin late
      <3>1. s \in Sessions
        BY <2>3 DEF HeldInv, TabShape
      <3>2. Unasked(s)
        BY <1>2, <2>3, <3>1 DEF Unasked, Launching
      <3> QED BY <2>3, <3>2 DEF HeldInv, HeldRuns
    <2> QED BY <1>2, <2>1, <2>2, <2>3
  <1> QED BY <1>3, <1>4 DEF HeldInv

(* One that was not.                                                       *)
LEMMA PartHolds ==
    ASSUME HeldInv, read.on, ~read.stale, UNCHANGED <<tab, reserved, held>>, read' = NoRead,
           opening'.phase = "launching" => UNCHANGED opening,
           snap' \in {Snapshot(TRUE, FALSE), Snapshot(FALSE, TRUE),
                      [snap EXCEPT !.processes = FALSE, !.inventory = FALSE]}
    PROVE  HeldInv'
  <1>1. /\ DOMAIN snap' = SnapFields
        /\ snap'.processes \/ snap'.whole =>
             snap'.sessions = read.seen \/ (snap.whole /\ snap'.sessions = snap.sessions)
    <2>1. DOMAIN snap = SnapFields
      BY DEF HeldInv, TabShape
    <2>2. CASE snap' = [snap EXCEPT !.processes = FALSE, !.inventory = FALSE]
      BY <2>1, <2>2 DEF SnapFields
    <2>3. CASE snap' = Snapshot(TRUE, FALSE) \/ snap' = Snapshot(FALSE, TRUE)
      <3>1. CASE snap.whole
        <4>1. \E p, i : snap' = [snap EXCEPT !.processes = p, !.inventory = i]
          BY <2>3, <3>1 DEF Snapshot
        <4> QED BY <2>1, <3>1, <4>1 DEF SnapFields
      <3>2. CASE ~snap.whole
        <4>1. CASE snap' = Snapshot(TRUE, FALSE)
          <5> DEFINE at == [s \in Sessions |-> IF s \in read.seen /\ tab[s] \in {} THEN tab[s] ELSE None]
          <5>1. snap' = [sessions |-> read.seen, at |-> at, windows |-> {}, processes |-> TRUE,
                         inventory |-> FALSE, whole |-> FALSE]
            BY <3>2, <4>1 DEF Snapshot
          <5> HIDE DEF at
          <5> QED BY <5>1 DEF SnapFields
        <4>2. CASE snap' = Snapshot(FALSE, TRUE)
          <5> DEFINE at == [s \in Sessions |-> IF s \in {} /\ tab[s] \in Listed THEN tab[s] ELSE None]
          <5>1. snap' = [sessions |-> {}, at |-> at, windows |-> Listed, processes |-> FALSE,
                         inventory |-> TRUE, whole |-> FALSE]
            BY <3>2, <4>2 DEF Snapshot
          <5> HIDE DEF at
          <5> QED BY <5>1 DEF SnapFields
        <4> QED BY <2>3, <4>1, <4>2
      <3> QED BY <3>1, <3>2
    <2> QED BY <2>2, <2>3
  <1>2. TabShape' /\ HeldUnseen' /\ AnsweredFresh'
    BY <1>1, ReadFields DEF HeldInv, TabShape, HeldUnseen, AnsweredFresh
  <1>3. HeldRuns'
    BY <1>1, ReadFields DEF HeldInv, HeldRuns, Unasked, Launching
  <1> QED BY <1>2, <1>3 DEF HeldInv

(* A read ends, stale, complete or in part.                                *)
LEMMA ReadHolds ==
    ASSUME HeldInv, ReadEnds, opening.phase # "answered"
    PROVE  HeldInv'
  <1>3. opening' \in {opening, Answered(opening)}
    BY DEF ReadEnds, EndRead, EndStale
  <1>4. opening'.phase = "launching" => UNCHANGED opening
    <2>1. CASE opening.phase = "fresh" /\ opening' = [opening EXCEPT !.phase = "answered"]
      <3>1. opening'.phase # "launching"
        BY <2>1
      <3> QED BY <3>1
    <2> QED BY <1>3, <2>1 DEF Answered, Idle
  <1>1. CASE EndStale
    BY <1>1, <1>4, HeldReads, ReadFields DEF EndStale, world
  <1>2. CASE EndRead
    BY <1>2, <1>4, WholeHolds, PartHolds DEF EndRead, world
  <1> QED BY <1>1, <1>2 DEF ReadEnds

(* openGroup begins to launch a session that was not reserved.             *)
LEMMA BeginHolds ==
    ASSUME HeldInv, OpeningInv, NEW s \in Sessions, BeginLaunch(s)
    PROVE  HeldInv'
  <1>1. opening.phase = "launch" /\ s \in opening.todo /\ UNCHANGED <<tab, snap, read, held>>
    BY DEF BeginLaunch, world
  <1>2. DOMAIN opening = OpenFields
    BY <1>1, OpenInProgress DEF OpeningInv, OpenPhases
  <1>3. opening'.phase = "launching" /\ opening'.tab = s
    BY <1>2 DEF BeginLaunch, OpenFields
  <1>4. reserved[s] = None /\ \A t \in Sessions \ {s} : reserved'[t] = reserved[t]
    BY <1>1 DEF BeginLaunch, OpeningInv, Unreserved, Launching
  <1>5. \A t \in Sessions : Unasked(t)' => Unasked(t)
    BY <1>3, <1>4 DEF Unasked, Launching
  <1>6. HeldRuns'
    BY <1>1, <1>5 DEF HeldInv, TabShape, HeldRuns
  <1> QED BY <1>1, <1>3, <1>6 DEF HeldInv, TabShape, HeldUnseen, AnsweredFresh

(* It takes the launch back.                                               *)
LEMMA RefuseHolds ==
    ASSUME HeldInv, OpeningInv, NEW s \in Sessions, RefuseLaunch(s)
    PROVE  HeldInv'
  <1>1. Launching(s) /\ UNCHANGED <<tab, snap, read, held>>
    BY DEF RefuseLaunch, world
  <1>2. opening'.phase \notin {"launching", "answered"}
    BY DEF RefuseLaunch, Threw, Idle
  <1>3. \A t \in Sessions \ {s} : reserved'[t] = reserved[t]
    BY DEF RefuseLaunch, OpeningInv, Unreserved
  <1>4. \A t \in Sessions : Unasked(t)' => Unasked(t)
    BY <1>1, <1>2, <1>3 DEF Unasked, Launching
  <1>5. HeldRuns'
    BY <1>1, <1>4 DEF HeldInv, TabShape, HeldRuns
  <1> QED BY <1>1, <1>2, <1>5 DEF HeldInv, TabShape, HeldUnseen, AnsweredFresh

(* Terminal takes it: the session is held if it is reserved still.         *)
LEMMA LaunchHolds ==
    ASSUME HeldInv, OpeningInv, NEW s \in Sessions, LaunchTab(s)
    PROVE  HeldInv'
  <1>1. /\ opening.phase = "launching" /\ UNCHANGED <<tab, snap, reserved>> /\ read' \in {read, Began}
        /\ held' = IF reserved[s] = None THEN held ELSE held \cup ({s} \ read.seen)
    BY DEF LaunchTab, Launching
  <1>2. DOMAIN opening = OpenFields
    BY <1>1, OpenInProgress DEF OpeningInv, OpenPhases
  <1>3. opening'.phase \notin {"launching", "answered"}
    <2>1. CASE opening' = Idle
      BY <2>1 DEF Idle
    <2>2. ASSUME NEW p \in {"refresh", "launch"}, NEW rest, opening' = [opening EXCEPT !.todo = rest, !.phase = p]
          PROVE  opening'.phase = p
      BY <1>2, <2>2 DEF OpenFields
    <2> QED BY <2>1, <2>2 DEF LaunchTab
  <1>4. TabShape' /\ AnsweredFresh'
    BY <1>1, <1>3, ReadFields DEF HeldInv, TabShape, AnsweredFresh
  <1>5. HeldUnseen'
    BY <1>1, ReadFields DEF HeldInv, HeldUnseen, Running
  <1>6. HeldRuns'
    <2> SUFFICES ASSUME NEW t \in held', reserved[t] = None
                 PROVE  /\ tab[t] # None
                        /\ snap.processes \/ snap.whole => t \in snap.sessions
                        /\ read'.on /\ ~read'.stale => t \in read'.seen
      BY <1>1, <1>3 DEF HeldRuns, Unasked, Launching
    <2>1. t \in held /\ t \in Sessions
      BY <1>1 DEF HeldInv, TabShape
    <2>2. /\ tab[t] # None /\ t \in Running
          /\ snap.processes \/ snap.whole => t \in snap.sessions
          /\ read.on /\ ~read.stale => t \in read.seen
      BY <2>1 DEF HeldInv, HeldRuns, Running, Unasked
    <2> QED BY <1>1, <2>2, ReadFields
  <1> QED BY <1>4, <1>5, <1>6 DEF HeldInv

(* Another file is followed.                                               *)
LEMMA FollowHolds ==
    ASSUME HeldInv, NEW p, Follow(p), opening.phase # "answered"
    PROVE  HeldInv'
  <1>1. /\ UNCHANGED <<tab, reserved, held, opening>> /\ snap' = NoSnap
        /\ read' \in {Began, NoRead} \/ (read' = [read EXCEPT !.stale = TRUE])
    BY DEF Follow, world
  <1>2. CASE read' = [read EXCEPT !.stale = TRUE]
    <2>1. DOMAIN read' = {"on", "stale", "seen"} /\ read'.stale /\ read'.seen = read.seen
      BY <1>2 DEF HeldInv, TabShape
    <2> QED BY <1>1, <2>1, ReadFields DEF HeldInv, TabShape, HeldRuns, HeldUnseen, AnsweredFresh, Unasked,
                                           Launching
  <1>3. CASE read' \in {Began, NoRead}
    <2>1. TabShape' /\ AnsweredFresh'
      BY <1>1, <1>3, ReadFields DEF HeldInv, TabShape, AnsweredFresh
    <2>2. HeldUnseen' /\ HeldRuns'
      BY <1>1, <1>3, ReadFields DEF HeldInv, TabShape, HeldRuns, HeldUnseen, Running, Unasked, Launching
    <2> QED BY <2>1, <2>2 DEF HeldInv
  <1> QED BY <1>1, <1>2, <1>3

(* The next run of the app knows of no session.                            *)
LEMMA RestartHolds ==
    ASSUME HeldInv, Restart
    PROVE  HeldInv'
  <1>1. UNCHANGED tab /\ snap' = NoSnap /\ read' = NoRead /\ held' = {}
    BY DEF Restart, world
  <1> QED BY <1>1, ReadFields DEF HeldInv, TabShape, HeldRuns, HeldUnseen, AnsweredFresh

(* The page's actions at most begin a read.                                *)
LEMMA ActsHold ==
    ASSUME HeldInv, NEW a \in Acts,
           \/ \E g : SwitchOn(a, g) \/ SwitchOff(a, g) \/ PressX(a, g)
           \/ EnableJob(a) \/ ChooseX(a) \/ AnswerDialog(a) \/ Stop(a) \/ Stopped(a)
           \/ Forget(a) \/ Switched(a) \/ NotSwitched(a)
    PROVE  HeldInv'
  <1>1. CASE \E g : SwitchOn(a, g) \/ SwitchOff(a, g) \/ PressX(a, g)
    BY <1>1, HeldReads DEF SwitchOn, SwitchOff, PressX, AwaitFresh, world, monitor
  <1>2. CASE EnableJob(a) \/ ChooseX(a) \/ AnswerDialog(a) \/ Stop(a)
    BY <1>2, HeldQuiet DEF EnableJob, ChooseX, AnswerDialog, Stop, tabVars, world, monitor
  <1>3. CASE Stopped(a) \/ Forget(a)
    <2>1. UNCHANGED <<tab, snap, reserved, held, opening>> /\ read' \in {read, Began}
      BY <1>3 DEF Stopped, Forget, AwaitFresh, world
    <2> QED BY <2>1, HeldReads
  <1>4. CASE Switched(a) \/ NotSwitched(a)
    BY <1>4, HeldQuiet DEF Switched, NotSwitched, tabVars, world, monitor
  <1> QED BY <1>1, <1>2, <1>3, <1>4

(* So does the check, which opens a group only when nothing is opened.     *)
LEMMA CheckHolds ==
    ASSUME HeldInv,
           \/ CheckDue \/ NextJob \/ BeginCheck \/ GiveUp \/ Compare \/ Opened \/ AskStatus
           \/ StatusArrives \/ NextRow \/ Recover \/ NotClaimed \/ Recovered
    PROVE  HeldInv'
  <1>1. CASE CheckDue \/ NextJob \/ GiveUp \/ AskStatus \/ StatusArrives
    BY <1>1, HeldQuiet DEF CheckDue, NextJob, GiveUp, AskStatus, StatusArrives, tabVars, world, monitor
  <1>2. CASE NextRow \/ Recover \/ NotClaimed \/ Recovered
    BY <1>2, HeldQuiet DEF NextRow, Recover, NotClaimed, Recovered, tabVars, world, monitor
  <1>3. CASE BeginCheck
    BY <1>3, HeldReads DEF BeginCheck, AwaitFresh, world
  <1>4. CASE Opened
    BY <1>4, HeldQuiet DEF Opened, world, monitor, Idle
  <1>5. CASE Compare
    <2>1. UNCHANGED <<tab, snap, reserved, held>>
      BY <1>5 DEF Compare, world
    <2>2. CASE UNCHANGED <<opening, read>>
      BY <2>1, <2>2, HeldQuiet
    <2>3. ASSUME NEW es, NEW w, OpenGroup(check.job.group, es, FALSE, w) PROVE HeldInv'
      <3>1. opening'.phase = "fresh" /\ read' \in {read, Began}
        BY <2>3 DEF OpenGroup, AwaitFresh
      <3> QED BY <2>1, <3>1, HeldReads
    <2> QED BY <1>5, <2>2, <2>3 DEF Compare
  <1> QED BY <1>1, <1>2, <1>3, <1>4, <1>5

(* It holds at the start.                                                  *)
LEMMA InitHeld == Init => HeldInv
  <1> SUFFICES ASSUME Init PROVE HeldInv
    OBVIOUS
  <1>1. read = NoRead /\ opening = Idle /\ reserved = [s \in Sessions |-> None]
    BY DEF Init, TabsInit
  <1>2. PICK c \in Scenarios :
          LET w == CHOOSE x \in Windows : TRUE IN
          /\ tab = [s \in Sessions |-> IF c.open /\ s \in c.tabs THEN w ELSE None]
          /\ snap = IF c.open
                      THEN [sessions |-> c.tabs, at |-> tab, windows |-> {w},
                            processes |-> TRUE, inventory |-> TRUE, whole |-> TRUE]
                      ELSE NoSnap
          /\ held = IF c.open THEN c.tabs ELSE {}
    BY DEF Init, TabsInit
  <1>3. /\ DOMAIN tab = Sessions /\ held \subseteq Sessions /\ DOMAIN snap = SnapFields
        /\ \A s \in held : tab[s] # None /\ s \in snap.sessions
    <2>1. CASE ~c.open
      <3>1. held = {} /\ snap = NoSnap /\ DOMAIN tab = Sessions
        BY <1>2, <2>1
      <3> QED BY <3>1, ReadFields
    <2>2. CASE c.open
      <3> DEFINE w == CHOOSE x \in Windows : TRUE
      <3>1. w # None
        BY TabsAssumption
      <3>2. c.tabs \subseteq Sessions
        BY SchedulesAssumption
      <3>3. /\ tab = [s \in Sessions |-> IF s \in c.tabs THEN w ELSE None] /\ held = c.tabs
            /\ snap = [sessions |-> c.tabs, at |-> tab, windows |-> {w},
                        processes |-> TRUE, inventory |-> TRUE, whole |-> TRUE]
        BY <1>2, <2>2
      <3> HIDE DEF w
      <3>4. DOMAIN tab = Sessions /\ \A s \in held : tab[s] = w
        BY <3>2, <3>3
      <3>5. DOMAIN snap = SnapFields /\ snap.sessions = held
        BY <3>3 DEF SnapFields
      <3> QED BY <3>1, <3>2, <3>3, <3>4, <3>5
    <2> QED BY <2>1, <2>2
  <1>4. TabShape
    BY <1>1, <1>3, ReadFields DEF TabShape
  <1>5. HeldRuns /\ HeldUnseen /\ AnsweredFresh
    BY <1>1, <1>3, ReadFields DEF HeldRuns, HeldUnseen, AnsweredFresh
  <1> QED BY <1>4, <1>5 DEF HeldInv

(* Every step keeps it.                                                    *)
LEMMA NextHeld == OpeningInv /\ HeldInv /\ [Next]_vars => HeldInv'
  <1> SUFFICES ASSUME OpeningInv, HeldInv, [Next]_vars PROVE HeldInv'
    OBVIOUS
  <1>1. CASE UNCHANGED vars
    BY <1>1, HeldQuiet DEF vars, tabVars, world, monitor
  <1>2. CASE Resume
    <2>1. CASE PlanLaunches
      BY <2>1, PlanHolds DEF OpeningInv
    <2>2. CASE \/ NextJob \/ BeginCheck \/ GiveUp \/ Compare \/ Opened \/ AskStatus \/ NextRow \/ Recover
               \/ NotClaimed
      BY <2>2, CheckHolds
    <2>3. ASSUME NEW a \in Acts, \/ EnableJob(a) \/ ChooseX(a) \/ Stop(a) \/ Stopped(a) \/ Forget(a)
                                 \/ Switched(a) \/ NotSwitched(a)
          PROVE  HeldInv'
      BY <2>3, ActsHold
    <2>4. CASE StopLaunching
      BY <2>4, HeldQuiet DEF StopLaunching, world, monitor, Idle
    <2>5. ASSUME NEW s \in Sessions, BeginIfCurrent(s) PROVE HeldInv'
      BY <2>5, BeginHolds DEF BeginIfCurrent
    <2> QED BY <1>2, <2>1, <2>2, <2>3, <2>4, <2>5 DEF Resume
  <1>3. CASE ~Ready
    <2>1. opening.phase # "answered"
      BY <1>3 DEF Ready
    <2>2. CASE Terminal
      BY <2>1, <2>2, TerminalHolds
    <2>3. CASE BeginRead
      BY <2>3, HeldReads DEF BeginRead, world
    <2>4. ASSUME NEW s \in Sessions, LaunchTab(s) \/ RefuseLaunch(s) \/ TurnFails(s) PROVE HeldInv'
      <3>1. CASE RefuseLaunch(s)
        BY <3>1, RefuseHolds
      <3>2. CASE LaunchTab(s)
        BY <3>2, LaunchHolds
      <3>3. CASE TurnFails(s)
        BY <3>3, HeldQuiet DEF TurnFails, world, monitor
      <3> QED BY <2>4, <3>1, <3>2, <3>3
    <2>5. CASE ReadEnds
      BY <2>1, <2>5, ReadHolds
    <2>6. CASE Clicked
      <3>1. ASSUME NEW a \in Acts, \/ \E g : SwitchOn(a, g) \/ SwitchOff(a, g) \/ PressX(a, g)
                                   \/ AnswerDialog(a)
            PROVE  HeldInv'
        BY <3>1, ActsHold
      <3>2. ASSUME NEW g, NEW es, NEW only, ClickGroup(g, es, only) PROVE HeldInv'
        <4>1. UNCHANGED <<tab, snap, reserved, held>> /\ opening'.phase = "fresh" /\ read' \in {read, Began}
          BY <3>2 DEF ClickGroup, OpenGroup, AwaitFresh, world
        <4> QED BY <4>1, HeldReads
      <3> QED BY <2>6, <3>1, <3>2 DEF Clicked
    <2>7. CASE Written \/ \E g \in Groups : Elapses(g)
      BY <2>7, HeldQuiet DEF Written, Elapses, world, monitor, Idle
    <2>8. CASE CheckDue \/ StatusArrives \/ Recovered
      BY <2>8, CheckHolds
    <2>9. CASE Restart
      BY <2>9, RestartHolds
    <2>10. ASSUME NEW p \in Files, FollowFile(p) PROVE HeldInv'
      BY <2>1, <2>10, FollowHolds DEF FollowFile
    <2>11. CASE UNCHANGED vars
      BY <1>1, <2>11
    <2> QED BY <1>3, <2>2, <2>3, <2>4, <2>5, <2>6, <2>7, <2>8, <2>9, <2>10, <2>11 DEF Next
  <1> QED BY <1>1, <1>2, <1>3 DEF Next

(* openGroup decides to launch no session that runs, or starts, and is     *)
(* known to: what it launches is missing in its snapshot and not reserved, *)
(* and a session that the app has launched or seen is one or the other     *)
(* until it ends.                                                          *)
THEOREM TabsLaunchedOnce == Spec => LaunchedOnce
  <1> DEFINE Step == opening.phase = "answered" /\ opening'.phase = "launch"
                       => opening'.todo \cap held' = {}
  <1>1. OpeningInv /\ HeldInv /\ [Next]_vars => [Step]_tabVars
    <2> SUFFICES ASSUME OpeningInv, HeldInv, [Next]_vars, opening.phase = "answered", opening'.phase = "launch"
                 PROVE  opening'.todo \cap held' = {}
      OBVIOUS
    <2>1. \A s : ~BeginIfCurrent(s)
      BY DEF BeginIfCurrent, BeginLaunch
    <2> QED BY <2>1, OpeningActs, PlanHolds DEF OpeningInv
  <1> QED BY <1>1, InitClaims, NextClaims, InitOpening, NextOpening, InitHeld, NextHeld, PTL
          DEF Spec, LaunchedOnce

-----------------------------------------------------------------------------
(***************************************************************************)
(* The tabs that went with their window (OwedInv), from which              *)
(* SavedTabsStay: such a tab is still to be restored, or its group's       *)
(* window goes and the group is not seen to have settled without it.       *)
(***************************************************************************)
Going(w) == frame[w] \in {"dying", "gone"}

(* Tabs are being launched into the group's window. *)
Restored(g) == \/ \E t \in Sessions : reserved[t] = g
               \/ opening.phase \in {"launch", "launching"} /\ opening.target = g

(* What the code keeps of the tab s in the group r of it. *)
Keeps(r, s) == s \in r.members /\ (s \in r.pending \/ Going(r.window))

OwedBy(s, g) ==
    /\ Keeps(groups[g], s)
    /\ Restored(g) => s \in groups[g].pending /\ s \notin read.seen
    /\ s \in read.seen => Going(groups[g].window)

GroupTypes ==
    /\ groups \in [Groups -> {None, Deleted} \cup SavedGroup]
    /\ path \in Files /\ DOMAIN frame = Windows
    /\ snap.windows \subseteq Windows
    /\ read.seen \subseteq Sessions /\ (~read.on => read.seen = {})

OwedTabs ==
    \A o \in owed :
      /\ o[1] \in Sessions /\ o[2] \in Groups
      /\ tab[o[1]] = None /\ reserved[o[1]] \in {None, o[2]} /\ groups[o[2]] # None
      /\ o[2] \in Known(groups) => OwedBy(o[1], o[2])

(* openGroup, as long as it awaits the fresh read for a click on a group. *)
Whole == opening.phase \in {"fresh", "answered"} /\ ~opening.only /\ opening.required = None

(* It opens all tabs of the group, into its window or into the latest. *)
OpensAll ==
    /\ opening.phase \in {"launch", "launching"} => opening.target \in {"latest", opening.group}
    /\ Whole /\ opening.group \in Known(groups) =>
         /\ opening.phase = "fresh" => groups[opening.group].members \subseteq opening.todo
         /\ \A o \in owed : o[2] = opening.group => o[1] \in opening.todo

OwedInv == GroupTypes /\ OwedTabs /\ OpensAll

-----------------------------------------------------------------------------
(* A nonempty set of numbers has a least one.                              *)
LEMMA LeastOf ==
    ASSUME NEW T \in SUBSET Nat, T # {}
    PROVE  \E n \in T : \A t \in T : n <= t
  <1>1. \E n \in T : \A t \in T : <<t, n>> \notin OpToRel(<, Nat)
    BY NatLessThanWellFounded, WFMin, Zenon
  <1>2. \A n, t \in Nat : t < n => <<t, n>> \in OpToRel(<, Nat)
    BY Zenon DEF OpToRel
  <1>3. \E n \in T : \A t \in T : ~(t < n)
    BY <1>1, <1>2, Zenon
  <1> QED BY <1>3

(* The sets without one of their elements, which the fold picks.           *)
Picked(S) == CHOOSE x \in S : TRUE

LEMMA OneLess ==
    ASSUME NEW W, IsFiniteSet(W), NEW S \in SUBSET W, S # {}
    PROVE  /\ Picked(S) \in S /\ S \ {Picked(S)} \in SUBSET W
           /\ Cardinality(S) \in Nat /\ Cardinality(S \ {Picked(S)}) = Cardinality(S) - 1
           /\ Cardinality(S) - 1 \in Nat
  <1>1. Picked(S) \in S
    BY DEF Picked
  <1>2. IsFiniteSet(S)
    BY FS_Subset
  <1>3. Cardinality(S) \in Nat /\ Cardinality(S \ {Picked(S)}) = Cardinality(S) - 1
    BY <1>1, <1>2, FS_RemoveElement, FS_CardinalityType
  <1>4. Cardinality(S \ {Picked(S)}) \in Nat
    BY <1>2, FS_RemoveElement, FS_CardinalityType, FS_Subset
  <1> QED BY <1>1, <1>3, <1>4

(* What _syncGroups has made of the groups so far.                         *)
SoFar(acc) ==
    /\ DOMAIN acc = {"groups", "shrinking"}
    /\ acc.groups \in [Groups -> {None, Deleted} \cup SavedGroup]
    /\ \A g \in Groups : groups[g] = Deleted => acc.groups[g] = Deleted
    /\ Known(groups) \subseteq Known(acc.groups)
    /\ \A o \in owed : o[2] \in Known(groups) =>
         /\ Keeps(acc.groups[o[2]], o[1])
         /\ IF Restored(o[2]) THEN o[1] \in acc.groups[o[2]].pending
            ELSE acc.groups[o[2]].window = groups[o[2]].window

(* _syncGroups goes through the windows one by one.                        *)
LEMMA SyncedInTurn ==
    ASSUME NEW sn, NEW asleep, NEW settled, NEW res, IsFiniteSet(sn.windows),
           SoFar([groups |-> groups, shrinking |-> shrinking]),
           \A w \in sn.windows : \A acc : SoFar(acc) =>
             SoFar(SyncWindow(w, acc, {s \in sn.sessions : PlaceOf(s, sn) = w}, w \in asleep,
                              w \in settled, res, sn))
    PROVE  SoFar(SyncWindows(sn, asleep, settled, res))
  <1> DEFINE W == sn.windows
             base == [groups |-> groups, shrinking |-> shrinking]
             Step(w, acc) == SyncWindow(w, acc, {s \in sn.sessions : PlaceOf(s, sn) = w},
                                        w \in asleep, w \in settled, res, sn)
             Body(f, S) == IF S = {} THEN base
                           ELSE Step(CHOOSE x \in S : TRUE, f[S \ {CHOOSE x \in S : TRUE}])
             iter == CHOOSE f : f = [S \in SUBSET W |-> Body(f, S)]
  <1>1. SyncWindows(sn, asleep, settled, res) = iter[W]
    BY DEF SyncWindows, FoldSet, MapThenFoldSet
  <1>2. \A f, S : Body(f, S) = IF S = {} THEN base ELSE Step(Picked(S), f[S \ {Picked(S)}])
    BY DEF Picked
  <1>3. SoFar(base) /\ \A w \in W : \A acc : SoFar(acc) => SoFar(Step(w, acc))
    OBVIOUS
  <1>4. \A S \in SUBSET W : S # {} =>
          /\ Picked(S) \in S /\ S \ {Picked(S)} \in SUBSET W
          /\ Cardinality(S) \in Nat /\ Cardinality(S \ {Picked(S)}) = Cardinality(S) - 1
          /\ Cardinality(S) - 1 \in Nat
    <2>1. IsFiniteSet(W)
      OBVIOUS
    <2> HIDE DEF W
    <2> QED BY <2>1, OneLess
  <1>5. Cardinality({}) = 0 /\ Cardinality(W) \in Nat
    BY FS_EmptySet, FS_CardinalityType
  <1> HIDE DEF Step, base
  <1> DEFINE Upto(f, n) == \A S \in SUBSET W : Cardinality(S) <= n => f[S] = Body(f, S)
             Short == {n \in Nat : ~\E f : Upto(f, n)}
  <1>6. 0 \notin Short
    <2> DEFINE f == [S \in SUBSET W |-> base]
    <2>1. ASSUME NEW S \in SUBSET W, Cardinality(S) <= 0 PROVE S = {}
      <3> SUFFICES ASSUME S # {} PROVE FALSE
        OBVIOUS
      <3>1. Cardinality(S) \in Nat /\ Cardinality(S) - 1 \in Nat
        BY <1>4
      <3> QED BY <2>1, <3>1
    <2>2. Upto(f, 0)
      BY <1>2, <2>1
    <2> QED BY <2>2
  <1>7. ASSUME NEW n \in Nat, n \notin Short PROVE n + 1 \notin Short
    <2>1. PICK f : Upto(f, n)
      BY <1>7
    <2> DEFINE h == [S \in SUBSET W |-> Body(f, S)]
    <2> HIDE DEF Body
    <2>2. \A S \in SUBSET W : h[S] = Body(f, S)
      OBVIOUS
    <2>3. ASSUME NEW S \in SUBSET W, Cardinality(S) <= n + 1 PROVE h[S] = Body(h, S)
      <3>1. CASE S = {}
        BY <1>2, <2>2, <3>1
      <3>2. CASE S # {}
        <4>1. S \ {Picked(S)} \in SUBSET W /\ Cardinality(S \ {Picked(S)}) <= n
          BY <1>4, <2>3, <3>2
        <4>2. f[S \ {Picked(S)}] = h[S \ {Picked(S)}]
          BY <2>1, <2>2, <4>1
        <4> QED BY <1>2, <2>2, <3>2, <4>2
      <3> QED BY <3>1, <3>2
    <2>4. Upto(h, n + 1)
      BY <2>3
    <2> QED BY <2>4
  <1> HIDE DEF Upto
  <1>8. Short = {}
    <2> SUFFICES ASSUME Short # {} PROVE FALSE
      OBVIOUS
    <2>1. PICK n \in Short : \A t \in Short : n <= t
      BY LeastOf
    <2>2. n \in Nat /\ n # 0
      BY <1>6
    <2>3. n - 1 \in Nat /\ n - 1 \notin Short
      BY <2>1, <2>2
    <2>4. (n - 1) + 1 \notin Short
      BY <1>7, <2>3
    <2> QED BY <2>2, <2>4
  <1>9. \A S \in SUBSET W : iter[S] = Body(iter, S)
    <2>1. PICK f : Upto(f, Cardinality(W))
      BY <1>5, <1>8
    <2>2. \A S \in SUBSET W : Cardinality(S) <= Cardinality(W)
      BY FS_Subset
    <2> DEFINE h == [S \in SUBSET W |-> f[S]]
    <2>3. \A S \in SUBSET W : h[S] = Body(h, S)
      BY <1>2, <1>4, <2>1, <2>2 DEF Upto
    <2>4. h = [S \in SUBSET W |-> Body(h, S)]
      BY <2>3
    <2>5. iter = [S \in SUBSET W |-> Body(iter, S)]
      BY <2>4
    <2> QED BY <2>5
  <1> HIDE DEF iter, Body
  <1> DEFINE Bad == {Cardinality(S) : S \in {T \in SUBSET W : ~SoFar(iter[T])}}
  <1>10. Bad = {}
    <2> SUFFICES ASSUME Bad # {} PROVE FALSE
      OBVIOUS
    <2>1. Bad \in SUBSET Nat
      <3>1. \A S \in SUBSET W : Cardinality(S) \in Nat
        BY FS_Subset, FS_CardinalityType
      <3> QED BY <3>1
    <2>2. PICK n \in Bad : \A t \in Bad : n <= t
      BY <2>1, LeastOf
    <2>3. PICK S \in SUBSET W : ~SoFar(iter[S]) /\ Cardinality(S) = n
      OBVIOUS
    <2>4. S # {}
      BY <1>2, <1>3, <1>9, <2>3
    <2> DEFINE R == S \ {Picked(S)}
    <2>5. /\ Picked(S) \in W /\ R \in SUBSET W
          /\ n \in Nat /\ Cardinality(R) = n - 1
      BY <1>4, <2>3, <2>4
    <2>6. SoFar(iter[R])
      <3>1. Cardinality(R) \notin Bad
        BY <2>2, <2>5
      <3> QED BY <2>5, <3>1
    <2>7. iter[S] = Step(Picked(S), iter[R])
      BY <1>2, <1>9, <2>4
    <2>8. SoFar(Step(Picked(S), iter[R]))
      BY <1>3, <2>5, <2>6
    <2> QED BY <2>3, <2>7, <2>8
  <1>11. SoFar(iter[W])
    BY <1>10
  <1> QED BY <1>1, <1>11

(* The group a window belongs to is the one remembered for it, or one that *)
(* is being restored.                                                      *)
LEMMA OwnGroup ==
    ASSUME NEW w, NEW members \in SUBSET Sessions, NEW gs, NEW res, NEW sn,
           \A t \in Sessions : res[t] \in {None, reserved[t]},
           NEW g \in GroupsOf(w, members, gs, res, sn)
    PROVE  g \in Known(gs) /\ (gs[g].window = w \/ Restored(g))
  <1> DEFINE own == {x \in Known(gs) : ~gs[x].closed /\ gs[x].window = w}
             restoring == {res[s] : s \in members} \ {None, "free"}
  <1>1. g \in own \/ g \in restoring \cap Known(gs)
    BY DEF GroupsOf
  <1>2. CASE g \in own
    BY <1>2
  <1>3. CASE g \in restoring \cap Known(gs)
    <2>1. PICK t \in members : res[t] = g /\ g # None
      BY <1>3
    <2>2. t \in Sessions /\ reserved[t] = g
      BY <2>1
    <2> QED BY <1>3, <2>2 DEF Restored
  <1> QED BY <1>1, <1>2, <1>3

(* A window that the read shows, one after another.                        *)
LEMMA SyncedWindow ==
    ASSUME OwedInv, NEW w \in Listed, NEW acc, SoFar(acc), NEW members \in SUBSET read.seen,
           NEW asleep, NEW settled, settled => Settles(w), NEW res, NEW sn,
           \A t \in Sessions : res[t] \in {None, reserved[t]}
    PROVE  SoFar(SyncWindow(w, acc, members, asleep, settled, res, sn))
  <1> DEFINE own == GroupsOf(w, members, acc.groups, res, sn)
             free == {x \in Groups : acc.groups[x] = None}
             g == CHOOSE x \in own : TRUE
             old == acc.groups[g]
             outstanding == old.pending \ members
             now == members \cup (old.members \cap outstanding)
             removed == ~(old.members \subseteq now)
             new == [window |-> w, file |-> path, members |-> members, closed |-> FALSE,
                     pending |-> {}]
             at == CHOOSE x \in free : TRUE
             next == SyncWindow(w, acc, members, asleep, settled, res, sn)
             changed == [new EXCEPT !.file = old.file, !.members = now, !.pending = outstanding]
  <1>1. /\ members \subseteq Sessions /\ w \in Windows /\ path \in Files
        /\ GroupTypes /\ OwedTabs
    BY DEF OwedInv, GroupTypes, Listed
  <1>2. /\ DOMAIN acc = {"groups", "shrinking"}
        /\ acc.groups \in [Groups -> {None, Deleted} \cup SavedGroup]
    BY DEF SoFar
  <1>3. \/ next = acc
        \/ own = {} /\ free # {} /\ next = [acc EXCEPT !.groups = [@ EXCEPT ![at] = new]]
        \/ \E sh : own # {} /\ next = [acc EXCEPT !.shrinking = sh]
        \/ \E sh : /\ own # {} /\ ~(removed /\ old.window = w /\ ~Believed(acc.shrinking[w], now, settled))
                   /\ next = [groups |-> [acc.groups EXCEPT ![g] = changed], shrinking |-> sh]
    BY DEF SyncWindow
  <1>4. CASE next = acc
    BY <1>4
  <1>5. ASSUME own = {}, free # {}, next = [acc EXCEPT !.groups = [@ EXCEPT ![at] = new]]
        PROVE  SoFar(next)
    <2>1. at \in Groups /\ acc.groups[at] = None
      BY <1>5
    <2>2. new \in SavedGroup
      BY <1>1 DEF SavedGroup
    <2> HIDE DEF at, new
    <2>3. DOMAIN next = {"groups", "shrinking"} /\ next.groups = [acc.groups EXCEPT ![at] = new]
      BY <1>2, <1>5
    <2> HIDE DEF next, own, free
    <2>4. at \notin Known(acc.groups) /\ at \notin Known(groups) /\ groups[at] # Deleted
      BY <2>1, TabsAssumption DEF SoFar, Known
    <2>5. \A x \in Groups : x # at => next.groups[x] = acc.groups[x]
      BY <1>2, <2>3
    <2>6. next.groups \in [Groups -> {None, Deleted} \cup SavedGroup]
      BY <1>2, <2>1, <2>2, <2>3
    <2>7. Known(groups) \subseteq Known(next.groups)
      BY <2>4, <2>5 DEF SoFar, Known
    <2>8. \A x \in Groups : groups[x] = Deleted => next.groups[x] = Deleted
      BY <2>4, <2>5 DEF SoFar
    <2>9. \A x \in Known(groups) : next.groups[x] = acc.groups[x]
      BY <2>4, <2>5 DEF Known
    <2> QED BY <2>3, <2>6, <2>7, <2>8, <2>9 DEF SoFar
  <1>6. ASSUME NEW sh, own # {}, next = [acc EXCEPT !.shrinking = sh]
        PROVE  SoFar(next)
    <2>1. DOMAIN next = {"groups", "shrinking"} /\ next.groups = acc.groups
      BY <1>2, <1>6
    <2> HIDE DEF next
    <2> QED BY <2>1 DEF SoFar
  <1>7. ASSUME NEW sh, own # {}, ~(removed /\ old.window = w /\ ~Believed(acc.shrinking[w], now, settled)),
               next = [groups |-> [acc.groups EXCEPT ![g] = changed], shrinking |-> sh]
        PROVE  SoFar(next)
    <2>1. g \in own
      BY <1>7
    <2>2. g \in Known(acc.groups) /\ (old.window = w \/ Restored(g))
      BY <1>1, <2>1, OwnGroup
    <2> HIDE DEF g, own
    <2>3. g \in Groups /\ old \in SavedGroup
      BY <1>2, <2>2 DEF Known
    <2>4. /\ changed \in SavedGroup /\ changed.window = w /\ changed.members = now
          /\ changed.pending = outstanding
      BY <1>1, <2>3 DEF SavedGroup
    <2>5. changed \notin {None, Deleted}
      BY <2>4, TabsAssumption
    <2> HIDE DEF changed
    <2>6. DOMAIN next = {"groups", "shrinking"} /\ next.groups = [acc.groups EXCEPT ![g] = changed]
      BY <1>7
    <2> HIDE DEF next
    <2>7. next.groups \in [Groups -> {None, Deleted} \cup SavedGroup]
      BY <1>2, <2>3, <2>4, <2>6
    <2>8. \A x \in Groups : IF x = g THEN next.groups[x] = changed ELSE next.groups[x] = acc.groups[x]
      BY <1>2, <2>3, <2>6
    <2>9. Known(groups) \subseteq Known(next.groups)
      BY <2>5, <2>8 DEF SoFar, Known
    <2>10. \A x \in Groups : groups[x] = Deleted => next.groups[x] = Deleted
      BY <2>2, <2>8 DEF SoFar, Known
    <2>11. ASSUME NEW o \in owed, o[2] \in Known(groups)
           PROVE  /\ Keeps(next.groups[o[2]], o[1])
                  /\ IF Restored(o[2]) THEN o[1] \in next.groups[o[2]].pending
                     ELSE next.groups[o[2]].window = groups[o[2]].window
      <3> DEFINE s == o[1]
      <3>1. OwedBy(s, o[2]) /\ o[2] \in Groups
        BY <1>1, <2>11 DEF OwedTabs
      <3>2. /\ Keeps(acc.groups[o[2]], s)
            /\ IF Restored(o[2]) THEN s \in acc.groups[o[2]].pending
               ELSE acc.groups[o[2]].window = groups[o[2]].window
        BY <2>11 DEF SoFar
      <3>3. CASE o[2] # g
        BY <2>8, <3>1, <3>2, <3>3
      <3>4. CASE o[2] = g /\ Restored(g)
        <4>1. s \in old.members /\ s \in old.pending /\ s \notin members
          BY <3>1, <3>2, <3>4 DEF OwedBy, Keeps
        <4>2. next.groups[o[2]] = changed
          BY <2>8, <3>1, <3>4
        <4> QED BY <2>4, <3>4, <4>1, <4>2 DEF Keeps
      <3>5. CASE o[2] = g /\ ~Restored(g)
        <4>1. old.window = w /\ groups[g].window = w /\ s \in old.members
          BY <2>2, <3>2, <3>5 DEF Keeps
        <4>2. next.groups[o[2]] = changed
          BY <2>8, <3>1, <3>5
        <4>3. CASE s \in members
          BY <2>4, <3>1, <3>5, <4>1, <4>2, <4>3 DEF OwedBy, Keeps
        <4>4. CASE s \notin members /\ s \in old.pending
          BY <2>4, <3>5, <4>1, <4>2, <4>4 DEF Keeps
        <4>5. CASE s \notin members /\ s \notin old.pending
          <5>1. frame[w] = "dying"
            BY <3>2, <3>5, <4>1, <4>5 DEF Keeps, Going, Listed
          <5>2. ~Settles(w)
            BY <2>11, <3>5, <4>1, <5>1 DEF Settles
          <5>3. removed
            BY <4>1, <4>5
          <5>4. Believed(acc.shrinking[w], now, settled)
            BY <1>7, <4>1, <5>3
          <5> QED BY <5>2, <5>4 DEF Believed
        <4> QED BY <4>3, <4>4, <4>5
      <3> QED BY <3>3, <3>4, <3>5
    <2> QED BY <2>6, <2>7, <2>9, <2>10, <2>11 DEF SoFar
  <1> QED BY <1>3, <1>4, <1>5, <1>6, <1>7

(* What openGroup does next is no other opening.                           *)
Continues ==
    /\ opening'.phase \in {"launch", "launching"} =>
         opening.phase \in {"launch", "launching"} /\ opening'.target = opening.target
    /\ OpensAll'

LEMMA OpeningGoesOn ==
    ASSUME OwedInv, OpeningInv, UNCHANGED groups, owed' \subseteq owed,
           opening' \in {opening, Idle, Threw, Answered(opening)}
    PROVE  Continues
  <1>1. OpensAll
    BY DEF OwedInv
  <1>2. CASE opening' = opening
    BY <1>1, <1>2 DEF Continues, OpensAll, Whole
  <1>3. CASE opening'.phase \notin OpenPhases
    BY <1>3 DEF Continues, OpensAll, Whole, OpenPhases
  <1>4. CASE opening.phase = "fresh" /\ opening' = [opening EXCEPT !.phase = "answered"]
    <2>1. DOMAIN opening = OpenFields
      BY <1>4, OpenInProgress DEF OpeningInv, OpenPhases
    <2>2. /\ opening'.phase = "answered" /\ opening'.group = opening.group /\ opening'.todo = opening.todo
          /\ opening'.only = opening.only /\ opening'.required = opening.required
      BY <1>4, <2>1 DEF OpenFields
    <2> QED BY <1>1, <1>4, <2>2 DEF Continues, OpensAll, Whole
  <1>5. Idle.phase \notin OpenPhases /\ Threw.phase \notin OpenPhases
    BY OpenIdle DEF Threw
  <1> QED BY <1>2, <1>3, <1>4, <1>5 DEF Answered

(* A read in progress lists no tab that has gone with its window before.   *)
ReadsOn ==
    /\ read'.seen \subseteq Sessions /\ (~read'.on => read'.seen = {})
    /\ \A o \in owed : o[1] \in read'.seen => o[1] \in read.seen

LEMMA ReadGoesOn ==
    ASSUME OwedInv, read' \in {read, Began, NoRead}
    PROVE  ReadsOn
  <1>1. read.seen \subseteq Sessions /\ (~read.on => read.seen = {})
    BY DEF OwedInv, GroupTypes
  <1>2. \A o \in owed : o[1] \notin Running
    BY DEF OwedInv, OwedTabs, Running
  <1>3. Running \subseteq Sessions
    BY DEF Running
  <1> QED BY <1>1, <1>2, <1>3, ReadFields DEF ReadsOn

(* No group changes: the tabs owed stay owed.                              *)
LEMMA OwedStays ==
    ASSUME OwedInv, UNCHANGED groups, path' \in Files, snap'.windows \subseteq Windows,
           owed' \subseteq owed, \A o \in owed' : tab'[o[1]] = None,
           \A s \in Sessions : reserved'[s] \in {None, reserved[s]},
           DOMAIN frame' = Windows, \A w \in Windows : Going(w) => Going(w)',
           ReadsOn, Continues
    PROVE  OwedInv'
  <1>1. GroupTypes'
    BY DEF OwedInv, GroupTypes, ReadsOn
  <1>2. ASSUME NEW g \in Groups, Restored(g)' PROVE Restored(g)
    <2>1. CASE \E t \in Sessions : reserved'[t] = g
      <3>1. PICK t \in Sessions : reserved'[t] = g
        BY <2>1
      <3>2. reserved[t] = g
        BY <3>1, TabsAssumption
      <3> QED BY <3>2 DEF Restored
    <2>2. CASE opening'.phase \in {"launch", "launching"} /\ opening'.target = g
      BY <2>2 DEF Continues, Restored
    <2> QED BY <1>2, <2>1, <2>2 DEF Restored
  <1>3. OwedTabs'
    <2> SUFFICES ASSUME NEW o \in owed'
                 PROVE  /\ o[1] \in Sessions /\ o[2] \in Groups
                        /\ tab'[o[1]] = None /\ reserved'[o[1]] \in {None, o[2]} /\ groups'[o[2]] # None
                        /\ o[2] \in Known(groups') => OwedBy(o[1], o[2])'
      BY DEF OwedTabs
    <2>1. /\ o \in owed /\ o[1] \in Sessions /\ o[2] \in Groups
          /\ reserved[o[1]] \in {None, o[2]} /\ groups[o[2]] # None
          /\ o[2] \in Known(groups) => OwedBy(o[1], o[2])
      BY DEF OwedInv, OwedTabs
    <2>2. ASSUME o[2] \in Known(groups') PROVE OwedBy(o[1], o[2])'
      <3>1. groups[o[2]].window \in Windows
        BY <2>1, <2>2 DEF OwedInv, GroupTypes, Known, SavedGroup
      <3>2. OwedBy(o[1], o[2])
        BY <2>1, <2>2
      <3> QED BY <1>2, <2>1, <3>1, <3>2 DEF OwedBy, Keeps, ReadsOn
    <2> QED BY <2>1, <2>2
  <1> QED BY <1>1, <1>3 DEF OwedInv, Continues

(* Neither a tab nor a launch changes.                                     *)
LEMMA OwedQuiet ==
    ASSUME OwedInv, OpeningInv, UNCHANGED <<tab, frame, path, snap, groups, reserved, owed>>,
           read' \in {read, Began, NoRead}, opening' \in {opening, Idle, Threw, Answered(opening)}
    PROVE  OwedInv'
  <1>1. ReadsOn /\ Continues
    BY ReadGoesOn, OpeningGoesOn
  <1>2. /\ path' \in Files /\ snap'.windows \subseteq Windows /\ DOMAIN frame' = Windows
        /\ \A o \in owed' : tab'[o[1]] = None
    BY DEF OwedInv, GroupTypes, OwedTabs
  <1>3. \A w : Going(w) => Going(w)'
    BY DEF Going
  <1> QED BY <1>1, <1>2, <1>3, OwedStays

(* Terminal and the user open and close tabs and windows.                  *)
LEMMA TerminalOwes ==
    ASSUME OwedInv, OpeningInv, HeldInv, Terminal, opening.phase # "answered"
    PROVE  OwedInv'
  <1>1. UNCHANGED <<path, snap, read, groups, reserved, opening>>
    BY DEF Terminal, Appears, FailsToStart, UserOpens, CloseTab, TabEnds, CloseWindow, WindowEnds, monitor
  <1>2. ReadsOn /\ path' \in Files /\ snap'.windows \subseteq Windows
    BY <1>1, ReadGoesOn DEF OwedInv, GroupTypes
  <1>3. DOMAIN tab = Sessions /\ DOMAIN frame = Windows /\ OwedTabs
    BY DEF HeldInv, TabShape, OwedInv, GroupTypes
  <1>4. ASSUME owed' \subseteq owed, \A o \in owed' : tab'[o[1]] = None, DOMAIN frame' = Windows,
               \A w \in Windows : Going(w) => Going(w)'
        PROVE  OwedInv'
    <2>1. Continues
      BY <1>1, <1>4, OpeningGoesOn
    <2> QED BY <1>1, <1>2, <1>4, <2>1, OwedStays
  <1>5. ASSUME NEW s \in Sessions, Appears(s) PROVE OwedInv'
    <2>1. owed' = {o \in owed : o[1] # s}
      BY <1>5 DEF Appears
    <2>2. CASE UNCHANGED <<tab, frame>>
      BY <1>3, <1>4, <2>1, <2>2 DEF OwedTabs, Going
    <2>3. ASSUME NEW w \in Landing(starting[s]), tab' = [tab EXCEPT ![s] = w],
                 frame' = [frame EXCEPT ![w] = "open"]
          PROVE  OwedInv'
      <3>1. w \in Windows /\ frame[w] \in {"open", "new"}
        BY <2>3 DEF Landing, OpenWindows
      <3>2. DOMAIN frame' = Windows /\ \A x \in Windows : Going(x) => Going(x)'
        BY <1>3, <2>3, <3>1 DEF Going
      <3>3. \A o \in owed' : tab'[o[1]] = None
        BY <1>3, <2>1, <2>3 DEF OwedTabs
      <3> QED BY <1>4, <2>1, <3>2, <3>3
    <2> QED BY <1>5, <2>2, <2>3 DEF Appears
  <1>6. ASSUME NEW s \in Sessions, CloseTab(s) PROVE OwedInv'
    <2>1. /\ owed' = owed /\ tab' = [tab EXCEPT ![s] = None] /\ tab[s] \in OpenWindows
          /\ frame' \in {frame, [frame EXCEPT ![tab[s]] = "gone"]}
      BY <1>6 DEF CloseTab
    <2>2. DOMAIN frame' = Windows /\ \A x \in Windows : Going(x) => Going(x)'
      BY <1>3, <2>1 DEF Going
    <2>3. \A o \in owed' : tab'[o[1]] = None
      BY <1>3, <2>1 DEF OwedTabs
    <2> QED BY <1>4, <2>1, <2>2, <2>3
  <1>7. ASSUME NEW s \in Sessions, TabEnds(s) PROVE OwedInv'
    <2> DEFINE w == tab[s]
               of == {g \in Known(groups) : groups[g].window = w /\ s \in groups[g].members /\ ~BeingRestored(s, g)}
    <2>1. /\ tab[s] # None /\ frame[w] = "dying" /\ UNCHANGED frame
          /\ tab' = [tab EXCEPT ![s] = None] /\ owed' = owed \cup {<<s, g>> : g \in of}
      BY <1>7 DEF TabEnds
    <2>2. \A g : UNCHANGED Restored(g) /\ \A x : UNCHANGED Going(x)
      BY <1>1, <2>1 DEF Restored, Going
    <2>3. ASSUME NEW o \in owed
          PROVE  /\ o[1] \in Sessions /\ o[2] \in Groups
                 /\ tab'[o[1]] = None /\ reserved'[o[1]] \in {None, o[2]} /\ groups'[o[2]] # None
                 /\ o[2] \in Known(groups') => OwedBy(o[1], o[2])'
      BY <1>1, <1>3, <2>1, <2>2 DEF OwedTabs, OwedBy, Keeps
    <2>4. ASSUME NEW g \in of, NEW o, o = <<s, g>>
          PROVE  /\ o[1] \in Sessions /\ o[2] \in Groups
                 /\ tab'[o[1]] = None /\ reserved'[o[1]] \in {None, o[2]} /\ groups'[o[2]] # None
                 /\ o[2] \in Known(groups') => OwedBy(o[1], o[2])'
      <3>1. /\ g \in Groups /\ groups[g] # None /\ groups[g].window = w /\ s \in groups[g].members
            /\ reserved[s] = None /\ ~Restored(g)
        BY DEF Known, BeingRestored, Restored
      <3>2. OwedBy(s, g)'
        BY <1>1, <2>1, <2>2, <3>1 DEF OwedBy, Keeps, Going
      <3> QED BY <1>1, <1>3, <2>1, <2>4, <3>1, <3>2
    <2>5. OwedTabs'
      BY <2>1, <2>3, <2>4 DEF OwedTabs
    <2>6. GroupTypes'
      BY <1>1, <2>1 DEF OwedInv, GroupTypes
    <2>7. OpensAll'
      <3>1. OpensAll
        BY DEF OwedInv
      <3>2. ASSUME Whole', opening.group \in Known(groups)
            PROVE  /\ groups[opening.group].members \subseteq opening.todo
                   /\ \A o \in owed' : o[2] = opening.group => o[1] \in opening.todo
        <4>1. Whole /\ opening.phase = "fresh"
          BY <1>1, <3>2 DEF Whole
        <4>2. groups[opening.group].members \subseteq opening.todo
          BY <3>1, <3>2, <4>1 DEF OpensAll
        <4>3. \A o \in owed : o[2] = opening.group => o[1] \in opening.todo
          BY <3>1, <3>2, <4>1 DEF OpensAll
        <4>4. \A g \in of : s \in groups[g].members
          OBVIOUS
        <4> QED BY <2>1, <4>2, <4>3, <4>4
      <3> QED BY <1>1, <3>1, <3>2 DEF OpensAll
    <2> QED BY <2>5, <2>6, <2>7 DEF OwedInv
  <1>8. CASE \/ \E s \in Sessions : FailsToStart(s) \/ UserOpens(s)
             \/ \E w \in Windows : CloseWindow(w) \/ WindowEnds(w)
    <2>1. UNCHANGED <<tab, owed>>
      BY <1>8 DEF FailsToStart, UserOpens, CloseWindow, WindowEnds
    <2>2. frame' = frame \/ \E w \in Windows : frame' \in {[frame EXCEPT ![w] = "dying"], [frame EXCEPT ![w] = "gone"]}
      BY <1>8 DEF FailsToStart, UserOpens, CloseWindow, WindowEnds
    <2>3. DOMAIN frame' = Windows /\ \A x \in Windows : Going(x) => Going(x)'
      BY <1>3, <2>2 DEF Going
    <2> QED BY <1>3, <1>4, <2>1, <2>3 DEF OwedTabs
  <1> QED BY <1>5, <1>6, <1>7, <1>8 DEF Terminal

(* openGroup decides: into the group's own window it opens all of its tabs *)
(* that are not open, so those owed are pending.                           *)
LEMMA PlanOwes ==
    ASSUME OwedInv, OpeningInv, HeldInv, PlanLaunches
    PROVE  OwedInv'
  <1>1. opening.phase = "answered" /\ UNCHANGED <<tab, frame, path, snap, read, owed>>
    BY DEF PlanLaunches, world
  <1>2. DOMAIN opening = OpenFields /\ opening.group \in Groups
    BY <1>1, OpenInProgress DEF OpeningInv, OpenPhases
  <1>3. CASE opening' = Threw /\ UNCHANGED <<groups, reserved, held>>
    BY <1>1, <1>3, OwedQuiet
  <1>4. ASSUME ~(opening' = Threw /\ UNCHANGED <<groups, reserved, held>>)
        PROVE  OwedInv'
    <2> DEFINE g == opening.group
               own == opening.required = None /\ ~opening.only /\ opening.todo \cap snap.sessions = {}
    <2>1. PICK late \in SUBSET {s \in Sessions : reserved[s] # None} :
            LET res == [s \in Sessions |-> IF s \in late THEN None ELSE reserved[s]]
                missing == Missing(opening.todo, res)
            IN /\ reserved' = res
               /\ groups' = IF missing # {} /\ ~opening.only /\ g \in Known(groups)
                              THEN [groups EXCEPT ![g].pending = @ \cup missing] ELSE groups
               /\ opening' = IF missing = {} THEN Idle
                             ELSE [opening EXCEPT !.phase = "launch", !.todo = missing,
                                     !.target = IF own THEN g ELSE "latest"]
      BY <1>4 DEF PlanLaunches
    <2>2. PICK missing :
             /\ missing = Missing(opening.todo, reserved')
             /\ groups' = IF missing # {} /\ ~opening.only /\ g \in Known(groups)
                            THEN [groups EXCEPT ![g].pending = @ \cup missing] ELSE groups
             /\ opening' = IF missing = {} THEN Idle
                           ELSE [opening EXCEPT !.phase = "launch", !.todo = missing,
                                   !.target = IF own THEN g ELSE "latest"]
      BY <2>1
    <2>3. /\ missing \subseteq Sessions
          /\ \A s \in Sessions : s \in missing <=> s \in opening.todo /\ s \notin snap.sessions /\ reserved'[s] = None
      BY <2>2 DEF Missing
    <2>4. \A s \in Sessions : reserved'[s] \in {None, reserved[s]}
      BY <2>1
    <2>5. GroupTypes /\ OwedTabs /\ OpensAll
      BY DEF OwedInv
    <2>6. /\ groups' \in [Groups -> {None, Deleted} \cup SavedGroup]
          /\ Known(groups') = Known(groups)
          /\ \A x \in Groups : groups[x] # None => groups'[x] # None
          /\ \A x \in Known(groups) :
               /\ groups'[x].window = groups[x].window /\ groups'[x].members = groups[x].members
               /\ groups[x].pending \subseteq groups'[x].pending
               /\ x = g /\ missing # {} /\ ~opening.only => missing \subseteq groups'[x].pending
      <3>1. CASE missing # {} /\ ~opening.only /\ g \in Known(groups)
        <4>1. groups' = [groups EXCEPT ![g].pending = @ \cup missing]
          BY <2>2, <3>1
        <4>2. groups[g] \in SavedGroup /\ g \in Groups
          BY <2>5, <3>1 DEF GroupTypes, Known
        <4> DEFINE r == [groups[g] EXCEPT !.pending = @ \cup missing]
        <4>3. /\ r \in SavedGroup /\ r.window = groups[g].window /\ r.members = groups[g].members
              /\ r.pending = groups[g].pending \cup missing
          BY <2>3, <4>2 DEF SavedGroup
        <4>4. r \notin {None, Deleted}
          BY <4>3, TabsAssumption
        <4>5. groups' = [groups EXCEPT ![g] = r]
          BY <4>1
        <4> HIDE DEF r
        <4>6. \A x \in Groups : groups'[x] = IF x = g THEN r ELSE groups[x]
          BY <2>5, <4>2, <4>5 DEF GroupTypes
        <4>7. groups' \in [Groups -> {None, Deleted} \cup SavedGroup]
          BY <2>5, <4>3, <4>5 DEF GroupTypes
        <4>8. Known(groups') = Known(groups)
          BY <3>1, <4>4, <4>6 DEF Known
        <4>9. Known(groups) \subseteq Groups
          BY DEF Known
        <4> QED BY <4>3, <4>4, <4>6, <4>7, <4>8, <4>9
      <3>2. CASE ~(missing # {} /\ ~opening.only /\ g \in Known(groups))
        <4>1. groups' = groups
          BY <2>2, <3>2
        <4> QED BY <2>5, <3>2, <4>1 DEF GroupTypes
      <3> QED BY <3>1, <3>2
    <2>7. GroupTypes'
      BY <1>1, <2>5, <2>6 DEF GroupTypes
    <2>8. /\ opening'.phase \notin {"fresh", "answered", "launching"}
          /\ opening'.phase = "launch" =>
               /\ missing # {} /\ opening'.group = g
               /\ opening'.target = IF own THEN g ELSE "latest"
      <3>1. CASE missing = {}
        BY <2>2, <3>1 DEF Idle
      <3>2. CASE missing # {}
        <4>1. opening' = [opening EXCEPT !.phase = "launch", !.todo = missing,
                            !.target = IF own THEN g ELSE "latest"]
          BY <2>2, <3>2
        <4> HIDE DEF own
        <4>2. opening'.phase = "launch" /\ opening'.group = g /\ opening'.target = IF own THEN g ELSE "latest"
          BY <1>2, <4>1 DEF OpenFields
        <4> QED BY <3>2, <4>2
      <3> QED BY <3>1, <3>2
    <2>9. OpensAll'
      BY <2>8 DEF OpensAll, Whole
    <2>10. OwedTabs'
      <3> SUFFICES ASSUME NEW o \in owed
                   PROVE  /\ o[1] \in Sessions /\ o[2] \in Groups
                          /\ tab'[o[1]] = None /\ reserved'[o[1]] \in {None, o[2]} /\ groups'[o[2]] # None
                          /\ o[2] \in Known(groups') => OwedBy(o[1], o[2])'
        BY <1>1 DEF OwedTabs
      <3>1. /\ o[1] \in Sessions /\ o[2] \in Groups /\ tab[o[1]] = None
            /\ reserved[o[1]] \in {None, o[2]} /\ groups[o[2]] # None
            /\ o[2] \in Known(groups) => OwedBy(o[1], o[2])
        BY <2>5 DEF OwedTabs
      <3>2. ASSUME o[2] \in Known(groups) PROVE OwedBy(o[1], o[2])'
        <4>1. /\ groups'[o[2]].window = groups[o[2]].window /\ groups'[o[2]].members = groups[o[2]].members
              /\ groups[o[2]].pending \subseteq groups'[o[2]].pending
          BY <2>6, <3>2
        <4>2. OwedBy(o[1], o[2])
          BY <3>1, <3>2
        <4>3. CASE Restored(o[2])
          BY <1>1, <4>1, <4>2, <4>3 DEF OwedBy, Keeps, Going
        <4>4. CASE ~Restored(o[2]) /\ Restored(o[2])'
          <5>1. \A t \in Sessions : reserved'[t] # o[2]
            BY <2>4, <3>1, <4>4, TabsAssumption DEF Restored
          <5>2. opening'.phase = "launch" /\ opening'.target = o[2]
            BY <2>8, <4>4, <5>1 DEF Restored
          <5>3. own /\ o[2] = g /\ missing # {}
            BY <2>8, <3>1, <5>2, TabsAssumption
          <5>4. o[1] \in opening.todo
            <6>1. Whole
              BY <1>1, <5>3 DEF Whole
            <6> QED BY <2>5, <3>2, <5>3, <6>1 DEF OpensAll
          <5>5. reserved[o[1]] = None
            BY <3>1, <4>4 DEF Restored
          <5>6. o[1] \in missing
            BY <2>3, <2>4, <3>1, <5>3, <5>4, <5>5
          <5>7. o[1] \in groups'[o[2]].pending
            BY <2>6, <3>2, <5>3, <5>6
          <5>8. o[1] \notin read.seen
            BY <1>1, <2>5, <3>1 DEF HeldInv, AnsweredFresh, Running, GroupTypes
          <5> QED BY <1>1, <4>1, <4>2, <5>7, <5>8 DEF OwedBy, Keeps, Going
        <4>5. CASE ~Restored(o[2])'
          BY <1>1, <4>1, <4>2, <4>5 DEF OwedBy, Keeps, Going
        <4> QED BY <4>3, <4>4, <4>5
      <3> QED BY <1>1, <2>4, <2>6, <3>1, <3>2
    <2> QED BY <2>7, <2>9, <2>10 DEF OwedInv
  <1> QED BY <1>3, <1>4

(* openGroup begins to launch a tab, into its group's window or not: then  *)
(* the tab is owed no more.                                                *)
LEMMA BeginOwes ==
    ASSUME OwedInv, OpeningInv, NEW s \in Sessions, BeginLaunch(s)
    PROVE  OwedInv'
  <1>1. /\ opening.phase = "launch" /\ UNCHANGED <<tab, frame, path, snap, read, groups>>
        /\ owed' = {o \in owed : o[1] # s \/ o[2] = opening.target}
        /\ reserved' = [reserved EXCEPT ![s] = IF opening.target = "latest" THEN "free" ELSE opening.group]
    BY DEF BeginLaunch, world
  <1>2. DOMAIN opening = OpenFields /\ opening.group \in Groups
    BY <1>1, OpenInProgress DEF OpeningInv, OpenPhases
  <1>3. GroupTypes /\ OwedTabs /\ opening.target \in {"latest", opening.group}
    BY <1>1 DEF OwedInv, OpensAll
  <1>4. \A t \in Sessions : reserved'[t] = IF t # s THEN reserved[t]
                            ELSE IF opening.target = "latest" THEN "free" ELSE opening.target
    BY <1>1, <1>3 DEF OpeningInv, Unreserved
  <1>6. GroupTypes'
    BY <1>1, <1>3 DEF GroupTypes
  <1>7. opening'.phase = "launching" /\ opening'.group = opening.group /\ opening'.target = opening.target
    BY <1>2 DEF BeginLaunch, OpenFields
  <1>8. OpensAll'
    BY <1>3, <1>7 DEF OpensAll, Whole
  <1>9. ASSUME NEW g \in Groups, Restored(g)' PROVE Restored(g)
    <2>1. CASE \E t \in Sessions : reserved'[t] = g
      BY <1>1, <1>4, <2>1, TabsAssumption DEF Restored
    <2>2. CASE opening'.target = g
      BY <1>1, <1>7, <2>2 DEF Restored
    <2> QED BY <1>9, <2>1, <2>2 DEF Restored
  <1>10. OwedTabs'
    <2> SUFFICES ASSUME NEW o \in owed'
                 PROVE  /\ o[1] \in Sessions /\ o[2] \in Groups
                        /\ tab'[o[1]] = None /\ reserved'[o[1]] \in {None, o[2]} /\ groups'[o[2]] # None
                        /\ o[2] \in Known(groups') => OwedBy(o[1], o[2])'
      BY DEF OwedTabs
    <2>1. /\ o \in owed /\ o[1] \in Sessions /\ o[2] \in Groups /\ tab[o[1]] = None
          /\ reserved[o[1]] \in {None, o[2]} /\ groups[o[2]] # None
          /\ o[2] \in Known(groups) => OwedBy(o[1], o[2])
      BY <1>1, <1>3 DEF OwedTabs
    <2>2. reserved'[o[1]] \in {None, o[2]}
      BY <1>1, <1>4, <2>1, TabsAssumption
    <2>3. ASSUME o[2] \in Known(groups') PROVE OwedBy(o[1], o[2])'
      BY <1>1, <1>9, <2>1, <2>3 DEF OwedBy, Keeps, Going
    <2> QED BY <1>1, <2>1, <2>2, <2>3
  <1> QED BY <1>6, <1>8, <1>10 DEF OwedInv

(* The launch ends, one way or the other.                                  *)
LEMMA LaunchOwes ==
    ASSUME OwedInv, OpeningInv, NEW s \in Sessions, LaunchTab(s) \/ RefuseLaunch(s)
    PROVE  OwedInv'
  <1>1. /\ opening.phase = "launching" /\ UNCHANGED <<tab, frame, path, snap, groups, owed>>
        /\ read' \in {read, Began}
        /\ \A t \in Sessions : reserved'[t] \in {None, reserved[t]}
    BY DEF LaunchTab, RefuseLaunch, Launching, world, OpeningInv, Unreserved
  <1>2. DOMAIN opening = OpenFields
    BY <1>1, OpenInProgress DEF OpeningInv, OpenPhases
  <1>3. ReadsOn
    BY <1>1, ReadGoesOn
  <1>4. Continues
    <2>1. CASE opening' \in {Idle, Threw}
      BY <1>1, <2>1, OpeningGoesOn
    <2>2. ASSUME NEW p \in {"refresh", "launch"}, NEW rest, opening' = [opening EXCEPT !.todo = rest, !.phase = p]
          PROVE  Continues
      <3>1. opening'.phase = p /\ opening'.group = opening.group /\ opening'.target = opening.target
        BY <1>2, <2>2 DEF OpenFields
      <3> QED BY <1>1, <3>1 DEF Continues, OwedInv, OpensAll, Whole
    <2> QED BY <2>1, <2>2 DEF LaunchTab, RefuseLaunch
  <1>5. \A w : UNCHANGED Going(w)
    BY <1>1 DEF Going
  <1> QED BY <1>1, <1>3, <1>4, <1>5, OwedStays DEF OwedInv, GroupTypes, OwedTabs

(* A snapshot shows windows that are there.                                *)
LEMMA SnapshotWindows ==
    ASSUME NEW p \in BOOLEAN, NEW i \in BOOLEAN, snap.windows \subseteq Windows, DOMAIN snap = SnapFields
    PROVE  Snapshot(p, i).windows \subseteq Windows
  <1>1. Listed \subseteq Windows
    BY DEF Listed
  <1>2. CASE (p /\ i) \/ ~snap.whole
    <2> DEFINE seen == IF p THEN read.seen ELSE {}
               windows == IF i THEN Listed ELSE {}
               at == [s \in Sessions |-> IF s \in seen /\ tab[s] \in windows THEN tab[s] ELSE None]
    <2>1. Snapshot(p, i) = [sessions |-> seen, at |-> at, windows |-> windows, processes |-> p,
                            inventory |-> i, whole |-> p /\ i]
      BY <1>2 DEF Snapshot
    <2> HIDE DEF at, seen
    <2> QED BY <1>1, <2>1
  <1>3. CASE ~((p /\ i) \/ ~snap.whole)
    <2>1. Snapshot(p, i) = [snap EXCEPT !.processes = p, !.inventory = i]
      BY <1>3 DEF Snapshot
    <2> QED BY <2>1 DEF SnapFields
  <1> QED BY <1>2, <1>3

(* A complete read: _syncGroups.                                           *)
LEMMA SyncOwes ==
    ASSUME OwedInv, OpeningInv, HeldInv, read.on, read' = NoRead, opening' = Answered(opening),
           UNCHANGED <<world, path, owed>>, snap' = Snapshot(TRUE, TRUE),
           NEW late, NEW slow, NEW settled \in SUBSET {w \in Windows : Settles(w)},
           SyncGroups(snap', late, slow, settled)
    PROVE  OwedInv'
  <1> DEFINE res == [s \in Sessions |-> IF s \in late THEN None ELSE reserved[s]]
             acc == SyncWindows(snap', closing \ slow, settled, res)
  <1>1. GroupTypes /\ OwedTabs /\ OpensAll
    BY DEF OwedInv
  <1>2. snap'.sessions = read.seen /\ snap'.windows = Listed
    BY DEF Snapshot
  <1>3. Listed \subseteq Windows /\ IsFiniteSet(Listed)
    BY TabsAssumption, FS_Subset DEF Listed
  <1>4. SoFar([groups |-> groups, shrinking |-> shrinking])
    BY <1>1 DEF SoFar, GroupTypes, OwedTabs, OwedBy
  <1>5. \A t \in Sessions : res[t] \in {None, reserved[t]}
    OBVIOUS
  <1> HIDE DEF res
  <1>6. SoFar(acc)
    <2>1. ASSUME NEW w \in snap'.windows, NEW x, SoFar(x)
          PROVE  SoFar(SyncWindow(w, x, {s \in snap'.sessions : PlaceOf(s, snap') = w}, w \in closing \ slow,
                                  w \in settled, res, snap'))
      <3>1. {s \in snap'.sessions : PlaceOf(s, snap') = w} \in SUBSET read.seen
        BY <1>2
      <3>2. w \in settled => Settles(w)
        OBVIOUS
      <3>3. w \in Listed
        BY <1>2, <2>1
      <3> QED BY <1>5, <2>1, <3>1, <3>2, <3>3, SyncedWindow
    <2> QED BY <1>2, <1>3, <1>4, <2>1, SyncedInTurn
  <1>7. groups' = Closed(acc.groups, snap')
    BY DEF SyncGroups, res
  <1> HIDE DEF acc
  <1>8. /\ acc.groups \in [Groups -> {None, Deleted} \cup SavedGroup]
        /\ \A g \in Groups : groups[g] = Deleted => acc.groups[g] = Deleted
        /\ Known(groups) \subseteq Known(acc.groups)
    BY <1>6 DEF SoFar
  <1>9. ASSUME NEW g \in Groups
        PROVE  IF g \notin Known(acc.groups) THEN groups'[g] = acc.groups[g]
               ELSE /\ groups'[g] \in SavedGroup
                    /\ groups'[g].window = acc.groups[g].window /\ groups'[g].members = acc.groups[g].members
                    /\ groups'[g].pending \in {acc.groups[g].pending, acc.groups[g].pending \ read.seen}
    <2> DEFINE closed == acc.groups[g].closed \/ acc.groups[g].window \notin snap'.windows
               r == [acc.groups[g] EXCEPT !.closed = closed,
                       !.pending = IF closed THEN @ \ snap'.sessions ELSE @]
    <2>1. groups'[g] = IF g \notin Known(acc.groups) THEN acc.groups[g] ELSE r
      BY <1>7 DEF Closed
    <2>2. ASSUME g \in Known(acc.groups)
          PROVE  /\ r \in SavedGroup
                 /\ r.window = acc.groups[g].window /\ r.members = acc.groups[g].members
                 /\ r.pending \in {acc.groups[g].pending, acc.groups[g].pending \ read.seen}
      <3>1. acc.groups[g] \in SavedGroup
        BY <1>8, <2>2 DEF Known
      <3>2. closed \in BOOLEAN
        BY <3>1 DEF SavedGroup
      <3> HIDE DEF closed
      <3> QED BY <1>2, <3>1, <3>2 DEF SavedGroup
    <2> HIDE DEF r
    <2> QED BY <2>1, <2>2
  <1>10. groups' \in [Groups -> {None, Deleted} \cup SavedGroup]
    <2>1. \E f : groups' = [g \in Groups |-> f[g]]
      <3>1. PICK gs : gs = acc.groups
        OBVIOUS
      <3> DEFINE r(g) == IF g \notin Known(gs) THEN gs[g]
                         ELSE LET closed == gs[g].closed \/ gs[g].window \notin snap'.windows IN
                              [gs[g] EXCEPT !.closed = closed, !.pending = IF closed THEN @ \ snap'.sessions ELSE @]
      <3>2. groups' = [g \in Groups |-> r(g)]
        BY <1>7, <3>1 DEF Closed
      <3> HIDE DEF r
      <3> WITNESS [g \in Groups |-> r(g)]
      <3> QED BY <3>2
    <2>2. \A g \in Groups : groups'[g] \in {None, Deleted} \cup SavedGroup
      BY <1>8, <1>9
    <2> QED BY <2>1, <2>2
  <1>11. /\ \A g \in Groups : groups[g] = Deleted => groups'[g] = Deleted
         /\ \A g \in Groups : groups[g] # None => groups'[g] # None
         /\ \A g \in Groups : groups[g] # None /\ g \in Known(groups') => g \in Known(groups)
    <2> SUFFICES ASSUME NEW g \in Groups, groups[g] # None
                 PROVE  /\ groups[g] = Deleted => groups'[g] = Deleted
                        /\ groups'[g] # None
                        /\ g \in Known(groups') => g \in Known(groups)
      BY TabsAssumption
    <2>1. CASE groups[g] = Deleted
      BY <1>8, <1>9, <2>1, TabsAssumption DEF Known
    <2>2. CASE groups[g] # Deleted
      <3>1. g \in Known(groups) /\ g \in Known(acc.groups)
        BY <1>8, <2>2 DEF Known
      <3>2. groups'[g] \in SavedGroup
        BY <1>9, <3>1
      <3> QED BY <2>2, <3>1, <3>2, TabsAssumption
    <2> QED BY <2>1, <2>2
  <1>12. \A s \in Sessions : reserved'[s] \in {None, reserved[s]}
    BY SyncReserves
  <1>13. Continues
    <2>1. OpenShape
      BY DEF OpeningInv
    <2>2. CASE opening.phase = "fresh"
      <3>1. DOMAIN opening = OpenFields
        BY <2>1, <2>2, OpenInProgress DEF OpenPhases
      <3>2. opening' = [opening EXCEPT !.phase = "answered"]
        BY <2>2 DEF Answered
      <3>3. /\ opening'.phase = "answered" /\ opening'.group = opening.group /\ opening'.todo = opening.todo
            /\ opening'.only = opening.only /\ opening'.required = opening.required
            /\ opening.group \in Groups
        BY <3>1, <3>2, <2>1, <2>2, OpenInProgress DEF OpenFields, OpenPhases
      <3>4. ASSUME Whole', opening.group \in Known(groups'), NEW o \in owed, o[2] = opening.group
            PROVE  o[1] \in opening.todo
        <4>1. Whole
          BY <2>2, <3>3, <3>4 DEF Whole
        <4>2. opening.group \in Known(groups)
          BY <1>1, <1>11, <3>3, <3>4 DEF OwedTabs
        <4> QED BY <1>1, <3>4, <4>1, <4>2 DEF OpensAll
      <3> QED BY <3>3, <3>4 DEF Continues, OpensAll
    <2>3. CASE opening.phase = "refresh"
      <3>1. opening'.phase = "idle"
        BY <2>3 DEF Answered, Idle
      <3> QED BY <3>1 DEF Continues, OpensAll, Whole
    <2>4. CASE opening.phase \notin {"fresh", "refresh"}
      <3>1. opening' = opening
        BY <2>4 DEF Answered
      <3>2. ASSUME Whole', opening.group \in Known(groups'), NEW o \in owed, o[2] = opening.group
            PROVE  o[1] \in opening.todo
        <4>1. Whole
          BY <3>1, <3>2 DEF Whole
        <4>2. opening.group \in Known(groups)
          BY <1>1, <1>11, <3>2 DEF OwedTabs
        <4> QED BY <1>1, <3>2, <4>1, <4>2 DEF OpensAll
      <3> QED BY <1>1, <2>4, <3>1, <3>2 DEF Continues, OpensAll, Whole
    <2> QED BY <2>2, <2>3, <2>4
  <1>14. ASSUME NEW g \in Groups, Restored(g)' PROVE Restored(g)
    <2>1. CASE \E t \in Sessions : reserved'[t] = g
      BY <1>12, <2>1, TabsAssumption DEF Restored
    <2>2. CASE opening'.phase \in {"launch", "launching"} /\ opening'.target = g
      BY <1>13, <2>2 DEF Restored, Continues
    <2> QED BY <1>14, <2>1, <2>2 DEF Restored
  <1>15. OwedTabs'
    <2> SUFFICES ASSUME NEW o \in owed
                 PROVE  /\ o[1] \in Sessions /\ o[2] \in Groups
                        /\ tab'[o[1]] = None /\ reserved'[o[1]] \in {None, o[2]} /\ groups'[o[2]] # None
                        /\ o[2] \in Known(groups') => OwedBy(o[1], o[2])'
      BY DEF OwedTabs
    <2>1. /\ o[1] \in Sessions /\ o[2] \in Groups /\ tab[o[1]] = None
          /\ reserved[o[1]] \in {None, o[2]} /\ groups[o[2]] # None
          /\ o[2] \in Known(groups) => OwedBy(o[1], o[2])
      BY <1>1 DEF OwedTabs
    <2>2. ASSUME o[2] \in Known(groups') PROVE OwedBy(o[1], o[2])'
      <3>1. o[2] \in Known(groups) /\ OwedBy(o[1], o[2])
        BY <1>11, <2>1, <2>2
      <3>2. /\ Keeps(acc.groups[o[2]], o[1])
            /\ IF Restored(o[2]) THEN o[1] \in acc.groups[o[2]].pending
               ELSE acc.groups[o[2]].window = groups[o[2]].window
        BY <1>6, <3>1 DEF SoFar
      <3>3. /\ groups'[o[2]].window = acc.groups[o[2]].window /\ groups'[o[2]].members = acc.groups[o[2]].members
            /\ groups'[o[2]].pending \in {acc.groups[o[2]].pending, acc.groups[o[2]].pending \ read.seen}
        BY <1>8, <1>9, <2>1, <3>1
      <3>4. read'.seen = {} /\ \A w : UNCHANGED Going(w)
        BY ReadFields DEF world, Going
      <3>5. CASE Restored(o[2])
        BY <3>1, <3>2, <3>3, <3>4, <3>5 DEF OwedBy, Keeps
      <3>6. CASE ~Restored(o[2])
        <4>1. ~Restored(o[2])'
          BY <1>14, <2>1, <3>6
        <4> QED BY <3>1, <3>2, <3>3, <3>4, <3>6, <4>1 DEF OwedBy, Keeps
      <3> QED BY <3>5, <3>6
    <2> QED BY <1>11, <1>12, <2>1, <2>2 DEF world
  <1>16. GroupTypes'
    BY <1>1, <1>2, <1>3, <1>10, ReadFields DEF GroupTypes, world
  <1> QED BY <1>13, <1>15, <1>16 DEF OwedInv, Continues

(* A read ends, stale, complete or in part.                                *)
LEMMA ReadOwes ==
    ASSUME OwedInv, OpeningInv, HeldInv, ReadEnds
    PROVE  OwedInv'
  <1>1. CASE EndStale
    BY <1>1, OwedQuiet DEF EndStale, world
  <1>2. CASE EndRead
    <2>1. /\ read.on /\ read' = NoRead /\ opening' = Answered(opening)
          /\ UNCHANGED <<world, path, owed>>
      BY <1>2 DEF EndRead
    <2>2. ASSUME snap' = Snapshot(TRUE, TRUE),
                 \E late, slow, settled : /\ settled \in SUBSET {w \in Windows : Settles(w)}
                                          /\ SyncGroups(snap', late, slow, settled)
          PROVE  OwedInv'
      BY <2>1, <2>2, SyncOwes
    <2>3. ASSUME UNCHANGED <<groups, reserved>>,
                 snap' \in {Snapshot(TRUE, FALSE), Snapshot(FALSE, TRUE),
                            [snap EXCEPT !.processes = FALSE, !.inventory = FALSE]}
          PROVE  OwedInv'
      <3>1. snap.windows \subseteq Windows /\ DOMAIN snap = SnapFields /\ path \in Files /\ DOMAIN frame = Windows
        BY DEF OwedInv, GroupTypes, HeldInv, TabShape
      <3>2. [snap EXCEPT !.processes = FALSE, !.inventory = FALSE].windows = snap.windows
        BY <3>1 DEF SnapFields
      <3>3. snap'.windows \subseteq Windows
        BY <2>3, <3>1, <3>2, SnapshotWindows
      <3>4. ReadsOn /\ Continues
        BY <2>1, <2>3, ReadGoesOn, OpeningGoesOn
      <3>5. \A o \in owed : tab'[o[1]] = None
        BY <2>1 DEF OwedInv, OwedTabs, world
      <3>6. \A w : UNCHANGED Going(w)
        BY <2>1 DEF Going, world
      <3> QED BY <2>1, <2>3, <3>1, <3>3, <3>4, <3>5, <3>6, OwedStays DEF world
    <2> QED BY <1>2, <2>2, <2>3 DEF EndRead
  <1> QED BY <1>1, <1>2 DEF ReadEnds

(* A group or a tab is opened by a click, or a group by the check.         *)
LEMMA ClickOwes ==
    ASSUME OwedInv, NEW g \in Known(groups), NEW es, NEW only \in BOOLEAN, NEW required,
           ~only => es = groups[g].members \/ required # None,
           UNCHANGED <<tab, frame, path, snap, groups, reserved, owed>>, OpenGroup(g, es, only, required)
    PROVE  OwedInv'
  <1>1. GroupTypes /\ OwedTabs
    BY DEF OwedInv
  <1>2. /\ opening'.phase = "fresh" /\ opening'.only = only /\ opening'.required = required
        /\ opening'.group = g /\ opening'.todo = es /\ read' \in {read, Began}
    BY DEF OpenGroup, AwaitFresh
  <1>3. ReadsOn
    BY <1>2, ReadGoesOn
  <1>4. Continues
    <2>1. ASSUME Whole'
          PROVE  /\ groups[g].members \subseteq es
                 /\ \A o \in owed : o[2] = g => o[1] \in es
      <3>1. es = groups[g].members
        BY <1>2, <2>1 DEF Whole
      <3> QED BY <1>1, <3>1 DEF OwedTabs, OwedBy, Keeps
    <2> QED BY <1>2, <2>1 DEF Continues, OpensAll
  <1>5. \A w : UNCHANGED Going(w)
    BY DEF Going
  <1> QED BY <1>1, <1>3, <1>4, <1>5, OwedStays DEF GroupTypes, OwedTabs

(* The check opens groups as it needs them.                                *)
LEMMA CheckOwes ==
    ASSUME OwedInv, OpeningInv, 
           \/ CheckDue \/ NextJob \/ BeginCheck \/ GiveUp \/ Compare \/ Opened \/ AskStatus
           \/ StatusArrives \/ NextRow \/ Recover \/ NotClaimed \/ Recovered
    PROVE  OwedInv'
  <1>1. CASE CheckDue \/ NextJob \/ GiveUp \/ AskStatus \/ StatusArrives
    BY <1>1, OwedQuiet DEF CheckDue, NextJob, GiveUp, AskStatus, StatusArrives, tabVars, world, monitor
  <1>2. CASE NextRow \/ Recover \/ NotClaimed \/ Recovered
    BY <1>2, OwedQuiet DEF NextRow, Recover, NotClaimed, Recovered, tabVars, world, monitor
  <1>3. CASE BeginCheck
    BY <1>3, OwedQuiet DEF BeginCheck, AwaitFresh, world
  <1>4. CASE Opened
    BY <1>4, OwedQuiet DEF Opened, world, monitor
  <1>5. CASE Compare
    <2>1. UNCHANGED <<tab, frame, path, snap, groups, reserved, owed>>
      BY <1>5 DEF Compare, world
    <2>2. CASE UNCHANGED <<opening, read>>
      BY <2>1, <2>2, OwedQuiet
    <2>3. ASSUME NEW es, NEW w \in snap.windows, OpenGroup(check.job.group, es, FALSE, w)
          PROVE  OwedInv'
      <3>1. w # None /\ GroupTypes /\ OwedTabs
        BY TabsAssumption DEF OwedInv, GroupTypes
      <3>2. /\ opening'.phase = "fresh" /\ opening'.required = w /\ read' \in {read, Began}
        BY <2>3 DEF OpenGroup, AwaitFresh
      <3>3. ReadsOn
        BY <3>2, ReadGoesOn
      <3>4. Continues
        BY <3>1, <3>2 DEF Continues, OpensAll, Whole
      <3>5. \A x : UNCHANGED Going(x)
        BY <2>1 DEF Going
      <3> QED BY <2>1, <3>1, <3>3, <3>4, <3>5, OwedStays DEF GroupTypes, OwedTabs
    <2> QED BY <1>5, <2>1, <2>2, <2>3 DEF Compare
  <1> QED BY <1>1, <1>2, <1>3, <1>4, <1>5

(* The page's actions close windows and forget groups.                     *)
LEMMA ActsOwe ==
    ASSUME OwedInv, OpeningInv, NEW a \in Acts,
           \/ \E g : SwitchOn(a, g) \/ SwitchOff(a, g) \/ PressX(a, g)
           \/ EnableJob(a) \/ ChooseX(a) \/ AnswerDialog(a) \/ Stop(a) \/ Stopped(a)
           \/ Forget(a) \/ Switched(a) \/ NotSwitched(a)
    PROVE  OwedInv'
  <1>1. CASE \E g : SwitchOn(a, g) \/ SwitchOff(a, g) \/ PressX(a, g)
    BY <1>1, OwedQuiet DEF SwitchOn, SwitchOff, PressX, AwaitFresh, world, monitor
  <1>2. CASE EnableJob(a) \/ ChooseX(a) \/ AnswerDialog(a) \/ Stop(a)
    BY <1>2, OwedQuiet DEF EnableJob, ChooseX, AnswerDialog, Stop, tabVars, world, monitor
  <1>3. CASE Stopped(a)
    <2>1. UNCHANGED <<tab, path, snap, groups, reserved, owed, opening>> /\ read' \in {read, Began}
      BY <1>3 DEF Stopped, AwaitFresh
    <2>2. frame' = frame \/ \E w : frame' = [frame EXCEPT ![w] = "dying"] /\ frame[w] = "open"
      BY <1>3 DEF Stopped, CloseWindowOf
    <2>3. GroupTypes /\ OwedTabs
      BY DEF OwedInv
    <2>4. DOMAIN frame' = Windows /\ \A w \in Windows : Going(w) => Going(w)'
      BY <2>2, <2>3 DEF Going, GroupTypes
    <2>5. ReadsOn /\ Continues
      BY <2>1, ReadGoesOn, OpeningGoesOn
    <2> QED BY <2>1, <2>3, <2>4, <2>5, OwedStays DEF GroupTypes, OwedTabs
  <1>4. CASE Forget(a)
    <2>1. UNCHANGED <<tab, frame, path, snap, read, reserved, owed, opening>>
      BY <1>4 DEF Forget, world
    <2>2. CASE UNCHANGED groups
      BY <2>1, <2>2, OwedQuiet
    <2>3. ASSUME NEW g \in Known(groups), groups' = [groups EXCEPT ![g] = Deleted]
          PROVE  OwedInv'
      <3>1. GroupTypes /\ OwedTabs /\ OpensAll
        BY DEF OwedInv
      <3>2. g \in Groups /\ \A x \in Groups : groups'[x] = IF x = g THEN Deleted ELSE groups[x]
        BY <2>3, <3>1 DEF GroupTypes, Known
      <3>3. \A x \in Groups : x \in Known(groups') => x \in Known(groups) /\ groups'[x] = groups[x]
        BY <3>2 DEF Known
      <3>4. GroupTypes'
        BY <2>1, <2>3, <3>1, <3>2 DEF GroupTypes
      <3>5. \A x : UNCHANGED Going(x) /\ \A y : UNCHANGED Restored(y)
        BY <2>1 DEF Going, Restored
      <3>6. OwedTabs'
        <4> SUFFICES ASSUME NEW o \in owed
                     PROVE  /\ o[1] \in Sessions /\ o[2] \in Groups
                            /\ tab'[o[1]] = None /\ reserved'[o[1]] \in {None, o[2]} /\ groups'[o[2]] # None
                            /\ o[2] \in Known(groups') => OwedBy(o[1], o[2])'
          BY <2>1 DEF OwedTabs
        <4> QED BY <2>1, <3>1, <3>2, <3>3, <3>5, TabsAssumption DEF OwedTabs, OwedBy, Keeps
      <3>7. OpensAll'
        <4>1. ASSUME opening.group \in Known(groups')
              PROVE  opening.group \in Known(groups) /\ groups'[opening.group] = groups[opening.group]
          BY <3>3, <4>1 DEF Known
        <4> QED BY <2>1, <3>1, <4>1 DEF OpensAll, Whole
      <3> QED BY <3>4, <3>6, <3>7 DEF OwedInv
    <2> QED BY <1>4, <2>2, <2>3 DEF Forget, DeleteGroup
  <1>5. CASE Switched(a) \/ NotSwitched(a)
    BY <1>5, OwedQuiet DEF Switched, NotSwitched, tabVars, world, monitor
  <1> QED BY <1>1, <1>2, <1>3, <1>4, <1>5

(* Another file is followed, or the app starts again: nothing is launched. *)
LEMMA FollowOwes ==
    ASSUME OwedInv, OpeningInv, HeldInv, (\E p \in Files : Follow(p)) \/ Restart
    PROVE  OwedInv'
  <1>1. NoSnap.windows = {} /\ GroupTypes /\ OwedTabs
    BY DEF NoSnap, OwedInv
  <1>2. /\ UNCHANGED <<tab, frame, groups, owed>> /\ snap' = NoSnap /\ path' \in Files
        /\ \A s \in Sessions : reserved'[s] \in {None, reserved[s]}
        /\ opening' \in {opening, Idle}
    BY <1>1 DEF Follow, Restart, world, GroupTypes
  <1>3. read' \in {Began, NoRead} \/ (read.on /\ read' = [read EXCEPT !.stale = TRUE])
    BY DEF Follow, Restart
  <1>4. ReadsOn
    <2>1. CASE read' \in {Began, NoRead}
      BY <2>1, ReadGoesOn
    <2>2. CASE read.on /\ read' = [read EXCEPT !.stale = TRUE]
      <3>1. read'.on /\ read'.seen = read.seen
        BY <2>2 DEF HeldInv, TabShape
      <3> QED BY <1>1, <3>1 DEF ReadsOn, GroupTypes
    <2> QED BY <1>3, <2>1, <2>2
  <1>5. Continues
    BY <1>2, OpeningGoesOn
  <1>6. \A w : UNCHANGED Going(w)
    BY <1>2 DEF Going
  <1> QED BY <1>1, <1>2, <1>4, <1>5, <1>6, OwedStays DEF GroupTypes, OwedTabs

(* It holds at the start: no window has closed.                            *)
LEMMA InitOwed == Init => OwedInv
  <1> SUFFICES ASSUME Init PROVE OwedInv
    OBVIOUS
  <1>1. PICK c \in Scenarios, closed \in BOOLEAN :
          LET g == CHOOSE x \in Groups : TRUE
              w == CHOOSE x \in Windows : TRUE
          IN
            /\ groups = [x \in Groups |-> IF x = g /\ c.tabs # {}
                  THEN [window |-> w, file |-> c.file, members |-> c.tabs, closed |-> closed,
                        pending |-> {}]
                  ELSE None]
            /\ frame = [x \in Windows |-> IF x # w \/ c.tabs = {} THEN "new"
                                         ELSE IF c.open THEN "open" ELSE "gone"]
            /\ path = c.file
            /\ snap = IF c.open
                        THEN [sessions |-> c.tabs, at |-> tab, windows |-> {w},
                              processes |-> TRUE, inventory |-> TRUE, whole |-> TRUE]
                        ELSE NoSnap
    BY DEF Init, TabsInit
  <1>2. opening = Idle /\ owed = {} /\ read = NoRead
    BY DEF Init, TabsInit
  <1> DEFINE g == CHOOSE x \in Groups : TRUE
             w == CHOOSE x \in Windows : TRUE
  <1>3. w \in Windows
    BY TabsAssumption
  <1>4. c.tabs \subseteq Sessions /\ c.file \in Files
    BY SchedulesAssumption
  <1>5. /\ groups = [x \in Groups |-> IF x = g /\ c.tabs # {}
                  THEN [window |-> w, file |-> c.file, members |-> c.tabs, closed |-> closed,
                        pending |-> {}]
                  ELSE None]
        /\ path = c.file /\ DOMAIN frame = Windows
        /\ snap = IF c.open
                    THEN [sessions |-> c.tabs, at |-> tab, windows |-> {w},
                          processes |-> TRUE, inventory |-> TRUE, whole |-> TRUE]
                    ELSE NoSnap
    BY <1>1
  <1> HIDE DEF g, w
  <1>6. groups \in [Groups -> {None, Deleted} \cup SavedGroup]
    BY <1>3, <1>4, <1>5 DEF SavedGroup
  <1>7. snap.windows \subseteq Windows
    BY <1>3, <1>5 DEF NoSnap
  <1>8. GroupTypes
    BY <1>2, <1>4, <1>5, <1>6, <1>7, ReadFields DEF GroupTypes
  <1>9. OwedTabs /\ OpensAll
    BY <1>2 DEF OwedTabs, OpensAll, Whole, Idle
  <1> QED BY <1>8, <1>9 DEF OwedInv

(* Every step keeps it.                                                    *)
LEMMA NextOwed == OpeningInv /\ HeldInv /\ OwedInv /\ [Next]_vars => OwedInv'
  <1> SUFFICES ASSUME OpeningInv, HeldInv, OwedInv, [Next]_vars PROVE OwedInv'
    OBVIOUS
  <1>1. CASE UNCHANGED vars
    BY <1>1, OwedQuiet DEF vars, tabVars, world, monitor
  <1>2. CASE Resume
    <2>1. CASE \/ NextJob \/ BeginCheck \/ GiveUp \/ Compare \/ Opened \/ AskStatus \/ NextRow \/ Recover
               \/ NotClaimed
      BY <2>1, CheckOwes
    <2>2. ASSUME NEW a \in Acts, \/ EnableJob(a) \/ ChooseX(a) \/ Stop(a) \/ Stopped(a) \/ Forget(a)
                                 \/ Switched(a) \/ NotSwitched(a)
          PROVE  OwedInv'
      BY <2>2, ActsOwe
    <2>3. CASE StopLaunching
      BY <2>3, OwedQuiet DEF StopLaunching, world, monitor
    <2>4. ASSUME NEW s \in Sessions, BeginIfCurrent(s) PROVE OwedInv'
      BY <2>4, BeginOwes DEF BeginIfCurrent
    <2> QED BY <1>2, <2>1, <2>2, <2>3, <2>4, PlanOwes DEF Resume
  <1>3. CASE ~Ready
    <2>1. opening.phase # "answered"
      BY <1>3 DEF Ready
    <2>2. CASE Terminal
      BY <2>1, <2>2, TerminalOwes
    <2>3. CASE BeginRead
      BY <2>3, OwedQuiet DEF BeginRead, world
    <2>4. ASSUME NEW s \in Sessions, LaunchTab(s) \/ RefuseLaunch(s) \/ TurnFails(s) PROVE OwedInv'
      <3>1. CASE LaunchTab(s)
        BY <3>1, LaunchOwes
      <3>2. CASE RefuseLaunch(s)
        BY <3>2, LaunchOwes
      <3>3. CASE TurnFails(s)
        BY <3>3, OwedQuiet DEF TurnFails, world, monitor
      <3> QED BY <2>4, <3>1, <3>2, <3>3
    <2>5. CASE ReadEnds
      BY <2>5, ReadOwes
    <2>6. CASE Clicked
      <3>1. ASSUME NEW a \in Acts, \/ \E g : SwitchOn(a, g) \/ SwitchOff(a, g) \/ PressX(a, g)
                                   \/ AnswerDialog(a)
            PROVE  OwedInv'
        BY <3>1, ActsOwe
      <3>2. ASSUME NEW g \in Known(groups), NEW es, NEW only \in BOOLEAN, ~only => es = groups[g].members,
                   ClickGroup(g, es, only)
            PROVE  OwedInv'
        BY <3>2, ClickOwes DEF ClickGroup, world
      <3>3. CASE \E g \in Known(groups) :
                   \/ ClickGroup(g, groups[g].members, FALSE)
                   \/ \E s \in groups[g].members : ClickGroup(g, {s}, TRUE)
        BY <3>2, <3>3
      <3> QED BY <2>6, <3>1, <3>3 DEF Clicked
    <2>7. CASE Written \/ \E g \in Groups : Elapses(g)
      BY <2>7, OwedQuiet DEF Written, Elapses, world, monitor
    <2>8. CASE CheckDue \/ StatusArrives \/ Recovered
      BY <2>8, CheckOwes
    <2>9. CASE Restart \/ \E p \in Files : FollowFile(p)
      BY <2>9, FollowOwes DEF FollowFile
    <2> QED BY <1>1, <1>3, <2>2, <2>3, <2>4, <2>5, <2>6, <2>7, <2>8, <2>9 DEF Next
  <1> QED BY <1>1, <1>2, <1>3 DEF Next

(* A tab that went with its window is still in the group: what _syncGroups *)
(* makes of the group keeps it, as one that is to be restored or as one of *)
(* a window that has not settled without it.                               *)
THEOREM SavedTabsAreKept == Spec => []SavedTabsStay
  <1>1. OwedInv => SavedTabsStay
    BY DEF OwedInv, OwedTabs, OwedBy, Keeps, SavedTabsStay
  <1> QED BY <1>1, InitClaims, NextClaims, InitOpening, NextOpening, InitHeld, NextHeld, InitOwed, NextOwed, PTL
          DEF Spec
=============================================================================
