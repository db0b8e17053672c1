------------------------ MODULE WhiteboardReadsProofs ------------------------
(***************************************************************************)
(* Proofs about WhiteboardReads, for any providers, files, sessions,       *)
(* limits of the caches and scenarios.                                     *)
(*                                                                         *)
(* SupersededByNewer is not inductive: that a request is answered once     *)
(* needs to know where each unanswered request is, and that no request is  *)
(* in two places.  RecentsAreCurrent is not inductive either: it needs to  *)
(* know what a load in progress has tracked and seen so far, what is kept  *)
(* in the caches, and in which order the loaders track, read and look at   *)
(* headers.                                                                *)
(*                                                                         *)
(* HistoryIsCurrent rests on two arguments.  One is about the log: after   *)
(* each record a scan holds exactly the latest answers of what it has      *)
(* read, wherever it began (ScanInv, Shown), because a turn that it has    *)
(* not kept is not the latest one any more (LastAnswer, FreshTurn).  The   *)
(* other is about the worker: the caches hold what was true of the disk at *)
(* some time, and stays true of it later (HistoryInv, Later).              *)
(***************************************************************************)
EXTENDS WhiteboardReads, SequenceTheorems, FiniteSetTheorems, WellFoundedInduction, TLAPS

(* The requests the listener has received, 1 to Received. *)
Received == Len(calls) - Len(inbox)

(* Received and not answered: pending, or with the worker. *)
Busy == worker.step # "idle"
Waiting(i) ==
    i \in pending.recent \/ i = pending.history \/ (Busy /\ i = worker.id)

(* A record with these fields, of any type. *)
HasFields(r, fields) == r = [f \in fields |-> r[f]]
WorkerFields == {"step", "id", "path", "size", "tail", "cached", "ok", "texts", "bounded",
                 "sizes", "at"}

(* What the proof needs of the types. *)
Asks == [session : Sessions \cup {Nothing}, provider : Providers, limit : 1 .. 3,
         replies : Nat, superseded : BOOLEAN]

QueueTypes ==
    /\ calls \in Seq(Asks)
    /\ inbox \in Seq(Nat)
    /\ pending \in [recent : SUBSET Nat, history : Nat]
    /\ HasFields(worker, WorkerFields)
    /\ worker.id \in Nat
    /\ HasFields(left, {"bounds", "menu"})
    /\ left.menu.asks \subseteq Sessions \cup {Nothing}
    /\ left.menu.providers \subseteq Providers /\ left.menu.limits \subseteq 1 .. 3

(* Requests arrive in the order of their numbers; each received one is     *)
(* waiting in one place, or has been answered.                             *)
InPlace ==
    /\ Len(inbox) <= Len(calls)
    /\ \A k \in 1 .. Len(inbox) : inbox[k] = Received + k
    /\ pending.recent \subseteq 1 .. Received
    /\ pending.history <= Received
    /\ Busy => worker.id \in 1 .. Received
    /\ Busy => worker.id \notin pending.recent /\ worker.id # pending.history
    /\ \A i \in pending.recent : calls[i].session = Nothing
    /\ pending.history # 0 => calls[pending.history].session # Nothing
    /\ \A i \in 1 .. Len(calls) :
         i > Received \/ Waiting(i) => calls[i].replies = 0 /\ ~calls[i].superseded

QueueInv == QueueTypes /\ InPlace /\ SupersededByNewer

-----------------------------------------------------------------------------
(* A sequence is a function on its indices. *)
LEMMA SeqIsFunction ==
    ASSUME NEW S, NEW q \in Seq(S)
    PROVE  DOMAIN q = 1..Len(q) /\ q \in [1..Len(q) -> S] /\ Len(q) \in Nat
  OBVIOUS

LEMMA FunctionIsSeq ==
    ASSUME NEW S, NEW n \in Nat, NEW f \in [1..n -> S]
    PROVE  f \in Seq(S) /\ Len(f) = n
  OBVIOUS

(* The parts of the invariant, as facts about numbers and sequences. *)
LEMMA QueueFacts ==
    ASSUME QueueInv
    PROVE  /\ QueueTypes /\ InPlace /\ SupersededByNewer
           /\ calls \in Seq(Asks) /\ inbox \in Seq(Nat)
           /\ Len(calls) \in Nat /\ Len(inbox) \in Nat /\ DOMAIN calls = 1 .. Len(calls)
           /\ Received \in Nat /\ Received <= Len(calls)
           /\ Received + Len(inbox) = Len(calls)
           /\ pending.recent \subseteq 1 .. Received
           /\ pending.history \in 0 .. Received
           /\ pending.history # 0 => pending.history \notin pending.recent
  <1>1. QueueTypes /\ InPlace /\ SupersededByNewer
    BY DEF QueueInv
  <1>2. calls \in Seq(Asks) /\ inbox \in Seq(Nat)
    BY <1>1 DEF QueueTypes
  <1>3. Len(calls) \in Nat /\ Len(inbox) \in Nat /\ DOMAIN calls = 1 .. Len(calls)
    BY <1>2, SeqIsFunction
  <1>4. Len(inbox) <= Len(calls)
    BY <1>1 DEF InPlace
  <1>5. /\ Received \in Nat /\ Received <= Len(calls)
        /\ Received + Len(inbox) = Len(calls)
    BY <1>3, <1>4 DEF Received
  <1>6. /\ pending.recent \subseteq 1 .. Received /\ pending.history <= Received
        /\ pending.history # 0 => pending.history \notin pending.recent
    BY <1>1 DEF InPlace
  <1>7. pending.history \in Nat
    BY <1>1 DEF QueueTypes
  <1>8. pending.history \in 0 .. Received
    BY <1>5, <1>6, <1>7
  <1> QED BY <1>1, <1>2, <1>3, <1>5, <1>6, <1>8, Zenon

(* The queues start empty. *)
LEMMA QueueInit == Init => QueueInv
  <1> SUFFICES ASSUME Init PROVE QueueInv
    OBVIOUS
  <1>1. calls = <<>> /\ inbox = <<>> /\ Len(calls) = 0 /\ Len(inbox) = 0
    BY DEF Init
  <1>2. calls \in Seq(Asks) /\ inbox \in Seq(Nat) /\ DOMAIN calls = {}
    BY <1>1
  <1>3. worker = Rested /\ pending = [recent |-> {}, history |-> 0]
    BY DEF Init
  <1>4. HasFields(worker, WorkerFields) /\ worker.id = 0 /\ ~Busy
    BY <1>3 DEF Rested, Busy, HasFields, WorkerFields
  <1>5. PICK s \in Scenarios : left = [bounds |-> s.bounds, menu |-> s.menu]
    BY DEF Init
  <1>a. HasFields(left, {"bounds", "menu"}) /\ left.menu = s.menu
    BY <1>5 DEF HasFields
  <1>b. /\ left.menu.asks \subseteq Sessions \cup {Nothing}
        /\ left.menu.providers \subseteq Providers /\ left.menu.limits \subseteq 1 .. 3
    BY <1>a, ReadsAssumption
  <1>c. pending \in [recent : SUBSET Nat, history : Nat]
    BY <1>3
  <1>6. QueueTypes
    <2>1. worker.id \in Nat
      BY <1>4
    <2> QED BY <1>a, <1>b, <1>c, <1>2, <1>4, <2>1, Zenon DEF QueueTypes
  <1>7. InPlace
    BY <1>1, <1>3, <1>4 DEF InPlace, Received
  <1>8. SupersededByNewer
    BY <1>2 DEF SupersededByNewer
  <1> QED BY <1>6, <1>7, <1>8 DEF QueueInv

(* A step of the world that leaves the queues and the menu alone. *)
Quiet ==
    /\ UNCHANGED queueVars
    /\ worker'.step # "idle" <=> Busy
    /\ worker'.id = worker.id
    /\ HasFields(worker', WorkerFields)
    /\ left'.menu = left.menu /\ HasFields(left', {"bounds", "menu"})

LEMMA QuietKeeps == QueueInv /\ Quiet => QueueInv'
  <1> SUFFICES ASSUME QueueInv, Quiet PROVE QueueInv'
    OBVIOUS
  <1>1. calls' = calls /\ inbox' = inbox /\ pending' = pending
    BY DEF Quiet, queueVars
  <1>2. Busy' = Busy /\ worker'.id = worker.id
    BY DEF Quiet, Busy
  <1>3. QueueTypes'
    BY <1>1 DEF QueueInv, QueueTypes, Quiet
  <1>4. Received' = Received /\ \A i : Waiting(i)' = Waiting(i)
    BY <1>1, <1>2 DEF Received, Waiting
  <1>5. InPlace'
    BY <1>1, <1>2, <1>4 DEF QueueInv, InPlace
  <1>6. SupersededByNewer'
    BY <1>1 DEF QueueInv, SupersededByNewer, SameKind
  <1> QED BY <1>3, <1>5, <1>6 DEF QueueInv

(* Spending a bound leaves the menu. *)
LEMMA SpendKeepsMenu ==
    ASSUME QueueTypes, NEW b, Spend(b)
    PROVE  left'.menu = left.menu /\ HasFields(left', {"bounds", "menu"})
  BY DEF QueueTypes, Spend, HasFields

LEMMA StillLeft ==
    ASSUME QueueTypes, UNCHANGED left
    PROVE  left'.menu = left.menu /\ HasFields(left', {"bounds", "menu"})
  BY DEF QueueTypes

LEMMA StillWorker ==
    ASSUME QueueTypes, UNCHANGED worker
    PROVE  /\ worker'.step # "idle" <=> Busy
           /\ worker'.id = worker.id
           /\ HasFields(worker', WorkerFields)
  BY DEF QueueTypes, Busy

-----------------------------------------------------------------------------
(* The world around the listener: Codex, the providers, the tabs, the clock. *)
LEMMA WorldIsQuiet ==
    ASSUME QueueTypes,
           \/ \E p \in left.menu.providers : TabsAsk(p)
           \/ \E f \in ToSet(Files) : AppendPart(f)
           \/ \E r : \E f \in ToSet(Files) : AppendRecord(f, r)
           \/ \E s \in Sources : Touch(s)
           \/ \E s \in Sessions, f \in ToSet(Files) : CommitRow(s, f) \/ ReplaceDatabase(s, f)
           \/ Tick
    PROVE  Quiet
  <1>1. /\ UNCHANGED <<queueVars, worker>>
        /\ \E b : Spend(b)
    BY DEF TabsAsk, AppendPart, AppendRecord, Write, Touch, CommitRow, ReplaceDatabase, Move, Tick
  <1> QED BY <1>1, SpendKeepsMenu, StillWorker DEF Quiet

(* The loads of recent sessions. *)
LEMMA LoadIsQuiet ==
    ASSUME QueueTypes, NEW a \in Actors, LoadGoesOn(a) \/ LoadFails(a) \/ TabsRead
    PROVE  Quiet
  <1>1. CASE LoadGoesOn(a) \/ TabsRead
    <2>1. UNCHANGED <<queueVars, worker, left>>
      BY <1>1 DEF LoadGoesOn, LoadBegins, LoadTracks, LoadReads, LoadReadsHeader, LoadEnds,
                  TabsRead, readVars
    <2> QED BY <2>1, StillLeft, StillWorker DEF Quiet
  <1>2. CASE LoadFails(a)
    <2>1. UNCHANGED <<queueVars, worker>> /\ Spend("faults")
      BY <1>2 DEF LoadFails
    <2> QED BY <2>1, SpendKeepsMenu, StillWorker DEF Quiet
  <1> QED BY <1>1, <1>2

(* A step of the worker, from a request to its result. *)
LEMMA WorkIsQuiet ==
    ASSUME QueueTypes, Work \/ LocationGone \/ LockedDatabase \/ ReadFails
    PROVE  Quiet
  <1> DEFINE Goes == /\ worker.step # "idle" /\ worker'.step # "idle"
                     /\ worker'.id = worker.id /\ HasFields(worker', WorkerFields)
  <1>0. HasFields(worker, WorkerFields)
    BY DEF QueueTypes
  <1>f. worker' = Failed /\ worker.step # "idle" => Goes
    BY <1>0 DEF Failed, HasFields, WorkerFields
  <1>w. \A t, b : worker' = Answered(t, b) /\ worker.step # "idle" => Goes
    BY <1>0 DEF Answered, HasFields, WorkerFields
  <1>1. CASE ReadRequest
    <2>1. /\ worker.step = "start" /\ UNCHANGED <<queueVars, left>>
          /\ \/ worker' = [worker EXCEPT !.step = "recents"]
             \/ worker' = Failed
             \/ worker' = [worker EXCEPT !.step = "query"]
             \/ worker' = [worker EXCEPT !.step = "stat",
                              !.path = locations[CHOOSE i \in KnownLocations : TRUE].path]
      BY <1>1, Zenon DEF ReadRequest
    <2>2. Goes
      BY <2>1, <1>0, <1>f DEF HasFields, WorkerFields
    <2> QED BY <2>1, <2>2, StillLeft DEF Quiet, Busy
  <1>2. CASE LocationGone
    <2>1. Goes /\ UNCHANGED queueVars /\ Spend("faults")
      BY <1>2, <1>0 DEF LocationGone, HasFields, WorkerFields
    <2> QED BY <2>1, SpendKeepsMenu DEF Quiet, Busy
  <1>3. CASE QueryDatabase
    <2>1. Goes /\ UNCHANGED <<queueVars, left>>
      BY <1>3, <1>0 DEF QueryDatabase, Found, HasFields, WorkerFields
    <2> QED BY <2>1, StillLeft DEF Quiet, Busy
  <1>4. CASE LockedDatabase
    <2>1. Goes /\ UNCHANGED queueVars /\ Spend("locks")
      BY <1>4, <1>0 DEF LockedDatabase, HasFields, WorkerFields
    <2> QED BY <2>1, SpendKeepsMenu DEF Quiet, Busy
  <1>5. CASE ReadSnapshot
    <2>1. Goes /\ UNCHANGED <<queueVars, left>>
      BY <1>5, <1>0 DEF ReadSnapshot, Found, HasFields, WorkerFields
    <2> QED BY <2>1, StillLeft DEF Quiet, Busy
  <1>6. CASE ReadResponsePayload
    <2>1. /\ worker.step = "stat" /\ UNCHANGED <<queueVars, left>>
          /\ \/ \E t, b : worker' = Answered(t, b)
             \/ worker' = [worker EXCEPT !.step = "window", !.tail = InitialTail,
                                         !.size = Size(log[worker.path])]
      BY <1>6, Zenon DEF ReadResponsePayload
    <2>2. Goes
      BY <2>1, <1>0, <1>w DEF HasFields, WorkerFields
    <2> QED BY <2>1, <2>2, StillLeft DEF Quiet, Busy
  <1>7. CASE ReadWindow
    <2>1. /\ worker.step = "window" /\ UNCHANGED <<queueVars, left>>
          /\ \/ worker' = Failed
             \/ \E t, b : worker' = Answered(t, b)
             \/ worker' = [worker EXCEPT !.tail = Min({4 * @, MaxTail})]
      BY <1>7, Zenon DEF ReadWindow
    <2>2. Goes
      BY <2>1, <1>0, <1>f, <1>w DEF HasFields, WorkerFields
    <2> QED BY <2>1, <2>2, StillLeft DEF Quiet, Busy
  <1>8. CASE RecentsRead
    <2>1. Goes /\ UNCHANGED <<queueVars, left>>
      BY <1>8, <1>0 DEF RecentsRead, HasFields, WorkerFields
    <2> QED BY <2>1, StillLeft DEF Quiet, Busy
  <1>9. CASE ReadFails
    <2>1. Goes /\ UNCHANGED queueVars /\ Spend("faults")
      BY <1>9, <1>f DEF ReadFails
    <2> QED BY <2>1, SpendKeepsMenu DEF Quiet, Busy
  <1> QED BY <1>1, <1>2, <1>3, <1>4, <1>5, <1>6, <1>7, <1>8, <1>9 DEF Work

-----------------------------------------------------------------------------
(* The steps of the UI and of the listener.                                *)
LEMMA AskKeeps ==
    ASSUME QueueInv, NEW session \in left.menu.asks, NEW p \in left.menu.providers,
           NEW limit \in left.menu.limits, Ask(session, p, limit)
    PROVE  QueueInv'
  <1> DEFINE new == [session |-> session, provider |-> p, limit |-> limit,
                     replies |-> 0, superseded |-> FALSE]
             n == Len(calls)
  <1>1. QueueTypes /\ InPlace /\ SupersededByNewer
    BY QueueFacts
  <1>a. session \in Sessions \cup {Nothing} /\ p \in Providers /\ limit \in 1 .. 3
    BY <1>1 DEF QueueTypes
  <1>b. new \in Asks
    BY <1>a DEF Asks
  <1>2. /\ calls \in Seq(Asks) /\ inbox \in Seq(Nat) /\ new \in Asks /\ n \in Nat
        /\ Len(inbox) \in Nat
    BY <1>b, QueueFacts
  <1>3. /\ calls' = Append(calls, new) /\ inbox' = Append(inbox, n + 1)
        /\ UNCHANGED <<pending, worker>> /\ Spend("calls")
    BY DEF Ask
  <1>4. calls' \in Seq(Asks) /\ Len(calls') = n + 1 /\ DOMAIN calls' = 1 .. n + 1
    BY <1>2, <1>3
  <1>5. calls'[n + 1] = new /\ \A i \in 1 .. n : calls'[i] = calls[i]
    BY <1>2, <1>3
  <1>6. /\ inbox' \in Seq(Nat) /\ Len(inbox') = Len(inbox) + 1
        /\ inbox'[Len(inbox) + 1] = n + 1
        /\ \A k \in 1 .. Len(inbox) : inbox'[k] = inbox[k]
    BY <1>2, <1>3
  <1>7. Received' = Received /\ \A i : Waiting(i)' = Waiting(i)
    BY <1>2, <1>3, <1>4, <1>6 DEF Received, Waiting, Busy
  <1>8. QueueTypes'
    BY <1>1, <1>3, <1>4, <1>6, SpendKeepsMenu DEF QueueTypes
  <1>9. InPlace'
    <2>0. \A k \in 1 .. Len(inbox) : inbox[k] = Received + k
      BY <1>1 DEF InPlace
    <2>1. /\ Len(inbox') <= Len(calls')
          /\ \A k \in 1 .. Len(inbox') : inbox'[k] = Received' + k
      <3>1. Received + Len(inbox) = n /\ Len(inbox) <= n /\ Received \in Nat
        BY <1>2, QueueFacts
      <3>2. \A k \in 1 .. Len(inbox) + 1 : inbox'[k] = Received + k
        <4> SUFFICES ASSUME NEW k \in 1 .. Len(inbox) + 1 PROVE inbox'[k] = Received + k
          OBVIOUS
        <4>1. CASE k = Len(inbox) + 1
          <5>1. inbox'[k] = n + 1
            BY <1>6, <4>1
          <5>2. n + 1 = Received + k
            <6>1. n \in Nat /\ Len(inbox) \in Nat
              BY <1>2
            <6> HIDE DEF n
            <6> QED BY <3>1, <4>1, <6>1
          <5> QED BY <5>1, <5>2
        <4>2. CASE k \in 1 .. Len(inbox)
          BY <1>6, <2>0, <4>2
        <4> QED BY <1>2, <4>1, <4>2
      <3>3. Len(inbox') <= Len(calls')
        BY <1>2, <1>4, <1>6, <3>1
      <3> QED BY <1>6, <1>7, <3>2, <3>3
    <2>3. /\ \A i \in pending.recent : calls'[i].session = Nothing
          /\ pending.history # 0 => calls'[pending.history].session # Nothing
      <3>1. /\ \A i \in pending.recent : calls[i].session = Nothing /\ i \in 1 .. n
            /\ pending.history # 0 => /\ calls[pending.history].session # Nothing
                                      /\ pending.history \in 1 .. n
        BY <1>1, QueueFacts DEF InPlace
      <3> QED BY <1>5, <3>1
    <2>4. \A i \in 1 .. n + 1 :
            i > Received \/ Waiting(i) => calls'[i].replies = 0 /\ ~calls'[i].superseded
      <3>1. \A i \in 1 .. n :
              i > Received \/ Waiting(i) => calls[i].replies = 0 /\ ~calls[i].superseded
        BY <1>1 DEF InPlace
      <3>2. ASSUME NEW i \in 1 .. n + 1, i > Received \/ Waiting(i)
            PROVE  calls'[i].replies = 0 /\ ~calls'[i].superseded
        <4>1. CASE i = n + 1
          <5>1. calls'[i] = new
            BY <1>5, <4>1
          <5> QED BY <5>1
        <4>2. CASE i # n + 1
          <5>1. i \in 1 .. n
            BY <1>2, <4>2
          <5>2. calls'[i] = calls[i]
            BY <1>5, <5>1
          <5> QED BY <3>1, <3>2, <5>1, <5>2
        <4> QED BY <4>1, <4>2
      <3> QED BY <3>2
    <2> QED BY <1>1, <1>3, <1>4, <1>7, <2>1, <2>3, <2>4 DEF InPlace, Busy
  <1>10. SupersededByNewer'
    <2>1. DOMAIN calls = 1 .. n
      BY <1>2
    <2>2. \A i, j \in 1 .. n : SameKind(calls[i], calls[j]) => SameKind(calls'[i], calls'[j])
      BY <1>5
    <2> SUFFICES ASSUME NEW i \in 1 .. n + 1
                 PROVE  /\ calls'[i].replies <= 1
                        /\ calls'[i].superseded =>
                             \E j \in i + 1 .. n + 1 : SameKind(calls'[i], calls'[j])
      BY <1>4 DEF SupersededByNewer, SameKind
    <2>3. CASE i = n + 1
      BY <1>5, <2>3
    <2>4. CASE i \in 1 .. n
      <3>1. calls[i].replies <= 1
        BY <1>1, <2>1, <2>4 DEF SupersededByNewer
      <3>2. calls[i].superseded => \E j \in i + 1 .. n : SameKind(calls[i], calls[j])
        BY <1>1, <2>1, <2>4 DEF SupersededByNewer
      <3> QED BY <1>2, <1>5, <2>2, <2>4, <3>1, <3>2
    <2> QED BY <1>2, <2>3, <2>4
  <1> QED BY <1>8, <1>9, <1>10 DEF QueueInv

LEMMA StartKeeps == QueueInv /\ StartPending => QueueInv'
  <1> SUFFICES ASSUME QueueInv, StartPending PROVE QueueInv'
    OBVIOUS
  <1>1. QueueTypes /\ InPlace /\ SupersededByNewer /\ ~Busy
    BY QueueFacts DEF StartPending, Busy
  <1>2. calls' = calls /\ left' = left
    BY DEF StartPending
  <1>3. calls \in Seq(Asks) /\ inbox \in Seq(Nat) /\ Len(calls) \in Nat /\ Len(inbox) \in Nat
    BY QueueFacts
  <1>4. /\ Received \in Nat /\ Received <= Len(calls)
        /\ Received + Len(inbox) = Len(calls)
    BY QueueFacts
  <1>a. /\ pending.recent \subseteq 1 .. Received /\ pending.history \in 0 .. Received
        /\ \A k \in 1 .. Len(inbox) : inbox[k] = Received + k
        /\ \A i \in pending.recent : calls[i].session = Nothing
        /\ pending.history # 0 => calls[pending.history].session # Nothing
        /\ \A i \in 1 .. Len(calls) :
             i > Received \/ Waiting(i) => calls[i].replies = 0 /\ ~calls[i].superseded
    BY <1>1, QueueFacts DEF InPlace
  <1>5. \A id \in Nat : Start(id) => /\ worker'.step = "start" /\ worker'.id = id
                                    /\ HasFields(worker', WorkerFields)
    BY DEF Start, Rested, HasFields, WorkerFields
  <1>6. SupersededByNewer'
    BY <1>1, <1>2 DEF SupersededByNewer, SameKind
  <1>7. CASE /\ pending.history # 0 /\ Start(pending.history)
             /\ pending' = [pending EXCEPT !.history = 0] /\ inbox' = inbox
    <2>1. pending.history \in 1 .. Received
      BY <1>a, <1>7
    <2>2. /\ worker'.step = "start" /\ worker'.id = pending.history
          /\ HasFields(worker', WorkerFields)
      BY <1>5, <1>7, <2>1
    <2>3. pending'.history = 0 /\ pending'.recent = pending.recent
      BY <1>1, <1>7 DEF QueueTypes
    <2>4. QueueTypes'
      BY <1>1, <1>2, <1>7, <2>1, <2>2 DEF QueueTypes
    <2>5. Received' = Received /\ Busy'
      BY <1>2, <1>7, <2>2 DEF Received, Busy
    <2>6. pending.history \notin pending.recent
      BY <1>7, QueueFacts
    <2>7. \A i \in 1 .. Len(calls) : Waiting(i)' => Waiting(i)
      BY <2>2, <2>3, <2>5 DEF Waiting
    <2>8. InPlace'
      BY <1>2, <1>3, <1>4, <1>7, <1>a, <2>1, <2>2, <2>3, <2>5, <2>6, <2>7 DEF InPlace
    <2> QED BY <1>6, <2>4, <2>8 DEF QueueInv
  <1>8. CASE /\ pending.history = 0 /\ inbox' = inbox
             /\ \E id \in pending.recent :
                  Start(id) /\ pending' = [pending EXCEPT !.recent = @ \ {id}]
    <2>0. PICK id \in pending.recent :
            Start(id) /\ pending' = [pending EXCEPT !.recent = @ \ {id}]
      BY <1>8
    <2>1. id \in 1 .. Received
      BY <1>1 DEF InPlace
    <2>2. /\ worker'.step = "start" /\ worker'.id = id
          /\ HasFields(worker', WorkerFields)
      BY <1>5, <2>0, <2>1, <1>4
    <2>3. pending'.history = 0 /\ pending'.recent = pending.recent \ {id}
      BY <1>1, <1>8, <2>0 DEF QueueTypes
    <2>4. QueueTypes'
      BY <1>1, <1>2, <1>8, <1>4, <2>0, <2>1, <2>2 DEF QueueTypes
    <2>5. Received' = Received /\ Busy'
      BY <1>2, <1>8, <2>2 DEF Received, Busy
    <2>7. \A i \in 1 .. Len(calls) : Waiting(i)' => Waiting(i)
      BY <2>0, <2>2, <2>3, <2>5 DEF Waiting
    <2>8. InPlace'
      BY <1>2, <1>3, <1>4, <1>8, <1>a, <2>1, <2>2, <2>3, <2>5, <2>7 DEF InPlace
    <2> QED BY <1>6, <2>4, <2>8 DEF QueueInv
  <1>9. CASE /\ pending.history = 0 /\ pending.recent = {} /\ inbox # <<>>
             /\ Start(inbox[1]) /\ inbox' = Tail(inbox) /\ pending' = pending
    <2>1. Len(inbox) >= 1 /\ inbox[1] = Received + 1 /\ Received + 1 <= Len(calls)
      BY <1>3, <1>4, <1>9, <1>a
    <2>2. /\ worker'.step = "start" /\ worker'.id = Received + 1
          /\ HasFields(worker', WorkerFields)
      BY <1>4, <1>5, <1>9, <2>1
    <2>3. /\ inbox' \in Seq(Nat) /\ Len(inbox') = Len(inbox) - 1
          /\ \A k \in 1 .. Len(inbox') : inbox'[k] = inbox[k + 1]
      BY <1>3, <1>9, <2>1
    <2>4. QueueTypes'
      <3>1. worker'.id \in Nat
        BY <1>4, <2>2
      <3> QED BY <1>1, <1>2, <1>9, <2>2, <2>3, <3>1 DEF QueueTypes
    <2>5. Received' = Received + 1 /\ Busy'
      BY <1>2, <1>3, <2>2, <2>3 DEF Received, Busy
    <2>6. \A k \in 1 .. Len(inbox') : inbox'[k] = Received' + k
      BY <1>3, <1>4, <1>a, <2>1, <2>3, <2>5
    <2>7. \A i \in 1 .. Len(calls) : i > Received' \/ Waiting(i)' => i > Received \/ Waiting(i)
      BY <1>4, <1>9, <2>2, <2>5 DEF Waiting
    <2>8. InPlace'
      BY <1>2, <1>3, <1>4, <1>9, <1>a, <2>1, <2>2, <2>3, <2>5, <2>6, <2>7 DEF InPlace
    <2> QED BY <1>6, <2>4, <2>8 DEF QueueInv
  <1> QED BY <1>7, <1>8, <1>9 DEF StartPending

(* What an answer changes of a request. *)
LEMMA Replying ==
    ASSUME NEW c \in Asks, NEW s \in BOOLEAN, NEW d, d = [c EXCEPT !.replies = @ + 1, !.superseded = s]
    PROVE  /\ d \in Asks /\ d.replies = c.replies + 1 /\ d.superseded = s
           /\ d.session = c.session /\ d.provider = c.provider
  <1>1. c.replies + 1 \in Nat
    BY DEF Asks
  <1>2. d = [c EXCEPT !.replies = c.replies + 1, !.superseded = s]
    OBVIOUS
  <1>3. d \in Asks
    BY <1>1, <1>2 DEF Asks
  <1>4. d.replies = c.replies + 1 /\ d.session = c.session /\ d.provider = c.provider
    BY <1>2 DEF Asks
  <1>5. d.superseded = s
    BY <1>2 DEF Asks
  <1> QED BY <1>3, <1>4, <1>5

(* A request waits, and the one of its kind that waited is superseded. *)
LEMMA ReceiveKeeps == QueueInv /\ Receive => QueueInv'
  <1> SUFFICES ASSUME QueueInv, Receive PROVE QueueInv'
    OBVIOUS
  <1> DEFINE n == Len(calls)
             id == inbox[1]
             r == Replace(id)
  <1>1. QueueTypes /\ InPlace /\ SupersededByNewer /\ Busy
    BY QueueFacts DEF Receive, Busy
  <1>2. /\ calls \in Seq(Asks) /\ inbox \in Seq(Nat) /\ n \in Nat /\ Len(inbox) \in Nat
        /\ Received \in Nat /\ Received <= n /\ Received + Len(inbox) = n /\ DOMAIN calls = 1 .. n
    BY QueueFacts
  <1>3. /\ pending.recent \subseteq 1 .. Received /\ pending.history \in 0 .. Received
        /\ worker.id \in 1 .. Received
        /\ worker.id \notin pending.recent /\ worker.id # pending.history
        /\ pending.history # 0 => pending.history \notin pending.recent
        /\ \A k \in 1 .. Len(inbox) : inbox[k] = Received + k
        /\ \A i \in pending.recent : calls[i].session = Nothing
        /\ pending.history # 0 => calls[pending.history].session # Nothing
        /\ \A i \in 1 .. n :
             i > Received \/ Waiting(i) => calls[i].replies = 0 /\ ~calls[i].superseded
    BY <1>1, QueueFacts DEF InPlace
  <1>4. /\ inbox # <<>> /\ inbox' = Tail(inbox) /\ pending' = r.queue
        /\ calls' = [i \in DOMAIN calls |->
                       IF i \in r.replaced THEN Replied(i, TRUE)[i] ELSE calls[i]]
        /\ worker' = worker /\ left' = left
    BY DEF Receive
  <1>5. Len(inbox) >= 1 /\ id = Received + 1 /\ id \in 1 .. n
    <2>1. Len(inbox) >= 1
      BY <1>2, <1>4
    <2>2. 1 \in 1 .. Len(inbox)
      BY <1>2, <2>1
    <2>3. id = Received + 1
      BY <1>3, <2>2
    <2> HIDE DEF id
    <2> QED BY <1>2, <2>1, <2>3
  <1>6. /\ inbox' \in Seq(Nat) /\ Len(inbox') = Len(inbox) - 1
        /\ \A k \in 1 .. Len(inbox') : inbox'[k] = inbox[k + 1]
    BY <1>2, <1>4, <1>5
  <1>7. calls \in [1 .. n -> Asks]
    BY <1>2, SeqIsFunction
  (* What Replace does: the replaced requests waited and are of its kind. *)
  <1>8. /\ pending' \in [recent : SUBSET Nat, history : Nat]
        /\ r.replaced \subseteq pending.recent \cup ({pending.history} \ {0})
        /\ pending'.recent \subseteq (pending.recent \ r.replaced) \cup {id}
        /\ pending'.history \in ({pending.history} \ r.replaced) \cup {id, 0}
        /\ \A i \in r.replaced : SameKind(calls[i], calls[id])
        /\ id \in pending'.recent => calls[id].session = Nothing
        /\ pending'.history = id => calls[id].session # Nothing
    <2>1. pending \in [recent : SUBSET Nat, history : Nat] /\ id \in Nat
      BY <1>1, <1>2, <1>5 DEF QueueTypes
    <2>2. id \notin pending.recent /\ id # pending.history
      BY <1>2, <1>3, <1>5
    <2>3. CASE calls[id].session # Nothing
      <3>1. /\ pending' = [pending EXCEPT !.history = id]
            /\ r.replaced = {pending.history} \ {0}
        BY <1>4, <2>3 DEF Replace
      <3>2. /\ pending' \in [recent : SUBSET Nat, history : Nat]
            /\ pending'.history = id /\ pending'.recent = pending.recent
        BY <2>1, <3>1
      <3>3. \A i \in r.replaced : SameKind(calls[i], calls[id])
        BY <1>3, <2>3, <3>1 DEF SameKind
      <3>4. pending.recent \subseteq pending.recent \ r.replaced
        BY <1>3, <3>1
      <3> QED BY <2>2, <2>3, <3>1, <3>2, <3>3, <3>4
    <2>4. CASE calls[id].session = Nothing
      <3> DEFINE same == {i \in pending.recent : calls[i].provider = calls[id].provider}
      <3>1. /\ pending' = [pending EXCEPT !.recent = (@ \ same) \cup {id}]
            /\ r.replaced = same
        BY <1>4, <2>4 DEF Replace
      <3>2. /\ pending' \in [recent : SUBSET Nat, history : Nat]
            /\ pending'.history = pending.history
            /\ pending'.recent = (pending.recent \ same) \cup {id}
        BY <2>1, <3>1
      <3>3. \A i \in r.replaced : SameKind(calls[i], calls[id])
        BY <1>3, <2>4, <3>1 DEF SameKind
      <3>4. pending.history = 0 \/ pending.history \notin same
        BY <1>3
      <3> QED BY <2>2, <2>4, <3>1, <3>2, <3>3, <3>4
    <2> QED BY <2>3, <2>4
  <1>9. \A i \in r.replaced : i \in 1 .. Received /\ calls[i].replies = 0
    <2>1. \A i \in r.replaced : i \in 1 .. Received
      BY <1>2, <1>3, <1>8
    <2>2. \A i \in r.replaced : i \in 1 .. n /\ Waiting(i)
      BY <1>2, <1>8, <2>1 DEF Waiting
    <2> QED BY <1>3, <2>1, <2>2
  <1>10. \A i \in 1 .. n : calls'[i] = IF i \in r.replaced
                                        THEN [calls[i] EXCEPT !.replies = @ + 1, !.superseded = TRUE]
                                        ELSE calls[i]
    <2>1. \A i \in 1 .. n : Replied(i, TRUE)[i] = [calls[i] EXCEPT !.replies = @ + 1, !.superseded = TRUE]
      BY <1>7 DEF Replied, Asks
    <2> QED BY <1>2, <1>4, <2>1
  <1>11. /\ \A i \in r.replaced : /\ calls'[i].replies = 1 /\ calls'[i].superseded
                                  /\ calls'[i] \in Asks
                                  /\ calls'[i].session = calls[i].session
                                  /\ calls'[i].provider = calls[i].provider
         /\ \A i \in 1 .. n : i \notin r.replaced => calls'[i] = calls[i]
    <2>1. \A i \in r.replaced : i \in 1 .. n /\ calls[i] \in Asks
      BY <1>2, <1>7, <1>9
    <2>2. ASSUME NEW i \in r.replaced
          PROVE  /\ calls'[i].replies = 1 /\ calls'[i].superseded
                 /\ calls'[i] \in Asks
                 /\ calls'[i].session = calls[i].session
                 /\ calls'[i].provider = calls[i].provider
      <3>1. calls'[i] = [calls[i] EXCEPT !.replies = @ + 1, !.superseded = TRUE]
        BY <1>10, <2>1
      <3>2. calls[i] \in Asks /\ calls[i].replies = 0
        BY <1>9, <2>1
      <3>3. /\ calls'[i] \in Asks /\ calls'[i].replies = calls[i].replies + 1
            /\ calls'[i].superseded = TRUE
            /\ calls'[i].session = calls[i].session /\ calls'[i].provider = calls[i].provider
        BY <3>1, <3>2, Replying
      <3>4. calls'[i].replies = 1
        BY <3>2, <3>3
      <3> QED BY <3>3, <3>4, Zenon
    <2>3. \A i \in 1 .. n : i \notin r.replaced => calls'[i] = calls[i]
      BY <1>10
    <2> QED BY <2>2, <2>3, Zenon
  <1>12. /\ calls' \in Seq(Asks) /\ Len(calls') = n /\ DOMAIN calls' = 1 .. n
    <2>1. calls' \in [1 .. n -> Asks]
      BY <1>2, <1>4, <1>7, <1>11
    <2> QED BY <1>2, <2>1, FunctionIsSeq
  <1>13. Received' = Received + 1 /\ Busy'
    BY <1>1, <1>2, <1>4, <1>6, <1>12 DEF Received, Busy
  <1>14. QueueTypes'
    BY <1>1, <1>4, <1>6, <1>8, <1>12 DEF QueueTypes
  <1>15. \A i \in 1 .. n : i > Received' \/ Waiting(i)' =>
           i \notin r.replaced /\ (i > Received \/ Waiting(i))
    <2> SUFFICES ASSUME NEW i \in 1 .. n, i > Received' \/ Waiting(i)'
                 PROVE  i \notin r.replaced /\ (i > Received \/ Waiting(i))
      OBVIOUS
    <2> HIDE DEF r, id
    <2>1. i > Received + 1 \/ i \in pending'.recent \/ i = pending'.history \/ i = worker.id
      BY <1>4, <1>13 DEF Waiting
    <2>2. CASE i > Received
      BY <1>2, <1>9, <2>2
    <2>3. CASE i = worker.id
      <3>1. Waiting(i)
        BY <1>1, <2>3 DEF Waiting
      <3>2. i # 0
        BY <1>2
      <3>3. i \notin r.replaced
        BY <1>3, <1>8, <2>3
      <3> QED BY <3>1, <3>3
    <2>4. CASE i \in pending.recent \ r.replaced \/ (i = pending.history /\ i \notin r.replaced)
      BY <2>4 DEF Waiting
    <2>5. i \in pending'.recent => i \in pending.recent \ r.replaced \/ i = id
      BY <1>8
    <2>6. i = pending'.history => (i = pending.history /\ i \notin r.replaced) \/ i = id
      <3>1. i # 0
        BY <1>2
      <3> QED BY <1>8, <3>1
    <2>7. i > Received + 1 \/ i = id => i > Received
      BY <1>2, <1>5
    <2> QED BY <2>1, <2>2, <2>3, <2>4, <2>5, <2>6, <2>7
  <1>16. InPlace'
    <2>1. ASSUME NEW k \in 1 .. Len(inbox') PROVE inbox'[k] = Received' + k
      <3>1. k \in Nat /\ k + 1 \in 1 .. Len(inbox)
        BY <1>2, <1>6
      <3>2. inbox'[k] = inbox[k + 1] /\ inbox[k + 1] = Received + (k + 1)
        BY <1>3, <1>6, <3>1
      <3>3. Received' = Received + 1
        BY <1>13
      <3> QED BY <1>2, <3>1, <3>2, <3>3
    <2>2. /\ pending'.recent \subseteq 1 .. Received' /\ pending'.history <= Received'
          /\ worker.id \in 1 .. Received'
          /\ worker.id \notin pending'.recent /\ worker.id # pending'.history
      BY <1>2, <1>3, <1>5, <1>8, <1>13
    <2>3. \A i \in 1 .. n : calls'[i].session = calls[i].session
      BY <1>11
    <2>4. /\ \A i \in pending'.recent : calls'[i].session = Nothing
          /\ pending'.history # 0 => calls'[pending'.history].session # Nothing
      <3>1. \A i \in pending'.recent : i \in 1 .. n /\ calls[i].session = Nothing
        BY <1>2, <1>3, <1>5, <1>8
      <3>2. pending'.history # 0 => /\ pending'.history \in 1 .. n
                                    /\ calls[pending'.history].session # Nothing
        BY <1>2, <1>3, <1>5, <1>8
      <3> QED BY <2>3, <3>1, <3>2
    <2>5. \A i \in 1 .. n :
            i > Received' \/ Waiting(i)' => calls'[i].replies = 0 /\ ~calls'[i].superseded
      BY <1>3, <1>11, <1>15
    <2>6. Len(inbox') <= Len(calls')
      BY <1>2, <1>5, <1>6, <1>12
    <2>7. worker' = worker /\ Len(calls') = n
      BY <1>4, <1>12
    <2> HIDE DEF n
    <2> QED BY <2>1, <2>2, <2>4, <2>5, <2>6, <2>7 DEF InPlace
  <1>17. SupersededByNewer'
    <2> SUFFICES ASSUME NEW i \in 1 .. n
                 PROVE  /\ calls'[i].replies <= 1
                        /\ calls'[i].superseded =>
                             \E j \in i + 1 .. n : SameKind(calls'[i], calls'[j])
      BY <1>12 DEF SupersededByNewer, SameKind
    <2>1. \A j \in 1 .. n : SameKind(calls[i], calls[j]) => SameKind(calls'[i], calls'[j])
      BY <1>11 DEF SameKind
    <2>2. CASE i \in r.replaced
      BY <1>2, <1>5, <1>8, <1>9, <1>11, <2>1, <2>2
    <2>3. CASE i \notin r.replaced
      <3>1. calls'[i] = calls[i]
        BY <1>11, <2>3
      <3>2. /\ calls[i].replies <= 1
            /\ calls[i].superseded => \E j \in i + 1 .. n : SameKind(calls[i], calls[j])
        BY <1>1, <1>2 DEF SupersededByNewer
      <3> QED BY <2>1, <3>1, <3>2
    <2> QED BY <2>2, <2>3
  <1> QED BY <1>14, <1>16, <1>17 DEF QueueInv

(* The result of the worker is sent. *)
LEMMA SendKeeps == QueueInv /\ SendReadResult => QueueInv'
  <1> SUFFICES ASSUME QueueInv, SendReadResult PROVE QueueInv'
    OBVIOUS
  <1> DEFINE n == Len(calls)
             id == worker.id
  <1>1. QueueTypes /\ InPlace /\ SupersededByNewer /\ Busy
    BY QueueFacts DEF SendReadResult, Busy
  <1>2. /\ calls \in Seq(Asks) /\ n \in Nat /\ DOMAIN calls = 1 .. n /\ calls \in [1 .. n -> Asks]
        /\ Received \in Nat /\ Received <= n
    BY QueueFacts, SeqIsFunction
  <1>3. /\ id \in 1 .. Received /\ id \notin pending.recent /\ id # pending.history
        /\ calls[id].replies = 0 /\ ~calls[id].superseded
    BY <1>1, <1>2 DEF InPlace, Waiting
  <1>4. /\ calls' = [calls EXCEPT ![id].replies = @ + 1, ![id].superseded = FALSE]
        /\ worker' = Rested /\ UNCHANGED <<inbox, pending, left>>
    BY DEF SendReadResult, Replied
  <1>5. /\ calls' \in [1 .. n -> Asks]
        /\ calls'[id].replies = 1 /\ ~calls'[id].superseded
        /\ \A i \in 1 .. n : /\ calls'[i].session = calls[i].session
                             /\ calls'[i].provider = calls[i].provider
        /\ \A i \in (1 .. n) \ {id} : calls'[i] = calls[i]
    <2>1. id \in 1 .. n /\ calls[id] \in Asks
      BY <1>2, <1>3
    <2>2. calls'[id] = [calls[id] EXCEPT !.replies = @ + 1, !.superseded = FALSE]
      BY <1>2, <1>4, <2>1
    <2>3. /\ calls'[id] \in Asks /\ calls'[id].replies = 1 /\ ~calls'[id].superseded
          /\ calls'[id].session = calls[id].session /\ calls'[id].provider = calls[id].provider
      <3>1. /\ calls'[id] \in Asks /\ calls'[id].replies = calls[id].replies + 1
            /\ calls'[id].superseded = FALSE
            /\ calls'[id].session = calls[id].session /\ calls'[id].provider = calls[id].provider
        BY <2>1, <2>2, Replying
      <3>2. calls'[id].replies = 1
        BY <1>3, <3>1
      <3> QED BY <3>1, <3>2, Zenon
    <2>4. \A i \in (1 .. n) \ {id} : calls'[i] = calls[i]
      BY <1>2, <1>4
    <2>5. calls' \in [1 .. n -> Asks]
      BY <1>2, <1>4, <2>1, <2>3, <2>4
    <2> QED BY <2>3, <2>4, <2>5
  <1>6. calls' \in Seq(Asks) /\ Len(calls') = n /\ DOMAIN calls' = 1 .. n
    BY <1>2, <1>5, FunctionIsSeq
  <1>7. HasFields(worker', WorkerFields) /\ worker'.id \in Nat /\ ~Busy'
    BY <1>4 DEF Rested, Busy, HasFields, WorkerFields
  <1>8. Received' = Received
    BY <1>4, <1>6 DEF Received
  <1>9. QueueTypes'
    BY <1>1, <1>4, <1>6, <1>7 DEF QueueTypes
  <1>10. \A i \in 1 .. n : i > Received' \/ Waiting(i)' =>
           i # id /\ (i > Received \/ Waiting(i))
    BY <1>2, <1>3, <1>4, <1>7, <1>8 DEF Waiting
  <1>11. InPlace'
    <2>1. \A i \in 1 .. n :
            i > Received' \/ Waiting(i)' => calls'[i].replies = 0 /\ ~calls'[i].superseded
      BY <1>1, <1>5, <1>10 DEF InPlace
    <2>2. /\ \A i \in pending.recent : calls'[i].session = Nothing
          /\ pending.history # 0 => calls'[pending.history].session # Nothing
      <3>1. /\ pending.recent \subseteq 1 .. n /\ pending.history \in 0 .. n
            /\ \A i \in pending.recent : calls[i].session = Nothing
            /\ pending.history # 0 => calls[pending.history].session # Nothing
        BY <1>1, <1>2, QueueFacts DEF InPlace
      <3> QED BY <1>5, <3>1
    <2> QED BY <1>1, <1>4, <1>6, <1>7, <1>8, <2>1, <2>2 DEF InPlace
  <1>12. SupersededByNewer'
    <2> SUFFICES ASSUME NEW i \in 1 .. n
                 PROVE  /\ calls'[i].replies <= 1
                        /\ calls'[i].superseded =>
                             \E j \in i + 1 .. n : SameKind(calls'[i], calls'[j])
      BY <1>6 DEF SupersededByNewer, SameKind
    <2>1. \A j \in 1 .. n : SameKind(calls[i], calls[j]) => SameKind(calls'[i], calls'[j])
      BY <1>5 DEF SameKind
    <2>2. /\ calls[i].replies <= 1
          /\ calls[i].superseded => \E j \in i + 1 .. n : SameKind(calls[i], calls[j])
      BY <1>1, <1>2 DEF SupersededByNewer
    <2> QED BY <1>2, <1>5, <2>1, <2>2
  <1> QED BY <1>9, <1>11, <1>12 DEF QueueInv

-----------------------------------------------------------------------------
(* Every step keeps the invariant. *)
LEMMA QueueNext == QueueInv /\ [Next]_vars => QueueInv'
  <1> SUFFICES ASSUME QueueInv, [Next]_vars PROVE QueueInv'
    OBVIOUS
  <1>1. QueueTypes
    BY DEF QueueInv
  <1>2. CASE World
    <2>1. CASE \E session \in left.menu.asks, p \in left.menu.providers,
                  limit \in left.menu.limits : Ask(session, p, limit)
      BY <2>1, AskKeeps
    <2>2. CASE ~\E session \in left.menu.asks, p \in left.menu.providers,
                   limit \in left.menu.limits : Ask(session, p, limit)
      BY <1>1, <1>2, <2>2, WorldIsQuiet, QuietKeeps DEF World
    <2> QED BY <2>1, <2>2
  <1>3. CASE Listen
    BY <1>3, StartKeeps, ReceiveKeeps, SendKeeps DEF Listen
  <1>4. CASE Work \/ Trouble
    BY <1>1, <1>4, WorkIsQuiet, LoadIsQuiet, QuietKeeps DEF Trouble
  <1>5. CASE TabsRead \/ \E a \in Actors : LoadGoesOn(a)
    <2>1. "tabs" \in Actors
      BY DEF Actors
    <2> QED BY <1>1, <1>5, <2>1, LoadIsQuiet, QuietKeeps
  <1>6. CASE UNCHANGED vars
    <2>1. UNCHANGED <<queueVars, worker, left>>
      BY <1>6 DEF vars
    <2> QED BY <1>1, <2>1, StillLeft, StillWorker, QuietKeeps DEF Quiet
  <1> QED BY <1>2, <1>3, <1>4, <1>5, <1>6 DEF Next

(* Every request is answered at most once, and superseded only by a newer  *)
(* one of its kind, whichever requests the UI sends and however long the   *)
(* worker takes: listen and PendingReads.                                  *)
THEOREM RequestsKeepTheirPlaces == Spec => []SupersededByNewer
  <1>1. Init => QueueInv
    BY QueueInit
  <1>2. QueueInv /\ [Next]_vars => QueueInv'
    BY QueueNext
  <1>3. QueueInv => SupersededByNewer
    BY DEF QueueInv
  <1> QED BY <1>1, <1>2, <1>3, PTL DEF Spec

-----------------------------------------------------------------------------
(***************************************************************************)
(* The loaders: what each tracks and reads, and in which order.  Headers are *)
(* looked at by Codex's only.                                              *)
(***************************************************************************)
(* Two sequences, one after the other. *)
LEMMA Joined ==
    ASSUME NEW S, NEW q \in Seq(S), NEW r \in Seq(S)
    PROVE  /\ q \o r \in Seq(S) /\ Len(q) \in Nat /\ Len(r) \in Nat
           /\ Len(q \o r) = Len(q) + Len(r) /\ DOMAIN (q \o r) = 1 .. Len(q) + Len(r)
           /\ \A i \in 1 .. Len(q) : (q \o r)[i] = q[i]
           /\ \A i \in 1 .. Len(r) : (q \o r)[Len(q) + i] = r[i]
  OBVIOUS

(* What a loader does that looks at no header. *)
SourceNames == ToSet(Files) \cup {"db", "wal", "dir"}
PlainSteps(p) == [op : {"track", "read"}, src : {p} \X SourceNames]

LEMMA StepTypes ==
    ASSUME NEW p \in Providers, NEW x \in SourceNames
    PROVE  Track(p, x) \in PlainSteps(p) /\ Read(p, x) \in PlainSteps(p)
  BY DEF Track, Read, PlainSteps

(* The files of a loader, one by one. *)
LEMMA FileTypes ==
    /\ Files \in Seq(STRING) /\ Len(Files) \in Nat /\ DOMAIN Files = 1 .. Len(Files)
    /\ \A i \in 1 .. Len(Files) : Files[i] \in STRING /\ Files[i] \notin {"db", "wal", "dir"}
                                  /\ Files[i] \in ToSet(Files)
  <1>1. Files \in Seq(STRING \ {"db", "wal", "dir"})
    BY RecentAssumption
  <1>2. Len(Files) \in Nat /\ DOMAIN Files = 1 .. Len(Files)
    BY <1>1
  <1>3. \A i \in 1 .. Len(Files) : Files[i] \in STRING \ {"db", "wal", "dir"}
    BY <1>1
  <1>4. Files \in Seq(STRING)
    BY <1>1
  <1> QED BY <1>2, <1>3, <1>4 DEF ToSet

LEMMA PlainLoaders ==
    ASSUME NEW p \in Providers, p # "codex"
    PROVE  Loader[p] \in Seq(PlainSteps(p))
  <1> DEFINE n == Len(Files)
  <1>n. n \in Nat
    BY FileTypes
  <1>1. \A x \in SourceNames : Track(p, x) \in PlainSteps(p) /\ Read(p, x) \in PlainSteps(p)
    BY StepTypes
  <1>2. /\ "db" \in SourceNames /\ "wal" \in SourceNames /\ "dir" \in SourceNames
        /\ \A i \in 1 .. n : Files[i] \in SourceNames
    BY FileTypes DEF SourceNames
  <1>3. TrackDatabase(p) \in Seq(PlainSteps(p)) /\ ReadDatabase(p) \in Seq(PlainSteps(p))
    BY <1>1, <1>2 DEF TrackDatabase, ReadDatabase
  <1>4. ForEachFile(1, LAMBDA f : <<Read(p, f)>>) \in Seq(PlainSteps(p))
    <2>1. \A i \in 1 .. 1 * n : ((i - 1) \div 1) + 1 \in 1 .. n /\ ((i - 1) % 1) + 1 = 1
      BY <1>n
    <2>2. ASSUME NEW i \in 1 .. 1 * n
          PROVE  <<Read(p, Files[((i - 1) \div 1) + 1])>>[((i - 1) % 1) + 1] \in PlainSteps(p)
      <3>1. Read(p, Files[((i - 1) \div 1) + 1]) \in PlainSteps(p)
        BY <1>1, <1>2, <2>1
      <3> QED BY <2>1, <3>1
    <2> QED BY <2>2, <1>n DEF ForEachFile
  <1>5. ForEachFile(1, LAMBDA f : <<Track(p, f)>>) \in Seq(PlainSteps(p))
    <2>1. \A i \in 1 .. 1 * n : ((i - 1) \div 1) + 1 \in 1 .. n /\ ((i - 1) % 1) + 1 = 1
      BY <1>n
    <2>2. ASSUME NEW i \in 1 .. 1 * n
          PROVE  <<Track(p, Files[((i - 1) \div 1) + 1])>>[((i - 1) % 1) + 1] \in PlainSteps(p)
      <3>1. Track(p, Files[((i - 1) \div 1) + 1]) \in PlainSteps(p)
        BY <1>1, <1>2, <2>1
      <3> QED BY <2>1, <3>1
    <2> QED BY <2>2, <1>n DEF ForEachFile
  <1>6. ForEachFile(2, LAMBDA f : <<Track(p, f), Read(p, f)>>) \in Seq(PlainSteps(p))
    <2>1. \A i \in 1 .. 2 * n : ((i - 1) \div 2) + 1 \in 1 .. n /\ ((i - 1) % 2) + 1 \in {1, 2}
      BY <1>n
    <2>2. ASSUME NEW i \in 1 .. 2 * n
          PROVE  <<Track(p, Files[((i - 1) \div 2) + 1]), Read(p, Files[((i - 1) \div 2) + 1])>>
                   [((i - 1) % 2) + 1] \in PlainSteps(p)
      <3>1. /\ Track(p, Files[((i - 1) \div 2) + 1]) \in PlainSteps(p)
            /\ Read(p, Files[((i - 1) \div 2) + 1]) \in PlainSteps(p)
        BY <1>1, <1>2, <2>1
      <3> QED BY <2>1, <3>1
    <2> QED BY <2>2, <1>n DEF ForEachFile
  <1>7. \A q, r \in Seq(PlainSteps(p)) : q \o r \in Seq(PlainSteps(p))
    OBVIOUS
  <1>8. /\ <<Track(p, "dir"), Read(p, "dir")>> \in Seq(PlainSteps(p))
        /\ <<Track(p, "dir"), Track(p, "db"), Read(p, "db"), Read(p, "dir")>> \in Seq(PlainSteps(p))
    BY <1>1, <1>2
  <1>9. /\ ClaudeLoader(p) \in Seq(PlainSteps(p)) /\ QwenLoader(p) \in Seq(PlainSteps(p))
        /\ MuseLoader(p) \in Seq(PlainSteps(p)) /\ KimiLoader(p) \in Seq(PlainSteps(p))
        /\ ZcodeLoader(p) \in Seq(PlainSteps(p)) /\ OpencodeLoader(p) \in Seq(PlainSteps(p))
    BY <1>3, <1>4, <1>5, <1>6, <1>7, <1>8, Zenon
       DEF ClaudeLoader, QwenLoader, MuseLoader, KimiLoader, ZcodeLoader, OpencodeLoader
  <1>10. p \in {"claude", "qwen", "muse", "kimi", "zcode", "opencode"}
    BY RecentAssumption
  <1>11. Loader[p] \in {ClaudeLoader(p), QwenLoader(p), MuseLoader(p), KimiLoader(p), ZcodeLoader(p), OpencodeLoader(p)}
    BY <1>10 DEF Loader
  <1> QED BY <1>9, <1>11

(* The Codex loader: the database, and four steps for each rollout. *)
LEMMA CodexAt ==
    ASSUME "codex" \in Providers
    PROVE  /\ Len(Loader["codex"]) = 5 + 4 * Len(Files) /\ DOMAIN Loader["codex"] = 1 .. Len(Loader["codex"])
           /\ \A i \in 1 .. 5 : Loader["codex"][i].op # "header" 
                                /\ Loader["codex"][i].src[2] \in {"db", "wal", "dir"}
                                /\ Loader["codex"][i].src[1] = "codex"
           /\ \A i \in 6 .. 5 + 4 * Len(Files) :
                LET f == Files[((i - 6) \div 4) + 1] IN
                /\ ((i - 6) \div 4) + 1 \in 1 .. Len(Files)
                /\ Loader["codex"][i] =
                     <<Read("codex", f), Header("codex", f), Track("codex", f), Read("codex", f)>>
                       [((i - 6) % 4) + 1]
  <1> DEFINE n == Len(Files)
             D == TrackDatabase("codex") \o ReadDatabase("codex")
             F == ForEachFile(4, LAMBDA f : <<Read("codex", f), Header("codex", f), Track("codex", f), Read("codex", f)>>)
             Four(f) == <<Read("codex", f), Header("codex", f), Track("codex", f), Read("codex", f)>>
             S == [op : {"track", "read", "header"}, src : {"codex"} \X SourceNames]
  <1>n. n \in Nat
    BY FileTypes
  <1>0. \A f \in SourceNames : Read("codex", f) \in S /\ Header("codex", f) \in S /\ Track("codex", f) \in S
    BY DEF Read, Header, Track
  <1>f. /\ "db" \in SourceNames /\ "wal" \in SourceNames /\ "dir" \in SourceNames
        /\ \A i \in 1 .. n : Files[i] \in SourceNames
    BY FileTypes DEF SourceNames
  <1>1. \A i \in 1 .. 4 * n : ((i - 1) \div 4) + 1 \in 1 .. n /\ ((i - 1) % 4) + 1 \in 1 .. 4
    BY <1>n
  <1>2. F = [i \in 1 .. 4 * n |-> Four(Files[((i - 1) \div 4) + 1])[((i - 1) % 4) + 1]]
    BY DEF ForEachFile
  <1>3. \A f \in SourceNames : \A j \in 1 .. 4 : Four(f)[j] \in S
    BY <1>0
  <1> HIDE DEF Four, F, S
  <1>4. F \in [1 .. 4 * n -> S]
    BY <1>1, <1>2, <1>3, <1>f
  <1>5. F \in Seq(S) /\ Len(F) = 4 * n /\ 4 * n \in Nat
    BY <1>4, <1>n
  <1>6. /\ D \in Seq(S) /\ Len(D) = 5
        /\ \A i \in 1 .. 5 : D[i].op # "header" /\ D[i].src[2] \in {"db", "wal", "dir"} /\ D[i].src[1] = "codex"
    <2> DEFINE T == TrackDatabase("codex")
               R == ReadDatabase("codex")
    <2>1. /\ Len(T) = 3 /\ T[1] = Track("codex", "db") /\ T[2] = Track("codex", "wal")
          /\ T[3] = Track("codex", "dir")
          /\ Len(R) = 2 /\ R[1] = Read("codex", "db") /\ R[2] = Read("codex", "wal")
      BY DEF TrackDatabase, ReadDatabase
    <2>2. T \in Seq(S) /\ R \in Seq(S)
      BY <1>0, <1>f DEF TrackDatabase, ReadDatabase
    <2> HIDE DEF T, R
    <2>3. /\ T \o R \in Seq(S) /\ Len(T \o R) = Len(T) + Len(R)
          /\ \A i \in 1 .. Len(T) : (T \o R)[i] = T[i]
          /\ \A i \in 1 .. Len(R) : (T \o R)[Len(T) + i] = R[i]
      BY <2>2, Joined
    <2>4. /\ Len(T \o R) = 5
          /\ (T \o R)[1] = T[1] /\ (T \o R)[2] = T[2] /\ (T \o R)[3] = T[3]
          /\ (T \o R)[4] = R[1] /\ (T \o R)[5] = R[2]
      <3>1. 3 + 1 = 4 /\ 3 + 2 = 5
        OBVIOUS
      <3> QED BY <2>1, <2>3, <3>1
    <2>5. \A i \in 1 .. 5 : /\ (T \o R)[i].op # "header"
                           /\ (T \o R)[i].src[2] \in {"db", "wal", "dir"}
                           /\ (T \o R)[i].src[1] = "codex"
      BY <2>1, <2>4 DEF Track, Read
    <2> QED BY <2>3, <2>4, <2>5 DEF T, R
  <1>7. Loader["codex"] = D \o F
    BY Zenon DEF Loader, CodexLoader, F
  <1>8. /\ Len(D \o F) = 5 + 4 * n /\ DOMAIN (D \o F) = 1 .. 5 + 4 * n
        /\ \A i \in 1 .. 5 : (D \o F)[i] = D[i]
        /\ \A i \in 6 .. 5 + 4 * n : (D \o F)[i] = F[i - 5]
    <2> HIDE DEF D, n
    <2>0. /\ Len(D \o F) = Len(D) + Len(F) /\ DOMAIN (D \o F) = 1 .. Len(D) + Len(F)
          /\ \A i \in 1 .. Len(D) : (D \o F)[i] = D[i]
          /\ \A i \in 1 .. Len(F) : (D \o F)[Len(D) + i] = F[i]
      <3>1. D \in Seq(S) /\ F \in Seq(S)
        BY <1>5, <1>6
      <3> QED BY <3>1, Joined
    <2>1. /\ Len(D \o F) = 5 + 4 * n /\ DOMAIN (D \o F) = 1 .. 5 + 4 * n
          /\ \A i \in 1 .. 5 : (D \o F)[i] = D[i]
          /\ \A i \in 1 .. 4 * n : (D \o F)[5 + i] = F[i]
      BY <1>5, <1>6, <2>0
    <2>2. ASSUME NEW i \in 6 .. 5 + 4 * n PROVE (D \o F)[i] = F[i - 5]
      <3>1. i - 5 \in 1 .. 4 * n /\ 5 + (i - 5) = i
        BY <1>5
      <3> QED BY <2>1, <3>1
    <2> QED BY <2>1, <2>2
  <1>10. ASSUME NEW i \in 6 .. 5 + 4 * n
         PROVE  /\ ((i - 6) \div 4) + 1 \in 1 .. n
                /\ F[i - 5] = Four(Files[((i - 6) \div 4) + 1])[((i - 6) % 4) + 1]
    <2>1. i - 5 \in 1 .. 4 * n /\ (i - 5) - 1 = i - 6
      BY <1>n
    <2> QED BY <2>1, <1>1, <1>2
  <1> HIDE DEF D, n
  <1>11. \A i \in 6 .. 5 + 4 * n :
            /\ ((i - 6) \div 4) + 1 \in 1 .. n
            /\ (D \o F)[i] = Four(Files[((i - 6) \div 4) + 1])[((i - 6) % 4) + 1]
    BY <1>8, <1>10
  <1>12. \A i \in 1 .. 5 : (D \o F)[i].op # "header" /\ (D \o F)[i].src[2] \in {"db", "wal", "dir"} /\ (D \o F)[i].src[1] = "codex"
    BY <1>8, <1>6
  <1> QED BY <1>7, <1>8, <1>11, <1>12, Zenon DEF Four, n

(* The sources of a loader's steps. *)
LEMMA LoaderSteps ==
    ASSUME NEW p \in Providers
    PROVE  /\ Len(Loader[p]) \in Nat /\ DOMAIN Loader[p] = 1 .. Len(Loader[p])
           /\ \A i \in 1 .. Len(Loader[p]) : Loader[p][i].src \in Sources
  <1>1. Len(Loader[p]) \in Nat /\ DOMAIN Loader[p] = 1 .. Len(Loader[p])
    <2>1. CASE p = "codex"
      BY <2>1, CodexAt, FileTypes
    <2>2. CASE p # "codex"
      BY <2>2, PlainLoaders
    <2> QED BY <2>1, <2>2
  <1> QED BY <1>1 DEF Sources

(* A loader looks at its own provider's sources. *)
LEMMA StepsOfProvider ==
    ASSUME NEW p \in Providers, NEW i \in 1 .. Len(Loader[p])
    PROVE  Loader[p][i].src[1] = p
  <1>1. CASE p = "codex"
    <2> DEFINE r == (i - 6) % 4
               f == Files[((i - 6) \div 4) + 1]
    <2>1. Len(Files) \in Nat /\ Len(Loader[p]) = 5 + 4 * Len(Files)
      BY <1>1, CodexAt, FileTypes
    <2>2. CASE i \in 1 .. 5
      BY <1>1, <2>2, CodexAt
    <2>3. CASE i \in 6 .. 5 + 4 * Len(Files)
      <3>1. /\ Loader[p][i] = <<Read("codex", f), Header("codex", f), Track("codex", f), Read("codex", f)>>[r + 1]
            /\ r + 1 \in {1, 2, 3, 4}
        <4>1. \A j \in 6 .. 5 + 4 * Len(Files) :
                Loader["codex"][j] = <<Read("codex", Files[((j - 6) \div 4) + 1]),
                                       Header("codex", Files[((j - 6) \div 4) + 1]),
                                       Track("codex", Files[((j - 6) \div 4) + 1]),
                                       Read("codex", Files[((j - 6) \div 4) + 1])>>[((j - 6) % 4) + 1]
          BY <1>1, CodexAt
        <4>2. r + 1 \in {1, 2, 3, 4}
          BY <2>1, <2>3
        <4> QED BY <1>1, <2>3, <4>1, <4>2
      <3> HIDE DEF f, r
      <3> QED BY <1>1, <3>1 DEF Read, Header, Track
    <2> QED BY <2>1, <2>2, <2>3
  <1>2. CASE p # "codex"
    <2>1. Loader[p] \in Seq(PlainSteps(p))
      BY <1>2, PlainLoaders
    <2>2. Loader[p][i] \in PlainSteps(p)
      BY <2>1
    <2> QED BY <2>2 DEF PlainSteps
  <1> QED BY <1>1, <1>2

(* Headers are read of rollouts only, which are read before they are       *)
(* tracked; what is passed over for a subagent is its track and its read.  *)
LEMMA HeaderSteps ==
    ASSUME NEW p \in Providers, NEW i \in 1 .. Len(Loader[p]), Loader[p][i].op = "header"
    PROVE  \E f \in ToSet(Files) :
             /\ p = "codex" /\ Loader[p][i].src = <<"codex", f>>
             /\ <<"codex", f>> \in TrackedLate
             /\ i > 1 /\ Loader[p][i - 1] = Read("codex", f)
             /\ i + 2 \in 1 .. Len(Loader[p])
             /\ Loader[p][i + 1] = Track("codex", f) /\ Loader[p][i + 2] = Read("codex", f)
             /\ i + 3 \in 1 .. Len(Loader[p]) => Loader[p][i + 3].op # "header"
  <1> DEFINE L == Loader["codex"]
             n == Len(Files)
             Four(f) == <<Read("codex", f), Header("codex", f), Track("codex", f), Read("codex", f)>>
             k(j) == ((j - 6) \div 4) + 1
  <1>1. p = "codex"
    <2> SUFFICES ASSUME p # "codex" PROVE FALSE
      OBVIOUS
    <2>1. Loader[p] \in Seq(PlainSteps(p))
      BY PlainLoaders
    <2>2. Loader[p][i] \in PlainSteps(p)
      BY <2>1
    <2> QED BY <2>2 DEF PlainSteps
  <1>2. n \in Nat
    BY FileTypes
  <1>3. /\ Len(L) = 5 + 4 * n /\ DOMAIN L = 1 .. Len(L)
        /\ \A j \in 1 .. 5 : L[j].op # "header" /\ L[j].src[2] \in {"db", "wal", "dir"}
        /\ \A j \in 6 .. 5 + 4 * n : k(j) \in 1 .. n /\ L[j] = Four(Files[k(j)])[((j - 6) % 4) + 1]
    BY <1>1, CodexAt
  <1>4. i \in 6 .. 5 + 4 * n
    BY <1>1, <1>2, <1>3
  <1>5. \A j \in 6 .. 5 + 4 * n : (j - 6) % 4 \in 0 .. 3
    BY <1>2
  <1>6. (i - 6) % 4 = 1
    <2> DEFINE f == Files[k(i)]
               r == (i - 6) % 4
    <2>1. L[i] = Four(f)[r + 1] /\ r \in 0 .. 3 /\ L[i].op = "header"
      BY <1>1, <1>3, <1>4, <1>5
    <2> HIDE DEF f, r
    <2>2. /\ Four(f)[1].op = "read" /\ Four(f)[3].op = "track" /\ Four(f)[4].op = "read"
      BY DEF Read, Track
    <2>3. r = 1
      <3>1. r + 1 \in {1, 2, 3, 4}
        BY <2>1
      <3> QED BY <2>1, <2>2, <3>1
    <2> QED BY <2>3 DEF r
  <1> DEFINE f == Files[k(i)]
  <1>7. /\ i - 1 \in 6 .. 5 + 4 * n /\ k(i - 1) = k(i) /\ ((i - 1) - 6) % 4 = 0
        /\ i + 2 \in 6 .. 5 + 4 * n /\ i + 1 \in 6 .. 5 + 4 * n
        /\ k(i + 1) = k(i) /\ k(i + 2) = k(i)
        /\ ((i + 1) - 6) % 4 = 2 /\ ((i + 2) - 6) % 4 = 3 /\ ((i + 3) - 6) % 4 = 0
    BY <1>2, <1>4, <1>6
  <1>8. /\ L[i] = Header("codex", f) /\ L[i - 1] = Read("codex", f)
        /\ L[i + 1] = Track("codex", f) /\ L[i + 2] = Read("codex", f)
    <2>1. /\ L[i] = Four(f)[2] /\ L[i - 1] = Four(f)[1]
          /\ L[i + 1] = Four(f)[3] /\ L[i + 2] = Four(f)[4]
      <3>1. L[i] = Four(f)[1 + 1] /\ L[i - 1] = Four(f)[0 + 1] /\ L[i + 1] = Four(f)[2 + 1] /\ L[i + 2] = Four(f)[3 + 1]
        <4> HIDE DEF Four, k, L
        <4> QED BY <1>3, <1>4, <1>6, <1>7
      <3>2. 1 + 1 = 2 /\ 0 + 1 = 1 /\ 2 + 1 = 3 /\ 3 + 1 = 4
        OBVIOUS
      <3> QED BY <3>1, <3>2
    <2> QED BY <2>1
  <1>9. ASSUME i + 3 \in 1 .. Len(L) PROVE L[i + 3].op # "header"
    <2>1. i + 3 \in 6 .. 5 + 4 * n
      BY <1>3, <1>4, <1>9, <1>2
    <2>2. L[i + 3] = Four(Files[k(i + 3)])[0 + 1]
      <3> HIDE DEF Four, k, L
      <3> QED BY <1>3, <1>7, <2>1
    <2>3. L[i + 3] = Read("codex", Files[k(i + 3)])
      <3>1. 0 + 1 = 1
        OBVIOUS
      <3> QED BY <2>2, <3>1
    <2> QED BY <2>3 DEF Read
  <1>10. f \in ToSet(Files) /\ f \notin {"db", "wal", "dir"} /\ k(i) \in 1 .. n
    <2>1. k(i) \in 1 .. n
      BY <1>3, <1>4
    <2> HIDE DEF k
    <2> QED BY <2>1, FileTypes
  <1>11. ASSUME NEW j \in 1 .. i - 1 PROVE L[j] # [op |-> "track", src |-> <<"codex", f>>]
    <2> SUFFICES ASSUME L[j] = [op |-> "track", src |-> <<"codex", f>>] PROVE FALSE
      OBVIOUS
    <2>1. j \in 6 .. 5 + 4 * n
      <3>1. L[j].src[2] = f
        OBVIOUS
      <3>2. j \notin 1 .. 5
        BY <1>3, <1>10, <3>1
      <3> QED BY <1>2, <1>4, <3>2
    <2> DEFINE g == Files[k(j)]
               r == (j - 6) % 4
    <2>2. L[j] = Four(g)[r + 1] /\ r \in 0 .. 3 /\ k(j) \in 1 .. n
      BY <1>3, <1>5, <2>1
    <2>3. r = 2 /\ g = f
      <3> HIDE DEF g, r, f, L
      <3>1. r + 1 \in {1, 2, 3, 4}
        BY <2>2
      <3>2. /\ Four(g)[1].op = "read" /\ Four(g)[2].op = "header" /\ Four(g)[4].op = "read"
            /\ Four(g)[3] = [op |-> "track", src |-> <<"codex", g>>]
        BY DEF Read, Track, Header
      <3>3. L[j].op = "track" /\ L[j].src[2] = f
        OBVIOUS
      <3>4. r + 1 = 3
        BY <2>2, <3>1, <3>2, <3>3
      <3>5. g = f
        BY <2>2, <3>2, <3>3, <3>4
      <3> QED BY <3>4, <3>5, <2>2
    <2>4. k(j) = k(i)
      <3> HIDE DEF k
      <3> QED BY <1>10, <2>2, <2>3, FileTypes, RecentAssumption
    <2> QED BY <1>4, <1>6, <2>1, <2>3, <2>4
  <1>12. <<"codex", f>> \in TrackedLate
    <2>1. L[i - 1].src = <<"codex", f>> /\ L[i - 1].op = "read" /\ i - 1 \in DOMAIN L
      BY <1>3, <1>7, <1>8, <1>2 DEF Read
    <2>2. <<"codex", f>> \in Sources
      <3>1. i - 1 \in 1 .. Len(Loader["codex"])
        BY <2>1, <1>3
      <3> QED BY <2>1, <3>1, <1>1, LoaderSteps
    <2> HIDE DEF f, k
    <2> QED BY <2>1, <2>2, <1>11 DEF TrackedLate
  <1>13. i > 1 /\ i + 2 \in 1 .. Len(L)
    BY <1>2, <1>3, <1>4, <1>7
  <1>14. L[i].src = <<"codex", f>>
    BY <1>8 DEF Header
  <1> HIDE DEF f, k, n, Four
  <1> QED BY <1>1, <1>8, <1>9, <1>10, <1>12, <1>13, <1>14

-----------------------------------------------------------------------------
(***************************************************************************)
(* What a load knows while it reads and what the caches hold (RecentsInv), *)
(* from which RecentsAreCurrent: the version seen of a source is no older  *)
(* than its stamp, because the stamp was taken first, and a kept result is *)
(* served only while the stamps are those of the files.                    *)
(***************************************************************************)
(* What a stamp or a look at a source tells: the source and its version. *)
Versions == Sources \X Nat

(* The rollouts, when Codex is listed at all. *)
LateFiles == {f \in ToSet(Files) : <<"codex", f>> \in TrackedLate}

(* What was seen of a source is no older than its stamp. *)
Honest(tracked, seen) ==
    \A v \in seen, t \in tracked :
      t[1] = v[1] /\ v[1] \notin TrackedLate => v[2] >= t[2]

KeptResults ==
    {e \in [provider : Providers, tracked : SUBSET Versions, seen : SUBSET Versions,
            listed : SUBSET LateFiles, untold : SUBSET Versions, scanned : Int] :
       Honest(e.tracked, e.seen)}

(* A rollout that is no subagent's for a kept header was empty, unless the *)
(* header could not be read.                                               *)
KeptHeaders ==
    {h \in [src : Sources, version : Nat, told : BOOLEAN, subagent : BOOLEAN] :
       h.told /\ ~h.subagent /\ h.src[2] \in Subagents => h.version = 0}

Caches == recents \in Seq(KeptResults) /\ headers \in Seq(KeptHeaders)

(* A load began after the versions it was asked for. *)
Since(l, disk) == l.from \in [Sources -> Nat] /\ \A s \in Sources : l.from[s] <= disk[s]

Asked(l, disk) ==
    /\ l.provider \in Providers /\ Since(l, disk)
    /\ l.tracked = {} /\ l.seen = {} /\ l.listed = {} /\ l.untold = {} /\ ~l.hit /\ l.stat = 0

(* A source with a stamp, and one that no stamp is taken of any more. *)
HasStamp(tracked, s) == \E t \in tracked : t[1] = s
Full(tracked, s) ==
    \/ Cardinality(tracked) >= MaxWatchedPaths
    \/ IsDirectory(s) /\ Cardinality({t \in tracked : IsDirectory(t[1])}) >= MaxWatchedDirs

(* A source that has been tracked has its stamp, unless there was no room. *)
Looked(l) ==
    \A k \in 1 .. Len(Loader[l.provider]), s \in Sources :
      k < l.at /\ Loader[l.provider][k] = [op |-> "track", src |-> s] /\ s \notin TrackedLate
        => HasStamp(l.tracked, s) \/ Full(l.tracked, s)
Settled(l) ==
    \A v \in l.seen : \/ v[1] \in TrackedLate
                      \/ HasStamp(l.tracked, v[1]) \/ Full(l.tracked, v[1])

(* The header of a rollout is looked at after the rollout was.             *)
HeaderNext(l, disk) ==
    \A k \in 1 .. Len(Loader[l.provider]) :
      k = l.at /\ Loader[l.provider][k].op = "header" =>
        l.from[Loader[l.provider][k].src] <= l.stat /\ l.stat <= disk[Loader[l.provider][k].src]

Types(l) ==
    /\ l.provider \in Providers /\ l.at \in Nat \ {0} /\ l.stat \in Nat /\ ~l.hit
    /\ l.tracked \subseteq Versions /\ IsFiniteSet(l.tracked)
    /\ l.seen \subseteq Versions /\ l.listed \subseteq LateFiles /\ l.untold \subseteq Versions

(* What a load knows while it reads. *)
Reading(l, disk) ==
    /\ Types(l) /\ Since(l, disk)
    /\ \A t \in l.tracked : t[2] <= disk[t[1]]
    /\ \A v \in l.seen : v[2] >= l.from[v[1]]
    /\ \A f \in l.listed \cap Subagents : l.from[<<"codex", f>>] = 0 \/ Untold(l, f)
    /\ Honest(l.tracked, l.seen) /\ Looked(l) /\ Settled(l) /\ HeaderNext(l, disk)

(* RecentsAreCurrent of one load. *)
Excused(l, s) ==
    l.hit /\ l.age < Rediscovery /\ (s \in TrackedLate \/ \A t \in l.tracked : t[1] # s)
Current(l) ==
    /\ \A v \in l.seen : v[2] >= l.from[v[1]] \/ Excused(l, v[1])
    /\ \A f \in l.listed \cap Subagents :
         l.from[<<"codex", f>>] = 0 \/ Untold(l, f) \/ Excused(l, <<"codex", f>>)

LoadFields == {"st", "provider", "at", "stat", "tracked", "seen", "listed", "untold",
               "from", "hit", "age"}

ActorInv(l, disk) ==
    /\ DOMAIN l = LoadFields
    /\ l.st = "asked" => Asked(l, disk)
    /\ l.st = "loading" => Reading(l, disk)
    /\ l.st = "loaded" => Current(l)

(* A log and the version of its file. *)
IsLog(l) == DOMAIN l = {"records", "partial"} /\ (\E S : l.records \in Seq(S)) /\ l.partial \in BOOLEAN
Disk ==
    /\ now \in Int /\ file \in [Sources -> Nat]
    /\ DOMAIN log = ToSet(Files)
    /\ \A f \in ToSet(Files) :
         /\ IsLog(log[f])
         /\ <<"codex", f>> \in Sources => file[<<"codex", f>>] = Size(log[f])

LoadInv == DOMAIN load = Actors /\ \A a \in Actors : ActorInv(load[a], file)

RecentsInv == Disk /\ Caches /\ LoadInv

-----------------------------------------------------------------------------
(* Versions only grow. *)
LEMMA DiskGrows ==
    ASSUME NEW l, NEW d \in [Sources -> Nat], NEW e \in [Sources -> Nat],
           \A s \in Sources : d[s] <= e[s], ActorInv(l, d)
    PROVE  ActorInv(l, e)
  <1>1. ASSUME NEW m \in [Sources -> Nat], \A s \in Sources : m[s] <= d[s]
        PROVE  \A s \in Sources : m[s] <= e[s]
    <2> SUFFICES ASSUME NEW s \in Sources PROVE m[s] <= e[s]
      OBVIOUS
    <2>1. m[s] \in Nat /\ d[s] \in Nat /\ e[s] \in Nat /\ m[s] <= d[s] /\ d[s] <= e[s]
      BY <1>1
    <2> QED BY <2>1
  <1>2. Since(l, d) => Since(l, e)
    BY <1>1 DEF Since
  <1>3. Asked(l, d) => Asked(l, e)
    BY <1>2 DEF Asked
  <1>4. ASSUME Reading(l, d) PROVE Reading(l, e)
    <2>1. Types(l)
      BY <1>4 DEF Reading
    <2>2. ASSUME NEW t \in l.tracked PROVE t[2] <= e[t[1]]
      <3>1. t[1] \in Sources /\ t[2] \in Nat /\ t[2] <= d[t[1]]
        BY <1>4, <2>1 DEF Reading, Types, Versions
      <3>2. d[t[1]] \in Nat /\ e[t[1]] \in Nat /\ d[t[1]] <= e[t[1]]
        BY <3>1
      <3> QED BY <3>1, <3>2
    <2>3. HeaderNext(l, e)
      <3> SUFFICES ASSUME NEW k \in 1 .. Len(Loader[l.provider]), k = l.at,
                          Loader[l.provider][k].op = "header"
                   PROVE  /\ l.from[Loader[l.provider][k].src] <= l.stat
                          /\ l.stat <= e[Loader[l.provider][k].src]
        BY DEF HeaderNext
      <3> DEFINE s == Loader[l.provider][k].src
      <3>1. s \in Sources /\ l.stat \in Nat
        BY <2>1, LoaderSteps DEF Types
      <3>2. l.from[s] <= l.stat /\ l.stat <= d[s]
        BY <1>4 DEF Reading, HeaderNext
      <3> HIDE DEF s
      <3>3. d[s] \in Nat /\ e[s] \in Nat /\ d[s] <= e[s]
        BY <3>1
      <3>4. l.from[s] <= l.stat /\ l.stat <= e[s]
        BY <3>1, <3>2, <3>3
      <3> QED BY <3>4 DEF s
    <2> QED BY <1>2, <1>4, <2>2, <2>3 DEF Reading
  <1> QED BY <1>3, <1>4 DEF ActorInv

(* A load that is none. *)
LEMMA IdleIsFine ==
    ASSUME NEW d
    PROVE  ActorInv(Idle, d) /\ \A p : ActorInv([Idle EXCEPT !.st = "failed", !.provider = p], d)
  BY DEF ActorInv, Idle, LoadFields

(* One is asked for. *)
LEMMA AskedIsFine ==
    ASSUME NEW p \in Providers, file \in [Sources -> Nat]
    PROVE  ActorInv([Idle EXCEPT !.st = "asked", !.provider = p, !.from = file], file)
  BY DEF ActorInv, Idle, LoadFields, Asked, Since

(* Only one actor's load changes. *)
LEMMA OneLoads ==
    ASSUME LoadInv, NEW a \in Actors, DOMAIN load' = Actors, file' = file,
           \A b \in Actors \ {a} : load'[b] = load[b],
           ActorInv(load'[a], file)
    PROVE  LoadInv'
  <1>1. ASSUME NEW b \in Actors PROVE ActorInv(load[b], file)'
    <2> DEFINE l == load[b]
    <2>1. ActorInv(load'[b], file')
      BY DEF LoadInv
    <2>2. Asked(l, file)' <=> Asked(load'[b], file')
      BY DEF Asked, Since
    <2>3. Reading(l, file)' <=> Reading(load'[b], file')
      BY DEF Reading, Types, Since, Looked, Settled, HeaderNext, Honest, HasStamp, Full, Untold
    <2>4. Current(l)' <=> Current(load'[b])
      BY DEF Current, Excused, HasStamp, Full, Untold
    <2> QED BY <2>1, <2>2, <2>3, <2>4 DEF ActorInv
  <1> QED BY <1>1 DEF LoadInv

(* The files change, and no load does. *)
LEMMA FilesGrow ==
    ASSUME LoadInv, file \in [Sources -> Nat], file' \in [Sources -> Nat],
           \A s \in Sources : file[s] <= file'[s], load' = load
    PROVE  LoadInv'
  <1> SUFFICES ASSUME NEW b \in Actors PROVE ActorInv(load'[b], file')
    BY DEF LoadInv, ActorInv, Asked, Reading, Types, Since, Current, Looked, Settled,
       HeaderNext, Honest, Excused, HasStamp, Full, Untold
  <1>1. ActorInv(load[b], file)
    BY DEF LoadInv
  <1> QED BY <1>1, DiskGrows

-----------------------------------------------------------------------------
(* Queues keep what they hold. *)
LEMMA QueuesKeep ==
    ASSUME NEW S, NEW q \in Seq(S)
    PROVE  /\ \A at \in SUBSET DOMAIN q : Without(q, at) \in Seq(S)
           /\ \A n \in Nat : LastOf(q, n) \in Seq(S)
           /\ \A e \in S : Append(q, e) \in Seq(S)
  <1>1. Len(q) \in Nat /\ DOMAIN q = 1 .. Len(q) /\ \A i \in 1 .. Len(q) : q[i] \in S
    OBVIOUS
  <1>2. \A m, n \in Nat : 1 <= m /\ n <= Len(q) => SubSeq(q, m, n) \in Seq(S)
    <2> SUFFICES ASSUME NEW m \in Nat, NEW n \in Nat, 1 <= m, n <= Len(q)
                 PROVE  SubSeq(q, m, n) \in Seq(S)
      OBVIOUS
    <2>1. \A i \in m .. n : q[i] \in S
      BY <1>1
    <2> QED BY <2>1, SubSeqProperties
  <1>3. ASSUME NEW at \in SUBSET DOMAIN q PROVE Without(q, at) \in Seq(S)
    <2>1. CASE at = {}
      BY <2>1 DEF Without
    <2>2. CASE at # {}
      <3> DEFINE i == CHOOSE j \in at : TRUE
      <3>1. i \in 1 .. Len(q)
        BY <1>1, <2>2
      <3> HIDE DEF i
      <3>2. SubSeq(q, 1, i - 1) \in Seq(S) /\ SubSeq(q, i + 1, Len(q)) \in Seq(S)
        BY <1>1, <1>2, <3>1
      <3>3. SubSeq(q, 1, i - 1) \o SubSeq(q, i + 1, Len(q)) \in Seq(S)
        BY <3>2
      <3> QED BY <2>2, <3>3 DEF Without, RemoveAt, i
    <2> QED BY <2>1, <2>2
  <1>4. ASSUME NEW n \in Nat PROVE LastOf(q, n) \in Seq(S)
    <2> DEFINE m == IF Len(q) > n THEN Len(q) - n + 1 ELSE 1
    <2>1. m \in Nat /\ 1 <= m
      BY <1>1
    <2> HIDE DEF m
    <2>2. SubSeq(q, m, Len(q)) \in Seq(S)
      BY <1>1, <1>2, <2>1
    <2> QED BY <2>2 DEF LastOf, m
  <1> QED BY <1>3, <1>4

(* A load begins: it is served a kept result that still is valid. *)
LEMMA BeginKeeps ==
    ASSUME RecentsInv, NEW a \in Actors, BeginLoad(a)
    PROVE  LoadInv' /\ Caches'
  <1> DEFINE l == load[a]
             kept == KeptFor(l.provider)
  <1>1. /\ file \in [Sources -> Nat] /\ now \in Int /\ UNCHANGED <<file, now, headers>>
        /\ recents \in Seq(KeptResults) /\ headers \in Seq(KeptHeaders)
        /\ DOMAIN load = Actors /\ DOMAIN l = LoadFields /\ l.st = "asked" /\ Asked(l, file)
    BY DEF RecentsInv, Disk, Caches, LoadInv, ActorInv, BeginLoad
  <1>2. kept \subseteq DOMAIN recents
    BY DEF KeptFor
  <1>3. Without(recents, kept) \in Seq(KeptResults)
    BY <1>1, <1>2, QueuesKeep
  <1>4. CASE \E i \in kept :
               LET e == recents[i] IN
               /\ Valid(e)
               /\ load' = [load EXCEPT ![a].st = "loaded", ![a].hit = TRUE,
                                      ![a].age = now - e.scanned, ![a].tracked = e.tracked,
                                      ![a].seen = e.seen, ![a].listed = e.listed,
                                      ![a].untold = e.untold]
               /\ recents' = Append(Without(recents, kept), e)
    <2> PICK i \in kept :
               LET e == recents[i] IN
               /\ Valid(e)
               /\ load' = [load EXCEPT ![a].st = "loaded", ![a].hit = TRUE,
                                      ![a].age = now - e.scanned, ![a].tracked = e.tracked,
                                      ![a].seen = e.seen, ![a].listed = e.listed,
                                      ![a].untold = e.untold]
               /\ recents' = Append(Without(recents, kept), e)
      BY <1>4
    <2> DEFINE e == recents[i]
    <2>1. e \in KeptResults
      BY <1>1, <1>2
    <2>2. recents' \in Seq(KeptResults)
      BY <1>3, <2>1, QueuesKeep
    <2>3. /\ DOMAIN load' = Actors /\ \A b \in Actors \ {a} : load'[b] = load[b]
          /\ DOMAIN load'[a] = LoadFields /\ load'[a].st = "loaded" /\ load'[a].hit
          /\ load'[a].age = now - e.scanned /\ load'[a].tracked = e.tracked
          /\ load'[a].seen = e.seen /\ load'[a].listed = e.listed /\ load'[a].from = l.from
      BY <1>1 DEF LoadFields
    <2>4. /\ Honest(e.tracked, e.seen) /\ e.scanned \in Int /\ e.listed \subseteq LateFiles
          /\ e.seen \subseteq Versions /\ e.tracked \subseteq Versions
      BY <2>1 DEF KeptResults
    <2>5. now - e.scanned < Rediscovery /\ \A t \in e.tracked : file[t[1]] = t[2]
      BY DEF Valid, Unchanged
    <2>6. l.from \in [Sources -> Nat] /\ \A s \in Sources : l.from[s] <= file[s]
      BY <1>1 DEF Asked, Since
    <2> DEFINE m == load'[a]
    <2>7. Current(m)
      <3>1. \A s : s \in TrackedLate \/ (\A t \in e.tracked : t[1] # s) => Excused(m, s)
        BY <2>3, <2>5 DEF Excused
      <3>2. ASSUME NEW v \in m.seen PROVE v[2] >= m.from[v[1]] \/ Excused(m, v[1])
        <4> SUFFICES ASSUME v[1] \notin TrackedLate, NEW t \in e.tracked, t[1] = v[1]
                     PROVE  v[2] >= m.from[v[1]]
          BY <3>1
        <4>1. v[2] >= t[2] /\ t[2] = file[v[1]]
          <5>1. v \in e.seen /\ t \in e.tracked
            BY <2>3, <3>2
          <5>2. v[2] >= t[2]
            BY <2>4, <5>1 DEF Honest
          <5>3. file[t[1]] = t[2]
            BY <2>5, <5>1
          <5> QED BY <5>2, <5>3
        <4>2. v[1] \in Sources /\ v[2] \in Nat
          <5>1. v \in Versions
            BY <2>3, <2>4, <3>2
          <5> QED BY <5>1 DEF Versions
        <4>3. m.from[v[1]] <= file[v[1]] /\ m.from[v[1]] \in Nat /\ file[v[1]] \in Nat
          <5>1. m.from = l.from
            BY <2>3
          <5>2. file[v[1]] \in Nat
            BY <1>1, <4>2
          <5>3. l.from[v[1]] \in Nat /\ l.from[v[1]] <= file[v[1]]
            BY <2>6, <4>2
          <5> HIDE DEF m, l, e
          <5> QED BY <5>1, <5>2, <5>3
        <4> QED BY <4>1, <4>2, <4>3
      <3>3. ASSUME NEW f \in m.listed \cap Subagents PROVE Excused(m, <<"codex", f>>)
        BY <2>3, <2>4, <3>1 DEF LateFiles
      <3> QED BY <3>2, <3>3 DEF Current
    <2>8. ActorInv(m, file)
      BY <2>3, <2>7 DEF ActorInv
    <2>9. LoadInv'
      BY <1>1, <2>3, <2>8, OneLoads DEF RecentsInv
    <2> QED BY <1>1, <2>2, <2>9 DEF Caches
  <1>5. CASE /\ load' = [load EXCEPT ![a].st = "loading", ![a].at = 1]
             /\ recents' = Without(recents, kept)
    <2> DEFINE m == load'[a]
    <2>1. /\ DOMAIN load' = Actors /\ \A b \in Actors \ {a} : load'[b] = load[b]
          /\ DOMAIN m = LoadFields /\ m.st = "loading" /\ m.at = 1
          /\ m.provider = l.provider /\ m.stat = l.stat /\ m.hit = l.hit /\ m.from = l.from
          /\ m.tracked = l.tracked /\ m.seen = l.seen /\ m.listed = l.listed /\ m.untold = l.untold
      BY <1>1, <1>5 DEF LoadFields
    <2>2. /\ m.provider \in Providers /\ Since(m, file)
          /\ m.tracked = {} /\ m.seen = {} /\ m.listed = {} /\ m.untold = {} /\ ~m.hit /\ m.stat = 0
      BY <1>1, <2>1 DEF Asked, Since
    <2> HIDE DEF m
    <2>3. Types(m)
      BY <2>1, <2>2, FS_EmptySet DEF Types
    <2>4. Honest(m.tracked, m.seen) /\ Settled(m)
      BY <2>2 DEF Honest, Settled
    <2>5. Looked(m)
      BY <2>1, <2>2 DEF Looked
    <2>6. HeaderNext(m, file)
      <3> SUFFICES ASSUME NEW k \in 1 .. Len(Loader[m.provider]), k = m.at,
                          Loader[m.provider][k].op = "header"
                   PROVE  FALSE
        BY DEF HeaderNext
      <3>1. k > 1
        BY <2>2, HeaderSteps
      <3> QED BY <2>1, <3>1
    <2>7. Reading(m, file)
      BY <2>2, <2>3, <2>4, <2>5, <2>6 DEF Reading
    <2>8. ActorInv(m, file)
      BY <2>1, <2>7 DEF ActorInv
    <2>9. LoadInv'
      BY <1>1, <2>1, <2>8, OneLoads DEF RecentsInv, m
    <2> QED BY <1>1, <1>3, <1>5, <2>9 DEF Caches
  <1> QED BY <1>4, <1>5 DEF BeginLoad

(* What could not be told stays untold. *)
LEMMA UntoldStays ==
    ASSUME NEW l, NEW m, m.from = l.from, l.untold \subseteq m.untold
    PROVE  \A f : Untold(l, f) => Untold(m, f)
  BY DEF Untold

(* A source is tracked. *)
LEMMA TrackKeeps ==
    ASSUME RecentsInv, NEW a \in Actors, TrackStep(a)
    PROVE  LoadInv' /\ Caches'
  <1> DEFINE l == load[a]
             m == load'[a]
             s == Loader[l.provider][l.at].src
             new == <<s, file[s]>>
  <1>1. /\ file \in [Sources -> Nat] /\ UNCHANGED <<file, recents, headers>>
        /\ DOMAIN load = Actors /\ DOMAIN l = LoadFields /\ l.st = "loading" /\ Reading(l, file)
        /\ l.at <= Len(Loader[l.provider]) /\ Loader[l.provider][l.at].op = "track"
        /\ load' = [load EXCEPT ![a].at = @ + 1, ![a].tracked = Tracked(@, s)]
    BY DEF RecentsInv, Disk, LoadInv, ActorInv, TrackStep, InLoader, Step
  <1>2. /\ DOMAIN load' = Actors /\ \A b \in Actors \ {a} : load'[b] = load[b]
        /\ DOMAIN m = LoadFields /\ m.st = "loading" /\ m.at = l.at + 1
        /\ m.provider = l.provider /\ m.stat = l.stat /\ m.hit = l.hit /\ m.from = l.from
        /\ m.tracked = Tracked(l.tracked, s) /\ m.seen = l.seen /\ m.listed = l.listed
        /\ m.untold = l.untold
    BY <1>1 DEF LoadFields
  <1>3. Types(l) /\ l.provider \in Providers /\ l.at \in 1 .. Len(Loader[l.provider])
    <2>1. Types(l) /\ l.at <= Len(Loader[l.provider])
      BY <1>1 DEF Reading
    <2>2. l.provider \in Providers /\ l.at \in Nat \ {0}
      BY <2>1 DEF Types
    <2>3. Len(Loader[l.provider]) \in Nat
      BY <2>2, LoaderSteps
    <2> HIDE DEF l
    <2> QED BY <2>1, <2>2, <2>3
  <1>4. s \in Sources /\ new \in Versions
    BY <1>1, <1>3, LoaderSteps DEF Versions
  <1> HIDE DEF m, l, s
  <1>5. \/ m.tracked = l.tracked /\ (HasStamp(l.tracked, s) \/ Full(l.tracked, s))
        \/ /\ m.tracked = l.tracked \cup {new}
           /\ ~HasStamp(l.tracked, s) /\ ~Full(l.tracked, s)
    BY <1>2 DEF Tracked, HasStamp, Full
  <1>6. IsFiniteSet(l.tracked) /\ l.tracked \subseteq Versions
    BY <1>3 DEF Types
  <1>7. IsFiniteSet(m.tracked) /\ l.tracked \subseteq m.tracked /\ m.tracked \subseteq Versions
    BY <1>4, <1>5, <1>6, FS_AddElement
  <1>8. \A x : HasStamp(l.tracked, x) => HasStamp(m.tracked, x)
    BY <1>7 DEF HasStamp
  <1>9. ASSUME NEW x, Full(l.tracked, x) PROVE Full(m.tracked, x)
    <2> DEFINE dirs(t) == {y \in t : IsDirectory(y[1])}
    <2>1. Cardinality(l.tracked) <= Cardinality(m.tracked)
          /\ Cardinality(l.tracked) \in Nat /\ Cardinality(m.tracked) \in Nat
      BY <1>7, FS_Subset, FS_CardinalityType
    <2>2. dirs(l.tracked) \subseteq dirs(m.tracked) /\ dirs(m.tracked) \subseteq m.tracked
      BY <1>7
    <2>3. IsFiniteSet(dirs(m.tracked))
      BY <1>7, <2>2, FS_Subset
    <2>4. /\ Cardinality(dirs(l.tracked)) <= Cardinality(dirs(m.tracked))
          /\ Cardinality(dirs(l.tracked)) \in Nat /\ Cardinality(dirs(m.tracked)) \in Nat
      BY <2>2, <2>3, FS_Subset, FS_CardinalityType
    <2>5. MaxWatchedPaths \in Nat /\ MaxWatchedDirs \in Nat
      BY RecentAssumption
    <2>6. CASE Cardinality(l.tracked) >= MaxWatchedPaths
      BY <2>1, <2>5, <2>6 DEF Full
    <2>7. CASE IsDirectory(x) /\ Cardinality(dirs(l.tracked)) >= MaxWatchedDirs
      <3>1. Cardinality(dirs(m.tracked)) >= MaxWatchedDirs
        BY <2>4, <2>5, <2>7
      <3> QED BY <2>7, <3>1 DEF Full
    <2> QED BY <1>9, <2>6, <2>7 DEF Full
  <1>10. HasStamp(m.tracked, s) \/ Full(m.tracked, s)
    <2>1. new[1] = s
      OBVIOUS
    <2>2. CASE new \in m.tracked
      BY <2>1, <2>2 DEF HasStamp
    <2>3. CASE m.tracked = l.tracked /\ (HasStamp(l.tracked, s) \/ Full(l.tracked, s))
      BY <2>3
    <2> QED BY <1>5, <2>2, <2>3
  <1>11. Types(m)
    BY <1>2, <1>3, <1>7 DEF Types
  <1>12. Since(m, file)
    BY <1>1, <1>2 DEF Reading, Since
  <1>13. \A t \in m.tracked : t[2] <= file[t[1]]
    <2>1. file[s] <= file[s]
      BY <1>1, <1>4
    <2> QED BY <1>1, <1>5, <2>1 DEF Reading
  <1>14. Honest(m.tracked, m.seen)
    <2> SUFFICES ASSUME NEW v \in l.seen, NEW t \in m.tracked, t[1] = v[1], v[1] \notin TrackedLate
                 PROVE  v[2] >= t[2]
      BY <1>2 DEF Honest
    <2>1. HasStamp(l.tracked, v[1]) \/ Full(l.tracked, v[1])
      BY <1>1 DEF Reading, Settled
    <2>2. t \in l.tracked
      BY <1>5, <2>1
    <2> QED BY <1>1, <2>2 DEF Reading, Honest
  <1>15. Settled(m)
    BY <1>1, <1>2, <1>8, <1>9 DEF Reading, Settled
  <1>16. Looked(m)
    <2> SUFFICES ASSUME NEW k \in 1 .. Len(Loader[l.provider]), NEW x \in Sources, k < l.at + 1,
                        Loader[l.provider][k] = [op |-> "track", src |-> x], x \notin TrackedLate
                 PROVE  HasStamp(m.tracked, x) \/ Full(m.tracked, x)
      BY <1>2 DEF Looked
    <2>1. CASE k < l.at
      <3>1. HasStamp(l.tracked, x) \/ Full(l.tracked, x)
        BY <1>1, <2>1 DEF Reading, Looked
      <3> QED BY <3>1, <1>8, <1>9
    <2>2. CASE k = l.at
      BY <2>2, <1>10 DEF s
    <2> QED BY <1>3, <2>1, <2>2
  <1>17. HeaderNext(m, file)
    <2> SUFFICES ASSUME NEW k \in 1 .. Len(Loader[l.provider]), k = l.at + 1,
                        Loader[l.provider][k].op = "header"
                 PROVE  FALSE
      BY <1>2 DEF HeaderNext
    <2>1. k - 1 = l.at
      BY <1>3
    <2>2. Loader[l.provider][k - 1].op = "read"
      <3>1. \E f : Loader[l.provider][k - 1] = Read("codex", f)
        BY <1>3, HeaderSteps
      <3> QED BY <3>1 DEF Read
    <2> QED BY <1>1, <2>1, <2>2
  <1>u. \A f \in m.listed \cap Subagents : m.from[<<"codex", f>>] = 0 \/ Untold(m, f)
    BY <1>1, <1>2, UntoldStays DEF Reading
  <1>18. Reading(m, file)
    BY <1>1, <1>2, <1>11, <1>12, <1>13, <1>14, <1>15, <1>16, <1>17, <1>u DEF Reading
  <1>19. ActorInv(m, file)
    BY <1>2, <1>18 DEF ActorInv
  <1>20. LoadInv'
    BY <1>1, <1>2, <1>19, OneLoads DEF RecentsInv, m
  <1> QED BY <1>1, <1>20 DEF Caches, RecentsInv

(* A source is read, or found unreadable. *)
LEMMA ReadKeeps ==
    ASSUME RecentsInv, NEW a \in Actors, ReadStep(a) \/ SkipStep(a)
    PROVE  LoadInv' /\ Caches'
  <1> DEFINE l == load[a]
             m == load'[a]
             s == Loader[l.provider][l.at].src
             seen == <<s, file[s]>>
             after == l.at + 1
             unlooked == after <= Len(Loader[l.provider]) /\ Loader[l.provider][after].op = "header"
  <1>1. /\ file \in [Sources -> Nat] /\ UNCHANGED <<file, recents, headers>>
        /\ DOMAIN load = Actors /\ DOMAIN l = LoadFields /\ l.st = "loading" /\ Reading(l, file)
        /\ l.at <= Len(Loader[l.provider]) /\ Loader[l.provider][l.at].op = "read"
        /\ \/ load' = [load EXCEPT ![a].at = @ + 1, ![a].stat = file[s],
                                   ![a].seen = @ \cup {<<s, file[s]>>}]
           \/ load' = [load EXCEPT ![a].at = IF unlooked THEN after + 1 ELSE after,
                          ![a].seen = @ \cup {<<s, file[s]>>},
                          ![a].listed = @ \cup (IF unlooked THEN {s[2]} ELSE {}),
                          ![a].untold = @ \cup (IF unlooked THEN {<<s, file[s]>>} ELSE {})]
    BY DEF RecentsInv, Disk, LoadInv, ActorInv, ReadStep, SkipStep, InLoader, Step
  <1>2. /\ DOMAIN load' = Actors /\ \A b \in Actors \ {a} : load'[b] = load[b]
        /\ DOMAIN m = LoadFields /\ m.st = "loading"
        /\ m.provider = l.provider /\ m.hit = l.hit /\ m.from = l.from
        /\ m.tracked = l.tracked /\ m.seen = l.seen \cup {seen}
        /\ m.stat \in {file[s], l.stat} /\ (unlooked => m.stat = file[s] \/ m.at = after + 1)
        /\ m.at \in {after, after + 1} /\ (m.at = after + 1 => unlooked)
        /\ m.listed = (IF m.at = after THEN l.listed ELSE l.listed \cup {s[2]})
        /\ m.untold = (IF m.at = after THEN l.untold ELSE l.untold \cup {seen})
    <2>1. l.at \in Nat
      BY <1>1 DEF Reading, Types
    <2>2. after # after + 1
      BY <2>1
    <2> HIDE DEF after
    <2>3. CASE load' = [load EXCEPT ![a].at = after, ![a].stat = file[s],
                                    ![a].seen = @ \cup {<<s, file[s]>>}]
      BY <1>1, <2>2, <2>3 DEF LoadFields
    <2>4. CASE load' = [load EXCEPT ![a].at = IF unlooked THEN after + 1 ELSE after,
                          ![a].seen = @ \cup {<<s, file[s]>>},
                          ![a].listed = @ \cup (IF unlooked THEN {s[2]} ELSE {}),
                          ![a].untold = @ \cup (IF unlooked THEN {<<s, file[s]>>} ELSE {})]
      BY <1>1, <2>2, <2>4 DEF LoadFields
    <2> QED BY <1>1, <2>3, <2>4 DEF after
  <1>3. Types(l) /\ l.provider \in Providers /\ l.at \in 1 .. Len(Loader[l.provider])
    <2>1. Types(l) /\ l.at <= Len(Loader[l.provider])
      BY <1>1 DEF Reading
    <2>2. l.provider \in Providers /\ l.at \in Nat \ {0}
      BY <2>1 DEF Types
    <2>3. Len(Loader[l.provider]) \in Nat
      BY <2>2, LoaderSteps
    <2> HIDE DEF l
    <2> QED BY <2>1, <2>2, <2>3
  <1>4. s \in Sources /\ seen \in Versions /\ file[s] \in Nat /\ seen[1] = s /\ seen[2] = file[s]
    BY <1>1, <1>3, LoaderSteps DEF Versions
  <1>5. Since(l, file) /\ l.from[s] \in Nat /\ l.from[s] <= file[s]
    BY <1>1, <1>4 DEF Reading, Since
  <1>p. s = Loader[l.provider][l.at].src
    OBVIOUS
  <1>q. ASSUME unlooked
        PROVE  \E f \in ToSet(Files) :
                 /\ s = <<"codex", f>> /\ s \in TrackedLate
                 /\ Loader[l.provider][after].src = <<"codex", f>>
    <2>1. after \in 1 .. Len(Loader[l.provider]) /\ after - 1 = l.at
      BY <1>3, <1>q
    <2> HIDE DEF after, l
    <2>2. \E f \in ToSet(Files) :
            /\ Loader[l.provider][after].src = <<"codex", f>> /\ <<"codex", f>> \in TrackedLate
            /\ Loader[l.provider][after - 1] = Read("codex", f)
      BY <1>3, <1>q, <2>1, HeaderSteps
    <2> QED BY <2>1, <2>2 DEF Read
  <1>r. l.at \in Nat /\ after = l.at + 1
    BY <1>3
  <1> HIDE DEF m, l, s, seen, after
  <1>6. Types(m)
    <2>1. m.listed \subseteq LateFiles
      BY <1>2, <1>3, <1>q DEF Types, LateFiles
    <2>2. m.untold \subseteq Versions /\ m.seen \subseteq Versions
      BY <1>2, <1>3, <1>4 DEF Types
    <2>3. m.at \in Nat \ {0} /\ m.stat \in Nat
      BY <1>2, <1>3, <1>4, <1>r DEF Types
    <2> QED BY <1>2, <1>3, <2>1, <2>2, <2>3 DEF Types
  <1>7. Since(m, file)
    BY <1>2, <1>5 DEF Since
  <1>8. \A v \in m.seen : v[2] >= m.from[v[1]]
    BY <1>1, <1>2, <1>4, <1>5 DEF Reading
  <1>9. Honest(m.tracked, m.seen)
    <2> SUFFICES ASSUME NEW v \in m.seen, NEW t \in l.tracked, t[1] = v[1], v[1] \notin TrackedLate
                 PROVE  v[2] >= t[2]
      BY <1>2 DEF Honest
    <2>1. CASE v \in l.seen
      BY <1>1, <2>1 DEF Reading, Honest
    <2>2. CASE v = seen
      <3>1. t[2] <= file[s] /\ t[2] \in Nat
        BY <1>1, <1>3, <1>4, <2>2 DEF Reading, Types, Versions
      <3> QED BY <1>4, <2>2, <3>1
    <2> QED BY <1>2, <2>1, <2>2
  <1>10. Looked(m)
    <2> SUFFICES ASSUME NEW k \in 1 .. Len(Loader[l.provider]), NEW x \in Sources, k < m.at,
                        Loader[l.provider][k] = [op |-> "track", src |-> x], x \notin TrackedLate
                 PROVE  HasStamp(l.tracked, x) \/ Full(l.tracked, x)
      BY <1>2 DEF Looked
    <2>1. k # l.at
      BY <1>1
    <2>2. unlooked => k # after
      OBVIOUS
    <2>3. k < l.at
      BY <1>2, <1>r, <2>1, <2>2
    <2> QED BY <1>1, <2>3 DEF Reading, Looked
  <1>11. Settled(m)
    <2> SUFFICES ASSUME NEW v \in m.seen
                 PROVE  \/ v[1] \in TrackedLate
                        \/ HasStamp(l.tracked, v[1]) \/ Full(l.tracked, v[1])
      BY <1>2 DEF Settled
    <2>1. CASE v \in l.seen
      BY <1>1, <2>1 DEF Reading, Settled
    <2>2. CASE v = seen
      <3> SUFFICES ASSUME s \notin TrackedLate PROVE HasStamp(l.tracked, s) \/ Full(l.tracked, s)
        BY <1>4, <2>2
      <3>1. l.provider = s[1]
        BY <1>3, <1>p, StepsOfProvider
      <3>2. PICK k \in 1 .. l.at : Loader[l.provider][k] = [op |-> "track", src |-> s]
        <4>1. l.at \in DOMAIN Loader[s[1]] /\ Loader[s[1]][l.at].src = s /\ Loader[s[1]][l.at].op = "read"
          BY <1>1, <1>3, <1>p, <3>1, LoaderSteps
        <4>2. \E k \in 1 .. l.at : Loader[s[1]][k] = [op |-> "track", src |-> s]
          <5>1. s \in Sources /\ s \notin TrackedLate
            BY <1>4
          <5> QED BY <4>1, <5>1 DEF TrackedLate
        <4> QED BY <3>1, <4>2
      <3>3. k # l.at
        BY <1>1, <3>2
      <3>4. k < l.at /\ k \in 1 .. Len(Loader[l.provider])
        BY <1>3, <3>3, LoaderSteps
      <3> QED BY <1>1, <1>4, <3>2, <3>4 DEF Reading, Looked
    <2> QED BY <1>2, <2>1, <2>2
  <1>12. HeaderNext(m, file)
    <2> SUFFICES ASSUME NEW k \in 1 .. Len(Loader[l.provider]), k = m.at,
                        Loader[l.provider][k].op = "header"
                 PROVE  /\ l.from[Loader[l.provider][k].src] <= m.stat
                        /\ m.stat <= file[Loader[l.provider][k].src]
      BY <1>2 DEF HeaderNext
    <2>1. PICK f : Loader[l.provider][k].src = <<"codex", f>> /\ Loader[l.provider][k - 1] = Read("codex", f)
      BY <1>3, HeaderSteps
    <2>2. k = after
      <3> SUFFICES ASSUME k = after + 1, unlooked PROVE FALSE
        BY <1>2
      <3>1. k - 1 = after
        BY <1>r
      <3>2. Loader[l.provider][after].op = "read"
        BY <2>1, <3>1 DEF Read
      <3> QED BY <3>2
    <2>3. k - 1 = l.at /\ k <= Len(Loader[l.provider])
      BY <1>r, <2>2
    <2>4. s = <<"codex", f>>
      BY <1>p, <2>1, <2>3 DEF Read
    <2>5. m.stat = file[s]
      <3>1. unlooked /\ m.at # after + 1
        BY <1>r, <2>2, <2>3
      <3> QED BY <1>2, <3>1
    <2> QED BY <1>4, <1>5, <2>1, <2>4, <2>5
  <1>13. \A t \in m.tracked : t[2] <= file[t[1]]
    BY <1>1, <1>2 DEF Reading
  <1>u. ASSUME NEW f \in m.listed \cap Subagents PROVE m.from[<<"codex", f>>] = 0 \/ Untold(m, f)
    <2>1. CASE f \in l.listed
      <3>1. l.untold \subseteq m.untold
        BY <1>2
      <3> QED BY <1>1, <1>2, <2>1, <3>1, UntoldStays DEF Reading
    <2>2. CASE f \notin l.listed
      <3>1. f = s[2] /\ unlooked /\ seen \in m.untold
        BY <1>2, <2>2
      <3>2. s = <<"codex", f>>
        BY <1>q, <3>1
      <3>3. seen[1] = <<"codex", f>> /\ seen[2] >= m.from[seen[1]]
        BY <1>2, <1>4, <1>5, <3>2
      <3> QED BY <3>1, <3>3 DEF Untold
    <2> QED BY <2>1, <2>2
  <1>14. Reading(m, file)
    BY <1>6, <1>7, <1>8, <1>9, <1>10, <1>11, <1>12, <1>13, <1>u DEF Reading
  <1>15. ActorInv(m, file)
    BY <1>2, <1>14 DEF ActorInv
  <1>16. LoadInv'
    BY <1>1, <1>2, <1>15, OneLoads DEF RecentsInv, m
  <1> QED BY <1>1, <1>16 DEF Caches, RecentsInv

(* A rollout's header is looked at. *)
LEMMA HeaderKeeps ==
    ASSUME RecentsInv, NEW a \in Actors, NEW readable \in BOOLEAN, HeaderStep(a, readable)
    PROVE  LoadInv' /\ Caches'
  <1> DEFINE l == load[a]
             m == load'[a]
             s == Loader[l.provider][l.at].src
             known == {headers[i] : i \in {j \in HeadersOf(s) : headers[j].version = l.stat}}
             read == [src |-> s, version |-> l.stat, told |-> readable,
                      subagent |-> readable /\ RolloutIsSubagent(s[2])]
  <1> PICK entry \in IF known # {} THEN known ELSE {read} :
             /\ headers' = LastOf(Append(Without(headers, HeadersOf(s)), entry), MaxHeaders)
             /\ load' = [load EXCEPT ![a].at = @ + (IF entry.subagent THEN 3 ELSE 1),
                                     ![a].listed = IF entry.subagent THEN @ ELSE @ \cup {s[2]},
                                     ![a].untold = IF entry.told THEN @
                                                   ELSE @ \cup {<<s, entry.version>>}]
    BY DEF HeaderStep, Step
  <1>1. /\ file \in [Sources -> Nat] /\ UNCHANGED <<file, recents>>
        /\ headers \in Seq(KeptHeaders)
        /\ DOMAIN load = Actors /\ DOMAIN l = LoadFields /\ l.st = "loading" /\ Reading(l, file)
        /\ l.at <= Len(Loader[l.provider]) /\ Loader[l.provider][l.at].op = "header"
    BY DEF RecentsInv, Disk, Caches, LoadInv, ActorInv, HeaderStep, InLoader, Step
  <1>2. /\ DOMAIN load' = Actors /\ \A b \in Actors \ {a} : load'[b] = load[b]
        /\ DOMAIN m = LoadFields /\ m.st = "loading"
        /\ m.at = l.at + (IF entry.subagent THEN 3 ELSE 1)
        /\ m.provider = l.provider /\ m.stat = l.stat /\ m.hit = l.hit /\ m.from = l.from
        /\ m.tracked = l.tracked /\ m.seen = l.seen
        /\ m.listed = (IF entry.subagent THEN l.listed ELSE l.listed \cup {s[2]})
        /\ m.untold = (IF entry.told THEN l.untold ELSE l.untold \cup {<<s, entry.version>>})
    BY <1>1 DEF LoadFields
  <1>3. Types(l) /\ l.provider \in Providers /\ l.at \in 1 .. Len(Loader[l.provider])
    <2>1. Types(l) /\ l.at <= Len(Loader[l.provider])
      BY <1>1 DEF Reading
    <2>2. l.provider \in Providers /\ l.at \in Nat \ {0}
      BY <2>1 DEF Types
    <2>3. Len(Loader[l.provider]) \in Nat
      BY <2>2, LoaderSteps
    <2> HIDE DEF l, m, s, known, read
    <2> QED BY <2>1, <2>2, <2>3
  <1>4. PICK f \in ToSet(Files) :
          /\ s = <<"codex", f>> /\ <<"codex", f>> \in TrackedLate /\ l.provider = "codex"
          /\ l.at + 2 \in 1 .. Len(Loader[l.provider])
          /\ Loader[l.provider][l.at + 1] = Track("codex", f)
          /\ Loader[l.provider][l.at + 2] = Read("codex", f)
          /\ l.at + 3 \in 1 .. Len(Loader[l.provider]) => Loader[l.provider][l.at + 3].op # "header"
    BY <1>1, <1>3, HeaderSteps
  <1>5. s \in Sources /\ l.stat \in Nat /\ l.from[s] \in Nat /\ file[s] \in Nat
        /\ l.from[s] <= l.stat /\ l.stat <= file[s]
    <2>1. s \in Sources /\ l.stat \in Nat
      BY <1>3, LoaderSteps DEF Types
    <2>2. l.from[s] <= l.stat /\ l.stat <= file[s]
      BY <1>1, <1>3 DEF Reading, HeaderNext
    <2> QED BY <1>1, <2>1, <2>2 DEF Reading, Since
  <1>6. read \in KeptHeaders
    <2>1. read.src = s /\ read.version = l.stat /\ read.told = readable
          /\ read.subagent = (readable /\ RolloutIsSubagent(s[2]))
          /\ read \in [src : Sources, version : Nat, told : BOOLEAN, subagent : BOOLEAN]
      BY <1>5 DEF RolloutIsSubagent
    <2>2. ASSUME ~RolloutIsSubagent(f), f \in Subagents PROVE l.stat = 0
      BY <1>4, <1>5, <2>2 DEF RolloutIsSubagent
    <2> HIDE DEF read, s
    <2> QED BY <1>4, <2>1, <2>2 DEF KeptHeaders
  <1>7. entry \in KeptHeaders /\ entry.version = l.stat /\ entry.src = s
    <2>1. CASE entry \in known
      <3>1. PICK i \in DOMAIN headers : entry = headers[i] /\ headers[i].version = l.stat /\ headers[i].src = s
        BY <2>1 DEF HeadersOf
      <3> HIDE DEF known, read, l, m, s
      <3>2. headers[i] \in KeptHeaders
        <4>1. headers \in Seq(KeptHeaders)
          BY <1>1
        <4>2. i \in 1 .. Len(headers)
          BY <4>1, LenProperties
        <4> QED BY <4>1, <4>2, ElementOfSeq
      <3> QED BY <3>1, <3>2
    <2>2. CASE entry = read
      BY <1>6, <2>2
    <2> QED BY <2>1, <2>2
  <1>8. Caches'
    <2>1. HeadersOf(s) \subseteq DOMAIN headers
      BY DEF HeadersOf
    <2>2. Without(headers, HeadersOf(s)) \in Seq(KeptHeaders)
      BY <1>1, <2>1, QueuesKeep
    <2>3. Append(Without(headers, HeadersOf(s)), entry) \in Seq(KeptHeaders)
      BY <1>7, <2>2, QueuesKeep
    <2>4. headers' \in Seq(KeptHeaders)
      BY <2>3, QueuesKeep, RecentAssumption
    <2> QED BY <1>1, <2>4 DEF Caches, RecentsInv
  <1>p. s = Loader[l.provider][l.at].src
    OBVIOUS
  <1>9. /\ entry.subagent \in BOOLEAN /\ entry.told \in BOOLEAN
        /\ entry.told /\ ~entry.subagent /\ f \in Subagents => l.stat = 0
    BY <1>4, <1>7 DEF KeptHeaders
  <1> HIDE DEF m, l, s, known, read
  <1>10. m.at \in {l.at + 1, l.at + 3}
    BY <1>2
  <1>11. Types(m)
    <2>1. m.listed \subseteq LateFiles
      BY <1>2, <1>3, <1>4 DEF Types, LateFiles
    <2>2. m.untold \subseteq Versions
      BY <1>2, <1>3, <1>5, <1>7 DEF Types, Versions
    <2> QED BY <1>2, <1>3, <1>10, <2>1, <2>2 DEF Types
  <1>12. Since(m, file)
    BY <1>1, <1>2 DEF Reading, Since
  <1>13. /\ \A t \in m.tracked : t[2] <= file[t[1]]
         /\ \A v \in m.seen : v[2] >= m.from[v[1]]
         /\ Honest(m.tracked, m.seen) /\ Settled(m)
    BY <1>1, <1>2 DEF Reading, Settled
  <1>14. ASSUME NEW g \in m.listed \cap Subagents PROVE m.from[<<"codex", g>>] = 0 \/ Untold(m, g)
    <2>1. CASE g \in l.listed
      <3>1. l.untold \subseteq m.untold
        BY <1>2
      <3> QED BY <1>1, <1>2, <2>1, <3>1, UntoldStays DEF Reading
    <2>2. CASE g \notin l.listed /\ entry.told
      <3>1. ~entry.subagent /\ g = s[2]
        BY <1>2, <2>2
      <3>2. g = f /\ l.stat = 0
        BY <1>4, <1>9, <1>14, <2>2, <3>1
      <3> QED BY <1>2, <1>4, <1>5, <3>2
    <2>3. CASE g \notin l.listed /\ ~entry.told
      <3>1. g = s[2] /\ g = f
        BY <1>2, <1>4, <2>3
      <3> DEFINE v == <<s, entry.version>>
      <3>2. v \in m.untold /\ v[1] = <<"codex", g>> /\ v[2] = l.stat
        BY <1>2, <1>4, <1>7, <2>3, <3>1
      <3>3. v[2] >= m.from[v[1]]
        BY <1>2, <1>4, <1>5, <3>1, <3>2
      <3> HIDE DEF v
      <3> QED BY <3>2, <3>3 DEF Untold
    <2> QED BY <2>1, <2>2, <2>3
  <1>15. Looked(m)
    <2> SUFFICES ASSUME NEW k \in 1 .. Len(Loader[l.provider]), NEW x \in Sources, k < m.at,
                        Loader[l.provider][k] = [op |-> "track", src |-> x], x \notin TrackedLate
                 PROVE  HasStamp(l.tracked, x) \/ Full(l.tracked, x)
      BY <1>2 DEF Looked
    <2>1. k # l.at
      BY <1>1
    <2>2. k # l.at + 1
      BY <1>4 DEF Track
    <2>3. k # l.at + 2
      BY <1>4 DEF Read
    <2>4. k < l.at
      BY <1>3, <1>10, <2>1, <2>2, <2>3
    <2> QED BY <1>1, <2>4 DEF Reading, Looked
  <1>16. HeaderNext(m, file)
    <2> SUFFICES ASSUME NEW k \in 1 .. Len(Loader[l.provider]), k = m.at,
                        Loader[l.provider][k].op = "header"
                 PROVE  FALSE
      BY <1>2 DEF HeaderNext
    <2>1. k = l.at + 1
      BY <1>4, <1>10
    <2> QED BY <1>4, <2>1 DEF Track
  <1>17. Reading(m, file)
    BY <1>11, <1>12, <1>13, <1>14, <1>15, <1>16 DEF Reading
  <1>18. ActorInv(m, file)
    BY <1>2, <1>17 DEF ActorInv
  <1>19. LoadInv'
    BY <1>1, <1>2, <1>18, OneLoads DEF RecentsInv, m
  <1> QED BY <1>8, <1>19

(* All sources are read, and the result is kept. *)
LEMMA EndKeeps ==
    ASSUME RecentsInv, NEW a \in Actors, EndLoad(a)
    PROVE  LoadInv' /\ Caches'
  <1> DEFINE l == load[a]
             m == load'[a]
             e == [provider |-> l.provider, tracked |-> l.tracked, seen |-> l.seen, listed |-> l.listed,
                   untold |-> l.untold, scanned |-> IF Unchanged(l.tracked) THEN now ELSE now - Rediscovery]
  <1>1. /\ file \in [Sources -> Nat] /\ now \in Int /\ UNCHANGED <<file, headers>>
        /\ recents \in Seq(KeptResults) /\ headers \in Seq(KeptHeaders)
        /\ DOMAIN load = Actors /\ DOMAIN l = LoadFields /\ l.st = "loading" /\ Reading(l, file)
        /\ recents' = LastOf(Append(recents, e), MaxEntries)
        /\ load' = [load EXCEPT ![a].st = "loaded", ![a].at = 0, ![a].stat = 0]
    BY DEF RecentsInv, Disk, Caches, LoadInv, ActorInv, EndLoad
  <1>2. /\ DOMAIN load' = Actors /\ \A b \in Actors \ {a} : load'[b] = load[b]
        /\ DOMAIN m = LoadFields /\ m.st = "loaded" /\ m.from = l.from
        /\ m.seen = l.seen /\ m.listed = l.listed /\ m.untold = l.untold
    BY <1>1 DEF LoadFields
  <1>3. Types(l) /\ Honest(l.tracked, l.seen)
    BY <1>1 DEF Reading
  <1>4. e \in KeptResults
    <2>1. Rediscovery \in Int
      BY RecentAssumption
    <2>2. (IF Unchanged(l.tracked) THEN now ELSE now - Rediscovery) \in Int
      BY <1>1, <2>1
    <2> HIDE DEF l
    <2> QED BY <1>3, <2>2 DEF KeptResults, Types
  <1>5. recents' \in Seq(KeptResults)
    <2> HIDE DEF e
    <2>1. Append(recents, e) \in Seq(KeptResults)
      BY <1>1, <1>4, QueuesKeep
    <2> QED BY <1>1, <2>1, QueuesKeep, RecentAssumption
  <1>6. Current(m)
    <2>1. \A f \in m.listed \cap Subagents : m.from[<<"codex", f>>] = 0 \/ Untold(m, f)
      BY <1>1, <1>2, UntoldStays DEF Reading
    <2> QED BY <1>1, <1>2, <2>1 DEF Reading, Current
  <1>7. ActorInv(m, file)
    BY <1>2, <1>6 DEF ActorInv
  <1>8. LoadInv'
    BY <1>1, <1>2, <1>7, OneLoads DEF RecentsInv
  <1> QED BY <1>1, <1>5, <1>8 DEF Caches

-----------------------------------------------------------------------------
(* The cache and its loads start empty, every log with its file. *)
LEMMA RecentsStart == Init => RecentsInv
  <1> SUFFICES ASSUME Init PROVE RecentsInv
    OBVIOUS
  <1>1. /\ now = 0 /\ recents = <<>> /\ headers = <<>> /\ load = [a \in Actors |-> Idle]
        /\ file = [s \in Sources |-> IF s[1] = "codex" /\ s[2] \in ToSet(Files)
                                       THEN Size(log[s[2]]) ELSE 0]
    BY DEF Init, RecentInit
  <1>2. PICK s \in Scenarios :
          log \in {[f \in ToSet(Files) |-> IF f = Files[1] THEN l ELSE s.rest] : l \in s.logs}
    BY DEF Init
  <1> DEFINE Logs == [records : Seq(Records), partial : BOOLEAN]
  <1>3. s.logs \cup {s.rest} \subseteq Logs
    BY ReadsAssumption
  <1>4. DOMAIN log = ToSet(Files) /\ \A f \in ToSet(Files) : log[f] \in Logs
    BY <1>2, <1>3
  <1>5. \A l \in Logs : IsLog(l) /\ Size(l) \in Nat
    BY DEF IsLog, Size
  <1>6. file \in [Sources -> Nat]
    <2> SUFFICES ASSUME NEW x \in Sources PROVE file[x] \in Nat
      BY <1>1
    <2> QED BY <1>1, <1>4, <1>5
  <1>7. Disk
    <2>1. ASSUME NEW f \in ToSet(Files), <<"codex", f>> \in Sources
          PROVE  file[<<"codex", f>>] = Size(log[f])
      BY <1>1, <2>1
    <2> QED BY <1>1, <1>4, <1>5, <1>6, <2>1 DEF Disk
  <1>8. Caches
    BY <1>1 DEF Caches
  <1>9. LoadInv
    BY <1>1, IdleIsFine DEF LoadInv
  <1> QED BY <1>7, <1>8, <1>9 DEF RecentsInv

(* Nothing the disk and the loads are about changes. *)
LEMMA DiskStays ==
    ASSUME Disk, UNCHANGED <<file, log>>, now' \in Int
    PROVE  Disk'
  BY DEF Disk, IsLog, Size

LEMMA AllStays ==
    ASSUME RecentsInv, UNCHANGED <<file, log, recents, headers, load>>, now' \in Int
    PROVE  RecentsInv'
  <1>1. Disk'
    BY DiskStays DEF RecentsInv
  <1>2. LoadInv'
    <2>1. file \in [Sources -> Nat] /\ file' = file /\ \A s \in Sources : file[s] <= file[s]
      BY DEF RecentsInv, Disk
    <2>2. \A s \in Sources : file[s] <= file'[s]
      BY <2>1
    <2> QED BY <2>1, <2>2, FilesGrow DEF RecentsInv
  <1>3. Caches'
    BY DEF RecentsInv, Caches
  <1> QED BY <1>1, <1>2, <1>3 DEF RecentsInv

(* A step of a load. *)
LEMMA LoadingKeeps ==
    ASSUME RecentsInv, NEW a \in Actors, LoadGoesOn(a)
    PROVE  RecentsInv'
  <1>1. UNCHANGED <<file, now, log>>
    BY DEF LoadGoesOn, LoadBegins, LoadTracks, LoadReads, LoadReadsHeader, LoadEnds,
           BeginLoad, TrackStep, ReadStep, HeaderStep, EndLoad, readVars, diskVars
  <1>2. Disk'
    BY <1>1, DiskStays DEF RecentsInv, Disk
  <1>3. LoadInv' /\ Caches'
    BY BeginKeeps, TrackKeeps, ReadKeeps, HeaderKeeps, EndKeeps, TRUE \in BOOLEAN
       DEF LoadGoesOn, LoadBegins, LoadTracks, LoadReads, LoadReadsHeader, LoadEnds
  <1> QED BY <1>2, <1>3 DEF RecentsInv

(* A load ends without a result, is taken, or is asked for. *)
LEMMA ResetKeeps ==
    ASSUME RecentsInv, NEW a \in Actors, NEW l, load' = [load EXCEPT ![a] = l],
           ActorInv(l, file), UNCHANGED <<file, now, log, recents, headers>>
    PROVE  RecentsInv'
  <1>1. DOMAIN load' = Actors /\ load'[a] = l /\ \A b \in Actors \ {a} : load'[b] = load[b]
    BY DEF RecentsInv, LoadInv
  <1>2. LoadInv'
    BY <1>1, OneLoads DEF RecentsInv
  <1>3. Disk'
    BY DiskStays DEF RecentsInv, Disk
  <1>4. Caches'
    BY DEF RecentsInv, Caches
  <1> QED BY <1>2, <1>3, <1>4 DEF RecentsInv

LEMMA ResetsKeep ==
    ASSUME RecentsInv, QueueInv,
           \/ ReadRequest \/ RecentsRead \/ TabsRead
           \/ \E p \in left.menu.providers : TabsAsk(p)
           \/ \E a \in Actors : LoadFails(a)
    PROVE  RecentsInv'
  <1>1. "board" \in Actors /\ "tabs" \in Actors /\ file \in [Sources -> Nat] /\ now \in Int
    BY DEF Actors, RecentsInv, Disk
  <1>2. CASE ReadRequest
    <2>1. UNCHANGED <<file, now, log, recents, headers>>
      BY <1>2 DEF ReadRequest, diskVars
    <2>2. CASE UNCHANGED load
      BY <1>1, <2>1, <2>2, AllStays
    <2>3. CASE AskLoad("board", Call.provider)
      <3>1. Call.provider \in Providers
        <4>1. worker.id \in 1 .. Len(calls) /\ calls \in Seq(Asks)
          BY <1>2, QueueFacts DEF ReadRequest, QueueInv, InPlace, Busy
        <4>2. calls[worker.id] \in Asks
          BY <4>1
        <4> QED BY <4>2 DEF Call, Asks
      <3> QED BY <1>1, <2>1, <2>3, <3>1, AskedIsFine, ResetKeeps DEF AskLoad
    <2> QED BY <1>2, <2>2, <2>3 DEF ReadRequest
  <1>3. CASE RecentsRead \/ TabsRead
    <2>1. UNCHANGED <<file, now, log, recents, headers>>
          /\ \E a \in Actors : load' = [load EXCEPT ![a] = Idle]
      BY <1>1, <1>3 DEF RecentsRead, TabsRead, diskVars, readVars
    <2> QED BY <2>1, IdleIsFine, ResetKeeps
  <1>4. CASE \E p \in left.menu.providers : TabsAsk(p)
    <2>1. PICK p \in left.menu.providers : TabsAsk(p)
      BY <1>4
    <2>2. p \in Providers
      BY DEF QueueInv, QueueTypes
    <2>3. UNCHANGED <<file, now, log, recents, headers>> /\ AskLoad("tabs", p)
      BY <2>1 DEF TabsAsk, diskVars
    <2> QED BY <1>1, <2>2, <2>3, AskedIsFine, ResetKeeps DEF AskLoad
  <1>5. CASE \E a \in Actors : LoadFails(a)
    <2>1. PICK a \in Actors : LoadFails(a)
      BY <1>5
    <2>2. CASE FailLoad(a)
      <3>1. /\ UNCHANGED <<file, now, log, recents, headers>>
            /\ load' = [load EXCEPT ![a] = [Idle EXCEPT !.st = "failed", !.provider = load[a].provider]]
        BY <2>1, <2>2 DEF LoadFails, FailLoad, diskVars
      <3> QED BY <3>1, IdleIsFine, ResetKeeps
    <2>3. CASE SkipStep(a) \/ HeaderStep(a, FALSE)
      <3>1. UNCHANGED <<file, now, log>>
        BY <2>1, <2>3 DEF LoadFails, SkipStep, HeaderStep, diskVars
      <3>2. Disk'
        BY <3>1, DiskStays DEF RecentsInv, Disk
      <3>3. LoadInv' /\ Caches'
        BY <2>3, ReadKeeps, HeaderKeeps, FALSE \in BOOLEAN
      <3> QED BY <3>2, <3>3 DEF RecentsInv
    <2> QED BY <2>1, <2>2, <2>3 DEF LoadFails
  <1> QED BY <1>2, <1>3, <1>4, <1>5

(* The providers write: every file only gets newer versions. *)
LEMMA WritesKeep ==
    ASSUME RecentsInv,
           \/ \E f \in ToSet(Files) : AppendPart(f)
           \/ \E r : \E f \in ToSet(Files) : AppendRecord(f, r)
           \/ \E s \in Sources : Touch(s)
           \/ \E s \in Sessions, f \in ToSet(Files) : CommitRow(s, f) \/ ReplaceDatabase(s, f)
    PROVE  RecentsInv'
  <1>1. /\ file \in [Sources -> Nat] /\ now \in Int /\ DOMAIN log = ToSet(Files)
        /\ \A f \in ToSet(Files) : IsLog(log[f])
        /\ \A f \in ToSet(Files) : <<"codex", f>> \in Sources => file[<<"codex", f>>] = Size(log[f])
    BY DEF RecentsInv, Disk
  <1>2. ASSUME file' \in [Sources -> Nat], \A s \in Sources : file[s] <= file'[s],
               UNCHANGED <<now, recents, headers, load>>, Disk'
        PROVE  RecentsInv'
    <2>1. LoadInv'
      BY <1>1, <1>2, FilesGrow DEF RecentsInv
    <2>2. Caches'
      BY <1>2 DEF RecentsInv, Caches
    <2> QED BY <1>2, <2>1, <2>2 DEF RecentsInv
  <1>3. ASSUME NEW f \in ToSet(Files), NEW l, Write(f, l), IsLog(l), Size(l) \in Nat,
               Size(log[f]) <= Size(l)
        PROVE  RecentsInv'
    <2>1. /\ log' = [log EXCEPT ![f] = l] /\ file' = [file EXCEPT ![<<"codex", f>>] = Size(l)]
          /\ UNCHANGED <<now, recents, headers, load>>
      BY <1>3 DEF Write
    <2>2. file' \in [Sources -> Nat] /\ \A s \in Sources : file[s] <= file'[s]
      <3>1. DOMAIN file' = Sources
            /\ \A s \in Sources : file'[s] = IF s = <<"codex", f>> THEN Size(l) ELSE file[s]
        BY <1>1, <2>1
      <3>2. \A s \in Sources : file'[s] \in Nat /\ file[s] <= file'[s]
        BY <1>1, <1>3, <3>1
      <3>3. file' = [s \in Sources |-> file'[s]]
        BY <1>1, <2>1
      <3> QED BY <3>2, <3>3
    <2>3. DOMAIN log' = ToSet(Files) /\ log'[f] = l /\ \A g \in ToSet(Files) \ {f} : log'[g] = log[g]
      BY <1>1, <2>1
    <2>4. \A g \in ToSet(Files) : IsLog(log'[g])
      BY <1>1, <1>3, <2>3
    <2>5. \A g \in ToSet(Files) : <<"codex", g>> \in Sources => file'[<<"codex", g>>] = Size(log'[g])
      BY <1>1, <1>3, <2>1, <2>3
    <2>6. Disk'
      BY <1>1, <2>1, <2>2, <2>3, <2>4, <2>5 DEF Disk, IsLog, Size
    <2> QED BY <1>2, <2>1, <2>2, <2>6
  <1>4. ASSUME NEW f \in ToSet(Files), AppendPart(f) PROVE RecentsInv'
    <2> DEFINE l == [log[f] EXCEPT !.partial = TRUE]
    <2>1. PICK S : log[f].records \in Seq(S)
      BY <1>1 DEF IsLog
    <2>2. Write(f, l) /\ ~log[f].partial
      BY <1>4 DEF AppendPart
    <2>3. DOMAIN l = {"records", "partial"} /\ l.records = log[f].records /\ l.partial = TRUE
      BY <1>1 DEF IsLog
    <2>4. Len(log[f].records) \in Nat
      BY <2>1
    <2> HIDE DEF l
    <2>5. IsLog(l)
      BY <2>1, <2>3 DEF IsLog
    <2>6. Size(l) \in Nat /\ Size(log[f]) <= Size(l)
      BY <2>2, <2>3, <2>4 DEF Size
    <2> QED BY <1>3, <2>2, <2>5, <2>6
  <1>5. ASSUME NEW f \in ToSet(Files), NEW r, AppendRecord(f, r) PROVE RecentsInv'
    <2> DEFINE l == [records |-> Append(log[f].records, r), partial |-> FALSE]
    <2>1. PICK S : log[f].records \in Seq(S)
      BY <1>1 DEF IsLog
    <2>2. Write(f, l)
      BY <1>5 DEF AppendRecord
    <2>3. log[f].records \in Seq(S \cup {r}) /\ r \in S \cup {r}
      BY <2>1
    <2>4. l.records \in Seq(S \cup {r}) /\ Len(l.records) = Len(log[f].records) + 1 
          /\ Len(log[f].records) \in Nat /\ l.partial = FALSE /\ DOMAIN l = {"records", "partial"}
      BY <2>3
    <2> HIDE DEF l
    <2>5. IsLog(l)
      BY <2>4 DEF IsLog
    <2>6. Size(l) \in Nat /\ Size(log[f]) <= Size(l)
      <3> DEFINE n == Len(log[f].records)
                 half == IF log[f].partial THEN 1 ELSE 0
      <3>1. n \in Nat /\ half \in {0, 1} /\ ~l.partial /\ Len(l.records) = n + 1
        BY <2>4
      <3>2. Size(l) = 2 * (n + 1) + 0 /\ Size(log[f]) = 2 * n + half
        BY <3>1 DEF Size
      <3> HIDE DEF n, half
      <3> QED BY <3>1, <3>2
    <2> QED BY <1>3, <2>2, <2>5, <2>6
  <1>6. ASSUME NEW x, file' = [file EXCEPT ![x] = @ + 1], \A f \in ToSet(Files) : x # <<"codex", f>>,
               UNCHANGED <<now, recents, headers, load, log>>
        PROVE  RecentsInv'
    <2>1. file' \in [Sources -> Nat] /\ \A s \in Sources : file[s] <= file'[s]
      <3>1. DOMAIN file' = Sources
            /\ \A s \in Sources : file'[s] = IF s = x THEN file[s] + 1 ELSE file[s]
        BY <1>1, <1>6
      <3>2. \A s \in Sources : file'[s] \in Nat /\ file[s] <= file'[s]
        BY <1>1, <3>1
      <3>3. file' = [s \in Sources |-> file'[s]]
        BY <1>1, <1>6
      <3> QED BY <3>2, <3>3
    <2>2. \A f \in ToSet(Files) : <<"codex", f>> \in Sources => file'[<<"codex", f>>] = Size(log[f])
      BY <1>1, <1>6
    <2>3. Disk'
      BY <1>1, <1>6, <2>1, <2>2 DEF Disk, IsLog, Size
    <2> QED BY <1>2, <1>6, <2>1, <2>3
  <1>7. ASSUME NEW s \in Sources, Touch(s) PROVE RecentsInv'
    <2>1. \A f \in ToSet(Files) : s # <<"codex", f>>
      BY <1>7 DEF Touch
    <2> QED BY <1>6, <1>7, <2>1 DEF Touch, diskVars
  <1>8. ASSUME NEW s \in Sessions, NEW f \in ToSet(Files), CommitRow(s, f) \/ ReplaceDatabase(s, f)
        PROVE  RecentsInv'
    <2>1. /\ \E x \in {"db", "wal"} : file' = [file EXCEPT ![<<"codex", x>>] = @ + 1]
          /\ UNCHANGED <<now, recents, headers, load, log>>
      BY <1>8 DEF CommitRow, ReplaceDatabase, Move
    <2>2. \A g \in ToSet(Files) : g \notin {"db", "wal"}
      BY FileTypes DEF ToSet
    <2>3. \A x \in {"db", "wal"} : \A g \in ToSet(Files) : <<"codex", x>> # <<"codex", g>>
      BY <2>2
    <2> QED BY <1>6, <2>1, <2>3
  <1> QED BY <1>4, <1>5, <1>7, <1>8

(* Every step keeps it. *)
LEMMA RecentsNext == RecentsInv /\ QueueInv /\ [Next]_vars => RecentsInv'
  <1> SUFFICES ASSUME RecentsInv, QueueInv, [Next]_vars PROVE RecentsInv'
    OBVIOUS
  <1>0. now \in Int
    BY DEF RecentsInv, Disk
  <1>1. CASE World
    <2>1. CASE (\E session \in left.menu.asks, p \in left.menu.providers, limit \in left.menu.limits :
                  Ask(session, p, limit)) \/ Tick
      <3>1. UNCHANGED <<file, log, recents, headers, load>> /\ (now' = now \/ now' = now + 1)
        BY <2>1, Zenon DEF Ask, Tick, recentVars, diskVars
      <3>2. now' \in Int
        BY <1>0, <3>1
      <3> QED BY <3>1, <3>2, AllStays
    <2>2. CASE \E p \in left.menu.providers : TabsAsk(p)
      BY <2>2, ResetsKeep
    <2>3. CASE ~((\E session \in left.menu.asks, p \in left.menu.providers, limit \in left.menu.limits :
                    Ask(session, p, limit)) \/ Tick \/ \E p \in left.menu.providers : TabsAsk(p))
      BY <1>1, <2>3, WritesKeep DEF World
    <2> QED BY <2>1, <2>2, <2>3
  <1>2. CASE Listen \/ QueryDatabase \/ ReadSnapshot \/ ReadResponsePayload \/ ReadWindow
             \/ LocationGone \/ LockedDatabase \/ ReadFails
    <2>1. UNCHANGED <<recentVars, diskVars>>
      BY <1>2, Zenon DEF Listen, StartPending, Receive, SendReadResult, QueryDatabase, ReadSnapshot,
           ReadResponsePayload, ReadWindow, LocationGone, LockedDatabase, ReadFails
    <2> QED BY <1>0, <2>1, AllStays DEF recentVars, diskVars
  <1>3. CASE ReadRequest \/ RecentsRead \/ TabsRead \/ \E a \in Actors : LoadFails(a)
    BY <1>3, ResetsKeep
  <1>4. CASE \E a \in Actors : LoadGoesOn(a)
    BY <1>4, LoadingKeeps
  <1>5. CASE UNCHANGED vars
    BY <1>0, <1>5, AllStays DEF vars, recentVars, diskVars
  <1> QED BY <1>1, <1>2, <1>3, <1>4, <1>5 DEF Next, Work, Trouble

(* A list of recent sessions is as new as its request, whatever the        *)
(* providers write meanwhile, whichever of the two threads loads first and *)
(* however small the caches and the room for stamps are: load, track and   *)
(* the loaders of recent_cache.rs and of each provider.                    *)
THEOREM RecentsAreUpToDate == Spec => []RecentsAreCurrent
  <1>1. Init => QueueInv /\ RecentsInv
    BY QueueInit, RecentsStart
  <1>2. (QueueInv /\ RecentsInv) /\ [Next]_vars => (QueueInv /\ RecentsInv)'
    BY QueueNext, RecentsNext
  <1>3. RecentsInv => RecentsAreCurrent
    BY DEF RecentsInv, LoadInv, ActorInv, Current, Excused, RecentsAreCurrent, Untold
  <1> QED BY <1>1, <1>2, <1>3, PTL DEF Spec


(* Logs that Codex has written.                                            *)
IsWritten(L) == L \in Seq(Records) /\ Written(L)

(* The turns begun by record i, the latest of them, and whether it is open. *)
StartedBy(L, i) == {L[j].turn : j \in {k \in 1 .. i : L[k].kind = "started"}}
LastTurn(L, i) == CHOOSE t \in StartedBy(L, i) \cup {NoTurn} : \A u \in StartedBy(L, i) : u <= t
OpenBy(L, i) ==
    \E s \in 1 .. i : /\ L[s].kind = "started" /\ L[s].turn = LastTurn(L, i)
                      /\ \A j \in s + 1 .. i : L[j].kind \notin {"complete", "aborted"}

(* A completion written once more.                                         *)
Repeated(L, i) == i > 1 /\ L[i] = L[i - 1]

(* Nothing to see between two records.                                     *)
QuietFrom(L, j, i) == \A k \in j + 1 .. i : L[k].kind \in {"other", "huge"}

-----------------------------------------------------------------------------
LEMMA LeastNumber ==
    ASSUME NEW T \in SUBSET Nat, T # {}
    PROVE  \E n \in T : \A t \in T : n <= t
  <1>1. \E n \in T : \A t \in T : <<t, n>> \notin OpToRel(<, Nat)
    BY NatLessThanWellFounded, WFMin, Zenon
  <1>2. \A n, t \in Nat : t < n => <<t, n>> \in OpToRel(<, Nat)
    BY Zenon DEF OpToRel
  <1>3. \E n \in T : \A t \in T : ~(t < n)
    BY <1>1, <1>2, Zenon
  <1> QED BY <1>3

(* Records are distinct by their kinds.                                    *)
LEMMA RecordKinds ==
    /\ Other.kind = "other" /\ Huge.kind = "huge"
    /\ \A k, t, x : Record(k, t, x).kind = k /\ Record(k, t, x).turn = t /\ Record(k, t, x).text = x
  BY DEF Other, Huge, Record

LEMMA FirstRecords ==
    ASSUME NEW L \in Seq(Records), NEW i \in 0 .. Len(L)
    PROVE  /\ SubSeq(L, 1, i) \in Seq(Records) /\ Len(SubSeq(L, 1, i)) = i
           /\ DOMAIN SubSeq(L, 1, i) = 1 .. i
           /\ \A j \in 1 .. i : SubSeq(L, 1, i)[j] = L[j]
  OBVIOUS

LEMMA LogFacts ==
    ASSUME NEW L \in Seq(Records)
    PROVE  /\ Len(L) \in Nat /\ DOMAIN L = 1 .. Len(L)
           /\ \A i \in 1 .. Len(L) : L[i] \in Records /\ L[i].turn \in Nat /\ L[i].text \in Nat
  <1>1. Len(L) \in Nat /\ DOMAIN L = 1 .. Len(L) /\ \A i \in 1 .. Len(L) : L[i] \in Records
    OBVIOUS
  <1> QED BY <1>1 DEF Records

(* What record i may be, after those before it.                            *)
LEMMA NextRecord ==
    ASSUME NEW L, IsWritten(L), NEW i \in 1 .. Len(L)
    PROVE  LET turn == LastTurn(L, i - 1) IN
           \/ L[i].kind \in {"other", "huge"}
           \/ L[i].kind = "started" /\ L[i].turn = turn + 1
           \/ /\ OpenBy(L, i - 1)
              /\ \/ L[i].kind = "final"
                 \/ L[i].kind = "complete" /\ L[i].turn = turn
                 \/ L[i].kind = "aborted"
           \/ L[i].kind = "complete" /\ Repeated(L, i)
  <1> DEFINE p == SubSeq(L, 1, i - 1)
             turn == LastTurn(L, i - 1)
  <1>1. L \in Seq(Records) /\ Len(L) \in Nat /\ DOMAIN L = 1 .. Len(L) /\ i - 1 \in 0 .. Len(L)
    BY LogFacts DEF IsWritten
  <1>2. /\ DOMAIN p = 1 .. i - 1 /\ Len(p) = i - 1
        /\ \A j \in 1 .. i - 1 : p[j] = L[j]
    BY <1>1, FirstRecords
  <1>3. L[i] \in Continuations(p)
    BY <1>1 DEF IsWritten, Written
  <1> HIDE DEF p
  <1> DEFINE turns0 == {p[j].turn : j \in {k \in DOMAIN p : p[k].kind = "started"}}
             turn0 == CHOOSE t \in turns0 \cup {NoTurn} : \A u \in turns0 : u <= t
             open0 == \E s \in DOMAIN p : /\ p[s].kind = "started" /\ p[s].turn = turn0
                             /\ \A j \in s + 1 .. Len(p) : p[j].kind \notin {"complete", "aborted"}
  <1>4. L[i] \in {Other, Huge}
            \cup {Record("started", t, Blank) : t \in {turn0 + 1} \cap Turns}
            \cup {r \in {Record("final", NoTurn, turn0), Record("final", NoTurn, Blank),
                         Record("complete", turn0, turn0), Record("complete", turn0, Blank),
                         Record("aborted", NoTurn, Blank)} : open0}
            \cup {p[j] : j \in {k \in {Len(p)} \cap DOMAIN p : p[k].kind = "complete"}}
    BY <1>3 DEF Continuations
  <1>5. turns0 = StartedBy(L, i - 1)
    BY <1>2 DEF StartedBy
  <1> HIDE DEF turns0
  <1>6. turn0 = turn
    BY <1>5 DEF LastTurn
  <1> HIDE DEF turn0, turn
  <1>a. open0 <=> OpenBy(L, i - 1)
    BY <1>1, <1>2, <1>6 DEF OpenBy, turn
  <1> HIDE DEF open0
  <1>7. CASE L[i] \in {Other, Huge}
    BY <1>7, RecordKinds
  <1>8. CASE L[i] \in {Record("started", t, Blank) : t \in {turn + 1} \cap Turns}
    BY <1>8, RecordKinds DEF turn
  <1>9. CASE OpenBy(L, i - 1) /\ L[i] \in {Record("final", NoTurn, turn), Record("final", NoTurn, Blank),
                         Record("complete", turn, turn), Record("complete", turn, Blank),
                         Record("aborted", NoTurn, Blank)}
    BY <1>9, RecordKinds DEF turn
  <1>10. CASE L[i] \in {p[j] : j \in {k \in {Len(p)} \cap DOMAIN p : p[k].kind = "complete"}}
    <2>1. i - 1 \in 1 .. i - 1 /\ L[i] = p[i - 1] /\ p[i - 1].kind = "complete"
      BY <1>2, <1>10
    <2> QED BY <1>2, <2>1 DEF Repeated
  <1>11. \/ L[i] \in {Other, Huge}
         \/ L[i] \in {Record("started", t, Blank) : t \in {turn + 1} \cap Turns}
         \/ /\ OpenBy(L, i - 1)
            /\ L[i] \in {Record("final", NoTurn, turn), Record("final", NoTurn, Blank),
                         Record("complete", turn, turn), Record("complete", turn, Blank),
                         Record("aborted", NoTurn, Blank)}
         \/ L[i] \in {p[j] : j \in {k \in {Len(p)} \cap DOMAIN p : p[k].kind = "complete"}}
    BY <1>4, <1>6, <1>a, Zenon
  <1> QED BY <1>7, <1>8, <1>9, <1>10, <1>11, Zenon DEF turn

(* Turns are begun in their order, and the latest is the last begun.       *)
TurnsInOrder(L, i) ==
    /\ LastTurn(L, i) \in Nat
    /\ \A s \in 1 .. i : L[s].kind = "started" => 1 <= L[s].turn /\ L[s].turn <= LastTurn(L, i)
    /\ \A s, u \in 1 .. i : L[s].kind = "started" /\ L[u].kind = "started" /\ s < u =>
                               L[s].turn < L[u].turn
    /\ \A s \in 1 .. i : L[s].kind = "started" /\ (\A u \in s + 1 .. i : L[u].kind # "started") =>
                            L[s].turn = LastTurn(L, i)
    /\ (\A s \in 1 .. i : L[s].kind # "started") => LastTurn(L, i) = NoTurn

LEMMA NoTurnYet ==
    ASSUME NEW L
    PROVE  TurnsInOrder(L, 0) /\ LastTurn(L, 0) = NoTurn
  <1>1. 1 .. 0 = {} /\ NoTurn \in Nat
    BY DEF NoTurn
  <1>2. StartedBy(L, 0) = {}
    BY <1>1 DEF StartedBy
  <1>3. LastTurn(L, 0) = NoTurn
    BY <1>2 DEF LastTurn
  <1> QED BY <1>1, <1>3, Zenon DEF TurnsInOrder

LEMMA LastTurnIs ==
    ASSUME NEW L, NEW i, NEW t \in Nat, t \in StartedBy(L, i) \cup {NoTurn}, StartedBy(L, i) \subseteq Nat,
           \A u \in StartedBy(L, i) : u <= t
    PROVE  LastTurn(L, i) = t
  <1>1. NoTurn \in Nat /\ \A u \in Nat : NoTurn <= u
    BY DEF NoTurn
  <1> DEFINE m == LastTurn(L, i)
  <1>2. m \in StartedBy(L, i) \cup {NoTurn} /\ \A u \in StartedBy(L, i) : u <= m
    BY DEF LastTurn
  <1> HIDE DEF m
  <1>3. m \in Nat
    BY <1>1, <1>2
  <1>4. m <= t /\ t <= m
    BY <1>1, <1>2, <1>3
  <1>5. m = t
    BY <1>3, <1>4
  <1> QED BY <1>5 DEF m

LEMMA TurnsOrdered ==
    ASSUME NEW L, IsWritten(L)
    PROVE  \A i \in 0 .. Len(L) : TurnsInOrder(L, i)
  <1> DEFINE Bad == {i \in 0 .. Len(L) : ~TurnsInOrder(L, i)}
  <1>1. L \in Seq(Records) /\ Len(L) \in Nat
    BY LogFacts DEF IsWritten
  <1> SUFFICES ASSUME Bad # {} PROVE FALSE
    OBVIOUS
  <1>2. PICK i \in Bad : \A t \in Bad : i <= t
    <2>1. Bad \in SUBSET Nat
      BY <1>1
    <2> QED BY <2>1, LeastNumber
  <1>3. i \in 1 .. Len(L) /\ i - 1 \in 0 .. Len(L) /\ i - 1 \notin Bad
    BY <1>1, <1>2, NoTurnYet
  <1>4. TurnsInOrder(L, i - 1)
    BY <1>3
  <1> DEFINE m == LastTurn(L, i - 1)
  <1>5. m \in Nat /\ NoTurn = 0
    BY <1>4 DEF TurnsInOrder, NoTurn
  <1>6. 1 .. i = (1 .. i - 1) \cup {i}
    BY <1>1, <1>3
  <1>7. m \in StartedBy(L, i - 1) \cup {NoTurn} /\ \A u \in StartedBy(L, i - 1) : u \in Nat /\ u <= m
    <2>1. \A u \in StartedBy(L, i - 1) : u \in Nat /\ u <= m
      <3> SUFFICES ASSUME NEW s \in 1 .. i - 1, L[s].kind = "started" PROVE L[s].turn \in Nat /\ L[s].turn <= m
        BY DEF StartedBy
      <3>1. s \in 1 .. Len(L)
        BY <1>1, <1>3
      <3> QED BY <1>1, <1>4, <3>1, LogFacts DEF TurnsInOrder
    <2>2. CASE \A s \in 1 .. i - 1 : L[s].kind # "started"
      <3>1. m = NoTurn
        BY <1>4, <2>2 DEF TurnsInOrder
      <3> QED BY <2>1, <3>1
    <2>3. CASE \E s \in 1 .. i - 1 : L[s].kind = "started"
      <3> DEFINE D == {(i - 1) - s : s \in {x \in 1 .. i - 1 : L[x].kind = "started"}}
      <3>1. D \in SUBSET Nat /\ D # {}
        BY <1>1, <1>3, <2>3
      <3>2. PICK d \in D : \A e \in D : d <= e
        BY <3>1, LeastNumber
      <3>3. PICK s \in 1 .. i - 1 : L[s].kind = "started" /\ d = (i - 1) - s
        BY <3>2
      <3>4. ASSUME NEW u \in s + 1 .. i - 1 PROVE L[u].kind # "started"
        <4>1. u \in 1 .. i - 1 /\ ~(d <= (i - 1) - u)
          BY <1>1, <1>3, <3>3
        <4> QED BY <3>2, <4>1
      <3>5. L[s].turn = m
        BY <1>4, <3>3, <3>4 DEF TurnsInOrder
      <3>6. m \in StartedBy(L, i - 1)
        BY <3>3, <3>5 DEF StartedBy
      <3> QED BY <2>1, <3>6
    <2> QED BY <2>2, <2>3
  <1> HIDE DEF m
  <1>8. CASE L[i].kind # "started"
    <2>1. StartedBy(L, i) = StartedBy(L, i - 1)
      BY <1>6, <1>8 DEF StartedBy
    <2>2. LastTurn(L, i) = m
      BY <2>1 DEF LastTurn, m
    <2>3. TurnsInOrder(L, i)
      <3>1. \A s \in 1 .. i : L[s].kind = "started" => s \in 1 .. i - 1
        BY <1>6, <1>8
      <3>2. \A s \in 1 .. i - 1 : \A u \in s + 1 .. i - 1 : u \in s + 1 .. i
        BY <1>1, <1>3
      <3> QED BY <1>4, <1>5, <1>6, <2>2, <3>1, <3>2 DEF TurnsInOrder, m
    <2> QED BY <1>2, <2>3
  <1>9. CASE L[i].kind = "started"
    <2>1. L[i].turn = m + 1
      BY <1>3, <1>9, NextRecord DEF m
    <2>2. StartedBy(L, i) = StartedBy(L, i - 1) \cup {m + 1}
      BY <1>6, <1>9, <2>1 DEF StartedBy
    <2>3. m + 1 \in Nat /\ \A u \in StartedBy(L, i) : u \in Nat /\ u <= m + 1
      BY <1>5, <1>7, <2>2
    <2>4. LastTurn(L, i) = m + 1
      BY <2>2, <2>3, LastTurnIs
    <2>5. ASSUME NEW s \in 1 .. i - 1, L[s].kind = "started"
          PROVE  1 <= L[s].turn /\ L[s].turn <= m /\ L[s].turn < m + 1 /\ L[s].turn <= m + 1
      <3>1. s \in 1 .. Len(L)
        BY <1>1, <1>3
      <3>2. L[s].turn \in Nat /\ 1 <= L[s].turn /\ L[s].turn <= m
        BY <1>1, <1>4, <2>5, <3>1, LogFacts DEF TurnsInOrder, m
      <3> QED BY <1>5, <3>2
    <2>6. ASSUME NEW s \in 1 .. i, L[s].kind = "started"
          PROVE  1 <= L[s].turn /\ L[s].turn <= m + 1
      BY <1>5, <1>6, <2>1, <2>5, <2>6
    <2>7. ASSUME NEW s \in 1 .. i, NEW u \in 1 .. i, L[s].kind = "started", L[u].kind = "started", s < u
          PROVE  L[s].turn < L[u].turn
      <3>1. CASE u = i
        <4>1. s \in 1 .. i - 1
          BY <1>3, <2>7, <3>1
        <4> QED BY <2>1, <2>5, <2>7, <3>1, <4>1
      <3>2. CASE u # i
        <4>1. s \in 1 .. i - 1 /\ u \in 1 .. i - 1
          BY <1>3, <2>7, <3>2
        <4> QED BY <1>4, <2>7, <4>1 DEF TurnsInOrder
      <3> QED BY <3>1, <3>2
    <2>8. ASSUME NEW s \in 1 .. i, L[s].kind = "started", \A u \in s + 1 .. i : L[u].kind # "started"
          PROVE  L[s].turn = m + 1
      <3>1. s = i
        BY <1>3, <1>9, <2>8
      <3> QED BY <2>1, <3>1
    <2>9. ~ \A s \in 1 .. i : L[s].kind # "started"
      BY <1>6, <1>9
    <2>10. TurnsInOrder(L, i)
      BY <2>3, <2>4, <2>6, <2>7, <2>8, <2>9 DEF TurnsInOrder
    <2> QED BY <1>2, <2>10
  <1> QED BY <1>8, <1>9

-----------------------------------------------------------------------------
(* What completes a turn: the completion of the open turn, or the same     *)
(* again right after it.                                                   *)
LEMMA Completing ==
    ASSUME NEW L, IsWritten(L), NEW i \in 1 .. Len(L), L[i].kind = "complete", ~Repeated(L, i)
    PROVE  /\ L[i].turn = LastTurn(L, i - 1) /\ 1 <= L[i].turn
           /\ \E s \in 1 .. i - 1 : /\ L[s].kind = "started" /\ L[s].turn = L[i].turn
                                    /\ \A j \in s + 1 .. i - 1 : L[j].kind \notin {"complete", "aborted"}
  <1>1. L[i].turn = LastTurn(L, i - 1) /\ OpenBy(L, i - 1)
    BY NextRecord
  <1>2. PICK s \in 1 .. i - 1 : /\ L[s].kind = "started" /\ L[s].turn = LastTurn(L, i - 1)
                                /\ \A j \in s + 1 .. i - 1 : L[j].kind \notin {"complete", "aborted"}
    BY <1>1 DEF OpenBy
  <1>3. TurnsInOrder(L, i - 1)
    <2>1. i - 1 \in 0 .. Len(L)
      BY LogFacts DEF IsWritten
    <2> QED BY <2>1, TurnsOrdered
  <1>4. 1 <= L[s].turn
    BY <1>2, <1>3 DEF TurnsInOrder
  <1> QED BY <1>1, <1>2, <1>4

LEMMA OwnStart ==
    ASSUME NEW L, IsWritten(L)
    PROVE  \A i \in 1 .. Len(L) : L[i].kind = "complete" =>
             \E s \in 1 .. i - 1 : L[s].kind = "started" /\ L[s].turn = L[i].turn
  <1> DEFINE Own(i) == \E s \in 1 .. i - 1 : L[s].kind = "started" /\ L[s].turn = L[i].turn
             Bad == {i \in 1 .. Len(L) : L[i].kind = "complete" /\ ~Own(i)}
  <1>1. Len(L) \in Nat
    BY LogFacts DEF IsWritten
  <1> SUFFICES ASSUME Bad # {} PROVE FALSE
    OBVIOUS
  <1>2. PICK i \in Bad : \A t \in Bad : i <= t
    <2>1. Bad \in SUBSET Nat
      BY <1>1
    <2> QED BY <2>1, LeastNumber
  <1>3. CASE ~Repeated(L, i)
    BY <1>2, <1>3, Completing
  <1>4. CASE Repeated(L, i)
    <2>1. i - 1 \in 1 .. Len(L) /\ L[i - 1] = L[i] /\ ~(i <= i - 1)
      BY <1>1, <1>4 DEF Repeated
    <2>2. Own(i - 1)
      BY <1>2, <2>1
    <2>3. PICK s \in 1 .. (i - 1) - 1 : L[s].kind = "started" /\ L[s].turn = L[i].turn
      BY <2>1, <2>2
    <2>4. s \in 1 .. i - 1
      BY <1>1
    <2>5. Own(i)
      BY <2>3, <2>4
    <2> QED BY <1>2, <2>5
  <1> QED BY <1>3, <1>4

(* No turn is completed again later.                                       *)
LEMMA FreshTurn ==
    ASSUME NEW L, IsWritten(L), NEW i \in 1 .. Len(L), L[i].kind = "complete", ~Repeated(L, i),
           NEW j \in 1 .. i - 1, L[j].kind = "complete"
    PROVE  L[j].turn # L[i].turn
  <1> SUFFICES ASSUME L[j].turn = L[i].turn PROVE FALSE
    OBVIOUS
  <1>1. Len(L) \in Nat /\ j \in 1 .. Len(L) /\ i - 1 \in 0 .. Len(L)
    BY LogFacts DEF IsWritten
  <1>2. PICK s \in 1 .. i - 1 : /\ L[s].kind = "started" /\ L[s].turn = L[i].turn
                                /\ \A k \in s + 1 .. i - 1 : L[k].kind \notin {"complete", "aborted"}
    BY Completing
  <1>3. PICK u \in 1 .. j - 1 : L[u].kind = "started" /\ L[u].turn = L[i].turn
    BY <1>1, OwnStart
  <1>4. TurnsInOrder(L, i - 1)
    BY <1>1, TurnsOrdered
  <1>5. L[s].turn \in Nat /\ L[u].turn \in Nat /\ u \in 1 .. i - 1
    <2>1. s \in 1 .. Len(L) /\ u \in 1 .. Len(L) /\ u \in 1 .. i - 1
      BY <1>1
    <2> QED BY <2>1, LogFacts DEF IsWritten
  <1>6. ~(s < u) /\ ~(u < s)
    BY <1>2, <1>3, <1>4, <1>5 DEF TurnsInOrder
  <1>7. j \in s + 1 .. i - 1
    BY <1>6
  <1> QED BY <1>2, <1>7

-----------------------------------------------------------------------------
(* The text of a completion.                                               *)
LEMMA OwnText ==
    ASSUME NEW L, NEW i, L[i].text # Blank
    PROVE  TextOf(L, i) = L[i].text
  BY DEF TextOf

LEMMA QuietText ==
    ASSUME NEW L, NEW i \in Nat, L[i].text = Blank,
           NEW j \in 1 .. i - 1, L[j].kind = "final", QuietFrom(L, j, i - 1)
    PROVE  TextOf(L, i) = L[j].text
  <1> DEFINE finals == {k \in 1 .. i - 1 : L[k].kind = "final" /\ QuietFrom(L, k, i - 1)}
  <1>1. ASSUME NEW k \in finals PROVE k = j
    <2>1. ~(k < j)
      <3>1. k < j => j \in k + 1 .. i - 1
        OBVIOUS
      <3> QED BY <1>1, <3>1 DEF QuietFrom
    <2>2. ~(j < k)
      <3>1. j < k => k \in j + 1 .. i - 1
        OBVIOUS
      <3> QED BY <1>1, <3>1 DEF QuietFrom
    <2> QED BY <2>1, <2>2
  <1>2. finals # {} /\ (CHOOSE k \in finals : TRUE) = j
    BY <1>1
  <1>3. finals = {k \in 1 .. i - 1 : L[k].kind = "final"
                    /\ \A m \in k + 1 .. i - 1 : L[m].kind \in {"other", "huge"}}
    BY DEF QuietFrom
  <1> HIDE DEF finals
  <1> QED BY <1>2, <1>3 DEF TextOf

LEMMA NoText ==
    ASSUME NEW L, NEW i \in Nat, L[i].text = Blank,
           ~ \E j \in 1 .. i - 1 : L[j].kind = "final" /\ QuietFrom(L, j, i - 1)
    PROVE  TextOf(L, i) = Blank
  <1> DEFINE finals == {k \in 1 .. i - 1 : L[k].kind = "final"
                    /\ \A m \in k + 1 .. i - 1 : L[m].kind \in {"other", "huge"}}
  <1>1. finals = {}
    BY DEF QuietFrom
  <1> QED BY <1>1 DEF TextOf

(* Which records answer a turn.                                            *)
LEMMA AnswersAre ==
    ASSUME NEW L, IsWritten(L)
    PROVE  /\ Answering(L) \subseteq 1 .. Len(L)
           /\ \A i \in Answering(L) : L[i].kind = "complete"
  BY LogFacts DEF Answering, IsWritten

LEMMA AnswersTurn ==
    ASSUME NEW L, IsWritten(L), NEW i \in 1 .. Len(L), L[i].kind = "complete", ~Repeated(L, i)
    PROVE  i \in Answering(L) <=> TextOf(L, i) # Blank
  <1>1. DOMAIN L = 1 .. Len(L)
    BY LogFacts DEF IsWritten
  <1>2. \A j \in 1 .. i - 1 : ~(L[j].kind = "complete" /\ L[j].turn = L[i].turn)
    BY FreshTurn
  <1> QED BY <1>1, <1>2 DEF Answering

LEMMA RepeatedIsNoAnswer ==
    ASSUME NEW L, IsWritten(L), NEW i \in 1 .. Len(L), L[i].kind = "complete", Repeated(L, i)
    PROVE  i \notin Answering(L)
  <1>1. Len(L) \in Nat /\ i - 1 \in 1 .. i - 1 /\ L[i - 1] = L[i]
    BY LogFacts DEF IsWritten, Repeated
  <1>2. CASE L[i].text # Blank
    <2>1. TextOf(L, i - 1) # Blank
      BY <1>1, <1>2, OwnText
    <2> QED BY <1>1, <2>1 DEF Answering
  <1>3. CASE L[i].text = Blank
    <2>1. ASSUME NEW j \in 1 .. i - 1, L[j].kind = "final", QuietFrom(L, j, i - 1) PROVE FALSE
      <3>1. j # i - 1
        BY <1>1, <2>1
      <3>2. i - 1 \in j + 1 .. i - 1
        BY <1>1, <3>1
      <3> QED BY <1>1, <2>1, <3>2 DEF QuietFrom
    <2>2. TextOf(L, i) = Blank
      BY <1>3, <2>1, NoText
    <2> QED BY <2>2 DEF Answering
  <1> QED BY <1>2, <1>3

(* After a completion with a text, the latest answer is that completion,   *)
(* or the one it repeats.                                                  *)
LEMMA LastAnswer ==
    ASSUME NEW L, IsWritten(L)
    PROVE  \A i \in 1 .. Len(L) : L[i].kind = "complete" /\ L[i].text # Blank =>
             \E m \in Answering(L) : m <= i /\ L[m] = L[i] /\ \A a \in Answering(L) : a <= i => a <= m
  <1> DEFINE ByLatest(i) == \E m \in Answering(L) : m <= i /\ L[m] = L[i] /\ \A a \in Answering(L) : a <= i => a <= m
             Bad == {i \in 1 .. Len(L) : L[i].kind = "complete" /\ L[i].text # Blank /\ ~ByLatest(i)}
  <1>1. Len(L) \in Nat
    BY LogFacts DEF IsWritten
  <1> SUFFICES ASSUME Bad # {} PROVE FALSE
    OBVIOUS
  <1>2. PICK i \in Bad : \A t \in Bad : i <= t
    <2>1. Bad \in SUBSET Nat
      BY <1>1
    <2> QED BY <2>1, LeastNumber
  <1>3. i \in 1 .. Len(L) /\ L[i].kind = "complete" /\ L[i].text # Blank /\ ~ByLatest(i)
    BY <1>2
  <1>4. CASE ~Repeated(L, i)
    <2>1. i \in Answering(L)
      BY <1>3, <1>4, AnswersTurn, OwnText
    <2>2. i <= i
      BY <1>1
    <2>3. ByLatest(i)
      BY <2>1, <2>2
    <2> QED BY <1>3, <2>3
  <1>5. CASE Repeated(L, i)
    <2>1. i - 1 \in 1 .. Len(L) /\ L[i - 1] = L[i] /\ ~(i <= i - 1)
      BY <1>1, <1>3, <1>5 DEF Repeated
    <2>2. ByLatest(i - 1)
      BY <1>2, <1>3, <2>1
    <2>3. PICK m \in Answering(L) : m <= i - 1 /\ L[m] = L[i] /\ \A a \in Answering(L) : a <= i - 1 => a <= m
      BY <2>1, <2>2
    <2>4. i \notin Answering(L)
      BY <1>3, <1>5, RepeatedIsNoAnswer
    <2>5. Answering(L) \subseteq Nat
      BY <1>1, AnswersAre
    <2>6. \A a \in Answering(L) : a <= i => a <= m
      BY <1>1, <1>3, <2>3, <2>4, <2>5
    <2>7. m <= i
      BY <1>1, <1>3, <2>3, <2>5
    <2>8. ByLatest(i)
      BY <2>3, <2>6, <2>7
    <2> QED BY <1>3, <2>8
  <1> QED BY <1>4, <1>5

-----------------------------------------------------------------------------
(* What the scan of records a + 1 to i has found.  Its answers are the     *)
(* latest answers up to i: order tells where each was given.               *)
Answers == [turn : Nat, text : Nat]
Shown(L, i, q, limit, whole) ==
    \E order \in [1 .. Len(q) -> Answering(L)] :
      /\ \A k \in 1 .. Len(q) :
           /\ order[k] <= i
           /\ q[k].text = TextOf(L, order[k])
           /\ \/ q[k].turn = L[order[k]].turn
              \/ q[k].turn = NoTurn /\ L[order[k]].text = Blank
           /\ \A x \in Answering(L) : x <= i =>
                (x > order[k] <=> \E j \in k + 1 .. Len(q) : x = order[j])
      /\ whole /\ Len(q) < limit =>
           \A x \in Answering(L) : x <= i => \E j \in 1 .. Len(q) : x = order[j]

(* The final answer that waits for its turn to complete.                   *)
Awaits(L, j, i) == L[j].kind = "final" /\ QuietFrom(L, j, i)
PendingIs(L, a, i, waits) ==
    \/ waits = {} /\ ~ \E j \in a + 1 .. i : Awaits(L, j, i)
    \/ \E j \in a + 1 .. i, t \in {NoTurn, LastTurn(L, i)} :
         Awaits(L, j, i) /\ waits = {[turn |-> t, text |-> L[j].text]}

ScanInv(L, a, limit, whole, st, i) ==
    /\ st = [responses |-> st.responses, pending |-> st.pending, turn |-> st.turn]
    /\ st.responses \in Seq(Answers) /\ Len(st.responses) <= limit
    /\ st.turn \in {NoTurn, LastTurn(L, i)}
    /\ PendingIs(L, a, i, st.pending)
    /\ QuietFrom(L, a, i) => st.responses = <<>>
    /\ Shown(L, i, st.responses, limit, whole)

LEMMA SameTurn ==
    ASSUME NEW L, NEW i \in Nat \ {0}, L[i].kind # "started"
    PROVE  LastTurn(L, i) = LastTurn(L, i - 1)
  <1>1. 1 .. i = (1 .. i - 1) \cup {i}
    OBVIOUS
  <1>2. StartedBy(L, i) = StartedBy(L, i - 1)
    BY <1>1 DEF StartedBy
  <1> QED BY <1>2 DEF LastTurn

LEMMA AwaitsStill ==
    ASSUME NEW L, NEW i \in Nat \ {0}, NEW a \in 0 .. i - 1
    PROVE  /\ L[i].kind \in {"other", "huge"} =>
                /\ \A j \in a + 1 .. i : Awaits(L, j, i) <=> j \in a + 1 .. i - 1 /\ Awaits(L, j, i - 1)
                /\ QuietFrom(L, a, i) <=> QuietFrom(L, a, i - 1)
           /\ L[i].kind \notin {"other", "huge"} =>
                /\ \A j \in a + 1 .. i : Awaits(L, j, i) <=> j = i /\ L[i].kind = "final"
                /\ ~QuietFrom(L, a, i)
  <1>1. ASSUME NEW j \in a .. i - 1, L[i].kind \in {"other", "huge"}
        PROVE  QuietFrom(L, j, i) <=> QuietFrom(L, j, i - 1)
    <2>1. j + 1 .. i = (j + 1 .. i - 1) \cup {i}
      BY <1>1
    <2> QED BY <1>1, <2>1 DEF QuietFrom
  <1>2. ASSUME NEW j \in a .. i - 1, L[i].kind \notin {"other", "huge"}
        PROVE  ~QuietFrom(L, j, i)
    <2>1. i \in j + 1 .. i
      BY <1>2
    <2> QED BY <1>2, <2>1 DEF QuietFrom
  <1>3. QuietFrom(L, i, i)
    <2>1. i + 1 .. i = {}
      OBVIOUS
    <2> QED BY <2>1 DEF QuietFrom
  <1>4. a \in a .. i - 1 /\ \A j \in a + 1 .. i : j \in a .. i - 1 \/ j = i
    OBVIOUS
  <1>5. \A j \in a + 1 .. i : j # i => j \in a .. i - 1 /\ j \in a + 1 .. i - 1
    OBVIOUS
  <1>6. ~(i \in a + 1 .. i - 1)
    OBVIOUS
  <1>7. CASE L[i].kind \in {"other", "huge"}
    <2>1. ASSUME NEW j \in a + 1 .. i PROVE Awaits(L, j, i) <=> j \in a + 1 .. i - 1 /\ Awaits(L, j, i - 1)
      BY <1>1, <1>5, <1>6, <1>7 DEF Awaits
    <2> QED BY <1>1, <1>4, <1>7, <2>1
  <1>8. CASE L[i].kind \notin {"other", "huge"}
    <2>1. ASSUME NEW j \in a + 1 .. i PROVE Awaits(L, j, i) <=> j = i /\ L[i].kind = "final"
      BY <1>2, <1>3, <1>5, <1>8 DEF Awaits
    <2> QED BY <1>2, <1>4, <1>8, <2>1
  <1> QED BY <1>7, <1>8

(* A record that answers no turn changes none of the answers.              *)
LEMMA ShownStays ==
    ASSUME NEW L, IsWritten(L), NEW i \in 1 .. Len(L), i \notin Answering(L),
           NEW q, NEW limit, NEW whole, Shown(L, i - 1, q, limit, whole)
    PROVE  Shown(L, i, q, limit, whole)
  <1>1. Answering(L) \subseteq Nat /\ Len(L) \in Nat
    BY AnswersAre, LogFacts DEF IsWritten
  <1>2. \A x \in Answering(L) : x <= i <=> x <= i - 1
    BY <1>1
  <1> QED BY <1>2 DEF Shown

(* A new answer.                                                           *)
LEMMA ShownNew ==
    ASSUME NEW L, IsWritten(L), NEW i \in 1 .. Len(L), NEW q \in Seq(Answers),
           NEW limit \in Nat, NEW whole, Shown(L, i - 1, q, limit, whole),
           i \in Answering(L), NEW e \in Answers, e.text = TextOf(L, i),
           e.turn = L[i].turn \/ (e.turn = NoTurn /\ L[i].text = Blank)
    PROVE  Shown(L, i, Append(q, e), limit, whole)
  <1>1. Answering(L) \subseteq Nat /\ Len(L) \in Nat /\ Len(q) \in Nat
    BY AnswersAre, LogFacts DEF IsWritten
  <1>2. PICK order \in [1 .. Len(q) -> Answering(L)] :
          /\ \A k \in 1 .. Len(q) :
               /\ order[k] <= i - 1
               /\ q[k].text = TextOf(L, order[k])
               /\ \/ q[k].turn = L[order[k]].turn
                  \/ q[k].turn = NoTurn /\ L[order[k]].text = Blank
               /\ \A x \in Answering(L) : x <= i - 1 =>
                    (x > order[k] <=> \E j \in k + 1 .. Len(q) : x = order[j])
          /\ whole /\ Len(q) < limit =>
               \A x \in Answering(L) : x <= i - 1 => \E j \in 1 .. Len(q) : x = order[j]
    BY DEF Shown
  <1> DEFINE n == Len(q)
             r == Append(q, e)
             new == [k \in 1 .. n + 1 |-> IF k <= n THEN order[k] ELSE i]
  <1>3. /\ Len(r) = n + 1 /\ n \in Nat /\ r[n + 1] = e /\ \A k \in 1 .. n : r[k] = q[k]
    BY <1>1
  <1>4. /\ new[n + 1] = i /\ n + 1 \in 1 .. n + 1
        /\ \A k \in 1 .. n : new[k] = order[k] /\ order[k] \in Answering(L) /\ k \in 1 .. n + 1
    BY <1>3
  <1>5. new \in [1 .. n + 1 -> Answering(L)]
    BY <1>3
  <1>6. \A k \in 1 .. n + 1 : k \in 1 .. n \/ k = n + 1
    BY <1>3
  <1> HIDE DEF new, r
  <1>7. ASSUME NEW k \in 1 .. n + 1
        PROVE  /\ new[k] <= i
               /\ r[k].text = TextOf(L, new[k])
               /\ \/ r[k].turn = L[new[k]].turn
                  \/ r[k].turn = NoTurn /\ L[new[k]].text = Blank
    <2>1. CASE k \in 1 .. n
      <3>1. new[k] <= i
        BY <1>1, <1>2, <1>4, <2>1
      <3> QED BY <1>2, <1>3, <1>4, <2>1, <3>1
    <2>2. CASE k = n + 1
      BY <1>1, <1>3, <1>4, <2>2
    <2> QED BY <1>6, <2>1, <2>2
  <1>8. ASSUME NEW k \in 1 .. n + 1, NEW x \in Answering(L), x <= i
        PROVE  x > new[k] <=> \E j \in k + 1 .. n + 1 : x = new[j]
    <2>1. CASE k = n + 1
      <3>1. (k + 1 .. n + 1) = {}
        BY <1>3, <2>1
      <3>2. ~(x > new[k])
        BY <1>1, <1>4, <1>8, <2>1
      <3> QED BY <3>1, <3>2
    <2>2. CASE k \in 1 .. n /\ x = i
      <3>1. x > new[k]
        BY <1>1, <1>2, <1>4, <2>2
      <3>2. n + 1 \in k + 1 .. n + 1
        BY <1>3, <2>2
      <3> QED BY <1>4, <2>2, <3>1, <3>2
    <2>3. CASE k \in 1 .. n /\ x # i
      <3>1. x <= i - 1
        BY <1>1, <1>8, <2>3
      <3>2. x > new[k] <=> \E j \in k + 1 .. n : x = order[j]
        BY <1>2, <1>4, <2>3, <3>1
      <3>3. \A j \in k + 1 .. n + 1 : (j \in k + 1 .. n /\ j \in 1 .. n) \/ j = n + 1
        BY <1>3, <2>3
      <3>4. \A j \in k + 1 .. n : j \in 1 .. n /\ j \in k + 1 .. n + 1
        BY <1>3, <2>3
      <3> QED BY <1>4, <2>3, <3>2, <3>3, <3>4
    <2> QED BY <1>6, <2>1, <2>2, <2>3
  <1>9. ASSUME whole, n + 1 < limit, NEW x \in Answering(L), x <= i
        PROVE  \E j \in 1 .. n + 1 : x = new[j]
    <2>1. CASE x = i
      BY <1>4, <2>1
    <2>2. CASE x # i
      <3>1. x <= i - 1 /\ n < limit
        BY <1>1, <1>9, <2>2
      <3>2. PICK j \in 1 .. n : x = order[j]
        BY <1>2, <1>9, <3>1
      <3> QED BY <1>4, <3>2
    <2> QED BY <2>1, <2>2
  <1>10. Shown(L, i, r, limit, whole)
    <2> DEFINE m == n + 1
               h == Len(r)
    <2>1. h = m /\ new \in [1 .. m -> Answering(L)]
      BY <1>3, <1>5
    <2>2. \A k \in 1 .. m :
            /\ new[k] <= i
            /\ r[k].text = TextOf(L, new[k])
            /\ \/ r[k].turn = L[new[k]].turn
               \/ r[k].turn = NoTurn /\ L[new[k]].text = Blank
            /\ \A x \in Answering(L) : x <= i => (x > new[k] <=> \E j \in k + 1 .. m : x = new[j])
      BY <1>7, <1>8
    <2>3. whole /\ m < limit => \A x \in Answering(L) : x <= i => \E j \in 1 .. m : x = new[j]
      BY <1>9
    <2> HIDE DEF m, h
    <2>4. /\ new \in [1 .. h -> Answering(L)]
          /\ \A k \in 1 .. h :
               /\ new[k] <= i
               /\ r[k].text = TextOf(L, new[k])
               /\ \/ r[k].turn = L[new[k]].turn
                  \/ r[k].turn = NoTurn /\ L[new[k]].text = Blank
               /\ \A x \in Answering(L) : x <= i =>
                    (x > new[k] <=> \E j \in k + 1 .. h : x = new[j])
          /\ whole /\ h < limit =>
               \A x \in Answering(L) : x <= i => \E j \in 1 .. h : x = new[j]
      BY <2>1, <2>2, <2>3
    <2> QED BY <2>4, Zenon DEF Shown, h
  <1> QED BY <1>10 DEF r

(* The first answer of a tail that begins behind it.                       *)
LEMMA ShownFirst ==
    ASSUME NEW L, IsWritten(L), NEW i \in 1 .. Len(L), NEW m \in Answering(L), m <= i,
           \A x \in Answering(L) : x <= i => x <= m,
           NEW limit, NEW e \in Answers, e.text = TextOf(L, m), e.turn = L[m].turn
    PROVE  Shown(L, i, <<e>>, limit, FALSE)
  <1>1. Answering(L) \subseteq Nat
    BY AnswersAre, LogFacts DEF IsWritten
  <1>2. Len(<<e>>) = 1 /\ <<e>>[1] = e /\ 1 .. 1 = {1} /\ 1 + 1 .. 1 = {}
    OBVIOUS
  <1> DEFINE order == [k \in 1 .. 1 |-> m]
  <1>3. order \in [1 .. 1 -> Answering(L)] /\ order[1] = m
    OBVIOUS
  <1>4. \A x \in Answering(L) : x <= i => ~(x > m)
    BY <1>1
  <1> HIDE DEF order
  <1>5. \A k \in 1 .. 1 :
           /\ order[k] <= i
           /\ <<e>>[k].text = TextOf(L, order[k])
           /\ <<e>>[k].turn = L[order[k]].turn
           /\ \A x \in Answering(L) : x <= i => (x > order[k] <=> \E j \in k + 1 .. 1 : x = order[j])
    BY <1>2, <1>3, <1>4
  <1> QED BY <1>2, <1>3, <1>5 DEF Shown

(* The oldest answer goes when there are too many.                         *)
LEMMA ShownTail ==
    ASSUME NEW L, IsWritten(L), NEW i \in Nat, NEW q \in Seq(Answers), NEW limit \in Nat,
           Len(q) = limit + 1, NEW whole, Shown(L, i, q, limit, whole)
    PROVE  Shown(L, i, Tail(q), limit, whole) /\ Tail(q) \in Seq(Answers) /\ Len(Tail(q)) = limit
  <1>1. Answering(L) \subseteq Nat
    BY AnswersAre, LogFacts DEF IsWritten
  <1>2. PICK order \in [1 .. Len(q) -> Answering(L)] :
          \A k \in 1 .. Len(q) :
               /\ order[k] <= i
               /\ q[k].text = TextOf(L, order[k])
               /\ \/ q[k].turn = L[order[k]].turn
                  \/ q[k].turn = NoTurn /\ L[order[k]].text = Blank
               /\ \A x \in Answering(L) : x <= i =>
                    (x > order[k] <=> \E j \in k + 1 .. Len(q) : x = order[j])
    BY DEF Shown
  <1> DEFINE r == Tail(q)
             new == [k \in 1 .. limit |-> order[k + 1]]
  <1>3. /\ r \in Seq(Answers) /\ Len(r) = limit /\ \A k \in 1 .. limit : r[k] = q[k + 1]
    OBVIOUS
  <1>4. \A k \in 1 .. limit : k + 1 \in 1 .. Len(q) /\ new[k] = order[k + 1]
    OBVIOUS
  <1>5. new \in [1 .. limit -> Answering(L)]
    BY <1>4
  <1> HIDE DEF new, r
  <1>6. ASSUME NEW k \in 1 .. limit, NEW x \in Answering(L), x <= i
        PROVE  x > new[k] <=> \E j \in k + 1 .. limit : x = new[j]
    <2> DEFINE l == k + 1
    <2>1. l \in 1 .. Len(q) /\ new[k] = order[l]
      BY <1>4
    <2> HIDE DEF l
    <2>2. x > new[k] <=> \E j \in l + 1 .. Len(q) : x = order[j]
      BY <1>2, <1>6, <2>1
    <2>3. ASSUME NEW j \in l + 1 .. Len(q) PROVE j - 1 \in k + 1 .. limit /\ new[j - 1] = order[j]
      <3>1. j - 1 \in k + 1 .. limit /\ j - 1 \in 1 .. limit /\ (j - 1) + 1 = j
        BY <2>3 DEF l
      <3> DEFINE h == j - 1
      <3>2. new[h] = order[h + 1]
        BY <1>4, <3>1
      <3> QED BY <3>1, <3>2
    <2>4. ASSUME NEW j \in k + 1 .. limit PROVE j + 1 \in l + 1 .. Len(q) /\ new[j] = order[j + 1]
      BY <1>4, <2>4 DEF l
    <2> QED BY <2>2, <2>3, <2>4
  <1>7. ASSUME NEW k \in 1 .. limit
        PROVE  /\ new[k] <= i
               /\ r[k].text = TextOf(L, new[k])
               /\ \/ r[k].turn = L[new[k]].turn
                  \/ r[k].turn = NoTurn /\ L[new[k]].text = Blank
    <2> DEFINE l == k + 1
    <2>1. l \in 1 .. Len(q) /\ new[k] = order[l] /\ r[k] = q[l]
      BY <1>3, <1>4
    <2> HIDE DEF l
    <2> QED BY <1>2, <2>1
  <1>8. Shown(L, i, r, limit, whole)
    <2>1. new \in [1 .. Len(r) -> Answering(L)] /\ ~(Len(r) < limit)
      BY <1>3, <1>5
    <2>2. \A k \in 1 .. Len(r) :
            /\ new[k] <= i
            /\ r[k].text = TextOf(L, new[k])
            /\ \/ r[k].turn = L[new[k]].turn
               \/ r[k].turn = NoTurn /\ L[new[k]].text = Blank
            /\ \A x \in Answering(L) : x <= i =>
                 (x > new[k] <=> \E j \in k + 1 .. Len(r) : x = new[j])
      BY <1>3, <1>6, <1>7
    <2> QED BY <2>1, <2>2 DEF Shown
  <1> QED BY <1>3, <1>8 DEF r

-----------------------------------------------------------------------------
(* A completion.                                                           *)
Candidates(st, r) ==
    IF r.text # Blank THEN {[turn |-> r.turn, text |-> r.text]}
                      ELSE {p \in st.pending : p.turn \in {NoTurn, r.turn}}
Known(q, e) == e.turn # NoTurn /\ \E k \in DOMAIN q : q[k].turn = e.turn
Taken(st, r) == {e \in Candidates(st, r) : e.text # Blank /\ ~Known(st.responses, e)}
WithTaken(st, r) ==
    IF Taken(st, r) = {} THEN st.responses ELSE Append(st.responses, CHOOSE e \in Taken(st, r) : TRUE)

Kept(limit, all) == IF Len(all) > limit THEN Tail(all) ELSE all

LEMMA StateFields ==
    ASSUME NEW u, NEW v, NEW w, NEW x, NEW y
    PROVE  [[responses |-> u, pending |-> v, turn |-> w] EXCEPT !.pending = y, !.responses = x] =
             [responses |-> x, pending |-> y, turn |-> w]
  <1> DEFINE old == [responses |-> u, pending |-> v, turn |-> w]
             new == [old EXCEPT !.pending = y, !.responses = x]
  <1>1. DOMAIN old = {"responses", "pending", "turn"} /\ old.turn = w
    OBVIOUS
  <1>2. new = [f \in {"responses", "pending", "turn"} |-> new[f]]
    BY <1>1
  <1>3. new.pending = y /\ new.responses = x /\ new.turn = w
    BY <1>1
  <1> HIDE DEF new
  <1>4. new = [responses |-> x, pending |-> y, turn |-> w]
    BY <1>2, <1>3
  <1> QED BY <1>4 DEF new

LEMMA CompletionScanned ==
    ASSUME NEW limit, NEW st, NEW r, r.kind = "complete",
           st = [responses |-> st.responses, pending |-> st.pending, turn |-> st.turn]
    PROVE  Scan(limit, st, r) =
             [responses |-> Kept(limit, WithTaken(st, r)), pending |-> {}, turn |-> st.turn]
  <1>1. Scan(limit, st, r) =
          [st EXCEPT !.pending = {}, !.responses = Kept(limit, WithTaken(st, r))]
    BY DEF Scan, WithTaken, Taken, Known, Candidates, Kept
  <1> QED BY <1>1, StateFields, Zenon

LEMMA TakenOne ==
    ASSUME NEW st, NEW r, NEW e, Candidates(st, r) = {e}
    PROVE  /\ e.text # Blank /\ ~Known(st.responses, e) => WithTaken(st, r) = Append(st.responses, e)
           /\ e.text = Blank \/ Known(st.responses, e) => WithTaken(st, r) = st.responses
  <1>1. CASE e.text # Blank /\ ~Known(st.responses, e)
    <2>1. Taken(st, r) = {e}
      BY <1>1 DEF Taken
    <2>2. Taken(st, r) # {} /\ (CHOOSE x \in Taken(st, r) : TRUE) = e
      BY <2>1
    <2> QED BY <1>1, <2>2 DEF WithTaken
  <1>2. CASE ~(e.text # Blank /\ ~Known(st.responses, e))
    <2>1. Taken(st, r) = {}
      BY <1>2 DEF Taken
    <2> QED BY <1>2, <2>1 DEF WithTaken
  <1> QED BY <1>1, <1>2

LEMMA TakenNone ==
    ASSUME NEW st, NEW r, Candidates(st, r) = {}
    PROVE  WithTaken(st, r) = st.responses
  BY DEF WithTaken, Taken

(* What the answers are after a completion.                                *)
AnswersTaken(L, limit, whole, st, i) ==
    /\ \/ WithTaken(st, L[i]) = st.responses
       \/ \E e \in Answers : WithTaken(st, L[i]) = Append(st.responses, e)
    /\ Shown(L, i, WithTaken(st, L[i]), limit, whole)

LEMMA TurnOfCompletion ==
    ASSUME NEW L, IsWritten(L), NEW i \in 1 .. Len(L), L[i].kind = "complete"
    PROVE  L[i].turn # NoTurn /\ L[i].turn \in Nat /\ L[i].text \in Nat
  <1>1. Len(L) \in Nat /\ L[i].turn \in Nat /\ L[i].text \in Nat
    BY LogFacts DEF IsWritten
  <1>2. PICK s \in 1 .. i - 1 : L[s].kind = "started" /\ L[s].turn = L[i].turn
    BY OwnStart
  <1>3. i - 1 \in 0 .. Len(L)
    BY <1>1
  <1>4. 1 <= L[s].turn
    BY <1>2, <1>3, TurnsOrdered DEF TurnsInOrder
  <1> QED BY <1>1, <1>2, <1>4 DEF NoTurn

LEMMA RepeatedTaken ==
    ASSUME NEW L, IsWritten(L), NEW i \in 1 .. Len(L), L[i].kind = "complete", Repeated(L, i),
           NEW a \in 0 .. i - 1, NEW limit \in Nat \ {0}, NEW whole \in BOOLEAN, NEW st,
           ScanInv(L, a, limit, whole, st, i - 1)
    PROVE  AnswersTaken(L, limit, whole, st, i)
  <1> DEFINE q == st.responses
             r == L[i]
             n == Len(q)
  <1>1. /\ Len(L) \in Nat /\ i - 1 \in 1 .. Len(L) /\ i - 1 \in 1 .. i - 1 /\ L[i - 1] = r
        /\ ~(i <= i - 1)
    BY LogFacts DEF IsWritten, Repeated
  <1>2. q \in Seq(Answers) /\ n \in Nat /\ DOMAIN q = 1 .. n /\ Shown(L, i - 1, q, limit, whole)
    BY DEF ScanInv
  <1>3. i \notin Answering(L) /\ Answering(L) \subseteq Nat
    BY RepeatedIsNoAnswer, AnswersAre, <1>1
  <1>4. Shown(L, i, q, limit, whole)
    BY <1>2, <1>3, ShownStays
  <1>5. CASE r.text = Blank
    <2>1. \A j \in a + 1 .. i - 1 : ~Awaits(L, j, i - 1)
      <3> SUFFICES ASSUME NEW j \in a + 1 .. i - 1, Awaits(L, j, i - 1) PROVE FALSE
        OBVIOUS
      <3>1. j # i - 1
        BY <1>1 DEF Awaits
      <3>2. i - 1 \in j + 1 .. i - 1
        BY <1>1, <3>1
      <3> QED BY <1>1, <3>2 DEF Awaits, QuietFrom
    <2>2. st.pending = {}
      BY <2>1 DEF ScanInv, PendingIs
    <2>3. Candidates(st, r) = {}
      BY <1>5, <2>2 DEF Candidates
    <2> QED BY <1>4, <2>3, TakenNone DEF AnswersTaken
  <1>6. CASE r.text # Blank
    <2> DEFINE e == [turn |-> r.turn, text |-> r.text]
    <2>1. Candidates(st, r) = {e}
      BY <1>6 DEF Candidates
    <2>2. e \in Answers /\ e.turn = r.turn /\ e.text = r.text /\ r.turn # NoTurn
      BY TurnOfCompletion DEF Answers
    <2>3. PICK m \in Answering(L) : /\ m <= i - 1 /\ L[m] = r
                                    /\ \A x \in Answering(L) : x <= i - 1 => x <= m
      BY <1>1, <1>6, LastAnswer
    <2>4. m \in Nat /\ m <= i /\ \A x \in Answering(L) : x <= i => x <= m
      BY <1>1, <1>3, <2>3
    <2> HIDE DEF e
    <2>5. CASE Known(q, e)
      <3>1. WithTaken(st, r) = q
        BY <2>1, <2>5, TakenOne
      <3> QED BY <1>4, <3>1 DEF AnswersTaken
    <2>6. CASE ~Known(q, e)
      <3>1. PICK order \in [1 .. n -> Answering(L)] :
              /\ \A k \in 1 .. n :
                   /\ order[k] <= i - 1
                   /\ \/ q[k].turn = L[order[k]].turn
                      \/ q[k].turn = NoTurn /\ L[order[k]].text = Blank
                   /\ \A x \in Answering(L) : x <= i - 1 =>
                        (x > order[k] <=> \E j \in k + 1 .. n : x = order[j])
              /\ whole /\ n < limit =>
                   \A x \in Answering(L) : x <= i - 1 => \E j \in 1 .. n : x = order[j]
        BY <1>2 DEF Shown
      <3>2. n = 0
        <4> SUFFICES ASSUME n # 0 PROVE FALSE
          OBVIOUS
        <4>1. n \in 1 .. n /\ n + 1 .. n = {}
          BY <1>2
        <4>2. order[n] \in Answering(L) /\ order[n] \in Nat
          BY <1>3, <4>1
        <4>3. ~(m > order[n])
          BY <2>3, <3>1, <4>1
        <4>4. order[n] = m
          <5>1. order[n] <= i - 1
            BY <3>1, <4>1
          <5>2. order[n] <= m
            BY <2>3, <4>2, <5>1
          <5> QED BY <2>4, <4>2, <4>3, <5>2
        <4>5. q[n].turn = r.turn
          BY <1>6, <2>3, <3>1, <4>1, <4>4
        <4> QED BY <1>2, <2>2, <2>6, <4>1, <4>5 DEF Known
      <3>3. whole = FALSE
        <4>1. n < limit /\ 1 .. n = {}
          BY <3>2
        <4> QED BY <2>3, <3>1, <4>1
      <3>4. TextOf(L, m) = r.text
        BY <1>6, <2>3, OwnText
      <3>5. Shown(L, i, <<e>>, limit, FALSE)
        BY <2>2, <2>3, <2>4, <3>4, ShownFirst
      <3>6. Append(q, e) = <<e>>
        <4>1. q = <<>>
          BY <1>2, <3>2
        <4> QED BY <2>2, <4>1
      <3>7. WithTaken(st, r) = Append(q, e)
        BY <1>6, <2>1, <2>2, <2>6, TakenOne
      <3> QED BY <2>2, <3>3, <3>5, <3>6, <3>7 DEF AnswersTaken
    <2> QED BY <2>5, <2>6
  <1> QED BY <1>5, <1>6

LEMMA FreshTaken ==
    ASSUME NEW L, IsWritten(L), NEW i \in 1 .. Len(L), L[i].kind = "complete", ~Repeated(L, i),
           NEW a \in 0 .. i - 1, NEW limit \in Nat \ {0}, NEW whole \in BOOLEAN, whole => a = 0, NEW st,
           ScanInv(L, a, limit, whole, st, i - 1)
    PROVE  AnswersTaken(L, limit, whole, st, i)
  <1> DEFINE q == st.responses
             r == L[i]
             n == Len(q)
  <1>1. Len(L) \in Nat /\ i \in Nat
    BY LogFacts DEF IsWritten
  <1>2. q \in Seq(Answers) /\ n \in Nat /\ DOMAIN q = 1 .. n /\ Shown(L, i - 1, q, limit, whole)
    BY DEF ScanInv
  <1>3. r.turn = LastTurn(L, i - 1) /\ r.turn # NoTurn /\ r.turn \in Nat /\ r.text \in Nat
    BY Completing, TurnOfCompletion
  <1>4. i \in Answering(L) <=> TextOf(L, i) # Blank
    BY AnswersTurn
  <1>5. ASSUME NEW e, e.turn \in {NoTurn, r.turn} PROVE ~Known(q, e)
    <2> SUFFICES ASSUME e.turn = r.turn, NEW k \in 1 .. n, q[k].turn = r.turn PROVE FALSE
      BY <1>2, <1>5 DEF Known
    <2>1. PICK order \in [1 .. n -> Answering(L)] :
              \A l \in 1 .. n : /\ order[l] <= i - 1
                                /\ \/ q[l].turn = L[order[l]].turn
                                   \/ q[l].turn = NoTurn /\ L[order[l]].text = Blank
      BY <1>2 DEF Shown
    <2> DEFINE m == order[k]
    <2>2. m \in Answering(L) /\ m <= i - 1 /\ L[m].turn = r.turn
      BY <1>3, <2>1
    <2> HIDE DEF m
    <2>3. m \in 1 .. i - 1 /\ L[m].kind = "complete"
      <3>1. m \in 1 .. Len(L) /\ L[m].kind = "complete"
        BY <2>2, AnswersAre
      <3> QED BY <1>1, <2>2, <3>1
    <2> QED BY <2>2, <2>3, FreshTurn
  <1>6. CASE r.text # Blank
    <2> DEFINE e == [turn |-> r.turn, text |-> r.text]
    <2>1. Candidates(st, r) = {e}
      BY <1>6 DEF Candidates
    <2>2. e \in Answers /\ e.turn = r.turn /\ e.text = r.text
      BY <1>3 DEF Answers
    <2> HIDE DEF e
    <2>3. WithTaken(st, r) = Append(q, e)
      BY <1>5, <1>6, <2>1, <2>2, TakenOne
    <2>4. TextOf(L, i) = r.text /\ i \in Answering(L)
      BY <1>4, <1>6, OwnText
    <2>5. Shown(L, i, Append(q, e), limit, whole)
      BY <1>2, <2>2, <2>4, ShownNew
    <2> QED BY <2>2, <2>3, <2>5 DEF AnswersTaken
  <1>7. CASE r.text = Blank /\ st.pending = {}
    <2>1. \A j \in a + 1 .. i - 1 : ~Awaits(L, j, i - 1)
      BY <1>7 DEF ScanInv, PendingIs
    <2>2. Candidates(st, r) = {}
      BY <1>7 DEF Candidates
    <2>3. WithTaken(st, r) = q
      BY <2>2, TakenNone
    <2>4. CASE TextOf(L, i) = Blank
      <3>1. Shown(L, i, q, limit, whole)
        BY <1>2, <1>4, <2>4, ShownStays
      <3> QED BY <2>3, <3>1 DEF AnswersTaken
    <2>5. CASE TextOf(L, i) # Blank
      <3>1. PICK j \in 1 .. i - 1 : L[j].kind = "final" /\ QuietFrom(L, j, i - 1)
        BY <1>1, <1>7, <2>5, NoText
      <3>2. j <= a
        BY <2>1, <3>1 DEF Awaits
      <3>3. QuietFrom(L, a, i - 1)
        <4>1. \A k \in a + 1 .. i - 1 : k \in j + 1 .. i - 1
          BY <3>2
        <4> QED BY <3>1, <4>1 DEF QuietFrom
      <3>4. q = <<>> /\ whole = FALSE
        BY <3>2, <3>3 DEF ScanInv
      <3>5. Shown(L, i, <<>>, limit, FALSE)
        <4> DEFINE order == [k \in 1 .. 0 |-> i]
        <4>1. Len(<<>>) = 0 /\ 1 .. 0 = {}
          OBVIOUS
        <4>2. order \in [1 .. 0 -> Answering(L)]
          BY <4>1
        <4> QED BY <4>1, <4>2 DEF Shown
      <3> QED BY <2>3, <3>4, <3>5 DEF AnswersTaken
    <2> QED BY <2>4, <2>5
  <1>8. CASE r.text = Blank /\ st.pending # {}
    <2>1. PICK j \in a + 1 .. i - 1, t \in {NoTurn, LastTurn(L, i - 1)} :
            Awaits(L, j, i - 1) /\ st.pending = {[turn |-> t, text |-> L[j].text]}
      BY <1>8 DEF ScanInv, PendingIs
    <2> DEFINE e == [turn |-> t, text |-> L[j].text]
    <2>2. e.turn = t /\ e.text = L[j].text /\ t \in {NoTurn, r.turn}
      BY <1>3, <2>1
    <2>3. j \in 1 .. i - 1 /\ j \in 1 .. Len(L)
      BY <1>1
    <2>4. e \in Answers
      BY <1>3, <2>2, <2>3, LogFacts DEF Answers, IsWritten, NoTurn
    <2> HIDE DEF e
    <2>5. Candidates(st, r) = {e}
      BY <1>8, <2>1, <2>2 DEF Candidates, e
    <2>6. TextOf(L, i) = e.text
      BY <1>1, <1>8, <2>1, <2>2, <2>3, QuietText DEF Awaits
    <2>7. ~Known(q, e)
      BY <1>5, <2>2
    <2>8. CASE e.text = Blank
      <3>1. Shown(L, i, q, limit, whole)
        BY <1>2, <1>4, <2>6, <2>8, ShownStays
      <3> QED BY <2>5, <2>8, <3>1, TakenOne DEF AnswersTaken
    <2>9. CASE e.text # Blank
      <3>1. WithTaken(st, r) = Append(q, e)
        BY <2>5, <2>7, <2>9, TakenOne
      <3>2. Shown(L, i, Append(q, e), limit, whole)
        BY <1>2, <1>4, <1>8, <2>2, <2>4, <2>6, <2>9, ShownNew
      <3> QED BY <2>4, <3>1, <3>2 DEF AnswersTaken
    <2> QED BY <2>8, <2>9
  <1> QED BY <1>6, <1>7, <1>8

-----------------------------------------------------------------------------
(* One record is scanned.                                                  *)
LEMMA ScanKeeps ==
    ASSUME NEW L, IsWritten(L), NEW i \in 1 .. Len(L),
           NEW a \in 0 .. i - 1, NEW limit \in Nat \ {0}, NEW whole \in BOOLEAN, whole => a = 0, NEW st,
           ScanInv(L, a, limit, whole, st, i - 1)
    PROVE  ScanInv(L, a, limit, whole, Scan(limit, st, L[i]), i)
  <1> DEFINE r == L[i]
             new == Scan(limit, st, r)
             q == st.responses
  <1>1. Len(L) \in Nat /\ i \in Nat \ {0} /\ i \in a + 1 .. i /\ r.turn \in Nat /\ r.text \in Nat
    BY LogFacts DEF IsWritten
  <1>2. /\ st = [responses |-> q, pending |-> st.pending, turn |-> st.turn]
        /\ q \in Seq(Answers) /\ Len(q) <= limit /\ Len(q) \in Nat
        /\ st.turn \in {NoTurn, LastTurn(L, i - 1)}
        /\ PendingIs(L, a, i - 1, st.pending)
        /\ QuietFrom(L, a, i - 1) => q = <<>>
        /\ Shown(L, i - 1, q, limit, whole)
    BY DEF ScanInv
  <1>3. r.kind \in {"other", "huge", "started", "final", "complete", "aborted"}
    BY NextRecord
  <1>4. r.kind # "complete" => Shown(L, i, q, limit, whole)
    BY <1>2, AnswersAre, ShownStays
  <1>5. CASE r.kind \in {"other", "huge"}
    <2>1. new = st
      BY <1>5 DEF Scan
    <2>2. LastTurn(L, i) = LastTurn(L, i - 1)
      BY <1>1, <1>5, SameTurn
    <2>3. /\ \A j \in a + 1 .. i : Awaits(L, j, i) <=> j \in a + 1 .. i - 1 /\ Awaits(L, j, i - 1)
          /\ QuietFrom(L, a, i) <=> QuietFrom(L, a, i - 1)
      BY <1>1, <1>5, AwaitsStill
    <2>4. \A j \in a + 1 .. i - 1 : j \in a + 1 .. i
      BY <1>1
    <2>5. PendingIs(L, a, i, st.pending)
      BY <1>2, <2>2, <2>3, <2>4 DEF PendingIs
    <2> QED BY <1>2, <1>4, <1>5, <2>1, <2>2, <2>3, <2>5 DEF ScanInv
  <1>6. ASSUME r.kind \notin {"other", "huge"}
        PROVE  /\ \A j \in a + 1 .. i : Awaits(L, j, i) <=> j = i /\ r.kind = "final"
               /\ ~QuietFrom(L, a, i)
    BY <1>1, <1>6, AwaitsStill
  <1>7. CASE r.kind = "started"
    <2>1. new = [responses |-> q, pending |-> {}, turn |-> r.turn]
      BY <1>2, <1>7 DEF Scan
    <2>2. r.turn = LastTurn(L, i)
      <3>1. i \in 0 .. Len(L) /\ i \in 1 .. i /\ i + 1 .. i = {}
        BY <1>1
      <3> QED BY <1>7, <3>1, TurnsOrdered DEF TurnsInOrder
    <2>3. PendingIs(L, a, i, {})
      BY <1>6, <1>7 DEF PendingIs
    <2> QED BY <1>2, <1>4, <1>6, <1>7, <2>1, <2>2, <2>3 DEF ScanInv
  <1>8. CASE r.kind = "final"
    <2>1. new = [responses |-> q, pending |-> {[turn |-> st.turn, text |-> r.text]}, turn |-> st.turn]
      BY <1>2, <1>8 DEF Scan
    <2>2. LastTurn(L, i) = LastTurn(L, i - 1)
      BY <1>1, <1>8, SameTurn
    <2>3. PendingIs(L, a, i, {[turn |-> st.turn, text |-> r.text]})
      BY <1>1, <1>2, <1>6, <1>8, <2>2 DEF PendingIs
    <2> QED BY <1>2, <1>4, <1>6, <1>8, <2>1, <2>2, <2>3 DEF ScanInv
  <1>9. CASE r.kind = "aborted"
    <2>1. new = [responses |-> q, pending |-> {}, turn |-> st.turn]
      BY <1>2, <1>9 DEF Scan
    <2>2. LastTurn(L, i) = LastTurn(L, i - 1)
      BY <1>1, <1>9, SameTurn
    <2>3. PendingIs(L, a, i, {})
      BY <1>6, <1>9 DEF PendingIs
    <2> QED BY <1>2, <1>4, <1>6, <1>9, <2>1, <2>2, <2>3 DEF ScanInv
  <1>10. CASE r.kind = "complete"
    <2> DEFINE all == WithTaken(st, r)
               p == Kept(limit, all)
    <2>1. new = [responses |-> p, pending |-> {}, turn |-> st.turn]
      BY <1>2, <1>10, CompletionScanned, Zenon
    <2>2. AnswersTaken(L, limit, whole, st, i)
      BY <1>10, RepeatedTaken, FreshTaken
    <2>a. (all = q \/ \E e \in Answers : all = Append(q, e)) /\ Shown(L, i, all, limit, whole)
      BY <2>2 DEF AnswersTaken
    <2> HIDE DEF all
    <2>3. all \in Seq(Answers) /\ Len(all) \in Nat /\ Len(all) <= limit + 1 /\ Shown(L, i, all, limit, whole)
      <3>1. q \in Seq(Answers) /\ Len(q) <= limit /\ Len(q) \in Nat
        BY <1>2
      <3> HIDE DEF q
      <3>2. CASE all = q
        BY <2>a, <3>1, <3>2
      <3>3. CASE \E e \in Answers : all = Append(q, e)
        <4>1. PICK e \in Answers : all = Append(q, e)
          BY <3>3
        <4>2. all \in Seq(Answers) /\ Len(all) = Len(q) + 1
          BY <3>1, <4>1
        <4> QED BY <2>a, <3>1, <4>2
      <3> QED BY <2>a, <3>2, <3>3
    <2>4. p \in Seq(Answers) /\ Len(p) <= limit /\ Shown(L, i, p, limit, whole)
      <3>1. CASE Len(all) > limit
        <4>1. Len(all) = limit + 1
          BY <2>3, <3>1
        <4> QED BY <1>1, <2>3, <3>1, <4>1, ShownTail DEF Kept
      <3>2. CASE ~(Len(all) > limit)
        BY <2>3, <3>2 DEF Kept
      <3> QED BY <3>1, <3>2 DEF Kept
    <2> HIDE DEF p
    <2>5. LastTurn(L, i) = LastTurn(L, i - 1)
      BY <1>1, <1>10, SameTurn
    <2>6. PendingIs(L, a, i, {})
      BY <1>6, <1>10 DEF PendingIs
    <2> QED BY <1>2, <1>6, <1>10, <2>1, <2>4, <2>5, <2>6 DEF ScanInv
  <1> QED BY <1>3, <1>5, <1>7, <1>8, <1>9, <1>10

(* Before the first record of a tail.                                      *)
LEMMA ScanBegins ==
    ASSUME NEW L, IsWritten(L), NEW a \in 0 .. Len(L), NEW limit \in Nat \ {0}, NEW whole \in BOOLEAN,
           whole => a = 0
    PROVE  ScanInv(L, a, limit, whole, Unread, a)
  <1>1. a \in Nat /\ a + 1 .. a = {} /\ 1 .. 0 = {} /\ Len(<<>>) = 0 /\ <<>> \in Seq(Answers)
    BY LogFacts DEF IsWritten
  <1>2. Unread = [responses |-> <<>>, pending |-> {}, turn |-> NoTurn]
    BY DEF Unread
  <1>3. PendingIs(L, a, a, {})
    BY <1>1 DEF PendingIs
  <1>4. Shown(L, a, <<>>, limit, whole)
    <2> DEFINE order == [k \in 1 .. 0 |-> a]
    <2>1. order \in [1 .. 0 -> Answering(L)]
      BY <1>1
    <2>2. Answering(L) \subseteq 1 .. Len(L) /\ Len(L) \in Nat
      BY AnswersAre, LogFacts DEF IsWritten
    <2>3. whole => \A x \in Answering(L) : ~(x <= a)
      BY <2>2
    <2> QED BY <1>1, <2>1, <2>3 DEF Shown
  <1> QED BY <1>1, <1>2, <1>3, <1>4 DEF ScanInv


-----------------------------------------------------------------------------
(* The scan goes through the records one by one.                           *)
LEMMA LeastOf ==
    ASSUME NEW T \in SUBSET Nat, T # {}
    PROVE  Min(T) \in T /\ \A t \in T : Min(T) <= t
  <1>1. \E n \in T : \A t \in T : <<t, n>> \notin OpToRel(<, Nat)
    BY NatLessThanWellFounded, WFMin, Zenon
  <1>2. \A n, t \in Nat : t < n => <<t, n>> \in OpToRel(<, Nat)
    BY Zenon DEF OpToRel
  <1>3. \E n \in T : \A t \in T : ~(t < n)
    BY <1>1, <1>2, Zenon
  <1>4. \E n \in T : \A t \in T : n <= t
    BY <1>3
  <1> QED BY <1>4 DEF Min

LEMMA GreatestOf ==
    ASSUME NEW n \in Nat, NEW T \in SUBSET (1 .. n), T # {}
    PROVE  Max(T) \in T /\ \A t \in T : t <= Max(T)
  <1> DEFINE D == {n - t : t \in T}
  <1>1. D \in SUBSET Nat /\ D # {}
    <2>1. \A t \in T : n - t \in Nat
      OBVIOUS
    <2> QED BY <2>1
  <1>2. Min(D) \in D /\ \A d \in D : Min(D) <= d
    BY <1>1, LeastOf
  <1>3. PICK m \in T : Min(D) = n - m
    BY <1>2
  <1>4. \A t \in T : n - m <= n - t
    BY <1>2, <1>3
  <1>5. \A t \in T : t <= m
    BY <1>4
  <1>6. \E x \in T : \A y \in T : x >= y
    BY <1>5
  <1>7. Max(T) \in T /\ \A y \in T : Max(T) >= y
    BY <1>6 DEF Max
  <1> QED BY <1>7

LEMMA WithoutLast ==
    ASSUME NEW n \in Nat, NEW S \in SUBSET (1 .. n), S # {}
    PROVE  /\ Max(S) \in S /\ S \ {Max(S)} \in SUBSET (1 .. n)
           /\ Cardinality(S) \in Nat /\ Cardinality(S \ {Max(S)}) = Cardinality(S) - 1
           /\ Cardinality(S) - 1 \in Nat
  <1>1. Max(S) \in S
    BY GreatestOf
  <1>2. IsFiniteSet(1 .. n)
    BY FS_Interval
  <1>3. IsFiniteSet(S)
    BY <1>2, FS_Subset
  <1>4. Cardinality(S) \in Nat /\ Cardinality(S \ {Max(S)}) = Cardinality(S) - 1
    BY <1>1, <1>3, FS_RemoveElement, FS_CardinalityType
  <1>5. IsFiniteSet(S \ {Max(S)})
    BY <1>3, FS_Subset
  <1>6. Cardinality(S \ {Max(S)}) \in Nat
    BY <1>5, FS_CardinalityType
  <1> QED BY <1>1, <1>4, <1>6

LEMMA LastOfFirst ==
    ASSUME NEW n \in Nat, NEW k \in 1 .. n
    PROVE  1 .. k \in SUBSET (1 .. n) /\ 1 .. k # {} /\ Max(1 .. k) = k /\ (1 .. k) \ {k} = 1 .. k - 1
  <1>1. k \in Nat /\ k \in 1 .. k
    OBVIOUS
  <1>2. Max(1 .. k) \in 1 .. k /\ k <= Max(1 .. k)
    BY <1>1, GreatestOf
  <1> QED BY <1>1, <1>2

RunOf(limit, f, run) ==
    /\ run[0] = Unread /\ Scanned(limit, f) = {run[Len(f)]}
    /\ \A k \in 1 .. Len(f) : run[k] = Scan(limit, run[k - 1], f[k])

LEMMA ScannedInTurn ==
    ASSUME NEW limit, NEW f \in Seq(Records)
    PROVE  \E run : RunOf(limit, f, run)
  <1> DEFINE n == Len(f)
             W == 1 .. n
             After(i, sts) == {Scan(limit, st, f[i]) : st \in sts}
             Body(g, S) == IF S = {} THEN {Unread} ELSE After(Max(S), g[S \ {Max(S)}])
             iter == CHOOSE g : g = [S \in SUBSET W |-> Body(g, S)]
  <1>1. n \in Nat /\ DOMAIN f = W
    BY LenProperties
  <1>2. Scanned(limit, f) = iter[W]
    <2>1. Scanned(limit, f) = iter[DOMAIN f]
      BY <1>1 DEF Scanned, FoldLeft, MapThenFoldSet
    <2> QED BY <1>1, <2>1
  <1>3. \A g, S : Body(g, S) = IF S = {} THEN {Unread} ELSE After(Max(S), g[S \ {Max(S)}])
    OBVIOUS
  <1>4. \A S \in SUBSET W : S # {} =>
          /\ Max(S) \in S /\ S \ {Max(S)} \in SUBSET W
          /\ Cardinality(S) \in Nat /\ Cardinality(S \ {Max(S)}) = Cardinality(S) - 1
          /\ Cardinality(S) - 1 \in Nat
    BY <1>1, WithoutLast
  <1>5. Cardinality({}) = 0 /\ Cardinality(W) \in Nat /\ IsFiniteSet(W)
    BY <1>1, FS_EmptySet, FS_Interval, FS_CardinalityType
  <1>6. \A k \in 1 .. n : 1 .. k \in SUBSET W /\ 1 .. k # {} /\ Max(1 .. k) = k /\ (1 .. k) \ {k} = 1 .. k - 1
    BY <1>1, LastOfFirst
  <1>7. \A i, sts : After(i, sts) = {Scan(limit, st, f[i]) : st \in sts}
    OBVIOUS
  <1> HIDE DEF After, Body
  <1> DEFINE Works(g, m) == \A S \in SUBSET W : Cardinality(S) <= m => g[S] = Body(g, S)
             Short == {m \in Nat : ~\E g : Works(g, m)}
  <1>8. 0 \notin Short
    <2> DEFINE g == [S \in SUBSET W |-> {Unread}]
    <2>1. ASSUME NEW S \in SUBSET W, Cardinality(S) <= 0 PROVE S = {}
      <3> SUFFICES ASSUME S # {} PROVE FALSE
        OBVIOUS
      <3>1. Cardinality(S) \in Nat /\ Cardinality(S) - 1 \in Nat
        BY <1>4
      <3> QED BY <2>1, <3>1
    <2>2. Works(g, 0)
      BY <1>3, <2>1
    <2> QED BY <2>2
  <1>9. ASSUME NEW m \in Nat, m \notin Short PROVE m + 1 \notin Short
    <2>1. PICK g : Works(g, m)
      BY <1>9
    <2> DEFINE h == [S \in SUBSET W |-> Body(g, S)]
    <2>2. \A S \in SUBSET W : h[S] = Body(g, S)
      OBVIOUS
    <2>3. ASSUME NEW S \in SUBSET W, Cardinality(S) <= m + 1 PROVE h[S] = Body(h, S)
      <3>1. CASE S = {}
        BY <1>3, <2>2, <3>1
      <3>2. CASE S # {}
        <4>1. S \ {Max(S)} \in SUBSET W /\ Cardinality(S \ {Max(S)}) <= m
          <5>1. /\ S \ {Max(S)} \in SUBSET W /\ Cardinality(S) \in Nat
                /\ Cardinality(S \ {Max(S)}) = Cardinality(S) - 1
            BY <1>4, <3>2
          <5> QED BY <1>9, <2>3, <5>1
        <4>2. g[S \ {Max(S)}] = h[S \ {Max(S)}]
          BY <2>1, <2>2, <4>1
        <4> QED BY <1>3, <2>2, <3>2, <4>2
      <3> QED BY <3>1, <3>2
    <2>4. Works(h, m + 1)
      BY <2>3
    <2> QED BY <2>4
  <1> HIDE DEF Works
  <1>10. Short = {}
    <2> SUFFICES ASSUME Short # {} PROVE FALSE
      OBVIOUS
    <2>1. PICK m \in Short : \A t \in Short : m <= t
      BY LeastOf
    <2>2. m \in Nat /\ m # 0
      BY <1>8
    <2>3. m - 1 \in Nat /\ m - 1 \notin Short
      BY <2>1, <2>2
    <2>4. (m - 1) + 1 \notin Short
      BY <1>9, <2>3
    <2> QED BY <2>2, <2>4
  <1>11. \A S \in SUBSET W : iter[S] = Body(iter, S)
    <2>1. PICK g : Works(g, Cardinality(W))
      BY <1>5, <1>10
    <2>2. \A S \in SUBSET W : Cardinality(S) <= Cardinality(W)
      BY <1>5, FS_Subset
    <2> DEFINE h == [S \in SUBSET W |-> g[S]]
    <2>3. \A S \in SUBSET W : h[S] = Body(h, S)
      BY <1>3, <1>4, <2>1, <2>2 DEF Works
    <2>4. h = [S \in SUBSET W |-> Body(h, S)]
      BY <2>3
    <2>5. iter = [S \in SUBSET W |-> Body(iter, S)]
      BY <2>4
    <2> QED BY <2>5
  <1> HIDE DEF iter
  <1> DEFINE run == [k \in 0 .. n |-> iter[1 .. k]]
  <1>12. run[0] = {Unread}
    <2>1. 1 .. 0 = {} /\ {} \in SUBSET W
      OBVIOUS
    <2>2. 0 \in 0 .. n
      BY <1>1
    <2>3. run[0] = iter[1 .. 0]
      BY <2>2
    <2>4. iter[{}] = Body(iter, {})
      BY <1>11, <2>1
    <2> QED BY <1>3, <2>1, <2>3, <2>4
  <1>13. ASSUME NEW k \in 1 .. n PROVE run[k] = {Scan(limit, st, f[k]) : st \in run[k - 1]}
    <2>1. iter[1 .. k] = After(k, iter[1 .. k - 1])
      <3>1. 1 .. k \in SUBSET W /\ 1 .. k # {} /\ Max(1 .. k) = k /\ (1 .. k) \ {k} = 1 .. k - 1
        BY <1>6
      <3>2. iter[1 .. k] = Body(iter, 1 .. k)
        BY <1>11, <3>1
      <3>3. Body(iter, 1 .. k) = After(Max(1 .. k), iter[(1 .. k) \ {Max(1 .. k)}])
        BY <1>3, <3>1
      <3> QED BY <3>1, <3>2, <3>3
    <2>2. run[k] = iter[1 .. k] /\ run[k - 1] = iter[1 .. k - 1]
      BY <1>1
    <2> QED BY <1>7, <2>1, <2>2
  <1>14. Scanned(limit, f) = run[n]
    BY <1>1, <1>2
  <1> HIDE DEF run
  <1> DEFINE one == [k \in 0 .. n |-> CHOOSE st : run[k] = {st}]
             Bad == {k \in 0 .. n : run[k] # {one[k]}}
  <1>a. \A x, e : {Scan(limit, st, e) : st \in {x}} = {Scan(limit, x, e)}
    OBVIOUS
  <1>15. \A k \in 0 .. n : (\E st : run[k] = {st}) => run[k] = {one[k]}
    OBVIOUS
  <1> HIDE DEF one
  <1>16. Bad = {}
    <2> SUFFICES ASSUME Bad # {} PROVE FALSE
      OBVIOUS
    <2>1. PICK k \in Bad : \A t \in Bad : k <= t
      <3>1. Bad \in SUBSET Nat
        BY <1>1
      <3> QED BY <3>1, LeastNumber
    <2>2. k \in 0 .. n /\ run[k] # {one[k]}
      BY <2>1
    <2>3. k # 0
      BY <1>12, <1>15, <2>2
    <2>4. k \in 1 .. n /\ k - 1 \in 0 .. n /\ ~(k <= k - 1)
      BY <1>1, <2>2, <2>3
    <2>5. run[k - 1] = {one[k - 1]}
      BY <2>1, <2>4
    <2>6. run[k] = {Scan(limit, one[k - 1], f[k])}
      BY <1>13, <1>a, <2>4, <2>5, Zenon
    <2> QED BY <1>15, <2>2, <2>6
  <1>17. n \in 0 .. n /\ 0 \in 0 .. n
    BY <1>1
  <1>18. one[0] = Unread /\ Scanned(limit, f) = {one[n]}
    BY <1>12, <1>14, <1>16, <1>17
  <1>19. ASSUME NEW k \in 1 .. n PROVE one[k] = Scan(limit, one[k - 1], f[k])
    <2>1. k \in 0 .. n /\ k - 1 \in 0 .. n
      BY <1>1
    <2>2. run[k] = {Scan(limit, one[k - 1], f[k])}
      <3>1. run[k - 1] = {one[k - 1]}
        BY <1>16, <2>1
      <3> QED BY <1>13, <1>a, <3>1, Zenon
    <2>3. run[k] = {one[k]}
      BY <1>16, <2>1
    <2> QED BY <2>2, <2>3
  <1> HIDE DEF Bad
  <1>20. RunOf(limit, f, one)
    BY <1>18, <1>19 DEF RunOf
  <1> QED BY <1>20


-----------------------------------------------------------------------------
(* The records of a tail.                                                  *)
LEMMA LinesAre ==
    ASSUME NEW L \in Seq(Records), NEW from \in 1 .. Len(L) + 2
    PROVE  LET a == IF from - 1 <= Len(L) THEN from - 1 ELSE Len(L)
               lines == SubSeq(L, from, Len(L))
           IN /\ a \in 0 .. Len(L) /\ (from = 1 => a = 0)
              /\ lines \in Seq(Records) /\ Len(lines) = Len(L) - a
              /\ \A k \in 1 .. Len(lines) : a + k \in 1 .. Len(L) /\ lines[k] = L[a + k]
  <1> DEFINE n == Len(L)
             lines == SubSeq(L, from, n)
  <1>1. n \in Nat
    BY LenProperties
  <1>2. CASE from <= n + 1
    <2>1. lines \in Seq(Records) /\ Len(lines) = n - (from - 1)
      BY <1>1, <1>2
    <2>2. \A k \in 1 .. n - (from - 1) : lines[k] = L[(from - 1) + k]
      BY <1>1, <1>2
    <2> HIDE DEF lines
    <2>3. from - 1 \in 0 .. n /\ from - 1 <= n
      BY <1>1, <1>2
    <2>4. \A k \in 1 .. Len(lines) : (from - 1) + k \in 1 .. n
      BY <1>1, <2>1, <2>3
    <2> QED BY <2>1, <2>2, <2>3, <2>4 DEF lines
  <1>3. CASE from = n + 2
    <2>1. lines = <<>>
      BY <1>1, <1>3
    <2>2. ~(from - 1 <= n) /\ n \in 0 .. n /\ from # 1 /\ n - n = 0 /\ 1 .. 0 = {}
      BY <1>1, <1>3
    <2>3. lines \in Seq(Records) /\ Len(lines) = 0
      BY <2>1
    <2> QED BY <2>2, <2>3
  <1>4. from <= n + 1 \/ from = n + 2
    BY <1>1
  <1> QED BY <1>2, <1>3, <1>4

LEMMA TailScanned ==
    ASSUME NEW L, IsWritten(L), NEW limit \in Nat \ {0}, NEW whole \in BOOLEAN,
           NEW from \in 1 .. Len(L) + 2, whole => from = 1,
           NEW end \in Scanned(limit, SubSeq(L, from, Len(L)))
    PROVE  \E a \in Nat : ScanInv(L, a, limit, whole, end, Len(L))
  <1> DEFINE n == Len(L)
             lines == SubSeq(L, from, n)
             a == IF from - 1 <= Len(L) THEN from - 1 ELSE Len(L)
             m == Len(lines)
  <1>1. n \in Nat /\ L \in Seq(Records)
    BY LogFacts DEF IsWritten
  <1>2. /\ a \in 0 .. n /\ (from = 1 => a = 0)
        /\ lines \in Seq(Records) /\ m = n - a
        /\ \A k \in 1 .. m : a + k \in 1 .. n /\ lines[k] = L[a + k]
    BY <1>1, LinesAre
  <1>3. end \in Scanned(limit, lines)
    OBVIOUS
  <1> HIDE DEF a, lines
  <1>4. PICK run : RunOf(limit, lines, run)
    BY <1>2, ScannedInTurn
  <1>b. /\ run[0] = Unread /\ Scanned(limit, lines) = {run[m]}
        /\ \A k \in 1 .. m : run[k] = Scan(limit, run[k - 1], lines[k])
    BY <1>4 DEF RunOf
  <1> DEFINE Bad == {k \in 0 .. m : ~ScanInv(L, a, limit, whole, run[k], a + k)}
  <1>5. m \in Nat /\ a \in Nat
    BY <1>1, <1>2
  <1> HIDE DEF m
  <1>6. Bad = {}
    <2> SUFFICES ASSUME Bad # {} PROVE FALSE
      OBVIOUS
    <2>1. PICK k \in Bad : \A t \in Bad : k <= t
      <3>1. Bad \in SUBSET Nat
        BY <1>5
      <3> QED BY <3>1, LeastNumber
    <2>2. k \in 0 .. m /\ ~ScanInv(L, a, limit, whole, run[k], a + k)
      BY <2>1
    <2>3. k # 0
      <3>1. a + 0 = a
        BY <1>5
      <3>2. ScanInv(L, a, limit, whole, Unread, a)
        BY <1>2, ScanBegins
      <3> QED BY <1>b, <2>2, <3>1, <3>2
    <2>4. k \in 1 .. m /\ k - 1 \in 0 .. m /\ ~(k <= k - 1)
      BY <1>5, <2>2, <2>3
    <2>5. ScanInv(L, a, limit, whole, run[k - 1], a + (k - 1))
      BY <2>1, <2>4
    <2> DEFINE i == a + k
    <2>6. i \in 1 .. n /\ i - 1 = a + (k - 1) /\ a \in 0 .. i - 1 /\ lines[k] = L[i]
      BY <1>2, <1>5, <2>4
    <2> HIDE DEF i
    <2>7. ScanInv(L, a, limit, whole, Scan(limit, run[k - 1], L[i]), i)
      BY <1>2, <2>5, <2>6, ScanKeeps
    <2>8. run[k] = Scan(limit, run[k - 1], L[i])
      BY <1>b, <2>4, <2>6
    <2> QED BY <2>2, <2>7, <2>8 DEF i
  <1>7. m \in 0 .. m /\ a + m = n
    BY <1>1, <1>2, <1>5
  <1>8. ScanInv(L, a, limit, whole, run[m], n)
    BY <1>6, <1>7
  <1> QED BY <1>3, <1>b, <1>5, <1>8

(* What has been found, newest first.                                      *)
LEMMA NewestFirst ==
    ASSUME NEW L, IsWritten(L), NEW q \in Seq(Answers), NEW limit \in Nat, NEW whole \in BOOLEAN,
           Shown(L, Len(L), q, limit, whole)
    PROVE  LET texts == Reverse([i \in DOMAIN q |-> q[i].text]) IN
           /\ texts \in Seq(Nat) /\ Len(texts) = Len(q)
           /\ LatestAnswers(L, limit, texts, whole)
  <1> DEFINE n == Len(q)
             old == [i \in DOMAIN q |-> q[i].text]
             texts == Reverse(old)
  <1>a. n \in Nat /\ DOMAIN q = 1 .. n /\ \A k \in 1 .. n : q[k] \in Answers
    OBVIOUS
  <1>1. n \in Nat /\ DOMAIN q = 1 .. n /\ \A k \in 1 .. n : q[k].text \in Nat
    BY <1>a DEF Answers
  <1>2. old \in Seq(Nat) /\ Len(old) = n /\ \A k \in 1 .. n : old[k] = q[k].text
    <2>1. old \in [1 .. n -> Nat]
      BY <1>1
    <2> QED BY <1>1, <2>1
  <1> HIDE DEF old
  <1>3. texts = [k \in 1 .. n |-> old[(n - k) + 1]]
    BY <1>2 DEF Reverse
  <1>4. \A k \in 1 .. n : (n - k) + 1 \in 1 .. n
    BY <1>1
  <1>5. texts \in [1 .. n -> Nat] /\ \A k \in 1 .. n : texts[k] = q[(n - k) + 1].text
    BY <1>1, <1>2, <1>3, <1>4
  <1> HIDE DEF texts
  <1>6. texts \in Seq(Nat) /\ Len(texts) = n /\ DOMAIN texts = 1 .. n
    BY <1>1, <1>5
  <1>7. PICK order \in [1 .. n -> Answering(L)] :
      /\ \A k \in 1 .. n :
           /\ q[k].text = TextOf(L, order[k])
           /\ \A x \in Answering(L) : x <= Len(L) =>
                (x > order[k] <=> \E j \in k + 1 .. n : x = order[j])
      /\ whole /\ n < limit =>
           \A x \in Answering(L) : x <= Len(L) => \E j \in 1 .. n : x = order[j]
    BY DEF Shown
  <1>8. \A x \in Answering(L) : x <= Len(L)
    BY AnswersAre, LogFacts DEF IsWritten
  <1> DEFINE new == [k \in 1 .. n |-> order[(n - k) + 1]]
  <1>9. new \in [1 .. n -> Answering(L)] /\ \A k \in 1 .. n : new[k] = order[(n - k) + 1]
    BY <1>4
  <1> HIDE DEF new
  <1>10. ASSUME NEW k \in 1 .. n, NEW x \in Answering(L)
         PROVE  x > new[k] <=> \E j \in 1 .. k - 1 : x = new[j]
    <2> DEFINE l == (n - k) + 1
    <2>1. l \in 1 .. n /\ new[k] = order[l] /\ k \in Nat
      BY <1>4, <1>9
    <2>2. \A j \in l + 1 .. n : (n - j) + 1 \in 1 .. k - 1 /\ (n - j) + 1 \in 1 .. n /\ (n - ((n - j) + 1)) + 1 = j
      BY <1>1
    <2>3. \A j \in 1 .. k - 1 : (n - j) + 1 \in l + 1 .. n /\ j \in 1 .. n
      BY <1>1
    <2> HIDE DEF l
    <2>4. x > new[k] <=> \E j \in l + 1 .. n : x = order[j]
      BY <1>7, <1>8, <2>1
    <2>5. ASSUME NEW j \in l + 1 .. n, x = order[j] PROVE \E h \in 1 .. k - 1 : x = new[h]
      <3> DEFINE h == (n - j) + 1
      <3>1. h \in 1 .. k - 1 /\ h \in 1 .. n /\ (n - h) + 1 = j
        BY <2>2
      <3> HIDE DEF h
      <3>2. new[h] = order[j]
        BY <1>9, <3>1
      <3> QED BY <2>5, <3>1, <3>2
    <2>6. ASSUME NEW j \in 1 .. k - 1, x = new[j] PROVE \E h \in l + 1 .. n : x = order[h]
      BY <1>9, <2>3, <2>6
    <2> QED BY <2>4, <2>5, <2>6
  <1>11. ASSUME NEW k \in 1 .. n PROVE texts[k] = TextOf(L, new[k])
    <2> DEFINE l == (n - k) + 1
    <2>1. l \in 1 .. n
      BY <1>4
    <2>2. texts[k] = q[l].text /\ new[k] = order[l]
      BY <1>5, <1>9
    <2> HIDE DEF l
    <2> QED BY <1>7, <2>1, <2>2
  <1>12. ASSUME whole, n < limit, NEW x \in Answering(L) PROVE \E j \in 1 .. n : x = new[j]
    <2>1. PICK j \in 1 .. n : x = order[j]
      BY <1>7, <1>8, <1>12
    <2> DEFINE h == (n - j) + 1
    <2>2. h \in 1 .. n /\ (n - h) + 1 = j
      BY <1>1
    <2> HIDE DEF h
    <2>3. new[h] = order[j]
      BY <1>9, <2>2
    <2> QED BY <2>1, <2>2, <2>3
  <1>13. LatestAnswers(L, limit, texts, whole)
    <2> DEFINE D == DOMAIN texts
               m == Len(texts)
    <2>1. D = 1 .. n /\ m = n
      BY <1>6
    <2> HIDE DEF D, m
    <2>2. /\ new \in [D -> Answering(L)]
          /\ \A k \in D :
               /\ texts[k] = TextOf(L, new[k])
               /\ \A x \in Answering(L) : x > new[k] <=> \E j \in 1 .. k - 1 : x = new[j]
          /\ whole /\ m < limit => \A x \in Answering(L) : \E j \in D : x = new[j]
      BY <1>9, <1>10, <1>11, <1>12, <2>1
    <2> QED BY <2>2 DEF LatestAnswers, D, m
  <1> QED BY <1>6, <1>13 DEF texts, old

(* A window shows the latest answers, and all of them if it is the whole.  *)
IsLogOf(l) ==
    DOMAIN l = {"records", "partial"} /\ IsWritten(l.records) /\ l.partial \in BOOLEAN

LEMMA LogSize ==
    ASSUME NEW l, IsLogOf(l)
    PROVE  /\ Size(l) \in {2 * Len(l.records), 2 * Len(l.records) + 1} /\ Size(l) \in Nat
           /\ Size(l) \div 2 = Len(l.records)
  <1>1. Len(l.records) \in Nat
    BY LogFacts DEF IsLogOf, IsWritten
  <1> DEFINE k == Len(l.records)
             s == Size(l)
  <1>2. s = 2 * k \/ s = 2 * k + 1
    <2>1. CASE l.partial
      BY <2>1 DEF Size
    <2>2. CASE ~l.partial
      <3>1. k \in Nat /\ s = 2 * k + 0
        BY <1>1, <2>2 DEF Size
      <3> QED BY <3>1
    <2> QED BY <2>1, <2>2
  <1> HIDE DEF k, s
  <1>3. k \in Nat
    BY <1>1 DEF k
  <1>4. s \in Nat /\ s \div 2 = k
    BY <1>2, <1>3
  <1> QED BY <1>2, <1>3, <1>4 DEF s, k

LEMMA WindowShows ==
    ASSUME NEW l, IsLogOf(l), NEW limit \in Nat \ {0}, NEW tail \in Nat \ {0},
           NEW w \in Window(l, limit, tail)
    PROVE  /\ w.bounded \in BOOLEAN /\ (w.bounded <=> Size(l) > tail)
           /\ w.texts \in Seq(Nat) /\ Len(w.texts) <= limit
           /\ LatestAnswers(l.records, limit, w.texts, ~w.bounded)
  <1> DEFINE L == l.records
             start == IF Size(l) > tail THEN Size(l) - tail ELSE 0
             from == IF start > 0 THEN start \div 2 + 2 ELSE 1
             lines == SubSeq(L, from, Len(L))
  <1>1. Len(L) \in Nat /\ IsWritten(L)
    BY LogFacts DEF IsLogOf, IsWritten
  <1>2. Size(l) \in Nat /\ Size(l) <= 2 * Len(L) + 1
    BY <1>1, LogSize
  <1>3. start \in Nat /\ start <= 2 * Len(L) /\ (start > 0 <=> Size(l) > tail)
    BY <1>1, <1>2
  <1>4. from \in 1 .. Len(L) + 2
    BY <1>1, <1>3
  <1>5. PICK end \in Scanned(limit, lines) :
          w = [failed |-> Huge \in ToSet(lines),
               texts |-> Reverse([i \in DOMAIN end.responses |-> end.responses[i].text]),
               bounded |-> start > 0]
    BY DEF Window
  <1> DEFINE q == end.responses
             texts == Reverse([i \in DOMAIN q |-> q[i].text])
             whole == ~(start > 0)
  <1>6. whole \in BOOLEAN /\ (whole => from = 1)
    OBVIOUS
  <1> HIDE DEF start
  <1>7. w.bounded = ~whole /\ w.texts = texts /\ w.bounded \in BOOLEAN /\ (~whole <=> start > 0)
    BY <1>5
  <1> HIDE DEF from, texts, whole
  <1>8. PICK a \in Nat : ScanInv(L, a, limit, whole, end, Len(L))
    BY <1>1, <1>4, <1>5, <1>6, TailScanned
  <1>9. q \in Seq(Answers) /\ Len(q) <= limit /\ Shown(L, Len(L), q, limit, whole)
    BY <1>8 DEF ScanInv
  <1>10. texts \in Seq(Nat) /\ Len(texts) = Len(q) /\ LatestAnswers(L, limit, texts, whole)
    BY <1>1, <1>6, <1>9, NewestFirst DEF texts
  <1>11. (~w.bounded) = whole
    BY <1>6, <1>7
  <1> QED BY <1>3, <1>7, <1>9, <1>10, <1>11

(* The first of the latest answers.                                        *)
LEMMA FewerAnswers ==
    ASSUME NEW L, NEW limit \in Nat, NEW texts \in Seq(Nat), NEW whole \in BOOLEAN,
           LatestAnswers(L, limit, texts, whole), NEW m \in Nat, m <= limit
    PROVE  /\ FirstOf(texts, m) \in Seq(Nat) /\ Len(FirstOf(texts, m)) <= m
           /\ Len(FirstOf(texts, m)) < m => Len(texts) = Len(FirstOf(texts, m))
           /\ LatestAnswers(L, m, FirstOf(texts, m), whole)
  <1> DEFINE n == Len(texts)
             k == Min({m, n})
             few == SubSeq(texts, 1, k)
  <1>1. n \in Nat /\ DOMAIN texts = 1 .. n
    BY LenProperties
  <1>2. k \in 0 .. n /\ k <= m /\ (k < m => k = n)
    <2>1. {m, n} \in SUBSET Nat /\ {m, n} # {}
      BY <1>1
    <2>2. k \in {m, n} /\ \A t \in {m, n} : k <= t
      BY <2>1, LeastOf
    <2> HIDE DEF k, n
    <2>3. k <= m /\ k <= n /\ (k = m \/ k = n)
      BY <2>2
    <2> QED BY <1>1, <2>3
  <1> HIDE DEF k
  <1>3. few \in Seq(Nat) /\ Len(few) = k /\ DOMAIN few = 1 .. k /\ \A i \in 1 .. k : few[i] = texts[i]
    <2> HIDE DEF n
    <2>1. k \in Nat /\ k <= n
      BY <1>1, <1>2
    <2>2. \A i \in 1 .. k : texts[i] \in Nat
      BY <1>1, <2>1
    <2> QED BY <2>1, <2>2, SubSeqProperties
  <1> HIDE DEF few
  <1>4. PICK order \in [1 .. n -> Answering(L)] :
          /\ \A i \in 1 .. n :
               /\ texts[i] = TextOf(L, order[i])
               /\ \A x \in Answering(L) : x > order[i] <=> \E j \in 1 .. i - 1 : x = order[j]
          /\ whole /\ n < limit => \A x \in Answering(L) : \E j \in 1 .. n : x = order[j]
    <2> DEFINE D == DOMAIN texts
    <2>1. D = 1 .. n
      BY <1>1
    <2>2. \E order \in [D -> Answering(L)] :
            /\ \A i \in D :
                 /\ texts[i] = TextOf(L, order[i])
                 /\ \A x \in Answering(L) : x > order[i] <=> \E j \in 1 .. i - 1 : x = order[j]
            /\ whole /\ n < limit => \A x \in Answering(L) : \E j \in D : x = order[j]
      BY DEF LatestAnswers
    <2> HIDE DEF D, n
    <2> QED BY <2>1, <2>2
  <1> HIDE DEF n
  <1> DEFINE new == [i \in 1 .. k |-> order[i]]
  <1>5. \A i \in 1 .. k : i \in 1 .. n /\ new[i] = order[i]
    BY <1>1, <1>2
  <1>6. new \in [1 .. k -> Answering(L)]
    BY <1>5
  <1> HIDE DEF new
  <1>7. \A i \in 1 .. k : \A j \in 1 .. i - 1 : j \in 1 .. k
    BY <1>1, <1>2
  <1>8. LatestAnswers(L, m, few, whole)
    <2> DEFINE D == DOMAIN few
               h == Len(few)
    <2>1. D = 1 .. k /\ h = k
      BY <1>3
    <2> HIDE DEF D, h
    <2>2. ASSUME whole, k < m, NEW x \in Answering(L) PROVE \E j \in 1 .. k : x = new[j]
      <3>1. k = n /\ n < limit
        BY <1>1, <1>2, <2>2
      <3> QED BY <1>4, <1>5, <2>2, <3>1
    <2>3. /\ new \in [D -> Answering(L)]
          /\ \A i \in D :
               /\ few[i] = TextOf(L, new[i])
               /\ \A x \in Answering(L) : x > new[i] <=> \E j \in 1 .. i - 1 : x = new[j]
          /\ whole /\ h < m => \A x \in Answering(L) : \E j \in D : x = new[j]
      <3>1. ASSUME NEW i \in 1 .. k PROVE few[i] = TextOf(L, new[i])
        BY <1>3, <1>4, <1>5
      <3>2. ASSUME NEW i \in 1 .. k, NEW x \in Answering(L)
            PROVE  x > new[i] <=> \E j \in 1 .. i - 1 : x = new[j]
        <4>1. x > order[i] <=> \E j \in 1 .. i - 1 : x = order[j]
          BY <1>4, <1>5
        <4> QED BY <1>5, <1>7, <4>1
      <3> QED BY <1>6, <2>1, <2>2, <3>1, <3>2
    <2> QED BY <2>3 DEF LatestAnswers, D, h
  <1> QED BY <1>1, <1>2, <1>3, <1>8 DEF FirstOf, few, k, n

-----------------------------------------------------------------------------
(* The disk as the histories see it, and later.                            *)
Scene == [log |-> log, row |-> [s \in Sessions |-> Row(s)], moved |-> moved, now |-> now]

IsScene(d) ==
    /\ DOMAIN d.log = ToSet(Files)
    /\ \A f \in ToSet(Files) : IsLogOf(d.log[f])
    /\ d.row \in [Sessions -> ToSet(Files)]
    /\ d.moved \in [Sessions -> Int] /\ d.now \in Int
    /\ \A s \in Sessions : d.moved[s] <= d.now

Grown(l, k) ==
    /\ IsLogOf(k) /\ Size(l) <= Size(k)
    /\ \A n \in 0 .. Size(l) : Upto(k, n).records = Upto(l, n).records

Later(d, e) ==
    /\ e.now >= d.now
    /\ \A f \in ToSet(Files) : Grown(d.log[f], e.log[f])
    /\ \A s \in Sessions : (e.row[s] = d.row[s] /\ e.moved[s] = d.moved[s]) \/ e.moved[s] >= d.now

(* A rollout that is the session's, or was until lately. *)
Located(d, f, s, at) ==
    f \in ToSet(Files) /\ (f = d.row[s] \/ at - d.moved[s] < LocationTime)

(* The latest answers of a log since it had n units. *)
Latest(l, n, limit, texts, bounded) ==
    /\ texts \in Seq(Nat) /\ Len(texts) <= limit /\ bounded \in BOOLEAN
    /\ \E m \in n .. Size(l) : LatestAnswers(Upto(l, m).records, limit, texts, ~bounded)
    /\ bounded /\ Len(texts) < limit => Size(l) > MaxTail

(* What is kept. *)
KnownPlaces(d) ==
    {p \in [session : Sessions, path : ToSet(Files), checked : Int] :
       p.checked <= d.now /\ (p.path = d.row[p.session] \/ d.moved[p.session] >= p.checked)}
KeptAnswers(d) ==
    {e \in [path : ToSet(Files), size : Nat, limit : Nat, texts : Seq(Nat), bounded : BOOLEAN] :
       /\ e.size <= Size(d.log[e.path])
       /\ Latest(d.log[e.path], e.size, e.limit, e.texts, e.bounded)}

(* What the worker w knows at each step of the request c. *)
Begun(d, w) ==
    /\ w.at \in Int /\ w.at <= d.now
    /\ \A f \in ToSet(Files) : w.sizes[f] \in Nat /\ w.sizes[f] <= Size(d.log[f])
Knows(d, w, c) ==
    /\ Begun(d, w)
    /\ w.step \in {"start", "recents", "query", "snapshot", "stat", "window"} => ~w.ok
    /\ w.step = "recents" => c.session = Nothing
    /\ w.step \in {"query", "snapshot", "stat", "window"} => c.session # Nothing
    /\ w.step \in {"stat", "window"} => Located(d, w.path, c.session, w.at)
    /\ w.step = "window" => w.size \in Nat /\ w.size <= Size(d.log[w.path]) /\ w.tail \in Nat \ {0}
    /\ w.step = "done" /\ w.ok /\ c.session # Nothing =>
         /\ Located(d, w.path, c.session, w.at)
         /\ Latest(d.log[w.path], w.sizes[w.path], c.limit, w.texts, w.bounded)

Rows == rows \in Seq([Sessions -> ToSet(Files)]) /\ Database \in Nat \ {0}
HistoryInv ==
    /\ Rows /\ IsScene(Scene)
    /\ locations \in Seq(KnownPlaces(Scene)) /\ responses \in Seq(KeptAnswers(Scene))
    /\ Busy => Knows(Scene, worker, Call)

(* A log and its earlier states. *)
LEMMA UptoNow ==
    ASSUME NEW l, IsLogOf(l)
    PROVE  Size(l) \in Nat /\ Upto(l, Size(l)).records = l.records
  <1>1. Size(l) \in Nat /\ Size(l) \div 2 = Len(l.records)
    BY LogSize
  <1>2. l.records \in Seq(Records)
    BY DEF IsLogOf, IsWritten
  <1>3. SubSeq(l.records, 1, Len(l.records)) = l.records
    BY <1>2
  <1> QED BY <1>1, <1>3 DEF Upto

LEMMA StillGrown ==
    ASSUME NEW l, IsLogOf(l)
    PROVE  Grown(l, l)
  <1>1. Size(l) \in Nat
    BY LogSize
  <1> QED BY <1>1 DEF Grown

LEMMA PartGrows ==
    ASSUME NEW l, NEW k, IsLogOf(l), ~l.partial, k = [l EXCEPT !.partial = TRUE]
    PROVE  Grown(l, k)
  <1>0. DOMAIN k = {"records", "partial"} /\ k.records = l.records /\ k.partial = TRUE
    BY DEF IsLogOf
  <1>1. IsLogOf(k)
    BY <1>0 DEF IsLogOf
  <1>2. Len(l.records) \in Nat
    BY LogFacts DEF IsLogOf, IsWritten
  <1>3. Size(l) <= Size(k)
    BY <1>0, <1>2 DEF Size
  <1>4. \A n : Upto(k, n).records = Upto(l, n).records
    BY <1>0 DEF Upto
  <1> QED BY <1>1, <1>3, <1>4 DEF Grown

(* What Codex appends is a record, and the log it makes is a written one.  *)
LEMMA ContinuationIsRecord ==
    ASSUME NEW L, IsWritten(L), NEW r \in Continuations(L)
    PROVE  r \in Records
  <1> DEFINE turns0 == {L[j].turn : j \in {k \in DOMAIN L : L[k].kind = "started"}}
             turn0 == CHOOSE t \in turns0 \cup {NoTurn} : \A u \in turns0 : u <= t
             open0 == \E s \in DOMAIN L : /\ L[s].kind = "started" /\ L[s].turn = turn0
                             /\ \A j \in s + 1 .. Len(L) : L[j].kind \notin {"complete", "aborted"}
  <1>1. Len(L) \in Nat /\ DOMAIN L = 1 .. Len(L) /\ \A j \in 1 .. Len(L) : L[j] \in Records
    BY LogFacts DEF IsWritten
  <1>2. \/ r \in {Other, Huge}
        \/ r \in {Record("started", t, Blank) : t \in {turn0 + 1} \cap Turns}
        \/ r \in {x \in {Record("final", NoTurn, turn0), Record("final", NoTurn, Blank),
                         Record("complete", turn0, turn0), Record("complete", turn0, Blank),
                         Record("aborted", NoTurn, Blank)} : open0}
        \/ r \in {L[j] : j \in {k \in {Len(L)} \cap DOMAIN L : L[k].kind = "complete"}}
    BY DEF Continuations
  <1>3. turns0 = StartedBy(L, Len(L))
    BY <1>1 DEF StartedBy
  <1> HIDE DEF turns0, open0
  <1>4. turn0 \in Nat
    <2>1. turn0 = LastTurn(L, Len(L))
      BY <1>3 DEF LastTurn
    <2>2. Len(L) \in 0 .. Len(L)
      BY <1>1
    <2> HIDE DEF turn0
    <2> QED BY <2>1, <2>2, TurnsOrdered DEF TurnsInOrder
  <1> HIDE DEF turn0
  <1>5. \A t, x \in Nat : /\ Record("other", t, x) \in Records /\ Record("huge", t, x) \in Records
                         /\ Record("started", t, x) \in Records /\ Record("final", t, x) \in Records
                         /\ Record("complete", t, x) \in Records /\ Record("aborted", t, x) \in Records
    BY DEF Record, Records, Kinds
  <1>6. NoTurn \in Nat /\ Blank \in Nat /\ turn0 + 1 \in Nat
    BY <1>4 DEF NoTurn, Blank
  <1>7. CASE r \in {Other, Huge}
    <2>1. r = Record("other", NoTurn, Blank) \/ r = Record("huge", NoTurn, Blank)
      BY <1>7 DEF Other, Huge
    <2> QED BY <1>5, <1>6, <2>1
  <1>8. CASE r \in {Record("started", t, Blank) : t \in {turn0 + 1} \cap Turns}
    <2>1. r = Record("started", turn0 + 1, Blank)
      BY <1>8
    <2> QED BY <1>5, <1>6, <2>1
  <1>9. CASE r \in {x \in {Record("final", NoTurn, turn0), Record("final", NoTurn, Blank),
                         Record("complete", turn0, turn0), Record("complete", turn0, Blank),
                         Record("aborted", NoTurn, Blank)} : open0}
    <2>1. \/ r = Record("final", NoTurn, turn0) \/ r = Record("final", NoTurn, Blank)
          \/ r = Record("complete", turn0, turn0) \/ r = Record("complete", turn0, Blank)
          \/ r = Record("aborted", NoTurn, Blank)
      BY <1>9
    <2> QED BY <1>4, <1>5, <1>6, <2>1
  <1>10. CASE r \in {L[j] : j \in {k \in {Len(L)} \cap DOMAIN L : L[k].kind = "complete"}}
    BY <1>1, <1>10
  <1> QED BY <1>2, <1>7, <1>8, <1>9, <1>10

LEMMA WrittenOn ==
    ASSUME NEW L, IsWritten(L), NEW r \in Continuations(L)
    PROVE  /\ IsWritten(Append(L, r)) /\ Len(Append(L, r)) = Len(L) + 1
           /\ \A n \in 0 .. Len(L) : SubSeq(Append(L, r), 1, n) = SubSeq(L, 1, n)
  <1> DEFINE M == Append(L, r)
             n == Len(L)
  <1>1. L \in Seq(Records) /\ r \in Records /\ n \in Nat /\ DOMAIN L = 1 .. n
    BY LogFacts, ContinuationIsRecord DEF IsWritten
  <1>2. M \in Seq(Records) /\ Len(M) = n + 1 /\ M[n + 1] = r /\ \A i \in 1 .. n : M[i] = L[i]
    BY <1>1
  <1> HIDE DEF M
  <1>3. ASSUME NEW m \in 0 .. n PROVE SubSeq(M, 1, m) = SubSeq(L, 1, m)
    <2>1. m \in 0 .. Len(M) /\ m \in Nat
      BY <1>1, <1>2
    <2>2. /\ SubSeq(M, 1, m) \in Seq(Records) /\ Len(SubSeq(M, 1, m)) = m
          /\ \A j \in 1 .. m : SubSeq(M, 1, m)[j] = M[j]
      BY <1>2, <2>1, FirstRecords
    <2>3. /\ SubSeq(L, 1, m) \in Seq(Records) /\ Len(SubSeq(L, 1, m)) = m
          /\ \A j \in 1 .. m : SubSeq(L, 1, m)[j] = L[j]
      BY <1>1, FirstRecords
    <2>4. \A j \in 1 .. m : SubSeq(M, 1, m)[j] = SubSeq(L, 1, m)[j]
      <3>1. \A j \in 1 .. m : j \in 1 .. n
        BY <1>1
      <3> QED BY <1>2, <2>2, <2>3, <3>1
    <2> QED BY <2>2, <2>3, <2>4, SeqEqual
  <1>4. SubSeq(L, 1, n) = L
    BY <1>1
  <1>5. Written(M)
    <2>1. ASSUME NEW i \in 1 .. n + 1 PROVE M[i] \in Continuations(SubSeq(M, 1, i - 1))
      <3>1. i - 1 \in 0 .. n /\ (i \in 1 .. n \/ i = n + 1)
        BY <1>1
      <3>2. SubSeq(M, 1, i - 1) = SubSeq(L, 1, i - 1)
        BY <1>3, <3>1
      <3>3. CASE i \in 1 .. n
        BY <1>1, <1>2, <3>2, <3>3 DEF IsWritten, Written
      <3>4. CASE i = n + 1
        <4>1. i - 1 = n
          BY <1>1, <3>4
        <4> QED BY <1>2, <1>4, <3>2, <3>4, <4>1
      <3> QED BY <3>1, <3>3, <3>4
    <2>2. DOMAIN M = 1 .. n + 1
      BY <1>1, <1>2
    <2> QED BY <2>1, <2>2 DEF Written
  <1> QED BY <1>2, <1>3, <1>5 DEF M, IsWritten

LEMMA RecordGrows ==
    ASSUME NEW l, NEW k, IsLogOf(l), NEW r \in Continuations(l.records),
           k = [records |-> Append(l.records, r), partial |-> FALSE]
    PROVE  Grown(l, k)
  <1> DEFINE L == l.records
             n == Len(L)
  <1>1. IsWritten(L) /\ n \in Nat
    BY LogFacts DEF IsLogOf, IsWritten
  <1>2. /\ IsWritten(k.records) /\ Len(k.records) = n + 1 /\ k.partial = FALSE
        /\ \A m \in 0 .. n : SubSeq(k.records, 1, m) = SubSeq(L, 1, m)
    BY <1>1, WrittenOn
  <1>3. IsLogOf(k)
    BY <1>2 DEF IsLogOf
  <1>4. Size(l) \in Nat /\ Size(l) <= 2 * n + 1 /\ Size(k) \in Nat
    BY <1>3, LogSize
  <1>5. Size(k) = 2 * (n + 1)
    BY <1>1, <1>2 DEF Size
  <1>6. ASSUME NEW m \in 0 .. Size(l) PROVE Upto(k, m).records = Upto(l, m).records
    <2>1. m \div 2 \in 0 .. n
      BY <1>1, <1>4
    <2> QED BY <1>2, <2>1 DEF Upto
  <1> HIDE DEF n
  <1>7. Size(l) <= Size(k)
    BY <1>1, <1>4, <1>5
  <1> QED BY <1>3, <1>6, <1>7 DEF Grown

-----------------------------------------------------------------------------
(* What is known stays known.                                              *)
LEMMA LatestStays ==
    ASSUME NEW l, NEW k, IsLogOf(l), Grown(l, k), NEW n \in Nat, NEW limit, NEW texts, NEW bounded,
           Latest(l, n, limit, texts, bounded)
    PROVE  Latest(k, n, limit, texts, bounded)
  <1>1. Size(l) \in Nat /\ Size(k) \in Nat /\ Size(l) <= Size(k) /\ MaxTail \in Nat
    BY LogSize, ReadsAssumption DEF Grown
  <1>2. PICK m \in n .. Size(l) : LatestAnswers(Upto(l, m).records, limit, texts, ~bounded)
    BY DEF Latest
  <1>3. m \in 0 .. Size(l) /\ m \in n .. Size(k)
    BY <1>1
  <1>4. Upto(k, m).records = Upto(l, m).records
    BY <1>3 DEF Grown
  <1>5. LatestAnswers(Upto(k, m).records, limit, texts, ~bounded)
    BY <1>2, <1>4
  <1>6. Size(l) > MaxTail => Size(k) > MaxTail
    BY <1>1
  <1> QED BY <1>3, <1>5, <1>6 DEF Latest

LEMMA LocatedStays ==
    ASSUME NEW d, NEW e, IsScene(d), IsScene(e), Later(d, e),
           NEW f, NEW s \in Sessions, NEW at \in Int, at <= d.now, Located(d, f, s, at)
    PROVE  Located(e, f, s, at)
  <1>1. d.moved[s] \in Int /\ e.moved[s] \in Int /\ d.now \in Int /\ LocationTime \in Nat \ {0}
    BY ReadsAssumption DEF IsScene
  <1>2. CASE e.row[s] = d.row[s] /\ e.moved[s] = d.moved[s]
    BY <1>2 DEF Located
  <1>3. CASE e.moved[s] >= d.now
    <2>1. at - e.moved[s] < LocationTime
      BY <1>1, <1>3
    <2> QED BY <2>1 DEF Located
  <1> QED BY <1>2, <1>3 DEF Later

LEMMA PlacesStay ==
    ASSUME NEW d, NEW e, IsScene(d), IsScene(e), Later(d, e)
    PROVE  KnownPlaces(d) \subseteq KnownPlaces(e)
  <1> SUFFICES ASSUME NEW p \in KnownPlaces(d) PROVE p \in KnownPlaces(e)
    OBVIOUS
  <1>1. /\ p \in [session : Sessions, path : ToSet(Files), checked : Int] /\ p.checked <= d.now
        /\ p.path = d.row[p.session] \/ d.moved[p.session] >= p.checked
    BY DEF KnownPlaces
  <1> DEFINE s == p.session
  <1>2. s \in Sessions /\ p.checked \in Int
    BY <1>1
  <1>3. d.moved[s] \in Int /\ e.moved[s] \in Int /\ d.now \in Int /\ e.now \in Int /\ e.now >= d.now
    BY <1>2 DEF IsScene, Later
  <1>4. p.checked <= e.now
    BY <1>1, <1>2, <1>3
  <1>5. CASE e.row[s] = d.row[s] /\ e.moved[s] = d.moved[s]
    BY <1>1, <1>4, <1>5 DEF KnownPlaces
  <1>6. CASE e.moved[s] >= d.now
    <2>1. e.moved[s] >= p.checked
      BY <1>1, <1>2, <1>3, <1>6
    <2> QED BY <1>1, <1>4, <2>1 DEF KnownPlaces
  <1> QED BY <1>2, <1>5, <1>6 DEF Later

LEMMA AnswersStay ==
    ASSUME NEW d, NEW e, IsScene(d), IsScene(e), Later(d, e)
    PROVE  KeptAnswers(d) \subseteq KeptAnswers(e)
  <1> SUFFICES ASSUME NEW a \in KeptAnswers(d) PROVE a \in KeptAnswers(e)
    OBVIOUS
  <1> DEFINE Entries == [path : ToSet(Files), size : Nat, limit : Nat, texts : Seq(Nat), bounded : BOOLEAN]
             l == d.log[a.path]
             k == e.log[a.path]
  <1>1. /\ a \in Entries /\ a.size <= Size(l)
        /\ Latest(l, a.size, a.limit, a.texts, a.bounded)
    BY DEF KeptAnswers
  <1>2. a.path \in ToSet(Files) /\ a.size \in Nat
    BY <1>1
  <1>3. IsLogOf(l) /\ Grown(l, k)
    BY <1>2 DEF IsScene, Later
  <1>4. Size(l) \in Nat /\ Size(k) \in Nat /\ Size(l) <= Size(k)
    BY <1>3, LogSize DEF Grown
  <1>5. a.size <= Size(k)
    BY <1>1, <1>2, <1>4
  <1>6. Latest(k, a.size, a.limit, a.texts, a.bounded)
    BY <1>1, <1>2, <1>3, LatestStays
  <1> QED BY <1>1, <1>5, <1>6 DEF KeptAnswers

LEMMA BegunStays ==
    ASSUME NEW d, NEW e, IsScene(d), IsScene(e), Later(d, e), NEW w, Begun(d, w)
    PROVE  Begun(e, w)
  <1>1. w.at \in Int /\ w.at <= d.now /\ d.now \in Int /\ e.now \in Int /\ e.now >= d.now
    BY DEF Begun, IsScene, Later
  <1>2. w.at <= e.now
    BY <1>1
  <1>3. ASSUME NEW f \in ToSet(Files) PROVE w.sizes[f] \in Nat /\ w.sizes[f] <= Size(e.log[f])
    <2>1. IsLogOf(d.log[f]) /\ IsLogOf(e.log[f]) /\ Size(d.log[f]) <= Size(e.log[f])
      BY DEF IsScene, Later, Grown
    <2>2. Size(d.log[f]) \in Nat /\ Size(e.log[f]) \in Nat
      BY <2>1, LogSize
    <2>3. w.sizes[f] \in Nat /\ w.sizes[f] <= Size(d.log[f])
      BY DEF Begun
    <2> QED BY <2>1, <2>2, <2>3
  <1> QED BY <1>1, <1>2, <1>3 DEF Begun

LEMMA KnowsStays ==
    ASSUME NEW d, NEW e, IsScene(d), IsScene(e), Later(d, e), NEW w, NEW c,
           c.session \in Sessions \cup {Nothing}, Knows(d, w, c)
    PROVE  Knows(e, w, c)
  <1>1. Begun(d, w) /\ Begun(e, w) /\ w.at \in Int /\ w.at <= d.now
    BY BegunStays DEF Knows, Begun
  <1>2. ASSUME w.step \in {"stat", "window"} \/ (w.step = "done" /\ w.ok /\ c.session # Nothing)
        PROVE  Located(e, w.path, c.session, w.at) /\ w.path \in ToSet(Files)
    <2>1. c.session \in Sessions /\ Located(d, w.path, c.session, w.at)
      BY <1>2 DEF Knows
    <2> QED BY <1>1, <2>1, LocatedStays DEF Located
  <1>3. ASSUME w.step = "window" PROVE w.size \in Nat /\ w.size <= Size(e.log[w.path])
    <2>1. w.size \in Nat /\ w.size <= Size(d.log[w.path]) /\ w.path \in ToSet(Files)
      BY <1>2, <1>3 DEF Knows
    <2>2. IsLogOf(d.log[w.path]) /\ Grown(d.log[w.path], e.log[w.path])
      BY <2>1 DEF IsScene, Later
    <2>3. Size(d.log[w.path]) \in Nat /\ Size(e.log[w.path]) \in Nat
          /\ Size(d.log[w.path]) <= Size(e.log[w.path])
      BY <2>2, LogSize DEF Grown
    <2> QED BY <2>1, <2>3
  <1>4. ASSUME w.step = "done", w.ok, c.session # Nothing
        PROVE  Latest(e.log[w.path], w.sizes[w.path], c.limit, w.texts, w.bounded)
    <2>1. w.path \in ToSet(Files) /\ Latest(d.log[w.path], w.sizes[w.path], c.limit, w.texts, w.bounded)
      BY <1>2, <1>4 DEF Knows
    <2>2. IsLogOf(d.log[w.path]) /\ Grown(d.log[w.path], e.log[w.path]) /\ w.sizes[w.path] \in Nat
      BY <1>1, <2>1 DEF IsScene, Later, Begun
    <2> QED BY <2>1, <2>2, LatestStays
  <1> QED BY <1>1, <1>2, <1>3, <1>4 DEF Knows

-----------------------------------------------------------------------------
(* The disk changes, and the clock goes on.                                *)
LEMMA StillLater ==
    ASSUME NEW d, IsScene(d)
    PROVE  Later(d, d)
  <1>1. d.now \in Int /\ \A f \in ToSet(Files) : Grown(d.log[f], d.log[f])
    BY StillGrown DEF IsScene
  <1>2. d.now >= d.now
    BY <1>1
  <1> QED BY <1>1, <1>2 DEF Later

LEMMA SceneFields ==
    /\ Scene.log = log /\ Scene.moved = moved /\ Scene.now = now
    /\ Scene.row \in [Sessions -> {Row(s) : s \in Sessions}]
    /\ \A s \in Sessions : Scene.row[s] = Row(s)
  BY DEF Scene

LEMMA SceneStays ==
    ASSUME Rows, IsScene(Scene), UNCHANGED <<log, rows, moved, now>>
    PROVE  Rows' /\ Scene' = Scene /\ IsScene(Scene') /\ Later(Scene, Scene')
  <1>1. Scene' = Scene
    BY DEF Scene, Row, Database
  <1>2. Rows'
    BY DEF Rows, Database
  <1> QED BY <1>1, <1>2, StillLater

(* Codex writes a log. *)
LEMMA WriteIsLater ==
    ASSUME Rows, IsScene(Scene), NEW f \in ToSet(Files), NEW l, Write(f, l), Grown(log[f], l)
    PROVE  Rows' /\ IsScene(Scene') /\ Later(Scene, Scene')
  <1>1. log' = [log EXCEPT ![f] = l] /\ UNCHANGED <<now, rows, moved>>
    BY DEF Write
  <1>2. DOMAIN log = ToSet(Files) /\ \A g \in ToSet(Files) : IsLogOf(log[g])
    BY SceneFields DEF IsScene
  <1>3. /\ DOMAIN log' = ToSet(Files) /\ log'[f] = l
        /\ \A g \in ToSet(Files) : g # f => log'[g] = log[g]
    BY <1>1, <1>2
  <1>4. \A g \in ToSet(Files) : Grown(log[g], log'[g])
    BY <1>2, <1>3, StillGrown
  <1> DEFINE d == Scene
             e == Scene'
  <1>5. d.log = log /\ e.log = log' /\ e.row = d.row /\ e.moved = d.moved /\ e.now = d.now
    BY <1>1 DEF Scene, Row, Database
  <1>6. Rows'
    BY <1>1 DEF Rows, Database
  <1>7. IsScene(d)
    OBVIOUS
  <1> HIDE DEF d, e
  <1>8. \A g \in ToSet(Files) : IsLogOf(e.log[g]) /\ Grown(d.log[g], e.log[g])
    BY <1>4, <1>5 DEF Grown
  <1>9. IsScene(e)
    BY <1>3, <1>5, <1>7, <1>8 DEF IsScene
  <1>10. e.now >= d.now
    BY <1>5, <1>7 DEF IsScene
  <1>11. Later(d, e)
    BY <1>5, <1>8, <1>10 DEF Later
  <1> QED BY <1>6, <1>9, <1>11 DEF d, e

(* A session gets another rollout. *)
LEMMA MoveIsLater ==
    ASSUME Rows, IsScene(Scene), NEW s \in Sessions, NEW f \in ToSet(Files),
           CommitRow(s, f) \/ ReplaceDatabase(s, f)
    PROVE  Rows' /\ IsScene(Scene') /\ Later(Scene, Scene')
  <1> DEFINE Places == [Sessions -> ToSet(Files)]
             n == Len(rows)
  <1>1. rows \in Seq(Places) /\ n \in Nat \ {0} /\ rows[n] \in Places
    BY DEF Rows, Database
  <1>2. moved' = [moved EXCEPT ![s] = now] /\ UNCHANGED <<now, log>>
    BY DEF CommitRow, ReplaceDatabase, Move
  <1> DEFINE row == [rows[n] EXCEPT ![s] = f]
  <1>3. row \in Places /\ \A x \in Sessions : x # s => row[x] = rows[n][x]
    BY <1>1
  <1>4. rows' \in Seq(Places) /\ Len(rows') \in Nat \ {0} /\ rows'[Len(rows')] = row
    <2>1. CASE CommitRow(s, f)
      <3>1. rows' = [rows EXCEPT ![n] = row]
        BY <2>1 DEF CommitRow, Move, Database
      <3> HIDE DEF row, Places, n
      <3>2. n = Len(rows) /\ rows \in Seq(Places) /\ row \in Places
        BY <1>1, <1>3 DEF n
      <3>3. rows' \in Seq(Places) /\ Len(rows') = n /\ rows'[n] = row
        BY <1>1, <3>1, <3>2
      <3> QED BY <1>1, <3>3
    <2>2. CASE ReplaceDatabase(s, f)
      <3>1. rows' = Append(rows, row)
        BY <2>2 DEF ReplaceDatabase, Move, Database
      <3> HIDE DEF row, Places, n
      <3>2. n = Len(rows) /\ rows \in Seq(Places) /\ row \in Places
        BY <1>1, <1>3 DEF n
      <3>3. rows' \in Seq(Places) /\ Len(rows') = n + 1 /\ rows'[n + 1] = row
        BY <1>1, <3>1, <3>2
      <3> QED BY <1>1, <3>3
    <2> QED BY <2>1, <2>2
  <1> HIDE DEF row
  <1>5. Rows'
    BY <1>4 DEF Rows, Database
  <1> DEFINE d == Scene
             e == Scene'
  <1>6. /\ e.log = d.log /\ e.now = d.now /\ d.now = now
        /\ d.moved = moved /\ e.moved = moved'
        /\ d.row = [x \in Sessions |-> rows[n][x]] /\ e.row = [x \in Sessions |-> row[x]]
    BY <1>2, <1>4 DEF Scene, Row, Database
  <1>7. IsScene(d)
    OBVIOUS
  <1> HIDE DEF d, e, n
  <1>8. d.moved \in [Sessions -> Int] /\ d.now \in Int /\ \A x \in Sessions : d.moved[x] <= d.now
    BY <1>7 DEF IsScene
  <1>9. e.moved = [d.moved EXCEPT ![s] = d.now]
    BY <1>2, <1>6
  <1>10. /\ e.moved \in [Sessions -> Int] /\ e.moved[s] = d.now
         /\ \A x \in Sessions : x # s => e.moved[x] = d.moved[x]
    BY <1>8, <1>9
  <1>11. e.row \in [Sessions -> ToSet(Files)] /\ \A x \in Sessions : x # s => e.row[x] = d.row[x]
    BY <1>3, <1>6
  <1>12. \A x \in Sessions : e.moved[x] <= e.now
    BY <1>6, <1>8, <1>10
  <1>13. IsScene(e)
    BY <1>6, <1>7, <1>10, <1>11, <1>12 DEF IsScene
  <1>14. Later(d, e)
    <2>1. e.now >= d.now /\ e.moved[s] >= d.now
      BY <1>6, <1>8, <1>10
    <2>2. \A g \in ToSet(Files) : Grown(d.log[g], e.log[g])
      BY <1>6, <1>7, StillGrown DEF IsScene
    <2> QED BY <1>10, <1>11, <2>1, <2>2 DEF Later
  <1> QED BY <1>5, <1>13, <1>14 DEF d, e

LEMMA TickIsLater ==
    ASSUME Rows, IsScene(Scene), Tick
    PROVE  Rows' /\ IsScene(Scene') /\ Later(Scene, Scene')
  <1>1. now' = now + 1 /\ UNCHANGED <<log, rows, moved>>
    BY DEF Tick, diskVars
  <1>2. Rows'
    BY <1>1 DEF Rows, Database
  <1> DEFINE d == Scene
             e == Scene'
  <1>3. e.log = d.log /\ e.moved = d.moved /\ e.row = d.row /\ e.now = d.now + 1
    BY <1>1 DEF Scene, Row, Database
  <1>4. IsScene(d)
    OBVIOUS
  <1> HIDE DEF d, e
  <1>5. d.now \in Int /\ d.moved \in [Sessions -> Int] /\ \A s \in Sessions : d.moved[s] <= d.now
    BY <1>4 DEF IsScene
  <1>6. e.now \in Int /\ e.now >= d.now /\ \A s \in Sessions : e.moved[s] <= e.now
    BY <1>3, <1>5
  <1>7. IsScene(e)
    BY <1>3, <1>4, <1>6 DEF IsScene
  <1>8. Later(d, e)
    BY <1>3, <1>4, <1>6, StillGrown DEF Later, IsScene
  <1> QED BY <1>2, <1>7, <1>8 DEF d, e

LEMMA SceneSteps ==
    ASSUME Rows, IsScene(Scene), [Next]_vars
    PROVE  Rows' /\ IsScene(Scene') /\ Later(Scene, Scene')
  <1>1. CASE UNCHANGED <<log, rows, moved, now>>
    BY <1>1, SceneStays
  <1>2. CASE \E f \in ToSet(Files) : AppendPart(f)
    <2>1. PICK f \in ToSet(Files) : AppendPart(f)
      BY <1>2
    <2> DEFINE l == [log[f] EXCEPT !.partial = TRUE]
    <2>2. ~log[f].partial /\ Write(f, l)
      BY <2>1 DEF AppendPart
    <2>3. IsLogOf(log[f])
      BY SceneFields DEF IsScene
    <2> HIDE DEF l
    <2>4. Grown(log[f], l)
      BY <2>2, <2>3, PartGrows DEF l
    <2> QED BY <2>2, <2>4, WriteIsLater
  <1>3. CASE \E f \in ToSet(Files) : \E r \in Continuations(log[f].records) : AppendRecord(f, r)
    <2>0. PICK f \in ToSet(Files) : \E r \in Continuations(log[f].records) : AppendRecord(f, r)
      BY <1>3
    <2>1. PICK r \in Continuations(log[f].records) : AppendRecord(f, r)
      BY <2>0
    <2> DEFINE l == [records |-> Append(log[f].records, r), partial |-> FALSE]
    <2>2. Write(f, l)
      BY <2>1 DEF AppendRecord
    <2>3. IsLogOf(log[f])
      BY SceneFields DEF IsScene
    <2>4. Grown(log[f], l)
      BY <2>3, RecordGrows
    <2> QED BY <2>2, <2>4, WriteIsLater
  <1>4. CASE \E s \in Sessions, f \in ToSet(Files) : CommitRow(s, f) \/ ReplaceDatabase(s, f)
    BY <1>4, MoveIsLater
  <1>5. CASE Tick
    BY <1>5, TickIsLater
  <1>6. CASE \/ \E session \in left.menu.asks, p \in left.menu.providers, limit \in left.menu.limits :
                  Ask(session, p, limit)
             \/ \E p \in left.menu.providers : TabsAsk(p)
             \/ \E s \in Sources : Touch(s)
    BY <1>1, <1>6, Zenon DEF Ask, TabsAsk, Touch, recentVars, diskVars
  <1>7. CASE Listen \/ Work \/ Trouble \/ TabsRead \/ \E a \in Actors : LoadGoesOn(a)
    <2>1. CASE Listen \/ QueryDatabase \/ ReadSnapshot \/ ReadResponsePayload \/ ReadWindow
               \/ LocationGone \/ LockedDatabase \/ ReadFails
      BY <1>1, <2>1, Zenon DEF Listen, StartPending, Receive, SendReadResult, QueryDatabase, ReadSnapshot,
           ReadResponsePayload, ReadWindow, LocationGone, LockedDatabase, ReadFails, recentVars, diskVars
    <2>2. CASE ReadRequest \/ RecentsRead \/ TabsRead
      BY <1>1, <2>2, Zenon DEF ReadRequest, RecentsRead, TabsRead, diskVars, readVars
    <2>3. ASSUME NEW a \in Actors, LoadGoesOn(a) \/ LoadFails(a)
          PROVE  UNCHANGED <<log, rows, moved, now>>
      BY <2>3 DEF LoadGoesOn, LoadBegins, LoadTracks, LoadReads, LoadReadsHeader, LoadEnds, LoadFails,
             BeginLoad, TrackStep, ReadStep, HeaderStep, EndLoad, SkipStep, FailLoad, readVars, diskVars
    <2> QED BY <1>1, <1>7, <2>1, <2>2, <2>3 DEF Work, Trouble
  <1>8. CASE UNCHANGED vars
    BY <1>1, <1>8 DEF vars, recentVars, diskVars
  <1>9. World \/ Listen \/ Work \/ Trouble \/ TabsRead \/ (\E a \in Actors : LoadGoesOn(a))
        \/ UNCHANGED vars
    BY DEF Next
  <1>10. CASE World
    BY <1>2, <1>3, <1>4, <1>5, <1>6, <1>10 DEF World
  <1> QED BY <1>7, <1>8, <1>9, <1>10

-----------------------------------------------------------------------------
(* The request that is read stays what it is.                              *)
LEMMA CallIs ==
    ASSUME QueueInv, Busy
    PROVE  /\ worker.id \in 1 .. Len(calls) /\ Call \in Asks
           /\ Call.session \in Sessions \cup {Nothing} /\ Call.limit \in Nat \ {0}
  <1>1. worker.id \in 1 .. Len(calls) /\ calls \in Seq(Asks)
    <2>1. worker.id \in 1 .. Received
      BY DEF QueueInv, InPlace
    <2> QED BY <2>1, QueueFacts
  <1>2. Call \in Asks
    BY <1>1 DEF Call
  <1> QED BY <1>1, <1>2 DEF Asks

LEMMA CallStays ==
    ASSUME QueueInv, Busy, [Next]_vars, worker'.id = worker.id, ~SendReadResult
    PROVE  Call'.session = Call.session /\ Call'.limit = Call.limit
  <1> DEFINE i == worker.id
  <1>1. i \in 1 .. Len(calls) /\ calls \in Seq(Asks) /\ Len(calls) \in Nat /\ Call = calls[i]
    BY CallIs, QueueFacts DEF Call
  <1>2. Call' = calls'[i]
    BY DEF Call
  <1>3. CASE UNCHANGED calls
    BY <1>1, <1>2, <1>3
  <1>4. CASE \E session \in left.menu.asks, p \in left.menu.providers, limit \in left.menu.limits :
               Ask(session, p, limit)
    <2>1. PICK c : calls' = Append(calls, c)
      BY <1>4, Zenon DEF Ask
    <2>2. calls'[i] = calls[i]
      BY <1>1, <2>1
    <2> QED BY <1>1, <1>2, <2>2
  <1>5. CASE Receive
    <2>1. calls' = [j \in DOMAIN calls |->
                      IF j \in Replace(inbox[1]).replaced THEN Replied(j, TRUE)[j] ELSE calls[j]]
      BY <1>5 DEF Receive
    <2>2. i \in DOMAIN calls
      BY <1>1
    <2>3. calls'[i] = calls[i] \/ calls'[i] = Replied(i, TRUE)[i]
      BY <2>1, <2>2
    <2>4. Replied(i, TRUE)[i] = [calls[i] EXCEPT !.replies = @ + 1, !.superseded = TRUE]
      BY <2>2 DEF Replied
    <2>5. \A c : [c EXCEPT !.replies = @ + 1, !.superseded = TRUE].session = c.session
                 /\ [c EXCEPT !.replies = @ + 1, !.superseded = TRUE].limit = c.limit
      OBVIOUS
    <2> QED BY <1>1, <1>2, <2>3, <2>4, <2>5
  <1>6. CASE World
    <2>1. \/ \E session \in left.menu.asks, p \in left.menu.providers, limit \in left.menu.limits :
               Ask(session, p, limit)
          \/ UNCHANGED calls
      BY <1>6, Zenon DEF World, TabsAsk, AppendPart, AppendRecord, Write, Touch, CommitRow,
                         ReplaceDatabase, Move, Tick, queueVars
    <2> QED BY <1>3, <1>4, <2>1
  <1>7. CASE StartPending \/ Work \/ LocationGone \/ LockedDatabase \/ ReadFails \/ TabsRead
    <2>1. UNCHANGED calls
      BY <1>7, Zenon DEF StartPending, Work, ReadRequest, QueryDatabase, ReadSnapshot, ReadResponsePayload,
                         ReadWindow, RecentsRead, LocationGone, LockedDatabase, ReadFails, TabsRead,
                         readVars, queueVars
    <2> QED BY <1>3, <2>1
  <1>8. ASSUME NEW a \in Actors, LoadGoesOn(a) \/ LoadFails(a)
        PROVE  UNCHANGED calls
    BY <1>8 DEF LoadGoesOn, LoadBegins, LoadTracks, LoadReads, LoadReadsHeader, LoadEnds, LoadFails,
                readVars, queueVars
  <1>9. CASE UNCHANGED vars
    BY <1>3, <1>9 DEF vars, queueVars
  <1> QED BY <1>3, <1>5, <1>6, <1>7, <1>8, <1>9 DEF Next, Listen, Trouble

(* A step that neither the worker nor the caches take.                     *)
LEMMA KnowsSame ==
    ASSUME NEW d, NEW w, NEW c, NEW b, b.session = c.session, b.limit = c.limit, Knows(d, w, c)
    PROVE  Knows(d, w, b)
  BY DEF Knows

LEMMA OthersKeep ==
    ASSUME HistoryInv, QueueInv, [Next]_vars, ~SendReadResult,
           UNCHANGED <<worker, locations, responses>>
    PROVE  HistoryInv'
  <1>1. Rows' /\ IsScene(Scene) /\ IsScene(Scene') /\ Later(Scene, Scene')
    BY SceneSteps DEF HistoryInv
  <1>2. KnownPlaces(Scene) \subseteq KnownPlaces(Scene') /\ KeptAnswers(Scene) \subseteq KeptAnswers(Scene')
    BY <1>1, PlacesStay, AnswersStay
  <1>3. locations' \in Seq(KnownPlaces(Scene'))
    <2>1. locations \in Seq(KnownPlaces(Scene))
      BY DEF HistoryInv
    <2> QED BY <1>2, <2>1
  <1>4. responses' \in Seq(KeptAnswers(Scene'))
    <2>1. responses \in Seq(KeptAnswers(Scene))
      BY DEF HistoryInv
    <2> QED BY <1>2, <2>1
  <1>5. ASSUME Busy PROVE Knows(Scene', worker, Call')
    <2>1. Knows(Scene, worker, Call) /\ Call.session \in Sessions \cup {Nothing}
      BY <1>5, CallIs DEF HistoryInv
    <2>2. Knows(Scene', worker, Call)
      BY <1>1, <2>1, KnowsStays
    <2>3. Call'.session = Call.session /\ Call'.limit = Call.limit
      BY <1>5, CallStays
    <2> QED BY <2>2, <2>3, KnowsSame
  <1>6. Busy' = Busy /\ worker' = worker
    BY DEF Busy
  <1> QED BY <1>1, <1>3, <1>4, <1>5, <1>6 DEF HistoryInv

-----------------------------------------------------------------------------
(* The worker's own steps: disk and request stay as they are.              *)
LEMMA WorkerSet ==
    ASSUME HasFields(worker, WorkerFields)
    PROVE  /\ \A x : LET w == [worker EXCEPT !.step = x] IN
                /\ w.step = x /\ w.id = worker.id /\ w.path = worker.path /\ w.ok = worker.ok
                /\ w.size = worker.size /\ w.tail = worker.tail /\ w.at = worker.at
                /\ w.sizes = worker.sizes
           /\ \A p, b : LET w == [worker EXCEPT !.step = "stat", !.path = p, !.cached = b] IN
                /\ w.step = "stat" /\ w.id = worker.id /\ w.path = p /\ w.ok = worker.ok
                /\ w.at = worker.at /\ w.sizes = worker.sizes
           /\ \A p : LET w == [worker EXCEPT !.step = "stat", !.path = p] IN
                /\ w.step = "stat" /\ w.id = worker.id /\ w.path = p /\ w.ok = worker.ok
                /\ w.at = worker.at /\ w.sizes = worker.sizes
           /\ \A n, t : LET w == [worker EXCEPT !.step = "window", !.tail = t, !.size = n] IN
                /\ w.step = "window" /\ w.id = worker.id /\ w.path = worker.path /\ w.ok = worker.ok
                /\ w.size = n /\ w.tail = t /\ w.at = worker.at /\ w.sizes = worker.sizes
           /\ \A t : LET w == [worker EXCEPT !.tail = t] IN
                /\ w.step = worker.step /\ w.id = worker.id /\ w.path = worker.path /\ w.ok = worker.ok
                /\ w.size = worker.size /\ w.tail = t /\ w.at = worker.at /\ w.sizes = worker.sizes
           /\ \A x, b : LET w == Answered(x, b) IN
                /\ w.step = "done" /\ w.id = worker.id /\ w.path = worker.path /\ w.ok = TRUE
                /\ w.texts = x /\ w.bounded = b /\ w.at = worker.at /\ w.sizes = worker.sizes
           /\ \A x : LET w == [worker EXCEPT !.step = "done", !.ok = x] IN
                /\ w.step = "done" /\ w.id = worker.id /\ w.at = worker.at /\ w.sizes = worker.sizes
  BY DEF HasFields, WorkerFields, Answered

LEMMA WorkKeeps ==
    ASSUME HistoryInv, QueueInv, Busy, UNCHANGED <<log, rows, moved, now, calls>>,
           worker'.id = worker.id, Knows(Scene, worker', Call),
           locations' \in Seq(KnownPlaces(Scene)), responses' \in Seq(KeptAnswers(Scene))
    PROVE  HistoryInv'
  <1>1. Rows' /\ Scene' = Scene /\ IsScene(Scene')
    BY SceneStays DEF HistoryInv
  <1>2. Call' = Call
    BY DEF Call
  <1> QED BY <1>1, <1>2 DEF HistoryInv

(* The answer is an error. *)
LEMMA FailingKeeps ==
    ASSUME HistoryInv, QueueInv, Busy, worker.step # "done", UNCHANGED <<log, rows, moved, now, calls>>,
           worker' = Failed, ~worker.ok,
           locations' = locations, responses' \in Seq(KeptAnswers(Scene))
    PROVE  HistoryInv'
  <1>1. HasFields(worker, WorkerFields)
    BY DEF QueueInv, QueueTypes
  <1>2. /\ worker'.step = "done" /\ worker'.id = worker.id /\ worker'.ok = worker.ok
        /\ worker'.at = worker.at /\ worker'.sizes = worker.sizes
    BY <1>1, WorkerSet DEF Failed
  <1>3. Knows(Scene, worker', Call)
    <2>1. Begun(Scene, worker')
      BY <1>2 DEF HistoryInv, Knows, Begun
    <2> QED BY <1>2, <2>1 DEF Knows
  <1> QED BY <1>2, <1>3, WorkKeeps DEF HistoryInv

(* Another step, of which only its name and what it needs is known. *)
LEMMA SteppingKeeps ==
    ASSUME HistoryInv, QueueInv, Busy, UNCHANGED <<log, rows, moved, now, calls, locations, responses>>,
           worker.step # "done",
           \/ worker' = [worker EXCEPT !.step = "recents"] /\ Call.session = Nothing
           \/ worker' = [worker EXCEPT !.step = "query"] /\ Call.session # Nothing
           \/ worker' = [worker EXCEPT !.step = "snapshot"] /\ Call.session # Nothing,
           ~worker.ok
    PROVE  HistoryInv'
  <1>1. HasFields(worker, WorkerFields)
    BY DEF QueueInv, QueueTypes
  <1>2. PICK x \in {"recents", "query", "snapshot"} :
          worker' = [worker EXCEPT !.step = x] /\ (x = "recents" <=> Call.session = Nothing)
    OBVIOUS
  <1>3. /\ worker'.step = x /\ worker'.id = worker.id /\ worker'.ok = worker.ok
        /\ worker'.at = worker.at /\ worker'.sizes = worker.sizes
    BY <1>1, <1>2, WorkerSet
  <1>4. Knows(Scene, worker', Call)
    <2>1. Begun(Scene, worker')
      BY <1>3 DEF HistoryInv, Knows, Begun
    <2> QED BY <1>2, <1>3, <2>1 DEF Knows
  <1> QED BY <1>3, <1>4, WorkKeeps DEF HistoryInv

(* The log has been found. *)
LEMMA StatKeeps ==
    ASSUME HistoryInv, QueueInv, Busy, UNCHANGED <<log, rows, moved, now, calls, responses>>,
           worker.step # "done", ~worker.ok, Call.session # Nothing,
           locations' \in Seq(KnownPlaces(Scene)),
           NEW f, Located(Scene, f, Call.session, worker.at),
           \/ worker' = [worker EXCEPT !.step = "stat", !.path = f]
           \/ \E b : worker' = [worker EXCEPT !.step = "stat", !.path = f, !.cached = b]
    PROVE  HistoryInv'
  <1>1. HasFields(worker, WorkerFields)
    BY DEF QueueInv, QueueTypes
  <1>2. /\ worker'.step = "stat" /\ worker'.id = worker.id /\ worker'.path = f /\ worker'.ok = worker.ok
        /\ worker'.at = worker.at /\ worker'.sizes = worker.sizes
    <2>1. CASE worker' = [worker EXCEPT !.step = "stat", !.path = f]
      BY <1>1, <2>1, WorkerSet
    <2>2. CASE \E b : worker' = [worker EXCEPT !.step = "stat", !.path = f, !.cached = b]
      <3>1. PICK b : worker' = [worker EXCEPT !.step = "stat", !.path = f, !.cached = b]
        BY <2>2
      <3> QED BY <1>1, <3>1 DEF HasFields, WorkerFields
    <2> QED BY <2>1, <2>2
  <1>3. Knows(Scene, worker', Call)
    <2>1. Begun(Scene, worker')
      BY <1>2 DEF HistoryInv, Knows, Begun
    <2>2. Located(Scene, worker'.path, Call.session, worker'.at)
      BY <1>2
    <2> QED BY <1>2, <2>1, <2>2 DEF Knows
  <1> QED BY <1>2, <1>3, WorkKeeps DEF HistoryInv

(* A location that was looked up lately. *)
LEMMA KnownIsLocated ==
    ASSUME HistoryInv, QueueInv, Busy, Call.session # Nothing, NEW i \in KnownLocations
    PROVE  Located(Scene, locations[i].path, Call.session, worker.at)
  <1> DEFINE p == locations[i]
             s == Call.session
  <1>1. p \in KnownPlaces(Scene) /\ p.session = s /\ now - p.checked < LocationTime
    <2>1. i \in DOMAIN locations /\ locations \in Seq(KnownPlaces(Scene))
      BY DEF KnownLocations, LocationsOf, HistoryInv
    <2> QED BY <2>1 DEF KnownLocations, LocationsOf
  <1>2. /\ p.path \in ToSet(Files) /\ p.checked \in Int
        /\ p.path = Scene.row[s] \/ Scene.moved[s] >= p.checked
    BY <1>1 DEF KnownPlaces
  <1>3. s \in Sessions
    BY CallIs
  <1>4. Scene.moved[s] \in Int /\ now \in Int /\ worker.at \in Int /\ worker.at <= now /\ LocationTime \in Nat
    BY <1>3, SceneFields, ReadsAssumption DEF HistoryInv, IsScene, Knows, Begun
  <1> HIDE DEF p, s
  <1>5. Scene.moved[s] >= p.checked => worker.at - Scene.moved[s] < LocationTime
    BY <1>1, <1>2, <1>4
  <1> QED BY <1>2, <1>5 DEF Located, p, s

(* A location that has been looked up now. *)
LEMMA FoundKeeps ==
    ASSUME HistoryInv, QueueInv, Busy, UNCHANGED <<log, rows, moved, now, calls, responses>>,
           worker.step \in {"query", "snapshot"}, NEW b, Found(Row(Call.session), b)
    PROVE  HistoryInv'
  <1> DEFINE s == Call.session
             f == Row(s)
             p == [session |-> s, path |-> f, checked |-> now]
  <1>1. s \in Sessions /\ s # Nothing /\ ~worker.ok
    BY CallIs DEF HistoryInv, Knows
  <1>2. f \in ToSet(Files) /\ f = Scene.row[s] /\ now \in Int
    BY <1>1, SceneFields DEF HistoryInv, IsScene
  <1>3. p \in KnownPlaces(Scene)
    BY <1>1, <1>2, SceneFields DEF KnownPlaces
  <1>4. locations \in Seq(KnownPlaces(Scene)) /\ LocationsOf(s) \in SUBSET DOMAIN locations
    BY DEF HistoryInv, LocationsOf
  <1>5. Without(locations, LocationsOf(s)) \in Seq(KnownPlaces(Scene))
    BY <1>4, QueuesKeep
  <1> HIDE DEF p
  <1>6. Append(Without(locations, LocationsOf(s)), p) \in Seq(KnownPlaces(Scene))
    BY <1>3, <1>5
  <1>7. MaxLocations \in Nat
    BY ReadsAssumption
  <1>8. LastOf(Append(Without(locations, LocationsOf(s)), p), MaxLocations) \in Seq(KnownPlaces(Scene))
    BY <1>6, <1>7, QueuesKeep
  <1>9. /\ locations' \in Seq(KnownPlaces(Scene))
        /\ worker' = [worker EXCEPT !.step = "stat", !.path = f, !.cached = b]
    BY <1>8 DEF Found, p
  <1>10. Located(Scene, f, s, worker.at)
    BY <1>2 DEF Located
  <1> QED BY <1>1, <1>9, <1>10, StatKeeps

(* trim_response_cache keeps some of the last entries. *)
LEMMA NothingFolded ==
    ASSUME NEW q, DOMAIN q = {}
    PROVE  FoldLeft(LAMBDA n, e : n + Len(e.texts), 0, q) = 0
  <1> DEFINE Body(g, S) == IF S = {} THEN 0 ELSE g[S \ {Max(S)}] + Len(q[Max(S)].texts)
             iter == CHOOSE g : g = [S \in SUBSET {} |-> Body(g, S)]
  <1>1. FoldLeft(LAMBDA n, e : n + Len(e.texts), 0, q) = iter[{}]
    <2>1. FoldLeft(LAMBDA n, e : n + Len(e.texts), 0, q) = iter[DOMAIN q]
      BY DEF FoldLeft, MapThenFoldSet
    <2> QED BY <2>1
  <1>2. \A g : \A S \in SUBSET {} : Body(g, S) = 0
    OBVIOUS
  <1> HIDE DEF Body
  <1> DEFINE h == [S \in SUBSET {} |-> 0]
  <1>3. h = [S \in SUBSET {} |-> Body(h, S)]
    BY <1>2
  <1>4. iter = [S \in SUBSET {} |-> Body(iter, S)]
    BY <1>3
  <1>5. {} \in SUBSET {}
    OBVIOUS
  <1> HIDE DEF iter
  <1>6. iter[{}] = Body(iter, {})
    BY <1>4, <1>5
  <1> QED BY <1>1, <1>2, <1>5, <1>6

LEMMA TrimmedKeeps ==
    ASSUME NEW S, NEW q \in Seq(S)
    PROVE  Trimmed(q) \in Seq(S)
  <1> DEFINE n == Len(q)
             text(k) == FoldLeft(LAMBDA m, e : m + Len(e.texts), 0, SubSeq(q, k + 1, n))
             fits == {k \in 0 .. n : n - k <= MaxResponses /\ text(k) <= MaxCacheText}
  <1>1. n \in Nat /\ \A i \in 1 .. n : q[i] \in S
    OBVIOUS
  <1>2. text(n) = 0
    <2>1. DOMAIN SubSeq(q, n + 1, n) = {}
      <3>1. SubSeq(q, n + 1, n) = <<>>
        BY <1>1
      <3> QED BY <3>1
    <2> QED BY <2>1, NothingFolded
  <1>3. n \in fits /\ fits \in SUBSET Nat
    <2>1. MaxResponses \in Nat /\ MaxCacheText \in Nat
      BY ReadsAssumption
    <2> HIDE DEF text
    <2>2. n \in 0 .. n /\ n - n <= MaxResponses /\ text(n) <= MaxCacheText
      BY <1>1, <1>2, <2>1
    <2>3. \A k \in 0 .. n : k \in Nat
      BY <1>1
    <2> QED BY <2>2, <2>3
  <1>4. Min(fits) \in fits
    BY <1>3, LeastOf
  <1>5. Min(fits) \in 0 .. n
    BY <1>4
  <1>6. Trimmed(q) = SubSeq(q, Min(fits) + 1, n)
    BY DEF Trimmed
  <1> HIDE DEF fits
  <1> DEFINE k == Min(fits)
  <1> HIDE DEF k
  <1>7. SubSeq(q, k + 1, n) \in Seq(S)
    <2>1. k + 1 \in Nat /\ k + 1 >= 1
      BY <1>5 DEF k
    <2>2. \A i \in k + 1 .. n : q[i] \in S
      BY <1>1, <2>1
    <2> QED BY <1>1, <2>1, <2>2, SubSeqProperties
  <1> QED BY <1>6, <1>7 DEF k

-----------------------------------------------------------------------------
(* The answers in the cache, or the log.                                   *)
LEMMA HitServes ==
    ASSUME NEW d, IsScene(d), NEW e \in KeptAnswers(d), e.size = Size(d.log[e.path]),
           NEW n \in Nat, n <= Size(d.log[e.path]), NEW limit \in Nat, limit <= e.limit
    PROVE  Latest(d.log[e.path], n, limit, FirstOf(e.texts, limit), e.bounded)
  <1> DEFINE l == d.log[e.path]
             s == Size(l)
             few == FirstOf(e.texts, limit)
             L == Upto(l, s).records
  <1>1. /\ e.path \in ToSet(Files) /\ e.limit \in Nat /\ e.texts \in Seq(Nat) /\ e.bounded \in BOOLEAN
        /\ Latest(l, e.size, e.limit, e.texts, e.bounded)
    BY DEF KeptAnswers
  <1>2. IsLogOf(l) /\ s \in Nat /\ MaxTail \in Nat
    BY <1>1, LogSize, ReadsAssumption DEF IsScene
  <1>3. /\ Len(e.texts) <= e.limit
        /\ LatestAnswers(L, e.limit, e.texts, ~e.bounded)
        /\ e.bounded /\ Len(e.texts) < e.limit => s > MaxTail
    <2>1. PICK m \in e.size .. s : LatestAnswers(Upto(l, m).records, e.limit, e.texts, ~e.bounded)
      BY <1>1 DEF Latest
    <2>2. m = s
      BY <1>2, <2>1
    <2> QED BY <1>1, <2>1, <2>2 DEF Latest
  <1> DEFINE whole == ~e.bounded
  <1>4. whole \in BOOLEAN
    OBVIOUS
  <1> HIDE DEF L
  <1>5. /\ few \in Seq(Nat) /\ Len(few) <= limit
        /\ Len(few) < limit => Len(e.texts) = Len(few)
        /\ LatestAnswers(L, limit, few, whole)
    <2> HIDE DEF whole
    <2>1. LatestAnswers(L, e.limit, e.texts, whole)
      BY <1>3 DEF whole
    <2> QED BY <1>1, <1>4, <2>1, FewerAnswers
  <1> HIDE DEF few, s, l
  <1>6. Len(few) \in Nat
    BY <1>5
  <1>7. e.bounded /\ Len(few) < limit => s > MaxTail
    BY <1>1, <1>3, <1>5, <1>6
  <1>8. s \in n .. s
    BY <1>2 DEF s, l
  <1>9. LatestAnswers(Upto(l, s).records, limit, few, ~e.bounded)
    BY <1>5 DEF L
  <1>10. Latest(l, n, limit, few, e.bounded)
    BY <1>1, <1>5, <1>7, <1>8, <1>9 DEF Latest, s
  <1> QED BY <1>10 DEF l, few

LEMMA PayloadKeeps ==
    ASSUME HistoryInv, QueueInv, Busy, ReadResponsePayload
    PROVE  HistoryInv'
  <1> DEFINE f == worker.path
             l == log[f]
             d == Scene
             kept == {i \in DOMAIN responses : responses[i].path = f}
             hits == {i \in kept : Serves(responses[i])}
             hit == responses[CHOOSE i \in hits : TRUE]
             others == Without(responses, kept)
  <1>1. /\ worker.step = "stat" /\ UNCHANGED <<log, rows, moved, now, calls, locations>>
        /\ IF hits # {}
             THEN /\ responses' = Append(others, hit)
                  /\ worker' = Answered(FirstOf(hit.texts, Call.limit), hit.bounded)
             ELSE /\ responses' = others
                  /\ worker' = [worker EXCEPT !.step = "window", !.tail = InitialTail, !.size = Size(l)]
    BY DEF ReadResponsePayload, recentVars, diskVars, queueVars
  <1>2. IsScene(d) /\ Knows(d, worker, Call) /\ responses \in Seq(KeptAnswers(d)) /\ d.log = log
        /\ locations \in Seq(KnownPlaces(d))
    BY SceneFields DEF HistoryInv
  <1>3. f \in ToSet(Files) /\ Located(d, f, Call.session, worker.at) /\ Call.session # Nothing /\ ~worker.ok
    BY <1>1, <1>2 DEF Knows, Located
  <1>4. IsLogOf(l) /\ Size(l) \in Nat
    BY <1>2, <1>3, LogSize DEF IsScene
  <1>5. HasFields(worker, WorkerFields) /\ Call.limit \in Nat \ {0}
    BY CallIs DEF QueueInv, QueueTypes
  <1>6. worker.sizes[f] \in Nat /\ worker.sizes[f] <= Size(l)
    BY <1>2, <1>3 DEF Knows, Begun
  <1>7. kept \in SUBSET DOMAIN responses
    OBVIOUS
  <1>8. others \in Seq(KeptAnswers(d))
    BY <1>2, <1>7, QueuesKeep
  <1> HIDE DEF d, others
  <1>9. CASE hits # {}
    <2>1. (CHOOSE i \in hits : TRUE) \in hits
      BY <1>9
    <2> DEFINE i == CHOOSE j \in hits : TRUE
    <2>2. i \in DOMAIN responses /\ responses[i].path = f /\ Serves(responses[i])
      BY <2>1
    <2> HIDE DEF i, hits
    <2>3. hit \in KeptAnswers(d) /\ hit.path = f /\ hit.size = Size(l) /\ hit.limit >= Call.limit
      BY <1>2, <2>2 DEF Serves, i
    <2>4. hit.limit \in Nat
      BY <2>3 DEF KeptAnswers
    <2> DEFINE few == FirstOf(hit.texts, Call.limit)
    <2> HIDE DEF hit
    <2>5. Latest(l, worker.sizes[f], Call.limit, few, hit.bounded)
      <3>1. /\ hit.size = Size(d.log[hit.path]) /\ worker.sizes[f] <= Size(d.log[hit.path])
            /\ Call.limit <= hit.limit /\ Call.limit \in Nat /\ d.log[hit.path] = l
        BY <1>2, <1>5, <1>6, <2>3, <2>4
      <3> QED BY <1>2, <1>6, <2>3, <3>1, HitServes
    <2>6. worker' = Answered(few, hit.bounded) /\ responses' = Append(others, hit)
      BY <1>1, <1>9 DEF hit, hits
    <2> HIDE DEF few
    <2>7. /\ worker'.step = "done" /\ worker'.id = worker.id /\ worker'.path = f
          /\ worker'.texts = few /\ worker'.bounded = hit.bounded
          /\ worker'.at = worker.at /\ worker'.sizes = worker.sizes
      BY <1>5, <2>6 DEF HasFields, WorkerFields, Answered
    <2>8. Knows(d, worker', Call)
      <3>1. Begun(d, worker')
        BY <1>2, <2>7 DEF Knows, Begun
      <3> QED BY <1>2, <1>3, <2>5, <2>7, <3>1 DEF Knows
    <2>9. responses' \in Seq(KeptAnswers(d))
      BY <1>8, <2>3, <2>6
    <2> QED BY <1>1, <1>2, <2>7, <2>8, <2>9, WorkKeeps DEF d
  <1>10. CASE hits = {}
    <2>1. responses' = others
          /\ worker' = [worker EXCEPT !.step = "window", !.tail = InitialTail, !.size = Size(l)]
      BY <1>1, <1>10
    <2>2. /\ worker'.step = "window" /\ worker'.id = worker.id /\ worker'.path = f /\ worker'.ok = worker.ok
          /\ worker'.size = Size(l) /\ worker'.tail = InitialTail
          /\ worker'.at = worker.at /\ worker'.sizes = worker.sizes
      BY <1>5, <2>1, WorkerSet
    <2>3. Knows(d, worker', Call)
      <3>1. Begun(d, worker')
        BY <1>2, <2>2 DEF Knows, Begun
      <3>2. InitialTail \in Nat \ {0} /\ Size(l) <= Size(l)
        BY <1>4, ReadsAssumption
      <3> QED BY <1>2, <1>3, <1>4, <2>2, <3>1, <3>2 DEF Knows
    <2> QED BY <1>1, <1>2, <1>8, <2>1, <2>2, <2>3, WorkKeeps DEF d
  <1> QED BY <1>9, <1>10

LEMMA WindowKeeps ==
    ASSUME HistoryInv, QueueInv, Busy, ReadWindow
    PROVE  HistoryInv'
  <1> DEFINE f == worker.path
             l == log[f]
             d == Scene
             limit == Call.limit
             tail == worker.tail
  <1>0. worker.step = "window" /\ UNCHANGED <<log, rows, moved, now, calls, locations>>
    BY DEF ReadWindow, recentVars, diskVars, queueVars
  <1>1. PICK w \in Window(l, limit, tail) :
         LET last == Len(w.texts) >= limit \/ ~w.bounded \/ tail = MaxTail IN
           /\ worker' = IF w.failed THEN Failed
                        ELSE IF last THEN Answered(w.texts, w.bounded)
                        ELSE [worker EXCEPT !.tail = Min({4 * @, MaxTail})]
           /\ responses' = IF w.failed \/ ~last \/ Len(w.texts) > MaxCacheText THEN responses
                           ELSE Trimmed(Append(responses,
                                  [path |-> f, size |-> worker.size, limit |-> limit,
                                   texts |-> w.texts, bounded |-> w.bounded]))
    BY DEF ReadWindow
  <1> DEFINE last == Len(w.texts) >= limit \/ ~w.bounded \/ tail = MaxTail
             entry == [path |-> f, size |-> worker.size, limit |-> limit,
                       texts |-> w.texts, bounded |-> w.bounded]
  <1>2. IsScene(d) /\ Knows(d, worker, Call) /\ responses \in Seq(KeptAnswers(d)) /\ d.log = log
        /\ locations \in Seq(KnownPlaces(d))
    BY SceneFields DEF HistoryInv
  <1>3. /\ f \in ToSet(Files) /\ Located(d, f, Call.session, worker.at)
        /\ Call.session # Nothing /\ ~worker.ok
        /\ worker.size \in Nat /\ worker.size <= Size(l) /\ tail \in Nat \ {0}
    BY <1>0, <1>2 DEF Knows, Located
  <1>4. IsLogOf(l) /\ Size(l) \in Nat /\ MaxTail \in Nat \ {0} /\ Upto(l, Size(l)).records = l.records
    BY <1>2, <1>3, UptoNow, ReadsAssumption DEF IsScene
  <1>5. HasFields(worker, WorkerFields) /\ limit \in Nat \ {0}
    BY CallIs DEF QueueInv, QueueTypes
  <1>6. worker.sizes[f] \in Nat /\ worker.sizes[f] <= Size(l)
    BY <1>2, <1>3 DEF Knows, Begun
  <1> HIDE DEF d, l, limit, tail
  <1>7. /\ w.bounded \in BOOLEAN /\ (w.bounded <=> Size(l) > tail)
        /\ w.texts \in Seq(Nat) /\ Len(w.texts) <= limit
        /\ LatestAnswers(l.records, limit, w.texts, ~w.bounded)
    BY <1>3, <1>4, <1>5, WindowShows
  <1>8. CASE w.failed
    <2>1. worker' = Failed /\ responses' = responses
      BY <1>1, <1>8
    <2> QED BY <1>0, <1>2, <1>3, <2>1, FailingKeeps DEF d
  <1>9. CASE ~w.failed /\ ~last
    <2>1. worker' = [worker EXCEPT !.tail = Min({4 * @, MaxTail})] /\ responses' = responses
      BY <1>1, <1>9 DEF tail
    <2> DEFINE t == Min({4 * tail, MaxTail})
    <2>2. t \in Nat \ {0}
      <3>1. {4 * tail, MaxTail} \in SUBSET (Nat \ {0}) /\ {4 * tail, MaxTail} # {}
        BY <1>3, <1>4
      <3>2. {4 * tail, MaxTail} \in SUBSET Nat
        BY <3>1
      <3>3. t \in {4 * tail, MaxTail}
        BY <3>1, <3>2, LeastOf
      <3> QED BY <3>1, <3>3
    <2>3. worker' = [worker EXCEPT !.tail = t]
      BY <1>5, <2>1 DEF tail
    <2> HIDE DEF t
    <2>4. /\ worker'.step = "window" /\ worker'.id = worker.id /\ worker'.path = f /\ worker'.ok = worker.ok
          /\ worker'.size = worker.size /\ worker'.tail = t
          /\ worker'.at = worker.at /\ worker'.sizes = worker.sizes
      BY <1>0, <1>5, <2>3 DEF HasFields, WorkerFields
    <2>5. Knows(d, worker', Call)
      <3>1. Begun(d, worker')
        BY <1>2, <2>4 DEF Knows, Begun
      <3>2. worker'.size <= Size(d.log[f])
        BY <1>2, <1>3, <2>4 DEF l
      <3> QED BY <1>3, <2>2, <2>4, <3>1, <3>2 DEF Knows
    <2> QED BY <1>0, <1>2, <2>1, <2>4, <2>5, WorkKeeps DEF d
  <1>10. CASE ~w.failed /\ last
    <2>1. /\ worker' = Answered(w.texts, w.bounded)
          /\ responses' = responses \/ responses' = Trimmed(Append(responses, entry))
      BY <1>1, <1>10
    <2>2. w.bounded /\ Len(w.texts) < limit => Size(l) > MaxTail
      <3>1. Len(w.texts) \in Nat
        BY <1>7
      <3> QED BY <1>5, <1>7, <1>10, <3>1
    <2>3. LatestAnswers(Upto(l, Size(l)).records, limit, w.texts, ~w.bounded)
      BY <1>4, <1>7
    <2>4. ASSUME NEW n \in Nat, n <= Size(l) PROVE Latest(l, n, limit, w.texts, w.bounded)
      <3>1. Size(l) \in n .. Size(l)
        BY <1>4, <2>4
      <3> QED BY <1>7, <2>2, <2>3, <3>1 DEF Latest
    <2>5. entry \in KeptAnswers(d)
      <3> DEFINE Entries == [path : ToSet(Files), size : Nat, limit : Nat, texts : Seq(Nat), bounded : BOOLEAN]
      <3>1. entry \in Entries
        BY <1>3, <1>5, <1>7
      <3>2. entry.size <= Size(d.log[entry.path]) /\ d.log[entry.path] = l
        BY <1>2, <1>3 DEF l
      <3>3. Latest(l, entry.size, entry.limit, entry.texts, entry.bounded)
        BY <1>3, <2>4
      <3> QED BY <3>1, <3>2, <3>3 DEF KeptAnswers
    <2> HIDE DEF entry
    <2>6. Append(responses, entry) \in Seq(KeptAnswers(d))
      BY <1>2, <2>5
    <2>7. responses' \in Seq(KeptAnswers(d))
      BY <1>2, <2>1, <2>6, TrimmedKeeps
    <2>8. /\ worker'.step = "done" /\ worker'.id = worker.id /\ worker'.path = f
          /\ worker'.texts = w.texts /\ worker'.bounded = w.bounded
          /\ worker'.at = worker.at /\ worker'.sizes = worker.sizes
      BY <1>5, <2>1 DEF HasFields, WorkerFields, Answered
    <2>9. Knows(d, worker', Call)
      <3>1. Begun(d, worker')
        BY <1>2, <2>8 DEF Knows, Begun
      <3>2. Latest(d.log[f], worker'.sizes[f], Call.limit, worker'.texts, worker'.bounded)
        BY <1>2, <1>6, <2>4, <2>8 DEF l, limit
      <3> QED BY <1>3, <2>8, <3>1, <3>2 DEF Knows
    <2> QED BY <1>0, <1>2, <2>7, <2>8, <2>9, WorkKeeps DEF d
  <1> QED BY <1>8, <1>9, <1>10

(* A request is taken up. *)
LEMMA StartingKeeps ==
    ASSUME HistoryInv, StartPending
    PROVE  HistoryInv'
  <1>1. UNCHANGED <<log, rows, moved, now, locations, responses>> /\ \E id : Start(id)
    BY DEF StartPending, recentVars, diskVars, cacheVars
  <1>2. Rows' /\ Scene' = Scene /\ IsScene(Scene')
    BY <1>1, SceneStays DEF HistoryInv
  <1>3. /\ worker'.step = "start" /\ worker'.ok = FALSE /\ worker'.at = now
        /\ worker'.sizes = [f \in ToSet(Files) |-> Size(log[f])]
    <2>1. PICK id : Start(id)
      BY <1>1
    <2> QED BY <2>1 DEF Start, Rested
  <1> DEFINE d == Scene
  <1>4. IsScene(d) /\ d.log = log /\ d.now = now
    BY SceneFields DEF HistoryInv
  <1> HIDE DEF d
  <1>5. now \in Int /\ \A f \in ToSet(Files) : IsLogOf(log[f])
    BY <1>4 DEF IsScene
  <1>6. Begun(d, worker')
    <2>1. \A f \in ToSet(Files) : Size(log[f]) \in Nat
      BY <1>5, LogSize
    <2>2. \A f \in ToSet(Files) : worker'.sizes[f] \in Nat /\ worker'.sizes[f] <= Size(d.log[f])
      BY <1>3, <1>4, <2>1
    <2>3. worker'.at \in Int /\ worker'.at <= d.now
      BY <1>3, <1>4, <1>5
    <2> QED BY <2>2, <2>3 DEF Begun
  <1>7. Knows(d, worker', Call')
    BY <1>3, <1>6 DEF Knows
  <1> QED BY <1>1, <1>2, <1>7 DEF HistoryInv, d

LEMMA SendingKeeps ==
    ASSUME HistoryInv, SendReadResult
    PROVE  HistoryInv'
  <1>1. UNCHANGED <<log, rows, moved, now, locations, responses>> /\ worker' = Rested
    BY DEF SendReadResult, recentVars, diskVars, cacheVars
  <1>2. Rows' /\ Scene' = Scene /\ IsScene(Scene')
    BY <1>1, SceneStays DEF HistoryInv
  <1>3. ~Busy'
    BY <1>1 DEF Busy, Rested
  <1> QED BY <1>1, <1>2, <1>3 DEF HistoryInv

LEMMA LookingKeeps ==
    ASSUME HistoryInv, QueueInv, ReadRequest \/ LocationGone
    PROVE  HistoryInv'
  <1>1. worker.step = "start" /\ Busy /\ UNCHANGED <<log, rows, moved, now, calls, locations, responses>>
    BY DEF ReadRequest, LocationGone, Busy, recentVars, diskVars, queueVars, cacheVars
  <1>2. ~worker.ok
    BY <1>1 DEF HistoryInv, Knows
  <1>3. \/ worker' = [worker EXCEPT !.step = "recents"] /\ Call.session = Nothing
        \/ worker' = Failed
        \/ worker' = [worker EXCEPT !.step = "query"] /\ Call.session # Nothing
        \/ /\ KnownLocations # {} /\ Call.session # Nothing
           /\ worker' = [worker EXCEPT !.step = "stat",
                           !.path = locations[CHOOSE i \in KnownLocations : TRUE].path]
    BY Zenon DEF ReadRequest, LocationGone
  <1>4. CASE \/ worker' = [worker EXCEPT !.step = "recents"] /\ Call.session = Nothing
             \/ worker' = [worker EXCEPT !.step = "query"] /\ Call.session # Nothing
    BY <1>1, <1>2, <1>4, SteppingKeeps
  <1>5. CASE worker' = Failed
    <2>1. responses' \in Seq(KeptAnswers(Scene))
      BY <1>1 DEF HistoryInv
    <2> QED BY <1>1, <1>2, <1>5, <2>1, FailingKeeps
  <1>6. CASE /\ KnownLocations # {} /\ Call.session # Nothing
             /\ worker' = [worker EXCEPT !.step = "stat",
                             !.path = locations[CHOOSE i \in KnownLocations : TRUE].path]
    <2> DEFINE i == CHOOSE x \in KnownLocations : TRUE
    <2>1. i \in KnownLocations
      BY <1>6
    <2> HIDE DEF i
    <2>2. Located(Scene, locations[i].path, Call.session, worker.at)
      BY <1>1, <1>6, <2>1, KnownIsLocated
    <2>3. worker' = [worker EXCEPT !.step = "stat", !.path = locations[i].path]
      BY <1>6 DEF i
    <2>4. locations' \in Seq(KnownPlaces(Scene))
      BY <1>1 DEF HistoryInv
    <2> QED BY <1>1, <1>2, <1>6, <2>2, <2>3, <2>4, StatKeeps
  <1> QED BY <1>3, <1>4, <1>5, <1>6

LEMMA DatabaseKeeps ==
    ASSUME HistoryInv, QueueInv, QueryDatabase \/ LockedDatabase \/ ReadSnapshot
    PROVE  HistoryInv'
  <1>1. /\ worker.step \in {"query", "snapshot"} /\ Busy
        /\ UNCHANGED <<log, rows, moved, now, calls, responses>>
    BY DEF QueryDatabase, LockedDatabase, ReadSnapshot, Busy, recentVars, diskVars, queueVars
  <1>2. ~worker.ok /\ Call.session # Nothing
    BY <1>1 DEF HistoryInv, Knows
  <1>3. CASE QueryDatabase
    <2>1. Opened = Database
      BY DEF Opened, Reusable
    <2>2. Found(Row(Call.session), TRUE)
      BY <1>3, <2>1 DEF QueryDatabase, Row
    <2> QED BY <1>1, <2>2, FoundKeeps
  <1>4. CASE ReadSnapshot
    <2>1. Found(Row(Call.session), FALSE)
      BY <1>4 DEF ReadSnapshot
    <2> QED BY <1>1, <2>1, FoundKeeps
  <1>5. CASE LockedDatabase
    <2>1. worker' = [worker EXCEPT !.step = "snapshot"] /\ UNCHANGED locations
      BY <1>5 DEF LockedDatabase
    <2> QED BY <1>1, <1>2, <2>1, SteppingKeeps
  <1> QED BY <1>3, <1>4, <1>5

LEMMA FailsKeeps ==
    ASSUME HistoryInv, QueueInv, ReadFails
    PROVE  HistoryInv'
  <1>1. /\ worker.step \in {"query", "snapshot", "stat", "window"} /\ Busy /\ worker' = Failed
        /\ UNCHANGED <<log, rows, moved, now, calls, locations, responses>>
    BY DEF ReadFails, Busy, recentVars, diskVars, queueVars
  <1>2. ~worker.ok /\ responses' \in Seq(KeptAnswers(Scene))
    BY <1>1 DEF HistoryInv, Knows
  <1> QED BY <1>1, <1>2, FailingKeeps

LEMMA RecentsReadKeeps ==
    ASSUME HistoryInv, QueueInv, RecentsRead
    PROVE  HistoryInv'
  <1>1. /\ worker.step = "recents" /\ Busy
        /\ worker' = [worker EXCEPT !.step = "done", !.ok = load["board"].st = "loaded"]
        /\ UNCHANGED <<log, rows, moved, now, calls, locations, responses>>
    BY DEF RecentsRead, Busy, diskVars, queueVars, cacheVars
  <1>2. HasFields(worker, WorkerFields)
    BY DEF QueueInv, QueueTypes
  <1>3. /\ worker'.step = "done" /\ worker'.id = worker.id
        /\ worker'.at = worker.at /\ worker'.sizes = worker.sizes
    BY <1>1, <1>2 DEF HasFields, WorkerFields
  <1>4. Knows(Scene, worker', Call)
    <2>1. Knows(Scene, worker, Call)
      BY <1>1 DEF HistoryInv
    <2>2. Begun(Scene, worker') /\ Call.session = Nothing
      BY <1>1, <1>3, <2>1 DEF Knows, Begun
    <2> QED BY <1>3, <2>2 DEF Knows
  <1> QED BY <1>1, <1>3, <1>4, WorkKeeps DEF HistoryInv

LEMMA HistoryNext == HistoryInv /\ QueueInv /\ [Next]_vars => HistoryInv'
  <1> SUFFICES ASSUME HistoryInv, QueueInv, [Next]_vars PROVE HistoryInv'
    OBVIOUS
  <1>1. CASE SendReadResult
    BY <1>1, SendingKeeps
  <1>2. CASE StartPending
    BY <1>2, StartingKeeps
  <1>3. CASE ReadRequest \/ LocationGone
    BY <1>3, LookingKeeps
  <1>4. CASE QueryDatabase \/ LockedDatabase \/ ReadSnapshot
    BY <1>4, DatabaseKeeps
  <1>5. CASE ReadResponsePayload \/ ReadWindow
    <2>1. Busy
      BY <1>5 DEF ReadResponsePayload, ReadWindow, Busy
    <2> QED BY <1>5, <2>1, PayloadKeeps, WindowKeeps
  <1>6. CASE ReadFails \/ RecentsRead
    BY <1>6, FailsKeeps, RecentsReadKeeps
  <1>7. CASE /\ ~SendReadResult
             /\ World \/ Receive \/ TabsRead \/ UNCHANGED vars
                \/ \E a \in Actors : LoadGoesOn(a) \/ LoadFails(a)
    <2>1. CASE World
      BY <1>7, <2>1, OthersKeep, Zenon DEF World, Ask, TabsAsk, AppendPart, AppendRecord, Write, Touch,
         CommitRow, ReplaceDatabase, Move, Tick, cacheVars
    <2>2. CASE Receive \/ TabsRead \/ UNCHANGED vars
      BY <1>7, <2>2, OthersKeep, Zenon DEF Receive, TabsRead, vars, readVars, cacheVars
    <2>3. ASSUME NEW a \in Actors, LoadGoesOn(a) \/ LoadFails(a)
          PROVE  UNCHANGED <<worker, locations, responses>>
      BY <2>3 DEF LoadGoesOn, LoadBegins, LoadTracks, LoadReads, LoadReadsHeader, LoadEnds, LoadFails,
                  readVars
    <2> QED BY <1>7, <2>1, <2>2, <2>3, OthersKeep
  <1> QED BY <1>1, <1>2, <1>3, <1>4, <1>5, <1>6, <1>7, Zenon DEF Next, Listen, Work, Trouble

LEMMA HistoryInit == Init => HistoryInv
  <1> SUFFICES ASSUME Init PROVE HistoryInv
    OBVIOUS
  <1>1. /\ now = 0 /\ rows = <<[s \in Sessions |-> Files[1]]>> /\ moved = [s \in Sessions |-> -LocationTime]
        /\ worker = Rested /\ locations = <<>> /\ responses = <<>>
    BY DEF Init, RecentInit
  <1>2. PICK s \in Scenarios :
          log \in {[f \in ToSet(Files) |-> IF f = Files[1] THEN l ELSE s.rest] : l \in s.logs}
    BY DEF Init
  <1>3. /\ s.logs \cup {s.rest} \subseteq [records : Seq(Records), partial : BOOLEAN]
        /\ \A l \in s.logs \cup {s.rest} : Written(l.records)
    BY ReadsAssumption
  <1>4. \A l \in s.logs \cup {s.rest} : IsLogOf(l)
    <2> SUFFICES ASSUME NEW l \in s.logs \cup {s.rest} PROVE IsLogOf(l)
      OBVIOUS
    <2>1. l \in [records : Seq(Records), partial : BOOLEAN] /\ Written(l.records)
      BY <1>3
    <2> QED BY <2>1 DEF IsLogOf, IsWritten
  <1>5. DOMAIN log = ToSet(Files) /\ \A f \in ToSet(Files) : IsLogOf(log[f])
    BY <1>2, <1>4
  <1>6. Files[1] \in ToSet(Files)
    <2>1. Files # <<>> /\ Files \in Seq(STRING)
      BY ReadsAssumption, FileTypes
    <2>2. 1 \in DOMAIN Files
      BY <2>1
    <2> QED BY <2>2 DEF ToSet
  <1> DEFINE row == [x \in Sessions |-> Files[1]]
  <1>7. row \in [Sessions -> ToSet(Files)]
    BY <1>6
  <1> HIDE DEF row
  <1>8. rows = <<row>> /\ Database = 1 /\ rows[1] = row
    BY <1>1 DEF Database, row
  <1>9. Rows
    BY <1>7, <1>8 DEF Rows
  <1> DEFINE d == Scene
  <1>10. d.log = log /\ d.moved = moved /\ d.now = 0 /\ d.row = [x \in Sessions |-> row[x]]
    BY <1>1, <1>8 DEF Scene, Row
  <1> HIDE DEF d
  <1>11. LocationTime \in Nat
    BY ReadsAssumption
  <1>12. IsScene(d)
    <2>1. d.row \in [Sessions -> ToSet(Files)]
      BY <1>7, <1>10
    <2>2. d.moved \in [Sessions -> Int] /\ \A x \in Sessions : d.moved[x] <= 0
      BY <1>1, <1>10, <1>11
    <2> QED BY <1>5, <1>10, <2>1, <2>2 DEF IsScene
  <1>13. ~Busy
    BY <1>1 DEF Busy, Rested
  <1> QED BY <1>1, <1>9, <1>12, <1>13 DEF HistoryInv, d

LEMMA HistoryHolds == HistoryInv /\ QueueInv => HistoryIsCurrent
  <1> SUFFICES ASSUME HistoryInv, QueueInv, worker.step = "done", worker.ok, Call.session # Nothing
               PROVE  LET f == worker.path IN
                      /\ f = Row(Call.session) \/ worker.at - moved[Call.session] < LocationTime
                      /\ Len(worker.texts) <= Call.limit
                      /\ \E n \in worker.sizes[f] .. Size(log[f]) :
                           LatestAnswers(Upto(log[f], n).records, Call.limit, worker.texts, ~worker.bounded)
                      /\ Len(worker.texts) < Call.limit /\ Size(log[f]) <= MaxTail => ~worker.bounded
    BY Zenon DEF HistoryIsCurrent
  <1> DEFINE f == worker.path
             d == Scene
             s == Call.session
  <1>1. Busy
    BY DEF Busy
  <1>2. s \in Sessions /\ d.row[s] = Row(s) /\ d.moved = moved /\ d.log = log /\ IsScene(d)
    BY <1>1, CallIs, SceneFields DEF HistoryInv
  <1>3. Located(d, f, s, worker.at) /\ Latest(d.log[f], worker.sizes[f], Call.limit, worker.texts, worker.bounded)
    BY <1>1 DEF HistoryInv, Knows
  <1>4. f \in ToSet(Files) /\ (f = Row(s) \/ worker.at - moved[s] < LocationTime)
    BY <1>2, <1>3 DEF Located
  <1>5. Size(log[f]) \in Nat /\ MaxTail \in Nat
    BY <1>2, <1>4, LogSize, ReadsAssumption DEF IsScene
  <1>6. /\ Len(worker.texts) <= Call.limit
        /\ \E n \in worker.sizes[f] .. Size(log[f]) :
             LatestAnswers(Upto(log[f], n).records, Call.limit, worker.texts, ~worker.bounded)
        /\ worker.bounded /\ Len(worker.texts) < Call.limit => Size(log[f]) > MaxTail
    BY <1>2, <1>3 DEF Latest
  <1>7. Len(worker.texts) < Call.limit /\ Size(log[f]) <= MaxTail => ~worker.bounded
    BY <1>5, <1>6
  <1> QED BY <1>4, <1>6, <1>7

(* A history that is served holds the latest answers of the session's log, *)
(* whatever Codex appends or moves meanwhile, whichever caches serve it    *)
(* and however small the windows, the caches and the limits are: read_request, *)
(* read_response_payload, read_responses and read_response_window.         *)
THEOREM HistoriesAreCurrent == Spec => []HistoryIsCurrent
  <1>1. Init => QueueInv /\ HistoryInv
    BY QueueInit, HistoryInit
  <1>2. (QueueInv /\ HistoryInv) /\ [Next]_vars => (QueueInv /\ HistoryInv)'
    BY QueueNext, HistoryNext
  <1>3. QueueInv /\ HistoryInv => HistoryIsCurrent
    BY HistoryHolds
  <1> QED BY <1>1, <1>2, <1>3, PTL DEF Spec
=============================================================================
