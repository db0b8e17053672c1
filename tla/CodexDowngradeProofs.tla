------------------------ MODULE CodexDowngradeProofs ------------------------
(***************************************************************************)
(* Proofs about CodexDowngrade, for any slots, account keys, workspaces    *)
(* and bounds, and both instances of the controller: its types hold, an    *)
(* arming is sent at most once (SentOnce), and the reset trigger fires     *)
(* only on a quota reset of the active account (FiresOnlyOnReset).         *)
(***************************************************************************)
EXTENDS CodexDowngrade, SequenceTheorems, TLAPS


Bases == [Slots -> Readings \cup {None}]
Entries == [who : Writers, snap : Policies]

(* A queue with one more entry. *)
LEMMA Appended ==
    ASSUME NEW S, NEW q \in Seq(S), NEW e \in S
    PROVE  /\ Append(q, e) \in Seq(S) /\ Len(q) \in Nat /\ Len(Append(q, e)) = Len(q) + 1
           /\ DOMAIN q = 1..Len(q) /\ DOMAIN Append(q, e) = 1..(Len(q) + 1)
           /\ \A i \in 1..Len(q) : Append(q, e)[i] = q[i] /\ q[i] \in S
           /\ Append(q, e)[Len(q) + 1] = e
  OBVIOUS

(* A queue without its first entry. *)
LEMMA Taken ==
    ASSUME NEW S, NEW q \in Seq(S), q # <<>>
    PROVE  /\ Len(q) \in Nat \ {0} /\ Head(q) = q[1] /\ Head(q) \in S
           /\ DOMAIN q = 1..Len(q) /\ DOMAIN Tail(q) = 1..(Len(q) - 1)
           /\ Tail(q) \in Seq(S) /\ Len(Tail(q)) = Len(q) - 1
           /\ \A i \in 1..(Len(q) - 1) : Tail(q)[i] = q[i + 1]
  BY HeadTailProperties

(* The entries of a queue, by their place. *)
LEMMA Indexed ==
    ASSUME NEW S, NEW q \in Seq(S)
    PROVE  DOMAIN q = 1..Len(q) /\ Len(q) \in Nat /\ \A i \in DOMAIN q : q[i] \in S
  OBVIOUS

(* The empty queue. *)
LEMMA EmptyQueue == <<>> \in Seq(Entries) /\ DOMAIN <<>> = {} /\ Len(<<>>) = 0
  OBVIOUS

(* A controller, field by field. *)
LEMMA ControllerIs ==
    ASSUME NEW x
    PROVE  x \in Controllers <=>
             /\ x = [defaultsOnly |-> x.defaultsOnly, pol |-> x.pol, changing |-> x.changing,
                     workspace |-> x.workspace, timer |-> x.timer, writes |-> x.writes]
             /\ x.defaultsOnly \in DefaultsOnly /\ x.pol \in Policies /\ x.changing \in BOOLEAN
             /\ x.workspace \in Paths \cup {NoPath} /\ x.timer \in BOOLEAN
             /\ x.writes \in Seq(Entries)
  BY DEF Controllers, Entries

(* A policy, field by field. *)
LEMMA PolicyIs ==
    ASSUME NEW p
    PROVE  p \in Policies <=>
             /\ p = [phase |-> p.phase, arm |-> p.arm, trigger |-> p.trigger, due |-> p.due,
                     armedAt |-> p.armedAt, path |-> p.path, base |-> p.base]
             /\ p.phase \in Phases /\ p.arm \in 0..MaxArms /\ p.trigger \in {"reset", "hours"}
             /\ p.due \in 0..MaxTime /\ p.armedAt \in Times /\ p.path \in Paths \cup {NoPath}
             /\ p.base \in Bases
  BY DEF Policies, Bases

(* What the methods do to a controller until their first await: nothing    *)
(* that is saved, or one save of a policy that was armed.                  *)
Moves(x, y) ==
    /\ y \in Controllers
    /\ y.defaultsOnly = x.defaultsOnly /\ y.changing = x.changing
    /\ \/ y.pol = x.pol /\ y.writes = x.writes
       \/ \E who \in {"watch", "claim"} :
            /\ Armed(x) /\ ~x.changing
            /\ y.pol.phase = IF who = "claim" THEN "running" ELSE "armed"
            /\ y.pol.arm = x.pol.arm
            /\ \A s \in Slots : y.pol.base[s] \in {x.pol.base[s], shown[s]}
            /\ y.writes = Append(x.writes, [who |-> who, snap |-> y.pol])

(* _persist queues a copy of the policy and changes nothing else. *)
LEMMA PersistIs ==
    ASSUME NEW x \in Controllers, NEW who \in Writers
    PROVE  /\ Persist(x, who) \in Controllers
           /\ Persist(x, who).defaultsOnly = x.defaultsOnly
           /\ Persist(x, who).changing = x.changing
           /\ Persist(x, who).pol = x.pol
           /\ Persist(x, who).writes = Append(x.writes, [who |-> who, snap |-> x.pol])
  <1>1. /\ x.writes \in Seq(Entries) /\ x.pol \in Policies
        /\ [who |-> who, snap |-> x.pol] \in Entries
    BY ControllerIs DEF Entries
  <1>2. Append(x.writes, [who |-> who, snap |-> x.pol]) \in Seq(Entries)
    BY <1>1, Appended
  <1> DEFINE q == Append(x.writes, [who |-> who, snap |-> x.pol])
  <1>3. Persist(x, who) = [x EXCEPT !.writes = q]
    BY ControllerIs DEF Persist
  <1> HIDE DEF q
  <1>4. Persist(x, who) = [defaultsOnly |-> x.defaultsOnly, pol |-> x.pol, changing |-> x.changing,
                           workspace |-> x.workspace, timer |-> x.timer, writes |-> q]
    BY <1>3, ControllerIs
  <1>5. q \in Seq(Entries)
    BY <1>2 DEF q
  <1>6. Persist(x, who) \in Controllers
    BY <1>4, <1>5, ControllerIs
  <1> QED BY <1>4, <1>6 DEF q

(* _begin: the policy runs, and that is queued as a claim. *)
LEMMA BeginIs ==
    ASSUME NEW x \in Controllers
    PROVE  /\ Begin(x) \in Controllers
           /\ Begin(x).defaultsOnly = x.defaultsOnly /\ Begin(x).changing = x.changing
           /\ Begin(x).pol = [x.pol EXCEPT !.phase = "running"]
           /\ Begin(x).pol \in Policies
           /\ Begin(x).writes = Append(x.writes, [who |-> "claim", snap |-> Begin(x).pol])
  <1> DEFINE p == [x.pol EXCEPT !.phase = "running"]
             y == [x EXCEPT !.pol.phase = "running", !.timer = FALSE]
  <1>1. x.pol \in Policies
    BY ControllerIs
  <1>2. p \in Policies
    BY <1>1, PolicyIs DEF Phases
  <1>3. /\ y.pol = p /\ y.timer = FALSE /\ y.defaultsOnly = x.defaultsOnly
        /\ y.changing = x.changing /\ y.workspace = x.workspace /\ y.writes = x.writes
    BY DEF Controllers
  <1>7. y \in Controllers
    BY <1>1, <1>2 DEF Controllers, Policies, Phases
  <1> HIDE DEF p, y
  <1>4. y \in Controllers /\ y.defaultsOnly = x.defaultsOnly /\ y.changing = x.changing
        /\ y.pol = p /\ y.writes = x.writes
    BY <1>3, <1>7
  <1>5. Begin(x) = Persist(y, "claim")
    BY DEF Begin, y
  <1>6. "claim" \in Writers
    BY DEF Writers
  <1>8. /\ Begin(x) \in Controllers /\ Begin(x).pol = p
        /\ Begin(x).defaultsOnly = x.defaultsOnly /\ Begin(x).changing = x.changing
        /\ Begin(x).writes = Append(x.writes, [who |-> "claim", snap |-> p])
    BY <1>4, <1>5, <1>6, PersistIs
  <1> QED BY <1>2, <1>8 DEF p

(* _begin is a move. *)
LEMMA BeginMoves ==
    ASSUME NEW x \in Controllers, Armed(x), ~x.changing
    PROVE  Moves(x, Begin(x))
  <1>1. x.pol \in Policies
    BY ControllerIs
  <1>2. Begin(x).pol = [x.pol EXCEPT !.phase = "running"]
    BY BeginIs
  <1>3. /\ Begin(x).pol.phase = "running" /\ Begin(x).pol.arm = x.pol.arm
        /\ Begin(x).pol.base = x.pol.base
    BY <1>1, <1>2, PolicyIs
  <1> QED BY <1>3, BeginIs DEF Moves

(* The timer and the workspace are not part of what is saved. *)
LEMMA TimerIs ==
    ASSUME NEW x \in Controllers, NEW p \in Paths \cup {NoPath}, NEW b \in BOOLEAN
    PROVE  /\ [x EXCEPT !.timer = b] \in Controllers
           /\ [x EXCEPT !.timer = b].pol = x.pol /\ [x EXCEPT !.timer = b].writes = x.writes
           /\ [x EXCEPT !.timer = b].defaultsOnly = x.defaultsOnly
           /\ [x EXCEPT !.timer = b].changing = x.changing
           /\ [x EXCEPT !.workspace = p, !.timer = b] \in Controllers
           /\ [x EXCEPT !.workspace = p, !.timer = b].pol = x.pol
           /\ [x EXCEPT !.workspace = p, !.timer = b].writes = x.writes
           /\ [x EXCEPT !.workspace = p, !.timer = b].defaultsOnly = x.defaultsOnly
           /\ [x EXCEPT !.workspace = p, !.timer = b].changing = x.changing
  BY DEF Controllers

(* checkDeadline moves: it begins, sets the timer or does nothing. *)
LEMMA DeadlineMoves ==
    ASSUME NEW x \in Controllers
    PROVE  Moves(x, CheckDeadline(x))
  <1>1. CheckDeadline(x) \in {x, Begin(x), [x EXCEPT !.timer = TRUE]}
    BY DEF CheckDeadline
  <1>2. CheckDeadline(x) = Begin(x) =>
          \/ Armed(x) /\ ~x.changing
          \/ CheckDeadline(x) \in {x, [x EXCEPT !.timer = TRUE]}
    BY DEF CheckDeadline
  <1>3. Moves(x, x)
    BY DEF Moves
  <1>4. Moves(x, [x EXCEPT !.timer = TRUE])
    BY TimerIs DEF Moves
  <1> QED BY <1>1, <1>2, <1>3, <1>4, BeginMoves

(* The same policy in another workspace moves alike. *)
LEMMA MovesFrom ==
    ASSUME NEW x, NEW y, NEW z, Moves(y, z), y.pol = x.pol, y.writes = x.writes,
           y.defaultsOnly = x.defaultsOnly, y.changing = x.changing
    PROVE  Moves(x, z)
  BY DEF Moves, Armed

(* follow moves. *)
LEMMA FollowedMoves ==
    ASSUME NEW x \in Controllers, NEW p \in Paths
    PROVE  Moves(x, Followed(x, p))
  <1> DEFINE y == IF x.workspace = p THEN x ELSE [x EXCEPT !.workspace = p, !.timer = FALSE]
  <1>1. /\ y \in Controllers /\ y.pol = x.pol /\ y.writes = x.writes
        /\ y.defaultsOnly = x.defaultsOnly /\ y.changing = x.changing
    BY TimerIs
  <1>2. Followed(x, p) = CheckDeadline(y)
    BY DEF Followed
  <1> HIDE DEF y
  <1> QED BY <1>1, <1>2, DeadlineMoves, MovesFrom

(* The bases that observe keeps. *)
LEMMA ObservedIs ==
    ASSUME NEW x \in Controllers, NEW p \in Paths, shown \in Bases
    PROVE  /\ Moves(x, Observed(x, p))
           /\ Observed(x, p) # x => Observed(x, p).pol.phase = "running" \/ x.pol.trigger = "reset"
           /\ Observed(x, p).pol.trigger = x.pol.trigger
           /\ Observed(x, p).pol.phase = "running" /\ Armed(x) =>
                \E s \in Slots : IsNews(x, s) /\ ShowsReset(x, s)
  <1> DEFINE news == {s \in Slots : IsNews(x, s)}
             b == [s \in Slots |-> IF s \in news THEN shown[s] ELSE x.pol.base[s]]
             y == [x EXCEPT !.pol.base = b]
  <1>1. x.pol \in Policies /\ x.pol.base \in Bases
    BY ControllerIs, PolicyIs
  <1>2. b \in Bases /\ \A s \in Slots : b[s] \in {x.pol.base[s], shown[s]}
    BY <1>1 DEF Bases
  <1>3. \/ Observed(x, p) = x
        \/ /\ Armed(x) /\ x.pol.trigger = "reset" /\ ~x.changing
           /\ \/ (\E s \in news : ShowsReset(x, s)) /\ Observed(x, p) = Begin(y)
              \/ Observed(x, p) = Persist(y, "watch")
    BY DEF Observed
  <1> HIDE DEF b
  <1> DEFINE q == [x.pol EXCEPT !.base = b]
  <1>4. q \in Policies /\ q.phase = x.pol.phase /\ q.arm = x.pol.arm /\ q.base = b
        /\ q.trigger = x.pol.trigger
    BY <1>1, <1>2, PolicyIs
  <1>5. y = [defaultsOnly |-> x.defaultsOnly, pol |-> q, changing |-> x.changing,
             workspace |-> x.workspace, timer |-> x.timer, writes |-> x.writes]
    BY ControllerIs
  <1> HIDE DEF q, y
  <1>6. y \in Controllers /\ y.defaultsOnly = x.defaultsOnly /\ y.changing = x.changing
        /\ y.pol = q /\ y.writes = x.writes
    BY <1>4, <1>5, ControllerIs
  <1>7. CASE Observed(x, p) = x
    BY <1>7 DEF Moves, Armed
  <1>8. ASSUME Armed(x), x.pol.trigger = "reset", ~x.changing, NEW s \in news, ShowsReset(x, s),
               Observed(x, p) = Begin(y)
        PROVE  /\ Moves(x, Observed(x, p)) /\ Observed(x, p).pol.trigger = x.pol.trigger
    <2>1. Begin(y).pol = [q EXCEPT !.phase = "running"]
      BY <1>6, BeginIs
    <2>2. /\ Begin(y).pol.phase = "running" /\ Begin(y).pol.arm = x.pol.arm
          /\ Begin(y).pol.base = b /\ Begin(y).pol.trigger = x.pol.trigger
      BY <1>4, <2>1, PolicyIs
    <2>3. Begin(y) \in Controllers /\ Begin(y).defaultsOnly = x.defaultsOnly /\ Begin(y).changing = x.changing
          /\ Begin(y).writes = Append(x.writes, [who |-> "claim", snap |-> Begin(y).pol])
      BY <1>6, BeginIs
    <2> QED BY <1>2, <1>8, <2>2, <2>3 DEF Moves
  <1>9. ASSUME Armed(x), x.pol.trigger = "reset", ~x.changing, Observed(x, p) = Persist(y, "watch")
        PROVE  /\ Moves(x, Observed(x, p)) /\ Observed(x, p).pol.trigger = x.pol.trigger
               /\ Observed(x, p).pol.phase = "armed"
    <2>1. "watch" \in Writers
      BY DEF Writers
    <2>2. /\ Persist(y, "watch") \in Controllers /\ Persist(y, "watch").defaultsOnly = x.defaultsOnly
          /\ Persist(y, "watch").changing = x.changing /\ Persist(y, "watch").pol = q
          /\ Persist(y, "watch").writes = Append(x.writes, [who |-> "watch", snap |-> q])
      BY <1>6, <2>1, PersistIs
    <2> QED BY <1>2, <1>4, <1>9, <2>2 DEF Moves, Armed
  <1> QED BY <1>3, <1>7, <1>8, <1>9
-----------------------------------------------------------------------------
Budgets == {"arms", "quota", "changes", "fetches", "failures", "crashes"}

(* A policy of one of the first n armings; none is armed without a number. *)
Num(p, n) == p.arm <= n /\ (p.phase # "off" => p.arm # 0)

(* The second conjunct of TypeOK. *)
Alone(x) ==
    \A i \in DOMAIN x.writes : x.writes[i].who \in {"arm", "disarm"} =>
      x.changing /\ \A j \in DOMAIN x.writes \ {i} : x.writes[j].who \notin {"arm", "disarm"}

(* A controller x after n armings, with what its queue holds. *)
Ctl(x, n) ==
    /\ x \in Controllers /\ Alone(x)
    /\ Num(x.pol, n)
    /\ \A i \in DOMAIN x.writes : Num(x.writes[i].snap, n) /\ x.writes[i].snap.arm # 0
    /\ x.writes # <<>> => x.pol.arm # 0
    /\ x.changing => x.pol.phase # "running"

(* While no failed save came late: at most one request is out, and only    *)
(* while running; what is armed, here or in the queue, is not over; a      *)
(* claim or a disarm is the last save queued, and a claim is of the        *)
(* arming that runs.  o: armings that are over; k: requests not answered.  *)
Once(x, o, k) ==
    /\ k <= 1
    /\ k > 0 => x.pol.phase = "running"
    /\ Armed(x) => x.pol.arm \notin o
    /\ \A i \in DOMAIN x.writes :
         /\ x.writes[i].snap.phase = "armed" => x.writes[i].snap.arm \notin o
         /\ x.writes[i].who = "disarm" =>
              i = Len(x.writes) /\ x.writes[i].snap.phase = "off" /\ x.pol.phase = "off"
         /\ x.writes[i].who = "claim" =>
              /\ i = Len(x.writes) /\ x.writes[i].snap.phase = "running"
              /\ x.writes[i].snap.arm = x.pol.arm
              /\ x.pol.phase = "running" /\ x.pol.arm \notin o /\ k = 0

(* The reading r is in the policy or in a queued save of it. *)
Has(x, r) == \/ \E s \in Slots : r = x.pol.base[s]
             \/ \E i \in DOMAIN x.writes, s \in Slots : r = x.writes[i].snap.base[s]
Seen(r) == \E s \in Slots : r = shown[s]

(* Armings are numbered as they are made. *)
Counted ==
    /\ used \in [Budgets -> Nat] /\ used.arms \in 0..MaxArms
    /\ Ctl(c, used.arms) /\ Num(disk, used.arms)
    /\ calls > 0 => c.pol.arm # 0
    /\ \A a \in over : a <= used.arms

(* Once holds of the state, and a stored armed policy is not over. *)
OneShot ==
    ~late => Once(c, over, calls) /\ (disk.phase = "armed" => disk.arm \notin over)

(* A save is queued behind the others. *)
Adds(x, y, who) ==
    y \in Controllers /\ y.writes = Append(x.writes, [who |-> who, snap |-> y.pol])

(* The places in a queue that has one more save. *)
LEMMA AddsIs ==
    ASSUME NEW x \in Controllers, NEW y, NEW who \in Writers, Adds(x, y, who)
    PROVE  /\ Len(x.writes) \in Nat /\ Len(y.writes) = Len(x.writes) + 1
           /\ DOMAIN x.writes = 1..Len(x.writes) /\ DOMAIN y.writes = 1..(Len(x.writes) + 1)
           /\ \A i \in DOMAIN x.writes : y.writes[i] = x.writes[i]
           /\ y.writes[Len(x.writes) + 1].who = who /\ y.writes[Len(x.writes) + 1].snap = y.pol
           /\ \A i \in DOMAIN y.writes : i \in DOMAIN x.writes \/ i = Len(x.writes) + 1
           /\ Len(x.writes) + 1 \notin DOMAIN x.writes
           /\ y.writes # <<>>
  <1> DEFINE e == [who |-> who, snap |-> y.pol]
  <1>1. e \in Entries /\ x.writes \in Seq(Entries) /\ e.who = who /\ e.snap = y.pol
    BY ControllerIs DEF Adds, Entries
  <1>2. y.writes = Append(x.writes, e)
    BY DEF Adds
  <1> HIDE DEF e
  <1>3. /\ Len(x.writes) \in Nat /\ Len(y.writes) = Len(x.writes) + 1
        /\ DOMAIN x.writes = 1..Len(x.writes) /\ DOMAIN y.writes = 1..(Len(x.writes) + 1)
        /\ \A i \in 1..Len(x.writes) : y.writes[i] = x.writes[i]
        /\ y.writes[Len(x.writes) + 1] = e
    BY <1>1, <1>2, Appended
  <1>4. y.writes # <<>>
    BY <1>3, EmptyQueue
  <1> QED BY <1>1, <1>3, <1>4

(* Adding a save of a numbered policy keeps the controller's invariant. *)
LEMMA AddsCtl ==
    ASSUME NEW n \in Nat, NEW x, NEW y, Ctl(x, n), NEW who \in Writers, Adds(x, y, who),
           Num(y.pol, n), y.pol.arm # 0, y.changing => y.pol.phase # "running",
           x.changing => y.changing,
           who \in {"arm", "disarm"} => ~x.changing /\ y.changing
    PROVE  Ctl(y, n)
  <1>1. x \in Controllers
    BY DEF Ctl
  <1> DEFINE m == Len(x.writes) + 1
  <1>2. Alone(y)
    <2> SUFFICES ASSUME NEW i \in DOMAIN y.writes, y.writes[i].who \in {"arm", "disarm"}
                 PROVE  /\ y.changing
                        /\ \A j \in DOMAIN y.writes \ {i} : y.writes[j].who \notin {"arm", "disarm"}
      BY DEF Alone
    <2>1. CASE i \in DOMAIN x.writes
      <3>1. x.writes[i].who \in {"arm", "disarm"}
        BY <1>1, <2>1, AddsIs
      <3>2. x.changing /\ \A j \in DOMAIN x.writes \ {i} : x.writes[j].who \notin {"arm", "disarm"}
        BY <2>1, <3>1 DEF Ctl, Alone
      <3> QED BY <1>1, <3>2, AddsIs
    <2>2. CASE i = m
      <3>1. who \in {"arm", "disarm"}
        BY <1>1, <2>2, AddsIs
      <3>2. \A j \in DOMAIN x.writes : x.writes[j].who \notin {"arm", "disarm"}
        BY <3>1 DEF Ctl, Alone
      <3> QED BY <1>1, <2>2, <3>1, <3>2, AddsIs
    <2> QED BY <1>1, <2>1, <2>2, AddsIs
  <1>3. \A i \in DOMAIN y.writes : Num(y.writes[i].snap, n) /\ y.writes[i].snap.arm # 0
    BY <1>1, AddsIs DEF Ctl
  <1> QED BY <1>2, <1>3 DEF Ctl, Adds

(* A move keeps the controller's invariant. *)
LEMMA MovesCtl ==
    ASSUME NEW n \in Nat, NEW x, NEW y, Ctl(x, n), Moves(x, y)
    PROVE  Ctl(y, n)
  <1>1. CASE y.pol = x.pol /\ y.writes = x.writes
    BY <1>1 DEF Moves, Ctl, Alone
  <1>2. ASSUME NEW who \in {"watch", "claim"}, Armed(x), ~x.changing, y.pol.arm = x.pol.arm,
               y.writes = Append(x.writes, [who |-> who, snap |-> y.pol])
        PROVE  Ctl(y, n)
    <2>1. who \in Writers /\ who \notin {"arm", "disarm"} /\ Adds(x, y, who)
      BY <1>2 DEF Writers, Adds, Moves
    <2>2. y.pol.arm <= n /\ y.pol.arm # 0
      BY <1>2 DEF Ctl, Num, Armed
    <2>3. ~y.changing
      BY <1>2 DEF Moves
    <2> QED BY <1>2, <2>1, <2>2, <2>3, AddsCtl DEF Num
  <1> QED BY <1>1, <1>2 DEF Moves

(* A move keeps Once: what it claims or watches is armed and not over. *)
LEMMA MovesOnce ==
    ASSUME NEW n \in Nat, NEW x, NEW y, NEW o, NEW k \in Nat, Ctl(x, n), Once(x, o, k), Moves(x, y)
    PROVE  Once(y, o, k)
  <1>1. CASE y.pol = x.pol /\ y.writes = x.writes
    BY <1>1 DEF Once, Armed
  <1>2. ASSUME NEW who \in {"watch", "claim"}, Armed(x),
               y.pol.phase = IF who = "claim" THEN "running" ELSE "armed",
               y.pol.arm = x.pol.arm,
               y.writes = Append(x.writes, [who |-> who, snap |-> y.pol])
        PROVE  Once(y, o, k)
    <2>1. who \in Writers /\ Adds(x, y, who) /\ x \in Controllers
      BY <1>2 DEF Writers, Adds, Moves, Ctl
    <2>2. k = 0 /\ x.pol.arm \notin o /\ x.pol.phase = "armed"
      BY <1>2 DEF Once, Armed
    <2>3. \A i \in DOMAIN x.writes : /\ x.writes[i].who \notin {"disarm", "claim"}
                                     /\ x.writes[i].snap.phase = "armed" => x.writes[i].snap.arm \notin o
      BY <2>2 DEF Once
    <2>4. ASSUME NEW i \in DOMAIN y.writes
          PROVE  /\ y.writes[i].snap.phase = "armed" => y.writes[i].snap.arm \notin o
                 /\ y.writes[i].who # "disarm"
                 /\ y.writes[i].who = "claim" =>
                      /\ i = Len(y.writes) /\ y.writes[i].snap = y.pol /\ who = "claim"
      BY <1>2, <2>1, <2>2, <2>3, AddsIs
    <2> QED BY <1>2, <2>2, <2>4 DEF Once, Armed
  <1> QED BY <1>1, <1>2 DEF Moves

(* A move keeps no readings but its own and those shown. *)
LEMMA MovesHas ==
    ASSUME NEW x \in Controllers, NEW y, Moves(x, y), NEW r, Has(y, r)
    PROVE  Has(x, r) \/ Seen(r)
  <1>1. CASE y.pol = x.pol /\ y.writes = x.writes
    BY <1>1 DEF Has
  <1>2. ASSUME NEW who \in {"watch", "claim"},
               \A s \in Slots : y.pol.base[s] \in {x.pol.base[s], shown[s]},
               y.writes = Append(x.writes, [who |-> who, snap |-> y.pol])
        PROVE  Has(x, r) \/ Seen(r)
    <2>1. who \in Writers /\ Adds(x, y, who)
      BY <1>2 DEF Writers, Adds, Moves
    <2>2. (\E s \in Slots : r = y.pol.base[s]) => Has(x, r) \/ Seen(r)
      BY <1>2 DEF Has, Seen
    <2>3. ASSUME NEW i \in DOMAIN y.writes, NEW s \in Slots, r = y.writes[i].snap.base[s]
          PROVE  Has(x, r) \/ \E t \in Slots : r = y.pol.base[t]
      <3>1. CASE i \in DOMAIN x.writes
        <4>1. y.writes[i] = x.writes[i]
          BY <2>1, <3>1, AddsIs
        <4> QED BY <2>3, <3>1, <4>1 DEF Has
      <3>2. CASE i = Len(x.writes) + 1
        <4>1. y.writes[i].snap = y.pol
          BY <2>1, <3>2, AddsIs
        <4> QED BY <2>3, <4>1
      <3> QED BY <2>1, <2>3, <3>1, <3>2, AddsIs
    <2> QED BY <2>2, <2>3 DEF Has
  <1> QED BY <1>1, <1>2 DEF Moves

(* The oldest save is done. *)
Popped(x, y) ==
    /\ y \in Controllers /\ x.writes # <<>>
    /\ y.writes = Tail(x.writes)
    /\ y.defaultsOnly = x.defaultsOnly
    /\ y.pol.arm = x.pol.arm /\ y.pol.base = x.pol.base /\ y.pol.trigger = x.pol.trigger
    /\ y.pol.phase \in {x.pol.phase, "off", "failed"}
    /\ y.changing = (x.changing /\ x.writes[1].who \notin {"arm", "disarm"})

(* The places in a queue whose oldest save is done. *)
LEMMA PoppedIs ==
    ASSUME NEW x \in Controllers, NEW y, Popped(x, y)
    PROVE  /\ Len(x.writes) \in Nat \ {0} /\ Len(y.writes) = Len(x.writes) - 1
           /\ DOMAIN x.writes = 1..Len(x.writes) /\ DOMAIN y.writes = 1..(Len(x.writes) - 1)
           /\ \A i \in DOMAIN y.writes : /\ i + 1 \in DOMAIN x.writes /\ i + 1 # 1
                                         /\ y.writes[i] = x.writes[i + 1]
           /\ 1 \in DOMAIN x.writes
           /\ Head(x.writes) = x.writes[1] /\ x.writes[1] \in Entries
  <1>1. x.writes \in Seq(Entries) /\ x.writes # <<>> /\ y.writes = Tail(x.writes)
    BY ControllerIs DEF Popped
  <1>2. /\ Len(x.writes) \in Nat \ {0} /\ Len(y.writes) = Len(x.writes) - 1
        /\ DOMAIN x.writes = 1..Len(x.writes) /\ DOMAIN y.writes = 1..(Len(x.writes) - 1)
        /\ \A i \in 1..(Len(x.writes) - 1) : y.writes[i] = x.writes[i + 1]
        /\ Head(x.writes) = x.writes[1] /\ x.writes[1] \in Entries
    BY <1>1, Taken
  <1> QED BY <1>2

(* A save done keeps the controller's invariant. *)
LEMMA PoppedCtl ==
    ASSUME NEW n \in Nat, NEW x, NEW y, Ctl(x, n), Popped(x, y)
    PROVE  Ctl(y, n)
  <1>1. x \in Controllers /\ y \in Controllers /\ x.pol.arm # 0
    BY DEF Ctl, Popped
  <1>2. Alone(y)
    <2> SUFFICES ASSUME NEW i \in DOMAIN y.writes, y.writes[i].who \in {"arm", "disarm"}
                 PROVE  /\ y.changing
                        /\ \A j \in DOMAIN y.writes \ {i} : y.writes[j].who \notin {"arm", "disarm"}
      BY DEF Alone
    <2>1. x.writes[i + 1].who \in {"arm", "disarm"} /\ i + 1 \in DOMAIN x.writes /\ i + 1 # 1
          /\ 1 \in DOMAIN x.writes
      BY <1>1, PoppedIs
    <2>2. x.changing /\ \A j \in DOMAIN x.writes \ {i + 1} : x.writes[j].who \notin {"arm", "disarm"}
      BY <2>1 DEF Ctl, Alone
    <2>3. y.changing
      BY <2>1, <2>2 DEF Popped
    <2>4. ASSUME NEW j \in DOMAIN y.writes \ {i} PROVE y.writes[j].who \notin {"arm", "disarm"}
      <3>1. j + 1 \in DOMAIN x.writes /\ y.writes[j] = x.writes[j + 1] /\ j + 1 # i + 1
        BY <1>1, PoppedIs
      <3> QED BY <2>2, <3>1
    <2> QED BY <2>3, <2>4
  <1>3. \A i \in DOMAIN y.writes : Num(y.writes[i].snap, n) /\ y.writes[i].snap.arm # 0
    BY <1>1, PoppedIs DEF Ctl
  <1>4. Num(y.pol, n) /\ y.pol.arm # 0 /\ (y.changing => y.pol.phase # "running")
    BY <1>1 DEF Ctl, Popped, Num
  <1> QED BY <1>1, <1>2, <1>3, <1>4 DEF Ctl

(* o grows only with the arming whose claim or disarming was saved. *)
LEMMA PoppedOnce ==
    ASSUME NEW n \in Nat, NEW x, NEW y, NEW o, NEW k \in Nat, Ctl(x, n), Once(x, o, k), Popped(x, y),
           \/ y.pol.phase = x.pol.phase
           \/ x.writes[1].who = "arm"
           \/ x.pol.phase = "armed"
           \/ x.writes[1].who = "claim"
    PROVE  Once(y, o, k)
  <1>1. x \in Controllers
    BY DEF Ctl
  <1>2. y.pol.phase # x.pol.phase => k = 0 /\ ~Armed(y) /\ y.pol.phase # "running"
    BY <1>1, PoppedIs DEF Ctl, Once, Armed, Popped, Alone
  <1>3. ASSUME NEW i \in DOMAIN y.writes, x.writes[i + 1].who \in {"disarm", "claim"}
        PROVE  y.pol.phase = x.pol.phase /\ i = Len(y.writes)
    <2>1. /\ i + 1 \in DOMAIN x.writes /\ i + 1 # 1 /\ 1 \in DOMAIN x.writes /\ Len(x.writes) \in Nat
          /\ i \in 1..Len(y.writes) /\ Len(y.writes) = Len(x.writes) - 1
      BY <1>1, PoppedIs
    <2>2. i + 1 = Len(x.writes) /\ x.pol.phase \in {"off", "running"}
      BY <1>3, <2>1 DEF Once
    <2>3. x.writes[1].who # "claim"
      BY <2>1, <2>2 DEF Once
    <2>4. x.writes[1].who = "arm" => x.pol.phase # "running" /\ x.writes[i + 1].who # "disarm"
      BY <2>1 DEF Ctl, Alone
    <2>5. x.writes[i + 1].who = "claim" => x.pol.phase = "running"
      BY <2>1 DEF Once
    <2> QED BY <1>3, <2>1, <2>2, <2>3, <2>4, <2>5
  <1>4. ASSUME NEW i \in DOMAIN y.writes
        PROVE  /\ i + 1 \in DOMAIN x.writes /\ y.writes[i] = x.writes[i + 1]
    BY <1>1, PoppedIs
  <1>5. Armed(y) => y.pol.arm \notin o
    BY <1>2 DEF Once, Armed, Popped
  <1>6. k > 0 => y.pol.phase = "running"
    BY <1>2 DEF Once
  <1>7. ASSUME NEW i \in DOMAIN y.writes
        PROVE  /\ y.writes[i].snap.phase = "armed" => y.writes[i].snap.arm \notin o
               /\ y.writes[i].who = "disarm" =>
                    i = Len(y.writes) /\ y.writes[i].snap.phase = "off" /\ y.pol.phase = "off"
               /\ y.writes[i].who = "claim" =>
                    /\ i = Len(y.writes) /\ y.writes[i].snap.phase = "running"
                    /\ y.writes[i].snap.arm = y.pol.arm
                    /\ y.pol.phase = "running" /\ y.pol.arm \notin o /\ k = 0
    BY <1>3, <1>4 DEF Once, Popped
  <1> QED BY <1>5, <1>6, <1>7 DEF Once

(* A save done brings in no reading. *)
LEMMA PoppedHas ==
    ASSUME NEW x \in Controllers, NEW y, Popped(x, y), NEW r, Has(y, r)
    PROVE  Has(x, r)
  BY PoppedIs DEF Has, Popped
-----------------------------------------------------------------------------
(* The controller of each action. *)

(* The invariant of the controller allows for more armings. *)
LEMMA CtlMore ==
    ASSUME NEW n \in Nat, NEW m \in Nat, n <= m, NEW x, Ctl(x, n)
    PROVE  Ctl(x, m)
  <1>1. \A p \in Policies : Num(p, n) => Num(p, m)
    BY DEF Num, Policies
  <1>2. x.pol \in Policies /\ \A i \in DOMAIN x.writes : x.writes[i].snap \in Policies
    <2>1. x.pol \in Policies /\ x.writes \in Seq(Entries)
      BY ControllerIs DEF Ctl
    <2>2. \A i \in DOMAIN x.writes : x.writes[i] \in Entries
      BY <2>1, Indexed
    <2> QED BY <2>1, <2>2 DEF Entries
  <1> QED BY <1>1, <1>2 DEF Ctl

(* A policy with another phase. *)
LEMMA PolPhase ==
    ASSUME NEW p \in Policies, NEW ph \in Phases
    PROVE  /\ [p EXCEPT !.phase = ph] \in Policies
           /\ [p EXCEPT !.phase = ph].phase = ph /\ [p EXCEPT !.phase = ph].arm = p.arm
           /\ [p EXCEPT !.phase = ph].base = p.base /\ [p EXCEPT !.phase = ph].trigger = p.trigger
  BY DEF Policies

(* A controller with another phase, and one whose arm or disarm is done. *)
Phased(z, ph) == [z EXCEPT !.pol.phase = ph]

(* Phased, field by field. *)
LEMMA PhaseIs ==
    ASSUME NEW z \in Controllers, NEW ph \in Phases
    PROVE  /\ Phased(z, ph) \in Controllers /\ Phased(z, ph).writes = z.writes
           /\ Phased(z, ph).defaultsOnly = z.defaultsOnly
           /\ Phased(z, ph).changing = z.changing
           /\ Phased(z, ph).pol.phase = ph /\ Phased(z, ph).pol.arm = z.pol.arm
           /\ Phased(z, ph).pol.base = z.pol.base
           /\ Phased(z, ph).pol.trigger = z.pol.trigger
  <1>1. z.pol \in Policies
    BY ControllerIs
  <1> DEFINE q == [z.pol EXCEPT !.phase = ph]
             y == Phased(z, ph)
  <1>2. /\ q \in Policies /\ q.phase = ph /\ q.arm = z.pol.arm /\ q.base = z.pol.base
        /\ q.trigger = z.pol.trigger
    BY <1>1, PolPhase
  <1>3. y.pol = q /\ y.writes = z.writes /\ y.defaultsOnly = z.defaultsOnly
        /\ y.changing = z.changing
    BY DEF Controllers, Phased
  <1>4. y \in Controllers
    BY <1>1, <1>2 DEF Controllers, Phased
  <1> HIDE DEF q, y
  <1>5. /\ y \in Controllers /\ y.writes = z.writes /\ y.defaultsOnly = z.defaultsOnly
        /\ y.changing = z.changing
        /\ y.pol.phase = ph /\ y.pol.arm = z.pol.arm /\ y.pol.base = z.pol.base
        /\ y.pol.trigger = z.pol.trigger
    BY <1>2, <1>3, <1>4
  <1> QED BY <1>5 DEF y

Freed(z, ph) == [z EXCEPT !.changing = FALSE, !.pol.phase = ph]

(* Freed, field by field. *)
LEMMA FreedIs ==
    ASSUME NEW z \in Controllers, NEW ph \in Phases
    PROVE  /\ Freed(z, ph) \in Controllers /\ Freed(z, ph).writes = z.writes
           /\ Freed(z, ph).defaultsOnly = z.defaultsOnly
           /\ Freed(z, ph).changing = FALSE
           /\ Freed(z, ph).pol.phase = ph /\ Freed(z, ph).pol.arm = z.pol.arm
           /\ Freed(z, ph).pol.base = z.pol.base
           /\ Freed(z, ph).pol.trigger = z.pol.trigger
  <1>1. z.pol \in Policies
    BY ControllerIs
  <1> DEFINE q == [z.pol EXCEPT !.phase = ph]
             y == Freed(z, ph)
  <1>2. /\ q \in Policies /\ q.phase = ph /\ q.arm = z.pol.arm /\ q.base = z.pol.base
        /\ q.trigger = z.pol.trigger
    BY <1>1, PolPhase
  <1>3. y.pol = q /\ y.writes = z.writes /\ y.defaultsOnly = z.defaultsOnly
        /\ y.changing = FALSE
    BY DEF Controllers, Freed
  <1>4. y \in Controllers
    BY <1>1, <1>2 DEF Controllers, Freed
  <1> HIDE DEF q, y
  <1>5. /\ y \in Controllers /\ y.writes = z.writes /\ y.defaultsOnly = z.defaultsOnly
        /\ y.changing = FALSE
        /\ y.pol.phase = ph /\ y.pol.arm = z.pol.arm /\ y.pol.base = z.pol.base
        /\ y.pol.trigger = z.pol.trigger
    BY <1>2, <1>3, <1>4
  <1> QED BY <1>5 DEF y

(* An arm or disarm that is done, field by field. *)
LEMMA FreeIs ==
    ASSUME NEW z \in Controllers
    PROVE  /\ [z EXCEPT !.changing = FALSE] \in Controllers
           /\ [z EXCEPT !.changing = FALSE].pol = z.pol
           /\ [z EXCEPT !.changing = FALSE].writes = z.writes
           /\ [z EXCEPT !.changing = FALSE].changing = FALSE
           /\ [z EXCEPT !.changing = FALSE].defaultsOnly = z.defaultsOnly
  BY DEF Controllers

(* The controller without its oldest save. *)
LEMMA TailIs ==
    ASSUME NEW x \in Controllers, x.writes # <<>>
    PROVE  /\ [x EXCEPT !.writes = Tail(@)] \in Controllers
           /\ [x EXCEPT !.writes = Tail(@)].writes = Tail(x.writes)
           /\ [x EXCEPT !.writes = Tail(@)].pol = x.pol
           /\ [x EXCEPT !.writes = Tail(@)].changing = x.changing
           /\ [x EXCEPT !.writes = Tail(@)].defaultsOnly = x.defaultsOnly
           /\ Head(x.writes) = x.writes[1] /\ x.writes[1] \in Entries
  <1>1. x.writes \in Seq(Entries)
    BY ControllerIs
  <1>2. Tail(x.writes) \in Seq(Entries) /\ Head(x.writes) = x.writes[1] /\ x.writes[1] \in Entries
    BY <1>1, Taken
  <1> QED BY <1>2 DEF Controllers, Entries

(* arm queues an armed policy with a new number and the readings shown. *)
LEMMA ArmIs ==
    ASSUME c \in Controllers, NEW n \in Nat, n < MaxArms, used.arms = n, now \in Times, shown \in Bases,
           NEW p \in Paths, NEW trigger \in Triggers, Arm(p, trigger)
    PROVE  /\ Adds(c, c', "arm") /\ c'.changing /\ ~c.changing /\ c.pol.phase # "running"
           /\ c'.defaultsOnly = c.defaultsOnly
           /\ c'.pol.phase = "armed" /\ c'.pol.arm = n + 1 /\ c'.pol.base = shown
  <1> DEFINE q == [phase |-> "armed", arm |-> n + 1, trigger |-> trigger, path |-> p, armedAt |-> now,
                   due |-> IF trigger = "hours" THEN now + 1 ELSE 0, base |-> shown]
             y == [c EXCEPT !.changing = TRUE, !.timer = FALSE, !.workspace = p, !.pol = q]
  <1>1. q \in Policies /\ q.phase = "armed" /\ q.arm = n + 1 /\ q.base = shown
    BY DowngradeAssumption DEF Policies, Bases, Phases, Times, Arm
  <1>2. c' = Persist(y, "arm")
    BY DEF Arm
  <1> HIDE DEF q
  <1>3. /\ y \in Controllers /\ y.pol = q /\ y.changing = TRUE /\ y.writes = c.writes
        /\ y.defaultsOnly = c.defaultsOnly
    BY <1>1 DEF Controllers
  <1>4. "arm" \in Writers
    BY DEF Writers
  <1> HIDE DEF y
  <1>5. /\ c' \in Controllers /\ c'.pol = q /\ c'.changing /\ c'.defaultsOnly = c.defaultsOnly
        /\ c'.writes = Append(c.writes, [who |-> "arm", snap |-> q])
    BY <1>2, <1>3, <1>4, PersistIs
  <1>6. ~c.changing /\ c.pol.phase # "running"
    BY DEF Arm, Busy
  <1> QED BY <1>1, <1>5, <1>6 DEF Adds

(* disarm queues the policy, off. *)
LEMMA DisarmIs ==
    ASSUME c \in Controllers, Disarm
    PROVE  /\ Adds(c, c', "disarm") /\ c'.changing /\ ~c.changing /\ c.pol.phase = "armed"
           /\ c'.defaultsOnly = c.defaultsOnly
           /\ c'.pol.phase = "off" /\ c'.pol.arm = c.pol.arm /\ c'.pol.base = c.pol.base
  <1> DEFINE q == [c.pol EXCEPT !.phase = "off"]
             y == [c EXCEPT !.changing = TRUE, !.timer = FALSE, !.pol.phase = "off"]
  <1>1. c.pol \in Policies /\ "off" \in Phases /\ "disarm" \in Writers
    BY ControllerIs DEF Phases, Writers
  <1>2. q \in Policies /\ q.phase = "off" /\ q.arm = c.pol.arm /\ q.base = c.pol.base
    BY <1>1, PolPhase
  <1>3. c' = Persist(y, "disarm")
    BY DEF Disarm
  <1>4. /\ y \in Controllers /\ y.pol = q /\ y.changing = TRUE /\ y.writes = c.writes
        /\ y.defaultsOnly = c.defaultsOnly
    BY <1>1, <1>2 DEF Controllers
  <1> HIDE DEF q, y
  <1>5. /\ c' \in Controllers /\ c'.pol = q /\ c'.changing /\ c'.defaultsOnly = c.defaultsOnly
        /\ c'.writes = Append(c.writes, [who |-> "disarm", snap |-> q])
    BY <1>1, <1>3, <1>4, PersistIs
  <1>6. ~c.changing /\ c.pol.phase = "armed"
    BY DEF Disarm, Busy, Armed
  <1> QED BY <1>2, <1>5, <1>6 DEF Adds

(* follow without an armed deadline leaves the policy alone. *)
LEMMA FollowedSame ==
    ASSUME NEW x \in Controllers, NEW p \in Paths, ~(Armed(x) /\ x.pol.trigger = "hours")
    PROVE  /\ Followed(x, p) \in Controllers /\ Followed(x, p).pol = x.pol
           /\ Followed(x, p).writes = x.writes /\ Followed(x, p).changing = x.changing
           /\ Followed(x, p).defaultsOnly = x.defaultsOnly
  <1> DEFINE y == IF x.workspace = p THEN x ELSE [x EXCEPT !.workspace = p, !.timer = FALSE]
  <1>1. /\ y \in Controllers /\ y.pol = x.pol /\ y.writes = x.writes
        /\ y.defaultsOnly = x.defaultsOnly /\ y.changing = x.changing
    BY TimerIs
  <1>2. Followed(x, p) = CheckDeadline(y)
    BY DEF Followed
  <1> HIDE DEF y
  <1>3. CheckDeadline(y) = y
    BY <1>1 DEF CheckDeadline, Armed
  <1> QED BY <1>1, <1>2, <1>3

(* The handlers of events and of the timer move. *)
LEMMA HandlerMoves ==
    ASSUME c \in Controllers, shown \in Bases,
           (\E p \in Paths : OnUiState(p) \/ Follow(p)) \/ TimerFires
    PROVE  Moves(c, c')
  <1>1. ASSUME NEW p \in Paths, OnUiState(p) PROVE Moves(c, c')
    <2> DEFINE y == Observed(c, p)
    <2>1. c' = Followed(y, p)
      BY <1>1 DEF OnUiState
    <2>2. /\ Moves(c, y) /\ y.pol.trigger = c.pol.trigger
          /\ y # c => y.pol.phase = "running" \/ c.pol.trigger = "reset"
      BY ObservedIs
    <2> HIDE DEF y
    <2>3. CASE y = c
      BY <2>1, <2>3, FollowedMoves
    <2>4. CASE y # c
      <3>1. y \in Controllers /\ ~(Armed(y) /\ y.pol.trigger = "hours")
        BY <2>2, <2>4 DEF Armed, Moves
      <3> QED BY <2>1, <2>2, <3>1, FollowedSame DEF Moves
    <2> QED BY <2>3, <2>4
  <1>2. ASSUME NEW p \in Paths, Follow(p) PROVE Moves(c, c')
    BY <1>2, FollowedMoves DEF Follow
  <1>3. CASE TimerFires
    <2> DEFINE y == [c EXCEPT !.timer = FALSE]
    <2>1. c' = CheckDeadline(y)
      BY <1>3 DEF TimerFires
    <2>2. /\ y \in Controllers /\ y.pol = c.pol /\ y.writes = c.writes
          /\ y.defaultsOnly = c.defaultsOnly /\ y.changing = c.changing
      BY DEF Controllers
    <2> HIDE DEF y
    <2> QED BY <2>1, <2>2, DeadlineMoves, MovesFrom
  <1> QED BY <1>1, <1>2, <1>3

(* With the reset trigger a checked deadline begins nothing. *)
Waits(y, z) == Moves(y, z) /\ (y.pol.trigger = "reset" => z = y)

(* A save ends: what its caller does before the next await. *)
LEMMA DoneIs ==
    ASSUME c \in Controllers, NEW ok \in BOOLEAN, WriteDone(ok)
    PROVE  /\ c.writes # <<>> /\ c.writes[1] \in Entries
           /\ disk' = IF ok THEN c.writes[1].snap ELSE disk
           /\ IF c.writes[1].who = "claim" /\ ok
                THEN /\ calls' = calls + 1 /\ over' = over \cup {c.pol.arm}
                     /\ sent' = [sent EXCEPT ![c.pol.arm] = @ + 1]
                ELSE /\ UNCHANGED <<calls, sent>>
                     /\ over' = IF c.writes[1].who = "disarm" /\ ok
                                  THEN over \cup {c.writes[1].snap.arm} ELSE over
           /\ late' = (late \/ (/\ c.writes[1].who = "watch" /\ ~ok
                               /\ <<c.pol.phase, c.pol.arm>> # <<"armed", c.writes[1].snap.arm>>))
           /\ UNCHANGED <<now, envVars>> /\ (used' = used \/ Spend("failures", MaxFailures))
           /\ \E y : /\ Popped(c, y)
                     /\ \/ y.pol.phase = c.pol.phase /\ (c' = y \/ (c.writes[1].who = "arm" /\ Waits(y, c')))
                        \/ c.writes[1].who = "arm" /\ y.pol.phase = "off" /\ Waits(y, c')
                        \/ c.writes[1].who = "watch" /\ ~ok /\ y.pol.phase = "failed" /\ c' = y
                        \/ /\ c.writes[1].who = "claim" /\ ~ok /\ y.pol.phase = "failed"
                           /\ Adds(y, c', "final") /\ c'.pol = y.pol /\ c'.changing = y.changing
                           /\ c'.defaultsOnly = y.defaultsOnly
  <1> DEFINE w == c.writes[1]
             x == [c EXCEPT !.writes = Tail(@)]
  <1>1. c.writes # <<>> /\ Head(c.writes) = w /\ w \in Entries
    BY TailIs DEF WriteDone
  <1>2. /\ x \in Controllers /\ x.writes = Tail(c.writes) /\ x.pol = c.pol
        /\ x.changing = c.changing /\ x.defaultsOnly = c.defaultsOnly
    BY <1>1, TailIs
  <1>3. c.pol \in Policies /\ w.who \in Writers /\ c.pol.phase \in Phases /\ c.changing \in BOOLEAN
    BY <1>1, ControllerIs, PolicyIs DEF Entries
  <1>4. c' = CASE w.who = "arm" ->
                    CheckDeadline([x EXCEPT !.changing = FALSE, !.pol.phase = IF ok THEN @ ELSE "off"])
               [] w.who = "disarm" -> [x EXCEPT !.changing = FALSE]
               [] w.who = "watch" /\ ~ok -> WatchFailed(x)
               [] w.who = "claim" /\ ~ok -> Persist([x EXCEPT !.pol.phase = "failed"], "final")
               [] OTHER -> x
    BY <1>1 DEF WriteDone
  <1>5. /\ disk' = IF ok THEN w.snap ELSE disk
        /\ IF w.who = "claim" /\ ok
             THEN Send(x)
             ELSE /\ over' = IF w.who = "disarm" /\ ok THEN over \cup {w.snap.arm} ELSE over
                  /\ UNCHANGED <<calls, sent>>
        /\ late' = (late \/ (/\ w.who = "watch" /\ ~ok
                            /\ <<x.pol.phase, x.pol.arm>> # <<"armed", w.snap.arm>>))
    BY <1>1 DEF WriteDone
  <1>6. used' = used \/ Spend("failures", MaxFailures)
    BY DEF WriteDone
  <1> HIDE DEF w, x
  <1>7. \E y : /\ Popped(c, y)
               /\ \/ y.pol.phase = c.pol.phase /\ (c' = y \/ (w.who = "arm" /\ Waits(y, c')))
                  \/ w.who = "arm" /\ y.pol.phase = "off" /\ Waits(y, c')
                  \/ w.who = "watch" /\ ~ok /\ y.pol.phase = "failed" /\ c' = y
                  \/ /\ w.who = "claim" /\ ~ok /\ y.pol.phase = "failed"
                     /\ Adds(y, c', "final") /\ c'.pol = y.pol /\ c'.changing = y.changing
                     /\ c'.defaultsOnly = y.defaultsOnly
    <2>0. "off" \in Phases /\ "failed" \in Phases /\ "final" \in Writers
      BY DEF Phases, Writers
    <2>1. CASE w.who = "arm"
      <3> DEFINE ph == IF ok THEN x.pol.phase ELSE "off"
                 y == [x EXCEPT !.changing = FALSE, !.pol.phase = ph]
      <3>1. ph \in Phases
        BY <1>2, <1>3, <2>0
      <3>2. c' = CheckDeadline(y)
        BY <1>4, <2>1
      <3>5. ph = c.pol.phase \/ ph = "off"
        BY <1>2
      <3>9. y = Freed(x, ph)
        BY DEF Freed
      <3> HIDE DEF y, ph
      <3>3. /\ y \in Controllers /\ y.writes = x.writes
            /\ y.changing = FALSE /\ y.defaultsOnly = x.defaultsOnly
            /\ y.pol.phase = ph /\ y.pol.arm = x.pol.arm /\ y.pol.base = x.pol.base
            /\ y.pol.trigger = x.pol.trigger
        BY <1>2, <3>1, <3>9, FreedIs
      <3>4. /\ y.pol.phase = ph /\ y.pol.arm = c.pol.arm /\ y.pol.base = c.pol.base
            /\ y.pol.trigger = c.pol.trigger
        BY <1>2, <3>3
      <3>6. Popped(c, y)
        BY <1>3, <1>1, <1>2, <2>1, <3>3, <3>4, <3>5 DEF Popped, w
      <3>7. Waits(y, c')
        BY <3>2, <3>3, DeadlineMoves DEF Waits, CheckDeadline
      <3> QED BY <2>1, <3>4, <3>5, <3>6, <3>7
    <2>2. CASE w.who = "disarm"
      <3>1. c' = [x EXCEPT !.changing = FALSE]
        BY <1>4, <2>2
      <3>2. /\ c' \in Controllers /\ c'.pol = x.pol /\ c'.writes = x.writes /\ c'.changing = FALSE
            /\ c'.defaultsOnly = x.defaultsOnly
        BY <1>2, <3>1, FreeIs
      <3>3. Popped(c, c')
        BY <1>3, <1>1, <1>2, <2>2, <3>2 DEF Popped, w
      <3> QED BY <1>2, <3>2, <3>3
    <2>3. CASE w.who = "watch" /\ ~ok
      <3> DEFINE y == [x EXCEPT !.pol.phase = "failed"]
      <3>1. c' = y
        BY <1>4, <2>3 DEF WatchFailed
      <3>9. y = Phased(x, "failed")
        BY DEF Phased
      <3> HIDE DEF y
      <3>2. /\ y \in Controllers /\ y.writes = x.writes
            /\ y.changing = x.changing /\ y.defaultsOnly = x.defaultsOnly
            /\ y.pol.phase = "failed" /\ y.pol.arm = x.pol.arm /\ y.pol.base = x.pol.base
            /\ y.pol.trigger = x.pol.trigger
        BY <1>2, <2>0, <3>9, PhaseIs
      <3>3. /\ y.pol.phase = "failed" /\ y.pol.arm = c.pol.arm /\ y.pol.base = c.pol.base
            /\ y.pol.trigger = c.pol.trigger
        BY <1>2, <3>2
      <3>4. Popped(c, y)
        BY <1>3, <1>1, <1>2, <2>3, <3>2, <3>3 DEF Popped, w
      <3> QED BY <2>3, <3>1, <3>3, <3>4
    <2>4. CASE w.who = "claim" /\ ~ok
      <3> DEFINE y == [x EXCEPT !.pol.phase = "failed"]
      <3>1. c' = Persist(y, "final")
        BY <1>4, <2>4
      <3>9. y = Phased(x, "failed")
        BY DEF Phased
      <3> HIDE DEF y
      <3>2. /\ y \in Controllers /\ y.writes = x.writes
            /\ y.changing = x.changing /\ y.defaultsOnly = x.defaultsOnly
            /\ y.pol.phase = "failed" /\ y.pol.arm = x.pol.arm /\ y.pol.base = x.pol.base
            /\ y.pol.trigger = x.pol.trigger
        BY <1>2, <2>0, <3>9, PhaseIs
      <3>3. /\ y.pol.phase = "failed" /\ y.pol.arm = c.pol.arm /\ y.pol.base = c.pol.base
            /\ y.pol.trigger = c.pol.trigger
        BY <1>2, <3>2
      <3>4. Popped(c, y)
        BY <1>3, <1>1, <1>2, <2>4, <3>2, <3>3 DEF Popped, w
      <3>6. /\ c' \in Controllers
            /\ c'.pol = y.pol /\ c'.changing = y.changing /\ c'.defaultsOnly = y.defaultsOnly
            /\ c'.writes = Append(y.writes, [who |-> "final", snap |-> y.pol])
        BY <2>0, <3>1, <3>2, PersistIs
      <3>7. y.pol = c'.pol
        BY <3>6
      <3>5. Adds(y, c', "final") /\ c'.pol = y.pol /\ c'.changing = y.changing /\ c'.defaultsOnly = y.defaultsOnly
        BY <3>6, <3>7 DEF Adds
      <3> QED BY <2>4, <3>3, <3>4, <3>5
    <2>5. CASE w.who \notin {"arm", "disarm"} /\ (ok \/ w.who \notin {"watch", "claim"})
      <3>1. c' = x
        BY <1>4, <2>5
      <3>2. Popped(c, c')
        BY <1>3, <1>1, <1>2, <2>5, <3>1 DEF Popped, w
      <3> QED BY <1>2, <3>1, <3>2
    <2> QED BY <2>1, <2>2, <2>3, <2>4, <2>5
  <1>8. UNCHANGED <<now, envVars>>
    BY DEF WriteDone
  <1>9. IF w.who = "claim" /\ ok
          THEN /\ calls' = calls + 1 /\ over' = over \cup {c.pol.arm}
               /\ sent' = [sent EXCEPT ![c.pol.arm] = @ + 1]
          ELSE /\ UNCHANGED <<calls, sent>>
               /\ over' = IF w.who = "disarm" /\ ok THEN over \cup {w.snap.arm} ELSE over
    BY <1>2, <1>5 DEF Send
  <1>10. late' = (late \/ (/\ w.who = "watch" /\ ~ok
                          /\ <<c.pol.phase, c.pol.arm>> # <<"armed", w.snap.arm>>))
    BY <1>2, <1>5
  <1> QED BY <1>1, <1>5, <1>6, <1>7, <1>8, <1>9, <1>10 DEF w

(* An answer queues the final phase. *)
LEMMA AnsweredIs ==
    ASSUME c \in Controllers, NEW phase \in {"done", "failed"}, Answered(phase)
    PROVE  /\ Adds(c, c', "final") /\ c'.changing = c.changing /\ c'.defaultsOnly = c.defaultsOnly
           /\ c'.pol.phase = phase /\ c'.pol.arm = c.pol.arm /\ c'.pol.base = c.pol.base
  <1> DEFINE y == [c EXCEPT !.pol.phase = phase]
  <1>1. phase \in Phases /\ "final" \in Writers /\ c.pol \in Policies
    BY ControllerIs DEF Phases, Writers
  <1>4. c' = Persist(y, "final")
    BY DEF Answered
  <1>9. y = Phased(c, phase)
    BY DEF Phased
  <1> HIDE DEF y
  <1>2. /\ y \in Controllers /\ y.writes = c.writes
        /\ y.changing = c.changing /\ y.defaultsOnly = c.defaultsOnly
        /\ y.pol.phase = phase /\ y.pol.arm = c.pol.arm /\ y.pol.base = c.pol.base
    BY <1>1, <1>9, PhaseIs
  <1> QED BY <1>1, <1>2, <1>4, PersistIs DEF Adds

(* restore, field by field. *)
LEMMA RestoredIs ==
    ASSUME NEW d \in Policies, NEW b \in DefaultsOnly
    PROVE  /\ Restored(d, b) \in Controllers /\ Restored(d, b).changing = FALSE
           /\ Restored(d, b).writes = <<>> /\ Restored(d, b).defaultsOnly = b
           /\ Restored(d, b).pol.phase = IF d.phase = "running" THEN "failed" ELSE d.phase
           /\ Restored(d, b).pol.arm = d.arm /\ Restored(d, b).pol.base = d.base
  <1> DEFINE ph == IF d.phase = "running" THEN "failed" ELSE d.phase
             q == [d EXCEPT !.phase = ph]
  <1>1. ph \in Phases
    BY DEF Policies, Phases
  <1>2. q \in Policies /\ q.phase = ph /\ q.arm = d.arm /\ q.base = d.base
    BY <1>1, PolPhase
  <1>3. Restored(d, b) = [defaultsOnly |-> b, pol |-> q, changing |-> FALSE, workspace |-> NoPath,
                          timer |-> FALSE, writes |-> <<>>]
    BY DEF Restored
  <1> HIDE DEF q
  <1>4. Restored(d, b) \in Controllers
    BY <1>2, <1>3, EmptyQueue, ControllerIs
  <1> QED BY <1>2, <1>3, <1>4

(* A restart restores the stored policy or the one being written. *)
LEMMA RestartIs ==
    ASSUME c \in Controllers, disk \in Policies, Restart
    PROVE  /\ disk' \in Policies /\ c' = Restored(disk', c.defaultsOnly) /\ c.defaultsOnly \in DefaultsOnly
           /\ disk' = disk \/ (1 \in DOMAIN c.writes /\ disk' = c.writes[1].snap)
  <1>1. PICK d \in {disk} \cup {c.writes[i].snap : i \in DOMAIN c.writes \cap {1}} :
           disk' = d /\ c' = Restored(d, c.defaultsOnly)
    BY DEF Restart
  <1>2. c.writes \in Seq(Entries) /\ c.defaultsOnly \in DefaultsOnly
    BY ControllerIs
  <1>4. \A i \in DOMAIN c.writes : c.writes[i] \in Entries
    BY <1>2, Indexed
  <1>3. \A i \in DOMAIN c.writes : c.writes[i].snap \in Policies
    BY <1>4 DEF Entries
  <1> QED BY <1>1, <1>2, <1>3
-----------------------------------------------------------------------------
(* Each action keeps the invariant. *)

(* The inductive invariant of the types and of SentOnce. *)
Core == TypeOK /\ Counted /\ OneShot

(* Adding a save keeps Once when no claim or disarm is queued. *)
LEMMA AddsOnce ==
    ASSUME NEW n \in Nat, NEW x, NEW y, NEW o, NEW k, NEW j, Ctl(x, n), Once(x, o, k),
           NEW who \in Writers \ {"claim"}, Adds(x, y, who), j <= 1,
           \A i \in DOMAIN x.writes : x.writes[i].who \notin {"disarm", "claim"},
           j > 0 => y.pol.phase = "running",
           y.pol.phase = "armed" => y.pol.arm \notin o,
           who = "disarm" => y.pol.phase = "off"
    PROVE  Once(y, o, j)
  <1>1. x \in Controllers
    BY DEF Ctl
  <1>2. ASSUME NEW i \in DOMAIN y.writes
        PROVE  /\ y.writes[i].snap.phase = "armed" => y.writes[i].snap.arm \notin o
               /\ y.writes[i].who = "disarm" =>
                    i = Len(y.writes) /\ y.writes[i].snap = y.pol /\ who = "disarm"
               /\ y.writes[i].who # "claim"
    <2>1. CASE i \in DOMAIN x.writes
      BY <1>1, <2>1, AddsIs DEF Once
    <2>2. CASE i = Len(x.writes) + 1
      BY <1>1, <2>2, AddsIs
    <2> QED BY <1>1, <2>1, <2>2, AddsIs
  <1> QED BY <1>2 DEF Once, Armed

(* A claim or a disarm that is done leaves the queue empty. *)
LEMMA NoneLeft ==
    ASSUME NEW x, NEW o, NEW k, NEW y, x \in Controllers, Once(x, o, k), Popped(x, y),
           x.writes[1].who \in {"disarm", "claim"}
    PROVE  DOMAIN y.writes = {} /\ Len(x.writes) = 1
  <1>1. 1 = Len(x.writes)
    BY PoppedIs DEF Once
  <1> QED BY <1>1, PoppedIs

(* What an action that leaves the world alone has to show. *)
LEMMA TypesFrom ==
    ASSUME TypeOK, used'.arms \in Nat, Ctl(c', used'.arms), disk' \in Policies, calls' \in Nat,
           UNCHANGED <<now, envVars>>, sent' \in [Arms -> Nat], over' \subseteq Arms, late' \in BOOLEAN
    PROVE  TypeOK'
  BY DEF TypeOK, Ctl, Alone, envVars

(* What it says of the history. *)
LEMMA CoreHistory ==
    ASSUME Core
    PROVE  TypeOK /\ sent \in [Arms -> Nat] /\ over \subseteq Arms /\ late \in BOOLEAN
  BY DEF Core, TypeOK

(* What the invariant says of each variable. *)
LEMMA CoreIs ==
    ASSUME Core
    PROVE  /\ used \in [Budgets -> Nat] /\ used.arms \in 0..MaxArms /\ used.arms \in Nat
           /\ c \in Controllers /\ c.pol \in Policies /\ c.defaultsOnly \in DefaultsOnly
           /\ Ctl(c, used.arms) /\ Num(disk, used.arms) /\ disk \in Policies
           /\ calls \in Nat /\ shown \in Bases /\ now \in Times
           /\ c.writes \in Seq(Entries)
           /\ \A i \in DOMAIN c.writes : c.writes[i] \in Entries /\ c.writes[i].snap \in Policies
           /\ MaxArms \in Nat /\ MaxTime \in Nat /\ Week \in Nat \ {0}
  <1>1. c \in Controllers /\ disk \in Policies /\ calls \in Nat /\ shown \in Bases /\ now \in Times
    BY DEF Core, TypeOK, Bases
  <1>2. c.pol \in Policies /\ c.defaultsOnly \in DefaultsOnly /\ c.writes \in Seq(Entries)
    BY <1>1, ControllerIs
  <1>3. \A i \in DOMAIN c.writes : c.writes[i] \in Entries
    BY <1>2, Indexed
  <1>4. \A i \in DOMAIN c.writes : c.writes[i].snap \in Policies
    BY <1>3 DEF Entries
  <1>5. MaxArms \in Nat /\ MaxTime \in Nat /\ Week \in Nat \ {0}
    BY DowngradeAssumption
  <1>6. /\ used \in [Budgets -> Nat] /\ used.arms \in 0..MaxArms
        /\ Ctl(c, used.arms) /\ Num(disk, used.arms)
    BY DEF Core, Counted
  <1> QED BY <1>1, <1>2, <1>3, <1>4, <1>5, <1>6

(* Spending one bound leaves the others. *)
LEMMA SpendIs ==
    ASSUME NEW b \in Budgets, NEW limit, Spend(b, limit), used \in [Budgets -> Nat]
    PROVE  /\ used' \in [Budgets -> Nat] /\ used'[b] = used[b] + 1
           /\ b # "arms" => used'.arms = used.arms
           /\ used[b] < limit
  BY DEF Spend, Budgets

(* arm keeps the invariant: its number is new, so not over. *)
LEMMA ArmKeeps ==
    ASSUME Core, NEW p \in Paths, NEW trigger \in Triggers, Arm(p, trigger)
    PROVE  Core'
  <1> DEFINE n == used.arms
  <1>1. /\ used' \in [Budgets -> Nat] /\ used'.arms = n + 1 /\ n < MaxArms /\ n \in Nat
        /\ UNCHANGED <<disk, calls, now, envVars, sent, over, late>>
    <2>1. Spend("arms", MaxArms) /\ UNCHANGED <<disk, calls, now, envVars, sent, over, late>>
      BY DEF Arm, historyVars
    <2>2. "arms" \in Budgets
      BY DEF Budgets
    <2> QED BY <2>1, <2>2, CoreIs, SpendIs
  <1>2. /\ Adds(c, c', "arm") /\ c'.changing /\ ~c.changing /\ c.pol.phase # "running"
        /\ c'.pol.phase = "armed" /\ c'.pol.arm = n + 1
    BY <1>1, CoreIs, ArmIs
  <1>3. "arm" \in Writers \ {"claim"}
    BY DEF Writers
  <1>4. Ctl(c, n + 1) /\ Ctl(c', n + 1)
    <2>1. Ctl(c, n + 1)
      BY <1>1, CoreIs, CtlMore
    <2>2. n + 1 \in Nat /\ Num(c'.pol, n + 1) /\ c'.pol.arm # 0
      BY <1>1, <1>2 DEF Num
    <2> HIDE DEF n
    <2> QED BY <1>2, <1>3, <2>1, <2>2, AddsCtl
  <1>5. TypeOK'
    BY <1>1, <1>4, CoreIs, CoreHistory, TypesFrom
  <1>6. Counted'
    <2>1. Num(disk', n + 1) /\ \A a \in over' : a <= n + 1
      BY <1>1, CoreIs DEF Core, Counted, Num, TypeOK, Arms, Policies
    <2>2. calls' > 0 => c'.pol.arm # 0
      BY <1>1, <1>2
    <2>3. used'.arms \in 0..MaxArms
      BY <1>1, CoreIs
    <2> QED BY <1>1, <1>4, <2>1, <2>2, <2>3 DEF Counted
  <1>7. OneShot'
    <2> SUFFICES ASSUME ~late'
                 PROVE  Once(c', over', calls') /\ (disk'.phase = "armed" => disk'.arm \notin over')
      BY DEF OneShot
    <2>1. Once(c, over, calls) /\ (disk.phase = "armed" => disk.arm \notin over)
      BY <1>1 DEF Core, OneShot
    <2>2. \A i \in DOMAIN c.writes : c.writes[i].who \notin {"disarm", "claim"}
      BY <1>2, <2>1, CoreIs DEF Once, Ctl, Alone
    <2>3. calls = 0
      BY <1>2, <2>1, CoreIs DEF Once
    <2>4. n + 1 \notin over
      BY <1>1 DEF Core, Counted
    <2>5. Once(c', over, calls)
      <3>1. used.arms \in Nat /\ Ctl(c, used.arms) /\ calls <= 1 /\ ~(calls > 0)
        BY <2>3, CoreIs
      <3>2. Adds(c, c', "arm") /\ (c'.pol.phase = "armed" => c'.pol.arm \notin over)
        BY <1>2, <2>4
      <3> HIDE DEF n
      <3> QED BY <1>3, <2>1, <2>2, <3>1, <3>2, AddsOnce
    <2> QED BY <1>1, <2>1, <2>5
  <1> QED BY <1>5, <1>6, <1>7 DEF Core

(* disarm keeps the invariant. *)
LEMMA DisarmKeeps ==
    ASSUME Core, Disarm
    PROVE  Core'
  <1>1. UNCHANGED <<disk, calls, now, envVars, used, sent, over, late>>
    BY DEF Disarm, historyVars
  <1>2. /\ Adds(c, c', "disarm") /\ c'.changing /\ ~c.changing /\ c.pol.phase = "armed"
        /\ c'.pol.phase = "off" /\ c'.pol.arm = c.pol.arm
    BY CoreIs, DisarmIs
  <1>3. "disarm" \in Writers \ {"claim"}
    BY DEF Writers
  <1>4. Ctl(c', used.arms)
    <2>1. Num(c'.pol, used.arms) /\ c'.pol.arm # 0
      BY <1>2, CoreIs DEF Ctl, Num
    <2> QED BY <1>2, <1>3, <2>1, CoreIs, AddsCtl
  <1>5. TypeOK'
    BY <1>1, <1>4, CoreIs, CoreHistory, TypesFrom
  <1>6. Counted'
    BY <1>1, <1>2, <1>4 DEF Core, Counted
  <1>7. OneShot'
    <2> SUFFICES ASSUME ~late'
                 PROVE  Once(c', over', calls') /\ (disk'.phase = "armed" => disk'.arm \notin over')
      BY DEF OneShot
    <2>1. Once(c, over, calls) /\ (disk.phase = "armed" => disk.arm \notin over)
      BY <1>1 DEF Core, OneShot
    <2>2. \A i \in DOMAIN c.writes : c.writes[i].who \notin {"disarm", "claim"}
      BY <1>2, <2>1, CoreIs DEF Once, Ctl, Alone
    <2>3. calls = 0
      BY <1>2, <2>1, CoreIs DEF Once
    <2>5. Once(c', over, calls)
      <3>1. used.arms \in Nat /\ Ctl(c, used.arms) /\ calls <= 1 /\ ~(calls > 0)
        BY <2>3, CoreIs
      <3>2. Adds(c, c', "disarm") /\ c'.pol.phase = "off" /\ c'.pol.phase # "armed"
        BY <1>2
      <3> QED BY <1>3, <2>1, <2>2, <3>1, <3>2, AddsOnce
    <2> QED BY <1>1, <2>1, <2>5
  <1> QED BY <1>5, <1>6, <1>7 DEF Core

(* The handlers keep the invariant. *)
LEMMA HandlerKeeps ==
    ASSUME Core, (\E p \in Paths : OnUiState(p) \/ Follow(p)) \/ TimerFires
    PROVE  Core'
  <1>1. UNCHANGED <<disk, calls, now, envVars, used, sent, over, late>>
    BY DEF OnUiState, Follow, TimerFires, historyVars
  <1>2. Moves(c, c')
    BY CoreIs, HandlerMoves
  <1>4. Ctl(c', used.arms)
    BY <1>2, CoreIs, MovesCtl
  <1>5. TypeOK'
    BY <1>1, <1>4, CoreIs, CoreHistory, TypesFrom
  <1>6. Counted'
    BY <1>1, <1>2, <1>4 DEF Core, Counted, Moves
  <1>7. OneShot'
    BY <1>1, <1>2, CoreIs, MovesOnce DEF Core, OneShot
  <1> QED BY <1>5, <1>6, <1>7 DEF Core

(* An answer keeps the invariant: no claim is queued while one is out. *)
LEMMA AnsweredKeeps ==
    ASSUME Core, NEW phase \in {"done", "failed"}, Answered(phase)
    PROVE  Core'
  <1>1. UNCHANGED <<disk, now, envVars, used, sent, over, late>> /\ calls > 0 /\ calls' = calls - 1
    BY DEF Answered, historyVars
  <1>2. /\ Adds(c, c', "final") /\ c'.changing = c.changing
        /\ c'.pol.phase = phase /\ c'.pol.arm = c.pol.arm
    BY CoreIs, AnsweredIs
  <1>3. "final" \in Writers \ {"claim"} /\ c.pol.arm # 0
    BY <1>1 DEF Writers, Core, Counted
  <1>4. Ctl(c', used.arms)
    <2>1. Num(c'.pol, used.arms) /\ c'.pol.arm # 0
      BY <1>2, <1>3, CoreIs DEF Ctl, Num
    <2> QED BY <1>2, <1>3, <2>1, CoreIs, AddsCtl
  <1>5. TypeOK'
    BY <1>1, <1>4, CoreIs, CoreHistory, TypesFrom
  <1>6. Counted'
    BY <1>1, <1>2, <1>3, <1>4 DEF Core, Counted
  <1>7. OneShot'
    <2> SUFFICES ASSUME ~late'
                 PROVE  Once(c', over', calls') /\ (disk'.phase = "armed" => disk'.arm \notin over')
      BY DEF OneShot
    <2>1. Once(c, over, calls) /\ (disk.phase = "armed" => disk.arm \notin over)
      BY <1>1 DEF Core, OneShot
    <2>3. calls' = 0 /\ c.pol.phase = "running" /\ calls' \in Nat
      BY <1>1, <2>1, CoreIs DEF Once
    <2>2. \A i \in DOMAIN c.writes : c.writes[i].who \notin {"disarm", "claim"}
      BY <1>1, <2>1, <2>3, CoreIs DEF Once
    <2>5. Once(c', over, calls')
      BY <1>2, <1>3, <2>1, <2>2, <2>3, CoreIs, AddsOnce
    <2> QED BY <1>1, <2>1, <2>5
  <1> QED BY <1>5, <1>6, <1>7 DEF Core

(* A restart keeps the invariant: an interrupted run is not armed again. *)
LEMMA RestartKeeps ==
    ASSUME Core, Restart
    PROVE  Core'
  <1>1. UNCHANGED <<now, envVars, sent, over, late>> /\ calls' = 0
    BY DEF Restart, historyVars
  <1>2. used' \in [Budgets -> Nat] /\ used'.arms = used.arms
    <2>1. Spend("crashes", MaxCrashes)
      BY DEF Restart
    <2>2. "crashes" \in Budgets
      BY DEF Budgets
    <2> QED BY <2>1, <2>2, CoreIs, SpendIs
  <1>3. /\ disk' \in Policies /\ c' = Restored(disk', c.defaultsOnly)
        /\ disk' = disk \/ (1 \in DOMAIN c.writes /\ disk' = c.writes[1].snap)
    BY CoreIs, RestartIs
  <1>4. /\ c' \in Controllers /\ c'.changing = FALSE /\ c'.writes = <<>>
        /\ c'.pol.phase = (IF disk'.phase = "running" THEN "failed" ELSE disk'.phase)
        /\ c'.pol.arm = disk'.arm
    BY <1>3, CoreIs, RestoredIs
  <1>5. Num(disk', used.arms)
    BY <1>3, CoreIs DEF Ctl
  <1>6. Ctl(c', used.arms)
    BY <1>4, <1>5, EmptyQueue DEF Ctl, Alone, Num
  <1>7. TypeOK'
    BY <1>1, <1>2, <1>3, <1>6, CoreIs, CoreHistory, TypesFrom
  <1>8. Counted'
    BY <1>1, <1>2, <1>5, <1>6 DEF Core, Counted
  <1>9. OneShot'
    <2> SUFFICES ASSUME ~late'
                 PROVE  Once(c', over', calls') /\ (disk'.phase = "armed" => disk'.arm \notin over')
      BY DEF OneShot
    <2>1. Once(c, over, calls) /\ (disk.phase = "armed" => disk.arm \notin over)
      BY <1>1 DEF Core, OneShot
    <2>2. disk'.phase = "armed" => disk'.arm \notin over
      BY <1>3, <2>1 DEF Once
    <2> QED BY <1>1, <1>4, <2>2, EmptyQueue DEF Once, Armed
  <1> QED BY <1>7, <1>8, <1>9 DEF Core

(* A save done keeps the invariant, and a sent arming was not over and has its claim stored. *)
LEMMA WriteDoneKeeps ==
    ASSUME Core, NEW ok \in BOOLEAN, WriteDone(ok)
    PROVE  /\ Core'
           /\ ~late => \A a \in Arms : sent'[a] > sent[a] =>
                a \notin over /\ disk'.phase = "running" /\ disk'.arm = a
  <1> DEFINE w == c.writes[1]
             n == used.arms
  <1>1. /\ c.writes # <<>> /\ w \in Entries
        /\ disk' = IF ok THEN w.snap ELSE disk
        /\ IF w.who = "claim" /\ ok
             THEN /\ calls' = calls + 1 /\ over' = over \cup {c.pol.arm}
                  /\ sent' = [sent EXCEPT ![c.pol.arm] = @ + 1]
             ELSE /\ UNCHANGED <<calls, sent>>
                  /\ over' = IF w.who = "disarm" /\ ok THEN over \cup {w.snap.arm} ELSE over
        /\ late' = (late \/ (/\ w.who = "watch" /\ ~ok
                            /\ <<c.pol.phase, c.pol.arm>> # <<"armed", w.snap.arm>>))
        /\ UNCHANGED <<now, envVars>> /\ (used' = used \/ Spend("failures", MaxFailures))
    BY CoreIs, DoneIs
  <1>2. PICK y : /\ Popped(c, y)
                 /\ \/ y.pol.phase = c.pol.phase /\ (c' = y \/ (w.who = "arm" /\ Waits(y, c')))
                    \/ w.who = "arm" /\ y.pol.phase = "off" /\ Waits(y, c')
                    \/ w.who = "watch" /\ ~ok /\ y.pol.phase = "failed" /\ c' = y
                    \/ /\ w.who = "claim" /\ ~ok /\ y.pol.phase = "failed"
                       /\ Adds(y, c', "final") /\ c'.pol = y.pol /\ c'.changing = y.changing
                       /\ c'.defaultsOnly = y.defaultsOnly
    BY CoreIs, DoneIs
  <1>3. used' \in [Budgets -> Nat] /\ used'.arms = n
    <2>1. "failures" \in Budgets /\ "failures" # "arms"
      BY DEF Budgets
    <2> QED BY <1>1, <2>1, CoreIs, SpendIs
  <1>4. /\ n \in Nat /\ n <= MaxArms /\ 1 \in DOMAIN c.writes /\ w.snap \in Policies
        /\ Num(w.snap, n) /\ w.snap.arm # 0 /\ c.pol.arm # 0 /\ c.pol.arm <= n
        /\ c.pol.arm \in Arms /\ w.snap.arm \in Arms
    <2>1. 1 \in DOMAIN c.writes /\ n \in 0..MaxArms /\ w.snap \in Policies
      BY <1>2, CoreIs, PoppedIs
    <2>2. Num(w.snap, n) /\ w.snap.arm # 0 /\ c.pol.arm # 0 /\ c.pol.arm <= n
      BY <1>1, <2>1, CoreIs DEF Ctl, Num
    <2>3. MaxArms \in Nat /\ c.pol \in Policies
      BY CoreIs
    <2>4. n \in Nat /\ n <= MaxArms
      BY <2>1, <2>3
    <2>5. w.snap.arm \in 0 .. MaxArms /\ c.pol.arm \in 0 .. MaxArms
      BY <2>1, <2>3 DEF Policies
    <2>6. c.pol.arm \in Arms /\ w.snap.arm \in Arms
      BY <2>2, <2>3, <2>5 DEF Arms
    <2> QED BY <2>1, <2>2, <2>4, <2>6
  <1>5. Ctl(y, n) /\ Ctl(c', n) /\ c'.pol.arm = c.pol.arm
    <2>1. Ctl(y, n) /\ y.pol.arm = c.pol.arm
      BY <1>2, <1>4, CoreIs, PoppedCtl DEF Popped
    <2>2. Moves(y, c') => Ctl(c', n) /\ c'.pol.arm = c.pol.arm
      BY <1>4, <2>1, MovesCtl DEF Moves
    <2>4. Waits(y, c') => Moves(y, c')
      BY DEF Waits
    <2>3. ASSUME Adds(y, c', "final"), y.pol.phase = "failed", c'.pol = y.pol, c'.changing = y.changing
          PROVE  Ctl(c', n)
      <3>1. "final" \in Writers /\ Num(c'.pol, n) /\ c'.pol.arm # 0
        BY <1>4, <2>1, <2>3 DEF Writers, Num, Ctl
      <3> HIDE DEF n, w
      <3> QED BY <1>4, <2>1, <2>3, <3>1, AddsCtl
    <2> QED BY <1>2, <2>1, <2>2, <2>3, <2>4
  <1>6. TypeOK'
    <2>1. disk' \in Policies /\ calls' \in Nat /\ over' \subseteq Arms
      BY <1>1, <1>4, CoreIs DEF Core, TypeOK
    <2>2. sent' \in [Arms -> Nat]
      BY <1>1, <1>4 DEF Core, TypeOK
    <2>3. late' \in BOOLEAN
      BY <1>1 DEF Core, TypeOK
    <2> QED BY <1>1, <1>3, <1>4, <1>5, <2>1, <2>2, <2>3, TypesFrom DEF Core
  <1>7. Counted'
    <2>1. Num(disk', n)
      BY <1>1, <1>4, CoreIs
    <2>2. \A a \in over' : a <= n
      BY <1>1, <1>4 DEF Core, Counted, Num
    <2> QED BY <1>3, <1>4, <1>5, <2>1, <2>2, CoreIs DEF Counted
  <1>8. ASSUME ~late
        PROVE  /\ Once(c, over, calls) /\ (disk.phase = "armed" => disk.arm \notin over)
               /\ w.snap.phase = "armed" => w.snap.arm \notin over
               /\ w.who = "disarm" => w.snap.phase = "off" /\ c.pol.phase = "off"
               /\ w.who = "claim" => /\ w.snap.phase = "running" /\ w.snap.arm = c.pol.arm
                                     /\ c.pol.phase = "running" /\ c.pol.arm \notin over /\ calls = 0
               /\ w.who \in {"disarm", "claim"} => DOMAIN y.writes = {}
    <2>1. Once(c, over, calls) /\ (disk.phase = "armed" => disk.arm \notin over)
      BY <1>8 DEF Core, OneShot
    <2>2. w.who \in {"disarm", "claim"} => DOMAIN y.writes = {}
      BY <1>2, <2>1, CoreIs, NoneLeft
    <2> QED BY <1>4, <2>1, <2>2 DEF Once
  <1>9. OneShot'
    <2> SUFFICES ASSUME ~late'
                 PROVE  Once(c', over', calls') /\ (disk'.phase = "armed" => disk'.arm \notin over')
      BY DEF OneShot
    <2>0. ~late /\ (w.who = "watch" /\ ~ok => c.pol.phase = "armed")
      BY <1>1
    <2>1. disk'.phase = "armed" => disk'.arm \notin over'
      BY <1>1, <1>4, <1>8, <2>0
    <2>2. CASE ok /\ w.who \in {"disarm", "claim"}
      <3>1. c' = y /\ DOMAIN c'.writes = {} /\ c'.pol.phase = c.pol.phase
        BY <1>2, <1>8, <2>0, <2>2
      <3>2. CASE w.who = "claim"
        BY <1>1, <1>8, <2>0, <2>2, <3>1, <3>2 DEF Once, Armed
      <3>3. CASE w.who = "disarm"
        BY <1>1, <1>8, <2>0, <2>2, <3>1, <3>3 DEF Once, Armed
      <3> QED BY <2>2, <3>2, <3>3
    <2>3. CASE ~(ok /\ w.who \in {"disarm", "claim"})
      <3>1. over' = over /\ calls' = calls
        BY <1>1, <2>3
      <3>2. Once(c, over, calls)
        BY <1>8, <2>0
      <3>3. \/ y.pol.phase = c.pol.phase \/ c.writes[1].who = "arm"
            \/ c.pol.phase = "armed" \/ c.writes[1].who = "claim"
        BY <1>2, <2>0
      <3>4. Once(y, over, calls)
        BY <1>2, <3>2, <3>3, CoreIs, PoppedOnce
      <3>5. Moves(y, c') => Once(c', over, calls)
        BY <1>4, <1>5, <3>4, CoreIs, MovesOnce
      <3>6. ASSUME w.who = "claim", y.pol.phase = "failed", Adds(y, c', "final"), c'.pol = y.pol
            PROVE  Once(c', over, calls)
        <4>1. DOMAIN y.writes = {} /\ calls = 0 /\ "final" \in Writers \ {"claim"}
          BY <1>8, <2>0, <3>6 DEF Writers
        <4> HIDE DEF n, w
        <4> QED BY <1>4, <1>5, <3>4, <3>6, <4>1, AddsOnce
      <3>7. Once(c', over, calls)
        BY <1>2, <3>4, <3>5, <3>6 DEF Waits
      <3> QED BY <2>1, <3>1, <3>7
    <2> QED BY <2>1, <2>2, <2>3
  <1>10. ASSUME ~late, NEW a \in Arms, sent'[a] > sent[a]
         PROVE  a \notin over /\ disk'.phase = "running" /\ disk'.arm = a
    <2>1. sent \in [Arms -> Nat]
      BY DEF Core, TypeOK
    <2>2. w.who = "claim" /\ ok /\ a = c.pol.arm
      BY <1>1, <1>4, <1>10, <2>1
    <2> QED BY <1>1, <1>8, <1>10, <2>2
  <1> QED BY <1>6, <1>7, <1>9, <1>10 DEF Core

(* The world leaves the controller, the stored policy and the histories alone. *)
LEMMA WorldKeeps ==
    ASSUME Core, World
    PROVE  Core' /\ UNCHANGED <<sent, over, late, c, disk, calls>>
  <1>1. UNCHANGED <<c, disk, calls, sent, over, late>>
    BY DEF World, Tick, UseQuota, ResetQuota, Drift, SwitchAccount,
           Fetch, ReplaceCredentials, historyVars
  <1>2. used' \in [Budgets -> Nat] /\ used'.arms = used.arms
    <2>1. used' = used \/ \E b \in Budgets \ {"arms"}, limit \in Nat : Spend(b, limit)
      BY DowngradeAssumption
      DEF World, Tick, UseQuota, ResetQuota, Drift, SwitchAccount, Fetch, ReplaceCredentials,
          Budgets
    <2> QED BY <2>1, CoreIs, SpendIs
  <1>3. TypeOK'
    <2>0. c \in Controllers /\ Alone(c) /\ disk \in Policies /\ calls \in Nat
          /\ now \in Times /\ sent \in [Arms -> Nat] /\ over \subseteq Arms /\ late \in BOOLEAN
          /\ quota \in [Keys -> [used : 0..1, reset : 0..MaxTime + Week]]
          /\ slotKey \in [Slots -> Keys] /\ active \in Slots /\ shown \in [Slots -> Readings \cup {None}]
      BY DEF Core, TypeOK, Alone
    <2>1. now' \in Times
      BY <2>0, CoreIs DEF World, Tick, UseQuota, ResetQuota, Drift, SwitchAccount,
                          Fetch, ReplaceCredentials, Times
    <2>2. quota' \in [Keys -> [used : 0..1, reset : 0..MaxTime + Week]]
      <3>1. quota' = quota \/ \E k \in Keys : UseQuota(k) \/ ResetQuota(k) \/ Drift(k)
        BY DEF World, Tick, SwitchAccount, Fetch, ReplaceCredentials, envVars
      <3>2. ASSUME NEW k \in Keys, UseQuota(k) \/ ResetQuota(k) \/ Drift(k)
            PROVE  quota' \in [Keys -> [used : 0..1, reset : 0..MaxTime + Week]]
        <4>1. now + Week \in 0..MaxTime + Week
          BY CoreIs DEF Times
        <4>2. \/ quota' = [quota EXCEPT ![k].used = 1]
              \/ quota' = [quota EXCEPT ![k] = [used |-> 0, reset |-> now + Week]]
              \/ quota' = [quota EXCEPT ![k].reset = now + Week]
          BY <3>2 DEF UseQuota, ResetQuota, Drift
        <4> QED BY <2>0, <4>1, <4>2
      <3> QED BY <2>0, <3>1, <3>2
    <2>3. slotKey' \in [Slots -> Keys] /\ active' \in Slots
      BY <2>0 DEF World, Tick, UseQuota, ResetQuota, Drift, SwitchAccount,
                  Fetch, ReplaceCredentials, envVars
    <2>4. shown' \in [Slots -> Readings \cup {None}]
      <3>1. shown' = shown \/ \E s \in Slots : Fetch(s)
        BY DEF World, Tick, UseQuota, ResetQuota, Drift, SwitchAccount, ReplaceCredentials, envVars
      <3>2. ASSUME NEW s \in Slots, Fetch(s) PROVE shown' \in [Slots -> Readings \cup {None}]
        <4> DEFINE r == [used |-> quota[slotKey[s]].used, reset |-> quota[slotKey[s]].reset,
                         observed |-> now, key |-> slotKey[s]]
        <4>1. r \in Readings
          BY <2>0 DEF Readings
        <4>2. shown' = [shown EXCEPT ![s] = r]
          BY <3>2 DEF Fetch
        <4> HIDE DEF r
        <4> QED BY <2>0, <4>1, <4>2
      <3> QED BY <2>0, <3>1, <3>2
    <2> QED BY <1>1, <2>0, <2>1, <2>2, <2>3, <2>4 DEF TypeOK, Alone
  <1>4. Counted' /\ OneShot'
    BY <1>1, <1>2 DEF Core, Counted, OneShot
  <1> QED BY <1>1, <1>3, <1>4 DEF Core

(* The policy of a new installation. *)
LEMMA FreshIs ==
    Fresh \in Policies /\ Fresh.phase = "off" /\ Fresh.arm = 0
    /\ \A s \in Slots : Fresh.base[s] = None
  BY DowngradeAssumption DEF Fresh, Policies, Phases, Times

(* The invariant holds at first. *)
LEMMA CoreInit ==
    ASSUME Init
    PROVE  Core
  <1>1. PICK b \in DefaultsOnly : c = Restored(Fresh, b)
    BY DEF Init
  <1>2. /\ c \in Controllers /\ c.writes = <<>> /\ c.pol.phase = "off" /\ c.pol.arm = 0 /\ c.changing = FALSE
    BY <1>1, FreshIs, RestoredIs
  <1>3. MaxArms \in Nat /\ MaxTime \in Nat /\ Week \in Nat \ {0}
    BY DowngradeAssumption
  <1>4. used \in [Budgets -> Nat] /\ used.arms = 0 /\ used.arms \in 0..MaxArms
    BY <1>3 DEF Init, Budgets
  <1>5. Ctl(c, 0) /\ Num(disk, 0)
    BY <1>2, EmptyQueue, FreshIs DEF Ctl, Alone, Num, Init
  <1>6. TypeOK
    <2>1. /\ now \in Times /\ calls \in Nat /\ over \subseteq Arms /\ late \in BOOLEAN
          /\ slotKey \in [Slots -> Keys] /\ active \in Slots /\ disk \in Policies
      <3>1. /\ disk = Fresh /\ late = FALSE /\ over = {} /\ calls = 0 /\ now = 0
            /\ slotKey \in [Slots -> Keys] /\ active \in Slots
        BY DEF Init
      <3>2. 0 \in Times
        BY <1>3 DEF Times
      <3> QED BY <3>1, <3>2, FreshIs
    <2>2. quota \in [Keys -> [used : 0..1, reset : 0..MaxTime + Week]]
      BY <1>3 DEF Init
    <2>3. shown \in [Slots -> Readings \cup {None}] /\ sent \in [Arms -> Nat]
      BY DEF Init
    <2> QED BY <1>5, <2>1, <2>2, <2>3 DEF TypeOK, Ctl, Alone
  <1>7. Counted
    BY <1>4, <1>5 DEF Counted, Init
  <1>8. OneShot
    BY <1>2, EmptyQueue, FreshIs DEF OneShot, Once, Armed, Init
  <1> QED BY <1>6, <1>7, <1>8 DEF Core

(* Every step keeps the invariant, and sends as SentOnce says. *)
LEMMA CoreNext ==
    ASSUME Core, [Next]_vars
    PROVE  /\ Core'
           /\ ~late => \A a \in Arms : sent'[a] > sent[a] =>
                a \notin over /\ disk'.phase = "running" /\ disk'.arm = a
  <1>0. sent \in [Arms -> Nat]
    BY DEF Core, TypeOK
  <1>1. ASSUME NEW p \in Paths, NEW trigger \in Triggers, Arm(p, trigger)
        PROVE  Core' /\ sent' = sent
    BY <1>1, ArmKeeps DEF Arm, historyVars
  <1>2. CASE Disarm
    BY <1>0, <1>2, DisarmKeeps DEF Disarm, historyVars
  <1>3. CASE (\E p \in Paths : OnUiState(p) \/ Follow(p)) \/ TimerFires
    <2>1. sent' = sent
      BY <1>3 DEF OnUiState, Follow, TimerFires, historyVars
    <2> QED BY <1>0, <1>3, <2>1, HandlerKeeps
  <1>4. ASSUME NEW ok \in BOOLEAN, WriteDone(ok)
        PROVE  /\ Core'
               /\ ~late => \A a \in Arms : sent'[a] > sent[a] =>
                    a \notin over /\ disk'.phase = "running" /\ disk'.arm = a
    BY <1>4, WriteDoneKeeps
  <1>5. ASSUME NEW phase \in {"done", "failed"}, Answered(phase) PROVE Core' /\ sent' = sent
    BY <1>5, AnsweredKeeps DEF Answered, historyVars
  <1>6. CASE Restart
    BY <1>0, <1>6, RestartKeeps DEF Restart, historyVars
  <1>7. CASE World
    BY <1>0, <1>7, WorldKeeps
  <1>8. CASE UNCHANGED vars
    <2>1. UNCHANGED <<c, disk, calls, now, quota, slotKey, active, shown, resets, used, sent, over, late>>
      BY <1>8 DEF vars, envVars, historyVars
    <2> QED BY <1>0, <2>1 DEF Core, TypeOK, Counted, OneShot
  <1> QED BY <1>0, <1>1, <1>2, <1>3, <1>4, <1>5, <1>6, <1>7, <1>8 DEF Next

(* The invariant holds in every reachable state. *)
THEOREM CoreHolds == Spec => []Core
  <1>1. Init => Core
    BY CoreInit
  <1>2. Core /\ [Next]_vars => Core'
    BY CoreNext
  <1> QED BY <1>1, <1>2, PTL DEF Spec

(* TypeOK: the types, and that arm and disarm (codex_downgrade.dart) exclude each other. *)
THEOREM DowngradeTypes == Spec => []TypeOK
  <1>1. Core => TypeOK
    BY DEF Core
  <1> QED BY <1>1, CoreHolds, PTL

(* SentOnce: the settings of an arming are sent at most once, never after  *)
(* a saved disarm, and only with its claim stored.                         *)
THEOREM SentAtMostOnce == Spec => SentOnce
  <1>1. Core /\ [Next]_vars =>
          [~late => \A a \in Arms : sent'[a] > sent[a] =>
             a \notin over /\ disk'.phase = "running" /\ disk'.arm = a]_vars
    BY CoreNext
  <1> QED BY <1>1, CoreHolds, PTL DEF Spec, SentOnce
-----------------------------------------------------------------------------
(* The readings kept, and the quota they were taken of. *)

Stored(x, d, r) == Has(x, r) \/ \E s \in Slots : r = d.base[s]
Pool(r) == Stored(c, disk, r) \/ Seen(r)

(* Between the reading r and time t the account of r was reset, or what is *)
(* known of it at t, u, is no less used and (for Codex) resets no later.   *)
(* h: the resets of each account; u: a later reading or the quota itself.  *)
Kept(h, claude, r, u, t) ==
    \/ \E z \in h[r.key] : r.observed <= z /\ z <= t
    \/ /\ r.used = 1 => u.used = 1
       /\ ~claude => u.reset <= r.reset

(* Every reading kept anywhere agrees with the quota now. *)
Past == \A r \in Readings : Pool(r) =>
            r.observed <= now /\ Kept(resets, c.defaultsOnly, r, quota[r.key], now)
(* Two readings kept of one account agree with each other. *)
Pairs == \A r, q \in Readings :
            Pool(r) /\ Pool(q) /\ r.key = q.key /\ r.observed < q.observed =>
              Kept(resets, c.defaultsOnly, r, q, q.observed)
(* The inductive invariant of FiresOnlyOnReset. *)
Traced == resets \in [Keys -> SUBSET Nat] /\ Past /\ Pairs

(* A save added brings in no reading but the policy's. *)
LEMMA AddsHas ==
    ASSUME NEW x \in Controllers, NEW y, NEW who \in Writers, Adds(x, y, who), NEW r, Has(y, r)
    PROVE  Has(x, r) \/ \E s \in Slots : r = y.pol.base[s]
  BY AddsIs DEF Has

(* No action of the controller makes up a reading. *)
LEMMA NothingNew ==
    ASSUME Core, Core', [Next]_vars, ~World, NEW r, Stored(c', disk', r)
    PROVE  Pool(r)
  <1>1. ASSUME NEW p \in Paths, NEW trigger \in Triggers, Arm(p, trigger) PROVE Pool(r)
    <2>1. disk' = disk /\ Spend("arms", MaxArms) /\ "arms" \in Budgets
      BY <1>1 DEF Arm, Budgets
    <2>2. used.arms \in Nat /\ used.arms < MaxArms
      BY <2>1, CoreIs, SpendIs
    <2>3. Adds(c, c', "arm") /\ c'.pol.base = shown /\ "arm" \in Writers
      BY <1>1, <2>2, CoreIs, ArmIs DEF Writers
    <2>4. Has(c', r) => Has(c, r) \/ \E s \in Slots : r = shown[s]
      BY <2>3, CoreIs, AddsHas
    <2> QED BY <2>1, <2>4 DEF Stored, Pool, Seen
  <1>2. CASE Disarm
    <2>1. disk' = disk
      BY <1>2 DEF Disarm
    <2>3. Adds(c, c', "disarm") /\ c'.pol.base = c.pol.base /\ "disarm" \in Writers
      BY <1>2, CoreIs, DisarmIs DEF Writers
    <2>4. Has(c', r) => Has(c, r) \/ \E s \in Slots : r = c.pol.base[s]
      BY <2>3, CoreIs, AddsHas
    <2> QED BY <2>1, <2>4 DEF Stored, Pool, Has
  <1>3. CASE (\E p \in Paths : OnUiState(p) \/ Follow(p)) \/ TimerFires
    <2>1. disk' = disk
      BY <1>3 DEF OnUiState, Follow, TimerFires
    <2>2. Moves(c, c')
      BY <1>3, CoreIs, HandlerMoves
    <2> QED BY <2>1, <2>2, CoreIs, MovesHas DEF Stored, Pool
  <1>4. ASSUME NEW ok \in BOOLEAN, WriteDone(ok) PROVE Pool(r)
    <2> DEFINE w == c.writes[1]
    <2>1. disk' = IF ok THEN w.snap ELSE disk
      BY <1>4, CoreIs, DoneIs
    <2>2. PICK y : Popped(c, y) /\ (c' = y \/ Moves(y, c') \/ (Adds(y, c', "final") /\ c'.pol = y.pol))
      BY <1>4, CoreIs, DoneIs DEF Waits
    <2>3. y \in Controllers /\ 1 \in DOMAIN c.writes
      BY <2>2, CoreIs, PoppedIs DEF Popped
    <2>4. Has(c', r) => Has(y, r) \/ Seen(r)
      <3>1. CASE Moves(y, c')
        BY <2>3, <3>1, MovesHas
      <3>2. CASE Adds(y, c', "final") /\ c'.pol = y.pol
        <4>1. "final" \in Writers
          BY DEF Writers
        <4>2. Has(c', r) => Has(y, r) \/ \E s \in Slots : r = c'.pol.base[s]
          BY <2>3, <3>2, <4>1, AddsHas
        <4>3. (\E s \in Slots : r = c'.pol.base[s]) => Has(y, r)
          BY <3>2 DEF Has
        <4> QED BY <4>2, <4>3
      <3> QED BY <2>2, <3>1, <3>2
    <2>5. Has(y, r) => Has(c, r)
      BY <2>2, CoreIs, PoppedHas
    <2> QED BY <2>1, <2>3, <2>4, <2>5 DEF Stored, Pool, Has
  <1>5. ASSUME NEW phase \in {"done", "failed"}, Answered(phase) PROVE Pool(r)
    <2>1. disk' = disk
      BY <1>5 DEF Answered
    <2>3. Adds(c, c', "final") /\ c'.pol.base = c.pol.base /\ "final" \in Writers
      BY <1>5, CoreIs, AnsweredIs DEF Writers
    <2>4. Has(c', r) => Has(c, r) \/ \E s \in Slots : r = c.pol.base[s]
      BY <2>3, CoreIs, AddsHas
    <2> QED BY <2>1, <2>4 DEF Stored, Pool, Has
  <1>6. CASE Restart
    <2>1. /\ disk' \in Policies /\ c' = Restored(disk', c.defaultsOnly)
          /\ disk' = disk \/ (1 \in DOMAIN c.writes /\ disk' = c.writes[1].snap)
      BY <1>6, CoreIs, RestartIs
    <2>2. c'.pol.base = disk'.base /\ c'.writes = <<>>
      BY <2>1, CoreIs, RestoredIs
    <2>3. Stored(c', disk', r) => \E s \in Slots : r = disk'.base[s]
      BY <2>2, EmptyQueue DEF Stored, Has
    <2> QED BY <2>1, <2>3 DEF Stored, Pool, Has
  <1>7. CASE UNCHANGED vars
    BY <1>7 DEF vars, Pool
  <1> QED BY <1>1, <1>2, <1>3, <1>4, <1>5, <1>6, <1>7 DEF Next

(* A controller stays the one of Codex or of Claude. *)
LEMMA ClaudeStays ==
    ASSUME Core, [Next]_vars
    PROVE  c'.defaultsOnly = c.defaultsOnly
  <1>1. ASSUME NEW p \in Paths, NEW trigger \in Triggers, Arm(p, trigger)
        PROVE  c'.defaultsOnly = c.defaultsOnly
    <2>1. Spend("arms", MaxArms) /\ "arms" \in Budgets
      BY <1>1 DEF Arm, Budgets
    <2>2. used.arms \in Nat /\ used.arms < MaxArms
      BY <2>1, CoreIs, SpendIs
    <2> QED BY <1>1, <2>2, CoreIs, ArmIs
  <1>2. CASE Disarm
    BY <1>2, CoreIs, DisarmIs
  <1>3. CASE (\E p \in Paths : OnUiState(p) \/ Follow(p)) \/ TimerFires
    BY <1>3, CoreIs, HandlerMoves DEF Moves
  <1>4. ASSUME NEW ok \in BOOLEAN, WriteDone(ok) PROVE c'.defaultsOnly = c.defaultsOnly
    BY <1>4, CoreIs, DoneIs DEF Waits, Moves, Popped
  <1>5. ASSUME NEW phase \in {"done", "failed"}, Answered(phase)
        PROVE  c'.defaultsOnly = c.defaultsOnly
    BY <1>5, CoreIs, AnsweredIs
  <1>6. CASE Restart
    <2>1. disk' \in Policies /\ c' = Restored(disk', c.defaultsOnly) /\ c.defaultsOnly \in DefaultsOnly
      BY <1>6, CoreIs, RestartIs
    <2> QED BY <2>1, RestoredIs
  <1>7. CASE World
    BY <1>7, WorldKeeps
  <1>8. CASE UNCHANGED vars
    BY <1>8 DEF vars
  <1> QED BY <1>1, <1>2, <1>3, <1>4, <1>5, <1>6, <1>7, <1>8 DEF Next

(* Later, and with more resets known, what was kept is kept. *)
LEMMA KeptMore ==
    ASSUME NEW h, NEW g, NEW claude, NEW r, NEW u, NEW t \in Nat, NEW v \in Nat, t <= v,
           h[r.key] \subseteq g[r.key], g[r.key] \subseteq Nat, r.observed \in Nat, Kept(h, claude, r, u, t)
    PROVE  Kept(g, claude, r, u, v)
  BY DEF Kept

(* The types of readings and quotas. *)
LEMMA ReadingIs ==
    ASSUME Core
    PROVE  /\ \A r \in Readings : /\ r.used \in 0..1 /\ r.reset \in Nat /\ r.observed \in Nat
                                  /\ r.key \in Keys
           /\ now \in Nat /\ \A k \in Keys : quota[k].used \in 0..1 /\ quota[k].reset \in Nat
           /\ quota \in [Keys -> [used : 0..1, reset : 0..MaxTime + Week]]
           /\ slotKey \in [Slots -> Keys] /\ active \in Slots
  <1>1. MaxTime \in Nat /\ Week \in Nat
    BY CoreIs
  <1>2. quota \in [Keys -> [used : 0..1, reset : 0..MaxTime + Week]] /\ now \in Times
        /\ slotKey \in [Slots -> Keys] /\ active \in Slots
    BY DEF Core, TypeOK
  <1> QED BY <1>1, <1>2 DEF Readings, Times

(* The controller's steps keep Traced: they make up no reading and change no quota. *)
LEMMA TracedByOurs ==
    ASSUME Core, Core', Traced, [Next]_vars, ~World
    PROVE  Traced'
  <1>1. UNCHANGED <<now, quota, resets, shown>>
    BY DEF Next, Arm, Disarm, OnUiState, Follow, TimerFires, WriteDone, Answered, Restart, vars, envVars
  <1>2. \A r : Stored(c', disk', r) \/ Seen(r) => Pool(r)
    BY NothingNew DEF Pool
  <1>3. \A r : Pool(r)' => Pool(r)
    BY <1>1, <1>2 DEF Pool, Seen
  <1>4. c'.defaultsOnly = c.defaultsOnly
    BY ClaudeStays
  <1> QED BY <1>1, <1>3, <1>4 DEF Traced, Past, Pairs

(* The world's steps keep Traced: a reset is recorded, a drift concerns    *)
(* Claude only, and a new reading is later than all others and shows the   *)
(* quota itself.                                                           *)
LEMMA TracedByWorld ==
    ASSUME Core, Core', Traced, World
    PROVE  Traced'
  <1>1. UNCHANGED <<c, disk>>
    BY WorldKeeps
  <1>2. ASSUME shown' = shown, now' \in Nat, now <= now', resets' \in [Keys -> SUBSET Nat],
               \A k \in Keys : resets[k] \subseteq resets'[k],
               \A r \in Readings : r.observed <= now /\ Kept(resets, c.defaultsOnly, r, quota[r.key], now) =>
                  Kept(resets', c.defaultsOnly, r, quota'[r.key], now')
        PROVE  Traced'
    <2>1. \A r : Pool(r)' <=> Pool(r)
      BY <1>1, <1>2 DEF Pool, Seen
    <2>2. Past'
      BY <1>1, <1>2, <2>1, ReadingIs DEF Traced, Past
    <2>3. Pairs'
      <3> SUFFICES ASSUME NEW r \in Readings, NEW q \in Readings, Pool(r), Pool(q),
                          r.key = q.key, r.observed < q.observed
                   PROVE  Kept(resets', c.defaultsOnly, r, q, q.observed)
        BY <1>1, <2>1 DEF Pairs
      <3>1. Kept(resets, c.defaultsOnly, r, q, q.observed)
        BY DEF Traced, Pairs
      <3>2. q.observed \in Nat /\ r.observed \in Nat /\ r.key \in Keys
        BY ReadingIs
      <3> QED BY <1>2, <3>1, <3>2, KeptMore
    <2> QED BY <1>2, <2>2, <2>3 DEF Traced
  <1>3. resets \in [Keys -> SUBSET Nat]
    BY DEF Traced
  <1>4. CASE Tick
    <2>1. UNCHANGED <<shown, quota, resets>> /\ now' = now + 1
      BY <1>4 DEF Tick, envVars
    <2>2. now' \in Nat /\ now <= now' /\ now \in Nat
      BY <2>1, ReadingIs
    <2>3. ASSUME NEW r \in Readings, Kept(resets, c.defaultsOnly, r, quota[r.key], now)
          PROVE  Kept(resets, c.defaultsOnly, r, quota[r.key], now')
      BY <1>3, <2>2, <2>3, ReadingIs, KeptMore
    <2> QED BY <1>2, <1>3, <2>1, <2>2, <2>3
  <1>5. ASSUME NEW k \in Keys, UseQuota(k) PROVE Traced'
    <2>1. UNCHANGED <<shown, now, resets>> /\ quota' = [quota EXCEPT ![k].used = 1]
      BY <1>5 DEF UseQuota
    <2>2. \A j \in Keys : quota'[j].reset = quota[j].reset /\ (quota[j].used = 1 => quota'[j].used = 1)
      BY <2>1, ReadingIs
    <2>3. ASSUME NEW r \in Readings, Kept(resets, c.defaultsOnly, r, quota[r.key], now)
          PROVE  Kept(resets, c.defaultsOnly, r, quota'[r.key], now)
      BY <2>2, <2>3, ReadingIs DEF Kept
    <2>8. \A r \in Readings : r.observed <= now /\ Kept(resets, c.defaultsOnly, r, quota[r.key], now) =>
                  Kept(resets', c.defaultsOnly, r, quota'[r.key], now')
      BY <2>1, <2>3
    <2>9. now' \in Nat /\ now <= now' /\ resets' \in [Keys -> SUBSET Nat]
          /\ \A j \in Keys : resets[j] \subseteq resets'[j]
      BY <1>3, <2>1, ReadingIs
    <2> QED BY <1>2, <2>1, <2>8, <2>9
  <1>6. ASSUME NEW k \in Keys, ResetQuota(k) PROVE Traced'
    <2>1. /\ UNCHANGED <<shown, now>> /\ quota' = [quota EXCEPT ![k] = [used |-> 0, reset |-> now + Week]]
          /\ resets' = [resets EXCEPT ![k] = @ \cup {now}]
      BY <1>6 DEF ResetQuota
    <2>2. resets' \in [Keys -> SUBSET Nat] /\ \A j \in Keys : resets[j] \subseteq resets'[j]
      BY <1>3, <2>1, ReadingIs
    <2>3. ASSUME NEW r \in Readings, r.observed <= now,
                 Kept(resets, c.defaultsOnly, r, quota[r.key], now)
          PROVE  Kept(resets', c.defaultsOnly, r, quota'[r.key], now)
      <3>1. CASE r.key = k
        <4>1. now \in resets'[r.key] /\ now \in Nat
          BY <1>3, <2>1, <3>1, ReadingIs
        <4> QED BY <2>3, <4>1 DEF Kept
      <3>2. CASE r.key # k
        <4>1. quota'[r.key] = quota[r.key] /\ resets'[r.key] = resets[r.key]
          BY <1>3, <2>1, <3>2, ReadingIs
        <4> QED BY <2>3, <4>1 DEF Kept
      <3> QED BY <3>1, <3>2
    <2>8. \A r \in Readings : r.observed <= now /\ Kept(resets, c.defaultsOnly, r, quota[r.key], now) =>
                  Kept(resets', c.defaultsOnly, r, quota'[r.key], now')
      BY <2>1, <2>3
    <2>9. now' \in Nat /\ now <= now' /\ resets' \in [Keys -> SUBSET Nat]
          /\ \A j \in Keys : resets[j] \subseteq resets'[j]
      BY <1>3, <2>1, <2>2, ReadingIs
    <2> QED BY <1>2, <2>1, <2>8, <2>9
  <1>7. ASSUME NEW k \in Keys, Drift(k) PROVE Traced'
    <2>1. /\ UNCHANGED <<shown, now, resets>> /\ quota' = [quota EXCEPT ![k].reset = now + Week]
          /\ c.defaultsOnly
      BY <1>7 DEF Drift
    <2>2. \A j \in Keys : quota'[j].used = quota[j].used
      BY <2>1, ReadingIs
    <2>3. ASSUME NEW r \in Readings, Kept(resets, c.defaultsOnly, r, quota[r.key], now)
          PROVE  Kept(resets, c.defaultsOnly, r, quota'[r.key], now)
      BY <2>1, <2>2, <2>3, ReadingIs DEF Kept
    <2>8. \A r \in Readings : r.observed <= now /\ Kept(resets, c.defaultsOnly, r, quota[r.key], now) =>
                  Kept(resets', c.defaultsOnly, r, quota'[r.key], now')
      BY <2>1, <2>3
    <2>9. now' \in Nat /\ now <= now' /\ resets' \in [Keys -> SUBSET Nat]
          /\ \A j \in Keys : resets[j] \subseteq resets'[j]
      BY <1>3, <2>1, ReadingIs
    <2> QED BY <1>2, <2>1, <2>8, <2>9
  <1>8. ASSUME NEW s \in Slots, SwitchAccount(s) \/ \E k \in Keys : ReplaceCredentials(s, k)
        PROVE  Traced'
    <2>1. UNCHANGED <<shown, now, resets, quota>>
      BY <1>8 DEF SwitchAccount, ReplaceCredentials
    <2> QED BY <1>2, <1>3, <2>1, ReadingIs
  <1>9. ASSUME NEW s \in Slots, Fetch(s) PROVE Traced'
    <2> DEFINE k == slotKey[s]
               f == [used |-> quota[k].used, reset |-> quota[k].reset, observed |-> now, key |-> k]
    <2>1. UNCHANGED <<now, quota, resets>> /\ shown' = [shown EXCEPT ![s] = f]
      BY <1>9 DEF Fetch
    <2>2. /\ k \in Keys /\ f.used = quota[k].used /\ f.reset = quota[k].reset /\ f.observed = now
          /\ f.key = k /\ quota[k].used \in 0..1 /\ quota[k].reset \in Nat /\ now \in Nat
      BY ReadingIs
    <2> HIDE DEF f, k
    <2>3. \A r : Pool(r)' => Pool(r) \/ r = f
      BY <1>1, <2>1, CoreIs DEF Pool, Seen, Bases
    <2>4. Kept(resets, c.defaultsOnly, f, quota[f.key], now)
      BY <2>2 DEF Kept
    <2>5. Past'
      BY <1>1, <2>1, <2>2, <2>3, <2>4 DEF Traced, Past
    <2>6. ASSUME NEW r \in Readings, NEW q \in Readings, Pool(r)', Pool(q)', r.key = q.key,
                 r.observed < q.observed
          PROVE  Kept(resets, c.defaultsOnly, r, q, q.observed)
      <3>1. r # f
        <4>1. q.observed <= now
          BY <2>1, <2>5, <2>6 DEF Past
        <4> QED BY <2>2, <2>6, <4>1, ReadingIs
      <3>2. Pool(r)
        BY <2>3, <2>6, <3>1
      <3>3. CASE Pool(q)
        BY <2>6, <3>2, <3>3 DEF Traced, Pairs
      <3>4. CASE q = f
        <4>1. Kept(resets, c.defaultsOnly, r, quota[r.key], now)
          BY <3>2 DEF Traced, Past
        <4> QED BY <2>2, <2>6, <3>4, <4>1 DEF Kept
      <3> QED BY <2>3, <2>6, <3>3, <3>4
    <2> QED BY <1>1, <1>3, <2>1, <2>5, <2>6 DEF Traced, Pairs
  <1> QED BY <1>4, <1>5, <1>6, <1>7, <1>8, <1>9 DEF World

(* What a begin by the reset trigger has seen. *)
LEMMA BeginsBy ==
    ASSUME Core, Next, Begins, c.pol.trigger = "reset"
    PROVE  \E s \in Slots : IsNews(c, s) /\ ShowsReset(c, s)
  <1>0. c.pol.phase = "armed" /\ c'.pol.phase = "running" /\ c \in Controllers
    BY CoreIs DEF Begins, Armed
  <1>1. ASSUME NEW p \in Paths, OnUiState(p) PROVE \E s \in Slots : IsNews(c, s) /\ ShowsReset(c, s)
    <2> DEFINE y == Observed(c, p)
    <2>1. c' = Followed(y, p)
      BY <1>1 DEF OnUiState
    <2>2. /\ Moves(c, y) /\ y.pol.trigger = "reset"
          /\ y.pol.phase = "running" => \E s \in Slots : IsNews(c, s) /\ ShowsReset(c, s)
      BY <1>0, CoreIs, ObservedIs DEF Begins
    <2> HIDE DEF y
    <2>3. c'.pol = y.pol
      BY <2>1, <2>2, FollowedSame DEF Moves
    <2> QED BY <1>0, <2>2, <2>3
  <1>2. ASSUME NEW p \in Paths, Follow(p) PROVE FALSE
    BY <1>0, <1>2, FollowedSame DEF Follow
  <1>3. CASE TimerFires
    <2> DEFINE y == [c EXCEPT !.timer = FALSE]
    <2>1. c' = CheckDeadline(y)
      BY <1>3 DEF TimerFires
    <2>2. y.pol = c.pol
      BY <1>0 DEF Controllers
    <2> HIDE DEF y
    <2>3. CheckDeadline(y) = y
      BY <2>2 DEF CheckDeadline
    <2> QED BY <1>0, <2>1, <2>2, <2>3
  <1>4. ASSUME NEW ok \in BOOLEAN, WriteDone(ok) PROVE FALSE
    <2>1. PICK y : /\ Popped(c, y)
                   /\ y.pol.phase \in {c.pol.phase, "off", "failed"}
                   /\ c' = y \/ Waits(y, c') \/ c'.pol = y.pol
      BY <1>0, <1>4, DoneIs DEF Popped
    <2>2. y.pol.trigger = "reset"
      BY <2>1 DEF Popped
    <2> QED BY <1>0, <2>1, <2>2 DEF Waits
  <1>5. ASSUME NEW p \in Paths, NEW trigger \in Triggers, Arm(p, trigger) PROVE FALSE
    <2>1. Spend("arms", MaxArms) /\ "arms" \in Budgets
      BY <1>5 DEF Arm, Budgets
    <2>2. used.arms \in Nat /\ used.arms < MaxArms
      BY <2>1, CoreIs, SpendIs
    <2> QED BY <1>0, <1>5, <2>2, CoreIs, ArmIs
  <1>6. CASE Disarm
    BY <1>0, <1>6, DisarmIs
  <1>7. ASSUME NEW phase \in {"done", "failed"}, Answered(phase) PROVE FALSE
    BY <1>0, <1>7, AnsweredIs
  <1>8. CASE Restart
    <2>1. disk' \in Policies /\ c' = Restored(disk', c.defaultsOnly) /\ c.defaultsOnly \in DefaultsOnly
      BY <1>8, CoreIs, RestartIs
    <2> QED BY <1>0, <2>1, RestoredIs
  <1>9. CASE World
    BY <1>0, <1>9, WorldKeeps
  <1> QED BY <1>1, <1>2, <1>3, <1>4, <1>5, <1>6, <1>7, <1>8, <1>9 DEF Next

(* The step that FiresOnlyOnReset allows. *)
Fires ==
    Begins /\ c.pol.trigger = "reset" =>
      LET usage == shown[active]  previous == c.pol.base[active] IN
        \/ \E t \in resets[usage.key] : previous.observed <= t /\ t <= usage.observed
        \/ c.defaultsOnly /\ previous.reset <= usage.observed

(* A step fires the reset trigger only on a reset. *)
LEMMA FiresIs ==
    ASSUME Core, Traced, Next
    PROVE  Fires
  <1> SUFFICES ASSUME Begins, c.pol.trigger = "reset"
               PROVE  \/ \E t \in resets[shown[active].key] :
                           c.pol.base[active].observed <= t /\ t <= shown[active].observed
                      \/ c.defaultsOnly /\ c.pol.base[active].reset <= shown[active].observed
    BY DEF Fires
  <1> DEFINE u == shown[active]
             v == c.pol.base[active]
  <1>1. PICK s \in Slots : IsNews(c, s) /\ ShowsReset(c, s)
    BY BeginsBy
  <1>2. /\ s = active /\ active \in Slots /\ u # None /\ v # None /\ u.observed > v.observed
        /\ u.used = 0 /\ v.key = u.key
        /\ \/ v.used > 0
           \/ u.reset > v.reset /\ (c.defaultsOnly => v.reset <= u.observed)
    BY <1>1 DEF IsNews, ShowsReset
  <1>3. u \in Readings /\ v \in Readings
    <2>1. c.pol.base \in Bases /\ shown \in Bases
      BY CoreIs, PolicyIs
    <2> QED BY <1>2, <2>1 DEF Bases
  <1>4. Pool(u) /\ Pool(v)
    BY <1>2 DEF Pool, Seen, Stored, Has
  <1> HIDE DEF u, v
  <1>5. v.observed \in Nat /\ u.observed \in Nat /\ u.reset \in Nat /\ v.reset \in Nat
        /\ v.used \in 0..1
    BY <1>3, ReadingIs
  <1>6. Kept(resets, c.defaultsOnly, v, u, u.observed)
    BY <1>2, <1>3, <1>4, <1>5 DEF Traced, Pairs
  <1>7. \/ \E t \in resets[u.key] : v.observed <= t /\ t <= u.observed
        \/ c.defaultsOnly /\ v.reset <= u.observed
    BY <1>2, <1>5, <1>6 DEF Kept
  <1> QED BY <1>7 DEF u, v

(* At first there are no readings. *)
LEMMA TracedInit ==
    ASSUME Init
    PROVE  Traced
  <1>0. Core
    BY CoreInit
  <1>1. PICK b \in DefaultsOnly : c = Restored(Fresh, b)
    BY DEF Init
  <1>2. c.writes = <<>> /\ \A s \in Slots : c.pol.base[s] = None
    BY <1>1, FreshIs, RestoredIs
  <1>3. \A s \in Slots : disk.base[s] = None /\ shown[s] = None
    BY FreshIs DEF Init
  <1>4. \A r : Pool(r) => r = None
    BY <1>2, <1>3, EmptyQueue DEF Pool, Stored, Has, Seen
  <1>5. None \notin Readings
    BY DEF None, Readings
  <1>6. resets \in [Keys -> SUBSET Nat]
    BY DEF Init
  <1> QED BY <1>4, <1>5, <1>6 DEF Traced, Past, Pairs

(* Every step keeps Traced. *)
LEMMA TracedNext ==
    ASSUME Core, Core', Traced, [Next]_vars
    PROVE  Traced'
  BY TracedByOurs, TracedByWorld

(* FiresOnlyOnReset: observe (codex_downgrade.dart) begins only when the   *)
(* quota of the active account was reset between the two readings          *)
(* compared, or, for Claude, when the earlier window had reached its end.  *)
THEOREM FiresOnReset == Spec => FiresOnlyOnReset
  <1>1. Init => Traced
    BY TracedInit
  <1>2. Core /\ Core' /\ Traced /\ [Next]_vars => Traced'
    BY TracedNext
  <1>3. Core /\ Traced /\ [Next]_vars => [Fires]_vars
    BY FiresIs
  <1> QED BY <1>1, <1>2, <1>3, CoreHolds, PTL DEF Spec, FiresOnlyOnReset, Fires
=============================================================================
