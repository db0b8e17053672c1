-------------------------- MODULE WhiteboardProofs --------------------------
(***************************************************************************)
(* Proofs about Whiteboard, for any writers, windows, folders, copies,     *)
(* limits and budgets: the board the writers keep is the abstract one, and *)
(* what the windows and the writers do to the same folders agrees.         *)
(***************************************************************************)
EXTENDS Whiteboard, FiniteSetTheorems, SequenceTheorems, WellFoundedInduction, TLAPS

-----------------------------------------------------------------------------
(* Types. *)

Post == [id : Nat, folder : Folders \cup {NoOne}, text : Nat]

Deciding == {"refused", "begin"}
Cleaning == {"cleaning", "listing", "deleting", "empty"}
AtFolder == {"listing", "deleting", "empty"}
Holding == {"locked", "edited"} \cup Cleaning
Writer == [at : {"idle"} \cup Deciding \cup Holding, req : Requests \cup {Pruning},
           by : Windows \cup {NoOne}, out : Seq(Post), todo : SUBSET Folders,
           scanned : BOOLEAN, cur : Folders \cup {NoOne}, rest : SUBSET Files]

Folder == [dir : BOOLEAN, marker : {"none", "live", "retired"}, lease : BOOLEAN,
           files : SUBSET Files, owned : SUBSET Copies]

Early == {"mark", "validate", "lease"}
Late == {"reserve", "copy", "manifest", "readme", "run"}
Window == [at : {"idle", "check", "wait", "unlease"} \cup Early \cup Late,
           op : {"none", "create", "drop", "save", "add", "remove", "failed"},
           folder : Folders \cup {NoOne}, owned : SUBSET Copies, new : Copies \cup {NoOne}]

Budget == [tasks : Nat, kills : Nat, exits : Nat, fails : Nat, holds : Nat]

TypeOK ==
    /\ board \in Seq(Post)
    /\ lock \in BOOLEAN
    /\ drops \in [Folders -> Folder]
    /\ proc \in [Procs -> Writer]
    /\ win \in [Windows -> Window]
    /\ names \subseteq Folders \cup Copies
    /\ left \in Budget
    /\ asked \subseteq Requests /\ done \subseteq asked

(* What a step relies on: a writer cleans a folder, a request names the    *)
(* folder of its input, a task works in one, and an add has a copy to make.*)
Names(q) == IF q.op \in {"drop", "replace", "remove"} THEN q.folder \in Folders ELSE q.folder = NoOne
Placed ==
    /\ \A p \in Procs : proc[p].at \in AtFolder => proc[p].cur \in Folders
    /\ \A p \in Procs : Names(proc[p].req) /\ proc[p].req \in asked \cup {Pruning}
    /\ \A w \in Windows : /\ win[w].at # "idle" => win[w].folder \in Folders
                          /\ win[w].op = "add" => win[w].new \in Copies \/ win[w].at = "unlease"
                          /\ win[w].at \in {"reserve", "copy"} => win[w].op = "add"
                          /\ win[w].at = "idle" => win[w].op = "none"

(* Each task asks for at most one request, so the ids last.                *)
Owing == {w \in Windows : win[w].at \in {"check"} \cup Early \cup Late}
Counted ==
    /\ IsFiniteSet(asked) /\ IsFiniteSet(Owing)
    /\ Cardinality(asked) + Cardinality(Owing) + left.tasks <= MaxTasks
    /\ \A q \in asked : q.id <= MaxLegacy + Cardinality(asked)

TypeInv == TypeOK /\ Placed /\ Counted

(* A task of window w has left its work.                                   *)
Left(w) ==
    /\ win' \in [Windows -> Window]
    /\ \A v \in Windows \ {w} : win'[v] = win[v]
    /\ win[w].op \in Leased =>
          win'[w].at = "unlease" /\ win'[w].folder = win[w].folder
          /\ win'[w].op \in {win[w].op, "failed"} /\ win'[w].new = NoOne
    /\ win[w].op \notin Leased =>
          win'[w].at = "idle" /\ win'[w].op = "none" /\ win'[w].folder \in {win[w].folder, NoOne}

(* Leave(w, ok), field by field. *)
LEMMA LeaveLeaves ==
    ASSUME TypeOK, NEW w \in Windows, NEW ok \in BOOLEAN, Leave(w, ok)
    PROVE  Left(w)
  <1> DEFINE W == win[w]
             L == [W EXCEPT !.at = "unlease", !.new = NoOne,
                            !.op = IF W.op = "create" /\ ~ok THEN "failed" ELSE W.op,
                            !.owned = IF ok THEN W.owned \cup ({W.new} \ {NoOne}) ELSE W.owned]
             S == [W EXCEPT !.at = "idle", !.op = "none"]
  <1>1. win \in [Windows -> Window] /\ W \in Window
    BY DEF TypeOK
  <1>2. L \in Window /\ L.at = "unlease" /\ L.folder = W.folder /\ L.op \in {W.op, "failed"}
        /\ L.new = NoOne
    BY <1>1 DEF Window
  <1>3. S \in Window /\ S.at = "idle" /\ S.op = "none" /\ S.folder = W.folder
    BY <1>1 DEF Window
  <1>4. Blank \in Window /\ Blank.at = "idle" /\ Blank.op = "none" /\ Blank.folder = NoOne
    BY DEF Blank, Window
  <1>5. /\ W.op \in Leased => win' = [win EXCEPT ![w] = L]
        /\ W.op \notin Leased => win' = [win EXCEPT ![w] = S] \/ win' = [win EXCEPT ![w] = Blank]
    <2> DEFINE C == CASE W.op \in Leased -> L
                      [] W.op = "remove" /\ ~ok -> S
                      [] OTHER -> Blank
    <2>1. win' = [win EXCEPT ![w] = C]
      BY DEF Leave
    <2>2. "remove" \notin Leased
      BY DEF Leased
    <2>3. W.op \in Leased => C = L
      BY <2>2
    <2>4. W.op \notin Leased => C = S \/ C = Blank
      OBVIOUS
    <2> QED BY <2>1, <2>3, <2>4
  <1> HIDE DEF W, L, S
  <1>6. W = win[w]
    BY DEF W
  <1> QED BY <1>1, <1>2, <1>3, <1>4, <1>5, <1>6 DEF Left

(* A writer process has ended.                                             *)
Ended(p) == /\ proc' = [proc EXCEPT ![p] = Idle]
            /\ \/ UNCHANGED win
               \/ proc[p].by \in Windows /\ Left(proc[p].by)

(* End(p, ok), field by field. *)
LEMMA EndEnds ==
    ASSUME TypeOK, NEW p \in Procs, NEW ok \in BOOLEAN, End(p, ok)
    PROVE  Ended(p)
  <1>1. proc[p].by \in Windows \cup {NoOne}
    BY DEF TypeOK, Writer
  <1> QED BY <1>1, LeaveLeaves DEF End, Ended

(* An idle writer holds nothing and is of the type. *)
LEMMA IdleType == Idle \in Writer /\ Idle.at = "idle" /\ Idle.req = Pruning /\ Idle.by = NoOne
                  /\ Idle.cur = NoOne /\ Idle.todo = {}
  BY DEF Idle, Writer

\* What happens to one folder only; and what a write cut short leaves there.
Rest(f) == \A g \in Folders \ {f} : drops'[g] = drops[g]
Halved(w) ==
    LET f == win[w].folder
    IN \/ UNCHANGED drops
       \/ /\ f \in Folders /\ win[w].at \in Late /\ Rest(f)
          /\ drops'[f].marker = drops[f].marker /\ drops'[f].dir = drops[f].dir
          /\ drops'[f].lease = drops[f].lease /\ drops'[f].owned = drops[f].owned
          /\ drops[f].files \subseteq drops'[f].files
          /\ drops'[f].files \subseteq drops[f].files \cup {Torn, Readme}
                \cup (IF win[w].at = "copy" THEN {win[w].new} ELSE {})

(* CutShort(w), field by field. *)
LEMMA CutShortHalves ==
    ASSUME TypeOK, Placed, NEW w \in Windows, CutShort(w), win[w].at # "idle"
    PROVE  Halved(w) /\ drops' \in [Folders -> Folder]
  <1> DEFINE f == win[w].folder
             D == drops[f]
  <1>1. f \in Folders /\ D \in Folder /\ drops \in [Folders -> Folder]
    BY DEF TypeOK, Placed
  <1>2. PICK part \in SUBSET Half(w) : drops' = [drops EXCEPT ![f].files = @ \cup part]
    BY DEF CutShort
  <1>3. win[w].at = "copy" => win[w].new \in Copies
    BY DEF Placed
  <1>4. /\ Half(w) \subseteq {Torn, Readme} \cup (IF win[w].at = "copy" THEN {win[w].new} ELSE {})
        /\ Half(w) # {} => win[w].at \in Late
    BY DEF Half, Late
  <1>5. part \subseteq Files
    BY <1>2, <1>3, <1>4 DEF Files
  <1> DEFINE d == [D EXCEPT !.files = D.files \cup part]
  <1>6. /\ d \in Folder /\ d.files = D.files \cup part /\ d.marker = D.marker /\ d.dir = D.dir
        /\ d.lease = D.lease /\ d.owned = D.owned
    BY <1>1, <1>5 DEF Folder
  <1>7. drops' = [drops EXCEPT ![f] = d]
    BY <1>1, <1>2
  <1> HIDE DEF d
  <1>8. drops' \in [Folders -> Folder] /\ drops'[f] = d /\ Rest(f)
    BY <1>1, <1>6, <1>7 DEF Rest
  <1>9. CASE part = {}
    <2>1. drops' = drops
      BY <1>1, <1>2, <1>9 DEF Folder
    <2> QED BY <1>8, <2>1 DEF Halved
  <1>10. CASE part # {}
    <2>1. win[w].at \in Late
      BY <1>2, <1>4, <1>10
    <2> QED BY <1>1, <1>2, <1>4, <1>6, <1>8, <2>1 DEF Halved
  <1> QED BY <1>9, <1>10

(* The parts of the types a step touches.                                  *)
WritersOK == /\ proc \in [Procs -> Writer]
             /\ \A p \in Procs : proc[p].at \in AtFolder => proc[p].cur \in Folders
             /\ \A p \in Procs : Names(proc[p].req) /\ proc[p].req \in asked \cup {Pruning}
WindowsOK == /\ win \in [Windows -> Window]
             /\ \A w \in Windows : /\ win[w].at # "idle" => win[w].folder \in Folders
                                   /\ win[w].op = "add" => win[w].new \in Copies \/ win[w].at = "unlease"
                                   /\ win[w].at \in {"reserve", "copy"} => win[w].op = "add"
                                   /\ win[w].at = "idle" => win[w].op = "none"

(* A step that changes one writer record keeps the writers' type. *)
LEMMA OneWriter ==
    ASSUME WritersOK, NEW p \in Procs, NEW r \in Writer, proc' = [proc EXCEPT ![p] = r],
           r.at \in AtFolder => r.cur \in Folders,
           Names(r.req), r.req \in asked' \cup {Pruning}, asked \subseteq asked'
    PROVE  WritersOK'
  BY DEF WritersOK, Names

(* A step that changes one window record keeps the windows' type. *)
LEMMA OneWindow ==
    ASSUME WindowsOK, NEW w \in Windows, NEW r \in Window, win' = [win EXCEPT ![w] = r],
           r.at # "idle" => r.folder \in Folders,
           r.op = "add" => r.new \in Copies \/ r.at = "unlease",
           r.at \in {"reserve", "copy"} => r.op = "add",
           r.at = "idle" => r.op = "none"
    PROVE  WindowsOK'
  BY DEF WindowsOK

(* A window that leaves its operation keeps its type. *)
LEMMA LeftOK ==
    ASSUME WindowsOK, NEW w \in Windows, Left(w)
    PROVE  WindowsOK'
  <1>1. win[w].op \in Leased => win[w].at # "idle" /\ win[w].folder \in Folders
    BY DEF WindowsOK, Leased
  <1> QED BY <1>1 DEF WindowsOK, Left

(* A writer that ends, and the window it answers, keep their types. *)
LEMMA EndedOK ==
    ASSUME WritersOK, WindowsOK, NEW p \in Procs, Ended(p), UNCHANGED asked
    PROVE  WritersOK' /\ WindowsOK'
  <1>1. Idle \in Writer /\ Idle.at \notin AtFolder /\ Names(Idle.req) /\ Idle.req = Pruning
    BY IdleType DEF AtFolder, Names, Pruning
  <1>2. WritersOK'
    BY <1>1, OneWriter DEF Ended
  <1>3. WindowsOK'
    BY LeftOK DEF Ended, WindowsOK
  <1> QED BY <1>2, <1>3

(* The ids.                                                                *)
LEMMA NextIdIsNew ==
    ASSUME TypeInv, NEW op \in {"publish", "drop", "replace", "remove"},
           NEW f \in Folders \cup {NoOne},
           left.tasks > 0 \/ Owing # {}
    PROVE  /\ [id |-> NextId, op |-> op, folder |-> f] \in Requests \ asked
           /\ NextId = MaxLegacy + Cardinality(asked) + 1
           /\ Cardinality(asked) \in Nat
  <1>1. Cardinality(asked) \in Nat /\ Cardinality(Owing) \in Nat
    BY FS_CardinalityType DEF TypeInv, Counted
  <1>2. MaxLegacy \in Nat /\ MaxTasks \in Nat
    BY WhiteboardAssumption
  <1>3. Owing # {} => Cardinality(Owing) # 0
    BY FS_EmptySet DEF TypeInv, Counted
  <1>4. Cardinality(asked) < MaxTasks
    BY <1>1, <1>2, <1>3 DEF TypeInv, Counted, TypeOK, Budget
  <1>5. NextId \in Ids
    BY <1>1, <1>2, <1>4 DEF NextId, Ids
  <1>6. \A q \in asked : q.id # NextId
    BY <1>1, <1>2 DEF TypeInv, Counted, NextId, TypeOK, Requests, Ids
  <1> QED BY <1>1, <1>5, <1>6 DEF Requests, NextId

(* A started writer is of the type. *)
LEMMA StartType ==
    ASSUME TypeOK, WritersOK, NEW p \in Procs, NEW q \in Requests \cup {Pruning},
           NEW w \in Windows \cup {NoOne}, Start(p, q, w), Names(q),
           q \in asked' \cup {Pruning}, asked \subseteq asked'
    PROVE  WritersOK'
  <1> DEFINE r == [Idle EXCEPT !.req = q, !.by = w,
                               !.at = IF q.op \in {"drop", "replace"} /\ drops[q.folder].marker = "none"
                                      THEN "refused" ELSE "begin"]
  <1>1. r \in Writer /\ r.at \in Deciding /\ r.req = q
    BY IdleType DEF Writer, Idle, Deciding
  <1>2. proc' = [proc EXCEPT ![p] = r]
    BY DEF Start
  <1>3. r.at \notin AtFolder
    BY <1>1 DEF Deciding, AtFolder
  <1> HIDE DEF r
  <1> QED BY <1>1, <1>2, <1>3, OneWriter

(* Everything but the counting.                                            *)
Typed == TypeOK /\ Placed

(* The conjuncts of Typed, the queue and the lock taken apart. *)
LEMMA TypedParts == Typed <=> /\ WritersOK /\ WindowsOK
                              /\ board \in Seq(Post) /\ lock \in BOOLEAN
                              /\ drops \in [Folders -> Folder]
                              /\ names \subseteq Folders \cup Copies
                              /\ left \in Budget
                              /\ asked \subseteq Requests /\ done \subseteq asked
  BY DEF Typed, TypeOK, Placed, WritersOK, WindowsOK

(* A used budget is a budget. *)
LEMMA UseType ==
    ASSUME left \in Budget, NEW b \in {"tasks", "kills", "exits", "fails", "holds"}, Use(b)
    PROVE  /\ left' \in Budget
           /\ left'.tasks = IF b = "tasks" THEN left.tasks - 1 ELSE left.tasks
           /\ b = "tasks" => left.tasks > 0
  BY DEF Use, Budget

(* The board after a request, and after its cut.                           *)
LEMMA NewestType ==
    ASSUME NEW S, NEW s \in Seq(S)
    PROVE  /\ Newest(s) \in Seq(S)
           /\ \A i \in DOMAIN Newest(s) : \E j \in DOMAIN s : Newest(s)[i] = s[j]
  <1>1. MaxEntries \in Nat \ {0} /\ Len(s) \in Nat /\ DOMAIN s = 1..Len(s)
    BY WhiteboardAssumption
  <1>2. CASE Len(s) <= MaxEntries
    BY <1>1, <1>2 DEF Newest
  <1>3. CASE Len(s) > MaxEntries
    <2> DEFINE m == Len(s) - MaxEntries + 1
    <2>1. m \in Int /\ m \in 1..Len(s) /\ Len(s) \in Int
      BY <1>1, <1>3
    <2>2. \A i \in m..Len(s) : s[i] \in S
      BY <2>1
    <2>3. Newest(s) = SubSeq(s, m, Len(s))
      BY <1>3 DEF Newest
    <2> HIDE DEF m
    <2>4. /\ SubSeq(s, m, Len(s)) \in Seq(S)
          /\ Len(SubSeq(s, m, Len(s))) = Len(s) - m + 1
          /\ \A i \in 1..Len(s) - m + 1 : SubSeq(s, m, Len(s))[i] = s[m + i - 1]
      BY <2>1, <2>2, SubSeqProperties
    <2>5. \A i \in 1..Len(s) - m + 1 : m + i - 1 \in DOMAIN s
      BY <1>1, <2>1
    <2> QED BY <2>3, <2>4, <2>5
  <1> QED BY <1>1, <1>2, <1>3

(* The first post of an input.                                             *)
LEMMA NatMin ==
    ASSUME NEW T \in SUBSET Nat, T # {}
    PROVE  \E x \in T : \A y \in T : x <= y
  <1>1. \E x \in T : \A y \in T : ~(<<y, x>> \in OpToRel(<, Nat))
    BY NatLessThanWellFounded, WFMin, Zenon
  <1>2. \A x, y \in Nat : y < x => <<y, x>> \in OpToRel(<, Nat)
    BY Zenon DEF OpToRel
  <1>3. \E x \in T : \A y \in T : ~(y < x)
    BY <1>1, <1>2, Zenon
  <1> QED BY <1>3

(* The first post of an input is a post of the board. *)
LEMMA FirstIsThere ==
    ASSUME NEW s \in Seq(Post), NEW f, InputAt(s, f) # {}
    PROVE  First(s, f) \in DOMAIN s /\ s[First(s, f)].folder = f
  <1>1. InputAt(s, f) \in SUBSET Nat
    BY DEF InputAt
  <1>2. \E i \in InputAt(s, f) : \A j \in InputAt(s, f) : i <= j
    BY <1>1, NatMin
  <1>3. First(s, f) \in InputAt(s, f)
    BY <1>2 DEF First
  <1> QED BY <1>3 DEF InputAt

(* A request that finds what it needs.                                     *)
Found(s, q) == q.op \in {"replace", "remove"} => InputAt(s, q.folder) # {}

(* A request that is not refused finds the post it names. *)
LEMMA RefusedOrFound ==
    ASSUME NEW q \in Requests \cup {Pruning}, ~Refused(q)
    PROVE  Found(board, q)
  BY FS_EmptySet DEF Refused, Found

(* A board without one of its posts is a board. *)
LEMMA WithoutType ==
    ASSUME NEW S, NEW s \in Seq(S), NEW i \in DOMAIN s
    PROVE  /\ Without(s, i) \in Seq(S)
           /\ \A k \in DOMAIN Without(s, i) : \E j \in DOMAIN s : Without(s, i)[k] = s[j]
  <1> DEFINE a == SubSeq(s, 1, i - 1)
             b == SubSeq(s, i + 1, Len(s))
  <1>1. Len(s) \in Nat /\ DOMAIN s = 1..Len(s) /\ i \in 1..Len(s)
    OBVIOUS
  <1>2. /\ a \in Seq(S) /\ Len(a) = i - 1 /\ \A k \in 1..i - 1 : a[k] = s[k]
    <2>1. /\ a \in Seq(S) /\ Len(a) = IF 1 <= i - 1 THEN i - 1 - 1 + 1 ELSE 0
          /\ \A k \in 1..i - 1 - 1 + 1 : a[k] = s[1 + k - 1]
      <3>1. 1 \in Int /\ i - 1 \in Int /\ \A k \in 1..i - 1 : s[k] \in S
        BY <1>1
      <3> QED BY <3>1, SubSeqProperties
    <2> QED BY <1>1, <2>1
  <1>3. /\ b \in Seq(S) /\ Len(b) = Len(s) - i /\ \A k \in 1..Len(s) - i : b[k] = s[i + k]
    <2>1. /\ b \in Seq(S) /\ Len(b) = IF i + 1 <= Len(s) THEN Len(s) - (i + 1) + 1 ELSE 0
          /\ \A k \in 1..Len(s) - (i + 1) + 1 : b[k] = s[i + 1 + k - 1]
      <3>1. i + 1 \in Int /\ Len(s) \in Int /\ \A k \in i + 1..Len(s) : s[k] \in S
        BY <1>1
      <3> QED BY <3>1, SubSeqProperties
    <2> QED BY <1>1, <2>1
  <1>4. Without(s, i) = a \o b
    BY DEF Without
  <1> HIDE DEF a, b
  <1>5. /\ a \o b \in Seq(S) /\ Len(a \o b) = Len(a) + Len(b)
        /\ \A k \in 1..Len(a) + Len(b) : (a \o b)[k] = IF k <= Len(a) THEN a[k] ELSE b[k - Len(a)]
    BY <1>2, <1>3, ConcatProperties
  <1>6. ASSUME NEW k \in DOMAIN (a \o b) PROVE \E j \in DOMAIN s : (a \o b)[k] = s[j]
    <2>1. k \in 1..Len(a) + Len(b)
      BY <1>5
    <2>2. CASE k <= Len(a)
      BY <1>1, <1>2, <1>5, <2>1, <2>2
    <2>3. CASE k > Len(a)
      <3>1. k - Len(a) \in 1..Len(s) - i /\ i + (k - Len(a)) \in DOMAIN s
        BY <1>1, <1>2, <1>3, <2>1, <2>3
      <3>2. (a \o b)[k] = b[k - Len(a)]
        BY <1>2, <1>5, <2>1, <2>3
      <3>3. b[k - Len(a)] = s[i + (k - Len(a))]
        BY <1>3, <3>1
      <3> QED BY <3>1, <3>2, <3>3
    <2> QED BY <1>2, <2>1, <2>2, <2>3
  <1> QED BY <1>4, <1>5, <1>6

(* Applying a request keeps the posts posts, and adds a folder only for a  *)
(* drop.                                                                   *)
LEMMA EditedType ==
    ASSUME NEW s \in Seq(Post), NEW q \in Requests \cup {Pruning}, Found(s, q)
    PROVE  /\ Edited(s, q) \in Seq(Post)
           /\ \A i \in DOMAIN Edited(s, q) :
                \/ \E j \in DOMAIN s : Edited(s, q)[i].folder = s[j].folder
                \/ q.op \in {"publish", "drop"} /\ Edited(s, q)[i].folder = q.folder
  <1>1. q.id \in Nat /\ q.folder \in Folders \cup {NoOne}
    BY WhiteboardAssumption DEF Requests, Ids, Pruning
  <1>2. CASE q.op \in {"publish", "drop"}
    <2> DEFINE e == [id |-> q.id, folder |-> q.folder, text |-> q.id]
    <2>1. e \in Post /\ e.folder = q.folder
      BY <1>1 DEF Post
    <2>2. Edited(s, q) = Append(s, e)
      BY <1>2 DEF Edited
    <2> HIDE DEF e
    <2>3. /\ Append(s, e) \in Seq(Post) /\ DOMAIN Append(s, e) = 1..Len(s) + 1
          /\ \A i \in 1..Len(s) + 1 : Append(s, e)[i] = IF i = Len(s) + 1 THEN e ELSE s[i]
          /\ DOMAIN s = 1..Len(s) /\ Len(s) \in Nat
      BY <2>1
    <2> QED BY <1>2, <2>1, <2>2, <2>3
  <1>3. CASE q.op = "replace"
    <2> DEFINE k == First(s, q.folder)
               r == [s[k] EXCEPT !.text = q.id]
    <2>1. k \in DOMAIN s /\ s[k] \in Post
      BY <1>3, FirstIsThere DEF Found
    <2>2. r \in Post /\ r.folder = s[k].folder
      BY <1>1, <2>1 DEF Post
    <2>3. Edited(s, q) = [s EXCEPT ![k].text = q.id]
      BY <1>3 DEF Edited
    <2>4. Edited(s, q) = [s EXCEPT ![k] = r]
      BY <2>1, <2>3
    <2> HIDE DEF k, r
    <2> QED BY <2>1, <2>2, <2>4
  <1>4. CASE q.op = "remove"
    <2>1. Edited(s, q) = Without(s, First(s, q.folder))
      BY <1>4 DEF Edited
    <2>2. First(s, q.folder) \in DOMAIN s
      BY <1>4, FirstIsThere DEF Found
    <2> QED BY <2>1, <2>2, WithoutType
  <1>5. CASE q.op = "prune"
    BY <1>5 DEF Edited
  <1> QED BY <1>2, <1>3, <1>4, <1>5 DEF Requests, Pruning

(* What a process writes back.                                             *)
LEMMA OutType ==
    ASSUME NEW s \in Seq(Post), NEW q \in Requests \cup {Pruning}, Found(s, q)
    PROVE  /\ Newest(Edited(s, q)) \in Seq(Post)
           /\ FoldersOf(Newest(Edited(s, q))) \subseteq
                 FoldersOf(s) \cup (IF q.op \in {"publish", "drop"} THEN {q.folder} \ {NoOne} ELSE {})
  <1> DEFINE e == Edited(s, q)
  <1>1. e \in Seq(Post)
    BY EditedType
  <1>2. /\ Newest(e) \in Seq(Post)
        /\ \A i \in DOMAIN Newest(e) : \E j \in DOMAIN e : Newest(e)[i] = e[j]
    BY <1>1, NewestType
  <1> HIDE DEF e
  <1>3. ASSUME NEW f \in FoldersOf(Newest(e)), f \notin FoldersOf(s)
        PROVE  q.op \in {"publish", "drop"} /\ f = q.folder /\ f # NoOne
    <2>1. PICK i \in DOMAIN Newest(e) : Newest(e)[i].folder = f
      BY <1>3 DEF FoldersOf
    <2>2. PICK j \in DOMAIN e : Newest(e)[i] = e[j]
      BY <1>2
    <2>3. f # NoOne /\ f = e[j].folder
      BY <1>3, <2>1, <2>2 DEF FoldersOf
    <2>4. \A k \in DOMAIN s : s[k].folder # f
      BY <1>3, <2>3 DEF FoldersOf
    <2> QED BY <2>2, <2>3, <2>4, EditedType DEF e
  <1> QED BY <1>2, <1>3 DEF e

-----------------------------------------------------------------------------
(* Steps keep the types. *)

(* The inputs of a board are folders. *)
LEMMA FoldersType ==
    ASSUME NEW s \in Seq(Post)
    PROVE  FoldersOf(s) \subseteq Folders
  <1>1. \A i \in DOMAIN s : s[i] \in Post
    OBVIOUS
  <1>2. \A i \in DOMAIN s : s[i].folder \in Folders \cup {NoOne}
    BY <1>1 DEF Post
  <1> QED BY <1>2 DEF FoldersOf

(* The steps of a writer keep the types and the places of ids. *)
LEMMA WriterTyped ==
    ASSUME Typed, NEW p \in Procs, WriterStep(p) \/ Kill(p)
    PROVE  Typed'
  <1> DEFINE P == proc[p]
  <1>1. /\ WritersOK /\ WindowsOK /\ board \in Seq(Post) /\ lock \in BOOLEAN
        /\ drops \in [Folders -> Folder] /\ names \subseteq Folders \cup Copies
        /\ left \in Budget /\ asked \subseteq Requests /\ done \subseteq asked /\ TypeOK
    BY TypedParts DEF Typed
  <1>0. asked' = asked
    BY DEF WriterStep, Kill, Acquire, GiveUp, ReadBoard, WriteFails, Rename, Retire, RetireFails,
           Sweep, Scan, Listed, Unmark, RemoveDir, Release, Delete
  <1>2. P \in Writer /\ Names(P.req) /\ P.req \in asked \cup {Pruning} /\ (P.at \in AtFolder => P.cur \in Folders)
    BY <1>1 DEF WritersOK
  <1>3. ASSUME NEW r \in Writer, proc' = [proc EXCEPT ![p] = r],
               r.at \in AtFolder => r.cur \in Folders, r.req = P.req
        PROVE  WritersOK'
    BY <1>0, <1>1, <1>2, <1>3, OneWriter
  <1>4. ASSUME NEW ok \in BOOLEAN, End(p, ok) PROVE WritersOK' /\ WindowsOK'
    BY <1>0, <1>1, <1>4, EndEnds, EndedOK
  <1>5. ASSUME WritersOK', WindowsOK', board' \in Seq(Post), lock' \in BOOLEAN,
               drops' \in [Folders -> Folder], left' \in Budget,
               done' \subseteq asked, UNCHANGED <<names, asked>>
        PROVE  Typed'
    BY <1>1, <1>5 DEF Typed, TypeOK, Placed, WritersOK, WindowsOK
  <1>6. CASE Acquire(p)
    <2>1. proc' = [proc EXCEPT ![p] = [P EXCEPT !.at = "locked"]]
      BY <1>1, <1>6 DEF Acquire, WritersOK
    <2>2. /\ [P EXCEPT !.at = "locked"] \in Writer /\ [P EXCEPT !.at = "locked"].req = P.req
          /\ [P EXCEPT !.at = "locked"].at \notin AtFolder
      BY <1>2 DEF Writer, Holding, AtFolder
    <2>3. WritersOK'
      BY <1>3, <2>1, <2>2
    <2> QED BY <1>1, <1>5, <1>6, <2>3 DEF Acquire, WindowsOK
  <1>7. CASE GiveUp(p)
    <2>1. WritersOK' /\ WindowsOK'
      BY <1>4, <1>7 DEF GiveUp
    <2> QED BY <1>1, <1>5, <1>7, <2>1 DEF GiveUp
  <1>8. CASE ReadBoard(p)
    <2> DEFINE out == Newest(Edited(board, P.req))
               r == [P EXCEPT !.at = "edited", !.out = out, !.todo = FoldersOf(board) \ FoldersOf(out)]
    <2>1. WritersOK' /\ WindowsOK' /\ lock' \in BOOLEAN
      <3>1. CASE Refused(P.req)
        BY <1>4, <1>8, <3>1 DEF ReadBoard
      <3>2. CASE ~Refused(P.req)
        <4>1. out \in Seq(Post)
          BY <1>1, <1>2, <3>2, RefusedOrFound, OutType DEF Writer
        <4>2. FoldersOf(board) \subseteq Folders
          BY <1>1, FoldersType
        <4>3. proc' = [proc EXCEPT ![p] = r] /\ UNCHANGED <<lock, win>>
          BY <1>8, <3>2 DEF ReadBoard
        <4> HIDE DEF out
        <4>4. r \in Writer /\ r.req = P.req /\ r.at \notin AtFolder
          BY <1>2, <4>1, <4>2 DEF Writer, Holding, AtFolder
        <4> HIDE DEF r
        <4>5. WritersOK'
          BY <1>3, <4>3, <4>4
        <4> QED BY <1>1, <4>3, <4>5 DEF WindowsOK
      <3> QED BY <3>1, <3>2
    <2> QED BY <1>1, <1>5, <1>8, <2>1 DEF ReadBoard
  <1>9. CASE WriteFails(p)
    <2>1. WritersOK' /\ WindowsOK'
      BY <1>4, <1>9 DEF WriteFails
    <2>2. left' \in Budget
      BY <1>1, <1>9, UseType DEF WriteFails
    <2> QED BY <1>1, <1>5, <1>9, <2>1, <2>2 DEF WriteFails
  <1>10. CASE Rename(p)
    <2>1. proc' = [proc EXCEPT ![p] = [P EXCEPT !.at = "cleaning"]]
      BY <1>1, <1>10 DEF Rename, WritersOK
    <2>2. /\ [P EXCEPT !.at = "cleaning"] \in Writer /\ [P EXCEPT !.at = "cleaning"].req = P.req
          /\ [P EXCEPT !.at = "cleaning"].at \notin AtFolder
      BY <1>2 DEF Writer, Holding, Cleaning, AtFolder
    <2>3. WritersOK'
      BY <1>3, <2>1, <2>2
    <2>4. board' \in Seq(Post)
      BY <1>2, <1>10 DEF Rename, Writer
    <2> QED BY <1>1, <1>2, <1>5, <1>10, <2>3, <2>4 DEF Rename, WindowsOK
  <1>11. ASSUME NEW f \in Folders,
                proc' = [proc EXCEPT ![p].todo = @ \ {f}]
                \/ proc' = [proc EXCEPT ![p].at = "listing", ![p].cur = f, ![p].todo = @ \ {f}]
         PROVE  WritersOK'
    <2> DEFINE a == [P EXCEPT !.todo = P.todo \ {f}]
               b == [P EXCEPT !.at = "listing", !.cur = f, !.todo = P.todo \ {f}]
    <2>1. /\ a \in Writer /\ a.req = P.req /\ a.at = P.at /\ a.cur = P.cur
          /\ b \in Writer /\ b.req = P.req /\ b.cur = f
      BY <1>2 DEF Writer, Holding, Cleaning
    <2>2. proc' = [proc EXCEPT ![p] = a] \/ proc' = [proc EXCEPT ![p] = b]
      BY <1>1, <1>11 DEF WritersOK
    <2> HIDE DEF a, b
    <2> QED BY <1>2, <1>3, <2>1, <2>2
  <1>12. ASSUME NEW f \in Folders, Retire(p, f) \/ RetireFails(p, f) PROVE Typed'
    <2>1. WritersOK' /\ UNCHANGED <<board, lock, win, names, asked, done>>
      BY <1>11, <1>12 DEF Retire, RetireFails
    <2>2. drops' \in [Folders -> Folder]
      <3>1. drops[f] \in Folder /\ \A m \in {"none", "live", "retired"} :
                                      [drops[f] EXCEPT !.marker = m] \in Folder
        BY <1>1 DEF Folder
      <3>2. \/ drops' = drops
            \/ \E m \in {drops[f].marker, "none", "retired"} :
                  drops' = [drops EXCEPT ![f] = [drops[f] EXCEPT !.marker = m]]
        BY <1>1, <1>12 DEF Retire, RetireFails
      <3>3. drops[f].marker \in {"none", "live", "retired"}
        BY <3>1 DEF Folder
      <3> QED BY <1>1, <3>1, <3>2, <3>3
    <2>3. left' \in Budget
      BY <1>1, <1>12, UseType DEF Retire, RetireFails
    <2> QED BY <1>1, <1>5, <2>1, <2>2, <2>3 DEF WindowsOK
  <1>13. ASSUME NEW f \in Folders, Sweep(p, f) PROVE Typed'
    <2>1. WritersOK' /\ UNCHANGED <<board, lock, drops, win, names, left, asked, done>>
      BY <1>11, <1>13 DEF Sweep
    <2> QED BY <1>1, <1>5, <2>1 DEF WindowsOK
  <1>14. CASE Scan(p)
    <2> DEFINE t == {f \in Folders : drops[f].dir} \ FoldersOf(P.out)
               r == [P EXCEPT !.scanned = TRUE, !.todo = t]
    <2>1. r \in Writer /\ r.req = P.req /\ r.at = P.at /\ r.cur = P.cur
      BY <1>2 DEF Writer
    <2>2. proc' = [proc EXCEPT ![p] = r]
      BY <1>14 DEF Scan
    <2> HIDE DEF r
    <2>3. WritersOK'
      BY <1>2, <1>3, <2>1, <2>2
    <2> QED BY <1>1, <1>5, <1>14, <2>3 DEF Scan, WindowsOK
  <1>15. CASE Listed(p)
    <2> DEFINE a == [P EXCEPT !.at = "deleting", !.rest = drops[P.cur].files]
               b == [P EXCEPT !.at = "cleaning", !.cur = NoOne]
    <2>1. P.cur \in Folders /\ drops[P.cur].files \in SUBSET Files
      BY <1>1, <1>2, <1>15 DEF Listed, AtFolder, Folder
    <2>2. /\ a \in Writer /\ a.req = P.req /\ a.cur = P.cur
          /\ b \in Writer /\ b.req = P.req /\ b.at \notin AtFolder
      BY <1>2, <2>1 DEF Writer, Holding, Cleaning, AtFolder
    <2>3. proc' = [proc EXCEPT ![p] = IF Removable(P.cur) THEN a ELSE b]
      BY <1>15 DEF Listed
    <2>4. proc' = [proc EXCEPT ![p] = a] \/ proc' = [proc EXCEPT ![p] = b]
      BY <2>3
    <2> HIDE DEF a, b
    <2>5. WritersOK'
      BY <1>3, <2>1, <2>2, <2>4
    <2> QED BY <1>1, <1>5, <1>15, <2>5 DEF Listed, WindowsOK
  <1>16. CASE Unmark(p)
    <2>1. P.cur \in Folders /\ drops[P.cur] \in Folder
      BY <1>1, <1>2, <1>16 DEF Unmark, AtFolder
    <2>2. /\ [P EXCEPT !.at = "empty"] \in Writer /\ [P EXCEPT !.at = "empty"].req = P.req
          /\ [P EXCEPT !.at = "empty"].cur = P.cur
          /\ [drops[P.cur] EXCEPT !.marker = "none"] \in Folder
      BY <1>2, <2>1 DEF Writer, Holding, Cleaning, Folder
    <2>3. /\ proc' = [proc EXCEPT ![p] = [P EXCEPT !.at = "empty"]]
          /\ drops' = [drops EXCEPT ![P.cur] = [drops[P.cur] EXCEPT !.marker = "none"]]
      BY <1>1, <1>16 DEF Unmark, WritersOK
    <2>4. WritersOK' /\ drops' \in [Folders -> Folder]
      BY <1>1, <1>3, <2>1, <2>2, <2>3
    <2> QED BY <1>1, <1>5, <1>16, <2>4 DEF Unmark, WindowsOK
  <1>17. CASE RemoveDir(p)
    <2> DEFINE D == drops[P.cur]
               d == [D EXCEPT !.dir = D.dir /\ (D.lease \/ D.files # {})]
               r == [P EXCEPT !.at = "cleaning", !.cur = NoOne]
    <2>1. P.cur \in Folders /\ D \in Folder
      BY <1>1, <1>2, <1>17 DEF RemoveDir, AtFolder
    <2>2. r \in Writer /\ r.req = P.req /\ r.at \notin AtFolder /\ d \in Folder
      BY <1>2, <2>1 DEF Writer, Holding, Cleaning, AtFolder, Folder
    <2>3. proc' = [proc EXCEPT ![p] = r] /\ drops' = [drops EXCEPT ![P.cur] = d]
      BY <1>1, <1>17 DEF RemoveDir, WritersOK
    <2> HIDE DEF r, d
    <2>4. WritersOK' /\ drops' \in [Folders -> Folder]
      BY <1>1, <1>3, <2>1, <2>2, <2>3
    <2> QED BY <1>1, <1>5, <1>17, <2>4 DEF RemoveDir, WindowsOK
  <1>18. CASE Release(p)
    <2>1. WritersOK' /\ WindowsOK'
      BY <1>4, <1>18 DEF Release
    <2> QED BY <1>1, <1>5, <1>18, <2>1 DEF Release
  <1>19. ASSUME NEW x \in Files, Delete(p, x) PROVE Typed'
    <2> DEFINE a == [P EXCEPT !.at = "cleaning", !.cur = NoOne, !.rest = {}]
               b == [P EXCEPT !.rest = P.rest \ {x}]
               d == [drops[P.cur] EXCEPT !.files = drops[P.cur].files \ {x}]
    <2>1. P.cur \in Folders /\ drops[P.cur] \in Folder
      BY <1>1, <1>2, <1>19 DEF Delete, AtFolder
    <2>2. /\ a \in Writer /\ a.req = P.req /\ a.at \notin AtFolder
          /\ b \in Writer /\ b.req = P.req /\ b.cur = P.cur /\ d \in Folder
      BY <1>2, <2>1 DEF Writer, Holding, Cleaning, AtFolder, Folder
    <2>3. \/ proc' = [proc EXCEPT ![p] = a] /\ drops' = drops
          \/ proc' = [proc EXCEPT ![p] = b] /\ drops' = [drops EXCEPT ![P.cur] = d]
      BY <1>1, <1>19 DEF Delete, WritersOK
    <2> HIDE DEF a, b, d
    <2>4. WritersOK' /\ drops' \in [Folders -> Folder]
      BY <1>1, <1>3, <2>1, <2>2, <2>3
    <2> QED BY <1>1, <1>5, <1>19, <2>4 DEF Delete, WindowsOK
  <1>20. CASE Kill(p)
    <2>1. WritersOK' /\ WindowsOK'
      BY <1>4, <1>20 DEF Kill
    <2>2. left' \in Budget
      BY <1>1, <1>20, UseType DEF Kill
    <2> QED BY <1>1, <1>5, <1>20, <2>1, <2>2 DEF Kill
  <1> QED BY <1>6, <1>7, <1>8, <1>9, <1>10, <1>12, <1>13, <1>14, <1>15, <1>16, <1>17,
             <1>18, <1>19, <1>20 DEF WriterStep

(* What a writer does to the windows.                                      *)
LEMMA WriterAndWindows ==
    ASSUME TypeOK, NEW p \in Procs, WriterStep(p) \/ Kill(p)
    PROVE  UNCHANGED win \/ Ended(p)
  <1>1. CASE GiveUp(p) \/ WriteFails(p) \/ Release(p) \/ Kill(p)
    BY <1>1, EndEnds DEF GiveUp, WriteFails, Release, Kill
  <1>2. CASE ReadBoard(p)
    BY <1>2, EndEnds DEF ReadBoard
  <1>3. CASE ~(GiveUp(p) \/ WriteFails(p) \/ Release(p) \/ Kill(p) \/ ReadBoard(p))
    BY <1>3 DEF WriterStep, Acquire, Rename, Retire, RetireFails, Sweep, Scan, Listed, Unmark,
                RemoveDir, Delete
  <1> QED BY <1>1, <1>2, <1>3

(* A task moves on, or is given up.                                        *)
LEMMA GoOK ==
    ASSUME WindowsOK, NEW w \in Windows, NEW at \in {"check", "wait", "unlease"} \cup Early \cup Late,
           win[w].at \notin {"idle", "unlease"}, Go(w, at),
           at \in {"reserve", "copy"} => win[w].op = "add"
    PROVE  WindowsOK' /\ \A v \in Windows \ {w} : win'[v] = win[v]
           /\ win'[w] = [win[w] EXCEPT !.at = at]
  <1> DEFINE r == [win[w] EXCEPT !.at = at]
  <1>1. /\ win[w] \in Window /\ win[w].folder \in Folders
        /\ win[w].op = "add" => win[w].new \in Copies
    BY DEF WindowsOK
  <1>2. r \in Window /\ r.at = at /\ r.op = win[w].op /\ r.folder = win[w].folder
        /\ r.new = win[w].new
    BY <1>1 DEF Window
  <1>3. win' = [win EXCEPT ![w] = r] /\ at # "idle"
    BY DEF Go, WindowsOK, Early, Late
  <1>4. win \in [Windows -> Window]
    BY DEF WindowsOK
  <1>5. win'[w] = r /\ \A v \in Windows \ {w} : win'[v] = win[v]
    BY <1>3, <1>4
  <1> HIDE DEF r
  <1>6. WindowsOK'
    BY <1>1, <1>2, <1>3, OneWindow
  <1> QED BY <1>5, <1>6 DEF r

(* A window whose operation is abandoned keeps its type. *)
LEMMA AbandonOK ==
    ASSUME WindowsOK, NEW w \in Windows, Abandon(w)
    PROVE  WindowsOK' /\ (\A v \in Windows \ {w} : win'[v] = win[v])
           /\ win'[w].at = "idle" /\ win'[w].folder \in {win[w].folder, NoOne}
  <1> DEFINE s == [win[w] EXCEPT !.at = "idle", !.op = "none", !.new = NoOne]
  <1>1. win \in [Windows -> Window] /\ win[w] \in Window
    BY DEF WindowsOK
  <1>2. s \in Window /\ s.at = "idle" /\ s.op = "none" /\ s.folder = win[w].folder
    BY <1>1 DEF Window
  <1>3. Blank \in Window /\ Blank.at = "idle" /\ Blank.op = "none" /\ Blank.folder = NoOne
    BY DEF Blank, Window
  <1>4. win' = [win EXCEPT ![w] = s] \/ win' = [win EXCEPT ![w] = Blank]
    BY DEF Abandon
  <1> HIDE DEF s
  <1>5. WindowsOK'
    BY <1>2, <1>3, <1>4, OneWindow
  <1> QED BY <1>1, <1>2, <1>3, <1>4, <1>5

(* A window that writes its manifest keeps the types. *)
LEMMA ManifestOK ==
    ASSUME Typed, NEW w \in Windows, NEW next \in Late,
           win[w].at \notin {"idle", "unlease"}, WriteManifest(w, next),
           next = "copy" => win[w].op = "add", next # "reserve"
    PROVE  /\ WindowsOK' /\ drops' \in [Folders -> Folder]
           /\ \A v \in Windows \ {w} : win'[v] = win[v]
  <1> DEFINE D == drops[win[w].folder]
             d == [D EXCEPT !.files = D.files \cup {Manifest}, !.owned = Merged(w)]
  <1>1. WindowsOK /\ TypeOK /\ drops \in [Folders -> Folder]
    BY TypedParts DEF Typed
  <1>2. win[w] \in Window /\ win[w].folder \in Folders /\ D \in Folder
    BY <1>1 DEF WindowsOK
  <1>3. CASE Writable(w)
    <2>1. Merged(w) \subseteq Copies
      BY <1>2 DEF Merged, Window, Folder
    <2>2. d \in Folder
      BY <1>2, <2>1 DEF Folder, Files
    <2>3. drops' = [drops EXCEPT ![win[w].folder] = d] /\ Go(w, next)
      BY <1>1, <1>2, <1>3 DEF WriteManifest
    <2> HIDE DEF d, D
    <2>4. drops' \in [Folders -> Folder]
      BY <1>1, <1>2, <2>2, <2>3
    <2> QED BY <1>1, <2>3, <2>4, GoOK
  <1>4. CASE ~Writable(w)
    <2>1. Leave(w, FALSE) /\ UNCHANGED drops
      BY <1>4 DEF WriteManifest
    <2>2. Left(w)
      BY <1>1, <2>1, LeaveLeaves
    <2> QED BY <1>1, <2>1, <2>2, LeftOK DEF Left
  <1> QED BY <1>3, <1>4

(* The steps of a window keep the types and the places of ids. *)
LEMMA WindowTyped ==
    ASSUME TypeInv, NEW w \in Windows, Asks(w) \/ WindowStep(w) \/ Exit(w)
    PROVE  Typed'
  <1> DEFINE W == win[w]
             D == drops[W.folder]
  <1>1. /\ WritersOK /\ WindowsOK /\ board \in Seq(Post) /\ lock \in BOOLEAN
        /\ drops \in [Folders -> Folder] /\ names \subseteq Folders \cup Copies
        /\ left \in Budget /\ asked \subseteq Requests /\ done \subseteq asked
        /\ Typed /\ TypeOK
    BY TypedParts DEF Typed, TypeInv
  <1>2. /\ W \in Window /\ (W.at # "idle" => W.folder \in Folders)
        /\ (W.op = "add" => W.new \in Copies \/ W.at = "unlease")
        /\ (W.at \in {"reserve", "copy"} => W.op = "add")
        /\ (W.at = "idle" => W.op = "none")
    BY <1>1 DEF WindowsOK
  <1>3. ASSUME NEW r \in Window, win' = [win EXCEPT ![w] = r],
               r.at # "idle" => r.folder \in Folders,
               r.op = "add" => r.new \in Copies \/ r.at = "unlease",
               r.at \in {"reserve", "copy"} => r.op = "add",
               r.at = "idle" => r.op = "none"
        PROVE  WindowsOK'
    BY <1>1, <1>3, OneWindow
  <1>4. ASSUME WindowsOK', drops' \in [Folders -> Folder], names' \subseteq Folders \cup Copies,
               left' \in Budget, UNCHANGED <<board, lock, proc, asked, done>>
        PROVE  Typed'
    BY <1>1, <1>4 DEF Typed, TypeOK, Placed, WritersOK, WindowsOK
  <1>5. ASSUME NEW f \in Folders, NEW d \in Folder, drops' = [drops EXCEPT ![f] = d]
        PROVE  drops' \in [Folders -> Folder]
    BY <1>1, <1>5
  <1>6. ASSUME Leave(w, FALSE) PROVE WindowsOK'
    BY <1>1, <1>6, LeaveLeaves, LeftOK
  <1>7. ASSUME Abandon(w) PROVE WindowsOK'
    BY <1>1, <1>7, AbandonOK
  <1>8. ASSUME NEW f \in Folders, Load(w, f) PROVE Typed'
    <2> DEFINE r == [Blank EXCEPT !.folder = f, !.owned = drops[f].owned]
    <2>1. r \in Window /\ r.op = "none" /\ r.at = "idle"
      BY <1>1 DEF Blank, Window, Folder
    <2>2. win' = [win EXCEPT ![w] = r]
      BY <1>8 DEF Load
    <2> HIDE DEF r
    <2>3. WindowsOK'
      BY <1>3, <2>1, <2>2
    <2> QED BY <1>1, <1>4, <1>8, <2>3 DEF Load
  <1>9. ASSUME NEW f \in Folders, NEW op \in {"create", "drop"}, MakeFolder(w, f, op) PROVE Typed'
    <2> DEFINE r == [Blank EXCEPT !.at = "mark", !.op = op, !.folder = f]
               d == [drops[f] EXCEPT !.dir = TRUE]
    <2>1. r \in Window /\ r.op = op /\ r.at = "mark" /\ r.folder = f
      BY DEF Blank, Window, Early
    <2>2. d \in Folder
      BY <1>1 DEF Folder
    <2>3. win' = [win EXCEPT ![w] = r] /\ drops' = [drops EXCEPT ![f] = d]
      BY <1>1, <1>9 DEF MakeFolder
    <2> HIDE DEF r, d
    <2>4. WindowsOK'
      BY <1>3, <2>1, <2>3
    <2>5. drops' \in [Folders -> Folder]
      BY <1>5, <2>2, <2>3
    <2>6. left' \in Budget /\ names' \subseteq Folders \cup Copies
      BY <1>1, <1>9, UseType DEF MakeFolder
    <2> QED BY <1>4, <1>9, <2>4, <2>5, <2>6 DEF MakeFolder
  <1>10. ASSUME NEW op \in {"save", "add", "remove"}, Begin(w, op) PROVE Typed'
    <2>1. W.folder \in Folders
      BY <1>2, <1>10 DEF Begin, Window
    <2>2. left' \in Budget
      BY <1>1, <1>10, UseType DEF Begin
    <2>3. CASE op = "add"
      <3>1. PICK x \in Copies \ names :
              /\ names' = names \cup {x}
              /\ win' = [win EXCEPT ![w] = [W EXCEPT !.at = "validate", !.op = op, !.new = x]]
        BY <1>10, <2>3 DEF Begin
      <3> DEFINE r == [W EXCEPT !.at = "validate", !.op = op, !.new = x]
      <3>2. r \in Window /\ r.at = "validate" /\ r.folder = W.folder /\ r.new \in Copies
        BY <1>2 DEF Window, Early
      <3>3. win' = [win EXCEPT ![w] = r]
        BY <3>1
      <3> HIDE DEF r
      <3>4. WindowsOK'
        BY <1>3, <2>1, <3>2, <3>3
      <3> QED BY <1>1, <1>4, <1>10, <2>2, <3>1, <3>4 DEF Begin
    <2>4. CASE op # "add"
      <3> DEFINE r == [W EXCEPT !.at = "validate", !.op = op]
      <3>1. r \in Window /\ r.at = "validate" /\ r.folder = W.folder /\ r.op # "add"
        BY <1>2, <2>4 DEF Window, Early
      <3>2. win' = [win EXCEPT ![w] = r] /\ UNCHANGED names
        BY <1>10, <2>4 DEF Begin
      <3> HIDE DEF r
      <3>3. WindowsOK'
        BY <1>3, <2>1, <3>1, <3>2
      <3> QED BY <1>1, <1>4, <1>10, <2>2, <3>2, <3>3 DEF Begin
    <2> QED BY <2>3, <2>4
  <1>11. CASE Mark(w)
    <2> DEFINE d == [D EXCEPT !.marker = "live"]
    <2>1. W.folder \in Folders /\ d \in Folder
      BY <1>1, <1>2, <1>11 DEF Mark, Folder
    <2>2. drops' = [drops EXCEPT ![W.folder] = d]
      BY <1>1, <1>11, <2>1 DEF Mark
    <2> HIDE DEF d
    <2>3. drops' \in [Folders -> Folder]
      BY <1>5, <2>1, <2>2
    <2>4. WindowsOK'
      <3>1. (IF W.op = "drop" THEN "readme" ELSE "validate") \in Early \cup Late
        BY DEF Early, Late
      <3>2. Go(w, IF W.op = "drop" THEN "readme" ELSE "validate")
        BY <1>11 DEF Mark
      <3>3. W.at = "mark"
        BY <1>11 DEF Mark
      <3> QED BY <1>1, <3>1, <3>2, <3>3, GoOK
    <2> QED BY <1>1, <1>4, <1>11, <2>3, <2>4 DEF Mark
  <1>12. CASE Validate(w)
    <2>1. WindowsOK'
      <3>1. CASE Live(w)
        <4>1. (IF W.op = "remove" THEN "run" ELSE "lease") \in Early \cup Late
          BY DEF Early, Late
        <4>2. Go(w, IF W.op = "remove" THEN "run" ELSE "lease") /\ W.at = "validate"
          BY <1>12, <3>1 DEF Validate
        <4> QED BY <1>1, <4>1, <4>2, GoOK
      <3>2. CASE ~Live(w)
        BY <1>7, <1>12, <3>2 DEF Validate
      <3> QED BY <3>1, <3>2
    <2> QED BY <1>1, <1>4, <1>12, <2>1 DEF Validate
  <1>13. CASE Lease(w)
    <2> DEFINE d == [D EXCEPT !.lease = TRUE]
    <2>1. W.folder \in Folders /\ d \in Folder /\ W.at = "lease"
      <3>1. W.folder \in Folders /\ W.at = "lease"
        BY <1>1, <1>2, <1>13 DEF Lease
      <3>2. D \in Folder
        BY <1>1, <3>1
      <3> HIDE DEF D
      <3>3. d \in Folder
        BY <3>2 DEF Folder
      <3> QED BY <3>1, <3>3
    <2>2. CASE D.dir /\ ~D.lease
      <3>1. drops' = [drops EXCEPT ![W.folder] = d] /\ Go(w, "check")
        BY <1>1, <1>13, <2>1, <2>2 DEF Lease
      <3> HIDE DEF d
      <3>2. drops' \in [Folders -> Folder]
        BY <1>5, <2>1, <3>1
      <3>3. WindowsOK'
        BY <1>1, <2>1, <3>1, GoOK
      <3> QED BY <1>1, <1>4, <1>13, <3>2, <3>3 DEF Lease
    <2>3. CASE ~(D.dir /\ ~D.lease)
      <3>1. Abandon(w) /\ UNCHANGED drops
        BY <1>13, <2>3 DEF Lease
      <3> QED BY <1>1, <1>4, <1>7, <1>13, <3>1 DEF Lease
    <2> QED BY <2>2, <2>3
  <1>14. CASE Check(w)
    <2>1. WindowsOK'
      <3>1. CASE Live(w)
        <4>1. (IF W.op = "add" THEN "reserve" ELSE "manifest") \in Late
          BY DEF Late
        <4>2. Go(w, IF W.op = "add" THEN "reserve" ELSE "manifest") /\ W.at = "check"
          BY <1>14, <3>1 DEF Check
        <4> QED BY <1>1, <4>1, <4>2, GoOK
      <3>2. CASE ~Live(w)
        BY <1>6, <1>14, <3>2 DEF Check
      <3> QED BY <3>1, <3>2
    <2> QED BY <1>1, <1>4, <1>14, <2>1 DEF Check
  <1>15. CASE Reserve(w)
    <2>1. WriteManifest(w, "copy") /\ W.at = "reserve" /\ "copy" \in Late /\ W.op = "add"
      BY <1>2, <1>15 DEF Reserve, Late
    <2>2. WindowsOK' /\ drops' \in [Folders -> Folder]
      BY <1>1, <2>1, ManifestOK
    <2> QED BY <1>1, <1>4, <1>15, <2>2 DEF Reserve
  <1>16. CASE Copy(w)
    <2> DEFINE d == [D EXCEPT !.files = D.files \cup {W.new}]
    <2>1. W.folder \in Folders /\ D \in Folder /\ W.at = "copy"
      BY <1>1, <1>2, <1>16 DEF Copy
    <2>2. drops' = [drops EXCEPT ![W.folder] = d] /\ Go(w, "manifest")
      BY <1>1, <1>16, <2>1 DEF Copy
    <2>3. W.new # NoOne => d \in Folder
      BY <1>2, <2>1 DEF Folder, Window, Files
    <2> HIDE DEF d
    <2>4. WindowsOK'
      <3>1. "manifest" \in Late
        BY DEF Late
      <3> QED BY <1>1, <2>1, <2>2, <3>1, GoOK
    <2>5. W.new # NoOne
      BY <1>2, <2>1, WhiteboardAssumption
    <2> QED BY <1>1, <1>4, <1>5, <1>16, <2>1, <2>2, <2>3, <2>4, <2>5 DEF Copy
  <1>17. CASE SaveManifest(w)
    <2>1. W.at = "manifest" /\ "readme" \in Late
      BY <1>17 DEF SaveManifest, Late
    <2>2. WindowsOK' /\ drops' \in [Folders -> Folder]
      <3>1. CASE Live(w)
        BY <1>1, <1>17, <2>1, <3>1, ManifestOK DEF SaveManifest
      <3>2. CASE ~Live(w)
        BY <1>1, <1>6, <1>17, <3>2 DEF SaveManifest
      <3> QED BY <3>1, <3>2
    <2> QED BY <1>1, <1>4, <1>17, <2>2 DEF SaveManifest
  <1>18. CASE SaveReadme(w)
    <2> DEFINE d == [D EXCEPT !.files = D.files \cup {Readme}]
    <2>1. W.folder \in Folders /\ D \in Folder /\ W.at = "readme"
      BY <1>1, <1>2, <1>18 DEF SaveReadme
    <2>2. d \in Folder
      BY <2>1 DEF Folder, Files
    <2>3. drops' = [drops EXCEPT ![W.folder] = d] /\ Go(w, "run")
      BY <1>1, <1>18, <2>1 DEF SaveReadme
    <2> HIDE DEF d
    <2>4. drops' \in [Folders -> Folder]
      BY <1>5, <2>1, <2>2, <2>3
    <2>5. "run" \in Late
      BY DEF Late
    <2>6. WindowsOK'
      BY <1>1, <2>1, <2>3, <2>5, GoOK
    <2> QED BY <1>1, <1>4, <1>18, <2>4, <2>6 DEF SaveReadme
  <1>19. CASE Throw(w)
    <2>1. WindowsOK' /\ left' \in Budget
      BY <1>1, <1>6, <1>19, UseType DEF Throw
    <2>2. drops' \in [Folders -> Folder]
      BY <1>1, <1>19, CutShortHalves DEF Throw, Typed
    <2> QED BY <1>1, <1>4, <1>19, <2>1, <2>2 DEF Throw
  <1>20. CASE Unlease(w)
    <2> DEFINE d == [D EXCEPT !.lease = FALSE]
               s == [W EXCEPT !.at = "idle", !.op = "none"]
    <2>1. W.folder \in Folders /\ D \in Folder
      BY <1>1, <1>2, <1>20 DEF Unlease
    <2>2. /\ d \in Folder
          /\ s \in Window /\ s.at = "idle" /\ s.op = "none"
          /\ Blank \in Window /\ Blank.at = "idle" /\ Blank.op = "none"
      BY <1>2, <2>1 DEF Folder, Window, Blank
    <2>3. /\ drops' = [drops EXCEPT ![W.folder] = d]
          /\ win' = [win EXCEPT ![w] = s] \/ win' = [win EXCEPT ![w] = Blank]
      BY <1>1, <1>20, <2>1 DEF Unlease
    <2> HIDE DEF d, s
    <2>4. drops' \in [Folders -> Folder]
      BY <1>5, <2>1, <2>2, <2>3
    <2>5. WindowsOK'
      BY <1>3, <2>2, <2>3
    <2> QED BY <1>1, <1>4, <1>20, <2>4, <2>5 DEF Unlease
  <1>21. ASSUME NEW p \in Procs, RunWriter(w, p) PROVE Typed'
    <2> DEFINE q == [id |-> NextId, op |-> WriterOp(W.op), folder |-> W.folder]
    <2>1. W.at = "run" /\ W.folder \in Folders /\ Start(p, q, w) /\ asked' = asked \cup {q}
          /\ Go(w, "wait") /\ UNCHANGED left
      BY <1>2, <1>21 DEF RunWriter
    <2>2. WriterOp(W.op) \in {"drop", "replace", "remove"}
      BY DEF WriterOp
    <2>3. w \in Owing
      BY <2>1 DEF Owing, Late
    <2>4. q \in Requests \ asked
      BY <2>1, <2>2, <2>3, NextIdIsNew
    <2>5. q.op \in {"drop", "replace", "remove"} /\ q.folder \in Folders
      BY <2>1, <2>2
    <2> HIDE DEF q
    <2>6. Names(q)
      BY <2>5 DEF Names
    <2>7. WritersOK'
      BY <1>1, <2>1, <2>4, <2>6, StartType
    <2>8. WindowsOK'
      BY <1>1, <2>1, GoOK
    <2>9. asked' \subseteq Requests /\ done' \subseteq asked'
      BY <1>1, <2>1, <2>4 DEF Start
    <2> QED BY <1>1, <2>1, <2>7, <2>8, <2>9
            DEF Start, Typed, TypeOK, Placed, WritersOK, WindowsOK
  <1>22. CASE Exit(w)
    <2>1. Blank \in Window /\ Blank.at = "idle" /\ Blank.op = "none"
      BY DEF Window, Blank
    <2>2. WindowsOK'
      BY <1>3, <1>22, <2>1 DEF Exit
    <2>3. ASSUME NEW p \in Procs
          PROVE  proc'[p] \in Writer /\ proc'[p].at = proc[p].at /\ proc'[p].cur = proc[p].cur
                 /\ proc'[p].req = proc[p].req
      <3>1. proc'[p] = IF proc[p].by = w THEN [proc[p] EXCEPT !.by = NoOne] ELSE proc[p]
        BY <1>22 DEF Exit
      <3>2. proc[p] \in Writer
        BY <1>1 DEF WritersOK
      <3> QED BY <3>1, <3>2 DEF Writer
    <2>4. DOMAIN proc' = Procs /\ proc' = [p \in Procs |-> proc'[p]]
      BY <1>22 DEF Exit
    <2>5. WritersOK'
      BY <1>1, <1>22, <2>3, <2>4 DEF WritersOK, Names, Exit
    <2>6. left' \in Budget
      BY <1>1, <1>22, UseType DEF Exit
    <2>7. drops' \in [Folders -> Folder]
      BY <1>1, <1>22, CutShortHalves DEF Exit, Typed
    <2> QED BY <1>1, <1>22, <2>2, <2>5, <2>6, <2>7
            DEF Exit, Typed, TypeOK, Placed, WritersOK, WindowsOK
  <1> QED BY <1>8, <1>9, <1>10, <1>11, <1>12, <1>13, <1>14, <1>15, <1>16, <1>17, <1>18, <1>19,
             <1>20, <1>21, <1>22 DEF Asks, WindowStep

(* The counting.                                                           *)
LEMMA CountedLess ==
    ASSUME TypeInv, left' \in Budget, Owing' \subseteq Owing, left'.tasks = left.tasks, UNCHANGED asked
    PROVE  Counted'
  <1>1. IsFiniteSet(Owing') /\ Cardinality(Owing') <= Cardinality(Owing)
    BY FS_Subset DEF TypeInv, Counted
  <1>2. /\ Cardinality(Owing) \in Nat /\ Cardinality(Owing') \in Nat /\ Cardinality(asked) \in Nat
        /\ left.tasks \in Nat /\ MaxTasks \in Nat
    BY <1>1, FS_CardinalityType, WhiteboardAssumption DEF TypeInv, Counted, TypeOK, Budget
  <1> QED BY <1>1, <1>2 DEF TypeInv, Counted

\* A task that begins is owed a request.
LEMMA CountedBegin ==
    ASSUME TypeInv, NEW w \in Windows, left' \in Budget, left.tasks > 0,
           Owing' \subseteq Owing \cup {w}, left'.tasks = left.tasks - 1, UNCHANGED asked
    PROVE  Counted'
  <1>1. /\ IsFiniteSet(Owing \cup {w})
        /\ Cardinality(Owing \cup {w}) = IF w \in Owing THEN Cardinality(Owing) ELSE Cardinality(Owing) + 1
    BY FS_AddElement DEF TypeInv, Counted
  <1>2. IsFiniteSet(Owing') /\ Cardinality(Owing') <= Cardinality(Owing \cup {w})
    BY <1>1, FS_Subset
  <1>3. /\ Cardinality(Owing) \in Nat /\ Cardinality(Owing') \in Nat /\ Cardinality(asked) \in Nat
        /\ left.tasks \in Nat /\ MaxTasks \in Nat
    BY <1>2, FS_CardinalityType, WhiteboardAssumption DEF TypeInv, Counted, TypeOK, Budget
  <1> QED BY <1>1, <1>2, <1>3 DEF TypeInv, Counted

\* A request is made, by an agent or by the task it was owed to.
LEMMA CountedAsk ==
    ASSUME TypeInv, left' \in Budget, NEW q \in Requests \ asked,
           q.id = MaxLegacy + Cardinality(asked) + 1, asked' = asked \cup {q},
           \/ left.tasks > 0 /\ left'.tasks = left.tasks - 1 /\ Owing' \subseteq Owing
           \/ left'.tasks = left.tasks /\ \E w \in Owing : Owing' \subseteq Owing \ {w}
    PROVE  Counted'
  <1>1. IsFiniteSet(asked') /\ Cardinality(asked') = Cardinality(asked) + 1
    BY FS_AddElement DEF TypeInv, Counted
  <1>2. /\ Cardinality(Owing) \in Nat /\ Cardinality(asked) \in Nat /\ IsFiniteSet(Owing)
        /\ left.tasks \in Nat /\ left'.tasks \in Nat /\ MaxTasks \in Nat /\ MaxLegacy \in Nat
        /\ Cardinality(asked) + Cardinality(Owing) + left.tasks <= MaxTasks
    BY FS_CardinalityType, WhiteboardAssumption DEF TypeInv, Counted, TypeOK, Budget
  <1>3. CASE left.tasks > 0 /\ left'.tasks = left.tasks - 1 /\ Owing' \subseteq Owing
    <2>1. IsFiniteSet(Owing') /\ Cardinality(Owing') <= Cardinality(Owing)
      BY <1>2, <1>3, FS_Subset
    <2>2. Cardinality(Owing') \in Nat
      BY <2>1, FS_CardinalityType
    <2>3. Cardinality(asked') + Cardinality(Owing') + left'.tasks <= MaxTasks
      BY <1>1, <1>2, <1>3, <2>1, <2>2
    <2>4. \A r \in asked' : r.id <= MaxLegacy + Cardinality(asked')
      BY <1>1, <1>2 DEF TypeInv, Counted, TypeOK, Requests, Ids
    <2> QED BY <1>1, <2>1, <2>3, <2>4 DEF Counted
  <1>4. CASE left'.tasks = left.tasks /\ \E w \in Owing : Owing' \subseteq Owing \ {w}
    <2>1. PICK w \in Owing : Owing' \subseteq Owing \ {w}
      BY <1>4
    <2>2. IsFiniteSet(Owing \ {w}) /\ Cardinality(Owing \ {w}) = Cardinality(Owing) - 1
      BY <1>2, <2>1, FS_RemoveElement
    <2>3. IsFiniteSet(Owing') /\ Cardinality(Owing') <= Cardinality(Owing \ {w})
      BY <2>1, <2>2, FS_Subset
    <2>4. Cardinality(Owing') \in Nat
      BY <2>3, FS_CardinalityType
    <2>5. Cardinality(asked') + Cardinality(Owing') + left'.tasks <= MaxTasks
      BY <1>1, <1>2, <1>4, <2>2, <2>3, <2>4
    <2>6. \A r \in asked' : r.id <= MaxLegacy + Cardinality(asked')
      BY <1>1, <1>2 DEF TypeInv, Counted, TypeOK, Requests, Ids
    <2> QED BY <1>1, <2>3, <2>5, <2>6 DEF Counted
  <1> QED BY <1>3, <1>4

(* A step of a window moves no other window.                               *)
LEMMA WindowAlone ==
    ASSUME TypeOK, NEW w \in Windows, Asks(w) \/ WindowStep(w) \/ Exit(w)
    PROVE  \A v \in Windows \ {w} : win'[v] = win[v]
  <1>1. win \in [Windows -> Window]
    BY DEF TypeOK
  <1>2. ASSUME NEW ok \in BOOLEAN, Leave(w, ok) PROVE \A v \in Windows \ {w} : win'[v] = win[v]
    BY <1>2, LeaveLeaves DEF Left
  <1>3. ASSUME NEW at, Go(w, at) PROVE \A v \in Windows \ {w} : win'[v] = win[v]
    BY <1>1, <1>3 DEF Go
  <1>4. ASSUME Abandon(w) PROVE \A v \in Windows \ {w} : win'[v] = win[v]
    BY <1>1, <1>4 DEF Abandon
  <1>5. ASSUME NEW next, WriteManifest(w, next) PROVE \A v \in Windows \ {w} : win'[v] = win[v]
    BY <1>2, <1>3, <1>5 DEF WriteManifest
  <1>6. CASE Asks(w)
    BY <1>1, <1>6 DEF Asks, Load, MakeFolder, Begin
  <1>7. CASE Mark(w) \/ Validate(w) \/ Lease(w) \/ Check(w)
    BY <1>2, <1>3, <1>4, <1>7 DEF Mark, Validate, Lease, Check
  <1>8. CASE Reserve(w) \/ Copy(w) \/ SaveManifest(w) \/ SaveReadme(w) \/ Throw(w)
    BY <1>2, <1>3, <1>5, <1>8 DEF Reserve, Copy, SaveManifest, SaveReadme, Throw
  <1>9. CASE Unlease(w) \/ Exit(w)
    BY <1>1, <1>9 DEF Unlease, Exit
  <1>10. ASSUME NEW p \in Procs, RunWriter(w, p) PROVE \A v \in Windows \ {w} : win'[v] = win[v]
    BY <1>3, <1>10 DEF RunWriter
  <1> QED BY <1>6, <1>7, <1>8, <1>9, <1>10 DEF WindowStep

(* A writer's step uses up no more ids than it was given. *)
LEMMA WriterCounted ==
    ASSUME TypeInv, Typed', NEW p \in Procs, WriterStep(p) \/ Kill(p)
    PROVE  Counted'
  <1>1. TypeOK /\ left \in Budget /\ left' \in Budget
    BY DEF TypeInv, Typed, TypeOK
  <1>2. Owing' \subseteq Owing
    BY <1>1, WriterAndWindows DEF Ended, Left, Owing, Early, Late
  <1>3. UNCHANGED asked
    BY DEF WriterStep, Kill, Acquire, GiveUp, ReadBoard, WriteFails, Rename, Retire, RetireFails,
           Sweep, Scan, Listed, Unmark, RemoveDir, Release, Delete
  <1>4. UNCHANGED left \/ Use("fails") \/ Use("kills")
    BY DEF WriterStep, Kill, Acquire, GiveUp, ReadBoard, WriteFails, Rename, Retire, RetireFails,
           Sweep, Scan, Listed, Unmark, RemoveDir, Release, Delete
  <1>5. left'.tasks = left.tasks
    BY <1>1, <1>4, UseType
  <1> QED BY <1>1, <1>2, <1>3, <1>5, CountedLess

(* A window's step asks for no more ids than its task was given. *)
LEMMA WindowCounted ==
    ASSUME TypeInv, Typed', NEW w \in Windows, Asks(w) \/ WindowStep(w) \/ Exit(w)
    PROVE  Counted'
  <1>1. /\ TypeOK /\ left \in Budget /\ left' \in Budget /\ win \in [Windows -> Window]
        /\ win[w] \in Window
    BY DEF TypeInv, Typed, TypeOK
  <1>2. \A v \in Windows \ {w} : win'[v] = win[v]
    BY <1>1, WindowAlone
  <1>3. Owing' \subseteq Owing \cup {w}
    BY <1>2 DEF Owing
  <1>4. ASSUME UNCHANGED asked, left'.tasks = left.tasks, w \in Owing' => w \in Owing
        PROVE  Counted'
    BY <1>1, <1>3, <1>4, CountedLess
  <1>5. CASE \E f \in Folders : Load(w, f)
    <2>1. Owing' \subseteq Owing
      BY <1>1, <1>3, <1>5 DEF Load, Owing, Early, Late, Blank
    <2> QED BY <1>4, <1>5, <2>1 DEF Load
  <1>6. CASE (\E f \in Folders, op \in {"create", "drop"} : MakeFolder(w, f, op))
             \/ (\E op \in {"save", "add", "remove"} : Begin(w, op))
    <2>1. Use("tasks") /\ UNCHANGED asked
      BY <1>6 DEF MakeFolder, Begin
    <2> QED BY <1>1, <1>3, <2>1, UseType, CountedBegin
  <1>7. CASE Exit(w)
    <2>1. left'.tasks = left.tasks
      BY <1>1, <1>7, UseType DEF Exit
    <2>2. w \notin Owing'
      BY <1>1, <1>7 DEF Exit, Owing, Blank, Early, Late
    <2> QED BY <1>4, <1>7, <2>1, <2>2 DEF Exit
  <1>8. CASE Unlease(w)
    <2>1. w \notin Owing'
      BY <1>1, <1>8 DEF Unlease, Owing, Blank, Early, Late, Window
    <2> QED BY <1>4, <1>8, <2>1 DEF Unlease
  <1>9. CASE Mark(w) \/ Validate(w) \/ Lease(w) \/ Check(w) \/ Reserve(w) \/ Copy(w)
             \/ SaveManifest(w) \/ SaveReadme(w) \/ Throw(w)
    <2>1. w \in Owing
      BY <1>9 DEF Mark, Validate, Lease, Check, Reserve, Copy, SaveManifest, SaveReadme, Throw,
                  Owing, Early, Late
    <2>2. UNCHANGED asked /\ (UNCHANGED left \/ Use("fails"))
      BY <1>9 DEF Mark, Validate, Lease, Check, Reserve, Copy, SaveManifest, SaveReadme, Throw
    <2>3. left'.tasks = left.tasks
      BY <1>1, <2>2, UseType
    <2> QED BY <1>4, <2>1, <2>2, <2>3
  <1>10. ASSUME NEW p \in Procs, RunWriter(w, p) PROVE Counted'
    <2> DEFINE q == [id |-> NextId, op |-> WriterOp(win[w].op), folder |-> win[w].folder]
    <2>1. win[w].at = "run" /\ asked' = asked \cup {q} /\ Go(w, "wait") /\ UNCHANGED left
      BY <1>10 DEF RunWriter
    <2>2. w \in Owing /\ WriterOp(win[w].op) \in {"drop", "replace", "remove"}
      BY <2>1 DEF Owing, Late, WriterOp
    <2>3. q \in Requests \ asked /\ q.id = MaxLegacy + Cardinality(asked) + 1
      BY <1>1, <2>2, NextIdIsNew DEF Window
    <2>4. w \notin Owing'
      BY <1>1, <2>1 DEF Owing, Go, Early, Late, Window
    <2>5. Owing' \subseteq Owing \ {w}
      BY <1>3, <2>4
    <2> HIDE DEF q
    <2> QED BY <1>1, <2>1, <2>2, <2>3, <2>5, CountedAsk
  <1> QED BY <1>5, <1>6, <1>7, <1>8, <1>9, <1>10 DEF Asks, WindowStep

(* The writers an agent starts keep the types and the count of ids. *)
LEMMA AgentTyped ==
    ASSUME TypeInv, NEW p \in Procs, AgentPublishes(p) \/ AgentPrunes(p)
    PROVE  TypeInv'
  <1>1. /\ WritersOK /\ WindowsOK /\ board \in Seq(Post) /\ lock \in BOOLEAN
        /\ drops \in [Folders -> Folder] /\ names \subseteq Folders \cup Copies
        /\ left \in Budget /\ asked \subseteq Requests /\ done \subseteq asked
        /\ Typed /\ TypeOK
    BY TypedParts DEF Typed, TypeInv
  <1>2. CASE AgentPublishes(p)
    <2> DEFINE q == [id |-> NextId, op |-> "publish", folder |-> NoOne]
    <2>1. Start(p, q, NoOne) /\ Use("tasks") /\ asked' = asked \cup {q} /\ UNCHANGED win
      BY <1>2 DEF AgentPublishes
    <2>2. left' \in Budget /\ left.tasks > 0 /\ left'.tasks = left.tasks - 1
      BY <1>1, <2>1, UseType
    <2>3. q \in Requests \ asked /\ q.id = MaxLegacy + Cardinality(asked) + 1
      BY <2>2, NextIdIsNew
    <2>4. Names(q)
      BY DEF Names
    <2> HIDE DEF q
    <2>5. WritersOK'
      BY <1>1, <2>1, <2>3, <2>4, StartType
    <2>6. Typed'
      BY <1>1, <2>1, <2>2, <2>3, <2>5 DEF Start, Typed, TypeOK, Placed, WritersOK, WindowsOK
    <2>7. Owing' = Owing
      BY <2>1 DEF Owing
    <2>8. Counted'
      BY <2>1, <2>2, <2>3, <2>7, CountedAsk
    <2> QED BY <2>6, <2>8 DEF Typed, TypeInv
  <1>3. CASE AgentPrunes(p)
    <2>1. Start(p, Pruning, NoOne) /\ UNCHANGED <<win, left, asked>>
      BY <1>3 DEF AgentPrunes
    <2>2. Names(Pruning)
      BY DEF Names, Pruning
    <2>3. WritersOK'
      BY <1>1, <2>1, <2>2, StartType
    <2>4. Typed'
      BY <1>1, <2>1, <2>3 DEF Start, Typed, TypeOK, Placed, WritersOK, WindowsOK
    <2>5. Owing' = Owing
      BY <2>1 DEF Owing
    <2>6. Counted'
      BY <1>1, <2>1, <2>5, CountedLess
    <2> QED BY <2>4, <2>6 DEF Typed, TypeInv
  <1> QED BY <1>2, <1>3

\* The other steps: the claim of a dead writer is cleared, a file is opened or
\* closed elsewhere, nothing happens.
Aside == \/ ClearLock
         \/ \E f \in Folders, x \in Copies : OpenFile(f, x)
         \/ \E x \in Copies : CloseFile(x)
         \/ UNCHANGED vars

(* Budgets, open files and the cleared lock keep the types. *)
LEMMA AsideTyped == ASSUME TypeInv, Aside PROVE TypeInv'
  <1>1. UNCHANGED <<board, drops, proc, win, names, asked, done>> /\ lock' \in BOOLEAN
    BY DEF Aside, ClearLock, OpenFile, CloseFile, vars, TypeInv, TypeOK
  <1>2. UNCHANGED left \/ Use("holds")
    BY DEF Aside, ClearLock, OpenFile, CloseFile, vars
  <1>3. left' \in Budget /\ left'.tasks = left.tasks
    BY <1>2, UseType DEF TypeInv, TypeOK
  <1>4. Typed'
    BY <1>1, <1>3 DEF TypeInv, Typed, TypeOK, Placed
  <1>5. Owing' = Owing
    BY <1>1 DEF Owing
  <1>6. Counted'
    BY <1>1, <1>3, <1>5, CountedLess
  <1> QED BY <1>4, <1>6 DEF Typed, TypeInv

(* Every step keeps the type invariant. *)
LEMMA NextTyped == ASSUME TypeInv, [Next]_vars PROVE TypeInv'
  <1>1. ASSUME NEW p \in Procs, WriterStep(p) \/ Kill(p) PROVE TypeInv'
    BY <1>1, WriterTyped, WriterCounted DEF TypeInv, Typed
  <1>2. ASSUME NEW w \in Windows, Asks(w) \/ WindowStep(w) \/ Exit(w) PROVE TypeInv'
    BY <1>2, WindowTyped, WindowCounted DEF TypeInv, Typed
  <1> QED BY <1>1, <1>2, AgentTyped, AsideTyped DEF Next, Aside

(* The type invariant holds at first. *)
LEMMA InitTyped == Init => TypeInv
  <1> SUFFICES ASSUME Init PROVE TypeInv
    OBVIOUS
  <1>1. board \in Seq(Post)
    <2>1. PICK n \in 0..MaxLegacy : board = Legacy(n)
      BY DEF Init
    <2>2. n \in Nat
      BY <2>1, WhiteboardAssumption
    <2>3. \A i \in 1..n : [id |-> i, folder |-> NoOne, text |-> i] \in Post
      BY <2>2 DEF Post
    <2>4. [i \in 1..n |-> [id |-> i, folder |-> NoOne, text |-> i]] \in [1..n -> Post]
      BY <2>3
    <2>5. board \in [1..n -> Post]
      BY <2>1, <2>4 DEF Legacy
    <2> QED BY <2>2, <2>5, IsASeq
  <1>2. drops \in [Folders -> Folder]
    BY DEF Init, Unused, Folder
  <1>3. proc \in [Procs -> Writer] /\ \A p \in Procs : proc[p] = Idle
    BY IdleType DEF Init
  <1>4. \A p \in Procs : /\ proc[p].at = "idle" /\ proc[p].req = Pruning
    BY <1>3, IdleType
  <1>5. Blank \in Window /\ Blank.at = "idle" /\ Blank.op = "none"
    BY DEF Blank, Window
  <1>6. win \in [Windows -> Window] /\ \A w \in Windows : win[w].at = "idle" /\ win[w].op = "none"
    BY <1>5 DEF Init
  <1>7. left \in Budget /\ left.tasks <= MaxTasks
    BY WhiteboardAssumption DEF Init, Budget
  <1>8. TypeOK
    BY <1>1, <1>2, <1>3, <1>6, <1>7 DEF TypeOK, Init
  <1>9. Placed
    BY <1>4, <1>6 DEF Placed, AtFolder, Names, Pruning
  <1>10. Owing = {} /\ asked = {}
    BY <1>6 DEF Owing, Init, Early, Late
  <1>11. IsFiniteSet({}) /\ Cardinality({}) = 0
    BY FS_EmptySet
  <1>12. Counted
    BY <1>7, <1>10, <1>11, WhiteboardAssumption DEF Counted, Budget
  <1> QED BY <1>8, <1>9, <1>12 DEF TypeInv

(* The types hold in every behaviour.                                      *)
THEOREM TypesHold == Spec => []TypeInv
  <1>1. TypeInv /\ [Next]_vars => TypeInv'
    BY NextTyped
  <1> QED BY <1>1, InitTyped, PTL DEF Spec

-----------------------------------------------------------------------------
(* The board.  One process at a time holds the claim, a request is in one  *)
(* process and until it is renamed onto the board it is not done, and what *)
(* a process is about to write is the edit of the board as it is now.      *)

Exclusive ==
    /\ \A p \in Procs : proc[p].at \in Holding => lock
    /\ \A p, q \in Procs : proc[p].at \in Holding /\ proc[q].at \in Holding => p = q

Requested ==
    /\ \A p \in Procs : proc[p].at = "idle" => proc[p].req = Pruning
    /\ \A p \in Procs : proc[p].at \in Deciding \cup {"locked", "edited"} => proc[p].req \notin done
    /\ \A p, q \in Procs : proc[p].req = proc[q].req => p = q \/ proc[p].req = Pruning

Computed ==
    \A p \in Procs : proc[p].at = "edited" =>
        proc[p].out = Newest(Edited(board, proc[p].req)) /\ Found(board, proc[p].req)

BoardInv == Exclusive /\ Requested /\ Computed /\ Pruning \notin done

(* The steps, as far as the board and the claim go.                        *)
Same(p) == proc'[p].at = proc[p].at /\ proc'[p].req = proc[p].req /\ proc'[p].out = proc[p].out
Others(p) == \A q \in Procs \ {p} : Same(q)

Inner == /\ UNCHANGED <<board, lock, asked, done>>
         /\ \A p \in Procs : Same(p) \/ /\ proc[p].at \in Cleaning /\ proc'[p].at \in Cleaning
                                        /\ proc'[p].req = proc[p].req

Starts(p, q) == /\ UNCHANGED <<board, lock, done>> /\ Others(p)
                /\ q = Pruning \/ q \in Requests \ asked
                /\ asked' = asked \cup ({q} \ {Pruning})
                /\ proc[p].at = "idle" /\ proc'[p].at \in Deciding /\ proc'[p].req = q

Claims(p) == /\ UNCHANGED <<board, asked, done>> /\ Others(p)
             /\ ~lock /\ lock' = TRUE
             /\ proc[p].at = "begin" /\ proc'[p].at = "locked" /\ proc'[p].req = proc[p].req

Ends(p) == /\ UNCHANGED <<board, asked, done>> /\ Others(p)
           /\ proc'[p].at = "idle" /\ proc'[p].req = Pruning
           /\ \/ lock' = lock
              \/ lock' = FALSE /\ proc[p].at \in Holding

Reads(p) == /\ UNCHANGED <<board, lock, asked, done>> /\ Others(p)
            /\ proc[p].at = "locked" /\ proc'[p].at = "edited" /\ proc'[p].req = proc[p].req
            /\ proc'[p].out = Newest(Edited(board, proc[p].req)) /\ Found(board, proc[p].req)

Renames(p) == /\ UNCHANGED <<lock, asked>> /\ Others(p)
              /\ proc[p].at = "edited" /\ proc'[p].at = "cleaning" /\ proc'[p].req = proc[p].req
              /\ board' = proc[p].out
              /\ done' = done \cup ({proc[p].req} \ {Pruning})

Frees == /\ UNCHANGED <<board, asked, done>> /\ \A p \in Procs : Same(p)
         /\ lock' = FALSE /\ \A p \in Procs : proc[p].at = "idle"

(* Start, in terms of the records the board's proof looks at. *)
LEMMA StartShape ==
    ASSUME TypeOK, NEW p \in Procs, NEW q, NEW w, Start(p, q, w)
    PROVE  /\ UNCHANGED <<board, lock, done>> /\ Others(p)
           /\ proc[p].at = "idle" /\ proc'[p].at \in Deciding /\ proc'[p].req = q
  BY DEF TypeOK, Start, Others, Same, Idle, Deciding

(* End, in terms of the records the board's proof looks at. *)
LEMMA EndShape ==
    ASSUME TypeOK, NEW p \in Procs, NEW ok, End(p, ok)
    PROVE  Others(p) /\ proc'[p].at = "idle" /\ proc'[p].req = Pruning
  BY DEF TypeOK, End, Others, Same, Idle

(* A writer's step is one of the shapes: it moves on, publishes, removes, prunes, ends. *)
LEMMA WriterShape ==
    ASSUME TypeInv, NEW p \in Procs, WriterStep(p) \/ Kill(p)
    PROVE  Inner \/ Claims(p) \/ Ends(p) \/ Reads(p) \/ Renames(p)
  <1>1. TypeOK /\ proc \in [Procs -> Writer] /\ proc[p] \in Writer /\ proc[p].req \in Requests \cup {Pruning}
    BY DEF TypeInv, TypeOK, Writer
  <1>2. CASE Acquire(p)
    BY <1>1, <1>2 DEF Acquire, Claims, Others, Same, Writer
  <1>3. CASE GiveUp(p) \/ Kill(p)
    BY <1>1, <1>3, EndShape DEF GiveUp, Kill, Ends
  <1>4. CASE WriteFails(p)
    BY <1>1, <1>4, EndShape DEF WriteFails, Ends, Holding
  <1>5. CASE Release(p)
    BY <1>1, <1>5, EndShape DEF Release, Ends, Holding, Cleaning
  <1>6. CASE ReadBoard(p)
    <2>1. CASE Refused(proc[p].req)
      BY <1>1, <1>6, <2>1, EndShape DEF ReadBoard, Ends, Holding
    <2>2. CASE ~Refused(proc[p].req)
      <3>1. Found(board, proc[p].req)
        BY <1>1, <2>2, RefusedOrFound
      <3> DEFINE out == Newest(Edited(board, proc[p].req))
                 r == [proc[p] EXCEPT !.at = "edited", !.out = out,
                                      !.todo = FoldersOf(board) \ FoldersOf(out)]
      <3>2. /\ proc' = [proc EXCEPT ![p] = r] /\ UNCHANGED <<board, lock, asked, done>>
            /\ proc[p].at = "locked"
        BY <1>6, <2>2 DEF ReadBoard
      <3> HIDE DEF out
      <3>3. r.at = "edited" /\ r.req = proc[p].req /\ r.out = out
        BY <1>1 DEF Writer
      <3> HIDE DEF r
      <3>4. Others(p) /\ proc'[p].at = "edited" /\ proc'[p].req = proc[p].req /\ proc'[p].out = out
        BY <1>1, <3>2, <3>3 DEF Others, Same
      <3> USE DEF out
      <3> QED BY <3>1, <3>2, <3>4 DEF Reads
    <2> QED BY <2>1, <2>2
  <1>7. CASE Rename(p)
    BY <1>1, <1>7 DEF Rename, Renames, Others, Same, Writer
  <1>13. ASSUME NEW r, proc' = [proc EXCEPT ![p] = r], proc[p].at \in Cleaning, r.at \in Cleaning,
                r.req = proc[p].req, UNCHANGED <<board, lock, asked, done>>
         PROVE  Inner
    BY <1>1, <1>13 DEF Inner, Same
  <1>8. ASSUME NEW f \in Folders, Retire(p, f) \/ RetireFails(p, f) \/ Sweep(p, f) PROVE Inner
    <2> DEFINE a == [proc[p] EXCEPT !.todo = proc[p].todo \ {f}]
               b == [proc[p] EXCEPT !.at = "listing", !.cur = f, !.todo = proc[p].todo \ {f}]
    <2>1. proc' = [proc EXCEPT ![p] = a] \/ proc' = [proc EXCEPT ![p] = b]
      BY <1>1, <1>8 DEF Retire, RetireFails, Sweep
    <2>2. a.at = proc[p].at /\ a.req = proc[p].req /\ b.at = "listing" /\ b.req = proc[p].req
      BY <1>1 DEF Writer
    <2> HIDE DEF a, b
    <2>3. proc[p].at = "cleaning" /\ UNCHANGED <<board, lock, asked, done>>
      BY <1>8 DEF Retire, RetireFails, Sweep
    <2>4. "cleaning" \in Cleaning /\ "listing" \in Cleaning
      BY DEF Cleaning
    <2> QED BY <1>13, <2>1, <2>2, <2>3, <2>4
  <1>9. CASE Scan(p)
    BY <1>1, <1>9 DEF Scan, Inner, Same, Cleaning, Writer
  <1>10. CASE Listed(p)
    <2> DEFINE a == [proc[p] EXCEPT !.at = "deleting", !.rest = drops[proc[p].cur].files]
               b == [proc[p] EXCEPT !.at = "cleaning", !.cur = NoOne]
    <2>1. proc' = [proc EXCEPT ![p] = a] \/ proc' = [proc EXCEPT ![p] = b]
      BY <1>10 DEF Listed
    <2>2. a.at = "deleting" /\ a.req = proc[p].req /\ b.at = "cleaning" /\ b.req = proc[p].req
      BY <1>1 DEF Writer
    <2> HIDE DEF a, b
    <2> QED BY <1>1, <1>10, <1>13, <2>1, <2>2 DEF Listed, Cleaning
  <1>11. CASE Unmark(p) \/ RemoveDir(p)
    <2> DEFINE a == [proc[p] EXCEPT !.at = "empty"]
               b == [proc[p] EXCEPT !.at = "cleaning", !.cur = NoOne]
    <2>1. proc' = [proc EXCEPT ![p] = a] \/ proc' = [proc EXCEPT ![p] = b]
      BY <1>1, <1>11 DEF Unmark, RemoveDir
    <2>2. a.at = "empty" /\ a.req = proc[p].req /\ b.at = "cleaning" /\ b.req = proc[p].req
      BY <1>1 DEF Writer
    <2> HIDE DEF a, b
    <2>3. proc[p].at \in Cleaning /\ UNCHANGED <<board, lock, asked, done>>
      BY <1>11 DEF Unmark, RemoveDir, Cleaning
    <2>4. "cleaning" \in Cleaning /\ "empty" \in Cleaning
      BY DEF Cleaning
    <2> QED BY <1>13, <2>1, <2>2, <2>3, <2>4
  <1>12. ASSUME NEW x \in Files, Delete(p, x) PROVE Inner
    <2> DEFINE a == [proc[p] EXCEPT !.at = "cleaning", !.cur = NoOne, !.rest = {}]
               b == [proc[p] EXCEPT !.rest = proc[p].rest \ {x}]
    <2>1. proc' = [proc EXCEPT ![p] = a] \/ proc' = [proc EXCEPT ![p] = b]
      BY <1>1, <1>12 DEF Delete
    <2>2. a.at = "cleaning" /\ a.req = proc[p].req /\ b.at = proc[p].at /\ b.req = proc[p].req
      BY <1>1 DEF Writer
    <2> HIDE DEF a, b
    <2>3. proc[p].at = "deleting" /\ UNCHANGED <<board, lock, asked, done>>
      BY <1>12 DEF Delete
    <2>4. "cleaning" \in Cleaning /\ "deleting" \in Cleaning
      BY DEF Cleaning
    <2> QED BY <1>13, <2>1, <2>2, <2>3, <2>4
  <1> QED BY <1>2, <1>3, <1>4, <1>5, <1>6, <1>7, <1>8, <1>9, <1>10, <1>11, <1>12 DEF WriterStep

(* A window's step leaves the board, and asks for at most one request. *)
LEMMA WindowShape ==
    ASSUME TypeInv, NEW w \in Windows, Asks(w) \/ WindowStep(w) \/ Exit(w)
    PROVE  Inner \/ \E p \in Procs, q \in Requests : Starts(p, q)
  <1>1. TypeOK /\ proc \in [Procs -> Writer]
    BY DEF TypeInv, TypeOK
  <1>2. CASE Exit(w)
    <2>1. ASSUME NEW p \in Procs PROVE Same(p)
      <3>1. proc[p] \in Writer /\ proc'[p] = IF proc[p].by = w THEN [proc[p] EXCEPT !.by = NoOne] ELSE proc[p]
        BY <1>1, <1>2 DEF Exit
      <3> QED BY <3>1 DEF Same, Writer
    <2> QED BY <1>2, <2>1 DEF Exit, Inner
  <1>3. ASSUME NEW p \in Procs, RunWriter(w, p) PROVE \E q \in Requests : Starts(p, q)
    <2> DEFINE q == [id |-> NextId, op |-> WriterOp(win[w].op), folder |-> win[w].folder]
    <2>1. win[w].at = "run" /\ Start(p, q, w) /\ asked' = asked \cup {q}
      BY <1>3 DEF RunWriter
    <2>2. w \in Owing /\ WriterOp(win[w].op) \in {"drop", "replace", "remove"}
      BY <2>1 DEF Owing, Late, WriterOp
    <2>3. win[w].folder \in Folders \cup {NoOne}
      BY <1>1 DEF TypeOK, Window
    <2>4. q \in Requests \ asked
      BY <2>2, <2>3, NextIdIsNew
    <2>5. q # Pruning
      BY <2>2 DEF Pruning
    <2> HIDE DEF q
    <2>6. Starts(p, q)
      BY <1>1, <2>1, <2>4, <2>5, StartShape DEF Starts
    <2> QED BY <2>4, <2>6
  <1>4. CASE ~Exit(w) /\ ~\E p \in Procs : RunWriter(w, p)
    <2>1. UNCHANGED <<board, lock, proc, asked, done>>
      BY <1>4 DEF Asks, WindowStep, Load, MakeFolder, Begin, Mark, Validate, Lease, Check, Reserve,
                  Copy, SaveManifest, SaveReadme, Throw, Unlease
    <2> QED BY <2>1 DEF Inner, Same
  <1> QED BY <1>2, <1>3, <1>4

(* A writer started by an agent begins a new request or a pruning. *)
LEMMA AgentShape ==
    ASSUME TypeInv, NEW p \in Procs, AgentPublishes(p) \/ AgentPrunes(p)
    PROVE  \E q \in Requests \cup {Pruning} : Starts(p, q)
  <1>1. TypeOK /\ left \in Budget
    BY DEF TypeInv, TypeOK
  <1>2. CASE AgentPublishes(p)
    <2> DEFINE q == [id |-> NextId, op |-> "publish", folder |-> NoOne]
    <2>1. Start(p, q, NoOne) /\ Use("tasks") /\ asked' = asked \cup {q}
      BY <1>2 DEF AgentPublishes
    <2>2. left.tasks > 0
      BY <1>1, <2>1, UseType
    <2>3. q \in Requests \ asked /\ q # Pruning
      BY <2>2, NextIdIsNew DEF Pruning
    <2> HIDE DEF q
    <2>4. Starts(p, q)
      BY <1>1, <2>1, <2>3, StartShape DEF Starts
    <2> QED BY <2>3, <2>4
  <1>3. CASE AgentPrunes(p)
    BY <1>1, <1>3, StartShape DEF AgentPrunes, Starts
  <1> QED BY <1>2, <1>3

(* The other steps leave board, requests and writers alone. *)
LEMMA AsideShape == ASSUME TypeInv, Aside PROVE Inner \/ Frees
  BY DEF Aside, ClearLock, OpenFile, CloseFile, vars, Inner, Frees, Same

(* Every step has one of the shapes. *)
LEMMA Shapes ==
    ASSUME TypeInv, [Next]_vars
    PROVE  \/ Inner \/ Frees
           \/ \E p \in Procs : \/ Claims(p) \/ Ends(p) \/ Reads(p) \/ Renames(p)
                               \/ \E q \in Requests \cup {Pruning} : Starts(p, q)
  <1>1. CASE \E p \in Procs : WriterStep(p) \/ Kill(p)
    BY <1>1, WriterShape
  <1>2. CASE \E p \in Procs : AgentPublishes(p) \/ AgentPrunes(p)
    BY <1>2, AgentShape
  <1>3. CASE \E w \in Windows : Asks(w) \/ WindowStep(w) \/ Exit(w)
    BY <1>3, WindowShape
  <1>4. CASE Aside
    BY <1>4, AsideShape
  <1> QED BY <1>1, <1>2, <1>3, <1>4 DEF Next, Aside

(* Every step keeps BoardInv. *)
LEMMA NextBoard ==
    ASSUME TypeInv, TypeInv', BoardInv, [Next]_vars
    PROVE  BoardInv'
  <1>1. /\ \A p \in Procs : proc[p].req \in asked \cup {Pruning}
        /\ done \subseteq asked /\ asked \subseteq Requests
        /\ Pruning \notin Requests
        /\ "idle" \notin Holding \cup Deciding /\ "locked" \in Holding /\ "edited" \in Holding
        /\ Deciding \cap Holding = {} /\ Cleaning \subseteq Holding
        /\ "edited" \notin Cleaning /\ "locked" \notin Cleaning /\ "cleaning" \in Cleaning
        /\ "begin" \in Deciding
    <2>1. Pruning \notin Requests
      BY DEF Pruning, Requests
    <2> QED BY <2>1 DEF TypeInv, TypeOK, Placed, Holding, Deciding, Cleaning
  <1>2. CASE Inner
    <2>1. Exclusive' /\ Requested'
      BY <1>1, <1>2 DEF BoardInv, Exclusive, Requested, Inner, Same
    <2>2. Computed'
      BY <1>1, <1>2 DEF BoardInv, Computed, Inner, Same
    <2> QED BY <1>2, <2>1, <2>2 DEF Inner, BoardInv
  <1>3. CASE Frees
    <2>1. Exclusive' /\ Requested'
      BY <1>1, <1>3 DEF BoardInv, Exclusive, Requested, Frees, Same
    <2>2. Computed'
      BY <1>1, <1>3 DEF BoardInv, Computed, Frees, Same
    <2> QED BY <1>3, <2>1, <2>2 DEF Frees, BoardInv
  <1>4. ASSUME NEW p \in Procs, NEW q \in Requests \cup {Pruning}, Starts(p, q) PROVE BoardInv'
    <2>1. Exclusive'
      BY <1>1, <1>4 DEF BoardInv, Exclusive, Starts, Others, Same
    <2>2. Requested'
      BY <1>1, <1>4 DEF BoardInv, Requested, Starts, Others, Same
    <2>3. Computed'
      BY <1>1, <1>4 DEF BoardInv, Computed, Starts, Others, Same
    <2> QED BY <1>4, <2>1, <2>2, <2>3 DEF Starts, BoardInv
  <1>5. ASSUME NEW p \in Procs, Claims(p) PROVE BoardInv'
    <2>1. Exclusive'
      BY <1>1, <1>5 DEF BoardInv, Exclusive, Claims, Others, Same
    <2>2. Requested'
      BY <1>1, <1>5 DEF BoardInv, Requested, Claims, Others, Same
    <2>3. Computed'
      BY <1>1, <1>5 DEF BoardInv, Computed, Claims, Others, Same
    <2> QED BY <1>5, <2>1, <2>2, <2>3 DEF Claims, BoardInv
  <1>6. ASSUME NEW p \in Procs, Ends(p) PROVE BoardInv'
    <2>1. Exclusive'
      BY <1>1, <1>6 DEF BoardInv, Exclusive, Ends, Others, Same
    <2>2. Requested'
      BY <1>1, <1>6 DEF BoardInv, Requested, Ends, Others, Same
    <2>3. Computed'
      BY <1>1, <1>6 DEF BoardInv, Computed, Ends, Others, Same
    <2> QED BY <1>6, <2>1, <2>2, <2>3 DEF Ends, BoardInv
  <1>7. ASSUME NEW p \in Procs, Reads(p) PROVE BoardInv'
    <2>1. Exclusive'
      BY <1>1, <1>7 DEF BoardInv, Exclusive, Reads, Others, Same
    <2>2. Requested'
      BY <1>1, <1>7 DEF BoardInv, Requested, Reads, Others, Same
    <2>3. Computed'
      BY <1>1, <1>7 DEF BoardInv, Computed, Reads, Others, Same
    <2> QED BY <1>7, <2>1, <2>2, <2>3 DEF Reads, BoardInv
  <1>8. ASSUME NEW p \in Procs, Renames(p) PROVE BoardInv'
    <2>1. Exclusive'
      BY <1>1, <1>8 DEF BoardInv, Exclusive, Renames, Others, Same
    <2>2. Requested'
      BY <1>1, <1>8 DEF BoardInv, Requested, Renames, Others, Same
    <2>3. Computed'
      <3>1. \A q \in Procs : proc'[q].at # "edited"
        BY <1>1, <1>8 DEF BoardInv, Exclusive, Renames, Others, Same
      <3> QED BY <3>1 DEF Computed
    <2> QED BY <1>8, <2>1, <2>2, <2>3 DEF Renames, BoardInv
  <1> QED BY <1>2, <1>3, <1>4, <1>5, <1>6, <1>7, <1>8, Shapes

(* BoardInv holds at first. *)
LEMMA InitBoard == Init => BoardInv
  <1> SUFFICES ASSUME Init PROVE BoardInv
    OBVIOUS
  <1>1. \A p \in Procs : proc[p].at = "idle" /\ proc[p].req = Pruning
    BY IdleType DEF Init
  <1>2. "idle" \notin Holding \cup Deciding
    BY DEF Holding, Deciding, Cleaning
  <1> QED BY <1>1, <1>2 DEF Init, BoardInv, Exclusive, Requested, Computed

(* The types and BoardInv hold in every reachable state. *)
LEMMA BoardInvariant == Spec => [](TypeInv /\ BoardInv)
  <1>1. TypeInv /\ BoardInv /\ [Next]_vars => TypeInv' /\ BoardInv'
    BY NextTyped, NextBoard
  <1> QED BY <1>1, InitTyped, InitBoard, PTL DEF Spec

(* The cut the code computes is the cut the abstract board allows.         *)
LEMMA NewestCuts ==
    ASSUME NEW s \in Seq(Post)
    PROVE  Board!CutTo(s, Newest(s))
  <1>1. MaxEntries \in Nat \ {0} /\ Len(s) \in Nat /\ \A i \in 1..Len(s) : s[i] \in Post
    BY WhiteboardAssumption
  <1>2. CASE Len(s) <= MaxEntries
    <2>1. Newest(s) = s
      BY <1>1, <1>2 DEF Newest
    <2>2. SubSeq(s, 0 + 1, Len(s)) = s
      BY SubSeqFull
    <2>3. 0 \in 0..Len(s)
      BY <1>1
    <2> QED BY <1>2, <2>1, <2>2, <2>3 DEF Board!CutTo
  <1>3. CASE Len(s) > MaxEntries
    <2>0. Len(s) - MaxEntries \in 0..Len(s)
      BY <1>1, <1>3
    <2>1. PICK k \in 0..Len(s) : k = Len(s) - MaxEntries
      BY <2>0
    <2>2. Newest(s) = SubSeq(s, k + 1, Len(s))
      BY <1>1, <1>3, <2>1 DEF Newest
    <2>3. k + 1 \in Int /\ Len(s) \in Int /\ k + 1 <= Len(s) /\ \A i \in k + 1..Len(s) : s[i] \in Post
      BY <1>1, <1>3, <2>1
    <2>4. Len(SubSeq(s, k + 1, Len(s))) = Len(s) - (k + 1) + 1
      BY <2>3, SubSeqProperties
    <2>5. Len(Newest(s)) = MaxEntries
      BY <1>1, <1>3, <2>1, <2>2, <2>4
    <2> QED BY <1>1, <2>2, <2>5 DEF Board!CutTo
  <1> QED BY <1>1, <1>2, <1>3

\* The rename of process p is its request taking effect on the board of that
\* moment.
LEMMA RenameApplies ==
    ASSUME TypeInv, BoardInv, NEW p \in Procs, Renames(p)
    PROVE  Board!Next
  <1> DEFINE q == proc[p].req
             e == Edited(board, q)
  <1>1. /\ board \in Seq(Post) /\ q \in Requests \cup {Pruning} /\ q \in asked \cup {Pruning}
        /\ asked \subseteq Requests
    BY DEF TypeInv, TypeOK, Writer, Placed
  <1>2. Found(board, q) /\ board' = Newest(e) /\ asked' = asked /\ done' = done \cup ({q} \ {Pruning})
        /\ q \notin done
    BY DEF BoardInv, Computed, Requested, Renames
  <1>3. e \in Seq(Post)
    BY <1>1, <1>2, EditedType
  <1>4. Board!CutTo(e, board')
    BY <1>2, <1>3, NewestCuts
  <1>5. CASE q = Pruning
    <2>1. e = board
      BY <1>5 DEF Edited, Pruning
    <2>2. done' = done
      BY <1>2, <1>5
    <2> HIDE DEF e
    <2>3. Board!Prune
      BY <1>2, <1>4, <2>1, <2>2 DEF Board!Prune
    <2> QED BY <2>3 DEF Board!Next
  <1>6. CASE q # Pruning
    <2>1. q \in asked \ done /\ q \in Requests /\ done' = done \cup {q}
      BY <1>1, <1>2, <1>6
    <2>2. CASE q.op \in {"publish", "drop"}
      <3>1. e = Append(board, [id |-> q.id, folder |-> q.folder, text |-> q.id])
        BY <2>2 DEF Edited
      <3> HIDE DEF e, q
      <3>2. Board!Publish(q)
        BY <1>4, <3>1 DEF Board!Publish
      <3>3. Board!Apply(q)
        BY <1>2, <2>1, <2>2, <3>2 DEF Board!Apply
      <3> QED BY <2>1, <3>3 DEF Board!Next
    <2>3. CASE q.op = "replace"
      <3>1. e = [board EXCEPT ![First(board, q.folder)].text = q.id]
        BY <2>3 DEF Edited
      <3>2. First(board, q.folder) \in DOMAIN board /\ board[First(board, q.folder)].folder = q.folder
        BY <1>1, <1>2, <2>3, FirstIsThere DEF Found
      <3> HIDE DEF e, q
      <3>3. Board!Rewrite(q)
        BY <1>4, <3>1, <3>2 DEF Board!Rewrite
      <3>4. Board!Apply(q)
        BY <1>2, <2>1, <2>3, <3>3 DEF Board!Apply
      <3> QED BY <2>1, <3>4 DEF Board!Next
    <2>4. CASE q.op = "remove"
      <3>1. e = Without(board, First(board, q.folder))
        BY <2>4 DEF Edited
      <3>2. First(board, q.folder) \in DOMAIN board /\ board[First(board, q.folder)].folder = q.folder
        BY <1>1, <1>2, <2>4, FirstIsThere DEF Found
      <3> HIDE DEF e, q
      <3>3. Board!Remove(q)
        BY <1>4, <3>1, <3>2 DEF Board!Remove, Without
      <3>4. Board!Apply(q)
        BY <1>2, <2>1, <2>4, <3>3 DEF Board!Apply
      <3> QED BY <2>1, <3>4 DEF Board!Next
    <2> QED BY <2>1, <2>2, <2>3, <2>4 DEF Requests
  <1> QED BY <1>5, <1>6

(* Every step changes the abstract board by one request, or not at all. *)
LEMMA BoardStep ==
    ASSUME TypeInv, BoardInv, [Next]_vars
    PROVE  [Board!Next]_<<board, asked, done>>
  <1>1. CASE \/ Inner \/ Frees \/ \E p \in Procs : Claims(p) \/ Ends(p) \/ Reads(p)
    BY <1>1 DEF Inner, Frees, Claims, Ends, Reads
  <1>2. ASSUME NEW p \in Procs, NEW q \in Requests \cup {Pruning}, Starts(p, q)
        PROVE  [Board!Next]_<<board, asked, done>>
    <2>1. CASE q = Pruning
      BY <1>2, <2>1 DEF Starts
    <2>2. CASE q # Pruning
      <3>1. q \in Requests \ asked /\ asked' = asked \cup {q} /\ UNCHANGED <<board, done>>
        BY <1>2, <2>2 DEF Starts
      <3>2. Board!Ask(q)
        BY <3>1 DEF Board!Ask
      <3> QED BY <3>1, <3>2 DEF Board!Next
    <2> QED BY <2>1, <2>2
  <1>3. ASSUME NEW p \in Procs, Renames(p) PROVE [Board!Next]_<<board, asked, done>>
    BY <1>3, RenameApplies
  <1> QED BY <1>1, <1>2, <1>3, Shapes

\* Whatever writers run at once, fail or are killed, whiteboard.md changes as
\* the abstract board: each request at most once, at one moment, on the posts
\* of that moment (write_board_with under BoardLock).
THEOREM TheBoardIsAtomic == Spec => BoardSpec
  <1>1. Init => Board!Init
    BY DEF Init, Board!Init
  <1>2. TypeInv /\ BoardInv /\ [Next]_vars => [Board!Next]_<<board, asked, done>>
    BY BoardStep
  <1> QED BY <1>1, <1>2, BoardInvariant, PTL DEF Spec, BoardSpec, Board!Spec

-----------------------------------------------------------------------------
(* The folders.  The steps, as far as the folders and the tasks go.        *)

Turn(p) == \A q \in Procs \ {p} : proc'[q] = proc[q]
Keeps(p) == Turn(p) /\ proc'[p].req = proc[p].req /\ proc'[p].by = proc[p].by

Quiet(p) ==
    /\ Keeps(p) /\ UNCHANGED <<board, drops, win, names>>
    /\ proc'[p].cur \in {proc[p].cur, NoOne}
    /\ \/ proc[p].at = "begin" /\ proc'[p].at = "locked" /\ proc'[p].todo = proc[p].todo
          /\ proc'[p].scanned = proc[p].scanned
       \/ proc[p].at = "locked" /\ proc'[p].at = "edited"
          /\ proc'[p].todo = FoldersOf(board) \ FoldersOf(proc'[p].out)
       \/ proc[p].at \in Cleaning /\ proc'[p].at = "cleaning"
          /\ \/ proc'[p].todo \subseteq proc[p].todo /\ proc'[p].scanned = proc[p].scanned
             \/ proc'[p].todo \subseteq {f \in Folders : drops[f].dir} /\ proc'[p].scanned = TRUE

Publish(p) ==
    /\ Keeps(p) /\ UNCHANGED <<drops, win, names>>
    /\ proc[p].at = "edited" /\ proc'[p].at = "cleaning" /\ board' = proc[p].out
    /\ proc'[p].cur = proc[p].cur /\ proc'[p].todo = proc[p].todo
    /\ proc'[p].scanned = proc[p].scanned

Takes(p, f) ==
    /\ Keeps(p) /\ Rest(f) /\ UNCHANGED <<board, win, names>>
    /\ proc[p].at = "cleaning" /\ proc'[p].at = "listing" /\ proc'[p].cur = f
    /\ f \in proc[p].todo /\ proc'[p].todo \subseteq proc[p].todo
    /\ proc'[p].scanned = proc[p].scanned
    /\ drops[f].marker = "retired" \/ ~proc[p].scanned
    /\ drops'[f].marker = "retired" /\ drops'[f].dir = drops[f].dir /\ drops'[f].lease = drops[f].lease
    /\ drops'[f].files = drops[f].files /\ drops'[f].owned = drops[f].owned

Loses(p, f) ==
    /\ Keeps(p) /\ Rest(f) /\ UNCHANGED <<board, win, names>>
    /\ proc[p].at = "cleaning" /\ proc'[p].at = "cleaning" /\ proc'[p].cur = proc[p].cur
    /\ f \in proc[p].todo /\ proc'[p].todo \subseteq proc[p].todo
    /\ ~proc[p].scanned /\ proc'[p].scanned = proc[p].scanned
    /\ drops'[f].marker = "none" /\ drops'[f].dir = drops[f].dir /\ drops'[f].lease = drops[f].lease
    /\ drops'[f].files = drops[f].files /\ drops'[f].owned = drops[f].owned

Stays(p) == proc'[p].cur = proc[p].cur /\ proc'[p].todo = proc[p].todo /\ proc'[p].scanned = proc[p].scanned

Lists(p) ==
    /\ Keeps(p) /\ Stays(p) /\ UNCHANGED <<board, drops, win, names>>
    /\ proc[p].at = "listing" /\ proc'[p].at = "deleting" /\ ~drops[proc[p].cur].lease

Erases(p) ==
    LET f == proc[p].cur
    IN /\ Keeps(p) /\ Stays(p) /\ Rest(f) /\ UNCHANGED <<board, win, names>>
       /\ proc[p].at = "deleting" /\ proc'[p].at = "deleting" /\ f \in Folders
       /\ drops'[f].marker = drops[f].marker /\ drops'[f].dir = drops[f].dir
       /\ drops'[f].lease = drops[f].lease
       /\ drops'[f].files \subseteq drops[f].files /\ drops'[f].owned = drops[f].owned

Unmarks(p) ==
    LET f == proc[p].cur
    IN /\ Keeps(p) /\ Stays(p) /\ Rest(f) /\ UNCHANGED <<board, win, names>>
       /\ proc[p].at = "deleting" /\ proc'[p].at = "empty" /\ f \in Folders
       /\ drops'[f].marker = "none" /\ drops'[f].dir = drops[f].dir /\ drops'[f].lease = drops[f].lease
       /\ drops'[f].files = drops[f].files /\ drops'[f].owned = drops[f].owned

Empties(p) ==
    LET f == proc[p].cur
    IN /\ Keeps(p) /\ Rest(f) /\ UNCHANGED <<board, win, names>>
       /\ proc[p].at = "empty" /\ proc'[p].at = "cleaning" /\ proc'[p].cur = NoOne /\ f \in Folders
       /\ proc'[p].todo = proc[p].todo /\ proc'[p].scanned = proc[p].scanned
       /\ drops'[f].marker = drops[f].marker /\ drops'[f].lease = drops[f].lease
       /\ drops'[f].files = drops[f].files /\ drops'[f].owned = drops[f].owned

Finishes(p) == Ended(p) /\ UNCHANGED <<board, drops, names>>

WriterFolders(p) ==
    \/ Quiet(p) \/ Publish(p) \/ Lists(p) \/ Erases(p) \/ Unmarks(p) \/ Empties(p) \/ Finishes(p)
    \/ \E f \in Folders : Takes(p, f) \/ Loses(p, f)

(* A writer's step on leases, markers and files, as the folders' proof sees it. *)
LEMMA WriterOnFolders ==
    ASSUME TypeInv, NEW p \in Procs, WriterStep(p) \/ Kill(p)
    PROVE  WriterFolders(p)
  <1> DEFINE P == proc[p]
             D == drops[P.cur]
  <1>1. /\ TypeOK /\ proc \in [Procs -> Writer] /\ P \in Writer /\ drops \in [Folders -> Folder]
        /\ P.at \in AtFolder => P.cur \in Folders /\ D \in Folder
    BY DEF TypeInv, TypeOK, Placed
  <1>2. ASSUME NEW r, proc' = [proc EXCEPT ![p] = r], r.req = P.req, r.by = P.by
        PROVE  Keeps(p) /\ proc'[p] = r
    BY <1>1, <1>2 DEF Keeps, Turn
  <1>3. ASSUME NEW ok \in BOOLEAN, End(p, ok), UNCHANGED <<board, drops, names>> PROVE Finishes(p)
    BY <1>1, <1>3, EndEnds DEF Finishes
  <1>4. CASE Acquire(p)
    <2> DEFINE r == [P EXCEPT !.at = "locked"]
    <2>1. proc' = [proc EXCEPT ![p] = r] /\ P.at = "begin" /\ UNCHANGED <<board, drops, win, names>>
      BY <1>1, <1>4 DEF Acquire
    <2>2. r.req = P.req /\ r.by = P.by /\ r.at = "locked" /\ r.cur = P.cur /\ r.todo = P.todo
          /\ r.scanned = P.scanned
      BY <1>1 DEF Writer
    <2> HIDE DEF r
    <2>3. Keeps(p) /\ proc'[p] = r
      BY <1>2, <2>1, <2>2
    <2>4. Quiet(p)
      BY <2>1, <2>2, <2>3 DEF Quiet
    <2> QED BY <2>4 DEF WriterFolders
  <1>5. CASE GiveUp(p) \/ WriteFails(p) \/ Release(p) \/ Kill(p)
    BY <1>3, <1>5 DEF GiveUp, WriteFails, Release, Kill, WriterFolders
  <1>6. CASE ReadBoard(p)
    <2> DEFINE out == Newest(Edited(board, P.req))
               todo == FoldersOf(board) \ FoldersOf(out)
               r == [P EXCEPT !.at = "edited", !.out = out, !.todo = todo]
    <2>1. CASE Refused(P.req)
      BY <1>3, <1>6, <2>1 DEF ReadBoard, WriterFolders
    <2>2. CASE ~Refused(P.req)
      <3>1. /\ proc' = [proc EXCEPT ![p] = r] /\ P.at = "locked"
            /\ UNCHANGED <<board, drops, win, names>>
        BY <1>6, <2>2 DEF ReadBoard
      <3> HIDE DEF out
      <3>2. r.req = P.req /\ r.by = P.by /\ r.at = "edited" /\ r.cur = P.cur
            /\ r.todo = FoldersOf(board) \ FoldersOf(r.out)
        BY <1>1 DEF Writer
      <3> HIDE DEF r
      <3>3. Keeps(p) /\ proc'[p] = r
        BY <1>2, <3>1, <3>2
      <3>4. Quiet(p)
        BY <3>1, <3>2, <3>3 DEF Quiet
      <3> QED BY <3>4 DEF WriterFolders
    <2> QED BY <2>1, <2>2
  <1>7. CASE Rename(p)
    <2> DEFINE r == [P EXCEPT !.at = "cleaning"]
    <2>1. proc' = [proc EXCEPT ![p] = r] /\ P.at = "edited" /\ UNCHANGED <<drops, win, names>>
          /\ board' = P.out
      BY <1>1, <1>7 DEF Rename
    <2>2. r.req = P.req /\ r.by = P.by /\ r.at = "cleaning" /\ r.cur = P.cur /\ r.todo = P.todo
          /\ r.scanned = P.scanned
      BY <1>1 DEF Writer
    <2> HIDE DEF r
    <2>3. Keeps(p) /\ proc'[p] = r
      BY <1>2, <2>1, <2>2
    <2>4. Publish(p)
      BY <2>1, <2>2, <2>3 DEF Publish
    <2> QED BY <2>4 DEF WriterFolders
  <1>8. ASSUME NEW f \in Folders, Retire(p, f) \/ RetireFails(p, f) \/ Sweep(p, f)
        PROVE  WriterFolders(p)
    <2> DEFINE a == [P EXCEPT !.todo = P.todo \ {f}]
               b == [P EXCEPT !.at = "listing", !.cur = f, !.todo = P.todo \ {f}]
               d == [drops[f] EXCEPT !.marker = "retired"]
               n == [drops[f] EXCEPT !.marker = "none"]
    <2>1. \/ proc' = [proc EXCEPT ![p] = a] /\ drops' = drops
          \/ proc' = [proc EXCEPT ![p] = a] /\ drops' = [drops EXCEPT ![f] = n] /\ ~P.scanned
          \/ proc' = [proc EXCEPT ![p] = b] /\ drops' = drops /\ drops[f].marker = "retired"
          \/ proc' = [proc EXCEPT ![p] = b] /\ drops' = [drops EXCEPT ![f] = d] /\ ~P.scanned
      <3>1. CASE RetireFails(p, f)
        <4>1. PICK m \in {drops[f].marker, "none"} : drops' = [drops EXCEPT ![f].marker = m]
          BY <3>1 DEF RetireFails
        <4>2. m = drops[f].marker => drops' = drops
          BY <1>1, <4>1 DEF Folder
        <4>3. m = "none" => drops' = [drops EXCEPT ![f] = n]
          BY <1>1, <4>1
        <4> QED BY <1>1, <3>1, <4>1, <4>2, <4>3 DEF RetireFails
      <3>2. CASE Retire(p, f) \/ Sweep(p, f)
        BY <1>1, <3>2 DEF Retire, Sweep
      <3> QED BY <1>8, <3>1, <3>2
    <2>2. P.at = "cleaning" /\ f \in P.todo /\ UNCHANGED <<board, win, names>>
      BY <1>8 DEF Retire, RetireFails, Sweep
    <2>3. /\ a.req = P.req /\ a.by = P.by /\ a.at = "cleaning" /\ a.cur = P.cur
          /\ a.todo \subseteq P.todo /\ a.scanned = P.scanned
          /\ b.req = P.req /\ b.by = P.by /\ b.at = "listing" /\ b.cur = f
          /\ b.todo \subseteq P.todo /\ b.scanned = P.scanned
      BY <1>1, <2>2 DEF Writer
    <2>4. /\ d.marker = "retired" /\ d.dir = drops[f].dir /\ d.lease = drops[f].lease
          /\ d.files = drops[f].files /\ d.owned = drops[f].owned
          /\ n.marker = "none" /\ n.dir = drops[f].dir /\ n.lease = drops[f].lease
          /\ n.files = drops[f].files /\ n.owned = drops[f].owned
      BY <1>1 DEF Folder
    <2> HIDE DEF a, b, d, n
    <2>5. CASE proc' = [proc EXCEPT ![p] = a] /\ drops' = drops
      <3>1. Keeps(p) /\ proc'[p] = a
        BY <1>2, <2>3, <2>5
      <3>2. Quiet(p)
        BY <2>2, <2>3, <2>5, <3>1 DEF Quiet, Cleaning
      <3> QED BY <3>2 DEF WriterFolders
    <2>6. CASE proc' = [proc EXCEPT ![p] = b]
      <3>1. Keeps(p) /\ proc'[p] = b
        BY <1>2, <2>3, <2>6
      <3>2. \/ drops' = drops /\ drops[f].marker = "retired"
            \/ drops' = [drops EXCEPT ![f] = d] /\ ~P.scanned
            \/ proc'[p] = a
        BY <1>1, <2>1
      <3>3. a # b
        BY <2>3
      <3>4. Rest(f) /\ drops'[f].marker = "retired" /\ drops'[f].dir = drops[f].dir
            /\ drops'[f].lease = drops[f].lease /\ drops'[f].files = drops[f].files
            /\ drops'[f].owned = drops[f].owned
            /\ (drops[f].marker = "retired" \/ ~P.scanned)
        BY <1>1, <2>4, <3>1, <3>2, <3>3 DEF Rest
      <3>5. Takes(p, f)
        BY <2>2, <2>3, <3>1, <3>4 DEF Takes
      <3> QED BY <3>5 DEF WriterFolders
    <2>7. CASE proc' = [proc EXCEPT ![p] = a] /\ drops' = [drops EXCEPT ![f] = n] /\ ~P.scanned
      <3>1. Keeps(p) /\ proc'[p] = a
        BY <1>2, <2>3, <2>7
      <3>2. Rest(f) /\ drops'[f] = n
        BY <1>1, <2>7 DEF Rest
      <3>3. Loses(p, f)
        BY <2>2, <2>3, <2>4, <2>7, <3>1, <3>2 DEF Loses
      <3> QED BY <3>3 DEF WriterFolders
    <2> QED BY <2>1, <2>5, <2>6, <2>7
  <1>9. CASE Scan(p)
    <2> DEFINE t == {f \in Folders : drops[f].dir} \ FoldersOf(P.out)
               r == [P EXCEPT !.scanned = TRUE, !.todo = t]
    <2>1. proc' = [proc EXCEPT ![p] = r] /\ P.at = "cleaning" /\ UNCHANGED <<board, drops, win, names>>
      BY <1>9 DEF Scan
    <2>2. r.req = P.req /\ r.by = P.by /\ r.at = P.at /\ r.cur = P.cur /\ r.todo = t /\ r.scanned = TRUE
      BY <1>1 DEF Writer
    <2>3. t \subseteq {f \in Folders : drops[f].dir}
      OBVIOUS
    <2> HIDE DEF r, t
    <2>4. Keeps(p) /\ proc'[p] = r
      BY <1>2, <2>1, <2>2
    <2>5. Quiet(p)
      BY <2>1, <2>2, <2>3, <2>4 DEF Quiet, Cleaning
    <2> QED BY <2>5 DEF WriterFolders
  <1>10. CASE Listed(p)
    <2> DEFINE a == [P EXCEPT !.at = "deleting", !.rest = D.files]
               b == [P EXCEPT !.at = "cleaning", !.cur = NoOne]
    <2>1. \/ proc' = [proc EXCEPT ![p] = a] /\ ~D.lease
          \/ proc' = [proc EXCEPT ![p] = b]
      BY <1>10 DEF Listed, Removable
    <2>2. P.at = "listing" /\ UNCHANGED <<board, drops, win, names>>
      BY <1>10 DEF Listed
    <2>3. /\ a.req = P.req /\ a.by = P.by /\ a.at = "deleting" /\ a.cur = P.cur
          /\ a.todo = P.todo /\ a.scanned = P.scanned
          /\ b.req = P.req /\ b.by = P.by /\ b.at = "cleaning" /\ b.cur = NoOne
          /\ b.todo = P.todo /\ b.scanned = P.scanned
      BY <1>1 DEF Writer
    <2> HIDE DEF a, b
    <2>4. CASE proc' = [proc EXCEPT ![p] = a] /\ ~D.lease
      <3>1. Keeps(p) /\ proc'[p] = a
        BY <1>2, <2>3, <2>4
      <3>2. Lists(p)
        BY <2>2, <2>3, <2>4, <3>1 DEF Lists, Stays
      <3> QED BY <3>2 DEF WriterFolders
    <2>5. CASE proc' = [proc EXCEPT ![p] = b]
      <3>1. Keeps(p) /\ proc'[p] = b
        BY <1>2, <2>3, <2>5
      <3>2. Quiet(p)
        BY <2>2, <2>3, <3>1 DEF Quiet, Cleaning
      <3> QED BY <3>2 DEF WriterFolders
    <2> QED BY <2>1, <2>4, <2>5
  <1>11. CASE Unmark(p)
    <2> DEFINE r == [P EXCEPT !.at = "empty"]
               d == [D EXCEPT !.marker = "none"]
    <2>1. P.at = "deleting" /\ P.cur \in Folders /\ D \in Folder /\ UNCHANGED <<board, win, names>>
      BY <1>1, <1>11 DEF Unmark, AtFolder
    <2>2. proc' = [proc EXCEPT ![p] = r] /\ drops' = [drops EXCEPT ![P.cur] = d]
      BY <1>1, <1>11, <2>1 DEF Unmark
    <2>3. /\ r.req = P.req /\ r.by = P.by /\ r.at = "empty" /\ r.cur = P.cur /\ r.todo = P.todo
          /\ r.scanned = P.scanned
          /\ d.marker = "none" /\ d.dir = D.dir /\ d.lease = D.lease /\ d.files = D.files
          /\ d.owned = D.owned
      BY <1>1, <2>1 DEF Writer, Folder
    <2> HIDE DEF r, d
    <2>4. Keeps(p) /\ proc'[p] = r
      BY <1>2, <2>2, <2>3
    <2>5. Unmarks(p)
      BY <1>1, <2>1, <2>2, <2>3, <2>4 DEF Unmarks, Stays, Rest
    <2> QED BY <2>5 DEF WriterFolders
  <1>12. CASE RemoveDir(p)
    <2> DEFINE r == [P EXCEPT !.at = "cleaning", !.cur = NoOne]
               d == [D EXCEPT !.dir = D.dir /\ (D.lease \/ D.files # {})]
    <2>1. P.at = "empty" /\ P.cur \in Folders /\ D \in Folder /\ UNCHANGED <<board, win, names>>
      BY <1>1, <1>12 DEF RemoveDir, AtFolder
    <2>2. proc' = [proc EXCEPT ![p] = r] /\ drops' = [drops EXCEPT ![P.cur] = d]
      BY <1>1, <1>12, <2>1 DEF RemoveDir
    <2>3. /\ r.req = P.req /\ r.by = P.by /\ r.at = "cleaning" /\ r.cur = NoOne /\ r.todo = P.todo
          /\ r.scanned = P.scanned
          /\ d.marker = D.marker /\ d.lease = D.lease /\ d.files = D.files /\ d.owned = D.owned
      BY <1>1, <2>1 DEF Writer, Folder
    <2> HIDE DEF r, d
    <2>4. Keeps(p) /\ proc'[p] = r
      BY <1>2, <2>2, <2>3
    <2>5. Empties(p)
      BY <1>1, <2>1, <2>2, <2>3, <2>4 DEF Empties, Rest
    <2> QED BY <2>5 DEF WriterFolders
  <1>13. ASSUME NEW x \in Files, Delete(p, x) PROVE WriterFolders(p)
    <2> DEFINE a == [P EXCEPT !.at = "cleaning", !.cur = NoOne, !.rest = {}]
               b == [P EXCEPT !.rest = P.rest \ {x}]
               d == [D EXCEPT !.files = D.files \ {x}]
    <2>1. P.at = "deleting" /\ P.cur \in Folders /\ D \in Folder /\ UNCHANGED <<board, win, names>>
      BY <1>1, <1>13 DEF Delete, AtFolder
    <2>2. \/ proc' = [proc EXCEPT ![p] = a] /\ drops' = drops
          \/ proc' = [proc EXCEPT ![p] = b] /\ drops' = [drops EXCEPT ![P.cur] = d]
      BY <1>1, <1>13, <2>1 DEF Delete
    <2>3. /\ a.req = P.req /\ a.by = P.by /\ a.at = "cleaning" /\ a.cur = NoOne
          /\ a.todo = P.todo /\ a.scanned = P.scanned
          /\ b.req = P.req /\ b.by = P.by /\ b.at = "deleting" /\ b.cur = P.cur
          /\ b.todo = P.todo /\ b.scanned = P.scanned
          /\ d.marker = D.marker /\ d.dir = D.dir /\ d.lease = D.lease
          /\ d.files \subseteq D.files /\ d.owned = D.owned
      BY <1>1, <2>1 DEF Writer, Folder
    <2> HIDE DEF a, b, d
    <2>4. CASE proc' = [proc EXCEPT ![p] = a] /\ drops' = drops
      <3>1. Keeps(p) /\ proc'[p] = a
        BY <1>2, <2>3, <2>4
      <3>2. Quiet(p)
        BY <2>1, <2>3, <2>4, <3>1 DEF Quiet, Cleaning
      <3> QED BY <3>2 DEF WriterFolders
    <2>5. CASE proc' = [proc EXCEPT ![p] = b] /\ drops' = [drops EXCEPT ![P.cur] = d]
      <3>1. Keeps(p) /\ proc'[p] = b
        BY <1>2, <2>3, <2>5
      <3>2. Erases(p)
        BY <1>1, <2>1, <2>3, <2>5, <3>1 DEF Erases, Stays, Rest
      <3> QED BY <3>2 DEF WriterFolders
    <2> QED BY <2>2, <2>4, <2>5
  <1> QED BY <1>4, <1>5, <1>6, <1>7, <1>8, <1>9, <1>10, <1>11, <1>12, <1>13 DEF WriterStep

\* The tasks of windows.
Alone(w) == \A v \in Windows \ {w} : win'[v] = win[v]
Holds(w) == win[w].at \in {"check", "wait", "unlease"} \cup Late /\ win[w].op \in Leased \cup {"failed"}
OnlyWindows == UNCHANGED <<board, drops, proc, names>>
Working(w) == win'[w].op = win[w].op /\ win'[w].folder = win[w].folder /\ win'[w].new = win[w].new

Shows(w) ==
    /\ Alone(w) /\ OnlyWindows
    /\ win[w].at = "idle" /\ win'[w].at = "idle" /\ win'[w].op = "none"
    /\ win'[w].folder \in Folders /\ drops[win'[w].folder].marker = "live"

Creates(w, f) ==
    /\ Alone(w) /\ Rest(f) /\ UNCHANGED <<board, proc>>
    /\ f \notin names /\ names' = names \cup {f}
    /\ win[w].at = "idle" /\ win'[w].at = "mark" /\ win'[w].op \in {"create", "drop"}
    /\ win'[w].folder = f
    /\ drops'[f].dir = TRUE /\ drops'[f].marker = drops[f].marker /\ drops'[f].lease = drops[f].lease
    /\ drops'[f].files = drops[f].files /\ drops'[f].owned = drops[f].owned

Marks(w) ==
    LET f == win[w].folder
    IN /\ Alone(w) /\ Working(w) /\ Rest(f) /\ UNCHANGED <<board, proc, names>>
       /\ win[w].at = "mark" /\ f \in Folders
       /\ win'[w].at = IF win[w].op = "drop" THEN "readme" ELSE "validate"
       /\ drops'[f].marker = "live" /\ drops'[f].dir = drops[f].dir /\ drops'[f].lease = drops[f].lease
       /\ drops'[f].files = drops[f].files /\ drops'[f].owned = drops[f].owned

BeginsTask(w) ==
    /\ Alone(w) /\ UNCHANGED <<board, drops, proc>> /\ names \subseteq names'
    /\ win[w].at = "idle" /\ win'[w].at = "validate" /\ win'[w].op \in {"save", "add", "remove"}
    /\ win'[w].folder = win[w].folder

Quits(w) ==
    /\ Alone(w) /\ OnlyWindows
    /\ win[w].at \in {"validate", "lease"} /\ win'[w].at = "idle" /\ win'[w].op = "none"
    /\ win'[w].folder \in {win[w].folder, NoOne}

Passes(w) ==
    /\ Alone(w) /\ Working(w) /\ OnlyWindows
    /\ drops[win[w].folder].marker = "live"
    /\ \/ win[w].at = "validate" /\ win[w].op = "remove" /\ win'[w].at = "run"
       \/ win[w].at = "validate" /\ win[w].op # "remove" /\ win'[w].at = "lease"
       \/ win[w].at = "check" /\ win[w].op = "add" /\ win'[w].at = "reserve"
       \/ win[w].at = "check" /\ win[w].op # "add" /\ win'[w].at = "manifest"

Leases(w) ==
    LET f == win[w].folder
    IN /\ Alone(w) /\ Working(w) /\ Rest(f) /\ UNCHANGED <<board, proc, names>>
       /\ win[w].at = "lease" /\ win'[w].at = "check" /\ f \in Folders
       /\ ~drops[f].lease /\ drops'[f].lease = TRUE
       /\ drops'[f].marker = drops[f].marker /\ drops'[f].dir = drops[f].dir
       /\ drops'[f].files = drops[f].files /\ drops'[f].owned = drops[f].owned

Writes(w) ==
    LET f == win[w].folder
    IN /\ Alone(w) /\ Working(w) /\ Rest(f) /\ UNCHANGED <<board, proc, names>> /\ f \in Folders
       /\ \/ win[w].at = "reserve" /\ win'[w].at = "copy"
          \/ win[w].at = "manifest" /\ win'[w].at = "readme"
       /\ Cardinality(Merged(w)) <= MaxOwned
       /\ drops'[f].files = drops[f].files \cup {Manifest} /\ drops'[f].owned = Merged(w)
       /\ drops'[f].marker = drops[f].marker /\ drops'[f].dir = drops[f].dir
       /\ drops'[f].lease = drops[f].lease

Adds(w) ==
    LET f == win[w].folder
    IN /\ Alone(w) /\ Working(w) /\ Rest(f) /\ UNCHANGED <<board, proc, names>> /\ f \in Folders
       /\ \/ win[w].at = "copy" /\ win'[w].at = "manifest"
             /\ drops'[f].files = drops[f].files \cup {win[w].new}
          \/ win[w].at = "readme" /\ win'[w].at = "run"
             /\ drops'[f].files = drops[f].files \cup {Readme}
       /\ drops'[f].owned = drops[f].owned
       /\ drops'[f].marker = drops[f].marker /\ drops'[f].dir = drops[f].dir
       /\ drops'[f].lease = drops[f].lease

Runs(w, p) ==
    /\ Alone(w) /\ Working(w) /\ Turn(p) /\ UNCHANGED <<board, drops, names>>
    /\ win[w].at = "run" /\ win'[w].at = "wait" /\ win[w].folder \in Folders
    /\ proc[p].at = "idle" /\ proc'[p].at \in Deciding
    /\ proc'[p].req.op = WriterOp(win[w].op) /\ proc'[p].req.folder = win[w].folder
    /\ proc'[p].by = w /\ proc'[p].cur = NoOne /\ proc'[p].todo = {}

Fails(w) ==
    /\ UNCHANGED <<board, proc, names>> /\ Left(w) /\ Halved(w)
    /\ win[w].at \in {"check"} \cup Late

Returns(w) ==
    LET f == win[w].folder
    IN /\ Alone(w) /\ Rest(f) /\ UNCHANGED <<board, proc, names>>
       /\ win[w].at = "unlease" /\ win'[w].at = "idle" /\ win'[w].op = "none" /\ f \in Folders
       /\ win'[w].folder \in {f, NoOne}
       /\ drops'[f].lease = FALSE
       /\ drops'[f].marker = drops[f].marker /\ drops'[f].dir = drops[f].dir
       /\ drops'[f].files = drops[f].files /\ drops'[f].owned = drops[f].owned

Exits(w) ==
    /\ Alone(w) /\ UNCHANGED <<board, names>> /\ Halved(w)
    /\ win'[w].at = "idle" /\ win'[w].op = "none" /\ win'[w].folder = NoOne
    /\ \A p \in Procs :
          /\ proc'[p].at = proc[p].at /\ proc'[p].req = proc[p].req /\ Stays(p)
          /\ proc'[p].out = proc[p].out
          /\ proc'[p].by = IF proc[p].by = w THEN NoOne ELSE proc[p].by

WindowFolders(w) ==
    \/ Shows(w) \/ Marks(w) \/ BeginsTask(w) \/ Quits(w) \/ Passes(w) \/ Leases(w) \/ Writes(w)
    \/ Adds(w) \/ Fails(w) \/ Returns(w) \/ Exits(w)
    \/ \E f \in Folders : Creates(w, f)
    \/ \E p \in Procs : Runs(w, p)

\* An agent starts a writer, which works in no folder of a window.
Agent(p) ==
    /\ Turn(p) /\ UNCHANGED <<board, drops, win, names>>
    /\ proc[p].at = "idle" /\ proc'[p].at \in Deciding
    /\ proc'[p].req.op \in {"publish", "prune"} /\ proc'[p].req.folder = NoOne
    /\ proc'[p].by = NoOne /\ proc'[p].cur = NoOne /\ proc'[p].todo = {}

(* Start as the folders' proof sees it. *)
LEMMA Started ==
    ASSUME TypeOK, NEW p \in Procs, NEW q, NEW w, Start(p, q, w)
    PROVE  /\ Turn(p) /\ UNCHANGED <<board, drops, names>>
           /\ proc[p].at = "idle" /\ proc'[p].at \in Deciding /\ proc'[p].req = q
           /\ proc'[p].by = w /\ proc'[p].cur = NoOne /\ proc'[p].todo = {}
  BY DEF TypeOK, Start, Turn, Idle, Deciding

(* The agents' writers as the folders' proof sees them. *)
LEMMA AgentOnFolders ==
    ASSUME TypeInv, NEW p \in Procs, AgentPublishes(p) \/ AgentPrunes(p)
    PROVE  Agent(p)
  <1>1. TypeOK
    BY DEF TypeInv
  <1>2. CASE AgentPublishes(p)
    <2> DEFINE q == [id |-> NextId, op |-> "publish", folder |-> NoOne]
    <2>1. Start(p, q, NoOne) /\ UNCHANGED win /\ q.op = "publish" /\ q.folder = NoOne
      BY <1>2 DEF AgentPublishes
    <2> HIDE DEF q
    <2> QED BY <1>1, <2>1, Started DEF Agent
  <1>3. CASE AgentPrunes(p)
    <2>1. Start(p, Pruning, NoOne) /\ UNCHANGED win /\ Pruning.op = "prune" /\ Pruning.folder = NoOne
      BY <1>3 DEF AgentPrunes, Pruning
    <2> QED BY <1>1, <2>1, Started DEF Agent
  <1> QED BY <1>2, <1>3

(* A window's step on leases, markers and files, as the folders' proof sees it. *)
LEMMA WindowOnFolders ==
    ASSUME TypeInv, NEW w \in Windows, Asks(w) \/ WindowStep(w) \/ Exit(w)
    PROVE  WindowFolders(w)
  <1> DEFINE W == win[w]
             D == drops[W.folder]
  <1>1. /\ TypeOK /\ win \in [Windows -> Window] /\ W \in Window /\ drops \in [Folders -> Folder]
        /\ W.at # "idle" => W.folder \in Folders /\ D \in Folder
        /\ W.at \in {"reserve", "copy"} => W.op = "add"
        /\ proc \in [Procs -> Writer]
    BY TypedParts DEF TypeInv, Typed, TypeOK, WindowsOK
  <1>2. Alone(w)
    BY <1>1, WindowAlone DEF Alone
  <1>3. ASSUME NEW at, Go(w, at) PROVE Working(w) /\ win'[w].at = at
    BY <1>1, <1>3 DEF Go, Working, Window
  <1>4. ASSUME Leave(w, FALSE), OnlyWindows, W.at \in {"check"} \cup Late PROVE Fails(w)
    BY <1>1, <1>4, LeaveLeaves DEF Fails, Halved, OnlyWindows
  <1>5. ASSUME Abandon(w), OnlyWindows, W.at \in {"validate", "lease"} PROVE Quits(w)
    <2>1. WindowsOK
      BY TypedParts DEF TypeInv, Typed
    <2> QED BY <1>2, <1>5, <2>1, AbandonOK DEF Quits, WindowsOK
  <1>6. ASSUME NEW next, WriteManifest(w, next), UNCHANGED <<board, proc, names>>,
               \/ W.at = "reserve" /\ next = "copy"
               \/ W.at = "manifest" /\ next = "readme"
        PROVE  Writes(w) \/ Fails(w)
    <2> DEFINE d == [D EXCEPT !.files = D.files \cup {Manifest}, !.owned = Merged(w)]
    <2>1. CASE Writable(w)
      <3>1. W.folder \in Folders /\ D \in Folder
        BY <1>1, <1>6
      <3>2. drops' = [drops EXCEPT ![W.folder] = d] /\ Go(w, next)
        BY <1>1, <1>6, <2>1, <3>1 DEF WriteManifest
      <3>3. /\ d.files = D.files \cup {Manifest} /\ d.owned = Merged(w) /\ d.marker = D.marker
            /\ d.dir = D.dir /\ d.lease = D.lease
        BY <3>1 DEF Folder
      <3> HIDE DEF d
      <3>4. Working(w) /\ win'[w].at = next
        BY <1>3, <3>2
      <3>5. Writes(w)
        BY <1>1, <1>2, <1>6, <2>1, <3>1, <3>2, <3>3, <3>4 DEF Writes, Rest, Writable
      <3> QED BY <3>5
    <2>2. CASE ~Writable(w)
      <3>1. Leave(w, FALSE) /\ OnlyWindows
        BY <1>6, <2>2 DEF WriteManifest, OnlyWindows
      <3> QED BY <1>4, <1>6, <3>1 DEF Late
    <2> QED BY <2>1, <2>2
  <1>7. ASSUME NEW f \in Folders, Load(w, f) PROVE WindowFolders(w)
    <2>1. win'[w].at = "idle" /\ win'[w].op = "none" /\ win'[w].folder = f
      BY <1>1, <1>7 DEF Load, Blank
    <2>2. Shows(w)
      BY <1>2, <1>7, <2>1 DEF Load, Shows, OnlyWindows
    <2> QED BY <2>2 DEF WindowFolders
  <1>8. ASSUME NEW f \in Folders, NEW op \in {"create", "drop"}, MakeFolder(w, f, op)
        PROVE  WindowFolders(w)
    <2> DEFINE d == [drops[f] EXCEPT !.dir = TRUE]
    <2>1. win'[w].at = "mark" /\ win'[w].op = op /\ win'[w].folder = f
      BY <1>1, <1>8 DEF MakeFolder, Blank
    <2>2. drops' = [drops EXCEPT ![f] = d]
      BY <1>1, <1>8 DEF MakeFolder
    <2>3. /\ d.dir = TRUE /\ d.marker = drops[f].marker /\ d.lease = drops[f].lease
          /\ d.files = drops[f].files /\ d.owned = drops[f].owned
      BY <1>1 DEF Folder
    <2> HIDE DEF d
    <2>4. Creates(w, f)
      BY <1>1, <1>2, <1>8, <2>1, <2>2, <2>3 DEF MakeFolder, Creates, Rest
    <2> QED BY <2>4 DEF WindowFolders
  <1>9. ASSUME NEW op \in {"save", "add", "remove"}, Begin(w, op) PROVE WindowFolders(w)
    <2>1. win'[w].at = "validate" /\ win'[w].op = op /\ win'[w].folder = W.folder
          /\ names \subseteq names'
      <3>1. CASE op = "add"
        <4>1. PICK x \in Copies \ names :
                 /\ names' = names \cup {x}
                 /\ win' = [win EXCEPT ![w] = [W EXCEPT !.at = "validate", !.op = op, !.new = x]]
          BY <1>9, <3>1 DEF Begin
        <4> QED BY <1>1, <4>1 DEF Window
      <3>2. CASE op # "add"
        <4>1. win' = [win EXCEPT ![w] = [W EXCEPT !.at = "validate", !.op = op]] /\ names' = names
          BY <1>9, <3>2 DEF Begin
        <4> QED BY <1>1, <4>1 DEF Window
      <3> QED BY <3>1, <3>2
    <2>2. BeginsTask(w)
      BY <1>2, <1>9, <2>1 DEF Begin, BeginsTask
    <2> QED BY <2>2 DEF WindowFolders
  <1>10. CASE Mark(w)
    <2> DEFINE d == [D EXCEPT !.marker = "live"]
    <2>1. W.at = "mark" /\ W.folder \in Folders /\ D \in Folder
      BY <1>1, <1>10 DEF Mark
    <2>2. drops' = [drops EXCEPT ![W.folder] = d]
      BY <1>1, <1>10, <2>1 DEF Mark
    <2>3. /\ d.marker = "live" /\ d.dir = D.dir /\ d.lease = D.lease
          /\ d.files = D.files /\ d.owned = D.owned
      BY <2>1 DEF Folder
    <2> HIDE DEF d
    <2>4. Working(w) /\ win'[w].at = IF W.op = "drop" THEN "readme" ELSE "validate"
      BY <1>3, <1>10 DEF Mark
    <2>5. Marks(w)
      BY <1>1, <1>2, <1>10, <2>1, <2>2, <2>3, <2>4 DEF Mark, Marks, Rest
    <2> QED BY <2>5 DEF WindowFolders
  <1>11. CASE Validate(w)
    <2>1. CASE Live(w)
      <3>1. Working(w) /\ win'[w].at = IF W.op = "remove" THEN "run" ELSE "lease"
        BY <1>3, <1>11, <2>1 DEF Validate
      <3>2. Passes(w)
        BY <1>2, <1>11, <2>1, <3>1 DEF Validate, Passes, OnlyWindows, Live
      <3> QED BY <3>2 DEF WindowFolders
    <2>2. CASE ~Live(w)
      BY <1>5, <1>11, <2>2 DEF Validate, OnlyWindows, WindowFolders
    <2> QED BY <2>1, <2>2
  <1>12. CASE Lease(w)
    <2> DEFINE d == [D EXCEPT !.lease = TRUE]
    <2>1. W.at = "lease" /\ W.folder \in Folders /\ D \in Folder
      BY <1>1, <1>12 DEF Lease
    <2>2. CASE D.dir /\ ~D.lease
      <3>1. drops' = [drops EXCEPT ![W.folder] = d] /\ Go(w, "check")
        BY <1>1, <1>12, <2>1, <2>2 DEF Lease
      <3>2. /\ d.lease = TRUE /\ d.dir = D.dir /\ d.marker = D.marker
            /\ d.files = D.files /\ d.owned = D.owned
        BY <2>1 DEF Folder
      <3> HIDE DEF d
      <3>3. Working(w) /\ win'[w].at = "check"
        BY <1>3, <3>1
      <3>4. Leases(w)
        BY <1>1, <1>2, <1>12, <2>1, <2>2, <3>1, <3>2, <3>3 DEF Lease, Leases, Rest
      <3> QED BY <3>4 DEF WindowFolders
    <2>3. CASE ~(D.dir /\ ~D.lease)
      BY <1>5, <1>12, <2>3 DEF Lease, OnlyWindows, WindowFolders
    <2> QED BY <2>2, <2>3
  <1>13. CASE Check(w)
    <2>1. CASE Live(w)
      <3>1. Working(w) /\ win'[w].at = IF W.op = "add" THEN "reserve" ELSE "manifest"
        BY <1>3, <1>13, <2>1 DEF Check
      <3>2. Passes(w)
        BY <1>2, <1>13, <2>1, <3>1 DEF Check, Passes, OnlyWindows, Live
      <3> QED BY <3>2 DEF WindowFolders
    <2>2. CASE ~Live(w)
      BY <1>4, <1>13, <2>2 DEF Check, OnlyWindows, WindowFolders
    <2> QED BY <2>1, <2>2
  <1>14. CASE Reserve(w)
    BY <1>6, <1>14 DEF Reserve, WindowFolders
  <1>15. CASE Copy(w) \/ SaveReadme(w)
    <2> DEFINE x == IF W.at = "copy" THEN W.new ELSE Readme
               d == [D EXCEPT !.files = D.files \cup {x}]
    <2>1. W.at \in {"copy", "readme"} /\ W.folder \in Folders /\ D \in Folder
          /\ UNCHANGED <<board, proc, names>>
      BY <1>1, <1>15 DEF Copy, SaveReadme
    <2>2. drops' = [drops EXCEPT ![W.folder] = d]
      BY <1>1, <1>15, <2>1 DEF Copy, SaveReadme
    <2>3. /\ d.files = D.files \cup {x} /\ d.owned = D.owned /\ d.marker = D.marker
          /\ d.dir = D.dir /\ d.lease = D.lease
      BY <2>1 DEF Folder
    <2> HIDE DEF d
    <2>4. Working(w) /\ win'[w].at = IF W.at = "copy" THEN "manifest" ELSE "run"
      BY <1>3, <1>15 DEF Copy, SaveReadme
    <2>5. Adds(w)
      BY <1>1, <1>2, <2>1, <2>2, <2>3, <2>4 DEF Adds, Rest
    <2> QED BY <2>5 DEF WindowFolders
  <1>16. CASE SaveManifest(w)
    <2>1. CASE Live(w)
      BY <1>6, <1>16, <2>1 DEF SaveManifest, WindowFolders
    <2>2. CASE ~Live(w)
      BY <1>4, <1>16, <2>2 DEF SaveManifest, OnlyWindows, Late, WindowFolders
    <2> QED BY <2>1, <2>2
  <1>17. CASE Throw(w)
    <2>1. Left(w) /\ Halved(w)
      BY <1>1, <1>17, LeaveLeaves, CutShortHalves DEF Throw, TypeInv
    <2>2. Fails(w)
      BY <1>17, <2>1 DEF Throw, Fails, Late
    <2> QED BY <2>2 DEF WindowFolders
  <1>18. CASE Unlease(w)
    <2> DEFINE d == [D EXCEPT !.lease = FALSE]
               s == [W EXCEPT !.at = "idle", !.op = "none"]
    <2>1. W.at = "unlease" /\ W.folder \in Folders /\ D \in Folder
      BY <1>1, <1>18 DEF Unlease
    <2>2. /\ drops' = [drops EXCEPT ![W.folder] = d]
          /\ win' = [win EXCEPT ![w] = s] \/ win' = [win EXCEPT ![w] = Blank]
      BY <1>1, <1>18, <2>1 DEF Unlease
    <2>3. /\ d.lease = FALSE /\ d.dir = D.dir /\ d.marker = D.marker
          /\ d.files = D.files /\ d.owned = D.owned
          /\ s.at = "idle" /\ s.op = "none" /\ s.folder = W.folder
          /\ Blank.at = "idle" /\ Blank.op = "none" /\ Blank.folder = NoOne
      BY <1>1, <2>1 DEF Folder, Window, Blank
    <2> HIDE DEF d, s
    <2>4. Returns(w)
      BY <1>1, <1>2, <1>18, <2>1, <2>2, <2>3 DEF Unlease, Returns, Rest
    <2> QED BY <2>4 DEF WindowFolders
  <1>19. ASSUME NEW p \in Procs, RunWriter(w, p) PROVE WindowFolders(w)
    <2> DEFINE q == [id |-> NextId, op |-> WriterOp(W.op), folder |-> W.folder]
    <2>1. W.at = "run" /\ Start(p, q, w) /\ Go(w, "wait") /\ W.folder \in Folders
      BY <1>1, <1>19 DEF RunWriter
    <2>2. q.op = WriterOp(W.op) /\ q.folder = W.folder
      OBVIOUS
    <2> HIDE DEF q
    <2>3. Working(w) /\ win'[w].at = "wait"
      BY <1>3, <2>1
    <2>4. Runs(w, p)
      BY <1>1, <1>2, <2>1, <2>2, <2>3, Started DEF Runs
    <2> QED BY <2>4 DEF WindowFolders
  <1>20. CASE Exit(w)
    <2>1. win'[w].at = "idle" /\ win'[w].op = "none" /\ win'[w].folder = NoOne
      BY <1>1, <1>20 DEF Exit, Blank
    <2>2. ASSUME NEW p \in Procs
          PROVE  /\ proc'[p].at = proc[p].at /\ proc'[p].req = proc[p].req /\ Stays(p)
                 /\ proc'[p].out = proc[p].out
                 /\ proc'[p].by = IF proc[p].by = w THEN NoOne ELSE proc[p].by
      <3>1. proc[p] \in Writer /\ proc'[p] = IF proc[p].by = w THEN [proc[p] EXCEPT !.by = NoOne] ELSE proc[p]
        BY <1>1, <1>20 DEF Exit
      <3> QED BY <3>1 DEF Stays, Writer
    <2>3. Halved(w)
      BY <1>1, <1>20, CutShortHalves DEF Exit, TypeInv
    <2>4. Exits(w)
      BY <1>2, <1>20, <2>1, <2>2, <2>3 DEF Exit, Exits
    <2> QED BY <2>4 DEF WindowFolders
  <1> QED BY <1>7, <1>8, <1>9, <1>10, <1>11, <1>12, <1>13, <1>14, <1>15, <1>16, <1>17, <1>18,
             <1>19, <1>20 DEF Asks, WindowStep

\* A step, as far as the folders go.
Elsewhere == UNCHANGED <<board, drops, proc, win, names>>
(* Every step is one of those the folders' proof knows. *)
LEMMA FolderSteps ==
    ASSUME TypeInv, [Next]_vars
    PROVE  \/ Elsewhere
           \/ \E p \in Procs : Agent(p) \/ WriterFolders(p)
           \/ \E w \in Windows : WindowFolders(w)
  <1>1. CASE \E p \in Procs : WriterStep(p) \/ Kill(p)
    BY <1>1, WriterOnFolders
  <1>2. CASE \E p \in Procs : AgentPublishes(p) \/ AgentPrunes(p)
    BY <1>2, AgentOnFolders
  <1>3. CASE \E w \in Windows : Asks(w) \/ WindowStep(w) \/ Exit(w)
    BY <1>3, WindowOnFolders
  <1>4. CASE Aside
    BY <1>4 DEF Aside, ClearLock, OpenFile, CloseFile, vars, Elsewhere
  <1> QED BY <1>1, <1>2, <1>3, <1>4 DEF Next, Aside

(* A writer that has not finished leaves the windows alone.                *)
LEMMA WriterKeeps ==
    ASSUME NEW p \in Procs, WriterFolders(p), ~Finishes(p)
    PROVE  Keeps(p) /\ UNCHANGED <<win, names>>
  BY DEF WriterFolders, Quiet, Publish, Takes, Loses, Lists, Erases, Unmarks, Empties

(* A writer's step leaves leases alone, except that of the window it answers. *)
LEMMA WriterLeases ==
    ASSUME NEW p \in Procs, WriterFolders(p)
    PROVE  \A f \in Folders : drops'[f].lease = drops[f].lease
  BY DEF WriterFolders, Quiet, Publish, Takes, Loses, Lists, Erases, Unmarks, Empties, Finishes, Rest

-----------------------------------------------------------------------------
(* A window that has started a writer waits for it, and for no other.      *)
Awaited ==
    /\ \A p \in Procs : proc[p].by \in Windows => win[proc[p].by].at = "wait"
    /\ \A p, q \in Procs : proc[p].by = proc[q].by => p = q \/ proc[p].by = NoOne

(* Every step keeps Awaited. *)
LEMMA NextAwaited == ASSUME TypeInv, Awaited, [Next]_vars PROVE Awaited'
  <1>1. /\ \A p \in Procs : proc[p].by \in Windows \cup {NoOne}
        /\ NoOne \notin Windows /\ proc \in [Procs -> Writer]
    BY WhiteboardAssumption DEF TypeInv, TypeOK, Writer
  <1>2. CASE Elsewhere
    BY <1>2 DEF Elsewhere, Awaited
  <1>3. ASSUME NEW p \in Procs, Agent(p) PROVE Awaited'
    <2>1. UNCHANGED win /\ proc'[p].by = NoOne /\ \A q \in Procs \ {p} : proc'[q] = proc[q]
      BY <1>3 DEF Agent, Turn
    <2> QED BY <1>1, <2>1 DEF Awaited
  <1>4. ASSUME NEW p \in Procs, WriterFolders(p) PROVE Awaited'
    <2>1. CASE Finishes(p)
      <3>1. proc'[p].by = NoOne /\ \A q \in Procs \ {p} : proc'[q] = proc[q]
        BY <1>1, <2>1, IdleType DEF Finishes, Ended
      <3>2. \A v \in Windows : v = proc[p].by \/ win'[v] = win[v]
        BY <1>1, <2>1 DEF Finishes, Ended, Left
      <3> QED BY <1>1, <3>1, <3>2 DEF Awaited
    <2>2. CASE ~Finishes(p)
      <3>1. UNCHANGED win /\ \A q \in Procs : proc'[q].by = proc[q].by
        BY <1>4, <2>2, WriterKeeps DEF Keeps, Turn
      <3> QED BY <3>1 DEF Awaited
    <2> QED BY <2>1, <2>2
  <1>5. ASSUME NEW w \in Windows, WindowFolders(w) PROVE Awaited'
    <2>1. ASSUME NEW p \in Procs, Runs(w, p) PROVE Awaited'
      <3>1. /\ win[w].at = "run" /\ win'[w].at = "wait" /\ proc'[p].by = w
            /\ \A v \in Windows \ {w} : win'[v] = win[v]
            /\ \A q \in Procs \ {p} : proc'[q] = proc[q]
        BY <2>1 DEF Runs, Alone, Turn
      <3>2. \A q \in Procs : proc[q].by # w
        BY <3>1 DEF Awaited
      <3> QED BY <1>1, <3>1, <3>2 DEF Awaited
    <2>2. CASE Exits(w)
      BY <1>1, <2>2 DEF Exits, Alone, Awaited
    <2>3. CASE ~Exits(w) /\ ~\E p \in Procs : Runs(w, p)
      <3>1. UNCHANGED proc /\ win[w].at # "wait" /\ \A v \in Windows \ {w} : win'[v] = win[v]
        BY <1>5, <2>3 DEF WindowFolders, Shows, Creates, Marks, BeginsTask, Quits, Passes, Leases,
               Writes, Adds, Fails, Returns, Alone, OnlyWindows, Left, Late
      <3> QED BY <1>1, <3>1 DEF Awaited
    <2> QED BY <2>1, <2>2, <2>3
  <1> QED BY <1>2, <1>3, <1>4, <1>5, FolderSteps

-----------------------------------------------------------------------------
(* A task past the lease has the lease of its folder, and no other task    *)
(* has it.                                                                 *)
OneHolder ==
    /\ \A w \in Windows : Holds(w) => drops[win[w].folder].lease
    /\ \A v, w \in Windows : Holds(v) /\ Holds(w) /\ win[v].folder = win[w].folder => v = w
    /\ \A w \in Windows : /\ win[w].at = "unlease" => win[w].op \in Leased \cup {"failed"}
                          /\ win[w].op = "failed" => win[w].at = "unlease"

\* A window that leaves its task holds what it held.
LEMMA LeftHolds ==
    ASSUME TypeInv, OneHolder, NEW w \in Windows, Left(w),
           win[w].at \in {"check", "wait"} \cup Late,
           \A f \in Folders : drops'[f].lease = drops[f].lease
    PROVE  OneHolder'
  <1>1. \A v \in Windows : win[v].at # "idle" => win[v].folder \in Folders
    BY DEF TypeInv, Placed
  <1>2. \A v \in Windows \ {w} : win'[v] = win[v]
    BY DEF Left
  <1>3. win[w].op # "failed"
    BY DEF OneHolder, Late
  <1>4. CASE win[w].op \in Leased
    <2>1. /\ win'[w].at = "unlease" /\ win'[w].folder = win[w].folder
          /\ win'[w].op \in Leased \cup {"failed"} /\ Holds(w)
      BY <1>4 DEF Left, Holds
    <2> QED BY <1>1, <1>2, <2>1 DEF OneHolder, Holds, Late
  <1>5. CASE win[w].op \notin Leased
    <2>1. win'[w].at = "idle" /\ win'[w].op = "none"
      BY <1>5 DEF Left
    <2> QED BY <1>1, <1>2, <2>1 DEF OneHolder, Holds, Late
  <1> QED BY <1>4, <1>5

(* Every step keeps OneHolder. *)
LEMMA NextOneHolder == ASSUME TypeInv, Awaited, OneHolder, [Next]_vars PROVE OneHolder'
  <1>1. \A v \in Windows : win[v].at # "idle" => win[v].folder \in Folders
    BY DEF TypeInv, Placed
  <1>2. ASSUME UNCHANGED win, \A f \in Folders : drops'[f].lease = drops[f].lease
        PROVE  OneHolder'
    BY <1>1, <1>2 DEF OneHolder, Holds, Late
  <1>3. CASE Elsewhere
    BY <1>2, <1>3 DEF Elsewhere
  <1>4. ASSUME NEW p \in Procs, Agent(p) PROVE OneHolder'
    BY <1>2, <1>4 DEF Agent
  <1>5. ASSUME NEW p \in Procs, WriterFolders(p) PROVE OneHolder'
    <2>1. CASE UNCHANGED win
      BY <1>2, <1>5, <2>1, WriterLeases
    <2>2. CASE ~UNCHANGED win
      <3>1. Finishes(p)
        BY <1>5, <2>2, WriterKeeps
      <3>2. proc[p].by \in Windows /\ Left(proc[p].by)
        BY <2>2, <3>1 DEF Finishes, Ended
      <3> QED BY <1>5, <3>2, WriterLeases, LeftHolds DEF Awaited
    <2> QED BY <2>1, <2>2
  <1>6. ASSUME NEW w \in Windows, WindowFolders(w) PROVE OneHolder'
    <2>1. CASE Fails(w)
      BY <2>1, LeftHolds DEF Fails, Halved, Rest
    <2>2. CASE Leases(w)
      <3>1. win[w].op # "failed"
        BY <2>2 DEF Leases, OneHolder
      <3>2. \A v \in Windows : Holds(v) => win[v].folder # win[w].folder
        BY <2>2 DEF Leases, OneHolder
      <3>3. \A v \in Windows \ {w} : win'[v] = win[v]
        BY <2>2 DEF Leases, Alone
      <3>4. \A f \in Folders : f = win[w].folder \/ drops'[f] = drops[f]
        BY <2>2 DEF Leases, Rest
      <3> QED BY <1>1, <2>2, <3>1, <3>2, <3>3, <3>4 DEF Leases, OneHolder, Holds, Late, Working
    <2>3. CASE Returns(w)
      <3>1. Holds(w)
        BY <2>3 DEF Returns, OneHolder, Holds
      <3>2. \A v \in Windows \ {w} : win'[v] = win[v] /\ (Holds(v) => win[v].folder # win[w].folder)
        BY <2>3, <3>1 DEF Returns, Alone, OneHolder
      <3>3. win'[w].at = "idle" /\ win'[w].op = "none"
        BY <2>3 DEF Returns
      <3>4. \A f \in Folders : f = win[w].folder \/ drops'[f] = drops[f]
        BY <2>3 DEF Returns, Rest
      <3> QED BY <1>1, <3>2, <3>3, <3>4 DEF OneHolder, Holds, Late
    <2>4. ASSUME \A f \in Folders : drops'[f].lease = drops[f].lease, Alone(w),
                 win'[w].at # "unlease", win'[w].op # "failed",
                 Holds(w)' => Holds(w) /\ win'[w].folder = win[w].folder
          PROVE  OneHolder'
      BY <1>1, <2>4 DEF Alone, OneHolder, Holds, Late
    <2>5. CASE Shows(w) \/ BeginsTask(w) \/ Quits(w) \/ Exits(w) \/ \E f \in Folders : Creates(w, f)
      <3>1. Alone(w) /\ win'[w].at \in {"idle", "validate", "mark"} /\ win'[w].op # "failed"
        BY <2>5 DEF Shows, BeginsTask, Quits, Exits, Creates
      <3>2. \A f \in Folders : drops'[f].lease = drops[f].lease
        BY <2>5 DEF Shows, BeginsTask, Quits, Exits, Creates, OnlyWindows, Halved, Rest
      <3>3. ~Holds(w)'
        BY <3>1 DEF Holds, Late
      <3> QED BY <2>4, <3>1, <3>2, <3>3
    <2>6. CASE Marks(w) \/ Passes(w) \/ Writes(w) \/ Adds(w) \/ \E p \in Procs : Runs(w, p)
      <3>1. Alone(w) /\ Working(w) /\ win[w].at # "unlease" /\ win'[w].at # "unlease"
        BY <2>6 DEF Marks, Passes, Writes, Adds, Runs
      <3>2. \A f \in Folders : drops'[f].lease = drops[f].lease
        BY <2>6 DEF Marks, Passes, Writes, Adds, Runs, OnlyWindows, Rest
      <3>3. win'[w].op # "failed" /\ win[w].op # "failed"
        BY <3>1 DEF OneHolder, Working
      <3>4. Holds(w)' => Holds(w)
        BY <2>6, <3>1 DEF Marks, Passes, Writes, Adds, Runs, Working, Holds, Late, Leased
      <3> QED BY <2>4, <3>1, <3>2, <3>3, <3>4 DEF Working
    <2> QED BY <1>6, <2>1, <2>2, <2>3, <2>5, <2>6 DEF WindowFolders
  <1> QED BY <1>3, <1>4, <1>5, <1>6, FolderSteps

-----------------------------------------------------------------------------
(* A folder nobody has made is untouched, and nothing speaks of it.        *)
Known ==
    /\ \A f \in Folders \ names : drops[f] = Unused
    /\ \A w \in Windows : win[w].folder \in names \cup {NoOne}
    /\ \A p \in Procs : /\ proc[p].req.folder \in names \cup {NoOne}
                        /\ proc[p].cur \in names \cup {NoOne}
                        /\ proc[p].todo \subseteq names
    /\ FoldersOf(board) \subseteq names

\* A board about to be published has one more folder at most, that of a drop.
LEMMA OutFolders ==
    ASSUME TypeInv, Computed, NEW p \in Procs, proc[p].at = "edited"
    PROVE  \A f \in FoldersOf(proc[p].out) :
              f \in FoldersOf(board) \/ (proc[p].req.op = "drop" /\ f = proc[p].req.folder)
  <1> DEFINE q == proc[p].req
  <1>1. board \in Seq(Post) /\ q \in Requests \cup {Pruning} /\ Names(q)
    BY DEF TypeInv, TypeOK, Writer, Placed
  <1>2. Found(board, q) /\ proc[p].out = Newest(Edited(board, q))
    BY DEF Computed
  <1>3. FoldersOf(proc[p].out) \subseteq
           FoldersOf(board) \cup (IF q.op \in {"publish", "drop"} THEN {q.folder} \ {NoOne} ELSE {})
    BY <1>1, <1>2, OutType
  <1>4. q.op = "publish" => q.folder = NoOne
    BY <1>1 DEF Names
  <1> QED BY <1>3, <1>4

(* Every step keeps Known. *)
LEMMA NextKnown == ASSUME TypeInv, BoardInv, Known, [Next]_vars PROVE Known'
  <1>1. /\ \A v \in Windows : win[v].at # "idle" => win[v].folder \in Folders
        /\ NoOne \notin Folders /\ proc \in [Procs -> Writer]
        /\ Unused.dir = FALSE /\ Unused.marker = "none"
    BY WhiteboardAssumption DEF TypeInv, TypeOK, Placed, Unused
  <1>2. CASE Elsewhere
    BY <1>2 DEF Elsewhere, Known
  <1>3. ASSUME NEW p \in Procs, Agent(p) PROVE Known'
    BY <1>3 DEF Agent, Turn, Known
  <1>4. ASSUME NEW p \in Procs, Keeps(p), UNCHANGED <<win, names>>,
               \A f \in Folders \ names : drops'[f] = drops[f],
               proc'[p].cur \in names \cup {NoOne}, proc'[p].todo \subseteq names,
               FoldersOf(board)' \subseteq names
        PROVE  Known'
    BY <1>4 DEF Known, Keeps, Turn
  <1>5. ASSUME NEW p \in Procs, WriterFolders(p) PROVE Known'
    <2>1. /\ proc[p].cur \in names \cup {NoOne} /\ proc[p].todo \subseteq names
          /\ FoldersOf(board) \subseteq names
      BY DEF Known
    <2>2. CASE Finishes(p)
      <3>1. \A v \in Windows : win'[v].folder \in {win[v].folder, NoOne}
        BY <2>2 DEF Finishes, Ended, Left
      <3>2. proc'[p] = Idle /\ \A q \in Procs \ {p} : proc'[q] = proc[q]
        BY <1>1, <2>2 DEF Finishes, Ended
      <3>3. Idle.req.folder = NoOne /\ Idle.cur = NoOne /\ Idle.todo = {}
        BY IdleType DEF Pruning
      <3> QED BY <2>2, <3>1, <3>2, <3>3 DEF Finishes, Known
    <2>3. CASE Quiet(p)
      <3>1. \A f \in Folders : drops[f].dir => f \in names
        BY <1>1 DEF Known
      <3>2. proc'[p].todo \subseteq names
        BY <2>1, <2>3, <3>1 DEF Quiet
      <3>3. /\ Keeps(p) /\ UNCHANGED <<win, names, drops, board>>
            /\ proc'[p].cur \in names \cup {NoOne}
        BY <2>1, <2>3 DEF Quiet
      <3>4. FoldersOf(board)' \subseteq names
        BY <2>1, <3>3
      <3> QED BY <1>4, <3>2, <3>3, <3>4
    <2>4. CASE Publish(p)
      <3>1. /\ Keeps(p) /\ UNCHANGED <<win, names, drops>> /\ board' = proc[p].out
            /\ proc'[p].cur = proc[p].cur /\ proc'[p].todo = proc[p].todo /\ proc[p].at = "edited"
        BY <2>4 DEF Publish
      <3>2. FoldersOf(proc[p].out) \subseteq names
        <4>1. ASSUME NEW f \in FoldersOf(proc[p].out) PROVE f \in names
          <5>1. f \in FoldersOf(board) \/ f = proc[p].req.folder
            BY <3>1, OutFolders DEF BoardInv
          <5>2. f # NoOne
            BY DEF FoldersOf
          <5> QED BY <2>1, <5>1, <5>2 DEF Known
        <4> QED BY <4>1
      <3>3. FoldersOf(board)' \subseteq names
        BY <3>1, <3>2 DEF FoldersOf
      <3> QED BY <1>4, <2>1, <3>1, <3>3
    <2>5. ASSUME NEW f \in Folders, Takes(p, f) \/ Loses(p, f) PROVE Known'
      <3>1. /\ Keeps(p) /\ UNCHANGED <<win, names, board>> /\ f \in names
            /\ proc'[p].cur \in names \cup {NoOne} /\ proc'[p].todo \subseteq names
        BY <2>1, <2>5 DEF Takes, Loses
      <3>2. \A g \in Folders \ names : drops'[g] = drops[g]
        BY <2>5, <3>1 DEF Takes, Loses, Rest
      <3>3. FoldersOf(board)' \subseteq names
        BY <2>1, <3>1
      <3> QED BY <1>4, <3>1, <3>2, <3>3
    <2>6. CASE Lists(p) \/ Erases(p) \/ Unmarks(p) \/ Empties(p)
      <3>1. /\ Keeps(p) /\ UNCHANGED <<win, names, board>>
            /\ proc'[p].cur \in names \cup {NoOne} /\ proc'[p].todo \subseteq names
        BY <2>1, <2>6 DEF Lists, Erases, Unmarks, Empties, Stays
      <3>2. \A g \in Folders \ names : drops'[g] = drops[g]
        BY <1>1, <2>1, <2>6 DEF Lists, Erases, Unmarks, Empties, Rest
      <3>3. FoldersOf(board)' \subseteq names
        BY <2>1, <3>1
      <3> QED BY <1>4, <3>1, <3>2, <3>3
    <2> QED BY <1>5, <2>2, <2>3, <2>4, <2>5, <2>6 DEF WriterFolders
  <1>6. ASSUME NEW w \in Windows, WindowFolders(w) PROVE Known'
    <2>1. Alone(w) /\ UNCHANGED board
      BY <1>6 DEF WindowFolders, Shows, Creates, Marks, BeginsTask, Quits, Passes, Leases,
               Writes, Adds, Fails, Returns, Runs, Exits, OnlyWindows, Left, Alone
    <2>2. ASSUME names \subseteq names', \A f \in Folders \ names' : drops'[f] = drops[f],
                 win'[w].folder \in names' \cup {NoOne},
                 \A p \in Procs : /\ proc'[p].req.folder \in names \cup {NoOne}
                                  /\ proc'[p].cur \in names \cup {NoOne}
                                  /\ proc'[p].todo \subseteq names
          PROVE  Known'
      <3>1. FoldersOf(board)' \subseteq names'
        BY <2>1, <2>2 DEF Known
      <3> QED BY <2>1, <2>2, <3>1 DEF Known, Alone
    <2>3. CASE UNCHANGED proc
      <3>1. names \subseteq names' /\ \A f \in Folders \ names' : drops'[f] = drops[f]
        <4>1. CASE Fails(w) \/ Exits(w)
          BY <1>1, <4>1 DEF Fails, Exits, Halved, Rest, Known
        <4>2. CASE ~Fails(w) /\ ~Exits(w)
          BY <1>1, <1>6, <4>2 DEF WindowFolders, Shows, Creates, Marks, BeginsTask, Quits, Passes,
                 Leases, Writes, Adds, Returns, Runs, OnlyWindows, Rest, Known
        <4> QED BY <4>1, <4>2
      <3>2. win'[w].folder \in names' \cup {NoOne}
        <4>1. CASE Shows(w)
          BY <1>1, <4>1 DEF Shows, OnlyWindows, Known
        <4>2. CASE \E f \in Folders : Creates(w, f)
          BY <4>2 DEF Creates
        <4>3. CASE Fails(w)
          BY <4>3 DEF Fails, Left, Known
        <4>4. CASE ~Shows(w) /\ ~Fails(w) /\ ~\E f \in Folders : Creates(w, f)
          <5>1. win'[w].folder \in {win[w].folder, NoOne}
            BY <1>6, <4>4 DEF WindowFolders, Marks, BeginsTask, Quits, Passes, Leases,
               Writes, Adds, Returns, Runs, Exits, Working
          <5> QED BY <3>1, <5>1 DEF Known
        <4> QED BY <4>1, <4>2, <4>3, <4>4
      <3> QED BY <2>2, <2>3, <3>1, <3>2 DEF Known
    <2>4. ASSUME NEW p \in Procs, Runs(w, p) PROVE Known'
      <3>1. \A q \in Procs : /\ proc'[q].req.folder \in names \cup {NoOne}
                             /\ proc'[q].cur \in names \cup {NoOne}
                             /\ proc'[q].todo \subseteq names
        BY <2>4 DEF Runs, Turn, Known
      <3>2. UNCHANGED <<names, drops>> /\ win'[w].folder = win[w].folder
        BY <2>4 DEF Runs, Working
      <3> QED BY <2>2, <3>1, <3>2 DEF Known
    <2>5. CASE Exits(w)
      <3>1. \A q \in Procs : /\ proc'[q].req.folder \in names \cup {NoOne}
                             /\ proc'[q].cur \in names \cup {NoOne}
                             /\ proc'[q].todo \subseteq names
        BY <2>5 DEF Exits, Stays, Known
      <3>2. UNCHANGED names /\ win'[w].folder = NoOne
        BY <2>5 DEF Exits
      <3>3. \A f \in Folders \ names' : drops'[f] = drops[f]
        BY <1>1, <2>5 DEF Exits, Halved, Rest, Known
      <3> QED BY <2>2, <3>1, <3>2, <3>3
    <2>6. CASE ~Exits(w) /\ ~\E p \in Procs : Runs(w, p)
      <3>1. UNCHANGED proc
        BY <1>6, <2>6 DEF WindowFolders, Shows, Creates, Marks, BeginsTask, Quits, Passes, Leases,
               Writes, Adds, Fails, Returns, OnlyWindows
      <3> QED BY <2>3, <3>1
    <2> QED BY <2>4, <2>5, <2>6
  <1> QED BY <1>2, <1>3, <1>5, <1>6, FolderSteps

-----------------------------------------------------------------------------
(* A folder from its creation until its input is on the board: it is       *)
(* there, nobody cleans it or is going to, and it is live once marked.     *)
Fresh(f) ==
    /\ drops[f].dir /\ f \notin FoldersOf(board)
    /\ \A p \in Procs : proc[p].cur # f /\ (f \in proc[p].todo => proc[p].scanned)

Makes(w) == win[w].op \in {"create", "drop"} /\ win[w].at \in {"check"} \cup Early \cup Late
Publishes(p) == proc[p].req.op = "drop" /\ proc[p].at \in {"begin", "locked", "edited"}

\* While a window makes it.
Making(w) ==
    LET f == win[w].folder
    IN /\ Fresh(f)
       /\ IF win[w].at = "mark"
          THEN /\ drops[f].marker = "none" /\ drops[f].files = {} /\ drops[f].owned = {}
               /\ \A v \in Windows : win[v].folder = f => v = w
          ELSE drops[f].marker = "live"
       /\ win[w].at = "run" => Readme \in drops[f].files

\* While a writer is about to publish it.
Publishing(p) ==
    LET f == proc[p].req.folder
    IN Fresh(f) /\ drops[f].marker = "live" /\ Readme \in drops[f].files

Made ==
    /\ \A w \in Windows : win[w].at = "mark" => Makes(w)
    /\ \A w \in Windows : Makes(w) => Making(w)
    /\ \A p \in Procs : Publishes(p) => Publishing(p)

OneMaker ==
    /\ \A v, w \in Windows : Makes(v) /\ Makes(w) /\ win[v].folder = win[w].folder => v = w
    /\ \A p, q \in Procs : Publishes(p) /\ Publishes(q) /\ proc[p].req.folder = proc[q].req.folder => p = q
    /\ \A w \in Windows, p \in Procs : Makes(w) /\ Publishes(p) => win[w].folder # proc[p].req.folder

\* What a writer is cleaning is marked as it should be.
Marked ==
    \A p \in Procs :
        /\ proc[p].at \in {"listing", "deleting"} => drops[proc[p].cur].marker = "retired"
        /\ proc[p].at = "empty" => drops[proc[p].cur].marker = "none"

\* What it has still to retire has left the board.
LeftBehind ==
    \A p \in Procs :
        /\ proc[p].at = "edited" => proc[p].todo = FoldersOf(board) \ FoldersOf(proc[p].out)
        /\ proc[p].at \in Cleaning /\ ~proc[p].scanned => proc[p].todo \cap FoldersOf(board) = {}

(* The types of the fields that place a folder. *)
LEMMA PlaceTypes ==
    ASSUME TypeInv
    PROVE  /\ \A v \in Windows : win[v].at # "idle" => win[v].folder \in Folders
           /\ \A p \in Procs : proc[p].at \in AtFolder => proc[p].cur \in Folders
           /\ \A p \in Procs : proc[p].req.op = "drop" => proc[p].req.folder \in Folders
           /\ NoOne \notin Folders /\ NoOne \notin Windows
           /\ win \in [Windows -> Window] /\ proc \in [Procs -> Writer] /\ drops \in [Folders -> Folder]
           /\ \A p \in Procs : proc[p].todo \subseteq Folders
           /\ FoldersOf(board) \subseteq Folders
           /\ Unused.dir = FALSE /\ Unused.marker = "none" /\ Unused.files = {} /\ Unused.owned = {}
  <1>1. FoldersOf(board) \subseteq Folders
    BY FoldersType DEF TypeInv, TypeOK
  <1> QED BY <1>1, WhiteboardAssumption DEF TypeInv, TypeOK, Placed, Names, Writer, Unused

\* A writer touches no folder that is fresh and not retired, except to publish it.
LEMMA FreshUnderWriter ==
    ASSUME TypeInv, BoardInv, NEW p \in Procs, WriterFolders(p),
           NEW f \in Folders, Fresh(f), drops[f].marker # "retired",
           ~(Publishes(p) /\ proc[p].req.folder = f) \/ ~Publish(p)
    PROVE  Fresh(f)' /\ drops'[f] = drops[f]
  <1>1. \A q \in Procs : proc[q].cur # f /\ (f \in proc[q].todo => proc[q].scanned)
    BY DEF Fresh
  <1>2. f # NoOne /\ proc \in [Procs -> Writer]
    BY PlaceTypes
  <1>3. CASE Publish(p)
    <2>1. /\ UNCHANGED drops /\ board' = proc[p].out /\ proc[p].at = "edited"
          /\ proc'[p].cur = proc[p].cur /\ proc'[p].todo = proc[p].todo
          /\ proc'[p].scanned = proc[p].scanned
          /\ \A q \in Procs \ {p} : proc'[q] = proc[q]
      BY <1>3 DEF Publish, Keeps, Turn
    <2>2. f \notin FoldersOf(proc[p].out)
      BY <1>3, <2>1, OutFolders DEF BoardInv, Publishes, Fresh
    <2>3. f \notin FoldersOf(board)'
      BY <2>1, <2>2 DEF FoldersOf
    <2> QED BY <1>1, <2>1, <2>3 DEF Fresh
  <1>4. CASE ~Publish(p)
    <2>1. UNCHANGED board
      BY <1>4 DEF WriterFolders, Quiet, Takes, Loses, Lists, Erases, Unmarks, Empties, Finishes
    <2>2. \A q \in Procs \ {p} : proc'[q] = proc[q]
      BY <1>2 DEF WriterFolders, Quiet, Publish, Takes, Loses, Lists, Erases, Unmarks, Empties, Finishes,
                  Keeps, Turn, Ended
    <2>3. /\ proc'[p].cur # f /\ (f \in proc'[p].todo => proc'[p].scanned)
          /\ drops'[f] = drops[f]
      <3>1. CASE Quiet(p)
        BY <1>1, <1>2, <3>1 DEF Quiet, Fresh
      <3>2. ASSUME NEW g \in Folders, Takes(p, g) \/ Loses(p, g)
            PROVE  /\ proc'[p].cur # f /\ (f \in proc'[p].todo => proc'[p].scanned)
                   /\ drops'[f] = drops[f]
        <4>1. g # f
          BY <1>1, <3>2 DEF Takes, Loses
        <4> QED BY <1>1, <3>2, <4>1 DEF Takes, Loses, Rest
      <3>3. CASE Lists(p) \/ Erases(p) \/ Unmarks(p) \/ Empties(p)
        BY <1>1, <1>2, <3>3 DEF Lists, Erases, Unmarks, Empties, Stays, Rest
      <3>4. CASE Finishes(p)
        BY <1>2, <3>4, IdleType DEF Finishes, Ended
      <3> QED BY <1>4, <3>1, <3>2, <3>3, <3>4 DEF WriterFolders
    <2>4. f \notin FoldersOf(board)'
      BY <2>1 DEF Fresh
    <2> QED BY <1>1, <2>2, <2>3, <2>4 DEF Fresh
  <1> QED BY <1>3, <1>4

\* A window leaves the other folders alone, and of its own changes little.
LEMMA FoldersUnderWindow ==
    ASSUME TypeInv, Known, NEW w \in Windows, WindowFolders(w), NEW f \in Folders, f \in names
    PROVE  /\ f # win[w].folder => drops'[f] = drops[f]
           /\ drops[f].files \subseteq drops'[f].files
           /\ drops[f].owned \subseteq drops'[f].owned
           /\ drops'[f].dir = drops[f].dir
           /\ win[w].at # "mark" => drops'[f].marker = drops[f].marker
           /\ drops'[f].marker \in {drops[f].marker, "live"}
  <1>1. CASE \E g \in Folders : Creates(w, g)
    BY <1>1 DEF Creates, Rest
  <1>2. CASE Marks(w) \/ Leases(w) \/ Adds(w) \/ Returns(w)
    BY <1>2 DEF Marks, Leases, Adds, Returns, Rest
  <1>3. CASE Writes(w)
    BY <1>3 DEF Writes, Rest, Merged
  <1>4. CASE Shows(w) \/ BeginsTask(w) \/ Quits(w) \/ Passes(w) \/ Fails(w) \/ Exits(w)
             \/ \E p \in Procs : Runs(w, p)
    BY <1>4 DEF Shows, BeginsTask, Quits, Passes, Fails, Exits, Runs, OnlyWindows, Halved, Rest
  <1> QED BY <1>1, <1>2, <1>3, <1>4 DEF WindowFolders

\* Nor does it touch what makes a folder fresh.
LEMMA FreshUnderWindow ==
    ASSUME TypeInv, Known, NEW w \in Windows, WindowFolders(w), NEW f \in Folders, f \in names, Fresh(f)
    PROVE  Fresh(f)'
  <1>1. drops'[f].dir = drops[f].dir
    BY FoldersUnderWindow
  <1>2. UNCHANGED board
    BY DEF WindowFolders, Shows, Creates, Marks, BeginsTask, Quits, Passes, Leases,
           Writes, Adds, Fails, Returns, Runs, Exits, OnlyWindows
  <1>3. f # NoOne
    BY PlaceTypes
  <1>4. \A p \in Procs : proc'[p].cur # f /\ (f \in proc'[p].todo => proc'[p].scanned)
    <2>1. CASE UNCHANGED proc
      BY <2>1 DEF Fresh
    <2>2. CASE Exits(w)
      BY <2>2 DEF Exits, Stays, Fresh
    <2>3. ASSUME NEW p \in Procs, Runs(w, p)
          PROVE  \A q \in Procs : proc'[q].cur # f /\ (f \in proc'[q].todo => proc'[q].scanned)
      BY <1>3, <2>3 DEF Runs, Turn, Fresh
    <2>4. CASE ~Exits(w) /\ ~\E p \in Procs : Runs(w, p)
      <3>1. UNCHANGED proc
        BY <2>4 DEF WindowFolders, Shows, Creates, Marks, BeginsTask, Quits, Passes, Leases,
               Writes, Adds, Fails, Returns, OnlyWindows
      <3> QED BY <2>1, <3>1
    <2> QED BY <2>2, <2>3, <2>4
  <1>5. f \notin FoldersOf(board)'
    BY <1>2 DEF Fresh
  <1> QED BY <1>1, <1>4, <1>5 DEF Fresh

(* Every step keeps Marked. *)
LEMMA NextMarked ==
    ASSUME TypeInv, BoardInv, Known, Marked, Made, [Next]_vars
    PROVE  Marked'
  <1>1. \A p, q \in Procs : proc[p].at \in Holding /\ proc[q].at \in Holding => p = q
    BY DEF BoardInv, Exclusive
  <1>2. \A p \in Procs : proc[p].at \in AtFolder => proc[p].cur \in Folders /\ proc[p].cur \in names
    BY PlaceTypes DEF Known
  <1>3. CASE Elsewhere
    BY <1>3 DEF Elsewhere, Marked
  <1>4. ASSUME NEW p \in Procs, Agent(p) PROVE Marked'
    BY <1>4 DEF Agent, Turn, Deciding, Marked
  <1>5. ASSUME NEW p \in Procs, WriterFolders(p) PROVE Marked'
    <2>1. proc \in [Procs -> Writer]
      BY PlaceTypes
    <2>2. \A q \in Procs \ {p} : proc'[q] = proc[q]
      BY <1>5, <2>1 DEF WriterFolders, Quiet, Publish, Takes, Loses, Lists, Erases, Unmarks, Empties,
                  Finishes, Keeps, Turn, Ended
    <2>3. CASE Quiet(p) \/ Publish(p) \/ Finishes(p)
      <3>1. UNCHANGED drops /\ proc'[p].at \notin AtFolder
        BY <2>1, <2>3, IdleType DEF Quiet, Publish, Finishes, Ended, AtFolder
      <3> QED BY <2>2, <3>1 DEF Marked, AtFolder
    <2>4. CASE ~(Quiet(p) \/ Publish(p) \/ Finishes(p))
      <3>1. proc[p].at \in Cleaning
        BY <1>5, <2>4 DEF WriterFolders, Takes, Loses, Lists, Erases, Unmarks, Empties, Cleaning
      <3>2. \A q \in Procs \ {p} : proc'[q].at \notin AtFolder
        BY <1>1, <2>2, <3>1 DEF AtFolder, Cleaning, Holding
      <3>3. /\ proc'[p].at \in {"listing", "deleting"} => drops'[proc'[p].cur].marker = "retired"
            /\ proc'[p].at = "empty" => drops'[proc'[p].cur].marker = "none"
        BY <1>5, <2>4 DEF WriterFolders, Takes, Loses, Lists, Erases, Unmarks, Empties, Stays, Marked
      <3> QED BY <3>2, <3>3 DEF Marked, AtFolder
    <2> QED BY <2>3, <2>4
  <1>6. ASSUME NEW w \in Windows, WindowFolders(w) PROVE Marked'
    <2>1. \A p \in Procs : proc[p].at \in AtFolder =>
             drops'[proc[p].cur].marker = drops[proc[p].cur].marker
      <3>1. ASSUME NEW p \in Procs, proc[p].at \in AtFolder
            PROVE  drops'[proc[p].cur].marker = drops[proc[p].cur].marker
        <4>1. CASE win[w].at # "mark"
          BY <1>2, <1>6, <3>1, <4>1, FoldersUnderWindow
        <4>2. CASE win[w].at = "mark"
          <5>1. proc[p].cur # win[w].folder
            BY <4>2 DEF Made, Making, Fresh
          <5> QED BY <1>2, <1>6, <3>1, <5>1, FoldersUnderWindow
        <4> QED BY <4>1, <4>2
      <3> QED BY <3>1
    <2>2. \A p \in Procs : \/ proc'[p].at \notin AtFolder
                           \/ proc'[p].at = proc[p].at /\ proc'[p].cur = proc[p].cur
      <3>1. CASE Exits(w)
        BY <3>1 DEF Exits, Stays
      <3>2. CASE \E p \in Procs : Runs(w, p)
        BY <3>2 DEF Runs, Turn, Deciding, AtFolder
      <3>3. CASE ~Exits(w) /\ ~\E p \in Procs : Runs(w, p)
        <4>1. UNCHANGED proc
          BY <1>6, <3>3 DEF WindowFolders, Shows, Creates, Marks, BeginsTask, Quits, Passes, Leases,
                 Writes, Adds, Fails, Returns, OnlyWindows
        <4> QED BY <4>1
      <3> QED BY <3>1, <3>2, <3>3
    <2> QED BY <2>1, <2>2 DEF Marked, AtFolder
  <1> QED BY <1>3, <1>4, <1>5, <1>6, FolderSteps

(* Every step keeps LeftBehind. *)
LEMMA NextLeftBehind ==
    ASSUME TypeInv, BoardInv, LeftBehind, [Next]_vars
    PROVE  LeftBehind'
  <1>1. \A p, q \in Procs : proc[p].at \in Holding /\ proc[q].at \in Holding => p = q
    BY DEF BoardInv, Exclusive
  <1>2. ASSUME UNCHANGED board,
               \A p \in Procs : \/ proc'[p].at = "idle" \/ proc'[p].at \in Deciding
                                \/ /\ proc'[p].at = proc[p].at /\ proc'[p].todo = proc[p].todo
                                   /\ proc'[p].scanned = proc[p].scanned /\ proc'[p].out = proc[p].out
        PROVE  LeftBehind'
    BY <1>2 DEF LeftBehind, Deciding, Cleaning
  <1>3. CASE Elsewhere
    BY <1>2, <1>3 DEF Elsewhere
  <1>4. ASSUME NEW p \in Procs, Agent(p) PROVE LeftBehind'
    BY <1>2, <1>4 DEF Agent, Turn
  <1>5. ASSUME NEW p \in Procs, WriterFolders(p) PROVE LeftBehind'
    <2>1. proc \in [Procs -> Writer]
      BY PlaceTypes
    <2>2. \A q \in Procs \ {p} : proc'[q] = proc[q]
      BY <1>5, <2>1 DEF WriterFolders, Quiet, Publish, Takes, Loses, Lists, Erases, Unmarks, Empties,
                  Finishes, Keeps, Turn, Ended
    <2>3. CASE Finishes(p)
      <3>1. proc'[p].at = "idle"
        BY <2>1, <2>3, IdleType DEF Finishes, Ended
      <3> QED BY <1>2, <2>2, <2>3, <3>1 DEF Finishes
    <2>4. CASE Publish(p)
      <3>1. \A q \in Procs \ {p} : proc'[q].at \notin Holding
        BY <1>1, <2>2, <2>4 DEF Publish, Holding
      <3>2. proc'[p].at = "cleaning" /\ proc'[p].todo \cap FoldersOf(proc[p].out) = {}
        BY <2>4 DEF Publish, LeftBehind
      <3>3. FoldersOf(board)' = FoldersOf(proc[p].out)
        BY <2>4 DEF Publish, FoldersOf
      <3> QED BY <3>1, <3>2, <3>3 DEF LeftBehind, Holding
    <2>5. CASE ~Finishes(p) /\ ~Publish(p)
      <3>1. UNCHANGED board
        BY <1>5, <2>5 DEF WriterFolders, Quiet, Takes, Loses, Lists, Erases, Unmarks, Empties
      <3>2. /\ proc'[p].at = "edited" => proc'[p].todo = FoldersOf(board) \ FoldersOf(proc'[p].out)
            /\ proc'[p].at \in Cleaning =>
                  \/ proc'[p].scanned
                  \/ /\ proc[p].at \in Cleaning /\ proc'[p].scanned = proc[p].scanned
                     /\ proc'[p].todo \subseteq proc[p].todo
        BY <1>5, <2>5 DEF WriterFolders, Quiet, Takes, Loses, Lists, Erases, Unmarks, Empties, Stays, Cleaning
      <3> QED BY <2>2, <3>1, <3>2 DEF LeftBehind
    <2> QED BY <2>3, <2>4, <2>5
  <1>6. ASSUME NEW w \in Windows, WindowFolders(w) PROVE LeftBehind'
    <2>1. UNCHANGED board
      BY <1>6 DEF WindowFolders, Shows, Creates, Marks, BeginsTask, Quits, Passes, Leases,
             Writes, Adds, Fails, Returns, Runs, Exits, OnlyWindows
    <2>2. CASE Exits(w)
      BY <1>2, <2>1, <2>2 DEF Exits, Stays
    <2>3. CASE \E p \in Procs : Runs(w, p)
      BY <1>2, <2>1, <2>3 DEF Runs, Turn
    <2>4. CASE ~Exits(w) /\ ~\E p \in Procs : Runs(w, p)
      <3>1. UNCHANGED proc
        BY <1>6, <2>4 DEF WindowFolders, Shows, Creates, Marks, BeginsTask, Quits, Passes, Leases,
               Writes, Adds, Fails, Returns, OnlyWindows
      <3> QED BY <1>2, <2>1, <3>1
    <2> QED BY <2>2, <2>3, <2>4
  <1> QED BY <1>3, <1>4, <1>5, <1>6, FolderSteps

\* A writer does not begin the making of a folder.
LEMMA MakesUnderWriter ==
    ASSUME TypeInv, NEW p \in Procs, WriterFolders(p), NEW w \in Windows
    PROVE  /\ Makes(w)' => Makes(w) /\ win'[w] = win[w]
           /\ win'[w].at = "mark" => win'[w] = win[w]
           /\ win'[w].folder \in {win[w].folder, NoOne}
  <1>1. CASE UNCHANGED win
    BY <1>1 DEF Makes
  <1>2. CASE ~UNCHANGED win
    <2>1. Finishes(p)
      BY <1>2, WriterKeeps
    <2>2. proc[p].by \in Windows /\ Left(proc[p].by)
      BY <1>2, <2>1 DEF Finishes, Ended
    <2>3. win'[w] = win[w] \/ (win'[w].at \in {"idle", "unlease"} /\ win'[w].folder \in {win[w].folder, NoOne})
      BY <2>2 DEF Left
    <2> QED BY <2>3 DEF Makes, Early, Late
  <1> QED BY <1>1, <1>2

\* A window begins it by creating the folder, and goes on step by step.
LEMMA MakesUnderItself ==
    ASSUME TypeInv, NEW w \in Windows, WindowFolders(w)
    PROVE  /\ Makes(w)' => \/ \E f \in Folders : Creates(w, f)
                           \/ /\ Makes(w) /\ Working(w)
                              /\ Marks(w) \/ Passes(w) \/ Leases(w) \/ Writes(w) \/ Adds(w)
           /\ win'[w].at = "mark" => \E f \in Folders : Creates(w, f)
  <1>1. CASE Marks(w) \/ Passes(w) \/ Leases(w) \/ Writes(w) \/ Adds(w)
    <2>1. Working(w) /\ win[w].at \in {"check"} \cup Early \cup Late /\ win'[w].at # "mark"
      BY <1>1 DEF Marks, Passes, Leases, Writes, Adds, Early, Late
    <2>2. Makes(w)' => Makes(w)
      BY <2>1 DEF Makes, Working
    <2> QED BY <1>1, <2>1, <2>2
  <1>2. CASE Shows(w) \/ BeginsTask(w) \/ Quits(w) \/ Returns(w) \/ Exits(w)
             \/ \E p \in Procs : Runs(w, p)
    <2>1. \/ win'[w].at \in {"idle", "wait"}
          \/ win'[w].op \in {"save", "add", "remove"} /\ win'[w].at = "validate"
      BY <1>2 DEF Shows, BeginsTask, Quits, Returns, Exits, Runs
    <2> QED BY <2>1 DEF Makes, Early, Late
  <1>3. CASE Fails(w)
    <2>1. win'[w].at \in {"idle", "unlease"}
      BY <1>3 DEF Fails, Left
    <2> QED BY <2>1 DEF Makes, Early, Late
  <1> QED BY <1>1, <1>2, <1>3 DEF WindowFolders

(* A window's step changes one window only. *)
LEMMA AloneWindow ==
    ASSUME NEW w \in Windows, WindowFolders(w)
    PROVE  Alone(w) /\ UNCHANGED board /\ names \subseteq names'
  BY DEF WindowFolders, Shows, Creates, Marks, BeginsTask, Quits, Passes, Leases,
         Writes, Adds, Fails, Returns, Runs, Exits, OnlyWindows, Left, Alone

\* The making of a folder, under the steps of others.
LEMMA MakingUnderOthers ==
    ASSUME TypeInv, Known, Made, NEW w \in Windows, Makes(w), NEW v \in Windows \ {w},
           WindowFolders(v)
    PROVE  Making(w)'
  <1> DEFINE f == win[w].folder
  <1>1. /\ Making(w) /\ win[w].at # "idle"
      BY DEF Made, Makes, Early, Late
  <1>2. f \in Folders /\ f \in names /\ win'[w] = win[w]
    <2>1. f \in Folders /\ f # NoOne
      BY <1>1, PlaceTypes
    <2> QED BY <2>1, AloneWindow DEF Known, Alone
  <1>3. Fresh(f)'
    BY <1>1, <1>2, FreshUnderWindow DEF Making
  <1>4. CASE win[w].at = "mark"
    <2>1. win[v].folder # f
      BY <1>1, <1>4 DEF Making
    <2>2. drops'[f] = drops[f]
      BY <1>2, <2>1, FoldersUnderWindow
    <2>3. win'[v].folder # f
      <3>1. CASE Shows(v)
        BY <1>1, <1>4, <3>1 DEF Shows, Making
      <3>2. CASE \E g \in Folders : Creates(v, g)
        BY <1>2, <3>2 DEF Creates
      <3>3. CASE ~Shows(v) /\ ~\E g \in Folders : Creates(v, g)
        <4>1. win'[v].folder \in {win[v].folder, NoOne}
          BY <3>3 DEF WindowFolders, Marks, BeginsTask, Quits, Passes, Leases,
               Writes, Adds, Returns, Runs, Exits, Fails, Left, Working
        <4> QED BY <1>2, <2>1, <4>1, PlaceTypes
      <3> QED BY <3>1, <3>2, <3>3
    <2>4. \A u \in Windows : win'[u].folder = f => u = w
      BY <1>1, <1>4, <2>3, AloneWindow DEF Making, Alone
    <2> QED BY <1>1, <1>2, <1>3, <1>4, <2>2, <2>4 DEF Making
  <1>5. CASE win[w].at # "mark"
    <2>1. drops[f].marker = "live"
      BY <1>1, <1>5 DEF Making
    <2>2. drops'[f].marker = "live" /\ drops[f].files \subseteq drops'[f].files
      BY <1>2, <2>1, FoldersUnderWindow
    <2> QED BY <1>1, <1>2, <1>3, <1>5, <2>2 DEF Making
  <1> QED BY <1>4, <1>5

\* Under its own.
LEMMA MakingUnderItself ==
    ASSUME TypeInv, Known, Made, NEW w \in Windows, WindowFolders(w), Makes(w)'
    PROVE  Making(w)'
  <1>1. ASSUME NEW f \in Folders, Creates(w, f) PROVE Making(w)'
    <2>1. f \notin names /\ drops[f] = Unused /\ win'[w].at = "mark" /\ win'[w].folder = f
          /\ names' = names \cup {f} /\ UNCHANGED <<board, proc>> /\ f # NoOne
      BY <1>1, PlaceTypes DEF Creates, Known
    <2>2. Fresh(f)'
      BY <1>1, <2>1 DEF Creates, Known, Fresh
    <2>3. drops'[f].marker = "none" /\ drops'[f].files = {} /\ drops'[f].owned = {}
      BY <1>1, <2>1, PlaceTypes DEF Creates
    <2>4. \A v \in Windows : win'[v].folder = f => v = w
      BY <1>1, <2>1 DEF Creates, Alone, Known
    <2> QED BY <2>1, <2>2, <2>3, <2>4 DEF Making
  <1>2. CASE /\ Makes(w) /\ Working(w)
             /\ Marks(w) \/ Passes(w) \/ Leases(w) \/ Writes(w) \/ Adds(w)
    <2> DEFINE f == win[w].folder
    <2>1. Making(w) /\ win[w].at # "idle"
      BY <1>2 DEF Made, Makes, Early, Late
    <2>2. f \in Folders /\ f \in names
      BY <2>1, PlaceTypes DEF Known
    <2>3. Fresh(f)' /\ win'[w].folder = f
      BY <1>2, <2>1, <2>2, FreshUnderWindow DEF Making, Working
    <2>4. drops'[f].marker = "live" /\ win'[w].at # "mark"
      <3>1. CASE Marks(w)
        BY <3>1 DEF Marks
      <3>2. CASE ~Marks(w)
        <4>1. win[w].at # "mark" /\ win'[w].at # "mark"
          BY <1>2, <3>2 DEF Passes, Leases, Writes, Adds
        <4>2. drops[f].marker = "live"
          BY <2>1, <4>1 DEF Making
        <4> QED BY <2>2, <4>1, <4>2, FoldersUnderWindow
      <3> QED BY <3>1, <3>2
    <2>5. win'[w].at = "run" => Readme \in drops'[f].files
      BY <1>2 DEF Marks, Passes, Leases, Writes, Adds, Makes
    <2> QED BY <2>3, <2>4, <2>5 DEF Making
  <1> QED BY <1>1, <1>2, MakesUnderItself

\* What a window may do to the writers.
LEMMA WindowsAndWriters ==
    ASSUME TypeInv, NEW w \in Windows, WindowFolders(w), NEW p \in Procs
    PROVE  \/ proc'[p].at = proc[p].at /\ proc'[p].req = proc[p].req
           \/ Runs(w, p)
  <1>1. CASE Exits(w)
    BY <1>1 DEF Exits
  <1>2. CASE \E q \in Procs : Runs(w, q)
    BY <1>2 DEF Runs, Turn
  <1>3. CASE ~Exits(w) /\ ~\E q \in Procs : Runs(w, q)
    <2>1. UNCHANGED proc
      BY <1>3 DEF WindowFolders, Shows, Creates, Marks, BeginsTask, Quits, Passes, Leases,
             Writes, Adds, Fails, Returns, OnlyWindows
    <2> QED BY <2>1
  <1> QED BY <1>1, <1>2, <1>3

\* A writer that is about to publish a drop has been started for it, and has
\* only read the board since.
LEMMA PublishesUnderWriter ==
    ASSUME TypeInv, NEW p \in Procs, WriterFolders(p), NEW q \in Procs, Publishes(q)'
    PROVE  Publishes(q) /\ proc'[q].req = proc[q].req /\ (q = p => ~Publish(p))
  <1>1. proc \in [Procs -> Writer]
    BY PlaceTypes
  <1>2. \A r \in Procs \ {p} : proc'[r] = proc[r]
    BY <1>1 DEF WriterFolders, Quiet, Publish, Takes, Loses, Lists, Erases, Unmarks, Empties,
                Finishes, Keeps, Turn, Ended
  <1>3. CASE q # p
    BY <1>2, <1>3 DEF Publishes
  <1>4. CASE q = p
    <2>1. ~Finishes(p)
      BY <1>1, <1>4, IdleType DEF Finishes, Ended, Publishes
    <2>2. proc'[p].req = proc[p].req
      BY <2>1, WriterKeeps DEF Keeps
    <2>3. Quiet(p) /\ proc[p].at \in {"begin", "locked"} /\ ~Publish(p)
      BY <1>4, <2>1 DEF WriterFolders, Quiet, Publish, Takes, Loses, Lists, Erases, Unmarks, Empties, Publishes
    <2> QED BY <1>4, <2>2, <2>3 DEF Publishes
  <1> QED BY <1>3, <1>4

\* The window that starts it was making the folder.
LEMMA RunsMade ==
    ASSUME TypeInv, NEW w \in Windows, NEW p \in Procs, Runs(w, p), Publishes(p)'
    PROVE  Makes(w) /\ win[w].at = "run" /\ proc'[p].req.folder = win[w].folder
           /\ ~Makes(w)' /\ ~Publishes(p)
  BY DEF Runs, Publishes, Makes, WriterOp, Early, Late

(* Every step keeps Made. *)
LEMMA NextMade ==
    ASSUME TypeInv, BoardInv, Known, Made, OneMaker, [Next]_vars
    PROVE  Made'
  <1>1. CASE Elsewhere
    BY <1>1 DEF Elsewhere, Made, Makes, Making, Publishes, Publishing, Fresh
  <1>2. ASSUME NEW p \in Procs, Agent(p) PROVE Made'
    <2>1. UNCHANGED <<win, drops, board>> /\ \A q \in Procs \ {p} : proc'[q] = proc[q]
      BY <1>2 DEF Agent, Turn
    <2>2. \A f \in Folders : Fresh(f) => Fresh(f)'
      BY <1>2, <2>1, PlaceTypes DEF Agent, Fresh
    <2>3. \A w \in Windows : Makes(w)' => Makes(w) /\ win[w].folder \in Folders
      BY <2>1, PlaceTypes DEF Makes, Early, Late
    <2>4. \A w \in Windows : Makes(w)' => Making(w)'
      BY <2>1, <2>2, <2>3 DEF Made, Making
    <2>5. \A q \in Procs : Publishes(q)' => Publishes(q) /\ proc'[q] = proc[q]
      BY <1>2, <2>1 DEF Agent, Publishes
    <2>6. \A q \in Procs : Publishes(q) => proc[q].req.folder \in Folders
      BY PlaceTypes DEF Publishes
    <2>7. \A q \in Procs : Publishes(q)' => Publishing(q)'
      BY <2>1, <2>2, <2>5, <2>6 DEF Made, Publishing
    <2>8. \A w \in Windows : win'[w].at = "mark" => Makes(w)'
      BY <2>1 DEF Made, Makes
    <2> QED BY <2>4, <2>7, <2>8 DEF Made
  <1>3. ASSUME NEW p \in Procs, WriterFolders(p) PROVE Made'
    <2>1. ASSUME NEW w \in Windows, Makes(w)' PROVE Making(w)'
      <3>1. Makes(w) /\ win'[w] = win[w] /\ Making(w) /\ win[w].at # "idle"
        BY <1>3, <2>1, MakesUnderWriter DEF Made, Makes, Early, Late
      <3>2. win[w].folder \in Folders /\ win[w].folder # NoOne
        BY <3>1, PlaceTypes
      <3>3. Fresh(win[w].folder)' /\ drops'[win[w].folder] = drops[win[w].folder]
        BY <1>3, <3>1, <3>2, FreshUnderWriter DEF Making, OneMaker
      <3>4. \A v \in Windows : win'[v].folder \in {win[v].folder, NoOne}
        BY <1>3, MakesUnderWriter
      <3> QED BY <3>1, <3>2, <3>3, <3>4 DEF Making
    <2>2. ASSUME NEW q \in Procs, Publishes(q)' PROVE Publishing(q)'
      <3>1. Publishes(q) /\ proc'[q].req = proc[q].req /\ Publishing(q) /\ (q = p => ~Publish(p))
        BY <1>3, <2>2, PublishesUnderWriter DEF Made
      <3>2. proc[q].req.folder \in Folders
        BY <3>1, PlaceTypes DEF Publishes
      <3>3. Fresh(proc[q].req.folder)' /\ drops'[proc[q].req.folder] = drops[proc[q].req.folder]
        <4>1. CASE q # p
          BY <1>3, <3>1, <3>2, <4>1, FreshUnderWriter DEF Publishing, OneMaker
        <4>2. CASE q = p
          BY <1>3, <3>1, <3>2, <4>2, FreshUnderWriter DEF Publishing
        <4> QED BY <4>1, <4>2
      <3> QED BY <3>1, <3>3 DEF Publishing
    <2>3. \A w \in Windows : win'[w].at = "mark" => Makes(w)'
      BY <1>3, MakesUnderWriter DEF Made, Makes
    <2> QED BY <2>1, <2>2, <2>3 DEF Made
  <1>4. ASSUME NEW w \in Windows, WindowFolders(w) PROVE Made'
    <2>1. ASSUME NEW v \in Windows, Makes(v)' PROVE Making(v)'
      <3>1. CASE v = w
        BY <1>4, <2>1, <3>1, MakingUnderItself
      <3>2. CASE v # w
        <4>1. win'[v] = win[v]
          BY <1>4, <3>2, AloneWindow DEF Alone
        <4>2. Makes(v)
          BY <2>1, <4>1 DEF Makes
        <4> QED BY <1>4, <3>2, <4>2, MakingUnderOthers
      <3> QED BY <3>1, <3>2
    <2>2. ASSUME NEW q \in Procs, Publishes(q)' PROVE Publishing(q)'
      <3>1. CASE Runs(w, q)
        <4>1. Makes(w) /\ win[w].at = "run" /\ proc'[q].req.folder = win[w].folder
          BY <2>2, <3>1, RunsMade
        <4>2. Making(w) /\ win[w].folder \in Folders /\ win[w].folder \in names
          BY <4>1, PlaceTypes DEF Made, Known
        <4>3. PICK f \in Folders : f = win[w].folder /\ f \in names /\ Fresh(f)
          BY <4>2 DEF Making
        <4>4. Fresh(f)' /\ drops' = drops
          BY <1>4, <3>1, <4>3, FreshUnderWindow DEF Runs
        <4>5. proc'[q].req.folder = f /\ drops[f].marker = "live" /\ Readme \in drops[f].files
          BY <4>1, <4>2, <4>3 DEF Making
        <4> QED BY <4>4, <4>5 DEF Publishing
      <3>2. CASE ~Runs(w, q)
        <4>1. Publishes(q) /\ proc'[q].req = proc[q].req /\ Publishing(q)
          BY <1>4, <2>2, <3>2, WindowsAndWriters DEF Publishes, Made
        <4>2. proc[q].req.folder \in Folders /\ proc[q].req.folder \in names
          BY <4>1, PlaceTypes DEF Publishes, Known
        <4>3. Fresh(proc[q].req.folder)' /\ drops'[proc[q].req.folder].marker = "live"
              /\ Readme \in drops'[proc[q].req.folder].files
          BY <1>4, <4>1, <4>2, FreshUnderWindow, FoldersUnderWindow DEF Publishing
        <4> QED BY <4>1, <4>3 DEF Publishing
      <3> QED BY <3>1, <3>2
    <2>3. ASSUME NEW v \in Windows, win'[v].at = "mark" PROVE Makes(v)'
      <3>1. CASE v = w
        BY <1>4, <2>3, <3>1, MakesUnderItself DEF Creates, Makes, Early
      <3>2. CASE v # w
        <4>1. win'[v] = win[v]
          BY <1>4, <3>2, AloneWindow DEF Alone
        <4> QED BY <2>3, <4>1 DEF Made, Makes
      <3> QED BY <3>1, <3>2
    <2> QED BY <2>1, <2>2, <2>3 DEF Made
  <1> QED BY <1>1, <1>2, <1>3, <1>4, FolderSteps

(* Every step keeps OneMaker. *)
LEMMA NextOneMaker ==
    ASSUME TypeInv, BoardInv, Known, Made, OneMaker, [Next]_vars
    PROVE  OneMaker'
  <1>1. CASE Elsewhere
    BY <1>1 DEF Elsewhere, OneMaker, Makes, Publishes
  <1>2. ASSUME NEW p \in Procs, Agent(p) PROVE OneMaker'
    <2>1. UNCHANGED win /\ \A q \in Procs : Publishes(q)' => Publishes(q) /\ proc'[q] = proc[q]
      BY <1>2 DEF Agent, Turn, Publishes
    <2>2. \A w \in Windows : Makes(w)' => Makes(w)
      BY <2>1 DEF Makes
    <2> QED BY <2>1, <2>2 DEF OneMaker
  <1>3. ASSUME NEW p \in Procs, WriterFolders(p) PROVE OneMaker'
    <2>1. \A w \in Windows : Makes(w)' => Makes(w) /\ win'[w] = win[w]
      BY <1>3, MakesUnderWriter
    <2>2. \A q \in Procs : Publishes(q)' => Publishes(q) /\ proc'[q].req = proc[q].req
      BY <1>3, PublishesUnderWriter
    <2> QED BY <2>1, <2>2 DEF OneMaker
  <1>4. ASSUME NEW w \in Windows, WindowFolders(w) PROVE OneMaker'
    <2>1. \A v \in Windows \ {w} : win'[v] = win[v] /\ (Makes(v)' => Makes(v))
      BY <1>4, AloneWindow DEF Alone, Makes
    <2>2. \A q \in Procs : \/ Publishes(q)' => Publishes(q) /\ proc'[q].req = proc[q].req
                           \/ Runs(w, q)
      BY <1>4, WindowsAndWriters DEF Publishes
    <2>3. CASE \E f \in Folders : Creates(w, f)
      <3>1. PICK f \in Folders : f \notin names /\ win'[w].folder = f /\ UNCHANGED proc /\ f # NoOne
        BY <2>3, PlaceTypes DEF Creates
      <3>2. \A q \in Procs : Publishes(q)' => Publishes(q) /\ proc'[q].req = proc[q].req
        BY <3>1 DEF Publishes
      <3>3. /\ \A v \in Windows \ {w} : win'[v].folder # f
            /\ \A q \in Procs : proc'[q].req.folder # f
        BY <2>1, <3>1 DEF Known
      <3> QED BY <2>1, <3>1, <3>2, <3>3 DEF OneMaker
    <2>4. ASSUME NEW p \in Procs, Runs(w, p) PROVE OneMaker'
      <3>1. \A q \in Procs \ {p} : Publishes(q)' => Publishes(q) /\ proc'[q].req = proc[q].req
        BY <2>4 DEF Runs, Turn, Publishes
      <3>2. ~Makes(w)' /\ win[w].at = "run"
        BY <2>4 DEF Runs, Makes, Early, Late
      <3>3. Publishes(p)' => Makes(w) /\ proc'[p].req.folder = win[w].folder
        BY <2>4, RunsMade
      <3> QED BY <2>1, <3>1, <3>2, <3>3 DEF OneMaker
    <2>5. CASE ~(\E f \in Folders : Creates(w, f)) /\ ~\E p \in Procs : Runs(w, p)
      <3>1. Makes(w)' => Makes(w) /\ win'[w].folder = win[w].folder
        BY <1>4, <2>5, MakesUnderItself DEF Working
      <3>2. \A q \in Procs : Publishes(q)' => Publishes(q) /\ proc'[q].req = proc[q].req
        BY <2>2, <2>5
      <3> QED BY <2>1, <3>1, <3>2 DEF OneMaker
    <2> QED BY <2>3, <2>4, <2>5
  <1> QED BY <1>1, <1>2, <1>3, <1>4, FolderSteps

-----------------------------------------------------------------------------
(* The properties the runs check.                                          *)

\* No writer publishes a folder that is not ready, and none cleans one that
\* is on the board.
LEMMA NextReadable ==
    ASSUME TypeInv, BoardInv, Known, Marked, LeftBehind, Made, InputsAreReadable, [Next]_vars
    PROVE  InputsAreReadable'
  <1>1. ASSUME NEW f \in FoldersOf(board)
        PROVE  f \in Folders /\ f \in names /\ drops[f].dir /\ drops[f].marker = "live"
               /\ Readme \in drops[f].files
    BY PlaceTypes DEF Known, InputsAreReadable
  <1>2. CASE Elsewhere
    BY <1>2 DEF Elsewhere, InputsAreReadable
  <1>3. ASSUME NEW p \in Procs, Agent(p) PROVE InputsAreReadable'
    BY <1>3 DEF Agent, InputsAreReadable
  <1>4. ASSUME NEW p \in Procs, WriterFolders(p) PROVE InputsAreReadable'
    <2>1. CASE Publish(p)
      <3>1. UNCHANGED drops /\ board' = proc[p].out /\ proc[p].at = "edited"
        BY <2>1 DEF Publish
      <3>2. ASSUME NEW f \in FoldersOf(proc[p].out)
            PROVE  drops[f].dir /\ drops[f].marker = "live" /\ Readme \in drops[f].files
        <4>1. CASE f \in FoldersOf(board)
          BY <1>1, <4>1
        <4>2. CASE f \notin FoldersOf(board)
          <5>1. proc[p].req.op = "drop" /\ f = proc[p].req.folder
            BY <3>1, <4>2, OutFolders DEF BoardInv
          <5>2. Publishing(p)
            BY <3>1, <5>1 DEF Made, Publishes
          <5> QED BY <5>1, <5>2 DEF Publishing, Fresh
        <4> QED BY <4>1, <4>2
      <3>3. FoldersOf(board)' = FoldersOf(proc[p].out)
        BY <3>1 DEF FoldersOf
      <3> QED BY <3>1, <3>2, <3>3 DEF InputsAreReadable
    <2>2. ASSUME NEW g \in Folders, Takes(p, g) \/ Loses(p, g) PROVE InputsAreReadable'
      <3>1. g \notin FoldersOf(board)
        <4>1. CASE drops[g].marker = "retired"
          BY <1>1, <4>1
        <4>2. CASE ~proc[p].scanned
          BY <2>2, <4>2 DEF Takes, Loses, LeftBehind, Cleaning
        <4> QED BY <2>2, <4>1, <4>2 DEF Takes, Loses
      <3>2. UNCHANGED board /\ \A f \in Folders \ {g} : drops'[f] = drops[f]
        BY <2>2 DEF Takes, Loses, Rest
      <3> QED BY <1>1, <3>1, <3>2 DEF InputsAreReadable
    <2>3. CASE Erases(p) \/ Unmarks(p) \/ Empties(p)
      <3>1. proc[p].cur \notin FoldersOf(board)
        BY <1>1, <2>3 DEF Erases, Unmarks, Empties, Marked
      <3>2. UNCHANGED board /\ \A f \in Folders \ {proc[p].cur} : drops'[f] = drops[f]
        BY <2>3 DEF Erases, Unmarks, Empties, Rest
      <3> QED BY <1>1, <3>1, <3>2 DEF InputsAreReadable
    <2>4. CASE Quiet(p) \/ Lists(p) \/ Finishes(p)
      BY <2>4 DEF Quiet, Lists, Finishes, InputsAreReadable
    <2> QED BY <1>4, <2>1, <2>2, <2>3, <2>4 DEF WriterFolders
  <1>5. ASSUME NEW w \in Windows, WindowFolders(w) PROVE InputsAreReadable'
    <2>1. UNCHANGED board
      BY <1>5, AloneWindow
    <2>2. \A f \in FoldersOf(board) : /\ drops'[f].dir /\ drops'[f].marker = "live"
                                      /\ Readme \in drops'[f].files
      BY <1>1, <1>5, FoldersUnderWindow
    <2> QED BY <2>1, <2>2 DEF InputsAreReadable
  <1> QED BY <1>2, <1>3, <1>4, <1>5, FolderSteps

\* A copy about to be made is already named by the manifest, unless the folder
\* has been retired.
Reserved ==
    \A w \in Windows : win[w].at = "copy" /\ drops[win[w].folder].marker = "live" =>
        win[w].new \in drops[win[w].folder].owned /\ Manifest \in drops[win[w].folder].files

\* A writer deletes nothing from a folder that is live, and makes none live.
LEMMA LiveUnderWriter ==
    ASSUME TypeInv, Marked, NEW p \in Procs, WriterFolders(p), NEW f \in Folders,
           drops'[f].marker = "live"
    PROVE  drops[f].marker = "live" /\ drops'[f].files = drops[f].files /\ drops'[f].owned = drops[f].owned
  <1>1. ASSUME NEW g \in Folders, Takes(p, g) \/ Loses(p, g)
        PROVE  drops'[f] = drops[f]
    BY <1>1 DEF Takes, Loses, Rest
  <1>2. CASE Erases(p) \/ Unmarks(p)
    BY <1>2 DEF Erases, Unmarks, Rest, Marked
  <1>3. CASE Empties(p)
    BY <1>3 DEF Empties, Rest
  <1>4. CASE Quiet(p) \/ Publish(p) \/ Lists(p) \/ Finishes(p)
    BY <1>4 DEF Quiet, Publish, Lists, Finishes
  <1> QED BY <1>1, <1>2, <1>3, <1>4 DEF WriterFolders

(* Every step keeps Reserved. *)
LEMMA NextReserved ==
    ASSUME TypeInv, Known, Marked, Made, Reserved, [Next]_vars
    PROVE  Reserved'
  <1>1. CASE Elsewhere
    BY <1>1 DEF Elsewhere, Reserved
  <1>2. ASSUME NEW p \in Procs, Agent(p) PROVE Reserved'
    BY <1>2 DEF Agent, Reserved
  <1>3. ASSUME NEW p \in Procs, WriterFolders(p) PROVE Reserved'
    <2>1. ASSUME NEW w \in Windows, win'[w].at = "copy", drops'[win'[w].folder].marker = "live"
          PROVE  win'[w].new \in drops'[win'[w].folder].owned
                 /\ Manifest \in drops'[win'[w].folder].files
      <3>1. win'[w] = win[w]
        <4>1. CASE UNCHANGED win
          BY <4>1
        <4>2. CASE ~UNCHANGED win
          <5>1. proc[p].by \in Windows /\ Left(proc[p].by)
            BY <1>3, <4>2, WriterKeeps DEF Finishes, Ended
          <5> QED BY <2>1, <5>1 DEF Left
        <4> QED BY <4>1, <4>2
      <3>2. win[w].at = "copy" /\ win[w].folder \in Folders
        BY <2>1, <3>1, PlaceTypes
      <3>3. /\ drops[win[w].folder].marker = "live"
            /\ drops'[win[w].folder].files = drops[win[w].folder].files
            /\ drops'[win[w].folder].owned = drops[win[w].folder].owned
        BY <1>3, <2>1, <3>1, <3>2, LiveUnderWriter
      <3> QED BY <3>1, <3>2, <3>3 DEF Reserved
    <2> QED BY <2>1 DEF Reserved
  <1>4. ASSUME NEW v \in Windows, WindowFolders(v) PROVE Reserved'
    <2>1. ASSUME NEW w \in Windows, win'[w].at = "copy", drops'[win'[w].folder].marker = "live"
          PROVE  win'[w].new \in drops'[win'[w].folder].owned
                 /\ Manifest \in drops'[win'[w].folder].files
      <3>1. CASE w = v
        <4>1. Writes(w) /\ win[w].at = "reserve"
          BY <1>4, <2>1, <3>1 DEF WindowFolders, Shows, Creates, Marks, BeginsTask, Quits, Passes,
                Leases, Writes, Adds, Fails, Returns, Runs, Exits, Left
        <4>2. win[w].new \in Copies
          BY <4>1 DEF TypeInv, Placed
        <4>3. win[w].new \in Merged(w)
          BY <4>2, WhiteboardAssumption DEF Merged
        <4> QED BY <4>1, <4>3 DEF Writes, Working
      <3>2. CASE w # v
        <4>1. win'[w] = win[w]
          BY <1>4, <3>2, AloneWindow DEF Alone
        <4>2. win[w].at = "copy" /\ win[w].folder \in Folders /\ win[w].folder \in names
          BY <2>1, <4>1, PlaceTypes DEF Known
        <4>3. drops[win[w].folder].marker = "live"
          <5>1. CASE win[v].at # "mark"
            BY <1>4, <2>1, <4>1, <4>2, <5>1, FoldersUnderWindow
          <5>2. CASE win[v].at = "mark"
            <6>1. win[w].folder # win[v].folder
              BY <3>2, <5>2 DEF Made, Making
            <6> QED BY <1>4, <2>1, <4>1, <4>2, <6>1, FoldersUnderWindow
          <5> QED BY <5>1, <5>2
        <4>4. win[w].new \in drops[win[w].folder].owned /\ Manifest \in drops[win[w].folder].files
          BY <4>2, <4>3 DEF Reserved
        <4> QED BY <1>4, <4>1, <4>2, <4>4, FoldersUnderWindow
      <3> QED BY <3>1, <3>2
    <2> QED BY <2>1 DEF Reserved
  <1> QED BY <1>1, <1>2, <1>3, <1>4, FolderSteps

\* The property, for one folder.
Owns(f) ==
    drops[f].marker = "live" /\ Torn \notin drops[f].files =>
        /\ drops[f].files \cap Copies \subseteq drops[f].owned
        /\ drops[f].files \cap Copies # {} => Manifest \in drops[f].files
        /\ Cardinality(drops[f].owned) <= MaxOwned

(* Every step keeps CopiesAreOwned. *)
LEMMA NextOwned ==
    ASSUME TypeInv, Known, Marked, Made, Reserved, CopiesAreOwned, [Next]_vars
    PROVE  CopiesAreOwned'
  <1>1. \A f \in Folders : Owns(f)
    BY DEF CopiesAreOwned, Owns
  <1>2. SUFFICES ASSUME NEW f \in Folders PROVE Owns(f)'
    BY DEF CopiesAreOwned, Owns
  <1>3. ASSUME UNCHANGED drops PROVE Owns(f)'
    BY <1>1, <1>3 DEF Owns
  <1>4. ASSUME NEW p \in Procs, WriterFolders(p) PROVE Owns(f)'
    BY <1>1, <1>4, LiveUnderWriter DEF Owns
  <1>5. ASSUME NEW w \in Windows, WindowFolders(w) PROVE Owns(f)'
    <2>1. ASSUME drops'[f].marker = drops[f].marker, drops'[f].files = drops[f].files,
                 drops'[f].owned = drops[f].owned
          PROVE  Owns(f)'
      BY <1>1, <2>1 DEF Owns
    <2>2. CASE Shows(w) \/ BeginsTask(w) \/ Quits(w) \/ Passes(w) \/ \E p \in Procs : Runs(w, p)
      BY <1>3, <2>2 DEF Shows, BeginsTask, Quits, Passes, Runs, OnlyWindows
    <2>3. CASE Leases(w) \/ Returns(w) \/ \E g \in Folders : Creates(w, g)
      BY <2>1, <2>3 DEF Leases, Returns, Creates, Rest
    <2>4. CASE f # win[w].folder /\ (Marks(w) \/ Writes(w) \/ Adds(w))
      BY <2>1, <2>4 DEF Marks, Writes, Adds, Rest
    <2>5. CASE f = win[w].folder /\ Marks(w)
      <3>1. drops[f].files = {} /\ drops[f].owned = {}
        BY <2>5 DEF Marks, Made, Making
      <3>2. drops'[f].files = {} /\ drops'[f].owned = {}
        BY <2>5, <3>1 DEF Marks
      <3>3. Cardinality({}) = 0 /\ MaxOwned \in Nat
        BY FS_EmptySet, WhiteboardAssumption
      <3>4. Cardinality(drops'[f].owned) <= MaxOwned
        BY <3>2, <3>3
      <3> QED BY <3>2, <3>4 DEF Owns
    <2>6. CASE f = win[w].folder /\ Writes(w)
      <3>1. /\ drops'[f].files = drops[f].files \cup {Manifest}
            /\ drops'[f].owned = Merged(w) /\ Cardinality(Merged(w)) <= MaxOwned
            /\ drops'[f].marker = drops[f].marker
        BY <2>6 DEF Writes
      <3>2. drops[f].owned \subseteq Merged(w)
        BY <2>6 DEF Merged
      <3>3. Manifest \notin Copies
        BY WhiteboardAssumption
      <3> QED BY <1>1, <3>1, <3>2, <3>3 DEF Owns
    <2>7. CASE f = win[w].folder /\ Adds(w)
      <3>1. drops'[f].owned = drops[f].owned /\ drops'[f].marker = drops[f].marker
        BY <2>7 DEF Adds
      <3>2. CASE win[w].at = "copy"
        <4>1. drops'[f].files = drops[f].files \cup {win[w].new}
          BY <2>7, <3>2 DEF Adds
        <4>2. drops[f].marker = "live" => win[w].new \in drops[f].owned /\ Manifest \in drops[f].files
          BY <2>7, <3>2 DEF Reserved
        <4> QED BY <1>1, <3>1, <4>1, <4>2 DEF Owns
      <3>3. CASE win[w].at # "copy"
        <4>1. drops'[f].files = drops[f].files \cup {Readme}
          BY <2>7, <3>3 DEF Adds
        <4>2. Readme \notin Copies
          BY WhiteboardAssumption
        <4> QED BY <1>1, <3>1, <4>1, <4>2 DEF Owns
      <3> QED BY <3>2, <3>3
    <2>8. CASE Fails(w) \/ Exits(w)
      <3>1. Halved(w)
        BY <2>8 DEF Fails, Exits
      <3>2. CASE UNCHANGED drops
        BY <1>3, <3>2
      <3>3. CASE f # win[w].folder
        BY <2>1, <3>1, <3>3 DEF Halved, Rest
      <3>4. CASE f = win[w].folder /\ ~UNCHANGED drops
        <4>1. /\ drops'[f].owned = drops[f].owned /\ drops'[f].marker = drops[f].marker
              /\ drops[f].files \subseteq drops'[f].files
              /\ drops'[f].files \subseteq drops[f].files \cup {Torn, Readme}
                    \cup (IF win[w].at = "copy" THEN {win[w].new} ELSE {})
          BY <3>1, <3>4 DEF Halved
        <4>2. drops[f].marker = "live" /\ win[w].at = "copy" =>
                 win[w].new \in drops[f].owned /\ Manifest \in drops[f].files
          BY <3>4 DEF Reserved
        <4>3. Readme \notin Copies /\ Torn \notin Copies
          BY WhiteboardAssumption
        <4> QED BY <1>1, <4>1, <4>2, <4>3 DEF Owns
      <3> QED BY <3>2, <3>3, <3>4
    <2> QED BY <1>5, <2>2, <2>3, <2>4, <2>5, <2>6, <2>7, <2>8 DEF WindowFolders
  <1>6. CASE Elsewhere
    BY <1>3, <1>6 DEF Elsewhere
  <1>7. ASSUME NEW p \in Procs, Agent(p) PROVE Owns(f)'
    BY <1>3, <1>7 DEF Agent
  <1> QED BY <1>4, <1>5, <1>6, <1>7, FolderSteps

\* A writer that deletes files deletes them where no window is editing.
Apart ==
    \A p \in Procs, w \in Windows :
        proc[p].at = "deleting" /\ Editing(w) => proc[p].cur # win[w].folder

(* Every step keeps Apart. *)
LEMMA NextApart ==
    ASSUME TypeInv, OneHolder, Marked, Apart, [Next]_vars
    PROVE  Apart'
  <1>1. CASE Elsewhere
    BY <1>1 DEF Elsewhere, Apart, Editing
  <1>2. ASSUME NEW p \in Procs, Agent(p) PROVE Apart'
    BY <1>2 DEF Agent, Turn, Deciding, Apart, Editing
  <1>3. ASSUME NEW p \in Procs, WriterFolders(p) PROVE Apart'
    <2>1. proc \in [Procs -> Writer]
      BY PlaceTypes
    <2>2. \A q \in Procs \ {p} : proc'[q] = proc[q]
      BY <1>3, <2>1 DEF WriterFolders, Quiet, Publish, Takes, Loses, Lists, Erases, Unmarks, Empties,
                  Finishes, Keeps, Turn, Ended
    <2>3. \A w \in Windows : Editing(w)' => Editing(w) /\ win'[w].folder = win[w].folder
      <3>1. CASE UNCHANGED win
        BY <3>1 DEF Editing
      <3>2. CASE ~UNCHANGED win
        <4>1. proc[p].by \in Windows /\ Left(proc[p].by)
          BY <1>3, <3>2, WriterKeeps DEF Finishes, Ended
        <4> QED BY <4>1 DEF Left, Editing
      <3> QED BY <3>1, <3>2
    <2>4. CASE Lists(p)
      <3>1. \A w \in Windows : Editing(w) => win[w].folder # proc[p].cur
        BY <2>4 DEF Lists, OneHolder, Holds, Editing, Late
      <3>2. proc'[p].cur = proc[p].cur
        BY <2>4 DEF Lists, Stays
      <3> QED BY <2>2, <2>3, <3>1, <3>2 DEF Apart
    <2>5. CASE ~Lists(p)
      <3>1. proc'[p].at = "deleting" => proc[p].at = "deleting" /\ proc'[p].cur = proc[p].cur
        BY <1>3, <2>1, <2>5, IdleType DEF WriterFolders, Quiet, Publish, Takes, Loses, Erases, Unmarks,
               Empties, Finishes, Ended, Stays
      <3> QED BY <2>2, <2>3, <3>1 DEF Apart
    <2> QED BY <2>4, <2>5
  <1>4. ASSUME NEW w \in Windows, WindowFolders(w) PROVE Apart'
    <2>1. \A p \in Procs : proc'[p].at = "deleting" =>
             proc[p].at = "deleting" /\ proc'[p].cur = proc[p].cur
      <3>1. CASE Exits(w)
        BY <3>1 DEF Exits, Stays
      <3>2. CASE \E p \in Procs : Runs(w, p)
        BY <3>2 DEF Runs, Turn, Deciding
      <3>3. CASE ~Exits(w) /\ ~\E p \in Procs : Runs(w, p)
        <4>1. UNCHANGED proc
          BY <1>4, <3>3 DEF WindowFolders, Shows, Creates, Marks, BeginsTask, Quits, Passes, Leases,
                 Writes, Adds, Fails, Returns, OnlyWindows
        <4> QED BY <4>1
      <3> QED BY <3>1, <3>2, <3>3
    <2>2. \A v \in Windows \ {w} : win'[v] = win[v]
      BY <1>4, AloneWindow DEF Alone
    <2>3. CASE Passes(w)
      <3>1. \A p \in Procs : proc[p].at = "deleting" => proc[p].cur # win[w].folder
        BY <2>3 DEF Passes, Marked
      <3>2. win'[w].folder = win[w].folder
        BY <2>3 DEF Passes, Working
      <3> QED BY <2>1, <2>2, <3>1, <3>2 DEF Apart, Editing
    <2>4. CASE ~Passes(w)
      <3>1. Editing(w)' => Editing(w) /\ win'[w].folder = win[w].folder
        <4>1. CASE Marks(w) \/ Leases(w) \/ Writes(w) \/ Adds(w) \/ \E p \in Procs : Runs(w, p)
          BY <4>1 DEF Marks, Leases, Writes, Adds, Runs, Working, Editing, Leased
        <4>2. CASE Shows(w) \/ BeginsTask(w) \/ Quits(w) \/ Returns(w) \/ Exits(w) \/ Fails(w)
                   \/ \E f \in Folders : Creates(w, f)
          BY <4>2 DEF Shows, BeginsTask, Quits, Returns, Exits, Fails, Creates, Left, Editing
        <4> QED BY <1>4, <2>4, <4>1, <4>2 DEF WindowFolders
      <3> QED BY <2>1, <2>2, <3>1 DEF Apart, Editing
    <2> QED BY <2>3, <2>4
  <1> QED BY <1>1, <1>2, <1>3, <1>4, FolderSteps

\* So what a window is editing stays.
LEMMA EditedStay ==
    ASSUME TypeInv, Known, Apart, [Next]_vars
    PROVE  \A w \in Windows : Editing(w) => drops[win[w].folder].files \subseteq drops'[win[w].folder].files
  <1> SUFFICES ASSUME NEW w \in Windows, Editing(w)
               PROVE  drops[win[w].folder].files \subseteq drops'[win[w].folder].files
    OBVIOUS
  <1>1. win[w].folder \in Folders /\ win[w].folder \in names
    BY PlaceTypes DEF Editing, Known
  <1>2. CASE Elsewhere \/ \E p \in Procs : Agent(p)
    BY <1>2 DEF Elsewhere, Agent
  <1>3. ASSUME NEW p \in Procs, WriterFolders(p)
        PROVE  drops[win[w].folder].files \subseteq drops'[win[w].folder].files
    <2>1. CASE Erases(p)
      BY <1>1, <2>1 DEF Erases, Rest, Apart
    <2>2. CASE ~Erases(p)
      BY <1>1, <1>3, <2>2 DEF WriterFolders, Quiet, Publish, Takes, Loses, Lists, Unmarks, Empties, Finishes, Rest
    <2> QED BY <2>1, <2>2
  <1>4. ASSUME NEW v \in Windows, WindowFolders(v)
        PROVE  drops[win[w].folder].files \subseteq drops'[win[w].folder].files
    BY <1>1, <1>4, FoldersUnderWindow
  <1> QED BY <1>2, <1>3, <1>4, FolderSteps

-----------------------------------------------------------------------------
(* The inductive invariant.                                                *)
FolderInv == /\ Awaited /\ OneHolder /\ Known /\ Made /\ OneMaker /\ Marked /\ LeftBehind
             /\ Reserved /\ Apart /\ InputsAreReadable /\ CopiesAreOwned

(* FolderInv holds at first. *)
LEMMA InitFolders == Init => FolderInv
  <1> SUFFICES ASSUME Init PROVE FolderInv
    OBVIOUS
  <1>1. \A p \in Procs : proc[p] = Idle /\ proc[p].at = "idle" /\ proc[p].by = NoOne
                         /\ proc[p].req = Pruning /\ proc[p].cur = NoOne /\ proc[p].todo = {}
    BY IdleType DEF Init
  <1>2. Pruning.op = "prune" /\ Pruning.folder = NoOne
    BY DEF Pruning
  <1>3. \A w \in Windows : win[w].at = "idle" /\ win[w].op = "none" /\ win[w].folder = NoOne
    BY DEF Init, Blank
  <1>4. \A f \in Folders : drops[f] = Unused /\ drops[f].marker = "none"
    BY DEF Init, Unused
  <1>5. FoldersOf(board) = {}
    <2>1. PICK n \in 0..MaxLegacy : board = Legacy(n)
      BY DEF Init
    <2>2. \A i \in DOMAIN board : board[i].folder = NoOne
      BY <2>1 DEF Legacy
    <2> QED BY <2>2 DEF FoldersOf
  <1>6. names = {}
    BY DEF Init
  <1>7. NoOne \notin Windows
    BY WhiteboardAssumption
  <1>8. Awaited /\ OneHolder
    BY <1>1, <1>3, <1>7 DEF Awaited, OneHolder, Holds, Late
  <1>9. Known
    BY <1>1, <1>2, <1>3, <1>4, <1>5, <1>6 DEF Known
  <1>10. Made /\ OneMaker
    BY <1>1, <1>2, <1>3 DEF Made, OneMaker, Makes, Publishes, Early, Late
  <1>11. Marked /\ LeftBehind /\ Reserved /\ Apart
    BY <1>1, <1>3 DEF Marked, LeftBehind, Reserved, Apart, Cleaning
  <1>12. InputsAreReadable /\ CopiesAreOwned
    BY <1>4, <1>5 DEF InputsAreReadable, CopiesAreOwned
  <1> QED BY <1>8, <1>9, <1>10, <1>11, <1>12 DEF FolderInv

(* All the invariants hold in every reachable state. *)
LEMMA FolderInvariant == Spec => [](TypeInv /\ BoardInv /\ FolderInv)
  <1>1. TypeInv /\ BoardInv /\ FolderInv /\ [Next]_vars => TypeInv' /\ BoardInv' /\ FolderInv'
    <2> SUFFICES ASSUME TypeInv, BoardInv, FolderInv, [Next]_vars
                 PROVE  TypeInv' /\ BoardInv' /\ FolderInv'
      OBVIOUS
    <2>1. TypeInv' /\ BoardInv'
      BY NextTyped, NextBoard
    <2>2. Awaited' /\ OneHolder' /\ Known'
      BY NextAwaited, NextOneHolder, NextKnown DEF FolderInv
    <2>3. Made' /\ OneMaker' /\ Marked' /\ LeftBehind'
      BY NextMade, NextOneMaker, NextMarked, NextLeftBehind DEF FolderInv
    <2>4. Reserved' /\ Apart' /\ InputsAreReadable' /\ CopiesAreOwned'
      BY NextReserved, NextApart, NextReadable, NextOwned DEF FolderInv
    <2> QED BY <2>1, <2>2, <2>3, <2>4 DEF FolderInv
  <1> QED BY <1>1, InitTyped, InitBoard, InitFolders, PTL DEF Spec

\* Every input on the board has its folder, live, with the README its prompt
\* names (write_board_with publishes a folder that WhiteboardInputs has filled,
\* cleanup_drops retires only folders that left).
THEOREM PublishedInputsAreReadable == Spec => []InputsAreReadable
  <1> QED BY FolderInvariant, PTL DEF FolderInv

\* The stored files of a live input are named by its manifest, however many
\* windows edit it and wherever they stop, as long as the manifest can be read
\* (_copy writes the manifest first, _manifest keeps what the file owns).
THEOREM LiveCopiesAreOwned == Spec => []CopiesAreOwned
  <1> QED BY FolderInvariant, PTL DEF FolderInv

\* No writer deletes from a folder a window is editing (cleanup_drops marks,
\* then lists; _lease puts its file down, then looks at the mark).
THEOREM FilesBeingEditedStay == Spec => EditedFilesStay
  <1>1. TypeInv /\ FolderInv /\ [Next]_vars
        => [\A w \in Windows : Editing(w) => drops[win[w].folder].files \subseteq drops'[win[w].folder].files]_vars
    BY EditedStay DEF FolderInv
  <1> QED BY <1>1, FolderInvariant, PTL DEF Spec, EditedFilesStay
=============================================================================
