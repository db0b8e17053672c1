-------------------------- MODULE SessionSyncProofs --------------------------
(***************************************************************************)
(* Proofs about SessionSync, for any number of edits, loads, saves and     *)
(* background emissions: requests are answered in the order they were sent *)
(* within a type, the newest edit is kept, the UI ends on the actor's last *)
(* report, the autosave timer is rearmed, and lists stay in their files.   *)
(***************************************************************************)
EXTENDS SessionSync, SequenceTheorems, WellFoundedInduction, TLAPS

-----------------------------------------------------------------------------
(* Types. *)

Lists    == [from : Paths, ed : Nat, whole : BOOLEAN]
Requests == [kind : {"load", "save"}, id : Nat, rev : Nat, path : Paths]
Types    == {"LoadConfig", "SaveConfig", "LoadCodexAccounts"}
Signals  == [type : Types, id : Nat, path : Paths, items : Lists]
States   == [kind : {"state"}, path : Paths, items : Lists, busy : BOOLEAN, error : BOOLEAN]
Answers  == [kind : {"finished"}, id : Nat, ok : BOOLEAN]
Bounds   == [edits : Nat, loads : Nat, saves : Nat, background : Nat]
Uses     == [limit : Bounds, edits : Nat, loads : Nat, saves : Nat, background : Nat, ids : Nat]

TypeOK ==
    /\ uiPath \in Paths /\ uiItems \in Lists /\ uiBusy \in BOOLEAN /\ uiError \in BOOLEAN
    /\ dirty \in BOOLEAN /\ rev \in Nat /\ timer \in BOOLEAN /\ pendingOps \subseteq Requests
    /\ mail \in Seq(Signals) /\ out \in Seq(States \cup Answers)
    /\ aPath \in Paths /\ aItems \in Lists /\ aBusy \in BOOLEAN /\ aError \in BOOLEAN
    /\ aOp \subseteq Signals /\ md \in [Paths -> Lists] /\ used \in Uses /\ asked \in Nat
    /\ torn \subseteq [path : Paths, ed : Nat]

-----------------------------------------------------------------------------
(* The two queues, as the steps change them. *)

InMail == {mail[i] : i \in DOMAIN mail}
Sorted == \A i, j \in DOMAIN mail : i < j => mail[i].id < mail[j].id

Sends(x) == /\ InMail' = InMail \cup {x}
            /\ Sorted'
Takes(m) == /\ m \in InMail /\ InMail' = InMail \ {m}
            /\ Sorted'
            /\ \A n \in InMail \ {m} : n.type = m.type \/ mixed' = {} => m.id < n.id

IsState(i)  == out[i].kind = "state"
IsAnswer(i) == out[i].kind = "finished"
Shows    == /\ out \in Seq(States \cup Answers) /\ Len(out) \in Nat /\ DOMAIN out = 1..Len(out)
            /\ DOMAIN out' = 1..Len(out') /\ Len(out') \in Nat
Consumes == /\ Shows /\ Len(out) > 0 /\ Len(out') = Len(out) - 1
            /\ \A i \in 1..Len(out') : out'[i] = out[i + 1]
Emits(s) == /\ Shows /\ Len(out') = Len(out) + 1 /\ s \in States
            /\ \A i \in 1..Len(out) : out'[i] = out[i]
            /\ out'[Len(out) + 1] = s
Ends(s, n, f) == /\ Shows /\ n \in 1..2 /\ Len(out') = Len(out) + n + 1
                 /\ s \in States /\ f \in Answers
                 /\ \A i \in 1..Len(out) : out'[i] = out[i]
                 /\ \A i \in (Len(out) + 1)..(Len(out) + n) : out'[i] = s
                 /\ out'[Len(out) + n + 1] = f

(* A queue with one more. *)
LEMMA Appended ==
    ASSUME NEW S, NEW s \in Seq(S), NEW x \in S
    PROVE  /\ Append(s, x) \in Seq(S) /\ Len(Append(s, x)) = Len(s) + 1
           /\ DOMAIN Append(s, x) = DOMAIN s \cup {Len(s) + 1}
           /\ \A i \in DOMAIN s : Append(s, x)[i] = s[i]
           /\ Append(s, x)[Len(s) + 1] = x
  OBVIOUS

(* A queue without its element j. *)
LEMMA Removed ==
    ASSUME NEW S, NEW s \in Seq(S), NEW n \in Nat, n = Len(s), NEW j \in 1..n
    PROVE  /\ SubSeq(s, 1, j - 1) \o SubSeq(s, j + 1, n) \in Seq(S)
           /\ Len(SubSeq(s, 1, j - 1) \o SubSeq(s, j + 1, n)) = n - 1
           /\ \A i \in 1..(n - 1) :
                (SubSeq(s, 1, j - 1) \o SubSeq(s, j + 1, n))[i] = IF i < j THEN s[i] ELSE s[i + 1]
  <1> DEFINE a == SubSeq(s, 1, j - 1)
             b == SubSeq(s, j + 1, n)
  <1>1. \A i \in 1..n : s[i] \in S
    BY ElementOfSeq
  <1>2. a \in Seq(S) /\ Len(a) = j - 1 /\ \A i \in 1..(j - 1) : a[i] = s[i]
    <2>1. /\ a \in Seq(S) /\ Len(a) = IF 1 <= j - 1 THEN (j - 1) - 1 + 1 ELSE 0
          /\ \A i \in 1..((j - 1) - 1 + 1) : a[i] = s[1 + i - 1]
      BY <1>1, SubSeqProperties
    <2> HIDE DEF a
    <2> QED BY <1>1, <2>1
  <1>3. b \in Seq(S) /\ Len(b) = n - j /\ \A i \in 1..(n - j) : b[i] = s[j + i]
    <2>1. /\ b \in Seq(S) /\ Len(b) = IF j + 1 <= n THEN n - (j + 1) + 1 ELSE 0
          /\ \A i \in 1..(n - (j + 1) + 1) : b[i] = s[j + 1 + i - 1]
      BY <1>1, SubSeqProperties
    <2> HIDE DEF b
    <2> QED BY <1>1, <2>1
  <1> HIDE DEF a, b
  <1> DEFINE t == a \o b
  <1>4. /\ t \in Seq(S) /\ Len(t) = Len(a) + Len(b)
        /\ \A i \in 1..(Len(a) + Len(b)) : t[i] = IF i <= Len(a) THEN a[i] ELSE b[i - Len(a)]
    BY <1>2, <1>3, ConcatProperties, Zenon
  <1> HIDE DEF t
  <1>5. Len(a) + Len(b) = n - 1
    BY <1>2, <1>3
  <1>6. ASSUME NEW i \in 1..(n - 1)
        PROVE  t[i] = IF i < j THEN s[i] ELSE s[i + 1]
    <2>1. t[i] = IF i <= j - 1 THEN a[i] ELSE b[i - (j - 1)]
      BY <1>2, <1>4, <1>5
    <2>2. CASE i < j
      BY <1>2, <2>1, <2>2
    <2>3. CASE ~(i < j)
      <3>1. i - (j - 1) \in 1..(n - j) /\ j + (i - (j - 1)) = i + 1 /\ ~(i <= j - 1)
        BY <2>3
      <3> QED BY <1>3, <2>1, <2>3, <3>1
    <2> QED BY <2>2, <2>3
  <1> QED BY <1>4, <1>5, <1>6 DEF a, b, t

(* The mail and its numbers. *)
LEMMA MailTypes ==
    ASSUME TypeOK
    PROVE  /\ mail \in Seq(Signals) /\ Len(mail) \in Nat /\ DOMAIN mail = 1..Len(mail)
           /\ used.ids \in Nat
           /\ \A i \in DOMAIN mail : mail[i] \in Signals /\ mail[i].id \in Nat /\ mail[i] \in InMail
           /\ \A m \in InMail : m \in Signals /\ m.id \in Nat
  <1>1. mail \in Seq(Signals) /\ used \in Uses
    BY DEF TypeOK
  <1>2. Len(mail) \in Nat /\ DOMAIN mail = 1..Len(mail) /\ \A i \in DOMAIN mail : mail[i] \in Signals
    BY <1>1, LenProperties, ElementOfSeq
  <1>3. \A m \in Signals : m.id \in Nat
    BY DEF Signals
  <1>4. used.ids \in Nat
    BY <1>1 DEF Uses
  <1> QED BY <1>1, <1>2, <1>3, <1>4 DEF InMail

(* Two signals of the same number are the same one. *)
LEMMA OfOneId ==
    ASSUME TypeOK, Sorted, NEW m \in InMail, NEW n \in InMail, m.id = n.id
    PROVE  m = n
  <1>1. PICK i \in DOMAIN mail, j \in DOMAIN mail : m = mail[i] /\ n = mail[j]
    BY DEF InMail
  <1>2. i \in Nat /\ j \in Nat /\ mail[i].id \in Nat /\ mail[j].id \in Nat
    BY MailTypes
  <1>3. ~(i < j) /\ ~(j < i)
    BY <1>1, <1>2 DEF Sorted
  <1> QED BY <1>1, <1>2, <1>3

(* A signal appended to the mail. *)
LEMMA Sent ==
    ASSUME TypeOK, Sorted, NEW x \in Signals, x.id = used.ids + 1, mail' = Append(mail, x),
           \A m \in InMail : m.id <= used.ids
    PROVE  Sends(x) /\ mail' \in Seq(Signals)
  <1>1. /\ mail \in Seq(Signals) /\ Len(mail) \in Nat /\ DOMAIN mail = 1..Len(mail) /\ used.ids \in Nat
        /\ \A i \in DOMAIN mail : mail[i] \in Signals /\ mail[i].id \in Nat
    BY MailTypes
  <1>2. /\ mail' \in Seq(Signals) /\ DOMAIN mail' = DOMAIN mail \cup {Len(mail) + 1}
        /\ \A i \in DOMAIN mail : mail'[i] = mail[i]
        /\ mail'[Len(mail) + 1] = x
    BY <1>1, Appended
  <1>3. InMail' = InMail \cup {x}
    BY <1>2 DEF InMail
  <1>4. \A i \in DOMAIN mail : mail[i].id < x.id
    BY <1>1 DEF InMail
  <1>5. Sorted'
    <2> SUFFICES ASSUME NEW i \in DOMAIN mail', NEW j \in DOMAIN mail', i < j
                 PROVE  mail'[i].id < mail'[j].id
      BY DEF Sorted
    <2>1. i \in DOMAIN mail
      BY <1>1, <1>2
    <2>2. CASE j \in DOMAIN mail
      BY <1>2, <2>1, <2>2 DEF Sorted
    <2>3. CASE j = Len(mail) + 1
      BY <1>2, <1>4, <2>1, <2>3
    <2> QED BY <1>2, <2>2, <2>3
  <1> QED BY <1>2, <1>3, <1>5 DEF Sends

(* A signal taken from the mail: no other of its type was sent before it. *)
LEMMA Taken ==
    ASSUME TypeOK, Sorted, NEW j \in DOMAIN mail, ReceiveSignal(j)
    PROVE  Takes(mail[j]) /\ mail' \in Seq(Signals)
  <1>1. /\ mail \in Seq(Signals) /\ Len(mail) \in Nat /\ DOMAIN mail = 1..Len(mail) /\ j \in Nat
        /\ \A i \in DOMAIN mail : mail[i] \in Signals /\ mail[i].id \in Nat
    BY MailTypes
  <1>2. mail' = SubSeq(mail, 1, j - 1) \o SubSeq(mail, j + 1, Len(mail))
    BY DEF ReceiveSignal
  <1>3. /\ mail' \in Seq(Signals) /\ DOMAIN mail' = 1..(Len(mail) - 1)
        /\ \A i \in 1..(Len(mail) - 1) : mail'[i] = IF i < j THEN mail[i] ELSE mail[i + 1]
    <2> DEFINE n == Len(mail)
    <2>1. n \in Nat /\ n = Len(mail) /\ j \in 1..n
      BY <1>1
    <2>2. /\ mail' \in Seq(Signals) /\ Len(mail') = n - 1
          /\ \A i \in 1..(n - 1) : mail'[i] = IF i < j THEN mail[i] ELSE mail[i + 1]
      <3> HIDE DEF n
      <3>1. /\ SubSeq(mail, 1, j - 1) \o SubSeq(mail, j + 1, n) \in Seq(Signals)
            /\ Len(SubSeq(mail, 1, j - 1) \o SubSeq(mail, j + 1, n)) = n - 1
            /\ \A i \in 1..(n - 1) :
                 (SubSeq(mail, 1, j - 1) \o SubSeq(mail, j + 1, n))[i] =
                    IF i < j THEN mail[i] ELSE mail[i + 1]
        BY <1>1, <2>1, Removed
      <3>2. mail' = SubSeq(mail, 1, j - 1) \o SubSeq(mail, j + 1, n)
        BY <1>2, <2>1
      <3> QED BY <3>1, <3>2
    <2>3. DOMAIN mail' = 1..(n - 1)
      BY <2>2, LenProperties
    <2> QED BY <2>2, <2>3
  <1>4. \A i \in DOMAIN mail \ {j} : mail[i].id # mail[j].id
    <2> TAKE i \in DOMAIN mail \ {j}
    <2>1. i < j \/ j < i
      BY <1>1
    <2> QED BY <1>1, <2>1 DEF Sorted
  <1>5. InMail' = InMail \ {mail[j]}
    <2>1. ASSUME NEW i \in DOMAIN mail'
          PROVE  mail'[i] \in InMail \ {mail[j]}
      <3>1. CASE i < j
        BY <1>1, <1>3, <1>4, <3>1 DEF InMail
      <3>2. CASE ~(i < j)
        <4>1. i + 1 \in DOMAIN mail \ {j} /\ mail'[i] = mail[i + 1]
          BY <1>1, <1>3, <3>2
        <4> QED BY <1>4, <4>1 DEF InMail
      <3> QED BY <3>1, <3>2
    <2>2. ASSUME NEW i \in DOMAIN mail, mail[i] # mail[j]
          PROVE  \E k \in DOMAIN mail' : mail'[k] = mail[i]
      <3>1. CASE i < j
        BY <1>1, <1>3, <3>1
      <3>2. CASE i > j
        <4>1. i - 1 \in DOMAIN mail' /\ ~(i - 1 < j) /\ (i - 1) + 1 = i
          BY <1>1, <1>3, <3>2
        <4> QED BY <1>3, <4>1
      <3> QED BY <1>1, <2>2, <3>1, <3>2
    <2> QED BY <2>1, <2>2 DEF InMail
  <1>6. Sorted'
    <2> SUFFICES ASSUME NEW i \in DOMAIN mail', NEW k \in DOMAIN mail', i < k
                 PROVE  mail'[i].id < mail'[k].id
      BY DEF Sorted
    <2> DEFINE a == IF i < j THEN i ELSE i + 1
               b == IF k < j THEN k ELSE k + 1
    <2>1. a \in DOMAIN mail /\ b \in DOMAIN mail /\ a < b /\ mail'[i] = mail[a] /\ mail'[k] = mail[b]
      BY <1>1, <1>3
    <2> HIDE DEF a, b
    <2> QED BY <2>1 DEF Sorted
  <1>7. ASSUME NEW n \in InMail \ {mail[j]}, n.type = mail[j].type \/ mixed' = {}
        PROVE  mail[j].id < n.id
    <2>1. PICK i \in DOMAIN mail : n = mail[i]
      BY DEF InMail
    <2>2. ~(i < j)
      <3>1. CASE n.type = mail[j].type
        <4>1. \A k \in 1..(j - 1) : mail[k].type # mail[j].type
          BY DEF ReceiveSignal, Deliverable
        <4> QED BY <1>1, <2>1, <3>1, <4>1
      <3>2. CASE mixed' = {}
        <4>1. ~(j > 1)
          BY <3>2 DEF ReceiveSignal
        <4> QED BY <1>1, <4>1
      <3> QED BY <1>7, <3>1, <3>2
    <2>3. j < i
      BY <1>1, <2>1, <2>2, <1>7
    <2> QED BY <2>1, <2>3 DEF Sorted
  <1>8. mail[j] \in InMail
    BY DEF InMail
  <1> QED BY <1>3, <1>5, <1>6, <1>7, <1>8 DEF Takes

(* What has been emitted, and its length. *)
LEMMA OutTypes ==
    ASSUME TypeOK
    PROVE  /\ out \in Seq(States \cup Answers) /\ Len(out) \in Nat /\ DOMAIN out = 1..Len(out)
           /\ \A i \in 1..Len(out) : out[i] \in States \cup Answers
           /\ \A i \in 1..Len(out) : /\ IsState(i) <=> out[i] \in States
                                     /\ IsAnswer(i) <=> out[i] \in Answers
                                     /\ IsState(i) <=> ~IsAnswer(i)
           /\ out = <<>> <=> Len(out) = 0
  <1>1. out \in Seq(States \cup Answers)
    BY DEF TypeOK
  <1>2. /\ Len(out) \in Nat /\ DOMAIN out = 1..Len(out)
        /\ \A i \in 1..Len(out) : out[i] \in States \cup Answers
    BY <1>1, LenProperties, ElementOfSeq
  <1>3. ASSUME NEW i \in 1..Len(out)
        PROVE  /\ IsState(i) <=> out[i] \in States
               /\ IsAnswer(i) <=> out[i] \in Answers
               /\ IsState(i) <=> ~IsAnswer(i)
    BY <1>2 DEF IsState, IsAnswer, States, Answers
  <1>4. out = <<>> <=> Len(out) = 0
    BY <1>1, EmptySeq
  <1> QED BY <1>1, <1>2, <1>3, <1>4

(* The UI takes what was emitted first. *)
LEMMA Consumed ==
    ASSUME TypeOK, out # <<>>, out' = Tail(out)
    PROVE  Consumes /\ Head(out) = out[1] /\ out' \in Seq(States \cup Answers)
  <1>1. out \in Seq(States \cup Answers) /\ Len(out) \in Nat /\ DOMAIN out = 1..Len(out) /\ Len(out) # 0
    BY OutTypes
  <1>2. /\ out' \in Seq(States \cup Answers) /\ Len(out') = Len(out) - 1
        /\ \A i \in 1..Len(out') : out'[i] = out[i + 1]
    BY <1>1, HeadTailProperties
  <1>3. Len(out') \in Nat /\ DOMAIN out' = 1..Len(out')
    BY <1>2, LenProperties
  <1>4. Head(out) = out[1]
    BY <1>1
  <1> QED BY <1>1, <1>2, <1>3, <1>4 DEF Consumes, Shows

(* A state is emitted. *)
LEMMA Emitted ==
    ASSUME TypeOK, NEW s \in States, out' = Append(out, s)
    PROVE  Emits(s) /\ out' \in Seq(States \cup Answers)
  <1>1. out \in Seq(States \cup Answers) /\ Len(out) \in Nat /\ DOMAIN out = 1..Len(out)
    BY OutTypes
  <1>2. /\ out' \in Seq(States \cup Answers) /\ Len(out') = Len(out) + 1
        /\ \A i \in 1..Len(out) : out'[i] = out[i]
        /\ out'[Len(out) + 1] = s
    BY <1>1, Appended
  <1>3. Len(out') \in Nat /\ DOMAIN out' = 1..Len(out')
    BY <1>2, LenProperties
  <1> QED BY <1>1, <1>2, <1>3 DEF Emits, Shows

(* One or two states and an answer are emitted. *)
LEMMA Ended ==
    ASSUME TypeOK, NEW s \in States, NEW f \in Answers, NEW n \in 1..2,
           out' = out \o [i \in 1..n |-> s] \o <<f>>
    PROVE  Ends(s, n, f) /\ out' \in Seq(States \cup Answers)
  <1> DEFINE S == States \cup Answers
             a == [i \in 1..n |-> s]
             b == out \o a
             c == <<f>>
             t == b \o c
  <1>1. out \in Seq(S) /\ Len(out) \in Nat /\ DOMAIN out = 1..Len(out) /\ n \in Nat
    BY OutTypes
  <1>2. a \in Seq(S) /\ Len(a) = n /\ \A i \in 1..n : a[i] = s
    BY <1>1
  <1>3. c \in Seq(S) /\ Len(c) = 1 /\ c[1] = f
    OBVIOUS
  <1> HIDE DEF S, a, c
  <1>4. /\ b \in Seq(S) /\ Len(b) = Len(out) + Len(a)
        /\ \A i \in 1..(Len(out) + Len(a)) : b[i] = IF i <= Len(out) THEN out[i] ELSE a[i - Len(out)]
    BY <1>1, <1>2, ConcatProperties, Zenon
  <1> HIDE DEF b
  <1>5. /\ out' \in Seq(S) /\ Len(out') = Len(b) + Len(c)
        /\ \A i \in 1..(Len(b) + Len(c)) : out'[i] = IF i <= Len(b) THEN b[i] ELSE c[i - Len(b)]
    <2>1. out' = t
      BY DEF b, a, c
    <2>2. /\ t \in Seq(S) /\ Len(t) = Len(b) + Len(c)
          /\ \A i \in 1..(Len(b) + Len(c)) : t[i] = IF i <= Len(b) THEN b[i] ELSE c[i - Len(b)]
      <3>1. b \in Seq(S) /\ c \in Seq(S)
        BY <1>3, <1>4
      <3> QED BY <3>1, ConcatProperties, Zenon
    <2> HIDE DEF t
    <2> QED BY <2>1, <2>2
  <1>6. Len(b) = Len(out) + n /\ Len(out') = Len(out) + n + 1
    BY <1>1, <1>2, <1>3, <1>4, <1>5
  <1>7. \A i \in 1..Len(out) : out'[i] = out[i]
    BY <1>1, <1>2, <1>3, <1>4, <1>5, <1>6
  <1>8. ASSUME NEW i \in (Len(out) + 1)..(Len(out) + n)
        PROVE  out'[i] = s
    <2>1. i - Len(out) \in 1..n /\ i \in 1..(Len(out) + n) /\ ~(i <= Len(out))
      BY <1>1
    <2>2. out'[i] = b[i]
      BY <1>1, <1>3, <1>5, <1>6, <2>1
    <2>3. b[i] = a[i - Len(out)]
      BY <1>1, <1>2, <1>4, <2>1
    <2> QED BY <1>2, <2>1, <2>2, <2>3
  <1>9. out'[Len(out) + n + 1] = f
    <2>1. PICK l : l = Len(b) + 1
      OBVIOUS
    <2>2. Len(b) \in Nat /\ l \in 1..(Len(b) + Len(c)) /\ ~(l <= Len(b)) /\ l - Len(b) = 1 /\ l = Len(out) + n + 1
      BY <1>1, <1>3, <1>6, <2>1
    <2>3. out'[l] = c[l - Len(b)]
      BY <1>5, <2>2
    <2> QED BY <1>3, <2>2, <2>3
  <1>10. Len(out') \in Nat /\ DOMAIN out' = 1..Len(out')
    BY <1>5, LenProperties
  <1> QED BY <1>1, <1>5, <1>6, <1>7, <1>8, <1>9, <1>10 DEF Ends, Shows, S

(* A state, then an answer. *)
LEMMA EndedOnce ==
    ASSUME TypeOK, NEW s \in States, NEW f \in Answers, out' = out \o <<s, f>>
    PROVE  Ends(s, 1, f) /\ out' \in Seq(States \cup Answers)
  <1> DEFINE S == States \cup Answers
             a == <<s, f>>
  <1>1. out \in Seq(S) /\ Len(out) \in Nat /\ DOMAIN out = 1..Len(out)
    BY OutTypes
  <1>2. a \in Seq(S) /\ Len(a) = 2 /\ a[1] = s /\ a[2] = f
    OBVIOUS
  <1> HIDE DEF S, a
  <1>3. /\ out' \in Seq(S) /\ Len(out') = Len(out) + Len(a)
        /\ \A i \in 1..(Len(out) + Len(a)) : out'[i] = IF i <= Len(out) THEN out[i] ELSE a[i - Len(out)]
    <2> DEFINE t == out \o a
    <2>1. out' = t
      BY DEF a
    <2>2. /\ t \in Seq(S) /\ Len(t) = Len(out) + Len(a)
          /\ \A i \in 1..(Len(out) + Len(a)) : t[i] = IF i <= Len(out) THEN out[i] ELSE a[i - Len(out)]
      BY <1>1, <1>2, ConcatProperties, Zenon
    <2> HIDE DEF t
    <2> QED BY <2>1, <2>2
  <1>4. Len(out') = Len(out) + 2 /\ \A i \in 1..Len(out) : out'[i] = out[i]
    BY <1>1, <1>2, <1>3
  <1>5. out'[Len(out) + 1] = s /\ out'[Len(out) + 2] = f
    BY <1>1, <1>2, <1>3
  <1>6. Len(out') \in Nat /\ DOMAIN out' = 1..Len(out')
    BY <1>3, LenProperties
  <1> QED BY <1>1, <1>3, <1>4, <1>5, <1>6 DEF Ends, Shows, S

-----------------------------------------------------------------------------
(* Type correctness. *)

(* The types hold at first. *)
LEMMA InitTypes == Init => TypeOK
  <1> SUFFICES ASSUME Init PROVE TypeOK
    OBVIOUS
  <1>1. md \in [Paths -> Lists] /\ FirstPath \in Paths
    BY SyncAssumption DEF Init, Lists
  <1>2. uiItems \in Lists /\ aItems \in Lists
    BY <1>1 DEF Init
  <1>3. used \in Uses
    <2>1. PICK limit \in Limits :
            used = [limit |-> limit, edits |-> 0, loads |-> 0, saves |-> 0, background |-> 0, ids |-> 0]
      BY DEF Init
    <2>2. limit \in Bounds
      BY SyncAssumption DEF Bounds
    <2> QED BY <2>1, <2>2 DEF Uses
  <1>4. mail \in Seq(Signals) /\ out \in Seq(States \cup Answers)
    BY EmptySeq DEF Init
  <1> QED BY <1>1, <1>2, <1>3, <1>4 DEF Init, TypeOK

(* What is used up is counted. *)
LEMMA UseTypes ==
    ASSUME NEW u \in Uses, NEW a \in Nat, NEW b \in Nat
    PROVE  /\ [u EXCEPT !.loads = a, !.ids = b] \in Uses
           /\ [u EXCEPT !.saves = a, !.ids = b] \in Uses
           /\ [u EXCEPT !.background = a, !.ids = b] \in Uses
  <1>1. [u EXCEPT !.loads = a] \in Uses
    BY DEF Uses
  <1>2. [u EXCEPT !.saves = a] \in Uses
    BY DEF Uses
  <1>3. [u EXCEPT !.background = a] \in Uses
    BY DEF Uses
  <1>4. ASSUME NEW v \in Uses PROVE [v EXCEPT !.ids = b] \in Uses
    BY DEF Uses
  <1> QED BY <1>1, <1>2, <1>3, <1>4

(* Every step keeps the types. *)
LEMMA NextTypes == ASSUME TypeOK, [Next]_vars PROVE TypeOK'
  <1>0. /\ used \in Uses /\ uiItems \in Lists /\ used.ids \in Nat /\ used.edits \in Nat
        /\ used.loads + 1 \in Nat /\ used.saves + 1 \in Nat /\ used.background + 1 \in Nat
        /\ used.ids + 1 \in Nat
    BY DEF TypeOK, Uses
  <1>1. ASSUME Edit PROVE TypeOK'
    <2>1. [uiItems EXCEPT !.ed = used.edits + 1] \in Lists
      BY <1>0 DEF Lists
    <2>2. [used EXCEPT !.edits = @ + 1] \in Uses
      BY <1>0 DEF Uses
    <2>3. /\ uiItems' \in Lists /\ used' \in Uses /\ rev' = rev + 1 /\ dirty' \in BOOLEAN /\ timer' \in BOOLEAN
          /\ UNCHANGED <<uiPath, uiBusy, uiError, pendingOps, out, mail, actorVars, md, asked, torn>>
      BY <1>1, <2>1, <2>2 DEF Edit
    <2> QED BY <2>3 DEF TypeOK, actorVars
  <1>2. ASSUME NEW p \in Paths, LoadConfig(p) PROVE TypeOK'
    <2>1. Signal("LoadConfig", p) \in Signals
      BY <1>0 DEF Signal, Signals, Types
    <2>2. [kind |-> "load", id |-> used.ids + 1, rev |-> rev, path |-> p] \in Requests
      BY <1>0 DEF Requests, TypeOK
    <2>3. [used EXCEPT !.loads = @ + 1, !.ids = @ + 1] \in Uses
      BY <1>0, UseTypes, Zenon
    <2>4. mail' \in Seq(Signals)
      <3>1. mail \in Seq(Signals) /\ mail' = Append(mail, Signal("LoadConfig", p))
        BY <1>2 DEF TypeOK, LoadConfig, RunOp
      <3> QED BY <2>1, <3>1, Appended
    <2> QED BY <1>0, <1>2, <2>2, <2>3, <2>4 DEF TypeOK, LoadConfig, RunOp, actorVars
  <1>3. ASSUME SaveConfig PROVE TypeOK'
    <2>1. Signal("SaveConfig", uiPath) \in Signals
      BY <1>0 DEF Signal, Signals, Types, TypeOK
    <2>2. [kind |-> "save", id |-> used.ids + 1, rev |-> rev, path |-> uiPath] \in Requests
      BY <1>0 DEF Requests, TypeOK
    <2>3. [used EXCEPT !.saves = @ + 1, !.ids = @ + 1] \in Uses
      BY <1>0, UseTypes, Zenon
    <2>4. mail' \in Seq(Signals)
      <3>1. mail \in Seq(Signals) /\ mail' = Append(mail, Signal("SaveConfig", uiPath))
        BY <1>3 DEF TypeOK, SaveConfig, RunOp
      <3> QED BY <2>1, <3>1, Appended
    <2> QED BY <1>3, <2>2, <2>3, <2>4 DEF TypeOK, SaveConfig, RunOp, actorVars
  <1>4. ASSUME AutosaveFires PROVE TypeOK'
    <2>1. CASE dirty /\ ~uiBusy
      BY <1>3, <1>4, <2>1 DEF AutosaveFires
    <2>2. CASE ~(dirty /\ ~uiBusy)
      BY <1>4, <2>2 DEF AutosaveFires, TypeOK, actorVars
    <2> QED BY <2>1, <2>2
  <1>5. ASSUME LoadCodexAccounts PROVE TypeOK'
    <2>1. Signal("LoadCodexAccounts", uiPath) \in Signals
      BY <1>0 DEF Signal, Signals, Types, TypeOK
    <2>2. [used EXCEPT !.background = @ + 1, !.ids = @ + 1] \in Uses
      BY <1>0, UseTypes, Zenon
    <2>3. mail' \in Seq(Signals)
      BY <1>5, <2>1 DEF TypeOK, LoadCodexAccounts
    <2> QED BY <1>5, <2>2, <2>3 DEF TypeOK, LoadCodexAccounts, uiVars, actorVars
  <1>6. ASSUME OnUiState PROVE TypeOK'
    <2>1. out' \in Seq(States \cup Answers) /\ Head(out) = out[1]
      BY <1>6, Consumed DEF OnUiState
    <2>2. Head(out) \in States
      <3>1. Len(out) \in Nat /\ Len(out) # 0 /\ out[1].kind = "state"
        BY <1>6, <2>1, OutTypes DEF OnUiState
      <3> QED BY <2>1, <3>1, OutTypes DEF IsState
    <2>3. CASE Foreign(Head(out))
      BY <1>6, <2>1, <2>3 DEF OnUiState, TypeOK, uiVars, actorVars
    <2>4. CASE ~Foreign(Head(out))
      <3>1. /\ uiBusy' = Head(out).busy /\ uiError' = Head(out).error /\ uiPath' = Head(out).path
            /\ uiItems' \in {Head(out).items, uiItems}
            /\ timer' = TimerAfterState(Head(out))
            /\ UNCHANGED <<dirty, rev, pendingOps, mail, actorVars, md, used, asked, torn>>
        BY <1>6, <2>4 DEF OnUiState, ShownItems
      <3>2. timer' \in BOOLEAN
        BY <3>1 DEF TimerAfterState, TypeOK
      <3> QED BY <2>1, <2>2, <3>1, <3>2 DEF TypeOK, actorVars, States
    <2> QED BY <2>3, <2>4
  <1>7. ASSUME OnOpFinished PROVE TypeOK'
    <2>1. out' \in Seq(States \cup Answers)
      BY <1>7, Consumed DEF OnOpFinished
    <2>2. /\ pendingOps' \subseteq pendingOps /\ dirty' \in BOOLEAN /\ timer' \in BOOLEAN
      <3>1. PICK o \in pendingOps :
              /\ pendingOps' = pendingOps \ {o}
              /\ dirty' = (dirty /\ ~(Head(out).ok /\ Settles(o)))
              /\ timer' = IF ~Head(out).ok THEN timer
                          ELSE ~Settles(o) /\ IF o.kind = "save" THEN dirty ELSE timer
        BY <1>7 DEF OnOpFinished
      <3> QED BY <3>1 DEF TypeOK
    <2> QED BY <1>7, <2>1, <2>2 DEF OnOpFinished, TypeOK, actorVars
  <1>8. ASSUME NEW j \in DOMAIN mail, ReceiveSignal(j) PROVE TypeOK'
    <2>1. mail' \in Seq(Signals) \/ ~Sorted
      BY <1>8, Taken
    <2>2. mail' \in Seq(Signals) /\ mail[j] \in Signals
      <3>1. mail \in Seq(Signals) /\ Len(mail) \in Nat /\ j \in 1..Len(mail)
        BY MailTypes
      <3> QED BY <1>8, <3>1, Removed, MailTypes DEF ReceiveSignal
    <2>3. /\ aPath' \in Paths /\ aItems' \in Lists /\ aBusy' \in BOOLEAN /\ aError' \in BOOLEAN
          /\ aOp' \subseteq Signals
      BY <1>8, <2>2 DEF ReceiveSignal, TypeOK, Signals
    <2>4. out' \in Seq(States \cup Answers)
      <3>1. UiState(aPath', aItems', aBusy', aError') \in States
        BY <2>3 DEF UiState, States
      <3>2. CASE out' = Append(out, UiState(aPath', aItems', aBusy', aError'))
        BY <3>1, <3>2, Emitted
      <3>3. CASE out' = out
        BY <3>3 DEF TypeOK
      <3> QED BY <1>8, <3>2, <3>3 DEF ReceiveSignal
    <2> QED BY <1>8, <2>2, <2>3, <2>4 DEF ReceiveSignal, TypeOK, uiVars
  <1>9. ASSUME EndLoadConfig PROVE TypeOK'
    <2>1. PICK m \in aOp, ok \in BOOLEAN, n \in 1..2 :
            /\ aItems' = LoadedList(aPath, ok) /\ aBusy' = FALSE /\ aError' = ~ok
            /\ aOp' = aOp \ {m}
            /\ out' = out \o [i \in 1..n |-> UiState(aPath, aItems', FALSE, ~ok)] \o <<Finished(m.id, ok)>>
            /\ UNCHANGED <<uiVars, mail, aPath, md, used, asked, mixed, torn>>
      BY <1>9, SyncAssumption DEF EndLoadConfig
    <2>2. aItems' \in Lists
      BY <2>1 DEF LoadedList, TypeOK, Lists
    <2>3. UiState(aPath, aItems', FALSE, ~ok) \in States /\ Finished(m.id, ok) \in Answers
      BY <2>1, <2>2 DEF UiState, States, Finished, Answers, TypeOK, Signals
    <2>4. out' \in Seq(States \cup Answers)
      BY <2>1, <2>3, Ended
    <2> QED BY <2>1, <2>2, <2>4 DEF TypeOK, uiVars
  <1>10. ASSUME EndSaveConfig PROVE TypeOK'
    <2>1. PICK m \in aOp, ok \in BOOLEAN, cut \in BOOLEAN :
            /\ WritesFile(m, ok, cut)
            /\ aBusy' = FALSE /\ aError' = ~ok
            /\ aOp' = aOp \ {m}
            /\ out' = out \o <<UiState(aPath, aItems, FALSE, ~ok), Finished(m.id, ok)>>
            /\ UNCHANGED <<uiVars, mail, aPath, aItems, used, asked, mixed>>
      BY <1>10, SyncAssumption DEF EndSaveConfig
    <2>2. m.items \in Lists /\ m.path \in Paths /\ m.id \in Nat
      BY DEF TypeOK, Signals
    <2>3. UiState(aPath, aItems, FALSE, ~ok) \in States /\ Finished(m.id, ok) \in Answers
      BY <2>2 DEF UiState, States, Finished, Answers, TypeOK
    <2>4. out' \in Seq(States \cup Answers)
      BY <2>1, <2>3, EndedOnce
    <2>5. md' \in [Paths -> Lists]
      <3>1. CutShort(m.items) \in Lists
        BY <2>2 DEF CutShort, Lists
      <3> QED BY <2>1, <2>2, <3>1 DEF TypeOK, WritesFile
    <2>6. torn' \subseteq [path : Paths, ed : Nat]
      <3>1. md[m.path].ed \in Nat
        BY <2>2 DEF TypeOK, Lists
      <3> QED BY <2>1, <2>2, <3>1 DEF TypeOK, WritesFile
    <2> QED BY <2>1, <2>4, <2>5, <2>6 DEF TypeOK, uiVars
  <1>11. ASSUME EmitState PROVE TypeOK'
    <2>1. UiState(aPath, aItems, aBusy, aError) \in States
      BY DEF UiState, States, TypeOK
    <2>2. out' \in Seq(States \cup Answers)
      BY <1>11, <2>1, Emitted DEF EmitState
    <2>3. [used EXCEPT !.background = @ + 1] \in Uses
      BY <1>0 DEF Uses
    <2> QED BY <1>11, <2>2, <2>3 DEF EmitState, TypeOK, uiVars, actorVars
  <1>12. ASSUME UNCHANGED vars PROVE TypeOK'
    BY <1>12 DEF vars, uiVars, actorVars, TypeOK
  <1> QED BY <1>1, <1>2, <1>3, <1>4, <1>5, <1>6, <1>7, <1>8, <1>9, <1>10, <1>11, <1>12 DEF Next

-----------------------------------------------------------------------------
(* The steps, in the terms of the proofs. *)

Work(m)   == m.type # "LoadCodexAccounts"
KindOf(m) == IF m.type = "LoadConfig" THEN "load" ELSE "save"
Silent    == mail' = mail /\ InMail' = InMail /\ (Sorted => Sorted')
Mute      == out' = out
Aside     == UNCHANGED <<aPath, aItems, aBusy, aError, aOp, md, torn>>
UiAside   == UNCHANGED <<uiPath, uiItems, uiBusy, uiError, dirty, rev, timer, pendingOps>>
Counted   == used'.edits = used.edits /\ used'.ids = used.ids /\ asked' = asked
Marks     == mixed' = {} => mixed = {}

Edits ==
    /\ uiItems' = [uiItems EXCEPT !.ed = used.edits + 1] /\ rev' = rev + 1 /\ dirty' = TRUE /\ timer' = TRUE
    /\ used'.edits = used.edits + 1 /\ used'.ids = used.ids /\ asked' = asked
    /\ mixed' = {} => mixed = {} /\ PendingLoads = {} /\ uiItems.whole
    /\ UNCHANGED <<uiPath, uiBusy, uiError, pendingOps>> /\ Silent /\ Mute /\ Aside

AsksFor(o, x) ==
    /\ o \in Requests /\ x \in Signals /\ Work(x) /\ o.kind = KindOf(x)
    /\ o.id = used.ids + 1 /\ x.id = o.id /\ o.path = x.path /\ o.rev = rev /\ x.items = uiItems
    /\ pendingOps' = pendingOps \cup {o} /\ Sends(x) /\ timer' = FALSE
    /\ used'.ids = used.ids + 1 /\ used'.edits = used.edits /\ Marks
    /\ UNCHANGED <<uiItems, uiBusy, uiError, dirty, rev>> /\ Mute /\ Aside
    /\ uiPath' = o.path
    /\ o.kind = "load" => asked' = used.edits
    /\ o.kind = "save" => /\ asked' = asked /\ o.path = uiPath /\ dirty
                          /\ mixed' = {} => PendingLoads = {}

Rests == /\ timer' = FALSE /\ ~(dirty /\ ~uiBusy) /\ Counted /\ mixed' = mixed
         /\ UNCHANGED <<uiPath, uiItems, uiBusy, uiError, dirty, rev, pendingOps>>
         /\ Silent /\ Mute /\ Aside

Asides(x) == /\ x \in Signals /\ ~Work(x) /\ x.id = used.ids + 1 /\ x.path = uiPath /\ Sends(x)
             /\ used'.ids = used.ids + 1 /\ used'.edits = used.edits /\ asked' = asked /\ mixed' = mixed
             /\ UiAside /\ Mute /\ Aside

Sees(s) ==
    /\ Consumes /\ s = out[1] /\ s \in States /\ Counted /\ Marks /\ Silent /\ Aside
    /\ UNCHANGED <<dirty, rev, pendingOps>>
    /\ \/ Foreign(s) /\ UNCHANGED <<uiPath, uiItems, uiBusy, uiError, timer>>
       \/ /\ ~Foreign(s)
          /\ uiBusy' = s.busy /\ uiError' = s.error /\ uiPath' = s.path
          /\ uiItems' = (IF ~dirty \/ ReloadingItems(s) THEN s.items ELSE uiItems)
          /\ timer' = (timer \/ (uiBusy /\ ~s.busy /\ ~s.error /\ dirty))
          /\ mixed' = {} => ~(dirty /\ s.error /\ ~s.busy /\ uiItems.from # s.path)

Hears(f, o) ==
    /\ Consumes /\ f = out[1] /\ f \in Answers /\ o \in pendingOps /\ o.id = f.id
    /\ pendingOps' = pendingOps \ {o}
    /\ dirty' = (dirty /\ ~(f.ok /\ Settles(o)))
    /\ timer' = (IF ~f.ok THEN timer ELSE ~Settles(o) /\ IF o.kind = "save" THEN dirty ELSE timer)
    /\ UNCHANGED <<uiPath, uiItems, uiBusy, uiError, rev>> /\ Counted /\ mixed' = mixed /\ Silent /\ Aside

Handles(m) ==
    /\ aOp = {} /\ m \in Signals /\ Takes(m) /\ Counted /\ Marks /\ UiAside /\ md' = md /\ torn' = torn
    /\ aPath' = m.path
    /\ aItems' = IF m.type = "SaveConfig" THEN m.items ELSE aItems
    /\ aBusy' = Work(m) /\ aError' = (aError /\ ~Work(m))
    /\ aOp' = IF Work(m) THEN {m} ELSE {}
    /\ \/ \E s \in States : /\ Emits(s) /\ s.path = aPath' /\ s.items = aItems' /\ s.busy = aBusy' /\ s.error = aError'
       \/ ~Work(m) /\ Mute

Finishes(m, ok) ==
    /\ m \in aOp /\ aOp' = aOp \ {m} /\ ok \in BOOLEAN /\ aPath' = aPath
    /\ aBusy' = FALSE /\ aError' = ~ok /\ Counted /\ mixed' = mixed /\ UiAside /\ Silent
    /\ \E s \in States, n \in 1..2, f \in Answers :
         /\ s.path = aPath /\ s.items = aItems' /\ ~s.busy /\ s.error = ~ok
         /\ f.id = m.id /\ f.ok = ok /\ Ends(s, n, f)
Loads(m, ok) == /\ Finishes(m, ok) /\ m.type = "LoadConfig" /\ md' = md /\ torn' = torn
                /\ aItems' = LoadedList(aPath, ok)
Saves(m, ok) == /\ Finishes(m, ok) /\ m.type = "SaveConfig" /\ aItems' = aItems
                /\ \E cut \in BOOLEAN : WritesFile(m, ok, cut)

Announces == /\ aOp = {} /\ Counted /\ mixed' = mixed /\ UiAside /\ Silent /\ Aside
             /\ \E s \in States : /\ Emits(s) /\ s.path = aPath /\ s.items = aItems
                                  /\ s.busy = aBusy /\ s.error = aError
Stays == UNCHANGED vars /\ Silent /\ Mute /\ Aside /\ UiAside /\ Counted /\ mixed' = mixed

Step == \/ Edits \/ Rests \/ Announces \/ Stays
        \/ \E o \in Requests, x \in Signals : AsksFor(o, x)
        \/ \E x \in Signals : Asides(x)
        \/ \E s \in States : Sees(s)
        \/ \E f \in Answers, o \in pendingOps : Hears(f, o)
        \/ \E m \in InMail : Handles(m)
        \/ \E m \in aOp, ok \in BOOLEAN : Loads(m, ok) \/ Saves(m, ok)

(* Mail that is left alone. *)
LEMMA MailSame == ASSUME mail' = mail PROVE Silent
  BY DEF Silent, InMail, Sorted

(* Every step has one of the shapes. *)
LEMMA Steps ==
    ASSUME TypeOK, TypeOK', Sorted, \A m \in InMail : m.id <= used.ids, [Next]_vars
    PROVE  Step
  <1>0. /\ used \in Uses /\ uiItems \in Lists /\ used.ids \in Nat /\ used.edits \in Nat /\ rev \in Nat
        /\ DOMAIN used = {"limit", "edits", "loads", "saves", "background", "ids"}
        /\ uiPath \in Paths /\ used.ids + 1 \in Nat
    BY DEF TypeOK, Uses
  <1>1. ASSUME Edit PROVE Edits
    <2>1. Silent
      BY <1>1, MailSame DEF Edit
    <2>2. mixed' = {} => mixed = {} /\ PendingLoads = {} /\ uiItems.whole
      BY <1>1 DEF Edit
    <2>3. used'.edits = used.edits + 1 /\ used'.ids = used.ids
      BY <1>0, <1>1 DEF Edit
    <2>4. /\ uiItems' = [uiItems EXCEPT !.ed = used.edits + 1] /\ rev' = rev + 1 /\ dirty' = TRUE /\ timer' = TRUE
          /\ asked' = asked /\ UNCHANGED <<uiPath, uiBusy, uiError, pendingOps>> /\ out' = out
          /\ UNCHANGED <<aPath, aItems, aBusy, aError, aOp, md, torn>>
      BY <1>1 DEF Edit, actorVars
    <2> QED BY <2>1, <2>2, <2>3, <2>4 DEF Edits, Mute, Aside
  <1>2. ASSUME NEW p \in Paths, LoadConfig(p)
        PROVE  \E o \in Requests, x \in Signals : AsksFor(o, x)
    <2> DEFINE o == [kind |-> "load", id |-> used.ids + 1, rev |-> rev, path |-> p]
               x == Signal("LoadConfig", p)
    <2>1. /\ o \in Requests /\ o.kind = "load" /\ o.id = used.ids + 1 /\ o.rev = rev /\ o.path = p
      BY <1>0 DEF Requests
    <2>2. /\ x \in Signals /\ x.type = "LoadConfig" /\ x.id = used.ids + 1 /\ x.path = p /\ x.items = uiItems
      BY <1>0 DEF Signals, Types, Signal
    <2>3. pendingOps' = pendingOps \cup {o} /\ mail' = Append(mail, x)
      BY <1>2 DEF LoadConfig, RunOp
    <2> HIDE DEF o, x
    <2>4. Sends(x)
      BY <2>2, <2>3, Sent
    <2>5. used'.ids = used.ids + 1 /\ used'.edits = used.edits
      BY <1>0, <1>2 DEF LoadConfig
    <2>6. /\ timer' = FALSE /\ uiPath' = p /\ asked' = used.edits /\ mixed' = mixed /\ out' = out
          /\ UNCHANGED <<uiItems, uiBusy, uiError, dirty, rev>>
          /\ UNCHANGED <<aPath, aItems, aBusy, aError, aOp, md, torn>>
      BY <1>2 DEF LoadConfig, actorVars
    <2>7. AsksFor(o, x)
      BY <2>1, <2>2, <2>3, <2>4, <2>5, <2>6 DEF AsksFor, Work, KindOf, Marks, Mute, Aside
    <2> QED BY <2>1, <2>2, <2>7
  <1>3. ASSUME SaveConfig
        PROVE  \E o \in Requests, x \in Signals : AsksFor(o, x)
    <2> DEFINE o == [kind |-> "save", id |-> used.ids + 1, rev |-> rev, path |-> uiPath]
               x == Signal("SaveConfig", uiPath)
    <2>1. /\ o \in Requests /\ o.kind = "save" /\ o.id = used.ids + 1 /\ o.rev = rev /\ o.path = uiPath
      BY <1>0 DEF Requests
    <2>2. /\ x \in Signals /\ x.type = "SaveConfig" /\ x.id = used.ids + 1 /\ x.path = uiPath /\ x.items = uiItems
      BY <1>0 DEF Signals, Types, Signal
    <2>3. pendingOps' = pendingOps \cup {o} /\ mail' = Append(mail, x)
      BY <1>3 DEF SaveConfig, RunOp
    <2> HIDE DEF o, x
    <2>4. Sends(x)
      BY <2>2, <2>3, Sent
    <2>5. used'.ids = used.ids + 1 /\ used'.edits = used.edits
      BY <1>0, <1>3 DEF SaveConfig
    <2>6. /\ timer' = FALSE /\ asked' = asked /\ out' = out /\ dirty
          /\ UNCHANGED <<uiPath, uiItems, uiBusy, uiError, dirty, rev>>
          /\ UNCHANGED <<aPath, aItems, aBusy, aError, aOp, md, torn>>
      BY <1>3 DEF SaveConfig, actorVars
    <2>7. mixed' = {} => mixed = {} /\ PendingLoads = {}
      BY <1>3 DEF SaveConfig
    <2>8. AsksFor(o, x)
      BY <2>1, <2>2, <2>3, <2>4, <2>5, <2>6, <2>7 DEF AsksFor, Work, KindOf, Marks, Mute, Aside
    <2> QED BY <2>1, <2>2, <2>8
  <1>4. ASSUME AutosaveFires PROVE Step
    <2>1. CASE dirty /\ ~uiBusy
      BY <1>3, <1>4, <2>1 DEF AutosaveFires, Step
    <2>2. CASE ~(dirty /\ ~uiBusy)
      <3>1. /\ timer' = FALSE
            /\ UNCHANGED <<uiPath, uiItems, uiBusy, uiError, dirty, rev, pendingOps, mail,
                           out, actorVars, md, used, asked, mixed, torn>>
        BY <1>4, <2>2 DEF AutosaveFires
      <3>2. Rests
        BY <2>2, <3>1, MailSame DEF Rests, Counted, Mute, Aside, actorVars
      <3> QED BY <3>2 DEF Step
    <2> QED BY <2>1, <2>2
  <1>5. ASSUME LoadCodexAccounts PROVE \E x \in Signals : Asides(x)
    <2> DEFINE x == Signal("LoadCodexAccounts", uiPath)
    <2>1. /\ x \in Signals /\ x.type = "LoadCodexAccounts" /\ x.id = used.ids + 1 /\ x.path = uiPath
      BY <1>0 DEF Signals, Types, Signal
    <2>2. mail' = Append(mail, x)
      BY <1>5 DEF LoadCodexAccounts
    <2> HIDE DEF x
    <2>3. Sends(x)
      BY <2>1, <2>2, Sent
    <2>4. used'.ids = used.ids + 1 /\ used'.edits = used.edits
      BY <1>0, <1>5 DEF LoadCodexAccounts
    <2>5. Asides(x)
      BY <1>5, <2>1, <2>3, <2>4 DEF LoadCodexAccounts, Asides, Work, UiAside, Mute, Aside, uiVars, actorVars
    <2> QED BY <2>1, <2>5
  <1>6. ASSUME OnUiState PROVE \E s \in States : Sees(s)
    <2> DEFINE s == out[1]
    <2>1. Consumes /\ Head(out) = s
      BY <1>6, Consumed DEF OnUiState
    <2>2. s \in States
      <3>1. Len(out) \in Nat /\ Len(out) # 0 /\ out[1].kind = "state"
        BY <1>6, <2>1, OutTypes DEF OnUiState
      <3> QED BY <3>1, OutTypes DEF IsState
    <2>3. /\ Silent /\ Counted /\ Aside
      BY <1>6, MailSame DEF OnUiState, Counted, Aside, actorVars
    <2>4. IF Foreign(s) THEN UNCHANGED <<uiVars, mixed>>
          ELSE /\ uiBusy' = s.busy /\ uiError' = s.error /\ uiPath' = s.path
               /\ uiItems' = ShownItems(s) /\ timer' = TimerAfterState(s)
               /\ mixed' = IF dirty /\ s.error /\ ~s.busy /\ uiItems.from # s.path
                           THEN mixed \cup {"failed load over edits"} ELSE mixed
               /\ UNCHANGED <<dirty, rev, pendingOps>>
      BY <1>6, <2>1 DEF OnUiState
    <2> HIDE DEF s
    <2>5. s = out[1]
      BY DEF s
    <2>6. CASE Foreign(s)
      BY <2>1, <2>2, <2>3, <2>4, <2>5, <2>6 DEF Sees, Marks, uiVars
    <2>7. CASE ~Foreign(s)
      BY <2>1, <2>2, <2>3, <2>4, <2>5, <2>7 DEF Sees, Marks, ShownItems, TimerAfterState
    <2> QED BY <2>2, <2>6, <2>7
  <1>7. ASSUME OnOpFinished PROVE \E f \in Answers, o \in pendingOps : Hears(f, o)
    <2> DEFINE f == out[1]
    <2>1. Consumes /\ Head(out) = f
      BY <1>7, Consumed DEF OnOpFinished
    <2>2. f \in Answers
      <3>1. Len(out) \in Nat /\ Len(out) # 0 /\ out[1].kind = "finished"
        BY <1>7, <2>1, OutTypes DEF OnOpFinished
      <3> QED BY <3>1, OutTypes DEF IsAnswer
    <2>3. PICK o \in pendingOps :
            /\ o.id = f.id
            /\ pendingOps' = pendingOps \ {o}
            /\ dirty' = (dirty /\ ~(f.ok /\ Settles(o)))
            /\ timer' = IF ~f.ok THEN timer
                        ELSE ~Settles(o) /\ IF o.kind = "save" THEN dirty ELSE timer
      BY <1>7, <2>1 DEF OnOpFinished
    <2>4. /\ Silent /\ Counted /\ Aside /\ UNCHANGED <<uiPath, uiItems, uiBusy, uiError, rev, mixed>>
      BY <1>7, MailSame DEF OnOpFinished, Counted, Aside, actorVars
    <2> HIDE DEF f
    <2>5. f = out[1]
      BY DEF f
    <2> QED BY <2>1, <2>2, <2>3, <2>4, <2>5 DEF Hears
  <1>8. ASSUME NEW j \in DOMAIN mail, ReceiveSignal(j) PROVE \E m \in InMail : Handles(m)
    <2> DEFINE m == mail[j]
    <2>1. m \in Signals /\ m \in InMail
      BY MailTypes
    <2>2. Takes(m)
      BY <1>8, Taken
    <2>3. /\ aOp = {} /\ aPath' = m.path /\ aItems' = (IF m.type = "SaveConfig" THEN m.items ELSE aItems)
          /\ aBusy' = Work(m) /\ aError' = (aError /\ ~Work(m))
          /\ aOp' = (IF Work(m) THEN aOp \cup {m} ELSE aOp)
          /\ UNCHANGED <<uiVars, md, used, asked, torn>>
      BY <1>8 DEF ReceiveSignal, Idle, Work
    <2>4. mixed' = {} => mixed = {}
      BY <1>8 DEF ReceiveSignal
    <2>5. \/ \E s \in States : /\ Emits(s) /\ s.path = aPath' /\ s.items = aItems' /\ s.busy = aBusy' /\ s.error = aError'
          \/ ~Work(m) /\ out' = out
      <3> DEFINE s == UiState(aPath', aItems', aBusy', aError')
      <3>1. s \in States /\ s.path = aPath' /\ s.items = aItems' /\ s.busy = aBusy' /\ s.error = aError'
        BY DEF UiState, States, TypeOK
      <3>2. out' = Append(out, s) \/ (~Work(m) /\ out' = out)
        BY <1>8 DEF ReceiveSignal, Work
      <3> HIDE DEF s
      <3> QED BY <3>1, <3>2, Emitted
    <2> HIDE DEF m
    <2>6. /\ aOp' = (IF Work(m) THEN {m} ELSE {}) /\ Counted /\ UiAside
      BY <2>3 DEF Counted, UiAside, uiVars
    <2>7. Handles(m)
      BY <2>1, <2>2, <2>3, <2>4, <2>5, <2>6 DEF Handles, Marks, Mute
    <2> QED BY <2>1, <2>7
  <1>9. ASSUME EndLoadConfig PROVE \E m \in aOp, ok \in BOOLEAN : Loads(m, ok)
    <2>1. PICK m \in aOp, ok \in BOOLEAN, n \in 1..2 :
            /\ m.type = "LoadConfig"
            /\ aItems' = LoadedList(aPath, ok) /\ aBusy' = FALSE /\ aError' = ~ok
            /\ aOp' = aOp \ {m}
            /\ out' = out \o [i \in 1..n |-> UiState(aPath, aItems', FALSE, ~ok)] \o <<Finished(m.id, ok)>>
            /\ UNCHANGED <<uiVars, mail, aPath, md, used, asked, mixed, torn>>
      BY <1>9, SyncAssumption DEF EndLoadConfig
    <2> DEFINE s == UiState(aPath, aItems', FALSE, ~ok)
               f == Finished(m.id, ok)
    <2>2. /\ s \in States /\ s.path = aPath /\ s.items = aItems' /\ ~s.busy /\ s.error = ~ok
      BY DEF UiState, States, TypeOK
    <2>3. f \in Answers /\ f.id = m.id /\ f.ok = ok
      BY DEF Finished, Answers, TypeOK, Signals
    <2>4. out' = out \o [i \in 1..n |-> s] \o <<f>>
      BY <2>1
    <2> HIDE DEF s, f
    <2>5. Ends(s, n, f)
      BY <2>2, <2>3, <2>4, Ended
    <2>6. Silent /\ Counted /\ UiAside
      BY <2>1, MailSame DEF Counted, UiAside, uiVars
    <2>7. \E t \in States, k \in 1..2, g \in Answers :
             /\ t.path = aPath /\ t.items = aItems' /\ ~t.busy /\ t.error = ~ok
             /\ g.id = m.id /\ g.ok = ok /\ Ends(t, k, g)
      BY <2>2, <2>3, <2>5
    <2>8. Loads(m, ok)
      BY <2>1, <2>6, <2>7 DEF Loads, Finishes
    <2> QED BY <2>8
  <1>10. ASSUME EndSaveConfig PROVE \E m \in aOp, ok \in BOOLEAN : Saves(m, ok)
    <2>1. PICK m \in aOp, ok \in BOOLEAN, cut \in BOOLEAN :
            /\ m.type = "SaveConfig"
            /\ WritesFile(m, ok, cut)
            /\ aBusy' = FALSE /\ aError' = ~ok
            /\ aOp' = aOp \ {m}
            /\ out' = out \o <<UiState(aPath, aItems, FALSE, ~ok), Finished(m.id, ok)>>
            /\ UNCHANGED <<uiVars, mail, aPath, aItems, used, asked, mixed>>
      BY <1>10, SyncAssumption DEF EndSaveConfig
    <2> DEFINE s == UiState(aPath, aItems, FALSE, ~ok)
               f == Finished(m.id, ok)
    <2>2. /\ s \in States /\ s.path = aPath /\ s.items = aItems' /\ ~s.busy /\ s.error = ~ok
      BY <2>1 DEF UiState, States, TypeOK
    <2>3. f \in Answers /\ f.id = m.id /\ f.ok = ok
      BY DEF Finished, Answers, TypeOK, Signals
    <2>4. out' = out \o <<s, f>>
      BY <2>1
    <2> HIDE DEF s, f
    <2>5. Ends(s, 1, f)
      BY <2>2, <2>3, <2>4, EndedOnce
    <2>6. Silent /\ Counted /\ UiAside
      BY <2>1, MailSame DEF Counted, UiAside, uiVars
    <2>7. \E t \in States, k \in 1..2, g \in Answers :
             /\ t.path = aPath /\ t.items = aItems' /\ ~t.busy /\ t.error = ~ok
             /\ g.id = m.id /\ g.ok = ok /\ Ends(t, k, g)
      BY <2>2, <2>3, <2>5
    <2>8. Saves(m, ok)
      BY <2>1, <2>6, <2>7 DEF Saves, Finishes
    <2> QED BY <2>8
  <1>11. ASSUME EmitState PROVE Announces
    <2> DEFINE s == UiState(aPath, aItems, aBusy, aError)
    <2>1. s \in States /\ s.path = aPath /\ s.items = aItems /\ s.busy = aBusy /\ s.error = aError
      BY DEF UiState, States, TypeOK
    <2>2. out' = Append(out, s)
      BY <1>11 DEF EmitState
    <2> HIDE DEF s
    <2>3. Emits(s)
      BY <2>1, <2>2, Emitted
    <2>4. used'.ids = used.ids /\ used'.edits = used.edits
      BY <1>0, <1>11 DEF EmitState
    <2>5. aOp = {} /\ UNCHANGED <<uiVars, mail, actorVars, md, asked, mixed, torn>>
      BY <1>11 DEF EmitState, Idle
    <2> QED BY <2>1, <2>3, <2>4, <2>5, MailSame DEF Announces, Counted, UiAside, Aside, uiVars, actorVars
  <1>12. ASSUME UNCHANGED vars PROVE Stays
    BY <1>12, MailSame DEF vars, uiVars, actorVars, Stays, Mute, Aside, UiAside, Counted
  <1>13. ASSUME Next PROVE Step
    <2>1. CASE Edit
      BY <1>1, <2>1 DEF Step
    <2>2. CASE \E p \in Paths : LoadConfig(p)
      BY <1>2, <2>2 DEF Step
    <2>3. CASE SaveConfig
      BY <1>3, <2>3 DEF Step
    <2>4. CASE AutosaveFires
      BY <1>4, <2>4
    <2>5. CASE LoadCodexAccounts
      BY <1>5, <2>5 DEF Step
    <2>6. CASE OnUiState
      BY <1>6, <2>6 DEF Step
    <2>7. CASE OnOpFinished
      BY <1>7, <2>7 DEF Step
    <2>8. CASE \E j \in DOMAIN mail : ReceiveSignal(j)
      BY <1>8, <2>8 DEF Step
    <2>9. CASE EndLoadConfig
      BY <1>9, <2>9 DEF Step
    <2>10. CASE EndSaveConfig
      BY <1>10, <2>10 DEF Step
    <2>11. CASE EmitState
      BY <1>11, <2>11 DEF Step
    <2> QED BY <1>13, <2>1, <2>2, <2>3, <2>4, <2>5, <2>6, <2>7, <2>8, <2>9, <2>10, <2>11 DEF Next
  <1> QED BY <1>12, <1>13 DEF Step

-----------------------------------------------------------------------------
(* Requests.  Each one the UI remembers is in one place: on its way, in    *)
(* the actor's hands, or answered.  Those of a kind, and without overtaking *)
(* all of them, pass these places in the order they were made.             *)

Mailed(i)        == \E m \in InMail : m.id = i
Held(i)          == \E m \in aOp : m.id = i
AnsweredAt(k, i) == k \in DOMAIN out /\ IsAnswer(k) /\ out[k].id = i
Alike(o, q)      == o.kind = q.kind \/ mixed = {}
Asked(m)         == \E o \in pendingOps : o.id = m.id /\ o.kind = KindOf(m) /\ o.path = m.path

Numbered == /\ rev = used.edits /\ asked <= rev
            /\ \A o \in pendingOps : o.id <= used.ids /\ o.rev <= rev /\ (o.kind = "load" => o.rev <= asked)
            /\ \A m \in InMail : m.id <= used.ids
Unique   == \A o, q \in pendingOps : (o.id = q.id => o = q) /\ (o.id < q.id => o.rev <= q.rev)
OneOp    == /\ \A m, n \in aOp : m = n
            /\ \A m \in aOp : Work(m) /\ m.path = aPath /\ (m.type = "SaveConfig" => m.items = aItems)
            /\ aBusy = (aOp # {})
Remembered == /\ \A m \in aOp : Asked(m)
              /\ \A m \in InMail : Work(m) => Asked(m)
              /\ \A m \in InMail : ~Work(m) => \A o \in pendingOps : o.id # m.id
              /\ \A k, i : AnsweredAt(k, i) => \E o \in pendingOps : o.id = i
Placed   == \A o \in pendingOps : Mailed(o.id) \/ Held(o.id) \/ \E k : AnsweredAt(k, o.id)
Apart    == /\ \A i : Mailed(i) => ~Held(i) /\ \A k : ~AnsweredAt(k, i)
            /\ \A i : Held(i) => \A k : ~AnsweredAt(k, i)
InTurn   == \A o, q \in pendingOps : Alike(o, q) /\ o.id < q.id =>
              /\ Mailed(o.id) \/ Held(o.id) => Mailed(q.id)
              /\ \A j, k : AnsweredAt(j, o.id) /\ AnsweredAt(k, q.id) => j < k
Once     == \A j, k, i : AnsweredAt(j, i) /\ AnsweredAt(k, i) => j = k

Ledger == Sorted /\ Numbered /\ Unique /\ OneOp /\ Remembered /\ Placed /\ Apart /\ InTurn /\ Once

(* The answers on their way, as the steps change them. *)
LEMMA AnswersMove ==
    ASSUME TypeOK
    PROVE  /\ \A k, i : AnsweredAt(k, i) => k \in Nat /\ k >= 1
           /\ Mute => \A k, i : AnsweredAt(k, i)' <=> AnsweredAt(k, i)
           /\ \A s \in States : Emits(s) => \A k, i : AnsweredAt(k, i)' <=> AnsweredAt(k, i)
           /\ \A s \in States, n \in 1..2, f \in Answers : Ends(s, n, f) =>
                \A k, i : AnsweredAt(k, i)' <=> \/ AnsweredAt(k, i)
                                                \/ k = Len(out) + n + 1 /\ i = f.id
           /\ Consumes => \A k, i : AnsweredAt(k, i)' <=> k \in Nat /\ k >= 1 /\ AnsweredAt(k + 1, i)
  <1>0. Len(out) \in Nat /\ DOMAIN out = 1..Len(out)
    BY OutTypes
  <1>1. \A k, i : AnsweredAt(k, i) => k \in Nat /\ k >= 1
    BY <1>0 DEF AnsweredAt
  <1>2. ASSUME Mute, NEW k, NEW i PROVE AnsweredAt(k, i)' <=> AnsweredAt(k, i)
    BY <1>2 DEF Mute, AnsweredAt, IsAnswer
  <1>3. ASSUME NEW s \in States, Emits(s), NEW k, NEW i PROVE AnsweredAt(k, i)' <=> AnsweredAt(k, i)
    <2>1. s.kind # "finished"
      BY DEF States
    <2>2. /\ DOMAIN out' = 1..(Len(out) + 1) /\ \A x \in 1..Len(out) : out'[x] = out[x]
          /\ out'[Len(out) + 1] = s
      BY <1>3 DEF Emits, Shows
    <2> QED BY <1>0, <2>1, <2>2 DEF AnsweredAt, IsAnswer
  <1>4. ASSUME NEW s \in States, NEW n \in 1..2, NEW f \in Answers, Ends(s, n, f), NEW k, NEW i
        PROVE  AnsweredAt(k, i)' <=> AnsweredAt(k, i) \/ (k = Len(out) + n + 1 /\ i = f.id)
    <2>1. s.kind # "finished" /\ f.kind = "finished"
      BY DEF States, Answers
    <2>2. /\ DOMAIN out' = 1..(Len(out) + n + 1) /\ \A x \in 1..Len(out) : out'[x] = out[x]
          /\ \A x \in (Len(out) + 1)..(Len(out) + n) : out'[x] = s
          /\ out'[Len(out) + n + 1] = f
      BY <1>4 DEF Ends, Shows
    <2>3. CASE k \in 1..Len(out)
      BY <1>0, <2>2, <2>3 DEF AnsweredAt, IsAnswer
    <2>4. CASE k \in (Len(out) + 1)..(Len(out) + n)
      BY <1>0, <2>1, <2>2, <2>4 DEF AnsweredAt, IsAnswer
    <2>5. CASE k = Len(out) + n + 1
      BY <1>0, <2>1, <2>2, <2>5 DEF AnsweredAt, IsAnswer
    <2>6. CASE k \notin 1..(Len(out) + n + 1)
      BY <1>0, <2>2, <2>6 DEF AnsweredAt
    <2> QED BY <1>0, <2>3, <2>4, <2>5, <2>6
  <1>5. ASSUME Consumes, NEW k, NEW i
        PROVE  AnsweredAt(k, i)' <=> k \in Nat /\ k >= 1 /\ AnsweredAt(k + 1, i)
    <2>1. /\ DOMAIN out' = 1..(Len(out) - 1) /\ \A x \in 1..(Len(out) - 1) : out'[x] = out[x + 1]
      BY <1>5 DEF Consumes, Shows
    <2>2. CASE k \in 1..(Len(out) - 1)
      <3>1. k \in Nat /\ k >= 1 /\ k + 1 \in DOMAIN out /\ out'[k] = out[k + 1]
        BY <1>0, <2>1, <2>2
      <3> QED BY <2>1, <2>2, <3>1 DEF AnsweredAt, IsAnswer
    <2>3. CASE k \notin 1..(Len(out) - 1)
      BY <1>0, <2>1, <2>3 DEF AnsweredAt
    <2> QED BY <2>2, <2>3
  <1> QED BY <1>1, <1>2, <1>3, <1>4, <1>5

(* The numbers of requests, and of messages. *)
LEMMA Ids ==
    ASSUME TypeOK
    PROVE  /\ used.ids \in Nat /\ used.edits \in Nat /\ rev \in Nat /\ asked \in Nat
           /\ \A o \in pendingOps : /\ o \in Requests /\ o.id \in Nat /\ o.rev \in Nat
                                    /\ o.kind \in {"load", "save"} /\ o.path \in Paths
           /\ \A m \in aOp \cup InMail : /\ m \in Signals /\ m.id \in Nat /\ m.type \in Types
                                         /\ m.path \in Paths /\ m.items \in Lists
           /\ uiItems \in Lists /\ aItems \in Lists
  <1>1. \A m \in aOp \cup InMail : m \in Signals
    BY MailTypes DEF TypeOK
  <1> QED BY <1>1 DEF TypeOK, Uses, Requests, Signals

(* The ledger of requests holds at first. *)
LEMMA InitLedger == Init => Ledger
  <1> SUFFICES ASSUME Init PROVE Ledger
    OBVIOUS
  <1>1. InMail = {} /\ pendingOps = {} /\ aOp = {} /\ \A k, i : ~AnsweredAt(k, i)
    BY DEF Init, InMail, AnsweredAt
  <1>2. Sorted /\ rev = 0 /\ asked = 0 /\ aBusy = FALSE
    BY DEF Init, Sorted
  <1>3. used.edits = 0
    BY DEF Init
  <1>4. Sorted /\ Numbered /\ Unique
    BY <1>1, <1>2, <1>3 DEF Numbered, Unique
  <1>7. OneOp
    BY <1>1, <1>2 DEF OneOp
  <1>5. Remembered /\ Placed /\ InTurn /\ Once
    BY <1>1 DEF Remembered, Placed, InTurn, Once
  <1>6. Apart
    BY <1>1 DEF Apart, Mailed, Held
  <1> QED BY <1>4, <1>5, <1>6, <1>7 DEF Ledger

(* Steps that touch no request: requests, mail, the handler and the        *)
(* answers on their way are the same.                                      *)
LEMMA LedgerAside ==
    ASSUME TypeOK, Ledger, Silent, UNCHANGED <<pendingOps, aPath, aItems, aBusy, aOp>>,
           \A k, i : AnsweredAt(k, i)' <=> AnsweredAt(k, i),
           rev' = used'.edits, rev' \in Nat, rev' >= rev, asked' = asked, used'.ids = used.ids, Marks
    PROVE  Ledger'
  <1>1. \A i : (Mailed(i)' <=> Mailed(i)) /\ (Held(i)' <=> Held(i))
    BY DEF Silent, Mailed, Held
  <1>2. \A m : Asked(m)' <=> Asked(m)
    BY DEF Asked
  <1>3. Sorted' /\ Unique' /\ OneOp'
    BY DEF Ledger, Silent, Unique, OneOp
  <1>4. Numbered'
    BY Ids DEF Ledger, Numbered, Silent
  <1>5. Remembered' /\ Placed'
    BY <1>1, <1>2 DEF Ledger, Remembered, Placed, Silent
  <1>6. Apart'
    BY <1>1 DEF Ledger, Apart
  <1>7. \A o, q : Alike(o, q)' => Alike(o, q)
    BY DEF Alike, Marks
  <1>8. InTurn'
    BY <1>1, <1>7 DEF Ledger, InTurn
  <1>9. Once'
    BY DEF Ledger, Once
  <1> QED BY <1>3, <1>4, <1>5, <1>6, <1>8, <1>9 DEF Ledger

(* A request that is made is the newest, and is on its way. *)
LEMMA LedgerAsks ==
    ASSUME TypeOK, Ledger, NEW o \in Requests, NEW x \in Signals, AsksFor(o, x)
    PROVE  Ledger'
  <1>1. /\ pendingOps' = pendingOps \cup {o} /\ InMail' = InMail \cup {x} /\ Sorted'
        /\ o.id = used.ids + 1 /\ x.id = o.id /\ o.kind = KindOf(x) /\ o.path = x.path /\ o.rev = rev /\ Work(x)
        /\ aOp' = aOp /\ rev' = rev /\ used'.ids = used.ids + 1 /\ used'.edits = used.edits
        /\ asked' \in {asked, rev} /\ (o.kind = "load" => asked' = rev)
        /\ \A k, i : AnsweredAt(k, i)' <=> AnsweredAt(k, i)
    <2>1. asked' \in {asked, rev} /\ (o.kind = "load" => asked' = rev)
      BY DEF AsksFor, Ledger, Numbered, Requests
    <2>2. \A k, i : AnsweredAt(k, i)' <=> AnsweredAt(k, i)
      BY AnswersMove DEF AsksFor
    <2> QED BY <2>1, <2>2 DEF AsksFor, Sends, Aside
  <1>2. \A q \in pendingOps : q.id \in Nat /\ q.id < o.id /\ q.rev <= o.rev /\ q.rev \in Nat
    BY <1>1, Ids DEF Ledger, Numbered
  <1>3. \A m \in InMail \cup aOp : m.id < x.id
    <2>1. \A m \in aOp : \E q \in pendingOps : q.id = m.id
      BY DEF Ledger, Remembered, Asked
    <2>2. \A m \in InMail : m.id <= used.ids /\ m.id \in Nat
      BY Ids DEF Ledger, Numbered
    <2> QED BY <1>1, <1>2, <2>1, <2>2, Ids
  <1>4. /\ \A i : Mailed(i)' <=> Mailed(i) \/ i = o.id
        /\ \A i : Held(i)' <=> Held(i)
        /\ ~Held(o.id) /\ \A k : ~AnsweredAt(k, o.id)
    <2>1. /\ \A i : Mailed(i)' <=> Mailed(i) \/ i = o.id
          /\ \A i : Held(i)' <=> Held(i)
      BY <1>1 DEF Mailed, Held
    <2>2. \A m \in aOp : m.id # o.id
      BY <1>1, <1>3, Ids
    <2>3. \A k : ~AnsweredAt(k, o.id)
      BY <1>2 DEF Ledger, Remembered
    <2> QED BY <2>1, <2>2, <2>3 DEF Held
  <1>5. Numbered'
    <2>1. \A q \in pendingOps' : q.id <= used'.ids /\ q.rev <= rev' /\ (q.kind = "load" => q.rev <= asked')
      BY <1>1, Ids DEF Ledger, Numbered
    <2>2. \A m \in InMail' : m.id <= used'.ids
      BY <1>1, Ids DEF Ledger, Numbered
    <2>3. rev' = used'.edits /\ asked' <= rev'
      BY <1>1, Ids DEF Ledger, Numbered
    <2> QED BY <2>1, <2>2, <2>3 DEF Numbered
  <1>6. Unique'
    <2> SUFFICES ASSUME NEW q \in pendingOps', NEW r \in pendingOps'
                 PROVE  (q.id = r.id => q = r) /\ (q.id < r.id => q.rev <= r.rev)
      BY DEF Unique
    <2>1. CASE q \in pendingOps /\ r \in pendingOps
      BY <2>1 DEF Ledger, Unique
    <2>2. CASE q = o /\ r = o
      BY <2>2 DEF Requests
    <2>3. CASE q \in pendingOps /\ r = o
      BY <1>2, <2>3
    <2>4. CASE q = o /\ r \in pendingOps
      BY <1>1, <1>2, <2>4, Ids
    <2> QED BY <1>1, <2>1, <2>2, <2>3, <2>4
  <1>7. OneOp'
    BY DEF Ledger, OneOp, AsksFor, Aside
  <1>8. Remembered'
    <2>1. \A m : Asked(m) => Asked(m)'
      BY <1>1 DEF Asked
    <2>2. Asked(x)'
      BY <1>1 DEF Asked
    <2>3. /\ \A m \in aOp' : Asked(m)'
          /\ \A m \in InMail' : Work(m) => Asked(m)'
      BY <1>1, <2>1, <2>2 DEF Ledger, Remembered
    <2>4. \A m \in InMail' : ~Work(m) => \A q \in pendingOps' : q.id # m.id
      BY <1>1, <1>3, Ids DEF Ledger, Remembered
    <2>5. \A k, i : AnsweredAt(k, i)' => \E q \in pendingOps' : q.id = i
      BY <1>1 DEF Ledger, Remembered
    <2> QED BY <2>3, <2>4, <2>5 DEF Remembered
  <1>9. Placed'
    BY <1>1, <1>4 DEF Ledger, Placed
  <1>10. Apart'
    BY <1>1, <1>4 DEF Ledger, Apart
  <1>11. InTurn'
    <2> SUFFICES ASSUME NEW q \in pendingOps', NEW r \in pendingOps', Alike(q, r)', q.id < r.id
                 PROVE  /\ (Mailed(q.id) \/ Held(q.id))' => Mailed(r.id)'
                        /\ \A j, k : AnsweredAt(j, q.id)' /\ AnsweredAt(k, r.id)' => j < k
      BY DEF InTurn
    <2>1. Alike(q, r)
      BY DEF Alike, AsksFor, Marks
    <2>2. CASE r = o
      BY <1>1, <1>4, <2>2
    <2>3. CASE q = o
      BY <1>1, <1>2, <2>3, Ids
    <2>4. CASE q \in pendingOps /\ r \in pendingOps /\ q.id # o.id
      BY <1>1, <1>4, <2>1, <2>4 DEF Ledger, InTurn
    <2> QED BY <1>1, <1>2, <2>2, <2>3, <2>4, Ids
  <1>12. Once'
    BY <1>1 DEF Ledger, Once
  <1> QED BY <1>1, <1>5, <1>6, <1>7, <1>8, <1>9, <1>10, <1>11, <1>12 DEF Ledger

(* A signal that is no load or save leaves the requests alone. *)
LEMMA LedgerAsides ==
    ASSUME TypeOK, Ledger, NEW x \in Signals, Asides(x)
    PROVE  Ledger'
  <1>1. /\ pendingOps' = pendingOps /\ InMail' = InMail \cup {x} /\ Sorted' /\ ~Work(x)
        /\ x.id = used.ids + 1 /\ aOp' = aOp /\ rev' = rev /\ asked' = asked /\ mixed' = mixed
        /\ used'.ids = used.ids + 1 /\ used'.edits = used.edits
        /\ \A k, i : AnsweredAt(k, i)' <=> AnsweredAt(k, i)
    BY AnswersMove DEF Asides, Sends, Aside, UiAside
  <1>2. \A q \in pendingOps : q.id \in Nat /\ q.id < x.id
    BY <1>1, Ids DEF Ledger, Numbered
  <1>3. /\ \A i : Mailed(i)' <=> Mailed(i) \/ i = x.id
        /\ \A i : Held(i)' <=> Held(i)
    BY <1>1 DEF Mailed, Held
  <1>4. ~Held(x.id) /\ \A k : ~AnsweredAt(k, x.id)
    <2>1. \A m \in aOp : \E q \in pendingOps : q.id = m.id
      BY DEF Ledger, Remembered, Asked
    <2>2. \A q \in pendingOps : q.id # x.id
      BY <1>1, <1>2
    <2> QED BY <2>1, <2>2 DEF Held, Ledger, Remembered
  <1>5. Numbered'
    BY <1>1, Ids DEF Ledger, Numbered
  <1>6. Unique' /\ OneOp' /\ Once'
    BY <1>1 DEF Ledger, Unique, OneOp, Once, Asides, Aside
  <1>7. Remembered'
    <2>1. \A m : Asked(m) <=> Asked(m)'
      BY <1>1 DEF Asked
    <2>2. \A q \in pendingOps : q.id # x.id
      BY <1>1, <1>2
    <2> QED BY <1>1, <2>1, <2>2 DEF Ledger, Remembered
  <1>8. Placed'
    BY <1>1, <1>3 DEF Ledger, Placed
  <1>9. Apart'
    BY <1>1, <1>3, <1>4 DEF Ledger, Apart
  <1>10. InTurn'
    <2>1. \A o, q : Alike(o, q)' <=> Alike(o, q)
      BY <1>1 DEF Alike
    <2>2. \A q \in pendingOps : q.id # x.id
      BY <1>1, <1>2
    <2>3. \A o \in pendingOps : (Mailed(o.id)' <=> Mailed(o.id)) /\ (Held(o.id)' <=> Held(o.id))
      BY <1>3, <2>2
    <2> QED BY <1>1, <2>1, <2>3 DEF Ledger, InTurn
  <1> QED BY <1>1, <1>5, <1>6, <1>7, <1>8, <1>9, <1>10 DEF Ledger

(* The actor takes a request: no older one of its kind is on its way. *)
LEMMA LedgerHandles ==
    ASSUME TypeOK, Ledger, NEW m \in InMail, Handles(m)
    PROVE  Ledger'
  <1>1. /\ aOp = {} /\ InMail' = InMail \ {m} /\ Sorted' /\ pendingOps' = pendingOps
        /\ rev' = rev /\ asked' = asked /\ used'.ids = used.ids /\ used'.edits = used.edits
        /\ aOp' = (IF Work(m) THEN {m} ELSE {})
        /\ \A n \in InMail \ {m} : n.type = m.type \/ mixed' = {} => m.id < n.id
    BY DEF Handles, Takes, Counted, UiAside
  <1>2. \A k, i : AnsweredAt(k, i)' <=> AnsweredAt(k, i)
    <2>1. Mute \/ \E s \in States : Emits(s)
      BY DEF Handles
    <2> QED BY <2>1, AnswersMove
  <1>3. \A n \in InMail : n.id = m.id => n = m
    BY OfOneId DEF Ledger
  <1>4. /\ \A i : Mailed(i)' <=> Mailed(i) /\ i # m.id
        /\ \A i : Held(i)' <=> Work(m) /\ i = m.id
        /\ \A i : ~Held(i)
        /\ Mailed(m.id)
    BY <1>1, <1>3 DEF Mailed, Held
  <1>5. Numbered' /\ Unique' /\ Once'
    BY <1>1, <1>2 DEF Ledger, Numbered, Unique, Once
  <1>6. OneOp'
    <2>1. /\ aPath' = m.path /\ (m.type = "SaveConfig" => aItems' = m.items)
          /\ aBusy' = Work(m)
      BY DEF Handles
    <2>2. CASE Work(m)
      <3>1. aOp' = {m}
        BY <1>1, <2>2
      <3>2. aBusy' = (aOp' # {})
        BY <2>1, <2>2, <3>1
      <3> QED BY <2>1, <2>2, <3>1, <3>2 DEF OneOp
    <2>3. CASE ~Work(m)
      <3>1. aOp' = {}
        BY <1>1, <2>3
      <3>2. aBusy' = (aOp' # {})
        BY <2>1, <2>3, <3>1 DEF Work
      <3> QED BY <3>1, <3>2 DEF OneOp
    <2> QED BY <2>2, <2>3
  <1>7. Remembered'
    <2>1. \A n : Asked(n)' <=> Asked(n)
      BY <1>1 DEF Asked
    <2> QED BY <1>1, <1>2, <2>1 DEF Ledger, Remembered
  <1>8. Placed'
    <2>1. \A o \in pendingOps : o.id = m.id => Work(m)
      BY DEF Ledger, Remembered
    <2> QED BY <1>1, <1>2, <1>4, <2>1 DEF Ledger, Placed
  <1>9. Apart'
    BY <1>2, <1>4 DEF Ledger, Apart
  <1>10. InTurn'
    <2> SUFFICES ASSUME NEW o \in pendingOps, NEW q \in pendingOps, Alike(o, q)', o.id < q.id
                 PROVE  /\ (Mailed(o.id) \/ Held(o.id))' => Mailed(q.id)'
                        /\ \A j, k : AnsweredAt(j, o.id)' /\ AnsweredAt(k, q.id)' => j < k
      BY <1>1 DEF InTurn
    <2>1. Alike(o, q) /\ (o.kind = q.kind \/ mixed' = {})
      BY DEF Alike, Handles, Marks
    <2>2. \A j, k : AnsweredAt(j, o.id)' /\ AnsweredAt(k, q.id)' => j < k
      BY <1>2, <2>1 DEF Ledger, InTurn
    <2>3. ASSUME (Mailed(o.id) \/ Held(o.id))' PROVE Mailed(q.id)'
      <3>1. Mailed(o.id)
        BY <1>4, <2>3
      <3>2. Mailed(q.id)
        BY <2>1, <3>1 DEF Ledger, InTurn
      <3>3. q.id # m.id
        <4> SUFFICES ASSUME q.id = m.id PROVE FALSE
          OBVIOUS
        <4>1. o.id # m.id /\ o.id \in Nat /\ m.id \in Nat
          BY Ids
        <4>2. PICK n \in InMail : n.id = o.id
          BY <3>1 DEF Mailed
        <4>3. Work(n) /\ Work(m)
          BY <4>2 DEF Ledger, Remembered
        <4>4. KindOf(n) = o.kind /\ KindOf(m) = q.kind
          BY <4>2, <4>3 DEF Ledger, Remembered, Asked, Unique
        <4>5. n.type = m.type \/ mixed' = {}
          BY <2>1, <4>2, <4>3, <4>4, Ids DEF KindOf, Work, Types
        <4>6. m.id < n.id
          BY <1>1, <4>1, <4>2, <4>5
        <4> QED BY <4>1, <4>2, <4>6
      <3> QED BY <1>4, <3>2, <3>3
    <2> QED BY <2>2, <2>3
  <1> QED BY <1>1, <1>5, <1>6, <1>7, <1>8, <1>9, <1>10 DEF Ledger

(* A state that is seen leaves the requests alone. *)
LEMMA LedgerSees ==
    ASSUME TypeOK, Ledger, NEW s \in States, Sees(s)
    PROVE  Ledger'
  <1>1. /\ Silent /\ UNCHANGED <<pendingOps, aPath, aItems, aBusy, aOp, rev, asked>> /\ Marks
        /\ used'.ids = used.ids /\ used'.edits = used.edits
    BY DEF Sees, Aside, Counted
  <1>2. \A k, i : AnsweredAt(k, i)' <=> k \in Nat /\ k >= 1 /\ AnsweredAt(k + 1, i)
    BY AnswersMove DEF Sees
  <1>3. \A k, i : AnsweredAt(k, i) => k \in Nat /\ k > 1
    <2>1. ~IsAnswer(1)
      BY DEF Sees, States, IsAnswer
    <2> QED BY <2>1, AnswersMove DEF AnsweredAt
  <1>4. \A i : (Mailed(i)' <=> Mailed(i)) /\ (Held(i)' <=> Held(i))
    BY <1>1 DEF Silent, Mailed, Held
  <1>5. \A m : Asked(m)' <=> Asked(m)
    BY <1>1 DEF Asked
  <1>6. Sorted' /\ Unique' /\ OneOp' /\ Numbered'
    BY <1>1 DEF Ledger, Silent, Unique, OneOp, Numbered
  <1>7. \A i : (\E k : AnsweredAt(k, i)') <=> (\E k : AnsweredAt(k, i))
    <2>1. ASSUME NEW i, NEW k, AnsweredAt(k, i) PROVE AnsweredAt(k - 1, i)'
      BY <1>2, <1>3, <2>1
    <2> QED BY <1>2, <2>1
  <1>8. Remembered'
    BY <1>1, <1>5, <1>7 DEF Ledger, Remembered, Silent
  <1>9. Placed' /\ Apart'
    BY <1>1, <1>4, <1>7 DEF Ledger, Placed, Apart
  <1>10. InTurn'
    <2>1. \A o, q : Alike(o, q)' => Alike(o, q)
      BY <1>1 DEF Alike, Marks
    <2>2. ASSUME NEW o \in pendingOps, NEW q \in pendingOps, Alike(o, q), o.id < q.id,
                 NEW j, NEW k, AnsweredAt(j, o.id)', AnsweredAt(k, q.id)'
          PROVE  j < k
      <3>1. j \in Nat /\ k \in Nat /\ AnsweredAt(j + 1, o.id) /\ AnsweredAt(k + 1, q.id)
        BY <1>2, <2>2
      <3>2. j + 1 < k + 1
        BY <2>2, <3>1 DEF Ledger, InTurn
      <3> QED BY <3>1, <3>2
    <2> QED BY <1>1, <1>4, <2>1, <2>2 DEF Ledger, InTurn
  <1>11. Once'
    <2> SUFFICES ASSUME NEW i, NEW j, NEW k, AnsweredAt(j, i)', AnsweredAt(k, i)' PROVE j = k
      BY DEF Once
    <2>1. j \in Nat /\ k \in Nat /\ AnsweredAt(j + 1, i) /\ AnsweredAt(k + 1, i)
      BY <1>2
    <2>2. j + 1 = k + 1
      BY <2>1 DEF Ledger, Once
    <2> QED BY <2>1, <2>2
  <1> QED BY <1>6, <1>8, <1>9, <1>10, <1>11 DEF Ledger

(* The answered request is forgotten; the others stay in their places. *)
LEMMA LedgerHears ==
    ASSUME TypeOK, Ledger, NEW f \in Answers, NEW o \in pendingOps, Hears(f, o)
    PROVE  Ledger'
  <1>1. /\ Silent /\ UNCHANGED <<aPath, aItems, aBusy, aOp, rev, asked, mixed>>
        /\ pendingOps' = pendingOps \ {o} /\ o.id = f.id
        /\ used'.ids = used.ids /\ used'.edits = used.edits
    BY DEF Hears, Aside, Counted
  <1>2. \A k, i : AnsweredAt(k, i)' <=> k \in Nat /\ k >= 1 /\ AnsweredAt(k + 1, i)
    BY AnswersMove DEF Hears
  <1>3. AnsweredAt(1, o.id)
    <2>1. 1 \in DOMAIN out /\ out[1].kind = "finished" /\ out[1].id = o.id
      BY DEF Hears, Consumes, Shows, Answers
    <2> QED BY <2>1 DEF AnsweredAt, IsAnswer
  <1>4. \A k, i : AnsweredAt(k, i) => k \in Nat /\ (k > 1 \/ (i = o.id /\ k = 1))
    <2>1. \A i : AnsweredAt(1, i) => i = o.id
      BY <1>3 DEF AnsweredAt
    <2>2. \A k, i : AnsweredAt(k, i) => k \in Nat /\ k >= 1
      BY AnswersMove
    <2> QED BY <2>1, <2>2
  <1>5. \A i : (\E k : AnsweredAt(k, i)') <=> i # o.id /\ \E k : AnsweredAt(k, i)
    <2>1. ASSUME NEW i, NEW k, i # o.id, AnsweredAt(k, i) PROVE AnsweredAt(k - 1, i)'
      BY <1>2, <1>4, <2>1
    <2>2. ASSUME NEW k, AnsweredAt(k, o.id)' PROVE FALSE
      <3>1. k \in Nat /\ k >= 1 /\ AnsweredAt(k + 1, o.id)
        BY <1>2, <2>2
      <3>2. k + 1 = 1
        BY <1>3, <3>1 DEF Ledger, Once
      <3> QED BY <3>1, <3>2
    <2> QED BY <1>2, <2>1, <2>2
  <1>6. \A i : (Mailed(i)' <=> Mailed(i)) /\ (Held(i)' <=> Held(i))
    BY <1>1 DEF Silent, Mailed, Held
  <1>7. ~Mailed(o.id) /\ ~Held(o.id)
    BY <1>3 DEF Ledger, Apart
  <1>8. \A q \in pendingOps : q # o => q.id # o.id
    BY DEF Ledger, Unique
  <1>9. Sorted' /\ Unique' /\ OneOp' /\ Numbered'
    BY <1>1 DEF Ledger, Silent, Unique, OneOp, Numbered
  <1>10. Remembered'
    <2>1. \A m \in aOp \cup InMail : Asked(m) => Asked(m)'
      <3>1. \A m \in aOp \cup InMail : m.id # o.id
        BY <1>7 DEF Mailed, Held
      <3> QED BY <1>1, <3>1 DEF Asked
    <2>2. \A k, i : AnsweredAt(k, i)' => \E q \in pendingOps' : q.id = i
      <3>1. \A k, i : AnsweredAt(k, i)' => i # o.id /\ \E j : AnsweredAt(j, i)
        BY <1>5
      <3> QED BY <1>1, <3>1 DEF Ledger, Remembered
    <2>3. InMail' = InMail
      BY <1>1 DEF Silent
    <2> QED BY <1>1, <2>1, <2>2, <2>3 DEF Ledger, Remembered
  <1>11. Placed'
    BY <1>1, <1>5, <1>6, <1>8 DEF Ledger, Placed
  <1>12. Apart'
    BY <1>5, <1>6 DEF Ledger, Apart
  <1>13. InTurn'
    <2>1. \A q, r : Alike(q, r)' <=> Alike(q, r)
      BY <1>1 DEF Alike
    <2>2. ASSUME NEW q \in pendingOps, NEW r \in pendingOps, Alike(q, r), q.id < r.id,
                 NEW j, NEW k, AnsweredAt(j, q.id)', AnsweredAt(k, r.id)'
          PROVE  j < k
      <3>1. j \in Nat /\ k \in Nat /\ AnsweredAt(j + 1, q.id) /\ AnsweredAt(k + 1, r.id)
        BY <1>2, <2>2
      <3>2. j + 1 < k + 1
        BY <2>2, <3>1 DEF Ledger, InTurn
      <3> QED BY <3>1, <3>2
    <2> QED BY <1>1, <1>6, <2>1, <2>2 DEF Ledger, InTurn
  <1>14. Once'
    <2> SUFFICES ASSUME NEW i, NEW j, NEW k, AnsweredAt(j, i)', AnsweredAt(k, i)' PROVE j = k
      BY DEF Once
    <2>1. j \in Nat /\ k \in Nat /\ AnsweredAt(j + 1, i) /\ AnsweredAt(k + 1, i)
      BY <1>2
    <2>2. j + 1 = k + 1
      BY <2>1 DEF Ledger, Once
    <2> QED BY <2>1, <2>2
  <1> QED BY <1>9, <1>10, <1>11, <1>12, <1>13, <1>14 DEF Ledger

(* The request in hand is answered, after those answered before. *)
LEMMA LedgerFinishes ==
    ASSUME TypeOK, Ledger, NEW m \in aOp, NEW ok, Finishes(m, ok)
    PROVE  Ledger'
  <1>1. /\ Silent /\ aOp' = {} /\ rev' = rev /\ asked' = asked /\ mixed' = mixed /\ pendingOps' = pendingOps
        /\ used'.ids = used.ids /\ used'.edits = used.edits /\ aBusy' = FALSE
    BY DEF Finishes, Counted, UiAside, Ledger, OneOp
  <1>2. PICK l \in Nat : /\ \A k, i : AnsweredAt(k, i)' <=> AnsweredAt(k, i) \/ (k = l /\ i = m.id)
                         /\ \A k, i : AnsweredAt(k, i) => k \in Nat /\ k < l
    <2>1. PICK s \in States, n \in 1..2, f \in Answers : f.id = m.id /\ Ends(s, n, f)
      BY DEF Finishes
    <2>2. \A k, i : AnsweredAt(k, i)' <=> AnsweredAt(k, i) \/ (k = Len(out) + n + 1 /\ i = m.id)
      BY <2>1, AnswersMove
    <2>3. Len(out) + n + 1 \in Nat /\ \A k, i : AnsweredAt(k, i) => k \in Nat /\ k < Len(out) + n + 1
      BY OutTypes DEF AnsweredAt
    <2> QED BY <2>2, <2>3
  <1>3. PICK o \in pendingOps : o.id = m.id
    BY DEF Ledger, Remembered, Asked
  <1>4. /\ \A i : Mailed(i)' <=> Mailed(i)
        /\ \A i : ~Held(i)'
        /\ \A i : Held(i) <=> i = m.id
        /\ Held(m.id) /\ ~Mailed(m.id) /\ \A k : ~AnsweredAt(k, m.id)
    <2>1. \A n \in aOp : n = m
      BY DEF Ledger, OneOp
    <2> QED BY <1>1, <2>1 DEF Silent, Mailed, Held, Ledger, Apart
  <1>5. Sorted' /\ Unique' /\ OneOp' /\ Numbered'
    BY <1>1 DEF Ledger, Silent, Unique, OneOp, Numbered
  <1>6. Remembered'
    <2>1. \A n : Asked(n)' <=> Asked(n)
      BY <1>1 DEF Asked
    <2>2. \A k, i : AnsweredAt(k, i)' => \E q \in pendingOps' : q.id = i
      BY <1>1, <1>2, <1>3 DEF Ledger, Remembered
    <2> QED BY <1>1, <2>1, <2>2 DEF Ledger, Remembered, Silent
  <1>7. Placed'
    BY <1>1, <1>2, <1>4 DEF Ledger, Placed
  <1>8. Apart'
    BY <1>2, <1>4 DEF Ledger, Apart
  <1>9. InTurn'
    <2> SUFFICES ASSUME NEW q \in pendingOps, NEW r \in pendingOps, Alike(q, r), q.id < r.id
                 PROVE  /\ (Mailed(q.id) \/ Held(q.id))' => Mailed(r.id)'
                        /\ \A j, k : AnsweredAt(j, q.id)' /\ AnsweredAt(k, r.id)' => j < k
      BY <1>1 DEF InTurn, Alike
    <2>1. (Mailed(q.id) \/ Held(q.id))' => Mailed(r.id)'
      BY <1>4 DEF Ledger, InTurn
    <2>2. ASSUME NEW j, NEW k, AnsweredAt(j, q.id)', AnsweredAt(k, r.id)' PROVE j < k
      <3>1. CASE q.id = m.id
        <4>1. Mailed(r.id)
          BY <1>4, <3>1 DEF Ledger, InTurn
        <4>2. \A i : ~AnsweredAt(i, r.id)
          BY <4>1 DEF Ledger, Apart
        <4>3. r.id # m.id
          BY <3>1, Ids
        <4> QED BY <1>2, <2>2, <4>2, <4>3
      <3>2. CASE q.id # m.id
        <4>1. AnsweredAt(j, q.id)
          BY <1>2, <2>2, <3>2
        <4>2. CASE AnsweredAt(k, r.id)
          BY <4>1, <4>2 DEF Ledger, InTurn
        <4>3. CASE k = l
          BY <1>2, <4>1, <4>3
        <4> QED BY <1>2, <2>2, <4>2, <4>3
      <3> QED BY <3>1, <3>2
    <2> QED BY <2>1, <2>2
  <1>10. Once'
    <2> SUFFICES ASSUME NEW i, NEW j, NEW k, AnsweredAt(j, i)', AnsweredAt(k, i)' PROVE j = k
      BY DEF Once
    <2>1. CASE i = m.id
      BY <1>2, <1>4, <2>1
    <2>2. CASE i # m.id
      BY <1>2, <2>2 DEF Ledger, Once
    <2> QED BY <2>1, <2>2
  <1> QED BY <1>5, <1>6, <1>7, <1>8, <1>9, <1>10 DEF Ledger

(* Every step keeps the ledger. *)
LEMMA NextLedger == ASSUME TypeOK, Ledger, Step PROVE Ledger'
  <1>0. rev = used.edits /\ rev \in Nat /\ used.edits \in Nat
    BY Ids DEF Ledger, Numbered
  <1>1. CASE Edits
    <2>1. \A k, i : AnsweredAt(k, i)' <=> AnsweredAt(k, i)
      BY <1>1, AnswersMove DEF Edits
    <2>2. /\ Silent /\ UNCHANGED <<pendingOps, aPath, aItems, aBusy, aOp>> /\ asked' = asked
          /\ used'.ids = used.ids /\ Marks /\ rev' = rev + 1 /\ used'.edits = used.edits + 1
      BY <1>1 DEF Edits, Aside, Marks
    <2> QED BY <1>0, <2>1, <2>2, LedgerAside
  <1>2. CASE Rests
    <2>1. \A k, i : AnsweredAt(k, i)' <=> AnsweredAt(k, i)
      BY <1>2, AnswersMove DEF Rests
    <2>2. /\ Silent /\ UNCHANGED <<pendingOps, aPath, aItems, aBusy, aOp>> /\ asked' = asked
          /\ used'.ids = used.ids /\ Marks /\ rev' = rev /\ used'.edits = used.edits
      BY <1>2 DEF Rests, Aside, Marks, Counted
    <2> QED BY <1>0, <2>1, <2>2, LedgerAside
  <1>3. CASE Announces
    <2>1. \A k, i : AnsweredAt(k, i)' <=> AnsweredAt(k, i)
      BY <1>3, AnswersMove DEF Announces
    <2>2. /\ Silent /\ UNCHANGED <<pendingOps, aPath, aItems, aBusy, aOp>> /\ asked' = asked
          /\ used'.ids = used.ids /\ Marks /\ rev' = rev /\ used'.edits = used.edits
      BY <1>3 DEF Announces, Aside, UiAside, Marks, Counted
    <2> QED BY <1>0, <2>1, <2>2, LedgerAside
  <1>4. CASE Stays
    <2>1. \A k, i : AnsweredAt(k, i)' <=> AnsweredAt(k, i)
      BY <1>4, AnswersMove DEF Stays
    <2>2. /\ Silent /\ UNCHANGED <<pendingOps, aPath, aItems, aBusy, aOp>> /\ asked' = asked
          /\ used'.ids = used.ids /\ Marks /\ rev' = rev /\ used'.edits = used.edits
      BY <1>4 DEF Stays, Aside, UiAside, Marks, Counted
    <2> QED BY <1>0, <2>1, <2>2, LedgerAside
  <1>5. CASE \E o \in Requests, x \in Signals : AsksFor(o, x)
    BY <1>5, LedgerAsks
  <1>6. CASE \E x \in Signals : Asides(x)
    BY <1>6, LedgerAsides
  <1>7. CASE \E s \in States : Sees(s)
    BY <1>7, LedgerSees
  <1>8. CASE \E f \in Answers, o \in pendingOps : Hears(f, o)
    BY <1>8, LedgerHears
  <1>9. CASE \E m \in InMail : Handles(m)
    BY <1>9, LedgerHandles
  <1>10. CASE \E m \in aOp, ok \in BOOLEAN : Loads(m, ok) \/ Saves(m, ok)
    BY <1>10, LedgerFinishes DEF Loads, Saves
  <1> QED BY <1>1, <1>2, <1>3, <1>4, <1>5, <1>6, <1>7, <1>8, <1>9, <1>10 DEF Step

-----------------------------------------------------------------------------
(* Reports.  The last state emitted is the actor's; an answer comes right  *)
(* after a state that tells how the request ended; and a UI that has seen  *)
(* all states, with no load to come, agrees with the actor.                *)

LoadAhead  == \E m \in aOp \cup InMail : m.type = "LoadConfig"
NoStates   == \A i \in DOMAIN out : IsAnswer(i)
Final(i)   == i \in DOMAIN out /\ IsState(i) /\ \A j \in DOMAIN out : j > i => IsAnswer(j)
LastReport == \A i : Final(i) => out[i].items = aItems /\ out[i].busy = aBusy /\ out[i].error = aError
EndBefore  == \A k \in DOMAIN out : IsAnswer(k) /\ k > 1 =>
                /\ IsState(k - 1) /\ ~out[k - 1].busy /\ out[k - 1].error = ~out[k].ok
                /\ \A o \in pendingOps : o.id = out[k].id => out[k - 1].path = o.path
UiSees     == ~LoadAhead /\ NoStates => uiError = aError /\ uiBusy = aBusy
Told       == LastReport /\ EndBefore /\ UiSees

(* The elements of out after a step. *)
LEMMA Positions ==
    ASSUME TypeOK
    PROVE  /\ Mute => /\ DOMAIN out' = DOMAIN out
                      /\ \A i : (IsState(i)' <=> IsState(i)) /\ (IsAnswer(i)' <=> IsAnswer(i)) /\ out'[i] = out[i]
           /\ \A s \in States : Emits(s) =>
                /\ DOMAIN out' = 1..(Len(out) + 1) /\ Len(out') = Len(out) + 1
                /\ \A i \in 1..Len(out) : /\ out'[i] = out[i]
                                          /\ (IsState(i)' <=> IsState(i)) /\ (IsAnswer(i)' <=> IsAnswer(i))
                /\ \A l : l = Len(out) + 1 => out'[l] = s /\ IsState(l)' /\ ~IsAnswer(l)'
           /\ \A s \in States, n \in 1..2, f \in Answers : Ends(s, n, f) =>
                /\ DOMAIN out' = 1..(Len(out) + n + 1) /\ Len(out') = Len(out) + n + 1
                /\ \A i \in 1..Len(out) : /\ out'[i] = out[i]
                                          /\ (IsState(i)' <=> IsState(i)) /\ (IsAnswer(i)' <=> IsAnswer(i))
                /\ \A i \in (Len(out) + 1)..(Len(out) + n) : out'[i] = s /\ IsState(i)' /\ ~IsAnswer(i)'
                /\ \A l : l = Len(out) + n + 1 => out'[l] = f /\ IsAnswer(l)' /\ ~IsState(l)'
           /\ Consumes =>
                /\ DOMAIN out' = 1..(Len(out) - 1) /\ Len(out) > 0
                /\ \A i \in 1..(Len(out) - 1) : /\ out'[i] = out[i + 1]
                                                /\ IsState(i)' <=> IsState(i + 1)
                                                /\ IsAnswer(i)' <=> IsAnswer(i + 1)
  <1>1. \A s \in States : s.kind = "state"
    BY DEF States
  <1>2. \A f \in Answers : f.kind = "finished"
    BY DEF Answers
  <1>3. Mute => /\ DOMAIN out' = DOMAIN out
                /\ \A i : (IsState(i)' <=> IsState(i)) /\ (IsAnswer(i)' <=> IsAnswer(i)) /\ out'[i] = out[i]
    BY DEF Mute, IsState, IsAnswer
  <1>4. ASSUME NEW s \in States, Emits(s)
        PROVE  /\ DOMAIN out' = 1..(Len(out) + 1) /\ Len(out') = Len(out) + 1
               /\ \A i \in 1..Len(out) : /\ out'[i] = out[i]
                                         /\ (IsState(i)' <=> IsState(i)) /\ (IsAnswer(i)' <=> IsAnswer(i))
               /\ \A l : l = Len(out) + 1 => out'[l] = s /\ IsState(l)' /\ ~IsAnswer(l)'
    BY <1>1, <1>4 DEF Emits, Shows, IsState, IsAnswer
  <1>5. ASSUME NEW s \in States, NEW n \in 1..2, NEW f \in Answers, Ends(s, n, f)
        PROVE  /\ DOMAIN out' = 1..(Len(out) + n + 1) /\ Len(out') = Len(out) + n + 1
               /\ \A i \in 1..Len(out) : /\ out'[i] = out[i]
                                         /\ (IsState(i)' <=> IsState(i)) /\ (IsAnswer(i)' <=> IsAnswer(i))
               /\ \A i \in (Len(out) + 1)..(Len(out) + n) : out'[i] = s /\ IsState(i)' /\ ~IsAnswer(i)'
               /\ \A l : l = Len(out) + n + 1 => out'[l] = f /\ IsAnswer(l)' /\ ~IsState(l)'
    BY <1>1, <1>2, <1>5 DEF Ends, Shows, IsState, IsAnswer
  <1>6. ASSUME Consumes
        PROVE  /\ DOMAIN out' = 1..(Len(out) - 1) /\ Len(out) > 0
               /\ \A i \in 1..(Len(out) - 1) : /\ out'[i] = out[i + 1]
                                               /\ IsState(i)' <=> IsState(i + 1)
                                               /\ IsAnswer(i)' <=> IsAnswer(i + 1)
    BY <1>6 DEF Consumes, Shows, IsState, IsAnswer
  <1> QED BY <1>3, <1>4, <1>5, <1>6

(* With no load to come, every load the UI waits for has been answered. *)
LEMMA LoadsAnswered ==
    ASSUME TypeOK, Ledger, NEW o \in PendingLoads, ~LoadAhead
    PROVE  \E k : AnsweredAt(k, o.id)
  <1>1. o \in pendingOps /\ o.kind = "load"
    BY DEF PendingLoads
  <1>2. ASSUME NEW m \in aOp \cup InMail, m.id = o.id PROVE m.type = "LoadConfig"
    <2>1. Work(m) /\ Asked(m)
      BY <1>1, <1>2 DEF Ledger, Remembered, OneOp
    <2>2. KindOf(m) = "load"
      BY <1>1, <1>2, <2>1 DEF Asked, Ledger, Unique
    <2> QED BY <2>2 DEF KindOf
  <1> QED BY <1>1, <1>2 DEF LoadAhead, Ledger, Placed, Mailed, Held

(* The request an answer is for. *)
LEMMA AnswersAsked ==
    ASSUME TypeOK, Ledger, NEW k \in DOMAIN out, IsAnswer(k)
    PROVE  \E o \in pendingOps : o.id = out[k].id /\ o.id <= used.ids /\ o.id \in Nat
  <1>1. AnsweredAt(k, out[k].id)
    BY DEF AnsweredAt
  <1> QED BY <1>1, Ids DEF Ledger, Remembered, Numbered

(* The last state on its way stays the actor's. *)
LEMMA NextLastReport == ASSUME TypeOK, Ledger, LastReport, Step PROVE LastReport'
  <1>0. Len(out) \in Nat /\ DOMAIN out = 1..Len(out) /\ \A i \in 1..Len(out) : IsState(i) <=> ~IsAnswer(i)
    BY OutTypes
  <1>1. ASSUME Mute, UNCHANGED <<aItems, aBusy, aError>> PROVE LastReport'
    <2>1. \A i : Final(i)' <=> Final(i)
      BY <1>1, Positions DEF Final
    <2> QED BY <1>1, <2>1, Positions DEF LastReport
  <1>2. ASSUME NEW s \in States, Emits(s), s.items = aItems', s.busy = aBusy', s.error = aError'
        PROVE  LastReport'
    <2>1. PICK l : l = Len(out) + 1
      OBVIOUS
    <2>2. out'[l] = s /\ ~IsAnswer(l)' /\ DOMAIN out' = 1..l /\ l \in Nat /\ l >= 1
      BY <1>0, <1>2, <2>1, Positions
    <2>3. ASSUME NEW i, Final(i)' PROVE i = l
      <3>1. i \in 1..l /\ ~(l > i)
        BY <2>2, <2>3 DEF Final
      <3> QED BY <2>2, <3>1
    <2> QED BY <1>2, <2>2, <2>3 DEF LastReport
  <1>3. ASSUME NEW s \in States, NEW n \in 1..2, NEW f \in Answers, Ends(s, n, f),
               s.items = aItems', s.busy = aBusy', s.error = aError'
        PROVE  LastReport'
    <2>1. PICK l : l = Len(out) + n + 1
      OBVIOUS
    <2>2. ~IsState(l)' /\ DOMAIN out' = 1..l /\ l \in Nat /\ l > 1
      BY <1>0, <1>3, <2>1, Positions
    <2>3. PICK e : e = l - 1
      OBVIOUS
    <2>4. out'[e] = s /\ ~IsAnswer(e)' /\ e \in 1..l
      <3>1. e \in (Len(out) + 1)..(Len(out) + n)
        BY <1>0, <2>1, <2>3
      <3> QED BY <1>3, <2>2, <2>3, <3>1, Positions
    <2>5. ASSUME NEW i, Final(i)' PROVE i = e
      <3>1. i \in 1..l /\ i # l /\ ~(e > i)
        BY <2>2, <2>4, <2>5 DEF Final
      <3> QED BY <2>2, <2>3, <3>1
    <2> QED BY <1>3, <2>4, <2>5 DEF LastReport
  <1>4. ASSUME Consumes, UNCHANGED <<aItems, aBusy, aError>> PROVE LastReport'
    <2> SUFFICES ASSUME NEW i, Final(i)'
                 PROVE  out'[i].items = aItems /\ out'[i].busy = aBusy /\ out'[i].error = aError
      BY <1>4 DEF LastReport
    <2>1. i \in 1..(Len(out) - 1) /\ IsState(i + 1) /\ out'[i] = out[i + 1]
          /\ \A j \in 1..(Len(out) - 1) : j > i => IsAnswer(j + 1)
      BY <1>4, Positions DEF Final
    <2>2. ASSUME NEW j \in DOMAIN out, j > i + 1 PROVE IsAnswer(j)
      <3>1. j - 1 \in 1..(Len(out) - 1) /\ j - 1 > i /\ (j - 1) + 1 = j
        BY <1>0, <2>1, <2>2
      <3> QED BY <2>1, <3>1
    <2>3. Final(i + 1)
      BY <1>0, <2>1, <2>2 DEF Final
    <2> QED BY <2>1, <2>3 DEF LastReport
  <1>5. CASE Edits
    BY <1>1, <1>5 DEF Edits, Aside
  <1>6. CASE Rests
    BY <1>1, <1>6 DEF Rests, Aside
  <1>7. CASE Announces
    BY <1>2, <1>7 DEF Announces, Aside
  <1>8. CASE Stays
    BY <1>1, <1>8 DEF Stays, Aside
  <1>9. CASE \E o \in Requests, x \in Signals : AsksFor(o, x)
    BY <1>1, <1>9 DEF AsksFor, Aside
  <1>10. CASE \E x \in Signals : Asides(x)
    BY <1>1, <1>10 DEF Asides, Aside
  <1>11. CASE \E s \in States : Sees(s)
    BY <1>4, <1>11 DEF Sees, Aside
  <1>12. CASE \E f \in Answers, o \in pendingOps : Hears(f, o)
    BY <1>4, <1>12 DEF Hears, Aside
  <1>13. ASSUME NEW m \in InMail, Handles(m) PROVE LastReport'
    <2>1. CASE \E s \in States : /\ Emits(s) /\ s.path = aPath' /\ s.items = aItems' /\ s.busy = aBusy'
                                 /\ s.error = aError'
      BY <1>2, <2>1
    <2>2. CASE ~Work(m) /\ Mute
      <3>1. m.type # "SaveConfig" /\ aBusy' = FALSE /\ aBusy = FALSE
        BY <1>13, <2>2 DEF Handles, Work, Ledger, OneOp
      <3>2. UNCHANGED <<aItems, aBusy, aError>>
        BY <1>13, <2>2, <3>1 DEF Handles, TypeOK
      <3> QED BY <1>1, <2>2, <3>2
    <2> QED BY <1>13, <2>1, <2>2 DEF Handles
  <1>14. ASSUME NEW m \in aOp, NEW ok \in BOOLEAN, Loads(m, ok) \/ Saves(m, ok) PROVE LastReport'
    <2>1. aBusy' = FALSE /\ aError' = ~ok
      BY <1>14 DEF Loads, Saves, Finishes
    <2>2. PICK s \in States, n \in 1..2, f \in Answers :
            s.items = aItems' /\ ~s.busy /\ s.error = ~ok /\ Ends(s, n, f)
      BY <1>14 DEF Loads, Saves, Finishes
    <2>3. s.busy = FALSE
      BY <2>2 DEF States
    <2> QED BY <1>3, <2>1, <2>2, <2>3
  <1> QED BY <1>5, <1>6, <1>7, <1>8, <1>9, <1>10, <1>11, <1>12, <1>13, <1>14 DEF Step
-----------------------------------------------------------------------------
(* Edits.  Unless a load was asked for after it, the newest edit is in     *)
(* AppState while it is dirty, in the save of its revision on its way, and *)
(* once that save has succeeded in a file which only saves of the same     *)
(* revision can overwrite.                                                 *)

SavedOk(i) == \E k : AnsweredAt(k, i) /\ out[k].ok
Newest(o)  == o.kind = "save" /\ o.rev = rev
Written    == ~dirty \/ \E o \in pendingOps : Newest(o) /\ SavedOk(o.id)
KeptInUi   == dirty => uiItems.ed = rev
KeptInMail == \A o \in pendingOps, m \in InMail \cup aOp : Newest(o) /\ m.id = o.id => m.items.ed = rev
Saw(n)     == (\E p \in Paths : md[p].ed = n) \/ \E t \in torn : t.ed = n
KeptInFile == Written => /\ Saw(rev)
                         /\ \A m \in InMail \cup aOp : m.type = "SaveConfig" => m.items.ed = rev
Kept       == asked # rev => KeptInUi /\ KeptInMail /\ KeptInFile

(* The good answers on their way, after a step. *)
LEMMA SavedMoves ==
    ASSUME TypeOK
    PROVE  /\ Mute \/ (\E s \in States : Emits(s)) => \A i : SavedOk(i)' => SavedOk(i)
           /\ Consumes => \A i : SavedOk(i)' => SavedOk(i)
           /\ \A s \in States, n \in 1..2, f \in Answers : Ends(s, n, f) =>
                \A i : SavedOk(i)' => SavedOk(i) \/ (i = f.id /\ f.ok)
  <1>0. Len(out) \in Nat /\ DOMAIN out = 1..Len(out)
    BY OutTypes
  <1>1. ASSUME Mute \/ \E s \in States : Emits(s), NEW i, NEW k, AnsweredAt(k, i)', out'[k].ok
        PROVE  SavedOk(i)
    <2>1. AnsweredAt(k, i)
      BY <1>1, AnswersMove
    <2>2. k \in 1..Len(out)
      BY <1>0, <2>1 DEF AnsweredAt
    <2>3. out'[k] = out[k]
      BY <1>1, <2>2, Positions
    <2> QED BY <1>1, <2>1, <2>3 DEF SavedOk
  <1>2. ASSUME Consumes, NEW i, NEW k, AnsweredAt(k, i)', out'[k].ok
        PROVE  SavedOk(i)
    <2>1. k \in Nat /\ k >= 1 /\ AnsweredAt(k + 1, i)
      BY <1>2, AnswersMove
    <2>2. k \in 1..(Len(out) - 1)
      BY <1>0, <2>1 DEF AnsweredAt
    <2>3. out'[k] = out[k + 1]
      BY <1>2, <2>2, Positions
    <2> QED BY <1>2, <2>1, <2>3 DEF SavedOk
  <1>3. ASSUME NEW s \in States, NEW n \in 1..2, NEW f \in Answers, Ends(s, n, f),
               NEW i, NEW k, AnsweredAt(k, i)', out'[k].ok
        PROVE  SavedOk(i) \/ (i = f.id /\ f.ok)
    <2>1. AnsweredAt(k, i) \/ (k = Len(out) + n + 1 /\ i = f.id)
      BY <1>3, AnswersMove
    <2>2. CASE AnsweredAt(k, i)
      <3>1. k \in 1..Len(out)
        BY <1>0, <2>2 DEF AnsweredAt
      <3>2. out'[k] = out[k]
        BY <1>3, <3>1, Positions
      <3> QED BY <1>3, <2>2, <3>2 DEF SavedOk
    <2>3. CASE k = Len(out) + n + 1 /\ i = f.id
      <3>1. out'[k] = f
        BY <1>3, <2>3, Positions
      <3> QED BY <1>3, <2>3, <3>1
    <2> QED BY <2>1, <2>2, <2>3
  <1> QED BY <1>1, <1>2, <1>3 DEF SavedOk

(* Steps that leave the edits, the requests and the files alone. *)
LEMMA KeptAside ==
    ASSUME TypeOK, Ledger, Kept, UNCHANGED <<pendingOps, rev, dirty, asked, md, torn>>,
           uiItems' = uiItems \/ ~dirty \/ asked = rev,
           \A i : SavedOk(i)' => SavedOk(i), \A m \in aOp' : m \in InMail \cup aOp,
           \A m \in InMail' : m \in InMail \/ (~Work(m) /\ \A o \in pendingOps : o.id # m.id)
    PROVE  Kept'
  <1> SUFFICES ASSUME asked # rev PROVE (KeptInUi /\ KeptInMail /\ KeptInFile)'
    BY DEF Kept
  <1>1. KeptInUi /\ KeptInMail /\ KeptInFile
    BY DEF Kept
  <1>2. KeptInUi'
    BY <1>1 DEF KeptInUi
  <1>3. \A o \in pendingOps : Newest(o)' <=> Newest(o)
    BY DEF Newest
  <1>4. Written' => Written
    BY <1>3 DEF Written
  <1>5. KeptInMail'
    BY <1>1, <1>3 DEF KeptInMail
  <1>6. KeptInFile'
    BY <1>1, <1>4 DEF KeptInFile, Saw, Work
  <1> QED BY <1>2, <1>5, <1>6

(* The newest edit is kept at first. *)
LEMMA InitKept == Init => Kept
  BY DEF Init, Kept

(* Every step keeps the newest edit, or a load was asked for after it. *)
LEMMA NextKept == ASSUME TypeOK, Ledger, Kept, Step PROVE Kept'
  <1>1. CASE Edits
    <2> SUFFICES ASSUME asked # rev + 1 PROVE (KeptInUi /\ KeptInMail /\ KeptInFile)'
      BY <1>1 DEF Kept, Edits
    <2>1. /\ rev' = rev + 1 /\ dirty' /\ pendingOps' = pendingOps /\ uiItems' = [uiItems EXCEPT !.ed = rev + 1]
          /\ rev \in Nat /\ uiItems \in Lists
      BY <1>1, Ids DEF Edits, Ledger, Numbered
    <2>2. KeptInUi'
      <3>1. [uiItems EXCEPT !.ed = rev + 1].ed = rev + 1
        BY <2>1 DEF Lists
      <3> QED BY <2>1, <3>1 DEF KeptInUi
    <2>3. \A o \in pendingOps : ~Newest(o)'
      <3>1. \A o \in pendingOps : o.rev <= rev /\ o.rev \in Nat
        BY Ids DEF Ledger, Numbered
      <3> QED BY <2>1, <3>1 DEF Newest
    <2> QED BY <2>1, <2>2, <2>3 DEF KeptInMail, KeptInFile, Written
  <1>2. CASE Rests \/ Stays
    <2>1. /\ UNCHANGED <<pendingOps, rev, dirty, asked, md, torn, uiItems, aOp>> /\ InMail' = InMail /\ Mute
      BY <1>2 DEF Rests, Stays, Counted, Silent, UiAside, Aside
    <2> QED BY <2>1, SavedMoves, KeptAside
  <1>3. CASE Announces
    <2>1. /\ UNCHANGED <<pendingOps, rev, dirty, asked, md, torn, uiItems, aOp>> /\ InMail' = InMail
          /\ \E s \in States : Emits(s)
      BY <1>3 DEF Announces, Counted, Silent, UiAside, Aside
    <2> QED BY <2>1, SavedMoves, KeptAside
  <1>4. ASSUME NEW o \in Requests, NEW x \in Signals, AsksFor(o, x) PROVE Kept'
    <2>1. /\ pendingOps' = pendingOps \cup {o} /\ InMail' = InMail \cup {x} /\ aOp' = aOp /\ Mute
          /\ UNCHANGED <<uiItems, dirty, rev, md, torn>> /\ o.rev = rev /\ x.items = uiItems /\ x.id = o.id
          /\ o.id = used.ids + 1
      BY <1>4 DEF AsksFor, Aside, Sends
    <2>2. CASE o.kind = "load"
      <3>1. asked' = rev'
        BY <1>4, <2>1, <2>2 DEF AsksFor, Ledger, Numbered
      <3> QED BY <3>1 DEF Kept
    <2>3. CASE o.kind = "save"
      <3> SUFFICES ASSUME asked # rev PROVE (KeptInUi /\ KeptInMail /\ KeptInFile)'
        BY <1>4, <2>1, <2>3 DEF Kept, AsksFor
      <3>1. KeptInUi /\ KeptInMail /\ KeptInFile /\ dirty /\ uiItems.ed = rev
        BY <1>4, <2>3 DEF Kept, AsksFor, KeptInUi
      <3>2. \A q \in pendingOps : q.id # o.id
        BY <2>1, Ids DEF Ledger, Numbered
      <3>3. \A m \in InMail \cup aOp : m.id # o.id
        <4>1. \A m \in InMail : m.id # o.id
          BY <2>1, Ids DEF Ledger, Numbered
        <4>2. \A m \in aOp : \E q \in pendingOps : q.id = m.id
          BY DEF Ledger, Remembered, Asked
        <4> QED BY <3>2, <4>1, <4>2
      <3>4. ~SavedOk(o.id)
        BY <3>2 DEF Ledger, Remembered, SavedOk
      <3>5. \A i : SavedOk(i)' => SavedOk(i)
        BY <2>1, SavedMoves
      <3>6. \A q : Newest(q)' <=> Newest(q)
        BY <2>1 DEF Newest
      <3>7. Written' => Written
        BY <2>1, <3>4, <3>5, <3>6 DEF Written
      <3>8. KeptInMail'
        <4> SUFFICES ASSUME NEW q \in pendingOps', NEW m \in InMail' \cup aOp', Newest(q), m.id = q.id
                     PROVE  m.items.ed = rev
          BY <2>1, <3>6 DEF KeptInMail
        <4>1. CASE m = x
          BY <2>1, <3>1, <4>1
        <4>2. CASE m # x
          BY <2>1, <3>1, <3>3, <4>2 DEF KeptInMail
        <4> QED BY <4>1, <4>2
      <3> QED BY <2>1, <3>1, <3>7, <3>8 DEF KeptInUi, KeptInFile, Saw
    <2> QED BY <2>2, <2>3 DEF Requests
  <1>5. ASSUME NEW x \in Signals, Asides(x) PROVE Kept'
    <2>1. /\ UNCHANGED <<pendingOps, rev, dirty, asked, md, torn, uiItems, aOp>> /\ InMail' = InMail \cup {x} /\ Mute
          /\ ~Work(x) /\ x.id = used.ids + 1
      BY <1>5 DEF Asides, Sends, UiAside, Aside
    <2>2. \A o \in pendingOps : o.id # x.id
      BY <2>1, Ids DEF Ledger, Numbered
    <2> QED BY <2>1, <2>2, SavedMoves, KeptAside
  <1>6. ASSUME NEW s \in States, Sees(s) PROVE Kept'
    <2>1. /\ UNCHANGED <<pendingOps, rev, dirty, asked, md, torn, aOp>> /\ InMail' = InMail /\ Consumes
          /\ uiItems' = uiItems \/ ~dirty \/ ReloadingItems(s)
      BY <1>6 DEF Sees, Silent, Counted, Aside
    <2>2. ReloadingItems(s) => asked = rev
      <3>1. \A o \in pendingOps : o.kind = "load" => o.rev <= asked /\ asked <= rev /\ o.rev \in Nat
        BY Ids DEF Ledger, Numbered
      <3> QED BY <3>1, Ids DEF ReloadingItems, PendingLoads
    <2> QED BY <2>1, <2>2, SavedMoves, KeptAside
  <1>7. ASSUME NEW f \in Answers, NEW o \in pendingOps, Hears(f, o) PROVE Kept'
    <2>1. /\ UNCHANGED <<uiItems, rev, asked, md, torn, aOp>> /\ InMail' = InMail /\ Consumes
          /\ pendingOps' = pendingOps \ {o} /\ o.id = f.id /\ f = out[1] /\ f \in Answers
          /\ dirty' = (dirty /\ ~(f.ok /\ Settles(o)))
      BY <1>7 DEF Hears, Silent, Counted, Aside
    <2> SUFFICES ASSUME asked # rev PROVE (KeptInUi /\ KeptInMail /\ KeptInFile)'
      BY <2>1 DEF Kept
    <2>2. KeptInUi /\ KeptInMail /\ KeptInFile
      BY <2>1 DEF Kept
    <2>3. \A q : Newest(q)' <=> Newest(q)
      BY <2>1 DEF Newest
    <2>4. f.ok => SavedOk(o.id)
      <3>1. 1 \in DOMAIN out /\ out[1].kind = "finished"
        BY <2>1 DEF Consumes, Shows, Answers
      <3> QED BY <2>1, <3>1 DEF SavedOk, AnsweredAt, IsAnswer
    <2>5. Settles(o) => Newest(o)
      <3>1. o.kind = "load" => o.rev <= asked /\ asked <= rev /\ o.rev \in Nat
        BY Ids DEF Ledger, Numbered
      <3> QED BY <3>1, Ids DEF Settles, Newest
    <2>6. Written' => Written
      <3>1. ~dirty' => Written
        BY <2>1, <2>4, <2>5 DEF Written
      <3>2. ASSUME NEW q \in pendingOps', Newest(q)', SavedOk(q.id)' PROVE Written
        BY <2>1, <2>3, <3>2, SavedMoves DEF Written
      <3> QED BY <3>1, <3>2 DEF Written
    <2> QED BY <2>1, <2>2, <2>3, <2>6 DEF KeptInUi, KeptInMail, KeptInFile, Saw
  <1>8. ASSUME NEW m \in InMail, Handles(m) PROVE Kept'
    <2>1. /\ UNCHANGED <<pendingOps, rev, dirty, asked, md, torn, uiItems>> /\ InMail' \subseteq InMail
          /\ aOp' \subseteq {m} /\ (Mute \/ \E s \in States : Emits(s))
      BY <1>8 DEF Handles, Takes, Counted, UiAside
    <2> QED BY <2>1, SavedMoves, KeptAside
  <1>9. ASSUME NEW m \in aOp, NEW ok \in BOOLEAN, Loads(m, ok) PROVE Kept'
    <2>1. /\ UNCHANGED <<pendingOps, rev, dirty, asked, md, torn, uiItems>> /\ InMail' = InMail
          /\ aOp' \subseteq aOp
      BY <1>9 DEF Loads, Finishes, Silent, Counted, UiAside
    <2>2. PICK s \in States, n \in 1..2, f \in Answers : f.id = m.id /\ f.ok = ok /\ Ends(s, n, f)
      BY <1>9 DEF Loads, Finishes
    <2>3. \A i : SavedOk(i)' => SavedOk(i) \/ i = m.id
      BY <2>2, SavedMoves
    <2> SUFFICES ASSUME asked # rev PROVE (KeptInUi /\ KeptInMail /\ KeptInFile)'
      BY <2>1 DEF Kept
    <2>4. KeptInUi /\ KeptInMail /\ KeptInFile
      BY DEF Kept
    <2>5. \A o \in pendingOps : o.id = m.id => ~Newest(o)
      <3>1. KindOf(m) = "load"
        BY <1>9 DEF Loads, KindOf
      <3>2. \A o \in pendingOps : o.id = m.id => o.kind = "load"
        BY <3>1 DEF Ledger, Remembered, Asked, Unique
      <3> QED BY <3>2 DEF Newest
    <2>6. \A o : Newest(o)' <=> Newest(o)
      BY <2>1 DEF Newest
    <2>7. Written' => Written
      BY <2>1, <2>3, <2>5, <2>6 DEF Written
    <2> QED BY <2>1, <2>4, <2>6, <2>7 DEF KeptInUi, KeptInMail, KeptInFile, Saw
  <1>10. ASSUME NEW m \in aOp, NEW ok \in BOOLEAN, Saves(m, ok) PROVE Kept'
    <2>1. /\ UNCHANGED <<pendingOps, rev, dirty, asked, uiItems>> /\ InMail' = InMail
          /\ aOp' = {} /\ m.type = "SaveConfig" /\ \E cut \in BOOLEAN : WritesFile(m, ok, cut)
      BY <1>10 DEF Saves, Finishes, Silent, Counted, UiAside, Ledger, OneOp
    <2>2. PICK s \in States, l \in 1..2, f \in Answers : f.id = m.id /\ f.ok = ok /\ Ends(s, l, f)
      BY <1>10 DEF Saves, Finishes
    <2>3. \A i : SavedOk(i)' => SavedOk(i) \/ (i = m.id /\ ok)
      BY <2>2, SavedMoves
    <2> SUFFICES ASSUME asked # rev PROVE (KeptInUi /\ KeptInMail /\ KeptInFile)'
      BY <2>1 DEF Kept
    <2>4. KeptInUi /\ KeptInMail /\ KeptInFile
      BY DEF Kept
    <2>5. \A o : Newest(o)' <=> Newest(o)
      BY <2>1 DEF Newest
    <2>6. PICK o \in pendingOps : o.id = m.id /\ o.kind = "save"
      BY <2>1 DEF Ledger, Remembered, Asked, KindOf
    <2>7. \A q \in pendingOps : q.id = m.id => q = o
      BY <2>6 DEF Ledger, Unique
    <2>8. KeptInFile'
      <3> SUFFICES ASSUME Written'
                   PROVE  /\ Saw(rev)'
                          /\ \A n \in InMail : n.type = "SaveConfig" => n.items.ed = rev
        BY <2>1 DEF KeptInFile
      <3>1. m.path \in Paths /\ md \in [Paths -> Lists]
        BY Ids DEF TypeOK
      <3>2. CASE Written
        <4>1. Saw(rev) /\ m.items.ed = rev
          BY <2>1, <2>4, <3>2 DEF KeptInFile
        <4>2. Saw(rev)'
          <5>1. CASE \E t \in torn : t.ed = rev
            BY <2>1, <5>1 DEF Saw, WritesFile
          <5>2. ASSUME NEW p \in Paths, md[p].ed = rev, md'[p] # md[p] PROVE Saw(rev)'
            <6>1. p = m.path /\ torn \subseteq torn'
              BY <2>1, <3>1, <5>2 DEF WritesFile
            <6>2. CASE ok
              BY <2>1, <3>1, <4>1, <6>1, <6>2 DEF WritesFile, Saw
            <6>3. CASE ~ok
              <7>1. [path |-> m.path, ed |-> md[m.path].ed] \in torn'
                BY <2>1, <5>2, <6>3 DEF WritesFile
              <7>2. [path |-> m.path, ed |-> md[m.path].ed].ed = rev
                BY <5>2, <6>1
              <7> QED BY <2>1, <7>1, <7>2 DEF Saw
            <6> QED BY <6>2, <6>3
          <5>3. ASSUME NEW p \in Paths, md[p].ed = rev, md'[p] = md[p] PROVE Saw(rev)'
            BY <2>1, <5>3 DEF Saw
          <5> QED BY <4>1, <5>1, <5>2, <5>3 DEF Saw
        <4> QED BY <2>4, <3>2, <4>2 DEF KeptInFile
      <3>3. CASE ~Written
        <4>1. ok /\ Newest(o)
          BY <2>1, <2>3, <2>5, <2>7, <3>3 DEF Written
        <4>2. m.items.ed = rev
          BY <2>4, <2>6, <4>1 DEF KeptInMail
        <4>3. Saw(rev)'
          <5>1. md'[m.path].ed = rev
            BY <2>1, <3>1, <4>1, <4>2 DEF WritesFile
          <5> QED BY <2>1, <3>1, <5>1 DEF Saw
        <4>4. ASSUME NEW n \in InMail, n.type = "SaveConfig" PROVE n.items.ed = rev
          <5>1. PICK q \in pendingOps : q.id = n.id /\ q.kind = "save"
            <6>1. Work(n) /\ KindOf(n) = "save"
              BY <4>4 DEF Work, KindOf
            <6>2. Asked(n)
              BY <6>1 DEF Ledger, Remembered
            <6> QED BY <6>1, <6>2 DEF Asked
          <5>2. Mailed(q.id) /\ Held(o.id)
            BY <2>6, <5>1 DEF Mailed, Held
          <5>3. ~Mailed(o.id)
            BY <5>2 DEF Ledger, Apart
          <5>4. ~(q.id < o.id) /\ q.id # o.id
            BY <2>6, <5>1, <5>2, <5>3 DEF Ledger, InTurn, Alike
          <5>5. o.rev <= q.rev
            BY <5>4, Ids DEF Ledger, Unique
          <5>6. q.rev = rev
            BY <4>1, <5>5, Ids DEF Newest, Ledger, Numbered
          <5> QED BY <2>4, <5>1, <5>6 DEF KeptInMail, Newest
        <4> QED BY <3>1, <4>3, <4>4
      <3> QED BY <3>2, <3>3
    <2> QED BY <2>1, <2>4, <2>5, <2>8 DEF KeptInUi, KeptInMail
  <1> QED BY <1>1, <1>2, <1>3, <1>4, <1>5, <1>6, <1>7, <1>8, <1>9, <1>10 DEF Step

(* What Kept says of dirty edits and of the saved ones covers EditsAreKept. *)
LEMMA KeptEdits == ASSUME TypeOK, Ledger, Kept PROVE EditsAreKept
  BY DEF Kept, KeptInUi, KeptInFile, Saw, Written, EditsAreKept, Ledger, Numbered

(* A step from a state with a ledger is one of the steps above. *)
LEMMA NextStep == ASSUME TypeOK, Ledger, [Next]_vars PROVE TypeOK' /\ Ledger' /\ Step
  <1>1. TypeOK' /\ Step
    BY NextTypes, Steps DEF Ledger, Numbered
  <1> QED BY <1>1, NextLedger

(* An edit is shown or saved unless a load was asked for after it or a     *)
(* failing save cut its file short: however saves and background emissions *)
(* interleave with it (_onUiState, _onOpFinished, save_config).            *)
THEOREM EditsStay == Spec => []EditsAreKept
  <1> DEFINE I == TypeOK /\ Ledger /\ Kept
  <1>1. Init => I
    BY InitTypes, InitLedger, InitKept
  <1>2. I /\ [Next]_vars => I'
    BY NextStep, NextKept
  <1>3. I => EditsAreKept
    BY KeptEdits
  <1> QED BY <1>1, <1>2, <1>3, PTL DEF Spec

(* Before each answer stays the state that tells how its request ended. *)
LEMMA NextEndBefore == ASSUME TypeOK, Ledger, EndBefore, Step PROVE EndBefore'
  <1>0. Len(out) \in Nat /\ DOMAIN out = 1..Len(out)
    BY OutTypes
  <1>1. ASSUME Mute, \A o \in pendingOps' : \A k : AnsweredAt(k, o.id) => o \in pendingOps PROVE EndBefore'
    <2> SUFFICES ASSUME NEW k \in DOMAIN out, IsAnswer(k), k > 1
                 PROVE  /\ IsState(k - 1)' /\ ~out'[k - 1].busy /\ out'[k - 1].error = ~out'[k].ok
                        /\ \A o \in pendingOps' : o.id = out'[k].id => out'[k - 1].path = o.path
      BY <1>1, Positions DEF EndBefore
    <2>1. PICK e : e = k - 1
      OBVIOUS
    <2>2. IsState(e) /\ IsState(e)' /\ out'[e] = out[e] /\ out'[k] = out[k]
      BY <1>1, <2>1, Positions DEF EndBefore
    <2>3. \A o \in pendingOps' : o.id = out[k].id => o \in pendingOps
      BY <1>1 DEF AnsweredAt
    <2> QED BY <2>1, <2>2, <2>3 DEF EndBefore
  <1>2. ASSUME NEW s \in States, Emits(s), pendingOps' = pendingOps PROVE EndBefore'
    <2>1. PICK l : l = Len(out) + 1
      OBVIOUS
    <2>2. ~IsAnswer(l)' /\ DOMAIN out' = 1..l
      BY <1>2, <2>1, Positions
    <2> SUFFICES ASSUME NEW k \in DOMAIN out', IsAnswer(k)', k > 1
                 PROVE  /\ IsState(k - 1)' /\ ~out'[k - 1].busy /\ out'[k - 1].error = ~out'[k].ok
                        /\ \A o \in pendingOps : o.id = out'[k].id => out'[k - 1].path = o.path
      BY <1>2 DEF EndBefore
    <2>3. PICK e : e = k - 1
      OBVIOUS
    <2>4. k \in 1..Len(out) /\ e \in 1..Len(out)
      BY <1>0, <2>1, <2>2, <2>3
    <2>5. /\ out'[k] = out[k] /\ out'[e] = out[e] /\ IsAnswer(k)
          /\ (IsState(e)' <=> IsState(e))
      BY <1>2, <2>4, Positions
    <2> QED BY <1>0, <2>3, <2>4, <2>5 DEF EndBefore
  <1>3. ASSUME NEW m \in aOp, NEW ok \in BOOLEAN, Finishes(m, ok) PROVE EndBefore'
    <2>1. PICK s \in States, n \in 1..2, f \in Answers :
            /\ s.path = aPath /\ ~s.busy /\ s.error = ~ok /\ f.id = m.id /\ f.ok = ok /\ Ends(s, n, f)
      BY <1>3 DEF Finishes
    <2>2. pendingOps' = pendingOps
      BY <1>3 DEF Finishes, UiAside
    <2>3. PICK l : l = Len(out) + n + 1
      OBVIOUS
    <2>4. /\ DOMAIN out' = 1..l /\ l \in Nat /\ out'[l] = f
          /\ \A i \in (Len(out) + 1)..(Len(out) + n) : out'[i] = s /\ IsState(i)' /\ ~IsAnswer(i)'
      BY <1>0, <2>1, <2>3, Positions
    <2> SUFFICES ASSUME NEW k \in DOMAIN out', IsAnswer(k)', k > 1
                 PROVE  /\ IsState(k - 1)' /\ ~out'[k - 1].busy /\ out'[k - 1].error = ~out'[k].ok
                        /\ \A o \in pendingOps : o.id = out'[k].id => out'[k - 1].path = o.path
      BY <2>2 DEF EndBefore
    <2>5. PICK e : e = k - 1
      OBVIOUS
    <2>6. CASE k = l
      <3>1. e \in (Len(out) + 1)..(Len(out) + n)
        BY <1>0, <2>3, <2>5, <2>6
      <3>2. out'[e] = s /\ IsState(e)' /\ out'[k] = f
        BY <2>4, <2>6, <3>1
      <3>3. \A o \in pendingOps : o.id = m.id => o.path = aPath
        <4>1. Asked(m) /\ m.path = aPath
          BY DEF Ledger, Remembered, OneOp
        <4> QED BY <4>1 DEF Asked, Ledger, Unique
      <3> QED BY <2>1, <2>5, <3>2, <3>3
    <2>7. CASE k # l
      <3>1. k \in 1..Len(out) /\ e \in 1..Len(out)
        BY <1>0, <2>3, <2>4, <2>5, <2>7
      <3>2. /\ out'[k] = out[k] /\ out'[e] = out[e] /\ IsAnswer(k)
            /\ (IsState(e)' <=> IsState(e))
        BY <2>1, <3>1, Positions
      <3> QED BY <1>0, <2>5, <3>1, <3>2 DEF EndBefore
    <2> QED BY <2>6, <2>7
  <1>4. ASSUME Consumes, pendingOps' \subseteq pendingOps PROVE EndBefore'
    <2> SUFFICES ASSUME NEW k \in DOMAIN out', IsAnswer(k)', k > 1
                 PROVE  /\ IsState(k - 1)' /\ ~out'[k - 1].busy /\ out'[k - 1].error = ~out'[k].ok
                        /\ \A o \in pendingOps' : o.id = out'[k].id => out'[k - 1].path = o.path
      BY DEF EndBefore
    <2>1. PICK e : e = k - 1
      OBVIOUS
    <2>2. k \in 1..(Len(out) - 1) /\ e \in 1..(Len(out) - 1) /\ e + 1 = k /\ k \in Nat
      <3>1. DOMAIN out' = 1..(Len(out) - 1)
        BY <1>4, Positions
      <3> QED BY <1>0, <2>1, <3>1
    <2>3. /\ out'[k] = out[k + 1] /\ out'[e] = out[k] /\ IsAnswer(k + 1)
          /\ (IsState(e)' <=> IsState(k))
      <3>1. /\ out'[k] = out[k + 1] /\ out'[e] = out[e + 1] /\ IsAnswer(k + 1)
            /\ (IsState(e)' <=> IsState(e + 1))
        BY <1>4, <2>2, Positions
      <3> QED BY <2>2, <3>1
    <2>4. k + 1 \in DOMAIN out /\ k + 1 > 1 /\ (k + 1) - 1 = k
      BY <1>0, <2>2
    <2>5. /\ IsState(k) /\ ~out[k].busy /\ out[k].error = ~out[k + 1].ok
          /\ \A o \in pendingOps : o.id = out[k + 1].id => out[k].path = o.path
      <3>1. PICK d : d = k + 1
        OBVIOUS
      <3>2. d \in DOMAIN out /\ IsAnswer(d) /\ d > 1 /\ d - 1 = k
        BY <2>3, <2>4, <3>1
      <3> QED BY <3>1, <3>2 DEF EndBefore
    <2> QED BY <1>4, <2>1, <2>3, <2>5
  <1>5. CASE Edits \/ Rests \/ Stays
    BY <1>1, <1>5 DEF Edits, Rests, Stays, UiAside
  <1>6. CASE Announces
    BY <1>2, <1>6 DEF Announces, UiAside
  <1>7. ASSUME NEW o \in Requests, NEW x \in Signals, AsksFor(o, x) PROVE EndBefore'
    <2>1. \A q \in pendingOps : q.id # o.id
      BY <1>7, Ids DEF AsksFor, Ledger, Numbered
    <2>2. \A k : ~AnsweredAt(k, o.id)
      BY <2>1 DEF Ledger, Remembered
    <2> QED BY <1>1, <1>7, <2>2 DEF AsksFor
  <1>8. CASE \E x \in Signals : Asides(x)
    BY <1>1, <1>8 DEF Asides, UiAside
  <1>9. CASE \E s \in States : Sees(s)
    BY <1>4, <1>9 DEF Sees
  <1>10. CASE \E f \in Answers, o \in pendingOps : Hears(f, o)
    BY <1>4, <1>10 DEF Hears
  <1>11. CASE \E m \in InMail : Handles(m)
    BY <1>1, <1>2, <1>11 DEF Handles, UiAside
  <1>12. CASE \E m \in aOp, ok \in BOOLEAN : Loads(m, ok) \/ Saves(m, ok)
    BY <1>3, <1>12 DEF Loads, Saves
  <1> QED BY <1>5, <1>6, <1>7, <1>8, <1>9, <1>10, <1>11, <1>12 DEF Step

(* The answer to a load is not the first thing on its way to the UI while  *)
(* a state of another file is.                                             *)
LEMMA AnswerFollows ==
    ASSUME TypeOK, Ledger, EndBefore, NEW o \in pendingOps, NEW k, AnsweredAt(k, o.id), NEW s \in States, s = out[1]
    PROVE  /\ k \in Nat /\ k > 1 /\ k \in 1..Len(out) /\ k - 1 \in 1..Len(out)
           /\ IsState(k - 1) /\ ~out[k - 1].busy /\ out[k - 1].path = o.path /\ out[k - 1].error = ~out[k].ok
  <1>1. k \in 1..Len(out) /\ IsAnswer(k) /\ Len(out) \in Nat /\ out[k].id = o.id
    BY OutTypes DEF AnsweredAt
  <1>2. k # 1
    BY <1>1 DEF States, IsAnswer
  <1>3. k \in Nat /\ k > 1 /\ k - 1 \in 1..Len(out)
    BY <1>1, <1>2
  <1>4. PICK e : e = k - 1
    OBVIOUS
  <1>5. IsState(e) /\ ~out[e].busy /\ out[e].path = o.path /\ out[e].error = ~out[k].ok
    BY <1>1, <1>3, <1>4, OutTypes DEF EndBefore
  <1> QED BY <1>1, <1>3, <1>4, <1>5

(* The state that is seen last, with no load to come, is the actor's, and  *)
(* is not ignored.                                                         *)
LEMMA LastSeen ==
    ASSUME TypeOK, Ledger, Told, NEW s \in States, Sees(s), ~LoadAhead, NoStates'
    PROVE  /\ \A i \in DOMAIN out : i > 1 => IsAnswer(i)
           /\ s.items = aItems /\ s.busy = aBusy /\ s.error = aError
           /\ ~Foreign(s)
  <1>0. Len(out) \in Nat /\ DOMAIN out = 1..Len(out) /\ \A i \in 1..Len(out) : IsState(i) <=> ~IsAnswer(i)
    BY OutTypes
  <1>1. /\ Consumes /\ s = out[1]
    BY DEF Sees
  <1>2. \A i \in DOMAIN out : i > 1 => IsAnswer(i)
    <2> SUFFICES ASSUME NEW i \in DOMAIN out, i > 1 PROVE IsAnswer(i)
      OBVIOUS
    <2>1. PICK e : e = i - 1
      OBVIOUS
    <2>2. e \in 1..(Len(out) - 1) /\ e + 1 = i
      BY <1>0, <2>1
    <2>3. e \in DOMAIN out' /\ (IsAnswer(e)' <=> IsAnswer(e + 1))
      BY <1>1, <2>2, Positions
    <2> QED BY <2>2, <2>3 DEF NoStates
  <1>3. Final(1)
    <2>1. 1 \in DOMAIN out /\ IsState(1)
      <3>1. s.kind = "state" /\ Len(out) > 0
        BY <1>1 DEF States, Consumes
      <3> QED BY <1>0, <1>1, <3>1 DEF IsState
    <2> QED BY <1>2, <2>1 DEF Final
  <1>4. s.items = aItems /\ s.busy = aBusy /\ s.error = aError
    BY <1>1, <1>3 DEF Told, LastReport
  <1>5. ~Foreign(s)
    <2> SUFFICES ASSUME NEW o \in LatestLoad, o.path # s.path PROVE FALSE
      BY DEF Foreign
    <2>1. o \in PendingLoads /\ o \in pendingOps
      BY DEF LatestLoad, PendingLoads
    <2>2. PICK k : AnsweredAt(k, o.id)
      BY <2>1, LoadsAnswered
    <2>3. k \in Nat /\ k > 1 /\ k - 1 \in 1..Len(out) /\ IsState(k - 1) /\ out[k - 1].path = o.path
      BY <1>1, <2>1, <2>2, AnswerFollows DEF Told
    <2>4. ~(k - 1 > 1)
      BY <1>0, <1>2, <2>3
    <2>5. k - 1 = 1
      BY <2>3, <2>4
    <2> QED BY <1>1, <2>3, <2>5
  <1> QED BY <1>2, <1>4, <1>5

(* A UI that has seen all states agrees with the actor. *)
LEMMA NextUiSees == ASSUME TypeOK, Ledger, Told, Step PROVE UiSees'
  <1>0. Len(out) \in Nat /\ DOMAIN out = 1..Len(out) /\ \A i \in 1..Len(out) : IsState(i) <=> ~IsAnswer(i)
    BY OutTypes
  <1>1. ASSUME Mute, LoadAhead => LoadAhead', UNCHANGED <<uiError, aError, uiBusy, aBusy>> PROVE UiSees'
    BY <1>1, Positions DEF Told, UiSees, NoStates
  <1>2. ASSUME NEW s \in States, Emits(s) PROVE UiSees'
    <2>1. PICK l : l = Len(out) + 1
      OBVIOUS
    <2>2. ~IsAnswer(l)' /\ l \in DOMAIN out'
      BY <1>0, <1>2, <2>1, Positions
    <2> QED BY <2>2 DEF UiSees, NoStates
  <1>3. ASSUME NEW s \in States, NEW n \in 1..2, NEW f \in Answers, Ends(s, n, f) PROVE UiSees'
    <2>1. PICK l : l = Len(out) + 1
      OBVIOUS
    <2>2. l \in (Len(out) + 1)..(Len(out) + n) /\ l \in 1..(Len(out) + n + 1)
      BY <1>0, <2>1
    <2>3. ~IsAnswer(l)' /\ l \in DOMAIN out'
      BY <1>3, <2>2, Positions
    <2> QED BY <2>3 DEF UiSees, NoStates
  <1>4. CASE Edits \/ Rests \/ Stays
    BY <1>1, <1>4 DEF Edits, Rests, Stays, UiAside, Aside, Silent, LoadAhead
  <1>5. CASE Announces
    BY <1>2, <1>5 DEF Announces
  <1>6. CASE \E o \in Requests, x \in Signals : AsksFor(o, x)
    BY <1>1, <1>6 DEF AsksFor, Sends, Aside, LoadAhead
  <1>7. CASE \E x \in Signals : Asides(x)
    BY <1>1, <1>7 DEF Asides, Sends, Aside, UiAside, LoadAhead
  <1>8. ASSUME NEW s \in States, Sees(s) PROVE UiSees'
    <2>1. /\ Consumes /\ s = out[1] /\ aOp' = aOp /\ InMail' = InMail /\ aError' = aError /\ aBusy' = aBusy
      BY <1>8 DEF Sees, Aside, Silent
    <2> SUFFICES ASSUME ~LoadAhead, NoStates' PROVE uiError' = aError /\ uiBusy' = aBusy
      BY <2>1 DEF UiSees, LoadAhead
    <2>4. s.busy = aBusy /\ s.error = aError /\ ~Foreign(s)
      BY <1>8, LastSeen
    <2> QED BY <1>8, <2>4 DEF Sees
  <1>9. ASSUME NEW f \in Answers, NEW o \in pendingOps, Hears(f, o) PROVE UiSees'
    <2>1. /\ Consumes /\ f = out[1] /\ aOp' = aOp /\ InMail' = InMail
          /\ UNCHANGED <<uiError, aError, uiBusy, aBusy>>
      BY <1>9 DEF Hears, Aside, Silent
    <2> SUFFICES ASSUME NoStates' PROVE NoStates
      BY <2>1 DEF UiSees, LoadAhead, Told
    <2> SUFFICES ASSUME NEW i \in DOMAIN out PROVE IsAnswer(i)
      BY DEF NoStates
    <2>2. CASE i = 1
      BY <2>1, <2>2 DEF Answers, IsAnswer
    <2>3. CASE i # 1
      <3>1. PICK e : e = i - 1
        OBVIOUS
      <3>2. e \in 1..(Len(out) - 1) /\ e + 1 = i
        BY <1>0, <2>3, <3>1
      <3>3. e \in DOMAIN out' /\ (IsAnswer(e)' <=> IsAnswer(e + 1))
        BY <2>1, <3>2, Positions
      <3> QED BY <3>2, <3>3 DEF NoStates
    <2> QED BY <2>2, <2>3
  <1>10. ASSUME NEW m \in InMail, Handles(m) PROVE UiSees'
    <2>1. CASE \E s \in States : Emits(s)
      BY <1>2, <2>1
    <2>2. CASE ~Work(m) /\ Mute
      <3>1. /\ aBusy' = FALSE /\ aBusy = FALSE /\ aError' = aError /\ InMail' = InMail \ {m} /\ aOp = {}
            /\ uiError' = uiError /\ uiBusy' = uiBusy
        BY <1>10, <2>2 DEF Handles, Takes, UiAside, Work, Ledger, OneOp, TypeOK
      <3>2. m.type # "LoadConfig"
        BY <2>2 DEF Work
      <3>3. LoadAhead => LoadAhead'
        BY <3>1, <3>2 DEF LoadAhead
      <3> QED BY <1>1, <2>2, <3>1, <3>3
    <2> QED BY <1>10, <2>1, <2>2 DEF Handles
  <1>11. CASE \E m \in aOp, ok \in BOOLEAN : Loads(m, ok) \/ Saves(m, ok)
    BY <1>3, <1>11 DEF Loads, Saves, Finishes
  <1> QED BY <1>4, <1>5, <1>6, <1>7, <1>8, <1>9, <1>10, <1>11 DEF Step

(* At first the UI agrees with the actor. *)
LEMMA InitTold == Init => Told
  <1> SUFFICES ASSUME Init PROVE Told
    OBVIOUS
  <1>1. DOMAIN out = {} /\ uiError = aError /\ uiBusy = aBusy
    <2>1. out = <<>> /\ uiError = FALSE /\ aError = FALSE /\ uiBusy = FALSE /\ aBusy = FALSE
      BY DEF Init
    <2>2. DOMAIN out = 1..0
      BY <2>1, InitTypes, OutTypes
    <2>3. 1..0 = {}
      OBVIOUS
    <2> QED BY <2>1, <2>2, <2>3, Zenon
  <1> QED BY <1>1 DEF Told, LastReport, EndBefore, UiSees, Final

(* Every step keeps the reports true. *)
LEMMA NextTold == ASSUME TypeOK, Ledger, Told, Step PROVE Told'
  BY NextLastReport, NextEndBefore, NextUiSees DEF Told

-----------------------------------------------------------------------------
(* Autosave.  Once the actor has handled every load and save, the UI is    *)
(* not left busy, and unsaved edits have a timer or met an error: a load   *)
(* announced that it was busy before it ended, so that _onUiState sees the *)
(* end and rearms the timer, and a save's answer rearms it.                *)

WorkInMail == \E m \in InMail : Work(m)
Rested     == ~WorkInMail /\ aOp = {}
BusyBefore(i, p) == \/ i = 1 /\ uiBusy
                    \/ \E e \in DOMAIN out : e + 1 = i /\ IsState(e) /\ out[e].busy /\ out[e].path = p
Announced == ~WorkInMail => \A m \in aOp : m.type = "LoadConfig" =>
               \A l : l = Len(out) + 1 => BusyBefore(l, m.path)

Calm(i, k) == \A j \in DOMAIN out : i <= j /\ j < k /\ IsState(j) => ~out[j].busy
EndsAt(i, k, p) == /\ i \in DOMAIN out /\ i < k /\ IsState(i) /\ ~out[i].error /\ out[i].path = p
                   /\ BusyBefore(i, p) /\ Calm(i, k)
Rearmed(k)    == ~uiBusy /\ (dirty => timer) /\ Calm(1, k)
LastStates(i) == i \in DOMAIN out /\ IsState(i) /\ \A j \in DOMAIN out : j > i => IsState(j)
LastAnswer(k) == k \in DOMAIN out /\ IsAnswer(k) /\ \A j \in DOMAIN out : j > k => IsState(j)
NoAnswers     == \A i \in DOMAIN out : IsState(i)

CalmEnd == Rested => \A i : LastStates(i) => ~out[i].busy
Idles   == Rested /\ NoAnswers => ~uiBusy /\ (dirty /\ ~timer => aError)
Rearms  == Rested => \A k : LastAnswer(k) =>
             /\ out[k].ok = ~aError /\ (k = 1 => ~uiBusy)
             /\ \A o \in PendingLoads : o.id = out[k].id /\ out[k].ok =>
                  Rearmed(k) \/ \E i : EndsAt(i, k, o.path)
Saved   == Announced /\ CalmEnd /\ Idles /\ Rearms

(* The load with the highest number is the latest. *)
LEMMA OnlyLatest ==
    ASSUME TypeOK, Ledger, NEW o \in PendingLoads, \A q \in PendingLoads : ~(o.id < q.id)
    PROVE  LatestLoad = {o}
  <1>1. \A q \in PendingLoads : q.id \in Nat /\ o.id \in Nat /\ q.id <= o.id
    BY Ids DEF PendingLoads
  <1>2. \A q \in PendingLoads : o.id <= q.id => q = o
    BY <1>1 DEF PendingLoads, Ledger, Unique
  <1> QED BY <1>1, <1>2 DEF LatestLoad

(* A load in the actor's hands, with no other to come, is the latest. *)
LEMMA HeldIsLatest ==
    ASSUME TypeOK, Ledger, ~WorkInMail, NEW m \in aOp, m.type = "LoadConfig"
    PROVE  \E o \in PendingLoads : o.id = m.id /\ o.path = m.path /\ LatestLoad = {o}
  <1>1. PICK o \in pendingOps : o.id = m.id /\ o.kind = "load" /\ o.path = m.path
    BY DEF Ledger, Remembered, Asked, KindOf
  <1>2. o \in PendingLoads /\ Held(o.id)
    BY <1>1 DEF PendingLoads, Held
  <1>3. ASSUME NEW q \in PendingLoads, o.id < q.id PROVE FALSE
    <2>1. q \in pendingOps /\ Alike(o, q)
      BY <1>1, <1>3 DEF PendingLoads, Alike
    <2>2. Mailed(q.id)
      BY <1>1, <1>2, <1>3, <2>1 DEF Ledger, InTurn
    <2>3. PICK n \in InMail : n.id = q.id
      BY <2>2 DEF Mailed
    <2> QED BY <2>1, <2>3 DEF WorkInMail, Ledger, Remembered
  <1> QED BY <1>1, <1>2, <1>3, OnlyLatest

(* With every request handled, a load answered last is the latest. *)
LEMMA AnsweredIsLatest ==
    ASSUME TypeOK, Ledger, ~LoadAhead, NEW k, LastAnswer(k), NEW o \in PendingLoads, o.id = out[k].id
    PROVE  LatestLoad = {o}
  <1>1. AnsweredAt(k, o.id) /\ k \in 1..Len(out) /\ Len(out) \in Nat
    BY OutTypes DEF LastAnswer, AnsweredAt
  <1>2. ASSUME NEW q \in PendingLoads, o.id < q.id PROVE FALSE
    <2>1. PICK j : AnsweredAt(j, q.id)
      BY LoadsAnswered
    <2>2. k < j /\ j \in 1..Len(out)
      BY <1>1, <1>2, <2>1, OutTypes DEF PendingLoads, Alike, Ledger, InTurn, AnsweredAt
    <2>3. IsState(j) /\ IsAnswer(j)
      BY <1>1, <2>1, <2>2, OutTypes DEF LastAnswer, AnsweredAt
    <2> QED BY <2>2, <2>3, OutTypes
  <1> QED BY <1>2, OnlyLatest

(* With nothing to do, no load is to come and the actor is not busy. *)
LEMMA RestedLoads == ASSUME TypeOK, Ledger, Rested PROVE ~LoadAhead /\ aBusy = FALSE
  BY DEF Rested, LoadAhead, WorkInMail, Work, Ledger, OneOp

(* The elements of out after the first is taken. *)
LEMMA Shifted ==
    ASSUME TypeOK, Consumes
    PROVE  /\ 1 \in DOMAIN out /\ Len(out) \in Nat /\ Len(out') = Len(out) - 1
           /\ \A i \in DOMAIN out' :
                /\ i \in Nat /\ i >= 1 /\ i + 1 \in DOMAIN out /\ out'[i] = out[i + 1]
                /\ IsState(i)' <=> IsState(i + 1)
                /\ IsAnswer(i)' <=> IsAnswer(i + 1)
           /\ \A i \in DOMAIN out : i \in Nat /\ i >= 1 /\ (i = 1 \/ \E e \in DOMAIN out' : i = e + 1)
  <1>0. Len(out) \in Nat /\ DOMAIN out = 1..Len(out) /\ Len(out) > 0 /\ DOMAIN out' = 1..(Len(out) - 1)
        /\ Len(out') = Len(out) - 1
    BY OutTypes, Positions DEF Consumes
  <1>1. ASSUME NEW i \in DOMAIN out, i # 1 PROVE \E e \in DOMAIN out' : i = e + 1
    <2>1. i - 1 \in DOMAIN out' /\ i = (i - 1) + 1
      BY <1>0, <1>1
    <2> QED BY <2>1
  <1>2. \A i \in DOMAIN out' : i \in Nat /\ i >= 1 /\ i + 1 \in DOMAIN out
    BY <1>0
  <1>3. \A i \in DOMAIN out : i \in Nat /\ i >= 1
    BY <1>0
  <1>4. 1 \in DOMAIN out
    BY <1>0
  <1>5. \A i \in DOMAIN out' : /\ out'[i] = out[i + 1]
                               /\ IsState(i)' <=> IsState(i + 1)
                               /\ IsAnswer(i)' <=> IsAnswer(i + 1)
    BY <1>0, Positions
  <1> QED BY <1>0, <1>1, <1>2, <1>3, <1>4, <1>5

(* What goes before the elements that were there, after others follow. *)
Grows == /\ Len(out) \in Nat /\ DOMAIN out = 1..Len(out) /\ DOMAIN out' = 1..Len(out') /\ Len(out') \in Nat
         /\ Len(out') >= Len(out)
         /\ \A i \in DOMAIN out : /\ out'[i] = out[i]
                                  /\ IsState(i)' <=> IsState(i)
                                  /\ IsAnswer(i)' <=> IsAnswer(i)

(* Emissions leave what was there before in its place. *)
LEMMA Grown ==
    ASSUME TypeOK
    PROVE  /\ Mute => Grows
           /\ \A s \in States : Emits(s) => Grows
           /\ \A s \in States, n \in 1..2, f \in Answers : Ends(s, n, f) => Grows
  <1>0. Len(out) \in Nat /\ DOMAIN out = 1..Len(out)
    BY OutTypes
  <1>1. Mute => Grows
    <2> SUFFICES ASSUME Mute PROVE Grows
      OBVIOUS
    <2>1. Len(out') = Len(out)
      BY DEF Mute
    <2>2. DOMAIN out' = DOMAIN out
      BY Positions
    <2>3. \A i : (IsState(i)' <=> IsState(i)) /\ (IsAnswer(i)' <=> IsAnswer(i)) /\ out'[i] = out[i]
      BY Positions
    <2> QED BY <1>0, <2>1, <2>2, <2>3 DEF Grows
  <1>2. ASSUME NEW s \in States, Emits(s) PROVE Grows
    <2>1. /\ DOMAIN out' = 1..(Len(out) + 1) /\ Len(out') = Len(out) + 1
      BY <1>2, Positions
    <2>2. \A i \in 1..Len(out) : /\ out'[i] = out[i]
                                 /\ (IsState(i)' <=> IsState(i)) /\ (IsAnswer(i)' <=> IsAnswer(i))
      BY <1>2, Positions
    <2> QED BY <1>0, <2>1, <2>2 DEF Grows
  <1>3. ASSUME NEW s \in States, NEW n \in 1..2, NEW f \in Answers, Ends(s, n, f) PROVE Grows
    <2>1. /\ DOMAIN out' = 1..(Len(out) + n + 1) /\ Len(out') = Len(out) + n + 1
      BY <1>3, Positions
    <2>2. \A i \in 1..Len(out) : /\ out'[i] = out[i]
                                 /\ (IsState(i)' <=> IsState(i)) /\ (IsAnswer(i)' <=> IsAnswer(i))
      BY <1>3, Positions
    <2> QED BY <1>0, <2>1, <2>2 DEF Grows
  <1> QED BY <1>1, <1>2, <1>3

(* What went before an element stays before it when others follow. *)
LEMMA SameBefore ==
    ASSUME TypeOK, Grows, uiBusy' = uiBusy
    PROVE  /\ \A i, k : k \in DOMAIN out /\ Calm(i, k) => Calm(i, k)'
           /\ \A i, p : BusyBefore(i, p) => BusyBefore(i, p)'
           /\ \A i, k, p : k \in DOMAIN out /\ EndsAt(i, k, p) => EndsAt(i, k, p)'
  <1>1. ASSUME NEW i, NEW k \in DOMAIN out, Calm(i, k) PROVE Calm(i, k)'
    <2> SUFFICES ASSUME NEW j \in DOMAIN out', i <= j, j < k, IsState(j)' PROVE ~out'[j].busy
      BY DEF Calm
    <2>1. j \in DOMAIN out
      BY DEF Grows
    <2> QED BY <1>1, <2>1 DEF Calm, Grows
  <1>2. DOMAIN out \subseteq DOMAIN out'
    BY DEF Grows
  <1>3. ASSUME NEW i, NEW p, BusyBefore(i, p) PROVE BusyBefore(i, p)'
    <2>1. CASE i = 1 /\ uiBusy
      BY <2>1 DEF BusyBefore
    <2>2. CASE \E e \in DOMAIN out : e + 1 = i /\ IsState(e) /\ out[e].busy /\ out[e].path = p
      <3>1. PICK e \in DOMAIN out : e + 1 = i /\ IsState(e) /\ out[e].busy /\ out[e].path = p
        BY <2>2
      <3>2. e \in DOMAIN out' /\ e + 1 = i /\ IsState(e)' /\ out'[e].busy /\ out'[e].path = p
        BY <1>2, <3>1 DEF Grows
      <3> QED BY <3>2 DEF BusyBefore
    <2> QED BY <1>3, <2>1, <2>2 DEF BusyBefore
  <1>4. ASSUME NEW i, NEW k \in DOMAIN out, NEW p, EndsAt(i, k, p) PROVE EndsAt(i, k, p)'
    <2>1. BusyBefore(i, p)' /\ Calm(i, k)'
      BY <1>1, <1>3, <1>4 DEF EndsAt
    <2>2. i \in DOMAIN out /\ i \in DOMAIN out' /\ out'[i] = out[i] /\ IsState(i)'
      BY <1>2, <1>4 DEF EndsAt, Grows
    <2> QED BY <1>4, <2>1, <2>2 DEF EndsAt
  <1> QED BY <1>1, <1>3, <1>4

(* The same after the first element is taken. *)
LEMMA ShiftedBefore ==
    ASSUME TypeOK, Consumes
    PROVE  /\ \A i, k \in Nat : Calm(i + 1, k + 1) => Calm(i, k)'
           /\ \A i \in Nat : \A p : i > 1 /\ BusyBefore(i + 1, p) => BusyBefore(i, p)'
           /\ \A k \in Nat : \A l : l = k + 1 /\ Calm(2, l) => Calm(1, k)'
           /\ \A p : BusyBefore(2, p) => IsState(1) /\ out[1].busy /\ out[1].path = p
  <1>1. ASSUME NEW i \in Nat, NEW k \in Nat, Calm(i + 1, k + 1) PROVE Calm(i, k)'
    <2> SUFFICES ASSUME NEW j \in DOMAIN out', i <= j, j < k, IsState(j)' PROVE ~out'[j].busy
      BY DEF Calm
    <2>1. /\ j \in Nat /\ j + 1 \in DOMAIN out /\ out'[j] = out[j + 1] /\ IsState(j + 1)
          /\ i + 1 <= j + 1 /\ j + 1 < k + 1
      BY Shifted
    <2> QED BY <1>1, <2>1 DEF Calm
  <1>2. ASSUME NEW i \in Nat, NEW p, i > 1, BusyBefore(i + 1, p) PROVE BusyBefore(i, p)'
    <2>1. PICK e \in DOMAIN out : e + 1 = i + 1 /\ IsState(e) /\ out[e].busy /\ out[e].path = p
      BY <1>2 DEF BusyBefore
    <2>2. e \in Nat /\ e = i /\ e # 1
      BY <1>2, <2>1, Shifted
    <2>3. PICK d \in DOMAIN out' : e = d + 1
      BY <2>1, <2>2, Shifted
    <2>4. d + 1 = i /\ IsState(d)' /\ out'[d].busy /\ out'[d].path = p
      BY <2>1, <2>2, <2>3, Shifted
    <2> QED BY <2>4 DEF BusyBefore
  <1>3. ASSUME NEW p, BusyBefore(2, p) PROVE IsState(1) /\ out[1].busy /\ out[1].path = p
    <2>1. PICK e \in DOMAIN out : e + 1 = 2 /\ IsState(e) /\ out[e].busy /\ out[e].path = p
      BY <1>3 DEF BusyBefore
    <2>2. e = 1
      BY <2>1, Shifted
    <2> QED BY <2>1, <2>2
  <1>4. ASSUME NEW k \in Nat, Calm(2, k + 1) PROVE Calm(1, k)'
    <2>1. PICK e : e = 1 /\ e + 1 = 2 /\ e \in Nat
      OBVIOUS
    <2>2. Calm(e + 1, k + 1)
      BY <1>4, <2>1
    <2>3. Calm(e, k)'
      BY <1>1, <2>1, <2>2
    <2> QED BY <2>1, <2>3
  <1> QED BY <1>1, <1>2, <1>3, <1>4

(* A load in hand was announced as busy, as the last thing emitted. *)
LEMMA NextAnnounced == ASSUME TypeOK, Ledger, Announced, Step PROVE Announced'
  <1>0. Len(out) \in Nat /\ DOMAIN out = 1..Len(out)
    BY OutTypes
  <1>1. ASSUME Mute, WorkInMail => WorkInMail', UNCHANGED <<aOp, uiBusy>> PROVE Announced'
    <2>1. Grows /\ Len(out') = Len(out)
      BY <1>1, Grown DEF Mute
    <2> QED BY <1>1, <2>1, SameBefore DEF Announced
  <1>2. ASSUME Consumes, InMail' = InMail, aOp' = aOp,
               ASSUME NEW m \in aOp, m.type = "LoadConfig", ~WorkInMail, out[1] \in States,
                      out[1].busy, out[1].path = m.path
               PROVE  uiBusy'
        PROVE  Announced'
    <2> SUFFICES ASSUME ~WorkInMail, NEW m \in aOp, m.type = "LoadConfig", NEW l, l = Len(out') + 1
                 PROVE  BusyBefore(l, m.path)'
      BY <1>2 DEF Announced, WorkInMail
    <2>1. l \in Nat /\ l + 1 = Len(out) + 1 /\ l >= 1
      BY <1>0, <1>2, Shifted
    <2>2. BusyBefore(l + 1, m.path)
      <3>1. PICK x : x = Len(out) + 1
        OBVIOUS
      <3>2. BusyBefore(x, m.path)
        BY <3>1 DEF Announced
      <3> QED BY <2>1, <3>1, <3>2
    <2>3. CASE l > 1
      BY <1>2, <2>1, <2>2, <2>3, ShiftedBefore
    <2>4. CASE l = 1
      <3>1. IsState(1) /\ out[1].busy /\ out[1].path = m.path
        <4>1. BusyBefore(2, m.path)
          BY <2>2, <2>4
        <4> QED BY <1>2, <4>1, ShiftedBefore
      <3>2. out[1] \in States
        BY <1>0, <1>2, <3>1, OutTypes, Shifted
      <3>3. uiBusy'
        BY <1>2, <3>1, <3>2
      <3> QED BY <2>4, <3>3 DEF BusyBefore
    <2> QED BY <2>1, <2>3, <2>4
  <1>3. CASE Edits \/ Rests \/ Stays
    BY <1>1, <1>3 DEF Edits, Rests, Stays, Aside, UiAside, Silent, WorkInMail
  <1>4. CASE Announces
    BY <1>4 DEF Announces, Aside, Announced
  <1>5. CASE \E o \in Requests, x \in Signals : AsksFor(o, x)
    BY <1>5 DEF AsksFor, Sends, Announced, WorkInMail
  <1>6. CASE \E x \in Signals : Asides(x)
    BY <1>1, <1>6 DEF Asides, Sends, Aside, UiAside, WorkInMail
  <1>7. ASSUME NEW s \in States, Sees(s) PROVE Announced'
    <2>1. Consumes /\ InMail' = InMail /\ aOp' = aOp /\ s = out[1] /\ (Foreign(s) \/ uiBusy' = s.busy)
      BY <1>7 DEF Sees, Silent, Aside
    <2>2. ASSUME NEW m \in aOp, m.type = "LoadConfig", ~WorkInMail, out[1].busy, out[1].path = m.path
          PROVE  uiBusy'
      <3>1. ~Foreign(s)
        BY <2>1, <2>2, HeldIsLatest DEF Foreign
      <3> QED BY <2>1, <2>2, <3>1
    <2> QED BY <1>2, <2>1, <2>2
  <1>8. ASSUME NEW f \in Answers, NEW o \in pendingOps, Hears(f, o) PROVE Announced'
    <2>1. Consumes /\ InMail' = InMail /\ aOp' = aOp /\ f = out[1]
      BY <1>8 DEF Hears, Silent, Aside
    <2>2. out[1] \notin States
      BY <2>1 DEF States, Answers
    <2> QED BY <1>2, <2>1, <2>2
  <1>9. ASSUME NEW m \in InMail, Handles(m) PROVE Announced'
    <2>1. CASE Work(m)
      <3>1. PICK s \in States : Emits(s) /\ s.path = m.path /\ s.busy
        BY <1>9, <2>1 DEF Handles
      <3>2. aOp' = {m}
        BY <1>9, <2>1 DEF Handles
      <3> SUFFICES ASSUME NEW l, l = Len(out') + 1 PROVE BusyBefore(l, m.path)'
        BY <3>2 DEF Announced
      <3>3. PICK e : e = Len(out) + 1
        OBVIOUS
      <3>4. e \in DOMAIN out' /\ e + 1 = l /\ out'[e] = s /\ IsState(e)'
        BY <1>0, <3>1, <3>3, Positions
      <3> QED BY <3>1, <3>4 DEF BusyBefore
    <2>2. CASE ~Work(m)
      BY <1>9, <2>2 DEF Handles, Announced
    <2> QED BY <2>1, <2>2
  <1>10. ASSUME NEW m \in aOp, NEW ok \in BOOLEAN, Loads(m, ok) \/ Saves(m, ok) PROVE Announced'
    <2>1. aOp' = {}
      BY <1>10 DEF Loads, Saves, Finishes, Ledger, OneOp
    <2> QED BY <2>1 DEF Announced
  <1> QED BY <1>3, <1>4, <1>5, <1>6, <1>7, <1>8, <1>9, <1>10 DEF Step

(* States of a requestless actor, or nothing, follow what was there. *)
LEMMA SavedFollowed ==
    ASSUME TypeOK, Ledger, Saved, Mute \/ \E s \in States : Emits(s) /\ ~s.busy, Rested,
           uiBusy' = uiBusy, pendingOps' = pendingOps, aError' = aError,
           (dirty => timer) => (dirty' => timer'), ~uiBusy /\ (dirty /\ ~timer => aError) => (dirty' /\ ~timer' => aError)
    PROVE  (CalmEnd /\ Idles /\ Rearms)'
  <1>0. Len(out) \in Nat /\ DOMAIN out = 1..Len(out)
    BY OutTypes
  <1>1. Grows
    BY Grown
  <1>2. \A i \in DOMAIN out' : i \in DOMAIN out \/ (IsState(i)' /\ ~IsAnswer(i)' /\ ~out'[i].busy)
    <2>1. CASE Mute
      BY <2>1 DEF Mute
    <2>2. ASSUME NEW s \in States, Emits(s), ~s.busy
          PROVE  \A i \in DOMAIN out' : i \in DOMAIN out \/ (IsState(i)' /\ ~IsAnswer(i)' /\ ~out'[i].busy)
      <3>1. /\ DOMAIN out' = 1..(Len(out) + 1)
            /\ \A l : l = Len(out) + 1 => out'[l] = s /\ IsState(l)' /\ ~IsAnswer(l)'
        BY <2>2, Positions
      <3> QED BY <1>0, <2>2, <3>1
    <2> QED BY <2>1, <2>2
  <1>3. DOMAIN out \subseteq DOMAIN out'
    BY <1>1 DEF Grows
  <1>4. CalmEnd'
    <2> SUFFICES ASSUME NEW i, LastStates(i)' PROVE ~out'[i].busy
      BY DEF CalmEnd
    <2>1. CASE i \in DOMAIN out
      <3>1. LastStates(i)
        BY <1>1, <1>3, <2>1 DEF LastStates, Grows
      <3> QED BY <1>1, <2>1, <3>1 DEF Saved, CalmEnd, Grows
    <2>2. CASE i \notin DOMAIN out
      BY <1>2, <2>2 DEF LastStates
    <2> QED BY <2>1, <2>2
  <1>5. Idles'
    <2>1. NoAnswers' => NoAnswers
      BY <1>1, <1>3 DEF NoAnswers, Grows
    <2> QED BY <2>1 DEF Saved, Idles
  <1>6. Rearms'
    <2> SUFFICES ASSUME NEW k, LastAnswer(k)'
                 PROVE  /\ out'[k].ok = ~aError /\ (k = 1 => ~uiBusy)
                        /\ \A o \in PendingLoads : o.id = out'[k].id /\ out'[k].ok =>
                             (Rearmed(k) \/ \E i : EndsAt(i, k, o.path))'
      BY DEF Rearms, PendingLoads
    <2>1. k \in DOMAIN out /\ out'[k] = out[k]
      BY <1>1, <1>2 DEF LastAnswer, Grows
    <2>2. LastAnswer(k)
      BY <1>1, <1>3, <2>1 DEF LastAnswer, Grows
    <2>3. /\ out[k].ok = ~aError /\ (k = 1 => ~uiBusy)
          /\ \A o \in PendingLoads : o.id = out[k].id /\ out[k].ok =>
                  Rearmed(k) \/ \E i : EndsAt(i, k, o.path)
      BY <2>2 DEF Saved, Rearms
    <2>4. Rearmed(k) => Rearmed(k)'
      BY <1>1, <2>1, SameBefore DEF Rearmed
    <2>5. \A i, p : EndsAt(i, k, p) => EndsAt(i, k, p)'
      BY <1>1, <2>1, SameBefore
    <2> QED BY <2>1, <2>3, <2>4, <2>5
  <1> QED BY <1>4, <1>5, <1>6

(* Consuming a message keeps the order of those behind it. *)
LEMMA SavedShifts ==
    ASSUME TypeOK, Consumes
    PROVE  /\ \A i : LastStates(i)' => i \in Nat /\ i >= 1 /\ LastStates(i + 1) /\ out'[i] = out[i + 1]
           /\ \A k : LastAnswer(k)' => k \in Nat /\ k >= 1 /\ LastAnswer(k + 1) /\ out'[k] = out[k + 1]
           /\ NoAnswers' /\ IsState(1) => NoAnswers /\ LastStates(1)
           /\ NoAnswers' /\ IsAnswer(1) => LastAnswer(1)
  <1>0. /\ 1 \in DOMAIN out
        /\ \A i \in DOMAIN out' : i \in Nat /\ i >= 1 /\ i + 1 \in DOMAIN out /\ out'[i] = out[i + 1]
        /\ \A i \in DOMAIN out' : (IsState(i)' <=> IsState(i + 1)) /\ (IsAnswer(i)' <=> IsAnswer(i + 1))
        /\ \A i \in DOMAIN out : i \in Nat /\ i >= 1 /\ (i = 1 \/ \E e \in DOMAIN out' : i = e + 1)
    BY Shifted
  <1>1. ASSUME NEW i \in DOMAIN out', \A j \in DOMAIN out' : j > i => IsState(j)',
               NEW j \in DOMAIN out, j > i + 1
        PROVE  IsState(j)
    <2>1. PICK e \in DOMAIN out' : j = e + 1
      BY <1>0, <1>1
    <2>2. e > i
      BY <1>0, <1>1, <2>1
    <2> QED BY <1>0, <1>1, <2>1, <2>2
  <1>2. ASSUME NEW i, LastStates(i)'
        PROVE  i \in Nat /\ i >= 1 /\ LastStates(i + 1) /\ out'[i] = out[i + 1]
    <2>1. i \in DOMAIN out' /\ IsState(i)' /\ \A j \in DOMAIN out' : j > i => IsState(j)'
      BY <1>2 DEF LastStates
    <2>2. \A j \in DOMAIN out : j > i + 1 => IsState(j)
      BY <1>1, <2>1
    <2> QED BY <1>0, <2>1, <2>2 DEF LastStates
  <1>3. ASSUME NEW k, LastAnswer(k)'
        PROVE  k \in Nat /\ k >= 1 /\ LastAnswer(k + 1) /\ out'[k] = out[k + 1]
    <2>1. k \in DOMAIN out' /\ IsAnswer(k)' /\ \A j \in DOMAIN out' : j > k => IsState(j)'
      BY <1>3 DEF LastAnswer
    <2>2. \A j \in DOMAIN out : j > k + 1 => IsState(j)
      BY <1>1, <2>1
    <2> QED BY <1>0, <2>1, <2>2 DEF LastAnswer
  <1>4. ASSUME NoAnswers', NEW j \in DOMAIN out, j # 1 PROVE IsState(j)
    BY <1>0, <1>4 DEF NoAnswers
  <1>5. NoAnswers' /\ IsState(1) => NoAnswers /\ LastStates(1)
    BY <1>0, <1>4 DEF NoAnswers, LastStates
  <1>6. NoAnswers' /\ IsAnswer(1) => LastAnswer(1)
    BY <1>0, <1>4 DEF LastAnswer
  <1> QED BY <1>2, <1>3, <1>5, <1>6

(* A state that is seen may end the UI's busy time: then it rearms the timer. *)
LEMMA SavedSees ==
    ASSUME TypeOK, Ledger, Told, Saved, NEW s \in States, Sees(s), Rested
    PROVE  (CalmEnd /\ Idles /\ Rearms)'
  <1>1. /\ Consumes /\ s = out[1] /\ UNCHANGED <<dirty, rev, pendingOps>> /\ aError' = aError
        /\ timer => timer'
        /\ \/ Foreign(s) /\ UNCHANGED <<uiPath, uiItems, uiBusy, uiError, timer>>
           \/ ~Foreign(s) /\ uiBusy' = s.busy /\ timer' = (timer \/ (uiBusy /\ ~s.busy /\ ~s.error /\ dirty))
    <2>1. /\ Consumes /\ s = out[1] /\ UNCHANGED <<dirty, rev, pendingOps>> /\ aError' = aError
          /\ \/ Foreign(s) /\ UNCHANGED <<uiPath, uiItems, uiBusy, uiError, timer>>
             \/ ~Foreign(s) /\ uiBusy' = s.busy /\ timer' = (timer \/ (uiBusy /\ ~s.busy /\ ~s.error /\ dirty))
      BY DEF Sees, Aside
    <2>2. timer => timer'
      BY <2>1
    <2> QED BY <2>1, <2>2
  <1>2. ~LoadAhead /\ IsState(1) /\ ~IsAnswer(1) /\ 1 \in DOMAIN out /\ Len(out) \in Nat /\ DOMAIN out = 1..Len(out)
    <2>1. s.kind = "state"
      BY DEF States
    <2> QED BY <1>1, <2>1, RestedLoads, Shifted, OutTypes DEF IsState, IsAnswer
  <1>3. CalmEnd'
    <2> SUFFICES ASSUME NEW i, LastStates(i)' PROVE ~out'[i].busy
      BY DEF CalmEnd
    <2>1. LastStates(i + 1) /\ out'[i] = out[i + 1]
      BY <1>1, SavedShifts
    <2> QED BY <2>1 DEF Saved, CalmEnd
  <1>4. Idles'
    <2> SUFFICES ASSUME NoAnswers' PROVE ~uiBusy' /\ (dirty /\ ~timer' => aError)
      BY <1>1 DEF Idles
    <2>1. NoAnswers /\ LastStates(1)
      BY <1>1, <1>2, SavedShifts
    <2>2. ~s.busy
      BY <1>1, <2>1 DEF Saved, CalmEnd
    <2>3. ~uiBusy /\ (dirty /\ ~timer => aError)
      BY <2>1 DEF Saved, Idles
    <2> QED BY <1>1, <2>2, <2>3
  <1>5. Rearms'
    <2> SUFFICES ASSUME NEW k, LastAnswer(k)'
                 PROVE  /\ out'[k].ok = ~aError /\ (k = 1 => ~uiBusy')
                        /\ \A o \in PendingLoads : o.id = out'[k].id /\ out'[k].ok =>
                             (Rearmed(k) \/ \E i : EndsAt(i, k, o.path))'
      BY <1>1 DEF Rearms, PendingLoads
    <2>1. PICK l : l = k + 1
      OBVIOUS
    <2>2. k \in Nat /\ k >= 1 /\ LastAnswer(l) /\ out'[k] = out[l] /\ l \in Nat /\ l > 1 /\ l \in DOMAIN out /\ IsAnswer(l)
      BY <1>1, <2>1, SavedShifts DEF LastAnswer
    <2>3. /\ out[l].ok = ~aError
          /\ \A o \in PendingLoads : o.id = out[l].id /\ out[l].ok => Rearmed(l) \/ \E i : EndsAt(i, l, o.path)
      BY <2>2 DEF Saved, Rearms
    <2>4. PICK o \in pendingOps : o.id = out[l].id
      BY <2>2, AnswersAsked
    <2>5. \A q \in PendingLoads : q.id = out[l].id => (Foreign(s) <=> q.path # s.path)
      BY <1>2, <2>2, AnsweredIsLatest DEF Foreign
    <2>6. k = 1 => ~uiBusy'
      <3> SUFFICES ASSUME k = 1 PROVE ~uiBusy'
        OBVIOUS
      <3>1. ~s.busy /\ s.path = o.path
        <4>1. AnsweredAt(l, o.id) /\ l - 1 = 1
          BY <2>1, <2>2, <2>4 DEF AnsweredAt
        <4> QED BY <1>1, <4>1, AnswerFollows DEF Told
      <3>2. ~Foreign(s)
        <4> SUFFICES ASSUME NEW q \in LatestLoad, q.path # s.path PROVE FALSE
          BY DEF Foreign
        <4>1. q \in PendingLoads /\ q \in pendingOps
          BY DEF LatestLoad, PendingLoads
        <4>2. PICK j : AnsweredAt(j, q.id)
          BY <1>2, <4>1, LoadsAnswered
        <4>3. j \in 1..Len(out) /\ IsAnswer(j) /\ out[j].id = q.id /\ j # 1
          BY <1>2, <4>2 DEF AnsweredAt
        <4>4. j # l
          BY <2>4, <3>1, <4>1, <4>3 DEF Ledger, Unique
        <4>5. j > l
          BY <2>1, <4>3, <4>4
        <4>6. IsState(j)
          BY <1>2, <2>2, <4>3, <4>5 DEF LastAnswer
        <4> QED BY <4>3, <4>6, OutTypes
      <3> QED BY <1>1, <3>1, <3>2
    <2>7. ASSUME NEW q \in PendingLoads, q.id = out[l].id, out[l].ok
          PROVE  (Rearmed(k) \/ \E i : EndsAt(i, k, q.path))'
      <3>1. CASE Rearmed(l)
        <4>1. Calm(1, l) /\ ~uiBusy /\ (dirty => timer)
          BY <3>1 DEF Rearmed
        <4>2. Calm(1, k)'
          <5>1. Calm(2, l)
            BY <1>2, <4>1 DEF Calm
          <5> QED BY <1>1, <2>1, <2>2, <5>1, ShiftedBefore
        <4>3. ~s.busy
          BY <1>1, <1>2, <2>2, <4>1 DEF Calm
        <4> QED BY <1>1, <4>1, <4>2, <4>3 DEF Rearmed
      <3>2. ASSUME NEW i, EndsAt(i, l, q.path) PROVE (Rearmed(k) \/ \E e : EndsAt(e, k, q.path))'
        <4>1. /\ i \in DOMAIN out /\ i < l /\ IsState(i) /\ ~out[i].error /\ out[i].path = q.path
              /\ BusyBefore(i, q.path) /\ Calm(i, l) /\ i \in Nat
          BY <1>2, <3>2 DEF EndsAt
        <4>2. CASE i = 1
          <5>1. ~s.busy /\ ~s.error /\ ~Foreign(s)
            BY <1>1, <1>2, <2>5, <2>7, <4>1, <4>2 DEF Calm
          <5>2. uiBusy
            BY <1>2, <4>1, <4>2 DEF BusyBefore
          <5>3. Calm(1, k)'
            <6>1. Calm(2, l)
              BY <1>2, <4>1, <4>2 DEF Calm
            <6> QED BY <1>1, <2>1, <2>2, <6>1, ShiftedBefore
          <5> QED BY <1>1, <5>1, <5>2, <5>3 DEF Rearmed
        <4>3. CASE i # 1
          <5>1. PICK e \in DOMAIN out' : i = e + 1
            BY <1>1, <4>1, <4>3, Shifted
          <5>2. /\ e \in Nat /\ e >= 1 /\ out'[e] = out[i] /\ IsState(e)' /\ e < k
            BY <1>1, <2>1, <2>2, <4>1, <5>1, Shifted
          <5>3. Calm(e, k)'
            BY <1>1, <2>1, <2>2, <4>1, <5>1, <5>2, ShiftedBefore
          <5>4. BusyBefore(e, q.path)'
            <6>1. CASE e > 1
              BY <1>1, <4>1, <5>1, <5>2, <6>1, ShiftedBefore
            <6>2. CASE e = 1
              <7>1. out[1].busy /\ out[1].path = q.path
                BY <1>1, <4>1, <5>1, <6>2, ShiftedBefore
              <7>2. ~Foreign(s)
                BY <1>1, <2>5, <2>7, <7>1
              <7> QED BY <1>1, <6>2, <7>1, <7>2 DEF BusyBefore
            <6> QED BY <5>2, <6>1, <6>2
          <5>5. EndsAt(e, k, q.path)'
            BY <4>1, <5>1, <5>2, <5>3, <5>4 DEF EndsAt
          <5> QED BY <5>5
        <4> QED BY <4>2, <4>3
      <3> QED BY <2>3, <2>7, <3>1, <3>2
    <2> QED BY <2>2, <2>3, <2>6, <2>7
  <1> QED BY <1>3, <1>4, <1>5

(* An answer that is heard leaves edits with a timer or an error. *)
LEMMA SavedHears ==
    ASSUME TypeOK, Ledger, Told, Saved, NEW f \in Answers, NEW o \in pendingOps, Hears(f, o), Rested
    PROVE  (CalmEnd /\ Idles /\ Rearms)'
  <1>1. /\ Consumes /\ f = out[1] /\ o.id = f.id /\ pendingOps' = pendingOps \ {o}
        /\ dirty' = (dirty /\ ~(f.ok /\ Settles(o)))
        /\ timer' = (IF ~f.ok THEN timer ELSE ~Settles(o) /\ IF o.kind = "save" THEN dirty ELSE timer)
        /\ uiBusy' = uiBusy /\ aError' = aError
    BY DEF Hears, Aside
  <1>2. IsAnswer(1) /\ ~IsState(1) /\ 1 \in DOMAIN out /\ Len(out) \in Nat /\ DOMAIN out = 1..Len(out)
    <2>1. f.kind = "finished"
      BY DEF Answers
    <2> QED BY <1>1, <2>1, Shifted, OutTypes DEF IsState, IsAnswer
  <1>3. CalmEnd'
    <2> SUFFICES ASSUME NEW i, LastStates(i)' PROVE ~out'[i].busy
      BY DEF CalmEnd
    <2>1. LastStates(i + 1) /\ out'[i] = out[i + 1]
      BY <1>1, SavedShifts
    <2> QED BY <2>1 DEF Saved, CalmEnd
  <1>4. (dirty => timer) => (dirty' => timer')
    BY <1>1
  <1>5. Idles'
    <2> SUFFICES ASSUME NoAnswers' PROVE ~uiBusy /\ (dirty' /\ ~timer' => aError)
      BY <1>1 DEF Idles
    <2>1. LastAnswer(1)
      BY <1>1, <1>2, SavedShifts
    <2>2. /\ f.ok = ~aError /\ ~uiBusy
          /\ \A q \in PendingLoads : q.id = f.id /\ f.ok => Rearmed(1) \/ \E i : EndsAt(i, 1, q.path)
      BY <1>1, <2>1 DEF Saved, Rearms
    <2>3. \A i, p : ~EndsAt(i, 1, p)
      BY <1>2 DEF EndsAt
    <2>4. CASE o.kind = "load" /\ f.ok
      <3>1. dirty => timer
        BY <1>1, <2>2, <2>3, <2>4 DEF Rearmed, PendingLoads
      <3> QED BY <1>4, <2>2, <3>1
    <2>5. CASE o.kind # "load" /\ f.ok
      <3>1. o.kind = "save"
        BY <2>5, Ids
      <3> QED BY <1>1, <2>2, <2>5, <3>1
    <2>6. CASE ~f.ok
      <3>1. aError
        BY <2>2, <2>6 DEF TypeOK
      <3> QED BY <2>2, <3>1
    <2> QED BY <2>4, <2>5, <2>6
  <1>6. Rearms'
    <2> SUFFICES ASSUME NEW k, LastAnswer(k)'
                 PROVE  /\ out'[k].ok = ~aError /\ (k = 1 => ~uiBusy)
                        /\ \A q \in PendingLoads' : q.id = out'[k].id /\ out'[k].ok =>
                             (Rearmed(k) \/ \E i : EndsAt(i, k, q.path))'
      BY <1>1 DEF Rearms
    <2>1. PICK l : l = k + 1
      OBVIOUS
    <2>2. k \in Nat /\ k >= 1 /\ LastAnswer(l) /\ out'[k] = out[l] /\ l \in Nat /\ l > 1 /\ l \in DOMAIN out /\ IsAnswer(l)
      BY <1>1, <2>1, SavedShifts DEF LastAnswer
    <2>3. /\ out[l].ok = ~aError
          /\ \A q \in PendingLoads : q.id = out[l].id /\ out[l].ok => Rearmed(l) \/ \E i : EndsAt(i, l, q.path)
      BY <2>2 DEF Saved, Rearms
    <2>4. k # 1
      <3> SUFFICES ASSUME k = 1 PROVE FALSE
        OBVIOUS
      <3>1. IsState(l - 1) /\ l - 1 = 1
        BY <2>1, <2>2 DEF Told, EndBefore
      <3> QED BY <1>2, <3>1
    <2>5. ASSUME NEW q \in PendingLoads, q.id = out[l].id, out[l].ok
          PROVE  (Rearmed(k) \/ \E i : EndsAt(i, k, q.path))'
      <3>1. CASE Rearmed(l)
        <4>1. Calm(1, l) /\ ~uiBusy /\ (dirty => timer)
          BY <3>1 DEF Rearmed
        <4>2. Calm(1, k)'
          <5>1. Calm(2, l)
            BY <1>2, <4>1 DEF Calm
          <5> QED BY <1>1, <2>1, <2>2, <5>1, ShiftedBefore
        <4> QED BY <1>1, <1>4, <4>1, <4>2 DEF Rearmed
      <3>2. ASSUME NEW i, EndsAt(i, l, q.path) PROVE (\E e : EndsAt(e, k, q.path))'
        <4>1. /\ i \in DOMAIN out /\ i < l /\ IsState(i) /\ ~out[i].error /\ out[i].path = q.path
              /\ BusyBefore(i, q.path) /\ Calm(i, l) /\ i \in Nat /\ i # 1
          BY <1>2, <3>2 DEF EndsAt
        <4>2. PICK e \in DOMAIN out' : i = e + 1
          BY <1>1, <4>1, Shifted
        <4>3. /\ e \in Nat /\ e >= 1 /\ out'[e] = out[i] /\ IsState(e)' /\ e < k
          BY <1>1, <2>1, <2>2, <4>1, <4>2, Shifted
        <4>4. Calm(e, k)'
          BY <1>1, <2>1, <2>2, <4>1, <4>2, <4>3, ShiftedBefore
        <4>5. BusyBefore(e, q.path)'
          <5>1. e # 1
            <6> SUFFICES ASSUME e = 1 PROVE FALSE
              OBVIOUS
            <6>1. IsState(1)
              BY <1>1, <4>1, <4>2, ShiftedBefore
            <6> QED BY <1>2, <6>1
          <5> QED BY <1>1, <4>1, <4>2, <4>3, <5>1, ShiftedBefore
        <4>6. EndsAt(e, k, q.path)'
          BY <4>1, <4>2, <4>3, <4>4, <4>5 DEF EndsAt
        <4> QED BY <4>6
      <3> QED BY <2>3, <2>5, <3>1, <3>2
    <2>6. PendingLoads' \subseteq PendingLoads
      BY <1>1 DEF PendingLoads
    <2> QED BY <2>2, <2>3, <2>4, <2>5, <2>6 DEF Saved
  <1> QED BY <1>3, <1>5, <1>6

(* The end of the last request: its states come before its answer. *)
LEMMA SavedFinishes ==
    ASSUME TypeOK, Ledger, Saved, NEW m \in aOp, NEW ok \in BOOLEAN, Loads(m, ok) \/ Saves(m, ok), ~WorkInMail
    PROVE  (CalmEnd /\ Idles /\ Rearms)'
  <1>0. Len(out) \in Nat /\ DOMAIN out = 1..Len(out)
    BY OutTypes
  <1>1. /\ uiBusy' = uiBusy /\ pendingOps' = pendingOps /\ aError' = ~ok /\ m.path = aPath
    BY DEF Loads, Saves, Finishes, UiAside, Ledger, OneOp
  <1>2. PICK s \in States, n \in 1..2, f \in Answers :
          /\ s.path = aPath /\ ~s.busy /\ s.error = ~ok /\ f.id = m.id /\ f.ok = ok /\ Ends(s, n, f)
    BY DEF Loads, Saves, Finishes
  <1>3. PICK l : l = Len(out) + n + 1
    OBVIOUS
  <1>4. PICK e : e = Len(out) + 1
    OBVIOUS
  <1>5. /\ DOMAIN out' = 1..l /\ l \in Nat /\ l > 1 /\ out'[l] = f /\ IsAnswer(l)' /\ ~IsState(l)'
        /\ \A i \in (Len(out) + 1)..(Len(out) + n) : out'[i] = s /\ IsState(i)' /\ ~IsAnswer(i)'
    BY <1>0, <1>2, <1>3, Positions
  <1>6. /\ e \in 1..l /\ e < l /\ e \in Nat /\ e \in (Len(out) + 1)..(Len(out) + n)
        /\ \A j \in 1..l : e <= j /\ j < l => j \in (Len(out) + 1)..(Len(out) + n)
    BY <1>0, <1>2, <1>3, <1>4
  <1>7. CalmEnd'
    <2> SUFFICES ASSUME NEW i, LastStates(i)' PROVE FALSE
      BY DEF CalmEnd
    <2>1. i \in 1..l /\ IsState(i)' /\ \A j \in 1..l : j > i => IsState(j)'
      BY <1>5 DEF LastStates
    <2>2. i = l \/ l > i
      BY <1>5, <2>1
    <2> QED BY <1>5, <2>1, <2>2
  <1>8. Idles'
    <2>1. ~NoAnswers'
      BY <1>5 DEF NoAnswers
    <2> QED BY <2>1 DEF Idles
  <1>9. Rearms'
    <2> SUFFICES ASSUME NEW k, LastAnswer(k)'
                 PROVE  /\ out'[k].ok = ~aError' /\ (k = 1 => ~uiBusy')
                        /\ \A o \in PendingLoads : o.id = out'[k].id /\ out'[k].ok =>
                             (\E i : EndsAt(i, k, o.path))'
      BY <1>1 DEF Rearms, PendingLoads
    <2>1. k = l
      <3>1. k \in 1..l /\ ~IsState(l)' /\ \A j \in 1..l : j > k => IsState(j)'
        BY <1>5 DEF LastAnswer
      <3> QED BY <1>5, <3>1
    <2>2. out'[k].ok = ~aError' /\ k # 1
      <3>1. out'[k].ok = ok /\ k # 1 /\ aError' = ~ok
        BY <1>1, <1>2, <1>5, <2>1
      <3> QED BY <3>1
    <2>3. ASSUME NEW o \in PendingLoads, o.id = m.id, ok PROVE EndsAt(e, l, o.path)'
      <3>1. m.type = "LoadConfig" /\ o.path = m.path
        <4>1. Asked(m) /\ o.kind = "load" /\ o \in pendingOps /\ m.type \in Types
          BY Ids DEF Ledger, Remembered, PendingLoads
        <4>2. o.kind = KindOf(m) /\ o.path = m.path
          BY <2>3, <4>1 DEF Asked, Ledger, Unique
        <4> QED BY <1>1, <4>1, <4>2 DEF KindOf
      <3>2. BusyBefore(e, m.path)
        BY <1>1, <1>4, <3>1 DEF Saved, Announced
      <3>3. BusyBefore(e, m.path)'
        <4>1. Grows
          BY <1>2, Grown
        <4> QED BY <1>1, <3>2, <4>1, SameBefore
      <3>4. Calm(e, l)'
        BY <1>2, <1>5, <1>6 DEF Calm
      <3>5. out'[e] = s /\ IsState(e)' /\ ~s.error
        BY <1>2, <1>5, <1>6, <2>3
      <3> QED BY <1>1, <1>2, <1>5, <1>6, <3>1, <3>3, <3>4, <3>5 DEF EndsAt
    <2> QED BY <1>2, <1>5, <2>1, <2>2, <2>3
  <1> QED BY <1>7, <1>8, <1>9

(* At first nothing is unsaved. *)
LEMMA InitSaved == Init => Saved
  <1> SUFFICES ASSUME Init PROVE Saved
    OBVIOUS
  <1>1. out = <<>> /\ uiBusy = FALSE /\ dirty = FALSE /\ aOp = {}
    BY DEF Init
  <1>2. \A i : i \notin DOMAIN out
    <2>1. DOMAIN out = 1..0
      BY <1>1, InitTypes, OutTypes
    <2> QED BY <2>1
  <1> QED BY <1>1, <1>2 DEF Saved, Announced, CalmEnd, Idles, Rearms, LastStates, LastAnswer

(* Every step keeps the autosave armed. *)
LEMMA NextSaved == ASSUME TypeOK, Ledger, Told, Saved, Step PROVE Saved'
  <1>0. Announced'
    BY NextAnnounced DEF Saved
  <1> SUFFICES ASSUME Rested' PROVE (CalmEnd /\ Idles /\ Rearms)'
    BY <1>0 DEF Saved, CalmEnd, Idles, Rearms
  <1>1. CASE Edits
    <2>1. Mute /\ Rested /\ timer' /\ UNCHANGED <<uiBusy, pendingOps, aError>>
      BY <1>1 DEF Edits, Silent, Aside, Rested, WorkInMail
    <2> QED BY <2>1, SavedFollowed
  <1>2. CASE Rests
    <2>1. Mute /\ Rested /\ ~(dirty /\ ~uiBusy) /\ dirty' = dirty /\ UNCHANGED <<uiBusy, pendingOps, aError>>
      BY <1>2 DEF Rests, Silent, Aside, Rested, WorkInMail
    <2>2. Grows
      BY <2>1, Grown
    <2>3. (CalmEnd /\ Idles)'
      <3>1. NoAnswers' <=> NoAnswers
        BY <2>1, Positions DEF NoAnswers
      <3>2. \A i : LastStates(i)' <=> LastStates(i)
        BY <2>1, Positions DEF LastStates
      <3> QED BY <2>1, <3>1, <3>2, Positions DEF Saved, CalmEnd, Idles
    <2>4. Rearms'
      <3> SUFFICES ASSUME NEW k, LastAnswer(k)'
                   PROVE  /\ out'[k].ok = ~aError /\ (k = 1 => ~uiBusy)
                          /\ \A o \in PendingLoads : o.id = out'[k].id /\ out'[k].ok =>
                               (Rearmed(k) \/ \E i : EndsAt(i, k, o.path))'
        BY <2>1 DEF Rearms, PendingLoads
      <3>1. LastAnswer(k) /\ out'[k] = out[k] /\ k \in DOMAIN out
        BY <2>1, Positions DEF LastAnswer
      <3>2. /\ out[k].ok = ~aError /\ (k = 1 => ~uiBusy)
            /\ \A o \in PendingLoads : o.id = out[k].id /\ out[k].ok =>
                    Rearmed(k) \/ \E i : EndsAt(i, k, o.path)
        BY <2>1, <3>1 DEF Saved, Rearms
      <3>3. Rearmed(k) => Rearmed(k)'
        BY <2>1, <2>2, <3>1, SameBefore DEF Rearmed
      <3>4. \A i, p : EndsAt(i, k, p) => EndsAt(i, k, p)'
        BY <2>1, <2>2, <3>1, SameBefore
      <3> QED BY <3>1, <3>2, <3>3, <3>4
    <2> QED BY <2>3, <2>4
  <1>3. CASE Announces
    <2>1. /\ Rested /\ UNCHANGED <<uiBusy, pendingOps, aError, dirty, timer>>
      BY <1>3 DEF Announces, Silent, Aside, UiAside, Rested, WorkInMail
    <2>2. \E s \in States : Emits(s) /\ ~s.busy
      BY <1>3, <2>1, RestedLoads DEF Announces
    <2> QED BY <2>1, <2>2, SavedFollowed
  <1>4. CASE Stays
    <2>1. Mute /\ Rested /\ UNCHANGED <<uiBusy, pendingOps, aError, dirty, timer>>
      BY <1>4 DEF Stays, Silent, Aside, UiAside, Rested, WorkInMail
    <2> QED BY <2>1, SavedFollowed
  <1>5. CASE \E o \in Requests, x \in Signals : AsksFor(o, x)
    BY <1>5 DEF AsksFor, Sends, Rested, WorkInMail
  <1>6. CASE \E x \in Signals : Asides(x)
    <2>1. Mute /\ Rested /\ UNCHANGED <<uiBusy, pendingOps, aError, dirty, timer>>
      BY <1>6 DEF Asides, Sends, Aside, UiAside, Rested, WorkInMail
    <2> QED BY <2>1, SavedFollowed
  <1>7. ASSUME NEW s \in States, Sees(s) PROVE (CalmEnd /\ Idles /\ Rearms)'
    <2>1. Rested
      BY <1>7 DEF Sees, Silent, Aside, Rested, WorkInMail
    <2> QED BY <1>7, <2>1, SavedSees
  <1>8. ASSUME NEW f \in Answers, NEW o \in pendingOps, Hears(f, o) PROVE (CalmEnd /\ Idles /\ Rearms)'
    <2>1. Rested
      BY <1>8 DEF Hears, Silent, Aside, Rested, WorkInMail
    <2> QED BY <1>8, <2>1, SavedHears
  <1>9. ASSUME NEW m \in InMail, Handles(m) PROVE (CalmEnd /\ Idles /\ Rearms)'
    <2>1. ~Work(m)
      BY <1>9 DEF Handles, Rested
    <2>2. Rested /\ UNCHANGED <<uiBusy, pendingOps, dirty, timer>> /\ aBusy' = FALSE /\ aError' = aError
      BY <1>9, <2>1 DEF Handles, Takes, UiAside, Rested, WorkInMail, TypeOK
    <2>3. Mute \/ \E s \in States : Emits(s) /\ ~s.busy
      BY <1>9, <2>2 DEF Handles
    <2> QED BY <2>2, <2>3, SavedFollowed
  <1>10. ASSUME NEW m \in aOp, NEW ok \in BOOLEAN, Loads(m, ok) \/ Saves(m, ok)
         PROVE  (CalmEnd /\ Idles /\ Rearms)'
    <2>1. ~WorkInMail
      BY <1>10 DEF Loads, Saves, Finishes, Silent, Rested, WorkInMail
    <2> QED BY <1>10, <2>1, SavedFinishes
  <1> QED BY <1>1, <1>2, <1>3, <1>4, <1>5, <1>6, <1>7, <1>8, <1>9, <1>10 DEF Step

(* Quiet, and no error shown: nothing is pending, and no edit unsaved. *)
LEMMA QuietIsSettled ==
    ASSUME TypeOK, Ledger, Told, Saved, Quiet, ~uiError
    PROVE  ~dirty /\ pendingOps = {}
  <1>1. /\ \A i : i \notin DOMAIN out
        /\ InMail = {}
    <2>1. mail = <<>> /\ out = <<>>
      BY DEF Quiet
    <2>2. DOMAIN out = 1..0
      BY <2>1, OutTypes
    <2> QED BY <2>1, <2>2 DEF InMail
  <1>2. aOp = {} /\ ~timer /\ Rested /\ NoAnswers /\ ~LoadAhead /\ NoStates
    BY <1>1 DEF Quiet, Rested, WorkInMail, NoAnswers, LoadAhead, NoStates
  <1>3. uiError = aError
    BY <1>2 DEF Told, UiSees
  <1>4. ~dirty
    BY <1>2, <1>3 DEF Saved, Idles
  <1>5. \A o : o \notin pendingOps
    BY <1>1, <1>2 DEF Ledger, Placed, Mailed, Held, AnsweredAt
  <1> QED BY <1>4, <1>5

-----------------------------------------------------------------------------
(* Files.  While nothing has mixed lists up, the actor handles requests in *)
(* the order they were made: what is shown, sent, kept or written for a    *)
(* path is that path's list.                                               *)

LoadMailed      == \E m \in InMail : m.type = "LoadConfig"
NoLoadAfter(m)  == \A n \in InMail : m.id < n.id => n.type # "LoadConfig"
AnswerAfter(i)  == \E o \in LatestLoad : \E k : k > i /\ AnsweredAt(k, o.id)
LoadAnswered(k) == \E o \in PendingLoads : AnsweredAt(k, o.id)
Landed          == ~LoadAhead /\ \A k : LoadAnswered(k) => k = 1
Intact(l)       == l.whole \/ Torn(l.from)
Whole(l, p)     == l.from = p /\ Intact(l)
Chosen      == \A o \in LatestLoad : o.path = uiPath
FilesOwn    == \A p \in Paths : Whole(md[p], p)
MailOwn     == /\ \A m \in InMail : NoLoadAfter(m) => m.path = uiPath
               /\ \A m \in InMail \cup aOp : m.type = "SaveConfig" => Whole(m.items, m.path)
ActorOwn    == /\ ~LoadMailed => aPath = uiPath
               /\ ~LoadAhead => aItems.from = uiPath
               /\ Intact(aItems) \/ aBusy \/ aError
StatesOwn   == \A i \in DOMAIN out : IsState(i) =>
                 /\ ~out[i].busy /\ ~out[i].error => Intact(out[i].items)
                 /\ ~LoadAhead /\ ~AnswerAfter(i) => out[i].path = uiPath /\ out[i].items.from = uiPath
AnswersOwn  == \A k \in DOMAIN out : IsAnswer(k) /\ k > 1 => out[k - 1].items.from = out[k - 1].path
ShownOwn    == /\ Landed => uiItems.from = uiPath
               /\ dirty => Intact(uiItems)
LoadsLast   == \A o \in PendingLoads : /\ o.rev = rev
                                       /\ \A q \in pendingOps : q.kind = "save" => q.id < o.id
Own         == Chosen /\ FilesOwn /\ MailOwn /\ ActorOwn /\ StatesOwn /\ AnswersOwn /\ ShownOwn /\ LoadsLast

(* A set of numbers has a least one. *)
LEMMA LeastNumber ==
    ASSUME NEW T \in SUBSET Nat, T # {}
    PROVE  \E n \in T : \A t \in T : n <= t
  <1>1. \E n \in T : \A t \in T : <<t, n>> \notin OpToRel(<, Nat)
    BY NatLessThanWellFounded, WFMin, Zenon
  <1>2. \A n, t \in Nat : t < n => <<t, n>> \in OpToRel(<, Nat)
    BY Zenon DEF OpToRel
  <1>3. \E n \in T : \A t \in T : ~(t < n)
    BY <1>1, <1>2, Zenon
  <1> QED BY <1>3

(* Of several loads one is the latest. *)
LEMMA SomeLatest ==
    ASSUME TypeOK, Ledger, PendingLoads # {}
    PROVE  LatestLoad # {}
  <1> DEFINE T == {used.ids - o.id : o \in PendingLoads}
  <1>1. \A o \in PendingLoads : o.id \in Nat /\ o.id <= used.ids
    BY Ids DEF PendingLoads, Ledger, Numbered
  <1>2. T \in SUBSET Nat /\ T # {} /\ used.ids \in Nat
    BY <1>1, Ids
  <1>3. PICK n \in T : \A t \in T : n <= t
    <2> HIDE DEF T
    <2> QED BY <1>2, LeastNumber
  <1>4. PICK o \in PendingLoads : n = used.ids - o.id
    BY <1>3
  <1>5. ASSUME NEW q \in PendingLoads PROVE q.id <= o.id
    <2>1. n <= used.ids - q.id
      BY <1>3
    <2> QED BY <1>1, <1>2, <1>4, <2>1
  <1> QED BY <1>5 DEF LatestLoad

(* A load on its way is pending. *)
LEMMA LoadsPend ==
    ASSUME TypeOK, Ledger, NEW m \in InMail \cup aOp, m.type = "LoadConfig"
    PROVE  \E o \in PendingLoads : o.id = m.id /\ o.path = m.path
  <1>1. Work(m) /\ KindOf(m) = "load"
    BY DEF Work, KindOf
  <1>2. Asked(m)
    BY <1>1 DEF Ledger, Remembered
  <1> QED BY <1>1, <1>2 DEF Asked, PendingLoads

(* At first every list is its path's. *)
LEMMA InitOwn == Init => Own
  <1> SUFFICES ASSUME Init PROVE Own
    OBVIOUS
  <1>1. \A p \in Paths : md[p].from = p /\ md[p].whole
    BY DEF Init
  <1>2. /\ InMail = {} /\ aOp = {} /\ pendingOps = {} /\ uiPath = FirstPath /\ aPath = FirstPath
        /\ uiItems = md[FirstPath] /\ aItems = md[FirstPath] /\ FirstPath \in Paths
    BY SyncAssumption DEF Init, InMail
  <1>3. \A i : i \notin DOMAIN out
    <2>1. DOMAIN out = 1..0
      BY InitTypes, OutTypes DEF Init
    <2> QED BY <2>1
  <1>4. PendingLoads = {} /\ LatestLoad = {}
    BY <1>2 DEF PendingLoads, LatestLoad
  <1>5. Chosen /\ FilesOwn /\ LoadsLast
    BY <1>1, <1>4 DEF Chosen, FilesOwn, Whole, Intact, LoadsLast
  <1>6. MailOwn /\ ActorOwn
    BY <1>1, <1>2 DEF MailOwn, ActorOwn, Intact
  <1>7. StatesOwn /\ AnswersOwn
    BY <1>3 DEF StatesOwn, AnswersOwn
  <1>8. ShownOwn
    BY <1>1, <1>2 DEF ShownOwn, Intact
  <1> QED BY <1>5, <1>6, <1>7, <1>8 DEF Own

(* Steps that only move the UI's own edits and signals. *)
LEMMA OwnMute ==
    ASSUME TypeOK, Ledger, Own, Mute, Aside, PendingLoads' = PendingLoads, uiPath' = uiPath,
           LoadMailed' <=> LoadMailed
    PROVE  (Chosen /\ FilesOwn /\ ActorOwn /\ StatesOwn /\ AnswersOwn)' /\ (Landed' <=> Landed)
  <1>1. LatestLoad' = LatestLoad
    BY DEF LatestLoad
  <1>2. LoadAhead' <=> LoadAhead
    BY DEF LoadAhead, LoadMailed, Aside
  <1>3. \A k, i : AnsweredAt(k, i)' <=> AnsweredAt(k, i)
    BY AnswersMove
  <1>4. \A i : AnswerAfter(i)' <=> AnswerAfter(i)
    BY <1>1, <1>3 DEF AnswerAfter
  <1>5. \A k : LoadAnswered(k)' <=> LoadAnswered(k)
    BY <1>3 DEF LoadAnswered
  <1>6. (Chosen /\ FilesOwn /\ ActorOwn)'
    BY <1>1, <1>2 DEF Own, Chosen, FilesOwn, ActorOwn, Whole, Intact, Torn, Aside
  <1>7. (StatesOwn /\ AnswersOwn)'
    BY <1>2, <1>4, Positions DEF Own, StatesOwn, AnswersOwn, Intact, Torn, Aside
  <1>8. Landed' <=> Landed
    BY <1>2, <1>5 DEF Landed
  <1> QED BY <1>6, <1>7, <1>8

(* An edit keeps the path of the list. *)
LEMMA OwnEdits == ASSUME TypeOK, Ledger, Own, Edits, mixed' = {} PROVE Own'
  <1>1. /\ torn' = torn /\ Mute /\ Aside /\ InMail' = InMail /\ aOp' = aOp /\ pendingOps' = pendingOps /\ uiPath' = uiPath
        /\ PendingLoads = {} /\ uiItems.whole /\ uiItems' = [uiItems EXCEPT !.ed = used.edits + 1] /\ uiItems \in Lists
    BY Ids DEF Edits, Silent, Aside
  <1>2. PendingLoads' = PendingLoads /\ (LoadMailed' <=> LoadMailed)
    BY <1>1 DEF PendingLoads, LoadMailed
  <1>3. (Chosen /\ FilesOwn /\ ActorOwn /\ StatesOwn /\ AnswersOwn)' /\ (Landed' <=> Landed)
    BY <1>1, <1>2, OwnMute
  <1>4. MailOwn'
    BY <1>1 DEF Own, MailOwn, NoLoadAfter, Whole, Intact, Torn
  <1>5. ShownOwn'
    <2>1. uiItems'.from = uiItems.from /\ uiItems'.whole = uiItems.whole
      BY <1>1 DEF Lists
    <2> QED BY <1>1, <1>3, <2>1 DEF Own, ShownOwn, Intact, Torn
  <1>6. LoadsLast'
    BY <1>1, <1>2 DEF LoadsLast
  <1> QED BY <1>3, <1>4, <1>5, <1>6 DEF Own

(* A timer that does nothing, and no step, change no list. *)
LEMMA OwnRests == ASSUME TypeOK, Ledger, Own, Rests \/ Stays PROVE Own'
  <1>1. /\ torn' = torn /\ Mute /\ Aside /\ InMail' = InMail /\ aOp' = aOp /\ pendingOps' = pendingOps /\ uiPath' = uiPath
        /\ uiItems' = uiItems /\ dirty' = dirty /\ rev' = rev
    BY DEF Rests, Stays, Silent, Aside, UiAside
  <1>2. PendingLoads' = PendingLoads /\ (LoadMailed' <=> LoadMailed)
    BY <1>1 DEF PendingLoads, LoadMailed
  <1>3. (Chosen /\ FilesOwn /\ ActorOwn /\ StatesOwn /\ AnswersOwn)' /\ (Landed' <=> Landed)
    BY <1>1, <1>2, OwnMute
  <1>4. MailOwn' /\ ShownOwn' /\ LoadsLast'
    BY <1>1, <1>2, <1>3 DEF Own, MailOwn, NoLoadAfter, Whole, ShownOwn, LoadsLast, Intact, Torn
  <1> QED BY <1>3, <1>4 DEF Own

(* A signal for the accounts carries the selected path. *)
LEMMA OwnAsides == ASSUME TypeOK, Ledger, Own, NEW x \in Signals, Asides(x) PROVE Own'
  <1>1. /\ torn' = torn /\ Mute /\ Aside /\ InMail' = InMail \cup {x} /\ aOp' = aOp /\ pendingOps' = pendingOps /\ uiPath' = uiPath
        /\ uiItems' = uiItems /\ dirty' = dirty /\ rev' = rev /\ x.type = "LoadCodexAccounts" /\ x.path = uiPath
    BY DEF Asides, Sends, Aside, UiAside, Work
  <1>2. PendingLoads' = PendingLoads /\ (LoadMailed' <=> LoadMailed)
    BY <1>1 DEF PendingLoads, LoadMailed
  <1>3. (Chosen /\ FilesOwn /\ ActorOwn /\ StatesOwn /\ AnswersOwn)' /\ (Landed' <=> Landed)
    BY <1>1, <1>2, OwnMute
  <1>4. MailOwn'
    <2>1. \A m : NoLoadAfter(m)' <=> NoLoadAfter(m)
      BY <1>1 DEF NoLoadAfter
    <2> QED BY <1>1, <2>1 DEF Own, MailOwn, Whole, Intact, Torn
  <1>5. ShownOwn' /\ LoadsLast'
    BY <1>1, <1>2, <1>3 DEF Own, ShownOwn, LoadsLast, Intact, Torn
  <1> QED BY <1>3, <1>4, <1>5 DEF Own

(* A load selects its path; a save carries the selected path's list. *)
LEMMA OwnAsks ==
    ASSUME TypeOK, Ledger, Own, NEW o \in Requests, NEW x \in Signals, AsksFor(o, x), mixed' = {}
    PROVE  Own'
  <1>1. /\ torn' = torn /\ Mute /\ Aside /\ InMail' = InMail \cup {x} /\ aOp' = aOp /\ pendingOps' = pendingOps \cup {o}
        /\ uiPath' = o.path /\ uiItems' = uiItems /\ dirty' = dirty /\ rev' = rev
        /\ x.id = o.id /\ o.id = used.ids + 1 /\ x.path = o.path /\ x.items = uiItems /\ o.rev = rev
        /\ o.kind = KindOf(x) /\ Work(x)
    BY DEF AsksFor, Sends, Aside
  <1>2. /\ \A m \in InMail : m.id < x.id
        /\ \A q \in pendingOps : q.id < o.id
    BY <1>1, Ids DEF Ledger, Numbered
  <1>3. CASE o.kind = "load"
    <2>1. x.type = "LoadConfig"
      BY <1>1, <1>3 DEF KindOf
    <2>2. LoadMailed' /\ LoadAhead'
      BY <1>1, <2>1 DEF LoadMailed, LoadAhead
    <2>3. PendingLoads' = PendingLoads \cup {o}
      BY <1>1, <1>3 DEF PendingLoads
    <2>4. Chosen'
      <3> SUFFICES ASSUME NEW q \in LatestLoad' PROVE q = o
        BY <1>1 DEF Chosen
      <3>1. q \in pendingOps \cup {o} /\ o.id <= q.id
        BY <1>1, <2>3 DEF LatestLoad, PendingLoads
      <3> QED BY <1>2, <3>1, Ids DEF Requests
    <2>5. FilesOwn'
      BY <1>1 DEF Own, FilesOwn, Whole, Aside, Intact, Torn
    <2>6. MailOwn'
      <3>1. \A m \in InMail : ~NoLoadAfter(m)'
        BY <1>1, <1>2, <2>1 DEF NoLoadAfter
      <3> QED BY <1>1, <2>1, <3>1 DEF Own, MailOwn, Whole, Intact, Torn
    <2>7. ActorOwn'
      BY <1>1, <2>2 DEF Own, ActorOwn, Aside, Intact, Torn
    <2>8. StatesOwn' /\ AnswersOwn'
      BY <1>1, <2>2, Positions DEF Own, StatesOwn, AnswersOwn, Intact, Torn
    <2>9. ShownOwn'
      BY <1>1, <2>2 DEF Own, ShownOwn, Landed, Intact, Torn
    <2>10. LoadsLast'
      BY <1>1, <1>2, <1>3, <2>3 DEF Own, LoadsLast
    <2> QED BY <2>4, <2>5, <2>6, <2>7, <2>8, <2>9, <2>10 DEF Own
  <1>4. CASE o.kind = "save"
    <2>1. x.type = "SaveConfig"
      BY <1>1, <1>4 DEF KindOf, Signals, Types, Work
    <2>2. dirty /\ PendingLoads = {} /\ uiPath' = uiPath
      BY <1>1, <1>4 DEF AsksFor
    <2>3. PendingLoads' = {}
      BY <1>1, <1>4, <2>2 DEF PendingLoads
    <2>4. LoadMailed' <=> LoadMailed
      BY <1>1, <2>1 DEF LoadMailed
    <2>5. (Chosen /\ FilesOwn /\ ActorOwn /\ StatesOwn /\ AnswersOwn)' /\ (Landed' <=> Landed)
      BY <1>1, <2>2, <2>3, <2>4, OwnMute
    <2>6. Whole(uiItems, uiPath)
      <3>1. ~LoadAhead
        BY <2>2, LoadsPend DEF LoadAhead
      <3>2. Landed
        BY <2>2, <3>1 DEF Landed, LoadAnswered
      <3> QED BY <2>2, <3>2 DEF Own, ShownOwn, Whole, Intact, Torn
    <2>7. MailOwn'
      <3>1. \A m \in InMail : NoLoadAfter(m)' => NoLoadAfter(m)
        BY <1>1 DEF NoLoadAfter
      <3> QED BY <1>1, <2>1, <2>2, <2>6, <3>1 DEF Own, MailOwn, Whole, Intact, Torn
    <2>8. ShownOwn' /\ LoadsLast'
      BY <1>1, <2>2, <2>3, <2>5 DEF Own, ShownOwn, LoadsLast, Intact, Torn
    <2> QED BY <2>5, <2>7, <2>8 DEF Own
  <1> QED BY <1>3, <1>4 DEF Requests

(* What the actor emits is its own, and what went before is as it was. *)
LEMMA OwnEmits ==
    ASSUME TypeOK, TypeOK', StatesOwn, AnswersOwn, ActorOwn', NEW s \in States, Emits(s),
           s.path = aPath', s.items = aItems', s.busy = aBusy', s.error = aError',
           UNCHANGED <<uiPath, pendingOps, torn>>, LoadAhead => LoadAhead'
    PROVE  (StatesOwn /\ AnswersOwn)'
  <1>0. Len(out) \in Nat /\ DOMAIN out = 1..Len(out)
    BY OutTypes
  <1>1. PICK l : l = Len(out) + 1
    OBVIOUS
  <1>2. /\ DOMAIN out' = 1..l /\ out'[l] = s /\ IsState(l)' /\ ~IsAnswer(l)' /\ l \in Nat
        /\ \A i \in 1..l : i = l \/ i \in DOMAIN out
        /\ \A i \in DOMAIN out : /\ out'[i] = out[i]
                                 /\ IsState(i)' <=> IsState(i)
                                 /\ IsAnswer(i)' <=> IsAnswer(i)
    BY <1>0, <1>1, Positions
  <1>3. \A i : AnswerAfter(i)' <=> AnswerAfter(i)
    <2>1. LatestLoad' = LatestLoad
      BY DEF LatestLoad, PendingLoads
    <2>2. \A k, i : AnsweredAt(k, i)' <=> AnsweredAt(k, i)
      BY AnswersMove
    <2> QED BY <2>1, <2>2 DEF AnswerAfter
  <1>4. StatesOwn'
    <2> SUFFICES ASSUME NEW i \in DOMAIN out', IsState(i)'
                 PROVE  /\ ~out'[i].busy /\ ~out'[i].error => Intact(out[i].items)'
                        /\ ~LoadAhead' /\ ~AnswerAfter(i)' => out'[i].path = uiPath /\ out'[i].items.from = uiPath
      BY DEF StatesOwn
    <2>1. CASE i = l
      <3>1. ~LoadAhead' => ~LoadMailed'
        BY DEF LoadAhead, LoadMailed
      <3> QED BY <1>2, <2>1, <3>1 DEF ActorOwn, Intact, Torn
    <2>2. CASE i \in DOMAIN out
      BY <1>2, <1>3, <2>2 DEF StatesOwn, Intact, Torn
    <2> QED BY <1>2, <2>1, <2>2
  <1>5. AnswersOwn'
    <2> SUFFICES ASSUME NEW k \in DOMAIN out', IsAnswer(k)', k > 1
                 PROVE  out'[k - 1].items.from = out'[k - 1].path
      BY DEF AnswersOwn
    <2>1. k \in DOMAIN out /\ IsAnswer(k)
      BY <1>2
    <2>2. PICK e : e = k - 1
      OBVIOUS
    <2>3. e \in DOMAIN out
      BY <1>0, <2>1, <2>2
    <2>4. out'[e] = out[e] /\ out[e].items.from = out[e].path
      BY <1>2, <2>1, <2>2, <2>3 DEF AnswersOwn
    <2> QED BY <2>2, <2>4
  <1> QED BY <1>4, <1>5

(* An announcement shows the actor's own list. *)
LEMMA OwnAnnounces == ASSUME TypeOK, TypeOK', Ledger, Own, Announces PROVE Own'
  <1>1. /\ torn' = torn /\ Aside /\ InMail' = InMail /\ aOp' = aOp /\ pendingOps' = pendingOps /\ uiPath' = uiPath
        /\ uiItems' = uiItems /\ dirty' = dirty /\ rev' = rev
    BY DEF Announces, Silent, Aside, UiAside
  <1>2. PICK s \in States : Emits(s) /\ s.path = aPath /\ s.items = aItems /\ s.busy = aBusy /\ s.error = aError
    BY DEF Announces
  <1>3. /\ PendingLoads' = PendingLoads /\ LatestLoad' = LatestLoad
        /\ (LoadAhead' <=> LoadAhead) /\ (LoadMailed' <=> LoadMailed)
    BY <1>1 DEF PendingLoads, LatestLoad, LoadAhead, LoadMailed
  <1>4. \A k : LoadAnswered(k)' <=> LoadAnswered(k)
    <2>1. \A k, i : AnsweredAt(k, i)' <=> AnsweredAt(k, i)
      BY <1>2, AnswersMove
    <2> QED BY <1>3, <2>1 DEF LoadAnswered
  <1>5. Chosen' /\ FilesOwn' /\ MailOwn' /\ ShownOwn' /\ LoadsLast'
    BY <1>1, <1>3, <1>4 DEF Own, Aside, Chosen, FilesOwn, MailOwn, NoLoadAfter, ShownOwn, Landed, LoadsLast, Whole, Intact, Torn
  <1>6. ActorOwn'
    BY <1>1, <1>3 DEF Own, Aside, ActorOwn, Intact, Torn
  <1>7. StatesOwn' /\ AnswersOwn'
    BY <1>1, <1>2, <1>3, <1>6, OwnEmits DEF Own, Aside
  <1> QED BY <1>5, <1>6, <1>7 DEF Own

(* The actor takes the oldest signal: its path is selected unless a load follows. *)
LEMMA OwnHandles ==
    ASSUME TypeOK, TypeOK', Ledger, Own, NEW m \in InMail, Handles(m), mixed' = {}
    PROVE  Own'
  <1>1. /\ torn' = torn /\ aOp = {} /\ InMail' = InMail \ {m} /\ pendingOps' = pendingOps /\ uiPath' = uiPath /\ md' = md
        /\ uiItems' = uiItems /\ dirty' = dirty /\ rev' = rev /\ aPath' = m.path
        /\ aItems' = (IF m.type = "SaveConfig" THEN m.items ELSE aItems)
        /\ aBusy' = Work(m) /\ aError' = (aError /\ ~Work(m))
        /\ aOp' = (IF Work(m) THEN {m} ELSE {})
        /\ \A n \in InMail \ {m} : m.id < n.id
    BY DEF Handles, Takes, UiAside
  <1>2. aBusy = FALSE /\ PendingLoads' = PendingLoads /\ LatestLoad' = LatestLoad
    BY <1>1 DEF Ledger, OneOp, PendingLoads, LatestLoad
  <1>3. LoadAhead' <=> LoadAhead
    BY <1>1 DEF LoadAhead, Work
  <1>4. ~LoadMailed' => NoLoadAfter(m)
    BY <1>1, Ids DEF LoadMailed, NoLoadAfter
  <1>5. ActorOwn'
    <2>1. ~LoadMailed' => aPath' = uiPath'
      BY <1>1, <1>4 DEF Own, MailOwn
    <2>2. ~LoadAhead' => aItems'.from = uiPath'
      <3> SUFFICES ASSUME ~LoadAhead' PROVE aItems'.from = uiPath
        BY <1>1
      <3>1. ~LoadMailed' /\ ~LoadAhead
        BY <1>3 DEF LoadAhead, LoadMailed
      <3>2. CASE m.type = "SaveConfig"
        <4>1. Whole(m.items, m.path) /\ m.path = uiPath
          BY <1>4, <3>1, <3>2 DEF Own, MailOwn
        <4> QED BY <1>1, <3>2, <4>1 DEF Whole, Intact, Torn
      <3>3. CASE m.type # "SaveConfig"
        BY <1>1, <3>1, <3>3 DEF Own, ActorOwn, Intact, Torn
      <3> QED BY <3>2, <3>3
    <2>3. Intact(aItems)' \/ aBusy' \/ aError'
      <3>1. CASE m.type = "SaveConfig"
        BY <1>1, <3>1 DEF Own, MailOwn, Whole, Intact, Torn
      <3>2. CASE m.type # "SaveConfig"
        BY <1>1, <1>2, <3>2 DEF Own, ActorOwn, Intact, Torn
      <3> QED BY <3>1, <3>2
    <2> QED BY <2>1, <2>2, <2>3 DEF ActorOwn, Intact, Torn
  <1>6. MailOwn'
    <2>1. \A n \in InMail' : NoLoadAfter(n)' => NoLoadAfter(n)
      <3> SUFFICES ASSUME NEW n \in InMail', NEW y \in InMail, n.id < y.id, y = m PROVE FALSE
        BY <1>1 DEF NoLoadAfter
      <3>1. m.id < n.id /\ m.id \in Nat /\ n.id \in Nat
        BY <1>1, Ids
      <3> QED BY <3>1
    <2> QED BY <1>1, <2>1 DEF Own, MailOwn, Whole, Intact, Torn
  <1>7. \A k, i : AnsweredAt(k, i)' <=> AnsweredAt(k, i)
    <2>1. Mute \/ \E s \in States : Emits(s)
      BY DEF Handles
    <2> QED BY <2>1, AnswersMove
  <1>8. Chosen' /\ FilesOwn' /\ ShownOwn' /\ LoadsLast'
    BY <1>1, <1>2, <1>3, <1>7 DEF Own, Chosen, FilesOwn, ShownOwn, Landed, LoadAnswered, LoadsLast, Whole, Intact, Torn
  <1>9. StatesOwn' /\ AnswersOwn'
    <2>1. CASE Mute
      <3>1. \A i : AnswerAfter(i)' <=> AnswerAfter(i)
        BY <1>2, <1>7 DEF AnswerAfter
      <3> QED BY <1>1, <1>3, <2>1, <3>1, Positions DEF Own, StatesOwn, AnswersOwn, Intact, Torn
    <2>2. ASSUME NEW s \in States, Emits(s), s.path = aPath', s.items = aItems', s.busy = aBusy', s.error = aError'
          PROVE  StatesOwn' /\ AnswersOwn'
      BY <1>1, <1>3, <1>5, <2>2, OwnEmits DEF Own
    <2> QED BY <2>1, <2>2 DEF Handles
  <1> QED BY <1>5, <1>6, <1>8, <1>9 DEF Own

(* The end of a load or save: its states are the actor's own, and no load  *)
(* but the latest is answered after them.                                  *)
LEMMA OwnEnds ==
    ASSUME TypeOK, TypeOK', Ledger, Own, NEW m \in aOp, NEW ok \in BOOLEAN, Finishes(m, ok), FilesOwn',
           torn \subseteq torn', aItems'.from = aPath, ok => Intact(aItems)',
           m.type # "LoadConfig" => aItems' = aItems
    PROVE  Own'
  <1>0. Len(out) \in Nat /\ DOMAIN out = 1..Len(out)
    BY OutTypes
  <1>1. /\ aOp' = {} /\ InMail' = InMail /\ pendingOps' = pendingOps /\ uiPath' = uiPath /\ aPath' = aPath
        /\ uiItems' = uiItems /\ dirty' = dirty /\ rev' = rev /\ aBusy' = FALSE /\ aError' = ~ok
        /\ m.path = aPath /\ \A n \in aOp : n = m
    BY DEF Finishes, Silent, UiAside, Ledger, OneOp
  <1>2. PendingLoads' = PendingLoads /\ LatestLoad' = LatestLoad /\ (LoadMailed' <=> LoadMailed)
        /\ (LoadAhead' <=> LoadMailed)
    BY <1>1 DEF PendingLoads, LatestLoad, LoadMailed, LoadAhead
  <1>3. PICK s \in States, n \in 1..2, f \in Answers :
          /\ s.path = aPath /\ s.items = aItems' /\ ~s.busy /\ s.error = ~ok
          /\ f.id = m.id /\ f.ok = ok /\ Ends(s, n, f)
    BY DEF Finishes
  <1>4. PICK l : l = Len(out) + n + 1
    OBVIOUS
  <1>5. /\ DOMAIN out' = 1..l /\ l \in Nat /\ l > 1 /\ out'[l] = f /\ IsAnswer(l)' /\ ~IsState(l)'
        /\ \A i \in (Len(out) + 1)..(Len(out) + n) : out'[i] = s /\ IsState(i)' /\ ~IsAnswer(i)'
        /\ \A i \in DOMAIN out : /\ out'[i] = out[i]
                                 /\ IsState(i)' <=> IsState(i)
                                 /\ IsAnswer(i)' <=> IsAnswer(i)
    BY <1>0, <1>3, <1>4, Positions
  <1>6. /\ \A i \in 1..l : i \in DOMAIN out \/ i \in (Len(out) + 1)..(Len(out) + n) \/ i = l
        /\ \A i \in 1..l : i < l \/ i = l
    BY <1>0, <1>3, <1>4
  <1>7. \A k, i : AnsweredAt(k, i)' <=> AnsweredAt(k, i) \/ (k = l /\ i = m.id)
    BY <1>3, <1>4, AnswersMove
  <1>8. ASSUME m.type = "LoadConfig" PROVE StatesOwn' /\ ShownOwn'
    <2>1. ~LoadMailed => \A i \in 1..l : i < l => AnswerAfter(i)'
      <3> SUFFICES ASSUME ~LoadMailed PROVE \E o \in LatestLoad : o.id = m.id
        BY <1>2, <1>7 DEF AnswerAfter
      <3>1. PICK o \in PendingLoads : o.id = m.id
        BY <1>8, LoadsPend
      <3>2. ASSUME NEW q \in PendingLoads, o.id < q.id PROVE FALSE
        <4>1. Mailed(q.id)
          <5>1. Held(o.id) /\ Alike(o, q) /\ o \in pendingOps /\ q \in pendingOps
            BY <3>1 DEF Held, Alike, PendingLoads
          <5> QED BY <3>2, <5>1 DEF Ledger, InTurn
        <4>2. PICK y \in InMail : y.id = q.id
          BY <4>1 DEF Mailed
        <4>3. Work(y) /\ Asked(y)
          BY <4>2 DEF Ledger, Remembered, PendingLoads
        <4>4. KindOf(y) = "load"
          BY <4>2, <4>3 DEF Asked, Ledger, Unique, PendingLoads
        <4> QED BY <4>4 DEF KindOf, LoadMailed
      <3>3. LatestLoad = {o}
        BY <3>2, OnlyLatest
      <3> QED BY <3>1, <3>3
    <2>2. StatesOwn'
      <3> SUFFICES ASSUME NEW i \in 1..l, IsState(i)'
                   PROVE  /\ ~out'[i].busy /\ ~out'[i].error => Intact(out[i].items)'
                          /\ LoadAhead' \/ AnswerAfter(i)'
        BY <1>5 DEF StatesOwn, Intact, Torn
      <3>1. LoadAhead' \/ AnswerAfter(i)'
        BY <1>2, <1>5, <1>6, <2>1
      <3>2. CASE i \in DOMAIN out
        BY <1>5, <3>1, <3>2 DEF Own, StatesOwn, Intact, Torn
      <3>3. CASE i \in (Len(out) + 1)..(Len(out) + n)
        BY <1>3, <1>5, <3>1, <3>3
      <3> QED BY <1>5, <1>6, <3>2, <3>3
    <2>3. ShownOwn'
      <3>1. ~Landed'
        <4>1. LoadAnswered(l)'
          BY <1>2, <1>7, <1>8, LoadsPend DEF LoadAnswered
        <4> QED BY <1>5, <4>1 DEF Landed
      <3> QED BY <1>1, <3>1 DEF Own, ShownOwn, Intact, Torn
    <2> QED BY <2>2, <2>3
  <1>9. ASSUME m.type # "LoadConfig" PROVE StatesOwn' /\ ShownOwn'
    <2>1. aItems' = aItems /\ (LoadAhead' <=> LoadAhead)
      BY <1>1, <1>2, <1>9 DEF LoadAhead, LoadMailed
    <2>2. StatesOwn'
      <3> SUFFICES ASSUME NEW i \in 1..l, IsState(i)'
                   PROVE  /\ ~out'[i].busy /\ ~out'[i].error => Intact(out[i].items)'
                          /\ ~LoadAhead' /\ ~AnswerAfter(i)' => out'[i].path = uiPath /\ out'[i].items.from = uiPath
        BY <1>1, <1>5 DEF StatesOwn, Intact, Torn
      <3>1. AnswerAfter(i) => AnswerAfter(i)'
        BY <1>2, <1>7 DEF AnswerAfter
      <3>2. CASE i \in DOMAIN out
        BY <1>5, <2>1, <3>1, <3>2 DEF Own, StatesOwn, Intact, Torn
      <3>3. CASE i \in (Len(out) + 1)..(Len(out) + n)
        <4>1. ~LoadAhead' => aPath = uiPath /\ aItems.from = uiPath
          BY <2>1, <1>2 DEF Own, ActorOwn, LoadAhead, LoadMailed, Intact, Torn
        <4> QED BY <1>3, <1>5, <2>1, <3>3, <4>1
      <3> QED BY <1>5, <1>6, <3>2, <3>3
    <2>3. ShownOwn'
      <3>1. \A k : LoadAnswered(k) => LoadAnswered(k)'
        BY <1>2, <1>7 DEF LoadAnswered
      <3>2. Landed' => Landed
        BY <2>1, <3>1 DEF Landed
      <3> QED BY <1>1, <3>2 DEF Own, ShownOwn, Intact, Torn
    <2> QED BY <2>2, <2>3
  <1>10. Chosen' /\ MailOwn' /\ LoadsLast'
    BY <1>1, <1>2 DEF Own, Chosen, MailOwn, NoLoadAfter, LoadsLast, Whole, Intact, Torn
  <1>11. ActorOwn'
    <2>1. ~LoadAhead' => aPath = uiPath
      BY <1>2 DEF Own, ActorOwn, Intact, Torn
    <2> QED BY <1>1, <1>2, <2>1 DEF Own, ActorOwn, Intact, Torn
  <1>12. AnswersOwn'
    <2> SUFFICES ASSUME NEW k \in 1..l, IsAnswer(k)', k > 1
                 PROVE  out'[k - 1].items.from = out'[k - 1].path
      BY <1>5 DEF AnswersOwn
    <2>1. PICK e : e = k - 1
      OBVIOUS
    <2>2. CASE k = l
      <3>1. e \in (Len(out) + 1)..(Len(out) + n)
        BY <1>0, <1>3, <1>4, <2>1, <2>2
      <3> QED BY <1>3, <1>5, <2>1, <3>1
    <2>3. CASE k \in DOMAIN out
      <3>1. e \in DOMAIN out
        BY <1>0, <2>1, <2>3
      <3>2. IsAnswer(k) /\ out'[e] = out[e]
        BY <1>5, <2>3, <3>1
      <3> QED BY <2>1, <2>3, <3>2 DEF Own, AnswersOwn
    <2> QED BY <1>5, <1>6, <2>2, <2>3
  <1> QED BY <1>8, <1>9, <1>10, <1>11, <1>12 DEF Own

(* A load that ends has the file's list or the empty one. *)
LEMMA OwnLoads ==
    ASSUME TypeOK, TypeOK', Ledger, Own, NEW m \in aOp, NEW ok \in BOOLEAN, Loads(m, ok)
    PROVE  Own'
  <1>1. torn' = torn /\ md' = md /\ aItems' = LoadedList(aPath, ok) /\ Finishes(m, ok) /\ m.type = "LoadConfig" /\ aPath \in Paths
    BY DEF Loads, TypeOK
  <1>2. FilesOwn'
    BY <1>1 DEF Own, FilesOwn, Whole, Intact, Torn
  <1>3. aItems'.from = aPath /\ (ok => Intact(aItems)')
    BY <1>1 DEF LoadedList, Own, FilesOwn, Whole, Intact, Torn
  <1> QED BY <1>1, <1>2, <1>3, OwnEnds

(* A save that ends wrote the path's list. *)
LEMMA OwnSaves ==
    ASSUME TypeOK, TypeOK', Ledger, Own, NEW m \in aOp, NEW ok \in BOOLEAN, Saves(m, ok)
    PROVE  Own'
  <1>1. /\ aItems' = aItems /\ Finishes(m, ok) /\ m.type = "SaveConfig"
        /\ \E cut \in BOOLEAN : WritesFile(m, ok, cut)
        /\ md \in [Paths -> Lists] /\ torn \subseteq torn'
    BY DEF Saves, TypeOK, WritesFile
  <1>2. Whole(m.items, m.path) /\ m.path = aPath /\ m.items = aItems
    BY <1>1 DEF Own, MailOwn, Ledger, OneOp
  <1>3. FilesOwn'
    <2> SUFFICES ASSUME NEW p \in Paths PROVE Whole(md[p], p)'
      BY DEF FilesOwn
    <2>1. CASE md'[p] = md[p]
      BY <1>1, <2>1 DEF Own, FilesOwn, Whole, Intact, Torn
    <2>2. CASE p = m.path /\ ok
      <3>1. md'[p] = m.items
        BY <1>1, <2>2 DEF WritesFile
      <3> QED BY <1>1, <1>2, <2>2, <3>1 DEF Whole, Intact, Torn
    <2>3. CASE p = m.path /\ ~ok /\ md'[p] # md[p]
      <3>1. md'[p] = CutShort(m.items)
        BY <1>1, <2>3 DEF WritesFile
      <3>2. m.items \in Lists
        BY <1>1 DEF TypeOK, Signals
      <3>3. md'[p].from = p
        BY <1>2, <2>3, <3>1, <3>2 DEF CutShort, Lists, Whole
      <3>4. [path |-> m.path, ed |-> md[m.path].ed] \in torn'
        BY <1>1, <2>3 DEF WritesFile
      <3> QED BY <2>3, <3>3, <3>4 DEF Whole, Intact, Torn
    <2> QED BY <1>1, <2>1, <2>2, <2>3 DEF WritesFile
  <1>4. aItems'.from = aPath /\ (ok => Intact(aItems)')
    BY <1>1, <1>2 DEF Whole, Intact, Torn
  <1> QED BY <1>1, <1>3, <1>4, OwnEnds

(* A state that is seen shows the selected path's list, or is ignored. *)
LEMMA OwnSees ==
    ASSUME TypeOK, Ledger, Told, Own, NEW s \in States, Sees(s), mixed' = {}
    PROVE  Own' /\ uiPath' = uiPath
  <1>1. /\ torn' = torn /\ Consumes /\ s = out[1] /\ Aside /\ InMail' = InMail /\ aOp' = aOp /\ dirty' = dirty /\ rev' = rev
        /\ pendingOps' = pendingOps
    BY DEF Sees, Silent, Aside
  <1>2. /\ PendingLoads' = PendingLoads /\ LatestLoad' = LatestLoad
        /\ (LoadAhead' <=> LoadAhead) /\ (LoadMailed' <=> LoadMailed)
    BY <1>1 DEF PendingLoads, LatestLoad, LoadAhead, LoadMailed, Aside
  <1>3. /\ 1 \in DOMAIN out /\ Len(out) \in Nat /\ DOMAIN out = 1..Len(out) /\ IsState(1) /\ ~IsAnswer(1)
        /\ \A i \in DOMAIN out' : /\ i \in Nat /\ i >= 1 /\ i + 1 \in DOMAIN out /\ out'[i] = out[i + 1]
                                  /\ IsState(i)' <=> IsState(i + 1)
                                  /\ IsAnswer(i)' <=> IsAnswer(i + 1)
    <2>1. s.kind = "state"
      BY DEF States
    <2> QED BY <1>1, <2>1, Shifted, OutTypes DEF IsState, IsAnswer
  <1>4. \A k, i : AnsweredAt(k, i)' <=> k \in Nat /\ k >= 1 /\ AnsweredAt(k + 1, i)
    BY <1>1, AnswersMove
  <1>5. \A k, i : AnsweredAt(k, i) => k \in Nat /\ k > 1 /\ k \in DOMAIN out /\ k - 1 \in Nat /\ k - 1 >= 1 /\ (k - 1) + 1 = k
    <2> SUFFICES ASSUME NEW k, NEW i, AnsweredAt(k, i) PROVE k \in Nat /\ k > 1 /\ k \in DOMAIN out
      OBVIOUS
    <2>1. k \in 1..Len(out) /\ k # 1
      BY <1>3 DEF AnsweredAt
    <2> QED BY <1>3, <2>1
  <1>6. ASSUME ~LoadAhead, ~AnswerAfter(1)
        PROVE  PendingLoads = {} /\ LatestLoad = {} /\ s.path = uiPath /\ s.items.from = uiPath /\ Landed
    <2>1. PendingLoads = {}
      <3> SUFFICES ASSUME PendingLoads # {} PROVE AnswerAfter(1)
        BY <1>6
      <3>1. PICK o \in LatestLoad : TRUE
        BY SomeLatest
      <3>2. PICK k : AnsweredAt(k, o.id)
        BY <1>6, LoadsAnswered DEF LatestLoad
      <3> QED BY <1>5, <3>2 DEF AnswerAfter
    <2>2. s.path = uiPath /\ s.items.from = uiPath
      BY <1>1, <1>3, <1>6 DEF Own, StatesOwn, Intact, Torn
    <2> QED BY <1>6, <2>1, <2>2 DEF LatestLoad, Landed, LoadAnswered
  <1>7. ~Foreign(s) => s.path = uiPath
    <2> SUFFICES ASSUME ~Foreign(s) PROVE s.path = uiPath
      OBVIOUS
    <2>1. CASE LatestLoad # {}
      BY <2>1 DEF Foreign, Own, Chosen
    <2>2. CASE LatestLoad = {}
      <3>1. PendingLoads = {}
        BY <2>2, SomeLatest
      <3>2. ~LoadAhead
        BY <3>1, LoadsPend DEF LoadAhead
      <3>3. ~AnswerAfter(1)
        BY <2>2 DEF AnswerAfter
      <3> QED BY <1>6, <3>2, <3>3
    <2> QED BY <2>1, <2>2
  <1>8. uiPath' = uiPath
    BY <1>7 DEF Sees
  <1>9. Chosen' /\ FilesOwn' /\ MailOwn' /\ LoadsLast' /\ ActorOwn'
    BY <1>1, <1>2, <1>8 DEF Own, Chosen, FilesOwn, MailOwn, NoLoadAfter, LoadsLast, Whole, Aside, ActorOwn, Intact, Torn
  <1>10. StatesOwn'
    <2> SUFFICES ASSUME NEW i \in DOMAIN out', IsState(i)'
                 PROVE  /\ ~out'[i].busy /\ ~out'[i].error => Intact(out[i].items)'
                        /\ ~LoadAhead /\ ~AnswerAfter(i)' => out'[i].path = uiPath /\ out'[i].items.from = uiPath
      BY <1>2, <1>8 DEF StatesOwn, Intact, Torn
    <2>1. PICK j : j = i + 1
      OBVIOUS
    <2>2. j \in DOMAIN out /\ IsState(j) /\ out'[i] = out[j] /\ i \in Nat
      BY <1>3, <2>1
    <2>3. AnswerAfter(j) => AnswerAfter(i)'
      <3> SUFFICES ASSUME NEW o \in LatestLoad, NEW k, k > j, AnsweredAt(k, o.id) PROVE AnswerAfter(i)'
        BY DEF AnswerAfter
      <3>1. PICK e : e = k - 1
        OBVIOUS
      <3>2. e \in Nat /\ e >= 1 /\ e + 1 = k /\ e > i
        BY <1>5, <2>1, <2>2, <3>1
      <3>3. AnsweredAt(e, o.id)'
        BY <1>4, <3>2
      <3> QED BY <1>2, <3>2, <3>3 DEF AnswerAfter
    <2> QED BY <1>1, <2>2, <2>3 DEF Own, StatesOwn, Intact, Torn
  <1>11. AnswersOwn'
    <2> SUFFICES ASSUME NEW k \in DOMAIN out', IsAnswer(k)', k > 1
                 PROVE  out'[k - 1].items.from = out'[k - 1].path
      BY DEF AnswersOwn
    <2>1. PICK e : e = k - 1
      OBVIOUS
    <2>2. PICK d : d = k + 1
      OBVIOUS
    <2>3. d \in DOMAIN out /\ IsAnswer(d) /\ d > 1 /\ d - 1 = k /\ k \in Nat
      BY <1>3, <2>2
    <2>4. e \in DOMAIN out' /\ e + 1 = k
      <3>1. DOMAIN out' = 1..(Len(out) - 1)
        BY <1>1, Positions
      <3> QED BY <1>3, <2>1, <2>3, <3>1
    <2>5. out'[e] = out[k]
      BY <1>3, <2>4
    <2> QED BY <2>1, <2>3, <2>5 DEF Own, AnswersOwn
  <1>12. ASSUME dirty, uiItems' = s.items, ~Foreign(s), uiItems' # uiItems PROVE ReloadingItems(s)
    BY <1>12 DEF Sees
  <1>13. dirty => Intact(uiItems)'
    <2>1. CASE uiItems' = uiItems
      BY <1>1, <2>1 DEF Own, ShownOwn, Intact, Torn
    <2>2. CASE uiItems' # uiItems
      <3>1. dirty => ReloadingItems(s) /\ uiItems' = s.items
        BY <2>2, <1>12 DEF Sees
      <3> QED BY <1>1, <1>3, <3>1 DEF ReloadingItems, Own, StatesOwn, Intact, Torn
    <2> QED BY <2>1, <2>2
  <1>14. Landed' => uiItems'.from = uiPath
    <2> SUFFICES ASSUME ~LoadAhead, \A k : LoadAnswered(k)' => k = 1 PROVE uiItems'.from = uiPath
      BY <1>2 DEF Landed
    <2>1. ASSUME NEW o \in PendingLoads, NEW k, AnsweredAt(k, o.id) PROVE k = 2
      <3>1. PICK e : e = k - 1
        OBVIOUS
      <3>2. e \in Nat /\ e >= 1 /\ e + 1 = k
        BY <1>5, <2>1, <3>1
      <3>3. LoadAnswered(e)'
        BY <1>2, <1>4, <2>1, <3>2 DEF LoadAnswered
      <3> QED BY <3>2, <3>3
    <2>2. CASE AnswerAfter(1)
      <3>1. PICK o, k : o \in LatestLoad /\ AnsweredAt(k, o.id)
        BY <2>2 DEF AnswerAfter
      <3>2. o \in PendingLoads /\ o \in pendingOps /\ o.rev = rev /\ AnsweredAt(2, o.id)
        BY <2>1, <3>1 DEF LatestLoad, PendingLoads, Own, LoadsLast
      <3>3. ~s.busy /\ s.path = o.path /\ s.error = ~out[2].ok
        <4>1. PICK x : x = 2
          OBVIOUS
        <4>2. /\ IsState(x - 1) /\ ~out[x - 1].busy /\ out[x - 1].path = o.path /\ out[x - 1].error = ~out[x].ok
          BY <1>1, <3>2, <4>1, AnswerFollows DEF Told
        <4>3. x - 1 = 1
          BY <4>1
        <4> QED BY <1>1, <4>1, <4>2, <4>3
      <3>4. s.items.from = s.path
        <4>1. PICK x : x = 2
          OBVIOUS
        <4>2. x \in DOMAIN out /\ IsAnswer(x) /\ x > 1 /\ x - 1 = 1
          BY <3>2, <4>1 DEF AnsweredAt
        <4> QED BY <1>1, <4>2 DEF Own, AnswersOwn
      <3>5. LatestLoad = {o}
        BY <3>1, <3>2, Ids DEF LatestLoad, PendingLoads, Ledger, Unique
      <3>6. ~Foreign(s) /\ s.path = uiPath
        BY <1>7, <3>3, <3>5 DEF Foreign
      <3>7. CASE ~dirty \/ ReloadingItems(s)
        BY <3>4, <3>6, <3>7 DEF Sees
      <3>8. CASE dirty /\ ~ReloadingItems(s)
        <4>1. s.error
          BY <3>2, <3>3, <3>8 DEF ReloadingItems
        <4>2. uiItems' = uiItems /\ uiItems.from = s.path
          BY <3>3, <3>6, <3>8, <4>1 DEF Sees
        <4> QED BY <3>6, <4>2
      <3> QED BY <3>7, <3>8
    <2>3. CASE ~AnswerAfter(1)
      <3>1. s.items.from = uiPath /\ Landed
        BY <1>6, <2>3
      <3>2. uiItems' \in {s.items, uiItems}
        BY DEF Sees
      <3> QED BY <3>1, <3>2 DEF Own, ShownOwn, Intact, Torn
    <2> QED BY <2>2, <2>3
  <1> QED BY <1>1, <1>8, <1>9, <1>10, <1>11, <1>13, <1>14 DEF Own, ShownOwn, Intact, Torn

(* An answer that is handled was for the oldest request of its kind.       *)
LEMMA HeardInTurn ==
    ASSUME TypeOK, Ledger, NEW f \in Answers, NEW o \in pendingOps, Hears(f, o)
    PROVE  /\ PendingLoads' = PendingLoads \ {o} /\ AnsweredAt(1, o.id)
           /\ \A k, i : AnsweredAt(k, i)' <=> k \in Nat /\ k >= 1 /\ AnsweredAt(k + 1, i)
           /\ \A q \in pendingOps : Alike(q, o) => o.id <= q.id
           /\ LatestLoad' = LatestLoad \ {o}
  <1>1. /\ Consumes /\ f = out[1] /\ o.id = f.id /\ pendingOps' = pendingOps \ {o}
    BY DEF Hears
  <1>2. PendingLoads' = PendingLoads \ {o}
    BY <1>1 DEF PendingLoads
  <1>3. AnsweredAt(1, o.id)
    BY <1>1 DEF Consumes, Shows, Answers, AnsweredAt, IsAnswer
  <1>4. \A k, i : AnsweredAt(k, i)' <=> k \in Nat /\ k >= 1 /\ AnsweredAt(k + 1, i)
    BY <1>1, AnswersMove
  <1>5. ASSUME NEW q \in pendingOps, Alike(q, o), q.id < o.id PROVE FALSE
    <2>1. ~Mailed(o.id)
      BY <1>3 DEF Ledger, Apart
    <2>2. PICK k : AnsweredAt(k, q.id)
      BY <1>5, <2>1 DEF Ledger, InTurn, Placed
    <2>3. k < 1
      BY <1>3, <1>5, <2>2 DEF Ledger, InTurn
    <2> QED BY <2>2, <2>3, AnswersMove
  <1>6. \A q \in pendingOps : Alike(q, o) => o.id <= q.id
    BY <1>5, Ids
  <1>7. LatestLoad' = LatestLoad \ {o}
    <2>1. \A q \in PendingLoads : o \in PendingLoads => o.id <= q.id
      BY <1>6 DEF PendingLoads, Alike
    <2> QED BY <1>2, <2>1 DEF LatestLoad
  <1> QED BY <1>2, <1>3, <1>4, <1>6, <1>7

(* An answer that is heard moves no list. *)
LEMMA OwnHears ==
    ASSUME TypeOK, Ledger, Told, Own, NEW f \in Answers, NEW o \in pendingOps, Hears(f, o)
    PROVE  Own'
  <1>1. /\ torn' = torn /\ Consumes /\ f = out[1] /\ Aside /\ InMail' = InMail /\ aOp' = aOp /\ rev' = rev
        /\ pendingOps' = pendingOps \ {o} /\ uiPath' = uiPath /\ uiItems' = uiItems /\ (dirty' => dirty)
    BY DEF Hears, Silent, Aside
  <1>2. /\ PendingLoads' = PendingLoads \ {o} /\ AnsweredAt(1, o.id) /\ LatestLoad' = LatestLoad \ {o}
        /\ \A k, i : AnsweredAt(k, i)' <=> k \in Nat /\ k >= 1 /\ AnsweredAt(k + 1, i)
    BY HeardInTurn
  <1>3. (LoadAhead' <=> LoadAhead) /\ (LoadMailed' <=> LoadMailed)
    BY <1>1 DEF LoadAhead, LoadMailed
  <1>4. /\ 1 \in DOMAIN out /\ Len(out) \in Nat /\ DOMAIN out = 1..Len(out) /\ IsAnswer(1) /\ ~IsState(1)
        /\ \A i \in DOMAIN out' : /\ i \in Nat /\ i >= 1 /\ i + 1 \in DOMAIN out /\ out'[i] = out[i + 1]
                                  /\ IsState(i)' <=> IsState(i + 1)
                                  /\ IsAnswer(i)' <=> IsAnswer(i + 1)
    BY <1>1, <1>2, Shifted, OutTypes DEF AnsweredAt
  <1>5. ASSUME NEW q \in PendingLoads, NEW k, AnsweredAt(k, q.id), k # 1
        PROVE  /\ q # o /\ k \in Nat /\ k > 1 /\ k \in DOMAIN out
               /\ \A e : e = k - 1 => e \in Nat /\ e >= 1 /\ e + 1 = k /\ AnsweredAt(e, q.id)'
    <2>1. q # o
      BY <1>2, <1>5 DEF Ledger, Once
    <2>2. k \in Nat /\ k > 1 /\ k \in DOMAIN out
      BY <1>4, <1>5 DEF AnsweredAt
    <2>3. \A e : e = k - 1 => e \in Nat /\ e >= 1 /\ e + 1 = k
      BY <2>2
    <2> QED BY <1>2, <1>5, <2>1, <2>2, <2>3
  <1>6. Chosen' /\ FilesOwn' /\ MailOwn' /\ ActorOwn'
    BY <1>1, <1>2, <1>3 DEF Own, Chosen, FilesOwn, MailOwn, NoLoadAfter, Whole, Aside, ActorOwn, Intact, Torn
  <1>7. LoadsLast'
    BY <1>1, <1>2 DEF Own, LoadsLast
  <1>8. StatesOwn'
    <2> SUFFICES ASSUME NEW i \in DOMAIN out', IsState(i)'
                 PROVE  /\ ~out'[i].busy /\ ~out'[i].error => Intact(out[i].items)'
                        /\ ~LoadAhead /\ ~AnswerAfter(i)' => out'[i].path = uiPath /\ out'[i].items.from = uiPath
      BY <1>1, <1>3 DEF StatesOwn, Intact, Torn
    <2>1. PICK j : j = i + 1
      OBVIOUS
    <2>2. j \in DOMAIN out /\ IsState(j) /\ out'[i] = out[j] /\ i \in Nat /\ i >= 1
      BY <1>4, <2>1
    <2>3. AnswerAfter(j) => AnswerAfter(i)'
      <3> SUFFICES ASSUME NEW q \in LatestLoad, NEW k, k > j, AnsweredAt(k, q.id) PROVE AnswerAfter(i)'
        BY DEF AnswerAfter
      <3>1. PICK e : e = k - 1
        OBVIOUS
      <3>2. k # 1 /\ q \in PendingLoads
        BY <2>1, <2>2 DEF LatestLoad
      <3>3. q # o /\ e \in Nat /\ e + 1 = k /\ AnsweredAt(e, q.id)'
        BY <1>5, <3>1, <3>2
      <3>4. e > i
        BY <2>1, <2>2, <3>3
      <3> QED BY <1>2, <3>3, <3>4 DEF AnswerAfter
    <2> QED BY <1>1, <2>2, <2>3 DEF Own, StatesOwn, Intact, Torn
  <1>9. AnswersOwn'
    <2> SUFFICES ASSUME NEW k \in DOMAIN out', IsAnswer(k)', k > 1
                 PROVE  out'[k - 1].items.from = out'[k - 1].path
      BY DEF AnswersOwn
    <2>1. PICK e : e = k - 1
      OBVIOUS
    <2>2. PICK d : d = k + 1
      OBVIOUS
    <2>3. d \in DOMAIN out /\ IsAnswer(d) /\ d > 1 /\ d - 1 = k /\ k \in Nat
      BY <1>4, <2>2
    <2>4. e \in DOMAIN out' /\ e + 1 = k
      <3>1. DOMAIN out' = 1..(Len(out) - 1)
        BY <1>1, Positions
      <3> QED BY <1>4, <2>1, <2>3, <3>1
    <2>5. out'[e] = out[k]
      BY <1>4, <2>4
    <2> QED BY <2>1, <2>3, <2>5 DEF Own, AnswersOwn
  <1>10. Landed' => Landed
    <2> SUFFICES ASSUME \A k : LoadAnswered(k)' => k = 1, NEW q \in PendingLoads, NEW k, AnsweredAt(k, q.id), k # 1
                 PROVE  FALSE
      BY <1>3 DEF Landed, LoadAnswered
    <2>1. PICK e : e = k - 1
      OBVIOUS
    <2>2. q # o /\ k \in Nat /\ k > 1 /\ k \in DOMAIN out /\ e + 1 = k /\ AnsweredAt(e, q.id)'
      BY <1>5, <2>1
    <2>3. e = 1
      BY <1>2, <2>2 DEF LoadAnswered
    <2>4. IsAnswer(k) /\ IsState(e)
      BY <2>1, <2>2 DEF Told, EndBefore, AnsweredAt
    <2> QED BY <1>4, <2>3, <2>4
  <1>11. ShownOwn'
    BY <1>1, <1>10 DEF Own, ShownOwn, Intact, Torn
  <1> QED BY <1>6, <1>7, <1>8, <1>9, <1>11 DEF Own

(* Without a cause of mixed lists before a step, or at it, the lists stay  *)
(* where they belong.                                                      *)
MixedOrOwn == mixed = {} => Own

(* A step takes no cause of mixed lists away. *)
LEMMA Unmixed == ASSUME Step, mixed' = {} PROVE mixed = {}
  <1>1. CASE Edits
    BY <1>1 DEF Edits
  <1>2. CASE Rests \/ Announces \/ Stays
    BY <1>2 DEF Rests, Announces, Stays
  <1>3. CASE \E o \in Requests, x \in Signals : AsksFor(o, x)
    BY <1>3 DEF AsksFor, Marks
  <1>4. CASE \E x \in Signals : Asides(x)
    BY <1>4 DEF Asides
  <1>5. CASE \E s \in States : Sees(s)
    BY <1>5 DEF Sees, Marks
  <1>6. CASE \E f \in Answers, o \in pendingOps : Hears(f, o)
    BY <1>6 DEF Hears
  <1>7. CASE \E m \in InMail : Handles(m)
    BY <1>7 DEF Handles, Marks
  <1>8. CASE \E m \in aOp, ok \in BOOLEAN : Loads(m, ok) \/ Saves(m, ok)
    BY <1>8 DEF Loads, Saves, Finishes
  <1> QED BY <1>1, <1>2, <1>3, <1>4, <1>5, <1>6, <1>7, <1>8 DEF Step

(* Every step keeps each list with its path. *)
LEMMA NextOwn == ASSUME TypeOK, TypeOK', Ledger, Told, MixedOrOwn, Step PROVE MixedOrOwn'
  <1> SUFFICES ASSUME mixed' = {} PROVE Own'
    BY DEF MixedOrOwn
  <1>0. Own
    BY Unmixed DEF MixedOrOwn
  <1>1. CASE Edits
    BY <1>0, <1>1, OwnEdits
  <1>2. CASE Rests \/ Stays
    BY <1>0, <1>2, OwnRests
  <1>3. CASE \E o \in Requests, x \in Signals : AsksFor(o, x)
    BY <1>0, <1>3, OwnAsks
  <1>4. CASE \E x \in Signals : Asides(x)
    BY <1>0, <1>4, OwnAsides
  <1>5. CASE \E s \in States : Sees(s)
    BY <1>0, <1>5, OwnSees
  <1>6. CASE \E f \in Answers, o \in pendingOps : Hears(f, o)
    BY <1>0, <1>6, OwnHears
  <1>7. CASE \E m \in InMail : Handles(m)
    BY <1>0, <1>7, OwnHandles
  <1>8. CASE \E m \in aOp, ok \in BOOLEAN : Loads(m, ok)
    BY <1>0, <1>8, OwnLoads
  <1>9. CASE \E m \in aOp, ok \in BOOLEAN : Saves(m, ok)
    BY <1>0, <1>9, OwnSaves
  <1>10. CASE Announces
    BY <1>0, <1>10, OwnAnnounces
  <1> QED BY <1>1, <1>2, <1>3, <1>4, <1>5, <1>6, <1>7, <1>8, <1>9, <1>10 DEF Step

(* What AppState saves into a file was read from it, and is all of it      *)
(* unless a save of the file failed half way, and unless one of the causes *)
(* that mixed names occurred: over every other interleaving of loads,      *)
(* saves, edits, failures and emissions (_onUiState, saveConfig,           *)
(* save_config, save_config_file).                                         *)
THEOREM ListsStayInTheirFiles == Spec => []FilesKeepTheirLists
  <1> DEFINE I == TypeOK /\ Ledger /\ Told /\ MixedOrOwn
  <1>1. Init => I
    BY InitTypes, InitLedger, InitTold, InitOwn DEF MixedOrOwn
  <1>2. I /\ [Next]_vars => I'
    BY NextStep, NextTold, NextOwn
  <1>3. I => FilesKeepTheirLists
    BY DEF MixedOrOwn, Own, FilesOwn, Whole, Intact, FilesKeepTheirLists
  <1> QED BY <1>1, <1>2, <1>3, PTL DEF Spec

-----------------------------------------------------------------------------
(* The list shown is the file's.  While lists are not mixed up, the actor  *)
(* keeps the list of the file it read or wrote last, the UI shows the      *)
(* actor's list when it has no edits of its own, and a save that would     *)
(* settle the edits carries the list that is shown.                        *)

OkLoad    == \E k : LoadAnswered(k) /\ out[k].ok
FileKept  == ~LoadAhead /\ aOp = {} /\ ~aError => aItems = md[aPath]
ShownKept == ~LoadAhead /\ NoStates /\ (~dirty \/ OkLoad) => uiItems = aItems
Carries(o) == /\ \A m \in InMail : m.id = o.id => m.items = uiItems
              /\ ~Mailed(o.id) => aItems = uiItems
SavesSent == dirty /\ PendingLoads = {} => \A o \in pendingOps : o.rev = rev => Carries(o)
Same      == FileKept /\ ShownKept /\ SavesSent

(* An emission is a state that the UI has not seen. *)
LEMMA Unseen ==
    ASSUME TypeOK
    PROVE  /\ \A s \in States : Emits(s) => ~NoStates'
           /\ \A s \in States, n \in 1..2, f \in Answers : Ends(s, n, f) => ~NoStates'
  <1>0. Len(out) \in Nat
    BY OutTypes
  <1>1. PICK l : l = Len(out) + 1
    OBVIOUS
  <1>2. ASSUME NEW s \in States, Emits(s) PROVE ~NoStates'
    <2>1. ~IsAnswer(l)' /\ l \in DOMAIN out'
      BY <1>0, <1>1, <1>2, Positions
    <2> QED BY <2>1 DEF NoStates
  <1>3. ASSUME NEW s \in States, NEW n \in 1..2, NEW f \in Answers, Ends(s, n, f) PROVE ~NoStates'
    <2>1. l \in (Len(out) + 1)..(Len(out) + n) /\ l \in 1..(Len(out) + n + 1)
      BY <1>0, <1>1
    <2>2. ~IsAnswer(l)' /\ l \in DOMAIN out'
      BY <1>3, <2>1, Positions
    <2> QED BY <2>2 DEF NoStates
  <1> QED BY <1>2, <1>3

(* Nothing but the mail's other signals and the marks change. *)
LEMMA SameAside ==
    ASSUME TypeOK, Ledger, Same, Mute, Aside, UNCHANGED <<pendingOps, uiItems, dirty, rev>>,
           LoadAhead => LoadAhead',
           \A m \in InMail' : m \in InMail \/ \A o \in pendingOps : m.id # o.id,
           \A o \in pendingOps : Mailed(o.id) => Mailed(o.id)'
    PROVE  Same'
  <1>1. PendingLoads' = PendingLoads
    BY DEF PendingLoads
  <1>2. /\ out' = out /\ (NoStates' <=> NoStates)
        /\ \A k : LoadAnswered(k)' <=> LoadAnswered(k)
    <2>1. \A k, i : AnsweredAt(k, i)' <=> AnsweredAt(k, i)
      BY AnswersMove
    <2> QED BY <1>1, <2>1, Positions DEF Mute, NoStates, LoadAnswered
  <1>3. FileKept'
    BY DEF Same, FileKept, Aside
  <1>5. ShownKept'
    <2>1. OkLoad' => OkLoad
      BY <1>2 DEF OkLoad
    <2> QED BY <1>2, <2>1 DEF Same, ShownKept, Aside
  <1>4. SavesSent'
    BY <1>1 DEF Same, SavesSent, Carries, Aside
  <1> QED BY <1>3, <1>4, <1>5 DEF Same

(* An edit is not shown elsewhere, and no save carries it yet. *)
LEMMA SameEdits == ASSUME TypeOK, Ledger, Same, Edits, mixed' = {} PROVE Same'
  <1>1. /\ Mute /\ Aside /\ InMail' = InMail /\ pendingOps' = pendingOps /\ rev' = rev + 1 /\ dirty' = TRUE
        /\ PendingLoads = {}
    BY DEF Edits, Silent
  <1>2. PendingLoads' = {} /\ (LoadAhead' <=> LoadAhead)
    BY <1>1 DEF PendingLoads, LoadAhead, Aside
  <1>3. FileKept'
    BY <1>1, <1>2 DEF Same, FileKept, Aside
  <1>4. ShownKept'
    BY <1>1, <1>2 DEF ShownKept, OkLoad, LoadAnswered
  <1>5. SavesSent'
    <2>1. \A o \in pendingOps : o.rev \in Nat /\ o.rev <= rev /\ rev \in Nat
      BY Ids DEF Ledger, Numbered
    <2>2. \A o \in pendingOps' : o.rev # rev'
      BY <1>1, <2>1
    <2> QED BY <2>2 DEF SavesSent
  <1> QED BY <1>3, <1>4, <1>5 DEF Same

(* A load makes the lists differ until it ends; a save carries the list shown. *)
LEMMA SameAsks ==
    ASSUME TypeOK, Ledger, Same, NEW o \in Requests, NEW x \in Signals, AsksFor(o, x), mixed' = {}
    PROVE  Same'
  <1>1. /\ Mute /\ Aside /\ InMail' = InMail \cup {x} /\ pendingOps' = pendingOps \cup {o}
        /\ uiItems' = uiItems /\ dirty' = dirty /\ rev' = rev
        /\ x.id = o.id /\ o.id = used.ids + 1 /\ x.items = uiItems
        /\ o.kind = KindOf(x) /\ Work(x)
    BY DEF AsksFor, Sends
  <1>2. /\ \A m \in InMail : m.id # x.id
        /\ \A q \in pendingOps : q.id # o.id
    BY <1>1, Ids DEF Ledger, Numbered
  <1>3. CASE o.kind = "load"
    <2>1. LoadAhead' /\ PendingLoads' # {}
      BY <1>1, <1>3 DEF KindOf, LoadAhead, PendingLoads
    <2> QED BY <2>1 DEF Same, FileKept, ShownKept, SavesSent
  <1>4. CASE o.kind = "save"
    <2>1. x.type # "LoadConfig" /\ dirty /\ PendingLoads = {}
      BY <1>1, <1>4 DEF KindOf, AsksFor
    <2>2. PendingLoads' = {} /\ (LoadAhead' <=> LoadAhead)
      BY <1>1, <1>4, <2>1 DEF PendingLoads, LoadAhead, Aside
    <2>3. FileKept'
      BY <1>1, <2>2 DEF Same, FileKept, Aside
    <2>4. ShownKept'
      BY <1>1, <2>1, <2>2 DEF ShownKept, OkLoad, LoadAnswered
    <2>5. SavesSent'
      <3> SUFFICES ASSUME NEW q \in pendingOps \cup {o}, q.rev = rev
                   PROVE  /\ \A m \in InMail \cup {x} : m.id = q.id => m.items = uiItems
                          /\ ~Mailed(q.id)' => aItems = uiItems
        BY <1>1 DEF SavesSent, Carries, Aside
      <3>1. CASE q = o
        BY <1>1, <1>2, <3>1 DEF Mailed
      <3>2. CASE q \in pendingOps
        <4>1. Carries(q) /\ q.id # x.id
          BY <1>1, <1>2, <2>1, <3>2 DEF Same, SavesSent
        <4> QED BY <1>1, <4>1 DEF Carries, Mailed
      <3> QED BY <3>1, <3>2
    <2> QED BY <2>3, <2>4, <2>5 DEF Same
  <1> QED BY <1>3, <1>4 DEF Requests

(* An announcement has yet to be seen. *)
LEMMA SameAnnounces == ASSUME TypeOK, Ledger, Same, Announces PROVE Same'
  <1>1. /\ Aside /\ InMail' = InMail /\ pendingOps' = pendingOps /\ ~NoStates'
        /\ uiItems' = uiItems /\ dirty' = dirty /\ rev' = rev
    BY Unseen DEF Announces, Silent, UiAside
  <1>2. PendingLoads' = PendingLoads /\ (LoadAhead' <=> LoadAhead) /\ \A i : Mailed(i)' <=> Mailed(i)
    BY <1>1 DEF PendingLoads, LoadAhead, Aside, Mailed
  <1>3. FileKept' /\ ShownKept' /\ SavesSent'
    BY <1>1, <1>2 DEF Same, FileKept, ShownKept, SavesSent, Carries, Aside
  <1> QED BY <1>3 DEF Same

(* The last state seen shows the actor's list. *)
LEMMA SameSees ==
    ASSUME TypeOK, Ledger, Told, Own, Same, NEW s \in States, Sees(s)
    PROVE  Same'
  <1>1. /\ Consumes /\ s = out[1] /\ Aside /\ InMail' = InMail /\ dirty' = dirty /\ rev' = rev /\ pendingOps' = pendingOps
    BY DEF Sees, Silent
  <1>2. PendingLoads' = PendingLoads /\ (LoadAhead' <=> LoadAhead) /\ \A i : Mailed(i)' <=> Mailed(i)
    BY <1>1 DEF PendingLoads, LoadAhead, Aside, Mailed
  <1>3. FileKept'
    BY <1>1, <1>2 DEF Same, FileKept, Aside
  <1>4. SavesSent'
    <2> SUFFICES ASSUME dirty, PendingLoads = {} PROVE uiItems' = uiItems
      BY <1>1, <1>2 DEF Same, SavesSent, Carries, Aside
    <2>1. ~ReloadingItems(s)
      BY DEF ReloadingItems
    <2> QED BY <2>1 DEF Sees
  <1>5. ShownKept'
    <2> SUFFICES ASSUME ~LoadAhead, NoStates', ~dirty \/ OkLoad' PROVE uiItems' = aItems
      BY <1>1, <1>2 DEF ShownKept, Aside
    <2>1. s.items = aItems /\ ~Foreign(s) /\ \A i \in DOMAIN out : i > 1 => IsAnswer(i)
      BY LastSeen
    <2>2. CASE ~dirty
      BY <2>1, <2>2 DEF Sees
    <2>3. CASE OkLoad'
      <3>1. PICK q, k : q \in PendingLoads /\ AnsweredAt(k, q.id)' /\ out'[k].ok
        BY <1>2, <2>3 DEF OkLoad, LoadAnswered
      <3>2. k \in Nat /\ k >= 1 /\ AnsweredAt(k + 1, q.id)
        BY <1>1, <3>1, AnswersMove
      <3>3. PICK d : d = k + 1
        OBVIOUS
      <3>4. q \in pendingOps /\ q.rev = rev
        BY <3>1 DEF PendingLoads, Own, LoadsLast
      <3>5. /\ k \in 1..Len(out) /\ IsState(k) /\ ~out[k].busy /\ out[k].path = q.path /\ out[k].error = ~out[d].ok
        <4>1. AnsweredAt(d, q.id) /\ d - 1 = k
          BY <3>2, <3>3
        <4> QED BY <1>1, <3>4, <4>1, AnswerFollows DEF Told
      <3>6. k = 1
        <4>1. k \in DOMAIN out /\ ~IsAnswer(k)
          BY <3>5, OutTypes
        <4> QED BY <2>1, <3>2, <4>1
      <3>7. out[d].ok
        <4>1. k \in DOMAIN out'
          BY <3>1 DEF AnsweredAt
        <4>2. out'[k] = out[d]
          BY <1>1, <3>3, <4>1, Shifted
        <4> QED BY <3>1, <4>2
      <3>8. ReloadingItems(s)
        BY <1>1, <3>1, <3>4, <3>5, <3>6, <3>7 DEF ReloadingItems
      <3> QED BY <2>1, <3>8 DEF Sees
    <2> QED BY <2>2, <2>3
  <1> QED BY <1>3, <1>4, <1>5 DEF Same

(* A save that settles the edits carried the list that is shown. *)
LEMMA SameHears ==
    ASSUME TypeOK, Ledger, Told, Own, Same, mixed = {}, NEW f \in Answers, NEW o \in pendingOps, Hears(f, o)
    PROVE  Same'
  <1>1. /\ Consumes /\ f = out[1] /\ Aside /\ InMail' = InMail /\ rev' = rev /\ uiItems' = uiItems
        /\ pendingOps' = pendingOps \ {o} /\ dirty' = (dirty /\ ~(f.ok /\ Settles(o)))
    BY DEF Hears, Silent
  <1>2. /\ PendingLoads' = PendingLoads \ {o} /\ AnsweredAt(1, o.id)
        /\ \A k, i : AnsweredAt(k, i)' <=> k \in Nat /\ k >= 1 /\ AnsweredAt(k + 1, i)
        /\ \A q \in pendingOps : o.id <= q.id
    BY HeardInTurn DEF Alike
  <1>3. (LoadAhead' <=> LoadAhead) /\ \A i : Mailed(i)' <=> Mailed(i)
    BY <1>1 DEF LoadAhead, Aside, Mailed
  <1>4. FileKept'
    BY <1>1, <1>3 DEF Same, FileKept, Aside
  <1>5. SavesSent'
    <2> SUFFICES ASSUME dirty, PendingLoads' = {} PROVE PendingLoads = {} \/ pendingOps' = {}
      BY <1>1, <1>3 DEF Same, SavesSent, Carries, Aside
    <2> SUFFICES ASSUME o \in PendingLoads, NEW q \in pendingOps' PROVE FALSE
      BY <1>2
    <2>1. q \in pendingOps /\ q \notin PendingLoads
      BY <1>1, <1>2
    <2>2. q.kind = "save"
      BY <2>1, Ids DEF PendingLoads
    <2>3. q.id < o.id
      BY <2>1, <2>2 DEF Own, LoadsLast
    <2> QED BY <1>2, <2>1, <2>3, Ids
  <1>6. ShownKept'
    <2> SUFFICES ASSUME ~LoadAhead, NoStates', ~dirty' \/ OkLoad' PROVE uiItems = aItems
      BY <1>1, <1>3 DEF ShownKept, Aside
    <2>1. NoStates
      <3> SUFFICES ASSUME NEW i \in DOMAIN out PROVE IsAnswer(i)
        BY DEF NoStates
      <3>1. CASE i = 1
        BY <1>2, <3>1 DEF AnsweredAt
      <3>2. CASE i # 1
        <4>1. PICK e \in DOMAIN out' : i = e + 1
          BY <1>1, <3>2, Shifted
        <4>2. IsAnswer(e)'
          BY <4>1 DEF NoStates
        <4> QED BY <1>1, <4>1, <4>2, Shifted
      <3> QED BY <3>1, <3>2
    <2>2. OkLoad' => OkLoad
      <3> SUFFICES ASSUME NEW q \in PendingLoads, NEW k, AnsweredAt(k, q.id)', out'[k].ok PROVE OkLoad
        BY <1>2 DEF OkLoad, LoadAnswered
      <3>1. PICK d : d = k + 1
        OBVIOUS
      <3>2. AnsweredAt(d, q.id) /\ k \in DOMAIN out'
        BY <1>2, <3>1 DEF AnsweredAt
      <3>3. out'[k] = out[d]
        BY <1>1, <3>1, <3>2, Shifted
      <3> QED BY <3>2, <3>3 DEF OkLoad, LoadAnswered
    <2>3. CASE ~dirty \/ OkLoad
      BY <2>1, <2>3 DEF Same, ShownKept
    <2>4. CASE dirty /\ ~OkLoad
      <3>1. f.ok /\ o.rev = rev /\ ~dirty'
        BY <1>1, <2>2, <2>4 DEF Settles
      <3>2. o \notin PendingLoads
        <4>1. o \in PendingLoads => LoadAnswered(1)
          BY <1>2 DEF LoadAnswered
        <4> QED BY <1>1, <2>4, <3>1, <4>1 DEF OkLoad
      <3>3. PendingLoads = {}
        <4> SUFFICES ASSUME NEW q \in PendingLoads PROVE FALSE
          OBVIOUS
        <4>1. q \in pendingOps /\ q # o
          BY <3>2 DEF PendingLoads
        <4>2. PICK k : AnsweredAt(k, q.id)
          BY LoadsAnswered
        <4>3. q.id # o.id
          BY <4>1 DEF Ledger, Unique
        <4>4. k \in DOMAIN out /\ k # 1 /\ IsAnswer(k)
          BY <1>2, <4>2, <4>3 DEF AnsweredAt
        <4>5. PICK e : e = k - 1
          OBVIOUS
        <4>6. e \in DOMAIN out /\ k > 1
          BY <4>4, <4>5, OutTypes
        <4>7. IsState(e) /\ IsAnswer(e)
          BY <2>1, <4>4, <4>5, <4>6 DEF Told, EndBefore, NoStates
        <4> QED BY <4>6, <4>7, OutTypes
      <3>4. Carries(o) /\ ~Mailed(o.id)
        BY <1>2, <2>4, <3>1, <3>3 DEF Same, SavesSent, Ledger, Apart
      <3> QED BY <3>4 DEF Carries
    <2> QED BY <2>3, <2>4
  <1> QED BY <1>4, <1>5, <1>6 DEF Same

(* A save that is taken brings the list shown to the actor. *)
LEMMA SameHandles ==
    ASSUME TypeOK, Ledger, Own, Same, NEW m \in InMail, Handles(m), mixed = {}, mixed' = {}
    PROVE  Same'
  <1>1. /\ aOp = {} /\ InMail' = InMail \ {m} /\ pendingOps' = pendingOps /\ md' = md
        /\ uiItems' = uiItems /\ dirty' = dirty /\ rev' = rev /\ aPath' = m.path
        /\ aItems' = (IF m.type = "SaveConfig" THEN m.items ELSE aItems)
        /\ aError' = (aError /\ ~Work(m))
        /\ aOp' = (IF Work(m) THEN {m} ELSE {})
    BY DEF Handles, Takes, UiAside
  <1>2. PendingLoads' = PendingLoads
    BY <1>1 DEF PendingLoads
  <1>3. ASSUME ~Work(m) PROVE aItems' = aItems /\ aOp' = {} /\ aError' = aError /\ (LoadAhead' <=> LoadAhead)
    <2>1. m.type = "LoadCodexAccounts"
      BY <1>3 DEF Work
    <2> QED BY <1>1, <1>3, <2>1 DEF LoadAhead, TypeOK
  <1>4. FileKept'
    <2> SUFFICES ASSUME ~LoadAhead', aOp' = {}, ~aError' PROVE aItems' = md[m.path]
      BY <1>1 DEF FileKept
    <2>1. ~Work(m)
      BY <1>1
    <2>2. aItems' = aItems /\ ~LoadAhead /\ ~aError
      BY <1>3, <2>1
    <2>3. m.path = uiPath /\ aPath = uiPath
      BY <2>2 DEF Own, MailOwn, ActorOwn, NoLoadAfter, LoadAhead, LoadMailed
    <2> QED BY <1>1, <2>2, <2>3 DEF Same, FileKept
  <1>5. ShownKept'
    <2> SUFFICES ASSUME ~LoadAhead', NoStates', ~dirty \/ OkLoad' PROVE uiItems = aItems'
      BY <1>1 DEF ShownKept
    <2>1. ~Work(m) /\ Mute
      BY Unseen DEF Handles
    <2>2. aItems' = aItems /\ ~LoadAhead
      BY <1>3, <2>1
    <2>3. NoStates
      BY <2>1, Positions DEF NoStates
    <2>4. \A k : LoadAnswered(k)' <=> LoadAnswered(k)
      <3>1. \A k, i : AnsweredAt(k, i)' <=> AnsweredAt(k, i)
        BY <2>1, AnswersMove
      <3> QED BY <1>2, <3>1 DEF LoadAnswered
    <2>5. OkLoad' => OkLoad
      BY <2>1, <2>4 DEF OkLoad, Mute
    <2> QED BY <2>2, <2>3, <2>5 DEF Same, ShownKept
  <1>6. SavesSent'
    <2> SUFFICES ASSUME dirty, PendingLoads = {}, NEW o \in pendingOps, o.rev = rev
                 PROVE  /\ \A n \in InMail \ {m} : n.id = o.id => n.items = uiItems
                        /\ ~Mailed(o.id)' => aItems' = uiItems
      BY <1>1, <1>2 DEF SavesSent, Carries
    <2>1. Carries(o)
      BY DEF Same, SavesSent
    <2>2. Mailed(o.id) => m.id = o.id \/ Mailed(o.id)'
      BY <1>1 DEF Mailed
    <2> SUFFICES ASSUME ~Mailed(o.id)' PROVE aItems' = uiItems
      BY <2>1 DEF Carries
    <2>3. CASE ~Work(m)
      <3>1. m.id # o.id
        BY <2>3 DEF Ledger, Remembered
      <3> QED BY <1>3, <2>1, <2>2, <2>3, <3>1 DEF Carries
    <2>4. CASE Work(m)
      <3>1. m.type = "SaveConfig"
        <4>1. m.type # "LoadConfig"
          BY LoadsPend
        <4> QED BY <2>4, <4>1, Ids DEF Types, Work
      <3>2. PICK q \in pendingOps : q.id = m.id
        BY <2>4 DEF Ledger, Remembered, Asked
      <3>3. Mailed(q.id)
        BY <3>2 DEF Mailed
      <3>4. q.rev = rev
        <4>1. CASE q.id = o.id
          BY <4>1 DEF Ledger, Unique
        <4>2. CASE q.id < o.id
          <5>1. Mailed(o.id)
            BY <3>3, <4>2 DEF Ledger, InTurn, Alike
          <5> QED BY <2>2, <3>2, <4>2, <5>1, Ids
        <4>3. CASE o.id < q.id
          <5>1. o.rev <= q.rev /\ q.rev <= rev
            BY <4>3 DEF Ledger, Unique, Numbered
          <5> QED BY <5>1, Ids
        <4> QED BY <4>1, <4>2, <4>3, Ids
      <3>5. Carries(q)
        BY <3>4 DEF Same, SavesSent
      <3> QED BY <1>1, <3>1, <3>2, <3>5 DEF Carries
    <2> QED BY <2>3, <2>4
  <1> QED BY <1>4, <1>5, <1>6 DEF Same

(* A request that ends leaves the actor with the file's list. *)
LEMMA SameEnds ==
    ASSUME TypeOK, Ledger, Same, NEW m \in aOp, NEW ok \in BOOLEAN, Loads(m, ok) \/ Saves(m, ok)
    PROVE  Same'
  <1>1. /\ Finishes(m, ok) /\ InMail' = InMail /\ pendingOps' = pendingOps /\ aPath' = aPath /\ aError' = ~ok
        /\ uiItems' = uiItems /\ dirty' = dirty /\ rev' = rev /\ m.path = aPath /\ aPath \in Paths
        /\ md \in [Paths -> Lists]
    BY DEF Loads, Saves, Finishes, Silent, UiAside, Ledger, OneOp, TypeOK
  <1>2. PendingLoads' = PendingLoads /\ \A i : Mailed(i)' <=> Mailed(i)
    BY <1>1 DEF PendingLoads, Mailed
  <1>3. ShownKept'
    <2>1. ~NoStates'
      BY <1>1, Unseen DEF Finishes
    <2> QED BY <2>1 DEF ShownKept
  <1>4. CASE Loads(m, ok)
    <2>1. FileKept'
      BY <1>1, <1>4 DEF Loads, FileKept, LoadedList
    <2>2. PendingLoads # {}
      BY <1>4, LoadsPend DEF Loads
    <2> QED BY <1>2, <1>3, <2>1, <2>2 DEF Same, SavesSent
  <1>5. CASE Saves(m, ok)
    <2>1. m.items = aItems /\ aItems' = aItems
      BY <1>5 DEF Saves, Ledger, OneOp
    <2>2. FileKept'
      BY <1>1, <1>5, <2>1 DEF Saves, WritesFile, FileKept
    <2>3. SavesSent'
      BY <1>1, <1>2, <2>1 DEF Same, SavesSent, Carries
    <2> QED BY <1>3, <2>2, <2>3 DEF Same
  <1> QED BY <1>4, <1>5

(* At first all three have one list. *)
LEMMA InitSame == Init => Same
  <1> SUFFICES ASSUME Init PROVE Same
    OBVIOUS
  <1>1. uiItems = aItems /\ aItems = md[aPath] /\ dirty = FALSE
    BY DEF Init
  <1> QED BY <1>1 DEF Same, FileKept, ShownKept, SavesSent

MixedOrSame == mixed = {} => Same

(* Every step keeps the list shown, the actor's and the file's alike. *)
LEMMA NextSame == ASSUME TypeOK, Ledger, Told, MixedOrOwn, MixedOrSame, Step PROVE MixedOrSame'
  <1> SUFFICES ASSUME mixed' = {} PROVE Same'
    BY DEF MixedOrSame
  <1>0. Own /\ Same /\ mixed = {}
    BY Unmixed DEF MixedOrOwn, MixedOrSame
  <1>1. CASE Edits
    BY <1>0, <1>1, SameEdits
  <1>2. CASE Rests \/ Stays
    <2>1. /\ Mute /\ Aside /\ InMail' = InMail /\ UNCHANGED <<pendingOps, uiItems, dirty, rev>>
      BY <1>2 DEF Rests, Stays, Silent, UiAside
    <2>2. (LoadAhead => LoadAhead') /\ \A i : Mailed(i) => Mailed(i)'
      BY <2>1 DEF LoadAhead, Aside, Mailed
    <2> QED BY <1>0, <2>1, <2>2, SameAside
  <1>3. CASE \E o \in Requests, x \in Signals : AsksFor(o, x)
    BY <1>0, <1>3, SameAsks
  <1>4. ASSUME NEW x \in Signals, Asides(x) PROVE Same'
    <2>1. /\ Mute /\ Aside /\ InMail' = InMail \cup {x} /\ x.id = used.ids + 1
          /\ UNCHANGED <<pendingOps, uiItems, dirty, rev>>
      BY <1>4 DEF Asides, Sends, UiAside
    <2>2. \A o \in pendingOps : x.id # o.id
      BY <2>1, Ids DEF Ledger, Numbered
    <2>3. (LoadAhead => LoadAhead') /\ \A i : Mailed(i) => Mailed(i)'
      BY <2>1 DEF LoadAhead, Aside, Mailed
    <2> QED BY <1>0, <2>1, <2>2, <2>3, SameAside
  <1>5. CASE \E s \in States : Sees(s)
    BY <1>0, <1>5, SameSees
  <1>6. CASE \E f \in Answers, o \in pendingOps : Hears(f, o)
    BY <1>0, <1>6, SameHears
  <1>7. CASE \E m \in InMail : Handles(m)
    BY <1>0, <1>7, SameHandles
  <1>8. CASE \E m \in aOp, ok \in BOOLEAN : Loads(m, ok) \/ Saves(m, ok)
    BY <1>0, <1>8, SameEnds
  <1>9. CASE Announces
    BY <1>0, <1>9, SameAnnounces
  <1> QED BY <1>1, <1>2, <1>3, <1>4, <1>5, <1>6, <1>7, <1>8, <1>9 DEF Step

(* Once everything sent has been handled and no autosave is due, the list  *)
(* shown without an error is saved, and, unless lists were mixed up, is    *)
(* the one in the selected file (_runAutosave, _onOpFinished, save_config, *)
(* emit_state).                                                            *)
THEOREM QuietIsSaved == Spec => []QuietMeansSaved
  <1> DEFINE I == TypeOK /\ Ledger /\ Told /\ Saved /\ MixedOrOwn /\ MixedOrSame
  <1>1. Init => I
    BY InitTypes, InitLedger, InitTold, InitSaved, InitOwn, InitSame DEF MixedOrOwn, MixedOrSame
  <1>2. I /\ [Next]_vars => I'
    BY NextStep, NextTold, NextSaved, NextOwn, NextSame
  <1>3. I => QuietMeansSaved
    <2> SUFFICES ASSUME I, Quiet, ~uiError
                 PROVE  ~dirty /\ pendingOps = {} /\ (mixed = {} => md[uiPath] = uiItems)
      BY DEF QuietMeansSaved
    <2>1. ~dirty /\ pendingOps = {}
      BY QuietIsSettled
    <2>2. ASSUME mixed = {} PROVE md[uiPath] = uiItems
      <3>1. InMail = {} /\ aOp = {} /\ NoStates
        <4>1. mail = <<>> /\ out = <<>> /\ aOp = {}
          BY DEF Quiet
        <4>2. DOMAIN out = 1..0 /\ DOMAIN mail = 1..0
          BY <4>1, OutTypes, MailTypes
        <4> QED BY <4>1, <4>2 DEF InMail, NoStates
      <3>2. ~LoadAhead /\ ~LoadMailed
        BY <3>1 DEF LoadAhead, LoadMailed
      <3>3. ~aError
        BY <3>1, <3>2 DEF Told, UiSees
      <3> QED BY <2>1, <2>2, <3>1, <3>2, <3>3 DEF MixedOrOwn, MixedOrSame, Own, ActorOwn, Same, FileKept, ShownKept
    <2> QED BY <2>1, <2>2
  <1> QED BY <1>1, <1>2, <1>3, PTL DEF Spec
=============================================================================
