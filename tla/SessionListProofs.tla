-------------------------- MODULE SessionListProofs --------------------------
(***************************************************************************)
(* Proofs about SessionList, for any files, names, colors and sessions and *)
(* any number of edits, writes and loads.                                  *)
(***************************************************************************)
EXTENDS SessionList, SequenceTheorems, FiniteSetTheorems, WellFoundedInduction, TLAPS

(* A list of whatever it holds, and a list of items.                       *)
IsList(list) == \E S : list \in Seq(S)
IsItem(x) == /\ DOMAIN x = {"kind", "id", "name", "command_id", "color", "provider"}
             /\ x.kind \in {"group", "group_end", "session"}
             /\ IsGroup(x) => x.id # NoGroup
IsItems(list) == IsList(list) /\ \A i \in DOMAIN list : IsItem(list[i])
Whole(list) == IsItems(list) /\ Flat(list)

(* A position n with no group that begins before and ends behind it.       *)
Between(list, n) == \A g, e \in DOMAIN list : Encloses(list, g, e) => n < g \/ e <= n

(* A file whose headers have an id.                                        *)
Titled(f) == IsList(f) /\ \A i \in DOMAIN f : IsHeader(f[i]) => f[i].id # NoGroup

(* The inductive invariant.                                                *)
ListInv == Whole(items) /\ Titled(file)

-----------------------------------------------------------------------------
(* Lists: their parts and what they are put together from.                 *)
LEMMA ListLength ==
    ASSUME NEW a, IsList(a)
    PROVE  Len(a) \in Nat /\ DOMAIN a = 1 .. Len(a)
  BY LenProperties DEF IsList

LEMMA Joined ==
    ASSUME NEW a, NEW b, IsList(a), IsList(b)
    PROVE  /\ IsList(a \o b) /\ Len(a \o b) = Len(a) + Len(b)
           /\ \A i \in 1 .. Len(a) : (a \o b)[i] = a[i]
           /\ \A i \in 1 .. Len(b) : (a \o b)[Len(a) + i] = b[i]
  <1>1. PICK S : a \in Seq(S)
    BY DEF IsList
  <1>2. PICK T : b \in Seq(T)
    BY DEF IsList
  <1>3. a \in Seq(S \cup T) /\ b \in Seq(S \cup T)
    BY <1>1, <1>2, SeqMonotonic
  <1>4. /\ a \o b \in Seq(S \cup T) /\ Len(a \o b) = Len(a) + Len(b)
        /\ \A i \in 1 .. Len(a) + Len(b) : (a \o b)[i] = IF i <= Len(a) THEN a[i] ELSE b[i - Len(a)]
    BY <1>3, ConcatProperties
  <1>5. Len(a) \in Nat /\ Len(b) \in Nat
    BY ListLength
  <1>6. ASSUME NEW i \in 1 .. Len(a) PROVE (a \o b)[i] = a[i]
    BY <1>4, <1>5
  <1>7. ASSUME NEW i \in 1 .. Len(b) PROVE (a \o b)[Len(a) + i] = b[i]
    BY <1>4, <1>5
  <1> QED BY <1>4, <1>6, <1>7 DEF IsList

LEMMA PieceOf ==
    ASSUME NEW a, IsList(a), NEW m \in 1 .. Len(a) + 1, NEW n \in m - 1 .. Len(a)
    PROVE  /\ IsList(SubSeq(a, m, n)) /\ Len(SubSeq(a, m, n)) = n - m + 1
           /\ \A i \in 1 .. n - m + 1 : SubSeq(a, m, n)[i] = a[m + i - 1]
  <1>1. PICK S : a \in Seq(S)
    BY DEF IsList
  <1>2. Len(a) \in Nat
    BY ListLength
  <1>3. \A i \in m .. n : a[i] \in S
    BY <1>1, <1>2, ElementOfSeq
  <1>4. /\ SubSeq(a, m, n) \in Seq(S) /\ Len(SubSeq(a, m, n)) = IF m <= n THEN n - m + 1 ELSE 0
        /\ \A i \in 1 .. n - m + 1 : SubSeq(a, m, n)[i] = a[m + i - 1]
    BY <1>2, <1>3, SubSeqProperties
  <1> QED BY <1>2, <1>4 DEF IsList

LEMMA OneItem ==
    ASSUME NEW x
    PROVE  IsList(<<x>>) /\ Len(<<x>>) = 1 /\ <<x>>[1] = x
  <1>1. <<x>> \in Seq({x})
    OBVIOUS
  <1> QED BY <1>1 DEF IsList

LEMMA TwoItems ==
    ASSUME NEW x, NEW y
    PROVE  IsList(<<x, y>>) /\ Len(<<x, y>>) = 2 /\ <<x, y>>[1] = x /\ <<x, y>>[2] = y
  <1>1. <<x, y>> \in Seq({x, y})
    OBVIOUS
  <1> QED BY <1>1 DEF IsList

LEMMA NoItems ==
    IsList(<<>>) /\ Len(<<>>) = 0 /\ DOMAIN <<>> = {}
  <1>1. <<>> \in Seq({})
    BY EmptySeq
  <1> QED BY <1>1, EmptySeq, ListLength DEF IsList

(* The kinds of an item exclude each other.                                *)
LEMMA Kinds ==
    ASSUME NEW x, IsItem(x)
    PROVE  /\ IsSession(x) <=> ~IsGroup(x) /\ ~IsGroupEnd(x)
           /\ ~(IsGroup(x) /\ IsGroupEnd(x))
  BY DEF IsItem, IsGroup, IsGroupEnd, IsSession

-----------------------------------------------------------------------------
(* Groups in a list.                                                       *)
(* Two groups have nothing in common.                                      *)
LEMMA Apart ==
    ASSUME NEW a, IsItems(a), NEW g \in DOMAIN a, NEW e \in DOMAIN a, Encloses(a, g, e),
           NEW h \in DOMAIN a, NEW f \in DOMAIN a, Encloses(a, h, f)
    PROVE  (h = g /\ f = e) \/ e < h \/ f < g
  <1>1. Len(a) \in Nat /\ DOMAIN a = 1 .. Len(a)
    BY ListLength DEF IsItems
  <1>2. \A i \in DOMAIN a : IsItem(a[i])
    BY DEF IsItems
  <1>3. IsGroup(a[g]) /\ IsGroupEnd(a[e]) /\ IsGroup(a[h]) /\ IsGroupEnd(a[f]) /\ g < e /\ h < f
    BY DEF Encloses
  <1>4. ~(h \in g + 1 .. e - 1) /\ ~(f \in g + 1 .. e - 1)
    BY <1>1, <1>2, <1>3, Kinds DEF Encloses
  <1>5. ~(g \in h + 1 .. f - 1) /\ ~(e \in h + 1 .. f - 1)
    BY <1>1, <1>2, <1>3, Kinds DEF Encloses
  <1>6. g # f /\ h # e
    BY <1>1, <1>2, <1>3, Kinds
  <1> QED BY <1>1, <1>3, <1>4, <1>5, <1>6

LEMMA EndsOfGroup ==
    ASSUME NEW a, IsItems(a), NEW g \in DOMAIN a, NEW e \in DOMAIN a, Encloses(a, g, e)
    PROVE  Between(a, g - 1) /\ Between(a, e)
  <1>1. Len(a) \in Nat /\ DOMAIN a = 1 .. Len(a) /\ g < e
    BY ListLength DEF IsItems, Encloses
  <1>2. ASSUME NEW h \in DOMAIN a, NEW f \in DOMAIN a, Encloses(a, h, f)
        PROVE  (g - 1 < h \/ f <= g - 1) /\ (e < h \/ f <= e)
    <2>1. (h = g /\ f = e) \/ e < h \/ f < g
      BY <1>2, Apart
    <2> QED BY <1>1, <2>1
  <1> QED BY <1>2 DEF Between

LEMMA EndsOfList ==
    ASSUME NEW a, IsList(a)
    PROVE  Between(a, 0) /\ Between(a, Len(a))
  <1>1. Len(a) \in Nat /\ DOMAIN a = 1 .. Len(a)
    BY ListLength
  <1> QED BY <1>1 DEF Between

(* What has the kinds and the ids of a flat list is flat.                  *)
LEMMA SameMarkers ==
    ASSUME NEW a, NEW b, Whole(a), IsItems(b), Len(b) = Len(a),
           \A i \in DOMAIN a : b[i].kind = a[i].kind /\ b[i].id = a[i].id
    PROVE  Whole(b)
  <1>1. Len(a) \in Nat /\ DOMAIN a = 1 .. Len(a) /\ DOMAIN b = 1 .. Len(a)
    BY ListLength DEF IsItems, Whole
  <1>2. \A i \in DOMAIN a : /\ IsGroup(b[i]) <=> IsGroup(a[i])
                            /\ IsGroupEnd(b[i]) <=> IsGroupEnd(a[i])
                            /\ IsSession(b[i]) <=> IsSession(a[i])
    BY DEF IsGroup, IsGroupEnd, IsSession
  <1>3. \A g, e \in DOMAIN a : Encloses(a, g, e) => Encloses(b, g, e)
    BY <1>1, <1>2 DEF Encloses
  <1>4. Flat(b)
    BY <1>1, <1>2, <1>3 DEF Flat, Whole
  <1> QED BY <1>4 DEF Whole

(* Two flat lists, one behind the other.                                   *)
LEMMA JoinedWhole ==
    ASSUME NEW a, NEW b, Whole(a), Whole(b)
    PROVE  Whole(a \o b)
  <1> DEFINE c == a \o b
             n == Len(a)
  <1>1. IsList(a) /\ IsList(b)
    BY DEF Whole, IsItems
  <1>2. Len(a) \in Nat /\ Len(b) \in Nat /\ DOMAIN a = 1 .. Len(a) /\ DOMAIN b = 1 .. Len(b)
    BY <1>1, ListLength
  <1>3. /\ IsList(c) /\ Len(c) = n + Len(b)
        /\ \A i \in 1 .. n : c[i] = a[i]
        /\ \A i \in 1 .. Len(b) : c[n + i] = b[i]
    BY <1>1, Joined
  <1>4. DOMAIN c = 1 .. n + Len(b)
    BY <1>3, ListLength
  <1> HIDE DEF c, n
  <1>5. \A i \in DOMAIN c : i \in DOMAIN a \/ (i - n \in DOMAIN b /\ i = n + (i - n))
    BY <1>2, <1>4 DEF n
  <1>6. \A i \in DOMAIN a : i \in DOMAIN c /\ c[i] = a[i]
    BY <1>2, <1>3, <1>4 DEF n
  <1>7. \A i \in DOMAIN b : n + i \in DOMAIN c /\ c[n + i] = b[i]
    BY <1>2, <1>3, <1>4 DEF n
  <1>8. ASSUME NEW g \in DOMAIN a, NEW e \in DOMAIN a, Encloses(a, g, e) PROVE Encloses(c, g, e)
    <2>1. \A i \in g + 1 .. e - 1 : i \in DOMAIN a
      BY <1>2
    <2> QED BY <1>6, <1>8, <2>1 DEF Encloses
  <1>9. ASSUME NEW g \in DOMAIN b, NEW e \in DOMAIN b, Encloses(b, g, e) PROVE Encloses(c, n + g, n + e)
    <2>1. g < e /\ IsGroup(b[g]) /\ IsGroupEnd(b[e]) /\ b[e].id = b[g].id
      BY <1>9 DEF Encloses
    <2>2. \A i \in n + g + 1 .. (n + e) - 1 : i - n \in g + 1 .. e - 1 /\ i - n \in DOMAIN b /\ i = n + (i - n)
      BY <1>2 DEF n
    <2>3. \A i \in n + g + 1 .. (n + e) - 1 : IsSession(c[i])
      BY <1>7, <1>9, <2>2 DEF Encloses
    <2>4. n + g < n + e
      BY <1>2, <2>1 DEF n
    <2>5. IsGroup(c[n + g]) /\ IsGroupEnd(c[n + e]) /\ c[n + e].id = c[n + g].id
      BY <1>7, <2>1
    <2> QED BY <2>3, <2>4, <2>5 DEF Encloses
  <1>10. ASSUME NEW g \in DOMAIN c, IsGroup(c[g]) PROVE \E e \in DOMAIN c : Encloses(c, g, e)
    BY <1>5, <1>6, <1>7, <1>8, <1>9, <1>10 DEF Whole, Flat
  <1>11. ASSUME NEW e \in DOMAIN c, IsGroupEnd(c[e]) PROVE \E g \in DOMAIN c : Encloses(c, g, e)
    BY <1>5, <1>6, <1>7, <1>8, <1>9, <1>11 DEF Whole, Flat
  <1>12. Flat(c)
    BY <1>10, <1>11 DEF Flat
  <1>13. \A i \in DOMAIN c : IsItem(c[i])
    BY <1>5, <1>6, <1>7 DEF Whole, IsItems
  <1> QED BY <1>3, <1>12, <1>13 DEF Whole, IsItems, c

(* A piece of a flat list that cuts no group.                              *)
LEMMA PieceWhole ==
    ASSUME NEW a, Whole(a), NEW m \in 1 .. Len(a) + 1, NEW n \in m - 1 .. Len(a),
           Between(a, m - 1), Between(a, n)
    PROVE  Whole(SubSeq(a, m, n))
  <1> DEFINE c == SubSeq(a, m, n)
             k == m - 1
  <1>1. IsList(a)
    BY DEF Whole, IsItems
  <1>2. Len(a) \in Nat /\ DOMAIN a = 1 .. Len(a)
    BY <1>1, ListLength
  <1>3. /\ IsList(c) /\ Len(c) = n - m + 1 /\ \A i \in 1 .. n - m + 1 : c[i] = a[m + i - 1]
    BY <1>1, PieceOf
  <1>4. DOMAIN c = 1 .. n - m + 1
    BY <1>3, ListLength
  <1>5. k \in Int /\ m = k + 1 /\ Between(a, k)
    BY <1>2
  <1> HIDE DEF c, k
  <1>6. \A i \in DOMAIN c : /\ k + i \in DOMAIN a /\ k < k + i /\ k + i <= n /\ c[i] = a[k + i]
                            /\ (k + i) - k = i
    BY <1>2, <1>3, <1>4, <1>5
  <1>7. \A j \in DOMAIN a : k < j /\ j <= n => j - k \in DOMAIN c /\ k + (j - k) = j
    BY <1>2, <1>4, <1>5
  <1>8. ASSUME NEW g \in DOMAIN a, NEW e \in DOMAIN a, Encloses(a, g, e), k < g, e <= n
        PROVE  g - k \in DOMAIN c /\ e - k \in DOMAIN c /\ Encloses(c, g - k, e - k)
    <2>1. g < e /\ IsGroup(a[g]) /\ IsGroupEnd(a[e]) /\ a[e].id = a[g].id
      BY <1>8 DEF Encloses
    <2>2. g <= n /\ k < e
      BY <1>2, <1>5, <1>8, <2>1
    <2>3. g - k \in DOMAIN c /\ e - k \in DOMAIN c /\ c[g - k] = a[g] /\ c[e - k] = a[e]
      BY <1>6, <1>7, <1>8, <2>2
    <2>4. \A i \in g - k + 1 .. e - k - 1 : i \in DOMAIN c /\ k + i \in g + 1 .. e - 1
      BY <1>2, <1>4, <1>5, <1>8
    <2>5. \A i \in g - k + 1 .. e - k - 1 : IsSession(c[i])
      BY <1>6, <1>8, <2>4 DEF Encloses
    <2>6. g - k < e - k
      BY <1>2, <1>5, <2>1
    <2> QED BY <2>1, <2>3, <2>5, <2>6 DEF Encloses
  <1>9. ASSUME NEW i \in DOMAIN c, IsGroup(c[i]) PROVE \E e \in DOMAIN c : Encloses(c, i, e)
    <2>1. k + i \in DOMAIN a /\ IsGroup(a[k + i])
      BY <1>6, <1>9
    <2>2. PICK e \in DOMAIN a : Encloses(a, k + i, e)
      BY <2>1 DEF Whole, Flat
    <2>3. k + i <= n
      BY <1>6
    <2>4. e <= n
      BY <2>1, <2>2, <2>3, <1>2, <1>5 DEF Between
    <2>5. (k + i) - k = i /\ k < k + i
      BY <1>6
    <2> QED BY <1>8, <2>1, <2>2, <2>4, <2>5
  <1>10. ASSUME NEW i \in DOMAIN c, IsGroupEnd(c[i]) PROVE \E g \in DOMAIN c : Encloses(c, g, i)
    <2>1. k + i \in DOMAIN a /\ IsGroupEnd(a[k + i])
      BY <1>6, <1>10
    <2>2. PICK g \in DOMAIN a : Encloses(a, g, k + i)
      BY <2>1 DEF Whole, Flat
    <2>3. k + i <= n /\ (k + i) - k = i /\ k < k + i
      BY <1>6
    <2>4. k < g
      BY <2>1, <2>2, <2>3, <1>2, <1>5 DEF Between
    <2> QED BY <1>8, <2>1, <2>2, <2>3, <2>4
  <1>11. Flat(c)
    BY <1>9, <1>10 DEF Flat
  <1>12. \A i \in DOMAIN c : IsItem(c[i])
    BY <1>6 DEF Whole, IsItems
  <1> QED BY <1>3, <1>11, <1>12 DEF Whole, IsItems, c

-----------------------------------------------------------------------------
(* The first and the last of some positions.                               *)
LEMMA LeastOf ==
    ASSUME NEW T \in SUBSET Nat, T # {}
    PROVE  Min(T) \in T /\ \A t \in T : Min(T) <= t
  <1>1. \E n \in T : \A t \in T : <<t, n>> \notin OpToRel(<, Nat)
    BY NatLessThanWellFounded, WFMin, Zenon
  <1>2. \A n, t \in Nat : t < n => <<t, n>> \in OpToRel(<, Nat)
    BY Zenon DEF OpToRel
  <1>3. \E n \in T : \A t \in T : ~(t < n)
    BY <1>1, <1>2, Zenon
  <1>4. \E n \in T : \A t \in T : n <= t
    BY <1>3
  <1> QED BY <1>4 DEF Min

LEMMA GreatestOf ==
    ASSUME NEW n \in Nat, NEW T \in SUBSET (1 .. n), T # {}
    PROVE  Max(T) \in T /\ \A t \in T : t <= Max(T)
  <1> DEFINE D == {n - t : t \in T}
  <1>1. D \in SUBSET Nat /\ D # {}
    <2>1. \A t \in T : n - t \in Nat
      OBVIOUS
    <2> QED BY <2>1
  <1>2. Min(D) \in D /\ \A d \in D : Min(D) <= d
    BY <1>1, LeastOf
  <1>3. PICK m \in T : Min(D) = n - m
    BY <1>2
  <1>4. \A t \in T : n - m <= n - t
    BY <1>2, <1>3
  <1>5. \A t \in T : t <= m
    BY <1>4
  <1>6. \E x \in T : \A y \in T : x >= y
    BY <1>5
  <1>7. Max(T) \in T /\ \A y \in T : Max(T) >= y
    BY <1>6 DEF Max
  <1> QED BY <1>7

-----------------------------------------------------------------------------
(* _groupEnd finds the end of a group of a flat list.                      *)
LEMMA GroupEndFound ==
    ASSUME NEW a, Whole(a), NEW g, GroupEnd(a, g) # 0
    PROVE  /\ g \in DOMAIN a /\ GroupEnd(a, g) \in DOMAIN a
           /\ Encloses(a, g, GroupEnd(a, g))
  <1>1. g \in DOMAIN a /\ IsGroup(a[g])
    BY DEF GroupEnd
  <1>2. Len(a) \in Nat /\ DOMAIN a = 1 .. Len(a)
    BY ListLength DEF Whole, IsItems
  <1>3. PICK e \in DOMAIN a : Encloses(a, g, e)
    BY <1>1 DEF Whole, Flat
  <1> DEFINE ends == {i \in g + 1 .. Len(a) : IsGroupEnd(a[i])}
  <1>4. e \in ends /\ ends \in SUBSET Nat
    <2>1. g < e /\ IsGroupEnd(a[e])
      BY <1>3 DEF Encloses
    <2> QED BY <1>1, <1>2, <2>1
  <1>5. GroupEnd(a, g) = Min(ends)
    BY <1>1, <1>4 DEF GroupEnd, SelectInSubSeq
  <1>6. Min(ends) \in ends /\ Min(ends) <= e
    BY <1>2, <1>4, LeastOf
  <1>7. \A i \in g + 1 .. e - 1 : i \in DOMAIN a /\ ~IsGroupEnd(a[i])
    <2>1. \A i \in g + 1 .. e - 1 : i \in DOMAIN a
      BY <1>1, <1>2
    <2>2. \A i \in g + 1 .. e - 1 : IsSession(a[i])
      BY <1>3 DEF Encloses
    <2> QED BY <2>1, <2>2, Kinds DEF Whole, IsItems
  <1>8. Min(ends) = e
    <2> HIDE DEF ends
    <2>1. Min(ends) \in g + 1 .. Len(a) /\ IsGroupEnd(a[Min(ends)])
      BY <1>6 DEF ends
    <2> QED BY <1>2, <1>6, <1>7, <2>1
  <1> QED BY <1>1, <1>3, <1>5, <1>8

LEMMA GroupEndIs ==
    ASSUME NEW a, Whole(a), NEW g \in DOMAIN a, NEW e \in DOMAIN a, Encloses(a, g, e)
    PROVE  GroupEnd(a, g) = e
  <1>1. Len(a) \in Nat /\ DOMAIN a = 1 .. Len(a)
    BY ListLength DEF Whole, IsItems
  <1> DEFINE ends == {i \in g + 1 .. Len(a) : IsGroupEnd(a[i])}
  <1>2. e \in ends /\ IsGroup(a[g]) /\ ends \in SUBSET Nat
    BY <1>1 DEF Encloses
  <1>3. GroupEnd(a, g) = Min(ends)
    BY <1>2 DEF GroupEnd, SelectInSubSeq
  <1>4. Min(ends) \in ends
    BY <1>1, <1>2, LeastOf
  <1>5. GroupEnd(a, g) # 0
    BY <1>1, <1>3, <1>4
  <1>6. /\ GroupEnd(a, g) \in DOMAIN a /\ Encloses(a, g, GroupEnd(a, g))
    BY <1>5, GroupEndFound
  <1>7. (g = g /\ GroupEnd(a, g) = e) \/ e < g \/ GroupEnd(a, g) < g
    BY <1>6, Apart DEF Whole
  <1> QED BY <1>1, <1>6, <1>7 DEF Encloses

(* The places a row can be dropped at.                                     *)
LEMMA ClampedPlace ==
    ASSUME NEW a, IsList(a), NEW n \in Int
    PROVE  Clamped(n, a) \in 1 .. Len(a) + 1
  <1>1. Len(a) \in Nat
    BY ListLength
  <1>2. Max({n, 1}) = IF n >= 1 THEN n ELSE 1
    BY DEF Max
  <1>3. ASSUME NEW x \in Int, NEW y \in Int PROVE Min({x, y}) = IF x <= y THEN x ELSE y
    BY DEF Min
  <1> DEFINE m == IF n >= 1 THEN n ELSE 1
  <1>4. Min({m, Len(a) + 1}) = IF m <= Len(a) + 1 THEN m ELSE Len(a) + 1
    BY <1>1, <1>3
  <1>5. m \in Int /\ m >= 1
    OBVIOUS
  <1> HIDE DEF m
  <1>6. Clamped(n, a) = Min({m, Len(a) + 1})
    BY <1>2 DEF Clamped, m
  <1> QED BY <1>1, <1>4, <1>5, <1>6

(* A group is dropped between groups.                                      *)
LEMMA Snapped ==
    ASSUME NEW a, Whole(a), NEW t \in 1 .. Len(a) + 1
    PROVE  /\ SnapGroupInsertIndex(a, t) \in 1 .. Len(a) + 1
           /\ Between(a, SnapGroupInsertIndex(a, t) - 1)
  <1> DEFINE inside == {g \in DOMAIN a : /\ GroupEnd(a, g) # 0
                                         /\ g < t /\ t <= GroupEnd(a, g)}
             m == Max(inside)
  <1>1. Len(a) \in Nat /\ DOMAIN a = 1 .. Len(a)
    BY ListLength DEF Whole, IsItems
  <1>2. SnapGroupInsertIndex(a, t) = IF inside = {} THEN t ELSE GroupEnd(a, m) + 1
    BY DEF SnapGroupInsertIndex
  <1>3. CASE inside = {}
    <2>1. ASSUME NEW g \in DOMAIN a, NEW e \in DOMAIN a, Encloses(a, g, e)
          PROVE  t - 1 < g \/ e <= t - 1
      <3>1. GroupEnd(a, g) = e
        BY <2>1, GroupEndIs
      <3>2. ~(g < t /\ t <= e)
        BY <1>1, <1>3, <3>1
      <3> QED BY <1>1, <3>2
    <2>2. Between(a, t - 1)
      BY <2>1 DEF Between
    <2> QED BY <1>2, <1>3, <2>2
  <1>4. CASE inside # {}
    <2>1. m \in inside
      BY <1>1, <1>4, GreatestOf
    <2> HIDE DEF m
    <2>2. GroupEnd(a, m) # 0
      BY <2>1
    <2>3. /\ m \in DOMAIN a /\ GroupEnd(a, m) \in DOMAIN a
          /\ Encloses(a, m, GroupEnd(a, m))
      BY <2>2, GroupEndFound
    <2>4. Between(a, GroupEnd(a, m))
      BY <2>3, EndsOfGroup DEF Whole
    <2>5. SnapGroupInsertIndex(a, t) = GroupEnd(a, m) + 1
      BY <1>2, <1>4
    <2>6. /\ SnapGroupInsertIndex(a, t) - 1 = GroupEnd(a, m)
          /\ SnapGroupInsertIndex(a, t) \in 1 .. Len(a) + 1
      BY <1>1, <2>3, <2>5
    <2> QED BY <2>4, <2>6
  <1> QED BY <1>3, <1>4

-----------------------------------------------------------------------------
(* Putting a session into a list and taking one out.                       *)
(* The items of a are in b, in their order; what else b has are sessions.  *)
Embeds(p, a, b) ==
    /\ p \in [DOMAIN a -> DOMAIN b]
    /\ \A i, j \in DOMAIN a : i < j => p[i] < p[j]
    /\ \A i \in DOMAIN a : b[p[i]] = a[i]
    /\ \A j \in DOMAIN b : IsSession(b[j]) \/ \E i \in DOMAIN a : j = p[i]

LEMMA EmbeddedGroups ==
    ASSUME NEW a, NEW b, IsItems(a), IsItems(b), NEW p, Embeds(p, a, b),
           NEW g \in DOMAIN a, NEW e \in DOMAIN a
    PROVE  Encloses(a, g, e) <=> Encloses(b, p[g], p[e])
  <1>1. DOMAIN a = 1 .. Len(a) /\ DOMAIN b = 1 .. Len(b) /\ Len(a) \in Nat /\ Len(b) \in Nat
    BY ListLength DEF IsItems
  <1>2. \A i \in DOMAIN a : p[i] \in DOMAIN b /\ b[p[i]] = a[i]
    BY DEF Embeds
  <1>3. \A i, j \in DOMAIN a : i < j <=> p[i] < p[j]
    <2>1. \A i, j \in DOMAIN a : i < j => p[i] < p[j]
      BY DEF Embeds
    <2>2. ASSUME NEW i \in DOMAIN a, NEW j \in DOMAIN a, ~(i < j) PROVE ~(p[i] < p[j])
      <3>1. p[i] \in Int /\ p[j] \in Int
        BY <1>1, <1>2
      <3>2. i = j \/ j < i
        BY <1>1, <2>2
      <3>3. i = j \/ p[j] < p[i]
        BY <2>1, <3>2
      <3> QED BY <3>1, <3>3
    <2> QED BY <2>1, <2>2
  <1>4. ASSUME Encloses(a, g, e) PROVE Encloses(b, p[g], p[e])
    <2>1. g < e /\ IsGroup(a[g]) /\ IsGroupEnd(a[e]) /\ a[e].id = a[g].id
      BY <1>4 DEF Encloses
    <2>2. ASSUME NEW j \in p[g] + 1 .. p[e] - 1, ~IsSession(b[j]) PROVE FALSE
      <3>1. j \in DOMAIN b /\ p[g] < j /\ j < p[e]
        BY <1>1, <1>2
      <3>2. PICK i \in DOMAIN a : j = p[i]
        BY <2>2, <3>1 DEF Embeds
      <3>3. g < i /\ i < e
        BY <1>3, <3>1, <3>2
      <3>4. i \in g + 1 .. e - 1
        BY <1>1, <3>3
      <3> QED BY <1>2, <1>4, <2>2, <3>2, <3>4 DEF Encloses
    <2> QED BY <1>2, <1>3, <2>1, <2>2 DEF Encloses
  <1>5. ASSUME Encloses(b, p[g], p[e]) PROVE Encloses(a, g, e)
    <2>1. p[g] < p[e] /\ IsGroup(b[p[g]]) /\ IsGroupEnd(b[p[e]]) /\ b[p[e]].id = b[p[g]].id
      BY <1>5 DEF Encloses
    <2>2. ASSUME NEW i \in g + 1 .. e - 1 PROVE IsSession(a[i])
      <3>1. i \in DOMAIN a /\ g < i /\ i < e
        BY <1>1
      <3>2. p[g] < p[i] /\ p[i] < p[e]
        BY <1>3, <3>1
      <3>3. p[i] \in p[g] + 1 .. p[e] - 1
        BY <1>1, <1>2, <3>1, <3>2
      <3>4. IsSession(b[p[i]])
        BY <1>5, <3>3 DEF Encloses
      <3> QED BY <1>2, <3>1, <3>4
    <2> QED BY <1>2, <1>3, <2>1, <2>2 DEF Encloses
  <1> QED BY <1>4, <1>5

LEMMA EmbeddedWhole ==
    ASSUME NEW a, NEW b, IsItems(a), IsItems(b), NEW p, Embeds(p, a, b)
    PROVE  Whole(a) <=> Whole(b)
  <1>1. \A i \in DOMAIN a : p[i] \in DOMAIN b /\ b[p[i]] = a[i]
    BY DEF Embeds
  <1>2. \A j \in DOMAIN b : IsGroup(b[j]) \/ IsGroupEnd(b[j]) => \E i \in DOMAIN a : j = p[i]
    BY Kinds DEF Embeds, IsItems
  <1>3. \A g, e \in DOMAIN a : Encloses(a, g, e) <=> Encloses(b, p[g], p[e])
    BY EmbeddedGroups
  <1>4. ASSUME Flat(a) PROVE Flat(b)
    BY <1>1, <1>2, <1>3, <1>4 DEF Flat
  <1>5. ASSUME Flat(b) PROVE Flat(a)
    <2>1. ASSUME NEW g \in DOMAIN a, IsGroup(a[g]) PROVE \E e \in DOMAIN a : Encloses(a, g, e)
      <3>1. PICK f \in DOMAIN b : Encloses(b, p[g], f)
        BY <1>1, <1>5, <2>1 DEF Flat
      <3>2. PICK e \in DOMAIN a : f = p[e]
        BY <1>2, <3>1 DEF Encloses
      <3> QED BY <1>3, <3>1, <3>2
    <2>2. ASSUME NEW e \in DOMAIN a, IsGroupEnd(a[e]) PROVE \E g \in DOMAIN a : Encloses(a, g, e)
      <3>1. PICK f \in DOMAIN b : Encloses(b, f, p[e])
        BY <1>1, <1>5, <2>2 DEF Flat
      <3>2. PICK g \in DOMAIN a : f = p[g]
        BY <1>2, <3>1 DEF Encloses
      <3> QED BY <1>3, <3>1, <3>2
    <2> QED BY <2>1, <2>2 DEF Flat
  <1> QED BY <1>4, <1>5 DEF Whole

LEMMA PutAt ==
    ASSUME NEW a, IsList(a), NEW at \in 1 .. Len(a) + 1, NEW x
    PROVE  /\ IsList(InsertAt(a, at, x)) /\ Len(InsertAt(a, at, x)) = Len(a) + 1
           /\ InsertAt(a, at, x)[at] = x
           /\ \A i \in 1 .. Len(a) : InsertAt(a, at, x)[IF i < at THEN i ELSE i + 1] = a[i]
  <1> DEFINE f == SubSeq(a, 1, at - 1)
             l == SubSeq(a, at, Len(a))
             fx == f \o <<x>>
             c == fx \o l
  <1>1. Len(a) \in Nat
    BY ListLength
  <1>2. IsList(f) /\ Len(f) = at - 1 /\ \A i \in 1 .. at - 1 : f[i] = a[i]
    <2>1. 1 \in 1 .. Len(a) + 1 /\ at - 1 \in 1 - 1 .. Len(a)
      BY <1>1
    <2>2. /\ IsList(f) /\ Len(f) = at - 1 - 1 + 1
          /\ \A i \in 1 .. at - 1 - 1 + 1 : f[i] = a[1 + i - 1]
      BY <2>1, PieceOf
    <2> QED BY <1>1, <2>2
  <1>3. IsList(l) /\ Len(l) = Len(a) - at + 1 /\ \A i \in 1 .. Len(a) - at + 1 : l[i] = a[at + i - 1]
    BY <1>1, PieceOf
  <1>4. IsList(<<x>>) /\ Len(<<x>>) = 1 /\ <<x>>[1] = x
    BY OneItem
  <1>5. /\ IsList(fx) /\ Len(fx) = Len(f) + Len(<<x>>)
        /\ \A i \in 1 .. Len(f) : fx[i] = f[i]
        /\ \A i \in 1 .. Len(<<x>>) : fx[Len(f) + i] = <<x>>[i]
    BY <1>2, <1>4, Joined
  <1>6. Len(fx) = at /\ fx[at] = x /\ \A i \in 1 .. at - 1 : fx[i] = a[i]
    <2>1. 1 \in 1 .. Len(<<x>>) /\ Len(f) + 1 = at
      BY <1>1, <1>2, <1>4
    <2>2. fx[at] = x
      BY <1>4, <1>5, <2>1
    <2> QED BY <1>1, <1>2, <1>4, <1>5, <2>2
  <1> HIDE DEF fx, l
  <1>7. /\ IsList(c) /\ Len(c) = Len(fx) + Len(l)
        /\ \A i \in 1 .. Len(fx) : c[i] = fx[i]
        /\ \A i \in 1 .. Len(l) : c[Len(fx) + i] = l[i]
    <2>1. IsList(fx) /\ IsList(l)
      BY <1>3, <1>5
    <2> QED BY <2>1, Joined
  <1>8. InsertAt(a, at, x) = c
    BY DEF InsertAt, fx, l
  <1> HIDE DEF c
  <1>9. Len(c) = Len(a) + 1 /\ c[at] = x /\ \A i \in 1 .. at - 1 : c[i] = a[i]
    BY <1>1, <1>3, <1>6, <1>7
  <1>10. ASSUME NEW i \in at .. Len(a) PROVE c[i + 1] = a[i]
    <2> DEFINE k == (i - at) + 1
    <2>1. k \in 1 .. Len(l) /\ Len(fx) + k = i + 1 /\ at + k - 1 = i
      BY <1>1, <1>3, <1>6
    <2> HIDE DEF k
    <2>2. c[Len(fx) + k] = l[k]
      BY <1>7, <2>1
    <2>3. l[k] = a[at + k - 1]
      BY <1>3, <2>1
    <2> QED BY <2>1, <2>2, <2>3
  <1>11. ASSUME NEW i \in 1 .. Len(a) PROVE c[IF i < at THEN i ELSE i + 1] = a[i]
    <2>1. CASE i < at
      BY <1>1, <1>9, <1>10, <2>1
    <2>2. CASE ~(i < at)
      BY <1>1, <1>9, <1>10, <2>2
    <2> QED BY <2>1, <2>2
  <1> QED BY <1>7, <1>8, <1>9, <1>11

LEMMA TakenAt ==
    ASSUME NEW a, IsList(a), NEW at \in DOMAIN a
    PROVE  /\ IsList(RemoveAt(a, at)) /\ Len(RemoveAt(a, at)) = Len(a) - 1
           /\ \A i \in 1 .. Len(a) - 1 : RemoveAt(a, at)[i] = a[IF i < at THEN i ELSE i + 1]
  <1> DEFINE f == SubSeq(a, 1, at - 1)
             l == SubSeq(a, at + 1, Len(a))
             c == f \o l
  <1>1. Len(a) \in Nat /\ at \in 1 .. Len(a)
    BY ListLength
  <1>2. IsList(f) /\ Len(f) = at - 1 /\ \A i \in 1 .. at - 1 : f[i] = a[i]
    <2>1. 1 \in 1 .. Len(a) + 1 /\ at - 1 \in 1 - 1 .. Len(a)
      BY <1>1
    <2>2. /\ IsList(f) /\ Len(f) = at - 1 - 1 + 1
          /\ \A i \in 1 .. at - 1 - 1 + 1 : f[i] = a[1 + i - 1]
      BY <2>1, PieceOf
    <2> QED BY <1>1, <2>2
  <1>3. IsList(l) /\ Len(l) = Len(a) - at /\ \A i \in 1 .. Len(a) - at : l[i] = a[at + i]
    <2>1. at + 1 \in 1 .. Len(a) + 1 /\ Len(a) \in at + 1 - 1 .. Len(a)
      BY <1>1
    <2>2. /\ IsList(l) /\ Len(l) = Len(a) - (at + 1) + 1
          /\ \A i \in 1 .. Len(a) - (at + 1) + 1 : l[i] = a[at + 1 + i - 1]
      <3> DEFINE m == at + 1
      <3>1. m \in 1 .. Len(a) + 1 /\ Len(a) \in m - 1 .. Len(a)
        BY <2>1
      <3> HIDE DEF m
      <3>2. /\ IsList(SubSeq(a, m, Len(a))) /\ Len(SubSeq(a, m, Len(a))) = Len(a) - m + 1
            /\ \A i \in 1 .. Len(a) - m + 1 : SubSeq(a, m, Len(a))[i] = a[m + i - 1]
        BY <3>1, PieceOf
      <3> QED BY <3>2 DEF m
    <2> HIDE DEF l
    <2>3. Len(a) - (at + 1) + 1 = Len(a) - at
      BY <1>1
    <2>4. ASSUME NEW i \in 1 .. Len(a) - at PROVE i \in Int /\ at + 1 + i - 1 = at + i
      BY <1>1
    <2> QED BY <2>2, <2>3, <2>4
  <1>4. /\ IsList(c) /\ Len(c) = Len(f) + Len(l)
        /\ \A i \in 1 .. Len(f) : c[i] = f[i]
        /\ \A i \in 1 .. Len(l) : c[Len(f) + i] = l[i]
    <2>1. IsList(f) /\ IsList(l)
      BY <1>2, <1>3
    <2> HIDE DEF f, l
    <2> QED BY <2>1, Joined
  <1>5. RemoveAt(a, at) = c
    BY DEF RemoveAt
  <1> HIDE DEF c, f, l
  <1>6. ASSUME NEW i \in 1 .. Len(a) - 1 PROVE c[i] = a[IF i < at THEN i ELSE i + 1]
    <2>1. CASE i < at
      <3>1. i \in 1 .. Len(f) /\ i \in 1 .. at - 1
        BY <1>1, <1>2, <2>1
      <3>2. c[i] = f[i] /\ f[i] = a[i]
        BY <1>2, <1>4, <3>1
      <3> QED BY <2>1, <3>2
    <2>2. CASE ~(i < at)
      <3> DEFINE k == (i - at) + 1
      <3>1. k \in 1 .. Len(l) /\ Len(f) + k = i /\ at + k = i + 1
        <4>1. at \in Int /\ i \in Int /\ at <= i /\ i <= Len(a) - 1 /\ Len(a) \in Int
          BY <1>1, <2>2
        <4>2. Len(l) = Len(a) - at /\ Len(f) = at - 1
          BY <1>2, <1>3
        <4> QED BY <4>1, <4>2
      <3> HIDE DEF k
      <3>2. c[Len(f) + k] = l[k]
        BY <1>4, <3>1
      <3>4. l[k] = a[at + k]
        <4>1. k \in 1 .. Len(a) - at
          BY <1>3, <3>1
        <4> QED BY <1>3, <4>1
      <3>3. c[i] = a[i + 1]
        BY <3>1, <3>2, <3>4
      <3> QED BY <2>2, <3>3
    <2> QED BY <2>1, <2>2
  <1>7. IsList(c) /\ Len(c) = Len(a) - 1
    <2>1. Len(c) = (at - 1) + (Len(a) - at)
      BY <1>2, <1>3, <1>4
    <2>2. (at - 1) + (Len(a) - at) = Len(a) - 1
      BY <1>1
    <2> QED BY <1>4, <2>1, <2>2
  <1> QED BY <1>5, <1>6, <1>7

LEMMA PutWhole ==
    ASSUME NEW a, Whole(a), NEW at \in 1 .. Len(a) + 1, NEW x, IsItem(x), IsSession(x)
    PROVE  Whole(InsertAt(a, at, x))
  <1> DEFINE b == InsertAt(a, at, x)
             q(i) == IF i < at THEN i ELSE i + 1
             p == [i \in DOMAIN a |-> q(i)]
  <1>1. IsItems(a) /\ Len(a) \in Nat /\ DOMAIN a = 1 .. Len(a)
    BY ListLength DEF Whole, IsItems
  <1>2. IsList(b) /\ Len(b) = Len(a) + 1 /\ b[at] = x /\ \A i \in 1 .. Len(a) : b[q(i)] = a[i]
    BY <1>1, PutAt DEF IsItems
  <1> HIDE DEF b
  <1>3. DOMAIN b = 1 .. Len(a) + 1
    BY <1>2, ListLength
  <1>4. \A j \in DOMAIN b : j = at \/ \E i \in DOMAIN a : j = q(i)
    <2>1. ASSUME NEW j \in DOMAIN b, j < at PROVE j \in DOMAIN a /\ j = q(j)
      BY <1>1, <1>3, <2>1
    <2>2. ASSUME NEW j \in DOMAIN b, at < j PROVE j - 1 \in DOMAIN a /\ j = q(j - 1)
      BY <1>1, <1>3, <2>2
    <2> QED BY <1>1, <1>3, <2>1, <2>2
  <1>5. Embeds(p, a, b)
    <2>1. \A i \in DOMAIN a : q(i) \in DOMAIN b
      BY <1>1, <1>3
    <2>2. \A i, j \in DOMAIN a : i < j => q(i) < q(j)
      BY <1>1
    <2>3. \A i \in DOMAIN a : p[i] = q(i)
      OBVIOUS
    <2>4. p \in [DOMAIN a -> DOMAIN b]
      BY <2>1
    <2> HIDE DEF p, q
    <2> QED BY <1>1, <1>2, <1>4, <2>2, <2>3, <2>4 DEF Embeds
  <1>6. IsItems(b)
    BY <1>1, <1>2, <1>4 DEF IsItems
  <1>7. Whole(b)
    BY <1>1, <1>5, <1>6, EmbeddedWhole
  <1> QED BY <1>7 DEF b

LEMMA TakenWhole ==
    ASSUME NEW a, Whole(a), NEW at \in DOMAIN a, IsSession(a[at])
    PROVE  Whole(RemoveAt(a, at))
  <1> DEFINE b == RemoveAt(a, at)
             q(i) == IF i < at THEN i ELSE i + 1
             p == [i \in DOMAIN b |-> q(i)]
  <1>1. IsItems(a) /\ Len(a) \in Nat /\ DOMAIN a = 1 .. Len(a)
    BY ListLength DEF Whole, IsItems
  <1>2. IsList(b) /\ Len(b) = Len(a) - 1 /\ \A i \in 1 .. Len(a) - 1 : b[i] = a[q(i)]
    BY <1>1, TakenAt DEF IsItems
  <1> HIDE DEF b
  <1>3. DOMAIN b = 1 .. Len(a) - 1
    BY <1>2, ListLength
  <1>4. \A j \in DOMAIN a : j = at \/ \E i \in DOMAIN b : j = q(i)
    <2>1. ASSUME NEW j \in DOMAIN a, j < at PROVE j \in DOMAIN b /\ j = q(j)
      BY <1>1, <1>3, <2>1
    <2>2. ASSUME NEW j \in DOMAIN a, at < j PROVE j - 1 \in DOMAIN b /\ j = q(j - 1)
      BY <1>1, <1>3, <2>2
    <2> QED BY <1>1, <1>3, <2>1, <2>2
  <1>5. \A i \in DOMAIN b : q(i) \in DOMAIN a
    BY <1>1, <1>3
  <1>6. Embeds(p, b, a)
    <2>1. \A i, j \in DOMAIN b : i < j => q(i) < q(j)
      BY <1>1, <1>3
    <2>2. \A i \in DOMAIN b : p[i] = q(i)
      OBVIOUS
    <2>3. p \in [DOMAIN b -> DOMAIN a]
      BY <1>5
    <2> HIDE DEF p, q
    <2> QED BY <1>2, <1>3, <1>4, <2>1, <2>2, <2>3 DEF Embeds
  <1>7. IsItems(b)
    BY <1>1, <1>2, <1>3, <1>5 DEF IsItems
  <1>8. Whole(b)
    BY <1>1, <1>6, <1>7, EmbeddedWhole
  <1> QED BY <1>8 DEF b

-----------------------------------------------------------------------------
(* A fold goes through a list from its first element to its last.          *)
LEMMA WithoutLast ==
    ASSUME NEW n \in Nat, NEW S \in SUBSET (1 .. n), S # {}
    PROVE  /\ Max(S) \in S /\ S \ {Max(S)} \in SUBSET (1 .. n)
           /\ Cardinality(S) \in Nat /\ Cardinality(S \ {Max(S)}) = Cardinality(S) - 1
           /\ Cardinality(S) - 1 \in Nat
  <1>1. Max(S) \in S
    BY GreatestOf
  <1>2. IsFiniteSet(1 .. n)
    BY FS_Interval
  <1>3. IsFiniteSet(S)
    BY <1>2, FS_Subset
  <1>4. Cardinality(S) \in Nat /\ Cardinality(S \ {Max(S)}) = Cardinality(S) - 1
    BY <1>1, <1>3, FS_RemoveElement, FS_CardinalityType
  <1>5. IsFiniteSet(S \ {Max(S)})
    BY <1>3, FS_Subset
  <1>6. Cardinality(S \ {Max(S)}) \in Nat
    BY <1>5, FS_CardinalityType
  <1> QED BY <1>1, <1>4, <1>6

LEMMA LastOfFirst ==
    ASSUME NEW n \in Nat, NEW k \in 1 .. n
    PROVE  1 .. k \in SUBSET (1 .. n) /\ 1 .. k # {} /\ Max(1 .. k) = k /\ (1 .. k) \ {k} = 1 .. k - 1
  <1>1. k \in Nat /\ k \in 1 .. k
    OBVIOUS
  <1>2. Max(1 .. k) \in 1 .. k /\ k <= Max(1 .. k)
    BY <1>1, GreatestOf
  <1> QED BY <1>1, <1>2

(* parse_markdown_items goes through the lines one by one.                *)
LEMMA ParsedInTurn ==
    ASSUME NEW f, IsList(f)
    PROVE  \E run : /\ run[0] = ParseStart /\ FoldLeft(ParseLine, ParseStart, f) = run[Len(f)]
                   /\ \A k \in 1 .. Len(f) : run[k] = ParseLine(run[k - 1], f[k])
  <1> DEFINE n == Len(f)
             W == 1 .. n
             Step(i, st) == ParseLine(st, f[i])
             Body(g, S) == IF S = {} THEN ParseStart ELSE Step(Max(S), g[S \ {Max(S)}])
             iter == CHOOSE g : g = [S \in SUBSET W |-> Body(g, S)]
  <1>1. n \in Nat /\ DOMAIN f = W
    BY ListLength
  <1>2. FoldLeft(ParseLine, ParseStart, f) = iter[W]
    <2>1. FoldLeft(ParseLine, ParseStart, f) = iter[DOMAIN f]
      BY <1>1 DEF FoldLeft, MapThenFoldSet
    <2> QED BY <1>1, <2>1
  <1>3. \A g, S : Body(g, S) = IF S = {} THEN ParseStart ELSE Step(Max(S), g[S \ {Max(S)}])
    OBVIOUS
  <1>4. \A S \in SUBSET W : S # {} =>
          /\ Max(S) \in S /\ S \ {Max(S)} \in SUBSET W
          /\ Cardinality(S) \in Nat /\ Cardinality(S \ {Max(S)}) = Cardinality(S) - 1
          /\ Cardinality(S) - 1 \in Nat
    BY <1>1, WithoutLast
  <1>5. Cardinality({}) = 0 /\ Cardinality(W) \in Nat /\ IsFiniteSet(W)
    BY <1>1, FS_EmptySet, FS_Interval, FS_CardinalityType
  <1>6. \A k \in 1 .. n : 1 .. k \in SUBSET W /\ 1 .. k # {} /\ Max(1 .. k) = k /\ (1 .. k) \ {k} = 1 .. k - 1
    BY <1>1, LastOfFirst
  <1>7. \A i, st : Step(i, st) = ParseLine(st, f[i])
    OBVIOUS
  <1> HIDE DEF Step, Body
  <1> DEFINE Upto(g, m) == \A S \in SUBSET W : Cardinality(S) <= m => g[S] = Body(g, S)
             Short == {m \in Nat : ~\E g : Upto(g, m)}
  <1>8. 0 \notin Short
    <2> DEFINE g == [S \in SUBSET W |-> ParseStart]
    <2>1. ASSUME NEW S \in SUBSET W, Cardinality(S) <= 0 PROVE S = {}
      <3> SUFFICES ASSUME S # {} PROVE FALSE
        OBVIOUS
      <3>1. Cardinality(S) \in Nat /\ Cardinality(S) - 1 \in Nat
        BY <1>4
      <3> QED BY <2>1, <3>1
    <2>2. Upto(g, 0)
      BY <1>3, <2>1
    <2> QED BY <2>2
  <1>9. ASSUME NEW m \in Nat, m \notin Short PROVE m + 1 \notin Short
    <2>1. PICK g : Upto(g, m)
      BY <1>9
    <2> DEFINE h == [S \in SUBSET W |-> Body(g, S)]
    <2>2. \A S \in SUBSET W : h[S] = Body(g, S)
      OBVIOUS
    <2>3. ASSUME NEW S \in SUBSET W, Cardinality(S) <= m + 1 PROVE h[S] = Body(h, S)
      <3>1. CASE S = {}
        BY <1>3, <2>2, <3>1
      <3>2. CASE S # {}
        <4>1. S \ {Max(S)} \in SUBSET W /\ Cardinality(S \ {Max(S)}) <= m
          BY <1>4, <2>3, <3>2
        <4>2. g[S \ {Max(S)}] = h[S \ {Max(S)}]
          BY <2>1, <2>2, <4>1
        <4> QED BY <1>3, <2>2, <3>2, <4>2
      <3> QED BY <3>1, <3>2
    <2>4. Upto(h, m + 1)
      BY <2>3
    <2> QED BY <2>4
  <1> HIDE DEF Upto
  <1>10. Short = {}
    <2> SUFFICES ASSUME Short # {} PROVE FALSE
      OBVIOUS
    <2>1. PICK m \in Short : \A t \in Short : m <= t
      BY LeastOf
    <2>2. m \in Nat /\ m # 0
      BY <1>8
    <2>3. m - 1 \in Nat /\ m - 1 \notin Short
      BY <2>1, <2>2
    <2>4. (m - 1) + 1 \notin Short
      BY <1>9, <2>3
    <2> QED BY <2>2, <2>4
  <1>11. \A S \in SUBSET W : iter[S] = Body(iter, S)
    <2>1. PICK g : Upto(g, Cardinality(W))
      BY <1>5, <1>10
    <2>2. \A S \in SUBSET W : Cardinality(S) <= Cardinality(W)
      BY <1>5, FS_Subset
    <2> DEFINE h == [S \in SUBSET W |-> g[S]]
    <2>3. \A S \in SUBSET W : h[S] = Body(h, S)
      BY <1>3, <1>4, <2>1, <2>2 DEF Upto
    <2>4. h = [S \in SUBSET W |-> Body(h, S)]
      BY <2>3
    <2>5. iter = [S \in SUBSET W |-> Body(iter, S)]
      BY <2>4
    <2> QED BY <2>5
  <1> HIDE DEF iter
  <1> DEFINE run == [k \in 0 .. n |-> iter[1 .. k]]
  <1>12. run[0] = ParseStart
    <2>1. 1 .. 0 = {} /\ {} \in SUBSET W
      OBVIOUS
    <2>2. 0 \in 0 .. n
      BY <1>1
    <2>3. run[0] = iter[1 .. 0]
      BY <2>2
    <2>4. iter[{}] = Body(iter, {})
      BY <1>11, <2>1
    <2> QED BY <1>3, <2>1, <2>3, <2>4
  <1>13. ASSUME NEW k \in 1 .. n PROVE run[k] = ParseLine(run[k - 1], f[k])
    <2>1. iter[1 .. k] = Step(k, iter[1 .. k - 1])
      <3>1. 1 .. k \in SUBSET W /\ 1 .. k # {} /\ Max(1 .. k) = k /\ (1 .. k) \ {k} = 1 .. k - 1
        BY <1>6
      <3>2. iter[1 .. k] = Body(iter, 1 .. k)
        BY <1>11, <3>1
      <3>3. Body(iter, 1 .. k) = Step(Max(1 .. k), iter[(1 .. k) \ {Max(1 .. k)}])
        BY <1>3, <3>1
      <3> QED BY <3>1, <3>2, <3>3
    <2>2. run[k] = iter[1 .. k] /\ run[k - 1] = iter[1 .. k - 1]
      BY <1>1
    <2> QED BY <1>7, <2>1, <2>2
  <1>14. FoldLeft(ParseLine, ParseStart, f) = run[n]
    BY <1>1, <1>2
  <1> HIDE DEF run
  <1> QED BY <1>12, <1>13, <1>14

(* render_markdown_items goes through the items one by one.               *)
LEMMA RenderedInTurn ==
    ASSUME NEW list, IsList(list)
    PROVE  \E run : /\ run[0] = <<>> /\ RenderMarkdownItems(list) = run[Len(list)]
                   /\ \A k \in 1 .. Len(list) : run[k] = run[k - 1] \o RenderItem(list[k])
  <1> DEFINE n == Len(list)
             W == 1 .. n
             Step(i, st) == st \o RenderItem(list[i])
             Body(g, S) == IF S = {} THEN <<>> ELSE Step(Max(S), g[S \ {Max(S)}])
             iter == CHOOSE g : g = [S \in SUBSET W |-> Body(g, S)]
  <1>1. n \in Nat /\ DOMAIN list = W
    BY ListLength
  <1>2. RenderMarkdownItems(list) = iter[W]
    <2>1. RenderMarkdownItems(list) = iter[DOMAIN list]
      BY <1>1 DEF RenderMarkdownItems, FoldLeft, MapThenFoldSet
    <2> QED BY <1>1, <2>1
  <1>3. \A g, S : Body(g, S) = IF S = {} THEN <<>> ELSE Step(Max(S), g[S \ {Max(S)}])
    OBVIOUS
  <1>4. \A S \in SUBSET W : S # {} =>
          /\ Max(S) \in S /\ S \ {Max(S)} \in SUBSET W
          /\ Cardinality(S) \in Nat /\ Cardinality(S \ {Max(S)}) = Cardinality(S) - 1
          /\ Cardinality(S) - 1 \in Nat
    BY <1>1, WithoutLast
  <1>5. Cardinality({}) = 0 /\ Cardinality(W) \in Nat /\ IsFiniteSet(W)
    BY <1>1, FS_EmptySet, FS_Interval, FS_CardinalityType
  <1>6. \A k \in 1 .. n : 1 .. k \in SUBSET W /\ 1 .. k # {} /\ Max(1 .. k) = k /\ (1 .. k) \ {k} = 1 .. k - 1
    BY <1>1, LastOfFirst
  <1>7. \A i, st : Step(i, st) = st \o RenderItem(list[i])
    OBVIOUS
  <1> HIDE DEF Step, Body
  <1> DEFINE Upto(g, m) == \A S \in SUBSET W : Cardinality(S) <= m => g[S] = Body(g, S)
             Short == {m \in Nat : ~\E g : Upto(g, m)}
  <1>8. 0 \notin Short
    <2> DEFINE g == [S \in SUBSET W |-> <<>>]
    <2>1. ASSUME NEW S \in SUBSET W, Cardinality(S) <= 0 PROVE S = {}
      <3> SUFFICES ASSUME S # {} PROVE FALSE
        OBVIOUS
      <3>1. Cardinality(S) \in Nat /\ Cardinality(S) - 1 \in Nat
        BY <1>4
      <3> QED BY <2>1, <3>1
    <2>2. Upto(g, 0)
      BY <1>3, <2>1
    <2> QED BY <2>2
  <1>9. ASSUME NEW m \in Nat, m \notin Short PROVE m + 1 \notin Short
    <2>1. PICK g : Upto(g, m)
      BY <1>9
    <2> DEFINE h == [S \in SUBSET W |-> Body(g, S)]
    <2>2. \A S \in SUBSET W : h[S] = Body(g, S)
      OBVIOUS
    <2>3. ASSUME NEW S \in SUBSET W, Cardinality(S) <= m + 1 PROVE h[S] = Body(h, S)
      <3>1. CASE S = {}
        BY <1>3, <2>2, <3>1
      <3>2. CASE S # {}
        <4>1. S \ {Max(S)} \in SUBSET W /\ Cardinality(S \ {Max(S)}) <= m
          BY <1>4, <2>3, <3>2
        <4>2. g[S \ {Max(S)}] = h[S \ {Max(S)}]
          BY <2>1, <2>2, <4>1
        <4> QED BY <1>3, <2>2, <3>2, <4>2
      <3> QED BY <3>1, <3>2
    <2>4. Upto(h, m + 1)
      BY <2>3
    <2> QED BY <2>4
  <1> HIDE DEF Upto
  <1>10. Short = {}
    <2> SUFFICES ASSUME Short # {} PROVE FALSE
      OBVIOUS
    <2>1. PICK m \in Short : \A t \in Short : m <= t
      BY LeastOf
    <2>2. m \in Nat /\ m # 0
      BY <1>8
    <2>3. m - 1 \in Nat /\ m - 1 \notin Short
      BY <2>1, <2>2
    <2>4. (m - 1) + 1 \notin Short
      BY <1>9, <2>3
    <2> QED BY <2>2, <2>4
  <1>11. \A S \in SUBSET W : iter[S] = Body(iter, S)
    <2>1. PICK g : Upto(g, Cardinality(W))
      BY <1>5, <1>10
    <2>2. \A S \in SUBSET W : Cardinality(S) <= Cardinality(W)
      BY <1>5, FS_Subset
    <2> DEFINE h == [S \in SUBSET W |-> g[S]]
    <2>3. \A S \in SUBSET W : h[S] = Body(h, S)
      BY <1>3, <1>4, <2>1, <2>2 DEF Upto
    <2>4. h = [S \in SUBSET W |-> Body(h, S)]
      BY <2>3
    <2>5. iter = [S \in SUBSET W |-> Body(iter, S)]
      BY <2>4
    <2> QED BY <2>5
  <1> HIDE DEF iter
  <1> DEFINE run == [k \in 0 .. n |-> iter[1 .. k]]
  <1>12. run[0] = <<>>
    <2>1. 1 .. 0 = {} /\ {} \in SUBSET W
      OBVIOUS
    <2>2. 0 \in 0 .. n
      BY <1>1
    <2>3. run[0] = iter[1 .. 0]
      BY <2>2
    <2>4. iter[{}] = Body(iter, {})
      BY <1>11, <2>1
    <2> QED BY <1>3, <2>1, <2>3, <2>4
  <1>13. ASSUME NEW k \in 1 .. n PROVE run[k] = run[k - 1] \o RenderItem(list[k])
    <2>1. iter[1 .. k] = Step(k, iter[1 .. k - 1])
      <3>1. 1 .. k \in SUBSET W /\ 1 .. k # {} /\ Max(1 .. k) = k /\ (1 .. k) \ {k} = 1 .. k - 1
        BY <1>6
      <3>2. iter[1 .. k] = Body(iter, 1 .. k)
        BY <1>11, <3>1
      <3>3. Body(iter, 1 .. k) = Step(Max(1 .. k), iter[(1 .. k) \ {Max(1 .. k)}])
        BY <1>3, <3>1
      <3> QED BY <3>1, <3>2, <3>3
    <2>2. run[k] = iter[1 .. k] /\ run[k - 1] = iter[1 .. k - 1]
      BY <1>1
    <2> QED BY <1>7, <2>1, <2>2
  <1>14. RenderMarkdownItems(list) = run[n]
    BY <1>1, <1>2
  <1> HIDE DEF run
  <1> QED BY <1>12, <1>13, <1>14

-----------------------------------------------------------------------------
(* Items.                                                                  *)
LEMMA NewItems ==
    ASSUME NEW id, NEW name, NEW color, NEW p
    PROVE  /\ id # NoGroup => IsItem(GroupItem(id, name, color))
           /\ IsGroup(GroupItem(id, name, color)) /\ GroupItem(id, name, color).id = id
           /\ IsItem(GroupEndItem(id)) /\ IsGroupEnd(GroupEndItem(id)) /\ GroupEndItem(id).id = id
           /\ IsItem(SessionItem(p, id, name)) /\ IsSession(SessionItem(p, id, name))
  BY DEF IsItem, IsGroup, IsGroupEnd, IsSession, GroupItem, GroupEndItem, SessionItem

LEMMA SessionsWhole ==
    ASSUME NEW a, IsItems(a), \A i \in DOMAIN a : IsSession(a[i])
    PROVE  Whole(a)
  BY Kinds DEF Whole, Flat, IsItems

LEMMA EmptyWhole ==
    Whole(<<>>)
  BY NoItems DEF Whole, Flat, IsItems

LEMMA SessionWhole ==
    ASSUME NEW x, IsItem(x), IsSession(x)
    PROVE  Whole(<<x>>)
  <1>1. IsList(<<x>>) /\ Len(<<x>>) = 1 /\ <<x>>[1] = x
    BY OneItem
  <1>2. DOMAIN <<x>> = {1}
    BY <1>1, ListLength
  <1>3. \A i \in DOMAIN <<x>> : <<x>>[i] = x
    BY <1>1, <1>2
  <1> QED BY <1>1, <1>3, SessionsWhole DEF IsItems

LEMMA NewGroupWhole ==
    ASSUME NEW id, id # NoGroup, NEW name, NEW color
    PROVE  Whole(<<GroupItem(id, name, color), GroupEndItem(id)>>)
  <1> DEFINE x == GroupItem(id, name, color)
             y == GroupEndItem(id)
             a == <<x, y>>
  <1>1. IsItem(x) /\ IsItem(y) /\ IsGroup(x) /\ IsGroupEnd(y) /\ x.id = y.id
    BY NewItems
  <1> HIDE DEF x, y
  <1>2. IsList(a) /\ Len(a) = 2 /\ a[1] = x /\ a[2] = y
    BY TwoItems
  <1>3. DOMAIN a = 1 .. 2
    BY <1>2, ListLength
  <1> HIDE DEF a
  <1>4. \A i \in DOMAIN a : i = 1 \/ i = 2
    BY <1>3
  <1>5. IsItems(a)
    BY <1>1, <1>2, <1>4 DEF IsItems
  <1>6. Encloses(a, 1, 2)
    BY <1>1, <1>2 DEF Encloses
  <1>7. 1 \in DOMAIN a /\ 2 \in DOMAIN a /\ ~IsGroupEnd(x) /\ ~IsGroup(y)
    BY <1>1, <1>3, Kinds
  <1>8. Flat(a)
    BY <1>2, <1>4, <1>6, <1>7 DEF Flat
  <1> QED BY <1>5, <1>8 DEF Whole, a, x, y

LEMMA Appended ==
    ASSUME NEW a, IsList(a), NEW x
    PROVE  Append(a, x) = a \o <<x>>
  <1>1. PICK S : a \in Seq(S)
    BY DEF IsList
  <1>2. a \in Seq(S \cup {x})
    BY <1>1, SeqMonotonic
  <1> QED BY <1>2, AppendIsConcat

LEMMA AppendedItem ==
    ASSUME NEW a, IsItems(a), NEW x, IsItem(x)
    PROVE  /\ IsItems(Append(a, x)) /\ Len(Append(a, x)) = Len(a) + 1
           /\ Append(a, x)[Len(a) + 1] = x
           /\ \A i \in DOMAIN a : Append(a, x)[i] = a[i]
  <1> DEFINE b == Append(a, x)
  <1>1. IsList(a) /\ Len(a) \in Nat /\ DOMAIN a = 1 .. Len(a)
    BY ListLength DEF IsItems
  <1>2. b = a \o <<x>>
    BY <1>1, Appended
  <1>3. IsList(<<x>>) /\ Len(<<x>>) = 1 /\ <<x>>[1] = x
    BY OneItem
  <1>4. /\ IsList(a \o <<x>>) /\ Len(a \o <<x>>) = Len(a) + Len(<<x>>)
        /\ \A i \in 1 .. Len(a) : (a \o <<x>>)[i] = a[i]
        /\ \A i \in 1 .. Len(<<x>>) : (a \o <<x>>)[Len(a) + i] = <<x>>[i]
    BY <1>1, <1>3, Joined
  <1> HIDE DEF b
  <1>5. 1 \in 1 .. Len(<<x>>)
    BY <1>3
  <1>6. IsList(b) /\ Len(b) = Len(a) + 1 /\ b[Len(a) + 1] = x /\ \A i \in DOMAIN a : b[i] = a[i]
    BY <1>1, <1>2, <1>3, <1>4, <1>5
  <1>7. DOMAIN b = 1 .. Len(a) + 1
    BY <1>6, ListLength
  <1>8. \A i \in DOMAIN b : i = Len(a) + 1 \/ i \in DOMAIN a
    BY <1>1, <1>7
  <1>9. IsItems(b)
    BY <1>6, <1>8 DEF IsItems
  <1> QED BY <1>6, <1>9 DEF b

-----------------------------------------------------------------------------
(* Reading: the list so far is flat once its open group is closed.         *)
ParseOK(st) == /\ DOMAIN st = {"items", "title", "open"}
               /\ IsItems(st.items) /\ Whole(CloseGroup(st).items)

LEMMA ClosedGroup ==
    ASSUME NEW st, DOMAIN st = {"items", "title", "open"}
    PROVE  /\ DOMAIN CloseGroup(st) = {"items", "title", "open"}
           /\ CloseGroup(st).open = NoGroup /\ CloseGroup(st).title = st.title
           /\ CloseGroup(st).items = IF st.open = NoGroup THEN st.items
                                     ELSE Append(st.items, GroupEndItem(st.open))
  BY DEF CloseGroup

LEMMA ParseStartOK ==
    ParseOK(ParseStart)
  <1>1. DOMAIN ParseStart = {"items", "title", "open"} /\ ParseStart.items = <<>> /\ ParseStart.open = NoGroup
    BY DEF ParseStart
  <1>2. CloseGroup(ParseStart).items = <<>>
    BY <1>1, ClosedGroup
  <1> QED BY <1>1, <1>2, EmptyWhole DEF ParseOK, Whole

LEMMA ParseHeaderOK ==
    ASSUME NEW st, ParseOK(st), NEW l, l.id # NoGroup
    PROVE  ParseOK(ParseHeader(st, l))
  <1> DEFINE c == CloseGroup(st).items
             x == GroupItem(l.id, GroupName(l.words), l.color)
             y == GroupEndItem(l.id)
             new == ParseHeader(st, l)
  <1>1. Whole(c) /\ IsItems(c) /\ IsList(c)
    BY DEF ParseOK, Whole, IsItems
  <1>2. IsItem(x) /\ IsItem(y)
    BY NewItems
  <1>3. IsItems(Append(c, x))
    BY <1>1, <1>2, AppendedItem
  <1>4. Whole(<<x, y>>)
    BY NewGroupWhole
  <1>5. Whole(c \o <<x, y>>)
    BY <1>1, <1>4, JoinedWhole
  <1>6. /\ DOMAIN new = {"items", "title", "open"}
        /\ new.items = Append(c, x) /\ new.open = l.id
    BY DEF ParseHeader
  <1> HIDE DEF c, x, y, new
  <1>7. Append(Append(c, x), y) = c \o <<x, y>>
    <2>1. IsList(Append(c, x)) /\ Append(c, x) = c \o <<x>> /\ Append(Append(c, x), y) = Append(c, x) \o <<y>>
      BY <1>1, <1>3, Appended DEF IsItems
    <2>2. PICK S : c \in Seq(S)
      BY <1>1 DEF IsList
    <2>3. c \in Seq(S \cup {x, y}) /\ <<x>> \in Seq(S \cup {x, y}) /\ <<y>> \in Seq(S \cup {x, y})
      BY <2>2, SeqMonotonic
    <2>4. (c \o <<x>>) \o <<y>> = c \o (<<x>> \o <<y>>)
      BY <2>3, ConcatAssociative
    <2>5. <<x>> \o <<y>> = <<x, y>>
      <3>1. Append(<<x>>, y) = <<x>> \o <<y>>
        BY OneItem, Appended
      <3> DEFINE u == Append(<<x>>, y)
                 v == <<x, y>>
      <3>2. <<x>> \in Seq({x, y}) /\ v \in Seq({x, y}) /\ Len(<<x>>) = 1 /\ <<x>>[1] = x
        OBVIOUS
      <3>3. u \in Seq({x, y}) /\ Len(u) = 2 /\ u[1] = x /\ u[2] = y
        BY <3>2, AppendProperties
      <3>4. Len(v) = 2 /\ v[1] = x /\ v[2] = y
        OBVIOUS
      <3> HIDE DEF u, v
      <3>5. \A i \in 1 .. Len(u) : u[i] = v[i]
        BY <3>3, <3>4
      <3>6. u = v
        BY <3>2, <3>3, <3>4, <3>5, SeqEqual
      <3>7. Append(<<x>>, y) = <<x, y>>
        BY <3>6 DEF u, v
      <3> QED BY <3>1, <3>7
    <2> QED BY <2>1, <2>4, <2>5
  <1>8. CloseGroup(new).items = c \o <<x, y>>
    BY <1>6, <1>7, ClosedGroup DEF y
  <1> QED BY <1>3, <1>5, <1>6, <1>8 DEF ParseOK, new

LEMMA ParseEndOK ==
    ASSUME NEW st, ParseOK(st)
    PROVE  ParseOK(ParseEnd(st))
  <1> DEFINE new == ParseEnd(st)
  <1>1. /\ DOMAIN CloseGroup(st) = {"items", "title", "open"} /\ CloseGroup(st).open = NoGroup
        /\ Whole(CloseGroup(st).items)
    BY ClosedGroup DEF ParseOK
  <1>2. DOMAIN new = {"items", "title", "open"} /\ new.open = NoGroup /\ new.items = CloseGroup(st).items
    BY <1>1 DEF ParseEnd
  <1> HIDE DEF new
  <1>3. CloseGroup(new).items = new.items
    BY <1>2, ClosedGroup
  <1> QED BY <1>1, <1>2, <1>3 DEF ParseOK, Whole, new

LEMMA ParseLabelOK ==
    ASSUME NEW st, ParseOK(st), NEW words
    PROVE  ParseOK(ParseLabel(st, words))
  <1> DEFINE new == ParseLabel(st, words)
  <1>1. DOMAIN new = {"items", "title", "open"} /\ new.open = st.open /\ new.items = st.items
    BY DEF ParseLabel, ParseOK
  <1> HIDE DEF new
  <1>2. CloseGroup(new).items = CloseGroup(st).items
    BY <1>1, ClosedGroup DEF ParseOK
  <1> QED BY <1>1, <1>2 DEF ParseOK, new

LEMMA ParseCommandOK ==
    ASSUME NEW st, ParseOK(st), NEW command
    PROVE  ParseOK(ParseCommand(st, command))
  <1> DEFINE new == ParseCommand(st, command)
             name == IF st.title = NoName THEN ShortSessionId(command.command_id) ELSE st.title
             x == SessionItem(command.provider, command.command_id, name)
             y == GroupEndItem(st.open)
             n == Len(st.items)
  <1>1. IsItem(x) /\ IsSession(x) /\ IsItem(y)
    BY NewItems
  <1>2. DOMAIN new = {"items", "title", "open"} /\ new.open = st.open /\ new.items = Append(st.items, x)
    BY DEF ParseCommand, ParseOK
  <1> HIDE DEF new, x, y
  <1>3. IsItems(st.items) /\ IsList(st.items) /\ n \in Nat /\ DOMAIN st.items = 1 .. n
    BY ListLength DEF ParseOK, IsItems
  <1>4. /\ IsItems(new.items) /\ Len(new.items) = n + 1 /\ new.items[n + 1] = x
        /\ \A i \in 1 .. n : new.items[i] = st.items[i]
    BY <1>1, <1>2, <1>3, AppendedItem
  <1>5. CASE st.open = NoGroup
    <2>1. CloseGroup(st).items = st.items /\ CloseGroup(new).items = new.items
      BY <1>2, <1>5, ClosedGroup DEF ParseOK
    <2>2. Whole(st.items) /\ Whole(<<x>>)
      BY <1>1, <2>1, SessionWhole DEF ParseOK
    <2>3. Whole(st.items \o <<x>>)
      BY <2>2, JoinedWhole
    <2>4. new.items = st.items \o <<x>>
      BY <1>2, <1>3, Appended
    <2> QED BY <1>2, <1>4, <2>1, <2>3, <2>4 DEF ParseOK, new
  <1>6. CASE st.open # NoGroup
    <2> DEFINE a == Append(st.items, y)
               b == Append(new.items, y)
               q(i) == IF i <= n THEN i ELSE n + 2
               p == [i \in DOMAIN a |-> q(i)]
    <2>1. CloseGroup(st).items = a /\ CloseGroup(new).items = b
      BY <1>2, <1>6, ClosedGroup DEF ParseOK, y
    <2>2. IsItems(a) /\ Len(a) = n + 1 /\ a[n + 1] = y /\ \A i \in 1 .. n : a[i] = st.items[i]
      BY <1>1, <1>3, AppendedItem
    <2>3. DOMAIN a = 1 .. n + 1 /\ DOMAIN new.items = 1 .. n + 1
      BY <1>4, <2>2, ListLength DEF IsItems
    <2>4. IsItems(b) /\ Len(b) = n + 1 + 1 /\ b[n + 1 + 1] = y /\ \A i \in 1 .. n + 1 : b[i] = new.items[i]
      BY <1>1, <1>4, <2>3, AppendedItem
    <2>5. DOMAIN b = 1 .. n + 2
      BY <1>3, <2>4, ListLength DEF IsItems
    <2> HIDE DEF a, b
    <2>6. n + 1 + 1 = n + 2 /\ n + 1 \in 1 .. n + 1 /\ b[n + 1] = x
      BY <1>3, <1>4, <2>4
    <2>7. \A i \in DOMAIN a : i \in 1 .. n \/ i = n + 1
      BY <1>3, <2>3
    <2>8. ASSUME NEW i \in DOMAIN a PROVE q(i) \in DOMAIN b /\ b[q(i)] = a[i]
      <3>1. CASE i \in 1 .. n
        BY <1>3, <1>4, <2>2, <2>4, <2>5, <3>1
      <3>2. CASE i = n + 1
        BY <1>3, <2>2, <2>4, <2>5, <2>6, <3>2
      <3> QED BY <2>7, <3>1, <3>2
    <2>9. \A i, j \in DOMAIN a : i < j => q(i) < q(j)
      BY <1>3, <2>3
    <2>10. ASSUME NEW j \in DOMAIN b PROVE IsSession(b[j]) \/ \E i \in DOMAIN a : j = q(i)
      <3>1. CASE j \in 1 .. n
        BY <1>3, <2>3, <3>1
      <3>2. CASE j = n + 1
        BY <1>1, <2>6, <3>2
      <3>3. CASE j = n + 2
        <4>1. n + 1 \in DOMAIN a /\ q(n + 1) = n + 2
          BY <1>3, <2>3
        <4> QED BY <3>3, <4>1
      <3> QED BY <1>3, <2>5, <3>1, <3>2, <3>3
    <2>11. p \in [DOMAIN a -> DOMAIN b] /\ \A i \in DOMAIN a : p[i] = q(i)
      BY <2>8
    <2> HIDE DEF p, q
    <2>12. Embeds(p, a, b)
      BY <2>8, <2>9, <2>10, <2>11 DEF Embeds
    <2>13. Whole(a)
      BY <2>1 DEF ParseOK
    <2>14. Whole(b)
      BY <2>2, <2>4, <2>12, <2>13, EmbeddedWhole
    <2> QED BY <1>2, <1>4, <2>1, <2>14 DEF ParseOK, new
  <1> QED BY <1>5, <1>6

LEMMA ParseLineOK ==
    ASSUME NEW st, ParseOK(st), NEW l, IsHeader(l) => l.id # NoGroup
    PROVE  ParseOK(ParseLine(st, l))
  BY ParseHeaderOK, ParseEndOK, ParseLabelOK, ParseCommandOK DEF ParseLine

(* Whatever a file holds, its list is flat.                                *)
LEMMA ParsedWhole ==
    ASSUME NEW f, Titled(f)
    PROVE  Whole(ParseMarkdownItems(f))
  <1>1. IsList(f) /\ Len(f) \in Nat /\ DOMAIN f = 1 .. Len(f)
    BY ListLength DEF Titled
  <1>2. PICK run : /\ run[0] = ParseStart /\ FoldLeft(ParseLine, ParseStart, f) = run[Len(f)]
                   /\ \A k \in 1 .. Len(f) : run[k] = ParseLine(run[k - 1], f[k])
    BY <1>1, ParsedInTurn
  <1> DEFINE Bad == {k \in 0 .. Len(f) : ~ParseOK(run[k])}
  <1>3. Bad = {}
    <2> SUFFICES ASSUME Bad # {} PROVE FALSE
      OBVIOUS
    <2>1. Bad \in SUBSET Nat
      BY <1>1
    <2>2. PICK k \in Bad : \A t \in Bad : k <= t
      BY <2>1, LeastOf
    <2>3. k \in 0 .. Len(f) /\ ~ParseOK(run[k])
      OBVIOUS
    <2>4. k # 0
      BY <1>2, <2>3, ParseStartOK
    <2>5. k - 1 \in 0 .. Len(f) /\ ~(k <= k - 1) /\ k \in 1 .. Len(f)
      BY <1>1, <2>3, <2>4
    <2>6. ParseOK(run[k - 1])
      BY <2>2, <2>5
    <2>7. IsHeader(f[k]) => f[k].id # NoGroup
      BY <1>1, <2>5 DEF Titled
    <2>8. ParseOK(ParseLine(run[k - 1], f[k]))
      BY <2>6, <2>7, ParseLineOK
    <2> QED BY <1>2, <2>3, <2>5, <2>8
  <1>4. ParseOK(run[Len(f)])
    BY <1>1, <1>3
  <1> QED BY <1>2, <1>4 DEF ParseMarkdownItems, ParseOK

-----------------------------------------------------------------------------
(* Writing: a header has the id of its group.                              *)
LEMMA JoinedTitled ==
    ASSUME NEW a, NEW b, Titled(a), Titled(b)
    PROVE  Titled(a \o b)
  <1> DEFINE c == a \o b
  <1>1. /\ IsList(a) /\ Len(a) \in Nat /\ DOMAIN a = 1 .. Len(a)
        /\ IsList(b) /\ Len(b) \in Nat /\ DOMAIN b = 1 .. Len(b)
    BY ListLength DEF Titled
  <1>2. /\ IsList(c) /\ Len(c) = Len(a) + Len(b)
        /\ \A i \in 1 .. Len(a) : c[i] = a[i]
        /\ \A i \in 1 .. Len(b) : c[Len(a) + i] = b[i]
    BY <1>1, Joined
  <1>3. DOMAIN c = 1 .. Len(a) + Len(b)
    BY <1>2, ListLength
  <1> HIDE DEF c
  <1>4. ASSUME NEW i \in DOMAIN c, IsHeader(c[i]) PROVE c[i].id # NoGroup
    <2>1. CASE i \in 1 .. Len(a)
      BY <1>1, <1>2, <1>4, <2>1 DEF Titled
    <2>2. CASE i \notin 1 .. Len(a)
      <3>1. i - Len(a) \in 1 .. Len(b) /\ Len(a) + (i - Len(a)) = i
        BY <1>1, <1>3, <2>2
      <3>2. c[i] = b[i - Len(a)]
        BY <1>2, <3>1
      <3> QED BY <1>1, <1>4, <3>1, <3>2 DEF Titled
    <2> QED BY <2>1, <2>2
  <1> QED BY <1>2, <1>4 DEF Titled, c

LEMMA RenderedItemTitled ==
    ASSUME NEW x, x.kind = "group" => x.id # NoGroup
    PROVE  Titled(RenderItem(x))
  <1>1. ASSUME NEW l, IsHeader(l) => l.id # NoGroup PROVE Titled(<<l>>)
    <2>1. IsList(<<l>>) /\ Len(<<l>>) = 1 /\ <<l>>[1] = l
      BY OneItem
    <2>2. DOMAIN <<l>> = {1}
      BY <2>1, ListLength
    <2> QED BY <1>1, <2>1, <2>2 DEF Titled
  <1>2. ASSUME NEW l, NEW m, ~IsHeader(l), ~IsHeader(m) PROVE Titled(<<l, m>>)
    <2>1. IsList(<<l, m>>) /\ Len(<<l, m>>) = 2 /\ <<l, m>>[1] = l /\ <<l, m>>[2] = m
      BY TwoItems
    <2>2. DOMAIN <<l, m>> = 1 .. 2
      BY <2>1, ListLength
    <2>3. \A i \in DOMAIN <<l, m>> : i = 1 \/ i = 2
      BY <2>2
    <2> QED BY <1>2, <2>1, <2>3 DEF Titled
  <1>3. CASE x.kind = "group"
    <2> DEFINE l == HeaderLine(x.id, GroupName(x.name), x.color)
    <2>1. RenderItem(x) = <<l>>
      BY <1>3 DEF RenderItem
    <2>2. l.id = x.id
      BY DEF HeaderLine
    <2> HIDE DEF l
    <2> QED BY <1>1, <1>3, <2>1, <2>2
  <1>4. CASE x.kind = "group_end"
    <2>1. RenderItem(x) = <<EndLine>> /\ ~IsHeader(EndLine)
      BY <1>4 DEF RenderItem, EndLine, IsHeader
    <2> QED BY <1>1, <2>1
  <1>5. CASE x.kind \notin {"group", "group_end"}
    <2> DEFINE title == IF x.name = NoName THEN ShortSessionId(x.command_id) ELSE x.name
               l == TextLine(<<Word("#")>> \o title)
               m == TextLine(ResumeCommand(x.provider, x.command_id))
    <2>1. RenderItem(x) = <<l, m>>
      BY <1>5 DEF RenderItem
    <2>2. ~IsHeader(l) /\ ~IsHeader(m)
      BY DEF IsHeader, TextLine
    <2> HIDE DEF l, m
    <2> QED BY <1>2, <2>1, <2>2
  <1> QED BY <1>3, <1>4, <1>5

LEMMA RenderedTitled ==
    ASSUME NEW list, IsList(list), \A i \in DOMAIN list : list[i].kind = "group" => list[i].id # NoGroup
    PROVE  Titled(RenderMarkdownItems(list))
  <1>1. Len(list) \in Nat /\ DOMAIN list = 1 .. Len(list)
    BY ListLength
  <1>2. PICK run : /\ run[0] = <<>> /\ RenderMarkdownItems(list) = run[Len(list)]
                   /\ \A k \in 1 .. Len(list) : run[k] = run[k - 1] \o RenderItem(list[k])
    BY RenderedInTurn
  <1>3. Titled(<<>>)
    BY NoItems DEF Titled
  <1> DEFINE Bad == {k \in 0 .. Len(list) : ~Titled(run[k])}
  <1>4. Bad = {}
    <2> SUFFICES ASSUME Bad # {} PROVE FALSE
      OBVIOUS
    <2>1. Bad \in SUBSET Nat
      BY <1>1
    <2>2. PICK k \in Bad : \A t \in Bad : k <= t
      BY <2>1, LeastOf
    <2>3. k \in 0 .. Len(list) /\ ~Titled(run[k])
      OBVIOUS
    <2>4. k # 0
      BY <1>2, <1>3, <2>3
    <2>5. k - 1 \in 0 .. Len(list) /\ ~(k <= k - 1) /\ k \in 1 .. Len(list)
      BY <1>1, <2>3, <2>4
    <2>6. Titled(run[k - 1])
      BY <2>2, <2>5
    <2>7. Titled(RenderItem(list[k]))
      BY <1>1, <2>5, RenderedItemTitled
    <2>8. Titled(run[k - 1] \o RenderItem(list[k]))
      BY <2>6, <2>7, JoinedTitled
    <2> QED BY <1>2, <2>3, <2>5, <2>8
  <1>5. Titled(run[Len(list)])
    BY <1>1, <1>4
  <1> QED BY <1>2, <1>5

LEMMA SavedTitled ==
    ASSUME NEW list, IsItems(list)
    PROVE  Titled(RenderMarkdownItems(DeserializeItems(list)))
  <1> DEFINE d == DeserializeItems(list)
             S == {DeserializeItem(list[i]) : i \in DOMAIN list}
  <1>1. Len(list) \in Nat /\ DOMAIN list = 1 .. Len(list)
    BY ListLength DEF IsItems
  <1>2. DOMAIN d = 1 .. Len(list) /\ \A i \in DOMAIN list : d[i] = DeserializeItem(list[i])
    BY <1>1 DEF DeserializeItems
  <1>3. d \in Seq(S)
    <2>1. d = [i \in 1 .. Len(list) |-> DeserializeItem(list[i])]
      BY <1>1 DEF DeserializeItems
    <2>2. \A i \in 1 .. Len(list) : DeserializeItem(list[i]) \in S
      BY <1>1
    <2> HIDE DEF S, d
    <2> QED BY <1>1, <2>1, <2>2, IsASeq
  <1>4. ASSUME NEW x, IsItem(x), DeserializeItem(x).kind = "group" PROVE DeserializeItem(x).id # NoGroup
    BY <1>4 DEF IsItem, IsGroup, DeserializeItem, GroupItem, GroupEndItem, SessionItem
  <1> HIDE DEF d
  <1>5. \A i \in DOMAIN d : d[i].kind = "group" => d[i].id # NoGroup
    BY <1>1, <1>2, <1>4 DEF IsItems
  <1>6. IsList(d)
    BY <1>3 DEF IsList
  <1>7. Titled(RenderMarkdownItems(d))
    BY <1>5, <1>6, RenderedTitled
  <1> QED BY <1>7 DEF d

LEMMA FirstLinesTitled ==
    ASSUME NEW f, Titled(f), NEW n \in 0 .. Len(f)
    PROVE  Titled(SubSeq(f, 1, n))
  <1> DEFINE c == SubSeq(f, 1, n)
  <1>1. IsList(f) /\ Len(f) \in Nat /\ DOMAIN f = 1 .. Len(f)
    BY ListLength DEF Titled
  <1>2. 1 \in 1 .. Len(f) + 1 /\ n \in 1 - 1 .. Len(f)
    BY <1>1
  <1>3. /\ IsList(c) /\ Len(c) = n - 1 + 1 /\ \A i \in 1 .. n - 1 + 1 : c[i] = f[1 + i - 1]
    BY <1>1, <1>2, PieceOf
  <1>4. DOMAIN c = 1 .. n
    BY <1>1, <1>3, ListLength
  <1> HIDE DEF c
  <1>5. \A i \in DOMAIN c : i \in DOMAIN f /\ c[i] = f[i]
    BY <1>1, <1>3, <1>4
  <1> QED BY <1>3, <1>5 DEF Titled, c

LEMMA CutTitled ==
    ASSUME NEW f, Titled(f), NEW g \in CutFiles(f)
    PROVE  Titled(g)
  <1>1. CASE g \in {SubSeq(f, 1, n) : n \in 0 .. Len(f)}
    BY <1>1, FirstLinesTitled
  <1>2. CASE g \notin {SubSeq(f, 1, n) : n \in 0 .. Len(f)}
    <2>1. g \in UNION {{Append(SubSeq(f, 1, n), part) : part \in Parts(f[n + 1])} : n \in 0 .. Len(f) - 1}
      BY <1>2 DEF CutFiles
    <2>2. PICK n \in 0 .. Len(f) - 1 : g \in {Append(SubSeq(f, 1, n), part) : part \in Parts(f[n + 1])}
      BY <2>1
    <2>3. PICK part \in Parts(f[n + 1]) : g = Append(SubSeq(f, 1, n), part)
      BY <2>2
    <2>4. PICK words : part = TextLine(words)
      BY <2>3 DEF Parts
    <2>5. ~IsHeader(part)
      BY <2>4 DEF IsHeader, TextLine
    <2>6. Len(f) \in Nat
      BY ListLength DEF Titled
    <2>7. Titled(SubSeq(f, 1, n))
      BY <2>6, FirstLinesTitled
    <2>8. g = SubSeq(f, 1, n) \o <<part>>
      BY <2>3, <2>7, Appended DEF Titled
    <2>9. Titled(<<part>>)
      <3>1. IsList(<<part>>) /\ Len(<<part>>) = 1 /\ <<part>>[1] = part
        BY OneItem
      <3>2. DOMAIN <<part>> = {1}
        BY <3>1, ListLength
      <3> QED BY <2>5, <3>1, <3>2 DEF Titled
    <2> QED BY <2>7, <2>8, <2>9, JoinedTitled
  <1> QED BY <1>1, <1>2

-----------------------------------------------------------------------------
(* The edits.                                                              *)
(* A list without one of its groups, and the group by itself.              *)
LEMMA GroupTaken ==
    ASSUME NEW a, Whole(a), NEW g, GroupEnd(a, g) # 0
    PROVE  /\ Whole(SubSeq(a, 1, g - 1)) /\ Whole(SubSeq(a, g, GroupEnd(a, g)))
           /\ Whole(SubSeq(a, GroupEnd(a, g) + 1, Len(a)))
           /\ Whole(SubSeq(a, g + 1, GroupEnd(a, g) - 1))
  <1> DEFINE e == GroupEnd(a, g)
  <1>1. g \in DOMAIN a /\ e \in DOMAIN a /\ Encloses(a, g, e)
    BY GroupEndFound
  <1>2. IsItems(a) /\ IsList(a) /\ Len(a) \in Nat /\ DOMAIN a = 1 .. Len(a)
    BY ListLength DEF Whole, IsItems
  <1>3. g < e
    BY <1>1 DEF Encloses
  <1> HIDE DEF e
  <1>4. Between(a, g - 1) /\ Between(a, e) /\ Between(a, 0) /\ Between(a, Len(a))
    BY <1>1, <1>2, EndsOfGroup, EndsOfList
  <1>5. Whole(SubSeq(a, 1, g - 1))
    <2>1. 1 \in 1 .. Len(a) + 1 /\ g - 1 \in 1 - 1 .. Len(a) /\ Between(a, 1 - 1)
      BY <1>1, <1>2, <1>4
    <2> QED BY <1>4, <2>1, PieceWhole
  <1>6. Whole(SubSeq(a, g, e))
    <2>1. g \in 1 .. Len(a) + 1 /\ e \in g - 1 .. Len(a)
      BY <1>1, <1>2, <1>3
    <2> QED BY <1>4, <2>1, PieceWhole
  <1>7. Whole(SubSeq(a, e + 1, Len(a)))
    <2> DEFINE m == e + 1
    <2>1. m \in 1 .. Len(a) + 1 /\ Len(a) \in m - 1 .. Len(a) /\ m - 1 = e
      BY <1>1, <1>2
    <2> HIDE DEF m
    <2>2. Between(a, m - 1) /\ Between(a, Len(a))
      BY <1>4, <2>1
    <2>3. Whole(SubSeq(a, m, Len(a)))
      BY <2>1, <2>2, PieceWhole
    <2> QED BY <2>3 DEF m
  <1>8. Whole(SubSeq(a, g + 1, e - 1))
    <2> DEFINE m == g + 1
               n == e - 1
               c == SubSeq(a, m, n)
    <2>1. m \in 1 .. Len(a) + 1 /\ n \in m - 1 .. Len(a) /\ m \in Int /\ n \in Int
      BY <1>1, <1>2, <1>3
    <2> HIDE DEF m, n
    <2>2. IsList(c) /\ Len(c) = n - m + 1 /\ \A i \in 1 .. n - m + 1 : c[i] = a[m + i - 1]
      BY <1>2, <2>1, PieceOf
    <2>3. DOMAIN c = 1 .. n - m + 1
      BY <2>2, ListLength
    <2> HIDE DEF c
    <2>4. \A i \in DOMAIN c : g + i \in DOMAIN a /\ g + i \in g + 1 .. e - 1 /\ c[i] = a[g + i]
      <3>1. g \in Int /\ e \in Int
        BY <1>1, <1>2
      <3>2. \A i \in DOMAIN c : g + i \in g + 1 .. e - 1 /\ m + i - 1 = g + i
        BY <2>3, <3>1 DEF m, n
      <3> QED BY <1>1, <1>2, <2>2, <2>3, <3>2
    <2>5. \A i \in DOMAIN c : IsSession(c[i]) /\ IsItem(c[i])
      BY <1>1, <1>2, <2>4 DEF Encloses, IsItems
    <2>6. Whole(c)
      BY <2>2, <2>5, SessionsWhole DEF IsItems
    <2> QED BY <2>6 DEF c, m, n
  <1> QED BY <1>5, <1>6, <1>7, <1>8 DEF e

LEMMA AddGroupWhole ==
    ASSUME Whole(items), NEW name, NEW color, AddGroup(name, color)
    PROVE  Whole(items')
  <1> DEFINE id == MakeUniqueGroupId(GroupName(name))
  <1>1. id # NoGroup
    BY DEF MakeUniqueGroupId, NoGroup
  <1>2. items' = items \o <<GroupItem(id, GroupName(name), color), GroupEndItem(id)>>
    BY DEF AddGroup, ApplyItems
  <1> HIDE DEF id
  <1>3. Whole(<<GroupItem(id, GroupName(name), color), GroupEndItem(id)>>)
    BY <1>1, NewGroupWhole
  <1> QED BY <1>2, <1>3, JoinedWhole

LEMMA AddSessionWhole ==
    ASSUME Whole(items), NEW s, NEW name, AddSession(s, name)
    PROVE  Whole(items')
  <1> DEFINE groups == {i \in 1 .. Len(items) : IsGroup(items[i])}
             first == SelectInSeq(items, IsGroup)
             at == IF first = 0 THEN Len(items) + 1 ELSE first
             x == SessionItem(s.provider, s.id, name)
  <1>1. Len(items) \in Nat
    BY ListLength DEF Whole, IsItems
  <1>2. first = IF groups # {} THEN Min(groups) ELSE 0
    BY DEF SelectInSeq
  <1>3. groups # {} => Min(groups) \in groups
    <2>1. groups \in SUBSET Nat
      BY <1>1
    <2> QED BY <2>1, LeastOf
  <1>4. at \in 1 .. Len(items) + 1
    BY <1>1, <1>2, <1>3
  <1>5. items' = InsertAt(items, at, x)
    BY DEF AddSession, ApplyItems
  <1>6. IsItem(x) /\ IsSession(x)
    BY NewItems
  <1> HIDE DEF at, x
  <1> QED BY <1>4, <1>5, <1>6, PutWhole

(* A name or a color changes no marker.                                    *)
LEMMA RenamedWhole ==
    ASSUME Whole(items), NEW i \in DOMAIN items, NEW x, IsItem(x),
           x.kind = items[i].kind, x.id = items[i].id, items' = [items EXCEPT ![i] = x]
    PROVE  Whole(items')
  <1>1. IsItems(items) /\ IsList(items) /\ Len(items) \in Nat /\ DOMAIN items = 1 .. Len(items)
    BY ListLength DEF Whole, IsItems
  <1>2. PICK S : items \in Seq(S)
    BY <1>1 DEF IsList
  <1>3. items \in Seq(S \cup {x})
    BY <1>2, SeqMonotonic
  <1>4. /\ items' \in Seq(S \cup {x}) /\ Len(items') = Len(items)
        /\ \A j \in 1 .. Len(items) : items'[j] = IF j = i THEN x ELSE items[j]
    BY <1>1, <1>3, ExceptSeq
  <1>5. IsList(items') /\ DOMAIN items' = DOMAIN items
    BY <1>1, <1>4, ListLength DEF IsList
  <1>6. IsItems(items')
    BY <1>1, <1>4, <1>5 DEF IsItems
  <1>7. \A j \in DOMAIN items : items'[j].kind = items[j].kind /\ items'[j].id = items[j].id
    BY <1>1, <1>4
  <1> QED BY <1>4, <1>6, <1>7, SameMarkers

LEMMA RenameItemWhole ==
    ASSUME Whole(items), NEW name, RenameItem(name)
    PROVE  Whole(items')
  <1> DEFINE i == dialog.index
             next == IF IsGroup(items[i]) THEN GroupName(name) ELSE name
             x == [items[i] EXCEPT !.name = next]
  <1>1. i \in DOMAIN items /\ items' = [items EXCEPT ![i].name = next]
    BY DEF RenameItem, ApplyItems
  <1>2. items' = [items EXCEPT ![i] = x]
    BY <1>1
  <1>3. IsItem(items[i])
    BY <1>1 DEF Whole, IsItems
  <1>4. IsItem(x) /\ x.kind = items[i].kind /\ x.id = items[i].id
    BY <1>3 DEF IsItem, IsGroup
  <1> HIDE DEF x, i
  <1> QED BY <1>1, <1>2, <1>4, RenamedWhole

LEMMA UpdateGroupWhole ==
    ASSUME Whole(items), NEW name, NEW color, UpdateGroup(name, color)
    PROVE  Whole(items')
  <1> DEFINE i == dialog.index
             x == [items[i] EXCEPT !.name = GroupName(name), !.color = color]
  <1>1. i \in DOMAIN items /\ items' = [items EXCEPT ![i].name = GroupName(name), ![i].color = color]
    BY DEF UpdateGroup, ApplyItems
  <1>2. items' = [items EXCEPT ![i] = x]
    BY <1>1
  <1>3. IsItem(items[i])
    BY <1>1 DEF Whole, IsItems
  <1>4. IsItem(x) /\ x.kind = items[i].kind /\ x.id = items[i].id
    BY <1>3 DEF IsItem, IsGroup
  <1> HIDE DEF x, i
  <1> QED BY <1>1, <1>2, <1>4, RenamedWhole

LEMMA DeleteGroupWhole ==
    ASSUME Whole(items), NEW d \in BOOLEAN, DeleteGroup(d)
    PROVE  Whole(items')
  <1> DEFINE g == dialog.index
             end == GroupEnd(items, g)
             members == IF d THEN <<>> ELSE SubSeq(items, g + 1, end - 1)
  <1>1. /\ end # 0
        /\ items' = SubSeq(items, 1, g - 1) \o members \o SubSeq(items, end + 1, Len(items))
    BY DEF DeleteGroup, ApplyItems
  <1>2. /\ Whole(SubSeq(items, 1, g - 1)) /\ Whole(SubSeq(items, end + 1, Len(items)))
        /\ Whole(SubSeq(items, g + 1, end - 1))
    BY <1>1, GroupTaken
  <1>3. Whole(members)
    BY <1>2, EmptyWhole
  <1> HIDE DEF members, end, g
  <1>4. Whole(SubSeq(items, 1, g - 1) \o members)
    BY <1>2, <1>3, JoinedWhole
  <1> QED BY <1>1, <1>2, <1>4, JoinedWhole

LEMMA DeleteSessionWhole ==
    ASSUME Whole(items), NEW i \in DOMAIN items, DeleteSession(i)
    PROVE  Whole(items')
  BY TakenWhole DEF DeleteSession, ApplyItems

LEMMA MoveSessionWhole ==
    ASSUME Whole(items), NEW i \in DOMAIN items, IsSession(items[i]), NEW before \in Int
    PROVE  Whole(MoveSession(i, before))
  <1> DEFINE rest == RemoveAt(items, i)
             n == IF before > i THEN before - 1 ELSE before
             target == Clamped(n, rest)
  <1>1. Whole(rest)
    BY TakenWhole
  <1>2. n \in Int
    OBVIOUS
  <1>3. IsItem(items[i])
    BY DEF Whole, IsItems
  <1>4. MoveSession(i, before) = InsertAt(rest, target, items[i])
    BY DEF MoveSession
  <1> HIDE DEF rest, n
  <1>5. target \in 1 .. Len(rest) + 1
    BY <1>1, <1>2, ClampedPlace DEF Whole, IsItems
  <1> HIDE DEF target
  <1> QED BY <1>1, <1>3, <1>4, <1>5, PutWhole

LEMMA MoveGroupWhole ==
    ASSUME Whole(items), NEW g \in DOMAIN items, NEW before \in Int
    PROVE  Whole(MoveGroupBlock(g, before))
  <1> DEFINE end == GroupEnd(items, g)
             rest == SubSeq(items, 1, g - 1) \o SubSeq(items, end + 1, Len(items))
             dropped == IF before > g THEN before - (end - g) ELSE before
             clamped == Clamped(dropped, rest)
             target == SnapGroupInsertIndex(rest, clamped)
             front == SubSeq(rest, 1, target - 1)
             back == SubSeq(rest, target, Len(rest))
  <1>1. CASE end = 0 \/ (before > g /\ before <= end + 1)
    <2>1. MoveGroupBlock(g, before) = items
      BY <1>1 DEF MoveGroupBlock
    <2> QED BY <2>1
  <1>2. CASE ~(end = 0 \/ (before > g /\ before <= end + 1))
    <2>1. MoveGroupBlock(g, before) = front \o SubSeq(items, g, end) \o back
      BY <1>2 DEF MoveGroupBlock
    <2>2. Len(items) \in Nat /\ DOMAIN items = 1 .. Len(items)
      BY ListLength DEF Whole, IsItems
    <2>3. end \in DOMAIN items
      BY <1>2, GroupEndFound
    <2>4. dropped \in Int
      BY <2>2, <2>3
    <2>5. Whole(SubSeq(items, 1, g - 1)) /\ Whole(SubSeq(items, end + 1, Len(items))) /\ Whole(SubSeq(items, g, end))
      BY <1>2, GroupTaken
    <2> HIDE DEF end
    <2>6. Whole(rest)
      BY <2>5, JoinedWhole
    <2> HIDE DEF rest, dropped
    <2>7. IsList(rest) /\ Len(rest) \in Nat
      BY <2>6, ListLength DEF Whole, IsItems
    <2>8. clamped \in 1 .. Len(rest) + 1
      BY <2>4, <2>7, ClampedPlace
    <2> HIDE DEF clamped
    <2>9. target \in 1 .. Len(rest) + 1 /\ Between(rest, target - 1)
      BY <2>6, <2>8, Snapped
    <2> HIDE DEF target
    <2>10. Between(rest, 0) /\ Between(rest, Len(rest))
      BY <2>7, EndsOfList
    <2>11. Whole(front)
      <3>1. 1 \in 1 .. Len(rest) + 1 /\ target - 1 \in 1 - 1 .. Len(rest) /\ 1 - 1 = 0
        BY <2>7, <2>9
      <3>2. Between(rest, 1 - 1)
        BY <2>10, <3>1
      <3> QED BY <2>6, <2>9, <3>1, <3>2, PieceWhole
    <2>12. Whole(back)
      <3>1. Len(rest) \in target - 1 .. Len(rest)
        BY <2>7, <2>9
      <3> QED BY <2>6, <2>9, <2>10, <3>1, PieceWhole
    <2> HIDE DEF front, back
    <2>13. Whole(front \o SubSeq(items, g, end))
      BY <2>5, <2>11, JoinedWhole
    <2> QED BY <2>1, <2>12, <2>13, JoinedWhole
  <1> QED BY <1>1, <1>2

LEMMA ReorderWhole ==
    ASSUME Whole(items), NEW i \in DOMAIN items, NEW before \in Int, Reorder(i, before)
    PROVE  Whole(items')
  <1>1. IsItem(items[i])
    BY DEF Whole, IsItems
  <1>2. ~IsGroupEnd(items[i])
    BY DEF Reorder
  <1>3. CASE IsGroup(items[i])
    <2>1. items' = MoveGroupBlock(i, before)
      BY <1>3 DEF Reorder, ApplyItems
    <2> QED BY <2>1, MoveGroupWhole
  <1>4. CASE ~IsGroup(items[i])
    <2>1. items' = MoveSession(i, before)
      BY <1>4 DEF Reorder, ApplyItems
    <2>2. IsSession(items[i])
      BY <1>1, <1>2, <1>4, Kinds
    <2> QED BY <2>1, <2>2, MoveSessionWhole
  <1> QED BY <1>3, <1>4

-----------------------------------------------------------------------------
LEMMA ListInvInit ==
    ASSUME Init
    PROVE  ListInv
  <1>1. PICK s \in Scenarios : file \in s.files
    BY DEF Init
  <1>2. file \in Seq(Range(file)) /\ \A i \in DOMAIN file : IsHeader(file[i]) => file[i].id # NoGroup
    BY <1>1, SessionListAssumption
  <1>3. Titled(file)
    BY <1>2 DEF Titled, IsList
  <1>4. Whole(ParseMarkdownItems(file))
    BY <1>3, ParsedWhole
  <1> QED BY <1>3, <1>4 DEF Init, ListInv

LEMMA ListInvNext ==
    ASSUME ListInv, [Next]_vars
    PROVE  ListInv'
  <1> USE DEF ListInv
  <1>1. ASSUME Whole(items'), UNCHANGED file PROVE ListInv'
    <2>1. Titled(file)'
      BY <1>1 DEF Titled, IsList, IsHeader
    <2>2. Whole(items)'
      BY <1>1
    <2> QED BY <2>1, <2>2
  <1>2. ASSUME Titled(file'), UNCHANGED items PROVE ListInv'
    BY <1>2
  <1>3. ASSUME NEW n \in Names, NEW c \in Colors, AddGroup(n, c) PROVE ListInv'
    BY <1>1, <1>3, AddGroupWhole DEF AddGroup, ApplyItems
  <1>4. ASSUME NEW s \in Sessions, NEW n \in Names, AddSession(s, n) PROVE ListInv'
    BY <1>1, <1>4, AddSessionWhole DEF AddSession, ApplyItems
  <1>5. ASSUME NEW a \in {"rename session", "edit group", "delete group"}, NEW i \in DOMAIN items,
               OpenDialog(a, i)
        PROVE ListInv'
    BY <1>5 DEF OpenDialog
  <1>6. CASE CancelDialog
    BY <1>6 DEF CancelDialog
  <1>7. ASSUME NEW n \in Names, RenameItem(n) PROVE ListInv'
    BY <1>1, <1>7, RenameItemWhole DEF RenameItem, ApplyItems
  <1>8. ASSUME NEW n \in Names, NEW c \in Colors, UpdateGroup(n, c) PROVE ListInv'
    BY <1>1, <1>8, UpdateGroupWhole DEF UpdateGroup, ApplyItems
  <1>9. ASSUME NEW d \in BOOLEAN, DeleteGroup(d) PROVE ListInv'
    BY <1>1, <1>9, DeleteGroupWhole DEF DeleteGroup, ApplyItems
  <1>10. ASSUME NEW i \in DOMAIN items, DeleteSession(i) PROVE ListInv'
    BY <1>1, <1>10, DeleteSessionWhole DEF DeleteSession, ApplyItems
  <1>11. ASSUME NEW i \in DOMAIN items, NEW before \in 1 .. Len(items) + 1, Reorder(i, before) PROVE ListInv'
    <2>1. before \in Int
      BY ListLength DEF Whole, IsItems
    <2> QED BY <1>1, <1>11, <2>1, ReorderWhole DEF Reorder, ApplyItems
  <1>12. CASE SaveConfigFile
    <2>1. Titled(file')
      BY <1>12, SavedTitled DEF SaveConfigFile, Whole
    <2> QED BY <1>2, <1>12, <2>1 DEF SaveConfigFile
  <1>13. CASE SaveIsCut
    <2>1. Titled(RenderMarkdownItems(DeserializeItems(items)))
      BY SavedTitled DEF Whole
    <2>2. Titled(file')
      BY <1>13, <2>1, CutTitled DEF SaveIsCut
    <2> QED BY <1>2, <1>13, <2>2 DEF SaveIsCut
  <1>14. CASE LoadConfigFile
    <2>1. Whole(items')
      BY <1>14, ParsedWhole DEF LoadConfigFile
    <2> QED BY <1>1, <1>14, <2>1 DEF LoadConfigFile
  <1>15. CASE UNCHANGED vars
    BY <1>15 DEF vars
  <1> QED BY <1>3, <1>4, <1>5, <1>6, <1>7, <1>8, <1>9, <1>10, <1>11, <1>12, <1>13, <1>14, <1>15 DEF Next

(* At every moment the list on show is one the parser could have made: its *)
(* groups follow one another, each closed before the next one opens, and   *)
(* every header in it has an id.                                           *)
THEOREM ListInvHolds == Spec => []ListInv
  BY ListInvInit, ListInvNext, PTL DEF Spec

(* Groups never overlap and none is left open, for any file and any edits. *)
THEOREM GroupsStayFlat == Spec => []GroupsAreFlat
  <1>1. ListInv => GroupsAreFlat
    BY DEF ListInv, Whole, GroupsAreFlat
  <1> QED BY <1>1, ListInvHolds, PTL

-----------------------------------------------------------------------------
(* Which group a session is in.                                            *)
(* The last marker before i, if there is one, is at k.                     *)
LastMarker(list, i, k) == /\ k \in 1 .. i - 1 /\ ~IsSession(list[k])
                          /\ \A j \in k + 1 .. i - 1 : IsSession(list[j])
NoMarker(list, i) == \A j \in 1 .. i - 1 : IsSession(list[j])

LEMMA MarkerOrNone ==
    ASSUME NEW list, NEW i \in Nat
    PROVE  NoMarker(list, i) \/ \E k \in Nat : LastMarker(list, i, k)
  <1> DEFINE marks == {k \in 1 .. i - 1 : ~IsSession(list[k])}
  <1>1. ASSUME marks # {} PROVE LastMarker(list, i, Max(marks)) /\ Max(marks) \in Nat
    <2>1. i - 1 \in Nat
      BY <1>1
    <2>2. Max(marks) \in marks /\ \A t \in marks : t <= Max(marks)
      BY <1>1, <2>1, GreatestOf
    <2> DEFINE k == Max(marks)
    <2> HIDE DEF k
    <2>3. k \in 1 .. i - 1 /\ ~IsSession(list[k]) /\ \A t \in marks : t <= k
      BY <2>2 DEF k
    <2>4. \A j \in k + 1 .. i - 1 : IsSession(list[j])
      BY <2>3
    <2> QED BY <2>3, <2>4 DEF LastMarker, k
  <1>2. ASSUME marks = {} PROVE NoMarker(list, i)
    BY <1>2 DEF NoMarker
  <1> QED BY <1>1, <1>2

LEMMA GroupOfIs ==
    ASSUME NEW list, NEW i \in Nat
    PROVE  /\ NoMarker(list, i) => GroupOf(list, i) = 0
           /\ \A k \in Nat : LastMarker(list, i, k) =>
                GroupOf(list, i) = IF IsGroup(list[k]) THEN k ELSE 0
  <1> DEFINE marks == {k \in 1 .. i - 1 : ~IsSession(list[k])}
             last == IF marks # {} THEN Max(marks) ELSE 0
  <1>1. GroupOf(list, i) = IF last # 0 /\ IsGroup(list[last]) THEN last ELSE 0
    BY DEF GroupOf, SelectLastInSubSeq
  <1>2. ASSUME NoMarker(list, i) PROVE GroupOf(list, i) = 0
    BY <1>1, <1>2 DEF NoMarker
  <1>3. ASSUME NEW k \in Nat, LastMarker(list, i, k) PROVE GroupOf(list, i) = IF IsGroup(list[k]) THEN k ELSE 0
    <2>1. k \in marks /\ i - 1 \in Nat /\ k # 0
      BY <1>3 DEF LastMarker
    <2>2. Max(marks) \in marks /\ k <= Max(marks)
      BY <2>1, GreatestOf
    <2> DEFINE m == Max(marks)
    <2> HIDE DEF m
    <2>3. m \in 1 .. i - 1 /\ ~IsSession(list[m]) /\ k <= m
      BY <2>2 DEF m
    <2>4. m \notin k + 1 .. i - 1
      BY <1>3, <2>3 DEF LastMarker
    <2>5. m = k
      BY <2>3, <2>4
    <2>6. last = k
      BY <2>1, <2>5 DEF m
    <2> HIDE DEF last
    <2> QED BY <1>1, <2>1, <2>6
  <1> QED BY <1>2, <1>3

(* An item with the id of the group it is in.                              *)
Pair(list, i) == <<list[i], IF GroupOf(list, i) = 0 THEN <<>> ELSE list[GroupOf(list, i)].id>>
Placed(list, x) == {i \in DOMAIN list : IsSession(list[i]) /\ Pair(list, i) = x}
Count(list, x) == Cardinality(Placed(list, x))

LEMMA MembersCounted ==
    ASSUME NEW a, NEW b, \A x : Count(a, x) = Count(b, x), IsList(a), IsList(b)
    PROVE  Members(a) = Members(b)
  <1>1. ASSUME NEW list, IsList(list)
        PROVE  Members(list) = [x \in {y \in {Pair(list, i) : i \in DOMAIN list} : Count(list, y) # 0} |-> Count(list, x)]
    <2> DEFINE at == {i \in DOMAIN list : IsSession(list[i])}
               pair == [i \in at |-> Pair(list, i)]
               ids == {pair[i] : i \in at}
    <2>1. Members(list) = [x \in ids |-> Cardinality({i \in at : pair[i] = x})]
      BY DEF Members, Pair
    <2>2. \A x : {i \in at : pair[i] = x} = Placed(list, x)
      BY DEF Placed
    <2>3. ids = {y \in {Pair(list, i) : i \in DOMAIN list} : Count(list, y) # 0}
      <3>1. ASSUME NEW x PROVE Count(list, x) # 0 <=> Placed(list, x) # {}
        <4>1. IsFiniteSet(DOMAIN list)
          BY <1>1, ListLength, FS_Interval
        <4>2. IsFiniteSet(Placed(list, x))
          BY <4>1, FS_Subset DEF Placed
        <4> QED BY <4>2, FS_EmptySet DEF Count
      <3>2. \A y : y \in ids <=> Placed(list, y) # {}
        BY DEF Placed
      <3>3. \A y : Placed(list, y) # {} => y \in {Pair(list, i) : i \in DOMAIN list}
        BY DEF Placed
      <3> HIDE DEF ids
      <3> QED BY <3>1, <3>2, <3>3
    <2> QED BY <2>1, <2>2, <2>3 DEF Count
  <1>2. \A y : Count(a, y) # 0 => y \in {Pair(a, i) : i \in DOMAIN a}
    <2>1. ASSUME NEW y, Placed(a, y) = {} PROVE Count(a, y) = 0
      BY <2>1, FS_EmptySet DEF Count
    <2> QED BY <2>1 DEF Placed
  <1>3. \A y : Count(b, y) # 0 => y \in {Pair(b, i) : i \in DOMAIN b}
    <2>1. ASSUME NEW y, Placed(b, y) = {} PROVE Count(b, y) = 0
      BY <2>1, FS_EmptySet DEF Count
    <2> QED BY <2>1 DEF Placed
  <1> DEFINE X == {y \in {Pair(a, i) : i \in DOMAIN a} : Count(a, y) # 0}
             Y == {y \in {Pair(b, i) : i \in DOMAIN b} : Count(b, y) # 0}
  <1>4. X = Y
    BY <1>2, <1>3
  <1>5. Members(a) = [x \in X |-> Count(a, x)] /\ Members(b) = [x \in Y |-> Count(b, x)]
    BY <1>1
  <1> HIDE DEF X, Y
  <1> QED BY <1>4, <1>5

(* No session of the second list is in a group of the first one.           *)
LEMMA PairsJoined ==
    ASSUME NEW a, NEW b, Whole(a), IsItems(b)
    PROVE  /\ \A i \in DOMAIN a : Pair(a \o b, i) = Pair(a, i)
           /\ \A i \in DOMAIN b : Pair(a \o b, Len(a) + i) = Pair(b, i)
  <1> DEFINE c == a \o b
             n == Len(a)
  <1>1. /\ IsItems(a) /\ IsList(a) /\ IsList(b) /\ n \in Nat /\ Len(b) \in Nat
        /\ DOMAIN a = 1 .. n /\ DOMAIN b = 1 .. Len(b)
    BY ListLength DEF Whole, IsItems
  <1>2. /\ \A i \in 1 .. n : c[i] = a[i]
        /\ \A i \in 1 .. Len(b) : c[n + i] = b[i]
    BY <1>1, Joined
  <1> HIDE DEF c, n
  <1>3. ASSUME NEW i \in DOMAIN a PROVE Pair(c, i) = Pair(a, i)
    <2>1. i \in Nat /\ \A j \in 1 .. i - 1 : j \in DOMAIN a /\ c[j] = a[j]
      BY <1>1, <1>2
    <2>2. CASE NoMarker(a, i)
      <3>1. NoMarker(c, i)
        BY <2>1, <2>2 DEF NoMarker
      <3> QED BY <1>1, <1>2, <2>1, <2>2, <3>1, GroupOfIs DEF Pair
    <2>3. ASSUME NEW k \in Nat, LastMarker(a, i, k) PROVE Pair(c, i) = Pair(a, i)
      <3>1. k \in 1 .. i - 1 /\ \A j \in k + 1 .. i - 1 : j \in 1 .. i - 1
        BY <2>1, <2>3 DEF LastMarker
      <3>2. LastMarker(c, i, k) /\ c[k] = a[k]
        BY <2>1, <2>3, <3>1 DEF LastMarker
      <3>3. GroupOf(c, i) = GroupOf(a, i) /\ GroupOf(a, i) \in {0, k}
        BY <2>1, <2>3, <3>2, GroupOfIs
      <3> QED BY <1>1, <1>2, <3>2, <3>3 DEF Pair
    <2> QED BY <2>1, <2>2, <2>3, MarkerOrNone
  <1>4. ASSUME NEW i \in DOMAIN b PROVE Pair(c, n + i) = Pair(b, i)
    <2>1. i \in Nat /\ n + i \in Nat
      BY <1>1
    <2>2. \A j \in 1 .. (n + i) - 1 : j \notin 1 .. n => j - n \in 1 .. i - 1 /\ j - n \in DOMAIN b /\ c[j] = b[j - n]
      <3>1. \A j \in 1 .. (n + i) - 1 : j \notin 1 .. n => j - n \in 1 .. i - 1 /\ j - n \in 1 .. Len(b) /\ n + (j - n) = j
        BY <1>1
      <3> QED BY <1>1, <1>2, <3>1
    <2>3. c[n + i] = b[i]
      BY <1>1, <1>2
    <2>4. CASE NoMarker(b, i)
      <3>1. ASSUME NEW j \in n + 1 .. (n + i) - 1 PROVE IsSession(c[j])
        <4>1. j \in 1 .. (n + i) - 1 /\ j \notin 1 .. n
          BY <1>1
        <4> QED BY <2>2, <2>4, <4>1 DEF NoMarker
      <3>2. GroupOf(b, i) = 0
        BY <2>1, <2>4, GroupOfIs
      <3>3. CASE NoMarker(c, n + i)
        <4>1. GroupOf(c, n + i) = 0
          BY <2>1, <3>3, GroupOfIs
        <4> QED BY <2>3, <3>2, <4>1 DEF Pair
      <3>4. ASSUME NEW k \in Nat, LastMarker(c, n + i, k) PROVE GroupOf(c, n + i) = 0
        <4>1. k \in 1 .. (n + i) - 1 /\ ~IsSession(c[k]) /\ \A j \in k + 1 .. (n + i) - 1 : IsSession(c[j])
          BY <3>4 DEF LastMarker
        <4>2. k \in DOMAIN a
          BY <1>1, <3>1, <4>1
        <4>3. ASSUME IsGroup(c[k]) PROVE FALSE
          <5>1. IsGroup(a[k])
            BY <1>1, <1>2, <4>2, <4>3
          <5>2. PICK e \in DOMAIN a : Encloses(a, k, e)
            BY <4>2, <5>1 DEF Whole, Flat
          <5>3. k < e /\ IsGroupEnd(a[e])
            BY <5>2 DEF Encloses
          <5>4. e \in k + 1 .. (n + i) - 1
            BY <1>1, <4>2, <5>3
          <5>5. c[e] = a[e]
            BY <1>1, <1>2
          <5> QED BY <1>1, <4>1, <5>3, <5>4, <5>5, Kinds DEF IsItems
        <4> QED BY <2>1, <3>4, <4>3, GroupOfIs
      <3>5. GroupOf(c, n + i) = 0
        BY <2>1, <3>3, <3>4, MarkerOrNone, GroupOfIs
      <3> QED BY <2>3, <3>2, <3>5 DEF Pair
    <2>5. ASSUME NEW k \in Nat, LastMarker(b, i, k) PROVE Pair(c, n + i) = Pair(b, i)
      <3>1. k \in 1 .. i - 1 /\ ~IsSession(b[k]) /\ \A j \in k + 1 .. i - 1 : IsSession(b[j])
        BY <2>5 DEF LastMarker
      <3>2. n + k \in 1 .. (n + i) - 1 /\ n + k \in Nat /\ k \in DOMAIN b /\ k # 0 /\ n + k # 0
        BY <1>1, <2>1, <3>1
      <3>3. c[n + k] = b[k]
        BY <1>1, <1>2, <3>2
      <3>4. ASSUME NEW j \in (n + k) + 1 .. (n + i) - 1 PROVE IsSession(c[j])
        <4>1. j \in 1 .. (n + i) - 1 /\ j \notin 1 .. n /\ j - n \in k + 1 .. i - 1
          BY <1>1, <2>1
        <4> QED BY <2>2, <3>1, <4>1
      <3>5. LastMarker(c, n + i, n + k)
        BY <3>1, <3>2, <3>3, <3>4 DEF LastMarker
      <3>6. /\ GroupOf(c, n + i) = IF IsGroup(b[k]) THEN n + k ELSE 0
            /\ GroupOf(b, i) = IF IsGroup(b[k]) THEN k ELSE 0
        BY <2>1, <2>5, <3>2, <3>3, <3>5, GroupOfIs
      <3> QED BY <2>3, <3>2, <3>3, <3>6 DEF Pair
    <2> QED BY <2>1, <2>4, <2>5, MarkerOrNone
  <1> QED BY <1>3, <1>4 DEF c, n

LEMMA CountsJoined ==
    ASSUME NEW a, NEW b, Whole(a), IsItems(b), NEW x
    PROVE  Count(a \o b, x) = Count(a, x) + Count(b, x)
  <1> DEFINE c == a \o b
             n == Len(a)
             A == Placed(a, x)
             B == Placed(b, x)
             shifted == {n + i : i \in B}
  <1>1. /\ IsList(a) /\ IsList(b) /\ n \in Nat /\ Len(b) \in Nat
        /\ DOMAIN a = 1 .. n /\ DOMAIN b = 1 .. Len(b)
    BY ListLength DEF Whole, IsItems
  <1>2. /\ IsList(c) /\ Len(c) = n + Len(b)
        /\ \A i \in 1 .. n : c[i] = a[i]
        /\ \A i \in 1 .. Len(b) : c[n + i] = b[i]
    BY <1>1, Joined
  <1>3. DOMAIN c = 1 .. n + Len(b)
    BY <1>2, ListLength
  <1>4. /\ \A i \in DOMAIN a : Pair(c, i) = Pair(a, i)
        /\ \A i \in DOMAIN b : Pair(c, n + i) = Pair(b, i)
    BY PairsJoined
  <1> HIDE DEF c, n
  <1>5. A \subseteq 1 .. n /\ B \subseteq 1 .. Len(b)
    BY <1>1 DEF Placed
  <1>6. Placed(c, x) = A \cup shifted
    <2>1. ASSUME NEW i \in 1 .. n PROVE i \in Placed(c, x) <=> i \in A \cup shifted
      <3>1. i \in DOMAIN c /\ i \in DOMAIN a /\ c[i] = a[i] /\ Pair(c, i) = Pair(a, i)
        BY <1>1, <1>2, <1>3, <1>4
      <3>2. i \notin shifted
        BY <1>1, <1>5
      <3> QED BY <3>1, <3>2 DEF Placed
    <2>2. ASSUME NEW i \in DOMAIN c, i \notin 1 .. n PROVE i \in Placed(c, x) <=> i \in A \cup shifted
      <3>1. i - n \in DOMAIN b /\ n + (i - n) = i
        BY <1>1, <1>3, <2>2
      <3>2. c[i] = b[i - n] /\ Pair(c, i) = Pair(b, i - n)
        BY <1>1, <1>2, <1>4, <3>1
      <3>3. i \notin A
        BY <1>5, <2>2
      <3>4. \A j \in B : i = n + j => j = i - n
        BY <1>1, <1>5
      <3>5. i \in shifted <=> i - n \in B
        BY <3>1, <3>4
      <3> QED BY <3>1, <3>2, <3>3, <3>5 DEF Placed
    <2>3. A \cup shifted \subseteq DOMAIN c
      BY <1>1, <1>3, <1>5
    <2>4. Placed(c, x) \subseteq DOMAIN c
      BY DEF Placed
    <2> HIDE DEF A, shifted
    <2> QED BY <1>1, <1>3, <2>1, <2>2, <2>3, <2>4
  <1>7. IsFiniteSet(A) /\ IsFiniteSet(B)
    <2>1. IsFiniteSet(1 .. n) /\ IsFiniteSet(1 .. Len(b))
      BY <1>1, FS_Interval
    <2> HIDE DEF A, B
    <2> QED BY <1>5, <2>1, FS_Subset
  <1>8. ExistsBijection(B, shifted)
    <2> DEFINE p == [i \in B |-> n + i]
    <2>1. p \in [B -> shifted]
      OBVIOUS
    <2>2. \A i, j \in B : p[i] = p[j] => i = j
      BY <1>1, <1>5
    <2>3. \A t \in shifted : \E i \in B : p[i] = t
      OBVIOUS
    <2> HIDE DEF p, shifted
    <2>4. p \in Bijection(B, shifted)
      BY <2>1, <2>2, <2>3 DEF Bijection, Injection, Surjection, IsInjective
    <2> QED BY <2>4 DEF ExistsBijection
  <1>9. IsFiniteSet(shifted) /\ Cardinality(shifted) = Cardinality(B)
    BY <1>7, <1>8, FS_Bijection
  <1>10. A \cap shifted = {}
    BY <1>1, <1>5
  <1> HIDE DEF A, B, shifted
  <1>11. Cardinality(A \cup shifted) = Cardinality(A) + Cardinality(shifted) - Cardinality(A \cap shifted)
    BY <1>7, <1>9, FS_Union
  <1>12. Cardinality(A) \in Nat /\ Cardinality(shifted) \in Nat /\ Cardinality(A \cap shifted) = 0
    BY <1>7, <1>9, <1>10, FS_CardinalityType, FS_EmptySet
  <1>13. Cardinality(Placed(c, x)) = Cardinality(A) + Cardinality(B)
    BY <1>6, <1>9, <1>11, <1>12
  <1> QED BY <1>13 DEF Count, A, B, c

LEMMA CountTypes ==
    ASSUME NEW a, IsList(a), NEW x
    PROVE  Count(a, x) \in Nat
  <1>1. IsFiniteSet(DOMAIN a)
    BY ListLength, FS_Interval
  <1>2. IsFiniteSet(Placed(a, x))
    BY <1>1, FS_Subset DEF Placed
  <1> QED BY <1>2, FS_CardinalityType DEF Count

LEMMA ListsEqual ==
    ASSUME NEW a, NEW b, IsList(a), IsList(b), Len(a) = Len(b), \A i \in 1 .. Len(a) : a[i] = b[i]
    PROVE  a = b
  <1>1. PICK S : a \in Seq(S)
    BY DEF IsList
  <1>2. PICK T : b \in Seq(T)
    BY DEF IsList
  <1>3. a \in Seq(S \cup T) /\ b \in Seq(S \cup T)
    BY <1>1, <1>2, SeqMonotonic
  <1> QED BY <1>3, SeqEqual

(* Two pieces that meet make the piece from the first to the last.         *)
LEMMA PiecesMeet ==
    ASSUME NEW a, IsList(a), NEW m \in 1 .. Len(a) + 1, NEW k \in m .. Len(a) + 1, NEW n \in k - 1 .. Len(a)
    PROVE  SubSeq(a, m, k - 1) \o SubSeq(a, k, n) = SubSeq(a, m, n)
  <1>1. PICK S : a \in Seq(S)
    BY DEF IsList
  <1>2. Len(a) \in Nat
    BY ListLength
  <1> DEFINE j == k - 1
  <1>3. j \in m - 1 .. Len(a) /\ n \in j .. Len(a) /\ j + 1 = k
    BY <1>2
  <1> HIDE DEF j
  <1>4. SubSeq(a, m, j) \o SubSeq(a, j + 1, n) = SubSeq(a, m, n)
    BY <1>1, <1>3, ConcatAdjacentSubSeq
  <1> QED BY <1>3, <1>4 DEF j

LEMMA WholePiece ==
    ASSUME NEW a, IsList(a)
    PROVE  SubSeq(a, 1, Len(a)) = a
  BY SubSeqFull DEF IsList

(* A group that is moved takes its sessions along.                         *)
LEMMA MoveGroupCounts ==
    ASSUME Whole(items), NEW g \in DOMAIN items, NEW before \in Int, NEW x
    PROVE  Count(MoveGroupBlock(g, before), x) = Count(items, x)
  <1> DEFINE end == GroupEnd(items, g)
             pre == SubSeq(items, 1, g - 1)
             block == SubSeq(items, g, end)
             post == SubSeq(items, end + 1, Len(items))
             rest == pre \o post
             dropped == IF before > g THEN before - (end - g) ELSE before
             clamped == Clamped(dropped, rest)
             target == SnapGroupInsertIndex(rest, clamped)
             front == SubSeq(rest, 1, target - 1)
             back == SubSeq(rest, target, Len(rest))
  <1>1. CASE end = 0 \/ (before > g /\ before <= end + 1)
    <2>1. MoveGroupBlock(g, before) = items
      BY <1>1 DEF MoveGroupBlock
    <2> QED BY <2>1
  <1>2. CASE ~(end = 0 \/ (before > g /\ before <= end + 1))
    <2>1. MoveGroupBlock(g, before) = front \o block \o back
      BY <1>2 DEF MoveGroupBlock
    <2>2. Len(items) \in Nat /\ DOMAIN items = 1 .. Len(items) /\ IsList(items)
      BY ListLength DEF Whole, IsItems
    <2>3. end \in DOMAIN items /\ g < end
      BY <1>2, GroupEndFound DEF Encloses
    <2>4. dropped \in Int
      BY <2>2, <2>3
    <2>5. Whole(pre) /\ Whole(post) /\ Whole(block)
      BY <1>2, GroupTaken
    <2> HIDE DEF end
    <2>6. items = (pre \o block) \o post
      <3>1. pre \o block = SubSeq(items, 1, end)
        <4>1. 1 \in 1 .. Len(items) + 1 /\ g \in 1 .. Len(items) + 1 /\ end \in g - 1 .. Len(items)
          BY <2>2, <2>3
        <4> QED BY <2>2, <4>1, PiecesMeet
      <3> DEFINE k == end + 1
      <3>2. 1 \in 1 .. Len(items) + 1 /\ k \in 1 .. Len(items) + 1 /\ Len(items) \in k - 1 .. Len(items) /\ k - 1 = end
        BY <2>2, <2>3
      <3> HIDE DEF k
      <3>3. SubSeq(items, 1, k - 1) \o SubSeq(items, k, Len(items)) = SubSeq(items, 1, Len(items))
        BY <2>2, <3>2, PiecesMeet
      <3>4. SubSeq(items, 1, end) \o post = SubSeq(items, 1, Len(items))
        BY <3>2, <3>3 DEF k
      <3> QED BY <2>2, <3>1, <3>4, WholePiece
    <2> HIDE DEF pre, block, post
    <2>7. Whole(pre \o block) /\ Whole(rest)
      BY <2>5, JoinedWhole
    <2>8. Count(items, x) = Count(pre, x) + Count(block, x) + Count(post, x)
      <3>1. Count((pre \o block) \o post, x) = Count(pre \o block, x) + Count(post, x)
        BY <2>5, <2>7, CountsJoined DEF Whole
      <3>2. Count(pre \o block, x) = Count(pre, x) + Count(block, x)
        BY <2>5, CountsJoined DEF Whole
      <3> QED BY <2>6, <3>1, <3>2
    <2>9. Count(rest, x) = Count(pre, x) + Count(post, x)
      BY <2>5, CountsJoined DEF Whole
    <2> HIDE DEF rest, dropped
    <2>10. IsList(rest) /\ Len(rest) \in Nat
      BY <2>7, ListLength DEF Whole, IsItems
    <2>11. clamped \in 1 .. Len(rest) + 1
      BY <2>4, <2>10, ClampedPlace
    <2> HIDE DEF clamped
    <2>12. target \in 1 .. Len(rest) + 1 /\ Between(rest, target - 1)
      BY <2>7, <2>11, Snapped
    <2> HIDE DEF target
    <2>13. Whole(front) /\ Whole(back)
      <3>1. Between(rest, 0) /\ Between(rest, Len(rest)) /\ 1 - 1 = 0
        BY <2>10, EndsOfList
      <3>2. 1 \in 1 .. Len(rest) + 1 /\ target - 1 \in 1 - 1 .. Len(rest) /\ Len(rest) \in target - 1 .. Len(rest)
        BY <2>10, <2>12
      <3>3. Between(rest, 1 - 1)
        BY <3>1
      <3>4. Whole(front)
        BY <2>7, <2>12, <3>2, <3>3, PieceWhole
      <3>5. Whole(back)
        BY <2>7, <2>12, <3>1, <3>2, PieceWhole
      <3> QED BY <3>4, <3>5
    <2>14. front \o back = rest
      <3>1. 1 \in 1 .. Len(rest) + 1 /\ target \in 1 .. Len(rest) + 1 /\ Len(rest) \in target - 1 .. Len(rest)
        BY <2>10, <2>12
      <3>2. front \o back = SubSeq(rest, 1, Len(rest))
        BY <2>10, <3>1, PiecesMeet
      <3> QED BY <2>10, <3>2, WholePiece
    <2> HIDE DEF front, back
    <2>15. Count(rest, x) = Count(front, x) + Count(back, x)
      BY <2>13, <2>14, CountsJoined DEF Whole
    <2>16. Count((front \o block) \o back, x) = Count(front, x) + Count(block, x) + Count(back, x)
      <3>1. Whole(front \o block)
        BY <2>5, <2>13, JoinedWhole
      <3>2. Count((front \o block) \o back, x) = Count(front \o block, x) + Count(back, x)
        BY <2>13, <3>1, CountsJoined DEF Whole
      <3>3. Count(front \o block, x) = Count(front, x) + Count(block, x)
        BY <2>5, <2>13, CountsJoined DEF Whole
      <3> QED BY <3>2, <3>3
    <2>17. /\ Count(pre, x) \in Nat /\ Count(block, x) \in Nat /\ Count(post, x) \in Nat
           /\ Count(front, x) \in Nat /\ Count(back, x) \in Nat
      BY <2>5, <2>13, CountTypes DEF Whole, IsItems
    <2>18. Count((front \o block) \o back, x) = Count(items, x)
      BY <2>8, <2>9, <2>15, <2>16, <2>17
    <2>19. MoveGroupBlock(g, before) = (front \o block) \o back
      BY <2>1
    <2> QED BY <2>18, <2>19
  <1> QED BY <1>1, <1>2

(* A session that is moved changes nothing else.                           *)
LEMMA MoveSessionRest ==
    ASSUME Whole(items), NEW i \in DOMAIN items, IsSession(items[i]), NEW before \in Int
    PROVE  \E j \in DOMAIN MoveSession(i, before) :
             /\ MoveSession(i, before)[j] = items[i]
             /\ RemoveAt(MoveSession(i, before), j) = RemoveAt(items, i)
  <1> DEFINE rest == RemoveAt(items, i)
             n == IF before > i THEN before - 1 ELSE before
             t == Clamped(n, rest)
             new == InsertAt(rest, t, items[i])
  <1>1. IsList(items)
    BY DEF Whole, IsItems
  <1>2. IsList(rest)
    BY <1>1, TakenAt
  <1>3. n \in Int
    BY <1>1, ListLength
  <1>4. MoveSession(i, before) = new
    BY DEF MoveSession
  <1> HIDE DEF rest, n
  <1>5. t \in 1 .. Len(rest) + 1 /\ Len(rest) \in Nat
    BY <1>2, <1>3, ClampedPlace, ListLength
  <1> HIDE DEF t
  <1>6. /\ IsList(new) /\ Len(new) = Len(rest) + 1 /\ new[t] = items[i]
        /\ \A k \in 1 .. Len(rest) : new[IF k < t THEN k ELSE k + 1] = rest[k]
    BY <1>2, <1>5, PutAt
  <1> HIDE DEF new
  <1>7. t \in DOMAIN new
    BY <1>5, <1>6, ListLength
  <1>8. /\ IsList(RemoveAt(new, t)) /\ Len(RemoveAt(new, t)) = Len(new) - 1
        /\ \A k \in 1 .. Len(new) - 1 : RemoveAt(new, t)[k] = new[IF k < t THEN k ELSE k + 1]
    BY <1>6, <1>7, TakenAt
  <1>9. Len(RemoveAt(new, t)) = Len(rest) /\ \A k \in 1 .. Len(rest) : RemoveAt(new, t)[k] = rest[k]
    BY <1>5, <1>6, <1>8
  <1>10. RemoveAt(new, t) = rest
    BY <1>2, <1>8, <1>9, ListsEqual
  <1> QED BY <1>4, <1>6, <1>7, <1>10 DEF rest

(* A drag of a group takes its own sessions along and no other, and a drag *)
(* of a session changes the group of no other, in any list.                *)
THEOREM DragsKeepTheMembers == Spec => DragsKeepMembers
  <1>1. ASSUME ListInv, NEW i \in DOMAIN items, NEW before \in 1 .. Len(items) + 1, Reorder(i, before)
        PROVE  IF IsGroup(items[i]) THEN Members(items') = Members(items)
               ELSE \E j \in DOMAIN items : /\ items'[j] = items[i]
                                            /\ Members(RemoveAt(items', j)) = Members(RemoveAt(items, i))
    <2>1. Whole(items) /\ IsItems(items) /\ IsList(items) /\ Len(items) \in Nat /\ DOMAIN items = 1 .. Len(items)
      BY <1>1, ListLength DEF ListInv, Whole, IsItems
    <2>2. before \in Int
      BY <2>1
    <2>3. CASE IsGroup(items[i])
      <3>1. items' = MoveGroupBlock(i, before)
        BY <1>1, <2>3 DEF Reorder, ApplyItems
      <3>2. \A x : Count(items', x) = Count(items, x)
        BY <2>1, <2>2, <3>1, MoveGroupCounts
      <3>3. IsList(items')
        BY <2>1, <2>2, <3>1, MoveGroupWhole DEF Whole, IsItems
      <3>4. Members(items') = Members(items)
        BY <2>1, <3>2, <3>3, MembersCounted
      <3> QED BY <2>3, <3>4
    <2>4. CASE ~IsGroup(items[i])
      <3>1. items' = MoveSession(i, before)
        BY <1>1, <2>4 DEF Reorder, ApplyItems
      <3>2. IsSession(items[i])
        BY <1>1, <2>1, <2>4, Kinds DEF Reorder, IsItems
      <3>3. PICK j \in DOMAIN items' : items'[j] = items[i] /\ RemoveAt(items', j) = RemoveAt(items, i)
        BY <2>1, <2>2, <3>1, <3>2, MoveSessionRest
      <3>4. IsList(items')
        BY <2>1, <2>2, <3>1, <3>2, MoveSessionWhole DEF Whole, IsItems
      <3>5. Len(RemoveAt(items', j)) = Len(items') - 1 /\ Len(RemoveAt(items, i)) = Len(items) - 1
        BY <2>1, <3>3, <3>4, TakenAt
      <3>6. DOMAIN items' = 1 .. Len(items') /\ Len(items') \in Nat
        BY <3>4, ListLength
      <3>7. Len(items') = Len(items)
        <4>1. Len(items') - 1 = Len(items) - 1
          BY <3>3, <3>5
        <4>2. Len(items) \in Nat /\ Len(items') \in Nat
          BY <2>1, <3>6
        <4>3. \A m, n \in Nat : m - 1 = n - 1 => m = n
          OBVIOUS
        <4> QED BY <4>1, <4>2, <4>3
      <3>8. j \in DOMAIN items
        BY <2>1, <3>6, <3>7
      <3> QED BY <2>4, <3>3, <3>8
    <2> QED BY <2>3, <2>4
  <1>2. ListInv /\ [Next]_vars =>
          [\A i \in DOMAIN items, before \in 1 .. Len(items) + 1 : Reorder(i, before) =>
             IF IsGroup(items[i]) THEN Members(items') = Members(items)
             ELSE \E j \in DOMAIN items : /\ items'[j] = items[i]
                                          /\ Members(RemoveAt(items', j)) = Members(RemoveAt(items, i))]_vars
    BY <1>1
  <1> QED BY <1>2, ListInvHolds, PTL DEF Spec, DragsKeepMembers

-----------------------------------------------------------------------------
(* Writing and reading one item.                                           *)
(* A line of words without an "&&" is one command.                         *)
CommandOf(words) ==
    LET exe == NormalizeExecutable(words[1])
        id == IF exe = "codex" THEN CodexId(words)
              ELSE IF exe \in DOMAIN ResumeFlags THEN FlaggedId(exe, words) ELSE ""
    IN IF words = <<>> \/ id = "" THEN {} ELSE {[provider |-> exe, command_id |-> id]}

LEMMA OneCommand ==
    ASSUME NEW line, IsList(line), \A i \in 1 .. Len(line) : line[i] # Word("&&")
    PROVE  ParseSessionCommand(line) = CommandOf(line)
  <1>1. SelectLastInSeq(line, LAMBDA w : w = Word("&&")) = 0
    BY DEF SelectLastInSeq
  <1>2. SubSeq(line, 0 + 1, Len(line)) = line
    BY WholePiece
  <1> QED BY <1>1, <1>2 DEF ParseSessionCommand, CommandOf

(* What a provider's command has before the id.                            *)
Flag(p) == Word(CASE p \in {"claude", "qwen"} -> "--resume"
                  [] p \in {"kimi", "opencode"} -> "--session"
                  [] OTHER -> "resume")

LEMMA WordsDiffer ==
    ASSUME NEW v, NEW w
    PROVE  /\ Word(v).word = v /\ Word(v).value = ""
           /\ Word(v) = Word(w) => v = w
  BY DEF Word

LEMMA ExecutableIs ==
    ASSUME NEW p \in PROVIDERS \cup {"cut"}
    PROVE  NormalizeExecutable(Word(p)) = p
  <1>1. p \notin DOMAIN Executable
    BY FormatAssumption
  <1> QED BY <1>1, WordsDiffer DEF NormalizeExecutable

LEMMA IdIs ==
    ASSUME NEW id, IsSessionId(id), NEW p, p = "codex" => LowerCase(id) = id
    PROVE  NormalizeSessionId(Word(id), p) = id
  BY WordsDiffer DEF NormalizeSessionId

FlaggedAt(p, words, at) ==
    CASE at = 0 -> ""
      [] at # 0 /\ words[at].value # "" ->
           NormalizeSessionId(Word(IF p = "kimi" THEN LowerCase(words[at].value) ELSE words[at].value), p)
      [] at # 0 /\ words[at].value = "" ->
           IF at = Len(words) THEN "" ELSE NormalizeSessionId(words[at + 1], p)

LEMMA FlagsOf ==
    ASSUME NEW p \in PROVIDERS, p # "codex"
    PROVE  /\ p \in DOMAIN ResumeFlags /\ Flag(p).value = ""
           /\ Flag(p).word \in ResumeFlags[p] \cup Subcommands[p]
  <1>1. \A v : Word(v).word = v /\ Word(v).value = ""
    BY WordsDiffer
  <1>2. CASE p = "claude"
    <2>1. Flag(p) = Word("--resume")
      BY <1>2 DEF Flag
    <2>2. "--resume" \in ResumeFlags["claude"] /\ "claude" \in DOMAIN ResumeFlags
      BY DEF ResumeFlags
    <2> QED BY <1>1, <1>2, <2>1, <2>2
  <1>3. CASE p = "qwen"
    <2>1. Flag(p) = Word("--resume")
      BY <1>3 DEF Flag
    <2>2. "--resume" \in ResumeFlags["qwen"] /\ "qwen" \in DOMAIN ResumeFlags
      BY DEF ResumeFlags
    <2> QED BY <1>1, <1>3, <2>1, <2>2
  <1>4. CASE p = "kimi"
    <2>1. Flag(p) = Word("--session")
      BY <1>4 DEF Flag
    <2>2. "--session" \in ResumeFlags["kimi"] /\ "kimi" \in DOMAIN ResumeFlags
      BY DEF ResumeFlags
    <2> QED BY <1>1, <1>4, <2>1, <2>2
  <1>5. CASE p = "opencode"
    <2>1. Flag(p) = Word("--session")
      BY <1>5 DEF Flag
    <2>2. "--session" \in ResumeFlags["opencode"] /\ "opencode" \in DOMAIN ResumeFlags
      BY DEF ResumeFlags
    <2> QED BY <1>1, <1>5, <2>1, <2>2
  <1>6. CASE p = "muse"
    <2>1. Flag(p) = Word("resume")
      BY <1>6 DEF Flag
    <2>2. "muse" \in DOMAIN ResumeFlags
      BY DEF ResumeFlags
    <2>3. "resume" \in Subcommands["muse"]
      BY <2>2 DEF Subcommands
    <2> QED BY <1>1, <1>6, <2>1, <2>2, <2>3
  <1> QED BY <1>2, <1>3, <1>4, <1>5, <1>6 DEF PROVIDERS

(* An id after a provider's flag is found.                                 *)
LEMMA IdFound ==
    ASSUME NEW p \in PROVIDERS, NEW words, IsList(words), Len(words) >= 3,
           words[1] = Word(p), words[2] = Flag(p), NEW id, words[3] = Word(id),
           IsSessionId(id), p = "codex" => LowerCase(id) = id
    PROVE  CommandOf(words) = {[provider |-> p, command_id |-> id]}
  <1>1. Len(words) \in Nat /\ words # <<>>
    BY ListLength, NoItems
  <1>2. NormalizeExecutable(words[1]) = p
    BY ExecutableIs
  <1>3. NormalizeSessionId(words[3], p) = id /\ id # ""
    BY IdIs DEF IsSessionId
  <1>4. CASE p = "codex"
    <2>1. words[2] = Word("resume")
      BY <1>4 DEF Flag
    <2>2. CodexId(words) = id
      BY <1>3, <1>4, <2>1 DEF CodexId
    <2> QED BY <1>1, <1>2, <1>3, <1>4, <2>2 DEF CommandOf
  <1>5. CASE p # "codex"
    <2>1. /\ p \in DOMAIN ResumeFlags /\ words[2].value = ""
          /\ words[2].word \in ResumeFlags[p] \cup Subcommands[p]
      BY <1>5, FlagsOf
    <2> DEFINE Resumes(w) == \/ w.word \in ResumeFlags[p]
                             \/ w.value = "" /\ w.word \in Subcommands[p]
               I == {i \in 2 .. Len(words) : Resumes(words[i])}
    <2>3. Resumes(words[2])
      BY <2>1
    <2> HIDE DEF Resumes
    <2>4. 2 \in I /\ I \in SUBSET Nat
      BY <1>1, <2>3
    <2>5. Min(I) \in I /\ Min(I) <= 2
      BY <2>4, LeastOf
    <2>6. Min(I) = 2 /\ I # {}
      <3>1. Min(I) \in 2 .. Len(words)
        BY <2>5
      <3> QED BY <1>1, <2>4, <2>5, <3>1
    <2> HIDE DEF I
    <2> DEFINE at == SelectInSubSeq(words, 2, Len(words), Resumes)
    <2>7. at = 2
      BY <2>6 DEF SelectInSubSeq, I
    <2> HIDE DEF at
    <2>9. FlaggedId(p, words) = FlaggedAt(p, words, at)
      BY DEF FlaggedId, FlaggedAt, at, Resumes
    <2>8. FlaggedId(p, words) = NormalizeSessionId(words[3], p)
      <3>1. 2 # 0 /\ 2 # Len(words) /\ 2 + 1 = 3
        BY <1>1
      <3>2. FlaggedAt(p, words, 2) = NormalizeSessionId(words[2 + 1], p)
        BY <2>1, <3>1 DEF FlaggedAt
      <3> QED BY <2>7, <2>9, <3>1, <3>2
    <2> QED BY <1>1, <1>2, <1>3, <1>5, <2>1, <2>8 DEF CommandOf
  <1> QED BY <1>4, <1>5

LEMMA OneOrTwo ==
    ASSUME NEW n \in 1 .. 2
    PROVE  /\ n \in Nat /\ ~(n >= 3) /\ n + 1 # n /\ (n = 1 \/ n = 2)
           /\ \A m \in 2 .. n : m = 2 /\ n = 2
  OBVIOUS

(* No command is found where the id is missing.                            *)
LEMMA IdMissing ==
    ASSUME NEW p \in PROVIDERS, NEW words, IsList(words), Len(words) \in 1 .. 2,
           words[1] = Word(p) \/ (words[1] = Word("cut") /\ Len(words) = 1),
           Len(words) = 2 => words[2] \in {Flag(p), Word("cut")}
    PROVE  CommandOf(words) = {}
  <1>1. CASE words[1] = Word("cut")
    <2>1. NormalizeExecutable(words[1]) = "cut"
      BY <1>1, ExecutableIs
    <2>2. "cut" \notin DOMAIN ResumeFlags
      BY DEF ResumeFlags
    <2> QED BY <2>1, <2>2 DEF CommandOf
  <1>2. CASE words[1] = Word(p) /\ p = "codex"
    <2>1. NormalizeExecutable(words[1]) = "codex"
      BY <1>2, ExecutableIs
    <2>2. CodexId(words) = ""
      <3>1. ~(Len(words) >= 3)
        BY OneOrTwo
      <3> QED BY <3>1 DEF CodexId
    <2> QED BY <2>1, <2>2 DEF CommandOf
  <1>3. CASE words[1] = Word(p) /\ p # "codex"
    <2>1. p \in {"claude", "kimi", "opencode", "qwen", "muse"}
      BY <1>3 DEF PROVIDERS
    <2>2. NormalizeExecutable(words[1]) = p
      BY <1>3, ExecutableIs
    <2> DEFINE Resumes(w) == \/ w.word \in ResumeFlags[p]
                             \/ w.value = "" /\ w.word \in Subcommands[p]
               I == {i \in 2 .. Len(words) : Resumes(words[i])}
               at == SelectInSubSeq(words, 2, Len(words), Resumes)
    <2>3. at = IF I # {} THEN Min(I) ELSE 0
      BY DEF SelectInSubSeq
    <2> HIDE DEF Resumes, at
    <2>4. at = 0 \/ (at = 2 /\ Len(words) = 2)
      <3>1. I \in SUBSET Nat
        OBVIOUS
      <3>4. I \in SUBSET (2 .. Len(words))
        OBVIOUS
      <3> HIDE DEF I
      <3>2. CASE I = {}
        BY <2>3, <3>2
      <3>3. CASE I # {}
        <4>1. Min(I) \in I
          BY <3>1, <3>3, LeastOf
        <4>2. at \in 2 .. Len(words)
          BY <2>3, <3>3, <3>4, <4>1
        <4> QED BY <4>2, OneOrTwo
      <3> QED BY <3>2, <3>3
    <2>5. ASSUME Len(words) = 2 PROVE words[2].value = ""
      BY <2>5, WordsDiffer DEF Flag
    <2> HIDE DEF at, I
    <2>6. FlaggedId(p, words) = FlaggedAt(p, words, at)
      BY DEF FlaggedId, FlaggedAt, at, Resumes
    <2>7. FlaggedId(p, words) = ""
      BY <2>4, <2>5, <2>6 DEF FlaggedAt
    <2> QED BY <1>3, <2>2, <2>7 DEF CommandOf
  <1> QED BY <1>1, <1>2, <1>3

LEMMA ThreeWords ==
    ASSUME NEW x, NEW y, NEW z
    PROVE  /\ IsList(<<x, y, z>>) /\ Len(<<x, y, z>>) = 3
           /\ <<x, y, z>>[1] = x /\ <<x, y, z>>[2] = y /\ <<x, y, z>>[3] = z
  <1>1. <<x, y, z>> \in Seq({x, y, z})
    OBVIOUS
  <1> QED BY <1>1 DEF IsList

LEMMA FourWords ==
    ASSUME NEW x, NEW y, NEW z, NEW u
    PROVE  /\ IsList(<<x, y, z, u>>) /\ Len(<<x, y, z, u>>) = 4
           /\ <<x, y, z, u>>[1] = x /\ <<x, y, z, u>>[2] = y
           /\ <<x, y, z, u>>[3] = z /\ <<x, y, z, u>>[4] = u
  <1>1. <<x, y, z, u>> \in Seq({x, y, z, u})
    OBVIOUS
  <1> QED BY <1>1 DEF IsList

(* The words of a command: the provider, its flag, the id, for Muse one    *)
(* more.                                                                   *)
CommandIs(words, p, id) ==
    /\ IsList(words) /\ Len(words) \in {3, 4}
    /\ words[1] = Word(p) /\ words[2] = Flag(p) /\ words[3] = Word(id)
    /\ Len(words) = 4 => words[4] = Word("--yolo")

LEMMA CommandWords ==
    ASSUME NEW p \in PROVIDERS, NEW id
    PROVE  CommandIs(ResumeCommand(p, id), p, id)
  <1>1. CASE p # "muse"
    <2>1. ResumeCommand(p, id) = <<Word(p), Flag(p), Word(id)>>
      <3>1. CASE p = "claude"
        BY <3>1 DEF ResumeCommand, Flag
      <3>2. CASE p = "kimi"
        BY <3>2 DEF ResumeCommand, Flag
      <3>3. CASE p = "opencode"
        BY <3>3 DEF ResumeCommand, Flag
      <3>4. CASE p = "qwen"
        BY <3>4 DEF ResumeCommand, Flag
      <3>5. CASE p = "codex"
        BY <3>5 DEF ResumeCommand, Flag
      <3> QED BY <1>1, <3>1, <3>2, <3>3, <3>4, <3>5 DEF PROVIDERS
    <2> DEFINE c == <<Word(p), Flag(p), Word(id)>>
    <2>2. IsList(c) /\ Len(c) = 3 /\ c[1] = Word(p) /\ c[2] = Flag(p) /\ c[3] = Word(id)
      BY ThreeWords
    <2> HIDE DEF c
    <2>3. CommandIs(c, p, id)
      BY <2>2 DEF CommandIs
    <2> QED BY <2>1, <2>3 DEF c
  <1>2. CASE p = "muse"
    <2>1. ResumeCommand(p, id) = <<Word(p), Flag(p), Word(id), Word("--yolo")>>
      BY <1>2 DEF ResumeCommand, Flag
    <2> DEFINE c == <<Word(p), Flag(p), Word(id), Word("--yolo")>>
    <2>2. /\ IsList(c) /\ Len(c) = 4 /\ c[1] = Word(p) /\ c[2] = Flag(p) /\ c[3] = Word(id)
          /\ c[4] = Word("--yolo")
      BY FourWords
    <2> HIDE DEF c
    <2>3. CommandIs(c, p, id)
      BY <2>2 DEF CommandIs
    <2> QED BY <2>1, <2>3 DEF c
  <1> QED BY <1>1, <1>2

LEMMA ThreeOrFour ==
    ASSUME NEW n \in {3, 4}
    PROVE  /\ n \in Nat /\ n >= 3 /\ n <= 4
           /\ \A i \in 1 .. n : i = 1 \/ i = 2 \/ i = 3 \/ (i = 4 /\ n = 4)
  OBVIOUS

LEMMA AtLeastThree ==
    ASSUME NEW n \in Nat, NEW m \in Nat, n \in 1 .. m, n \notin 1 .. 2
    PROVE  /\ n >= 3 /\ 1 \in 1 .. n /\ 2 \in 1 .. n /\ 3 \in 1 .. n
           /\ 1 # n /\ 2 # n
  OBVIOUS

LEMMA PlainWords ==
    ASSUME NEW p \in PROVIDERS, NEW id, IsSessionId(id)
    PROVE  Word("&&") \notin {Word(p), Flag(p), Word(id), Word("--yolo"), Word("cut")}
  <1>1. "&&" \notin {p, id, "--yolo", "cut", "resume", "--resume", "--session"}
    BY DEF PROVIDERS, IsSessionId
  <1>2. Flag(p) \in {Word("resume"), Word("--resume"), Word("--session")}
    BY DEF Flag
  <1> QED BY <1>1, <1>2, WordsDiffer

(* A command that was written reads as the session it was written for.     *)
LEMMA CommandFound ==
    ASSUME NEW p \in PROVIDERS, NEW id, IsSessionId(id), p = "codex" => LowerCase(id) = id
    PROVE  ParseSessionCommand(ResumeCommand(p, id)) = {[provider |-> p, command_id |-> id]}
  <1> DEFINE c == ResumeCommand(p, id)
  <1>1. CommandIs(c, p, id)
    BY CommandWords
  <1> HIDE DEF c
  <1>2. /\ Len(c) >= 3 /\ Len(c) \in Nat
        /\ \A i \in 1 .. Len(c) : i = 1 \/ i = 2 \/ i = 3 \/ (i = 4 /\ Len(c) = 4)
    <2>1. Len(c) \in {3, 4}
      BY <1>1 DEF CommandIs
    <2> QED BY <2>1, ThreeOrFour
  <1>3. \A i \in 1 .. Len(c) : c[i] # Word("&&")
    BY <1>1, <1>2, PlainWords DEF CommandIs
  <1>4. ParseSessionCommand(c) = CommandOf(c)
    BY <1>1, <1>3, OneCommand DEF CommandIs
  <1>5. CommandOf(c) = {[provider |-> p, command_id |-> id]}
    BY <1>1, <1>2, IdFound DEF CommandIs
  <1> QED BY <1>4, <1>5 DEF c

LEMMA CutIsId ==
    /\ IsSessionId("cut") /\ LowerCase("cut") = "cut"
    /\ \A v : CutWord(Word(v)) = Word("cut")
  <1>1. ASSUME NEW v PROVE CutWord(Word(v)) = Word("cut")
    <2> DEFINE w == Word(v)
    <2>1. w = [word |-> v, value |-> ""] /\ DOMAIN w = {"word", "value"} /\ w.value = ""
      BY DEF Word
    <2> DEFINE c == [w EXCEPT !.word = "cut"]
    <2>2. DOMAIN c = {"word", "value"} /\ c.word = "cut" /\ c.value = "" /\ c = [k \in DOMAIN c |-> c[k]]
      BY <2>1
    <2> HIDE DEF c
    <2>3. c = [word |-> "cut", value |-> ""]
      BY <2>2
    <2> QED BY <2>3 DEF CutWord, Word, c
  <1> QED BY <1>1, FormatAssumption DEF IsSessionId, LowerCase

(* A command that was cut reads as nothing, as its session, or as one with *)
(* a part of its id.                                                       *)
LEMMA CommandCut ==
    ASSUME NEW p \in PROVIDERS, NEW id, IsSessionId(id), p = "codex" => LowerCase(id) = id,
           NEW part \in Parts(TextLine(ResumeCommand(p, id)))
    PROVE  ParseSessionCommand(part.words) \in
             {{}, {[provider |-> p, command_id |-> id]}, {[provider |-> p, command_id |-> "cut"]}}
  <1> DEFINE c == ResumeCommand(p, id)
  <1>1. CommandIs(c, p, id)
    BY CommandWords
  <1>2. part \in {TextLine(SubSeq(c, 1, n)) : n \in 1 .. Len(c) - 1}
          \cup {TextLine(Append(SubSeq(c, 1, n), CutWord(c[n + 1]))) : n \in 0 .. Len(c) - 1}
    BY DEF Parts, WordsOf, TextLine
  <1> HIDE DEF c
  <1>3. /\ IsList(c) /\ Len(c) \in Nat /\ Len(c) >= 3 /\ Len(c) <= 4
        /\ \A i \in 1 .. Len(c) : i = 1 \/ i = 2 \/ i = 3 \/ (i = 4 /\ Len(c) = 4)
    <2>1. IsList(c) /\ Len(c) \in {3, 4}
      BY <1>1 DEF CommandIs
    <2> QED BY <2>1, ThreeOrFour
  <1>4. \A i \in 1 .. Len(c) : CutWord(c[i]) = Word("cut") /\ c[i] # Word("&&")
    <2>1. \A i \in 1 .. Len(c) : \E v : c[i] = Word(v)
      <3>1. \E v : Flag(p) = Word(v)
        BY DEF Flag
      <3> QED BY <1>1, <1>3, <3>1 DEF CommandIs
    <2>2. \A i \in 1 .. Len(c) : c[i] # Word("&&")
      BY <1>1, <1>3, PlainWords DEF CommandIs
    <2> QED BY <2>1, <2>2, CutIsId
  <1>5. ASSUME NEW words, IsList(words), Len(words) \in 1 .. Len(c),
               NEW n \in 0 .. Len(words), n >= Len(words) - 1,
               \A i \in 1 .. n : words[i] = c[i],
               n < Len(words) => words[Len(words)] = Word("cut")
        PROVE  ParseSessionCommand(words) \in
                 {{}, {[provider |-> p, command_id |-> id]}, {[provider |-> p, command_id |-> "cut"]}}
    <2>1. Len(words) \in Nat /\ (n = Len(words) \/ n = Len(words) - 1)
      BY <1>3, <1>5
    <2>2. \A i \in 1 .. Len(words) : words[i] = c[i] \/ (words[i] = Word("cut") /\ i = Len(words))
      BY <1>5, <2>1
    <2>3. \A i \in 1 .. Len(words) : words[i] # Word("&&")
      BY <1>3, <1>4, <1>5, <2>1, <2>2, PlainWords
    <2>4. ParseSessionCommand(words) = CommandOf(words)
      BY <1>5, <2>3, OneCommand
    <2>5. CASE Len(words) \in 1 .. 2
      <3>1. words[1] = Word(p) \/ (words[1] = Word("cut") /\ Len(words) = 1)
        <4>1. 1 \in 1 .. Len(words)
          BY <2>5
        <4> QED BY <1>1, <2>2, <4>1 DEF CommandIs
      <3>2. Len(words) = 2 => words[2] \in {Flag(p), Word("cut")}
        <4>1. ASSUME Len(words) = 2 PROVE 2 \in 1 .. Len(words)
          BY <4>1
        <4> QED BY <1>1, <2>2, <4>1 DEF CommandIs
      <3>3. CommandOf(words) = {}
        BY <1>5, <2>5, <3>1, <3>2, IdMissing
      <3> QED BY <2>4, <3>3
    <2>6. CASE Len(words) \notin 1 .. 2
      <3>1. Len(words) >= 3 /\ 1 \in 1 .. Len(words) /\ 2 \in 1 .. Len(words) /\ 3 \in 1 .. Len(words)
            /\ 1 # Len(words) /\ 2 # Len(words)
        BY <1>3, <1>5, <2>1, <2>6, AtLeastThree
      <3>2. words[1] = Word(p) /\ words[2] = Flag(p) /\ words[3] \in {Word(id), Word("cut")}
        BY <1>1, <2>2, <3>1 DEF CommandIs
      <3>3. CASE words[3] = Word(id)
        <4>1. CommandOf(words) = {[provider |-> p, command_id |-> id]}
          BY <1>5, <3>1, <3>2, <3>3, IdFound
        <4> QED BY <2>4, <4>1
      <3>4. CASE words[3] = Word("cut")
        <4>1. CommandOf(words) = {[provider |-> p, command_id |-> "cut"]}
          BY <1>5, <3>1, <3>2, <3>4, CutIsId, IdFound
        <4> QED BY <2>4, <4>1
      <3> QED BY <3>2, <3>3, <3>4
    <2> QED BY <2>5, <2>6
  <1>6. ASSUME NEW n \in 0 .. Len(c) - 1
        PROVE  LET a == SubSeq(c, 1, n) IN
               /\ IsList(a) /\ Len(a) = n /\ \A i \in 1 .. n : a[i] = c[i]
               /\ IsList(Append(a, CutWord(c[n + 1]))) /\ Len(Append(a, CutWord(c[n + 1]))) = n + 1
               /\ \A i \in 1 .. n : Append(a, CutWord(c[n + 1]))[i] = c[i]
               /\ Append(a, CutWord(c[n + 1]))[n + 1] = Word("cut")
    <2> DEFINE a == SubSeq(c, 1, n)
               b == Append(a, CutWord(c[n + 1]))
    <2>1. 1 \in 1 .. Len(c) + 1 /\ n \in 1 - 1 .. Len(c) /\ n + 1 \in 1 .. Len(c) /\ n \in Nat
      BY <1>3
    <2>2. IsList(a) /\ Len(a) = n - 1 + 1 /\ \A i \in 1 .. n - 1 + 1 : a[i] = c[1 + i - 1]
      BY <1>3, <2>1, PieceOf
    <2>3. IsList(a) /\ Len(a) = n /\ \A i \in 1 .. n : a[i] = c[i]
      BY <2>1, <2>2
    <2>4. CutWord(c[n + 1]) = Word("cut")
      BY <1>4, <2>1
    <2> HIDE DEF a
    <2>5. b = a \o <<Word("cut")>>
      BY <2>3, <2>4, Appended
    <2>6. IsList(<<Word("cut")>>) /\ Len(<<Word("cut")>>) = 1 /\ <<Word("cut")>>[1] = Word("cut")
      BY OneItem
    <2> DEFINE e == <<Word("cut")>>
    <2> HIDE DEF b, e
    <2>7. /\ IsList(a \o e) /\ Len(a \o e) = Len(a) + Len(e)
          /\ \A i \in 1 .. Len(a) : (a \o e)[i] = a[i]
          /\ \A i \in 1 .. Len(e) : (a \o e)[Len(a) + i] = e[i]
      BY <2>3, <2>6, Joined DEF e
    <2>8. b = a \o e /\ Len(e) = 1 /\ e[1] = Word("cut") /\ 1 \in 1 .. 1
      BY <2>5, <2>6 DEF e
    <2>9. IsList(b) /\ Len(b) = n + 1 /\ (\A i \in 1 .. n : b[i] = c[i]) /\ b[n + 1] = Word("cut")
      BY <2>3, <2>7, <2>8
    <2> QED BY <2>3, <2>9 DEF a, b
  <1>7. CASE part \in {TextLine(SubSeq(c, 1, n)) : n \in 1 .. Len(c) - 1}
    <2>1. PICK n \in 1 .. Len(c) - 1 : part = TextLine(SubSeq(c, 1, n))
      BY <1>7
    <2> DEFINE a == SubSeq(c, 1, n)
    <2>2. part.words = a
      BY <2>1 DEF TextLine
    <2>3. n \in 0 .. Len(c) - 1 /\ n \in 1 .. Len(c) /\ n \in Nat
      BY <1>3
    <2>4. IsList(a) /\ Len(a) = n /\ \A i \in 1 .. n : a[i] = c[i]
      BY <1>6, <2>3
    <2> HIDE DEF a
    <2>5. n \in 0 .. Len(a) /\ n >= Len(a) - 1 /\ ~(n < Len(a)) /\ Len(a) \in 1 .. Len(c)
      BY <2>3, <2>4
    <2> QED BY <1>5, <2>2, <2>4, <2>5
  <1>8. CASE part \notin {TextLine(SubSeq(c, 1, n)) : n \in 1 .. Len(c) - 1}
    <2>1. PICK n \in 0 .. Len(c) - 1 : part = TextLine(Append(SubSeq(c, 1, n), CutWord(c[n + 1])))
      BY <1>2, <1>8
    <2> DEFINE b == Append(SubSeq(c, 1, n), CutWord(c[n + 1]))
    <2>2. part.words = b
      BY <2>1 DEF TextLine
    <2>4. IsList(b) /\ Len(b) = n + 1 /\ (\A i \in 1 .. n : b[i] = c[i]) /\ b[n + 1] = Word("cut")
      BY <1>6
    <2> HIDE DEF b
    <2>5. n \in 0 .. Len(b) /\ n >= Len(b) - 1 /\ Len(b) \in 1 .. Len(c)
      BY <1>3, <2>4
    <2> QED BY <1>5, <2>2, <2>4, <2>5
  <1> QED BY <1>7, <1>8

LEMMA FirstJoined ==
    ASSUME NEW x, NEW q, IsList(q)
    PROVE  /\ IsList(<<x>> \o q) /\ Len(<<x>> \o q) = 1 + Len(q) /\ (<<x>> \o q)[1] = x
           /\ \A i \in 1 .. Len(q) : (<<x>> \o q)[1 + i] = q[i]
  <1>1. ASSUME NEW e, IsList(e), Len(e) = 1, e[1] = x
        PROVE  /\ IsList(e \o q) /\ Len(e \o q) = 1 + Len(q) /\ (e \o q)[1] = x
               /\ \A i \in 1 .. Len(q) : (e \o q)[1 + i] = q[i]
    <2> DEFINE c == e \o q
    <2>0. IsList(e) /\ IsList(q)
      BY <1>1
    <2>1. /\ IsList(c) /\ Len(c) = Len(e) + Len(q)
          /\ \A i \in 1 .. Len(e) : c[i] = e[i]
          /\ \A i \in 1 .. Len(q) : c[Len(e) + i] = q[i]
      BY <2>0, Joined
    <2> HIDE DEF c
    <2>2. 1 \in 1 .. Len(e)
      BY <1>1
    <2>3. Len(c) = 1 + Len(q)
      BY <1>1, <2>1
    <2>4. c[1] = x
      BY <1>1, <2>1, <2>2
    <2>5. ASSUME NEW i \in 1 .. Len(q) PROVE c[1 + i] = q[i]
      BY <1>1, <2>1
    <2> QED BY <2>1, <2>3, <2>4, <2>5 DEF c
  <1>2. IsList(<<x>>) /\ Len(<<x>>) = 1 /\ <<x>>[1] = x
    BY OneItem
  <1> QED BY <1>1, <1>2

(* A mark in front of a title changes nothing.                             *)
LEMMA MarkStripped ==
    ASSUME NEW m, NEW q, IsList(q)
    PROVE  StripMark(m, <<Word(m)>> \o q) = StripMark(m, q)
  <1> DEFINE a == <<Word(m)>> \o q
             ia == {i \in 1 .. Len(a) : a[i] # Word(m)}
             iq == {i \in 1 .. Len(q) : q[i] # Word(m)}
             fa == IF \A i \in DOMAIN a : a[i] = Word(m) THEN Len(a) + 1 ELSE IF ia # {} THEN Min(ia) ELSE 0
             fq == IF \A i \in DOMAIN q : q[i] = Word(m) THEN Len(q) + 1 ELSE IF iq # {} THEN Min(iq) ELSE 0
  <1>1. StripMark(m, a) = SubSeq(a, fa, Len(a)) /\ StripMark(m, q) = SubSeq(q, fq, Len(q))
    BY DEF StripMark, SelectInSeq
  <1>2. Len(q) \in Nat /\ DOMAIN q = 1 .. Len(q)
    BY ListLength
  <1>3. /\ IsList(a) /\ Len(a) = 1 + Len(q) /\ a[1] = Word(m) /\ \A i \in 1 .. Len(q) : a[1 + i] = q[i]
    BY FirstJoined
  <1> HIDE DEF a
  <1>4. DOMAIN a = 1 .. 1 + Len(q)
    BY <1>3, ListLength
  <1>5. \A i \in 2 .. 1 + Len(q) : i - 1 \in 1 .. Len(q) /\ a[i] = q[i - 1]
    <2>1. ASSUME NEW i \in 2 .. 1 + Len(q) PROVE i - 1 \in 1 .. Len(q) /\ 1 + (i - 1) = i
      BY <1>2
    <2> QED BY <1>3, <2>1
  <1>6. fa = fq + 1 /\ fq \in 1 .. Len(q) + 1
    <2>1. CASE \A i \in DOMAIN q : q[i] = Word(m)
      <3>1. \A i \in DOMAIN a : a[i] = Word(m)
        <4>1. ASSUME NEW i \in DOMAIN a PROVE i = 1 \/ i \in 2 .. 1 + Len(q)
          BY <1>2, <1>4
        <4> QED BY <1>2, <1>3, <1>5, <2>1, <4>1
      <3>2. fa = Len(a) + 1 /\ fq = Len(q) + 1
        BY <2>1, <3>1
      <3> HIDE DEF fa, fq
      <3>3. Len(q) + 1 \in 1 .. Len(q) + 1 /\ 1 + Len(q) = Len(q) + 1
        BY <1>2
      <3> QED BY <1>3, <3>2, <3>3
    <2>2. CASE ~ \A i \in DOMAIN q : q[i] = Word(m)
      <3>1. PICK j \in 1 .. Len(q) : q[j] # Word(m)
        BY <1>2, <2>2
      <3>2. iq # {} /\ iq \in SUBSET Nat
        BY <3>1
      <3>3. Min(iq) \in iq /\ \A t \in iq : Min(iq) <= t
        BY <3>2, LeastOf
      <3> DEFINE k == Min(iq)
      <3> HIDE DEF k
      <3>4. k \in 1 .. Len(q) /\ q[k] # Word(m) /\ \A t \in 1 .. Len(q) : q[t] # Word(m) => k <= t
        BY <3>3 DEF k
      <3>5. 1 + k \in 1 .. Len(a) /\ a[1 + k] # Word(m) /\ 1 + k \in DOMAIN a
        BY <1>2, <1>3, <1>4, <3>4
      <3>6. ia # {} /\ ia \in SUBSET Nat /\ 1 + k \in ia
        BY <3>5
      <3>7. Min(ia) \in ia /\ Min(ia) <= 1 + k
        BY <3>6, LeastOf
      <3> DEFINE l == Min(ia)
      <3> HIDE DEF l
      <3>8. l \in 1 .. Len(a) /\ a[l] # Word(m) /\ l <= 1 + k
        BY <3>7 DEF l
      <3>9. l \in 2 .. 1 + Len(q)
        BY <1>2, <1>3, <3>8
      <3>10. l - 1 \in 1 .. Len(q) /\ k <= l - 1
        BY <1>5, <3>4, <3>8, <3>9
      <3>11. l = k + 1
        BY <3>4, <3>8, <3>9, <3>10
      <3>12. fa = l /\ fq = k
        BY <2>2, <3>2, <3>5, <3>6 DEF k, l
      <3> QED BY <1>2, <3>4, <3>11, <3>12
    <2> QED BY <2>1, <2>2
  <1> HIDE DEF fa, fq
  <1>7. SubSeq(a, fq + 1, Len(a)) = SubSeq(q, fq, Len(q))
    <2> HIDE DEF ia, iq
    <2> DEFINE u == SubSeq(a, fq + 1, Len(a))
               v == SubSeq(q, fq, Len(q))
    <2>1. fq + 1 \in 1 .. Len(a) + 1 /\ Len(a) \in fq + 1 - 1 .. Len(a) /\ Len(q) \in fq - 1 .. Len(q)
          /\ fq \in Int /\ Len(a) - (fq + 1) + 1 = Len(q) - fq + 1
      BY <1>2, <1>3, <1>6
    <2> DEFINE b == fq + 1
               n == Len(a)
    <2>5. b \in 1 .. Len(a) + 1 /\ n \in b - 1 .. Len(a) /\ IsList(a)
      BY <1>3, <2>1
    <2> HIDE DEF b, n, u, v
    <2>6. /\ IsList(SubSeq(a, b, n)) /\ Len(SubSeq(a, b, n)) = n - b + 1
          /\ \A i \in 1 .. n - b + 1 : SubSeq(a, b, n)[i] = a[b + i - 1]
      BY <2>5, PieceOf
    <2>2. IsList(u) /\ Len(u) = Len(a) - (fq + 1) + 1 /\ \A i \in 1 .. Len(a) - (fq + 1) + 1 : u[i] = a[fq + 1 + i - 1]
      BY <2>6 DEF u, b, n
    <2>3. IsList(v) /\ Len(v) = Len(q) - fq + 1 /\ \A i \in 1 .. Len(q) - fq + 1 : v[i] = q[fq + i - 1]
      BY <1>6, <2>1, PieceOf DEF v
    <2>4. ASSUME NEW i \in 1 .. Len(q) - fq + 1 PROVE a[fq + 1 + i - 1] = q[fq + i - 1]
      <3>1. fq + i - 1 \in 1 .. Len(q) /\ fq + 1 + i - 1 = 1 + (fq + i - 1)
        BY <1>2, <1>6, <2>1
      <3> QED BY <1>3, <3>1
    <2> HIDE DEF u, v
    <2>7. u = v
      BY <2>1, <2>2, <2>3, <2>4, ListsEqual
    <2> QED BY <2>7 DEF u, v
  <1> QED BY <1>1, <1>6, <1>7 DEF a

LEMMA TitleRead ==
    ASSUME NEW q, IsList(q)
    PROVE  NormalizeLabel(<<Word("#")>> \o q) = NormalizeLabel(q)
  BY MarkStripped DEF NormalizeLabel

-----------------------------------------------------------------------------
(* The items there may be: a name is a list of words, a group has nothing  *)
(* a header does not tell, a session is of a provider and has an id.       *)
WellMade(x) ==
    /\ IsItem(x) /\ IsList(x.name)
    /\ IsGroup(x) => x = GroupItem(x.id, x.name, x.color)
    /\ IsSession(x) => /\ x = SessionItem(x.provider, x.command_id, x.name)
                       /\ x.provider \in PROVIDERS /\ IsSessionId(x.command_id)
Made(list) == \A i \in DOMAIN list : WellMade(list[i])

LEMMA Groups ==
    ASSUME NEW id, NEW name, NEW color
    PROVE  LET x == GroupItem(id, name, color) IN
           /\ IsGroup(x) /\ ~IsGroupEnd(x) /\ ~IsSession(x)
           /\ x.id = id /\ x.name = name /\ x.color = color
  BY DEF GroupItem, IsGroup, IsGroupEnd, IsSession

LEMMA GroupEnds ==
    ASSUME NEW id
    PROVE  LET x == GroupEndItem(id) IN
           /\ ~IsGroup(x) /\ IsGroupEnd(x) /\ ~IsSession(x)
           /\ x.id = id /\ x.name = NoName
  BY DEF GroupEndItem, IsGroup, IsGroupEnd, IsSession

LEMMA SessionsAre ==
    ASSUME NEW p, NEW id, NEW name
    PROVE  LET x == SessionItem(p, id, name) IN
           /\ ~IsGroup(x) /\ ~IsGroupEnd(x) /\ IsSession(x)
           /\ x.provider = p /\ x.command_id = id /\ x.name = name
  BY DEF SessionItem, IsGroup, IsGroupEnd, IsSession

LEMMA GroupNames ==
    ASSUME NEW n, IsList(n)
    PROVE  IsList(GroupName(n)) /\ GroupName(n) # NoName /\ GroupName(GroupName(n)) = GroupName(n)
  <1>1. IsList(<<Word("Group")>>) /\ Len(<<Word("Group")>>) = 1
    BY OneItem
  <1>2. Len(NoName) = 0
    BY NoItems DEF NoName
  <1>3. <<Word("Group")>> # NoName
    <2>1. ASSUME <<Word("Group")>> = NoName PROVE Len(<<Word("Group")>>) = 0
      BY <1>2, <2>1
    <2> QED BY <1>1, <2>1
  <1> QED BY <1>1, <1>3 DEF GroupName

LEMMA ShortIds ==
    ASSUME NEW id
    PROVE  IsList(ShortSessionId(id)) /\ ShortSessionId(id) # NoName
  <1>1. CASE id \in DOMAIN LastDigits
    BY <1>1, FormatAssumption DEF ShortSessionId, IsList
  <1>2. CASE id \notin DOMAIN LastDigits
    <2>1. IsList(<<Word(id)>>) /\ Len(<<Word(id)>>) = 1
      BY OneItem
    <2>2. Len(NoName) = 0
      BY NoItems DEF NoName
    <2>3. <<Word(id)>> # NoName
      <3>1. ASSUME <<Word(id)>> = NoName PROVE Len(<<Word(id)>>) = 0
        BY <2>2, <3>1
      <3> QED BY <2>1, <3>1
    <2> QED BY <1>2, <2>1, <2>3 DEF ShortSessionId
  <1> QED BY <1>1, <1>2

LEMMA LowerIds ==
    ASSUME NEW id, IsSessionId(id)
    PROVE  IsSessionId(LowerCase(id)) /\ LowerCase(LowerCase(id)) = LowerCase(id)
  BY FormatAssumption DEF LowerCase

LEMMA RenamedGroup ==
    ASSUME NEW id, NEW name, NEW color, NEW n
    PROVE  [GroupItem(id, name, color) EXCEPT !.name = n] = GroupItem(id, n, color)
  <1> DEFINE r == GroupItem(id, name, color)
             e == [r EXCEPT !.name = n]
  <1>1. /\ DOMAIN r = {"kind", "id", "name", "command_id", "color", "provider"}
        /\ r.kind = "group" /\ r.id = id /\ r.command_id = "" /\ r.color = color /\ r.provider = ""
    BY DEF GroupItem
  <1> HIDE DEF r
  <1>2. /\ DOMAIN e = {"kind", "id", "name", "command_id", "color", "provider"}
        /\ e.kind = "group" /\ e.id = id /\ e.command_id = "" /\ e.color = color /\ e.provider = ""
        /\ e.name = n /\ e = [k \in DOMAIN e |-> e[k]]
    BY <1>1
  <1> HIDE DEF e
  <1>3. e = GroupItem(id, n, color)
    BY <1>2 DEF GroupItem
  <1> QED BY <1>3 DEF e, r

(* What is stored of an item.                                              *)
Keepable(x) ==
    /\ IsItem(x) /\ IsList(x.name)
    /\ IsGroup(x) => x = GroupItem(x.id, x.name, x.color) /\ GroupName(x.name) = x.name
    /\ IsGroupEnd(x) => x = GroupEndItem(x.id)
    /\ IsSession(x) => /\ x = SessionItem(x.provider, x.command_id, x.name) /\ x.name # NoName
                       /\ x.provider \in PROVIDERS /\ IsSessionId(x.command_id)
                       /\ x.provider = "codex" => LowerCase(x.command_id) = x.command_id

LEMMA StoredKeepable ==
    ASSUME NEW x, WellMade(x)
    PROVE  /\ Keepable(Stored(x)) /\ Stored(x).kind = x.kind /\ Stored(x).id = x.id
           /\ RenderItem(DeserializeItem(x)) = RenderItem(Stored(x))
  <1>1. IsItem(x) /\ IsList(x.name)
    BY DEF WellMade
  <1>2. CASE IsSession(x)
    <2> DEFINE p == x.provider
               id == IF p = "codex" THEN LowerCase(x.command_id) ELSE x.command_id
               name == IF x.name = NoName THEN ShortSessionId(id) ELSE x.name
               s == SessionItem(p, id, name)
               d == SessionItem(p, id, x.name)
    <2>1. p \in PROVIDERS /\ IsSessionId(x.command_id)
      BY <1>2 DEF WellMade
    <2>2. IsSessionId(id) /\ (p = "codex" => LowerCase(id) = id)
      BY <2>1, LowerIds
    <2>3. IsList(name) /\ name # NoName
      BY <1>1, ShortIds
    <2>4. Stored(x) = s
      BY <1>2 DEF Stored
    <2>5. DeserializeItem(x) = d
      BY <1>2, <2>1 DEF DeserializeItem, IsSession, NormalizeProvider
    <2> HIDE DEF id, p, name
    <2>6. /\ ~IsGroup(s) /\ ~IsGroupEnd(s) /\ IsSession(s) /\ IsItem(s)
          /\ s.provider = p /\ s.command_id = id /\ s.name = name
      <3>1. IsItem(s)
        BY NewItems
      <3> HIDE DEF IsItem
      <3> QED BY <3>1, SessionsAre
    <2>7. /\ ~IsGroup(d) /\ ~IsGroupEnd(d) /\ IsSession(d)
          /\ d.provider = p /\ d.command_id = id /\ d.name = x.name
      BY SessionsAre
    <2>8. s.kind = x.kind /\ s.id = x.id
      <3>1. x = SessionItem(x.provider, x.command_id, x.name)
        BY <1>2 DEF WellMade
      <3>2. \A a, b, c : SessionItem(a, b, c).kind = "session" /\ SessionItem(a, b, c).id = <<>>
        BY DEF SessionItem
      <3> QED BY <3>1, <3>2
    <2> HIDE DEF s, d
    <2>9. RenderItem(s) = <<TextLine(<<Word("#")>> \o name), TextLine(ResumeCommand(p, id))>>
      BY <2>3, <2>6 DEF RenderItem, IsSession
    <2>10. RenderItem(d) = <<TextLine(<<Word("#")>> \o name), TextLine(ResumeCommand(p, id))>>
      BY <2>7 DEF RenderItem, IsSession, name
    <2>11. Keepable(s)
      BY <2>1, <2>2, <2>3, <2>6 DEF Keepable, s
    <2> QED BY <2>4, <2>5, <2>8, <2>9, <2>10, <2>11
  <1>3. CASE IsGroup(x)
    <2> DEFINE n == GroupName(x.name)
               s == GroupItem(x.id, n, x.color)
    <2>1. x = GroupItem(x.id, x.name, x.color)
      BY <1>3 DEF WellMade
    <2>2. Stored(x) = s
      <3>1. Stored(x) = [x EXCEPT !.name = GroupName(@)]
        BY <1>1, <1>3, Kinds DEF Stored
      <3>2. \A a, b, c, m : [GroupItem(a, b, c) EXCEPT !.name = m] = GroupItem(a, m, c)
        BY RenamedGroup
      <3> QED BY <2>1, <3>1, <3>2
    <2>3. DeserializeItem(x) = s
      BY <1>3 DEF DeserializeItem, IsGroup
    <2>4. IsList(n) /\ GroupName(n) = n
      BY <1>1, GroupNames
    <2>5. x.id # NoGroup
      BY <1>1, <1>3 DEF IsItem
    <2> HIDE DEF n
    <2>6. /\ IsGroup(s) /\ ~IsGroupEnd(s) /\ ~IsSession(s) /\ IsItem(s)
          /\ s.id = x.id /\ s.name = n /\ s.color = x.color
      <3>1. IsItem(s)
        BY <2>5, NewItems DEF NoGroup
      <3> QED BY <3>1, Groups
    <2> HIDE DEF s
    <2>7. Keepable(s)
      BY <2>4, <2>6 DEF Keepable, s
    <2> QED BY <1>3, <2>2, <2>3, <2>6, <2>7 DEF IsGroup
  <1>4. CASE IsGroupEnd(x)
    <2> DEFINE s == GroupEndItem(x.id)
    <2>1. Stored(x) = s /\ DeserializeItem(x) = s
      BY <1>1, <1>4, Kinds DEF Stored, DeserializeItem, IsGroupEnd
    <2>2. ~IsGroup(s) /\ IsGroupEnd(s) /\ ~IsSession(s) /\ s.id = x.id /\ s.name = NoName /\ IsItem(s)
      BY GroupEnds, NewItems
    <2> HIDE DEF s
    <2>3. Keepable(s)
      BY <2>2, NoItems DEF Keepable, NoName, s
    <2> QED BY <1>4, <2>1, <2>2, <2>3 DEF IsGroupEnd
  <1> QED BY <1>1, <1>2, <1>3, <1>4, Kinds

(* The lines of an item that was stored.                                   *)
TitleOf(x) == TextLine(<<Word("#")>> \o x.name)
CommandLine(x) == TextLine(ResumeCommand(x.provider, x.command_id))
LEMMA LinesOf ==
    ASSUME NEW x, Keepable(x)
    PROVE  /\ IsGroup(x) => RenderItem(x) = <<HeaderLine(x.id, x.name, x.color)>>
           /\ IsGroupEnd(x) => RenderItem(x) = <<EndLine>>
           /\ IsSession(x) => RenderItem(x) = <<TitleOf(x), CommandLine(x)>>
  BY DEF Keepable, RenderItem, IsGroup, IsGroupEnd, IsSession, TitleOf, CommandLine

-----------------------------------------------------------------------------
(* The group that is open behind the first k items of a list.              *)
OpenAt(list, k) == IF GroupOf(list, k + 1) = 0 THEN NoGroup ELSE list[GroupOf(list, k + 1)].id

LEMMA OpenStart ==
    ASSUME NEW list
    PROVE  OpenAt(list, 0) = NoGroup
  <1>1. NoMarker(list, 0 + 1)
    BY DEF NoMarker
  <1>2. 0 + 1 \in Nat
    OBVIOUS
  <1>3. GroupOf(list, 0 + 1) = 0
    BY <1>1, <1>2, GroupOfIs
  <1> QED BY <1>3 DEF OpenAt

LEMMA OpenBehind ==
    ASSUME NEW list, NEW k \in Nat, k # 0, ~IsSession(list[k])
    PROVE  OpenAt(list, k) = IF IsGroup(list[k]) THEN list[k].id ELSE NoGroup
  <1>1. LastMarker(list, k + 1, k)
    BY DEF LastMarker
  <1>2. k + 1 \in Nat
    OBVIOUS
  <1>3. GroupOf(list, k + 1) = IF IsGroup(list[k]) THEN k ELSE 0
    BY <1>1, <1>2, GroupOfIs
  <1> QED BY <1>3 DEF OpenAt

LEMMA OpenBehindSession ==
    ASSUME NEW list, NEW k \in Nat, k # 0, IsSession(list[k])
    PROVE  OpenAt(list, k) = OpenAt(list, k - 1)
  <1>1. k + 1 \in Nat /\ k \in Nat /\ (k - 1) + 1 = k
    OBVIOUS
  <1>2. GroupOf(list, k + 1) = GroupOf(list, k)
    <2>1. CASE NoMarker(list, k)
      <3>1. NoMarker(list, k + 1)
        <4>1. \A j \in 1 .. (k + 1) - 1 : j = k \/ j \in 1 .. k - 1
          OBVIOUS
        <4> QED BY <2>1, <4>1 DEF NoMarker
      <3> QED BY <1>1, <2>1, <3>1, GroupOfIs
    <2>2. CASE \E m \in Nat : LastMarker(list, k, m)
      <3>1. PICK m \in Nat : LastMarker(list, k, m)
        BY <2>2
      <3>2. LastMarker(list, k + 1, m)
        <4>1. \A j \in m + 1 .. (k + 1) - 1 : j = k \/ j \in m + 1 .. k - 1
          OBVIOUS
        <4>2. m \in 1 .. (k + 1) - 1
          BY <3>1 DEF LastMarker
        <4> QED BY <3>1, <4>1, <4>2 DEF LastMarker
      <3> QED BY <1>1, <3>1, <3>2, GroupOfIs
    <2> QED BY <1>1, <2>1, <2>2, MarkerOrNone
  <1> QED BY <1>1, <1>2 DEF OpenAt

(* No group is open before one begins, its own before its end, and none    *)
(* behind the last item.                                                   *)
LEMMA NoneOpen ==
    ASSUME NEW list, Whole(list), NEW k \in 1 .. Len(list) + 1, k # Len(list) + 1 => IsGroup(list[k])
    PROVE  GroupOf(list, k) = 0
  <1>1. IsItems(list) /\ Flat(list) /\ Len(list) \in Nat /\ DOMAIN list = 1 .. Len(list)
    BY ListLength DEF Whole, IsItems
  <1>2. k \in Nat
    BY <1>1
  <1>3. CASE NoMarker(list, k)
    BY <1>2, <1>3, GroupOfIs
  <1>4. ASSUME NEW m \in Nat, LastMarker(list, k, m), IsGroup(list[m]) PROVE FALSE
    <2>1. m \in 1 .. k - 1 /\ m \in DOMAIN list /\ \A j \in m + 1 .. k - 1 : IsSession(list[j])
      BY <1>1, <1>4 DEF LastMarker
    <2>2. PICK e \in DOMAIN list : Encloses(list, m, e)
      BY <1>1, <1>4, <2>1 DEF Flat
    <2>3. m < e /\ IsGroupEnd(list[e]) /\ \A i \in m + 1 .. e - 1 : IsSession(list[i])
      BY <2>2 DEF Encloses
    <2>4. e \notin m + 1 .. k - 1
      BY <1>1, <2>1, <2>3, Kinds DEF IsItems
    <2>5. e >= k /\ e \in 1 .. Len(list)
      BY <1>1, <2>1, <2>3, <2>4
    <2>6. k \in DOMAIN list /\ k # Len(list) + 1
      BY <1>1, <2>5
    <2>7. e # k /\ ~IsSession(list[k])
      BY <1>1, <2>3, <2>6, Kinds DEF IsItems
    <2>8. k \in m + 1 .. e - 1
      BY <1>1, <2>1, <2>5, <2>7
    <2> QED BY <2>3, <2>7, <2>8
  <1>5. CASE \E m \in Nat : LastMarker(list, k, m)
    <2>1. PICK m \in Nat : LastMarker(list, k, m)
      BY <1>5
    <2>2. GroupOf(list, k) = IF IsGroup(list[m]) THEN m ELSE 0
      BY <1>2, <2>1, GroupOfIs
    <2> QED BY <1>4, <2>1, <2>2
  <1> QED BY <1>2, <1>3, <1>5, MarkerOrNone

LEMMA OpenBeforeGroup ==
    ASSUME NEW list, Whole(list), NEW k \in DOMAIN list, IsGroup(list[k])
    PROVE  OpenAt(list, k - 1) = NoGroup
  <1>1. Len(list) \in Nat /\ DOMAIN list = 1 .. Len(list)
    BY ListLength DEF Whole, IsItems
  <1>2. k \in 1 .. Len(list) + 1 /\ (k - 1) + 1 = k
    BY <1>1
  <1>3. GroupOf(list, k) = 0
    BY <1>2, NoneOpen
  <1> QED BY <1>2, <1>3 DEF OpenAt

LEMMA OpenAtEnd ==
    ASSUME NEW list, Whole(list)
    PROVE  OpenAt(list, Len(list)) = NoGroup
  <1>1. Len(list) \in Nat
    BY ListLength DEF Whole, IsItems
  <1>2. Len(list) + 1 \in 1 .. Len(list) + 1
    BY <1>1
  <1>3. GroupOf(list, Len(list) + 1) = 0
    BY <1>2, NoneOpen
  <1> QED BY <1>3 DEF OpenAt

LEMMA OpenBeforeEnd ==
    ASSUME NEW list, Whole(list), NEW k \in DOMAIN list, IsGroupEnd(list[k])
    PROVE  OpenAt(list, k - 1) = list[k].id /\ list[k].id # NoGroup
  <1>1. IsItems(list) /\ Flat(list) /\ Len(list) \in Nat /\ DOMAIN list = 1 .. Len(list)
    BY ListLength DEF Whole, IsItems
  <1>2. k \in Nat /\ (k - 1) + 1 = k
    BY <1>1
  <1>3. PICK g \in DOMAIN list : Encloses(list, g, k)
    BY <1>1 DEF Flat
  <1>4. /\ g < k /\ IsGroup(list[g]) /\ list[k].id = list[g].id /\ g \in Nat /\ g # 0
        /\ \A j \in g + 1 .. k - 1 : IsSession(list[j])
    BY <1>1, <1>3 DEF Encloses
  <1>5. IsItem(list[g]) /\ ~IsSession(list[g])
    BY <1>1, <1>4, Kinds DEF IsItems
  <1>6. LastMarker(list, k, g)
    <2>1. g \in 1 .. k - 1
      BY <1>1, <1>4
    <2> QED BY <1>4, <1>5, <2>1 DEF LastMarker
  <1>7. GroupOf(list, k) = g
    BY <1>2, <1>4, <1>6, GroupOfIs
  <1>8. list[g].id # NoGroup
    BY <1>4, <1>5 DEF IsItem
  <1> QED BY <1>2, <1>4, <1>7, <1>8 DEF OpenAt

-----------------------------------------------------------------------------
(* Reading the lines of the items that were stored, one item after the     *)
(* other.                                                                  *)
State(list, title, open) == [items |-> list, title |-> title, open |-> open]
After(list, k) == State(SubSeq(list, 1, k), NoName, OpenAt(list, k))

LEMMA ListAppended ==
    ASSUME NEW a, IsList(a), NEW x
    PROVE  /\ IsList(Append(a, x)) /\ Len(Append(a, x)) = Len(a) + 1
           /\ Append(a, x)[Len(a) + 1] = x
           /\ \A i \in 1 .. Len(a) : Append(a, x)[i] = a[i]
  <1> DEFINE b == Append(a, x)
  <1>1. Len(a) \in Nat
    BY ListLength
  <1>2. b = a \o <<x>>
    BY Appended
  <1>3. IsList(<<x>>) /\ Len(<<x>>) = 1 /\ <<x>>[1] = x
    BY OneItem
  <1>4. /\ IsList(a \o <<x>>) /\ Len(a \o <<x>>) = Len(a) + Len(<<x>>)
        /\ \A i \in 1 .. Len(a) : (a \o <<x>>)[i] = a[i]
        /\ \A i \in 1 .. Len(<<x>>) : (a \o <<x>>)[Len(a) + i] = <<x>>[i]
    BY <1>3, Joined
  <1> HIDE DEF b
  <1>5. 1 \in 1 .. Len(<<x>>)
    BY <1>3
  <1>6. IsList(b) /\ Len(b) = Len(a) + 1 /\ b[Len(a) + 1] = x /\ \A i \in 1 .. Len(a) : b[i] = a[i]
    BY <1>1, <1>2, <1>3, <1>4, <1>5
  <1> QED BY <1>6 DEF b

LEMMA NextItem ==
    ASSUME NEW list, IsList(list), NEW k \in DOMAIN list
    PROVE  /\ IsList(SubSeq(list, 1, k - 1))
           /\ Append(SubSeq(list, 1, k - 1), list[k]) = SubSeq(list, 1, k)
  <1> DEFINE a == SubSeq(list, 1, k - 1)
             c == SubSeq(list, 1, k)
  <1>1. Len(list) \in Nat /\ k \in 1 .. Len(list)
    BY ListLength
  <1>2. 1 \in 1 .. Len(list) + 1 /\ k - 1 \in 1 - 1 .. Len(list) /\ k \in 1 - 1 .. Len(list)
    BY <1>1
  <1>3. IsList(a) /\ Len(a) = k - 1 - 1 + 1 /\ \A i \in 1 .. k - 1 - 1 + 1 : a[i] = list[1 + i - 1]
    BY <1>2, PieceOf
  <1>4. IsList(c) /\ Len(c) = k - 1 + 1 /\ \A i \in 1 .. k - 1 + 1 : c[i] = list[1 + i - 1]
    BY <1>2, PieceOf
  <1> HIDE DEF a, c
  <1> DEFINE b == Append(a, list[k])
  <1>5. /\ IsList(b) /\ Len(b) = Len(a) + 1 /\ b[Len(a) + 1] = list[k]
        /\ \A i \in 1 .. Len(a) : b[i] = a[i]
    BY <1>3, ListAppended
  <1> HIDE DEF b
  <1>6. Len(a) = k - 1 /\ Len(c) = k /\ Len(b) = k
    BY <1>1, <1>3, <1>4, <1>5
  <1>7. \A i \in 1 .. k - 1 : b[i] = list[i] /\ c[i] = list[i]
    BY <1>1, <1>3, <1>4, <1>5, <1>6
  <1>8. b[k] = list[k] /\ c[k] = list[k]
    <2>1. Len(a) + 1 = k /\ k \in 1 .. k - 1 + 1 /\ 1 + k - 1 = k
      BY <1>1, <1>6
    <2> QED BY <1>4, <1>5, <2>1
  <1>9. \A i \in 1 .. k : i = k \/ i \in 1 .. k - 1
    BY <1>1
  <1>10. \A i \in 1 .. k : b[i] = c[i]
    BY <1>7, <1>8, <1>9
  <1>11. b = c
    BY <1>4, <1>5, <1>6, <1>10, ListsEqual
  <1> QED BY <1>3, <1>11 DEF a, b, c

LEMMA StateIs ==
    ASSUME NEW i, NEW t, NEW o
    PROVE  /\ DOMAIN State(i, t, o) = {"items", "title", "open"}
           /\ State(i, t, o).items = i /\ State(i, t, o).title = t /\ State(i, t, o).open = o
  BY DEF State

LEMMA StateMade ==
    ASSUME NEW e, e = [k \in DOMAIN e |-> e[k]], DOMAIN e = {"items", "title", "open"}
    PROVE  e = State(e.items, e.title, e.open)
  BY DEF State

LEMMA TitleSet ==
    ASSUME NEW st, NEW i, NEW t, NEW o, st = State(i, t, o), NEW x
    PROVE  [st EXCEPT !.title = x] = State(i, x, o)
  <1> DEFINE e == [st EXCEPT !.title = x]
  <1>1. DOMAIN st = {"items", "title", "open"} /\ st.items = i /\ st.title = t /\ st.open = o
    BY StateIs
  <1>2. /\ e = [k \in DOMAIN e |-> e[k]] /\ DOMAIN e = {"items", "title", "open"}
        /\ e.items = i /\ e.title = x /\ e.open = o
    BY <1>1
  <1> HIDE DEF e
  <1>3. e = State(i, x, o)
    BY <1>2, StateMade
  <1> QED BY <1>3 DEF e

(* What each kind of line does.                                            *)
LEMMA Closes ==
    ASSUME NEW i, NEW t, NEW o
    PROVE  CloseGroup(State(i, t, o)) =
             IF o = NoGroup THEN State(i, t, o) ELSE State(Append(i, GroupEndItem(o)), t, NoGroup)
  <1> DEFINE st == State(i, t, o)
             x == Append(i, GroupEndItem(o))
  <1>1. st.items = i /\ st.open = o
    BY StateIs
  <1>4. st = State(i, t, o)
    OBVIOUS
  <1> HIDE DEF st, x
  <1>2. [st EXCEPT !.items = x, !.open = NoGroup] = State(x, t, NoGroup)
    <2> DEFINE e == [st EXCEPT !.items = x, !.open = NoGroup]
    <2>1. DOMAIN st = {"items", "title", "open"} /\ st.title = t
      BY <1>4, StateIs
    <2>2. /\ e = [k \in DOMAIN e |-> e[k]] /\ DOMAIN e = {"items", "title", "open"}
          /\ e.items = x /\ e.title = t /\ e.open = NoGroup
      BY <2>1
    <2> HIDE DEF e
    <2>3. e = State(x, t, NoGroup)
      BY <2>2, StateMade
    <2> QED BY <2>3 DEF e
  <1>3. CloseGroup(st) = IF o = NoGroup THEN st ELSE [st EXCEPT !.items = x, !.open = NoGroup]
    BY <1>1 DEF CloseGroup, x
  <1> QED BY <1>2, <1>3, <1>4 DEF x

LEMMA ReadsEnd ==
    ASSUME NEW i, NEW t, NEW o, o # NoGroup
    PROVE  ParseLine(State(i, t, o), EndLine) = State(Append(i, GroupEndItem(o)), NoName, NoGroup)
  <1> DEFINE x == Append(i, GroupEndItem(o))
             c == State(x, t, NoGroup)
  <1>1. CloseGroup(State(i, t, o)) = c
    BY Closes
  <1>4. c = State(x, t, NoGroup)
    OBVIOUS
  <1> HIDE DEF c, x
  <1>2. [c EXCEPT !.title = NoName] = State(x, NoName, NoGroup)
    BY <1>4, TitleSet
  <1>3. ~IsHeader(EndLine) /\ EndLine.line = "end"
    BY DEF IsHeader, EndLine
  <1> QED BY <1>1, <1>2, <1>3 DEF ParseLine, ParseEnd, x

LEMMA ReadsHeader ==
    ASSUME NEW i, NEW t, NEW id, NEW name, NEW color, ~Contains(name, Word("|"))
    PROVE  ParseLine(State(i, t, NoGroup), HeaderLine(id, name, color))
             = State(Append(i, GroupItem(id, GroupName(name), color)), NoName, id)
  <1> DEFINE l == HeaderLine(id, name, color)
             st == State(i, t, NoGroup)
  <1>1. l.line = "group" /\ l.id = id /\ l.words = name /\ l.color = color
    BY DEF HeaderLine
  <1>2. CloseGroup(st) = st /\ st.items = i
    BY Closes, StateIs
  <1> HIDE DEF l, st
  <1>3. IsHeader(l)
    BY <1>1 DEF IsHeader
  <1>4. ParseLine(st, l) = State(Append(i, GroupItem(id, GroupName(name), color)), NoName, id)
    BY <1>1, <1>2, <1>3 DEF ParseLine, ParseHeader, State
  <1> QED BY <1>4 DEF l, st

LEMMA ReadsText ==
    ASSUME NEW st, NEW words
    PROVE  ParseLine(st, TextLine(words)) =
             IF ParseSessionCommand(words) # {}
             THEN ParseCommand(st, CHOOSE c \in ParseSessionCommand(words) : TRUE)
             ELSE ParseLabel(st, words)
  <1> DEFINE l == TextLine(words)
  <1>1. l.line = "text" /\ l.words = words
    BY DEF TextLine
  <1> HIDE DEF l
  <1>2. ~IsHeader(l) /\ l.line # "end" /\ WordsOf(l) = words
    BY <1>1 DEF IsHeader, WordsOf
  <1>3. ParseLine(st, l) = IF ParseSessionCommand(words) # {}
                           THEN ParseCommand(st, CHOOSE c \in ParseSessionCommand(words) : TRUE)
                           ELSE ParseLabel(st, words)
    BY <1>2 DEF ParseLine
  <1> QED BY <1>3 DEF l

LEMMA ReadsLabel ==
    ASSUME NEW i, NEW t, NEW o, NEW words, ParseSessionCommand(words) = {}
    PROVE  ParseLine(State(i, t, o), TextLine(words)) =
             State(i, IF NormalizeLabel(words) = NoName THEN t ELSE NormalizeLabel(words), o)
  <1> DEFINE st == State(i, t, o)
             n == NormalizeLabel(words)
  <1>4. st = State(i, t, o)
    OBVIOUS
  <1> HIDE DEF n, st
  <1>1. [st EXCEPT !.title = n] = State(i, n, o)
    BY <1>4, TitleSet
  <1>2. ParseLine(st, TextLine(words)) = ParseLabel(st, words)
    BY ReadsText
  <1>3. ParseLabel(st, words) = IF n = NoName THEN st ELSE [st EXCEPT !.title = n]
    BY DEF ParseLabel, n
  <1> QED BY <1>1, <1>2, <1>3, <1>4 DEF n

LEMMA ReadsCommand ==
    ASSUME NEW i, NEW t, NEW o, NEW words, NEW p, NEW id,
           ParseSessionCommand(words) = {[provider |-> p, command_id |-> id]}
    PROVE  ParseLine(State(i, t, o), TextLine(words)) =
             State(Append(i, SessionItem(p, id, IF t = NoName THEN ShortSessionId(id) ELSE t)), NoName, o)
  <1> DEFINE st == State(i, t, o)
             c == [provider |-> p, command_id |-> id]
             x == SessionItem(p, id, IF t = NoName THEN ShortSessionId(id) ELSE t)
             y == Append(i, x)
  <1>7. st = State(i, t, o)
    OBVIOUS
  <1>2. c.provider = p /\ c.command_id = id /\ st.items = i /\ st.title = t
    BY StateIs
  <1>3. (CHOOSE d \in {c} : TRUE) = c /\ {c} # {}
    OBVIOUS
  <1>4. ParseSessionCommand(words) = {c}
    OBVIOUS
  <1> HIDE DEF c, st, y
  <1>1. [st EXCEPT !.items = y, !.title = NoName] = State(y, NoName, o)
    <2> DEFINE e == [st EXCEPT !.items = y, !.title = NoName]
    <2>1. DOMAIN st = {"items", "title", "open"} /\ st.open = o
      BY <1>7, StateIs
    <2>2. /\ e = [k \in DOMAIN e |-> e[k]] /\ DOMAIN e = {"items", "title", "open"}
          /\ e.items = y /\ e.title = NoName /\ e.open = o
      BY <2>1
    <2> HIDE DEF e
    <2>3. e = State(y, NoName, o)
      BY <2>2, StateMade
    <2> QED BY <2>3 DEF e
  <1>5. ParseLine(st, TextLine(words)) = ParseCommand(st, c)
    BY <1>3, <1>4, ReadsText
  <1>6. ParseCommand(st, c) = [st EXCEPT !.items = y, !.title = NoName]
    BY <1>2 DEF ParseCommand, y
  <1> QED BY <1>1, <1>5, <1>6, <1>7 DEF y

-----------------------------------------------------------------------------
(* An item whose name the format can hold.                                 *)
Readable(x) ==
    /\ Keepable(x)
    /\ IsGroup(x) => ~Contains(x.name, Word("|"))
    /\ IsSession(x) => NormalizeLabel(x.name) = x.name /\ ParseSessionCommand(<<Word("#")>> \o x.name) = {}

Halfway(list, k) == State(SubSeq(list, 1, k - 1), list[k].name, OpenAt(list, k - 1))

LEMMA ReadGroup ==
    ASSUME NEW list, Whole(list), NEW k \in DOMAIN list, Readable(list[k]), IsGroup(list[k])
    PROVE  ParseLine(After(list, k - 1), HeaderLine(list[k].id, list[k].name, list[k].color)) = After(list, k)
  <1> DEFINE a == SubSeq(list, 1, k - 1)
             x == list[k]
  <1>1. OpenAt(list, k - 1) = NoGroup
    BY OpenBeforeGroup
  <1>2. Append(a, x) = SubSeq(list, 1, k)
    BY NextItem DEF Whole, IsItems
  <1>3. OpenAt(list, k) = x.id
    <2>1. k \in Nat /\ k # 0
      BY ListLength DEF Whole, IsItems
    <2>2. ~IsSession(x)
      BY Kinds DEF Whole, IsItems
    <2> QED BY <2>1, <2>2, OpenBehind
  <1>4. ~Contains(x.name, Word("|")) /\ GroupItem(x.id, GroupName(x.name), x.color) = x
    BY DEF Readable, Keepable
  <1> HIDE DEF a, x
  <1>5. ParseLine(State(a, NoName, NoGroup), HeaderLine(x.id, x.name, x.color))
          = State(Append(a, GroupItem(x.id, GroupName(x.name), x.color)), NoName, x.id)
    BY <1>4, ReadsHeader
  <1> QED BY <1>1, <1>2, <1>3, <1>4, <1>5 DEF After, a, x

LEMMA ReadEnd ==
    ASSUME NEW list, Whole(list), NEW k \in DOMAIN list, Readable(list[k]), IsGroupEnd(list[k])
    PROVE  ParseLine(After(list, k - 1), EndLine) = After(list, k)
  <1> DEFINE a == SubSeq(list, 1, k - 1)
             x == list[k]
  <1>1. OpenAt(list, k - 1) = x.id /\ x.id # NoGroup
    BY OpenBeforeEnd
  <1>2. Append(a, x) = SubSeq(list, 1, k)
    BY NextItem DEF Whole, IsItems
  <1>3. OpenAt(list, k) = NoGroup
    <2>1. k \in Nat /\ k # 0
      BY ListLength DEF Whole, IsItems
    <2>2. ~IsSession(x) /\ ~IsGroup(x)
      BY Kinds DEF Whole, IsItems
    <2> QED BY <2>1, <2>2, OpenBehind
  <1>4. GroupEndItem(x.id) = x
    BY DEF Readable, Keepable
  <1> HIDE DEF a, x
  <1>5. ParseLine(State(a, NoName, x.id), EndLine) = State(Append(a, GroupEndItem(x.id)), NoName, NoGroup)
    BY <1>1, ReadsEnd
  <1> QED BY <1>1, <1>2, <1>3, <1>4, <1>5 DEF After, a

LEMMA ReadTitle ==
    ASSUME NEW list, Whole(list), NEW k \in DOMAIN list, Readable(list[k]), IsSession(list[k])
    PROVE  ParseLine(After(list, k - 1), TitleOf(list[k])) = Halfway(list, k)
  <1> DEFINE a == SubSeq(list, 1, k - 1)
             x == list[k]
             o == OpenAt(list, k - 1)
             words == <<Word("#")>> \o x.name
  <1>1. /\ IsList(x.name) /\ x.name # NoName /\ NormalizeLabel(x.name) = x.name
        /\ ParseSessionCommand(words) = {}
    BY DEF Readable, Keepable
  <1>2. NormalizeLabel(words) = x.name
    BY <1>1, TitleRead
  <1>3. TitleOf(x) = TextLine(words)
    BY DEF TitleOf
  <1> HIDE DEF a, o, words, x
  <1>4. ParseLine(State(a, NoName, o), TextLine(words)) = State(a, x.name, o)
    BY <1>1, <1>2, ReadsLabel
  <1> QED BY <1>3, <1>4 DEF After, Halfway, a, o, x

LEMMA ReadCommand ==
    ASSUME NEW list, Whole(list), NEW k \in DOMAIN list, Readable(list[k]), IsSession(list[k])
    PROVE  ParseLine(Halfway(list, k), CommandLine(list[k])) = After(list, k)
  <1> DEFINE a == SubSeq(list, 1, k - 1)
             x == list[k]
             o == OpenAt(list, k - 1)
             words == ResumeCommand(x.provider, x.command_id)
  <1>1. /\ x.provider \in PROVIDERS /\ IsSessionId(x.command_id) /\ x.name # NoName
        /\ x.provider = "codex" => LowerCase(x.command_id) = x.command_id
        /\ x = SessionItem(x.provider, x.command_id, x.name)
    BY DEF Readable, Keepable
  <1>2. Append(a, x) = SubSeq(list, 1, k)
    BY NextItem DEF Whole, IsItems
  <1>3. OpenAt(list, k) = o
    <2>1. k \in Nat /\ k # 0
      BY ListLength DEF Whole, IsItems
    <2> QED BY <2>1, OpenBehindSession
  <1>4. ParseSessionCommand(words) = {[provider |-> x.provider, command_id |-> x.command_id]}
    BY <1>1, CommandFound
  <1>5. CommandLine(x) = TextLine(words)
    BY DEF CommandLine
  <1> HIDE DEF a, o, words, x
  <1>6. ParseLine(State(a, x.name, o), TextLine(words))
          = State(Append(a, SessionItem(x.provider, x.command_id, x.name)), NoName, o)
    BY <1>1, <1>4, ReadsCommand
  <1> QED BY <1>1, <1>2, <1>3, <1>5, <1>6 DEF After, Halfway, a, o, x

-----------------------------------------------------------------------------
(* Where the lines of an item are: behind the line at[k - 1], up to the    *)
(* line at[k].                                                             *)
Laid(at, list, f) ==
    /\ IsList(f) /\ at[0] = 0 /\ at[Len(list)] = Len(f)
    /\ \A k \in 0 .. Len(list) : at[k] \in Nat
    /\ \A k \in 0 .. Len(list) : \A i \in 0 .. k : at[i] <= at[k]
    /\ \A k \in 1 .. Len(list) :
         /\ at[k] = at[k - 1] + Len(RenderItem(list[k]))
         /\ \A j \in 1 .. Len(RenderItem(list[k])) : f[at[k - 1] + j] = RenderItem(list[k])[j]

LEMMA RenderedLaid ==
    ASSUME NEW list, IsList(list), \A k \in DOMAIN list : IsList(RenderItem(list[k]))
    PROVE  \E at : Laid(at, list, RenderMarkdownItems(list))
  <1> DEFINE n == Len(list)
             R(k) == RenderItem(list[k])
  <1>1. n \in Nat /\ DOMAIN list = 1 .. n
    BY ListLength
  <1>2. PICK run : /\ run[0] = <<>> /\ RenderMarkdownItems(list) = run[n]
                   /\ \A k \in 1 .. n : run[k] = run[k - 1] \o R(k)
    BY RenderedInTurn
  <1> DEFINE at == [k \in 0 .. n |-> Len(run[k])]
  <1>3. \A k \in 1 .. n : IsList(R(k)) /\ Len(R(k)) \in Nat
    BY <1>1, ListLength
  <1>4. \A k \in 0 .. n : at[k] = Len(run[k])
    OBVIOUS
  <1> HIDE DEF R, at
  <1> DEFINE Good(k) == /\ IsList(run[k]) /\ at[k] = Len(run[k]) /\ at[k] \in Nat
                        /\ \A i \in 0 .. k : at[i] \in Nat /\ at[i] <= at[k]
                        /\ \A i \in 1 .. k : /\ at[i] = at[i - 1] + Len(R(i))
                                             /\ \A j \in 1 .. Len(R(i)) : run[k][at[i - 1] + j] = R(i)[j]
             Bad == {k \in 0 .. n : ~Good(k)}
  <1>5. Good(0) /\ at[0] = 0
    <2>1. IsList(run[0]) /\ Len(run[0]) = 0
      BY <1>2, NoItems
    <2>2. at[0] = 0
      BY <1>1, <1>4, <2>1
    <2>3. (\A i \in 0 .. 0 : i = 0) /\ 1 .. 0 = {} /\ 0 \in Nat /\ 0 <= 0
      OBVIOUS
    <2> QED BY <2>1, <2>2, <2>3
  <1>6. ASSUME NEW k \in 1 .. n, Good(k - 1) PROVE Good(k)
    <2> DEFINE a == run[k - 1]
               b == R(k)
               c == run[k]
    <2>1. k \in Nat /\ k - 1 \in Nat /\ k \in 0 .. n /\ k - 1 \in 0 .. n
      BY <1>1
    <2>2. IsList(a) /\ at[k - 1] = Len(a) /\ Len(a) \in Nat /\ IsList(b) /\ Len(b) \in Nat
      BY <1>3, <1>6
    <2>3. c = a \o b
      BY <1>2
    <2>4. \A i \in 0 .. k - 1 : at[i] \in Nat /\ at[i] <= at[k - 1]
      BY <1>6
    <2>5. \A i \in 1 .. k - 1 : /\ at[i] = at[i - 1] + Len(R(i))
                                /\ \A j \in 1 .. Len(R(i)) : a[at[i - 1] + j] = R(i)[j]
      BY <1>6
    <2>6. at[k] = Len(c)
      BY <1>4, <2>1
    <2> HIDE DEF a, b, c, Good
    <2>7. /\ IsList(a \o b) /\ Len(a \o b) = Len(a) + Len(b)
          /\ \A i \in 1 .. Len(a) : (a \o b)[i] = a[i]
          /\ \A i \in 1 .. Len(b) : (a \o b)[Len(a) + i] = b[i]
      <3>1. IsList(a) /\ IsList(b)
        BY <2>2
      <3> QED BY <3>1, Joined
    <2>8. at[k] = at[k - 1] + Len(b) /\ at[k] \in Nat /\ IsList(c)
      BY <2>2, <2>3, <2>6, <2>7
    <2>9. \A i \in 0 .. k : at[i] \in Nat /\ at[i] <= at[k]
      <3>1. \A i \in 0 .. k : i = k \/ i \in 0 .. k - 1
        BY <2>1
      <3>2. at[k - 1] <= at[k] /\ at[k - 1] \in Nat /\ at[k] <= at[k]
        BY <2>2, <2>8
      <3>3. \A x \in Nat : x <= at[k - 1] => x <= at[k]
        BY <2>8, <3>2
      <3> QED BY <2>4, <2>8, <3>1, <3>2, <3>3
    <2>10. ASSUME NEW i \in 1 .. k - 1, NEW j \in 1 .. Len(R(i)) PROVE c[at[i - 1] + j] = R(i)[j]
      <3>1. i \in 1 .. n /\ i - 1 \in 0 .. k - 1 /\ i \in 0 .. k - 1
        BY <1>1, <2>1
      <3>2. at[i - 1] \in Nat /\ Len(R(i)) \in Nat /\ at[i] = at[i - 1] + Len(R(i)) /\ at[i] <= Len(a)
        BY <1>3, <2>2, <2>4, <2>5, <3>1
      <3>3. at[i - 1] + j \in 1 .. Len(a)
        <4> HIDE DEF R, n
        <4>1. at[i - 1] + j <= at[i]
          BY <3>2
        <4>2. at[i - 1] + j \in Nat /\ at[i - 1] + j >= 1 /\ at[i] \in Nat
          BY <3>2
        <4> QED BY <2>2, <3>2, <4>1, <4>2
      <3>4. c[at[i - 1] + j] = a[at[i - 1] + j]
        BY <2>3, <2>7, <3>3
      <3> QED BY <2>5, <3>4
    <2>11. ASSUME NEW j \in 1 .. Len(b) PROVE c[at[k - 1] + j] = b[j]
      BY <2>2, <2>3, <2>7
    <2>12. \A i \in 1 .. k : i = k \/ i \in 1 .. k - 1
      BY <2>1
    <2>13. ASSUME NEW i \in 1 .. k
           PROVE  /\ at[i] = at[i - 1] + Len(R(i))
                  /\ \A j \in 1 .. Len(R(i)) : c[at[i - 1] + j] = R(i)[j]
      <3>1. CASE i = k
        BY <2>8, <2>11, <3>1 DEF b
      <3>2. CASE i \in 1 .. k - 1
        BY <2>5, <2>10, <3>2
      <3> QED BY <2>12, <3>1, <3>2
    <2> QED BY <2>6, <2>8, <2>9, <2>13 DEF Good, c
  <1> HIDE DEF Good
  <1>7. Bad = {}
    <2> SUFFICES ASSUME Bad # {} PROVE FALSE
      OBVIOUS
    <2>1. Bad \in SUBSET Nat
      BY <1>1
    <2>2. PICK k \in Bad : \A t \in Bad : k <= t
      BY <2>1, LeastOf
    <2>3. k \in 0 .. n /\ ~Good(k)
      OBVIOUS
    <2>4. k # 0
      BY <1>5, <2>3
    <2>5. k - 1 \in 0 .. n /\ ~(k <= k - 1) /\ k \in 1 .. n
      BY <1>1, <2>3, <2>4
    <2>6. Good(k - 1)
      BY <2>2, <2>5
    <2> QED BY <1>6, <2>3, <2>5, <2>6
  <1>8. \A k \in 0 .. n : Good(k)
    BY <1>7
  <1>9. n \in 0 .. n
    BY <1>1
  <1>10. Laid(at, list, run[n])
    <2>1. \A k \in 0 .. n : at[k] \in Nat /\ \A i \in 0 .. k : at[i] <= at[k]
      BY <1>8 DEF Good
    <2>2. IsList(run[n]) /\ at[n] = Len(run[n])
          /\ \A i \in 1 .. n : /\ at[i] = at[i - 1] + Len(R(i))
                               /\ \A j \in 1 .. Len(R(i)) : run[n][at[i - 1] + j] = R(i)[j]
      BY <1>8, <1>9 DEF Good
    <2> QED BY <1>5, <2>1, <2>2 DEF Laid, R
  <1> QED BY <1>2, <1>10

-----------------------------------------------------------------------------
(* A run of the parser over the lines of g.                                *)
Run(run, g) == run[0] = ParseStart /\ \A k \in 1 .. Len(g) : run[k] = ParseLine(run[k - 1], g[k])

LEMMA RunsOver ==
    ASSUME NEW g, IsList(g)
    PROVE  \E run : Run(run, g) /\ ParseMarkdownItems(g) = CloseGroup(run[Len(g)]).items
  <1>1. PICK run : /\ run[0] = ParseStart /\ FoldLeft(ParseLine, ParseStart, g) = run[Len(g)]
                   /\ \A k \in 1 .. Len(g) : run[k] = ParseLine(run[k - 1], g[k])
    BY ParsedInTurn
  <1> QED BY <1>1 DEF Run, ParseMarkdownItems

LEMMA Starts ==
    ASSUME NEW list, IsList(list)
    PROVE  After(list, 0) = ParseStart
  <1>1. SubSeq(list, 1, 0) = <<>>
    <2> DEFINE a == SubSeq(list, 1, 0)
    <2>1. Len(list) \in Nat
      BY ListLength
    <2>2. 1 \in 1 .. Len(list) + 1 /\ 0 \in 1 - 1 .. Len(list)
      BY <2>1
    <2>3. IsList(a) /\ Len(a) = 0 - 1 + 1
      BY <2>2, PieceOf
    <2> HIDE DEF a
    <2>4. Len(a) = Len(<<>>) /\ IsList(<<>>) /\ \A i \in 1 .. Len(a) : a[i] = <<>>[i]
      BY <2>3, NoItems
    <2>5. a = <<>>
      BY <2>3, <2>4, ListsEqual
    <2> QED BY <2>5 DEF a
  <1> QED BY <1>1, OpenStart DEF After, State, ParseStart

(* After the lines of the first k items, these are what was read.          *)
LEMMA ItemsRead ==
    ASSUME NEW list, Whole(list), \A i \in DOMAIN list : Readable(list[i]),
           NEW at, NEW f, Laid(at, list, f), NEW g, IsList(g), NEW run, Run(run, g),
           NEW n \in 0 .. Len(list), at[n] <= Len(g), \A j \in 1 .. at[n] : g[j] = f[j]
    PROVE  run[at[n]] = After(list, n)
  <1> DEFINE Bad == {k \in 0 .. n : run[at[k]] # After(list, k)}
  <1>1. IsList(list) /\ Len(list) \in Nat /\ DOMAIN list = 1 .. Len(list) /\ Len(g) \in Nat /\ n \in Nat
    BY ListLength DEF Whole, IsItems
  <1>2. at[0] = 0 /\ at[n] \in Nat
    BY DEF Laid
  <1>3. Bad = {}
    <2> SUFFICES ASSUME Bad # {} PROVE FALSE
      OBVIOUS
    <2>1. Bad \in SUBSET Nat
      BY <1>1
    <2>2. PICK k \in Bad : \A t \in Bad : k <= t
      BY <2>1, LeastOf
    <2>3. k \in 0 .. n /\ run[at[k]] # After(list, k)
      OBVIOUS
    <2>4. run[0] = After(list, 0)
      BY <1>1, Starts DEF Run
    <2>5. k # 0
      BY <1>2, <2>3, <2>4
    <2>6. k - 1 \in 0 .. n /\ ~(k <= k - 1) /\ k \in 1 .. Len(list) /\ k \in 1 .. n
          /\ k \in 0 .. Len(list) /\ k - 1 \in 0 .. Len(list)
      BY <1>1, <2>3, <2>5
    <2>7. run[at[k - 1]] = After(list, k - 1)
      BY <2>2, <2>6
    <2> DEFINE m == at[k - 1]
               x == list[k]
               lines == RenderItem(x)
    <2>8. m \in Nat /\ at[k] \in Nat /\ at[k] <= at[n] /\ at[k] = m + Len(lines)
          /\ \A j \in 1 .. Len(lines) : f[m + j] = lines[j]
      BY <2>6 DEF Laid
    <2>9. Readable(x) /\ Keepable(x) /\ IsItem(x) /\ k \in DOMAIN list
      BY <1>1, <2>6 DEF Readable, Keepable
    <2>10. /\ IsGroup(x) => lines = <<HeaderLine(x.id, x.name, x.color)>>
           /\ IsGroupEnd(x) => lines = <<EndLine>>
           /\ IsSession(x) => lines = <<TitleOf(x), CommandLine(x)>>
      BY <2>9, LinesOf
    <2>11. IsGroup(x) => ParseLine(After(list, k - 1), HeaderLine(x.id, x.name, x.color)) = After(list, k)
      BY <2>9, ReadGroup
    <2>12. IsGroupEnd(x) => ParseLine(After(list, k - 1), EndLine) = After(list, k)
      BY <2>9, ReadEnd
    <2>13. IsSession(x) => /\ ParseLine(After(list, k - 1), TitleOf(x)) = Halfway(list, k)
                           /\ ParseLine(Halfway(list, k), CommandLine(x)) = After(list, k)
      BY <2>9, ReadTitle, ReadCommand
    <2> HIDE DEF m, x, lines
    <2>14. ASSUME NEW j \in Nat, j + 1 <= at[k] PROVE run[j + 1] = ParseLine(run[j], f[j + 1])
      <3>1. j + 1 \in 1 .. Len(g) /\ j + 1 \in 1 .. at[n] /\ (j + 1) - 1 = j
        BY <1>1, <1>2, <2>8, <2>14
      <3> QED BY <3>1 DEF Run
    <2>15. ASSUME NEW l, lines = <<l>>, ParseLine(After(list, k - 1), l) = After(list, k) PROVE FALSE
      <3>1. Len(lines) = 1 /\ lines[1] = l
        BY <2>15, OneItem
      <3>2. at[k] = m + 1 /\ f[m + 1] = l /\ m + 1 <= at[k]
        BY <2>8, <3>1
      <3>3. run[m + 1] = ParseLine(run[m], l)
        BY <2>8, <2>14, <3>2
      <3> QED BY <2>3, <2>7, <2>15, <3>2, <3>3 DEF m
    <2>16. ASSUME IsSession(x) PROVE FALSE
      <3>1. Len(lines) = 2 /\ lines[1] = TitleOf(x) /\ lines[2] = CommandLine(x)
        BY <2>10, <2>16, TwoItems
      <3>2. /\ at[k] = m + 2 /\ f[m + 1] = TitleOf(x) /\ f[m + 2] = CommandLine(x)
            /\ m + 1 <= at[k] /\ (m + 1) + 1 <= at[k] /\ (m + 1) + 1 = m + 2 /\ m + 1 \in Nat
        BY <2>8, <3>1
      <3>3. run[m + 1] = ParseLine(run[m], TitleOf(x))
        BY <2>8, <2>14, <3>2
      <3>4. run[(m + 1) + 1] = ParseLine(run[m + 1], f[(m + 1) + 1])
        BY <2>14, <3>2
      <3>5. run[m + 2] = ParseLine(run[m + 1], CommandLine(x))
        BY <3>2, <3>4
      <3> QED BY <2>3, <2>7, <2>13, <2>16, <3>2, <3>3, <3>5 DEF m
    <2> QED BY <2>9, <2>10, <2>11, <2>12, <2>15, <2>16, Kinds
  <1>4. n \in 0 .. n
    BY <1>1
  <1> QED BY <1>3, <1>4

-----------------------------------------------------------------------------
(* The first items of a list are what is read when their lines were.       *)
LEMMA FirstItemsClosed ==
    ASSUME NEW list, Whole(list), NEW n \in 0 .. Len(list), NEW t
    PROVE  CloseGroup(State(SubSeq(list, 1, n), t, OpenAt(list, n))).items = FirstItems(list, n)
  <1> DEFINE a == SubSeq(list, 1, n)
             g == GroupOf(list, n + 1)
  <1>1. IsItems(list) /\ IsList(list) /\ Len(list) \in Nat /\ DOMAIN list = 1 .. Len(list) /\ n \in Nat
    BY ListLength DEF Whole, IsItems
  <1>2. IsList(a)
    <2>1. 1 \in 1 .. Len(list) + 1 /\ n \in 1 - 1 .. Len(list)
      BY <1>1
    <2> QED BY <1>1, <2>1, PieceOf
  <1>3. g # 0 => list[g].id # NoGroup
    <2>1. n + 1 \in Nat /\ (n + 1) - 1 = n
      BY <1>1
    <2>2. CASE NoMarker(list, n + 1)
      BY <2>1, <2>2, GroupOfIs
    <2>3. CASE \E m \in Nat : LastMarker(list, n + 1, m)
      <3>1. PICK m \in Nat : LastMarker(list, n + 1, m)
        BY <2>3
      <3>2. g = IF IsGroup(list[m]) THEN m ELSE 0
        BY <2>1, <3>1, GroupOfIs
      <3>3. m \in DOMAIN list
        BY <1>1, <2>1, <3>1 DEF LastMarker
      <3>4. IsItem(list[m])
        BY <1>1, <3>3 DEF IsItems
      <3> QED BY <3>2, <3>4 DEF IsItem
    <2> QED BY <2>1, <2>2, <2>3, MarkerOrNone
  <1>4. OpenAt(list, n) = IF g = 0 THEN NoGroup ELSE list[g].id
    BY DEF OpenAt
  <1>5. FirstItems(list, n) = a \o (IF g = 0 THEN <<>> ELSE <<GroupEndItem(list[g].id)>>)
    BY DEF FirstItems
  <1> HIDE DEF a, g
  <1>6. CASE g = 0
    <2>1. OpenAt(list, n) = NoGroup
      BY <1>4, <1>6
    <2>2. CloseGroup(State(a, t, NoGroup)).items = a
      BY Closes, StateIs
    <2>3. a \o <<>> = a
      BY <1>2, ConcatEmptySeq DEF IsList
    <2> QED BY <1>5, <1>6, <2>1, <2>2, <2>3 DEF a
  <1>7. CASE g # 0
    <2> DEFINE o == list[g].id
               b == Append(a, GroupEndItem(o))
    <2>1. OpenAt(list, n) = o /\ o # NoGroup
      BY <1>3, <1>4, <1>7
    <2>2. FirstItems(list, n) = a \o <<GroupEndItem(o)>>
      BY <1>5, <1>7
    <2> HIDE DEF o
    <2>3. CloseGroup(State(a, t, o)) = State(b, t, NoGroup)
      BY <2>1, Closes
    <2> HIDE DEF b
    <2>6. CloseGroup(State(a, t, o)).items = b
      BY <2>3, StateIs
    <2>4. CloseGroup(State(a, t, o)).items = Append(a, GroupEndItem(o))
      BY <2>6 DEF b
    <2>5. Append(a, GroupEndItem(o)) = a \o <<GroupEndItem(o)>>
      BY <1>2, Appended
    <2> QED BY <2>1, <2>2, <2>4, <2>5 DEF a
  <1> QED BY <1>6, <1>7

LEMMA AllItems ==
    ASSUME NEW list, Whole(list)
    PROVE  FirstItems(list, Len(list)) = list
  <1>1. IsList(list) /\ Len(list) \in Nat
    BY ListLength DEF Whole, IsItems
  <1>2. Len(list) + 1 \in 1 .. Len(list) + 1
    BY <1>1
  <1>3. GroupOf(list, Len(list) + 1) = 0
    BY <1>2, NoneOpen
  <1>4. SubSeq(list, 1, Len(list)) = list
    BY <1>1, WholePiece
  <1>5. list \o <<>> = list
    BY <1>1, ConcatEmptySeq DEF IsList
  <1> QED BY <1>3, <1>4, <1>5 DEF FirstItems

-----------------------------------------------------------------------------
(* What is stored of a list, and the file it is stored in.                 *)
StoredList(list) == [i \in DOMAIN list |-> Stored(list[i])]
SavedFile(list) == RenderMarkdownItems(DeserializeItems(list))

LEMMA StoredWhole ==
    ASSUME NEW list, Whole(list), Made(list)
    PROVE  LET s == StoredList(list) IN
           /\ Whole(s) /\ Len(s) = Len(list) /\ DOMAIN s = DOMAIN list
           /\ \A i \in DOMAIN list : s[i] = Stored(list[i]) /\ Keepable(s[i])
  <1> DEFINE s == StoredList(list)
             S == {Stored(list[i]) : i \in DOMAIN list}
  <1>1. IsList(list) /\ Len(list) \in Nat /\ DOMAIN list = 1 .. Len(list)
    BY ListLength DEF Whole, IsItems
  <1>2. s = [i \in 1 .. Len(list) |-> Stored(list[i])]
    BY <1>1 DEF StoredList
  <1>3. \A i \in 1 .. Len(list) : Stored(list[i]) \in S
    BY <1>1
  <1>4. \A i \in DOMAIN list : s[i] = Stored(list[i])
    BY <1>1, <1>2
  <1> HIDE DEF S, s
  <1>5. s \in Seq(S)
    BY <1>1, <1>2, <1>3, IsASeq
  <1>6. DOMAIN s = 1 .. Len(list) /\ IsList(s)
    BY <1>2, <1>5 DEF IsList
  <1>7. Len(s) = Len(list)
    <2>1. Len(s) \in Nat /\ DOMAIN s = 1 .. Len(s)
      BY <1>6, ListLength
    <2> QED BY <1>1, <1>6, <2>1
  <1>8. \A i \in DOMAIN list : Keepable(s[i]) /\ s[i].kind = list[i].kind /\ s[i].id = list[i].id
    BY <1>4, StoredKeepable DEF Made
  <1>9. IsItems(s)
    BY <1>1, <1>6, <1>8 DEF IsItems, Keepable
  <1>10. Whole(s)
    BY <1>7, <1>8, <1>9, SameMarkers
  <1> QED BY <1>1, <1>4, <1>6, <1>7, <1>8, <1>10 DEF s

LEMMA SavedLaid ==
    ASSUME NEW list, Whole(list), Made(list)
    PROVE  \E at : Laid(at, StoredList(list), SavedFile(list))
  <1> DEFINE s == StoredList(list)
             d == DeserializeItems(list)
             S == {DeserializeItem(list[i]) : i \in DOMAIN list}
  <1>1. IsList(list) /\ Len(list) \in Nat /\ DOMAIN list = 1 .. Len(list)
    BY ListLength DEF Whole, IsItems
  <1>2. d = [i \in 1 .. Len(list) |-> DeserializeItem(list[i])]
    BY <1>1 DEF DeserializeItems
  <1>3. \A i \in 1 .. Len(list) : DeserializeItem(list[i]) \in S
    BY <1>1
  <1>4. \A i \in DOMAIN list : d[i] = DeserializeItem(list[i])
    BY <1>1, <1>2
  <1> HIDE DEF S, d
  <1>5. d \in Seq(S)
    BY <1>1, <1>2, <1>3, IsASeq
  <1>6. DOMAIN d = 1 .. Len(list) /\ IsList(d)
    BY <1>2, <1>5 DEF IsList
  <1>7. Len(d) = Len(list)
    <2>1. Len(d) \in Nat /\ DOMAIN d = 1 .. Len(d)
      BY <1>6, ListLength
    <2> QED BY <1>1, <1>6, <2>1
  <1>8. /\ Len(s) = Len(list)
        /\ \A i \in DOMAIN list : s[i] = Stored(list[i]) /\ Keepable(s[i])
    BY StoredWhole
  <1> HIDE DEF s
  <1>9. \A i \in DOMAIN list : RenderItem(d[i]) = RenderItem(s[i])
    BY <1>4, <1>8, StoredKeepable DEF Made
  <1>10. ASSUME NEW i \in DOMAIN d PROVE IsList(RenderItem(d[i]))
    <2>1. i \in DOMAIN list
      BY <1>1, <1>6
    <2>2. Keepable(s[i]) /\ IsItem(s[i])
      BY <1>8, <2>1 DEF Keepable
    <2>3. \A x, y : IsList(<<x>>) /\ IsList(<<x, y>>)
      BY OneItem, TwoItems
    <2>4. IsList(RenderItem(s[i]))
      BY <2>2, <2>3, LinesOf, Kinds
    <2> QED BY <1>9, <2>1, <2>4
  <1>11. PICK at : Laid(at, d, RenderMarkdownItems(d))
    BY <1>6, <1>10, RenderedLaid
  <1>12. Laid(at, s, RenderMarkdownItems(d))
    <2>1. Len(s) = Len(d)
      BY <1>7, <1>8
    <2>2. \A k \in 1 .. Len(d) : RenderItem(d[k]) = RenderItem(s[k])
      BY <1>1, <1>7, <1>9
    <2> QED BY <1>11, <2>1, <2>2 DEF Laid
  <1> QED BY <1>12 DEF SavedFile, s, d

LEMMA StorableRead ==
    ASSUME NEW x, WellMade(x), Storable(x)
    PROVE  Readable(Stored(x))
  <1> DEFINE s == Stored(x)
  <1>1. Keepable(s) /\ s.kind = x.kind
    BY StoredKeepable
  <1>2. (IsGroup(s) <=> IsGroup(x)) /\ (IsSession(s) <=> IsSession(x)) /\ IsItem(x)
    BY <1>1 DEF IsGroup, IsSession, WellMade
  <1>3. ~(IsGroup(x) /\ IsSession(x))
    BY <1>2, Kinds
  <1>4. /\ IsSession(x) => NormalizeLabel(s.name) = s.name /\ ParseSessionCommand(<<Word("#")>> \o s.name) = {}
        /\ ~IsSession(x) => ~Contains(s.name, Word("|"))
    BY DEF Storable
  <1> HIDE DEF s
  <1>5. Readable(s)
    BY <1>1, <1>2, <1>3, <1>4 DEF Readable
  <1> QED BY <1>5 DEF s

(* A list that was written as a whole is the list that is loaded.          *)
LEMMA WholeLoaded ==
    ASSUME NEW list, Whole(list), Made(list), \A i \in DOMAIN list : Storable(list[i])
    PROVE  ParseMarkdownItems(SavedFile(list)) = StoredList(list)
  <1> DEFINE s == StoredList(list)
             f == SavedFile(list)
  <1>1. /\ Whole(s) /\ Len(s) = Len(list) /\ DOMAIN s = DOMAIN list
        /\ \A i \in DOMAIN list : s[i] = Stored(list[i])
    BY StoredWhole
  <1>2. PICK at : Laid(at, s, f)
    BY SavedLaid
  <1> HIDE DEF s, f
  <1>3. \A i \in DOMAIN s : Readable(s[i])
    BY <1>1, StorableRead DEF Made
  <1>4. IsList(f) /\ at[Len(s)] = Len(f) /\ Len(f) \in Nat
    BY <1>2, ListLength DEF Laid
  <1>5. PICK run : Run(run, f) /\ ParseMarkdownItems(f) = CloseGroup(run[Len(f)]).items
    BY <1>4, RunsOver
  <1>6. Len(s) \in 0 .. Len(s) /\ Len(f) <= Len(f)
    BY <1>1, <1>4, ListLength DEF Whole, IsItems
  <1>7. run[at[Len(s)]] = After(s, Len(s))
    BY <1>1, <1>2, <1>3, <1>4, <1>5, <1>6, ItemsRead
  <1>8. ParseMarkdownItems(f) = FirstItems(s, Len(s))
    BY <1>1, <1>4, <1>5, <1>6, <1>7, FirstItemsClosed DEF After
  <1> QED BY <1>1, <1>8, AllItems DEF s, f

-----------------------------------------------------------------------------
(* A file ends behind an item, or behind the title of a session.           *)
LEMMA Located ==
    ASSUME NEW list, IsList(list), \A i \in DOMAIN list : Keepable(list[i]),
           NEW at, NEW f, Laid(at, list, f), NEW m \in 0 .. Len(f)
    PROVE  \E k \in 0 .. Len(list) :
             \/ at[k] = m
             \/ k < Len(list) /\ IsSession(list[k + 1]) /\ m = at[k] + 1
  <1> DEFINE Ks == {k \in 0 .. Len(list) : m <= at[k]}
  <1>1. Len(list) \in Nat /\ DOMAIN list = 1 .. Len(list) /\ Len(f) \in Nat
    BY ListLength DEF Laid
  <1>2. Len(list) \in Ks /\ Ks \in SUBSET Nat
    BY <1>1 DEF Laid
  <1>3. PICK k \in Ks : \A t \in Ks : k <= t
    BY <1>2, LeastOf
  <1>4. k \in 0 .. Len(list) /\ m <= at[k] /\ at[k] \in Nat /\ m \in Nat
    BY <1>1 DEF Laid
  <1>5. CASE at[k] = m
    BY <1>4, <1>5
  <1>6. CASE at[k] # m
    <2>1. k # 0
      BY <1>4, <1>6 DEF Laid
    <2>2. k \in 1 .. Len(list) /\ k - 1 \in 0 .. Len(list) /\ ~(k <= k - 1) /\ (k - 1) + 1 = k /\ k - 1 < Len(list)
      BY <1>1, <1>4, <2>1
    <2>3. k - 1 \notin Ks
      BY <1>3, <2>2
    <2>4. at[k - 1] \in Nat /\ at[k] = at[k - 1] + Len(RenderItem(list[k])) /\ ~(m <= at[k - 1])
      BY <2>2, <2>3 DEF Laid
    <2>5. Keepable(list[k]) /\ IsItem(list[k])
      BY <1>1, <2>2 DEF Keepable
    <2>6. \A x, y : Len(<<x>>) = 1 /\ Len(<<x, y>>) = 2
      BY OneItem, TwoItems
    <2>7. /\ ~IsSession(list[k]) => Len(RenderItem(list[k])) = 1
          /\ IsSession(list[k]) => Len(RenderItem(list[k])) = 2
      BY <2>5, <2>6, LinesOf, Kinds
    <2> DEFINE d == Len(RenderItem(list[k]))
               b == at[k - 1]
               c == at[k]
    <2>8. d = 1 \/ d = 2
      BY <2>7
    <2>9. b \in Nat /\ c = b + d /\ ~(m <= b) /\ m <= c /\ c # m
      BY <1>4, <1>6, <2>4
    <2> HIDE DEF d, b, c
    <2>10. d = 2 /\ m = b + 1
      BY <1>4, <2>8, <2>9
    <2>11. IsSession(list[k])
      BY <2>7, <2>10 DEF d
    <2> QED BY <2>2, <2>10, <2>11 DEF b
  <1> QED BY <1>5, <1>6

(* The lines of an item where they are.                                    *)
LEMMA LinesAt ==
    ASSUME NEW list, IsList(list), \A i \in DOMAIN list : Keepable(list[i]),
           NEW at, NEW f, Laid(at, list, f), NEW k \in 0 .. Len(list) - 1
    PROVE  /\ f[at[k] + 1] = RenderItem(list[k + 1])[1] /\ at[k] \in Nat /\ at[k] + 1 <= Len(f)
           /\ IsSession(list[k + 1]) =>
                /\ f[at[k] + 1] = TitleOf(list[k + 1]) /\ f[at[k] + 2] = CommandLine(list[k + 1])
                /\ at[k + 1] = at[k] + 2
  <1> DEFINE x == list[k + 1]
             lines == RenderItem(x)
             m == at[k]
  <1>1. Len(list) \in Nat /\ DOMAIN list = 1 .. Len(list) /\ Len(f) \in Nat
    BY ListLength DEF Laid
  <1>2. k + 1 \in 1 .. Len(list) /\ (k + 1) - 1 = k /\ k \in 0 .. Len(list) /\ k + 1 \in 0 .. Len(list)
        /\ Len(list) \in 0 .. Len(list)
    BY <1>1
  <1>3. m \in Nat /\ at[k + 1] = m + Len(lines) /\ at[k + 1] <= Len(f)
        /\ \A j \in 1 .. Len(lines) : f[m + j] = lines[j]
    BY <1>2 DEF Laid
  <1>4. Keepable(x) /\ IsItem(x)
    BY <1>1, <1>2 DEF Keepable
  <1>5. \A u, v : Len(<<u>>) = 1 /\ Len(<<u, v>>) = 2 /\ <<u, v>>[1] = u /\ <<u, v>>[2] = v
    BY OneItem, TwoItems
  <1>6. /\ ~IsSession(x) => Len(lines) = 1
        /\ IsSession(x) => Len(lines) = 2 /\ lines[1] = TitleOf(x) /\ lines[2] = CommandLine(x)
    BY <1>4, <1>5, LinesOf, Kinds
  <1> HIDE DEF x, lines, m
  <1>7. CASE ~IsSession(x)
    <2>2. Len(lines) = 1
      BY <1>6, <1>7
    <2>1. 1 \in 1 .. Len(lines) /\ m + 1 <= Len(f)
      BY <1>1, <1>3, <2>2
    <2> QED BY <1>3, <1>7, <2>1 DEF x, lines, m
  <1>8. CASE IsSession(x)
    <2>2. Len(lines) = 2
      BY <1>6, <1>8
    <2>1. 1 \in 1 .. Len(lines) /\ 2 \in 1 .. Len(lines) /\ m + 1 <= Len(f) /\ at[k + 1] = m + 2
      BY <1>1, <1>3, <2>2
    <2> QED BY <1>3, <1>6, <1>8, <2>1 DEF x, lines, m
  <1> QED BY <1>7, <1>8

LEMMA SameOpen ==
    ASSUME NEW a, NEW b, NEW k \in Nat, \A i \in 1 .. k : a[i] = b[i]
    PROVE  OpenAt(a, k) = OpenAt(b, k)
  <1>1. k + 1 \in Nat /\ (k + 1) - 1 = k
    OBVIOUS
  <1>2. CASE NoMarker(a, k + 1)
    <2>1. NoMarker(b, k + 1)
      BY <1>1, <1>2 DEF NoMarker
    <2>2. GroupOf(a, k + 1) = 0 /\ GroupOf(b, k + 1) = 0
      BY <1>1, <1>2, <2>1, GroupOfIs
    <2> QED BY <2>2 DEF OpenAt
  <1>3. CASE \E m \in Nat : LastMarker(a, k + 1, m)
    <2>1. PICK m \in Nat : LastMarker(a, k + 1, m)
      BY <1>3
    <2>2. m \in 1 .. k /\ a[m] = b[m]
      BY <1>1, <2>1 DEF LastMarker
    <2>3. \A j \in m + 1 .. k : j \in 1 .. k
      BY <2>2
    <2>4. LastMarker(b, k + 1, m)
      BY <1>1, <2>1, <2>2, <2>3 DEF LastMarker
    <2>5. /\ GroupOf(a, k + 1) = IF IsGroup(a[m]) THEN m ELSE 0
          /\ GroupOf(b, k + 1) = IF IsGroup(b[m]) THEN m ELSE 0
      BY <1>1, <2>1, <2>4, GroupOfIs
    <2>6. m # 0
      BY <2>2
    <2> QED BY <2>2, <2>5, <2>6 DEF OpenAt
  <1> QED BY <1>1, <1>2, <1>3, MarkerOrNone

(* A list whose last session has lost the end of its id.                   *)
LEMMA CutIdOf ==
    ASSUME NEW list, Whole(list), NEW n \in DOMAIN list, IsSession(list[n]), Keepable(list[n])
    PROVE  LET c == CutId(list, n)
               x == SessionItem(list[n].provider, "cut", list[n].name) IN
           /\ Whole(c) /\ Len(c) = Len(list)
           /\ SubSeq(c, 1, n) = Append(SubSeq(list, 1, n - 1), x)
           /\ OpenAt(c, n) = OpenAt(list, n - 1)
  <1> DEFINE x == SessionItem(list[n].provider, "cut", list[n].name)
             y == [list[n] EXCEPT !.command_id = "cut"]
             c == CutId(list, n)
  <1>1. IsItems(list) /\ IsList(list) /\ Len(list) \in Nat /\ DOMAIN list = 1 .. Len(list) /\ n \in Nat /\ n # 0
    BY ListLength DEF Whole, IsItems
  <1>2. x = y
    <2> DEFINE r == list[n]
    <2>1. r = SessionItem(r.provider, r.command_id, r.name)
      BY DEF Keepable
    <2> DEFINE p == r.provider
               i == r.command_id
               m == r.name
               e == [r EXCEPT !.command_id = "cut"]
    <2> HIDE DEF p, i, m
    <2>2. r = SessionItem(p, i, m)
      BY <2>1 DEF p, i, m
    <2> HIDE DEF r
    <2>3. /\ DOMAIN r = {"kind", "id", "name", "command_id", "color", "provider"}
          /\ r.kind = "session" /\ r.id = <<>> /\ r.name = m /\ r.color = "" /\ r.provider = p
      BY <2>2 DEF SessionItem
    <2>4. /\ DOMAIN e = {"kind", "id", "name", "command_id", "color", "provider"}
          /\ e.kind = "session" /\ e.id = <<>> /\ e.name = m /\ e.color = "" /\ e.provider = p
          /\ e.command_id = "cut" /\ e = [k \in DOMAIN e |-> e[k]]
      BY <2>3
    <2> HIDE DEF e
    <2>5. e = SessionItem(p, "cut", m)
      BY <2>4 DEF SessionItem
    <2> QED BY <2>5 DEF e, p, m, r
  <1>3. c = [list EXCEPT ![n] = y]
    BY DEF CutId
  <1>4. PICK S : list \in Seq(S)
    BY <1>1 DEF IsList
  <1>5. list \in Seq(S \cup {x})
    BY <1>4, SeqMonotonic
  <1>6. IsItem(x) /\ IsSession(x) /\ x.kind = list[n].kind /\ x.id = list[n].id
    <2>1. IsItem(x) /\ IsSession(x)
      BY NewItems
    <2>2. \A p, i, m : SessionItem(p, i, m).kind = "session" /\ SessionItem(p, i, m).id = <<>>
      BY DEF SessionItem
    <2>3. list[n] = SessionItem(list[n].provider, list[n].command_id, list[n].name)
      BY DEF Keepable
    <2> QED BY <2>1, <2>2, <2>3
  <1> HIDE DEF x, y, c
  <1>7. /\ c \in Seq(S \cup {x}) /\ Len(c) = Len(list)
        /\ \A j \in 1 .. Len(list) : c[j] = IF j = n THEN x ELSE list[j]
    BY <1>1, <1>2, <1>3, <1>5, ExceptSeq
  <1>8. IsList(c) /\ DOMAIN c = DOMAIN list
    BY <1>1, <1>7, ListLength DEF IsList
  <1>9. IsItems(c)
    BY <1>1, <1>6, <1>7, <1>8 DEF IsItems
  <1>10. \A j \in DOMAIN list : c[j].kind = list[j].kind /\ c[j].id = list[j].id
    BY <1>1, <1>6, <1>7
  <1>11. Whole(c)
    BY <1>7, <1>9, <1>10, SameMarkers
  <1>12. c[n] = x /\ n \in DOMAIN c
    BY <1>1, <1>7, <1>8
  <1>13. \A i \in 1 .. n - 1 : c[i] = list[i]
    BY <1>1, <1>7
  <1>14. SubSeq(c, 1, n - 1) = SubSeq(list, 1, n - 1)
    <2> DEFINE u == SubSeq(c, 1, n - 1)
               v == SubSeq(list, 1, n - 1)
    <2>1. 1 \in 1 .. Len(list) + 1 /\ n - 1 \in 1 - 1 .. Len(list)
      BY <1>1
    <2>2. IsList(u) /\ Len(u) = n - 1 - 1 + 1 /\ \A i \in 1 .. n - 1 - 1 + 1 : u[i] = c[1 + i - 1]
      BY <1>7, <1>8, <2>1, PieceOf
    <2>3. IsList(v) /\ Len(v) = n - 1 - 1 + 1 /\ \A i \in 1 .. n - 1 - 1 + 1 : v[i] = list[1 + i - 1]
      BY <1>1, <2>1, PieceOf
    <2> HIDE DEF u, v
    <2>4. \A i \in 1 .. n - 1 - 1 + 1 : i \in 1 .. n - 1 /\ 1 + i - 1 = i
      BY <1>1
    <2>5. \A i \in 1 .. Len(u) : u[i] = v[i]
      BY <1>13, <2>2, <2>3, <2>4
    <2>6. u = v
      BY <2>2, <2>3, <2>5, ListsEqual
    <2> QED BY <2>6 DEF u, v
  <1>15. SubSeq(c, 1, n) = Append(SubSeq(list, 1, n - 1), x)
    BY <1>8, <1>12, <1>14, NextItem
  <1>16. OpenAt(c, n) = OpenAt(list, n - 1)
    <2>1. OpenAt(c, n) = OpenAt(c, n - 1)
      BY <1>1, <1>6, <1>12, OpenBehindSession
    <2>2. n - 1 \in Nat
      BY <1>1
    <2>3. OpenAt(c, n - 1) = OpenAt(list, n - 1)
      BY <1>13, <2>2, SameOpen
    <2> QED BY <2>1, <2>3
  <1> QED BY <1>7, <1>11, <1>15, <1>16 DEF c, x

-----------------------------------------------------------------------------
(* A file that was cut: its first lines, and perhaps a part of one more.   *)
LEMMA FirstLines ==
    ASSUME NEW f, IsList(f), NEW m \in 0 .. Len(f)
    PROVE  /\ IsList(SubSeq(f, 1, m)) /\ Len(SubSeq(f, 1, m)) = m
           /\ \A j \in 1 .. m : SubSeq(f, 1, m)[j] = f[j]
  <1> DEFINE u == SubSeq(f, 1, m)
  <1>1. Len(f) \in Nat
    BY ListLength
  <1>2. 1 \in 1 .. Len(f) + 1 /\ m \in 1 - 1 .. Len(f) /\ m - 1 + 1 = m
    BY <1>1
  <1>3. IsList(u) /\ Len(u) = m - 1 + 1 /\ \A i \in 1 .. m - 1 + 1 : u[i] = f[1 + i - 1]
    BY <1>2, PieceOf
  <1> HIDE DEF u
  <1>4. \A j \in 1 .. m : 1 + j - 1 = j
    OBVIOUS
  <1>5. IsList(u) /\ Len(u) = m /\ \A j \in 1 .. m : u[j] = f[j]
    BY <1>2, <1>3, <1>4
  <1> QED BY <1>5 DEF u

LEMMA LinesAndPart ==
    ASSUME NEW f, IsList(f), NEW m \in 0 .. Len(f), NEW part
    PROVE  LET g == Append(SubSeq(f, 1, m), part) IN
           /\ IsList(g) /\ Len(g) = m + 1 /\ g[m + 1] = part
           /\ \A j \in 1 .. m : g[j] = f[j]
  <1> DEFINE u == SubSeq(f, 1, m)
             g == Append(u, part)
  <1>1. IsList(u) /\ Len(u) = m /\ \A j \in 1 .. m : u[j] = f[j]
    BY FirstLines
  <1> HIDE DEF u
  <1>2. /\ IsList(g) /\ Len(g) = Len(u) + 1 /\ g[Len(u) + 1] = part
        /\ \A i \in 1 .. Len(u) : g[i] = u[i]
    BY <1>1, ListAppended
  <1> HIDE DEF g
  <1>3. IsList(g) /\ Len(g) = m + 1 /\ g[m + 1] = part /\ \A j \in 1 .. m : g[j] = f[j]
    BY <1>1, <1>2
  <1> QED BY <1>3 DEF g, u

LEMMA PartsAreText ==
    ASSUME NEW l, NEW part \in Parts(l)
    PROVE  part = TextLine(part.words)
  <1>1. PICK words : part = TextLine(words)
    BY DEF Parts
  <1>2. TextLine(words).words = words
    BY DEF TextLine
  <1> QED BY <1>1, <1>2

(* The first items of a list, of which the last may have lost the end of   *)
(* its id.                                                                 *)
FirstOnes(list, s) ==
    \E n \in 0 .. Len(list) :
      \/ s = FirstItems(list, n)
      \/ n > 0 /\ IsSession(list[n]) /\ s = FirstItems(CutId(list, n), n)

(* What is read of a file that ends behind one of its lines.               *)
LEMMA LinesLoaded ==
    ASSUME NEW list, Whole(list), \A i \in DOMAIN list : Readable(list[i]),
           NEW at, NEW f, Laid(at, list, f), NEW m \in 0 .. Len(f)
    PROVE  FirstOnes(list, ParseMarkdownItems(SubSeq(f, 1, m)))
  <1> DEFINE g == SubSeq(f, 1, m)
  <1>1. IsList(list) /\ Len(list) \in Nat /\ DOMAIN list = 1 .. Len(list) /\ IsList(f) /\ Len(f) \in Nat /\ m \in Nat
    BY ListLength DEF Whole, IsItems, Laid
  <1>2. \A i \in DOMAIN list : Keepable(list[i])
    BY DEF Readable
  <1>3. IsList(g) /\ Len(g) = m /\ \A j \in 1 .. m : g[j] = f[j]
    BY <1>1, FirstLines
  <1> HIDE DEF g
  <1>4. PICK run : Run(run, g) /\ ParseMarkdownItems(g) = CloseGroup(run[Len(g)]).items
    BY <1>3, RunsOver
  <1>5. PICK k \in 0 .. Len(list) :
          at[k] = m \/ (k < Len(list) /\ IsSession(list[k + 1]) /\ m = at[k] + 1)
    BY <1>1, <1>2, Located
  <1>6. at[k] \in Nat /\ at[k] <= Len(g) /\ \A j \in 1 .. at[k] : g[j] = f[j]
    <2>1. at[k] \in Nat
      BY DEF Laid
    <2> QED BY <1>1, <1>3, <1>5, <2>1
  <1>7. run[at[k]] = After(list, k)
    BY <1>3, <1>4, <1>6, ItemsRead
  <1>8. CASE at[k] = m
    <2>1. ParseMarkdownItems(g) = FirstItems(list, k)
      BY <1>3, <1>4, <1>7, <1>8, FirstItemsClosed DEF After
    <2> QED BY <2>1 DEF FirstOnes, g
  <1>9. CASE k < Len(list) /\ IsSession(list[k + 1]) /\ m = at[k] + 1
    <2>1. k \in 0 .. Len(list) - 1 /\ k + 1 \in DOMAIN list /\ (k + 1) - 1 = k
      BY <1>1, <1>9
    <2>2. f[m] = TitleOf(list[k + 1])
      BY <1>1, <1>2, <1>9, <2>1, LinesAt
    <2>3. m \in 1 .. Len(g) /\ m - 1 = at[k] /\ m \in 1 .. m
      BY <1>3, <1>6, <1>9
    <2>4. run[m] = ParseLine(After(list, k), TitleOf(list[k + 1]))
      BY <1>3, <1>4, <1>7, <2>2, <2>3 DEF Run
    <2>5. run[m] = Halfway(list, k + 1)
      BY <1>9, <2>1, <2>4, ReadTitle
    <2>6. run[m] = State(SubSeq(list, 1, k), list[k + 1].name, OpenAt(list, k))
      BY <2>1, <2>5 DEF Halfway
    <2>7. ParseMarkdownItems(g) = FirstItems(list, k)
      BY <1>3, <1>4, <2>6, FirstItemsClosed
    <2> QED BY <2>7 DEF FirstOnes, g
  <1> QED BY <1>5, <1>8, <1>9

(* What is read of a file that ends in one of its lines.                   *)
LEMMA PartLoaded ==
    ASSUME NEW list, Whole(list), \A i \in DOMAIN list : Readable(list[i]),
           \A i \in DOMAIN list : \A part \in Parts(RenderItem(list[i])[1]) : ParseSessionCommand(part.words) = {},
           NEW at, NEW f, Laid(at, list, f), NEW m \in 0 .. Len(f) - 1, NEW part \in Parts(f[m + 1])
    PROVE  FirstOnes(list, ParseMarkdownItems(Append(SubSeq(f, 1, m), part)))
  <1> DEFINE g == Append(SubSeq(f, 1, m), part)
             words == part.words
  <1>1. IsList(list) /\ Len(list) \in Nat /\ DOMAIN list = 1 .. Len(list) /\ IsList(f) /\ Len(f) \in Nat
        /\ m \in Nat /\ m \in 0 .. Len(f)
    BY ListLength DEF Whole, IsItems, Laid
  <1>2. \A i \in DOMAIN list : Keepable(list[i])
    BY DEF Readable
  <1>3. IsList(g) /\ Len(g) = m + 1 /\ g[m + 1] = part /\ \A j \in 1 .. m : g[j] = f[j]
    BY <1>1, LinesAndPart
  <1>10. part = TextLine(words)
    BY PartsAreText
  <1> HIDE DEF g, words
  <1>4. PICK run : Run(run, g) /\ ParseMarkdownItems(g) = CloseGroup(run[Len(g)]).items
    BY <1>3, RunsOver
  <1>5. PICK k \in 0 .. Len(list) :
          at[k] = m \/ (k < Len(list) /\ IsSession(list[k + 1]) /\ m = at[k] + 1)
    BY <1>1, <1>2, Located
  <1>6. at[k] \in Nat /\ at[k] <= Len(g) /\ \A j \in 1 .. at[k] : g[j] = f[j]
    <2>1. at[k] \in Nat
      BY DEF Laid
    <2> QED BY <1>1, <1>3, <1>5, <2>1
  <1>7. run[at[k]] = After(list, k)
    BY <1>3, <1>4, <1>6, ItemsRead
  <1>8. k < Len(list)
    <2>1. ASSUME k = Len(list) PROVE at[k] = Len(f)
      BY <2>1 DEF Laid
    <2> QED BY <1>1, <1>5, <2>1
  <1>9. k \in 0 .. Len(list) - 1 /\ k + 1 \in DOMAIN list /\ (k + 1) - 1 = k /\ k + 1 \in 0 .. Len(list) /\ k + 1 > 0
    BY <1>1, <1>8
  <1>11. run[m + 1] = ParseLine(run[m], TextLine(words))
    <2>1. m + 1 \in 1 .. Len(g) /\ (m + 1) - 1 = m
      BY <1>1, <1>3
    <2> QED BY <1>3, <1>4, <1>10, <2>1 DEF Run
  <1>12. ParseMarkdownItems(g) = CloseGroup(run[m + 1]).items
    BY <1>3, <1>4
  <1> DEFINE a == SubSeq(list, 1, k)
             o == OpenAt(list, k)
  <1>13. \A t : CloseGroup(State(a, t, o)).items = FirstItems(list, k)
    BY FirstItemsClosed
  <1>14. ASSUME NEW t, run[m] = State(a, t, o), ParseSessionCommand(words) = {}
         PROVE  FirstOnes(list, ParseMarkdownItems(g))
    <2> HIDE DEF a, o
    <2>1. PICK u : run[m + 1] = State(a, u, o)
      BY <1>11, <1>14, ReadsLabel
    <2>2. ParseMarkdownItems(g) = FirstItems(list, k)
      BY <1>12, <1>13, <2>1
    <2> QED BY <2>2 DEF FirstOnes
  <1>15. CASE at[k] = m
    <2>1. f[m + 1] = RenderItem(list[k + 1])[1]
      BY <1>1, <1>2, <1>9, <1>15, LinesAt
    <2>2. ParseSessionCommand(words) = {}
      BY <1>9, <2>1 DEF words
    <2>3. run[m] = State(a, NoName, o)
      BY <1>7, <1>15 DEF After
    <2> QED BY <1>14, <2>2, <2>3 DEF g
  <1>16. CASE IsSession(list[k + 1]) /\ m = at[k] + 1
    <2> DEFINE x == list[k + 1]
               p == x.provider
               id == x.command_id
               c == CutId(list, k + 1)
               y == SessionItem(p, "cut", x.name)
    <2>1. f[at[k] + 1] = TitleOf(x) /\ f[at[k] + 2] = CommandLine(x)
      <3>1. IsSession(x)
        BY <1>16
      <3>2. IsList(list) /\ k \in 0 .. Len(list) - 1
        BY <1>1, <1>9
      <3>3. IsSession(list[k + 1]) => /\ f[at[k] + 1] = TitleOf(list[k + 1])
                                      /\ f[at[k] + 2] = CommandLine(list[k + 1])
        BY <1>2, <3>2, LinesAt
      <3> QED BY <3>1, <3>3
    <2>2. m \in 1 .. Len(g) /\ m - 1 = at[k] /\ at[k] + 2 = m + 1 /\ m \in 1 .. m
      <3>1. m = at[k] + 1 /\ at[k] \in Nat /\ Len(g) = m + 1
        BY <1>3, <1>6, <1>16
      <3> QED BY <3>1
    <2>3. run[m] = Halfway(list, k + 1)
      <3>1. run[m] = ParseLine(After(list, k), TitleOf(x))
        BY <1>3, <1>4, <1>7, <1>16, <2>1, <2>2 DEF Run
      <3> QED BY <1>9, <1>16, <3>1, ReadTitle
    <2>4. run[m] = State(a, x.name, o)
      BY <1>9, <2>3 DEF Halfway
    <2>5. /\ p \in PROVIDERS /\ IsSessionId(id) /\ x.name # NoName /\ (p = "codex" => LowerCase(id) = id)
          /\ x = SessionItem(p, id, x.name) /\ Keepable(x)
      BY <1>2, <1>9, <1>16 DEF Keepable
    <2>6. part \in Parts(TextLine(ResumeCommand(p, id)))
      BY <2>1, <2>2 DEF CommandLine
    <2>7. ParseSessionCommand(words) \in
            {{}, {[provider |-> p, command_id |-> id]}, {[provider |-> p, command_id |-> "cut"]}}
      BY <2>5, <2>6, CommandCut DEF words
    <2>8. Append(a, x) = SubSeq(list, 1, k + 1) /\ OpenAt(list, k + 1) = o
      <3>1. k + 1 \in Nat /\ k + 1 # 0
        BY <1>1, <1>9
      <3>2. OpenAt(list, k + 1) = OpenAt(list, (k + 1) - 1)
        BY <1>16, <3>1, OpenBehindSession
      <3>3. Append(SubSeq(list, 1, (k + 1) - 1), x) = SubSeq(list, 1, k + 1)
        BY <1>1, <1>9, NextItem
      <3> QED BY <1>9, <3>2, <3>3
    <2>9. Whole(c) /\ Len(c) = Len(list) /\ SubSeq(c, 1, k + 1) = Append(a, y) /\ OpenAt(c, k + 1) = o
      BY <1>9, <1>16, <2>5, CutIdOf
    <2> HIDE DEF a, o, p, id, c, y
    <2>10. CASE ParseSessionCommand(words) = {}
      BY <1>14, <2>4, <2>10 DEF g
    <2>11. CASE ParseSessionCommand(words) = {[provider |-> p, command_id |-> id]}
      <3>4. run[m + 1] = State(Append(a, SessionItem(p, id, x.name)), NoName, o)
        <4> HIDE DEF x
        <4>1. ParseLine(State(a, x.name, o), TextLine(words)) =
                State(Append(a, SessionItem(p, id, IF x.name = NoName THEN ShortSessionId(id) ELSE x.name)),
                      NoName, o)
          BY <2>11, ReadsCommand
        <4> QED BY <1>11, <2>4, <2>5, <4>1
      <3>1. run[m + 1] = State(Append(a, x), NoName, o)
        BY <2>5, <3>4
      <3>2. run[m + 1] = State(SubSeq(list, 1, k + 1), NoName, OpenAt(list, k + 1))
        BY <2>8, <3>1
      <3>3. ParseMarkdownItems(g) = FirstItems(list, k + 1)
        BY <1>9, <1>12, <3>2, FirstItemsClosed
      <3> QED BY <1>9, <3>3 DEF FirstOnes, g
    <2>12. CASE ParseSessionCommand(words) = {[provider |-> p, command_id |-> "cut"]}
      <3>1. run[m + 1] = State(Append(a, y), NoName, o)
        <4> HIDE DEF x
        <4>1. ParseLine(State(a, x.name, o), TextLine(words)) =
                State(Append(a, SessionItem(p, "cut", IF x.name = NoName THEN ShortSessionId("cut")
                                                      ELSE x.name)), NoName, o)
          BY <2>12, ReadsCommand
        <4> QED BY <1>11, <2>4, <2>5, <4>1 DEF y
      <3>2. run[m + 1] = State(SubSeq(c, 1, k + 1), NoName, OpenAt(c, k + 1))
        BY <2>9, <3>1
      <3>3. ParseMarkdownItems(g) = FirstItems(c, k + 1)
        BY <1>9, <1>12, <2>9, <3>2, FirstItemsClosed
      <3> QED BY <1>9, <1>16, <3>3 DEF FirstOnes, g, c
    <2> QED BY <2>7, <2>10, <2>11, <2>12
  <1> QED BY <1>5, <1>15, <1>16

LEMMA CutLoaded ==
    ASSUME NEW list, Whole(list), Made(list), \A i \in DOMAIN list : Storable(list[i]),
           \A i \in DOMAIN list : SafelyCut(list[i]), NEW g \in CutFiles(SavedFile(list))
    PROVE  FirstOnes(StoredList(list), ParseMarkdownItems(g))
  <1> DEFINE s == StoredList(list)
             f == SavedFile(list)
  <1>1. /\ Whole(s) /\ Len(s) = Len(list) /\ DOMAIN s = DOMAIN list
        /\ \A i \in DOMAIN list : s[i] = Stored(list[i])
    BY StoredWhole
  <1>2. PICK at : Laid(at, s, f)
    BY SavedLaid
  <1> HIDE DEF s, f
  <1>3. \A i \in DOMAIN s : Readable(s[i])
    BY <1>1, StorableRead DEF Made
  <1>4. \A i \in DOMAIN s : \A part \in Parts(RenderItem(s[i])[1]) : ParseSessionCommand(part.words) = {}
    BY <1>1 DEF SafelyCut
  <1>5. CASE g \in {SubSeq(f, 1, m) : m \in 0 .. Len(f)}
    BY <1>1, <1>2, <1>3, <1>5, LinesLoaded DEF s
  <1>6. CASE g \notin {SubSeq(f, 1, m) : m \in 0 .. Len(f)}
    <2>1. g \in UNION {{Append(SubSeq(f, 1, m), part) : part \in Parts(f[m + 1])} : m \in 0 .. Len(f) - 1}
      BY <1>6 DEF CutFiles, f
    <2>2. PICK m \in 0 .. Len(f) - 1 : g \in {Append(SubSeq(f, 1, m), part) : part \in Parts(f[m + 1])}
      BY <2>1
    <2>3. PICK part \in Parts(f[m + 1]) : g = Append(SubSeq(f, 1, m), part)
      BY <2>2
    <2> QED BY <1>1, <1>2, <1>3, <1>4, <2>3, PartLoaded DEF s
  <1> QED BY <1>5, <1>6

-----------------------------------------------------------------------------
(* No line takes a session from the list, whatever the names are.          *)
LEMMA AppendKeepsIds ==
    ASSUME NEW a, IsItems(a), NEW x, IsItem(x)
    PROVE  /\ SessionIds(a) \subseteq SessionIds(Append(a, x)) /\ IsItems(Append(a, x))
           /\ IsSession(x) => <<x.provider, x.command_id>> \in SessionIds(Append(a, x))
  <1> DEFINE b == Append(a, x)
  <1>1. /\ IsItems(b) /\ Len(b) = Len(a) + 1 /\ b[Len(a) + 1] = x
        /\ \A i \in DOMAIN a : b[i] = a[i]
    BY AppendedItem
  <1> HIDE DEF b
  <1>2. Len(a) \in Nat /\ DOMAIN a = 1 .. Len(a) /\ DOMAIN b = 1 .. Len(a) + 1
    BY <1>1, ListLength DEF IsItems
  <1>3. (\A i \in DOMAIN a : i \in DOMAIN b) /\ Len(a) + 1 \in DOMAIN b
    BY <1>2
  <1>4. SessionIds(a) \subseteq SessionIds(b)
    BY <1>1, <1>3 DEF SessionIds
  <1>5. IsSession(x) => <<x.provider, x.command_id>> \in SessionIds(b)
    BY <1>1, <1>3 DEF SessionIds
  <1> QED BY <1>1, <1>4, <1>5 DEF b

LEMMA CloseKeepsIds ==
    ASSUME NEW st, ParseOK(st)
    PROVE  SessionIds(st.items) \subseteq SessionIds(CloseGroup(st).items) /\ IsItems(CloseGroup(st).items)
  <1>1. DOMAIN st = {"items", "title", "open"} /\ IsItems(st.items)
    BY DEF ParseOK
  <1>2. IsItem(GroupEndItem(st.open))
    BY NewItems
  <1>3. CloseGroup(st).items = IF st.open = NoGroup THEN st.items ELSE Append(st.items, GroupEndItem(st.open))
    BY <1>1, ClosedGroup
  <1> QED BY <1>1, <1>2, <1>3, AppendKeepsIds

LEMMA CommandKeepsIds ==
    ASSUME NEW st, ParseOK(st), NEW command
    PROVE  /\ SessionIds(st.items) \subseteq SessionIds(ParseCommand(st, command).items)
           /\ <<command.provider, command.command_id>> \in SessionIds(ParseCommand(st, command).items)
  <1> DEFINE name == IF st.title = NoName THEN ShortSessionId(command.command_id) ELSE st.title
             x == SessionItem(command.provider, command.command_id, name)
  <1>1. DOMAIN st = {"items", "title", "open"} /\ IsItems(st.items)
    BY DEF ParseOK
  <1>2. IsItem(x) /\ IsSession(x) /\ x.provider = command.provider /\ x.command_id = command.command_id
    <2>1. IsItem(x)
      BY NewItems
    <2> QED BY <2>1, SessionsAre
  <1>3. ParseCommand(st, command).items = Append(st.items, x)
    BY <1>1 DEF ParseCommand
  <1> HIDE DEF x
  <1> QED BY <1>1, <1>2, <1>3, AppendKeepsIds

LEMMA LineKeepsIds ==
    ASSUME NEW st, ParseOK(st), NEW l, IsHeader(l) => l.id # NoGroup
    PROVE  SessionIds(st.items) \subseteq SessionIds(ParseLine(st, l).items)
  <1>1. DOMAIN st = {"items", "title", "open"}
    BY DEF ParseOK
  <1>2. CASE IsHeader(l)
    <2> DEFINE c == CloseGroup(st).items
               x == GroupItem(l.id, GroupName(l.words), l.color)
    <2>1. IsItem(x)
      BY <1>2, NewItems
    <2>2. ParseLine(st, l).items = Append(c, x)
      BY <1>2 DEF ParseLine, ParseHeader
    <2>3. SessionIds(st.items) \subseteq SessionIds(c) /\ IsItems(c)
      BY CloseKeepsIds
    <2> HIDE DEF c, x
    <2> QED BY <2>1, <2>2, <2>3, AppendKeepsIds
  <1>3. CASE ~IsHeader(l) /\ l.line = "end"
    <2>1. DOMAIN CloseGroup(st) = {"items", "title", "open"}
      BY <1>1, ClosedGroup
    <2>2. ParseLine(st, l).items = CloseGroup(st).items
      BY <1>3, <2>1 DEF ParseLine, ParseEnd
    <2> QED BY <2>2, CloseKeepsIds
  <1>4. CASE ~IsHeader(l) /\ l.line # "end"
    <2>1. ParseLabel(st, WordsOf(l)).items = st.items
      BY <1>1 DEF ParseLabel
    <2>2. ParseLine(st, l) = ParseLabel(st, WordsOf(l)) \/ \E c : ParseLine(st, l) = ParseCommand(st, c)
      BY <1>4 DEF ParseLine
    <2> QED BY <2>1, <2>2, CommandKeepsIds
  <1> QED BY <1>2, <1>3, <1>4

LEMMA RunOK ==
    ASSUME NEW f, Titled(f), NEW run, Run(run, f), NEW k \in 0 .. Len(f)
    PROVE  ParseOK(run[k])
  <1>1. IsList(f) /\ Len(f) \in Nat /\ DOMAIN f = 1 .. Len(f)
    BY ListLength DEF Titled
  <1> DEFINE Bad == {i \in 0 .. Len(f) : ~ParseOK(run[i])}
  <1> SUFFICES ASSUME Bad # {} PROVE FALSE
    OBVIOUS
  <1>2. Bad \in SUBSET Nat
    BY <1>1
  <1>3. PICK i \in Bad : \A t \in Bad : i <= t
    BY <1>2, LeastOf
  <1>4. i \in 0 .. Len(f) /\ ~ParseOK(run[i])
    OBVIOUS
  <1>5. i # 0
    BY <1>4, ParseStartOK DEF Run
  <1>6. i - 1 \in 0 .. Len(f) /\ ~(i <= i - 1) /\ i \in 1 .. Len(f)
    BY <1>1, <1>4, <1>5
  <1>7. ParseOK(run[i - 1])
    BY <1>3, <1>6
  <1>8. IsHeader(f[i]) => f[i].id # NoGroup
    BY <1>1, <1>6 DEF Titled
  <1>9. ParseOK(ParseLine(run[i - 1], f[i]))
    BY <1>7, <1>8, ParseLineOK
  <1> QED BY <1>4, <1>6, <1>9 DEF Run

LEMMA RunKeepsIds ==
    ASSUME NEW f, Titled(f), NEW run, Run(run, f), NEW j \in 0 .. Len(f)
    PROVE  SessionIds(run[j].items) \subseteq SessionIds(ParseMarkdownItems(f)) \/
           ParseMarkdownItems(f) # CloseGroup(run[Len(f)]).items
  <1>1. IsList(f) /\ Len(f) \in Nat /\ DOMAIN f = 1 .. Len(f)
    BY ListLength DEF Titled
  <1> DEFINE Bad == {i \in j .. Len(f) : ~(SessionIds(run[j].items) \subseteq SessionIds(run[i].items))}
  <1>2. Bad = {}
    <2> SUFFICES ASSUME Bad # {} PROVE FALSE
      OBVIOUS
    <2>1. Bad \in SUBSET Nat
      BY <1>1
    <2>2. PICK i \in Bad : \A t \in Bad : i <= t
      BY <2>1, LeastOf
    <2>3. i \in j .. Len(f) /\ ~(SessionIds(run[j].items) \subseteq SessionIds(run[i].items))
      OBVIOUS
    <2>4. i # j
      BY <2>3
    <2>5. i - 1 \in j .. Len(f) /\ ~(i <= i - 1) /\ i \in 1 .. Len(f) /\ i - 1 \in 0 .. Len(f)
      BY <1>1, <2>3, <2>4
    <2>6. SessionIds(run[j].items) \subseteq SessionIds(run[i - 1].items)
      BY <2>2, <2>5
    <2>7. IsHeader(f[i]) => f[i].id # NoGroup
      BY <1>1, <2>5 DEF Titled
    <2>8. ParseOK(run[i - 1])
      BY <2>5, RunOK
    <2>9. SessionIds(run[i - 1].items) \subseteq SessionIds(run[i].items)
      BY <2>5, <2>7, <2>8, LineKeepsIds DEF Run
    <2> QED BY <2>3, <2>6, <2>9
  <1>3. Len(f) \in j .. Len(f) /\ Len(f) \in 0 .. Len(f)
    BY <1>1
  <1>4. SessionIds(run[j].items) \subseteq SessionIds(run[Len(f)].items)
    BY <1>2, <1>3
  <1>5. ParseOK(run[Len(f)])
    BY <1>3, RunOK
  <1>6. SessionIds(run[Len(f)].items) \subseteq SessionIds(CloseGroup(run[Len(f)]).items)
    BY <1>5, CloseKeepsIds
  <1> QED BY <1>4, <1>6

(* Every session that was written is read again.                           *)
LEMMA IdsLoaded ==
    ASSUME NEW list, Whole(list), Made(list)
    PROVE  SessionIds(StoredList(list)) \subseteq SessionIds(ParseMarkdownItems(SavedFile(list)))
  <1> DEFINE s == StoredList(list)
             f == SavedFile(list)
  <1>1. /\ Whole(s) /\ IsList(s) /\ DOMAIN s = DOMAIN list
        /\ \A i \in DOMAIN list : Keepable(s[i])
    BY StoredWhole DEF Whole, IsItems
  <1>2. PICK at : Laid(at, s, f)
    BY SavedLaid
  <1>3. Titled(f)
    BY SavedTitled DEF SavedFile, Whole
  <1> HIDE DEF s, f
  <1>4. IsList(f) /\ Len(f) \in Nat /\ Len(s) \in Nat /\ DOMAIN s = 1 .. Len(s)
    BY <1>1, <1>3, ListLength DEF Titled
  <1>5. PICK run : Run(run, f) /\ ParseMarkdownItems(f) = CloseGroup(run[Len(f)]).items
    BY <1>4, RunsOver
  <1>6. ASSUME NEW i \in DOMAIN s, IsSession(s[i])
        PROVE  <<s[i].provider, s[i].command_id>> \in SessionIds(ParseMarkdownItems(f))
    <2> DEFINE k == i - 1
               x == s[i]
               p == x.provider
               id == x.command_id
               m == at[k]
    <2>1. k \in 0 .. Len(s) - 1 /\ k + 1 = i /\ k + 1 \in 0 .. Len(s)
      BY <1>4
    <2>2. Keepable(x) /\ p \in PROVIDERS /\ IsSessionId(id) /\ (p = "codex" => LowerCase(id) = id)
      BY <1>1, <1>6 DEF Keepable
    <2>3. m \in Nat /\ (IsSession(s[k + 1]) => f[m + 2] = CommandLine(s[k + 1]) /\ at[k + 1] = m + 2)
      BY <1>1, <1>2, <2>1, LinesAt
    <2>4. f[m + 2] = CommandLine(x) /\ at[i] = m + 2
      BY <1>6, <2>1, <2>3
    <2>5. at[i] <= Len(f)
      <3>1. i \in 0 .. Len(s) /\ Len(s) \in 0 .. Len(s) /\ i \in 0 .. Len(s)
        BY <1>4
      <3> QED BY <1>2, <3>1 DEF Laid
    <2> HIDE DEF k, p, id, m, x
    <2>6. m + 2 \in 1 .. Len(f) /\ (m + 2) - 1 = m + 1 /\ m + 1 \in 0 .. Len(f) /\ m + 2 \in 0 .. Len(f)
      BY <1>4, <2>3, <2>4, <2>5
    <2>7. run[m + 2] = ParseLine(run[m + 1], TextLine(ResumeCommand(p, id)))
      BY <1>5, <2>4, <2>6 DEF Run, CommandLine, p, id
    <2> DEFINE c == [provider |-> p, command_id |-> id]
    <2>8. ParseSessionCommand(ResumeCommand(p, id)) = {c}
      BY <2>2, CommandFound DEF p, id
    <2>9. c.provider = p /\ c.command_id = id /\ (CHOOSE d \in {c} : TRUE) = c /\ {c} # {}
      OBVIOUS
    <2> HIDE DEF c
    <2>10. run[m + 2] = ParseCommand(run[m + 1], c)
      BY <2>7, <2>8, <2>9, ReadsText
    <2>11. ParseOK(run[m + 1])
      BY <1>3, <1>5, <2>6, RunOK
    <2>12. <<p, id>> \in SessionIds(run[m + 2].items)
      BY <2>9, <2>10, <2>11, CommandKeepsIds
    <2>13. SessionIds(run[m + 2].items) \subseteq SessionIds(ParseMarkdownItems(f))
      BY <1>3, <1>5, <2>6, RunKeepsIds
    <2> QED BY <2>12, <2>13 DEF p, id, x
  <1>7. SessionIds(s) \subseteq SessionIds(ParseMarkdownItems(f))
    BY <1>6 DEF SessionIds
  <1> QED BY <1>7 DEF s, f

-----------------------------------------------------------------------------
(* What is read is well made: the words of a line are a list, and whatever *)
(* command a line has names a provider and an id.                          *)
Lined(f) == \A i \in DOMAIN f : IsList(f[i].words)

LEMMA GroupMade ==
    ASSUME NEW id, id # NoGroup, NEW n, IsList(n), NEW color
    PROVE  WellMade(GroupItem(id, n, color))
  <1> DEFINE x == GroupItem(id, n, color)
  <1>1. IsItem(x)
    BY NewItems
  <1>2. /\ ~IsSession(x) /\ x.id = id /\ x.name = n /\ x.color = color
    BY Groups
  <1>3. x = GroupItem(id, n, color)
    OBVIOUS
  <1> HIDE DEF x
  <1>4. WellMade(x)
    BY <1>1, <1>2, <1>3 DEF WellMade
  <1> QED BY <1>4 DEF x

LEMMA EndMade ==
    ASSUME NEW id
    PROVE  WellMade(GroupEndItem(id))
  <1> DEFINE x == GroupEndItem(id)
  <1>1. IsItem(x)
    BY NewItems
  <1>2. ~IsGroup(x) /\ ~IsSession(x) /\ IsList(x.name)
    BY GroupEnds, NoItems DEF NoName
  <1> HIDE DEF x
  <1>3. WellMade(x)
    BY <1>1, <1>2 DEF WellMade
  <1> QED BY <1>3 DEF x

LEMMA SessionMade ==
    ASSUME NEW p \in PROVIDERS, NEW id, IsSessionId(id), NEW n, IsList(n)
    PROVE  WellMade(SessionItem(p, id, n))
  <1> DEFINE x == SessionItem(p, id, n)
  <1>1. IsItem(x)
    BY NewItems
  <1>2. ~IsGroup(x) /\ x.provider = p /\ x.command_id = id /\ x.name = n
    BY SessionsAre
  <1>3. x = SessionItem(p, id, n)
    OBVIOUS
  <1> HIDE DEF x
  <1>4. WellMade(x)
    BY <1>1, <1>2, <1>3 DEF WellMade
  <1> QED BY <1>4 DEF x

LEMMA MadeAppended ==
    ASSUME NEW a, IsItems(a), Made(a), NEW x, WellMade(x)
    PROVE  Made(Append(a, x))
  <1> DEFINE b == Append(a, x)
  <1>1. /\ IsItems(b) /\ Len(b) = Len(a) + 1 /\ b[Len(a) + 1] = x
        /\ \A i \in DOMAIN a : b[i] = a[i]
    BY AppendedItem DEF WellMade
  <1> HIDE DEF b
  <1>2. Len(a) \in Nat /\ DOMAIN a = 1 .. Len(a) /\ DOMAIN b = 1 .. Len(a) + 1
    BY <1>1, ListLength DEF IsItems
  <1>3. \A i \in DOMAIN b : i = Len(a) + 1 \/ i \in DOMAIN a
    BY <1>2
  <1>4. Made(b)
    BY <1>1, <1>3 DEF Made
  <1> QED BY <1>4 DEF b

LEMMA IdGiven ==
    ASSUME NEW w, NEW p
    PROVE  NormalizeSessionId(w, p) = "" \/ IsSessionId(NormalizeSessionId(w, p))
  BY LowerIds DEF NormalizeSessionId

LEMMA FlaggedGiven ==
    ASSUME NEW p, NEW words
    PROVE  FlaggedId(p, words) = "" \/ IsSessionId(FlaggedId(p, words))
  <1> DEFINE Resumes(w) == \/ w.word \in ResumeFlags[p]
                           \/ w.value = "" /\ w.word \in Subcommands[p]
             at == SelectInSubSeq(words, 2, Len(words), Resumes)
  <1>1. FlaggedId(p, words) = FlaggedAt(p, words, at)
    BY DEF FlaggedId, FlaggedAt
  <1> HIDE DEF at
  <1>2. FlaggedAt(p, words, at) = "" \/ \E w : FlaggedAt(p, words, at) = NormalizeSessionId(w, p)
    BY DEF FlaggedAt
  <1> QED BY <1>1, <1>2, IdGiven

LEMMA CommandMade ==
    ASSUME NEW line, NEW c \in ParseSessionCommand(line)
    PROVE  c.provider \in PROVIDERS /\ IsSessionId(c.command_id)
  <1>1. PICK words : c \in CommandOf(words)
    <2> DEFINE last == SelectLastInSeq(line, LAMBDA w : w = Word("&&"))
               rest == SubSeq(line, last + 1, Len(line))
    <2>1. ParseSessionCommand(line) = CommandOf(rest)
      BY DEF ParseSessionCommand, CommandOf
    <2> QED BY <2>1
  <1> DEFINE exe == NormalizeExecutable(words[1])
             id == IF exe = "codex" THEN CodexId(words)
                   ELSE IF exe \in DOMAIN ResumeFlags THEN FlaggedId(exe, words) ELSE ""
  <1>2. id # "" /\ c = [provider |-> exe, command_id |-> id]
    BY <1>1 DEF CommandOf
  <1>3. exe = "codex" \/ exe \in DOMAIN ResumeFlags
    BY <1>2
  <1>4. exe \in PROVIDERS
    BY <1>3 DEF ResumeFlags, PROVIDERS
  <1>5. CodexId(words) = "" \/ IsSessionId(CodexId(words))
    BY IdGiven DEF CodexId
  <1>6. IsSessionId(id)
    BY <1>2, <1>5, FlaggedGiven
  <1> HIDE DEF exe, id
  <1> QED BY <1>2, <1>4, <1>6

LEMMA WordsListed ==
    ASSUME NEW l, IsList(l.words)
    PROVE  IsList(WordsOf(l))
  <1>1. CASE l.line # "group"
    BY <1>1 DEF WordsOf
  <1>2. CASE l.line = "group"
    <2> DEFINE n == GroupName(l.words)
               f == Front(n)
               m == <<Word("<!--")>>
               e == <<Word("|"), Word("-->")>>
    <2>1. IsList(n) /\ n # NoName
      BY GroupNames
    <2>2. WordsOf(l) = m \o f \o e
      BY <1>2 DEF WordsOf
    <2> HIDE DEF n
    <2>3. IsList(f)
      <3>1. Len(n) \in Nat /\ Len(n) # 0
        <4>1. PICK S : n \in Seq(S)
          BY <2>1 DEF IsList
        <4> QED BY <2>1, <4>1, EmptySeq DEF NoName
      <3>2. 1 \in 1 .. Len(n) + 1 /\ Len(n) - 1 \in 1 - 1 .. Len(n)
        BY <3>1
      <3>3. IsList(SubSeq(n, 1, Len(n) - 1))
        BY <2>1, <3>2, PieceOf
      <3> QED BY <3>3 DEF Front
    <2>4. IsList(m) /\ IsList(e)
      BY OneItem, TwoItems
    <2> HIDE DEF f, m, e
    <2>5. IsList(m \o f)
      BY <2>3, <2>4, Joined
    <2>6. IsList((m \o f) \o e)
      BY <2>4, <2>5, Joined
    <2> QED BY <2>2, <2>6
  <1> QED BY <1>1, <1>2

LEMMA MarkGone ==
    ASSUME NEW m, NEW q, IsList(q)
    PROVE  IsList(StripMark(m, q))
  <1> DEFINE iq == {i \in 1 .. Len(q) : q[i] # Word(m)}
             at == IF \A i \in DOMAIN q : q[i] = Word(m) THEN Len(q) + 1 ELSE IF iq # {} THEN Min(iq) ELSE 0
  <1>1. StripMark(m, q) = SubSeq(q, at, Len(q))
    BY DEF StripMark, SelectInSeq
  <1>2. Len(q) \in Nat /\ DOMAIN q = 1 .. Len(q)
    BY ListLength
  <1>3. at \in 1 .. Len(q) + 1
    <2>1. iq # {} => Min(iq) \in iq
      <3>1. iq \in SUBSET Nat
        BY <1>2
      <3> QED BY <3>1, LeastOf
    <2>2. (\A i \in DOMAIN q : q[i] = Word(m)) \/ iq # {}
      BY <1>2
    <2> QED BY <1>2, <2>1, <2>2
  <1> HIDE DEF at, iq
  <1>4. Len(q) \in at - 1 .. Len(q)
    BY <1>2, <1>3
  <1> QED BY <1>1, <1>3, <1>4, PieceOf

LEMMA LabelListed ==
    ASSUME NEW q, IsList(q)
    PROVE  IsList(NormalizeLabel(q))
  BY MarkGone DEF NormalizeLabel

(* The list so far holds what a file can, and the title is words.          *)
ParseMade(st) == ParseOK(st) /\ Made(st.items) /\ IsList(st.title)

LEMMA ClosedMade ==
    ASSUME NEW st, ParseMade(st)
    PROVE  Made(CloseGroup(st).items)
  <1>1. DOMAIN st = {"items", "title", "open"} /\ IsItems(st.items) /\ Made(st.items)
    BY DEF ParseMade, ParseOK
  <1>2. Made(Append(st.items, GroupEndItem(st.open)))
    BY <1>1, EndMade, MadeAppended
  <1> QED BY <1>1, <1>2, ClosedGroup

LEMMA StartMade ==
    ParseMade(ParseStart)
  <1>1. ParseStart.items = <<>> /\ ParseStart.title = NoName
    BY DEF ParseStart
  <1>2. Made(<<>>) /\ IsList(NoName)
    BY NoItems DEF Made, NoName
  <1> QED BY <1>1, <1>2, ParseStartOK DEF ParseMade

LEMMA LineMade ==
    ASSUME NEW st, ParseMade(st), NEW l, IsList(l.words), IsHeader(l) => l.id # NoGroup
    PROVE  ParseMade(ParseLine(st, l))
  <1> DEFINE new == ParseLine(st, l)
             words == WordsOf(l)
             found == ParseSessionCommand(words)
             c == CHOOSE d \in found : TRUE
  <1>1. ParseOK(new)
    BY ParseLineOK DEF ParseMade
  <1>2. DOMAIN st = {"items", "title", "open"} /\ IsItems(st.items) /\ Made(st.items) /\ IsList(st.title)
    BY DEF ParseMade, ParseOK
  <1>3. IsItems(CloseGroup(st).items) /\ Made(CloseGroup(st).items)
    BY ClosedMade, ClosedGroup DEF ParseMade, ParseOK, Whole
  <1>4. IsList(NoName)
    BY NoItems DEF NoName
  <1>5. CASE IsHeader(l)
    <2> DEFINE x == GroupItem(l.id, GroupName(l.words), l.color)
    <2>1. WellMade(x)
      BY <1>5, GroupNames, GroupMade
    <2> HIDE DEF x
    <2>2. new.items = Append(CloseGroup(st).items, x) /\ new.title = NoName
      BY <1>5 DEF ParseLine, ParseHeader, x
    <2>3. Made(new.items)
      BY <1>3, <2>1, <2>2, MadeAppended
    <2> HIDE DEF new
    <2>4. ParseOK(ParseLine(st, l))
      BY <1>1 DEF new
    <2>5. ParseMade(new)
      BY <1>4, <2>2, <2>3, <2>4 DEF ParseMade, new
    <2> QED BY <2>5 DEF new
  <1>6. CASE ~IsHeader(l) /\ l.line = "end"
    <2>1. new = [CloseGroup(st) EXCEPT !.title = NoName]
      BY <1>6 DEF ParseLine, ParseEnd
    <2>2. new.items = CloseGroup(st).items /\ new.title = NoName
      BY <1>2, <2>1, ClosedGroup
    <2> HIDE DEF new
    <2>3. Made(new.items) /\ IsList(new.title)
      BY <1>3, <1>4, <2>2
    <2>4. ParseOK(ParseLine(st, l))
      BY <1>1 DEF new
    <2>5. ParseMade(new)
      BY <2>3, <2>4 DEF ParseMade, new
    <2> QED BY <2>5 DEF new
  <1>7. CASE ~IsHeader(l) /\ l.line # "end" /\ found # {}
    <2>1. c \in found
      BY <1>7
    <2>2. c.provider \in PROVIDERS /\ IsSessionId(c.command_id)
      BY <2>1, CommandMade
    <2>3. new = ParseCommand(st, c)
      BY <1>7 DEF ParseLine
    <2> HIDE DEF c, new
    <2> DEFINE name == IF st.title = NoName THEN ShortSessionId(c.command_id) ELSE st.title
               x == SessionItem(c.provider, c.command_id, name)
    <2>4. IsList(name)
      BY <1>2, ShortIds
    <2>5. ParseCommand(st, c).items = Append(st.items, x) /\ ParseCommand(st, c).title = NoName
      BY <1>2 DEF ParseCommand
    <2> HIDE DEF name
    <2>6. WellMade(x)
      BY <2>2, <2>4, SessionMade
    <2> HIDE DEF x
    <2>7. Made(new.items) /\ IsList(new.title)
      BY <1>2, <1>4, <2>3, <2>5, <2>6, MadeAppended
    <2>8. ParseOK(ParseLine(st, l))
      BY <1>1 DEF new
    <2>9. ParseMade(new)
      BY <2>7, <2>8 DEF ParseMade, new
    <2> QED BY <2>9 DEF new
  <1>8. CASE ~IsHeader(l) /\ l.line # "end" /\ found = {}
    <2> DEFINE label == NormalizeLabel(words)
    <2>1. IsList(label)
      BY WordsListed, LabelListed
    <2>2. new = ParseLabel(st, words)
      BY <1>8 DEF ParseLine
    <2>3. ParseLabel(st, words).items = st.items /\ ParseLabel(st, words).title = IF label = NoName THEN st.title ELSE label
      BY <1>2 DEF ParseLabel
    <2> HIDE DEF new, label
    <2>4. Made(new.items) /\ IsList(new.title)
      BY <1>2, <2>1, <2>2, <2>3
    <2>5. ParseOK(ParseLine(st, l))
      BY <1>1 DEF new
    <2>6. ParseMade(new)
      BY <2>4, <2>5 DEF ParseMade, new
    <2> QED BY <2>6 DEF new
  <1> QED BY <1>5, <1>6, <1>7, <1>8

(* Whatever a file holds, the items of its list are well made.             *)
LEMMA ParsedMade ==
    ASSUME NEW f, Titled(f), Lined(f)
    PROVE  Made(ParseMarkdownItems(f))
  <1>1. IsList(f) /\ Len(f) \in Nat /\ DOMAIN f = 1 .. Len(f)
    BY ListLength DEF Titled
  <1>2. PICK run : Run(run, f) /\ ParseMarkdownItems(f) = CloseGroup(run[Len(f)]).items
    BY <1>1, RunsOver
  <1> DEFINE Bad == {i \in 0 .. Len(f) : ~ParseMade(run[i])}
  <1>3. Bad = {}
    <2> SUFFICES ASSUME Bad # {} PROVE FALSE
      OBVIOUS
    <2>1. Bad \in SUBSET Nat
      BY <1>1
    <2>2. PICK i \in Bad : \A t \in Bad : i <= t
      BY <2>1, LeastOf
    <2>3. i \in 0 .. Len(f) /\ ~ParseMade(run[i])
      OBVIOUS
    <2>4. i # 0
      BY <1>2, <2>3, StartMade DEF Run
    <2>5. i - 1 \in 0 .. Len(f) /\ ~(i <= i - 1) /\ i \in 1 .. Len(f)
      BY <1>1, <2>3, <2>4
    <2>6. ParseMade(run[i - 1])
      BY <2>2, <2>5
    <2>7. (IsHeader(f[i]) => f[i].id # NoGroup) /\ IsList(f[i].words)
      BY <1>1, <2>5 DEF Titled, Lined
    <2>8. ParseMade(ParseLine(run[i - 1], f[i]))
      BY <2>6, <2>7, LineMade
    <2> QED BY <1>2, <2>3, <2>5, <2>8 DEF Run
  <1>4. ParseMade(run[Len(f)])
    BY <1>1, <1>3
  <1> QED BY <1>2, <1>4, ClosedMade

-----------------------------------------------------------------------------
(* What is written has lists of words.                                     *)
LEMMA ItemLined ==
    ASSUME NEW x, Keepable(x)
    PROVE  Lined(RenderItem(x)) /\ IsList(RenderItem(x))
  <1>1. IsItem(x) /\ IsList(x.name)
    BY DEF Keepable
  <1>2. ASSUME NEW l, IsList(l.words) PROVE Lined(<<l>>) /\ IsList(<<l>>)
    <2>1. IsList(<<l>>) /\ Len(<<l>>) = 1 /\ <<l>>[1] = l
      BY OneItem
    <2>2. DOMAIN <<l>> = {1}
      BY <2>1, ListLength
    <2> QED BY <1>2, <2>1, <2>2 DEF Lined
  <1>3. ASSUME NEW l, NEW m, IsList(l.words), IsList(m.words) PROVE Lined(<<l, m>>) /\ IsList(<<l, m>>)
    <2>1. IsList(<<l, m>>) /\ Len(<<l, m>>) = 2 /\ <<l, m>>[1] = l /\ <<l, m>>[2] = m
      BY TwoItems
    <2>2. DOMAIN <<l, m>> = 1 .. 2
      BY <2>1, ListLength
    <2>3. \A i \in DOMAIN <<l, m>> : i = 1 \/ i = 2
      BY <2>2
    <2> QED BY <1>3, <2>1, <2>3 DEF Lined
  <1>4. CASE IsGroup(x)
    <2>1. HeaderLine(x.id, x.name, x.color).words = x.name
      BY DEF HeaderLine
    <2> QED BY <1>1, <1>2, <1>4, <2>1, LinesOf
  <1>5. CASE IsGroupEnd(x)
    <2>1. IsList(EndLine.words)
      BY NoItems DEF EndLine
    <2> QED BY <1>2, <1>5, <2>1, LinesOf
  <1>6. CASE IsSession(x)
    <2>1. x.provider \in PROVIDERS
      BY <1>6 DEF Keepable
    <2>2. IsList(<<Word("#")>> \o x.name) /\ IsList(ResumeCommand(x.provider, x.command_id))
      BY <1>1, <2>1, FirstJoined, CommandWords DEF CommandIs
    <2>3. \A w : TextLine(w).words = w
      BY DEF TextLine
    <2>4. IsList(TitleOf(x).words) /\ IsList(CommandLine(x).words)
      BY <2>2, <2>3 DEF TitleOf, CommandLine
    <2> QED BY <1>3, <1>6, <2>4, LinesOf
  <1> QED BY <1>1, <1>4, <1>5, <1>6, Kinds

LEMMA SavedLined ==
    ASSUME NEW list, Whole(list), Made(list)
    PROVE  Lined(SavedFile(list))
  <1> DEFINE s == StoredList(list)
             f == SavedFile(list)
  <1>1. IsList(s) /\ DOMAIN s = DOMAIN list /\ \A i \in DOMAIN list : Keepable(s[i])
    BY StoredWhole DEF Whole, IsItems
  <1>2. PICK at : Laid(at, s, f)
    BY SavedLaid
  <1> HIDE DEF s, f
  <1>3. Len(s) \in Nat /\ DOMAIN s = 1 .. Len(s) /\ IsList(f) /\ Len(f) \in Nat /\ DOMAIN f = 1 .. Len(f)
    BY <1>1, <1>2, ListLength DEF Laid
  <1>4. ASSUME NEW j \in DOMAIN f PROVE IsList(f[j].words)
    <2> DEFINE m == j - 1
    <2>1. m \in 0 .. Len(f) /\ m < Len(f) /\ m + 1 = j
      BY <1>3
    <2> HIDE DEF m
    <2>2. PICK k \in 0 .. Len(s) : \/ at[k] = m
                                   \/ k < Len(s) /\ IsSession(s[k + 1]) /\ m = at[k] + 1
      BY <1>1, <1>2, <2>1, Located
    <2>3. k # Len(s)
      <3>3. at[Len(s)] = Len(f)
        BY <1>2 DEF Laid
      <3>4. \A n \in Nat : \A q \in 0 .. n : q < n => n # q
        OBVIOUS
      <3>5. Len(f) \in Nat /\ m \in 0 .. Len(f) /\ m < Len(f)
        BY <1>3, <2>1
      <3>6. Len(f) # m
        BY <3>4, <3>5
      <3>1. at[Len(s)] = Len(f) /\ Len(f) # m
        BY <3>3, <3>6
      <3>2. ~(Len(s) < Len(s))
        BY <1>3
      <3> QED BY <2>2, <3>1, <3>2
    <2>4. k \in 0 .. Len(s) - 1 /\ k + 1 \in DOMAIN s
      <3>1. \A n \in Nat : \A q \in 0 .. n : q # n => q \in 0 .. n - 1 /\ q + 1 \in 1 .. n
        OBVIOUS
      <3>2. Len(s) \in Nat /\ k \in 0 .. Len(s) /\ k # Len(s)
        BY <1>3, <2>3
      <3>3. k \in 0 .. Len(s) - 1 /\ k + 1 \in 1 .. Len(s)
        BY <3>1, <3>2
      <3> QED BY <1>3, <3>3
    <2> DEFINE x == s[k + 1]
    <2>5. Keepable(x)
      BY <1>1, <2>4
    <2>6. /\ f[at[k] + 1] = RenderItem(x)[1] /\ at[k] \in Nat
          /\ IsSession(x) => f[at[k] + 1] = TitleOf(x) /\ f[at[k] + 2] = CommandLine(x)
      BY <1>1, <1>2, <2>4, LinesAt
    <2> HIDE DEF x
    <2>7. Lined(RenderItem(x)) /\ IsItem(x)
      BY <2>5, ItemLined DEF Keepable
    <2>8. 1 \in DOMAIN RenderItem(x) /\ (IsSession(x) => 2 \in DOMAIN RenderItem(x) /\ RenderItem(x)[2] = CommandLine(x))
      <3>1. \A a, b : 1 \in DOMAIN <<a>> /\ 1 \in DOMAIN <<a, b>> /\ 2 \in DOMAIN <<a, b>> /\ <<a, b>>[2] = b
        OBVIOUS
      <3> QED BY <2>5, <2>7, <3>1, LinesOf, Kinds
    <2>9. CASE at[k] = m
      BY <2>1, <2>6, <2>7, <2>8, <2>9 DEF Lined
    <2>10. CASE IsSession(x) /\ m = at[k] + 1
      <3>1. j = at[k] + 2
        BY <2>1, <2>6, <2>10
      <3> QED BY <2>6, <2>7, <2>8, <2>10, <3>1 DEF Lined
    <2> QED BY <2>2, <2>9, <2>10 DEF x
  <1>5. Lined(f)
    BY <1>4 DEF Lined
  <1> QED BY <1>5 DEF f

LEMMA CutLined ==
    ASSUME NEW f, IsList(f), Lined(f), NEW g \in CutFiles(f)
    PROVE  Lined(g)
  <1>1. Len(f) \in Nat /\ DOMAIN f = 1 .. Len(f)
    BY ListLength
  <1>2. CASE g \in {SubSeq(f, 1, n) : n \in 0 .. Len(f)}
    <2>1. PICK n \in 0 .. Len(f) : g = SubSeq(f, 1, n)
      BY <1>2
    <2>2. IsList(g) /\ Len(g) = n /\ \A j \in 1 .. n : g[j] = f[j]
      BY <2>1, FirstLines
    <2>3. DOMAIN g = 1 .. n /\ \A j \in 1 .. n : j \in DOMAIN f
      BY <1>1, <2>2, ListLength
    <2> QED BY <2>2, <2>3 DEF Lined
  <1>3. CASE g \notin {SubSeq(f, 1, n) : n \in 0 .. Len(f)}
    <2>1. g \in UNION {{Append(SubSeq(f, 1, n), part) : part \in Parts(f[n + 1])} : n \in 0 .. Len(f) - 1}
      BY <1>3 DEF CutFiles
    <2>2. PICK n \in 0 .. Len(f) - 1 : g \in {Append(SubSeq(f, 1, n), part) : part \in Parts(f[n + 1])}
      BY <2>1
    <2>3. PICK part \in Parts(f[n + 1]) : g = Append(SubSeq(f, 1, n), part)
      BY <2>2
    <2>4. n \in 0 .. Len(f) /\ n + 1 \in DOMAIN f
      BY <1>1
    <2>5. IsList(g) /\ Len(g) = n + 1 /\ g[n + 1] = part /\ \A j \in 1 .. n : g[j] = f[j]
      BY <2>3, <2>4, LinesAndPart
    <2>6. DOMAIN g = 1 .. n + 1 /\ \A j \in 1 .. n : j \in DOMAIN f
      BY <1>1, <2>4, <2>5, ListLength
    <2>7. IsList(part.words)
      <3> DEFINE words == WordsOf(f[n + 1])
      <3>1. IsList(words)
        BY <2>4, WordsListed DEF Lined
      <3> HIDE DEF words
      <3>2. Len(words) \in Nat
        BY <3>1, ListLength
      <3>3. ASSUME NEW k \in 0 .. Len(words), NEW w
            PROVE  IsList(SubSeq(words, 1, k)) /\ IsList(Append(SubSeq(words, 1, k), w))
        <4>1. IsList(SubSeq(words, 1, k))
          BY <3>1, FirstLines
        <4> QED BY <4>1, ListAppended
      <3>4. \A k : (k \in 1 .. Len(words) - 1 \/ k \in 0 .. Len(words) - 1) => k \in 0 .. Len(words)
        BY <3>2
      <3>5. part \in {TextLine(SubSeq(words, 1, k)) : k \in 1 .. Len(words) - 1}
               \cup {TextLine(Append(SubSeq(words, 1, k), CutWord(words[k + 1]))) : k \in 0 .. Len(words) - 1}
        BY DEF Parts, words
      <3>6. \A w : TextLine(w).words = w
        BY DEF TextLine
      <3> QED BY <3>3, <3>4, <3>5, <3>6
    <2>8. \A j \in DOMAIN g : j = n + 1 \/ j \in 1 .. n
      BY <1>1, <2>4, <2>6
    <2> QED BY <2>5, <2>6, <2>7, <2>8 DEF Lined
  <1> QED BY <1>2, <1>3

-----------------------------------------------------------------------------
(* The edits put together well made items.                                 *)
LEMMA MadeJoined ==
    ASSUME NEW a, NEW b, IsList(a), IsList(b), Made(a), Made(b)
    PROVE  Made(a \o b)
  <1> DEFINE c == a \o b
             n == Len(a)
  <1>1. n \in Nat /\ Len(b) \in Nat /\ DOMAIN a = 1 .. n /\ DOMAIN b = 1 .. Len(b)
    BY ListLength
  <1>2. /\ IsList(c) /\ Len(c) = n + Len(b)
        /\ \A i \in 1 .. n : c[i] = a[i]
        /\ \A i \in 1 .. Len(b) : c[n + i] = b[i]
    BY Joined
  <1>3. DOMAIN c = 1 .. n + Len(b)
    BY <1>2, ListLength
  <1> HIDE DEF c, n
  <1>4. \A i \in DOMAIN c : i \in 1 .. n \/ (i - n \in 1 .. Len(b) /\ n + (i - n) = i)
    BY <1>1, <1>3
  <1>5. Made(c)
    BY <1>1, <1>2, <1>4 DEF Made
  <1> QED BY <1>5 DEF c

LEMMA MadePiece ==
    ASSUME NEW a, IsList(a), Made(a), NEW m \in 1 .. Len(a) + 1, NEW n \in m - 1 .. Len(a)
    PROVE  Made(SubSeq(a, m, n)) /\ IsList(SubSeq(a, m, n))
  <1> DEFINE c == SubSeq(a, m, n)
  <1>1. Len(a) \in Nat /\ DOMAIN a = 1 .. Len(a)
    BY ListLength
  <1>2. IsList(c) /\ Len(c) = n - m + 1 /\ \A i \in 1 .. n - m + 1 : c[i] = a[m + i - 1]
    BY PieceOf
  <1>3. DOMAIN c = 1 .. n - m + 1
    BY <1>2, ListLength
  <1> HIDE DEF c
  <1>4. \A i \in DOMAIN c : m + i - 1 \in DOMAIN a
    BY <1>1, <1>3
  <1>5. Made(c)
    BY <1>2, <1>3, <1>4 DEF Made
  <1> QED BY <1>2, <1>5 DEF c

LEMMA MadePut ==
    ASSUME NEW a, IsList(a), Made(a), NEW at \in 1 .. Len(a) + 1, NEW x, WellMade(x)
    PROVE  Made(InsertAt(a, at, x))
  <1> DEFINE c == InsertAt(a, at, x)
  <1>1. Len(a) \in Nat /\ DOMAIN a = 1 .. Len(a)
    BY ListLength
  <1>2. /\ IsList(c) /\ Len(c) = Len(a) + 1 /\ c[at] = x
        /\ \A i \in 1 .. Len(a) : c[IF i < at THEN i ELSE i + 1] = a[i]
    BY PutAt
  <1>3. DOMAIN c = 1 .. Len(a) + 1
    BY <1>2, ListLength
  <1> HIDE DEF c
  <1>4. ASSUME NEW j \in DOMAIN c, j # at PROVE \E i \in DOMAIN a : c[j] = a[i]
    <2>1. CASE j < at
      <3>1. j \in 1 .. Len(a)
        BY <1>1, <1>3, <2>1
      <3> QED BY <1>1, <1>2, <2>1, <3>1
    <2>2. CASE ~(j < at)
      <3>1. j - 1 \in 1 .. Len(a) /\ ~(j - 1 < at) /\ (j - 1) + 1 = j
        BY <1>1, <1>3, <1>4, <2>2
      <3> QED BY <1>1, <1>2, <3>1
    <2> QED BY <2>1, <2>2
  <1>5. Made(c)
    BY <1>2, <1>4 DEF Made
  <1> QED BY <1>5 DEF c

LEMMA MadeTaken ==
    ASSUME NEW a, IsList(a), Made(a), NEW at \in DOMAIN a
    PROVE  Made(RemoveAt(a, at)) /\ IsList(RemoveAt(a, at))
  <1> DEFINE c == RemoveAt(a, at)
  <1>1. Len(a) \in Nat /\ DOMAIN a = 1 .. Len(a)
    BY ListLength
  <1>2. /\ IsList(c) /\ Len(c) = Len(a) - 1
        /\ \A i \in 1 .. Len(a) - 1 : c[i] = a[IF i < at THEN i ELSE i + 1]
    BY TakenAt
  <1>3. DOMAIN c = 1 .. Len(a) - 1
    BY <1>2, ListLength
  <1> HIDE DEF c
  <1>4. \A i \in DOMAIN c : (IF i < at THEN i ELSE i + 1) \in DOMAIN a
    BY <1>1, <1>3
  <1>5. Made(c)
    BY <1>2, <1>3, <1>4 DEF Made
  <1> QED BY <1>2, <1>5 DEF c

LEMMA NamesListed ==
    ASSUME NEW n \in Names
    PROVE  IsList(n)
  BY SessionListAssumption DEF IsList

LEMMA AddGroupMade ==
    ASSUME Whole(items), Made(items), NEW name \in Names, NEW color, AddGroup(name, color)
    PROVE  Made(items')
  <1> DEFINE id == MakeUniqueGroupId(GroupName(name))
             x == GroupItem(id, GroupName(name), color)
             y == GroupEndItem(id)
             b == <<x, y>>
  <1>1. id # NoGroup
    BY DEF MakeUniqueGroupId, NoGroup
  <1>2. items' = items \o b
    BY DEF AddGroup, ApplyItems
  <1> HIDE DEF id
  <1>3. WellMade(x) /\ WellMade(y)
    BY <1>1, NamesListed, GroupNames, GroupMade, EndMade
  <1> HIDE DEF x, y
  <1>4. IsList(b) /\ Len(b) = 2 /\ b[1] = x /\ b[2] = y
    BY TwoItems
  <1>5. DOMAIN b = 1 .. 2
    BY <1>4, ListLength
  <1> HIDE DEF b
  <1>6. \A i \in DOMAIN b : i = 1 \/ i = 2
    BY <1>5
  <1>7. Made(b)
    BY <1>3, <1>4, <1>6 DEF Made
  <1>8. IsList(items)
    BY DEF Whole, IsItems
  <1> QED BY <1>2, <1>4, <1>7, <1>8, MadeJoined

LEMMA AddSessionMade ==
    ASSUME Whole(items), Made(items), NEW s \in Sessions, NEW name \in Names, AddSession(s, name)
    PROVE  Made(items')
  <1> DEFINE groups == {i \in 1 .. Len(items) : IsGroup(items[i])}
             first == SelectInSeq(items, IsGroup)
             at == IF first = 0 THEN Len(items) + 1 ELSE first
             x == SessionItem(s.provider, s.id, name)
  <1>1. IsList(items) /\ Len(items) \in Nat
    BY ListLength DEF Whole, IsItems
  <1>2. first = IF groups # {} THEN Min(groups) ELSE 0
    BY DEF SelectInSeq
  <1>3. groups # {} => Min(groups) \in groups
    <2>1. groups \in SUBSET Nat
      BY <1>1
    <2> QED BY <2>1, LeastOf
  <1>4. at \in 1 .. Len(items) + 1
    BY <1>1, <1>2, <1>3
  <1>5. items' = InsertAt(items, at, x)
    BY DEF AddSession, ApplyItems
  <1>6. WellMade(x)
    BY NamesListed, SessionMade, SessionListAssumption
  <1> HIDE DEF at, x
  <1> QED BY <1>1, <1>4, <1>5, <1>6, MadePut

LEMMA ReplacedMade ==
    ASSUME Whole(items), Made(items), NEW i \in DOMAIN items, NEW x, WellMade(x),
           items' = [items EXCEPT ![i] = x]
    PROVE  Made(items')
  BY DEF Made

(* An item with another name, and a group with another color.              *)
LEMMA NamedMade ==
    ASSUME NEW x, WellMade(x), NEW n, IsList(n), NEW color
    PROVE  /\ WellMade([x EXCEPT !.name = n])
           /\ IsGroup(x) => WellMade([x EXCEPT !.name = n, !.color = color])
  <1>1. IsItem(x)
    BY DEF WellMade
  <1>2. CASE IsGroup(x)
    <2>1. x = GroupItem(x.id, x.name, x.color) /\ x.id # NoGroup
      BY <1>1, <1>2 DEF WellMade, IsItem
    <2>2. \A c : WellMade(GroupItem(x.id, n, c))
      BY <2>1, GroupMade
    <2> DEFINE e == [x EXCEPT !.name = n]
               d == [x EXCEPT !.name = n, !.color = color]
    <2>3. /\ DOMAIN x = {"kind", "id", "name", "command_id", "color", "provider"}
          /\ x.kind = "group" /\ x.command_id = "" /\ x.provider = ""
      <3> DEFINE y == GroupItem(x.id, x.name, x.color)
      <3>1. y.command_id = "" /\ y.provider = "" /\ y.kind = "group"
        BY DEF GroupItem
      <3>2. x = y
        BY <2>1
      <3> HIDE DEF y
      <3> QED BY <1>1, <3>1, <3>2 DEF IsItem
    <2>4. /\ DOMAIN e = {"kind", "id", "name", "command_id", "color", "provider"}
          /\ e.kind = "group" /\ e.id = x.id /\ e.command_id = "" /\ e.color = x.color /\ e.provider = ""
          /\ e.name = n /\ e = [k \in DOMAIN e |-> e[k]]
      BY <2>3
    <2>5. /\ DOMAIN d = {"kind", "id", "name", "command_id", "color", "provider"}
          /\ d.kind = "group" /\ d.id = x.id /\ d.command_id = "" /\ d.color = color /\ d.provider = ""
          /\ d.name = n /\ d = [k \in DOMAIN d |-> d[k]]
      BY <2>3
    <2> HIDE DEF e, d
    <2>6. e = GroupItem(x.id, n, x.color)
      BY <2>4 DEF GroupItem
    <2>7. d = GroupItem(x.id, n, color)
      BY <2>5 DEF GroupItem
    <2>8. WellMade(e) /\ WellMade(d)
      BY <2>2, <2>6, <2>7
    <2> QED BY <2>8 DEF e, d
  <1>3. CASE IsSession(x)
    <2>1. x = SessionItem(x.provider, x.command_id, x.name) /\ x.provider \in PROVIDERS /\ IsSessionId(x.command_id)
      BY <1>3 DEF WellMade
    <2>2. WellMade(SessionItem(x.provider, x.command_id, n))
      BY <2>1, SessionMade
    <2> DEFINE e == [x EXCEPT !.name = n]
    <2>3. /\ DOMAIN x = {"kind", "id", "name", "command_id", "color", "provider"}
          /\ x.kind = "session" /\ x.id = <<>> /\ x.color = ""
      <3> DEFINE y == SessionItem(x.provider, x.command_id, x.name)
      <3>1. y.id = <<>> /\ y.color = "" /\ y.kind = "session"
        BY DEF SessionItem
      <3>2. x = y
        BY <2>1
      <3> HIDE DEF y
      <3> QED BY <1>1, <3>1, <3>2 DEF IsItem
    <2>4. /\ DOMAIN e = {"kind", "id", "name", "command_id", "color", "provider"}
          /\ e.kind = "session" /\ e.id = <<>> /\ e.command_id = x.command_id /\ e.color = ""
          /\ e.provider = x.provider /\ e.name = n /\ e = [k \in DOMAIN e |-> e[k]]
      BY <2>3
    <2> HIDE DEF e
    <2>5. e = SessionItem(x.provider, x.command_id, n)
      BY <2>4 DEF SessionItem
    <2>6. WellMade(e) /\ ~IsGroup(x)
      BY <1>1, <1>3, <2>2, <2>5, Kinds
    <2> QED BY <2>6 DEF e
  <1>4. CASE IsGroupEnd(x)
    <2> DEFINE e == [x EXCEPT !.name = n]
    <2>1. DOMAIN e = DOMAIN x /\ e.kind = x.kind /\ e.name = n
      BY <1>1 DEF IsItem
    <2>2. ~IsGroup(x) /\ ~IsSession(x)
      BY <1>1, <1>4, Kinds
    <2> HIDE DEF e
    <2>3. ~IsGroup(e) /\ ~IsSession(e)
      BY <2>1, <2>2 DEF IsGroup, IsSession
    <2>4. IsItem(e)
      BY <1>1, <2>1, <2>3 DEF IsItem
    <2>5. WellMade(e)
      BY <2>1, <2>3, <2>4 DEF WellMade
    <2> QED BY <2>2, <2>5 DEF e
  <1> QED BY <1>1, <1>2, <1>3, <1>4, Kinds

LEMMA RenameItemMade ==
    ASSUME Whole(items), Made(items), NEW name \in Names, RenameItem(name)
    PROVE  Made(items')
  <1> DEFINE i == dialog.index
             next == IF IsGroup(items[i]) THEN GroupName(name) ELSE name
             x == [items[i] EXCEPT !.name = next]
  <1>1. i \in DOMAIN items /\ items' = [items EXCEPT ![i].name = next]
    BY DEF RenameItem, ApplyItems
  <1>2. items' = [items EXCEPT ![i] = x]
    BY <1>1
  <1>3. WellMade(items[i]) /\ IsList(next)
    BY <1>1, NamesListed, GroupNames DEF Made
  <1> HIDE DEF i, next
  <1>4. WellMade(x)
    BY <1>3, NamedMade
  <1> HIDE DEF x
  <1> QED BY <1>1, <1>2, <1>4, ReplacedMade

LEMMA UpdateGroupMade ==
    ASSUME Whole(items), Made(items), NEW name \in Names, NEW color, UpdateGroup(name, color)
    PROVE  Made(items')
  <1> DEFINE i == dialog.index
             next == GroupName(name)
             x == [items[i] EXCEPT !.name = next, !.color = color]
  <1>1. /\ i \in DOMAIN items /\ IsGroup(items[i])
        /\ items' = [items EXCEPT ![i].name = next, ![i].color = color]
    BY DEF UpdateGroup, ApplyItems
  <1>2. items' = [items EXCEPT ![i] = x]
    BY <1>1
  <1>3. WellMade(items[i]) /\ IsList(next)
    BY <1>1, NamesListed, GroupNames DEF Made
  <1> HIDE DEF i, next
  <1>4. WellMade(x)
    BY <1>1, <1>3, NamedMade
  <1> HIDE DEF x
  <1> QED BY <1>1, <1>2, <1>4, ReplacedMade

(* A list without one of its groups, the group by itself, and its members. *)
LEMMA GroupMadeApart ==
    ASSUME NEW a, Whole(a), Made(a), NEW g, GroupEnd(a, g) # 0
    PROVE  /\ Made(SubSeq(a, 1, g - 1)) /\ Made(SubSeq(a, g, GroupEnd(a, g)))
           /\ Made(SubSeq(a, GroupEnd(a, g) + 1, Len(a)))
           /\ Made(SubSeq(a, g + 1, GroupEnd(a, g) - 1))
  <1> DEFINE e == GroupEnd(a, g)
             m == e + 1
             k == g + 1
  <1>1. g \in DOMAIN a /\ e \in DOMAIN a /\ g < e
    BY GroupEndFound DEF Encloses
  <1>2. IsList(a) /\ Len(a) \in Nat /\ DOMAIN a = 1 .. Len(a)
    BY ListLength DEF Whole, IsItems
  <1> HIDE DEF e
  <1>3. Made(SubSeq(a, 1, g - 1))
    <2>1. 1 \in 1 .. Len(a) + 1 /\ g - 1 \in 1 - 1 .. Len(a)
      BY <1>1, <1>2
    <2> QED BY <1>2, <2>1, MadePiece
  <1>4. Made(SubSeq(a, g, e))
    <2>1. g \in 1 .. Len(a) + 1 /\ e \in g - 1 .. Len(a)
      BY <1>1, <1>2
    <2> QED BY <1>2, <2>1, MadePiece
  <1>5. Made(SubSeq(a, m, Len(a)))
    <2>1. m \in 1 .. Len(a) + 1 /\ Len(a) \in m - 1 .. Len(a)
      BY <1>1, <1>2
    <2> HIDE DEF m
    <2> QED BY <1>2, <2>1, MadePiece
  <1>6. Made(SubSeq(a, k, e - 1))
    <2>1. k \in 1 .. Len(a) + 1 /\ e - 1 \in k - 1 .. Len(a)
      BY <1>1, <1>2
    <2> HIDE DEF k
    <2> QED BY <1>2, <2>1, MadePiece
  <1> QED BY <1>3, <1>4, <1>5, <1>6 DEF e

LEMMA DeleteGroupMade ==
    ASSUME Whole(items), Made(items), NEW d \in BOOLEAN, DeleteGroup(d)
    PROVE  Made(items')
  <1> DEFINE g == dialog.index
             end == GroupEnd(items, g)
             front == SubSeq(items, 1, g - 1)
             back == SubSeq(items, end + 1, Len(items))
             members == IF d THEN <<>> ELSE SubSeq(items, g + 1, end - 1)
  <1>1. end # 0 /\ items' = front \o members \o back
    BY DEF DeleteGroup, ApplyItems
  <1>2. Whole(front) /\ Whole(back) /\ Whole(SubSeq(items, g + 1, end - 1))
    BY <1>1, GroupTaken
  <1>3. Made(front) /\ Made(back) /\ Made(SubSeq(items, g + 1, end - 1))
    BY <1>1, GroupMadeApart
  <1>4. Whole(members) /\ Made(members)
    <2>1. Made(<<>>)
      BY NoItems DEF Made
    <2> QED BY <1>2, <1>3, <2>1, EmptyWhole
  <1> HIDE DEF members, end, g, front, back
  <1>5. IsList(front) /\ IsList(back) /\ IsList(members)
    BY <1>2, <1>4 DEF Whole, IsItems
  <1>6. Made(front \o members) /\ IsList(front \o members)
    BY <1>3, <1>4, <1>5, MadeJoined, Joined
  <1> QED BY <1>1, <1>3, <1>5, <1>6, MadeJoined

LEMMA MoveSessionMade ==
    ASSUME Whole(items), Made(items), NEW i \in DOMAIN items, NEW before \in Int
    PROVE  Made(MoveSession(i, before))
  <1> DEFINE rest == RemoveAt(items, i)
             n == IF before > i THEN before - 1 ELSE before
             target == Clamped(n, rest)
  <1>1. Made(rest) /\ IsList(rest)
    BY MadeTaken DEF Whole, IsItems
  <1>2. n \in Int
    BY ListLength DEF Whole, IsItems
  <1>3. WellMade(items[i])
    BY DEF Made
  <1>4. MoveSession(i, before) = InsertAt(rest, target, items[i])
    BY DEF MoveSession
  <1> HIDE DEF rest, n
  <1>5. target \in 1 .. Len(rest) + 1
    BY <1>1, <1>2, ClampedPlace
  <1> HIDE DEF target
  <1> QED BY <1>1, <1>3, <1>4, <1>5, MadePut

LEMMA MoveGroupMade ==
    ASSUME Whole(items), Made(items), NEW g \in DOMAIN items, NEW before \in Int
    PROVE  Made(MoveGroupBlock(g, before))
  <1> DEFINE end == GroupEnd(items, g)
             pre == SubSeq(items, 1, g - 1)
             block == SubSeq(items, g, end)
             post == SubSeq(items, end + 1, Len(items))
             rest == pre \o post
             dropped == IF before > g THEN before - (end - g) ELSE before
             clamped == Clamped(dropped, rest)
             target == SnapGroupInsertIndex(rest, clamped)
             front == SubSeq(rest, 1, target - 1)
             back == SubSeq(rest, target, Len(rest))
  <1>1. CASE end = 0 \/ (before > g /\ before <= end + 1)
    <2>1. MoveGroupBlock(g, before) = items
      BY <1>1 DEF MoveGroupBlock
    <2> QED BY <2>1
  <1>2. CASE ~(end = 0 \/ (before > g /\ before <= end + 1))
    <2>1. MoveGroupBlock(g, before) = front \o block \o back
      BY <1>2 DEF MoveGroupBlock
    <2>2. Len(items) \in Nat /\ DOMAIN items = 1 .. Len(items)
      BY ListLength DEF Whole, IsItems
    <2>3. end \in DOMAIN items
      BY <1>2, GroupEndFound
    <2>4. dropped \in Int
      BY <2>2, <2>3
    <2>5. Whole(pre) /\ Whole(post) /\ Whole(block)
      BY <1>2, GroupTaken
    <2>6. Made(pre) /\ Made(post) /\ Made(block)
      BY <1>2, GroupMadeApart
    <2> HIDE DEF end, pre, post, block
    <2>7. Whole(rest) /\ Made(rest)
      BY <2>5, <2>6, JoinedWhole, MadeJoined DEF Whole, IsItems
    <2> HIDE DEF rest, dropped
    <2>8. IsList(rest) /\ IsList(block) /\ Len(rest) \in Nat
      BY <2>5, <2>7, ListLength DEF Whole, IsItems
    <2>9. clamped \in 1 .. Len(rest) + 1
      BY <2>4, <2>8, ClampedPlace
    <2> HIDE DEF clamped
    <2>10. target \in 1 .. Len(rest) + 1
      BY <2>7, <2>9, Snapped
    <2> HIDE DEF target
    <2>11. Made(front) /\ IsList(front)
      <3>1. 1 \in 1 .. Len(rest) + 1 /\ target - 1 \in 1 - 1 .. Len(rest)
        BY <2>8, <2>10
      <3> QED BY <2>7, <2>8, <3>1, MadePiece
    <2>12. Made(back) /\ IsList(back)
      <3>1. Len(rest) \in target - 1 .. Len(rest)
        BY <2>8, <2>10
      <3> QED BY <2>7, <2>8, <2>10, <3>1, MadePiece
    <2> HIDE DEF front, back
    <2>13. Made(front \o block) /\ IsList(front \o block)
      BY <2>6, <2>8, <2>11, MadeJoined, Joined
    <2> QED BY <2>1, <2>12, <2>13, MadeJoined
  <1> QED BY <1>1, <1>2

LEMMA ReorderMade ==
    ASSUME Whole(items), Made(items), NEW i \in DOMAIN items, NEW before \in Int, Reorder(i, before)
    PROVE  Made(items')
  <1>1. items' = IF IsGroup(items[i]) THEN MoveGroupBlock(i, before) ELSE MoveSession(i, before)
    BY DEF Reorder, ApplyItems
  <1> QED BY <1>1, MoveGroupMade, MoveSessionMade

-----------------------------------------------------------------------------
(* The inductive invariant: the file is what was written of a list whose   *)
(* items are well made, whole or cut, until another one is written.        *)
SavedInv ==
    /\ written.state # "never" => Whole(written.list) /\ Made(written.list)
    /\ written.state = "whole" => file = SavedFile(written.list)
    /\ written.state = "cut" => file \in CutFiles(SavedFile(written.list))
FileInv == ListInv /\ Made(items) /\ Lined(file) /\ SavedInv

LEMMA FileInvInit ==
    ASSUME Init
    PROVE  FileInv
  <1>1. ListInv
    BY ListInvInit
  <1>2. PICK s \in Scenarios : file \in s.files
    BY DEF Init
  <1>3. \A i \in DOMAIN file : file[i].words \in Seq(Range(file[i].words))
    BY <1>2, SessionListAssumption
  <1>4. Lined(file)
    BY <1>3 DEF Lined, IsList
  <1>5. Made(ParseMarkdownItems(file))
    BY <1>1, <1>4, ParsedMade DEF ListInv
  <1>6. items = ParseMarkdownItems(file) /\ written.state = "never"
    BY DEF Init, NotWritten
  <1>7. SavedInv
    BY <1>6 DEF SavedInv
  <1> QED BY <1>1, <1>4, <1>5, <1>6, <1>7 DEF FileInv

LEMMA FileInvNext ==
    ASSUME FileInv, [Next]_vars
    PROVE  FileInv'
  <1>1. ListInv /\ Whole(items) /\ Made(items) /\ Lined(file) /\ Titled(file) /\ SavedInv
    BY DEF FileInv, ListInv
  <1>2. ListInv'
    BY <1>1, ListInvNext
  <1>3. ASSUME Made(items'), UNCHANGED <<file, written>> PROVE FileInv'
    <2>1. SavedInv' /\ Lined(file')
      BY <1>1, <1>3 DEF SavedInv
    <2> QED BY <1>2, <1>3, <2>1 DEF FileInv
  <1>4. ASSUME NEW w, written' = [state |-> w, list |-> items], UNCHANGED items, Lined(file'),
               w = "whole" => file' = SavedFile(items), w = "cut" => file' \in CutFiles(SavedFile(items))
        PROVE  FileInv'
    <2>1. written'.state = w /\ written'.list = items
      BY <1>4
    <2>2. SavedInv'
      BY <1>1, <1>4, <2>1 DEF SavedInv
    <2> QED BY <1>1, <1>2, <1>4, <2>2 DEF FileInv
  <1>5. ASSUME NEW n \in Names, NEW c \in Colors, AddGroup(n, c) PROVE FileInv'
    BY <1>1, <1>3, <1>5, AddGroupMade DEF AddGroup, ApplyItems
  <1>6. ASSUME NEW s \in Sessions, NEW n \in Names, AddSession(s, n) PROVE FileInv'
    BY <1>1, <1>3, <1>6, AddSessionMade DEF AddSession, ApplyItems
  <1>7. ASSUME NEW a \in {"rename session", "edit group", "delete group"}, NEW i \in DOMAIN items,
               OpenDialog(a, i)
        PROVE  FileInv'
    BY <1>1, <1>3, <1>7 DEF OpenDialog
  <1>8. CASE CancelDialog
    BY <1>1, <1>3, <1>8 DEF CancelDialog
  <1>9. ASSUME NEW n \in Names, RenameItem(n) PROVE FileInv'
    BY <1>1, <1>3, <1>9, RenameItemMade DEF RenameItem, ApplyItems
  <1>10. ASSUME NEW n \in Names, NEW c \in Colors, UpdateGroup(n, c) PROVE FileInv'
    BY <1>1, <1>3, <1>10, UpdateGroupMade DEF UpdateGroup, ApplyItems
  <1>11. ASSUME NEW d \in BOOLEAN, DeleteGroup(d) PROVE FileInv'
    BY <1>1, <1>3, <1>11, DeleteGroupMade DEF DeleteGroup, ApplyItems
  <1>12. ASSUME NEW i \in DOMAIN items, DeleteSession(i) PROVE FileInv'
    <2>1. items' = RemoveAt(items, i) /\ UNCHANGED <<file, written>>
      BY <1>12 DEF DeleteSession, ApplyItems
    <2>2. Made(items')
      BY <1>1, <2>1, MadeTaken DEF Whole, IsItems
    <2> QED BY <1>3, <2>1, <2>2
  <1>13. ASSUME NEW i \in DOMAIN items, NEW before \in 1 .. Len(items) + 1, Reorder(i, before) PROVE FileInv'
    <2>1. before \in Int
      BY <1>1, ListLength DEF Whole, IsItems
    <2> QED BY <1>1, <1>3, <1>13, <2>1, ReorderMade DEF Reorder, ApplyItems
  <1>14. CASE SaveConfigFile
    <2>1. /\ file' = SavedFile(items) /\ written' = [state |-> "whole", list |-> items]
          /\ UNCHANGED items
      BY <1>14 DEF SaveConfigFile, SavedFile
    <2>2. Lined(file')
      BY <1>1, <2>1, SavedLined
    <2> QED BY <1>4, <2>1, <2>2
  <1>15. CASE SaveIsCut
    <2>1. /\ file' \in CutFiles(SavedFile(items)) /\ written' = [state |-> "cut", list |-> items]
          /\ UNCHANGED items
      BY <1>15 DEF SaveIsCut, SavedFile
    <2>2. Lined(SavedFile(items))
      BY <1>1, SavedLined
    <2>3. IsList(SavedFile(items))
      BY <1>1, SavedTitled DEF Whole, Titled, SavedFile
    <2>4. Lined(file')
      BY <2>1, <2>2, <2>3, CutLined
    <2> QED BY <1>4, <2>1, <2>4
  <1>16. CASE LoadConfigFile
    <2>1. Made(items') /\ UNCHANGED <<file, written>>
      BY <1>1, <1>16, ParsedMade DEF LoadConfigFile
    <2> QED BY <1>3, <2>1
  <1>17. CASE UNCHANGED vars
    BY <1>1, <1>3, <1>17 DEF vars
  <1> QED BY <1>5, <1>6, <1>7, <1>8, <1>9, <1>10, <1>11, <1>12, <1>13, <1>14, <1>15, <1>16, <1>17 DEF Next

LEMMA CutShort ==
    ASSUME NEW list, Whole(list), Made(list), NEW g \in CutFiles(SavedFile(list)),
           \A i \in DOMAIN list : Storable(list[i]), \A i \in DOMAIN list : SafelyCut(list[i])
    PROVE  \E n \in 0 .. Len(list) :
             \/ ParseMarkdownItems(g) = FirstItems(StoredList(list), n)
             \/ n > 0 /\ IsSession(list[n]) /\ ParseMarkdownItems(g) = FirstItems(CutId(StoredList(list), n), n)
  <1> DEFINE s == StoredList(list)
             loaded == ParseMarkdownItems(g)
  <1>1. Len(s) = Len(list) /\ \A i \in DOMAIN list : s[i] = Stored(list[i])
    BY StoredWhole
  <1>2. FirstOnes(s, loaded)
    BY CutLoaded
  <1>3. Len(list) \in Nat /\ DOMAIN list = 1 .. Len(list)
    BY ListLength DEF Whole, IsItems
  <1> HIDE DEF s, loaded
  <1>4. PICK n \in 0 .. Len(list) :
          \/ loaded = FirstItems(s, n)
          \/ n > 0 /\ IsSession(s[n]) /\ loaded = FirstItems(CutId(s, n), n)
    BY <1>1, <1>2 DEF FirstOnes
  <1>5. ASSUME n > 0, IsSession(s[n]) PROVE IsSession(list[n])
    <2>1. n \in DOMAIN list
      BY <1>3, <1>5
    <2>2. s[n] = Stored(list[n]) /\ WellMade(list[n])
      BY <1>1, <2>1 DEF Made
    <2>3. Stored(list[n]).kind = list[n].kind
      BY <2>2, StoredKeepable
    <2> QED BY <1>5, <2>2, <2>3 DEF IsSession
  <1> QED BY <1>4, <1>5 DEF s, loaded

(* Whatever was in the file before and whatever the names are, what is     *)
(* written of a list is read as that list when its names can be held, and  *)
(* always with every session of it; and what is left of a write that was   *)
(* cut short is read as the first items of the list, their groups closed.  *)
THEOREM FilesLoadAsSaved == Spec => []FileLoadsAsSaved
  <1>1. FileInv => FileLoadsAsSaved
    <2> SUFFICES ASSUME FileInv PROVE FileLoadsAsSaved
      OBVIOUS
    <2> DEFINE list == written.list
               good == \A i \in DOMAIN list : Storable(list[i])
               safe == \A i \in DOMAIN list : SafelyCut(list[i])
    <2>1. SavedInv
      BY DEF FileInv
    <2>2. StoredList(list) = [i \in DOMAIN list |-> Stored(list[i])]
      BY DEF StoredList
    <2>3. CASE written.state = "whole"
      <3>1. Whole(list) /\ Made(list) /\ file = SavedFile(list)
        BY <2>1, <2>3 DEF SavedInv
      <3>2. good => ParseMarkdownItems(file) = StoredList(list)
        BY <3>1, WholeLoaded
      <3>3. SessionIds(StoredList(list)) \subseteq SessionIds(ParseMarkdownItems(file))
        BY <3>1, IdsLoaded
      <3> QED BY <2>2, <2>3, <3>2, <3>3 DEF FileLoadsAsSaved
    <2>4. CASE written.state = "cut" /\ good /\ safe
      <3>1. Whole(list) /\ Made(list) /\ file \in CutFiles(SavedFile(list))
        BY <2>1, <2>4 DEF SavedInv
      <3>2. \E n \in 0 .. Len(list) :
              \/ ParseMarkdownItems(file) = FirstItems(StoredList(list), n)
              \/ /\ n > 0 /\ IsSession(list[n])
                 /\ ParseMarkdownItems(file) = FirstItems(CutId(StoredList(list), n), n)
        BY <2>4, <3>1, CutShort
      <3> QED BY <2>2, <2>4, <3>2 DEF FileLoadsAsSaved
    <2>5. CASE written.state # "whole" /\ ~(written.state = "cut" /\ good /\ safe)
      BY <2>5 DEF FileLoadsAsSaved
    <2> QED BY <2>3, <2>4, <2>5
  <1> QED BY <1>1, FileInvInit, FileInvNext, PTL DEF Spec
=============================================================================
