------------------------------ MODULE PoolProofs ------------------------------
(***************************************************************************)
(* The two pools of the framework, of limited size.  IdRange, for any      *)
(* range, step, initial number and increase: the list with its cursor      *)
(* implements the pool of identifiers.  ObjectCache, for any keys,         *)
(* capacity and time to live: no change is lost, and the object that goes  *)
(* is the one that was not asked for for the longest time.                 *)
(***************************************************************************)
EXTENDS IdRange, ObjectCache, SequenceTheorems, FiniteSetTheorems, TLAPS

-----------------------------------------------------------------------------
(* Identifiers: the invariant.                                             *)

\* The identifiers in the list differ, and are below the next one to be made; those
\* before the cursor are held, and no others.
RangeInv ==
  /\ list \in Seq(Nat) /\ cursor \in 1 .. Len(list) + 1 /\ nextId \in Nat
  /\ \A i, j \in 1 .. Len(list) : list[i] = list[j] => i = j
  /\ \A i \in 1 .. Len(list) : list[i] < nextId
  /\ holding = {list[i] : i \in 1 .. cursor - 1}

\* m_dwCount is the number of identifiers in use.
CountInv == IsFiniteSet(holding) /\ idCount = Cardinality(holding)

-----------------------------------------------------------------------------
(* Identifiers: Resize.                                                    *)

LEMMA TimesMonotone ==
  ASSUME NEW a \in Nat, NEW b \in Nat, a < b
  PROVE  a * Step < b * Step
BY RangeAssumption

\* Resize makes identifiers that are new, and differ.
LEMMA MadeNew ==
  ASSUME NEW from \in Nat, NEW n \in Nat
  PROVE  /\ Made(from, n) \in Seq(Nat) /\ Len(Made(from, n)) = n
         /\ \A i \in 1 .. n : from <= Made(from, n)[i] /\ Made(from, n)[i] < from + n * Step
         /\ \A i, j \in 1 .. n : Made(from, n)[i] = Made(from, n)[j] => i = j
<1> DEFINE m == Made(from, n)
<1>1. \A i \in 1 .. n : (i - 1) * Step \in Nat /\ (i - 1) * Step < n * Step
  BY TimesMonotone, RangeAssumption
<1>2. \A i \in 1 .. n : m[i] = from + (i - 1) * Step
  BY DEF Made
<1>3. m \in [1 .. n -> Nat]
  BY <1>1 DEF Made
<1>4. m \in Seq(Nat) /\ Len(m) = n
  <2>1. m \in Seq(Nat)
    BY <1>3, SeqDef
  <2>2. Len(m) \in Nat /\ DOMAIN m = 1 .. Len(m)
    BY <2>1, LenProperties
  <2> QED  BY <1>3, <2>1, <2>2
<1>5. n * Step \in Nat
  BY RangeAssumption
<1>6. \A i \in 1 .. n : from <= m[i] /\ m[i] < from + n * Step
  BY <1>1, <1>2, <1>5
<1>7. ASSUME NEW i \in 1 .. n, NEW j \in 1 .. n, i < j
      PROVE  m[i] # m[j]
  <2>1. (i - 1) * Step < (j - 1) * Step
    BY <1>7, TimesMonotone
  <2> QED  BY <1>1, <1>2, <2>1
<1>8. \A i, j \in 1 .. n : m[i] = m[j] => i = j
  BY <1>7
<1> QED  BY <1>4, <1>6, <1>8

-----------------------------------------------------------------------------
(* Identifiers: the list.                                                  *)

\* What is free: the list from the cursor on.
LEMMA FreePart ==
  ASSUME NEW s \in Seq(Nat), NEW c \in 1 .. Len(s) + 1
  PROVE  /\ SubSeq(s, c, Len(s)) \in Seq(Nat) /\ Len(SubSeq(s, c, Len(s))) = Len(s) - c + 1
         /\ \A i \in 1 .. Len(s) - c + 1 : SubSeq(s, c, Len(s))[i] = s[c + i - 1]
<1>1. Len(s) \in Nat
  BY LenProperties
<1> QED  BY <1>1, SubSeqProperties

\* Two parts and an identifier behind them.
LEMMA JoinedParts ==
  ASSUME NEW n \in Nat, NEW p \in 1 .. n, NEW a \in Seq(Nat), NEW b \in Seq(Nat), NEW x \in Nat,
         Len(a) = p - 1, Len(b) = n - p
  PROVE  /\ a \o b \o <<x>> \in Seq(Nat) /\ Len(a \o b \o <<x>>) = n
         /\ \A i \in 1 .. n : (a \o b \o <<x>>)[i] = IF i < p THEN a[i]
                                                     ELSE IF i < n THEN b[i - p + 1] ELSE x
<1>1. /\ a \o b \in Seq(Nat)
      /\ Len(a \o b) = Len(a) + Len(b)
      /\ \A i \in 1 .. Len(a) + Len(b) :
           (a \o b)[i] = IF i <= Len(a) THEN a[i] ELSE b[i - Len(a)]
  BY ConcatProperties, Zenon
<1>2. /\ Len(a \o b) = n - 1
      /\ \A i \in 1 .. n - 1 : (a \o b)[i] = IF i < p THEN a[i] ELSE b[i - p + 1]
  <2>1. Len(a) + Len(b) = n - 1
    OBVIOUS
  <2>2. ASSUME NEW i \in 1 .. n - 1
        PROVE  (a \o b)[i] = IF i < p THEN a[i] ELSE b[i - p + 1]
    <3>1. i - Len(a) = i - p + 1 /\ (i <= Len(a) <=> i < p)
      OBVIOUS
    <3>2. (a \o b)[i] = IF i <= Len(a) THEN a[i] ELSE b[i - Len(a)]
      BY <1>1, <2>1, Zenon
    <3> QED  BY <3>1, <3>2, Zenon
  <2>3. Len(a \o b) = n - 1
    BY <1>1, <2>1, Zenon
  <2> QED  BY <2>2, <2>3, Zenon
<1>3. PICK c \in Seq(Nat) : c = a \o b
  BY <1>1
<1>4. <<x>> \in Seq(Nat) /\ Len(<<x>>) = 1 /\ <<x>>[1] = x
  OBVIOUS
<1>5. PICK d \in Seq(Nat) : d = <<x>>
  BY <1>4, Zenon
<1>6. Len(d) = 1 /\ d[1] = x
  BY <1>4, <1>5, Zenon
<1>7. /\ c \o d \in Seq(Nat)
      /\ Len(c \o d) = Len(c) + Len(d)
      /\ \A i \in 1 .. Len(c) + Len(d) :
           (c \o d)[i] = IF i <= Len(c) THEN c[i] ELSE d[i - Len(c)]
  BY ConcatProperties, Zenon
<1>8. Len(c) = n - 1
  BY <1>2, <1>3
<1>9. /\ Len(c \o d) = n
      /\ \A i \in 1 .. n : (c \o d)[i] = IF i < n THEN c[i] ELSE x
  <2>1. Len(c) + Len(d) = n
    BY <1>6, <1>8
  <2>2. ASSUME NEW i \in 1 .. n
        PROVE  (c \o d)[i] = IF i < n THEN c[i] ELSE x
    <3>1. (c \o d)[i] = IF i <= Len(c) THEN c[i] ELSE d[i - Len(c)]
      BY <1>7, <2>1
    <3>2. i <= Len(c) <=> i < n
      BY <1>8
    <3>3. ~(i < n) => i - Len(c) = 1
      BY <1>8
    <3> QED  BY <1>6, <3>1, <3>2, <3>3, Zenon
  <2> QED  BY <1>7, <2>1, <2>2
<1>10. \A i \in 1 .. n : (c \o d)[i] = IF i < p THEN a[i] ELSE IF i < n THEN b[i - p + 1] ELSE x
  <2>0. \A i \in 1 .. n : i < n => i \in 1 .. n - 1
    OBVIOUS
  <2>1. \A i \in 1 .. n : i < n => c[i] = IF i < p THEN a[i] ELSE b[i - p + 1]
    BY <1>2, <1>3, <2>0, Zenon
  <2> HIDE <1>3
  <2> QED  BY <1>9, <2>1
<1> QED  BY <1>3, <1>5, <1>7, <1>9, <1>10

\* Append of the list, of what Remove has unlinked.
LEMMA MovedPart ==
  ASSUME NEW p \in 1 .. Len(list), list \in Seq(Nat)
  PROVE  /\ MovedToEnd(p) \in Seq(Nat) /\ Len(MovedToEnd(p)) = Len(list)
         /\ \A i \in 1 .. Len(list) :
              MovedToEnd(p)[i] = IF i < p THEN list[i]
                                 ELSE IF i < Len(list) THEN list[i + 1] ELSE list[p]
<1>1. Len(list) \in Nat /\ \A i \in 1 .. Len(list) : list[i] \in Nat
  BY LenProperties, ElementOfSeq
<1>2. PICK a : a = SubSeq(list, 1, p - 1)
  OBVIOUS
<1>3. PICK b : b = SubSeq(list, p + 1, Len(list))
  OBVIOUS
<1>4. a \in Seq(Nat) /\ Len(a) = p - 1 /\ \A i \in 1 .. p - 1 : a[i] = list[i]
  <2>1. \A i \in 1 .. p - 1 : list[i] \in Nat
    BY <1>1
  <2> QED  BY <1>1, <1>2, <2>1, SubSeqProperties
<1>5. b \in Seq(Nat) /\ Len(b) = Len(list) - p /\ \A i \in 1 .. Len(list) - p : b[i] = list[p + i]
  <2>1. \A i \in p + 1 .. Len(list) : list[i] \in Nat
    BY <1>1
  <2>2. /\ b \in Seq(Nat)
        /\ Len(b) = IF p + 1 <= Len(list) THEN Len(list) - (p + 1) + 1 ELSE 0
        /\ \A i \in 1 .. Len(list) - (p + 1) + 1 : b[i] = list[p + 1 + i - 1]
    BY <1>1, <1>3, <2>1, SubSeqProperties
  <2> QED  BY <1>1, <2>2
<1>6. MovedToEnd(p) = a \o b \o <<list[p]>>
  BY <1>2, <1>3 DEF MovedToEnd
<1>7. /\ MovedToEnd(p) \in Seq(Nat) /\ Len(MovedToEnd(p)) = Len(list)
      /\ \A i \in 1 .. Len(list) :
           MovedToEnd(p)[i] = IF i < p THEN a[i]
                              ELSE IF i < Len(list) THEN b[i - p + 1] ELSE list[p]
  <2>1. p \in 1 .. Len(list) /\ list[p] \in Nat
    BY <1>1
  <2>2. PICK n \in Nat : n = Len(list)
    BY <1>1
  <2>3. PICK x \in Nat : x = list[p]
    BY <2>1
  <2>4. /\ p \in 1 .. n /\ a \in Seq(Nat) /\ b \in Seq(Nat)
        /\ Len(a) = p - 1 /\ Len(b) = n - p
    BY <1>4, <1>5, <2>1, <2>2
  <2>5. /\ a \o b \o <<x>> \in Seq(Nat) /\ Len(a \o b \o <<x>>) = n
        /\ \A i \in 1 .. n : (a \o b \o <<x>>)[i] = IF i < p THEN a[i]
                                                    ELSE IF i < n THEN b[i - p + 1] ELSE x
    BY <2>4, JoinedParts, SMTT(30)
  <2> QED  BY <1>6, <2>2, <2>3, <2>5, Zenon
<1>8. ASSUME NEW i \in 1 .. Len(list)
      PROVE  MovedToEnd(p)[i] = IF i < p THEN list[i]
                                ELSE IF i < Len(list) THEN list[i + 1] ELSE list[p]
  <2>1. i < p => a[i] = list[i]
    BY <1>1, <1>4
  <2>2. ~(i < p) /\ i < Len(list) => b[i - p + 1] = list[i + 1]
    <3>1. SUFFICES ASSUME ~(i < p), i < Len(list)
                   PROVE  b[i - p + 1] = list[i + 1]
      OBVIOUS
    <3>2. i - p + 1 \in 1 .. Len(list) - p /\ p + (i - p + 1) = i + 1
      BY <1>1, <3>1
    <3> QED  BY <1>5, <3>2
  <2> QED  BY <1>7, <2>1, <2>2
<1> QED  BY <1>7, <1>8
-----------------------------------------------------------------------------
(* Identifiers: the steps.                                                 *)

LEMMA ListFacts ==
  ASSUME RangeInv
  PROVE  /\ Len(list) \in Nat /\ DOMAIN list = 1 .. Len(list) /\ cursor \in Nat
         /\ \A i \in 1 .. Len(list) : list[i] \in Nat
BY LenProperties, ElementOfSeq DEF RangeInv

\* GetNext of the list gives the first free identifier out.
LEMMA GetStep ==
  ASSUME RangeInv, GetFree
  PROVE  RangeInv' /\ Pool!Get
<1>1. /\ cursor <= Len(list) /\ cursor' = cursor + 1
      /\ list' = list /\ nextId' = nextId /\ holding' = holding \cup {list[cursor]}
  BY DEF GetFree
<1>2. PICK f : f = SubSeq(list, cursor, Len(list))
  OBVIOUS
<1>3. Head(f) = list[cursor] /\ Tail(f) = SubSeq(list, cursor + 1, Len(list))
  <2>1. cursor \in 1 .. Len(list) /\ Len(list) \in cursor .. Len(list) /\ list \in Seq(Nat)
    BY <1>1, ListFacts DEF RangeInv
  <2> QED  BY <1>2, <2>1, HeadTailOfSubSeq, Zenon
<1>4. f # << >>
  <2>1. f \in Seq(Nat) /\ Len(f) = Len(list) - cursor + 1
    BY <1>2, FreePart, ListFacts DEF RangeInv
  <2>2. Len(f) # 0
    BY <1>1, <2>1, ListFacts
  <2> QED  BY <2>2, EmptySeq, Zenon
<1>5. Pool!Get
  BY <1>1, <1>2, <1>3, <1>4 DEF Pool!Get
<1>6. holding' = {list[i] : i \in 1 .. cursor' - 1}
  BY <1>1, ListFacts DEF RangeInv
<1> QED  BY <1>1, <1>5, <1>6, ListFacts DEF RangeInv

\* Resize makes identifiers, of which the first is given out.
LEMMA GrowStep ==
  ASSUME RangeInv, GetGrown
  PROVE  RangeInv' /\ Pool!GetNew
<1> DEFINE n == Len(list)
<1>1. /\ cursor = n + 1 /\ cursor' = cursor + 1 /\ nextId' = nextId + Increase * Step
      /\ list' = list \o Made(nextId, Increase) /\ holding' = holding \cup {nextId}
      /\ Increase \in Nat /\ Increase >= 1 /\ nextId \in Nat /\ Increase * Step \in Nat
  BY ListFacts, RangeAssumption DEF GetGrown, RangeInv
<1>2. PICK m \in Seq(Nat) :
        /\ m = Made(nextId, Increase) /\ Len(m) = Increase
        /\ \A i \in 1 .. Increase : nextId <= m[i] /\ m[i] < nextId + Increase * Step
        /\ \A i, j \in 1 .. Increase : m[i] = m[j] => i = j
  BY <1>1, MadeNew
<1>3. m[1] = nextId
  BY <1>1, <1>2, RangeAssumption DEF Made
<1>4. /\ list' \in Seq(Nat)
      /\ Len(list') = Len(list) + Len(m)
      /\ \A i \in 1 .. Len(list) + Len(m) :
           list'[i] = IF i <= Len(list) THEN list[i] ELSE m[i - Len(list)]
  <2>1. list \in Seq(Nat) /\ list' = list \o m
    BY <1>1, <1>2 DEF RangeInv
  <2> QED  BY <2>1, ConcatProperties, Zenon
<1>5. /\ n \in Nat /\ Len(list') = n + Increase
      /\ \A i \in 1 .. n : list'[i] = list[i]
      /\ \A i \in n + 1 .. n + Increase : i - n \in 1 .. Increase /\ list'[i] = m[i - n]
  <2>1. n \in Nat /\ Len(m) = Increase /\ Increase \in Nat
    BY <1>1, <1>2, ListFacts
  <2>2. /\ Len(list') = n + Increase
        /\ \A i \in 1 .. n + Increase : list'[i] = IF i <= n THEN list[i] ELSE m[i - n]
    BY <1>4, <2>1, Zenon
  <2> HIDE DEF n
  <2>3. /\ \A i \in 1 .. n : i \in 1 .. n + Increase /\ i <= n
        /\ \A i \in n + 1 .. n + Increase :
             i \in 1 .. n + Increase /\ ~(i <= n) /\ i - n \in 1 .. Increase
    BY <2>1
  <2> QED  BY <2>1, <2>2, <2>3, Zenon
<1>6. \A i \in 1 .. n : list[i] \in Nat /\ list[i] < nextId
  BY ListFacts DEF RangeInv
<1>7. \A i \in n + 1 .. n + Increase :
        list'[i] \in Nat /\ nextId <= list'[i] /\ list'[i] < nextId'
  <2>1. \A i \in 1 .. Increase : m[i] \in Nat
    BY <1>2, ElementOfSeq
  <2> QED  BY <1>1, <1>2, <1>5, <2>1
<1>8. \A i \in 1 .. n + Increase : list'[i] < nextId'
  BY <1>1, <1>5, <1>6, <1>7
<1>9. \A i, j \in 1 .. n + Increase : list'[i] = list'[j] => i = j
  <2> SUFFICES ASSUME NEW i \in 1 .. n + Increase, NEW j \in 1 .. n + Increase,
                      list'[i] = list'[j]
               PROVE  i = j
    OBVIOUS
  <2>1. CASE i <= n /\ j <= n
    <3>1. i \in 1 .. n /\ j \in 1 .. n
      BY <1>5, <2>1
    <3> QED  BY <1>5, <3>1 DEF RangeInv
  <2>2. CASE i > n /\ j > n
    <3>1. i \in n + 1 .. n + Increase /\ j \in n + 1 .. n + Increase
      BY <1>1, <1>5, <2>2
    <3>2. m[i - n] = m[j - n] /\ i - n \in 1 .. Increase /\ j - n \in 1 .. Increase
      BY <1>5, <3>1, Zenon
    <3>3. i - n = j - n
      BY <1>2, <3>2, Zenon
    <3>4. n \in Int /\ i \in Int /\ j \in Int
      BY <1>1, <1>5
    <3> HIDE DEF n
    <3> QED  BY <3>3, <3>4
  <2>3. CASE (i <= n /\ j > n) \/ (i > n /\ j <= n)
    <3>1. \A k \in 1 .. n, l \in n + 1 .. n + Increase : list'[k] # list'[l]
      <4>1. \A k \in 1 .. n : list'[k] \in Nat /\ list'[k] < nextId
        BY <1>5, <1>6
      <4>2. \A l \in n + 1 .. n + Increase : list'[l] \in Nat /\ nextId <= list'[l]
        BY <1>7
      <4>3. \A x \in Nat, y \in Nat : x < nextId /\ nextId <= y => x # y
        BY <1>1
      <4> QED  BY <4>1, <4>2, <4>3, Zenon
    <3>2. \/ i \in 1 .. n /\ j \in n + 1 .. n + Increase
          \/ j \in 1 .. n /\ i \in n + 1 .. n + Increase
      BY <1>1, <1>5, <2>3
    <3> QED  BY <3>1, <3>2, Zenon
  <2>4. i \in Int /\ j \in Int
    BY <1>1, <1>5
  <2> QED  BY <1>5, <2>1, <2>2, <2>3, <2>4
<1>10. list'[n + 1] = nextId
  <2>1. n + 1 \in n + 1 .. n + Increase /\ (n + 1) - n = 1
    BY <1>1, <1>5
  <2>2. list'[n + 1] = m[(n + 1) - n]
    BY <1>5, <2>1, Zenon
  <2> QED  BY <1>3, <2>1, <2>2
<1>11. holding' = {list'[i] : i \in 1 .. cursor' - 1}
  <2>1. holding = {list[i] : i \in 1 .. n}
    BY <1>1, <1>5 DEF RangeInv
  <2>2. \A i \in 1 .. n + 1 : i \in 1 .. n \/ i = n + 1
    BY <1>5
  <2>3. cursor' - 1 = n + 1
    BY <1>1, <1>5
  <2>4. 1 .. n \subseteq 1 .. n + 1 /\ n + 1 \in 1 .. n + 1
    BY <1>5
  <2>5. \A i \in 1 .. n : list'[i] = list[i]
    BY <1>5
  <2> HIDE DEF n
  <2>6. holding' = {list'[i] : i \in 1 .. n + 1}
    BY <1>1, <1>10, <2>1, <2>2, <2>4, <2>5, Zenon
  <2> QED  BY <2>3, <2>6, Zenon
<1>12. RangeInv'
  <2>1. cursor' \in 1 .. Len(list') + 1 /\ nextId' \in Nat
    BY <1>1, <1>5
  <2>2. Len(list') = n + Increase
    BY <1>5
  <2> HIDE DEF n
  <2> QED  BY <1>4, <1>8, <1>9, <1>11, <2>1, <2>2, Zenon DEF RangeInv
<1>13. PICK f : f = SubSeq(list, cursor, n)
  OBVIOUS
<1>14. f = << >>
  BY <1>1, <1>5, <1>13, SubSeqEmpty
<1>15. PICK g : g = SubSeq(list', cursor', Len(list'))
  OBVIOUS
<1>16. /\ g \in Seq(Nat) /\ Len(g) = Len(list') - cursor' + 1
       /\ \A i \in 1 .. Len(list') - cursor' + 1 : g[i] = list'[cursor' + i - 1]
  <2>1. list' \in Seq(Nat) /\ cursor' \in 1 .. Len(list') + 1
    BY <1>12, Zenon DEF RangeInv
  <2> QED  BY <1>15, <2>1, FreePart, Zenon
<1>17. DOMAIN g = 1 .. Increase - 1 /\ \A i \in 1 .. Increase - 1 : g[i] = list'[n + 1 + i]
  <2>1. Len(list') - cursor' + 1 = Increase - 1
        /\ \A i \in 1 .. Increase - 1 : cursor' + i - 1 = n + 1 + i
    BY <1>1, <1>5
  <2>2. DOMAIN g = 1 .. Increase - 1
    BY <1>16, <2>1, LenProperties
  <2>3. \A i \in 1 .. Increase - 1 : g[i] = list'[cursor' + i - 1]
    BY <1>16, <2>1, Zenon
  <2> QED  BY <2>1, <2>2, <2>3, Zenon
<1>18. \A i, j \in DOMAIN g : g[i] = g[j] => i = j
  <2> SUFFICES ASSUME NEW i \in 1 .. Increase - 1, NEW j \in 1 .. Increase - 1, g[i] = g[j]
               PROVE  i = j
    BY <1>17
  <2>1. n + 1 + i \in 1 .. n + Increase /\ n + 1 + j \in 1 .. n + Increase
    BY <1>1, <1>5
  <2>2. g[i] = list'[n + 1 + i] /\ g[j] = list'[n + 1 + j]
    BY <1>17, Zenon
  <2>3. n \in Int /\ i \in Int /\ j \in Int
    BY <1>1, <1>5
  <2> HIDE DEF n
  <2>4. n + 1 + i = n + 1 + j
    BY <1>9, <2>1, <2>2, Zenon
  <2> QED  BY <2>3, <2>4
<1>19. \A i \in DOMAIN g : g[i] \notin holding'
  <2>0. cursor' - 1 = n + 1
    BY <1>1, <1>5
  <2>1. ASSUME NEW i \in 1 .. Increase - 1, NEW k \in 1 .. n + 1
        PROVE  g[i] # list'[k]
    <3>1. n + 1 + i \in 1 .. n + Increase /\ k \in 1 .. n + Increase /\ n + 1 + i # k
      BY <1>1, <1>5
    <3>2. g[i] = list'[n + 1 + i]
      BY <1>17, Zenon
    <3> QED  BY <1>9, <3>1, <3>2, Zenon
  <2>2. holding' = {list'[k] : k \in 1 .. n + 1}
    BY <1>11, <2>0, Zenon
  <2> HIDE DEF n
  <2> QED  BY <1>17, <2>1, <2>2, Zenon
<1>20. nextId \notin holding
  BY <1>1, <1>6 DEF RangeInv
<1>21. nextId \in holding' /\ holding \subseteq holding'
  BY <1>1, Zenon
<1>22. Pool!Distinct(g)
  BY <1>18, Zenon DEF Pool!Distinct
<1>23. Pool!ElementsOf(g) \cap holding' = {}
  BY <1>19, Zenon DEF Pool!ElementsOf
<1>24. Pool!GetNew
  BY <1>1, <1>13, <1>14, <1>15, <1>20, <1>21, <1>22, <1>23, Zenon DEF Pool!GetNew
<1> QED  BY <1>12, <1>24

\* Remove unlinks an identifier that is held and appends it.
LEMMA BackStep ==
  ASSUME RangeInv, NEW p \in DOMAIN list, GiveIdBack(p)
  PROVE  RangeInv' /\ Pool!GiveBack /\ list[p] \in holding
<1> DEFINE n == Len(list)
           src(i) == IF i < p THEN i ELSE IF i < n THEN i + 1 ELSE p
<1>1. /\ n \in Nat /\ p \in 1 .. n /\ p \in Nat /\ p < cursor /\ cursor \in Nat /\ cursor <= n + 1
      /\ cursor' = cursor - 1 /\ nextId' = nextId /\ nextId \in Nat
      /\ list' = MovedToEnd(p) /\ holding' = holding \ {list[p]}
  <2>1. p \in 1 .. n
    BY ListFacts, Zenon
  <2> QED  BY <2>1, ListFacts DEF GiveIdBack, CursorAfter, RangeInv
<1>2. /\ list' \in Seq(Nat) /\ Len(list') = n
      /\ \A i \in 1 .. n : list'[i] = IF i < p THEN list[i]
                                      ELSE IF i < n THEN list[i + 1] ELSE list[p]
  <2>1. list \in Seq(Nat)
    BY DEF RangeInv
  <2> QED  BY <1>1, <2>1, MovedPart
<1>3. \A i \in 1 .. n : src(i) \in 1 .. n
  BY <1>1
<1>4. \A i \in 1 .. n : list'[i] = list[src(i)]
  BY <1>2
<1>5. \A i, j \in 1 .. n : src(i) = src(j) => i = j
  <2>1. ASSUME NEW i \in 1 .. n
        PROVE  /\ src(i) = p => i = n
               /\ src(i) < p => src(i) = i
               /\ src(i) > p => src(i) = i + 1
    <3>1. CASE i < p
      <4>1. src(i) = i
        BY <3>1
      <4> HIDE DEF src
      <4> QED  BY <1>1, <3>1, <4>1
    <3>2. CASE ~(i < p) /\ i < n
      <4>1. src(i) = i + 1
        BY <3>2
      <4> HIDE DEF src
      <4> QED  BY <1>1, <3>2, <4>1
    <3>3. CASE ~(i < p) /\ ~(i < n)
      <4>1. src(i) = p
        BY <3>3
      <4> HIDE DEF src
      <4> QED  BY <1>1, <3>3, <4>1
    <3> QED  BY <3>1, <3>2, <3>3, Zenon
  <2>2. \A i \in 1 .. n : src(i) \in Int
    BY <1>1, <1>3
  <2> HIDE DEF src
  <2> QED  BY <1>1, <2>1, <2>2
<1>6. \A i, j \in 1 .. n : list'[i] = list'[j] => i = j
  <2>1. \A i, j \in 1 .. n : list[i] = list[j] => i = j
    BY DEF RangeInv
  <2> HIDE DEF n, src
  <2> QED  BY <1>3, <1>4, <1>5, <2>1
<1>7. \A i \in 1 .. n : list'[i] < nextId'
  <2>1. \A i \in 1 .. n : list[i] < nextId
    BY DEF RangeInv
  <2> HIDE DEF n, src
  <2> QED  BY <1>1, <1>3, <1>4, <2>1
<1>8. holding' = {list'[i] : i \in 1 .. cursor' - 1}
  <2>1. holding = {list[i] : i \in 1 .. cursor - 1}
    BY DEF RangeInv
  <2>2. \A i \in 1 .. cursor' - 1 :
          i \in 1 .. n /\ src(i) \in 1 .. cursor - 1 /\ src(i) # p
    <3> SUFFICES ASSUME NEW i \in 1 .. cursor' - 1
                 PROVE  i \in 1 .. n /\ src(i) \in 1 .. cursor - 1 /\ src(i) # p
      OBVIOUS
    <3>1. i \in Nat /\ i >= 1 /\ i <= cursor - 2 /\ i < n
      BY <1>1
    <3>2. i \in 1 .. n
      BY <1>1, <3>1
    <3>3. CASE i < p
      <4>1. src(i) = i
        BY <3>3
      <4> HIDE DEF src
      <4> QED  BY <1>1, <3>1, <3>2, <3>3, <4>1
    <3>4. CASE ~(i < p)
      <4>1. src(i) = i + 1
        BY <3>1, <3>4
      <4> HIDE DEF src
      <4> QED  BY <1>1, <3>1, <3>2, <3>4, <4>1
    <3> QED  BY <3>3, <3>4, Zenon
  <2>3. \A k \in 1 .. cursor - 1 : k # p => \E i \in 1 .. cursor' - 1 : src(i) = k
    <3> SUFFICES ASSUME NEW k \in 1 .. cursor - 1, k # p
                 PROVE  \E i \in 1 .. cursor' - 1 : src(i) = k
      OBVIOUS
    <3>1. CASE k < p
      <4>1. k \in 1 .. cursor' - 1 /\ src(k) = k
        BY <1>1, <3>1
      <4> QED  BY <4>1
    <3>2. CASE k > p
      <4>1. k - 1 \in 1 .. cursor' - 1 /\ src(k - 1) = k
        BY <1>1, <3>2
      <4> QED  BY <4>1
    <3> QED  BY <1>1, <3>1, <3>2
  <2>4. \A k \in 1 .. cursor - 1 : k \in 1 .. n
    BY <1>1
  <2>5. \A i, j \in 1 .. n : list[i] = list[j] => i = j
    BY DEF RangeInv
  <2>6. p \in 1 .. n
    BY <1>1
  <2> HIDE DEF n, src
  <2>7. ASSUME NEW x \in holding' PROVE x \in {list'[i] : i \in 1 .. cursor' - 1}
    <3>1. PICK k \in 1 .. cursor - 1 : x = list[k] /\ k # p
      BY <1>1, <2>1, Zenon
    <3>2. PICK i \in 1 .. cursor' - 1 : src(i) = k
      BY <2>3, <3>1, Zenon
    <3>3. x = list'[i]
      BY <1>4, <2>2, <3>1, <3>2, Zenon
    <3> QED  BY <3>3, Zenon
  <2>8. ASSUME NEW i \in 1 .. cursor' - 1 PROVE list'[i] \in holding'
    <3>1. list'[i] = list[src(i)] /\ src(i) \in 1 .. cursor - 1 /\ src(i) # p
      BY <1>4, <2>2, Zenon
    <3>2. list[src(i)] # list[p]
      BY <2>4, <2>5, <2>6, <3>1, Zenon
    <3> QED  BY <1>1, <2>1, <3>1, <3>2, Zenon
  <2> QED  BY <2>7, <2>8, Zenon
<1>9. RangeInv'
  <2>1. cursor' \in 1 .. Len(list') + 1 /\ nextId' \in Nat
    BY <1>1, <1>2
  <2>2. Len(list') = n
    BY <1>2
  <2> HIDE DEF n, src
  <2> QED  BY <1>2, <1>6, <1>7, <1>8, <2>1, <2>2, Zenon DEF RangeInv
<1>10. list[p] \in holding
  BY <1>1 DEF RangeInv
<1>11. PICK f : f = SubSeq(list, cursor, n)
  OBVIOUS
<1>12. PICK g : g = SubSeq(list', cursor', Len(list'))
  OBVIOUS
<1>13. /\ f \in Seq(Nat) /\ Len(f) = n - cursor + 1
       /\ \A i \in 1 .. n - cursor + 1 : f[i] = list[cursor + i - 1]
  BY <1>11, FreePart DEF RangeInv
<1>14. /\ g \in Seq(Nat) /\ Len(g) = n - cursor + 2
       /\ \A i \in 1 .. n - cursor + 2 : g[i] = list'[cursor + i - 2]
  <2>1. /\ g \in Seq(Nat) /\ Len(g) = Len(list') - cursor' + 1
        /\ \A i \in 1 .. Len(list') - cursor' + 1 : g[i] = list'[cursor' + i - 1]
    <3>1. list' \in Seq(Nat) /\ cursor' \in 1 .. Len(list') + 1
      BY <1>9, Zenon DEF RangeInv
    <3> QED  BY <1>12, <3>1, FreePart, Zenon
  <2>2. /\ Len(list') - cursor' + 1 = n - cursor + 2
        /\ \A i \in 1 .. n - cursor + 2 : cursor' + i - 1 = cursor + i - 2
    BY <1>1, <1>2
  <2> QED  BY <2>1, <2>2
<1>15. list[p] \in Nat
  BY <1>1, ListFacts
<1>16. PICK h : h = Append(f, list[p])
  OBVIOUS
<1>17. /\ h \in Seq(Nat) /\ Len(h) = Len(f) + 1
       /\ \A i \in 1 .. Len(f) : h[i] = f[i]
       /\ h[Len(f) + 1] = list[p]
  BY <1>13, <1>15, <1>16, AppendProperties
<1>18. \A i \in 1 .. n - cursor + 2 : g[i] = h[i]
  <2> SUFFICES ASSUME NEW i \in 1 .. n - cursor + 2
               PROVE  g[i] = h[i]
    OBVIOUS
  <2>1. i \in Nat /\ i >= 1 /\ cursor + i - 2 \in 1 .. n /\ cursor + i - 2 >= p
    BY <1>1
  <2>2. g[i] = IF cursor + i - 2 < n THEN list[cursor + i - 1] ELSE list[p]
    <3>1. /\ Len(list') = n
          /\ \A k \in 1 .. n : list'[k] = IF k < p THEN list[k]
                                         ELSE IF k < n THEN list[k + 1] ELSE list[p]
      BY <1>2, Zenon
    <3>2. PICK k : k = cursor + i - 2
      OBVIOUS
    <3>3. k \in 1 .. n /\ ~(k < p) /\ k + 1 = cursor + i - 1
      BY <1>1, <2>1, <3>2
    <3> HIDE DEF n, src
    <3>4. list'[k] = IF k < n THEN list[k + 1] ELSE list[p]
      BY <3>1, <3>3, Zenon
    <3>5. g[i] = list'[k]
      BY <1>14, <3>2, Zenon
    <3> QED  BY <3>2, <3>3, <3>4, <3>5, Zenon
  <2>3. CASE i <= n - cursor + 1
    <3>1. i \in 1 .. n - cursor + 1 /\ cursor + i - 2 < n
      BY <1>1, <2>1, <2>3
    <3> QED  BY <1>13, <1>17, <2>2, <3>1
  <2>4. CASE i = n - cursor + 2
    <3>1. ~(cursor + i - 2 < n) /\ i = Len(f) + 1
      BY <1>1, <1>13, <2>4
    <3> QED  BY <1>17, <2>2, <3>1
  <2> QED  BY <1>1, <2>1, <2>3, <2>4
<1>19. g = h
  <2>1. Len(g) = Len(h)
    BY <1>1, <1>13, <1>14, <1>17
  <2>2. \A i \in 1 .. Len(g) : g[i] = h[i]
    BY <1>14, <1>18
  <2> QED  BY <1>14, <1>17, <2>1, <2>2, SeqEqual, Zenon
<1>20. Pool!GiveBack
  BY <1>1, <1>10, <1>11, <1>12, <1>16, <1>19, Zenon DEF Pool!GiveBack
<1> QED  BY <1>9, <1>10, <1>20

-----------------------------------------------------------------------------
(* Identifiers: the theorems.                                              *)

LEMMA RangeInvInit ==
  ASSUME RangeInit
  PROVE  RangeInv /\ CountInv /\ Pool!PoolInit
<1>1. /\ list \in Seq(Nat) /\ Len(list) = IdInit
      /\ \A i \in 1 .. IdInit : IdStart <= list[i] /\ list[i] < nextId
      /\ \A i, j \in 1 .. IdInit : list[i] = list[j] => i = j
  BY MadeNew, RangeAssumption DEF RangeInit
<1>2. cursor = 1 /\ holding = {} /\ idCount = 0 /\ IdInit \in Nat
  BY RangeAssumption DEF RangeInit
<1>3. nextId \in Nat
  BY RangeAssumption DEF RangeInit
<1>4. holding = {list[i] : i \in 1 .. cursor - 1}
  BY <1>2
<1>5. RangeInv
  BY <1>1, <1>2, <1>3, <1>4 DEF RangeInv
<1>6. CountInv
  BY <1>2, FS_EmptySet DEF CountInv
<1>7. PICK f : f = SubSeq(list, cursor, Len(list))
  OBVIOUS
<1>8. /\ DOMAIN f = 1 .. IdInit
      /\ \A i \in 1 .. IdInit : f[i] = list[i]
  <2>1. /\ f \in Seq(Nat) /\ Len(f) = Len(list) - cursor + 1
        /\ \A i \in 1 .. Len(list) - cursor + 1 : f[i] = list[cursor + i - 1]
    BY <1>5, <1>7, FreePart DEF RangeInv
  <2>2. Len(list) - cursor + 1 = IdInit /\ \A i \in 1 .. IdInit : cursor + i - 1 = i
    BY <1>1, <1>2
  <2> QED  BY <2>1, <2>2, LenProperties
<1>9. Pool!Distinct(f)
  BY <1>1, <1>8, Zenon DEF Pool!Distinct
<1> QED  BY <1>2, <1>5, <1>6, <1>7, <1>9, Zenon DEF Pool!PoolInit

\* The count follows the identifiers that are held.
LEMMA CountStep ==
  ASSUME RangeInv, CountInv, RangeNext
  PROVE  CountInv'
<1>1. CASE GetFree
  <2>1. list[cursor] \notin holding
    <3>1. cursor \in 1 .. Len(list) /\ \A i \in 1 .. cursor - 1 : i \in 1 .. Len(list) /\ i # cursor
      BY <1>1, ListFacts DEF GetFree, RangeInv
    <3>2. \A i \in 1 .. cursor - 1 : list[i] # list[cursor]
      BY <3>1 DEF RangeInv
    <3> QED  BY <3>2, Zenon DEF RangeInv
  <2> QED  BY <1>1, <2>1, FS_AddElement DEF GetFree, CountInv
<1>2. CASE GetGrown
  <2>1. nextId \notin holding
    <3>1. \A i \in 1 .. cursor - 1 : list[i] # nextId
      <4>1. \A i \in 1 .. cursor - 1 : i \in 1 .. Len(list)
        BY ListFacts DEF RangeInv
      <4>2. \A i \in 1 .. Len(list) : list[i] # nextId
        BY ListFacts DEF RangeInv
      <4> QED  BY <4>1, <4>2, Zenon
    <3> QED  BY <3>1, Zenon DEF RangeInv
  <2> QED  BY <1>2, <2>1, FS_AddElement DEF GetGrown, CountInv
<1>3. ASSUME NEW p \in DOMAIN list, GiveIdBack(p)
      PROVE  CountInv'
  BY <1>3, BackStep, FS_RemoveElement DEF GiveIdBack, CountInv
<1> QED  BY <1>1, <1>2, <1>3 DEF RangeNext

\* Every step keeps the invariant and is one of the pool's.
LEMMA PoolStep ==
  ASSUME RangeInv, RangeNext
  PROVE  RangeInv' /\ (Pool!Get \/ Pool!GetNew \/ Pool!GiveBack)
BY GetStep, GrowStep, BackStep DEF RangeNext

LEMMA RangeUnmoved ==
  ASSUME UNCHANGED rangeVars
  PROVE  /\ RangeInv => RangeInv'
         /\ CountInv => CountInv'
         /\ UNCHANGED <<holding, SubSeq(list, cursor, Len(list))>>
BY DEF rangeVars, RangeInv, CountInv

\* The variables have their types, and m_dwCount, which GetNext compares with the range,
\* is the number of identifiers that callers have.
THEOREM RangeTypeCorrect == RangeSpec => []RangeTypeOK
<1>1. RangeInit => RangeInv /\ CountInv
  BY RangeInvInit
<1>2. (RangeInv /\ CountInv) /\ [RangeNext]_rangeVars => (RangeInv /\ CountInv)'
  BY PoolStep, CountStep, RangeUnmoved
<1>3. RangeInv /\ CountInv => RangeTypeOK
  <2> SUFFICES ASSUME RangeInv, CountInv
               PROVE  RangeTypeOK
    OBVIOUS
  <2>1. \A i \in 1 .. cursor - 1 : list[i] \in Nat
    BY ListFacts DEF RangeInv
  <2>2. holding \subseteq Nat
    BY <2>1, Zenon DEF RangeInv
  <2> QED  BY <2>2 DEF RangeTypeOK, RangeInv, CountInv
<1> QED  BY <1>1, <1>2, <1>3, PTL DEF RangeSpec

\* CObjID implements the pool: whatever the range, the step and the increase, nobody gets
\* an identifier that another one holds, and the longest free one goes first.
THEOREM PoolImplemented == RangeSpec => GivenOutInTurn
<1>1. RangeInit => RangeInv /\ Pool!PoolInit
  BY RangeInvInit
<1>2. RangeInv /\ [RangeNext]_rangeVars
        => RangeInv' /\ [Pool!Get \/ Pool!GetNew \/ Pool!GiveBack]_<<holding, SubSeq(list, cursor, Len(list))>>
  BY PoolStep, RangeUnmoved
<1> QED  BY <1>1, <1>2, PTL DEF RangeSpec, GivenOutInTurn, Pool!PoolSpec

-----------------------------------------------------------------------------
(* Identifiers: how many are made.                                         *)

\* The list grows only when all of it is given out: the identifiers in use, that GetNext
\* compares with the range, are then those that were made.  A step is counted in the
\* comparison, but the identifiers made before it are counted once, whatever the step.
MadeInv ==
  /\ idCount = cursor - 1
  /\ nextId = IdStart + Len(list) * Step
  /\ Len(list) = IdInit \/ Len(list) + Increase * (Step - 1) < IdNumMax

LEMMA MadeStep ==
  ASSUME RangeInv, MadeInv, RangeNext
  PROVE  MadeInv'
<1>1. Len(list) \in Nat /\ cursor \in Nat /\ idCount = cursor - 1
  BY ListFacts DEF MadeInv
<1>2. CASE GetFree
  <2>1. UNCHANGED <<list, nextId>> /\ cursor' = cursor + 1 /\ idCount' = idCount + 1
    BY <1>2 DEF GetFree
  <2>2. idCount' = cursor' - 1
    BY <1>1, <2>1
  <2> QED  BY <2>1, <2>2 DEF MadeInv
<1>3. CASE GetGrown
  <2>1. /\ cursor > Len(list) /\ idCount + Increase * Step < IdNumMax
        /\ cursor' = cursor + 1 /\ idCount' = idCount + 1 /\ nextId' = nextId + Increase * Step
        /\ list' = list \o Made(nextId, Increase)
    BY <1>3 DEF GetGrown
  <2>2. nextId \in Nat /\ Increase \in Nat /\ Step \in Nat /\ IdStart \in Nat /\ cursor <= Len(list) + 1
    BY RangeAssumption DEF RangeInv
  <2>3. Len(list') = Len(list) + Increase
    <3>1. PICK m \in Seq(Nat) : m = Made(nextId, Increase) /\ Len(m) = Increase
      BY <2>2, MadeNew
    <3>2. list \in Seq(Nat)
      BY DEF RangeInv
    <3> QED  BY <2>1, <3>1, <3>2, ConcatProperties
  <2>4. idCount = Len(list) /\ idCount' = cursor' - 1
    BY <1>1, <2>1, <2>2
  <2>5. nextId' = IdStart + Len(list') * Step
    <3>1. (Len(list) + Increase) * Step = Len(list) * Step + Increase * Step
      BY <1>1, <2>2
    <3>2. Len(list) * Step \in Nat /\ Increase * Step \in Nat
      BY <1>1, <2>2
    <3>3. nextId = IdStart + Len(list) * Step
      BY DEF MadeInv
    <3> QED  BY <2>1, <2>2, <2>3, <3>1, <3>2, <3>3
  <2>6. Len(list') + Increase * (Step - 1) < IdNumMax
    <3>1. Increase * (Step - 1) = Increase * Step - Increase
      BY <2>2
    <3>2. Increase * Step \in Nat /\ IdNumMax \in Nat
      BY <2>2, RangeAssumption
    <3> QED  BY <1>1, <2>1, <2>2, <2>3, <2>4, <3>1, <3>2
  <2> QED  BY <2>4, <2>5, <2>6 DEF MadeInv
<1>4. ASSUME NEW p \in DOMAIN list, GiveIdBack(p)
      PROVE  MadeInv'
  <2>1. /\ list' = MovedToEnd(p) /\ UNCHANGED nextId
        /\ cursor' = cursor - 1 /\ idCount' = idCount - 1
    BY <1>4 DEF GiveIdBack, CursorAfter
  <2>2. Len(list') = Len(list)
    BY <2>1, MovedPart, ListFacts DEF RangeInv
  <2>3. idCount' = cursor' - 1
    BY <1>1, <2>1
  <2> QED  BY <2>1, <2>2, <2>3 DEF MadeInv
<1> QED  BY <1>2, <1>3, <1>4 DEF RangeNext

\* CObjID never makes more identifiers than it was given at first or than its range has,
\* although its guard (IDCtrl.cpp:85) counts the ones in use; how far the last one is from
\* the first is the step times their number, which the guard does not look at.
THEOREM IdentifiersMade == RangeSpec => []MadeInv
<1>1. RangeInit => MadeInv
  <2> SUFFICES ASSUME RangeInit
               PROVE  MadeInv
    OBVIOUS
  <2>1. Len(list) = IdInit
    BY MadeNew, RangeAssumption DEF RangeInit
  <2> QED  BY <2>1 DEF RangeInit, MadeInv
<1>2. MadeInv /\ UNCHANGED rangeVars => MadeInv'
  BY DEF MadeInv, rangeVars
<1>3. RangeInv /\ MadeInv /\ [RangeNext]_rangeVars => RangeInv' /\ MadeInv'
  BY <1>2, MadeStep, PoolStep, RangeUnmoved
<1> QED  BY <1>1, <1>3, RangeInvInit, PTL DEF RangeSpec

-----------------------------------------------------------------------------
(* Objects: the invariant.                                                 *)

\* The list is in the order in which its objects were got.
InvOrder == inFront = gotAfter \cap (listed \X listed)

ObjInv == ObjTypeOK /\ ChangesKept /\ InvOrder

-----------------------------------------------------------------------------
(* Objects: the relations.                                                 *)

\* What is left when keys are taken out of the list.
LEMMA WithoutKeeps ==
  ASSUME NEW R, NEW S, NEW K
  PROVE  Without(R \cap (S \X S), K) = R \cap ((S \ K) \X (S \ K))
BY DEF Without

\* Putting a key in front of all keys puts it in front of those in the list.
LEMMA FrontKeeps ==
  ASSUME NEW S \in SUBSET Keys, NEW k \in Keys, NEW R
  PROVE  /\ ToFront(R, k, Keys) \cap (S \X S) = ToFront(R \cap (S \X S), k, S) \cap (S \X S)
         /\ ToFront(R, k, Keys) \cap ((S \cup {k}) \X (S \cup {k}))
              = ToFront(R \cap (S \X S), k, S)
BY DEF ToFront, Without

-----------------------------------------------------------------------------
(* Objects: the steps.                                                     *)

\* GetData finds the object.
LEMMA HitStep ==
  ASSUME ObjInv, NEW k \in Keys, GetHit(k)
  PROVE  ObjInv'
<1>1. /\ k \in listed /\ listed' = listed /\ using' = k
      /\ inFront' = ToFront(inFront, k, listed) /\ gotAfter' = ToFront(gotAfter, k, Keys)
      /\ UNCHANGED <<contents, loadedFor, resident, saved, latest>>
  BY DEF GetHit, Hit, Got
<1>2. inFront' = gotAfter' \cap (listed' \X listed')
  <2>1. listed \cup {k} = listed
    BY <1>1
  <2> QED  BY <1>1, <2>1, FrontKeeps DEF ObjInv, ObjTypeOK, InvOrder
<1>3. ObjTypeOK'
  <2>1. gotAfter' \subseteq Keys \X Keys
    BY <1>1 DEF ToFront, Without, ObjInv, ObjTypeOK
  <2>2. inFront' \subseteq listed' \X listed'
    BY <1>2
  <2> QED  BY <1>1, <2>1, <2>2 DEF ObjInv, ObjTypeOK
<1>4. ChangesKept'
  BY <1>1 DEF ObjInv, ChangesKept
<1> QED  BY <1>2, <1>3, <1>4 DEF ObjInv, InvOrder

\* GetData does not find it, has deleted others, and loads it or not.
LEMMA LoadStep ==
  ASSUME ObjInv, NEW k \in Keys, k \notin listed, NEW gone \in SUBSET listed, Load(k, gone),
         Cardinality(listed \ gone) < Capacity
  PROVE  ObjInv'
<1> DEFINE left == listed \ gone
<1>1. /\ saved' = [j \in Keys |-> IF j \in gone THEN contents[j] ELSE saved[j]]
      /\ loadedFor' = Forget(loadedFor, gone) /\ resident' = resident /\ latest' = latest
  BY DEF Load, SaveInnerData
<1>2. /\ listed \subseteq Keys /\ IsFiniteSet(listed) /\ gotAfter \subseteq Keys \X Keys
      /\ resident \subseteq Keys /\ NoKey \notin Keys
      /\ contents \in [Keys -> Nat] /\ loadedFor \in [Keys -> Nat]
      /\ saved \in [Keys -> Nat] /\ latest \in [Keys -> Nat]
      /\ \A j \in Keys : latest[j] = IF j \in listed THEN contents[j] ELSE saved[j]
      /\ inFront = gotAfter \cap (listed \X listed)
  BY ObjectAssumption DEF ObjInv, ObjTypeOK, ChangesKept, InvOrder
<1>3. loadedFor' \in [Keys -> Nat] /\ saved' \in [Keys -> Nat] /\ latest' \in [Keys -> Nat]
  BY <1>1, <1>2 DEF Forget
<1>4. Forget(contents, gone) \in [Keys -> Nat]
  BY <1>2 DEF Forget
<1>5. IsFiniteSet(left) /\ Cardinality(left) \in Nat
  BY <1>2, FS_Subset, FS_CardinalityType
<1>6. Without(inFront, gone) = gotAfter \cap (left \X left)
  <2>1. inFront = gotAfter \cap (listed \X listed)
    BY <1>2
  <2>2. Without(gotAfter \cap (listed \X listed), gone) = gotAfter \cap (left \X left)
    BY WithoutKeeps
  <2> QED  BY <2>1, <2>2
<1>7. k \notin left /\ left \subseteq Keys
  BY <1>2
<1>8. CASE /\ listed' = left \cup {k}
           /\ inFront' = ToFront(Without(inFront, gone), k, left)
           /\ contents' = [Forget(contents, gone) EXCEPT ![k] = saved[k]]
           /\ Got(k)
  <2>1. gotAfter' = ToFront(gotAfter, k, Keys) /\ using' = k
    BY <1>8 DEF Got
  <2>2. inFront' = gotAfter' \cap (listed' \X listed')
    <3>1. left \in SUBSET Keys
      BY <1>7
    <3> HIDE DEF left
    <3>2. ToFront(gotAfter, k, Keys) \cap ((left \cup {k}) \X (left \cup {k}))
            = ToFront(gotAfter \cap (left \X left), k, left)
      BY <3>1, FrontKeeps
    <3> QED  BY <1>6, <1>8, <2>1, <3>2
  <2>3. IsFiniteSet(listed') /\ Cardinality(listed') = Cardinality(left) + 1
    BY <1>5, <1>7, <1>8, FS_AddElement
  <2>4. Cardinality(listed') <= Capacity
    BY <1>5, <2>3, ObjectAssumption
  <2>5. contents' \in [Keys -> Nat] /\ contents'[k] = saved[k]
        /\ \A j \in Keys \ {k} : contents'[j] = IF j \in gone THEN 0 ELSE contents[j]
    BY <1>2, <1>4, <1>8 DEF Forget
  <2>6. gotAfter' \subseteq Keys \X Keys
    BY <1>2, <2>1 DEF ToFront, Without
  <2>7. ASSUME NEW j \in Keys
        PROVE  latest'[j] = IF j \in listed' THEN contents'[j] ELSE saved'[j]
    <3>1. CASE j = k
      BY <1>1, <1>2, <1>8, <2>5, <3>1
    <3>2. CASE j # k
      BY <1>1, <1>2, <1>8, <2>5, <3>2
    <3> QED  BY <3>1, <3>2
  <2>8. ObjTypeOK'
    BY <1>1, <1>2, <1>3, <1>7, <1>8, <2>1, <2>2, <2>3, <2>5, <2>6 DEF ObjTypeOK
  <2>9. ChangesKept'
    BY <1>8, <2>1, <2>4, <2>7 DEF ChangesKept
  <2> QED  BY <2>2, <2>8, <2>9 DEF ObjInv, InvOrder
<1>9. CASE /\ listed' = left
           /\ inFront' = Without(inFront, gone)
           /\ contents' = Forget(contents, gone)
           /\ using' = NoKey
           /\ UNCHANGED gotAfter
  <2>1. inFront' = gotAfter' \cap (listed' \X listed')
    BY <1>6, <1>9
  <2>2. ObjTypeOK'
    BY <1>1, <1>2, <1>3, <1>4, <1>5, <1>7, <1>9, <2>1 DEF ObjTypeOK
  <2>3. \A j \in Keys : latest'[j] = IF j \in listed' THEN contents'[j] ELSE saved'[j]
    BY <1>1, <1>2, <1>9 DEF Forget
  <2>4. Cardinality(listed') <= Capacity
    BY <1>5, <1>9, ObjectAssumption
  <2>5. ChangesKept'
    BY <1>9, <2>3, <2>4 DEF ChangesKept
  <2> QED  BY <2>1, <2>2, <2>5 DEF ObjInv, InvOrder
<1> QED  BY <1>8, <1>9 DEF Load

\* A full cache: the victim goes, or nothing happens.
LEMMA FullStep ==
  ASSUME ObjInv, NEW k \in Keys, GetMissFull(k)
  PROVE  ObjInv'
<1>1. k \notin listed /\ IsFiniteSet(listed) /\ Cardinality(listed) <= Capacity
  BY DEF GetMissFull, ObjInv, ObjTypeOK, ChangesKept
<1>2. ASSUME NEW v \in listed, Load(k, {v})
      PROVE  ObjInv'
  <2>1. Cardinality(listed \ {v}) = Cardinality(listed) - 1 /\ Cardinality(listed) \in Nat
    BY <1>1, FS_RemoveElement, FS_CardinalityType
  <2>2. Cardinality(listed \ {v}) < Capacity
    BY <1>1, <2>1, ObjectAssumption
  <2>3. {v} \in SUBSET listed
    OBVIOUS
  <2> QED  BY <1>1, <1>2, <2>2, <2>3, LoadStep
<1>3. CASE /\ using' = NoKey
           /\ UNCHANGED <<listed, inFront, contents, loadedFor, resident, saved, latest, gotAfter>>
  BY <1>3 DEF ObjInv, ObjTypeOK, ChangesKept, InvOrder
<1> QED  BY <1>2, <1>3 DEF GetMissFull

\* OnTimer saves and deletes objects.
LEMMA CleanStep ==
  ASSUME ObjInv, NEW gone \in SUBSET listed, Clean(gone, gone)
  PROVE  ObjInv'
<1>1. /\ saved' = [j \in Keys |-> IF j \in gone THEN contents[j] ELSE saved[j]]
      /\ listed' = listed \ gone /\ inFront' = Without(inFront, gone)
      /\ contents' = Forget(contents, gone) /\ loadedFor' = Forget(loadedFor, gone)
      /\ using' = NoKey /\ UNCHANGED <<resident, latest, gotAfter>>
  BY DEF Clean, SaveInnerData
<1>2. inFront' = gotAfter' \cap (listed' \X listed')
  BY <1>1, WithoutKeeps DEF ObjInv, InvOrder
<1>3. /\ IsFiniteSet(listed') /\ Cardinality(listed') <= Cardinality(listed)
      /\ Cardinality(listed) \in Nat /\ Cardinality(listed') \in Nat
  <2>1. IsFiniteSet(listed) /\ listed' \subseteq listed
    BY <1>1 DEF ObjInv, ObjTypeOK
  <2> QED  BY <2>1, FS_Subset, FS_CardinalityType
<1>4. ObjTypeOK'
  <2>1. saved' \in [Keys -> Nat] /\ contents' \in [Keys -> Nat] /\ loadedFor' \in [Keys -> Nat]
    BY <1>1 DEF Forget, ObjInv, ObjTypeOK
  <2> QED  BY <1>1, <1>2, <1>3, <2>1 DEF ObjInv, ObjTypeOK
<1>5. ChangesKept'
  <2>1. \A j \in Keys : latest'[j] = IF j \in listed' THEN contents'[j] ELSE saved'[j]
    BY <1>1 DEF Forget, ObjInv, ChangesKept
  <2>2. Cardinality(listed') <= Capacity
    BY <1>3, ObjectAssumption DEF ObjInv, ChangesKept
  <2> QED  BY <1>1, <2>1, <2>2 DEF ChangesKept
<1> QED  BY <1>2, <1>4, <1>5 DEF ObjInv, InvOrder

\* The caller changes the object it has.
LEMMA ModifyStep ==
  ASSUME ObjInv, Modify
  PROVE  ObjInv'
<1>1. using \in listed /\ using \in Keys
  BY DEF Modify, ObjInv, ObjTypeOK, ChangesKept
<1>2. latest[using] + 1 \in Nat
  BY <1>1 DEF ObjInv, ObjTypeOK
<1> QED  BY <1>1, <1>2 DEF Modify, ObjInv, ObjTypeOK, ChangesKept, InvOrder

\* SaveAllData writes what is in memory.
LEMMA SaveStep ==
  ASSUME ObjInv, SaveAllData
  PROVE  ObjInv'
<1>1. PICK K \in SUBSET listed : SaveInnerData(K)
  BY DEF SaveAllData
<1>2. \A k \in Keys : k \notin listed => saved'[k] = saved[k]
  BY <1>1 DEF SaveInnerData
<1>3. saved' \in [Keys -> Nat]
  BY <1>1 DEF SaveInnerData, ObjInv, ObjTypeOK
<1> QED  BY <1>2, <1>3 DEF SaveAllData, ObjInv, ObjTypeOK, ChangesKept, InvOrder

\* The invariant holds at first, and every step keeps it.
LEMMA ObjInvInit == ObjInit => ObjInv
<1> SUFFICES ASSUME ObjInit
             PROVE  ObjInv
  OBVIOUS
<1>1. IsFiniteSet({}) /\ Cardinality({}) = 0
  BY FS_EmptySet
<1> QED  BY <1>1, ObjectAssumption DEF ObjInit, ObjInv, ObjTypeOK, ChangesKept, InvOrder

LEMMA ObjInvNext ==
  ASSUME ObjInv, [ObjNext]_objVars
  PROVE  ObjInv'
<1>1. ASSUME NEW k \in Keys, GetMiss(k)
      PROVE  ObjInv'
  <2>1. listed \ {} = listed /\ {} \in SUBSET listed
    OBVIOUS
  <2>2. k \notin listed /\ Load(k, {}) /\ Cardinality(listed \ {}) < Capacity
    BY <1>1, <2>1 DEF GetMiss
  <2> QED  BY <2>1, <2>2, LoadStep, Zenon
<1>2. CASE OnObjTimer
  <2>1. Expired \in SUBSET listed /\ \A last : SavedBefore(last) \in SUBSET listed
    BY DEF Expired, SavedBefore
  <2> QED  BY <1>2, <2>1, CleanStep DEF OnObjTimer, DeletedBefore
<1>3. ASSUME NEW k \in Keys, AddResidentKey(k)
      PROVE  ObjInv'
  BY <1>3 DEF AddResidentKey, ObjInv, ObjTypeOK, ChangesKept, InvOrder
<1>4. CASE ClearResidentKey
  BY <1>4 DEF ClearResidentKey, ObjInv, ObjTypeOK, ChangesKept, InvOrder
<1>5. CASE ObjTick
  <2>1. loadedFor' \in [Keys -> Nat]
    BY <1>5 DEF ObjTick, ObjInv, ObjTypeOK
  <2> QED  BY <1>5, <2>1 DEF ObjTick, ObjInv, ObjTypeOK, ChangesKept, InvOrder
<1>6. CASE UNCHANGED objVars
  BY <1>6 DEF objVars, ObjInv, ObjTypeOK, ChangesKept, InvOrder
<1> QED
  BY <1>1, <1>2, <1>3, <1>4, <1>5, <1>6, HitStep, FullStep, ModifyStep, SaveStep DEF ObjNext

-----------------------------------------------------------------------------
(* Objects: the theorems.                                                  *)

LEMMA ObjInvAlways == ObjSpec => []ObjInv
<1>1. ObjInv /\ [ObjNext]_objVars => ObjInv'
  BY ObjInvNext
<1> QED  BY <1>1, ObjInvInit, PTL DEF ObjSpec

\* The variables of the object cache are well typed.
THEOREM ObjTypeCorrect == ObjSpec => []ObjTypeOK
<1>1. ObjInv => ObjTypeOK
  BY DEF ObjInv
<1> QED  BY <1>1, ObjInvAlways, PTL

\* Whatever fails to load or to be saved, an object is in memory or else in the storage
\* as it was changed last, and the cache has no more objects than its capacity.
THEOREM ChangesAreKept == ObjSpec => []ChangesKept
<1>1. ObjInv => ChangesKept
  BY DEF ObjInv
<1> QED  BY <1>1, ObjInvAlways, PTL

\* An object that leaves is not resident, and either its time is up or all objects that
\* stay and are not resident were asked for after it.
LEMMA LeavesInTurn ==
  ASSUME ObjInv, [ObjNext]_objVars, NEW out \in listed \ listed'
  PROVE  /\ out \notin resident
         /\ loadedFor[out] > AliveTime \/
              \A other \in listed \cap listed' :
                <<out, other>> \in gotAfter => other \in resident
<1>1. ASSUME NEW v \in listed, NEW k \in Keys, Victim(v), Load(k, {v})
      PROVE  /\ out \notin resident
             /\ \A other \in listed \cap listed' :
                  <<out, other>> \in gotAfter => other \in resident
  <2>1. out = v
    BY <1>1 DEF Load
  <2>2. \A other \in listed : <<v, other>> \in gotAfter => <<v, other>> \in inFront
    BY DEF ObjInv, InvOrder
  <2> QED  BY <1>1, <2>1, <2>2 DEF Victim
<1>2. ASSUME NEW kept, NEW gone \in SUBSET Expired, Clean(kept, gone)
      PROVE  out \notin resident /\ loadedFor[out] > AliveTime
  BY <1>2 DEF Clean, Expired
<1>3. CASE OnObjTimer
  <2>1. \A last : SavedBefore(last) \in SUBSET Expired
    BY DEF SavedBefore
  <2> QED  BY <1>2, <1>3, <2>1 DEF OnObjTimer, DeletedBefore
<1>4. ASSUME NEW k \in Keys, GetMissFull(k)
      PROVE  /\ out \notin resident
             /\ \A other \in listed \cap listed' :
                  <<out, other>> \in gotAfter => other \in resident
  BY <1>1, <1>4 DEF GetMissFull
<1>5. ASSUME NEW k \in Keys, GetMiss(k)
      PROVE  FALSE
  BY <1>5 DEF GetMiss, Load
<1>6. listed' # listed
  OBVIOUS
<1> QED
  BY <1>3, <1>4, <1>5, <1>6
  DEF ObjNext, GetHit, AddResidentKey, Modify, SaveAllData, ClearResidentKey, ObjTick, objVars

\* GetData makes room by the object that was not asked for for the longest time.
THEOREM LongestUnusedLeaves == ObjSpec => LongestUnusedGoes
<1>1. ObjInv /\ [ObjNext]_objVars =>
        [\A out \in listed \ listed' :
           /\ out \notin resident
           /\ loadedFor[out] > AliveTime \/
                \A other \in listed \cap listed' :
                  <<out, other>> \in gotAfter => other \in resident]_objVars
  BY LeavesInTurn
<1> QED  BY <1>1, ObjInvAlways, PTL DEF ObjSpec, LongestUnusedGoes
=============================================================================
