-------------------------- MODULE Evaluation_proofs --------------------------
(***************************************************************************)
(* Theorems about the evaluation of programs, proved for any names,         *)
(* functions and bounds.  Release is a recursion of the code; here it is a  *)
(* loop over what is left to release, and what a step of the loop preserves *)
(* is proved along it.                                                      *)
(***************************************************************************)
EXTENDS Evaluation, FiniteSetTheorems, SequenceTheorems, WellFoundedInduction, TLAPS

(* What holds from 0 on, and of n + 1 when of n, holds up to m. *)
LEMMA CountUp ==
  ASSUME NEW m \in Nat, NEW S, 0 \in S, \A n \in 0 .. m - 1 : n \in S => n + 1 \in S
  PROVE  \A n \in 0 .. m : n \in S
<1> DEFINE T == {n \in 0 .. m : n \notin S}
<1> SUFFICES ASSUME T # {} PROVE FALSE
  OBVIOUS
<1>1. T \subseteq Nat
  OBVIOUS
<1>2. PICK x \in T : \A y \in T : ~(<<y, x>> \in OpToRel(<, Nat))
  BY <1>1, NatLessThanWellFounded, WFMin
<1>3. \A y \in T : ~(y < x)
  BY <1>1, <1>2 DEF OpToRel
<1>4. x \in 0 .. m /\ x \notin S
  BY <1>2
<1> HIDE DEF T
<1>5. x # 0
  BY <1>4
<1>6. x - 1 \in 0 .. m - 1 /\ x - 1 \in 0 .. m /\ x - 1 < x
  BY <1>4, <1>5
<1>7. x - 1 \in S
  BY <1>3, <1>6 DEF T
<1>8. (x - 1) + 1 \in S
  BY <1>6, <1>7
<1>9. (x - 1) + 1 = x
  BY <1>4
<1> QED BY <1>4, <1>8, <1>9

(* A loop of m steps over states of S has a function that gives the state after *)
(* each of them.                                                              *)
IsLoop(f, m, S, T, x) ==
  /\ f \in [0 .. m -> S]
  /\ f[0] = x
  /\ \A n \in 1 .. m : f[n] = T[n][f[n - 1]]

LEMMA LoopExists ==
  ASSUME NEW m \in Nat, NEW S, NEW x \in S, NEW T, \A n \in 1 .. m, s \in S : T[n][s] \in S
  PROVE  \E f : IsLoop(f, m, S, T, x)
<1> DEFINE Upto(k) == \E f : IsLoop(f, k, S, T, x)
           Done == {k \in 0 .. m : Upto(k)}
<1>1. 0 \in Done
  <2> DEFINE f == [n \in 0 .. 0 |-> x]
  <2>1. IsLoop(f, 0, S, T, x)
    BY DEF IsLoop
  <2> HIDE DEF f
  <2> QED BY <2>1
<1>2. ASSUME NEW k \in 0 .. m - 1, k \in Done PROVE k + 1 \in Done
  <2>1. PICK f : IsLoop(f, k, S, T, x)
    BY <1>2
  <2> DEFINE g == [n \in 0 .. k + 1 |-> IF n = k + 1 THEN T[k + 1][f[k]] ELSE f[n]]
  <2>2. k \in Nat /\ k + 1 \in 1 .. m /\ k + 1 \in 0 .. m /\ k \in 0 .. k
    OBVIOUS
  <2>3. f \in [0 .. k -> S] /\ f[0] = x /\ \A n \in 1 .. k : f[n] = T[n][f[n - 1]]
    BY <2>1 DEF IsLoop
  <2>4. T[k + 1][f[k]] \in S
    BY <2>2, <2>3
  <2>5. g \in [0 .. k + 1 -> S]
    BY <2>2, <2>3, <2>4
  <2>6. g[0] = x
    BY <2>2, <2>3
  <2>7. ASSUME NEW n \in 1 .. k + 1 PROVE g[n] = T[n][g[n - 1]]
    <3>1. CASE n = k + 1
      <4>1. g[n] = T[k + 1][f[k]] /\ g[n - 1] = f[k]
        BY <2>2, <3>1
      <4> QED BY <3>1, <4>1
    <3>2. CASE n \in 1 .. k
      <4>1. g[n] = f[n] /\ g[n - 1] = f[n - 1]
        BY <2>2, <3>2
      <4> QED BY <2>3, <3>2, <4>1
    <3> QED BY <2>2, <3>1, <3>2
  <2> HIDE DEF g
  <2>8. IsLoop(g, k + 1, S, T, x)
    BY <2>5, <2>6, <2>7 DEF IsLoop
  <2> QED BY <2>2, <2>8
<1> HIDE DEF Done
<1>3. m \in Done
  BY <1>1, <1>2, CountUp
<1> QED BY <1>3 DEF Done

-----------------------------------------------------------------------------
\* Occurrences in sequences of objects

Places(o, s) == {i \in DOMAIN s : s[i] = o}
Alone(o, x) == IF o = x THEN 1 ELSE 0

LEMMA PlacesFinite ==
  ASSUME NEW S, NEW s \in Seq(S), NEW o
  PROVE  IsFiniteSet(Places(o, s)) /\ Occurrences(o, s) = Cardinality(Places(o, s))
         /\ Occurrences(o, s) \in Nat
<1>1. DOMAIN s = 1 .. Len(s) /\ Len(s) \in Nat
  OBVIOUS
<1>2. IsFiniteSet(1 .. Len(s))
  BY <1>1, FS_Interval
<1>3. Places(o, s) \subseteq 1 .. Len(s)
  BY <1>1 DEF Places
<1>4. IsFiniteSet(Places(o, s))
  BY <1>2, <1>3, FS_Subset
<1>5. Cardinality(Places(o, s)) \in Nat
  BY <1>4, FS_CardinalityType
<1> QED BY <1>4, <1>5 DEF Occurrences, Places

LEMMA OccursNowhere ==
  ASSUME NEW o PROVE Occurrences(o, <<>>) = 0
<1>1. {i \in DOMAIN <<>> : <<>>[i] = o} = {}
  OBVIOUS
<1> QED BY <1>1, FS_EmptySet DEF Occurrences

(* What occurs is in the sequence, and what is in it occurs. *)
LEMMA OccursInRange ==
  ASSUME NEW S, NEW s \in Seq(S), NEW o
  PROVE  Occurrences(o, s) > 0 <=> \E i \in DOMAIN s : s[i] = o
<1>1. IsFiniteSet(Places(o, s)) /\ Occurrences(o, s) = Cardinality(Places(o, s)) /\ Occurrences(o, s) \in Nat
  BY PlacesFinite
<1>2. Cardinality(Places(o, s)) = 0 <=> Places(o, s) = {}
  BY <1>1, FS_EmptySet
<1>3. Places(o, s) = {} <=> ~\E i \in DOMAIN s : s[i] = o
  BY DEF Places
<1> QED BY <1>1, <1>2, <1>3

LEMMA OccursConcat ==
  ASSUME NEW S, NEW s \in Seq(S), NEW t \in Seq(S), NEW o
  PROVE  Occurrences(o, s \o t) = Occurrences(o, s) + Occurrences(o, t)
<1> DEFINE n == Len(s)
           P == Places(o, t)
           Q == {i + n : i \in P}
<1>1. /\ s \o t \in Seq(S) /\ Len(s \o t) = Len(s) + Len(t)
      /\ \A i \in 1 .. n : (s \o t)[i] = s[i]
      /\ \A i \in n + 1 .. n + Len(t) : (s \o t)[i] = t[i - n]
  BY ConcatProperties
<1>2. n \in Nat /\ Len(t) \in Nat /\ DOMAIN s = 1 .. n /\ DOMAIN t = 1 .. Len(t)
      /\ DOMAIN (s \o t) = 1 .. n + Len(t)
  BY <1>1
<1>3. P \subseteq 1 .. Len(t)
  BY <1>2 DEF Places
<1>4. Places(o, s \o t) = Places(o, s) \cup Q
  <2>1. ASSUME NEW i \in Places(o, s \o t) PROVE i \in Places(o, s) \cup Q
    <3>1. i \in 1 .. n + Len(t) /\ (s \o t)[i] = o
      BY <1>2 DEF Places
    <3>2. CASE i <= n
      BY <1>1, <1>2, <3>1, <3>2 DEF Places
    <3>3. CASE i > n
      <4>1. i - n \in 1 .. Len(t) /\ t[i - n] = o /\ (i - n) + n = i
        BY <1>1, <1>2, <3>1, <3>3
      <4>2. i - n \in P
        BY <1>2, <4>1 DEF Places
      <4> QED BY <4>1, <4>2
    <3> QED BY <1>2, <3>1, <3>2, <3>3
  <2>2. Places(o, s) \subseteq Places(o, s \o t)
    BY <1>1, <1>2 DEF Places
  <2>3. ASSUME NEW i \in P PROVE i + n \in Places(o, s \o t)
    <3>1. i \in 1 .. Len(t) /\ t[i] = o
      BY <1>2 DEF Places
    <3>2. i + n \in n + 1 .. n + Len(t) /\ (i + n) - n = i /\ i + n \in 1 .. n + Len(t)
      BY <1>2, <3>1
    <3>3. (s \o t)[i + n] = o
      BY <1>1, <3>1, <3>2
    <3> QED BY <1>2, <3>2, <3>3 DEF Places
  <2> QED BY <2>1, <2>2, <2>3
<1>5. Places(o, s) \cap Q = {}
  <2>1. ASSUME NEW i \in Places(o, s), NEW j \in P PROVE i # j + n
    <3>1. i \in 1 .. n /\ j \in 1 .. Len(t)
      BY <1>2 DEF Places
    <3> QED BY <1>2, <3>1
  <2> QED BY <2>1
<1>6. IsFiniteSet(P) /\ IsFiniteSet(Places(o, s)) /\ Cardinality(P) \in Nat
  BY PlacesFinite, FS_CardinalityType
<1>7. IsFiniteSet(Q) /\ Cardinality(Q) = Cardinality(P)
  <2> DEFINE f == [i \in P |-> i + n]
  <2>1. f \in Bijection(P, Q)
    <3>1. f \in [P -> Q]
      OBVIOUS
    <3>2. \A a, b \in P : f[a] = f[b] => a = b
      BY <1>2, <1>3
    <3>3. \A b \in Q : \E a \in P : f[a] = b
      OBVIOUS
    <3> HIDE DEF f, Q
    <3> QED BY <3>1, <3>2, <3>3 DEF Bijection, Injection, Surjection, IsInjective
  <2> HIDE DEF f
  <2>2. ExistsBijection(P, Q)
    BY <2>1 DEF ExistsBijection
  <2> QED BY <1>6, <2>2, FS_Bijection, FS_SameCardinalityBij
<1> HIDE DEF P, Q
<1>8. Cardinality(Places(o, s) \cup Q)
        = Cardinality(Places(o, s)) + Cardinality(Q) - Cardinality(Places(o, s) \cap Q)
  BY <1>6, <1>7, FS_Union
<1>9. Cardinality(Places(o, s) \cap Q) = 0
  BY <1>5, FS_EmptySet
<1>10. Occurrences(o, s \o t) = Cardinality(Places(o, s \o t))
  BY DEF Occurrences, Places
<1>11. Occurrences(o, s) = Cardinality(Places(o, s)) /\ Occurrences(o, t) = Cardinality(P)
  BY PlacesFinite DEF P
<1>12. Cardinality(Places(o, s)) \in Nat
  BY <1>6, FS_CardinalityType
<1> QED BY <1>4, <1>6, <1>7, <1>8, <1>9, <1>10, <1>11, <1>12

LEMMA OccursOnce ==
  ASSUME NEW x, NEW o
  PROVE  Occurrences(o, <<x>>) = Alone(o, x)
<1>1. CASE o = x
  <2>1. {i \in DOMAIN <<x>> : <<x>>[i] = o} = {1}
    BY <1>1
  <2>2. Cardinality({1}) = 1
    BY FS_Singleton
  <2> QED BY <1>1, <2>1, <2>2 DEF Occurrences, Alone
<1>2. CASE o # x
  <2>1. {i \in DOMAIN <<x>> : <<x>>[i] = o} = {}
    BY <1>2
  <2> QED BY <1>2, <2>1, FS_EmptySet DEF Occurrences, Alone
<1> QED BY <1>1, <1>2

LEMMA OccursAppend ==
  ASSUME NEW S, NEW s \in Seq(S), NEW x \in S, NEW o
  PROVE  /\ Occurrences(o, Append(s, x)) = Occurrences(o, s) + Alone(o, x)
         /\ Occurrences(o, <<x>> \o s) = Occurrences(o, s) + Alone(o, x)
<1>1. <<x>> \in Seq(S) /\ Append(s, x) = s \o <<x>>
  BY AppendIsConcat
<1>2. Occurrences(o, s) \in Nat /\ Alone(o, x) \in Nat /\ Occurrences(o, <<x>>) = Alone(o, x)
  BY PlacesFinite, OccursOnce DEF Alone
<1>3. Occurrences(o, s \o <<x>>) = Occurrences(o, s) + Occurrences(o, <<x>>)
  BY <1>1, OccursConcat, Zenon
<1>4. Occurrences(o, <<x>> \o s) = Occurrences(o, <<x>>) + Occurrences(o, s)
  BY <1>1, OccursConcat, Zenon
<1>5. Occurrences(o, Append(s, x)) = Occurrences(o, s \o <<x>>)
  BY <1>1, Zenon
<1> QED BY <1>2, <1>3, <1>4, <1>5

LEMMA OccursTail ==
  ASSUME NEW S, NEW s \in Seq(S), s # <<>>, NEW o
  PROVE  Occurrences(o, s) = Alone(o, Head(s)) + Occurrences(o, Tail(s))
<1>1. Head(s) \in S /\ Tail(s) \in Seq(S) /\ s = <<Head(s)>> \o Tail(s)
  BY HeadTailAppend, HeadTailProperties
<1>2. Occurrences(o, Tail(s)) \in Nat /\ Alone(o, Head(s)) \in Nat
  BY <1>1, PlacesFinite DEF Alone
<1>3. Occurrences(o, <<Head(s)>> \o Tail(s)) = Occurrences(o, Tail(s)) + Alone(o, Head(s))
  BY <1>1, OccursAppend, Zenon
<1>4. Occurrences(o, s) = Occurrences(o, <<Head(s)>> \o Tail(s))
  BY <1>1, Zenon
<1> QED BY <1>2, <1>3, <1>4

LEMMA FrontAndLast ==
  ASSUME NEW S, NEW s \in Seq(S), s # <<>>
  PROVE  /\ Last(s) \in S /\ Front(s) \in Seq(S) /\ s = Append(Front(s), Last(s))
         /\ Len(Front(s)) = Len(s) - 1 /\ Len(s) \in 1 .. Len(s) /\ Last(s) = s[Len(s)]
         /\ \A i \in 1 .. Len(s) - 1 : Front(s)[i] = s[i]
<1>1. Len(s) \in Nat /\ Len(s) # 0
  BY EmptySeq, LenProperties
<1>2. Last(s) = s[Len(s)] /\ s[Len(s)] \in S
  BY <1>1, ElementOfSeq DEF Last
<1>3. Front(s) = SubSeq(s, 1, Len(s) - 1)
  BY DEF Front
<1>4. /\ Front(s) \in Seq(S) /\ Len(Front(s)) = Len(s) - 1
      /\ \A i \in 1 .. Len(s) - 1 : Front(s)[i] = s[i]
  <2>1. 0 <= Len(s) - 1 /\ Len(s) - 1 <= Len(s) /\ (Len(s) - 1) - 1 + 1 = Len(s) - 1
    BY <1>1
  <2>2. \A i \in 1 .. Len(s) - 1 : i \in 1 .. Len(s) /\ s[i] \in S
    BY <1>1, ElementOfSeq
  <2>3. /\ SubSeq(s, 1, Len(s) - 1) \in Seq(S) /\ Len(SubSeq(s, 1, Len(s) - 1)) = Len(s) - 1
        /\ \A i \in 1 .. Len(s) - 1 : SubSeq(s, 1, Len(s) - 1)[i] = s[i]
    BY <1>1, <2>1, <2>2
  <2> QED BY <1>3, <2>3
<1>5. s = Append(Front(s), Last(s))
  <2>1. Append(Front(s), Last(s)) \in Seq(S) /\ Len(Append(Front(s), Last(s))) = Len(s)
    BY <1>1, <1>2, <1>4
  <2>2. ASSUME NEW i \in 1 .. Len(s) PROVE Append(Front(s), Last(s))[i] = s[i]
    BY <1>1, <1>2, <1>4
  <2> QED BY <2>1, <2>2, SeqEqual
<1> QED BY <1>1, <1>2, <1>4, <1>5

LEMMA OccursFront ==
  ASSUME NEW S, NEW s \in Seq(S), s # <<>>, NEW o
  PROVE  Occurrences(o, s) = Occurrences(o, Front(s)) + Alone(o, Last(s))
<1>1. Last(s) \in S /\ Front(s) \in Seq(S) /\ s = Append(Front(s), Last(s))
  BY FrontAndLast
<1>2. Occurrences(o, Append(Front(s), Last(s))) = Occurrences(o, Front(s)) + Alone(o, Last(s))
  BY <1>1, OccursAppend, Zenon
<1> QED BY <1>1, <1>2, Zenon

LEMMA ReverseIsSeq ==
  ASSUME NEW S, NEW s \in Seq(S)
  PROVE  Reverse(s) \in Seq(S) /\ Len(Reverse(s)) = Len(s)
         /\ \A i \in 1 .. Len(s) : Reverse(s)[i] = s[(Len(s) - i) + 1]
<1>1. Len(s) \in Nat
  OBVIOUS
<1>2. \A i \in 1 .. Len(s) : (Len(s) - i) + 1 \in 1 .. Len(s)
  BY <1>1
<1>3. \A i \in 1 .. Len(s) : s[(Len(s) - i) + 1] \in S
  BY <1>2, ElementOfSeq
<1>4. Reverse(s) = [i \in 1 .. Len(s) |-> s[(Len(s) - i) + 1]]
  BY DEF Reverse
<1> QED BY <1>1, <1>3, <1>4, IsASeq

LEMMA OccursReverse ==
  ASSUME NEW S, NEW s \in Seq(S), NEW o
  PROVE  Occurrences(o, Reverse(s)) = Occurrences(o, s)
<1> DEFINE n == Len(s)
           P == Places(o, s)
           Q == Places(o, Reverse(s))
           f == [i \in P |-> (n - i) + 1]
<1>1. n \in Nat /\ DOMAIN s = 1 .. n
  OBVIOUS
<1>2. Reverse(s) \in Seq(S) /\ DOMAIN Reverse(s) = 1 .. n
      /\ \A i \in 1 .. n : Reverse(s)[i] = s[(n - i) + 1]
  BY ReverseIsSeq
<1>3. \A i \in P : i \in 1 .. n /\ s[i] = o
  BY <1>1 DEF Places
<1>4. \A i \in Q : i \in 1 .. n /\ s[(n - i) + 1] = o
  BY <1>2 DEF Places
<1>5. ASSUME NEW i \in P PROVE (n - i) + 1 \in Q
  <2>1. (n - i) + 1 \in 1 .. n /\ (n - ((n - i) + 1)) + 1 = i
    BY <1>1, <1>3
  <2>2. Reverse(s)[(n - i) + 1] = o
    BY <1>2, <1>3, <2>1
  <2> QED BY <1>2, <2>1, <2>2 DEF Places
<1>6. ASSUME NEW i \in Q PROVE (n - i) + 1 \in P /\ f[(n - i) + 1] = i
  <2>1. (n - i) + 1 \in 1 .. n /\ (n - ((n - i) + 1)) + 1 = i
    BY <1>1, <1>4
  <2>2. (n - i) + 1 \in P
    BY <1>1, <1>4, <2>1 DEF Places
  <2> QED BY <2>1, <2>2
<1>7. f \in [P -> Q]
  BY <1>5
<1>8. \A a, b \in P : f[a] = f[b] => a = b
  BY <1>1, <1>3
<1> HIDE DEF P, Q, f
<1>9. f \in Bijection(P, Q)
  BY <1>6, <1>7, <1>8 DEF Bijection, Injection, Surjection, IsInjective
<1>10. ExistsBijection(P, Q)
  BY <1>9 DEF ExistsBijection
<1>11. Cardinality(P) = Cardinality(Q)
  <2>1. IsFiniteSet(P)
    BY PlacesFinite DEF P
  <2> QED BY <1>10, <2>1, FS_Bijection, FS_SameCardinalityBij
<1>12. Occurrences(o, s) = Cardinality(P) /\ Occurrences(o, Reverse(s)) = Cardinality(Q)
  BY DEF Occurrences, Places, P, Q
<1> QED BY <1>11, <1>12

-----------------------------------------------------------------------------
\* Heaps, and who refers to what in them

Records ==
  [kind : Kinds \cup {"None"}, alias : BOOLEAN, name : Names \cup {NoName},
   level : Int, nRefs : Int, refs : Seq(Objects)]
Heaps == [Objects -> Records]
\* The same, but for the count of references.
SameBut(a, b) ==
  b.kind = a.kind /\ b.alias = a.alias /\ b.name = a.name /\ b.level = a.level /\ b.refs = a.refs
\* An alias may be of an object that was destroyed.
IsType(kind, alias) == kind # "None" \/ alias
IsMade(h, o) == IsType(h[o].kind, h[o].alias)
Refers(h, p, o) == \E i \in DOMAIN h[p].refs : h[p].refs[i] = o

LEMMA HeapFields ==
  ASSUME NEW h \in Heaps, NEW o \in Objects
  PROVE  /\ h[o] \in Records /\ h[o].kind \in Kinds \cup {"None"} /\ h[o].alias \in BOOLEAN
         /\ h[o].name \in Names \cup {NoName} /\ h[o].level \in Int /\ h[o].nRefs \in Int
         /\ h[o].refs \in Seq(Objects) /\ DOMAIN h[o].refs = 1 .. Len(h[o].refs) /\ Len(h[o].refs) \in Nat
<1>1. h[o] \in Records
  BY DEF Heaps
<1>2. h[o].refs \in Seq(Objects)
  BY <1>1 DEF Records
<1> QED BY <1>1, <1>2 DEF Records

LEMMA ObjectsFinite == IsFiniteSet(Objects) /\ Nil \notin Objects /\ Objects \subseteq Nat
<1>1. MaxObjects \in Nat
  BY EvaluationAssumption
<1> QED BY <1>1, FS_Interval DEF Objects, Nil

LEMMA FreeIsRecord == Free \in Records /\ Free.kind = "None" /\ Free.alias = FALSE /\ Free.nRefs = 0 /\ Free.refs = <<>>
BY DEF Free, Records

LEMMA ReferencesAre ==
  ASSUME NEW h
  PROVE  /\ \A p \in Objects : \A i \in DOMAIN h[p].refs : <<p, i>> \in References(h)
         /\ \A r \in References(h) : r = <<r[1], r[2]>> /\ r[1] \in Objects /\ r[2] \in DOMAIN h[r[1]].refs
<1>1. \A p \in Objects : \A i \in DOMAIN h[p].refs : <<p, i>> \in References(h)
  BY DEF References
<1>2. ASSUME NEW r \in References(h)
      PROVE  r = <<r[1], r[2]>> /\ r[1] \in Objects /\ r[2] \in DOMAIN h[r[1]].refs
  <2>1. PICK p \in Objects : r \in {p} \X DOMAIN h[p].refs
    BY DEF References
  <2> QED BY <2>1
<1> QED BY <1>1, <1>2

LEMMA ReferencesFinite ==
  ASSUME NEW h \in Heaps
  PROVE  IsFiniteSet(References(h)) /\ Cardinality(References(h)) \in Nat
<1>1. \A p \in Objects : IsFiniteSet({p} \X DOMAIN h[p].refs)
  <2> SUFFICES ASSUME NEW p \in Objects PROVE IsFiniteSet({p} \X DOMAIN h[p].refs)
    OBVIOUS
  <2>1. IsFiniteSet({p}) /\ IsFiniteSet(DOMAIN h[p].refs)
    <3>1. DOMAIN h[p].refs = 1 .. Len(h[p].refs) /\ Len(h[p].refs) \in Nat
      BY HeapFields
    <3> DEFINE k == Len(h[p].refs)
    <3>2. k \in Int /\ 1 \in Int
      BY <3>1
    <3> HIDE DEF k
    <3>3. IsFiniteSet(1 .. k)
      BY <3>2, FS_Interval
    <3>4. IsFiniteSet({p})
      BY FS_Singleton
    <3> QED BY <3>1, <3>3, <3>4 DEF k
  <2> QED BY <2>1, FS_Product
<1> DEFINE S == {{p} \X DOMAIN h[p].refs : p \in Objects}
<1>2. IsFiniteSet(S)
  <2> DEFINE f == [p \in Objects |-> {p} \X DOMAIN h[p].refs]
  <2>1. f \in Surjection(Objects, S)
    <3>1. f \in [Objects -> S] /\ \A T \in S : \E p \in Objects : f[p] = T
      OBVIOUS
    <3> HIDE DEF f, S
    <3> QED BY <3>1 DEF Surjection
  <2> HIDE DEF f, S
  <2> QED BY <2>1, ObjectsFinite, FS_Surjection
<1>3. \A T \in S : IsFiniteSet(T)
  BY <1>1
<1>4. IsFiniteSet(UNION S)
  BY <1>2, <1>3, FS_UNION
<1>5. References(h) = UNION S
  BY DEF References
<1> QED BY <1>4, <1>5, FS_CardinalityType

LEMMA RefUsesFinite ==
  ASSUME NEW h \in Heaps, NEW o
  PROVE  /\ IsFiniteSet(RefUses(h, o)) /\ Cardinality(RefUses(h, o)) \in Nat
         /\ Cardinality(RefUses(h, o)) > 0 <=> \E p \in Objects : Refers(h, p, o)
<1>1. RefUses(h, o) \subseteq References(h)
  BY DEF RefUses
<1>2. IsFiniteSet(RefUses(h, o)) /\ Cardinality(RefUses(h, o)) \in Nat
  BY <1>1, ReferencesFinite, FS_Subset, FS_CardinalityType
<1>3. Cardinality(RefUses(h, o)) = 0 <=> RefUses(h, o) = {}
  BY <1>2, FS_EmptySet
<1>4. ASSUME NEW r \in RefUses(h, o) PROVE \E p \in Objects : Refers(h, p, o)
  <2>1. r \in References(h) /\ h[r[1]].refs[r[2]] = o
    BY DEF RefUses
  <2>2. r[1] \in Objects /\ r[2] \in DOMAIN h[r[1]].refs
    BY <2>1, ReferencesAre
  <2> QED BY <2>1, <2>2 DEF Refers
<1>5. ASSUME NEW p \in Objects, Refers(h, p, o) PROVE RefUses(h, o) # {}
  <2>1. PICK i \in DOMAIN h[p].refs : h[p].refs[i] = o
    BY <1>5 DEF Refers
  <2>2. <<p, i>> \in References(h)
    BY ReferencesAre
  <2>3. <<p, i>> \in RefUses(h, o)
    BY <2>1, <2>2 DEF RefUses
  <2> QED BY <2>3
<1> QED BY <1>2, <1>3, <1>4, <1>5

\* The references of one object, and those of the others
OfOthers(h, x) == {r \in References(h) : r[1] # x}
UsesOfOthers(h, x, o) == {r \in RefUses(h, o) : r[1] # x}

LEMMA PairsOfOne ==
  ASSUME NEW x, NEW P, IsFiniteSet(P)
  PROVE  IsFiniteSet({x} \X P) /\ Cardinality({x} \X P) = Cardinality(P)
<1>1. IsFiniteSet({x}) /\ Cardinality({x}) = 1
  BY FS_Singleton
<1>2. IsFiniteSet({x} \X P) /\ Cardinality({x} \X P) = Cardinality({x}) * Cardinality(P)
  BY <1>1, FS_Product
<1>3. Cardinality(P) \in Nat
  BY FS_CardinalityType
<1> QED BY <1>1, <1>2, <1>3

LEMMA DisjointSum ==
  ASSUME NEW S, NEW T, IsFiniteSet(S), IsFiniteSet(T), S \cap T = {}
  PROVE  IsFiniteSet(S \cup T) /\ Cardinality(S \cup T) = Cardinality(S) + Cardinality(T)
<1>1. Cardinality(S \cap T) = 0
  BY FS_EmptySet
<1>2. Cardinality(S) \in Nat /\ Cardinality(T) \in Nat
  BY FS_CardinalityType
<1>3. IsFiniteSet(S \cup T)
      /\ Cardinality(S \cup T) = Cardinality(S) + Cardinality(T) - Cardinality(S \cap T)
  BY FS_Union, Zenon
<1> QED BY <1>1, <1>2, <1>3

LEMMA UsesSplit ==
  ASSUME NEW h \in Heaps, NEW x \in Objects, NEW o
  PROVE  /\ Cardinality(RefUses(h, o)) = Cardinality(UsesOfOthers(h, x, o)) + Occurrences(o, h[x].refs)
         /\ Cardinality(UsesOfOthers(h, x, o)) \in Nat
<1> DEFINE P == Places(o, h[x].refs)
<1>1. h[x].refs \in Seq(Objects)
  BY HeapFields
<1>2. IsFiniteSet(P) /\ Occurrences(o, h[x].refs) = Cardinality(P)
  BY <1>1, PlacesFinite
<1>3. RefUses(h, o) = UsesOfOthers(h, x, o) \cup ({x} \X P)
  <2>1. ASSUME NEW r \in RefUses(h, o) PROVE r[1] # x \/ r \in {x} \X P
    <3>1. r \in References(h) /\ h[r[1]].refs[r[2]] = o
      BY DEF RefUses
    <3>2. r = <<r[1], r[2]>> /\ r[1] \in Objects /\ r[2] \in DOMAIN h[r[1]].refs
      BY <3>1, ReferencesAre
    <3> QED BY <3>1, <3>2 DEF Places
  <2>2. ASSUME NEW i \in P PROVE <<x, i>> \in RefUses(h, o)
    <3>1. i \in DOMAIN h[x].refs /\ h[x].refs[i] = o
      BY DEF Places
    <3>2. <<x, i>> \in References(h)
      BY <3>1, ReferencesAre
    <3> QED BY <3>1, <3>2 DEF RefUses
  <2> HIDE DEF P
  <2> QED BY <2>1, <2>2 DEF UsesOfOthers
<1> HIDE DEF P
<1>4. IsFiniteSet(UsesOfOthers(h, x, o))
  <2>1. UsesOfOthers(h, x, o) \subseteq RefUses(h, o)
    BY DEF UsesOfOthers
  <2> QED BY <2>1, RefUsesFinite, FS_Subset
<1>5. UsesOfOthers(h, x, o) \cap ({x} \X P) = {}
  BY DEF UsesOfOthers
<1>6. IsFiniteSet({x} \X P) /\ Cardinality({x} \X P) = Cardinality(P)
  BY <1>2, PairsOfOne
<1>7. Cardinality(RefUses(h, o)) = Cardinality(UsesOfOthers(h, x, o)) + Cardinality({x} \X P)
  BY <1>3, <1>4, <1>5, <1>6, DisjointSum
<1> QED BY <1>2, <1>4, <1>6, <1>7, FS_CardinalityType

LEMMA ReferencesSplit ==
  ASSUME NEW h \in Heaps, NEW x \in Objects
  PROVE  /\ Cardinality(References(h)) = Cardinality(OfOthers(h, x)) + Len(h[x].refs)
         /\ Cardinality(OfOthers(h, x)) \in Nat
<1> DEFINE P == DOMAIN h[x].refs
<1>1. h[x].refs \in Seq(Objects) /\ P = 1 .. Len(h[x].refs) /\ Len(h[x].refs) \in Nat
  BY HeapFields
<1>2. IsFiniteSet(P) /\ Cardinality(P) = Len(h[x].refs)
  <2> DEFINE k == Len(h[x].refs)
  <2>1. k \in Nat /\ 1 \in Int /\ k \in Int
    BY <1>1
  <2> HIDE DEF k
  <2>2. IsFiniteSet(1 .. k) /\ Cardinality(1 .. k) = IF 1 > k THEN 0 ELSE k - 1 + 1
    BY <2>1, FS_Interval
  <2> QED BY <1>1, <2>1, <2>2 DEF k
<1>3. References(h) = OfOthers(h, x) \cup ({x} \X P)
  <2>1. ASSUME NEW r \in References(h) PROVE r[1] # x \/ r \in {x} \X P
    <3>1. r = <<r[1], r[2]>> /\ r[1] \in Objects /\ r[2] \in DOMAIN h[r[1]].refs
      BY ReferencesAre
    <3> QED BY <3>1
  <2>2. ASSUME NEW i \in P PROVE <<x, i>> \in References(h)
    BY ReferencesAre
  <2> HIDE DEF P
  <2> QED BY <2>1, <2>2 DEF OfOthers
<1> HIDE DEF P
<1>4. IsFiniteSet(OfOthers(h, x))
  <2>1. OfOthers(h, x) \subseteq References(h)
    BY DEF OfOthers
  <2> QED BY <2>1, ReferencesFinite, FS_Subset
<1>5. OfOthers(h, x) \cap ({x} \X P) = {}
  BY DEF OfOthers
<1>6. IsFiniteSet({x} \X P) /\ Cardinality({x} \X P) = Cardinality(P)
  BY <1>2, PairsOfOne
<1>7. Cardinality(References(h)) = Cardinality(OfOthers(h, x)) + Cardinality({x} \X P)
  BY <1>3, <1>4, <1>5, <1>6, DisjointSum
<1> QED BY <1>2, <1>4, <1>6, <1>7, FS_CardinalityType

(* How counts change when the references of one object do. *)
OthersRefer(h, g, x) == \A p \in Objects : p # x => g[p].refs = h[p].refs

LEMMA UsesChange ==
  ASSUME NEW h \in Heaps, NEW g \in Heaps, NEW x \in Objects, OthersRefer(h, g, x)
  PROVE  /\ \A o : Cardinality(RefUses(g, o)) + Occurrences(o, h[x].refs)
                     = Cardinality(RefUses(h, o)) + Occurrences(o, g[x].refs)
         /\ Cardinality(References(g)) + Len(h[x].refs) = Cardinality(References(h)) + Len(g[x].refs)
<1>0. \A p \in Objects : p # x => g[p].refs = h[p].refs
  BY DEF OthersRefer
<1>1. OfOthers(g, x) = OfOthers(h, x)
  <2>1. ASSUME NEW a \in Heaps, NEW b \in Heaps, NEW r \in OfOthers(a, x),
               \A p \in Objects : p # x => b[p].refs = a[p].refs
        PROVE  r \in OfOthers(b, x)
    <3>1. r \in References(a) /\ r[1] # x
      BY DEF OfOthers
    <3>2. r = <<r[1], r[2]>> /\ r[1] \in Objects /\ r[2] \in DOMAIN a[r[1]].refs
      BY <3>1, ReferencesAre
    <3>3. r[2] \in DOMAIN b[r[1]].refs
      BY <2>1, <3>1, <3>2
    <3>4. r \in References(b)
      BY <3>2, <3>3, ReferencesAre
    <3> QED BY <3>1, <3>4 DEF OfOthers
  <2>2. \A r \in OfOthers(h, x) : r \in OfOthers(g, x)
    BY <1>0, <2>1
  <2>3. \A r \in OfOthers(g, x) : r \in OfOthers(h, x)
    BY <1>0, <2>1
  <2> QED BY <2>2, <2>3
<1>2. ASSUME NEW o PROVE UsesOfOthers(g, x, o) = UsesOfOthers(h, x, o)
  <2>1. \A r \in OfOthers(h, x) : r[1] \in Objects /\ r[1] # x
    BY ReferencesAre DEF OfOthers
  <2>2. UsesOfOthers(g, x, o) = {r \in OfOthers(g, x) : g[r[1]].refs[r[2]] = o}
        /\ UsesOfOthers(h, x, o) = {r \in OfOthers(h, x) : h[r[1]].refs[r[2]] = o}
    BY DEF UsesOfOthers, OfOthers, RefUses
  <2> QED BY <1>0, <1>1, <2>1, <2>2
<1>3. h[x].refs \in Seq(Objects) /\ g[x].refs \in Seq(Objects) /\ Len(h[x].refs) \in Nat /\ Len(g[x].refs) \in Nat
  BY HeapFields
<1>4. ASSUME NEW o
      PROVE  Cardinality(RefUses(g, o)) + Occurrences(o, h[x].refs)
               = Cardinality(RefUses(h, o)) + Occurrences(o, g[x].refs)
  <2>1. Cardinality(RefUses(h, o)) = Cardinality(UsesOfOthers(h, x, o)) + Occurrences(o, h[x].refs)
        /\ Cardinality(UsesOfOthers(h, x, o)) \in Nat
    BY UsesSplit
  <2>2. Cardinality(RefUses(g, o)) = Cardinality(UsesOfOthers(h, x, o)) + Occurrences(o, g[x].refs)
    BY UsesSplit, <1>2
  <2>3. Occurrences(o, h[x].refs) \in Nat /\ Occurrences(o, g[x].refs) \in Nat
    BY <1>3, PlacesFinite
  <2> QED BY <2>1, <2>2, <2>3
<1>5. Cardinality(References(h)) = Cardinality(OfOthers(h, x)) + Len(h[x].refs)
      /\ Cardinality(References(g)) = Cardinality(OfOthers(h, x)) + Len(g[x].refs)
      /\ Cardinality(OfOthers(h, x)) \in Nat
  BY <1>1, ReferencesSplit
<1> QED BY <1>3, <1>4, <1>5

LEMMA UsesSame ==
  ASSUME NEW h \in Heaps, NEW g \in Heaps, \A p \in Objects : g[p].refs = h[p].refs
  PROVE  /\ References(g) = References(h)
         /\ \A o : RefUses(g, o) = RefUses(h, o)
         /\ \A p \in Objects : \A o : Refers(g, p, o) <=> Refers(h, p, o)
<1>1. References(g) = References(h)
  BY DEF References
<1>2. ASSUME NEW o PROVE RefUses(g, o) = RefUses(h, o)
  <2>1. \A r \in References(h) : r[1] \in Objects
    BY ReferencesAre
  <2> QED BY <1>1, <2>1 DEF RefUses
<1>3. \A p \in Objects : \A o : Refers(g, p, o) <=> Refers(h, p, o)
  BY DEF Refers
<1> QED BY <1>1, <1>2, <1>3

-----------------------------------------------------------------------------
(* Counts are exact, when B[o] is how often o is referred to from outside the  *)
(* heap.  "Held" are objects that some steps leave alone: each has a reference *)
(* from outside that lasts, or from another of them, or is a temporary, that   *)
(* nothing refers to and nobody has at hand to destroy.                       *)
Bags == [Objects -> Nat]
With(B, s) == [o \in Objects |-> B[o] + Occurrences(o, s)]
IsMore(C, B, x) == C \in Bags /\ \A o \in Objects : C[o] = B[o] + Alone(o, x)
IsWith(C, B, s) == C \in Bags /\ \A o \in Objects : C[o] = B[o] + Occurrences(o, s)
Holds == [bag : Bags, kept : SUBSET Objects, temps : SUBSET Objects]

Within(H, B) == \A o \in Objects : H.bag[o] <= B[o]

Exact(h, B) == \A o \in Objects : h[o].nRefs = B[o] + Cardinality(RefUses(h, o))

Supported(h, H) ==
  /\ H.temps \subseteq H.kept
  /\ \A o \in H.kept : \/ H.bag[o] > 0
                       \/ o \in H.temps
                       \/ \E p \in H.kept : Refers(h, p, o)

Fine(h, B, H) ==
  /\ h \in Heaps /\ B \in Bags /\ H \in Holds
  /\ Exact(h, B)
  /\ Within(H, B)
  /\ Supported(h, H)
  /\ \A o \in H.kept : IsMade(h, o)
  /\ \A o \in H.temps : h[o].nRefs = 0

(* What becomes of a heap: objects change their counts only, or are destroyed; *)
(* those without references are in a set.                                     *)
Shrunk(h, g) == \A o \in Objects : SameBut(Free, g[o]) \/ SameBut(h[o], g[o])
Tidy(h) == \A o \in Objects : IsMade(h, o) \/ h[o] = Free
Loose(h) == {o \in Objects : IsMade(h, o) /\ h[o].nRefs = 0}

LEMMA ShrunkAgain ==
  ASSUME NEW f, NEW g, NEW h, Shrunk(f, g), Shrunk(g, h)
  PROVE  Shrunk(f, h)
<1> SUFFICES ASSUME NEW o \in Objects PROVE SameBut(Free, h[o]) \/ SameBut(f[o], h[o])
  BY DEF Shrunk
<1>1. SameBut(Free, g[o]) \/ SameBut(f[o], g[o])
  BY DEF Shrunk
<1>2. SameBut(Free, h[o]) \/ SameBut(g[o], h[o])
  BY DEF Shrunk
<1> QED BY <1>1, <1>2 DEF SameBut

LEMMA HoldsFields ==
  ASSUME NEW h, NEW B, NEW H, Fine(h, B, H)
  PROVE  /\ h \in Heaps /\ B \in Bags /\ H.bag \in Bags /\ H.kept \subseteq Objects /\ H.temps \subseteq Objects
         /\ \A o \in Objects : B[o] \in Nat /\ H.bag[o] \in Nat /\ H.bag[o] <= B[o]
         /\ \A o \in Objects : h[o].nRefs \in Nat /\ B[o] <= h[o].nRefs
         /\ \A o \in Objects : h[o].nRefs > 0 <=> B[o] > 0 \/ \E p \in Objects : Refers(h, p, o)
<1>1. h \in Heaps /\ B \in Bags /\ H.bag \in Bags /\ H.kept \subseteq Objects /\ H.temps \subseteq Objects
  BY DEF Fine, Holds
<1>2. \A o \in Objects : B[o] \in Nat /\ H.bag[o] \in Nat /\ H.bag[o] <= B[o]
  BY <1>1 DEF Fine, Bags, Within
<1>3. ASSUME NEW o \in Objects
      PROVE  /\ h[o].nRefs \in Nat /\ B[o] <= h[o].nRefs
             /\ h[o].nRefs > 0 <=> B[o] > 0 \/ \E p \in Objects : Refers(h, p, o)
  <2>1. h[o].nRefs = B[o] + Cardinality(RefUses(h, o))
    BY DEF Fine, Exact
  <2>2. Cardinality(RefUses(h, o)) \in Nat
        /\ (Cardinality(RefUses(h, o)) > 0 <=> \E p \in Objects : Refers(h, p, o))
    BY <1>1, RefUsesFinite
  <2> QED BY <1>2, <2>1, <2>2
<1> QED BY <1>1, <1>2, <1>3

LEMMA WithIsBag ==
  ASSUME NEW B \in Bags, NEW s \in Seq(Objects)
  PROVE  /\ With(B, s) \in Bags /\ IsWith(With(B, s), B, s)
         /\ \A o \in Objects : With(B, s)[o] = B[o] + Occurrences(o, s) /\ B[o] <= With(B, s)[o]
<1>1. ASSUME NEW o \in Objects PROVE B[o] \in Nat /\ Occurrences(o, s) \in Nat
  BY PlacesFinite DEF Bags
<1> QED BY <1>1 DEF With, Bags, IsWith

LEMMA WithinMore ==
  ASSUME NEW B \in Bags, NEW C, NEW s \in Seq(Objects), IsWith(C, B, s), NEW H \in Holds, Within(H, B)
  PROVE  Within(H, C)
<1> SUFFICES ASSUME NEW o \in Objects PROVE H.bag[o] <= C[o]
  BY DEF Within
<1>1. C[o] = B[o] + Occurrences(o, s) /\ Occurrences(o, s) \in Nat
  BY PlacesFinite DEF IsWith
<1>2. B[o] \in Nat /\ H.bag[o] \in Nat /\ H.bag[o] <= B[o]
  BY DEF Bags, Holds, Within
<1> QED BY <1>1, <1>2

(* What is held is still there, unchanged, when it is still held. *)
LEMMA HeldIsSame ==
  ASSUME NEW h, NEW g, NEW B, NEW H, Fine(g, B, H), Shrunk(h, g), NEW o \in H.kept
  PROVE  SameBut(h[o], g[o]) /\ IsMade(g, o)
<1>1. IsMade(g, o) /\ o \in Objects
  BY HoldsFields DEF Fine
<1>2. SameBut(Free, g[o]) \/ SameBut(h[o], g[o])
  BY <1>1 DEF Shrunk
<1> QED BY <1>1, <1>2, FreeIsRecord DEF SameBut, IsMade, IsType

(* g is h but for the count of x, which is v. *)
IsPut(h, x, v, g) ==
  /\ g \in Heaps /\ g[x].nRefs = v
  /\ \A o \in Objects : SameBut(h[o], g[o])
  /\ \A o \in Objects : o # x => g[o] = h[o]

LEMMA CountPut ==
  ASSUME NEW h \in Heaps, NEW x \in Objects, NEW v \in Int, NEW g, g = [h EXCEPT ![x].nRefs = v]
  PROVE  IsPut(h, x, v, g)
<1> DEFINE a == [h[x] EXCEPT !.nRefs = v]
<1>1. h[x] \in Records
  BY HeapFields
<1>2. a \in Records /\ SameBut(h[x], a) /\ a.nRefs = v
  BY <1>1 DEF Records, SameBut
<1>3. g = [o \in Objects |-> IF o = x THEN a ELSE h[o]]
  BY DEF Heaps
<1>4. \A o \in Objects : h[o] \in Records /\ SameBut(h[o], h[o])
  BY DEF SameBut, Heaps
<1> HIDE DEF SameBut, a
<1>5. g \in Heaps /\ g[x].nRefs = v /\ \A o \in Objects : SameBut(h[o], g[o]) /\ (o # x => g[o] = h[o])
  BY <1>2, <1>3, <1>4 DEF Heaps
<1> QED BY <1>5 DEF IsPut

(* A count goes up or down with the references from outside. *)
LEMMA CountChanges ==
  ASSUME NEW h, NEW B, NEW H, Fine(h, B, H), NEW x \in Objects, x \notin H.temps, NEW d \in Int,
         NEW g \in Heaps, \A o \in Objects : SameBut(h[o], g[o]),
         \A o \in Objects : o # x => g[o] = h[o], g[x].nRefs = h[x].nRefs + d,
         NEW C \in Bags, \A o \in Objects : C[o] = IF o = x THEN B[o] + d ELSE B[o],
         Within(H, C)
  PROVE  /\ Fine(g, C, H) /\ Shrunk(h, g)
         /\ Tidy(h) /\ IsMade(h, x) => Tidy(g)
         /\ Loose(g) \subseteq Loose(h) \cup {x}
<1>0. h \in Heaps /\ B \in Bags /\ H \in Holds /\ H.kept \subseteq Objects /\ H.temps \subseteq Objects
  BY HoldsFields DEF Fine
<1>1. /\ \A o \in Objects : SameBut(h[o], g[o])
      /\ \A o \in Objects : o # x => g[o] = h[o]
      /\ g[x].nRefs = h[x].nRefs + d
  OBVIOUS
<1>2. \A p \in Objects : g[p].refs = h[p].refs
  BY <1>1 DEF SameBut
<1>3. /\ \A o : RefUses(g, o) = RefUses(h, o)
      /\ \A p \in Objects : \A o : Refers(g, p, o) <=> Refers(h, p, o)
  BY <1>0, <1>1, <1>2, UsesSame
<1>4. Exact(g, C)
  <2> SUFFICES ASSUME NEW o \in Objects PROVE g[o].nRefs = C[o] + Cardinality(RefUses(g, o))
    BY DEF Exact
  <2>1. h[o].nRefs = B[o] + Cardinality(RefUses(h, o)) /\ B[o] \in Nat /\ Cardinality(RefUses(h, o)) \in Nat
    BY <1>0, RefUsesFinite DEF Fine, Exact, Bags
  <2>2. C[o] = IF o = x THEN B[o] + d ELSE B[o]
    OBVIOUS
  <2>3. RefUses(g, o) = RefUses(h, o)
    BY <1>3, Zenon
  <2>4. CASE o = x
    BY <1>1, <2>1, <2>2, <2>3, <2>4
  <2>5. CASE o # x
    BY <1>1, <2>1, <2>2, <2>3, <2>5
  <2> QED BY <2>4, <2>5
<1>5. Supported(g, H) /\ (\A o \in H.kept : IsMade(g, o)) /\ \A o \in H.temps : g[o].nRefs = 0
  <2>1. Supported(g, H)
    <3>1. \A p \in H.kept : \A o : Refers(g, p, o) <=> Refers(h, p, o)
      BY <1>0, <1>3
    <3>2. Supported(h, H)
      BY DEF Fine
    <3> QED BY <3>1, <3>2 DEF Supported
  <2>2. \A o \in H.kept : IsMade(g, o)
    BY <1>0, <1>1 DEF Fine, IsMade, IsType, SameBut
  <2>3. \A o \in H.temps : g[o].nRefs = 0
    BY <1>0, <1>1 DEF Fine
  <2> QED BY <2>1, <2>2, <2>3
<1>6. Fine(g, C, H)
  BY <1>0, <1>1, <1>4, <1>5 DEF Fine
<1>7. Tidy(h) /\ IsMade(h, x) => Tidy(g)
  BY <1>1 DEF Tidy, IsMade, IsType, SameBut
<1>8. Loose(g) \subseteq Loose(h) \cup {x}
  BY <1>1 DEF Loose, IsMade, IsType, SameBut
<1> QED BY <1>1, <1>6, <1>7, <1>8 DEF Shrunk

LEMMA IncIsFine ==
  ASSUME NEW h, NEW B, NEW H, Fine(h, B, H), NEW x \in Objects \cup {Nil}, x \notin H.temps,
         NEW C, IsMore(C, B, x)
  PROVE  /\ Fine(IncNRefs(h, x), C, H) /\ Shrunk(h, IncNRefs(h, x))
         /\ Tidy(h) /\ (x # Nil => IsMade(h, x)) => Tidy(IncNRefs(h, x))
         /\ Loose(IncNRefs(h, x)) \subseteq Loose(h) \ {x}
<1> USE DEF IsMore
<1>1. CASE x = Nil
  <2>1. \A o \in Objects : C[o] = B[o]
    BY <1>1, ObjectsFinite, HoldsFields DEF Alone
  <2>2. C = B
    BY <2>1, HoldsFields DEF Bags
  <2>3. Nil \notin Loose(h)
    BY ObjectsFinite DEF Loose
  <2> QED BY <1>1, <2>2, <2>3 DEF IncNRefs, Shrunk, SameBut
<1>2. CASE x # Nil
  <2> DEFINE g == [h EXCEPT ![x].nRefs = h[x].nRefs + 1]
  <2>1. x \in Objects /\ IncNRefs(h, x) = g /\ h \in Heaps
    BY <1>2, HoldsFields DEF IncNRefs
  <2>2. \A o \in Objects : C[o] = IF o = x THEN B[o] + 1 ELSE B[o]
    BY HoldsFields DEF Alone
  <2>3. Within(H, C)
    BY <2>2, HoldsFields DEF Within
  <2>4. h[x].nRefs \in Nat
    BY <2>1, HoldsFields
  <2>6. /\ g \in Heaps /\ g[x].nRefs = h[x].nRefs + 1
        /\ \A o \in Objects : SameBut(h[o], g[o])
        /\ \A o \in Objects : o # x => g[o] = h[o]
    <3>1. h[x].nRefs + 1 \in Int
      BY <2>4
    <3>2. g = [h EXCEPT ![x].nRefs = h[x].nRefs + 1]
      OBVIOUS
    <3> HIDE DEF g
    <3>3. IsPut(h, x, h[x].nRefs + 1, g)
      BY <2>1, <3>1, <3>2, CountPut, Zenon
    <3> QED BY <3>3 DEF IsPut
  <2> HIDE DEF g
  <2>7. Fine(g, C, H) /\ Shrunk(h, g) /\ (Tidy(h) /\ IsMade(h, x) => Tidy(g)) /\ Loose(g) \subseteq Loose(h) \cup {x}
    BY <2>1, <2>2, <2>3, <2>6, CountChanges
  <2>5. x \notin Loose(g)
    BY <2>4, <2>6 DEF Loose
  <2> QED BY <1>2, <2>1, <2>5, <2>7
<1> QED BY <1>1, <1>2

(* A reference from outside goes: the object may be left without one. *)
LEMMA DecIsFine ==
  ASSUME NEW h, NEW B, NEW H, Fine(h, B, H), NEW x \in Objects \cup {Nil},
         NEW C \in Bags, IsMore(B, C, x), Within(H, C)
  PROVE  /\ Fine(DecNRefs(h, x), C, H) /\ Shrunk(h, DecNRefs(h, x)) /\ x \notin H.temps
         /\ Tidy(h) => Tidy(DecNRefs(h, x))
         /\ Loose(DecNRefs(h, x)) \subseteq Loose(h) \cup {x}
<1> USE DEF IsMore, Within
<1>1. CASE x = Nil
  <2>1. \A o \in Objects : C[o] = B[o]
    BY <1>1, ObjectsFinite DEF Alone, Bags
  <2>2. C = B
    BY <2>1, HoldsFields DEF Bags
  <2> QED BY <1>1, <2>2, ObjectsFinite, HoldsFields DEF DecNRefs, Shrunk, SameBut
<1>2. CASE x # Nil
  <2> DEFINE g == [h EXCEPT ![x].nRefs = h[x].nRefs - 1]
  <2>1. x \in Objects /\ DecNRefs(h, x) = g /\ h \in Heaps
    BY <1>2, HoldsFields DEF DecNRefs
  <2>2. \A o \in Objects : C[o] = IF o = x THEN B[o] + (-1) ELSE B[o]
    BY HoldsFields DEF Alone, Bags
  <2>3. Within(H, C)
    OBVIOUS
  <2>4. B[x] > 0
    BY <2>1 DEF Alone, Bags
  <2>5. h[x].nRefs > 0 /\ h[x].nRefs \in Nat
    BY <2>1, <2>4, HoldsFields
  <2>6. x \notin H.temps
    BY <2>5 DEF Fine
  <2>7. /\ g \in Heaps /\ g[x].nRefs = h[x].nRefs + (-1)
        /\ \A o \in Objects : SameBut(h[o], g[o])
        /\ \A o \in Objects : o # x => g[o] = h[o]
    <3>1. h[x].nRefs - 1 \in Int /\ h[x].nRefs - 1 = h[x].nRefs + (-1)
      BY <2>5
    <3>2. g = [h EXCEPT ![x].nRefs = h[x].nRefs - 1]
      OBVIOUS
    <3> HIDE DEF g
    <3>3. IsPut(h, x, h[x].nRefs - 1, g)
      BY <2>1, <3>1, <3>2, CountPut, Zenon
    <3> QED BY <3>1, <3>3 DEF IsPut
  <2> HIDE DEF g
  <2>9. Fine(g, C, H) /\ Shrunk(h, g) /\ (Tidy(h) /\ IsMade(h, x) => Tidy(g)) /\ Loose(g) \subseteq Loose(h) \cup {x}
    BY <2>1, <2>2, <2>3, <2>6, <2>7, CountChanges
  <2>8. Tidy(h) => IsMade(h, x)
    BY <2>1, <2>5, FreeIsRecord DEF Tidy
  <2> QED BY <1>2, <2>1, <2>6, <2>8, <2>9
<1> QED BY <1>1, <1>2

-----------------------------------------------------------------------------
\* Release

Orderly(h, g) == Shrunk(h, g) /\ (Tidy(h) => Tidy(g))
Releases(h, g) == Orderly(h, g) /\ Loose(g) \subseteq Loose(h)

LEMMA ReleasesAgain ==
  ASSUME NEW f, NEW g, NEW h, Releases(f, g), Releases(g, h)
  PROVE  Releases(f, h)
BY ShrunkAgain DEF Releases, Orderly

LEMMA ReleasesItself ==
  ASSUME NEW h PROVE Releases(h, h)
BY DEF Releases, Orderly, Shrunk, SameBut

(* An object without references is destroyed: what it referred to has now its   *)
(* references counted as from outside.                                         *)
LEMMA FreeIsFine ==
  ASSUME NEW h, NEW B, NEW H, Fine(h, B, H), NEW x \in Objects, x \notin H.temps, h[x].nRefs = 0,
         NEW g, g = [h EXCEPT ![x] = Free],
         NEW C, IsWith(C, B, h[x].refs)
  PROVE  /\ Fine(g, C, H) /\ Releases(h, g) /\ x \notin Loose(g) /\ g[x] = Free
         /\ Cardinality(References(h)) = Cardinality(References(g)) + Len(h[x].refs)
<1>0. h \in Heaps /\ B \in Bags /\ H \in Holds /\ H.kept \subseteq Objects /\ H.temps \subseteq Objects
  BY HoldsFields DEF Fine
<1>1. /\ g \in Heaps /\ g[x] = Free
      /\ \A o \in Objects : o # x => g[o] = h[o]
  <2>1. g = [o \in Objects |-> IF o = x THEN Free ELSE h[o]]
    BY <1>0 DEF Heaps
  <2>2. \A o \in Objects : h[o] \in Records
    BY <1>0 DEF Heaps
  <2> QED BY <2>1, <2>2, FreeIsRecord DEF Heaps
<1>2. h[x].refs \in Seq(Objects) /\ Len(h[x].refs) \in Nat
  BY <1>0, HeapFields
<1>3. B[x] = 0 /\ \A p \in Objects : ~Refers(h, p, x)
  BY HoldsFields
<1>4. ASSUME NEW o \in Objects
      PROVE  Cardinality(RefUses(g, o)) + Occurrences(o, h[x].refs) = Cardinality(RefUses(h, o))
             /\ Cardinality(RefUses(g, o)) \in Nat /\ Occurrences(o, h[x].refs) \in Nat
             /\ Cardinality(RefUses(h, o)) \in Nat
  <2>1. OthersRefer(h, g, x) /\ g \in Heaps
    BY <1>1 DEF OthersRefer
  <2>2. Cardinality(RefUses(g, o)) + Occurrences(o, h[x].refs)
          = Cardinality(RefUses(h, o)) + Occurrences(o, g[x].refs)
    <3>1. h \in Heaps /\ g \in Heaps /\ OthersRefer(h, g, x)
      BY <1>0, <2>1
    <3>2. /\ \A q : Cardinality(RefUses(g, q)) + Occurrences(q, h[x].refs)
                     = Cardinality(RefUses(h, q)) + Occurrences(q, g[x].refs)
          /\ Cardinality(References(g)) + Len(h[x].refs) = Cardinality(References(h)) + Len(g[x].refs)
      BY <3>1, UsesChange, Zenon
    <3> QED BY <3>2, Zenon
  <2>3. Occurrences(o, g[x].refs) = 0
    BY <1>1, FreeIsRecord, OccursNowhere
  <2>4. Cardinality(RefUses(g, o)) \in Nat /\ Occurrences(o, h[x].refs) \in Nat
        /\ Cardinality(RefUses(h, o)) \in Nat
    BY <1>0, <1>1, <1>2, RefUsesFinite, PlacesFinite
  <2> QED BY <2>2, <2>3, <2>4
<1>5. Cardinality(References(h)) = Cardinality(References(g)) + Len(h[x].refs)
  <2>1. OthersRefer(h, g, x) /\ g \in Heaps
    BY <1>1 DEF OthersRefer
  <2>2. Cardinality(References(g)) + Len(h[x].refs) = Cardinality(References(h)) + Len(g[x].refs)
    BY <1>0, <2>1, UsesChange
  <2>3. Len(g[x].refs) = 0
    BY <1>1, FreeIsRecord, EmptySeq
  <2>4. Cardinality(References(h)) \in Nat /\ Cardinality(References(g)) \in Nat
    BY <1>0, <1>1, ReferencesFinite
  <2> QED BY <1>2, <2>2, <2>3, <2>4
<1>6. Exact(g, C)
  <2> SUFFICES ASSUME NEW o \in Objects PROVE g[o].nRefs = C[o] + Cardinality(RefUses(g, o))
    BY DEF Exact
  <2>1. h[o].nRefs = B[o] + Cardinality(RefUses(h, o)) /\ B[o] \in Nat
    BY <1>0 DEF Fine, Exact, Bags
  <2>2. C[o] = B[o] + Occurrences(o, h[x].refs)
    BY DEF IsWith
  <2>3. h[o].nRefs = C[o] + Cardinality(RefUses(g, o))
    <3>1. /\ Cardinality(RefUses(g, o)) + Occurrences(o, h[x].refs) = Cardinality(RefUses(h, o))
          /\ Cardinality(RefUses(g, o)) \in Nat /\ Occurrences(o, h[x].refs) \in Nat
      BY <1>4
    <3> QED BY <2>1, <2>2, <3>1
  <2>4. CASE o = x
    BY <1>1, <2>3, <2>4, FreeIsRecord
  <2>5. CASE o # x
    BY <1>1, <2>3, <2>5
  <2> QED BY <2>4, <2>5
<1>7. x \notin H.kept
  <2>1. H.bag[x] = 0
    BY <1>3, HoldsFields
  <2> QED BY <1>0, <1>3, <2>1 DEF Fine, Supported
<1>8. Supported(g, H) /\ (\A o \in H.kept : IsMade(g, o)) /\ \A o \in H.temps : g[o].nRefs = 0
  <2>1. \A p \in H.kept : g[p] = h[p]
    BY <1>0, <1>1, <1>7
  <2>2. Supported(g, H)
    BY <2>1 DEF Fine, Supported, Refers
  <2>3. \A o \in H.kept : IsMade(g, o)
    BY <2>1 DEF Fine, IsMade, IsType, SameBut
  <2>4. \A o \in H.temps : g[o].nRefs = 0
    BY <2>1 DEF Fine, Supported
  <2> QED BY <2>2, <2>3, <2>4
<1>9. Within(H, C) /\ C \in Bags
  <2> SUFFICES ASSUME NEW o \in Objects PROVE H.bag[o] <= C[o]
    BY DEF Within, IsWith
  <2>1. C[o] = B[o] + Occurrences(o, h[x].refs) /\ Occurrences(o, h[x].refs) \in Nat
    BY <1>4 DEF IsWith
  <2>2. B[o] \in Nat /\ H.bag[o] \in Nat /\ H.bag[o] <= B[o]
    BY HoldsFields
  <2> QED BY <2>1, <2>2
<1>10. Fine(g, C, H)
  BY <1>0, <1>1, <1>6, <1>8, <1>9 DEF Fine
<1>11. Releases(h, g)
  <2>1. Shrunk(h, g)
    BY <1>1 DEF Shrunk, SameBut
  <2>2. Tidy(h) => Tidy(g)
    BY <1>1 DEF Tidy, IsMade, IsType, SameBut
  <2>3. Loose(g) \subseteq Loose(h)
    BY <1>1, FreeIsRecord DEF Loose, IsMade, IsType, SameBut
  <2> QED BY <2>1, <2>2, <2>3 DEF Releases, Orderly
<1>12. x \notin Loose(g)
  BY <1>1, FreeIsRecord DEF Loose, IsMade, IsType, SameBut
<1> QED BY <1>1, <1>5, <1>10, <1>11, <1>12

-----------------------------------------------------------------------------
\* The loop of DestroyList

ReleaseStates == [heap : Heaps, left : Seq(Objects)]
Steps(h, objs) == Len(objs) + Cardinality(References(h))

(* From h, with objs to release and B what remains referred to from outside. *)
ReleaseInv(s, h, B, H) ==
  /\ s \in ReleaseStates
  /\ Fine(s.heap, With(B, s.left), H)
  /\ Releases(h, s.heap)

LEMMA ReleaseNextIsFine ==
  ASSUME NEW h, NEW B \in Bags, NEW H \in Holds, Within(H, B),
         NEW s, ReleaseInv(s, h, B, H)
  PROVE  /\ ReleaseInv(ReleaseNext(s), h, B, H)
         /\ s.left # <<>> => Steps(ReleaseNext(s).heap, ReleaseNext(s).left) = Steps(s.heap, s.left) - 1
<1>0. s \in ReleaseStates /\ s.heap \in Heaps /\ s.left \in Seq(Objects)
      /\ Fine(s.heap, With(B, s.left), H) /\ Releases(h, s.heap)
  BY DEF ReleaseInv, ReleaseStates
<1>1. CASE s.left = <<>>
  BY <1>1 DEF ReleaseNext
<1>2. CASE s.left # <<>>
  <2> DEFINE o == Head(s.left)
             t == Tail(s.left)
             f == DecNRefs(s.heap, o)
  <2>1. o \in Objects /\ t \in Seq(Objects) /\ Len(s.left) = Len(t) + 1 /\ Len(t) \in Nat
    BY <1>0, <1>2, HeadTailProperties, EmptySeq
  <2>2. With(B, t) \in Bags /\ \A p \in Objects : With(B, t)[p] = B[p] + Occurrences(p, t) /\ B[p] <= With(B, t)[p]
    BY <2>1, WithIsBag
  <2>3. IsMore(With(B, s.left), With(B, t), o) /\ Within(H, With(B, t))
    <3>1. With(B, s.left) \in Bags /\ \A p \in Objects : With(B, s.left)[p] = B[p] + Occurrences(p, s.left)
      BY <1>0, WithIsBag
    <3>2. ASSUME NEW p \in Objects PROVE With(B, s.left)[p] = With(B, t)[p] + Alone(p, o)
      <4>1. Occurrences(p, s.left) = Alone(p, o) + Occurrences(p, t)
        BY <1>0, <1>2, OccursTail
      <4>2. B[p] \in Nat /\ Occurrences(p, t) \in Nat /\ Alone(p, o) \in Nat
        BY <2>1, PlacesFinite DEF Bags, Alone
      <4> QED BY <2>2, <3>1, <4>1, <4>2
    <3>3. Within(H, With(B, t))
      <4>1. IsWith(With(B, t), B, t)
        BY <2>1, WithIsBag
      <4> QED BY <2>1, <4>1, WithinMore, Zenon
    <3> QED BY <3>1, <3>2, <3>3 DEF IsMore
  <2>4. o \in Objects \cup {Nil}
    BY <2>1
  <2> HIDE DEF o, t, f
  <2>5. /\ Fine(f, With(B, t), H) /\ Shrunk(s.heap, f) /\ o \notin H.temps
        /\ Tidy(s.heap) => Tidy(f)
        /\ Loose(f) \subseteq Loose(s.heap) \cup {o}
    BY <1>0, <2>2, <2>3, <2>4, DecIsFine DEF f
  <2>6. f \in Heaps /\ f[o].refs \in Seq(Objects) /\ f[o].nRefs \in Nat /\ Len(f[o].refs) \in Nat
    BY <2>1, <2>5, HoldsFields, HeapFields
  <2>7. Cardinality(References(f)) = Cardinality(References(s.heap)) /\ Cardinality(References(f)) \in Nat
    <3>1. \A p \in Objects : f[p].refs = s.heap[p].refs
      <4>1. f = [s.heap EXCEPT ![o].nRefs = @ - 1]
        BY <2>1, ObjectsFinite DEF f, DecNRefs
      <4>2. \A p \in Objects : s.heap[p] \in Records
        BY <1>0 DEF Heaps
      <4> QED BY <1>0, <2>1, <4>1, <4>2 DEF Heaps, Records
    <3>2. References(f) = References(s.heap)
      BY <1>0, <2>6, <3>1, UsesSame
    <3> QED BY <2>6, <3>2, ReferencesFinite
  <2>8. CASE f[o].nRefs # 0
    <3>1. ReleaseNext(s) = [heap |-> f, left |-> t]
      BY <1>2, <2>8 DEF ReleaseNext, f, t, o
    <3>2. o \notin Loose(f)
      BY <2>8 DEF Loose
    <3>3. Releases(s.heap, f)
      BY <2>5, <3>2 DEF Releases, Orderly
    <3>4. Releases(h, f)
      BY <1>0, <3>3, ReleasesAgain
    <3>5. ReleaseInv([heap |-> f, left |-> t], h, B, H)
      BY <2>1, <2>5, <2>6, <3>4 DEF ReleaseInv, ReleaseStates
    <3>6. Steps(f, t) = Steps(s.heap, s.left) - 1
      BY <2>1, <2>7 DEF Steps
    <3> QED BY <3>1, <3>5, <3>6
  <2>9. CASE f[o].nRefs = 0
    <3> DEFINE g == [f EXCEPT ![o] = Free]
               r == Reverse(f[o].refs)
               l == r \o t
    <3>1. ReleaseNext(s) = [heap |-> g, left |-> l]
      BY <1>2, <2>9 DEF ReleaseNext, f, t, o
    <3>2. r \in Seq(Objects) /\ Len(r) = Len(f[o].refs) /\ l \in Seq(Objects) /\ Len(l) = Len(r) + Len(t)
      BY <2>1, <2>6, ReverseIsSeq, ConcatProperties
    <3>3. With(B, l) \in Bags /\ \A p \in Objects : With(B, l)[p] = B[p] + Occurrences(p, l)
      BY <3>2, WithIsBag
    <3>4. IsWith(With(B, l), With(B, t), f[o].refs)
      <4>1. ASSUME NEW p \in Objects PROVE With(B, l)[p] = With(B, t)[p] + Occurrences(p, f[o].refs)
        <5>1. Occurrences(p, l) = Occurrences(p, r) + Occurrences(p, t)
          BY <2>1, <3>2, OccursConcat
        <5>2. Occurrences(p, r) = Occurrences(p, f[o].refs)
          BY <2>6, OccursReverse
        <5>3. B[p] \in Nat /\ Occurrences(p, t) \in Nat /\ Occurrences(p, r) \in Nat
          BY <2>1, <3>2, PlacesFinite DEF Bags
        <5> QED BY <2>2, <3>3, <5>1, <5>2, <5>3
      <4> QED BY <3>3, <4>1 DEF IsWith
    <3> HIDE DEF r, l
    <3>5. g = [f EXCEPT ![o] = Free]
      OBVIOUS
    <3> HIDE DEF g
    <3>6. /\ Fine(g, With(B, l), H) /\ Releases(f, g) /\ o \notin Loose(g)
          /\ Cardinality(References(f)) = Cardinality(References(g)) + Len(f[o].refs)
      <4>1. Fine(f, With(B, t), H) /\ o \notin H.temps
        BY <2>5
      <4>2. IsWith(With(B, l), With(B, t), f[o].refs) /\ f[o].nRefs = 0 /\ o \in Objects
        BY <2>1, <2>9, <3>4
      <4>3. /\ Fine(g, With(B, l), H) /\ Releases(f, g) /\ o \notin Loose(g) /\ g[o] = Free
            /\ Cardinality(References(f)) = Cardinality(References(g)) + Len(f[o].refs)
        BY <3>5, <4>1, <4>2, FreeIsFine
      <4> QED BY <4>3
    <3>7. Releases(s.heap, g)
      <4>1. Shrunk(s.heap, g)
        BY <2>5, <3>6, ShrunkAgain DEF Releases, Orderly
      <4> QED BY <2>5, <3>6, <4>1 DEF Releases, Orderly
    <3>8. Releases(h, g)
      BY <1>0, <3>7, ReleasesAgain
    <3>9. g \in Heaps
      BY <3>6, HoldsFields
    <3>10. ReleaseInv([heap |-> g, left |-> l], h, B, H)
      BY <3>2, <3>6, <3>8, <3>9 DEF ReleaseInv, ReleaseStates
    <3>11. Steps(g, l) = Steps(s.heap, s.left) - 1
      <4>1. Cardinality(References(g)) \in Nat
        BY <3>9, ReferencesFinite
      <4>2. Cardinality(References(s.heap)) = Cardinality(References(g)) + Len(f[o].refs) /\ Len(f[o].refs) \in Nat
        BY <2>6, <2>7, <3>6
      <4>3. Len(l) = Len(f[o].refs) + Len(t) /\ Len(s.left) = Len(t) + 1 /\ Len(t) \in Nat
        BY <2>1, <3>2
      <4>4. Steps(g, l) = Len(l) + Cardinality(References(g))
            /\ Steps(s.heap, s.left) = Len(s.left) + Cardinality(References(s.heap))
        BY DEF Steps
      <4>5. \A a, b, c \in Nat : (a + b) + c = ((b + 1) + (c + a)) - 1
        OBVIOUS
      <4>6. Steps(g, l) = (Len(f[o].refs) + Len(t)) + Cardinality(References(g))
            /\ Steps(s.heap, s.left) = (Len(t) + 1) + (Cardinality(References(g)) + Len(f[o].refs))
        BY <4>2, <4>3, <4>4, Zenon
      <4>7. (Len(f[o].refs) + Len(t)) + Cardinality(References(g))
              = ((Len(t) + 1) + (Cardinality(References(g)) + Len(f[o].refs))) - 1
        BY <4>1, <4>2, <4>3, <4>5, Zenon
      <4> QED BY <4>6, <4>7, Zenon
    <3> QED BY <3>1, <3>10, <3>11
  <2> QED BY <2>6, <2>8, <2>9
<1> QED BY <1>1, <1>2

LEMMA StepsAreCounted ==
  ASSUME NEW h \in Heaps, NEW objs \in Seq(Objects)
  PROVE  Steps(h, objs) \in Nat /\ (Steps(h, objs) = 0 => objs = <<>>)
<1>1. Len(objs) \in Nat /\ Cardinality(References(h)) \in Nat
  BY ReferencesFinite
<1> QED BY <1>1, EmptySeq DEF Steps

(* All of the list is released. *)
LEMMA DestroyListIsFine ==
  ASSUME NEW h, NEW C, NEW H, Fine(h, C, H), NEW objs \in Seq(Objects),
         NEW B \in Bags, IsWith(C, B, objs), Within(H, B)
  PROVE  Fine(DestroyList(h, objs), B, H) /\ Releases(h, DestroyList(h, objs))
<1> DEFINE m == Steps(h, objs)
           s0 == [heap |-> h, left |-> objs]
           States == {s \in ReleaseStates : ReleaseInv(s, h, B, H)}
           T == [n \in 1 .. m |-> [s \in States |-> ReleaseNext(s)]]
           Unfolds(f) == f = [n \in 0 .. m |-> IF n = 0 THEN s0 ELSE ReleaseNext(f[n - 1])]
           after == CHOOSE f : Unfolds(f)
<1>0. h \in Heaps /\ m \in Nat /\ H \in Holds
  BY StepsAreCounted, HoldsFields DEF Fine
<1>1. s0 \in States
  <2>1. With(B, objs) = C
    BY WithIsBag DEF IsWith, Bags
  <2>2. s0 \in ReleaseStates
    BY <1>0 DEF ReleaseStates
  <2> QED BY <2>1, <2>2, ReleasesItself DEF ReleaseInv
<1>2. \A s \in States : ReleaseNext(s) \in States
                        /\ (s.left # <<>> => Steps(ReleaseNext(s).heap, ReleaseNext(s).left) = Steps(s.heap, s.left) - 1)
  <2> SUFFICES ASSUME NEW s \in States
               PROVE  ReleaseNext(s) \in States
                      /\ (s.left # <<>> => Steps(ReleaseNext(s).heap, ReleaseNext(s).left) = Steps(s.heap, s.left) - 1)
    OBVIOUS
  <2>1. ReleaseInv(s, h, B, H)
    OBVIOUS
  <2>2. ReleaseInv(ReleaseNext(s), h, B, H)
        /\ (s.left # <<>> => Steps(ReleaseNext(s).heap, ReleaseNext(s).left) = Steps(s.heap, s.left) - 1)
    BY <1>0, <2>1, ReleaseNextIsFine, Zenon
  <2>3. ReleaseNext(s) \in ReleaseStates
    BY <2>2 DEF ReleaseInv
  <2> QED BY <2>2, <2>3
<1>3. \A n \in 1 .. m, s \in States : T[n][s] = ReleaseNext(s) /\ T[n][s] \in States
  BY <1>2
<1> HIDE DEF T, States, s0, m
<1>4. PICK f : IsLoop(f, m, States, T, s0)
  BY <1>0, <1>1, <1>3, LoopExists
<1>5. Unfolds(f)
  <2>1. f \in [0 .. m -> States] /\ f[0] = s0 /\ \A n \in 1 .. m : f[n] = T[n][f[n - 1]]
    BY <1>4 DEF IsLoop
  <2>2. ASSUME NEW n \in 0 .. m PROVE f[n] = IF n = 0 THEN s0 ELSE ReleaseNext(f[n - 1])
    <3>1. CASE n = 0
      BY <2>1, <3>1
    <3>2. CASE n # 0
      <4>1. n \in 1 .. m /\ n - 1 \in 0 .. m
        BY <1>0, <3>2
      <4>2. f[n - 1] \in States /\ f[n] = T[n][f[n - 1]]
        BY <2>1, <4>1
      <4> QED BY <1>3, <3>2, <4>1, <4>2
    <3> QED BY <3>1, <3>2
  <2> QED BY <2>1, <2>2
<1>6. Unfolds(after)
  BY <1>5
<1> HIDE DEF after
<1>7. after[0] = s0 /\ \A n \in 1 .. m : after[n] = ReleaseNext(after[n - 1])
  BY <1>0, <1>6
<1> HIDE DEF Unfolds
<1> DEFINE Good == {n \in 0 .. m : after[n] \in States
                                   /\ (after[n].left = <<>> \/ Steps(after[n].heap, after[n].left) = m - n)}
<1>8. \A n \in 0 .. m : n \in Good
  <2>1. 0 \in Good
    BY <1>0, <1>1, <1>7 DEF s0, m
  <2>2. ASSUME NEW n \in 0 .. m - 1, n \in Good PROVE n + 1 \in Good
    <3>1. n + 1 \in 1 .. m /\ (n + 1) - 1 = n /\ n + 1 \in 0 .. m /\ n \in 0 .. m
      BY <1>0
    <3>2. after[n + 1] = ReleaseNext(after[n])
      BY <1>7, <3>1
    <3>3. after[n] \in States /\ (after[n].left = <<>> \/ Steps(after[n].heap, after[n].left) = m - n)
      BY <2>2
    <3>4. after[n + 1] \in States
      BY <1>2, <3>2, <3>3
    <3>5. CASE after[n].left = <<>>
      <4>1. after[n + 1] = after[n]
        BY <3>2, <3>5 DEF ReleaseNext
      <4> QED BY <3>1, <3>4, <3>5, <4>1
    <3>6. CASE after[n].left # <<>>
      <4>1. Steps(after[n + 1].heap, after[n + 1].left) = Steps(after[n].heap, after[n].left) - 1
        BY <1>2, <3>2, <3>3, <3>6
      <4>2. Steps(after[n + 1].heap, after[n + 1].left) = m - (n + 1)
        BY <1>0, <3>1, <3>3, <3>6, <4>1
      <4> QED BY <3>1, <3>4, <4>2
    <3> QED BY <3>5, <3>6
  <2> HIDE DEF Good
  <2> QED BY <1>0, <2>1, <2>2, CountUp
<1>9. after[m] \in States /\ after[m].left = <<>>
  <2>1. m \in 0 .. m /\ m - m = 0
    BY <1>0
  <2>2. after[m] \in States /\ (after[m].left = <<>> \/ Steps(after[m].heap, after[m].left) = 0)
    BY <1>8, <2>1
  <2>3. after[m].heap \in Heaps /\ after[m].left \in Seq(Objects)
    BY <2>2 DEF States, ReleaseStates
  <2> QED BY <2>2, <2>3, StepsAreCounted
<1>10. Fine(after[m].heap, B, H) /\ Releases(h, after[m].heap)
  <2>1. ReleaseInv(after[m], h, B, H)
    BY <1>9 DEF States
  <2>2. Fine(after[m].heap, With(B, <<>>), H) /\ Releases(h, after[m].heap)
    BY <1>9, <2>1 DEF ReleaseInv
  <2>3. With(B, <<>>) = B
    <3>1. \A o \in Objects : Occurrences(o, <<>>) = 0 /\ B[o] \in Nat
      BY OccursNowhere DEF Bags
    <3> QED BY <3>1 DEF With, Bags
  <2> QED BY <2>2, <2>3
<1>11. DestroyList(h, objs) = after[m].heap
  BY DEF DestroyList, after, Unfolds, m, s0, Steps
<1> QED BY <1>10, <1>11

-----------------------------------------------------------------------------
\* Destroy, and destroying with a result that survives

More(B, x) == [o \in Objects |-> B[o] + Alone(o, x)]

LEMMA MoreIsBag ==
  ASSUME NEW B \in Bags, NEW x
  PROVE  More(B, x) \in Bags /\ IsMore(More(B, x), B, x)
<1>1. \A o \in Objects : Alone(o, x) \in Nat
  BY DEF Alone
<1> QED BY <1>1 DEF More, IsMore, Bags

LEMMA DestroyIsFine ==
  ASSUME NEW h, NEW B, NEW H, Fine(h, B, H), NEW o \in Objects \cup {Nil}, o \notin H.temps
  PROVE  /\ Fine(Destroy(h, o), B, H) /\ Releases(h, Destroy(h, o))
         /\ Loose(Destroy(h, o)) \subseteq Loose(h) \ {o}
<1>0. h \in Heaps /\ B \in Bags /\ Within(H, B)
  BY HoldsFields DEF Fine
<1>1. CASE o = Nil \/ h[o].nRefs # 0
  <2>1. Destroy(h, o) = h
    BY <1>1 DEF Destroy
  <2>2. o \notin Loose(h)
    BY <1>1, ObjectsFinite DEF Loose
  <2> QED BY <2>1, <2>2, ReleasesItself
<1>2. CASE ~(o = Nil \/ h[o].nRefs # 0)
  <2> DEFINE refs == h[o].refs
             g == [h EXCEPT ![o] = Free]
             C == With(B, refs)
  <2>1. o \in Objects /\ h[o].nRefs = 0 /\ refs \in Seq(Objects)
    BY <1>0, <1>2, HeapFields
  <2>2. C \in Bags /\ IsWith(C, B, refs)
    BY <1>0, <2>1, WithIsBag
  <2>3. g = [h EXCEPT ![o] = Free]
    OBVIOUS
  <2> HIDE DEF g, C
  <2>4. Fine(g, C, H) /\ Releases(h, g) /\ o \notin Loose(g)
    BY <2>1, <2>2, <2>3, FreeIsFine, Zenon
  <2>5. IsWith(C, B, Reverse(refs)) /\ Reverse(refs) \in Seq(Objects)
    <3>1. \A p \in Objects : Occurrences(p, Reverse(refs)) = Occurrences(p, refs)
      BY <2>1, OccursReverse
    <3> QED BY <2>1, <2>2, <3>1, ReverseIsSeq DEF IsWith
  <2>6. Fine(DestroyList(g, Reverse(refs)), B, H) /\ Releases(g, DestroyList(g, Reverse(refs)))
    BY <1>0, <2>4, <2>5, DestroyListIsFine, Zenon
  <2>7. Destroy(h, o) = DestroyList(g, Reverse(refs))
    BY <1>2 DEF Destroy, g
  <2>8. Releases(h, DestroyList(g, Reverse(refs)))
    BY <2>4, <2>6, ReleasesAgain, Zenon
  <2>9. Loose(DestroyList(g, Reverse(refs))) \subseteq Loose(h) \ {o}
    BY <2>4, <2>6 DEF Releases
  <2> QED BY <2>6, <2>7, <2>8, <2>9
<1> QED BY <1>1, <1>2

\* A hold on one object.
Pin(r) == [bag |-> [o \in Objects |-> Alone(o, r)], kept |-> {r} \ {Nil}, temps |-> {}]

LEMMA PinIsFine ==
  ASSUME NEW h, NEW C, NEW H, Fine(h, C, H), NEW r \in Objects \cup {Nil},
         NEW B \in Bags, IsMore(C, B, r), r # Nil => IsMade(h, r)
  PROVE  Fine(h, C, Pin(r)) /\ Pin(r) \in Holds
<1>1. Pin(r) \in Holds
  BY DEF Pin, Holds, Bags, Alone
<1>2. Within(Pin(r), C)
  BY DEF Within, Pin, IsMore, Alone, Bags
<1>3. Supported(h, Pin(r))
  BY DEF Supported, Pin, Alone
<1>4. (\A o \in Pin(r).kept : IsMade(h, o)) /\ \A o \in Pin(r).temps : h[o].nRefs = 0
  BY DEF Pin
<1> QED BY <1>1, <1>2, <1>3, <1>4 DEF Fine

(* What becomes of a heap while a result is at hand. *)
Alive(h, r) == r # Nil => IsMade(h, r)
Safe(h, g, r) ==
  /\ Shrunk(h, g)
  /\ Tidy(h) /\ Alive(h, r) => Tidy(g)
  /\ r # Nil /\ IsMade(h, r) => SameBut(h[r], g[r])

(* A result is referred to while something is done to the heap. *)
LEMMA SafeAround ==
  ASSUME NEW h, NEW A, NEW H, Fine(h, A, H), NEW r \in Objects \cup {Nil}, r \notin H.temps,
         NEW g, NEW B \in Bags, Within(H, B), Fine(g, More(B, r), H),
         Fine(IncNRefs(h, r), More(A, r), Pin(r)) => Fine(g, More(B, r), Pin(r)),
         Orderly(IncNRefs(h, r), g)
  PROVE  /\ Fine(DecNRefs(g, r), B, H) /\ Safe(h, DecNRefs(g, r), r)
         /\ Loose(DecNRefs(g, r)) \subseteq Loose(g) \cup {r}
<1> DEFINE a == IncNRefs(h, r)
           b == DecNRefs(g, r)
<1>0. A \in Bags
  BY HoldsFields
<1>1. /\ Fine(a, More(A, r), H) /\ Shrunk(h, a)
      /\ Tidy(h) /\ Alive(h, r) => Tidy(a)
  BY <1>0, MoreIsBag, IncIsFine DEF Alive
<1>2. /\ Fine(b, B, H) /\ Shrunk(g, b)
      /\ Tidy(g) => Tidy(b)
      /\ Loose(b) \subseteq Loose(g) \cup {r}
  BY MoreIsBag, DecIsFine
<1>3. \A o \in Objects : SameBut(h[o], a[o])
  <2>1. h \in Heaps
    BY HoldsFields
  <2> QED BY <2>1 DEF IncNRefs, SameBut, Heaps, Records
<1>4. \A o \in Objects : SameBut(g[o], b[o])
  <2>1. g \in Heaps
    BY HoldsFields
  <2> QED BY <2>1 DEF DecNRefs, SameBut, Heaps, Records
<1> HIDE DEF a, b
<1>5. ASSUME r # Nil, IsMade(h, r) PROVE SameBut(h[r], b[r])
  <2>1. IsMade(a, r) /\ r \in Objects
    BY <1>3, <1>5 DEF SameBut, IsMade, IsType
  <2>2. IsMore(More(A, r), A, r)
    BY <1>0, MoreIsBag
  <2>3. Fine(a, More(A, r), Pin(r))
    BY <1>0, <1>1, <2>1, <2>2, PinIsFine, Zenon
  <2>4. Fine(g, More(B, r), Pin(r))
    BY <2>3 DEF a
  <2>5. Shrunk(a, g)
    BY DEF a, Orderly
  <2>6. r \in Pin(r).kept
    BY <1>5 DEF Pin
  <2>7. SameBut(a[r], g[r])
    BY <2>4, <2>5, <2>6, HeldIsSame, Zenon
  <2> QED BY <1>3, <1>4, <2>1, <2>7 DEF SameBut
<1>6. Shrunk(h, b)
  <2>1. Shrunk(a, g)
    BY DEF a, Orderly
  <2>2. Shrunk(h, g)
    BY <1>1, <2>1, ShrunkAgain, Zenon
  <2> QED BY <1>2, <2>2, ShrunkAgain, Zenon
<1>7. Tidy(h) /\ Alive(h, r) => Tidy(b)
  BY <1>1, <1>2 DEF Orderly, a
<1>8. Safe(h, b, r)
  BY <1>5, <1>6, <1>7 DEF Safe
<1> QED BY <1>2, <1>8 DEF b

LEMMA SafeDestroyIsFine ==
  ASSUME NEW h, NEW B, NEW H, Fine(h, B, H), NEW o \in Objects \cup {Nil}, o \notin H.temps,
         NEW r \in Objects \cup {Nil}, r \notin H.temps
  PROVE  /\ Fine(SafeDestroy(h, o, r), B, H) /\ Safe(h, SafeDestroy(h, o, r), r)
         /\ Loose(SafeDestroy(h, o, r)) \subseteq (Loose(h) \ {o}) \cup {r}
<1> DEFINE a == IncNRefs(h, r)
           g == Destroy(a, o)
<1>0. B \in Bags /\ Within(H, B)
  BY HoldsFields DEF Fine
<1>1. Fine(a, More(B, r), H) /\ Loose(a) \subseteq Loose(h) \ {r}
  BY <1>0, MoreIsBag, IncIsFine
<1>2. Fine(g, More(B, r), H) /\ Releases(a, g) /\ Loose(g) \subseteq Loose(a) \ {o}
  BY <1>1, DestroyIsFine, Zenon
<1>3. Fine(a, More(B, r), Pin(r)) => Fine(g, More(B, r), Pin(r))
  <2>1. o \notin Pin(r).temps
    BY DEF Pin
  <2> QED BY <2>1, DestroyIsFine, Zenon
<1> HIDE DEF g
<1>4. Orderly(a, g)
  BY <1>2 DEF Releases
<1>5. /\ Fine(DecNRefs(g, r), B, H) /\ Safe(h, DecNRefs(g, r), r)
      /\ Loose(DecNRefs(g, r)) \subseteq Loose(g) \cup {r}
  BY <1>0, <1>2, <1>3, <1>4, SafeAround, Zenon
<1> QED BY <1>1, <1>2, <1>5 DEF SafeDestroy, g

LEMMA SafeDestroyListIsFine ==
  ASSUME NEW h, NEW C, NEW H, Fine(h, C, H), NEW objs \in Seq(Objects),
         NEW B \in Bags, IsWith(C, B, objs), Within(H, B),
         NEW r \in Objects \cup {Nil}, r \notin H.temps
  PROVE  /\ Fine(SafeDestroyList(h, objs, r), B, H) /\ Safe(h, SafeDestroyList(h, objs, r), r)
         /\ Loose(SafeDestroyList(h, objs, r)) \subseteq Loose(h) \cup {r}
<1> DEFINE a == IncNRefs(h, r)
           g == DestroyList(a, objs)
<1>0. C \in Bags
  BY HoldsFields
<1>1. Fine(a, More(C, r), H) /\ Loose(a) \subseteq Loose(h) \ {r}
  BY <1>0, MoreIsBag, IncIsFine
<1>2. IsWith(More(C, r), More(B, r), objs) /\ More(B, r) \in Bags /\ Within(H, More(B, r)) /\ Within(Pin(r), More(B, r))
  <2>1. More(C, r) \in Bags /\ More(B, r) \in Bags
    BY <1>0, MoreIsBag
  <2>2. ASSUME NEW o \in Objects
        PROVE  /\ More(C, r)[o] = More(B, r)[o] + Occurrences(o, objs)
               /\ H.bag[o] <= More(B, r)[o]
               /\ Pin(r).bag[o] <= More(B, r)[o]
    <3>1. More(C, r)[o] = C[o] + Alone(o, r) /\ More(B, r)[o] = B[o] + Alone(o, r) /\ Alone(o, r) \in Nat
      BY DEF More, Alone
    <3>2. C[o] = B[o] + Occurrences(o, objs) /\ B[o] \in Nat /\ Occurrences(o, objs) \in Nat
      BY PlacesFinite DEF IsWith, Bags
    <3>3. H.bag[o] \in Nat /\ H.bag[o] <= B[o] /\ Pin(r).bag[o] = Alone(o, r)
      BY HoldsFields DEF Within, Pin
    <3> QED BY <3>1, <3>2, <3>3
  <2> QED BY <2>1, <2>2 DEF IsWith, Within
<1>3. Fine(g, More(B, r), H) /\ Releases(a, g)
  BY <1>1, <1>2, DestroyListIsFine, Zenon
<1>4. Fine(a, More(C, r), Pin(r)) => Fine(g, More(B, r), Pin(r))
  BY <1>2, DestroyListIsFine, Zenon
<1> HIDE DEF g
<1>5. Orderly(a, g) /\ Loose(g) \subseteq Loose(a)
  BY <1>3 DEF Releases
<1>6. /\ Fine(DecNRefs(g, r), B, H) /\ Safe(h, DecNRefs(g, r), r)
      /\ Loose(DecNRefs(g, r)) \subseteq Loose(g) \cup {r}
  BY <1>3, <1>4, <1>5, SafeAround, Zenon
<1> QED BY <1>1, <1>5, <1>6 DEF SafeDestroyList, g

-----------------------------------------------------------------------------
\* An object without references to others gets some, each counted

IsFilled(h, g, x, refs) ==
  /\ g \in Heaps
  /\ g[x].refs = refs
  /\ \A o \in Objects : g[o].nRefs = h[o].nRefs + Occurrences(o, refs)
  /\ \A o \in Objects : o # x => SameBut(h[o], g[o])

NoneOf(S, s) == \A i \in DOMAIN s : s[i] \notin S

LEMMA FilledIsFine ==
  ASSUME NEW h, NEW B, NEW H, Fine(h, B, H), NEW x \in Objects, h[x].refs = <<>>,
         NEW refs \in Seq(Objects), NoneOf(H.temps, refs),
         NEW g, IsFilled(h, g, x, refs), x \in H.kept => IsMade(g, x)
  PROVE  Fine(g, B, H)
<1>0. h \in Heaps /\ g \in Heaps /\ B \in Bags /\ H \in Holds /\ H.kept \subseteq Objects /\ H.temps \subseteq Objects
  BY HoldsFields DEF Fine, IsFilled
<1>1. g[x].refs = refs /\ OthersRefer(h, g, x)
  BY DEF IsFilled, OthersRefer, SameBut
<1>2. \A o : Cardinality(RefUses(g, o)) + Occurrences(o, h[x].refs)
               = Cardinality(RefUses(h, o)) + Occurrences(o, g[x].refs)
  <2>1. /\ \A o : Cardinality(RefUses(g, o)) + Occurrences(o, h[x].refs)
                    = Cardinality(RefUses(h, o)) + Occurrences(o, g[x].refs)
        /\ Cardinality(References(g)) + Len(h[x].refs) = Cardinality(References(h)) + Len(g[x].refs)
    BY <1>0, <1>1, UsesChange, Zenon
  <2> QED BY <2>1, Zenon
<1>3. Exact(g, B)
  <2> SUFFICES ASSUME NEW o \in Objects PROVE g[o].nRefs = B[o] + Cardinality(RefUses(g, o))
    BY DEF Exact
  <2>1. Cardinality(RefUses(g, o)) + 0 = Cardinality(RefUses(h, o)) + Occurrences(o, refs)
    BY <1>1, <1>2, OccursNowhere, Zenon
  <2>2. Cardinality(RefUses(g, o)) \in Nat /\ Cardinality(RefUses(h, o)) \in Nat /\ Occurrences(o, refs) \in Nat
    BY <1>0, RefUsesFinite, PlacesFinite
  <2>3. h[o].nRefs = B[o] + Cardinality(RefUses(h, o)) /\ B[o] \in Nat
    BY <1>0 DEF Fine, Exact, Bags
  <2>4. g[o].nRefs = h[o].nRefs + Occurrences(o, refs)
    BY DEF IsFilled
  <2> QED BY <2>1, <2>2, <2>3, <2>4
<1>4. Supported(g, H)
  <2>1. Supported(h, H)
    BY DEF Fine
  <2>2. \A p \in Objects : \A o : Refers(h, p, o) => Refers(g, p, o)
    BY <1>1 DEF Refers, OthersRefer
  <2> QED BY <1>0, <2>1, <2>2 DEF Supported
<1>5. \A o \in H.kept : IsMade(g, o)
  BY <1>0 DEF Fine, IsFilled, SameBut, IsMade, IsType
<1>6. \A o \in H.temps : g[o].nRefs = 0
  <2> SUFFICES ASSUME NEW o \in H.temps PROVE g[o].nRefs = 0
    OBVIOUS
  <2>1. o \in Objects /\ h[o].nRefs = 0
    BY <1>0 DEF Fine
  <2>2. ~\E i \in DOMAIN refs : refs[i] = o
    BY DEF NoneOf
  <2>3. Occurrences(o, refs) = 0
    <3>1. Occurrences(o, refs) > 0 <=> \E i \in DOMAIN refs : refs[i] = o
      BY OccursInRange
    <3>2. Occurrences(o, refs) \in Nat
      BY PlacesFinite
    <3> QED BY <2>2, <3>1, <3>2
  <2> QED BY <2>1, <2>3 DEF IsFilled
<1> QED BY <1>0, <1>3, <1>4, <1>5, <1>6 DEF Fine

LEMMA IncAllIs ==
  ASSUME NEW h \in Heaps, NEW refs \in Seq(Objects)
  PROVE  /\ IncAll(h, refs) \in Heaps
         /\ \A o \in Objects : SameBut(h[o], IncAll(h, refs)[o])
                               /\ IncAll(h, refs)[o].nRefs = h[o].nRefs + Occurrences(o, refs)
<1> SUFFICES ASSUME NEW o \in Objects
             PROVE  /\ IncAll(h, refs)[o] \in Records
                    /\ SameBut(h[o], IncAll(h, refs)[o])
                    /\ IncAll(h, refs)[o].nRefs = h[o].nRefs + Occurrences(o, refs)
  BY DEF IncAll, Heaps
<1>1. IncAll(h, refs)[o] = [h[o] EXCEPT !.nRefs = h[o].nRefs + Occurrences(o, refs)]
  BY DEF IncAll
<1>2. h[o] \in Records /\ h[o].nRefs \in Int
  BY HeapFields
<1>3. h[o].nRefs + Occurrences(o, refs) \in Int
  BY <1>2, PlacesFinite
<1> QED BY <1>1, <1>2, <1>3 DEF Records, SameBut

-----------------------------------------------------------------------------
\* Memories

Entries == [obj : Objects, name : Names \cup {NoName}]
Stacks == Seq(Entries)
Memories == [heap : Heaps, stack : Stacks]
Objs(st) == [i \in DOMAIN st |-> st[i].obj]

\* B are the references that are not from the heap, nor from the stack.
MemFine(m, B, H) == m \in Memories /\ B \in Bags /\ Fine(m.heap, With(B, Objs(m.stack)), H)

LEMMA StackObjects ==
  ASSUME NEW st \in Stacks
  PROVE  /\ Objs(st) \in Seq(Objects) /\ Len(Objs(st)) = Len(st)
         /\ \A i \in 1 .. Len(st) : Objs(st)[i] = st[i].obj
<1>1. DOMAIN st = 1 .. Len(st) /\ Len(st) \in Nat /\ \A i \in 1 .. Len(st) : st[i] \in Entries
  BY DEF Stacks
<1>2. \A i \in 1 .. Len(st) : st[i].obj \in Objects
  BY <1>1 DEF Entries
<1>3. Objs(st) = [i \in 1 .. Len(st) |-> st[i].obj]
  BY <1>1 DEF Objs
<1> QED BY <1>1, <1>2, <1>3, IsASeq

LEMMA MemFields ==
  ASSUME NEW m, NEW B, NEW H, MemFine(m, B, H)
  PROVE  /\ m.heap \in Heaps /\ m.stack \in Stacks /\ Objs(m.stack) \in Seq(Objects) /\ B \in Bags /\ H \in Holds
         /\ m = [heap |-> m.heap, stack |-> m.stack]
         /\ Fine(m.heap, With(B, Objs(m.stack)), H)
         /\ With(B, Objs(m.stack)) \in Bags
<1>1. m.heap \in Heaps /\ m.stack \in Stacks /\ B \in Bags /\ m = [heap |-> m.heap, stack |-> m.stack]
      /\ Fine(m.heap, With(B, Objs(m.stack)), H)
  BY DEF MemFine, Memories
<1>2. Objs(m.stack) \in Seq(Objects)
  BY <1>1, StackObjects
<1> QED BY <1>1, <1>2, WithIsBag DEF Fine

LEMMA PushIsFine ==
  ASSUME NEW m, NEW B, NEW H, MemFine(m, B, H), NEW o \in Objects, o \notin H.temps,
         NEW name \in Names \cup {NoName}
  PROVE  /\ MemFine(Push(m, o, name), B, H)
         /\ Push(m, o, name).heap = IncNRefs(m.heap, o)
         /\ Push(m, o, name).stack = Append(m.stack, [obj |-> o, name |-> name])
         /\ Loose(Push(m, o, name).heap) \subseteq Loose(m.heap) \ {o}
         /\ Shrunk(m.heap, Push(m, o, name).heap)
         /\ Tidy(m.heap) /\ IsMade(m.heap, o) => Tidy(Push(m, o, name).heap)
<1> DEFINE e == [obj |-> o, name |-> name]
           st == Append(m.stack, e)
           A == With(B, Objs(m.stack))
           C == With(B, Objs(st))
<1>0. /\ m.heap \in Heaps /\ m.stack \in Stacks /\ Objs(m.stack) \in Seq(Objects) /\ B \in Bags
      /\ Fine(m.heap, A, H)
  BY MemFields
<1>1. e \in Entries /\ st \in Stacks
  BY <1>0 DEF Entries, Stacks
<1>2. Objs(st) = Append(Objs(m.stack), o)
  <2>1. Len(st) = Len(m.stack) + 1 /\ Len(m.stack) \in Nat /\ st[Len(m.stack) + 1] = e
        /\ \A i \in 1 .. Len(m.stack) : st[i] = m.stack[i]
    BY <1>0, <1>1 DEF Stacks
  <2>2. Objs(st) \in Seq(Objects) /\ Len(Objs(st)) = Len(st) /\ \A i \in 1 .. Len(st) : Objs(st)[i] = st[i].obj
    BY <1>1, StackObjects, Zenon
  <2>3. Objs(m.stack) \in Seq(Objects) /\ Len(Objs(m.stack)) = Len(m.stack)
        /\ \A i \in 1 .. Len(m.stack) : Objs(m.stack)[i] = m.stack[i].obj
    BY <1>0, StackObjects, Zenon
  <2>4. Append(Objs(m.stack), o) \in Seq(Objects) /\ Len(Append(Objs(m.stack), o)) = Len(st)
    BY <2>1, <2>3
  <2>5. ASSUME NEW i \in 1 .. Len(st) PROVE Objs(st)[i] = Append(Objs(m.stack), o)[i]
    <3>1. CASE i \in 1 .. Len(m.stack)
      BY <2>1, <2>2, <2>3, <3>1
    <3>2. CASE i = Len(m.stack) + 1
      BY <2>1, <2>2, <2>3, <3>2
    <3>3. i \in 1 .. Len(m.stack) \/ i = Len(m.stack) + 1
      <4>1. Len(st) = Len(m.stack) + 1 /\ Len(m.stack) \in Nat
        BY <2>1
      <4> HIDE DEF st
      <4> QED BY <4>1
    <3> QED BY <3>1, <3>2, <3>3
  <2> QED BY <2>2, <2>4, <2>5, SeqEqual
<1>3. IsMore(C, A, o) /\ C \in Bags
  <2>1. C \in Bags /\ \A p \in Objects : C[p] = B[p] + Occurrences(p, Objs(st))
    BY <1>0, <1>1, StackObjects, WithIsBag
  <2>2. \A p \in Objects : A[p] = B[p] + Occurrences(p, Objs(m.stack))
    BY <1>0, WithIsBag
  <2>3. ASSUME NEW p \in Objects PROVE C[p] = A[p] + Alone(p, o)
    <3>1. Occurrences(p, Append(Objs(m.stack), o)) = Occurrences(p, Objs(m.stack)) + Alone(p, o)
      BY <1>0, OccursAppend
    <3>2. B[p] \in Nat /\ Occurrences(p, Objs(m.stack)) \in Nat /\ Alone(p, o) \in Nat
      BY <1>0, PlacesFinite DEF Bags, Alone
    <3>3. C[p] = B[p] + Occurrences(p, Append(Objs(m.stack), o))
      BY <1>2, <2>1
    <3> HIDE DEF A, C, st
    <3> QED BY <2>2, <3>1, <3>2, <3>3
  <2> QED BY <2>1, <2>3 DEF IsMore
<1> HIDE DEF A, C, st, e
<1>4. o \in Objects \cup {Nil} /\ o # Nil
  BY ObjectsFinite
<1>5. /\ Fine(IncNRefs(m.heap, o), C, H) /\ Shrunk(m.heap, IncNRefs(m.heap, o))
      /\ Tidy(m.heap) /\ (o # Nil => IsMade(m.heap, o)) => Tidy(IncNRefs(m.heap, o))
      /\ Loose(IncNRefs(m.heap, o)) \subseteq Loose(m.heap) \ {o}
  BY <1>0, <1>3, <1>4, IncIsFine, Zenon
<1>6. Push(m, o, name) = [heap |-> IncNRefs(m.heap, o), stack |-> st]
  BY DEF Push, st, e
<1>7. Push(m, o, name).heap = IncNRefs(m.heap, o) /\ Push(m, o, name).stack = st
  BY <1>6
<1>8. Push(m, o, name) \in Memories
  <2>1. IncNRefs(m.heap, o) \in Heaps
    BY <1>5, HoldsFields
  <2> QED BY <1>1, <1>6, <2>1 DEF Memories
<1>9. MemFine(Push(m, o, name), B, H)
  BY <1>0, <1>5, <1>7, <1>8 DEF MemFine, C
<1> QED BY <1>4, <1>5, <1>7, <1>9 DEF st, e

-----------------------------------------------------------------------------
\* New objects

FreeOnes(h) == {o \in Objects : h[o] = Free}

LEMMA NextIsFree ==
  ASSUME NEW h, Room(h, 1)
  PROVE  NextObject(h) \in Objects /\ h[NextObject(h)] = Free
<1>1. FreeOnes(h) = Objects \ Live(h)
  BY DEF FreeOnes, Live
<1>2. FreeOnes(h) # {}
  BY <1>1, FS_EmptySet DEF Room
<1>3. FreeOnes(h) \subseteq Nat
  BY ObjectsFinite DEF FreeOnes
<1>4. PICK x \in FreeOnes(h) : \A y \in FreeOnes(h) : ~(<<y, x>> \in OpToRel(<, Nat))
  BY <1>2, <1>3, NatLessThanWellFounded, WFMin
<1>5. \A y \in FreeOnes(h) : ~(y < x)
  BY <1>3, <1>4 DEF OpToRel
<1>6. x \in Objects /\ h[x] = Free /\ MaxObjects \in Nat
  BY EvaluationAssumption DEF FreeOnes
<1>7. \A p \in 1 .. (x - 1) : h[p] # Free
  <2> SUFFICES ASSUME NEW p \in 1 .. (x - 1), h[p] = Free PROVE FALSE
    OBVIOUS
  <2>1. p \in Objects /\ p < x
    BY <1>6 DEF Objects
  <2> QED BY <1>5, <2>1 DEF FreeOnes
<1> QED BY <1>6, <1>7 DEF NextObject

LEMMA RoomLess ==
  ASSUME NEW h, NEW g, NEW o, NEW k \in Nat, Room(h, k + 1), Live(g) \subseteq Live(h) \cup {o}
  PROVE  Room(g, k)
<1> DEFINE S == Objects \ Live(h)
           T == Objects \ Live(g)
<1>1. IsFiniteSet(S) /\ IsFiniteSet(T)
  BY ObjectsFinite, FS_Difference
<1>2. Cardinality(S) \in Nat /\ Cardinality(T) \in Nat
  BY <1>1, FS_CardinalityType
<1>3. Cardinality(S) >= k + 1
  BY DEF Room
<1>4. S \subseteq T \cup {o}
  OBVIOUS
<1> HIDE DEF S, T
<1>5. IsFiniteSet(T \cup {o}) /\ Cardinality(T \cup {o}) <= Cardinality(T) + 1 /\ Cardinality(T \cup {o}) \in Nat
  <2>1. /\ IsFiniteSet(T \cup {o})
        /\ Cardinality(T \cup {o}) = IF o \in T THEN Cardinality(T) ELSE Cardinality(T) + 1
    BY <1>1, FS_AddElement
  <2> QED BY <1>2, <2>1
<1>6. Cardinality(S) <= Cardinality(T \cup {o})
  BY <1>4, <1>5, FS_Subset
<1>7. Cardinality(T) >= k
  BY <1>2, <1>3, <1>5, <1>6
<1> QED BY <1>7 DEF Room, T

Made(kind, alias, name, lvl, refs) ==
  [kind |-> kind, alias |-> alias, name |-> name, level |-> lvl, nRefs |-> 0, refs |-> refs]

\* o is new in g, and refers to refs.
IsNew(h, g, o, rec) ==
  /\ o \in Objects /\ h[o] = Free
  /\ SameBut(rec, g[o])
  /\ \A p \in Objects : p # o => SameBut(h[p], g[p])
  /\ \A p \in Loose(g) : p = o \/ (p \in Loose(h) /\ \A i \in DOMAIN rec.refs : rec.refs[i] # p)
  /\ Tidy(h) /\ (\A i \in DOMAIN rec.refs : IsMade(h, rec.refs[i])) => Tidy(g)
  /\ Live(g) \subseteq Live(h) \cup {o} \cup Range(rec.refs)

IsMaking(h, g, o, rec) == Room(h, 1) /\ o = NextObject(h) /\ g = IncAll([h EXCEPT ![o] = rec], rec.refs)

LEMMA MakeIsFine ==
  ASSUME NEW h, NEW A, NEW H, Fine(h, A, H),
         NEW kind \in Kinds \cup {"None"}, NEW alias \in BOOLEAN, IsType(kind, alias), NEW name \in Names \cup {NoName}, NEW lvl \in Int,
         NEW refs \in Seq(Objects), NoneOf(H.temps, refs),
         NEW o, NEW g, IsMaking(h, g, o, Made(kind, alias, name, lvl, refs))
  PROVE  Fine(g, A, H) /\ IsNew(h, g, o, Made(kind, alias, name, lvl, refs)) /\ o \notin H.temps /\ o \notin H.kept
<1> DEFINE rec == Made(kind, alias, name, lvl, refs)
           f == [h EXCEPT ![o] = rec]
<1>0. h \in Heaps /\ o \in Objects /\ h[o] = Free /\ H.temps \subseteq H.kept /\ H.kept \subseteq Objects
  BY NextIsFree, HoldsFields DEF Fine, Supported, IsMaking
<1>1. rec \in Records /\ IsType(rec.kind, rec.alias) /\ rec.nRefs = 0 /\ rec.refs = refs
  <2>1. rec \in Records
    BY DEF Records, Made
  <2>2. rec.kind = kind /\ rec.alias = alias /\ rec.nRefs = 0 /\ rec.refs = refs
    BY DEF Made
  <2>3. Free.kind = "None" /\ Free.alias = FALSE
    BY DEF Free
  <2> HIDE DEF rec
  <2>4. IsType(rec.kind, rec.alias)
    BY <2>2, <2>3 DEF SameBut, IsType
  <2> QED BY <2>1, <2>2, <2>4
<1>2. f \in Heaps /\ f[o] = rec /\ \A p \in Objects : p # o => f[p] = h[p]
  <2> HIDE DEF rec
  <2> QED BY <1>0, <1>1 DEF Heaps
<1>3. o \notin H.kept
  BY <1>0, FreeIsRecord DEF Fine, IsMade, IsType, SameBut
<1> HIDE DEF rec, f
<1>4. /\ g \in Heaps
      /\ \A p \in Objects : SameBut(f[p], g[p]) /\ g[p].nRefs = f[p].nRefs + Occurrences(p, refs)
  <2>1. g = IncAll(f, refs)
    BY <1>1 DEF IsMaking, f, rec
  <2> QED BY <1>2, <2>1, IncAllIs
<1>5. IsFilled(h, g, o, refs)
  <2>1. g[o].refs = refs
    BY <1>0, <1>1, <1>2, <1>4 DEF SameBut
  <2>2. ASSUME NEW p \in Objects PROVE g[p].nRefs = h[p].nRefs + Occurrences(p, refs)
    <3>1. f[p].nRefs = h[p].nRefs
      BY <1>0, <1>1, <1>2, FreeIsRecord
    <3> QED BY <1>4, <3>1
  <2>3. \A p \in Objects : p # o => SameBut(h[p], g[p])
    BY <1>2, <1>4
  <2> QED BY <1>4, <2>1, <2>2, <2>3 DEF IsFilled
<1>6. Fine(g, A, H)
  <2>1. h[o].refs = <<>>
    BY <1>0, FreeIsRecord
  <2> QED BY <1>0, <1>3, <1>5, <2>1, FilledIsFine
<1>7. SameBut(rec, g[o]) /\ \A p \in Objects : p # o => SameBut(h[p], g[p])
  BY <1>0, <1>2, <1>4, <1>5 DEF IsFilled
<1>8. ASSUME NEW p \in Loose(g), p # o PROVE p \in Loose(h) /\ \A i \in DOMAIN rec.refs : rec.refs[i] # p
  <2>1. p \in Objects /\ g[p].nRefs = 0 /\ IsMade(g, p)
    BY DEF Loose
  <2>2. h[p].nRefs \in Nat /\ Occurrences(p, refs) \in Nat /\ g[p].nRefs = h[p].nRefs + Occurrences(p, refs)
    BY <1>5, <2>1, HoldsFields, PlacesFinite DEF IsFilled
  <2>3. h[p].nRefs = 0 /\ ~(Occurrences(p, refs) > 0)
    BY <2>1, <2>2
  <2>4. IsMade(h, p)
    BY <1>7, <1>8, <2>1 DEF IsMade, IsType, SameBut
  <2>5. \A i \in DOMAIN refs : refs[i] # p
    BY <2>3, OccursInRange
  <2> QED BY <1>1, <2>1, <2>3, <2>4, <2>5 DEF Loose
<1>9. ASSUME NEW p \in Objects, p # o, \A i \in DOMAIN refs : refs[i] # p PROVE g[p] = h[p]
  <2>1. ~(Occurrences(p, refs) > 0) /\ Occurrences(p, refs) \in Nat
    BY <1>9, OccursInRange, PlacesFinite
  <2>2. f[p] = h[p] /\ f[p] \in Records /\ f[p].nRefs \in Int
    BY <1>2, <1>9, HeapFields
  <2>3. g[p] \in Records /\ g[p].nRefs = h[p].nRefs /\ SameBut(h[p], g[p])
    <3>1. SameBut(f[p], g[p]) /\ g[p].nRefs = f[p].nRefs + Occurrences(p, refs) /\ g[p] \in Records
      BY <1>4, HeapFields
    <3> HIDE DEF SameBut
    <3> QED BY <2>1, <2>2, <3>1
  <2>4. h[p] \in Records /\ h[p].nRefs = g[p].nRefs /\ SameBut(h[p], g[p]) /\ g[p] \in Records
    BY <2>2, <2>3
  <2> QED BY <2>4, SMTT(30) DEF Records, SameBut
<1>10. Tidy(h) /\ (\A i \in DOMAIN rec.refs : IsMade(h, rec.refs[i])) => Tidy(g)
  <2> SUFFICES ASSUME Tidy(h), \A i \in DOMAIN refs : IsMade(h, refs[i]), NEW p \in Objects
               PROVE  IsMade(g, p) \/ g[p] = Free
    BY <1>1 DEF Tidy
  <2>1. CASE p = o
    BY <1>1, <1>4, <1>2, <1>0, <2>1 DEF IsMade, IsType, SameBut
  <2>2. CASE p # o /\ \E i \in DOMAIN refs : refs[i] = p
    BY <1>7, <2>2 DEF IsMade, IsType, SameBut
  <2>3. CASE p # o /\ \A i \in DOMAIN refs : refs[i] # p
    BY <1>9, <2>3 DEF Tidy, IsMade, IsType, SameBut
  <2> QED BY <2>1, <2>2, <2>3
<1>11. Live(g) \subseteq Live(h) \cup {o} \cup Range(rec.refs)
  BY <1>1, <1>9 DEF Live, Range
<1>12. IsNew(h, g, o, rec)
  BY <1>0, <1>7, <1>8, <1>10, <1>11 DEF IsNew
<1> QED BY <1>0, <1>3, <1>6, <1>12 DEF rec

Pushed(st, o, name) == IF name = NoName THEN st ELSE Append(st, [obj |-> o, name |-> name])
IsPlaced(m, n, B, H, o, rec, foundBy) ==
  /\ MemFine(n, B, H) /\ IsNew(m.heap, n.heap, o, rec)
  /\ o \notin H.temps /\ o \notin H.kept
  /\ foundBy # NoName => o \notin Loose(n.heap)
  /\ n.stack = Pushed(m.stack, o, foundBy)

LEMMA NewIsFine ==
  ASSUME NEW m, NEW B, NEW H, MemFine(m, B, H), Room(m.heap, 1),
         NEW kind \in Kinds \cup {"None"}, NEW alias \in BOOLEAN, IsType(kind, alias), NEW name \in Names \cup {NoName}, NEW lvl \in Int,
         NEW refs \in Seq(Objects), NoneOf(H.temps, refs), NEW foundBy \in Names \cup {NoName},
         NEW o, o = NextObject(m.heap),
         NEW n, n = New(m, kind, alias, name, lvl, refs, foundBy)
  PROVE  IsPlaced(m, n, B, H, o, Made(kind, alias, name, lvl, refs), foundBy)
<1> DEFINE rec == Made(kind, alias, name, lvl, refs)
           g == IncAll([m.heap EXCEPT ![o] = rec], refs)
           k == [m EXCEPT !.heap = g]
           A == With(B, Objs(m.stack))
<1>0. m.heap \in Heaps /\ m.stack \in Stacks /\ B \in Bags /\ Fine(m.heap, A, H) /\ m = [heap |-> m.heap, stack |-> m.stack]
  BY MemFields
<1>1. n = IF foundBy = NoName THEN k ELSE Push(k, o, foundBy)
  BY DEF New, Made
<1>2. IsMaking(m.heap, g, o, Made(kind, alias, name, lvl, refs))
  BY DEF IsMaking, Made
<1> HIDE DEF g, A, rec
<1>3. Fine(g, A, H) /\ IsNew(m.heap, g, o, rec) /\ o \notin H.temps /\ o \notin H.kept
  <2>1. Fine(m.heap, A, H)
    BY <1>0
  <2>2. Fine(g, A, H) /\ IsNew(m.heap, g, o, Made(kind, alias, name, lvl, refs)) /\ o \notin H.temps /\ o \notin H.kept
    BY <1>2, <2>1, MakeIsFine
  <2> QED BY <2>2 DEF rec
<1>4. k = [heap |-> g, stack |-> m.stack] /\ k.heap = g /\ k.stack = m.stack
  BY <1>0
<1>5. MemFine(k, B, H)
  <2>1. g \in Heaps
    BY <1>3, HoldsFields
  <2> QED BY <1>0, <1>3, <1>4, <2>1 DEF MemFine, Memories, A
<1> HIDE DEF k
<1>6. CASE foundBy = NoName
  BY <1>1, <1>3, <1>4, <1>5, <1>6 DEF rec, IsPlaced, Pushed
<1>7. CASE foundBy # NoName
  <2>1. o \in Objects
    BY <1>3 DEF IsNew
  <2>2. /\ MemFine(n, B, H) /\ n.heap = IncNRefs(g, o)
        /\ n.stack = Append(m.stack, [obj |-> o, name |-> foundBy])
        /\ Loose(n.heap) \subseteq Loose(g) \ {o}
        /\ Tidy(g) /\ IsMade(g, o) => Tidy(n.heap)
    <3>1. n = Push(k, o, foundBy) /\ o \notin H.temps
      BY <1>1, <1>3, <1>7
    <3>2. o \notin H.temps
      BY <3>1
    <3>3. MemFine(Push(k, o, foundBy), B, H)
      BY <1>5, <2>1, <3>2, PushIsFine, Zenon
    <3>4. Push(k, o, foundBy).heap = IncNRefs(k.heap, o)
      BY DEF Push
    <3>5. Push(k, o, foundBy).stack = Append(k.stack, [obj |-> o, name |-> foundBy])
      BY DEF Push
    <3>6. Loose(Push(k, o, foundBy).heap) \subseteq Loose(k.heap) \ {o}
      BY <1>5, <2>1, <3>2, PushIsFine, Zenon
    <3>7. Tidy(k.heap) /\ IsMade(k.heap, o) => Tidy(Push(k, o, foundBy).heap)
      BY <1>5, <2>1, <3>2, PushIsFine, Zenon
    <3> QED BY <1>4, <3>1, <3>3, <3>4, <3>5, <3>6, <3>7, Zenon
  <2>3. \A p \in Objects : SameBut(g[p], n.heap[p]) /\ (p # o => n.heap[p] = g[p])
    <3>1. g \in Heaps /\ o # Nil
      BY <1>3, <2>1, HoldsFields, ObjectsFinite
    <3>2. n.heap = [g EXCEPT ![o].nRefs = g[o].nRefs + 1] /\ g[o].nRefs + 1 \in Int
      BY <2>1, <2>2, <3>1, HeapFields DEF IncNRefs
    <3>3. IsPut(g, o, g[o].nRefs + 1, n.heap)
      BY <2>1, <3>1, <3>2, CountPut, Zenon
    <3> QED BY <3>3 DEF IsPut
  <2>4. IsNew(m.heap, n.heap, o, rec)
    <3>1. SameBut(rec, n.heap[o]) /\ \A p \in Objects : p # o => SameBut(m.heap[p], n.heap[p])
      BY <1>3, <2>1, <2>3 DEF IsNew, SameBut
    <3>2. \A p \in Loose(n.heap) : p = o \/ (p \in Loose(m.heap) /\ \A i \in DOMAIN rec.refs : rec.refs[i] # p)
      BY <1>3, <2>2 DEF IsNew
    <3>3. IsMade(g, o)
      <4>1. SameBut(rec, g[o]) /\ IsType(rec.kind, rec.alias)
        BY <1>3 DEF IsNew, SameBut, rec, Made, IsType, Free
      <4> QED BY <4>1 DEF IsMade, IsType, SameBut
    <3>4. Live(n.heap) \subseteq Live(m.heap) \cup {o} \cup Range(rec.refs)
      BY <1>3, <2>3 DEF IsNew, Live
    <3> QED BY <1>3, <2>1, <2>2, <3>1, <3>2, <3>3, <3>4 DEF IsNew
  <2> QED BY <1>3, <1>7, <2>2, <2>4 DEF rec, IsPlaced, Pushed
<1> QED BY <1>6, <1>7

-----------------------------------------------------------------------------
\* The end of local variables

Prefix(st, k) == SubSeq(st, 1, k)
Cut(st, k) == IF Len(st) <= k THEN st ELSE Prefix(st, k)

LEMMA PrefixIs ==
  ASSUME NEW st \in Stacks, NEW k \in 0 .. Len(st)
  PROVE  /\ Prefix(st, k) \in Stacks /\ Len(Prefix(st, k)) = k
         /\ \A i \in 1 .. k : Prefix(st, k)[i] = st[i]
<1>1. Len(st) \in Nat /\ \A i \in 1 .. Len(st) : st[i] \in Entries
  BY DEF Stacks
<1>2. k \in Nat /\ k <= Len(st)
  BY <1>1
<1>3. SubSeq(st, 1, k) = [i \in 1 .. k |-> st[i]]
  BY <1>1, <1>2 DEF Stacks
<1>4. \A i \in 1 .. k : st[i] \in Entries
  BY <1>1, <1>2
<1> QED BY <1>2, <1>3, <1>4, IsASeq DEF Prefix, Stacks

LEMMA PrefixOfAll ==
  ASSUME NEW st \in Stacks PROVE Prefix(st, Len(st)) = st
<1>1. Len(st) \in Nat /\ Len(st) \in 0 .. Len(st)
  BY DEF Stacks
<1>2. Prefix(st, Len(st)) \in Stacks /\ Len(Prefix(st, Len(st))) = Len(st)
      /\ \A i \in 1 .. Len(st) : Prefix(st, Len(st))[i] = st[i]
  BY <1>1, PrefixIs
<1> QED BY <1>2, SeqEqual DEF Stacks

LEMMA FrontOfPrefix ==
  ASSUME NEW st \in Stacks, NEW k \in 1 .. Len(st)
  PROVE  Front(Prefix(st, k)) = Prefix(st, k - 1) /\ Prefix(st, k) # <<>> /\ Last(Prefix(st, k)) = st[k]
<1>1. k \in Nat /\ k - 1 \in 0 .. Len(st) /\ k \in 0 .. Len(st) /\ k \in 1 .. k
  BY DEF Stacks
<1>2. Prefix(st, k) \in Stacks /\ Len(Prefix(st, k)) = k /\ \A i \in 1 .. k : Prefix(st, k)[i] = st[i]
  BY <1>1, PrefixIs
<1>3. Prefix(st, k - 1) \in Stacks /\ Len(Prefix(st, k - 1)) = k - 1
      /\ \A i \in 1 .. k - 1 : Prefix(st, k - 1)[i] = st[i]
  BY <1>1, PrefixIs
<1>4. Prefix(st, k) # <<>>
  BY <1>1, <1>2
<1>5. /\ Front(Prefix(st, k)) \in Stacks /\ Len(Front(Prefix(st, k))) = k - 1
      /\ Last(Prefix(st, k)) = Prefix(st, k)[k]
      /\ \A i \in 1 .. k - 1 : Front(Prefix(st, k))[i] = Prefix(st, k)[i]
  BY <1>2, <1>4, FrontAndLast DEF Stacks
<1>6. \A i \in 1 .. k - 1 : i \in 1 .. k
  BY <1>1
<1>7. Front(Prefix(st, k)) = Prefix(st, k - 1)
  <2>1. \A i \in 1 .. k - 1 : Front(Prefix(st, k))[i] = Prefix(st, k - 1)[i]
    BY <1>2, <1>3, <1>5, <1>6
  <2> QED BY <1>3, <1>5, <2>1, SeqEqual DEF Stacks
<1> QED BY <1>1, <1>2, <1>4, <1>5, <1>7

LEMMA PrefixGrows ==
  ASSUME NEW B \in Bags, NEW H \in Holds, NEW st \in Stacks, NEW j \in 0 .. Len(st), NEW i \in 0 .. j,
         Within(H, With(B, Objs(Prefix(st, i))))
  PROVE  Within(H, With(B, Objs(Prefix(st, j))))
<1> SUFFICES ASSUME NEW o \in Objects PROVE H.bag[o] <= With(B, Objs(Prefix(st, j)))[o]
  BY DEF Within
<1> DEFINE s == Objs(Prefix(st, i))
           t == Objs(Prefix(st, j))
<1>0. Len(st) \in Nat /\ i \in Nat /\ j \in Nat /\ i <= j /\ i \in 0 .. Len(st)
  BY DEF Stacks
<1>1. Prefix(st, i) \in Stacks /\ Len(Prefix(st, i)) = i /\ \A x \in 1 .. i : Prefix(st, i)[x] = st[x]
  BY <1>0, PrefixIs
<1>2. Prefix(st, j) \in Stacks /\ Len(Prefix(st, j)) = j /\ \A x \in 1 .. j : Prefix(st, j)[x] = st[x]
  BY <1>0, PrefixIs
<1>3. s \in Seq(Objects) /\ DOMAIN s = 1 .. i /\ \A x \in 1 .. i : s[x] = st[x].obj
  BY <1>1, StackObjects
<1>4. t \in Seq(Objects) /\ DOMAIN t = 1 .. j /\ \A x \in 1 .. j : t[x] = st[x].obj
  BY <1>2, StackObjects
<1> HIDE DEF s, t
<1>5. Places(o, s) \subseteq Places(o, t)
  BY <1>0, <1>3, <1>4 DEF Places
<1>6. Occurrences(o, s) <= Occurrences(o, t) /\ Occurrences(o, s) \in Nat /\ Occurrences(o, t) \in Nat
  <2>1. IsFiniteSet(Places(o, t)) /\ Occurrences(o, t) = Cardinality(Places(o, t)) /\ Occurrences(o, t) \in Nat
    BY <1>4, PlacesFinite
  <2>2. Occurrences(o, s) = Cardinality(Places(o, s)) /\ Occurrences(o, s) \in Nat
    BY <1>3, PlacesFinite
  <2>3. Cardinality(Places(o, s)) <= Cardinality(Places(o, t))
    BY <1>5, <2>1, FS_Subset
  <2> QED BY <2>1, <2>2, <2>3
<1>7. H.bag[o] <= With(B, s)[o]
  BY DEF s, Within
<1>8. With(B, s)[o] = B[o] + Occurrences(o, s) /\ With(B, t)[o] = B[o] + Occurrences(o, t) /\ B[o] \in Nat
      /\ H.bag[o] \in Nat
  BY <1>3, <1>4, WithIsBag DEF Bags, Holds
<1>9. H.bag[o] <= With(B, t)[o]
  BY <1>6, <1>7, <1>8
<1> QED BY <1>9 DEF t

\* Variables are taken off, and destroyed but for one.
Drops(h, g, except) == Orderly(h, g) /\ Loose(g) \subseteq Loose(h) \cup {except}

LEMMA DropsAgain ==
  ASSUME NEW f, NEW g, NEW h, NEW r, Drops(f, g, r), Drops(g, h, r)
  PROVE  Drops(f, h, r)
<1>1. Shrunk(f, h)
  BY ShrunkAgain DEF Drops, Orderly
<1> QED BY <1>1 DEF Drops, Orderly

LEMMA DropsItself ==
  ASSUME NEW h, NEW r PROVE Drops(h, h, r)
BY DEF Drops, Orderly, Shrunk, SameBut

LEMMA PopIsFine ==
  ASSUME NEW m, NEW B, NEW H, MemFine(m, B, H), m.stack # <<>>, NEW except,
         Within(H, With(B, Objs(Front(m.stack))))
  PROVE  /\ MemFine(Pop(m, except), B, H) /\ Drops(m.heap, Pop(m, except).heap, except)
         /\ Pop(m, except).stack = Front(m.stack)
<1> DEFINE o == Last(m.stack).obj
           st == Front(m.stack)
           h == DecNRefs(m.heap, o)
           A == With(B, Objs(m.stack))
           C == With(B, Objs(st))
           g == IF o = except THEN h ELSE Destroy(h, o)
<1>0. /\ m.heap \in Heaps /\ m.stack \in Stacks /\ Objs(m.stack) \in Seq(Objects) /\ B \in Bags
      /\ Fine(m.heap, A, H) /\ Len(m.stack) \in Nat
  BY MemFields DEF Stacks
<1>1. /\ st \in Stacks /\ Last(m.stack) = m.stack[Len(m.stack)] /\ Last(m.stack) \in Entries
      /\ Len(st) = Len(m.stack) - 1 /\ Len(m.stack) \in 1 .. Len(m.stack)
      /\ \A i \in 1 .. Len(m.stack) - 1 : st[i] = m.stack[i]
  BY <1>0, FrontAndLast DEF Stacks
<1>2. o \in Objects /\ o # Nil
  BY <1>1, ObjectsFinite DEF Entries
<1>3. Objs(st) = Front(Objs(m.stack)) /\ Last(Objs(m.stack)) = o /\ Objs(m.stack) # <<>>
  <2>1. Objs(st) \in Seq(Objects) /\ Len(Objs(st)) = Len(st) /\ \A i \in 1 .. Len(st) : Objs(st)[i] = st[i].obj
    BY <1>1, StackObjects, Zenon
  <2>2. Len(Objs(m.stack)) = Len(m.stack) /\ \A i \in 1 .. Len(m.stack) : Objs(m.stack)[i] = m.stack[i].obj
    BY <1>0, StackObjects, Zenon
  <2>3. Objs(m.stack) # <<>>
    BY <1>1, <2>2
  <2>4. /\ Front(Objs(m.stack)) \in Seq(Objects) /\ Len(Front(Objs(m.stack))) = Len(m.stack) - 1
        /\ Last(Objs(m.stack)) = Objs(m.stack)[Len(m.stack)]
        /\ \A i \in 1 .. Len(m.stack) - 1 : Front(Objs(m.stack))[i] = Objs(m.stack)[i]
    BY <1>0, <2>2, <2>3, FrontAndLast
  <2>5. \A i \in 1 .. Len(m.stack) - 1 : i \in 1 .. Len(m.stack)
    BY <1>0
  <2> HIDE DEF st
  <2>6. \A i \in 1 .. Len(st) : Objs(st)[i] = Front(Objs(m.stack))[i]
    BY <1>1, <2>1, <2>2, <2>4, <2>5
  <2>7. Objs(st) = Front(Objs(m.stack))
    BY <1>1, <2>1, <2>4, <2>6, SeqEqual
  <2> QED BY <1>1, <2>2, <2>3, <2>4, <2>7
<1> HIDE DEF st
<1>4. IsMore(A, C, o) /\ C \in Bags
  <2>1. C \in Bags /\ \A p \in Objects : C[p] = B[p] + Occurrences(p, Objs(st))
    BY <1>0, <1>1, StackObjects, WithIsBag
  <2>2. A \in Bags /\ \A p \in Objects : A[p] = B[p] + Occurrences(p, Objs(m.stack))
    BY <1>0, WithIsBag
  <2> HIDE DEF A, C
  <2>3. ASSUME NEW p \in Objects PROVE A[p] = C[p] + Alone(p, o)
    <3>1. Occurrences(p, Objs(m.stack)) = Occurrences(p, Objs(st)) + Alone(p, o)
      BY <1>0, <1>3, OccursFront
    <3>2. B[p] \in Nat /\ Occurrences(p, Objs(st)) \in Nat /\ Alone(p, o) \in Nat
      BY <1>0, <1>1, StackObjects, PlacesFinite DEF Bags, Alone
    <3>3. A[p] = B[p] + Occurrences(p, Objs(m.stack)) /\ C[p] = B[p] + Occurrences(p, Objs(st))
      BY <2>1, <2>2
    <3> QED BY <3>1, <3>2, <3>3
  <2> QED BY <2>1, <2>2, <2>3 DEF IsMore
<1>5. Within(H, C)
  BY DEF C, st
<1> HIDE DEF A, C, o, h
<1>6. /\ Fine(h, C, H) /\ Shrunk(m.heap, h) /\ o \notin H.temps
      /\ Tidy(m.heap) => Tidy(h)
      /\ Loose(h) \subseteq Loose(m.heap) \cup {o}
  <2>1. o \in Objects \cup {Nil}
    BY <1>2
  <2> QED BY <1>0, <1>4, <1>5, <2>1, DecIsFine, Zenon DEF h
<1>7. Fine(g, C, H) /\ Drops(m.heap, g, except)
  <2>1. CASE o = except
    BY <1>6, <2>1 DEF Drops, Orderly
  <2>2. CASE o # except
    <3>1. o \in Objects \cup {Nil} /\ o \notin H.temps /\ Fine(h, C, H)
      BY <1>2, <1>6
    <3>2. Fine(Destroy(h, o), C, H) /\ Releases(h, Destroy(h, o)) /\ Loose(Destroy(h, o)) \subseteq Loose(h) \ {o}
      BY <3>1, DestroyIsFine, Zenon
    <3>3. Shrunk(m.heap, Destroy(h, o))
      BY <1>6, <3>2, ShrunkAgain DEF Releases, Orderly
    <3>4. Drops(m.heap, Destroy(h, o), except)
      BY <1>6, <3>2, <3>3 DEF Drops, Orderly, Releases
    <3> QED BY <2>2, <3>2, <3>4
  <2> QED BY <2>1, <2>2
<1>8. m.heap[o] # Free
  <2>1. A[o] > 0
    BY <1>2, <1>4 DEF IsMore, Alone, Bags
  <2>2. m.heap[o].nRefs > 0
    BY <1>0, <1>2, <2>1, HoldsFields
  <2> QED BY <2>2, FreeIsRecord
<1> HIDE DEF g
<1>9. Pop(m, except) = [stack |-> st, heap |-> g]
  BY <1>8 DEF Pop, o, st, h, g
<1>10. MemFine(Pop(m, except), B, H)
  <2>1. g \in Heaps
    BY <1>7, HoldsFields
  <2> QED BY <1>0, <1>1, <1>7, <1>9, <2>1 DEF MemFine, Memories, C
<1> QED BY <1>7, <1>9, <1>10 DEF st

(* What is taken off is what was pushed last. *)
LEMMA DestroyUntilIsFine ==
  ASSUME NEW m, NEW B, NEW H, MemFine(m, B, H), NEW size \in Nat, NEW except,
         Within(H, With(B, Objs(Cut(m.stack, size))))
  PROVE  /\ MemFine(DestroyUntil(m, size, except), B, H)
         /\ Drops(m.heap, DestroyUntil(m, size, except).heap, except)
         /\ DestroyUntil(m, size, except).stack = Cut(m.stack, size)
<1> DEFINE k == Len(m.stack) - size
           Inv(s) == /\ MemFine(s, B, H) /\ Drops(m.heap, s.heap, except)
                     /\ Len(s.stack) \in size .. Len(m.stack)
                     /\ s.stack = Prefix(m.stack, Len(s.stack))
           States == {s \in Memories : Inv(s)}
           T == [n \in 1 .. k |-> [s \in States |-> IF Len(s.stack) > size THEN Pop(s, except) ELSE s]]
           Unfolds(f) == f = [n \in 0 .. k |-> IF n = 0 THEN m ELSE Pop(f[n - 1], except)]
           popped == CHOOSE f : Unfolds(f)
<1>0. m \in Memories /\ m.stack \in Stacks /\ Len(m.stack) \in Nat /\ B \in Bags /\ H \in Holds
  BY MemFields DEF MemFine, Stacks
<1>1. CASE Len(m.stack) <= size
  <2>1. DestroyUntil(m, size, except) = m /\ Cut(m.stack, size) = m.stack
    BY <1>1 DEF DestroyUntil, Cut
  <2> QED BY <2>1, DropsItself
<1>2. CASE Len(m.stack) > size
  <2>0. k \in Nat /\ k # 0 /\ Cut(m.stack, size) = Prefix(m.stack, size) /\ size \in 0 .. Len(m.stack)
    BY <1>0, <1>2 DEF Cut
  <2>1. m \in States
    BY <1>0, <1>2, PrefixOfAll, DropsItself
  <2>2. ASSUME NEW s \in States, Len(s.stack) > size
        PROVE  Pop(s, except) \in States /\ Len(Pop(s, except).stack) = Len(s.stack) - 1
    <3> DEFINE j == Len(s.stack)
    <3>1. MemFine(s, B, H) /\ Drops(m.heap, s.heap, except) /\ j \in size .. Len(m.stack) /\ s.stack = Prefix(m.stack, j)
      OBVIOUS
    <3>2. j \in 1 .. Len(m.stack) /\ j - 1 \in 0 .. Len(m.stack) /\ size \in 0 .. j - 1 /\ j - 1 \in size .. Len(m.stack)
      BY <1>0, <2>2, <3>1
    <3> HIDE DEF j
    <3>3. Front(s.stack) = Prefix(m.stack, j - 1) /\ s.stack # <<>>
      BY <1>0, <3>1, <3>2, FrontOfPrefix
    <3>4. Within(H, With(B, Objs(Prefix(m.stack, j - 1))))
      BY <1>0, <2>0, <3>2, PrefixGrows
    <3>5. /\ MemFine(Pop(s, except), B, H) /\ Drops(s.heap, Pop(s, except).heap, except)
          /\ Pop(s, except).stack = Front(s.stack)
      BY <3>1, <3>3, <3>4, PopIsFine
    <3>6. Len(Pop(s, except).stack) = j - 1
      BY <1>0, <3>2, <3>3, <3>5, PrefixIs
    <3>7. Drops(m.heap, Pop(s, except).heap, except)
      BY <3>1, <3>5, DropsAgain
    <3>8. Pop(s, except) \in Memories
      BY <3>5 DEF MemFine
    <3> QED BY <3>2, <3>3, <3>5, <3>6, <3>7, <3>8 DEF j
  <2>3. \A n \in 1 .. k, s \in States : T[n][s] = (IF Len(s.stack) > size THEN Pop(s, except) ELSE s) /\ T[n][s] \in States
    <3> SUFFICES ASSUME NEW n \in 1 .. k, NEW s \in States
                 PROVE  T[n][s] = (IF Len(s.stack) > size THEN Pop(s, except) ELSE s) /\ T[n][s] \in States
      OBVIOUS
    <3> HIDE DEF States
    <3> QED BY <2>2
  <2> HIDE DEF T, States, k
  <2>4. PICK f : IsLoop(f, k, States, T, m)
    BY <2>0, <2>1, <2>3, LoopExists
  <2>5. f \in [0 .. k -> States] /\ f[0] = m /\ \A n \in 1 .. k : f[n] = T[n][f[n - 1]]
    BY <2>4 DEF IsLoop
  <2> DEFINE Good == {n \in 0 .. k : Len(f[n].stack) = Len(m.stack) - n}
  <2>6. \A n \in 0 .. k : n \in Good
    <3>1. 0 \in Good
      BY <1>0, <2>0, <2>5
    <3>2. ASSUME NEW n \in 0 .. k - 1, n \in Good PROVE n + 1 \in Good
      <4>1. n + 1 \in 1 .. k /\ (n + 1) - 1 = n /\ n + 1 \in 0 .. k /\ n \in 0 .. k /\ Len(m.stack) - n > size
            /\ (Len(m.stack) - n) - 1 = Len(m.stack) - (n + 1)
        BY <1>0, <2>0 DEF k
      <4>2. f[n] \in States /\ f[n + 1] = T[n + 1][f[n]] /\ Len(f[n].stack) = Len(m.stack) - n
        BY <2>5, <3>2, <4>1
      <4>3. f[n + 1] = Pop(f[n], except)
        BY <2>3, <4>1, <4>2
      <4>4. Len(Pop(f[n], except).stack) = Len(f[n].stack) - 1
        BY <2>2, <4>1, <4>2
      <4> QED BY <4>1, <4>2, <4>3, <4>4
    <3> HIDE DEF Good
    <3> QED BY <2>0, <3>1, <3>2, CountUp
  <2>7. Unfolds(f)
    <3>1. ASSUME NEW n \in 0 .. k PROVE f[n] = IF n = 0 THEN m ELSE Pop(f[n - 1], except)
      <4>1. CASE n = 0
        BY <2>5, <4>1
      <4>2. CASE n # 0
        <5>1. n \in 1 .. k /\ n - 1 \in 0 .. k /\ Len(m.stack) - (n - 1) > size
          BY <1>0, <2>0, <4>2 DEF k
        <5>2. f[n - 1] \in States /\ Len(f[n - 1].stack) > size
          BY <2>5, <2>6, <5>1
        <5>3. f[n] = Pop(f[n - 1], except)
          BY <2>3, <2>5, <5>1, <5>2
        <5> QED BY <4>2, <5>3
      <4> QED BY <4>1, <4>2
    <3> QED BY <2>5, <3>1
  <2>8. Unfolds(popped)
    BY <2>7
  <2> HIDE DEF popped
  <2>9. popped[0] = m /\ \A n \in 1 .. k : popped[n] = Pop(popped[n - 1], except)
    BY <2>0, <2>8
  <2> HIDE DEF Unfolds
  <2> DEFINE Same == {n \in 0 .. k : popped[n] = f[n]}
  <2>10. \A n \in 0 .. k : n \in Same
    <3>1. 0 \in Same
      BY <2>0, <2>5, <2>9
    <3>2. ASSUME NEW n \in 0 .. k - 1, n \in Same PROVE n + 1 \in Same
      <4>1. n + 1 \in 1 .. k /\ (n + 1) - 1 = n /\ n + 1 \in 0 .. k /\ n \in 0 .. k /\ n + 1 # 0
        BY <2>0
      <4>2. popped[n + 1] = Pop(f[n], except)
        BY <2>9, <3>2, <4>1
      <4>3. f[n + 1] = Pop(f[n], except)
        BY <2>0, <2>7, <4>1 DEF Unfolds
      <4> QED BY <4>1, <4>2, <4>3
    <3> HIDE DEF Same
    <3> QED BY <2>0, <3>1, <3>2, CountUp
  <2>11. popped[k] \in States /\ Len(popped[k].stack) = size
    <3>1. k \in 0 .. k /\ Len(m.stack) - k = size
      BY <1>0, <2>0 DEF k
    <3>2. popped[k] = f[k] /\ f[k] \in States /\ Len(f[k].stack) = Len(m.stack) - k
      BY <2>5, <2>6, <2>10, <3>1
    <3> QED BY <3>1, <3>2
  <2>12. DestroyUntil(m, size, except) = popped[k]
    BY <1>0, <1>2 DEF DestroyUntil, popped, Unfolds, k
  <2> QED BY <2>0, <2>11, <2>12 DEF States
<1> QED BY <1>0, <1>1, <1>2

LEMMA WithAndMore ==
  ASSUME NEW B \in Bags, NEW s \in Seq(Objects), NEW r
  PROVE  With(More(B, r), s) = More(With(B, s), r)
<1>1. ASSUME NEW o \in Objects PROVE With(More(B, r), s)[o] = More(With(B, s), r)[o]
  <2>1. B[o] \in Nat /\ Occurrences(o, s) \in Nat /\ Alone(o, r) \in Nat
    BY PlacesFinite DEF Bags, Alone
  <2>2. With(More(B, r), s)[o] = (B[o] + Alone(o, r)) + Occurrences(o, s)
        /\ More(With(B, s), r)[o] = (B[o] + Occurrences(o, s)) + Alone(o, r)
    BY DEF With, More
  <2> QED BY <2>1, <2>2
<1>2. With(More(B, r), s) = [o \in Objects |-> With(More(B, r), s)[o]]
      /\ More(With(B, s), r) = [o \in Objects |-> More(With(B, s), r)[o]]
  BY DEF With, More
<1> QED BY <1>1, <1>2

LEMMA CutIs ==
  ASSUME NEW st \in Stacks, NEW k \in Nat
  PROVE  Cut(st, k) \in Stacks /\ Objs(Cut(st, k)) \in Seq(Objects)
<1>1. Len(st) \in Nat
  BY DEF Stacks
<1>2. Cut(st, k) \in Stacks
  BY <1>1, PrefixIs DEF Cut
<1> QED BY <1>2, StackObjects

LEMMA WithinBoth ==
  ASSUME NEW B \in Bags, NEW s \in Seq(Objects), NEW r, NEW H \in Holds, Within(H, With(B, s))
  PROVE  /\ Within(H, More(With(B, s), r)) /\ Within(Pin(r), More(With(B, s), r))
         /\ More(With(B, s), r) \in Bags /\ With(B, s) \in Bags
<1>1. With(B, s) \in Bags
  BY WithIsBag
<1>2. More(With(B, s), r) \in Bags
  BY <1>1, MoreIsBag
<1> DEFINE A == With(B, s)
<1> HIDE DEF A
<1>3. ASSUME NEW o \in Objects PROVE H.bag[o] <= More(A, r)[o] /\ Pin(r).bag[o] <= More(A, r)[o]
  <2>1. More(A, r)[o] = A[o] + Alone(o, r) /\ Alone(o, r) \in Nat /\ A[o] \in Nat
    BY <1>1 DEF More, Alone, Bags, A
  <2>2. H.bag[o] \in Nat /\ H.bag[o] <= A[o] /\ Pin(r).bag[o] = Alone(o, r)
    BY DEF Holds, Bags, Within, Pin, A
  <2> QED BY <2>1, <2>2
<1> QED BY <1>1, <1>2, <1>3 DEF Within, A

\* The end of local variables, with a reference to the result.
IsUntil(m, n, B, H, r, size) ==
  /\ n \in Memories /\ n.stack = Cut(m.stack, size)
  /\ Fine(n.heap, More(With(B, Objs(Cut(m.stack, size))), r), H)
  /\ Fine(IncNRefs(m.heap, r), More(With(B, Objs(m.stack)), r), Pin(r))
       => Fine(n.heap, More(With(B, Objs(Cut(m.stack, size))), r), Pin(r))
  /\ Drops(IncNRefs(m.heap, r), n.heap, r) /\ Loose(n.heap) \subseteq Loose(m.heap) \cup {r}

LEMMA UntilAround ==
  ASSUME NEW m, NEW B, NEW H, MemFine(m, B, H), NEW r \in Objects \cup {Nil}, r \notin H.temps,
         NEW size \in Nat, Within(H, With(B, Objs(Cut(m.stack, size)))),
         NEW n, n = DestroyUntil([m EXCEPT !.heap = IncNRefs(@, r)], size, r)
  PROVE  IsUntil(m, n, B, H, r, size)
<1> DEFINE a == IncNRefs(m.heap, r)
           k == [heap |-> a, stack |-> m.stack]
           st == Cut(m.stack, size)
<1>0. /\ m.heap \in Heaps /\ m.stack \in Stacks /\ Objs(m.stack) \in Seq(Objects) /\ B \in Bags /\ H \in Holds
      /\ m = [heap |-> m.heap, stack |-> m.stack] /\ Fine(m.heap, With(B, Objs(m.stack)), H)
      /\ With(B, Objs(m.stack)) \in Bags
  BY MemFields
<1>1. k = [m EXCEPT !.heap = IncNRefs(@, r)] /\ k.heap = a /\ k.stack = m.stack
  BY <1>0
<1>2. Fine(a, More(With(B, Objs(m.stack)), r), H) /\ Loose(a) \subseteq Loose(m.heap) \ {r}
  BY <1>0, MoreIsBag, IncIsFine
<1>3. More(B, r) \in Bags /\ st \in Stacks /\ Objs(st) \in Seq(Objects) /\ a \in Heaps
  BY <1>0, <1>2, MoreIsBag, CutIs, HoldsFields
<1>4. /\ With(More(B, r), Objs(m.stack)) = More(With(B, Objs(m.stack)), r)
      /\ With(More(B, r), Objs(st)) = More(With(B, Objs(st)), r)
  BY <1>0, <1>3, WithAndMore
<1>5. Within(H, With(More(B, r), Objs(st))) /\ Within(Pin(r), With(More(B, r), Objs(st)))
  BY <1>0, <1>3, <1>4, WithinBoth
<1> HIDE DEF a, k, st
<1>6. n = DestroyUntil(k, size, r)
  BY <1>1
<1>7. ASSUME NEW G, Fine(a, With(More(B, r), Objs(m.stack)), G), Within(G, With(More(B, r), Objs(st)))
      PROVE  MemFine(n, More(B, r), G) /\ Drops(a, n.heap, r) /\ n.stack = st
  <2>1. MemFine(k, More(B, r), G)
    BY <1>0, <1>1, <1>3, <1>7 DEF MemFine, Memories, k
  <2>2. Within(G, With(More(B, r), Objs(Cut(k.stack, size))))
    BY <1>1, <1>7 DEF st
  <2>3. /\ MemFine(DestroyUntil(k, size, r), More(B, r), G)
        /\ Drops(k.heap, DestroyUntil(k, size, r).heap, r)
        /\ DestroyUntil(k, size, r).stack = Cut(k.stack, size)
    BY <2>1, <2>2, DestroyUntilIsFine
  <2> QED BY <1>1, <1>6, <2>3 DEF st
<1>8. MemFine(n, More(B, r), H) /\ Drops(a, n.heap, r) /\ n.stack = st
  BY <1>2, <1>4, <1>5, <1>7
<1>9. Fine(n.heap, More(With(B, Objs(st)), r), H) /\ n \in Memories
  BY <1>4, <1>8 DEF MemFine
<1>10. ASSUME Fine(a, More(With(B, Objs(m.stack)), r), Pin(r)) PROVE Fine(n.heap, More(With(B, Objs(st)), r), Pin(r))
  BY <1>4, <1>5, <1>7, <1>8, <1>10 DEF MemFine
<1>11. Loose(n.heap) \subseteq Loose(m.heap) \cup {r}
  BY <1>2, <1>8 DEF Drops
<1> QED BY <1>8, <1>9, <1>10, <1>11 DEF a, st, IsUntil

LEMMA EndScopeIsFine ==
  ASSUME NEW m, NEW B, NEW H, MemFine(m, B, H), NEW r \in Objects \cup {Nil}, r \notin H.temps,
         NEW size \in Nat, Within(H, With(B, Objs(Cut(m.stack, size)))),
         NEW e, e = EndScope(m, size, r)
  PROVE  /\ MemFine(e, B, H) /\ e.stack = Cut(m.stack, size) /\ Safe(m.heap, e.heap, r)
         /\ Loose(e.heap) \subseteq Loose(m.heap) \cup {r}
<1> DEFINE n == DestroyUntil([m EXCEPT !.heap = IncNRefs(@, r)], size, r)
           st == Cut(m.stack, size)
           A == With(B, Objs(m.stack))
           D == With(B, Objs(st))
<1>0. m.stack \in Stacks /\ B \in Bags /\ H \in Holds /\ Fine(m.heap, A, H)
  BY MemFields
<1>1. st \in Stacks /\ Objs(st) \in Seq(Objects)
  BY <1>0, CutIs
<1>2. D \in Bags /\ Within(H, D)
  BY <1>0, <1>1, WithIsBag
<1>3. n = DestroyUntil([m EXCEPT !.heap = IncNRefs(@, r)], size, r) /\ e = [n EXCEPT !.heap = DecNRefs(@, r)]
  BY DEF EndScope
<1> HIDE DEF n
<1>4. /\ n \in Memories /\ n.stack = st /\ Fine(n.heap, More(D, r), H)
      /\ Fine(IncNRefs(m.heap, r), More(A, r), Pin(r)) => Fine(n.heap, More(D, r), Pin(r))
      /\ Drops(IncNRefs(m.heap, r), n.heap, r) /\ Loose(n.heap) \subseteq Loose(m.heap) \cup {r}
  <2>1. IsUntil(m, n, B, H, r, size)
    BY <1>3, UntilAround, Zenon
  <2> QED BY <2>1 DEF IsUntil
<1>5. e = [heap |-> DecNRefs(n.heap, r), stack |-> st] /\ e.heap = DecNRefs(n.heap, r) /\ e.stack = st
  BY <1>3, <1>4 DEF Memories
<1> HIDE DEF A, D, st
<1>6. Orderly(IncNRefs(m.heap, r), n.heap) /\ Fine(n.heap, More(D, r), H)
  BY <1>4 DEF Drops
<1>7. Fine(IncNRefs(m.heap, r), More(A, r), Pin(r)) => Fine(n.heap, More(D, r), Pin(r))
  BY <1>4
<1>8. /\ Fine(DecNRefs(n.heap, r), D, H) /\ Safe(m.heap, DecNRefs(n.heap, r), r)
      /\ Loose(DecNRefs(n.heap, r)) \subseteq Loose(n.heap) \cup {r}
  BY <1>0, <1>2, <1>6, <1>7, SafeAround, Zenon
<1>9. e \in Memories
  <2>1. DecNRefs(n.heap, r) \in Heaps
    BY <1>8, HoldsFields
  <2> QED BY <1>1, <1>5, <2>1 DEF Memories
<1>10. MemFine(e, B, H)
  BY <1>0, <1>5, <1>8, <1>9 DEF MemFine, D
<1> QED BY <1>4, <1>5, <1>8, <1>10 DEF st

\* A function ends, of any type only if it has a result: from the memory m to e.
IsEnding(m, C, B, H, r, f, e) ==
  /\ MemFine(m, C, H) /\ r \in Objects \cup {Nil} /\ r \notin H.temps
  /\ f.pos \in Nat /\ f.instances \in Seq(Objects)
  /\ B \in Bags /\ IsWith(C, B, f.instances) /\ Within(H, With(B, Objs(Cut(m.stack, f.pos))))
  /\ ~(r = Nil /\ f.op.gra = "Anything") /\ e = EndFunction(m, f, r)

LEMMA EndFunctionIsFine ==
  ASSUME NEW m, NEW C, NEW B, NEW H, NEW r, NEW f, NEW e, IsEnding(m, C, B, H, r, f, e)
  PROVE  /\ MemFine(e, B, H) /\ e.stack = Cut(m.stack, f.pos) /\ Safe(m.heap, e.heap, r)
         /\ Loose(e.heap) \subseteq Loose(m.heap) \cup {r}
<1> DEFINE n == DestroyUntil([m EXCEPT !.heap = IncNRefs(@, r)], f.pos, r)
           st == Cut(m.stack, f.pos)
           A == With(C, Objs(m.stack))
           D == With(C, Objs(st))
           F == With(B, Objs(st))
           g == DestroyList(n.heap, f.instances)
<1>a. /\ MemFine(m, C, H) /\ r \in Objects \cup {Nil} /\ r \notin H.temps
      /\ f.pos \in Nat /\ f.instances \in Seq(Objects)
      /\ B \in Bags /\ IsWith(C, B, f.instances) /\ Within(H, With(B, Objs(Cut(m.stack, f.pos))))
      /\ ~(r = Nil /\ f.op.gra = "Anything") /\ e = EndFunction(m, f, r)
  BY DEF IsEnding
<1>0. m.stack \in Stacks /\ C \in Bags /\ H \in Holds /\ Fine(m.heap, A, H)
  BY <1>a, MemFields
<1>1. st \in Stacks /\ Objs(st) \in Seq(Objects)
  BY <1>a, <1>0, CutIs
<1>2. /\ D \in Bags /\ F \in Bags /\ IsWith(D, F, f.instances) /\ Within(H, D) /\ Within(H, F)
  <2>1. /\ D \in Bags /\ F \in Bags
        /\ \A o \in Objects : D[o] = C[o] + Occurrences(o, Objs(st)) /\ F[o] = B[o] + Occurrences(o, Objs(st))
    BY <1>a, <1>0, <1>1, WithIsBag
  <2>2. Within(H, F)
    BY <1>a
  <2> HIDE DEF D, F, st
  <2>3. ASSUME NEW o \in Objects PROVE D[o] = F[o] + Occurrences(o, f.instances)
    <3>1. C[o] = B[o] + Occurrences(o, f.instances) /\ B[o] \in Nat /\ Occurrences(o, Objs(st)) \in Nat
          /\ Occurrences(o, f.instances) \in Nat
      BY <1>a, <1>1, PlacesFinite DEF IsWith, Bags
    <3> QED BY <1>a, <2>1, <3>1
  <2>4. IsWith(D, F, f.instances)
    BY <1>a, <2>1, <2>3 DEF IsWith
  <2> QED BY <1>a, <1>0, <2>1, <2>2, <2>4, WithinMore
<1>3. n = DestroyUntil([m EXCEPT !.heap = IncNRefs(@, r)], f.pos, r)
      /\ e = [n EXCEPT !.heap = DecNRefs(DestroyList(@, f.instances), r)]
  BY <1>a DEF EndFunction
<1> HIDE DEF n
<1>4. /\ n \in Memories /\ n.stack = st /\ Fine(n.heap, More(D, r), H)
      /\ Fine(IncNRefs(m.heap, r), More(A, r), Pin(r)) => Fine(n.heap, More(D, r), Pin(r))
      /\ Drops(IncNRefs(m.heap, r), n.heap, r) /\ Loose(n.heap) \subseteq Loose(m.heap) \cup {r}
  <2>1. Within(H, With(C, Objs(Cut(m.stack, f.pos))))
    BY <1>a, <1>2
  <2>2. IsUntil(m, n, C, H, r, f.pos)
    BY <1>a, <1>3, <2>1, UntilAround, Zenon
  <2> QED BY <1>a, <2>2 DEF IsUntil
<1>5. e = [heap |-> DecNRefs(g, r), stack |-> st] /\ e.heap = DecNRefs(g, r) /\ e.stack = st
  BY <1>a, <1>3, <1>4 DEF Memories
<1> HIDE DEF A, D, F, st
<1>6. IsWith(More(D, r), More(F, r), f.instances) /\ More(F, r) \in Bags
      /\ Within(H, More(F, r)) /\ Within(Pin(r), More(F, r))
  <2>1. More(D, r) \in Bags /\ More(F, r) \in Bags
    BY <1>a, <1>2, MoreIsBag
  <2>2. ASSUME NEW o \in Objects
        PROVE  /\ More(D, r)[o] = More(F, r)[o] + Occurrences(o, f.instances)
               /\ H.bag[o] <= More(F, r)[o] /\ Pin(r).bag[o] <= More(F, r)[o]
    <3>1. More(D, r)[o] = D[o] + Alone(o, r) /\ More(F, r)[o] = F[o] + Alone(o, r) /\ Alone(o, r) \in Nat
      BY DEF More, Alone
    <3>2. D[o] = F[o] + Occurrences(o, f.instances) /\ F[o] \in Nat /\ Occurrences(o, f.instances) \in Nat
      BY <1>a, <1>2, PlacesFinite DEF IsWith, Bags
    <3>3. H.bag[o] \in Nat /\ H.bag[o] <= F[o] /\ Pin(r).bag[o] = Alone(o, r)
      BY <1>a, <1>0, <1>2 DEF Within, Pin, Holds, Bags
    <3> QED BY <1>a, <3>1, <3>2, <3>3
  <2> QED BY <1>a, <2>1, <2>2 DEF IsWith, Within
<1>7. Fine(n.heap, More(D, r), H)
  BY <1>a, <1>4
<1>8. Fine(g, More(F, r), H) /\ Releases(n.heap, g)
  BY <1>a, <1>6, <1>7, DestroyListIsFine, Zenon
<1>9. Fine(IncNRefs(m.heap, r), More(A, r), Pin(r)) => Fine(g, More(F, r), Pin(r))
  <2> SUFFICES ASSUME Fine(IncNRefs(m.heap, r), More(A, r), Pin(r)) PROVE Fine(g, More(F, r), Pin(r))
    BY <1>a
  <2>1. Fine(n.heap, More(D, r), Pin(r))
    BY <1>a, <1>4
  <2> QED BY <1>a, <1>6, <2>1, DestroyListIsFine, Zenon
<1>10. Orderly(IncNRefs(m.heap, r), g)
  <2>1. Shrunk(IncNRefs(m.heap, r), g)
    BY <1>a, <1>4, <1>8, ShrunkAgain DEF Drops, Releases, Orderly
  <2> QED BY <1>a, <1>4, <1>8, <2>1 DEF Drops, Releases, Orderly
<1> HIDE DEF g
<1>11. /\ Fine(DecNRefs(g, r), F, H) /\ Safe(m.heap, DecNRefs(g, r), r)
       /\ Loose(DecNRefs(g, r)) \subseteq Loose(g) \cup {r}
  <2>1. F \in Bags /\ Within(H, F) /\ Fine(g, More(F, r), H)
    BY <1>a, <1>2, <1>8
  <2> QED BY <1>a, <1>0, <1>9, <1>10, <2>1, SafeAround, Zenon
<1>12. e \in Memories
  <2>1. DecNRefs(g, r) \in Heaps
    BY <1>a, <1>11, HoldsFields
  <2> QED BY <1>a, <1>1, <1>5, <2>1 DEF Memories
<1>13. MemFine(e, B, H)
  BY <1>a, <1>5, <1>11, <1>12 DEF MemFine, F
<1> QED BY <1>a, <1>4, <1>5, <1>8, <1>11, <1>13 DEF st, Releases

-----------------------------------------------------------------------------
\* The results of a block's statements

(* A loop whose states after n steps are of S[n]. *)
Stays(m, S, T) == \A n \in 1 .. m : \A s \in S[n - 1] : T[n][s] \in S[n]
IsStaged(f, m, S, T, x) ==
  /\ f = [n \in 0 .. m |-> IF n = 0 THEN x ELSE T[n][f[n - 1]]]
  /\ \A n \in 0 .. m : f[n] \in S[n]

LEMMA LoopOfStages ==
  ASSUME NEW m \in Nat, NEW S, NEW x \in S[0], NEW T, Stays(m, S, T)
  PROVE  \E f : IsStaged(f, m, S, T, x)
<1> USE DEF Stays
<1> DEFINE All == UNION {S[n] : n \in 0 .. m}
           P == {p \in (0 .. m) \X All : p[2] \in S[p[1]]}
           U == [n \in 1 .. m |-> [p \in P |-> IF p[1] = n - 1 THEN <<n, T[n][p[2]]>> ELSE p]]
<1>1. <<0, x>> \in P
  OBVIOUS
<1>2. \A n \in 1 .. m, p \in P : /\ U[n][p] = (IF p[1] = n - 1 THEN <<n, T[n][p[2]]>> ELSE p)
                                 /\ U[n][p] \in P
  <2> SUFFICES ASSUME NEW n \in 1 .. m, NEW p \in P
               PROVE  /\ U[n][p] = (IF p[1] = n - 1 THEN <<n, T[n][p[2]]>> ELSE p)
                      /\ U[n][p] \in P
    OBVIOUS
  <2>1. U[n][p] = (IF p[1] = n - 1 THEN <<n, T[n][p[2]]>> ELSE p)
    OBVIOUS
  <2>2. CASE p[1] = n - 1
    <3>1. n \in 0 .. m /\ p[2] \in S[n - 1]
      BY <2>2
    <3>2. T[n][p[2]] \in S[n] /\ T[n][p[2]] \in All
      BY <3>1
    <3>3. <<n, T[n][p[2]]>> \in P
      BY <3>1, <3>2
    <3> QED BY <2>1, <2>2, <3>3
  <2>3. CASE p[1] # n - 1
    BY <2>1, <2>3
  <2> QED BY <2>1, <2>2, <2>3
<1>3. \A p \in P : p[2] \in S[p[1]]
  OBVIOUS
<1> HIDE DEF P, U
<1>4. PICK g : IsLoop(g, m, P, U, <<0, x>>)
  BY <1>1, <1>2, LoopExists
<1>5. g \in [0 .. m -> P] /\ g[0] = <<0, x>> /\ \A n \in 1 .. m : g[n] = U[n][g[n - 1]]
  BY <1>4 DEF IsLoop
<1> DEFINE Good == {n \in 0 .. m : g[n][1] = n}
<1>6. \A n \in 0 .. m : n \in Good
  <2>1. 0 \in Good
    BY <1>5
  <2>2. ASSUME NEW n \in 0 .. m - 1, n \in Good PROVE n + 1 \in Good
    <3>1. n + 1 \in 1 .. m /\ n + 1 \in 0 .. m /\ n \in 0 .. m /\ (n + 1) - 1 = n
      OBVIOUS
    <3>2. g[n] \in P /\ g[n][1] = n /\ g[n + 1] = U[n + 1][g[n]]
      BY <1>5, <2>2, <3>1
    <3>3. U[n + 1][g[n]] = IF g[n][1] = (n + 1) - 1 THEN <<n + 1, T[n + 1][g[n][2]]>> ELSE g[n]
      BY <1>2, <3>1, <3>2, Zenon
    <3>4. g[n + 1] = <<n + 1, T[n + 1][g[n][2]]>>
      BY <3>1, <3>2, <3>3
    <3> QED BY <3>1, <3>4
  <2> HIDE DEF Good
  <2> QED BY <2>1, <2>2, CountUp
<1> DEFINE f == [n \in 0 .. m |-> g[n][2]]
<1>7. ASSUME NEW n \in 0 .. m PROVE f[n] \in S[n] /\ f[n] = IF n = 0 THEN x ELSE T[n][f[n - 1]]
  <2>1. g[n] \in P /\ g[n][1] = n /\ f[n] = g[n][2]
    BY <1>5, <1>6
  <2>2. f[n] \in S[n]
    BY <1>3, <2>1
  <2>3. CASE n = 0
    BY <1>5, <2>1, <2>2, <2>3
  <2>4. CASE n # 0
    <3>1. n \in 1 .. m /\ n - 1 \in 0 .. m
      BY <2>4
    <3>2. g[n - 1] \in P /\ g[n - 1][1] = n - 1 /\ g[n] = U[n][g[n - 1]] /\ f[n - 1] = g[n - 1][2]
      BY <1>5, <1>6, <3>1
    <3>3. g[n] = <<n, T[n][g[n - 1][2]]>>
      BY <1>2, <3>1, <3>2
    <3> QED BY <2>1, <2>2, <2>4, <3>2, <3>3
  <2> QED BY <2>3, <2>4
<1>8. f = [n \in 0 .. m |-> IF n = 0 THEN x ELSE T[n][f[n - 1]]]
  <2>1. f = [n \in 0 .. m |-> f[n]]
    OBVIOUS
  <2> HIDE DEF f
  <2> QED BY <1>7, <2>1
<1> HIDE DEF f
<1>9. IsStaged(f, m, S, T, x)
  BY <1>7, <1>8 DEF IsStaged
<1> QED BY <1>9

\* Where o is among the first k.
UpTo(o, s, k) == {i \in 1 .. k : s[i] = o}

LEMMA OccursUpTo ==
  ASSUME NEW S, NEW s \in Seq(S), NEW o
  PROVE  /\ Cardinality(UpTo(o, s, 0)) = 0
         /\ Cardinality(UpTo(o, s, Len(s))) = Occurrences(o, s)
         /\ \A k \in 0 .. Len(s) : Cardinality(UpTo(o, s, k)) \in Nat /\ Cardinality(UpTo(o, s, k)) <= Occurrences(o, s)
         /\ \A k \in 1 .. Len(s) : Cardinality(UpTo(o, s, k)) = Cardinality(UpTo(o, s, k - 1)) + Alone(o, s[k])
<1>1. Len(s) \in Nat /\ DOMAIN s = 1 .. Len(s)
  OBVIOUS
<1>2. Cardinality(UpTo(o, s, 0)) = 0
  <2>1. UpTo(o, s, 0) = {}
    BY DEF UpTo
  <2> QED BY <2>1, FS_EmptySet
<1>3. UpTo(o, s, Len(s)) = Places(o, s)
  BY <1>1 DEF UpTo, Places
<1>4. IsFiniteSet(Places(o, s)) /\ Occurrences(o, s) = Cardinality(Places(o, s)) /\ Occurrences(o, s) \in Nat
  BY PlacesFinite
<1>5. ASSUME NEW k \in 0 .. Len(s)
      PROVE  IsFiniteSet(UpTo(o, s, k)) /\ Cardinality(UpTo(o, s, k)) \in Nat
             /\ Cardinality(UpTo(o, s, k)) <= Occurrences(o, s)
  <2>1. UpTo(o, s, k) \subseteq Places(o, s)
    BY <1>1 DEF UpTo, Places
  <2>2. IsFiniteSet(UpTo(o, s, k)) /\ Cardinality(UpTo(o, s, k)) <= Cardinality(Places(o, s))
    BY <1>4, <2>1, FS_Subset
  <2> QED BY <1>4, <2>2, FS_CardinalityType
<1>6. ASSUME NEW k \in 1 .. Len(s)
      PROVE  Cardinality(UpTo(o, s, k)) = Cardinality(UpTo(o, s, k - 1)) + Alone(o, s[k])
  <2>1. k - 1 \in 0 .. Len(s) /\ \A i : i \in 1 .. k <=> i \in 1 .. k - 1 \/ i = k
    BY <1>1
  <2>2. IsFiniteSet(UpTo(o, s, k - 1)) /\ Cardinality(UpTo(o, s, k - 1)) \in Nat
    BY <1>5, <2>1
  <2>3. CASE s[k] = o
    <3>1. UpTo(o, s, k) = UpTo(o, s, k - 1) \cup {k}
      BY <2>1, <2>3 DEF UpTo
    <3>2. k \notin UpTo(o, s, k - 1)
      BY <1>1 DEF UpTo
    <3>3. Cardinality(UpTo(o, s, k - 1) \cup {k}) = Cardinality(UpTo(o, s, k - 1)) + 1
      BY <2>2, <3>2, FS_AddElement
    <3> QED BY <2>3, <3>1, <3>3 DEF Alone
  <2>4. CASE s[k] # o
    <3>1. UpTo(o, s, k) = UpTo(o, s, k - 1)
      BY <2>1, <2>4 DEF UpTo
    <3> QED BY <2>2, <2>4, <3>1 DEF Alone
  <2> QED BY <2>3, <2>4
<1> QED BY <1>2, <1>3, <1>4, <1>5, <1>6

\* What is left of a list when the first k are released.
Rest(B, s, k) == [o \in Objects |-> B[o] + (Occurrences(o, s) - Cardinality(UpTo(o, s, k)))]

LEMMA RestOfList ==
  ASSUME NEW B \in Bags, NEW s \in Seq(Objects), NEW H \in Holds, Within(H, B)
  PROVE  /\ Rest(B, s, 0) = With(B, s) /\ Rest(B, s, Len(s)) = B
         /\ \A k \in 0 .. Len(s) : Rest(B, s, k) \in Bags /\ Within(H, Rest(B, s, k))
         /\ \A k \in 1 .. Len(s) : IsMore(Rest(B, s, k - 1), Rest(B, s, k), s[k])
<1>0. Len(s) \in Nat
  OBVIOUS
<1>1. \A o \in Objects :
        /\ B[o] \in Nat /\ Occurrences(o, s) \in Nat /\ H.bag[o] \in Nat /\ H.bag[o] <= B[o]
        /\ Cardinality(UpTo(o, s, 0)) = 0
        /\ Cardinality(UpTo(o, s, Len(s))) = Occurrences(o, s)
  BY PlacesFinite, OccursUpTo DEF Bags, Holds, Within
<1>2. ASSUME NEW k \in 0 .. Len(s), NEW o \in Objects
      PROVE  Rest(B, s, k)[o] \in Nat /\ H.bag[o] <= Rest(B, s, k)[o]
  <2>1. Cardinality(UpTo(o, s, k)) \in Nat /\ Cardinality(UpTo(o, s, k)) <= Occurrences(o, s)
    BY OccursUpTo
  <2> QED BY <1>1, <2>1 DEF Rest
<1>3. \A k \in 0 .. Len(s) : Rest(B, s, k) \in Bags /\ Within(H, Rest(B, s, k))
  BY <1>2 DEF Rest, Bags, Within
<1>4. Rest(B, s, 0) = With(B, s) /\ Rest(B, s, Len(s)) = B
  BY <1>1 DEF Rest, With, Bags
<1>5. ASSUME NEW k \in 1 .. Len(s) PROVE IsMore(Rest(B, s, k - 1), Rest(B, s, k), s[k])
  <2>1. k \in 0 .. Len(s) /\ k - 1 \in 0 .. Len(s)
    BY <1>0
  <2>2. ASSUME NEW o \in Objects PROVE Rest(B, s, k - 1)[o] = Rest(B, s, k)[o] + Alone(o, s[k])
    <3>1. Cardinality(UpTo(o, s, k)) = Cardinality(UpTo(o, s, k - 1)) + Alone(o, s[k])
      BY OccursUpTo
    <3>2. Cardinality(UpTo(o, s, k - 1)) \in Nat /\ Alone(o, s[k]) \in Nat /\ B[o] \in Nat /\ Occurrences(o, s) \in Nat
      BY <1>1, <2>1, OccursUpTo DEF Alone
    <3>3. Rest(B, s, k - 1)[o] = B[o] + (Occurrences(o, s) - Cardinality(UpTo(o, s, k - 1)))
          /\ Rest(B, s, k)[o] = B[o] + (Occurrences(o, s) - Cardinality(UpTo(o, s, k)))
      BY DEF Rest
    <3> QED BY <3>1, <3>2, <3>3
  <2> QED BY <1>3, <2>1, <2>2 DEF IsMore
<1> QED BY <1>3, <1>4, <1>5

LEMMA UnpinNextIsFine ==
  ASSUME NEW h, NEW C, NEW H, Fine(h, C, H), NEW o \in Objects, NEW r,
         NEW B \in Bags, IsMore(C, B, o), Within(H, B)
  PROVE  Fine(UnpinNext(h, o, r), B, H) /\ Drops(h, UnpinNext(h, o, r), r)
<1> DEFINE d == DecNRefs(h, o)
<1>0. o \in Objects \cup {Nil}
  OBVIOUS
<1>1. /\ Fine(d, B, H) /\ Shrunk(h, d) /\ o \notin H.temps
      /\ Tidy(h) => Tidy(d)
      /\ Loose(d) \subseteq Loose(h) \cup {o}
  BY <1>0, DecIsFine, Zenon
<1> HIDE DEF d
<1>2. CASE o = r
  <2>1. UnpinNext(h, o, r) = d
    BY <1>2 DEF UnpinNext, d
  <2> QED BY <1>1, <1>2, <2>1 DEF Drops, Orderly
<1>3. CASE o # r
  <2>1. UnpinNext(h, o, r) = Destroy(d, o)
    BY <1>3 DEF UnpinNext, d
  <2>2. Fine(d, B, H) /\ o \notin H.temps
    BY <1>1
  <2>3. Fine(Destroy(d, o), B, H) /\ Releases(d, Destroy(d, o)) /\ Loose(Destroy(d, o)) \subseteq Loose(d) \ {o}
    BY <1>0, <2>2, DestroyIsFine, Zenon
  <2>4. Shrunk(h, Destroy(d, o))
    BY <1>1, <2>3, ShrunkAgain DEF Releases, Orderly
  <2> QED BY <1>1, <2>1, <2>3, <2>4 DEF Drops, Orderly, Releases
<1> QED BY <1>2, <1>3

LEMMA UnpinnedIsFine ==
  ASSUME NEW h, NEW C, NEW H, Fine(h, C, H), NEW items \in Seq(Objects), NEW r,
         NEW B \in Bags, IsWith(C, B, items), Within(H, B)
  PROVE  Fine(Unpinned(h, items, r), B, H) /\ Drops(h, Unpinned(h, items, r), r)
<1> DEFINE m == Len(items)
           Good(n) == {g \in Heaps : Fine(g, Rest(B, items, n), H) /\ Drops(h, g, r)}
           S == [n \in 0 .. m |-> Good(n)]
           T == [n \in 1 .. m |-> [g \in Heaps |-> UnpinNext(g, items[n], r)]]
           Unfolds(f) == f = [n \in 0 .. m |-> IF n = 0 THEN h ELSE UnpinNext(f[n - 1], items[n], r)]
           after == CHOOSE f : Unfolds(f)
<1>0. h \in Heaps /\ C \in Bags /\ H \in Holds /\ m \in Nat
  BY HoldsFields DEF Fine
<1>1. /\ Rest(B, items, 0) = With(B, items) /\ Rest(B, items, m) = B
      /\ \A k \in 0 .. m : Rest(B, items, k) \in Bags /\ Within(H, Rest(B, items, k))
      /\ \A k \in 1 .. m : IsMore(Rest(B, items, k - 1), Rest(B, items, k), items[k])
  BY <1>0, RestOfList
<1>2. h \in Good(0)
  <2>1. With(B, items) = C
    BY <1>0, WithIsBag DEF IsWith, Bags
  <2> QED BY <1>0, <1>1, <2>1, DropsItself
<1>3. ASSUME NEW n \in 1 .. m, NEW g \in Good(n - 1) PROVE UnpinNext(g, items[n], r) \in Good(n)
  <2>1. n \in 0 .. m /\ items[n] \in Objects
    BY <1>0
  <2>2. /\ Fine(g, Rest(B, items, n - 1), H) /\ Drops(h, g, r) /\ Rest(B, items, n) \in Bags
        /\ IsMore(Rest(B, items, n - 1), Rest(B, items, n), items[n]) /\ Within(H, Rest(B, items, n))
    BY <1>1, <2>1
  <2>3. Fine(UnpinNext(g, items[n], r), Rest(B, items, n), H) /\ Drops(g, UnpinNext(g, items[n], r), r)
    BY <2>1, <2>2, UnpinNextIsFine
  <2>4. Drops(h, UnpinNext(g, items[n], r), r)
    BY <2>2, <2>3, DropsAgain
  <2>5. UnpinNext(g, items[n], r) \in Heaps
    BY <2>3, HoldsFields
  <2> QED BY <2>3, <2>4, <2>5
<1>4. /\ S[0] = Good(0) /\ \A n \in 1 .. m : S[n - 1] = Good(n - 1) /\ S[n] = Good(n)
      /\ \A n \in 0 .. m : S[n] \subseteq Heaps /\ S[n] = Good(n)
  BY <1>0
<1>5. \A n \in 1 .. m, g \in Heaps : T[n][g] = UnpinNext(g, items[n], r)
  OBVIOUS
<1> HIDE DEF S, T, Good, m
<1>6. h \in S[0] /\ Stays(m, S, T)
  <2>1. h \in S[0]
    BY <1>2, <1>4
  <2>2. ASSUME NEW n \in 1 .. m, NEW g \in S[n - 1] PROVE T[n][g] \in S[n]
    <3>1. g \in Good(n - 1) /\ g \in Heaps
      BY <1>4 DEF Good
    <3> QED BY <1>3, <1>4, <1>5, <3>1
  <2> QED BY <2>1, <2>2 DEF Stays
<1>7. PICK f : IsStaged(f, m, S, T, h)
  BY <1>0, <1>6, LoopOfStages
<1>8. Unfolds(f)
  <2>0. /\ f = [n \in 0 .. m |-> IF n = 0 THEN h ELSE T[n][f[n - 1]]]
        /\ \A n \in 0 .. m : f[n] \in S[n]
    BY <1>7 DEF IsStaged
  <2>1. ASSUME NEW n \in 0 .. m PROVE f[n] = IF n = 0 THEN h ELSE UnpinNext(f[n - 1], items[n], r)
    <3>1. CASE n = 0
      BY <2>0, <3>1
    <3>2. CASE n # 0
      <4>1. n \in 1 .. m /\ n - 1 \in 0 .. m
        BY <1>0, <3>2
      <4>2. f[n - 1] \in Heaps /\ f[n] = T[n][f[n - 1]]
        BY <1>4, <2>0, <3>2, <4>1
      <4> QED BY <1>5, <3>2, <4>1, <4>2
    <3> QED BY <3>1, <3>2
  <2>2. f = [n \in 0 .. m |-> f[n]]
    BY <2>0
  <2> QED BY <2>1, <2>2
<1>9. Unfolds(after)
  BY <1>8
<1> HIDE DEF after
<1>10. after[0] = h /\ \A n \in 1 .. m : after[n] = UnpinNext(after[n - 1], items[n], r)
  BY <1>0, <1>9
<1> HIDE DEF Unfolds
<1> DEFINE Fit == {n \in 0 .. m : after[n] \in Good(n)}
<1>11. \A n \in 0 .. m : n \in Fit
  <2>1. 0 \in Fit
    BY <1>0, <1>2, <1>10
  <2>2. ASSUME NEW n \in 0 .. m - 1, n \in Fit PROVE n + 1 \in Fit
    <3>1. n + 1 \in 1 .. m /\ n + 1 \in 0 .. m /\ (n + 1) - 1 = n
      BY <1>0
    <3>2. after[n] \in Good((n + 1) - 1) /\ after[n + 1] = UnpinNext(after[n], items[n + 1], r)
      BY <1>10, <2>2, <3>1
    <3> QED BY <1>3, <3>1, <3>2
  <2> HIDE DEF Fit
  <2> QED BY <1>0, <2>1, <2>2, CountUp
<1>12. after[m] \in Good(m)
  BY <1>0, <1>11
<1>13. Unpinned(h, items, r) = after[m]
  BY DEF Unpinned, after, Unfolds, m
<1> QED BY <1>1, <1>12, <1>13 DEF Good

LEMMA AddItemIs ==
  ASSUME NEW items \in Seq(Objects), NEW o \in Objects \cup {Nil}
  PROVE  /\ AddItem(items, o) \in Seq(Objects)
         /\ Contains(items, o) <=> \E i \in DOMAIN items : items[i] = o
         /\ Contains(items, o) => o # Nil
         /\ Contains(items, o) => Occurrences(o, items) > 0
<1>1. DOMAIN items = 1 .. Len(items) /\ Len(items) \in Nat /\ \A i \in 1 .. Len(items) : items[i] \in Objects
  OBVIOUS
<1>2. Contains(items, o) <=> \E i \in DOMAIN items : items[i] = o
  BY <1>1 DEF Contains
<1>3. Contains(items, o) => o # Nil
  BY <1>1, <1>2, ObjectsFinite
<1>4. AddItem(items, o) \in Seq(Objects)
  BY DEF AddItem
<1> QED BY <1>2, <1>3, <1>4, OccursInRange

(* A result is pinned once. *)
LEMMA PinnedIsFine ==
  ASSUME NEW h, NEW B, NEW H, NEW items \in Seq(Objects), Fine(h, With(B, items), H), B \in Bags,
         NEW o \in Objects \cup {Nil}, o \notin H.temps
  PROVE  /\ Fine(Pinned(h, items, o), With(B, AddItem(items, o)), H)
         /\ Shrunk(h, Pinned(h, items, o))
         /\ Tidy(h) /\ Alive(h, o) => Tidy(Pinned(h, items, o))
         /\ Loose(Pinned(h, items, o)) \subseteq Loose(h) \ {o}
         /\ Alive(h, o) => Alive(Pinned(h, items, o), o)
<1>0. h \in Heaps /\ With(B, items) \in Bags
  BY HoldsFields
<1>1. CASE Contains(items, o)
  <2>1. o \in Objects /\ Occurrences(o, items) > 0 /\ AddItem(items, o) = items /\ Pinned(h, items, o) = h
    BY <1>1, AddItemIs DEF AddItem, Pinned
  <2>2. o \notin Loose(h)
    <3>1. With(B, items)[o] > 0
      <4>1. With(B, items)[o] = B[o] + Occurrences(o, items) /\ B[o] \in Nat /\ Occurrences(o, items) \in Nat
        BY <2>1, WithIsBag, PlacesFinite DEF Bags
      <4> QED BY <2>1, <4>1
    <3>2. h[o].nRefs > 0
      BY <2>1, <3>1, HoldsFields
    <3> QED BY <3>2 DEF Loose
  <2> QED BY <2>1, <2>2 DEF Shrunk, SameBut
<1>2. CASE ~Contains(items, o)
  <2>1. Pinned(h, items, o) = IncNRefs(h, o)
    BY <1>2 DEF Pinned
  <2>2. IsMore(With(B, AddItem(items, o)), With(B, items), o)
    <3>1. AddItem(items, o) \in Seq(Objects) /\ o \in Objects \cup {Nil}
      BY AddItemIs
    <3>2. /\ With(B, AddItem(items, o)) \in Bags
          /\ \A p \in Objects : With(B, AddItem(items, o))[p] = B[p] + Occurrences(p, AddItem(items, o))
      BY <3>1, WithIsBag
    <3>3. ASSUME NEW p \in Objects PROVE With(B, AddItem(items, o))[p] = With(B, items)[p] + Alone(p, o)
      <4>1. With(B, items)[p] = B[p] + Occurrences(p, items) /\ B[p] \in Nat /\ Occurrences(p, items) \in Nat
            /\ Alone(p, o) \in Nat
        BY WithIsBag, PlacesFinite DEF Bags, Alone
      <4>2. Occurrences(p, AddItem(items, o)) = Occurrences(p, items) + Alone(p, o)
        <5>1. CASE o = Nil
          <6>1. AddItem(items, o) = items /\ Alone(p, o) = 0
            BY <5>1, ObjectsFinite DEF AddItem, Alone
          <6> QED BY <4>1, <6>1
        <5>2. CASE o # Nil
          <6>1. AddItem(items, o) = Append(items, o) /\ o \in Objects
            BY <1>2, <5>2 DEF AddItem
          <6>2. Occurrences(p, Append(items, o)) = Occurrences(p, items) + Alone(p, o)
            BY <6>1, OccursAppend
          <6> QED BY <6>1, <6>2
        <5> QED BY <5>1, <5>2
      <4> QED BY <3>2, <4>1, <4>2
    <3> QED BY <3>2, <3>3 DEF IsMore
  <2>3. /\ Fine(IncNRefs(h, o), With(B, AddItem(items, o)), H) /\ Shrunk(h, IncNRefs(h, o))
        /\ Tidy(h) /\ (o # Nil => IsMade(h, o)) => Tidy(IncNRefs(h, o))
        /\ Loose(IncNRefs(h, o)) \subseteq Loose(h) \ {o}
    BY <2>2, IncIsFine, Zenon
  <2>4. Alive(h, o) => Alive(IncNRefs(h, o), o)
    BY <1>0 DEF Alive, IncNRefs, IsMade, IsType, SameBut, Heaps, Records
  <2> QED BY <2>1, <2>3, <2>4 DEF Alive
<1> QED BY <1>1, <1>2

-----------------------------------------------------------------------------
\* Variables and arguments are made

\* o is made; the others change their counts only, or are destroyed.
Grows(h, g, o) ==
  /\ o \in Objects /\ h[o] = Free
  /\ \A p \in Objects : p # o => SameBut(Free, g[p]) \/ SameBut(h[p], g[p])
OnlyTo(r, s) == \A i \in DOMAIN s : s[i] = r
\* o has the level, and refers to r at most.
IsHome(g, o, lvl, r) ==
  IsMade(g, o) /\ g[o].level = lvl /\ OnlyTo(r, g[o].refs)

\* A hold on an object that nothing refers to.
Temp(o) == [bag |-> [p \in Objects |-> 0], kept |-> {o}, temps |-> {o}]

LEMMA TempIsFine ==
  ASSUME NEW h, NEW B, NEW H, Fine(h, B, H), NEW o \in Objects, IsMade(h, o), h[o].nRefs = 0
  PROVE  Fine(h, B, Temp(o)) /\ Temp(o) \in Holds
<1>1. /\ Temp(o).bag = [p \in Objects |-> 0] /\ Temp(o).kept = {o} /\ Temp(o).temps = {o}
      /\ Temp(o) \in Holds
  BY DEF Temp, Holds, Bags
<1>2. Within(Temp(o), B)
  BY <1>1, HoldsFields DEF Within
<1>3. Supported(h, Temp(o))
  BY <1>1 DEF Supported
<1>4. (\A p \in Temp(o).kept : IsMade(h, p)) /\ \A p \in Temp(o).temps : h[p].nRefs = 0
  BY <1>1
<1> QED BY <1>1, <1>2, <1>3, <1>4 DEF Fine

\* A new object survives what is done then.
LEMMA NewSurvives ==
  ASSUME NEW h, NEW f, NEW g, NEW o, NEW rec, IsNew(h, f, o, rec), IsType(rec.kind, rec.alias),
         NEW r, OnlyTo(r, rec.refs),
         Shrunk(f, g)
  PROVE  /\ Grows(h, g, o) /\ (IsMade(g, o) => IsHome(g, o, rec.level, r))
<1>1. Grows(h, g, o)
  BY DEF Grows, Shrunk, IsNew, SameBut
<1>2. ASSUME IsMade(g, o) PROVE SameBut(rec, g[o])
  BY <1>2, FreeIsRecord DEF IsMade, IsType, Shrunk, IsNew, SameBut
<1>3. ASSUME IsMade(g, o) PROVE IsHome(g, o, rec.level, r)
  BY <1>2, <1>3 DEF IsHome, SameBut
<1> QED BY <1>1, <1>3

(* Still nothing refers to a new object. *)
LEMMA NewIsLoose ==
  ASSUME NEW h, NEW g, NEW A, NEW H, Fine(h, A, H), NEW K, Fine(g, A, K),
         NEW o, Grows(h, g, o), ~Refers(g, o, o)
  PROVE  g[o].nRefs = 0
<1>1. o \in Objects /\ h[o].nRefs = 0
  BY FreeIsRecord DEF Grows
<1>2. A[o] \in Nat /\ ~(A[o] > 0) /\ \A p \in Objects : ~Refers(h, p, o)
  <2>1. /\ h[o].nRefs > 0 <=> A[o] > 0 \/ \E p \in Objects : Refers(h, p, o)
        /\ A[o] \in Nat
    BY <1>1, HoldsFields
  <2> QED BY <1>1, <2>1
<1>3. \A p \in Objects : ~Refers(g, p, o)
  <2> SUFFICES ASSUME NEW p \in Objects, p # o PROVE ~Refers(g, p, o)
    OBVIOUS
  <2>1. SameBut(Free, g[p]) \/ SameBut(h[p], g[p])
    BY DEF Grows
  <2> QED BY <1>2, <2>1, FreeIsRecord DEF SameBut, Refers
<1>4. /\ g[o].nRefs > 0 <=> A[o] > 0 \/ \E p \in Objects : Refers(g, p, o)
      /\ g[o].nRefs \in Nat
  BY <1>1, HoldsFields
<1> QED BY <1>2, <1>3, <1>4

IsRenamed(m, n, o, r, name, lvl) ==
  /\ n.stack = Pushed(m.stack, o, name)
  /\ Grows(m.heap, n.heap, o)
  /\ name # NoName \/ IsMade(m.heap, r) => IsHome(n.heap, o, lvl, r)
  /\ name # NoName => o \notin Loose(n.heap)
  /\ Loose(n.heap) \subseteq (Loose(m.heap) \ {r}) \cup {o}
  /\ Tidy(m.heap) /\ IsMade(m.heap, r) => Tidy(n.heap)

\* Nothing is destroyed, nor made of nothing but o.
Adds(h, g, o, r) ==
  /\ Live(g) \subseteq Live(h) \cup {o, r}
  /\ \A p \in Objects : p # o => SameBut(h[p], g[p])

\* A variable or argument that refers to the object.
IsReferrer(m, n, o, kind, alias, name, lvl, r, foundBy) ==
  o = NextObject(m.heap) /\ n = New(m, kind, alias, name, lvl, <<r>>, foundBy)

LEMMA ReferrerIsFine ==
  ASSUME NEW m, NEW B, NEW H, MemFine(m, B, H), Room(m.heap, 1), NEW r \in Objects, r \notin H.temps,
         NEW kind \in Kinds \cup {"None"}, NEW alias \in BOOLEAN, IsType(kind, alias),
         NEW name \in Names \cup {NoName}, NEW lvl \in Int, NEW foundBy \in Names \cup {NoName},
         NEW o, NEW n, IsReferrer(m, n, o, kind, alias, name, lvl, r, foundBy)
  PROVE  /\ MemFine(n, B, H) /\ IsRenamed(m, n, o, r, foundBy, lvl) /\ o \notin H.temps /\ o \notin H.kept
         /\ Adds(m.heap, n.heap, o, r)
<1> DEFINE refs == <<r>>
           rec == Made(kind, alias, name, lvl, refs)
<1>1. refs \in Seq(Objects) /\ NoneOf(H.temps, refs) /\ OnlyTo(r, refs) /\ \E i \in DOMAIN refs : refs[i] = r
  BY DEF NoneOf, OnlyTo
<1>2. o = NextObject(m.heap) /\ n = New(m, kind, alias, name, lvl, refs, foundBy)
  BY DEF refs, IsReferrer
<1> HIDE DEF refs
<1>3. /\ MemFine(n, B, H) /\ IsNew(m.heap, n.heap, o, rec) /\ n.stack = Pushed(m.stack, o, foundBy)
      /\ o \notin H.temps /\ o \notin H.kept
      /\ foundBy # NoName => o \notin Loose(n.heap)
  <2>1. refs \in Seq(Objects)
    BY <1>1
  <2>2. NoneOf(H.temps, refs)
    BY <1>1
  <2>3. IsPlaced(m, n, B, H, o, Made(kind, alias, name, lvl, refs), foundBy)
    BY <1>2, <2>1, <2>2, NewIsFine, Zenon
  <2> QED BY <2>3 DEF IsPlaced
<1>4. IsNew(m.heap, n.heap, o, rec)
  BY <1>3
<1>5. rec.refs = refs /\ rec.level = lvl /\ IsType(rec.kind, rec.alias)
  <2>1. /\ rec.refs = refs /\ rec.level = lvl /\ rec.kind = kind /\ rec.alias = alias
        /\ Free.kind = "None" /\ Free.alias = FALSE
    BY DEF Made, Free
  <2> HIDE DEF rec
  <2> QED BY <2>1 DEF SameBut, IsType
<1> HIDE DEF rec
<1>6. Shrunk(n.heap, n.heap)
  BY DEF Shrunk, SameBut
<1>7. OnlyTo(r, rec.refs) /\ IsMade(n.heap, o)
  BY <1>1, <1>4, <1>5 DEF IsNew, IsMade, IsType, SameBut
<1>8. Grows(m.heap, n.heap, o) /\ IsHome(n.heap, o, lvl, r)
  <2>1. IsType(rec.kind, rec.alias)
    BY <1>5
  <2>2. OnlyTo(r, rec.refs)
    BY <1>7
  <2>3. Grows(m.heap, n.heap, o) /\ (IsMade(n.heap, o) => IsHome(n.heap, o, rec.level, r))
    BY <1>4, <1>6, <2>1, <2>2, NewSurvives, Zenon
  <2> QED BY <1>5, <1>7, <2>3
<1>9. Loose(n.heap) \subseteq (Loose(m.heap) \ {r}) \cup {o}
  BY <1>1, <1>4, <1>5 DEF IsNew
<1>10. Tidy(m.heap) /\ IsMade(m.heap, r) => Tidy(n.heap)
  BY <1>1, <1>4, <1>5 DEF IsNew, OnlyTo
<1>11. n.stack = Pushed(m.stack, o, foundBy)
  BY <1>3
<1>12. IsRenamed(m, n, o, r, foundBy, lvl)
  BY <1>3, <1>8, <1>9, <1>10, <1>11 DEF IsRenamed
<1>13. Adds(m.heap, n.heap, o, r)
  <2>1. Range(rec.refs) = {r}
    BY <1>5 DEF refs, Range
  <2> QED BY <1>4, <2>1 DEF IsNew, Adds
<1> QED BY <1>3, <1>12, <1>13

\* An object on the stack is referred to.
LEMMA OnTopIsCounted ==
  ASSUME NEW st \in Stacks, NEW o \in Objects, NEW name \in Names \cup {NoName}, NEW B \in Bags,
         NEW C, C = With(B, Objs(Append(st, [obj |-> o, name |-> name])))
  PROVE  C[o] > 0 /\ \E A \in Bags : IsMore(C, A, o)
<1> DEFINE top == [obj |-> o, name |-> name]
           new == Append(st, top)
<1>1. top \in Entries /\ new \in Stacks /\ Len(new) = Len(st) + 1 /\ Len(st) \in Nat /\ new[Len(new)] = top /\ top.obj = o
  BY DEF Entries, Stacks
<1> HIDE DEF top, new
<1>2. Objs(new) \in Seq(Objects) /\ Len(new) \in DOMAIN Objs(new) /\ Objs(new)[Len(new)] = o
  <2>1. Len(new) \in 1 .. Len(new)
    BY <1>1
  <2> QED BY <1>1, <2>1, StackObjects
<1>3. Occurrences(o, Objs(new)) > 0 /\ Occurrences(o, Objs(new)) \in Nat
  BY <1>2, OccursInRange, PlacesFinite
<1>4. C \in Bags /\ C[o] = B[o] + Occurrences(o, Objs(new)) /\ B[o] \in Nat
  BY <1>2, WithIsBag DEF new, top, Bags
<1>5. C[o] > 0 /\ C[o] \in Nat
  BY <1>3, <1>4
<1> DEFINE A == [C EXCEPT ![o] = C[o] - 1]
<1>6. A \in Bags /\ IsMore(C, A, o)
  BY <1>4, <1>5 DEF IsMore, Bags, Alone
<1> QED BY <1>5, <1>6

\* A copy is made of an object, which is destroyed if nothing refers to it.
IsCopy(m, n, o, nm, lvl, r, foundBy) ==
  /\ o = NextObject(m.heap)
  /\ n = [New(m, "Real", FALSE, nm, lvl, <<>>, foundBy) EXCEPT !.heap = Destroy(@, r)]

LEMMA CopyIsFine ==
  ASSUME NEW m, NEW B, NEW H, MemFine(m, B, H), Room(m.heap, 1), NEW r \in Objects, r \notin H.temps,
         NEW nm \in Names \cup {NoName}, NEW lvl \in Int, NEW name \in Names \cup {NoName},
         NEW o, NEW n, IsCopy(m, n, o, nm, lvl, r, name)
  PROVE  MemFine(n, B, H) /\ IsRenamed(m, n, o, r, name, lvl) /\ o \notin H.temps /\ o \notin H.kept
<1> DEFINE k == New(m, "Real", FALSE, nm, lvl, <<>>, name)
           rec == Made("Real", FALSE, nm, lvl, <<>>)
           g == Destroy(k.heap, r)
           A == With(B, Objs(k.stack))
<1>1. n = [k EXCEPT !.heap = g]
  BY DEF IsCopy
<1>2. IsPlaced(m, k, B, H, o, Made("Real", FALSE, nm, lvl, <<>>), name)
  <2>1. "Real" \in Kinds \cup {"None"}
    BY DEF Kinds
  <2>2. IsType("Real", FALSE)
    BY DEF IsType
  <2>3. <<>> \in Seq(Objects) /\ FALSE \in BOOLEAN
    OBVIOUS
  <2>4. NoneOf(H.temps, <<>>)
    BY DEF NoneOf
  <2>5. k = New(m, "Real", FALSE, nm, lvl, <<>>, name)
    OBVIOUS
  <2>6. o = NextObject(m.heap)
    BY DEF IsCopy
  <2> HIDE DEF k
  <2> QED BY <2>1, <2>2, <2>3, <2>4, <2>5, <2>6, NewIsFine, Zenon
<1>3. /\ MemFine(k, B, H) /\ IsNew(m.heap, k.heap, o, rec) /\ k.stack = Pushed(m.stack, o, name)
      /\ o \notin H.temps /\ o \notin H.kept
      /\ name # NoName => o \notin Loose(k.heap)
  BY <1>2 DEF IsPlaced
<1>4. rec.refs = <<>> /\ rec.level = lvl /\ IsType(rec.kind, rec.alias)
  <2>1. /\ rec.refs = <<>> /\ rec.level = lvl /\ rec.kind = "Real" /\ Free.kind = "None"
    BY DEF Made, Free
  <2> HIDE DEF rec
  <2> QED BY <2>1 DEF IsType
<1> HIDE DEF k, rec, g
<1>5. OnlyTo(r, rec.refs)
  BY <1>4 DEF OnlyTo
<1>6. k.heap \in Heaps /\ k.stack \in Stacks /\ k = [heap |-> k.heap, stack |-> k.stack] /\ B \in Bags
      /\ Fine(k.heap, A, H)
  BY <1>3, MemFields
<1>7. n = [heap |-> g, stack |-> k.stack] /\ n.heap = g /\ n.stack = k.stack
  BY <1>1, <1>6
<1> HIDE DEF A
<1>8. Fine(g, A, H) /\ Releases(k.heap, g) /\ Loose(g) \subseteq Loose(k.heap) \ {r}
  <2>1. r \in Objects \cup {Nil}
    OBVIOUS
  <2> QED BY <1>6, <2>1, DestroyIsFine, Zenon DEF g
<1>9. MemFine(n, B, H)
  <2>1. g \in Heaps
    BY <1>8, HoldsFields
  <2> QED BY <1>6, <1>7, <1>8, <2>1 DEF MemFine, Memories, A
<1>10. Shrunk(k.heap, g)
  BY <1>8 DEF Releases, Orderly
<1>11. Grows(m.heap, g, o) /\ (IsMade(g, o) => IsHome(g, o, rec.level, r))
  <2>1. IsType(rec.kind, rec.alias)
    BY <1>4
  <2> QED BY <1>3, <1>5, <1>10, <2>1, NewSurvives, Zenon
<1>12. o \in Objects /\ m.heap[o] = Free /\ IsMade(k.heap, o) /\ k.heap[o].refs = <<>>
  BY <1>3, <1>4 DEF IsNew, IsMade, IsType, SameBut
<1>13. ASSUME NEW K, Fine(k.heap, A, K), o \in K.kept, r \notin K.temps PROVE IsHome(g, o, lvl, r)
  <2>1. r \in Objects \cup {Nil}
    OBVIOUS
  <2>2. Fine(g, A, K)
    BY <1>13, <2>1, DestroyIsFine, Zenon DEF g
  <2> QED BY <1>4, <1>11, <1>13, <2>2 DEF Fine
<1>14. ASSUME name # NoName PROVE IsHome(g, o, lvl, r) /\ o \notin Loose(g)
  <2>1. m.stack \in Stacks /\ A = With(B, Objs(Append(m.stack, [obj |-> o, name |-> name])))
    BY <1>3, <1>14, MemFields DEF A, Pushed
  <2>2. A[o] > 0 /\ \E C \in Bags : IsMore(A, C, o)
    BY <1>6, <1>12, <2>1, OnTopIsCounted
  <2>3. PICK C \in Bags : IsMore(A, C, o)
    BY <2>2
  <2>4. o \in Objects \cup {Nil} /\ (o # Nil => IsMade(k.heap, o))
    BY <1>12
  <2>5. Fine(k.heap, A, Pin(o))
    BY <1>6, <2>3, <2>4, PinIsFine
  <2>6. o \in Pin(o).kept /\ r \notin Pin(o).temps
    BY <1>12, ObjectsFinite DEF Pin
  <2>7. IsHome(g, o, lvl, r)
    BY <1>13, <2>5, <2>6
  <2>8. g[o].nRefs > 0
    BY <1>8, <1>12, <2>2, HoldsFields
  <2> QED BY <2>7, <2>8 DEF Loose
<1>15. ASSUME name = NoName, IsMade(m.heap, r) PROVE IsHome(g, o, lvl, r)
  <2>1. r # o
    BY <1>12, <1>15, FreeIsRecord DEF IsMade, IsType
  <2>2. Grows(m.heap, k.heap, o) /\ ~Refers(k.heap, o, o)
    BY <1>3, <1>12 DEF Grows, IsNew, Refers
  <2>3. Fine(m.heap, A, H)
    BY <1>3, <1>15, MemFields DEF A, Pushed
  <2>4. k.heap[o].nRefs = 0
    BY <1>6, <2>2, <2>3, NewIsLoose
  <2>5. Fine(k.heap, A, Temp(o)) /\ o \in Temp(o).kept /\ r \notin Temp(o).temps
    <3>1. Fine(k.heap, A, Temp(o))
      BY <1>6, <1>12, <2>4, TempIsFine
    <3> QED BY <2>1, <3>1 DEF Temp
  <2> QED BY <1>13, <2>5
<1>16. Loose(g) \subseteq (Loose(m.heap) \ {r}) \cup {o}
  BY <1>3, <1>8 DEF IsNew
<1>17. Tidy(m.heap) => Tidy(g)
  BY <1>3, <1>4, <1>8 DEF IsNew, Releases, Orderly
<1>18. n.stack = Pushed(m.stack, o, name)
  BY <1>3, <1>7
<1>19. IsRenamed(m, n, o, r, name, lvl)
  <2>1. name # NoName \/ IsMade(m.heap, r) => IsHome(n.heap, o, lvl, r)
    BY <1>7, <1>14, <1>15
  <2>2. name # NoName => o \notin Loose(n.heap)
    BY <1>7, <1>14
  <2> QED BY <1>7, <1>11, <1>16, <1>17, <1>18, <2>1, <2>2 DEF IsRenamed
<1> QED BY <1>3, <1>9, <1>19

LEMMA NewRenamedIsFine ==
  ASSUME NEW m, NEW B, NEW H, MemFine(m, B, H), Room(m.heap, 1), NEW r \in Objects, r \notin H.temps,
         NEW name \in Names \cup {NoName}, level \in Int,
         NEW o, o = NextObject(m.heap),
         NEW n, n = NewRenamed(m, name, r)
  PROVE  MemFine(n, B, H) /\ IsRenamed(m, n, o, r, name, level) /\ o \notin H.temps /\ o \notin H.kept
<1>1. CASE m.heap[r].kind = "Set"
  <2>1. IsReferrer(m, n, o, "Set", TRUE, name, level, r, name)
    BY <1>1 DEF NewRenamed, IsReferrer
  <2>2. "Set" \in Kinds \cup {"None"} /\ TRUE \in BOOLEAN /\ IsType("Set", TRUE)
    BY DEF Kinds, IsType
  <2> QED BY <2>1, <2>2, ReferrerIsFine
<1>2. CASE m.heap[r].kind # "Set" /\ m.heap[r].nRefs > 0
  <2>1. IsReferrer(m, n, o, "Real", FALSE, name, level, r, name)
    BY <1>2 DEF NewRenamed, IsReferrer
  <2>2. "Real" \in Kinds \cup {"None"} /\ FALSE \in BOOLEAN /\ IsType("Real", FALSE)
    BY DEF Kinds, IsType
  <2> QED BY <2>1, <2>2, ReferrerIsFine
<1>3. CASE m.heap[r].kind # "Set" /\ ~(m.heap[r].nRefs > 0)
  <2>1. IsCopy(m, n, o, name, level, r, name)
    BY <1>3 DEF NewRenamed, IsCopy
  <2> QED BY <2>1, CopyIsFine
<1> QED BY <1>1, <1>2, <1>3

-----------------------------------------------------------------------------
\* No object refers to itself, through others

Descends(h, rank) == \A p \in Objects : \A i \in DOMAIN h[p].refs : rank[h[p].refs[i]] < rank[p]
Ranked(h) == \E top \in Nat : \E rank \in [Objects -> 0 .. top] : Descends(h, rank)

LEMMA RankedShrinks ==
  ASSUME NEW h, NEW g, Shrunk(h, g), Ranked(h)
  PROVE  Ranked(g)
<1>1. PICK top \in Nat : \E rank \in [Objects -> 0 .. top] : Descends(h, rank)
  BY DEF Ranked
<1>2. PICK rank \in [Objects -> 0 .. top] : Descends(h, rank)
  BY <1>1
<1>3. ASSUME NEW p \in Objects, NEW i \in DOMAIN g[p].refs PROVE rank[g[p].refs[i]] < rank[p]
  <2>1. g[p].refs = <<>> \/ g[p].refs = h[p].refs
    BY FreeIsRecord DEF Shrunk, SameBut
  <2>2. g[p].refs # <<>>
    OBVIOUS
  <2> QED BY <1>2, <2>1, <2>2 DEF Descends
<1> QED BY <1>1, <1>2, <1>3 DEF Ranked, Descends

LEMMA RankedGrows ==
  ASSUME NEW h, NEW A, NEW H, Fine(h, A, H), NEW g \in Heaps, NEW o, Grows(h, g, o), ~Refers(g, o, o), Ranked(h)
  PROVE  Ranked(g)
<1>1. PICK top \in Nat : \E rank \in [Objects -> 0 .. top] : Descends(h, rank)
  BY DEF Ranked
<1>2. PICK rank \in [Objects -> 0 .. top] : Descends(h, rank)
  BY <1>1
<1> DEFINE higher == [p \in Objects |-> IF p = o THEN top + 1 ELSE rank[p]]
<1>3. o \in Objects /\ h[o].nRefs = 0
  BY FreeIsRecord DEF Grows
<1>4. \A p \in Objects : ~Refers(h, p, o)
  <2>1. h[o].nRefs > 0 <=> A[o] > 0 \/ \E p \in Objects : Refers(h, p, o)
    BY <1>3, HoldsFields
  <2> QED BY <1>3, <2>1
<1>5. top + 1 \in Nat /\ higher \in [Objects -> 0 .. top + 1]
  BY <1>1, <1>2
<1>6. ASSUME NEW p \in Objects, NEW i \in DOMAIN g[p].refs PROVE higher[g[p].refs[i]] < higher[p]
  <2>0. g[p].refs[i] \in Objects
    BY HeapFields
  <2>1. CASE p = o
    <3>1. g[p].refs[i] # o
      BY <2>1 DEF Refers
    <3>2. higher[g[p].refs[i]] = rank[g[p].refs[i]] /\ rank[g[p].refs[i]] \in 0 .. top /\ higher[p] = top + 1
      BY <2>0, <2>1, <3>1
    <3> QED BY <3>2
  <2>2. CASE p # o
    <3>1. g[p].refs = <<>> \/ g[p].refs = h[p].refs
      BY <2>2, FreeIsRecord DEF Grows, SameBut
    <3>2. g[p].refs # <<>>
      OBVIOUS
    <3>3. g[p].refs[i] # o /\ rank[g[p].refs[i]] < rank[p]
      BY <1>2, <1>4, <3>1, <3>2 DEF Descends, Refers
    <3> QED BY <2>0, <2>2, <3>3
  <2> QED BY <2>1, <2>2
<1> HIDE DEF higher
<1>7. Descends(g, higher)
  BY <1>6 DEF Descends
<1> QED BY <1>5, <1>7 DEF Ranked

-----------------------------------------------------------------------------
\* The arguments of a function

Binds == [mem : Memories, instances : Seq(Objects)]
Counted(B, args) == args \in Seq(Objects) /\ \A i \in DOMAIN args : B[args[i]] > 0
AllMade(h, s) == \A i \in DOMAIN s : IsMade(h, s[i])
\* n objects of the level are pushed.
Extends(m, n, k, lvl) ==
  /\ Len(n.stack) = Len(m.stack) + k
  /\ \A i \in 1 .. Len(m.stack) : n.stack[i] = m.stack[i]
  /\ \A i \in Len(m.stack) + 1 .. Len(n.stack) : IsMade(n.heap, n.stack[i].obj) /\ n.heap[n.stack[i].obj].level = lvl
Unchanged(h, g) == \A p \in Objects : IsMade(h, p) => SameBut(h[p], g[p])
Better(h, g, s) ==
  /\ Loose(g) \subseteq Loose(h)
  /\ Tidy(h) /\ AllMade(h, s) => Tidy(g)
  /\ Ranked(h) => Ranked(g)
BindInv(b, m, B, H, n, args) ==
  /\ b \in Binds /\ Len(b.instances) = n
  /\ MemFine(b.mem, With(B, b.instances), H)
  /\ Room(b.mem.heap, Len(args) - n)
  /\ Extends(m, b.mem, n, level + 1)
  /\ Unchanged(m.heap, b.mem.heap)
  /\ Better(m.heap, b.mem.heap, args)
  /\ n > 0 => b.mem.stack[Len(m.stack) + 1].obj = b.instances[n]

LEMMA RoomEnough ==
  ASSUME NEW h, NEW j \in Nat, NEW k \in Nat, Room(h, k), j <= k
  PROVE  Room(h, j)
<1>1. Cardinality(Objects \ Live(h)) \in Nat
  BY ObjectsFinite, FS_Difference, FS_CardinalityType
<1> QED BY <1>1 DEF Room

\* The next argument is placed, and counted.
LEMMA BindNextIsFine ==
  ASSUME NEW m \in Memories, NEW B \in Bags, NEW H \in Holds, NEW args, Counted(B, args), level \in Int,
         NEW n \in 1 .. Len(args), NEW b, BindInv(b, m, B, H, n - 1, args), NEW param \in Names
  PROVE  BindInv(BindNext(b, param, args[n]), m, B, H, n, args)
<1> DEFINE r == args[n]
           h == b.mem.heap
           o == NextObject(h)
           k == NewFunArg(b.mem, param, r)
           g == IncNRefs(k.heap, o)
           C == With(B, b.instances)
           new == <<o>> \o b.instances
           D == With(B, new)
           c == BindNext(b, param, r)
<1>0. /\ n \in Nat /\ n - 1 \in Nat /\ Len(args) \in Nat /\ Len(args) - n \in Nat
      /\ r \in Objects /\ B[r] > 0 /\ param # NoName /\ param \in Names \cup {NoName}
  BY EvaluationAssumption DEF Counted
<1>1. /\ b \in Binds /\ Len(b.instances) = n - 1 /\ MemFine(b.mem, C, H) /\ Room(h, Len(args) - (n - 1))
      /\ Extends(m, b.mem, n - 1, level + 1) /\ Unchanged(m.heap, h) /\ Better(m.heap, h, args)
      /\ n - 1 > 0 => b.mem.stack[Len(m.stack) + 1].obj = b.instances[n - 1]
  BY DEF BindInv
<1>2. b.mem \in Memories /\ b.instances \in Seq(Objects) /\ b = [mem |-> b.mem, instances |-> b.instances]
  BY <1>1 DEF Binds
<1>3. /\ h \in Heaps /\ b.mem.stack \in Stacks /\ C \in Bags
      /\ Fine(h, With(C, Objs(b.mem.stack)), H)
  BY <1>1, MemFields
<1>4. C[r] > 0 /\ h[r].nRefs > 0 /\ r \notin H.temps /\ r \in Live(h)
  <2>1. B[r] <= C[r] /\ B[r] \in Nat /\ C[r] \in Nat
    BY <1>0, <1>2, <1>3, WithIsBag DEF Bags
  <2>2. C[r] <= With(C, Objs(b.mem.stack))[r] /\ With(C, Objs(b.mem.stack))[r] \in Nat
    BY <1>0, <1>3, StackObjects, WithIsBag DEF Bags
  <2>3. h[r].nRefs > 0
    BY <1>0, <1>3, <2>1, <2>2, HoldsFields
  <2>4. r \notin H.temps
    BY <1>3, <2>3 DEF Fine
  <2> QED BY <1>0, <2>1, <2>3, <2>4, FreeIsRecord DEF Live
<1>5. c = [mem |-> [k EXCEPT !.heap = g], instances |-> new]
  BY DEF BindNext
<1>6. Room(h, 1)
  <2>1. Len(args) - (n - 1) \in Nat /\ 1 <= Len(args) - (n - 1) /\ 1 \in Nat
    BY <1>0
  <2> QED BY <1>1, <2>1, RoomEnough
<1>7. /\ MemFine(k, C, H) /\ IsRenamed(b.mem, k, o, r, param, level + 1) /\ o \notin H.temps /\ o \notin H.kept
      /\ Adds(h, k.heap, o, r)
  <2>1. IsReferrer(b.mem, k, o, h[r].kind, TRUE, h[r].name, level + 1, r, param)
    BY DEF NewFunArg, IsReferrer
  <2>2. h[r].kind \in Kinds \cup {"None"} /\ h[r].name \in Names \cup {NoName} /\ level + 1 \in Int /\ TRUE \in BOOLEAN
    BY <1>0, <1>3, HeapFields
  <2>3. IsType(h[r].kind, TRUE)
    BY DEF IsType
  <2> HIDE DEF k, C, h
  <2>4. Room(b.mem.heap, 1) /\ MemFine(b.mem, C, H)
    BY <1>1, <1>6 DEF h
  <2> HIDE DEF o, r
  <2>6. r \in Objects /\ r \notin H.temps /\ param \in Names \cup {NoName}
    BY <1>0, <1>4
  <2>7. /\ MemFine(k, C, H) /\ IsRenamed(b.mem, k, o, r, param, level + 1) /\ o \notin H.temps /\ o \notin H.kept
        /\ Adds(b.mem.heap, k.heap, o, r)
    BY <2>1, <2>2, <2>3, <2>4, <2>6, ReferrerIsFine, Zenon
  <2> QED BY <2>7 DEF h
<1>8. k.heap \in Heaps /\ k.stack \in Stacks /\ k = [heap |-> k.heap, stack |-> k.stack]
      /\ Fine(k.heap, With(C, Objs(k.stack)), H) /\ Objs(k.stack) \in Seq(Objects)
  BY <1>7, MemFields
<1>9. /\ k.stack = Append(b.mem.stack, [obj |-> o, name |-> param]) /\ Grows(h, k.heap, o)
      /\ IsHome(k.heap, o, level + 1, r) /\ o \notin Loose(k.heap)
      /\ Loose(k.heap) \subseteq (Loose(h) \ {r}) \cup {o}
      /\ Tidy(h) /\ IsMade(h, r) => Tidy(k.heap)
  BY <1>0, <1>7 DEF IsRenamed, Pushed
<1>10. o \in Objects /\ o # r /\ o # Nil /\ h[o] = Free
  BY <1>4, <1>9, ObjectsFinite DEF Grows, Live
<1> HIDE DEF k, o, r, h, g, C, D, new, c
<1>11. c = [mem |-> [heap |-> g, stack |-> k.stack], instances |-> new]
  BY <1>5, <1>8
<1>12. c.mem = [heap |-> g, stack |-> k.stack] /\ c.mem.heap = g /\ c.mem.stack = k.stack /\ c.instances = new
  BY <1>11
<1>13. IsPut(k.heap, o, k.heap[o].nRefs + 1, g)
  <2>1. k.heap[o].nRefs + 1 \in Int /\ g = [k.heap EXCEPT ![o].nRefs = k.heap[o].nRefs + 1]
    BY <1>8, <1>10, HeapFields DEF IncNRefs, g
  <2> QED BY <1>8, <1>10, <2>1, CountPut, Zenon
<1>14. g \in Heaps /\ (\A p \in Objects : SameBut(k.heap[p], g[p])) /\ \A p \in Objects : p # o => g[p] = k.heap[p]
  BY <1>13 DEF IsPut
<1>15. /\ new \in Seq(Objects) /\ Len(new) = n /\ D \in Bags
       /\ new[1] = o /\ \A i \in 1 .. n - 1 : new[i + 1] = b.instances[i]
  <2>1. /\ new \in Seq(Objects) /\ Len(new) = n
        /\ new[1] = o /\ \A i \in 1 .. n - 1 : new[i + 1] = b.instances[i]
    BY <1>0, <1>1, <1>2, <1>10 DEF new
  <2> QED BY <2>1, WithIsBag DEF D
<1>16. IsMore(With(D, Objs(k.stack)), With(C, Objs(k.stack)), o)
  <2>1. With(D, Objs(k.stack)) \in Bags
    BY <1>8, <1>15, WithIsBag
  <2>2. ASSUME NEW p \in Objects
        PROVE  With(D, Objs(k.stack))[p] = With(C, Objs(k.stack))[p] + Alone(p, o)
    <3>1. /\ With(D, Objs(k.stack))[p] = D[p] + Occurrences(p, Objs(k.stack))
          /\ With(C, Objs(k.stack))[p] = C[p] + Occurrences(p, Objs(k.stack))
          /\ D[p] = B[p] + Occurrences(p, new) /\ C[p] = B[p] + Occurrences(p, b.instances)
      BY DEF With, C, D
    <3>2. Occurrences(p, new) = Occurrences(p, b.instances) + Alone(p, o)
      BY <1>2, <1>10, OccursAppend DEF new
    <3>3. /\ Occurrences(p, Objs(k.stack)) \in Nat /\ Occurrences(p, b.instances) \in Nat
          /\ B[p] \in Nat /\ Alone(p, o) \in Nat
      BY <1>2, <1>8, PlacesFinite DEF Bags, Alone
    <3> QED BY <3>1, <3>2, <3>3
  <2> QED BY <2>1, <2>2 DEF IsMore
<1>17. /\ Fine(g, With(D, Objs(k.stack)), H)
       /\ Tidy(k.heap) /\ (o # Nil => IsMade(k.heap, o)) => Tidy(g)
       /\ Loose(g) \subseteq Loose(k.heap) \ {o}
  <2>1. o \in Objects \cup {Nil} /\ o \notin H.temps
    BY <1>7, <1>10
  <2> QED BY <1>8, <1>16, <2>1, IncIsFine, Zenon DEF g
<1>18. MemFine(c.mem, With(B, c.instances), H)
  BY <1>8, <1>12, <1>14, <1>15, <1>17 DEF MemFine, Memories, D
<1>19. c \in Binds
  BY <1>8, <1>11, <1>14, <1>15 DEF Binds, Memories
<1>20. Room(g, Len(args) - n)
  <2>1. Live(g) \subseteq Live(h) \cup {o}
    BY <1>4, <1>7, <1>10, <1>14 DEF Adds, Live
  <2>2. Room(h, (Len(args) - n) + 1)
    <3>1. Len(args) - (n - 1) = (Len(args) - n) + 1
      BY <1>0
    <3> QED BY <1>1, <3>1
  <2> QED BY <1>0, <2>1, <2>2, RoomLess
<1>21. IsMade(g, o) /\ g[o].level = level + 1 /\ \A p \in Objects : p # o => SameBut(h[p], g[p])
  BY <1>7, <1>9, <1>10, <1>14 DEF Adds, IsHome, IsMade, IsType, SameBut
<1>22. Unchanged(h, g)
  BY <1>10, <1>21, FreeIsRecord DEF Unchanged, IsMade, IsType
<1>23. Unchanged(m.heap, g)
  BY <1>1, <1>22 DEF Unchanged, IsMade, IsType, SameBut
<1>24. Better(m.heap, g, args)
  <2>1. Loose(g) \subseteq Loose(m.heap)
    BY <1>1, <1>9, <1>17 DEF Better
  <2>2. Ranked(m.heap) => Ranked(g)
    <3>1. Grows(h, g, o) /\ ~Refers(g, o, o)
      BY <1>9, <1>10, <1>14, <1>21 DEF Grows, Refers, IsHome, OnlyTo, SameBut
    <3> QED BY <1>1, <1>3, <1>14, <3>1, RankedGrows DEF Better
  <2>3. ASSUME Tidy(m.heap), AllMade(m.heap, args) PROVE Tidy(g)
    <3>1. IsMade(m.heap, r)
      BY <1>0, <2>3 DEF AllMade, Counted, r
    <3>2. IsMade(h, r)
      BY <1>0, <1>1, <3>1 DEF Unchanged, IsMade, IsType, SameBut
    <3>3. Tidy(h)
      BY <1>1, <2>3 DEF Better
    <3> QED BY <1>9, <1>17, <3>2, <3>3 DEF IsHome
  <2> QED BY <2>1, <2>2, <2>3 DEF Better
<1>25. /\ Len(b.mem.stack) = Len(m.stack) + (n - 1) /\ Len(m.stack) \in Nat
       /\ Len(k.stack) = Len(m.stack) + n
       /\ \A i \in 1 .. Len(b.mem.stack) : k.stack[i] = b.mem.stack[i]
       /\ k.stack[Len(m.stack) + n] = [obj |-> o, name |-> param]
       /\ \A i \in 1 .. Len(b.mem.stack) : b.mem.stack[i].obj \in Objects
  <2>1. /\ Len(b.mem.stack) = Len(m.stack) + (n - 1) /\ Len(m.stack) \in Nat /\ Len(b.mem.stack) \in Nat
    BY <1>1, <1>3 DEF Extends, Memories, Stacks
  <2>2. /\ Len(k.stack) = Len(b.mem.stack) + 1 /\ k.stack[Len(b.mem.stack) + 1] = [obj |-> o, name |-> param]
        /\ \A i \in 1 .. Len(b.mem.stack) : k.stack[i] = b.mem.stack[i]
        /\ \A i \in 1 .. Len(b.mem.stack) : b.mem.stack[i] \in Entries
    BY <1>3, <1>9 DEF Stacks
  <2>3. Len(b.mem.stack) + 1 = Len(m.stack) + n
    BY <1>0, <2>1
  <2> QED BY <2>1, <2>2, <2>3 DEF Entries
<1>26. Extends(m, c.mem, n, level + 1)
  <2>1. \A i \in 1 .. Len(m.stack) : k.stack[i] = m.stack[i]
    BY <1>0, <1>1, <1>25 DEF Extends
  <2>2. ASSUME NEW i \in Len(m.stack) + 1 .. Len(k.stack)
        PROVE  IsMade(g, k.stack[i].obj) /\ g[k.stack[i].obj].level = level + 1
    <3>1. CASE i = Len(m.stack) + n
      BY <1>21, <1>25, <3>1
    <3>2. CASE i # Len(m.stack) + n
      <4>1. i \in Len(m.stack) + 1 .. Len(b.mem.stack) /\ i \in 1 .. Len(b.mem.stack)
        BY <1>0, <1>25, <3>2
      <4>2. IsMade(h, b.mem.stack[i].obj) /\ h[b.mem.stack[i].obj].level = level + 1 /\ b.mem.stack[i].obj \in Objects
        BY <1>1, <1>25, <4>1 DEF Extends, h
      <4>3. SameBut(h[b.mem.stack[i].obj], g[b.mem.stack[i].obj]) /\ k.stack[i] = b.mem.stack[i]
        BY <1>22, <1>25, <4>1, <4>2 DEF Unchanged
      <4> QED BY <4>2, <4>3 DEF IsMade, IsType, SameBut
    <3> QED BY <3>1, <3>2
  <2> QED BY <1>12, <1>25, <2>1, <2>2 DEF Extends
<1>27. c.mem.stack[Len(m.stack) + 1].obj = c.instances[n]
  <2>1. CASE n = 1
    <3>1. k.stack[Len(m.stack) + 1] = [obj |-> o, name |-> param]
      BY <1>25, <2>1
    <3>2. c.mem.stack = k.stack /\ c.instances[n] = o
      BY <1>12, <1>15, <2>1
    <3> QED BY <3>1, <3>2
  <2>2. CASE n # 1
    <3>1. n - 1 > 0 /\ n - 1 \in 1 .. n - 1 /\ (n - 1) + 1 = n /\ Len(m.stack) + 1 \in 1 .. Len(b.mem.stack)
      <4> DEFINE u == Len(m.stack)
                 v == Len(b.mem.stack)
      <4>1. v = u + (n - 1) /\ u \in Nat /\ n - 1 \in Nat /\ n \in Nat
        BY <1>0, <1>25
      <4> HIDE DEF u, v
      <4>2. n - 1 > 0 /\ n - 1 \in 1 .. n - 1 /\ (n - 1) + 1 = n /\ u + 1 \in 1 .. v
        BY <2>2, <4>1
      <4> QED BY <4>2 DEF u, v
    <3>2. new[n] = b.instances[n - 1]
      BY <1>15, <3>1
    <3>3. k.stack[Len(m.stack) + 1] = b.mem.stack[Len(m.stack) + 1]
      BY <1>25, <3>1
    <3> QED BY <1>1, <1>12, <3>1, <3>2, <3>3
  <2> QED BY <2>1, <2>2
<1>28. BindInv(c, m, B, H, n, args)
  BY <1>12, <1>15, <1>18, <1>19, <1>20, <1>23, <1>24, <1>26, <1>27 DEF BindInv
<1> QED BY <1>28 DEF c, r

LEMMA BindStarts ==
  ASSUME NEW m, NEW B, NEW H, MemFine(m, B, H), NEW args, Counted(B, args), Room(m.heap, Len(args)),
         NEW b, b = [mem |-> m, instances |-> <<>>]
  PROVE  BindInv(b, m, B, H, 0, args)
<1>1. b.mem = m /\ b.instances = <<>> /\ b \in Binds /\ m \in Memories /\ B \in Bags /\ Len(args) \in Nat
  BY MemFields DEF MemFine, Binds, Counted
<1>2. With(B, <<>>) = B
  BY <1>1, OccursNowhere DEF With, Bags
<1>3. Len(m.stack) \in Nat
  BY <1>1 DEF Memories, Stacks
<1>4. Extends(m, m, 0, level + 1)
  BY <1>3 DEF Extends
<1>5. Unchanged(m.heap, m.heap) /\ Better(m.heap, m.heap, args)
  BY DEF Unchanged, Better, SameBut
<1> QED BY <1>1, <1>2, <1>4, <1>5 DEF BindInv

LEMMA ElementOf ==
  ASSUME NEW S, NEW s \in Seq(S), NEW n \in 1 .. Len(s)
  PROVE  s[n] \in S
OBVIOUS

LEMMA BindIsFine ==
  ASSUME NEW m, NEW B, NEW H, MemFine(m, B, H), NEW args, Counted(B, args), Room(m.heap, Len(args)),
         level \in Int, NEW op \in UserFunctions, Len(op.params) = Len(args)
  PROVE  BindInv(Bind(m, op, args), m, B, H, Len(args), args)
<1> DEFINE l == Len(args)
           start == [mem |-> m, instances |-> <<>>]
           Good(n) == {b \in Binds : BindInv(b, m, B, H, n, args)}
           S == [n \in 0 .. l |-> Good(n)]
           T == [n \in 1 .. l |-> [b \in Binds |-> BindNext(b, op.params[n].name, args[n])]]
           Unfolds(f) == f = [n \in 0 .. l |-> IF n = 0 THEN start ELSE BindNext(f[n - 1], op.params[n].name, args[n])]
           bound == CHOOSE f : Unfolds(f)
<1>0. m \in Memories /\ B \in Bags /\ H \in Holds /\ l \in Nat
  BY MemFields DEF MemFine, Counted
<1>1. start \in Good(0)
  <2>1. start = [mem |-> m, instances |-> <<>>]
    OBVIOUS
  <2> HIDE DEF start
  <2>2. BindInv(start, m, B, H, 0, args)
    BY <2>1, BindStarts
  <2> QED BY <2>2 DEF BindInv
<1> HIDE DEF start
<1>2. ASSUME NEW n \in 1 .. l, NEW b \in Good(n - 1) PROVE BindNext(b, op.params[n].name, args[n]) \in Good(n)
  <2>1. op.params[n].name \in Names
    <3>1. op.params \in Seq([name : Names, gra : Grammars])
      BY EvaluationAssumption
    <3>2. op.params[n] \in [name : Names, gra : Grammars]
      <4>1. n \in 1 .. Len(op.params)
        OBVIOUS
      <4> QED BY <3>1, <4>1, ElementOf, Zenon
    <3> QED BY <3>2
  <2> DEFINE param == op.params[n].name
  <2> HIDE DEF param
  <2>2. param \in Names /\ BindInv(b, m, B, H, n - 1, args) /\ n \in 1 .. Len(args)
    BY <2>1 DEF param
  <2>3. BindInv(BindNext(b, param, args[n]), m, B, H, n, args)
    BY <1>0, <2>2, BindNextIsFine
  <2>4. BindNext(b, param, args[n]) \in Good(n)
    BY <2>3 DEF BindInv
  <2> QED BY <2>4 DEF param
<1>3. /\ S[0] = Good(0) /\ \A n \in 1 .. l : S[n - 1] = Good(n - 1) /\ S[n] = Good(n)
      /\ \A n \in 0 .. l : S[n] \subseteq Binds /\ S[n] = Good(n)
  BY <1>0
<1>4. \A n \in 1 .. l, b \in Binds : T[n][b] = BindNext(b, op.params[n].name, args[n])
  OBVIOUS
<1> HIDE DEF S, T, Good, l
<1>5. start \in S[0] /\ Stays(l, S, T)
  <2>1. start \in S[0]
    BY <1>1, <1>3
  <2>2. ASSUME NEW n \in 1 .. l, NEW b \in S[n - 1] PROVE T[n][b] \in S[n]
    <3>1. b \in Good(n - 1) /\ b \in Binds
      BY <1>3 DEF Good
    <3> QED BY <1>2, <1>3, <1>4, <3>1
  <2> QED BY <2>1, <2>2 DEF Stays
<1>6. PICK f : IsStaged(f, l, S, T, start)
  BY <1>0, <1>5, LoopOfStages
<1>7. Unfolds(f)
  <2>0. /\ f = [n \in 0 .. l |-> IF n = 0 THEN start ELSE T[n][f[n - 1]]]
        /\ \A n \in 0 .. l : f[n] \in S[n]
    BY <1>6 DEF IsStaged
  <2>1. ASSUME NEW n \in 0 .. l
        PROVE  f[n] = IF n = 0 THEN start ELSE BindNext(f[n - 1], op.params[n].name, args[n])
    <3>1. CASE n = 0
      BY <2>0, <3>1
    <3>2. CASE n # 0
      <4>1. n \in 1 .. l /\ n - 1 \in 0 .. l
        BY <1>0, <3>2
      <4>2. f[n - 1] \in Binds /\ f[n] = T[n][f[n - 1]]
        BY <1>3, <2>0, <3>2, <4>1
      <4> QED BY <1>4, <3>2, <4>1, <4>2
    <3> QED BY <3>1, <3>2
  <2>2. f = [n \in 0 .. l |-> f[n]]
    BY <2>0
  <2> QED BY <2>1, <2>2
<1>8. Unfolds(bound)
  BY <1>7
<1> HIDE DEF bound
<1>9. bound[0] = start /\ \A n \in 1 .. l : bound[n] = BindNext(bound[n - 1], op.params[n].name, args[n])
  BY <1>0, <1>8
<1> HIDE DEF Unfolds
<1> DEFINE Fit == {n \in 0 .. l : bound[n] \in Good(n)}
<1>10. \A n \in 0 .. l : n \in Fit
  <2>1. 0 \in Fit
    BY <1>0, <1>1, <1>9
  <2>2. ASSUME NEW n \in 0 .. l - 1, n \in Fit PROVE n + 1 \in Fit
    <3>1. n + 1 \in 1 .. l /\ n + 1 \in 0 .. l /\ (n + 1) - 1 = n
      BY <1>0
    <3>2. bound[n] \in Good((n + 1) - 1) /\ bound[n + 1] = BindNext(bound[n], op.params[n + 1].name, args[n + 1])
      BY <1>9, <2>2, <3>1
    <3> QED BY <1>2, <3>1, <3>2
  <2> HIDE DEF Fit
  <2> QED BY <1>0, <2>1, <2>2, CountUp
<1>11. bound[l] \in Good(l)
  BY <1>0, <1>10
<1>12. Bind(m, op, args) = bound[l]
  BY DEF Bind, bound, Unfolds, start, l
<1> QED BY <1>11, <1>12 DEF Good, l

-----------------------------------------------------------------------------
\* What an operator returns, when its arguments are released

IsComputed(m, n, o, args) ==
  /\ n.stack = m.stack
  /\ Grows(m.heap, n.heap, o) /\ IsMade(n.heap, o) /\ ~Refers(n.heap, o, o)
  /\ Loose(n.heap) \subseteq Loose(m.heap) \cup {o}
  /\ Tidy(m.heap) /\ AllMade(m.heap, args) => Tidy(n.heap)
  /\ Ranked(m.heap) => Ranked(n.heap)
IsResult(m, n, o, kind, refs, args) ==
  /\ o = NextObject(m.heap)
  /\ n = [New(m, kind, FALSE, NoName, level, refs, NoName) EXCEPT !.heap = DestroyList(@, args)]

LEMMA ComputedIsFine ==
  ASSUME NEW m, NEW C, NEW H, MemFine(m, C, H), Room(m.heap, 1), level \in Int,
         NEW B \in Bags, NEW args \in Seq(Objects), IsWith(C, B, args), Within(H, With(B, Objs(m.stack))),
         NEW kind \in Kinds, NEW refs \in {args, <<>>},
         NEW o, NEW n, IsResult(m, n, o, kind, refs, args)
  PROVE  MemFine(n, B, H) /\ IsComputed(m, n, o, args) /\ o \notin H.temps /\ o \notin H.kept
<1> DEFINE k == New(m, kind, FALSE, NoName, level, refs, NoName)
           rec == Made(kind, FALSE, NoName, level, refs)
           g == DestroyList(k.heap, args)
           A == With(C, Objs(m.stack))
           D == With(B, Objs(m.stack))
<1>0. /\ m.heap \in Heaps /\ m.stack \in Stacks /\ Objs(m.stack) \in Seq(Objects) /\ C \in Bags /\ H \in Holds
      /\ Fine(m.heap, A, H) /\ A \in Bags
  BY MemFields
<1>1. D \in Bags /\ IsWith(A, D, args) /\ D = With(B, Objs(m.stack))
  <2>1. D \in Bags
    BY <1>0, WithIsBag
  <2>2. ASSUME NEW p \in Objects PROVE A[p] = D[p] + Occurrences(p, args)
    <3>1. A[p] = C[p] + Occurrences(p, Objs(m.stack)) /\ D[p] = B[p] + Occurrences(p, Objs(m.stack))
      BY DEF With
    <3>2. C[p] = B[p] + Occurrences(p, args)
      BY DEF IsWith
    <3>3. B[p] \in Nat /\ Occurrences(p, args) \in Nat /\ Occurrences(p, Objs(m.stack)) \in Nat
      BY <1>0, PlacesFinite DEF Bags
    <3> HIDE DEF A, D
    <3> QED BY <3>1, <3>2, <3>3
  <2> HIDE DEF A, D
  <2>3. A \in Bags
    BY <1>0
  <2>4. IsWith(A, D, args)
    BY <2>2, <2>3 DEF IsWith
  <2> QED BY <2>1, <2>4 DEF D
<1>2. \A i \in DOMAIN args : m.heap[args[i]].nRefs > 0 /\ args[i] \in Objects
  <2> SUFFICES ASSUME NEW i \in DOMAIN args PROVE m.heap[args[i]].nRefs > 0 /\ args[i] \in Objects
    OBVIOUS
  <2>1. args[i] \in Objects
    OBVIOUS
  <2>2. Occurrences(args[i], args) > 0 /\ Occurrences(args[i], args) \in Nat
    BY OccursInRange, PlacesFinite
  <2> HIDE DEF A, D
  <2>3. A[args[i]] = D[args[i]] + Occurrences(args[i], args) /\ D[args[i]] \in Nat
    BY <1>1, <2>1 DEF IsWith, Bags
  <2>4. A[args[i]] > 0
    BY <2>2, <2>3
  <2> QED BY <1>0, <2>1, <2>4, HoldsFields
<1>3. refs \in Seq(Objects) /\ NoneOf(H.temps, refs)
  <2>1. NoneOf(H.temps, args)
    <3> SUFFICES ASSUME NEW i \in DOMAIN args, args[i] \in H.temps PROVE FALSE
      BY DEF NoneOf
    <3>1. m.heap[args[i]].nRefs = 0
      BY <1>0 DEF Fine
    <3> QED BY <1>2, <3>1
  <2>2. NoneOf(H.temps, <<>>) /\ <<>> \in Seq(Objects)
    BY DEF NoneOf
  <2> QED BY <2>1, <2>2, Zenon
<1>4. n = [k EXCEPT !.heap = g] /\ o = NextObject(m.heap)
  BY DEF IsResult
<1>5. IsPlaced(m, k, C, H, o, Made(kind, FALSE, NoName, level, refs), NoName)
  <2>1. kind \in Kinds \cup {"None"} /\ NoName \in Names \cup {NoName} /\ FALSE \in BOOLEAN
    OBVIOUS
  <2>2. IsType(kind, FALSE)
    BY DEF IsType, Kinds
  <2>3. k = New(m, kind, FALSE, NoName, level, refs, NoName)
    OBVIOUS
  <2> HIDE DEF k
  <2>4. o = NextObject(m.heap)
    BY <1>4
  <2>5. refs \in Seq(Objects)
    BY <1>3
  <2>6. NoneOf(H.temps, refs)
    BY <1>3
  <2> QED BY <2>1, <2>2, <2>3, <2>4, <2>5, <2>6, NewIsFine, Zenon
<1>6. /\ MemFine(k, C, H) /\ IsNew(m.heap, k.heap, o, rec) /\ k.stack = m.stack
      /\ o \notin H.temps /\ o \notin H.kept
  BY <1>5 DEF IsPlaced, Pushed
<1>7. rec.refs = refs /\ IsType(rec.kind, rec.alias)
  <2>1. rec.refs = refs /\ rec.kind = kind /\ Free.kind = "None"
    BY DEF Made, Free
  <2> HIDE DEF rec
  <2> QED BY <2>1 DEF IsType, Kinds
<1> HIDE DEF k, rec, g
<1>8. k.heap \in Heaps /\ k = [heap |-> k.heap, stack |-> k.stack] /\ Fine(k.heap, A, H)
  BY <1>6, MemFields
<1>9. n = [heap |-> g, stack |-> k.stack] /\ n.heap = g /\ n.stack = k.stack
  BY <1>4, <1>8
<1> HIDE DEF A, D
<1>10. Fine(g, D, H) /\ Releases(k.heap, g)
  <2>1. Within(H, D)
    BY <1>1
  <2>2. D \in Bags
    BY <1>1
  <2>3. IsWith(A, D, args)
    BY <1>1
  <2>4. Fine(k.heap, A, H)
    BY <1>8
  <2> QED BY <2>1, <2>2, <2>3, <2>4, DestroyListIsFine, Zenon DEF g
<1>11. g \in Heaps
  BY <1>10, HoldsFields
<1>12. MemFine(n, B, H)
  BY <1>0, <1>6, <1>9, <1>10, <1>11 DEF MemFine, Memories, D
<1>13. o \in Objects /\ m.heap[o] = Free /\ IsMade(k.heap, o) /\ k.heap[o].refs = refs
       /\ m.heap[o].nRefs = 0
  BY <1>6, <1>7, FreeIsRecord DEF IsNew, IsMade, IsType, SameBut
<1>14. Grows(m.heap, k.heap, o) /\ ~Refers(k.heap, o, o)
  <2>1. Grows(m.heap, k.heap, o)
    BY <1>6 DEF IsNew, Grows
  <2>2. ASSUME NEW i \in DOMAIN refs PROVE refs[i] # o
    BY <1>2, <1>13, <2>2
  <2> QED BY <1>13, <2>1, <2>2 DEF Refers
<1>15. k.heap[o].nRefs = 0
  BY <1>0, <1>8, <1>14, NewIsLoose
<1>16. Fine(k.heap, A, Temp(o)) /\ Temp(o) \in Holds
  BY <1>8, <1>13, <1>15, TempIsFine
<1>17. IsMade(g, o)
  <2>1. Within(Temp(o), D) /\ o \in Temp(o).kept
    <3>1. /\ Temp(o).bag = [p \in Objects |-> 0] /\ o \in Temp(o).kept
      BY DEF Temp
    <3>2. \A p \in Objects : D[p] \in Nat
      BY <1>1 DEF Bags
    <3> QED BY <3>1, <3>2 DEF Within
  <2>2. Within(Temp(o), D)
    BY <2>1
  <2>3. D \in Bags
    BY <1>1
  <2>4. IsWith(A, D, args)
    BY <1>1
  <2>5. Fine(k.heap, A, Temp(o))
    BY <1>16
  <2>6. Fine(g, D, Temp(o))
    BY <2>2, <2>3, <2>4, <2>5, DestroyListIsFine, Zenon DEF g
  <2> QED BY <2>1, <2>6 DEF Fine
<1>18. Shrunk(k.heap, g)
  BY <1>10 DEF Releases, Orderly
<1>19. Grows(m.heap, g, o) /\ ~Refers(g, o, o)
  <2>1. Grows(m.heap, g, o)
    BY <1>14, <1>18 DEF Grows, Shrunk, SameBut
  <2>2. g[o].refs = <<>> \/ g[o].refs = k.heap[o].refs
    BY <1>13, <1>18, FreeIsRecord DEF Shrunk, SameBut
  <2>3. ~Refers(g, o, o)
    BY <1>14, <2>2 DEF Refers
  <2> QED BY <2>1, <2>3
<1>20. Loose(g) \subseteq Loose(m.heap) \cup {o}
  BY <1>6, <1>10 DEF IsNew, Releases
<1>21. Tidy(m.heap) /\ AllMade(m.heap, args) => Tidy(g)
  <2> SUFFICES ASSUME Tidy(m.heap), AllMade(m.heap, args) PROVE Tidy(g)
    OBVIOUS
  <2>1. \A i \in DOMAIN rec.refs : IsMade(m.heap, rec.refs[i])
    BY <1>7 DEF AllMade
  <2>2. Tidy(k.heap)
    BY <1>6, <2>1 DEF IsNew
  <2> QED BY <1>10, <2>2 DEF Releases, Orderly
<1>22. Ranked(m.heap) => Ranked(g)
  BY <1>0, <1>11, <1>19, RankedGrows
<1>23. IsComputed(m, n, o, args)
  BY <1>6, <1>9, <1>17, <1>19, <1>20, <1>21, <1>22 DEF IsComputed
<1> QED BY <1>6, <1>12, <1>23

-----------------------------------------------------------------------------
\* The elements of a set are replaced

LEMMA ContensIs ==
  ASSUME NEW h \in Heaps, NEW o \in Objects, NEW S, S \subseteq Objects, o \in S,
         \A p \in S : Shown(h, p) \in S
  PROVE  Contens(h, o) \in S
<1> DEFINE T == [n \in 1 .. MaxObjects |-> [p \in S |-> Shown(h, p)]]
           Unfolds(f) == f = [n \in 0 .. MaxObjects |-> IF n = 0 THEN o ELSE Shown(h, f[n - 1])]
           follow == CHOOSE f : Unfolds(f)
<1>0. MaxObjects \in Nat
  BY EvaluationAssumption
<1>1. \A n \in 1 .. MaxObjects, p \in S : T[n][p] \in S /\ T[n][p] = Shown(h, p)
  OBVIOUS
<1> HIDE DEF T
<1>2. \A n \in 1 .. MaxObjects, p \in S : T[n][p] \in S
  BY <1>1
<1>3. PICK f : IsLoop(f, MaxObjects, S, T, o)
  BY <1>0, <1>2, LoopExists
<1>4. f \in [0 .. MaxObjects -> S] /\ f[0] = o /\ \A n \in 1 .. MaxObjects : f[n] = T[n][f[n - 1]]
  BY <1>3 DEF IsLoop
<1>5. Unfolds(f)
  <2>1. ASSUME NEW n \in 0 .. MaxObjects PROVE f[n] = IF n = 0 THEN o ELSE Shown(h, f[n - 1])
    <3>1. CASE n = 0
      BY <1>4, <3>1
    <3>2. CASE n # 0
      <4>1. n \in 1 .. MaxObjects /\ n - 1 \in 0 .. MaxObjects
        BY <1>0, <3>2
      <4> QED BY <1>1, <1>4, <3>2, <4>1
    <3> QED BY <3>1, <3>2
  <2>2. f = [n \in 0 .. MaxObjects |-> f[n]]
    BY <1>4
  <2> QED BY <2>1, <2>2
<1>6. Unfolds(follow)
  BY <1>5
<1> HIDE DEF follow
<1>7. follow[0] = o /\ \A n \in 1 .. MaxObjects : follow[n] = Shown(h, follow[n - 1])
  BY <1>0, <1>6
<1> HIDE DEF Unfolds
<1> DEFINE Fit == {n \in 0 .. MaxObjects : follow[n] \in S}
<1>8. \A n \in 0 .. MaxObjects : n \in Fit
  <2>1. 0 \in Fit
    BY <1>0, <1>7
  <2>2. ASSUME NEW n \in 0 .. MaxObjects - 1, n \in Fit PROVE n + 1 \in Fit
    <3>1. n + 1 \in 1 .. MaxObjects /\ n + 1 \in 0 .. MaxObjects /\ (n + 1) - 1 = n
      BY <1>0
    <3>2. follow[n + 1] = Shown(h, follow[n])
      BY <1>7, <3>1
    <3> QED BY <2>2, <3>1, <3>2
  <2> HIDE DEF Fit
  <2> QED BY <1>0, <2>1, <2>2, CountUp
<1>9. Contens(h, o) = follow[MaxObjects]
  BY DEF Contens, follow, Unfolds
<1> QED BY <1>0, <1>8, <1>9

LEMMA ContensIsObject ==
  ASSUME NEW h \in Heaps, NEW o \in Objects
  PROVE  Contens(h, o) \in Objects
<1>1. ASSUME NEW p \in Objects PROVE Shown(h, p) \in Objects
  <2>1. h[p].refs \in Seq(Objects)
    BY HeapFields
  <2>2. h[p].refs # <<>> => h[p].refs[1] \in Objects
    BY <2>1
  <2> QED BY <2>2 DEF Shown
<1> QED BY <1>1, ContensIs

\* What a hold keeps does not depend on the elements of t.
SupportedBut(h, H, t) ==
  \A o \in H.kept : H.bag[o] > 0 \/ o \in H.temps \/ \E p \in H.kept : p # t /\ Refers(h, p, o)
IsEmptied(h, g, t) ==
  /\ g \in Heaps /\ g[t].refs = <<>> /\ g[t].nRefs = h[t].nRefs
  /\ g[t].kind = h[t].kind /\ g[t].alias = h[t].alias /\ g[t].level = h[t].level /\ g[t].name = h[t].name
  /\ \A p \in Objects : p # t => g[p] = h[p]

LEMMA EmptiedIs ==
  ASSUME NEW h \in Heaps, NEW t \in Objects
  PROVE  IsEmptied(h, [h EXCEPT ![t].refs = <<>>], t)
<1> DEFINE g == [h EXCEPT ![t].refs = <<>>]
           rec == [h[t] EXCEPT !.refs = <<>>]
<1>1. h[t] \in Records
  BY HeapFields
<1>6. rec = [kind |-> h[t].kind, alias |-> h[t].alias, name |-> h[t].name, level |-> h[t].level,
             nRefs |-> h[t].nRefs, refs |-> <<>>]
  BY <1>1 DEF Records
<1>2. /\ rec \in Records /\ rec.refs = <<>> /\ rec.nRefs = h[t].nRefs
      /\ rec.kind = h[t].kind /\ rec.alias = h[t].alias /\ rec.level = h[t].level /\ rec.name = h[t].name
  <2>1. <<>> \in Seq(Objects)
    OBVIOUS
  <2> HIDE DEF rec
  <2> QED BY <1>6, <2>1, HeapFields DEF Records
<1>3. g = [h EXCEPT ![t] = rec]
  BY DEF Heaps
<1> HIDE DEF rec, g
<1>4. g \in Heaps /\ g[t] = rec /\ \A p \in Objects : p # t => g[p] = h[p]
  BY <1>2, <1>3 DEF Heaps
<1>5. IsEmptied(h, g, t)
  BY <1>2, <1>4 DEF IsEmptied
<1> QED BY <1>5 DEF g

LEMMA EmptiedIsFine ==
  ASSUME NEW h, NEW B, NEW H, Fine(h, B, H), NEW t \in Objects, SupportedBut(h, H, t),
         NEW g, IsEmptied(h, g, t), NEW C, IsWith(C, B, h[t].refs)
  PROVE  /\ Fine(g, C, H)
         /\ Loose(g) \subseteq Loose(h)
         /\ Tidy(h) => Tidy(g)
<1>0. h \in Heaps /\ g \in Heaps /\ B \in Bags /\ H \in Holds /\ C \in Bags /\ h[t].refs \in Seq(Objects)
  BY HeapFields DEF Fine, IsEmptied, IsWith
<1>1. g[t].refs = <<>> /\ \A p \in Objects : g[p].nRefs = h[p].nRefs
  BY DEF IsEmptied
<1>2. OthersRefer(h, g, t)
  BY DEF OthersRefer, IsEmptied
<1>3. Exact(g, C)
  <2>1. \A o : Cardinality(RefUses(g, o)) + Occurrences(o, h[t].refs)
                 = Cardinality(RefUses(h, o)) + Occurrences(o, g[t].refs)
    BY <1>0, <1>2, UsesChange
  <2>2. ASSUME NEW o \in Objects PROVE g[o].nRefs = C[o] + Cardinality(RefUses(g, o))
    <3>1. C[o] = B[o] + Occurrences(o, h[t].refs) /\ h[o].nRefs = B[o] + Cardinality(RefUses(h, o))
      BY DEF IsWith, Fine, Exact
    <3>2. Occurrences(o, g[t].refs) = 0
      BY <1>1, OccursNowhere
    <3>3. /\ B[o] \in Nat /\ Occurrences(o, h[t].refs) \in Nat
          /\ Cardinality(RefUses(h, o)) \in Nat /\ Cardinality(RefUses(g, o)) \in Nat
      BY <1>0, PlacesFinite, RefUsesFinite DEF Bags
    <3> QED BY <1>1, <2>1, <3>1, <3>2, <3>3
  <2> QED BY <2>2 DEF Exact
<1>4. Within(H, C)
  BY <1>0, WithinMore DEF Fine
<1>5. Supported(g, H)
  <2>1. ASSUME NEW p \in Objects, p # t, NEW o, Refers(h, p, o) PROVE Refers(g, p, o)
    BY <2>1 DEF IsEmptied, Refers
  <2>2. H.kept \subseteq Objects /\ H.temps \subseteq H.kept
    BY <1>0 DEF Holds, Fine, Supported
  <2> QED BY <2>1, <2>2 DEF Supported, SupportedBut
<1>6. \A o \in Objects : IsMade(g, o) <=> IsMade(h, o)
  BY DEF IsMade, IsType, IsEmptied
<1>7. Fine(g, C, H)
  <2>1. H.kept \subseteq Objects /\ H.temps \subseteq Objects
    BY <1>0 DEF Holds
  <2> QED BY <1>0, <1>1, <1>3, <1>4, <1>5, <1>6, <2>1 DEF Fine
<1>8. Loose(g) \subseteq Loose(h)
  BY <1>1, <1>6 DEF Loose
<1>9. ASSUME Tidy(h) PROVE Tidy(g)
  <2>1. ASSUME NEW p \in Objects PROVE IsMade(g, p) \/ g[p] = Free
    <3>1. CASE p = t /\ ~IsMade(h, t)
      <4>1. h[t] = Free /\ g[t] \in Records /\ h[t] \in Records
        BY <1>0, <1>9, <3>1, HeapFields DEF Tidy
      <4> QED BY <3>1, <4>1, FreeIsRecord DEF IsEmptied, Records
    <3>2. CASE p = t /\ IsMade(h, t)
      BY <1>6, <3>2
    <3>3. CASE p # t
      BY <1>6, <1>9, <3>3 DEF Tidy, IsEmptied
    <3> QED BY <3>1, <3>2, <3>3
  <2> QED BY <2>1 DEF Tidy
<1> QED BY <1>7, <1>8, <1>9

\* What has become of h when t refers to what v did.
IsCopied(h, k, t, v, H) ==
  /\ \A p \in Objects : p # t => SameBut(Free, k[p]) \/ SameBut(h[p], k[p])
  /\ \A i \in DOMAIN k[t].refs : Refers(h, v, k[t].refs[i])
  /\ \A o \in H.kept : k[o].level = h[o].level
  /\ Loose(k) \subseteq Loose(h)
  /\ Tidy(h) /\ IsMade(k, t) => Tidy(k)

(* The set has the new elements when what it had has been released. *)
LEMMA CopySetIsFine ==
  ASSUME NEW h, NEW B, NEW H, Fine(h, B, H), NEW target \in Objects, NEW value \in Objects,
         NEW t, t = Contens(h, target), NEW v, v = Contens(h, value), SupportedBut(h, H, t)
  PROVE  Fine(CopySet(h, target, value), B, H) /\ IsCopied(h, CopySet(h, target, value), t, v, H)
<1> DEFINE old == h[t].refs
           e == [h EXCEPT ![t].refs = <<>>]
           g == DestroyList(e, Reverse(old))
           new == g[v].refs
           f == IncAll(g, new)
           k == [f EXCEPT ![t].refs = new]
<1>0. h \in Heaps /\ B \in Bags /\ H \in Holds /\ t \in Objects /\ v \in Objects /\ old \in Seq(Objects)
      /\ Within(H, B)
  <2>1. h \in Heaps /\ B \in Bags /\ H \in Holds /\ Within(H, B)
    BY DEF Fine
  <2>2. t \in Objects /\ v \in Objects
    BY <2>1, ContensIsObject
  <2> QED BY <2>1, <2>2, HeapFields
<1>1. CopySet(h, target, value) = k
  BY DEF CopySet
<1>2. IsEmptied(h, e, t)
  BY <1>0, EmptiedIs
<1> HIDE DEF e, old
<1>3. With(B, old) \in Bags /\ IsWith(With(B, old), B, old)
  BY <1>0, WithIsBag
<1>4. /\ Fine(e, With(B, old), H) /\ Loose(e) \subseteq Loose(h)
      /\ Tidy(h) => Tidy(e)
  <2>1. IsWith(With(B, old), B, h[t].refs) /\ t \in Objects
    BY <1>0, <1>3 DEF old
  <2> QED BY <1>2, <2>1, EmptiedIsFine
<1>5. Reverse(old) \in Seq(Objects) /\ IsWith(With(B, old), B, Reverse(old))
  <2>1. Reverse(old) \in Seq(Objects)
    BY <1>0, ReverseIsSeq
  <2>2. ASSUME NEW o \in Objects PROVE With(B, old)[o] = B[o] + Occurrences(o, Reverse(old))
    <3>1. Occurrences(o, Reverse(old)) = Occurrences(o, old)
      BY <1>0, OccursReverse
    <3> QED BY <1>3, <3>1 DEF IsWith
  <2> QED BY <1>3, <2>1, <2>2 DEF IsWith
<1>6. Fine(g, B, H) /\ Releases(e, g)
  <2>1. Fine(e, With(B, old), H)
    BY <1>4
  <2>2. IsWith(With(B, old), B, Reverse(old))
    BY <1>5
  <2>3. Reverse(old) \in Seq(Objects)
    BY <1>5
  <2>4. B \in Bags /\ Within(H, B)
    BY <1>0
  <2> QED BY <2>1, <2>2, <2>3, <2>4, DestroyListIsFine, Zenon
<1> HIDE DEF g
<1>7. g \in Heaps /\ new \in Seq(Objects) /\ e \in Heaps
  <2>1. g \in Heaps
    BY <1>6, HoldsFields
  <2> QED BY <1>0, <1>2, <2>1, HeapFields DEF IsEmptied
<1>8. (\A p \in Objects : SameBut(Free, g[p]) \/ SameBut(e[p], g[p])) /\ (Tidy(e) => Tidy(g)) /\ Loose(g) \subseteq Loose(e)
  BY <1>6 DEF Releases, Orderly, Shrunk
<1>9. g[t].refs = <<>> /\ \A i \in DOMAIN new : Refers(h, v, new[i])
  <2>1. g[t].refs = <<>>
    BY <1>0, <1>2, <1>8, FreeIsRecord DEF SameBut, IsEmptied
  <2>2. ASSUME NEW i \in DOMAIN new PROVE Refers(h, v, new[i])
    <3>1. new # <<>>
      OBVIOUS
    <3>2. new = e[v].refs /\ v # t
      BY <1>0, <1>8, <2>1, <3>1, FreeIsRecord DEF SameBut
    <3>3. new = h[v].refs
      BY <1>0, <1>2, <3>2 DEF IsEmptied
    <3> QED BY <3>3 DEF Refers
  <2> QED BY <2>1, <2>2
<1>10. \A i \in DOMAIN new : new[i] \in Objects /\ g[new[i]].nRefs > 0
  <2> SUFFICES ASSUME NEW i \in DOMAIN new PROVE new[i] \in Objects /\ g[new[i]].nRefs > 0
    OBVIOUS
  <2>1. new[i] \in Objects
    BY <1>7
  <2>2. Refers(g, v, new[i])
    BY DEF Refers
  <2> QED BY <1>0, <1>6, <2>1, <2>2, HoldsFields
<1>11. NoneOf(H.temps, new)
  <2> SUFFICES ASSUME NEW i \in DOMAIN new, new[i] \in H.temps PROVE FALSE
    BY DEF NoneOf
  <2>1. g[new[i]].nRefs = 0
    BY <1>6 DEF Fine
  <2> QED BY <1>10, <2>1
<1> HIDE DEF new
<1>12. /\ f \in Heaps
       /\ \A o \in Objects : SameBut(g[o], f[o]) /\ f[o].nRefs = g[o].nRefs + Occurrences(o, new)
  BY <1>7, IncAllIs
<1> HIDE DEF f
<1>13. /\ k \in Heaps /\ k[t].refs = new /\ k[t].nRefs = f[t].nRefs
       /\ k[t].kind = f[t].kind /\ k[t].alias = f[t].alias /\ k[t].level = f[t].level
       /\ \A p \in Objects : p # t => k[p] = f[p]
  <2> DEFINE rec == [kind |-> f[t].kind, alias |-> f[t].alias, name |-> f[t].name, level |-> f[t].level,
                     nRefs |-> f[t].nRefs, refs |-> new]
  <2>1. [f[t] EXCEPT !.refs = new] = rec
    <3>1. f[t] \in Records
      BY <1>0, <1>12, HeapFields
    <3> QED BY <3>1 DEF Records
  <2>2. k = [f EXCEPT ![t] = rec]
    BY <2>1
  <2>3. rec \in Records
    BY <1>0, <1>7, <1>12, HeapFields DEF Records
  <2>4. /\ rec.refs = new /\ rec.nRefs = f[t].nRefs
        /\ rec.kind = f[t].kind /\ rec.alias = f[t].alias /\ rec.level = f[t].level
    OBVIOUS
  <2> HIDE DEF rec, k
  <2>5. k \in Heaps /\ k[t] = rec /\ \A p \in Objects : p # t => k[p] = f[p]
    BY <1>0, <1>12, <2>2, <2>3 DEF Heaps
  <2> QED BY <2>4, <2>5
<1> HIDE DEF k
<1>14. IsFilled(g, k, t, new)
  <2>1. \A o \in Objects : k[o].nRefs = g[o].nRefs + Occurrences(o, new)
    BY <1>12, <1>13
  <2>2. \A o \in Objects : o # t => SameBut(g[o], k[o])
    BY <1>12, <1>13
  <2> QED BY <1>13, <2>1, <2>2 DEF IsFilled
<1>15. \A o \in Objects : (IsMade(k, o) <=> IsMade(g, o)) /\ k[o].level = g[o].level
  BY <1>12, <1>13 DEF IsMade, IsType, SameBut
<1>16. Fine(k, B, H)
  <2>1. t \in H.kept => IsMade(k, t)
    BY <1>0, <1>6, <1>15 DEF Fine
  <2>2. Fine(g, B, H) /\ t \in Objects /\ g[t].refs = <<>> /\ new \in Seq(Objects)
    BY <1>0, <1>6, <1>7, <1>9
  <2> QED BY <1>11, <1>14, <2>1, <2>2, FilledIsFine
<1>17. \A p \in Objects : p # t => SameBut(Free, k[p]) \/ SameBut(h[p], k[p])
  <2> SUFFICES ASSUME NEW p \in Objects, p # t PROVE SameBut(Free, k[p]) \/ SameBut(h[p], k[p])
    OBVIOUS
  <2>1. e[p] = h[p] /\ SameBut(g[p], k[p])
    BY <1>2, <1>14 DEF IsEmptied, IsFilled
  <2> QED BY <1>8, <2>1 DEF SameBut
<1>18. ASSUME NEW o \in H.kept PROVE k[o].level = h[o].level
  <2>1. o \in Objects /\ IsMade(g, o)
    BY <1>0, <1>6 DEF Fine, Holds
  <2>2. SameBut(e[o], g[o])
    BY <1>8, <2>1, FreeIsRecord DEF SameBut, IsMade, IsType
  <2>3. e[o].level = h[o].level
    BY <1>2, <2>1 DEF IsEmptied
  <2> QED BY <1>15, <2>1, <2>2, <2>3 DEF SameBut
<1>19. Loose(k) \subseteq Loose(h)
  <2>1. ASSUME NEW o \in Loose(k) PROVE o \in Loose(g)
    <3>1. o \in Objects /\ k[o].nRefs = 0 /\ IsMade(g, o)
      BY <1>15 DEF Loose
    <3>2. k[o].nRefs = g[o].nRefs + Occurrences(o, new) /\ g[o].nRefs \in Nat /\ Occurrences(o, new) \in Nat
      BY <1>6, <1>7, <1>14, <3>1, HoldsFields, PlacesFinite DEF IsFilled
    <3>3. g[o].nRefs = 0
      BY <3>1, <3>2
    <3> QED BY <3>1, <3>3 DEF Loose
  <2> QED BY <1>4, <1>8, <2>1
<1>20. ASSUME Tidy(h), IsMade(k, t) PROVE Tidy(k)
  <2>1. Tidy(g)
    BY <1>4, <1>8, <1>20
  <2>2. ASSUME NEW p \in Objects, ~IsMade(k, p) PROVE k[p] = Free
    <3>1. g[p] = Free /\ p # t
      BY <1>15, <1>20, <2>1, <2>2 DEF Tidy
    <3>2. Occurrences(p, new) = 0
      <4>1. ~ \E i \in DOMAIN new : new[i] = p
        BY <1>10, <3>1, FreeIsRecord
      <4> QED BY <1>7, <4>1, OccursInRange, PlacesFinite
    <3>3. k[p].nRefs = 0 /\ SameBut(Free, k[p])
      BY <1>14, <3>1, <3>2, FreeIsRecord DEF IsFilled
    <3>4. k[p] \in Records /\ Free \in Records
      BY <1>13, HeapFields, FreeIsRecord
    <3> QED BY <3>3, <3>4, FreeIsRecord DEF Records, SameBut
  <2> QED BY <2>2 DEF Tidy
<1>21. IsCopied(h, k, t, v, H)
  BY <1>9, <1>13, <1>17, <1>18, <1>19, <1>20 DEF IsCopied
<1> QED BY <1>1, <1>16, <1>21

-----------------------------------------------------------------------------
\* An object of another type

LEMMA MisfitIsFine ==
  ASSUME NEW h, NEW B, NEW H, Fine(h, B, H), NEW o \in Objects \cup {Nil}, o \notin H.temps, NEW gra, NEW force,
         NEW g, g = DestroyMisfit(h, o, gra, force), NEW r, r = Cast(h, o, gra, force)
  PROVE  /\ Fine(g, B, H) /\ Releases(h, g) /\ (r # Nil => r = o /\ g = h)
         /\ Loose(g) \subseteq (Loose(h) \ {o}) \cup {r} /\ r \in Objects \cup {Nil}
<1>1. CASE Fits(h, o, gra) \/ ~force
  <2>1. g = h /\ r = o
    BY <1>1 DEF DestroyMisfit, Cast
  <2> QED BY <2>1, ReleasesItself
<1>2. CASE ~(Fits(h, o, gra) \/ ~force)
  <2>1. g = Destroy(h, o) /\ r = Nil
    BY <1>2 DEF DestroyMisfit, Cast
  <2>2. Fine(Destroy(h, o), B, H) /\ Releases(h, Destroy(h, o)) /\ Loose(Destroy(h, o)) \subseteq Loose(h) \ {o}
    BY DestroyIsFine, Zenon
  <2> QED BY <2>1, <2>2
<1> QED BY <1>1, <1>2

LEMMA MemIsFine ==
  ASSUME NEW g, NEW st \in Stacks, NEW B \in Bags, NEW H, Fine(g, With(B, Objs(st)), H),
         NEW m, m = [heap |-> g, stack |-> st]
  PROVE  MemFine(m, B, H) /\ m.heap = g /\ m.stack = st
<1>1. g \in Heaps
  BY HoldsFields
<1>2. m \in Memories /\ m.heap = g /\ m.stack = st
  BY <1>1 DEF Memories
<1> QED BY <1>2 DEF MemFine

-----------------------------------------------------------------------------
\* Calls in progress, and what they refer to

\* The type of a term: that of an object that was destroyed is none.
Wanted == Grammars \cup {"None"}

BlockFrames == [at : {"block"}, gra : Wanted, force : BOOLEAN, pos : Nat, items : Seq(Objects)]
TypedFrames == [at : {"typed"}, gra : Wanted, force : BOOLEAN]
DeclareFrames == [at : {"declare"}, name : Names]
ArgumentFrames ==
  {f \in [at : {"arguments"}, op : Operators, args : Seq(Objects)] :
     IsUser(f.op) => Len(f.args) < Len(f.op.params)}
BodyFrames ==
  [at : {"body"}, op : UserFunctions, args : Seq(Objects), instances : Seq(Objects), pos : Nat, level : Int]
SetFrames == [at : {"set"}, gra : Wanted]
IndexFrames == [at : {"index"}, gra : Wanted, set : Objects, count : Nat]
ValueFrames == [at : {"value"}, target : Objects]
Frames ==
  BlockFrames \cup TypedFrames \cup DeclareFrames \cup ArgumentFrames \cup BodyFrames
    \cup SetFrames \cup IndexFrames \cup ValueFrames
Controls ==
  [do : {"evaluate"}, gra : Wanted, force : BOOLEAN] \cup [do : {"return"}, obj : Objects \cup {Nil}]

TypeOK ==
  /\ heap \in Heaps /\ stack \in Stacks /\ level \in Int
  /\ frames \in Seq(Frames) /\ control \in Controls
  /\ leaked \in Seq(Objects) /\ orphans \subseteq Objects

LEMMA FrameKinds ==
  ASSUME NEW f \in Frames
  PROVE  /\ f.at = "block" => f \in BlockFrames
         /\ f.at = "typed" => f \in TypedFrames
         /\ f.at = "declare" => f \in DeclareFrames
         /\ f.at = "arguments" => f \in ArgumentFrames
         /\ f.at = "body" => f \in BodyFrames
         /\ f.at = "set" => f \in SetFrames
         /\ f.at = "index" => f \in IndexFrames
         /\ f.at = "value" => f \in ValueFrames
         /\ f.at \in {"block", "typed", "declare", "arguments", "body", "set", "index", "value"}
BY DEF Frames, BlockFrames, TypedFrames, DeclareFrames, ArgumentFrames, BodyFrames, SetFrames, IndexFrames,
       ValueFrames

LEMMA ListsAre ==
  ASSUME NEW f \in Frames
  PROVE  /\ Lists(f) \in Seq(Objects)
         /\ f.at = "block" => Lists(f) = f.items
         /\ f.at = "arguments" => Lists(f) = f.args
         /\ f.at = "body" => Lists(f) = f.args \o f.instances
         /\ f.at \notin {"block", "arguments", "body"} => Lists(f) = <<>>
<1>1. /\ f.at = "block" => Lists(f) = f.items
      /\ f.at = "arguments" => Lists(f) = f.args
      /\ f.at = "body" => Lists(f) = f.args \o f.instances
      /\ f.at \notin {"block", "arguments", "body"} => Lists(f) = <<>>
  BY DEF Lists
<1>2. /\ f.at = "block" => f.items \in Seq(Objects)
      /\ f.at = "arguments" => f.args \in Seq(Objects)
      /\ f.at = "body" => f.args \in Seq(Objects) /\ f.instances \in Seq(Objects)
  BY FrameKinds DEF BlockFrames, ArgumentFrames, BodyFrames
<1>3. Lists(f) \in Seq(Objects)
  <2>1. CASE f.at = "body"
    <3>1. f.args \o f.instances \in Seq(Objects)
      BY <1>2, <2>1
    <3> QED BY <1>1, <2>1, <3>1
  <2>2. CASE f.at \notin {"block", "arguments", "body"}
    <3>1. Lists(f) = <<>> /\ <<>> \in Seq(Objects)
      BY <1>1, <2>2
    <3> QED BY <3>1, Zenon
  <2>3. CASE f.at \in {"block", "arguments"}
    BY <1>1, <1>2, <2>3
  <2> QED BY <2>1, <2>2, <2>3
<1> QED BY <1>1, <1>3

\* Where o is on the list of the j-th call.
UsesAt(fs, j, o) == {j} \X {i \in DOMAIN Lists(fs[j]) : Lists(fs[j])[i] = o}

LEMMA UsesAtIs ==
  ASSUME NEW fs \in Seq(Frames), NEW j \in DOMAIN fs, NEW o
  PROVE  IsFiniteSet(UsesAt(fs, j, o)) /\ Cardinality(UsesAt(fs, j, o)) = Occurrences(o, Lists(fs[j]))
<1>1. Lists(fs[j]) \in Seq(Objects)
  <2>1. fs[j] \in Frames
    OBVIOUS
  <2> QED BY <2>1, ListsAre
<1>2. IsFiniteSet(Places(o, Lists(fs[j]))) /\ Occurrences(o, Lists(fs[j])) = Cardinality(Places(o, Lists(fs[j])))
  BY <1>1, PlacesFinite
<1>3. UsesAt(fs, j, o) = {j} \X Places(o, Lists(fs[j]))
  BY DEF UsesAt, Places
<1> QED BY <1>2, <1>3, PairsOfOne

\* The list of a call that is entered is added.
LEMMA FrameUsesPush ==
  ASSUME NEW f \in Frames, NEW fs \in Seq(Frames), NEW o, IsFiniteSet(FrameUses(fs, o))
  PROVE  /\ IsFiniteSet(FrameUses(<<f>> \o fs, o))
         /\ Cardinality(FrameUses(<<f>> \o fs, o)) = Occurrences(o, Lists(f)) + Cardinality(FrameUses(fs, o))
<1> DEFINE gs == <<f>> \o fs
           U == FrameUses(fs, o)
           shift == [u \in U |-> <<u[1] + 1, u[2]>>]
           V == {r \in FrameUses(gs, o) : r[1] # 1}
           W == UsesAt(gs, 1, o)
<1>1. /\ gs \in Seq(Frames) /\ gs[1] = f /\ DOMAIN gs = 1 .. Len(fs) + 1 /\ DOMAIN fs = 1 .. Len(fs)
      /\ Len(fs) \in Nat /\ \A j \in 1 .. Len(fs) : gs[j + 1] = fs[j]
  OBVIOUS
<1> HIDE DEF gs
<1>2. /\ \A r \in FrameUses(gs, o) : /\ r = <<r[1], r[2]>> /\ r[1] \in DOMAIN gs
                                     /\ r[2] \in DOMAIN Lists(gs[r[1]]) /\ Lists(gs[r[1]])[r[2]] = o
      /\ \A j \in DOMAIN gs : \A i \in DOMAIN Lists(gs[j]) : Lists(gs[j])[i] = o => <<j, i>> \in FrameUses(gs, o)
  BY DEF FrameUses
<1>3. /\ \A r \in U : /\ r = <<r[1], r[2]>> /\ r[1] \in DOMAIN fs
                      /\ r[2] \in DOMAIN Lists(fs[r[1]]) /\ Lists(fs[r[1]])[r[2]] = o
      /\ \A j \in DOMAIN fs : \A i \in DOMAIN Lists(fs[j]) : Lists(fs[j])[i] = o => <<j, i>> \in U
  BY DEF FrameUses
<1> HIDE DEF U
<1>4. IsFiniteSet(W) /\ Cardinality(W) = Occurrences(o, Lists(f))
  <2>1. 1 \in DOMAIN gs
    BY <1>1
  <2> QED BY <1>1, <2>1, UsesAtIs
<1>5. /\ \A r \in W : r = <<r[1], r[2]>> /\ r[1] = 1 /\ r[2] \in DOMAIN Lists(gs[1]) /\ Lists(gs[1])[r[2]] = o
      /\ \A i \in DOMAIN Lists(gs[1]) : Lists(gs[1])[i] = o => <<1, i>> \in W
  BY DEF UsesAt
<1>6. FrameUses(gs, o) = W \cup V /\ W \cap V = {}
  <2>1. ASSUME NEW r \in W PROVE r \in FrameUses(gs, o) /\ r \notin V
    <3>1. <<1, r[2]>> \in FrameUses(gs, o) /\ r = <<1, r[2]>>
      BY <1>1, <1>2, <1>5
    <3> QED BY <1>5, <3>1
  <2>2. ASSUME NEW r \in FrameUses(gs, o), r[1] = 1 PROVE r \in W
    <3>1. <<1, r[2]>> \in W
      BY <1>2, <1>5, <2>2
    <3> QED BY <1>2, <2>2, <3>1
  <2> QED BY <2>1, <2>2
<1>7. shift \in Bijection(U, V)
  <2>1. ASSUME NEW u \in U PROVE shift[u] \in V /\ shift[u][1] = u[1] + 1 /\ shift[u][2] = u[2]
    <3>1. u[1] \in 1 .. Len(fs) /\ u[1] + 1 \in DOMAIN gs /\ gs[u[1] + 1] = fs[u[1]] /\ u[1] + 1 # 1
      BY <1>1, <1>3
    <3>2. <<u[1] + 1, u[2]>> \in FrameUses(gs, o)
      BY <1>2, <1>3, <3>1
    <3> QED BY <3>1, <3>2
  <2>2. ASSUME NEW u \in U, NEW w \in U, shift[u] = shift[w] PROVE u = w
    <3>1. u[1] = w[1] /\ u[2] = w[2]
      BY <1>1, <1>3, <2>1, <2>2
    <3> QED BY <1>3, <3>1
  <2>3. ASSUME NEW r \in V PROVE \E u \in U : shift[u] = r
    <3>1. r[1] - 1 \in DOMAIN fs /\ gs[r[1]] = fs[r[1] - 1] /\ (r[1] - 1) + 1 = r[1]
      BY <1>1, <1>2
    <3>2. <<r[1] - 1, r[2]>> \in U
      BY <1>2, <1>3, <3>1
    <3>3. shift[<<r[1] - 1, r[2]>>] = r
      BY <1>2, <3>1, <3>2
    <3> QED BY <3>2, <3>3
  <2> HIDE DEF V
  <2>4. shift \in [U -> V]
    BY <2>1
  <2> HIDE DEF shift
  <2> QED BY <2>2, <2>3, <2>4 DEF Bijection, Injection, Surjection, IsInjective
<1>8. IsFiniteSet(V) /\ Cardinality(V) = Cardinality(U)
  <2>1. IsFiniteSet(U)
    BY DEF U
  <2> HIDE DEF V, shift
  <2>2. ExistsBijection(U, V)
    BY <1>7 DEF ExistsBijection
  <2> QED BY <2>1, <2>2, FS_Bijection, FS_SameCardinalityBij
<1>9. /\ IsFiniteSet(W \cup V) /\ Cardinality(W \cup V) = Cardinality(W) + Cardinality(V)
  BY <1>4, <1>6, <1>8, DisjointSum
<1> QED BY <1>4, <1>6, <1>8, <1>9 DEF gs, U

LEMMA FrameUsesFinite ==
  ASSUME NEW fs \in Seq(Frames), NEW o
  PROVE  IsFiniteSet(FrameUses(fs, o)) /\ Cardinality(FrameUses(fs, o)) \in Nat
<1> DEFINE S == {UsesAt(fs, j, o) : j \in DOMAIN fs}
           f == [j \in DOMAIN fs |-> UsesAt(fs, j, o)]
<1>1. IsFiniteSet(DOMAIN fs)
  <2> DEFINE k == Len(fs)
  <2>1. DOMAIN fs = 1 .. k /\ k \in Int /\ 1 \in Int
    OBVIOUS
  <2> HIDE DEF k
  <2> QED BY <2>1, FS_Interval
<1>2. IsFiniteSet(S)
  <2>1. f \in Surjection(DOMAIN fs, S)
    <3>1. f \in [DOMAIN fs -> S] /\ \A T \in S : \E j \in DOMAIN fs : f[j] = T
      OBVIOUS
    <3> HIDE DEF f, S
    <3> QED BY <3>1 DEF Surjection
  <2> HIDE DEF f, S
  <2> QED BY <1>1, <2>1, FS_Surjection
<1>3. \A T \in S : IsFiniteSet(T)
  BY UsesAtIs
<1>4. FrameUses(fs, o) = UNION S
  BY DEF FrameUses, UsesAt
<1> HIDE DEF S
<1>5. IsFiniteSet(FrameUses(fs, o))
  BY <1>2, <1>3, <1>4, FS_UNION
<1> QED BY <1>5, FS_CardinalityType

\* The references that are not from objects, nor from the stack.
Uses(fs, lk) == [o \in Objects |-> Occurrences(o, lk) + Cardinality(FrameUses(fs, o))]

LEMMA UsesAreCounted ==
  ASSUME NEW fs \in Seq(Frames), NEW lk \in Seq(Objects)
  PROVE  Uses(fs, lk) \in Bags
<1>1. ASSUME NEW o \in Objects PROVE Occurrences(o, lk) + Cardinality(FrameUses(fs, o)) \in Nat
  <2>1. Occurrences(o, lk) \in Nat /\ Cardinality(FrameUses(fs, o)) \in Nat
    BY PlacesFinite, FrameUsesFinite
  <2> QED BY <2>1
<1> QED BY <1>1 DEF Uses, Bags

LEMMA UsesPush ==
  ASSUME NEW f \in Frames, NEW fs \in Seq(Frames), NEW lk \in Seq(Objects)
  PROVE  /\ IsWith(Uses(<<f>> \o fs, lk), Uses(fs, lk), Lists(f)) /\ Lists(f) \in Seq(Objects)
         /\ Uses(<<f>> \o fs, lk) = With(Uses(fs, lk), Lists(f))
         /\ Uses(fs, lk) \in Bags
<1>1. Uses(<<f>> \o fs, lk) \in Bags /\ Uses(fs, lk) \in Bags /\ Lists(f) \in Seq(Objects)
  <2>1. <<f>> \o fs \in Seq(Frames)
    OBVIOUS
  <2> QED BY <2>1, UsesAreCounted, ListsAre
<1>2. ASSUME NEW o \in Objects PROVE Uses(<<f>> \o fs, lk)[o] = Uses(fs, lk)[o] + Occurrences(o, Lists(f))
  <2>1. Cardinality(FrameUses(<<f>> \o fs, o)) = Occurrences(o, Lists(f)) + Cardinality(FrameUses(fs, o))
    BY FrameUsesFinite, FrameUsesPush
  <2>2. /\ Uses(<<f>> \o fs, lk)[o] = Occurrences(o, lk) + Cardinality(FrameUses(<<f>> \o fs, o))
        /\ Uses(fs, lk)[o] = Occurrences(o, lk) + Cardinality(FrameUses(fs, o))
    BY DEF Uses
  <2>3. Occurrences(o, lk) \in Nat /\ Occurrences(o, Lists(f)) \in Nat /\ Cardinality(FrameUses(fs, o)) \in Nat
    BY <1>1, PlacesFinite, FrameUsesFinite
  <2> QED BY <2>1, <2>2, <2>3
<1>3. IsWith(Uses(<<f>> \o fs, lk), Uses(fs, lk), Lists(f))
  BY <1>1, <1>2 DEF IsWith
<1>4. Uses(<<f>> \o fs, lk) = With(Uses(fs, lk), Lists(f))
  BY <1>1, <1>2 DEF With, Bags
<1> QED BY <1>1, <1>3, <1>4

LEMMA UsesLeak ==
  ASSUME NEW fs \in Seq(Frames), NEW lk \in Seq(Objects), NEW s \in Seq(Objects)
  PROVE  /\ IsWith(Uses(fs, lk \o s), Uses(fs, lk), s)
         /\ Uses(fs, lk \o s) = With(Uses(fs, lk), s)
<1>1. Uses(fs, lk \o s) \in Bags /\ Uses(fs, lk) \in Bags
  <2>1. lk \o s \in Seq(Objects)
    OBVIOUS
  <2> QED BY <2>1, UsesAreCounted
<1>2. ASSUME NEW o \in Objects PROVE Uses(fs, lk \o s)[o] = Uses(fs, lk)[o] + Occurrences(o, s)
  <2>1. Occurrences(o, lk \o s) = Occurrences(o, lk) + Occurrences(o, s)
    BY OccursConcat
  <2>2. /\ Uses(fs, lk \o s)[o] = Occurrences(o, lk \o s) + Cardinality(FrameUses(fs, o))
        /\ Uses(fs, lk)[o] = Occurrences(o, lk) + Cardinality(FrameUses(fs, o))
    BY DEF Uses
  <2>3. Occurrences(o, lk) \in Nat /\ Occurrences(o, s) \in Nat /\ Cardinality(FrameUses(fs, o)) \in Nat
    BY PlacesFinite, FrameUsesFinite
  <2> QED BY <2>1, <2>2, <2>3
<1>3. IsWith(Uses(fs, lk \o s), Uses(fs, lk), s)
  BY <1>1, <1>2 DEF IsWith
<1>4. Uses(fs, lk \o s) = With(Uses(fs, lk), s)
  BY <1>1, <1>2 DEF With, Bags
<1> QED BY <1>3, <1>4

\* A list of two parts, and an empty one.
LEMMA WithParts ==
  ASSUME NEW B \in Bags, NEW s \in Seq(Objects), NEW t \in Seq(Objects)
  PROVE  /\ With(B, <<>>) = B
         /\ With(B, s \o t) = With(With(B, s), t)
         /\ With(B, s \o t) = With(With(B, t), s)
<1>1. With(B, <<>>) = B
  BY OccursNowhere DEF With, Bags
<1>2. ASSUME NEW o \in Objects
      PROVE  /\ With(B, s \o t)[o] = With(With(B, s), t)[o]
             /\ With(B, s \o t)[o] = With(With(B, t), s)[o]
  <2>1. Occurrences(o, s \o t) = Occurrences(o, s) + Occurrences(o, t)
    BY OccursConcat
  <2>2. B[o] \in Nat /\ Occurrences(o, s) \in Nat /\ Occurrences(o, t) \in Nat
    BY PlacesFinite DEF Bags
  <2>3. /\ With(B, s \o t)[o] = B[o] + Occurrences(o, s \o t)
        /\ With(With(B, s), t)[o] = (B[o] + Occurrences(o, s)) + Occurrences(o, t)
        /\ With(With(B, t), s)[o] = (B[o] + Occurrences(o, t)) + Occurrences(o, s)
    BY DEF With
  <2> QED BY <2>1, <2>2, <2>3
<1>3. /\ With(B, s \o t) = [o \in Objects |-> With(B, s \o t)[o]]
      /\ With(With(B, s), t) = [o \in Objects |-> With(With(B, s), t)[o]]
      /\ With(With(B, t), s) = [o \in Objects |-> With(With(B, t), s)[o]]
  BY DEF With
<1> QED BY <1>1, <1>2, <1>3

-----------------------------------------------------------------------------
\* What each step leaves: the types

Shape ==
  /\ level \in Int /\ frames \in Seq(Frames) /\ control \in Controls
  /\ leaked \in Seq(Objects) /\ orphans \subseteq Objects

LEMMA TopIs ==
  ASSUME frames \in Seq(Frames), frames # <<>>
  PROVE  Top \in Frames /\ Below \in Seq(Frames) /\ frames = <<Top>> \o Below
BY DEF Top, Below

LEMMA PushIs ==
  ASSUME NEW fs \in Seq(Frames), NEW f \in Frames
  PROVE  <<f>> \o fs \in Seq(Frames)
OBVIOUS

LEMMA ControlsAre ==
  /\ \A gra \in Wanted, force \in BOOLEAN : Evaluate(gra, force) \in Controls
  /\ \A o \in Objects \cup {Nil} : Return(o) \in Controls
  /\ \A c \in Controls : c.do = "evaluate" => c.gra \in Wanted /\ c.force \in BOOLEAN
  /\ \A c \in Controls : c.do = "return" => c.obj \in Objects \cup {Nil}
  /\ "Real" \in Grammars /\ "Set" \in Grammars /\ "Anything" \in Grammars /\ Kinds \subseteq Grammars
  /\ Grammars \subseteq Wanted /\ "Real" \in Wanted /\ "Set" \in Wanted /\ "Anything" \in Wanted
BY DEF Controls, Evaluate, Return, Wanted, Grammars, Kinds

LEMMA OperatorsAre ==
  /\ \A op \in UserFunctions : /\ IsUser(op) /\ op.gra \in Grammars /\ op.params # <<>>
                               /\ op.params \in Seq([name : Names, gra : Grammars])
  /\ \A op \in Operators : op.gra \in Grammars /\ (IsUser(op) => op \in UserFunctions)
  /\ Sum \in Operators /\ SetOf \in Operators
<1>1. \A op \in UserFunctions : /\ IsUser(op) /\ op.gra \in Grammars /\ op.params # <<>>
                                /\ op.params \in Seq([name : Names, gra : Grammars])
  BY EvaluationAssumption DEF IsUser
<1>2. Sum.gra \in Grammars /\ SetOf.gra \in Grammars /\ ~IsUser(Sum) /\ ~IsUser(SetOf)
  BY DEF Sum, SetOf, Grammars, Kinds, IsUser
<1> QED BY <1>1, <1>2 DEF Operators

LEMMA ArgumentGrammarIs ==
  ASSUME NEW op \in Operators, NEW n \in Nat, n > 0, IsUser(op) => n <= Len(op.params)
  PROVE  ArgumentGrammar(op, n) \in Grammars
<1>1. CASE IsUser(op)
  <2> DEFINE params == op.params
  <2>0. params \in Seq([name : Names, gra : Grammars]) /\ n <= Len(params)
    BY <1>1, OperatorsAre
  <2> HIDE DEF params
  <2>3. n \in 1 .. Len(params)
    BY <2>0
  <2>1. op.params \in Seq([name : Names, gra : Grammars]) /\ n \in 1 .. Len(op.params)
    BY <2>0, <2>3 DEF params
  <2>2. op.params[n] \in [name : Names, gra : Grammars]
    BY <2>1, ElementOf, Zenon
  <2> QED BY <1>1, <2>2 DEF ArgumentGrammar
<1>2. CASE ~IsUser(op)
  BY <1>2, ControlsAre DEF ArgumentGrammar
<1> QED BY <1>1, <1>2

\* A name is that of a variable, or of none.
LEMMA FindIs ==
  ASSUME NEW st \in Stacks, NEW name
  PROVE  Find(st, name) = Nil \/ \E i \in DOMAIN st : st[i].obj = Find(st, name) /\ st[i].obj \in Objects
<1> DEFINE at == {i \in DOMAIN st : st[i].name = name}
<1>1. ASSUME at # {} PROVE \E i \in at : \A j \in at : j <= i
  <2> DEFINE k == Len(st)
  <2>1. at \subseteq 1 .. k /\ k \in Nat
    BY DEF Stacks
  <2> HIDE DEF at, k
  <2> DEFINE far == {k - i : i \in at}
  <2>2. \A i \in at : i \in Int /\ k - i \in Nat
    BY <2>1
  <2>3. far \subseteq Nat /\ far # {}
    BY <1>1, <2>2
  <2>4. PICK x \in far : \A y \in far : ~(<<y, x>> \in OpToRel(<, Nat))
    <3> HIDE DEF far
    <3> QED BY <2>3, NatLessThanWellFounded, WFMin, Zenon
  <2>5. \A y \in far : ~(y < x)
    BY <2>3, <2>4 DEF OpToRel
  <2>6. PICK i \in at : x = k - i
    BY <2>4
  <2>7. ASSUME NEW j \in at PROVE j <= i
    <3>1. k - j \in far /\ j \in Int /\ i \in Int /\ k \in Int
      BY <2>1, <2>2
    <3>2. ~(k - j < k - i)
      BY <2>5, <2>6, <3>1
    <3> QED BY <3>1, <3>2
  <2> QED BY <2>7
<1>2. CASE at = {}
  BY <1>2 DEF Find
<1>3. CASE at # {}
  <2> DEFINE i == CHOOSE i \in at : \A j \in at : j <= i
  <2>1. i \in at
    BY <1>1, <1>3
  <2>2. Find(st, name) = st[i].obj
    BY <1>3 DEF Find
  <2> HIDE DEF i
  <2>3. i \in DOMAIN st /\ i \in 1 .. Len(st) /\ st \in Seq(Entries)
    BY <2>1 DEF Stacks
  <2>4. st[i] \in Entries
    BY <2>3, ElementOf, Zenon
  <2>5. st[i].obj \in Objects
    BY <2>4 DEF Entries
  <2> QED BY <2>2, <2>3, <2>5
<1> QED BY <1>2, <1>3

LEMMA FindOperandIs ==
  ASSUME stack \in Stacks, NEW gra, NEW name
  PROVE  /\ FindOperand(gra, name) \in Objects \cup {Nil}
         /\ FindOperand(gra, name) # Nil => \E i \in DOMAIN stack : stack[i].obj = FindOperand(gra, name)
BY FindIs DEF FindOperand

LEMMA UnreferencedIs ==
  ASSUME NEW o \in Objects \cup {Nil}
  PROVE  Unreferenced(o) \subseteq Objects
BY DEF Unreferenced

LEMMA NextObjectIs ==
  ASSUME NEW h, Room(h, 1)
  PROVE  NextObject(h) \in Objects
BY NextIsFree

-----------------------------------------------------------------------------
\* What every step leaves.  A hold says which objects a step must not take: it sees to it that they are
\* referred to, or that they are not what the step has at hand.

HandOf(c) == IF c.do = "return" THEN {c.obj} ELSE {}
HeldBy(f) == IF f.at = "index" THEN {f.set} ELSE IF f.at = "value" THEN {f.target} ELSE {}
Held(fs) == UNION {HeldBy(fs[j]) : j \in DOMAIN fs}
Hands(c, fs) == HandOf(c) \cup Held(fs)

NextMemory == [heap |-> heap', stack |-> stack']

Ready(H) ==
  /\ MemFine(Memory, Uses(frames, leaked), H)
  /\ HandOf(control) \cap H.temps = {}
  /\ frames # <<>> => HeldBy(Top) \cap H.temps = {}
After(H) == Within(H, With(Uses(frames', leaked'), Objs(stack')))
Course(H) ==
  /\ MemFine(NextMemory, Uses(frames', leaked'), H)
  /\ \A o \in H.kept : heap'[o].level = heap[o].level
  /\ HandOf(control') \cap H.temps = {}

\* What is at hand is alive, and a step leaves nothing behind.
AllAlive(h, S) == \A o \in S : Alive(h, o)
Whole == Tidy(heap) /\ AllAlive(heap, Hands(control, frames))
Tracked(h, c, fs, os) == Loose(h) \subseteq Hands(c, fs) \cup os
Tended ==
  Whole => /\ Tidy(heap')
           /\ AllAlive(heap', HandOf(control'))
           /\ Ranked(heap) => Ranked(heap')
           /\ Tracked(heap, control, frames, orphans) => Tracked(heap', control', frames', orphans')

LEMMA HeldPush ==
  ASSUME NEW f, NEW fs \in Seq(Frames)
  PROVE  Held(<<f>> \o fs) = HeldBy(f) \cup Held(fs)
<1> DEFINE gs == <<f>> \o fs
<1>1. /\ DOMAIN gs = 1 .. Len(fs) + 1 /\ gs[1] = f /\ DOMAIN fs = 1 .. Len(fs) /\ Len(fs) \in Nat
      /\ \A j \in 1 .. Len(fs) : gs[j + 1] = fs[j]
  OBVIOUS
<1> HIDE DEF gs
<1>2. ASSUME NEW x \in Held(gs) PROVE x \in HeldBy(f) \cup Held(fs)
  <2>1. PICK j \in DOMAIN gs : x \in HeldBy(gs[j])
    BY <1>2 DEF Held
  <2>2. CASE j = 1
    BY <1>1, <2>1, <2>2
  <2>3. CASE j # 1
    <3>1. j - 1 \in 1 .. Len(fs) /\ gs[(j - 1) + 1] = gs[j]
      BY <1>1, <2>3
    <3>2. j - 1 \in DOMAIN fs /\ gs[j] = fs[j - 1]
      BY <1>1, <3>1
    <3>3. x \in HeldBy(fs[j - 1])
      BY <2>1, <3>2
    <3> QED BY <3>2, <3>3 DEF Held
  <2> QED BY <2>2, <2>3
<1>3. ASSUME NEW x \in HeldBy(f) PROVE x \in Held(gs)
  <2>1. 1 \in DOMAIN gs /\ x \in HeldBy(gs[1])
    BY <1>1, <1>3
  <2> QED BY <2>1 DEF Held
<1>4. ASSUME NEW x \in Held(fs) PROVE x \in Held(gs)
  <2>1. PICK j \in DOMAIN fs : x \in HeldBy(fs[j])
    BY <1>4 DEF Held
  <2>2. j + 1 \in DOMAIN gs /\ x \in HeldBy(gs[j + 1])
    BY <1>1, <2>1
  <2> QED BY <2>2 DEF Held
<1> QED BY <1>2, <1>3, <1>4 DEF gs

LEMMA HoldsNothing ==
  ASSUME NEW f, f.at \notin {"index", "value"}
  PROVE  HeldBy(f) = {}
BY DEF HeldBy

\* Calls with no list refer to nothing.
LEMMA UsesOfEmpty ==
  ASSUME NEW f \in Frames, NEW fs \in Seq(Frames), NEW lk \in Seq(Objects), Lists(f) = <<>>
  PROVE  Uses(<<f>> \o fs, lk) = Uses(fs, lk)
BY UsesPush, WithParts

LEMMA WithSwaps ==
  ASSUME NEW B \in Bags, NEW s \in Seq(Objects), NEW t \in Seq(Objects)
  PROVE  /\ With(With(B, s), t) = With(With(B, t), s)
         /\ With(B, s) \in Bags /\ With(B, t) \in Bags /\ With(With(B, s), t) \in Bags
BY WithParts, WithIsBag

\* The lists of the innermost call, apart from those of the others.
Others == Uses(Below, leaked)
LEMMA TopUses ==
  ASSUME TypeOK, frames # <<>>, NEW H, MemFine(Memory, Uses(frames, leaked), H)
  PROVE  /\ Others \in Bags /\ Lists(Top) \in Seq(Objects) /\ Objs(stack) \in Seq(Objects) /\ H \in Holds
         /\ Uses(frames, leaked) = With(Others, Lists(Top))
         /\ Fine(heap, With(With(Others, Objs(stack)), Lists(Top)), H)
         /\ With(Others, Objs(stack)) \in Bags
         /\ Top \in Frames /\ Below \in Seq(Frames) /\ frames = <<Top>> \o Below
<1>1. Top \in Frames /\ Below \in Seq(Frames) /\ frames = <<Top>> \o Below /\ leaked \in Seq(Objects)
  BY TopIs DEF TypeOK
<1>2. Uses(<<Top>> \o Below, leaked) = With(Uses(Below, leaked), Lists(Top)) /\ Lists(Top) \in Seq(Objects)
      /\ Uses(Below, leaked) \in Bags
  BY <1>1, UsesPush
<1>3. Memory.heap = heap /\ Memory.stack = stack
  BY DEF Memory
<1>4. Objs(stack) \in Seq(Objects) /\ H \in Holds /\ Fine(heap, With(Uses(frames, leaked), Objs(stack)), H)
  BY <1>3, MemFields
<1>5. With(With(Others, Lists(Top)), Objs(stack)) = With(With(Others, Objs(stack)), Lists(Top))
      /\ With(Others, Objs(stack)) \in Bags
  BY <1>2, <1>4, WithSwaps DEF Others
<1>6. Uses(frames, leaked) = With(Others, Lists(Top))
  BY <1>1, <1>2 DEF Others
<1>7. Fine(heap, With(With(Others, Objs(stack)), Lists(Top)), H)
  BY <1>4, <1>5, <1>6
<1> QED BY <1>1, <1>2, <1>4, <1>5, <1>6, <1>7 DEF Others

\* The same, for what is left.
LEMMA LeftWithList ==
  ASSUME NEW f \in Frames, NEW fs \in Seq(Frames), NEW lk \in Seq(Objects), NEW st \in Stacks, NEW h, NEW H,
         Fine(h, With(With(Uses(fs, lk), Objs(st)), Lists(f)), H)
  PROVE  MemFine([heap |-> h, stack |-> st], Uses(<<f>> \o fs, lk), H)
<1>1. Lists(f) \in Seq(Objects) /\ Uses(<<f>> \o fs, lk) = With(Uses(fs, lk), Lists(f)) /\ Uses(fs, lk) \in Bags
  BY UsesPush
<1>2. Objs(st) \in Seq(Objects)
  BY StackObjects
<1>3. With(With(Uses(fs, lk), Lists(f)), Objs(st)) = With(With(Uses(fs, lk), Objs(st)), Lists(f))
      /\ Uses(<<f>> \o fs, lk) \in Bags
  BY <1>1, <1>2, WithSwaps
<1>4. Fine(h, With(Uses(<<f>> \o fs, lk), Objs(st)), H)
  BY <1>1, <1>3
<1> QED BY <1>3, <1>4, MemIsFine

\* Steps that leave the memory as it is.
LEMMA KeepGoes ==
  ASSUME Keep, Uses(frames', leaked') = Uses(frames, leaked), NEW H, Ready(H), HandOf(control') \cap H.temps = {},
         Whole => AllAlive(heap, HandOf(control')),
         Hands(control, frames) \cup orphans \subseteq Hands(control', frames') \cup orphans' \cup {Nil}
  PROVE  Course(H) /\ Tended
<1>1. heap' = heap /\ stack' = stack /\ NextMemory = Memory
  BY DEF Keep, NextMemory, Memory
<1>2. Course(H)
  BY <1>1 DEF Course, Ready
<1>3. Loose(heap) \subseteq Objects /\ Nil \notin Objects
  BY ObjectsFinite DEF Loose
<1>4. Tracked(heap, control, frames, orphans) => Tracked(heap', control', frames', orphans')
  BY <1>1, <1>3 DEF Tracked
<1> QED BY <1>1, <1>2, <1>4 DEF Tended, Whole

-----------------------------------------------------------------------------
\* Terms that only enter a call

LEMMA CountedIsAlive ==
  ASSUME NEW h, NEW B, NEW H, Fine(h, B, H), NEW o \in Objects, h[o].nRefs > 0
  PROVE  o \notin H.temps /\ o \notin Loose(h) /\ (Tidy(h) => IsMade(h, o))
<1>1. o \notin H.temps /\ o \notin Loose(h)
  BY DEF Fine, Loose
<1>2. h[o] # Free
  BY FreeIsRecord
<1> QED BY <1>1, <1>2 DEF Tidy

LEMMA OnStackIsCounted ==
  ASSUME NEW m, NEW B, NEW H, MemFine(m, B, H), NEW i \in DOMAIN m.stack
  PROVE  m.stack[i].obj \in Objects /\ m.heap[m.stack[i].obj].nRefs > 0
<1> DEFINE o == m.stack[i].obj
           s == Objs(m.stack)
<1>1. /\ m.stack \in Stacks /\ s \in Seq(Objects) /\ B \in Bags /\ Fine(m.heap, With(B, s), H)
  BY MemFields
<1>2. i \in 1 .. Len(m.stack) /\ Len(s) = Len(m.stack) /\ s[i] = o
  BY <1>1, StackObjects DEF Stacks
<1>3. i \in 1 .. Len(s) /\ i \in DOMAIN s
  BY <1>1, <1>2
<1>4. o \in Objects
  BY <1>1, <1>2, <1>3, ElementOf
<1>5. Occurrences(o, s) > 0 /\ Occurrences(o, s) \in Nat
  <2>1. \E j \in DOMAIN s : s[j] = o
    BY <1>2, <1>3
  <2>2. Occurrences(o, s) > 0 <=> \E j \in DOMAIN s : s[j] = o
    BY <1>1, OccursInRange
  <2> QED BY <1>1, <2>1, <2>2, PlacesFinite
<1> HIDE DEF o, s
<1>6. With(B, s)[o] = B[o] + Occurrences(o, s) /\ B[o] \in Nat
  BY <1>1, <1>4, WithIsBag DEF Bags
<1>7. With(B, s)[o] <= m.heap[o].nRefs /\ m.heap[o].nRefs \in Nat /\ With(B, s)[o] \in Nat
  BY <1>1, <1>4, HoldsFields
<1>8. m.heap[o].nRefs > 0
  BY <1>5, <1>6, <1>7
<1> QED BY <1>4, <1>8 DEF o

LEMMA MemoryIs == Memory.heap = heap /\ Memory.stack = stack
BY DEF Memory

\* A variable that is found has a reference from the stack.
LEMMA OperandIsAlive ==
  ASSUME TypeOK, NEW H, MemFine(Memory, Uses(frames, leaked), H), NEW gra, NEW name,
         NEW o, o = FindOperand(gra, name)
  PROVE  o \in Objects \cup {Nil} /\ o \notin H.temps /\ (Whole => Alive(heap, o))
<1>1. o \in Objects \cup {Nil} /\ (o # Nil => \E i \in DOMAIN stack : stack[i].obj = o)
  BY FindOperandIs DEF TypeOK
<1>2. H.temps \subseteq Objects
  BY MemFields, HoldsFields
<1>3. CASE o = Nil
  BY <1>1, <1>2, <1>3, ObjectsFinite DEF Alive
<1>4. CASE o # Nil
  <2>1. PICK i \in DOMAIN stack : stack[i].obj = o
    BY <1>1, <1>4
  <2>2. o \in Objects /\ heap[o].nRefs > 0
    BY <2>1, MemoryIs, OnStackIsCounted
  <2>3. Fine(heap, With(Uses(frames, leaked), Objs(stack)), H)
    BY MemFields, MemoryIs
  <2>4. o \notin H.temps /\ (Tidy(heap) => IsMade(heap, o))
    BY <2>2, <2>3, CountedIsAlive
  <2> QED BY <1>1, <2>4 DEF Whole, Alive
<1> QED BY <1>3, <1>4

LEMMA NothingInHand ==
  ASSUME NEW c, c.do = "evaluate"
  PROVE  HandOf(c) = {}
BY DEF HandOf

LEMMA EvaluateIs == \A gra, force : Evaluate(gra, force).do = "evaluate"
BY DEF Evaluate

LEMMA ReturnIs == \A o : HandOf(Return(o)) = {o} /\ Return(o).do = "return" /\ Return(o).obj = o
BY DEF Return, HandOf

\* A call is entered that has no list and nothing in its hand.
EntersWith(f) ==
  /\ f \in Frames /\ Lists(f) = <<>> /\ HeldBy(f) = {}
  /\ frames' = <<f>> \o frames
Same == Keep /\ leaked' = leaked /\ orphans' = orphans

LEMMA EntersGoes ==
  ASSUME TypeOK, Same, Evaluates, control'.do = "evaluate", NEW f, EntersWith(f), NEW H, Ready(H)
  PROVE  Course(H) /\ Tended /\ frames' \in Seq(Frames) /\ leaked' \in Seq(Objects) /\ orphans' \subseteq Objects
<1>1. frames \in Seq(Frames) /\ leaked \in Seq(Objects) /\ orphans \subseteq Objects
  BY DEF TypeOK
<1>2. Uses(frames', leaked') = Uses(frames, leaked) /\ frames' \in Seq(Frames)
  BY <1>1, UsesOfEmpty, PushIs DEF EntersWith, Same
<1>3. Held(frames') = Held(frames)
  BY <1>1, HeldPush DEF EntersWith
<1>4. HandOf(control) = {} /\ HandOf(control') = {}
  BY NothingInHand DEF Evaluates
<1>5. Hands(control, frames) \cup orphans \subseteq Hands(control', frames') \cup orphans' \cup {Nil}
  BY <1>3, <1>4 DEF Hands, Same
<1>6. HandOf(control') \cap H.temps = {} /\ AllAlive(heap, HandOf(control'))
  BY <1>4 DEF AllAlive
<1>7. Keep
  BY DEF Same
<1>8. Course(H) /\ Tended
  BY <1>2, <1>5, <1>6, <1>7, KeepGoes
<1> QED BY <1>1, <1>2, <1>8 DEF Same

LEMMA EmptyLists ==
  ASSUME NEW f, f.at \notin {"block", "arguments", "body"}
  PROVE  Lists(f) = <<>>
BY DEF Lists

LEMMA EvaluatesAs ==
  ASSUME TypeOK, Evaluates
  PROVE  control.gra \in Wanted /\ control.force \in BOOLEAN
BY ControlsAre DEF TypeOK, Evaluates

LEMMA BlockGoes ==
  ASSUME TypeOK, Block, NEW H, Ready(H)
  PROVE  Course(H) /\ Tended /\ Shape'
<1> DEFINE f == BlockFrame(control.gra, control.force)
<1>1. control.gra \in Wanted /\ control.force \in BOOLEAN /\ Len(stack) \in Nat
  BY EvaluatesAs DEF Block, TypeOK, Stacks
<1>2. f \in BlockFrames /\ f.at = "block" /\ f.items = <<>>
  BY <1>1 DEF BlockFrames, BlockFrame
<1>3. Lists(f) = <<>> /\ HeldBy(f) = {}
  BY <1>2, HoldsNothing DEF Lists
<1>4. f \in Frames
  BY <1>2 DEF Frames
<1> HIDE DEF f
<1>5. EntersWith(f) /\ Same /\ Evaluates /\ control' = control
  BY <1>3, <1>4 DEF Block, EntersWith, Same, f, NoLoss
<1>6. control'.do = "evaluate"
  BY <1>5 DEF Evaluates
<1>7. Course(H) /\ Tended /\ frames' \in Seq(Frames) /\ leaked' \in Seq(Objects) /\ orphans' \subseteq Objects
  BY <1>5, <1>6, EntersGoes
<1>8. level' \in Int /\ control' \in Controls
  BY <1>5 DEF Block, TypeOK
<1> QED BY <1>7, <1>8 DEF Shape

LEMMA TypedFrameIs ==
  ASSUME TypeOK, Evaluates, NEW kind \in Kinds
  PROVE  /\ TypedFrame(kind) \in Frames /\ Lists(TypedFrame(kind)) = <<>> /\ HeldBy(TypedFrame(kind)) = {}
<1>1. control.gra \in Wanted /\ control.force \in BOOLEAN /\ kind \in Wanted
  BY EvaluatesAs, ControlsAre
<1>2. IsStatement \in BOOLEAN
  BY DEF IsStatement
<1>3. TypedFrame(kind) \in TypedFrames /\ TypedFrame(kind).at = "typed"
  BY <1>1, <1>2 DEF TypedFrames, TypedFrame
<1> QED BY <1>3, EmptyLists, HoldsNothing DEF Frames

LEMMA TypedGoes ==
  ASSUME TypeOK, NEW kind \in Kinds, Typed(kind), NEW H, Ready(H)
  PROVE  Course(H) /\ Tended /\ Shape'
<1>1. EntersWith(TypedFrame(kind)) /\ Same /\ Evaluates /\ control' = Evaluate(kind, FALSE)
  BY TypedFrameIs DEF Typed, EntersWith, Same, NoLoss
<1>2. control'.do = "evaluate" /\ control' \in Controls
  BY <1>1, EvaluateIs, ControlsAre
<1>3. Course(H) /\ Tended /\ frames' \in Seq(Frames) /\ leaked' \in Seq(Objects) /\ orphans' \subseteq Objects
  BY <1>1, <1>2, EntersGoes
<1>4. level' \in Int
  BY DEF Typed, TypeOK
<1> QED BY <1>2, <1>3, <1>4 DEF Shape

LEMMA ElementGoes ==
  ASSUME TypeOK, Element, NEW H, Ready(H)
  PROVE  Course(H) /\ Tended /\ Shape'
<1> DEFINE f == [at |-> "set", gra |-> control.gra]
<1>1. f \in SetFrames /\ f.at = "set"
  BY EvaluatesAs DEF Element, SetFrames
<1> HIDE DEF f
<1>2. f \in Frames /\ Lists(f) = <<>> /\ HeldBy(f) = {}
  BY <1>1, EmptyLists, HoldsNothing DEF Frames
<1>3. EntersWith(f) /\ Same /\ Evaluates /\ control' = Evaluate("Set", TRUE)
  BY <1>2 DEF Element, EntersWith, Same, f, NoLoss
<1>4. control'.do = "evaluate" /\ control' \in Controls
  BY <1>3, EvaluateIs, ControlsAre
<1>5. Course(H) /\ Tended /\ frames' \in Seq(Frames) /\ leaked' \in Seq(Objects) /\ orphans' \subseteq Objects
  BY <1>3, <1>4, EntersGoes
<1>6. level' \in Int
  BY DEF Element, TypeOK
<1> QED BY <1>4, <1>5, <1>6 DEF Shape

LEMMA CallGoes ==
  ASSUME TypeOK, NEW op \in Operators, Call(op), NEW H, Ready(H)
  PROVE  Course(H) /\ Tended /\ Shape'
<1> DEFINE f == [at |-> "arguments", op |-> op, args |-> <<>>]
<1>1. IsUser(op) => 0 < Len(op.params) /\ 1 <= Len(op.params)
  <2>1. IsUser(op) => op.params \in Seq([name : Names, gra : Grammars]) /\ op.params # <<>>
    BY OperatorsAre
  <2> QED BY <2>1
<1>2. f \in ArgumentFrames /\ f.at = "arguments" /\ f.args = <<>>
  BY <1>1 DEF ArgumentFrames
<1> HIDE DEF f
<1>3. f \in Frames /\ Lists(f) = <<>> /\ HeldBy(f) = {}
  BY <1>2, HoldsNothing DEF Frames, Lists
<1>4. EntersWith(f) /\ Same /\ Evaluates /\ control' = Evaluate(ArgumentGrammar(op, 1), TRUE)
  BY <1>3 DEF Call, EntersWith, Same, f, NoLoss
<1>5. ArgumentGrammar(op, 1) \in Wanted
  BY <1>1, ArgumentGrammarIs, ControlsAre
<1>6. control'.do = "evaluate" /\ control' \in Controls
  BY <1>4, <1>5, EvaluateIs, ControlsAre
<1>7. Course(H) /\ Tended /\ frames' \in Seq(Frames) /\ leaked' \in Seq(Objects) /\ orphans' \subseteq Objects
  BY <1>4, <1>6, EntersGoes
<1>8. level' \in Int
  BY DEF Call, TypeOK
<1> QED BY <1>6, <1>7, <1>8 DEF Shape

LEMMA TwoInFront ==
  ASSUME NEW S, NEW x \in S, NEW y \in S, NEW s \in Seq(S)
  PROVE  <<x, y>> \o s = <<x>> \o (<<y>> \o s)
<1> DEFINE a == <<x, y>> \o s
           r == <<y>> \o s
           b == <<x>> \o r
<1>1. a \in Seq(S) /\ Len(a) = Len(s) + 2 /\ Len(s) \in Nat /\ a[1] = x /\ a[2] = y
  OBVIOUS
<1>2. \A i \in 1 .. Len(s) : a[i + 2] = s[i]
  OBVIOUS
<1>3. r \in Seq(S) /\ Len(r) = Len(s) + 1 /\ r[1] = y /\ \A i \in 1 .. Len(s) : r[i + 1] = s[i]
  OBVIOUS
<1> HIDE DEF r, a
<1>4. b \in Seq(S) /\ Len(b) = Len(r) + 1 /\ b[1] = x /\ \A i \in 1 .. Len(r) : b[i + 1] = r[i]
  BY <1>3
<1> HIDE DEF b
<1>5. ASSUME NEW i \in 1 .. Len(s) + 2 PROVE a[i] = b[i]
  <2>1. CASE i \in {1, 2}
    <3>1. 1 \in 1 .. Len(r)
      BY <1>1, <1>3
    <3>2. b[1 + 1] = r[1]
      BY <1>4, <3>1
    <3> QED BY <1>1, <1>3, <1>4, <2>1, <3>2
  <2>2. CASE i \notin {1, 2}
    <3>1. i - 2 \in 1 .. Len(s) /\ i - 1 \in 1 .. Len(r) /\ (i - 2) + 2 = i /\ (i - 2) + 1 = i - 1 /\ (i - 1) + 1 = i
      BY <1>1, <1>3, <2>2
    <3>2. a[(i - 2) + 2] = s[i - 2] /\ r[(i - 2) + 1] = s[i - 2] /\ b[(i - 1) + 1] = r[i - 1]
      BY <1>2, <1>3, <1>4, <3>1
    <3> QED BY <3>1, <3>2
  <2> QED BY <2>1, <2>2
<1>6. Len(b) = Len(s) + 2
  BY <1>1, <1>3, <1>4
<1>7. DOMAIN a = 1 .. Len(s) + 2 /\ DOMAIN b = 1 .. Len(s) + 2 /\ a = [i \in DOMAIN a |-> a[i]] /\ b = [i \in DOMAIN b |-> b[i]]
  BY <1>1, <1>4, <1>6
<1>8. a = b
  BY <1>5, <1>7
<1> QED BY <1>8 DEF a, b, r

LEMMA DeclareGoes ==
  ASSUME TypeOK, NEW kind \in Kinds, NEW name \in Names, Declare(kind, name), NEW H, Ready(H)
  PROVE  Course(H) /\ Tended /\ Shape'
<1> DEFINE d == [at |-> "declare", name |-> name]
           f == TypedFrame(kind)
<1>1. d \in DeclareFrames /\ d.at = "declare"
  BY DEF DeclareFrames
<1>2. frames \in Seq(Frames) /\ leaked \in Seq(Objects) /\ orphans \subseteq Objects /\ level \in Int
  BY DEF TypeOK
<1>3. /\ Evaluates /\ Keep /\ leaked' = leaked /\ orphans' = orphans /\ level' = level
      /\ frames' = <<d, f>> \o frames /\ control' = Evaluate(kind, TRUE)
  BY DEF Declare, NoLoss
<1> HIDE DEF d
<1>4. d \in Frames /\ Lists(d) = <<>> /\ HeldBy(d) = {}
  BY <1>1, EmptyLists, HoldsNothing DEF Frames
<1>5. f \in Frames /\ Lists(f) = <<>> /\ HeldBy(f) = {}
  BY <1>3, TypedFrameIs
<1> HIDE DEF f
<1>6. frames' = <<d>> \o (<<f>> \o frames)
  <2>1. <<d, f>> \o frames = <<d>> \o (<<f>> \o frames)
    BY <1>2, <1>4, <1>5, TwoInFront
  <2> QED BY <1>3, <2>1
<1> DEFINE fs == <<f>> \o frames
<1>7. fs \in Seq(Frames) /\ Uses(fs, leaked) = Uses(frames, leaked) /\ Held(fs) = Held(frames)
  BY <1>2, <1>5, PushIs, UsesOfEmpty, HeldPush
<1> HIDE DEF fs
<1>8. frames' = <<d>> \o fs
  BY <1>6 DEF fs
<1>9. frames' \in Seq(Frames) /\ Uses(frames', leaked) = Uses(frames, leaked) /\ Held(frames') = Held(frames)
  BY <1>2, <1>4, <1>7, <1>8, PushIs, UsesOfEmpty, HeldPush
<1>10. control'.do = "evaluate" /\ control' \in Controls
  BY <1>3, EvaluateIs, ControlsAre
<1>11. HandOf(control) = {} /\ HandOf(control') = {}
  BY <1>3, <1>10, NothingInHand DEF Evaluates
<1>12. Hands(control, frames) \cup orphans \subseteq Hands(control', frames') \cup orphans' \cup {Nil}
  BY <1>3, <1>9, <1>11 DEF Hands
<1>13. HandOf(control') \cap H.temps = {} /\ AllAlive(heap, HandOf(control'))
  BY <1>11 DEF AllAlive
<1>14. Uses(frames', leaked') = Uses(frames, leaked)
  BY <1>3, <1>9
<1>15. Course(H) /\ Tended
  BY <1>3, <1>12, <1>13, <1>14, KeepGoes
<1> QED BY <1>2, <1>3, <1>9, <1>10, <1>15 DEF Shape

\* What comes back at once, from a variable: its object or none.
LEMMA ReturnsAtOnce ==
  ASSUME TypeOK, Same, Evaluates, NEW o, control' = Return(o), frames' = frames,
         NEW H, Ready(H), o \notin H.temps, Whole => Alive(heap, o)
  PROVE  Course(H) /\ Tended
<1>1. HandOf(control) = {} /\ HandOf(control') = {o}
  BY NothingInHand, ReturnIs DEF Evaluates
<1>2. Hands(control, frames) \cup orphans \subseteq Hands(control', frames') \cup orphans' \cup {Nil}
  BY <1>1 DEF Hands, Same
<1>3. HandOf(control') \cap H.temps = {} /\ (Whole => AllAlive(heap, HandOf(control')))
  BY <1>1 DEF AllAlive
<1>4. Keep /\ Uses(frames', leaked') = Uses(frames, leaked)
  BY DEF Same
<1> QED BY <1>2, <1>3, <1>4, KeepGoes

LEMMA OperandGoes ==
  ASSUME TypeOK, NEW name \in Names, Operand(name), NEW H, Ready(H)
  PROVE  Course(H) /\ Tended /\ Shape'
<1> DEFINE o == FindOperand(control.gra, name)
<1>1. Same /\ Evaluates /\ control' = Return(o) /\ frames' = frames
  BY DEF Operand, Same, NoLoss
<1>2. MemFine(Memory, Uses(frames, leaked), H)
  BY DEF Ready
<1>3. o \in Objects \cup {Nil} /\ o \notin H.temps /\ (Whole => Alive(heap, o))
  BY <1>2, OperandIsAlive
<1> HIDE DEF o
<1>4. Course(H) /\ Tended
  BY <1>1, <1>3, ReturnsAtOnce
<1>5. control' \in Controls /\ level' = level
  BY <1>1, <1>3, ControlsAre DEF Operand
<1> QED BY <1>1, <1>4, <1>5 DEF Shape, TypeOK, Same

LEMMA NilIsNone ==
  ASSUME NEW h, NEW B, NEW H, Fine(h, B, H)
  PROVE  Nil \notin H.temps /\ Nil \notin H.kept
BY HoldsFields, ObjectsFinite

LEMMA AssignGoes ==
  ASSUME TypeOK, NEW name \in Names, Assign(name), NEW H, Ready(H)
  PROVE  Course(H) /\ Tended /\ Shape'
<1> DEFINE o == FindOperand(control.gra, name)
           f == [at |-> "value", target |-> o]
<1>1. Same /\ Evaluates /\ level' = level
  BY DEF Assign, Same, NoLoss
<1>2. MemFine(Memory, Uses(frames, leaked), H)
  BY DEF Ready
<1>3. o \in Objects \cup {Nil} /\ o \notin H.temps
  BY <1>2, OperandIsAlive
<1>4. frames \in Seq(Frames) /\ leaked \in Seq(Objects) /\ orphans \subseteq Objects /\ level \in Int /\ heap \in Heaps
  BY DEF TypeOK
<1>5. CASE o = Nil
  <2>1. control' = Return(Nil) /\ frames' = frames
    BY <1>5 DEF Assign
  <2>2. Nil \notin H.temps
    BY <1>2, MemFields, NilIsNone
  <2>3. Course(H) /\ Tended
    BY <1>1, <2>1, <2>2, ReturnsAtOnce DEF Alive
  <2>4. control' \in Controls
    BY <2>1, ControlsAre
  <2> QED BY <1>1, <1>4, <2>1, <2>3, <2>4 DEF Shape, Same
<1>6. CASE o # Nil
  <2>1. frames' = <<f>> \o frames /\ control' = Evaluate(heap[o].kind, TRUE)
    BY <1>6 DEF Assign
  <2>2. o \in Objects
    BY <1>3, <1>6
  <2>3. f \in ValueFrames /\ f.at = "value" /\ f.target = o
    BY <2>2 DEF ValueFrames
  <2> HIDE DEF f, o
  <2>4. f \in Frames /\ Lists(f) = <<>> /\ HeldBy(f) = {o}
    BY <2>3, EmptyLists DEF Frames, HeldBy
  <2>5. frames' \in Seq(Frames) /\ Uses(frames', leaked) = Uses(frames, leaked) /\ Held(frames') = {o} \cup Held(frames)
    BY <1>4, <2>1, <2>4, PushIs, UsesOfEmpty, HeldPush
  <2>6. control'.do = "evaluate"
    BY <2>1, EvaluateIs
  <2>7. HandOf(control) = {} /\ HandOf(control') = {}
    BY <1>1, <2>6, NothingInHand DEF Evaluates
  <2>8. Hands(control, frames) \cup orphans \subseteq Hands(control', frames') \cup orphans' \cup {Nil}
    BY <1>1, <2>5, <2>7 DEF Hands, Same
  <2>9. HandOf(control') \cap H.temps = {} /\ AllAlive(heap, HandOf(control'))
    BY <2>7 DEF AllAlive
  <2>10. Uses(frames', leaked') = Uses(frames, leaked) /\ Keep
    BY <1>1, <2>5 DEF Same
  <2>11. Course(H) /\ Tended
    BY <2>8, <2>9, <2>10, KeepGoes
  <2>12. control' \in Controls
    <3>1. heap[o].kind \in Wanted
      <4>1. heap[o].kind \in Kinds \cup {"None"}
        BY <1>4, <2>2, HeapFields DEF o
      <4> QED BY <4>1, ControlsAre DEF Wanted
    <3> QED BY <2>1, <3>1, ControlsAre
  <2> QED BY <1>1, <1>4, <2>5, <2>11, <2>12 DEF Shape, Same
<1> QED BY <1>5, <1>6

\* What a call that returns leaves: an object, or none.
LEMMA ReturnsWhat ==
  ASSUME TypeOK, NEW at, Returns(at), NEW H, Ready(H)
  PROVE  /\ control.obj \in Objects \cup {Nil} /\ control.obj \notin H.temps /\ HandOf(control) = {control.obj}
         /\ frames # <<>> /\ Top.at = at /\ MemFine(Memory, Uses(frames, leaked), H)
         /\ Top \in Frames /\ Below \in Seq(Frames) /\ frames = <<Top>> \o Below
         /\ Held(frames) = HeldBy(Top) \cup Held(Below)
         /\ Whole => Alive(heap, control.obj)
<1>1. frames # <<>> /\ Top.at = at /\ control.do = "return"
  BY DEF Returns
<1>2. control.obj \in Objects \cup {Nil}
  BY <1>1, ControlsAre DEF TypeOK
<1>3. HandOf(control) = {control.obj}
  BY <1>1 DEF HandOf
<1>4. MemFine(Memory, Uses(frames, leaked), H) /\ control.obj \notin H.temps
  BY <1>3 DEF Ready
<1>5. Top \in Frames /\ Below \in Seq(Frames) /\ frames = <<Top>> \o Below
  BY <1>1, TopIs DEF TypeOK
<1>6. Held(frames) = HeldBy(Top) \cup Held(Below)
  BY <1>5, HeldPush
<1>7. Whole => Alive(heap, control.obj)
  BY <1>3 DEF Whole, AllAlive, Hands
<1> QED BY <1>1, <1>2, <1>3, <1>4, <1>5, <1>6, <1>7

LEMMA EvaluateIndexGoes ==
  ASSUME TypeOK, EvaluateIndex, NEW H, Ready(H)
  PROVE  Course(H) /\ Tended /\ Shape'
<1> DEFINE o == control.obj
           f == [at |-> "index", gra |-> Top.gra, set |-> o, count |-> Cardinality(Live(heap))]
<1>1. Returns("set") /\ Same /\ level' = level
  BY DEF EvaluateIndex, Same, NoLoss
<1>2. /\ o \in Objects \cup {Nil} /\ o \notin H.temps /\ HandOf(control) = {o} /\ Top.at = "set"
      /\ Top \in Frames /\ Below \in Seq(Frames) /\ frames = <<Top>> \o Below
      /\ Held(frames) = HeldBy(Top) \cup Held(Below) /\ (Whole => Alive(heap, o))
  BY <1>1, ReturnsWhat
<1>3. leaked \in Seq(Objects) /\ orphans \subseteq Objects /\ level \in Int /\ heap \in Heaps /\ control \in Controls
  BY DEF TypeOK
<1>4. Lists(Top) = <<>> /\ HeldBy(Top) = {} /\ Held(frames) = Held(Below)
  BY <1>2, EmptyLists, HoldsNothing
<1>5. Uses(frames, leaked) = Uses(Below, leaked)
  BY <1>2, <1>3, <1>4, UsesOfEmpty
<1>6. Keep
  BY <1>1 DEF Same
<1>7. CASE o = Nil
  <2>1. frames' = Below /\ control' = control
    BY <1>7 DEF EvaluateIndex
  <2>2. Hands(control, frames) \cup orphans \subseteq Hands(control', frames') \cup orphans' \cup {Nil}
    BY <1>1, <1>4, <2>1 DEF Hands, Same
  <2>3. HandOf(control') \cap H.temps = {} /\ (Whole => AllAlive(heap, HandOf(control')))
    BY <1>2, <2>1 DEF AllAlive
  <2>4. Uses(frames', leaked') = Uses(frames, leaked)
    BY <1>1, <1>5, <2>1 DEF Same
  <2>5. Course(H) /\ Tended
    BY <1>6, <2>2, <2>3, <2>4, KeepGoes
  <2> QED BY <1>1, <1>2, <1>3, <2>1, <2>5 DEF Shape, Same
<1>8. CASE o # Nil
  <2>1. frames' = <<f>> \o Below /\ control' = Evaluate("Real", TRUE)
    BY <1>8 DEF EvaluateIndex
  <2>2. o \in Objects /\ Top \in SetFrames
    BY <1>2, <1>8, FrameKinds
  <2>3. Cardinality(Live(heap)) \in Nat
    <3>1. Live(heap) \subseteq Objects
      BY DEF Live
    <3> QED BY <3>1, ObjectsFinite, FS_Subset, FS_CardinalityType
  <2>4. f \in IndexFrames /\ f.at = "index" /\ f.set = o
    BY <2>2, <2>3 DEF IndexFrames, SetFrames
  <2> HIDE DEF f, o
  <2>5. f \in Frames /\ Lists(f) = <<>> /\ HeldBy(f) = {o}
    BY <2>4, EmptyLists DEF Frames, HeldBy
  <2>6. frames' \in Seq(Frames) /\ Uses(frames', leaked) = Uses(Below, leaked) /\ Held(frames') = {o} \cup Held(Below)
    BY <1>2, <1>3, <2>1, <2>5, PushIs, UsesOfEmpty, HeldPush
  <2>7. control'.do = "evaluate" /\ control' \in Controls
    BY <2>1, EvaluateIs, ControlsAre
  <2>8. HandOf(control') = {}
    BY <2>7, NothingInHand
  <2>9. Hands(control, frames) \cup orphans \subseteq Hands(control', frames') \cup orphans' \cup {Nil}
    BY <1>1, <1>2, <1>4, <2>6, <2>8 DEF Hands, Same
  <2>10. HandOf(control') \cap H.temps = {} /\ AllAlive(heap, HandOf(control'))
    BY <2>8 DEF AllAlive
  <2>11. Uses(frames', leaked') = Uses(frames, leaked)
    BY <1>1, <1>5, <2>6 DEF Same
  <2>12. Course(H) /\ Tended
    BY <1>6, <2>9, <2>10, <2>11, KeepGoes
  <2> QED BY <1>1, <1>3, <2>6, <2>7, <2>12 DEF Shape, Same
<1> QED BY <1>7, <1>8

-----------------------------------------------------------------------------
\* Blocks, and numbers

LEMMA OrderIs ==
  ASSUME NEW s \in Seq(Objects), NEW order \in Orders(s)
  PROVE  order \in Seq(Objects) /\ \A o : Occurrences(o, order) = Occurrences(o, s)
<1>1. PICK p \in Bijection(DOMAIN s, DOMAIN s) : order = [i \in DOMAIN s |-> s[p[i]]]
  BY DEF Orders
<1>2. DOMAIN s = 1 .. Len(s) /\ Len(s) \in Nat /\ \A i \in 1 .. Len(s) : s[i] \in Objects
  OBVIOUS
<1>3. /\ p \in [1 .. Len(s) -> 1 .. Len(s)]
      /\ \A i, j \in 1 .. Len(s) : p[i] = p[j] => i = j
      /\ \A j \in 1 .. Len(s) : \E i \in 1 .. Len(s) : p[i] = j
  <2> DEFINE D == 1 .. Len(s)
  <2>1. p \in Bijection(D, D)
    BY <1>1, <1>2
  <2> HIDE DEF D
  <2>2. p \in [D -> D] /\ (\A i, j \in D : p[i] = p[j] => i = j) /\ \A j \in D : \E i \in D : p[i] = j
    BY <2>1 DEF Bijection, Injection, Surjection, IsInjective
  <2> QED BY <2>2 DEF D
<1>4. order = [i \in 1 .. Len(s) |-> s[p[i]]]
  BY <1>1, <1>2
<1>5. order \in Seq(Objects)
  BY <1>2, <1>3, <1>4
<1>6. \A i \in 1 .. Len(s) : order[i] = s[p[i]]
  BY <1>4
<1>7. DOMAIN order = 1 .. Len(s)
  BY <1>4
<1>8. ASSUME NEW o PROVE Occurrences(o, order) = Occurrences(o, s)
  <2> DEFINE P == Places(o, order)
             Q == Places(o, s)
             f == [i \in P |-> p[i]]
  <2>1. /\ \A i : i \in P <=> i \in 1 .. Len(s) /\ order[i] = o
        /\ \A i : i \in Q <=> i \in 1 .. Len(s) /\ s[i] = o
    BY <1>2, <1>7 DEF Places
  <2> HIDE DEF P, Q
  <2>2. f \in Bijection(P, Q)
    <3>1. \A i \in P : f[i] = p[i] /\ f[i] \in Q
      BY <1>3, <1>6, <2>1
    <3>2. \A i, j \in P : f[i] = f[j] => i = j
      BY <1>3, <2>1, <3>1
    <3>3. \A j \in Q : \E i \in P : f[i] = j
      BY <1>3, <1>6, <2>1, <3>1
    <3>4. f \in [P -> Q]
      BY <3>1
    <3> HIDE DEF f
    <3> QED BY <3>2, <3>3, <3>4 DEF Bijection, Injection, Surjection, IsInjective
  <2> HIDE DEF f
  <2>3. ExistsBijection(P, Q)
    BY <2>2 DEF ExistsBijection
  <2>4. IsFiniteSet(P) /\ Occurrences(o, order) = Cardinality(P) /\ Occurrences(o, s) = Cardinality(Q)
    BY <1>5, PlacesFinite DEF P, Q
  <2> QED BY <2>3, <2>4, FS_Bijection, FS_SameCardinalityBij
<1> QED BY <1>5, <1>8

LEMMA LevelsKept ==
  ASSUME NEW h, NEW g, NEW B, NEW H, Fine(g, B, H), Shrunk(h, g)
  PROVE  \A o \in H.kept : g[o].level = h[o].level
BY HeldIsSame DEF SameBut

\* A step that changes the memory and returns.
LEMMA ReturnGoes ==
  ASSUME NEW H, MemFine(NextMemory, Uses(frames', leaked'), H),
         \A o \in H.kept : heap'[o].level = heap[o].level,
         NEW r, control' = Return(r), r \notin H.temps,
         Whole => Tidy(heap') /\ Alive(heap', r) /\ (Ranked(heap) => Ranked(heap')),
         Whole /\ Tracked(heap, control, frames, orphans) => Loose(heap') \subseteq {r} \cup Held(frames') \cup orphans'
  PROVE  Course(H) /\ Tended
<1>1. HandOf(control') = {r}
  BY ReturnIs
<1>2. Course(H)
  BY <1>1 DEF Course
<1> QED BY <1>1, <1>2 DEF Tended, Tracked, Hands, AllAlive

LEMMA ConstantGoes ==
  ASSUME TypeOK, Constant, NEW H, Ready(H)
  PROVE  Course(H) /\ Tended /\ Shape'
<1> DEFINE n == New(Memory, "Real", FALSE, NoName, level, <<>>, NoName)
           o == NextObject(heap)
           rec == Made("Real", FALSE, NoName, level, <<>>)
           U == Uses(frames, leaked)
<1>1. /\ Evaluates /\ Room(heap, 1) /\ heap' = n.heap /\ stack' = n.stack /\ control' = Return(o)
      /\ frames' = frames /\ leaked' = leaked /\ orphans' = orphans /\ level' = level
  BY DEF Constant, Leaves, NoLoss
<1>2. MemFine(Memory, U, H) /\ level \in Int /\ Memory.heap = heap /\ Memory.stack = stack
  BY MemoryIs DEF Ready, TypeOK
<1>3. "Real" \in Kinds \cup {"None"} /\ FALSE \in BOOLEAN /\ IsType("Real", FALSE) /\ NoName \in Names \cup {NoName}
      /\ <<>> \in Seq(Objects) /\ NoneOf(H.temps, <<>>) /\ Room(Memory.heap, 1) /\ o = NextObject(Memory.heap)
  BY <1>1, <1>2 DEF Kinds, IsType, NoneOf
<1>4. IsPlaced(Memory, n, U, H, o, rec, NoName)
  <2> HIDE DEF U
  <2> QED BY <1>2, <1>3, NewIsFine
<1>5. rec.kind = "Real" /\ rec.alias = FALSE /\ rec.refs = <<>>
  BY DEF Made
<1> HIDE DEF n, o, rec, U
<1>6. /\ MemFine(n, U, H) /\ IsNew(heap, n.heap, o, rec) /\ o \notin H.temps /\ o \notin H.kept
  BY <1>2, <1>4 DEF IsPlaced
<1>7. MemFine(NextMemory, Uses(frames', leaked'), H)
  <2>1. n = [heap |-> n.heap, stack |-> n.stack]
    BY <1>6, MemFields
  <2>2. NextMemory = n
    BY <1>1, <2>1 DEF NextMemory
  <2> QED BY <1>1, <1>6, <2>2 DEF U
<1>8. /\ o \in Objects /\ heap[o] = Free /\ SameBut(rec, heap'[o])
      /\ \A p \in Objects : p # o => SameBut(heap[p], heap'[p])
      /\ \A p \in Loose(heap') : p = o \/ p \in Loose(heap)
      /\ Tidy(heap) => Tidy(heap')
  BY <1>1, <1>5, <1>6 DEF IsNew
<1>9. \A p \in H.kept : heap'[p].level = heap[p].level
  <2>1. H.kept \subseteq Objects
    BY <1>2, MemFields, HoldsFields
  <2> QED BY <1>6, <1>8, <2>1 DEF SameBut
<1>10. IsMade(heap', o) /\ heap'[o].refs = <<>>
  BY <1>5, <1>8 DEF SameBut, IsMade, IsType
<1>11. Ranked(heap) => Ranked(heap')
  <2>1. Grows(heap, heap', o)
    BY <1>8 DEF Grows
  <2>2. ~Refers(heap', o, o)
    BY <1>10 DEF Refers
  <2>3. heap' \in Heaps /\ Fine(heap, With(U, Objs(stack)), H)
    BY <1>1, <1>2, <1>6, MemFields
  <2> QED BY <2>1, <2>2, <2>3, RankedGrows
<1>12. HandOf(control) = {}
  BY <1>1, NothingInHand DEF Evaluates
<1>13. Course(H) /\ Tended
  <2>1. Whole => Tidy(heap') /\ Alive(heap', o) /\ (Ranked(heap) => Ranked(heap'))
    BY <1>8, <1>10, <1>11 DEF Whole, Alive
  <2>2. Tracked(heap, control, frames, orphans) => Loose(heap') \subseteq {o} \cup Held(frames') \cup orphans'
    BY <1>1, <1>8, <1>12 DEF Tracked, Hands
  <2> QED BY <1>1, <1>6, <1>7, <1>9, <2>1, <2>2, ReturnGoes
<1>14. control' \in Controls
  BY <1>1, <1>8, ControlsAre
<1> QED BY <1>1, <1>13, <1>14 DEF Shape, TypeOK

LEMMA NextStatementGoes ==
  ASSUME TypeOK, NextStatement, NEW H, Ready(H)
  PROVE  Course(H) /\ Tended /\ Shape'
<1> DEFINE o == control.obj
           h == Pinned(heap, Top.items, o)
           f == [Top EXCEPT !.items = AddItem(Top.items, o)]
           B == With(Others, Objs(stack))
<1>1. /\ Returns("block") /\ heap' = h /\ frames' = <<f>> \o Below /\ control' = Evaluate(Top.gra, Top.force)
      /\ stack' = stack /\ level' = level /\ leaked' = leaked /\ orphans' = orphans
  BY DEF NextStatement, NoLoss
<1>2. /\ o \in Objects \cup {Nil} /\ o \notin H.temps /\ HandOf(control) = {o} /\ Top.at = "block"
      /\ frames # <<>> /\ MemFine(Memory, Uses(frames, leaked), H)
      /\ Top \in Frames /\ Below \in Seq(Frames) /\ Held(frames) = HeldBy(Top) \cup Held(Below)
      /\ (Whole => Alive(heap, o))
  BY <1>1, ReturnsWhat
<1>3. level \in Int /\ stack \in Stacks /\ leaked \in Seq(Objects) /\ orphans \subseteq Objects
  BY DEF TypeOK
<1>4. Top \in BlockFrames
  BY <1>2, FrameKinds
<1>5. Top.items \in Seq(Objects) /\ Top.gra \in Wanted /\ Top.force \in BOOLEAN /\ Lists(Top) = Top.items
  BY <1>2, <1>4, ListsAre DEF BlockFrames
<1>6. AddItem(Top.items, o) \in Seq(Objects)
  BY <1>2, <1>5, AddItemIs
<1>7. f \in BlockFrames /\ f.at = "block" /\ f.items = AddItem(Top.items, o)
  BY <1>4, <1>6 DEF BlockFrames
<1>8. f \in Frames /\ Lists(f) = AddItem(Top.items, o)
  BY <1>7, ListsAre DEF Frames
<1>9. B \in Bags /\ Fine(heap, With(B, Top.items), H)
  BY <1>2, <1>5, TopUses
<1> HIDE DEF B
<1>10. /\ Fine(h, With(B, AddItem(Top.items, o)), H) /\ Shrunk(heap, h)
       /\ Tidy(heap) /\ Alive(heap, o) => Tidy(h)
       /\ Loose(h) \subseteq Loose(heap) \ {o}
  BY <1>2, <1>5, <1>9, PinnedIsFine
<1> HIDE DEF f, h, o
<1>11. MemFine(NextMemory, Uses(frames', leaked'), H)
  <2>1. Fine(h, With(With(Uses(Below, leaked), Objs(stack)), Lists(f)), H)
    BY <1>8, <1>10 DEF B, Others
  <2>2. MemFine([heap |-> h, stack |-> stack], Uses(<<f>> \o Below, leaked), H)
    BY <1>2, <1>3, <1>8, <2>1, LeftWithList
  <2> QED BY <1>1, <2>2 DEF NextMemory
<1>12. \A p \in H.kept : heap'[p].level = heap[p].level
  BY <1>1, <1>10, LevelsKept
<1>13. control'.do = "evaluate" /\ control' \in Controls /\ HandOf(control') = {}
  BY <1>1, <1>5, EvaluateIs, ControlsAre, NothingInHand
<1>14. Course(H)
  BY <1>11, <1>12, <1>13 DEF Course
<1>15. frames' \in Seq(Frames) /\ Held(frames') = HeldBy(f) \cup Held(Below)
  BY <1>1, <1>2, <1>8, PushIs, HeldPush
<1>16. HeldBy(f) = {} /\ HeldBy(Top) = {}
  BY <1>2, <1>7, HoldsNothing
<1>17. Whole => Tidy(heap') /\ (Ranked(heap) => Ranked(heap'))
  BY <1>1, <1>2, <1>10, RankedShrinks DEF Whole
<1>18. Tracked(heap, control, frames, orphans) => Tracked(heap', control', frames', orphans')
  BY <1>1, <1>2, <1>10, <1>13, <1>15, <1>16 DEF Tracked, Hands
<1>19. Tended
  BY <1>13, <1>17, <1>18 DEF Tended, AllAlive
<1> QED BY <1>1, <1>3, <1>13, <1>14, <1>15, <1>19 DEF Shape

\* A bag that holds what is left of the stack holds the whole stack.
LEMMA WithinCut ==
  ASSUME NEW B \in Bags, NEW H \in Holds, NEW st \in Stacks, NEW k \in Nat, Within(H, With(B, Objs(Cut(st, k))))
  PROVE  Within(H, With(B, Objs(st)))
<1>1. Len(st) \in Nat
  BY DEF Stacks
<1>2. CASE Len(st) <= k
  BY <1>2 DEF Cut
<1>3. CASE ~(Len(st) <= k)
  <2>1. k \in 0 .. Len(st) /\ Len(st) \in 0 .. Len(st) /\ Cut(st, k) = Prefix(st, k)
    BY <1>1, <1>3 DEF Cut
  <2>2. Within(H, With(B, Objs(Prefix(st, Len(st)))))
    BY <2>1, PrefixGrows
  <2> QED BY <2>2, PrefixOfAll
<1> QED BY <1>2, <1>3

LEMMA BlockEndsGoes ==
  ASSUME TypeOK, BlockEnds, NEW H, Ready(H), Within(H, With(Others, Objs(Cut(stack, Top.pos))))
  PROVE  Course(H) /\ Shape' /\ stack' = Cut(stack, Top.pos)
         /\ ((Whole => Alive(heap', control'.obj)) => Tended)
<1> DEFINE o == control.obj
           items == AddItem(Top.items, o)
           B == With(Others, Objs(stack))
<1>1. /\ Returns("block") /\ frames' = Below /\ level' = level - 1 /\ leaked' = leaked /\ orphans' = orphans
  BY DEF BlockEnds, NoLoss
<1>2. /\ o \in Objects \cup {Nil} /\ o \notin H.temps /\ HandOf(control) = {o} /\ Top.at = "block"
      /\ frames # <<>> /\ MemFine(Memory, Uses(frames, leaked), H)
      /\ Top \in Frames /\ Below \in Seq(Frames) /\ Held(frames) = HeldBy(Top) \cup Held(Below)
      /\ (Whole => Alive(heap, o))
  BY <1>1, ReturnsWhat
<1>3. level \in Int /\ stack \in Stacks /\ leaked \in Seq(Objects) /\ orphans \subseteq Objects
  BY DEF TypeOK
<1>4. Top \in BlockFrames
  BY <1>2, FrameKinds
<1>5. Top.items \in Seq(Objects) /\ Lists(Top) = Top.items /\ Top.pos \in Nat /\ HeldBy(Top) = {}
  BY <1>2, <1>4, ListsAre, HoldsNothing DEF BlockFrames
<1>6. /\ B \in Bags /\ Others \in Bags /\ H \in Holds /\ Fine(heap, With(B, Top.items), H)
      /\ Objs(stack) \in Seq(Objects)
  BY <1>2, <1>5, TopUses
<1>7. Within(H, B)
  BY <1>3, <1>5, <1>6, WithinCut
<1>8. items \in Seq(Objects)
  BY <1>2, <1>5, AddItemIs
<1> DEFINE h1 == Pinned(heap, Top.items, o)
<1>9. PICK order \in Orders(items) :
        LET h == Unpinned(h1, order, o)
            result == Cast(h, o, Top.gra, Top.force)
            m == [heap |-> DestroyMisfit(h, o, Top.gra, Top.force), stack |-> stack]
        IN  Leaves(EndScope(m, Top.pos, result)) /\ control' = Return(result)
  BY DEF BlockEnds
<1> DEFINE h == Unpinned(h1, order, o)
           r == Cast(h, o, Top.gra, Top.force)
           h2 == DestroyMisfit(h, o, Top.gra, Top.force)
           m == [heap |-> h2, stack |-> stack]
           e == EndScope(m, Top.pos, r)
<1>10. heap' = e.heap /\ stack' = e.stack /\ control' = Return(r)
  BY <1>9 DEF Leaves
<1> HIDE DEF B
<1>11. /\ Fine(h1, With(B, items), H) /\ Shrunk(heap, h1)
       /\ Tidy(heap) /\ Alive(heap, o) => Tidy(h1)
       /\ Loose(h1) \subseteq Loose(heap) \ {o}
  BY <1>2, <1>5, <1>6, PinnedIsFine
<1> HIDE DEF h1
<1>12. order \in Seq(Objects) /\ IsWith(With(B, items), B, order)
  <2>1. order \in Seq(Objects) /\ \A x : Occurrences(x, order) = Occurrences(x, items)
    BY <1>8, <1>9, OrderIs
  <2>2. With(B, items) \in Bags /\ IsWith(With(B, items), B, items)
    BY <1>6, <1>8, WithIsBag
  <2> QED BY <2>1, <2>2 DEF IsWith
<1>13. Fine(h, B, H) /\ Drops(h1, h, o)
  <2> HIDE DEF items, o
  <2> QED BY <1>6, <1>7, <1>11, <1>12, UnpinnedIsFine
<1> HIDE DEF h
<1>14. /\ Fine(h2, B, H) /\ Releases(h, h2) /\ (r # Nil => r = o /\ h2 = h)
       /\ Loose(h2) \subseteq (Loose(h) \ {o}) \cup {r} /\ r \in Objects \cup {Nil}
  BY <1>2, <1>13, MisfitIsFine
<1>15. r \notin H.temps
  BY <1>2, <1>14, NilIsNone
<1> HIDE DEF h2, r
<1>16. MemFine(m, Others, H) /\ m.heap = h2 /\ m.stack = stack
  BY <1>3, <1>6, <1>14, MemIsFine DEF B
<1> HIDE DEF m, e
<1>17. /\ MemFine(e, Others, H) /\ e.stack = Cut(stack, Top.pos) /\ Safe(h2, e.heap, r)
       /\ Loose(e.heap) \subseteq Loose(h2) \cup {r}
  <2>1. Within(H, With(Others, Objs(Cut(m.stack, Top.pos)))) /\ r \in Objects \cup {Nil} /\ MemFine(m, Others, H)
    BY <1>14, <1>16
  <2>2. /\ MemFine(e, Others, H) /\ e.stack = Cut(m.stack, Top.pos) /\ Safe(m.heap, e.heap, r)
        /\ Loose(e.heap) \subseteq Loose(m.heap) \cup {r}
    <3>1. e = EndScope(m, Top.pos, r)
      BY DEF e
    <3>2. MemFine(m, Others, H)
      BY <2>1
    <3>3. r \in Objects \cup {Nil}
      BY <2>1
    <3>4. Top.pos \in Nat
      BY <1>5
    <3>5. Within(H, With(Others, Objs(Cut(m.stack, Top.pos))))
      BY <2>1
    <3> QED BY <1>15, <3>1, <3>2, <3>3, <3>4, <3>5, EndScopeIsFine
  <2> QED BY <1>16, <2>2
<1>18. Shrunk(heap, heap')
  <2>1. Shrunk(h1, h) /\ Shrunk(h, h2) /\ Shrunk(h2, heap')
    BY <1>10, <1>13, <1>14, <1>17 DEF Drops, Orderly, Releases, Safe
  <2>2. Shrunk(heap, h)
    BY <1>11, <2>1, ShrunkAgain
  <2>3. Shrunk(heap, h2)
    BY <2>1, <2>2, ShrunkAgain
  <2> QED BY <2>1, <2>3, ShrunkAgain
<1>19. MemFine(NextMemory, Uses(frames', leaked'), H) /\ stack' = Cut(stack, Top.pos)
  <2>1. e = [heap |-> e.heap, stack |-> e.stack]
    BY <1>17, MemFields
  <2>2. NextMemory = e
    BY <1>10, <2>1 DEF NextMemory
  <2> QED BY <1>1, <1>10, <1>17, <2>2 DEF Others
<1>20. \A p \in H.kept : heap'[p].level = heap[p].level
  <2>1. Fine(heap', With(Others, Objs(e.stack)), H)
    BY <1>10, <1>17, MemFields
  <2> QED BY <1>18, <2>1, LevelsKept
<1>21. HandOf(control') = {r} /\ control'.obj = r /\ control' \in Controls
  BY <1>10, <1>14, ReturnIs, ControlsAre
<1>22. Course(H)
  BY <1>15, <1>19, <1>20, <1>21 DEF Course
<1>23. ASSUME Whole => Alive(heap', control'.obj) PROVE Tended
  <2>1. ASSUME Whole PROVE Tidy(heap')
    <3>1. Tidy(h)
      BY <1>2, <1>11, <1>13, <2>1 DEF Whole, Drops, Orderly
    <3>2. Tidy(h2)
      BY <1>14, <3>1 DEF Releases, Orderly
    <3>3. Alive(h2, r)
      <4>1. Alive(heap', r)
        BY <1>21, <1>23, <2>1
      <4>2. ASSUME r # Nil PROVE IsMade(h2, r)
        <5>1. IsMade(heap', r) /\ r \in Objects
          BY <1>14, <4>1, <4>2 DEF Alive
        <5>2. SameBut(Free, heap'[r]) \/ SameBut(h2[r], heap'[r])
          BY <1>10, <1>17, <5>1 DEF Safe, Shrunk
        <5> QED BY <5>1, <5>2, FreeIsRecord DEF IsMade, IsType, SameBut
      <4> QED BY <4>2 DEF Alive
    <3> QED BY <1>10, <1>17, <3>2, <3>3 DEF Safe
  <2>2. Ranked(heap) => Ranked(heap')
    BY <1>18, RankedShrinks
  <2>3. Tracked(heap, control, frames, orphans) => Loose(heap') \subseteq {r} \cup Held(frames') \cup orphans'
    <3>1. Loose(heap') \subseteq (Loose(heap) \ {o}) \cup {r}
      <4>1. Loose(h) \subseteq (Loose(heap) \ {o}) \cup {o}
        BY <1>11, <1>13 DEF Drops
      <4> QED BY <1>10, <1>14, <1>17, <4>1
    <3> QED BY <1>1, <1>2, <1>5, <3>1 DEF Tracked, Hands
  <2>4. Whole => AllAlive(heap', HandOf(control'))
    BY <1>21, <1>23 DEF AllAlive
  <2> QED BY <1>21, <2>1, <2>2, <2>3, <2>4 DEF Tended, Tracked, Hands
<1>24. level' \in Int /\ frames' \in Seq(Frames)
  BY <1>1, <1>2, <1>3
<1> QED BY <1>1, <1>3, <1>19, <1>21, <1>22, <1>23, <1>24 DEF Shape

-----------------------------------------------------------------------------
\* Declarations

OneMore ==
  \/ stack' = stack
  \/ \E o \in Objects, name \in Names :
       /\ stack' = Append(stack, [obj |-> o, name |-> name])
       /\ heap[o] = Free /\ IsMade(heap', o) /\ heap'[o].level = level

LEMMA GrowsKeeps ==
  ASSUME NEW h, NEW g, NEW o, Grows(h, g, o), NEW B, NEW H, Fine(g, B, H), o \notin H.kept
  PROVE  \A p \in H.kept : g[p].level = h[p].level
<1>1. H.kept \subseteq Objects /\ \A p \in H.kept : IsMade(g, p)
  BY HoldsFields DEF Fine
<1> QED BY <1>1, FreeIsRecord DEF Grows, SameBut, IsMade, IsType

\* What is declared is a new object, that lives as what it was made of did.
LEMMA RenamedLives ==
  ASSUME NEW m, NEW n, NEW o, NEW r, NEW name, NEW lvl, IsRenamed(m, n, o, r, name, lvl),
         NEW A, NEW B, NEW H, MemFine(m, A, H), MemFine(n, B, H),
         Tidy(m.heap), IsMade(m.heap, r)
  PROVE  Tidy(n.heap) /\ IsMade(n.heap, o) /\ (Ranked(m.heap) => Ranked(n.heap))
<1>1. /\ Tidy(n.heap) /\ IsHome(n.heap, o, lvl, r) /\ Grows(m.heap, n.heap, o)
  BY DEF IsRenamed
<1>2. r # o
  BY <1>1, FreeIsRecord DEF Grows, IsMade, IsType
<1>3. ~Refers(n.heap, o, o)
  BY <1>1, <1>2 DEF IsHome, OnlyTo, Refers
<1>4. n.heap \in Heaps /\ Fine(m.heap, With(A, Objs(m.stack)), H)
  BY MemFields
<1>5. Ranked(m.heap) => Ranked(n.heap)
  BY <1>1, <1>3, <1>4, RankedGrows
<1> QED BY <1>1, <1>5 DEF IsHome

LEMMA CreateObjectGoes ==
  ASSUME TypeOK, CreateObject, NEW H, Ready(H)
  PROVE  Course(H) /\ Tended /\ Shape' /\ OneMore
<1> DEFINE right == control.obj
           local == Find(stack, Top.name)
           defined == local # Nil /\ local # right /\ heap[local].level = level
           U == Uses(frames, leaked)
<1>1. /\ Returns("declare") /\ Room(heap, 1) /\ frames' = Below /\ level' = level /\ leaked' = leaked
  BY DEF CreateObject
<1>2. /\ right \in Objects \cup {Nil} /\ right \notin H.temps /\ HandOf(control) = {right} /\ Top.at = "declare"
      /\ MemFine(Memory, Uses(frames, leaked), H)
      /\ Top \in Frames /\ Below \in Seq(Frames) /\ frames = <<Top>> \o Below
      /\ Held(frames) = HeldBy(Top) \cup Held(Below) /\ (Whole => Alive(heap, right))
  BY <1>1, ReturnsWhat
<1>3. leaked \in Seq(Objects) /\ orphans \subseteq Objects /\ level \in Int /\ heap \in Heaps /\ stack \in Stacks
  BY DEF TypeOK
<1>4. Lists(Top) = <<>> /\ HeldBy(Top) = {} /\ Held(frames) = Held(Below)
  BY <1>2, EmptyLists, HoldsNothing
<1>5. U = Uses(frames', leaked')
  BY <1>1, <1>2, <1>3, <1>4, UsesOfEmpty
<1>6. Memory.heap = heap /\ Memory.stack = stack
  BY MemoryIs
<1>7. CASE right = Nil \/ defined \/ local = right
  <2> DEFINE r == IF defined THEN Nil ELSE right
  <2>1. Keep /\ control' = Return(r) /\ orphans' = IF defined THEN orphans \cup Unreferenced(right) ELSE orphans
    BY <1>7 DEF CreateObject
  <2>2. r \in {Nil, right} /\ (~defined => r = right)
    OBVIOUS
  <2> HIDE DEF r, defined
  <2>3. heap' = heap /\ stack' = stack /\ NextMemory = Memory
    BY <2>1 DEF Keep, NextMemory, Memory
  <2>4. MemFine(NextMemory, Uses(frames', leaked'), H) /\ \A p \in H.kept : heap'[p].level = heap[p].level
    BY <1>2, <1>5, <2>3
  <2>5. r \notin H.temps
    BY <1>2, <2>2, MemFields, NilIsNone
  <2>6. Whole => Tidy(heap') /\ Alive(heap', r) /\ (Ranked(heap) => Ranked(heap'))
    BY <1>2, <2>2, <2>3 DEF Whole, Alive
  <2>7. Tracked(heap, control, frames, orphans) => Loose(heap') \subseteq {r} \cup Held(frames') \cup orphans'
    <3>1. ASSUME NEW x \in Loose(heap), x = right PROVE x \in Unreferenced(right)
      BY <3>1, ObjectsFinite DEF Loose, Unreferenced
    <3>2. CASE defined
      <4>1. orphans' = orphans \cup Unreferenced(right)
        BY <2>1, <3>2
      <4> QED BY <1>1, <1>2, <1>4, <2>3, <3>1, <4>1 DEF Tracked, Hands
    <3>3. CASE ~defined
      <4>1. orphans' = orphans /\ r = right
        BY <2>1, <2>2, <3>3
      <4> QED BY <1>1, <1>2, <1>4, <2>3, <4>1 DEF Tracked, Hands
    <3> QED BY <3>2, <3>3
  <2>8. Course(H) /\ Tended
    BY <2>1, <2>4, <2>5, <2>6, <2>7, ReturnGoes
  <2>9. Unreferenced(right) \subseteq Objects
    BY <1>2, UnreferencedIs
  <2>10. control' \in Controls /\ orphans' \subseteq Objects
    <3>1. r \in Objects \cup {Nil}
      BY <1>2, <2>2
    <3> QED BY <1>3, <2>1, <2>9, <3>1, ControlsAre
  <2> QED BY <1>1, <1>2, <1>3, <2>3, <2>8, <2>10 DEF Shape, OneMore
<1>8. CASE ~(right = Nil \/ defined \/ local = right)
  <2> DEFINE o == NextObject(heap)
             n == NewRenamed(Memory, Top.name, right)
             name == Top.name
  <2>1. heap' = n.heap /\ stack' = n.stack /\ control' = Return(o) /\ orphans' = orphans
    BY <1>8 DEF CreateObject, Leaves
  <2>2. right \in Objects
    BY <1>2, <1>8
  <2>3. name \in Names /\ name \in Names \cup {NoName} /\ name # NoName
    <3>1. Top \in DeclareFrames
      BY <1>2, FrameKinds
    <3> QED BY <3>1, EvaluationAssumption DEF DeclareFrames
  <2>4. Room(Memory.heap, 1) /\ o = NextObject(Memory.heap)
    BY <1>1, <1>6
  <2> HIDE DEF defined, local, right, U
  <2>5. MemFine(n, U, H) /\ IsRenamed(Memory, n, o, right, name, level) /\ o \notin H.temps /\ o \notin H.kept
    <3>1. MemFine(Memory, U, H)
      BY <1>2 DEF U
    <3> QED BY <1>2, <1>3, <2>2, <2>3, <2>4, <3>1, NewRenamedIsFine
  <2> HIDE DEF n, o, name
  <2>6. MemFine(NextMemory, Uses(frames', leaked'), H)
    <3>1. n = [heap |-> n.heap, stack |-> n.stack]
      BY <2>5, MemFields
    <3>2. NextMemory = n
      BY <2>1, <3>1 DEF NextMemory
    <3> QED BY <1>5, <2>5, <3>2
  <2>7. Grows(heap, heap', o)
    BY <1>6, <2>1, <2>5 DEF IsRenamed
  <2>8. \A p \in H.kept : heap'[p].level = heap[p].level
    <3>1. Fine(heap', With(U, Objs(n.stack)), H)
      BY <2>1, <2>5, MemFields
    <3> QED BY <2>5, <2>7, <3>1, GrowsKeeps
  <2>9. Whole => Tidy(heap') /\ Alive(heap', o) /\ (Ranked(heap) => Ranked(heap'))
    <3>1. ASSUME Whole PROVE Tidy(n.heap) /\ IsMade(n.heap, o) /\ (Ranked(Memory.heap) => Ranked(n.heap))
      <4>1. Tidy(Memory.heap) /\ IsMade(Memory.heap, right)
        BY <1>2, <1>6, <1>8, <3>1 DEF Whole, Alive
      <4> QED BY <1>2, <2>5, <4>1, RenamedLives
    <3> QED BY <1>6, <2>1, <3>1 DEF Alive
  <2>10. Tracked(heap, control, frames, orphans) => Loose(heap') \subseteq {o} \cup Held(frames') \cup orphans'
    <3>1. Loose(heap') \subseteq (Loose(heap) \ {right}) \cup {o}
      BY <1>6, <2>1, <2>5 DEF IsRenamed
    <3> QED BY <1>1, <1>2, <1>4, <2>1, <3>1 DEF Tracked, Hands
  <2>11. Course(H) /\ Tended
    BY <2>1, <2>5, <2>6, <2>8, <2>9, <2>10, ReturnGoes
  <2>12. o \in Objects /\ heap[o] = Free
    BY <2>7 DEF Grows
  <2>13. control' \in Controls
    BY <2>1, <2>12, ControlsAre
  <2>14. OneMore
    <3>1. IsHome(heap', o, level, right) /\ stack' = Append(stack, [obj |-> o, name |-> name])
      BY <1>6, <2>1, <2>3, <2>5 DEF IsRenamed, Pushed
    <3>2. IsMade(heap', o) /\ heap'[o].level = level
      BY <3>1 DEF IsHome
    <3> QED BY <2>3, <2>12, <3>1, <3>2 DEF OneMore
  <2> QED BY <1>1, <1>2, <1>3, <2>1, <2>11, <2>13, <2>14 DEF Shape
<1> QED BY <1>7, <1>8

LEMMA ReferredStays ==
  ASSUME NEW h, NEW o, h[o].nRefs # 0, NEW gra, NEW force
  PROVE  DestroyMisfit(h, o, gra, force) = h
BY DEF DestroyMisfit, Destroy

\* An object of the type asked for, or none, of a memory that is fine.
LEMMA CastGoes ==
  ASSUME TypeOK, NEW H, frames' = Below, leaked' = leaked, orphans' = orphans, frames # <<>>, Lists(Top) = <<>>, HeldBy(Top) = {},
         NEW n, MemFine(n, Uses(frames, leaked), H), NEW o \in Objects \cup {Nil}, o \notin H.temps,
         \A p \in H.kept : n.heap[p].level = heap[p].level,
         NEW gra, NEW force, heap' = DestroyMisfit(n.heap, o, gra, force), stack' = n.stack,
         control' = Return(Cast(n.heap, o, gra, force)),
         Whole => Tidy(n.heap) /\ Alive(n.heap, o) /\ (Ranked(heap) => Ranked(n.heap)),
         Tracked(heap, control, frames, orphans) => Loose(n.heap) \subseteq {o} \cup Held(frames) \cup orphans
  PROVE  Course(H) /\ Tended /\ control' \in Controls
<1> DEFINE r == Cast(n.heap, o, gra, force)
           U == Uses(frames, leaked)
<1>1. Top \in Frames /\ Below \in Seq(Frames) /\ frames = <<Top>> \o Below /\ leaked \in Seq(Objects)
  BY TopIs DEF TypeOK
<1>2. U = Uses(frames', leaked') /\ Held(frames') = Held(frames)
  BY <1>1, UsesOfEmpty, HeldPush
<1>3. n.stack \in Stacks /\ U \in Bags /\ Fine(n.heap, With(U, Objs(n.stack)), H)
  BY MemFields
<1> HIDE DEF r, U
<1>4. /\ Fine(heap', With(U, Objs(n.stack)), H) /\ Releases(n.heap, heap') /\ (r # Nil => r = o /\ heap' = n.heap)
      /\ Loose(heap') \subseteq (Loose(n.heap) \ {o}) \cup {r} /\ r \in Objects \cup {Nil}
  BY <1>3, MisfitIsFine DEF r
<1>5. MemFine(NextMemory, Uses(frames', leaked'), H)
  BY <1>2, <1>3, <1>4, MemIsFine DEF NextMemory
<1>6. \A p \in H.kept : heap'[p].level = heap[p].level
  <2>1. \A p \in H.kept : heap'[p].level = n.heap[p].level
    BY <1>4, LevelsKept DEF Releases, Orderly
  <2> QED BY <2>1
<1>7. r \notin H.temps
  BY <1>3, <1>4, NilIsNone
<1>8. Whole => Tidy(heap') /\ Alive(heap', r) /\ (Ranked(heap) => Ranked(heap'))
  <2>1. Tidy(n.heap) => Tidy(heap')
    BY <1>4 DEF Releases, Orderly
  <2>2. Alive(n.heap, o) => Alive(heap', r)
    BY <1>4 DEF Alive
  <2>3. Ranked(n.heap) => Ranked(heap')
    BY <1>4, RankedShrinks DEF Releases, Orderly
  <2> QED BY <2>1, <2>2, <2>3
<1>9. Tracked(heap, control, frames, orphans) => Loose(heap') \subseteq {r} \cup Held(frames') \cup orphans'
  BY <1>2, <1>4
<1>10. control' = Return(r)
  BY DEF r
<1>11. Course(H) /\ Tended
  BY <1>5, <1>6, <1>7, <1>8, <1>9, <1>10, ReturnGoes
<1> QED BY <1>4, <1>10, <1>11, ControlsAre

LEMMA TypeEndsGoes ==
  ASSUME TypeOK, TypeEnds, NEW H, Ready(H)
  PROVE  Course(H) /\ Tended /\ Shape' /\ OneMore
<1> DEFINE o == control.obj
           again == o # Nil /\ (heap[o].level > level \/ heap[o].kind = "Set")
           U == Uses(frames, leaked)
           m == IF again THEN NewRenamed(Memory, heap[o].name, o) ELSE Memory
           r == IF again THEN NextObject(heap) ELSE o
           gra == Top.gra
           force == Top.force
<1>1. /\ Returns("typed") /\ Room(heap, 1) /\ frames' = Below /\ level' = level /\ leaked' = leaked /\ orphans' = orphans
      /\ heap' = [m EXCEPT !.heap = DestroyMisfit(@, r, Top.gra, Top.force)].heap
      /\ stack' = [m EXCEPT !.heap = DestroyMisfit(@, r, Top.gra, Top.force)].stack
      /\ control' = Return(Cast(m.heap, r, Top.gra, Top.force))
  BY DEF TypeEnds, Leaves, NoLoss
<1>2. /\ o \in Objects \cup {Nil} /\ o \notin H.temps /\ HandOf(control) = {o} /\ Top.at = "typed"
      /\ frames # <<>> /\ MemFine(Memory, Uses(frames, leaked), H)
      /\ Top \in Frames /\ Below \in Seq(Frames) /\ (Whole => Alive(heap, o))
  BY <1>1, ReturnsWhat
<1>3. leaked \in Seq(Objects) /\ orphans \subseteq Objects /\ level \in Int /\ heap \in Heaps /\ stack \in Stacks
  BY DEF TypeOK
<1>4. Lists(Top) = <<>> /\ HeldBy(Top) = {}
  BY <1>2, EmptyLists, HoldsNothing
<1>5. Memory.heap = heap /\ Memory.stack = stack
  BY MemoryIs
<1>6. ASSUME m \in Memories PROVE heap' = DestroyMisfit(m.heap, r, gra, force) /\ stack' = m.stack
  <2>1. m = [heap |-> m.heap, stack |-> m.stack]
    BY <1>6 DEF Memories
  <2> HIDE DEF m, r
  <2> QED BY <1>1, <2>1
<1>7. CASE ~again
  <2>1. m = Memory /\ r = o
    BY <1>7
  <2> HIDE DEF m, r, o, gra, force
  <2>2. m \in Memories /\ heap' = DestroyMisfit(heap, o, gra, force) /\ stack' = stack
    BY <1>2, <1>5, <1>6, <2>1 DEF MemFine
  <2>3. control' = Return(Cast(heap, o, gra, force))
    BY <1>1, <1>5, <2>1 DEF gra, force
  <2>4. Tracked(heap, control, frames, orphans) => Loose(heap) \subseteq {o} \cup Held(frames) \cup orphans
    BY <1>2 DEF Tracked, Hands
  <2>5. Whole => Tidy(heap) /\ Alive(heap, o) /\ (Ranked(heap) => Ranked(heap))
    BY <1>2 DEF Whole
  <2>6. Course(H) /\ Tended /\ control' \in Controls
    BY <1>1, <1>2, <1>4, <1>5, <2>2, <2>3, <2>4, <2>5, CastGoes
  <2> QED BY <1>1, <1>2, <1>3, <2>2, <2>6 DEF Shape, OneMore
<1>8. CASE again
  <2> DEFINE name == heap[o].name
             n == NewRenamed(Memory, name, o)
             k == NextObject(heap)
  <2>1. m = n /\ r = k /\ o # Nil
    BY <1>8
  <2>2. o \in Objects
    BY <1>2, <2>1
  <2>3. name \in Names \cup {NoName}
    BY <1>3, <2>2, HeapFields
  <2>4. Room(Memory.heap, 1) /\ k = NextObject(Memory.heap)
    BY <1>1, <1>5
  <2> HIDE DEF again, m, r, o, U, gra, force, k
  <2>5. MemFine(n, U, H) /\ IsRenamed(Memory, n, k, o, name, level) /\ k \notin H.temps /\ k \notin H.kept
    <3>1. MemFine(Memory, U, H)
      BY <1>2 DEF U
    <3> QED BY <1>2, <1>3, <2>2, <2>3, <2>4, <3>1, NewRenamedIsFine
  <2> HIDE DEF n, name
  <2>6. m \in Memories /\ heap' = DestroyMisfit(n.heap, k, gra, force) /\ stack' = n.stack
    BY <1>6, <2>1, <2>5 DEF MemFine
  <2>7. control' = Return(Cast(n.heap, k, gra, force))
    BY <1>1, <2>1 DEF gra, force
  <2>8. Grows(heap, n.heap, k) /\ n.heap \in Heaps /\ Fine(n.heap, With(U, Objs(n.stack)), H)
    BY <1>5, <2>5, MemFields DEF IsRenamed
  <2>9. \A p \in H.kept : n.heap[p].level = heap[p].level
    BY <2>5, <2>8, GrowsKeeps
  <2>10. Whole => Tidy(n.heap) /\ Alive(n.heap, k) /\ (Ranked(heap) => Ranked(n.heap))
    <3>1. ASSUME Whole PROVE Tidy(n.heap) /\ IsMade(n.heap, k) /\ (Ranked(Memory.heap) => Ranked(n.heap))
      <4>1. Tidy(Memory.heap) /\ IsMade(Memory.heap, o)
        BY <1>2, <1>5, <2>1, <3>1 DEF Whole, Alive
      <4> QED BY <1>2, <2>5, <4>1, RenamedLives
    <3> QED BY <1>5, <3>1 DEF Alive
  <2>11. Tracked(heap, control, frames, orphans) => Loose(n.heap) \subseteq {k} \cup Held(frames) \cup orphans
    <3>1. Loose(n.heap) \subseteq (Loose(heap) \ {o}) \cup {k}
      BY <1>5, <2>5 DEF IsRenamed
    <3> QED BY <1>2, <3>1 DEF Tracked, Hands
  <2>12. k \in Objects \cup {Nil} /\ MemFine(n, Uses(frames, leaked), H)
    BY <2>5, <2>8 DEF Grows, U
  <2>13. Course(H) /\ Tended /\ control' \in Controls
    BY <1>1, <1>2, <1>4, <2>5, <2>6, <2>7, <2>9, <2>10, <2>11, <2>12, CastGoes
  <2>14. OneMore
    <3>1. CASE name = NoName
      <4>1. n.stack = stack
        BY <1>5, <2>5, <3>1 DEF IsRenamed, Pushed
      <4> QED BY <2>6, <4>1 DEF OneMore
    <3>2. CASE name # NoName
      <4>1. n.stack = Append(stack, [obj |-> k, name |-> name]) /\ IsHome(n.heap, k, level, o) /\ k \notin Loose(n.heap)
        BY <1>5, <2>5, <3>2 DEF IsRenamed, Pushed
      <4>2. k \in Objects /\ heap[k] = Free /\ name \in Names
        BY <2>3, <2>8, <3>2 DEF Grows
      <4>3. n.heap[k].nRefs # 0
        BY <4>1, <4>2 DEF IsHome, Loose
      <4>4. heap' = n.heap
        BY <2>6, <4>3, ReferredStays
      <4>5. IsMade(heap', k) /\ heap'[k].level = level
        BY <4>1, <4>4 DEF IsHome
      <4> QED BY <2>6, <4>1, <4>2, <4>5 DEF OneMore
    <3> QED BY <3>1, <3>2
  <2> QED BY <1>1, <1>2, <1>3, <2>13, <2>14 DEF Shape
<1> QED BY <1>7, <1>8

-----------------------------------------------------------------------------
\* Lists of arguments

Stacked == With(Others, Objs(stack))

LEMMA WithOneMore ==
  ASSUME NEW B \in Bags, NEW s \in Seq(Objects), NEW x \in Objects
  PROVE  IsMore(With(B, Append(s, x)), With(B, s), x) /\ Append(s, x) \in Seq(Objects)
<1>1. Append(s, x) \in Seq(Objects)
  OBVIOUS
<1>2. With(B, s) \in Bags /\ With(B, Append(s, x)) \in Bags
  BY <1>1, WithIsBag
<1>3. ASSUME NEW o \in Objects PROVE With(B, Append(s, x))[o] = With(B, s)[o] + Alone(o, x)
  <2>1. Occurrences(o, Append(s, x)) = Occurrences(o, s) + Alone(o, x) /\ Occurrences(o, s) \in Nat
    BY OccursAppend, PlacesFinite
  <2>2. With(B, Append(s, x))[o] = B[o] + Occurrences(o, Append(s, x)) /\ With(B, s)[o] = B[o] + Occurrences(o, s)
    BY DEF With
  <2>3. B[o] \in Nat /\ Alone(o, x) \in Nat
    BY DEF Bags, Alone
  <2> QED BY <2>1, <2>2, <2>3
<1> QED BY <1>1, <1>2, <1>3 DEF IsMore

\* Objects on a list are alive.
LEMMA ListedIsMade ==
  ASSUME NEW h, NEW B \in Bags, NEW s \in Seq(Objects), NEW H, Fine(h, With(B, s), H), Tidy(h)
  PROVE  AllMade(h, s)
<1>1. ASSUME NEW i \in DOMAIN s PROVE IsMade(h, s[i])
  <2>1. i \in 1 .. Len(s)
    OBVIOUS
  <2>2. s[i] \in Objects
    BY <2>1, ElementOf
  <2>3. Occurrences(s[i], s) > 0 /\ Occurrences(s[i], s) \in Nat
    BY <1>1, OccursInRange, PlacesFinite
  <2>4. With(B, s)[s[i]] = B[s[i]] + Occurrences(s[i], s) /\ B[s[i]] \in Nat
    BY <2>2, WithIsBag DEF Bags
  <2>5. With(B, s)[s[i]] <= h[s[i]].nRefs /\ h[s[i]].nRefs \in Nat
    BY <2>2, HoldsFields
  <2>6. h[s[i]].nRefs > 0
    BY <2>3, <2>4, <2>5
  <2> QED BY <2>2, <2>6, CountedIsAlive
<1> QED BY <1>1 DEF AllMade

LEMMA ArgumentsAre ==
  ASSUME TypeOK, Returns("arguments"), NEW H, Ready(H)
  PROVE  /\ Top \in ArgumentFrames /\ Top.at = "arguments" /\ Top.op \in Operators /\ Top.args \in Seq(Objects) /\ Lists(Top) = Top.args
         /\ IsUser(Top.op) => Len(Top.args) < Len(Top.op.params)
         /\ Stacked \in Bags /\ H \in Holds /\ Others \in Bags /\ Objs(stack) \in Seq(Objects)
         /\ Fine(heap, With(Stacked, Top.args), H)
         /\ HeldBy(Top) = {} /\ Held(frames) = Held(Below)
<1>1. /\ frames # <<>> /\ Top.at = "arguments" /\ MemFine(Memory, Uses(frames, leaked), H)
      /\ Top \in Frames /\ Below \in Seq(Frames) /\ Held(frames) = HeldBy(Top) \cup Held(Below)
  BY ReturnsWhat
<1>2. Top \in ArgumentFrames /\ Lists(Top) = Top.args /\ HeldBy(Top) = {}
  BY <1>1, FrameKinds, ListsAre, HoldsNothing
<1>3. Top.op \in Operators /\ Top.args \in Seq(Objects) /\ (IsUser(Top.op) => Len(Top.args) < Len(Top.op.params))
  BY <1>2 DEF ArgumentFrames
<1>4. Stacked \in Bags /\ Fine(heap, With(Stacked, Lists(Top)), H) /\ H \in Holds /\ Others \in Bags
      /\ Objs(stack) \in Seq(Objects)
  BY <1>1, TopUses DEF Stacked
<1> QED BY <1>1, <1>2, <1>3, <1>4

\* The argument just evaluated is added to the list.
LEMMA WithArgumentIsFine ==
  ASSUME TypeOK, ArgumentTaken, NEW H, Ready(H)
  PROVE  /\ control.obj \in Objects /\ Args \in Seq(Objects) /\ Len(Args) = Len(Top.args) + 1
         /\ Fine(WithArgument, With(Stacked, Args), H) /\ Shrunk(heap, WithArgument)
         /\ Loose(WithArgument) \subseteq Loose(heap) \ {control.obj}
         /\ Whole => Tidy(WithArgument) /\ AllMade(WithArgument, Args)
         /\ Tracked(heap, control, frames, orphans) => Loose(WithArgument) \subseteq Held(Below) \cup orphans
<1> DEFINE o == control.obj
<1>1. Returns("arguments") /\ o # Nil
  BY DEF ArgumentTaken
<1>2. /\ o \in Objects /\ o \in Objects \cup {Nil} /\ o \notin H.temps /\ HandOf(control) = {o} /\ (Whole => Alive(heap, o))
  BY <1>1, ReturnsWhat
<1>3. /\ Top.args \in Seq(Objects) /\ Stacked \in Bags /\ Fine(heap, With(Stacked, Top.args), H)
      /\ Held(frames) = Held(Below)
  BY <1>1, ArgumentsAre
<1>4. Args = Append(Top.args, o)
  BY DEF Args
<1>5. IsMore(With(Stacked, Args), With(Stacked, Top.args), o) /\ Args \in Seq(Objects)
  BY <1>2, <1>3, <1>4, WithOneMore
<1>6. /\ Fine(IncNRefs(heap, o), With(Stacked, Args), H) /\ Shrunk(heap, IncNRefs(heap, o))
      /\ Tidy(heap) /\ (o # Nil => IsMade(heap, o)) => Tidy(IncNRefs(heap, o))
      /\ Loose(IncNRefs(heap, o)) \subseteq Loose(heap) \ {o}
  <2> DEFINE A == Args
             S == Stacked
  <2> HIDE DEF o, A, S
  <2> QED BY <1>2, <1>3, <1>5, IncIsFine DEF A, S
<1>7. WithArgument = IncNRefs(heap, o)
  BY DEF WithArgument
<1>8. Len(Args) = Len(Top.args) + 1
  BY <1>2, <1>3, <1>4
<1>9. Whole => Tidy(WithArgument)
  BY <1>2, <1>6, <1>7 DEF Whole, Alive
<1>10. Whole => AllMade(WithArgument, Args)
  BY <1>3, <1>5, <1>6, <1>7, <1>9, ListedIsMade
<1>11. Tracked(heap, control, frames, orphans) => Loose(WithArgument) \subseteq Held(Below) \cup orphans
  BY <1>2, <1>3, <1>6, <1>7 DEF Tracked, Hands
<1> QED BY <1>2, <1>5, <1>6, <1>7, <1>8, <1>9, <1>10, <1>11

LEMMA NextArgumentGoes ==
  ASSUME TypeOK, NextArgument, NEW H, Ready(H)
  PROVE  Course(H) /\ Tended /\ Shape'
<1> DEFINE f == [Top EXCEPT !.args = Args]
           gra == ArgumentGrammar(Top.op, Len(Args) + 1)
<1>1. /\ ArgumentTaken /\ heap' = WithArgument /\ frames' = <<f>> \o Below /\ control' = Evaluate(gra, TRUE)
      /\ stack' = stack /\ level' = level /\ leaked' = leaked /\ orphans' = orphans
      /\ IsUser(Top.op) => ~Complete
  BY DEF NextArgument, NoLoss
<1>2. Returns("arguments")
  BY <1>1 DEF ArgumentTaken
<1>3. leaked \in Seq(Objects) /\ orphans \subseteq Objects /\ level \in Int /\ stack \in Stacks /\ Below \in Seq(Frames)
  BY <1>2, ReturnsWhat DEF TypeOK
<1>4. /\ Top \in ArgumentFrames /\ Top.at = "arguments" /\ Top.op \in Operators /\ Top.args \in Seq(Objects)
      /\ IsUser(Top.op) => Len(Top.args) < Len(Top.op.params)
  BY <1>2, ArgumentsAre
<1>5. /\ Args \in Seq(Objects) /\ Len(Args) = Len(Top.args) + 1
      /\ Fine(WithArgument, With(Stacked, Args), H) /\ Shrunk(heap, WithArgument)
      /\ Whole => Tidy(WithArgument)
      /\ Tracked(heap, control, frames, orphans) => Loose(WithArgument) \subseteq Held(Below) \cup orphans
  BY <1>1, WithArgumentIsFine
<1>6. IsUser(Top.op) => Len(Args) < Len(Top.op.params) /\ Len(Args) + 1 <= Len(Top.op.params)
  <2>1. ASSUME IsUser(Top.op) PROVE Len(Top.op.params) \in Nat
    <3>1. Top.op.params \in Seq([name : Names, gra : Grammars])
      BY <1>4, <2>1, OperatorsAre
    <3> QED BY <3>1
  <2>2. Len(Top.args) \in Nat
    BY <1>4
  <2>3. IsUser(Top.op) => Len(Args) # Len(Top.op.params)
    BY <1>1 DEF Complete
  <2> QED BY <1>4, <1>5, <2>1, <2>2, <2>3
<1>7. f \in ArgumentFrames /\ f.at = "arguments" /\ f.args = Args
  <2>1. Top \in [at : {"arguments"}, op : Operators, args : Seq(Objects)]
    BY <1>4 DEF ArgumentFrames
  <2>2. f \in [at : {"arguments"}, op : Operators, args : Seq(Objects)] /\ f.op = Top.op /\ f.args = Args
    BY <1>5, <2>1
  <2> QED BY <1>6, <2>2 DEF ArgumentFrames
<1>8. f \in Frames /\ Lists(f) = Args /\ HeldBy(f) = {}
  BY <1>7, ListsAre, HoldsNothing DEF Frames
<1> HIDE DEF f
<1>9. gra \in Wanted
  <2>1. Len(Args) + 1 \in Nat /\ Len(Args) + 1 > 0
    BY <1>5
  <2> QED BY <1>4, <1>6, <2>1, ArgumentGrammarIs, ControlsAre
<1> HIDE DEF gra
<1>10. MemFine(NextMemory, Uses(frames', leaked'), H)
  <2>1. Fine(WithArgument, With(With(Uses(Below, leaked), Objs(stack)), Lists(f)), H)
    BY <1>5, <1>8 DEF Stacked, Others
  <2>2. MemFine([heap |-> WithArgument, stack |-> stack], Uses(<<f>> \o Below, leaked), H)
    BY <1>3, <1>8, <2>1, LeftWithList
  <2> QED BY <1>1, <2>2 DEF NextMemory
<1>11. \A p \in H.kept : heap'[p].level = heap[p].level
  BY <1>1, <1>5, LevelsKept
<1>12. control'.do = "evaluate" /\ control' \in Controls /\ HandOf(control') = {}
  BY <1>1, <1>9, EvaluateIs, ControlsAre, NothingInHand
<1>13. Course(H)
  BY <1>10, <1>11, <1>12 DEF Course
<1>14. frames' \in Seq(Frames) /\ Held(frames') = Held(Below)
  BY <1>1, <1>3, <1>8, PushIs, HeldPush
<1>15. Tended
  <2>1. Whole => Tidy(heap') /\ (Ranked(heap) => Ranked(heap'))
    BY <1>1, <1>5, RankedShrinks
  <2> QED BY <1>1, <1>5, <1>12, <1>14, <2>1 DEF Tended, AllAlive, Tracked, Hands
<1> QED BY <1>1, <1>3, <1>12, <1>13, <1>14, <1>15 DEF Shape

LEMMA BadArgumentsGoes ==
  ASSUME TypeOK, BadArguments, NEW H, Ready(H), Within(H, Stacked)
  PROVE  Course(H) /\ Tended /\ Shape' /\ stack' = stack
<1> DEFINE o == control.obj
<1>1. /\ Returns("arguments") /\ control' = Return(Nil) /\ frames' = Below
      /\ stack' = stack /\ level' = level /\ leaked' = leaked /\ orphans' = orphans
  BY DEF BadArguments, NoLoss
<1>2. leaked \in Seq(Objects) /\ orphans \subseteq Objects /\ level \in Int /\ stack \in Stacks /\ Below \in Seq(Frames)
  BY <1>1, ReturnsWhat DEF TypeOK
<1>3. /\ HandOf(control) = {o} /\ (Whole => Alive(heap, o)) /\ MemFine(Memory, Uses(frames, leaked), H)
  BY <1>1, ReturnsWhat
<1>4. /\ Top.args \in Seq(Objects) /\ Stacked \in Bags /\ H \in Holds /\ Others \in Bags /\ Objs(stack) \in Seq(Objects)
      /\ Fine(heap, With(Stacked, Top.args), H) /\ Held(frames) = Held(Below)
  BY <1>1, ArgumentsAre
<1>5. \E g \in Heaps, args \in Seq(Objects) :
        /\ Fine(g, With(Stacked, args), H) /\ Shrunk(heap, g) /\ (Whole => Tidy(g))
        /\ Tracked(heap, control, frames, orphans) => Loose(g) \subseteq {Nil} \cup Held(Below) \cup orphans
        /\ heap' = DestroyList(g, args)
  <2>1. CASE o = Nil /\ heap' = DestroyList(heap, Top.args)
    <3>1. Shrunk(heap, heap)
      BY DEF Shrunk, SameBut
    <3>2. heap \in Heaps /\ (Whole => Tidy(heap))
      BY DEF TypeOK, Whole
    <3>3. Tracked(heap, control, frames, orphans) => Loose(heap) \subseteq {Nil} \cup Held(Below) \cup orphans
      BY <1>3, <1>4, <2>1 DEF Tracked, Hands
    <3> QED BY <1>4, <2>1, <3>1, <3>2, <3>3
  <2>2. CASE o # Nil /\ heap' = DestroyList(WithArgument, Args)
    <3>1. ArgumentTaken
      BY <1>1, <2>2 DEF ArgumentTaken
    <3>2. /\ Args \in Seq(Objects)
          /\ Fine(WithArgument, With(Stacked, Args), H) /\ Shrunk(heap, WithArgument)
          /\ Whole => Tidy(WithArgument)
          /\ Tracked(heap, control, frames, orphans) => Loose(WithArgument) \subseteq Held(Below) \cup orphans
      BY <3>1, WithArgumentIsFine
    <3>3. WithArgument \in Heaps
      BY <3>2, HoldsFields
    <3> QED BY <2>2, <3>2, <3>3
  <2> QED BY <2>1, <2>2 DEF BadArguments
<1>6. PICK g \in Heaps, args \in Seq(Objects) :
        /\ Fine(g, With(Stacked, args), H) /\ Shrunk(heap, g) /\ (Whole => Tidy(g))
        /\ Tracked(heap, control, frames, orphans) => Loose(g) \subseteq {Nil} \cup Held(Below) \cup orphans
        /\ heap' = DestroyList(g, args)
  BY <1>5
<1>7. Fine(heap', Stacked, H) /\ Releases(g, heap')
  <2>1. IsWith(With(Stacked, args), Stacked, args)
    BY <1>4, <1>6, WithIsBag
  <2> QED BY <1>4, <1>6, <2>1, DestroyListIsFine
<1>8. MemFine(NextMemory, Uses(frames', leaked'), H)
  <2>1. Fine(heap', With(Others, Objs(stack)), H)
    BY <1>7 DEF Stacked
  <2>2. MemFine([heap |-> heap', stack |-> stack], Others, H)
    BY <1>2, <1>4, <2>1, MemIsFine
  <2> QED BY <1>1, <2>2 DEF NextMemory, Others
<1>9. Shrunk(heap, heap')
  BY <1>6, <1>7, ShrunkAgain DEF Releases, Orderly
<1>10. \A p \in H.kept : heap'[p].level = heap[p].level
  BY <1>7, <1>9, LevelsKept
<1>11. Nil \notin H.temps
  BY <1>7, NilIsNone
<1>12. Whole => Tidy(heap') /\ Alive(heap', Nil) /\ (Ranked(heap) => Ranked(heap'))
  BY <1>6, <1>7, <1>9, RankedShrinks DEF Releases, Orderly, Alive
<1>13. Tracked(heap, control, frames, orphans) => Loose(heap') \subseteq {Nil} \cup Held(frames') \cup orphans'
  BY <1>1, <1>6, <1>7 DEF Releases
<1>14. Course(H) /\ Tended
  BY <1>1, <1>8, <1>10, <1>11, <1>12, <1>13, ReturnGoes
<1>15. control' \in Controls
  BY <1>1, ControlsAre
<1> QED BY <1>1, <1>2, <1>14, <1>15 DEF Shape

LEMMA TooFewArgumentsGoes ==
  ASSUME TypeOK, TooFewArguments, NEW H, Ready(H)
  PROVE  Course(H) /\ Tended /\ Shape' /\ stack' = stack
<1>1. /\ ArgumentTaken /\ control' = Return(Nil) /\ frames' = Below /\ heap' = WithArgument
      /\ stack' = stack /\ level' = level /\ leaked' = leaked \o Args /\ orphans' = orphans
  BY DEF TooFewArguments
<1>2. Returns("arguments")
  BY <1>1 DEF ArgumentTaken
<1>3. leaked \in Seq(Objects) /\ orphans \subseteq Objects /\ level \in Int /\ stack \in Stacks /\ Below \in Seq(Frames)
  BY <1>2, ReturnsWhat DEF TypeOK
<1>4. /\ Stacked \in Bags /\ H \in Holds /\ Others \in Bags /\ Objs(stack) \in Seq(Objects)
  BY <1>2, ArgumentsAre
<1>5. /\ Args \in Seq(Objects)
      /\ Fine(WithArgument, With(Stacked, Args), H) /\ Shrunk(heap, WithArgument)
      /\ Whole => Tidy(WithArgument)
      /\ Tracked(heap, control, frames, orphans) => Loose(WithArgument) \subseteq Held(Below) \cup orphans
  BY <1>1, WithArgumentIsFine
<1>6. MemFine(NextMemory, Uses(frames', leaked'), H)
  <2>1. Uses(frames', leaked') = With(Others, Args)
    BY <1>1, <1>3, <1>5, UsesLeak DEF Others
  <2>2. With(With(Others, Args), Objs(stack)) = With(Stacked, Args) /\ With(Others, Args) \in Bags
    BY <1>4, <1>5, WithSwaps DEF Stacked
  <2>3. Fine(WithArgument, With(With(Others, Args), Objs(stack)), H)
    BY <1>5, <2>2
  <2>4. MemFine([heap |-> WithArgument, stack |-> stack], With(Others, Args), H)
    BY <1>3, <2>2, <2>3, MemIsFine
  <2> QED BY <1>1, <2>1, <2>4 DEF NextMemory
<1>7. \A p \in H.kept : heap'[p].level = heap[p].level
  BY <1>1, <1>5, LevelsKept
<1>8. Nil \notin H.temps
  BY <1>5, NilIsNone
<1>9. Whole => Tidy(heap') /\ Alive(heap', Nil) /\ (Ranked(heap) => Ranked(heap'))
  BY <1>1, <1>5, RankedShrinks DEF Alive
<1>10. Tracked(heap, control, frames, orphans) => Loose(heap') \subseteq {Nil} \cup Held(frames') \cup orphans'
  BY <1>1, <1>5
<1>11. Course(H) /\ Tended
  BY <1>1, <1>6, <1>7, <1>8, <1>9, <1>10, ReturnGoes
<1>12. control' \in Controls /\ leaked' \in Seq(Objects)
  BY <1>1, <1>3, <1>5, ControlsAre
<1> QED BY <1>1, <1>3, <1>11, <1>12 DEF Shape

\* A number or a set is made of the arguments.
Computes(kind, refs) ==
  LET m == New([Memory EXCEPT !.heap = WithArgument], kind, FALSE, NoName, level, refs, NoName)
  IN  Leaves([m EXCEPT !.heap = DestroyList(@, Args)])

LEMMA ComputesGoes ==
  ASSUME TypeOK, ArgumentTaken, Room(WithArgument, 1), NEW kind \in Kinds, NEW refs \in {Args, <<>>}, Computes(kind, refs),
         control' = Return(NextObject(WithArgument)), frames' = Below, level' = level, leaked' = leaked, orphans' = orphans,
         NEW H, Ready(H), Within(H, Stacked)
  PROVE  Course(H) /\ Tended /\ Shape' /\ stack' = stack
<1> DEFINE a == [Memory EXCEPT !.heap = WithArgument]
           o == NextObject(WithArgument)
           n == [New(a, kind, FALSE, NoName, level, refs, NoName) EXCEPT !.heap = DestroyList(@, Args)]
           C == With(Others, Args)
<1>1. Returns("arguments")
  BY DEF ArgumentTaken
<1>2. leaked \in Seq(Objects) /\ orphans \subseteq Objects /\ level \in Int /\ stack \in Stacks /\ Below \in Seq(Frames)
  BY <1>1, ReturnsWhat DEF TypeOK
<1>3. /\ Stacked \in Bags /\ H \in Holds /\ Others \in Bags /\ Objs(stack) \in Seq(Objects)
  BY <1>1, ArgumentsAre
<1>4. /\ Args \in Seq(Objects)
      /\ Fine(WithArgument, With(Stacked, Args), H) /\ Shrunk(heap, WithArgument)
      /\ Whole => Tidy(WithArgument) /\ AllMade(WithArgument, Args)
      /\ Tracked(heap, control, frames, orphans) => Loose(WithArgument) \subseteq Held(Below) \cup orphans
  BY WithArgumentIsFine
<1>5. a = [heap |-> WithArgument, stack |-> stack]
  BY DEF Memory
<1>6. MemFine(a, C, H) /\ a.heap = WithArgument /\ a.stack = stack /\ IsWith(C, Others, Args)
  <2>1. With(With(Others, Args), Objs(stack)) = With(Stacked, Args) /\ With(Others, Args) \in Bags
        /\ IsWith(With(Others, Args), Others, Args)
    BY <1>3, <1>4, WithSwaps, WithIsBag DEF Stacked
  <2>2. Fine(WithArgument, With(C, Objs(stack)), H)
    BY <1>4, <2>1
  <2> HIDE DEF a
  <2> QED BY <1>2, <1>5, <2>1, <2>2, MemIsFine
<1> HIDE DEF a, C
<1>7. IsResult(a, n, o, kind, refs, Args)
  BY <1>6 DEF IsResult
<1> HIDE DEF n
<1>8. MemFine(n, Others, H) /\ IsComputed(a, n, o, Args) /\ o \notin H.temps /\ o \notin H.kept
  <2>1. Within(H, With(Others, Objs(a.stack))) /\ Room(a.heap, 1)
    BY <1>6 DEF Stacked
  <2> DEFINE s == Args
             U == Others
  <2> HIDE DEF o, s, U
  <2>2. MemFine(a, C, H) /\ Within(H, With(U, Objs(a.stack))) /\ Room(a.heap, 1) /\ U \in Bags /\ s \in Seq(Objects)
        /\ IsWith(C, U, s) /\ refs \in {s, <<>>} /\ IsResult(a, n, o, kind, refs, s)
    BY <1>3, <1>4, <1>6, <1>7, <2>1 DEF s, U
  <2>3. MemFine(n, U, H) /\ IsComputed(a, n, o, s) /\ o \notin H.temps /\ o \notin H.kept
    BY <1>2, <2>2, ComputedIsFine
  <2> QED BY <2>3 DEF s, U
<1>9. heap' = n.heap /\ stack' = n.stack
  BY DEF Computes, Leaves, n, a
<1>10. MemFine(NextMemory, Uses(frames', leaked'), H)
  <2>1. n = [heap |-> n.heap, stack |-> n.stack]
    BY <1>8, MemFields
  <2>2. NextMemory = n
    BY <1>9, <2>1 DEF NextMemory
  <2> QED BY <1>8, <2>2 DEF Others
<1>11. /\ Grows(WithArgument, heap', o) /\ IsMade(heap', o) /\ stack' = stack
       /\ Loose(heap') \subseteq Loose(WithArgument) \cup {o}
       /\ Tidy(WithArgument) /\ AllMade(WithArgument, Args) => Tidy(heap')
       /\ Ranked(WithArgument) => Ranked(heap')
  BY <1>6, <1>8, <1>9 DEF IsComputed
<1>12. \A p \in H.kept : heap'[p].level = heap[p].level
  <2>1. \A p \in H.kept : WithArgument[p].level = heap[p].level
    BY <1>4, LevelsKept
  <2>2. Fine(heap', With(Others, Objs(n.stack)), H)
    BY <1>8, <1>9, MemFields
  <2>3. \A p \in H.kept : heap'[p].level = WithArgument[p].level
    BY <1>8, <1>11, <2>2, GrowsKeeps
  <2> QED BY <2>1, <2>3
<1>13. Whole => Tidy(heap') /\ Alive(heap', o) /\ (Ranked(heap) => Ranked(heap'))
  BY <1>4, <1>11, RankedShrinks DEF Alive
<1>14. Tracked(heap, control, frames, orphans) => Loose(heap') \subseteq {o} \cup Held(frames') \cup orphans'
  BY <1>4, <1>11
<1>15. Course(H) /\ Tended
  BY <1>8, <1>10, <1>12, <1>13, <1>14, ReturnGoes
<1>16. control' \in Controls
  BY <1>11, ControlsAre DEF Grows
<1> QED BY <1>2, <1>11, <1>15, <1>16 DEF Shape

LEMMA DoRealGoes ==
  ASSUME TypeOK, DoReal, NEW H, Ready(H), Within(H, Stacked)
  PROVE  Course(H) /\ Tended /\ Shape' /\ stack' = stack
<1>1. /\ ArgumentTaken /\ Room(WithArgument, 1) /\ Computes("Real", <<>>) /\ control' = Return(NextObject(WithArgument))
      /\ frames' = Below /\ level' = level /\ leaked' = leaked /\ orphans' = orphans
  BY DEF DoReal, Computes, NoLoss
<1>2. "Real" \in Kinds /\ <<>> \in {Args, <<>>}
  BY DEF Kinds
<1> QED BY <1>1, <1>2, ComputesGoes

LEMMA DoSetGoes ==
  ASSUME TypeOK, DoSet, NEW H, Ready(H), Within(H, Stacked)
  PROVE  Course(H) /\ Tended /\ Shape' /\ stack' = stack
<1>1. /\ ArgumentTaken /\ Room(WithArgument, 1) /\ Computes("Set", Args) /\ control' = Return(NextObject(WithArgument))
      /\ frames' = Below /\ level' = level /\ leaked' = leaked /\ orphans' = orphans
  BY DEF DoSet, Computes, NoLoss
<1>2. "Set" \in Kinds /\ Args \in {Args, <<>>}
  BY DEF Kinds
<1> QED BY <1>1, <1>2, ComputesGoes

-----------------------------------------------------------------------------
\* Functions

Entered ==
  /\ Len(stack') > Len(stack)
  /\ \A i \in 1 .. Len(stack) : stack'[i] = stack[i]
  /\ \A i \in Len(stack) + 1 .. Len(stack') :
       IsMade(heap', stack'[i].obj) /\ heap'[stack'[i].obj].level = level + 1
  /\ \E i \in DOMAIN Head(frames').instances : Head(frames').instances[i] = stack'[Len(stack) + 1].obj
  /\ Head(frames').pos = Len(stack) /\ Head(frames').level = level /\ Head(frames').at = "body"
  /\ frames' = <<Head(frames')>> \o Below /\ Head(frames') \in Frames

LEMMA EnterFunctionGoes ==
  ASSUME TypeOK, EnterFunction, NEW H, Ready(H)
  PROVE  Course(H) /\ Tended /\ Shape' /\ Entered
<1> DEFINE a == [Memory EXCEPT !.heap = WithArgument]
           b == Bind(a, Top.op, Args)
           f == [at |-> "body", op |-> Top.op, args |-> Args, instances |-> b.instances,
                 pos |-> Len(stack), level |-> level]
           C == With(Others, Args)
<1>1. /\ ArgumentTaken /\ IsUser(Top.op) /\ Complete /\ Room(WithArgument, Len(Args))
      /\ heap' = b.mem.heap /\ stack' = b.mem.stack /\ frames' = <<f>> \o Below
      /\ level' = level + 1 /\ control' = Evaluate(Top.op.gra, TRUE) /\ leaked' = leaked /\ orphans' = orphans
  BY DEF EnterFunction, Leaves, NoLoss
<1>2. Returns("arguments")
  BY <1>1 DEF ArgumentTaken
<1>3. leaked \in Seq(Objects) /\ orphans \subseteq Objects /\ level \in Int /\ stack \in Stacks /\ Below \in Seq(Frames)
  BY <1>2, ReturnsWhat DEF TypeOK
<1>4. /\ Stacked \in Bags /\ H \in Holds /\ Others \in Bags /\ Objs(stack) \in Seq(Objects) /\ Top.op \in Operators
      /\ Top.args \in Seq(Objects)
  BY <1>2, ArgumentsAre
<1>5. /\ Args \in Seq(Objects) /\ Len(Args) = Len(Top.args) + 1
      /\ Fine(WithArgument, With(Stacked, Args), H) /\ Shrunk(heap, WithArgument)
      /\ Whole => Tidy(WithArgument) /\ AllMade(WithArgument, Args)
      /\ Tracked(heap, control, frames, orphans) => Loose(WithArgument) \subseteq Held(Below) \cup orphans
  BY <1>1, WithArgumentIsFine
<1>6. Top.op \in UserFunctions /\ Len(Top.op.params) = Len(Args) /\ Top.op.gra \in Wanted
  BY <1>1, <1>4, OperatorsAre, ControlsAre DEF Complete
<1>7. a = [heap |-> WithArgument, stack |-> stack]
  BY DEF Memory
<1>8. MemFine(a, C, H) /\ a.heap = WithArgument /\ a.stack = stack /\ IsWith(C, Others, Args)
  <2>1. With(With(Others, Args), Objs(stack)) = With(Stacked, Args) /\ With(Others, Args) \in Bags
        /\ IsWith(With(Others, Args), Others, Args)
    BY <1>4, <1>5, WithSwaps, WithIsBag DEF Stacked
  <2>2. Fine(WithArgument, With(C, Objs(stack)), H)
    BY <1>5, <2>1
  <2> HIDE DEF a
  <2> QED BY <1>3, <1>7, <2>1, <2>2, MemIsFine
<1> HIDE DEF a
<1>9. Counted(C, Args)
  <2>1. ASSUME NEW i \in DOMAIN Args PROVE C[Args[i]] > 0
    <3>1. i \in 1 .. Len(Args)
      BY <1>5
    <3>2. Args[i] \in Objects
      BY <1>5, <3>1, ElementOf
    <3>3. Occurrences(Args[i], Args) > 0 /\ Occurrences(Args[i], Args) \in Nat
      BY <1>5, OccursInRange, PlacesFinite
    <3>4. C[Args[i]] = Others[Args[i]] + Occurrences(Args[i], Args) /\ Others[Args[i]] \in Nat
      BY <1>4, <1>8, <3>2 DEF IsWith, Bags
    <3> QED BY <3>3, <3>4
  <2> HIDE DEF C
  <2> QED BY <1>5, <2>1 DEF Counted
<1> HIDE DEF C
<1>10. BindInv(b, a, C, H, Len(Args), Args)
  <2> DEFINE s == Args
             op == Top.op
  <2>1. b = Bind(a, op, s)
    OBVIOUS
  <2> HIDE DEF s, op, b
  <2>2. MemFine(a, C, H) /\ Counted(C, s) /\ Room(a.heap, Len(s)) /\ level \in Int /\ op \in UserFunctions
        /\ Len(op.params) = Len(s)
    BY <1>1, <1>3, <1>6, <1>8, <1>9 DEF s, op
  <2>3. BindInv(Bind(a, op, s), a, C, H, Len(s), s)
    BY <2>2, BindIsFine
  <2> QED BY <2>1, <2>3 DEF s
<1>11. b.instances \in Seq(Objects) /\ Len(Args) > 0 /\ Len(Args) \in Nat
  BY <1>4, <1>5, <1>10 DEF BindInv, Binds
<1>12. f \in BodyFrames /\ f.at = "body" /\ f.args = Args /\ f.instances = b.instances /\ f.pos = Len(stack) /\ f.level = level
  <2>1. Len(stack) \in Nat
    BY <1>3 DEF Stacks
  <2> HIDE DEF b
  <2> QED BY <1>3, <1>5, <1>6, <1>11, <2>1 DEF BodyFrames
<1> HIDE DEF f, b
<1>13. f \in Frames /\ Lists(f) = Args \o b.instances /\ HeldBy(f) = {}
  BY <1>12, ListsAre, HoldsNothing DEF Frames
<1>14. MemFine(NextMemory, Uses(frames', leaked'), H)
  <2>1. MemFine(b.mem, With(C, b.instances), H)
    BY <1>10 DEF BindInv
  <2>2. Uses(frames', leaked') = With(Others, Args \o b.instances)
    BY <1>1, <1>3, <1>13, UsesPush DEF Others
  <2>3. With(Others, Args \o b.instances) = With(C, b.instances)
    BY <1>4, <1>5, <1>11, WithParts DEF C
  <2>4. b.mem = [heap |-> b.mem.heap, stack |-> b.mem.stack]
    BY <2>1, MemFields
  <2>5. NextMemory = b.mem
    BY <1>1, <2>4 DEF NextMemory
  <2> QED BY <2>1, <2>2, <2>3, <2>5
<1>15. \A p \in H.kept : heap'[p].level = heap[p].level
  <2>1. \A p \in H.kept : WithArgument[p].level = heap[p].level
    BY <1>5, LevelsKept
  <2>2. H.kept \subseteq Objects /\ \A p \in H.kept : IsMade(WithArgument, p)
    BY <1>5, HoldsFields DEF Fine
  <2>3. \A p \in H.kept : heap'[p].level = WithArgument[p].level
    BY <1>1, <1>8, <1>10, <2>2 DEF BindInv, Unchanged, SameBut
  <2> QED BY <2>1, <2>3
<1>16. control'.do = "evaluate" /\ control' \in Controls /\ HandOf(control') = {}
  BY <1>1, <1>6, EvaluateIs, ControlsAre, NothingInHand
<1>17. Course(H)
  BY <1>14, <1>15, <1>16 DEF Course
<1>18. frames' \in Seq(Frames) /\ Held(frames') = Held(Below)
  <2>1. <<f>> \o Below \in Seq(Frames)
    BY <1>3, <1>13, PushIs
  <2>2. Held(<<f>> \o Below) = HeldBy(f) \cup Held(Below)
    BY <1>3, HeldPush
  <2> QED BY <1>1, <1>13, <2>1, <2>2
<1>19. Tended
  <2>1. /\ Loose(heap') \subseteq Loose(WithArgument)
        /\ Tidy(WithArgument) /\ AllMade(WithArgument, Args) => Tidy(heap')
        /\ Ranked(WithArgument) => Ranked(heap')
    BY <1>1, <1>8, <1>10 DEF BindInv, Better
  <2>2. Ranked(heap) => Ranked(heap')
    BY <1>5, <2>1, RankedShrinks
  <2> QED BY <1>1, <1>5, <1>16, <1>18, <2>1, <2>2 DEF Tended, AllAlive, Tracked, Hands
<1>20. Head(frames') = f
  BY <1>1, <1>3, <1>13
<1>21. Entered
  <2>1. /\ Len(stack') = Len(stack) + Len(Args)
        /\ \A i \in 1 .. Len(stack) : stack'[i] = stack[i]
        /\ \A i \in Len(stack) + 1 .. Len(stack') :
             IsMade(heap', stack'[i].obj) /\ heap'[stack'[i].obj].level = level + 1
    BY <1>1, <1>8, <1>10 DEF BindInv, Extends
  <2>2. stack'[Len(stack) + 1].obj = b.instances[Len(Args)] /\ Len(b.instances) = Len(Args)
    BY <1>1, <1>8, <1>10, <1>11 DEF BindInv
  <2>3. Len(Args) \in DOMAIN b.instances /\ Len(stack) \in Nat
    BY <1>3, <1>11, <2>2 DEF Stacks
  <2>4. Len(stack') > Len(stack)
    BY <1>11, <2>1, <2>3
  <2>5. frames' = <<Head(frames')>> \o Below /\ Head(frames') \in Frames
    BY <1>1, <1>13, <1>20
  <2>6. /\ Head(frames').pos = Len(stack) /\ Head(frames').level = level /\ Head(frames').at = "body"
        /\ Head(frames').instances = b.instances
    BY <1>12, <1>20
  <2>7. \E i \in DOMAIN Head(frames').instances : Head(frames').instances[i] = stack'[Len(stack) + 1].obj
    BY <2>2, <2>3, <2>6
  <2>8. \A i \in 1 .. Len(stack) : stack'[i] = stack[i]
    BY <2>1
  <2>9. \A i \in Len(stack) + 1 .. Len(stack') :
             IsMade(heap', stack'[i].obj) /\ heap'[stack'[i].obj].level = level + 1
    BY <2>1
  <2> QED BY <2>4, <2>5, <2>6, <2>7, <2>8, <2>9 DEF Entered
<1>22. level' \in Int /\ leaked' \in Seq(Objects) /\ orphans' \subseteq Objects
  BY <1>1, <1>3
<1>23. Shape'
  BY <1>16, <1>18, <1>22 DEF Shape
<1> QED BY <1>17, <1>19, <1>21, <1>23

\* A function of any type that fails leaves its variables where they are.
Fails == control.obj = Nil /\ Top.op.gra = "Anything"
EndStack == IF Fails THEN stack ELSE Cut(stack, Top.pos)
Leaks == IF Fails THEN leaked \o Top.instances ELSE leaked
Ended ==
  [EndFunction(Memory, Top, control.obj) EXCEPT !.heap = SafeDestroyList(@, Top.args, control.obj)]

LEMMA BodyIs ==
  ASSUME TypeOK, Returns("body"), NEW H, Ready(H)
  PROVE  /\ Top \in BodyFrames /\ Top.at = "body" /\ Top.args \in Seq(Objects) /\ Top.instances \in Seq(Objects)
         /\ Top.pos \in Nat /\ Top.level \in Int /\ Lists(Top) = Top.args \o Top.instances
         /\ HeldBy(Top) = {} /\ Held(frames) = Held(Below) /\ Others \in Bags /\ H \in Holds /\ Objs(stack) \in Seq(Objects)
         /\ Leaks \in Seq(Objects) /\ Uses(Below, Leaks) \in Bags
         /\ IF Fails THEN Uses(Below, Leaks) = With(Others, Top.instances) ELSE Uses(Below, Leaks) = Others
         /\ Uses(frames, leaked) = With(With(Others, Top.args), Top.instances)
         /\ Uses(frames, leaked) = With(With(Others, Top.instances), Top.args)
<1>1. /\ frames # <<>> /\ Top.at = "body" /\ MemFine(Memory, Uses(frames, leaked), H)
      /\ Top \in Frames /\ Below \in Seq(Frames) /\ Held(frames) = HeldBy(Top) \cup Held(Below)
  BY ReturnsWhat
<1>2. Top \in BodyFrames /\ Lists(Top) = Top.args \o Top.instances /\ HeldBy(Top) = {}
  BY <1>1, FrameKinds, ListsAre, HoldsNothing
<1>3. Top.args \in Seq(Objects) /\ Top.instances \in Seq(Objects) /\ Top.pos \in Nat /\ Top.level \in Int
  BY <1>2 DEF BodyFrames
<1>4. Others \in Bags /\ H \in Holds /\ Objs(stack) \in Seq(Objects) /\ Uses(frames, leaked) = With(Others, Lists(Top))
  BY <1>1, TopUses
<1>5. Uses(frames, leaked) = With(With(Others, Top.args), Top.instances)
      /\ Uses(frames, leaked) = With(With(Others, Top.instances), Top.args)
  BY <1>2, <1>3, <1>4, WithParts
<1>6. leaked \in Seq(Objects)
  BY DEF TypeOK
<1>7. Leaks \in Seq(Objects)
  BY <1>3, <1>6 DEF Leaks
<1>8. Uses(Below, Leaks) \in Bags
  BY <1>1, <1>7, UsesAreCounted
<1>9. IF Fails THEN Uses(Below, Leaks) = With(Others, Top.instances) ELSE Uses(Below, Leaks) = Others
  <2>1. Uses(Below, leaked \o Top.instances) = With(Uses(Below, leaked), Top.instances)
    BY <1>1, <1>3, <1>6, UsesLeak
  <2> QED BY <2>1 DEF Leaks, Others
<1> QED BY <1>1, <1>2, <1>3, <1>4, <1>5, <1>7, <1>8, <1>9

LEMMA SafeItself ==
  ASSUME NEW h, NEW r
  PROVE  Safe(h, h, r)
BY DEF Safe, Shrunk, SameBut

LEMMA SafeAgain ==
  ASSUME NEW f, NEW g, NEW h, NEW r, Safe(f, g, r), Safe(g, h, r)
  PROVE  Safe(f, h, r)
<1>1. Shrunk(f, h)
  BY ShrunkAgain DEF Safe
<1>2. r # Nil /\ IsMade(f, r) => IsMade(g, r) /\ SameBut(f[r], h[r])
  BY DEF Safe, SameBut, IsMade
<1>3. Tidy(f) /\ Alive(f, r) => Tidy(h)
  BY <1>2 DEF Safe, Alive
<1> QED BY <1>1, <1>2, <1>3 DEF Safe

\* What is left at the end of a function, before its result is copied.
LEMMA EndedIsFine ==
  ASSUME TypeOK, Returns("body"), NEW H, Ready(H), Within(H, With(Uses(Below, Leaks), Objs(EndStack)))
  PROVE  /\ MemFine(Ended, Uses(Below, Leaks), H) /\ Ended.stack = EndStack
         /\ Safe(heap, Ended.heap, control.obj)
         /\ Loose(Ended.heap) \subseteq Loose(heap) \cup {control.obj}
<1> DEFINE o == control.obj
           e == EndFunction(Memory, Top, o)
           V == Uses(Below, Leaks)
           args == Top.args
           A == With(V, args)
<1>1. /\ o \in Objects \cup {Nil} /\ o \notin H.temps /\ MemFine(Memory, Uses(frames, leaked), H)
  BY ReturnsWhat
<1>2. /\ args \in Seq(Objects) /\ Top.instances \in Seq(Objects) /\ Top.pos \in Nat
      /\ Others \in Bags /\ H \in Holds /\ Objs(stack) \in Seq(Objects) /\ V \in Bags
      /\ IF Fails THEN V = With(Others, Top.instances) ELSE V = Others
      /\ Uses(frames, leaked) = With(With(Others, args), Top.instances)
      /\ Uses(frames, leaked) = With(With(Others, Top.instances), args)
  BY BodyIs
<1>3. A \in Bags /\ IsWith(A, V, args)
  BY <1>2, WithIsBag
<1>4. stack \in Stacks /\ Memory.heap = heap /\ Memory.stack = stack
  BY MemoryIs DEF TypeOK
<1>5. EndStack \in Stacks /\ Objs(EndStack) \in Seq(Objects)
  BY <1>2, <1>4, CutIs DEF EndStack
<1>6. Within(H, With(V, Objs(EndStack))) /\ Within(H, With(A, Objs(EndStack)))
      /\ With(V, Objs(EndStack)) \in Bags /\ IsWith(With(A, Objs(EndStack)), With(V, Objs(EndStack)), args)
  <2> DEFINE S == With(V, Objs(EndStack))
  <2>1. Within(H, S)
    OBVIOUS
  <2>2. S \in Bags /\ With(A, Objs(EndStack)) = With(S, args)
    BY <1>2, <1>5, WithSwaps
  <2> HIDE DEF S
  <2>3. IsWith(With(S, args), S, args)
    BY <1>2, <2>2, WithIsBag
  <2>4. Within(H, With(S, args))
    BY <1>2, <2>1, <2>2, <2>3, WithinMore
  <2> HIDE DEF V, args, A
  <2> QED BY <2>1, <2>2, <2>3, <2>4 DEF S
<1> HIDE DEF V, A
<1>7. /\ MemFine(e, A, H) /\ e.stack = EndStack /\ Safe(heap, e.heap, o)
      /\ Loose(e.heap) \subseteq Loose(heap) \cup {o}
  <2>1. CASE Fails
    <3>1. e = Memory /\ EndStack = stack
      BY <2>1 DEF EndFunction, EndStack, Fails
    <3>2. A = Uses(frames, leaked)
      BY <1>2, <2>1 DEF A
    <3> HIDE DEF e
    <3> QED BY <1>1, <1>4, <3>1, <3>2, SafeItself
  <2>2. CASE ~Fails
    <3>1. EndStack = Cut(stack, Top.pos) /\ ~(o = Nil /\ Top.op.gra = "Anything")
      BY <2>2 DEF EndStack, Fails
    <3>2. A = With(Others, args)
      BY <1>2, <2>2 DEF A
    <3>3. IsWith(Uses(frames, leaked), A, Top.instances)
      BY <1>2, <1>3, <3>2, WithIsBag
    <3>4. Within(H, With(A, Objs(Cut(Memory.stack, Top.pos))))
      BY <1>4, <1>6, <3>1
    <3> DEFINE f == Top
    <3>5. e = EndFunction(Memory, f, o)
      OBVIOUS
    <3> DEFINE C == Uses(frames, leaked)
    <3> HIDE DEF f, e, o, C
    <3>6. /\ f.pos \in Nat /\ f.instances \in Seq(Objects) /\ IsWith(C, A, f.instances) /\ ~(o = Nil /\ f.op.gra = "Anything")
          /\ Within(H, With(A, Objs(Cut(Memory.stack, f.pos)))) /\ MemFine(Memory, C, H)
      BY <1>1, <1>2, <3>1, <3>3, <3>4 DEF f, C
    <3>7. /\ MemFine(e, A, H) /\ e.stack = Cut(Memory.stack, f.pos) /\ Safe(Memory.heap, e.heap, o)
          /\ Loose(e.heap) \subseteq Loose(Memory.heap) \cup {o}
      <4>1. IsEnding(Memory, C, A, H, o, f, e)
        BY <1>1, <1>3, <3>5, <3>6 DEF IsEnding
      <4> QED BY <4>1, EndFunctionIsFine
    <3> QED BY <1>4, <3>1, <3>7 DEF f
  <2> QED BY <2>1, <2>2
<1> DEFINE g == SafeDestroyList(e.heap, args, o)
<1>8. Ended = [heap |-> g, stack |-> e.stack]
  <2>1. e = [heap |-> e.heap, stack |-> e.stack]
    BY <1>7, MemFields
  <2>2. Ended = [e EXCEPT !.heap = SafeDestroyList(@, args, o)]
    BY DEF Ended
  <2> HIDE DEF e
  <2>3. [[heap |-> e.heap, stack |-> e.stack] EXCEPT !.heap = SafeDestroyList(@, args, o)] = [heap |-> g, stack |-> e.stack]
    OBVIOUS
  <2> QED BY <2>1, <2>2, <2>3
<1> HIDE DEF e, o, args
<1>9. /\ Fine(g, With(V, Objs(EndStack)), H) /\ Safe(e.heap, g, o) /\ Loose(g) \subseteq Loose(e.heap) \cup {o}
  <2>1. Fine(e.heap, With(A, Objs(EndStack)), H)
    BY <1>7, MemFields
  <2> QED BY <1>1, <1>2, <1>6, <2>1, SafeDestroyListIsFine
<1> HIDE DEF g
<1>10. MemFine(Ended, V, H) /\ Ended.heap = g /\ Ended.stack = EndStack
  BY <1>2, <1>5, <1>7, <1>8, <1>9, MemIsFine
<1>11. Safe(heap, g, o)
  BY <1>7, <1>9, SafeAgain
<1>12. Loose(g) \subseteq Loose(heap) \cup {o}
  BY <1>7, <1>9
<1> QED BY <1>10, <1>11, <1>12 DEF V, o

\* A function returns: its result, or a copy of a number.
LEMMA FunctionReturnsGoes ==
  ASSUME TypeOK, FunctionReturns, NEW H, Ready(H), Within(H, With(Uses(Below, Leaks), Objs(EndStack)))
  PROVE  /\ Course(H) /\ Tended /\ Shape'
         /\ stack' = EndStack /\ leaked' = Leaks /\ level' = Top.level /\ frames' = Below
<1> DEFINE o == control.obj
           e == Ended
           V == Uses(Below, Leaks)
           copies == o # Nil /\ e.heap[o].kind = "Real"
           k == NextObject(e.heap)
           n == IF copies THEN ResultCopied(e, o, Top.level) ELSE e
           r == IF copies THEN k ELSE o
<1>1. /\ Returns("body") /\ (copies => Room(e.heap, 1)) /\ heap' = n.heap /\ stack' = n.stack
      /\ control' = Return(r) /\ leaked' = Leaks /\ level' = Top.level /\ frames' = Below /\ orphans' = orphans
  BY DEF FunctionReturns, Ended, Leaks, Fails, Leaves
<1>2. /\ o \in Objects \cup {Nil} /\ o \notin H.temps /\ HandOf(control) = {o} /\ Below \in Seq(Frames)
      /\ Held(frames) = HeldBy(Top) \cup Held(Below) /\ (Whole => Alive(heap, o))
  BY <1>1, ReturnsWhat
<1>3. /\ Top.level \in Int /\ HeldBy(Top) = {} /\ Held(frames) = Held(Below) /\ Leaks \in Seq(Objects)
  BY <1>1, BodyIs
<1>4. /\ MemFine(e, V, H) /\ e.stack = EndStack /\ Safe(heap, e.heap, o) /\ Loose(e.heap) \subseteq Loose(heap) \cup {o}
  BY <1>1, EndedIsFine
<1>5. orphans \subseteq Objects
  BY DEF TypeOK
<1> HIDE DEF e, V, k, o
<1>6. /\ MemFine(n, V, H) /\ n.stack = EndStack /\ r \in Objects \cup {Nil} /\ r \notin H.temps
      /\ \A p \in H.kept : n.heap[p].level = heap[p].level
      /\ (Whole => Tidy(n.heap) /\ Alive(n.heap, r) /\ (Ranked(heap) => Ranked(n.heap)))
      /\ Loose(n.heap) \subseteq (Loose(heap) \ {o}) \cup {r}
  <2>1. \A p \in H.kept : e.heap[p].level = heap[p].level
    <3>1. Fine(e.heap, With(V, Objs(e.stack)), H)
      BY <1>4, MemFields
    <3> QED BY <1>4, <3>1, LevelsKept DEF Safe
  <2>2. Whole => Tidy(e.heap) /\ Alive(e.heap, o) /\ (Ranked(heap) => Ranked(e.heap))
    <3>1. Alive(heap, o) => Alive(e.heap, o)
      BY <1>4 DEF Safe, Alive, SameBut, IsMade
    <3>2. Ranked(heap) => Ranked(e.heap)
      BY <1>4, RankedShrinks DEF Safe
    <3> QED BY <1>2, <1>4, <3>1, <3>2 DEF Safe, Whole
  <2>3. CASE ~copies
    BY <1>2, <1>4, <2>1, <2>2, <2>3
  <2>4. CASE copies
    <3> DEFINE nm == e.heap[o].name
               c == ResultCopied(e, o, Top.level)
    <3>1. o \in Objects /\ o # Nil /\ Room(e.heap, 1) /\ e.heap \in Heaps
      BY <1>1, <1>2, <1>4, <2>4, MemFields
    <3>2. nm \in Names \cup {NoName} /\ NoName \in Names \cup {NoName}
      BY <3>1, HeapFields
    <3>3. IsCopy(e, c, k, nm, Top.level, o, NoName)
      BY DEF IsCopy, ResultCopied, k
    <3>4. n = c /\ r = k
      BY <2>4
    <3> HIDE DEF c, nm, n, r
    <3>5. MemFine(c, V, H) /\ IsRenamed(e, c, k, o, NoName, Top.level) /\ k \notin H.temps /\ k \notin H.kept
      BY <1>2, <1>3, <1>4, <3>1, <3>2, <3>3, CopyIsFine
    <3>6. c.stack = e.stack /\ Grows(e.heap, c.heap, k) /\ Loose(c.heap) \subseteq (Loose(e.heap) \ {o}) \cup {k}
      BY <3>5 DEF IsRenamed, Pushed
    <3>7. \A p \in H.kept : c.heap[p].level = heap[p].level
      <4>1. Fine(c.heap, With(V, Objs(c.stack)), H)
        BY <3>5, MemFields
      <4>2. \A p \in H.kept : c.heap[p].level = e.heap[p].level
        BY <3>5, <3>6, <4>1, GrowsKeeps
      <4> QED BY <2>1, <4>2
    <3>8. Whole => Tidy(c.heap) /\ Alive(c.heap, k) /\ (Ranked(heap) => Ranked(c.heap))
      <4>1. ASSUME Whole PROVE Tidy(c.heap) /\ IsMade(c.heap, k) /\ (Ranked(e.heap) => Ranked(c.heap))
        <5>1. Tidy(e.heap) /\ IsMade(e.heap, o)
          BY <2>2, <3>1, <4>1 DEF Alive
        <5> QED BY <1>4, <3>5, <5>1, RenamedLives
      <4> QED BY <2>2, <4>1 DEF Alive
    <3>9. k \in Objects
      BY <3>6 DEF Grows
    <3> QED BY <1>4, <3>4, <3>5, <3>6, <3>7, <3>8, <3>9
  <2> QED BY <2>3, <2>4
<1> HIDE DEF n, r
<1>7. MemFine(NextMemory, Uses(frames', leaked'), H)
  <2>1. n = [heap |-> n.heap, stack |-> n.stack]
    BY <1>6, MemFields
  <2>2. NextMemory = n
    BY <1>1, <2>1 DEF NextMemory
  <2> QED BY <1>1, <1>6, <2>2 DEF V
<1>8. Whole /\ Tracked(heap, control, frames, orphans) => Loose(heap') \subseteq {r} \cup Held(frames') \cup orphans'
  BY <1>1, <1>2, <1>3, <1>6 DEF Tracked, Hands
<1>9. Course(H) /\ Tended
  BY <1>1, <1>6, <1>7, <1>8, ReturnGoes
<1>10. control' \in Controls
  BY <1>1, <1>6, ControlsAre
<1> QED BY <1>1, <1>2, <1>3, <1>5, <1>6, <1>9, <1>10 DEF Shape

-----------------------------------------------------------------------------
\* Elements, and values of variables

\* What refers to an object counts.
LEMMA ReferredIsCounted ==
  ASSUME NEW h, NEW B, NEW H, Fine(h, B, H), NEW p \in Objects, NEW i \in DOMAIN h[p].refs
  PROVE  h[p].refs[i] \in Objects /\ h[h[p].refs[i]].nRefs > 0
<1> DEFINE o == h[p].refs[i]
<1>1. h \in Heaps /\ B \in Bags
  BY HoldsFields
<1>2. o \in Objects
  <2>1. h[p].refs \in Seq(Objects) /\ i \in 1 .. Len(h[p].refs)
    BY <1>1, HeapFields
  <2> QED BY <2>1, ElementOf
<1>3. Refers(h, p, o)
  BY DEF Refers
<1> HIDE DEF o
<1>4. Cardinality(RefUses(h, o)) > 0 /\ Cardinality(RefUses(h, o)) \in Nat
  BY <1>1, <1>2, <1>3, RefUsesFinite
<1>5. h[o].nRefs = B[o] + Cardinality(RefUses(h, o)) /\ B[o] \in Nat
  BY <1>2, HoldsFields DEF Fine, Exact
<1> QED BY <1>2, <1>4, <1>5 DEF o

LEMMA FoundIs ==
  ASSUME TypeOK, NEW B, NEW H, Fine(heap, B, H), NEW set \in Objects, NEW e \in Found(set)
  PROVE  e \in Objects \cup {Nil} /\ e \notin H.temps /\ (Tidy(heap) => Alive(heap, e))
<1>1. CASE e = Nil
  BY <1>1, NilIsNone DEF Alive
<1>2. CASE e # Nil
  <2> DEFINE c == Contens(heap, set)
  <2>1. e \in Range(heap[c].refs)
    BY <1>2 DEF Found
  <2>2. c \in Objects
    BY ContensIsObject DEF TypeOK
  <2> HIDE DEF c
  <2>3. PICK i \in DOMAIN heap[c].refs : e = heap[c].refs[i]
    BY <2>1 DEF Range
  <2>4. e \in Objects /\ heap[e].nRefs > 0
    BY <2>2, <2>3, ReferredIsCounted
  <2>5. e \notin H.temps /\ (Tidy(heap) => IsMade(heap, e))
    BY <2>4, CountedIsAlive
  <2> QED BY <2>4, <2>5 DEF Alive
<1> QED BY <1>1, <1>2

LEMMA IndexIs ==
  ASSUME TypeOK, Returns("index"), NEW H, Ready(H)
  PROVE  /\ Top.set \in Objects /\ Top.set \notin H.temps /\ Lists(Top) = <<>> /\ HeldBy(Top) = {Top.set}
         /\ Uses(frames, leaked) = Uses(Below, leaked)
<1>1. /\ frames # <<>> /\ Top.at = "index" /\ Top \in Frames /\ Below \in Seq(Frames) /\ frames = <<Top>> \o Below
  BY ReturnsWhat
<1>2. Top \in IndexFrames /\ HeldBy(Top) = {Top.set} /\ Lists(Top) = <<>>
  BY <1>1, FrameKinds, EmptyLists DEF HeldBy
<1>3. Top.set \in Objects /\ Top.set \notin H.temps
  BY <1>1, <1>2 DEF IndexFrames, Ready
<1>4. leaked \in Seq(Objects)
  BY DEF TypeOK
<1> QED BY <1>1, <1>2, <1>3, <1>4, UsesOfEmpty

LEMMA GetElementGoes ==
  ASSUME TypeOK, GetElement, NEW H, Ready(H)
  PROVE  Course(H) /\ Tended /\ Shape' /\ stack' = stack
<1> DEFINE o == control.obj
           U == Uses(frames, leaked)
           B == With(U, Objs(stack))
           set == Top.set
<1>1. /\ Returns("index") /\ frames' = Below /\ stack' = stack /\ level' = level /\ leaked' = leaked
      /\ orphans' = IF DeletesIndex THEN orphans ELSE orphans \cup Unreferenced(o)
  BY DEF GetElement
<1>2. PICK e \in IF o = Nil THEN {Nil} ELSE Found(set) :
        /\ heap' = SafeDestroy(IF DeletesIndex THEN SafeDestroy(heap, o, e) ELSE heap, set, e)
        /\ control' = Return(e)
  BY DEF GetElement
<1>3. /\ o \in Objects \cup {Nil} /\ o \notin H.temps /\ HandOf(control) = {o} /\ frames # <<>>
      /\ MemFine(Memory, U, H) /\ Below \in Seq(Frames)
      /\ Held(frames) = HeldBy(Top) \cup Held(Below) /\ (Whole => Alive(heap, o))
  BY <1>1, ReturnsWhat
<1>4. /\ set \in Objects /\ set \notin H.temps /\ HeldBy(Top) = {set} /\ U = Uses(Below, leaked)
  BY <1>1, IndexIs
<1>5. leaked \in Seq(Objects) /\ orphans \subseteq Objects /\ level \in Int /\ heap \in Heaps /\ stack \in Stacks
  BY DEF TypeOK
<1>6. Fine(heap, B, H) /\ U \in Bags
  BY <1>3, MemFields, MemoryIs
<1> HIDE DEF U, B, o, set
<1>7. e \in Objects \cup {Nil} /\ e \notin H.temps /\ (Tidy(heap) => Alive(heap, e))
  <2>1. CASE o = Nil
    <3>1. e = Nil
      BY <1>2, <2>1
    <3> QED BY <1>6, <3>1, NilIsNone DEF Alive
  <2>2. CASE o # Nil
    <3>1. e \in Found(set)
      BY <1>2, <2>2
    <3> QED BY <1>4, <1>6, <3>1, FoundIs
  <2> QED BY <2>1, <2>2
<1> DEFINE f == IF DeletesIndex THEN SafeDestroy(heap, o, e) ELSE heap
<1>8. /\ Fine(f, B, H) /\ Safe(heap, f, e) /\ Loose(f) \subseteq Loose(heap) \cup {e}
      /\ DeletesIndex => Loose(f) \subseteq (Loose(heap) \ {o}) \cup {e}
  <2>1. CASE DeletesIndex
    <3>1. f = SafeDestroy(heap, o, e)
      BY <2>1
    <3>2. /\ Fine(SafeDestroy(heap, o, e), B, H) /\ Safe(heap, SafeDestroy(heap, o, e), e)
          /\ Loose(SafeDestroy(heap, o, e)) \subseteq (Loose(heap) \ {o}) \cup {e}
      BY <1>3, <1>6, <1>7, SafeDestroyIsFine DEF o
    <3> QED BY <3>1, <3>2
  <2>2. CASE ~DeletesIndex
    BY <1>6, <2>2, SafeItself
  <2> QED BY <2>1, <2>2
<1>9. heap' = SafeDestroy(f, set, e)
  BY <1>2
<1> HIDE DEF f
<1>10. /\ Fine(heap', B, H) /\ Safe(f, heap', e) /\ Loose(heap') \subseteq (Loose(f) \ {set}) \cup {e}
  BY <1>4, <1>7, <1>8, <1>9, SafeDestroyIsFine
<1>11. Safe(heap, heap', e)
  BY <1>8, <1>10, SafeAgain
<1>12. MemFine(NextMemory, Uses(frames', leaked'), H)
  <2>1. NextMemory = [heap |-> heap', stack |-> stack]
    BY <1>1 DEF NextMemory
  <2>2. U = Uses(frames', leaked')
    BY <1>1, <1>4
  <2>3. Fine(heap', With(U, Objs(stack)), H)
    BY <1>10 DEF B
  <2> QED BY <1>5, <1>6, <2>1, <2>2, <2>3, MemIsFine
<1>13. \A p \in H.kept : heap'[p].level = heap[p].level
  BY <1>10, <1>11, LevelsKept DEF Safe
<1>14. Whole => Tidy(heap') /\ Alive(heap', e) /\ (Ranked(heap) => Ranked(heap'))
  <2>1. Ranked(heap) => Ranked(heap')
    BY <1>11, RankedShrinks DEF Safe
  <2>2. Alive(heap, e) => Alive(heap', e)
    BY <1>11 DEF Safe, Alive, SameBut, IsMade
  <2> QED BY <1>7, <1>11, <2>1, <2>2 DEF Safe, Whole
<1>15. Tracked(heap, control, frames, orphans) => Loose(heap') \subseteq {e} \cup Held(frames') \cup orphans'
  <2> SUFFICES ASSUME Tracked(heap, control, frames, orphans), NEW x \in Loose(heap'), x # e
               PROVE  x \in Held(frames') \cup orphans'
    OBVIOUS
  <2>1. x \in Loose(f) /\ x # set
    BY <1>10
  <2>2. x \in Loose(heap) /\ (DeletesIndex => x # o)
    BY <1>8, <2>1
  <2>3. x \in {o} \cup {set} \cup Held(Below) \cup orphans
    BY <1>3, <1>4, <2>2 DEF Tracked, Hands
  <2>4. CASE x = o
    <3>1. ~DeletesIndex
      BY <2>2, <2>4
    <3>2. orphans' = orphans \cup Unreferenced(o)
      BY <1>1, <3>1
    <3>3. x \in Unreferenced(o)
      BY <2>2, <2>4, ObjectsFinite DEF Loose, Unreferenced
    <3> QED BY <3>2, <3>3
  <2>5. orphans \subseteq orphans' /\ Held(frames') = Held(Below)
    BY <1>1
  <2> QED BY <2>1, <2>3, <2>4, <2>5
<1>16. Course(H) /\ Tended
  BY <1>2, <1>7, <1>12, <1>13, <1>14, <1>15, ReturnGoes
<1>17. control' \in Controls
  BY <1>2, <1>7, ControlsAre
<1>18. orphans' \subseteq Objects
  BY <1>1, <1>3, <1>5, UnreferencedIs DEF o
<1> QED BY <1>1, <1>3, <1>5, <1>16, <1>17, <1>18 DEF Shape

\* An assignment, if the elements of the set assigned support nothing that is held.
LEMMA PutValueGoes ==
  ASSUME TypeOK, PutValue, NEW H, Ready(H), SupportedBut(heap, H, Contens(heap, Top.target))
  PROVE  Course(H) /\ Shape' /\ stack' = stack
<1> DEFINE o == control.obj
           U == Uses(frames, leaked)
           B == With(U, Objs(stack))
           t == Top.target
           h == IF heap[t].kind = "Set" THEN CopySet(heap, t, o) ELSE heap
<1>1. /\ Returns("value") /\ frames' = Below /\ level' = level /\ leaked' = leaked /\ orphans' = orphans
      /\ control' = Return(t)
  BY DEF PutValue, NoLoss
<1>2. /\ o \in Objects \cup {Nil} /\ o \notin H.temps /\ frames # <<>> /\ Top.at = "value"
      /\ MemFine(Memory, U, H) /\ Top \in Frames /\ Below \in Seq(Frames) /\ frames = <<Top>> \o Below
  BY <1>1, ReturnsWhat
<1>3. t \in Objects /\ t \notin H.temps /\ Lists(Top) = <<>>
  <2>1. Top \in ValueFrames /\ HeldBy(Top) = {t} /\ Lists(Top) = <<>>
    BY <1>2, FrameKinds, EmptyLists DEF HeldBy
  <2> QED BY <1>2, <2>1 DEF ValueFrames, Ready
<1>4. leaked \in Seq(Objects) /\ orphans \subseteq Objects /\ level \in Int /\ heap \in Heaps /\ stack \in Stacks
  BY DEF TypeOK
<1>5. U = Uses(Below, leaked)
  BY <1>2, <1>3, <1>4, UsesOfEmpty
<1>6. Fine(heap, B, H) /\ U \in Bags
  BY <1>2, MemFields, MemoryIs
<1>7. stack' = stack /\ heap' = IF o = Nil \/ o = t THEN heap ELSE SafeDestroy(h, o, t)
  BY DEF PutValue, Keep
<1>8. SupportedBut(heap, H, Contens(heap, t))
  OBVIOUS
<1> HIDE DEF U, B, o, t
<1>9. /\ Fine(heap', B, H) /\ \A p \in H.kept : heap'[p].level = heap[p].level
  <2>1. CASE o = Nil \/ o = t
    <3>1. heap' = heap
      BY <1>7, <2>1
    <3> QED BY <1>6, <3>1
  <2>2. CASE ~(o = Nil \/ o = t)
    <3>1. o \in Objects /\ heap' = SafeDestroy(h, o, t)
      BY <1>2, <1>7, <2>2 DEF o
    <3>2. Fine(h, B, H) /\ \A p \in H.kept : h[p].level = heap[p].level
      <4>1. CASE heap[t].kind = "Set"
        <5> DEFINE c == Contens(heap, t)
                   v == Contens(heap, o)
        <5>1. Fine(CopySet(heap, t, o), B, H) /\ IsCopied(heap, CopySet(heap, t, o), c, v, H)
          BY <1>3, <1>6, <1>8, <3>1, CopySetIsFine DEF t
        <5>2. \A p \in H.kept : CopySet(heap, t, o)[p].level = heap[p].level
          BY <5>1 DEF IsCopied
        <5> QED BY <4>1, <5>1, <5>2
      <4>2. CASE heap[t].kind # "Set"
        BY <1>6, <4>2
      <4> QED BY <4>1, <4>2
    <3> HIDE DEF h
    <3>3. Fine(heap', B, H) /\ Safe(h, heap', t)
      BY <1>2, <1>3, <3>1, <3>2, SafeDestroyIsFine DEF o, t
    <3>4. \A p \in H.kept : heap'[p].level = h[p].level
      BY <3>3, LevelsKept DEF Safe
    <3> QED BY <3>2, <3>3, <3>4
  <2> QED BY <2>1, <2>2
<1>10. MemFine(NextMemory, Uses(frames', leaked'), H)
  <2>1. NextMemory = [heap |-> heap', stack |-> stack]
    BY <1>7 DEF NextMemory
  <2>2. U = Uses(frames', leaked')
    BY <1>1, <1>5
  <2>3. Fine(heap', With(U, Objs(stack)), H)
    BY <1>9 DEF B
  <2> QED BY <1>4, <1>6, <2>1, <2>2, <2>3, MemIsFine
<1>11. HandOf(control') \cap H.temps = {}
  BY <1>1, <1>3, ReturnIs
<1>12. control' \in Controls
  BY <1>1, <1>3, ControlsAre DEF t
<1> QED BY <1>1, <1>2, <1>4, <1>7, <1>9, <1>10, <1>11, <1>12 DEF Course, Shape

-----------------------------------------------------------------------------
\* References are counted

\* A hold on nothing.
NoHold == [bag |-> [o \in Objects |-> 0], kept |-> {}, temps |-> {}]
\* What holds of every step.
CountInv == TypeOK /\ MemFine(Memory, Uses(frames, leaked), NoHold)

LEMMA NoHoldIs ==
  /\ NoHold \in Holds /\ NoHold.kept = {} /\ NoHold.temps = {} /\ \A o \in Objects : NoHold.bag[o] = 0
  /\ \A B \in Bags : Within(NoHold, B)
<1>1. NoHold \in Holds /\ NoHold.kept = {} /\ NoHold.temps = {} /\ \A o \in Objects : NoHold.bag[o] = 0
  BY DEF NoHold, Holds, Bags
<1> QED BY <1>1 DEF Within, Bags

LEMMA CountInvInit ==
  ASSUME Init
  PROVE  CountInv
<1> DEFINE f == [at |-> "block", gra |-> "Anything", force |-> TRUE, pos |-> 0, items |-> <<>>]
<1>1. /\ heap = [o \in Objects |-> Free] /\ stack = <<>> /\ level = 1 /\ frames = <<f>>
      /\ control = Evaluate("Anything", TRUE) /\ leaked = <<>> /\ orphans = {}
  BY DEF Init
<1>2. f \in Frames /\ Lists(f) = <<>>
  <2>1. f \in BlockFrames
    BY ControlsAre DEF BlockFrames
  <2>2. Lists(f) = <<>>
    BY DEF Lists
  <2> QED BY <2>1, <2>2 DEF Frames
<1> HIDE DEF f
<1>3. heap \in Heaps
  BY <1>1, FreeIsRecord DEF Heaps
<1>4. stack \in Stacks /\ leaked \in Seq(Objects) /\ orphans \subseteq Objects /\ level \in Int
  BY <1>1 DEF Stacks
<1>5. control \in Controls
  BY <1>1, ControlsAre
<1>6. TypeOK
  <2>1. frames \in Seq(Frames)
    BY <1>1, <1>2
  <2> QED BY <1>3, <1>4, <1>5, <2>1 DEF TypeOK
<1>7. \A o \in Objects : Uses(frames, leaked)[o] = 0
  <2> DEFINE e == <<>>
  <2>1. e \in Seq(Frames) /\ frames = <<f>> \o e
    BY <1>1, <1>2
  <2>2. Uses(frames, leaked) = Uses(e, leaked)
    <3> HIDE DEF e
    <3> QED BY <1>2, <1>4, <2>1, UsesOfEmpty
  <2>3. ASSUME NEW o \in Objects PROVE Uses(e, leaked)[o] = 0
    <3>1. FrameUses(e, o) = {}
      BY DEF FrameUses
    <3>2. Occurrences(o, leaked) = 0
      <4>1. {i \in DOMAIN leaked : leaked[i] = o} = {}
        BY <1>1
      <4> QED BY <4>1, FS_EmptySet DEF Occurrences
    <3> HIDE DEF e
    <3> QED BY <3>1, <3>2, FS_EmptySet DEF Uses
  <2> QED BY <2>2, <2>3
<1>8. Uses(frames, leaked) \in Bags
  BY <1>4, <1>6, UsesAreCounted DEF TypeOK
<1> DEFINE U == Uses(frames, leaked)
           B == With(U, Objs(stack))
<1>9. B \in Bags /\ \A o \in Objects : B[o] = 0
  <2> HIDE DEF U
  <2>1. Objs(stack) = <<>>
    BY <1>1 DEF Objs
  <2>2. B = U
    BY <1>4, <1>8, <2>1, WithParts DEF U
  <2> QED BY <1>7, <1>8, <2>2 DEF U
<1> HIDE DEF B
<1>10. Exact(heap, B)
  <2> SUFFICES ASSUME NEW o \in Objects PROVE heap[o].nRefs = B[o] + Cardinality(RefUses(heap, o))
    BY DEF Exact
  <2>1. \A p \in Objects : heap[p].refs = <<>> /\ heap[p].nRefs = 0
    BY <1>1 DEF Free
  <2>2. RefUses(heap, o) = {}
    BY <2>1, ReferencesAre DEF RefUses
  <2> QED BY <1>9, <2>1, <2>2, FS_EmptySet
<1>11. Fine(heap, B, NoHold)
  BY <1>3, <1>9, <1>10, NoHoldIs DEF Fine, Supported
<1>12. MemFine(Memory, U, NoHold)
  <2> HIDE DEF U
  <2> QED BY <1>4, <1>8, <1>11, MemIsFine DEF Memory, B, U
<1> QED BY <1>6, <1>12 DEF CountInv

\* Every operation but those that take local variables off.
Inner ==
  \/ Term
  \/ NextStatement \/ CreateObject \/ TypeEnds
  \/ NextArgument \/ BadArguments \/ TooFewArguments \/ DoReal \/ DoSet \/ EnterFunction
  \/ EvaluateIndex \/ GetElement \/ PutValue

\* A hold on what they do not take.
Spared(H) ==
  /\ Returns("arguments") => Within(H, Stacked)
  /\ PutValue => SupportedBut(heap, H, Contens(heap, Top.target))

\* It is so for the hold on nothing.
LEMMA NothingIsTaken ==
  ASSUME CountInv
  PROVE  /\ Ready(NoHold) /\ Spared(NoHold)
         /\ Returns("block") => Within(NoHold, With(Others, Objs(Cut(stack, Top.pos))))
         /\ Returns("body") => Within(NoHold, With(Uses(Below, Leaks), Objs(EndStack)))
<1>1. TypeOK /\ MemFine(Memory, Uses(frames, leaked), NoHold) /\ stack \in Stacks
  BY DEF CountInv, TypeOK
<1>2. Ready(NoHold)
  BY <1>1, NoHoldIs DEF Ready
<1>3. ASSUME frames # <<>> PROVE Within(NoHold, Stacked) /\ Others \in Bags /\ Top \in Frames
  BY <1>1, <1>3, TopUses, NoHoldIs DEF Stacked
<1>4. ASSUME Returns("block") PROVE Within(NoHold, With(Others, Objs(Cut(stack, Top.pos))))
  <2>1. Top \in BlockFrames /\ Others \in Bags
    BY <1>3, <1>4, FrameKinds DEF Returns
  <2>2. Top.pos \in Nat
    BY <2>1 DEF BlockFrames
  <2>3. Objs(Cut(stack, Top.pos)) \in Seq(Objects)
    BY <1>1, <2>2, CutIs
  <2> QED BY <2>1, <2>3, WithIsBag, NoHoldIs
<1>5. ASSUME Returns("body") PROVE Within(NoHold, With(Uses(Below, Leaks), Objs(EndStack)))
  <2>1. Top.pos \in Nat /\ Uses(Below, Leaks) \in Bags /\ Objs(stack) \in Seq(Objects)
    BY <1>1, <1>2, <1>5, BodyIs
  <2>2. Objs(EndStack) \in Seq(Objects)
    BY <1>1, <2>1, CutIs DEF EndStack
  <2> QED BY <2>1, <2>2, WithIsBag, NoHoldIs
<1>6. \A t : SupportedBut(heap, NoHold, t)
  BY NoHoldIs DEF SupportedBut
<1> QED BY <1>2, <1>3, <1>4, <1>5, <1>6 DEF Spared, Returns

LEMMA InnerGoes ==
  ASSUME TypeOK, Inner, NEW H, Ready(H), Spared(H)
  PROVE  Course(H) /\ Shape'
<1>1. TypeOK /\ Ready(H)
  OBVIOUS
<1>2. CASE Term
  <2>1. CASE Constant
    BY <1>1, <2>1, ConstantGoes
  <2>2. CASE Block
    BY <1>1, <2>2, BlockGoes
  <2>3. CASE Element
    BY <1>1, <2>3, ElementGoes
  <2>4. ASSUME NEW n \in Names, Operand(n) PROVE Course(H) /\ Shape'
    BY <1>1, <2>4, OperandGoes
  <2>5. ASSUME NEW n \in Names, Assign(n) PROVE Course(H) /\ Shape'
    BY <1>1, <2>5, AssignGoes
  <2>6. ASSUME NEW k \in Kinds, Typed(k) PROVE Course(H) /\ Shape'
    BY <1>1, <2>6, TypedGoes
  <2>7. ASSUME NEW k \in Kinds, NEW n \in Names, Declare(k, n) PROVE Course(H) /\ Shape'
    BY <1>1, <2>7, DeclareGoes
  <2>8. ASSUME NEW op \in Operators, Call(op) PROVE Course(H) /\ Shape'
    BY <1>1, <2>8, CallGoes
  <2> QED BY <1>2, <2>1, <2>2, <2>3, <2>4, <2>5, <2>6, <2>7, <2>8 DEF Term
<1>3. CASE NextStatement
  BY <1>1, <1>3, NextStatementGoes
<1>5. CASE CreateObject
  BY <1>1, <1>5, CreateObjectGoes
<1>6. CASE TypeEnds
  BY <1>1, <1>6, TypeEndsGoes
<1>7. CASE NextArgument
  BY <1>1, <1>7, NextArgumentGoes
<1>8. Returns("arguments") => Within(H, Stacked)
  BY DEF Spared
<1>9. CASE BadArguments
  <2>1. Within(H, Stacked)
    BY <1>8, <1>9 DEF BadArguments
  <2> QED BY <1>1, <1>9, <2>1, BadArgumentsGoes
<1>10. CASE TooFewArguments
  BY <1>1, <1>10, TooFewArgumentsGoes
<1>11. CASE DoReal
  <2>1. Within(H, Stacked)
    BY <1>8, <1>11 DEF DoReal, ArgumentTaken
  <2> QED BY <1>1, <1>11, <2>1, DoRealGoes
<1>12. CASE DoSet
  <2>1. Within(H, Stacked)
    BY <1>8, <1>12 DEF DoSet, ArgumentTaken
  <2> QED BY <1>1, <1>12, <2>1, DoSetGoes
<1>13. CASE EnterFunction
  BY <1>1, <1>13, EnterFunctionGoes
<1>15. CASE EvaluateIndex
  BY <1>1, <1>15, EvaluateIndexGoes
<1>16. CASE GetElement
  BY <1>1, <1>16, GetElementGoes
<1>17. CASE PutValue
  <2>1. SupportedBut(heap, H, Contens(heap, Top.target))
    BY <1>17 DEF Spared
  <2> QED BY <1>1, <1>17, <2>1, PutValueGoes
<1> QED BY <1>2, <1>3, <1>5, <1>6, <1>7, <1>9, <1>10, <1>11, <1>12, <1>13, <1>15, <1>16, <1>17
        DEF Inner

LEMMA CountInvStep ==
  ASSUME CountInv, [Next]_vars
  PROVE  CountInv'
<1>1. CASE Next
  <2>1. Course(NoHold) /\ Shape'
    <3>1. TypeOK /\ Ready(NoHold) /\ Spared(NoHold)
      BY NothingIsTaken DEF CountInv
    <3>2. CASE Inner
      BY <3>1, <3>2, InnerGoes
    <3>3. CASE BlockEnds
      <4>1. Within(NoHold, With(Others, Objs(Cut(stack, Top.pos))))
        BY <3>3, NothingIsTaken DEF BlockEnds
      <4> QED BY <3>1, <3>3, <4>1, BlockEndsGoes
    <3>4. CASE FunctionReturns
      <4>1. Within(NoHold, With(Uses(Below, Leaks), Objs(EndStack)))
        BY <3>4, NothingIsTaken DEF FunctionReturns
      <4> QED BY <3>1, <3>4, <4>1, FunctionReturnsGoes
    <3> QED BY <1>1, <3>2, <3>3, <3>4 DEF Next, Inner
  <2>2. MemFine(NextMemory, Uses(frames', leaked'), NoHold)
    BY <2>1 DEF Course
  <2>3. heap' \in Heaps /\ stack' \in Stacks
    BY <2>2, MemFields DEF NextMemory
  <2>4. TypeOK'
    BY <2>1, <2>3 DEF Shape, TypeOK
  <2>5. Memory' = NextMemory /\ Uses(frames, leaked)' = Uses(frames', leaked')
    BY DEF Memory, NextMemory, Uses, FrameUses, Lists
  <2>6. MemFine(Memory, Uses(frames, leaked), NoHold)'
    BY <2>2, <2>5 DEF MemFine
  <2> QED BY <2>4, <2>6 DEF CountInv
<1>2. CASE UNCHANGED vars
  <2>1. heap' = heap /\ stack' = stack /\ level' = level /\ frames' = frames /\ control' = control
        /\ leaked' = leaked /\ orphans' = orphans
    BY <1>2 DEF vars
  <2> QED BY <2>1 DEF CountInv, TypeOK, Memory, Uses, MemFine
<1> QED BY <1>1, <1>2

(* Whatever a program of any length makes the interpreter do, every object, variable and      *)
(* frame is of its type, and the count of references that BAtom::IncNRefs and DecNRefs keep   *)
(* is the number of places that refer to the object: 0 if it was destroyed.                   *)
THEOREM CountsStay == Spec => []CountInv
<1>1. Init => CountInv
  BY CountInvInit
<1>2. CountInv /\ [Next]_vars => CountInv'
  BY CountInvStep
<1> QED BY <1>1, <1>2, PTL DEF Spec

LEMMA CountInvCounts ==
  ASSUME CountInv
  PROVE  ReferencesAreCounted
<1> SUFFICES ASSUME NEW o \in Objects
             PROVE  heap[o].nRefs = Occurrences(o, OnStack) + Occurrences(o, leaked)
                      + Cardinality(FrameUses(frames, o)) + Cardinality(RefUses(heap, o))
  BY DEF ReferencesAreCounted
<1>1. /\ TypeOK /\ MemFine(Memory, Uses(frames, leaked), NoHold)
      /\ OnStack = Objs(stack) /\ Memory.heap = heap /\ Memory.stack = stack
  BY DEF CountInv, OnStack, Objs, Memory
<1>2. Uses(frames, leaked) \in Bags /\ Objs(stack) \in Seq(Objects) /\ Fine(heap, With(Uses(frames, leaked), Objs(stack)), NoHold)
  BY <1>1, MemFields
<1>3. heap[o].nRefs = With(Uses(frames, leaked), Objs(stack))[o] + Cardinality(RefUses(heap, o))
  BY <1>2 DEF Fine, Exact
<1>4. With(Uses(frames, leaked), Objs(stack))[o] = Uses(frames, leaked)[o] + Occurrences(o, Objs(stack))
  BY <1>2, WithIsBag
<1>5. Uses(frames, leaked)[o] = Occurrences(o, leaked) + Cardinality(FrameUses(frames, o))
  BY DEF Uses
<1>6. /\ Occurrences(o, Objs(stack)) \in Nat /\ Occurrences(o, leaked) \in Nat
      /\ Cardinality(FrameUses(frames, o)) \in Nat /\ Cardinality(RefUses(heap, o)) \in Nat
  BY <1>1, <1>2, PlacesFinite, FrameUsesFinite, RefUsesFinite DEF TypeOK, Fine
<1> QED BY <1>1, <1>3, <1>4, <1>5, <1>6

THEOREM CountedReferences == Spec => []ReferencesAreCounted
<1>1. CountInv => ReferencesAreCounted
  BY CountInvCounts
<1> QED BY <1>1, CountsStay, PTL

-----------------------------------------------------------------------------
\* Local variables: a hold on those that a step does not take off

StackHold(st) ==
  [bag   |-> [o \in Objects |-> Occurrences(o, Objs(st))],
   kept  |-> {o \in Objects : Occurrences(o, Objs(st)) > 0},
   temps |-> {}]
IsPart(s, t) == \A o \in Objects : Occurrences(o, Objs(s)) <= Occurrences(o, Objs(t))
VariablesMade(h, st) == \A i \in DOMAIN st : IsMade(h, st[i].obj)

LEMMA StackHoldIs ==
  ASSUME NEW st \in Stacks
  PROVE  /\ StackHold(st) \in Holds /\ StackHold(st).temps = {}
         /\ \A o \in Objects : StackHold(st).bag[o] = Occurrences(o, Objs(st)) /\ Occurrences(o, Objs(st)) \in Nat
         /\ \A o : o \in StackHold(st).kept <=> o \in Objects /\ StackHold(st).bag[o] > 0
         /\ \A i \in DOMAIN st : st[i].obj \in StackHold(st).kept
         /\ \A o \in StackHold(st).kept : \E i \in DOMAIN st : st[i].obj = o
<1> DEFINE s == Objs(st)
           b == [o \in Objects |-> Occurrences(o, s)]
<1>1. s \in Seq(Objects) /\ DOMAIN s = DOMAIN st /\ \A i \in DOMAIN st : s[i] = st[i].obj
  BY StackObjects DEF Objs
<1>2. StackHold(st) = [bag |-> b, kept |-> {o \in Objects : Occurrences(o, s) > 0}, temps |-> {}]
  BY DEF StackHold
<1> HIDE DEF s
<1>3. \A o : Occurrences(o, s) \in Nat /\ (Occurrences(o, s) > 0 <=> \E i \in DOMAIN s : s[i] = o)
  BY <1>1, PlacesFinite, OccursInRange
<1>4. b \in Bags /\ \A o \in Objects : b[o] = Occurrences(o, s)
  BY <1>3 DEF Bags
<1>5. ASSUME NEW i \in DOMAIN st PROVE st[i].obj \in Objects /\ Occurrences(st[i].obj, s) > 0
  <2>1. i \in 1 .. Len(s) /\ s[i] = st[i].obj
    BY <1>1
  <2>2. s[i] \in Objects
    BY <1>1, <2>1, ElementOf
  <2> QED BY <1>1, <1>3, <2>1, <2>2
<1>6. ASSUME NEW o \in Objects, Occurrences(o, s) > 0 PROVE \E i \in DOMAIN st : st[i].obj = o
  BY <1>1, <1>3, <1>6
<1> HIDE DEF b
<1>7. StackHold(st) \in Holds /\ StackHold(st).temps = {} /\ StackHold(st).bag = b
      /\ StackHold(st).kept = {o \in Objects : Occurrences(o, s) > 0}
  BY <1>2, <1>4 DEF Holds
<1> QED BY <1>3, <1>4, <1>5, <1>6, <1>7 DEF s

LEMMA PartIsHeld ==
  ASSUME NEW s \in Stacks, NEW t \in Stacks, IsPart(s, t), NEW B \in Bags
  PROVE  Within(StackHold(s), With(B, Objs(t)))
<1> SUFFICES ASSUME NEW o \in Objects PROVE StackHold(s).bag[o] <= With(B, Objs(t))[o]
  BY DEF Within
<1>1. StackHold(s).bag[o] = Occurrences(o, Objs(s)) /\ Occurrences(o, Objs(s)) \in Nat
  BY StackHoldIs
<1>2. Objs(t) \in Seq(Objects)
  BY StackObjects
<1>3. Occurrences(o, Objs(t)) \in Nat /\ B[o] \in Nat /\ With(B, Objs(t))[o] = B[o] + Occurrences(o, Objs(t))
  BY <1>2, PlacesFinite, WithIsBag DEF Bags
<1>4. Occurrences(o, Objs(s)) <= Occurrences(o, Objs(t))
  BY DEF IsPart
<1> QED BY <1>1, <1>3, <1>4

LEMMA VariablesAreHeld ==
  ASSUME NEW m, NEW B, NEW H, MemFine(m, B, H), NEW st \in Stacks, IsPart(st, m.stack), VariablesMade(m.heap, st)
  PROVE  MemFine(m, B, StackHold(st))
<1> DEFINE K == StackHold(st)
           A == With(B, Objs(m.stack))
<1>1. m \in Memories /\ m.stack \in Stacks /\ m.heap \in Heaps /\ B \in Bags /\ A \in Bags /\ Exact(m.heap, A)
  BY MemFields DEF MemFine, Fine
<1>2. /\ K \in Holds /\ K.temps = {} /\ \A o \in K.kept : K.bag[o] > 0
      /\ \A o \in K.kept : \E i \in DOMAIN st : st[i].obj = o
  BY StackHoldIs
<1>3. Within(K, A)
  BY <1>1, PartIsHeld
<1> HIDE DEF K, A
<1>4. \A o \in K.kept : IsMade(m.heap, o)
  BY <1>2 DEF VariablesMade
<1>5. Fine(m.heap, A, K)
  BY <1>1, <1>2, <1>3, <1>4 DEF Fine, Supported
<1> QED BY <1>1, <1>5 DEF MemFine, A, K

\* What is below is a part.
LEMMA CutIsPart ==
  ASSUME NEW st \in Stacks, NEW k \in Nat
  PROVE  /\ IsPart(Cut(st, k), st) /\ Cut(st, k) \in Stacks
         /\ Len(Cut(st, k)) = IF Len(st) <= k THEN Len(st) ELSE k
         /\ \A i \in DOMAIN Cut(st, k) : i \in DOMAIN st /\ i <= k /\ Cut(st, k)[i] = st[i]
<1>1. Len(st) \in Nat /\ DOMAIN st = 1 .. Len(st)
  BY DEF Stacks
<1>2. CASE Len(st) <= k
  <2>1. Cut(st, k) = st
    BY <1>2 DEF Cut
  <2>2. IsPart(st, st)
    <3>1. \A o : Occurrences(o, Objs(st)) \in Nat
      BY StackObjects, PlacesFinite
    <3> QED BY <3>1 DEF IsPart
  <2> QED BY <1>1, <1>2, <2>1, <2>2
<1>3. CASE ~(Len(st) <= k)
  <2> DEFINE c == SubSeq(st, 1, k)
  <2>1. Cut(st, k) = c
    BY <1>3 DEF Cut, Prefix
  <2>2. k < Len(st) /\ st \in Seq(Entries)
    BY <1>1, <1>3 DEF Stacks
  <2>3. c \in Seq(Entries) /\ Len(c) = k /\ DOMAIN c = 1 .. k /\ \A i \in 1 .. k : c[i] = st[i]
    BY <2>2
  <2> HIDE DEF c
  <2>4. ASSUME NEW o PROVE Occurrences(o, Objs(c)) <= Occurrences(o, Objs(st))
    <3> DEFINE P == Places(o, Objs(c))
               Q == Places(o, Objs(st))
    <3>1. P \subseteq Q
      BY <1>1, <2>2, <2>3 DEF Places, Objs
    <3>2. c \in Stacks
      BY <2>3 DEF Stacks
    <3>3. Objs(c) \in Seq(Objects) /\ Objs(st) \in Seq(Objects)
      BY <3>2, StackObjects
    <3>4. /\ IsFiniteSet(Q) /\ Occurrences(o, Objs(c)) = Cardinality(P) /\ Occurrences(o, Objs(st)) = Cardinality(Q)
      BY <3>3, PlacesFinite
    <3> HIDE DEF P, Q
    <3> QED BY <3>1, <3>4, FS_Subset
  <2> QED BY <1>1, <1>3, <2>1, <2>2, <2>3, <2>4 DEF IsPart, Stacks
<1> QED BY <1>2, <1>3

LEMMA ExtendedHasPart ==
  ASSUME NEW s \in Stacks, NEW t \in Stacks, Len(s) <= Len(t), \A i \in DOMAIN s : t[i] = s[i]
  PROVE  IsPart(s, t)
<1>1. Len(s) \in Nat /\ Len(t) \in Nat /\ DOMAIN s = 1 .. Len(s) /\ DOMAIN t = 1 .. Len(t)
  BY DEF Stacks
<1> SUFFICES ASSUME NEW o \in Objects PROVE Occurrences(o, Objs(s)) <= Occurrences(o, Objs(t))
  BY DEF IsPart
<1> DEFINE P == Places(o, Objs(s))
           Q == Places(o, Objs(t))
<1>2. P \subseteq Q
  BY <1>1 DEF Places, Objs
<1>3. Objs(s) \in Seq(Objects) /\ Objs(t) \in Seq(Objects)
  BY StackObjects
<1>4. IsFiniteSet(Q) /\ Occurrences(o, Objs(s)) = Cardinality(P) /\ Occurrences(o, Objs(t)) = Cardinality(Q)
  BY <1>3, PlacesFinite
<1> HIDE DEF P, Q
<1> QED BY <1>2, <1>4, FS_Subset

-----------------------------------------------------------------------------
\* Blocks and functions in progress, the outermost first

At(fs, d) == fs[Len(fs) - d + 1]
IsScope(f) == f.at \in {"block", "body"}
\* The variables that are there at its start; of a function, with the first argument.
Base(f) == IF f.at = "body" THEN f.pos + 1 ELSE f.pos
IsOver(fs, k) == \A d \in 1 .. Len(fs) : IsScope(At(fs, d)) => Base(At(fs, d)) <= k

\* The variables up to the first that a failed function left.
KeptOf(st, lk) == {i \in DOMAIN st : \A j \in 1 .. i : st[j].obj \notin Range(lk)}
LevelsTo(st, h, lk, k, l) == \A i \in KeptOf(st, lk) : i <= k => h[st[i].obj].level <= l

\* A block or a function at a level: those before it are of lower ones.
ScopeFine(f, l, st, h, lk) ==
  /\ Base(f) <= Len(st) /\ LevelsTo(st, h, lk, f.pos, l)
  /\ f.at = "body" => f.level = l /\ \E i \in DOMAIN f.instances : f.instances[i] = st[f.pos + 1].obj
IsLayer(fs, lv, d, st, h, lk) ==
  /\ ~IsScope(At(fs, d)) => lv[d] = lv[d - 1]
  /\ IsScope(At(fs, d)) => /\ lv[d] = lv[d - 1] + 1
                           /\ ScopeFine(At(fs, d), lv[d - 1], st, h, lk)
                           /\ \A e \in 1 .. d - 1 : IsScope(At(fs, e)) => Base(At(fs, e)) <= At(fs, d).pos
IsNest(fs, lv, l, st, h, lk) ==
  /\ lv \in [0 .. Len(fs) -> Int] /\ lv[Len(fs)] = l
  /\ \A d \in 1 .. Len(fs) : IsLayer(fs, lv, d, st, h, lk)
Nests(fs, l, st, h, lk) == \E lv : IsNest(fs, lv, l, st, h, lk)

IsPush(gs, f, fs) == gs = <<f>> \o fs

LEMMA AtPush ==
  ASSUME NEW f \in Frames, NEW fs \in Seq(Frames), NEW gs, IsPush(gs, f, fs)
  PROVE  /\ Len(fs) \in Nat /\ Len(gs) = Len(fs) + 1 /\ At(gs, Len(fs) + 1) = f
         /\ \A d \in 1 .. Len(fs) : At(gs, d) = At(fs, d)
<1>1. Len(fs) \in Nat /\ Len(gs) = Len(fs) + 1 /\ gs[1] = f /\ \A i \in 1 .. Len(fs) : gs[i + 1] = fs[i]
  BY DEF IsPush
<1>2. At(gs, Len(fs) + 1) = f
  <2>1. Len(gs) - (Len(fs) + 1) + 1 = 1
    BY <1>1
  <2> QED BY <1>1, <2>1 DEF At
<1>3. ASSUME NEW d \in 1 .. Len(fs) PROVE At(gs, d) = At(fs, d)
  <2> DEFINE i == Len(fs) - d + 1
  <2>1. i \in 1 .. Len(fs) /\ Len(gs) - d + 1 = i + 1
    BY <1>1
  <2>2. gs[i + 1] = fs[i]
    BY <1>1, <2>1
  <2> HIDE DEF i
  <2>3. At(gs, d) = gs[i + 1]
    BY <2>1 DEF At
  <2>4. At(fs, d) = fs[i]
    BY DEF At, i
  <2> QED BY <2>2, <2>3, <2>4
<1> QED BY <1>1, <1>2, <1>3

LEMMA IsOverPush ==
  ASSUME NEW f \in Frames, NEW fs \in Seq(Frames), NEW gs, IsPush(gs, f, fs), NEW k
  PROVE  IsOver(gs, k) <=> IsOver(fs, k) /\ (IsScope(f) => Base(f) <= k)
<1>1. /\ Len(fs) \in Nat /\ Len(gs) = Len(fs) + 1 /\ At(gs, Len(fs) + 1) = f
      /\ \A d \in 1 .. Len(fs) : At(gs, d) = At(fs, d)
  BY AtPush
<1>2. \A d \in 1 .. Len(gs) : d \in 1 .. Len(fs) \/ d = Len(fs) + 1
  BY <1>1
<1>3. (\A d \in 1 .. Len(fs) : d \in 1 .. Len(gs)) /\ Len(fs) + 1 \in 1 .. Len(gs)
  BY <1>1
<1> HIDE DEF At
<1> QED BY <1>1, <1>2, <1>3 DEF IsOver

\* The calls below are as they were.
LEMMA LayersBelow ==
  ASSUME NEW f \in Frames, NEW fs \in Seq(Frames), NEW gs, IsPush(gs, f, fs),
         NEW lv, NEW mv, \A d \in 0 .. Len(fs) : mv[d] = lv[d],
         NEW st, NEW h, NEW lk, NEW d \in 1 .. Len(fs)
  PROVE  IsLayer(gs, lv, d, st, h, lk) <=> IsLayer(fs, mv, d, st, h, lk)
<1>1. /\ Len(fs) \in Nat /\ \A e \in 1 .. Len(fs) : At(gs, e) = At(fs, e)
  BY AtPush
<1>2. d \in 0 .. Len(fs) /\ d - 1 \in 0 .. Len(fs) /\ \A e \in 1 .. d - 1 : e \in 1 .. Len(fs)
  BY <1>1
<1>3. At(gs, d) = At(fs, d) /\ mv[d] = lv[d] /\ mv[d - 1] = lv[d - 1] /\ \A e \in 1 .. d - 1 : At(gs, e) = At(fs, e)
  BY <1>1, <1>2
<1> QED BY <1>3 DEF IsLayer

\* The innermost call and its level.
TopFine(f, fs, l, m, st, h, lk) ==
  /\ ~IsScope(f) => m = l
  /\ IsScope(f) => m = l + 1 /\ ScopeFine(f, l, st, h, lk) /\ IsOver(fs, f.pos)

LEMMA TopLayer ==
  ASSUME NEW f \in Frames, NEW fs \in Seq(Frames), NEW gs, IsPush(gs, f, fs), NEW lv, NEW st, NEW h, NEW lk
  PROVE  IsLayer(gs, lv, Len(fs) + 1, st, h, lk) <=> TopFine(f, fs, lv[Len(fs)], lv[Len(fs) + 1], st, h, lk)
<1> DEFINE n == Len(fs)
<1>1. /\ n \in Nat /\ At(gs, n + 1) = f /\ \A e \in 1 .. n : At(gs, e) = At(fs, e)
  BY AtPush DEF n
<1>2. (n + 1) - 1 = n
  BY <1>1
<1>3. (\A e \in 1 .. n : IsScope(At(gs, e)) => Base(At(gs, e)) <= f.pos) <=> IsOver(fs, f.pos)
  BY <1>1 DEF IsOver
<1> HIDE DEF n
<1>4. IsLayer(gs, lv, n + 1, st, h, lk) <=>
        /\ ~IsScope(f) => lv[n + 1] = lv[n]
        /\ IsScope(f) => /\ lv[n + 1] = lv[n] + 1
                         /\ ScopeFine(f, lv[n], st, h, lk)
                         /\ \A e \in 1 .. n : IsScope(At(gs, e)) => Base(At(gs, e)) <= f.pos
  BY <1>1, <1>2 DEF IsLayer
<1> QED BY <1>3, <1>4 DEF TopFine, n

LEMMA NestPops ==
  ASSUME NEW f \in Frames, NEW fs \in Seq(Frames), NEW m, NEW st, NEW h, NEW lk, Nests(<<f>> \o fs, m, st, h, lk)
  PROVE  \E l \in Int : Nests(fs, l, st, h, lk) /\ TopFine(f, fs, l, m, st, h, lk) /\ m \in Int
<1> DEFINE gs == <<f>> \o fs
           n == Len(fs)
<1>1. PICK lv : IsNest(gs, lv, m, st, h, lk)
  BY DEF Nests
<1>0. IsPush(gs, f, fs)
  BY DEF IsPush
<1>2. n \in Nat /\ Len(gs) = n + 1
  BY <1>0, AtPush
<1> DEFINE mv == [d \in 0 .. n |-> lv[d]]
<1>3. /\ lv \in [0 .. n + 1 -> Int] /\ lv[n + 1] = m /\ \A d \in 1 .. n + 1 : IsLayer(gs, lv, d, st, h, lk)
  BY <1>1, <1>2 DEF IsNest
<1>4. mv \in [0 .. n -> Int] /\ lv[n] \in Int /\ mv[n] = lv[n] /\ m \in Int /\ \A d \in 0 .. n : mv[d] = lv[d]
  BY <1>2, <1>3
<1> HIDE DEF mv
<1>5. ASSUME NEW d \in 1 .. n PROVE IsLayer(fs, mv, d, st, h, lk)
  <2>1. IsLayer(gs, lv, d, st, h, lk) /\ (\A e \in 0 .. n : mv[e] = lv[e]) /\ IsPush(gs, f, fs)
    BY <1>2, <1>3, <1>4 DEF IsPush
  <2> HIDE DEF gs
  <2>2. IsLayer(gs, lv, d, st, h, lk) <=> IsLayer(fs, mv, d, st, h, lk)
    BY <2>1, LayersBelow
  <2> QED BY <2>1, <2>2
<1>6. TopFine(f, fs, lv[n], m, st, h, lk)
  <2>1. IsLayer(gs, lv, n + 1, st, h, lk)
    BY <1>2, <1>3
  <2> HIDE DEF gs
  <2>2. TopFine(f, fs, lv[n], lv[n + 1], st, h, lk)
    BY <1>0, <2>1, TopLayer
  <2> QED BY <1>3, <2>2
<1>7. IsNest(fs, mv, lv[n], st, h, lk)
  BY <1>4, <1>5 DEF IsNest
<1> QED BY <1>4, <1>6, <1>7 DEF Nests

LEMMA NestPushes ==
  ASSUME NEW f \in Frames, NEW fs \in Seq(Frames), NEW l, NEW m \in Int, NEW st, NEW h, NEW lk,
         Nests(fs, l, st, h, lk), TopFine(f, fs, l, m, st, h, lk)
  PROVE  Nests(<<f>> \o fs, m, st, h, lk)
<1> DEFINE gs == <<f>> \o fs
           n == Len(fs)
<1>1. PICK lv : IsNest(fs, lv, l, st, h, lk)
  BY DEF Nests
<1>0. IsPush(gs, f, fs)
  BY DEF IsPush
<1>2. n \in Nat /\ Len(gs) = n + 1
  BY <1>0, AtPush
<1> DEFINE mv == [d \in 0 .. n + 1 |-> IF d = n + 1 THEN m ELSE lv[d]]
<1>3. /\ lv \in [0 .. n -> Int] /\ lv[n] = l /\ \A d \in 1 .. n : IsLayer(fs, lv, d, st, h, lk)
  BY <1>1 DEF IsNest
<1>4. mv \in [0 .. n + 1 -> Int] /\ mv[n + 1] = m /\ mv[n] = l /\ \A d \in 0 .. n : lv[d] = mv[d]
  BY <1>2, <1>3
<1> HIDE DEF mv
<1>5. \A d \in 1 .. n : IsLayer(gs, mv, d, st, h, lk)
  BY <1>0, <1>2, <1>3, <1>4, LayersBelow
<1>6. IsLayer(gs, mv, n + 1, st, h, lk)
  <2>1. TopFine(f, fs, mv[n], mv[n + 1], st, h, lk)
    BY <1>4
  <2> QED BY <1>0, <2>1, TopLayer
<1>7. \A d \in 1 .. n + 1 : d \in 1 .. n \/ d = n + 1
  BY <1>2
<1> HIDE DEF gs
<1>8. IsNest(gs, mv, m, st, h, lk)
  BY <1>2, <1>4, <1>5, <1>6, <1>7 DEF IsNest
<1> QED BY <1>8 DEF Nests, gs

\* A variable stays where it was, and its level.
IsSteady(st, h, lk, tt, g, kl, k) ==
  /\ \A i \in 1 .. k : i \in DOMAIN st /\ tt[i] = st[i] /\ g[st[i].obj].level = h[st[i].obj].level
  /\ Range(lk) \subseteq Range(kl)

LEMMA KeptBefore ==
  ASSUME NEW st, NEW h, NEW lk, NEW tt \in Stacks, NEW g, NEW kl, NEW k \in Nat, IsSteady(st, h, lk, tt, g, kl, k),
         NEW i \in KeptOf(tt, kl), i <= k
  PROVE  i \in KeptOf(st, lk) /\ tt[i] = st[i] /\ g[tt[i].obj].level = h[st[i].obj].level
<1>1. i \in DOMAIN tt /\ DOMAIN tt = 1 .. Len(tt) /\ Len(tt) \in Nat /\ \A j \in 1 .. i : tt[j].obj \notin Range(kl)
  BY DEF KeptOf, Stacks
<1>2. i \in 1 .. k /\ \A j \in 1 .. i : j \in 1 .. k
  BY <1>1
<1> QED BY <1>1, <1>2 DEF KeptOf, IsSteady

LEMMA LevelsBefore ==
  ASSUME NEW st, NEW h, NEW lk, NEW tt \in Stacks, NEW g, NEW kl, NEW k \in Nat, IsSteady(st, h, lk, tt, g, kl, k),
         NEW j \in Nat, j <= k, NEW l, LevelsTo(st, h, lk, j, l)
  PROVE  LevelsTo(tt, g, kl, j, l)
<1> SUFFICES ASSUME NEW i \in KeptOf(tt, kl), i <= j PROVE g[tt[i].obj].level <= l
  BY DEF LevelsTo
<1>1. i \in Nat
  BY DEF KeptOf, Stacks
<1>2. i <= k
  BY <1>1
<1>3. i \in KeptOf(st, lk) /\ g[tt[i].obj].level = h[st[i].obj].level
  BY <1>2, KeptBefore
<1> QED BY <1>3 DEF LevelsTo

LEMMA ScopeBefore ==
  ASSUME NEW st, NEW h, NEW lk, NEW tt \in Stacks, NEW g, NEW kl, NEW k \in Nat, IsSteady(st, h, lk, tt, g, kl, k),
         k <= Len(tt), NEW f \in Frames, IsScope(f), Base(f) <= k, NEW l, ScopeFine(f, l, st, h, lk)
  PROVE  ScopeFine(f, l, tt, g, kl)
<1>1. f.pos \in Nat /\ f.pos <= k /\ (f.at = "body" => f.pos + 1 <= k) /\ Base(f) \in Nat
  <2>1. f.pos \in Nat
    BY FrameKinds DEF IsScope, BlockFrames, BodyFrames
  <2> QED BY <2>1 DEF Base
<1>2. LevelsTo(tt, g, kl, f.pos, l)
  BY <1>1, LevelsBefore DEF ScopeFine
<1>3. Base(f) <= Len(tt)
  BY <1>1 DEF Stacks
<1>4. f.at = "body" => tt[f.pos + 1] = st[f.pos + 1]
  <2>1. f.at = "body" => f.pos + 1 \in 1 .. k
    BY <1>1
  <2> QED BY <2>1 DEF IsSteady
<1> QED BY <1>2, <1>3, <1>4 DEF ScopeFine

LEMMA NestMoves ==
  ASSUME NEW st, NEW h, NEW lk, NEW tt \in Stacks, NEW g, NEW kl, NEW k \in Nat, IsSteady(st, h, lk, tt, g, kl, k),
         k <= Len(tt), NEW fs \in Seq(Frames), IsOver(fs, k), NEW l, Nests(fs, l, st, h, lk)
  PROVE  Nests(fs, l, tt, g, kl)
<1>1. PICK lv : IsNest(fs, lv, l, st, h, lk)
  BY DEF Nests
<1>2. ASSUME NEW d \in 1 .. Len(fs) PROVE IsLayer(fs, lv, d, tt, g, kl)
  <2> DEFINE f == At(fs, d)
  <2>1. f \in Frames
    <3>1. Len(fs) - d + 1 \in 1 .. Len(fs)
      OBVIOUS
    <3> QED BY <3>1, ElementOf DEF At
  <2>2. IsLayer(fs, lv, d, st, h, lk) /\ (IsScope(f) => Base(f) <= k)
    BY <1>1 DEF IsNest, IsOver
  <2> HIDE DEF f
  <2>3. ASSUME IsScope(f) PROVE ScopeFine(f, lv[d - 1], tt, g, kl)
    <3>1. ScopeFine(f, lv[d - 1], st, h, lk) /\ Base(f) <= k
      BY <2>2, <2>3 DEF IsLayer, f
    <3> QED BY <2>1, <2>3, <3>1, ScopeBefore
  <2> QED BY <2>2, <2>3 DEF IsLayer, f
<1>3. IsNest(fs, lv, l, tt, g, kl)
  BY <1>1, <1>2 DEF IsNest
<1> QED BY <1>3 DEF Nests

\* Every block and function leaves what was before it.
LEMMA NestIsOver ==
  ASSUME NEW fs, NEW l, NEW st, NEW h, NEW lk, Nests(fs, l, st, h, lk)
  PROVE  IsOver(fs, Len(st))
<1>1. PICK lv : IsNest(fs, lv, l, st, h, lk)
  BY DEF Nests
<1> QED BY <1>1 DEF IsNest, IsOver, IsLayer, ScopeFine

-----------------------------------------------------------------------------
\* Variables lie by level

Ascends(st, h, lk, l) ==
  \A i \in KeptOf(st, lk) :
    h[st[i].obj].level <= l /\ \A j \in KeptOf(st, lk) : i < j => h[st[i].obj].level <= h[st[j].obj].level

LEMMA AscendsAgain ==
  ASSUME NEW st \in Stacks, NEW h \in Heaps, NEW lk, NEW tt \in Stacks, NEW g, NEW kl,
         NEW k \in Nat, IsSteady(st, h, lk, tt, g, kl, k),
         NEW l \in Int, NEW m \in Int, Ascends(st, h, lk, l), LevelsTo(st, h, lk, k, m),
         \A i \in KeptOf(tt, kl) : i > k => g[tt[i].obj].level = m
  PROVE  Ascends(tt, g, kl, m)
<1>1. \A i \in KeptOf(tt, kl) : i \in Nat
  BY DEF KeptOf, Stacks
<1>2. ASSUME NEW i \in KeptOf(tt, kl), i <= k
      PROVE  /\ i \in KeptOf(st, lk) /\ g[tt[i].obj].level = h[st[i].obj].level /\ g[tt[i].obj].level <= m
             /\ g[tt[i].obj].level \in Int
  <2>1. i \in KeptOf(st, lk) /\ g[tt[i].obj].level = h[st[i].obj].level
    BY <1>2, KeptBefore
  <2>2. h[st[i].obj].level <= m
    BY <1>2, <2>1 DEF LevelsTo
  <2>3. h[st[i].obj].level \in Int
    <3>1. i \in DOMAIN st
      BY <2>1 DEF KeptOf
    <3>2. st[i].obj \in Objects
      BY <3>1, StackHoldIs, HeapFields DEF Holds
    <3> QED BY <3>2, HeapFields
  <2> QED BY <2>1, <2>2, <2>3
<1>3. ASSUME NEW i \in KeptOf(tt, kl) PROVE g[tt[i].obj].level <= m
  <2>1. CASE i <= k
    BY <1>2, <2>1
  <2>2. CASE i > k
    BY <2>2
  <2> QED BY <1>1, <2>1, <2>2
<1>4. ASSUME NEW i \in KeptOf(tt, kl), NEW j \in KeptOf(tt, kl), i < j
      PROVE  g[tt[i].obj].level <= g[tt[j].obj].level
  <2>1. CASE j <= k
    <3>1. i <= k
      BY <1>1, <1>4, <2>1
    <3> QED BY <1>2, <1>4, <2>1, <3>1 DEF Ascends
  <2>2. CASE j > k
    BY <1>3, <2>2
  <2> QED BY <1>1, <2>1, <2>2
<1> QED BY <1>3, <1>4 DEF Ascends

LevelsInv ==
  /\ CountInv
  /\ VariablesMade(heap, stack)
  /\ Nests(frames, level, stack, heap, leaked)
  /\ Ascends(stack, heap, leaked, level)

\* What a step does to the variables that it does not take off.
LEMMA HeldVariables ==
  ASSUME TypeOK, VariablesMade(heap, stack), MemFine(Memory, Uses(frames, leaked), NoHold),
         NEW st \in Stacks, IsPart(st, stack), \A i \in DOMAIN st : i \in DOMAIN stack /\ stack[i] = st[i]
  PROVE  Ready(StackHold(st))
<1>1. Memory.heap = heap /\ Memory.stack = stack
  BY MemoryIs
<1>2. VariablesMade(heap, st)
  BY DEF VariablesMade
<1>3. MemFine(Memory, Uses(frames, leaked), StackHold(st))
  BY <1>1, <1>2, VariablesAreHeld
<1> QED BY <1>3, StackHoldIs DEF Ready

LEMMA CourseOfVariables ==
  ASSUME NEW st \in Stacks, Course(StackHold(st))
  PROVE  \A i \in DOMAIN st : IsMade(heap', st[i].obj) /\ heap'[st[i].obj].level = heap[st[i].obj].level
<1>1. \A i \in DOMAIN st : st[i].obj \in StackHold(st).kept
  BY StackHoldIs
<1>2. NextMemory.heap = heap'
  BY DEF NextMemory
<1>3. \A o \in StackHold(st).kept : IsMade(heap', o) /\ heap'[o].level = heap[o].level
  BY <1>2 DEF Course, MemFine, Fine
<1> QED BY <1>1, <1>3

LEMMA StackIsSpared ==
  ASSUME LevelsInv
  PROVE  Ready(StackHold(stack)) /\ Spared(StackHold(stack)) /\ IsPart(stack, stack)
<1>1. TypeOK /\ MemFine(Memory, Uses(frames, leaked), NoHold) /\ VariablesMade(heap, stack) /\ stack \in Stacks
  BY DEF LevelsInv, CountInv, TypeOK
<1>2. IsPart(stack, stack)
  BY <1>1, ExtendedHasPart DEF Stacks
<1>3. Ready(StackHold(stack))
  BY <1>1, <1>2, HeldVariables
<1>4. Returns("arguments") => Within(StackHold(stack), Stacked)
  <2> SUFFICES ASSUME Returns("arguments") PROVE Within(StackHold(stack), Stacked)
    OBVIOUS
  <2>1. Others \in Bags
    BY <1>1, TopUses DEF Returns
  <2> QED BY <1>1, <1>2, <2>1, PartIsHeld DEF Stacked
<1>5. \A t : SupportedBut(heap, StackHold(stack), t)
  BY <1>1, StackHoldIs DEF SupportedBut
<1> QED BY <1>2, <1>3, <1>4, <1>5 DEF Spared

\* A step that opens or closes no block or function, and takes no variable off.
Quiet ==
  /\ stack' = stack \/ OneMore
  /\ level' = level /\ Range(leaked) \subseteq Range(leaked')
  /\ Nests(frames', level, stack, heap, leaked)
\* A block opens.
Opens ==
  /\ stack' = stack /\ level' = level + 1 /\ leaked' = leaked
  /\ \E f \in Frames : f.at = "block" /\ f.pos = Len(stack) /\ frames' = <<f>> \o frames

FramesNest == Nests(frames, level, stack, heap, leaked)

LEMMA PlainPops ==
  ASSUME NEW f \in Frames, NEW fs \in Seq(Frames), ~IsScope(f), NEW l, NEW st, NEW h, NEW lk, Nests(<<f>> \o fs, l, st, h, lk)
  PROVE  Nests(fs, l, st, h, lk)
<1>1. PICK m \in Int : Nests(fs, m, st, h, lk) /\ TopFine(f, fs, m, l, st, h, lk)
  BY NestPops
<1>2. l = m
  BY <1>1 DEF TopFine
<1> QED BY <1>1, <1>2

LEMMA PlainPushes ==
  ASSUME NEW f \in Frames, NEW fs \in Seq(Frames), ~IsScope(f), NEW l \in Int, NEW st, NEW h, NEW lk, Nests(fs, l, st, h, lk)
  PROVE  Nests(<<f>> \o fs, l, st, h, lk)
<1>1. TopFine(f, fs, l, l, st, h, lk)
  BY DEF TopFine
<1> QED BY <1>1, NestPushes

LEMMA FrontIs ==
  ASSUME NEW f, NEW fs \in Seq(Frames), <<f>> \o fs \in Seq(Frames)
  PROVE  f \in Frames
<1> DEFINE gs == <<f>> \o fs
<1>1. gs[1] = f /\ Len(gs) = Len(fs) + 1 /\ Len(fs) \in Nat /\ gs \in Seq(Frames)
  OBVIOUS
<1> HIDE DEF gs
<1>2. 1 \in 1 .. Len(gs)
  BY <1>1
<1>3. gs[1] \in Frames
  BY <1>1, <1>2, ElementOf
<1> QED BY <1>1, <1>3

LEMMA PlainGoesIn ==
  ASSUME TypeOK, FramesNest, frames' \in Seq(Frames), NEW f, frames' = <<f>> \o frames, f.at \notin {"block", "body"}
  PROVE  Nests(frames', level, stack, heap, leaked)
<1>1. frames \in Seq(Frames) /\ level \in Int
  BY DEF TypeOK
<1>2. f \in Frames /\ ~IsScope(f)
  BY <1>1, FrontIs DEF IsScope
<1> QED BY <1>1, <1>2, PlainPushes DEF FramesNest

LEMMA PlainGoesOut ==
  ASSUME TypeOK, FramesNest, frames # <<>>, Top.at \notin {"block", "body"}
  PROVE  Nests(Below, level, stack, heap, leaked)
<1>1. Top \in Frames /\ Below \in Seq(Frames) /\ frames = <<Top>> \o Below
  BY TopIs DEF TypeOK
<1>2. ~IsScope(Top) /\ Nests(<<Top>> \o Below, level, stack, heap, leaked)
  BY <1>1 DEF IsScope, FramesNest
<1> QED BY <1>1, <1>2, PlainPops

LEMMA PlainChanges ==
  ASSUME TypeOK, FramesNest, frames' \in Seq(Frames), frames # <<>>, Top.at \notin {"block", "body"},
         NEW f, frames' = <<f>> \o Below, f.at \notin {"block", "body"}
  PROVE  Nests(frames', level, stack, heap, leaked)
<1>1. Below \in Seq(Frames) /\ level \in Int
  BY TopIs DEF TypeOK
<1>2. f \in Frames /\ ~IsScope(f)
  BY <1>1, FrontIs DEF IsScope
<1>3. Nests(Below, level, stack, heap, leaked)
  BY PlainGoesOut
<1> QED BY <1>1, <1>2, <1>3, PlainPushes

LEMMA NewKeepsStack ==
  ASSUME NEW m, NEW kind, NEW alias, NEW name, NEW lvl, NEW refs, m = [heap |-> m.heap, stack |-> m.stack]
  PROVE  New(m, kind, alias, name, lvl, refs, NoName).stack = m.stack
BY DEF New

\* Terms.
LEMMA TermMoves ==
  ASSUME TypeOK, FramesNest, Term, frames' \in Seq(Frames)
  PROVE  Quiet \/ Opens
<1>1. frames \in Seq(Frames) /\ level \in Int
  BY DEF TypeOK
<1>2. CASE Constant
  <2>1. Memory = [heap |-> Memory.heap, stack |-> Memory.stack]
    BY DEF Memory
  <2>2. New(Memory, "Real", FALSE, NoName, level, <<>>, NoName).stack = Memory.stack
    BY <2>1, NewKeepsStack
  <2>3. stack' = New(Memory, "Real", FALSE, NoName, level, <<>>, NoName).stack
    BY <1>2 DEF Constant, Leaves
  <2>4. stack' = stack
    BY <2>2, <2>3, MemoryIs
  <2> QED BY <1>2, <2>4 DEF Constant, NoLoss, Quiet, FramesNest
<1>3. CASE Block
  <2>1. frames' = <<BlockFrame(control.gra, control.force)>> \o frames /\ stack' = stack /\ level' = level + 1 /\ leaked' = leaked
    BY <1>3 DEF Block, Keep, NoLoss
  <2> DEFINE f == BlockFrame(control.gra, control.force)
  <2>2. f.at = "block" /\ f.pos = Len(stack)
    BY DEF BlockFrame
  <2> HIDE DEF f
  <2>3. f \in Frames
    BY <1>1, <2>1, FrontIs DEF f
  <2> QED BY <2>1, <2>2, <2>3 DEF Opens, f
<1>4. CASE Element
  <2> DEFINE f == [at |-> "set", gra |-> control.gra]
  <2>1. frames' = <<f>> \o frames /\ f.at = "set" /\ stack' = stack /\ level' = level /\ leaked' = leaked
    BY <1>4 DEF Element, Keep, NoLoss
  <2> HIDE DEF f
  <2>2. Nests(frames', level, stack, heap, leaked)
    BY <2>1, PlainGoesIn
  <2> QED BY <2>1, <2>2 DEF Quiet
<1>5. ASSUME NEW n \in Names, Operand(n) PROVE Quiet
  BY <1>5 DEF Operand, Keep, NoLoss, Quiet, FramesNest
<1>6. ASSUME NEW n \in Names, Assign(n) PROVE Quiet
  <2> DEFINE o == FindOperand(control.gra, n)
             f == [at |-> "value", target |-> o]
  <2>1. /\ stack' = stack /\ level' = level /\ leaked' = leaked
        /\ frames' = IF o = Nil THEN frames ELSE <<f>> \o frames
    BY <1>6 DEF Assign, Keep, NoLoss
  <2>2. f.at = "value"
    OBVIOUS
  <2> HIDE DEF f, o
  <2>3. Nests(frames', level, stack, heap, leaked)
    <3>1. CASE o = Nil
      BY <2>1, <3>1 DEF FramesNest
    <3>2. CASE o # Nil
      BY <2>1, <2>2, <3>2, PlainGoesIn
    <3> QED BY <3>1, <3>2
  <2> QED BY <2>1, <2>3 DEF Quiet
<1>7. ASSUME NEW k \in Kinds, Typed(k) PROVE Quiet
  <2> DEFINE f == TypedFrame(k)
  <2>1. frames' = <<f>> \o frames /\ f.at = "typed" /\ stack' = stack /\ level' = level /\ leaked' = leaked
    BY <1>7 DEF Typed, Keep, NoLoss, TypedFrame
  <2> HIDE DEF f
  <2>2. Nests(frames', level, stack, heap, leaked)
    BY <2>1, PlainGoesIn
  <2> QED BY <2>1, <2>2 DEF Quiet
<1>8. ASSUME NEW k \in Kinds, NEW n \in Names, Declare(k, n) PROVE Quiet
  <2> DEFINE d == [at |-> "declare", name |-> n]
             f == TypedFrame(k)
             fs == <<f>> \o frames
  <2>1. frames' = <<d, f>> \o frames /\ d.at = "declare" /\ stack' = stack /\ level' = level /\ leaked' = leaked /\ Evaluates
    BY <1>8 DEF Declare, Keep, NoLoss
  <2>2. d \in Frames
    BY DEF DeclareFrames, Frames
  <2>3. f \in Frames /\ ~IsScope(f)
    <3>1. f.at = "typed"
      BY DEF TypedFrame
    <3> QED BY <2>1, <3>1, TypedFrameIs DEF IsScope
  <2> HIDE DEF d, f
  <2>4. frames' = <<d>> \o (<<f>> \o frames)
    BY <1>1, <2>1, <2>2, <2>3, TwoInFront
  <2>5. fs \in Seq(Frames) /\ Nests(fs, level, stack, heap, leaked)
    BY <1>1, <2>3, PushIs, PlainPushes DEF FramesNest
  <2> HIDE DEF fs
  <2>6. Nests(<<d>> \o fs, level, stack, heap, leaked)
    BY <1>1, <2>1, <2>2, <2>5, PlainPushes DEF IsScope
  <2> QED BY <2>1, <2>4, <2>6 DEF Quiet, fs
<1>9. ASSUME NEW op \in Operators, Call(op) PROVE Quiet
  <2> DEFINE f == [at |-> "arguments", op |-> op, args |-> <<>>]
  <2>1. frames' = <<f>> \o frames /\ f.at = "arguments" /\ stack' = stack /\ level' = level /\ leaked' = leaked
    BY <1>9 DEF Call, Keep, NoLoss
  <2> HIDE DEF f
  <2>2. Nests(frames', level, stack, heap, leaked)
    BY <2>1, PlainGoesIn
  <2> QED BY <2>1, <2>2 DEF Quiet
<1> QED BY <1>2, <1>3, <1>4, <1>5, <1>6, <1>7, <1>8, <1>9 DEF Term

\* A statement ends and another begins: the block is the same.
LEMMA StatementMoves ==
  ASSUME TypeOK, FramesNest, NextStatement, frames' \in Seq(Frames)
  PROVE  Quiet
<1> DEFINE f == [Top EXCEPT !.items = AddItem(@, control.obj)]
<1>1. /\ frames # <<>> /\ Top.at = "block" /\ frames' = <<f>> \o Below
      /\ stack' = stack /\ level' = level /\ leaked' = leaked
  BY DEF NextStatement, Returns, NoLoss
<1>2. Top \in Frames /\ Below \in Seq(Frames) /\ frames = <<Top>> \o Below /\ level \in Int
  BY <1>1, TopIs DEF TypeOK
<1>3. Top \in BlockFrames
  BY <1>1, <1>2, FrameKinds
<1>4. f.at = "block" /\ f.pos = Top.pos
  BY <1>3 DEF BlockFrames
<1> HIDE DEF f
<1>5. f \in Frames
  BY <1>1, <1>2, FrontIs
<1>6. Nests(<<Top>> \o Below, level, stack, heap, leaked)
  BY <1>2 DEF FramesNest
<1>7. PICK l \in Int : Nests(Below, l, stack, heap, leaked) /\ TopFine(Top, Below, l, level, stack, heap, leaked)
  BY <1>2, <1>6, NestPops
<1>8. TopFine(f, Below, l, level, stack, heap, leaked)
  BY <1>1, <1>4, <1>7 DEF TopFine, IsScope, ScopeFine, Base
<1>9. Nests(<<f>> \o Below, level, stack, heap, leaked)
  BY <1>2, <1>5, <1>7, <1>8, NestPushes
<1> QED BY <1>1, <1>9 DEF Quiet

LEMMA RangeOfJoin ==
  ASSUME NEW S, NEW s \in Seq(S), NEW t \in Seq(S)
  PROVE  Range(s) \subseteq Range(s \o t) /\ Range(t) \subseteq Range(s \o t)
<1> DEFINE u == s \o t
<1>1. /\ DOMAIN u = 1 .. Len(s) + Len(t) /\ Len(s) \in Nat /\ Len(t) \in Nat
      /\ DOMAIN s = 1 .. Len(s) /\ DOMAIN t = 1 .. Len(t)
      /\ \A i \in 1 .. Len(s) : u[i] = s[i]
      /\ \A i \in 1 .. Len(t) : u[i + Len(s)] = t[i]
  OBVIOUS
<1> HIDE DEF u
<1>2. ASSUME NEW i \in DOMAIN s PROVE s[i] \in Range(u)
  <2>1. i \in DOMAIN u /\ u[i] = s[i]
    BY <1>1
  <2> QED BY <2>1 DEF Range
<1>3. ASSUME NEW i \in DOMAIN t PROVE t[i] \in Range(u)
  <2>1. i + Len(s) \in DOMAIN u /\ u[i + Len(s)] = t[i]
    BY <1>1
  <2> QED BY <2>1 DEF Range
<1> QED BY <1>2, <1>3 DEF Range, u

\* The rest of what goes on within a block.
LEMMA InnerMoves ==
  ASSUME LevelsInv, Inner, Shape'
  PROVE  Quiet \/ Opens \/ (EnterFunction /\ Entered)
<1>1. TypeOK /\ FramesNest /\ frames' \in Seq(Frames)
  BY DEF LevelsInv, CountInv, FramesNest, Shape
<1>2. Ready(StackHold(stack)) /\ Spared(StackHold(stack))
  BY StackIsSpared
<1>3. CASE Term
  BY <1>1, <1>3, TermMoves
<1>4. CASE NextStatement
  BY <1>1, <1>4, StatementMoves
<1>5. CASE CreateObject
  <2>1. OneMore
    BY <1>1, <1>2, <1>5, CreateObjectGoes
  <2>2. frames # <<>> /\ Top.at = "declare" /\ frames' = Below /\ level' = level /\ leaked' = leaked
    BY <1>5 DEF CreateObject, Returns
  <2> QED BY <1>1, <2>1, <2>2, PlainGoesOut DEF Quiet
<1>6. CASE TypeEnds
  <2>1. OneMore
    BY <1>1, <1>2, <1>6, TypeEndsGoes
  <2>2. frames # <<>> /\ Top.at = "typed" /\ frames' = Below /\ level' = level /\ leaked' = leaked
    BY <1>6 DEF TypeEnds, Returns, NoLoss
  <2> QED BY <1>1, <2>1, <2>2, PlainGoesOut DEF Quiet
<1>7. CASE NextArgument
  <2> DEFINE f == [Top EXCEPT !.args = Args]
  <2>1. /\ frames # <<>> /\ Top.at = "arguments" /\ frames' = <<f>> \o Below
        /\ stack' = stack /\ level' = level /\ leaked' = leaked
    BY <1>7 DEF NextArgument, ArgumentTaken, Returns, NoLoss
  <2>2. f.at = "arguments"
    <3>1. Top \in Frames
      BY <1>1, <2>1, TopIs DEF TypeOK
    <3>2. Top \in ArgumentFrames
      BY <2>1, <3>1, FrameKinds
    <3> QED BY <2>1, <3>2 DEF ArgumentFrames
  <2> HIDE DEF f
  <2>3. Nests(frames', level, stack, heap, leaked)
    BY <1>1, <2>1, <2>2, PlainChanges
  <2> QED BY <2>1, <2>3 DEF Quiet
<1>8. Returns("arguments") => Within(StackHold(stack), Stacked)
  BY <1>2 DEF Spared
<1>9. CASE BadArguments
  <2>1. Within(StackHold(stack), Stacked)
    BY <1>8, <1>9 DEF BadArguments
  <2>2. stack' = stack
    BY <1>1, <1>2, <1>9, <2>1, BadArgumentsGoes
  <2>3. frames # <<>> /\ Top.at = "arguments" /\ frames' = Below /\ level' = level /\ leaked' = leaked
    BY <1>9 DEF BadArguments, Returns, NoLoss
  <2> QED BY <1>1, <2>2, <2>3, PlainGoesOut DEF Quiet
<1>10. CASE TooFewArguments
  <2>1. /\ frames # <<>> /\ Top.at = "arguments" /\ control.do = "return" /\ control.obj # Nil
        /\ frames' = Below /\ level' = level /\ leaked' = leaked \o Args /\ stack' = stack
    BY <1>10 DEF TooFewArguments, ArgumentTaken, Returns
  <2>2. leaked \in Seq(Objects) /\ Args \in Seq(Objects)
    <3>1. Top \in Frames /\ control.obj \in Objects /\ leaked \in Seq(Objects)
      BY <1>1, <2>1, TopIs, ControlsAre DEF TypeOK
    <3>2. Top.args \in Seq(Objects)
      BY <2>1, <3>1, FrameKinds DEF ArgumentFrames
    <3> QED BY <3>1, <3>2 DEF Args
  <2>3. Range(leaked) \subseteq Range(leaked')
    BY <2>1, <2>2, RangeOfJoin
  <2> QED BY <1>1, <2>1, <2>3, PlainGoesOut DEF Quiet
<1>11. CASE DoReal
  <2>1. Within(StackHold(stack), Stacked)
    BY <1>8, <1>11 DEF DoReal, ArgumentTaken
  <2>2. stack' = stack
    BY <1>1, <1>2, <1>11, <2>1, DoRealGoes
  <2>3. frames # <<>> /\ Top.at = "arguments" /\ frames' = Below /\ level' = level /\ leaked' = leaked
    BY <1>11 DEF DoReal, ArgumentTaken, Returns, NoLoss
  <2> QED BY <1>1, <2>2, <2>3, PlainGoesOut DEF Quiet
<1>12. CASE DoSet
  <2>1. Within(StackHold(stack), Stacked)
    BY <1>8, <1>12 DEF DoSet, ArgumentTaken
  <2>2. stack' = stack
    BY <1>1, <1>2, <1>12, <2>1, DoSetGoes
  <2>3. frames # <<>> /\ Top.at = "arguments" /\ frames' = Below /\ level' = level /\ leaked' = leaked
    BY <1>12 DEF DoSet, ArgumentTaken, Returns, NoLoss
  <2> QED BY <1>1, <2>2, <2>3, PlainGoesOut DEF Quiet
<1>13. CASE EnterFunction
  BY <1>1, <1>2, <1>13, EnterFunctionGoes
<1>14. CASE EvaluateIndex
  <2> DEFINE f == [at |-> "index", gra |-> Top.gra, set |-> control.obj, count |-> Cardinality(Live(heap))]
  <2>1. /\ frames # <<>> /\ Top.at = "set" /\ stack' = stack /\ level' = level /\ leaked' = leaked
        /\ frames' = IF control.obj = Nil THEN Below ELSE <<f>> \o Below
    BY <1>14 DEF EvaluateIndex, Returns, Keep, NoLoss
  <2>2. f.at = "index"
    OBVIOUS
  <2> HIDE DEF f
  <2>3. Nests(frames', level, stack, heap, leaked)
    <3>1. CASE control.obj = Nil
      BY <1>1, <2>1, <3>1, PlainGoesOut
    <3>2. CASE control.obj # Nil
      BY <1>1, <2>1, <2>2, <3>2, PlainChanges
    <3> QED BY <3>1, <3>2
  <2> QED BY <2>1, <2>3 DEF Quiet
<1>15. CASE GetElement
  <2>1. frames # <<>> /\ Top.at = "index" /\ frames' = Below /\ level' = level /\ leaked' = leaked /\ stack' = stack
    BY <1>15 DEF GetElement, Returns
  <2> QED BY <1>1, <2>1, PlainGoesOut DEF Quiet
<1>16. CASE PutValue
  <2>1. frames # <<>> /\ Top.at = "value" /\ frames' = Below /\ level' = level /\ leaked' = leaked /\ stack' = stack
    BY <1>16 DEF PutValue, Returns, NoLoss, Keep
  <2> QED BY <1>1, <2>1, PlainGoesOut DEF Quiet
<1> QED BY <1>3, <1>4, <1>5, <1>6, <1>7, <1>9, <1>10, <1>11, <1>12, <1>13, <1>14, <1>15, <1>16 DEF Inner

\* What is left on the stack keeps its level.
LEMMA SteadyVariables ==
  ASSUME stack \in Stacks, stack' \in Stacks, NEW st \in Stacks, Course(StackHold(st)), NEW k \in Nat, k <= Len(st),
         \A i \in DOMAIN st : i \in DOMAIN stack /\ stack[i] = st[i],
         \A i \in 1 .. k : stack'[i] = st[i],
         Range(leaked) \subseteq Range(leaked')
  PROVE  IsSteady(stack, heap, leaked, stack', heap', leaked', k)
<1>1. \A i \in 1 .. k : i \in DOMAIN st
  BY DEF Stacks
<1>2. \A i \in DOMAIN st : heap'[st[i].obj].level = heap[st[i].obj].level
  BY CourseOfVariables
<1> QED BY <1>1, <1>2 DEF IsSteady

LEMMA LevelsInvInit ==
  ASSUME Init
  PROVE  LevelsInv
<1> DEFINE f == [at |-> "block", gra |-> "Anything", force |-> TRUE, pos |-> 0, items |-> <<>>]
           e == <<>>
           lv == [d \in 0 .. 0 |-> 0]
<1>1. CountInv
  BY CountInvInit
<1>2. stack = <<>> /\ level = 1 /\ frames = <<f>> \o e
  BY DEF Init
<1>3. e \in Seq(Frames) /\ Len(e) = 0 /\ stack \in Stacks /\ DOMAIN stack = {} /\ Len(stack) = 0
  BY <1>2 DEF Stacks
<1>4. f \in Frames
  <2>1. f \in BlockFrames
    BY ControlsAre DEF BlockFrames
  <2> QED BY <2>1 DEF Frames
<1>5. f.at = "block" /\ f.pos = 0
  OBVIOUS
<1> HIDE DEF f, e
<1>6. KeptOf(stack, leaked) = {}
  BY <1>3 DEF KeptOf
<1>7. IsNest(e, lv, 0, stack, heap, leaked)
  BY <1>3 DEF IsNest
<1>8. Nests(e, 0, stack, heap, leaked)
  BY <1>7 DEF Nests
<1>9. TopFine(f, e, 0, 1, stack, heap, leaked)
  BY <1>3, <1>5, <1>6 DEF TopFine, IsScope, ScopeFine, Base, LevelsTo, IsOver
<1>10. Nests(frames, level, stack, heap, leaked)
  <2>1. 1 \in Int
    OBVIOUS
  <2>2. Nests(<<f>> \o e, 1, stack, heap, leaked)
    BY <1>3, <1>4, <1>8, <1>9, <2>1, NestPushes, Zenon
  <2> QED BY <1>2, <2>2
<1>11. VariablesMade(heap, stack)
  BY <1>3 DEF VariablesMade
<1>12. Ascends(stack, heap, leaked, level)
  BY <1>6 DEF Ascends
<1> QED BY <1>1, <1>10, <1>11, <1>12 DEF LevelsInv

LEMMA QuietKeeps ==
  ASSUME LevelsInv, Quiet, Course(StackHold(stack)), CountInv'
  PROVE  LevelsInv'
<1> DEFINE k == Len(stack)
<1>1. /\ stack \in Stacks /\ stack' \in Stacks /\ heap \in Heaps /\ frames \in Seq(Frames) /\ frames' \in Seq(Frames) /\ level \in Int
      /\ FramesNest /\ Ascends(stack, heap, leaked, level)
  BY DEF LevelsInv, CountInv, TypeOK, FramesNest
<1>2. k \in Nat /\ DOMAIN stack = 1 .. k
  BY <1>1 DEF Stacks
<1>3. /\ level' = level /\ Range(leaked) \subseteq Range(leaked') /\ Nests(frames', level, stack, heap, leaked)
      /\ stack' = stack \/ OneMore
  BY DEF Quiet
<1>4. /\ k <= Len(stack') /\ \A i \in 1 .. k : stack'[i] = stack[i]
      /\ \A i \in DOMAIN stack' : i > k => IsMade(heap', stack'[i].obj) /\ heap'[stack'[i].obj].level = level
  <2>1. CASE stack' = stack
    BY <1>2, <2>1
  <2>2. CASE OneMore /\ stack' # stack
    <3>1. PICK o \in Objects, name \in Names : /\ stack' = Append(stack, [obj |-> o, name |-> name])
                                               /\ IsMade(heap', o) /\ heap'[o].level = level
      BY <2>2 DEF OneMore
    <3>2. Len(stack') = k + 1 /\ DOMAIN stack' = 1 .. k + 1 /\ stack'[k + 1].obj = o /\ \A i \in 1 .. k : stack'[i] = stack[i]
      BY <1>1, <1>2, <3>1 DEF Stacks
    <3>3. \A i \in DOMAIN stack' : i > k => i = k + 1
      BY <1>2, <3>2
    <3> QED BY <1>2, <3>1, <3>2, <3>3
  <2> QED BY <1>3, <2>1, <2>2
<1>5. IsSteady(stack, heap, leaked, stack', heap', leaked', k)
  BY <1>1, <1>2, <1>3, <1>4, SteadyVariables
<1>6. Nests(frames', level, stack', heap', leaked')
  <2>1. IsOver(frames', k)
    BY <1>3, NestIsOver
  <2> HIDE DEF k
  <2> QED BY <1>1, <1>2, <1>3, <1>4, <1>5, <2>1, NestMoves
<1>7. LevelsTo(stack, heap, leaked, k, level)
  BY <1>1 DEF LevelsTo, Ascends
<1>8. Ascends(stack', heap', leaked', level)
  <2>1. \A i \in KeptOf(stack', leaked') : i > k => heap'[stack'[i].obj].level = level
    BY <1>4 DEF KeptOf
  <2> HIDE DEF k
  <2> QED BY <1>1, <1>2, <1>5, <1>7, <2>1, AscendsAgain
<1>9. VariablesMade(heap', stack')
  <2> SUFFICES ASSUME NEW i \in DOMAIN stack' PROVE IsMade(heap', stack'[i].obj)
    BY DEF VariablesMade
  <2>1. CASE i > k
    BY <1>4, <2>1
  <2>2. CASE ~(i > k)
    <3>1. i \in 1 .. k
      BY <1>1, <1>2, <2>2 DEF Stacks
    <3> QED BY <1>1, <1>2, <1>4, <3>1, CourseOfVariables
  <2> QED BY <2>1, <2>2
<1>10. Ascends(stack, heap, leaked, level)' /\ VariablesMade(heap, stack)' /\ Nests(frames, level, stack, heap, leaked)'
  BY <1>3, <1>6, <1>8, <1>9 DEF Ascends, VariablesMade, Nests, IsNest, IsLayer, IsScope, ScopeFine, Base, At, LevelsTo, KeptOf, IsMade, IsType
<1> QED BY <1>10 DEF LevelsInv

LEMMA LevelsInvNext ==
  ASSUME CountInv', Ascends(stack', heap', leaked', level'), VariablesMade(heap', stack'),
         Nests(frames', level', stack', heap', leaked')
  PROVE  LevelsInv'
<1>1. Ascends(stack, heap, leaked, level)' /\ VariablesMade(heap, stack)' /\ Nests(frames, level, stack, heap, leaked)'
  BY DEF Ascends, VariablesMade, Nests, IsNest, IsLayer, IsScope, ScopeFine, Base, At, LevelsTo, KeptOf, IsMade, IsType
<1> QED BY <1>1 DEF LevelsInv

\* A scope opens: f, over fs, after the first k variables, with others of its level.
LEMMA ScopeOpens ==
  ASSUME LevelsInv, CountInv', Course(StackHold(stack)), NEW f \in Frames, NEW fs \in Seq(Frames),
         frames' = <<f>> \o fs, IsScope(f), f.pos = Len(stack), Base(f) <= Len(stack'),
         Nests(fs, level, stack, heap, leaked), level' = level + 1, Range(leaked) \subseteq Range(leaked'),
         \A i \in 1 .. Len(stack) : stack'[i] = stack[i],
         \A i \in DOMAIN stack' : i > Len(stack) => IsMade(heap', stack'[i].obj) /\ heap'[stack'[i].obj].level = level + 1,
         f.at = "body" => f.level = level /\ \E i \in DOMAIN f.instances : f.instances[i] = stack'[f.pos + 1].obj
  PROVE  LevelsInv'
<1> DEFINE k == Len(stack)
           m == level + 1
<1>1. /\ stack \in Stacks /\ stack' \in Stacks /\ heap \in Heaps /\ level \in Int
      /\ Ascends(stack, heap, leaked, level)
  BY DEF LevelsInv, CountInv, TypeOK
<1>2. k \in Nat /\ DOMAIN stack = 1 .. k /\ m \in Int /\ level' = m /\ k <= Base(f)
  BY <1>1 DEF Stacks, Base
<1>3. k <= Len(stack')
  <2>1. Len(stack') \in Nat /\ Base(f) \in Nat
    BY <1>1, <1>2 DEF Stacks, Base
  <2> QED BY <1>2, <2>1
<1>4. IsSteady(stack, heap, leaked, stack', heap', leaked', k)
  BY <1>1, <1>2, <1>3, SteadyVariables
<1>5. LevelsTo(stack, heap, leaked, k, level) /\ LevelsTo(stack, heap, leaked, k, m)
  <2>1. LevelsTo(stack, heap, leaked, k, level)
    BY <1>1 DEF LevelsTo, Ascends
  <2>2. \A i \in KeptOf(stack, leaked) : heap[stack[i].obj].level \in Int
    <3> SUFFICES ASSUME NEW i \in KeptOf(stack, leaked) PROVE heap[stack[i].obj].level \in Int
      OBVIOUS
    <3>1. i \in DOMAIN stack
      BY DEF KeptOf
    <3>2. stack[i].obj \in Objects
      BY <1>1, <3>1, StackHoldIs
    <3> QED BY <1>1, <3>2, HeapFields
  <2> QED BY <1>1, <2>1, <2>2 DEF LevelsTo
<1>6. LevelsTo(stack', heap', leaked', k, level)
  <2> HIDE DEF k
  <2> QED BY <1>1, <1>2, <1>4, <1>5, LevelsBefore
<1>7. IsOver(fs, k)
  BY NestIsOver
<1>8. Nests(fs, level, stack', heap', leaked')
  <2> HIDE DEF k
  <2> QED BY <1>1, <1>2, <1>3, <1>4, <1>7, NestMoves
<1>9. TopFine(f, fs, level, m, stack', heap', leaked')
  BY <1>6, <1>7 DEF TopFine, ScopeFine
<1>10. Nests(frames', m, stack', heap', leaked')
  <2>1. Nests(<<f>> \o fs, m, stack', heap', leaked')
    <3> HIDE DEF m
    <3> QED BY <1>2, <1>8, <1>9, NestPushes, Zenon
  <2> QED BY <2>1
<1>11. Ascends(stack', heap', leaked', m)
  <2>1. \A i \in KeptOf(stack', leaked') : i > k => heap'[stack'[i].obj].level = m
    BY DEF KeptOf
  <2>2. k \in Nat /\ stack \in Stacks /\ stack' \in Stacks /\ heap \in Heaps /\ level \in Int /\ m \in Int
    BY <1>1, <1>2
  <2>3. Ascends(stack, heap, leaked, level) /\ LevelsTo(stack, heap, leaked, k, m)
    BY <1>1, <1>5
  <2> HIDE DEF k, m
  <2> QED BY <1>4, <2>1, <2>2, <2>3, AscendsAgain
<1>12. VariablesMade(heap', stack')
  <2> SUFFICES ASSUME NEW i \in DOMAIN stack' PROVE IsMade(heap', stack'[i].obj)
    BY DEF VariablesMade
  <2>1. CASE i > k
    BY <2>1
  <2>2. CASE ~(i > k)
    <3>1. i \in 1 .. k
      BY <1>1, <1>2, <2>2 DEF Stacks
    <3> QED BY <1>1, <1>2, <3>1, CourseOfVariables
  <2> QED BY <2>1, <2>2
<1> HIDE DEF m
<1> QED BY <1>2, <1>10, <1>11, <1>12, LevelsInvNext

LEMMA OpensKeeps ==
  ASSUME LevelsInv, Opens, Course(StackHold(stack)), CountInv'
  PROVE  LevelsInv'
<1>1. PICK f \in Frames : f.at = "block" /\ f.pos = Len(stack) /\ frames' = <<f>> \o frames
  BY DEF Opens
<1>2. stack' = stack /\ level' = level + 1 /\ leaked' = leaked
  BY DEF Opens
<1>3. stack \in Stacks /\ frames \in Seq(Frames) /\ Nests(frames, level, stack, heap, leaked)
  BY DEF LevelsInv, CountInv, TypeOK
<1>4. IsScope(f) /\ Base(f) <= Len(stack') /\ f.at # "body"
  BY <1>1, <1>2, <1>3 DEF IsScope, Base, Stacks
<1>5. \A i \in 1 .. Len(stack) : stack'[i] = stack[i]
  BY <1>2
<1>6. \A i \in DOMAIN stack' : ~(i > Len(stack))
  BY <1>2, <1>3 DEF Stacks
<1>7. Range(leaked) \subseteq Range(leaked')
  BY <1>2
<1> QED BY <1>1, <1>2, <1>3, <1>4, <1>5, <1>6, <1>7, ScopeOpens

LEMMA EnteredKeeps ==
  ASSUME LevelsInv, EnterFunction, Entered, Course(StackHold(stack)), CountInv'
  PROVE  LevelsInv'
<1> DEFINE f == Head(frames')
<1>1. /\ Len(stack') > Len(stack)
      /\ \A i \in 1 .. Len(stack) : stack'[i] = stack[i]
      /\ \A i \in Len(stack) + 1 .. Len(stack') : IsMade(heap', stack'[i].obj) /\ heap'[stack'[i].obj].level = level + 1
      /\ \E i \in DOMAIN f.instances : f.instances[i] = stack'[Len(stack) + 1].obj
      /\ f.pos = Len(stack) /\ f.level = level /\ f.at = "body"
      /\ frames' = <<f>> \o Below /\ f \in Frames
  BY DEF Entered
<1>2. /\ frames # <<>> /\ Top.at = "arguments" /\ level' = level + 1 /\ leaked' = leaked
  BY DEF EnterFunction, ArgumentTaken, Returns, NoLoss
<1>3. /\ TypeOK /\ FramesNest /\ stack \in Stacks /\ stack' \in Stacks
  BY DEF LevelsInv, CountInv, TypeOK, FramesNest
<1>4. Nests(Below, level, stack, heap, leaked) /\ Below \in Seq(Frames)
  BY <1>2, <1>3, PlainGoesOut, TopIs DEF TypeOK
<1> HIDE DEF f
<1>5. IsScope(f) /\ Base(f) <= Len(stack')
  BY <1>1, <1>3 DEF IsScope, Base, Stacks
<1>6. \A i \in DOMAIN stack' : i > Len(stack) => i \in Len(stack) + 1 .. Len(stack')
  BY <1>3 DEF Stacks
<1>7. \A i \in DOMAIN stack' : i > Len(stack) => IsMade(heap', stack'[i].obj) /\ heap'[stack'[i].obj].level = level + 1
  BY <1>1, <1>6
<1>8. Range(leaked) \subseteq Range(leaked')
  BY <1>2
<1>9. f.at = "body" => f.level = level /\ \E i \in DOMAIN f.instances : f.instances[i] = stack'[f.pos + 1].obj
  BY <1>1
<1> QED BY <1>1, <1>2, <1>4, <1>5, <1>7, <1>8, <1>9, ScopeOpens

LEMMA ScopeIs ==
  ASSUME LevelsInv, frames # <<>>, IsScope(Top)
  PROVE  /\ Nests(Below, level - 1, stack, heap, leaked) /\ IsOver(Below, Top.pos)
         /\ ScopeFine(Top, level - 1, stack, heap, leaked)
         /\ Top.pos \in Nat /\ Top.pos <= Len(stack)
<1>1. TypeOK /\ FramesNest /\ stack \in Stacks
  BY DEF LevelsInv, CountInv, TypeOK, FramesNest
<1>2. Top \in Frames /\ Below \in Seq(Frames) /\ frames = <<Top>> \o Below
  BY <1>1, TopIs DEF TypeOK
<1>3. Nests(<<Top>> \o Below, level, stack, heap, leaked)
  BY <1>1, <1>2 DEF FramesNest
<1>4. PICK l \in Int : Nests(Below, l, stack, heap, leaked) /\ TopFine(Top, Below, l, level, stack, heap, leaked)
  BY <1>2, <1>3, NestPops
<1>5. level = l + 1 /\ ScopeFine(Top, l, stack, heap, leaked) /\ IsOver(Below, Top.pos)
  BY <1>4 DEF TopFine
<1>6. l = level - 1
  BY <1>5
<1>7. Top.pos \in Nat
  BY <1>2, FrameKinds DEF IsScope, BlockFrames, BodyFrames
<1>8. Top.pos <= Len(stack)
  BY <1>1, <1>5, <1>7 DEF ScopeFine, Base, Stacks
<1> QED BY <1>4, <1>5, <1>6, <1>7, <1>8

\* A scope closes: nothing above it is found any more.
LEMMA ScopeCloses ==
  ASSUME LevelsInv, CountInv', frames # <<>>, IsScope(Top), frames' = Below, level' = level - 1,
         Course(StackHold(stack')),
         \A i \in DOMAIN stack' : i \in DOMAIN stack /\ stack[i] = stack'[i],
         Top.pos <= Len(stack'), Range(leaked) \subseteq Range(leaked'),
         \A i \in KeptOf(stack', leaked') : i <= Top.pos
  PROVE  LevelsInv'
<1> DEFINE k == Top.pos
           l == level - 1
<1>1. /\ stack \in Stacks /\ stack' \in Stacks /\ heap \in Heaps /\ level \in Int /\ frames \in Seq(Frames)
      /\ Ascends(stack, heap, leaked, level)
  BY DEF LevelsInv, CountInv, TypeOK
<1>2. /\ Nests(Below, l, stack, heap, leaked) /\ IsOver(Below, k) /\ k \in Nat
      /\ ScopeFine(Top, l, stack, heap, leaked) /\ l \in Int /\ level' = l
  BY <1>1, ScopeIs
<1>3. Below \in Seq(Frames)
  BY <1>1, TopIs
<1>4. IsSteady(stack, heap, leaked, stack', heap', leaked', k)
  <2> HIDE DEF k
  <2>1. k <= Len(stack') /\ \A i \in 1 .. k : stack'[i] = stack'[i]
    BY DEF k
  <2> QED BY <1>1, <1>2, <2>1, SteadyVariables
<1>5. LevelsTo(stack, heap, leaked, k, l)
  BY <1>2 DEF ScopeFine
<1>6. Nests(frames', l, stack', heap', leaked')
  <2> HIDE DEF l
  <2>1. Nests(Below, l, stack', heap', leaked')
    <3>1. k <= Len(stack')
      OBVIOUS
    <3> HIDE DEF k
    <3> QED BY <1>1, <1>2, <1>3, <1>4, <3>1, NestMoves
  <2> QED BY <2>1
<1>7. Ascends(stack', heap', leaked', l)
  <2>1. \A i \in KeptOf(stack', leaked') : i > k => heap'[stack'[i].obj].level = l
    <3> SUFFICES ASSUME NEW i \in KeptOf(stack', leaked') PROVE ~(i > k)
      OBVIOUS
    <3>1. i \in Nat /\ i <= k
      BY <1>1 DEF KeptOf, Stacks
    <3> QED BY <1>2, <3>1
  <2> HIDE DEF k, l
  <2> QED BY <1>1, <1>2, <1>4, <1>5, <2>1, AscendsAgain
<1>8. VariablesMade(heap', stack')
  BY <1>1, CourseOfVariables DEF VariablesMade
<1> HIDE DEF l
<1> QED BY <1>2, <1>6, <1>7, <1>8, LevelsInvNext

LEMMA BlockEndsKeeps ==
  ASSUME LevelsInv, BlockEnds, CountInv'
  PROVE  LevelsInv'
<1> DEFINE st == Cut(stack, Top.pos)
<1>1. TypeOK /\ MemFine(Memory, Uses(frames, leaked), NoHold) /\ VariablesMade(heap, stack) /\ stack \in Stacks
  BY DEF LevelsInv, CountInv, TypeOK
<1>2. /\ Returns("block") /\ frames # <<>> /\ IsScope(Top) /\ frames' = Below /\ level' = level - 1 /\ leaked' = leaked
  BY DEF BlockEnds, Returns, IsScope, NoLoss
<1>3. Top.pos \in Nat /\ Top.pos <= Len(stack)
  BY <1>2, ScopeIs
<1>4. /\ IsPart(st, stack) /\ st \in Stacks
      /\ Len(st) = IF Len(stack) <= Top.pos THEN Len(stack) ELSE Top.pos
      /\ \A i \in DOMAIN st : i \in DOMAIN stack /\ i <= Top.pos /\ st[i] = stack[i]
  BY <1>1, <1>3, CutIsPart
<1>5. Others \in Bags
  BY <1>1, <1>2, TopUses
<1> HIDE DEF st
<1>6. Ready(StackHold(st))
  BY <1>1, <1>4, HeldVariables
<1>7. Within(StackHold(st), With(Others, Objs(st)))
  <2>1. IsPart(st, st)
    BY <1>4, ExtendedHasPart DEF Stacks
  <2> QED BY <1>4, <1>5, <2>1, PartIsHeld
<1>8. Course(StackHold(st)) /\ stack' = st
  BY <1>1, <1>6, <1>7, BlockEndsGoes DEF st
<1>9. Top.pos <= Len(stack')
  BY <1>1, <1>3, <1>4, <1>8 DEF Stacks
<1>10. \A i \in KeptOf(stack', leaked') : i <= Top.pos
  BY <1>4, <1>8 DEF KeptOf
<1>11. \A i \in DOMAIN stack' : i \in DOMAIN stack /\ stack[i] = stack'[i]
  BY <1>4, <1>8
<1>12. Range(leaked) \subseteq Range(leaked') /\ Course(StackHold(stack'))
  BY <1>2, <1>8
<1> QED BY <1>2, <1>9, <1>10, <1>11, <1>12, ScopeCloses

LEMMA FunctionReturnsKeeps ==
  ASSUME LevelsInv, FunctionReturns, CountInv'
  PROVE  LevelsInv'
<1> DEFINE st == EndStack
<1>1. TypeOK /\ MemFine(Memory, Uses(frames, leaked), NoHold) /\ VariablesMade(heap, stack) /\ stack \in Stacks
      /\ leaked \in Seq(Objects)
  BY DEF LevelsInv, CountInv, TypeOK
<1>2. /\ Returns("body") /\ frames # <<>> /\ Top.at = "body" /\ IsScope(Top)
  BY DEF FunctionReturns, Returns, IsScope
<1>3. Top.pos \in Nat /\ Top.pos <= Len(stack) /\ ScopeFine(Top, level - 1, stack, heap, leaked)
  BY <1>2, ScopeIs
<1>4. /\ IsPart(Cut(stack, Top.pos), stack) /\ Cut(stack, Top.pos) \in Stacks
      /\ Len(Cut(stack, Top.pos)) = IF Len(stack) <= Top.pos THEN Len(stack) ELSE Top.pos
      /\ \A i \in DOMAIN Cut(stack, Top.pos) : i \in DOMAIN stack /\ i <= Top.pos /\ Cut(stack, Top.pos)[i] = stack[i]
  BY <1>1, <1>3, CutIsPart
<1>5. /\ IsPart(st, stack) /\ st \in Stacks /\ Top.pos <= Len(st)
      /\ \A i \in DOMAIN st : i \in DOMAIN stack /\ st[i] = stack[i] /\ (~Fails => i <= Top.pos)
      /\ Fails => st = stack
  <2>1. CASE Fails
    <3>1. IsPart(stack, stack)
      BY <1>1, ExtendedHasPart DEF Stacks
    <3> QED BY <1>1, <1>3, <2>1, <3>1 DEF EndStack
  <2>2. CASE ~Fails
    <3>1. st = Cut(stack, Top.pos)
      BY <2>2 DEF EndStack
    <3>2. Len(stack) \in Nat
      BY <1>1 DEF Stacks
    <3> HIDE DEF st
    <3>3. Top.pos <= Len(st)
      BY <1>3, <1>4, <3>1, <3>2
    <3> QED BY <1>4, <2>2, <3>1, <3>3
  <2> QED BY <2>1, <2>2
<1>6. Ready(NoHold)
  BY <1>1, NoHoldIs DEF Ready
<1>7. Uses(Below, Leaks) \in Bags /\ Top.instances \in Seq(Objects)
  BY <1>1, <1>2, <1>6, BodyIs
<1> HIDE DEF st
<1>8. Ready(StackHold(st))
  BY <1>1, <1>5, HeldVariables
<1>9. Within(StackHold(st), With(Uses(Below, Leaks), Objs(st)))
  <2>1. IsPart(st, st)
    BY <1>5, ExtendedHasPart DEF Stacks
  <2> QED BY <1>5, <1>7, <2>1, PartIsHeld
<1>10. Course(StackHold(st)) /\ stack' = st /\ leaked' = Leaks /\ level' = Top.level /\ frames' = Below
  BY <1>1, <1>8, <1>9, FunctionReturnsGoes DEF st
<1>11. level' = level - 1
  BY <1>2, <1>3, <1>10 DEF ScopeFine
<1>12. Range(leaked) \subseteq Range(leaked')
  BY <1>1, <1>7, <1>10, RangeOfJoin DEF Leaks
<1>13. \A i \in KeptOf(stack', leaked') : i <= Top.pos
  <2> SUFFICES ASSUME NEW i \in KeptOf(stack', leaked') PROVE i <= Top.pos
    OBVIOUS
  <2>1. i \in DOMAIN st /\ i \in Nat /\ \A j \in 1 .. i : st[j].obj \notin Range(leaked')
    BY <1>5, <1>10 DEF KeptOf, Stacks
  <2>2. CASE ~Fails
    BY <1>5, <2>1, <2>2
  <2>3. CASE Fails
    <3>1. leaked' = leaked \o Top.instances /\ st = stack
      BY <1>5, <1>10, <2>3 DEF Leaks
    <3>2. \E n \in DOMAIN Top.instances : Top.instances[n] = stack[Top.pos + 1].obj
      BY <1>2, <1>3 DEF ScopeFine
    <3>3. stack[Top.pos + 1].obj \in Range(leaked')
      <4>1. stack[Top.pos + 1].obj \in Range(Top.instances)
        BY <3>2 DEF Range
      <4>2. Range(Top.instances) \subseteq Range(leaked \o Top.instances)
        BY <1>1, <1>7, RangeOfJoin
      <4> QED BY <3>1, <4>1, <4>2
    <3>4. Top.pos + 1 \notin 1 .. i
      BY <2>1, <3>1, <3>3
    <3> QED BY <1>3, <2>1, <3>4
  <2> QED BY <2>2, <2>3
<1>14. \A i \in DOMAIN stack' : i \in DOMAIN stack /\ stack[i] = stack'[i]
  BY <1>5, <1>10
<1>15. Course(StackHold(stack')) /\ Top.pos <= Len(stack')
  BY <1>5, <1>10
<1> QED BY <1>2, <1>10, <1>11, <1>12, <1>13, <1>14, <1>15, ScopeCloses

LEMMA LevelsInvStep ==
  ASSUME LevelsInv, [Next]_vars
  PROVE  LevelsInv'
<1>1. CountInv'
  BY CountInvStep DEF LevelsInv
<1>2. CASE Inner
  <2>1. Course(StackHold(stack)) /\ Shape'
    BY <1>2, StackIsSpared, InnerGoes DEF LevelsInv, CountInv
  <2>2. Quiet \/ Opens \/ (EnterFunction /\ Entered)
    BY <1>2, <2>1, InnerMoves
  <2> QED BY <1>1, <2>1, <2>2, QuietKeeps, OpensKeeps, EnteredKeeps
<1>3. CASE BlockEnds
  BY <1>1, <1>3, BlockEndsKeeps
<1>4. CASE FunctionReturns
  BY <1>1, <1>4, FunctionReturnsKeeps
<1>5. CASE UNCHANGED vars
  <2>1. heap' = heap /\ stack' = stack /\ level' = level /\ frames' = frames /\ leaked' = leaked
    BY <1>5 DEF vars
  <2>2. Ascends(stack', heap', leaked', level') /\ VariablesMade(heap', stack') /\ Nests(frames', level', stack', heap', leaked')
    BY <2>1 DEF LevelsInv
  <2> QED BY <1>1, <2>2, LevelsInvNext
<1> QED BY <1>2, <1>3, <1>4, <1>5 DEF Next, Inner

LEMMA LevelsInvAscends ==
  ASSUME LevelsInv
  PROVE  LevelsAscend
BY DEF LevelsInv, Ascends, KeptOf, LevelsAscend

(* Variables lie on the stack by level, whatever blocks and functions of a program opened,  *)
(* ended or failed: the one that BStackManager::Find meets first is the innermost.          *)
THEOREM VariablesAscend == Spec => []LevelsAscend
<1>1. Init => LevelsInv
  BY LevelsInvInit
<1>2. LevelsInv /\ [Next]_vars => LevelsInv'
  BY LevelsInvStep
<1>3. LevelsInv => LevelsAscend
  BY LevelsInvAscends
<1> QED BY <1>1, <1>2, <1>3, PTL DEF Spec
=============================================================================
