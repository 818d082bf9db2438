------------------------ MODULE TimeSetCache_proofs ------------------------
(***************************************************************************)
(* Proofs about TimeSetCache for every length of time, default range, set   *)
(* and limits: the cache is a run of dates of the set, covers the range it  *)
(* is said to unless that was widened over dates nobody looked at, and      *)
(* changes no answer of the set.                                            *)
(***************************************************************************)
EXTENDS TimeSetCache, TLAPS, WellFoundedInduction

-----------------------------------------------------------------------------
(* First and last dates of a set of dates                                       *)

LEMMA Days == LastDay \in Nat /\ DefaultFirst \in Dates /\ DefaultLast \in Dates
              /\ DefaultFirst <= DefaultLast
BY LastDayAssumption, DefaultRangeAssumption

LEMMA HasSmallest ==
  ASSUME NEW S, S \subseteq Dates, S # {}
  PROVE  \E x \in S : \A y \in S : x <= y
<1>1. S \subseteq Nat
  BY Days DEF Dates
<1>2. PICK x \in S : \A y \in S : ~(<<y, x>> \in OpToRel(<, Nat))
  BY <1>1, NatLessThanWellFounded, WFMin
<1>3. \A y \in S : ~(y < x)
  BY <1>1, <1>2 DEF OpToRel
<1> QED
  BY <1>1, <1>3

LEMMA HasGreatest ==
  ASSUME NEW S, S \subseteq Dates, S # {}
  PROVE  \E x \in S : \A y \in S : y <= x
<1> DEFINE M == {End - x : x \in S}
<1>1. M \subseteq Dates /\ M # {}
  <2>1. \A x \in S : End - x \in Dates
    BY Days DEF Dates, End
  <2> QED
    BY <2>1
<1>2. PICK m \in M : \A y \in M : m <= y
  BY <1>1, HasSmallest
<1>3. PICK x \in S : m = End - x
  OBVIOUS
<1>4. \A y \in S : End - x <= End - y
  BY <1>2, <1>3
<1>5. \A y \in S : y \in Int /\ x \in Int /\ End \in Int
  BY Days DEF Dates, End
<1> QED
  BY <1>4, <1>5

LEMMA SmallestIs ==
  ASSUME NEW S, S \subseteq Dates, S # {}
  PROVE  Smallest(S) \in S /\ \A y \in S : Smallest(S) <= y
BY HasSmallest DEF Smallest

LEMMA GreatestIs ==
  ASSUME NEW S, S \subseteq Dates, S # {}
  PROVE  Greatest(S) \in S /\ \A y \in S : y <= Greatest(S)
BY HasGreatest DEF Greatest

-----------------------------------------------------------------------------
(* The search in the operands                                                   *)

LEMMA SuccessorFound ==
  ASSUME set \subseteq Dates, NEW d \in Int
  PROVE  /\ {x \in set : d < x} = {} => FindSuccessor(d) = End
         /\ {x \in set : d < x} # {} =>
              /\ FindSuccessor(d) \in set
              /\ d < FindSuccessor(d)
              /\ \A x \in set : d < x => FindSuccessor(d) <= x
<1> DEFINE later == {x \in set : d < x}
<1>1. later \subseteq Dates
  OBVIOUS
<1>2. CASE later = {}
  BY <1>2 DEF FindSuccessor
<1>3. CASE later # {}
  <2>1. FindSuccessor(d) = Smallest(later)
    BY <1>3 DEF FindSuccessor
  <2> QED
    BY <1>1, <1>3, <2>1, SmallestIs
<1> QED
  BY <1>2, <1>3

LEMMA PredecessorFound ==
  ASSUME set \subseteq Dates, NEW d \in Int
  PROVE  /\ {x \in set : x < d} = {} => FindPredecessor(d) = Begin
         /\ {x \in set : x < d} # {} =>
              /\ FindPredecessor(d) \in set
              /\ FindPredecessor(d) < d
              /\ \A x \in set : x < d => x <= FindPredecessor(d)
<1> DEFINE earlier == {x \in set : x < d}
<1>1. earlier \subseteq Dates
  OBVIOUS
<1>2. CASE earlier = {}
  BY <1>2 DEF FindPredecessor
<1>3. CASE earlier # {}
  <2>1. FindPredecessor(d) = Greatest(earlier)
    BY <1>3 DEF FindPredecessor
  <2> QED
    BY <1>1, <1>3, <2>1, GreatestIs
<1> QED
  BY <1>2, <1>3

-----------------------------------------------------------------------------
(* What is kept of the cache, as of any value c of it                           *)

Caches == [dates : SUBSET set, begin : Dates \cup {Unknown}, end : Dates \cup {Unknown},
           calls : 0 .. 2, spanned : BOOLEAN]
IsRun(s) == \A c1, cS \in s, x \in set : (c1 <= x /\ x <= cS) => x \in s
RangeHoldsDates(c) ==
  /\ c.begin = Unknown <=> c.end = Unknown
  /\ \A x \in c.dates : c.begin # Unknown /\ c.begin <= x /\ x <= c.end
Covers(c) ==
  ~c.spanned =>
    \A x \in set : (c.begin # Unknown /\ c.begin <= x /\ x <= c.end) => x \in c.dates
GoodCache(c) == c \in Caches /\ IsRun(c.dates) /\ RangeHoldsDates(c) /\ Covers(c)

LEMMA SetIsInt ==
  ASSUME set \subseteq Dates
  PROVE  /\ \A x \in set : x \in Int /\ x \in Dates /\ 1 <= x /\ x <= LastDay
         /\ \A x \in Dates : x \in Int /\ Begin < x /\ x < End /\ x # Unknown
BY Days DEF Dates, Begin, End, Unknown

LEMMA RangeSearched ==
  ASSUME set \subseteq Dates, NEW f \in Dates, NEW l \in Dates
  PROVE  /\ NoneFound(f, l) => \A x \in set : ~(f <= x /\ x <= l)
         /\ ~NoneFound(f, l) =>
              /\ FirstFound(f) \in set /\ LastFound(l) \in set
              /\ f <= FirstFound(f) /\ LastFound(l) <= l
              /\ FirstFound(f) <= LastFound(l)
              /\ \A x \in set : f <= x => FirstFound(f) <= x
              /\ \A x \in set : x <= l => x <= LastFound(l)
<1>1. f \in Int /\ l \in Int /\ Begin < f /\ l < End
  BY SetIsInt
<1>2. /\ FirstFound(f) = End /\ (\A x \in set : ~(f <= x))
      \/ /\ FirstFound(f) \in set /\ f <= FirstFound(f)
         /\ \A x \in set : f <= x => FirstFound(f) <= x
  <2>1. CASE f \in set
    BY <1>1, <2>1, SetIsInt DEF FirstFound
  <2>2. CASE f \notin set
    <3>1. FirstFound(f) = FindSuccessor(f)
      BY <2>2 DEF FirstFound
    <3>2. \A x \in set : f <= x => f < x
      BY <1>1, <2>2, SetIsInt
    <3>3. CASE {x \in set : f < x} = {}
      BY <1>1, <3>1, <3>2, <3>3, SuccessorFound
    <3>4. CASE {x \in set : f < x} # {}
      <4>1. /\ FirstFound(f) \in set
            /\ f < FirstFound(f)
            /\ \A x \in set : f < x => FirstFound(f) <= x
        BY <1>1, <3>1, <3>4, SuccessorFound
      <4>2. FirstFound(f) \in Int
        BY <4>1, SetIsInt
      <4>3. f <= FirstFound(f)
        BY <1>1, <4>1, <4>2
      <4>4. \A x \in set : f <= x => FirstFound(f) <= x
        BY <3>2, <4>1
      <4> QED
        BY <4>1, <4>3, <4>4
    <3> QED
      BY <3>3, <3>4
  <2> QED
    BY <2>1, <2>2
<1>3. /\ LastFound(l) = Begin /\ (\A x \in set : ~(x <= l))
      \/ /\ LastFound(l) \in set /\ LastFound(l) <= l
         /\ \A x \in set : x <= l => x <= LastFound(l)
  <2>1. CASE l \in set
    BY <1>1, <2>1, SetIsInt DEF LastFound
  <2>2. CASE l \notin set
    <3>1. LastFound(l) = FindPredecessor(l)
      BY <2>2 DEF LastFound
    <3>2. \A x \in set : x <= l => x < l
      BY <1>1, <2>2, SetIsInt
    <3>3. CASE {x \in set : x < l} = {}
      BY <1>1, <3>1, <3>2, <3>3, PredecessorFound
    <3>4. CASE {x \in set : x < l} # {}
      <4>1. /\ LastFound(l) \in set
            /\ LastFound(l) < l
            /\ \A x \in set : x < l => x <= LastFound(l)
        BY <1>1, <3>1, <3>4, PredecessorFound
      <4>2. LastFound(l) \in Int
        BY <4>1, SetIsInt
      <4>3. LastFound(l) <= l
        BY <1>1, <4>1, <4>2
      <4>4. \A x \in set : x <= l => x <= LastFound(l)
        BY <3>2, <4>1
      <4> QED
        BY <4>1, <4>3, <4>4
    <3> QED
      BY <3>3, <3>4
  <2> QED
    BY <2>1, <2>2
<1>4. End \notin set /\ Begin \notin set
  BY SetIsInt
<1>5. NoneFound(f, l) => \A x \in set : ~(f <= x /\ x <= l)
  <2> SUFFICES ASSUME NoneFound(f, l), NEW x \in set, f <= x, x <= l
               PROVE  FALSE
    OBVIOUS
  <2>1. f <= l
    BY <1>1, SetIsInt
  <2>2. FirstFound(f) \in set /\ FirstFound(f) <= x /\ LastFound(l) \in set /\ x <= LastFound(l)
    BY <1>2, <1>3
  <2>3. x \in Int /\ FirstFound(f) \in Int /\ LastFound(l) \in Int
    BY <2>2, SetIsInt
  <2>4. FirstFound(f) # End /\ LastFound(l) # Begin
    BY <1>4, <2>2
  <2>5. FirstFound(f) <= LastFound(l)
    BY <2>2, <2>3
  <2> QED
    BY <1>1, <2>1, <2>3, <2>4, <2>5 DEF NoneFound
<1>6. ~NoneFound(f, l) => /\ FirstFound(f) \in set /\ LastFound(l) \in set
                          /\ FirstFound(f) <= LastFound(l)
  BY <1>2, <1>3, SetIsInt DEF NoneFound
<1> QED
  BY <1>2, <1>3, <1>4, <1>5, <1>6

LEMMA ExtendedIs ==
  ASSUME set \subseteq Dates, NEW c, c \in Caches, IsRun(c.dates),
         NEW first \in set, NEW last \in set, first <= last
  PROVE  LET e == Extended(c, first, last)
         IN  /\ e \subseteq set /\ c.dates \subseteq e /\ IsRun(e)
             /\ first \in e /\ last \in e
             /\ \A x \in e : (first <= x \/ \E y \in c.dates : y <= x)
                            /\ (x <= last \/ \E y \in c.dates : x <= y)
<1> DEFINE e == Extended(c, first, last)
<1>0. c.dates \subseteq set
  BY DEF Caches
<1>1. CASE c.dates = {}
  BY <1>1, SetIsInt DEF Extended, Included, IsRun
<1>3. \A x \in set : x \in Int
  BY SetIsInt
<1>2. CASE c.dates # {}
  <2> DEFINE c1 == Smallest(c.dates)
             cS == Greatest(c.dates)
             left == {x \in set : first < c1 /\ first <= x /\ x < c1}
             right == {x \in set : cS < last /\ cS < x /\ x <= last}
  <2>1. /\ c1 \in c.dates /\ cS \in c.dates /\ c1 \in set /\ cS \in set
        /\ \A y \in c.dates : c1 <= y /\ y <= cS
    BY <1>0, <1>2, SmallestIs, GreatestIs
  <2>2. c1 \in Int /\ cS \in Int /\ first \in Int /\ last \in Int
    BY <2>1, SetIsInt
  <2> HIDE DEF c1, cS
  <2>3. ASSUME first < c1
        PROVE  Included(first, FindPredecessor(c1)) = left
    <3>1. {x \in set : x < c1} # {}
      BY <2>3
    <3>2. /\ FindPredecessor(c1) \in set /\ FindPredecessor(c1) < c1
          /\ \A x \in set : x < c1 => x <= FindPredecessor(c1)
      BY <2>2, <3>1, PredecessorFound
    <3>3. FindPredecessor(c1) \in Int
      BY <3>2, SetIsInt
    <3>4. \A x \in set : x <= FindPredecessor(c1) <=> x < c1
      BY <1>3, <2>2, <3>2, <3>3
    <3> QED
      BY <2>3, <3>4 DEF Included
  <2>4. ASSUME cS < last
        PROVE  Included(FindSuccessor(cS), last) = right
    <3>1. {x \in set : cS < x} # {}
      BY <2>4
    <3>2. /\ FindSuccessor(cS) \in set /\ cS < FindSuccessor(cS)
          /\ \A x \in set : cS < x => FindSuccessor(cS) <= x
      BY <2>2, <3>1, SuccessorFound
    <3>3. FindSuccessor(cS) \in Int
      BY <3>2, SetIsInt
    <3>4. \A x \in set : FindSuccessor(cS) <= x <=> cS < x
      BY <1>3, <2>2, <3>2, <3>3
    <3> QED
      BY <2>4, <3>4 DEF Included
  <2>5. e = left \cup c.dates \cup right
    BY <1>2, <2>3, <2>4 DEF Extended, c1, cS
  <2> HIDE DEF e
  <2>6. e \subseteq set /\ c.dates \subseteq e
    BY <1>0, <2>5
  <2>7. first \in e
    BY <2>1, <2>2, <2>5 DEF IsRun
  <2>8. last \in e
    BY <2>1, <2>2, <2>5 DEF IsRun
  <2>9. IsRun(e)
    <3> SUFFICES ASSUME NEW a \in e, NEW b \in e, NEW x \in set, a <= x, x <= b
                 PROVE  x \in e
      BY DEF IsRun
    <3>1. a \in Int /\ b \in Int /\ x \in Int
      BY <2>6, SetIsInt
    <3>2. CASE x < c1
      <4>1. a < c1
        BY <2>2, <3>1, <3>2
      <4>2. a \in left
        BY <2>1, <2>2, <2>5, <3>1, <4>1
      <4> QED
        BY <2>2, <2>5, <3>1, <3>2, <4>2
    <3>3. CASE cS < x
      <4>1. cS < b
        BY <2>2, <3>1, <3>3
      <4>2. b \in right
        BY <2>1, <2>2, <2>5, <3>1, <4>1
      <4> QED
        BY <2>2, <2>5, <3>1, <3>3, <4>2
    <3>4. CASE c1 <= x /\ x <= cS
      BY <2>1, <2>5, <3>4 DEF IsRun
    <3> QED
      BY <2>2, <3>1, <3>2, <3>3, <3>4
  <2>10. ASSUME NEW x \in e
         PROVE  /\ first <= x \/ \E y \in c.dates : y <= x
                /\ x <= last \/ \E y \in c.dates : x <= y
    <3>1. x \in Int
      BY <2>6, SetIsInt
    <3>2. CASE x \in left
      BY <2>1, <2>2, <3>1, <3>2
    <3>3. CASE x \in c.dates
      BY <3>1, <3>3
    <3>4. CASE x \in right
      BY <2>1, <2>2, <3>1, <3>4
    <3> QED
      BY <2>5, <3>2, <3>3, <3>4
  <2> QED
    BY <2>6, <2>7, <2>8, <2>9, <2>10 DEF e
<1> QED
  BY <1>1, <1>2

-----------------------------------------------------------------------------
(* What a build leaves                                                          *)

\* A range widened from the one of the cache to hold another
Widened(c, b, e, f, l) ==
  /\ b = (IF c.begin = Unknown \/ c.begin > f THEN f ELSE c.begin)
  /\ e = (IF c.end = Unknown \/ c.end < l THEN l ELSE c.end)

LEMMA WidenedIs ==
  ASSUME set \subseteq Dates, NEW c, c \in Caches, RangeHoldsDates(c),
         NEW f \in Dates, NEW l \in Dates, NEW b, NEW e, Widened(c, b, e, f, l)
  PROVE  /\ b \in Dates /\ e \in Dates
         /\ b <= f /\ l <= e
         /\ c.begin # Unknown => b <= c.begin /\ c.end <= e
         /\ b = f \/ (b = c.begin /\ c.begin # Unknown)
         /\ e = l \/ (e = c.end /\ c.end # Unknown)
<1>1. /\ c.begin \in Dates \/ c.begin = Unknown
      /\ c.end \in Dates \/ c.end = Unknown
  BY DEF Caches
<1>2. \A x \in Dates : x \in Int
  BY SetIsInt
<1> QED
  BY <1>1, <1>2 DEF Widened, RangeHoldsDates

LEMMA PutDates ==
  ASSUME set \subseteq Dates, NEW c, GoodCache(c), NEW f \in Dates, NEW l \in Dates,
         ~NoneFound(f, l), NEW b, NEW e, Widened(c, b, e, f, l)
  PROVE  /\ GoodCache(Ranged(c, Extended(c, FirstFound(f), LastFound(l)), b, e, f, l))
         /\ Extended(c, FirstFound(f), LastFound(l)) # {}
<1> DEFINE first == FirstFound(f)
           last == LastFound(l)
           dates == Extended(c, first, last)
           spanned == c.spanned \/ Spans(c, b, e, f, l)
           r == [dates |-> dates, begin |-> b, end |-> e, calls |-> c.calls, spanned |-> spanned]
<1>0. c \in Caches /\ IsRun(c.dates) /\ RangeHoldsDates(c) /\ Covers(c)
  BY DEF GoodCache
<1>1. /\ first \in set /\ last \in set /\ f <= first /\ last <= l /\ first <= last
      /\ \A x \in set : f <= x => first <= x
      /\ \A x \in set : x <= l => x <= last
  BY RangeSearched
<1> HIDE DEF first, last
<1>2. /\ dates \subseteq set /\ c.dates \subseteq dates /\ IsRun(dates)
      /\ first \in dates /\ last \in dates
      /\ \A x \in dates : (first <= x \/ \E y \in c.dates : y <= x)
                        /\ (x <= last \/ \E y \in c.dates : x <= y)
  BY <1>0, <1>1, ExtendedIs
<1>3. /\ b \in Dates /\ e \in Dates /\ b <= f /\ l <= e
      /\ c.begin # Unknown => b <= c.begin /\ c.end <= e
      /\ b = f \/ (b = c.begin /\ c.begin # Unknown)
      /\ e = l \/ (e = c.end /\ c.end # Unknown)
  BY <1>0, WidenedIs
<1> HIDE DEF dates
<1>4. Ranged(c, dates, b, e, f, l) = r
  BY DEF Ranged
<1>5. \A x \in Dates : x \in Int /\ x # Unknown
  BY SetIsInt
<1>5a. /\ c.dates \subseteq set
       /\ c.begin \in Dates \/ c.begin = Unknown
       /\ c.end \in Dates \/ c.end = Unknown
       /\ c.calls \in 0 .. 2 /\ c.spanned \in BOOLEAN
  BY <1>0 DEF Caches
<1>6. r \in Caches
  BY <1>2, <1>3, <1>5a DEF Caches
<1>7. RangeHoldsDates(r)
  <2> SUFFICES ASSUME NEW x \in dates
               PROVE  b <= x /\ x <= e
    BY <1>3, <1>5 DEF RangeHoldsDates
  <2>1. x \in Int /\ first \in Int /\ last \in Int /\ f \in Int /\ l \in Int /\ b \in Int /\ e \in Int
    BY <1>1, <1>2, <1>3, <1>5
  <2>2. \A y \in c.dates : y \in Int /\ c.begin # Unknown /\ c.begin <= y /\ y <= c.end
                          /\ c.end # Unknown
    BY <1>0, <1>5, <1>5a DEF RangeHoldsDates
  <2>3. \A y \in c.dates : c.begin \in Int /\ c.end \in Int /\ b <= y /\ y <= e
    <3> TAKE y \in c.dates
    <3>1. c.begin \in Int /\ c.end \in Int
      BY <1>5, <1>5a, <2>2
    <3> QED
      BY <1>3, <2>1, <2>2, <3>1
  <2>4. b <= x
    <3>1. CASE first <= x
      BY <1>1, <1>3, <2>1, <3>1
    <3>2. CASE \E y \in c.dates : y <= x
      BY <2>1, <2>2, <2>3, <3>2
    <3> QED
      BY <1>2, <3>1, <3>2
  <2>5. x <= e
    <3>1. CASE x <= last
      BY <1>1, <1>3, <2>1, <3>1
    <3>2. CASE \E y \in c.dates : x <= y
      BY <2>1, <2>2, <2>3, <3>2
    <3> QED
      BY <1>2, <3>1, <3>2
  <2> QED
    BY <2>4, <2>5
<1>8. Covers(r)
  <2> SUFFICES ASSUME ~c.spanned, ~Spans(c, b, e, f, l), NEW x \in set, b <= x, x <= e
               PROVE  x \in dates
    BY DEF Covers
  <2>1. x \in Int /\ f \in Int /\ l \in Int /\ b \in Int /\ e \in Int /\ x \in Dates
    BY <1>3, <1>5
  <2>2. CASE f <= x /\ x <= l
    BY <1>1, <1>2, <2>2 DEF IsRun
  <2>3. CASE c.begin # Unknown /\ c.begin <= x /\ x <= c.end
    BY <1>0, <1>2, <2>3 DEF Covers
  <2>4. ASSUME c.dates = {}, ~(f <= x /\ x <= l)
        PROVE  c.begin # Unknown /\ c.begin <= x /\ x <= c.end
    <3>1. x \in b .. e
      BY <2>1
    <3>2. c.begin <= x /\ x <= c.end
      BY <2>4, <3>1 DEF Spans
    <3>3. c.begin # Unknown
      <4> SUFFICES ASSUME c.begin = Unknown
                   PROVE  FALSE
        OBVIOUS
      <4>1. c.end = Unknown
        BY <1>0 DEF RangeHoldsDates
      <4>2. 1 <= x
        BY <2>1, SetIsInt
      <4> QED
        BY <2>1, <3>2, <4>1, <4>2 DEF Unknown
    <3> QED
      BY <3>2, <3>3
  <2>5. ASSUME NEW y \in c.dates, ~(f <= x /\ x <= l), ~(c.begin <= x /\ x <= c.end)
        PROVE  x \in dates
    <3>1. y \in set /\ y \in dates /\ y \in Int /\ c.begin # Unknown /\ c.end # Unknown
          /\ c.begin <= y /\ y <= c.end
      BY <1>0, <1>2, <1>5 DEF RangeHoldsDates
    <3>2. c.begin \in Int /\ c.end \in Int
      BY <1>5, <1>5a, <3>1
    <3>3. CASE x < c.begin
      <4>1. f <= x
        BY <1>3, <2>1, <3>2, <3>3
      <4>2. first <= x /\ x <= y
        BY <1>1, <2>1, <3>1, <3>2, <3>3, <4>1
      <4> QED
        BY <1>2, <3>1, <4>2 DEF IsRun
    <3>4. CASE c.end < x
      <4>1. x <= l
        BY <1>3, <2>1, <3>2, <3>4
      <4>2. x <= last /\ y <= x
        BY <1>1, <2>1, <3>1, <3>2, <3>4, <4>1
      <4> QED
        BY <1>2, <3>1, <4>2 DEF IsRun
    <3> QED
      BY <2>1, <2>5, <3>2, <3>3, <3>4
  <2>6. CASE c.dates = {}
    BY <2>2, <2>3, <2>4, <2>6
  <2>7. ASSUME c.dates # {}
        PROVE  x \in dates
    <3>1. PICK y : y \in c.dates
      BY <2>7
    <3>2. c.begin # Unknown
      BY <1>0, <3>1 DEF RangeHoldsDates
    <3> QED
      BY <2>2, <2>3, <2>5, <3>1, <3>2
  <2> QED
    BY <2>6, <2>7
<1>9. IsRun(r.dates) /\ dates # {}
  BY <1>2
<1> QED
  BY <1>4, <1>6, <1>7, <1>8, <1>9 DEF GoodCache, dates, first, last

\* A range with no date of the set, put on a cache that holds none
LEMMA PutNone ==
  ASSUME set \subseteq Dates, NEW c, GoodCache(c), c.dates = {},
         NEW f \in Dates, NEW l \in Dates, NoneFound(f, l)
  PROVE  GoodCache(PutEmptyRange(c, f, l))
<1> DEFINE b == IF c.begin = Unknown \/ f < c.begin THEN f ELSE c.begin
           e == IF c.end = Unknown \/ l > c.end THEN l ELSE c.end
           spanned == c.spanned \/ Spans(c, b, e, f, l)
           r == [dates |-> c.dates, begin |-> b, end |-> e, calls |-> c.calls, spanned |-> spanned]
<1>0. /\ c \in Caches /\ RangeHoldsDates(c) /\ Covers(c)
      /\ c.begin \in Dates \/ c.begin = Unknown
      /\ c.end \in Dates \/ c.end = Unknown
      /\ c.calls \in 0 .. 2 /\ c.spanned \in BOOLEAN
  BY DEF GoodCache, Caches
<1>1. PutEmptyRange(c, f, l) = r
  BY DEF PutEmptyRange, Ranged
<1>2. \A x \in Dates : x \in Int /\ x # Unknown /\ 1 <= x
  BY SetIsInt, Days DEF Dates, Unknown
<1>3. b \in Dates /\ e \in Dates
  BY <1>0
<1> HIDE DEF b, e
<1>4. r \in Caches
  BY <1>0, <1>3 DEF Caches
<1>5. RangeHoldsDates(r) /\ IsRun(r.dates)
  BY <1>2, <1>3 DEF RangeHoldsDates, IsRun
<1>6. Covers(r)
  <2> SUFFICES ASSUME ~c.spanned, ~Spans(c, b, e, f, l), NEW x \in set, b <= x, x <= e
               PROVE  FALSE
    BY DEF Covers
  <2>1. x \in Int /\ b \in Int /\ e \in Int /\ 1 <= x
    BY <1>2, <1>3
  <2>2. x \in b .. e
    BY <2>1
  <2>3. ~(f <= x /\ x <= l)
    BY RangeSearched
  <2>4. c.begin <= x /\ x <= c.end
    BY <2>2, <2>3 DEF Spans
  <2>5. c.begin # Unknown
    BY <1>0, <2>1, <2>4 DEF RangeHoldsDates, Unknown
  <2> QED
    BY <1>0, <2>4, <2>5 DEF Covers
<1> QED
  BY <1>1, <1>4, <1>5, <1>6 DEF GoodCache

LEMMA CalcRange ==
  ASSUME set \subseteq Dates, limits \in Limits, NEW f \in Int, NEW l \in Int
  PROVE  /\ CalcFirst(f) \in Dates /\ CalcLast(l) \in Dates
         /\ f \in Dates => \A x \in set : f <= x <=> CalcFirst(f) <= x
         /\ l \in Dates => \A x \in set : x <= l <=> x <= CalcLast(l)
<1>1. /\ Inf \in Int /\ Sup \in Int
      /\ Inf \in Dates \cup {Begin, End} /\ Sup \in Dates \cup {Begin, End}
      /\ \A x \in set : Inf <= x /\ x <= Sup
  BY Days DEF Limits, Inf, Sup, Dates, Begin, End
<1>2. /\ \A x \in set : x \in Int /\ Begin < x /\ x < End
      /\ \A x \in Dates : x \in Int /\ Begin < x /\ x < End
      /\ Begin \in Int /\ End \in Int
  BY SetIsInt, Days DEF Begin, End
<1>3. CalcFirst(f) \in Dates /\ CalcLast(l) \in Dates
  BY Days DEF CalcFirst, CalcLast
<1>4. ASSUME f \in Dates, NEW x \in set
      PROVE  f <= x <=> CalcFirst(f) <= x
  <2>1. x \in Int /\ Inf <= x /\ Begin < x /\ x < End /\ Begin < f /\ f < End
    BY <1>1, <1>2, <1>4
  <2>2. CASE f < Inf
    <3>1. Inf \in Dates
      BY <1>1, <1>2, <2>1, <2>2
    <3> QED
      BY <1>1, <2>1, <2>2, <3>1 DEF CalcFirst
  <2>3. CASE ~(f < Inf)
    BY <1>4, <2>3 DEF CalcFirst
  <2> QED
    BY <2>2, <2>3
<1>5. ASSUME l \in Dates, NEW x \in set
      PROVE  x <= l <=> x <= CalcLast(l)
  <2>1. x \in Int /\ x <= Sup /\ Begin < x /\ x < End /\ Begin < l /\ l < End
    BY <1>1, <1>2, <1>5
  <2>2. CASE l > Sup
    <3>1. Sup \in Dates
      BY <1>1, <1>2, <2>1, <2>2
    <3> QED
      BY <1>1, <2>1, <2>2, <3>1 DEF CalcLast
  <2>3. CASE ~(l > Sup)
    BY <1>5, <2>3 DEF CalcLast
  <2> QED
    BY <2>2, <2>3
<1> QED
  BY <1>3, <1>4, <1>5

LEMMA CalledGood ==
  ASSUME NEW c, GoodCache(c)
  PROVE  /\ GoodCache(AddCall(c))
         /\ AddCall(c).dates = c.dates /\ AddCall(c).spanned = c.spanned
<1> DEFINE n == IF c.calls > 1 THEN 2 ELSE c.calls + 1
           r == [dates |-> c.dates, begin |-> c.begin, end |-> c.end, calls |-> n,
                 spanned |-> c.spanned]
<1>1. c = [dates |-> c.dates, begin |-> c.begin, end |-> c.end, calls |-> c.calls,
           spanned |-> c.spanned]
  BY DEF GoodCache, Caches
<1>2. AddCall(c) = r
  BY <1>1 DEF AddCall
<1>3. c.calls \in 0 .. 2
  BY DEF GoodCache, Caches
<1>4. n \in 0 .. 2
  BY <1>3
<1> HIDE DEF n
<1>5. r \in Caches
  BY <1>4 DEF GoodCache, Caches
<1> QED
  BY <1>2, <1>5 DEF GoodCache, IsRun, RangeHoldsDates, Covers

LEMMA BuiltGood ==
  ASSUME set \subseteq Dates, limits \in Limits, NEW c, GoodCache(c),
         NEW f0 \in Int, NEW l0 \in Int, NEW forcing \in BOOLEAN, NEW slow \in BOOLEAN
  PROVE  /\ GoodCache(Built(c, f0, l0, forcing, slow))
         /\ c.spanned => Built(c, f0, l0, forcing, slow).spanned
<1> DEFINE d == AddCall(c)
           f == CalcFirst(f0)
           l == CalcLast(l0)
           first == FirstFound(f)
           last == LastFound(l)
           covered == d.dates # {} /\ Smallest(d.dates) <= first /\ last <= Greatest(d.dates)
           put == PutCache(d, Extended(d, first, last), f, l, forcing, slow)
           built == IF NoneFound(f, l) \/ covered THEN d ELSE put
           b == IF d.begin = Unknown \/ d.begin > f THEN f ELSE d.begin
           e == IF d.end = Unknown \/ d.end < l THEN l ELSE d.end
           ranged == Ranged(d, Extended(d, first, last), b, e, f, l)
<1>1. GoodCache(d) /\ (c.spanned => d.spanned)
  BY CalledGood
<1>2. f \in Dates /\ l \in Dates
  BY CalcRange
<1>3. Built(c, f0, l0, forcing, slow)
        = IF forcing /\ built.dates = {} THEN PutEmptyRange(built, f, l) ELSE built
  BY DEF Built
<1> HIDE DEF d, f, l
<1>4. put = IF forcing \/ d.calls > 1 \/ slow THEN ranged ELSE d
  BY DEF PutCache
<1>5. ASSUME ~NoneFound(f, l)
      PROVE  GoodCache(ranged) /\ ranged.dates # {} /\ (d.spanned => ranged.spanned)
  <2>1. Widened(d, b, e, f, l)
    BY DEF Widened
  <2>2. GoodCache(ranged) /\ Extended(d, first, last) # {}
    BY <1>1, <1>2, <1>5, <2>1, PutDates
  <2> QED
    BY <2>2 DEF Ranged
<1>6. CASE NoneFound(f, l) /\ d.dates = {}
  <2>1. built = d
    BY <1>6
  <2>2. GoodCache(PutEmptyRange(d, f, l))
    BY <1>1, <1>2, <1>6, PutNone
  <2>3. d.spanned => PutEmptyRange(d, f, l).spanned
    BY DEF PutEmptyRange, Ranged
  <2>4. CASE forcing
    BY <1>1, <1>3, <1>6, <2>1, <2>2, <2>3, <2>4
  <2>5. CASE ~forcing
    BY <1>1, <1>3, <2>1, <2>5
  <2> QED
    BY <2>4, <2>5
<1>7. CASE d.dates # {} /\ (NoneFound(f, l) \/ covered)
  <2>1. built = d
    BY <1>7
  <2> QED
    BY <1>1, <1>3, <1>7, <2>1
<1>8. CASE ~(NoneFound(f, l) \/ covered)
  <2>1. built = put
    BY <1>8
  <2>2. CASE forcing \/ d.calls > 1 \/ slow
    <3>1. built = ranged
      BY <1>4, <2>1, <2>2
    <3> HIDE DEF built, ranged
    <3> QED
      BY <1>1, <1>3, <1>5, <1>8, <3>1
  <2>3. CASE ~(forcing \/ d.calls > 1 \/ slow)
    <3>1. built = d /\ ~forcing
      BY <1>4, <2>1, <2>3
    <3> HIDE DEF built
    <3> QED
      BY <1>1, <1>3, <3>1
  <2> QED
    BY <2>2, <2>3
<1> QED
  BY <1>6, <1>7, <1>8

-----------------------------------------------------------------------------
(* The answers                                                                  *)

LEMMA BetweenIs ==
  ASSUME set \subseteq Dates, limits \in Limits, NEW c, GoodCache(c),
         NEW f0 \in Dates, NEW l0 \in Dates
  PROVE  HashBetween(c, f0, l0) = T!Between(f0, l0)
<1> DEFINE f == CalcFirst(f0)
           l == CalcLast(l0)
           first == FirstFound(f)
           last == LastFound(l)
           e == Extended(c, first, last)
<1>0. f0 \in Int /\ l0 \in Int /\ c \in Caches /\ IsRun(c.dates)
  BY SetIsInt DEF GoodCache
<1>1. /\ f \in Dates /\ l \in Dates
      /\ \A x \in set : f0 <= x <=> f <= x
      /\ \A x \in set : x <= l0 <=> x <= l
  BY <1>0, CalcRange
<1>2. T!Between(f0, l0) = {x \in set : f <= x /\ x <= l}
  BY <1>1 DEF T!Between
<1>3. HashBetween(c, f0, l0) =
        IF NoneFound(f, l) THEN {} ELSE {x \in e : first <= x /\ x <= last}
  BY DEF HashBetween
<1> HIDE DEF f, l
<1>4. CASE NoneFound(f, l)
  BY <1>1, <1>2, <1>3, <1>4, RangeSearched
<1>5. CASE ~NoneFound(f, l)
  <2>1. /\ first \in set /\ last \in set /\ f <= first /\ last <= l /\ first <= last
        /\ \A x \in set : f <= x => first <= x
        /\ \A x \in set : x <= l => x <= last
    BY <1>1, <1>5, RangeSearched
  <2> HIDE DEF first, last
  <2>2. e \subseteq set /\ IsRun(e) /\ first \in e /\ last \in e
    BY <1>0, <2>1, ExtendedIs
  <2> HIDE DEF e
  <2>3. first \in Int /\ last \in Int /\ f \in Int /\ l \in Int /\ \A x \in set : x \in Int
    BY <1>1, <2>1, SetIsInt
  <2>4. \A x \in set : (first <= x /\ x <= last) <=> (f <= x /\ x <= l)
    BY <2>1, <2>3
  <2>5. \A x \in set : (first <= x /\ x <= last) => x \in e
    BY <2>2 DEF IsRun
  <2> QED
    BY <1>2, <1>3, <1>5, <2>2, <2>4, <2>5
<1> QED
  BY <1>4, <1>5

LEMMA FoundIs ==
  ASSUME set \subseteq Dates, NEW d \in Int
  PROVE  T!IsAfter(d, FindSuccessor(d)) /\ T!IsBefore(d, FindPredecessor(d))
<1>1. T!Later(d) = {x \in set : d < x} /\ T!Earlier(d) = {x \in set : x < d} /\ T!Begin = Begin /\ T!End = End
  BY DEF T!Later, T!Earlier, T!Begin, T!End, Begin, End
<1> QED
  BY <1>1, SuccessorFound, PredecessorFound DEF T!IsAfter, T!IsBefore, T!IsFirst, T!IsLast

LEMMA HashSuccIs ==
  ASSUME set \subseteq Dates, NEW c, GoodCache(c), NEW d \in Int
  PROVE  T!IsAfter(d, HashSucc(c, d))
<1>0. c.dates \subseteq set /\ IsRun(c.dates)
  BY DEF GoodCache, Caches
<1>1. CASE c.dates # {} /\ d \in Dates /\ Smallest(c.dates) <= d /\ d < Greatest(c.dates)
  <2> DEFINE later == {x \in c.dates : d < x}
             n == Smallest(later)
  <2>1. HashSucc(c, d) = n
    BY <1>1 DEF HashSucc
  <2>2. /\ Greatest(c.dates) \in c.dates /\ Smallest(c.dates) \in c.dates
        /\ \A y \in c.dates : y <= Greatest(c.dates)
    BY <1>0, <1>1, SmallestIs, GreatestIs
  <2>3. later # {} /\ later \subseteq Dates
    BY <1>0, <1>1, <2>2
  <2>4. n \in later /\ \A y \in later : n <= y
    BY <2>3, SmallestIs
  <2> HIDE DEF n
  <2>5. \A x \in set : x \in Int
    BY SetIsInt
  <2>6. \A x \in set : d < x => n <= x
    <3> SUFFICES ASSUME NEW x \in set, d < x, ~(n <= x)
                 PROVE  FALSE
      OBVIOUS
    <3>1. x \in Int /\ n \in Int /\ n \in c.dates /\ Smallest(c.dates) \in Int
      BY <1>0, <2>2, <2>4, <2>5
    <3>2. Smallest(c.dates) <= x /\ x <= n
      BY <1>1, <3>1
    <3>3. x \in c.dates
      BY <1>0, <2>2, <3>1, <3>2 DEF IsRun
    <3> QED
      BY <2>4, <3>3
  <2>7. T!Later(d) = {x \in set : d < x}
    BY DEF T!Later
  <2> QED
    BY <1>0, <2>1, <2>4, <2>6, <2>7 DEF T!IsAfter, T!IsFirst
<1>2. CASE ~(c.dates # {} /\ d \in Dates /\ Smallest(c.dates) <= d /\ d < Greatest(c.dates))
  BY <1>2, FoundIs DEF HashSucc
<1> QED
  BY <1>1, <1>2

LEMMA HashPredIs ==
  ASSUME set \subseteq Dates, NEW c, GoodCache(c), NEW d \in Int
  PROVE  T!IsBefore(d, HashPred(c, d))
<1>0. c.dates \subseteq set /\ IsRun(c.dates)
  BY DEF GoodCache, Caches
<1>1. CASE c.dates # {} /\ d \in Dates /\ Smallest(c.dates) < d /\ d <= Greatest(c.dates)
  <2> DEFINE earlier == {x \in c.dates : x < d}
             n == Greatest(earlier)
  <2>1. HashPred(c, d) = n
    BY <1>1 DEF HashPred
  <2>2. /\ Smallest(c.dates) \in c.dates /\ Greatest(c.dates) \in c.dates
    BY <1>0, <1>1, SmallestIs, GreatestIs
  <2>3. earlier # {} /\ earlier \subseteq Dates
    BY <1>0, <1>1, <2>2
  <2>4. n \in earlier /\ \A y \in earlier : y <= n
    BY <2>3, GreatestIs
  <2> HIDE DEF n
  <2>5. \A x \in set : x \in Int
    BY SetIsInt
  <2>6. \A x \in set : x < d => x <= n
    <3> SUFFICES ASSUME NEW x \in set, x < d, ~(x <= n)
                 PROVE  FALSE
      OBVIOUS
    <3>1. x \in Int /\ n \in Int /\ n \in c.dates /\ Greatest(c.dates) \in Int
      BY <1>0, <2>2, <2>4, <2>5
    <3>2. n <= x /\ x <= Greatest(c.dates)
      BY <1>1, <3>1
    <3>3. x \in c.dates
      BY <1>0, <2>2, <3>1, <3>2 DEF IsRun
    <3> QED
      BY <2>4, <3>3
  <2>7. T!Earlier(d) = {x \in set : x < d}
    BY DEF T!Earlier
  <2> QED
    BY <1>0, <2>1, <2>4, <2>6, <2>7 DEF T!IsBefore, T!IsLast
<1>2. CASE ~(c.dates # {} /\ d \in Dates /\ Smallest(c.dates) < d /\ d <= Greatest(c.dates))
  BY <1>2, FoundIs DEF HashPred
<1> QED
  BY <1>1, <1>2

LEMMA PreparedGood ==
  ASSUME set \subseteq Dates, limits \in Limits, NEW c, GoodCache(c), NEW d \in Int
  PROVE  GoodCache(Prepared(c, d)) /\ (c.spanned => Prepared(c, d).spanned)
<1>1. DefaultFirst \in Int /\ DefaultLast \in Int
  BY Days, SetIsInt
<1> QED
  BY <1>1, BuiltGood DEF Prepared

\* The date the limits bring a question to has the same dates after it (before it)
LEMMA LimitsKeepAnswers ==
  ASSUME set \subseteq Dates, limits \in Limits, NEW d \in Dates
  PROVE  /\ ToInf(d) \in Int /\ ToSup(d) \in Int
         /\ ~NoSuccessor(d) /\ ~NoPredecessor(d)
         /\ \A x \in set : d < x <=> ToInf(d) < x
         /\ \A x \in set : x < d <=> x < ToSup(d)
         /\ ToInf(d) >= Sup => \A x \in set : ~(d < x)
         /\ ToSup(d) <= Inf => \A x \in set : ~(x < d)
<1>1. /\ Inf \in Int /\ Sup \in Int
      /\ \A x \in set : Inf <= x /\ x <= Sup
  BY Days DEF Limits, Inf, Sup, Dates, Begin, End
<1>2. d \in Int /\ Begin < d /\ d < End /\ d # Unknown /\ \A x \in set : x \in Int
  BY SetIsInt
<1>3. ToInf(d) = (IF d < Inf THEN Inf - 1 ELSE d) /\ ToSup(d) = (IF d > Sup THEN Sup + 1 ELSE d)
  BY DEF ToInf, ToSup
<1>4. ~NoSuccessor(d) /\ ~NoPredecessor(d)
  BY <1>2, Days DEF NoSuccessor, NoPredecessor, Begin, End
<1>5. ToInf(d) \in Int /\ ToSup(d) \in Int
  BY <1>1, <1>2, <1>3
<1>6. ASSUME NEW x \in set
      PROVE  /\ d < x <=> ToInf(d) < x
             /\ x < d <=> x < ToSup(d)
             /\ ToInf(d) >= Sup => ~(d < x)
             /\ ToSup(d) <= Inf => ~(x < d)
  <2>1. Inf <= x /\ x <= Sup /\ x \in Int
    BY <1>1, <1>2
  <2> QED
    BY <1>1, <1>2, <1>3, <2>1
<1> QED
  BY <1>4, <1>5, <1>6

LEMMA SuccessorIs ==
  ASSUME set \subseteq Dates, limits \in Limits, NEW c, GoodCache(c), NEW d \in Dates
  PROVE  /\ T!IsAfter(d, SuccessorOf(c, d))
         /\ GoodCache(AfterSuccessor(c, d))
         /\ c.spanned => AfterSuccessor(c, d).spanned
<1> DEFINE g == ToInf(d)
<1>1. /\ g \in Int /\ ~NoSuccessor(d)
      /\ \A x \in set : d < x <=> g < x
      /\ g >= Sup => \A x \in set : ~(d < x)
  BY LimitsKeepAnswers
<1> HIDE DEF g
<1>2. T!Later(d) = T!Later(g)
  BY <1>1 DEF T!Later
<1>3. CASE g >= Sup
  <2>1. T!Later(d) = {}
    BY <1>1, <1>3 DEF T!Later
  <2>2. SuccessorOf(c, d) = End /\ AfterSuccessor(c, d) = c
    BY <1>1, <1>3 DEF SuccessorOf, AfterSuccessor, g
  <2> QED
    BY <2>1, <2>2 DEF T!IsAfter, T!End, End
<1>4. CASE ~(g >= Sup)
  <2>1. /\ SuccessorOf(c, d) = HashSucc(Prepared(c, g), g)
        /\ AfterSuccessor(c, d) = Prepared(c, g)
    BY <1>1, <1>4 DEF SuccessorOf, AfterSuccessor, g
  <2>2. GoodCache(Prepared(c, g)) /\ (c.spanned => Prepared(c, g).spanned)
    BY <1>1, PreparedGood
  <2>3. T!IsAfter(g, HashSucc(Prepared(c, g), g))
    BY <1>1, <2>2, HashSuccIs
  <2> QED
    BY <1>2, <2>1, <2>2, <2>3 DEF T!IsAfter
<1> QED
  BY <1>3, <1>4

LEMMA PredecessorIs ==
  ASSUME set \subseteq Dates, limits \in Limits, NEW c, GoodCache(c), NEW d \in Dates
  PROVE  /\ T!IsBefore(d, PredecessorOf(c, d))
         /\ GoodCache(AfterPredecessor(c, d))
         /\ c.spanned => AfterPredecessor(c, d).spanned
<1> DEFINE g == ToSup(d)
<1>1. /\ g \in Int /\ ~NoPredecessor(d)
      /\ \A x \in set : x < d <=> x < g
      /\ g <= Inf => \A x \in set : ~(x < d)
  BY LimitsKeepAnswers
<1> HIDE DEF g
<1>2. T!Earlier(d) = T!Earlier(g)
  BY <1>1 DEF T!Earlier
<1>3. CASE g <= Inf
  <2>1. T!Earlier(d) = {}
    BY <1>1, <1>3 DEF T!Earlier
  <2>2. PredecessorOf(c, d) = Begin /\ AfterPredecessor(c, d) = c
    BY <1>1, <1>3 DEF PredecessorOf, AfterPredecessor, g
  <2> QED
    BY <2>1, <2>2 DEF T!IsBefore, T!Begin, Begin
<1>4. CASE ~(g <= Inf)
  <2>1. /\ PredecessorOf(c, d) = HashPred(Prepared(c, g), g)
        /\ AfterPredecessor(c, d) = Prepared(c, g)
    BY <1>1, <1>4 DEF PredecessorOf, AfterPredecessor, g
  <2>2. GoodCache(Prepared(c, g)) /\ (c.spanned => Prepared(c, g).spanned)
    BY <1>1, PreparedGood
  <2>3. T!IsBefore(g, HashPred(Prepared(c, g), g))
    BY <1>1, <2>2, HashPredIs
  <2> QED
    BY <1>2, <2>1, <2>2, <2>3 DEF T!IsBefore
<1> QED
  BY <1>3, <1>4

\* While the cache covers its range, what Contain tells is so
LEMMA ContainsIs ==
  ASSUME set \subseteq Dates, NEW c, GoodCache(c), NEW d \in Dates, ~c.spanned
  PROVE  Contains(c, d) <=> d \in set
<1>1. c.dates \subseteq set
  BY DEF GoodCache, Caches
<1>2. ASSUME c.begin # Unknown, c.begin <= d, d <= c.end, d \in set
      PROVE  d \in c.dates
  BY <1>2 DEF GoodCache, Covers
<1> QED
  BY <1>1, <1>2 DEF Contains

-----------------------------------------------------------------------------
(* The cache is good in every state                                             *)

IInv == set \subseteq Dates /\ limits \in Limits /\ GoodCache(tms)

LEMMA InitGood == Init => IInv
<1> SUFFICES ASSUME Init
             PROVE  IInv
  OBVIOUS
<1>1. set \subseteq Dates /\ limits \in Limits
  BY DEF Init
<1>2. tms = NoCache
  BY DEF Init
<1>3. NoCache \in Caches
  BY DEF Caches, NoCache, Unknown
<1>4. IsRun(NoCache.dates) /\ RangeHoldsDates(NoCache) /\ Covers(NoCache)
  BY DEF IsRun, RangeHoldsDates, Covers, NoCache, Unknown
<1> QED
  BY <1>1, <1>2, <1>3, <1>4 DEF IInv, GoodCache

\* A step asks something of the cache, and leaves the dates of the set alone
LEMMA StepGood ==
  ASSUME IInv, [Next]_vars
  PROVE  IInv' /\ UNCHANGED <<set, limits>> /\ (tms.spanned => tms'.spanned)
<1>0. set \subseteq Dates /\ limits \in Limits /\ GoodCache(tms)
  BY DEF IInv
<1>1. ASSUME UNCHANGED <<set, limits>>, GoodCache(tms'), tms.spanned => tms'.spanned
      PROVE  IInv' /\ UNCHANGED <<set, limits>> /\ (tms.spanned => tms'.spanned)
  <2>1. Limits' = Limits
    BY <1>1 DEF Limits
  <2>2. GoodCache(tms)'
    BY <1>1 DEF GoodCache, Caches, IsRun, RangeHoldsDates, Covers
  <2> QED
    BY <1>0, <1>1, <2>1, <2>2 DEF IInv
<1>2. ASSUME NEW d \in Dates, Contain(d)
      PROVE  UNCHANGED <<set, limits>> /\ tms' = tms
  BY <1>2 DEF Contain, Ask
<1>3. ASSUME NEW d \in Dates, Successor(d)
      PROVE  UNCHANGED <<set, limits>> /\ GoodCache(tms') /\ (tms.spanned => tms'.spanned)
  BY <1>0, <1>3, SuccessorIs DEF Successor, Ask
<1>4. ASSUME NEW d \in Dates, Predecessor(d)
      PROVE  UNCHANGED <<set, limits>> /\ GoodCache(tms') /\ (tms.spanned => tms'.spanned)
  BY <1>0, <1>4, PredecessorIs DEF Predecessor, Ask
<1>5. ASSUME NEW f \in Dates, NEW l \in Dates, GetHashBetween(f, l)
      PROVE  UNCHANGED <<set, limits>> /\ GoodCache(tms') /\ (tms.spanned => tms'.spanned)
  <2>1. f \in Int /\ l \in Int
    BY SetIsInt, <1>0
  <2>2. PICK slow \in BOOLEAN : tms' = Built(tms, f, l, FALSE, slow)
    BY <1>5 DEF GetHashBetween
  <2> QED
    BY <1>0, <1>5, <2>1, <2>2, BuiltGood DEF GetHashBetween, Ask
<1>6. ASSUME NEW f \in set \cup {Begin}, NEW l \in set \cup {End}, ForceCache(f, l)
      PROVE  UNCHANGED <<set, limits>> /\ GoodCache(tms') /\ (tms.spanned => tms'.spanned)
  <2>1. f \in Int /\ l \in Int
    BY SetIsInt, <1>0, Days DEF Begin, End
  <2> QED
    BY <1>0, <1>6, <2>1, BuiltGood DEF ForceCache
<1>7. ASSUME Answered \/ UNCHANGED vars
      PROVE  UNCHANGED <<set, limits>> /\ tms' = tms
  BY <1>7 DEF Answered, vars
<1> QED
  BY <1>0, <1>1, <1>2, <1>3, <1>4, <1>5, <1>6, <1>7 DEF Next

LEMMA AlwaysGood == Spec => []IInv
<1>1. IInv /\ [Next]_vars => IInv'
  BY StepGood
<1> QED
  BY InitGood, <1>1, PTL DEF Spec

\* The state of a cached time set is always well formed (BCacheInfo, tol_btmsgra.h).
THEOREM TypeCorrect == Spec => []TypeOK
<1>1. IInv => TypeOK
  BY DEF IInv, GoodCache, Caches, TypeOK
<1> QED
  BY <1>1, AlwaysGood, PTL

\* However a cache is extended, on either side and by whichever question, it stays a run
\* of consecutive dates of the set (tms.cpp:280-316).
THEOREM NoHoles == Spec => []CacheHasNoHoles
<1>1. IInv => CacheHasNoHoles
  BY DEF IInv, GoodCache, IsRun, CacheHasNoHoles
<1> QED
  BY <1>1, AlwaysGood, PTL

\* A date of the set in the range noted with the cache is in the cache, as Contain takes
\* for granted, unless the range spans dates nobody looked at (tms.cpp:161-217, 333-337).
THEOREM CoversItsRange == Spec => []CacheCoversItsRange
<1>1. IInv => CacheCoversItsRange
  BY DEF IInv, GoodCache, Covers, CacheCoversItsRange
<1> QED
  BY <1>1, AlwaysGood, PTL

-----------------------------------------------------------------------------
(* The cache changes no answer: every step is one of the time set as promised   *)

LEMMA InitMaps == Init => T!Init
<1>1. Init => tms.spanned = FALSE
  BY DEF Init, NoCache
<1> QED
  BY <1>1 DEF Init, T!Init, T!Dates, Dates, T!Idle, Idle

LEMMA AskMaps ==
  ASSUME NEW op, NEW d \in Dates, NEW e \in Int, NEW answers, NEW answer \in answers,
         Ask(op, d, e, answer), tms.spanned => tms'.spanned
  PROVE  /\ T!Ask(op, answers)
         /\ asked'.from = d /\ asked'.to = e /\ asked'.answer = answer
<1>1. asked' = [op |-> op, from |-> d, to |-> e, answer |-> answer]
  BY DEF Ask
<1>2. asked' \in T!Question(op, answers)
  BY <1>1 DEF T!Question, T!Dates, Dates
<1>3. (~tms'.spanned) \in {~tms.spanned, FALSE}
  <2>1. CASE tms'.spanned
    <3>1. (~tms'.spanned) = FALSE
      BY <2>1
    <3> QED
      BY <3>1
  <2>2. CASE ~tms'.spanned
    <3>1. (~tms'.spanned) = (~tms.spanned)
      BY <2>2
    <3> QED
      BY <3>1
  <2> QED
    BY <2>1, <2>2
<1>4. asked = T!Idle /\ UNCHANGED set
  BY DEF Ask, T!Idle, Idle
<1> QED
  BY <1>1, <1>2, <1>3, <1>4 DEF T!Ask

LEMMA StepMaps ==
  ASSUME IInv, [Next]_vars
  PROVE  [T!Step]_T!vars
<1>0. set \subseteq Dates /\ limits \in Limits /\ GoodCache(tms)
  BY DEF IInv
<1>1. UNCHANGED <<set, limits>> /\ (tms.spanned => tms'.spanned)
  BY StepGood
<1>2. \A x \in Dates : x \in Int
  BY SetIsInt, <1>0
<1>3. ASSUME NEW d \in Dates, Contain(d)
      PROVE  T!Contain
  <2>1. Contains(tms, d) \in BOOLEAN
    <3>1. (d \in tms.dates) \in BOOLEAN /\ (d \in set) \in BOOLEAN
      OBVIOUS
    <3>2. Contains(tms, d) = (d \in tms.dates) \/ Contains(tms, d) = (d \in set)
      BY Zenon DEF Contains
    <3> QED
      BY <3>1, <3>2
  <2>2. /\ T!Ask("Contain", BOOLEAN)
        /\ asked'.from = d /\ asked'.answer = Contains(tms, d)
    BY <1>1, <1>2, <1>3, <2>1, AskMaps DEF Contain
  <2>3. ~tms.spanned => (asked'.answer <=> asked'.from \in set)
    BY <1>0, <2>2, ContainsIs
  <2> QED
    BY <2>2, <2>3 DEF T!Contain
<1>4. ASSUME NEW d \in Dates, Successor(d)
      PROVE  T!Successor
  <2>1. T!IsAfter(d, SuccessorOf(tms, d))
    BY <1>0, SuccessorIs
  <2>2. SuccessorOf(tms, d) \in Int
    BY <1>0, <1>2, <2>1, Days DEF T!IsAfter, T!IsFirst, T!Later, T!End
  <2>3. /\ T!Ask("Successor", Int)
        /\ asked'.from = d /\ asked'.answer = SuccessorOf(tms, d)
    BY <1>1, <1>2, <1>4, <2>2, AskMaps DEF Successor
  <2> QED
    BY <2>1, <2>3 DEF T!Successor
<1>5. ASSUME NEW d \in Dates, Predecessor(d)
      PROVE  T!Predecessor
  <2>1. T!IsBefore(d, PredecessorOf(tms, d))
    BY <1>0, PredecessorIs
  <2>2. PredecessorOf(tms, d) \in Int
    BY <1>0, <1>2, <2>1, Days DEF T!IsBefore, T!IsLast, T!Earlier, T!Begin
  <2>3. /\ T!Ask("Predecessor", Int)
        /\ asked'.from = d /\ asked'.answer = PredecessorOf(tms, d)
    BY <1>1, <1>2, <1>5, <2>2, AskMaps DEF Predecessor
  <2> QED
    BY <2>1, <2>3 DEF T!Predecessor
<1>6. ASSUME NEW f \in Dates, NEW l \in Dates, GetHashBetween(f, l)
      PROVE  T!GetHashBetween
  <2>1. HashBetween(tms, f, l) = T!Between(f, l)
    BY <1>0, BetweenIs
  <2>2. HashBetween(tms, f, l) \in SUBSET T!Dates
    BY <1>0, <2>1 DEF T!Between, T!Dates, Dates
  <2>3. /\ T!Ask("GetHashBetween", SUBSET T!Dates)
        /\ asked'.from = f /\ asked'.to = l /\ asked'.answer = HashBetween(tms, f, l)
    BY <1>1, <1>2, <1>6, <2>2, AskMaps DEF GetHashBetween
  <2> QED
    BY <2>1, <2>3 DEF T!GetHashBetween
<1>7. ASSUME NEW f, NEW l, ForceCache(f, l)
      PROVE  T!Build \/ UNCHANGED T!vars
  <2>1. UNCHANGED <<set, asked>>
    BY <1>7 DEF ForceCache
  <2>2. CASE tms'.spanned
    <3>1. (~tms'.spanned) = FALSE
      BY <2>2
    <3> QED
      BY <2>1, <3>1 DEF T!Build
  <2>3. CASE ~tms'.spanned
    <3>1. (~tms'.spanned) = (~tms.spanned)
      BY <1>1, <2>3
    <3> QED
      BY <2>1, <3>1 DEF T!vars
  <2> QED
    BY <2>2, <2>3
<1>8. Answered => T!Answered
  BY DEF Answered, T!Answered, Idle, T!Idle
<1>9. UNCHANGED vars => UNCHANGED T!vars
  BY DEF vars, T!vars
<1> QED
  BY <1>3, <1>4, <1>5, <1>6, <1>7, <1>8, <1>9 DEF Next, T!Step

\* A time set that keeps its dates answers as one that looks at all of them every time:
\* the cache, whatever was asked before and in whatever order, changes no answer
\* (tmsgrav.cpp:57-124, tms.cpp:221-500).
THEOREM Implements == Spec => ImplementsTimeSet
<1>1. IInv /\ [Next]_vars => [T!Step]_T!vars
  BY StepMaps
<1>2. Spec => T!Init /\ [][T!Step]_T!vars
  BY InitMaps, AlwaysGood, <1>1, PTL DEF Spec
<1> QED
  BY <1>2 DEF ImplementsTimeSet, T!Spec
=============================================================================
