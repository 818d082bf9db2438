-------------------------- MODULE TimeSetCounting --------------------------
(***************************************************************************)
(* What is counted from a time set (tms.cpp): the n-th date after another   *)
(* or before it, and the dates or the periods between two.  Each is made of *)
(* several questions to the set, which may build its cache in between, and  *)
(* of positions in the cache when it holds the dates.                       *)
(***************************************************************************)
EXTENDS TimeSetCache

CONSTANTS
  Jumps                  \* how many dates Next is asked to go

\* The element of s with n elements up to it, and the number of elements before x
Nth(s, n) == CHOOSE x \in s : Cardinality({y \in s : y <= x}) = n
Position(s, x) == Cardinality({y \in s : y < x})

-----------------------------------------------------------------------------
\* n times the next date, while there is one
Walk(c, d, n) ==
  LET w[k \in 0 .. n] ==
        IF k = 0 THEN [tms |-> c, date |-> d]
        ELSE IF w[k - 1].date \in {Unknown, End} THEN w[k - 1]
        ELSE [tms |-> AfterSuccessor(w[k - 1].tms, w[k - 1].date),
              date |-> SuccessorOf(w[k - 1].tms, w[k - 1].date)]
  IN  w[n]
WalkBack(c, d, n) ==
  LET w[k \in 0 .. n] ==
        IF k = 0 THEN [tms |-> c, date |-> d]
        ELSE IF w[k - 1].date \in {Unknown, Begin} THEN w[k - 1]
        ELSE [tms |-> AfterPredecessor(w[k - 1].tms, w[k - 1].date),
              date |-> PredecessorOf(w[k - 1].tms, w[k - 1].date)]
  IN  w[n]

\* Next and Prev from a date: as far as the cache goes in one jump, then a walk
NthAfter(c, d, n) ==
  LET following == {x \in c.dates : d < x}
      k == Cardinality(following)
  IN  IF c.dates = {} \/ d < Smallest(c.dates) \/ d >= Greatest(c.dates) THEN Walk(c, d, n)
      ELSE IF n <= k THEN [tms |-> c, date |-> Nth(following, n)]
      ELSE Walk(c, Greatest(c.dates), n - k)
NthBefore(c, d, n) ==
  LET k == Position(c.dates, d)
  IN  IF c.dates = {} \/ d <= Smallest(c.dates) \/ d > Greatest(c.dates) THEN WalkBack(c, d, n)
      ELSE IF n <= k THEN [tms |-> c, date |-> Nth(c.dates, k - n + 1)]
      ELSE WalkBack(c, Smallest(c.dates), n - k)

FirstNoLess(c, d) ==
  IF d \in {Unknown, End} \/ Contains(c, d) THEN [tms |-> c, date |-> d]
  ELSE [tms |-> AfterSuccessor(c, d), date |-> SuccessorOf(c, d)]
FirstNoGreat(c, d) ==
  IF d \in {Unknown, Begin} \/ Contains(c, d) THEN [tms |-> c, date |-> d]
  ELSE [tms |-> AfterPredecessor(c, d), date |-> PredecessorOf(c, d)]

InCache(c, d, e) == c.dates # {} /\ Smallest(c.dates) <= d /\ e <= Greatest(c.dates)

-----------------------------------------------------------------------------
(* Difference: none outside the limits or in a range noted as empty; else the    *)
(* positions in the cache, if it holds both ends, or the dates between them      *)
SurelyNone(c, d, e) ==
  \/ d > Sup \/ e < Inf \/ (Inf = End /\ Sup = Begin)
  \/ c.dates = {} /\ c.begin # Unknown /\ c.begin <= d /\ e <= c.end

\* Between two dates of the set, found as first and last
Distance(c, first, last, moved, slow) ==
  IF first >= last THEN [tms |-> c, dif |-> IF first = last THEN moved ELSE 0]
  ELSE IF InCache(c, first, last)
  THEN [tms |-> c,
        dif |-> IF {first, last} \subseteq c.dates
                THEN Position(c.dates, last) - Position(c.dates, first) + moved
                ELSE 0]
  ELSE [tms |-> Built(c, first, last, FALSE, slow),
        dif |-> Cardinality(HashBetween(c, first, last)) - 1 + moved]

DistanceFrom(first, last, d, e, slow) ==
  Distance(last.tms, first, last.date, IF first # d \/ last.date # e THEN 1 ELSE 0, slow)

DateDifference(c, d, e, slow) ==
  LET From(first) == DistanceFrom(first.date, FirstNoGreat(first.tms, e), d, e, slow)
  IN  IF d = e \/ SurelyNone(c, d, e) THEN [tms |-> c, dif |-> 0] ELSE From(FirstNoLess(c, d))

\* PeriodsBetween: a search that fails gives the position -1
FindSorted(s, x) == IF x \in s THEN Position(s, x) ELSE -1
PeriodsFrom(c, first, last, own, slow) ==
  IF InCache(c, first, last)
  THEN [tms |-> c, periods |-> FindSorted(c.dates, last) - FindSorted(c.dates, first) + 1 - own]
  ELSE [tms |-> Built(c, first, last, FALSE, slow),
        periods |-> Cardinality(HashBetween(c, first, last)) - own]

Periods(c, d, e, slow) ==
  LET To(first, last) ==
        PeriodsFrom(last.tms, first, last.date, IF last.date = e THEN 1 ELSE 0, slow)
      From(first) == To(first.date, FirstNoGreat(first.tms, e))
  IN  IF d > e THEN [tms |-> c, periods |-> -1] ELSE From(FirstNoLess(c, d))

-----------------------------------------------------------------------------
NextDate(d, n) ==
  LET after == IF n > 0 THEN NthAfter(tms, d, n) ELSE NthBefore(tms, d, -n)
  IN  Ask("Next", d, n, after.date) /\ tms' = after.tms

Difference(d, e) ==
  \E slow \in BOOLEAN :
    LET after == IF d > e THEN DateDifference(tms, e, d, slow)
                 ELSE DateDifference(tms, d, e, slow)
    IN  Ask("Difference", d, e, IF d > e THEN -after.dif ELSE after.dif) /\ tms' = after.tms

PeriodsBetween(d, e) ==
  \E slow \in BOOLEAN :
    LET after == Periods(tms, d, e, slow)
    IN  Ask("PeriodsBetween", d, e, after.periods) /\ tms' = after.tms

CountingNext ==
  \/ Next
  \/ \E d \in Dates, n \in Jumps : NextDate(d, n)
  \/ \E d, e \in Dates : Difference(d, e)
  \/ \E d, e \in Dates : PeriodsBetween(d, e)

CountingSpec == Init /\ [][CountingNext]_vars
=============================================================================
