--------------------------- MODULE TimeSetCache ---------------------------
(***************************************************************************)
(* A time set that is the union, intersection or difference of two others   *)
(* and keeps the dates it has found (BTmsCached and the operators of        *)
(* tmsgrav.cpp over BTimeSet of tms.cpp).  The cache is a sorted array of   *)
(* hashes, here the set of dates it holds, and the range of dates it is     *)
(* said to cover.  It is built while questions are answered.                *)
(* The operands answer for their own dates, so what is found without the    *)
(* cache is what set says, as it is until a search is aborted.              *)
(***************************************************************************)
EXTENDS Integers, FiniteSets

CONSTANTS
  LastDay,               \* dates are 1 .. LastDay, between Begin and End
  DefaultFirst,          \* the range searched when none is given
  DefaultLast

Unknown == -1            \* sorts before every date
Begin == 0
End == LastDay + 1
Dates == 1 .. LastDay

ASSUME LastDayAssumption == LastDay \in Nat \ {0}
ASSUME DefaultRangeAssumption ==
  DefaultFirst \in Dates /\ DefaultLast \in Dates /\ DefaultFirst <= DefaultLast

VARIABLES
  set,                   \* the dates of the set: what Includes tells
  limits,                \* inf_ and sup_, and whether the class prepares its cache
  tms,                   \* cache_, beginCache_, endCache_, cacheCallsNumber_
  asked                  \* the question in course, with its answer
vars == <<set, limits, tms, asked>>

Smallest(s) == CHOOSE x \in s : \A y \in s : x <= y
Greatest(s) == CHOOSE x \in s : \A y \in s : y <= x
Lesser(a, b) == IF a <= b THEN a ELSE b
Larger(a, b) == IF a <= b THEN b ELSE a

Included(d, e) == {x \in set : d <= x /\ x <= e}

Idle == [op |-> "none"]
Inf == limits.inf
Sup == limits.sup

-----------------------------------------------------------------------------
(* What is found without the cache: the search in the operands                  *)
FindSuccessor(d) ==
  LET later == {x \in set : d < x}
  IN  IF later = {} THEN End ELSE Smallest(later)
FindPredecessor(d) ==
  LET earlier == {x \in set : x < d}
  IN  IF earlier = {} THEN Begin ELSE Greatest(earlier)

\* Fault: the limit of the set taken even if it is an end of time
CalcFirstAtLimit(f) == IF f < Inf THEN Inf ELSE f

(* GetHashBetween: the range asked for is brought to the limits of the set, or  *)
(* to the default one, and to the dates of the set in it                         *)
CalcFirst(f) ==
  LET g == IF f < Inf THEN Inf ELSE f IN IF g \in Dates THEN g ELSE DefaultFirst
CalcLast(l) ==
  LET g == IF l > Sup THEN Sup ELSE l IN IF g \in Dates THEN g ELSE DefaultLast
FirstFound(f) == IF f \in set THEN f ELSE FindSuccessor(f)
LastFound(l) == IF l \in set THEN l ELSE FindPredecessor(l)
NoneFound(f, l) == f > l \/ FirstFound(f) = End \/ LastFound(l) = Begin \/ FirstFound(f) > LastFound(l)

\* Fault: only the dates asked for are added to the cache
ExtendedByRange(c, first, last) == c.dates \cup Included(first, last)

\* The cache with the dates on its left and right up to the ones asked for
Extended(c, first, last) ==
  IF c.dates = {} THEN Included(first, last)
  ELSE LET c1 == Smallest(c.dates)
           cS == Greatest(c.dates)
       IN  (IF first < c1 THEN Included(first, FindPredecessor(c1)) ELSE {})
           \cup c.dates
           \cup (IF cS < last THEN Included(FindSuccessor(cS), last) ELSE {})

(* The range the cache is said to cover is widened to hold the one asked for,   *)
(* and there are dates in it that no build has looked at                        *)
Spans(c, begin, end, f, l) ==
  /\ c.dates = {}
  /\ \E d \in begin .. end : ~(c.begin <= d /\ d <= c.end) /\ ~(f <= d /\ d <= l)

Ranged(c, dates, begin, end, f, l) ==
  [dates |-> dates, begin |-> begin, end |-> end, calls |-> c.calls,
   spanned |-> c.spanned \/ Spans(c, begin, end, f, l)]

\* Fault: the range is put before it is known whether the dates are kept
PutCacheRangeFirst(c, dates, f, l, forcing, slow) ==
  LET begin == IF c.begin = Unknown \/ c.begin > f THEN f ELSE c.begin
      end == IF c.end = Unknown \/ c.end < l THEN l ELSE c.end
  IN  IF forcing \/ c.calls > 1 \/ slow
      THEN Ranged(c, dates, begin, end, f, l)
      ELSE Ranged(c, c.dates, begin, end, f, l)

(* PutCache: kept if the cache is being forced, is asked for again, the set has *)
(* a name (NRefs) or the search took a millisecond: slow stands for the last two *)
PutCache(c, dates, f, l, forcing, slow) ==
  LET begin == IF c.begin = Unknown \/ c.begin > f THEN f ELSE c.begin
      end == IF c.end = Unknown \/ c.end < l THEN l ELSE c.end
  IN  IF forcing \/ c.calls > 1 \/ slow
      THEN Ranged(c, dates, begin, end, f, l)
      ELSE c

\* A forced cache that stays empty still notes the range it was looked for in
PutEmptyRange(c, f, l) ==
  Ranged(c, c.dates,
         IF c.begin = Unknown \/ f < c.begin THEN f ELSE c.begin,
         IF c.end = Unknown \/ l > c.end THEN l ELSE c.end, f, l)

AddCall(c) == [c EXCEPT !.calls = IF c.calls > 1 THEN 2 ELSE c.calls + 1]

Built(c0, f0, l0, forcing, slow) ==
  LET c == AddCall(c0)
      f == CalcFirst(f0)
      l == CalcLast(l0)
      first == FirstFound(f)
      last == LastFound(l)
      covered == c.dates # {} /\ Smallest(c.dates) <= first /\ last <= Greatest(c.dates)
      built == IF NoneFound(f, l) \/ covered THEN c
               ELSE PutCache(c, Extended(c, first, last), f, l, forcing, slow)
  IN  IF forcing /\ built.dates = {} THEN PutEmptyRange(built, f, l) ELSE built

\* The dates GetHashBetween returns
HashBetween(c, f0, l0) ==
  LET f == CalcFirst(f0)
      l == CalcLast(l0)
  IN  IF NoneFound(f, l) THEN {}
      ELSE {x \in Extended(c, FirstFound(f), LastFound(l)) :
              FirstFound(f) <= x /\ x <= LastFound(l)}

-----------------------------------------------------------------------------
\* Contain: the cache tells, within the range it covers
Contains(c, d) ==
  IF c.begin # Unknown /\ c.end # Unknown /\ c.begin <= d /\ d <= c.end
  THEN d \in c.dates ELSE d \in set

\* PREPARE_CACHE
Prepared(c, d) ==
  IF limits.prepares /\ c.dates = {} /\ c.begin = Unknown
     /\ DefaultFirst <= d /\ d <= DefaultLast
  THEN Built(c, DefaultFirst, DefaultLast, TRUE, FALSE) ELSE c

\* Fault: the last date of the cache is followed by another of it
HashSuccAtLast(c, d) ==
  IF c.dates # {} /\ d \in Dates /\ Smallest(c.dates) <= d /\ d <= Greatest(c.dates)
  THEN LET later == {x \in c.dates : d < x} IN IF later = {} THEN End ELSE Smallest(later)
  ELSE FindSuccessor(d)

\* CACHED_SUCCESSOR, and the search in the operands if the cache does not tell
HashSucc(c, d) ==
  IF c.dates # {} /\ d \in Dates /\ Smallest(c.dates) <= d /\ d < Greatest(c.dates)
  THEN Smallest({x \in c.dates : d < x}) ELSE FindSuccessor(d)
HashPred(c, d) ==
  IF c.dates # {} /\ d \in Dates /\ Smallest(c.dates) < d /\ d <= Greatest(c.dates)
  THEN Greatest({x \in c.dates : x < d}) ELSE FindPredecessor(d)

\* SafeSuccessor and SafePredecessor: the cache they leave, and their answer
ToInf(d) == IF d < Inf THEN Inf - 1 ELSE d
ToSup(d) == IF d > Sup THEN Sup + 1 ELSE d
NoSuccessor(d) == d \in {Unknown, End} \/ (Inf = Begin /\ d = Begin)
NoPredecessor(d) == d \in {Unknown, Begin} \/ (Inf = End /\ d = End)

AfterSuccessor(c, d) ==
  IF NoSuccessor(d) \/ ToInf(d) >= Sup THEN c ELSE Prepared(c, ToInf(d))
SuccessorOf(c, d) ==
  IF NoSuccessor(d) THEN d
  ELSE IF ToInf(d) >= Sup THEN End
  ELSE HashSucc(Prepared(c, ToInf(d)), ToInf(d))
AfterPredecessor(c, d) ==
  IF NoPredecessor(d) \/ ToSup(d) <= Inf THEN c ELSE Prepared(c, ToSup(d))
PredecessorOf(c, d) ==
  IF NoPredecessor(d) THEN d
  ELSE IF ToSup(d) <= Inf THEN Begin
  ELSE HashPred(Prepared(c, ToSup(d)), ToSup(d))

-----------------------------------------------------------------------------
NoCache == [dates |-> {}, begin |-> Unknown, end |-> Unknown, calls |-> 0, spanned |-> FALSE]

\* The limits an operator takes from its operands hold its dates, if it has any
Limits ==
  {k \in [inf : Dates \cup {Begin, End}, sup : Dates \cup {Begin, End}, prepares : BOOLEAN] :
     \A x \in set : k.inf <= x /\ x <= k.sup}

Init ==
  /\ set \in SUBSET Dates
  /\ limits \in Limits
  /\ tms = NoCache
  /\ asked = Idle

Ask(op, d, e, answer) ==
  /\ asked = Idle
  /\ asked' = [op |-> op, from |-> d, to |-> e, answer |-> answer]
  /\ UNCHANGED <<set, limits>>

Contain(d) == Ask("Contain", d, d, Contains(tms, d)) /\ UNCHANGED tms
Successor(d) == Ask("Successor", d, d, SuccessorOf(tms, d)) /\ tms' = AfterSuccessor(tms, d)
Predecessor(d) == Ask("Predecessor", d, d, PredecessorOf(tms, d)) /\ tms' = AfterPredecessor(tms, d)
GetHashBetween(f, l) ==
  /\ Ask("GetHashBetween", f, l, HashBetween(tms, f, l))
  /\ \E slow \in BOOLEAN : tms' = Built(tms, f, l, FALSE, slow)

(* A successor of another set is looked for among the dates of this one: it     *)
(* asks for its cache from one to another, or from the ends of time              *)
ForceCache(f, l) ==
  /\ asked = Idle
  /\ f < l
  /\ tms' = Built(tms, f, l, TRUE, FALSE)
  /\ UNCHANGED <<set, limits, asked>>

Answered == asked # Idle /\ asked' = Idle /\ UNCHANGED <<set, limits, tms>>

Next ==
  \/ \E d \in Dates : Contain(d) \/ Successor(d) \/ Predecessor(d)
  \/ \E f, l \in Dates : GetHashBetween(f, l)
  \/ \E f \in set \cup {Begin}, l \in set \cup {End} : ForceCache(f, l)
  \/ Answered

Spec == Init /\ [][Next]_vars

-----------------------------------------------------------------------------
TypeOK ==
  /\ set \in SUBSET Dates
  /\ limits \in Limits
  /\ tms \in [dates : SUBSET set, begin : Dates \cup {Unknown}, end : Dates \cup {Unknown},
              calls : 0 .. 2, spanned : BOOLEAN]

(* The cache is a run of consecutive dates of the set: nothing between its first  *)
(* and its last is missing, however it was extended (tms.cpp:279-319), so the     *)
(* next hash is the next date (tms.cpp:432-520).                                  *)
CacheHasNoHoles ==
  \A c1, cS \in tms.dates, x \in set : (c1 <= x /\ x <= cS) => x \in tms.dates

(* "begin > a1", "end < b1" (tms.cpp:177-180): a date of the set within the range *)
(* the cache is said to cover is in the cache, unless that range was widened over *)
(* dates nobody looked at, away from one where nothing had been found.            *)
CacheCoversItsRange ==
  ~tms.spanned =>
    \A x \in set : (tms.begin # Unknown /\ tms.begin <= x /\ x <= tms.end) => x \in tms.dates

(* "assert(begin > a1)", a1 being the predecessor of the first date of the cache  *)
(* (tms.cpp:178): the range of the cache holds no date before it.             *)
RangeBeginsAfterPredecessor ==
  tms.dates # {} => tms.begin > FindPredecessor(Smallest(tms.dates))

(* The time set as it is promised: the cache changes no answer.                  *)
T == INSTANCE TimeSet WITH exact <- ~tms.spanned
ImplementsTimeSet == T!Spec
=============================================================================
