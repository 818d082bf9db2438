------------------------------ MODULE TimeSet ------------------------------
(***************************************************************************)
(* What a time set promises (btol/timeset_type/tol_btmset.h): it is a set   *)
(* of dates and every question is answered by looking at that set alone,    *)
(* whatever was asked before.  Questions come one at a time.  Whether a     *)
(* date is in the set, and what is counted from it, is answered for sure    *)
(* only while the set is exact.                                             *)
(***************************************************************************)
EXTENDS Integers, FiniteSets

CONSTANTS
  LastDay                \* dates are 1 .. LastDay, between Begin and End

VARIABLES
  set,                   \* the dates of the set
  exact,                 \* Contain can be relied on
  asked                  \* the question in course, with its answer
vars == <<set, exact, asked>>

Unknown == -1
Begin == 0
End == LastDay + 1
Dates == 1 .. LastDay

IsFirst(s, x) == x \in s /\ \A y \in s : x <= y
IsLast(s, x) == x \in s /\ \A y \in s : y <= x

\* The dates of the set after d and before d, and from d to e
Later(d) == {x \in set : d < x}
Earlier(d) == {x \in set : x < d}
Between(d, e) == {x \in set : d <= x /\ x <= e}

\* x is the date that follows d (goes before d), or the end of times if none does
IsAfter(d, x) == IF Later(d) = {} THEN x = End ELSE IsFirst(Later(d), x)
IsBefore(d, x) == IF Earlier(d) = {} THEN x = Begin ELSE IsLast(Earlier(d), x)

\* x is the n-th date after d
IsNth(d, n, x) ==
  IF Cardinality(Later(d)) < n THEN x = End
  ELSE x \in Later(d) /\ Cardinality({y \in Later(d) : y <= x}) = n
IsNthBack(d, n, x) ==
  IF Cardinality(Earlier(d)) < n THEN x = Begin
  ELSE x \in Earlier(d) /\ Cardinality({y \in Earlier(d) : x <= y}) = n

(* The dates counted from d on, "while dte < dte2" (tms.cpp:599-602).            *)
Count(d, e) == Cardinality({x \in set : d <= x /\ x < e})

-----------------------------------------------------------------------------
Idle == [op |-> "none"]
Question(op, answers) == [op : {op}, from : Dates, to : Int, answer : answers]

Init ==
  /\ set \in SUBSET Dates
  /\ exact = TRUE
  /\ asked = Idle

\* A question may cost the set its exactness, and never gives it back
Ask(op, answers) ==
  /\ asked = Idle
  /\ asked' \in Question(op, answers)
  /\ exact' \in {exact, FALSE}
  /\ UNCHANGED set

Contain ==
  /\ Ask("Contain", BOOLEAN)
  /\ exact => (asked'.answer <=> asked'.from \in set)
Successor ==
  /\ Ask("Successor", Int)
  /\ IsAfter(asked'.from, asked'.answer)
Predecessor ==
  /\ Ask("Predecessor", Int)
  /\ IsBefore(asked'.from, asked'.answer)
GetHashBetween ==
  /\ Ask("GetHashBetween", SUBSET Dates)
  /\ asked'.answer = Between(asked'.from, asked'.to)
Next ==
  /\ Ask("Next", Int)
  /\ asked'.to # 0
  /\ IF asked'.to > 0 THEN IsNth(asked'.from, asked'.to, asked'.answer)
     ELSE IsNthBack(asked'.from, -asked'.to, asked'.answer)
\* Nothing is promised of a count from a date out of the set to one in it
Difference ==
  /\ Ask("Difference", Int)
  /\ LET d == asked'.from
         e == asked'.to
     IN  /\ (exact /\ d <= e /\ (d \in set \/ e \notin set)) => asked'.answer = Count(d, e)
         /\ (exact /\ d > e /\ (e \in set \/ d \notin set)) => asked'.answer = -Count(e, d)
\* Nothing is promised when there is no date to count
PeriodsBetween ==
  /\ Ask("PeriodsBetween", Int)
  /\ (exact /\ Between(asked'.from, asked'.to) # {}) =>
       asked'.answer = Cardinality(Between(asked'.from, asked'.to))
                       - (IF asked'.to \in set THEN 1 ELSE 0)

Answered == asked # Idle /\ asked' = Idle /\ UNCHANGED <<set, exact>>

\* Its cache is built on behalf of another set
Build == exact' = FALSE /\ UNCHANGED <<set, asked>>

Step ==
  \/ Contain \/ Successor \/ Predecessor \/ GetHashBetween
  \/ Next
  \/ Difference \/ PeriodsBetween
  \/ Answered \/ Build

Spec == Init /\ [][Step]_vars
=============================================================================
