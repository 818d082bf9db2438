---------------------------- MODULE BFSMem_proofs ----------------------------
(***************************************************************************)
(* Proofs about BFSMem, for every page size, growing factor, threshold and  *)
(* number of pages that ParametersAssumption allows, and about a note of an *)
(* object over the pool (MemAssignInfo).                                    *)
(***************************************************************************)
EXTENDS MemAssignInfo, FiniteSetTheorems, WellFoundedInduction, TLAPS

(* Every slot of every page. *)
AllSlots == UNION {{<<p, i>> : i \in 0 .. pageSize[p] - 1} : p \in Pages}

(* A page's free and assigned slots are all of its slots. *)
PageCounts ==
  \A p \in Pages : available[p] + Cardinality(isAssigned[p]) = pageSize[p]

(* The handler's counters, as numbers of slots. *)
Accounting ==
  /\ IsFiniteSet(AllSlots)
  /\ assigned = Cardinality(AssignedSlots)
  /\ maxAllowed = Cardinality(AllSlots)
  /\ threshold <= maxAllowed

(* The inductive invariant: StackMatchesBitmap needs PageCounts, without which *)
(* a deletion might push past the end of a stack, and CountersMatchPages needs *)
(* the exact count of the slots.                                              *)
IInv ==
  /\ TypeOK
  /\ StackMatchesBitmap
  /\ PageCounts
  /\ Accounting
  /\ ObjectsAreAssigned
  /\ PageTableCovers

-----------------------------------------------------------------------------

(* The constants, without the bounds most steps do not need. *)
LEMMA Constants ==
  /\ MaxPages \in Nat /\ MaxPages >= 1
  /\ PageSizeMax \in Nat /\ PageSizeMax >= 1
  /\ InitPageSize \in Nat /\ InitPageSize >= 1 /\ InitPageSize <= PageSizeMax
  /\ InitPageNum \in Nat /\ InitPageNum >= 1
  /\ GrowingFactor \in Nat /\ GrowingFactor >= 1
BY ParametersAssumption

(* Updating a function at one point keeps its type. *)
LEMMA ExceptType ==
  ASSUME NEW S, NEW T, NEW f \in [S -> T], NEW x, NEW v \in T
  PROVE  [f EXCEPT ![x] = v] \in [S -> T]
OBVIOUS

(* The share of a page that counts for the threshold is no more than the page. *)
LEMMA ThresholdOfBound ==
  ASSUME NEW size \in Nat
  PROVE  ThresholdOf(size) \in Nat /\ ThresholdOf(size) <= size
<1>1. PercentThreshold \in Nat /\ PercentThreshold <= 100
  BY ParametersAssumption
<1>2. size * PercentThreshold \in Nat /\ size * PercentThreshold <= size * 100
  BY <1>1
<1>3. \A m \in Nat : m <= size * 100 => m \div 100 \in Nat /\ m \div 100 <= size
  OBVIOUS
<1> QED BY <1>2, <1>3 DEF ThresholdOf

(* Membership in the two sets of slots. *)
LEMMA InAssignedSlots ==
  \A a : a \in AssignedSlots <=> \E p \in Pages : \E i \in isAssigned[p] : a = <<p, i>>
BY DEF AssignedSlots

LEMMA InAllSlots ==
  \A a : a \in AllSlots <=> \E p \in Pages : \E i \in 0 .. pageSize[p] - 1 : a = <<p, i>>
BY DEF AllSlots

(* The page numbers in use are page numbers. *)
LEMMA PagesArePageNumbers ==
  ASSUME TypeOK
  PROVE  Pages \subseteq PageNumbers
BY Constants DEF TypeOK, Pages, PageNumbers

(* Every assigned slot is a slot, so there are finitely many. *)
LEMMA AssignedSlotsFinite ==
  ASSUME StackMatchesBitmap, IsFiniteSet(AllSlots)
  PROVE  /\ AssignedSlots \subseteq AllSlots
         /\ IsFiniteSet(AssignedSlots)
         /\ Cardinality(AssignedSlots) \in Nat
         /\ Cardinality(AssignedSlots) <= Cardinality(AllSlots)
<1>1. AssignedSlots \subseteq AllSlots
  <2>1. \A p \in Pages : isAssigned[p] \subseteq 0 .. pageSize[p] - 1
    BY DEF StackMatchesBitmap
  <2> QED BY <2>1, InAssignedSlots, InAllSlots
<1>2. AssignedSlots \in SUBSET AllSlots
  BY <1>1
<1>3. /\ IsFiniteSet(AssignedSlots)
      /\ Cardinality(AssignedSlots) <= Cardinality(AllSlots)
  BY <1>2, FS_Subset, Zenon
<1> QED BY <1>1, <1>3, FS_CardinalityType

(* The bitmap of a page is finite. *)
LEMMA BitmapFinite ==
  ASSUME TypeOK, StackMatchesBitmap, NEW p \in Pages
  PROVE  IsFiniteSet(isAssigned[p]) /\ Cardinality(isAssigned[p]) \in Nat
<1>1. pageSize[p] \in Nat
  BY PagesArePageNumbers DEF TypeOK
<1>2. IsFiniteSet(0 .. pageSize[p] - 1)
  BY <1>1, FS_Interval
<1>3. isAssigned[p] \in SUBSET (0 .. pageSize[p] - 1)
  BY DEF StackMatchesBitmap
<1>4. IsFiniteSet(isAssigned[p])
  BY <1>2, <1>3, FS_Subset, Zenon
<1> QED BY <1>4, FS_CardinalityType

(* A page of size slots adds that many slots to those of the others. *)
LEMMA SlotsOfOnePage ==
  ASSUME NEW p, NEW size \in Nat
  PROVE  LET S == {<<p, i>> : i \in 0 .. size - 1}
         IN  IsFiniteSet(S) /\ Cardinality(S) = size
<1> DEFINE S == {<<p, i>> : i \in 0 .. size - 1}
<1> DEFINE f == [i \in 1 .. size |-> <<p, i - 1>>]
<1>1. f \in [1 .. size -> S]
  OBVIOUS
<1>2. \A x, y \in 1 .. size : f[x] = f[y] => x = y
  OBVIOUS
<1>3. \A a \in S : \E x \in 1 .. size : f[x] = a
  <2> SUFFICES ASSUME NEW i \in 0 .. size - 1
               PROVE  \E x \in 1 .. size : f[x] = <<p, i>>
    OBVIOUS
  <2>1. i + 1 \in 1 .. size /\ f[i + 1] = <<p, i>>
    OBVIOUS
  <2> QED BY <2>1
<1> HIDE DEF f, S
<1>4. f \in Bijection(1 .. size, S)
  BY <1>1, <1>2, <1>3, Zenon DEF Bijection, Injection, Surjection, IsInjective
<1>5. ExistsBijection(1 .. size, S)
  BY <1>4 DEF ExistsBijection
<1>6. IsFiniteSet(S) /\ Cardinality(S) = size
  BY <1>5, FS_NatBijection, FS_CountingElements
<1> QED BY <1>6 DEF S

-----------------------------------------------------------------------------

THEOREM InitInv == Init => IInv
<1> SUFFICES ASSUME Init PROVE IInv
  OBVIOUS
<1>0. /\ lastPage = 1
      /\ Pages = {0}
      /\ 0 \in PageNumbers
      /\ isAssigned[0] = {}
      /\ pageSize[0] = InitPageSize
      /\ available[0] = InitPageSize
      /\ held = {}
  BY Constants DEF Init, Pages, PageNumbers
<1>1. TypeOK
  <2>1. threshold \in Nat
    BY ThresholdOfBound, Constants DEF Init
  <2>2. pageSize \in [PageNumbers -> Nat] /\ available \in [PageNumbers -> Nat]
    BY Constants DEF Init
  <2>3. avail \in [PageNumbers -> [SlotNumbers -> SlotNumbers]]
    BY Constants DEF Init, SlotNumbers
  <2>4. lastAllocPg \in Nat /\ lastAllocPg <= 65535
    BY ParametersAssumption DEF Init
  <2> QED BY <1>0, <2>1, <2>2, <2>3, <2>4, Constants DEF Init, TypeOK
<1>2. StackMatchesBitmap
  <2>1. \A i \in 0 .. InitPageSize - 1 : i \in SlotNumbers /\ avail[0][i] = i
    BY <1>0, Constants DEF Init, SlotNumbers
  <2>2. FreeStack(0) = 0 .. InitPageSize - 1
    BY <1>0, <2>1 DEF FreeStack
  <2> QED BY <1>0, <2>1, <2>2, Constants DEF StackMatchesBitmap
<1>3. AssignedSlots = {}
  BY <1>0 DEF AssignedSlots
<1>4. PageCounts
  BY <1>0, FS_EmptySet, Constants DEF PageCounts
<1>5. Accounting
  <2>1. AllSlots = {<<0, i>> : i \in 0 .. InitPageSize - 1}
    BY <1>0 DEF AllSlots
  <2>2. IsFiniteSet(AllSlots) /\ Cardinality(AllSlots) = InitPageSize
    BY <2>1, SlotsOfOnePage, Constants
  <2>3. Cardinality(AssignedSlots) = 0
    BY <1>3, FS_EmptySet
  <2>4. threshold <= InitPageSize
    BY ThresholdOfBound, Constants DEF Init
  <2> QED BY <2>2, <2>3, <2>4 DEF Accounting, Init
<1>6. ObjectsAreAssigned
  BY <1>0, <1>3 DEF ObjectsAreAssigned
<1>7. PageTableCovers
  BY ParametersAssumption DEF Init, PageTableCovers
<1> QED BY <1>1, <1>2, <1>4, <1>5, <1>6, <1>7 DEF IInv

-----------------------------------------------------------------------------

(* What a pop of page p's stack starts from: a slot of p that no object has. *)
LEMMA TopSlotIsFree ==
  ASSUME IInv, NEW p \in Pages, available[p] > 0
  PROVE  /\ available[p] - 1 \in SlotNumbers
         /\ TopSlot(p) \in 0 .. pageSize[p] - 1
         /\ TopSlot(p) \in SlotNumbers
         /\ TopSlot(p) \notin isAssigned[p]
         /\ <<p, TopSlot(p)>> \notin AssignedSlots
         /\ <<p, TopSlot(p)>> \notin held
<1>1. /\ available[p] \in Nat /\ pageSize[p] \in Nat /\ pageSize[p] <= PageSizeMax
      /\ available[p] <= pageSize[p]
  BY PagesArePageNumbers DEF IInv, TypeOK, StackMatchesBitmap
<1>2. available[p] - 1 \in SlotNumbers /\ available[p] - 1 \in 0 .. available[p] - 1
  BY <1>1, Constants DEF SlotNumbers
<1>3. TopSlot(p) \in FreeStack(p)
  BY <1>2 DEF TopSlot, FreeStack
<1>4. TopSlot(p) \in (0 .. pageSize[p] - 1) \ isAssigned[p]
  BY <1>3 DEF IInv, StackMatchesBitmap
<1>5. <<p, TopSlot(p)>> \notin AssignedSlots
  BY <1>4, InAssignedSlots
<1>6. TopSlot(p) \in SlotNumbers
  BY <1>4, <1>1, Constants DEF SlotNumbers
<1> QED BY <1>2, <1>4, <1>5, <1>6 DEF IInv, ObjectsAreAssigned

(* Assigning a free slot of an existing page preserves the invariant: the three *)
(* ways New serves a request without adding a page.                            *)
LEMMA AssignStep ==
  ASSUME IInv, NEW p \in Pages, available[p] > 0, AssignFrom(p), UNCHANGED table
  PROVE  IInv'
<1> DEFINE top  == available[p] - 1
           s    == TopSlot(p)
           slot == <<p, s>>
<1> HIDE DEF top, s, slot
<1>0. /\ top \in SlotNumbers /\ s \in 0 .. pageSize[p] - 1 /\ s \in SlotNumbers
      /\ s \notin isAssigned[p] /\ slot \notin AssignedSlots /\ slot \notin held
  BY TopSlotIsFree DEF top, s, slot
<1>1. /\ lastPage' = lastPage /\ lastAllocPg' = lastAllocPg /\ pageSize' = pageSize
      /\ threshold' = threshold /\ maxAllowed' = maxAllowed
      /\ Pages' = Pages
  BY DEF table, Pages
<1>2. /\ available' = [available EXCEPT ![p] = top]
      /\ avail' = [avail EXCEPT ![p][top] = 0]
      /\ isAssigned' = [isAssigned EXCEPT ![p] = @ \union {s}]
      /\ pgNm' = p
      /\ assigned' = assigned + 1
      /\ held' = held \union {slot}
      /\ stamp' = [a \in held \union {slot} |-> IF a = slot THEN PageNum(p) ELSE stamp[a]]
      /\ lastDelPgNm' = lastDelPgNm /\ ended' = ended
  BY DEF AssignFrom, PutBitTrue, top, s, slot
<1>3. /\ p \in PageNumbers /\ p \in Nat /\ available[p] \in Nat /\ top = available[p] - 1
      /\ s = avail[p][top] /\ slot = <<p, s>>
  BY PagesArePageNumbers DEF IInv, TypeOK, PageNumbers, top, s, slot, TopSlot
<1>4. PageNum(p) = p
  <2>1. p <= 32767
    BY <1>3, ParametersAssumption DEF PageNumbers
  <2> QED BY <2>1, <1>3 DEF PageNum, BYTE2
<1>5. TypeOK'
  <2>0. /\ available \in [PageNumbers -> Nat]
        /\ avail \in [PageNumbers -> [SlotNumbers -> SlotNumbers]]
        /\ isAssigned \in [PageNumbers -> SUBSET SlotNumbers]
    BY DEF IInv, TypeOK
  <2>1. available' \in [PageNumbers -> Nat]
    <3>1. top \in Nat
      BY <1>0 DEF SlotNumbers
    <3> QED BY <3>1, <2>0, <1>2, ExceptType
  <2>2. avail' \in [PageNumbers -> [SlotNumbers -> SlotNumbers]]
    <3>1. 0 \in SlotNumbers
      BY Constants DEF SlotNumbers
    <3>2. avail[p] \in [SlotNumbers -> SlotNumbers]
      BY <2>0, <1>3
    <3>3. [avail[p] EXCEPT ![top] = 0] \in [SlotNumbers -> SlotNumbers]
      BY <3>1, <3>2, ExceptType
    <3>4. avail' = [avail EXCEPT ![p] = [avail[p] EXCEPT ![top] = 0]]
      BY <1>2
    <3> QED BY <3>3, <3>4, <2>0, ExceptType
  <2>3. isAssigned' \in [PageNumbers -> SUBSET SlotNumbers]
    <3>1. isAssigned[p] \union {s} \in SUBSET SlotNumbers
      BY <2>0, <1>0, <1>3
    <3>2. isAssigned' = [isAssigned EXCEPT ![p] = isAssigned[p] \union {s}]
      BY <1>2
    <3> QED BY <3>1, <3>2, <2>0, ExceptType
  <2>4. stamp' \in [held' -> Nat]
    BY <1>2, <1>3, <1>4 DEF IInv, TypeOK
  <2> QED BY <1>1, <1>2, <2>1, <2>2, <2>3, <2>4 DEF IInv, TypeOK
<1>6. \A q \in Pages : q # p => /\ available'[q] = available[q]
                              /\ avail'[q] = avail[q]
                              /\ isAssigned'[q] = isAssigned[q]
  BY <1>2, PagesArePageNumbers DEF IInv, TypeOK
<1>7. /\ available'[p] = top
      /\ isAssigned'[p] = isAssigned[p] \union {s}
      /\ \A i \in 0 .. top - 1 : avail'[p][i] = avail[p][i]
  BY <1>0, <1>2, <1>3 DEF IInv, TypeOK, SlotNumbers
<1>8. StackMatchesBitmap'
  <2>1. \A i, j \in 0 .. top : avail[p][i] = avail[p][j] => i = j
    BY <1>3 DEF IInv, StackMatchesBitmap
  <2>2. {avail[p][i] : i \in 0 .. top} = (0 .. pageSize[p] - 1) \ isAssigned[p]
    BY <1>3 DEF IInv, StackMatchesBitmap, FreeStack
  <2>3. {avail[p][i] : i \in 0 .. top - 1} = {avail[p][i] : i \in 0 .. top} \ {s}
    <3>1. top \in 0 .. top /\ \A i \in 0 .. top : i \in 0 .. top - 1 <=> i # top
      BY <1>0 DEF SlotNumbers
    <3> QED BY <2>1, <1>3, <3>1
  <2>4. FreeStack(p)' = (0 .. pageSize[p] - 1) \ (isAssigned[p] \union {s})
    <3>1. FreeStack(p)' = {avail[p][i] : i \in 0 .. top - 1}
      BY <1>7 DEF FreeStack
    <3> QED BY <3>1, <2>2, <2>3
  <2>5. \A q \in Pages : q # p => FreeStack(q)' = FreeStack(q)
    BY <1>6 DEF FreeStack
  <2>6. ASSUME NEW q \in Pages
        PROVE  /\ available'[q] <= pageSize[q]
               /\ isAssigned'[q] \subseteq 0 .. pageSize[q] - 1
               /\ \A i, j \in 0 .. available'[q] - 1 : avail'[q][i] = avail'[q][j] => i = j
               /\ FreeStack(q)' = (0 .. pageSize[q] - 1) \ isAssigned'[q]
    <3>1. CASE q = p
      <4>1. available[p] <= pageSize[p] /\ pageSize[p] \in Nat
        BY <1>3 DEF IInv, StackMatchesBitmap, TypeOK
      <4>2. top <= pageSize[p]
        BY <4>1, <1>3
      <4>3. isAssigned[p] \union {s} \subseteq 0 .. pageSize[p] - 1
        BY <1>0 DEF IInv, StackMatchesBitmap
      <4>4. \A i, j \in 0 .. top - 1 : avail'[p][i] = avail'[p][j] => i = j
        BY <2>1, <1>7, <1>0 DEF SlotNumbers
      <4> QED BY <3>1, <1>7, <2>4, <4>2, <4>3, <4>4
    <3>2. CASE q # p
      BY <3>2, <1>6, <2>5 DEF IInv, StackMatchesBitmap
    <3> QED BY <3>1, <3>2
  <2> QED BY <1>1, <2>6 DEF StackMatchesBitmap
<1>9. PageCounts'
  <2>1. /\ Cardinality(isAssigned[p]) \in Nat
        /\ Cardinality(isAssigned[p] \union {s}) = Cardinality(isAssigned[p]) + 1
    BY <1>0, BitmapFinite, FS_AddElement DEF IInv
  <2>2. available[p] + Cardinality(isAssigned[p]) = pageSize[p]
    BY DEF IInv, PageCounts
  <2>3. top + Cardinality(isAssigned'[p]) = pageSize[p]
    BY <1>3, <1>7, <2>1, <2>2
  <2> QED BY <1>1, <1>6, <1>7, <2>3 DEF IInv, PageCounts
<1>10. AssignedSlots' = AssignedSlots \union {slot}
  <2>1. \A a : a \in AssignedSlots' <=> \E q \in Pages : \E i \in isAssigned'[q] : a = <<q, i>>
    BY <1>1 DEF AssignedSlots
  <2>2. ASSUME NEW a
        PROVE  (\E q \in Pages : \E i \in isAssigned'[q] : a = <<q, i>>)
               <=> (\E q \in Pages : \E i \in isAssigned[q] : a = <<q, i>>) \/ a = slot
    BY <1>3, <1>6, <1>7
  <2> QED BY <2>1, <2>2, InAssignedSlots
<1>11. Accounting'
  <2>1. AllSlots' = AllSlots
    BY <1>1 DEF AllSlots
  <2>2. Cardinality(AssignedSlots') = Cardinality(AssignedSlots) + 1
    BY <1>0, <1>10, AssignedSlotsFinite, FS_AddElement DEF IInv, Accounting
  <2> QED BY <1>1, <1>2, <2>1, <2>2 DEF IInv, Accounting
<1>12. ObjectsAreAssigned'
  <2>1. held' \subseteq AssignedSlots'
    BY <1>2, <1>10 DEF IInv, ObjectsAreAssigned
  <2>2. ~ended' => AssignedSlots' \subseteq held'
    BY <1>2, <1>10 DEF IInv, ObjectsAreAssigned
  <2>3. \A a \in held' : stamp'[a] = a[1]
    BY <1>2, <1>3, <1>4 DEF IInv, ObjectsAreAssigned
  <2> QED BY <2>1, <2>2, <2>3 DEF ObjectsAreAssigned
<1>13. PageTableCovers'
  BY <1>1 DEF IInv, PageTableCovers
<1> QED BY <1>5, <1>8, <1>9, <1>11, <1>12, <1>13 DEF IInv

-----------------------------------------------------------------------------

(* The size of a new page is that of a page. *)
LEMMA NewPageSizeType ==
  ASSUME IInv
  PROVE  NewPageSize \in Nat /\ 1 <= NewPageSize /\ NewPageSize <= PageSizeMax
<1>1. lastPage - 1 \in Pages
  BY DEF IInv, TypeOK, Pages
<1>2. pageSize[lastPage - 1] \in Nat /\ 1 <= pageSize[lastPage - 1]
  BY <1>1, PagesArePageNumbers DEF IInv, TypeOK
<1>3. \A s, g \in Nat : 1 <= s /\ 1 <= g => s * g \in Nat /\ 1 <= s * g
  OBVIOUS
<1>4. /\ pageSize[lastPage - 1] * GrowingFactor \in Nat
      /\ 1 <= pageSize[lastPage - 1] * GrowingFactor
  BY <1>2, <1>3, Constants
<1> QED BY <1>4, Constants DEF NewPageSize

(* Adding a page and serving the request from it preserves the invariant. *)
LEMMA NewPageStep ==
  ASSUME IInv, NewInNewPage
  PROVE  IInv'
<1> DEFINE n    == lastPage
           size == NewPageSize
           slot == <<n, size - 1>>
<1>0. /\ n \in Nat /\ 1 <= n /\ n < MaxPages /\ n \in PageNumbers /\ n \notin Pages
      /\ size \in Nat /\ 1 <= size /\ size <= PageSizeMax
  <2>1. n \in Nat /\ 1 <= n
    BY DEF IInv, TypeOK
  <2>2. n < MaxPages
    BY DEF NewInNewPage
  <2>3. n \in PageNumbers /\ n \notin Pages
    BY <2>1, <2>2, Constants DEF PageNumbers, Pages
  <2> QED BY <2>1, <2>2, <2>3, NewPageSizeType
<1>1. /\ lastAllocPg' = TableLength
      /\ lastPage' = BYTE2(n + 1)
      /\ pageSize' = [pageSize EXCEPT ![n] = size]
      /\ threshold' = threshold + ThresholdOf(size)
      /\ maxAllowed' = maxAllowed + size
      /\ available' = [available EXCEPT ![n] = size - 1]
      /\ avail' = [avail EXCEPT ![n] = [i \in SlotNumbers |-> IF i < size - 1 THEN i ELSE 0]]
      /\ isAssigned' = [isAssigned EXCEPT ![n] = {size - 1}]
      /\ pgNm' = n
      /\ assigned' = assigned + 1
      /\ held' = held \union {slot}
      /\ stamp' = [a \in held \union {slot} |-> IF a = slot THEN PageNum(n) ELSE stamp[a]]
      /\ lastDelPgNm' = lastDelPgNm /\ ended' = ended
  BY DEF NewInNewPage, PageNum
<1>2. n <= 32766
  BY <1>0, ParametersAssumption
<1>3. lastPage' = n + 1 /\ PageNum(n) = n
  BY <1>0, <1>1, <1>2 DEF BYTE2, PageNum
<1>4. Pages' = Pages \union {n}
  BY <1>0, <1>3 DEF Pages
<1>5. /\ pageSize'[n] = size
      /\ available'[n] = size - 1
      /\ isAssigned'[n] = {size - 1}
      /\ \A i \in SlotNumbers : avail'[n][i] = IF i < size - 1 THEN i ELSE 0
  BY <1>0, <1>1 DEF IInv, TypeOK
<1>6. \A q \in Pages : /\ pageSize'[q] = pageSize[q]
                       /\ available'[q] = available[q]
                       /\ isAssigned'[q] = isAssigned[q]
                       /\ avail'[q] = avail[q]
  BY <1>0, <1>1, PagesArePageNumbers DEF IInv, TypeOK
<1>7. lastAllocPg' \in Nat /\ lastAllocPg' <= 65535 /\ lastPage' <= lastAllocPg'
  <2>1. lastAllocPg \in Nat /\ lastAllocPg <= 65535 /\ n <= lastAllocPg
    BY DEF IInv, TypeOK, PageTableCovers
  <2>2. CASE n = lastAllocPg
    <3>1. TableLength = 2 * n
      BY <2>2, <1>0, <1>2 DEF TableLength, BYTE2
    <3> QED BY <3>1, <1>0, <1>1, <1>2, <1>3
  <2>3. CASE n # lastAllocPg
    BY <2>1, <2>3, <1>0, <1>1, <1>3 DEF TableLength
  <2> QED BY <2>2, <2>3
<1> HIDE DEF n, size, slot
<1>8. slot = <<n, size - 1>>
  BY DEF slot
<1>9. TypeOK'
  <2>0. /\ pageSize \in [PageNumbers -> Nat]
        /\ available \in [PageNumbers -> Nat]
        /\ avail \in [PageNumbers -> [SlotNumbers -> SlotNumbers]]
        /\ isAssigned \in [PageNumbers -> SUBSET SlotNumbers]
        /\ assigned \in Int /\ threshold \in Nat /\ maxAllowed \in Nat
        /\ ended \in BOOLEAN /\ stamp \in [held -> Nat]
        /\ lastDelPgNm \in Pages
        /\ \A q \in Pages : 1 <= pageSize[q] /\ pageSize[q] <= PageSizeMax
    BY DEF IInv, TypeOK
  <2>1. pageSize' \in [PageNumbers -> Nat]
    BY <1>0, <1>1, <2>0, ExceptType
  <2>2. available' \in [PageNumbers -> Nat]
    <3>1. size - 1 \in Nat
      BY <1>0
    <3> QED BY <3>1, <1>1, <2>0, ExceptType
  <2>3. avail' \in [PageNumbers -> [SlotNumbers -> SlotNumbers]]
    <3>1. [i \in SlotNumbers |-> IF i < size - 1 THEN i ELSE 0] \in [SlotNumbers -> SlotNumbers]
      BY Constants DEF SlotNumbers
    <3> QED BY <3>1, <1>1, <2>0, ExceptType
  <2>4. isAssigned' \in [PageNumbers -> SUBSET SlotNumbers]
    <3>1. {size - 1} \in SUBSET SlotNumbers
      BY <1>0, Constants DEF SlotNumbers
    <3> QED BY <3>1, <1>1, <2>0, ExceptType
  <2>5. \A q \in Pages' : 1 <= pageSize'[q] /\ pageSize'[q] <= PageSizeMax
    BY <1>0, <1>4, <1>5, <1>6, <2>0
  <2>6. stamp' \in [held' -> Nat]
    BY <1>0, <1>1, <1>3, <2>0
  <2>7. threshold' \in Nat /\ maxAllowed' \in Nat /\ assigned' \in Int
    BY <1>0, <1>1, <2>0, ThresholdOfBound
  <2>8. lastPage' \in Nat /\ 1 <= lastPage' /\ lastPage' <= MaxPages
    BY <1>0, <1>3, Constants
  <2>9. pgNm' \in Pages' /\ lastDelPgNm' \in Pages' /\ ended' \in BOOLEAN
    BY <1>1, <1>4, <2>0
  <2> QED BY <1>7, <2>1, <2>2, <2>3, <2>4, <2>5, <2>6, <2>7, <2>8, <2>9 DEF TypeOK
<1>10. StackMatchesBitmap'
  <2>1. \A i \in 0 .. size - 2 : i \in SlotNumbers /\ avail'[n][i] = i
    <3>1. \A i \in 0 .. size - 2 : i \in SlotNumbers /\ i < size - 1
      BY <1>0, Constants DEF SlotNumbers
    <3> QED BY <3>1, <1>5
  <2>2. {avail'[n][i] : i \in 0 .. available'[n] - 1} = 0 .. size - 2
    <3>1. available'[n] - 1 = size - 2
      BY <1>0, <1>5
    <3> QED BY <3>1, <2>1
  <2>3. 0 .. size - 2 = (0 .. size - 1) \ {size - 1}
    BY <1>0
  <2>4. \A q \in Pages : FreeStack(q)' = FreeStack(q)
    BY <1>6 DEF FreeStack
  <2>5. ASSUME NEW q \in Pages'
        PROVE  /\ available'[q] <= pageSize'[q]
               /\ isAssigned'[q] \subseteq 0 .. pageSize'[q] - 1
               /\ \A i, j \in 0 .. available'[q] - 1 : avail'[q][i] = avail'[q][j] => i = j
               /\ FreeStack(q)' = (0 .. pageSize'[q] - 1) \ isAssigned'[q]
    <3>1. CASE q = n
      <4>1. \A i, j \in 0 .. size - 2 : avail'[n][i] = avail'[n][j] => i = j
        BY <2>1
      <4>2. /\ available'[n] - 1 = size - 2
            /\ available'[n] <= pageSize'[n]
            /\ {size - 1} \subseteq 0 .. size - 1
        BY <1>0, <1>5
      <4>3. FreeStack(q)' = 0 .. size - 2
        BY <2>2, <3>1 DEF FreeStack
      <4> QED BY <3>1, <1>5, <2>3, <4>1, <4>2, <4>3
    <3>2. CASE q # n
      <4>1. q \in Pages
        BY <3>2, <1>4
      <4> QED BY <4>1, <1>6, <2>4 DEF IInv, StackMatchesBitmap
    <3> QED BY <3>1, <3>2
  <2> QED BY <2>5 DEF StackMatchesBitmap
<1>11. PageCounts'
  <2>1. Cardinality({size - 1}) = 1
    BY FS_Singleton
  <2>2. available'[n] + Cardinality(isAssigned'[n]) = pageSize'[n]
    BY <1>0, <1>5, <2>1
  <2>3. \A q \in Pages : available'[q] + Cardinality(isAssigned'[q]) = pageSize'[q]
    BY <1>6 DEF IInv, PageCounts
  <2> QED BY <1>4, <2>2, <2>3 DEF PageCounts
<1>12. AssignedSlots' = AssignedSlots \union {slot} /\ slot \notin AssignedSlots
  <2>1. \A a : a \in AssignedSlots' <=> \E q \in Pages' : \E i \in isAssigned'[q] : a = <<q, i>>
    BY DEF AssignedSlots
  <2>2. ASSUME NEW a
        PROVE  (\E q \in Pages' : \E i \in isAssigned'[q] : a = <<q, i>>)
               <=> (\E q \in Pages : \E i \in isAssigned[q] : a = <<q, i>>) \/ a = slot
    BY <1>4, <1>5, <1>6, <1>8
  <2>3. slot \notin AssignedSlots
    BY <1>0, <1>8, InAssignedSlots
  <2> QED BY <2>1, <2>2, <2>3, InAssignedSlots
<1>13. Accounting'
  <2> DEFINE S == {<<n, i>> : i \in 0 .. size - 1}
  <2>1. IsFiniteSet(S) /\ Cardinality(S) = size
    BY <1>0, SlotsOfOnePage
  <2>2. AllSlots' = AllSlots \union S
    <3>1. \A a : a \in AllSlots' <=> \E q \in Pages' : \E i \in 0 .. pageSize'[q] - 1 : a = <<q, i>>
      BY DEF AllSlots
    <3>2. ASSUME NEW a
          PROVE  (\E q \in Pages' : \E i \in 0 .. pageSize'[q] - 1 : a = <<q, i>>)
                 <=> (\E q \in Pages : \E i \in 0 .. pageSize[q] - 1 : a = <<q, i>>) \/ a \in S
      BY <1>4, <1>5, <1>6
    <3> QED BY <3>1, <3>2, InAllSlots
  <2>3. AllSlots \cap S = {}
    BY <1>0, InAllSlots
  <2> HIDE DEF S
  <2>4. /\ IsFiniteSet(AllSlots')
        /\ Cardinality(AllSlots') = Cardinality(AllSlots) + size
    <3>1. IsFiniteSet(AllSlots) /\ Cardinality(AllSlots) \in Nat
      BY FS_CardinalityType DEF IInv, Accounting
    <3>2. /\ IsFiniteSet(AllSlots \union S)
          /\ Cardinality(AllSlots \union S)
               = Cardinality(AllSlots) + Cardinality(S) - Cardinality(AllSlots \cap S)
      BY <3>1, <2>1, FS_Union
    <3> QED BY <3>1, <3>2, <2>1, <2>2, <2>3, <1>0, FS_EmptySet
  <2>5. Cardinality(AssignedSlots') = Cardinality(AssignedSlots) + 1
    BY <1>12, AssignedSlotsFinite, FS_AddElement DEF IInv, Accounting
  <2>6. threshold' <= maxAllowed'
    BY <1>0, <1>1, ThresholdOfBound DEF IInv, Accounting, TypeOK
  <2> QED BY <1>1, <2>4, <2>5, <2>6 DEF IInv, Accounting
<1>14. ObjectsAreAssigned'
  <2>1. held' \subseteq AssignedSlots'
    BY <1>1, <1>12 DEF IInv, ObjectsAreAssigned
  <2>2. ~ended' => AssignedSlots' \subseteq held'
    BY <1>1, <1>12 DEF IInv, ObjectsAreAssigned
  <2>3. \A a \in held' : stamp'[a] = a[1]
    BY <1>1, <1>3, <1>8 DEF IInv, ObjectsAreAssigned
  <2> QED BY <2>1, <2>2, <2>3 DEF ObjectsAreAssigned
<1>15. PageTableCovers'
  BY <1>7 DEF PageTableCovers
<1> QED BY <1>9, <1>10, <1>11, <1>13, <1>14, <1>15 DEF IInv

-----------------------------------------------------------------------------

(* A deletion after the end of TOL only forgets the object. *)
LEMMA DeleteAfterEnd ==
  ASSUME IInv, NEW a, Delete(a), ended
  PROVE  IInv'
<1>1. /\ held' = held \ {a} /\ stamp' = [b \in held \ {a} |-> stamp[b]]
      /\ UNCHANGED <<lastPage, lastAllocPg, pageSize, available, avail, isAssigned, pgNm,
                     lastDelPgNm, assigned, threshold, maxAllowed, ended>>
  BY DEF Delete
<1>2. Pages' = Pages /\ AssignedSlots' = AssignedSlots /\ AllSlots' = AllSlots
  BY <1>1 DEF Pages, AssignedSlots, AllSlots
<1>3. TypeOK'
  BY <1>1, <1>2 DEF IInv, TypeOK
<1>4. StackMatchesBitmap'
  BY <1>1, <1>2 DEF IInv, StackMatchesBitmap, FreeStack
<1>5. PageCounts' /\ Accounting' /\ PageTableCovers'
  BY <1>1, <1>2 DEF IInv, PageCounts, Accounting, PageTableCovers
<1>6. ObjectsAreAssigned'
  <2>1. held' \subseteq AssignedSlots' /\ \A b \in held' : stamp'[b] = b[1]
    BY <1>1, <1>2 DEF IInv, ObjectsAreAssigned
  <2> QED BY <1>1, <2>1 DEF ObjectsAreAssigned
<1> QED BY <1>3, <1>4, <1>5, <1>6 DEF IInv

(* Deleting an object gives its slot back to the page stamped in it. *)
LEMMA DeleteStep ==
  ASSUME IInv, NEW a \in held, Delete(a), ~ended
  PROVE  IInv'
<1>a. PICK p \in Pages : \E s \in isAssigned[p] : a = <<p, s>>
  BY InAssignedSlots DEF IInv, ObjectsAreAssigned
<1>0. PICK s \in isAssigned[p] : a = <<p, s>>
  BY <1>a
<1>1. stamp[a] = p /\ a[1] = p /\ a[2] = s
  BY <1>0 DEF IInv, ObjectsAreAssigned
<1>2. /\ held' = held \ {a} /\ stamp' = [b \in held \ {a} |-> stamp[b]]
      /\ assigned' = assigned - 1
      /\ lastDelPgNm' = p
      /\ isAssigned' = [isAssigned EXCEPT ![p] = @ \ {s}]
      /\ avail' = [avail EXCEPT ![p][available[p]] = s]
      /\ available' = [available EXCEPT ![p] = @ + 1]
      /\ UNCHANGED <<lastPage, lastAllocPg, pageSize, pgNm, threshold, maxAllowed, ended>>
  BY <1>1 DEF Delete, Decremented, PutBitFalse, Push
<1>3. /\ p \in PageNumbers /\ p \in Nat
      /\ available[p] \in Nat /\ pageSize[p] \in Nat /\ pageSize[p] <= PageSizeMax
      /\ isAssigned[p] \subseteq 0 .. pageSize[p] - 1
      /\ avail[p] \in [SlotNumbers -> SlotNumbers]
      /\ isAssigned[p] \subseteq SlotNumbers
  BY PagesArePageNumbers DEF IInv, TypeOK, StackMatchesBitmap, PageNumbers
<1>4. /\ IsFiniteSet(isAssigned[p])
      /\ Cardinality(isAssigned[p]) \in Nat
      /\ Cardinality(isAssigned[p] \ {s}) = Cardinality(isAssigned[p]) - 1
      /\ Cardinality(isAssigned[p] \ {s}) \in Nat
  <2>1. IsFiniteSet(isAssigned[p]) /\ Cardinality(isAssigned[p]) \in Nat
    BY BitmapFinite DEF IInv
  <2> QED BY <2>1, <1>0, FS_RemoveElement, FS_CardinalityType
<1>5. available[p] + Cardinality(isAssigned[p]) = pageSize[p]
  BY DEF IInv, PageCounts
<1> DEFINE top == available[p]
<1>6. top \in Nat /\ top < pageSize[p] /\ top \in SlotNumbers /\ s \in SlotNumbers
  <2>1. Cardinality(isAssigned[p]) >= 1
    BY <1>4
  <2>2. top < pageSize[p]
    BY <2>1, <1>3, <1>4, <1>5
  <2>3. top \in Nat /\ top <= PageSizeMax - 1
    BY <2>2, <1>3, Constants
  <2>4. top \in SlotNumbers
    BY <2>3, Constants DEF SlotNumbers
  <2>5. s \in SlotNumbers
    BY <1>0, <1>3
  <2> QED BY <2>2, <2>3, <2>4, <2>5
<1>7. /\ available'[p] = top + 1
      /\ isAssigned'[p] = isAssigned[p] \ {s}
      /\ avail'[p][top] = s
      /\ \A i \in 0 .. top - 1 : avail'[p][i] = avail[p][i]
  BY <1>2, <1>3, <1>6 DEF IInv, TypeOK, SlotNumbers
<1>8. \A q \in Pages : q # p => /\ available'[q] = available[q]
                              /\ avail'[q] = avail[q]
                              /\ isAssigned'[q] = isAssigned[q]
  BY <1>2, PagesArePageNumbers DEF IInv, TypeOK
<1>9. Pages' = Pages /\ AllSlots' = AllSlots
  BY <1>2 DEF Pages, AllSlots
<1>10. TypeOK'
  <2>0. /\ available \in [PageNumbers -> Nat]
        /\ avail \in [PageNumbers -> [SlotNumbers -> SlotNumbers]]
        /\ isAssigned \in [PageNumbers -> SUBSET SlotNumbers]
        /\ assigned \in Int /\ stamp \in [held -> Nat]
    BY DEF IInv, TypeOK
  <2>1. available' \in [PageNumbers -> Nat]
    <3>1. top + 1 \in Nat
      BY <1>6
    <3> QED BY <3>1, <2>0, <1>2, ExceptType
  <2>2. avail' \in [PageNumbers -> [SlotNumbers -> SlotNumbers]]
    <3>1. [avail[p] EXCEPT ![top] = s] \in [SlotNumbers -> SlotNumbers]
      BY <1>3, <1>6, ExceptType
    <3>2. avail' = [avail EXCEPT ![p] = [avail[p] EXCEPT ![top] = s]]
      BY <1>2
    <3> QED BY <3>1, <3>2, <2>0, ExceptType
  <2>3. isAssigned' \in [PageNumbers -> SUBSET SlotNumbers]
    <3>1. isAssigned[p] \ {s} \in SUBSET SlotNumbers
      BY <1>3
    <3> QED BY <3>1, <2>0, <1>2, ExceptType
  <2>4. stamp' \in [held' -> Nat] /\ assigned' \in Int
    BY <1>2, <2>0
  <2> QED BY <1>2, <1>9, <2>1, <2>2, <2>3, <2>4 DEF IInv, TypeOK
<1>11. StackMatchesBitmap'
  <2>1. /\ \A i, j \in 0 .. top - 1 : avail[p][i] = avail[p][j] => i = j
        /\ {avail[p][i] : i \in 0 .. top - 1} = (0 .. pageSize[p] - 1) \ isAssigned[p]
    BY DEF IInv, StackMatchesBitmap, FreeStack
  <2>2. \A i \in 0 .. top : i \in 0 .. top - 1 \/ i = top
    BY <1>6
  <2>3. top \in 0 .. top /\ \A i \in 0 .. top - 1 : i \in 0 .. top
    BY <1>6
  <2>4. \A i \in 0 .. top - 1 : avail[p][i] # s
    BY <2>1, <1>0
  <2>5. \A i, j \in 0 .. top : avail'[p][i] = avail'[p][j] => i = j
    BY <2>1, <2>2, <2>4, <1>7
  <2>6. {avail'[p][i] : i \in 0 .. top} = {avail[p][i] : i \in 0 .. top - 1} \union {s}
    BY <2>2, <2>3, <1>7
  <2>7. {avail'[p][i] : i \in 0 .. top} = (0 .. pageSize[p] - 1) \ (isAssigned[p] \ {s})
    BY <2>1, <2>6, <1>0, <1>3
  <2>8. (top + 1) - 1 = top /\ top + 1 <= pageSize[p]
    BY <1>6, <1>3
  <2>9. \A q \in Pages : q # p => FreeStack(q)' = FreeStack(q)
    BY <1>8 DEF FreeStack
  <2>10. ASSUME NEW q \in Pages
         PROVE  /\ available'[q] <= pageSize[q]
                /\ isAssigned'[q] \subseteq 0 .. pageSize[q] - 1
                /\ \A i, j \in 0 .. available'[q] - 1 : avail'[q][i] = avail'[q][j] => i = j
                /\ FreeStack(q)' = (0 .. pageSize[q] - 1) \ isAssigned'[q]
    <3>1. CASE q = p
      <4>1. FreeStack(p)' = {avail'[p][i] : i \in 0 .. top}
        BY <1>7, <2>8 DEF FreeStack
      <4> QED BY <3>1, <4>1, <1>3, <1>7, <2>5, <2>7, <2>8
    <3>2. CASE q # p
      BY <3>2, <1>8, <2>9 DEF IInv, StackMatchesBitmap
    <3> QED BY <3>1, <3>2
  <2> QED BY <1>2, <1>9, <2>10 DEF StackMatchesBitmap
<1>12. PageCounts'
  <2>1. available'[p] + Cardinality(isAssigned'[p]) = pageSize[p]
    BY <1>3, <1>4, <1>5, <1>7
  <2> QED BY <1>2, <1>8, <1>9, <2>1 DEF IInv, PageCounts
<1>13. AssignedSlots' = AssignedSlots \ {a}
  <2>1. \A b : b \in AssignedSlots' <=> \E q \in Pages : \E i \in isAssigned'[q] : b = <<q, i>>
    BY <1>9 DEF AssignedSlots
  <2>2. ASSUME NEW b
        PROVE  (\E q \in Pages : \E i \in isAssigned'[q] : b = <<q, i>>)
               <=> (\E q \in Pages : \E i \in isAssigned[q] : b = <<q, i>>) /\ b # <<p, s>>
    BY <1>7, <1>8
  <2> QED BY <1>0, <2>1, <2>2, InAssignedSlots
<1>14. Accounting'
  <2>1. a \in AssignedSlots
    BY DEF IInv, ObjectsAreAssigned
  <2>2. Cardinality(AssignedSlots') = Cardinality(AssignedSlots) - 1
    BY <2>1, <1>13, AssignedSlotsFinite, FS_RemoveElement DEF IInv, Accounting
  <2> QED BY <1>2, <1>9, <2>2 DEF IInv, Accounting
<1>15. ObjectsAreAssigned'
  BY <1>2, <1>13 DEF IInv, ObjectsAreAssigned
<1>16. PageTableCovers'
  BY <1>2 DEF IInv, PageTableCovers
<1> QED BY <1>10, <1>11, <1>12, <1>14, <1>15, <1>16 DEF IInv

-----------------------------------------------------------------------------

(* What holds from 0 on, and of n + 1 when of n, holds up to m. *)
LEMMA CountUp ==
  ASSUME NEW m \in Nat, NEW S, 0 \in S, \A n \in 0 .. m - 1 : n \in S => n + 1 \in S
  PROVE  \A n \in 0 .. m : n \in S
<1> DEFINE T == {n \in 0 .. m : n \notin S}
<1> SUFFICES ASSUME T # {} PROVE FALSE
  OBVIOUS
<1>1. T \subseteq Nat
  OBVIOUS
<1>2. PICK x \in T : \A y \in T : ~(<<y, x>> \in OpToRel(<, Nat))
  BY <1>1, NatLessThanWellFounded, WFMin
<1>3. \A y \in T : ~(y < x)
  BY <1>1, <1>2 DEF OpToRel
<1>4. x \in 0 .. m /\ x \notin S
  BY <1>2
<1> HIDE DEF T
<1>5. x # 0
  BY <1>4
<1>6. x - 1 \in 0 .. m - 1 /\ x - 1 \in 0 .. m /\ x - 1 < x
  BY <1>4, <1>5
<1>7. x - 1 \in S
  BY <1>3, <1>6 DEF T
<1>8. (x - 1) + 1 \in S
  BY <1>6, <1>7
<1>9. (x - 1) + 1 = x
  BY <1>4
<1> QED BY <1>4, <1>8, <1>9

(* Scan is the function its definition says: there is one, put together page   *)
(* by page.                                                                   *)
ScanOf(f, n) == IF n = 0 THEN ScanStart ELSE ScanPage(f[n - 1], lastPage - n)

LEMMA ScanDefined == Scan = [n \in 0 .. MaxPages |-> ScanOf(Scan, n)]
<1> DEFINE Upto(m) == \E f : f = [n \in 0 .. m |-> ScanOf(f, n)]
           S == {m \in Nat : Upto(m)}
<1>1. 0 \in S
  <2> DEFINE f == [n \in 0 .. 0 |-> ScanStart]
  <2>1. f = [n \in 0 .. 0 |-> ScanOf(f, n)]
    BY DEF ScanOf
  <2> QED BY <2>1
<1>2. ASSUME NEW m \in Nat, m \in S PROVE m + 1 \in S
  <2>1. PICK f : f = [n \in 0 .. m |-> ScanOf(f, n)]
    BY <1>2
  <2> DEFINE g == [n \in 0 .. m + 1 |-> IF n = m + 1 THEN ScanPage(f[m], lastPage - n) ELSE f[n]]
  <2>2. ASSUME NEW n \in 0 .. m + 1 PROVE g[n] = ScanOf(g, n)
    <3>1. CASE n = m + 1
      <4>1. g[n - 1] = f[m] /\ n # 0
        BY <3>1
      <4> QED BY <3>1, <4>1 DEF ScanOf
    <3>2. CASE n \in 1 .. m
      <4>1. g[n] = f[n] /\ g[n - 1] = f[n - 1] /\ n # 0 /\ n \in 0 .. m
        BY <3>2
      <4>2. f[n] = ScanOf(f, n)
        BY <2>1, <4>1
      <4> QED BY <4>1, <4>2, Zenon DEF ScanOf
    <3>3. CASE n = 0
      <4>1. g[0] = f[0]
        OBVIOUS
      <4>2. f[0] = ScanOf(f, 0)
        BY <2>1
      <4> QED BY <3>3, <4>1, <4>2 DEF ScanOf
    <3> QED BY <3>1, <3>2, <3>3
  <2>3. g = [n \in 0 .. m + 1 |-> ScanOf(g, n)]
    BY <2>2, Zenon
  <2>4. Upto(m + 1)
    <3> HIDE DEF g
    <3> QED BY <2>3
  <2> QED BY <2>4
<1> HIDE DEF S
<1>3. MaxPages \in S
  BY <1>1, <1>2, CountUp, Constants
<1>4. PICK f : f = [n \in 0 .. MaxPages |-> ScanOf(f, n)]
  BY <1>3 DEF S
<1>5. Scan = CHOOSE g : g = [n \in 0 .. MaxPages |-> ScanOf(g, n)]
  BY Zenon DEF Scan, ScanOf
<1> QED BY <1>4, <1>5, Zenon

(* After n pages: the page found is the best of the last n, and the scan has    *)
(* stopped when it has as many free slots as there are pages.                   *)
Seen(n) == {p \in Pages : lastPage - n <= p}

ScanInv(s, n) ==
  /\ s.maxAvail \in Nat
  /\ \/ /\ s.maxAvailPage = -1 /\ s.maxAvail = 0 /\ s.stopped = FALSE
        /\ \A q \in Seen(n) : available[q] = 0
     \/ /\ s.maxAvailPage \in Seen(n) /\ s.maxAvail = available[s.maxAvailPage] /\ s.maxAvail > 0
        /\ s.stopped <=> s.maxAvail >= lastPage
        /\ s.stopped => \A q \in Seen(n) : available[q] >= lastPage => q <= s.maxAvailPage
        /\ ~s.stopped => \A q \in Seen(n) : \/ available[q] < s.maxAvail
                                            \/ available[q] = s.maxAvail /\ q <= s.maxAvailPage

LEMMA ScanPageInv ==
  ASSUME TypeOK, NEW n \in 1 .. lastPage, NEW s, ScanInv(s, n - 1)
  PROVE  ScanInv(ScanPage(s, lastPage - n), n)
<1> DEFINE p == lastPage - n
<1>1. /\ lastPage \in Nat /\ p \in Pages /\ Seen(n) = Seen(n - 1) \union {p}
      /\ \A q \in Seen(n - 1) : p < q
  BY DEF TypeOK, Pages, Seen
<1>2. /\ \A q \in Seen(n) : available[q] \in Nat /\ q \in Int
      /\ available[p] \in Nat /\ p \in Int /\ p >= 0
  <2>1. \A q \in Pages : q \in Int /\ q >= 0
    BY DEF TypeOK, Pages
  <2>2. \A q \in Pages : available[q] \in Nat
    BY PagesArePageNumbers DEF TypeOK
  <2> QED BY <1>1, <2>1, <2>2 DEF Seen
<1> HIDE DEF p
<1>3. CASE s.stopped \/ available[p] <= s.maxAvail
  <2>1. ScanPage(s, p) = s
    BY <1>3 DEF ScanPage
  <2>2. ScanInv(s, n)
    BY <1>1, <1>2, <1>3 DEF ScanInv
  <2> QED BY <2>1, <2>2 DEF p
<1>4. CASE ~(s.stopped \/ available[p] <= s.maxAvail)
  <2> DEFINE r == [maxAvail |-> available[p], maxAvailPage |-> p, stopped |-> available[p] >= lastPage]
  <2>1. ScanPage(s, p) = r
    BY <1>4 DEF ScanPage
  <2>2. /\ r.maxAvail = available[p] /\ r.maxAvailPage = p
        /\ r.stopped <=> available[p] >= lastPage
        /\ s.maxAvail \in Nat /\ available[p] > s.maxAvail /\ ~s.stopped
    <3>1. s.maxAvail \in Nat /\ available[p] > s.maxAvail /\ ~s.stopped
      BY <1>2, <1>4 DEF ScanInv
    <3>2. r.maxAvail = available[p] /\ r.maxAvailPage = p
      OBVIOUS
    <3>3. r.stopped <=> available[p] >= lastPage
      BY Zenon
    <3> HIDE DEF r
    <3> QED BY <3>1, <3>2, <3>3
  <2> HIDE DEF r
  <2>3. \A q \in Seen(n - 1) : available[q] <= s.maxAvail /\ s.maxAvail < lastPage
    BY <1>1, <1>2, <2>2 DEF ScanInv
  <2>4. \A q \in Seen(n) : q = p \/ (available[q] < available[p] /\ available[q] < lastPage)
    BY <1>1, <1>2, <2>2, <2>3
  <2>5. /\ r.maxAvailPage \in Seen(n) /\ r.maxAvail = available[r.maxAvailPage]
        /\ r.maxAvail \in Nat /\ r.maxAvail > 0
        /\ r.stopped <=> r.maxAvail >= lastPage
        /\ \A q \in Seen(n) : available[q] >= lastPage => q <= r.maxAvailPage
        /\ \A q \in Seen(n) : \/ available[q] < r.maxAvail
                              \/ available[q] = r.maxAvail /\ q <= r.maxAvailPage
    BY <1>1, <1>2, <2>2, <2>4
  <2>6. ScanInv(r, n)
    BY <2>2, <2>5 DEF ScanInv
  <2> QED BY <2>1, <2>6 DEF p
<1> QED BY <1>3, <1>4

LEMMA ScanEndInv ==
  ASSUME TypeOK
  PROVE  ScanInv(Scan[lastPage], lastPage)
<1> DEFINE S == {n \in 0 .. lastPage : ScanInv(Scan[n], n)}
<1>0. lastPage \in Nat /\ lastPage <= MaxPages /\ MaxPages \in Nat
  BY Constants DEF TypeOK
<1>1. 0 \in S
  <2>1. Scan[0] = ScanStart
    BY <1>0, ScanDefined DEF ScanOf
  <2>2. Seen(0) = {}
    BY <1>0 DEF Seen, Pages
  <2>3. ScanInv(ScanStart, 0)
    BY <2>2 DEF ScanInv, ScanStart
  <2> QED BY <1>0, <2>1, <2>3
<1>2. ASSUME NEW n \in 0 .. lastPage - 1, n \in S PROVE n + 1 \in S
  <2>1. n + 1 \in 1 .. lastPage /\ n + 1 \in 0 .. MaxPages /\ (n + 1) - 1 = n /\ n + 1 # 0
    BY <1>0
  <2>2. Scan[n + 1] = ScanPage(Scan[n], lastPage - (n + 1))
    BY <2>1, ScanDefined DEF ScanOf
  <2>3. ScanInv(Scan[n + 1], n + 1)
    BY <1>2, <2>1, <2>2, ScanPageInv
  <2> QED BY <2>1, <2>3
<1> HIDE DEF S
<1>3. lastPage \in S
  BY <1>0, <1>1, <1>2, CountUp
<1> QED BY <1>3 DEF S

(* The page the scan finds, by its result. *)
LEMMA ScanFinds ==
  ASSUME TypeOK
  PROVE  /\ ScanFindsTheFullestPage
         /\ MaxAvailPage >= 0 => MaxAvailPage \in FreePages
         /\ MaxAvailPage < 0 => FreePages = {}
<1> DEFINE s == Scan[lastPage]
           p == s.maxAvailPage
<1>1. ScanInv(s, lastPage) /\ MaxAvailPage = p
  BY ScanEndInv DEF MaxAvailPage
<1>2. /\ Seen(lastPage) = Pages /\ lastPage \in Nat
      /\ \A q \in Pages : q \in Int /\ q >= 0 /\ available[q] \in Nat
  <2>1. lastPage \in Nat /\ Seen(lastPage) = Pages
    BY DEF TypeOK, Pages, Seen
  <2>2. \A q \in Pages : q \in Int /\ q >= 0
    BY DEF TypeOK, Pages
  <2>3. \A q \in Pages : available[q] \in Nat
    BY PagesArePageNumbers DEF TypeOK
  <2> QED BY <2>1, <2>2, <2>3
<1> HIDE DEF s
<1>3. CASE p = -1
  <2>1. \A q \in Pages : available[q] = 0
    BY <1>1, <1>2, <1>3 DEF ScanInv
  <2>2. FreePages = {}
    BY <2>1 DEF FreePages
  <2> QED BY <1>1, <1>3, <2>2 DEF ScanFindsTheFullestPage
<1>4. CASE p # -1
  <2>1. /\ p \in FreePages /\ p \in Int /\ p >= 0
        /\ s.stopped <=> available[p] >= lastPage
        /\ s.stopped => \A q \in Pages : available[q] >= lastPage => q <= p
        /\ ~s.stopped => \A q \in Pages : \/ available[q] < available[p]
                                          \/ available[q] = available[p] /\ q <= p
    BY <1>1, <1>2, <1>4 DEF ScanInv, FreePages
  <2>2. CASE s.stopped
    <3>1. p \in AmplePages
      BY <2>1, <2>2 DEF AmplePages
    <3>2. \A q \in AmplePages : q <= p /\ q \in Int
      BY <1>2, <2>1, <2>2 DEF AmplePages, FreePages
    <3>3. ScanResult = {p}
      BY <2>1, <3>1, <3>2 DEF ScanResult
    <3> QED BY <1>1, <2>1, <3>3 DEF ScanFindsTheFullestPage
  <2>3. CASE ~s.stopped
    <3>1. AmplePages = {}
      BY <1>2, <2>1, <2>3 DEF AmplePages, FreePages
    <3>2. /\ \A q \in FreePages : q \in Int /\ available[q] \in Nat
          /\ \A q \in FreePages : \/ available[q] < available[p]
                                  \/ available[q] = available[p] /\ q <= p
      BY <1>2, <2>1, <2>3 DEF FreePages
    <3>3. ScanResult = {p}
      BY <2>1, <3>1, <3>2 DEF ScanResult
    <3> QED BY <1>1, <2>1, <3>3 DEF ScanFindsTheFullestPage
  <2> QED BY <2>2, <2>3
<1> QED BY <1>3, <1>4

-----------------------------------------------------------------------------

(* Whatever the current and the last deletion's pages are, they exist, so the  *)
(* ways New finds a slot without adding a page are cases of AssignStep.        *)
LEMMA NewStep ==
  ASSUME IInv, New
  PROVE  IInv'
<1>1. pgNm \in Pages /\ lastDelPgNm \in Pages
  BY DEF IInv, TypeOK
<1>2. CASE NewInCurrent
  BY <1>1, <1>2, AssignStep DEF NewInCurrent
<1>3. CASE NewInLastDeleted
  BY <1>1, <1>3, AssignStep DEF NewInLastDeleted
<1>4. CASE NewByScan
  <2>1. MaxAvailPage >= 0 /\ AssignFrom(MaxAvailPage) /\ UNCHANGED table
    BY <1>4 DEF NewByScan
  <2>2. MaxAvailPage \in Pages /\ available[MaxAvailPage] > 0
    BY <2>1, ScanFinds DEF IInv, FreePages
  <2> HIDE DEF MaxAvailPage
  <2> QED BY <2>1, <2>2, AssignStep
<1>5. CASE NewInNewPage
  BY <1>5, NewPageStep
<1> QED BY <1>2, <1>3, <1>4, <1>5 DEF New

(* A step that only sets ended, or that changes nothing. *)
LEMMA OtherStep ==
  ASSUME IInv,
         UNCHANGED <<lastPage, lastAllocPg, pageSize, available, avail, isAssigned, pgNm,
                     lastDelPgNm, assigned, threshold, maxAllowed, held, stamp>>,
         ended' = ended \/ ended' = TRUE
  PROVE  IInv'
<1>1. Pages' = Pages /\ AssignedSlots' = AssignedSlots /\ AllSlots' = AllSlots
  BY DEF Pages, AssignedSlots, AllSlots
<1>2. TypeOK'
  <2>1. ended' \in BOOLEAN
    <3>1. ended \in BOOLEAN
      BY DEF IInv, TypeOK
    <3> QED BY <3>1
  <2> QED BY <1>1, <2>1 DEF IInv, TypeOK
<1>3. StackMatchesBitmap'
  BY <1>1 DEF IInv, StackMatchesBitmap, FreeStack
<1>4. PageCounts' /\ Accounting' /\ PageTableCovers'
  BY <1>1 DEF IInv, PageCounts, Accounting, PageTableCovers
<1>5. ObjectsAreAssigned'
  BY <1>1 DEF IInv, ObjectsAreAssigned
<1> QED BY <1>2, <1>3, <1>4, <1>5 DEF IInv

THEOREM NextInv == IInv /\ [Next]_vars => IInv'
<1> SUFFICES ASSUME IInv, [Next]_vars PROVE IInv'
  OBVIOUS
<1>1. CASE New
  BY <1>1, NewStep
<1>2. ASSUME NEW a \in held, Delete(a) PROVE IInv'
  BY <1>2, DeleteStep, DeleteAfterEnd
<1>3. CASE SetTOLEnd
  BY <1>3, OtherStep DEF SetTOLEnd
<1>4. CASE UNCHANGED vars
  BY <1>4, OtherStep DEF vars
<1> QED BY <1>1, <1>2, <1>3, <1>4 DEF Next

THEOREM Invariant == Spec => []IInv
<1>1. Init => IInv
  BY InitInv
<1>2. IInv /\ [Next]_vars => IInv'
  BY NextInv
<1> QED BY <1>1, <1>2, PTL DEF Spec

-----------------------------------------------------------------------------

(* The handler's members keep their types: every page number it computes, in   *)
(* spite of the 16 bit casts, is that of a page, and every index of a stack    *)
(* that of a slot (bfsmem.cpp:462-548).                                        *)
THEOREM TypeCorrect == Spec => []TypeOK
<1>1. IInv => TypeOK
  BY DEF IInv
<1> QED BY <1>1, Invariant, PTL

(* Stack and bitmap of each page agree after any sequence of allocations and   *)
(* deletions (bfsmem.cpp:326-377).                                             *)
THEOREM StackIsBitmap == Spec => []StackMatchesBitmap
<1>1. IInv => StackMatchesBitmap
  BY DEF IInv
<1> QED BY <1>1, Invariant, PTL

(* The handler's counters are exact (bfsmem.cpp:462-548).                      *)
THEOREM CountersAreExact == Spec => []CountersMatchPages
<1>1. IInv => CountersMatchPages
  BY AssignedSlotsFinite DEF IInv, Accounting, CountersMatchPages
<1> QED BY <1>1, Invariant, PTL

(* No live object's slot is free, and until TOL ends every assigned slot is a   *)
(* live object's (bfsmem.cpp:462-548, tol_bfsmem.h:77-88).                      *)
THEOREM NoSlotLost == Spec => []ObjectsAreAssigned
<1>1. IInv => ObjectsAreAssigned
  BY DEF IInv
<1> QED BY <1>1, Invariant, PTL

(* The page table has room for every page (bfsmem.cpp:503-517).                *)
THEOREM TableHasRoom == Spec => []PageTableCovers
<1>1. IInv => PageTableCovers
  BY DEF IInv
<1> QED BY <1>1, Invariant, PTL

(* Whatever the pages hold, the scan finds the page it is meant to find         *)
(* (bfsmem.cpp:484-502).                                                       *)
THEOREM FullestPageIsFound == Spec => []ScanFindsTheFullestPage
<1>1. IInv => ScanFindsTheFullestPage
  BY ScanFinds DEF IInv
<1> QED BY <1>1, Invariant, PTL

(* operator new never returns a live object's address (bfsmem.cpp:462-529).    *)
THEOREM FreshAddress == Spec => NoDoubleAllocation
<1> DEFINE A == assigned' > assigned => \E a \in held' \ held : held' = held \union {a}
<1>1. IInv /\ [Next]_vars => [A]_vars
  <2> SUFFICES ASSUME IInv, Next, assigned' > assigned
               PROVE  \E a \in held' \ held : held' = held \union {a}
    OBVIOUS
  <2>0. pgNm \in Pages /\ lastDelPgNm \in Pages /\ assigned \in Int
    BY DEF IInv, TypeOK
  <2>1. ASSUME NEW p \in Pages, available[p] > 0, AssignFrom(p)
        PROVE  \E a \in held' \ held : held' = held \union {a}
    <3>1. <<p, TopSlot(p)>> \notin held
      BY <2>1, TopSlotIsFree
    <3>2. held' = held \union {<<p, TopSlot(p)>>}
      BY <2>1 DEF AssignFrom
    <3> QED BY <3>1, <3>2
  <2>2. CASE NewInCurrent
    BY <2>0, <2>1, <2>2 DEF NewInCurrent
  <2>3. CASE NewInLastDeleted
    BY <2>0, <2>1, <2>3 DEF NewInLastDeleted
  <2>4. CASE NewByScan
    <3>1. MaxAvailPage >= 0 /\ AssignFrom(MaxAvailPage)
      BY <2>4 DEF NewByScan
    <3>2. MaxAvailPage \in Pages /\ available[MaxAvailPage] > 0
      BY <3>1, ScanFinds DEF IInv, FreePages
    <3> QED BY <2>1, <3>1, <3>2
  <2>5. CASE NewInNewPage
    <3> DEFINE slot == <<lastPage, NewPageSize - 1>>
    <3>1. held' = held \union {slot}
      BY <2>5 DEF NewInNewPage
    <3>2. lastPage \notin Pages
      BY DEF IInv, TypeOK, Pages
    <3>3. slot \notin AssignedSlots
      BY <3>2, InAssignedSlots
    <3>4. slot \notin held
      BY <3>3 DEF IInv, ObjectsAreAssigned
    <3> QED BY <3>1, <3>4
  <2>6. ASSUME NEW a \in held, Delete(a) PROVE FALSE
    BY <2>0, <2>6 DEF Delete, Decremented
  <2>7. CASE SetTOLEnd
    BY <2>0, <2>7 DEF SetTOLEnd
  <2> QED BY <2>2, <2>3, <2>4, <2>5, <2>6, <2>7 DEF Next, New
<1> QED BY <1>1, Invariant, PTL DEF Spec, NoDoubleAllocation

(* When no page has room, every slot is assigned. *)
LEMMA NoRoomMeansFull ==
  ASSUME IInv, FreePages = {}
  PROVE  assigned = maxAllowed
<1>1. ASSUME NEW p \in Pages PROVE isAssigned[p] = 0 .. pageSize[p] - 1
  <2>1. available[p] = 0
    <3>1. available[p] \in Nat
      BY PagesArePageNumbers DEF IInv, TypeOK
    <3> QED BY <3>1 DEF FreePages
  <2>2. FreeStack(p) = {}
    BY <2>1 DEF FreeStack
  <2>3. /\ isAssigned[p] \subseteq 0 .. pageSize[p] - 1
        /\ {} = (0 .. pageSize[p] - 1) \ isAssigned[p]
    BY <2>2 DEF IInv, StackMatchesBitmap
  <2> QED BY <2>3
<1>2. AssignedSlots = AllSlots
  BY <1>1, InAssignedSlots, InAllSlots
<1> QED BY <1>2 DEF IInv, Accounting

(* Memory grows only when the objects reach the threshold (bfsmem.cpp:484-501). *)
THEOREM GrowthIsNeeded == Spec => GrowsOnlyAtThreshold
<1> DEFINE A == lastPage' # lastPage => assigned' >= threshold
<1>1. IInv /\ [Next]_vars => [A]_vars
  <2> SUFFICES ASSUME IInv, Next, lastPage' # lastPage
               PROVE  assigned' >= threshold
    OBVIOUS
  <2>0. assigned \in Int /\ threshold \in Nat /\ maxAllowed \in Nat /\ threshold <= maxAllowed
    BY DEF IInv, TypeOK, Accounting
  <2>1. NewInNewPage
    BY DEF Next, New, NewInCurrent, NewInLastDeleted, NewByScan, table, Delete, SetTOLEnd
  <2>2. assigned' = assigned + 1
    BY <2>1 DEF NewInNewPage
  <2>3. CASE ~BelowThreshold
    BY <2>0, <2>2, <2>3 DEF BelowThreshold
  <2>4. CASE MaxAvailPage < 0
    <3>1. FreePages = {}
      BY <2>4, ScanFinds DEF IInv
    <3> QED BY <2>0, <2>2, <3>1, NoRoomMeansFull
  <2> QED BY <2>1, <2>3, <2>4 DEF NewInNewPage
<1> QED BY <1>1, Invariant, PTL DEF Spec, GrowsOnlyAtThreshold

-----------------------------------------------------------------------------
(* A note of an object, over the pool. *)

(* The note is of an address, and of an object the program still has when it   *)
(* has not been deleted since.                                                *)
NoteInv ==
  /\ address = NoAddress \/ address \in PageNumbers \X SlotNumbers
  /\ same => address # NoAddress /\ address \in held

MaiInv == IInv /\ NoteInv

-----------------------------------------------------------------------------

(* The objects of the program are addresses. *)
LEMMA HeldAreAddresses ==
  ASSUME IInv
  PROVE  held \subseteq PageNumbers \X SlotNumbers
<1> SUFFICES ASSUME NEW a \in held PROVE a \in PageNumbers \X SlotNumbers
  OBVIOUS
<1>1. PICK p \in Pages : \E i \in isAssigned[p] : a = <<p, i>>
  BY InAssignedSlots DEF IInv, ObjectsAreAssigned
<1>2. p \in PageNumbers /\ isAssigned[p] \subseteq SlotNumbers
  BY PagesArePageNumbers DEF IInv, TypeOK
<1> QED BY <1>1, <1>2

(* A step of the pool that the program takes keeps the pool's invariant. *)
LEMMA PoolStep ==
  ASSUME IInv, New \/ SetTOLEnd \/ (\E a \in held : Delete(a)) \/ UNCHANGED vars
  PROVE  IInv'
BY NextInv DEF Next

(* An allocation deletes nothing. *)
LEMMA NewKeepsHeld ==
  ASSUME New
  PROVE  held \subseteq held'
BY DEF New, NewInCurrent, NewInLastDeleted, NewByScan, NewInNewPage, AssignFrom

(* SafeDestroy may find another object at the address, but always one the pool *)
(* has assigned: before the end of TOL that is an object of the program.       *)
LEMMA SafeDestroyStep ==
  ASSUME MaiInv, SafeDestroy
  PROVE  MaiInv'
<1>1. address' = NoAddress /\ same' = FALSE
  BY DEF SafeDestroy
<1>2. NoteInv'
  BY <1>1 DEF NoteInv
<1>3. address \in AssignedSlots
  <2>1. address \in PageNumbers \X SlotNumbers
    BY DEF SafeDestroy, MaiIsAssigned, MaiInv, NoteInv
  <2>2. address[1] \in Pages /\ address[2] \in isAssigned[address[1]]
    BY DEF SafeDestroy, MaiIsAssigned, IsAssigned
  <2>3. address = <<address[1], address[2]>>
    BY <2>1
  <2> QED BY <2>2, <2>3, InAssignedSlots
<1>4. CASE UNCHANGED vars
  BY <1>2, <1>4, PoolStep DEF MaiInv
<1>5. CASE Delete(address)
  <2>1. CASE ended
    BY <1>2, <1>5, <2>1, DeleteAfterEnd DEF MaiInv
  <2>2. CASE ~ended
    <3>1. address \in held
      BY <1>3, <2>2 DEF MaiInv, IInv, ObjectsAreAssigned
    <3> QED BY <1>2, <1>5, <3>1, PoolStep DEF MaiInv
  <2> QED BY <2>1, <2>2
<1> QED BY <1>4, <1>5 DEF SafeDestroy, Destroy

LEMMA MaiInitInv == MaiInit => MaiInv
BY InitInv DEF MaiInit, MaiInv, NoteInv

LEMMA MaiNextInv == MaiInv /\ [MaiNext]_allVars => MaiInv'
<1> SUFFICES ASSUME MaiInv, [MaiNext]_allVars PROVE MaiInv'
  OBVIOUS
<1>1. CASE OthersNew
  BY <1>1, PoolStep, NewKeepsHeld DEF OthersNew, MaiInv, NoteInv, maiVars
<1>2. CASE OthersEnd
  BY <1>2, PoolStep DEF OthersEnd, SetTOLEnd, MaiInv, NoteInv, maiVars
<1>3. ASSUME NEW a \in held, OthersDelete(a) PROVE MaiInv'
  <2>1. IInv'
    BY <1>3, PoolStep DEF OthersDelete, MaiInv
  <2>2. held' = held \ {a}
    BY <1>3 DEF OthersDelete, Delete
  <2> QED BY <1>3, <2>1, <2>2 DEF OthersDelete, MaiInv, NoteInv
<1>4. ASSUME NEW a \in held, SetAddress(a) PROVE MaiInv'
  <2>1. IInv' /\ held' = held
    BY <1>4, PoolStep DEF SetAddress, MaiInv, vars
  <2>2. a \in PageNumbers \X SlotNumbers /\ a # NoAddress
    BY HeldAreAddresses, NoAddressAssumption DEF MaiInv
  <2> QED BY <1>4, <2>1, <2>2 DEF SetAddress, MaiInv, NoteInv
<1>5. CASE SafeDestroy
  BY <1>5, SafeDestroyStep
<1>6. CASE UNCHANGED allVars
  BY <1>6, PoolStep DEF allVars, vars, maiVars, MaiInv, NoteInv
<1> QED BY <1>1, <1>2, <1>3, <1>4, <1>5, <1>6 DEF MaiNext

-----------------------------------------------------------------------------

(* The note of an object nobody deleted always answers that it is assigned, for  *)
(* pools of any size: SafeDestroy forgets no reference (tsr.cpp:66, cor.cpp:105). *)
THEOREM LiveIsNeverMissed == MaiSpec => []LiveIsSeenAssigned
<1>1. MaiInv => LiveIsSeenAssigned
  <2> SUFFICES ASSUME MaiInv, same PROVE MaiIsAssigned
    BY DEF LiveIsSeenAssigned
  <2>1. address # NoAddress /\ address \in AssignedSlots
    BY DEF MaiInv, NoteInv, IInv, ObjectsAreAssigned
  <2>2. PICK p \in Pages : \E i \in isAssigned[p] : address = <<p, i>>
    BY <2>1, InAssignedSlots
  <2> QED BY <2>1, <2>2 DEF MaiIsAssigned, IsAssigned
<1> QED BY <1>1, MaiInitInv, MaiNextInv, PTL DEF MaiSpec
=============================================================================
