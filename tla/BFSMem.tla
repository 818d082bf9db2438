------------------------------- MODULE BFSMem -------------------------------
(***************************************************************************)
(* BFixedSizeMemoryHandler (src/tol/bbasic/bfsmem.cpp): the pool that       *)
(* serves operator new / operator delete of every TOL class of one size.    *)
(*                                                                         *)
(* A handler owns a growing table of pages.  A page is an array of slots,   *)
(* a stack of the indices of its free slots and a bitmap of the assigned    *)
(* ones.  Only the first available_ entries of the array avail_ mean        *)
(* anything: the others, which the code never reads before it writes them,  *)
(* are kept at 0 here.  A page that does not exist yet has no slots.        *)
(* An address is a pair <<page, index>>.  The program the pool serves is    *)
(* the environment: "held" is the set of objects it has created and not     *)
(* deleted, and stamp[a] is the page number that operator new wrote into    *)
(* the object (_bfsm_PageNum__) and operator delete reads back.             *)
(*                                                                         *)
(* MaxPages bounds the model: the code grows until the machine is out of    *)
(* memory.  It stays below 2^15 because the page table is indexed and       *)
(* doubled in 16 bits.                                                      *)
(***************************************************************************)
EXTENDS Integers, FiniteSets

CONSTANTS
  InitPageSize,      \* initPageSize_: slots of the first page
  GrowingFactor,     \* growingFactor_
  PageSizeMax,       \* BFSMEM_PAGESIZE_MAX
  InitPageNum,       \* initPageNum_: first length of the page table
  PercentThreshold,  \* percentThreshold_
  MaxPages           \* bound of the model on the number of pages

\* What the constructor's clamps leave of its parameters (bfsmem.cpp:430-444)
ASSUME ParametersAssumption ==
  /\ GrowingFactor \in Nat /\ 1 <= GrowingFactor /\ GrowingFactor <= 10
  /\ PercentThreshold \in Nat /\ 50 <= PercentThreshold /\ PercentThreshold <= 95
  /\ InitPageNum \in Nat /\ 1 <= InitPageNum /\ InitPageNum <= 256
  /\ PageSizeMax \in Nat /\ 1 <= PageSizeMax /\ PageSizeMax <= 65535
  /\ InitPageSize \in Nat /\ 1 <= InitPageSize /\ InitPageSize <= PageSizeMax
  /\ MaxPages \in Nat /\ 1 <= MaxPages /\ MaxPages <= 32767

VARIABLES
  lastPage,     \* number of pages in use
  lastAllocPg,  \* length of the page table
  pageSize,     \* page -> number of slots
  available,    \* page -> number of free slots
  avail,        \* page -> the array whose first entries stack its free slots
  isAssigned,   \* page -> the slots whose bit is set
  pgNm,         \* page where the last object was assigned
  lastDelPgNm,  \* page where the last object was deleted
  assigned,     \* objects assigned along all pages
  threshold,    \* assigned objects from which a new page is preferred
  maxAllowed,   \* slots along all pages
  ended,        \* TOLHasBeenEnded()
  held,         \* the objects the program has
  stamp         \* object the program has -> its _bfsm_PageNum__

table == <<lastPage, lastAllocPg, pageSize, threshold, maxAllowed>>
vars == <<lastPage, lastAllocPg, pageSize, available, avail, isAssigned, pgNm,
          lastDelPgNm, assigned, threshold, maxAllowed, ended, held, stamp>>

\* An integer stored in a BYTE2 (unsigned short)
BYTE2(n) == n % 65536

PageNumbers == 0 .. MaxPages - 1
SlotNumbers == 0 .. PageSizeMax - 1

Pages == 0 .. lastPage - 1
FreePages == {p \in Pages : available[p] > 0}

\* Every slot whose bit is set, along all pages
AssignedSlots == UNION {{<<p, i>> : i \in isAssigned[p]} : p \in Pages}

\* The share of a page that counts for the threshold
ThresholdOf(size) == (size * PercentThreshold) \div 100

-----------------------------------------------------------------------------

(* The constructor: one empty page, all of it available. *)
Init ==
  /\ lastPage = 1
  /\ lastAllocPg = InitPageNum
  /\ pageSize = [p \in PageNumbers |-> IF p = 0 THEN InitPageSize ELSE 0]
  /\ available = pageSize
  /\ avail = [p \in PageNumbers |-> [i \in SlotNumbers |-> IF i < pageSize[p] THEN i ELSE 0]]
  /\ isAssigned = [p \in PageNumbers |-> {}]
  /\ pgNm = 0
  /\ lastDelPgNm = 0
  /\ assigned = 0
  /\ threshold = ThresholdOf(InitPageSize)
  /\ maxAllowed = InitPageSize
  /\ ended = FALSE
  /\ held = {}
  /\ stamp = [a \in {} |-> 0]

(* BPage::New: the slot on top of the stack.  Fault: the slot at its bottom. *)
BottomSlot(p) == avail[p][0]

TopSlot(p) == avail[p][available[p] - 1]

(* PutBitTrue and PutBitFalse on the bitmap of a page.  Fault: no bit is set. *)
PutNoBit(p, i) == UNCHANGED isAssigned

PutBitTrue(p, i) == isAssigned' = [isAssigned EXCEPT ![p] = @ \union {i}]

PutBitFalse(p, i) == isAssigned' = [isAssigned EXCEPT ![p] = @ \ {i}]

(* BPage::Delete: avail_[available_++] = i. *)
Push(p, i) ==
  /\ avail' = [avail EXCEPT ![p][available[p]] = i]
  /\ available' = [available EXCEPT ![p] = @ + 1]

(* The page number operator new writes into an object assigned from page p.    *)
(* Fault: that of the page current before the call.                           *)
StalePageNum(p) == BYTE2(pgNm)

PageNum(p) == BYTE2(p)

(* The end of Handler::New and operator new, once a page with a free slot is   *)
(* known: its top slot is popped and marked, the page becomes the current one, *)
(* and its number is written into the object.                                 *)
AssignFrom(p) ==
  LET slot == <<p, TopSlot(p)>>
      top  == available[p] - 1
  IN  /\ available' = [available EXCEPT ![p] = top]
      /\ avail' = [avail EXCEPT ![p][top] = 0]
      /\ PutBitTrue(p, slot[2])
      /\ pgNm' = p
      /\ assigned' = assigned + 1
      /\ held' = held \union {slot}
      /\ stamp' = [a \in held \union {slot} |->
                     IF a = slot THEN PageNum(p) ELSE stamp[a]]
      /\ UNCHANGED <<lastDelPgNm, ended>>

(* The current page has room. *)
NewInCurrent ==
  /\ available[pgNm] > 0
  /\ AssignFrom(pgNm)
  /\ UNCHANGED table

(* The current page is full; the page of the last deletion has room. *)
NewInLastDeleted ==
  /\ available[pgNm] = 0
  /\ available[lastDelPgNm] > 0
  /\ AssignFrom(lastDelPgNm)
  /\ UNCHANGED table

(* The scan of the pages for the one with most free slots, from the last down,  *)
(* after one page more.  It stops at a page with at least lastPage_ of them.    *)
\* Fault: of two pages with as many the later to be seen is taken.
ScanPageOrEqual(before, p) ==
  IF before.stopped \/ available[p] < before.maxAvail THEN before
  ELSE [maxAvail |-> available[p], maxAvailPage |-> p, stopped |-> available[p] >= lastPage]

ScanPage(before, p) ==
  IF before.stopped \/ available[p] <= before.maxAvail THEN before
  ELSE [maxAvail |-> available[p], maxAvailPage |-> p, stopped |-> available[p] >= lastPage]

ScanStart == [maxAvail |-> 0, maxAvailPage |-> -1, stopped |-> FALSE]

Scan[n \in 0 .. MaxPages] == IF n = 0 THEN ScanStart ELSE ScanPage(Scan[n - 1], lastPage - n)

MaxAvailPage == Scan[lastPage].maxAvailPage

BothCachedPagesFull == available[pgNm] = 0 /\ available[lastDelPgNm] = 0

\* assigned_ has already been incremented when the threshold is tested
BelowThreshold == assigned + 1 < threshold

NewByScan ==
  /\ BothCachedPagesFull
  /\ BelowThreshold
  /\ MaxAvailPage >= 0
  /\ AssignFrom(MaxAvailPage)
  /\ UNCHANGED table

\* Fault: the table is doubled one page late
TableLengthLate == IF lastPage > lastAllocPg THEN BYTE2(2 * lastAllocPg) ELSE lastAllocPg

(* The length of the page table once it has room for one page more. *)
TableLength == IF lastPage = lastAllocPg THEN BYTE2(2 * lastAllocPg) ELSE lastAllocPg

\* Fault: the size of a page is not clamped
NewPageSizeUnclamped == pageSize[lastPage - 1] * GrowingFactor

NewPageSize ==
  LET size == pageSize[lastPage - 1] * GrowingFactor
  IN  IF size >= PageSizeMax THEN PageSizeMax ELSE size

(* No address was found: a page GrowingFactor times the last one is added,    *)
(* after doubling the page table if it is full, and serves the request.       *)
NewInNewPage ==
  LET size == NewPageSize
      n    == lastPage
      slot == <<n, size - 1>>
  IN
  /\ BothCachedPagesFull
  /\ BelowThreshold => MaxAvailPage < 0
  /\ n < MaxPages
  /\ lastAllocPg' = TableLength
  /\ lastPage' = BYTE2(n + 1)
  /\ pageSize' = [pageSize EXCEPT ![n] = size]
  /\ threshold' = threshold + ThresholdOf(size)
  /\ maxAllowed' = maxAllowed + size
  /\ available' = [available EXCEPT ![n] = size - 1]
  /\ avail' = [avail EXCEPT ![n] = [i \in SlotNumbers |-> IF i < size - 1 THEN i ELSE 0]]
  /\ isAssigned' = [isAssigned EXCEPT ![n] = {size - 1}]
  /\ pgNm' = n
  /\ assigned' = assigned + 1
  /\ held' = held \union {slot}
  /\ stamp' = [a \in held \union {slot} |->
                 IF a = slot THEN BYTE2(n) ELSE stamp[a]]
  /\ UNCHANGED <<lastDelPgNm, ended>>

New == NewInCurrent \/ NewInLastDeleted \/ NewByScan \/ NewInNewPage

(* assigned_ after a deletion.  Fault: it is not decremented. *)
NotDecremented == assigned

\* Fault: a deletion is counted by the page and again by the handler
DecrementedTwice == assigned - 2

Decremented == assigned - 1

(* operator delete: the page is the one stamped in the object; its slot goes   *)
(* back on top of that page's stack.  Once TOL has ended nothing is returned   *)
(* to the pool.                                                               *)
Delete(a) ==
  /\ held' = held \ {a}
  /\ stamp' = [b \in held \ {a} |-> stamp[b]]
  /\ IF ended
       THEN UNCHANGED <<available, avail, isAssigned, lastDelPgNm, assigned>>
       ELSE /\ assigned' = Decremented
            /\ lastDelPgNm' = stamp[a]
            /\ PutBitFalse(stamp[a], a[2])
            /\ Push(stamp[a], a[2])
  /\ UNCHANGED <<lastPage, lastAllocPg, pageSize, pgNm, threshold, maxAllowed, ended>>

(* SetTOLEnd and the end of the interpreter's main function. *)
SetTOLEnd ==
  /\ ended' = TRUE
  /\ UNCHANGED <<lastPage, lastAllocPg, pageSize, available, avail, isAssigned, pgNm,
                 lastDelPgNm, assigned, threshold, maxAllowed, held, stamp>>

(* Handler::IsAssigned(obj, pageNum): the bit of the object's slot. *)
IsAssigned(a, pageNum) == pageNum \in Pages /\ a[1] = pageNum /\ a[2] \in isAssigned[pageNum]

Next ==
  \/ New
  \/ \E a \in held : Delete(a)
  \/ SetTOLEnd

Spec == Init /\ [][Next]_vars

-----------------------------------------------------------------------------

(* Types of the handler's members.  Page numbers stay inside the page table   *)
(* and a page's stack holds indices of its own slots.                         *)
TypeOK ==
  /\ lastPage \in Nat /\ 1 <= lastPage /\ lastPage <= MaxPages
  /\ lastAllocPg \in Nat /\ lastAllocPg <= 65535
  /\ pageSize \in [PageNumbers -> Nat]
  /\ \A p \in Pages : 1 <= pageSize[p] /\ pageSize[p] <= PageSizeMax
  /\ available \in [PageNumbers -> Nat]
  /\ avail \in [PageNumbers -> [SlotNumbers -> SlotNumbers]]
  /\ isAssigned \in [PageNumbers -> SUBSET SlotNumbers]
  /\ pgNm \in Pages
  /\ lastDelPgNm \in Pages
  /\ assigned \in Int
  /\ threshold \in Nat
  /\ maxAllowed \in Nat
  /\ ended \in BOOLEAN
  /\ stamp \in [held -> Nat]

(* BPage: the stack and the bitmap agree.  The meaningful part of avail_ lists *)
(* every slot whose bit is clear, once, so a slot is never handed out twice    *)
(* nor leaked, whatever the order of deletions (bfsmem.cpp:330-376).           *)
FreeStack(p) == {avail[p][i] : i \in 0 .. available[p] - 1}

StackMatchesBitmap ==
  \A p \in Pages :
    /\ available[p] <= pageSize[p]
    /\ isAssigned[p] \subseteq 0 .. pageSize[p] - 1
    /\ \A i, j \in 0 .. available[p] - 1 : avail[p][i] = avail[p][j] => i = j
    /\ FreeStack(p) = (0 .. pageSize[p] - 1) \ isAssigned[p]

(* The handler's counters are those of its pages: what ShowStats reports and   *)
(* what New compares with the threshold is the number of bits set, and no      *)
(* counter goes negative (assert of bfsmem.cpp:545).                           *)
CountersMatchPages ==
  /\ assigned = Cardinality(AssignedSlots)
  /\ assigned <= maxAllowed

(* Every object the program has is an assigned slot and carries the number of  *)
(* the page that owns it, so operator delete gives it back where it belongs;   *)
(* until TOL ends nothing else is assigned: the pool leaks no slot.            *)
ObjectsAreAssigned ==
  /\ held \subseteq AssignedSlots
  /\ \A a \in held : stamp[a] = a[1]
  /\ ~ended => AssignedSlots \subseteq held

(* The scan settles on the last page with at least lastPage_ free slots if     *)
(* there is one, and otherwise on the last of the pages with most free slots;  *)
(* it finds none exactly when no page has room (bfsmem.cpp:484-502).           *)
AmplePages == {p \in FreePages : available[p] >= lastPage}

ScanResult ==
  {p \in FreePages :
     IF AmplePages = {}
       THEN \A q \in FreePages : \/ available[q] < available[p]
                                 \/ available[q] = available[p] /\ q <= p
       ELSE p \in AmplePages /\ \A q \in AmplePages : q <= p}

ScanFindsTheFullestPage ==
  IF FreePages = {} THEN MaxAvailPage = -1 ELSE ScanResult = {MaxAvailPage}

(* The page table is never indexed past its end, in spite of its 16 bit        *)
(* length (bfsmem.cpp:503-517).                                                *)
PageTableCovers == lastPage <= lastAllocPg

(* An allocation hands out an address that no live object occupies, and leaves *)
(* every live object where it is.                                              *)
NoDoubleAllocation ==
  [][assigned' > assigned =>
       \E a \in held' \ held : held' = held \union {a}]_vars

(* A page is only added once the objects assigned, the new one included, reach *)
(* the threshold: memory grows only when most of it is in use.                 *)
GrowsOnlyAtThreshold ==
  [][lastPage' # lastPage => assigned' >= threshold]_vars
=============================================================================
