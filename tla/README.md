# A verification project for TOL

TOL (Time Oriented Language) is an interpreter for time series and time sets: a
single threaded C++ kernel (`src/tol`), Tcl shells that embed it (`src/toltcl`,
`src/tolsh`), graphical environments, and a standard library written in TOL.
This directory holds TLA+ modules that model parts of it, TLC configurations
that check them on small instances, and proofs checked by TLAPS.

## Inventory

| Component | State it keeps | Operations | What is hard |
|---|---|---|---|
| Fixed size memory pool, `bbasic/bfsmem.cpp` | per object size: a table of pages; per page a stack of free slots and a bitmap; two cached pages; counters and a threshold | `operator new`, `operator delete` of every class, `IsAssigned` | two representations of the free slots; the page number stamped in objects; 16 bit arithmetic; the decision to grow |
| Notes of objects, `bbasic/cor.cpp` | address and page of an object someone else may delete | `SetAddress`, `IsAssigned`, `SafeDestroy` | stale addresses, slots handed out again |
| Objects and lists, `bbasic/atm.cpp`, `bbasic/lst.cpp` | a count of references per object; lists whose cells refer to objects | `IncNRefs`, `DecNRefs`, `DESTROY`, `SAFE_DESTROY`, `Destroy` of a list | counts kept by hand in every place that holds an object |
| Evaluation, `btol/bgrammar` | calls in progress, the objects they make | constants, variables, blocks, declarations, calls, functions, elements, assignments | objects held without a reference while more is evaluated; calls that fail half way |
| Symbol tables, name blocks, classes, `btol/bgrammar` | nested scopes, members | declare, look up, load a package | order of resolution, objects destroyed while referred to |
| Evaluation stack, `btol/bgrammar/grastk.cpp` | a stack of local variables with a dictionary per name | push, pop, levels | objects released behind its back; variables left by calls that fail |
| Parser, `bparser` | token stream, tree | scan, parse | precedence |
| Dates, `bbasic/dtealgeb.cpp` | a date broken down in year to second | index, hash, weekday, Easter, moves of any unit | cycles of 400, 100, 4 years; carries both ways; the ends of time |
| Time sets, `btol/timeset_type` | per set: its limits, a cache of dates, the range the cache covers | `Contain`, `Successor`, `Predecessor`, `Next`, `Difference`, `GetHashBetween` | a cache built while questions are answered, and a range kept apart from it |
| Other types and built-ins, `btol/*_type`, `bmath` | immutable values | evaluation | numerics |
| Object store, `OIS` | files of serialised objects | create, load | references between objects |
| Package manager, `stdlib/TolPackage` | catalogue, local and remote packages | install, upgrade | versions and dependencies |
| Tequila, `tolsh.vfs/lib/tequila` | the shared elements, a copy of them in every process | attach, set, notices | a synchronous request inside a variable trace; copies that change meanwhile |
| TOL server, `tolcomm/tolserver.tcl` | connections, queue of tasks, handlers waiting | `TOLEVAL`, `TCANCEL`, dispatch, `TFINISH` | nested event loops, stale state |
| TOL slave, `tolcomm/tolslave.tcl` | batch in evaluation | evaluate a batch | batches that arrive inside a trace |
| TOL client, `tolcomm/tolclient.tcl` | pending requests and tasks, timeouts, hosts of a cluster | ask, wait, reconnect, cluster scheduling | timeouts racing answers, lost connections, nested waits |
| Shell, `app-tolsh/tolsh.tcl` | options | launches server, shared and slave processes | start order |
| Hosts and bindings | | Tcl, Java, R, VB bindings and the graphical shells | user interface |
| Vendored code | | `contrib`, `libltdl`, `tai`, sqlite, tcllib | third party |

How they interact: every kernel object lives in the pool of its size; a series
or the `For` built-in keeps a note of an object it does not own and asks the
pool, through the note, before it releases it. The evaluation of a program
makes objects, counts the references to them from variables, arguments, sets and lists, and
pushes its local variables on the stack, which each block and function cuts
back at its end. A time set asks its operands
for dates, and dates move by way of the day index. A TOL server is four kinds of
process: clients talk to the server process over sockets (`TOLEVAL`, `TCANCEL`
one way, `TSTART`, `TFINISH` the other); the server and its slave never talk
directly, they write elements of arrays shared through a Tequila data server,
and variable traces on their copies run the handlers.

What makes each correct: the pool neither loses a slot nor hands it out twice,
and grows only when it must; a note never answers wrongly about a live object;
reference counts are exact, nothing in use is destroyed and nothing is left behind;
a level takes its own variables with it and no others;
a move of a date lands on the day the calendar says; a time set answers as the
set of its dates would, whatever its cache holds;
Tequila answers every wait, and the copies of an element with one writer converge; the server
evaluates each accepted task once, in order, reports it once, to the client
that asked, and no handler waits for ever; a client's two lists of tasks agree
and each wait ends.

## Modules

| Module | Models | Uses |
|---|---|---|
| `BFSMem` | one `BFixedSizeMemoryHandler` and the program that allocates from it | |
| `MemAssignInfo` | one note of an object over the pool | `BFSMem` |
| `BFSMem_proofs` | the inductive invariant of the pool, that of a note over it, and their theorems | `MemAssignInfo` |
| `Evaluation`, `MCEvaluation` | the evaluation of any program in a block: objects, reference counts, the stack of variables | |
| `Evaluation_proofs` | what each operation does to the counts and to the stack, two inductive invariants and their theorems | `Evaluation` |
| `BDate`, `MCBDate` | a date object, its conversions and its moves | |
| `BDate_proofs` | the calendar's lemmas, the invariant of a date and its theorems | `BDate` |
| `TimeSet` | what a time set promises: the abstract specification | |
| `TimeSetCache` | a union, intersection or difference with its cache; implements `TimeSet` | `TimeSet` |
| `TimeSetCounting`, `MCTimeSet` | `Next`, `Prev`, `Difference` and `PeriodsBetween` over it | `TimeSetCache` |
| `TimeSetCache_proofs` | its inductive invariant, and the refinement | `TimeSetCache` |
| `Tequila` | the data server, the processes' copies, requests and notices | |
| `Tequila_proofs` | lemmas about Tequila's actions, shared by the two modules that use it | `Tequila` |
| `TequilaProcesses`, `MCTequila` | Tequila among processes that write whenever their code runs, within the waits of earlier writes too | `Tequila` |
| `TequilaProcesses_proofs` | its inductive invariant and theorems | `TequilaProcesses`, `Tequila_proofs` |
| `TolServer` | server process, slave process and clients over Tequila | `Tequila` |
| `TolServer_proofs` | four layers of invariants and the theorems about the service | `TolServer`, `Tequila_proofs` |
| `TolClient` | one client process, its calls and events, against servers that answer, and may lose connections and tasks | |
| `TolClient_proofs` | the invariants of the client and its theorems | `TolClient` |
| `MCTolClient` | the clusters the runs use | `TolClient` |

### The pool

`lastPage`, `lastAllocPg`, `pgNm`, `lastDelPgNm`, `assigned`, `threshold` and
`maxAllowed` are the members of the handler; `pageSize`, `available`, `avail`
and `isAssigned` those of its pages. An address is a pair of a page and a slot.
`held` is the environment's set of live objects and `stamp` what `operator new`
wrote in them. The four branches of `Handler::New` are four actions
(`NewInCurrent`, `NewInLastDeleted`, `NewByScan`, `NewInNewPage`), each the
whole call down to the stamp. `Delete` is `operator delete`; after
`TOLHasBeenEnded` it returns nothing to the pool, as in the code. The downward
loop that looks for the page with most free slots is the function `Scan` of the
number of pages seen; `ScanFindsTheFullestPage` says in every reachable state
which page it finds.

Deleting an object twice, or one that came from another pool, is not a step of
the environment: C++ programs that do it have no defined meaning.

### Notes of objects

`address` is the note, and `same` a history variable that says whether the
object noted is still the one at that address. `SafeDestroy` leaves an object
that something refers to, as `BAtom::Destroy` does.

### Evaluation

`heap` holds the objects, each with its `nRefs_` and the objects it counts a reference
to (`refs`): the elements of a set, or the `result_` of a variable or
argument; `alias` tells those that show the contents of another object
(`BRenContens`, `BFunArgContens`) from those with contents of their own. `stack` is
that of `BStackManager`; its dictionary is the search for the last entry of
a name. `frames` is the C++ stack: one frame for each `EvaluateTree`, `Evaluate`,
`Evaluator`, `EvElement` and `EvPutValue` in progress, with the locals it needs
afterwards, and `control` is what happens next: a term is to be evaluated under a
grammar, or an object is returned to the innermost frame.

There is no syntax tree. Where the code would look at the tree to see what
kind of term comes next, the model takes any kind the grammar admits (`Term`),
so its behaviours are those of all programs of up to `MaxTerms` compound terms.
Each action is what the code does between two such points: `CreateObject`,
say, is the rest of that function once its right side has been evaluated.
Real and Set stand for the two ways a type makes variables
(`init.cpp:564,636`): a copy, which destroys the object it copies or keeps a
reference to it if others do, and a reference. What a real is worth does not
matter, so an index gives any element of its set.

A destructor releases what its object refers to, which may destroy more objects: this
recursion of the code is `ReleaseNext`, a loop over what is left to release, in the
order of the code. The results of a block's statements are kept in a hash table by
address (`graimp.cpp:689`), so `BlockEnds` goes through them in any order.

Objects that nobody destroys any more are told apart from lost ones by two history
variables, `leaked` and `orphans`, filled where the code gives an object up
(see Known deviations). With `AliasedAssignments = FALSE` a set is only assigned to one
that is `Apart` from it: the value does not refer to the set assigned, no call in progress
uses the elements that the set loses, and no result that a block keeps (and that is no variable)
refers to them. In the first two cases the code destroys what it is about to read, which has no
defined meaning. In the third the result becomes the owner of these elements, and can take what
the block returns away with it; see the known deviations. The third excludes ordinary programs
too: a statement `s[1]` of a block followed by `s := ...`. What the runs say of objects in use and of
lost ones is said of programs whose assignments are `Apart` only.

An index is a number. Two things of `EvElement` are left out: an index that gives
NIL as a `Real` is evaluated once more as a `Text`, with the set still at hand
(`spfuninst.cpp:944-987`), and a third argument is evaluated when there is no such element.
The model ends the call there.

### Dates

`date` is one object; `index` and `clock` are counted beside it, from the leap
year rule alone, and say which day and time it should be at. The object starts
on the first day of any year, is walked to the last, and from each day of
`MoveYears` one other move is made. `DayIndex` and `PutDayIndex` keep the
breakdown in cycles, special cases included; the loops over months are sums.
C++ division and remainder truncate towards zero, and are written `CDiv` and
`CRem` where a negative number can reach them. The fraction of a day in a hash
is a whole number of hundredths of a second, to which the code rounds it.
`GregorianEaster` is the rule with no table, to compare `DteEasterSunday` with.

### Time sets

`set` is the set of dates, which the code never holds: it is what the operands
of the union, intersection or difference determine. `FindSuccessor` and
`FindPredecessor` are what the search through the operands finds, in
closed form; an intersection's search gives up after many steps without a date,
which is not modelled. `tms` is `cache_`, `beginCache_`, `endCache_` and the
count of calls, and `limits` are `Inf()` and `Sup()`: any that hold the dates,
because an operator takes them from its operands without looking for dates.
`limits.prepares` tells the classes whose search prepares the cache first
(intersection, difference) from the union.
`Built` is one `GetHashBetween`, with the dates added on the left and right of
the cache and `PutCache`, which keeps them or not: whether the set has a
name or the search took a millisecond is a free choice (`slow`). Each question
is an action that leaves its answer in `asked`.

`spanned` is a history variable: the range was widened over dates that no
build looked at (see Findings). `TimeSetCache` implements `TimeSet` with
`exact <- ~spanned`: successors, predecessors, jumps and lists of dates are
those of the set, and membership and counts too as long as that has not happened. This is
relative to the operands, which are taken to answer for their own dates: an operand
with a spanned cache does not. `Count` is the algorithm in the comments of the two
counting functions; where the code departs from it, `TimeSet` promises nothing (see
Known deviations).

### Tequila

`store` is the data server's array, `copy` each process's one, `toTequila` and
`fromTequila` the sockets. A write to a copy (`Write`) is the trace
`privTracer`: it sends the request. The wait for its reply is a state of the
process, in which its event loop runs. `TqsRequest` is the
whole handling of one request at the data server: it ignores a value equal to
the one stored, tells the others of a new one, and replies last. Attaching,
views, `Get`, `Unset` and the commit timer are left out: the processes attach
once, when they start.

In `TequilaProcesses` `calls` holds, for each process, the elements whose `tequila::do` is in
progress, the innermost first, and `reply` whether `_reply` holds something. A process writes
from its main loop or from a handler that the innermost wait runs: another
element, whose request empties `_reply` and waits on top (`ProcessWrites`), or an element
whose trace is already active, which Tcl does not fire again (`WritesUnderTrace`): nothing is sent.
A reply ends the innermost wait, whichever request it answers, and when that
handler is over the wait below finds `_reply` filled (`Returns`).

### Server and slave

A task is the number `insert_expr` gives it. The stack of handlers that wait
in a `vwait` is explicit (`stack`), because that is where the code is delicate:
an event handled inside a wait can itself wait, the lower handler goes on only
when the upper one has returned, and Tcl does not fire a trace of a variable
element while one of its traces is running. `DispatchToSlave` is the idle
callback; it waits (`WaitFrame`) if the slave is not ready, and `Resume` is what
comes after the wait, which does not look at the state again. A batch that is
written under an active trace is written silently: nothing is sent.

The slave is a program counter (`slavePc`), with one value per shared write
whose reply it waits for. `tracers` counts how many times `privTracer` is on its
copy of `shared_tasks`: `privCallBack_Set` takes it off before its write and
puts it back after, and a batch that arrives in between finds it off already.
After the write of a batch in that situation, the trace is present twice for
one write and once for the next, which then sends the batch back to the data
server before the slave's own trace runs (`Echoed`).

Clients are the environment: they connect, ask, cancel and disconnect at any
moment. `MaxOutstanding` and `EarlyClients` say what a client may do and
separate the runs where the promises of the server hold from those where they
do not.

### Client

`chanOf`, `hostOf`, `asking` and `chanTasks` are the elements `conn,$host,$port`,
`conn,$chan`, `asking,$chan` and `task,chan,$chan` of the array `data`; `None`
stands for an element that does not exist, where reading it makes a handler
fail. `asking` is a set: identifiers ascend, so the order of the list is that of
the numbers. A channel's name is used again once it is closed.

`ask_server` and `server_wait` wait in a `vwait`, in which the client takes
lines, timeouts and idle callbacks, and `reconnect` and `cluster_launch` make
requests of their own there. `stack` holds the calls in progress as frames:
`ask` (a request and its answer, once there is one), `wait` (the tasks left),
`reconnect` (the tasks left) and `launch` (the expressions and hosts left,
and how many were launched). Only the innermost goes on. `AskReturns` is what
follows the `vwait` of `ask_server`; it fails if the channel was cleared
meanwhile, and takes its caller with it (`Throw`). A `cluster_launch` keeps the
queue it started with (`todo`, the list `foreach` walks) and cuts
`data(cluster,queue)` at the end, by the number launched. Idle callbacks
run when no line can be read, as in Tcl. Users call when no call is in progress.

Of a server there is what the client sees: `PING` and `TOLEVAL` are answered, a
`RECONN` never (`tolserver.tcl:303-305`), a `TCANCEL` has no effect and is no message.
Tasks end in order, and the end is sent to the channel by its name (`tolserver.tcl:505-507`):
when the connection was lost that is nobody, or a later connection of the same client
that got the name, where the task is unknown. A server may also lose a
task it has accepted (`ServerLoses`), which `TolServerLost` shows it does. What can be
lost is bounded: a connection, also while it is opened or written to, and a
task, by `MaxLosses`, and losses and requests of users together by `MaxUsage`. A timeout that is early, before an
answer that does come, is bounded by `MaxEarly`; one whose answer does not come
is not. `strays` is a history variable: the tasks whose end came on a channel that does not
list them, where the handler leaves the list of their own channel alone.
`on_reconnect` is left out, because no server sends it its line, and so
is `close_conn`, which nobody calls. All hosts of the cluster are there from the
start.

## Runs

| Run | Shows |
|---|---|
| `BFSMem` | pages of 2, 3 and 3 slots, with a note of one object: all four branches of `New`, both outcomes of the scan, the doubling of the table and the end of TOL. Types, agreement of stack and bitmap, exact counters, objects on their stamped page, room in the table, the scan, fresh addresses, growth at the threshold; a note of a live object answers that it is assigned. |
| `Evaluation` | programs of four terms, run in an empty block or after `Set s = SetOf(1, 2); Real x = 3;`, with a function of a real and one of any type: reference counts are exact, what is in use is not destroyed, nothing is lost but what the code gives up, the stack holds the levels in progress in order. Assignments to sets are `Apart`. |
| `Tequila` | two processes, an element of one of them and one of both, two values: a process that waits has a request or a reply on its way, however its waits nest, and a single writer's element converges, unless its last write was made in its own wait and not sent. Elements with two writers need not (the run leaves them unconstrained). |
| `TolServer` | four tasks of one client at any time: order, reports, and the match between the server's waits and its requests. |
| `TolServerLive` | three tasks: the queue is drained, evaluated tasks are reported, no handler waits for ever; and every task of a client that asks for one at a time is reported. |
| `TolServerLost` (violation) | two tasks at a time: the second can be lost. |
| `TolClient` | three requests of the user on two hosts, two losses and an early timeout, in any order: each request that waits has its own timeout; the lists of tasks agree but for tasks whose end came on another channel; what is pending is running; `server_wait` comes to wait for a task that has ended only when a second end comes while a call on top keeps it from looking (here a `reconnect`, which does happen). |
| `TolClientLive` | two expressions on a cluster of two hosts with two requests of the user, or with one and one loss: every request ends, also those made in the wait of another; unless something is lost the cluster's queue is emptied and each expression evaluated, once, and a `server_wait` that misses no end returns. |
| `TolClientHang` (violation) | four expressions on a cluster: `server_wait` can miss the end of a task, and wait for ever. |
| `BDate` | every day from 1583 to 2499, and moves of hundredths of a second up to cycles of 400 years from every day of six years: index, ends of time, hash, weekday and order are right, and Easter is, up to 2199. |
| `TimeSet` | every set of five dates, with every pair of limits that holds it, and any sequence of questions: the cache has no holes and covers its range, and the answers are those of the plain set, as far as `TimeSet` promises them. |
| `TimeSetGap` (violation) | the range of a cache comes to hold dates never looked for. |

The bounds: `MaxPages` caps a counter the code leaves to the memory of the
machine; three pages make the table double twice and the scan choose between two pages.
In `Evaluation` four terms are enough for a block inside a function inside a
statement, and, with the two declarations, for terms that meet variables, sets,
their elements and each other's names; the parameters have the names of the
variables. `MaxObjects` is two more than such programs ever have alive, so it
excludes nothing. Programs of five terms pass too, in a dozen times as many states.
`MaxNotices` caps the queues to and from each process; two messages are enough for a
notice to cross a write, and for the reply of one request to end the wait of another. `MaxTasks` is four in `TolServer` because three batches have to
follow each other for the trace of the slave to be off, on and echoing. A channel is
one model value there: with a second one nothing new happens, because the server does
not distinguish channels except to answer. The client does, so its runs have two
channels and two hosts: a name that is used again for the other host is among their
behaviours. Two expressions and two requests of the user are two tasks more than
there are hosts: the cluster's queue has to wait, its rounds run on top of a `server_wait` for the
user's tasks, and such a wait can miss an end without anything being lost. One loss
is enough for a request to fail inside `cluster_launch`. Three requests with two losses let
a channel's name pass from one host to the other, a `reconnect` start in the
wait of another request, and an end come on a later channel of the same name. `MaxUsage`
does not bind in `TolClient`; in `TolClientLive`, whose liveness properties are
costly, it leaves out two requests together with a loss.

The six years of `MoveYears` are the first and the last, and one for each way a
year is leap or not at the end of a cycle; an object moves once, because a second
move starts from a date that the walk reaches too, or from an end of time. Five dates with a
default range of three let a range start, end and lie on either side of the cache and
leave a gap of a date between; jumps go past both ends of the cache.

The runs of `TolServer` and `TolClient` do not check deadlock: after the
requests the bounds allow the users stop, and so does the system; nor do those
of `BDate`, where the walk ends, and `Evaluation`, where the program does.

### Fairness

`TolServer` assumes weak fairness of the data server, the server and the slave,
each as a whole: a Tcl process takes its next event if it has one, sockets
deliver, and the evaluation of an expression ends. Nothing is assumed of the
clients. Within the server, the idle callbacks and the socket events are not
ranked: the model allows both orders, so it has more behaviours than the Tcl
event loop, which runs idle callbacks only when no event is ready.

`TolClient` assumes weak fairness of the lines read, of calls that can go on, of
the idle callbacks and of the servers, and strong fairness of timeouts: a
timer that is due comes before idle callbacks in Tcl, but here a callback may
run first and disable the timeout for a while, which must not go on for ever.
Nothing is assumed of users or of what is lost. That a server ends the tasks it accepts
is not true of every behaviour of `TolServer`; those it loses are `ServerLoses`, and
the liveness properties that need them are stated for behaviours with no loss.

## Proofs

`BFSMem_proofs` proves, for every initial page size, growth factor, clamp,
table length, threshold and number of pages that `ParametersAssumption` admits
(the clamps of the constructor, and fewer than 2^15 pages), that every
invariant and both action properties of the run `BFSMem` hold of `Spec`.

The inductive invariant is the conjunction of the invariants of the run with
one fact more, that pages past `lastPage` are empty: a page that is added must
have no bit set, or the count of assigned objects would jump. The counter
is compared with a cardinality, so the proof needs that the set of assigned
slots is finite and how adding and removing one slot changes its size. One
lemma per action shows that it preserves each part; `NoDoubleAllocation` and
`GrowsOnlyAtThreshold` follow from the invariant in the state before the step.
The table of pages needs a numeric argument: `lastAllocPg` doubles in 16 bits,
and stays above `lastPage` because `lastPage` is below 2^15. The scan is a recursive
function over the pages seen; `ScanInv` says what it knows after each of them (what it
holds is the best of them, or the first with enough), and is proved along the
loop, by counting up, as one would prove the loop of the code.

`TimeSetCache_proofs` proves, for any number of days and any default range
within them, the three invariants of the run `TimeSet` and that `TimeSetCache`
implements `TimeSet` (`Implements`). The inductive invariant says that the cache is
a run of consecutive dates of the set, that its range, once there is one, holds them
(`RangeHoldsDates`), and that dates of the set in the range are in the cache unless
the range was spanned. The first is what makes a successor found in the cache
the successor in the set; the lemmas about `Extended` show that the dates
added on either side leave no seam. Each action then maps to the question of
the abstract specification it is named for, and `ForceCache` to `Build`. The operations of
`TimeSetCounting` walk by recursion, and only the run covers them.

`BDate_proofs` proves everything the run `BDate` checks but `EasterByTheTable`, for
moves of any length from any day of the calendar (`BDateAssumption` asks that the
walks begin at years from 1583 to 2499). The proof has three parts:

1. The calendar. `DayNumber` is the place of a day: the days before its year, by the rule
   of leap years, those of the months before, and the day. Years and months follow
   each other without gaps, so two days never have the same place.
2. The two ways. `DayIndex` counts whole cycles and takes off or adds the rest, and is
   the place of the day (`IndexOfDate`). `PutDayIndex` divides by the cycles in turn,
   and the day it names has that place (`CyclesName`, with one case for each of the days
   the divisions get wrong by themselves: the last two of a cycle of 400 years, the
   end of a leap year, the end of any other). The loops over months and years are
   bounded, so a recursive function over them is proved equal to the list of its values.
3. The moves. One lemma each says where the move lands, `InRange` of the day it should,
   and the invariant `DateInv` that the date is the day counted beside it and, until
   it moves, a midnight that has a value. It is what lets `IncWeek` go on from an
   end of time: the second of its two moves leaves alone a date without a value.

The note of an object is added to that proof. `LiveIsNeverMissed` rests on the
pool's invariant (an object the program has is an assigned slot) and on one fact
about the note: while `same` holds its address is that of a live object. The
only assumption added is that the mark of an empty note is no address.

`TequilaProcesses_proofs` is about any set of processes, elements and values.
That no wait is in vain (`WaitsAreAnswered`) is inductive with the types: a request is served into
a reply, and a reply leaves `reply` set until the next request, so that the waits below
return too. `Converges` is not: it needs in addition that
an element only p writes is never told to p, that p's copy is ahead of the
data server by the requests of p for it that are not served yet, the last of which has p's
value unless a later write was never sent (`Asking`), and that what is on its way to
another process leads its copy to the value stored (`Converging`).

`TolServer_proofs` builds four layers, each proved relative to those before it:

1. `ProtocolInv`: types; one handler on the stack sends at most; a request of
   the server is pending exactly while that handler waits, and none of the
   slave's while its code is in no wait. This gives `ServerWaitsForOne`.
2. `OrderInv`: along the way a task takes (queue, batch being sent, data server, notices,
   slave's queue, evaluated) the numbers ascend, stage before stage, and a batch
   that a silent write or an echo overtakes is older than the one it meets. This
   gives `EvaluatesInOrder`. It is the layer that needs most care: a batch can be at
   several places at once, as a request, as the value stored and as a notice.
3. `FinishInv`: the same for the ends of tasks on their way back, where one shared
   element carries them one at a time. This gives `FinishesInOrder`.
4. `WaitInv` and `DispatchInv`: the notices on their way lead the server's copy of the
   state to the last one the slave wrote, that is "ready" when the slave is idle, a
   handler waits for it only while the copy is something else, and a task in the
   queue has a dispatch to come or in progress. These give `NoHandlerIsLeft`, for any clients, and `NothingIsLeft`,
   which has the hypothesis `EarlyClients = FALSE`: a task asked before the
   slave's first write stays in the queue (see the known deviations).

The constants are any number of tasks, connections and outstanding tasks; `Absent` is
assumed to differ from the values of the elements.

`TolClient_proofs` is about any hosts, channels, cluster and bounds on requests,
losses and late answers:

1. `WaitInv`: types, the shape of the stack of calls, and the timeouts as a
   function of that stack (`timers = Waiters(stack)`). `Throw`, which takes callers
   away, is why the equality must be proved, and not an inclusion.
   `NoneWaitsForEver` follows, lost connections included.
2. `PlaceInv`: a task belongs to one channel, counting the requests sent, the
   evaluations, the lines on their way and the list; and the list of a channel is
   part of the global one but for `strays`. Once something is lost an end may come on another channel, so the
   ends and evaluations are counted (`Told`) only until then: after that what matters is that a
   `TSTART` still comes on the channel that asked. So `PendingListsAgree`.
3. `RunInv`, with no connection or task lost: a pending task is running or its `TFINISH` is
   on a line to an open channel (`PendingRuns`). It has the hypothesis that `None` is
   not itself a list of tasks: `task,chan,$chan` that does not exist and an empty list
   are different things to the code (`tolclient.tcl:376-380`).
4. `AllSee`: what a wait sees does not change by what happens on top of it, and only an
   end can make it miss one. The invariant `MissesNoEnd` holds until then, so the theorem is about the step
   that breaks it: every action but `OnFinishTask` preserves it, and that one breaks it
   only by overwriting `data(vwait,task)` when a wait below has been woken and has not looked
   (`WaitsMissEndsBelow`). No hypothesis on losses, clusters or timeouts is needed.
5. `ClusterInv`, with nothing lost and no answer late: every request that waits will
   be answered; a round's `launch` frame and the queue agree on what is launched and
   what is left; nobody has been asked for what is left (`EachExpressionOnce`).

`Evaluation_proofs` is about any names, user functions, number of objects and number of
terms, and does not need the hypothesis that assignments are apart: counts stay exact and
variables in order also where the code reads a set it has just emptied.

1. Release. `ReleaseNext` takes one entry off a list of references to give back. Along the
   loop the memory is `MemFine`: `nRefs` of each object is the number of references other
   objects have to it, plus a bag (a number for each object) of references from outside.
   The number of references of objects and list together goes down at each
   step, which is why the bound of the loop is enough. The bag is what makes operations
   composable: `Push` adds one to it, `Pop` takes one off, a list that is destroyed all of its own.
2. Counts. `CountInv` says that the memory is fine with the bag of the stack, the
   leaked lists and the lists of the calls in progress (`Uses`). For each action one
   lemma shows which references it moves from one place to another. The loops are followed
   to their end: what takes all variables of a scope off the stack, or lets go all results of a
   block, must find each object with the references the bag says it has. This gives
   `CountedReferences`.
3. Holds. To say what an operation leaves alone, a hold is a set of objects with a bag of their own
   that keeps them alive; objects of the hold have the same members after the operation
   (`Spared`). With the objects of the stack as the hold (`StackHold`), no action but those that
   push or cut the stack changes the level of a variable.
4. Scopes. That levels ascend is not inductive by itself: a block that ends must find the stack as
   long as it was when it began, up to its own variables. `Nests` gives each frame in progress a
   level: that of a block or function is one above the level outside it, it begins on the stack
   no lower than the blocks and functions outside do (those of a function after its first argument),
   and the variables below that have at most the level outside. `LevelsInv` adds that the level of
   variables ascends along the part of the stack that no failed function left
   behind (`Ascends`). This gives `VariablesAscend`.

Only model-checked: `InUseIsAlive` and `NothingIsLost` of the evaluation (the first depends on
which results of a block others still refer to when they are let go, the second on
the absence of cycles of references, which an assignment makes unless it is apart);
`EasterByTheTable`, which compares a table with a rule year by
year and which the run checks for every year the table is written for; the operations
of `TimeSetCounting`; and the liveness properties, since the prover has no rules for
fairness.

## Findings

Three runs expect a violation.

- `TolServerLost`: the server's comment on `on_toleval` (`tolserver.tcl:276-282`)
  promises that waiting expressions are processed when idle. The dispatch waits
  for a write and does not look again, and the batch it then sends meets the slave inside
  the trace of the previous one.
- `TolClientHang`: `tolclient.tol:90` says `Wait` waits until the remote
  execution is complete. It learns of each end through `data(vwait,task)`; while a
  `cluster_launch` on top of it keeps it from returning, a second `TFINISH`
  overwrites the first, and it waits for ever for a task that has ended.

- `TimeSetGap`: `PutCache` asserts that the range of the cache begins after the
  predecessor of its first date (`tms.cpp:178`). A cache forced where the set
  has no dates notes that range (`tms.cpp:330-334`); with the set {1, 2, 3}, forcing it
  from the beginning of time to 1 notes the range 2..1, and the dates from 3
  to 3 then widen it to 2..3, where only 3 was looked for: `Contain` says that 2
  is not in the set.

### Known deviations

Seen in the code while modelling, part of the models, and left without a run of
their own:

- the note of a deleted object answers 1 once its slot has been handed out again
  (`cor.cpp:105`), where `tol_bcore.h:54` says 0 for an object that has been deleted,
  and `SafeDestroy` then destroys the new owner of the slot;
- a set assigned to one that refers to it is emptied before it is copied
  (`set.cpp:237-255`): with `Set t = s`, `s := t` leaves both without elements, `s :=
  s[1]` reads a set already destroyed, and `s := SetOf(s)` makes a set that holds
  itself and is never freed, where `spfuninst.cpp:2492-2499` says that `:=` puts a
  new value to an object;
- a block's results are let go one by one when it ends, and the last one is returned
  (`graimp.cpp:716-723`): if another result is the owner of the last, it can be destroyed with
  that one, depending on their addresses. In `Set q = SetOf(SetOf(1)); SetOf(q[1]);
  { Set y = q[1]; q := SetOf(2); y[1] }` the assignment empties `q`; from then on the set that `y` shows,
  and the number in it, belong to the second result alone, and the inner block, which is the
  last result, returns that number;
- a call with too few arguments leaves the list of those it has undestroyed
  (`oprimp.cpp:1643-1648`), a function of any type that fails leaves its arguments and
  its variables on the stack, where later terms find them (`oprimp.cpp:1999-2018`), and the
  value of a variable that was already defined is not destroyed (`oprimp.cpp:1081`);
- `tequila::do` keeps the reply of any request in one variable (`tequila.tcl:45-69`): a write made
  in the wait of another can return on the first one's reply, before its own is served,
  and a write to an element within the wait of its own trace is never sent
  (`tequila.tcl:110-117`);
- an index is destroyed if its evaluation left more objects than before
  (`spfuninst.cpp:905,1014`): one whose evaluation also freed others stays behind;
- a task keeps the name of the channel it came from (`tolserver.tcl:507`), which Tcl
  gives to a later connection: its `TFINISH` can reach another client, where
  `tolserver.tcl:281-282` says "the corresponding client";
- Easter from 2200 on uses the table of 1900-2199 (`dtealgeb.cpp:958-982`), which is
  wrong in 78 of the 300 years, 2204 the first;
- a date in the middle of a month moves one month back to the first of the month before,
  but one year back to the first of its own year (`dtealgeb.cpp:1229-1273`): a
  negative count means different things;
- a move of time past the end of times leaves an end with a time in it
  (`dtealgeb.cpp:1144-1145`);
- `PeriodsBetween` returns a difference of failed searches when there is no date
  between the two given (`tms.cpp:702-708`), and `Difference` counts one more than
  the algorithm in its comment (`tms.cpp:597-602`) when only the second date is in the set
  (`tms.cpp:664`); `TimeSet` promises nothing of either;
- a task asked before the slave first writes its state makes `dispatch_to_slave`
  fail on an element that does not exist (`tolserver.tcl:583`), and it stays in
  the queue until another `TOLEVAL` comes; the liveness runs of the
  server have `EarlyClients = FALSE` for this reason;
- `on_cancel` fills a list that nothing reads (`tolserver.tcl:347`), so cancelling a
  task does nothing;
- a `TSTART` that comes after the timeout of its request fails before the task is
  noted (`tolclient.tcl:361`): it is evaluated although `Eval` returned
  `TIMEOUT`, and in a cluster it is then given to another host, which is why
  `EvaluatedOnce` excludes late and lost answers;
- `cancel_asking` fails on a request that has been answered but has not returned
  (`tolclient.tcl:529`), and the maps of the lost channel are not cleared: a host
  can be left with a channel to another one;
- a request that fails inside `cluster_launch` leaves `data(cluster,launching)`
  set, and no round starts again; this is why the properties of the cluster
  exclude losses;
- the `TFINISH` of a task whose connection was lost can come on a later channel of the same name
  and client: the task leaves the global list but stays on its own channel's, if it is on another
  one (`tolclient.tcl:451-460`);
- tasks of a lost connection are asked for again with `RECONN`, which no server
  answers, and stay on the global list;
- a host that cannot be connected answers `""`, which `cluster_try_eval1` counts
  as launched (`tolclient.tcl:437`).

## Plan

Done: the pool and its theorems, the notes, dates, time sets with their
refinement and its theorem, the evaluation of blocks and functions, Tequila, the
server and the client, and theorems for the safety properties of all of them, two of
evaluation excepted.

1. The special functions of the evaluation (`If`, `Case`, `PutName`, `Append`),
   lists in parentheses, and binary operators under `Anything`, whose first
   argument is evaluated twice.
2. The search of time sets through their operands, aborted searches included.
3. An abstract specification of the task service (accepted, evaluated,
   reported), and `TolServer` shown to implement it; the client's
   abstraction of a server justified by the same specification.
4. An abstract allocator (a set of live addresses) that `BFSMem` implements, as
   a run and as a theorem.
5. Name blocks and package loading; package installation and upgrade.
6. Theorems for the other two properties of evaluation: references have no cycles when
   assignments are apart, and a result of a block is on the stack or referred to from outside it.

Not planned: the parser, the numerical code, the bindings and user interfaces,
and vendored code: sequential code over large data, or somebody else's.
