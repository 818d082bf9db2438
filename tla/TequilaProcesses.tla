-------------------------- MODULE TequilaProcesses --------------------------
(***************************************************************************)
(* Tequila by itself, among processes that write any value of the elements   *)
(* they may write whenever their code runs: from their event loop, and from  *)
(* a handler that the wait of an earlier write runs (tequila::do).           *)
(***************************************************************************)
EXTENDS Tequila

CONSTANTS
  Values,      \* values written
  Writers,     \* element -> processes that write it
  MaxNotices   \* bound of the model on the messages queued to and from a process

ASSUME TequilaAssumption ==
  /\ Absent \notin Values
  /\ Writers \in [Keys -> SUBSET Procs]
  /\ MaxNotices \in Nat

VARIABLES
  calls,   \* process -> elements whose tequila::do has not returned, innermost first
  reply,   \* process -> is tequila::_reply not empty
  unsent   \* history: <<process, element>> whose last write was not sent

vars == <<tequilaVars, calls, reply, unsent>>

Messages == {ReplyMessage} \union [op : {"Set"}, key : Keys, value : Values]

\* The trace of the element is active: Tcl does not fire it again.
Tracing(p, k) == \E i \in DOMAIN calls[p] : calls[p][i] = k

\* The innermost tequila::do has found no reply yet
Waiting(p) == calls[p] # <<>> /\ ~reply[p]

\* Handlers run: in the main loop, and in the innermost wait
InEventLoop(p) == calls[p] = <<>> \/ Waiting(p)

-----------------------------------------------------------------------------

ProcessesInit ==
  /\ TequilaInit
  /\ calls = [p \in Procs |-> <<>>]
  /\ reply = [p \in Procs |-> FALSE]
  /\ unsent = {}

(* tequila::do empties _reply, sends the request and waits inside the trace.  *)
ProcessWrites(p, k, v) ==
  /\ p \in Writers[k] /\ ~Tracing(p, k)
  /\ Len(toTequila[p]) < MaxNotices
  /\ \A q \in Procs : Len(fromTequila[q]) < MaxNotices
  /\ Write(p, k, v)
  /\ calls' = [calls EXCEPT ![p] = <<k>> \o @]
  /\ reply' = [reply EXCEPT ![p] = FALSE]
  /\ unsent' = unsent \ {<<p, k>>}
  /\ UNCHANGED <<store, fromTequila>>

(* The element is written from within the wait of its own trace. *)
WritesUnderTrace(p, k, v) ==
  /\ p \in Writers[k] /\ Tracing(p, k)
  /\ WriteSilently(p, k, v)
  /\ unsent' = unsent \union {<<p, k>>}
  /\ UNCHANGED <<store, toTequila, fromTequila, calls, reply>>

(* A reply ends the innermost wait, whichever request it answers. *)
TakesReply(p) ==
  /\ fromTequila[p] # <<>> /\ NextMessage(p).op = "Reply"
  /\ reply' = [reply EXCEPT ![p] = TRUE]
  /\ calls' = [calls EXCEPT ![p] = IF @ = <<>> THEN @ ELSE Tail(@)]

TakesNotice(p) ==
  /\ fromTequila[p] # <<>> /\ NextMessage(p).op # "Reply"
  /\ UNCHANGED <<calls, reply>>

(* privRequest, called from the event loop. *)
Takes(p) ==
  /\ InEventLoop(p)
  /\ TakesReply(p) \/ TakesNotice(p)
  /\ CallBack(p)
  /\ UNCHANGED unsent

(* The handler is over: the tequila::do it was run by looks at _reply, which a  *)
(* call within the handler has left there.                                    *)
Returns(p) ==
  /\ calls[p] # <<>> /\ reply[p]
  /\ calls' = [calls EXCEPT ![p] = Tail(@)]
  /\ UNCHANGED <<tequilaVars, reply, unsent>>

Serves(p) == TqsRequest(p) /\ UNCHANGED <<calls, reply, unsent>>

TequilaNext ==
  \E p \in Procs :
    \/ \E k \in Keys, v \in Values : ProcessWrites(p, k, v) \/ WritesUnderTrace(p, k, v)
    \/ Serves(p)
    \/ Takes(p)
    \/ Returns(p)

TequilaSpec == ProcessesInit /\ [][TequilaNext]_vars

-----------------------------------------------------------------------------

(* No wait is in vain: while a process waits in tequila::do a request of its    *)
(* own is to be served or a reply is on its way to it, although the waits of    *)
(* its handlers share one variable, which each of them empties, and end by      *)
(* each other's replies (tequila.tcl:45-69).                                  *)
NoWaitInVain ==
  \A p \in Procs : Waiting(p) => toTequila[p] # <<>> \/ Replies(p) # {}

(* An element only one process writes converges: what is on its way to another  *)
(* process, applied to its copy, gives the data server's value, and the writer's *)
(* last request gives the writer's value, unless the last write was made within  *)
(* the wait of an earlier one and never sent (tequila.tcl:110-128).           *)
Latest(S) == CHOOSE i \in S : \A j \in S : j <= i

Pending(q, k) ==
  {i \in DOMAIN fromTequila[q] : fromTequila[q][i].op = "Set" /\ fromTequila[q][i].key = k}

Settled(q, k) ==
  IF Pending(q, k) = {} THEN copy[q][k] ELSE fromTequila[q][Latest(Pending(q, k))].value

Asked(p, k) == {i \in DOMAIN toTequila[p] : toTequila[p][i].key = k}

Requested(p, k) ==
  IF Asked(p, k) = {} THEN store[k] ELSE toTequila[p][Latest(Asked(p, k))].value

SingleWriterConverges ==
  \A k \in Keys : \A p \in Procs :
    Writers[k] = {p} =>
      /\ \A q \in Procs \ {p} : Settled(q, k) = store[k]
      /\ <<p, k>> \notin unsent => copy[p][k] = Requested(p, k)
=============================================================================
