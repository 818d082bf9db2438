------------------------------- MODULE Tequila -------------------------------
(***************************************************************************)
(* Tequila (src/tolsh/tolsh.vfs/lib/tequila): arrays shared by processes.   *)
(*                                                                         *)
(* Every process holds a copy of the elements and is attached to all of     *)
(* them.  A write to its copy fires a trace that sends the value to the     *)
(* data server and runs the event loop until the reply comes (tequila::do). *)
(* The data server stores the value, tells it to the other processes, and   *)
(* replies; what it sends to a process arrives in order.                    *)
(*                                                                         *)
(* What the processes do is left to the modules that extend this one: they  *)
(* hold the specifications.  Attaching is not modelled: every process is     *)
(* attached from the start.                                                 *)
(***************************************************************************)
EXTENDS Naturals, Sequences, FiniteSets

CONSTANTS
  Procs,   \* processes attached to the data server
  Keys,    \* elements of the shared arrays
  Absent   \* an element that does not exist

VARIABLES
  store,       \* the data server's elements
  copy,        \* process -> its copy of the elements
  toTequila,   \* process -> requests on their way to the data server
  fromTequila  \* process -> replies and notices on their way to it

tequilaVars == <<store, copy, toTequila, fromTequila>>

\* The message that tells of a write.
SetMessage(k, v) == [op |-> "Set", key |-> k, value |-> v]
ReplyMessage == [op |-> "Reply"]

TequilaInit ==
  /\ store = [k \in Keys |-> Absent]
  /\ copy = [p \in Procs |-> store]
  /\ toTequila = [p \in Procs |-> <<>>]
  /\ fromTequila = [p \in Procs |-> <<>>]

(* tequila::do Set: the request is sent; the reply is a later message. *)
Do(p, k, v) == toTequila' = [toTequila EXCEPT ![p] = Append(@, [key |-> k, value |-> v])]

\* A write to the copy whose trace is disabled
WriteSilently(p, k, v) == copy' = [copy EXCEPT ![p][k] = v]

(* A write to the copy that fires privTracer.  Fault: the trace is missing.    *)
WriteUntraced(p, k, v) == WriteSilently(p, k, v) /\ UNCHANGED toTequila

Write(p, k, v) == WriteSilently(p, k, v) /\ Do(p, k, v)

Replies(p) == {i \in DOMAIN fromTequila[p] : fromTequila[p][i].op = "Reply"}

-----------------------------------------------------------------------------

(* tqsTrace: the processes told of a write by p. *)
Notified(p) == Procs \ {p}

\* Fault: a request that changes nothing is not answered.
TqsRequestOfNews(p) ==
  /\ toTequila[p] # <<>>
  /\ toTequila' = [toTequila EXCEPT ![p] = Tail(@)]
  /\ LET r == Head(toTequila[p])
         Message(q) == IF q = p THEN ReplyMessage ELSE SetMessage(r.key, r.value)
     IN  /\ store' = [store EXCEPT ![r.key] = r.value]
         /\ fromTequila' = IF store[r.key] = r.value THEN fromTequila
                           ELSE [q \in Procs |-> Append(fromTequila[q], Message(q))]
  /\ UNCHANGED copy

(* tqsRequest and TqsSet: a value equal to the stored one is ignored; another *)
(* is stored and sent to the other processes.  The reply comes last.          *)
TqsRequest(p) ==
  /\ toTequila[p] # <<>>
  /\ toTequila' = [toTequila EXCEPT ![p] = Tail(@)]
  /\ LET r == Head(toTequila[p])
         told == IF store[r.key] = r.value THEN {} ELSE Notified(p)
         Notices(q) == (IF q \in told THEN <<SetMessage(r.key, r.value)>> ELSE <<>>)
                       \o (IF q = p THEN <<ReplyMessage>> ELSE <<>>)
     IN  /\ store' = [store EXCEPT ![r.key] = r.value]
         /\ fromTequila' = [q \in Procs |-> fromTequila[q] \o Notices(q)]
  /\ UNCHANGED copy

\* privRequest: a process takes the next message sent to it
NextMessage(p) == Head(fromTequila[p])

Receive(p) ==
  /\ fromTequila[p] # <<>>
  /\ fromTequila' = [fromTequila EXCEPT ![p] = Tail(@)]

(* privCallBack_Set on a copy that already has the value does nothing. *)
IsNews(p, m) == m.op = "Set" /\ copy[p][m.key] # m.value

(* privCallBack_Reply ends the wait; privCallBack_Set writes the copy with    *)
(* privTracer removed, so that the write is not sent back.                    *)
CallBack(p) ==
  /\ Receive(p)
  /\ LET m == NextMessage(p)
     IN  copy' = IF IsNews(p, m) THEN [copy EXCEPT ![p][m.key] = m.value] ELSE copy
  /\ UNCHANGED <<store, toTequila>>
=============================================================================
