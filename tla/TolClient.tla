------------------------------ MODULE TolClient ------------------------------
(***************************************************************************)
(* The TOL client (src/tolsh/tolsh.vfs/lib/tolcomm/tolclient.tcl): requests  *)
(* to TOL servers, each with a timeout; the tasks they start; the wait for   *)
(* their end; and the batches of expressions it deals out to a cluster.      *)
(*                                                                         *)
(* The client is one Tcl process.  A request waits for its answer in the     *)
(* event loop, where lines, timeouts and idle callbacks are handled, and     *)
(* some of these make requests of their own: "stack" holds the calls in      *)
(* progress, the innermost first.  Users call it when no call is in         *)
(* progress.  Of each server only what it answers is modelled (tolserver.tcl; *)
(* see TolServer).                                                         *)
(*                                                                         *)
(* A request is its number, which is also that of the task it starts.       *)
(***************************************************************************)
EXTENDS Naturals, Sequences

CONSTANTS
  Hosts,          \* servers, each a host and port
  Chans,          \* names Tcl gives to client sockets, reused once closed
  None,           \* no channel, no host, no answer: an element that does not exist
  ClusterHosts,   \* data(cluster,hosts)
  MaxAsks,        \* bound of the model on the requests users make themselves
  MaxExprs,       \* bound of the model on the expressions given to the cluster
  MaxLosses,      \* network: connections that are lost or cannot be opened;
                  \* servers: tasks they accept and lose
  MaxUsage,       \* bound of the model on the requests of users and the losses together
  MaxEarly        \* network: timeouts before an answer that does come

ASSUME TolClientAssumption ==
  /\ None \notin Hosts \union Chans \union {"ACKPING", "TASK", "EOC", "TIMEOUT"}
  /\ ClusterHosts \in Seq(Hosts)
  /\ {MaxAsks, MaxExprs, MaxLosses, MaxUsage, MaxEarly} \subseteq Nat

VARIABLES
  opened,     \* channels that are open
  chanOf,     \* host -> data(conn,$host,$port)
  hostOf,     \* channel -> data(conn,$chan)
  asking,     \* channel -> data(asking,$chan), which exists when hostOf[c] does
  chanTasks,  \* channel -> data(task,chan,$chan)
  global,     \* data(task,global)
  counter,    \* data(counter,ask)
  timers,     \* requests that have a data(timeout,id,$idrq)
  lastTask,   \* data(vwait,task)
  queue,      \* data(cluster,queue)
  busy,       \* host -> data(cluster,busy,$host,$port)
  launching,  \* data(cluster,launching)
  stack,      \* the calls in progress
  idle,       \* the callbacks of "after idle"
  requests,   \* channel -> requests on their way to the server
  lines,      \* channel -> lines on their way to the client
  peer,       \* channel -> the server at its other end
  running,    \* tasks accepted by the servers and not finished
  accepted,   \* history: what the servers accepted to evaluate
  strays,     \* history: tasks whose end came on a channel that does not list them
  asks,       \* requests made by users
  exprs,      \* expressions given to the cluster
  losses,     \* connections lost or refused, tasks lost by a server
  early       \* timeouts before their answer

channelVars == <<opened, chanOf, hostOf, asking, chanTasks>>
taskVars == <<global, lastTask, strays>>
clusterVars == <<queue, busy, launching>>
serverVars == <<requests, lines, peer, running, accepted>>
usage == <<asks, exprs, losses, early>>
vars == <<channelVars, taskVars, counter, timers, clusterVars, stack, idle, serverVars, usage>>

Init ==
  /\ opened = {}
  /\ chanOf = [h \in Hosts |-> None]
  /\ hostOf = [c \in Chans |-> None]
  /\ asking = [c \in Chans |-> {}]
  /\ chanTasks = [c \in Chans |-> None]
  /\ global = {}
  /\ counter = 0
  /\ timers = {}
  /\ lastTask = 0
  /\ queue = <<>>
  /\ busy = [h \in Hosts |-> FALSE]
  /\ launching = FALSE
  /\ stack = <<>>
  /\ idle = <<>>
  /\ requests = [c \in Chans |-> <<>>]
  /\ lines = requests
  /\ peer = hostOf
  /\ running = {}
  /\ accepted = {}
  /\ strays = {}
  /\ asks = 0 /\ exprs = 0 /\ losses = 0 /\ early = 0

-----------------------------------------------------------------------------
(* Calls in progress.                                                      *)

AskFrame(id, c) == [kind |-> "ask", id |-> id, chan |-> c, answer |-> None]
WaitFrame(tasks) == [kind |-> "wait", waiting |-> tasks, woken |-> FALSE]
ReconnectFrame(h, tasks) == [kind |-> "reconnect", host |-> h, tasks |-> tasks]
LaunchFrame == [kind |-> "launch", todo |-> queue, hosts |-> ClusterHosts, launched |-> 0]

Waits(frame) ==
  \/ frame.kind = "ask" /\ frame.answer = None
  \/ frame.kind = "wait" /\ ~frame.woken

\* The innermost call, if any, waits: events are taken
InEventLoop == stack # <<>> => Waits(Head(stack))

Innermost(kind) == stack # <<>> /\ Head(stack).kind = kind

\* set data(vwait,ask,$idrq) for some requests.  Fault: only the innermost call
\* gets its answer
AnsweredInnermost(ids, value) ==
  [i \in DOMAIN stack |->
     IF stack[i].kind = "ask" /\ stack[i].id \in ids /\ i = 1
       THEN [stack[i] EXCEPT !.answer = value] ELSE stack[i]]

Answered(ids, value) ==
  [i \in DOMAIN stack |->
     IF stack[i].kind = "ask" /\ stack[i].id \in ids
       THEN [stack[i] EXCEPT !.answer = value] ELSE stack[i]]

\* set data(vwait,task)
Woken == [i \in DOMAIN stack |->
            IF stack[i].kind = "wait" THEN [stack[i] EXCEPT !.woken = TRUE] ELSE stack[i]]

(* cluster_try_eval1: an expression is taken as launched unless its request    *)
(* timed out.                                                                *)
Launched(result) == result # "TIMEOUT"

(* ask_server returns a result to its caller, which only cluster_launch uses. *)
Return(result, callers) ==
  IF callers # <<>> /\ Head(callers).kind = "launch"
    THEN LET f == Head(callers)
         IN  <<IF Launched(result)
                 THEN [f EXCEPT !.todo = Tail(@), !.hosts = ClusterHosts, !.launched = @ + 1]
                 ELSE [f EXCEPT !.hosts = Tail(@)]>> \o Tail(callers)
    ELSE callers

(* ask_server fails, and so do reconnect or cluster_launch if they called it. *)
Throw(callers) ==
  IF callers # <<>> /\ Head(callers).kind \in {"launch", "reconnect"} THEN Tail(callers)
                                                                  ELSE callers

(* The bounds of the model on losses. *)
LossIsPossible == losses < MaxLosses /\ asks + losses < MaxUsage

(* new_id_ask. *)
NewId == counter + 1

(* ask_server up to its vwait.  The channel the host had is used again if there  *)
(* is an open channel of that name, where writing can fail; otherwise a socket  *)
(* is opened, or else the result is empty.                                     *)
Ask(h, tag, e, callers) ==
  LET id == NewId
      Noted(c) ==
        /\ hostOf' = [hostOf EXCEPT ![c] = h]
        /\ counter' = counter + 1
      Send(c) ==
        /\ Noted(c)
        /\ requests' = [requests EXCEPT ![c] = Append(@, [tag |-> tag, id |-> id, expr |-> e])]
        /\ timers' = timers \union {id}
        /\ stack' = <<AskFrame(id, c)>> \o callers
  IN
  /\ \/ /\ chanOf[h] \in opened
        /\ asking' = [asking EXCEPT ![chanOf[h]] = @ \union {id}]
        /\ Send(chanOf[h])
        /\ UNCHANGED <<opened, chanOf, peer, losses>>
     \/ /\ chanOf[h] \in opened
        /\ LossIsPossible
        /\ losses' = losses + 1
        /\ asking' = [asking EXCEPT ![chanOf[h]] = @ \union {id}]
        /\ Noted(chanOf[h])
        /\ stack' = Throw(callers)
        /\ UNCHANGED <<opened, chanOf, requests, timers, peer>>
     \/ /\ chanOf[h] \notin opened
        /\ \E c \in Chans \ opened :
             /\ opened' = opened \union {c}
             /\ chanOf' = [chanOf EXCEPT ![h] = c]
             /\ peer' = [peer EXCEPT ![c] = h]
             /\ asking' = [asking EXCEPT ![c] = {id}]
             /\ Send(c)
        /\ UNCHANGED losses
     \/ /\ chanOf[h] \notin opened
        /\ LossIsPossible
        /\ losses' = losses + 1
        /\ stack' = Return("", callers)
        /\ UNCHANGED <<opened, chanOf, hostOf, asking, counter, timers, requests, peer>>
  /\ UNCHANGED <<chanTasks, taskVars, clusterVars, lines, running, accepted, early>>

(* The vwait of ask_server returns: the request is taken off the list of its   *)
(* channel, which no longer exists once the connection was lost.               *)
AskReturns ==
  /\ Innermost("ask") /\ ~InEventLoop
  /\ LET f == Head(stack)
     IN  IF hostOf[f.chan] = None
           THEN stack' = Throw(Tail(stack)) /\ UNCHANGED asking
           ELSE /\ stack' = Return(f.answer, Tail(stack))
                /\ asking' = [asking EXCEPT ![f.chan] = @ \ {f.id}]
  /\ UNCHANGED <<opened, chanOf, hostOf, chanTasks, taskVars, counter, timers, clusterVars,
                 idle, serverVars, usage>>

-----------------------------------------------------------------------------
(* What users call.                                                        *)

(* server_eval and server_ping *)
UserAsks(h, tag) ==
  /\ stack = <<>>
  /\ asks < MaxAsks /\ asks + losses < MaxUsage
  /\ asks' = asks + 1
  /\ Ask(h, tag, None, <<>>)
  /\ UNCHANGED <<idle, exprs>>

(* The tasks server_wait waits for: those asked for that are still pending.     *)
(* Fault: all that are asked for.                                             *)
AwaitedAll(tasks) == tasks

Awaited(tasks) == tasks \cap global

ServerWait(tasks) ==
  /\ stack = <<>>
  /\ Awaited(tasks) # {}
  /\ stack' = <<WaitFrame(Awaited(tasks))>>
  /\ UNCHANGED <<channelVars, taskVars, counter, timers, clusterVars, idle, serverVars, usage>>

(* Its loop, after a vwait of data(vwait,task). *)
WaitGoesOn ==
  /\ Innermost("wait") /\ ~InEventLoop
  /\ LET left == Head(stack).waiting \ {lastTask}
     IN  stack' = IF left = {} THEN Tail(stack) ELSE <<WaitFrame(left)>> \o Tail(stack)
  /\ UNCHANGED <<channelVars, taskVars, counter, timers, clusterVars, idle, serverVars, usage>>

(* cluster_eval: the expressions are queued and cluster_launch is called. *)
ClusterEval(n) ==
  /\ stack = <<>>
  /\ exprs + n <= MaxExprs
  /\ exprs' = exprs + n
  /\ LET all == queue \o [i \in 1 .. n |-> exprs + i]
     IN  /\ queue' = all
         /\ launching' = TRUE
         /\ stack' = IF launching THEN stack ELSE <<[LaunchFrame EXCEPT !.todo = all]>>
  /\ UNCHANGED <<channelVars, taskVars, counter, timers, busy, idle, serverVars,
                 asks, losses, early>>

-----------------------------------------------------------------------------
(* Callbacks of "after idle", which Tcl runs when there is no line to read.     *)

NoLine == \A c \in opened : lines[c] = <<>>

IdleCallBack ==
  /\ InEventLoop
  /\ NoLine
  /\ idle # <<>>
  /\ idle' = Tail(idle)
  /\ LET callback == Head(idle)
     IN  \/ /\ callback.do = "reconnect"
            /\ stack' = <<ReconnectFrame(callback.host, callback.tasks)>> \o stack
            /\ UNCHANGED launching
         \/ /\ callback.do = "launch"
            /\ launching' = TRUE
            /\ stack' = IF launching THEN stack ELSE <<LaunchFrame>> \o stack
  /\ UNCHANGED <<channelVars, taskVars, counter, timers, queue, busy, serverVars, usage>>

(* reconnect: the tasks still waited for are asked again, one by one. *)
Reconnect ==
  /\ Innermost("reconnect")
  /\ LET f == Head(stack)
     IN  \/ /\ f.tasks = {}
            /\ stack' = Tail(stack)
            /\ UNCHANGED <<channelVars, taskVars, counter, timers, clusterVars, serverVars, losses, early>>
         \/ \E t \in f.tasks :
              LET rest == <<[f EXCEPT !.tasks = @ \ {t}]>> \o Tail(stack)
              IN  \/ t \in global /\ Ask(f.host, "RECONN", None, rest)
                  \/ /\ t \notin global
                     /\ stack' = rest
                     /\ UNCHANGED <<channelVars, taskVars, counter, timers, clusterVars,
                                    serverVars, losses, early>>
  /\ UNCHANGED <<idle, asks, exprs>>

\* after idle ::tolclient::cluster_launch
LaunchLater(left) == IF left = <<>> THEN idle ELSE Append(idle, [do |-> "launch"])

(* The expressions not launched, at the end of a round.  Faults: one too few,    *)
(* and one too many.                                                          *)
UnlaunchedButOne(f) == SubSeq(queue, f.launched + 2, Len(queue))

UnlaunchedAndOne(f) == SubSeq(queue, IF f.launched = 0 THEN 1 ELSE f.launched, Len(queue))

Unlaunched(f) == SubSeq(queue, f.launched + 1, Len(queue))

(* cluster_launch: each expression is given to the first host that is not busy; *)
(* the first one that no host takes ends the round, and what is left is for     *)
(* the next.                                                                  *)
ClusterLaunch ==
  /\ Innermost("launch")
  /\ LET f == Head(stack)
         done == f.todo = <<>> \/ f.hosts = <<>>
         left == Unlaunched(f)
     IN  \/ /\ done
            /\ queue' = left
            /\ idle' = LaunchLater(left)
            /\ launching' = FALSE
            /\ stack' = Tail(stack)
            /\ UNCHANGED <<channelVars, taskVars, counter, timers, busy, serverVars, losses, early>>
         \/ /\ ~done
            /\ busy[Head(f.hosts)]
            /\ stack' = <<[f EXCEPT !.hosts = Tail(@)]>> \o Tail(stack)
            /\ UNCHANGED <<channelVars, taskVars, counter, timers, clusterVars, idle, serverVars,
                           losses, early>>
         \/ /\ ~done
            /\ ~busy[Head(f.hosts)]
            /\ Ask(Head(f.hosts), "TOLEVAL", Head(f.todo), stack)
            /\ UNCHANGED idle
  /\ UNCHANGED <<asks, exprs>>

-----------------------------------------------------------------------------
(* Events.                                                                 *)

\* gets on a channel with a line
Read(c, tag) ==
  /\ InEventLoop
  /\ c \in opened
  /\ lines[c] # <<>>
  /\ Head(lines[c]).tag = tag
  /\ lines' = [lines EXCEPT ![c] = Tail(@)]
  /\ UNCHANGED <<opened, chanOf, hostOf, asking, counter, requests, peer, running, accepted, usage>>

(* on_ackping: it fails if the request has no timeout any more. *)
OnAckPing(c) ==
  /\ Read(c, "ACKPING")
  /\ LET id == Head(lines[c]).id
     IN  IF id \in timers
           THEN timers' = timers \ {id} /\ stack' = Answered({id}, "ACKPING")
           ELSE UNCHANGED <<timers, stack>>
  /\ UNCHANGED <<chanTasks, taskVars, clusterVars, idle>>

\* lappend to an element that may not exist
Lappend(list, t) == IF list = None THEN {t} ELSE list \union {t}

(* on_start_task: it fails, before the task is noted, if the request has no     *)
(* timeout any more.                                                          *)
OnStartTask(c) ==
  /\ Read(c, "TSTART")
  /\ LET id == Head(lines[c]).id
     IN  IF id \in timers
           THEN /\ timers' = timers \ {id}
                /\ global' = global \union {id}
                /\ chanTasks' = [chanTasks EXCEPT ![c] = Lappend(@, id)]
                /\ busy' = [busy EXCEPT ![hostOf[c]] = TRUE]
                /\ stack' = Answered({id}, "TASK")
           ELSE UNCHANGED <<timers, global, chanTasks, busy, stack>>
  /\ UNCHANGED <<lastTask, strays, queue, launching, idle>>

(* The lists once a task has finished.  Faults: it stays on either of them.     *)
StillOnChannel(c, t) == chanTasks

OffChannel(c, t) == [chanTasks EXCEPT ![c] = @ \ {t}]

StillPending(t) == global

OffPending(t) == global \ {t}

(* cluster_host_finish: the host is free.  Fault: it stays busy.                *)
StaysBusy == TRUE

BusyAfterFinish == FALSE

(* on_finish_task: it fails on a channel where no task started; a task unknown  *)
(* on its channel is logged, and otherwise treated the same.                   *)
OnFinishTask(c) ==
  /\ Read(c, "TFINISH")
  /\ LET t == Head(lines[c]).id
     IN  IF chanTasks[c] = None
           THEN UNCHANGED <<chanTasks, taskVars, busy, idle, stack>>
           ELSE /\ chanTasks' = OffChannel(c, t)
                /\ global' = OffPending(t)
                /\ busy' = [busy EXCEPT ![hostOf[c]] = BusyAfterFinish]
                /\ idle' = LaunchLater(queue)
                /\ lastTask' = t
                /\ strays' = IF t \in chanTasks[c] THEN strays ELSE strays \union {t}
                /\ stack' = Woken
  /\ UNCHANGED <<timers, queue, launching>>

\* The requests of a channel cancel_asking reaches: it fails at the first one
\* that has no timeout any more
Cancelled(c) == {id \in asking[c] : \A k \in asking[c] : k <= id => k \in timers}

(* on_eof_channel: the channel is closed, whatever was on its way; the requests *)
(* asking on it are answered EOC, and if that goes well the pending tasks are   *)
(* left for reconnect and all that is known of the channel is cleared.         *)
OnEofChannel(c) ==
  /\ InEventLoop
  /\ c \in opened
  /\ LossIsPossible
  /\ losses' = losses + 1
  /\ opened' = opened \ {c}
  /\ requests' = [requests EXCEPT ![c] = <<>>]
  /\ lines' = [lines EXCEPT ![c] = <<>>]
  /\ running' = {[r EXCEPT !.chan = IF @ = c THEN None ELSE @] : r \in running}
  /\ timers' = timers \ Cancelled(c)
  /\ stack' = Answered(Cancelled(c), "EOC")
  /\ IF Cancelled(c) = asking[c]
       THEN /\ idle' = IF chanTasks[c] \in {None, {}} THEN idle
                       ELSE Append(idle, [do |-> "reconnect", host |-> hostOf[c],
                                          tasks |-> chanTasks[c]])
            /\ chanOf' = [chanOf EXCEPT ![hostOf[c]] = None]
            /\ hostOf' = [hostOf EXCEPT ![c] = None]
            /\ asking' = [asking EXCEPT ![c] = {}]
            /\ chanTasks' = [chanTasks EXCEPT ![c] = None]
       ELSE UNCHANGED <<idle, chanOf, hostOf, asking, chanTasks>>
  /\ UNCHANGED <<taskVars, counter, clusterVars, peer, accepted, asks, exprs, early>>

\* An answer to a request is on its way or still to be made
AnswerComes(id) ==
  \E c \in opened :
    \/ \E i \in DOMAIN requests[c] : requests[c][i].id = id /\ requests[c][i].tag # "RECONN"
    \/ \E i \in DOMAIN lines[c] : lines[c][i].id = id

(* on_timeout: the server is sent a TCANCEL, which it ignores. *)
OnTimeout(id) ==
  /\ InEventLoop
  /\ id \in timers
  /\ AnswerComes(id) => early < MaxEarly
  /\ early' = IF AnswerComes(id) THEN early + 1 ELSE early
  /\ timers' = timers \ {id}
  /\ stack' = Answered({id}, "TIMEOUT")
  /\ UNCHANGED <<channelVars, taskVars, counter, clusterVars, idle, serverVars, asks, exprs, losses>>

-----------------------------------------------------------------------------
(* The servers: PING and TOLEVAL are answered at once, RECONN never           *)
(* (tolserver.tcl:303-305); a server ends the tasks in order, and tells the    *)
(* channel they came from by its name.                                        *)

ServerAnswers(c) ==
  /\ requests[c] # <<>>
  /\ requests' = [requests EXCEPT ![c] = Tail(@)]
  /\ LET r == Head(requests[c])
     IN  \/ /\ r.tag = "PING"
            /\ lines' = [lines EXCEPT ![c] = Append(@, [tag |-> "ACKPING", id |-> r.id])]
            /\ UNCHANGED <<running, accepted>>
         \/ /\ r.tag = "TOLEVAL"
            /\ lines' = [lines EXCEPT ![c] = Append(@, [tag |-> "TSTART", id |-> r.id])]
            /\ running' = running \union {[id |-> r.id, host |-> peer[c], chan |-> c]}
            /\ accepted' = accepted \union {[id |-> r.id, expr |-> r.expr]}
         \/ r.tag = "RECONN" /\ UNCHANGED <<lines, running, accepted>>
  /\ UNCHANGED <<peer, channelVars, taskVars, counter, timers, clusterVars, stack, idle, usage>>

(* The end is sent on the channel of that name (tolserver.tcl:505-507): once the *)
(* connection is lost that is none, or a later connection of the same client.  *)
ServerFinishes(r) ==
  LET Tell(c) == lines' = [lines EXCEPT ![c] = Append(@, [tag |-> "TFINISH", id |-> r.id])]
  IN
  /\ \A q \in running : q.host = r.host => r.id <= q.id
  /\ running' = running \ {r}
  /\ \/ r.chan # None /\ Tell(r.chan)
     \/ r.chan = None /\ UNCHANGED lines
     \/ r.chan = None /\ \E c \in opened : peer[c] = r.host /\ Tell(c)
  /\ UNCHANGED <<channelVars, taskVars, counter, timers, clusterVars, stack, idle,
                 requests, peer, accepted, usage>>

(* A task the server has accepted can be lost in it (tolserver.tcl:583-615; see  *)
(* the run TolServerLost).                                                    *)
ServerLoses(r) ==
  /\ LossIsPossible
  /\ losses' = losses + 1
  /\ running' = running \ {r}
  /\ UNCHANGED <<channelVars, taskVars, counter, timers, clusterVars, stack, idle,
                 requests, lines, peer, accepted, asks, exprs, early>>

-----------------------------------------------------------------------------

Users ==
  \/ \E h \in Hosts, tag \in {"PING", "TOLEVAL"} : UserAsks(h, tag)
  \/ \E tasks \in SUBSET (1 .. counter) : ServerWait(tasks)
  \/ \E n \in 1 .. MaxExprs : ClusterEval(n)

Reads == \E c \in Chans : OnAckPing(c) \/ OnStartTask(c) \/ OnFinishTask(c)

Calls == AskReturns \/ WaitGoesOn \/ Reconnect \/ ClusterLaunch

Timeouts == \E id \in timers : OnTimeout(id)

Servers == (\E c \in Chans : ServerAnswers(c)) \/ (\E r \in running : ServerFinishes(r))

Next == Users \/ Reads \/ Calls \/ IdleCallBack \/ Timeouts \/ Servers
        \/ (\E c \in Chans : OnEofChannel(c)) \/ (\E r \in running : ServerLoses(r))

(* The client takes the next event or goes on with the innermost call; servers  *)
(* answer, and evaluations end, those that are not lost.  A due timeout is not   *)
(* put off for ever by idle callbacks, which come last in Tcl.                   *)
Fairness ==
  /\ WF_vars(Reads) /\ WF_vars(Calls) /\ WF_vars(IdleCallBack) /\ WF_vars(Servers)
  /\ SF_vars(Timeouts)

Spec == Init /\ [][Next]_vars /\ Fairness

-----------------------------------------------------------------------------

(* Every request that waits for its answer has a timeout, and every timeout     *)
(* belongs to a request that waits: in spite of answers, timeouts and lost      *)
(* connections that race each other no ask_server waits for ever, nor does a    *)
(* timeout end the wait of another (tolclient.tcl:357-374, 477-533, 615-663).   *)
WaitersHaveTimeouts ==
  timers = {stack[i].id : i \in {j \in DOMAIN stack : stack[j].kind = "ask"
                                                      /\ stack[j].answer = None}}

(* The two lists of pending tasks agree: a task is on one channel's list at     *)
(* most, and then on the global list, unless its end came on another channel     *)
(* than its own (tolclient.tcl:376-380, 437-460, 505-513).                        *)
ListsAgree ==
  \A c \in Chans :
    chanTasks[c] # None =>
      /\ chanTasks[c] \subseteq global \union strays
      /\ \A d \in Chans \ {c} : chanTasks[d] # None => chanTasks[c] \cap chanTasks[d] = {}

(* As long as no connection and no task is lost a task on the list is one that a *)
(* server evaluates or has just finished, whatever timeouts do.                 *)
PendingIsRunning ==
  losses = 0 =>
    \A t \in global :
      \/ \E r \in running : r.id = t
      \/ \E c \in opened : \E i \in DOMAIN lines[c] : lines[c][i] = [tag |-> "TFINISH", id |-> t]

(* Each ask_server returns or fails, however calls pile up on it: again and      *)
(* again none is in progress (tolclient.tcl:615-656).                           *)
AskEnds == []<>(\A i \in DOMAIN stack : stack[i].kind # "ask")

(* "Espera hasta que se complete la ejecucion remota" (tolclient.tol): a wait    *)
(* ends once the tasks have ended.                                             *)
WaitEnds == (\E i \in DOMAIN stack : stack[i].kind = "wait") ~> (stack = <<>>)

(* A wait that has missed no end: the tasks it still waits for are pending, but   *)
(* for the one that has just woken it.                                          *)
MissesNoEnd ==
  \A i \in DOMAIN stack :
    stack[i].kind = "wait" =>
      stack[i].waiting \subseteq global \union (IF stack[i].woken THEN {lastTask} ELSE {})

(* A wait misses an end in one way only: another call on top of it keeps it from  *)
(* looking at data(vwait,task), and a second end overwrites the one it waits for  *)
(* (tolclient.tcl:464-467, 770-789).                                             *)
EndsAreMissedBelow ==
  [][MissesNoEnd /\ ~MissesNoEnd' =>
       \E i \in DOMAIN stack \ {1} :
         /\ stack[i].kind = "wait" /\ stack[i].woken
         /\ lastTask \in stack[i].waiting /\ lastTask' # lastTask]_vars

(* A wait that misses no end ends, unless a connection or a task is lost, with     *)
(* rounds of the cluster and their timeouts on top of it (tolclient.tcl:735-743,  *)
(* 764-789).                                                                   *)
WaitEndsUnlessMissed == [](losses = 0 /\ MissesNoEnd) => WaitEnds

(* Unless a connection or a task is lost, the queue of the cluster is emptied as  *)
(* often as it is filled (tolclient.tcl:728-748).                               *)
ClusterDrains == [](losses = 0) => ((queue # <<>>) ~> (queue = <<>>))

(* Unless a connection or a task is lost, some server accepts each expression     *)
(* given to the cluster: emptying the queue drops none (tolclient.tcl:728-748).     *)
ClusterAccepts ==
  [](losses = 0) =>
    \A e \in 1 .. MaxExprs : (e <= exprs) ~> (\E a \in accepted : a.expr = e)

(* No expression of the cluster is evaluated twice, unless the answer of the     *)
(* server that has accepted it is lost or late (tolclient.tcl:735-743).           *)
EvaluatedOnce ==
  losses + early = 0 =>
    \A a, b \in accepted : a.expr = b.expr /\ a.expr # None => a.id = b.id
=============================================================================
