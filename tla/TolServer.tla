------------------------------ MODULE TolServer ------------------------------
(***************************************************************************)
(* The TOL server (src/tolsh/tolsh.vfs/lib/tolcomm): the server process      *)
(* (tolserver.tcl) queues the expressions its clients ask to evaluate, the   *)
(* slave process (tolslave.tcl) evaluates them, and both share three         *)
(* elements through Tequila:                                                *)
(*   "request" shared_tasks(request), a batch of tasks, server to slave;     *)
(*   "state"   shared_state(slave), busy or ready, slave to server;          *)
(*   "finish"  shared_finish(tasks), the task evaluated, slave to server.    *)
(*                                                                         *)
(* Both are single threaded Tcl programs: one event at a time, but a handler  *)
(* that waits (vwait) runs other handlers on top of it and resumes only once  *)
(* they have returned.  "stack" is the server's stack of waiting handlers,    *)
(* its head the one on top.  A task is its number, the counter insert_expr    *)
(* ends the task's name with.                                                *)
(***************************************************************************)
EXTENDS Tequila, SequencesExt

CONSTANTS
  Chans,           \* names Tcl gives to client sockets, reused once closed
  MaxTasks,        \* bound of the model on the tasks accepted
  MaxConnections,  \* bound of the model on the connections accepted
  MaxOutstanding,  \* clients: tasks accepted that wait for their TFINISH
  EarlyClients     \* clients: they may ask before the slave is ready

ASSUME TolServerAssumption ==
  /\ Procs = {"server", "slave"}
  /\ Keys = {"request", "state", "finish"}
  /\ Absent \notin {"ready", "busy"} /\ Absent \notin Nat /\ Absent \notin Seq(Nat)
  /\ {MaxTasks, MaxConnections, MaxOutstanding} \subseteq Nat
  /\ EarlyClients \in BOOLEAN

VARIABLES
  queueTasks,    \* server: data(queue,tasks)
  queueCancel,   \* server: data(queue,cancel)
  lastId,        \* server: data(queue,id)
  idle,          \* server: the callbacks of "after idle"
  stack,         \* server: handlers waiting in a vwait
  connection,    \* server: channel -> number of the connection on it, 0 if closed
  connections,   \* connections accepted so far
  origin,        \* task -> channel and connection that asked for it
  slavePc,       \* slave: where its code is
  slaveQueue,    \* slave: the tasks left of the batch it processes
  tracers,       \* slave: times privTracer is on shared_tasks
  evaluated,     \* history: the tasks evaluated, in order
  finishes       \* history: the TFINISH sent, with the connection they reached

serverVars == <<queueTasks, queueCancel, lastId, idle, stack, connection, connections, origin>>
slaveVars == <<slavePc, slaveQueue, tracers, evaluated>>
vars == <<tequilaVars, serverVars, slaveVars, finishes>>

(* Both processes are attached and the server has started; the slave is still *)
(* evaluating the expressions of its command line.                            *)
Init ==
  /\ TequilaInit
  /\ queueTasks = <<>>
  /\ queueCancel = {}
  /\ lastId = 0
  /\ idle = <<>>
  /\ stack = <<>>
  /\ connection = [c \in Chans |-> 0]
  /\ connections = 0
  /\ origin = <<>>
  /\ slavePc = "loading"
  /\ slaveQueue = <<>>
  /\ tracers = 1
  /\ evaluated = <<>>
  /\ finishes = <<>>

-----------------------------------------------------------------------------
(* The server.                                                             *)

WaitFrame == [kind |-> "wait", woken |-> FALSE]
SendFrame == [kind |-> "send", woken |-> FALSE]

\* The handler on top, if any, is waiting: the server takes events
InEventLoop == stack # <<>> => ~Head(stack).woken

\* Fault: the trace fires whenever the element is written
TraceNeverActive(frames) == FALSE

\* Tcl disables the traces of shared_tasks(request) while one of them runs
TraceActive(frames) == \E i \in DOMAIN frames : frames[i].kind = "send"

\* The end of a vwait, for every handler waiting for that variable
Wake(kind) ==
  [i \in DOMAIN stack |-> IF stack[i].kind = kind THEN [stack[i] EXCEPT !.woken = TRUE]
                                                  ELSE stack[i]]

(* after idle.  Fault: a callback is scheduled only if there is none.            *)
AfterIdleOnce(callback) == IF idle = <<>> THEN <<callback>> ELSE idle

AfterIdle(callback) == Append(idle, callback)

SlaveState == copy["server"]["state"]

Outstanding == {t \in 1 .. lastId : \A i \in DOMAIN finishes : finishes[i].task # t}

(* register_client *)
Connect(c) ==
  /\ InEventLoop
  /\ connection[c] = 0
  /\ connections < MaxConnections
  /\ connections' = connections + 1
  /\ connection' = [connection EXCEPT ![c] = connections + 1]
  /\ UNCHANGED <<tequilaVars, queueTasks, queueCancel, lastId, idle, stack, origin,
                 slaveVars, finishes>>

(* on_eof_channel: the channel is closed; the client's tasks stay queued. *)
OnEofChannel(c) ==
  /\ InEventLoop
  /\ connection[c] # 0
  /\ connection' = [connection EXCEPT ![c] = 0]
  /\ UNCHANGED <<tequilaVars, queueTasks, queueCancel, lastId, idle, stack, connections,
                 origin, slaveVars, finishes>>

(* on_toleval: the task is queued, acknowledged with TSTART, and its dispatch *)
(* is left for when the server is idle.                                      *)
OnToleval(c) ==
  /\ InEventLoop
  /\ connection[c] # 0
  /\ lastId < MaxTasks
  /\ Cardinality(Outstanding) < MaxOutstanding
  /\ EarlyClients \/ SlaveState # Absent
  /\ lastId' = lastId + 1
  /\ queueTasks' = Append(queueTasks, lastId + 1)
  /\ origin' = Append(origin, [chan |-> c, connection |-> connection[c]])
  /\ idle' = AfterIdle([do |-> "dispatch"])
  /\ UNCHANGED <<tequilaVars, queueCancel, stack, connection, connections, slaveVars, finishes>>

(* on_cancel: the request is noted. *)
OnCancel(c, t) ==
  /\ InEventLoop
  /\ connection[c] # 0
  /\ origin[t].connection = connection[c]
  /\ queueCancel' = queueCancel \union {t}
  /\ UNCHANGED <<tequilaVars, queueTasks, lastId, idle, stack, connection, connections,
                 origin, slaveVars, finishes>>

(* get_queue_tasks empties the queue.  Fault: it does not.                      *)
QueueNotEmptied == queueTasks

QueueEmptied == <<>>

(* send_tasks_to_slave, on top of the handlers in rest: the whole queue becomes *)
(* the batch.  The write is sent, and the server waits for the reply, unless    *)
(* the trace that sends it is active.                                          *)
SendTasksToSlave(rest) ==
  \/ /\ queueTasks = <<>>
     /\ stack' = rest
     /\ UNCHANGED <<tequilaVars, queueTasks>>
  \/ /\ queueTasks # <<>>
     /\ TraceActive(rest)
     /\ WriteSilently("server", "request", queueTasks)
     /\ stack' = rest
     /\ queueTasks' = QueueEmptied
     /\ UNCHANGED <<store, toTequila, fromTequila>>
  \/ /\ queueTasks # <<>>
     /\ ~TraceActive(rest)
     /\ Write("server", "request", queueTasks)
     /\ stack' = <<SendFrame>> \o rest
     /\ queueTasks' = QueueEmptied
     /\ UNCHANGED <<store, fromTequila>>

(* dispatch_to_slave, called when idle: without a slave state it fails, when    *)
(* the slave is not ready it waits for the next write of the state.            *)
DispatchToSlave ==
  /\ InEventLoop
  /\ idle # <<>> /\ Head(idle).do = "dispatch"
  /\ idle' = Tail(idle)
  /\ \/ SlaveState = Absent /\ UNCHANGED <<tequilaVars, queueTasks, stack>>
     \/ /\ SlaveState \notin {Absent, "ready"}
        /\ stack' = <<WaitFrame>> \o stack
        /\ UNCHANGED <<tequilaVars, queueTasks>>
     \/ SlaveState = "ready" /\ SendTasksToSlave(stack)
  /\ UNCHANGED <<queueCancel, lastId, connection, connections, origin, slaveVars, finishes>>

(* The handler on top goes on: dispatch_to_slave does not look at the state     *)
(* again, and the call that sent a batch returns.                              *)
Resume ==
  /\ ~InEventLoop
  /\ \/ Head(stack).kind = "wait" /\ SendTasksToSlave(Tail(stack))
     \/ /\ Head(stack).kind = "send"
        /\ stack' = Tail(stack)
        /\ UNCHANGED <<tequilaVars, queueTasks>>
  /\ UNCHANGED <<queueCancel, lastId, idle, connection, connections, origin, slaveVars, finishes>>

(* A message of the data server. *)
ServerCallBack ==
  /\ InEventLoop
  /\ CallBack("server")
  /\ LET m == NextMessage("server")
     IN  \/ /\ m.op = "Reply"
            /\ stack' = Wake("send")
            /\ UNCHANGED idle
         \/ /\ IsNews("server", m) /\ m.key = "state"
            /\ stack' = Wake("wait")
            /\ UNCHANGED idle
         \/ /\ IsNews("server", m) /\ m.key = "finish"
            /\ idle' = AfterIdle([do |-> "finish", task |-> m.value])
            /\ UNCHANGED stack
         \/ /\ m.op = "Set" /\ (~IsNews("server", m) \/ m.key = "request")
            /\ UNCHANGED <<idle, stack>>
  /\ UNCHANGED <<queueTasks, queueCancel, lastId, connection, connections, origin,
                 slaveVars, finishes>>

(* server_listen_finish reads what the callback is to send when the element     *)
(* changes.  Fault: the callback reads it when it runs.                        *)
FinishedTaskByNow(callback) == copy["server"]["finish"]

FinishedTask(callback) == callback.task

(* send_to_client TFINISH: to whatever connection has the channel by now; an    *)
(* error of a closed one is caught.                                            *)
SendFinish ==
  /\ InEventLoop
  /\ idle # <<>> /\ Head(idle).do = "finish"
  /\ idle' = Tail(idle)
  /\ LET t == FinishedTask(Head(idle))
     IN  finishes' = Append(finishes, [task |-> t, connection |-> connection[origin[t].chan]])
  /\ UNCHANGED <<tequilaVars, queueTasks, queueCancel, lastId, stack, connection, connections,
                 origin, slaveVars>>

-----------------------------------------------------------------------------
(* The slave.  slavePc names the write whose reply it waits for, in start       *)
(* ("announce") or under the trace of shared_tasks(request); at "process" it is  *)
(* in the loop of process_queue, which takes no events.                         *)

SlaveWaits == slavePc \in {"echo", "busy", "finish", "ready"}

\* A write of the slave to an element of its own and the wait that follows it
SlaveWrites(k, v, pc) == Write("slave", k, v) /\ slavePc' = pc

(* The end of start: the command line's expressions are evaluated. *)
SlaveStarts ==
  /\ slavePc = "loading"
  /\ SlaveWrites("state", "ready", "announce")
  /\ UNCHANGED <<store, fromTequila, serverVars, slaveQueue, tracers, evaluated, finishes>>

(* privCallBack_Set takes privTracer off shared_tasks once and puts it back      *)
(* after the write.                                                            *)
TracersLeft == IF tracers > 0 THEN tracers - 1 ELSE 0

(* A batch arrives while the slave is idle; it is always news, for no two have   *)
(* a task in common.  A privTracer still there (there is never more than one)    *)
(* sends it back before slave_listen_tasks sees it; otherwise process_queue      *)
(* starts, with the batch in place of what was queued.                          *)
BatchArrives ==
  /\ slavePc = "idle"
  /\ fromTequila["slave"] # <<>>
  /\ LET m == NextMessage("slave")
     IN  /\ IsNews("slave", m)
         /\ Receive("slave")
         /\ tracers' = TracersLeft
         /\ \/ /\ TracersLeft > 0
               /\ SlaveWrites("request", m.value, "echo")
               /\ UNCHANGED slaveQueue
            \/ /\ TracersLeft = 0
               /\ slaveQueue' = m.value
               /\ copy' = [copy EXCEPT !["slave"]["request"] = m.value, !["slave"]["state"] = "busy"]
               /\ Do("slave", "state", "busy")
               /\ slavePc' = "busy"
  /\ UNCHANGED <<store, serverVars, evaluated, finishes>>

(* A batch arrives while the slave waits for a reply, under the trace of the     *)
(* batch before it: it is stored, and slave_listen_tasks is not called.         *)
BatchArrivesUnseen ==
  /\ SlaveWaits
  /\ fromTequila["slave"] # <<>>
  /\ IsNews("slave", NextMessage("slave"))
  /\ CallBack("slave")
  /\ tracers' = TracersLeft + 1
  /\ UNCHANGED <<serverVars, slavePc, slaveQueue, evaluated, finishes>>

\* The slave waits for the reply to the write pc, and takes it
Replied(pc) ==
  /\ slavePc = pc
  /\ fromTequila["slave"] # <<>>
  /\ NextMessage("slave").op = "Reply"
  /\ Receive("slave")

(* start returns to the event loop. *)
Announced ==
  /\ Replied("announce")
  /\ slavePc' = "idle"
  /\ UNCHANGED <<store, copy, toTequila, serverVars, slaveQueue, tracers, evaluated, finishes>>

(* Once the batch is sent back slave_listen_tasks sees the one there is by now. *)
Echoed ==
  /\ Replied("echo")
  /\ slaveQueue' = copy["slave"]["request"]
  /\ SlaveWrites("state", "busy", "busy")
  /\ UNCHANGED <<store, serverVars, tracers, evaluated, finishes>>

(* process_queue goes on after telling that it is busy or a task finished. *)
GoesOn ==
  /\ Replied("busy") \/ Replied("finish")
  /\ slavePc' = "process"
  /\ UNCHANGED <<store, copy, toTequila, serverVars, slaveQueue, tracers, evaluated, finishes>>

(* The slave's own list of cancelled requests, which nothing ever fills, is     *)
(* looked at here (tolslave.tcl:22 and 184): every task is evaluated.           *)
EvaluateTask ==
  /\ slavePc = "process"
  /\ slaveQueue # <<>>
  /\ evaluated' = Append(evaluated, Head(slaveQueue))
  /\ slaveQueue' = Tail(slaveQueue)
  /\ SlaveWrites("finish", Head(slaveQueue), "finish")
  /\ UNCHANGED <<store, fromTequila, serverVars, tracers, finishes>>

(* The batch is done: the state is ready again.  Fault: it stays busy.          *)
StateStaysBusy == "busy"

StateAfterBatch == "ready"

BatchDone ==
  /\ slavePc = "process"
  /\ slaveQueue = <<>>
  /\ SlaveWrites("state", StateAfterBatch, "ready")
  /\ UNCHANGED <<store, fromTequila, serverVars, slaveQueue, tracers, evaluated, finishes>>

(* The traces and privCallBack_Set return; privTracer is put back. *)
CallBackReturns ==
  /\ Replied("ready")
  /\ slavePc' = "idle"
  /\ tracers' = tracers + 1
  /\ UNCHANGED <<store, copy, toTequila, serverVars, slaveQueue, evaluated, finishes>>

-----------------------------------------------------------------------------

DataServer == \E p \in Procs : TqsRequest(p) /\ UNCHANGED <<serverVars, slaveVars, finishes>>

Clients ==
  \/ \E c \in Chans : Connect(c) \/ OnEofChannel(c) \/ OnToleval(c)
  \/ \E c \in Chans, t \in Outstanding : OnCancel(c, t)

Server == DispatchToSlave \/ Resume \/ ServerCallBack \/ SendFinish

Slave ==
  \/ SlaveStarts \/ BatchArrives \/ BatchArrivesUnseen
  \/ Announced \/ Echoed \/ GoesOn \/ EvaluateTask \/ BatchDone \/ CallBackReturns

Next == DataServer \/ Clients \/ Server \/ Slave

(* Each process takes its next event if it has one, and an evaluation ends.     *)
Fairness == WF_vars(DataServer) /\ WF_vars(Server) /\ WF_vars(Slave)

Spec == Init /\ [][Next]_vars /\ Fairness

-----------------------------------------------------------------------------

Tasks == 1 .. MaxTasks
(* However the batches are lost, delayed or overwritten on their way, the slave *)
(* never evaluates a task twice, nor after one accepted later                   *)
(* (tolserver.tcl:565-615, tolslave.tcl:122-199).                               *)
EvaluatedInOrder ==
  \A i, j \in DOMAIN evaluated : i < j => evaluated[i] < evaluated[j]

(* The TFINISH sent are those of the first tasks evaluated, each once and in    *)
(* order: none is lost or repeated although the slave overwrites one shared     *)
(* element for each task and the server sends them later, when idle             *)
(* (tolslave.tcl:193-195, tolserver.tcl:498-509).                               *)
FinishesFollowEvaluations ==
  LET Finished == [i \in DOMAIN finishes |-> finishes[i].task]
  IN  IsPrefix(Finished, evaluated)

(* The server has a request pending at the data server exactly while one of its *)
(* handlers waits for the reply, however handlers pile up on each other: the    *)
(* reply never wakes a wait for another request (tequila.tcl:45-69).            *)
ServerWaitsForItsRequest ==
  LET sending == {i \in DOMAIN stack : stack[i].kind = "send" /\ ~stack[i].woken}
  IN  Cardinality(sending) = Len(toTequila["server"]) + Cardinality(Replies("server"))

\* Nothing is on its way and the slave waits for a batch
Quiet ==
  /\ \A p \in Procs : toTequila[p] = <<>> /\ fromTequila[p] = <<>>
  /\ idle = <<>>
  /\ slavePc = "idle"
  /\ InEventLoop

(* When nothing is left to happen no handler of the server is left waiting for   *)
(* a write or a reply that has passed, and no task is left in its queue          *)
(* (tolserver.tcl:579-599).                                                     *)
NothingLeftWaiting == Quiet => stack = <<>> /\ queueTasks = <<>>

(* "When idle the server will process the tol expressions waiting for being     *)
(* evaluated" (tolserver.tcl:279-280): what is queued is taken from the queue.  *)
QueueIsDrained == (queueTasks # <<>>) ~> (queueTasks = <<>>)

(* "After and expression evaluation is done a TFINISH is sent" (tolserver.tcl:  *)
(* 280-282): each task evaluated is eventually reported to the client.          *)
EvaluatedIsFinished ==
  \A t \in Tasks : (t \in Range(evaluated)) ~> (t \in 1 .. lastId /\ t \notin Outstanding)

(* Every task the server accepts is eventually evaluated and its TFINISH sent   *)
(* (tolserver.tcl:276-282).                                                     *)
AcceptedIsFinished ==
  \A t \in Tasks : (t \in Outstanding) ~> (t \in 1 .. lastId /\ t \notin Outstanding)

(* Every task accepted from a client that asks for one at a time is evaluated    *)
(* and its TFINISH sent, across a disconnection too (tolserver.tcl:276-282).     *)
OneAtATimeIsFinished == [](Cardinality(Outstanding) <= 1) => AcceptedIsFinished
=============================================================================
