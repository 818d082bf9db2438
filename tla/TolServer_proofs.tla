--------------------------- MODULE TolServer_proofs ---------------------------
(***************************************************************************)
(* Proofs about the TOL server and its slave, for any number of clients,     *)
(* tasks and connections.                                                   *)
(***************************************************************************)
EXTENDS TolServer, Tequila_proofs

\* What is on its way between each process and the data server
Asks == toTequila["server"]
Tells == toTequila["slave"]
News == fromTequila["server"]
Batches == fromTequila["slave"]

\* What the slave holds
Batch == copy["slave"]["request"]
OwnState == copy["slave"]["state"]

\* What the server and the data server know of the last task finished
FinishSeen == copy["server"]["finish"]
FinishStored == store["finish"]
StateStored == store["state"]

-----------------------------------------------------------------------------
(* Types.                                                                  *)

States == {"ready", "busy"}
Shared == Seq(Nat) \cup States \cup Nat \cup {Absent}

BatchRequests == [key : {"request"}, value : Seq(Nat)]
BatchMessages == {ReplyMessage} \cup [op : {"Set"}, key : {"request"}, value : Seq(Nat)]

Requests ==
  BatchRequests \cup [key : {"state"}, value : States] \cup [key : {"finish"}, value : Nat]

Messages ==
  BatchMessages \cup [op : {"Set"}, key : {"state"}, value : States]
                \cup [op : {"Set"}, key : {"finish"}, value : Nat]

Frames == [kind : {"wait", "send"}, woken : BOOLEAN]
CallBacks == [do : {"dispatch"}] \cup [do : {"finish"}, task : Nat]

TequilaType ==
  /\ store \in [Keys -> Shared]
  /\ copy \in [Procs -> [Keys -> Shared]]
  /\ Queues(Requests, Messages)
  /\ Asks \in Seq(BatchRequests)
  /\ Batches \in Seq(BatchMessages)

ServerType ==
  /\ queueTasks \in Seq(Nat)
  /\ lastId \in Nat
  /\ idle \in Seq(CallBacks)
  /\ stack \in Seq(Frames)
  /\ finishes \in Seq(Range(finishes))

SlaveType ==
  /\ slavePc \in {"loading", "announce", "idle", "echo", "busy", "process", "finish", "ready"}
  /\ slaveQueue \in Seq(Nat)
  /\ evaluated \in Seq(Nat)

TypeInv == TequilaType /\ ServerType /\ SlaveType

(* One request of each process is pending at most, and none of the slave's when  *)
(* its code is not in a wait.                                                  *)
PendingInv ==
  /\ OnePending("server") /\ OnePending("slave")
  /\ slavePc \in {"loading", "idle", "process"} => Tells = <<>> /\ ~HasReply(Batches)

(* One handler sends a batch at most, and it waits as long as the reply has not   *)
(* been taken.                                                                *)
Has(frames, kind) == \E i \in DOMAIN frames : frames[i].kind = kind
Awaits(frames, kind) == \E i \in DOMAIN frames : frames[i].kind = kind /\ ~frames[i].woken
OneSends(frames) ==
  \A i, j \in DOMAIN frames : frames[i].kind = "send" /\ frames[j].kind = "send" => i = j

SendInv ==
  /\ OneSends(stack)
  /\ Awaits(stack, "send") <=> Asks # <<>> \/ HasReply(News)

(* The part of the inductive invariant about the protocol itself. *)
ProtocolInv == TypeInv /\ PendingInv /\ SendInv

-----------------------------------------------------------------------------
(* What each use of Tequila does to what is on its way.                     *)

LEMMA TheProcesses ==
  /\ Procs = {"server", "slave"}
  /\ Keys = {"request", "state", "finish"}
  /\ Absent \notin States /\ Absent \notin Nat /\ Absent \notin Seq(Nat)
BY TolServerAssumption DEF States

LEMMA QueueTypes ==
  ASSUME TequilaType
  PROVE  /\ Asks \in Seq(BatchRequests) /\ Tells \in Seq(Requests)
         /\ News \in Seq(Messages) /\ Batches \in Seq(BatchMessages)
BY TheProcesses DEF TequilaType, Queues, Tells, News

(* The data server serves a batch of the server. *)
LEMMA BatchServed ==
  ASSUME TequilaType, OnePending("server"), TqsRequest("server")
  PROVE  LET v == Asks[1].value
         IN  /\ Asks # <<>> /\ 1 \in DOMAIN Asks /\ Asks[1] = [key |-> "request", value |-> v] /\ v \in Seq(Nat)
             /\ Asks' = <<>> /\ Tells' = Tells
             /\ News' = Append(News, ReplyMessage)
             /\ Batches' = Batches \/ Batches' = Append(Batches, SetMessage("request", v))
             /\ store' = [store EXCEPT !["request"] = v]
             /\ copy' = copy
<1>1. "server" \in Procs /\ "slave" \in Procs /\ Queues(Requests, Messages)
  BY TheProcesses DEF TequilaType
<1> DEFINE r == Head(toTequila["server"])
<1>2. /\ r \in Requests /\ toTequila["server"] # <<>>
      /\ toTequila' = [toTequila EXCEPT !["server"] = Tail(@)]
      /\ store' = [store EXCEPT ![r.key] = r.value]
      /\ fromTequila' = [q \in Procs |->
           IF q = "server" THEN Append(fromTequila[q], ReplyMessage)
           ELSE IF store[r.key] # r.value THEN Append(fromTequila[q], SetMessage(r.key, r.value))
           ELSE fromTequila[q]]
      /\ copy' = copy
  BY <1>1, Served
<1>3. Asks \in Seq(BatchRequests) /\ Asks # <<>>
  BY <1>2 DEF TequilaType, Asks
<1>4. r = Asks[1] /\ Asks[1] \in BatchRequests /\ 1 \in DOMAIN Asks
  BY <1>3, TailOf DEF Asks
<1>5. r.key = "request" /\ r.value \in Seq(Nat) /\ r = [key |-> "request", value |-> r.value]
  BY <1>4 DEF BatchRequests
<1>6. toTequila'["server"] = <<>> /\ toTequila'["slave"] = toTequila["slave"]
  <2>1. toTequila'["server"] = <<>>
    BY <1>1, ServedKeepsOnePending
  <2> QED BY <1>1, <1>2, <2>1 DEF Queues
<1>7. /\ fromTequila'["server"] = Append(News, ReplyMessage)
      /\ fromTequila'["slave"] = Batches \/ fromTequila'["slave"] = Append(Batches, SetMessage(r.key, r.value))
  BY <1>1, <1>2, <1>6 DEF News, Batches
<1> HIDE DEF r
<1> QED BY <1>2, <1>3, <1>4, <1>5, <1>6, <1>7 DEF Asks, Tells, News, Batches

(* The data server serves a change of the slave. *)
LEMMA ChangeServed ==
  ASSUME TequilaType, OnePending("slave"), TqsRequest("slave")
  PROVE  LET r == Tells[1]
         IN  /\ Tells # <<>> /\ 1 \in DOMAIN Tells /\ r \in Requests
             /\ Asks' = Asks /\ Tells' = <<>>
             /\ News' = IF store[r.key] # r.value THEN Append(News, SetMessage(r.key, r.value)) ELSE News
             /\ Batches' = Append(Batches, ReplyMessage)
             /\ store' = [store EXCEPT ![r.key] = r.value]
             /\ copy' = copy
<1>1. "server" \in Procs /\ "slave" \in Procs /\ Queues(Requests, Messages)
  BY TheProcesses DEF TequilaType
<1> DEFINE r == Head(toTequila["slave"])
<1>2. /\ r \in Requests /\ toTequila["slave"] # <<>>
      /\ toTequila' = [toTequila EXCEPT !["slave"] = Tail(@)]
      /\ store' = [store EXCEPT ![r.key] = r.value]
      /\ fromTequila' = [q \in Procs |->
           IF q = "slave" THEN Append(fromTequila[q], ReplyMessage)
           ELSE IF store[r.key] # r.value THEN Append(fromTequila[q], SetMessage(r.key, r.value))
           ELSE fromTequila[q]]
      /\ copy' = copy
  BY <1>1, Served
<1>3. Tells \in Seq(Requests) /\ Tells # <<>>
  BY <1>2, QueueTypes DEF Tells
<1>4. r = Tells[1] /\ 1 \in DOMAIN Tells
  BY <1>3, TailOf DEF Tells
<1>6. toTequila'["slave"] = <<>> /\ toTequila'["server"] = toTequila["server"]
  <2>1. toTequila'["slave"] = <<>>
    BY <1>1, ServedKeepsOnePending
  <2> QED BY <1>1, <1>2, <2>1 DEF Queues
<1>7. /\ fromTequila'["slave"] = Append(Batches, ReplyMessage)
      /\ fromTequila'["server"] =
           IF store[r.key] # r.value THEN Append(News, SetMessage(r.key, r.value)) ELSE News
  BY <1>1, <1>2 DEF News, Batches
<1> HIDE DEF r
<1> QED BY <1>2, <1>3, <1>4, <1>6, <1>7 DEF Asks, Tells, News, Batches

(* A message of the data server is taken. *)
LEMMA ServerReceives ==
  ASSUME TequilaType, CallBack("server")
  PROVE  LET m == NextMessage("server")
         IN  /\ News # <<>> /\ m = Head(News) /\ m \in Messages
             /\ News' = Tail(News) /\ Batches' = Batches
             /\ Asks' = Asks /\ Tells' = Tells
             /\ store' = store
             /\ copy'["slave"] = copy["slave"]
             /\ \A k \in Keys :
                  copy'["server"][k] = IF m.op = "Set" /\ m.key = k THEN m.value ELSE copy["server"][k]
             /\ copy' \in [Procs -> [Keys -> Shared]]
<1> DEFINE m == NextMessage("server")
<1>1. "server" \in Procs /\ "slave" \in Procs /\ Queues(Requests, Messages)
  BY TheProcesses DEF TequilaType
<1>2. /\ fromTequila["server"] # <<>>
      /\ fromTequila' = [fromTequila EXCEPT !["server"] = Tail(@)]
      /\ copy' = IF IsNews("server", m) THEN [copy EXCEPT !["server"][m.key] = m.value] ELSE copy
      /\ store' = store /\ toTequila' = toTequila
  BY DEF CallBack, Receive
<1>3. News # <<>> /\ m = Head(News) /\ m \in Messages
  BY <1>2, QueueTypes, TailOf DEF News, NextMessage
<1>4. News' = Tail(News) /\ Batches' = Batches
  BY <1>1, <1>2 DEF News, Batches, Queues
<1>5. copy \in [Procs -> [Keys -> Shared]]
  BY DEF TequilaType
<1>6. m.op = "Set" => m.key \in Keys /\ m.value \in Shared
  BY <1>3, TheProcesses DEF Messages, BatchMessages, ReplyMessage, Shared
<1>7. CASE IsNews("server", m)
  <2>1. m.op = "Set" /\ m.key \in Keys /\ m.value \in Shared
    BY <1>6, <1>7 DEF IsNews
  <2>2. copy' = [copy EXCEPT !["server"][m.key] = m.value]
    BY <1>2, <1>7
  <2>3. copy' \in [Procs -> [Keys -> Shared]] /\ copy'["slave"] = copy["slave"]
    BY <1>1, <1>5, <2>1, <2>2
  <2>4. \A k \in Keys : copy'["server"][k] = IF m.key = k THEN m.value ELSE copy["server"][k]
    BY <1>1, <1>5, <2>1, <2>2
  <2> QED BY <1>2, <1>3, <1>4, <2>1, <2>3, <2>4 DEF Asks, Tells
<1>8. CASE ~IsNews("server", m)
  <2>1. copy' = copy /\ (m.op = "Set" => copy["server"][m.key] = m.value)
    BY <1>2, <1>8 DEF IsNews
  <2> QED BY <1>2, <1>3, <1>4, <1>5, <2>1 DEF Asks, Tells
<1> QED BY <1>7, <1>8

LEMMA SlaveReceives ==
  ASSUME TequilaType, Receive("slave")
  PROVE  LET m == NextMessage("slave")
         IN  /\ Batches # <<>> /\ m = Head(Batches) /\ m \in BatchMessages
             /\ Batches' = Tail(Batches) /\ News' = News
             /\ fromTequila' \in [Procs -> Seq(Messages)]
             /\ m.op = "Set" => m.key = "request" /\ m.value \in Seq(Nat)
<1> DEFINE m == NextMessage("slave")
<1>1. "server" \in Procs /\ "slave" \in Procs /\ Queues(Requests, Messages)
  BY TheProcesses DEF TequilaType
<1>2. /\ fromTequila["slave"] # <<>>
      /\ fromTequila' = [fromTequila EXCEPT !["slave"] = Tail(@)]
  BY DEF Receive
<1>3. Batches # <<>> /\ m = Head(Batches) /\ m \in BatchMessages
  BY <1>2, QueueTypes, TailOf DEF Batches, NextMessage
<1>4. News' = News /\ Batches' = Tail(Batches)
  BY <1>1, <1>2 DEF News, Batches, Queues
<1>5. Tail(fromTequila["slave"]) \in Seq(Messages)
  BY <1>1, <1>2, TailOf DEF Queues
<1>6. fromTequila' \in [Procs -> Seq(Messages)]
  BY <1>1, <1>2, <1>5 DEF Queues
<1>7. m.op = "Set" => m.key = "request" /\ m.value \in Seq(Nat)
  BY <1>3 DEF BatchMessages, ReplyMessage
<1> QED BY <1>3, <1>4, <1>6, <1>7

(* The slave asks the data server to store one of its elements. *)
LEMMA SlaveTells ==
  ASSUME TequilaType, Tells = <<>>,
         NEW k, NEW v, [key |-> k, value |-> v] \in Requests, Do("slave", k, v)
  PROVE  /\ Tells' = <<[key |-> k, value |-> v]>>
         /\ Tells' # <<>> /\ Tells'[1] = [key |-> k, value |-> v] /\ Len(Tells') = 1
         /\ Asks' = Asks
         /\ toTequila' \in [Procs -> Seq(Requests)]
<1> DEFINE r == [key |-> k, value |-> v]
<1>1. /\ "server" \in Procs /\ "slave" \in Procs
      /\ toTequila \in [Procs -> Seq(Requests)] /\ toTequila["slave"] = <<>>
  BY TheProcesses DEF TequilaType, Queues, Tells
<1>2. toTequila' = [toTequila EXCEPT !["slave"] = <<r>>] /\ toTequila' \in [Procs -> Seq(Requests)]
  BY <1>1, DoneKeepsOnePending
<1> HIDE DEF r
<1>3. <<r>> # <<>> /\ <<r>>[1] = r /\ Len(<<r>>) = 1
  OBVIOUS
<1>4. Tells' = <<r>> /\ Asks' = Asks
  BY <1>1, <1>2 DEF Tells, Asks
<1> QED BY <1>2, <1>3, <1>4 DEF r

(* The server asks the data server to store a batch. *)
LEMMA ServerAsks ==
  ASSUME TequilaType, Asks = <<>>, NEW v \in Seq(Nat), Do("server", "request", v)
  PROVE  /\ Asks' = <<[key |-> "request", value |-> v]>>
         /\ Asks' # <<>> /\ Asks'[1] = [key |-> "request", value |-> v] /\ Len(Asks') = 1
         /\ Asks' \in Seq(BatchRequests)
         /\ Tells' = Tells
         /\ toTequila' \in [Procs -> Seq(Requests)]
<1> DEFINE r == [key |-> "request", value |-> v]
<1>0. r \in BatchRequests /\ r \in Requests
  BY DEF BatchRequests, Requests
<1>1. /\ "server" \in Procs /\ "slave" \in Procs
      /\ toTequila \in [Procs -> Seq(Requests)] /\ toTequila["server"] = <<>>
  BY TheProcesses DEF TequilaType, Queues, Asks
<1>2. toTequila' = [toTequila EXCEPT !["server"] = <<r>>] /\ toTequila' \in [Procs -> Seq(Requests)]
  <2>1. toTequila' = [toTequila EXCEPT !["server"] = Append(@, r)]
    BY DEF Do
  <2> HIDE DEF r
  <2>2. Append(<<>>, r) = <<r>> /\ <<r>> \in Seq(Requests)
    BY <1>0
  <2> QED BY <1>1, <2>1, <2>2
<1> HIDE DEF r
<1>3. <<r>> # <<>> /\ <<r>>[1] = r /\ Len(<<r>>) = 1 /\ <<r>> \in Seq(BatchRequests)
  BY <1>0
<1>4. Asks' = <<r>> /\ Tells' = Tells
  BY <1>1, <1>2 DEF Tells, Asks
<1> QED BY <1>2, <1>3, <1>4 DEF r

-----------------------------------------------------------------------------
(* The types of what is on its way.                                         *)

LEMMA TequilaTypeKept ==
  ASSUME TequilaType,
         toTequila' \in [Procs -> Seq(Requests)] /\ Asks' \in Seq(BatchRequests),
         fromTequila' \in [Procs -> Seq(Messages)] /\ Batches' \in Seq(BatchMessages),
         store' \in [Keys -> Shared] /\ copy' \in [Procs -> [Keys -> Shared]]
  PROVE  TequilaType'
BY DEF TequilaType, Queues

LEMMA ServedTypes ==
  ASSUME TequilaType, OnePending("server"), OnePending("slave"), NEW p \in Procs, TqsRequest(p)
  PROVE  TequilaType'
<1> DEFINE r == Head(toTequila[p])
<1>1. Queues(Requests, Messages) /\ "server" \in Procs /\ "slave" \in Procs
  BY TheProcesses DEF TequilaType
<1>2. r \in Requests /\ store' = [store EXCEPT ![r.key] = r.value] /\ copy' = copy
  BY <1>1, Served
<1>3. r.key \in Keys /\ r.value \in Shared
  BY <1>2, TheProcesses DEF Requests, BatchRequests, Shared
<1>4. ReplyMessage \in Messages /\ SetMessage(r.key, r.value) \in Messages
  BY <1>2 DEF Messages, BatchMessages, SetMessage, Requests, BatchRequests
<1>5. Queues(Requests, Messages)'
  BY <1>1, <1>4, ServedKeepsQueues
<1>6. store' \in [Keys -> Shared] /\ copy' \in [Procs -> [Keys -> Shared]]
  BY <1>2, <1>3 DEF TequilaType
<1>7. Asks' \in Seq(BatchRequests) /\ Batches' \in Seq(BatchMessages)
  <2>0. Asks \in Seq(BatchRequests) /\ Batches \in Seq(BatchMessages)
    BY DEF TequilaType
  <2>1. CASE p = "server"
    <3>1. /\ Asks' = <<>>
          /\ Batches' = Batches \/ Batches' = Append(Batches, SetMessage("request", Asks[1].value))
          /\ Asks[1].value \in Seq(Nat)
      BY <2>1, BatchServed
    <3>2. SetMessage("request", Asks[1].value) \in BatchMessages
      BY <3>1 DEF BatchMessages, SetMessage
    <3> QED BY <2>0, <3>1, <3>2, AppendOf, EmptySeq
  <2>2. CASE p = "slave"
    <3>1. Asks' = Asks /\ Batches' = Append(Batches, ReplyMessage)
      BY <2>2, ChangeServed
    <3>2. ReplyMessage \in BatchMessages
      BY DEF BatchMessages
    <3> QED BY <2>0, <3>1, <3>2, AppendOf
  <2> QED BY <2>1, <2>2, TheProcesses
<1> QED BY <1>5, <1>6, <1>7 DEF TequilaType

-----------------------------------------------------------------------------
(* The stack of handlers.                                                  *)

\* t has what s has, and f
OneMore(t, f, s) ==
  /\ \E j \in DOMAIN t : t[j] = f
  /\ \A i \in DOMAIN s : \E j \in DOMAIN t : t[j] = s[i]
  /\ \A j \in DOMAIN t : t[j] = f \/ \E i \in DOMAIN s : s[i] = t[j]

LEMMA OneMoreHas ==
  ASSUME NEW t, NEW f, NEW s, OneMore(t, f, s), NEW k
  PROVE  /\ Has(t, k) <=> f.kind = k \/ Has(s, k)
         /\ Awaits(t, k) <=> (f.kind = k /\ ~f.woken) \/ Awaits(s, k)
<1>1. Has(t, k) <=> f.kind = k \/ Has(s, k)
  BY DEF OneMore, Has
<1>2. Awaits(t, k) <=> (f.kind = k /\ ~f.woken) \/ Awaits(s, k)
  BY DEF OneMore, Awaits
<1> QED BY <1>1, <1>2

LEMMA PushFrame ==
  ASSUME NEW s \in Seq(Frames), NEW f \in Frames
  PROVE  /\ <<f>> \o s \in Seq(Frames)
         /\ \A k : /\ Has(<<f>> \o s, k) <=> f.kind = k \/ Has(s, k)
                   /\ Awaits(<<f>> \o s, k) <=> (f.kind = k /\ ~f.woken) \/ Awaits(s, k)
         /\ OneSends(s) /\ ~(f.kind = "send" /\ Has(s, "send")) => OneSends(<<f>> \o s)
<1> DEFINE t == <<f>> \o s
<1>1. <<f>> \in Seq(Frames) /\ Len(<<f>>) = 1 /\ <<f>>[1] = f
  OBVIOUS
<1>2. /\ t \in Seq(Frames) /\ Len(s) \in Nat /\ DOMAIN s = 1 .. Len(s) /\ Len(t) = Len(s) + 1
      /\ t[1] = f
      /\ \A i \in 1 .. Len(s) : t[i + 1] = s[i]
  BY <1>1, ConcatProperties, LenProperties
<1>3. DOMAIN t = 1 .. Len(s) + 1
  BY <1>2, LenProperties
<1> HIDE DEF t
<1>4. /\ 1 \in DOMAIN t /\ t[1] = f
      /\ \A i \in DOMAIN s : i + 1 \in DOMAIN t /\ t[i + 1] = s[i] /\ i \in Nat /\ i + 1 # 1
      /\ \A i \in DOMAIN t : i = 1 \/ (i - 1 \in DOMAIN s /\ t[i] = s[i - 1] /\ i \in Nat)
  BY <1>2, <1>3
<1>5. ASSUME NEW k
      PROVE  /\ Has(t, k) <=> f.kind = k \/ Has(s, k)
             /\ Awaits(t, k) <=> (f.kind = k /\ ~f.woken) \/ Awaits(s, k)
  <2>1. OneMore(t, f, s)
    BY <1>4 DEF OneMore
  <2> QED BY <2>1, OneMoreHas
<1>6. ASSUME OneSends(s), ~(f.kind = "send" /\ Has(s, "send")) PROVE OneSends(t)
  <2> SUFFICES ASSUME NEW i \in DOMAIN t, NEW j \in DOMAIN t, t[i].kind = "send", t[j].kind = "send"
               PROVE  i = j
    BY DEF OneSends
  <2>1. CASE i # 1 /\ j # 1
    <3>1. i - 1 = j - 1 /\ i \in Nat /\ j \in Nat
      BY <1>4, <1>6, <2>1 DEF OneSends
    <3> QED BY <3>1
  <2>2. CASE i = 1 \/ j = 1
    BY <1>4, <1>6, <2>2 DEF Has
  <2> QED BY <2>1, <2>2
<1> QED BY <1>2, <1>5, <1>6 DEF t

LEMMA PopFrame ==
  ASSUME NEW s \in Seq(Frames), s # <<>>
  PROVE  /\ Head(s) \in Frames /\ Tail(s) \in Seq(Frames)
         /\ \A k : /\ Has(s, k) <=> Head(s).kind = k \/ Has(Tail(s), k)
                   /\ Awaits(s, k) <=> (Head(s).kind = k /\ ~Head(s).woken) \/ Awaits(Tail(s), k)
         /\ OneSends(s) => OneSends(Tail(s)) /\ ~(Head(s).kind = "send" /\ Has(Tail(s), "send"))
<1>1. /\ Head(s) = s[1] /\ Head(s) \in Frames /\ Tail(s) \in Seq(Frames)
      /\ Len(s) \in Nat /\ Len(s) >= 1 /\ DOMAIN s = 1 .. Len(s)
      /\ DOMAIN Tail(s) = 1 .. Len(s) - 1
      /\ \A i \in 1 .. Len(s) - 1 : Tail(s)[i] = s[i + 1]
  BY TailOf
<1>2. /\ 1 \in DOMAIN s
      /\ \A i \in DOMAIN Tail(s) : i + 1 \in DOMAIN s /\ Tail(s)[i] = s[i + 1] /\ i \in Nat /\ i + 1 # 1
      /\ \A i \in DOMAIN s : i = 1 \/ (i - 1 \in DOMAIN Tail(s) /\ s[i] = Tail(s)[i - 1])
  BY <1>1
<1>3. ASSUME NEW k
      PROVE  /\ Has(s, k) <=> Head(s).kind = k \/ Has(Tail(s), k)
             /\ Awaits(s, k) <=> (Head(s).kind = k /\ ~Head(s).woken) \/ Awaits(Tail(s), k)
  <2> DEFINE h == Head(s)
             r == Tail(s)
  <2>1. /\ s[1] = h /\ 1 \in DOMAIN s
        /\ \A i \in DOMAIN r : i + 1 \in DOMAIN s /\ r[i] = s[i + 1]
        /\ \A i \in DOMAIN s : i = 1 \/ (i - 1 \in DOMAIN r /\ s[i] = r[i - 1])
    BY <1>1, <1>2
  <2> HIDE DEF h, r
  <2>2. OneMore(s, h, r)
    BY <2>1 DEF OneMore
  <2>3. /\ Has(s, k) <=> h.kind = k \/ Has(r, k)
        /\ Awaits(s, k) <=> (h.kind = k /\ ~h.woken) \/ Awaits(r, k)
    BY <2>2, OneMoreHas
  <2> QED BY <2>3, Zenon DEF h, r
<1>4. ASSUME OneSends(s) PROVE OneSends(Tail(s))
  <2> SUFFICES ASSUME NEW i \in DOMAIN Tail(s), NEW j \in DOMAIN Tail(s),
                      Tail(s)[i].kind = "send", Tail(s)[j].kind = "send"
               PROVE  i = j
    BY DEF OneSends
  <2>1. i + 1 = j + 1 /\ i \in Nat /\ j \in Nat
    BY <1>2, <1>4 DEF OneSends
  <2> QED BY <2>1
<1>5. ASSUME OneSends(s), Head(s).kind = "send", Has(Tail(s), "send") PROVE FALSE
  <2>1. PICK i \in DOMAIN Tail(s) : Tail(s)[i].kind = "send"
    BY <1>5 DEF Has
  <2>2. i + 1 \in DOMAIN s /\ s[i + 1].kind = "send" /\ i + 1 # 1
    BY <1>2, <2>1
  <2> QED BY <1>1, <1>2, <1>5, <2>2, Zenon DEF OneSends
<1> QED BY <1>1, <1>3, <1>4, <1>5

LEMMA WakeFrames ==
  ASSUME stack \in Seq(Frames), NEW kind
  PROVE  /\ Wake(kind) \in Seq(Frames)
         /\ \A k : /\ Has(Wake(kind), k) <=> Has(stack, k)
                   /\ Awaits(Wake(kind), k) <=> Awaits(stack, k) /\ k # kind
         /\ OneSends(stack) => OneSends(Wake(kind))
<1> DEFINE t == Wake(kind)
<1>1. Len(stack) \in Nat /\ DOMAIN stack = 1 .. Len(stack) /\ \A i \in DOMAIN stack : stack[i] \in Frames
  BY LenProperties, ElementOfSeq
<1>2. DOMAIN t = DOMAIN stack
  BY DEF Wake
<1>3. ASSUME NEW i \in DOMAIN stack
      PROVE  /\ t[i] \in Frames
             /\ t[i].kind = stack[i].kind
             /\ t[i].woken <=> stack[i].woken \/ stack[i].kind = kind
  BY <1>1, <1>3 DEF Wake, Frames
<1> HIDE DEF t
<1>4. t \in Seq(Frames)
  <2>1. t \in [1 .. Len(stack) -> Frames]
    <3>1. t = [i \in DOMAIN stack |-> t[i]]
      BY <1>2 DEF Wake, t
    <3> QED BY <1>1, <1>3, <3>1
  <2> QED BY <1>1, <2>1, SeqDef
<1>5. ASSUME NEW k
      PROVE  /\ Has(t, k) <=> Has(stack, k)
             /\ Awaits(t, k) <=> Awaits(stack, k) /\ k # kind
  BY <1>2, <1>3 DEF Has, Awaits
<1>6. OneSends(stack) => OneSends(t)
  BY <1>2, <1>3 DEF OneSends
<1> QED BY <1>4, <1>5, <1>6 DEF t

(* send_tasks_to_slave sends the queue, leaves it to nobody under the trace of the  *)
(* batch before, or finds it empty.                                           *)
LEMMA BatchSent ==
  ASSUME TequilaType, OnePending("server"), queueTasks \in Seq(Nat),
         NEW rest \in Seq(Frames), OneSends(rest),
         Awaits(rest, "send") <=> Asks # <<>> \/ HasReply(News),
         SendTasksToSlave(rest)
  PROVE  /\ TequilaType' /\ OnePending("server")'
         /\ stack' \in Seq(Frames) /\ SendInv'
         /\ Has(stack', "wait") <=> Has(rest, "wait")
         /\ Awaits(stack', "wait") <=> Awaits(rest, "wait")
         /\ queueTasks' = <<>>
         /\ Tells' = Tells /\ News' = News /\ Batches' = Batches /\ store' = store
         /\ copy'["slave"] = copy["slave"]
         /\ SlaveState' = SlaveState /\ FinishSeen' = FinishSeen
         /\ \/ Asks' = Asks
            \/ Asks = <<>> /\ Asks' # <<>> /\ Asks'[1].value = queueTasks
<1>0. /\ "server" \in Procs /\ "slave" \in Procs /\ Keys = {"request", "state", "finish"}
      /\ copy \in [Procs -> [Keys -> Shared]]
      /\ toTequila \in [Procs -> Seq(Requests)] /\ fromTequila \in [Procs -> Seq(Messages)]
      /\ store \in [Keys -> Shared]
      /\ Asks \in Seq(BatchRequests) /\ Batches \in Seq(BatchMessages)
  BY TheProcesses DEF TequilaType, Queues
<1>1. ASSUME WriteSilently("server", "request", queueTasks)
      PROVE  /\ copy' \in [Procs -> [Keys -> Shared]]
             /\ copy'["slave"] = copy["slave"]
             /\ SlaveState' = SlaveState /\ FinishSeen' = FinishSeen
  <2>1. copy' = [copy EXCEPT !["server"]["request"] = queueTasks] /\ queueTasks \in Shared
    BY <1>1 DEF WriteSilently, Shared
  <2>2. copy' \in [Procs -> [Keys -> Shared]] /\ copy'["slave"] = copy["slave"]
    BY <1>0, <2>1
  <2>3. copy'["server"]["state"] = copy["server"]["state"] /\ copy'["server"]["finish"] = copy["server"]["finish"]
    BY <1>0, <2>1
  <2> QED BY <2>2, <2>3 DEF SlaveState, FinishSeen
<1>2. CASE queueTasks = <<>> /\ stack' = rest /\ UNCHANGED <<tequilaVars, queueTasks>>
  <2>1. store' = store /\ copy' = copy /\ toTequila' = toTequila /\ fromTequila' = fromTequila
    BY <1>2 DEF tequilaVars
  <2>2. Asks' = Asks /\ Tells' = Tells /\ News' = News /\ Batches' = Batches
    BY <2>1 DEF Asks, Tells, News, Batches
  <2>3. TequilaType' /\ OnePending("server")'
    BY <1>0, <2>1, <2>2, TequilaTypeKept DEF OnePending
  <2>4. SlaveState' = SlaveState /\ FinishSeen' = FinishSeen
    BY <2>1 DEF SlaveState, FinishSeen
  <2> QED BY <1>2, <2>1, <2>2, <2>3, <2>4 DEF SendInv
<1>3. CASE /\ TraceActive(rest) /\ WriteSilently("server", "request", queueTasks)
           /\ stack' = rest /\ queueTasks' = QueueEmptied
           /\ UNCHANGED <<store, toTequila, fromTequila>>
  <2>1. store' = store /\ toTequila' = toTequila /\ fromTequila' = fromTequila
    BY <1>3
  <2>2. Asks' = Asks /\ Tells' = Tells /\ News' = News /\ Batches' = Batches
    BY <2>1 DEF Asks, Tells, News, Batches
  <2>3. TequilaType' /\ OnePending("server")'
    BY <1>0, <1>1, <1>3, <2>1, <2>2, TequilaTypeKept DEF OnePending
  <2> QED BY <1>1, <1>3, <2>1, <2>2, <2>3 DEF SendInv, QueueEmptied
<1>4. CASE /\ ~TraceActive(rest) /\ Write("server", "request", queueTasks)
           /\ stack' = <<SendFrame>> \o rest /\ queueTasks' = QueueEmptied
           /\ UNCHANGED <<store, fromTequila>>
  <2>1. store' = store /\ fromTequila' = fromTequila
    BY <1>4
  <2>2. ~Has(rest, "send")
    BY <1>4 DEF Has, TraceActive
  <2>3. ~Awaits(rest, "send")
    BY <2>2 DEF Has, Awaits
  <2>4. Asks = <<>> /\ ~HasReply(News)
    BY <2>3
  <2>5. /\ Asks' # <<>> /\ Asks'[1] = [key |-> "request", value |-> queueTasks] /\ Len(Asks') = 1
        /\ Asks' \in Seq(BatchRequests)
        /\ Tells' = Tells
        /\ toTequila' \in [Procs -> Seq(Requests)]
    BY <1>4, <2>4, ServerAsks DEF Write
  <2>6. News' = News /\ Batches' = Batches
    BY <2>1 DEF News, Batches
  <2>7. TequilaType' /\ OnePending("server")'
    <3>1. TequilaType'
      BY <1>0, <1>1, <1>4, <2>1, <2>5, <2>6, TequilaTypeKept DEF Write
    <3>2. AtMostOneReply(News)
      BY DEF OnePending, News
    <3>3. Len(Asks') <= 1 /\ AtMostOneReply(News') /\ ~HasReply(News')
      BY <2>4, <2>5, <2>6, <3>2
    <3>4. OnePending("server")'
      BY <3>3, Zenon DEF OnePending, Asks, News
    <3> QED BY <3>1, <3>4
  <2>8. SendFrame \in Frames /\ SendFrame.kind = "send" /\ ~SendFrame.woken
    BY DEF SendFrame, Frames
  <2> HIDE DEF SendFrame
  <2>9. /\ stack' \in Seq(Frames) /\ OneSends(stack')
        /\ Has(stack', "wait") <=> Has(rest, "wait")
        /\ Awaits(stack', "wait") <=> Awaits(rest, "wait")
        /\ Awaits(stack', "send")
    BY <1>4, <2>2, <2>8, PushFrame
  <2> QED BY <1>1, <1>4, <2>1, <2>4, <2>5, <2>6, <2>7, <2>9 DEF SendInv, QueueEmptied, Write
<1> QED BY <1>2, <1>3, <1>4 DEF SendTasksToSlave

-----------------------------------------------------------------------------
(* The steps of the slave, and what each does to what it holds.             *)

\* What a step of one process leaves alone of the other
ServerStays ==
  /\ UNCHANGED <<queueTasks, lastId, idle, stack, finishes, store>>
  /\ SlaveState' = SlaveState /\ FinishSeen' = FinishSeen
  /\ Asks' = Asks /\ News' = News

SlaveStays ==
  /\ UNCHANGED <<slavePc, slaveQueue, evaluated>>
  /\ Tells' = Tells /\ Batches' = Batches
  /\ Batch' = Batch /\ OwnState' = OwnState

Change(k, v) == [key |-> k, value |-> v]

LEMMA SlaveCopies ==
  ASSUME copy \in [Procs -> [Keys -> Shared]], NEW k \in Keys, NEW v \in Shared,
         WriteSilently("slave", k, v)
  PROVE  /\ copy' \in [Procs -> [Keys -> Shared]]
         /\ SlaveState' = SlaveState /\ FinishSeen' = FinishSeen
         /\ Batch' = IF k = "request" THEN v ELSE Batch
         /\ OwnState' = IF k = "state" THEN v ELSE OwnState
<1>1. copy' = [copy EXCEPT !["slave"][k] = v]
  BY DEF WriteSilently
<1>2. /\ copy' \in [Procs -> [Keys -> Shared]] /\ copy'["server"] = copy["server"]
      /\ \A e \in Keys : copy'["slave"][e] = IF e = k THEN v ELSE copy["slave"][e]
  BY <1>1, TheProcesses
<1>3. SlaveState' = SlaveState /\ FinishSeen' = FinishSeen
  BY <1>2 DEF SlaveState, FinishSeen
<1> QED BY <1>2, <1>3, TheProcesses DEF Batch, OwnState

(* The slave sends a change when nothing of its own is pending. *)
LEMMA SlaveTellsTypes ==
  ASSUME TequilaType, OnePending("server"), Tells = <<>>,
         NEW k, NEW v, Change(k, v) \in Requests, Do("slave", k, v),
         fromTequila' \in [Procs -> Seq(Messages)], News' = News,
         Batches' \in Seq(BatchMessages), AtMostOneReply(Batches'), ~HasReply(Batches'),
         store' = store, copy' \in [Procs -> [Keys -> Shared]]
  PROVE  /\ TequilaType' /\ OnePending("server")' /\ OnePending("slave")'
         /\ Asks' = Asks
         /\ Tells' # <<>> /\ Tells'[1] = Change(k, v)
<1>1. /\ Tells' # <<>> /\ Tells'[1] = Change(k, v) /\ Len(Tells') = 1
      /\ Asks' = Asks
      /\ toTequila' \in [Procs -> Seq(Requests)]
  BY SlaveTells DEF Change
<1>2. TequilaType'
  <2>1. Asks' \in Seq(BatchRequests) /\ store' \in [Keys -> Shared]
    BY <1>1 DEF TequilaType
  <2> QED BY <1>1, <2>1, TequilaTypeKept
<1>3. OnePending("server")'
  BY <1>1, Zenon DEF OnePending, Asks, News
<1>4. OnePending("slave")'
  <2>1. Len(Tells') <= 1
    BY <1>1
  <2> QED BY <2>1, Zenon DEF OnePending, Tells, Batches
<1> QED BY <1>1, <1>2, <1>3, <1>4

(* The slave takes a message and sends nothing. *)
LEMMA SlaveReceivesTypes ==
  ASSUME TequilaType, OnePending("server"), OnePending("slave"), Receive("slave"),
         toTequila' = toTequila, store' = store, copy' \in [Procs -> [Keys -> Shared]]
  PROVE  /\ TequilaType' /\ OnePending("server")' /\ OnePending("slave")'
         /\ Asks' = Asks /\ Tells' = Tells
         /\ HasReply(Batches') <=> HasReply(Batches) /\ NextMessage("slave").op # "Reply"
<1>0. "server" \in Procs /\ "slave" \in Procs /\ Queues(Requests, Messages)
  BY TheProcesses DEF TequilaType
<1>1. /\ Batches' = Tail(Batches) /\ Batches # <<>> /\ News' = News
      /\ fromTequila' \in [Procs -> Seq(Messages)]
  BY SlaveReceives
<1>2. Asks' = Asks /\ Tells' = Tells
  BY DEF Asks, Tells
<1>3. TequilaType'
  <2>1. Batches' \in Seq(BatchMessages)
    BY <1>1, TailOf DEF TequilaType
  <2>2. /\ Asks' \in Seq(BatchRequests) /\ store' \in [Keys -> Shared]
        /\ toTequila' \in [Procs -> Seq(Requests)]
    BY <1>2 DEF TequilaType, Queues
  <2> QED BY <1>1, <2>1, <2>2, TequilaTypeKept
<1>4. /\ OnePending("server")' /\ OnePending("slave")'
      /\ HasReply(fromTequila'["slave"]) <=>
           HasReply(fromTequila["slave"]) /\ NextMessage("slave").op # "Reply"
  <2>1. ASSUME NEW q \in Procs, OnePending(q)
        PROVE  /\ OnePending(q)'
               /\ HasReply(fromTequila'[q]) <=>
                    HasReply(fromTequila[q]) /\ ~(q = "slave" /\ NextMessage("slave").op = "Reply")
    BY <1>0, <2>1, ReceivedKeepsOnePending
  <2> QED BY <1>0, <2>1
<1> QED BY <1>2, <1>3, <1>4 DEF Batches

\* What the types and the pending requests give at each step
LEMMA ProtocolFacts ==
  ASSUME ProtocolInv
  PROVE  /\ TequilaType /\ ServerType /\ SlaveType /\ SendInv
         /\ OnePending("server") /\ OnePending("slave")
         /\ Batches \in Seq(BatchMessages) /\ fromTequila \in [Procs -> Seq(Messages)]
         /\ copy \in [Procs -> [Keys -> Shared]]
         /\ AtMostOneReply(Batches)
         /\ Tells = <<>> \/ ~HasReply(Batches)
         /\ slavePc \in {"loading", "idle", "process"} => Tells = <<>> /\ ~HasReply(Batches)
BY DEF ProtocolInv, TypeInv, PendingInv, TequilaType, Queues, OnePending, Tells, Batches

LEMMA ServerStaysTypes ==
  ASSUME ProtocolInv, ServerStays
  PROVE  ServerType' /\ SendInv'
BY DEF ProtocolInv, TypeInv, ServerStays, ServerType, SendInv

LEMMA SlaveStartsEffect ==
  ASSUME ProtocolInv, SlaveStarts
  PROVE  /\ ProtocolInv' /\ ServerStays
         /\ slavePc = "loading" /\ slavePc' = "announce"
         /\ Tells = <<>> /\ Tells' # <<>> /\ Tells'[1] = Change("state", "ready")
         /\ OwnState' = "ready" /\ Batch' = Batch /\ Batches' = Batches
         /\ UNCHANGED <<slaveQueue, evaluated>>
<1>0. /\ slavePc = "loading" /\ slavePc' = "announce"
      /\ WriteSilently("slave", "state", "ready") /\ Do("slave", "state", "ready")
      /\ store' = store /\ fromTequila' = fromTequila
      /\ UNCHANGED <<queueTasks, lastId, idle, stack, finishes, slaveQueue, evaluated>>
  BY DEF SlaveStarts, SlaveWrites, Write, serverVars
<1>1. News' = News /\ Batches' = Batches
  BY <1>0 DEF News, Batches
<1>2. "state" \in Keys /\ "ready" \in Shared /\ Change("state", "ready") \in Requests
  BY TheProcesses DEF Shared, States, Requests, Change
<1>3. /\ copy' \in [Procs -> [Keys -> Shared]]
      /\ SlaveState' = SlaveState /\ FinishSeen' = FinishSeen
      /\ Batch' = Batch /\ OwnState' = "ready"
  <2>1. /\ copy' \in [Procs -> [Keys -> Shared]]
        /\ SlaveState' = SlaveState /\ FinishSeen' = FinishSeen
        /\ Batch' = IF "state" = "request" THEN "ready" ELSE Batch
        /\ OwnState' = IF "state" = "state" THEN "ready" ELSE OwnState
    BY <1>0, <1>2, ProtocolFacts, SlaveCopies
  <2> QED BY <2>1
<1>4. Tells = <<>> /\ ~HasReply(Batches)
  BY <1>0, ProtocolFacts
<1>5. /\ TequilaType' /\ OnePending("server")' /\ OnePending("slave")'
      /\ Asks' = Asks
      /\ Tells' # <<>> /\ Tells'[1] = Change("state", "ready")
  BY <1>0, <1>1, <1>2, <1>3, <1>4, ProtocolFacts, SlaveTellsTypes
<1>6. ServerStays
  BY <1>0, <1>1, <1>3, <1>5 DEF ServerStays
<1>7. ProtocolInv'
  <2>1. SlaveType' /\ slavePc' \notin {"loading", "idle", "process"}
    BY <1>0, ProtocolFacts DEF SlaveType
  <2> QED BY <1>5, <1>6, <2>1, ServerStaysTypes DEF ProtocolInv, TypeInv, PendingInv
<1> QED BY <1>0, <1>1, <1>3, <1>4, <1>5, <1>6, <1>7

LEMMA BatchArrivesEffect ==
  ASSUME ProtocolInv, BatchArrives
  PROVE  LET m == Head(Batches)
         IN  /\ ProtocolInv' /\ ServerStays
             /\ slavePc = "idle" /\ UNCHANGED evaluated
             /\ Batches # <<>> /\ m.op = "Set" /\ m.value \in Seq(Nat)
             /\ Batches' = Tail(Batches) /\ Batch' = m.value
             /\ Tells = <<>> /\ Tells' # <<>>
             /\ \/ /\ slavePc' = "echo" /\ Tells'[1] = Change("request", m.value)
                   /\ OwnState' = OwnState /\ slaveQueue' = slaveQueue
                \/ /\ slavePc' = "busy" /\ Tells'[1] = Change("state", "busy")
                   /\ OwnState' = "busy" /\ slaveQueue' = m.value
<1> DEFINE m == NextMessage("slave")
<1>0. /\ slavePc = "idle" /\ Receive("slave") /\ IsNews("slave", m)
      /\ store' = store
      /\ UNCHANGED <<queueTasks, lastId, idle, stack, finishes, evaluated>>
  BY DEF BatchArrives, serverVars
<1>1. /\ Batches # <<>> /\ m = Head(Batches)
      /\ Batches' = Tail(Batches) /\ News' = News
      /\ fromTequila' \in [Procs -> Seq(Messages)]
      /\ m.op = "Set" /\ m.key = "request" /\ m.value \in Seq(Nat)
  BY <1>0, ProtocolFacts, SlaveReceives DEF IsNews
<1>2. Tells = <<>> /\ ~HasReply(Batches)
  BY <1>0, ProtocolFacts
<1>3. Batches' \in Seq(BatchMessages) /\ AtMostOneReply(Batches') /\ ~HasReply(Batches')
  BY <1>1, <1>2, ProtocolFacts, TailOf, ReplyInTail
<1>4. /\ "request" \in Keys /\ "state" \in Keys /\ "slave" \in Procs /\ "server" \in Procs
      /\ m.value \in Shared /\ "busy" \in Shared
      /\ Change("request", m.value) \in Requests /\ Change("state", "busy") \in Requests
  BY <1>1, TheProcesses DEF Shared, States, Requests, BatchRequests, Change
<1> HIDE DEF m
<1>5. CASE SlaveWrites("request", m.value, "echo") /\ UNCHANGED slaveQueue
  <2>1. /\ WriteSilently("slave", "request", m.value) /\ Do("slave", "request", m.value)
        /\ slavePc' = "echo"
    BY <1>5 DEF SlaveWrites, Write
  <2>2. /\ copy' \in [Procs -> [Keys -> Shared]]
        /\ SlaveState' = SlaveState /\ FinishSeen' = FinishSeen
        /\ Batch' = m.value /\ OwnState' = OwnState
    <3>1. /\ copy' \in [Procs -> [Keys -> Shared]]
          /\ SlaveState' = SlaveState /\ FinishSeen' = FinishSeen
          /\ Batch' = IF "request" = "request" THEN m.value ELSE Batch
          /\ OwnState' = IF "request" = "state" THEN m.value ELSE OwnState
      BY <2>1, <1>4, ProtocolFacts, SlaveCopies
    <3> QED BY <3>1
  <2>3. /\ TequilaType' /\ OnePending("server")' /\ OnePending("slave")'
        /\ Asks' = Asks
        /\ Tells' # <<>> /\ Tells'[1] = Change("request", m.value)
    BY <1>0, <1>1, <1>2, <1>3, <1>4, <2>1, <2>2, ProtocolFacts, SlaveTellsTypes
  <2>4. ServerStays
    BY <1>0, <1>1, <2>2, <2>3 DEF ServerStays
  <2>5. ProtocolInv'
    <3>1. SlaveType' /\ slavePc' \notin {"loading", "idle", "process"}
      BY <1>0, <1>5, <2>1, ProtocolFacts DEF SlaveType
    <3> QED BY <2>3, <2>4, <3>1, ServerStaysTypes DEF ProtocolInv, TypeInv, PendingInv
  <2> QED BY <1>0, <1>1, <1>2, <1>5, <2>1, <2>2, <2>3, <2>4, <2>5
<1>6. CASE /\ slaveQueue' = m.value
           /\ copy' = [copy EXCEPT !["slave"]["request"] = m.value, !["slave"]["state"] = "busy"]
           /\ Do("slave", "state", "busy")
           /\ slavePc' = "busy"
  <2>1. copy \in [Procs -> [Keys -> Shared]]
    BY ProtocolFacts
  <2>2. /\ copy' \in [Procs -> [Keys -> Shared]] /\ copy'["server"] = copy["server"]
        /\ copy'["slave"]["request"] = m.value /\ copy'["slave"]["state"] = "busy"
    BY <1>4, <1>6, <2>1
  <2>3. /\ SlaveState' = SlaveState /\ FinishSeen' = FinishSeen
        /\ Batch' = m.value /\ OwnState' = "busy"
    BY <2>2 DEF SlaveState, FinishSeen, Batch, OwnState
  <2>4. /\ TequilaType' /\ OnePending("server")' /\ OnePending("slave")'
        /\ Asks' = Asks
        /\ Tells' # <<>> /\ Tells'[1] = Change("state", "busy")
    <3>1. Do("slave", "state", "busy") /\ copy' \in [Procs -> [Keys -> Shared]]
      BY <1>6, <2>2
    <3> QED BY <1>0, <1>1, <1>2, <1>3, <1>4, <3>1, ProtocolFacts, SlaveTellsTypes
  <2>5. ServerStays
    BY <1>0, <1>1, <2>3, <2>4 DEF ServerStays
  <2>6. ProtocolInv'
    <3>1. SlaveType' /\ slavePc' \notin {"loading", "idle", "process"}
      BY <1>0, <1>1, <1>6, ProtocolFacts DEF SlaveType
    <3> QED BY <2>4, <2>5, <3>1, ServerStaysTypes DEF ProtocolInv, TypeInv, PendingInv
  <2> QED BY <1>0, <1>1, <1>2, <1>6, <2>3, <2>4, <2>5, <2>6
<1> QED BY <1>5, <1>6 DEF BatchArrives, m

LEMMA BatchArrivesUnseenEffect ==
  ASSUME ProtocolInv, BatchArrivesUnseen
  PROVE  LET m == Head(Batches)
         IN  /\ ProtocolInv' /\ ServerStays
             /\ slavePc \in {"echo", "busy", "finish", "ready"}
             /\ UNCHANGED <<slavePc, slaveQueue, evaluated>>
             /\ Batches # <<>> /\ m.op = "Set" /\ m.value \in Seq(Nat)
             /\ Batches' = Tail(Batches) /\ Batch' = m.value
             /\ Tells' = Tells /\ OwnState' = OwnState
<1> DEFINE m == NextMessage("slave")
<1>0. /\ slavePc \in {"echo", "busy", "finish", "ready"}
      /\ Receive("slave") /\ IsNews("slave", m)
      /\ copy' = [copy EXCEPT !["slave"][m.key] = m.value]
      /\ store' = store /\ toTequila' = toTequila
      /\ UNCHANGED <<queueTasks, lastId, idle, stack, finishes, slavePc, slaveQueue, evaluated>>
  BY DEF BatchArrivesUnseen, CallBack, SlaveWaits, serverVars
<1>1. /\ Batches # <<>> /\ m = Head(Batches)
      /\ Batches' = Tail(Batches) /\ News' = News
      /\ m.op = "Set" /\ m.key = "request" /\ m.value \in Seq(Nat)
  BY <1>0, ProtocolFacts, SlaveReceives DEF IsNews
<1>2. "request" \in Keys /\ m.value \in Shared
  BY <1>1, TheProcesses DEF Shared
<1>3. WriteSilently("slave", "request", m.value)
  BY <1>0, <1>1 DEF WriteSilently
<1> HIDE DEF m
<1>4. /\ copy' \in [Procs -> [Keys -> Shared]]
      /\ SlaveState' = SlaveState /\ FinishSeen' = FinishSeen
      /\ Batch' = m.value /\ OwnState' = OwnState
  <2>1. /\ copy' \in [Procs -> [Keys -> Shared]]
        /\ SlaveState' = SlaveState /\ FinishSeen' = FinishSeen
        /\ Batch' = IF "request" = "request" THEN m.value ELSE Batch
        /\ OwnState' = IF "request" = "state" THEN m.value ELSE OwnState
    BY <1>2, <1>3, ProtocolFacts, SlaveCopies
  <2> QED BY <2>1
<1>5. /\ TequilaType' /\ OnePending("server")' /\ OnePending("slave")'
      /\ Asks' = Asks /\ Tells' = Tells
  BY <1>0, <1>4, ProtocolFacts, SlaveReceivesTypes
<1>6. ServerStays
  BY <1>0, <1>1, <1>4, <1>5 DEF ServerStays
<1>7. ProtocolInv'
  <2>1. SlaveType' /\ slavePc' \notin {"loading", "idle", "process"}
    BY <1>0, ProtocolFacts DEF SlaveType
  <2> QED BY <1>5, <1>6, <2>1, ServerStaysTypes DEF ProtocolInv, TypeInv, PendingInv
<1> QED BY <1>0, <1>1, <1>4, <1>5, <1>6, <1>7

(* The slave takes the reply to its last write and goes on. *)
Continues(pc, next) ==
  /\ slavePc = pc /\ slavePc' = next
  /\ Batches # <<>> /\ Head(Batches).op = "Reply"
  /\ Batches' = Tail(Batches)
  /\ Tells = <<>>

LEMMA RepliedFacts ==
  ASSUME ProtocolInv, NEW pc, Replied(pc)
  PROVE  /\ Receive("slave") /\ slavePc = pc
         /\ Batches # <<>> /\ Head(Batches).op = "Reply" /\ NextMessage("slave").op = "Reply"
         /\ Batches' = Tail(Batches) /\ News' = News /\ Tells = <<>>
         /\ fromTequila' \in [Procs -> Seq(Messages)]
         /\ Batches' \in Seq(BatchMessages) /\ AtMostOneReply(Batches') /\ ~HasReply(Batches')
<1>0. Receive("slave") /\ slavePc = pc /\ NextMessage("slave").op = "Reply"
  BY DEF Replied
<1>1. /\ Batches # <<>> /\ NextMessage("slave") = Head(Batches)
      /\ Batches' = Tail(Batches) /\ News' = News
      /\ fromTequila' \in [Procs -> Seq(Messages)]
  BY <1>0, ProtocolFacts, SlaveReceives
<1>2. Batches' \in Seq(BatchMessages) /\ AtMostOneReply(Batches') /\ ~HasReply(Batches')
  BY <1>0, <1>1, ProtocolFacts, TailOf, ReplyInTail
<1>3. HasReply(Batches)
  <2>1. 1 \in DOMAIN Batches /\ Batches[1] = Head(Batches)
    BY <1>1, ProtocolFacts, TailOf
  <2> QED BY <1>0, <1>1, <2>1 DEF HasReply
<1>4. Tells = <<>>
  BY <1>3, ProtocolFacts
<1> QED BY <1>0, <1>1, <1>2, <1>4

LEMMA ReturnsEffect ==
  ASSUME ProtocolInv, Announced \/ GoesOn \/ CallBackReturns
  PROVE  /\ ProtocolInv' /\ ServerStays
         /\ \/ Continues("announce", "idle") \/ Continues("busy", "process")
            \/ Continues("finish", "process") \/ Continues("ready", "idle")
         /\ UNCHANGED <<slaveQueue, evaluated>>
         /\ Tells' = Tells /\ Batch' = Batch /\ OwnState' = OwnState
<1>0. /\ Receive("slave") /\ NextMessage("slave").op = "Reply"
      /\ \/ Continues("announce", "idle") \/ Continues("busy", "process")
         \/ Continues("finish", "process") \/ Continues("ready", "idle")
      /\ News' = News
      /\ UNCHANGED <<store, copy, toTequila, queueTasks, lastId, idle, stack, finishes, slaveQueue, evaluated>>
  BY RepliedFacts DEF Announced, GoesOn, CallBackReturns, Continues, serverVars
<1>1. /\ SlaveState' = SlaveState /\ FinishSeen' = FinishSeen
      /\ Batch' = Batch /\ OwnState' = OwnState
  BY <1>0 DEF SlaveState, FinishSeen, Batch, OwnState
<1>2. /\ TequilaType' /\ OnePending("server")' /\ OnePending("slave")'
      /\ Asks' = Asks /\ Tells' = Tells /\ ~HasReply(Batches')
  BY <1>0, ProtocolFacts, SlaveReceivesTypes
<1>3. ServerStays
  BY <1>0, <1>1, <1>2 DEF ServerStays
<1>4. ProtocolInv'
  <2>1. SlaveType' /\ Tells' = <<>>
    BY <1>0, <1>2, ProtocolFacts DEF SlaveType, Continues
  <2> QED BY <1>2, <1>3, <2>1, ServerStaysTypes DEF ProtocolInv, TypeInv, PendingInv
<1> QED BY <1>0, <1>1, <1>2, <1>3, <1>4

LEMMA EchoedEffect ==
  ASSUME ProtocolInv, Echoed, Batch \in Seq(Nat)
  PROVE  /\ ProtocolInv' /\ ServerStays
         /\ slavePc = "echo" /\ slavePc' = "busy"
         /\ Batches # <<>> /\ Head(Batches).op = "Reply" /\ Batches' = Tail(Batches)
         /\ Tells = <<>> /\ Tells' # <<>> /\ Tells'[1] = Change("state", "busy")
         /\ OwnState' = "busy" /\ Batch' = Batch /\ slaveQueue' = Batch
         /\ UNCHANGED evaluated
<1>0. /\ Replied("echo") /\ slavePc' = "busy" /\ slaveQueue' = Batch
      /\ WriteSilently("slave", "state", "busy") /\ Do("slave", "state", "busy")
      /\ store' = store
      /\ UNCHANGED <<queueTasks, lastId, idle, stack, finishes, evaluated>>
  BY DEF Echoed, SlaveWrites, Write, serverVars, Batch
<1>1. /\ Receive("slave") /\ slavePc = "echo"
      /\ Batches # <<>> /\ Head(Batches).op = "Reply"
      /\ Batches' = Tail(Batches) /\ News' = News /\ Tells = <<>>
      /\ fromTequila' \in [Procs -> Seq(Messages)]
      /\ Batches' \in Seq(BatchMessages) /\ AtMostOneReply(Batches') /\ ~HasReply(Batches')
  BY <1>0, RepliedFacts
<1>2. "state" \in Keys /\ "busy" \in Shared /\ Change("state", "busy") \in Requests
  BY TheProcesses DEF Shared, States, Requests, Change
<1>3. /\ copy' \in [Procs -> [Keys -> Shared]]
      /\ SlaveState' = SlaveState /\ FinishSeen' = FinishSeen
      /\ Batch' = Batch /\ OwnState' = "busy"
  <2>1. /\ copy' \in [Procs -> [Keys -> Shared]]
        /\ SlaveState' = SlaveState /\ FinishSeen' = FinishSeen
        /\ Batch' = IF "state" = "request" THEN "busy" ELSE Batch
        /\ OwnState' = IF "state" = "state" THEN "busy" ELSE OwnState
    BY <1>0, <1>2, ProtocolFacts, SlaveCopies
  <2> QED BY <2>1
<1>4. /\ TequilaType' /\ OnePending("server")' /\ OnePending("slave")'
      /\ Asks' = Asks
      /\ Tells' # <<>> /\ Tells'[1] = Change("state", "busy")
  BY <1>0, <1>1, <1>2, <1>3, ProtocolFacts, SlaveTellsTypes
<1>5. ServerStays
  BY <1>0, <1>1, <1>3, <1>4 DEF ServerStays
<1>6. ProtocolInv'
  <2>1. SlaveType' /\ slavePc' \notin {"loading", "idle", "process"}
    BY <1>0, ProtocolFacts DEF SlaveType
  <2> QED BY <1>4, <1>5, <2>1, ServerStaysTypes DEF ProtocolInv, TypeInv, PendingInv
<1> QED BY <1>0, <1>1, <1>3, <1>4, <1>5, <1>6

LEMMA EvaluateTaskEffect ==
  ASSUME ProtocolInv, EvaluateTask
  PROVE  LET t == Head(slaveQueue)
         IN  /\ ProtocolInv' /\ ServerStays
             /\ slavePc = "process" /\ slavePc' = "finish"
             /\ slaveQueue # <<>> /\ t \in Nat
             /\ slaveQueue' = Tail(slaveQueue) /\ evaluated' = Append(evaluated, t)
             /\ Tells = <<>> /\ Tells' # <<>> /\ Tells'[1] = Change("finish", t)
             /\ Batches' = Batches /\ Batch' = Batch /\ OwnState' = OwnState
<1> DEFINE t == Head(slaveQueue)
<1>0. /\ slavePc = "process" /\ slavePc' = "finish" /\ slaveQueue # <<>>
      /\ slaveQueue' = Tail(slaveQueue) /\ evaluated' = Append(evaluated, t)
      /\ WriteSilently("slave", "finish", t) /\ Do("slave", "finish", t)
      /\ store' = store /\ fromTequila' = fromTequila
      /\ UNCHANGED <<queueTasks, lastId, idle, stack, finishes>>
  BY DEF EvaluateTask, SlaveWrites, Write, serverVars
<1>1. News' = News /\ Batches' = Batches
  BY <1>0 DEF News, Batches
<1>2. t \in Nat /\ Tail(slaveQueue) \in Seq(Nat) /\ Append(evaluated, t) \in Seq(Nat)
  <2>1. slaveQueue \in Seq(Nat) /\ evaluated \in Seq(Nat)
    BY ProtocolFacts DEF SlaveType
  <2> QED BY <1>0, <2>1, TailOf, AppendOf
<1> HIDE DEF t
<1>3. "finish" \in Keys /\ t \in Shared /\ Change("finish", t) \in Requests
  BY <1>2, TheProcesses DEF Shared, Requests, Change
<1>4. /\ copy' \in [Procs -> [Keys -> Shared]]
      /\ SlaveState' = SlaveState /\ FinishSeen' = FinishSeen
      /\ Batch' = Batch /\ OwnState' = OwnState
  <2>1. /\ copy' \in [Procs -> [Keys -> Shared]]
        /\ SlaveState' = SlaveState /\ FinishSeen' = FinishSeen
        /\ Batch' = IF "finish" = "request" THEN t ELSE Batch
        /\ OwnState' = IF "finish" = "state" THEN t ELSE OwnState
    BY <1>0, <1>3, ProtocolFacts, SlaveCopies
  <2> QED BY <2>1
<1>5. Tells = <<>> /\ ~HasReply(Batches)
  BY <1>0, ProtocolFacts
<1>6. /\ TequilaType' /\ OnePending("server")' /\ OnePending("slave")'
      /\ Asks' = Asks
      /\ Tells' # <<>> /\ Tells'[1] = Change("finish", t)
  BY <1>0, <1>1, <1>3, <1>4, <1>5, ProtocolFacts, SlaveTellsTypes
<1>7. ServerStays
  BY <1>0, <1>1, <1>4, <1>6 DEF ServerStays
<1>8. ProtocolInv'
  <2>1. SlaveType' /\ slavePc' \notin {"loading", "idle", "process"}
    BY <1>0, <1>2, ProtocolFacts DEF SlaveType
  <2> QED BY <1>6, <1>7, <2>1, ServerStaysTypes DEF ProtocolInv, TypeInv, PendingInv
<1> QED BY <1>0, <1>1, <1>2, <1>4, <1>5, <1>6, <1>7, <1>8 DEF t

LEMMA BatchDoneEffect ==
  ASSUME ProtocolInv, BatchDone
  PROVE  /\ ProtocolInv' /\ ServerStays
         /\ slavePc = "process" /\ slavePc' = "ready" /\ slaveQueue = <<>>
         /\ Tells = <<>> /\ Tells' # <<>> /\ Tells'[1] = Change("state", "ready")
         /\ OwnState' = "ready" /\ Batch' = Batch /\ Batches' = Batches
         /\ UNCHANGED <<slaveQueue, evaluated>>
<1>0. /\ slavePc = "process" /\ slavePc' = "ready" /\ slaveQueue = <<>>
      /\ WriteSilently("slave", "state", "ready") /\ Do("slave", "state", "ready")
      /\ store' = store /\ fromTequila' = fromTequila
      /\ UNCHANGED <<queueTasks, lastId, idle, stack, finishes, slaveQueue, evaluated>>
  BY DEF BatchDone, SlaveWrites, Write, StateAfterBatch, serverVars
<1>1. News' = News /\ Batches' = Batches
  BY <1>0 DEF News, Batches
<1>2. "state" \in Keys /\ "ready" \in Shared /\ Change("state", "ready") \in Requests
  BY TheProcesses DEF Shared, States, Requests, Change
<1>3. /\ copy' \in [Procs -> [Keys -> Shared]]
      /\ SlaveState' = SlaveState /\ FinishSeen' = FinishSeen
      /\ Batch' = Batch /\ OwnState' = "ready"
  <2>1. /\ copy' \in [Procs -> [Keys -> Shared]]
        /\ SlaveState' = SlaveState /\ FinishSeen' = FinishSeen
        /\ Batch' = IF "state" = "request" THEN "ready" ELSE Batch
        /\ OwnState' = IF "state" = "state" THEN "ready" ELSE OwnState
    BY <1>0, <1>2, ProtocolFacts, SlaveCopies
  <2> QED BY <2>1
<1>4. Tells = <<>> /\ ~HasReply(Batches)
  BY <1>0, ProtocolFacts
<1>5. /\ TequilaType' /\ OnePending("server")' /\ OnePending("slave")'
      /\ Asks' = Asks
      /\ Tells' # <<>> /\ Tells'[1] = Change("state", "ready")
  BY <1>0, <1>1, <1>2, <1>3, <1>4, ProtocolFacts, SlaveTellsTypes
<1>6. ServerStays
  BY <1>0, <1>1, <1>3, <1>5 DEF ServerStays
<1>7. ProtocolInv'
  <2>1. SlaveType' /\ slavePc' \notin {"loading", "idle", "process"}
    BY <1>0, ProtocolFacts DEF SlaveType
  <2> QED BY <1>5, <1>6, <2>1, ServerStaysTypes DEF ProtocolInv, TypeInv, PendingInv
<1> QED BY <1>0, <1>1, <1>3, <1>4, <1>5, <1>6, <1>7

-----------------------------------------------------------------------------
(* The steps of the data server, the server and its clients.                *)

TequilaStays ==
  /\ Asks' = Asks /\ Tells' = Tells /\ News' = News /\ Batches' = Batches
  /\ FinishStored' = FinishStored /\ StateStored' = StateStored
  /\ SlaveState' = SlaveState /\ FinishSeen' = FinishSeen
  /\ Batch' = Batch /\ OwnState' = OwnState

ProcessesStay == UNCHANGED <<queueTasks, lastId, idle, stack, finishes, slavePc, slaveQueue, evaluated>>

LEMMA NothingWritten ==
  ASSUME UNCHANGED tequilaVars
  PROVE  /\ TequilaStays
         /\ TequilaType => TequilaType'
         /\ \A p \in Procs : OnePending(p) => OnePending(p)'
         /\ PendingInv /\ UNCHANGED slavePc => PendingInv'
         /\ SendInv /\ UNCHANGED stack => SendInv'
<1>1. store' = store /\ copy' = copy /\ toTequila' = toTequila /\ fromTequila' = fromTequila
  BY DEF tequilaVars
<1>2. Asks' = Asks /\ Tells' = Tells /\ News' = News /\ Batches' = Batches
  BY <1>1 DEF Asks, Tells, News, Batches
<1>3. TequilaStays
  BY <1>1, <1>2 DEF TequilaStays, FinishStored, StateStored, SlaveState, FinishSeen, Batch, OwnState
<1>4. TequilaType => TequilaType'
  BY <1>1, <1>2 DEF TequilaType, Queues
<1>5. \A p \in Procs : OnePending(p) => OnePending(p)'
  BY <1>1 DEF OnePending
<1>6. PendingInv /\ UNCHANGED slavePc => PendingInv'
  BY <1>2, <1>5, TheProcesses DEF PendingInv
<1>7. SendInv /\ UNCHANGED stack => SendInv'
  BY <1>2 DEF SendInv
<1> QED BY <1>3, <1>4, <1>5, <1>6, <1>7

LEMMA BatchServedEffect ==
  ASSUME ProtocolInv, TqsRequest("server"), UNCHANGED <<serverVars, slaveVars, finishes>>
  PROVE  LET v == Asks[1].value
         IN  /\ ProtocolInv' /\ ProcessesStay
             /\ Asks # <<>> /\ 1 \in DOMAIN Asks /\ v \in Seq(Nat)
             /\ Asks' = <<>> /\ Tells' = Tells
             /\ News' = Append(News, ReplyMessage)
             /\ Batches' = Batches \/ Batches' = Append(Batches, SetMessage("request", v))
             /\ FinishStored' = FinishStored /\ StateStored' = StateStored
             /\ SlaveState' = SlaveState /\ FinishSeen' = FinishSeen
             /\ Batch' = Batch /\ OwnState' = OwnState
<1> DEFINE v == Asks[1].value
<1>0. ProcessesStay
  BY DEF ProcessesStay, serverVars, slaveVars
<1>1. /\ Asks # <<>> /\ 1 \in DOMAIN Asks /\ v \in Seq(Nat)
      /\ Asks' = <<>> /\ Tells' = Tells
      /\ News' = Append(News, ReplyMessage)
      /\ Batches' = Batches \/ Batches' = Append(Batches, SetMessage("request", v))
      /\ store' = [store EXCEPT !["request"] = v]
      /\ copy' = copy
  BY ProtocolFacts, BatchServed
<1> HIDE DEF v
<1>2. /\ FinishStored' = FinishStored /\ StateStored' = StateStored
      /\ SlaveState' = SlaveState /\ FinishSeen' = FinishSeen
      /\ Batch' = Batch /\ OwnState' = OwnState
  <2>1. store \in [Keys -> Shared]
    BY ProtocolFacts DEF TequilaType
  <2> QED BY <1>1, <2>1, TheProcesses
          DEF FinishStored, StateStored, SlaveState, FinishSeen, Batch, OwnState
<1>3. /\ OnePending("server")' /\ OnePending("slave")'
      /\ HasReply(Batches') <=> HasReply(Batches)
      /\ HasReply(News')
  <2>1. /\ "server" \in Procs /\ "slave" \in Procs /\ Queues(Requests, Messages)
        /\ OnePending("server") /\ OnePending("slave")
    BY ProtocolFacts, TheProcesses DEF TequilaType
  <2>2. ASSUME NEW q \in Procs, OnePending(q)
        PROVE  OnePending(q)' /\ (HasReply(fromTequila'[q]) <=> q = "server" \/ HasReply(fromTequila[q]))
    BY <2>1, <2>2, ServedKeepsOnePending
  <2> QED BY <2>1, <2>2 DEF News, Batches
<1>4. TequilaType'
  <2>1. TequilaType /\ OnePending("server") /\ OnePending("slave") /\ "server" \in Procs
    BY ProtocolFacts, TheProcesses
  <2> QED BY <2>1, ServedTypes
<1>5. SendInv'
  <2>1. OneSends(stack) /\ Awaits(stack, "send") /\ stack' = stack
    BY <1>0, <1>1, ProtocolFacts DEF SendInv, ProcessesStay
  <2> QED BY <1>3, <2>1 DEF SendInv
<1>6. ServerType' /\ SlaveType' /\ PendingInv'
  BY <1>0, <1>1, <1>3, ProtocolFacts DEF ServerType, SlaveType, PendingInv, ProcessesStay
<1> QED BY <1>0, <1>1, <1>2, <1>4, <1>5, <1>6 DEF ProtocolInv, TypeInv, v

LEMMA ChangeServedEffect ==
  ASSUME ProtocolInv, TqsRequest("slave"), UNCHANGED <<serverVars, slaveVars, finishes>>
  PROVE  LET r == Tells[1]
         IN  /\ ProtocolInv' /\ ProcessesStay
             /\ Tells # <<>> /\ 1 \in DOMAIN Tells /\ r \in Requests
             /\ Asks' = Asks /\ Tells' = <<>>
             /\ News' = News \/ News' = Append(News, SetMessage(r.key, r.value))
             /\ News' = News /\ r.key = "state" => StateStored = r.value
             /\ News' = News /\ r.key = "finish" => FinishStored = r.value
             /\ Batches' = Append(Batches, ReplyMessage)
             /\ FinishStored' = IF r.key = "finish" THEN r.value ELSE FinishStored
             /\ StateStored' = IF r.key = "state" THEN r.value ELSE StateStored
             /\ SlaveState' = SlaveState /\ FinishSeen' = FinishSeen
             /\ Batch' = Batch /\ OwnState' = OwnState
<1> DEFINE r == Tells[1]
           m == SetMessage(r.key, r.value)
<1>0. ProcessesStay
  BY DEF ProcessesStay, serverVars, slaveVars
<1>1. /\ Tells # <<>> /\ 1 \in DOMAIN Tells /\ r \in Requests
      /\ Asks' = Asks /\ Tells' = <<>>
      /\ News' = IF store[r.key] # r.value THEN Append(News, m) ELSE News
      /\ Batches' = Append(Batches, ReplyMessage)
      /\ store' = [store EXCEPT ![r.key] = r.value]
      /\ copy' = copy
  BY ProtocolFacts, ChangeServed
<1>2. r.key \in Keys /\ store \in [Keys -> Shared] /\ News \in Seq(Messages) /\ m \in Messages
  <2>1. r.key \in Keys
    BY <1>1, TheProcesses DEF Requests, BatchRequests
  <2>2. m \in Messages
    BY <1>1 DEF Requests, BatchRequests, Messages, BatchMessages, SetMessage
  <2>3. News \in Seq(Messages) /\ store \in [Keys -> Shared]
    BY ProtocolFacts, QueueTypes DEF TequilaType
  <2> QED BY <2>1, <2>2, <2>3
<1> HIDE DEF r, m
<1>3. /\ News' = News \/ News' = Append(News, m)
      /\ News' = News /\ r.key = "state" => StateStored = r.value
      /\ News' = News /\ r.key = "finish" => FinishStored = r.value
  <2>1. Append(News, m) # News
    <3>1. Len(Append(News, m)) = Len(News) + 1 /\ Len(News) \in Nat
      BY <1>2, AppendOf
    <3> QED BY <3>1
  <2> QED BY <1>1, <2>1 DEF StateStored, FinishStored
<1>4. /\ FinishStored' = IF r.key = "finish" THEN r.value ELSE FinishStored
      /\ StateStored' = IF r.key = "state" THEN r.value ELSE StateStored
      /\ SlaveState' = SlaveState /\ FinishSeen' = FinishSeen
      /\ Batch' = Batch /\ OwnState' = OwnState
  BY <1>1, <1>2, TheProcesses
     DEF FinishStored, StateStored, SlaveState, FinishSeen, Batch, OwnState
<1>5. /\ OnePending("server")' /\ OnePending("slave")'
      /\ HasReply(News') <=> HasReply(News)
  <2>1. /\ "server" \in Procs /\ "slave" \in Procs /\ Queues(Requests, Messages)
        /\ OnePending("server") /\ OnePending("slave")
    BY ProtocolFacts, TheProcesses DEF TequilaType
  <2>2. ASSUME NEW q \in Procs, OnePending(q)
        PROVE  OnePending(q)' /\ (HasReply(fromTequila'[q]) <=> q = "slave" \/ HasReply(fromTequila[q]))
    BY <2>1, <2>2, ServedKeepsOnePending
  <2> QED BY <2>1, <2>2 DEF News
<1>6. TequilaType'
  <2>1. TequilaType /\ OnePending("server") /\ OnePending("slave") /\ "slave" \in Procs
    BY ProtocolFacts, TheProcesses
  <2> QED BY <2>1, ServedTypes
<1>7. SendInv'
  BY <1>0, <1>1, <1>5, ProtocolFacts DEF SendInv, ProcessesStay
<1>8. ServerType' /\ SlaveType' /\ PendingInv'
  BY <1>0, <1>1, <1>5, ProtocolFacts DEF ServerType, SlaveType, PendingInv, ProcessesStay
<1> QED BY <1>0, <1>1, <1>3, <1>4, <1>6, <1>7, <1>8 DEF ProtocolInv, TypeInv, r, m

\* A step of the server that writes nothing
LEMMA SlaveStaysTypes ==
  ASSUME ProtocolInv, SlaveStays, TequilaType', OnePending("server")', OnePending("slave")',
         ServerType', SendInv'
  PROVE  ProtocolInv'
BY ProtocolFacts DEF ProtocolInv, TypeInv, PendingInv, SlaveStays, SlaveType

LEMMA OnTolevalEffect ==
  ASSUME ProtocolInv, NEW c, OnToleval(c)
  PROVE  /\ ProtocolInv' /\ TequilaStays
         /\ lastId' = lastId + 1
         /\ queueTasks' = Append(queueTasks, lastId + 1)
         /\ idle' = Append(idle, [do |-> "dispatch"])
         /\ EarlyClients \/ SlaveState # Absent
         /\ UNCHANGED <<stack, finishes, slavePc, slaveQueue, evaluated>>
<1>0. /\ lastId' = lastId + 1
      /\ queueTasks' = Append(queueTasks, lastId + 1)
      /\ idle' = Append(idle, [do |-> "dispatch"])
      /\ EarlyClients \/ SlaveState # Absent
      /\ UNCHANGED <<tequilaVars, stack, finishes, slavePc, slaveQueue, evaluated>>
  BY DEF OnToleval, AfterIdle, slaveVars
<1>1. /\ TequilaStays /\ TequilaType' /\ OnePending("server")' /\ OnePending("slave")' /\ SendInv'
  BY <1>0, ProtocolFacts, TheProcesses, NothingWritten
<1>2. ServerType'
  <2>1. lastId \in Nat /\ queueTasks \in Seq(Nat) /\ idle \in Seq(CallBacks)
    BY ProtocolFacts DEF ServerType
  <2>2. lastId + 1 \in Nat
    BY <2>1
  <2>3. [do |-> "dispatch"] \in CallBacks
    BY DEF CallBacks
  <2>4. Append(queueTasks, lastId + 1) \in Seq(Nat) /\ Append(idle, [do |-> "dispatch"]) \in Seq(CallBacks)
    BY <2>1, <2>2, <2>3, AppendOf
  <2> QED BY <1>0, <2>2, <2>4, ProtocolFacts DEF ServerType
<1>3. SlaveStays
  BY <1>0, <1>1 DEF SlaveStays, TequilaStays
<1> QED BY <1>0, <1>1, <1>2, <1>3, SlaveStaysTypes

(* What dispatching a batch may leave: the queue is empty, and what was in it is  *)
(* asked to be stored, or is lost.                                            *)
QueueTaken ==
  /\ queueTasks' = <<>>
  /\ Asks' = Asks \/ (Asks = <<>> /\ Asks' # <<>> /\ Asks'[1].value = queueTasks)

QueueKept == queueTasks' = queueTasks /\ Asks' = Asks

\* What the server's own steps leave alone
ServerListens ==
  /\ UNCHANGED <<lastId, finishes>>
  /\ News' = News /\ FinishStored' = FinishStored /\ StateStored' = StateStored
  /\ SlaveState' = SlaveState /\ FinishSeen' = FinishSeen

LEMMA BatchSentEffect ==
  ASSUME ProtocolInv, NEW rest \in Seq(Frames), OneSends(rest),
         Awaits(rest, "send") <=> Asks # <<>> \/ HasReply(News),
         SendTasksToSlave(rest),
         UNCHANGED <<lastId, finishes, slavePc, slaveQueue, evaluated>>
  PROVE  /\ SlaveStays /\ ServerListens /\ QueueTaken
         /\ Has(stack', "wait") <=> Has(rest, "wait")
         /\ Awaits(stack', "wait") <=> Awaits(rest, "wait")
         /\ idle' \in Seq(CallBacks) => ProtocolInv'
<1>1. /\ TequilaType' /\ OnePending("server")'
      /\ stack' \in Seq(Frames) /\ SendInv'
      /\ Has(stack', "wait") <=> Has(rest, "wait")
      /\ Awaits(stack', "wait") <=> Awaits(rest, "wait")
      /\ queueTasks' = <<>>
      /\ Tells' = Tells /\ News' = News /\ Batches' = Batches /\ store' = store
      /\ copy'["slave"] = copy["slave"]
      /\ SlaveState' = SlaveState /\ FinishSeen' = FinishSeen
      /\ \/ Asks' = Asks
         \/ Asks = <<>> /\ Asks' # <<>> /\ Asks'[1].value = queueTasks
  BY ProtocolFacts, BatchSent DEF ServerType
<1>2. SlaveStays
  BY <1>1 DEF SlaveStays, Batch, OwnState
<1>3. ServerListens /\ QueueTaken
  BY <1>1 DEF ServerListens, QueueTaken, FinishStored, StateStored
<1>4. OnePending("slave")'
  BY <1>1, ProtocolFacts DEF OnePending, Tells, Batches
<1>5. idle' \in Seq(CallBacks) => ServerType'
  <2>1. <<>> \in Seq(Nat)
    BY EmptySeq
  <2> QED BY <1>1, <2>1, ProtocolFacts DEF ServerType
<1> QED BY <1>1, <1>2, <1>3, <1>4, <1>5, SlaveStaysTypes

LEMMA DispatchEffect ==
  ASSUME ProtocolInv, DispatchToSlave
  PROVE  /\ ProtocolInv' /\ SlaveStays /\ ServerListens
         /\ idle # <<>> /\ Head(idle).do = "dispatch" /\ idle' = Tail(idle)
         /\ \/ SlaveState = Absent /\ QueueKept /\ UNCHANGED stack
            \/ /\ SlaveState \notin {Absent, "ready"} /\ QueueKept
               /\ Has(stack', "wait")
            \/ /\ QueueTaken
               /\ Has(stack', "wait") <=> Has(stack, "wait")
               /\ Awaits(stack', "wait") <=> Awaits(stack, "wait")
<1>0. /\ idle # <<>> /\ Head(idle).do = "dispatch" /\ idle' = Tail(idle)
      /\ UNCHANGED <<lastId, finishes, slavePc, slaveQueue, evaluated>>
  BY DEF DispatchToSlave, slaveVars
<1>1. /\ idle' \in Seq(CallBacks)
      /\ stack \in Seq(Frames) /\ OneSends(stack)
      /\ Awaits(stack, "send") <=> Asks # <<>> \/ HasReply(News)
  <2>1. idle \in Seq(CallBacks)
    BY ProtocolFacts DEF ServerType
  <2>2. Tail(idle) \in Seq(CallBacks)
    BY <1>0, <2>1, TailOf
  <2> QED BY <1>0, <2>2, ProtocolFacts DEF ServerType, SendInv
<1>2. ASSUME UNCHANGED <<tequilaVars, queueTasks>>
      PROVE  /\ SlaveStays /\ ServerListens /\ QueueKept
             /\ stack' \in Seq(Frames) /\ SendInv' => ProtocolInv'
  <2>1. /\ TequilaStays /\ TequilaType' /\ OnePending("server")' /\ OnePending("slave")'
    BY <1>2, ProtocolFacts, TheProcesses, NothingWritten
  <2>2. SlaveStays /\ ServerListens /\ QueueKept
    BY <1>0, <1>2, <2>1 DEF SlaveStays, ServerListens, QueueKept, TequilaStays
  <2>3. stack' \in Seq(Frames) => ServerType'
    BY <1>0, <1>1, <1>2, ProtocolFacts DEF ServerType
  <2> QED BY <2>1, <2>2, <2>3, SlaveStaysTypes
<1>3. CASE SlaveState = Absent /\ UNCHANGED <<tequilaVars, queueTasks, stack>>
  <2>1. SendInv' /\ stack' \in Seq(Frames)
    BY <1>1, <1>3, ProtocolFacts, NothingWritten
  <2> QED BY <1>0, <1>2, <1>3, <2>1
<1>4. CASE /\ SlaveState \notin {Absent, "ready"}
           /\ stack' = <<WaitFrame>> \o stack
           /\ UNCHANGED <<tequilaVars, queueTasks>>
  <2>1. WaitFrame \in Frames /\ WaitFrame.kind = "wait" /\ ~WaitFrame.woken
    BY DEF WaitFrame, Frames
  <2> HIDE DEF WaitFrame
  <2>2. /\ stack' \in Seq(Frames) /\ OneSends(stack')
        /\ Has(stack', "wait")
        /\ Awaits(stack', "send") <=> Awaits(stack, "send")
    BY <1>1, <1>4, <2>1, PushFrame
  <2>3. SendInv'
    <3>1. Asks' = Asks /\ News' = News
      BY <1>4, NothingWritten DEF TequilaStays
    <3> QED BY <1>1, <2>2, <3>1 DEF SendInv
  <2> QED BY <1>0, <1>2, <1>4, <2>2, <2>3
<1>5. CASE SendTasksToSlave(stack)
  BY <1>0, <1>1, <1>5, BatchSentEffect
<1> QED BY <1>3, <1>4, <1>5 DEF DispatchToSlave

LEMMA ResumeEffect ==
  ASSUME ProtocolInv, Resume
  PROVE  /\ ProtocolInv' /\ SlaveStays /\ ServerListens
         /\ UNCHANGED idle
         /\ Awaits(stack', "wait") <=> Awaits(stack, "wait")
         /\ QueueTaken \/ (QueueKept /\ (Has(stack', "wait") <=> Has(stack, "wait")))
<1> DEFINE f == Head(stack)
           rest == Tail(stack)
<1>0. /\ stack # <<>> /\ f.woken
      /\ UNCHANGED <<lastId, idle, finishes, slavePc, slaveQueue, evaluated>>
  BY DEF Resume, InEventLoop, slaveVars
<1>1. /\ stack \in Seq(Frames) /\ idle \in Seq(CallBacks) /\ OneSends(stack)
      /\ Awaits(stack, "send") <=> Asks # <<>> \/ HasReply(News)
  BY ProtocolFacts DEF ServerType, SendInv
<1>2. /\ f \in Frames /\ rest \in Seq(Frames) /\ OneSends(rest)
      /\ \A k : /\ Has(stack, k) <=> f.kind = k \/ Has(rest, k)
                /\ Awaits(stack, k) <=> Awaits(rest, k)
  BY <1>0, <1>1, PopFrame
<1> HIDE DEF f, rest
<1>3. CASE f.kind = "wait" /\ SendTasksToSlave(rest)
  <2>1. Awaits(rest, "send") <=> Asks # <<>> \/ HasReply(News)
    BY <1>1, <1>2
  <2>2. /\ SlaveStays /\ ServerListens /\ QueueTaken
        /\ Awaits(stack', "wait") <=> Awaits(rest, "wait")
        /\ idle' \in Seq(CallBacks) => ProtocolInv'
    BY <1>0, <1>2, <1>3, <2>1, BatchSentEffect
  <2> QED BY <1>0, <1>1, <1>2, <2>2
<1>4. CASE f.kind = "send" /\ stack' = rest /\ UNCHANGED <<tequilaVars, queueTasks>>
  <2>1. /\ TequilaStays /\ TequilaType' /\ OnePending("server")' /\ OnePending("slave")'
    BY <1>4, ProtocolFacts, TheProcesses, NothingWritten
  <2>2. SlaveStays /\ ServerListens /\ QueueKept
    BY <1>0, <1>4, <2>1 DEF SlaveStays, ServerListens, QueueKept, TequilaStays
  <2>3. ServerType' /\ SendInv'
    BY <1>0, <1>1, <1>2, <1>4, <2>1, ProtocolFacts DEF ServerType, SendInv, TequilaStays
  <2>4. Has(stack', "wait") <=> Has(stack, "wait")
    BY <1>2, <1>4
  <2> QED BY <1>0, <1>2, <1>4, <2>1, <2>2, <2>3, <2>4, SlaveStaysTypes
<1> QED BY <1>3, <1>4 DEF Resume, f, rest

LEMMA ServerCallBackEffect ==
  ASSUME ProtocolInv, ServerCallBack
  PROVE  LET m == Head(News)
         IN  /\ ProtocolInv' /\ SlaveStays
             /\ UNCHANGED <<queueTasks, lastId, finishes>>
             /\ Asks' = Asks /\ FinishStored' = FinishStored /\ StateStored' = StateStored
             /\ News # <<>> /\ m \in Messages /\ News' = Tail(News)
             /\ SlaveState' = IF m.op = "Set" /\ m.key = "state" THEN m.value ELSE SlaveState
             /\ FinishSeen' = IF m.op = "Set" /\ m.key = "finish" THEN m.value ELSE FinishSeen
             /\ Has(stack', "wait") <=> Has(stack, "wait")
             /\ Awaits(stack', "wait") => Awaits(stack, "wait") /\ SlaveState' = SlaveState
             /\ idle' = IF m.op = "Set" /\ m.key = "finish" /\ FinishSeen # m.value
                        THEN Append(idle, [do |-> "finish", task |-> m.value]) ELSE idle
<1> DEFINE m == NextMessage("server")
<1>0. /\ CallBack("server")
      /\ UNCHANGED <<queueTasks, lastId, finishes, slavePc, slaveQueue, evaluated>>
  BY DEF ServerCallBack, slaveVars
<1>1. /\ News # <<>> /\ m = Head(News) /\ m \in Messages
      /\ News' = Tail(News) /\ Batches' = Batches
      /\ Asks' = Asks /\ Tells' = Tells
      /\ store' = store
      /\ copy'["slave"] = copy["slave"]
      /\ \A k \in Keys :
           copy'["server"][k] = IF m.op = "Set" /\ m.key = k THEN m.value ELSE copy["server"][k]
      /\ copy' \in [Procs -> [Keys -> Shared]]
  BY <1>0, ProtocolFacts, ServerReceives
<1>2. /\ \/ m.op = "Reply" /\ stack' = Wake("send") /\ UNCHANGED idle
         \/ IsNews("server", m) /\ m.key = "state" /\ stack' = Wake("wait") /\ UNCHANGED idle
         \/ /\ IsNews("server", m) /\ m.key = "finish" /\ UNCHANGED stack
            /\ idle' = Append(idle, [do |-> "finish", task |-> m.value])
         \/ /\ m.op = "Set" /\ (~IsNews("server", m) \/ m.key = "request")
            /\ UNCHANGED <<idle, stack>>
  BY DEF ServerCallBack, AfterIdle
<1>3. /\ Receive("server") /\ toTequila' = toTequila
  BY <1>0 DEF CallBack
<1> HIDE DEF m
<1>4. /\ SlaveState' = IF m.op = "Set" /\ m.key = "state" THEN m.value ELSE SlaveState
      /\ FinishSeen' = IF m.op = "Set" /\ m.key = "finish" THEN m.value ELSE FinishSeen
      /\ FinishStored' = FinishStored /\ StateStored' = StateStored
      /\ Batch' = Batch /\ OwnState' = OwnState
  BY <1>1, TheProcesses DEF SlaveState, FinishSeen, FinishStored, StateStored, Batch, OwnState
<1>5. SlaveStays
  BY <1>0, <1>1, <1>4 DEF SlaveStays
<1>6. /\ m.op = "Reply" => m.op # "Set"
      /\ m.op = "Set" => m.key \in Keys
      /\ m.op = "Set" /\ m.key = "finish" => m.value \in Nat
  BY <1>1, TheProcesses DEF Messages, BatchMessages, ReplyMessage
<1>7. /\ m.op = "Set" /\ m.key = "state" => (IsNews("server", m) <=> SlaveState # m.value)
      /\ m.op = "Set" /\ m.key = "finish" => (IsNews("server", m) <=> FinishSeen # m.value)
      /\ IsNews("server", m) => m.op = "Set"
  BY DEF IsNews, SlaveState, FinishSeen
<1>8. idle' = IF m.op = "Set" /\ m.key = "finish" /\ FinishSeen # m.value
              THEN Append(idle, [do |-> "finish", task |-> m.value]) ELSE idle
  BY <1>2, <1>6, <1>7
<1>9. /\ stack \in Seq(Frames) /\ OneSends(stack) /\ idle \in Seq(CallBacks)
      /\ Awaits(stack, "send") <=> Asks # <<>> \/ HasReply(News)
  BY ProtocolFacts DEF ServerType, SendInv
<1>10. /\ stack' \in Seq(Frames) /\ OneSends(stack')
       /\ Has(stack', "wait") <=> Has(stack, "wait")
       /\ Awaits(stack', "send") <=> Awaits(stack, "send") /\ m.op # "Reply"
       /\ Awaits(stack', "wait") <=> Awaits(stack, "wait") /\ ~(IsNews("server", m) /\ m.key = "state")
  <2>1. ASSUME NEW kind
        PROVE  /\ Wake(kind) \in Seq(Frames) /\ OneSends(Wake(kind))
               /\ Has(Wake(kind), "wait") <=> Has(stack, "wait")
               /\ Awaits(Wake(kind), "send") <=> Awaits(stack, "send") /\ "send" # kind
               /\ Awaits(Wake(kind), "wait") <=> Awaits(stack, "wait") /\ "wait" # kind
    BY <1>9, WakeFrames
  <2>2. CASE m.op = "Reply" /\ stack' = Wake("send")
    BY <1>6, <1>7, <2>1, <2>2
  <2>3. CASE IsNews("server", m) /\ m.key = "state" /\ stack' = Wake("wait")
    BY <1>6, <1>7, <2>1, <2>3
  <2>4. CASE m.op = "Set" /\ ~(IsNews("server", m) /\ m.key = "state") /\ UNCHANGED stack
    BY <1>6, <1>9, <2>4
  <2> QED BY <1>2, <1>7, <2>2, <2>3, <2>4
<1>11. Awaits(stack', "wait") => Awaits(stack, "wait") /\ SlaveState' = SlaveState
  BY <1>4, <1>7, <1>10
<1>12. /\ OnePending("server")' /\ OnePending("slave")'
       /\ fromTequila' \in [Procs -> Seq(Messages)]
       /\ HasReply(News') <=> HasReply(News) /\ m.op # "Reply"
  <2>1. /\ "server" \in Procs /\ "slave" \in Procs /\ Queues(Requests, Messages)
        /\ OnePending("server") /\ OnePending("slave")
    BY ProtocolFacts, TheProcesses DEF TequilaType
  <2>2. ASSUME NEW q \in Procs, OnePending(q)
        PROVE  /\ OnePending(q)' /\ fromTequila' \in [Procs -> Seq(Messages)]
               /\ HasReply(fromTequila'[q]) <=>
                    HasReply(fromTequila[q]) /\ ~(q = "server" /\ m.op = "Reply")
    BY <1>3, <2>1, <2>2, ReceivedKeepsOnePending DEF m
  <2> QED BY <2>1, <2>2 DEF News
<1>13. TequilaType'
  <2>1. /\ Asks' \in Seq(BatchRequests) /\ Batches' \in Seq(BatchMessages)
        /\ store' \in [Keys -> Shared] /\ toTequila' \in [Procs -> Seq(Requests)]
    BY <1>1, <1>3, ProtocolFacts DEF TequilaType, Queues
  <2> QED BY <1>1, <1>12, <2>1, ProtocolFacts, TequilaTypeKept
<1>14. SendInv'
  <2>1. Asks # <<>> => ~HasReply(News)
    BY ProtocolFacts DEF OnePending, Asks, News
  <2>2. m.op = "Reply" => HasReply(News)
    <3>1. 1 \in DOMAIN News /\ News[1] = m
      BY <1>1, QueueTypes, ProtocolFacts, TailOf
    <3> QED BY <3>1 DEF HasReply
  <2>3. Awaits(stack', "send") <=> Asks' # <<>> \/ HasReply(News')
    BY <1>1, <1>9, <1>10, <1>12, <2>1, <2>2
  <2> QED BY <1>10, <2>3 DEF SendInv
<1>15. ServerType'
  <2>1. idle' \in Seq(CallBacks)
    <3>1. CASE m.op = "Set" /\ m.key = "finish" /\ FinishSeen # m.value
      <4>1. [do |-> "finish", task |-> m.value] \in CallBacks
        BY <1>6, <3>1 DEF CallBacks
      <4> QED BY <1>8, <1>9, <3>1, <4>1, AppendOf
    <3>2. CASE ~(m.op = "Set" /\ m.key = "finish" /\ FinishSeen # m.value)
      BY <1>8, <1>9, <3>2
    <3> QED BY <3>1, <3>2
  <2> QED BY <1>0, <1>10, <2>1, ProtocolFacts DEF ServerType
<1>16. ProtocolInv'
  BY <1>5, <1>12, <1>13, <1>14, <1>15, SlaveStaysTypes
<1> QED BY <1>0, <1>1, <1>4, <1>5, <1>8, <1>10, <1>11, <1>16

LEMMA SendFinishEffect ==
  ASSUME ProtocolInv, SendFinish
  PROVE  LET t == Head(idle).task
         IN  /\ ProtocolInv' /\ TequilaStays
             /\ UNCHANGED <<queueTasks, lastId, stack, slavePc, slaveQueue, evaluated>>
             /\ idle # <<>> /\ Head(idle).do = "finish" /\ idle' = Tail(idle)
             /\ t \in Nat
             /\ Len(finishes) \in Nat /\ Len(finishes') = Len(finishes) + 1
             /\ finishes'[Len(finishes) + 1].task = t
             /\ \A i \in 1 .. Len(finishes) : finishes'[i] = finishes[i]
<1> DEFINE t == Head(idle).task
           f == [task |-> t, connection |-> connection[origin[t].chan]]
<1>0. /\ idle # <<>> /\ Head(idle).do = "finish" /\ idle' = Tail(idle)
      /\ finishes' = Append(finishes, f)
      /\ UNCHANGED <<tequilaVars, queueTasks, lastId, stack, slavePc, slaveQueue, evaluated>>
  BY DEF SendFinish, FinishedTask, slaveVars
<1>1. TequilaStays /\ TequilaType' /\ OnePending("server")' /\ OnePending("slave")' /\ SendInv'
  BY <1>0, ProtocolFacts, TheProcesses, NothingWritten
<1>2. idle \in Seq(CallBacks) /\ finishes \in Seq(Range(finishes))
  BY ProtocolFacts DEF ServerType
<1>3. Head(idle) \in CallBacks /\ Tail(idle) \in Seq(CallBacks)
  BY <1>0, <1>2, TailOf
<1>4. t \in Nat
  BY <1>0, <1>3 DEF CallBacks
<1>5. f.task = t
  OBVIOUS
<1> HIDE DEF f
<1> DEFINE M == Range(finishes) \cup {f}
<1>6. finishes \in Seq(M) /\ f \in M
  BY <1>2, SeqMonotonic
<1> HIDE DEF M
<1>7. /\ finishes' \in Seq(M)
      /\ Len(finishes) \in Nat /\ Len(finishes') = Len(finishes) + 1
      /\ DOMAIN finishes' = 1 .. Len(finishes) + 1
      /\ \A i \in 1 .. Len(finishes) : finishes'[i] = finishes[i]
      /\ finishes'[Len(finishes) + 1] = f
  BY <1>0, <1>6, AppendOf
<1>8. finishes' \in Seq(Range(finishes'))
  <2>1. finishes' = [i \in 1 .. Len(finishes') |-> finishes'[i]]
    BY <1>7, SeqDef
  <2>2. \A i \in 1 .. Len(finishes') : finishes'[i] \in Range(finishes')
    BY <1>7 DEF Range
  <2>3. Len(finishes') \in Nat
    BY <1>7
  <2>4. finishes' \in [1 .. Len(finishes') -> Range(finishes')]
    BY <2>1, <2>2
  <2> QED BY <2>3, <2>4, SeqDef
<1>9. ServerType'
  BY <1>0, <1>2, <1>3, <1>8, ProtocolFacts DEF ServerType
<1>10. SlaveStays
  BY <1>0, <1>1 DEF SlaveStays, TequilaStays
<1> QED BY <1>0, <1>1, <1>4, <1>5, <1>7, <1>9, <1>10, SlaveStaysTypes

\* The steps that change nothing any of the invariants looks at
Elsewhere == ProcessesStay /\ UNCHANGED tequilaVars

LEMMA ElsewhereEffect ==
  ASSUME ProtocolInv, Elsewhere
  PROVE  ProtocolInv' /\ ProcessesStay /\ TequilaStays
<1>1. /\ TequilaStays /\ TequilaType' /\ OnePending("server")' /\ OnePending("slave")'
      /\ PendingInv' /\ SendInv'
  BY ProtocolFacts, TheProcesses, NothingWritten DEF Elsewhere, ProcessesStay, ProtocolInv
<1>2. ServerType' /\ SlaveType'
  BY ProtocolFacts DEF Elsewhere, ProcessesStay, ServerType, SlaveType
<1> QED BY <1>1, <1>2 DEF ProtocolInv, TypeInv, Elsewhere

(* What a step is, for the invariants: a change elsewhere, or one of the steps above. *)
LEMMA StepCases ==
  ASSUME [Next]_vars
  PROVE  \/ Elsewhere
         \/ TqsRequest("server") /\ UNCHANGED <<serverVars, slaveVars, finishes>>
         \/ TqsRequest("slave") /\ UNCHANGED <<serverVars, slaveVars, finishes>>
         \/ \E c \in Chans : OnToleval(c)
         \/ DispatchToSlave \/ Resume \/ ServerCallBack \/ SendFinish
         \/ SlaveStarts \/ BatchArrives \/ BatchArrivesUnseen
         \/ Announced \/ Echoed \/ GoesOn \/ EvaluateTask \/ BatchDone \/ CallBackReturns
<1>1. CASE UNCHANGED vars
  BY <1>1 DEF vars, serverVars, slaveVars, Elsewhere, ProcessesStay
<1>2. CASE DataServer
  BY <1>2, TheProcesses DEF DataServer
<1>3. CASE Clients
  <2>1. ASSUME NEW c \in Chans, Connect(c) PROVE Elsewhere
    BY <2>1 DEF Connect, Elsewhere, ProcessesStay, slaveVars
  <2>2. ASSUME NEW c \in Chans, OnEofChannel(c) PROVE Elsewhere
    BY <2>2 DEF OnEofChannel, Elsewhere, ProcessesStay, slaveVars
  <2>3. ASSUME NEW c \in Chans, NEW t \in Outstanding, OnCancel(c, t) PROVE Elsewhere
    BY <2>3 DEF OnCancel, Elsewhere, ProcessesStay, slaveVars
  <2> QED BY <1>3, <2>1, <2>2, <2>3 DEF Clients
<1> QED BY <1>1, <1>2, <1>3 DEF Next, Server, Slave

-----------------------------------------------------------------------------
(* The protocol.                                                           *)

\* What the slave echoes is a batch
EchoInv == slavePc = "echo" => Batch \in Seq(Nat)

LEMMA ProtocolInit == Init => ProtocolInv /\ EchoInv
<1> SUFFICES ASSUME Init PROVE ProtocolInv /\ EchoInv
  OBVIOUS
<1>1. /\ store = [k \in Keys |-> Absent]
      /\ copy = [p \in Procs |-> store]
      /\ toTequila = [p \in Procs |-> <<>>] /\ fromTequila = [p \in Procs |-> <<>>]
      /\ queueTasks = <<>> /\ lastId = 0 /\ idle = <<>> /\ stack = <<>>
      /\ slavePc = "loading" /\ slaveQueue = <<>> /\ evaluated = <<>> /\ finishes = <<>>
  BY DEF Init, TequilaInit
<1>2. Asks = <<>> /\ Tells = <<>> /\ News = <<>> /\ Batches = <<>>
  BY <1>1, TheProcesses DEF Asks, Tells, News, Batches
<1>3. \A S : <<>> \in Seq(S)
  BY EmptySeq
<1>4. Len(<<>>) = 0 /\ DOMAIN <<>> = {}
  OBVIOUS
<1>5. TequilaType
  <2>1. store \in [Keys -> Shared] /\ copy \in [Procs -> [Keys -> Shared]]
    BY <1>1 DEF Shared
  <2> QED BY <1>1, <1>2, <1>3, <2>1 DEF TequilaType, Queues
<1>6. ServerType /\ SlaveType
  BY <1>1, <1>3 DEF ServerType, SlaveType
<1>7. \A s : s = <<>> => AtMostOneReply(s) /\ ~HasReply(s)
  BY <1>4 DEF AtMostOneReply, HasReply
<1>8. PendingInv
  <2>1. /\ toTequila["server"] = <<>> /\ toTequila["slave"] = <<>>
        /\ fromTequila["server"] = <<>> /\ fromTequila["slave"] = <<>>
    BY <1>1, TheProcesses
  <2> QED BY <1>2, <1>4, <1>7, <2>1 DEF PendingInv, OnePending
<1>9. SendInv
  BY <1>1, <1>2, <1>4, <1>7 DEF SendInv, OneSends, Awaits
<1> QED BY <1>1, <1>5, <1>6, <1>8, <1>9 DEF ProtocolInv, TypeInv, EchoInv

LEMMA ProtocolNext == ProtocolInv /\ EchoInv /\ [Next]_vars => ProtocolInv' /\ EchoInv'
<1> SUFFICES ASSUME ProtocolInv, EchoInv, [Next]_vars PROVE ProtocolInv' /\ EchoInv'
  OBVIOUS
<1>1. CASE Elsewhere
  BY <1>1, ElsewhereEffect DEF EchoInv, ProcessesStay, TequilaStays
<1>2. CASE TqsRequest("server") /\ UNCHANGED <<serverVars, slaveVars, finishes>>
  BY <1>2, BatchServedEffect DEF EchoInv, ProcessesStay
<1>3. CASE TqsRequest("slave") /\ UNCHANGED <<serverVars, slaveVars, finishes>>
  BY <1>3, ChangeServedEffect DEF EchoInv, ProcessesStay
<1>4. ASSUME NEW c \in Chans, OnToleval(c) PROVE ProtocolInv' /\ EchoInv'
  BY <1>4, OnTolevalEffect DEF EchoInv, TequilaStays
<1>5. CASE DispatchToSlave
  BY <1>5, DispatchEffect DEF EchoInv, SlaveStays
<1>6. CASE Resume
  BY <1>6, ResumeEffect DEF EchoInv, SlaveStays
<1>7. CASE ServerCallBack
  BY <1>7, ServerCallBackEffect DEF EchoInv, SlaveStays
<1>8. CASE SendFinish
  BY <1>8, SendFinishEffect DEF EchoInv, TequilaStays
<1>9. CASE SlaveStarts
  BY <1>9, SlaveStartsEffect DEF EchoInv
<1>10. CASE BatchArrives
  BY <1>10, BatchArrivesEffect DEF EchoInv
<1>11. CASE BatchArrivesUnseen
  BY <1>11, BatchArrivesUnseenEffect DEF EchoInv
<1>12. CASE Announced \/ GoesOn \/ CallBackReturns
  BY <1>12, ReturnsEffect DEF EchoInv, Continues
<1>13. CASE Echoed
  <2>1. Batch \in Seq(Nat)
    BY <1>13 DEF EchoInv, Echoed, Replied
  <2> QED BY <1>13, <2>1, EchoedEffect DEF EchoInv
<1>14. CASE EvaluateTask
  BY <1>14, EvaluateTaskEffect DEF EchoInv
<1>15. CASE BatchDone
  BY <1>15, BatchDoneEffect DEF EchoInv
<1> QED BY <1>1, <1>2, <1>3, <1>4, <1>5, <1>6, <1>7, <1>8, <1>9, <1>10, <1>11, <1>12, <1>13,
           <1>14, <1>15, StepCases

(* The processes hold and exchange what they are meant to, the server sends one    *)
(* batch at a time however its handlers pile up, and the slave waits for one reply *)
(* at a time (tolserver.tcl:565-615, tolslave.tcl:122-199, tequila.tcl:45-69).   *)
THEOREM ServerFollowsProtocol == Spec => []ProtocolInv
<1>1. Init /\ [][Next]_vars => [](ProtocolInv /\ EchoInv)
  BY ProtocolInit, ProtocolNext, PTL
<1> QED BY <1>1, PTL DEF Spec

(* The server has a request pending at the data server exactly while one of its    *)
(* handlers waits for the reply, whatever clients and slave do (tequila.tcl:45-69, *)
(* tolserver.tcl:565-615).                                                      *)
THEOREM ServerWaitsForOne == Spec => []ServerWaitsForItsRequest
<1>1. ProtocolInv => ServerWaitsForItsRequest
  <2> SUFFICES ASSUME ProtocolInv PROVE ServerWaitsForItsRequest
    OBVIOUS
  <2> DEFINE sending == {i \in DOMAIN stack : stack[i].kind = "send" /\ ~stack[i].woken}
  <2>1. OneSends(stack) /\ (Awaits(stack, "send") <=> Asks # <<>> \/ HasReply(News))
    BY ProtocolFacts DEF SendInv
  <2>2. Cardinality(sending) = IF Awaits(stack, "send") THEN 1 ELSE 0
    <3>1. CASE Awaits(stack, "send")
      <4>1. PICK i \in DOMAIN stack : stack[i].kind = "send" /\ ~stack[i].woken
        BY <3>1 DEF Awaits
      <4>2. sending = {i}
        BY <2>1, <4>1 DEF OneSends
      <4> QED BY <3>1, <4>2, FS_Singleton
    <3>2. CASE ~Awaits(stack, "send")
      <4>1. sending = {}
        BY <3>2 DEF Awaits
      <4> QED BY <3>2, <4>1, FS_EmptySet
    <3> QED BY <3>1, <3>2
  <2>3. Cardinality(Replies("server")) = IF HasReply(News) THEN 1 ELSE 0
    BY ProtocolFacts, CountReplies DEF OnePending, News
  <2>4. Len(Asks) = IF Asks = <<>> THEN 0 ELSE 1
    <3>1. Asks \in Seq(BatchRequests) /\ Len(Asks) <= 1
      BY ProtocolFacts, QueueTypes DEF OnePending, Asks
    <3>2. Asks # <<>> => Len(Asks) \in Nat /\ Len(Asks) >= 1
      BY <3>1, TailOf
    <3>3. \A n \in Nat : n >= 1 /\ n <= 1 => n = 1
      OBVIOUS
    <3>4. Len(<<>>) = 0
      OBVIOUS
    <3> QED BY <3>1, <3>2, <3>3, <3>4, Zenon
  <2>5. HasReply(News) => Asks = <<>>
    BY ProtocolFacts DEF OnePending, Asks, News
  <2> HIDE DEF sending
  <2>6. Cardinality(sending) = Len(Asks) + Cardinality(Replies("server"))
    BY <2>1, <2>2, <2>3, <2>4, <2>5
  <2> QED BY <2>6 DEF ServerWaitsForItsRequest, sending, Asks
<1> QED BY <1>1, ServerFollowsProtocol, PTL

-----------------------------------------------------------------------------
(* Sequences and sets of tasks in order.                                    *)

Ascending(s) == \A i, j \in DOMAIN s : i < j => s[i] < s[j]
Before(S, T) == \A x \in S, y \in T : x < y

LEMMA AscendingTail ==
  ASSUME NEW s \in Seq(Nat), s # <<>>
  PROVE  /\ Range(s) = {Head(s)} \cup Range(Tail(s))
         /\ Ascending(s) => Ascending(Tail(s)) /\ Before({Head(s)}, Range(Tail(s)))
<1>1. /\ Head(s) = s[1] /\ Len(s) \in Nat /\ Len(s) >= 1 /\ DOMAIN s = 1 .. Len(s)
      /\ DOMAIN Tail(s) = 1 .. Len(s) - 1
      /\ \A i \in 1 .. Len(s) - 1 : Tail(s)[i] = s[i + 1]
  BY TailOf
<1>2. /\ 1 \in DOMAIN s
      /\ \A i \in DOMAIN Tail(s) : i + 1 \in DOMAIN s /\ Tail(s)[i] = s[i + 1] /\ i \in Nat /\ 1 < i + 1
      /\ \A i \in DOMAIN s : i = 1 \/ (i - 1 \in DOMAIN Tail(s) /\ s[i] = Tail(s)[i - 1])
  BY <1>1
<1>3. Range(s) = {Head(s)} \cup Range(Tail(s))
  <2>1. ASSUME NEW x \in Range(s) PROVE x \in {Head(s)} \cup Range(Tail(s))
    <3>1. PICK i \in DOMAIN s : x = s[i]
      BY DEF Range
    <3>2. i = 1 \/ (i - 1 \in DOMAIN Tail(s) /\ x = Tail(s)[i - 1])
      BY <1>2, <3>1
    <3>3. i - 1 \in DOMAIN Tail(s) => Tail(s)[i - 1] \in Range(Tail(s))
      BY DEF Range
    <3> QED BY <1>1, <3>1, <3>2, <3>3
  <2>2. ASSUME NEW x \in Range(Tail(s)) PROVE x \in Range(s)
    <3>1. PICK i \in DOMAIN Tail(s) : x = Tail(s)[i]
      BY DEF Range
    <3>2. i + 1 \in DOMAIN s /\ x = s[i + 1]
      BY <1>2, <3>1
    <3> QED BY <3>2 DEF Range
  <2>3. Head(s) \in Range(s)
    BY <1>1, <1>2 DEF Range
  <2> QED BY <2>1, <2>2, <2>3
<1>4. ASSUME Ascending(s) PROVE Ascending(Tail(s))
  <2> SUFFICES ASSUME NEW i \in DOMAIN Tail(s), NEW j \in DOMAIN Tail(s), i < j
               PROVE  Tail(s)[i] < Tail(s)[j]
    BY DEF Ascending
  <2>1. i + 1 < j + 1
    BY <1>2
  <2> QED BY <1>2, <1>4, <2>1 DEF Ascending
<1>5. ASSUME Ascending(s) PROVE Before({Head(s)}, Range(Tail(s)))
  <2> SUFFICES ASSUME NEW i \in DOMAIN Tail(s) PROVE Head(s) < Tail(s)[i]
    BY DEF Before, Range
  <2> QED BY <1>1, <1>2, <1>5 DEF Ascending
<1> QED BY <1>3, <1>4, <1>5

LEMMA AscendingAppend ==
  ASSUME NEW s \in Seq(Nat), NEW x \in Nat
  PROVE  /\ Range(Append(s, x)) = Range(s) \cup {x}
         /\ Ascending(s) /\ Before(Range(s), {x}) => Ascending(Append(s, x))
<1> DEFINE t == Append(s, x)
<1>1. /\ Len(s) \in Nat /\ DOMAIN s = 1 .. Len(s)
      /\ DOMAIN t = 1 .. Len(s) + 1
      /\ \A i \in 1 .. Len(s) : t[i] = s[i]
      /\ t[Len(s) + 1] = x
  BY AppendOf
<1> HIDE DEF t
<1>2. /\ \A i \in DOMAIN s : i \in DOMAIN t /\ t[i] = s[i]
      /\ \A i \in DOMAIN t : i \in DOMAIN s \/ i = Len(s) + 1
      /\ Len(s) + 1 \in DOMAIN t
      /\ \A i \in DOMAIN s : ~(Len(s) + 1 < i)
      /\ ~(Len(s) + 1 < Len(s) + 1)
  BY <1>1
<1>3. Range(t) = Range(s) \cup {x}
  BY <1>1, <1>2, Zenon DEF Range
<1>4. ASSUME Ascending(s), Before(Range(s), {x}) PROVE Ascending(t)
  <2> SUFFICES ASSUME NEW i \in DOMAIN t, NEW j \in DOMAIN t, i < j PROVE t[i] < t[j]
    BY DEF Ascending
  <2>1. CASE j \in DOMAIN s
    <3>1. i \in DOMAIN s
      BY <1>2, <2>1
    <3> QED BY <1>2, <1>4, <2>1, <3>1 DEF Ascending
  <2>2. CASE j = Len(s) + 1
    <3>1. i \in DOMAIN s
      BY <1>2, <2>2
    <3>2. s[i] \in Range(s)
      BY <3>1 DEF Range
    <3> QED BY <1>1, <1>2, <1>4, <2>2, <3>1, <3>2 DEF Before
  <2> QED BY <1>2, <2>1, <2>2
<1> QED BY <1>3, <1>4 DEF t

(* The batches in a queue of messages: their tasks, in order.                 *)
TasksIn(s) == {x \in Nat : \E i \in DOMAIN s : s[i].op = "Set" /\ x \in Range(s[i].value)}

Ordered(s) ==
  /\ \A i \in DOMAIN s : s[i].op = "Set" => Ascending(s[i].value)
  /\ \A i, j \in DOMAIN s : s[i].op = "Set" /\ s[j].op = "Set" /\ i < j =>
       Before(Range(s[i].value), Range(s[j].value))

LEMMA TasksAreNumbers ==
  ASSUME NEW v \in Seq(Nat)
  PROVE  Range(v) \subseteq Nat
BY ElementOfSeq, LenProperties DEF Range

LEMMA OrderedAppend ==
  ASSUME NEW s \in Seq(BatchMessages), NEW v \in Seq(Nat)
  PROVE  LET t == Append(s, SetMessage("request", v))
         IN  /\ TasksIn(t) = TasksIn(s) \cup Range(v)
             /\ Ordered(s) /\ Ascending(v) /\ Before(TasksIn(s), Range(v)) => Ordered(t)
<1> DEFINE m == SetMessage("request", v)
           t == Append(s, m)
<1>1. m \in BatchMessages /\ m.op = "Set" /\ m.value = v
  BY DEF SetMessage, BatchMessages
<1> HIDE DEF m
<1>2. /\ Len(s) \in Nat /\ DOMAIN s = 1 .. Len(s)
      /\ DOMAIN t = 1 .. Len(s) + 1
      /\ \A i \in 1 .. Len(s) : t[i] = s[i]
      /\ t[Len(s) + 1] = m
  BY <1>1, AppendOf
<1> HIDE DEF t
<1>3. /\ \A i \in DOMAIN s : i \in DOMAIN t /\ t[i] = s[i]
      /\ \A i \in DOMAIN t : i \in DOMAIN s \/ i = Len(s) + 1
      /\ Len(s) + 1 \in DOMAIN t
      /\ \A i \in DOMAIN s : ~(Len(s) + 1 < i)
      /\ ~(Len(s) + 1 < Len(s) + 1)
  BY <1>2
<1>4. \A x \in Range(v) : x \in Nat
  BY TasksAreNumbers
<1>5. TasksIn(t) = TasksIn(s) \cup Range(v)
  <2>1. ASSUME NEW x \in TasksIn(t) PROVE x \in TasksIn(s) \cup Range(v)
    BY <1>1, <1>2, <1>3, Zenon DEF TasksIn
  <2>2. ASSUME NEW x \in TasksIn(s) PROVE x \in TasksIn(t)
    BY <1>3, Zenon DEF TasksIn
  <2>3. ASSUME NEW x \in Range(v) PROVE x \in TasksIn(t)
    BY <1>1, <1>2, <1>3, <1>4, Zenon DEF TasksIn
  <2> QED BY <2>1, <2>2, <2>3
<1>6. ASSUME Ordered(s), Ascending(v), Before(TasksIn(s), Range(v)) PROVE Ordered(t)
  <2>1. ASSUME NEW i \in DOMAIN t, t[i].op = "Set" PROVE Ascending(t[i].value)
    BY <1>1, <1>2, <1>3, <1>6, <2>1, Zenon DEF Ordered
  <2>2. ASSUME NEW i \in DOMAIN t, NEW j \in DOMAIN t, t[i].op = "Set", t[j].op = "Set", i < j
        PROVE  Before(Range(t[i].value), Range(t[j].value))
    <3>1. i \in DOMAIN s /\ t[i] = s[i]
      BY <1>3, <2>2
    <3>2. CASE j \in DOMAIN s
      BY <1>3, <1>6, <2>2, <3>1, <3>2, Zenon DEF Ordered
    <3>3. CASE j = Len(s) + 1
      <4>1. \A x \in Range(s[i].value) : x \in Nat => x \in TasksIn(s)
        BY <2>2, <3>1 DEF TasksIn
      <4>2. \A x \in Range(s[i].value) : x \in Nat
        <5>1. s[i] \in BatchMessages /\ s[i].op = "Set"
          BY <1>2, <2>2, <3>1, ElementOfSeq
        <5>2. s[i].value \in Seq(Nat)
          BY <5>1 DEF BatchMessages, ReplyMessage
        <5> QED BY <5>2, TasksAreNumbers
      <4>3. t[j].value = v
        BY <1>1, <1>2, <3>3
      <4> QED BY <1>6, <3>1, <4>1, <4>2, <4>3 DEF Before
    <3> QED BY <1>3, <3>2, <3>3
  <2> QED BY <2>1, <2>2 DEF Ordered
<1> QED BY <1>5, <1>6 DEF t, m

LEMMA OrderedReply ==
  ASSUME NEW s \in Seq(BatchMessages)
  PROVE  /\ TasksIn(Append(s, ReplyMessage)) = TasksIn(s)
         /\ Ordered(s) => Ordered(Append(s, ReplyMessage))
<1> DEFINE m == ReplyMessage
           t == Append(s, m)
<1>1. m \in BatchMessages /\ m.op # "Set"
  BY DEF ReplyMessage, BatchMessages
<1> HIDE DEF m
<1>2. /\ Len(s) \in Nat /\ DOMAIN s = 1 .. Len(s)
      /\ DOMAIN t = 1 .. Len(s) + 1
      /\ \A i \in 1 .. Len(s) : t[i] = s[i]
      /\ t[Len(s) + 1] = m
  BY <1>1, AppendOf
<1> HIDE DEF t
<1>3. /\ \A i \in DOMAIN s : i \in DOMAIN t /\ t[i] = s[i]
      /\ \A i \in DOMAIN t : t[i].op = "Set" => i \in DOMAIN s
  BY <1>1, <1>2
<1>4. TasksIn(t) = TasksIn(s)
  BY <1>3 DEF TasksIn
<1>5. Ordered(s) => Ordered(t)
  BY <1>3, Zenon DEF Ordered
<1> QED BY <1>4, <1>5 DEF t, m

LEMMA OrderedTail ==
  ASSUME NEW s \in Seq(BatchMessages), s # <<>>
  PROVE  /\ Ordered(s) => Ordered(Tail(s))
         /\ TasksIn(Tail(s)) \subseteq TasksIn(s)
         /\ Head(s).op = "Set" =>
              /\ Range(Head(s).value) \subseteq TasksIn(s)
              /\ Ordered(s) => Ascending(Head(s).value) /\ Before(Range(Head(s).value), TasksIn(Tail(s)))
<1>1. /\ Head(s) = s[1] /\ Head(s) \in BatchMessages /\ Len(s) \in Nat /\ Len(s) >= 1
      /\ DOMAIN s = 1 .. Len(s)
      /\ DOMAIN Tail(s) = 1 .. Len(s) - 1
      /\ \A i \in 1 .. Len(s) - 1 : Tail(s)[i] = s[i + 1]
  BY TailOf
<1>2. /\ 1 \in DOMAIN s
      /\ \A i \in DOMAIN Tail(s) : i + 1 \in DOMAIN s /\ Tail(s)[i] = s[i + 1] /\ i \in Nat /\ 1 < i + 1
  BY <1>1
<1>3. ASSUME Ordered(s) PROVE Ordered(Tail(s))
  <2>1. ASSUME NEW i \in DOMAIN Tail(s), Tail(s)[i].op = "Set" PROVE Ascending(Tail(s)[i].value)
    BY <1>2, <1>3, <2>1, Zenon DEF Ordered
  <2>2. ASSUME NEW i \in DOMAIN Tail(s), NEW j \in DOMAIN Tail(s),
               Tail(s)[i].op = "Set", Tail(s)[j].op = "Set", i < j
        PROVE  Before(Range(Tail(s)[i].value), Range(Tail(s)[j].value))
    <3>1. i + 1 < j + 1
      BY <1>2, <2>2
    <3> QED BY <1>2, <1>3, <2>2, <3>1, Zenon DEF Ordered
  <2> QED BY <2>1, <2>2 DEF Ordered
<1>4. TasksIn(Tail(s)) \subseteq TasksIn(s)
  <2> SUFFICES ASSUME NEW x \in TasksIn(Tail(s)) PROVE x \in TasksIn(s)
    OBVIOUS
  <2>1. PICK i \in DOMAIN Tail(s) : x \in Nat /\ Tail(s)[i].op = "Set" /\ x \in Range(Tail(s)[i].value)
    BY DEF TasksIn
  <2>2. i + 1 \in DOMAIN s /\ Tail(s)[i] = s[i + 1]
    BY <1>2
  <2> QED BY <2>1, <2>2, Zenon DEF TasksIn
<1>5. ASSUME Head(s).op = "Set" PROVE Range(Head(s).value) \subseteq TasksIn(s)
  <2>1. Head(s).value \in Seq(Nat)
    BY <1>1, <1>5 DEF BatchMessages, ReplyMessage
  <2>2. \A x \in Range(Head(s).value) : x \in Nat
    BY <2>1, TasksAreNumbers
  <2> QED BY <1>1, <1>2, <1>5, <2>2 DEF TasksIn
<1>6. ASSUME Head(s).op = "Set", Ordered(s)
      PROVE  Ascending(Head(s).value) /\ Before(Range(Head(s).value), TasksIn(Tail(s)))
  <2>1. Ascending(Head(s).value)
    BY <1>1, <1>2, <1>6 DEF Ordered
  <2>2. ASSUME NEW x \in Range(Head(s).value), NEW y \in TasksIn(Tail(s)) PROVE x < y
    <3>1. PICK i \in DOMAIN Tail(s) : Tail(s)[i].op = "Set" /\ y \in Range(Tail(s)[i].value)
      BY DEF TasksIn
    <3>2. i + 1 \in DOMAIN s /\ Tail(s)[i] = s[i + 1] /\ 1 < i + 1
      BY <1>2
    <3>3. Before(Range(s[1].value), Range(s[i + 1].value))
      BY <1>1, <1>2, <1>6, <3>1, <3>2, Zenon DEF Ordered
    <3> QED BY <1>1, <3>1, <3>2, <3>3 DEF Before
  <2> QED BY <2>1, <2>2 DEF Before
<1> QED BY <1>3, <1>4, <1>5, <1>6

-----------------------------------------------------------------------------
(* The order of evaluation.  The tasks go from the queue to the data server, to    *)
(* the slave, to the batch it has received and to the one it processes; each       *)
(* place holds tasks accepted before those of the places they come from.         *)

Asked == IF Asks = <<>> THEN {} ELSE Range(Asks[1].value)
Coming == TasksIn(Batches)
Received == IF Batch \in Seq(Nat) THEN Range(Batch) ELSE {}
Queued == Range(queueTasks)
Processed == Range(slaveQueue)
Evaluated == Range(evaluated)

BatchesAscend ==
  /\ Ascending(queueTasks) /\ Ascending(slaveQueue) /\ Ascending(evaluated)
  /\ Asks # <<>> => Ascending(Asks[1].value)
  /\ Ordered(Batches)
  /\ Batch \in Seq(Nat) => Ascending(Batch)

PlacesInOrder ==
  /\ Before(Evaluated, Processed)
  /\ Before(Evaluated, Coming) /\ Before(Processed, Coming) /\ Before(Received, Coming)
  /\ Before(Evaluated, Asked) /\ Before(Processed, Asked) /\ Before(Received, Asked)
  /\ Before(Coming, Asked)
  /\ Before(Evaluated, Queued) /\ Before(Processed, Queued) /\ Before(Received, Queued)
  /\ Before(Coming, Queued) /\ Before(Asked, Queued)

AllAccepted ==
  \A x \in Evaluated \cup Processed \cup Received \cup Coming \cup Asked \cup Queued :
    x \in Nat /\ x <= lastId

\* The batch the slave is about to process is new, and it processes one at a time
BatchIsNew ==
  /\ slavePc \in {"loading", "announce", "idle", "echo", "ready"} => slaveQueue = <<>>
  /\ slavePc = "echo" => Batch \in Seq(Nat) /\ Before(Evaluated, Received)

OrderInv == BatchesAscend /\ PlacesInOrder /\ AllAccepted /\ BatchIsNew

LEMMA NoTasks == Range(<<>>) = {} /\ Ascending(<<>>) /\ TasksIn(<<>>) = {} /\ Ordered(<<>>)
<1>1. DOMAIN <<>> = {}
  OBVIOUS
<1> QED BY <1>1 DEF Range, Ascending, TasksIn, Ordered

LEMMA OrderInit == Init => OrderInv
<1> SUFFICES ASSUME Init PROVE OrderInv
  OBVIOUS
<1>1. /\ queueTasks = <<>> /\ slaveQueue = <<>> /\ evaluated = <<>>
      /\ slavePc = "loading"
      /\ Asks = <<>> /\ Batches = <<>>
  BY TheProcesses DEF Init, TequilaInit, Asks, Batches
<1>2. Batch = Absent
  BY TheProcesses DEF Init, TequilaInit, Batch
<1>3. Batch \notin Seq(Nat)
  BY <1>2, TheProcesses
<1>4. BatchesAscend
  BY <1>1, <1>3, NoTasks DEF BatchesAscend
<1>5. /\ Evaluated = {} /\ Processed = {} /\ Received = {} /\ Coming = {} /\ Asked = {} /\ Queued = {}
  BY <1>1, <1>3, NoTasks DEF Evaluated, Processed, Received, Coming, Asked, Queued
<1>6. PlacesInOrder
  BY <1>5 DEF PlacesInOrder, Before
<1> QED BY <1>1, <1>4, <1>5, <1>6 DEF OrderInv, AllAccepted, BatchIsNew

\* A step that moves no task
LEMMA NoTaskMoves ==
  ASSUME OrderInv, UNCHANGED <<queueTasks, lastId, slaveQueue, evaluated>>,
         Asks' = Asks, Batch' = Batch,
         Coming' = Coming, Ordered(Batches'),
         slavePc' \in {"loading", "announce", "idle", "echo", "ready"} => slaveQueue = <<>>,
         slavePc' = "echo" => slavePc = "echo"
  PROVE  OrderInv'
<1>1. /\ Evaluated' = Evaluated /\ Processed' = Processed /\ Received' = Received
      /\ Asked' = Asked /\ Queued' = Queued /\ Coming' = Coming
  BY DEF Evaluated, Processed, Received, Asked, Queued
<1>2. BatchesAscend'
  BY DEF OrderInv, BatchesAscend
<1>3. PlacesInOrder'
  BY <1>1, Zenon DEF OrderInv, PlacesInOrder
<1>4. AllAccepted'
  BY <1>1, Zenon DEF OrderInv, AllAccepted
<1>5. BatchIsNew'
  BY <1>1 DEF OrderInv, BatchIsNew
<1> QED BY <1>2, <1>3, <1>4, <1>5 DEF OrderInv

LEMMA StaysInOrder ==
  ASSUME OrderInv, UNCHANGED <<queueTasks, lastId, slavePc, slaveQueue, evaluated>>,
         Asks' = Asks, Batch' = Batch, Batches' = Batches
  PROVE  OrderInv'
<1>1. Coming' = Coming
  BY DEF Coming
<1>2. slavePc \in {"loading", "announce", "idle", "echo", "ready"} => slaveQueue = <<>>
  BY DEF OrderInv, BatchIsNew
<1>3. Ordered(Batches')
  BY DEF OrderInv, BatchesAscend
<1> QED BY <1>1, <1>2, <1>3, NoTaskMoves

\* A reply leaves the batches that follow it
LEMMA ReplyMovesNoTask ==
  ASSUME ProtocolInv, OrderInv,
         \/ Batches' = Append(Batches, ReplyMessage)
         \/ Batches # <<>> /\ Head(Batches).op = "Reply" /\ Batches' = Tail(Batches)
  PROVE  Coming' = Coming /\ Ordered(Batches')
<1>0. Batches \in Seq(BatchMessages) /\ Ordered(Batches)
  BY ProtocolFacts DEF OrderInv, BatchesAscend
<1>1. CASE Batches' = Append(Batches, ReplyMessage)
  BY <1>0, <1>1, OrderedReply DEF Coming
<1>2. CASE Batches # <<>> /\ Head(Batches).op = "Reply" /\ Batches' = Tail(Batches)
  <2>1. Ordered(Tail(Batches)) /\ TasksIn(Tail(Batches)) \subseteq TasksIn(Batches)
    BY <1>0, <1>2, OrderedTail
  <2>2. ASSUME NEW x \in TasksIn(Batches) PROVE x \in TasksIn(Tail(Batches))
    <3>1. PICK i \in DOMAIN Batches : x \in Nat /\ Batches[i].op = "Set" /\ x \in Range(Batches[i].value)
      BY DEF TasksIn
    <3>2. /\ Head(Batches) = Batches[1] /\ Len(Batches) \in Nat /\ DOMAIN Batches = 1 .. Len(Batches)
          /\ DOMAIN Tail(Batches) = 1 .. Len(Batches) - 1
          /\ \A j \in 1 .. Len(Batches) - 1 : Tail(Batches)[j] = Batches[j + 1]
      BY <1>0, <1>2, TailOf
    <3>3. i # 1
      BY <1>2, <3>1, <3>2
    <3>4. i - 1 \in DOMAIN Tail(Batches) /\ Tail(Batches)[i - 1] = Batches[i]
      BY <3>2, <3>3
    <3> QED BY <3>1, <3>4 DEF TasksIn
  <2> QED BY <1>2, <2>1, <2>2 DEF Coming
<1> QED BY <1>1, <1>2

\* The places of tasks before and after a step, by name
LEMMA PlacesKept ==
  /\ UNCHANGED evaluated => Evaluated' = Evaluated
  /\ UNCHANGED slaveQueue => Processed' = Processed
  /\ Batch' = Batch => Received' = Received
  /\ Batches' = Batches => Coming' = Coming
  /\ Asks' = Asks => Asked' = Asked
  /\ UNCHANGED queueTasks => Queued' = Queued
BY DEF Evaluated, Processed, Received, Coming, Asked, Queued

LEMMA OrderFacts ==
  ASSUME OrderInv
  PROVE  BatchesAscend /\ PlacesInOrder /\ AllAccepted /\ BatchIsNew
BY DEF OrderInv

LEMMA BatchServedInOrder ==
  ASSUME ProtocolInv, OrderInv, TqsRequest("server"), UNCHANGED <<serverVars, slaveVars, finishes>>
  PROVE  OrderInv'
<1> DEFINE v == Asks[1].value
<1>1. /\ UNCHANGED <<queueTasks, lastId, slavePc, slaveQueue, evaluated>>
      /\ Asks # <<>> /\ v \in Seq(Nat) /\ Asks' = <<>> /\ Batch' = Batch
      /\ Batches' = Batches \/ Batches' = Append(Batches, SetMessage("request", v))
  BY BatchServedEffect DEF ProcessesStay
<1> HIDE DEF v
<1>2. Asked = Range(v) /\ Asked' = {}
  BY <1>1 DEF Asked, v
<1>3. Ascending(v) /\ Ordered(Batches) /\ Before(Coming, Asked) /\ Batches \in Seq(BatchMessages)
  BY <1>1, OrderFacts, ProtocolFacts DEF BatchesAscend, PlacesInOrder, v
<1>4. (Coming' = Coming \/ Coming' = Coming \cup Asked) /\ Ordered(Batches')
  <2>1. CASE Batches' = Batches
    BY <1>3, <2>1 DEF Coming
  <2>2. CASE Batches' = Append(Batches, SetMessage("request", v))
    BY <1>1, <1>2, <1>3, <2>2, OrderedAppend DEF Coming
  <2> QED BY <1>1, <2>1, <2>2
<1>5. /\ Evaluated' = Evaluated /\ Processed' = Processed /\ Received' = Received /\ Queued' = Queued
  BY <1>1, PlacesKept
<1>6. BatchesAscend'
  BY <1>1, <1>4, OrderFacts DEF BatchesAscend
<1>7. PlacesInOrder'
  BY <1>2, <1>4, <1>5, OrderFacts DEF PlacesInOrder, Before
<1>8. AllAccepted'
  BY <1>1, <1>2, <1>4, <1>5, OrderFacts DEF AllAccepted
<1>9. BatchIsNew'
  BY <1>1, <1>5, OrderFacts DEF BatchIsNew
<1> QED BY <1>6, <1>7, <1>8, <1>9 DEF OrderInv

LEMMA OnTolevalInOrder ==
  ASSUME ProtocolInv, OrderInv, NEW c, OnToleval(c)
  PROVE  OrderInv'
<1>1. /\ lastId' = lastId + 1 /\ queueTasks' = Append(queueTasks, lastId + 1)
      /\ UNCHANGED <<slavePc, slaveQueue, evaluated>>
      /\ Asks' = Asks /\ Batch' = Batch /\ Batches' = Batches
  BY OnTolevalEffect DEF TequilaStays
<1>2. lastId \in Nat /\ lastId + 1 \in Nat /\ queueTasks \in Seq(Nat)
  BY ProtocolFacts DEF ServerType
<1>3. Queued' = Queued \cup {lastId + 1}
  BY <1>1, <1>2, AscendingAppend DEF Queued
<1>4. /\ Evaluated' = Evaluated /\ Processed' = Processed /\ Received' = Received
      /\ Coming' = Coming /\ Asked' = Asked
  BY <1>1, PlacesKept
<1>5. \A x \in Evaluated \cup Processed \cup Received \cup Coming \cup Asked \cup Queued :
        x \in Nat /\ x < lastId + 1 /\ x <= lastId + 1
  BY <1>2, OrderFacts DEF AllAccepted
<1>6. BatchesAscend'
  <2>1. Ascending(queueTasks) /\ Before(Range(queueTasks), {lastId + 1})
    BY <1>5, OrderFacts DEF BatchesAscend, Before, Queued
  <2>2. Ascending(queueTasks')
    BY <1>1, <1>2, <2>1, AscendingAppend
  <2> QED BY <1>1, <2>2, OrderFacts DEF BatchesAscend
<1>7. PlacesInOrder'
  BY <1>3, <1>4, <1>5, OrderFacts DEF PlacesInOrder, Before
<1>8. AllAccepted'
  <2>1. lastId + 1 <= lastId + 1
    BY <1>2
  <2> QED BY <1>1, <1>2, <1>3, <1>4, <1>5, <2>1 DEF AllAccepted
<1>9. BatchIsNew'
  BY <1>1, <1>4, OrderFacts DEF BatchIsNew
<1> QED BY <1>6, <1>7, <1>8, <1>9 DEF OrderInv

\* The server takes the whole queue, or leaves it
LEMMA QueueStaysInOrder ==
  ASSUME ProtocolInv, OrderInv, SlaveStays, UNCHANGED lastId, QueueTaken \/ QueueKept
  PROVE  OrderInv'
<1>1. /\ UNCHANGED <<lastId, slavePc, slaveQueue, evaluated>>
      /\ Batch' = Batch /\ Batches' = Batches
  BY DEF SlaveStays
<1>2. CASE QueueKept
  BY <1>1, <1>2, StaysInOrder DEF QueueKept
<1>3. CASE QueueTaken
  <2>1. queueTasks' = <<>> /\ Queued' = {} /\ Ascending(queueTasks')
    BY <1>3, NoTasks DEF QueueTaken, Queued
  <2>2. /\ Evaluated' = Evaluated /\ Processed' = Processed /\ Received' = Received
        /\ Coming' = Coming
    BY <1>1, PlacesKept
  <2>3. CASE Asks' = Asks
    <3>1. Asked' = Asked
      BY <2>3, PlacesKept
    <3>2. BatchesAscend'
      BY <1>1, <2>1, <2>3, OrderFacts DEF BatchesAscend
    <3>3. PlacesInOrder'
      BY <2>1, <2>2, <3>1, OrderFacts DEF PlacesInOrder, Before
    <3>4. AllAccepted'
      BY <1>1, <2>1, <2>2, <3>1, OrderFacts DEF AllAccepted
    <3>5. BatchIsNew'
      BY <1>1, <2>2, OrderFacts DEF BatchIsNew
    <3> QED BY <3>2, <3>3, <3>4, <3>5 DEF OrderInv
  <2>4. CASE Asks = <<>> /\ Asks' # <<>> /\ Asks'[1].value = queueTasks
    <3>1. Asked' = Queued
      BY <2>4 DEF Asked, Queued
    <3>2. BatchesAscend'
      BY <1>1, <2>1, <2>4, OrderFacts DEF BatchesAscend
    <3>3. PlacesInOrder'
      BY <2>1, <2>2, <3>1, OrderFacts DEF PlacesInOrder, Before
    <3>4. AllAccepted'
      BY <1>1, <2>1, <2>2, <3>1, OrderFacts DEF AllAccepted
    <3>5. BatchIsNew'
      BY <1>1, <2>2, OrderFacts DEF BatchIsNew
    <3> QED BY <3>2, <3>3, <3>4, <3>5 DEF OrderInv
  <2> QED BY <1>3, <2>3, <2>4 DEF QueueTaken
<1> QED BY <1>2, <1>3

(* The batch the slave takes is before all those that come, and after what it has. *)
LEMMA BatchComes ==
  ASSUME ProtocolInv, OrderInv, Batches # <<>>, Head(Batches).op = "Set",
         Head(Batches).value \in Seq(Nat), Batches' = Tail(Batches)
  PROVE  LET v == Head(Batches).value
         IN  /\ Ascending(v) /\ Ordered(Batches')
             /\ Range(v) \subseteq Coming /\ Coming' \subseteq Coming
             /\ Before(Range(v), Coming')
             /\ \A S : Before(S, Coming) => Before(S, Range(v)) /\ Before(S, Coming')
             /\ \A S : Before(Coming, S) => Before(Range(v), S) /\ Before(Coming', S)
<1>1. Batches \in Seq(BatchMessages) /\ Ordered(Batches)
  BY ProtocolFacts, OrderFacts DEF BatchesAscend
<1>2. /\ Ascending(Head(Batches).value) /\ Ordered(Tail(Batches))
      /\ Range(Head(Batches).value) \subseteq TasksIn(Batches)
      /\ TasksIn(Tail(Batches)) \subseteq TasksIn(Batches)
      /\ Before(Range(Head(Batches).value), TasksIn(Tail(Batches)))
  BY <1>1, OrderedTail
<1>3. Coming' = TasksIn(Tail(Batches)) /\ Coming = TasksIn(Batches)
  BY DEF Coming
<1> QED BY <1>2, <1>3, Zenon DEF Before

LEMMA BatchArrivesInOrder ==
  ASSUME ProtocolInv, OrderInv, BatchArrives \/ BatchArrivesUnseen
  PROVE  OrderInv'
<1> DEFINE v == Head(Batches).value
<1>1. /\ UNCHANGED <<queueTasks, lastId, evaluated>>
      /\ Asks' = Asks /\ Batch' = v /\ v \in Seq(Nat)
      /\ Batches # <<>> /\ Head(Batches).op = "Set" /\ Batches' = Tail(Batches)
      /\ \/ slavePc' = "busy" /\ slavePc = "idle" /\ slaveQueue' = v
         \/ slavePc' = "echo" /\ slavePc = "idle" /\ slaveQueue' = slaveQueue
         \/ slavePc' = slavePc /\ slaveQueue' = slaveQueue
  BY BatchArrivesEffect, BatchArrivesUnseenEffect DEF ServerStays
<1>2. /\ Ascending(v) /\ Ordered(Batches')
      /\ Range(v) \subseteq Coming /\ Coming' \subseteq Coming
      /\ Before(Range(v), Coming')
      /\ \A S : Before(S, Coming) => Before(S, Range(v)) /\ Before(S, Coming')
      /\ \A S : Before(Coming, S) => Before(Range(v), S) /\ Before(Coming', S)
  BY <1>1, BatchComes
<1> HIDE DEF v
<1>3. Received' = Range(v)
  BY <1>1 DEF Received
<1>4. /\ Evaluated' = Evaluated /\ Asked' = Asked /\ Queued' = Queued
  BY <1>1, PlacesKept
<1>5. Processed' = Processed \/ Processed' = Range(v)
  BY <1>1 DEF Processed
<1>6. BatchesAscend'
  BY <1>1, <1>2, OrderFacts DEF BatchesAscend
<1>7. PlacesInOrder'
  <2>1. /\ Before(Evaluated, Range(v)) /\ Before(Evaluated, Coming') /\ Before(Processed, Coming')
        /\ Before(Range(v), Asked) /\ Before(Range(v), Queued)
        /\ Before(Coming', Asked) /\ Before(Coming', Queued)
    BY <1>2, OrderFacts DEF PlacesInOrder
  <2>2. PlacesInOrder
    BY OrderFacts
  <2>3. CASE Processed' = Processed
    BY <1>2, <1>3, <1>4, <2>1, <2>2, <2>3, Zenon DEF PlacesInOrder
  <2>4. CASE Processed' = Range(v)
    BY <1>2, <1>3, <1>4, <2>1, <2>2, <2>4, Zenon DEF PlacesInOrder
  <2> QED BY <1>5, <2>3, <2>4
<1>8. AllAccepted'
  BY <1>1, <1>2, <1>3, <1>4, <1>5, OrderFacts DEF AllAccepted
<1>9. BatchIsNew'
  <2>1. Before(Evaluated, Range(v))
    BY <1>2, OrderFacts DEF PlacesInOrder
  <2>2. slaveQueue' # slaveQueue => slavePc' = "busy"
    BY <1>1
  <2> QED BY <1>1, <1>3, <1>4, <2>1, <2>2, OrderFacts DEF BatchIsNew
<1> QED BY <1>6, <1>7, <1>8, <1>9 DEF OrderInv

LEMMA EchoedInOrder ==
  ASSUME ProtocolInv, EchoInv, OrderInv, Echoed
  PROVE  OrderInv'
<1>0. Batch \in Seq(Nat)
  BY DEF EchoInv, Echoed, Replied
<1>1. /\ UNCHANGED <<queueTasks, lastId, evaluated>>
      /\ slavePc = "echo" /\ slavePc' = "busy"
      /\ Asks' = Asks /\ Batch' = Batch /\ slaveQueue' = Batch
      /\ Batches # <<>> /\ Head(Batches).op = "Reply" /\ Batches' = Tail(Batches)
  BY <1>0, EchoedEffect DEF ServerStays
<1>2. Coming' = Coming /\ Ordered(Batches')
  BY <1>1, ReplyMovesNoTask
<1>3. /\ Evaluated' = Evaluated /\ Received' = Received /\ Asked' = Asked /\ Queued' = Queued
  BY <1>1, PlacesKept
<1>4. Processed' = Received
  BY <1>0, <1>1 DEF Processed, Received
<1>5. BatchesAscend'
  BY <1>0, <1>1, <1>2, OrderFacts DEF BatchesAscend
<1>6. PlacesInOrder'
  <2>1. Before(Evaluated, Received)
    BY <1>1, OrderFacts DEF BatchIsNew
  <2>2. PlacesInOrder
    BY OrderFacts
  <2> QED BY <1>2, <1>3, <1>4, <2>1, <2>2, Zenon DEF PlacesInOrder
<1>7. AllAccepted'
  BY <1>1, <1>2, <1>3, <1>4, OrderFacts DEF AllAccepted
<1>8. BatchIsNew'
  BY <1>1 DEF BatchIsNew
<1> QED BY <1>5, <1>6, <1>7, <1>8 DEF OrderInv

LEMMA EvaluateTaskInOrder ==
  ASSUME ProtocolInv, OrderInv, EvaluateTask
  PROVE  OrderInv'
<1> DEFINE t == Head(slaveQueue)
<1>1. /\ UNCHANGED <<queueTasks, lastId>>
      /\ slavePc' = "finish" /\ slaveQueue # <<>> /\ t \in Nat
      /\ slaveQueue' = Tail(slaveQueue) /\ evaluated' = Append(evaluated, t)
      /\ Asks' = Asks /\ Batch' = Batch /\ Batches' = Batches
  BY EvaluateTaskEffect DEF ServerStays
<1>2. slaveQueue \in Seq(Nat) /\ evaluated \in Seq(Nat)
      /\ Ascending(slaveQueue) /\ Ascending(evaluated) /\ Before(Evaluated, Processed)
  BY ProtocolFacts, OrderFacts DEF SlaveType, BatchesAscend, PlacesInOrder
<1>3. /\ Processed = {t} \cup Range(Tail(slaveQueue))
      /\ Ascending(Tail(slaveQueue)) /\ Before({t}, Range(Tail(slaveQueue)))
  BY <1>1, <1>2, AscendingTail DEF Processed
<1> HIDE DEF t
<1>4. Processed = {t} \cup Processed' /\ Before({t}, Processed')
  BY <1>1, <1>3 DEF Processed
<1>5. Before(Range(evaluated), {t})
  BY <1>2, <1>4 DEF Before, Evaluated
<1>6. Evaluated' = Evaluated \cup {t} /\ Ascending(evaluated')
  BY <1>1, <1>2, <1>5, AscendingAppend DEF Evaluated
<1>7. /\ Received' = Received /\ Asked' = Asked /\ Queued' = Queued /\ Coming' = Coming
  BY <1>1, PlacesKept
<1>8. BatchesAscend'
  BY <1>1, <1>3, <1>6, OrderFacts DEF BatchesAscend
<1>9. PlacesInOrder'
  BY <1>4, <1>6, <1>7, OrderFacts DEF PlacesInOrder, Before
<1>10. AllAccepted'
  BY <1>1, <1>4, <1>6, <1>7, OrderFacts DEF AllAccepted
<1>11. BatchIsNew'
  BY <1>1 DEF BatchIsNew
<1> QED BY <1>8, <1>9, <1>10, <1>11 DEF OrderInv

LEMMA OrderNext == ProtocolInv /\ EchoInv /\ OrderInv /\ [Next]_vars => OrderInv'
<1> SUFFICES ASSUME ProtocolInv, EchoInv, OrderInv, [Next]_vars PROVE OrderInv'
  OBVIOUS
<1>1. CASE Elsewhere
  BY <1>1, ElsewhereEffect, StaysInOrder DEF ProcessesStay, TequilaStays
<1>2. CASE TqsRequest("server") /\ UNCHANGED <<serverVars, slaveVars, finishes>>
  BY <1>2, BatchServedInOrder
<1>3. CASE TqsRequest("slave") /\ UNCHANGED <<serverVars, slaveVars, finishes>>
  <2>1. /\ UNCHANGED <<queueTasks, lastId, slavePc, slaveQueue, evaluated>>
        /\ Asks' = Asks /\ Batch' = Batch /\ Batches' = Append(Batches, ReplyMessage)
    BY <1>3, ChangeServedEffect DEF ProcessesStay
  <2>2. slavePc' \in {"loading", "announce", "idle", "echo", "ready"} => slaveQueue = <<>>
    BY <2>1, OrderFacts DEF BatchIsNew
  <2> QED BY <2>1, <2>2, ReplyMovesNoTask, NoTaskMoves
<1>4. ASSUME NEW c \in Chans, OnToleval(c) PROVE OrderInv'
  BY <1>4, OnTolevalInOrder
<1>5. CASE DispatchToSlave
  <2>1. SlaveStays /\ UNCHANGED lastId /\ (QueueTaken \/ QueueKept)
    BY <1>5, DispatchEffect DEF ServerListens
  <2> QED BY <2>1, QueueStaysInOrder
<1>6. CASE Resume
  <2>1. SlaveStays /\ UNCHANGED lastId /\ (QueueTaken \/ QueueKept)
    BY <1>6, ResumeEffect DEF ServerListens
  <2> QED BY <2>1, QueueStaysInOrder
<1>7. CASE ServerCallBack
  BY <1>7, ServerCallBackEffect, StaysInOrder DEF SlaveStays
<1>8. CASE SendFinish
  BY <1>8, SendFinishEffect, StaysInOrder DEF TequilaStays
<1>9. CASE SlaveStarts
  <2>1. /\ UNCHANGED <<queueTasks, lastId, slaveQueue, evaluated>>
        /\ slavePc = "loading" /\ slavePc' = "announce"
        /\ Asks' = Asks /\ Batch' = Batch /\ Batches' = Batches
    BY <1>9, SlaveStartsEffect DEF ServerStays
  <2>2. slaveQueue = <<>> /\ Ordered(Batches)
    BY <2>1, OrderFacts DEF BatchIsNew, BatchesAscend
  <2>3. Coming' = Coming
    BY <2>1, PlacesKept
  <2> QED BY <2>1, <2>2, <2>3, NoTaskMoves
<1>10. CASE BatchArrives \/ BatchArrivesUnseen
  BY <1>10, BatchArrivesInOrder
<1>11. CASE Announced \/ GoesOn \/ CallBackReturns
  <2>1. /\ UNCHANGED <<queueTasks, lastId, slaveQueue, evaluated>>
        /\ Asks' = Asks /\ Batch' = Batch
        /\ Batches # <<>> /\ Head(Batches).op = "Reply" /\ Batches' = Tail(Batches)
        /\ slavePc' = "process" \/ (slavePc' = "idle" /\ slavePc \in {"announce", "ready"})
    BY <1>11, ReturnsEffect DEF ServerStays, Continues
  <2>2. slavePc' \in {"loading", "announce", "idle", "echo", "ready"} => slaveQueue = <<>>
    BY <2>1, OrderFacts DEF BatchIsNew
  <2> QED BY <2>1, <2>2, ReplyMovesNoTask, NoTaskMoves
<1>12. CASE Echoed
  BY <1>12, EchoedInOrder
<1>13. CASE EvaluateTask
  BY <1>13, EvaluateTaskInOrder
<1>14. CASE BatchDone
  <2>1. /\ UNCHANGED <<queueTasks, lastId, slaveQueue, evaluated>>
        /\ slavePc' = "ready" /\ slaveQueue = <<>>
        /\ Asks' = Asks /\ Batch' = Batch /\ Batches' = Batches
    BY <1>14, BatchDoneEffect DEF ServerStays
  <2>2. Ordered(Batches)
    BY OrderFacts DEF BatchesAscend
  <2>3. Coming' = Coming
    BY <2>1, PlacesKept
  <2> QED BY <2>1, <2>2, <2>3, NoTaskMoves
<1> QED BY <1>1, <1>2, <1>3, <1>4, <1>5, <1>6, <1>7, <1>8, <1>9, <1>10, <1>11, <1>12, <1>13,
           <1>14, StepCases

LEMMA OrderInvariant == Spec => [](ProtocolInv /\ EchoInv /\ OrderInv)
<1>1. Init => ProtocolInv /\ EchoInv /\ OrderInv
  BY ProtocolInit, OrderInit
<1>2. ProtocolInv /\ EchoInv /\ OrderInv /\ [Next]_vars => (ProtocolInv /\ EchoInv /\ OrderInv)'
  BY ProtocolNext, OrderNext
<1> QED BY <1>1, <1>2, PTL DEF Spec

(* The slave evaluates no task twice, nor after one accepted later, whichever       *)
(* batches are lost, echoed or overwritten on their way (tolserver.tcl:565-615,   *)
(* tolslave.tcl:122-199).                                                       *)
THEOREM EvaluatesInOrder == Spec => []EvaluatedInOrder
<1>1. OrderInv => EvaluatedInOrder
  BY DEF OrderInv, BatchesAscend, Ascending, EvaluatedInOrder
<1> QED BY <1>1, OrderInvariant, PTL

-----------------------------------------------------------------------------
(* The order of the TFINISH.  What is evaluated and not finished is, from the      *)
(* first to the last, in the calls left for when the server is idle, in the       *)
(* notices on their way to it, and in the slave's own request.                   *)

CallsIn(s) == {x \in Nat : \E i \in DOMAIN s : s[i].do = "finish" /\ s[i].task = x}
CallsAscend(s) ==
  \A i, j \in DOMAIN s : s[i].do = "finish" /\ s[j].do = "finish" /\ i < j => s[i].task < s[j].task

IsFinish(m) == m.op = "Set" /\ m.key = "finish"
ToldIn(s) == {x \in Nat : \E i \in DOMAIN s : IsFinish(s[i]) /\ s[i].value = x}
ToldAscend(s) ==
  \A i, j \in DOMAIN s : IsFinish(s[i]) /\ IsFinish(s[j]) /\ i < j => s[i].value < s[j].value

Late == {x \in Nat : \E j \in DOMAIN evaluated : Len(finishes) < j /\ evaluated[j] = x}
Called == CallsIn(idle)
Told == ToldIn(News)
Telling == IF Tells # <<>> /\ Tells[1].key = "finish" THEN {Tells[1].value} ELSE {}

FinishedFirst ==
  /\ Len(finishes) <= Len(evaluated)
  /\ \A i \in 1 .. Len(finishes) : finishes[i].task = evaluated[i]

LateOnTheirWay ==
  /\ Late = Called \cup Told \cup Telling
  /\ CallsAscend(idle) /\ ToldAscend(News)
  /\ Before(Called, Told) /\ Before(Called, Telling) /\ Before(Told, Telling)

\* Each value of the element is another than those before it: none is ignored
FinishIsNews ==
  /\ FinishStored \in Nat => FinishStored \in Evaluated /\ Before({FinishStored}, Telling)
  /\ FinishSeen \in Nat =>
       FinishSeen \in Evaluated /\ Before({FinishSeen}, Told) /\ Before({FinishSeen}, Telling)

FinishInv == FinishedFirst /\ LateOnTheirWay /\ FinishIsNews

LEMMA CallsAppend ==
  ASSUME NEW s \in Seq(CallBacks), NEW c \in CallBacks
  PROVE  /\ c.do # "finish" => CallsIn(Append(s, c)) = CallsIn(s) /\ (CallsAscend(s) => CallsAscend(Append(s, c)))
         /\ c.do = "finish" =>
              /\ CallsIn(Append(s, c)) = CallsIn(s) \cup {c.task}
              /\ CallsAscend(s) /\ Before(CallsIn(s), {c.task}) => CallsAscend(Append(s, c))
<1> DEFINE t == Append(s, c)
<1>1. /\ Len(s) \in Nat /\ DOMAIN s = 1 .. Len(s)
      /\ DOMAIN t = 1 .. Len(s) + 1
      /\ \A i \in 1 .. Len(s) : t[i] = s[i]
      /\ t[Len(s) + 1] = c
  BY AppendOf
<1> HIDE DEF t
<1>2. /\ \A i \in DOMAIN s : i \in DOMAIN t /\ t[i] = s[i]
      /\ \A i \in DOMAIN t : i \in DOMAIN s \/ i = Len(s) + 1
      /\ Len(s) + 1 \in DOMAIN t
      /\ \A i \in DOMAIN s : ~(Len(s) + 1 < i)
      /\ ~(Len(s) + 1 < Len(s) + 1)
  BY <1>1
<1>3. \A i \in DOMAIN s : s[i].do = "finish" => s[i].task \in Nat
  BY <1>1, ElementOfSeq DEF CallBacks
<1>4. c.do = "finish" => c.task \in Nat
  BY DEF CallBacks
<1>5. ASSUME c.do # "finish"
      PROVE  CallsIn(t) = CallsIn(s) /\ (CallsAscend(s) => CallsAscend(t))
  <2>1. \A i \in DOMAIN t : t[i].do = "finish" => i \in DOMAIN s
    BY <1>1, <1>2, <1>5
  <2>2. CallsIn(t) = CallsIn(s)
    BY <1>2, <2>1 DEF CallsIn
  <2>3. CallsAscend(s) => CallsAscend(t)
    BY <1>2, <2>1, Zenon DEF CallsAscend
  <2> QED BY <2>2, <2>3
<1>6. ASSUME c.do = "finish"
      PROVE  /\ CallsIn(t) = CallsIn(s) \cup {c.task}
             /\ CallsAscend(s) /\ Before(CallsIn(s), {c.task}) => CallsAscend(t)
  <2>1. CallsIn(t) = CallsIn(s) \cup {c.task}
    <3>1. ASSUME NEW x \in CallsIn(t) PROVE x \in CallsIn(s) \cup {c.task}
      BY <1>1, <1>2, Zenon DEF CallsIn
    <3>2. ASSUME NEW x \in CallsIn(s) PROVE x \in CallsIn(t)
      BY <1>2, Zenon DEF CallsIn
    <3>3. c.task \in CallsIn(t)
      BY <1>1, <1>2, <1>4, <1>6, Zenon DEF CallsIn
    <3> QED BY <3>1, <3>2, <3>3
  <2>2. ASSUME CallsAscend(s), Before(CallsIn(s), {c.task}),
               NEW i \in DOMAIN t, NEW j \in DOMAIN t, t[i].do = "finish", t[j].do = "finish", i < j
        PROVE  t[i].task < t[j].task
    <3>1. i \in DOMAIN s /\ t[i] = s[i]
      BY <1>2, <2>2
    <3>2. CASE j \in DOMAIN s
      BY <1>2, <2>2, <3>1, <3>2, Zenon DEF CallsAscend
    <3>3. CASE j = Len(s) + 1
      <4>1. s[i].task \in CallsIn(s)
        BY <1>3, <2>2, <3>1 DEF CallsIn
      <4>2. t[j] = c
        BY <1>1, <3>3
      <4> QED BY <2>2, <3>1, <4>1, <4>2 DEF Before
    <3> QED BY <1>2, <3>2, <3>3
  <2> QED BY <2>1, <2>2 DEF CallsAscend
<1> QED BY <1>5, <1>6 DEF t

LEMMA CallsTail ==
  ASSUME NEW s \in Seq(CallBacks), s # <<>>
  PROVE  /\ CallsAscend(s) => CallsAscend(Tail(s))
         /\ Head(s).do # "finish" => CallsIn(Tail(s)) = CallsIn(s)
         /\ Head(s).do = "finish" =>
              /\ CallsIn(s) = {Head(s).task} \cup CallsIn(Tail(s)) /\ Head(s).task \in Nat
              /\ CallsAscend(s) => Before({Head(s).task}, CallsIn(Tail(s)))
<1>1. /\ Head(s) = s[1] /\ Head(s) \in CallBacks /\ Len(s) \in Nat /\ Len(s) >= 1
      /\ DOMAIN s = 1 .. Len(s)
      /\ DOMAIN Tail(s) = 1 .. Len(s) - 1
      /\ \A i \in 1 .. Len(s) - 1 : Tail(s)[i] = s[i + 1]
  BY TailOf
<1>2. /\ 1 \in DOMAIN s
      /\ \A i \in DOMAIN Tail(s) : i + 1 \in DOMAIN s /\ Tail(s)[i] = s[i + 1] /\ i \in Nat /\ 1 < i + 1
      /\ \A i \in DOMAIN s : i = 1 \/ (i - 1 \in DOMAIN Tail(s) /\ Tail(s)[i - 1] = s[i])
  BY <1>1
<1>3. ASSUME CallsAscend(s) PROVE CallsAscend(Tail(s))
  <2> SUFFICES ASSUME NEW i \in DOMAIN Tail(s), NEW j \in DOMAIN Tail(s),
                      Tail(s)[i].do = "finish", Tail(s)[j].do = "finish", i < j
               PROVE  Tail(s)[i].task < Tail(s)[j].task
    BY DEF CallsAscend
  <2>1. i + 1 < j + 1
    BY <1>2
  <2> QED BY <1>2, <1>3, <2>1, Zenon DEF CallsAscend
<1>4. ASSUME NEW x \in CallsIn(Tail(s)) PROVE x \in CallsIn(s)
  <2>1. PICK i \in DOMAIN Tail(s) : x \in Nat /\ Tail(s)[i].do = "finish" /\ Tail(s)[i].task = x
    BY DEF CallsIn
  <2>2. i + 1 \in DOMAIN s /\ Tail(s)[i] = s[i + 1]
    BY <1>2
  <2> QED BY <2>1, <2>2, Zenon DEF CallsIn
<1>5. ASSUME NEW x \in CallsIn(s)
      PROVE  x \in CallsIn(Tail(s)) \/ (Head(s).do = "finish" /\ x = Head(s).task)
  <2>1. PICK i \in DOMAIN s : x \in Nat /\ s[i].do = "finish" /\ s[i].task = x
    BY DEF CallsIn
  <2>2. i = 1 \/ (i - 1 \in DOMAIN Tail(s) /\ Tail(s)[i - 1] = s[i])
    BY <1>2
  <2> QED BY <1>1, <2>1, <2>2, Zenon DEF CallsIn
<1>6. Head(s).do = "finish" => Head(s).task \in Nat /\ Head(s).task \in CallsIn(s)
  BY <1>1, <1>2 DEF CallBacks, CallsIn
<1>7. ASSUME Head(s).do = "finish", CallsAscend(s) PROVE Before({Head(s).task}, CallsIn(Tail(s)))
  <2> SUFFICES ASSUME NEW x \in CallsIn(Tail(s)) PROVE Head(s).task < x
    BY DEF Before
  <2>1. PICK i \in DOMAIN Tail(s) : Tail(s)[i].do = "finish" /\ Tail(s)[i].task = x
    BY DEF CallsIn
  <2>2. i + 1 \in DOMAIN s /\ Tail(s)[i] = s[i + 1] /\ 1 < i + 1
    BY <1>2
  <2> QED BY <1>1, <1>2, <1>7, <2>1, <2>2, Zenon DEF CallsAscend
<1> QED BY <1>3, <1>4, <1>5, <1>6, <1>7

LEMMA ToldAppend ==
  ASSUME NEW s \in Seq(Messages), NEW m \in Messages
  PROVE  /\ ~IsFinish(m) => ToldIn(Append(s, m)) = ToldIn(s) /\ (ToldAscend(s) => ToldAscend(Append(s, m)))
         /\ IsFinish(m) =>
              /\ ToldIn(Append(s, m)) = ToldIn(s) \cup {m.value}
              /\ ToldAscend(s) /\ Before(ToldIn(s), {m.value}) => ToldAscend(Append(s, m))
<1> DEFINE t == Append(s, m)
<1>1. /\ Len(s) \in Nat /\ DOMAIN s = 1 .. Len(s)
      /\ DOMAIN t = 1 .. Len(s) + 1
      /\ \A i \in 1 .. Len(s) : t[i] = s[i]
      /\ t[Len(s) + 1] = m
  BY AppendOf
<1> HIDE DEF t
<1>2. /\ \A i \in DOMAIN s : i \in DOMAIN t /\ t[i] = s[i]
      /\ \A i \in DOMAIN t : i \in DOMAIN s \/ i = Len(s) + 1
      /\ Len(s) + 1 \in DOMAIN t
      /\ \A i \in DOMAIN s : ~(Len(s) + 1 < i)
      /\ ~(Len(s) + 1 < Len(s) + 1)
  BY <1>1
<1>3. \A x \in Messages : IsFinish(x) => x.value \in Nat
  BY DEF Messages, BatchMessages, ReplyMessage, IsFinish
<1>4. \A i \in DOMAIN s : IsFinish(s[i]) => s[i].value \in Nat
  BY <1>1, <1>3, ElementOfSeq
<1>5. ASSUME ~IsFinish(m)
      PROVE  ToldIn(t) = ToldIn(s) /\ (ToldAscend(s) => ToldAscend(t))
  <2>1. \A i \in DOMAIN t : IsFinish(t[i]) => i \in DOMAIN s
    BY <1>1, <1>2, <1>5
  <2>2. ToldIn(t) = ToldIn(s)
    BY <1>2, <2>1 DEF ToldIn
  <2>3. ToldAscend(s) => ToldAscend(t)
    BY <1>2, <2>1, Zenon DEF ToldAscend
  <2> QED BY <2>2, <2>3
<1>6. ASSUME IsFinish(m)
      PROVE  /\ ToldIn(t) = ToldIn(s) \cup {m.value}
             /\ ToldAscend(s) /\ Before(ToldIn(s), {m.value}) => ToldAscend(t)
  <2>1. ToldIn(t) = ToldIn(s) \cup {m.value}
    <3>1. ASSUME NEW x \in ToldIn(t) PROVE x \in ToldIn(s) \cup {m.value}
      BY <1>1, <1>2, Zenon DEF ToldIn
    <3>2. ASSUME NEW x \in ToldIn(s) PROVE x \in ToldIn(t)
      BY <1>2, Zenon DEF ToldIn
    <3>3. m.value \in ToldIn(t)
      BY <1>1, <1>2, <1>3, <1>6, Zenon DEF ToldIn
    <3> QED BY <3>1, <3>2, <3>3
  <2>2. ASSUME ToldAscend(s), Before(ToldIn(s), {m.value}),
               NEW i \in DOMAIN t, NEW j \in DOMAIN t, IsFinish(t[i]), IsFinish(t[j]), i < j
        PROVE  t[i].value < t[j].value
    <3>1. i \in DOMAIN s /\ t[i] = s[i]
      BY <1>2, <2>2
    <3>2. CASE j \in DOMAIN s
      BY <1>2, <2>2, <3>1, <3>2, Zenon DEF ToldAscend
    <3>3. CASE j = Len(s) + 1
      <4>1. s[i].value \in ToldIn(s)
        BY <1>4, <2>2, <3>1 DEF ToldIn
      <4>2. t[j] = m
        BY <1>1, <3>3
      <4> QED BY <2>2, <3>1, <4>1, <4>2 DEF Before
    <3> QED BY <1>2, <3>2, <3>3
  <2> QED BY <2>1, <2>2 DEF ToldAscend
<1> QED BY <1>5, <1>6 DEF t

LEMMA ToldTail ==
  ASSUME NEW s \in Seq(Messages), s # <<>>
  PROVE  /\ ToldAscend(s) => ToldAscend(Tail(s))
         /\ ~IsFinish(Head(s)) => ToldIn(Tail(s)) = ToldIn(s)
         /\ IsFinish(Head(s)) =>
              /\ ToldIn(s) = {Head(s).value} \cup ToldIn(Tail(s)) /\ Head(s).value \in Nat
              /\ ToldAscend(s) => Before({Head(s).value}, ToldIn(Tail(s)))
<1>1. /\ Head(s) = s[1] /\ Head(s) \in Messages /\ Len(s) \in Nat /\ Len(s) >= 1
      /\ DOMAIN s = 1 .. Len(s)
      /\ DOMAIN Tail(s) = 1 .. Len(s) - 1
      /\ \A i \in 1 .. Len(s) - 1 : Tail(s)[i] = s[i + 1]
  BY TailOf
<1>2. /\ 1 \in DOMAIN s
      /\ \A i \in DOMAIN Tail(s) : i + 1 \in DOMAIN s /\ Tail(s)[i] = s[i + 1] /\ i \in Nat /\ 1 < i + 1
      /\ \A i \in DOMAIN s : i = 1 \/ (i - 1 \in DOMAIN Tail(s) /\ Tail(s)[i - 1] = s[i])
  BY <1>1
<1>3. ASSUME ToldAscend(s) PROVE ToldAscend(Tail(s))
  <2> SUFFICES ASSUME NEW i \in DOMAIN Tail(s), NEW j \in DOMAIN Tail(s),
                      IsFinish(Tail(s)[i]), IsFinish(Tail(s)[j]), i < j
               PROVE  Tail(s)[i].value < Tail(s)[j].value
    BY DEF ToldAscend
  <2>1. i + 1 < j + 1
    BY <1>2
  <2> QED BY <1>2, <1>3, <2>1, Zenon DEF ToldAscend
<1>4. ASSUME NEW x \in ToldIn(Tail(s)) PROVE x \in ToldIn(s)
  <2>1. PICK i \in DOMAIN Tail(s) : x \in Nat /\ IsFinish(Tail(s)[i]) /\ Tail(s)[i].value = x
    BY DEF ToldIn
  <2>2. i + 1 \in DOMAIN s /\ Tail(s)[i] = s[i + 1]
    BY <1>2
  <2> QED BY <2>1, <2>2, Zenon DEF ToldIn
<1>5. ASSUME NEW x \in ToldIn(s)
      PROVE  x \in ToldIn(Tail(s)) \/ (IsFinish(Head(s)) /\ x = Head(s).value)
  <2>1. PICK i \in DOMAIN s : x \in Nat /\ IsFinish(s[i]) /\ s[i].value = x
    BY DEF ToldIn
  <2>2. i = 1 \/ (i - 1 \in DOMAIN Tail(s) /\ Tail(s)[i - 1] = s[i])
    BY <1>2
  <2> QED BY <1>1, <2>1, <2>2, Zenon DEF ToldIn
<1>6. IsFinish(Head(s)) => Head(s).value \in Nat
  BY <1>1 DEF Messages, BatchMessages, ReplyMessage, IsFinish
<1>7. IsFinish(Head(s)) => Head(s).value \in ToldIn(s)
  BY <1>1, <1>2, <1>6 DEF ToldIn
<1>8. ASSUME IsFinish(Head(s)), ToldAscend(s) PROVE Before({Head(s).value}, ToldIn(Tail(s)))
  <2> SUFFICES ASSUME NEW x \in ToldIn(Tail(s)) PROVE Head(s).value < x
    BY DEF Before
  <2>1. PICK i \in DOMAIN Tail(s) : IsFinish(Tail(s)[i]) /\ Tail(s)[i].value = x
    BY DEF ToldIn
  <2>2. i + 1 \in DOMAIN s /\ Tail(s)[i] = s[i + 1] /\ 1 < i + 1
    BY <1>2
  <2> QED BY <1>1, <1>2, <1>8, <2>1, <2>2, Zenon DEF ToldAscend
<1> QED BY <1>3, <1>4, <1>5, <1>6, <1>7, <1>8

LEMMA FinishFacts ==
  ASSUME ProtocolInv, FinishInv
  PROVE  /\ FinishedFirst /\ LateOnTheirWay /\ FinishIsNews
         /\ CallsAscend(idle) /\ ToldAscend(News)
         /\ idle \in Seq(CallBacks) /\ News \in Seq(Messages) /\ evaluated \in Seq(Nat)
         /\ Late \subseteq Evaluated
<1>1. Late \subseteq Evaluated
  BY DEF Late, Evaluated, Range
<1> QED BY <1>1, ProtocolFacts, QueueTypes DEF FinishInv, LateOnTheirWay, ServerType, SlaveType

LEMMA FinishInit == Init => FinishInv
<1> SUFFICES ASSUME Init PROVE FinishInv
  OBVIOUS
<1>1. /\ idle = <<>> /\ finishes = <<>> /\ evaluated = <<>>
      /\ Tells = <<>> /\ News = <<>>
      /\ FinishStored = Absent /\ FinishSeen = Absent
  BY TheProcesses DEF Init, TequilaInit, Tells, News, FinishStored, FinishSeen
<1>2. DOMAIN <<>> = {} /\ Len(<<>>) = 0 /\ 1 .. 0 = {}
  OBVIOUS
<1>3. FinishedFirst
  BY <1>1, <1>2 DEF FinishedFirst
<1>4. Late = {} /\ Called = {} /\ Told = {} /\ Telling = {}
  BY <1>1, <1>2 DEF Late, Called, CallsIn, Told, ToldIn, Telling
<1>5. CallsAscend(idle) /\ ToldAscend(News)
  BY <1>1, <1>2 DEF CallsAscend, ToldAscend
<1>6. LateOnTheirWay
  BY <1>4, <1>5 DEF LateOnTheirWay, Before
<1> QED BY <1>1, <1>3, <1>6, TheProcesses DEF FinishInv, FinishIsNews

\* A step that moves no task finished
LEMMA NoFinishMoves ==
  ASSUME FinishInv, UNCHANGED <<finishes, evaluated>>,
         Called' = Called, CallsAscend(idle'), Told' = Told, ToldAscend(News'), Telling' = Telling,
         FinishStored' = FinishStored, FinishSeen' = FinishSeen
  PROVE  FinishInv'
<1>1. Late' = Late /\ Evaluated' = Evaluated
  BY DEF Late, Evaluated
<1>2. FinishedFirst'
  BY DEF FinishInv, FinishedFirst
<1>3. LateOnTheirWay'
  BY <1>1 DEF FinishInv, LateOnTheirWay
<1>4. FinishIsNews'
  BY <1>1, Zenon DEF FinishInv, FinishIsNews
<1> QED BY <1>2, <1>3, <1>4 DEF FinishInv

LEMMA FinishesStay ==
  ASSUME ProtocolInv, FinishInv
  PROVE  /\ UNCHANGED idle => Called' = Called /\ CallsAscend(idle')
         /\ News' = News => Told' = Told /\ ToldAscend(News')
         /\ Tells' = Tells => Telling' = Telling
         /\ Tells = <<>> => Telling = {}
         /\ Tells' = <<>> => Telling' = {}
         /\ Tells # <<>> /\ Tells[1].key # "finish" => Telling = {}
         /\ Tells' # <<>> /\ Tells'[1].key # "finish" => Telling' = {}
BY FinishFacts DEF Called, Told, Telling

LEMMA BatchServedKeepsFinishes ==
  ASSUME ProtocolInv, FinishInv, TqsRequest("server"), UNCHANGED <<serverVars, slaveVars, finishes>>
  PROVE  FinishInv'
<1>1. /\ UNCHANGED <<idle, finishes, evaluated>>
      /\ Tells' = Tells /\ News' = Append(News, ReplyMessage)
      /\ FinishStored' = FinishStored /\ FinishSeen' = FinishSeen
  BY BatchServedEffect DEF ProcessesStay
<1>2. ReplyMessage \in Messages /\ ~IsFinish(ReplyMessage)
  BY DEF Messages, BatchMessages, ReplyMessage, IsFinish
<1>3. Told' = Told /\ ToldAscend(News')
  BY <1>1, <1>2, FinishFacts, ToldAppend DEF Told
<1> QED BY <1>1, <1>3, FinishesStay, NoFinishMoves

LEMMA ChangeServedKeepsFinishes ==
  ASSUME ProtocolInv, FinishInv, TqsRequest("slave"), UNCHANGED <<serverVars, slaveVars, finishes>>
  PROVE  FinishInv'
<1> DEFINE r == Tells[1]
           m == SetMessage(r.key, r.value)
<1>1. /\ UNCHANGED <<idle, finishes, evaluated>>
      /\ Tells # <<>> /\ r \in Requests /\ Tells' = <<>>
      /\ News' = News \/ News' = Append(News, m)
      /\ News' = News /\ r.key = "finish" => FinishStored = r.value
      /\ FinishStored' = IF r.key = "finish" THEN r.value ELSE FinishStored
      /\ FinishSeen' = FinishSeen
  BY ChangeServedEffect DEF ProcessesStay
<1>2. m \in Messages /\ (IsFinish(m) <=> r.key = "finish") /\ m.value = r.value
  BY <1>1 DEF Requests, BatchRequests, Messages, BatchMessages, SetMessage, IsFinish
<1>3. r.key = "finish" => r.value \in Nat /\ Telling = {r.value}
  BY <1>1 DEF Requests, BatchRequests, Telling
<1>4. Called' = Called /\ CallsAscend(idle') /\ Telling' = {}
  BY <1>1, FinishesStay
<1>5. News \in Seq(Messages) /\ ToldAscend(News)
  BY FinishFacts
<1>6. CASE r.key # "finish"
  <2>1. Telling = {} /\ Told' = Told /\ ToldAscend(News')
    BY <1>1, <1>2, <1>5, <1>6, FinishesStay, ToldAppend DEF Told
  <2> QED BY <1>1, <1>4, <1>6, <2>1, NoFinishMoves
<1>7. CASE r.key = "finish"
  <2> DEFINE v == r.value
  <2>1. v \in Nat /\ Telling = {v} /\ v \in Late /\ v \in Evaluated
    BY <1>3, <1>7, FinishFacts DEF LateOnTheirWay
  <2>2. News' # News
    <3>1. Before({FinishStored}, Telling) => FinishStored # v
      BY <2>1 DEF Before
    <3> QED BY <1>1, <1>7, <2>1, <3>1, FinishFacts DEF FinishIsNews
  <2>3. Told' = Told \cup {v} /\ ToldAscend(News')
    <3>1. Before(Told, {v})
      BY <2>1, FinishFacts DEF LateOnTheirWay
    <3>2. News' = Append(News, m) /\ IsFinish(m) /\ m.value = v
      BY <1>1, <1>2, <1>7, <2>2
    <3> QED BY <1>2, <1>5, <3>1, <3>2, ToldAppend DEF Told
  <2>4. Late' = Late /\ Evaluated' = Evaluated
    BY <1>1 DEF Late, Evaluated
  <2>5. FinishedFirst'
    BY <1>1, FinishFacts DEF FinishedFirst
  <2> HIDE DEF v
  <2>6. LateOnTheirWay'
    BY <1>4, <2>1, <2>3, <2>4, FinishFacts DEF LateOnTheirWay, Before
  <2>7. FinishIsNews'
    <3>1. FinishStored' = v /\ FinishSeen' = FinishSeen
      BY <1>1, <1>7 DEF v
    <3> QED BY <1>4, <2>1, <2>3, <2>4, <3>1, FinishFacts DEF FinishIsNews, Before
  <2> QED BY <2>5, <2>6, <2>7 DEF FinishInv
<1> QED BY <1>6, <1>7

LEMMA NewsTaken ==
  ASSUME ProtocolInv, FinishInv, ServerCallBack
  PROVE  FinishInv'
<1> DEFINE m == Head(News)
           v == m.value
<1>1. /\ UNCHANGED <<finishes, evaluated>>
      /\ Tells' = Tells /\ FinishStored' = FinishStored
      /\ News # <<>> /\ m \in Messages /\ News' = Tail(News)
      /\ FinishSeen' = IF IsFinish(m) THEN v ELSE FinishSeen
      /\ idle' = IF IsFinish(m) /\ FinishSeen # v
                 THEN Append(idle, [do |-> "finish", task |-> v]) ELSE idle
  BY ServerCallBackEffect DEF SlaveStays, IsFinish
<1>2. /\ ToldAscend(News')
      /\ ~IsFinish(m) => Told' = Told
      /\ IsFinish(m) => Told = {v} \cup Told' /\ v \in Nat /\ Before({v}, Told')
  BY <1>1, FinishFacts, ToldTail DEF Told
<1>3. Telling' = Telling
  BY <1>1, FinishesStay
<1> HIDE DEF m
<1>4. CASE ~IsFinish(m)
  BY <1>1, <1>2, <1>3, <1>4, FinishesStay, NoFinishMoves
<1>5. CASE IsFinish(m)
  <2> HIDE DEF v
  <2>1. v \in Nat /\ v \in Told /\ Told = {v} \cup Told' /\ Before({v}, Told')
    BY <1>2, <1>5
  <2>2. v \in Late /\ v \in Evaluated
    BY <2>1, FinishFacts DEF LateOnTheirWay
  <2>3. FinishSeen # v
    <3>1. FinishSeen \in Nat => FinishSeen < v
      BY <2>1, FinishFacts DEF FinishIsNews, Before
    <3> QED BY <2>1, <3>1
  <2>4. Called' = Called \cup {v} /\ CallsAscend(idle')
    <3>1. Before(Called, {v})
      BY <2>1, FinishFacts DEF LateOnTheirWay, Before
    <3>2. [do |-> "finish", task |-> v] \in CallBacks
      BY <2>1 DEF CallBacks
    <3> DEFINE c == [do |-> "finish", task |-> v]
    <3>3. c.do = "finish" /\ c.task = v
      OBVIOUS
    <3> HIDE DEF c
    <3>4. idle' = Append(idle, c) /\ c \in CallBacks
      BY <1>1, <1>5, <2>3, <3>2 DEF c
    <3> QED BY <3>1, <3>3, <3>4, FinishFacts, CallsAppend DEF Called
  <2>5. Late' = Late /\ Evaluated' = Evaluated
    BY <1>1 DEF Late, Evaluated
  <2>6. FinishedFirst'
    BY <1>1, FinishFacts DEF FinishedFirst
  <2>7. LateOnTheirWay'
    BY <1>2, <1>3, <2>1, <2>4, <2>5, FinishFacts DEF LateOnTheirWay, Before
  <2>8. FinishIsNews'
    <3>1. FinishStored' = FinishStored /\ FinishSeen' = v
      BY <1>1, <1>5
    <3>2. Before({v}, Telling)
      BY <2>1, FinishFacts DEF LateOnTheirWay, Before
    <3> QED BY <1>3, <2>1, <2>2, <2>5, <3>1, <3>2, FinishFacts DEF FinishIsNews
  <2> QED BY <2>6, <2>7, <2>8 DEF FinishInv
<1> QED BY <1>4, <1>5

(* The next TFINISH is that of the first task evaluated that has none.            *)
LEMMA FirstLateIsSent ==
  ASSUME ProtocolInv, OrderInv, FinishInv, SendFinish
  PROVE  FinishInv'
<1> DEFINE t == Head(idle).task
           n == Len(finishes) + 1
<1>1. /\ UNCHANGED evaluated /\ TequilaStays
      /\ idle # <<>> /\ Head(idle).do = "finish" /\ idle' = Tail(idle)
      /\ t \in Nat
      /\ Len(finishes) \in Nat /\ Len(finishes') = n
      /\ finishes'[n].task = t
      /\ \A i \in 1 .. Len(finishes) : finishes'[i] = finishes[i]
  BY SendFinishEffect
<1>2. Called = {t} \cup Called' /\ Before({t}, Called') /\ CallsAscend(idle')
  BY <1>1, FinishFacts, CallsTail DEF Called
<1>3. Told' = Told /\ ToldAscend(News') /\ Telling' = Telling
  BY <1>1, FinishesStay DEF TequilaStays
<1>4. evaluated \in Seq(Nat) /\ Ascending(evaluated)
  BY FinishFacts, OrderFacts DEF BatchesAscend
<1>5. Len(evaluated) \in Nat /\ DOMAIN evaluated = 1 .. Len(evaluated) /\ \A i \in DOMAIN evaluated : evaluated[i] \in Nat
  BY <1>4, LenProperties, ElementOfSeq
<1> HIDE DEF t
<1>6. t \in Late /\ \A x \in Late : x = t \/ t < x
  BY <1>2, FinishFacts DEF LateOnTheirWay, Before
<1>7. PICK j \in DOMAIN evaluated : Len(finishes) < j /\ evaluated[j] = t
  BY <1>6 DEF Late
<1>8. n \in DOMAIN evaluated /\ Len(finishes) < n /\ n \in Nat
  BY <1>1, <1>5, <1>7
<1> HIDE DEF n
<1>9. evaluated[n] = t
  <2>1. evaluated[n] \in Late /\ evaluated[n] \in Nat
    BY <1>5, <1>8 DEF Late
  <2>2. n = j \/ n < j
    BY <1>1, <1>5, <1>7, <1>8 DEF n
  <2>3. n < j => evaluated[n] < t
    BY <1>4, <1>7, <1>8 DEF Ascending
  <2> QED BY <1>1, <1>6, <1>7, <2>1, <2>2, <2>3
<1>10. \A i \in DOMAIN evaluated : Len(finishes) < i <=> i = n \/ n < i
  BY <1>1, <1>5 DEF n
<1>11. Late = {t} \cup Late' /\ Before({t}, Late')
  <2>1. Late' = {x \in Nat : \E i \in DOMAIN evaluated : n < i /\ evaluated[i] = x}
    BY <1>1 DEF Late
  <2>2. Late = {t} \cup Late'
    BY <1>1, <1>8, <1>9, <1>10, <2>1 DEF Late
  <2>3. \A i \in DOMAIN evaluated : n < i => t < evaluated[i]
    BY <1>4, <1>8, <1>9, Zenon DEF Ascending
  <2> QED BY <2>1, <2>2, <2>3 DEF Before
<1>12. FinishedFirst'
  <2>1. n <= Len(evaluated)
    BY <1>5, <1>8
  <2>2. \A i \in 1 .. n : i = n \/ i \in 1 .. Len(finishes)
    BY <1>1 DEF n
  <2>3. \A i \in 1 .. n : finishes'[i].task = evaluated[i]
    BY <1>1, <1>9, <2>2, FinishFacts DEF FinishedFirst
  <2> QED BY <1>1, <2>1, <2>3 DEF FinishedFirst
<1>13. /\ Before({t}, Told) /\ Before({t}, Telling)
       /\ Before(Called', Told) /\ Before(Called', Telling) /\ Before(Told, Telling)
  BY <1>2, FinishFacts DEF LateOnTheirWay, Before
<1>14. LateOnTheirWay'
  <2>1. Late = Called \cup Told \cup Telling
    BY FinishFacts DEF LateOnTheirWay
  <2>2. t \notin Late' /\ t \notin Called' /\ t \notin Told /\ t \notin Telling
    <3>1. ~(t < t)
      BY <1>1
    <3> QED BY <1>2, <1>11, <1>13, <3>1 DEF Before
  <2>3. Late' = Called' \cup Told \cup Telling
    BY <1>2, <1>11, <2>1, <2>2
  <2> QED BY <1>2, <1>3, <1>13, <2>3 DEF LateOnTheirWay
<1>15. FinishIsNews'
  <2>1. Evaluated' = Evaluated /\ FinishStored' = FinishStored /\ FinishSeen' = FinishSeen
    BY <1>1 DEF Evaluated, TequilaStays
  <2> QED BY <1>3, <2>1, FinishFacts DEF FinishIsNews
<1> QED BY <1>12, <1>14, <1>15 DEF FinishInv

LEMMA EvaluatedIsTold ==
  ASSUME ProtocolInv, OrderInv, FinishInv, EvaluateTask
  PROVE  FinishInv'
<1> DEFINE t == Head(slaveQueue)
<1>1. /\ ServerStays /\ slaveQueue # <<>> /\ t \in Nat
      /\ evaluated' = Append(evaluated, t)
      /\ Tells = <<>> /\ Tells' # <<>> /\ Tells'[1] = Change("finish", t)
  BY EvaluateTaskEffect
<1>2. /\ UNCHANGED <<idle, finishes>>
      /\ News' = News /\ FinishSeen' = FinishSeen /\ FinishStored' = FinishStored
  BY <1>1 DEF ServerStays, FinishStored
<1>3. slaveQueue \in Seq(Nat) /\ evaluated \in Seq(Nat) /\ Before(Evaluated, Processed)
  BY ProtocolFacts, OrderFacts DEF SlaveType, PlacesInOrder
<1>4. t \in Processed
  BY <1>1, <1>3, AscendingTail DEF Processed
<1>5. /\ Len(evaluated) \in Nat /\ DOMAIN evaluated = 1 .. Len(evaluated)
      /\ Len(evaluated') = Len(evaluated) + 1
      /\ DOMAIN evaluated' = 1 .. Len(evaluated) + 1
      /\ \A i \in 1 .. Len(evaluated) : evaluated'[i] = evaluated[i]
      /\ evaluated'[Len(evaluated) + 1] = t
  BY <1>1, <1>3, AppendOf
<1> HIDE DEF t
<1>6. Telling = {} /\ Telling' = {t}
  <2>1. Change("finish", t).key = "finish" /\ Change("finish", t).value = t
    BY DEF Change
  <2> QED BY <1>1, <2>1, FinishesStay DEF Telling
<1>7. Called' = Called /\ CallsAscend(idle') /\ Told' = Told /\ ToldAscend(News')
  BY <1>2, FinishesStay
<1>8. Before(Evaluated, {t})
  BY <1>3, <1>4 DEF Before
<1>9. Evaluated \subseteq Evaluated'
  <2>1. \A i \in DOMAIN evaluated : i \in DOMAIN evaluated' /\ evaluated'[i] = evaluated[i]
    BY <1>5
  <2> QED BY <2>1, Zenon DEF Evaluated, Range
<1>10. Len(finishes) <= Len(evaluated) /\ Len(finishes) \in Nat
  <2>1. finishes \in Seq(Range(finishes))
    BY ProtocolFacts DEF ServerType
  <2> QED BY <2>1, FinishFacts, LenProperties DEF FinishedFirst
<1>11. Late' = Late \cup {t}
  <2>1. \A i : i \in DOMAIN evaluated' <=> i \in DOMAIN evaluated \/ i = Len(evaluated) + 1
    BY <1>5
  <2>2. Len(finishes) < Len(evaluated) + 1 /\ Len(evaluated) + 1 \in DOMAIN evaluated'
    BY <1>5, <1>10
  <2>3. Late' = {x \in Nat : \E i \in DOMAIN evaluated' : Len(finishes) < i /\ evaluated'[i] = x}
    BY <1>2 DEF Late
  <2>4. \A i \in DOMAIN evaluated : evaluated'[i] = evaluated[i]
    BY <1>5
  <2> QED BY <1>1, <1>5, <2>1, <2>2, <2>3, <2>4, Zenon DEF Late
<1>12. FinishedFirst'
  <2>1. Len(finishes) <= Len(evaluated) + 1
    BY <1>5, <1>10
  <2>2. \A i \in 1 .. Len(finishes) : i \in 1 .. Len(evaluated)
    BY <1>5, <1>10
  <2> QED BY <1>2, <1>5, <2>1, <2>2, FinishFacts DEF FinishedFirst
<1>13. LateOnTheirWay'
  <2>1. Called \subseteq Evaluated /\ Told \subseteq Evaluated
    BY FinishFacts DEF LateOnTheirWay
  <2>2. Before(Called, {t}) /\ Before(Told, {t})
    BY <1>8, <2>1 DEF Before
  <2> QED BY <1>6, <1>7, <1>11, <2>2, FinishFacts DEF LateOnTheirWay
<1>14. FinishIsNews'
  BY <1>2, <1>6, <1>7, <1>8, <1>9, FinishFacts DEF FinishIsNews, Before
<1> QED BY <1>12, <1>13, <1>14 DEF FinishInv


\* The other steps of the server and the slave
LEMMA FinishesAreKept ==
  ASSUME ProtocolInv, FinishInv, UNCHANGED <<finishes, evaluated>>, News' = News,
         FinishStored' = FinishStored, FinishSeen' = FinishSeen,
         Called' = Called, CallsAscend(idle'), Telling' = Telling
  PROVE  FinishInv'
BY FinishesStay, NoFinishMoves

LEMMA FinishNext == ProtocolInv /\ EchoInv /\ OrderInv /\ FinishInv /\ [Next]_vars => FinishInv'
<1> SUFFICES ASSUME ProtocolInv, EchoInv, OrderInv, FinishInv, [Next]_vars PROVE FinishInv'
  OBVIOUS
<1> DEFINE Still == /\ UNCHANGED <<idle, finishes, evaluated>> /\ News' = News
                    /\ FinishStored' = FinishStored /\ FinishSeen' = FinishSeen
<1>0. ASSUME Still, Telling' = Telling PROVE FinishInv'
  BY <1>0, FinishesStay, FinishesAreKept
<1>1. CASE Elsewhere
  <2>1. Still /\ Tells' = Tells
    BY <1>1, ElsewhereEffect DEF ProcessesStay, TequilaStays
  <2> QED BY <1>0, <2>1, FinishesStay
<1>2. CASE TqsRequest("server") /\ UNCHANGED <<serverVars, slaveVars, finishes>>
  BY <1>2, BatchServedKeepsFinishes
<1>3. CASE TqsRequest("slave") /\ UNCHANGED <<serverVars, slaveVars, finishes>>
  BY <1>3, ChangeServedKeepsFinishes
<1>4. ASSUME NEW c \in Chans, OnToleval(c) PROVE FinishInv'
  <2>1. /\ TequilaStays /\ UNCHANGED <<finishes, evaluated>>
        /\ idle' = Append(idle, [do |-> "dispatch"])
    BY <1>4, OnTolevalEffect
  <2>2. [do |-> "dispatch"] \in CallBacks /\ [do |-> "dispatch"].do # "finish"
    BY DEF CallBacks
  <2>3. Called' = Called /\ CallsAscend(idle')
    BY <2>1, <2>2, FinishFacts, CallsAppend DEF Called
  <2> QED BY <2>1, <2>3, FinishesStay, FinishesAreKept DEF TequilaStays
<1>5. CASE DispatchToSlave
  <2>1. /\ SlaveStays /\ ServerListens
        /\ idle # <<>> /\ Head(idle).do = "dispatch" /\ idle' = Tail(idle)
    BY <1>5, DispatchEffect
  <2>2. Called' = Called /\ CallsAscend(idle')
    BY <2>1, FinishFacts, CallsTail DEF Called
  <2> QED BY <2>1, <2>2, FinishesStay, FinishesAreKept DEF SlaveStays, ServerListens
<1>6. CASE Resume
  <2>1. Still /\ Tells' = Tells
    BY <1>6, ResumeEffect DEF SlaveStays, ServerListens
  <2> QED BY <1>0, <2>1, FinishesStay
<1>7. CASE ServerCallBack
  BY <1>7, NewsTaken
<1>8. CASE SendFinish
  BY <1>8, FirstLateIsSent
<1>9. CASE SlaveStarts \/ BatchArrives \/ Echoed \/ BatchDone
  <2>1. /\ ServerStays /\ UNCHANGED evaluated /\ Tells = <<>>
        /\ Tells' # <<>> /\ Tells'[1].key # "finish"
    <3>1. /\ ServerStays /\ UNCHANGED evaluated /\ Tells = <<>> /\ Tells' # <<>>
          /\ \E k, v : k \in {"state", "request"} /\ Tells'[1] = Change(k, v)
      <4>1. Echoed => Batch \in Seq(Nat)
        BY DEF EchoInv, Echoed, Replied
      <4> QED BY <1>9, <4>1, SlaveStartsEffect, BatchArrivesEffect, EchoedEffect, BatchDoneEffect
    <3> QED BY <3>1 DEF Change
  <2>2. Still
    BY <2>1 DEF ServerStays, FinishStored
  <2>3. Telling' = Telling
    BY <2>1, FinishesStay
  <2> QED BY <1>0, <2>2, <2>3
<1>10. CASE BatchArrivesUnseen \/ Announced \/ GoesOn \/ CallBackReturns
  <2>1. ServerStays /\ UNCHANGED evaluated /\ Tells' = Tells
    BY <1>10, BatchArrivesUnseenEffect, ReturnsEffect
  <2>2. Still
    BY <2>1 DEF ServerStays, FinishStored
  <2> QED BY <1>0, <2>1, <2>2, FinishesStay
<1>11. CASE EvaluateTask
  BY <1>11, EvaluatedIsTold
<1> QED BY <1>1, <1>2, <1>3, <1>4, <1>5, <1>6, <1>7, <1>8, <1>9, <1>10, <1>11, StepCases

(* The TFINISH sent are those of the first tasks evaluated, each once and in        *)
(* order, though the slave overwrites one shared element for each task and the    *)
(* server sends them later, when idle (tolslave.tcl:193-195,                      *)
(* tolserver.tcl:498-509).                                                      *)
THEOREM FinishesInOrder == Spec => []FinishesFollowEvaluations
<1>1. Init => ProtocolInv /\ EchoInv /\ OrderInv /\ FinishInv
  BY ProtocolInit, OrderInit, FinishInit
<1>2. ProtocolInv /\ EchoInv /\ OrderInv /\ FinishInv /\ [Next]_vars =>
        (ProtocolInv /\ EchoInv /\ OrderInv /\ FinishInv)'
  BY ProtocolNext, OrderNext, FinishNext
<1>3. ProtocolInv /\ FinishInv => FinishesFollowEvaluations
  <2> SUFFICES ASSUME ProtocolInv, FinishInv PROVE FinishesFollowEvaluations
    OBVIOUS
  <2> DEFINE Finished == [i \in DOMAIN finishes |-> finishes[i].task]
             n == Len(finishes)
  <2>1. /\ n \in Nat /\ DOMAIN finishes = 1 .. n
        /\ evaluated \in Seq(Nat) /\ Len(evaluated) \in Nat
        /\ n <= Len(evaluated)
        /\ \A i \in 1 .. n : finishes[i].task = evaluated[i]
    BY ProtocolFacts, FinishFacts, LenProperties DEF ServerType, FinishedFirst
  <2>2. Finished = [i \in 1 .. n |-> evaluated[i]] /\ Len(Finished) = n
    BY <2>1
  <2> HIDE DEF n
  <2>3. SubSeq(Finished, 1, n) = [i \in 1 .. n |-> evaluated[i]]
    BY <2>1, <2>2
  <2>4. SubSeq(evaluated, 1, n) = [i \in 1 .. n |-> evaluated[i]]
    BY <2>1
  <2> HIDE DEF Finished
  <2>5. IsPrefix(Finished, evaluated)
    BY <2>1, <2>2, <2>3, <2>4 DEF IsPrefix
  <2> QED BY <2>5 DEF FinishesFollowEvaluations, Finished
<1> QED BY <1>1, <1>2, <1>3, PTL DEF Spec

-----------------------------------------------------------------------------
(* Nothing is left waiting.                                                *)

\* The server learns of the last state the slave wrote
StateIsTold ==
  /\ Converging(News, "state", SlaveState, StateStored)
  /\ Tells # <<>> /\ Tells[1].key = "state" => OwnState = Tells[1].value
  /\ ~(Tells # <<>> /\ Tells[1].key = "state") => OwnState = StateStored

ReadyWhenIdle == slavePc \in {"announce", "idle", "echo", "ready"} => OwnState = "ready"

\* A handler waits for the state only while what the server knows of it is not ready
WaitsForReady == Awaits(stack, "wait") => SlaveState # "ready"

WaitInv == StateIsTold /\ ReadyWhenIdle /\ WaitsForReady

\* A task queued has a dispatch to come
Dispatches(s) == \E i \in DOMAIN s : s[i].do = "dispatch"
DispatchInv ==
  /\ queueTasks # <<>> => Dispatches(idle) \/ Has(stack, "wait")
  /\ queueTasks # <<>> \/ Dispatches(idle) => SlaveState # Absent

LEMMA WaitInit == Init => WaitInv /\ DispatchInv
<1> SUFFICES ASSUME Init PROVE WaitInv /\ DispatchInv
  OBVIOUS
<1>1. /\ idle = <<>> /\ stack = <<>> /\ queueTasks = <<>> /\ slavePc = "loading"
      /\ Tells = <<>> /\ News = <<>>
      /\ StateStored = Absent /\ SlaveState = Absent /\ OwnState = Absent
  BY TheProcesses DEF Init, TequilaInit, Tells, News, StateStored, SlaveState, OwnState
<1>2. DOMAIN <<>> = {}
  OBVIOUS
<1>3. Sets(News, "state") = {}
  BY <1>1, <1>2 DEF Sets
<1>4. ~Awaits(stack, "wait") /\ ~Dispatches(idle)
  BY <1>1, <1>2 DEF Awaits, Dispatches
<1> QED BY <1>1, <1>3, <1>4
        DEF WaitInv, StateIsTold, ReadyWhenIdle, WaitsForReady, DispatchInv, Converging

LEMMA WaitFacts ==
  ASSUME WaitInv
  PROVE  StateIsTold /\ ReadyWhenIdle /\ WaitsForReady
BY DEF WaitInv

LEMMA ConvergingIsKept ==
  ASSUME StateIsTold, News' = News, SlaveState' = SlaveState, StateStored' = StateStored
  PROVE  Converging(News', "state", SlaveState', StateStored')
BY DEF StateIsTold

\* A step of the server that takes no news, or of its clients
LEMMA ServerKeepsWait ==
  ASSUME WaitInv, SlaveStays, News' = News, SlaveState' = SlaveState, StateStored' = StateStored,
         Awaits(stack', "wait") => Awaits(stack, "wait") \/ SlaveState # "ready"
  PROVE  WaitInv'
<1>1. StateIsTold'
  <2>1. Tells' = Tells /\ OwnState' = OwnState
    BY DEF SlaveStays
  <2> QED BY <2>1, WaitFacts, ConvergingIsKept DEF StateIsTold
<1>2. ReadyWhenIdle'
  BY WaitFacts DEF ReadyWhenIdle, SlaveStays
<1>3. WaitsForReady'
  BY WaitFacts DEF WaitsForReady
<1> QED BY <1>1, <1>2, <1>3 DEF WaitInv

\* A step of the slave
LEMMA SlaveKeepsWait ==
  ASSUME WaitInv, ServerStays,
         \/ Tells' = Tells /\ OwnState' = OwnState
         \/ /\ Tells = <<>> /\ Tells' # <<>>
            /\ \/ Tells'[1].key = "state" /\ OwnState' = Tells'[1].value
               \/ Tells'[1].key # "state" /\ OwnState' = OwnState,
         ReadyWhenIdle'
  PROVE  WaitInv'
<1>1. News' = News /\ SlaveState' = SlaveState /\ StateStored' = StateStored /\ stack' = stack
  BY DEF ServerStays, StateStored
<1>2. Converging(News', "state", SlaveState', StateStored')
  BY <1>1, WaitFacts, ConvergingIsKept
<1>3. StateIsTold'
  <2>1. CASE Tells' = Tells /\ OwnState' = OwnState
    BY <1>1, <1>2, <2>1, WaitFacts DEF StateIsTold
  <2>2. CASE Tells = <<>> /\ Tells' # <<>> /\ Tells'[1].key = "state" /\ OwnState' = Tells'[1].value
    BY <1>2, <2>2 DEF StateIsTold
  <2>3. CASE Tells = <<>> /\ Tells' # <<>> /\ Tells'[1].key # "state" /\ OwnState' = OwnState
    BY <1>1, <1>2, <2>3, WaitFacts DEF StateIsTold
  <2> QED BY <2>1, <2>2, <2>3
<1>4. WaitsForReady'
  BY <1>1, WaitFacts DEF WaitsForReady
<1> QED BY <1>3, <1>4 DEF WaitInv

LEMMA BatchServedKeepsWait ==
  ASSUME ProtocolInv, WaitInv, TqsRequest("server"), UNCHANGED <<serverVars, slaveVars, finishes>>
  PROVE  WaitInv'
<1>1. /\ UNCHANGED <<stack, slavePc>>
      /\ Tells' = Tells /\ News' = Append(News, ReplyMessage)
      /\ StateStored' = StateStored /\ SlaveState' = SlaveState /\ OwnState' = OwnState
  BY BatchServedEffect DEF ProcessesStay
<1>2. Converging(News', "state", SlaveState', StateStored')
  <2>1. ReplyMessage \in Messages /\ ReplyMessage.op # "Set"
    BY DEF Messages, BatchMessages, ReplyMessage
  <2>2. News \in Seq(Messages)
    BY ProtocolFacts, QueueTypes
  <2> QED BY <1>1, <2>1, <2>2, WaitFacts, OtherIsConverging DEF StateIsTold
<1> QED BY <1>1, <1>2 DEF WaitInv, StateIsTold, ReadyWhenIdle, WaitsForReady

LEMMA ChangeServedKeepsWait ==
  ASSUME ProtocolInv, WaitInv, TqsRequest("slave"), UNCHANGED <<serverVars, slaveVars, finishes>>
  PROVE  WaitInv'
<1> DEFINE r == Tells[1]
           m == SetMessage(r.key, r.value)
<1>1. /\ UNCHANGED <<stack, slavePc>>
      /\ Tells # <<>> /\ r \in Requests /\ Tells' = <<>>
      /\ News' = News \/ News' = Append(News, m)
      /\ News' = News /\ r.key = "state" => StateStored = r.value
      /\ StateStored' = IF r.key = "state" THEN r.value ELSE StateStored
      /\ SlaveState' = SlaveState /\ OwnState' = OwnState
  BY ChangeServedEffect DEF ProcessesStay
<1>2. m \in Messages /\ m.key = r.key /\ m = SetMessage(r.key, r.value)
  BY <1>1 DEF Requests, BatchRequests, Messages, BatchMessages, SetMessage
<1>3. News \in Seq(Messages)
  BY ProtocolFacts, QueueTypes
<1>4. OwnState' = StateStored'
  BY <1>1, WaitFacts DEF StateIsTold
<1> HIDE DEF m, r
<1>5. Converging(News', "state", SlaveState', StateStored')
  <2>1. CASE News' = News
    <3>1. StateStored' = StateStored
      BY <1>1, <2>1
    <3> QED BY <1>1, <2>1, <3>1, WaitFacts, ConvergingIsKept
  <2>2. CASE News' = Append(News, m) /\ r.key = "state"
    <3>1. Converging(Append(News, SetMessage("state", r.value)), "state", SlaveState, r.value)
      BY <1>2, <1>3, <2>2, SetIsConverging
    <3> QED BY <1>1, <1>2, <2>2, <3>1
  <2>3. CASE News' = Append(News, m) /\ r.key # "state"
    BY <1>1, <1>2, <1>3, <2>3, WaitFacts, OtherIsConverging DEF StateIsTold
  <2> QED BY <1>1, <2>1, <2>2, <2>3
<1>6. StateIsTold'
  BY <1>1, <1>4, <1>5 DEF StateIsTold
<1> QED BY <1>1, <1>6 DEF WaitInv, ReadyWhenIdle, WaitsForReady

LEMMA NewsTakenKeepsWait ==
  ASSUME ProtocolInv, WaitInv, ServerCallBack
  PROVE  WaitInv'
<1> DEFINE m == Head(News)
<1>1. /\ SlaveStays /\ StateStored' = StateStored
      /\ News # <<>> /\ News' = Tail(News)
      /\ SlaveState' = IF m.op = "Set" /\ m.key = "state" THEN m.value ELSE SlaveState
      /\ Awaits(stack', "wait") => Awaits(stack, "wait") /\ SlaveState' = SlaveState
  BY ServerCallBackEffect
<1>2. Converging(News', "state", SlaveState', StateStored')
  <2>1. News \in Seq(Messages)
    BY ProtocolFacts, QueueTypes
  <2>2. Converging(Tail(News), "state", IF m.op = "Set" /\ m.key = "state" THEN m.value ELSE SlaveState, StateStored)
    BY <1>1, <2>1, WaitFacts, TailIsConverging DEF StateIsTold
  <2> QED BY <1>1, <2>2
<1>3. StateIsTold'
  <2>1. Tells' = Tells /\ OwnState' = OwnState
    BY <1>1 DEF SlaveStays
  <2> QED BY <1>1, <1>2, <2>1, WaitFacts DEF StateIsTold
<1>4. ReadyWhenIdle'
  BY <1>1, WaitFacts DEF ReadyWhenIdle, SlaveStays
<1>5. WaitsForReady'
  BY <1>1, WaitFacts DEF WaitsForReady
<1> QED BY <1>3, <1>4, <1>5 DEF WaitInv

LEMMA WaitNext == ProtocolInv /\ EchoInv /\ WaitInv /\ [Next]_vars => WaitInv'
<1> SUFFICES ASSUME ProtocolInv, EchoInv, WaitInv, [Next]_vars PROVE WaitInv'
  OBVIOUS
<1>1. CASE Elsewhere
  <2>1. /\ SlaveStays /\ stack' = stack
        /\ News' = News /\ SlaveState' = SlaveState /\ StateStored' = StateStored
    BY <1>1, ElsewhereEffect DEF ProcessesStay, TequilaStays, SlaveStays
  <2> QED BY <2>1, ServerKeepsWait
<1>2. CASE TqsRequest("server") /\ UNCHANGED <<serverVars, slaveVars, finishes>>
  BY <1>2, BatchServedKeepsWait
<1>3. CASE TqsRequest("slave") /\ UNCHANGED <<serverVars, slaveVars, finishes>>
  BY <1>3, ChangeServedKeepsWait
<1>4. ASSUME NEW c \in Chans, OnToleval(c) PROVE WaitInv'
  <2>1. /\ SlaveStays /\ stack' = stack
        /\ News' = News /\ SlaveState' = SlaveState /\ StateStored' = StateStored
    BY <1>4, OnTolevalEffect DEF TequilaStays, SlaveStays
  <2> QED BY <2>1, ServerKeepsWait
<1>5. CASE DispatchToSlave
  <2>1. /\ SlaveStays /\ ServerListens
        /\ Awaits(stack', "wait") => Awaits(stack, "wait") \/ SlaveState # "ready"
    BY <1>5, DispatchEffect
  <2> QED BY <2>1, ServerKeepsWait DEF ServerListens
<1>6. CASE Resume
  BY <1>6, ResumeEffect, ServerKeepsWait DEF ServerListens
<1>7. CASE ServerCallBack
  BY <1>7, NewsTakenKeepsWait
<1>8. CASE SendFinish
  <2>1. /\ SlaveStays /\ stack' = stack
        /\ News' = News /\ SlaveState' = SlaveState /\ StateStored' = StateStored
    BY <1>8, SendFinishEffect DEF TequilaStays, SlaveStays
  <2> QED BY <2>1, ServerKeepsWait
<1>9. CASE SlaveStarts
  <2>1. /\ ServerStays /\ Tells = <<>> /\ Tells' # <<>>
        /\ Tells'[1].key = "state" /\ OwnState' = Tells'[1].value /\ OwnState' = "ready"
    BY <1>9, SlaveStartsEffect DEF Change
  <2> QED BY <2>1, SlaveKeepsWait DEF ReadyWhenIdle
<1>10. CASE BatchArrives
  <2>1. /\ ServerStays /\ Tells = <<>> /\ Tells' # <<>> /\ slavePc = "idle"
        /\ \/ Tells'[1].key = "state" /\ OwnState' = Tells'[1].value /\ slavePc' = "busy"
           \/ Tells'[1].key # "state" /\ OwnState' = OwnState
    BY <1>10, BatchArrivesEffect DEF Change
  <2> QED BY <2>1, WaitFacts, SlaveKeepsWait DEF ReadyWhenIdle
<1>11. CASE BatchArrivesUnseen
  <2>1. ServerStays /\ Tells' = Tells /\ OwnState' = OwnState /\ slavePc' = slavePc
    BY <1>11, BatchArrivesUnseenEffect
  <2> QED BY <2>1, WaitFacts, SlaveKeepsWait DEF ReadyWhenIdle
<1>12. CASE Announced \/ GoesOn \/ CallBackReturns
  <2>1. /\ ServerStays /\ Tells' = Tells /\ OwnState' = OwnState
        /\ slavePc' = "process" \/ (slavePc' = "idle" /\ slavePc \in {"announce", "ready"})
    BY <1>12, ReturnsEffect DEF Continues
  <2> QED BY <2>1, WaitFacts, SlaveKeepsWait DEF ReadyWhenIdle
<1>13. CASE Echoed
  <2>1. Batch \in Seq(Nat)
    BY <1>13 DEF EchoInv, Echoed, Replied
  <2>2. /\ ServerStays /\ Tells = <<>> /\ Tells' # <<>> /\ slavePc' = "busy"
        /\ Tells'[1].key = "state" /\ OwnState' = Tells'[1].value
    BY <1>13, <2>1, EchoedEffect DEF Change
  <2> QED BY <2>2, SlaveKeepsWait DEF ReadyWhenIdle
<1>14. CASE EvaluateTask
  <2>1. /\ ServerStays /\ Tells = <<>> /\ Tells' # <<>> /\ slavePc' = "finish"
        /\ Tells'[1].key # "state" /\ OwnState' = OwnState
    BY <1>14, EvaluateTaskEffect DEF Change
  <2> QED BY <2>1, SlaveKeepsWait DEF ReadyWhenIdle
<1>15. CASE BatchDone
  <2>1. /\ ServerStays /\ Tells = <<>> /\ Tells' # <<>>
        /\ Tells'[1].key = "state" /\ OwnState' = Tells'[1].value /\ OwnState' = "ready"
    BY <1>15, BatchDoneEffect DEF Change
  <2> QED BY <2>1, SlaveKeepsWait DEF ReadyWhenIdle
<1> QED BY <1>1, <1>2, <1>3, <1>4, <1>5, <1>6, <1>7, <1>8, <1>9, <1>10, <1>11, <1>12, <1>13,
           <1>14, <1>15, StepCases

\* What the handlers wait for has not passed
LEMMA NoHandlerWaits == ProtocolInv /\ WaitInv => (Quiet => stack = <<>>)
<1> SUFFICES ASSUME ProtocolInv, WaitInv, Quiet, stack # <<>> PROVE FALSE
  OBVIOUS
<1>1. /\ Asks = <<>> /\ Tells = <<>> /\ News = <<>>
      /\ slavePc = "idle" /\ ~Head(stack).woken
  BY TheProcesses DEF Quiet, InEventLoop, Asks, Tells, News
<1>2. stack \in Seq(Frames)
  BY ProtocolFacts DEF ServerType
<1>3. Awaits(stack, "wait") \/ Awaits(stack, "send")
  <2>1. Head(stack) = stack[1] /\ 1 \in DOMAIN stack /\ Head(stack) \in Frames
    <3>1. Head(stack) = stack[1] /\ Head(stack) \in Frames /\ Len(stack) \in Nat /\ Len(stack) >= 1 /\ DOMAIN stack = 1 .. Len(stack)
      BY <1>2, TailOf
    <3> QED BY <3>1
  <2> QED BY <1>1, <2>1 DEF Awaits, Frames
<1>4. DOMAIN <<>> = {}
  OBVIOUS
<1>5. ~HasReply(News) /\ Sets(News, "state") = {}
  BY <1>1, <1>4 DEF HasReply, Sets
<1>6. SlaveState = "ready"
  BY <1>1, <1>5, WaitFacts DEF StateIsTold, ReadyWhenIdle, Converging
<1> QED BY <1>1, <1>3, <1>5, <1>6, ProtocolFacts, WaitFacts DEF SendInv, WaitsForReady

LEMMA WaitInvariant == Spec => [](ProtocolInv /\ EchoInv /\ WaitInv)
<1>1. Init => ProtocolInv /\ EchoInv /\ WaitInv
  BY ProtocolInit, WaitInit
<1>2. ProtocolInv /\ EchoInv /\ WaitInv /\ [Next]_vars => (ProtocolInv /\ EchoInv /\ WaitInv)'
  BY ProtocolNext, WaitNext
<1> QED BY <1>1, <1>2, PTL DEF Spec

(* When nothing is left to happen no handler of the server is left waiting for a    *)
(* write of the state or a reply that has passed, whenever the clients ask        *)
(* (tolserver.tcl:565-615).                                                     *)
THEOREM NoHandlerIsLeft == Spec => [](Quiet => stack = <<>>)
BY NoHandlerWaits, WaitInvariant, PTL

LEMMA OneMoreDispatches ==
  ASSUME NEW t, NEW f, NEW s, OneMore(t, f, s)
  PROVE  Dispatches(t) <=> f.do = "dispatch" \/ Dispatches(s)
BY DEF OneMore, Dispatches

LEMMA DispatchesAppend ==
  ASSUME NEW s \in Seq(CallBacks), NEW c \in CallBacks
  PROVE  Dispatches(Append(s, c)) <=> Dispatches(s) \/ c.do = "dispatch"
<1> DEFINE t == Append(s, c)
<1>1. /\ Len(s) \in Nat /\ DOMAIN s = 1 .. Len(s)
      /\ DOMAIN t = 1 .. Len(s) + 1
      /\ \A i \in 1 .. Len(s) : t[i] = s[i]
      /\ t[Len(s) + 1] = c
  BY AppendOf
<1> HIDE DEF t
<1>2. /\ \A i \in DOMAIN s : i \in DOMAIN t /\ t[i] = s[i]
      /\ \A i \in DOMAIN t : i \in DOMAIN s \/ i = Len(s) + 1
      /\ Len(s) + 1 \in DOMAIN t
  BY <1>1
<1>3. OneMore(t, c, s)
  BY <1>1, <1>2 DEF OneMore
<1> QED BY <1>3, OneMoreDispatches DEF t

LEMMA DispatchesTail ==
  ASSUME NEW s \in Seq(CallBacks), s # <<>>
  PROVE  Dispatches(s) <=> Head(s).do = "dispatch" \/ Dispatches(Tail(s))
<1>1. /\ Head(s) = s[1] /\ Len(s) \in Nat /\ Len(s) >= 1
      /\ DOMAIN s = 1 .. Len(s)
      /\ DOMAIN Tail(s) = 1 .. Len(s) - 1
      /\ \A i \in 1 .. Len(s) - 1 : Tail(s)[i] = s[i + 1]
  BY TailOf
<1>2. /\ 1 \in DOMAIN s
      /\ \A i \in DOMAIN Tail(s) : i + 1 \in DOMAIN s /\ Tail(s)[i] = s[i + 1]
      /\ \A i \in DOMAIN s : i = 1 \/ (i - 1 \in DOMAIN Tail(s) /\ Tail(s)[i - 1] = s[i])
  BY <1>1
<1>3. Head(s) = s[1]
  BY <1>1
<1> DEFINE h == Head(s)
           r == Tail(s)
<1>4. /\ s[1] = h /\ 1 \in DOMAIN s
      /\ \A i \in DOMAIN r : i + 1 \in DOMAIN s /\ r[i] = s[i + 1]
      /\ \A i \in DOMAIN s : i = 1 \/ (i - 1 \in DOMAIN r /\ r[i - 1] = s[i])
  BY <1>2, <1>3
<1> HIDE DEF h, r
<1>5. OneMore(s, h, r)
  BY <1>4 DEF OneMore
<1>6. Dispatches(s) <=> h.do = "dispatch" \/ Dispatches(r)
  BY <1>5, OneMoreDispatches
<1> QED BY <1>6, Zenon DEF h, r

LEMMA DispatchNext ==
  ASSUME EarlyClients = FALSE, ProtocolInv, EchoInv, DispatchInv, [Next]_vars
  PROVE  DispatchInv'
<1>0. idle \in Seq(CallBacks) /\ News \in Seq(Messages)
  BY ProtocolFacts, QueueTypes DEF ServerType
<1>1. ASSUME UNCHANGED <<queueTasks, idle, stack>>, SlaveState' = SlaveState PROVE DispatchInv'
  BY <1>1 DEF DispatchInv
<1>2. CASE Elsewhere
  BY <1>1, <1>2, ElsewhereEffect DEF ProcessesStay, TequilaStays
<1>3. CASE \E p \in {"server", "slave"} : TqsRequest(p) /\ UNCHANGED <<serverVars, slaveVars, finishes>>
  <2>1. ProcessesStay /\ SlaveState' = SlaveState
    BY <1>3, BatchServedEffect, ChangeServedEffect
  <2> QED BY <1>1, <2>1 DEF ProcessesStay
<1>4. ASSUME NEW c \in Chans, OnToleval(c) PROVE DispatchInv'
  <2>1. /\ idle' = Append(idle, [do |-> "dispatch"]) /\ SlaveState # Absent
        /\ SlaveState' = SlaveState
    BY <1>4, OnTolevalEffect DEF TequilaStays
  <2>2. [do |-> "dispatch"] \in CallBacks
    BY DEF CallBacks
  <2>3. Dispatches(idle')
    BY <1>0, <2>1, <2>2, DispatchesAppend
  <2> QED BY <2>1, <2>3 DEF DispatchInv
<1>5. CASE DispatchToSlave
  <2>1. /\ Dispatches(idle) /\ (Dispatches(idle') => Dispatches(idle))
    BY <1>0, <1>5, DispatchEffect, DispatchesTail
  <2>2. SlaveState # Absent /\ SlaveState' = SlaveState
    BY <1>5, <2>1, DispatchEffect DEF DispatchInv, ServerListens
  <2>3. queueTasks' = <<>> \/ Has(stack', "wait")
    BY <1>5, <2>2, DispatchEffect DEF QueueTaken
  <2> QED BY <2>2, <2>3 DEF DispatchInv
<1>6. CASE Resume
  <2>1. UNCHANGED idle /\ SlaveState' = SlaveState
    BY <1>6, ResumeEffect DEF ServerListens
  <2>2. queueTasks' = <<>> \/ (UNCHANGED queueTasks /\ (Has(stack', "wait") <=> Has(stack, "wait")))
    BY <1>6, ResumeEffect DEF QueueTaken, QueueKept
  <2> QED BY <2>1, <2>2 DEF DispatchInv
<1>7. CASE ServerCallBack
  <2> DEFINE m == Head(News)
             c == [do |-> "finish", task |-> m.value]
  <2>1. /\ UNCHANGED queueTasks
        /\ m \in Messages
        /\ SlaveState' = IF m.op = "Set" /\ m.key = "state" THEN m.value ELSE SlaveState
        /\ Has(stack', "wait") <=> Has(stack, "wait")
        /\ idle' = IF m.op = "Set" /\ m.key = "finish" /\ FinishSeen # m.value THEN Append(idle, c) ELSE idle
    BY <1>7, ServerCallBackEffect
  <2> HIDE DEF m
  <2>2. m.op = "Set" /\ m.key = "state" => m.value \in States
    BY <2>1 DEF Messages, BatchMessages, ReplyMessage
  <2>3. m.op = "Set" /\ m.key = "finish" => c \in CallBacks /\ c.do # "dispatch"
    BY <2>1 DEF Messages, BatchMessages, ReplyMessage, CallBacks
  <2> HIDE DEF c
  <2>4. Dispatches(idle') <=> Dispatches(idle)
    BY <1>0, <2>1, <2>3, DispatchesAppend
  <2>5. SlaveState # Absent => SlaveState' # Absent
    BY <2>1, <2>2, TheProcesses
  <2> QED BY <2>1, <2>4, <2>5 DEF DispatchInv
<1>8. CASE SendFinish
  <2>1. /\ UNCHANGED <<queueTasks, stack>> /\ SlaveState' = SlaveState
        /\ idle # <<>> /\ Head(idle).do = "finish" /\ idle' = Tail(idle)
    BY <1>8, SendFinishEffect DEF TequilaStays
  <2>2. Dispatches(idle') <=> Dispatches(idle)
    BY <1>0, <2>1, DispatchesTail
  <2> QED BY <2>1, <2>2 DEF DispatchInv
<1>9. CASE \/ SlaveStarts \/ BatchArrives \/ BatchArrivesUnseen
           \/ Announced \/ Echoed \/ GoesOn \/ EvaluateTask \/ BatchDone \/ CallBackReturns
  <2>1. Echoed => Batch \in Seq(Nat)
    BY DEF EchoInv, Echoed, Replied
  <2>2. ServerStays
    BY <1>9, <2>1, SlaveStartsEffect, BatchArrivesEffect, BatchArrivesUnseenEffect, ReturnsEffect,
       EchoedEffect, EvaluateTaskEffect, BatchDoneEffect
  <2> QED BY <1>1, <2>2 DEF ServerStays
<1> QED BY <1>2, <1>3, <1>4, <1>5, <1>6, <1>7, <1>8, <1>9, StepCases

(* With clients that ask once the slave is ready, nothing is left in the queue       *)
(* either when nothing is left to happen: no dispatch is lost to the handlers     *)
(* that wait on top of each other (tolserver.tcl:579-599).                       *)
THEOREM NothingIsLeft ==
  ASSUME EarlyClients = FALSE
  PROVE  Spec => []NothingLeftWaiting
<1>1. Init => ProtocolInv /\ EchoInv /\ DispatchInv
  BY ProtocolInit, WaitInit
<1>2. ProtocolInv /\ EchoInv /\ DispatchInv /\ [Next]_vars => (ProtocolInv /\ EchoInv /\ DispatchInv)'
  BY ProtocolNext, DispatchNext
<1>3. DispatchInv => (Quiet /\ stack = <<>> => queueTasks = <<>>)
  <2>1. DOMAIN <<>> = {}
    OBVIOUS
  <2> QED BY <2>1 DEF DispatchInv, Quiet, Dispatches, Has
<1>4. (Quiet => stack = <<>>) /\ DispatchInv => NothingLeftWaiting
  BY <1>3 DEF NothingLeftWaiting
<1> QED BY <1>1, <1>2, <1>4, NoHandlerIsLeft, PTL DEF Spec

=============================================================================
