----------------------- MODULE TequilaProcesses_proofs -----------------------
(***************************************************************************)
(* Proofs about Tequila among any number of processes, for any elements,    *)
(* values and sets of writers.                                              *)
(***************************************************************************)
EXTENDS TequilaProcesses, Tequila_proofs

Elements == Values \cup {Absent}
Requests == [key : Keys, value : Values]

TypeInv ==
  /\ store \in [Keys -> Elements]
  /\ copy \in [Procs -> [Keys -> Elements]]
  /\ Queues(Requests, Messages)

CallsType ==
  /\ calls \in [Procs -> Seq(Keys)]
  /\ reply \in [Procs -> BOOLEAN]

(* A queue of requests takes a store with value v to value c. *)
Asking(s, k, v, c) ==
  \/ (\A i \in DOMAIN s : s[i].key # k) /\ c = v
  \/ \E i \in DOMAIN s :
       /\ s[i].key = k /\ s[i].value = c
       /\ \A j \in DOMAIN s : s[j].key = k => j <= i

(* What an element k only p writes needs: its writer is never told of it, and its *)
(* copy is ahead of the data server by the requests not served yet.             *)
WriterInv(k, p) ==
  /\ \A q \in Procs \ {p} : Converging(fromTequila[q], k, copy[q][k], store[k])
  /\ Sets(fromTequila[p], k) = {}
  /\ <<p, k>> \notin unsent => Asking(toTequila[p], k, store[k], copy[p][k])

(* Processes send what they may write. *)
Permitted(p) == \A i \in DOMAIN toTequila[p] : p \in Writers[toTequila[p][i].key]

(* The inductive invariant. *)
TequilaInv ==
  /\ TypeInv
  /\ \A p \in Procs : Permitted(p)
  /\ \A k \in Keys, p \in Procs : Writers[k] = {p} => WriterInv(k, p)

WaitInv ==
  /\ TypeInv
  /\ CallsType
  /\ NoWaitInVain

-----------------------------------------------------------------------------
(* A queue of requests.                                                    *)

LEMMA AskedLast ==
  ASSUME NEW M, NEW s \in Seq(M), NEW m \in M, NEW v
  PROVE  Asking(Append(s, m), m.key, v, m.value)
<1>1. /\ Len(s) \in Nat /\ Len(s) + 1 \in DOMAIN Append(s, m)
      /\ DOMAIN Append(s, m) = 1 .. Len(s) + 1
      /\ Append(s, m)[Len(s) + 1] = m
  BY AppendOf
<1>2. \A j \in DOMAIN Append(s, m) : j <= Len(s) + 1
  BY <1>1
<1> QED BY <1>1, <1>2 DEF Asking

LEMMA AskedOther ==
  ASSUME NEW M, NEW s \in Seq(M), NEW m \in M, NEW k, m.key # k, NEW v, NEW c,
         Asking(s, k, v, c)
  PROVE  Asking(Append(s, m), k, v, c)
<1> DEFINE t == Append(s, m)
<1>1. /\ Len(s) \in Nat /\ DOMAIN s = 1 .. Len(s) /\ DOMAIN t = 1 .. Len(s) + 1
      /\ \A i \in 1 .. Len(s) : t[i] = s[i]
      /\ t[Len(s) + 1] = m
  BY AppendOf
<1>2. \A i \in DOMAIN s : i \in DOMAIN t /\ t[i] = s[i]
  BY <1>1
<1>3. \A i \in DOMAIN t : t[i].key = k => i \in DOMAIN s
  <2> SUFFICES ASSUME NEW i \in DOMAIN t, i \notin DOMAIN s PROVE t[i].key # k
    OBVIOUS
  <2>1. i = Len(s) + 1
    BY <1>1
  <2> QED BY <1>1, <2>1
<1> HIDE DEF t
<1>4. Asking(t, k, v, c)
  BY <1>2, <1>3, Zenon DEF Asking
<1> QED BY <1>4 DEF t

(* The data server stores the first request's value. *)
LEMMA AskedTail ==
  ASSUME NEW M, NEW s \in Seq(M), s # <<>>, NEW k, NEW v, NEW c, Asking(s, k, v, c)
  PROVE  Asking(Tail(s), k, IF Head(s).key = k THEN Head(s).value ELSE v, c)
<1> DEFINE t == Tail(s)
           u == IF Head(s).key = k THEN Head(s).value ELSE v
<1>1. /\ Head(s) = s[1] /\ Len(s) \in Nat /\ Len(s) >= 1 /\ DOMAIN s = 1 .. Len(s)
      /\ DOMAIN t = 1 .. Len(s) - 1
      /\ \A i \in 1 .. Len(s) - 1 : t[i] = s[i + 1]
  BY TailOf
<1>2. \A i \in DOMAIN t : i + 1 \in DOMAIN s /\ t[i] = s[i + 1] /\ i \in Nat /\ i # 0
  BY <1>1
<1>3. \A i \in DOMAIN s : i # 1 => i - 1 \in DOMAIN t /\ t[i - 1] = s[i] /\ i \in Nat
  BY <1>1
<1>4. CASE (\A i \in DOMAIN s : s[i].key # k) /\ c = v
  <2>1. 1 \in DOMAIN s
    BY <1>1
  <2>2. u = c
    BY <1>1, <1>4, <2>1
  <2>3. \A i \in DOMAIN t : t[i].key # k
    BY <1>2, <1>4
  <2> QED BY <2>2, <2>3 DEF Asking
<1>5. ASSUME NEW i \in DOMAIN s, s[i].key = k, s[i].value = c,
             \A j \in DOMAIN s : s[j].key = k => j <= i
      PROVE  Asking(t, k, u, c)
  <2>1. CASE i = 1
    <3>1. u = c
      BY <1>1, <1>5, <2>1
    <3>2. ASSUME NEW j \in DOMAIN t PROVE t[j].key # k
      <4>1. j + 1 \in DOMAIN s /\ t[j] = s[j + 1] /\ j \in Nat /\ j # 0
        BY <1>2
      <4>2. ~(j + 1 <= 1)
        BY <4>1
      <4> QED BY <1>5, <2>1, <4>1, <4>2
    <3> QED BY <3>1, <3>2 DEF Asking
  <2>2. CASE i # 1
    <3>1. i - 1 \in DOMAIN t /\ t[i - 1] = s[i] /\ i \in Nat
      BY <1>3, <2>2
    <3>2. ASSUME NEW j \in DOMAIN t, t[j].key = k PROVE j <= i - 1
      <4>1. j + 1 \in DOMAIN s /\ s[j + 1].key = k /\ j \in Nat
        BY <1>2, <3>2
      <4>2. j + 1 <= i
        BY <1>5, <4>1
      <4> QED BY <3>1, <4>1, <4>2
    <3> QED BY <1>5, <3>1, <3>2 DEF Asking
  <2> QED BY <2>1, <2>2
<1> QED BY <1>4, <1>5 DEF Asking

-----------------------------------------------------------------------------
(* The initial state.                                                      *)

LEMMA InitInv == ProcessesInit => TequilaInv /\ WaitInv
<1> SUFFICES ASSUME ProcessesInit PROVE TequilaInv /\ WaitInv
  OBVIOUS
<1>1. /\ store = [k \in Keys |-> Absent]
      /\ copy = [p \in Procs |-> store]
      /\ toTequila = [p \in Procs |-> <<>>] /\ fromTequila = [p \in Procs |-> <<>>]
      /\ calls = [p \in Procs |-> <<>>] /\ reply = [p \in Procs |-> FALSE]
  BY DEF ProcessesInit, TequilaInit
<1>2. TypeInv /\ CallsType
  <2>1. store \in [Keys -> Elements]
    BY <1>1 DEF Elements
  <2>2. <<>> \in Seq(Requests) /\ <<>> \in Seq(Messages) /\ <<>> \in Seq(Keys)
    BY EmptySeq
  <2>3. Queues(Requests, Messages)
    BY <1>1, <2>2 DEF Queues
  <2> QED BY <1>1, <2>1, <2>2, <2>3 DEF TypeInv, CallsType
<1>3. DOMAIN <<>> = {} /\ \A k : Sets(<<>>, k) = {}
  BY DEF Sets
<1>4. ASSUME NEW k \in Keys, NEW p \in Procs PROVE WriterInv(k, p)
  BY <1>1, <1>3 DEF WriterInv, Converging, Asking
<1>5. ASSUME NEW p \in Procs PROVE Permitted(p) /\ ~Waiting(p)
  BY <1>1, <1>3 DEF Permitted, Waiting
<1> QED BY <1>2, <1>4, <1>5 DEF TequilaInv, WaitInv, NoWaitInVain

-----------------------------------------------------------------------------
(* A process writes an element.                                            *)

LEMMA WritesStep ==
  ASSUME TequilaInv, NEW p \in Procs, NEW k \in Keys, NEW v \in Values, ProcessWrites(p, k, v)
  PROVE  TequilaInv'
<1> DEFINE r == [key |-> k, value |-> v]
<1>1. /\ p \in Writers[k]
      /\ copy' = [copy EXCEPT ![p][k] = v]
      /\ toTequila' = [toTequila EXCEPT ![p] = Append(@, r)]
      /\ store' = store /\ fromTequila' = fromTequila
      /\ unsent' = unsent \ {<<p, k>>}
  BY DEF ProcessWrites, Write, WriteSilently, Do
<1>2. r \in Requests /\ r.key = k /\ r.value = v
  BY DEF Requests
<1> HIDE DEF r
<1>3. TypeInv
  BY DEF TequilaInv
<1>4. toTequila \in [Procs -> Seq(Requests)] /\ copy \in [Procs -> [Keys -> Elements]]
  BY <1>3 DEF TypeInv, Queues
<1>5. /\ toTequila[p] \in Seq(Requests)
      /\ Append(toTequila[p], r) \in Seq(Requests)
      /\ toTequila'[p] = Append(toTequila[p], r)
      /\ \A q \in Procs \ {p} : toTequila'[q] = toTequila[q]
  BY <1>1, <1>2, <1>4, AppendOf
<1>6. TypeInv'
  <2>1. v \in Elements
    BY DEF Elements
  <2>2. copy' \in [Procs -> [Keys -> Elements]]
    BY <1>1, <1>4, <2>1
  <2>3. toTequila' \in [Procs -> Seq(Requests)]
    BY <1>1, <1>4, <1>5
  <2> QED BY <1>1, <1>3, <2>2, <2>3 DEF TypeInv, Queues
<1>7. ASSUME NEW q \in Procs PROVE Permitted(q)'
  <2>0. Permitted(q)
    BY DEF TequilaInv
  <2>1. CASE q # p
    BY <1>5, <2>0, <2>1 DEF Permitted
  <2>2. CASE q = p
    <3>1. /\ Len(toTequila[p]) \in Nat /\ DOMAIN toTequila[p] = 1 .. Len(toTequila[p])
          /\ DOMAIN Append(toTequila[p], r) = 1 .. Len(toTequila[p]) + 1
          /\ \A i \in 1 .. Len(toTequila[p]) : Append(toTequila[p], r)[i] = toTequila[p][i]
          /\ Append(toTequila[p], r)[Len(toTequila[p]) + 1] = r
      BY <1>2, <1>5, AppendOf
    <3>2. ASSUME NEW i \in DOMAIN Append(toTequila[p], r)
          PROVE  p \in Writers[Append(toTequila[p], r)[i].key]
      <4>1. CASE i \in DOMAIN toTequila[p]
        BY <2>0, <2>2, <3>1, <4>1 DEF Permitted
      <4>2. CASE i \notin DOMAIN toTequila[p]
        <5>1. i = Len(toTequila[p]) + 1
          BY <3>1, <4>2
        <5> QED BY <1>1, <1>2, <3>1, <5>1
      <4> QED BY <4>1, <4>2
    <3> QED BY <1>5, <2>2, <3>2 DEF Permitted
  <2> QED BY <2>1, <2>2
<1>8. ASSUME NEW e \in Keys, NEW w \in Procs, Writers[e] = {w} PROVE WriterInv(e, w)'
  <2>1. WriterInv(e, w)
    BY <1>8 DEF TequilaInv
  <2>2. ASSUME NEW q \in Procs, NEW d \in Keys
        PROVE  copy'[q][d] = IF q = p /\ d = k THEN v ELSE copy[q][d]
    BY <1>1, <1>4
  <2>3. \A q \in Procs \ {w} : copy'[q][e] = copy[q][e]
    BY <1>1, <1>8, <2>2
  <2>4. ASSUME <<w, e>> \notin unsent' PROVE Asking(toTequila'[w], e, store[e], copy'[w][e])
    <3>1. CASE w = p /\ e = k
      <4>1. copy'[w][e] = r.value
        BY <1>2, <2>2, <3>1
      <4>2. Asking(Append(toTequila[p], r), r.key, store[e], r.value)
        BY <1>2, <1>5, AskedLast
      <4> QED BY <1>2, <1>5, <3>1, <4>1, <4>2
    <3>2. CASE ~(w = p /\ e = k)
      <4>1. <<w, e>> \notin unsent
        BY <1>1, <2>4, <3>2
      <4>2. Asking(toTequila[w], e, store[e], copy[w][e]) /\ copy'[w][e] = copy[w][e]
        BY <2>1, <2>2, <3>2, <4>1 DEF WriterInv
      <4>3. CASE w = p
        <5>1. r.key # e
          BY <1>2, <3>2, <4>3
        <5>2. Asking(Append(toTequila[p], r), e, store[e], copy[w][e])
          BY <1>2, <1>5, <4>2, <4>3, <5>1, AskedOther
        <5> QED BY <1>5, <4>2, <4>3, <5>2
      <4>4. CASE w # p
        BY <1>5, <4>2, <4>4
      <4> QED BY <4>3, <4>4
    <3> QED BY <3>1, <3>2
  <2> QED BY <1>1, <2>1, <2>3, <2>4 DEF WriterInv
<1> QED BY <1>6, <1>7, <1>8 DEF TequilaInv

(* A write that is not sent. *)
LEMMA WritesUnderTraceStep ==
  ASSUME TequilaInv, NEW p \in Procs, NEW k \in Keys, NEW v \in Values, WritesUnderTrace(p, k, v)
  PROVE  TequilaInv'
<1>1. /\ p \in Writers[k]
      /\ copy' = [copy EXCEPT ![p][k] = v]
      /\ toTequila' = toTequila /\ store' = store /\ fromTequila' = fromTequila
      /\ unsent' = unsent \cup {<<p, k>>}
  BY DEF WritesUnderTrace, WriteSilently
<1>2. TypeInv /\ copy \in [Procs -> [Keys -> Elements]] /\ v \in Elements
  BY DEF TequilaInv, TypeInv, Elements
<1>3. TypeInv'
  <2>1. copy' \in [Procs -> [Keys -> Elements]]
    BY <1>1, <1>2
  <2> QED BY <1>1, <1>2, <2>1 DEF TypeInv, Queues
<1>4. ASSUME NEW e \in Keys, NEW w \in Procs, Writers[e] = {w} PROVE WriterInv(e, w)'
  <2>1. WriterInv(e, w)
    BY <1>4 DEF TequilaInv
  <2>2. ASSUME NEW q \in Procs, NEW d \in Keys, ~(q = p /\ d = k)
        PROVE  copy'[q][d] = copy[q][d]
    BY <1>1, <1>2, <2>2
  <2>3. \A q \in Procs \ {w} : copy'[q][e] = copy[q][e]
    BY <1>1, <1>4, <2>2
  <2>4. <<w, e>> \notin unsent' => <<w, e>> \notin unsent /\ copy'[w][e] = copy[w][e]
    BY <1>1, <2>2
  <2> QED BY <1>1, <2>1, <2>3, <2>4 DEF WriterInv
<1>5. \A q \in Procs : Permitted(q)'
  BY <1>1 DEF TequilaInv, Permitted
<1> QED BY <1>3, <1>4, <1>5 DEF TequilaInv

-----------------------------------------------------------------------------
(* The data server serves a request.                                        *)

LEMMA ServesStep ==
  ASSUME TequilaInv, NEW p \in Procs, TqsRequest(p), unsent' = unsent
  PROVE  TequilaInv'
<1> DEFINE r == Head(toTequila[p])
<1>0. Queues(Requests, Messages) /\ TypeInv
  BY DEF TequilaInv, TypeInv
<1>1. /\ r \in Requests /\ toTequila[p] # <<>>
      /\ toTequila' = [toTequila EXCEPT ![p] = Tail(@)]
      /\ store' = [store EXCEPT ![r.key] = r.value]
      /\ fromTequila' = [q \in Procs |->
           IF q = p THEN Append(fromTequila[q], ReplyMessage)
           ELSE IF store[r.key] # r.value THEN Append(fromTequila[q], SetMessage(r.key, r.value))
           ELSE fromTequila[q]]
      /\ copy' = copy
  BY <1>0, Served
<1>2. r.key \in Keys /\ r.value \in Values /\ p \in Writers[r.key]
  <2>1. 1 \in DOMAIN toTequila[p] /\ Head(toTequila[p]) = toTequila[p][1]
    BY <1>0, <1>1, TailOf DEF Queues
  <2>2. Permitted(p)
    BY DEF TequilaInv
  <2> QED BY <1>1, <2>1, <2>2 DEF Permitted, Requests
<1>3. ReplyMessage \in Messages /\ SetMessage(r.key, r.value) \in Messages
  BY <1>2 DEF Messages, SetMessage
<1>4. Queues(Requests, Messages)'
  BY <1>0, <1>3, ServedKeepsQueues
<1>5. TypeInv'
  BY <1>0, <1>1, <1>2, <1>4 DEF TypeInv, Elements
<1>6. /\ toTequila[p] \in Seq(Requests) /\ toTequila'[p] = Tail(toTequila[p])
      /\ \A q \in Procs \ {p} : toTequila'[q] = toTequila[q]
  BY <1>0, <1>1 DEF Queues
<1>7. ASSUME NEW q \in Procs PROVE Permitted(q)'
  <2>0. Permitted(q)
    BY DEF TequilaInv
  <2>1. CASE q # p
    BY <1>6, <2>0, <2>1 DEF Permitted
  <2>2. CASE q = p
    <3>1. \A i \in DOMAIN Tail(toTequila[p]) :
            i + 1 \in DOMAIN toTequila[p] /\ Tail(toTequila[p])[i] = toTequila[p][i + 1]
      BY <1>1, <1>6, TailOf
    <3>2. \A i \in DOMAIN toTequila[p] : p \in Writers[toTequila[p][i].key]
      BY <2>0, <2>2 DEF Permitted
    <3>3. \A i \in DOMAIN Tail(toTequila[p]) : p \in Writers[Tail(toTequila[p])[i].key]
      BY <3>1, <3>2, Zenon
    <3> QED BY <1>6, <2>2, <3>3 DEF Permitted
  <2> QED BY <2>1, <2>2
<1>8. ASSUME NEW e \in Keys, NEW w \in Procs, Writers[e] = {w} PROVE WriterInv(e, w)'
  <2>1. WriterInv(e, w) /\ store \in [Keys -> Elements] /\ fromTequila \in [Procs -> Seq(Messages)]
    BY <1>0, <1>8 DEF TequilaInv, TypeInv, Queues
  <2>2. r.key = e => w = p
    BY <1>2, <1>8
  <2>3. store'[e] = IF r.key = e THEN r.value ELSE store[e]
    BY <1>1, <2>1
  <2>4. ReplyMessage.op # "Set"
    BY DEF ReplyMessage
  <2>5. SetMessage(r.key, r.value).key = r.key
    BY DEF SetMessage
  <2>6. ASSUME NEW q \in Procs \ {w}
        PROVE  Converging(fromTequila'[q], e, copy'[q][e], store'[e])
    <3>1. Converging(fromTequila[q], e, copy[q][e], store[e])
      BY <2>1 DEF WriterInv
    <3>2. CASE q = p
      <4>1. fromTequila'[q] = Append(fromTequila[q], ReplyMessage) /\ store'[e] = store[e]
        BY <1>1, <2>2, <2>3, <3>2
      <4> QED BY <1>1, <1>3, <2>1, <2>4, <3>1, <4>1, OtherIsConverging
    <3>3. CASE q # p /\ store[r.key] = r.value
      <4>1. fromTequila'[q] = fromTequila[q] /\ store'[e] = store[e]
        BY <1>1, <2>3, <3>3
      <4> QED BY <1>1, <3>1, <4>1
    <3>4. CASE q # p /\ store[r.key] # r.value
      <4>1. fromTequila'[q] = Append(fromTequila[q], SetMessage(r.key, r.value))
        BY <1>1, <3>4
      <4>2. CASE r.key = e
        BY <1>1, <1>3, <2>1, <2>3, <4>1, <4>2, SetIsConverging
      <4>3. CASE r.key # e
        BY <1>1, <1>3, <2>1, <2>3, <2>5, <3>1, <4>1, <4>3, OtherIsConverging
      <4> QED BY <4>2, <4>3
    <3> QED BY <3>2, <3>3, <3>4
  <2>7. Sets(fromTequila'[w], e) = {}
    <3>1. Sets(fromTequila[w], e) = {}
      BY <2>1 DEF WriterInv
    <3>2. \/ fromTequila'[w] = Append(fromTequila[w], ReplyMessage)
          \/ fromTequila'[w] = fromTequila[w]
          \/ r.key # e /\ fromTequila'[w] = Append(fromTequila[w], SetMessage(r.key, r.value))
      BY <1>1, <2>2
    <3>3. /\ Sets(Append(fromTequila[w], ReplyMessage), e) = Sets(fromTequila[w], e)
          /\ r.key # e => Sets(Append(fromTequila[w], SetMessage(r.key, r.value)), e) = Sets(fromTequila[w], e)
      BY <1>3, <2>1, <2>4, <2>5, SetsOfAppend
    <3> QED BY <3>1, <3>2, <3>3
  <2>8. ASSUME <<w, e>> \notin unsent PROVE Asking(toTequila'[w], e, store'[e], copy'[w][e])
    <3>0. Asking(toTequila[w], e, store[e], copy[w][e])
      BY <2>1, <2>8 DEF WriterInv
    <3>1. CASE w = p
      BY <1>1, <1>6, <2>3, <3>0, <3>1, AskedTail
    <3>2. CASE w # p
      <4>1. toTequila'[w] = toTequila[w] /\ store'[e] = store[e]
        BY <1>6, <2>2, <2>3, <3>2
      <4> QED BY <1>1, <3>0, <4>1
    <3> QED BY <3>1, <3>2
  <2> QED BY <2>6, <2>7, <2>8 DEF WriterInv
<1> QED BY <1>5, <1>7, <1>8 DEF TequilaInv

-----------------------------------------------------------------------------
(* A process takes a message.                                              *)

LEMMA CallBackStep ==
  ASSUME TequilaInv, NEW p \in Procs, CallBack(p), unsent' = unsent
  PROVE  TequilaInv'
<1> DEFINE m == NextMessage(p)
<1>0. Queues(Requests, Messages) /\ TypeInv
  BY DEF TequilaInv, TypeInv
<1>1. /\ Receive(p) /\ store' = store /\ toTequila' = toTequila
      /\ copy' = IF IsNews(p, m) THEN [copy EXCEPT ![p][m.key] = m.value] ELSE copy
  BY DEF CallBack
<1>2. /\ fromTequila[p] # <<>> /\ m \in Messages
      /\ fromTequila' \in [Procs -> Seq(Messages)]
      /\ fromTequila'[p] = Tail(fromTequila[p])
      /\ \A q \in Procs \ {p} : fromTequila'[q] = fromTequila[q]
  <2>1. fromTequila[p] # <<>> /\ fromTequila' = [fromTequila EXCEPT ![p] = Tail(@)]
    BY <1>1 DEF Receive
  <2>2. fromTequila \in [Procs -> Seq(Messages)]
    BY <1>0 DEF Queues
  <2>3. Tail(fromTequila[p]) \in Seq(Messages) /\ m \in Messages
    BY <2>1, <2>2, TailOf DEF NextMessage
  <2> QED BY <2>1, <2>2, <2>3
<1>3. /\ copy \in [Procs -> [Keys -> Elements]] /\ fromTequila \in [Procs -> Seq(Messages)]
  BY <1>0 DEF TypeInv, Queues
<1>4. m.op = "Set" => m.key \in Keys /\ m.value \in Elements
  <2>1. m \in Messages
    BY <1>2
  <2> QED BY <2>1 DEF Messages, ReplyMessage, Elements
<1>5. ASSUME NEW q \in Procs, NEW k \in Keys
      PROVE  copy'[q][k] = IF q = p /\ m.op = "Set" /\ m.key = k THEN m.value ELSE copy[q][k]
  <2>1. CASE IsNews(p, m)
    <3>1. m.op = "Set" /\ m.key \in Keys
      BY <1>4, <2>1 DEF IsNews
    <3>2. copy' = [copy EXCEPT ![p][m.key] = m.value]
      BY <1>1, <2>1
    <3> QED BY <1>3, <3>1, <3>2
  <2>2. CASE ~IsNews(p, m)
    <3>1. copy' = copy /\ (m.op = "Set" => copy[p][m.key] = m.value)
      BY <1>1, <2>2 DEF IsNews
    <3> QED BY <3>1
  <2> QED BY <2>1, <2>2
<1>6. TypeInv'
  <2>1. copy' \in [Procs -> [Keys -> Elements]]
    <3>1. CASE IsNews(p, m)
      BY <1>1, <1>3, <1>4, <3>1 DEF IsNews
    <3>2. CASE ~IsNews(p, m)
      BY <1>1, <1>3, <3>2
    <3> QED BY <3>1, <3>2
  <2> QED BY <1>0, <1>1, <1>2, <2>1 DEF TypeInv, Queues
<1>7. ASSUME NEW e \in Keys, NEW w \in Procs, Writers[e] = {w} PROVE WriterInv(e, w)'
  <2>1. WriterInv(e, w)
    BY <1>7 DEF TequilaInv
  <2>2. Head(fromTequila[p]) = m /\ fromTequila[p] # <<>> /\ fromTequila[p] \in Seq(Messages)
    BY <1>2, <1>3 DEF NextMessage
  <2>3. ASSUME NEW q \in Procs \ {w}
        PROVE  Converging(fromTequila'[q], e, copy'[q][e], store'[e])
    <3>1. Converging(fromTequila[q], e, copy[q][e], store[e])
      BY <2>1 DEF WriterInv
    <3>2. CASE q = p
      <4>1. copy'[p][e] = IF m.op = "Set" /\ m.key = e THEN m.value ELSE copy[p][e]
        BY <1>5
      <4> QED BY <1>1, <1>2, <2>2, <3>1, <3>2, <4>1, TailIsConverging
    <3>3. CASE q # p
      <4>1. copy'[q][e] = copy[q][e]
        BY <1>5, <3>3
      <4> QED BY <1>1, <1>2, <3>1, <3>3, <4>1
    <3> QED BY <3>2, <3>3
  <2>4. Sets(fromTequila[w], e) = {}
    BY <2>1 DEF WriterInv
  <2>5. copy'[w][e] = copy[w][e]
    <3>1. w = p => ~(m.op = "Set" /\ m.key = e)
      <4> SUFFICES ASSUME w = p, m.op = "Set", m.key = e PROVE FALSE
        OBVIOUS
      <4>1. 1 \in DOMAIN fromTequila[p] /\ fromTequila[p][1] = m
        BY <2>2, TailOf
      <4> QED BY <2>4, <4>1 DEF Sets
    <3> QED BY <1>5, <3>1
  <2>6. Sets(fromTequila'[w], e) = {}
    <3>1. CASE w = p
      <4>1. fromTequila'[w] = Tail(fromTequila[w])
        BY <1>2, <3>1
      <4>2. \A i \in DOMAIN Tail(fromTequila[w]) :
              i + 1 \in DOMAIN fromTequila[w] /\ Tail(fromTequila[w])[i] = fromTequila[w][i + 1]
        BY <2>2, <3>1, TailOf
      <4> QED BY <2>4, <4>1, <4>2 DEF Sets
    <3>2. CASE w # p
      BY <1>2, <2>4, <3>2
    <3> QED BY <3>1, <3>2
  <2> QED BY <1>1, <2>1, <2>3, <2>5, <2>6 DEF WriterInv
<1>8. \A q \in Procs : Permitted(q)'
  BY <1>1 DEF TequilaInv, Permitted
<1> QED BY <1>6, <1>7, <1>8 DEF TequilaInv

LEMMA NextInv == TequilaInv /\ [TequilaNext]_vars => TequilaInv'
<1> SUFFICES ASSUME TequilaInv, [TequilaNext]_vars PROVE TequilaInv'
  OBVIOUS
<1>1. CASE UNCHANGED vars
  BY <1>1 DEF vars, tequilaVars, TequilaInv, TypeInv, Queues, Permitted, WriterInv
<1>2. ASSUME NEW p \in Procs, Serves(p) PROVE TequilaInv'
  BY <1>2, ServesStep DEF Serves
<1>3. ASSUME NEW p \in Procs, Takes(p) PROVE TequilaInv'
  BY <1>3, CallBackStep DEF Takes
<1>4. ASSUME NEW p \in Procs, Returns(p) PROVE TequilaInv'
  BY <1>4 DEF Returns, tequilaVars, TequilaInv, TypeInv, Queues, Permitted, WriterInv
<1>5. CASE TequilaNext
  BY <1>2, <1>3, <1>4, <1>5, WritesStep, WritesUnderTraceStep DEF TequilaNext
<1> QED BY <1>1, <1>5

LEMMA Invariant == TequilaSpec => []TequilaInv
BY InitInv, NextInv, PTL DEF TequilaSpec

-----------------------------------------------------------------------------
(* Waits.                                                                  *)

(* A queue keeps its reply when something is added to it. *)
LEMMA RepliesOfAppend ==
  ASSUME NEW M, NEW s \in Seq(M), NEW m \in M
  PROVE  HasReply(Append(s, m)) <=> HasReply(s) \/ m.op = "Reply"
BY ReplyInAppend

LEMMA RepliesOfTail ==
  ASSUME NEW M, NEW s \in Seq(M), s # <<>>, HasReply(s), Head(s).op # "Reply"
  PROVE  HasReply(Tail(s))
<1>1. /\ Head(s) = s[1] /\ Len(s) \in Nat /\ Len(s) >= 1 /\ DOMAIN s = 1 .. Len(s)
      /\ DOMAIN Tail(s) = 1 .. Len(s) - 1
      /\ \A i \in 1 .. Len(s) - 1 : Tail(s)[i] = s[i + 1]
  BY TailOf
<1>2. PICK i \in DOMAIN s : s[i].op = "Reply"
  BY DEF HasReply
<1>3. i # 1
  BY <1>1, <1>2
<1>4. i - 1 \in DOMAIN Tail(s) /\ Tail(s)[i - 1] = s[i]
  BY <1>1, <1>3
<1> QED BY <1>2, <1>4 DEF HasReply

LEMMA NextWaitInv == TequilaInv /\ WaitInv /\ [TequilaNext]_vars => WaitInv'
<1> SUFFICES ASSUME TequilaInv, WaitInv, [TequilaNext]_vars PROVE WaitInv'
  OBVIOUS
<1>0. TypeInv' /\ TypeInv /\ CallsType
  BY NextInv DEF TequilaInv, WaitInv
<1>1. \A p \in Procs : Replies(p) # {} <=> HasReply(fromTequila[p])
  BY DEF HasReply, Replies
<1>2. \A p \in Procs : (Replies(p) # {})' <=> HasReply(fromTequila'[p])
  BY DEF HasReply, Replies
<1> DEFINE InVain(p) == Waiting(p) /\ toTequila[p] = <<>> /\ ~HasReply(fromTequila[p])
<1>3. \A p \in Procs : ~InVain(p)
  BY <1>1 DEF WaitInv, NoWaitInVain
<1>4. SUFFICES CallsType' /\ \A p \in Procs : ~InVain(p)'
  BY <1>0, <1>2 DEF WaitInv, NoWaitInVain
<1> USE DEF InVain
<1>5. /\ toTequila \in [Procs -> Seq(Requests)] /\ fromTequila \in [Procs -> Seq(Messages)]
      /\ calls \in [Procs -> Seq(Keys)] /\ reply \in [Procs -> BOOLEAN]
  BY <1>0 DEF TypeInv, Queues, CallsType
<1>6. CASE UNCHANGED vars
  BY <1>0, <1>3, <1>6 DEF vars, tequilaVars, CallsType, Waiting
<1>7. ASSUME NEW p \in Procs, NEW k \in Keys, NEW v \in Values, ProcessWrites(p, k, v)
      PROVE  CallsType' /\ \A q \in Procs : ~InVain(q)'
  <2> DEFINE r == [key |-> k, value |-> v]
  <2>1. /\ toTequila' = [toTequila EXCEPT ![p] = Append(@, r)] /\ fromTequila' = fromTequila
        /\ calls' = [calls EXCEPT ![p] = <<k>> \o @] /\ reply' = [reply EXCEPT ![p] = FALSE]
    BY <1>7 DEF ProcessWrites, Write, Do
  <2>2. <<k>> \o calls[p] \in Seq(Keys)
    <3>1. <<k>> \in Seq(Keys) /\ calls[p] \in Seq(Keys)
      BY <1>5
    <3> QED BY <3>1, ConcatProperties
  <2>3. CallsType'
    BY <1>5, <2>1, <2>2 DEF CallsType
  <2>4. toTequila'[p] # <<>>
    <3>1. r \in Requests /\ toTequila[p] \in Seq(Requests)
      BY <1>5 DEF Requests
    <3>2. toTequila'[p] = Append(toTequila[p], r)
      BY <1>5, <2>1
    <3> HIDE DEF r
    <3>3. Append(toTequila[p], r) # <<>>
      BY <3>1, AppendProperties
    <3> QED BY <3>2, <3>3
  <2>5. ASSUME NEW q \in Procs \ {p} PROVE ~InVain(q)'
    <3>1. toTequila'[q] = toTequila[q] /\ calls'[q] = calls[q] /\ reply'[q] = reply[q]
      BY <1>5, <2>1
    <3> QED BY <1>3, <2>1, <3>1 DEF Waiting
  <2> QED BY <2>3, <2>4, <2>5
<1>8. ASSUME NEW p \in Procs, NEW k \in Keys, NEW v \in Values, WritesUnderTrace(p, k, v)
      PROVE  CallsType' /\ \A q \in Procs : ~InVain(q)'
  BY <1>0, <1>3, <1>8 DEF WritesUnderTrace, CallsType, Waiting
<1>9. ASSUME NEW p \in Procs, Serves(p)
      PROVE  CallsType' /\ \A q \in Procs : ~InVain(q)'
  <2> DEFINE r == Head(toTequila[p])
             m == SetMessage(r.key, r.value)
  <2>1. TqsRequest(p) /\ calls' = calls /\ reply' = reply
    BY <1>9 DEF Serves
  <2>2. /\ toTequila' = [toTequila EXCEPT ![p] = Tail(@)]
        /\ fromTequila' = [q \in Procs |->
             IF q = p THEN Append(fromTequila[q], ReplyMessage)
             ELSE IF store[r.key] # r.value THEN Append(fromTequila[q], m)
             ELSE fromTequila[q]]
        /\ r \in Requests
    BY <1>0, <2>1, Served DEF TypeInv
  <2>3. ReplyMessage \in Messages /\ ReplyMessage.op = "Reply" /\ m \in Messages
    BY <2>2 DEF Messages, ReplyMessage, SetMessage, Requests
  <2> HIDE DEF m
  <2>4. HasReply(fromTequila'[p])
    <3>1. HasReply(Append(fromTequila[p], ReplyMessage))
      BY <1>5, <2>3, RepliesOfAppend
    <3> QED BY <2>2, <3>1
  <2>5. ASSUME NEW q \in Procs \ {p} PROVE ~InVain(q)'
    <3>1. toTequila'[q] = toTequila[q]
      BY <1>5, <2>2
    <3>2. HasReply(fromTequila[q]) => HasReply(fromTequila'[q])
      <4>1. HasReply(fromTequila[q]) => HasReply(Append(fromTequila[q], m))
        BY <1>5, <2>3, RepliesOfAppend
      <4>2. fromTequila'[q] = Append(fromTequila[q], m) \/ fromTequila'[q] = fromTequila[q]
        BY <2>2
      <4> QED BY <4>1, <4>2
    <3> QED BY <1>3, <2>1, <3>1, <3>2 DEF Waiting
  <2> QED BY <1>0, <2>1, <2>4, <2>5 DEF CallsType
<1>10. ASSUME NEW p \in Procs, Takes(p)
       PROVE  CallsType' /\ \A q \in Procs : ~InVain(q)'
  <2>1. /\ toTequila' = toTequila /\ fromTequila[p] # <<>>
        /\ fromTequila' = [fromTequila EXCEPT ![p] = Tail(@)]
        /\ TakesReply(p) \/ TakesNotice(p)
    BY <1>10 DEF Takes, CallBack, Receive
  <2>2. fromTequila'[p] = Tail(fromTequila[p]) /\ \A q \in Procs \ {p} : fromTequila'[q] = fromTequila[q]
    BY <1>5, <2>1
  <2>3. CASE TakesReply(p)
    <3>1. /\ reply' = [reply EXCEPT ![p] = TRUE]
          /\ calls' = [calls EXCEPT ![p] = IF @ = <<>> THEN @ ELSE Tail(@)]
      BY <2>3 DEF TakesReply
    <3>2. CallsType'
      <4>1. calls[p] \in Seq(Keys) /\ (calls[p] # <<>> => Tail(calls[p]) \in Seq(Keys))
        BY <1>5, TailOf
      <4> QED BY <1>5, <3>1, <4>1 DEF CallsType
    <3>3. ~Waiting(p)'
      BY <1>5, <3>1 DEF Waiting
    <3>4. ASSUME NEW q \in Procs \ {p} PROVE ~InVain(q)'
      <4>1. calls'[q] = calls[q] /\ reply'[q] = reply[q]
        BY <1>5, <3>1
      <4> QED BY <1>3, <2>1, <2>2, <4>1 DEF Waiting
    <3> QED BY <3>2, <3>3, <3>4
  <2>4. CASE TakesNotice(p)
    <3>1. calls' = calls /\ reply' = reply /\ Head(fromTequila[p]).op # "Reply"
      BY <2>4 DEF TakesNotice, NextMessage
    <3>2. HasReply(fromTequila[p]) => HasReply(fromTequila'[p])
      BY <1>5, <2>1, <2>2, <3>1, RepliesOfTail
    <3>3. ASSUME NEW q \in Procs PROVE ~InVain(q)'
      BY <1>3, <2>1, <2>2, <3>1, <3>2 DEF Waiting
    <3> QED BY <1>0, <3>1, <3>3 DEF CallsType
  <2> QED BY <2>1, <2>3, <2>4
<1>11. ASSUME NEW p \in Procs, Returns(p)
       PROVE  CallsType' /\ \A q \in Procs : ~InVain(q)'
  <2>1. /\ toTequila' = toTequila /\ fromTequila' = fromTequila /\ reply' = reply /\ reply[p]
        /\ calls[p] # <<>> /\ calls' = [calls EXCEPT ![p] = Tail(@)]
    BY <1>11 DEF Returns, tequilaVars
  <2>2. Tail(calls[p]) \in Seq(Keys)
    BY <1>5, <2>1, TailOf
  <2>3. CallsType'
    BY <1>5, <2>1, <2>2 DEF CallsType
  <2>4. \A q \in Procs \ {p} : calls'[q] = calls[q]
    BY <1>5, <2>1
  <2>5. \A q \in Procs : ~InVain(q)'
    BY <1>3, <2>1, <2>4 DEF Waiting
  <2> QED BY <2>3, <2>5
<1>12. CASE TequilaNext
  BY <1>7, <1>8, <1>9, <1>10, <1>11, <1>12 DEF TequilaNext
<1> QED BY <1>6, <1>12

-----------------------------------------------------------------------------

(* No wait of tequila::do is in vain, however many processes write in the waits  *)
(* of their own writes: the one variable that all waits of a process share may    *)
(* end a wait early, but never empties under one that nothing will end            *)
(* (tequila.tcl:45-69).                                                        *)
THEOREM WaitsAreAnswered == TequilaSpec => []NoWaitInVain
<1>1. ProcessesInit => WaitInv
  BY InitInv
<1>2. WaitInv => NoWaitInVain
  BY DEF WaitInv
<1> QED BY <1>1, <1>2, NextWaitInv, Invariant, PTL DEF TequilaSpec

(* The copies of an element that one process writes converge to the last value it *)
(* sent, for any number of processes, and to its copy unless its last write was   *)
(* made within a wait of its own (tequila.tcl:110-135).                         *)
THEOREM Converges == TequilaSpec => []SingleWriterConverges
<1>1. TequilaInv => SingleWriterConverges
  <2> SUFFICES ASSUME TequilaInv, NEW k \in Keys, NEW p \in Procs, Writers[k] = {p}
               PROVE  /\ \A q \in Procs \ {p} : Settled(q, k) = store[k]
                      /\ <<p, k>> \notin unsent => copy[p][k] = Requested(p, k)
    BY DEF SingleWriterConverges
  <2>1. WriterInv(k, p) /\ Queues(Requests, Messages)
    BY DEF TequilaInv, TypeInv
  <2>0. ASSUME NEW S \in SUBSET Nat, NEW i \in S, \A j \in S : j <= i
        PROVE  Latest(S) = i
    <3>1. Latest(S) \in S /\ \A j \in S : j <= Latest(S)
      BY <2>0, Zenon DEF Latest
    <3> QED BY <2>0, <3>1
  <2>2. ASSUME NEW q \in Procs \ {p} PROVE Settled(q, k) = store[k]
    <3> DEFINE S == Pending(q, k)
    <3>1. S = Sets(fromTequila[q], k) /\ S \subseteq Nat
      <4>1. DOMAIN fromTequila[q] \subseteq Nat
        BY <2>1, LenProperties DEF Queues
      <4> QED BY <4>1 DEF Pending, Sets
    <3>2. Converging(fromTequila[q], k, copy[q][k], store[k])
      BY <2>1 DEF WriterInv
    <3>3. CASE S = {}
      BY <3>1, <3>2, <3>3 DEF Converging, Settled
    <3>4. ASSUME NEW i \in S, fromTequila[q][i].value = store[k], \A j \in S : j <= i
          PROVE  Settled(q, k) = store[k]
      <4>1. Latest(S) = i /\ S # {}
        BY <2>0, <3>1, <3>4
      <4> QED BY <3>4, <4>1 DEF Settled
    <3> QED BY <3>1, <3>2, <3>3, <3>4 DEF Converging
  <2>3. ASSUME <<p, k>> \notin unsent PROVE copy[p][k] = Requested(p, k)
    <3> DEFINE S == Asked(p, k)
    <3>1. S \subseteq Nat
      <4>1. DOMAIN toTequila[p] \subseteq Nat
        BY <2>1, LenProperties DEF Queues
      <4> QED BY <4>1 DEF Asked
    <3>2. Asking(toTequila[p], k, store[k], copy[p][k])
      BY <2>1, <2>3 DEF WriterInv
    <3>3. CASE S = {} /\ copy[p][k] = store[k]
      BY <3>3 DEF Requested
    <3>4. ASSUME NEW i \in S, toTequila[p][i].value = copy[p][k], \A j \in S : j <= i
          PROVE  copy[p][k] = Requested(p, k)
      <4>1. Latest(S) = i /\ S # {}
        BY <2>0, <3>1, <3>4
      <4> QED BY <3>4, <4>1 DEF Requested
    <3> QED BY <3>2, <3>3, <3>4 DEF Asking, Asked
  <2> QED BY <2>2, <2>3
<1> QED BY <1>1, InitInv, Invariant, PTL
=============================================================================
