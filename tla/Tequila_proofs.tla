---------------------------- MODULE Tequila_proofs ----------------------------
(***************************************************************************)
(* Lemmas about Tequila, for the proofs about the modules that extend it:   *)
(* what the data server sends, the replies in a queue of messages, and the  *)
(* values its notices take a copy to.                                      *)
(***************************************************************************)
EXTENDS Tequila, SequenceTheorems, FiniteSetTheorems, TLAPS

HasReply(s) == \E i \in DOMAIN s : s[i].op = "Reply"

AtMostOneReply(s) == \A i, j \in DOMAIN s : s[i].op = "Reply" /\ s[j].op = "Reply" => i = j

(* The replies and the request of a process: one of them, or none. *)
OnePending(p) ==
  /\ Len(toTequila[p]) <= 1
  /\ AtMostOneReply(fromTequila[p])
  /\ HasReply(fromTequila[p]) => toTequila[p] = <<>>

\* The queues hold requests and messages
Queues(requests, messages) ==
  /\ toTequila \in [Procs -> Seq(requests)]
  /\ fromTequila \in [Procs -> Seq(messages)]

Sets(s, k) == {i \in DOMAIN s : s[i].op = "Set" /\ s[i].key = k}

(* A queue of messages takes a copy with value c to value v. *)
Converging(s, k, c, v) ==
  \/ Sets(s, k) = {} /\ c = v
  \/ \E i \in Sets(s, k) : s[i].value = v /\ \A j \in Sets(s, k) : j <= i

-----------------------------------------------------------------------------
(* Queues.                                                                 *)

LEMMA TailOf ==
  ASSUME NEW M, NEW s \in Seq(M), s # <<>>
  PROVE  /\ Head(s) = s[1] /\ Head(s) \in M
         /\ Tail(s) \in Seq(M)
         /\ Len(s) \in Nat /\ Len(s) >= 1 /\ DOMAIN s = 1 .. Len(s)
         /\ Len(Tail(s)) = Len(s) - 1
         /\ DOMAIN Tail(s) = 1 .. Len(s) - 1
         /\ \A i \in 1 .. Len(s) - 1 : Tail(s)[i] = s[i + 1]
<1>1. Head(s) \in M /\ Tail(s) \in Seq(M) /\ Len(Tail(s)) = Len(s) - 1
      /\ \A i \in 1 .. Len(Tail(s)) : Tail(s)[i] = s[i + 1]
  BY HeadTailProperties
<1>2. Len(s) \in Nat /\ DOMAIN s = 1 .. Len(s) /\ Len(s) # 0
  BY EmptySeq, LenProperties
<1>3. DOMAIN Tail(s) = 1 .. Len(Tail(s))
  BY <1>1, LenProperties
<1>4. Head(s) = s[1]
  BY <1>2
<1> QED BY <1>1, <1>2, <1>3, <1>4

LEMMA AppendOf ==
  ASSUME NEW M, NEW s \in Seq(M), NEW m \in M
  PROVE  /\ Append(s, m) \in Seq(M)
         /\ Len(s) \in Nat /\ DOMAIN s = 1 .. Len(s)
         /\ Len(Append(s, m)) = Len(s) + 1
         /\ DOMAIN Append(s, m) = 1 .. Len(s) + 1
         /\ \A i \in 1 .. Len(s) : Append(s, m)[i] = s[i]
         /\ Append(s, m)[Len(s) + 1] = m
<1>1. /\ Append(s, m) \in Seq(M)
      /\ Len(Append(s, m)) = Len(s) + 1
      /\ \A i \in 1 .. Len(s) : Append(s, m)[i] = s[i]
      /\ Append(s, m)[Len(s) + 1] = m
  BY AppendProperties
<1>2. Len(s) \in Nat /\ DOMAIN s = 1 .. Len(s)
  BY LenProperties
<1>3. DOMAIN Append(s, m) = 1 .. Len(Append(s, m))
  BY <1>1, LenProperties
<1> QED BY <1>1, <1>2, <1>3

(* Taking the first message takes at most that reply. *)
LEMMA ReplyInTail ==
  ASSUME NEW M, NEW s \in Seq(M), s # <<>>, AtMostOneReply(s)
  PROVE  /\ AtMostOneReply(Tail(s))
         /\ HasReply(Tail(s)) <=> HasReply(s) /\ Head(s).op # "Reply"
<1>1. /\ Head(s) = s[1] /\ Len(s) \in Nat /\ Len(s) >= 1 /\ DOMAIN s = 1 .. Len(s)
      /\ DOMAIN Tail(s) = 1 .. Len(s) - 1
      /\ \A i \in 1 .. Len(s) - 1 : Tail(s)[i] = s[i + 1]
  BY TailOf
<1>2. \A i \in DOMAIN Tail(s) : i + 1 \in DOMAIN s /\ Tail(s)[i] = s[i + 1] /\ i \in Nat /\ i # 0
  BY <1>1
<1>3. \A i \in DOMAIN s : i # 1 => i - 1 \in DOMAIN Tail(s) /\ Tail(s)[i - 1] = s[i] /\ i \in Nat
  BY <1>1
<1>4. AtMostOneReply(Tail(s))
  <2> SUFFICES ASSUME NEW i \in DOMAIN Tail(s), NEW j \in DOMAIN Tail(s),
                      Tail(s)[i].op = "Reply", Tail(s)[j].op = "Reply"
               PROVE  i = j
    BY DEF AtMostOneReply
  <2>1. i + 1 = j + 1
    BY <1>2 DEF AtMostOneReply
  <2> QED BY <1>2, <2>1
<1>5. HasReply(Tail(s)) => HasReply(s) /\ Head(s).op # "Reply"
  <2> SUFFICES ASSUME NEW i \in DOMAIN Tail(s), Tail(s)[i].op = "Reply"
               PROVE  HasReply(s) /\ Head(s).op # "Reply"
    BY DEF HasReply
  <2>1. i + 1 \in DOMAIN s /\ s[i + 1].op = "Reply" /\ i + 1 # 1
    BY <1>2
  <2>2. 1 \in DOMAIN s
    BY <1>1
  <2> QED BY <1>1, <2>1, <2>2 DEF HasReply, AtMostOneReply
<1>6. HasReply(s) /\ Head(s).op # "Reply" => HasReply(Tail(s))
  <2> SUFFICES ASSUME NEW i \in DOMAIN s, s[i].op = "Reply", Head(s).op # "Reply"
               PROVE  HasReply(Tail(s))
    BY DEF HasReply
  <2>1. i # 1
    BY <1>1
  <2> QED BY <1>3, <2>1 DEF HasReply
<1> QED BY <1>4, <1>5, <1>6

(* A notice that is added is no reply; a reply is, and is the only one if there  *)
(* was none.                                                                  *)
LEMMA ReplyInAppend ==
  ASSUME NEW M, NEW s \in Seq(M), NEW m \in M
  PROVE  /\ HasReply(Append(s, m)) <=> HasReply(s) \/ m.op = "Reply"
         /\ AtMostOneReply(s) /\ (HasReply(s) => m.op # "Reply") => AtMostOneReply(Append(s, m))
<1>1. /\ Len(s) \in Nat /\ DOMAIN s = 1 .. Len(s)
      /\ DOMAIN Append(s, m) = 1 .. Len(s) + 1
      /\ \A i \in 1 .. Len(s) : Append(s, m)[i] = s[i]
      /\ Append(s, m)[Len(s) + 1] = m
  BY AppendOf
<1>2. \A i \in DOMAIN Append(s, m) : i \in DOMAIN s \/ i = Len(s) + 1
  BY <1>1
<1>3. \A i \in DOMAIN s : i \in DOMAIN Append(s, m) /\ Append(s, m)[i] = s[i]
  BY <1>1
<1>4. Len(s) + 1 \in DOMAIN Append(s, m)
  BY <1>1
<1>5. HasReply(Append(s, m)) <=> HasReply(s) \/ m.op = "Reply"
  BY <1>1, <1>2, <1>3, <1>4, Zenon DEF HasReply
<1>6. ASSUME AtMostOneReply(s), HasReply(s) => m.op # "Reply"
      PROVE  AtMostOneReply(Append(s, m))
  BY <1>1, <1>2, <1>3, <1>6, Zenon DEF HasReply, AtMostOneReply
<1> QED BY <1>5, <1>6

(* A queue with at most one reply has none or one. *)
LEMMA CountReplies ==
  ASSUME NEW p, AtMostOneReply(fromTequila[p])
  PROVE  /\ HasReply(fromTequila[p]) <=> Replies(p) # {}
         /\ Cardinality(Replies(p)) = IF HasReply(fromTequila[p]) THEN 1 ELSE 0
<1>1. HasReply(fromTequila[p]) <=> Replies(p) # {}
  BY DEF HasReply, Replies
<1>2. CASE Replies(p) = {}
  BY <1>1, <1>2, FS_EmptySet
<1>3. CASE Replies(p) # {}
  <2>1. PICK i : Replies(p) = {i}
    BY <1>3 DEF Replies, AtMostOneReply
  <2>2. Cardinality({i}) = 1
    BY FS_Singleton
  <2> QED BY <1>1, <1>3, <2>1, <2>2
<1> QED BY <1>1, <1>2, <1>3

-----------------------------------------------------------------------------
(* The data server.                                                        *)

(* Serving the request of p sends it the reply, and the others the value if it   *)
(* is another than the one stored.                                            *)
LEMMA Served ==
  ASSUME NEW requests, NEW messages, Queues(requests, messages),
         NEW p \in Procs, TqsRequest(p)
  PROVE  LET r == Head(toTequila[p])
             news == store[r.key] # r.value
         IN  /\ r \in requests /\ toTequila[p] # <<>>
             /\ toTequila' = [toTequila EXCEPT ![p] = Tail(@)]
             /\ store' = [store EXCEPT ![r.key] = r.value]
             /\ fromTequila' = [q \in Procs |->
                  IF q = p THEN Append(fromTequila[q], ReplyMessage)
                  ELSE IF news THEN Append(fromTequila[q], SetMessage(r.key, r.value))
                  ELSE fromTequila[q]]
             /\ copy' = copy
<1> DEFINE r == Head(toTequila[p])
           told == IF store[r.key] = r.value THEN {} ELSE Notified(p)
           Notices(q) == (IF q \in told THEN <<SetMessage(r.key, r.value)>> ELSE <<>>)
                         \o (IF q = p THEN <<ReplyMessage>> ELSE <<>>)
           Sent(q) == IF q = p THEN Append(fromTequila[q], ReplyMessage)
                      ELSE IF store[r.key] # r.value
                        THEN Append(fromTequila[q], SetMessage(r.key, r.value))
                      ELSE fromTequila[q]
<1>1. /\ toTequila[p] # <<>>
      /\ toTequila' = [toTequila EXCEPT ![p] = Tail(@)]
      /\ store' = [store EXCEPT ![r.key] = r.value]
      /\ fromTequila' = [q \in Procs |-> fromTequila[q] \o Notices(q)]
      /\ copy' = copy
  BY DEF TqsRequest
<1>2. r \in requests
  BY <1>1, TailOf DEF Queues
<1>3. ASSUME NEW q \in Procs PROVE fromTequila[q] \o Notices(q) = Sent(q)
  <2>0. fromTequila[q] \in Seq(messages)
    BY DEF Queues
  <2> DEFINE everything == messages \cup {ReplyMessage, SetMessage(r.key, r.value)}
  <2>1. fromTequila[q] \in Seq(everything)
    BY <2>0, SeqMonotonic
  <2>2. ReplyMessage \in everything /\ SetMessage(r.key, r.value) \in everything
    OBVIOUS
  <2> HIDE DEF everything
  <2>3. p \notin told
    BY DEF Notified
  <2>4. CASE q = p
    <3>1. Notices(q) = <<>> \o <<ReplyMessage>>
      BY <2>3, <2>4
    <3>2. <<>> \o <<ReplyMessage>> = <<ReplyMessage>>
      BY <2>2, ConcatEmptySeq, <<ReplyMessage>> \in Seq(everything)
    <3> QED BY <2>1, <2>2, <2>4, <3>1, <3>2, AppendIsConcat
  <2>5. CASE q # p /\ q \in told
    <3>1. Notices(q) = <<SetMessage(r.key, r.value)>> \o <<>>
      BY <2>5
    <3>2. <<SetMessage(r.key, r.value)>> \o <<>> = <<SetMessage(r.key, r.value)>>
      BY <2>2, ConcatEmptySeq, <<SetMessage(r.key, r.value)>> \in Seq(everything)
    <3>3. store[r.key] # r.value
      BY <2>5
    <3> QED BY <2>1, <2>2, <2>5, <3>1, <3>2, <3>3, AppendIsConcat
  <2>6. CASE q # p /\ q \notin told
    <3>1. Notices(q) = <<>> \o <<>>
      BY <2>6
    <3>2. <<>> \o <<>> = <<>>
      OBVIOUS
    <3>3. store[r.key] = r.value
      BY <2>6 DEF Notified
    <3> QED BY <2>1, <2>6, <3>1, <3>2, <3>3, ConcatEmptySeq
  <2> QED BY <2>4, <2>5, <2>6
<1>4. [q \in Procs |-> fromTequila[q] \o Notices(q)] = [q \in Procs |-> Sent(q)]
  BY <1>3
<1> QED BY <1>1, <1>2, <1>4, Zenon

(* Serving a request keeps the queues typed and turns it into a reply. *)
LEMMA ServedKeepsQueues ==
  ASSUME NEW requests, NEW messages, Queues(requests, messages),
         NEW p \in Procs, TqsRequest(p),
         ReplyMessage \in messages,
         SetMessage(Head(toTequila[p]).key, Head(toTequila[p]).value) \in messages
  PROVE  Queues(requests, messages)'
<1> DEFINE r == Head(toTequila[p])
           set == SetMessage(r.key, r.value)
<1>1. /\ toTequila[p] # <<>>
      /\ toTequila' = [toTequila EXCEPT ![p] = Tail(@)]
      /\ fromTequila' = [q \in Procs |->
           IF q = p THEN Append(fromTequila[q], ReplyMessage)
           ELSE IF store[r.key] # r.value THEN Append(fromTequila[q], set)
           ELSE fromTequila[q]]
  BY Served
<1>2. Tail(toTequila[p]) \in Seq(requests)
  BY <1>1, TailOf DEF Queues
<1>3. set \in messages
  OBVIOUS
<1> HIDE DEF set
<1>4. \A q \in Procs : /\ Append(fromTequila[q], ReplyMessage) \in Seq(messages)
                       /\ Append(fromTequila[q], set) \in Seq(messages)
  BY <1>3, AppendProperties DEF Queues
<1> QED BY <1>1, <1>2, <1>4 DEF Queues

LEMMA ServedKeepsOnePending ==
  ASSUME NEW requests, NEW messages, Queues(requests, messages),
         NEW p \in Procs, TqsRequest(p),
         NEW q \in Procs, OnePending(p), OnePending(q)
  PROVE  /\ OnePending(q)'
         /\ HasReply(fromTequila'[q]) <=> q = p \/ HasReply(fromTequila[q])
         /\ q = p => toTequila[q] # <<>> /\ toTequila'[q] = <<>>
         /\ q # p => toTequila'[q] = toTequila[q]
<1> DEFINE r == Head(toTequila[p])
           set == SetMessage(r.key, r.value)
           everything == messages \cup {ReplyMessage, set}
<1>1. /\ toTequila[p] # <<>>
      /\ toTequila' = [toTequila EXCEPT ![p] = Tail(@)]
      /\ fromTequila' = [x \in Procs |->
           IF x = p THEN Append(fromTequila[x], ReplyMessage)
           ELSE IF store[r.key] # r.value THEN Append(fromTequila[x], set)
           ELSE fromTequila[x]]
  BY Served
<1>2. /\ ReplyMessage \in everything /\ ReplyMessage.op = "Reply"
      /\ set \in everything /\ set.op # "Reply"
  BY DEF ReplyMessage, SetMessage
<1>3. fromTequila[q] \in Seq(everything)
  <2>1. fromTequila[q] \in Seq(messages)
    BY DEF Queues
  <2> QED BY <2>1, SeqMonotonic
<1> HIDE DEF everything, set
<1>4. toTequila[p] \in Seq(requests)
  BY DEF Queues
<1>5. /\ Len(Tail(toTequila[p])) = Len(toTequila[p]) - 1
      /\ Tail(toTequila[p]) \in Seq(requests)
      /\ Len(toTequila[p]) \in Nat /\ Len(toTequila[p]) >= 1
  BY <1>1, <1>4, TailOf
<1>6. Len(Tail(toTequila[p])) = 0
  <2>1. Len(toTequila[p]) <= 1
    BY DEF OnePending
  <2>2. Len(toTequila[p]) \in Nat /\ Len(toTequila[p]) >= 1
    BY <1>5
  <2>3. \A n \in Nat : n >= 1 /\ n <= 1 => n = 1
    OBVIOUS
  <2>4. Len(toTequila[p]) = 1
    BY <2>1, <2>2, <2>3, Zenon
  <2> QED BY <1>5, <2>4
<1>7. Tail(toTequila[p]) = <<>>
  BY <1>5, <1>6, EmptySeq
<1>8. toTequila \in [Procs -> Seq(requests)]
  BY DEF Queues
<1>9. CASE q = p
  <2>1. ~HasReply(fromTequila[q])
    BY <1>1, <1>9 DEF OnePending
  <2>2. fromTequila'[q] = Append(fromTequila[q], ReplyMessage)
    BY <1>1, <1>9
  <2>3. toTequila'[q] = <<>>
    BY <1>1, <1>7, <1>8, <1>9
  <2>4. HasReply(fromTequila'[q]) /\ AtMostOneReply(fromTequila'[q])
    BY <1>2, <1>3, <2>1, <2>2, ReplyInAppend DEF OnePending
  <2>5. Len(<<>>) = 0
    OBVIOUS
  <2> QED BY <1>1, <1>9, <2>3, <2>4, <2>5 DEF OnePending
<1>10. CASE q # p
  <2>1. toTequila'[q] = toTequila[q]
    BY <1>1, <1>8, <1>10
  <2>2. \/ fromTequila'[q] = Append(fromTequila[q], set)
        \/ fromTequila'[q] = fromTequila[q]
    BY <1>1, <1>10
  <2>3. /\ HasReply(fromTequila'[q]) <=> HasReply(fromTequila[q])
        /\ AtMostOneReply(fromTequila'[q])
    <3>1. AtMostOneReply(fromTequila[q])
      BY DEF OnePending
    <3>2. /\ HasReply(Append(fromTequila[q], set)) <=> HasReply(fromTequila[q])
          /\ AtMostOneReply(Append(fromTequila[q], set))
      BY <1>2, <1>3, <3>1, ReplyInAppend, Zenon
    <3> QED BY <2>2, <3>1, <3>2
  <2> QED BY <1>10, <2>1, <2>3 DEF OnePending
<1> QED BY <1>9, <1>10

(* A process takes a message: its pending request or reply stays one. *)
LEMMA ReceivedKeepsOnePending ==
  ASSUME NEW requests, NEW messages, Queues(requests, messages),
         NEW p \in Procs, Receive(p), toTequila' = toTequila,
         NEW q \in Procs, OnePending(q)
  PROVE  /\ OnePending(q)'
         /\ fromTequila' \in [Procs -> Seq(messages)]
         /\ q # p => fromTequila'[q] = fromTequila[q]
         /\ fromTequila[p] # <<>> /\ NextMessage(p) \in messages
         /\ q = p => fromTequila'[q] = Tail(fromTequila[q])
         /\ HasReply(fromTequila'[q]) <=>
              HasReply(fromTequila[q]) /\ ~(q = p /\ NextMessage(p).op = "Reply")
<1>1. fromTequila[p] # <<>> /\ fromTequila' = [fromTequila EXCEPT ![p] = Tail(@)]
  BY DEF Receive
<1>2. fromTequila \in [Procs -> Seq(messages)]
  BY DEF Queues
<1>3. Tail(fromTequila[p]) \in Seq(messages) /\ NextMessage(p) \in messages
  BY <1>1, <1>2, TailOf DEF NextMessage
<1>4. fromTequila' \in [Procs -> Seq(messages)]
  BY <1>1, <1>2, <1>3
<1>5. CASE q # p
  BY <1>1, <1>2, <1>3, <1>4, <1>5 DEF OnePending
<1>6. CASE q = p
  <2>1. fromTequila'[q] = Tail(fromTequila[q])
    BY <1>1, <1>2, <1>6
  <2>2. /\ AtMostOneReply(fromTequila'[q])
        /\ HasReply(fromTequila'[q]) <=> HasReply(fromTequila[q]) /\ NextMessage(q).op # "Reply"
    BY <1>1, <1>2, <1>6, <2>1, ReplyInTail DEF OnePending, NextMessage
  <2> QED BY <1>1, <1>3, <1>4, <1>6, <2>1, <2>2 DEF OnePending
<1> QED BY <1>5, <1>6

(* A process that waits for nothing sends a request. *)
LEMMA DoneKeepsOnePending ==
  ASSUME NEW requests, toTequila \in [Procs -> Seq(requests)],
         NEW p \in Procs, NEW k, NEW v, Do(p, k, v), [key |-> k, value |-> v] \in requests,
         toTequila[p] = <<>>
  PROVE  /\ toTequila' = [toTequila EXCEPT ![p] = <<[key |-> k, value |-> v]>>]
         /\ toTequila' \in [Procs -> Seq(requests)]
         /\ Len(toTequila'[p]) = 1
<1>1. toTequila' = [toTequila EXCEPT ![p] = Append(@, [key |-> k, value |-> v])]
  BY DEF Do
<1>2. Append(<<>>, [key |-> k, value |-> v]) = <<[key |-> k, value |-> v]>>
  OBVIOUS
<1>3. <<[key |-> k, value |-> v]>> \in Seq(requests)
  OBVIOUS
<1>4. Len(<<[key |-> k, value |-> v]>>) = 1
  OBVIOUS
<1> QED BY <1>1, <1>2, <1>3, <1>4

-----------------------------------------------------------------------------
(* What messages do to a copy.                                              *)

LEMMA SetsOfAppend ==
  ASSUME NEW M, NEW s \in Seq(M), NEW m \in M, NEW k
  PROVE  /\ m.op = "Set" /\ m.key = k => Sets(Append(s, m), k) = Sets(s, k) \cup {Len(s) + 1}
         /\ ~(m.op = "Set" /\ m.key = k) => Sets(Append(s, m), k) = Sets(s, k)
<1>1. /\ Len(s) \in Nat /\ DOMAIN s = 1 .. Len(s)
      /\ DOMAIN Append(s, m) = 1 .. Len(s) + 1
      /\ \A i \in 1 .. Len(s) : Append(s, m)[i] = s[i]
      /\ Append(s, m)[Len(s) + 1] = m
  BY AppendOf
<1>2. DOMAIN Append(s, m) = DOMAIN s \cup {Len(s) + 1}
  BY <1>1
<1>3. \A i \in DOMAIN s : Append(s, m)[i] = s[i]
  BY <1>1
<1>4. Len(s) + 1 \notin DOMAIN s
  BY <1>1
<1> QED BY <1>1, <1>2, <1>3, <1>4, Zenon DEF Sets

LEMMA SetIsConverging ==
  ASSUME NEW M, NEW s \in Seq(M), NEW k, NEW v, SetMessage(k, v) \in M, NEW c
  PROVE  Converging(Append(s, SetMessage(k, v)), k, c, v)
<1> DEFINE m == SetMessage(k, v)
           t == Append(s, m)
<1>1. m.op = "Set" /\ m.key = k /\ m.value = v
  BY DEF SetMessage
<1> HIDE DEF m
<1>2. Sets(t, k) = Sets(s, k) \cup {Len(s) + 1}
  BY <1>1, SetsOfAppend DEF m
<1>3. Len(s) \in Nat /\ DOMAIN s = 1 .. Len(s) /\ t[Len(s) + 1] = m
  BY AppendOf DEF m
<1>4. \A j \in Sets(s, k) : j <= Len(s) + 1
  BY <1>3 DEF Sets
<1>5. Len(s) + 1 \in Sets(t, k) /\ t[Len(s) + 1].value = v /\ \A j \in Sets(t, k) : j <= Len(s) + 1
  BY <1>1, <1>2, <1>3, <1>4
<1> QED BY <1>5 DEF Converging, m

LEMMA OtherIsConverging ==
  ASSUME NEW M, NEW s \in Seq(M), NEW m \in M, NEW k, ~(m.op = "Set" /\ m.key = k),
         NEW c, NEW v, Converging(s, k, c, v)
  PROVE  Converging(Append(s, m), k, c, v)
<1>1. Sets(Append(s, m), k) = Sets(s, k)
  BY SetsOfAppend
<1>2. \A i \in Sets(s, k) : Append(s, m)[i] = s[i]
  BY AppendOf DEF Sets
<1> QED BY <1>1, <1>2, Zenon DEF Converging

(* The first message of the queue is applied to the copy. *)
LEMMA TailIsConverging ==
  ASSUME NEW M, NEW s \in Seq(M), s # <<>>, NEW k, NEW c, NEW v, Converging(s, k, c, v)
  PROVE  Converging(Tail(s), k, IF Head(s).op = "Set" /\ Head(s).key = k THEN Head(s).value ELSE c, v)
<1>1. /\ Head(s) = s[1] /\ Len(s) \in Nat /\ Len(s) >= 1 /\ DOMAIN s = 1 .. Len(s)
      /\ DOMAIN Tail(s) = 1 .. Len(s) - 1
      /\ \A i \in 1 .. Len(s) - 1 : Tail(s)[i] = s[i + 1]
  BY TailOf
<1> DEFINE d == IF Head(s).op = "Set" /\ Head(s).key = k THEN Head(s).value ELSE c
<1>2. \A i \in Sets(Tail(s), k) : i + 1 \in Sets(s, k) /\ i \in Nat /\ i # 0
  BY <1>1 DEF Sets
<1>3. \A i \in Sets(s, k) : i # 1 => i - 1 \in Sets(Tail(s), k) /\ Tail(s)[i - 1] = s[i] /\ i \in Nat
  BY <1>1 DEF Sets
<1>4. CASE Sets(s, k) = {}
  <2>1. Sets(Tail(s), k) = {}
    BY <1>2, <1>4
  <2>2. d = c /\ c = v
    BY <1>1, <1>4 DEF Converging, Sets
  <2> QED BY <2>1, <2>2 DEF Converging
<1>5. ASSUME NEW i \in Sets(s, k), s[i].value = v, \A j \in Sets(s, k) : j <= i
      PROVE  Converging(Tail(s), k, d, v)
  <2>1. CASE i = 1
    <3>1. Sets(Tail(s), k) = {}
      <4> SUFFICES ASSUME NEW j \in Sets(Tail(s), k) PROVE FALSE
        OBVIOUS
      <4>1. j \in Nat /\ j # 0 /\ j + 1 \in Sets(s, k)
        BY <1>2
      <4>2. j + 1 <= 1
        BY <1>5, <2>1, <4>1
      <4> QED BY <4>1, <4>2
    <3>2. d = v
      BY <1>1, <1>5, <2>1 DEF Sets
    <3> QED BY <3>1, <3>2 DEF Converging
  <2>2. CASE i # 1
    <3>1. i - 1 \in Sets(Tail(s), k) /\ Tail(s)[i - 1].value = v /\ i \in Nat
      BY <1>3, <1>5, <2>2
    <3>2. \A j \in Sets(Tail(s), k) : j <= i - 1
      BY <1>2, <1>5, <3>1
    <3> QED BY <3>1, <3>2 DEF Converging
  <2> QED BY <2>1, <2>2
<1> QED BY <1>4, <1>5 DEF Converging
=============================================================================
