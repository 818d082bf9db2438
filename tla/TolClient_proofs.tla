--------------------------- MODULE TolClient_proofs ---------------------------
(***************************************************************************)
(* Proofs about the TOL client, for any number of hosts and channels, any    *)
(* cluster, and any bounds on requests, expressions, losses and timeouts.    *)
(***************************************************************************)
EXTENDS TolClient, SequenceTheorems, TLAPS

Answers == {"ACKPING", "TASK", "EOC", "TIMEOUT"}

AskFrames == [kind : {"ask"}, id : Nat, chan : Chans, answer : Answers \cup {None}]
WaitFrames == [kind : {"wait"}, waiting : SUBSET Nat, woken : BOOLEAN]
ReconnectFrames == [kind : {"reconnect"}, host : Hosts, tasks : SUBSET Nat]
LaunchFrames == [kind : {"launch"}, todo : Seq(Nat), hosts : Seq(Hosts), launched : Nat]

Frames == AskFrames \cup WaitFrames \cup ReconnectFrames \cup LaunchFrames

(* A round that waits for an answer has an expression and a host to give it to. *)
WaitingFrames == {f \in Frames : f.kind = "launch" => f.todo # <<>> /\ f.hosts # <<>>}

IsStack(s) == s \in Seq(Frames) /\ (s # <<>> => Tail(s) \in Seq(WaitingFrames))

CallBacks == [do : {"reconnect"}, host : Hosts, tasks : SUBSET Nat] \cup [do : {"launch"}]
Requests == [tag : {"PING", "TOLEVAL", "RECONN"}, id : Nat, expr : Nat \cup {None}]
Lines == [tag : {"ACKPING", "TSTART", "TFINISH"}, id : Nat]
Evaluations == [id : Nat, host : Hosts \cup {None}, chan : Chans \cup {None}]

(* The type of the state; an open channel is that of a host. *)
TypeInv ==
  /\ opened \in SUBSET {c \in Chans : hostOf[c] # None /\ peer[c] # None}
  /\ chanOf \in [Hosts -> Chans \cup {None}]
  /\ hostOf \in [Chans -> Hosts \cup {None}]
  /\ asking \in [Chans -> SUBSET Nat]
  /\ chanTasks \in [Chans -> (SUBSET Nat) \cup {None}]
  /\ global \in SUBSET Nat
  /\ counter \in Nat
  /\ timers \in SUBSET Nat
  /\ lastTask \in Nat
  /\ queue \in Seq(Nat)
  /\ busy \in [Hosts -> BOOLEAN]
  /\ launching \in BOOLEAN
  /\ IsStack(stack)
  /\ idle \in Seq(CallBacks)
  /\ requests \in [Chans -> Seq(Requests)]
  /\ lines \in [Chans -> Seq(Lines)]
  /\ peer \in [Chans -> Hosts \cup {None}]
  /\ running \in SUBSET Evaluations
  /\ exprs \in Nat /\ losses \in Nat /\ early \in Nat

-----------------------------------------------------------------------------
(* Sequences.                                                              *)

LEMMA PushOf ==
  ASSUME NEW M, NEW s \in Seq(M), NEW f \in M
  PROVE  /\ <<f>> \o s \in Seq(M)
         /\ <<f>> \o s # <<>>
         /\ Head(<<f>> \o s) = f
         /\ Tail(<<f>> \o s) = s
         /\ Len(s) \in Nat /\ DOMAIN s = 1 .. Len(s)
         /\ Len(<<f>> \o s) = Len(s) + 1
         /\ DOMAIN (<<f>> \o s) = 1 .. Len(s) + 1
         /\ (<<f>> \o s)[1] = f
         /\ \A i \in 1 .. Len(s) : (<<f>> \o s)[i + 1] = s[i]
<1>1. <<f>> \in Seq(M) /\ Len(<<f>>) = 1 /\ <<f>>[1] = f
  OBVIOUS
<1>2. Len(s) \in Nat /\ DOMAIN s = 1 .. Len(s)
  BY LenProperties
<1>3. /\ <<f>> \o s \in Seq(M)
      /\ Len(<<f>> \o s) = Len(s) + 1
      /\ \A i \in 1 .. 1 + Len(s) : (<<f>> \o s)[i] = IF i <= 1 THEN <<f>>[i] ELSE s[i - 1]
  BY <1>1, <1>2, ConcatProperties
<1>4. DOMAIN (<<f>> \o s) = 1 .. Len(s) + 1
  BY <1>3, LenProperties
<1>5. (<<f>> \o s)[1] = f
  BY <1>1, <1>2, <1>3
<1>6. \A i \in 1 .. Len(s) : (<<f>> \o s)[i + 1] = s[i]
  BY <1>2, <1>3
<1>7. <<f>> \o s # <<>>
  BY <1>2, <1>3
<1>8. Head(<<f>> \o s) = f
  BY <1>3, <1>5, <1>7
<1>9. Tail(<<f>> \o s) = s
  <2>1. /\ Tail(<<f>> \o s) \in Seq(M) /\ Len(Tail(<<f>> \o s)) = Len(s)
        /\ \A i \in 1 .. Len(s) : Tail(<<f>> \o s)[i] = (<<f>> \o s)[i + 1]
    BY <1>2, <1>3, <1>7, HeadTailProperties
  <2> QED BY <1>6, <2>1, SeqEqual
<1> QED BY <1>2, <1>3, <1>4, <1>5, <1>6, <1>7, <1>8, <1>9

LEMMA PopOf ==
  ASSUME NEW M, NEW s \in Seq(M), s # <<>>
  PROVE  /\ Head(s) \in M /\ Head(s) = s[1]
         /\ Tail(s) \in Seq(M)
         /\ s = <<Head(s)>> \o Tail(s)
         /\ Len(s) \in Nat /\ Len(s) # 0 /\ DOMAIN s = 1 .. Len(s)
         /\ Len(Tail(s)) = Len(s) - 1 /\ DOMAIN Tail(s) = 1 .. Len(s) - 1
         /\ \A i \in 1 .. Len(s) - 1 : Tail(s)[i] = s[i + 1]
<1>1. Head(s) \in M /\ Tail(s) \in Seq(M) /\ Len(Tail(s)) = Len(s) - 1
      /\ \A i \in 1 .. Len(Tail(s)) : Tail(s)[i] = s[i + 1]
  BY HeadTailProperties
<1>2. Len(s) \in Nat /\ DOMAIN s = 1 .. Len(s) /\ Len(s) # 0
  BY EmptySeq, LenProperties
<1>3. DOMAIN Tail(s) = 1 .. Len(Tail(s))
  BY <1>1, LenProperties
<1>4. Head(s) = s[1]
  BY <1>2
<1>5. s = <<Head(s)>> \o Tail(s)
  <2>1. /\ <<Head(s)>> \o Tail(s) \in Seq(M)
        /\ Len(<<Head(s)>> \o Tail(s)) = Len(s)
        /\ (<<Head(s)>> \o Tail(s))[1] = Head(s)
        /\ \A i \in 1 .. Len(s) - 1 : (<<Head(s)>> \o Tail(s))[i + 1] = Tail(s)[i]
    BY <1>1, <1>2, PushOf
  <2>2. ASSUME NEW i \in 1 .. Len(s)
        PROVE  s[i] = (<<Head(s)>> \o Tail(s))[i]
    <3>1. CASE i = 1
      BY <1>4, <2>1, <3>1
    <3>2. CASE i # 1
      <4>1. i - 1 \in 1 .. Len(s) - 1 /\ (i - 1) + 1 = i
        BY <1>2, <3>2
      <4> QED BY <1>1, <2>1, <4>1
    <3> QED BY <3>1, <3>2
  <2> QED BY <2>1, <2>2, SeqEqual
<1> QED BY <1>1, <1>2, <1>3, <1>4, <1>5

-----------------------------------------------------------------------------
(* What calls and events do to the calls in progress.                       *)

LEMMA WaitingStack ==
  ASSUME NEW s \in Seq(WaitingFrames)
  PROVE  IsStack(s)
<1>1. s \in Seq(Frames)
  BY SeqMonotonic DEF WaitingFrames
<1>2. s # <<>> => Tail(s) \in Seq(WaitingFrames)
  BY PopOf
<1> QED BY <1>1, <1>2 DEF IsStack

LEMMA PushStack ==
  ASSUME NEW s \in Seq(WaitingFrames), NEW f \in Frames
  PROVE  IsStack(<<f>> \o s)
<1>1. s \in Seq(Frames)
  BY SeqMonotonic DEF WaitingFrames
<1>2. <<f>> \o s \in Seq(Frames) /\ Tail(<<f>> \o s) = s
  BY <1>1, PushOf
<1> QED BY <1>2 DEF IsStack

LEMMA PopStack ==
  ASSUME NEW s, IsStack(s), s # <<>>
  PROVE  Head(s) \in Frames /\ Tail(s) \in Seq(WaitingFrames) /\ s = <<Head(s)>> \o Tail(s)
<1> QED BY PopOf DEF IsStack

\* The round that gets an answer goes on to the next expression or the next host
LEMMA ReturnToLaunch ==
  ASSUME NEW s \in Seq(WaitingFrames), s # <<>>, Head(s).kind = "launch", NEW result
  PROVE  /\ Head(s) \in LaunchFrames /\ Head(s).todo # <<>> /\ Tail(s) \in Seq(WaitingFrames)
         /\ \E g \in LaunchFrames :
              /\ Return(result, s) = <<g>> \o Tail(s)
              /\ IF Launched(result)
                   THEN g.todo = Tail(Head(s).todo) /\ g.launched = Head(s).launched + 1
                   ELSE g.todo = Head(s).todo /\ g.launched = Head(s).launched
<1> DEFINE f == Head(s)
           next(todo, hosts, n) == [f EXCEPT !.todo = todo, !.hosts = hosts, !.launched = n]
           g == next(Tail(f.todo), ClusterHosts, f.launched + 1)
           h == [f EXCEPT !.hosts = Tail(@)]
<1>1. f \in WaitingFrames /\ Tail(s) \in Seq(WaitingFrames)
  BY PopOf
<1>2. f \in LaunchFrames /\ f.todo # <<>> /\ f.hosts # <<>>
  BY <1>1 DEF WaitingFrames, Frames, AskFrames, WaitFrames, ReconnectFrames
<1>3. Tail(f.todo) \in Seq(Nat) /\ Tail(f.hosts) \in Seq(Hosts) /\ ClusterHosts \in Seq(Hosts)
  BY <1>2, HeadTailProperties, TolClientAssumption DEF LaunchFrames
<1>4. f.launched + 1 \in Nat
  BY <1>2 DEF LaunchFrames
<1>5. ASSUME NEW todo \in Seq(Nat), NEW hosts \in Seq(Hosts), NEW n \in Nat
      PROVE  LET a == next(todo, hosts, n)
             IN  a \in LaunchFrames /\ a.todo = todo /\ a.launched = n
  BY <1>2 DEF LaunchFrames
<1>6. Return(result, s) = IF Launched(result) THEN <<g>> \o Tail(s) ELSE <<h>> \o Tail(s)
  BY DEF Return
<1> HIDE DEF next
<1>7. g \in LaunchFrames /\ g.todo = Tail(f.todo) /\ g.launched = f.launched + 1
  BY <1>3, <1>4, <1>5
<1>8. h \in LaunchFrames /\ h.todo = f.todo /\ h.launched = f.launched
  BY <1>2, <1>3 DEF LaunchFrames
<1> HIDE DEF g, h
<1> QED BY <1>1, <1>2, <1>6, <1>7, <1>8

LEMMA ReturnStack ==
  ASSUME NEW s \in Seq(WaitingFrames), NEW result
  PROVE  IsStack(Return(result, s))
<1>1. CASE s # <<>> /\ Head(s).kind = "launch"
  <2>1. PICK g \in LaunchFrames : Return(result, s) = <<g>> \o Tail(s)
    BY <1>1, ReturnToLaunch
  <2>2. Tail(s) \in Seq(WaitingFrames) /\ g \in Frames
    BY <1>1, ReturnToLaunch DEF Frames
  <2> QED BY <2>1, <2>2, PushStack
<1>2. CASE ~(s # <<>> /\ Head(s).kind = "launch")
  BY <1>2, WaitingStack DEF Return
<1> QED BY <1>1, <1>2

LEMMA ThrowStack ==
  ASSUME NEW s \in Seq(WaitingFrames)
  PROVE  Throw(s) \in Seq(WaitingFrames) /\ IsStack(Throw(s))
<1>1. s \in Seq(WaitingFrames) /\ (s # <<>> => Tail(s) \in Seq(WaitingFrames))
  BY PopOf
<1>2. Throw(s) \in Seq(WaitingFrames)
  BY <1>1 DEF Throw
<1> QED BY <1>2, WaitingStack

\* A change of frames one by one
LEMMA EachFrame ==
  ASSUME NEW s, NEW t, IsStack(s), t = [i \in DOMAIN s |-> t[i]],
         \A i \in DOMAIN s : s[i] \in Frames => t[i] \in Frames,
         \A i \in DOMAIN s : s[i] \in WaitingFrames => t[i] \in WaitingFrames
  PROVE  IsStack(t)
<1>1. s \in Seq(Frames) /\ Len(s) \in Nat /\ DOMAIN s = 1 .. Len(s)
  BY LenProperties DEF IsStack
<1>2. \A i \in 1 .. Len(s) : s[i] \in Frames
  BY <1>1, ElementOfSeq
<1>3. t \in [1 .. Len(s) -> Frames]
  BY <1>1, <1>2
<1>4. t \in Seq(Frames) /\ Len(t) = Len(s)
  BY <1>1, <1>3
<1>5. ASSUME t # <<>>
      PROVE  Tail(t) \in Seq(WaitingFrames)
  <2>1. s # <<>>
    BY <1>1, <1>4, <1>5
  <2>2. /\ Tail(s) \in Seq(WaitingFrames) /\ Len(Tail(s)) = Len(s) - 1
        /\ \A i \in 1 .. Len(s) - 1 : Tail(s)[i] = s[i + 1]
    BY <1>1, <2>1, PopOf DEF IsStack
  <2>3. /\ Tail(t) \in Seq(Frames) /\ Len(Tail(t)) = Len(s) - 1
        /\ \A i \in 1 .. Len(s) - 1 : Tail(t)[i] = t[i + 1]
    BY <1>4, <1>5, PopOf
  <2>4. ASSUME NEW i \in 1 .. Len(s) - 1
        PROVE  Tail(t)[i] \in WaitingFrames
    <3>1. s[i + 1] \in WaitingFrames
      BY <2>2, ElementOfSeq
    <3>2. i + 1 \in DOMAIN s
      BY <1>1
    <3>3. Tail(t)[i] = t[i + 1]
      BY <2>3
    <3> QED BY <3>1, <3>2, <3>3
  <2>5. Len(s) - 1 \in Nat
    BY <1>1, <2>1, EmptySeq
  <2>6. Tail(t) \in [1 .. Len(s) - 1 -> WaitingFrames]
    BY <2>3, <2>4, LenProperties
  <2>7. \A r \in [1 .. Len(s) - 1 -> WaitingFrames] : r \in Seq(WaitingFrames)
    BY <2>5
  <2> QED BY <2>6, <2>7
<1> QED BY <1>4, <1>5 DEF IsStack

LEMMA AnsweredStack ==
  ASSUME IsStack(stack), NEW ids, NEW value \in Answers
  PROVE  IsStack(Answered(ids, value))
<1> DEFINE F(f) == IF f.kind = "ask" /\ f.id \in ids THEN [f EXCEPT !.answer = value] ELSE f
<1>1. \A f \in Frames : F(f) \in Frames
  <2> SUFFICES ASSUME NEW f \in Frames, f.kind = "ask" PROVE [f EXCEPT !.answer = value] \in Frames
    OBVIOUS
  <2>1. f \in AskFrames
    BY DEF Frames, WaitFrames, ReconnectFrames, LaunchFrames
  <2> QED BY <2>1 DEF Frames, AskFrames
<1>2. \A f \in WaitingFrames : F(f) \in WaitingFrames
  <2> SUFFICES ASSUME NEW f \in WaitingFrames PROVE F(f) \in WaitingFrames
    OBVIOUS
  <2>1. F(f) \in Frames
    BY <1>1 DEF WaitingFrames
  <2>2. CASE f.kind = "ask"
    <3>1. f \in AskFrames
      BY <2>2 DEF Frames, WaitFrames, ReconnectFrames, LaunchFrames, WaitingFrames
    <3>2. F(f).kind = "ask"
      BY <2>2, <3>1 DEF AskFrames
    <3> QED BY <2>1, <3>2 DEF WaitingFrames
  <2>3. CASE f.kind # "ask"
    BY <2>3
  <2> QED BY <2>2, <2>3
<1> HIDE DEF F
<1> DEFINE t == Answered(ids, value)
<1>3. t = [i \in DOMAIN stack |-> F(stack[i])]
  BY DEF Answered, F
<1> HIDE DEF t
<1>4. \A i \in DOMAIN stack : t[i] = F(stack[i])
  BY <1>3
<1>5. t = [i \in DOMAIN stack |-> t[i]]
  BY <1>3
<1>6. IsStack(t)
  BY <1>1, <1>2, <1>4, <1>5, EachFrame
<1> QED BY <1>6 DEF t

LEMMA WokenStack ==
  ASSUME IsStack(stack)
  PROVE  IsStack(Woken)
<1> DEFINE F(f) == IF f.kind = "wait" THEN [f EXCEPT !.woken = TRUE] ELSE f
<1>1. \A f \in Frames : F(f) \in Frames
  <2> SUFFICES ASSUME NEW f \in Frames, f.kind = "wait" PROVE [f EXCEPT !.woken = TRUE] \in Frames
    OBVIOUS
  <2>1. f \in WaitFrames
    BY DEF Frames, AskFrames, ReconnectFrames, LaunchFrames
  <2> QED BY <2>1 DEF Frames, WaitFrames
<1>2. \A f \in WaitingFrames : F(f) \in WaitingFrames
  <2> SUFFICES ASSUME NEW f \in WaitingFrames PROVE F(f) \in WaitingFrames
    OBVIOUS
  <2>1. F(f) \in Frames
    BY <1>1 DEF WaitingFrames
  <2>2. CASE f.kind = "wait"
    <3>1. f \in WaitFrames
      BY <2>2 DEF Frames, AskFrames, ReconnectFrames, LaunchFrames, WaitingFrames
    <3>2. F(f).kind = "wait"
      BY <2>2, <3>1 DEF WaitFrames
    <3> QED BY <2>1, <3>2 DEF WaitingFrames
  <2>3. CASE f.kind # "wait"
    BY <2>3
  <2> QED BY <2>2, <2>3
<1> HIDE DEF F
<1> DEFINE t == Woken
<1>3. t = [i \in DOMAIN stack |-> F(stack[i])]
  BY DEF Woken, F
<1> HIDE DEF t
<1>4. \A i \in DOMAIN stack : t[i] = F(stack[i])
  BY <1>3
<1>5. t = [i \in DOMAIN stack |-> t[i]]
  BY <1>3
<1>6. IsStack(t)
  BY <1>1, <1>2, <1>4, <1>5, EachFrame
<1> QED BY <1>6 DEF t

-----------------------------------------------------------------------------
(* The requests that wait for their answer.                                 *)

Own(f) == IF f.kind = "ask" /\ f.answer = None THEN {f.id} ELSE {}

Waiters(s) == {s[i].id : i \in {j \in DOMAIN s : s[j].kind = "ask" /\ s[j].answer = None}}

LEMMA WaitersOwn ==
  ASSUME NEW s
  PROVE  /\ \A i \in DOMAIN s : Own(s[i]) \subseteq Waiters(s)
         /\ \A x \in Waiters(s) : \E i \in DOMAIN s : x \in Own(s[i])
<1> QED BY DEF Waiters, Own

LEMMA WaitersPush ==
  ASSUME NEW M, NEW s \in Seq(M), NEW f \in M
  PROVE  Waiters(<<f>> \o s) = Own(f) \cup Waiters(s)
<1> DEFINE t == <<f>> \o s
<1>1. /\ Len(s) \in Nat /\ DOMAIN s = 1 .. Len(s) /\ DOMAIN t = 1 .. Len(s) + 1
      /\ t[1] = f /\ \A i \in 1 .. Len(s) : t[i + 1] = s[i]
  BY PushOf
<1> HIDE DEF t
<1>2. 1 \in DOMAIN t /\ \A i \in DOMAIN s : i + 1 \in DOMAIN t
  BY <1>1
<1>3. ASSUME NEW i \in DOMAIN t
      PROVE  i = 1 \/ (i - 1 \in DOMAIN s /\ t[i] = s[i - 1])
  <2>1. CASE i # 1
    <3>1. i - 1 \in 1 .. Len(s) /\ (i - 1) + 1 = i
      BY <1>1, <2>1
    <3> QED BY <1>1, <3>1
  <2> QED BY <2>1
<1>4. Waiters(t) \subseteq Own(f) \cup Waiters(s)
  <2> SUFFICES ASSUME NEW i \in DOMAIN t, NEW x \in Own(t[i])
               PROVE  x \in Own(f) \cup Waiters(s)
    BY WaitersOwn
  <2> QED BY <1>1, <1>3, WaitersOwn, Zenon
<1>5. Own(f) \subseteq Waiters(t)
  BY <1>1, <1>2, WaitersOwn, Zenon
<1>6. Waiters(s) \subseteq Waiters(t)
  <2> SUFFICES ASSUME NEW i \in DOMAIN s, NEW x \in Own(s[i])
               PROVE  x \in Waiters(t)
    BY WaitersOwn
  <2> QED BY <1>1, <1>2, WaitersOwn, Zenon
<1> QED BY <1>4, <1>5, <1>6 DEF t

LEMMA WaitersPop ==
  ASSUME NEW s, IsStack(s), s # <<>>
  PROVE  Waiters(s) = Own(Head(s)) \cup Waiters(Tail(s))
<1>1. Head(s) \in Frames /\ Tail(s) \in Seq(Frames) /\ s = <<Head(s)>> \o Tail(s)
  BY PopOf DEF IsStack
<1>2. Waiters(<<Head(s)>> \o Tail(s)) = Own(Head(s)) \cup Waiters(Tail(s))
  BY <1>1, WaitersPush
<1> QED BY <1>1, <1>2

LEMMA WaitersEmpty == Waiters(<<>>) = {}
<1> QED BY DEF Waiters

LEMMA WaitersReturn ==
  ASSUME NEW s \in Seq(WaitingFrames), NEW result
  PROVE  Waiters(Return(result, s)) = Waiters(s)
<1> SUFFICES ASSUME s # <<>>, Head(s).kind = "launch" PROVE Waiters(Return(result, s)) = Waiters(s)
  BY DEF Return
<1>1. s = <<Head(s)>> \o Tail(s)
  BY PopOf
<1>2. PICK g \in LaunchFrames : Return(result, s) = <<g>> \o Tail(s)
  BY ReturnToLaunch
<1>3. Head(s) \in LaunchFrames /\ Tail(s) \in Seq(WaitingFrames)
  BY ReturnToLaunch
<1>4. Tail(s) \in Seq(Frames) /\ Head(s) \in Frames /\ g \in Frames
  BY <1>3, SeqMonotonic DEF WaitingFrames, Frames
<1>5. Own(Head(s)) = {} /\ Own(g) = {}
  BY <1>3 DEF Own, LaunchFrames
<1>6. Waiters(<<Head(s)>> \o Tail(s)) = Waiters(Tail(s)) /\ Waiters(<<g>> \o Tail(s)) = Waiters(Tail(s))
  BY <1>4, <1>5, WaitersPush
<1> QED BY <1>1, <1>2, <1>6

LEMMA WaitersThrow ==
  ASSUME NEW s \in Seq(WaitingFrames)
  PROVE  Waiters(Throw(s)) = Waiters(s)
<1> SUFFICES ASSUME s # <<>>, Head(s).kind \in {"launch", "reconnect"}
             PROVE  Waiters(Tail(s)) = Waiters(s)
  BY DEF Throw
<1>1. IsStack(s)
  BY WaitingStack
<1>2. Own(Head(s)) = {}
  BY DEF Own
<1> QED BY <1>1, <1>2, WaitersPop

\* An answer ends the wait of those it is for, and a task's end that of none
LEMMA WaitersAnswered ==
  ASSUME IsStack(stack), NEW ids, NEW value \in Answers
  PROVE  Waiters(Answered(ids, value)) = Waiters(stack) \ ids
<1> DEFINE t == Answered(ids, value)
<1>1. /\ DOMAIN t = DOMAIN stack
      /\ \A i \in DOMAIN stack : t[i] = IF stack[i].kind = "ask" /\ stack[i].id \in ids
                                          THEN [stack[i] EXCEPT !.answer = value] ELSE stack[i]
  BY DEF Answered
<1> HIDE DEF t
<1>2. ASSUME NEW i \in DOMAIN stack
      PROVE  Own(t[i]) = Own(stack[i]) \ ids
  <2>1. CASE stack[i].kind = "ask" /\ stack[i].id \in ids
    <3>1. stack[i] \in Frames
      BY ElementOfSeq, LenProperties DEF IsStack
    <3>2. stack[i] \in AskFrames
      BY <2>1, <3>1 DEF Frames, WaitFrames, ReconnectFrames, LaunchFrames
    <3>3. value # None
      BY TolClientAssumption DEF Answers
    <3>4. t[i] = [stack[i] EXCEPT !.answer = value]
      BY <1>1, <2>1
    <3>5. t[i].answer = value
      BY <3>2, <3>4 DEF AskFrames
    <3>6. Own(t[i]) = {}
      BY <3>3, <3>5 DEF Own
    <3> QED BY <2>1, <3>6 DEF Own
  <2>2. CASE ~(stack[i].kind = "ask" /\ stack[i].id \in ids)
    <3>1. t[i] = stack[i]
      BY <1>1, <2>2
    <3> QED BY <2>2, <3>1 DEF Own
  <2> QED BY <2>1, <2>2
<1>3. DOMAIN t = DOMAIN stack
  BY <1>1
<1>4. ASSUME NEW x \in Waiters(t) PROVE x \in Waiters(stack) \ ids
  BY <1>2, <1>3, WaitersOwn
<1>5. ASSUME NEW x \in Waiters(stack), x \notin ids PROVE x \in Waiters(t)
  <2>1. PICK i \in DOMAIN stack : x \in Own(stack[i])
    BY WaitersOwn
  <2>2. x \in Own(t[i])
    BY <1>2, <1>5, <2>1
  <2> QED BY <1>3, <2>2, WaitersOwn
<1> QED BY <1>4, <1>5 DEF t

LEMMA WaitersWoken ==
  ASSUME IsStack(stack)
  PROVE  Waiters(Woken) = Waiters(stack)
<1> DEFINE t == Woken
<1>1. /\ DOMAIN t = DOMAIN stack
      /\ \A i \in DOMAIN stack : t[i] = IF stack[i].kind = "wait"
                                          THEN [stack[i] EXCEPT !.woken = TRUE] ELSE stack[i]
  BY DEF Woken
<1> HIDE DEF t
<1>2. ASSUME NEW i \in DOMAIN stack
      PROVE  Own(t[i]) = Own(stack[i])
  <2>1. CASE stack[i].kind = "wait"
    <3>1. stack[i] \in Frames
      BY ElementOfSeq, LenProperties DEF IsStack
    <3>2. stack[i] \in WaitFrames
      BY <2>1, <3>1 DEF Frames, AskFrames, ReconnectFrames, LaunchFrames
    <3>3. t[i].kind = "wait"
      BY <1>1, <2>1, <3>2 DEF WaitFrames
    <3> QED BY <2>1, <3>3 DEF Own
  <2>2. CASE stack[i].kind # "wait"
    BY <1>1, <2>2
  <2> QED BY <2>1, <2>2
<1>3. DOMAIN t = DOMAIN stack
  BY <1>1
<1>4. ASSUME NEW x \in Waiters(t) PROVE x \in Waiters(stack)
  BY <1>2, <1>3, WaitersOwn
<1>5. ASSUME NEW x \in Waiters(stack) PROVE x \in Waiters(t)
  BY <1>2, <1>3, WaitersOwn
<1> QED BY <1>4, <1>5 DEF t

-----------------------------------------------------------------------------
(* The types, and the waits, of every step.                                 *)

(* An id has a timeout as long as an ask_server waits for its answer. *)
WaitInv == TypeInv /\ timers = Waiters(stack)

\* What a request does, what a request that is refused does, and what one does that
\* cannot be written
Sent(h, tag, e, callers) ==
  \E c \in Chans :
    /\ c \in opened' /\ opened' = opened \cup {c}
    /\ chanOf' \in [Hosts -> Chans \cup {None}]
    /\ peer' \in [Chans -> Hosts \cup {None}] /\ hostOf' = [hostOf EXCEPT ![c] = h]
    /\ \A d \in opened' : peer'[d] # None
    /\ asking' \in [Chans -> SUBSET Nat]
    /\ counter' = counter + 1
    /\ requests' = [requests EXCEPT ![c] = Append(@, [tag |-> tag, id |-> NewId, expr |-> e])]
    /\ timers' = timers \cup {NewId}
    /\ AskFrame(NewId, c) \in Frames
    /\ stack' = <<AskFrame(NewId, c)>> \o callers
    /\ UNCHANGED losses

Refused(callers) ==
  /\ losses' = losses + 1
  /\ \E result : stack' = Return(result, callers)
  /\ UNCHANGED <<opened, chanOf, hostOf, asking, counter, timers, requests, peer>>

Failed(h, callers) ==
  \E c \in opened :
    /\ losses' = losses + 1
    /\ hostOf' = [hostOf EXCEPT ![c] = h]
    /\ asking' \in [Chans -> SUBSET Nat]
    /\ counter' = counter + 1
    /\ stack' = Throw(callers)
    /\ UNCHANGED <<opened, chanOf, requests, timers, peer>>

LEMMA AskCases ==
  ASSUME TypeInv, NEW h \in Hosts, NEW tag, NEW e, NEW callers, Ask(h, tag, e, callers)
  PROVE  /\ Sent(h, tag, e, callers) \/ Refused(callers) \/ Failed(h, callers)
         /\ UNCHANGED <<chanTasks, taskVars, clusterVars, lines, running, accepted, early>>
<1>1. NewId \in Nat /\ NewId = counter + 1
  BY DEF TypeInv, NewId
<1>2. \A c \in Chans : AskFrame(NewId, c) \in Frames
  BY <1>1 DEF AskFrame, Frames, AskFrames
<1> DEFINE m == [tag |-> tag, id |-> NewId, expr |-> e]
           Asked(c) ==
             /\ hostOf' = [hostOf EXCEPT ![c] = h] /\ counter' = counter + 1
             /\ requests' = [requests EXCEPT ![c] = Append(@, m)]
             /\ timers' = timers \cup {NewId}
             /\ stack' = <<AskFrame(NewId, c)>> \o callers
<1>0. \/ /\ chanOf[h] \in opened /\ asking' = [asking EXCEPT ![chanOf[h]] = @ \cup {NewId}]
         /\ Asked(chanOf[h]) /\ UNCHANGED <<opened, chanOf, peer, losses>>
      \/ /\ chanOf[h] \in opened /\ losses' = losses + 1
         /\ asking' = [asking EXCEPT ![chanOf[h]] = @ \cup {NewId}]
         /\ hostOf' = [hostOf EXCEPT ![chanOf[h]] = h] /\ counter' = counter + 1
         /\ stack' = Throw(callers) /\ UNCHANGED <<opened, chanOf, requests, timers, peer>>
      \/ \E c \in Chans \ opened :
           /\ opened' = opened \cup {c} /\ chanOf' = [chanOf EXCEPT ![h] = c]
           /\ peer' = [peer EXCEPT ![c] = h] /\ asking' = [asking EXCEPT ![c] = {NewId}]
           /\ Asked(c) /\ UNCHANGED losses
      \/ /\ losses' = losses + 1 /\ \E result : stack' = Return(result, callers)
         /\ UNCHANGED <<opened, chanOf, hostOf, asking, counter, timers, requests, peer>>
  BY Zenon DEF Ask
<1>3. ASSUME /\ chanOf[h] \in opened /\ asking' = [asking EXCEPT ![chanOf[h]] = @ \cup {NewId}]
             /\ Asked(chanOf[h]) /\ UNCHANGED <<opened, chanOf, peer, losses>>
      PROVE  Sent(h, tag, e, callers)
  <2> DEFINE c == chanOf[h]
  <2>1. /\ c \in Chans /\ c \in opened
        /\ asking' = [asking EXCEPT ![c] = @ \cup {NewId}]
        /\ hostOf' = [hostOf EXCEPT ![c] = h]
        /\ counter' = counter + 1
        /\ requests' = [requests EXCEPT ![c] = Append(@, [tag |-> tag, id |-> NewId, expr |-> e])]
        /\ timers' = timers \cup {NewId}
        /\ stack' = <<AskFrame(NewId, c)>> \o callers
    BY <1>1, <1>3 DEF TypeInv
  <2>2. asking' \in [Chans -> SUBSET Nat]
    BY <1>1, <2>1 DEF TypeInv
  <2>3. /\ opened' = opened \cup {c} /\ UNCHANGED losses
        /\ chanOf' \in [Hosts -> Chans \cup {None}]
        /\ peer' \in [Chans -> Hosts \cup {None}]
        /\ \A d \in opened' : peer'[d] # None
    BY <1>3, <2>1 DEF TypeInv
  <2> QED BY <1>2, <2>1, <2>2, <2>3 DEF Sent
<1>4. ASSUME NEW c \in Chans \ opened,
             /\ opened' = opened \cup {c} /\ chanOf' = [chanOf EXCEPT ![h] = c]
             /\ peer' = [peer EXCEPT ![c] = h] /\ asking' = [asking EXCEPT ![c] = {NewId}]
             /\ Asked(c) /\ UNCHANGED losses
      PROVE  Sent(h, tag, e, callers)
  <2>1. asking' \in [Chans -> SUBSET Nat]
    BY <1>1, <1>4 DEF TypeInv
  <2>2. /\ chanOf' \in [Hosts -> Chans \cup {None}]
        /\ peer' \in [Chans -> Hosts \cup {None}]
        /\ \A d \in opened' : peer'[d] # None
    BY <1>4, TolClientAssumption DEF TypeInv
  <2> QED BY <1>2, <1>4, <2>1, <2>2 DEF Sent
<1>5. ASSUME /\ losses' = losses + 1 /\ \E result : stack' = Return(result, callers)
             /\ UNCHANGED <<opened, chanOf, hostOf, asking, counter, timers, requests, peer>>
      PROVE  Refused(callers)
  BY <1>5 DEF Refused
<1>6. ASSUME /\ chanOf[h] \in opened /\ losses' = losses + 1
             /\ asking' = [asking EXCEPT ![chanOf[h]] = @ \cup {NewId}]
             /\ hostOf' = [hostOf EXCEPT ![chanOf[h]] = h] /\ counter' = counter + 1
             /\ stack' = Throw(callers) /\ UNCHANGED <<opened, chanOf, requests, timers, peer>>
      PROVE  Failed(h, callers)
  <2>1. asking' \in [Chans -> SUBSET Nat]
    BY <1>1, <1>6 DEF TypeInv
  <2> QED BY <1>6, <2>1 DEF Failed
<1>7. UNCHANGED <<chanTasks, taskVars, clusterVars, lines, running, accepted, early>>
  BY Zenon DEF Ask
<1> HIDE DEF Asked
<1>8. Sent(h, tag, e, callers) \/ Refused(callers) \/ Failed(h, callers)
  BY <1>0, <1>3, <1>4, <1>5, <1>6, Zenon
<1> QED BY <1>7, <1>8

LEMMA AskKeepsInv ==
  ASSUME WaitInv, NEW h \in Hosts, NEW tag \in {"PING", "TOLEVAL", "RECONN"}, NEW e \in Nat \cup {None},
         NEW callers \in Seq(WaitingFrames), Waiters(callers) = Waiters(stack),
         Ask(h, tag, e, callers), idle' \in Seq(CallBacks), exprs' \in Nat
  PROVE  WaitInv'
<1>1. Sent(h, tag, e, callers) \/ Refused(callers) \/ Failed(h, callers)
  BY AskCases DEF WaitInv
<1>2. UNCHANGED <<chanTasks, global, lastTask, queue, busy, launching, lines, running, early>>
  BY AskCases DEF WaitInv, taskVars, clusterVars
<1>3. CASE Sent(h, tag, e, callers)
  <2> PICK c \in Chans :
    /\ c \in opened' /\ opened' = opened \cup {c}
    /\ chanOf' \in [Hosts -> Chans \cup {None}]
    /\ peer' \in [Chans -> Hosts \cup {None}] /\ hostOf' = [hostOf EXCEPT ![c] = h]
    /\ \A d \in opened' : peer'[d] # None
    /\ asking' \in [Chans -> SUBSET Nat]
    /\ counter' = counter + 1
    /\ requests' = [requests EXCEPT ![c] = Append(@, [tag |-> tag, id |-> NewId, expr |-> e])]
    /\ timers' = timers \cup {NewId}
    /\ AskFrame(NewId, c) \in Frames
    /\ stack' = <<AskFrame(NewId, c)>> \o callers
    /\ UNCHANGED losses
    BY <1>3 DEF Sent
  <2>1. NewId \in Nat /\ counter' \in Nat /\ timers' \in SUBSET Nat
    BY DEF WaitInv, TypeInv, NewId
  <2>2. IsStack(stack')
    BY PushStack
  <2>3. Own(AskFrame(NewId, c)) = {NewId}
    BY DEF Own, AskFrame
  <2>4. Waiters(stack') = {NewId} \cup Waiters(callers)
    <3>1. callers \in Seq(Frames)
      BY WaitingStack DEF IsStack
    <3> QED BY <2>3, <3>1, WaitersPush
  <2>5. requests' \in [Chans -> Seq(Requests)]
    <3>1. [tag |-> tag, id |-> NewId, expr |-> e] \in Requests
      BY <2>1 DEF Requests
    <3>2. Append(requests[c], [tag |-> tag, id |-> NewId, expr |-> e]) \in Seq(Requests)
      BY <3>1, AppendProperties DEF WaitInv, TypeInv
    <3> QED BY <3>2 DEF WaitInv, TypeInv
  <2>6. hostOf' \in [Chans -> Hosts \cup {None}] /\ hostOf'[c] # None
    BY TolClientAssumption DEF WaitInv, TypeInv
  <2>7. opened' \in SUBSET {d \in Chans : hostOf'[d] # None /\ peer'[d] # None}
    BY <2>6 DEF WaitInv, TypeInv
  <2> QED BY <1>2, <2>1, <2>2, <2>4, <2>5, <2>6, <2>7 DEF WaitInv, TypeInv
<1>4. CASE Refused(callers)
  <2>1. IsStack(stack') /\ Waiters(stack') = Waiters(callers)
    BY <1>4, ReturnStack, WaitersReturn DEF Refused
  <2>2. UNCHANGED <<opened, chanOf, hostOf, asking, counter, timers, requests, peer>>
    BY <1>4 DEF Refused
  <2>4. losses' = losses + 1
    BY <1>4 DEF Refused
  <2>5. losses' \in Nat
    BY <2>4 DEF WaitInv, TypeInv
  <2>3. opened' \in SUBSET {c \in Chans : hostOf'[c] # None /\ peer'[c] # None}
    BY <2>2 DEF WaitInv, TypeInv
  <2> QED BY <1>2, <2>1, <2>2, <2>3, <2>5 DEF WaitInv, TypeInv
<1>5. CASE Failed(h, callers)
  <2>1. IsStack(stack') /\ Waiters(stack') = Waiters(callers)
    BY <1>5, ThrowStack, WaitersThrow DEF Failed
  <2>2. PICK c \in opened :
          /\ hostOf' = [hostOf EXCEPT ![c] = h]
          /\ UNCHANGED <<opened, chanOf, requests, timers, peer>>
    BY <1>5 DEF Failed
  <2>3. asking' \in [Chans -> SUBSET Nat] /\ counter' = counter + 1 /\ losses' = losses + 1
    BY <1>5 DEF Failed
  <2>6. counter' \in Nat /\ losses' \in Nat
    BY <2>3 DEF WaitInv, TypeInv
  <2>4. hostOf' \in [Chans -> Hosts \cup {None}] /\ hostOf'[c] # None
    BY <2>2, TolClientAssumption DEF WaitInv, TypeInv
  <2>5. opened' \in SUBSET {d \in Chans : hostOf'[d] # None /\ peer'[d] # None}
    BY <2>2, <2>4 DEF WaitInv, TypeInv
  <2> QED BY <1>2, <2>1, <2>2, <2>3, <2>4, <2>5, <2>6 DEF WaitInv, TypeInv
<1> QED BY <1>1, <1>3, <1>4, <1>5

LEMMA HeadFrame ==
  ASSUME IsStack(stack), stack # <<>>
  PROVE  /\ Head(stack).kind = "ask" => Head(stack) \in AskFrames
         /\ Head(stack).kind = "wait" => Head(stack) \in WaitFrames
         /\ Head(stack).kind = "reconnect" => Head(stack) \in ReconnectFrames
         /\ Head(stack).kind = "launch" => Head(stack) \in LaunchFrames
<1>1. Head(stack) \in Frames
  BY PopStack
<1> QED BY <1>1 DEF Frames, AskFrames, WaitFrames, ReconnectFrames, LaunchFrames

LEMMA InnermostWaiting ==
  ASSUME IsStack(stack), stack # <<>> => Head(stack) \in WaitingFrames
  PROVE  stack \in Seq(WaitingFrames)
<1>1. CASE stack = <<>>
  BY <1>1, EmptySeq
<1>2. CASE stack # <<>>
  <2>1. Tail(stack) \in Seq(WaitingFrames) /\ stack = <<Head(stack)>> \o Tail(stack)
    BY <1>2, PopStack
  <2>2. <<Head(stack)>> \o Tail(stack) \in Seq(WaitingFrames)
    BY <1>2, <2>1, PushOf
  <2> QED BY <2>1, <2>2
<1> QED BY <1>1, <1>2

\* Callbacks and events run on top of a call that waits, if any
LEMMA EventLoopStack ==
  ASSUME IsStack(stack), InEventLoop
  PROVE  stack \in Seq(WaitingFrames)
<1>1. ASSUME stack # <<>> PROVE Head(stack) \in WaitingFrames
  <2>1. Head(stack) \in Frames /\ Head(stack).kind \in {"ask", "wait"}
    BY <1>1, PopStack DEF InEventLoop, Waits
  <2> QED BY <2>1 DEF WaitingFrames
<1> QED BY <1>1, InnermostWaiting

\* The frame that replaces, or goes over, the others
LEMMA OwnsNothing ==
  ASSUME NEW s \in Seq(WaitingFrames), NEW f \in Frames, f.kind # "ask"
  PROVE  IsStack(<<f>> \o s) /\ Waiters(<<f>> \o s) = Waiters(s)
<1>1. s \in Seq(Frames)
  BY WaitingStack DEF IsStack
<1>2. Own(f) = {}
  BY DEF Own
<1> QED BY <1>1, <1>2, PushStack, WaitersPush

LEMMA PopOwnsNothing ==
  ASSUME IsStack(stack), stack # <<>>, Own(Head(stack)) = {}
  PROVE  /\ Tail(stack) \in Seq(WaitingFrames) /\ IsStack(Tail(stack))
         /\ Waiters(Tail(stack)) = Waiters(stack)
<1> QED BY PopStack, WaitersPop, WaitingStack

LEMMA UsersKeepWaitInv ==
  ASSUME WaitInv, Users
  PROVE  WaitInv'
<1>1. ASSUME NEW h \in Hosts, NEW tag \in {"PING", "TOLEVAL"}, UserAsks(h, tag)
      PROVE  WaitInv'
  <2>1. stack = <<>> /\ <<>> \in Seq(WaitingFrames)
    BY <1>1, EmptySeq DEF UserAsks
  <2>2. /\ Waiters(<<>>) = Waiters(stack) /\ Ask(h, tag, None, <<>>)
        /\ idle' \in Seq(CallBacks) /\ exprs' \in Nat
    BY <1>1, <2>1 DEF UserAsks, WaitInv, TypeInv
  <2> QED BY <2>1, <2>2, AskKeepsInv
<1>2. ASSUME NEW tasks \in SUBSET (1 .. counter), ServerWait(tasks)
      PROVE  WaitInv'
  <2> DEFINE f == WaitFrame(Awaited(tasks))
  <2>1. f \in Frames /\ f.kind # "ask"
    BY DEF WaitFrame, Awaited, Frames, WaitFrames, WaitInv, TypeInv
  <2>2. stack = <<>> /\ <<>> \in Seq(WaitingFrames)
    BY <1>2, EmptySeq DEF ServerWait
  <2> HIDE DEF f
  <2>3. <<f>> = <<f>> \o <<>>
    BY <2>1, ConcatEmptySeq
  <2>4. IsStack(<<f>>) /\ Waiters(<<f>>) = Waiters(stack)
    BY <2>1, <2>2, <2>3, OwnsNothing
  <2>5. stack' = <<f>>
    BY <1>2 DEF ServerWait, f
  <2>6. IsStack(stack') /\ Waiters(stack') = Waiters(stack)
    BY <2>4, <2>5
  <2> QED BY <1>2, <2>6 DEF ServerWait, WaitInv, TypeInv, channelVars, taskVars, clusterVars,
                            serverVars, usage
<1>3. ASSUME NEW n \in 1 .. MaxExprs, ClusterEval(n)
      PROVE  WaitInv'
  <2> DEFINE more == [i \in 1 .. n |-> exprs + i]
             f == [LaunchFrame EXCEPT !.todo = queue \o more]
  <2>1. n \in Nat /\ \A i \in 1 .. n : exprs + i \in Nat
    BY TolClientAssumption DEF WaitInv, TypeInv
  <2>2. more \in Seq(Nat)
    BY <2>1
  <2>3. queue \o more \in Seq(Nat)
    BY <2>2, ConcatProperties DEF WaitInv, TypeInv
  <2>4. f \in Frames /\ f.kind # "ask"
    BY <2>3, TolClientAssumption DEF LaunchFrame, Frames, LaunchFrames
  <2>5. stack = <<>> /\ <<>> \in Seq(WaitingFrames)
    BY <1>3, EmptySeq DEF ClusterEval
  <2>6. stack' = IF launching THEN stack ELSE <<f>>
    BY <1>3 DEF ClusterEval
  <2>7. queue' \in Seq(Nat) /\ launching' \in BOOLEAN /\ exprs' \in Nat
    BY <1>3, <2>1, <2>3 DEF ClusterEval, WaitInv, TypeInv
  <2> HIDE DEF f
  <2>8. <<f>> = <<f>> \o <<>>
    BY <2>4, ConcatEmptySeq
  <2>9. IsStack(stack') /\ Waiters(stack') = Waiters(stack)
    BY <2>4, <2>5, <2>6, <2>8, OwnsNothing, WaitingStack
  <2> QED BY <1>3, <2>7, <2>9 DEF ClusterEval, WaitInv, TypeInv, channelVars, taskVars, serverVars
<1> QED BY <1>1, <1>2, <1>3 DEF Users

LEMMA CallsKeepWaitInv ==
  ASSUME WaitInv, Calls
  PROVE  WaitInv'
<1> DEFINE f == Head(stack)
<1> USE DEF WaitInv
<1>0. IsStack(stack)
  BY DEF TypeInv
<1>1. CASE AskReturns
  <2>1. stack # <<>> /\ f \in AskFrames /\ f.answer # None
    BY <1>0, <1>1, HeadFrame DEF AskReturns, Innermost, InEventLoop, Waits
  <2>2. Tail(stack) \in Seq(WaitingFrames) /\ Waiters(Tail(stack)) = Waiters(stack)
    BY <1>0, <2>1, PopOwnsNothing DEF Own
  <2>3. stack' = Throw(Tail(stack)) \/ stack' = Return(f.answer, Tail(stack))
    BY <1>1 DEF AskReturns
  <2>4. IsStack(stack') /\ Waiters(stack') = Waiters(stack)
    <3>1. IsStack(Throw(Tail(stack))) /\ Waiters(Throw(Tail(stack))) = Waiters(stack)
      BY <2>2, ThrowStack, WaitersThrow
    <3>2. /\ IsStack(Return(f.answer, Tail(stack)))
          /\ Waiters(Return(f.answer, Tail(stack))) = Waiters(stack)
      BY <2>2, ReturnStack, WaitersReturn
    <3> QED BY <2>3, <3>1, <3>2
  <2>5. asking' \in [Chans -> SUBSET Nat]
    <3>1. asking' = asking \/ asking' = [asking EXCEPT ![f.chan] = @ \ {f.id}]
      BY <1>1 DEF AskReturns
    <3>2. f.chan \in Chans
      BY <2>1 DEF AskFrames
    <3>3. CASE asking' = asking
      BY <3>3 DEF TypeInv
    <3>4. CASE asking' = [asking EXCEPT ![f.chan] = @ \ {f.id}]
      <4>1. asking[f.chan] \ {f.id} \in SUBSET Nat
        BY <3>2 DEF TypeInv
      <4> QED BY <3>4, <4>1 DEF TypeInv
    <3> QED BY <3>1, <3>3, <3>4
  <2> QED BY <1>1, <2>4, <2>5 DEF AskReturns, TypeInv, taskVars, clusterVars, serverVars, usage
<1>2. CASE WaitGoesOn
  <2> DEFINE left == f.waiting \ {lastTask}
  <2>1. stack # <<>> /\ f \in WaitFrames
    BY <1>0, <1>2, HeadFrame DEF WaitGoesOn, Innermost
  <2>2. /\ Tail(stack) \in Seq(WaitingFrames) /\ IsStack(Tail(stack))
        /\ Waiters(Tail(stack)) = Waiters(stack)
    BY <1>0, <2>1, PopOwnsNothing DEF Own, WaitFrames
  <2>3. WaitFrame(left) \in Frames /\ WaitFrame(left).kind # "ask"
    BY <2>1 DEF WaitFrame, WaitFrames, Frames
  <2>4. stack' = Tail(stack) \/ stack' = <<WaitFrame(left)>> \o Tail(stack)
    BY <1>2 DEF WaitGoesOn
  <2>5. IsStack(stack') /\ Waiters(stack') = Waiters(stack)
    BY <2>2, <2>3, <2>4, OwnsNothing
  <2> QED BY <1>2, <2>5 DEF WaitGoesOn, TypeInv, channelVars, taskVars, clusterVars, serverVars, usage
<1>3. CASE Reconnect
  <2>1. stack # <<>> /\ f \in ReconnectFrames
    BY <1>0, <1>3, HeadFrame DEF Reconnect, Innermost
  <2>2. /\ Tail(stack) \in Seq(WaitingFrames) /\ IsStack(Tail(stack))
        /\ Waiters(Tail(stack)) = Waiters(stack)
    BY <1>0, <2>1, PopOwnsNothing DEF Own, ReconnectFrames
  <2>3. idle' \in Seq(CallBacks) /\ exprs' \in Nat /\ UNCHANGED <<idle, exprs>>
    BY <1>3 DEF Reconnect, TypeInv
  <2>4. CASE /\ stack' = Tail(stack)
             /\ UNCHANGED <<channelVars, taskVars, counter, timers, clusterVars, serverVars, losses, early>>
    <3>1. IsStack(stack') /\ Waiters(stack') = Waiters(stack)
      BY <2>2, <2>4
    <3> QED BY <2>3, <2>4, <3>1 DEF TypeInv, channelVars, taskVars, clusterVars, serverVars
  <2>5. ASSUME NEW t \in f.tasks
        PROVE  LET rest == <<[f EXCEPT !.tasks = @ \ {t}]>> \o Tail(stack)
               IN  /\ t \in global /\ Ask(f.host, "RECONN", None, rest) => WaitInv'
                   /\ /\ stack' = rest
                      /\ UNCHANGED <<channelVars, taskVars, counter, timers, clusterVars,
                                     serverVars, losses, early>>
                      => WaitInv'
    <3> DEFINE g == [f EXCEPT !.tasks = @ \ {t}]
               rest == <<g>> \o Tail(stack)
    <3>1. g \in Frames /\ g.kind = "reconnect" /\ f.host \in Hosts
      BY <2>1 DEF ReconnectFrames, Frames
    <3>2. g \in WaitingFrames
      BY <3>1 DEF WaitingFrames
    <3> HIDE DEF g
    <3>3. rest \in Seq(WaitingFrames)
      BY <2>2, <3>2, PushOf
    <3>4. IsStack(rest) /\ Waiters(rest) = Waiters(stack)
      BY <2>2, <3>1, OwnsNothing
    <3> HIDE DEF rest
    <3>5. ASSUME Ask(f.host, "RECONN", None, rest) PROVE WaitInv'
      BY <2>3, <3>1, <3>3, <3>4, <3>5, AskKeepsInv
    <3>6. ASSUME stack' = rest,
                 UNCHANGED <<channelVars, taskVars, counter, timers, clusterVars,
                             serverVars, losses, early>>
          PROVE  WaitInv'
      <4>1. IsStack(stack') /\ Waiters(stack') = Waiters(stack)
        BY <3>4, <3>6
      <4> QED BY <2>3, <3>6, <4>1 DEF TypeInv, channelVars, taskVars, clusterVars, serverVars
    <3> QED BY <3>5, <3>6 DEF rest, g
  <2> QED BY <1>3, <2>4, <2>5, Zenon DEF Reconnect
<1>4. CASE ClusterLaunch
  <2>1. stack # <<>> /\ f \in LaunchFrames
    BY <1>0, <1>4, HeadFrame DEF ClusterLaunch, Innermost
  <2>2. /\ Tail(stack) \in Seq(WaitingFrames) /\ IsStack(Tail(stack))
        /\ Waiters(Tail(stack)) = Waiters(stack)
    BY <1>0, <2>1, PopOwnsNothing DEF Own, LaunchFrames
  <2>3. exprs' \in Nat
    BY <1>4 DEF ClusterLaunch, TypeInv
  <2>4. CASE /\ queue' = Unlaunched(f) /\ idle' = LaunchLater(Unlaunched(f))
             /\ launching' = FALSE
             /\ stack' = Tail(stack)
             /\ UNCHANGED <<channelVars, taskVars, counter, timers, busy, serverVars, losses, early>>
    <3>1. Unlaunched(f) \in Seq(Nat)
      <4>1. f.launched + 1 \in Nat /\ Len(queue) \in Nat /\ f.launched + 1 >= 1
        BY <2>1, LenProperties DEF LaunchFrames, TypeInv
      <4>2. \A i \in f.launched + 1 .. Len(queue) : queue[i] \in Nat
        BY <4>1, ElementOfSeq DEF TypeInv
      <4> QED BY <4>1, <4>2, SubSeqProperties DEF Unlaunched
    <3>2. idle' \in Seq(CallBacks)
      BY <2>4, AppendProperties DEF LaunchLater, CallBacks, TypeInv
    <3>3. IsStack(stack') /\ Waiters(stack') = Waiters(stack)
      BY <2>2, <2>4
    <3> QED BY <2>3, <2>4, <3>1, <3>2, <3>3 DEF TypeInv, channelVars, taskVars, serverVars
  <2>5. ASSUME f.todo # <<>>, f.hosts # <<>>,
               stack' = <<[f EXCEPT !.hosts = Tail(@)]>> \o Tail(stack),
               UNCHANGED <<channelVars, taskVars, counter, timers, clusterVars, idle, serverVars,
                           losses, early>>
        PROVE  WaitInv'
    <3> DEFINE g == [f EXCEPT !.hosts = Tail(@)]
    <3>1. Tail(f.hosts) \in Seq(Hosts)
      BY <2>1, <2>5, HeadTailProperties DEF LaunchFrames
    <3>2. g \in Frames /\ g.kind # "ask"
      BY <2>1, <3>1 DEF LaunchFrames, Frames
    <3> HIDE DEF g
    <3>3. IsStack(<<g>> \o Tail(stack)) /\ Waiters(<<g>> \o Tail(stack)) = Waiters(Tail(stack))
      BY <2>2, <3>2, OwnsNothing
    <3>4. IsStack(stack') /\ Waiters(stack') = Waiters(stack)
      BY <2>2, <2>5, <3>3 DEF g
    <3> QED BY <2>3, <2>5, <3>4 DEF TypeInv, channelVars, taskVars, clusterVars, serverVars
  <2>6. ASSUME f.todo # <<>>, f.hosts # <<>>, UNCHANGED idle,
               Ask(Head(f.hosts), "TOLEVAL", Head(f.todo), stack)
        PROVE  WaitInv'
    <3>1. f \in WaitingFrames
      BY <2>1, <2>6 DEF WaitingFrames, Frames
    <3>2. stack \in Seq(WaitingFrames)
      BY <1>0, <3>1, InnermostWaiting
    <3>3. Head(f.hosts) \in Hosts /\ Head(f.todo) \in Nat
      BY <2>1, <2>6, HeadTailProperties DEF LaunchFrames
    <3>4. idle' \in Seq(CallBacks)
      BY <2>6 DEF TypeInv
    <3> QED BY <2>3, <2>6, <3>2, <3>3, <3>4, AskKeepsInv
  <2> QED BY <1>4, <2>4, <2>5, <2>6 DEF ClusterLaunch
<1> QED BY <1>1, <1>2, <1>3, <1>4 DEF Calls

LEMMA CallBacksKeepWaitInv ==
  ASSUME WaitInv, IdleCallBack
  PROVE  WaitInv'
<1> USE DEF WaitInv
<1>1. stack \in Seq(WaitingFrames) /\ IsStack(stack)
  BY EventLoopStack DEF IdleCallBack, TypeInv
<1>2. idle' \in Seq(CallBacks) /\ Head(idle) \in CallBacks
  BY HeadTailProperties DEF IdleCallBack, TypeInv
<1>3. \/ /\ Head(idle).do = "reconnect"
         /\ stack' = <<ReconnectFrame(Head(idle).host, Head(idle).tasks)>> \o stack
         /\ UNCHANGED launching
      \/ /\ launching' = TRUE
         /\ stack' = stack \/ stack' = <<LaunchFrame>> \o stack
  BY DEF IdleCallBack
<1>4. LaunchFrame \in Frames /\ LaunchFrame.kind # "ask"
  BY TolClientAssumption DEF LaunchFrame, Frames, LaunchFrames, TypeInv
<1>5. ASSUME Head(idle).do = "reconnect"
      PROVE  LET g == ReconnectFrame(Head(idle).host, Head(idle).tasks)
             IN  g \in Frames /\ g.kind # "ask"
  BY <1>2, <1>5 DEF CallBacks, ReconnectFrame, Frames, ReconnectFrames
<1>6. launching' \in BOOLEAN
  BY <1>3 DEF TypeInv
<1>7. IsStack(stack') /\ Waiters(stack') = Waiters(stack)
  <2> DEFINE g == ReconnectFrame(Head(idle).host, Head(idle).tasks)
  <2>1. Head(idle).do = "reconnect" => g \in Frames /\ g.kind # "ask"
    BY <1>5
  <2>2. Head(idle).do = "reconnect" => IsStack(<<g>> \o stack) /\ Waiters(<<g>> \o stack) = Waiters(stack)
    BY <1>1, <2>1, OwnsNothing
  <2>3. IsStack(<<LaunchFrame>> \o stack) /\ Waiters(<<LaunchFrame>> \o stack) = Waiters(stack)
    BY <1>1, <1>4, OwnsNothing
  <2> QED BY <1>1, <1>3, <2>2, <2>3
<1> QED BY <1>2, <1>6, <1>7 DEF IdleCallBack, TypeInv, channelVars, taskVars, serverVars, usage

\* The answers of events
LEMMA AnsweredInv ==
  ASSUME WaitInv, NEW ids, NEW value \in Answers,
         timers' = timers \ ids, stack' = Answered(ids, value)
  PROVE  IsStack(stack') /\ timers' = Waiters(stack') /\ timers' \in SUBSET Nat
<1> QED BY AnsweredStack, WaitersAnswered DEF WaitInv, TypeInv

\* The line that is read
LEMMA ReadTypes ==
  ASSUME TypeInv, NEW c \in Chans, NEW tag, Read(c, tag)
  PROVE  /\ lines' \in [Chans -> Seq(Lines)]
         /\ Head(lines[c]) \in Lines
         /\ UNCHANGED <<opened, chanOf, hostOf, asking, counter, requests, peer, running, exprs, losses, early>>
<1>1. lines[c] \in Seq(Lines) /\ lines[c] # <<>>
  BY DEF TypeInv, Read
<1>2. Tail(lines[c]) \in Seq(Lines) /\ Head(lines[c]) \in Lines
  BY <1>1, HeadTailProperties
<1>3. lines' = [lines EXCEPT ![c] = Tail(@)]
  BY DEF Read
<1> QED BY <1>2, <1>3 DEF Read, usage, TypeInv

LEMMA ReadsKeepWaitInv ==
  ASSUME WaitInv, Reads
  PROVE  WaitInv'
<1> USE DEF WaitInv
<1>1. ASSUME NEW c \in Chans, OnAckPing(c)
      PROVE  WaitInv'
  <2> DEFINE id == Head(lines[c]).id
  <2>1. /\ lines' \in [Chans -> Seq(Lines)]
        /\ UNCHANGED <<opened, chanOf, hostOf, asking, counter, requests, peer, running, exprs, losses, early>>
    BY <1>1, ReadTypes DEF OnAckPing
  <2>2. "ACKPING" \in Answers
    BY DEF Answers
  <2>3. IsStack(stack') /\ timers' = Waiters(stack') /\ timers' \in SUBSET Nat
    <3>1. CASE UNCHANGED <<timers, stack>>
      BY <3>1 DEF TypeInv
    <3>2. CASE timers' = timers \ {id} /\ stack' = Answered({id}, "ACKPING")
      BY <2>2, <3>2, AnsweredInv
    <3> QED BY <1>1, <3>1, <3>2 DEF OnAckPing
  <2> QED BY <1>1, <2>1, <2>3 DEF OnAckPing, TypeInv, taskVars, clusterVars
<1>2. ASSUME NEW c \in Chans, OnStartTask(c)
      PROVE  WaitInv'
  <2> DEFINE id == Head(lines[c]).id
  <2>1. /\ lines' \in [Chans -> Seq(Lines)] /\ id \in Nat
        /\ UNCHANGED <<opened, chanOf, hostOf, asking, counter, requests, peer, running, exprs, losses, early>>
    BY <1>2, ReadTypes DEF OnStartTask, Lines
  <2>2. "TASK" \in Answers
    BY DEF Answers
  <2>3. CASE UNCHANGED <<timers, global, chanTasks, busy, stack>>
    BY <1>2, <2>1, <2>3 DEF OnStartTask, TypeInv
  <2>4. CASE /\ timers' = timers \ {id}
             /\ global' = global \cup {id}
             /\ chanTasks' = [chanTasks EXCEPT ![c] = Lappend(@, id)]
             /\ busy' = [busy EXCEPT ![hostOf[c]] = TRUE]
             /\ stack' = Answered({id}, "TASK")
    <3>1. IsStack(stack') /\ timers' = Waiters(stack') /\ timers' \in SUBSET Nat
      BY <2>2, <2>4, AnsweredInv
    <3>2. chanTasks' \in [Chans -> (SUBSET Nat) \cup {None}]
      <4>1. Lappend(chanTasks[c], id) \in SUBSET Nat
        BY <2>1 DEF Lappend, TypeInv
      <4> QED BY <2>4, <4>1 DEF TypeInv
    <3>3. global' \in SUBSET Nat /\ busy' \in [Hosts -> BOOLEAN]
      BY <2>1, <2>4 DEF TypeInv
    <3> QED BY <1>2, <2>1, <3>1, <3>2, <3>3 DEF OnStartTask, TypeInv
  <2> QED BY <1>2, <2>3, <2>4 DEF OnStartTask
<1>3. ASSUME NEW c \in Chans, OnFinishTask(c)
      PROVE  WaitInv'
  <2> DEFINE t == Head(lines[c]).id
  <2>1. /\ lines' \in [Chans -> Seq(Lines)] /\ t \in Nat
        /\ UNCHANGED <<opened, chanOf, hostOf, asking, counter, requests, peer, running, exprs, losses, early>>
    BY <1>3, ReadTypes DEF OnFinishTask, Lines
  <2>2. CASE UNCHANGED <<chanTasks, taskVars, busy, idle, stack>>
    BY <1>3, <2>1, <2>2 DEF OnFinishTask, TypeInv, taskVars
  <2>3. CASE /\ chanTasks[c] # None
             /\ chanTasks' = OffChannel(c, t)
             /\ global' = OffPending(t)
             /\ busy' = [busy EXCEPT ![hostOf[c]] = BusyAfterFinish]
             /\ idle' = LaunchLater(queue)
             /\ lastTask' = t
             /\ stack' = Woken
    <3>1. IsStack(stack') /\ Waiters(stack') = Waiters(stack)
      BY <2>3, WokenStack, WaitersWoken DEF TypeInv
    <3>2. chanTasks' \in [Chans -> (SUBSET Nat) \cup {None}]
      BY <2>3 DEF OffChannel, TypeInv
    <3>3. global' \in SUBSET Nat /\ busy' \in [Hosts -> BOOLEAN] /\ lastTask' \in Nat
      BY <2>1, <2>3 DEF OffPending, BusyAfterFinish, TypeInv
    <3>4. idle' \in Seq(CallBacks)
      BY <2>3, AppendProperties DEF LaunchLater, CallBacks, TypeInv
    <3> QED BY <1>3, <2>1, <3>1, <3>2, <3>3, <3>4 DEF OnFinishTask, TypeInv
  <2> QED BY <1>3, <2>2, <2>3 DEF OnFinishTask
<1> QED BY <1>1, <1>2, <1>3 DEF Reads

LEMMA LossKeepsWaitInv ==
  ASSUME WaitInv, NEW c \in Chans, OnEofChannel(c)
  PROVE  WaitInv'
<1> USE DEF WaitInv
<1>1. "EOC" \in Answers
  BY DEF Answers
<1>2. IsStack(stack') /\ timers' = Waiters(stack') /\ timers' \in SUBSET Nat
  BY <1>1, AnsweredInv DEF OnEofChannel
<1>3. requests' \in [Chans -> Seq(Requests)] /\ lines' \in [Chans -> Seq(Lines)]
  BY EmptySeq DEF OnEofChannel, TypeInv
<1>4. running' \in SUBSET Evaluations
  <2>1. \A r \in running : [r EXCEPT !.chan = IF @ = c THEN None ELSE @] \in Evaluations
    BY DEF TypeInv, Evaluations
  <2>2. running' = {[r EXCEPT !.chan = IF @ = c THEN None ELSE @] : r \in running}
    BY DEF OnEofChannel
  <2> QED BY <2>1, <2>2
<1>5. losses' \in Nat
  BY DEF OnEofChannel, TypeInv
<1>6. opened' = opened \ {c} /\ UNCHANGED <<global, lastTask, counter, queue, busy, launching, peer, exprs, early>>
  BY DEF OnEofChannel, taskVars, clusterVars
<1>7. CASE /\ idle' = (IF chanTasks[c] \in {None, {}} THEN idle
                       ELSE Append(idle, [do |-> "reconnect", host |-> hostOf[c],
                                          tasks |-> chanTasks[c]]))
           /\ chanOf' = [chanOf EXCEPT ![hostOf[c]] = None]
           /\ hostOf' = [hostOf EXCEPT ![c] = None]
           /\ asking' = [asking EXCEPT ![c] = {}]
           /\ chanTasks' = [chanTasks EXCEPT ![c] = None]
  <2>1. c \in opened
    BY DEF OnEofChannel
  <2>2. hostOf[c] \in Hosts
    BY <2>1 DEF TypeInv
  <2>3. ASSUME chanTasks[c] \notin {None, {}}
        PROVE  [do |-> "reconnect", host |-> hostOf[c], tasks |-> chanTasks[c]] \in CallBacks
    BY <2>2, <2>3 DEF TypeInv, CallBacks
  <2>4. idle' \in Seq(CallBacks)
    BY <1>7, <2>3, AppendProperties DEF TypeInv
  <2>5. /\ chanOf' \in [Hosts -> Chans \cup {None}] /\ hostOf' \in [Chans -> Hosts \cup {None}]
        /\ asking' \in [Chans -> SUBSET Nat] /\ chanTasks' \in [Chans -> (SUBSET Nat) \cup {None}]
    BY <1>7 DEF TypeInv
  <2>6. opened' \in SUBSET {d \in Chans : hostOf'[d] # None /\ peer'[d] # None}
    BY <1>6, <1>7 DEF TypeInv
  <2> QED BY <1>2, <1>3, <1>4, <1>5, <1>6, <2>4, <2>5, <2>6 DEF TypeInv
<1>8. CASE UNCHANGED <<idle, chanOf, hostOf, asking, chanTasks>>
  <2>1. opened' \in SUBSET {d \in Chans : hostOf'[d] # None /\ peer'[d] # None}
    BY <1>6, <1>8 DEF TypeInv
  <2> QED BY <1>2, <1>3, <1>4, <1>5, <1>6, <1>8, <2>1 DEF TypeInv
<1> QED BY <1>7, <1>8 DEF OnEofChannel

LEMMA TimeoutsKeepWaitInv ==
  ASSUME WaitInv, NEW id \in timers, OnTimeout(id)
  PROVE  WaitInv'
<1>1. "TIMEOUT" \in Answers
  BY DEF Answers
<1>2. IsStack(stack') /\ timers' = Waiters(stack') /\ timers' \in SUBSET Nat
  BY <1>1, AnsweredInv DEF OnTimeout
<1>3. early' \in Nat
  BY DEF OnTimeout, WaitInv, TypeInv
<1> QED BY <1>2, <1>3 DEF OnTimeout, WaitInv, TypeInv, channelVars, taskVars, clusterVars, serverVars

\* The end of a task is lost, or a line on the channel the task came from, or, once
\* that is lost, on another one
LEMMA ServerTells ==
  ASSUME TypeInv, NEW r \in running, ServerFinishes(r)
  PROVE  \/ UNCHANGED lines /\ r.chan = None
         \/ \E c \in Chans :
              /\ r.chan = c \/ (r.chan = None /\ c \in opened)
              /\ lines' = [lines EXCEPT ![c] = Append(@, [tag |-> "TFINISH", id |-> r.id])]
<1>1. r.chan \in Chans \cup {None} /\ opened \subseteq Chans
  BY DEF TypeInv, Evaluations
<1> QED BY <1>1 DEF ServerFinishes

LEMMA ServerLosesKeepsWaitInv ==
  ASSUME WaitInv, NEW r \in running, ServerLoses(r)
  PROVE  WaitInv'
<1>1. running' \in SUBSET Evaluations /\ losses' \in Nat
  BY DEF ServerLoses, WaitInv, TypeInv
<1> QED BY <1>1 DEF ServerLoses, WaitInv, TypeInv, channelVars, taskVars, clusterVars

LEMMA ServersKeepWaitInv ==
  ASSUME WaitInv, Servers
  PROVE  WaitInv'
<1> USE DEF WaitInv
<1>1. ASSUME NEW c \in Chans, ServerAnswers(c)
      PROVE  WaitInv'
  <2> DEFINE r == Head(requests[c])
  <2>1. r \in Requests /\ Tail(requests[c]) \in Seq(Requests)
    BY <1>1, HeadTailProperties DEF ServerAnswers, TypeInv
  <2>2. requests' \in [Chans -> Seq(Requests)]
    BY <1>1, <2>1 DEF ServerAnswers, TypeInv
  <2>3. ASSUME NEW tag \in {"ACKPING", "TSTART"}
        PROVE  [lines EXCEPT ![c] = Append(@, [tag |-> tag, id |-> r.id])] \in [Chans -> Seq(Lines)]
    <3>1. [tag |-> tag, id |-> r.id] \in Lines
      BY <2>1 DEF Requests, Lines
    <3>2. Append(lines[c], [tag |-> tag, id |-> r.id]) \in Seq(Lines)
      BY <3>1, AppendProperties DEF TypeInv
    <3> QED BY <3>2 DEF TypeInv
  <2>4. lines' \in [Chans -> Seq(Lines)] /\ running' \in SUBSET Evaluations
    <3>1. [id |-> r.id, host |-> peer[c], chan |-> c] \in Evaluations
      BY <2>1 DEF Requests, Evaluations, TypeInv
    <3> QED BY <1>1, <2>3, <3>1 DEF ServerAnswers, TypeInv
  <2> QED BY <1>1, <2>2, <2>4 DEF ServerAnswers, TypeInv, channelVars, taskVars, clusterVars, usage
<1>2. ASSUME NEW r \in running, ServerFinishes(r)
      PROVE  WaitInv'
  <2>1. r \in Evaluations
    BY DEF TypeInv
  <2>2. lines' \in [Chans -> Seq(Lines)]
    <3>1. CASE UNCHANGED lines
      BY <3>1 DEF TypeInv
    <3>2. ASSUME NEW c \in Chans,
                 lines' = [lines EXCEPT ![c] = Append(@, [tag |-> "TFINISH", id |-> r.id])]
          PROVE  lines' \in [Chans -> Seq(Lines)]
      <4>1. [tag |-> "TFINISH", id |-> r.id] \in Lines
        BY <2>1 DEF Evaluations, Lines
      <4>2. Append(lines[c], [tag |-> "TFINISH", id |-> r.id]) \in Seq(Lines)
        BY <4>1, AppendProperties DEF TypeInv
      <4> QED BY <3>2, <4>2 DEF TypeInv
    <3>3. UNCHANGED lines \/ \E c \in Chans : lines' = [lines EXCEPT ![c] = Append(@, [tag |-> "TFINISH", id |-> r.id])]
      BY <1>2, <2>1, ServerTells
    <3> QED BY <3>1, <3>2, <3>3
  <2>3. running' \in SUBSET Evaluations
    BY <1>2 DEF ServerFinishes, TypeInv
  <2> QED BY <1>2, <2>2, <2>3 DEF ServerFinishes, TypeInv, channelVars, taskVars, clusterVars, usage
<1> QED BY <1>1, <1>2 DEF Servers

LEMMA WaitInvInit == Init => WaitInv
<1> SUFFICES ASSUME Init PROVE WaitInv
  OBVIOUS
<1>1. IsStack(stack) /\ timers = Waiters(stack)
  BY EmptySeq, WaitersEmpty DEF Init, IsStack
<1>2. <<>> \in Seq(Requests) /\ <<>> \in Seq(Lines) /\ <<>> \in Seq(CallBacks) /\ <<>> \in Seq(Nat)
  BY EmptySeq
<1> QED BY <1>1, <1>2 DEF Init, WaitInv, TypeInv

LEMMA WaitInvNext == WaitInv /\ [Next]_vars => WaitInv'
<1> SUFFICES ASSUME WaitInv, [Next]_vars PROVE WaitInv'
  OBVIOUS
<1>1. CASE UNCHANGED vars
  BY <1>1 DEF vars, channelVars, taskVars, clusterVars, serverVars, usage, WaitInv, TypeInv
<1>2. CASE Timeouts
  BY <1>2, TimeoutsKeepWaitInv DEF Timeouts
<1>3. CASE \E c \in Chans : OnEofChannel(c)
  BY <1>3, LossKeepsWaitInv
<1>4. CASE \E r \in running : ServerLoses(r)
  BY <1>4, ServerLosesKeepsWaitInv
<1> QED BY <1>1, <1>2, <1>3, <1>4, UsersKeepWaitInv, ReadsKeepWaitInv, CallsKeepWaitInv, CallBacksKeepWaitInv,
           ServersKeepWaitInv DEF Next

(* In every behaviour the client's data have their types, its stack of calls is  *)
(* one the handlers can pile up, and the timeouts running are exactly those of   *)
(* the requests on it (tolclient.tcl:477-533, 615-663).                         *)
THEOREM ClientIsTyped == Spec => []WaitInv
<1> QED BY WaitInvInit, WaitInvNext, PTL DEF Spec

(* In every behaviour the timeouts are those of the requests that wait: none     *)
(* waits without one, none ends the wait of another (tolclient.tcl:357-374,     *)
(* 477-533, 615-663).                                                         *)
THEOREM NoneWaitsForEver == Spec => []WaitersHaveTimeouts
<1>1. WaitInv => WaitersHaveTimeouts
  BY DEF WaitInv, Waiters, WaitersHaveTimeouts
<1> QED BY <1>1, ClientIsTyped, PTL

-----------------------------------------------------------------------------
(* Where a task is.                                                        *)

Ids(s) == {s[i].id : i \in DOMAIN s}

Listed(c) == IF chanTasks[c] = None THEN {} ELSE chanTasks[c]

RunningFor(c) == {r.id : r \in {q \in running : q.chan = c}}

\* The requests that lines answer
Replies(s) == {s[i].id : i \in {j \in DOMAIN s : s[j].tag # "TFINISH"}}

(* What comes from the server: an end may come on another channel once one of     *)
(* them has been lost.                                                        *)
Told(c) == IF losses = 0 THEN Ids(lines[c]) \cup RunningFor(c) ELSE Replies(lines[c])

(* What is asked, told or listed on a channel. *)
On(c) == Ids(requests[c]) \cup Told(c) \cup Listed(c)

(* A task is on one channel at most, for each id is new; what is on the list of   *)
(* a channel is on the global one, unless its end came on another channel.        *)
PlaceInv ==
  /\ \A c \in Chans : \A x \in On(c) : x \in Nat /\ x <= counter
  /\ \A c, d \in Chans : c # d => On(c) \cap On(d) = {}
  /\ \A c \in Chans : Listed(c) \subseteq global \cup strays
  /\ losses = 0 => \A r \in running : r.chan # None

LEMMA IdsOf ==
  ASSUME NEW M, NEW s \in Seq(M)
  PROVE  /\ Ids(<<>>) = {}
         /\ s # <<>> => Head(s).id \in Ids(s) /\ Ids(Tail(s)) \subseteq Ids(s)
         /\ \A m \in M : Ids(Append(s, m)) = Ids(s) \cup {m.id}
<1>1. Ids(<<>>) = {}
  BY DEF Ids
<1>2. ASSUME s # <<>> PROVE Head(s).id \in Ids(s) /\ Ids(Tail(s)) \subseteq Ids(s)
  <2>1. /\ Head(s) = s[1] /\ Len(s) \in Nat /\ Len(s) # 0 /\ DOMAIN s = 1 .. Len(s)
        /\ DOMAIN Tail(s) = 1 .. Len(s) - 1 /\ \A i \in 1 .. Len(s) - 1 : Tail(s)[i] = s[i + 1]
    BY <1>2, PopOf
  <2>2. 1 \in DOMAIN s /\ \A i \in DOMAIN Tail(s) : i + 1 \in DOMAIN s /\ Tail(s)[i] = s[i + 1]
    BY <2>1
  <2> QED BY <2>1, <2>2 DEF Ids
<1>3. ASSUME NEW m \in M PROVE Ids(Append(s, m)) = Ids(s) \cup {m.id}
  <2>1. /\ DOMAIN s = 1 .. Len(s) /\ Len(s) \in Nat /\ Append(s, m) \in Seq(M)
        /\ Len(Append(s, m)) = Len(s) + 1
        /\ \A i \in 1 .. Len(s) : Append(s, m)[i] = s[i]
        /\ Append(s, m)[Len(s) + 1] = m
    BY AppendProperties, LenProperties
  <2>2. DOMAIN Append(s, m) = 1 .. Len(s) + 1
    BY <2>1, LenProperties
  <2>3. /\ DOMAIN Append(s, m) = DOMAIN s \cup {Len(s) + 1}
        /\ \A i \in DOMAIN s : Append(s, m)[i] = s[i]
    BY <2>1, <2>2
  <2> QED BY <2>1, <2>3 DEF Ids
<1> QED BY <1>1, <1>2, <1>3

LEMMA RepliesWithin ==
  ASSUME NEW s \in Seq(Lines)
  PROVE  /\ Replies(<<>>) = {} /\ Replies(s) \subseteq Ids(s)
         /\ \A m \in Lines :
              Replies(Append(s, m)) \subseteq Replies(s) \cup (IF m.tag = "TFINISH" THEN {} ELSE {m.id})
         /\ s # <<>> => /\ Replies(Tail(s)) \subseteq Replies(s)
                        /\ Head(s).tag # "TFINISH" => Head(s).id \in Replies(s)
<1>1. Replies(<<>>) = {} /\ Replies(s) \subseteq Ids(s)
  BY DEF Replies, Ids
<1>2. ASSUME NEW m \in Lines, NEW x \in Replies(Append(s, m))
      PROVE  x \in Replies(s) \/ (m.tag # "TFINISH" /\ x = m.id)
  <2>1. /\ DOMAIN s = 1 .. Len(s) /\ Len(s) \in Nat /\ Append(s, m) \in Seq(Lines)
        /\ Len(Append(s, m)) = Len(s) + 1
        /\ \A i \in 1 .. Len(s) : Append(s, m)[i] = s[i]
        /\ Append(s, m)[Len(s) + 1] = m
    BY AppendProperties, LenProperties
  <2>2. DOMAIN Append(s, m) = 1 .. Len(s) + 1
    BY <2>1, LenProperties
  <2>3. PICK i \in DOMAIN Append(s, m) : Append(s, m)[i].tag # "TFINISH" /\ x = Append(s, m)[i].id
    BY <1>2 DEF Replies
  <2>4. i = Len(s) + 1 \/ (i \in DOMAIN s /\ Append(s, m)[i] = s[i])
    BY <2>1, <2>2, <2>3
  <2> QED BY <2>1, <2>3, <2>4 DEF Replies
<1>3. ASSUME s # <<>>
      PROVE  /\ Replies(Tail(s)) \subseteq Replies(s)
             /\ Head(s).tag # "TFINISH" => Head(s).id \in Replies(s)
  <2>1. /\ Head(s) = s[1] /\ Len(s) \in Nat /\ Len(s) # 0 /\ DOMAIN s = 1 .. Len(s)
        /\ DOMAIN Tail(s) = 1 .. Len(s) - 1 /\ \A i \in 1 .. Len(s) - 1 : Tail(s)[i] = s[i + 1]
    BY <1>3, PopOf
  <2>2. 1 \in DOMAIN s /\ \A i \in DOMAIN Tail(s) : i + 1 \in DOMAIN s /\ Tail(s)[i] = s[i + 1]
    BY <2>1
  <2> QED BY <2>1, <2>2 DEF Replies
<1> QED BY <1>1, <1>2, <1>3

\* Channels hold no more when less is told
LEMMA ToldLess ==
  ASSUME WaitInv, losses' = 0 => losses = 0,
         \A c \in Chans : /\ Ids(lines'[c]) \subseteq Ids(lines[c])
                          /\ Replies(lines'[c]) \subseteq Replies(lines[c])
                          /\ RunningFor(c)' \subseteq RunningFor(c)
  PROVE  \A c \in Chans : Told(c)' \subseteq Told(c)
<1>1. \A c \in Chans : Replies(lines[c]) \subseteq Ids(lines[c])
  BY RepliesWithin DEF WaitInv, TypeInv
<1> QED BY <1>1 DEF Told

\* Only a new request makes a channel hold more
LEMMA AskPlaces ==
  ASSUME WaitInv, PlaceInv, NEW h \in Hosts, NEW tag \in {"PING", "TOLEVAL", "RECONN"},
         NEW e \in Nat \cup {None}, NEW callers, Ask(h, tag, e, callers)
  PROVE  PlaceInv'
<1>1. TypeInv /\ (Sent(h, tag, e, callers) \/ Refused(callers) \/ Failed(h, callers))
  BY AskCases DEF WaitInv
<1>2. UNCHANGED <<chanTasks, global, strays, lines, running>>
  BY <1>1, AskCases DEF taskVars
<1>3. CASE Sent(h, tag, e, callers)
  <2> DEFINE m == [tag |-> tag, id |-> NewId, expr |-> e]
  <2>1. PICK c \in Chans :
          /\ counter' = counter + 1 /\ losses' = losses
          /\ requests' = [requests EXCEPT ![c] = Append(@, m)]
    BY <1>3 DEF Sent
  <2>2. NewId = counter + 1 /\ NewId \in Nat /\ counter \in Nat
    BY <1>1 DEF NewId, TypeInv
  <2>3. m \in Requests /\ m.id = NewId
    BY <2>2 DEF Requests
  <2>4. requests[c] \in Seq(Requests) /\ requests' = [d \in Chans |-> IF d = c THEN Append(requests[c], m)
                                                                     ELSE requests[d]]
    BY <1>1, <2>1 DEF TypeInv
  <2> HIDE DEF m
  <2>5. On(c)' \subseteq On(c) \cup {NewId} /\ \A d \in Chans : d # c => On(d)' = On(d)
    BY <1>2, <2>1, <2>3, <2>4, IdsOf DEF On, Told, RunningFor, Listed
  <2>6. \A d \in Chans : NewId \notin On(d)
    BY <2>2 DEF PlaceInv
  <2>7. \A d \in Chans : \A x \in On(d)' : x \in Nat /\ x <= counter'
    <3> SUFFICES ASSUME NEW d \in Chans, NEW x \in On(d)' PROVE x \in Nat /\ x <= counter'
      OBVIOUS
    <3>1. x = NewId \/ x \in On(d)
      BY <2>5
    <3> QED BY <2>1, <2>2, <3>1 DEF PlaceInv
  <2>8. \A a, b \in Chans : a # b => On(a)' \cap On(b)' = {}
    <3> SUFFICES ASSUME NEW a \in Chans, NEW b \in Chans, a # b, NEW x \in On(a)', x \in On(b)'
                 PROVE  FALSE
      OBVIOUS
    <3> QED BY <2>5, <2>6 DEF PlaceInv
  <2>9. \A d \in Chans : Listed(d)' \subseteq global' \cup strays'
    BY <1>2 DEF Listed, PlaceInv
  <2>10. losses' = 0 => \A r \in running' : r.chan # None
    BY <1>2, <2>1 DEF PlaceInv
  <2> QED BY <2>7, <2>8, <2>9, <2>10 DEF PlaceInv
<1>4. CASE Refused(callers) \/ Failed(h, callers)
  <2>1. /\ UNCHANGED <<requests, lines, running, chanTasks, global, strays>> /\ losses' # 0
        /\ counter \in Nat /\ counter' \in Nat /\ counter <= counter'
    BY <1>1, <1>2, <1>4 DEF Refused, Failed, TypeInv
  <2>2. \A d \in Chans : Listed(d)' = Listed(d)
    BY <2>1 DEF Listed
  <2>3. \A d \in Chans : Told(d)' \subseteq Told(d)
    BY <2>1, ToldLess DEF RunningFor
  <2>4. \A d \in Chans : On(d)' \subseteq On(d)
    BY <2>1, <2>2, <2>3 DEF On
  <2>5. \A d \in Chans : \A x \in On(d)' : x \in Nat /\ x <= counter'
    <3> SUFFICES ASSUME NEW d \in Chans, NEW x \in On(d)' PROVE x \in Nat /\ x <= counter'
      OBVIOUS
    <3>1. x \in Nat /\ x <= counter
      BY <2>4 DEF PlaceInv
    <3> QED BY <2>1, <3>1
  <2>6. \A a, b \in Chans : a # b => On(a)' \cap On(b)' = {}
    BY <2>4 DEF PlaceInv
  <2> QED BY <2>1, <2>2, <2>5, <2>6 DEF PlaceInv
<1> QED BY <1>1, <1>3, <1>4

LEMMA Placed ==
  ASSUME PlaceInv, \A c \in Chans : On(c)' \subseteq On(c), UNCHANGED counter,
         \A c \in Chans : Listed(c)' \subseteq global' \cup strays',
         losses' = 0 => \A r \in running' : r.chan # None
  PROVE  PlaceInv'
<1>1. \A c \in Chans : \A x \in On(c)' : x \in Nat /\ x <= counter'
  BY DEF PlaceInv
<1>2. \A c, d \in Chans : c # d => On(c)' \cap On(d)' = {}
  BY DEF PlaceInv
<1> QED BY <1>1, <1>2 DEF PlaceInv

LEMMA SamePlace ==
  ASSUME PlaceInv, UNCHANGED <<requests, lines, running, chanTasks, counter, global, strays, losses>>
  PROVE  PlaceInv'
<1>1. \A c \in Chans : Listed(c)' \subseteq global' \cup strays'
  BY DEF PlaceInv, Listed
<1>2. \A c \in Chans : On(c)' \subseteq On(c)
  BY DEF On, Told, RunningFor, Listed
<1>3. losses' = 0 => \A r \in running' : r.chan # None
  BY DEF PlaceInv
<1> QED BY <1>1, <1>2, <1>3, Placed

LEMMA CallsKeepPlaces ==
  ASSUME WaitInv, PlaceInv, Users \/ Calls \/ IdleCallBack \/ Timeouts
  PROVE  PlaceInv'
<1> USE DEF channelVars, taskVars, clusterVars, serverVars, usage
<1>1. ASSUME NEW h \in Hosts, NEW tag \in {"PING", "TOLEVAL"}, UserAsks(h, tag)
      PROVE  PlaceInv'
  BY <1>1, AskPlaces DEF UserAsks
<1>2. ASSUME NEW tasks \in SUBSET (1 .. counter), ServerWait(tasks)
      PROVE  PlaceInv'
  BY <1>2, SamePlace DEF ServerWait
<1>3. ASSUME NEW n \in 1 .. MaxExprs, ClusterEval(n)
      PROVE  PlaceInv'
  BY <1>3, SamePlace DEF ClusterEval
<1>4. CASE AskReturns
  BY <1>4, SamePlace DEF AskReturns
<1>5. CASE WaitGoesOn
  BY <1>5, SamePlace DEF WaitGoesOn
<1>6. CASE IdleCallBack
  BY <1>6, SamePlace DEF IdleCallBack
<1>7. ASSUME NEW id \in timers, OnTimeout(id)
      PROVE  PlaceInv'
  BY <1>7, SamePlace DEF OnTimeout
<1>8. CASE Reconnect
  <2> DEFINE f == Head(stack)
  <2>1. f.host \in Hosts
    BY <1>8, HeadFrame DEF Reconnect, Innermost, ReconnectFrames, WaitInv, TypeInv
  <2>2. ASSUME NEW rest, Ask(f.host, "RECONN", None, rest) PROVE PlaceInv'
    BY <2>1, <2>2, AskPlaces
  <2>3. \/ UNCHANGED <<channelVars, taskVars, counter, timers, clusterVars, serverVars, losses, early>>
        \/ \E rest : Ask(f.host, "RECONN", None, rest)
    BY <1>8, Zenon DEF Reconnect
  <2> QED BY <2>2, <2>3, SamePlace
<1>9. CASE ClusterLaunch
  <2> DEFINE f == Head(stack)
  <2>1. CASE Ask(Head(f.hosts), "TOLEVAL", Head(f.todo), stack) /\ f.hosts # <<>> /\ f.todo # <<>>
    <3>1. f \in LaunchFrames
      BY <1>9, HeadFrame DEF ClusterLaunch, Innermost, WaitInv, TypeInv
    <3>2. Head(f.hosts) \in Hosts /\ Head(f.todo) \in Nat
      BY <2>1, <3>1, HeadTailProperties DEF LaunchFrames
    <3> QED BY <2>1, <3>2, AskPlaces
  <2>2. \/ UNCHANGED <<requests, lines, running, chanTasks, counter, global, strays, losses>>
        \/ Ask(Head(f.hosts), "TOLEVAL", Head(f.todo), stack) /\ f.hosts # <<>> /\ f.todo # <<>>
    BY <1>9 DEF ClusterLaunch
  <2> QED BY <2>1, <2>2, SamePlace
<1> QED BY <1>1, <1>2, <1>3, <1>4, <1>5, <1>6, <1>7, <1>8, <1>9 DEF Users, Calls, Timeouts

LEMMA ReadsKeepPlaces ==
  ASSUME WaitInv, PlaceInv, Reads
  PROVE  PlaceInv'
<1>1. ASSUME NEW c \in Chans, NEW tag, Read(c, tag)
      PROVE  /\ UNCHANGED <<counter, requests, running, losses>>
             /\ \A d \in Chans : Told(d)' \subseteq Told(d)
             /\ tag # "TFINISH" => Head(lines[c]).id \in Told(c)
  <2>1. lines[c] \in Seq(Lines) /\ lines[c] # <<>> /\ Head(lines[c]).tag = tag
    BY <1>1 DEF Read, WaitInv, TypeInv
  <2>2. lines' = [d \in Chans |-> IF d = c THEN Tail(lines[c]) ELSE lines[d]]
    BY <1>1 DEF Read, WaitInv, TypeInv
  <2>3. UNCHANGED <<counter, requests, running, losses>>
    BY <1>1 DEF Read, usage
  <2>4. \A d \in Chans : /\ Ids(lines'[d]) \subseteq Ids(lines[d])
                         /\ Replies(lines'[d]) \subseteq Replies(lines[d])
                         /\ RunningFor(d)' \subseteq RunningFor(d)
    BY <2>1, <2>2, <2>3, IdsOf, RepliesWithin DEF RunningFor
  <2>5. \A d \in Chans : Told(d)' \subseteq Told(d)
    BY <2>3, <2>4, ToldLess
  <2>6. tag # "TFINISH" => Head(lines[c]).id \in Told(c)
    BY <2>1, RepliesWithin DEF Told
  <2> QED BY <2>3, <2>5, <2>6
<1>2. ASSUME NEW c \in Chans, OnAckPing(c)
      PROVE  PlaceInv'
  <2>1. UNCHANGED <<counter, requests, running, losses>> /\ \A d \in Chans : Told(d)' \subseteq Told(d)
    BY <1>1, <1>2 DEF OnAckPing
  <2>2. UNCHANGED <<chanTasks, global, strays>>
    BY <1>2 DEF OnAckPing, taskVars
  <2>3. \A d \in Chans : On(d)' \subseteq On(d)
    BY <2>1, <2>2 DEF On, Listed
  <2>4. \A d \in Chans : Listed(d)' \subseteq global' \cup strays'
    BY <2>2 DEF PlaceInv, Listed
  <2>5. losses' = 0 => \A r \in running' : r.chan # None
    BY <2>1 DEF PlaceInv
  <2> QED BY <2>1, <2>3, <2>4, <2>5, Placed
<1>3. ASSUME NEW c \in Chans, OnStartTask(c)
      PROVE  PlaceInv'
  <2> DEFINE id == Head(lines[c]).id
  <2>1. /\ UNCHANGED <<counter, requests, running, losses>> /\ id \in Told(c)
        /\ \A d \in Chans : Told(d)' \subseteq Told(d)
    BY <1>1, <1>3 DEF OnStartTask
  <2>2. /\ \A d \in Chans : Listed(d)' \subseteq Listed(d) \/ (d = c /\ Listed(d)' \subseteq Listed(d) \cup {id})
        /\ \A d \in Chans : Listed(d)' \subseteq global' \cup strays'
    <3>0. UNCHANGED strays
      BY <1>3 DEF OnStartTask
    <3>1. CASE UNCHANGED <<global, chanTasks>>
      BY <3>0, <3>1 DEF PlaceInv, Listed
    <3>2. CASE global' = global \cup {id} /\ chanTasks' = [chanTasks EXCEPT ![c] = Lappend(@, id)]
      <4>1. chanTasks' = [d \in Chans |-> IF d = c THEN Lappend(chanTasks[c], id) ELSE chanTasks[d]]
        BY <3>2 DEF WaitInv, TypeInv
      <4>2. Listed(c)' \subseteq Listed(c) \cup {id} /\ \A d \in Chans : d # c => Listed(d)' = Listed(d)
        BY <4>1 DEF Listed, Lappend
      <4> QED BY <3>0, <3>2, <4>2 DEF PlaceInv
    <3> QED BY <1>3, <3>1, <3>2 DEF OnStartTask
  <2>3. \A d \in Chans : On(d)' \subseteq On(d)
    <3> SUFFICES ASSUME NEW d \in Chans PROVE On(d)' \subseteq On(d)
      OBVIOUS
    <3>1. Listed(d)' \subseteq Listed(d) \cup Told(d)
      BY <2>1, <2>2
    <3> QED BY <2>1, <3>1 DEF On
  <2>4. losses' = 0 => \A r \in running' : r.chan # None
    BY <2>1 DEF PlaceInv
  <2> QED BY <2>1, <2>2, <2>3, <2>4, Placed
<1>4. ASSUME NEW c \in Chans, OnFinishTask(c)
      PROVE  PlaceInv'
  <2> DEFINE t == Head(lines[c]).id
  <2>1. UNCHANGED <<counter, requests, running, losses>> /\ \A d \in Chans : Told(d)' \subseteq Told(d)
    BY <1>1, <1>4 DEF OnFinishTask
  <2>2. \A d \in Chans : Listed(d)' \subseteq Listed(d) /\ Listed(d)' \subseteq global' \cup strays'
    <3>1. CASE UNCHANGED <<global, chanTasks, strays>>
      BY <3>1 DEF PlaceInv, Listed
    <3>2. CASE /\ global' = global \ {t} /\ chanTasks[c] # None
               /\ chanTasks' = [chanTasks EXCEPT ![c] = @ \ {t}]
               /\ strays' = IF t \in chanTasks[c] THEN strays ELSE strays \cup {t}
      <4>1. chanTasks' = [d \in Chans |-> IF d = c THEN chanTasks[c] \ {t} ELSE chanTasks[d]]
        BY <3>2 DEF WaitInv, TypeInv
      <4>2. Listed(c)' \subseteq Listed(c) \ {t} /\ \A d \in Chans : d # c => Listed(d)' = Listed(d)
        BY <3>2, <4>1 DEF Listed
      <4>3. \A d \in Chans : d # c => t \notin Listed(d) \/ t \in strays'
        <5>1. CASE t \in chanTasks[c]
          <6>1. t \in On(c)
            BY <3>2, <5>1 DEF On, Listed
          <6>2. \A d \in Chans : d # c => t \notin On(d)
            BY <6>1 DEF PlaceInv
          <6> QED BY <6>2 DEF On
        <5>2. CASE t \notin chanTasks[c]
          BY <3>2, <5>2
        <5> QED BY <5>1, <5>2
      <4>4. \A d \in Chans : Listed(d)' \subseteq Listed(d) /\ (t \notin Listed(d)' \/ t \in strays')
        BY <4>2, <4>3
      <4> QED BY <3>2, <4>4 DEF PlaceInv
    <3> QED BY <1>4, <3>1, <3>2 DEF OnFinishTask, OffChannel, OffPending, taskVars
  <2>3. \A d \in Chans : On(d)' \subseteq On(d)
    BY <2>1, <2>2 DEF On
  <2>4. losses' = 0 => \A r \in running' : r.chan # None
    BY <2>1 DEF PlaceInv
  <2> QED BY <2>1, <2>2, <2>3, <2>4, Placed
<1> QED BY <1>2, <1>3, <1>4 DEF Reads

\* A step that loses something
LEMMA LessToldOnceLost ==
  ASSUME WaitInv, PlaceInv, losses' = losses + 1, UNCHANGED <<counter, global, strays>>,
         \A d \in Chans : /\ Ids(requests'[d]) \subseteq Ids(requests[d])
                          /\ Replies(lines'[d]) \subseteq Replies(lines[d])
                          /\ Listed(d)' \subseteq Listed(d)
  PROVE  PlaceInv'
<1>1. losses' # 0
  BY DEF WaitInv, TypeInv
<1>2. \A d \in Chans : Replies(lines[d]) \subseteq Ids(lines[d])
  BY RepliesWithin DEF WaitInv, TypeInv
<1>3. \A d \in Chans : Told(d)' \subseteq Told(d)
  BY <1>1, <1>2 DEF Told
<1>4. \A d \in Chans : On(d)' \subseteq On(d)
  BY <1>3 DEF On
<1>5. \A d \in Chans : Listed(d)' \subseteq global' \cup strays'
  BY DEF PlaceInv
<1> QED BY <1>1, <1>4, <1>5, Placed

LEMMA LossKeepsPlaces ==
  ASSUME WaitInv, PlaceInv, NEW c \in Chans, OnEofChannel(c)
  PROVE  PlaceInv'
<1>1. UNCHANGED <<counter, global, strays>> /\ losses' = losses + 1
  BY DEF OnEofChannel, taskVars
<1>2. \A d \in Chans : /\ requests'[d] = <<>> \/ requests'[d] = requests[d]
                       /\ lines'[d] = <<>> \/ lines'[d] = lines[d]
  BY DEF OnEofChannel, WaitInv, TypeInv
<1>3. Ids(<<>>) = {} /\ Replies(<<>>) = {}
  BY DEF Ids, Replies
<1>4. \A d \in Chans : Listed(d)' \subseteq Listed(d)
  BY DEF OnEofChannel, Listed, WaitInv, TypeInv
<1>5. \A d \in Chans : /\ Ids(requests'[d]) \subseteq Ids(requests[d])
                       /\ Replies(lines'[d]) \subseteq Replies(lines[d])
  BY <1>2, <1>3
<1> QED BY <1>1, <1>4, <1>5, LessToldOnceLost

LEMMA ServerLosesKeepsPlaces ==
  ASSUME WaitInv, PlaceInv, NEW r \in running, ServerLoses(r)
  PROVE  PlaceInv'
<1>1. UNCHANGED <<counter, global, strays, requests, lines, chanTasks>> /\ losses' = losses + 1
  BY DEF ServerLoses, taskVars, channelVars
<1>2. \A d \in Chans : Listed(d)' = Listed(d)
  BY <1>1 DEF Listed
<1> QED BY <1>1, <1>2, LessToldOnceLost

LEMMA ServersKeepPlaces ==
  ASSUME WaitInv, PlaceInv, Servers
  PROVE  PlaceInv'
<1> USE DEF WaitInv
<1>1. ASSUME NEW c \in Chans, ServerAnswers(c)
      PROVE  PlaceInv'
  <2> DEFINE r == Head(requests[c])
  <2>1. UNCHANGED <<counter, global, strays, chanTasks, losses>>
    BY <1>1 DEF ServerAnswers, channelVars, taskVars, usage
  <2>2. /\ r.id \in Ids(requests[c]) /\ r.id \in Nat
        /\ \A d \in Chans : Ids(requests'[d]) \subseteq Ids(requests[d])
    <3>1. requests[c] \in Seq(Requests) /\ requests[c] # <<>>
      BY <1>1 DEF ServerAnswers, TypeInv
    <3>2. r \in Requests
      BY <3>1, HeadTailProperties
    <3>3. requests' = [d \in Chans |-> IF d = c THEN Tail(requests[c]) ELSE requests[d]]
      BY <1>1 DEF ServerAnswers, TypeInv
    <3> QED BY <3>1, <3>2, <3>3, IdsOf DEF Requests
  <2>3. \A d \in Chans :
          /\ Ids(lines'[d]) \subseteq Ids(lines[d]) \cup (IF d = c THEN {r.id} ELSE {})
          /\ Replies(lines'[d]) \subseteq Replies(lines[d]) \cup (IF d = c THEN {r.id} ELSE {})
    <3>1. ASSUME NEW tag \in {"ACKPING", "TSTART"},
                 lines' = [lines EXCEPT ![c] = Append(@, [tag |-> tag, id |-> r.id])]
          PROVE  \A d \in Chans :
                   /\ Ids(lines'[d]) \subseteq Ids(lines[d]) \cup (IF d = c THEN {r.id} ELSE {})
                   /\ Replies(lines'[d]) \subseteq Replies(lines[d]) \cup (IF d = c THEN {r.id} ELSE {})
      <4> DEFINE m == [tag |-> tag, id |-> r.id]
      <4>1. m \in Lines /\ m.id = r.id
        BY <2>2 DEF Lines
      <4>2. lines' = [d \in Chans |-> IF d = c THEN Append(lines[c], m) ELSE lines[d]]
        BY <3>1 DEF TypeInv
      <4>3. lines[c] \in Seq(Lines)
        BY DEF TypeInv
      <4> HIDE DEF m
      <4>4. Ids(Append(lines[c], m)) = Ids(lines[c]) \cup {r.id}
        BY <4>1, <4>3, IdsOf
      <4>5. Replies(Append(lines[c], m)) \subseteq Replies(lines[c]) \cup {r.id}
        BY <4>1, <4>3, RepliesWithin
      <4> QED BY <4>2, <4>4, <4>5
    <3> QED BY <1>1, <3>1 DEF ServerAnswers
  <2>4. \A d \in Chans : RunningFor(d)' \subseteq RunningFor(d) \cup (IF d = c THEN {r.id} ELSE {})
    <3>1. running' \subseteq running \cup {[id |-> r.id, host |-> peer[c], chan |-> c]}
      BY <1>1 DEF ServerAnswers
    <3> QED BY <3>1 DEF RunningFor
  <2>5. \A d \in Chans : Listed(d)' = Listed(d)
    BY <2>1 DEF Listed
  <2>6. \A d \in Chans : On(d)' \subseteq On(d)
    <3> SUFFICES ASSUME NEW d \in Chans PROVE On(d)' \subseteq On(d)
      OBVIOUS
    <3>1. d = c => r.id \in On(d)
      BY <2>2 DEF On
    <3>2. Told(d)' \subseteq Told(d) \cup (IF d = c THEN {r.id} ELSE {})
      BY <2>1, <2>3, <2>4 DEF Told
    <3> QED BY <2>2, <2>5, <3>1, <3>2 DEF On
  <2>7. \A d \in Chans : Listed(d)' \subseteq global' \cup strays'
    BY <2>1, <2>5 DEF PlaceInv
  <2>8. losses' = 0 => \A q \in running' : q.chan # None
    <3> DEFINE new == [id |-> r.id, host |-> peer[c], chan |-> c]
    <3>1. new.chan # None
      BY TolClientAssumption
    <3>2. running' \subseteq running \cup {new}
      BY <1>1 DEF ServerAnswers
    <3> HIDE DEF new
    <3> QED BY <2>1, <3>1, <3>2 DEF PlaceInv
  <2> QED BY <2>1, <2>6, <2>7, <2>8, Placed
<1>2. ASSUME NEW r \in running, ServerFinishes(r)
      PROVE  PlaceInv'
  <2> DEFINE m == [tag |-> "TFINISH", id |-> r.id]
  <2>1. UNCHANGED <<counter, global, strays, chanTasks, requests, losses>> /\ running' \subseteq running
    BY <1>2 DEF ServerFinishes, channelVars, taskVars, usage
  <2>2. m \in Lines /\ m.id = r.id /\ m.tag = "TFINISH"
    BY DEF TypeInv, Evaluations, Lines
  <2> HIDE DEF m
  <2>3. ASSUME NEW c \in Chans, lines' = [lines EXCEPT ![c] = Append(@, m)]
        PROVE  \A d \in Chans :
                 /\ Ids(lines'[d]) \subseteq Ids(lines[d]) \cup (IF d = c THEN {r.id} ELSE {})
                 /\ Replies(lines'[d]) \subseteq Replies(lines[d])
    <3>1. lines' = [d \in Chans |-> IF d = c THEN Append(lines[c], m) ELSE lines[d]]
      BY <2>3 DEF TypeInv
    <3>2. lines[c] \in Seq(Lines)
      BY DEF TypeInv
    <3>3. Ids(Append(lines[c], m)) = Ids(lines[c]) \cup {r.id} /\ Replies(Append(lines[c], m)) \subseteq Replies(lines[c])
      BY <2>2, <3>2, IdsOf, RepliesWithin
    <3> QED BY <3>1, <3>3
  <2>4. \A d \in Chans : Told(d)' \subseteq Told(d)
    <3>0. \A d \in Chans : RunningFor(d)' \subseteq RunningFor(d)
      BY <2>1 DEF RunningFor
    <3>1. CASE losses # 0
      <4>1. \A d \in Chans : Replies(lines'[d]) \subseteq Replies(lines[d])
        BY <1>2, <2>3, ServerTells DEF m
      <4> QED BY <2>1, <3>1, <4>1 DEF Told
    <3>2. CASE losses = 0
      <4>1. r.chan # None
        BY <3>2 DEF PlaceInv
      <4>2. r.chan \in Chans /\ lines' = [lines EXCEPT ![r.chan] = Append(@, m)]
        BY <1>2, <4>1, ServerTells DEF m
      <4>3. r.id \in RunningFor(r.chan)
        BY DEF RunningFor
      <4>4. \A d \in Chans : Ids(lines'[d]) \subseteq Ids(lines[d]) \cup RunningFor(d)
        BY <2>3, <4>2, <4>3
      <4> QED BY <2>1, <3>0, <3>2, <4>4 DEF Told
    <3> QED BY <3>1, <3>2
  <2>5. \A d \in Chans : Listed(d)' = Listed(d)
    BY <2>1 DEF Listed
  <2>6. \A d \in Chans : On(d)' \subseteq On(d)
    BY <2>1, <2>4, <2>5 DEF On
  <2>7. \A d \in Chans : Listed(d)' \subseteq global' \cup strays'
    BY <2>1, <2>5 DEF PlaceInv
  <2>8. losses' = 0 => \A q \in running' : q.chan # None
    BY <2>1 DEF PlaceInv
  <2> QED BY <2>1, <2>6, <2>7, <2>8, Placed
<1> QED BY <1>1, <1>2 DEF Servers

LEMMA PlaceInvNext == WaitInv /\ PlaceInv /\ [Next]_vars => PlaceInv'
<1> SUFFICES ASSUME WaitInv, PlaceInv, [Next]_vars PROVE PlaceInv'
  OBVIOUS
<1>1. CASE UNCHANGED vars
  BY <1>1, SamePlace DEF vars, channelVars, taskVars, serverVars, usage
<1>2. CASE \E c \in Chans : OnEofChannel(c)
  BY <1>2, LossKeepsPlaces
<1>3. CASE \E r \in running : ServerLoses(r)
  BY <1>3, ServerLosesKeepsPlaces
<1> QED BY <1>1, <1>2, <1>3, CallsKeepPlaces, ReadsKeepPlaces, ServersKeepPlaces DEF Next

LEMMA PlaceInvInit == Init => PlaceInv
<1> SUFFICES ASSUME Init PROVE PlaceInv
  OBVIOUS
<1>1. \A c \in Chans : Ids(requests[c]) = {} /\ Ids(lines[c]) = {} /\ RunningFor(c) = {} /\ Listed(c) = {}
  BY DEF Init, Ids, RunningFor, Listed
<1>2. running = {} /\ \A c \in Chans : Told(c) = {}
  BY <1>1 DEF Init, Told, Replies
<1> QED BY <1>1, <1>2 DEF PlaceInv, On

LEMMA TasksArePlaced == Spec => []PlaceInv
<1> QED BY PlaceInvInit, ClientIsTyped, PlaceInvNext, PTL DEF Spec

(* In every behaviour the two lists of pending tasks agree, but for the tasks     *)
(* whose end came on another channel than their own, and no task is on the list   *)
(* of two channels (tolclient.tcl:376-380, 437-460, 505-513).                     *)
THEOREM PendingListsAgree == Spec => []ListsAgree
<1>1. PlaceInv => ListsAgree
  <2> SUFFICES ASSUME PlaceInv, NEW c \in Chans, chanTasks[c] # None
               PROVE  /\ chanTasks[c] \subseteq global \cup strays
                      /\ \A d \in Chans \ {c} : chanTasks[d] # None => chanTasks[c] \cap chanTasks[d] = {}
    BY DEF ListsAgree
  <2>1. \A d \in Chans : chanTasks[d] # None => chanTasks[d] = Listed(d) /\ chanTasks[d] \subseteq On(d)
    BY DEF Listed, On
  <2>2. \A d \in Chans : d # c => On(c) \cap On(d) = {}
    BY DEF PlaceInv
  <2> QED BY <2>1, <2>2 DEF PlaceInv
<1> QED BY <1>1, TasksArePlaced, PTL

-----------------------------------------------------------------------------
(* Tasks while no connection is lost.                                       *)

FinishAfter(s, i, t) == \E j \in DOMAIN s : j > i /\ s[j] = [tag |-> "TFINISH", id |-> t]

RunningIds == {r.id : r \in running}

(* Each start on its way is that of a task that runs, or has finished since. *)
Starts(s, ids) == \A i \in DOMAIN s : s[i].tag = "TSTART" => s[i].id \in ids \/ FinishAfter(s, i, s[i].id)

(* What is asked or runs has an open channel, where its end will be told; and a  *)
(* pending task is on the list of some channel.                                *)
RunInv ==
  losses = 0 =>
    /\ \A c \in Chans : requests[c] # <<>> => c \in opened
    /\ \A r \in running : r.chan \in opened
    /\ \A t \in global : \E c \in Chans : t \in Listed(c)
    /\ \A c \in Chans : Starts(lines[c], RunningIds)
    /\ \A t \in global : t \in RunningIds \/ \E c \in opened : FinishAfter(lines[c], 0, t)

LEMMA FinishInTail ==
  ASSUME NEW s \in Seq(Lines), s # <<>>, NEW t
  PROVE  /\ \A i \in Nat : FinishAfter(s, i + 1, t) => FinishAfter(Tail(s), i, t)
         /\ FinishAfter(s, 0, t) /\ Head(s) # [tag |-> "TFINISH", id |-> t] => FinishAfter(Tail(s), 0, t)
<1>1. /\ Head(s) = s[1] /\ Len(s) \in Nat /\ DOMAIN s = 1 .. Len(s)
      /\ DOMAIN Tail(s) = 1 .. Len(s) - 1 /\ \A i \in 1 .. Len(s) - 1 : Tail(s)[i] = s[i + 1]
  BY PopOf
<1>2. ASSUME NEW i \in Nat, NEW j \in DOMAIN s, j > i, j # 1
      PROVE  j - 1 \in DOMAIN Tail(s) /\ Tail(s)[j - 1] = s[j] /\ j - 1 >= i
  <2>1. j - 1 \in 1 .. Len(s) - 1 /\ (j - 1) + 1 = j
    BY <1>1, <1>2
  <2> QED BY <1>1, <1>2, <2>1
<1>3. ASSUME NEW i \in Nat, FinishAfter(s, i + 1, t)
      PROVE  FinishAfter(Tail(s), i, t)
  <2>1. PICK j \in DOMAIN s : j > i + 1 /\ s[j] = [tag |-> "TFINISH", id |-> t]
    BY <1>3 DEF FinishAfter
  <2>2. j - 1 \in DOMAIN Tail(s) /\ Tail(s)[j - 1] = s[j]
    BY <1>1, <1>2, <2>1
  <2>3. j - 1 > i
    BY <1>1, <2>1
  <2> QED BY <2>1, <2>2, <2>3 DEF FinishAfter
<1>4. ASSUME FinishAfter(s, 0, t), Head(s) # [tag |-> "TFINISH", id |-> t]
      PROVE  FinishAfter(Tail(s), 0, t)
  <2>1. PICK j \in DOMAIN s : j > 0 /\ s[j] = [tag |-> "TFINISH", id |-> t]
    BY <1>4 DEF FinishAfter
  <2>2. j # 1
    BY <1>1, <1>4, <2>1
  <2>3. j - 1 \in DOMAIN Tail(s) /\ Tail(s)[j - 1] = s[j]
    BY <1>2, <2>1, <2>2
  <2>4. j - 1 > 0
    BY <1>1, <2>2
  <2> QED BY <2>1, <2>3, <2>4 DEF FinishAfter
<1> QED BY <1>3, <1>4

LEMMA FinishInAppend ==
  ASSUME NEW s \in Seq(Lines), NEW m \in Lines, NEW t, NEW i
  PROVE  /\ FinishAfter(s, i, t) => FinishAfter(Append(s, m), i, t)
         /\ m = [tag |-> "TFINISH", id |-> t] /\ (i = 0 \/ i \in DOMAIN s) => FinishAfter(Append(s, m), i, t)
<1>1. /\ DOMAIN s = 1 .. Len(s) /\ Len(s) \in Nat /\ Append(s, m) \in Seq(Lines)
      /\ Len(Append(s, m)) = Len(s) + 1
      /\ \A k \in 1 .. Len(s) : Append(s, m)[k] = s[k]
      /\ Append(s, m)[Len(s) + 1] = m
  BY AppendProperties, LenProperties
<1>2. DOMAIN Append(s, m) = 1 .. Len(s) + 1
  BY <1>1, LenProperties
<1>3. FinishAfter(s, i, t) => FinishAfter(Append(s, m), i, t)
  BY <1>1, <1>2 DEF FinishAfter
<1>4. Len(s) + 1 \in DOMAIN Append(s, m) /\ (i = 0 \/ i \in DOMAIN s => Len(s) + 1 > i)
  BY <1>1, <1>2
<1> QED BY <1>1, <1>3, <1>4 DEF FinishAfter

LEMMA StartsInTail ==
  ASSUME NEW s \in Seq(Lines), s # <<>>, NEW ids, Starts(s, ids)
  PROVE  Starts(Tail(s), ids)
<1>1. /\ Len(s) \in Nat /\ DOMAIN s = 1 .. Len(s)
      /\ DOMAIN Tail(s) = 1 .. Len(s) - 1 /\ \A i \in 1 .. Len(s) - 1 : Tail(s)[i] = s[i + 1]
  BY PopOf
<1> SUFFICES ASSUME NEW i \in DOMAIN Tail(s), Tail(s)[i].tag = "TSTART"
             PROVE  Tail(s)[i].id \in ids \/ FinishAfter(Tail(s), i, Tail(s)[i].id)
  BY DEF Starts
<1>2. i + 1 \in DOMAIN s /\ Tail(s)[i] = s[i + 1] /\ i \in Nat
  BY <1>1
<1>3. s[i + 1].id \in ids \/ FinishAfter(s, i + 1, s[i + 1].id)
  BY <1>2 DEF Starts
<1> QED BY <1>2, <1>3, FinishInTail

LEMMA StartsInAppend ==
  ASSUME NEW s \in Seq(Lines), NEW ids, NEW new, Starts(s, ids), NEW m \in Lines,
         \A x \in ids : x \in new \/ m = [tag |-> "TFINISH", id |-> x] \/ x \notin Ids(s),
         m.tag = "TSTART" => m.id \in new
  PROVE  Starts(Append(s, m), new)
<1>1. /\ DOMAIN s = 1 .. Len(s) /\ Len(s) \in Nat /\ Append(s, m) \in Seq(Lines)
      /\ Len(Append(s, m)) = Len(s) + 1
      /\ \A k \in 1 .. Len(s) : Append(s, m)[k] = s[k]
      /\ Append(s, m)[Len(s) + 1] = m
  BY AppendProperties, LenProperties
<1>2. DOMAIN Append(s, m) = 1 .. Len(s) + 1
  BY <1>1, LenProperties
<1>3. \A i \in DOMAIN Append(s, m) : i = Len(s) + 1 \/ (i \in DOMAIN s /\ Append(s, m)[i] = s[i])
  BY <1>1, <1>2
<1> SUFFICES ASSUME NEW i \in DOMAIN s, s[i].tag = "TSTART"
             PROVE  s[i].id \in new \/ FinishAfter(Append(s, m), i, s[i].id)
  BY <1>1, <1>3 DEF Starts
<1>4. CASE FinishAfter(s, i, s[i].id)
  BY <1>4, FinishInAppend
<1>5. CASE s[i].id \in ids
  <2>1. s[i].id \in Ids(s)
    BY DEF Ids
  <2>2. s[i].id \in new \/ m = [tag |-> "TFINISH", id |-> s[i].id]
    BY <1>5, <2>1
  <2> QED BY <2>2, FinishInAppend
<1> QED BY <1>4, <1>5 DEF Starts

\* What starts, ends or answers no task
LEMMA SameRuns ==
  ASSUME RunInv, UNCHANGED <<running, global, chanTasks, lines, losses>>, opened \subseteq opened',
         \A c \in Chans : requests'[c] # <<>> => requests[c] # <<>> \/ c \in opened'
  PROVE  RunInv'
<1> SUFFICES ASSUME losses = 0 PROVE RunInv'
  BY DEF RunInv
<1>1. RunningIds' = RunningIds /\ \A c \in Chans : Listed(c)' = Listed(c)
  BY DEF RunningIds, Listed
<1> QED BY <1>1 DEF RunInv

LEMMA NoMoreRequests ==
  ASSUME RunInv, UNCHANGED <<running, global, chanTasks, lines, losses, opened, requests>>
  PROVE  RunInv'
<1> QED BY SameRuns

LEMMA AskKeepsRuns ==
  ASSUME WaitInv, RunInv, NEW h \in Hosts, NEW tag, NEW e, NEW callers, Ask(h, tag, e, callers)
  PROVE  RunInv'
<1>1. Sent(h, tag, e, callers) \/ Refused(callers) \/ Failed(h, callers)
  BY AskCases DEF WaitInv
<1>2. UNCHANGED <<running, global, chanTasks, lines>>
  BY AskCases DEF WaitInv, taskVars
<1>3. CASE Refused(callers) \/ Failed(h, callers)
  <2>1. losses' = losses + 1 /\ losses \in Nat
    BY <1>3, Zenon DEF Refused, Failed, WaitInv, TypeInv
  <2>2. losses' # 0
    BY <2>1
  <2> QED BY <2>2 DEF RunInv
<1>4. CASE Sent(h, tag, e, callers)
  <2>1. PICK c \in Chans :
          /\ opened' = opened \cup {c}
          /\ requests' = [requests EXCEPT ![c] = Append(@, [tag |-> tag, id |-> NewId, expr |-> e])]
          /\ UNCHANGED losses
    BY <1>4 DEF Sent
  <2>2. \A d \in Chans : d = c \/ requests'[d] = requests[d]
    BY <2>1 DEF WaitInv, TypeInv
  <2> QED BY <1>2, <2>1, <2>2, SameRuns
<1> QED BY <1>1, <1>3, <1>4

LEMMA CallsKeepRuns ==
  ASSUME WaitInv, RunInv, Users \/ Calls \/ IdleCallBack \/ Timeouts
  PROVE  RunInv'
<1> USE DEF channelVars, taskVars, clusterVars, serverVars, usage
<1>1. ASSUME NEW h \in Hosts, NEW tag \in {"PING", "TOLEVAL"}, UserAsks(h, tag)
      PROVE  RunInv'
  BY <1>1, AskKeepsRuns DEF UserAsks
<1>2. ASSUME NEW tasks \in SUBSET (1 .. counter), ServerWait(tasks)
      PROVE  RunInv'
  BY <1>2, NoMoreRequests DEF ServerWait
<1>3. ASSUME NEW n \in 1 .. MaxExprs, ClusterEval(n)
      PROVE  RunInv'
  BY <1>3, NoMoreRequests DEF ClusterEval
<1>4. CASE AskReturns
  BY <1>4, NoMoreRequests DEF AskReturns
<1>5. CASE WaitGoesOn
  BY <1>5, NoMoreRequests DEF WaitGoesOn
<1>6. CASE IdleCallBack
  BY <1>6, NoMoreRequests DEF IdleCallBack
<1>7. ASSUME NEW id \in timers, OnTimeout(id)
      PROVE  RunInv'
  BY <1>7, NoMoreRequests DEF OnTimeout
<1>8. CASE Reconnect
  <2> DEFINE f == Head(stack)
  <2>1. f.host \in Hosts
    BY <1>8, HeadFrame DEF Reconnect, Innermost, ReconnectFrames, WaitInv, TypeInv
  <2>2. ASSUME NEW rest, Ask(f.host, "RECONN", None, rest) PROVE RunInv'
    BY <2>1, <2>2, AskKeepsRuns
  <2>3. \/ UNCHANGED <<channelVars, taskVars, counter, timers, clusterVars, serverVars, losses, early>>
        \/ \E rest : Ask(f.host, "RECONN", None, rest)
    BY <1>8, Zenon DEF Reconnect
  <2> QED BY <2>2, <2>3, NoMoreRequests
<1>9. CASE ClusterLaunch
  <2> DEFINE f == Head(stack)
  <2>1. CASE Ask(Head(f.hosts), "TOLEVAL", Head(f.todo), stack) /\ f.hosts # <<>>
    <3>1. f \in LaunchFrames
      BY <1>9, HeadFrame DEF ClusterLaunch, Innermost, WaitInv, TypeInv
    <3>2. Head(f.hosts) \in Hosts
      BY <2>1, <3>1, HeadTailProperties DEF LaunchFrames
    <3> QED BY <2>1, <3>2, AskKeepsRuns
  <2>2. \/ UNCHANGED <<running, global, chanTasks, lines, losses, opened, requests>>
        \/ Ask(Head(f.hosts), "TOLEVAL", Head(f.todo), stack) /\ f.hosts # <<>>
    BY <1>9 DEF ClusterLaunch
  <2> QED BY <2>1, <2>2, NoMoreRequests
<1> QED BY <1>1, <1>2, <1>3, <1>4, <1>5, <1>6, <1>7, <1>8, <1>9 DEF Users, Calls, Timeouts

\* A line that starts or ends nothing, or nothing that is pending
LEMMA LineIgnored ==
  ASSUME WaitInv, RunInv, NEW c \in Chans, NEW tag, Read(c, tag), UNCHANGED <<global, chanTasks>>,
         tag = "TFINISH" => Head(lines[c]).id \notin global
  PROVE  RunInv'
<1> SUFFICES ASSUME losses = 0 PROVE RunInv'
  BY DEF RunInv, Read, usage
<1> DEFINE s == lines[c]
<1>1. s \in Seq(Lines) /\ s # <<>> /\ Head(s).tag = tag
  BY DEF Read, WaitInv, TypeInv
<1>2. lines' = [d \in Chans |-> IF d = c THEN Tail(s) ELSE lines[d]]
  BY DEF Read, WaitInv, TypeInv
<1>3. UNCHANGED <<opened, requests, running, losses>>
  BY DEF Read, usage
<1>4. RunningIds' = RunningIds /\ \A d \in Chans : Listed(d)' = Listed(d)
  BY <1>3 DEF RunningIds, Listed
<1> HIDE DEF s
<1>5. \A d \in Chans : Starts(lines'[d], RunningIds')
  <2>1. Starts(Tail(s), RunningIds)
    BY <1>1, StartsInTail DEF RunInv, s
  <2> QED BY <1>2, <1>4, <2>1 DEF RunInv
<1>6. ASSUME NEW t \in global, NEW d \in opened, FinishAfter(lines[d], 0, t)
      PROVE  FinishAfter(lines'[d], 0, t)
  <2>1. d \in Chans
    BY DEF WaitInv, TypeInv
  <2>2. CASE d # c
    BY <1>2, <1>6, <2>1, <2>2
  <2>3. CASE d = c
    <3>1. Head(s) # [tag |-> "TFINISH", id |-> t]
      BY <1>1 DEF s
    <3>2. FinishAfter(Tail(s), 0, t)
      BY <1>1, <1>6, <2>3, <3>1, FinishInTail DEF s
    <3> QED BY <1>2, <2>1, <2>3, <3>2
  <2> QED BY <2>2, <2>3
<1> QED BY <1>3, <1>4, <1>5, <1>6 DEF RunInv

LEMMA ReadsKeepRuns ==
  ASSUME None \notin SUBSET Nat, WaitInv, PlaceInv, RunInv, Reads
  PROVE  RunInv'
<1>1. ASSUME NEW c \in Chans, OnAckPing(c)
      PROVE  RunInv'
  BY <1>1, LineIgnored DEF OnAckPing, taskVars
<1>2. ASSUME NEW c \in Chans, OnStartTask(c)
      PROVE  RunInv'
  <2> DEFINE id == Head(lines[c]).id
             s == lines[c]
  <2>1. CASE UNCHANGED <<global, chanTasks>>
    BY <1>2, <2>1, LineIgnored DEF OnStartTask
  <2>2. CASE global' = global \cup {id} /\ chanTasks' = [chanTasks EXCEPT ![c] = Lappend(@, id)]
    <3> SUFFICES ASSUME losses = 0 PROVE RunInv'
      BY <1>2 DEF RunInv, OnStartTask, Read, usage
    <3>1. s \in Seq(Lines) /\ s # <<>> /\ Head(s).tag = "TSTART" /\ Head(s) \in Lines /\ c \in opened
      BY <1>2, HeadTailProperties DEF OnStartTask, Read, WaitInv, TypeInv
    <3>2. lines' = [d \in Chans |-> IF d = c THEN Tail(s) ELSE lines[d]]
      BY <1>2 DEF OnStartTask, Read, WaitInv, TypeInv
    <3>3. UNCHANGED <<opened, requests, running, losses>>
      BY <1>2 DEF OnStartTask, Read, usage
    <3>4. RunningIds' = RunningIds
      BY <3>3 DEF RunningIds
    <3>5. id \in Nat
      BY <3>1 DEF Lines
    <3>6. Listed(c)' = Listed(c) \cup {id} /\ \A d \in Chans : d # c => Listed(d)' = Listed(d)
      <4>1. /\ chanTasks'[c] = Listed(c) \cup {id}
            /\ \A d \in Chans : d # c => chanTasks'[d] = chanTasks[d]
        BY <2>2 DEF Listed, Lappend, WaitInv, TypeInv
      <4>2. Listed(c) \cup {id} # None
        BY <3>5 DEF Listed, WaitInv, TypeInv
      <4> QED BY <4>1, <4>2 DEF Listed
    <3>7. \A t \in global' : \E d \in Chans : t \in Listed(d)'
      BY <2>2, <3>6 DEF RunInv
    <3> HIDE DEF s
    <3>8. \A d \in Chans : Starts(lines'[d], RunningIds')
      <4>1. Starts(Tail(s), RunningIds)
        BY <3>1, StartsInTail DEF RunInv, s
      <4> QED BY <3>2, <3>4, <4>1 DEF RunInv
    <3>9. id \in RunningIds \/ FinishAfter(Tail(s), 0, id)
      <4>1. Head(s) = s[1] /\ 1 \in DOMAIN s
        BY <3>1, PopOf
      <4>2. id \in RunningIds \/ FinishAfter(s, 1, id)
        BY <3>1, <4>1 DEF RunInv, Starts, s
      <4>3. FinishAfter(s, 0 + 1, id) => FinishAfter(Tail(s), 0, id)
        BY <3>1, FinishInTail
      <4> QED BY <4>2, <4>3
    <3>10. ASSUME NEW t \in global, NEW d \in opened, FinishAfter(lines[d], 0, t)
           PROVE  FinishAfter(lines'[d], 0, t)
      <4>1. d \in Chans
        BY DEF WaitInv, TypeInv
      <4>2. CASE d # c
        BY <3>2, <3>10, <4>1, <4>2
      <4>3. CASE d = c
        <5>1. Head(s) # [tag |-> "TFINISH", id |-> t]
          BY <3>1
        <5>2. FinishAfter(Tail(s), 0, t)
          BY <3>1, <3>10, <4>3, <5>1, FinishInTail DEF s
        <5> QED BY <3>2, <4>1, <4>3, <5>2
      <4> QED BY <4>2, <4>3
    <3>11. \A t \in global' : t \in RunningIds' \/ \E d \in opened' : FinishAfter(lines'[d], 0, t)
      <4>1. id \in RunningIds' \/ FinishAfter(lines'[c], 0, id)
        BY <3>2, <3>4, <3>9
      <4> QED BY <2>2, <3>1, <3>3, <3>4, <3>10, <4>1 DEF RunInv
    <3> QED BY <3>3, <3>7, <3>8, <3>11 DEF RunInv
  <2> QED BY <1>2, <2>1, <2>2 DEF OnStartTask
<1>3. ASSUME NEW c \in Chans, OnFinishTask(c)
      PROVE  RunInv'
  <2> DEFINE t == Head(lines[c]).id
             s == lines[c]
  <2>1. s \in Seq(Lines) /\ s # <<>> /\ Head(s).tag = "TFINISH" /\ t \in Ids(s)
    BY <1>3, IdsOf DEF OnFinishTask, Read, WaitInv, TypeInv
  <2>2. losses = 0 => t \in On(c)
    BY <2>1 DEF On, Told
  <2>3. CASE chanTasks[c] = None /\ UNCHANGED <<global, chanTasks>>
    <3> SUFFICES ASSUME losses = 0 PROVE RunInv'
      BY <1>3 DEF RunInv, OnFinishTask, Read, usage
    <3>1. \A d \in Chans : t \notin Listed(d)
      <4>1. Listed(c) = {}
        BY <2>3 DEF Listed
      <4>2. \A d \in Chans : d # c => t \notin On(d)
        BY <2>2 DEF PlaceInv
      <4> QED BY <4>1, <4>2 DEF On
    <3>2. t \notin global
      BY <3>1 DEF RunInv
    <3> QED BY <1>3, <2>3, <3>2, LineIgnored DEF OnFinishTask
  <2>4. CASE chanTasks[c] # None /\ chanTasks' = OffChannel(c, t) /\ global' = OffPending(t)
    <3> SUFFICES ASSUME losses = 0 PROVE RunInv'
      BY <1>3 DEF RunInv, OnFinishTask, Read, usage
    <3>2. lines' = [d \in Chans |-> IF d = c THEN Tail(s) ELSE lines[d]]
      BY <1>3 DEF OnFinishTask, Read, WaitInv, TypeInv
    <3>3. UNCHANGED <<opened, requests, running, losses>>
      BY <1>3 DEF OnFinishTask, Read, usage
    <3>4. RunningIds' = RunningIds /\ global' = global \ {t}
      BY <2>4, <3>3 DEF RunningIds, OffPending
    <3>5. Listed(c)' = Listed(c) \ {t} /\ \A d \in Chans : d # c => Listed(d)' = Listed(d)
      <4>1. /\ chanTasks'[c] = Listed(c) \ {t}
            /\ \A d \in Chans : d # c => chanTasks'[d] = chanTasks[d]
        BY <2>4 DEF OffChannel, Listed, WaitInv, TypeInv
      <4>2. Listed(c) \ {t} # None
        BY DEF Listed, WaitInv, TypeInv
      <4> QED BY <4>1, <4>2 DEF Listed
    <3>6. \A u \in global' : \E d \in Chans : u \in Listed(d)'
      BY <3>4, <3>5 DEF RunInv
    <3> HIDE DEF s
    <3>7. \A d \in Chans : Starts(lines'[d], RunningIds')
      <4>1. Starts(Tail(s), RunningIds)
        BY <2>1, StartsInTail DEF RunInv, s
      <4> QED BY <3>2, <3>4, <4>1 DEF RunInv
    <3>8. ASSUME NEW u \in global', NEW d \in opened, FinishAfter(lines[d], 0, u)
          PROVE  FinishAfter(lines'[d], 0, u)
      <4>1. d \in Chans /\ u # t
        BY <3>4 DEF WaitInv, TypeInv
      <4>2. CASE d # c
        BY <3>2, <3>8, <4>1, <4>2
      <4>3. CASE d = c
        <5>1. Head(s) # [tag |-> "TFINISH", id |-> u]
          BY <4>1 DEF s
        <5>2. FinishAfter(Tail(s), 0, u)
          BY <2>1, <3>8, <4>3, <5>1, FinishInTail DEF s
        <5> QED BY <3>2, <4>1, <4>3, <5>2
      <4> QED BY <4>2, <4>3
    <3> QED BY <3>3, <3>4, <3>6, <3>7, <3>8 DEF RunInv
  <2> QED BY <1>3, <2>3, <2>4 DEF OnFinishTask, taskVars
<1> QED BY <1>1, <1>2, <1>3 DEF Reads

LEMMA ServersKeepRuns ==
  ASSUME WaitInv, PlaceInv, RunInv, Servers
  PROVE  RunInv'
<1> USE DEF WaitInv
<1>1. ASSUME NEW c \in Chans, ServerAnswers(c)
      PROVE  RunInv'
  <2> SUFFICES ASSUME losses = 0 PROVE RunInv'
    BY <1>1 DEF RunInv, ServerAnswers, usage
  <2> DEFINE r == Head(requests[c])
             new == [id |-> r.id, host |-> peer[c], chan |-> c]
  <2>1. requests[c] \in Seq(Requests) /\ requests[c] # <<>> /\ r \in Requests
    BY <1>1, HeadTailProperties DEF ServerAnswers, TypeInv
  <2>2. UNCHANGED <<opened, global, chanTasks, losses>> /\ c \in opened
    BY <1>1, <2>1 DEF ServerAnswers, channelVars, taskVars, usage, RunInv
  <2>3. \A d \in Chans : requests'[d] # <<>> => d \in opened
    BY <1>1, <2>2 DEF ServerAnswers, TypeInv, RunInv
  <2>4. \A d \in Chans : Listed(d)' = Listed(d)
    BY <2>2 DEF Listed
  <2>5. ASSUME NEW m \in Lines, m.tag = "ACKPING" \/ m.tag = "TSTART", m.id = r.id,
               lines' = [lines EXCEPT ![c] = Append(@, m)],
               running' = running \cup (IF m.tag = "TSTART" THEN {new} ELSE {})
        PROVE  RunInv'
    <3>1. /\ lines' = [d \in Chans |-> IF d = c THEN Append(lines[c], m) ELSE lines[d]]
          /\ lines[c] \in Seq(Lines)
      BY <2>5 DEF TypeInv
    <3>2. RunningIds \subseteq RunningIds' /\ (m.tag = "TSTART" => m.id \in RunningIds')
      <4>1. new.id = r.id
        OBVIOUS
      <4> HIDE DEF new
      <4>2. m.tag = "TSTART" => new \in running'
        BY <2>5
      <4> QED BY <2>5, <4>1, <4>2 DEF RunningIds
    <3>3. \A q \in running' : q.chan \in opened'
      BY <2>2, <2>5 DEF RunInv
    <3>4. \A d \in Chans : Starts(lines'[d], RunningIds')
      <4>1. Starts(Append(lines[c], m), RunningIds')
        BY <3>1, <3>2, StartsInAppend DEF RunInv
      <4>2. \A d \in Chans : Starts(lines[d], RunningIds')
        BY <3>2 DEF RunInv, Starts
      <4> QED BY <3>1, <4>1, <4>2
    <3>5. \A t : \A d \in opened : FinishAfter(lines[d], 0, t) => FinishAfter(lines'[d], 0, t)
      BY <3>1, FinishInAppend DEF TypeInv
    <3> QED BY <2>2, <2>3, <2>4, <3>2, <3>3, <3>4, <3>5 DEF RunInv
  <2>6. CASE UNCHANGED <<lines, running, accepted>>
    BY <2>2, <2>3, <2>4, <2>6, SameRuns
  <2>7. \A tag \in {"ACKPING", "TSTART"} :
          LET m == [tag |-> tag, id |-> r.id] IN m \in Lines /\ m.tag = tag /\ m.id = r.id
    BY <2>1 DEF Requests, Lines
  <2> QED BY <1>1, <2>5, <2>6, <2>7 DEF ServerAnswers
<1>2. ASSUME NEW r \in running, ServerFinishes(r)
      PROVE  RunInv'
  <2> SUFFICES ASSUME losses = 0 PROVE RunInv'
    BY <1>2 DEF RunInv, ServerFinishes, usage
  <2> DEFINE c == r.chan
             m == [tag |-> "TFINISH", id |-> r.id]
  <2>1. UNCHANGED <<opened, global, chanTasks, requests, losses>> /\ running' = running \ {r}
    BY <1>2 DEF ServerFinishes, channelVars, taskVars, usage
  <2>2. c \in opened /\ c \in Chans /\ c # None /\ r \in Evaluations
    BY TolClientAssumption DEF RunInv, TypeInv
  <2>3. m \in Lines /\ lines[c] \in Seq(Lines)
    BY <2>2 DEF Evaluations, Lines, TypeInv
  <2>4. lines' = [d \in Chans |-> IF d = c THEN Append(lines[c], m) ELSE lines[d]]
    BY <1>2, <2>2 DEF ServerFinishes, TypeInv
  <2>5. RunningIds \subseteq RunningIds' \cup {r.id} /\ RunningIds' \subseteq RunningIds
    BY <2>1 DEF RunningIds
  <2>6. \A d \in Chans : Listed(d)' = Listed(d)
    BY <2>1 DEF Listed
  <2>7. \A d \in Chans : d # c => r.id \notin Ids(lines[d])
    <3>1. r.id \in On(c)
      BY DEF On, Told, RunningFor
    <3>2. \A d \in Chans : d # c => r.id \notin On(d)
      BY <2>2, <3>1 DEF PlaceInv
    <3> QED BY <3>2 DEF On, Told
  <2>8. \A d \in Chans : Starts(lines'[d], RunningIds')
    <3> SUFFICES ASSUME NEW d \in Chans PROVE Starts(lines'[d], RunningIds')
      OBVIOUS
    <3>1. Starts(lines[d], RunningIds)
      BY DEF RunInv
    <3>2. CASE d = c
      <4>1. \A x \in RunningIds : x \in RunningIds' \/ m = [tag |-> "TFINISH", id |-> x]
        BY <2>5
      <4>2. m.tag # "TSTART"
        OBVIOUS
      <4> HIDE DEF m
      <4>3. Starts(Append(lines[c], m), RunningIds')
        BY <2>3, <3>1, <3>2, <4>1, <4>2, StartsInAppend
      <4> QED BY <2>4, <3>2, <4>3
    <3>3. CASE d # c
      <4>1. \A i \in DOMAIN lines[d] : lines[d][i].id # r.id
        BY <2>7, <3>3 DEF Ids
      <4>2. Starts(lines[d], RunningIds')
        BY <2>5, <3>1, <4>1 DEF Starts
      <4> QED BY <2>4, <3>3, <4>2
    <3> QED BY <3>2, <3>3
  <2>9. \A t : \A d \in opened : FinishAfter(lines[d], 0, t) => FinishAfter(lines'[d], 0, t)
    BY <2>3, <2>4, FinishInAppend DEF TypeInv
  <2>10. FinishAfter(lines'[c], 0, r.id)
    BY <2>2, <2>3, <2>4, FinishInAppend
  <2>11. \A t \in global' : t \in RunningIds' \/ \E d \in opened' : FinishAfter(lines'[d], 0, t)
    BY <2>1, <2>2, <2>5, <2>9, <2>10 DEF RunInv
  <2> QED BY <2>1, <2>6, <2>8, <2>11 DEF RunInv
<1> QED BY <1>1, <1>2 DEF Servers

(* In every behaviour without a lost connection or task a pending task is one that a *)
(* server evaluates, or whose end is on its way to the client: the lists leave   *)
(* nothing behind (tolclient.tcl:376-380, 451-470).  The list of a channel is    *)
(* taken to be no mark of an element that does not exist.                       *)
THEOREM PendingRuns ==
  ASSUME None \notin SUBSET Nat
  PROVE  Spec => []PendingIsRunning
<1>1. Init => RunInv
  BY DEF Init, RunInv, Starts
<1>2. WaitInv /\ PlaceInv /\ RunInv /\ [Next]_vars => RunInv'
  <2> SUFFICES ASSUME WaitInv, PlaceInv, RunInv, [Next]_vars PROVE RunInv'
    OBVIOUS
  <2>1. CASE UNCHANGED vars
    BY <2>1, NoMoreRequests DEF vars, channelVars, taskVars, serverVars, usage
  <2>2. ASSUME NEW c \in Chans, OnEofChannel(c) PROVE RunInv'
    <3>1. losses' = losses + 1 /\ losses \in Nat
      BY <2>2, Zenon DEF OnEofChannel, WaitInv, TypeInv
    <3>2. losses' # 0
      BY <3>1
    <3> QED BY <3>2 DEF RunInv
  <2>3. ASSUME NEW r \in running, ServerLoses(r) PROVE RunInv'
    <3>1. losses' = losses + 1 /\ losses \in Nat
      BY <2>3, Zenon DEF ServerLoses, WaitInv, TypeInv
    <3>2. losses' # 0
      BY <3>1
    <3> QED BY <3>2 DEF RunInv
  <2> QED BY <2>1, <2>2, <2>3, CallsKeepRuns, ReadsKeepRuns, ServersKeepRuns DEF Next
<1>3. WaitInv /\ RunInv => PendingIsRunning
  <2> SUFFICES ASSUME WaitInv, RunInv, losses = 0, NEW t \in global
               PROVE  \/ \E r \in running : r.id = t
                      \/ \E c \in opened : \E i \in DOMAIN lines[c] : lines[c][i] = [tag |-> "TFINISH", id |-> t]
    BY DEF PendingIsRunning
  <2> QED BY DEF RunInv, RunningIds, FinishAfter
<1>4. Spec => []RunInv
  BY <1>1, <1>2, ClientIsTyped, TasksArePlaced, PTL DEF Spec
<1> QED BY <1>3, <1>4, ClientIsTyped, PTL

-----------------------------------------------------------------------------
(* The ends a wait misses.                                                 *)

(* What a call still waits for is pending, or has just ended. *)
Sees(f, pending, ended) ==
  f.kind = "wait" => f.waiting \subseteq pending \cup (IF f.woken THEN {ended} ELSE {})

AllSee(s, pending, ended) == \A i \in DOMAIN s : Sees(s[i], pending, ended)

(* The end a wait was woken for is overwritten, while another call keeps it from   *)
(* going on.                                                                   *)
Overwritten ==
  \E i \in DOMAIN stack \ {1} :
    /\ stack[i].kind = "wait" /\ stack[i].woken
    /\ lastTask \in stack[i].waiting /\ lastTask' # lastTask

LEMMA AllSeeIs == MissesNoEnd <=> AllSee(stack, global, lastTask)
<1> QED BY DEF MissesNoEnd, AllSee, Sees

\* A call over others, and the others alone
LEMMA AllSeePush ==
  ASSUME NEW M, NEW s \in Seq(M), NEW f \in M, NEW pending, NEW ended,
         Sees(f, pending, ended), AllSee(s, pending, ended)
  PROVE  AllSee(<<f>> \o s, pending, ended)
<1>1. /\ Len(s) \in Nat /\ DOMAIN s = 1 .. Len(s)
      /\ DOMAIN (<<f>> \o s) = 1 .. Len(s) + 1
      /\ (<<f>> \o s)[1] = f
      /\ \A i \in 1 .. Len(s) : (<<f>> \o s)[i + 1] = s[i]
  BY PushOf
<1> SUFFICES ASSUME NEW i \in 1 .. Len(s) + 1 PROVE Sees((<<f>> \o s)[i], pending, ended)
  BY <1>1 DEF AllSee
<1>2. CASE i = 1
  BY <1>1, <1>2
<1>3. CASE i # 1
  <2>1. i - 1 \in 1 .. Len(s) /\ (i - 1) + 1 = i
    BY <1>1, <1>3
  <2> QED BY <1>1, <2>1 DEF AllSee
<1> QED BY <1>2, <1>3

LEMMA AllSeePop ==
  ASSUME NEW M, NEW s \in Seq(M), s # <<>>, NEW pending, NEW ended, AllSee(s, pending, ended)
  PROVE  Sees(Head(s), pending, ended) /\ AllSee(Tail(s), pending, ended)
<1>1. /\ Head(s) = s[1] /\ Len(s) \in Nat /\ Len(s) # 0 /\ DOMAIN s = 1 .. Len(s)
      /\ DOMAIN Tail(s) = 1 .. Len(s) - 1 /\ \A i \in 1 .. Len(s) - 1 : Tail(s)[i] = s[i + 1]
  BY PopOf
<1>2. 1 \in DOMAIN s /\ \A i \in DOMAIN Tail(s) : i + 1 \in DOMAIN s /\ Tail(s)[i] = s[i + 1]
  BY <1>1
<1> QED BY <1>1, <1>2 DEF AllSee

LEMMA AllSeeReturn ==
  ASSUME NEW s \in Seq(WaitingFrames), NEW result, NEW pending, NEW ended, AllSee(s, pending, ended)
  PROVE  AllSee(Return(result, s), pending, ended) /\ AllSee(Throw(s), pending, ended)
<1>1. AllSee(Throw(s), pending, ended)
  BY AllSeePop DEF Throw
<1>2. CASE s # <<>> /\ Head(s).kind = "launch"
  <2>1. PICK g \in LaunchFrames : Return(result, s) = <<g>> \o Tail(s)
    BY <1>2, ReturnToLaunch
  <2>2. Tail(s) \in Seq(WaitingFrames) /\ AllSee(Tail(s), pending, ended)
    BY <1>2, PopOf, AllSeePop
  <2>3. Tail(s) \in Seq(Frames) /\ g \in Frames
    BY <2>2, WaitingStack DEF IsStack, Frames
  <2>4. Sees(g, pending, ended)
    BY DEF LaunchFrames, Sees
  <2>5. AllSee(<<g>> \o Tail(s), pending, ended)
    BY <2>2, <2>3, <2>4, AllSeePush
  <2> QED BY <1>1, <2>1, <2>5
<1>3. CASE ~(s # <<>> /\ Head(s).kind = "launch")
  BY <1>1, <1>3 DEF Return
<1> QED BY <1>2, <1>3

LEMMA AllSeeAnswered ==
  ASSUME WaitInv, MissesNoEnd, NEW ids, NEW value, stack' = Answered(ids, value),
         global \subseteq global', UNCHANGED lastTask
  PROVE  MissesNoEnd'
<1>1. DOMAIN stack' = DOMAIN stack
  BY DEF Answered
<1>2. ASSUME NEW i \in DOMAIN stack
      PROVE  stack'[i] = stack[i] \/ stack'[i].kind = "ask"
  <2>1. stack[i] \in Frames
    BY ElementOfSeq, LenProperties DEF WaitInv, TypeInv, IsStack
  <2>2. CASE stack[i].kind = "ask" /\ stack[i].id \in ids
    <3>1. stack'[i] = [stack[i] EXCEPT !.answer = value]
      BY <2>2 DEF Answered
    <3>2. stack[i] \in AskFrames
      BY <2>1, <2>2 DEF Frames, WaitFrames, ReconnectFrames, LaunchFrames
    <3> QED BY <3>1, <3>2 DEF AskFrames
  <2>3. CASE ~(stack[i].kind = "ask" /\ stack[i].id \in ids)
    BY <2>3 DEF Answered
  <2> QED BY <2>2, <2>3
<1> QED BY <1>1, <1>2 DEF MissesNoEnd

LEMMA AskSees ==
  ASSUME WaitInv, NEW h \in Hosts, NEW tag, NEW e, NEW callers \in Seq(WaitingFrames),
         AllSee(callers, global, lastTask), Ask(h, tag, e, callers)
  PROVE  MissesNoEnd'
<1>1. /\ Sent(h, tag, e, callers) \/ Refused(callers) \/ Failed(h, callers)
      /\ UNCHANGED <<global, lastTask>>
  BY AskCases DEF WaitInv, taskVars
<1>2. AllSee(stack', global, lastTask)
  <2>1. CASE Sent(h, tag, e, callers)
    <3>1. PICK c \in Chans : stack' = <<AskFrame(NewId, c)>> \o callers /\ AskFrame(NewId, c) \in Frames
      BY <2>1 DEF Sent
    <3>2. Sees(AskFrame(NewId, c), global, lastTask)
      BY DEF AskFrame, Sees
    <3>3. callers \in Seq(Frames)
      BY WaitingStack DEF IsStack
    <3>4. AllSee(<<AskFrame(NewId, c)>> \o callers, global, lastTask)
      BY <3>1, <3>2, <3>3, AllSeePush
    <3> QED BY <3>1, <3>4
  <2>2. CASE Refused(callers) \/ Failed(h, callers)
    <3>1. PICK result : stack' = Return(result, callers) \/ stack' = Throw(callers)
      BY <2>2 DEF Refused, Failed
    <3> QED BY <3>1, AllSeeReturn
  <2> QED BY <1>1, <2>1, <2>2
<1> QED BY <1>1, <1>2, AllSeeIs DEF MissesNoEnd, AllSee, Sees

LEMMA CallOf ==
  ASSUME NEW f
  PROVE  DOMAIN <<f>> \subseteq {1} /\ <<f>>[1] = f
<1> QED OBVIOUS

LEMMA UsersSee ==
  ASSUME WaitInv, MissesNoEnd, Users
  PROVE  MissesNoEnd'
<1>1. ASSUME NEW h \in Hosts, NEW tag \in {"PING", "TOLEVAL"}, UserAsks(h, tag)
      PROVE  MissesNoEnd'
  <2>1. <<>> \in Seq(WaitingFrames) /\ AllSee(<<>>, global, lastTask) /\ Ask(h, tag, None, <<>>)
    BY <1>1, EmptySeq DEF UserAsks, AllSee
  <2> QED BY <2>1, AskSees
<1>2. ASSUME NEW tasks \in SUBSET (1 .. counter), ServerWait(tasks)
      PROVE  MissesNoEnd'
  <2> DEFINE f == WaitFrame(Awaited(tasks))
  <2>1. stack' = <<f>> /\ global' = global
    BY <1>2 DEF ServerWait, taskVars
  <2>2. f.waiting \subseteq global
    BY DEF WaitFrame, Awaited
  <2> HIDE DEF f
  <2> QED BY <2>1, <2>2, CallOf DEF MissesNoEnd
<1>3. ASSUME NEW n \in 1 .. MaxExprs, ClusterEval(n)
      PROVE  MissesNoEnd'
  <2> DEFINE f == [LaunchFrame EXCEPT !.todo = queue \o [i \in 1 .. n |-> exprs + i]]
  <2>1. UNCHANGED <<global, lastTask>> /\ (stack' = stack \/ stack' = <<f>>)
    BY <1>3 DEF ClusterEval, taskVars
  <2>2. f.kind # "wait"
    BY DEF LaunchFrame
  <2> HIDE DEF f
  <2> QED BY <2>1, <2>2, CallOf DEF MissesNoEnd
<1> QED BY <1>1, <1>2, <1>3 DEF Users

LEMMA CallsSee ==
  ASSUME WaitInv, MissesNoEnd, Calls
  PROVE  MissesNoEnd'
<1> DEFINE f == Head(stack)
<1>0. /\ IsStack(stack) /\ AllSee(stack, global, lastTask)
      /\ stack # <<>> => /\ Tail(stack) \in Seq(WaitingFrames) /\ Tail(stack) \in Seq(Frames)
                         /\ Sees(f, global, lastTask) /\ AllSee(Tail(stack), global, lastTask)
  <2>1. IsStack(stack) /\ AllSee(stack, global, lastTask) /\ stack \in Seq(Frames)
    BY AllSeeIs DEF WaitInv, TypeInv, IsStack
  <2>2. stack # <<>> => Tail(stack) \in Seq(WaitingFrames) /\ Tail(stack) \in Seq(Frames)
    BY <2>1, PopStack, WaitingStack DEF IsStack
  <2> QED BY <2>1, <2>2, AllSeePop
<1>1. ASSUME UNCHANGED <<global, lastTask>>, AllSee(stack', global, lastTask)
      PROVE  MissesNoEnd'
  BY <1>1 DEF MissesNoEnd, AllSee, Sees
<1>2. ASSUME stack # <<>>, NEW g \in Frames, Sees(g, global, lastTask)
      PROVE  AllSee(<<g>> \o Tail(stack), global, lastTask)
  BY <1>0, <1>2, AllSeePush
<1>3. CASE AskReturns
  <2>1. /\ stack # <<>> /\ UNCHANGED <<global, lastTask>>
        /\ \E r : stack' = Throw(Tail(stack)) \/ stack' = Return(r, Tail(stack))
    BY <1>3 DEF AskReturns, Innermost, taskVars
  <2>2. AllSee(stack', global, lastTask)
    BY <1>0, <2>1, AllSeeReturn
  <2> QED BY <1>1, <2>1, <2>2
<1>4. CASE WaitGoesOn
  <2> DEFINE left == f.waiting \ {lastTask}
             g == WaitFrame(left)
  <2>1. /\ stack # <<>> /\ UNCHANGED <<global, lastTask>> /\ f.kind = "wait"
        /\ stack' = Tail(stack) \/ stack' = <<g>> \o Tail(stack)
    BY <1>4 DEF WaitGoesOn, Innermost, taskVars
  <2>2. f \in WaitFrames /\ left \subseteq global
    BY <1>0, <2>1, HeadFrame DEF Sees, WaitFrames
  <2>3. g \in Frames /\ Sees(g, global, lastTask)
    BY <2>2 DEF WaitFrame, WaitFrames, Frames, Sees
  <2> HIDE DEF g
  <2>4. AllSee(stack', global, lastTask)
    BY <1>0, <1>2, <2>1, <2>3
  <2> QED BY <1>1, <2>1, <2>4
<1>5. CASE Reconnect
  <2>1. stack # <<>> /\ f \in ReconnectFrames
    BY <1>0, <1>5, HeadFrame DEF Reconnect, Innermost
  <2>2. CASE stack' = Tail(stack) /\ UNCHANGED <<global, lastTask>>
    BY <1>0, <1>1, <2>1, <2>2
  <2>3. ASSUME NEW t \in f.tasks
        PROVE  LET rest == <<[f EXCEPT !.tasks = @ \ {t}]>> \o Tail(stack)
               IN  /\ Ask(f.host, "RECONN", None, rest) => MissesNoEnd'
                   /\ stack' = rest /\ UNCHANGED <<global, lastTask>> => MissesNoEnd'
    <3> DEFINE g == [f EXCEPT !.tasks = @ \ {t}]
               rest == <<g>> \o Tail(stack)
    <3>1. g \in Frames /\ g.kind = "reconnect" /\ f.host \in Hosts
      BY <2>1 DEF ReconnectFrames, Frames
    <3>2. g \in WaitingFrames /\ Sees(g, global, lastTask)
      BY <3>1 DEF WaitingFrames, Sees
    <3> HIDE DEF g
    <3>3. rest \in Seq(WaitingFrames)
      BY <1>0, <2>1, <3>2, PushOf
    <3>4. AllSee(rest, global, lastTask)
      BY <1>2, <2>1, <3>1, <3>2
    <3> HIDE DEF rest
    <3>5. ASSUME Ask(f.host, "RECONN", None, rest) PROVE MissesNoEnd'
      BY <3>1, <3>3, <3>4, <3>5, AskSees
    <3>6. ASSUME stack' = rest, UNCHANGED <<global, lastTask>> PROVE MissesNoEnd'
      BY <1>1, <3>4, <3>6
    <3> QED BY <3>5, <3>6 DEF rest, g
  <2>4. \/ stack' = Tail(stack) /\ UNCHANGED <<global, lastTask>>
        \/ \E t \in f.tasks :
             LET rest == <<[f EXCEPT !.tasks = @ \ {t}]>> \o Tail(stack)
             IN  \/ Ask(f.host, "RECONN", None, rest)
                 \/ stack' = rest /\ UNCHANGED <<global, lastTask>>
    BY <1>5, Zenon DEF Reconnect, taskVars
  <2> QED BY <2>2, <2>3, <2>4, Zenon
<1>6. CASE ClusterLaunch
  <2>1. stack # <<>> /\ f \in LaunchFrames
    BY <1>0, <1>6, HeadFrame DEF ClusterLaunch, Innermost
  <2>2. CASE stack' = Tail(stack) /\ UNCHANGED <<global, lastTask>>
    BY <1>0, <1>1, <2>1, <2>2
  <2>3. CASE /\ f.hosts # <<>> /\ stack' = <<[f EXCEPT !.hosts = Tail(@)]>> \o Tail(stack)
             /\ UNCHANGED <<global, lastTask>>
    <3> DEFINE g == [f EXCEPT !.hosts = Tail(@)]
    <3>1. Tail(f.hosts) \in Seq(Hosts)
      BY <2>1, <2>3, HeadTailProperties DEF LaunchFrames
    <3>2. g \in Frames /\ Sees(g, global, lastTask)
      BY <2>1, <3>1 DEF LaunchFrames, Frames, Sees
    <3> HIDE DEF g
    <3>3. AllSee(<<g>> \o Tail(stack), global, lastTask)
      BY <1>2, <2>1, <3>2
    <3> QED BY <1>1, <2>3, <3>3 DEF g
  <2>4. CASE f.todo # <<>> /\ f.hosts # <<>> /\ Ask(Head(f.hosts), "TOLEVAL", Head(f.todo), stack)
    <3>1. f \in WaitingFrames
      BY <2>1, <2>4 DEF WaitingFrames, Frames
    <3>2. stack \in Seq(WaitingFrames)
      BY <1>0, <3>1, InnermostWaiting
    <3>3. Head(f.hosts) \in Hosts
      BY <2>1, <2>4, HeadTailProperties DEF LaunchFrames
    <3> QED BY <1>0, <2>4, <3>2, <3>3, AskSees
  <2> QED BY <1>6, <2>2, <2>3, <2>4 DEF ClusterLaunch, taskVars
<1> QED BY <1>3, <1>4, <1>5, <1>6 DEF Calls

LEMMA CallBacksSee ==
  ASSUME WaitInv, MissesNoEnd, IdleCallBack
  PROVE  MissesNoEnd'
<1> DEFINE g == ReconnectFrame(Head(idle).host, Head(idle).tasks)
<1>1. stack \in Seq(Frames) /\ AllSee(stack, global, lastTask) /\ Head(idle) \in CallBacks
  BY AllSeeIs, HeadTailProperties DEF WaitInv, TypeInv, IsStack, IdleCallBack
<1>2. LaunchFrame \in Frames /\ Sees(LaunchFrame, global, lastTask)
  BY TolClientAssumption DEF LaunchFrame, Frames, LaunchFrames, WaitInv, TypeInv, Sees
<1>3. Head(idle).do = "reconnect" => g \in Frames /\ Sees(g, global, lastTask)
  BY <1>1 DEF CallBacks, ReconnectFrame, Frames, ReconnectFrames, Sees
<1>4. /\ UNCHANGED <<global, lastTask>>
      /\ \/ stack' = stack
         \/ stack' = <<LaunchFrame>> \o stack
         \/ Head(idle).do = "reconnect" /\ stack' = <<g>> \o stack
  BY DEF IdleCallBack, taskVars
<1> HIDE DEF g
<1>5. AllSee(<<LaunchFrame>> \o stack, global, lastTask)
  BY <1>1, <1>2, AllSeePush
<1>6. Head(idle).do = "reconnect" => AllSee(<<g>> \o stack, global, lastTask)
  BY <1>1, <1>3, AllSeePush
<1>7. AllSee(stack', global, lastTask)
  BY <1>1, <1>4, <1>5, <1>6
<1> QED BY <1>4, <1>7 DEF MissesNoEnd, AllSee, Sees

\* Only the end of a task can hide another
LEMMA EndSees ==
  ASSUME WaitInv, MissesNoEnd, NEW c \in Chans, OnFinishTask(c)
  PROVE  MissesNoEnd' \/ Overwritten
<1> DEFINE t == Head(lines[c]).id
<1>1. CASE UNCHANGED <<taskVars, stack>>
  BY <1>1 DEF taskVars, MissesNoEnd
<1>2. CASE global' = global \ {t} /\ lastTask' = t /\ stack' = Woken
  <2> SUFFICES ASSUME ~Overwritten, NEW i \in DOMAIN stack, stack'[i].kind = "wait", NEW x \in stack'[i].waiting
               PROVE  stack'[i].woken /\ (x \in global' \/ x = lastTask')
    BY <1>2 DEF MissesNoEnd, Woken
  <2>1. stack[i] \in Frames /\ IsStack(stack) /\ stack # <<>>
    BY ElementOfSeq, LenProperties DEF WaitInv, TypeInv, IsStack
  <2>2. stack[i].kind = "wait"
    BY <1>2 DEF Woken
  <2>3. stack[i] \in WaitFrames
    BY <2>1, <2>2 DEF Frames, AskFrames, ReconnectFrames, LaunchFrames
  <2>4. stack'[i] = [stack[i] EXCEPT !.woken = TRUE]
    BY <1>2, <2>2 DEF Woken
  <2>5. stack'[i].woken /\ stack'[i].waiting = stack[i].waiting
    BY <2>3, <2>4 DEF WaitFrames
  <2>6. x \in global \/ (stack[i].woken /\ x = lastTask)
    BY <2>2, <2>5 DEF MissesNoEnd
  <2>7. CASE x \in global
    BY <1>2, <2>5, <2>7
  <2>8. CASE stack[i].woken /\ x = lastTask
    <3>1. stack[1] = Head(stack)
      BY <2>1, PopOf DEF IsStack
    <3>2. i # 1
      BY <2>1, <2>2, <2>8, <3>1 DEF OnFinishTask, Read, InEventLoop, Waits
    <3>3. lastTask' = lastTask
      BY <2>2, <2>5, <2>8, <3>2 DEF Overwritten
    <3> QED BY <2>5, <2>8, <3>3
  <2> QED BY <2>6, <2>7, <2>8
<1> QED BY <1>1, <1>2 DEF OnFinishTask, OffPending

LEMMA EventsSee ==
  ASSUME WaitInv, MissesNoEnd, NEW c \in Chans, OnAckPing(c) \/ OnStartTask(c) \/ OnEofChannel(c)
  PROVE  MissesNoEnd'
<1>1. UNCHANGED lastTask /\ global \subseteq global'
  BY DEF OnAckPing, OnStartTask, OnEofChannel, taskVars
<1>2. stack' = stack \/ \E ids, value : stack' = Answered(ids, value)
  BY DEF OnAckPing, OnStartTask, OnEofChannel
<1>3. CASE stack' = stack
  BY <1>1, <1>3 DEF MissesNoEnd
<1> QED BY <1>1, <1>2, <1>3, AllSeeAnswered

(* In every behaviour a wait misses an end in one way only: while another call     *)
(* keeps it from going on, a second end overwrites the one it waits for, which      *)
(* has woken it (tolclient.tcl:464-467, 770-789).                                 *)
THEOREM WaitsMissEndsBelow == Spec => EndsAreMissedBelow
<1>1. WaitInv /\ [Next]_vars => [MissesNoEnd /\ ~MissesNoEnd' => Overwritten]_vars
  <2> SUFFICES ASSUME WaitInv, Next, MissesNoEnd PROVE MissesNoEnd' \/ Overwritten
    OBVIOUS
  <2>1. CASE Servers \/ \E r \in running : ServerLoses(r)
    <3>1. UNCHANGED <<stack, global, lastTask>>
      BY <2>1 DEF Servers, ServerAnswers, ServerFinishes, ServerLoses, taskVars
    <3> QED BY <3>1 DEF MissesNoEnd
  <2>2. CASE Timeouts
    <3>1. UNCHANGED <<global, lastTask>> /\ \E ids, value : stack' = Answered(ids, value)
      BY <2>2 DEF Timeouts, OnTimeout, taskVars
    <3> QED BY <3>1, AllSeeAnswered
  <2>3. CASE Reads
    BY <2>3, EventsSee, EndSees DEF Reads
  <2>4. CASE \E c \in Chans : OnEofChannel(c)
    BY <2>4, EventsSee
  <2> QED BY <2>1, <2>2, <2>3, <2>4, UsersSee, CallsSee, CallBacksSee DEF Next
<1> QED BY <1>1, ClientIsTyped, PTL DEF Spec, EndsAreMissedBelow, Overwritten

-----------------------------------------------------------------------------
(* The rounds of the cluster, while nothing is lost and no answer late.       *)

Calm == losses = 0 /\ early = 0

PlainRequests == {r \in Requests : r.tag # "RECONN"}

(* Each request that has a timeout will be answered, and nothing is asked again. *)
AnswersInv ==
  /\ requests \in [Chans -> Seq(PlainRequests)]
  /\ \A id \in timers : \E c \in opened : id \in Ids(requests[c]) \cup Replies(lines[c])
  /\ idle \in Seq([do : {"launch"}])

Asking(s) == {[id |-> s[i].id, expr |-> s[i].expr] : i \in DOMAIN s}

\* What a server has accepted, and what one is asked
AskedFor == accepted \cup UNION {Asking(requests[c]) : c \in Chans}

(* Expressions are queued in order, and each is asked for once. *)
QueueInv ==
  /\ \A i, j \in DOMAIN queue : i < j => queue[i] < queue[j]
  /\ \A i \in DOMAIN queue : queue[i] <= exprs
  /\ \A a \in AskedFor : a.expr # None => a.expr \in Nat /\ a.expr <= exprs
  /\ \A a, b \in AskedFor : a.expr = b.expr /\ a.expr # None => a.id = b.id

\* No expression of the queue, from the n-th on, has been asked for
Unasked(n) == \A a \in AskedFor : \A i \in DOMAIN queue : i >= n => a.expr = None \/ queue[i] # a.expr

AsksWell(f) == f.kind = "ask" /\ f.answer \in {None, "ACKPING", "TASK"} /\ f.chan \in opened

\* A round is about to deal out what the queue has after what it has launched
Round(f) ==
  /\ f \in LaunchFrames
  /\ f.launched <= Len(queue)
  /\ f.todo = SubSeq(queue, f.launched + 1, Len(queue))

\* Under the first n calls there is one of a user at most
UserCalls(s, n) == \A i \in DOMAIN s : i > n => i = n + 1 /\ (AsksWell(s[i]) \/ s[i].kind = "wait")

(* There is no round in progress; or one, which goes on or waits for an answer. *)
NoRound(s) == UserCalls(s, 0) /\ Unasked(1)

RoundGoesOn(s) ==
  /\ 1 \in DOMAIN s /\ Round(s[1])
  /\ Unasked(s[1].launched + 1)
  /\ UserCalls(s, 1)

RoundWaits(s) ==
  /\ 1 \in DOMAIN s /\ AsksWell(s[1])
  /\ 2 \in DOMAIN s /\ Round(s[2]) /\ s[2].todo # <<>>
  /\ Unasked(s[2].launched + 2)
  /\ UserCalls(s, 2)

RoundInv ==
  \/ ~launching /\ NoRound(stack)
  \/ launching /\ RoundGoesOn(stack)
  \/ launching /\ RoundWaits(stack)

ClusterInv == Calm => AnswersInv /\ QueueInv /\ RoundInv

LEMMA RepliesOf ==
  ASSUME NEW s \in Seq(Lines)
  PROVE  /\ \A m \in Lines : /\ Replies(s) \subseteq Replies(Append(s, m))
                             /\ m.tag # "TFINISH" => m.id \in Replies(Append(s, m))
         /\ s # <<>> => /\ Replies(s) \subseteq Replies(Tail(s)) \cup {Head(s).id}
                        /\ Head(s).tag = "TFINISH" => Replies(s) \subseteq Replies(Tail(s))
<1>1. ASSUME NEW m \in Lines
      PROVE  /\ Replies(s) \subseteq Replies(Append(s, m))
             /\ m.tag # "TFINISH" => m.id \in Replies(Append(s, m))
  <2>1. /\ DOMAIN s = 1 .. Len(s) /\ Len(s) \in Nat /\ Append(s, m) \in Seq(Lines)
        /\ Len(Append(s, m)) = Len(s) + 1
        /\ \A i \in 1 .. Len(s) : Append(s, m)[i] = s[i]
        /\ Append(s, m)[Len(s) + 1] = m
    BY AppendProperties, LenProperties
  <2>2. DOMAIN Append(s, m) = 1 .. Len(s) + 1
    BY <2>1, LenProperties
  <2>3. Len(s) + 1 \in DOMAIN Append(s, m) /\ \A i \in DOMAIN s : i \in DOMAIN Append(s, m)
    BY <2>1, <2>2
  <2> QED BY <2>1, <2>3 DEF Replies
<1>2. ASSUME s # <<>>
      PROVE  /\ Replies(s) \subseteq Replies(Tail(s)) \cup {Head(s).id}
             /\ Head(s).tag = "TFINISH" => Replies(s) \subseteq Replies(Tail(s))
  <2>1. /\ Head(s) = s[1] /\ Len(s) \in Nat /\ DOMAIN s = 1 .. Len(s)
        /\ DOMAIN Tail(s) = 1 .. Len(s) - 1 /\ \A i \in 1 .. Len(s) - 1 : Tail(s)[i] = s[i + 1]
    BY <1>2, PopOf
  <2>2. ASSUME NEW i \in DOMAIN s
        PROVE  i = 1 \/ (i - 1 \in DOMAIN Tail(s) /\ Tail(s)[i - 1] = s[i])
    <3>1. CASE i # 1
      <4>1. i - 1 \in 1 .. Len(s) - 1 /\ (i - 1) + 1 = i
        BY <2>1, <3>1
      <4> QED BY <2>1, <4>1
    <3> QED BY <3>1
  <2>3. ASSUME NEW x \in Replies(s)
        PROVE  x \in Replies(Tail(s)) \/ (x = Head(s).id /\ Head(s).tag # "TFINISH")
    <3>1. PICK i \in DOMAIN s : s[i].tag # "TFINISH" /\ x = s[i].id
      BY DEF Replies
    <3>2. CASE i = 1
      BY <2>1, <3>1, <3>2
    <3>3. CASE i # 1
      BY <2>2, <3>1, <3>3 DEF Replies
    <3> QED BY <3>2, <3>3
  <2> QED BY <2>3
<1> QED BY <1>1, <1>2

LEMMA AskingOf ==
  ASSUME NEW s \in Seq(Requests)
  PROVE  /\ Asking(<<>>) = {}
         /\ \A m \in Requests : Asking(Append(s, m)) = Asking(s) \cup {[id |-> m.id, expr |-> m.expr]}
         /\ s # <<>> => /\ Asking(Tail(s)) \subseteq Asking(s)
                        /\ [id |-> Head(s).id, expr |-> Head(s).expr] \in Asking(s)
<1>1. ASSUME NEW m \in Requests
      PROVE  Asking(Append(s, m)) = Asking(s) \cup {[id |-> m.id, expr |-> m.expr]}
  <2>1. /\ DOMAIN s = 1 .. Len(s) /\ Len(s) \in Nat /\ Append(s, m) \in Seq(Requests)
        /\ Len(Append(s, m)) = Len(s) + 1
        /\ \A i \in 1 .. Len(s) : Append(s, m)[i] = s[i]
        /\ Append(s, m)[Len(s) + 1] = m
    BY AppendProperties, LenProperties
  <2>2. DOMAIN Append(s, m) = 1 .. Len(s) + 1
    BY <2>1, LenProperties
  <2>3. DOMAIN Append(s, m) = DOMAIN s \cup {Len(s) + 1} /\ \A i \in DOMAIN s : Append(s, m)[i] = s[i]
    BY <2>1, <2>2
  <2> QED BY <2>1, <2>3 DEF Asking
<1>2. ASSUME s # <<>>
      PROVE  /\ Asking(Tail(s)) \subseteq Asking(s)
             /\ [id |-> Head(s).id, expr |-> Head(s).expr] \in Asking(s)
  <2>1. /\ Head(s) = s[1] /\ Len(s) \in Nat /\ Len(s) # 0 /\ DOMAIN s = 1 .. Len(s)
        /\ DOMAIN Tail(s) = 1 .. Len(s) - 1 /\ \A i \in 1 .. Len(s) - 1 : Tail(s)[i] = s[i + 1]
    BY <1>2, PopOf
  <2>2. 1 \in DOMAIN s /\ \A i \in DOMAIN Tail(s) : i + 1 \in DOMAIN s /\ Tail(s)[i] = s[i + 1]
    BY <2>1
  <2> QED BY <2>1, <2>2 DEF Asking
<1>3. Asking(<<>>) = {}
  BY DEF Asking
<1> QED BY <1>1, <1>2, <1>3

\* The calls in progress, by the one that is innermost

LEMMA UserCallsPush ==
  ASSUME NEW M, NEW s \in Seq(M), NEW f \in M, NEW n \in Nat, UserCalls(s, n)
  PROVE  UserCalls(<<f>> \o s, n + 1)
<1> DEFINE t == <<f>> \o s
<1>1. /\ Len(s) \in Nat /\ DOMAIN s = 1 .. Len(s) /\ DOMAIN t = 1 .. Len(s) + 1
      /\ \A i \in 1 .. Len(s) : t[i + 1] = s[i]
  BY PushOf
<1> HIDE DEF t
<1> SUFFICES ASSUME NEW i \in DOMAIN t, i > n + 1
             PROVE  i = n + 2 /\ (AsksWell(t[i]) \/ t[i].kind = "wait")
  BY DEF UserCalls, t
<1>2. i - 1 \in 1 .. Len(s) /\ (i - 1) + 1 = i /\ i - 1 > n /\ i \in Nat
  BY <1>1
<1>3. i - 1 = n + 1 /\ (AsksWell(s[i - 1]) \/ s[i - 1].kind = "wait")
  BY <1>1, <1>2 DEF UserCalls
<1>4. t[i] = s[i - 1]
  BY <1>1, <1>2
<1>5. i = n + 2
  BY <1>2, <1>3
<1> QED BY <1>3, <1>4, <1>5

LEMMA UserCallsPop ==
  ASSUME NEW M, NEW s \in Seq(M), s # <<>>, NEW n \in Nat, UserCalls(s, n + 1)
  PROVE  UserCalls(Tail(s), n)
<1>1. /\ Len(s) \in Nat /\ DOMAIN s = 1 .. Len(s) /\ DOMAIN Tail(s) = 1 .. Len(s) - 1
      /\ \A i \in 1 .. Len(s) - 1 : Tail(s)[i] = s[i + 1]
  BY PopOf
<1> SUFFICES ASSUME NEW i \in DOMAIN Tail(s), i > n
             PROVE  i = n + 1 /\ (AsksWell(Tail(s)[i]) \/ Tail(s)[i].kind = "wait")
  BY DEF UserCalls
<1>2. i + 1 \in DOMAIN s /\ i + 1 > n + 1 /\ i \in Nat /\ Tail(s)[i] = s[i + 1]
  BY <1>1
<1>3. i + 1 = (n + 1) + 1 /\ (AsksWell(s[i + 1]) \/ s[i + 1].kind = "wait")
  BY <1>2 DEF UserCalls
<1>4. i = n + 1
  BY <1>2, <1>3
<1> QED BY <1>2, <1>3, <1>4

LEMMA OneUserCall ==
  ASSUME NEW M, NEW s \in Seq(M), s # <<>>, UserCalls(s, 0)
  PROVE  Tail(s) = <<>> /\ (AsksWell(Head(s)) \/ Head(s).kind = "wait")
<1>1. /\ Head(s) = s[1] /\ Len(s) \in Nat /\ Len(s) # 0 /\ DOMAIN s = 1 .. Len(s)
      /\ Tail(s) \in Seq(M) /\ Len(Tail(s)) = Len(s) - 1
  BY PopOf
<1>2. 1 \in DOMAIN s /\ Len(s) \in DOMAIN s /\ Len(s) > 0
  BY <1>1
<1>3. Len(s) = 1
  <2>1. \A i \in DOMAIN s : i > 0 => i = 0 + 1
    BY DEF UserCalls
  <2> QED BY <1>2, <2>1
<1>4. Len(Tail(s)) = 0
  BY <1>1, <1>3
<1>5. Tail(s) = <<>>
  BY <1>1, <1>4, EmptySeq
<1>6. AsksWell(s[1]) \/ s[1].kind = "wait"
  BY <1>2 DEF UserCalls
<1> QED BY <1>1, <1>5, <1>6

LEMMA InnermostOf ==
  ASSUME WaitInv, RoundInv
  PROVE  /\ stack = <<>> => ~launching /\ NoRound(stack)
         /\ stack # <<>> => 1 \in DOMAIN stack /\ stack[1] = Head(stack)
         /\ Innermost("launch") => launching /\ RoundGoesOn(stack)
         /\ Innermost("wait") => ~launching /\ NoRound(stack) /\ Tail(stack) = <<>>
         /\ Innermost("ask") => /\ AsksWell(Head(stack))
                                /\ \/ ~launching /\ NoRound(stack) /\ Tail(stack) = <<>>
                                   \/ launching /\ RoundWaits(stack)
         /\ ~Innermost("reconnect")
<1>1. stack \in Seq(Frames)
  BY DEF WaitInv, TypeInv, IsStack
<1>2. ASSUME stack # <<>> PROVE 1 \in DOMAIN stack /\ stack[1] = Head(stack)
  <2>1. Head(stack) = stack[1] /\ Len(stack) \in Nat /\ Len(stack) # 0 /\ DOMAIN stack = 1 .. Len(stack)
    BY <1>1, <1>2, PopOf
  <2> QED BY <2>1
<1>3. ASSUME stack = <<>> PROVE ~launching /\ NoRound(stack)
  <2>1. 1 \notin DOMAIN stack
    BY <1>3
  <2> QED BY <2>1 DEF RoundInv, RoundGoesOn, RoundWaits
<1>4. ASSUME stack # <<>>, NoRound(stack)
      PROVE  Tail(stack) = <<>> /\ (AsksWell(Head(stack)) \/ Head(stack).kind = "wait")
  BY <1>1, <1>4, OneUserCall DEF NoRound
<1>5. ASSUME stack # <<>>, RoundGoesOn(stack) PROVE Head(stack).kind = "launch"
  BY <1>2, <1>5 DEF RoundGoesOn, Round, LaunchFrames
<1>6. ASSUME stack # <<>>, RoundWaits(stack) PROVE AsksWell(Head(stack))
  BY <1>2, <1>6 DEF RoundWaits
<1>7. \A f : AsksWell(f) => f.kind = "ask"
  BY DEF AsksWell
<1> QED BY <1>2, <1>3, <1>4, <1>5, <1>6, <1>7 DEF RoundInv, Innermost

-----------------------------------------------------------------------------
(* What asks for no expression.                                             *)

LEMMA LessAsked ==
  ASSUME QueueInv, AskedFor' \subseteq AskedFor, UNCHANGED queue, UNCHANGED exprs
  PROVE  QueueInv' /\ \A n : Unasked(n) => Unasked(n)'
<1>1. QueueInv'
  BY DEF QueueInv
<1>2. \A n : Unasked(n) => Unasked(n)'
  BY DEF Unasked
<1> QED BY <1>1, <1>2

LEMMA SameAsked ==
  ASSUME UNCHANGED <<accepted, requests>>
  PROVE  AskedFor' \subseteq AskedFor
<1> QED BY DEF AskedFor

\* Frames change into frames of the same kind
LEMMA SameFrames ==
  ASSUME RoundInv, UNCHANGED <<queue, launching>>, opened \subseteq opened',
         \A n : Unasked(n) => Unasked(n)',
         DOMAIN stack' = DOMAIN stack,
         \A i \in DOMAIN stack : /\ stack[i] \in LaunchFrames => stack'[i] = stack[i]
                                 /\ AsksWell(stack[i]) => AsksWell(stack[i])'
                                 /\ stack[i].kind = "wait" => stack'[i].kind = "wait"
  PROVE  RoundInv'
<1>1. \A i \in DOMAIN stack : Round(stack[i]) => Round(stack[i])' /\ stack'[i] = stack[i]
  BY DEF Round
<1>2. \A n : UserCalls(stack, n) => UserCalls(stack, n)'
  BY DEF UserCalls
<1>3. NoRound(stack) => NoRound(stack)'
  BY <1>2 DEF NoRound
<1>4. RoundGoesOn(stack) => RoundGoesOn(stack)'
  BY <1>1, <1>2 DEF RoundGoesOn
<1>5. RoundWaits(stack) => RoundWaits(stack)'
  BY <1>1, <1>2 DEF RoundWaits
<1> QED BY <1>3, <1>4, <1>5 DEF RoundInv

LEMMA SameStack ==
  ASSUME RoundInv, UNCHANGED <<queue, launching, stack>>, opened \subseteq opened',
         \A n : Unasked(n) => Unasked(n)'
  PROVE  RoundInv'
<1>1. \A f : AsksWell(f) => AsksWell(f)'
  BY DEF AsksWell
<1> QED BY <1>1, SameFrames

LEMMA AnsweredFrames ==
  ASSUME WaitInv, RoundInv, UNCHANGED <<queue, launching>>, opened \subseteq opened',
         \A n : Unasked(n) => Unasked(n)',
         NEW ids, NEW value \in {"ACKPING", "TASK"}, stack' = Answered(ids, value)
  PROVE  RoundInv'
<1>1. DOMAIN stack' = DOMAIN stack
  BY DEF Answered
<1>2. ASSUME NEW i \in DOMAIN stack
      PROVE  /\ stack[i] \in LaunchFrames => stack'[i] = stack[i]
             /\ AsksWell(stack[i]) => AsksWell(stack[i])'
             /\ stack[i].kind = "wait" => stack'[i].kind = "wait"
  <2>1. stack[i] \in Frames
    BY ElementOfSeq, LenProperties DEF WaitInv, TypeInv, IsStack
  <2>2. CASE stack[i].kind = "ask" /\ stack[i].id \in ids
    <3>1. stack'[i] = [stack[i] EXCEPT !.answer = value]
      BY <2>2 DEF Answered
    <3>2. stack[i] \in AskFrames
      BY <2>1, <2>2 DEF Frames, WaitFrames, ReconnectFrames, LaunchFrames
    <3>3. stack'[i].kind = "ask" /\ stack'[i].answer = value /\ stack'[i].chan = stack[i].chan
      BY <3>1, <3>2 DEF AskFrames
    <3>4. AsksWell(stack[i]) => AsksWell(stack[i])'
      BY <3>3 DEF AsksWell
    <3> QED BY <2>2, <3>4 DEF LaunchFrames
  <2>3. CASE ~(stack[i].kind = "ask" /\ stack[i].id \in ids)
    <3>1. stack'[i] = stack[i]
      BY <2>3 DEF Answered
    <3> QED BY <3>1 DEF AsksWell
  <2> QED BY <2>2, <2>3
<1> QED BY <1>1, <1>2, SameFrames

LEMMA WokenFrames ==
  ASSUME WaitInv, RoundInv, UNCHANGED <<queue, launching>>, opened \subseteq opened',
         \A n : Unasked(n) => Unasked(n)', stack' = Woken
  PROVE  RoundInv'
<1>1. DOMAIN stack' = DOMAIN stack
  BY DEF Woken
<1>2. ASSUME NEW i \in DOMAIN stack
      PROVE  /\ stack[i] \in LaunchFrames => stack'[i] = stack[i]
             /\ AsksWell(stack[i]) => AsksWell(stack[i])'
             /\ stack[i].kind = "wait" => stack'[i].kind = "wait"
  <2>1. stack[i] \in Frames
    BY ElementOfSeq, LenProperties DEF WaitInv, TypeInv, IsStack
  <2>2. CASE stack[i].kind = "wait"
    <3>1. stack'[i] = [stack[i] EXCEPT !.woken = TRUE]
      BY <2>2 DEF Woken
    <3>2. stack[i] \in WaitFrames
      BY <2>1, <2>2 DEF Frames, AskFrames, ReconnectFrames, LaunchFrames
    <3>3. stack'[i].kind = "wait"
      BY <3>1, <3>2 DEF WaitFrames
    <3> QED BY <2>2, <3>3 DEF LaunchFrames, AsksWell
  <2>3. CASE stack[i].kind # "wait"
    <3>1. stack'[i] = stack[i]
      BY <2>3 DEF Woken
    <3> QED BY <2>3, <3>1 DEF AsksWell
  <2> QED BY <2>2, <2>3
<1> QED BY <1>1, <1>2, SameFrames

-----------------------------------------------------------------------------
(* The steps of a round.                                                    *)

\* What has no loss and no late answer after it had none before it
LEMMA CalmAsk ==
  ASSUME WaitInv, NEW h \in Hosts, NEW tag, NEW e, NEW callers, Ask(h, tag, e, callers), Calm'
  PROVE  /\ Calm /\ Sent(h, tag, e, callers)
         /\ UNCHANGED <<queue, launching, lines, accepted>>
<1>1. /\ Sent(h, tag, e, callers) \/ Refused(callers) \/ Failed(h, callers)
      /\ UNCHANGED <<queue, launching, lines, accepted, early>>
  BY AskCases DEF WaitInv, clusterVars
<1>2. ASSUME Refused(callers) \/ Failed(h, callers) PROVE FALSE
  <2>1. losses' = losses + 1 /\ losses \in Nat
    BY <1>2, Zenon DEF Refused, Failed, WaitInv, TypeInv
  <2> QED BY <2>1 DEF Calm
<1>3. Sent(h, tag, e, callers) /\ UNCHANGED losses
  BY <1>1, <1>2 DEF Sent
<1> QED BY <1>1, <1>3 DEF Calm

\* A request that is sent, of an expression nobody was asked for
LEMMA SentKeeps ==
  ASSUME WaitInv, AnswersInv, QueueInv,
         NEW h \in Hosts, NEW tag \in {"PING", "TOLEVAL"}, NEW e \in Nat \cup {None}, NEW callers,
         e # None => e <= exprs /\ \A a \in AskedFor : a.expr # e,
         Sent(h, tag, e, callers), UNCHANGED <<queue, lines, accepted, exprs, idle>>
  PROVE  /\ AnswersInv' /\ QueueInv' /\ opened \subseteq opened'
         /\ \A n : Unasked(n) /\ (\A i \in DOMAIN queue : i >= n => e = None \/ queue[i] # e) => Unasked(n)'
         /\ \E f \in Frames : /\ stack' = <<f>> \o callers
                              /\ f.kind = "ask" /\ f.answer = None /\ f.chan \in opened'
<1> DEFINE m == [tag |-> tag, id |-> NewId, expr |-> e]
           new == [id |-> NewId, expr |-> e]
<1>1. PICK c \in Chans : /\ c \in opened' /\ opened' = opened \cup {c}
                         /\ requests' = [requests EXCEPT ![c] = Append(@, m)]
                         /\ timers' = timers \cup {NewId}
                         /\ AskFrame(NewId, c) \in Frames
                         /\ stack' = <<AskFrame(NewId, c)>> \o callers
  BY DEF Sent
<1>2. NewId \in Nat
  BY DEF NewId, WaitInv, TypeInv
<1>3. m \in PlainRequests /\ m \in Requests /\ m.id = NewId /\ m.expr = e
  BY <1>2 DEF PlainRequests, Requests
<1> HIDE DEF m
<1>4. requests[c] \in Seq(PlainRequests) /\ requests[c] \in Seq(Requests)
  BY DEF AnswersInv, WaitInv, TypeInv
<1>5. Append(requests[c], m) \in Seq(PlainRequests)
  BY <1>3, <1>4, AppendProperties
<1>6. /\ requests'[c] = Append(requests[c], m)
      /\ \A d \in Chans \ {c} : requests'[d] = requests[d]
      /\ requests' \in [Chans -> Seq(PlainRequests)]
  BY <1>1, <1>5 DEF AnswersInv
<1>7. Ids(requests'[c]) = Ids(requests[c]) \cup {NewId}
  BY <1>3, <1>4, <1>6, IdsOf
<1>8. AnswersInv'
  <2>1. ASSUME NEW id \in timers'
        PROVE  \E d \in opened' : id \in Ids(requests'[d]) \cup Replies(lines'[d])
    <3>1. CASE id = NewId
      BY <1>1, <1>7, <3>1
    <3>2. CASE id # NewId
      <4>1. PICK d \in opened : id \in Ids(requests[d]) \cup Replies(lines[d])
        BY <1>1, <3>2 DEF AnswersInv
      <4>2. Ids(requests[d]) \subseteq Ids(requests'[d])
        BY <1>6, <1>7, <4>1 DEF WaitInv, TypeInv
      <4> QED BY <1>1, <4>1, <4>2
    <3> QED BY <3>1, <3>2
  <2>2. (idle \in Seq([do : {"launch"}]))'
    BY DEF AnswersInv
  <2> QED BY <1>6, <2>1, <2>2 DEF AnswersInv
<1>9. AskedFor' \subseteq AskedFor \cup {new}
  <2>1. Asking(requests'[c]) = Asking(requests[c]) \cup {new}
    <3>1. Asking(Append(requests[c], m)) = Asking(requests[c]) \cup {[id |-> m.id, expr |-> m.expr]}
      BY <1>3, <1>4, AskingOf
    <3>2. [id |-> m.id, expr |-> m.expr] = new
      BY <1>3
    <3> QED BY <1>6, <3>1, <3>2
  <2>2. \A d \in Chans : Asking(requests'[d]) \subseteq Asking(requests[d]) \cup {new}
    BY <1>6, <2>1
  <2> QED BY <2>2 DEF AskedFor
<1>10. new.id = NewId /\ new.expr = e
  OBVIOUS
<1> HIDE DEF new
<1>11. QueueInv'
  <2>1. \A a, b \in AskedFor \cup {new} : a.expr = b.expr /\ a.expr # None => a.id = b.id
    BY <1>10 DEF QueueInv
  <2>2. \A a \in AskedFor \cup {new} : a.expr # None => a.expr \in Nat /\ a.expr <= exprs
    BY <1>10 DEF QueueInv
  <2> QED BY <1>9, <2>1, <2>2 DEF QueueInv
<1>12. ASSUME NEW n, Unasked(n), \A i \in DOMAIN queue : i >= n => e = None \/ queue[i] # e
       PROVE  Unasked(n)'
  BY <1>9, <1>10, <1>12 DEF Unasked
<1>13. AskFrame(NewId, c).kind = "ask" /\ AskFrame(NewId, c).answer = None /\ AskFrame(NewId, c).chan = c
  BY DEF AskFrame
<1>14. \E f \in Frames : /\ stack' = <<f>> \o callers
                         /\ f.kind = "ask" /\ f.answer = None /\ f.chan \in opened'
  BY <1>1, <1>13
<1> QED BY <1>1, <1>8, <1>11, <1>12, <1>14

\* No round in progress after the step
LEMMA OneFrame ==
  ASSUME ~launching', Unasked(1)', NEW f,
         \/ stack' = <<>>
         \/ stack' = <<f>> /\ (f.kind = "wait" \/ AsksWell(f)')
  PROVE  RoundInv'
<1>1. UserCalls(stack, 0)'
  <2>1. CASE stack' = <<>>
    BY <2>1 DEF UserCalls
  <2>2. CASE stack' = <<f>> /\ (f.kind = "wait" \/ AsksWell(f)')
    BY <2>2, CallOf DEF UserCalls
  <2> QED BY <2>1, <2>2
<1> QED BY <1>1 DEF RoundInv, NoRound

\* A round that goes on after the step, over the calls it was over before
LEMMA RoundIsOn ==
  ASSUME launching', UNCHANGED <<queue, opened>>, NEW g \in LaunchFrames, NEW s \in Seq(Frames),
         stack' = <<g>> \o s, Round(g), Unasked(g.launched + 1)', UserCalls(s, 0)
  PROVE  RoundInv'
<1>1. g \in Frames
  BY DEF Frames
<1>2. stack'[1] = g /\ 1 \in DOMAIN stack'
  <2>1. DOMAIN stack' = 1 .. Len(s) + 1 /\ Len(s) \in Nat /\ stack'[1] = g
    BY <1>1, PushOf
  <2> QED BY <2>1
<1>3. UserCalls(<<g>> \o s, 0 + 1)
  BY <1>1, UserCallsPush
<1>4. UserCalls(stack', 1)
  BY <1>3
<1>5. UserCalls(stack, 1)'
  BY <1>4 DEF UserCalls, AsksWell
<1>6. Round(stack[1])'
  BY <1>2 DEF Round
<1>7. RoundGoesOn(stack)'
  BY <1>2, <1>5, <1>6 DEF RoundGoesOn
<1> QED BY <1>7 DEF RoundInv

LEMMA RoundOver ==
  ASSUME WaitInv
  PROVE  /\ RoundGoesOn(stack) => UserCalls(Tail(stack), 0)
         /\ RoundWaits(stack) => /\ Tail(stack) # <<>> /\ Head(Tail(stack)) = stack[2]
                                 /\ UserCalls(Tail(Tail(stack)), 0)
<1>1. stack \in Seq(Frames)
  BY DEF WaitInv, TypeInv, IsStack
<1>2. ASSUME RoundGoesOn(stack) PROVE UserCalls(Tail(stack), 0)
  <2>1. stack # <<>> /\ UserCalls(stack, 0 + 1)
    BY <1>2 DEF RoundGoesOn
  <2> QED BY <1>1, <2>1, UserCallsPop
<1>3. ASSUME RoundWaits(stack)
      PROVE  /\ Tail(stack) # <<>> /\ Head(Tail(stack)) = stack[2]
             /\ UserCalls(Tail(Tail(stack)), 0)
  <2>1. stack # <<>> /\ UserCalls(stack, (0 + 1) + 1) /\ 2 \in DOMAIN stack
    BY <1>3 DEF RoundWaits
  <2>2. /\ Len(stack) \in Nat /\ DOMAIN stack = 1 .. Len(stack)
        /\ Tail(stack) \in Seq(Frames) /\ Len(Tail(stack)) = Len(stack) - 1
        /\ \A i \in 1 .. Len(stack) - 1 : Tail(stack)[i] = stack[i + 1]
    BY <1>1, <2>1, PopOf
  <2>3. Tail(stack) # <<>> /\ Tail(stack)[1] = stack[2]
    <3>1. Len(Tail(stack)) # 0 /\ 1 \in 1 .. Len(stack) - 1
      BY <2>1, <2>2
    <3>2. Tail(stack)[1] = stack[1 + 1] /\ 1 + 1 = 2
      BY <2>2, <3>1
    <3>3. Tail(stack) # <<>>
      BY <3>1, EmptySeq
    <3> QED BY <3>2, <3>3
  <2>4. UserCalls(Tail(stack), 0 + 1)
    <3>1. 0 + 1 \in Nat
      OBVIOUS
    <3> QED BY <1>1, <2>1, <3>1, UserCallsPop
  <2>5. UserCalls(Tail(Tail(stack)), 0)
    BY <2>2, <2>3, <2>4, UserCallsPop
  <2>6. Head(Tail(stack)) = Tail(stack)[1]
    BY <2>2, <2>3, PopOf
  <2> QED BY <2>3, <2>5, <2>6
<1> QED BY <1>2, <1>3

LEMMA UsersKeepRounds ==
  ASSUME WaitInv, ClusterInv, Users, Calm'
  PROVE  (AnswersInv /\ QueueInv /\ RoundInv)'
<1>1. ASSUME NEW h \in Hosts, NEW tag \in {"PING", "TOLEVAL"}, UserAsks(h, tag)
      PROVE  (AnswersInv /\ QueueInv /\ RoundInv)'
  <2>1. stack = <<>> /\ Ask(h, tag, None, <<>>) /\ UNCHANGED <<idle, exprs>>
    BY <1>1 DEF UserAsks
  <2>2. Calm /\ Sent(h, tag, None, <<>>) /\ UNCHANGED <<queue, launching, lines, accepted>>
    BY <2>1, CalmAsk
  <2>3. AnswersInv /\ QueueInv /\ ~launching /\ Unasked(1)
    BY <2>1, <2>2, InnermostOf DEF ClusterInv, NoRound
  <2>4. /\ AnswersInv' /\ QueueInv'
        /\ \A n : Unasked(n) /\ (\A i \in DOMAIN queue : i >= n => None = None \/ queue[i] # None)
                  => Unasked(n)'
        /\ \E f \in Frames : /\ stack' = <<f>> \o <<>>
                             /\ f.kind = "ask" /\ f.answer = None /\ f.chan \in opened'
    BY <2>1, <2>2, <2>3, SentKeeps
  <2>5. PICK f \in Frames : /\ stack' = <<f>> \o <<>>
                            /\ f.kind = "ask" /\ f.answer = None /\ f.chan \in opened'
    BY <2>4
  <2>6. stack' = <<f>> /\ AsksWell(f)'
    BY <2>5, ConcatEmptySeq DEF AsksWell
  <2>7. RoundInv'
    BY <2>2, <2>3, <2>4, <2>6, OneFrame
  <2> QED BY <2>4, <2>7
<1>2. ASSUME NEW tasks \in SUBSET (1 .. counter), ServerWait(tasks)
      PROVE  (AnswersInv /\ QueueInv /\ RoundInv)'
  <2>1. /\ stack = <<>>
        /\ UNCHANGED <<opened, timers, queue, launching, idle, requests, lines, accepted, exprs, losses, early>>
    BY <1>2 DEF ServerWait, channelVars, clusterVars, serverVars, usage
  <2>2. Calm
    BY <2>1 DEF Calm
  <2>3. AnswersInv /\ QueueInv /\ ~launching /\ Unasked(1)
    BY <2>1, <2>2, InnermostOf DEF ClusterInv, NoRound
  <2>4. AnswersInv'
    BY <2>1, <2>3 DEF AnswersInv
  <2>5. QueueInv' /\ Unasked(1)'
    BY <2>1, <2>3, SameAsked, LessAsked
  <2>6. PICK f : stack' = <<f>> /\ f.kind = "wait"
    BY <1>2 DEF ServerWait, WaitFrame
  <2>7. RoundInv'
    BY <2>1, <2>3, <2>5, <2>6, OneFrame
  <2> QED BY <2>4, <2>5, <2>7
<1>3. ASSUME NEW n \in 1 .. MaxExprs, ClusterEval(n)
      PROVE  (AnswersInv /\ QueueInv /\ RoundInv)'
  <2> DEFINE more == [i \in 1 .. n |-> exprs + i]
             all == queue \o more
             g == [LaunchFrame EXCEPT !.todo = all]
  <2>1. /\ stack = <<>> /\ exprs' = exprs + n /\ queue' = all /\ launching' = TRUE
        /\ stack' = (IF launching THEN stack ELSE <<g>>)
        /\ UNCHANGED <<opened, timers, idle, requests, lines, accepted, losses, early>>
    BY <1>3 DEF ClusterEval, channelVars, serverVars
  <2>2. Calm
    BY <2>1 DEF Calm
  <2>3. AnswersInv /\ QueueInv /\ ~launching /\ Unasked(1)
    BY <2>1, <2>2, InnermostOf DEF ClusterInv, NoRound
  <2>4. AnswersInv'
    BY <2>1, <2>3 DEF AnswersInv
  <2>5. n \in Nat /\ exprs \in Nat /\ queue \in Seq(Nat) /\ Len(queue) \in Nat /\ DOMAIN queue = 1 .. Len(queue)
    BY TolClientAssumption, LenProperties DEF WaitInv, TypeInv
  <2>6. more \in Seq(Nat) /\ Len(more) = n /\ \A i \in 1 .. n : more[i] = exprs + i
    BY <2>5
  <2> HIDE DEF more
  <2>7. /\ all \in Seq(Nat) /\ Len(all) = Len(queue) + n
        /\ \A i \in 1 .. Len(queue) + n : all[i] = IF i <= Len(queue) THEN queue[i] ELSE more[i - Len(queue)]
    BY <2>5, <2>6, ConcatProperties
  <2>8. DOMAIN all = 1 .. Len(queue) + n
    BY <2>7, LenProperties
  <2>9. ASSUME NEW i \in DOMAIN all
        PROVE  /\ i \in Nat
               /\ \/ i \in DOMAIN queue /\ all[i] = queue[i] /\ queue[i] \in Nat
                  \/ /\ i \notin DOMAIN queue /\ i > Len(queue)
                     /\ all[i] = exprs + (i - Len(queue)) /\ i - Len(queue) \in 1 .. n
    <3>1. CASE i <= Len(queue)
      <4>1. i \in 1 .. Len(queue) /\ i \in 1 .. Len(queue) + n
        BY <2>5, <2>8, <3>1
      <4> QED BY <2>5, <2>7, <3>1, <4>1, ElementOfSeq
    <3>2. CASE ~(i <= Len(queue))
      <4>1. i \in Nat /\ i > Len(queue) /\ i - Len(queue) \in 1 .. n /\ i \in 1 .. Len(queue) + n
        BY <2>5, <2>8, <3>2
      <4>2. i \notin DOMAIN queue
        BY <2>5, <4>1
      <4>3. all[i] = more[i - Len(queue)]
        BY <2>7, <3>2, <4>1
      <4> QED BY <2>6, <4>1, <4>2, <4>3
    <3> QED BY <3>1, <3>2
  <2> HIDE DEF all
  <2>10. \A i, j \in DOMAIN all : i < j => all[i] < all[j]
    <3> SUFFICES ASSUME NEW i \in DOMAIN all, NEW j \in DOMAIN all, i < j PROVE all[i] < all[j]
      OBVIOUS
    <3>1. CASE j \in DOMAIN queue
      <4>1. i \in DOMAIN queue
        BY <2>5, <2>9, <3>1
      <4> QED BY <2>3, <2>9, <3>1, <4>1 DEF QueueInv
    <3>2. CASE i \in DOMAIN queue /\ j \notin DOMAIN queue
      <4>1. queue[i] <= exprs /\ queue[i] \in Nat /\ all[i] = queue[i]
        BY <2>3, <2>9, <3>2 DEF QueueInv
      <4>2. all[j] = exprs + (j - Len(queue)) /\ j - Len(queue) \in 1 .. n
        BY <2>9, <3>2
      <4> QED BY <2>5, <4>1, <4>2
    <3>3. CASE i \notin DOMAIN queue /\ j \notin DOMAIN queue
      <4>1. all[i] = exprs + (i - Len(queue)) /\ all[j] = exprs + (j - Len(queue)) /\ i \in Nat /\ j \in Nat
        BY <2>9, <3>3
      <4> QED BY <2>5, <4>1
    <3>4. CASE i \notin DOMAIN queue /\ j \in DOMAIN queue
      BY <2>5, <2>9, <3>4
    <3> QED BY <3>1, <3>2, <3>3, <3>4
  <2>11. \A i \in DOMAIN all : all[i] <= exprs + n
    <3> SUFFICES ASSUME NEW i \in DOMAIN all PROVE all[i] <= exprs + n
      OBVIOUS
    <3>1. CASE i \in DOMAIN queue
      <4>1. queue[i] <= exprs /\ queue[i] \in Nat /\ all[i] = queue[i]
        BY <2>3, <2>9, <3>1 DEF QueueInv
      <4> QED BY <2>5, <4>1
    <3>2. CASE i \notin DOMAIN queue
      <4>1. all[i] = exprs + (i - Len(queue)) /\ i - Len(queue) \in 1 .. n
        BY <2>9, <3>2
      <4> QED BY <2>5, <4>1
    <3> QED BY <3>1, <3>2
  <2>12. AskedFor' \subseteq AskedFor
    BY <2>1, SameAsked
  <2>13. ASSUME NEW a \in AskedFor, a.expr # None
         PROVE  a.expr \in Nat /\ a.expr <= exprs /\ a.expr <= exprs + n
    <3>1. a.expr \in Nat /\ a.expr <= exprs
      BY <2>3, <2>13 DEF QueueInv
    <3> QED BY <2>5, <3>1
  <2>14. \A a, b \in AskedFor : a.expr = b.expr /\ a.expr # None => a.id = b.id
    BY <2>3 DEF QueueInv
  <2>15. QueueInv'
    BY <2>1, <2>10, <2>11, <2>12, <2>13, <2>14 DEF QueueInv
  <2>16. Unasked(1)'
    <3> SUFFICES ASSUME NEW a \in AskedFor, NEW i \in DOMAIN all, a.expr # None, all[i] = a.expr PROVE FALSE
      BY <2>1, <2>12 DEF Unasked
    <3>1. CASE i \in DOMAIN queue
      <4>1. i >= 1 /\ queue[i] = a.expr
        BY <2>5, <2>9, <3>1
      <4> QED BY <2>3, <3>1, <4>1 DEF Unasked
    <3>2. CASE i \notin DOMAIN queue
      <4>1. all[i] = exprs + (i - Len(queue)) /\ i - Len(queue) \in 1 .. n
        BY <2>9, <3>2
      <4>2. a.expr \in Nat /\ a.expr <= exprs
        BY <2>13
      <4> QED BY <2>5, <4>1, <4>2
    <3> QED BY <3>1, <3>2
  <2>17. g \in LaunchFrames /\ g.todo = all /\ g.launched = 0
    BY <2>7, TolClientAssumption DEF LaunchFrame, LaunchFrames
  <2> HIDE DEF g
  <2> PICK r \in LaunchFrames : r = g /\ r.todo = all /\ r.launched = 0
    BY <2>17
  <2>18. stack' = <<r>> /\ <<r>>[1] = r /\ 1 \in DOMAIN <<r>> /\ DOMAIN <<r>> = {1}
    BY <2>1, <2>3
  <2>19. all = SubSeq(all, 1, Len(all))
    <3>1. Len(all) \in Nat /\ \A i \in 1 .. Len(all) : all[i] \in Nat
      BY <2>7, ElementOfSeq, LenProperties
    <3>2. /\ SubSeq(all, 1, Len(all)) \in Seq(Nat) /\ Len(SubSeq(all, 1, Len(all))) = Len(all)
          /\ \A i \in 1 .. Len(all) : SubSeq(all, 1, Len(all))[i] = all[i]
      BY <3>1
    <3> QED BY <2>7, <3>2, SeqEqual
  <2>20. Round(r)'
    <3>1. 0 <= Len(queue') /\ queue' = SubSeq(queue', 0 + 1, Len(queue'))
      BY <2>1, <2>5, <2>7, <2>19
    <3> QED BY <2>1, <3>1 DEF Round
  <2>21. UserCalls(stack, 1)'
    BY <2>18 DEF UserCalls
  <2>22. 0 + 1 = 1 /\ stack'[1] = r /\ 1 \in DOMAIN stack'
    BY <2>18
  <2>23. RoundGoesOn(stack)'
    <3>1. Round(stack[1])'
      BY <2>20, <2>22 DEF Round
    <3>2. Unasked(stack[1].launched + 1)'
      BY <2>16, <2>22 DEF Unasked
    <3> QED BY <2>21, <2>22, <3>1, <3>2 DEF RoundGoesOn
  <2>24. RoundInv'
    BY <2>1, <2>23 DEF RoundInv
  <2> QED BY <2>4, <2>15, <2>24
<1> QED BY <1>1, <1>2, <1>3 DEF Users

\* What is left of a sequence after its first n elements

LEMMA RestOf ==
  ASSUME NEW s \in Seq(Nat), NEW n \in Nat, n <= Len(s)
  PROVE  LET t == SubSeq(s, n + 1, Len(s))
         IN  /\ t \in Seq(Nat) /\ Len(t) = Len(s) - n /\ DOMAIN t = 1 .. Len(s) - n
             /\ \A i \in 1 .. Len(s) - n : t[i] = s[i + n]
<1> DEFINE t == SubSeq(s, n + 1, Len(s))
<1>1. Len(s) \in Nat /\ \A i \in n + 1 .. Len(s) : s[i] \in Nat
  BY ElementOfSeq, LenProperties
<1>2. /\ t \in Seq(Nat)
      /\ Len(t) = IF n + 1 <= Len(s) THEN Len(s) - (n + 1) + 1 ELSE 0
      /\ \A i \in 1 .. Len(s) - (n + 1) + 1 : t[i] = s[(n + 1) + i - 1]
  BY <1>1, SubSeqProperties
<1>3. Len(t) = Len(s) - n
  BY <1>1, <1>2
<1>4. \A i \in 1 .. Len(s) - n : t[i] = s[i + n]
  <2> SUFFICES ASSUME NEW i \in 1 .. Len(s) - n PROVE t[i] = s[i + n]
    OBVIOUS
  <2>1. i \in 1 .. Len(s) - (n + 1) + 1 /\ (n + 1) + i - 1 = i + n
    BY <1>1
  <2> QED BY <1>2, <2>1
<1>5. DOMAIN t = 1 .. Len(s) - n
  BY <1>2, <1>3, LenProperties
<1> QED BY <1>2, <1>3, <1>4, <1>5

LEMMA WholeOf ==
  ASSUME NEW s \in Seq(Nat)
  PROVE  s = SubSeq(s, 1, Len(s))
<1> DEFINE t == SubSeq(s, 1, Len(s))
<1>1. Len(s) \in Nat /\ 0 + 1 = 1 /\ 0 <= Len(s) /\ Len(s) - 0 = Len(s)
  BY LenProperties
<1>2. t \in Seq(Nat) /\ Len(t) = Len(s) /\ \A i \in 1 .. Len(s) : t[i] = s[i + 0]
  BY <1>1, RestOf
<1>3. \A i \in 1 .. Len(s) : t[i] = s[i]
  BY <1>2
<1> QED BY <1>2, <1>3, SeqEqual

LEMMA HeadOfSubSeq ==
  ASSUME NEW s \in Seq(Nat), NEW n \in Nat, n <= Len(s), SubSeq(s, n + 1, Len(s)) # <<>>
  PROVE  n + 1 \in DOMAIN s /\ Head(SubSeq(s, n + 1, Len(s))) = s[n + 1]
<1> DEFINE t == SubSeq(s, n + 1, Len(s))
<1>1. /\ t \in Seq(Nat) /\ Len(t) = Len(s) - n /\ Len(s) \in Nat /\ DOMAIN s = 1 .. Len(s)
      /\ \A i \in 1 .. Len(s) - n : t[i] = s[i + n]
  BY RestOf, LenProperties
<1> HIDE DEF t
<1>2. Head(t) = t[1] /\ Len(t) # 0
  BY <1>1, PopOf DEF t
<1>3. 1 \in 1 .. Len(s) - n /\ 1 + n = n + 1 /\ n + 1 \in 1 .. Len(s)
  BY <1>1, <1>2
<1>4. t[1] = s[1 + n]
  BY <1>1, <1>3
<1> QED BY <1>1, <1>2, <1>3, <1>4 DEF t

LEMMA TailOfSubSeq ==
  ASSUME NEW s \in Seq(Nat), NEW n \in Nat, n <= Len(s), SubSeq(s, n + 1, Len(s)) # <<>>
  PROVE  n + 1 <= Len(s) /\ Tail(SubSeq(s, n + 1, Len(s))) = SubSeq(s, n + 2, Len(s))
<1> DEFINE t == SubSeq(s, n + 1, Len(s))
           u == SubSeq(s, n + 2, Len(s))
<1>1. /\ t \in Seq(Nat) /\ Len(t) = Len(s) - n /\ Len(s) \in Nat
      /\ \A i \in 1 .. Len(s) - n : t[i] = s[i + n]
  BY RestOf, LenProperties
<1> HIDE DEF t
<1>2. /\ Len(t) # 0 /\ Tail(t) \in Seq(Nat) /\ Len(Tail(t)) = Len(t) - 1
      /\ \A i \in 1 .. Len(t) - 1 : Tail(t)[i] = t[i + 1]
  BY <1>1, PopOf DEF t
<1>3. n + 1 \in Nat /\ n + 1 <= Len(s) /\ (n + 1) + 1 = n + 2
  BY <1>1, <1>2
<1>4. /\ u \in Seq(Nat) /\ Len(u) = Len(s) - (n + 1)
      /\ \A i \in 1 .. Len(s) - (n + 1) : u[i] = s[i + (n + 1)]
  BY <1>3, RestOf
<1> HIDE DEF u
<1>5. Len(Tail(t)) = Len(u) /\ Len(u) = Len(s) - (n + 1)
  BY <1>1, <1>2, <1>4
<1>6. ASSUME NEW i \in 1 .. Len(u) PROVE Tail(t)[i] = u[i]
  <2>1. i \in 1 .. Len(t) - 1 /\ i + 1 \in 1 .. Len(s) - n /\ (i + 1) + n = i + (n + 1)
    BY <1>1, <1>5
  <2>2. Tail(t)[i] = t[i + 1] /\ t[i + 1] = s[(i + 1) + n] /\ u[i] = s[i + (n + 1)]
    BY <1>1, <1>2, <1>4, <1>5, <2>1
  <2> QED BY <2>1, <2>2
<1>7. Tail(t) = u
  BY <1>2, <1>4, <1>5, <1>6, SeqEqual
<1> QED BY <1>3, <1>7 DEF t, u

LEMMA ReturnsKeepRounds ==
  ASSUME WaitInv, ClusterInv, AskReturns, Calm'
  PROVE  (AnswersInv /\ QueueInv /\ RoundInv)'
<1> DEFINE f == Head(stack)
<1>1. /\ stack # <<>> /\ f.kind = "ask" /\ f.answer # None
      /\ UNCHANGED <<opened, timers, queue, launching, idle, requests, lines, accepted, exprs, losses, early>>
  BY DEF AskReturns, Innermost, InEventLoop, Waits, clusterVars, serverVars, usage
<1>2. AnswersInv /\ QueueInv /\ RoundInv
  BY <1>1 DEF ClusterInv, Calm
<1>3. /\ AsksWell(f)
      /\ \/ ~launching /\ NoRound(stack) /\ Tail(stack) = <<>>
         \/ launching /\ RoundWaits(stack)
  BY <1>1, <1>2, InnermostOf DEF Innermost
<1>4. stack' = Return(f.answer, Tail(stack)) /\ Launched(f.answer)
  <2>1. f.chan \in opened /\ f.answer \in {"ACKPING", "TASK"}
    BY <1>1, <1>3 DEF AsksWell
  <2>2. hostOf[f.chan] # None
    BY <2>1 DEF WaitInv, TypeInv
  <2> QED BY <2>1, <2>2 DEF AskReturns, Launched
<1>5. AnswersInv'
  BY <1>1, <1>2 DEF AnswersInv
<1>6. QueueInv' /\ \A n : Unasked(n) => Unasked(n)'
  BY <1>1, <1>2, SameAsked, LessAsked
<1>7. CASE ~launching /\ NoRound(stack) /\ Tail(stack) = <<>>
  <2>1. stack' = <<>> /\ Unasked(1)' /\ ~launching'
    BY <1>1, <1>4, <1>6, <1>7 DEF Return, NoRound
  <2>2. RoundInv'
    BY <2>1, OneFrame
  <2> QED BY <1>5, <1>6, <2>2
<1>8. CASE launching /\ RoundWaits(stack)
  <2> DEFINE s == Tail(stack)
             h == Head(s)
  <2>1. /\ Round(h) /\ h.todo # <<>> /\ Unasked(h.launched + 2)
        /\ s # <<>> /\ UserCalls(Tail(s), 0)
    BY <1>8, RoundOver DEF RoundWaits
  <2>2. s \in Seq(WaitingFrames)
    BY <1>1, PopStack DEF WaitInv, TypeInv
  <2>3. h.kind = "launch" /\ h \in LaunchFrames
    BY <2>1 DEF Round, LaunchFrames
  <2>4. PICK g \in LaunchFrames : /\ stack' = <<g>> \o Tail(s)
                                  /\ g.todo = Tail(h.todo) /\ g.launched = h.launched + 1
    BY <1>4, <2>1, <2>2, <2>3, ReturnToLaunch
  <2>5. Tail(s) \in Seq(Frames)
    <3>1. Tail(s) \in Seq(WaitingFrames)
      BY <2>1, <2>2, PopOf
    <3> QED BY <3>1, WaitingStack DEF IsStack
  <2>6. /\ h.launched \in Nat /\ Len(queue) \in Nat /\ h.launched <= Len(queue)
        /\ h.todo = SubSeq(queue, h.launched + 1, Len(queue)) /\ queue \in Seq(Nat)
    BY <2>1, <2>3, LenProperties DEF Round, LaunchFrames, WaitInv, TypeInv
  <2>7. h.launched + 1 <= Len(queue) /\ Tail(h.todo) = SubSeq(queue, h.launched + 2, Len(queue))
    BY <2>1, <2>6, TailOfSubSeq
  <2>8. g.launched = h.launched + 1 /\ (h.launched + 1) + 1 = h.launched + 2
    <3>1. \A n \in Nat : (n + 1) + 1 = n + 2
      OBVIOUS
    <3> QED BY <2>4, <2>6, <3>1, Zenon
  <2>9. Round(g) /\ Unasked(g.launched + 1)'
    BY <1>6, <2>1, <2>4, <2>7, <2>8 DEF Round
  <2>10. RoundInv'
    BY <1>1, <1>8, <2>1, <2>4, <2>5, <2>9, RoundIsOn
  <2> QED BY <1>5, <1>6, <2>10
<1> QED BY <1>3, <1>7, <1>8

LEMMA WaitsKeepRounds ==
  ASSUME WaitInv, ClusterInv, WaitGoesOn, Calm'
  PROVE  (AnswersInv /\ QueueInv /\ RoundInv)'
<1>1. /\ Innermost("wait")
      /\ UNCHANGED <<opened, timers, queue, launching, idle, requests, lines, accepted, exprs, losses, early>>
  BY DEF WaitGoesOn, channelVars, clusterVars, serverVars, usage
<1>2. AnswersInv /\ QueueInv /\ RoundInv
  BY <1>1 DEF ClusterInv, Calm
<1>3. ~launching /\ NoRound(stack) /\ Tail(stack) = <<>>
  BY <1>1, <1>2, InnermostOf
<1>4. AnswersInv'
  BY <1>1, <1>2 DEF AnswersInv
<1>5. QueueInv' /\ Unasked(1)'
  BY <1>1, <1>2, <1>3, SameAsked, LessAsked DEF NoRound
<1>6. PICK f : f.kind = "wait" /\ (stack' = <<>> \/ stack' = <<f>>)
  <2> DEFINE left == Head(stack).waiting \ {lastTask}
             f == WaitFrame(left)
  <2>1. f.kind = "wait"
    BY DEF WaitFrame
  <2>2. stack' = <<>> \/ stack' = <<f>> \o <<>>
    BY <1>3 DEF WaitGoesOn
  <2> HIDE DEF f
  <2>3. <<f>> \o <<>> = <<f>>
    BY ConcatEmptySeq
  <2> QED BY <2>1, <2>2, <2>3
<1>7. RoundInv'
  BY <1>1, <1>3, <1>5, <1>6, OneFrame
<1> QED BY <1>4, <1>5, <1>7

LEMMA LaunchesKeepRounds ==
  ASSUME WaitInv, ClusterInv, ClusterLaunch, Calm'
  PROVE  (AnswersInv /\ QueueInv /\ RoundInv)'
<1> DEFINE f == Head(stack)
<1>1. Innermost("launch") /\ UNCHANGED exprs /\ stack # <<>>
  BY DEF ClusterLaunch, Innermost
<1>2. ASSUME Calm
      PROVE  /\ AnswersInv /\ QueueInv /\ RoundInv /\ launching /\ RoundGoesOn(stack)
             /\ Round(f) /\ Unasked(f.launched + 1) /\ UserCalls(Tail(stack), 0)
  <2>1. AnswersInv /\ QueueInv /\ RoundInv
    BY <1>2 DEF ClusterInv
  <2>2. launching /\ RoundGoesOn(stack) /\ stack[1] = f
    BY <1>1, <2>1, InnermostOf
  <2> QED BY <2>1, <2>2, RoundOver DEF RoundGoesOn
<1>3. Tail(stack) \in Seq(WaitingFrames) /\ Tail(stack) \in Seq(Frames) /\ stack \in Seq(Frames)
  BY <1>1, PopStack, WaitingStack DEF WaitInv, TypeInv, IsStack
<1>4. queue \in Seq(Nat) /\ Len(queue) \in Nat /\ DOMAIN queue = 1 .. Len(queue)
  BY LenProperties DEF WaitInv, TypeInv
<1>5. CASE /\ queue' = Unlaunched(f) /\ idle' = LaunchLater(Unlaunched(f)) /\ launching' = FALSE
           /\ stack' = Tail(stack)
           /\ UNCHANGED <<channelVars, timers, serverVars, losses, early>>
  <2>1. UNCHANGED <<opened, timers, requests, lines, accepted, losses, early>>
    BY <1>5 DEF channelVars, serverVars
  <2>2. Calm
    BY <2>1 DEF Calm
  <2>3. f.launched \in Nat /\ f.launched <= Len(queue)
    BY <1>2, <2>2 DEF Round, LaunchFrames
  <2>4. /\ DOMAIN queue' = 1 .. Len(queue) - f.launched
        /\ \A i \in 1 .. Len(queue) - f.launched : queue'[i] = queue[i + f.launched]
    BY <1>4, <1>5, <2>3, RestOf DEF Unlaunched
  <2>5. AnswersInv'
    <3>1. idle' \in Seq([do : {"launch"}])
      BY <1>2, <1>5, <2>2, AppendProperties DEF LaunchLater, AnswersInv
    <3> QED BY <1>2, <2>1, <2>2, <3>1 DEF AnswersInv
  <2>6. AskedFor' \subseteq AskedFor
    BY <2>1, SameAsked
  <2>7. \A i \in DOMAIN queue' : i \in Nat /\ i + f.launched \in DOMAIN queue /\ queue'[i] = queue[i + f.launched]
    <3>1. ASSUME NEW i \in 1 .. Len(queue) - f.launched
          PROVE  i \in Nat /\ i + f.launched \in 1 .. Len(queue)
      BY <1>4, <2>3
    <3> QED BY <1>4, <2>4, <3>1
  <2>8. \A i, j \in DOMAIN queue' : i < j => i + f.launched < j + f.launched
    BY <2>3, <2>7
  <2>9. QueueInv'
    BY <1>1, <1>2, <2>2, <2>6, <2>7, <2>8 DEF QueueInv
  <2>10. \A i \in DOMAIN queue' : i >= 1 => i + f.launched >= f.launched + 1
    BY <2>3, <2>7
  <2>11. Unasked(1)'
    BY <1>2, <2>2, <2>6, <2>7, <2>10 DEF Unasked
  <2>12. UserCalls(stack, 0)'
    <3>1. UserCalls(stack', 0)
      BY <1>2, <1>5, <2>2
    <3> QED BY <2>1, <3>1 DEF UserCalls, AsksWell
  <2>13. RoundInv'
    BY <1>5, <2>11, <2>12 DEF RoundInv, NoRound
  <2> QED BY <2>5, <2>9, <2>13
<1>6. CASE /\ f.hosts # <<>>
           /\ stack' = <<[f EXCEPT !.hosts = Tail(@)]>> \o Tail(stack)
           /\ UNCHANGED <<channelVars, timers, clusterVars, idle, serverVars, losses, early>>
  <2>1. UNCHANGED <<opened, timers, queue, launching, idle, requests, lines, accepted, losses, early>>
    BY <1>6 DEF channelVars, clusterVars, serverVars
  <2>2. Calm
    BY <2>1 DEF Calm
  <2>3. AnswersInv'
    BY <1>2, <2>1, <2>2 DEF AnswersInv
  <2>4. QueueInv' /\ \A n : Unasked(n) => Unasked(n)'
    BY <1>1, <1>2, <2>1, <2>2, SameAsked, LessAsked
  <2>5. f \in LaunchFrames /\ Tail(f.hosts) \in Seq(Hosts)
    BY <1>2, <1>6, <2>2, HeadTailProperties DEF Round, LaunchFrames
  <2> DEFINE h == [f EXCEPT !.hosts = Tail(@)]
  <2>6. h \in LaunchFrames /\ h.todo = f.todo /\ h.launched = f.launched
    BY <2>5 DEF LaunchFrames
  <2> HIDE DEF h
  <2>7. PICK g \in LaunchFrames : g = h /\ g.todo = f.todo /\ g.launched = f.launched
    BY <2>6
  <2>8. stack' = <<g>> \o Tail(stack)
    BY <1>6, <2>7 DEF h
  <2>9. Round(g)
    BY <1>2, <2>2, <2>7 DEF Round
  <2>10. Unasked(g.launched + 1)'
    BY <1>2, <2>2, <2>4, <2>7
  <2>11. RoundInv'
    BY <1>2, <1>3, <2>1, <2>2, <2>8, <2>9, <2>10, RoundIsOn
  <2> QED BY <2>3, <2>4, <2>11
<1>7. CASE /\ f.todo # <<>> /\ f.hosts # <<>> /\ UNCHANGED idle
           /\ Ask(Head(f.hosts), "TOLEVAL", Head(f.todo), stack)
  <2> DEFINE e == Head(f.todo)
  <2>1. f \in LaunchFrames
    BY <1>1, HeadFrame DEF Innermost, WaitInv, TypeInv
  <2>2. Head(f.hosts) \in Hosts
    BY <1>7, <2>1, HeadTailProperties DEF LaunchFrames
  <2>3. /\ Calm /\ Sent(Head(f.hosts), "TOLEVAL", e, stack)
        /\ UNCHANGED <<queue, launching, lines, accepted>>
    BY <1>7, <2>2, CalmAsk
  <2>4. /\ f.launched \in Nat /\ f.launched <= Len(queue)
        /\ f.todo = SubSeq(queue, f.launched + 1, Len(queue))
    BY <1>2, <2>1, <2>3 DEF Round, LaunchFrames
  <2>5. f.launched + 1 \in DOMAIN queue /\ e = queue[f.launched + 1]
    BY <1>4, <1>7, <2>4, HeadOfSubSeq
  <2>6. e \in Nat /\ e <= exprs
    BY <1>2, <1>4, <2>3, <2>5, ElementOfSeq DEF QueueInv
  <2>7. e # None => e <= exprs /\ \A a \in AskedFor : a.expr # e
    <3> SUFFICES ASSUME e # None, NEW a \in AskedFor, a.expr = e PROVE FALSE
      BY <2>6
    <3>1. f.launched + 1 >= f.launched + 1
      BY <2>4
    <3> QED BY <1>2, <2>3, <2>5, <3>1 DEF Unasked
  <2> HIDE DEF e
  <2>8. /\ AnswersInv' /\ QueueInv' /\ opened \subseteq opened'
        /\ \A n : Unasked(n) /\ (\A i \in DOMAIN queue : i >= n => e = None \/ queue[i] # e) => Unasked(n)'
        /\ \E g \in Frames : /\ stack' = <<g>> \o stack
                             /\ g.kind = "ask" /\ g.answer = None /\ g.chan \in opened'
    BY <1>1, <1>2, <1>7, <2>2, <2>3, <2>6, <2>7, SentKeeps
  <2>9. PICK g \in Frames : /\ stack' = <<g>> \o stack
                            /\ g.kind = "ask" /\ g.answer = None /\ g.chan \in opened'
    BY <2>8
  <2> PICK h \in LaunchFrames : h = f
    BY <2>1
  <2>10. Unasked(h.launched + 2)
    <3> SUFFICES ASSUME NEW a \in AskedFor, NEW i \in DOMAIN queue, i >= h.launched + 2
                 PROVE  a.expr = None \/ queue[i] # a.expr
      BY DEF Unasked
    <3>1. i >= h.launched + 1
      BY <1>4, <2>4
    <3> QED BY <1>2, <2>3, <3>1 DEF Unasked
  <2>11. \A i \in DOMAIN queue : i >= h.launched + 2 => queue[i] # e
    <3> SUFFICES ASSUME NEW i \in DOMAIN queue, i >= h.launched + 2 PROVE queue[i] # e
      OBVIOUS
    <3>1. h.launched + 1 < i
      BY <1>4, <2>4
    <3>2. queue[h.launched + 1] < queue[i] /\ queue[i] \in Nat
      BY <1>2, <1>4, <2>3, <2>5, <3>1, ElementOfSeq DEF QueueInv
    <3> QED BY <2>5, <2>6, <3>2
  <2>12. Unasked(h.launched + 2)'
    BY <2>8, <2>10, <2>11
  <2>13. /\ stack'[1] = g /\ stack'[2] = stack[1] /\ stack[1] = h
         /\ 1 \in DOMAIN stack' /\ 2 \in DOMAIN stack'
    <3>1. /\ Len(stack) \in Nat /\ Len(stack) # 0 /\ DOMAIN stack' = 1 .. Len(stack) + 1
          /\ stack'[1] = g /\ \A i \in 1 .. Len(stack) : stack'[i + 1] = stack[i]
      BY <1>1, <1>3, <2>9, PushOf, PopOf
    <3>2. 1 \in 1 .. Len(stack) /\ 1 + 1 = 2 /\ 1 \in DOMAIN stack' /\ 2 \in DOMAIN stack'
      BY <3>1
    <3>3. stack'[1 + 1] = stack[1]
      BY <3>1, <3>2
    <3>4. h = stack[1]
      BY <1>1, <1>3, PopOf
    <3> QED BY <3>1, <3>2, <3>3, <3>4
  <2>14. UserCalls(stack, 2)'
    <3>1. UserCalls(stack, 1) /\ 1 + 1 = 2
      BY <1>2, <2>3 DEF RoundGoesOn
    <3>2. UserCalls(<<g>> \o stack, 1 + 1)
      BY <1>3, <3>1, UserCallsPush
    <3>3. UserCalls(stack', 2)
      BY <2>9, <3>1, <3>2
    <3> QED BY <2>8, <3>3 DEF UserCalls, AsksWell
  <2>15. AsksWell(stack[1])'
    BY <2>9, <2>13 DEF AsksWell
  <2>16. Round(stack[2])' /\ stack'[2] = h /\ stack'[2].todo # <<>>
    BY <1>2, <1>7, <2>3, <2>13 DEF Round
  <2>17. RoundWaits(stack)'
    BY <2>12, <2>13, <2>14, <2>15, <2>16 DEF RoundWaits, Unasked
  <2>18. RoundInv'
    BY <1>2, <2>3, <2>17 DEF RoundInv
  <2> QED BY <2>8, <2>18
<1> QED BY <1>5, <1>6, <1>7 DEF ClusterLaunch

LEMMA CallBacksKeepRounds ==
  ASSUME WaitInv, ClusterInv, IdleCallBack, Calm'
  PROVE  (AnswersInv /\ QueueInv /\ RoundInv)'
<1>1. /\ InEventLoop /\ idle # <<>> /\ idle' = Tail(idle)
      /\ UNCHANGED <<opened, timers, queue, requests, lines, accepted, exprs, losses, early>>
  BY DEF IdleCallBack, channelVars, serverVars, usage
<1>2. AnswersInv /\ QueueInv /\ RoundInv
  BY <1>1 DEF ClusterInv, Calm
<1>3. Head(idle).do = "launch" /\ idle' \in Seq([do : {"launch"}])
  <2>1. idle \in Seq([do : {"launch"}])
    BY <1>2 DEF AnswersInv
  <2>2. Head(idle) \in [do : {"launch"}] /\ Tail(idle) \in Seq([do : {"launch"}])
    BY <1>1, <2>1, PopOf
  <2> QED BY <1>1, <2>2
<1>4. launching' = TRUE /\ stack' = (IF launching THEN stack ELSE <<LaunchFrame>> \o stack)
  BY <1>3 DEF IdleCallBack
<1>5. AnswersInv'
  BY <1>1, <1>2, <1>3 DEF AnswersInv
<1>6. QueueInv' /\ \A n : Unasked(n) => Unasked(n)'
  BY <1>1, <1>2, SameAsked, LessAsked
<1>7. CASE launching
  BY <1>1, <1>2, <1>4, <1>5, <1>6, <1>7, SameStack DEF WaitInv, TypeInv
<1>8. CASE ~launching
  <2>1. NoRound(stack) /\ stack \in Seq(Frames)
    BY <1>2, <1>8 DEF RoundInv, WaitInv, TypeInv, IsStack
  <2>2. LaunchFrame \in LaunchFrames /\ LaunchFrame.todo = queue /\ LaunchFrame.launched = 0
    BY TolClientAssumption DEF LaunchFrame, LaunchFrames, WaitInv, TypeInv
  <2>3. PICK g \in LaunchFrames : g = LaunchFrame /\ g.todo = queue /\ g.launched = 0
    BY <2>2
  <2>4. /\ stack' = <<g>> \o stack /\ queue \in Seq(Nat) /\ Len(queue) \in Nat /\ 0 + 1 = 1
    BY <1>4, <1>8, <2>3, LenProperties DEF WaitInv, TypeInv
  <2>5. queue = SubSeq(queue, 1, Len(queue))
    BY <2>4, WholeOf
  <2>6. Round(g) /\ Unasked(g.launched + 1)'
    BY <1>6, <2>1, <2>3, <2>4, <2>5 DEF Round, NoRound
  <2>7. RoundInv'
    BY <1>1, <1>4, <2>1, <2>4, <2>6, RoundIsOn DEF NoRound
  <2> QED BY <1>5, <1>6, <2>7
<1> QED BY <1>7, <1>8

\* The line that is read is an answer that comes no more
LEMMA ReadAnswers ==
  ASSUME WaitInv, AnswersInv, NEW c \in Chans, lines[c] # <<>>,
         lines' = [lines EXCEPT ![c] = Tail(@)], UNCHANGED <<opened, requests>>,
         timers' \subseteq timers, Head(lines[c]).tag = "TFINISH" \/ Head(lines[c]).id \notin timers',
         idle' \in Seq([do : {"launch"}])
  PROVE  AnswersInv'
<1>1. lines[c] \in Seq(Lines)
  BY DEF WaitInv, TypeInv
<1>2. /\ lines'[c] = Tail(lines[c]) /\ \A d \in Chans \ {c} : lines'[d] = lines[d]
  BY DEF WaitInv, TypeInv
<1>3. ASSUME NEW id \in timers'
      PROVE  \E d \in opened' : id \in Ids(requests'[d]) \cup Replies(lines'[d])
  <2>1. PICK d \in opened : id \in Ids(requests[d]) \cup Replies(lines[d])
    BY DEF AnswersInv
  <2>2. CASE d # c
    <3>1. lines'[d] = lines[d]
      BY <1>2, <2>1, <2>2 DEF WaitInv, TypeInv
    <3> QED BY <2>1, <3>1
  <2>3. CASE d = c
    <3>1. id \in Replies(lines[c]) => id \in Replies(lines'[c])
      <4>1. /\ Replies(lines[c]) \subseteq Replies(Tail(lines[c])) \cup {Head(lines[c]).id}
            /\ Head(lines[c]).tag = "TFINISH" => Replies(lines[c]) \subseteq Replies(Tail(lines[c]))
        BY <1>1, RepliesOf
      <4> QED BY <1>2, <4>1
    <3> QED BY <2>1, <2>3, <3>1
  <2> QED BY <2>2, <2>3
<1> QED BY <1>3 DEF AnswersInv

LEMMA ReadsKeepRounds ==
  ASSUME WaitInv, ClusterInv, NEW c \in Chans, Calm',
         OnAckPing(c) \/ OnStartTask(c) \/ OnFinishTask(c)
  PROVE  (AnswersInv /\ QueueInv /\ RoundInv)'
<1> DEFINE id == Head(lines[c]).id
<1>1. /\ lines[c] # <<>> /\ lines' = [lines EXCEPT ![c] = Tail(@)]
      /\ UNCHANGED <<opened, queue, launching, requests, accepted, exprs, losses, early>>
  BY DEF OnAckPing, OnStartTask, OnFinishTask, Read, usage, clusterVars
<1>2. AnswersInv /\ QueueInv /\ RoundInv
  BY <1>1 DEF ClusterInv, Calm
<1>3. QueueInv' /\ \A n : Unasked(n) => Unasked(n)'
  BY <1>1, <1>2, SameAsked, LessAsked
<1>4. idle \in Seq([do : {"launch"}])
  BY <1>2 DEF AnswersInv
<1>5. CASE OnAckPing(c) \/ OnStartTask(c)
  <2>1. PICK value \in {"ACKPING", "TASK"} :
          \/ id \in timers /\ timers' = timers \ {id} /\ stack' = Answered({id}, value)
          \/ id \notin timers /\ UNCHANGED <<timers, stack>>
    <3>1. CASE OnAckPing(c)
      <4>1. \/ id \in timers /\ timers' = timers \ {id} /\ stack' = Answered({id}, "ACKPING")
            \/ id \notin timers /\ UNCHANGED <<timers, stack>>
        BY <3>1 DEF OnAckPing
      <4> QED BY <4>1
    <3>2. CASE OnStartTask(c)
      <4>1. \/ id \in timers /\ timers' = timers \ {id} /\ stack' = Answered({id}, "TASK")
            \/ id \notin timers /\ UNCHANGED <<timers, stack>>
        BY <3>2 DEF OnStartTask
      <4> QED BY <4>1
    <3> QED BY <1>5, <3>1, <3>2
  <2>2. idle' = idle
    BY <1>5 DEF OnAckPing, OnStartTask
  <2>3. timers' \subseteq timers /\ id \notin timers'
    BY <2>1
  <2>4. AnswersInv'
    BY <1>1, <1>2, <1>4, <2>2, <2>3, ReadAnswers
  <2>5. RoundInv'
    <3>1. CASE UNCHANGED stack
      BY <1>1, <1>2, <1>3, <3>1, SameStack DEF WaitInv, TypeInv
    <3>2. CASE stack' = Answered({id}, value)
      BY <1>1, <1>2, <1>3, <3>2, AnsweredFrames
    <3> QED BY <2>1, <3>1, <3>2
  <2> QED BY <1>3, <2>4, <2>5
<1>6. CASE OnFinishTask(c)
  <2>1. /\ UNCHANGED timers /\ Head(lines[c]).tag = "TFINISH"
        /\ \/ UNCHANGED <<idle, stack>>
           \/ idle' = LaunchLater(queue) /\ stack' = Woken
    BY <1>6 DEF OnFinishTask, Read
  <2>2. idle' \in Seq([do : {"launch"}])
    <3> DEFINE m == [do |-> "launch"]
    <3>1. m \in [do : {"launch"}]
      OBVIOUS
    <3>2. idle' = idle \/ idle' = Append(idle, m)
      BY <2>1 DEF LaunchLater
    <3> HIDE DEF m
    <3>3. Append(idle, m) \in Seq([do : {"launch"}])
      BY <1>4, <3>1, AppendProperties
    <3> QED BY <1>4, <3>2, <3>3
  <2>3. AnswersInv'
    BY <1>1, <1>2, <2>1, <2>2, ReadAnswers
  <2>4. RoundInv'
    <3>1. CASE UNCHANGED stack
      BY <1>1, <1>2, <1>3, <3>1, SameStack DEF WaitInv, TypeInv
    <3>2. CASE stack' = Woken
      BY <1>1, <1>2, <1>3, <3>2, WokenFrames
    <3> QED BY <2>1, <3>1, <3>2
  <2> QED BY <1>3, <2>3, <2>4
<1> QED BY <1>5, <1>6

\* An answer is on its way, or still to be made, for each request that has a timeout
LEMMA NoTimeout ==
  ASSUME WaitInv, ClusterInv, NEW id \in timers, OnTimeout(id)
  PROVE  ~Calm'
<1> SUFFICES ASSUME Calm' PROVE FALSE
  OBVIOUS
<1>1. early \in Nat /\ UNCHANGED losses /\ early' = (IF AnswerComes(id) THEN early + 1 ELSE early)
  BY DEF OnTimeout, WaitInv, TypeInv
<1>2. Calm /\ ~AnswerComes(id)
  BY <1>1 DEF Calm
<1>3. AnswersInv
  BY <1>2 DEF ClusterInv
<1>4. PICK c \in opened : id \in Ids(requests[c]) \cup Replies(lines[c])
  BY <1>3 DEF AnswersInv
<1>5. ASSUME id \in Ids(requests[c]) PROVE FALSE
  <2>1. PICK i \in DOMAIN requests[c] : requests[c][i].id = id
    BY <1>5 DEF Ids
  <2>2. requests[c] \in Seq(PlainRequests)
    BY <1>3, <1>4 DEF AnswersInv, WaitInv, TypeInv
  <2>3. requests[c][i].tag # "RECONN"
    BY <2>1, <2>2, ElementOfSeq, LenProperties DEF PlainRequests
  <2> QED BY <1>2, <1>4, <2>1, <2>3 DEF AnswerComes
<1>6. ASSUME id \in Replies(lines[c]) PROVE FALSE
  <2>1. PICK i \in DOMAIN lines[c] : lines[c][i].id = id
    BY <1>6 DEF Replies
  <2> QED BY <1>2, <1>4, <2>1 DEF AnswerComes
<1> QED BY <1>4, <1>5, <1>6

LEMMA NoLoss ==
  ASSUME WaitInv, NEW c \in Chans, OnEofChannel(c)
  PROVE  ~Calm'
<1>1. losses' = losses + 1 /\ losses \in Nat
  BY Zenon DEF OnEofChannel, WaitInv, TypeInv
<1> QED BY <1>1 DEF Calm

LEMMA NoTaskLost ==
  ASSUME WaitInv, NEW r \in running, ServerLoses(r)
  PROVE  ~Calm'
<1>1. losses' = losses + 1 /\ losses \in Nat
  BY Zenon DEF ServerLoses, WaitInv, TypeInv
<1> QED BY <1>1 DEF Calm

LEMMA ServersKeepRounds ==
  ASSUME WaitInv, ClusterInv, Servers, Calm'
  PROVE  (AnswersInv /\ QueueInv /\ RoundInv)'
<1>1. UNCHANGED <<opened, timers, queue, launching, stack, idle, exprs, losses, early>>
  BY DEF Servers, ServerAnswers, ServerFinishes, channelVars, clusterVars, usage
<1>2. AnswersInv /\ QueueInv /\ RoundInv
  BY <1>1 DEF ClusterInv, Calm
<1>3. ASSUME AnswersInv', AskedFor' \subseteq AskedFor
      PROVE  (AnswersInv /\ QueueInv /\ RoundInv)'
  <2>1. QueueInv' /\ \A n : Unasked(n) => Unasked(n)'
    BY <1>1, <1>2, <1>3, LessAsked
  <2>2. RoundInv'
    BY <1>1, <1>2, <2>1, SameStack DEF WaitInv, TypeInv
  <2> QED BY <1>3, <2>1, <2>2
<1>4. ASSUME NEW c \in Chans, ServerAnswers(c)
      PROVE  (AnswersInv /\ QueueInv /\ RoundInv)'
  <2> DEFINE r == Head(requests[c])
  <2>1. requests[c] \in Seq(PlainRequests) /\ requests[c] \in Seq(Requests) /\ requests[c] # <<>>
    BY <1>2, <1>4 DEF AnswersInv, WaitInv, TypeInv, ServerAnswers
  <2>2. /\ r \in PlainRequests /\ r \in Requests
        /\ Tail(requests[c]) \in Seq(PlainRequests)
    BY <2>1, PopOf
  <2>3. /\ requests'[c] = Tail(requests[c]) /\ \A d \in Chans \ {c} : requests'[d] = requests[d]
        /\ requests' \in [Chans -> Seq(PlainRequests)]
    BY <1>2, <1>4, <2>2 DEF ServerAnswers, AnswersInv
  <2>4. PICK m \in Lines :
          /\ m.tag # "TFINISH" /\ m.id = r.id
          /\ lines' = [lines EXCEPT ![c] = Append(@, m)]
          /\ accepted' \subseteq accepted \cup {[id |-> r.id, expr |-> r.expr]}
    <3>1. CASE /\ lines' = [lines EXCEPT ![c] = Append(@, [tag |-> "ACKPING", id |-> r.id])]
               /\ UNCHANGED accepted
      <4> DEFINE m == [tag |-> "ACKPING", id |-> r.id]
      <4>1. m \in Lines /\ m.tag # "TFINISH" /\ m.id = r.id
        BY <2>2 DEF Lines, Requests
      <4> HIDE DEF m
      <4>2. lines' = [lines EXCEPT ![c] = Append(@, m)]
        BY <3>1 DEF m
      <4> QED BY <3>1, <4>1, <4>2
    <3>2. CASE /\ lines' = [lines EXCEPT ![c] = Append(@, [tag |-> "TSTART", id |-> r.id])]
               /\ accepted' = accepted \cup {[id |-> r.id, expr |-> r.expr]}
      <4> DEFINE m == [tag |-> "TSTART", id |-> r.id]
      <4>1. m \in Lines /\ m.tag # "TFINISH" /\ m.id = r.id
        BY <2>2 DEF Lines, Requests
      <4> HIDE DEF m
      <4>2. lines' = [lines EXCEPT ![c] = Append(@, m)]
        BY <3>2 DEF m
      <4> QED BY <3>2, <4>1, <4>2
    <3>3. r.tag # "RECONN"
      BY <2>2 DEF PlainRequests
    <3> QED BY <1>4, <3>1, <3>2, <3>3 DEF ServerAnswers
  <2>5. lines[c] \in Seq(Lines)
    BY DEF WaitInv, TypeInv
  <2>6. lines'[c] = Append(lines[c], m) /\ \A d \in Chans \ {c} : lines'[d] = lines[d]
    BY <2>4 DEF WaitInv, TypeInv
  <2>7. Replies(lines[c]) \subseteq Replies(lines'[c]) /\ r.id \in Replies(lines'[c])
    BY <2>4, <2>5, <2>6, RepliesOf
  <2>8. Ids(requests[c]) \subseteq Ids(requests'[c]) \cup {r.id}
    <3> DEFINE s == requests[c]
    <3>1. /\ Head(s) = s[1] /\ Len(s) \in Nat /\ DOMAIN s = 1 .. Len(s)
          /\ DOMAIN Tail(s) = 1 .. Len(s) - 1 /\ \A i \in 1 .. Len(s) - 1 : Tail(s)[i] = s[i + 1]
      BY <2>1, PopOf
    <3>2. ASSUME NEW i \in DOMAIN s
          PROVE  i = 1 \/ \E j \in DOMAIN Tail(s) : Tail(s)[j] = s[i]
      <4>1. CASE i # 1
        <5>1. i - 1 \in 1 .. Len(s) - 1 /\ (i - 1) + 1 = i
          BY <3>1, <4>1
        <5> QED BY <3>1, <5>1
      <4> QED BY <4>1
    <3>3. Ids(s) \subseteq Ids(Tail(s)) \cup {Head(s).id}
      BY <3>1, <3>2 DEF Ids
    <3> QED BY <2>3, <3>3
  <2>9. ASSUME NEW id \in timers'
        PROVE  \E d \in opened' : id \in Ids(requests'[d]) \cup Replies(lines'[d])
    <3>1. PICK d \in opened : id \in Ids(requests[d]) \cup Replies(lines[d])
      BY <1>1, <1>2 DEF AnswersInv
    <3>2. CASE d = c
      BY <1>1, <2>7, <2>8, <3>1, <3>2
    <3>3. CASE d # c
      <4>1. requests'[d] = requests[d] /\ lines'[d] = lines[d]
        BY <2>3, <2>6, <3>1, <3>3 DEF WaitInv, TypeInv
      <4> QED BY <1>1, <3>1, <4>1
    <3> QED BY <3>2, <3>3
  <2>10. AnswersInv'
    <3>1. idle' \in Seq([do : {"launch"}])
      BY <1>1, <1>2 DEF AnswersInv
    <3> QED BY <2>3, <2>9, <3>1 DEF AnswersInv
  <2>11. AskedFor' \subseteq AskedFor
    <3>1. Asking(requests'[c]) \subseteq Asking(requests[c])
      BY <2>1, <2>3, AskingOf
    <3>2. [id |-> r.id, expr |-> r.expr] \in Asking(requests[c])
      BY <2>1, AskingOf
    <3>3. \A d \in Chans : Asking(requests'[d]) \subseteq Asking(requests[d])
      BY <2>3, <3>1
    <3> QED BY <2>4, <3>2, <3>3 DEF AskedFor
  <2> QED BY <1>3, <2>10, <2>11
<1>5. ASSUME NEW q \in running, ServerFinishes(q)
      PROVE  (AnswersInv /\ QueueInv /\ RoundInv)'
  <2>1. UNCHANGED <<requests, accepted>>
    BY <1>5 DEF ServerFinishes
  <2>2. \A d \in Chans : Replies(lines[d]) \subseteq Replies(lines'[d])
    <3>1. CASE lines' = lines
      BY <3>1
    <3>2. ASSUME NEW c \in Chans,
                 lines' = [lines EXCEPT ![c] = Append(@, [tag |-> "TFINISH", id |-> q.id])]
          PROVE  \A d \in Chans : Replies(lines[d]) \subseteq Replies(lines'[d])
      <4> DEFINE m == [tag |-> "TFINISH", id |-> q.id]
      <4>1. m \in Lines
        BY DEF WaitInv, TypeInv, Evaluations, Lines
      <4> HIDE DEF m
      <4>2. /\ lines'[c] = Append(lines[c], m) /\ lines[c] \in Seq(Lines)
            /\ \A d \in Chans \ {c} : lines'[d] = lines[d]
        BY <3>2, <4>1 DEF WaitInv, TypeInv, m
      <4>3. Replies(lines[c]) \subseteq Replies(lines'[c])
        BY <4>1, <4>2, RepliesOf
      <4> QED BY <4>2, <4>3
    <3>3. UNCHANGED lines \/ \E c \in Chans :
            lines' = [lines EXCEPT ![c] = Append(@, [tag |-> "TFINISH", id |-> q.id])]
      BY <1>5, ServerTells DEF WaitInv
    <3> QED BY <3>1, <3>2, <3>3
  <2>3. AnswersInv'
    <3>1. ASSUME NEW id \in timers'
          PROVE  \E d \in opened' : id \in Ids(requests'[d]) \cup Replies(lines'[d])
      <4>1. PICK d \in opened : id \in Ids(requests[d]) \cup Replies(lines[d])
        BY <1>1, <1>2 DEF AnswersInv
      <4>2. Replies(lines[d]) \subseteq Replies(lines'[d])
        BY <2>2, <4>1 DEF WaitInv, TypeInv
      <4> QED BY <1>1, <2>1, <4>1, <4>2
    <3> QED BY <1>1, <1>2, <2>1, <3>1 DEF AnswersInv
  <2>4. AskedFor' \subseteq AskedFor
    BY <2>1, SameAsked
  <2> QED BY <1>3, <2>3, <2>4
<1> QED BY <1>4, <1>5 DEF Servers

LEMMA ClusterInvNext == WaitInv /\ ClusterInv /\ [Next]_vars => ClusterInv'
<1> SUFFICES ASSUME WaitInv, ClusterInv, [Next]_vars, Calm'
             PROVE  (AnswersInv /\ QueueInv /\ RoundInv)'
  BY DEF ClusterInv
<1>1. CASE UNCHANGED vars
  <2>1. UNCHANGED <<opened, timers, queue, launching, stack, idle, requests, lines, accepted,
                    exprs, losses, early>>
    BY <1>1 DEF vars, channelVars, clusterVars, serverVars, usage
  <2>2. AnswersInv /\ QueueInv /\ RoundInv
    BY <2>1 DEF ClusterInv, Calm
  <2>3. AnswersInv'
    BY <2>1, <2>2 DEF AnswersInv
  <2>4. QueueInv' /\ \A n : Unasked(n) => Unasked(n)'
    BY <2>1, <2>2, SameAsked, LessAsked
  <2>5. RoundInv'
    BY <2>1, <2>2, <2>4, SameStack DEF WaitInv, TypeInv
  <2> QED BY <2>3, <2>4, <2>5
<1>2. CASE Users
  BY <1>2, UsersKeepRounds
<1>3. CASE Reads
  BY <1>3, ReadsKeepRounds DEF Reads
<1>4. CASE AskReturns \/ WaitGoesOn \/ ClusterLaunch \/ IdleCallBack
  BY <1>4, ReturnsKeepRounds, WaitsKeepRounds, LaunchesKeepRounds, CallBacksKeepRounds
<1>5. CASE Reconnect
  <2> DEFINE f == Head(stack)
  <2>1. Innermost("reconnect") /\ f \in ReconnectFrames
    BY <1>5, HeadFrame DEF Reconnect, Innermost, WaitInv, TypeInv
  <2>2. \/ UNCHANGED <<losses, early>>
        \/ \E t : Ask(f.host, "RECONN", None, <<[f EXCEPT !.tasks = @ \ {t}]>> \o Tail(stack))
    BY <1>5 DEF Reconnect
  <2>3. f.host \in Hosts
    BY <2>1 DEF ReconnectFrames
  <2>4. Calm
    BY <2>2, <2>3, CalmAsk DEF Calm
  <2>5. RoundInv
    BY <2>4 DEF ClusterInv
  <2> QED BY <2>1, <2>5, InnermostOf
<1>6. CASE Timeouts
  BY <1>6, NoTimeout DEF Timeouts
<1>7. CASE \E c \in Chans : OnEofChannel(c)
  BY <1>7, NoLoss
<1>8. CASE Servers
  BY <1>8, ServersKeepRounds
<1>9. CASE \E r \in running : ServerLoses(r)
  BY <1>9, NoTaskLost
<1> QED BY <1>1, <1>2, <1>3, <1>4, <1>5, <1>6, <1>7, <1>8, <1>9 DEF Next, Calls

LEMMA ClusterInvInit == Init => ClusterInv
<1> SUFFICES ASSUME Init PROVE AnswersInv /\ QueueInv /\ RoundInv
  BY DEF ClusterInv
<1>1. <<>> \in Seq(PlainRequests) /\ <<>> \in Seq([do : {"launch"}]) /\ DOMAIN <<>> = {}
  BY EmptySeq
<1>2. AskedFor = {}
  <2>1. Asking(<<>>) = {}
    BY DEF Asking
  <2> QED BY <2>1 DEF Init, AskedFor
<1>3. AnswersInv
  BY <1>1 DEF Init, AnswersInv
<1>4. QueueInv
  BY <1>1, <1>2 DEF Init, QueueInv
<1>5. RoundInv
  BY <1>1, <1>2 DEF Init, RoundInv, NoRound, UserCalls, Unasked
<1> QED BY <1>3, <1>4, <1>5

(* In every behaviour no expression of the cluster is evaluated twice, as long   *)
(* as no connection is lost and no answer comes after its timeout, however the   *)
(* rounds, the events and the calls of users interleave: a round deals out what   *)
(* the queue has after what it has launched, and nobody was asked for that       *)
(* (tolclient.tcl:728-748).                                                    *)
THEOREM EachExpressionOnce == Spec => []EvaluatedOnce
<1>1. ClusterInv /\ WaitInv => EvaluatedOnce
  <2> SUFFICES ASSUME ClusterInv, WaitInv, losses + early = 0,
                      NEW a \in accepted, NEW b \in accepted, a.expr = b.expr, a.expr # None
               PROVE  a.id = b.id
    BY DEF EvaluatedOnce
  <2>1. losses \in Nat /\ early \in Nat
    BY DEF WaitInv, TypeInv
  <2>2. Calm
    BY <2>1 DEF Calm
  <2>3. a \in AskedFor /\ b \in AskedFor
    BY DEF AskedFor
  <2> QED BY <2>2, <2>3 DEF ClusterInv, QueueInv
<1> QED BY <1>1, ClientIsTyped, ClusterInvInit, ClusterInvNext, PTL DEF Spec

=============================================================================
