---------------------------- MODULE TableBeatProofs ----------------------------
(***************************************************************************)
(* Proofs about the heartbeats of a table.  For any number of requests     *)
(* that start them: types, no process dispatches a message twice, and none *)
(* loses more than one.  For a table that only one request at a time       *)
(* starts: whatever stops a process and however often it is started again, *)
(* the table is a queue (MessageQueue), and a stop costs at most one       *)
(* message.                                                                *)
(*                                                                         *)
(* One starter is needed for these two.  start_tablebeat looks for a       *)
(* process and forks one in two steps, and two requests that both found    *)
(* none start two.                                                         *)
(***************************************************************************)
EXTENDS TableBeat, SequenceTheorems, FiniteSetTheorems, TLAPS

-----------------------------------------------------------------------------
(* Sequences                                                               *)

LEMMA HeadThenTail ==
    ASSUME NEW S, NEW s \in Seq(S), s # <<>>
    PROVE  Head(s) \in S /\ Tail(s) \in Seq(S) /\ <<Head(s)>> \o Tail(s) = s
<1>1. Head(s) \in S /\ Tail(s) \in Seq(S)
  BY HeadTailProperties
<1>2. Len(s) \in Nat \ {0} /\ Len(Tail(s)) = Len(s) - 1
  BY HeadTailProperties, EmptySeq
<1>3. \A i \in 1..Len(Tail(s)) : Tail(s)[i] = s[i + 1]
  BY HeadTailProperties
<1>4. <<Head(s)>> \in Seq(S) /\ Len(<<Head(s)>>) = 1 /\ <<Head(s)>>[1] = s[1]
  BY <1>1
<1>5. <<Head(s)>> \o Tail(s) \in Seq(S) /\ Len(<<Head(s)>> \o Tail(s)) = Len(s)
  BY <1>1, <1>2, <1>4, ConcatProperties
<1>6. ASSUME NEW i \in 1..Len(s) PROVE (<<Head(s)>> \o Tail(s))[i] = s[i]
  <2>1. (<<Head(s)>> \o Tail(s))[i] =
            IF i <= 1 THEN <<Head(s)>>[i] ELSE Tail(s)[i - 1]
    BY <1>1, <1>2, <1>4, ConcatProperties
  <2>. QED  BY <2>1, <1>2, <1>3, <1>4
<1>. QED  BY <1>1, <1>5, <1>6, SeqEqual

LEMMA PushedOnHead ==
    ASSUME NEW S, NEW s \in Seq(S), NEW h \in S
    PROVE  /\ <<h>> \o s \in Seq(S) /\ <<h>> \o s # <<>>
           /\ Head(<<h>> \o s) = h /\ Tail(<<h>> \o s) = s
<1>. DEFINE t == <<h>> \o s
<1>1. <<h>> \in Seq(S) /\ Len(<<h>>) = 1 /\ <<h>>[1] = h /\ Len(s) \in Nat
  BY LenProperties
<1>2. t \in Seq(S) /\ Len(t) = Len(s) + 1
  BY <1>1, ConcatProperties
<1>3. \A i \in 1..Len(s) + 1 : t[i] = IF i <= 1 THEN <<h>>[i] ELSE s[i - 1]
  BY <1>1, ConcatProperties
<1>4. t # <<>>
  BY <1>1, <1>2, EmptySeq
<1>5. Head(t) = h
  BY <1>1, <1>2, <1>3
<1>6. /\ Tail(t) \in Seq(S) /\ Len(Tail(t)) = Len(s)
      /\ \A i \in 1..Len(Tail(t)) : Tail(t)[i] = t[i + 1]
  BY <1>1, <1>2, <1>4, HeadTailProperties
<1>7. \A i \in 1..Len(Tail(t)) : Tail(t)[i] = s[i]
  BY <1>1, <1>3, <1>6
<1>8. Tail(t) = s
  BY <1>6, <1>7, SeqEqual
<1>. QED  BY <1>2, <1>4, <1>5, <1>8

LEMMA AppendBehind ==
    ASSUME NEW S, NEW s \in Seq(S), NEW h \in S, NEW m \in S
    PROVE  <<h>> \o Append(s, m) = Append(<<h>> \o s, m)
<1>1. <<h>> \in Seq(S) /\ <<m>> \in Seq(S)
  OBVIOUS
<1>2. <<h>> \o s \in Seq(S)
  BY PushedOnHead
<1>3. Append(s, m) = s \o <<m>> /\ Append(<<h>> \o s, m) = (<<h>> \o s) \o <<m>>
  BY <1>2, AppendIsConcat
<1>. QED  BY <1>1, <1>3, ConcatAssociative

(* What is in a sequence, and that nothing is in it twice.                 *)
LEMMA InConcat ==
    ASSUME NEW S, NEW s \in Seq(S), NEW h \in S
    PROVE  /\ ToSet(<<h>> \o s) = {h} \cup ToSet(s)
           /\ IsInjective(<<h>> \o s) <=> IsInjective(s) /\ h \notin ToSet(s)
<1>. DEFINE t == <<h>> \o s
<1>1. <<h>> \in Seq(S) /\ Len(<<h>>) = 1 /\ <<h>>[1] = h /\ Len(s) \in Nat
  BY LenProperties
<1>2. t \in Seq(S) /\ Len(t) = Len(s) + 1
  BY <1>1, ConcatProperties
<1>3. DOMAIN t = 1..Len(s) + 1 /\ DOMAIN s = 1..Len(s)
  BY <1>2, LenProperties
<1>4. t[1] = h /\ \A i \in 1..Len(s) : t[i + 1] = s[i]
  <2>1. \A i \in 1..Len(s) + 1 : t[i] = IF i <= 1 THEN <<h>>[i] ELSE s[i - 1]
    BY <1>1, ConcatProperties
  <2> QED
    BY <1>1, <2>1
<1>5. \A i \in 1..Len(s) + 1 : i = 1 \/ (i - 1 \in 1..Len(s) /\ t[i] = s[i - 1])
  <2> SUFFICES ASSUME NEW i \in 1..Len(s) + 1, i # 1
               PROVE  i - 1 \in 1..Len(s) /\ t[i] = s[i - 1]
    OBVIOUS
  <2>1. i - 1 \in 1..Len(s) /\ (i - 1) + 1 = i
    BY <1>1
  <2> QED
    BY <1>4, <2>1
<1> HIDE DEF t
<1>6. ToSet(t) = {h} \cup ToSet(s)
  <2>1. ASSUME NEW i \in DOMAIN t PROVE t[i] \in {h} \cup ToSet(s)
    BY <1>3, <1>4, <1>5 DEF ToSet
  <2>2. h \in ToSet(t)
    BY <1>1, <1>3, <1>4 DEF ToSet
  <2>3. ASSUME NEW i \in DOMAIN s PROVE s[i] \in ToSet(t)
    <3>1. i + 1 \in DOMAIN t /\ t[i + 1] = s[i]
      BY <1>1, <1>3, <1>4
    <3> QED
      BY <3>1 DEF ToSet
  <2> QED
    BY <2>1, <2>2, <2>3 DEF ToSet
<1>7. ASSUME IsInjective(t) PROVE IsInjective(s) /\ h \notin ToSet(s)
  <2>1. ASSUME NEW i \in DOMAIN s, NEW j \in DOMAIN s, s[i] = s[j] PROVE i = j
    <3>1. i + 1 \in DOMAIN t /\ j + 1 \in DOMAIN t /\ t[i + 1] = t[j + 1]
      BY <1>1, <1>3, <1>4, <2>1
    <3>2. i + 1 = j + 1
      BY <1>7, <3>1 DEF IsInjective
    <3> QED
      BY <1>1, <1>3, <3>2
  <2>2. ASSUME NEW i \in DOMAIN s, s[i] = h PROVE FALSE
    <3>1. i + 1 \in DOMAIN t /\ 1 \in DOMAIN t /\ t[i + 1] = t[1]
      BY <1>1, <1>3, <1>4, <2>2
    <3>2. i + 1 = 1
      BY <1>7, <3>1 DEF IsInjective
    <3> QED
      BY <1>1, <1>3, <3>2
  <2> QED
    BY <2>1, <2>2 DEF IsInjective, ToSet
<1>8. ASSUME IsInjective(s), h \notin ToSet(s) PROVE IsInjective(t)
  <2> SUFFICES ASSUME NEW i \in DOMAIN t, NEW j \in DOMAIN t, t[i] = t[j] PROVE i = j
    BY DEF IsInjective
  <2>1. \A k \in DOMAIN s : s[k] # h
    BY <1>8 DEF ToSet
  <2>2. i = 1 <=> j = 1
    <3>1. \A n \in DOMAIN t : n # 1 => t[n] # h
      <4> SUFFICES ASSUME NEW n \in DOMAIN t, n # 1 PROVE t[n] # h
        OBVIOUS
      <4>1. n - 1 \in DOMAIN s /\ t[n] = s[n - 1]
        BY <1>3, <1>5
      <4> QED
        BY <2>1, <4>1
    <3> QED
      BY <1>4, <3>1
  <2>3. CASE i # 1 /\ j # 1
    <3>1. i - 1 \in DOMAIN s /\ j - 1 \in DOMAIN s /\ s[i - 1] = s[j - 1]
      BY <1>3, <1>5, <2>3
    <3>2. i - 1 = j - 1
      BY <1>8, <3>1 DEF IsInjective
    <3> QED
      BY <1>1, <1>3, <3>2
  <2> QED
    BY <2>2, <2>3
<1> QED
  BY <1>6, <1>7, <1>8 DEF t

LEMMA InTail ==
    ASSUME NEW S, NEW s \in Seq(S), s # <<>>
    PROVE  /\ ToSet(s) = {Head(s)} \cup ToSet(Tail(s))
           /\ IsInjective(s) => IsInjective(Tail(s)) /\ Head(s) \notin ToSet(Tail(s))
<1>1. Head(s) \in S /\ Tail(s) \in Seq(S) /\ <<Head(s)>> \o Tail(s) = s
  BY HeadThenTail
<1> DEFINE h == Head(s)  t == Tail(s)
<1>2. /\ ToSet(<<h>> \o t) = {h} \cup ToSet(t)
      /\ IsInjective(<<h>> \o t) => IsInjective(t) /\ h \notin ToSet(t)
  BY <1>1, InConcat
<1> QED
  BY <1>1, <1>2

LEMMA InAppend ==
    ASSUME NEW S, NEW s \in Seq(S), NEW m \in S
    PROVE  /\ ToSet(Append(s, m)) = ToSet(s) \cup {m}
           /\ IsInjective(s) /\ m \notin ToSet(s) => IsInjective(Append(s, m))
<1>. DEFINE t == Append(s, m)
<1>1. /\ Len(s) \in Nat /\ DOMAIN s = 1..Len(s)
      /\ t \in Seq(S) /\ Len(t) = Len(s) + 1 /\ DOMAIN t = 1..Len(s) + 1
      /\ t[Len(s) + 1] = m /\ \A i \in 1..Len(s) : t[i] = s[i]
  BY AppendProperties, LenProperties
<1> HIDE DEF t
<1>2. \A i \in DOMAIN t : i \in DOMAIN s \/ i = Len(s) + 1
  BY <1>1
<1>3. ToSet(t) = ToSet(s) \cup {m}
  <2>1. ASSUME NEW i \in DOMAIN t PROVE t[i] \in ToSet(s) \cup {m}
    BY <1>1, <1>2 DEF ToSet
  <2>2. m \in ToSet(t)
    BY <1>1 DEF ToSet
  <2>3. ASSUME NEW i \in DOMAIN s PROVE s[i] \in ToSet(t)
    <3>1. i \in DOMAIN t /\ t[i] = s[i]
      BY <1>1
    <3> QED
      BY <3>1 DEF ToSet
  <2> QED
    BY <2>1, <2>2, <2>3 DEF ToSet
<1>4. ASSUME IsInjective(s), m \notin ToSet(s) PROVE IsInjective(t)
  BY <1>1, <1>2, <1>4 DEF IsInjective, ToSet
<1> QED
  BY <1>3, <1>4 DEF t

-----------------------------------------------------------------------------
(* Types                                                                   *)

(* What is pushed back and what is dispatched is a message.                *)
HoldsMessage ==
    \A b \in Beats : pc[b] \in {"pushback", "dispatch"} => hand[b] \in Messages

Typed == TypeOK /\ HoldsMessage

LEMMA TypedInit == Init => Typed
BY DEF Init, Typed, TypeOK, HoldsMessage

LEMMA TypedSend ==
    ASSUME Typed, NEW m \in Messages, Send(m)
    PROVE  Typed'
<1>1. queue \in Seq(Messages) /\ queue' = Append(queue, m)
  BY DEF Typed, TypeOK, Send
<1>2. queue' \in Seq(Messages)
  BY <1>1, AppendProperties
<1> QED
  BY <1>2 DEF Send, db, memory, control, history, Typed, TypeOK, HoldsMessage

LEMMA TypedStart ==
    ASSUME Typed, NEW s \in Starters, Start(s)
    PROVE  Typed'
<1> USE DEF db, memory, control, history, Typed, TypeOK, HoldsMessage
<1>1. CASE FindNoBeat(s)
  BY <1>1 DEF FindNoBeat
<1>2. CASE ForkBeat(s)
  <2>1. PICK b \in Beats \ Running : pc' = [pc EXCEPT ![b] = "load"]
    BY <1>2 DEF ForkBeat
  <2> QED
    BY <1>2, <2>1 DEF ForkBeat
<1> QED
  BY <1>1, <1>2 DEF Start

LEMMA TypedBeat ==
    ASSUME Typed, NEW b \in Beats, Beat(b)
    PROVE  Typed'
<1> USE DEF db, memory, control, history, Typed, TypeOK, HoldsMessage
<1>0. queue # <<>> => Head(queue) \in Messages /\ Tail(queue) \in Seq(Messages)
  BY HeadThenTail
<1>1. CASE Load(b)
  BY <1>1 DEF Load
<1>2. CASE Peek(b)
  BY <1>0, <1>2 DEF Peek
<1>3. CASE PushBack(b)
  <2>1. queue' \in Seq(Messages)
    BY <1>3, PushedOnHead DEF PushBack
  <2> QED
    BY <1>3, <2>1 DEF PushBack
<1>4. CASE Tick(b)
  <2>1. CASE Commit(b, memLog[b])
    BY <1>4, <2>1 DEF Tick, Commit
  <2>2. CASE UNCHANGED <<db, memory>>
    BY <1>4, <2>2 DEF Tick
  <2> QED
    BY <1>4, <2>1, <2>2 DEF Tick
<1>5. CASE Kick(b)
  BY <1>5 DEF Kick, Commit
<1>6. CASE Pause(b)
  <2>1. hand' \in [Beats -> Messages \cup {NoMessage}] /\ \A a \in Beats : a # b => hand'[a] = hand[a]
    BY <1>6 DEF Pause
  <2>2. /\ pc' = [pc EXCEPT ![b] = "pop"] /\ quitting' = [quitting EXCEPT ![b] = TRUE]
        /\ stopped' = stopped + 1
        /\ UNCHANGED <<queue, db, memory, control, ticks, sent, handled>>
    BY <1>6 DEF Pause
  <2> QED
    BY <2>1, <2>2
<1>7. CASE Apply(b)
  <2>1. hand[b] \in Messages /\ Append(memLog[b], hand[b]) \in Seq(Messages)
    BY <1>7, AppendProperties DEF Apply
  <2> QED
    BY <1>7, <2>1 DEF Apply, Commit
<1>8. ASSUME NEW stops \in BOOLEAN, Refuse(b, stops) PROVE Typed'
  BY <1>8 DEF Refuse
<1>9. CASE CheckModified(b)
  BY <1>9 DEF CheckModified
<1>10. CASE Pop(b)
  <2>1. queue' \in Seq(Messages)
    BY <1>0, <1>10 DEF Pop
  <2>2. \E next \in {"off", "peek"} : pc' = [pc EXCEPT ![b] = next]
    BY <1>10 DEF Pop, AfterLoop
  <2> QED
    BY <1>10, <2>1, <2>2 DEF Pop
<1> QED
  BY <1>1, <1>2, <1>3, <1>4, <1>5, <1>6, <1>7, <1>8, <1>9, <1>10 DEF Beat

LEMMA TypedStop ==
    ASSUME Typed, NEW b \in Beats, Kill(b) \/ Terminate(b)
    PROVE  Typed'
<1> USE DEF db, memory, control, history, Typed, TypeOK, HoldsMessage
<1>1. CASE Kill(b)
  BY <1>1 DEF Kill
<1>2. CASE Terminate(b)
  <2>1. PICK next \in {"off", "pop"} : pc' = [pc EXCEPT ![b] = next]
    BY <1>2 DEF Terminate
  <2>2. quitting' \in [Beats -> BOOLEAN]
    BY <1>2 DEF Terminate
  <2>3. /\ stopped' = stopped + 1
        /\ UNCHANGED <<queue, db, hand, memory, control, ticks, sent, handled>>
    BY <1>2 DEF Terminate
  <2>4. /\ pc' \in [Beats -> {"off", "load", "peek", "pushback", "dispatch", "check", "pop"}]
        /\ HoldsMessage'
    BY <2>1, <2>3
  <2> QED
    BY <2>2, <2>3, <2>4
<1> QED
  BY <1>1, <1>2

LEMMA TypedNext ==
    ASSUME Typed, [Next]_vars
    PROVE  Typed'
<1>1. CASE UNCHANGED vars
  BY <1>1 DEF vars, db, memory, control, history, Typed, TypeOK, HoldsMessage
<1> QED
  BY <1>1, TypedSend, TypedStart, TypedBeat, TypedStop DEF Next

(* However many requests start heartbeats, every value stays of its type,  *)
(* and what a heartbeat pushes back or dispatches is a message.            *)
THEOREM TypesHold == Spec => []TypeOK
<1>1. Typed => TypeOK
  BY DEF Typed
<1> QED
  BY <1>1, TypedInit, TypedNext, PTL DEF Spec

-----------------------------------------------------------------------------
(* Each message is in one place                                            *)

(* A message is once in the queue or in the hand of one beat that has not  *)
(* pushed it back yet, however many beats peek at the queue.               *)
Unique ==
    /\ ToSet(queue) \subseteq sent /\ IsInjective(queue)
    /\ \A b \in Beats : pc[b] = "pushback" => hand[b] \in sent \ ToSet(queue)
    /\ \A a, b \in Beats :
           pc[a] = "pushback" /\ pc[b] = "pushback" /\ hand[a] = hand[b] => a = b

LEMMA WaitingUnfolds ==
    ASSUME NEW m
    PROVE  /\ Waiting(m) <=> m \in ToSet(queue)
                             \/ \E b \in Beats : pc[b] = "pushback" /\ hand[b] = m
           /\ Waiting(m)' <=> m \in ToSet(queue')
                              \/ \E b \in Beats : pc'[b] = "pushback" /\ hand'[b] = m
BY DEF Waiting, ToSet

(* No message comes (back) to a place by any other step than these three.  *)
LEMMA UniqueFrame ==
    ASSUME Typed, Unique, sent' = sent,
           queue' = queue \/ (queue # <<>> /\ queue' = Tail(queue)),
           \A a \in Beats : pc'[a] = "pushback" => pc[a] = "pushback" /\ hand'[a] = hand[a]
    PROVE  Unique' /\ \A m \in Messages : Waiting(m)' => Waiting(m)
<1>1. ToSet(queue') \subseteq ToSet(queue) /\ IsInjective(queue')
  <2>1. CASE queue # <<>> /\ queue' = Tail(queue)
    BY <2>1, InTail DEF Typed, TypeOK, Unique
  <2> QED
    BY <2>1 DEF Unique
<1>2. Unique'
  BY <1>1 DEF Unique
<1>3. ASSUME NEW m \in Messages, Waiting(m)' PROVE Waiting(m)
  BY <1>1, <1>3, WaitingUnfolds
<1> QED
  BY <1>2, <1>3

LEMMA UniqueSend ==
    ASSUME Typed, Unique, NEW m \in Messages, Send(m)
    PROVE  Unique' /\ \A x \in Messages : x \in sent /\ Waiting(x)' => Waiting(x)
<1>1. /\ m \notin sent /\ sent' = sent \cup {m} /\ queue' = Append(queue, m)
      /\ UNCHANGED <<pc, hand>>
  BY DEF Send
<1>2. ToSet(queue') = ToSet(queue) \cup {m} /\ IsInjective(queue')
  BY <1>1, InAppend DEF Typed, TypeOK, Unique
<1>3. Unique'
  BY <1>1, <1>2 DEF Unique
<1>4. ASSUME NEW x \in Messages, x \in sent, Waiting(x)' PROVE Waiting(x)
  BY <1>1, <1>2, <1>4, WaitingUnfolds
<1> QED
  BY <1>3, <1>4

LEMMA UniquePeek ==
    ASSUME Typed, Unique, NEW b \in Beats, Peek(b)
    PROVE  Unique' /\ \A m \in Messages : Waiting(m)' <=> Waiting(m)
<1>1. /\ pc[b] = "peek" /\ queue # <<>> /\ queue' = Tail(queue) /\ sent' = sent
      /\ hand' = [hand EXCEPT ![b] = Head(queue)] /\ pc' = [pc EXCEPT ![b] = "pushback"]
  BY DEF Peek, history
<1>2. ToSet(queue) = {Head(queue)} \cup ToSet(queue')
  BY <1>1, InTail DEF Typed, TypeOK
<1>3. IsInjective(queue') /\ Head(queue) \notin ToSet(queue')
  BY <1>1, InTail DEF Typed, TypeOK, Unique
<1>4. \A a \in Beats : IF a = b THEN pc'[a] = "pushback" /\ hand'[a] = Head(queue)
                                ELSE pc'[a] = pc[a] /\ hand'[a] = hand[a]
  BY <1>1 DEF Typed, TypeOK
<1>5. Unique'
  BY <1>1, <1>2, <1>3, <1>4 DEF Unique
<1>6. ASSUME NEW m \in Messages PROVE Waiting(m)' <=> Waiting(m)
  BY <1>1, <1>2, <1>4, WaitingUnfolds
<1> QED
  BY <1>5, <1>6

LEMMA UniquePushBack ==
    ASSUME Typed, Unique, NEW b \in Beats, PushBack(b)
    PROVE  /\ Unique' /\ \A m \in Messages : Waiting(m)' <=> Waiting(m)
           /\ Waiting(hand[b])
<1>1. /\ pc[b] = "pushback" /\ queue' = <<hand[b]>> \o queue /\ sent' = sent
      /\ hand' = hand /\ pc' = [pc EXCEPT ![b] = "dispatch"]
  BY DEF PushBack, history
<1>2. hand[b] \in Messages /\ hand[b] \in sent \ ToSet(queue)
  BY <1>1 DEF Typed, HoldsMessage, Unique
<1>3. ToSet(queue') = {hand[b]} \cup ToSet(queue) /\ IsInjective(queue')
  BY <1>1, <1>2, InConcat DEF Typed, TypeOK, Unique
<1>4. \A a \in Beats : pc'[a] = IF a = b THEN "dispatch" ELSE pc[a]
  BY <1>1 DEF Typed, TypeOK
<1>5. Unique'
  BY <1>1, <1>2, <1>3, <1>4 DEF Unique
<1>6. ASSUME NEW m \in Messages PROVE Waiting(m)' <=> Waiting(m)
  BY <1>1, <1>3, <1>4, WaitingUnfolds
<1> QED
  BY <1>1, <1>5, <1>6, WaitingUnfolds

(* What a beat does after the push of a peek brings no message back.       *)
LEMMA OtherBeat ==
    ASSUME Typed, NEW b \in Beats, Beat(b), ~Peek(b), ~PushBack(b)
    PROVE  /\ sent' = sent
           /\ queue' = queue \/ (queue # <<>> /\ queue' = Tail(queue))
           /\ pc[b] \notin {"off", "pushback"}
           /\ \E next \in {"off", "peek", "dispatch", "check", "pop"} :
                  pc' = [pc EXCEPT ![b] = next]
           /\ \A a \in Beats : a # b => pc'[a] = pc[a] /\ hand'[a] = hand[a]
<1> USE DEF Typed, TypeOK, history
<1>1. CASE Load(b)
  BY <1>1 DEF Load
<1>2. CASE Tick(b)
  BY <1>2 DEF Tick
<1>3. CASE Kick(b)
  BY <1>3 DEF Kick
<1>4. CASE Pause(b)
  BY <1>4 DEF Pause
<1>5. CASE Apply(b)
  BY <1>5 DEF Apply
<1>6. ASSUME NEW stops \in BOOLEAN, Refuse(b, stops)
      PROVE  sent' = sent /\ queue' = queue /\ hand' = hand /\ pc[b] = "dispatch"
             /\ pc' = [pc EXCEPT ![b] = "pop"]
  BY <1>6 DEF Refuse
<1>7. CASE CheckModified(b)
  BY <1>7 DEF CheckModified
<1>8. CASE Pop(b)
  BY <1>8 DEF Pop, AfterLoop
<1> QED
  BY <1>1, <1>2, <1>3, <1>4, <1>5, <1>6, <1>7, <1>8 DEF Beat

(* A step of a beat may end it, and starts none.                           *)
LEMMA BeatRuns ==
    ASSUME Typed, NEW b \in Beats, Beat(b)
    PROVE  Running' \subseteq Running
<1>1. pc \in [Beats -> {"off", "load", "peek", "pushback", "dispatch", "check", "pop"}]
  BY DEF Typed, TypeOK
<1>2. \E next \in {"off", "load", "peek", "pushback", "dispatch", "check", "pop"} :
          pc[b] # "off" /\ pc' = [pc EXCEPT ![b] = next]
  BY OtherBeat DEF Peek, PushBack
<1> QED
  BY <1>1, <1>2 DEF Running

LEMMA UniqueOther ==
    ASSUME Typed, Unique, NEW b \in Beats, Beat(b), ~Peek(b), ~PushBack(b)
    PROVE  Unique' /\ \A m \in Messages : Waiting(m)' => Waiting(m)
<1>1. PICK next \in {"off", "peek", "dispatch", "check", "pop"} : pc' = [pc EXCEPT ![b] = next]
  BY OtherBeat
<1>2. \A a \in Beats : pc'[a] = "pushback" => pc[a] = "pushback" /\ hand'[a] = hand[a]
  BY <1>1, OtherBeat DEF Typed, TypeOK
<1> QED
  BY <1>2, OtherBeat, UniqueFrame

(* Being stopped loses what is in the hand, and nothing else.              *)
LEMMA StopEffect ==
    ASSUME Typed, NEW b \in Beats, Kill(b) \/ Terminate(b)
    PROVE  /\ UNCHANGED <<queue, hand, sent, handled, starts>> /\ b \in Running
           /\ stopped' = stopped + 1
           /\ \/ pc' = [pc EXCEPT ![b] = "off"]
              \/ pc[b] \in {"dispatch", "check"} /\ pc' = [pc EXCEPT ![b] = "pop"]
BY DEF Kill, Terminate, control

LEMMA UniqueStop ==
    ASSUME Typed, Unique, NEW b \in Beats, Kill(b) \/ Terminate(b)
    PROVE  Unique' /\ \A m \in Messages : Waiting(m)' => Waiting(m)
<1>1. \A a \in Beats : pc'[a] = "pushback" => pc[a] = "pushback" /\ hand'[a] = hand[a]
  BY StopEffect DEF Typed, TypeOK
<1> QED
  BY <1>1, StopEffect, UniqueFrame

LEMMA StartEffect ==
    ASSUME Typed, NEW s \in Starters, Start(s)
    PROVE  /\ UNCHANGED <<queue, hand, sent, handled, stopped>>
           /\ \/ UNCHANGED <<pc, starts>>
              \/ starts' = starts + 1 /\ \E b \in Beats \ Running : pc' = [pc EXCEPT ![b] = "load"]
BY DEF Start, FindNoBeat, ForkBeat, history

LEMMA UniqueStart ==
    ASSUME Typed, Unique, NEW s \in Starters, Start(s)
    PROVE  Unique' /\ \A m \in Messages : Waiting(m)' => Waiting(m)
<1>1. \A a \in Beats : pc'[a] = "pushback" => pc[a] = "pushback" /\ hand'[a] = hand[a]
  BY StartEffect DEF Typed, TypeOK
<1> QED
  BY <1>1, StartEffect, UniqueFrame

(* No step puts a message into two places, or one that is gone into any.   *)
LEMMA UniqueNext ==
    ASSUME Typed, Unique, [Next]_vars
    PROVE  Unique' /\ \A m \in Messages : m \in sent /\ Waiting(m)' => Waiting(m)
<1>1. CASE UNCHANGED vars
  BY <1>1, UniqueFrame DEF vars, history
<1>2. ASSUME NEW b \in Beats, Beat(b)
      PROVE  Unique' /\ \A m \in Messages : Waiting(m)' => Waiting(m)
  BY <1>2, UniquePeek, UniquePushBack, UniqueOther
<1> QED
  BY <1>1, <1>2, UniqueSend, UniqueStart, UniqueStop DEF Next

LEMMA UniqueInit == Init => Unique
BY DEF Init, Unique, ToSet, IsInjective

-----------------------------------------------------------------------------
(* Each process dispatches a message once at most                          *)

Gone(m) == m \in sent /\ ~Waiting(m)

(* The beats that may still dispatch m: while it is there, all that are    *)
(* not just done with it, and once it is gone, those that peeked at it.    *)
MayDispatch(m) ==
    IF Gone(m)
    THEN {b \in Running : pc[b] = "dispatch" /\ hand[b] = m}
    ELSE {b \in Running : ~(pc[b] \in {"check", "pop"} /\ hand[b] = m)}

(* Each start is spent when a beat dispatches m, or on a beat that may.    *)
Budget ==
    /\ IsFiniteSet(Running)
    /\ \A m \in Messages : handled[m] + Cardinality(MayDispatch(m)) <= starts

LEMMA BudgetInit == Init => Budget
<1> SUFFICES ASSUME Init PROVE Budget
  OBVIOUS
<1>1. Running = {} /\ \A m \in Messages : MayDispatch(m) = {}
  BY DEF Init, Running, MayDispatch
<1>2. \A m \in Messages : handled[m] = 0 /\ starts = 0
  BY DEF Init
<1> QED
  BY <1>1, <1>2, FS_EmptySet DEF Budget

LEMMA MayDispatchFinite ==
    ASSUME Budget, NEW m
    PROVE  IsFiniteSet(MayDispatch(m)) /\ Cardinality(MayDispatch(m)) \in Nat
<1>1. MayDispatch(m) \subseteq Running
  BY DEF MayDispatch
<1> QED
  BY <1>1, FS_Subset, FS_CardinalityType DEF Budget

(* A step in which no beat joins those that may dispatch m, which is so    *)
(* when no beat starts, comes to hold m, or is done with an m that stays.  *)
LEMMA NobodyJoins ==
    ASSUME Typed, NEW m \in Messages, Gone(m) => Gone(m)',
           Running' \subseteq Running,
           \A a \in Beats : pc'[a] = "dispatch" /\ hand'[a] = m =>
               (pc[a] = "dispatch" /\ hand[a] = m) \/ ~Gone(m)',
           \A a \in Running' : pc[a] \in {"check", "pop"} /\ hand[a] = m =>
               (pc'[a] \in {"check", "pop"} /\ hand'[a] = m) \/ Gone(m)'
    PROVE  MayDispatch(m)' \subseteq MayDispatch(m)
<1>1. CASE Gone(m)'
  <2>1. MayDispatch(m)' = {a \in Running' : pc'[a] = "dispatch" /\ hand'[a] = m}
    BY <1>1 DEF MayDispatch
  <2>2. ASSUME NEW a \in Running', pc'[a] = "dispatch", hand'[a] = m
        PROVE  a \in MayDispatch(m)
    <3>1. a \in Running /\ a \in Beats /\ pc[a] = "dispatch" /\ hand[a] = m
      BY <1>1, <2>2 DEF Running
    <3> QED
      BY <3>1 DEF MayDispatch
  <2> QED
    BY <2>1, <2>2
<1>2. CASE ~Gone(m)'
  <2>1. MayDispatch(m)' = {a \in Running' : ~(pc'[a] \in {"check", "pop"} /\ hand'[a] = m)}
    BY <1>2 DEF MayDispatch
  <2>2. MayDispatch(m) = {a \in Running : ~(pc[a] \in {"check", "pop"} /\ hand[a] = m)}
    BY <1>2 DEF MayDispatch
  <2> QED
    BY <1>2, <2>1, <2>2
<1> QED
  BY <1>1, <1>2

LEMMA BudgetFrame ==
    ASSUME Typed, Budget, UNCHANGED <<handled, starts>>, Running' \subseteq Running,
           \A m \in Messages : MayDispatch(m)' \subseteq MayDispatch(m)
    PROVE  Budget'
<1>1. IsFiniteSet(Running')
  BY FS_Subset DEF Budget
<1>2. ASSUME NEW m \in Messages
      PROVE  handled'[m] + Cardinality(MayDispatch(m)') <= starts'
  <2>1. IsFiniteSet(MayDispatch(m)) /\ Cardinality(MayDispatch(m)) \in Nat
    BY MayDispatchFinite
  <2>2. /\ IsFiniteSet(MayDispatch(m)')
        /\ Cardinality(MayDispatch(m)') <= Cardinality(MayDispatch(m))
    BY <2>1, FS_Subset
  <2>3. handled[m] + Cardinality(MayDispatch(m)) <= starts /\ Cardinality(MayDispatch(m)') \in Nat
    BY <2>2, FS_CardinalityType DEF Budget
  <2>4. handled'[m] = handled[m] /\ starts' = starts /\ handled[m] \in Nat /\ starts \in Nat
    BY DEF Typed, TypeOK
  <2> QED
    BY <2>1, <2>2, <2>3, <2>4
<1> QED
  BY <1>1, <1>2 DEF Budget

LEMMA GoneStays ==
    ASSUME Typed, Unique, [Next]_vars, NEW m \in Messages, Gone(m)
    PROVE  Gone(m)'
<1>1. sent \subseteq sent'
  <2>1. ASSUME NEW b \in Beats, Beat(b) PROVE sent' = sent
    BY <2>1, OtherBeat DEF Peek, PushBack, history
  <2>2. CASE UNCHANGED vars
    BY <2>2 DEF vars, history
  <2>3. ASSUME NEW x \in Messages, Send(x) PROVE sent \subseteq sent'
    BY <2>3 DEF Send
  <2> QED
    BY <2>1, <2>2, <2>3, StartEffect, StopEffect DEF Next
<1> QED
  BY <1>1, UniqueNext DEF Gone

LEMMA BudgetSend ==
    ASSUME Typed, Unique, Budget, NEW m \in Messages, Send(m)
    PROVE  Budget'
<1>1. UNCHANGED <<pc, hand, handled, starts>>
  BY DEF Send, control
<1>2. Running' = Running
  BY <1>1 DEF Running
<1>3. ASSUME NEW x \in Messages PROVE MayDispatch(x)' \subseteq MayDispatch(x)
  <2>1. Gone(x) => Gone(x)'
    BY GoneStays DEF Next
  <2> QED
    BY <1>1, <1>2, <2>1, NobodyJoins
<1> QED
  BY <1>1, <1>2, <1>3, BudgetFrame

(* A fork spends one more start, and one more beat may dispatch.           *)
LEMMA BudgetStart ==
    ASSUME Typed, Unique, Budget, NEW s \in Starters, Start(s)
    PROVE  Budget'
<1>0. \A m \in Messages : Gone(m) => Gone(m)'
  BY GoneStays DEF Next
<1>1. UNCHANGED <<queue, hand, sent, handled>>
  BY StartEffect
<1>2. CASE UNCHANGED <<pc, starts>>
  <2>1. Running' = Running
    BY <1>2 DEF Running
  <2>2. ASSUME NEW m \in Messages PROVE MayDispatch(m)' \subseteq MayDispatch(m)
    BY <1>0, <1>1, <1>2, <2>1, NobodyJoins
  <2> QED
    BY <1>1, <1>2, <2>1, <2>2, BudgetFrame
<1>3. ASSUME NEW b \in Beats \ Running, pc' = [pc EXCEPT ![b] = "load"], starts' = starts + 1
      PROVE  Budget'
  <2>1. \A a \in Beats : pc'[a] = IF a = b THEN "load" ELSE pc[a]
    BY <1>3 DEF Typed, TypeOK
  <2>2. /\ Running' = Running \cup {b} /\ pc[b] = "off" /\ pc'[b] = "load"
        /\ \A a \in Running : pc'[a] = pc[a]
    BY <2>1 DEF Running
  <2>3. IsFiniteSet(Running')
    BY <2>2, FS_AddElement DEF Budget
  <2>4. ASSUME NEW m \in Messages
        PROVE  handled'[m] + Cardinality(MayDispatch(m)') <= starts'
    <3>1. Gone(m)' <=> Gone(m)
      BY <1>1, <2>1, <2>2, WaitingUnfolds DEF Gone
    <3>2. MayDispatch(m)' \subseteq MayDispatch(m) \cup {b}
      <4>1. CASE Gone(m)
        BY <1>1, <2>2, <3>1, <4>1 DEF MayDispatch
      <4>2. CASE ~Gone(m)
        BY <1>1, <2>2, <3>1, <4>2 DEF MayDispatch
      <4> QED
        BY <4>1, <4>2
    <3>3. IsFiniteSet(MayDispatch(m)) /\ Cardinality(MayDispatch(m)) \in Nat
      BY MayDispatchFinite
    <3>4. /\ IsFiniteSet(MayDispatch(m) \cup {b})
          /\ Cardinality(MayDispatch(m) \cup {b}) <= Cardinality(MayDispatch(m)) + 1
      BY <3>3, FS_AddElement
    <3>5. /\ Cardinality(MayDispatch(m)') <= Cardinality(MayDispatch(m) \cup {b})
          /\ Cardinality(MayDispatch(m)') \in Nat /\ Cardinality(MayDispatch(m) \cup {b}) \in Nat
      BY <3>2, <3>4, FS_Subset, FS_CardinalityType
    <3>6. handled[m] + Cardinality(MayDispatch(m)) <= starts /\ handled[m] \in Nat /\ starts \in Nat
      BY DEF Budget, Typed, TypeOK
    <3> QED
      BY <1>1, <1>3, <3>3, <3>4, <3>5, <3>6
  <2> QED
    BY <2>3, <2>4 DEF Budget
<1> QED
  BY <1>2, <1>3, StartEffect

LEMMA BudgetStop ==
    ASSUME Typed, Unique, Budget, NEW b \in Beats, Kill(b) \/ Terminate(b)
    PROVE  Budget'
<1>1. Running' \subseteq Running
  BY StopEffect DEF Typed, TypeOK, Running
<1>2. ASSUME NEW m \in Messages PROVE MayDispatch(m)' \subseteq MayDispatch(m)
  <2>1. Gone(m) => Gone(m)'
    BY GoneStays DEF Next
  <2>2. \A a \in Beats : pc'[a] = "dispatch" => pc[a] = "dispatch" /\ hand'[a] = hand[a]
    BY StopEffect DEF Typed, TypeOK
  <2>3. \A a \in Running' : pc[a] \in {"check", "pop"} =>
            pc'[a] \in {"check", "pop"} /\ hand'[a] = hand[a]
    BY StopEffect DEF Typed, TypeOK, Running
  <2> QED
    BY <1>1, <2>1, <2>2, <2>3, NobodyJoins
<1> QED
  BY <1>1, <1>2, StopEffect, BudgetFrame

(* No step of a beat lets it dispatch a message it could not before.       *)
LEMMA BeatJoinsNot ==
    ASSUME Typed, Unique, NEW b \in Beats, Beat(b), NEW m \in Messages
    PROVE  Running' \subseteq Running /\ MayDispatch(m)' \subseteq MayDispatch(m)
<1> DEFINE Dispatches(p, h) == p = "dispatch" /\ h = m
           Done(p, h) == p \in {"check", "pop"} /\ h = m
<1> USE DEF db, memory, control, history
<1>0. NoMessage # m /\ (Gone(m) => Gone(m)')
  BY BeatAssumption, GoneStays DEF Next
<1>1. /\ pc \in [Beats -> {"off", "load", "peek", "pushback", "dispatch", "check", "pop"}]
      /\ hand \in [Beats -> Messages \cup {NoMessage}]
  BY DEF Typed, TypeOK
<1>2. /\ b \in Running
      /\ \A a \in Beats : a # b => pc'[a] = pc[a] /\ hand'[a] = hand[a]
      /\ Dispatches(pc'[b], hand'[b]) => Dispatches(pc[b], hand[b]) \/ ~Gone(m)'
      /\ pc'[b] # "off" /\ Done(pc[b], hand[b]) => Done(pc'[b], hand'[b]) \/ Gone(m)'
  <2>1. CASE Peek(b)
    BY <1>1, <2>1 DEF Peek, Running
  <2>2. CASE PushBack(b)
    <3>1. Waiting(hand[b]) /\ (Waiting(m)' <=> Waiting(m))
      BY <2>2, UniquePushBack
    <3>2. hand' = hand /\ pc[b] = "pushback" /\ pc' = [pc EXCEPT ![b] = "dispatch"]
      BY <2>2 DEF PushBack
    <3>3. hand[b] = m => ~Gone(m)'
      BY <3>1 DEF Gone
    <3> QED
      BY <1>1, <3>2, <3>3 DEF Running
  <2>3. CASE Load(b)
    BY <1>0, <1>1, <2>3 DEF Load, Running
  <2>4. CASE Tick(b)
    BY <1>0, <1>1, <2>4 DEF Tick, Running
  <2>5. CASE Kick(b)
    BY <1>1, <2>5 DEF Kick, Running
  <2>6. CASE Pause(b)
    BY <1>1, <2>6 DEF Pause, Running
  <2>7. CASE Apply(b)
    BY <1>1, <2>7 DEF Apply, Running
  <2>8. ASSUME NEW stops \in BOOLEAN, Refuse(b, stops)
        PROVE  pc[b] = "dispatch" /\ pc' = [pc EXCEPT ![b] = "pop"] /\ hand' = hand
    BY <2>8 DEF Refuse
  <2>9. CASE CheckModified(b)
    BY <1>1, <2>9 DEF CheckModified, Running
  <2>10. CASE Pop(b)
    <3>1. /\ pc[b] = "pop" /\ hand' = hand /\ sent' = sent
          /\ pc' = [pc EXCEPT ![b] = "peek"] \/ pc' = [pc EXCEPT ![b] = "off"]
      BY <2>10 DEF Pop, AfterLoop
    <3>2. ASSUME hand[b] = m, pc'[b] # "off" PROVE Gone(m)'
      <4>1. queue # <<>> /\ queue' = Tail(queue) /\ Head(queue) = m
        BY <1>0, <1>1, <2>10, <3>2 DEF Pop, AfterLoop
      <4>2. m \in ToSet(queue) /\ m \notin ToSet(queue')
        BY <4>1, InTail DEF Typed, TypeOK, Unique
      <4>3. \A a \in Beats : pc'[a] = "pushback" => pc[a] = "pushback" /\ hand'[a] = hand[a]
        BY <1>1, <3>1
      <4>4. m \in sent /\ ~Waiting(m)'
        BY <4>2, <4>3, WaitingUnfolds DEF Unique
      <4> QED
        BY <3>1, <4>4 DEF Gone
    <3> QED
      BY <1>1, <3>1, <3>2 DEF Running
  <2> QED
    BY <1>1, <2>1, <2>2, <2>3, <2>4, <2>5, <2>6, <2>7, <2>8, <2>9, <2>10 DEF Beat, Running
<1>3. Running' \subseteq Running
  BY <1>2 DEF Running
<1>4. \A a \in Beats : Dispatches(pc'[a], hand'[a]) => Dispatches(pc[a], hand[a]) \/ ~Gone(m)'
  BY <1>2
<1>5. \A a \in Running' : Done(pc[a], hand[a]) => Done(pc'[a], hand'[a]) \/ Gone(m)'
  BY <1>2 DEF Running
<1> QED
  BY <1>0, <1>3, <1>4, <1>5, NobodyJoins

(* A beat that dispatches m may not do so again.                           *)
LEMMA BudgetHandle ==
    ASSUME Typed, Unique, Budget, NEW b \in Beats, Beat(b),
           Apply(b) \/ \E stops \in BOOLEAN : Refuse(b, stops)
    PROVE  Budget'
<1>1. /\ pc[b] = "dispatch" /\ hand' = hand /\ starts' = starts
      /\ handled' = [handled EXCEPT ![hand[b]] = @ + 1]
      /\ \E next \in {"check", "pop"} : pc' = [pc EXCEPT ![b] = next]
  BY DEF Apply, Refuse, control
<1>2. /\ pc'[b] \in {"check", "pop"} /\ b \in Running /\ hand[b] \in Messages
      /\ \A a \in Beats : a # b => pc'[a] = pc[a]
  BY <1>1 DEF Typed, TypeOK, HoldsMessage, Running
<1>3. Running' \subseteq Running
  BY <1>2 DEF Running
<1>4. IsFiniteSet(Running')
  BY <1>3, FS_Subset DEF Budget
<1>5. ASSUME NEW m \in Messages
      PROVE  handled'[m] + Cardinality(MayDispatch(m)') <= starts'
  <2>1. IsFiniteSet(MayDispatch(m)) /\ Cardinality(MayDispatch(m)) \in Nat
    BY MayDispatchFinite
  <2>2. MayDispatch(m)' \subseteq MayDispatch(m)
    BY BeatJoinsNot
  <2>3. /\ IsFiniteSet(MayDispatch(m)') /\ Cardinality(MayDispatch(m)') \in Nat
        /\ Cardinality(MayDispatch(m)') <= Cardinality(MayDispatch(m))
    BY <2>1, <2>2, FS_Subset, FS_CardinalityType
  <2>4. /\ handled[m] + Cardinality(MayDispatch(m)) <= starts
        /\ handled[m] \in Nat /\ starts \in Nat
    BY DEF Budget, Typed, TypeOK
  <2>5. CASE m # hand[b]
    <3>1. handled'[m] = handled[m]
      BY <1>1, <1>2, <2>5 DEF Typed, TypeOK
    <3> QED
      BY <1>1, <2>1, <2>3, <2>4, <3>1
  <2>6. CASE m = hand[b]
    <3>1. handled'[m] = handled[m] + 1
      BY <1>1, <1>2, <2>6 DEF Typed, TypeOK
    <3>2. b \in MayDispatch(m)
      BY <1>1, <1>2, <2>6 DEF MayDispatch
    <3>3. b \notin MayDispatch(m)'
      BY <1>1, <1>2, <2>6 DEF MayDispatch
    <3>4. /\ MayDispatch(m)' \subseteq MayDispatch(m) \ {b}
          /\ IsFiniteSet(MayDispatch(m) \ {b})
          /\ Cardinality(MayDispatch(m) \ {b}) = Cardinality(MayDispatch(m)) - 1
      BY <2>1, <2>2, <3>2, <3>3, FS_RemoveElement
    <3>5. Cardinality(MayDispatch(m)') <= Cardinality(MayDispatch(m)) - 1
      BY <3>4, FS_Subset
    <3> QED
      BY <1>1, <2>1, <2>3, <2>4, <3>1, <3>5
  <2> QED
    BY <2>5, <2>6
<1> QED
  BY <1>4, <1>5 DEF Budget

LEMMA BudgetBeat ==
    ASSUME Typed, Unique, Budget, NEW b \in Beats, Beat(b)
    PROVE  Budget'
<1>1. CASE Apply(b) \/ \E stops \in BOOLEAN : Refuse(b, stops)
  BY <1>1, BudgetHandle
<1>2. CASE ~(Apply(b) \/ \E stops \in BOOLEAN : Refuse(b, stops))
  <2>1. UNCHANGED <<handled, starts>>
    BY <1>2 DEF Beat, Load, Peek, PushBack, Tick, Kick, Pause, CheckModified, Pop,
                control, history
  <2>2. Running' \subseteq Running
    BY BeatRuns
  <2> QED
    BY <2>1, <2>2, BeatJoinsNot, BudgetFrame
<1> QED
  BY <1>1, <1>2

LEMMA BudgetNext ==
    ASSUME Typed, Unique, Budget, [Next]_vars
    PROVE  Budget'
<1>1. CASE UNCHANGED vars
  BY <1>1 DEF vars, db, memory, control, history, Budget, Running, MayDispatch, Gone, Waiting
<1> QED
  BY <1>1, BudgetSend, BudgetStart, BudgetStop, BudgetBeat DEF Next

(* However many heartbeats two requests start at once, and whatever they   *)
(* pop from each other, each of them dispatches a message at most once.    *)
THEOREM OncePerProcessSafe == Spec => []OncePerProcess
<1>1. Typed /\ Unique /\ Budget /\ [Next]_vars => (Typed /\ Unique /\ Budget)'
  BY TypedNext, UniqueNext, BudgetNext
<1>2. Typed /\ Budget => OncePerProcess
  <2> SUFFICES ASSUME Typed, Budget, NEW m \in Messages PROVE handled[m] <= starts
    BY DEF OncePerProcess
  <2>1. Cardinality(MayDispatch(m)) \in Nat /\ handled[m] \in Nat /\ starts \in Nat
    BY MayDispatchFinite DEF Typed, TypeOK
  <2> QED
    BY <2>1 DEF Budget
<1> QED
  BY <1>1, <1>2, TypedInit, UniqueInit, BudgetInit, PTL DEF Spec

-----------------------------------------------------------------------------
(* What a process has lost when it ends                                    *)

(* A beat that goes on after the pop has dispatched what it looked at.     *)
HandledFirst ==
    \A b \in Beats :
        pc[b] = "check" \/ (pc[b] = "pop" /\ ~quitting[b]) =>
            hand[b] = NoMessage \/ handled[hand[b]] > 0

(* Each start is spent on a beat that runs or on a message that is lost.   *)
Losses ==
    /\ HandledFirst
    /\ IsFiniteSet(Running) /\ IsFiniteSet(Lost)
    /\ Cardinality(Lost) + Cardinality(Running) <= starts

LEMMA LossesInit == Init => Losses
<1> SUFFICES ASSUME Init PROVE Losses
  OBVIOUS
<1>1. Running = {} /\ Lost = {} /\ HandledFirst
  BY DEF Init, Running, Lost, HandledFirst
<1> QED
  BY <1>1, FS_EmptySet DEF Init, Losses

(* Only a message that leaves its place without a dispatch is lost.        *)
LEMMA LostGrows ==
    ASSUME Typed, NEW X, sent' = sent \/ \E m \in Messages : Send(m),
           \A m \in Messages : handled'[m] >= handled[m],
           \A m \in Messages \ X : Waiting(m) => Waiting(m)'
    PROVE  Lost' \subseteq Lost \cup X
<1> SUFFICES ASSUME NEW m \in sent', ~Waiting(m)', handled'[m] = 0, m \notin X
             PROVE  m \in Lost
  BY DEF Lost
<1>1. ASSUME NEW s \in Messages, Send(s) PROVE m \in sent
  <2>1. sent' = sent \cup {s} /\ queue' = Append(queue, s)
    BY <1>1 DEF Send
  <2>2. s \in ToSet(queue')
    BY <2>1, InAppend DEF Typed, TypeOK
  <2> QED
    BY <2>1, <2>2, WaitingUnfolds
<1>2. m \in sent /\ m \in Messages
  BY <1>1 DEF Typed, TypeOK
<1>3. handled[m] \in Nat /\ handled[m] <= 0 /\ ~Waiting(m)
  BY <1>2 DEF Typed, TypeOK
<1> QED
  BY <1>2, <1>3 DEF Lost

LEMMA LossesCount ==
    ASSUME Typed, Losses, NEW b, NEW x,
           \/ Lost' \subseteq Lost /\ Running' \subseteq Running /\ starts' = starts
           \/ /\ Lost' \subseteq Lost \cup {x} /\ starts' = starts
              /\ b \in Running /\ Running' \subseteq Running \ {b}
           \/ /\ Lost' \subseteq Lost /\ starts' = starts + 1
              /\ Running' \subseteq Running \cup {b}
    PROVE  /\ IsFiniteSet(Running') /\ IsFiniteSet(Lost')
           /\ Cardinality(Lost') + Cardinality(Running') <= starts'
<1> DEFINE L == Lost  R == Running  L2 == Lost'  R2 == Running'
<1>0. /\ IsFiniteSet(L) /\ IsFiniteSet(R) /\ starts \in Nat
      /\ Cardinality(L) \in Nat /\ Cardinality(R) \in Nat
      /\ Cardinality(L) + Cardinality(R) <= starts
  BY FS_CardinalityType DEF Losses, Typed, TypeOK
<1>1. /\ IsFiniteSet(L \cup {x}) /\ Cardinality(L \cup {x}) \in Nat
      /\ Cardinality(L \cup {x}) <= Cardinality(L) + 1
  <2>1. /\ IsFiniteSet(L \cup {x})
        /\ \/ Cardinality(L \cup {x}) = Cardinality(L)
           \/ Cardinality(L \cup {x}) = Cardinality(L) + 1
    BY <1>0, FS_AddElement, Zenon
  <2> QED
    BY <1>0, <2>1
<1>2. /\ IsFiniteSet(R \cup {b}) /\ Cardinality(R \cup {b}) \in Nat
      /\ Cardinality(R \cup {b}) <= Cardinality(R) + 1
  <2>1. /\ IsFiniteSet(R \cup {b})
        /\ \/ Cardinality(R \cup {b}) = Cardinality(R)
           \/ Cardinality(R \cup {b}) = Cardinality(R) + 1
    BY <1>0, FS_AddElement, Zenon
  <2> QED
    BY <1>0, <2>1
<1> HIDE DEF L, R, L2, R2
<1>3. CASE L2 \subseteq L /\ R2 \subseteq R /\ starts' = starts
  <2>1. /\ IsFiniteSet(L2) /\ Cardinality(L2) <= Cardinality(L) /\ Cardinality(L2) \in Nat
        /\ IsFiniteSet(R2) /\ Cardinality(R2) <= Cardinality(R) /\ Cardinality(R2) \in Nat
    BY <1>0, <1>3, FS_Subset, FS_CardinalityType
  <2>2. Cardinality(L2) + Cardinality(R2) <= starts'
    BY <1>0, <1>3, <2>1
  <2> QED
    BY <2>1, <2>2 DEF L2, R2
<1>4. CASE L2 \subseteq L \cup {x} /\ starts' = starts /\ b \in R /\ R2 \subseteq R \ {b}
  <2>1. IsFiniteSet(R \ {b}) /\ Cardinality(R \ {b}) = Cardinality(R) - 1
    BY <1>0, <1>4, FS_RemoveElement
  <2>2. /\ IsFiniteSet(R2) /\ Cardinality(R2) <= Cardinality(R \ {b}) /\ Cardinality(R2) \in Nat
        /\ IsFiniteSet(L2) /\ Cardinality(L2) <= Cardinality(L \cup {x}) /\ Cardinality(L2) \in Nat
    BY <1>1, <1>4, <2>1, FS_Subset, FS_CardinalityType
  <2>3. Cardinality(L2) + Cardinality(R2) <= starts'
    BY <1>0, <1>1, <1>4, <2>1, <2>2
  <2> QED
    BY <2>2, <2>3 DEF L2, R2
<1>5. CASE L2 \subseteq L /\ starts' = starts + 1 /\ R2 \subseteq R \cup {b}
  <2>1. /\ IsFiniteSet(L2) /\ Cardinality(L2) <= Cardinality(L) /\ Cardinality(L2) \in Nat
        /\ IsFiniteSet(R2) /\ Cardinality(R2) <= Cardinality(R \cup {b}) /\ Cardinality(R2) \in Nat
    BY <1>0, <1>2, <1>5, FS_Subset, FS_CardinalityType
  <2>2. Cardinality(L2) + Cardinality(R2) <= starts'
    BY <1>0, <1>2, <1>5, <2>1
  <2> QED
    BY <2>1, <2>2 DEF L2, R2
<1> QED
  BY <1>3, <1>4, <1>5 DEF L, R, L2, R2

(* Sending and starting lose nothing; a start may add a beat.              *)
LEMMA LossesSend ==
    ASSUME Typed, Unique, Losses, NEW m \in Messages, Send(m)
    PROVE  Losses'
<1>1. queue' = Append(queue, m) /\ UNCHANGED <<pc, hand, quitting, handled, starts>>
  BY DEF Send, control
<1>2. Running' = Running
  BY <1>1 DEF Running
<1>3. \A x \in Messages : Waiting(x) => Waiting(x)'
  BY <1>1, WaitingUnfolds, InAppend DEF Typed, TypeOK
<1>4. \A x \in Messages : handled'[x] >= handled[x]
  BY <1>1 DEF Typed, TypeOK
<1>5. Lost' \subseteq Lost
  <2>1. Lost' \subseteq Lost \cup {}
    BY <1>3, <1>4, LostGrows
  <2> QED
    BY <2>1
<1>6. HandledFirst'
  BY <1>1 DEF Losses, HandledFirst
<1> QED
  BY <1>1, <1>2, <1>5, <1>6, LossesCount DEF Losses

LEMMA LossesStart ==
    ASSUME Typed, Unique, Losses, NEW s \in Starters, Start(s)
    PROVE  Losses'
<1>0. UNCHANGED <<queue, hand, sent, handled, quitting>>
  BY StartEffect DEF Start, FindNoBeat, ForkBeat
<1>1. \A x \in Messages : handled'[x] >= handled[x]
  BY <1>0 DEF Typed, TypeOK
<1>2. CASE UNCHANGED <<pc, starts>>
  <2>1. Lost' = Lost /\ Running' = Running /\ HandledFirst'
    BY <1>0, <1>2 DEF Lost, Waiting, Running, HandledFirst, Losses
  <2> QED
    BY <1>2, <2>1 DEF Losses
<1>3. ASSUME NEW b \in Beats \ Running, pc' = [pc EXCEPT ![b] = "load"], starts' = starts + 1
      PROVE  Losses'
  <2>1. /\ \A a \in Beats : pc'[a] = IF a = b THEN "load" ELSE pc[a]
        /\ pc[b] = "off"
    BY <1>3 DEF Typed, TypeOK, Running
  <2>2. Running' \subseteq Running \cup {b} /\ HandledFirst'
    BY <1>0, <2>1 DEF Running, HandledFirst, Losses
  <2>3. \A x \in Messages : Waiting(x) => Waiting(x)'
    BY <1>0, <2>1, WaitingUnfolds
  <2>4. Lost' \subseteq Lost
    <3>1. Lost' \subseteq Lost \cup {}
      BY <1>0, <1>1, <2>3, LostGrows
    <3> QED
      BY <3>1
  <2> QED
    BY <1>3, <2>2, <2>4, LossesCount DEF Losses
<1> QED
  BY <1>2, <1>3, StartEffect

(* A stop loses what is in the hand of the process, if anything.           *)
LEMMA LossesStop ==
    ASSUME Typed, Unique, Losses, NEW b \in Beats, Kill(b) \/ Terminate(b)
    PROVE  Losses'
<1>0. UNCHANGED <<queue, hand, sent, handled, starts>> /\ b \in Running
  BY StopEffect
<1>1. \A x \in Messages : handled'[x] >= handled[x]
  BY <1>0 DEF Typed, TypeOK
<1>2. CASE pc' = [pc EXCEPT ![b] = "off"] /\ UNCHANGED quitting
  <2>1. \A a \in Beats : pc'[a] = IF a = b THEN "off" ELSE pc[a]
    BY <1>2 DEF Typed, TypeOK
  <2>2. Running' \subseteq Running \ {b} /\ HandledFirst'
    BY <1>0, <1>2, <2>1 DEF Running, HandledFirst, Losses
  <2>3. \A x \in Messages \ {hand[b]} : Waiting(x) => Waiting(x)'
    BY <1>0, <2>1, WaitingUnfolds
  <2>4. Lost' \subseteq Lost \cup {hand[b]}
    BY <1>0, <1>1, <2>3, LostGrows
  <2> QED
    BY <1>0, <2>2, <2>4, LossesCount DEF Losses
<1>3. CASE /\ pc[b] \in {"dispatch", "check"} /\ pc' = [pc EXCEPT ![b] = "pop"]
           /\ quitting' = [quitting EXCEPT ![b] = TRUE]
  <2>1. /\ \A a \in Beats : pc'[a] = IF a = b THEN "pop" ELSE pc[a]
        /\ quitting'[b] /\ \A a \in Beats : a # b => quitting'[a] = quitting[a]
    BY <1>3 DEF Typed, TypeOK
  <2>2. Running' \subseteq Running /\ HandledFirst'
    BY <1>0, <2>1 DEF Running, HandledFirst, Losses
  <2>3. \A x \in Messages : Waiting(x) => Waiting(x)'
    BY <1>0, <1>3, <2>1, WaitingUnfolds
  <2>4. Lost' \subseteq Lost
    <3>1. Lost' \subseteq Lost \cup {}
      BY <1>0, <1>1, <2>3, LostGrows
    <3> QED
      BY <3>1
  <2> QED
    BY <1>0, <2>2, <2>4, LossesCount DEF Losses
<1> QED
  BY <1>2, <1>3 DEF Kill, Terminate

(* A beat that goes on pops what it dispatched; any other pop is its last. *)
LEMMA LossesPop ==
    ASSUME Typed, Unique, Losses, NEW b \in Beats, Pop(b)
    PROVE  Losses'
<1>0. /\ pc[b] = "pop" /\ UNCHANGED <<hand, sent, handled, starts, quitting>> /\ b \in Running
  BY DEF Pop, control, history, Running
<1>1. \A x \in Messages : handled'[x] >= handled[x]
  BY <1>0 DEF Typed, TypeOK
<1>2. PICK next \in {"peek", "off"} : pc' = [pc EXCEPT ![b] = next]
  BY DEF Pop, AfterLoop
<1>3. \A a \in Beats : pc'[a] = IF a = b THEN next ELSE pc[a]
  BY <1>2 DEF Typed, TypeOK
<1>4. HandledFirst'
  BY <1>0, <1>3 DEF HandledFirst, Losses
<1>5. queue' = queue \/ (queue # <<>> /\ queue' = Tail(queue))
  BY DEF Pop
<1>6. \A x \in Messages \ {Head(queue)} : Waiting(x) => Waiting(x)'
  <2>1. queue # <<>> /\ queue' = Tail(queue) => ToSet(queue) = {Head(queue)} \cup ToSet(queue')
    BY InTail DEF Typed, TypeOK
  <2> QED
    BY <1>0, <1>3, <1>5, <2>1, WaitingUnfolds
<1>7. Lost' \subseteq Lost \cup {Head(queue)}
  BY <1>0, <1>1, <1>6, LostGrows
<1>8. CASE next = "off"
  <2>1. Running' \subseteq Running \ {b}
    BY <1>3, <1>8 DEF Running
  <2> QED
    BY <1>0, <1>4, <1>7, <2>1, LossesCount DEF Losses
<1>9. CASE next = "peek"
  <2>1. Running' \subseteq Running
    BY <1>0, <1>3 DEF Running
  <2>2. ~quitting[b] /\ (queue' = queue \/ (hand[b] # NoMessage /\ Head(queue) = hand[b]))
    BY <1>2, <1>3, <1>9 DEF Pop, AfterLoop
  <2>3. queue' = queue \/ (handled[Head(queue)] > 0 /\ UNCHANGED handled)
    BY <1>0, <2>2 DEF HandledFirst, Losses
  <2>4. Lost' \subseteq Lost
    <3>1. CASE queue' = queue
      <4>1. \A x \in Messages \ {} : Waiting(x) => Waiting(x)'
        BY <1>0, <1>3, <3>1, WaitingUnfolds
      <4>2. Lost' \subseteq Lost \cup {}
        BY <1>0, <1>1, <4>1, LostGrows
      <4> QED
        BY <4>2
    <3>2. CASE handled[Head(queue)] > 0 /\ UNCHANGED handled
      <4>1. Head(queue) \notin Lost'
        BY <3>2 DEF Lost
      <4> QED
        BY <1>7, <4>1
    <3> QED
      BY <2>3, <3>1, <3>2
  <2> QED
    BY <1>0, <1>4, <2>1, <2>4, LossesCount DEF Losses
<1> QED
  BY <1>8, <1>9

LEMMA LossesBeat ==
    ASSUME Typed, Unique, Losses, NEW b \in Beats, Beat(b)
    PROVE  Losses'
<1> SUFFICES ASSUME ~Pop(b) PROVE Losses'
  BY LossesPop
<1>0. /\ pc \in [Beats -> {"off", "load", "peek", "pushback", "dispatch", "check", "pop"}]
      /\ hand \in [Beats -> Messages \cup {NoMessage}] /\ quitting \in [Beats -> BOOLEAN]
      /\ handled \in [Messages -> Nat]
      /\ \A a \in Beats : pc[a] = "dispatch" => hand[a] \in Messages
  BY DEF Typed, TypeOK, HoldsMessage
<1>1. UNCHANGED <<sent, starts>>
  BY DEF Beat, Load, Peek, PushBack, Tick, Kick, Pause, Apply, Refuse, CheckModified, control, history
<1>2. \A x \in Messages : handled'[x] >= handled[x]
  <2>1. CASE Apply(b) \/ \E stops \in BOOLEAN : Refuse(b, stops)
    <3>1. handled' = [handled EXCEPT ![hand[b]] = @ + 1]
      BY <2>1 DEF Apply, Refuse
    <3> QED
      BY <1>0, <3>1
  <2>2. CASE UNCHANGED handled
    BY <1>0, <2>2
  <2> QED
    BY <2>1, <2>2 DEF Beat, Load, Peek, PushBack, Tick, Kick, Pause, CheckModified, history
<1>3. \A x \in Messages : Waiting(x) => Waiting(x)'
  <2>1. CASE Peek(b)
    BY <2>1, UniquePeek
  <2>2. CASE PushBack(b)
    BY <2>2, UniquePushBack
  <2>3. CASE ~Peek(b) /\ ~PushBack(b)
    <3>1. queue' = queue
      BY <2>3 DEF Beat, Load, Tick, Kick, Pause, Apply, Refuse, CheckModified
    <3>2. \A a \in Beats : pc[a] = "pushback" => pc'[a] = "pushback" /\ hand'[a] = hand[a]
      BY <1>0, <2>3, OtherBeat
    <3> QED
      BY <3>1, <3>2, WaitingUnfolds
  <2> QED
    BY <2>1, <2>2, <2>3
<1>4. Lost' \subseteq Lost
  <2>1. Lost' \subseteq Lost \cup {}
    BY <1>1, <1>2, <1>3, LostGrows
  <2> QED
    BY <2>1
<1>5. Running' \subseteq Running
  BY BeatRuns
<1>6. HandledFirst'
  <2> USE DEF HandledFirst, Losses, history
  <2>1. CASE Load(b)
    BY <1>0, <2>1 DEF Load
  <2>2. CASE Peek(b)
    BY <1>0, <2>2 DEF Peek
  <2>3. CASE PushBack(b)
    BY <1>0, <2>3 DEF PushBack
  <2>4. CASE Tick(b)
    BY <1>0, <2>4 DEF Tick
  <2>5. CASE Kick(b)
    BY <1>0, <2>5 DEF Kick
  <2>6. CASE Pause(b)
    <3>1. /\ pc' = [pc EXCEPT ![b] = "pop"] /\ quitting' = [quitting EXCEPT ![b] = TRUE]
          /\ UNCHANGED handled /\ \A a \in Beats : a # b => hand'[a] = hand[a]
      BY <1>0, <2>6 DEF Pause
    <3> QED
      BY <1>0, <3>1
  <2>7. CASE Apply(b) \/ \E stops \in BOOLEAN : Refuse(b, stops)
    <3>1. /\ pc[b] = "dispatch" /\ hand' = hand
          /\ handled' = [handled EXCEPT ![hand[b]] = @ + 1]
          /\ \E next \in {"check", "pop"} : pc' = [pc EXCEPT ![b] = next]
          /\ \A a \in Beats : a # b => quitting'[a] = quitting[a]
      BY <1>0, <2>7 DEF Apply, Refuse
    <3>2. handled'[hand[b]] > 0
      BY <1>0, <3>1
    <3>3. ASSUME NEW a \in Beats, a # b,
                 pc'[a] = "check" \/ (pc'[a] = "pop" /\ ~quitting'[a]), hand'[a] # NoMessage
          PROVE  handled'[hand'[a]] > 0
      <4>1. hand[a] \in Messages /\ hand'[a] = hand[a] /\ handled[hand[a]] > 0
        BY <1>0, <3>1, <3>3
      <4>2. handled'[hand[a]] >= handled[hand[a]] /\ handled'[hand[a]] \in Nat
        BY <1>0, <1>2, <3>1, <4>1
      <4> QED
        BY <1>0, <4>1, <4>2
    <3> QED
      BY <1>0, <3>1, <3>2, <3>3
  <2>8. CASE CheckModified(b)
    BY <1>0, <2>8 DEF CheckModified
  <2> QED
    BY <2>1, <2>2, <2>3, <2>4, <2>5, <2>6, <2>7, <2>8 DEF Beat
<1> QED
  BY <1>1, <1>4, <1>5, <1>6, LossesCount DEF Losses

LEMMA LossesNext ==
    ASSUME Typed, Unique, Losses, [Next]_vars
    PROVE  Losses'
<1>1. CASE UNCHANGED vars
  BY <1>1 DEF vars, control, history, Losses, HandledFirst, Running, Lost, Waiting
<1> QED
  BY <1>1, LossesSend, LossesStart, LossesStop, LossesBeat DEF Next

(* However many heartbeats race for the queue of a table, and however they *)
(* end: a process that goes on has lost no message, and one that ended has *)
(* lost one at most (the assertion after the pop in tablebeat_loop).       *)
THEOREM EachBeatLosesOneSafe == Spec => []EachBeatLosesOneAtMost
<1>1. Typed /\ Unique /\ Losses /\ [Next]_vars => (Typed /\ Unique /\ Losses)'
  BY TypedNext, UniqueNext, LossesNext
<1>2. Typed /\ Losses => EachBeatLosesOneAtMost
  <2> SUFFICES ASSUME Typed, Losses PROVE EachBeatLosesOneAtMost
    OBVIOUS
  <2>1. Cardinality(Lost) \in Nat /\ Cardinality(Running) \in Nat /\ starts \in Nat
    BY FS_CardinalityType DEF Losses, Typed, TypeOK
  <2> QED
    BY <2>1 DEF Losses, EachBeatLosesOneAtMost
<1> QED
  BY <1>1, <1>2, TypedInit, UniqueInit, LossesInit, PTL DEF Spec

-----------------------------------------------------------------------------
(* The inductive invariant                                                 *)

(* The beats that run are one at most, and it has been forked before       *)
(* anybody looks for a process again.                                      *)
OneProcess ==
    /\ \A a, b \in Running : a = b
    /\ forking # {} => Running = {}

(* From its first commit on, the controller in memory is the table.        *)
FreshCopy ==
    \A b \in Running : pc[b] # "load" => memLog[b] = log

(* A message at hand has been pushed back: it is the head of the queue     *)
(* until the finally clause pops it.                                       *)
HandIsHead ==
    \A b \in Beats :
        pc[b] \in {"dispatch", "check", "pop"} /\ hand[b] # NoMessage =>
            queue # <<>> /\ Head(queue) = hand[b]

BInv == Typed /\ OneProcess /\ FreshCopy /\ HandIsHead

-----------------------------------------------------------------------------
(* The invariant is inductive                                              *)

(* While a beat runs no other one does, and nobody is about to fork one.   *)
LEMMA RunsAlone ==
    ASSUME BInv, NEW b \in Running
    PROVE  forking = {} /\ \A a \in Beats : a # b => pc[a] = "off"
BY DEF BInv, Typed, OneProcess, Running

LEMMA BInvInit == Init => BInv
<1> SUFFICES ASSUME Init PROVE BInv
  OBVIOUS
<1>1. Running = {}
  BY DEF Init, Running
<1>2. HandIsHead
  BY DEF Init, HandIsHead
<1> QED
  BY <1>1, <1>2, TypedInit DEF BInv, OneProcess, FreshCopy

(* A web request pushes a message behind the one at hand.                  *)
LEMMA SendStep ==
    ASSUME BInv, NEW m \in Messages, Send(m)
    PROVE  BInv'
<1> USE DEF Send, db, memory, control, history
<1>1. queue \in Seq(Messages) /\ queue' = Append(queue, m)
  BY DEF BInv, Typed, TypeOK
<1>2. queue' \in Seq(Messages)
  BY <1>1, AppendProperties
<1>3. queue # <<>> => queue' # <<>> /\ Head(queue') = Head(queue)
  BY <1>1, AppendProperties, HeadTailAppend
<1>4. Typed'
  BY TypedSend DEF BInv
<1>5. OneProcess' /\ FreshCopy'
  BY DEF BInv, Typed, OneProcess, FreshCopy, Running
<1>6. HandIsHead'
  BY <1>3 DEF BInv, Typed, HandIsHead, HoldsMessage
<1> QED
  BY <1>4, <1>5, <1>6 DEF BInv, Typed

(* The only starter looks again when the process it forked is gone.        *)
LEMMA StartStep ==
    ASSUME NEW s0, Starters = {s0}, BInv, NEW s \in Starters, Start(s)
    PROVE  BInv'
<1> USE DEF Typed, db, memory, control, history
<1>1. CASE FindNoBeat(s)
  <2>1. Typed'
    BY TypedStart DEF BInv
  <2>2. OneProcess' /\ FreshCopy'
    BY <1>1 DEF FindNoBeat, BInv, Typed, OneProcess, FreshCopy, Running
  <2>3. HandIsHead'
    BY <1>1 DEF FindNoBeat, BInv, Typed, HandIsHead, HoldsMessage
  <2> QED
    BY <2>1, <2>2, <2>3 DEF BInv, Typed
<1>2. CASE ForkBeat(s)
  <2>1. PICK b \in Beats \ Running : pc' = [pc EXCEPT ![b] = "load"]
    BY <1>2 DEF ForkBeat
  <2>2. Running = {} /\ forking' = {}
    BY <1>2 DEF ForkBeat, BInv, Typed, OneProcess, TypeOK
  <2>3. Typed'
    BY TypedStart DEF BInv
  <2>4. Running' = {b} /\ pc'[b] = "load"
    BY <2>1, <2>2 DEF Running, BInv, Typed, TypeOK
  <2>5. OneProcess' /\ FreshCopy'
    BY <2>2, <2>4 DEF OneProcess, FreshCopy
  <2>6. HandIsHead'
    BY <1>2, <2>1 DEF ForkBeat, BInv, Typed, TypeOK, HandIsHead, HoldsMessage
  <2> QED
    BY <2>3, <2>5, <2>6 DEF BInv, Typed
<1> QED
  BY <1>1, <1>2 DEF Start

(* A beat changes its own state, and the table and the queue when it is    *)
(* the only one that runs.                                                 *)
LEMMA BeatStep ==
    ASSUME BInv, NEW b \in Beats, Beat(b)
    PROVE  BInv'
<1> USE DEF Typed, db, memory, control, history
<1>0. TypeOK /\ FreshCopy /\ HandIsHead /\ HoldsMessage
  BY DEF BInv, Typed
<1>1. b \in Running
  BY DEF Beat, Load, Peek, PushBack, Tick, Kick, Pause, Apply, Refuse, CheckModified, Pop, Running
<1>2. \A a \in Beats : a # b => pc[a] = "off"
  BY <1>1, RunsAlone
<1>3. CASE Load(b)
  <2>1. Typed'
    BY TypedBeat DEF BInv
  <2>2. pc' = [pc EXCEPT ![b] = "peek"] /\ UNCHANGED forking
    BY <1>3 DEF Load
  <2>3. OneProcess'
    BY <1>1, <2>1, <2>2, <1>2, <1>0, RunsAlone DEF TypeOK, OneProcess, Running
  <2>4. FreshCopy'
    BY <1>0, <1>2, <1>3, <2>1 DEF Load, FreshCopy, Running, TypeOK
  <2>5. HandIsHead'
    BY <1>0, <1>2, <1>3, <2>1 DEF Load, HandIsHead, TypeOK
  <2> QED
    BY <2>1, <2>3, <2>4, <2>5 DEF BInv, Typed
<1>4. CASE Peek(b)
  <2>0. queue # <<>> => Head(queue) \in Messages /\ queue \in Seq(Messages) /\ Tail(queue) \in Seq(Messages)
    BY <1>0, HeadThenTail DEF TypeOK
  <2>1. Typed'
    BY TypedBeat DEF BInv
  <2>2. OneProcess'
    BY <1>0, <1>1, <1>4, RunsAlone DEF Peek, TypeOK, OneProcess, Running
  <2>3. FreshCopy'
    BY <1>0, <1>2, <1>4, <2>0, <2>1 DEF Peek, FreshCopy, Running, TypeOK
  <2>4. HandIsHead'
    BY <1>0, <1>2, <1>4, <2>0, <2>1 DEF Peek, HandIsHead, TypeOK
  <2> QED
    BY <2>1, <2>2, <2>3, <2>4 DEF BInv, Typed
<1>5. CASE PushBack(b)
  <2>0. /\ queue' \in Seq(Messages) /\ queue' # <<>>
        /\ Head(queue') = hand[b] /\ hand[b] \in Messages
    BY <1>0, <1>5, PushedOnHead DEF PushBack, TypeOK, HoldsMessage
  <2>1. Typed'
    BY TypedBeat DEF BInv
  <2>2. OneProcess'
    BY <1>0, <1>1, <1>5, RunsAlone DEF PushBack, TypeOK, OneProcess, Running
  <2>3. FreshCopy'
    BY <1>0, <1>2, <1>5, <2>0, <2>1 DEF PushBack, FreshCopy, Running, TypeOK
  <2>4. HandIsHead'
    BY <1>0, <1>2, <1>5, <2>0, <2>1 DEF PushBack, HandIsHead, TypeOK
  <2> QED
    BY <2>1, <2>2, <2>3, <2>4 DEF BInv, Typed
<1>6. CASE Tick(b)
  <2>1. Typed'
    BY TypedBeat DEF BInv
  <2>2. OneProcess'
    BY <1>0, <1>1, <1>6, RunsAlone DEF Tick, Commit, TypeOK, OneProcess, Running
  <2>3. FreshCopy'
    BY <1>0, <1>2, <1>6, <2>1 DEF Tick, Commit, FreshCopy, Running, TypeOK
  <2>4. HandIsHead'
    BY <1>0, <1>2, <1>6, <2>1 DEF Tick, Commit, HandIsHead, TypeOK
  <2> QED
    BY <2>1, <2>2, <2>3, <2>4 DEF BInv, Typed
<1>7. CASE Kick(b)
  <2>1. Typed'
    BY TypedBeat DEF BInv
  <2>2. OneProcess'
    BY <1>0, <1>1, <1>7, RunsAlone DEF Kick, Commit, TypeOK, OneProcess, Running
  <2>3. FreshCopy'
    BY <1>0, <1>2, <1>7, <2>1 DEF Kick, Commit, FreshCopy, Running, TypeOK
  <2>4. HandIsHead'
    BY <1>0, <1>2, <1>7, <2>1 DEF Kick, Commit, HandIsHead, TypeOK
  <2> QED
    BY <2>1, <2>2, <2>3, <2>4 DEF BInv, Typed
<1>8. CASE Pause(b)
  <2>0. /\ hand' \in [Beats -> Messages \cup {NoMessage}]
        /\ pc' = [pc EXCEPT ![b] = "pop"] /\ quitting' = [quitting EXCEPT ![b] = TRUE]
        /\ stopped' = stopped + 1
        /\ UNCHANGED <<queue, db, memory, control, ticks, sent, handled>>
    BY <1>0, <1>8 DEF Pause, TypeOK
  <2>1. Typed'
    BY TypedBeat DEF BInv
  <2>2. OneProcess'
    BY <1>0, <1>1, <1>8, RunsAlone DEF Pause, TypeOK, OneProcess, Running
  <2>3. FreshCopy'
    BY <1>0, <1>2, <1>8, <2>1 DEF Pause, FreshCopy, Running, TypeOK
  <2>4. HandIsHead'
    BY <1>0, <1>2, <1>8, <2>1 DEF Pause, HandIsHead, TypeOK
  <2> QED
    BY <2>1, <2>2, <2>3, <2>4 DEF BInv, Typed
<1>9. CASE Apply(b)
  <2>0. hand[b] \in Messages /\ log' = Append(memLog[b], hand[b]) /\ log' \in Seq(Messages)
    BY <1>0, <1>9, AppendProperties DEF Apply, Commit, TypeOK, HoldsMessage
  <2>1. Typed'
    BY TypedBeat DEF BInv
  <2>2. OneProcess'
    BY <1>0, <1>1, <1>9, RunsAlone DEF Apply, Commit, TypeOK, OneProcess, Running
  <2>3. FreshCopy'
    BY <1>0, <1>2, <1>9, <2>0, <2>1 DEF Apply, Commit, FreshCopy, Running, TypeOK
  <2>4. HandIsHead'
    BY <1>0, <1>2, <1>9, <2>0, <2>1 DEF Apply, Commit, HandIsHead, TypeOK
  <2> QED
    BY <2>1, <2>2, <2>3, <2>4 DEF BInv, Typed
<1>10. ASSUME NEW stops \in BOOLEAN, Refuse(b, stops) PROVE BInv'
  <2>0. hand[b] \in Messages
    BY <1>0, <1>10 DEF Refuse, HoldsMessage
  <2>1. Typed'
    BY TypedBeat DEF BInv
  <2>2. OneProcess'
    BY <1>0, <1>1, <1>10, RunsAlone DEF Refuse, TypeOK, OneProcess, Running
  <2>3. FreshCopy'
    BY <1>0, <1>2, <1>10 DEF Refuse, FreshCopy, Running, TypeOK
  <2>4. HandIsHead'
    BY <1>0, <1>2, <1>10 DEF Refuse, HandIsHead, TypeOK
  <2> QED
    BY <2>1, <2>2, <2>3, <2>4 DEF BInv, Typed
<1>11. CASE CheckModified(b)
  <2>1. Typed'
    BY TypedBeat DEF BInv
  <2>2. OneProcess'
    BY <1>0, <1>1, <1>11, RunsAlone DEF CheckModified, TypeOK, OneProcess, Running
  <2>3. FreshCopy'
    BY <1>0, <1>2, <1>11, <2>1 DEF CheckModified, FreshCopy, Running, TypeOK
  <2>4. HandIsHead'
    BY <1>0, <1>2, <1>11, <2>1 DEF CheckModified, HandIsHead, TypeOK
  <2> QED
    BY <2>1, <2>2, <2>3, <2>4 DEF BInv, Typed
<1>12. CASE Pop(b)
  <2>0. queue # <<>> => Head(queue) \in Messages /\ queue \in Seq(Messages) /\ Tail(queue) \in Seq(Messages)
    BY <1>0, HeadThenTail DEF TypeOK
  <2>1. Typed'
    BY TypedBeat DEF BInv
  <2>2. OneProcess'
    BY <1>0, <1>1, <1>12, RunsAlone DEF Pop, AfterLoop, TypeOK, OneProcess, Running
  <2>3. FreshCopy'
    BY <1>0, <1>2, <1>12, <2>0, <2>1 DEF Pop, AfterLoop, FreshCopy, Running, TypeOK
  <2>4. HandIsHead'
    BY <1>0, <1>2, <1>12, <2>0, <2>1 DEF Pop, AfterLoop, HandIsHead, TypeOK
  <2> QED
    BY <2>1, <2>2, <2>3, <2>4 DEF BInv, Typed
<1> QED
  BY <1>3, <1>4, <1>5, <1>6, <1>7, <1>8, <1>9, <1>10, <1>11, <1>12 DEF Beat

(* Being stopped leaves what is shared alone; a terminated beat still pops *)
(* the message at its hand.                                                *)
LEMMA StopStep ==
    ASSUME BInv, NEW b \in Beats, Kill(b) \/ Terminate(b)
    PROVE  BInv'
<1> USE DEF Typed, db, memory, control, history
<1>0. TypeOK /\ FreshCopy /\ HandIsHead /\ HoldsMessage /\ b \in Running
  BY DEF BInv, Typed, Kill, Terminate
<1>1. /\ UNCHANGED <<queue, db, hand, memory, control, ticks, sent, handled>>
      /\ stopped' = stopped + 1
  BY DEF Kill, Terminate
<1>2. \/ pc' = [pc EXCEPT ![b] = "off"] /\ UNCHANGED quitting
      \/ /\ pc[b] \in {"dispatch", "check"}
         /\ pc' = [pc EXCEPT ![b] = "pop"] /\ quitting' = [quitting EXCEPT ![b] = TRUE]
  BY DEF Kill, Terminate
<1>3. Typed'
  BY TypedStop DEF BInv
<1>4. Running' \subseteq Running /\ OneProcess'
  <2>1. \A a \in Beats : pc'[a] # "off" => pc[a] # "off"
    BY <1>0, <1>2 DEF TypeOK, Running
  <2>2. Running' \subseteq Running
    BY <2>1 DEF Running
  <2>3. OneProcess /\ forking' = forking
    BY <1>1 DEF BInv, Typed
  <2> QED
    BY <2>2, <2>3 DEF OneProcess
<1>5. FreshCopy'
  BY <1>0, <1>1, <1>2 DEF FreshCopy, Running, TypeOK
<1>6. HandIsHead'
  BY <1>0, <1>1, <1>2 DEF HandIsHead, TypeOK
<1> QED
  BY <1>3, <1>4, <1>5, <1>6 DEF BInv, Typed

LEMMA BInvNext ==
    ASSUME NEW s0, Starters = {s0}, BInv, [Next]_vars
    PROVE  BInv'
<1>1. ASSUME NEW m \in Messages, Send(m) PROVE BInv'
  BY <1>1, SendStep
<1>2. ASSUME NEW s \in Starters, Start(s) PROVE BInv'
  BY <1>2, StartStep
<1>3. ASSUME NEW b \in Beats, Beat(b) PROVE BInv'
  BY <1>3, BeatStep
<1>4. ASSUME NEW b \in Beats, Kill(b) \/ Terminate(b) PROVE BInv'
  BY <1>4, StopStep
<1>5. CASE UNCHANGED vars
  BY <1>5 DEF vars, db, memory, control, history, BInv, Typed, TypeOK, OneProcess,
              FreshCopy, HandIsHead, HoldsMessage, Running
<1> QED
  BY <1>1, <1>2, <1>3, <1>4, <1>5 DEF Next

LEMMA BInvAlways ==
    ASSUME NEW CONSTANT s0, Starters = {s0}
    PROVE  Spec => []BInv
<1>1. Init => BInv
  BY BInvInit
<1>2. BInv /\ [Next]_vars => BInv'
  BY BInvNext
<1> QED
  BY <1>1, <1>2, PTL DEF Spec

-----------------------------------------------------------------------------
(* The queue                                                               *)

(* Pending, as a function of the variables it reads.                       *)
PendingIn(counters, hands, list) ==
    IF \E b \in Beats : counters[b] = "pushback"
    THEN <<hands[CHOOSE b \in Beats : counters[b] = "pushback"]>> \o list
    ELSE list

LEMMA PendingUnfolds ==
    /\ Pending = PendingIn(pc, hand, queue)
    /\ Pending' = PendingIn(pc', hand', queue')
BY DEF Pending, PendingIn

(* Between the pop and the push of a peek the message is in the hand.      *)
LEMMA PendingInHand ==
    ASSUME NEW b \in Beats
    PROVE  /\ (\A a \in Beats : pc[a] = "pushback" <=> a = b) => Pending = <<hand[b]>> \o queue
           /\ (\A a \in Beats : pc'[a] = "pushback" <=> a = b)
                 => Pending' = <<hand'[b]>> \o queue'
<1>1. ASSUME \A a \in Beats : pc[a] = "pushback" <=> a = b
      PROVE  PendingIn(pc, hand, queue) = <<hand[b]>> \o queue
  <2>1. (CHOOSE a \in Beats : pc[a] = "pushback") = b
    BY <1>1
  <2>2. \E a \in Beats : pc[a] = "pushback"
    BY <1>1
  <2> QED
    BY <2>1, <2>2 DEF PendingIn
<1>2. ASSUME \A a \in Beats : pc'[a] = "pushback" <=> a = b
      PROVE  PendingIn(pc', hand', queue') = <<hand'[b]>> \o queue'
  <2>1. (CHOOSE a \in Beats : pc'[a] = "pushback") = b
    BY <1>2
  <2>2. \E a \in Beats : pc'[a] = "pushback"
    BY <1>2
  <2> QED
    BY <2>1, <2>2 DEF PendingIn
<1> QED
  BY <1>1, <1>2, PendingUnfolds

LEMMA PendingWithoutHand ==
    ASSUME NEW counters, NEW hands, NEW list,
           \A a \in Beats : counters[a] # "pushback"
    PROVE  PendingIn(counters, hands, list) = list
BY DEF PendingIn

(* A message that is sent goes behind all that are pending.                *)
LEMMA SendIsSend ==
    ASSUME BInv, NEW m \in Messages, Send(m)
    PROVE  Q!Send(m)
<1>1. queue \in Seq(Messages) /\ queue' = Append(queue, m) /\ UNCHANGED <<log, pc, hand>>
  BY DEF BInv, Typed, TypeOK, Send, db
<1>2. CASE \A a \in Beats : pc[a] # "pushback"
  <2>1. Pending = queue /\ Pending' = queue'
    BY <1>1, <1>2, PendingUnfolds, PendingWithoutHand
  <2> QED
    BY <1>1, <2>1 DEF Q!Send
<1>3. ASSUME NEW b \in Beats, pc[b] = "pushback" PROVE Q!Send(m)
  <2>1. \A a \in Beats : pc[a] = "pushback" <=> a = b
    BY <1>3 DEF BInv, Typed, OneProcess, Running
  <2>2. Pending = <<hand[b]>> \o queue /\ Pending' = <<hand[b]>> \o queue'
    <3>1. Pending = <<hand[b]>> \o queue
      BY <2>1, PendingInHand
    <3>2. Pending' = <<hand'[b]>> \o queue'
      BY <1>1, <2>1, PendingInHand
    <3> QED
      BY <1>1, <3>1, <3>2
  <2>3. hand[b] \in Messages
    BY <1>3 DEF BInv, Typed, HoldsMessage
  <2> QED
    BY <1>1, <2>2, <2>3, AppendBehind DEF Q!Send
<1> QED
  BY <1>2, <1>3

(* A beat's step applies the head, drops the head, or changes nothing that *)
(* the queue's users see.                                                  *)
LEMMA BeatIsQueueStep ==
    ASSUME BInv, NEW b \in Beats, Beat(b)
    PROVE  Q!ApplyHead \/ Q!DropHead \/ UNCHANGED Q!queueVars
<1> USE DEF db, memory, control, history
<1>0. TypeOK /\ FreshCopy /\ HandIsHead /\ HoldsMessage
  BY DEF BInv, Typed
<1>1. b \in Running
  BY DEF Beat, Load, Peek, PushBack, Tick, Kick, Pause, Apply, Refuse, CheckModified, Pop, Running
<1>2. \A a \in Beats : a # b => pc[a] = "off"
  BY <1>1, RunsAlone
<1>3. CASE Peek(b)
  <2>0. \A a \in Beats : pc[a] # "pushback"
    BY <1>0, <1>2, <1>3 DEF Peek, TypeOK
  <2>1. \A a \in Beats : pc'[a] = "pushback" <=> a = b
    BY <1>0, <1>2, <1>3 DEF Peek, TypeOK
  <2>2. Pending = queue /\ Pending' = <<hand'[b]>> \o queue'
    <3>1. PendingIn(pc, hand, queue) = queue
      BY <2>0, PendingWithoutHand
    <3>2. Pending' = <<hand'[b]>> \o queue'
      BY <2>1, PendingInHand
    <3> QED
      BY <3>1, <3>2, PendingUnfolds
  <2>3. hand'[b] = Head(queue) /\ queue' = Tail(queue) /\ queue # <<>> /\ log' = log
    BY <1>0, <1>3 DEF Peek, TypeOK
  <2>4. Pending' = Pending
    BY <1>0, <2>2, <2>3, HeadThenTail DEF TypeOK
  <2> QED
    BY <2>3, <2>4 DEF Q!queueVars
<1>4. CASE PushBack(b)
  <2>0. \A a \in Beats : pc'[a] # "pushback"
    BY <1>0, <1>2, <1>4 DEF PushBack, TypeOK
  <2>1. \A a \in Beats : pc[a] = "pushback" <=> a = b
    BY <1>0, <1>2, <1>4 DEF PushBack, TypeOK
  <2>2. Pending = <<hand[b]>> \o queue /\ Pending' = queue'
    <3>1. Pending = <<hand[b]>> \o queue
      BY <2>1, PendingInHand
    <3>2. PendingIn(pc', hand', queue') = queue'
      BY <2>0, PendingWithoutHand
    <3> QED
      BY <3>1, <3>2, PendingUnfolds
  <2> QED
    BY <1>4, <2>2 DEF PushBack, Q!queueVars
<1>5. CASE pc[b] \notin {"peek", "pushback"} \/ Tick(b) \/ Pause(b)
  <2>1. \A a \in Beats : pc[a] # "pushback" /\ pc'[a] # "pushback"
    <3>1. pc[b] # "pushback" /\ ~Peek(b)
      BY <1>5 DEF Tick, Pause, Peek
    <3>2. \E next \in {"off", "peek", "dispatch", "check", "pop"} : pc' = [pc EXCEPT ![b] = next]
      BY <1>0, <3>1 DEF Beat, Load, PushBack, Tick, Kick, Pause, Apply, Refuse,
                        CheckModified, Pop, AfterLoop, TypeOK
    <3> QED
      BY <1>0, <1>2, <3>1, <3>2 DEF TypeOK
  <2>2. Pending = queue /\ Pending' = queue'
    BY <2>1, PendingUnfolds, PendingWithoutHand
  <2>3. CASE Load(b) \/ Tick(b) \/ Kick(b) \/ Pause(b) \/ CheckModified(b)
             \/ \E stops \in BOOLEAN : Refuse(b, stops)
    <3>1. queue' = queue
      BY <2>3 DEF Load, Tick, Kick, Pause, CheckModified, Refuse
    <3>2. log' = log
      BY <1>0, <1>1, <2>3 DEF Load, Tick, Kick, Pause, CheckModified, Refuse, Commit, FreshCopy
    <3> QED
      BY <2>2, <3>1, <3>2 DEF Q!queueVars
  <2>4. CASE Apply(b)
    <3>1. queue # <<>> /\ Head(queue) = hand[b] /\ memLog[b] = log
      BY <1>0, <1>1, <2>4, BeatAssumption DEF Apply, FreshCopy, HandIsHead, HoldsMessage
    <3>2. log' = Append(log, Head(queue)) /\ queue' = queue
      BY <2>4, <3>1 DEF Apply, Commit
    <3> QED
      BY <2>2, <3>1, <3>2 DEF Q!ApplyHead
  <2>5. CASE Pop(b)
    <3>1. log' = log /\ (queue' = queue \/ (queue # <<>> /\ queue' = Tail(queue)))
      BY <2>5 DEF Pop
    <3> QED
      BY <2>2, <3>1 DEF Q!DropHead, Q!queueVars
  <2> QED
    BY <1>5, <2>3, <2>4, <2>5 DEF Beat, Peek, PushBack
<1> QED
  BY <1>3, <1>4, <1>5 DEF Beat, Load, Kick, Apply, Refuse, CheckModified, Pop

(* A stop drops the message in the hand, if it is not in the queue.        *)
LEMMA StopIsQueueStep ==
    ASSUME BInv, NEW b \in Beats, Kill(b) \/ Terminate(b)
    PROVE  Q!DropHead \/ UNCHANGED Q!queueVars
<1> USE DEF db, memory, control, history
<1>0. TypeOK /\ HoldsMessage /\ b \in Running
  BY DEF BInv, Typed, Kill, Terminate
<1>1. \A a \in Beats : a # b => pc[a] = "off"
  BY <1>0, RunsAlone
<1>2. UNCHANGED <<queue, log, hand>>
  BY DEF Kill, Terminate
<1>3. \E next \in {"off", "pop"} : pc' = [pc EXCEPT ![b] = next]
  BY DEF Kill, Terminate
<1>4. \A a \in Beats : pc'[a] # "pushback"
  BY <1>0, <1>1, <1>3 DEF TypeOK
<1>5. Pending' = queue
  BY <1>2, <1>4, PendingUnfolds, PendingWithoutHand
<1>6. CASE pc[b] = "pushback"
  <2>1. hand[b] \in Messages /\ queue \in Seq(Messages)
    BY <1>0, <1>6 DEF HoldsMessage, TypeOK
  <2>2. \A a \in Beats : pc[a] = "pushback" <=> a = b
    BY <1>1, <1>6
  <2>3. Pending = <<hand[b]>> \o queue
    BY <2>2, PendingInHand
  <2> QED
    BY <1>2, <1>5, <2>1, <2>3, PushedOnHead DEF Q!DropHead
<1>7. CASE pc[b] # "pushback"
  <2>1. Pending = queue
    BY <1>1, <1>7, PendingUnfolds, PendingWithoutHand
  <2> QED
    BY <1>2, <1>5, <2>1 DEF Q!queueVars
<1> QED
  BY <1>6, <1>7

(* Looking for a process and forking one change no message.                *)
LEMMA StartIsStutter ==
    ASSUME BInv, NEW s \in Starters, Start(s)
    PROVE  UNCHANGED Q!queueVars
<1>1. Running = {} /\ UNCHANGED <<queue, log, hand>>
  BY DEF BInv, Typed, OneProcess, TypeOK, Start, FindNoBeat, ForkBeat, db
<1>2. \A a \in Beats : pc[a] = "off" /\ pc'[a] # "pushback"
  BY <1>1 DEF BInv, Typed, TypeOK, Start, FindNoBeat, ForkBeat, Running
<1>3. Pending = queue /\ Pending' = queue'
  BY <1>2, PendingUnfolds, PendingWithoutHand
<1> QED
  BY <1>1, <1>3 DEF Q!queueVars

(* With one starter the heartbeats of a table implement MessageQueue:      *)
(* messages are applied in the order they came and none is ever undone.    *)
THEOREM QueueImplemented ==
    ASSUME NEW CONSTANT s0, Starters = {s0}
    PROVE  Spec => ImplementsQueue
<1>1. Init => Q!QueueInit
  <2> SUFFICES ASSUME Init PROVE Pending = <<>> /\ log = <<>>
    BY DEF Q!QueueInit
  <2>1. \A a \in Beats : pc[a] # "pushback"
    BY DEF Init
  <2> QED
    BY <2>1, PendingUnfolds, PendingWithoutHand DEF Init
<1>2. BInv /\ [Next]_vars => [Q!QueueNext]_(Q!queueVars)
  <2> SUFFICES ASSUME BInv, [Next]_vars
               PROVE  Q!QueueNext \/ UNCHANGED Q!queueVars
    OBVIOUS
  <2>1. ASSUME NEW m \in Messages, Send(m) PROVE Q!QueueNext
    BY <2>1, SendIsSend DEF Q!QueueNext
  <2>2. ASSUME NEW s \in Starters, Start(s) PROVE UNCHANGED Q!queueVars
    BY <2>2, StartIsStutter
  <2>3. ASSUME NEW b \in Beats, Beat(b) \/ Kill(b) \/ Terminate(b)
        PROVE  Q!QueueNext \/ UNCHANGED Q!queueVars
    BY <2>3, BeatIsQueueStep, StopIsQueueStep DEF Q!QueueNext
  <2>4. CASE UNCHANGED vars
    BY <2>4, PendingUnfolds DEF vars, db, Q!queueVars
  <2> QED
    BY <2>1, <2>2, <2>3, <2>4 DEF Next
<1> QED
  BY <1>1, <1>2, BInvAlways, PTL DEF Spec, ImplementsQueue, Q!QueueSpec

-----------------------------------------------------------------------------
(* What stops cost                                                         *)

(* The beat has dispatched m, or will not, and is about to pop it.         *)
Held(m) == \E b \in Beats : pc[b] \in {"check", "pop"} /\ hand[b] = m
Popping(m) == \E b \in Beats : pc[b] = "pop" /\ hand[b] = m

(* A cost of m is <<m, 0>> when m is lost or will be by the pop that comes *)
(* next, and <<m, n>> for its nth dispatch, n > 1, that has been or that   *)
(* will be because m was dispatched and is left in the queue.  Counted in  *)
(* this way a cost is there from the stop that caused it on.               *)
InCosts(m, n) ==
    \/ /\ n = 0 /\ handled[m] = 0
       /\ Gone(m) \/ Popping(m)
    \/ /\ n > 1
       /\ n <= handled[m] \/ (n = handled[m] + 1 /\ Waiting(m) /\ ~Held(m))

Costs == {p \in Messages \X Nat : InCosts(p[1], p[2])}

CostInv ==
    /\ IsFiniteSet(Costs) /\ Cardinality(Costs) <= stopped
    /\ \A m \in Messages : handled[m] > 0 => m \in sent
    /\ \A b \in Beats : pc[b] = "check" /\ hand[b] # NoMessage => handled[hand[b]] > 0

LEMMA CostInvInit == Init => CostInv
<1> SUFFICES ASSUME Init PROVE CostInv
  OBVIOUS
<1>1. \A m \in Messages, n \in Nat : ~InCosts(m, n)
  BY DEF Init, InCosts, Gone, Popping
<1>2. Costs = {}
  BY <1>1 DEF Costs
<1> QED
  BY <1>2, FS_EmptySet DEF Init, CostInv

(* Nothing but a stop adds to the costs, and a stop adds one.              *)
LEMMA CostsBounded ==
    ASSUME Typed, CostInv, NEW x,
           \/ /\ \A m \in Messages, n \in Nat : InCosts(m, n)' => InCosts(m, n)
              /\ stopped' = stopped
           \/ /\ \A m \in Messages, n \in Nat : InCosts(m, n)' => InCosts(m, n) \/ <<m, n>> = x
              /\ stopped' = stopped + 1
    PROVE  IsFiniteSet(Costs') /\ Cardinality(Costs') <= stopped'
<1>1. IsFiniteSet(Costs) /\ Cardinality(Costs) \in Nat /\ Cardinality(Costs) <= stopped /\ stopped \in Nat
  BY FS_CardinalityType DEF CostInv, Typed, TypeOK
<1>2. /\ IsFiniteSet(Costs \cup {x}) /\ Cardinality(Costs \cup {x}) \in Nat
      /\ Cardinality(Costs \cup {x}) <= Cardinality(Costs) + 1
  <2>1. /\ IsFiniteSet(Costs \cup {x})
        /\ \/ Cardinality(Costs \cup {x}) = Cardinality(Costs)
           \/ Cardinality(Costs \cup {x}) = Cardinality(Costs) + 1
    BY <1>1, FS_AddElement, Zenon
  <2>2. Cardinality(Costs) \in Nat
    BY <1>1
  <2> QED
    BY <2>1, <2>2
<1>3. CASE \A m \in Messages, n \in Nat : InCosts(m, n)' => InCosts(m, n)
  <2>1. Costs' \subseteq Costs
    BY <1>3 DEF Costs
  <2>2. IsFiniteSet(Costs') /\ Cardinality(Costs') <= Cardinality(Costs) /\ Cardinality(Costs') \in Nat
    BY <1>1, <2>1, FS_Subset, FS_CardinalityType
  <2>3. stopped' >= stopped /\ stopped' \in Int
    BY <1>1
  <2> QED
    BY <1>1, <2>2, <2>3
<1>4. CASE /\ \A m \in Messages, n \in Nat : InCosts(m, n)' => InCosts(m, n) \/ <<m, n>> = x
           /\ stopped' = stopped + 1
  <2>1. Costs' \subseteq Costs \cup {x}
    BY <1>4 DEF Costs
  <2>2. /\ IsFiniteSet(Costs') /\ Cardinality(Costs') <= Cardinality(Costs \cup {x})
        /\ Cardinality(Costs') \in Nat
    BY <1>2, <2>1, FS_Subset, FS_CardinalityType
  <2> QED
    BY <1>1, <1>2, <1>4, <2>2
<1> QED
  BY <1>3, <1>4

LEMMA CostsUnfold ==
    ASSUME NEW m
    PROVE  /\ Held(m)' <=> \E b \in Beats : pc'[b] \in {"check", "pop"} /\ hand'[b] = m
           /\ Popping(m)' <=> \E b \in Beats : pc'[b] = "pop" /\ hand'[b] = m
           /\ Gone(m)' <=> m \in sent' /\ ~Waiting(m)'
BY DEF Held, Popping, Gone

(* With one beat running, a message is with it or with none.               *)
LEMMA WithOneBeat ==
    ASSUME NEW b \in Beats, NEW m,
           \A a \in Beats : a # b => pc[a] = "off" /\ pc'[a] = "off"
    PROVE  /\ Held(m) <=> pc[b] \in {"check", "pop"} /\ hand[b] = m
           /\ Popping(m) <=> pc[b] = "pop" /\ hand[b] = m
           /\ Waiting(m) <=> m \in ToSet(queue) \/ (pc[b] = "pushback" /\ hand[b] = m)
           /\ Held(m)' <=> pc'[b] \in {"check", "pop"} /\ hand'[b] = m
           /\ Popping(m)' <=> pc'[b] = "pop" /\ hand'[b] = m
           /\ Waiting(m)' <=> m \in ToSet(queue') \/ (pc'[b] = "pushback" /\ hand'[b] = m)
<1>1. /\ Held(m) <=> pc[b] \in {"check", "pop"} /\ hand[b] = m
      /\ Popping(m) <=> pc[b] = "pop" /\ hand[b] = m
  BY DEF Held, Popping
<1> QED
  BY <1>1, WaitingUnfolds, CostsUnfold

LEMMA CostInvSend ==
    ASSUME BInv, Unique, CostInv, NEW m \in Messages, Send(m)
    PROVE  CostInv'
<1>1. /\ m \notin sent /\ sent' = sent \cup {m} /\ queue' = Append(queue, m)
      /\ UNCHANGED <<pc, hand, handled, stopped>>
  BY DEF Send
<1>2. ToSet(queue') = ToSet(queue) \cup {m}
  BY <1>1, InAppend DEF BInv, Typed, TypeOK
<1>3. handled \in [Messages -> Nat] /\ handled[m] = 0
  BY <1>1 DEF CostInv, BInv, Typed, TypeOK
<1>4. ASSUME NEW x \in Messages, NEW n \in Nat, InCosts(x, n)' PROVE InCosts(x, n)
  <2>1. (Held(x)' <=> Held(x)) /\ (Popping(x)' <=> Popping(x))
    BY <1>1 DEF Held, Popping
  <2>2. Waiting(x)' <=> Waiting(x) \/ x = m
    BY <1>1, <1>2, WaitingUnfolds
  <2> QED
    BY <1>1, <1>3, <1>4, <2>1, <2>2 DEF InCosts, Gone
<1>5. IsFiniteSet(Costs') /\ Cardinality(Costs') <= stopped'
  BY <1>1, <1>4, CostsBounded DEF BInv
<1> QED
  BY <1>1, <1>5 DEF CostInv

LEMMA CostInvStart ==
    ASSUME BInv, CostInv, NEW s \in Starters, Start(s)
    PROVE  CostInv'
<1>1. UNCHANGED <<queue, hand, sent, handled, stopped>>
  BY StartEffect DEF BInv
<1>2. \A b \in Beats : pc'[b] = pc[b] \/ (pc[b] = "off" /\ pc'[b] = "load")
  BY StartEffect DEF BInv, Typed, TypeOK, Running
<1>3. ASSUME NEW m \in Messages, NEW n \in Nat, InCosts(m, n)' PROVE InCosts(m, n)
  <2>1. (Held(m)' <=> Held(m)) /\ (Popping(m)' <=> Popping(m)) /\ (Waiting(m)' <=> Waiting(m))
    BY <1>1, <1>2, WaitingUnfolds DEF Held, Popping
  <2> QED
    BY <1>1, <1>3, <2>1 DEF InCosts, Gone
<1>4. IsFiniteSet(Costs') /\ Cardinality(Costs') <= stopped'
  BY <1>1, <1>3, CostsBounded DEF BInv
<1> QED
  BY <1>1, <1>2, <1>4 DEF CostInv

(* A stop costs what the beat works on, or nothing.                        *)
LEMMA CostInvStop ==
    ASSUME BInv, Unique, CostInv, NEW b \in Beats, Kill(b) \/ Terminate(b)
    PROVE  CostInv'
<1> DEFINE h == hand[b]
           x == <<h, IF handled[h] = 0 THEN 0 ELSE handled[h] + 1>>
<1>1. /\ UNCHANGED <<queue, hand, sent, handled>> /\ stopped' = stopped + 1 /\ b \in Running
      /\ pc'[b] = "off" \/ (pc[b] \in {"dispatch", "check"} /\ pc'[b] = "pop")
  BY StopEffect DEF BInv, Typed, TypeOK
<1>2. \A a \in Beats : a # b => pc[a] = "off" /\ pc'[a] = "off"
  BY <1>1, RunsAlone, StopEffect DEF BInv, Typed, TypeOK
<1>3. ASSUME NEW m \in Messages, NEW n \in Nat, InCosts(m, n)'
      PROVE  InCosts(m, n) \/ <<m, n>> = x
  <2>0. handled[m] \in Nat /\ handled'[m] = handled[m]
    BY <1>1 DEF BInv, Typed, TypeOK
  <2>1. \/ n = 0 /\ handled[m] = 0 /\ (Gone(m)' \/ Popping(m)')
        \/ n > 1 /\ n <= handled[m]
        \/ n > 1 /\ n = handled[m] + 1 /\ Waiting(m)' /\ ~Held(m)'
    BY <1>3, <2>0 DEF InCosts
  <2>2. CASE m = h
    BY <2>0, <2>1, <2>2 DEF InCosts
  <2>3. CASE m # h
    <3>1. (Held(m)' <=> Held(m)) /\ (Popping(m)' <=> Popping(m)) /\ (Waiting(m)' <=> Waiting(m))
      BY <1>1, <1>2, <2>3, WithOneBeat
    <3>2. Gone(m)' <=> Gone(m)
      BY <1>1, <3>1 DEF Gone
    <3> QED
      BY <2>0, <2>1, <3>1, <3>2 DEF InCosts
  <2> QED
    BY <2>2, <2>3
<1>4. IsFiniteSet(Costs') /\ Cardinality(Costs') <= stopped'
  BY <1>1, <1>3, CostsBounded DEF BInv
<1>5. \A a \in Beats : pc'[a] = "check" => pc[a] = "check"
  BY <1>1, <1>2
<1> QED
  BY <1>1, <1>4, <1>5 DEF CostInv

(* A beat that is left alone turns costs that were foreseen into costs     *)
(* that are there, and adds none; one that pauses is stopped.              *)
LEMMA CostInvBeat ==
    ASSUME BInv, Unique, CostInv, NEW b \in Beats, Beat(b)
    PROVE  CostInv'
<1> DEFINE h == hand[b]
<1> USE DEF db, memory, control, history
<1>0. /\ TypeOK /\ HoldsMessage /\ HandIsHead /\ Typed
      /\ \A m \in Messages : handled[m] \in Nat /\ m # NoMessage
      /\ pc[b] # "off" /\ b \in Running
  BY BeatAssumption DEF BInv, Typed, TypeOK, Running, Beat, Load, Peek, PushBack, Tick, Kick, Pause,
                        Apply, Refuse, CheckModified, Pop
<1>1. \A a \in Beats : a # b => pc[a] = "off" /\ pc'[a] = "off"
  <2>1. \A a \in Beats : a # b => pc'[a] = pc[a]
    BY <1>0, OtherBeat DEF Peek, PushBack, TypeOK
  <2> QED
    BY <1>0, <2>1, RunsAlone
<1>2. ASSUME NEW m \in Messages
      PROVE  /\ Held(m) <=> pc[b] \in {"check", "pop"} /\ h = m
             /\ Popping(m) <=> pc[b] = "pop" /\ h = m
             /\ Held(m)' <=> pc'[b] \in {"check", "pop"} /\ hand'[b] = m
             /\ Popping(m)' <=> pc'[b] = "pop" /\ hand'[b] = m
  BY <1>1, WithOneBeat
<1>3. ASSUME NEW m \in Messages,
             queue' = queue, sent' = sent, handled' = handled,
             pc[b] # "pushback", pc'[b] # "pushback"
      PROVE  (Waiting(m)' <=> Waiting(m)) /\ (Gone(m)' <=> Gone(m))
  BY <1>1, <1>3, WithOneBeat DEF Gone
<1>9. queue # <<>> => /\ ToSet(queue) = {Head(queue)} \cup ToSet(Tail(queue))
                      /\ Head(queue) \notin ToSet(Tail(queue))
  <2>1. queue \in Seq(Messages) /\ IsInjective(queue)
    BY <1>0 DEF TypeOK, Unique
  <2> QED
    BY <2>1, InTail
<1>4. CASE Load(b) \/ Tick(b) \/ Kick(b) \/ CheckModified(b)
  <2>1. /\ UNCHANGED <<queue, sent, handled, stopped>>
        /\ pc[b] # "pushback" /\ pc'[b] # "pushback"
        /\ \/ pc[b] = "check" /\ pc'[b] = "pop" /\ hand'[b] = h
           \/ pc[b] \notin {"check", "pop"} /\ pc'[b] \notin {"check", "pop"}
           \/ pc[b] = "peek" /\ hand'[b] = NoMessage /\ pc'[b] = "check"
    <3>1. CASE Load(b) \/ Kick(b)
      BY <1>0, <3>1 DEF Load, Kick, TypeOK
    <3>2. CASE Tick(b)
      BY <1>0, <3>2 DEF Tick, TypeOK
    <3>3. CASE CheckModified(b)
      BY <1>0, <3>3 DEF CheckModified, TypeOK
    <3> QED
      BY <1>4, <3>1, <3>2, <3>3
  <2>2. ASSUME NEW m \in Messages, NEW n \in Nat, InCosts(m, n)' PROVE InCosts(m, n)
    <3>1. (Waiting(m)' <=> Waiting(m)) /\ (Gone(m)' <=> Gone(m)) /\ (Held(m)' <=> Held(m))
      BY <1>0, <1>2, <1>3, <2>1
    <3>2. handled[m] = 0 /\ Popping(m)' => Popping(m)
      BY <1>0, <1>2, <2>1 DEF CostInv
    <3> QED
      BY <2>1, <2>2, <3>1, <3>2 DEF InCosts
  <2>3. IsFiniteSet(Costs') /\ Cardinality(Costs') <= stopped'
    BY <1>0, <2>1, <2>2, CostsBounded
  <2>4. \A a \in Beats : pc'[a] = "check" => a = b /\ hand'[b] = NoMessage
    BY <1>1, <2>1
  <2> QED
    BY <2>1, <2>3, <2>4 DEF CostInv
<1>5. CASE Peek(b) \/ PushBack(b)
  <2>1. /\ UNCHANGED <<sent, handled, stopped>>
        /\ pc[b] \notin {"check", "pop"} /\ pc'[b] \notin {"check", "pop"}
    BY <1>0, <1>5 DEF Peek, PushBack, TypeOK
  <2>2. ASSUME NEW m \in Messages, NEW n \in Nat, InCosts(m, n)' PROVE InCosts(m, n)
    <3>1. Waiting(m)' <=> Waiting(m)
      BY <1>0, <1>5, UniquePeek, UniquePushBack
    <3> QED
      BY <1>2, <2>1, <2>2, <3>1 DEF InCosts, Gone
  <2>3. IsFiniteSet(Costs') /\ Cardinality(Costs') <= stopped'
    BY <1>0, <2>1, <2>2, CostsBounded
  <2>4. \A a \in Beats : pc'[a] # "check"
    BY <1>1, <2>1
  <2> QED
    BY <2>1, <2>3, <2>4 DEF CostInv
<1>6. CASE Pause(b)
  <2>1. /\ UNCHANGED <<queue, sent, handled>> /\ stopped' = stopped + 1
        /\ pc[b] \in {"peek", "dispatch"} /\ pc'[b] = "pop"
        /\ hand'[b] = NoMessage \/ hand'[b] = h
    BY <1>0, <1>6 DEF Pause, TypeOK
  <2>2. ASSUME NEW m \in Messages, NEW n \in Nat, InCosts(m, n)'
        PROVE  InCosts(m, n) \/ <<m, n>> = <<h, 0>>
    <3>1. (Waiting(m)' <=> Waiting(m)) /\ (Gone(m)' <=> Gone(m)) /\ ~Held(m)
      BY <1>2, <1>3, <2>1
    <3>2. Popping(m)' => m = h
      BY <1>0, <1>2, <2>1
    <3> QED
      BY <2>1, <2>2, <3>1, <3>2 DEF InCosts
  <2>3. IsFiniteSet(Costs') /\ Cardinality(Costs') <= stopped'
    BY <1>0, <2>1, <2>2, CostsBounded
  <2>4. \A a \in Beats : pc'[a] # "check"
    BY <1>1, <2>1
  <2> QED
    BY <2>1, <2>3, <2>4 DEF CostInv
<1>7. CASE Apply(b) \/ \E stops \in BOOLEAN : Refuse(b, stops)
  <2>1. /\ UNCHANGED <<queue, sent, stopped, hand>> /\ pc[b] = "dispatch"
        /\ pc'[b] \in {"check", "pop"} /\ h \in Messages
        /\ handled' = [handled EXCEPT ![h] = handled[h] + 1]
    BY <1>0, <1>7 DEF Apply, Refuse, TypeOK, HoldsMessage
  <2>2. \A m \in Messages : handled'[m] = IF m = h THEN handled[m] + 1 ELSE handled[m]
    BY <1>0, <2>1 DEF TypeOK
  <2>3. h \in ToSet(queue)
    BY <1>0, <1>9, <2>1 DEF HandIsHead
  <2>4. ASSUME NEW m \in Messages, NEW n \in Nat, InCosts(m, n)' PROVE InCosts(m, n)
    <3>1. (Waiting(m)' <=> Waiting(m)) /\ (Gone(m)' <=> Gone(m)) /\ ~Held(m)
      BY <1>1, <1>2, <2>1, WithOneBeat DEF Gone
    <3>2. handled[m] \in Nat /\ handled'[m] = IF m = h THEN handled[m] + 1 ELSE handled[m]
      BY <1>0, <2>2
    <3>3. CASE m = h
      <4>1. Waiting(m) /\ Held(m)' /\ handled'[m] = handled[m] + 1
        BY <1>2, <2>1, <2>3, <3>2, <3>3, WaitingUnfolds
      <4> QED
        BY <2>4, <3>1, <3>2, <4>1 DEF InCosts
    <3>4. CASE m # h
      <4>1. ~Held(m)' /\ ~Popping(m)' /\ handled'[m] = handled[m]
        BY <1>2, <2>1, <3>2, <3>4
      <4> QED
        BY <2>4, <3>1, <4>1 DEF InCosts
    <3> QED
      BY <3>3, <3>4
  <2>5. IsFiniteSet(Costs') /\ Cardinality(Costs') <= stopped'
    BY <1>0, <2>1, <2>4, CostsBounded
  <2>6. \A m \in Messages : handled'[m] > 0 => m \in sent'
    BY <2>1, <2>2, <2>3 DEF CostInv, Unique
  <2>7. \A a \in Beats : pc'[a] = "check" => hand'[a] = h /\ handled'[h] > 0
    BY <1>0, <1>1, <2>1, <2>2
  <2> QED
    BY <2>5, <2>6, <2>7 DEF CostInv
<1>8. CASE Pop(b)
  <2>1. /\ UNCHANGED <<sent, handled, stopped, hand>> /\ pc[b] = "pop" /\ pc'[b] \in {"peek", "off"}
        /\ IF h = NoMessage THEN queue' = queue
                            ELSE queue # <<>> /\ Head(queue) = h /\ queue' = Tail(queue)
    BY <1>0, <1>8 DEF Pop, AfterLoop, TypeOK, HandIsHead
  <2>2. ASSUME NEW m \in Messages, NEW n \in Nat, InCosts(m, n)' PROVE InCosts(m, n)
    <3>0. handled[m] \in Nat /\ handled'[m] = handled[m]
      BY <1>0, <2>1
    <3>1. ~Popping(m)' /\ (Held(m) <=> h = m) /\ (Popping(m) <=> h = m)
      BY <1>2, <2>1
    <3>2. CASE m = h
      <4>1. m \notin ToSet(queue')
        BY <1>0, <1>9, <2>1, <3>2
      <4>2. ~Waiting(m)'
        BY <1>1, <2>1, <4>1, WithOneBeat
      <4> QED
        BY <2>2, <3>0, <3>1, <3>2, <4>2 DEF InCosts
    <3>3. CASE m # h
      <4>1. m \in ToSet(queue) <=> m \in ToSet(queue')
        BY <1>9, <2>1, <3>3
      <4>2. (Waiting(m)' <=> Waiting(m)) /\ (Gone(m)' <=> Gone(m))
        BY <1>1, <2>1, <4>1, WithOneBeat DEF Gone
      <4> QED
        BY <2>2, <3>0, <3>1, <3>3, <4>2 DEF InCosts
    <3> QED
      BY <3>2, <3>3
  <2>3. IsFiniteSet(Costs') /\ Cardinality(Costs') <= stopped'
    BY <1>0, <2>1, <2>2, CostsBounded
  <2>4. \A a \in Beats : pc'[a] # "check"
    BY <1>1, <2>1
  <2> QED
    BY <2>1, <2>3, <2>4 DEF CostInv
<1> QED
  BY <1>4, <1>5, <1>6, <1>7, <1>8 DEF Beat

LEMMA CostInvNext ==
    ASSUME NEW s0, Starters = {s0}, BInv, Unique, CostInv, [Next]_vars
    PROVE  CostInv'
<1>1. CASE UNCHANGED vars
  BY <1>1 DEF vars, history, CostInv, Costs, InCosts, Gone, Waiting, Held, Popping
<1> QED
  BY <1>1, CostInvSend, CostInvStart, CostInvBeat, CostInvStop DEF Next

(* What is lost and what is dispatched again, together, are among the      *)
(* costs.                                                                  *)
LEMMA CostsCount ==
    ASSUME Typed, CostInv
    PROVE  StopCostsOneMessage
<1> DEFINE L == Lost \X {0}
<1>1. L \subseteq Costs
  <2> SUFFICES ASSUME NEW m \in Lost PROVE <<m, 0>> \in Costs
    OBVIOUS
  <2>1. m \in Messages /\ handled[m] = 0 /\ Gone(m)
    BY DEF Lost, Gone, Typed, TypeOK
  <2> QED
    BY <2>1 DEF Costs, InCosts
<1>2. Repeats \subseteq Costs
  <2> SUFFICES ASSUME NEW m \in Messages, NEW n \in 2..handled[m] PROVE <<m, n>> \in Costs
    BY DEF Repeats
  <2>1. n \in Nat /\ n > 1 /\ n <= handled[m]
    BY DEF Typed, TypeOK
  <2> QED
    BY <2>1 DEF Costs, InCosts
<1>3. L \cap Repeats = {}
  <2> SUFFICES ASSUME NEW p \in Repeats, p \in L PROVE FALSE
    OBVIOUS
  <2>1. PICK m \in Messages : p \in {m} \X (2..handled[m])
    BY DEF Repeats
  <2>2. p[2] \in 2..handled[m] /\ handled[m] \in Nat /\ p[2] = 0
    BY <2>1 DEF Typed, TypeOK
  <2> QED
    BY <2>2
<1>4. /\ IsFiniteSet(L) /\ IsFiniteSet(Repeats) /\ IsFiniteSet(L \cup Repeats)
      /\ Cardinality(L \cup Repeats) <= Cardinality(Costs)
      /\ Cardinality(L \cup Repeats) = Cardinality(L) + Cardinality(Repeats) - Cardinality({})
  <2>1. IsFiniteSet(L) /\ IsFiniteSet(Repeats) /\ L \cup Repeats \subseteq Costs
    BY <1>1, <1>2, FS_Subset DEF CostInv
  <2>2. /\ IsFiniteSet(L \cup Repeats)
        /\ Cardinality(L \cup Repeats) =
               Cardinality(L) + Cardinality(Repeats) - Cardinality(L \cap Repeats)
    BY <2>1, FS_Union, Zenon
  <2> QED
    BY <1>3, <2>1, <2>2, FS_Subset DEF CostInv
<1>5. Cardinality(L) = Cardinality(Lost)
  <2>1. IsFiniteSet(Lost)
    <3>1. [m \in Lost |-> <<m, 0>>] \in Injection(Lost, L)
      BY DEF Injection, IsInjective
    <3> QED
      BY <1>4, <3>1, FS_Injection
  <2>2. IsFiniteSet({0}) /\ Cardinality({0}) = 1
    BY FS_Singleton
  <2>3. Cardinality(Lost \X {0}) = Cardinality(Lost) * 1
    BY <2>1, <2>2, FS_Product
  <2>4. Cardinality(Lost) \in Nat
    BY <2>1, FS_CardinalityType
  <2> QED
    BY <2>3, <2>4
<1>6. /\ Cardinality(Lost) \in Nat /\ Cardinality(Repeats) \in Nat /\ Cardinality(Costs) \in Nat
      /\ Cardinality({}) = 0 /\ Cardinality(Costs) <= stopped /\ stopped \in Nat
  BY <1>4, <1>5, FS_CardinalityType, FS_EmptySet DEF CostInv, Typed, TypeOK
<1> QED
  BY <1>4, <1>5, <1>6 DEF StopCostsOneMessage

(* With one starter, however often heartbeats are killed, terminated or    *)
(* pause and are started again, at most one message is lost or dispatched  *)
(* once more for each time.                                                *)
THEOREM StopCostsSafe ==
    ASSUME NEW CONSTANT s0, Starters = {s0}
    PROVE  Spec => []StopCostsOneMessage
<1>1. BInv /\ Unique /\ CostInv /\ [Next]_vars => (Unique /\ CostInv)'
  BY UniqueNext, CostInvNext DEF BInv
<1>2. BInv /\ CostInv => StopCostsOneMessage
  BY CostsCount DEF BInv
<1> QED
  BY <1>1, <1>2, UniqueInit, CostInvInit, BInvAlways, PTL DEF Spec

=============================================================================
