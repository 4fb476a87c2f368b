----------------------------- MODULE BotbeatProofs -----------------------------
(***************************************************************************)
(* Proofs about the list of the bots' process, for any number of tables,   *)
(* turns and crashes.  The pops do not say what they take off, and still   *)
(* take what was listed, and leave what was rotated, because heartbeats    *)
(* only ever append and nobody else pops.                                  *)
(***************************************************************************)
EXTENDS Botbeat, SequenceTheorems, TLAPS

-----------------------------------------------------------------------------
(* The inductive invariant                                                 *)

InStep == pc \in {"fetch", "think", "rotate", "collect", "pop"}

(* How many entries this round has popped, and how many it has put back.   *)
PoppedSoFar ==
    IF pc \in {"rotate", "collect"} THEN i - 1 ELSE IF pc = "pop" THEN Len(delayed) ELSE 0

PutBack ==
    IF pc = "rotate" THEN i - 1
    ELSE IF pc = "collect" THEN i ELSE IF pc = "pop" THEN Len(delayed) ELSE 0

(* Every entry of the copy was delayed once at most, and the one of the    *)
(* move was not, so that there are at most as many pops as entries.        *)
PopsAreCounted ==
    /\ pc \in {"fetch", "think"} =>
          i <= Len(listed) /\ Len(delayed) < i /\ move = NoMove
    /\ pc \in {"rotate", "collect", "pop"} =>
          Len(delayed) <= Len(listed) /\ (move # NoMove => Len(delayed) < Len(listed))
    /\ pc = "rotate" => i <= Len(delayed) + 1
    /\ pc = "collect" => i <= Len(delayed)
    /\ pc = "pop" => move # NoMove
    /\ i >= 1

(* What has not been popped of the copy is still the front of the list ... *)
IsFront(q, copy, n) ==
    /\ Len(copy) <= Len(q) + n
    /\ \A j \in 1 .. Len(q) : j + n <= Len(copy) => q[j] = copy[j + n]

CopyIsFront == InStep => IsFront(queue, listed, PoppedSoFar)

(* ... and what has been put back is behind it.                            *)
AreBehind(q, copy, n, tables, m) ==
    \A d \in 1 .. m : \E j \in 1 .. Len(q) : j + n > Len(copy) /\ q[j] = tables[d]

PutBackIsBehind == InStep => AreBehind(queue, listed, PoppedSoFar, delayed, PutBack)

ListInv == PopsAreCounted /\ CopyIsFront /\ PutBackIsBehind /\ DelayedStayQueued

IInv == TypeOK /\ ListInv

-----------------------------------------------------------------------------
(* Sequences                                                               *)

LEMMA AppendedAt ==
    ASSUME NEW S, NEW s \in Seq(S), NEW e \in S
    PROVE  /\ Append(s, e) \in Seq(S) /\ Len(Append(s, e)) = Len(s) + 1
           /\ \A j \in 1 .. Len(s) : Append(s, e)[j] = s[j]
           /\ Append(s, e)[Len(s) + 1] = e
BY AppendProperties

LEMMA WithoutFirst ==
    ASSUME NEW S, NEW s \in Seq(S), s # <<>>
    PROVE  /\ Tail(s) \in Seq(S) /\ Len(Tail(s)) = Len(s) - 1 /\ Len(s) >= 1
           /\ Head(s) = s[1] /\ Head(s) \in S
           /\ \A j \in 1 .. Len(Tail(s)) : Tail(s)[j] = s[j + 1]
BY HeadTailProperties, EmptySeq

LEMMA Members ==
    ASSUME NEW S, NEW s \in Seq(S)
    PROVE  /\ Len(s) \in Nat /\ ToSet(s) = {s[j] : j \in 1 .. Len(s)}
           /\ \A j \in 1 .. Len(s) : s[j] \in S
BY LenProperties, ElementOfSeq DEF ToSet

LEMMA InList ==
    ASSUME NEW S, NEW s \in Seq(S), NEW e
    PROVE  e \in ToSet(s) <=> \E j \in 1 .. Len(s) : s[j] = e
BY Members

-----------------------------------------------------------------------------
(* Type correctness                                                        *)

LEMMA TypesStart == Init => TypeOK
<1>. SUFFICES ASSUME Init PROVE TypeOK  OBVIOUS
<1>. <<>> \in Seq(Tables) /\ <<>> \in Seq(Nat)  BY EmptySeq
<1>. QED  BY BotbeatAssumption DEF Init, TypeOK, NoMove

(* A table goes to its next turn or stays in the one it is in.             *)
LEMMA TurnsKeepTypes ==
    ASSUME TypeOK, NEW t \in Tables, SameTurn \/ NextTurn(t)
    PROVE  /\ turn' \in [Tables -> Nat] /\ robot' \in [Tables -> BOOLEAN]
           /\ rested' \in [Tables -> BOOLEAN]
<1>1. CASE SameTurn
  BY <1>1 DEF TypeOK, SameTurn
<1>2. CASE NextTurn(t)
  <2>1. PICK bot \in BOOLEAN : robot' = [robot EXCEPT ![t] = bot]
    BY <1>2, Zenon DEF NextTurn
  <2>2. robot' \in [Tables -> BOOLEAN] /\ rested' \in [Tables -> BOOLEAN]
    BY <1>2, <2>1 DEF TypeOK, NextTurn
  <2>3. turn' \in [Tables -> Nat]
    BY <1>2 DEF TypeOK, NextTurn
  <2>. QED  BY <2>2, <2>3
<1>. QED  BY <1>1, <1>2

LEMMA HeartbeatKeepsTypes ==
    ASSUME TypeOK, NEW t \in Tables,
           Rest(t) \/ Heartbeat(t) \/ Pause(t) \/ Awaken(t)
    PROVE  TypeOK'
<1>1. CASE Rest(t)
  BY <1>1 DEF TypeOK, Rest, botVars
<1>2. CASE DispatchPerson(t) \/ Idle(t) \/ TimedDispatch(t)
  <2>1. /\ turn' \in [Tables -> Nat] /\ robot' \in [Tables -> BOOLEAN]
        /\ rested' \in [Tables -> BOOLEAN]
    BY <1>2, TurnsKeepTypes DEF DispatchPerson, Idle, TimedDispatch
  <2>. QED  BY <1>2, <2>1 DEF TypeOK, DispatchPerson, Idle, TimedDispatch, Goes, botVars
<1>3. CASE DispatchMove(t)
  <2>1. /\ turn' \in [Tables -> Nat] /\ robot' \in [Tables -> BOOLEAN]
        /\ rested' \in [Tables -> BOOLEAN]
    BY <1>3, TurnsKeepTypes DEF DispatchMove
  <2>2. Tail(inbox[t]) \in Seq(Nat)
    BY <1>3, WithoutFirst DEF TypeOK, DispatchMove
  <2>. QED  BY <1>3, <2>1, <2>2 DEF TypeOK, DispatchMove, Goes, botVars
<1>4. CASE Look(t)
  BY <1>4 DEF TypeOK, Look, Goes, tableVars, botVars
<1>5. CASE Push(t)
  <2>1. Append(queue, t) \in Seq(Tables)  BY AppendedAt DEF TypeOK
  <2>. QED  BY <1>5, <2>1 DEF TypeOK, Push, Goes, tableVars, botVars
<1>6. CASE Pause(t)
  <2>1. inbox[t] # <<>> => Tail(inbox[t]) \in Seq(Nat)
    BY WithoutFirst DEF TypeOK
  <2>2. inbox' \in [Tables -> Seq(Nat)]
    BY <1>6, <2>1 DEF TypeOK, Pause
  <2>. QED  BY <1>6, <2>2 DEF TypeOK, Pause, Goes, botVars
<1>7. CASE Awaken(t)
  BY <1>7 DEF TypeOK, Awaken, Goes, botVars
<1>. QED  BY <1>1, <1>2, <1>3, <1>4, <1>5, <1>6, <1>7 DEF Heartbeat

LEMMA BotbeatKeepsTypes ==
    ASSUME TypeOK, ListInv, BotbeatStep \/ Crash \/ Restart
    PROVE  TypeOK'
<1>. USE DEF TypeOK, tableVars
<1>. <<>> \in Seq(Tables) /\ Popped \in Seq(Tables)
  BY EmptySeq, WithoutFirst DEF Popped
<1>1. CASE List
  BY <1>1 DEF List
<1>2. CASE Collect \/ Pop
  BY <1>2 DEF Collect, Pop
<1>3. CASE Sleep \/ Restart
  BY <1>3 DEF Sleep, Restart
<1>4. CASE Crash
  BY <1>4, BotbeatAssumption DEF Crash
<1>5. CASE Fetch \/ PassOver \/ Delay \/ Decide
  <2>1. listed[i] \in Tables
    <3>1. pc \in {"fetch", "think"}
      BY <1>5 DEF Fetch, PassOver, Delay, Decide
    <3>2. i \in 1 .. Len(listed)
      BY <3>1, Members DEF ListInv, PopsAreCounted
    <3>. QED  BY <3>2, Members
  <2>2. Append(delayed, listed[i]) \in Seq(Tables)  BY <2>1, AppendedAt
  <2>3. CASE Fetch
    BY <2>1, <2>3 DEF Fetch
  <2>4. CASE PassOver \/ Delay
    <3>1. i' \in Nat /\ pc' \in {"fetch", "rotate"}
      <4>1. i \in Nat /\ NextTable
        BY <2>4 DEF PassOver, Delay
      <4>. HIDE DEF TypeOK
      <4>. QED  BY <4>1 DEF NextTable
    <3>2. delayed' \in Seq(Tables)
      BY <2>2, <2>4 DEF PassOver, Delay
    <3>. QED  BY <2>4, <3>1, <3>2 DEF PassOver, Delay
  <2>5. CASE Decide
    BY <2>1, <2>5 DEF Decide
  <2>. QED  BY <1>5, <2>3, <2>4, <2>5
<1>6. CASE Rotate
  <2>1. i \in 1 .. Len(delayed)
    BY <1>6, Members DEF Rotate, ListInv, PopsAreCounted
  <2>2. delayed[i] \in Tables
    BY <2>1, Members
  <2>3. Append(queue, delayed[i]) \in Seq(Tables)
    BY <2>2, AppendedAt
  <2>. QED  BY <1>6, <2>3 DEF Rotate
<1>7. CASE Send
  <2>1. move[1] \in Tables /\ move[2] \in Nat  BY <1>7 DEF Send
  <2>2. Append(inbox[move[1]], move[2]) \in Seq(Nat)  BY <2>1, AppendedAt
  <2>. QED  BY <1>7, <2>1, <2>2 DEF Send
<1>. QED  BY <1>1, <1>2, <1>3, <1>4, <1>5, <1>6, <1>7 DEF BotbeatStep

-----------------------------------------------------------------------------
(* The front of the list and what is behind it                             *)

LEMMA FrontOfAppended ==
    ASSUME NEW S, NEW q \in Seq(S), NEW copy \in Seq(S), NEW n \in Nat, NEW e \in S,
           IsFront(q, copy, n)
    PROVE  IsFront(Append(q, e), copy, n)
<1>1. Len(q) \in Nat /\ Len(copy) \in Nat  BY Members
<1>2. /\ Len(Append(q, e)) = Len(q) + 1
      /\ \A j \in 1 .. Len(q) : Append(q, e)[j] = q[j]
  BY AppendedAt
<1>. QED  BY <1>1, <1>2 DEF IsFront

LEMMA FrontOfTail ==
    ASSUME NEW S, NEW q \in Seq(S), NEW copy \in Seq(S), NEW n \in Nat,
           IsFront(q, copy, n), n < Len(copy)
    PROVE  q # <<>> /\ Head(q) = copy[n + 1] /\ IsFront(Tail(q), copy, n + 1)
<1>1. Len(q) \in Nat /\ Len(copy) \in Nat  BY Members
<1>2. Len(q) >= 1  BY <1>1 DEF IsFront
<1>3. q # <<>>  BY <1>2, EmptySeq
<1>4. /\ Len(Tail(q)) = Len(q) - 1 /\ Head(q) = q[1]
      /\ \A j \in 1 .. Len(Tail(q)) : Tail(q)[j] = q[j + 1]
  BY <1>3, WithoutFirst
<1>5. q[1] = copy[n + 1]  BY <1>1, <1>2 DEF IsFront
<1>6. IsFront(Tail(q), copy, n + 1)
  <2>1. Len(copy) <= Len(Tail(q)) + (n + 1)
    <3>1. Len(copy) <= Len(q) + n  BY DEF IsFront
    <3>. DEFINE shorter == Len(Tail(q))
    <3>2. shorter = Len(q) - 1  BY <1>4
    <3>. HIDE DEF shorter
    <3>3. Len(copy) <= shorter + (n + 1)  BY <1>1, <3>1, <3>2
    <3>. QED  BY <3>3 DEF shorter
  <2>2. ASSUME NEW j \in 1 .. Len(Tail(q)), j + (n + 1) <= Len(copy)
        PROVE  Tail(q)[j] = copy[j + (n + 1)]
    <3>1. j + 1 \in 1 .. Len(q) /\ (j + 1) + n = j + (n + 1)  BY <1>1, <1>4
    <3>2. q[j + 1] = copy[(j + 1) + n]  BY <2>2, <3>1 DEF IsFront
    <3>. QED  BY <1>4, <3>1, <3>2
  <2>. QED  BY <2>1, <2>2 DEF IsFront
<1>. QED  BY <1>3, <1>4, <1>5, <1>6

LEMMA BehindInAppended ==
    ASSUME NEW S, NEW q \in Seq(S), NEW copy \in Seq(S), NEW n \in Nat, NEW e \in S,
           NEW tables, NEW m \in Nat, AreBehind(q, copy, n, tables, m)
    PROVE  AreBehind(Append(q, e), copy, n, tables, m)
<1>1. Len(q) \in Nat  BY Members
<1>2. /\ Len(Append(q, e)) = Len(q) + 1
      /\ \A j \in 1 .. Len(q) : Append(q, e)[j] = q[j]
  BY AppendedAt
<1>. QED  BY <1>1, <1>2 DEF AreBehind

(* What is put back is behind the copy, as all of the copy is before it.   *)
LEMMA PuttingBack ==
    ASSUME NEW S, NEW q \in Seq(S), NEW copy \in Seq(S), NEW n \in Nat,
           NEW tables \in Seq(S), NEW m \in Nat, m + 1 \in 1 .. Len(tables),
           AreBehind(q, copy, n, tables, m), IsFront(q, copy, n)
    PROVE  AreBehind(Append(q, tables[m + 1]), copy, n, tables, m + 1)
<1>1. Len(q) \in Nat /\ Len(copy) \in Nat /\ tables[m + 1] \in S  BY Members
<1>. DEFINE longer == Append(q, tables[m + 1])
<1>2. Len(longer) = Len(q) + 1 /\ longer[Len(q) + 1] = tables[m + 1]
  BY <1>1, AppendedAt
<1>3. AreBehind(longer, copy, n, tables, m)  BY <1>1, BehindInAppended
<1>4. Len(q) + 1 \in 1 .. Len(longer) /\ (Len(q) + 1) + n > Len(copy)
  BY <1>1, <1>2 DEF IsFront
<1>5. ASSUME NEW d \in 1 .. m + 1
      PROVE  \E j \in 1 .. Len(longer) : j + n > Len(copy) /\ longer[j] = tables[d]
  <2>1. CASE d = m + 1  BY <2>1, <1>2, <1>4
  <2>2. CASE d \in 1 .. m  BY <2>2, <1>3 DEF AreBehind
  <2>. QED  BY <2>1, <2>2
<1>. QED  BY <1>5 DEF AreBehind

LEMMA BehindInTail ==
    ASSUME NEW S, NEW q \in Seq(S), NEW copy \in Seq(S), NEW n \in Nat,
           NEW tables, NEW m \in Nat, AreBehind(q, copy, n, tables, m),
           n < Len(copy), q # <<>>
    PROVE  AreBehind(Tail(q), copy, n + 1, tables, m)
<1>1. Len(q) \in Nat /\ Len(copy) \in Nat  BY Members
<1>2. /\ Len(Tail(q)) = Len(q) - 1
      /\ \A j \in 1 .. Len(Tail(q)) : Tail(q)[j] = q[j + 1]
  BY WithoutFirst
<1>3. ASSUME NEW d \in 1 .. m
      PROVE  \E j \in 1 .. Len(Tail(q)) : j + (n + 1) > Len(copy) /\ Tail(q)[j] = tables[d]
  <2>1. PICK k \in 1 .. Len(q) : k + n > Len(copy) /\ q[k] = tables[d]
    BY <1>3 DEF AreBehind
  <2>2. k - 1 \in 1 .. Len(Tail(q)) /\ (k - 1) + (n + 1) > Len(copy)
    BY <1>1, <1>2, <2>1
  <2>3. Tail(q)[k - 1] = tables[d]
    <3>1. Tail(q)[k - 1] = q[(k - 1) + 1]  BY <1>2, <2>2
    <3>2. (k - 1) + 1 = k  OBVIOUS
    <3>. QED  BY <2>1, <3>1, <3>2
  <2>. QED  BY <2>2, <2>3
<1>. QED  BY <1>3 DEF AreBehind

-----------------------------------------------------------------------------
(* Every step keeps the list in order                                      *)

LEMMA ListStarts == Init => ListInv
<1>. SUFFICES ASSUME Init PROVE ListInv  OBVIOUS
<1>. pc = "list" /\ i = 1 /\ delayed = <<>>  BY DEF Init
<1>1. PopsAreCounted  BY DEF PopsAreCounted
<1>2. CopyIsFront /\ PutBackIsBehind  BY DEF CopyIsFront, PutBackIsBehind, InStep
<1>3. DelayedStayQueued  BY EmptySeq DEF DelayedStayQueued, ToSet
<1>. QED  BY <1>1, <1>2, <1>3 DEF ListInv

LEMMA CountsAreNat ==
    ASSUME IInv
    PROVE  /\ PoppedSoFar \in Nat /\ PutBack \in Nat
           /\ queue \in Seq(Tables) /\ listed \in Seq(Tables) /\ delayed \in Seq(Tables)
           /\ Len(queue) \in Nat /\ Len(listed) \in Nat /\ Len(delayed) \in Nat /\ i \in Nat
<1>1. i \in Nat /\ i >= 1  BY DEF IInv, TypeOK, ListInv, PopsAreCounted
<1>2. queue \in Seq(Tables) /\ listed \in Seq(Tables) /\ delayed \in Seq(Tables)
  BY DEF IInv, TypeOK
<1>3. Len(queue) \in Nat /\ Len(listed) \in Nat /\ Len(delayed) \in Nat  BY <1>2, Members
<1>. QED  BY <1>1, <1>2, <1>3 DEF PoppedSoFar, PutBack

(* Heartbeats append to the list, or do nothing to it.                     *)
LEMMA HeartbeatKeepsList ==
    ASSUME IInv, UNCHANGED botVars,
           queue' = queue \/ \E t \in Tables : queue' = Append(queue, t)
    PROVE  ListInv'
<1>. USE CountsAreNat
<1>1. PoppedSoFar' = PoppedSoFar /\ PutBack' = PutBack /\ InStep' = InStep
  BY DEF botVars, PoppedSoFar, PutBack, InStep
<1>2. PopsAreCounted'  BY DEF IInv, ListInv, PopsAreCounted, botVars
<1>3. CASE queue' = queue
  BY <1>1, <1>2, <1>3
     DEF IInv, ListInv, CopyIsFront, PutBackIsBehind, DelayedStayQueued, botVars
<1>4. ASSUME NEW t \in Tables, queue' = Append(queue, t)
      PROVE  ListInv'
  <2>1. CopyIsFront'
    BY <1>1, <1>4, FrontOfAppended DEF IInv, ListInv, CopyIsFront, botVars
  <2>2. PutBackIsBehind'
    BY <1>1, <1>4, BehindInAppended DEF IInv, ListInv, PutBackIsBehind, botVars
  <2>3. ToSet(queue) \subseteq ToSet(Append(queue, t))
    <3>1. ASSUME NEW e \in ToSet(queue)
          PROVE  e \in ToSet(Append(queue, t))
      <4>1. PICK j \in 1 .. Len(queue) : queue[j] = e  BY InList
      <4>2. /\ Append(queue, t) \in Seq(Tables)
            /\ j \in 1 .. Len(Append(queue, t)) /\ Append(queue, t)[j] = e
        BY <4>1, AppendedAt
      <4>. QED  BY <4>2, InList
    <3>. QED  BY <3>1
  <2>4. DelayedStayQueued'
    BY <1>4, <2>3 DEF IInv, ListInv, DelayedStayQueued, botVars
  <2>. QED  BY <1>2, <2>1, <2>2, <2>4 DEF ListInv
<1>. QED  BY <1>3, <1>4

(* A round starts with a copy of the list ...                              *)
LEMMA ListKeepsList == ASSUME IInv, List PROVE ListInv'
<1>. USE CountsAreNat
<1>1. /\ pc' = "fetch" /\ listed' = queue /\ queue' = queue /\ i' = 1
      /\ delayed' = <<>> /\ move' = NoMove /\ queue # <<>>
  BY DEF List
<1>2. PopsAreCounted'
  <2>1. Len(queue) # 0  BY <1>1, EmptySeq
  <2>2. Len(delayed') = 0  BY <1>1
  <2>. QED  BY <1>1, <2>1, <2>2 DEF PopsAreCounted
<1>3. PoppedSoFar' = 0 /\ PutBack' = 0  BY <1>1 DEF PoppedSoFar, PutBack
<1>4. IsFront(queue, queue, 0)  BY DEF IsFront
<1>5. CopyIsFront' /\ PutBackIsBehind'
  BY <1>1, <1>3, <1>4 DEF CopyIsFront, PutBackIsBehind, AreBehind
<1>. QED  BY <1>1, <1>2, <1>5 DEF ListInv, DelayedStayQueued

(* ... and looking at tables does not change it.                           *)
LEMMA LookingKeepsList ==
    ASSUME IInv, Fetch \/ PassOver \/ Delay \/ Decide
    PROVE  ListInv'
<1>. USE CountsAreNat
<1>1. /\ pc \in {"fetch", "think"} /\ i <= Len(listed) /\ Len(delayed) < i /\ move = NoMove
      /\ UNCHANGED <<queue, listed>>
  BY DEF IInv, ListInv, PopsAreCounted, Fetch, PassOver, Delay, Decide
<1>2. /\ pc' \in {"fetch", "think", "rotate"} /\ (pc' = "rotate" => i' = 1)
      /\ i' \in Nat /\ i' >= 1
  <2>1. i \in Nat /\ i >= 1  BY DEF IInv, ListInv, PopsAreCounted
  <2>2. CASE Fetch  BY <2>1, <2>2 DEF Fetch
  <2>3. CASE Decide  BY <2>3 DEF Decide
  <2>4. CASE PassOver \/ Delay
    <3>1. NextTable  BY <2>4 DEF PassOver, Delay
    <3>. QED  BY <2>1, <3>1 DEF NextTable
  <2>. QED  BY <2>2, <2>3, <2>4
<1>3. PoppedSoFar' = 0 /\ PutBack' = 0 /\ PoppedSoFar = 0 /\ PutBack = 0
  BY <1>1, <1>2 DEF PoppedSoFar, PutBack
<1>4. CopyIsFront'
  BY <1>1, <1>3 DEF IInv, ListInv, CopyIsFront, InStep
<1>5. PutBackIsBehind'
  BY <1>3 DEF PutBackIsBehind, AreBehind
<1>6. PopsAreCounted'
  <2>1. CASE Fetch
    BY <1>1, <1>2, <2>1 DEF Fetch, PopsAreCounted
  <2>2. CASE PassOver
    BY <1>1, <1>2, <2>2 DEF PassOver, NextTable, PopsAreCounted
  <2>3. CASE Delay
    <3>1. listed[i] \in Tables  BY <1>1, Members DEF IInv, ListInv, PopsAreCounted
    <3>2. Len(delayed') = Len(delayed) + 1
      BY <2>3, <3>1, AppendedAt DEF Delay
    <3>. QED  BY <1>1, <1>2, <2>3, <3>2 DEF Delay, NextTable, PopsAreCounted
  <2>4. CASE Decide
    BY <1>1, <1>2, <2>4 DEF Decide, PopsAreCounted
  <2>. QED  BY <2>1, <2>2, <2>3, <2>4
<1>7. DelayedStayQueued'  BY <1>2 DEF DelayedStayQueued
<1>. QED  BY <1>4, <1>5, <1>6, <1>7 DEF ListInv

(* What is put back goes behind the copy ...                               *)
LEMMA RotateKeepsList == ASSUME IInv, Rotate PROVE ListInv'
<1>. USE CountsAreNat
<1>1. /\ pc = "rotate" /\ i <= Len(delayed) /\ i >= 1 /\ pc' = "collect"
      /\ queue' = Append(queue, delayed[i])
      /\ UNCHANGED <<listed, i, delayed, move>>
  BY DEF IInv, ListInv, PopsAreCounted, Rotate
<1>2. PopsAreCounted'
  BY <1>1 DEF IInv, ListInv, PopsAreCounted
<1>3. /\ PoppedSoFar = i - 1 /\ PoppedSoFar' = PoppedSoFar /\ i - 1 \in Nat
      /\ PutBack = i - 1 /\ PutBack' = (i - 1) + 1 /\ delayed[i] = delayed[(i - 1) + 1]
  BY <1>1 DEF PoppedSoFar, PutBack
<1>4. IsFront(queue, listed, i - 1) /\ AreBehind(queue, listed, i - 1, delayed, i - 1)
  BY <1>1, <1>3 DEF IInv, ListInv, CopyIsFront, PutBackIsBehind, InStep
<1>5. CopyIsFront'
  <2>1. delayed[i] \in Tables  BY <1>1, Members
  <2>2. IsFront(Append(queue, delayed[i]), listed, i - 1)
    BY <1>3, <1>4, <2>1, FrontOfAppended
  <2>. QED  BY <1>1, <1>3, <2>2 DEF CopyIsFront
<1>6. PutBackIsBehind'
  <2>1. (i - 1) + 1 \in 1 .. Len(delayed)  BY <1>1
  <2>2. AreBehind(Append(queue, delayed[(i - 1) + 1]), listed, i - 1, delayed, (i - 1) + 1)
    BY <1>3, <1>4, <2>1, PuttingBack
  <2>. QED  BY <1>1, <1>3, <2>2 DEF PutBackIsBehind
<1>7. DelayedStayQueued'  BY <1>1 DEF DelayedStayQueued
<1>. QED  BY <1>2, <1>5, <1>6, <1>7 DEF ListInv

(* ... and what is taken off is the first of the copy.                     *)
LEMMA CollectKeepsList == ASSUME IInv, Collect PROVE ListInv'
<1>. USE CountsAreNat
<1>1. /\ pc = "collect" /\ i <= Len(delayed) /\ i >= 1 /\ pc' = "rotate" /\ i' = i + 1
      /\ Len(delayed) <= Len(listed) /\ (move # NoMove => Len(delayed) < Len(listed))
      /\ queue' = Popped /\ UNCHANGED <<listed, delayed, move>>
  BY DEF IInv, ListInv, PopsAreCounted, Collect
<1>2. PopsAreCounted'
  BY <1>1 DEF PopsAreCounted
<1>3. PoppedSoFar = i - 1 /\ PoppedSoFar' = (i - 1) + 1 /\ PutBack = i /\ PutBack' = i
      /\ i - 1 \in Nat /\ i - 1 < Len(listed)
  BY <1>1 DEF PoppedSoFar, PutBack
<1>4. IsFront(queue, listed, i - 1) /\ AreBehind(queue, listed, i - 1, delayed, i)
  BY <1>1, <1>3 DEF IInv, ListInv, CopyIsFront, PutBackIsBehind, InStep
<1>5. queue # <<>> /\ IsFront(Tail(queue), listed, (i - 1) + 1)
  BY <1>3, <1>4, FrontOfTail
<1>6. AreBehind(Tail(queue), listed, (i - 1) + 1, delayed, i)
  BY <1>3, <1>4, <1>5, BehindInTail
<1>7. queue' = Tail(queue)  BY <1>1, <1>5 DEF Popped
<1>8. CopyIsFront' /\ PutBackIsBehind'
  BY <1>1, <1>3, <1>5, <1>6, <1>7 DEF CopyIsFront, PutBackIsBehind
<1>9. DelayedStayQueued'  BY <1>1 DEF DelayedStayQueued
<1>. QED  BY <1>2, <1>8, <1>9 DEF ListInv

(* All that was delayed is on the list if all of it has been put back.     *)
LEMMA BehindAreQueued ==
    ASSUME NEW q \in Seq(Tables), NEW tables \in Seq(Tables), NEW copy, NEW n,
           AreBehind(q, copy, n, tables, Len(tables))
    PROVE  ToSet(tables) \subseteq ToSet(q)
<1>1. ASSUME NEW e \in ToSet(tables) PROVE e \in ToSet(q)
  <2>1. PICK d \in 1 .. Len(tables) : tables[d] = e  BY InList
  <2>2. \E j \in 1 .. Len(q) : q[j] = e  BY <2>1 DEF AreBehind
  <2>. QED  BY <2>2, InList
<1>. QED  BY <1>1

(* The end of a round without a move, and of one with a move.              *)
LEMMA SleepKeepsList == ASSUME IInv, Sleep PROVE ListInv'
<1>. USE CountsAreNat
<1>1. /\ pc = "rotate" /\ pc' = "list" /\ i > Len(delayed) /\ i <= Len(delayed) + 1 /\ i >= 1
      /\ UNCHANGED <<queue, listed, i, delayed, move>>
  BY DEF IInv, ListInv, PopsAreCounted, Sleep
<1>2. PutBack = Len(delayed)  BY <1>1 DEF PutBack
<1>3. ToSet(delayed) \subseteq ToSet(queue)
  BY <1>1, <1>2, BehindAreQueued DEF IInv, ListInv, PutBackIsBehind, InStep
<1>4. PopsAreCounted'  BY <1>1 DEF PopsAreCounted
<1>5. CopyIsFront' /\ PutBackIsBehind'  BY <1>1 DEF CopyIsFront, PutBackIsBehind, InStep
<1>. QED  BY <1>1, <1>3, <1>4, <1>5 DEF ListInv, DelayedStayQueued

LEMMA SendKeepsList == ASSUME IInv, Send PROVE ListInv'
<1>. USE CountsAreNat
<1>1. /\ pc = "rotate" /\ pc' = "pop" /\ i > Len(delayed) /\ i <= Len(delayed) + 1 /\ i >= 1
      /\ move # NoMove /\ Len(delayed) < Len(listed)
      /\ UNCHANGED <<queue, listed, i, delayed, move>>
  BY DEF IInv, ListInv, PopsAreCounted, Send
<1>2. PoppedSoFar = Len(delayed) /\ PoppedSoFar' = Len(delayed)
      /\ PutBack = Len(delayed) /\ PutBack' = Len(delayed)
  BY <1>1 DEF PoppedSoFar, PutBack
<1>3. PopsAreCounted'  BY <1>1 DEF PopsAreCounted
<1>4. CopyIsFront' /\ PutBackIsBehind'
  BY <1>1, <1>2 DEF IInv, ListInv, CopyIsFront, PutBackIsBehind, InStep
<1>5. DelayedStayQueued'  BY <1>1 DEF DelayedStayQueued
<1>. QED  BY <1>3, <1>4, <1>5 DEF ListInv

LEMMA PopKeepsList == ASSUME IInv, Pop PROVE ListInv'
<1>. USE CountsAreNat
<1>1. /\ pc = "pop" /\ pc' = "list" /\ queue' = Popped /\ i >= 1
      /\ Len(delayed) < Len(listed) /\ UNCHANGED <<listed, i, delayed, move>>
  BY DEF IInv, ListInv, PopsAreCounted, Pop
<1>2. PoppedSoFar = Len(delayed) /\ PutBack = Len(delayed)
  BY <1>1 DEF PoppedSoFar, PutBack
<1>3. IsFront(queue, listed, Len(delayed))
      /\ AreBehind(queue, listed, Len(delayed), delayed, Len(delayed))
  BY <1>1, <1>2 DEF IInv, ListInv, CopyIsFront, PutBackIsBehind, InStep
<1>4. queue # <<>>  BY <1>1, <1>3, FrontOfTail
<1>5. AreBehind(Tail(queue), listed, Len(delayed) + 1, delayed, Len(delayed))
  BY <1>1, <1>3, <1>4, BehindInTail
<1>6. queue' = Tail(queue) /\ Tail(queue) \in Seq(Tables)
  BY <1>1, <1>4, WithoutFirst DEF Popped
<1>7. ToSet(delayed) \subseteq ToSet(Tail(queue))
  BY <1>5, <1>6, BehindAreQueued
<1>8. PopsAreCounted'  BY <1>1 DEF PopsAreCounted
<1>9. CopyIsFront' /\ PutBackIsBehind'  BY <1>1 DEF CopyIsFront, PutBackIsBehind, InStep
<1>. QED  BY <1>1, <1>6, <1>7, <1>8, <1>9 DEF ListInv, DelayedStayQueued

(* Wherever it crashes, a round that has not ended promises nothing, and   *)
(* the next one starts from the list as it is.                             *)
LEMMA CrashKeepsList == ASSUME IInv, Crash \/ Restart PROVE ListInv'
<1>1. /\ pc' = "down" \/ (pc' = "list" /\ delayed' = <<>>)
      /\ i >= 1 /\ i' = i
  BY DEF Crash, Restart, IInv, ListInv, PopsAreCounted
<1>2. PopsAreCounted'  BY <1>1 DEF PopsAreCounted
<1>3. CopyIsFront' /\ PutBackIsBehind'  BY <1>1 DEF CopyIsFront, PutBackIsBehind, InStep
<1>4. DelayedStayQueued'
  <2>1. CASE pc' = "down"  BY <2>1 DEF DelayedStayQueued
  <2>2. CASE delayed' = <<>>
    <3>1. ToSet(delayed') = {}  BY <2>2 DEF ToSet
    <3>. QED  BY <3>1 DEF DelayedStayQueued
  <2>. QED  BY <1>1, <2>1, <2>2
<1>. QED  BY <1>2, <1>3, <1>4 DEF ListInv

-----------------------------------------------------------------------------
(* The theorems                                                            *)

LEMMA StepsKeepIInv == ASSUME IInv, [Next]_vars PROVE IInv'
<1>1. CASE UNCHANGED vars
  <2>1. TypeOK'  BY <1>1 DEF vars, tableVars, botVars, IInv, TypeOK
  <2>2. ListInv'  BY <1>1, HeartbeatKeepsList DEF vars
  <2>. QED  BY <2>1, <2>2 DEF IInv
<1>2. ASSUME NEW t \in Tables, Rest(t) \/ Heartbeat(t) \/ Pause(t) \/ Awaken(t)
      PROVE  IInv'
  <2>1. TypeOK'  BY <1>2, HeartbeatKeepsTypes DEF IInv
  <2>2. UNCHANGED botVars /\ (queue' = queue \/ queue' = Append(queue, t))
    BY <1>2 DEF Rest, Heartbeat, Pause, Awaken, DispatchPerson, DispatchMove, Idle, Look,
                Push, TimedDispatch
  <2>3. ListInv'  BY <2>2, HeartbeatKeepsList
  <2>. QED  BY <2>1, <2>3 DEF IInv
<1>3. CASE BotbeatStep \/ Crash \/ Restart
  <2>1. TypeOK'  BY <1>3, BotbeatKeepsTypes DEF IInv
  <2>2. ListInv'
    BY <1>3, ListKeepsList, LookingKeepsList, RotateKeepsList, CollectKeepsList,
       SleepKeepsList, SendKeepsList, PopKeepsList, CrashKeepsList DEF BotbeatStep
  <2>. QED  BY <2>1, <2>2 DEF IInv
<1>. QED  BY <1>1, <1>2, <1>3 DEF Next

LEMMA IInvHolds == Spec => []IInv
<1>1. Init => IInv  BY TypesStart, ListStarts DEF IInv
<1>2. IInv /\ [Next]_vars => IInv'  BY StepsKeepIInv
<1>. QED  BY <1>1, <1>2, PTL DEF Spec

(* Only tables are on the list and only their moves are sent, however      *)
(* many tables there are and wherever the process stops.                   *)
THEOREM TypeCorrect == Spec => []TypeOK
<1>1. IInv => TypeOK  BY DEF IInv
<1>. QED  BY <1>1, IInvHolds, PTL

(* A pop never waits at an empty list and takes off the next entry of the  *)
(* copy: what heartbeats put on the list during a round stays there.       *)
THEOREM PopsSafe == Spec => []PopsWhatWasListed
<1>1. ASSUME IInv PROVE PopsWhatWasListed
  <2>. USE CountsAreNat
  <2>1. CASE pc = "collect"
    <3>1. i <= Len(delayed) /\ Len(delayed) <= Len(listed) /\ i >= 1
      BY <1>1, <2>1 DEF IInv, ListInv, PopsAreCounted
    <3>2. PoppedSoFar = i - 1 /\ i - 1 \in Nat /\ (i - 1) + 1 = i
      BY <1>1, <2>1, <3>1 DEF PoppedSoFar
    <3>3. IsFront(queue, listed, i - 1)
      BY <1>1, <2>1, <3>2 DEF IInv, ListInv, CopyIsFront, InStep
    <3>4. queue # <<>> /\ Head(queue) = listed[i]
      BY <1>1, <3>1, <3>2, <3>3, FrontOfTail
    <3>. QED  BY <1>1, <2>1, <3>1, <3>4 DEF PopsWhatWasListed
  <2>2. CASE pc = "pop"
    <3>1. Len(delayed) < Len(listed) /\ PoppedSoFar = Len(delayed)
      BY <1>1, <2>2 DEF IInv, ListInv, PopsAreCounted, PoppedSoFar
    <3>2. IsFront(queue, listed, Len(delayed))
      BY <1>1, <2>2, <3>1 DEF IInv, ListInv, CopyIsFront, InStep
    <3>3. queue # <<>> /\ Head(queue) = listed[Len(delayed) + 1]
      BY <1>1, <3>1, <3>2, FrontOfTail
    <3>4. Len(delayed) + 1 \in 1 .. Len(listed)  BY <1>1, <3>1
    <3>. QED  BY <1>1, <2>2, <3>3, <3>4 DEF PopsWhatWasListed
  <2>. QED  BY <2>1, <2>2 DEF PopsWhatWasListed
<1>. QED  BY <1>1, IInvHolds, PTL

(* A round never loses a table whose bot wanted to wait.                   *)
THEOREM DelayedSafe == Spec => []DelayedStayQueued
<1>1. IInv => DelayedStayQueued  BY DEF IInv, ListInv
<1>. QED  BY <1>1, IInvHolds, PTL

===============================================================================
