-------------------------- MODULE FetchQueueProofs --------------------------
(***************************************************************************)
(* The queues of a FetcherThread, for any ladders, limits and bounds: only *)
(* exhausted batches are dropped, and the ladders of a kind are fetched in *)
(* turn.                                                                   *)
(***************************************************************************)
EXTENDS FetchQueue, FiniteSetTheorems, TLAPS

Rest(s) == {s[i] : i \in 1..Len(s)}
Distinct(s) == \A i, j \in 1..Len(s) : s[i] = s[j] => i = j

\* The first batch has some of the ladders of its kind left, each once, the others
\* have all of them; a ladder is ahead if the first batch has others than it left.
Whole(k) ==
  /\ \A i \in 1..Len(batches[k]) : Distinct(batches[k][i])
  /\ \A i \in 1..Len(batches[k]) : i > 1 => Rest(batches[k][i]) = OfKind(k)
  /\ batches[k] # <<>> => Rest(batches[k][1]) \subseteq OfKind(k)
  /\ \A l \in OfKind(k) :
       ahead[l] = IF /\ batches[k] # <<>> /\ batches[k][1] # <<>>
                     /\ l \notin Rest(batches[k][1])
                  THEN 1 ELSE 0

\* The bound on the queue leaves room for the response that is being fetched.
Room == pc \in {"fetching", "answered"} => queued < MaxQueued

\* The inductive invariant.
IInv ==
  /\ TypeOK
  /\ Room
  /\ \A k \in KindSet : Whole(k)
  /\ OnlyExhaustedDropped

LEMMA LenNotZero ==
  ASSUME NEW S, NEW s \in Seq(S), s # <<>>
  PROVE  Len(s) \in Nat /\ Len(s) > 0 /\ 1 \in 1..Len(s)
OBVIOUS

LEMMA KindIsKind == ASSUME TypeOK PROVE Kinds[turn] \in KindSet
BY DEF TypeOK, KindSet

\* NextTurn and Go, for the type of what they change.
LEMMA NextTurnType ==
  ASSUME TypeOK, NextTurn
  PROVE  turn' \in 1..Len(Kinds) /\ pc' \in {"look", "any"}
BY DEF TypeOK, NextTurn, Kinds

\* What Orders promises: sequences that hold every member of the set once.
LEMMA OrdersAreWhole ==
  ASSUME NEW k \in KindSet, NEW b \in Orders(OfKind(k))
  PROVE  b \in Seq(Ladders) /\ Rest(b) = OfKind(k) /\ Distinct(b)
<1> DEFINE S == OfKind(k)
           n == Cardinality(S)
<1>1. S \subseteq Ladders /\ IsFiniteSet(S)
  BY FetchQueueAssumption, FS_Subset DEF OfKind
<1>2. n \in Nat
  BY <1>1, FS_CardinalityType
<1>3. b \in [1..n -> S]
  BY DEF Orders
<1>4. \A l \in S : \E i \in 1..n : b[i] = l /\ \A j \in 1..n : b[j] = l => j = i
  BY <1>3 DEF Orders
<1> HIDE DEF n
<1>5. b \in Seq(S) /\ Len(b) = n
  BY <1>2, <1>3
<1>6. b \in Seq(Ladders)
  BY <1>1, <1>5
<1>7. Rest(b) = S
  BY <1>3, <1>4, <1>5 DEF Rest
<1>8. Distinct(b)
  <2>1. SUFFICES ASSUME NEW i \in 1..n, NEW j \in 1..n, b[i] = b[j] PROVE i = j
    BY <1>5 DEF Distinct
  <2>2. PICK m \in 1..n : \A o \in 1..n : b[o] = b[i] => o = m
    BY <1>3, <1>4
  <2> QED
    BY <2>1, <2>2
<1> QED
  BY <1>6, <1>7, <1>8

\* Taking the first of a sequence without repetitions.
LEMMA TailOfDistinct ==
  ASSUME NEW s \in Seq(Ladders), s # <<>>, Distinct(s)
  PROVE  /\ Tail(s) \in Seq(Ladders)
         /\ Distinct(Tail(s))
         /\ Head(s) \in Rest(s)
         /\ Rest(Tail(s)) = Rest(s) \ {Head(s)}
<1>1. /\ Len(s) \in Nat /\ Len(s) > 0
      /\ Tail(s) \in Seq(Ladders) /\ Len(Tail(s)) = Len(s) - 1
      /\ \A i \in 1..Len(Tail(s)) : Tail(s)[i] = s[i + 1]
      /\ Head(s) = s[1]
  OBVIOUS
<1>2. Distinct(Tail(s))
  BY <1>1 DEF Distinct
<1>3. Head(s) \in Rest(s)
  BY <1>1 DEF Rest
<1>4. Rest(Tail(s)) \subseteq Rest(s) \ {Head(s)}
  <2> SUFFICES ASSUME NEW i \in 1..Len(Tail(s))
               PROVE  Tail(s)[i] \in Rest(s) /\ Tail(s)[i] # Head(s)
    BY DEF Rest
  <2>1. i + 1 \in 1..Len(s) /\ 1 \in 1..Len(s) /\ i + 1 # 1
    BY <1>1
  <2> QED
    BY <1>1, <2>1 DEF Rest, Distinct
<1>5. Rest(s) \ {Head(s)} \subseteq Rest(Tail(s))
  <2> SUFFICES ASSUME NEW i \in 1..Len(s), s[i] # Head(s)
               PROVE  s[i] \in Rest(Tail(s))
    BY DEF Rest
  <2>1. i - 1 \in 1..Len(Tail(s)) /\ (i - 1) + 1 = i
    BY <1>1
  <2>2. Tail(s)[i - 1] = s[i]
    BY <1>1, <2>1
  <2> QED
    BY <2>1, <2>2 DEF Rest
<1> QED
  BY <1>1, <1>2, <1>3, <1>4, <1>5

-----------------------------------------------------------------------------
LEMMA InitIInv == Init => IInv
<1> SUFFICES ASSUME Init PROVE IInv
  OBVIOUS
<1> USE FetchQueueAssumption
<1>1. turn \in 1..Len(Kinds)
  BY DEF Init, Kinds
<1>2. TypeOK
  <2>1. batches \in [KindSet -> Seq(Seq(Ladders))] /\ \A k \in KindSet : Len(batches[k]) <= 2
    BY DEF Init
  <2>2. 1 \in Delays /\ 0 \in 0..DelayMax /\ 0 \in 0..MaxQueued
    BY DEF Delays
  <2> QED
    BY <1>1, <2>1, <2>2 DEF Init, TypeOK, Answers
<1>3. \A k \in KindSet : batches[k] = <<>>
  BY DEF Init
<1>4. \A k \in KindSet : Whole(k)
  BY <1>3 DEF Init, Whole, OfKind
<1> QED
  BY <1>2, <1>4 DEF Init, IInv, Room, OnlyExhaustedDropped

\* A new batch goes behind the others: the first one stays, or it is whole itself.
LEMMA AddKeeps ==
  ASSUME IInv, NEW k \in KindSet, Add(k)
  PROVE  IInv'
<1>1. PICK b \in Orders(OfKind(k)) : batches' = [batches EXCEPT ![k] = Append(batches[k], b)]
  BY DEF Add, Added
<1>2. b \in Seq(Ladders) /\ Rest(b) = OfKind(k) /\ Distinct(b)
  BY OrdersAreWhole
<1>3. /\ batches[k] \in Seq(Seq(Ladders)) /\ Len(batches[k]) \in 0..1
      /\ batches[k] # <<>> => Len(batches[k]) = 1
  <2> DEFINE n == Len(batches[k])
  <2>1. batches[k] \in Seq(Seq(Ladders)) /\ ~(n > 1)
    BY DEF IInv, TypeOK, Add, Backlog
  <2>2. n \in Nat
    BY <2>1
  <2>3. batches[k] # <<>> => n > 0
    BY <2>1, LenNotZero
  <2> HIDE DEF n
  <2>4. n \in 0..1 /\ (n > 0 => n = 1)
    BY <2>1, <2>2
  <2> QED
    BY <2>1, <2>3, <2>4 DEF n
<1>4. /\ batches'[k] = Append(batches[k], b)
      /\ \A m \in KindSet : m # k => batches'[m] = batches[m]
      /\ UNCHANGED <<pc, turn, ahead>>
  BY <1>1 DEF IInv, TypeOK, Add
<1>5. /\ Append(batches[k], b) \in Seq(Seq(Ladders))
      /\ Len(Append(batches[k], b)) = Len(batches[k]) + 1
      /\ \A i \in 1..Len(batches[k]) : Append(batches[k], b)[i] = batches[k][i]
      /\ Append(batches[k], b)[Len(batches[k]) + 1] = b
  BY <1>2, <1>3
<1>6. TypeOK'
  <2>1. batches' \in [KindSet -> Seq(Seq(Ladders))]
    BY <1>1, <1>5 DEF IInv, TypeOK
  <2>2. ASSUME NEW m \in KindSet PROVE Len(batches'[m]) <= 2
    <3>1. CASE m = k
      BY <1>3, <1>4, <1>5, <3>1
    <3>2. CASE m # k
      BY <1>4, <3>2 DEF IInv, TypeOK
    <3> QED
      BY <3>1, <3>2
  <2> QED
    BY <2>1, <2>2 DEF IInv, TypeOK, Add
<1>7. Whole(k)'
  <2>1. CASE batches[k] = <<>>
    <3>1. Len(batches'[k]) = 1 /\ batches'[k][1] = b
      BY <1>4, <1>5, <2>1
    <3>2. \A l \in OfKind(k) : ahead'[l] = 0
      BY <1>4, <2>1 DEF IInv, Whole
    <3> QED
      BY <1>2, <3>1, <3>2 DEF Whole, OfKind
  <2>2. CASE batches[k] # <<>>
    <3>1. Len(batches[k]) = 1
      BY <1>3, <2>2
    <3>2. /\ Len(batches'[k]) = 2
          /\ batches'[k][1] = batches[k][1] /\ batches'[k][2] = b
          /\ batches'[k] # <<>>
      BY <1>4, <1>5, <3>1
    <3>3. /\ Distinct(batches[k][1]) /\ Rest(batches[k][1]) \subseteq OfKind(k)
          /\ \A l \in OfKind(k) :
               ahead[l] = IF batches[k][1] # <<>> /\ l \notin Rest(batches[k][1])
                          THEN 1 ELSE 0
      BY <2>2, <3>1 DEF IInv, Whole
    <3>4. \A i \in 1..Len(batches'[k]) : i = 1 \/ i = 2
      BY <3>2
    <3> QED
      BY <1>2, <1>4, <3>2, <3>3, <3>4 DEF Whole, OfKind
  <2> QED
    BY <2>1, <2>2
<1>8. ASSUME NEW m \in KindSet PROVE Whole(m)'
  <2>1. CASE m = k
    BY <1>7, <2>1
  <2>2. CASE m # k
    <3>1. batches'[m] = batches[m] /\ UNCHANGED ahead
      BY <1>4, <2>2
    <3> QED
      BY <3>1 DEF IInv, Whole, OfKind
  <2> QED
    BY <2>1, <2>2
<1>9. OnlyExhaustedDropped'
  <2> SUFFICES ASSUME pc = "drop" PROVE Queue' # <<>> /\ Head(Queue') = <<>>
    BY <1>4 DEF OnlyExhaustedDropped
  <2>1. Queue # <<>> /\ Head(Queue) = <<>>
    BY DEF IInv, OnlyExhaustedDropped
  <2>2. Kinds[turn] \in KindSet /\ Queue' = batches'[Kinds[turn]]
    BY <1>4, KindIsKind DEF IInv, Queue
  <2>3. CASE Kinds[turn] = k
    BY <1>3, <1>4, <1>5, <2>1, <2>2, <2>3 DEF Queue
  <2>4. CASE Kinds[turn] # k
    BY <1>4, <2>1, <2>2, <2>4 DEF Queue
  <2> QED
    BY <2>3, <2>4
<1> QED
  BY <1>6, <1>8, <1>9 DEF IInv, Room, Add

\* The first of the first batch is taken: it is ahead now of those that are left, or
\* all of the kind are even again.
LEMMA YieldKeeps ==
  ASSUME IInv, Yield
  PROVE  IInv'
<1>1. PICK k \in KindSet : k = Kinds[turn]
  BY KindIsKind DEF IInv
<1> DEFINE f == batches[k][1]
           l == Head(f)
<1>2. /\ batches[k] \in Seq(Seq(Ladders)) /\ batches[k] # <<>>
      /\ Head(batches[k]) = f /\ 1 \in 1..Len(batches[k])
      /\ f \in Seq(Ladders) /\ f # <<>>
  <2>1. batches[k] \in Seq(Seq(Ladders)) /\ batches[k] # <<>> /\ Head(batches[k]) # <<>>
    BY <1>1 DEF IInv, TypeOK, Yield, Queue
  <2> QED
    BY <2>1
<1>3. /\ ladder' = l /\ ahead' = Counted(l)
      /\ batches' = [batches EXCEPT ![k] = [batches[k] EXCEPT ![1] = Tail(f)]]
  BY <1>1, <1>2 DEF Yield, Queue
<1>4. Distinct(f) /\ Rest(f) \subseteq OfKind(k)
  BY <1>1, <1>2 DEF IInv, Whole
<1>5. /\ Tail(f) \in Seq(Ladders)
      /\ Distinct(Tail(f))
      /\ l \in Rest(f)
      /\ Rest(Tail(f)) = Rest(f) \ {l}
  BY <1>2, <1>4, TailOfDistinct
<1>6. /\ batches'[k] = [batches[k] EXCEPT ![1] = Tail(f)]
      /\ \A m \in KindSet : m # k => batches'[m] = batches[m]
  BY <1>1, <1>3 DEF IInv, TypeOK
<1>7. /\ batches'[k] \in Seq(Seq(Ladders)) /\ Len(batches'[k]) = Len(batches[k])
      /\ batches'[k] # <<>>
      /\ batches'[k][1] = Tail(f)
      /\ \A i \in 1..Len(batches[k]) : i > 1 => batches'[k][i] = batches[k][i]
  BY <1>2, <1>5, <1>6
<1>8. l \in OfKind(k) /\ l \in Ladders /\ OfKind(KindOf[l]) = OfKind(k) /\ KindOf[l] = k
  BY <1>4, <1>5 DEF OfKind
<1>9. \A m \in OfKind(k) : ahead[m] = IF m \in Rest(f) THEN 0 ELSE 1
  BY <1>1, <1>2 DEF IInv, Whole
<1>10. OfKind(k) \subseteq Ladders /\ ahead \in [Ladders -> Nat]
  BY DEF OfKind, IInv, TypeOK
<1> DEFINE more == [ahead EXCEPT ![l] = @ + 1]
<1>11. /\ more \in [Ladders -> Nat]
       /\ \A m \in OfKind(k) : more[m] = IF m \in Rest(Tail(f)) THEN 0 ELSE 1
       /\ \A m \in Ladders : m # l => more[m] = ahead[m]
  BY <1>5, <1>8, <1>9, <1>10
<1>12. ahead' = [m \in Ladders |->
                   IF m \in OfKind(k) /\ \A n \in OfKind(k) : more[n] > 0
                   THEN more[m] - 1 ELSE more[m]]
  BY <1>3, <1>8 DEF Counted
<1> HIDE DEF more, l, f
<1>13. ahead' \in [Ladders -> Nat]
  <2>1. ASSUME NEW m \in Ladders, \A n \in OfKind(k) : more[n] > 0, m \in OfKind(k)
        PROVE  more[m] - 1 \in Nat
    BY <1>11, <2>1
  <2> QED
    BY <1>11, <1>12, <2>1
<1>14. TypeOK'
  <2>1. batches' \in [KindSet -> Seq(Seq(Ladders))]
    BY <1>1, <1>6, <1>7, <1>3 DEF IInv, TypeOK
  <2>2. \A m \in KindSet : Len(batches'[m]) <= 2
    BY <1>6, <1>7 DEF IInv, TypeOK
  <2> QED
    BY <1>3, <1>8, <1>13, <2>1, <2>2 DEF IInv, TypeOK, Yield, Go
<1>15. Whole(k)'
  <2>1. ASSUME NEW i \in 1..Len(batches'[k]) PROVE Distinct(batches'[k][i])
    <3>1. CASE i = 1
      BY <1>5, <1>7, <3>1
    <3>2. CASE i # 1
      <4>1. i \in 1..Len(batches[k]) /\ batches'[k][i] = batches[k][i]
        BY <1>7, <3>2
      <4> QED
        BY <4>1 DEF IInv, Whole
    <3> QED
      BY <3>1, <3>2
  <2>2. ASSUME NEW i \in 1..Len(batches'[k]), i > 1 PROVE Rest(batches'[k][i]) = OfKind(k)
    <3>1. i \in 1..Len(batches[k]) /\ batches'[k][i] = batches[k][i]
      BY <1>7, <2>2
    <3> QED
      BY <2>2, <3>1 DEF IInv, Whole
  <2>3. Rest(batches'[k][1]) \subseteq OfKind(k)
    BY <1>4, <1>5, <1>7
  <2>4. ASSUME NEW m \in OfKind(k)
        PROVE  ahead'[m] = IF Tail(f) # <<>> /\ m \notin Rest(Tail(f)) THEN 1 ELSE 0
    <3>1. CASE Tail(f) = <<>>
      <4>1. Rest(Tail(f)) = {}
        BY <3>1 DEF Rest
      <4>2. \A n \in OfKind(k) : more[n] = 1
        BY <1>11, <4>1
      <4> QED
        BY <1>10, <1>12, <3>1, <4>2
    <3>2. CASE Tail(f) # <<>>
      <4>1. Tail(f)[1] \in Rest(Tail(f))
        BY <1>5, <3>2, LenNotZero DEF Rest
      <4>2. \E n \in OfKind(k) : more[n] = 0
        BY <1>4, <1>5, <1>11, <4>1
      <4>3. ahead'[m] = more[m]
        BY <1>10, <1>12, <4>2
      <4> QED
        BY <1>11, <3>2, <4>3
    <3> QED
      BY <3>1, <3>2
  <2> QED
    BY <1>7, <2>1, <2>2, <2>3, <2>4 DEF Whole, OfKind
<1>16. ASSUME NEW m \in KindSet, m # k PROVE Whole(m)'
  <2>1. batches'[m] = batches[m]
    BY <1>6, <1>16
  <2>2. \A n \in OfKind(m) : n \in Ladders /\ n \notin OfKind(k) /\ n # l
    BY <1>8, <1>16 DEF OfKind
  <2>3. \A n \in OfKind(m) : ahead'[n] = ahead[n]
    BY <1>11, <1>12, <2>2
  <2> QED
    BY <2>1, <2>3 DEF IInv, Whole, OfKind
<1>17. OnlyExhaustedDropped'
  BY DEF Yield, Go, OnlyExhaustedDropped
<1> QED
  BY <1>14, <1>15, <1>16, <1>17 DEF IInv, Room, Yield, Go

\* An exhausted batch is dropped: the next one is whole, and all are even.
LEMMA DropBatchKeeps ==
  ASSUME IInv, DropBatch
  PROVE  IInv'
<1>1. PICK k \in KindSet : k = Kinds[turn]
  BY KindIsKind DEF IInv
<1>2. /\ batches[k] \in Seq(Seq(Ladders)) /\ Len(batches[k]) <= 2
      /\ batches[k] # <<>> /\ Head(batches[k]) = <<>>
      /\ batches' = [batches EXCEPT ![k] = Tail(batches[k])]
      /\ UNCHANGED ahead
  BY <1>1 DEF IInv, TypeOK, OnlyExhaustedDropped, DropBatch, Queue
<1>3. /\ batches'[k] = Tail(batches[k])
      /\ \A m \in KindSet : m # k => batches'[m] = batches[m]
  BY <1>1, <1>2 DEF IInv, TypeOK
<1>4. /\ batches[k][1] = <<>>
      /\ Tail(batches[k]) \in Seq(Seq(Ladders))
      /\ Len(batches[k]) \in Nat
      /\ Len(Tail(batches[k])) = Len(batches[k]) - 1
      /\ \A i \in 1..Len(Tail(batches[k])) : Tail(batches[k])[i] = batches[k][i + 1]
  BY <1>2
<1>5. turn' \in 1..Len(Kinds) /\ pc' \in {"look", "any"}
  BY NextTurnType DEF DropBatch, IInv
<1>6. TypeOK'
  <2>1. batches' \in [KindSet -> Seq(Seq(Ladders))]
    BY <1>1, <1>2, <1>4 DEF IInv, TypeOK
  <2>2. \A m \in KindSet : Len(batches'[m]) <= 2
    BY <1>2, <1>3, <1>4 DEF IInv, TypeOK
  <2> QED
    BY <1>5, <2>1, <2>2 DEF IInv, TypeOK, DropBatch
<1>7. Whole(k)'
  <2>1. \A m \in OfKind(k) : ahead'[m] = 0
    BY <1>1, <1>2, <1>4 DEF IInv, Whole
  <2>2. ASSUME NEW i \in 1..Len(batches'[k])
        PROVE  Distinct(batches'[k][i]) /\ Rest(batches'[k][i]) = OfKind(k)
    <3>1. i + 1 \in 1..Len(batches[k]) /\ i + 1 > 1 /\ batches'[k][i] = batches[k][i + 1]
      BY <1>3, <1>4
    <3> QED
      BY <1>1, <3>1 DEF IInv, Whole
  <2>3. batches'[k] # <<>> => 1 \in 1..Len(batches'[k])
    BY <1>3, <1>4
  <2> QED
    BY <2>1, <2>2, <2>3 DEF Whole, OfKind
<1>8. ASSUME NEW m \in KindSet PROVE Whole(m)'
  <2>1. CASE m = k
    BY <1>7, <2>1
  <2>2. CASE m # k
    <3>1. batches'[m] = batches[m] /\ UNCHANGED ahead
      BY <1>2, <1>3, <2>2
    <3> QED
      BY <3>1 DEF IInv, Whole, OfKind
  <2> QED
    BY <2>1, <2>2
<1>9. OnlyExhaustedDropped'
  BY <1>5 DEF OnlyExhaustedDropped
<1> QED
  BY <1>5, <1>6, <1>8, <1>9 DEF IInv, Room

\* The other steps leave the batches alone.
LEMMA OthersKeep ==
  ASSUME IInv, [Pop \/ Stop \/ AnyQueue \/ SkipQueue \/ FindExhausted \/ Outer \/ CheckStop
                \/ Fetch \/ Raise \/ Push \/ Wait]_vars
  PROVE  IInv'
<1> USE FetchQueueAssumption
<1>1. UNCHANGED <<batches, ahead>>
  BY DEF Pop, Stop, AnyQueue, SkipQueue, FindExhausted, Outer, CheckStop, Fetch, Raise, Push,
         Wait, vars
<1>2. \A k \in KindSet : Whole(k)'
  BY <1>1 DEF IInv, Whole, OfKind
<1>3. CASE Pop \/ Stop \/ UNCHANGED vars
  <2>1. TypeOK'
    <3>1. queued \in 0..MaxQueued /\ stopped \in BOOLEAN
      BY DEF IInv, TypeOK
    <3>2. queued' \in 0..MaxQueued /\ stopped' \in BOOLEAN
      <4>1. CASE Pop
        BY <3>1, <4>1 DEF Pop
      <4>2. CASE Stop
        BY <3>1, <4>2 DEF Stop
      <4> QED
        BY <1>3, <3>1, <4>1, <4>2 DEF vars
    <3>3. UNCHANGED <<batches, pc, turn, ladder, answer, delay, left, ahead>>
      BY <1>3 DEF Pop, Stop, vars
    <3> QED
      BY <3>2, <3>3 DEF IInv, TypeOK
  <2>2. OnlyExhaustedDropped'
    BY <1>3 DEF Pop, Stop, vars, IInv, OnlyExhaustedDropped, Queue
  <2>3. Room'
    <3>1. queued \in Nat /\ pc' = pc /\ (queued' = queued \/ queued' = queued - 1)
      BY <1>3 DEF Pop, Stop, vars, IInv, TypeOK
    <3> QED
      BY <3>1 DEF IInv, Room
  <2> QED
    BY <1>2, <2>1, <2>2, <2>3 DEF IInv
<1>4. CASE AnyQueue \/ FindExhausted \/ Outer \/ CheckStop \/ Fetch \/ Raise
  <2>1. TypeOK'
    BY <1>4 DEF AnyQueue, FindExhausted, Outer, CheckStop, Fetch, Raise, Go, IInv, TypeOK
  <2>2. OnlyExhaustedDropped'
    BY <1>4 DEF AnyQueue, FindExhausted, Outer, CheckStop, Fetch, Raise, Go,
                OnlyExhaustedDropped, Queue
  <2>3. Room'
    BY <1>4 DEF AnyQueue, FindExhausted, Outer, CheckStop, Fetch, Raise, Go, IInv, Room
  <2> QED
    BY <1>2, <2>1, <2>2, <2>3 DEF IInv
<1>5. CASE SkipQueue
  <2>1. turn' \in 1..Len(Kinds) /\ pc' \in {"look", "any"}
    BY <1>5, NextTurnType DEF SkipQueue, IInv
  <2>2. TypeOK'
    BY <1>5, <2>1 DEF SkipQueue, IInv, TypeOK
  <2> QED
    BY <1>2, <2>1, <2>2 DEF IInv, Room, OnlyExhaustedDropped
<1>6. CASE Push
  <2>1. turn' \in 1..Len(Kinds) /\ pc' \in {"waiting", "look", "any"}
    BY <1>6, NextTurnType DEF Push, Go, IInv, TypeOK
  <2>2. queued' \in 0..MaxQueued
    BY <1>6 DEF Push, IInv, TypeOK, Room
  <2>3. delay' \in Delays /\ left' \in 0..DelayMax
    BY <1>6 DEF Push, Smaller, Delays, IInv, TypeOK
  <2>4. TypeOK'
    BY <1>6, <2>1, <2>2, <2>3 DEF Push, Answers, IInv, TypeOK
  <2> QED
    BY <1>2, <2>1, <2>4 DEF IInv, Room, OnlyExhaustedDropped
<1>7. CASE Wait
  <2>1. turn' \in 1..Len(Kinds) /\ pc' \in {"waiting", "look", "any", "ended"}
        /\ left' \in 0..DelayMax
    <3>1. left \in 0..DelayMax /\ stopped \in BOOLEAN /\ TypeOK
      BY DEF IInv, TypeOK
    <3>2. CASE left = 0
      BY <1>7, <3>1, <3>2, NextTurnType DEF Wait
    <3>3. CASE left > 0 /\ stopped
      BY <1>7, <3>1, <3>3 DEF Wait, Go, TypeOK
    <3>4. CASE left > 0 /\ ~stopped
      BY <1>7, <3>1, <3>4 DEF Wait, Go, TypeOK
    <3> QED
      BY <3>1, <3>2, <3>3, <3>4
  <2>2. TypeOK'
    BY <1>7, <2>1 DEF Wait, IInv, TypeOK
  <2> QED
    BY <1>2, <2>1, <2>2 DEF IInv, Room, OnlyExhaustedDropped
<1> QED
  BY <1>3, <1>4, <1>5, <1>6, <1>7

LEMMA NextIInv == IInv /\ [Next]_vars => IInv'
BY AddKeeps, YieldKeeps, DropBatchKeeps, OthersKeep DEF Next, Thread

LEMMA IInvHolds == Spec => []IInv
BY InitIInv, NextIInv, PTL DEF Spec

LEMMA IInvIsEven == IInv => EvenlyFetched
<1> SUFFICES ASSUME IInv, NEW l \in Ladders PROVE ahead[l] <= 1
  BY DEF EvenlyFetched
<1>1. KindOf[l] \in KindSet /\ l \in OfKind(KindOf[l])
  BY FetchQueueAssumption DEF OfKind
<1> QED
  BY <1>1 DEF IInv, Whole

\* Every variable keeps its type; no queue of a thread ever has more than two batches
\* (FetcherThread.add).
THEOREM TypeCorrect == Spec => []TypeOK
BY IInvHolds, PTL DEF IInv

\* The batch that interleave drops is an exhausted one, whatever the main thread adds.
THEOREM OnlyExhaustedDroppedHolds == Spec => []OnlyExhaustedDropped
BY IInvHolds, PTL DEF IInv

\* Ladders of a kind are fetched in turn: none is more than one turn ahead of another,
\* for any number of ladders and in whatever order batches hold them.
THEOREM EvenlyFetchedHolds == Spec => []EvenlyFetched
BY IInvHolds, IInvIsEven, PTL

=============================================================================
