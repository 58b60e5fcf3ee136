-------------------------- MODULE InvokeLaterProofs --------------------------
(***************************************************************************)
(* GlassEventLoop implements InvokeLaterQueue: whatever the dispatcher     *)
(* puts back, whichever nested loop serves the native queue, and however   *)
(* many other threads call invokeAndWait, what is posted with invokeLater  *)
(* starts exactly once and in the order of the calls.                      *)
(***************************************************************************)
EXTENDS GlassEventLoopProofs, Integers, SequenceTheorems

-----------------------------------------------------------------------------
(* The order of what is on its way *)

InHand == pc \in {"check", "submit"}

\* How many of the posted runnables have been given to the native system.
Submitted == Len(posted) - Len(deque) - (IF InHand THEN 1 ELSE 0)

\* The runnables that have started, those in the native queue, the one in the
\* dispatcher's hand and the deque are, in this order, what was posted.
HistoryInv ==
    /\ \A i, j \in 1 .. Len(posted) : posted[i] = posted[j] => i = j
    /\ Len(ran) <= Submitted
    /\ \A i \in 1 .. Len(ran) : ran[i] = posted[i]

DequeInv ==
    /\ \A i \in 1 .. Len(deque) : deque[i] = posted[Len(posted) - Len(deque) + i]
    /\ InHand => r = posted[Submitted + 1]

IdleInv ==
    /\ \A i \in 1 .. Len(idle) :
          idle[i] \in Posted => \E k \in Len(ran) + 1 .. Submitted : idle[i] = posted[k]
    /\ \A k \in Len(ran) + 1 .. Submitted : \E i \in 1 .. Len(idle) : idle[i] = posted[k]
    /\ \A i, j \in 1 .. Len(idle), k, m \in 1 .. Len(posted) :
          i < j /\ idle[i] = posted[k] /\ idle[j] = posted[m] => k < m

OrderInv == HistoryInv /\ DequeInv /\ IdleInv

LEMMA Lengths ==
    ASSUME TypeOK
    PROVE  /\ Len(posted) \in Nat /\ Len(deque) \in Nat /\ Len(idle) \in Nat /\ Len(ran) \in Nat
           /\ Submitted \in Int
  <1>1. Len(posted) \in Nat /\ Len(deque) \in Nat /\ Len(idle) \in Nat /\ Len(ran) \in Nat
    BY DEF TypeOK
  <1> QED BY <1>1 DEF Submitted

\* The steps that touch none of it.
LEMMA OrderFrame ==
    ASSUME OrderInv, UNCHANGED <<posted, ran, deque, idle, pc, r>>
    PROVE  OrderInv'
  BY DEF OrderInv, HistoryInv, DequeInv, IdleInv, Submitted, InHand

\* The dispatcher takes from the deque and puts back.
LEMMA SameSubmitted ==
    ASSUME HistoryInv, IdleInv, UNCHANGED <<posted, ran, idle>>, Submitted' = Submitted
    PROVE  HistoryInv' /\ IdleInv'
  <1>1. posted' = posted /\ ran' = ran /\ idle' = idle
    OBVIOUS
  <1>2. HistoryInv'
    BY <1>1 DEF HistoryInv
  <1>3. IdleInv'
    BY <1>1 DEF IdleInv
  <1> QED BY <1>2, <1>3

LEMMA DispatcherOrder == ASSUME IInv, OrderInv, Dispatcher PROVE OrderInv'
  <1>0. /\ Len(posted) \in Nat /\ Len(deque) \in Nat /\ Len(idle) \in Nat /\ Len(ran) \in Nat
        /\ Submitted \in Int /\ TypeOK
    BY Lengths DEF IInv
  <1>1. CASE TakeFirst
    <2>1. /\ ~InHand /\ InHand' /\ deque # << >> /\ r' = Head(deque) /\ deque' = Tail(deque)
          /\ UNCHANGED <<posted, ran, idle>>
      BY <1>1 DEF TakeFirst, InHand
    <2>2. /\ Len(deque') = Len(deque) - 1 /\ r' = deque[1] /\ Len(deque) > 0
          /\ \A i \in 1 .. Len(deque) - 1 : deque'[i] = deque[i + 1]
      BY <1>0, <2>1, TailFacts DEF TypeOK
    <2>3. Submitted' = Submitted /\ Submitted = Len(posted) - Len(deque)
      BY <1>0, <2>1, <2>2 DEF Submitted
    <2>4. DequeInv'
      <3>1. r' = posted[Submitted + 1]
        BY <1>0, <2>2, <2>3 DEF OrderInv, DequeInv
      <3>2. \A i \in 1 .. Len(deque') : deque'[i] = posted[Len(posted) - Len(deque') + i]
        <4> SUFFICES ASSUME NEW i \in 1 .. Len(deque')
                     PROVE  deque'[i] = posted[Len(posted) - Len(deque') + i]
          OBVIOUS
        <4>1. i + 1 \in 1 .. Len(deque) /\ deque'[i] = deque[i + 1]
          BY <1>0, <2>2
        <4>2. Len(posted) - Len(deque) + (i + 1) = Len(posted) - Len(deque') + i
          BY <1>0, <2>2
        <4> QED BY <4>1, <4>2 DEF OrderInv, DequeInv
      <3> QED BY <2>1, <2>3, <3>1, <3>2 DEF DequeInv
    <2> QED BY <2>1, <2>3, <2>4, SameSubmitted DEF OrderInv
  <1>2. CASE PutBack
    <2>1. /\ InHand /\ ~InHand' /\ deque' = <<r>> \o deque /\ r \in Posted
          /\ UNCHANGED <<posted, ran, idle>>
      BY <1>0, <1>2 DEF PutBack, InHand, AddFirst, TypeOK
    <2>2. /\ Len(deque') = Len(deque) + 1 /\ deque'[1] = r
          /\ \A i \in 1 .. Len(deque) : deque'[i + 1] = deque[i]
      BY <1>0, <2>1, ConsFacts DEF TypeOK
    <2>3. Submitted' = Submitted /\ Submitted + 1 = Len(posted) - Len(deque)
      BY <1>0, <2>1, <2>2 DEF Submitted
    <2>4. DequeInv'
      <3>1. \A i \in 1 .. Len(deque') : deque'[i] = posted[Len(posted) - Len(deque') + i]
        <4> SUFFICES ASSUME NEW i \in 1 .. Len(deque')
                     PROVE  deque'[i] = posted[Len(posted) - Len(deque') + i]
          OBVIOUS
        <4>1. CASE i = 1
          <5>1. Len(posted) - Len(deque') + i = Submitted + 1
            BY <1>0, <2>2, <2>3, <4>1
          <5> QED BY <2>1, <2>2, <4>1, <5>1 DEF OrderInv, DequeInv
        <4>2. CASE i # 1
          <5>1. i - 1 \in 1 .. Len(deque) /\ deque'[i] = deque[i - 1]
            BY <1>0, <2>2, <4>2
          <5>2. Len(posted) - Len(deque) + (i - 1) = Len(posted) - Len(deque') + i
            BY <1>0, <2>2
          <5> QED BY <5>1, <5>2 DEF OrderInv, DequeInv
        <4> QED BY <4>1, <4>2
      <3> QED BY <2>1, <3>1 DEF DequeInv
    <2> QED BY <2>1, <2>3, <2>4, SameSubmitted DEF OrderInv
  <1>3. CASE MayPass \/ Awaited \/ WaitedLeft
    <2>1. /\ UNCHANGED <<posted, ran, idle, deque>> /\ (InHand' <=> InHand)
          /\ InHand => r' = r
      BY <1>3 DEF MayPass, Awaited, WaitedLeft, InHand
    <2>2. Submitted' = Submitted
      BY <2>1 DEF Submitted
    <2>3. DequeInv'
      BY <2>1, <2>2 DEF OrderInv, DequeInv
    <2> QED BY <2>1, <2>2, <2>3, SameSubmitted DEF OrderInv
  <1>4. CASE Submit
    <2>1. /\ InHand /\ ~InHand' /\ idle' = Append(idle, r) /\ r \in Futures
          /\ UNCHANGED <<posted, ran, deque>>
      BY <1>0, <1>4 DEF Submit, InHand, TypeOK, Futures
    <2>2. /\ Len(idle') = Len(idle) + 1 /\ idle'[Len(idle) + 1] = r
          /\ \A i \in 1 .. Len(idle) : idle'[i] = idle[i]
      BY <1>0, <2>1, AppendFacts DEF TypeOK
    <2>3. /\ Submitted' = Submitted + 1 /\ Submitted + 1 = Len(posted) - Len(deque)
          /\ Len(ran) <= Submitted /\ Submitted + 1 \in 1 .. Len(posted)
          /\ r = posted[Submitted + 1]
      BY <1>0, <2>1 DEF Submitted, OrderInv, HistoryInv, DequeInv
    <2>4. HistoryInv'
      BY <1>0, <2>1, <2>3 DEF OrderInv, HistoryInv
    <2>5. DequeInv'
      BY <2>1 DEF OrderInv, DequeInv
    <2>6. \A i \in 1 .. Len(idle') :
             idle'[i] \in Posted => \E k \in Len(ran) + 1 .. Submitted' : idle'[i] = posted[k]
      <3> SUFFICES ASSUME NEW i \in 1 .. Len(idle'), idle'[i] \in Posted
                   PROVE  \E k \in Len(ran) + 1 .. Submitted' : idle'[i] = posted[k]
        OBVIOUS
      <3>1. CASE i = Len(idle) + 1
        BY <1>0, <2>2, <2>3, <3>1
      <3>2. CASE i \in 1 .. Len(idle)
        <4>1. idle'[i] = idle[i]
          BY <2>2, <3>2
        <4>2. PICK k \in Len(ran) + 1 .. Submitted : idle[i] = posted[k]
          BY <3>2, <4>1 DEF OrderInv, IdleInv
        <4>3. k \in Len(ran) + 1 .. Submitted'
          BY <1>0, <2>3
        <4> QED BY <4>1, <4>2, <4>3
      <3>3. i = Len(idle) + 1 \/ i \in 1 .. Len(idle)
        BY <1>0, <2>2
      <3> QED BY <3>1, <3>2, <3>3
    <2>7. \A k \in Len(ran) + 1 .. Submitted' : \E i \in 1 .. Len(idle') : idle'[i] = posted[k]
      <3> SUFFICES ASSUME NEW k \in Len(ran) + 1 .. Submitted'
                   PROVE  \E i \in 1 .. Len(idle') : idle'[i] = posted[k]
        OBVIOUS
      <3>1. CASE k = Submitted + 1
        BY <1>0, <2>2, <2>3, <3>1
      <3>2. CASE k \in Len(ran) + 1 .. Submitted
        BY <1>0, <2>2, <3>2 DEF OrderInv, IdleInv
      <3> QED BY <1>0, <2>3, <3>1, <3>2
    <2>8. \A i, j \in 1 .. Len(idle'), k, m \in 1 .. Len(posted) :
             i < j /\ idle'[i] = posted[k] /\ idle'[j] = posted[m] => k < m
      <3> SUFFICES ASSUME NEW i \in 1 .. Len(idle'), NEW j \in 1 .. Len(idle'),
                          NEW k \in 1 .. Len(posted), NEW m \in 1 .. Len(posted),
                          i < j, idle'[i] = posted[k], idle'[j] = posted[m]
                   PROVE  k < m
        OBVIOUS
      <3>1. i \in 1 .. Len(idle) /\ idle[i] = posted[k] /\ posted[k] \in Posted
        BY <1>0, <2>2 DEF TypeOK
      <3>2. CASE j \in 1 .. Len(idle)
        BY <2>2, <3>1, <3>2 DEF OrderInv, IdleInv
      <3>3. CASE j = Len(idle) + 1
        <4>1. m = Submitted + 1
          BY <2>2, <2>3, <3>3 DEF OrderInv, HistoryInv
        <4>2. PICK n \in Len(ran) + 1 .. Submitted : idle[i] = posted[n]
          BY <3>1 DEF OrderInv, IdleInv
        <4>3. n \in 1 .. Len(posted) /\ n < Submitted + 1
          <5>1. /\ n \in Int /\ Len(ran) + 1 <= n /\ n <= Submitted
                /\ Submitted + 1 <= Len(posted)
            BY <1>0, <2>3
          <5> QED BY <1>0, <5>1
        <4>4. n = k
          BY <3>1, <4>2, <4>3 DEF OrderInv, HistoryInv
        <4> QED BY <4>1, <4>3, <4>4
      <3>4. j \in 1 .. Len(idle) \/ j = Len(idle) + 1
        BY <1>0, <2>2
      <3> QED BY <3>2, <3>3, <3>4
    <2>9. IdleInv'
      <3>1. posted' = posted /\ ran' = ran
        BY <2>1
      <3> QED BY <3>1, <2>6, <2>7, <2>8 DEF IdleInv
    <2> QED BY <2>4, <2>5, <2>9 DEF OrderInv
  <1> QED BY <1>1, <1>2, <1>3, <1>4 DEF Dispatcher

\* Something new is posted.
LEMMA PostOrder ==
    ASSUME IInv, OrderInv, NEW t \in Posted, t \notin Elements(posted),
           deque' = Append(deque, t), posted' = Append(posted, t), UNCHANGED <<pc, r, idle, ran>>
    PROVE  OrderInv'
  <1>0. /\ Len(posted) \in Nat /\ Len(deque) \in Nat /\ Len(idle) \in Nat /\ Len(ran) \in Nat
        /\ Submitted \in Int /\ TypeOK
    BY Lengths DEF IInv
  <1>1. /\ Len(posted') = Len(posted) + 1 /\ posted'[Len(posted) + 1] = t
        /\ \A i \in 1 .. Len(posted) : posted'[i] = posted[i] /\ posted[i] # t
    BY <1>0, AppendFacts DEF TypeOK, Elements
  <1>2. /\ Len(deque') = Len(deque) + 1 /\ deque'[Len(deque) + 1] = t
        /\ \A i \in 1 .. Len(deque) : deque'[i] = deque[i]
    BY <1>0, AppendFacts DEF TypeOK
  <1>3. /\ (InHand' <=> InHand) /\ Submitted' = Submitted
        /\ Submitted + (IF InHand THEN 1 ELSE 0) = Len(posted) - Len(deque)
    BY <1>0, <1>1, <1>2 DEF InHand, Submitted
  <1>4. Submitted \in 0 .. Len(posted) /\ Len(ran) <= Submitted
    BY <1>0 DEF OrderInv, HistoryInv, Submitted
  <1>5. \A i, j \in 1 .. Len(posted') : posted'[i] = posted'[j] => i = j
    <2>1. \A i \in 1 .. Len(posted') : i \in 1 .. Len(posted) \/ i = Len(posted) + 1
      BY <1>0, <1>1
    <2> QED BY <1>1, <2>1 DEF OrderInv, HistoryInv
  <1>6. HistoryInv'
    <2>1. \A i \in 1 .. Len(ran) : ran[i] = posted'[i]
      BY <1>0, <1>1, <1>4 DEF OrderInv, HistoryInv
    <2> QED BY <1>3, <1>4, <1>5, <2>1 DEF HistoryInv
  <1>7. DequeInv'
    <2>1. ASSUME NEW i \in 1 .. Len(deque')
          PROVE  deque'[i] = posted'[Len(posted') - Len(deque') + i]
      <3>1. CASE i = Len(deque) + 1
        BY <1>0, <1>1, <1>2, <3>1
      <3>2. CASE i \in 1 .. Len(deque)
        <4>1. /\ Len(posted') - Len(deque') + i = Len(posted) - Len(deque) + i
              /\ Len(posted) - Len(deque) + i \in 1 .. Len(posted)
          BY <1>0, <1>1, <1>2, <1>3, <1>4, <3>2
        <4>2. deque[i] = posted[Len(posted) - Len(deque) + i]
          BY <3>2 DEF OrderInv, DequeInv
        <4> QED BY <1>1, <1>2, <3>2, <4>1, <4>2
      <3>3. i = Len(deque) + 1 \/ i \in 1 .. Len(deque)
        BY <1>0, <1>2
      <3> QED BY <3>1, <3>2, <3>3
    <2>2. ASSUME InHand PROVE r = posted'[Submitted + 1]
      <3>1. Submitted + 1 \in 1 .. Len(posted) /\ r = posted[Submitted + 1]
        BY <1>0, <1>3, <1>4, <2>2 DEF OrderInv, DequeInv
      <3> QED BY <1>1, <3>1
    <2> QED BY <1>3, <2>1, <2>2 DEF DequeInv
  <1>8. IdleInv'
    <2>1. \A i \in 1 .. Len(idle) :
             idle[i] \in Posted => \E k \in Len(ran) + 1 .. Submitted : idle[i] = posted'[k]
      BY <1>0, <1>1, <1>4 DEF OrderInv, IdleInv
    <2>2. \A k \in Len(ran) + 1 .. Submitted : \E i \in 1 .. Len(idle) : idle[i] = posted'[k]
      BY <1>0, <1>1, <1>4 DEF OrderInv, IdleInv
    <2>3. ASSUME NEW i \in 1 .. Len(idle), NEW k \in 1 .. Len(posted'), idle[i] = posted'[k]
          PROVE  k \in 1 .. Len(posted) /\ idle[i] = posted[k]
      <3>1. idle[i] \in Posted
        BY <1>0, <1>1, <2>3 DEF TypeOK
      <3>2. PICK n \in Len(ran) + 1 .. Submitted : idle[i] = posted[n]
        BY <3>1 DEF OrderInv, IdleInv
      <3>3. n \in 1 .. Len(posted) /\ n \in 1 .. Len(posted') /\ posted'[n] = posted[n]
        BY <1>0, <1>1, <1>4, <3>2
      <3>4. k = n
        BY <1>5, <2>3, <3>2, <3>3
      <3> QED BY <3>2, <3>3, <3>4
    <2>4. \A i, j \in 1 .. Len(idle), k, m \in 1 .. Len(posted') :
             i < j /\ idle[i] = posted'[k] /\ idle[j] = posted'[m] => k < m
      BY <2>3 DEF OrderInv, IdleInv
    <2>5. idle' = idle /\ ran' = ran /\ Submitted' = Submitted
      BY <1>3
    <2>6. \A i, j \in 1 .. Len(idle'), k, m \in 1 .. Len(posted') :
             i < j /\ idle'[i] = posted'[k] /\ idle'[j] = posted'[m] => k < m
      BY <2>4, <2>5
    <2>7. \A i \in 1 .. Len(idle') :
             idle'[i] \in Posted => \E k \in Len(ran') + 1 .. Submitted' : idle'[i] = posted'[k]
      <3> SUFFICES ASSUME NEW i \in 1 .. Len(idle'), idle'[i] \in Posted
                   PROVE  \E k \in Len(ran') + 1 .. Submitted' : idle'[i] = posted'[k]
        OBVIOUS
      <3>1. i \in 1 .. Len(idle) /\ idle[i] \in Posted
        BY <2>5
      <3>2. PICK k \in Len(ran) + 1 .. Submitted : idle[i] = posted'[k]
        BY <2>1, <3>1
      <3> QED BY <2>5, <3>2
    <2>8. \A k \in Len(ran') + 1 .. Submitted' : \E i \in 1 .. Len(idle') : idle'[i] = posted'[k]
      BY <2>2, <2>5
    <2> QED BY <2>6, <2>7, <2>8, Zenon DEF IdleInv
  <1> QED BY <1>6, <1>7, <1>8 DEF OrderInv

\* The oldest posted runnable in the native queue is the next one of the history.
LEMMA OldestIdle ==
    ASSUME IInv, OrderInv, idle # << >>, Head(idle) \in Posted
    PROVE  Len(ran) + 1 <= Submitted /\ Head(idle) = posted[Len(ran) + 1]
  <1>0. /\ Len(posted) \in Nat /\ Len(deque) \in Nat /\ Len(idle) \in Nat /\ Len(ran) \in Nat
        /\ Submitted \in Int /\ TypeOK
    BY Lengths DEF IInv
  <1>1. Head(idle) = idle[1] /\ 1 \in 1 .. Len(idle)
    BY <1>0 DEF TypeOK
  <1>2. Submitted <= Len(posted)
    BY <1>0 DEF Submitted
  <1>3. PICK k \in Len(ran) + 1 .. Submitted : idle[1] = posted[k]
    BY <1>1 DEF OrderInv, IdleInv
  <1>4. Len(ran) + 1 <= Submitted /\ Len(ran) + 1 \in Len(ran) + 1 .. Submitted
    BY <1>0, <1>3
  <1>5. PICK j \in 1 .. Len(idle) : idle[j] = posted[Len(ran) + 1]
    BY <1>4 DEF OrderInv, IdleInv
  <1>6. k \in 1 .. Len(posted) /\ Len(ran) + 1 \in 1 .. Len(posted) /\ ~(k < Len(ran) + 1)
    BY <1>0, <1>2, <1>3, <1>4
  <1>7. ~(1 < j)
    BY <1>1, <1>3, <1>5, <1>6 DEF OrderInv, IdleInv
  <1>8. j = 1
    BY <1>0, <1>7
  <1> QED BY <1>1, <1>4, <1>5, <1>8

\* The event thread runs the oldest idle source.
LEMMA RunIdleOrder == ASSUME IInv, OrderInv, RunIdle PROVE OrderInv'
  <1>0. /\ Len(posted) \in Nat /\ Len(deque) \in Nat /\ Len(idle) \in Nat /\ Len(ran) \in Nat
        /\ Submitted \in Int /\ TypeOK
    BY Lengths DEF IInv
  <1>1. /\ idle # << >> /\ idle' = Tail(idle)
        /\ ran' = IF Head(idle) \in Posted THEN Append(ran, Head(idle)) ELSE ran
        /\ UNCHANGED <<posted, deque, pc, r>>
    BY DEF RunIdle, dispatcherVars
  <1>2. /\ Len(idle') = Len(idle) - 1 /\ Head(idle) = idle[1] /\ Len(idle) > 0
        /\ \A i \in 1 .. Len(idle) - 1 : idle'[i] = idle[i + 1]
    BY <1>0, <1>1, TailFacts DEF TypeOK
  <1>3. \A i \in 1 .. Len(idle') : i + 1 \in 1 .. Len(idle) /\ idle'[i] = idle[i + 1]
    BY <1>0, <1>2
  <1>4. Submitted' = Submitted /\ Submitted <= Len(posted)
    BY <1>0, <1>1 DEF Submitted, InHand
  <1>5. DequeInv'
    BY <1>1, <1>4 DEF OrderInv, DequeInv, InHand
  \* The order of what stays in the queue.
  <1>6. \A i, j \in 1 .. Len(idle'), k, m \in 1 .. Len(posted') :
           i < j /\ idle'[i] = posted'[k] /\ idle'[j] = posted'[m] => k < m
    <2> SUFFICES ASSUME NEW i \in 1 .. Len(idle'), NEW j \in 1 .. Len(idle'),
                        NEW k \in 1 .. Len(posted'), NEW m \in 1 .. Len(posted'),
                        i < j, idle'[i] = posted'[k], idle'[j] = posted'[m]
                 PROVE  k < m
      OBVIOUS
    <2>1. i + 1 < j + 1 /\ i + 1 \in 1 .. Len(idle) /\ j + 1 \in 1 .. Len(idle)
      BY <1>3
    <2>2. idle[i + 1] = posted[k] /\ idle[j + 1] = posted[m]
      BY <1>1, <1>3
    <2>3. k \in 1 .. Len(posted) /\ m \in 1 .. Len(posted)
      BY <1>1
    <2> QED BY <2>1, <2>2, <2>3 DEF OrderInv, IdleInv
  <1>7. CASE Head(idle) \notin Posted
    <2>1. ran' = ran
      BY <1>1, <1>7
    <2>2. HistoryInv'
      BY <1>1, <1>4, <2>1 DEF OrderInv, HistoryInv
    <2>3. ASSUME NEW i \in 1 .. Len(idle'), idle'[i] \in Posted
          PROVE  \E k \in Len(ran') + 1 .. Submitted' : idle'[i] = posted'[k]
      BY <1>1, <1>3, <1>4, <2>1, <2>3 DEF OrderInv, IdleInv
    <2>4. ASSUME NEW k \in Len(ran') + 1 .. Submitted'
          PROVE  \E i \in 1 .. Len(idle') : idle'[i] = posted'[k]
      <3>1. k \in Len(ran) + 1 .. Submitted
        BY <1>4, <2>1, <2>4
      <3>2. PICK i \in 1 .. Len(idle) : idle[i] = posted[k]
        BY <3>1 DEF OrderInv, IdleInv
      <3>3. k \in 1 .. Len(posted)
        BY <1>0, <1>4, <3>1
      <3>4. posted[k] \in Posted
        BY <1>0, <3>3 DEF TypeOK
      <3>5. i # 1
        BY <1>2, <1>7, <3>2, <3>4
      <3>6. i - 1 \in 1 .. Len(idle') /\ (i - 1) + 1 = i
        BY <1>0, <1>2, <3>5
      <3> QED BY <1>1, <1>3, <3>2, <3>6
    <2>5. IdleInv'
      BY <1>6, <2>3, <2>4, Zenon DEF IdleInv
    <2> QED BY <1>5, <2>2, <2>5 DEF OrderInv
  <1>8. CASE Head(idle) \in Posted
    <2>1. Len(ran) + 1 <= Submitted /\ Head(idle) = posted[Len(ran) + 1]
      BY <1>1, <1>8, OldestIdle
    <2>2. /\ ran' = Append(ran, Head(idle)) /\ Len(ran') = Len(ran) + 1
          /\ ran'[Len(ran) + 1] = Head(idle)
          /\ \A i \in 1 .. Len(ran) : ran'[i] = ran[i]
      BY <1>0, <1>1, <1>8, AppendFacts DEF TypeOK
    <2>3. Len(ran) + 1 \in 1 .. Len(posted)
      BY <1>0, <1>4, <2>1
    <2>4. HistoryInv'
      <3>1. \A i \in 1 .. Len(ran') : ran'[i] = posted[i]
        <4> SUFFICES ASSUME NEW i \in 1 .. Len(ran') PROVE ran'[i] = posted[i]
          OBVIOUS
        <4>1. i \in 1 .. Len(ran) \/ i = Len(ran) + 1
          BY <1>0, <2>2
        <4> QED BY <2>1, <2>2, <4>1 DEF OrderInv, HistoryInv
      <3>2. Len(ran') <= Submitted'
        BY <1>4, <2>1, <2>2
      <3> QED BY <1>1, <3>1, <3>2 DEF OrderInv, HistoryInv
    <2>5. ASSUME NEW i \in 1 .. Len(idle'), idle'[i] \in Posted
          PROVE  \E k \in Len(ran') + 1 .. Submitted' : idle'[i] = posted'[k]
      <3>1. PICK k \in Len(ran) + 1 .. Submitted : idle[i + 1] = posted[k]
        BY <1>3, <2>5 DEF OrderInv, IdleInv
      <3>2. k \in 1 .. Len(posted)
        BY <1>0, <1>4, <3>1
      <3>3. 1 < i + 1 /\ 1 \in 1 .. Len(idle) /\ i + 1 \in 1 .. Len(idle)
        BY <1>0, <1>2, <1>3
      <3>4. Len(ran) + 1 < k
        BY <1>2, <2>1, <2>3, <3>1, <3>2, <3>3 DEF OrderInv, IdleInv
      <3>5. k \in Len(ran') + 1 .. Submitted'
        BY <1>0, <1>4, <2>2, <3>1, <3>4
      <3> QED BY <1>1, <1>3, <3>1, <3>5
    <2>6. ASSUME NEW k \in Len(ran') + 1 .. Submitted'
          PROVE  \E i \in 1 .. Len(idle') : idle'[i] = posted'[k]
      <3>1. k \in Len(ran) + 1 .. Submitted /\ k # Len(ran) + 1 /\ k \in 1 .. Len(posted)
        BY <1>0, <1>4, <2>2
      <3>2. PICK i \in 1 .. Len(idle) : idle[i] = posted[k]
        BY <3>1 DEF OrderInv, IdleInv
      <3>3. posted[k] # posted[Len(ran) + 1]
        BY <2>3, <3>1 DEF OrderInv, HistoryInv
      <3>4. i # 1
        BY <1>2, <2>1, <3>2, <3>3
      <3>5. i - 1 \in 1 .. Len(idle') /\ (i - 1) + 1 = i
        BY <1>0, <1>2, <3>4
      <3> QED BY <1>1, <1>3, <3>2, <3>5
    <2>7. IdleInv'
      BY <1>6, <2>5, <2>6, Zenon DEF IdleInv
    <2> QED BY <1>5, <2>4, <2>7 DEF OrderInv
  <1> QED BY <1>7, <1>8

\* Another thread's invokeAndWait goes past the deque.
LEMMA InvokeAndWaitOrder ==
    ASSUME IInv, OrderInv, NEW c \in Callers, InvokeAndWait(c)
    PROVE  OrderInv'
  <1>0. /\ Len(posted) \in Nat /\ Len(deque) \in Nat /\ Len(idle) \in Nat /\ Len(ran) \in Nat
        /\ Submitted \in Int /\ TypeOK
    BY Lengths DEF IInv
  <1>1. c \in Futures /\ c \notin Posted /\ idle' = Append(idle, c)
        /\ UNCHANGED <<posted, ran, deque, pc, r>>
    BY DisjointAssumption DEF Futures, Posted, InvokeAndWait, dispatcherVars
  <1>2. /\ Len(idle') = Len(idle) + 1 /\ idle'[Len(idle) + 1] = c
        /\ \A i \in 1 .. Len(idle) : idle'[i] = idle[i]
    BY <1>0, <1>1, AppendFacts DEF TypeOK
  <1>3. /\ \A i \in 1 .. Len(idle') : i \in 1 .. Len(idle) \/ i = Len(idle) + 1
        /\ \A i \in 1 .. Len(idle) : i \in 1 .. Len(idle')
    BY <1>0, <1>2
  <1>4. Submitted' = Submitted /\ Submitted <= Len(posted)
    BY <1>0, <1>1 DEF Submitted, InHand
  <1>5. HistoryInv' /\ DequeInv'
    BY <1>1, <1>4 DEF OrderInv, HistoryInv, DequeInv, InHand
  <1>6. ASSUME NEW i \in 1 .. Len(idle'), idle'[i] \in Posted
        PROVE  \E k \in Len(ran') + 1 .. Submitted' : idle'[i] = posted'[k]
    <2>1. i \in 1 .. Len(idle) /\ idle[i] \in Posted /\ idle'[i] = idle[i]
      BY <1>1, <1>2, <1>3, <1>6
    <2>2. PICK k \in Len(ran) + 1 .. Submitted : idle[i] = posted[k]
      BY <2>1 DEF OrderInv, IdleInv
    <2> QED BY <1>1, <1>4, <2>1, <2>2
  <1>7. ASSUME NEW k \in Len(ran') + 1 .. Submitted'
        PROVE  \E i \in 1 .. Len(idle') : idle'[i] = posted'[k]
    <2>1. PICK i \in 1 .. Len(idle) : idle[i] = posted[k]
      BY <1>1, <1>4, <1>7 DEF OrderInv, IdleInv
    <2> QED BY <1>1, <1>2, <1>3, <2>1
  <1>8. ASSUME NEW i \in 1 .. Len(idle'), NEW k \in 1 .. Len(posted'), idle'[i] = posted'[k]
        PROVE  i \in 1 .. Len(idle) /\ idle[i] = posted[k] /\ k \in 1 .. Len(posted)
    <2>1. posted'[k] \in Posted /\ k \in 1 .. Len(posted)
      BY <1>0, <1>1 DEF TypeOK
    <2> QED BY <1>1, <1>2, <1>3, <1>8, <2>1
  <1>9. \A i, j \in 1 .. Len(idle'), k, m \in 1 .. Len(posted') :
           i < j /\ idle'[i] = posted'[k] /\ idle'[j] = posted'[m] => k < m
    <2> SUFFICES ASSUME NEW i \in 1 .. Len(idle'), NEW j \in 1 .. Len(idle'),
                        NEW k \in 1 .. Len(posted'), NEW m \in 1 .. Len(posted'),
                        i < j, idle'[i] = posted'[k], idle'[j] = posted'[m]
                 PROVE  k < m
      OBVIOUS
    <2>1. i \in 1 .. Len(idle) /\ idle[i] = posted[k] /\ k \in 1 .. Len(posted)
      BY <1>8
    <2>2. j \in 1 .. Len(idle) /\ idle[j] = posted[m] /\ m \in 1 .. Len(posted)
      BY <1>8
    <2> QED BY <2>1, <2>2 DEF OrderInv, IdleInv
  <1>10. IdleInv'
    <2>1. \A i \in 1 .. Len(idle') :
             idle'[i] \in Posted => \E k \in Len(ran') + 1 .. Submitted' : idle'[i] = posted'[k]
      BY <1>6
    <2>2. \A k \in Len(ran') + 1 .. Submitted' : \E i \in 1 .. Len(idle') : idle'[i] = posted'[k]
      BY <1>7
    <2> QED BY <1>9, <2>1, <2>2, Zenon DEF IdleInv
  <1> QED BY <1>5, <1>10 DEF OrderInv

LEMMA InitOrder == Init => OrderInv
  <1> SUFFICES ASSUME Init PROVE OrderInv
    OBVIOUS
  <1>1. ~InHand /\ Len(posted) = 0 /\ Len(ran) = 0 /\ Len(deque) = 0 /\ Len(idle) = 0
    BY DEF Init, InHand
  <1>2. Submitted = 0
    <2>1. Submitted = Len(posted) - Len(deque) - 0
      BY <1>1, Zenon DEF Submitted
    <2>2. Len(posted) - Len(deque) - 0 = 0
      BY <1>1
    <2> QED BY <2>1, <2>2
  <1> QED BY <1>1, <1>2 DEF OrderInv, HistoryInv, DequeInv, IdleInv

\* Every step keeps the order.
LEMMA OrderStep == IInv /\ OrderInv /\ [Next]_vars => OrderInv'
  <1> SUFFICES ASSUME IInv, OrderInv, [Next]_vars PROVE OrderInv'
    OBVIOUS
  <1> USE DEF dispatcherVars
  <1>1. CASE UNCHANGED vars
    BY <1>1, OrderFrame DEF vars
  <1>2. CASE Dispatcher
    BY <1>2, DispatcherOrder
  <1>3. ASSUME NEW t \in Runnables, InvokeLater(t) PROVE OrderInv'
    <2>1. t \in Posted /\ t \notin Elements(posted)
      BY <1>3 DEF InvokeLater, Posted
    <2> QED BY <1>3, <2>1, PostOrder DEF InvokeLater
  <1>4. ASSUME NEW c \in Callers, InvokeAndWait(c) PROVE OrderInv'
    BY <1>4, InvokeAndWaitOrder
  <1>5. ASSUME NEW c \in Callers, InvokeAndWaitReturns(c) PROVE OrderInv'
    BY <1>5, OrderFrame DEF InvokeAndWaitReturns
  <1>6. CASE RunIdle
    BY <1>6, RunIdleOrder
  <1>7. ASSUME NEW e \in Events, NativeEvent(e) PROVE OrderInv'
    BY <1>7, OrderFrame DEF NativeEvent
  <1>8. ASSUME NEW l \in Loops, ReturnFromLoop(l) PROVE OrderInv'
    <2>1. state[l] = "LEAVING" /\ l \in Posted
      BY <1>8 DEF ReturnFromLoop, Quitting, IInv, StackInv, Posted
    <2>2. l \notin Elements(posted)
      BY <2>1 DEF IInv, PostedInv
    <2>3. CASE UNCHANGED <<deque, posted>>
      BY <1>8, <2>3, OrderFrame DEF ReturnFromLoop
    <2>4. CASE deque' = Append(deque, l) /\ posted' = Append(posted, l)
      BY <1>8, <2>1, <2>2, <2>4, PostOrder DEF ReturnFromLoop
    <2> QED BY <1>8, <2>3, <2>4 DEF ReturnFromLoop, LeaveNextLoop
  <1>9. ASSUME NEW l \in Loops, EnterNestedEventLoop(l) PROVE OrderInv'
    BY <1>9, OrderFrame DEF EnterNestedEventLoop
  <1>10. ASSUME NEW l \in Loops, ExitNestedEventLoop(l) PROVE OrderInv'
    BY <1>10, OrderFrame DEF ExitNestedEventLoop
  <1>11. CASE AppHandlerReturns
    BY <1>11, OrderFrame DEF AppHandlerReturns
  <1>12. CASE LeaveOuterLoop
    BY <1>12, OrderFrame DEF LeaveOuterLoop
  <1> QED
    BY <1>1, <1>2, <1>3, <1>4, <1>5, <1>6, <1>7, <1>8, <1>9, <1>10, <1>11, <1>12
       DEF Next, EventThread, OtherThreads

-----------------------------------------------------------------------------
(* The history as a queue *)

LEMMA SuffixFacts ==
    ASSUME NEW S, NEW s \in Seq(S), NEW n \in 0 .. Len(s)
    PROVE  /\ SubSeq(s, n + 1, Len(s)) \in Seq(S)
           /\ Len(SubSeq(s, n + 1, Len(s))) = Len(s) - n
           /\ \A i \in 1 .. Len(s) - n : SubSeq(s, n + 1, Len(s))[i] = s[n + i]
  <1>1. /\ n + 1 \in 1 .. Len(s) + 1 /\ Len(s) \in n + 1 - 1 .. Len(s)
        /\ (IF n + 1 <= Len(s) THEN Len(s) - (n + 1) + 1 ELSE 0) = Len(s) - n
    OBVIOUS
  <1>2. /\ SubSeq(s, n + 1, Len(s)) \in Seq(S)
        /\ Len(SubSeq(s, n + 1, Len(s))) = Len(s) - n
        /\ \A i \in 1 .. Len(s) - (n + 1) + 1 : SubSeq(s, n + 1, Len(s))[i] = s[n + 1 + i - 1]
    BY <1>1, SubSeqProperties
  <1>3. \A i \in 1 .. Len(s) - n : i \in 1 .. Len(s) - (n + 1) + 1 /\ n + 1 + i - 1 = n + i
    OBVIOUS
  <1> QED BY <1>2, <1>3

\* Posting adds to the end of the part that has not started.
LEMMA SuffixOfAppend ==
    ASSUME NEW S, NEW s \in Seq(S), NEW n \in 0 .. Len(s), NEW e \in S
    PROVE  SubSeq(Append(s, e), n + 1, Len(Append(s, e))) = Append(SubSeq(s, n + 1, Len(s)), e)
  <1> DEFINE a == Append(s, e)
             u == SubSeq(s, n + 1, Len(s))
             v == SubSeq(a, n + 1, Len(a))
  <1>1. /\ a \in Seq(S) /\ Len(a) = Len(s) + 1 /\ a[Len(s) + 1] = e
        /\ \A i \in 1 .. Len(s) : a[i] = s[i]
    BY AppendFacts
  <1>2. n \in 0 .. Len(a)
    BY <1>1
  <1>3. u \in Seq(S) /\ Len(u) = Len(s) - n /\ \A i \in 1 .. Len(s) - n : u[i] = s[n + i]
    BY SuffixFacts
  <1>4. v \in Seq(S) /\ Len(v) = Len(a) - n /\ \A i \in 1 .. Len(a) - n : v[i] = a[n + i]
    BY <1>1, <1>2, SuffixFacts
  <1> HIDE DEF a, u, v
  <1>5. /\ Append(u, e) \in Seq(S) /\ Len(Append(u, e)) = Len(u) + 1
        /\ Append(u, e)[Len(u) + 1] = e
        /\ \A i \in 1 .. Len(u) : Append(u, e)[i] = u[i]
    BY <1>3, AppendFacts
  <1>6. Len(v) = Len(Append(u, e))
    BY <1>1, <1>3, <1>4, <1>5
  <1>7. ASSUME NEW i \in 1 .. Len(v) PROVE v[i] = Append(u, e)[i]
    <2>1. CASE i = Len(u) + 1
      <3>1. n + i = Len(s) + 1 /\ i \in 1 .. Len(a) - n
        BY <1>1, <1>3, <1>4, <2>1
      <3> QED BY <1>1, <1>4, <1>5, <2>1, <3>1
    <2>2. CASE i # Len(u) + 1
      <3>1. i \in 1 .. Len(u) /\ i \in 1 .. Len(s) - n /\ n + i \in 1 .. Len(s)
            /\ i \in 1 .. Len(a) - n
        <4>1. /\ Len(s) \in Nat /\ Len(u) = Len(s) - n /\ Len(a) = Len(s) + 1
              /\ Len(v) = Len(a) - n /\ n \in Nat /\ n <= Len(s)
          BY <1>1, <1>3, <1>4
        <4>2. i \in Nat /\ 1 <= i /\ i <= Len(v)
          BY <1>4
        <4> QED BY <2>2, <4>1, <4>2
      <3> QED BY <1>1, <1>3, <1>4, <1>5, <3>1
    <2> QED BY <2>1, <2>2
  <1> QED BY <1>4, <1>5, <1>6, <1>7, SeqEqual DEF a, u, v

\* Starting takes from its front.
LEMMA SuffixTail ==
    ASSUME NEW S, NEW s \in Seq(S), NEW n \in 0 .. Len(s) - 1
    PROVE  /\ SubSeq(s, n + 1, Len(s)) # << >>
           /\ Head(SubSeq(s, n + 1, Len(s))) = s[n + 1]
           /\ Tail(SubSeq(s, n + 1, Len(s))) = SubSeq(s, (n + 1) + 1, Len(s))
  <1> DEFINE u == SubSeq(s, n + 1, Len(s))
             v == SubSeq(s, (n + 1) + 1, Len(s))
  <1>1. n \in 0 .. Len(s) /\ n + 1 \in 0 .. Len(s)
    OBVIOUS
  <1>2. u \in Seq(S) /\ Len(u) = Len(s) - n /\ \A i \in 1 .. Len(s) - n : u[i] = s[n + i]
    BY <1>1, SuffixFacts
  <1>3. /\ v \in Seq(S) /\ Len(v) = Len(s) - (n + 1)
        /\ \A i \in 1 .. Len(s) - (n + 1) : v[i] = s[(n + 1) + i]
    BY <1>1, SuffixFacts
  <1> HIDE DEF u, v
  <1>4. u # << >> /\ 1 \in 1 .. Len(s) - n
    BY <1>1, <1>2
  <1>5. Head(u) = s[n + 1]
    BY <1>2, <1>4
  <1>6. /\ Tail(u) \in Seq(S) /\ Len(Tail(u)) = Len(u) - 1
        /\ \A i \in 1 .. Len(u) - 1 : Tail(u)[i] = u[i + 1]
    BY <1>2, <1>4, TailFacts
  <1>7. Len(Tail(u)) = Len(v)
    BY <1>1, <1>2, <1>3, <1>6
  <1>8. ASSUME NEW i \in 1 .. Len(Tail(u)) PROVE Tail(u)[i] = v[i]
    <2>1. /\ i \in 1 .. Len(u) - 1 /\ i + 1 \in 1 .. Len(s) - n
          /\ i \in 1 .. Len(s) - (n + 1) /\ n + (i + 1) = (n + 1) + i
      BY <1>1, <1>2, <1>6
    <2> QED BY <1>2, <1>3, <1>6, <2>1
  <1>9. Tail(u) = v
    BY <1>3, <1>6, <1>7, <1>8, SeqEqual
  <1> QED BY <1>4, <1>5, <1>9 DEF u, v

-----------------------------------------------------------------------------
(* The refinement *)

\* Nothing has been posted: the queue is empty.
LEMMA InitRefines == Init => Queue!Init
  <1> SUFFICES ASSUME Init PROVE Queue!Init
    OBVIOUS
  <1>1. posted = << >> /\ ran = << >> /\ posted \in Seq(Posted) /\ 0 \in 0 .. Len(posted)
    BY DEF Init
  <1>2. Unstarted \in Seq(Posted) /\ Len(Unstarted) = 0
    BY <1>1, SuffixFacts DEF Unstarted
  <1>3. Unstarted = << >>
    BY <1>2
  <1> QED BY <1>1, <1>3 DEF Queue!Init

\* A posting step of the event loop is a Post of the queue.
LEMMA PostRefines ==
    ASSUME IInv, OrderInv, NEW t \in Posted, posted' = Append(posted, t), ran' = ran
    PROVE  Queue!Post(t)
  <1>1. posted \in Seq(Posted) /\ Len(ran) \in 0 .. Len(posted)
    <2>1. /\ Len(posted) \in Nat /\ Len(deque) \in Nat /\ Len(ran) \in Nat
          /\ Submitted \in Int /\ TypeOK
      BY Lengths DEF IInv
    <2> QED BY <2>1 DEF OrderInv, HistoryInv, Submitted, TypeOK
  <1>2. Unstarted' = Append(Unstarted, t)
    BY <1>1, SuffixOfAppend DEF Unstarted
  <1> QED BY <1>2 DEF Queue!Post

\* Every step of the event loop is a step of the queue, or leaves it alone.
LEMMA StepRefines == IInv /\ OrderInv /\ [Next]_vars => [Queue!Next]_<<Unstarted, ran>>
  <1> SUFFICES ASSUME IInv, OrderInv, [Next]_vars PROVE [Queue!Next]_<<Unstarted, ran>>
    OBVIOUS
  <1> USE DEF dispatcherVars
  <1>a. ASSUME UNCHANGED <<posted, ran>> PROVE UNCHANGED <<Unstarted, ran>>
    BY <1>a DEF Unstarted
  <1>1. CASE UNCHANGED vars
    BY <1>1, <1>a DEF vars
  <1>2. CASE Dispatcher
    BY <1>2, <1>a DEF Dispatcher, TakeFirst, PutBack, MayPass, Submit, Awaited, WaitedLeft
  <1>3. ASSUME NEW t \in Runnables, InvokeLater(t) PROVE Queue!Next
    <2>1. t \in Posted
      BY DEF Posted
    <2> QED BY <1>3, <2>1, PostRefines DEF InvokeLater, Queue!Next
  <1>4. ASSUME NEW c \in Callers, InvokeAndWait(c) \/ InvokeAndWaitReturns(c)
        PROVE  UNCHANGED <<Unstarted, ran>>
    BY <1>4, <1>a DEF InvokeAndWait, InvokeAndWaitReturns
  <1>5. CASE RunIdle
    <2>1. CASE Head(idle) \notin Posted
      BY <1>5, <1>a, <2>1 DEF RunIdle
    <2>2. CASE Head(idle) \in Posted
      <3>1. Len(ran) + 1 <= Submitted /\ Head(idle) = posted[Len(ran) + 1]
        BY <1>5, <2>2, OldestIdle DEF RunIdle
      <3>2. /\ Len(posted) \in Nat /\ Len(deque) \in Nat /\ Len(ran) \in Nat
            /\ Submitted \in Int /\ TypeOK
        BY Lengths DEF IInv
      <3>3. posted \in Seq(Posted) /\ Len(ran) \in 0 .. Len(posted) - 1
        BY <3>1, <3>2 DEF Submitted, TypeOK
      <3>4. ran' = Append(ran, Head(idle)) /\ posted' = posted /\ Len(ran') = Len(ran) + 1
        BY <1>5, <2>2, <3>2 DEF RunIdle, TypeOK
      <3>5. /\ Unstarted # << >> /\ Head(Unstarted) = Head(idle)
            /\ Tail(Unstarted) = Unstarted'
        BY <3>1, <3>3, <3>4, SuffixTail DEF Unstarted
      <3> QED BY <3>4, <3>5 DEF Queue!Next, Queue!Start
    <2> QED BY <2>1, <2>2
  <1>6. ASSUME NEW e \in Events, NativeEvent(e) PROVE UNCHANGED <<Unstarted, ran>>
    BY <1>6, <1>a DEF NativeEvent
  <1>7. ASSUME NEW l \in Loops, ReturnFromLoop(l) PROVE [Queue!Next]_<<Unstarted, ran>>
    <2>1. CASE UNCHANGED posted
      BY <1>7, <1>a, <2>1 DEF ReturnFromLoop
    <2>2. CASE posted' = Append(posted, l)
      <3>1. l \in Posted
        BY DEF Posted
      <3> QED BY <1>7, <2>2, <3>1, PostRefines DEF ReturnFromLoop, Queue!Next
    <2> QED BY <1>7, <2>1, <2>2 DEF ReturnFromLoop, LeaveNextLoop
  <1>8. ASSUME NEW l \in Loops, EnterNestedEventLoop(l) \/ ExitNestedEventLoop(l)
        PROVE  UNCHANGED <<Unstarted, ran>>
    BY <1>8, <1>a DEF EnterNestedEventLoop, ExitNestedEventLoop
  <1>9. CASE AppHandlerReturns \/ LeaveOuterLoop
    BY <1>9, <1>a DEF AppHandlerReturns, LeaveOuterLoop
  <1> QED
    BY <1>1, <1>2, <1>3, <1>4, <1>5, <1>6, <1>7, <1>8, <1>9
       DEF Next, EventThread, OtherThreads

\* What has not started is in the deque, in the dispatcher's hand or in the
\* native queue.
LEMMA UnstartedOnItsWay ==
    IInv /\ OrderInv => \A i \in 1 .. Len(Unstarted) : OnItsWay(Unstarted[i])
  <1> SUFFICES ASSUME IInv, OrderInv, NEW i \in 1 .. Len(Unstarted)
               PROVE  OnItsWay(Unstarted[i])
    OBVIOUS
  <1>0. /\ Len(posted) \in Nat /\ Len(deque) \in Nat /\ Len(ran) \in Nat
        /\ Submitted \in Int /\ TypeOK
    BY Lengths DEF IInv
  <1>1. posted \in Seq(Posted) /\ Len(ran) \in 0 .. Len(posted)
    BY <1>0 DEF OrderInv, HistoryInv, Submitted, TypeOK
  <1>2. i \in 1 .. Len(posted) - Len(ran) /\ Unstarted[i] = posted[Len(ran) + i]
    BY <1>1, SuffixFacts DEF Unstarted
  <1> DEFINE k == Len(ran) + i
  <1>3. k \in Int /\ Len(ran) + 1 <= k /\ k <= Len(posted) /\ Unstarted[i] = posted[k]
    BY <1>0, <1>2
  <1> HIDE DEF k
  <1>4. CASE k <= Submitted
    <2>1. k \in Len(ran) + 1 .. Submitted
      BY <1>0, <1>3, <1>4
    <2>2. \E j \in 1 .. Len(idle) : idle[j] = posted[k]
      BY <2>1 DEF OrderInv, IdleInv
    <2> QED BY <1>3, <2>2 DEF OnItsWay, Elements
  <1>5. CASE InHand /\ k = Submitted + 1
    BY <1>3, <1>5 DEF OrderInv, DequeInv, OnItsWay, InHand
  <1>6. CASE Len(posted) - Len(deque) < k
    <2> DEFINE j == k - (Len(posted) - Len(deque))
    <2>1. j \in 1 .. Len(deque) /\ Len(posted) - Len(deque) + j = k
      BY <1>0, <1>3, <1>6
    <2> HIDE DEF j
    <2>2. deque[j] = posted[k]
      BY <2>1 DEF OrderInv, DequeInv
    <2> QED BY <1>3, <2>1, <2>2 DEF OnItsWay, Elements
  <1>7. k <= Submitted \/ (InHand /\ k = Submitted + 1) \/ Len(posted) - Len(deque) < k
    BY <1>0, <1>3 DEF Submitted
  <1> QED BY <1>4, <1>5, <1>6, <1>7

-----------------------------------------------------------------------------
(* The theorems *)

\* What has started is a prefix of what was posted; the native queue, the
\* dispatcher's hand and the deque hold the rest in the order of the calls.
THEOREM OrderKept == Spec => []OrderInv
  BY InitOrder, OrderStep, Invariance, PTL DEF Spec

\* Application.invokeLater keeps its promise: the event loop implements the
\* queue in which every runnable starts once, in the order of the calls, and
\* no runnable is dropped on the way, whatever is put back while a loop is
\* being left and whichever nested loop serves it.
THEOREM InvokeLaterKeepsItsPromise == Spec => InvokeLaterInOrder
  <1>1. Spec => Queue!Spec
    BY InitRefines, StepRefines, Invariance, OrderKept, PTL DEF Spec, Queue!Spec
  <1>2. Spec => [](\A i \in 1 .. Len(Unstarted) : OnItsWay(Unstarted[i]))
    BY UnstartedOnItsWay, Invariance, OrderKept, PTL
  <1> QED BY <1>1, <1>2 DEF InvokeLaterInOrder

=============================================================================
