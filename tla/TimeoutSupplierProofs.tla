----------------------- MODULE TimeoutSupplierProofs -----------------------
(***************************************************************************)
(* SettledOnce, DoneIsAccountedFor and NoLostWakeup for any number of      *)
(* producers, consumers and elements and any capacity, and the refinement  *)
(* of the abstract hand-off.                                               *)
(***************************************************************************)
EXTENDS TimeoutSupplier, SequenceTheorems, TLAPS

\* Whoever holds an element holds one whose timer has been scheduled.
SuppliedOnly ==
    /\ \A i \in 1..Len(queue) : timer[queue[i]] # "none"
    /\ \A p \in Producers : pc[p] = "putting" =>
          held[p] \in Elements /\ timer[held[p]] # "none"
    /\ \A k \in Consumers : consumer[k] # NoElement => timer[consumer[k]] # "none"
    /\ \A e \in Elements : e \in done => timer[e] # "none"

DrainedIsElement == stage = "expiring" => drained \in Elements

IInv ==
    /\ TypeOK
    /\ SettledOnce
    /\ DoneIsAccountedFor
    /\ SuppliedOnly
    /\ DrainedIsElement

\* queue.remove(e) yields a queue over the same elements that is no longer than before.
LEMMA QueueRemoveType ==
    ASSUME TypeOK, NEW e
    PROVE  /\ QueueRemove(e) \in Seq(Elements)
           /\ Len(QueueRemove(e)) <= Len(queue)
           /\ \A i \in 1..Len(QueueRemove(e)) :
                 \E j \in 1..Len(queue) : QueueRemove(e)[i] = queue[j]
<1>1. CASE \E i \in 1..Len(queue) : queue[i] = e
  <2> DEFINE k == CHOOSE j \in 1..Len(queue) : queue[j] = e
  <2>1. k \in 1..Len(queue) /\ queue[k] = e
    BY <1>1
  <2> HIDE DEF k
  <2>2. QueueRemove(e) = SubSeq(queue, 1, k - 1) \o SubSeq(queue, k + 1, Len(queue))
    BY <1>1 DEF QueueRemove, k
  <2>3. queue \in Seq(Elements) /\ Len(queue) \in Nat
    BY DEF TypeOK
  <2> DEFINE a == SubSeq(queue, 1, k - 1)
             b == SubSeq(queue, k + 1, Len(queue))
  <2>4. /\ a \in Seq(Elements)
        /\ Len(a) = k - 1
        /\ \A i \in 1..(k - 1) : a[i] = queue[i]
    BY <2>1, <2>3
  <2>5. /\ b \in Seq(Elements)
        /\ Len(b) = Len(queue) - k
        /\ \A i \in 1..(Len(queue) - k) : b[i] = queue[k + i]
    BY <2>1, <2>3
  <2> HIDE DEF a, b
  <2>6. /\ a \o b \in Seq(Elements)
        /\ Len(a \o b) = Len(a) + Len(b)
        /\ \A i \in 1..(Len(a) + Len(b)) :
              (a \o b)[i] = IF i <= Len(a) THEN a[i] ELSE b[i - Len(a)]
    BY <2>4, <2>5, ConcatProperties
  <2>7. ASSUME NEW i \in 1..Len(a \o b)
        PROVE  \E j \in 1..Len(queue) : (a \o b)[i] = queue[j]
    <3>1. CASE i <= Len(a)
      <4>1. (a \o b)[i] = queue[i] /\ i \in 1..Len(queue)
        BY <3>1, <2>1, <2>3, <2>4, <2>5, <2>6
      <4>2. QED
        BY <4>1
    <3>2. CASE ~(i <= Len(a))
      <4>1. (a \o b)[i] = b[i - Len(a)] /\ i - Len(a) \in 1..(Len(queue) - k)
        BY <3>2, <2>1, <2>3, <2>4, <2>5, <2>6
      <4>2. (a \o b)[i] = queue[k + (i - Len(a))] /\ k + (i - Len(a)) \in 1..Len(queue)
        BY <4>1, <2>1, <2>3, <2>4, <2>5
      <4>3. QED
        BY <4>2
    <3>3. QED
      BY <3>1, <3>2
  <2>8. QueueRemove(e) = a \o b
    BY <2>2 DEF a, b
  <2>9. Len(a \o b) <= Len(queue)
    BY <2>1, <2>3, <2>4, <2>5, <2>6
  <2>10. QED
    BY <2>6, <2>7, <2>8, <2>9
<1>2. CASE ~ \E i \in 1..Len(queue) : queue[i] = e
  BY <1>2 DEF QueueRemove, TypeOK
<1>3. QED
  BY <1>1, <1>2

LEMMA InitIInv == Init => IInv
<1> SUFFICES ASSUME Init PROVE IInv
  OBVIOUS
<1>1. TypeOK
  BY CapacityAssumption DEF Init, TypeOK, Held, TimerState, ProducerPc, Stage, Fate
<1>2. SettledOnce /\ DoneIsAccountedFor
  BY DEF Init, SettledOnce, DoneIsAccountedFor, Pending
<1>3. SuppliedOnly /\ DrainedIsElement
  BY DEF Init, SuppliedOnly, DrainedIsElement
<1>4. QED
  BY <1>1, <1>2, <1>3 DEF IInv

\* The type invariant is kept by every step.
LEMMA TypeStep == IInv /\ [Next]_vars => TypeOK'
<1> SUFFICES ASSUME IInv, [Next]_vars PROVE TypeOK'
  OBVIOUS
<1> USE DEF TypeOK, Held, TimerState, ProducerPc, Stage, Fate
<1>0. TypeOK /\ DrainedIsElement /\ SuppliedOnly
  BY DEF IInv
<1>1. ASSUME NEW p \in Producers, AwaitUnpausedOrStopped(p) PROVE TypeOK'
  BY <1>0, <1>1 DEF AwaitUnpausedOrStopped, Goto
<1>2. ASSUME NEW p \in Producers, SupplyNothing(p) PROVE TypeOK'
  BY <1>0, <1>2 DEF SupplyNothing, Goto
<1>3. ASSUME NEW p \in Producers, NEW e \in Elements, Supply(p, e) PROVE TypeOK'
  BY <1>0, <1>3 DEF Supply, Goto
<1>4. ASSUME NEW p \in Producers, Put(p) PROVE TypeOK'
  BY <1>0, <1>4, CapacityAssumption DEF Put, Goto, SuppliedOnly
<1>5. ASSUME NEW p \in Producers, Interrupted(p) PROVE TypeOK'
  BY <1>0, <1>5 DEF Interrupted, Goto
<1>6. ASSUME NEW k \in Consumers, Poll(k) PROVE TypeOK'
  BY <1>0, <1>6, CapacityAssumption DEF Poll
<1>7. ASSUME NEW k \in Consumers, Claim(k) PROVE TypeOK'
  <2>1. CASE (consumer[k] \in done)
    BY <1>0, <1>7, <2>1 DEF Claim
  <2>2. CASE ~(consumer[k] \in done)
    <3> DEFINE e == consumer[k]
    <3>1. e \in Elements
      BY <1>0, <1>7 DEF Claim
    <3>2. /\ timer' = [timer EXCEPT ![e] = IF timer[e] = "scheduled" THEN "cancelled" ELSE timer[e]]
          /\ fate' = [fate EXCEPT ![e] = Append(fate[e], "claimed")]
      BY <1>7, <2>2 DEF Claim, Settle
    <3>3. timer' \in [Elements -> TimerState] /\ fate' \in [Elements -> Seq(Fate)]
      BY <1>0, <3>1, <3>2
    <3>4. QED
      BY <1>0, <1>7, <2>2, <3>1, <3>3 DEF Claim
  <2>3. QED
    BY <2>1, <2>2
<1>8. ASSUME NEW e \in Elements, MarkExpired(e) PROVE TypeOK'
  BY <1>0, <1>8 DEF MarkExpired
<1>9. ASSUME NEW e \in Elements, HandleExpired(e) PROVE TypeOK'
  <2>1. queue' \in Seq(Elements) /\ Len(queue') <= Capacity
    BY <1>0, <1>9, QueueRemoveType, CapacityAssumption DEF HandleExpired
  <2>2. QED
    BY <1>0, <1>9, <2>1 DEF HandleExpired, Settle
<1>10. CASE Pause \/ Unpause
  BY <1>0, <1>10 DEF Pause, Unpause
<1>11. CASE Close
  <2>1. CASE DrainHandle
    <3>1. queue' \in Seq(Elements) /\ Len(queue') <= Capacity
      BY <1>0, <2>1, QueueRemoveType, CapacityAssumption DEF DrainHandle
    <3>2. drained \in Elements
      BY <1>0, <2>1 DEF DrainHandle, DrainedIsElement
    <3>3. QED
      BY <1>0, <2>1, <3>1, <3>2 DEF DrainHandle, Settle
  <2>2. CASE Drain
    BY <1>0, <2>2, CapacityAssumption DEF Drain
  <2>3. CASE CloseStart \/ DrainDone \/ StopProducers
    BY <1>0, <2>3 DEF CloseStart, DrainDone, StopProducers
  <2>4. CASE StopTimers
    BY <1>0, <2>4 DEF StopTimers
  <2>5. QED
    BY <1>11, <2>1, <2>2, <2>3, <2>4 DEF Close
<1>12. CASE UNCHANGED vars
  BY <1>0, <1>12 DEF vars
<1>13. QED
  BY <1>1, <1>2, <1>3, <1>4, <1>5, <1>6, <1>7, <1>8, <1>9, <1>10, <1>11, <1>12
     DEF Next, Produce

\* The flag of an element and the settlements made of it stay in step.
LEMMA SettleStep == IInv /\ [Next]_vars => SettledOnce' /\ DoneIsAccountedFor'
<1> SUFFICES ASSUME IInv, [Next]_vars, NEW x \in Elements
             PROVE  /\ (Len(fate[x]) + Pending(x) <= 1)'
                    /\ (x \in done <=> Len(fate[x]) + Pending(x) = 1)'
  BY DEF SettledOnce, DoneIsAccountedFor
<1> USE DEF Pending
<1>0. /\ Len(fate[x]) + Pending(x) <= 1
      /\ x \in done <=> Len(fate[x]) + Pending(x) = 1
      /\ Len(fate[x]) \in Nat
      /\ fate \in [Elements -> Seq(Fate)]
      /\ timer \in [Elements -> TimerState]
      /\ stage = "expiring" => drained \in Elements
  BY DEF IInv, TypeOK, SettledOnce, DoneIsAccountedFor, DrainedIsElement
<1>1. ASSUME NEW p \in Producers, Produce(p)
      PROVE  /\ Pending(x)' = Pending(x)
             /\ UNCHANGED <<fate, done>>
  BY <1>0, <1>1 DEF Produce, AwaitUnpausedOrStopped, SupplyNothing, Supply, Put, Interrupted
<1>2. ASSUME NEW k \in Consumers, Poll(k)
      PROVE  UNCHANGED <<timer, stage, drained, fate, done>>
  BY <1>2 DEF Poll
<1>3. ASSUME NEW k \in Consumers, Claim(k)
      PROVE  /\ (Len(fate[x]) + Pending(x) <= 1)'
             /\ (x \in done <=> Len(fate[x]) + Pending(x) = 1)'
  <2>1. CASE consumer[k] \in done
    BY <1>0, <1>3, <2>1 DEF Claim
  <2>2. CASE consumer[k] \notin done /\ consumer[k] # x
    <3>1. fate'[x] = fate[x] /\ timer'[x] = timer[x]
      BY <1>0, <1>3, <2>2 DEF Claim, Settle
    <3>2. QED
      BY <1>0, <1>3, <2>2, <3>1 DEF Claim
  <2>3. CASE consumer[k] \notin done /\ consumer[k] = x
    <3>1. Len(fate[x]) = 0 /\ timer[x] # "expiring" /\ ~(stage = "expiring" /\ drained = x)
      BY <1>0, <2>3
    <3>2. fate'[x] = Append(fate[x], "claimed") /\ Len(fate'[x]) = 1
      BY <1>0, <1>3, <2>3, <3>1 DEF Claim, Settle, Fate
    <3>3. timer'[x] # "expiring"
      BY <1>0, <1>3, <2>3, <3>1 DEF Claim
    <3>4. QED
      BY <1>0, <1>3, <2>3, <3>1, <3>2, <3>3 DEF Claim
  <2>4. QED
    BY <2>1, <2>2, <2>3
<1>4. ASSUME NEW e \in Elements, MarkExpired(e)
      PROVE  /\ (Len(fate[x]) + Pending(x) <= 1)'
             /\ (x \in done <=> Len(fate[x]) + Pending(x) = 1)'
  BY <1>0, <1>4 DEF MarkExpired
<1>5. ASSUME NEW e \in Elements, HandleExpired(e)
      PROVE  /\ (Len(fate[x]) + Pending(x) <= 1)'
             /\ (x \in done <=> Len(fate[x]) + Pending(x) = 1)'
  <2>1. CASE e # x
    <3>1. fate'[x] = fate[x] /\ timer'[x] = timer[x]
      BY <1>0, <1>5, <2>1 DEF HandleExpired, Settle
    <3>2. QED
      BY <1>0, <1>5, <2>1, <3>1 DEF HandleExpired
  <2>2. CASE e = x
    <3>1. Len(fate[x]) = 0 /\ ~(stage = "expiring" /\ drained = x) /\ x \in done
      BY <1>0, <1>5, <2>2 DEF HandleExpired
    <3>2. Len(fate'[x]) = 1 /\ timer'[x] = "off"
      BY <1>0, <1>5, <2>2, <3>1 DEF HandleExpired, Settle, Fate
    <3>3. QED
      BY <1>0, <1>5, <3>1, <3>2 DEF HandleExpired
  <2>3. QED
    BY <2>1, <2>2
<1>6. CASE Pause \/ Unpause
  BY <1>0, <1>6 DEF Pause, Unpause
<1>7. CASE Close
  <2>1. CASE CloseStart \/ DrainDone \/ StopProducers
    BY <1>0, <2>1 DEF CloseStart, DrainDone, StopProducers
  <2>2. CASE StopTimers
    BY <1>0, <2>2 DEF StopTimers
  <2>3. CASE Drain
    <3>1. UNCHANGED <<timer, fate>> /\ stage = "draining"
      BY <2>3 DEF Drain
    <3>2. CASE Head(queue) \in done
      BY <1>0, <2>3, <3>1, <3>2 DEF Drain
    <3>3. CASE Head(queue) \notin done
      <4>1. stage' = "expiring" /\ drained' = Head(queue) /\ done' = done \cup {Head(queue)}
        BY <2>3, <3>3 DEF Drain
      <4>2. CASE Head(queue) = x
        <5>1. Len(fate[x]) = 0 /\ timer[x] # "expiring"
          BY <1>0, <3>3, <4>2
        <5>2. Len(fate'[x]) = 0 /\ timer'[x] # "expiring" /\ x \in done'
          BY <3>1, <4>1, <4>2, <5>1
        <5>3. Pending(x)' = 1
          BY <4>1, <4>2, <5>2
        <5>4. QED
          BY <5>2, <5>3
      <4>3. CASE Head(queue) # x
        BY <1>0, <3>1, <3>3, <4>1, <4>3
      <4>4. QED
        BY <4>2, <4>3
    <3>4. QED
      BY <3>2, <3>3
  <2>4. CASE DrainHandle /\ drained # x
    <3>1. fate'[x] = fate[x]
      BY <1>0, <2>4 DEF DrainHandle, Settle
    <3>2. QED
      BY <1>0, <2>4, <3>1 DEF DrainHandle
  <2>5. CASE DrainHandle /\ drained = x
    <3>1. Len(fate[x]) = 0 /\ timer[x] # "expiring" /\ x \in done
      BY <1>0, <2>5 DEF DrainHandle
    <3>2. Len(fate'[x]) = 1
      BY <1>0, <2>5, <3>1 DEF DrainHandle, Settle, Fate
    <3>3. QED
      BY <2>5, <3>1, <3>2 DEF DrainHandle
  <2>6. QED
    BY <1>7, <2>1, <2>2, <2>3, <2>4, <2>5 DEF Close
<1>8. CASE UNCHANGED vars
  BY <1>0, <1>8 DEF vars
<1>9. QED
  BY <1>0, <1>1, <1>2, <1>3, <1>4, <1>5, <1>6, <1>7, <1>8 DEF Next

\* Elements are held, queued, polled or flagged only after their timer was scheduled.
LEMMA SuppliedStep == IInv /\ [Next]_vars => SuppliedOnly' /\ DrainedIsElement'
<1> SUFFICES ASSUME IInv, [Next]_vars PROVE SuppliedOnly' /\ DrainedIsElement'
  OBVIOUS
<1>0. TypeOK /\ SuppliedOnly /\ DrainedIsElement
  BY DEF IInv
<1>a. queue \in Seq(Elements) /\ timer \in [Elements -> TimerState] /\ done \in SUBSET Elements
      /\ pc \in [Producers -> ProducerPc] /\ held \in [Producers -> Held]
      /\ consumer \in [Consumers -> Held] /\ drained \in Held
  BY <1>0 DEF TypeOK
<1> USE DEF SuppliedOnly, DrainedIsElement
<1>1. ASSUME NEW p \in Producers, AwaitUnpausedOrStopped(p) \/ SupplyNothing(p) \/ Interrupted(p)
      PROVE  SuppliedOnly' /\ DrainedIsElement'
  BY <1>0, <1>a, <1>1 DEF AwaitUnpausedOrStopped, SupplyNothing, Interrupted, Goto
<1>2. ASSUME NEW p \in Producers, NEW e \in Elements, Supply(p, e)
      PROVE  SuppliedOnly' /\ DrainedIsElement'
  <2>1. /\ \A x \in Elements : timer[x] # "none" => timer'[x] # "none"
        /\ timer'[e] # "none"
    BY <1>a, <1>2 DEF Supply
  <2>2. /\ UNCHANGED <<queue, done, consumer, stage, drained>>
        /\ pc'[p] = "putting" => held'[p] = e
        /\ \A q \in Producers : q # p => pc'[q] = pc[q] /\ held'[q] = held[q]
    BY <1>a, <1>2 DEF Supply, Goto
  <2>3. \A q \in Producers : pc'[q] = "putting" =>
           held'[q] \in Elements /\ timer'[held'[q]] # "none"
    BY <1>0, <2>1, <2>2
  <2>4. QED
    BY <1>0, <1>a, <2>1, <2>2, <2>3 DEF Held
<1>3. ASSUME NEW p \in Producers, Put(p) PROVE SuppliedOnly' /\ DrainedIsElement'
  <2>1. held[p] \in Elements /\ timer[held[p]] # "none"
    BY <1>0, <1>3 DEF Put
  <2>2. \A i \in 1..Len(queue') : timer[queue'[i]] # "none"
    <3> TAKE i \in 1..Len(queue')
    <3>1. queue' = Append(queue, held[p]) /\ Len(queue') = Len(queue) + 1
      BY <1>a, <1>3, <2>1 DEF Put
    <3>2. CASE i <= Len(queue)
      BY <1>0, <1>a, <2>1, <3>1, <3>2
    <3>3. CASE i = Len(queue) + 1
      BY <1>a, <2>1, <3>1, <3>3
    <3>4. QED
      BY <1>a, <3>1, <3>2, <3>3
  <2>3. QED
    BY <1>0, <1>a, <1>3, <2>1, <2>2 DEF Put, Goto
<1>4. ASSUME NEW k \in Consumers, Poll(k) PROVE SuppliedOnly' /\ DrainedIsElement'
  BY <1>0, <1>a, <1>4 DEF Poll
<1>5. ASSUME NEW k \in Consumers, Claim(k) PROVE SuppliedOnly' /\ DrainedIsElement'
  <2>1. consumer[k] \in Elements /\ timer[consumer[k]] # "none"
    BY <1>0, <1>a, <1>5 DEF Claim, Held
  <2>2. \A e \in Elements : timer[e] # "none" => timer'[e] # "none"
    BY <1>a, <1>5, <2>1 DEF Claim
  <2>3. QED
    BY <1>0, <1>a, <1>5, <2>1, <2>2 DEF Claim, Held
<1>6. ASSUME NEW e \in Elements, MarkExpired(e) PROVE SuppliedOnly' /\ DrainedIsElement'
  BY <1>0, <1>a, <1>6, NoElementAssumption DEF MarkExpired, Held
<1>7. ASSUME NEW e \in Elements, HandleExpired(e) PROVE SuppliedOnly' /\ DrainedIsElement'
  <2>1. \A i \in 1..Len(queue') : timer[queue'[i]] # "none" /\ queue'[i] \in Elements
    BY <1>0, <1>a, <1>7, QueueRemoveType DEF HandleExpired
  <2>2. QED
    BY <1>0, <1>a, <1>7, <2>1, NoElementAssumption DEF HandleExpired, Held
<1>8. CASE Pause \/ Unpause
  BY <1>0, <1>8 DEF Pause, Unpause
<1>9. CASE Close
  <2>1. CASE CloseStart \/ DrainDone \/ StopProducers
    BY <1>0, <2>1 DEF CloseStart, DrainDone, StopProducers
  <2>2. CASE StopTimers
    BY <1>0, <1>a, <2>2, NoElementAssumption DEF StopTimers, Held
  <2>3. CASE Drain
    BY <1>0, <1>a, <2>3 DEF Drain
  <2>4. CASE DrainHandle
    <3>1. \A i \in 1..Len(queue') : timer[queue'[i]] # "none"
      BY <1>0, <1>a, <2>4, QueueRemoveType DEF DrainHandle
    <3>2. QED
      BY <1>0, <1>a, <2>4, <3>1 DEF DrainHandle
  <2>5. QED
    BY <1>9, <2>1, <2>2, <2>3, <2>4 DEF Close
<1>10. CASE UNCHANGED vars
  BY <1>0, <1>10 DEF vars
<1>11. QED
  BY <1>1, <1>2, <1>3, <1>4, <1>5, <1>6, <1>7, <1>8, <1>9, <1>10 DEF Next, Produce

LEMMA Inductive == Spec => []IInv
<1>1. IInv /\ [Next]_vars => IInv'
  BY TypeStep, SettleStep, SuppliedStep DEF IInv
<1>2. QED
  BY InitIInv, <1>1, PTL DEF Spec

\* The queue never outgrows the capacity it was built with, and every variable keeps its type.
THEOREM SupplierIsTyped == Spec => []TypeOK
<1>1. IInv => TypeOK
  BY DEF IInv
<1>2. QED
  BY Inductive, <1>1, PTL

\* Whatever the number of threads, elements and slots, claim(), the timer and close() settle
\* an element at most once between them.
THEOREM SupplierSettlesOnce == Spec => []SettledOnce
<1>1. IInv => SettledOnce
  BY DEF IInv
<1>2. QED
  BY Inductive, <1>1, PTL

\* A set done flag always belongs to a settlement that has happened or is under way.
THEOREM SupplierAccountsForDone == Spec => []DoneIsAccountedFor
<1>1. IInv => DoneIsAccountedFor
  BY DEF IInv
<1>2. QED
  BY Inductive, <1>1, PTL

\* pause(false) and close() run under the lock that the producers park under: whatever the
\* number of producers, none of them is parked while the supplier runs or stops.
THEOREM SupplierWakesProducers == Spec => []NoLostWakeup
<1>1. Init => NoLostWakeup
  BY DEF Init, NoLostWakeup
<1>2. ASSUME NoLostWakeup, [Next]_vars PROVE NoLostWakeup'
  <2>1. ASSUME NEW p \in Producers, Produce(p) PROVE NoLostWakeup'
    <3>1. UNCHANGED mode /\ (waiting' \subseteq waiting \/ mode = "paused")
      BY <2>1 DEF Produce, AwaitUnpausedOrStopped, SupplyNothing, Supply, Put, Interrupted
    <3>2. QED
      BY <1>2, <3>1 DEF NoLostWakeup
  <2>2. CASE Pause \/ Unpause \/ CloseStart
    BY <1>2, <2>2 DEF NoLostWakeup, Pause, Unpause, CloseStart
  <2>3. CASE \/ \E k \in Consumers : Poll(k) \/ Claim(k)
             \/ \E e \in Elements : MarkExpired(e) \/ HandleExpired(e)
             \/ Drain \/ DrainHandle \/ DrainDone \/ StopProducers \/ StopTimers
             \/ UNCHANGED vars
    <3>1. UNCHANGED <<mode, waiting>>
      BY <2>3 DEF Poll, Claim, MarkExpired, HandleExpired, Drain, DrainHandle, DrainDone,
                  StopProducers, StopTimers, vars
    <3>2. QED
      BY <1>2, <3>1 DEF NoLostWakeup
  <2>4. QED
    BY <1>2, <2>1, <2>2, <2>3 DEF Next, Close
<1>3. QED
  BY <1>1, <1>2, PTL DEF Spec

\* Only the first settlement of an element and the scheduling of its timer show in the
\* abstract state.
LEMMA ItemUnchanged ==
    ASSUME NEW x \in Elements, fate'[x] = fate[x],
           timer[x] = "none" <=> timer'[x] = "none"
    PROVE  ItemAs(x)' = ItemAs(x)
  BY DEF ItemAs

LEMMA ItemStep ==
    ASSUME IInv, [Next]_vars
    PROVE  [Abstract!Next]_ItemOf
<1> DEFINE Same(x) == ItemAs(x)' = ItemAs(x)
<1>0. /\ timer \in [Elements -> TimerState] /\ fate \in [Elements -> Seq(Fate)]
      /\ SettledOnce /\ DoneIsAccountedFor /\ SuppliedOnly /\ DrainedIsElement /\ TypeOK
  BY DEF IInv, TypeOK
<1>1. ASSUME \A x \in Elements : Same(x) PROVE [Abstract!Next]_ItemOf
  <2>1. ItemOf' = ItemOf
    BY <1>1 DEF ItemOf
  <2>2. QED
    BY <2>1
<1>2. ASSUME NEW e \in Elements, \A x \in Elements : x # e => Same(x),
             \/ ItemAs(e) = "absent" /\ ItemAs(e)' = "offered"
             \/ ItemAs(e) = "offered" /\ ItemAs(e)' = "delivered"
             \/ ItemAs(e) = "offered" /\ ItemAs(e)' = "timedOut"
      PROVE  [Abstract!Next]_ItemOf
  <2>1. /\ ItemOf[e] = ItemAs(e)
        /\ ItemOf' = [ItemOf EXCEPT ![e] = ItemAs(e)']
    BY <1>2 DEF ItemOf
  <2>2. Abstract!Offer(e) \/ Abstract!Deliver(e) \/ Abstract!TimeOut(e)
    BY <1>2, <2>1 DEF Abstract!Offer, Abstract!Deliver, Abstract!TimeOut
  <2>3. QED
    BY <2>2 DEF Abstract!Next
<1>3. ASSUME NEW e \in Elements, e \notin done PROVE fate[e] = <<>>
  <2>1. Len(fate[e]) + Pending(e) <= 1 /\ Len(fate[e]) + Pending(e) # 1
    BY <1>0, <1>3 DEF SettledOnce, DoneIsAccountedFor
  <2>2. Len(fate[e]) = 0
    BY <1>0, <2>1 DEF Pending
  <2>3. QED
    BY <1>0, <2>2, EmptySeq
<1>4. ASSUME NEW e \in Elements, fate[e] = <<>>, timer[e] # "none", NEW how \in Fate,
             fate' = [fate EXCEPT ![e] = Append(@, how)],
             \A x \in Elements : x # e => (timer[x] = "none" <=> timer'[x] = "none")
      PROVE  [Abstract!Next]_ItemOf
  <2>1. \A x \in Elements : x # e => Same(x)
    BY <1>0, <1>4, ItemUnchanged
  <2>2. fate'[e] = <<how>>
    BY <1>0, <1>4
  <2>3. fate'[e] # <<>> /\ fate'[e][Len(fate'[e])] = how
    BY <2>2
  <2>4. /\ ItemAs(e) = "offered"
        /\ ItemAs(e)' = "delivered" \/ ItemAs(e)' = "timedOut"
    BY <1>4, <2>3 DEF ItemAs
  <2>5. QED
    BY <1>2, <2>1, <2>4
<1>5. ASSUME NEW p \in Producers, NEW e \in Elements, Supply(p, e)
      PROVE  [Abstract!Next]_ItemOf
  <2>1. e \notin done /\ timer[e] = "none" /\ timer'[e] # "none" /\ UNCHANGED fate
    BY <1>0, <1>5 DEF Supply, SuppliedOnly
  <2>2. ItemAs(e) = "absent" /\ ItemAs(e)' = "offered"
    BY <1>3, <2>1 DEF ItemAs
  <2>3. \A x \in Elements : x # e => Same(x)
    BY <1>0, <1>5, <2>1, ItemUnchanged DEF Supply
  <2>4. QED
    BY <1>2, <2>2, <2>3
<1>6. ASSUME NEW k \in Consumers, Claim(k) PROVE [Abstract!Next]_ItemOf
  <2> DEFINE e == consumer[k]
  <2>1. e \in Elements /\ timer[e] # "none"
    BY <1>0, <1>6 DEF Claim, SuppliedOnly, TypeOK, Held
  <2>2. CASE e \in done
    BY <1>1, <1>6, <2>2, ItemUnchanged DEF Claim
  <2>3. CASE e \notin done
    <3>1. fate' = [fate EXCEPT ![e] = Append(@, "claimed")]
          /\ \A x \in Elements : x # e => timer'[x] = timer[x]
      BY <1>0, <1>6, <2>1, <2>3 DEF Claim, Settle
    <3>2. QED
      BY <1>3, <1>4, <2>1, <2>3, <3>1 DEF Fate
  <2>4. QED
    BY <2>2, <2>3
<1>7. ASSUME NEW e \in Elements, HandleExpired(e) PROVE [Abstract!Next]_ItemOf
  <2>1. fate[e] = <<>>
    <3>1. Len(fate[e]) = 0
      BY <1>0, <1>7 DEF HandleExpired, SettledOnce, Pending
    <3>2. QED
      BY <1>0, <3>1, EmptySeq
  <2>2. fate' = [fate EXCEPT ![e] = Append(@, "expired")] /\ timer[e] # "none"
        /\ \A x \in Elements : x # e => timer'[x] = timer[x]
    BY <1>0, <1>7 DEF HandleExpired, Settle
  <2>3. QED
    BY <1>4, <2>1, <2>2 DEF Fate
<1>8. CASE DrainHandle
  <2> DEFINE e == drained
  <2>1. e \in Elements
    BY <1>0, <1>8 DEF DrainHandle, DrainedIsElement
  <2>2. fate[e] = <<>> /\ e \in done
    <3>1. Len(fate[e]) = 0 /\ e \in done
      BY <1>0, <1>8, <2>1 DEF DrainHandle, SettledOnce, DoneIsAccountedFor, Pending
    <3>2. QED
      BY <1>0, <2>1, <3>1, EmptySeq
  <2>3. fate' = [fate EXCEPT ![e] = Append(@, "expired")] /\ timer[e] # "none"
        /\ UNCHANGED timer
    BY <1>0, <1>8, <2>1, <2>2 DEF DrainHandle, Settle, SuppliedOnly
  <2>4. QED
    BY <1>4, <2>1, <2>2, <2>3 DEF Fate
<1>9. ASSUME UNCHANGED fate, \A x \in Elements : timer[x] = "none" <=> timer'[x] = "none"
      PROVE  [Abstract!Next]_ItemOf
  BY <1>1, <1>9, ItemUnchanged
<1>10. ASSUME NEW p \in Producers,
              AwaitUnpausedOrStopped(p) \/ SupplyNothing(p) \/ Put(p) \/ Interrupted(p)
       PROVE  [Abstract!Next]_ItemOf
  BY <1>9, <1>10 DEF AwaitUnpausedOrStopped, SupplyNothing, Put, Interrupted
<1>11. ASSUME NEW k \in Consumers, Poll(k) PROVE [Abstract!Next]_ItemOf
  BY <1>9, <1>11 DEF Poll
<1>12. ASSUME NEW e \in Elements, MarkExpired(e) PROVE [Abstract!Next]_ItemOf
  BY <1>0, <1>9, <1>12 DEF MarkExpired
<1>13. CASE Pause \/ Unpause \/ CloseStart \/ Drain \/ DrainDone \/ StopProducers
  BY <1>9, <1>13 DEF Pause, Unpause, CloseStart, Drain, DrainDone, StopProducers
<1>14. CASE StopTimers
  BY <1>0, <1>9, <1>14 DEF StopTimers
<1>15. CASE UNCHANGED vars
  BY <1>9, <1>15 DEF vars
<1>16. QED
  BY <1>5, <1>6, <1>7, <1>8, <1>10, <1>11, <1>12, <1>13, <1>14, <1>15 DEF Next, Produce, Close

\* The buffer implements the abstract hand-off for any number of threads and slots.
THEOREM SupplierImplementsHandoff == Spec => ImplementsHandoff
<1>1. Init => Abstract!Init
  BY DEF Init, Abstract!Init, ItemOf, ItemAs
<1>2. IInv /\ [Next]_vars => [Abstract!Next]_ItemOf
  BY ItemStep
<1>3. QED
  BY Inductive, <1>1, <1>2, PTL DEF Spec, ImplementsHandoff, Abstract!Spec
=============================================================================
