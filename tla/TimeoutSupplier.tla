-------------------------- MODULE TimeoutSupplier --------------------------
(***************************************************************************)
(* frontier/db/TimeoutSupplier.java: the bounded buffer between the        *)
(* prefetch threads and the harvesters.  Producer threads call a supplier, *)
(* arm a timer for the element and put it in a bounded queue.  A harvester *)
(* polls the queue and claims the element; a timer, or close(), expires    *)
(* it and passes it to the timeout handler.  Claim and expiry race on one  *)
(* compare-and-set flag per element.                                       *)
(*                                                                         *)
(* Definitions named ...Mutant are faulty variants of the definition that  *)
(* follows them.  No specification uses them: they show that a property    *)
(* would notice the fault.                                                 *)
(***************************************************************************)
EXTENDS Naturals, Sequences

CONSTANTS Elements,   \* values the supplier function may return, each once
          Producers,  \* threads of supplierExecutor
          Consumers,  \* threads calling get()
          Capacity,   \* capacity of the ArrayBlockingQueue
          NoElement

ASSUME CapacityAssumption == Capacity \in Nat \ {0}
ASSUME NoElementAssumption == NoElement \notin Elements

VARIABLES queue,      \* the ArrayBlockingQueue
          done,       \* elements whose flag is set: claim() and markExpired() race on it
          timer,      \* the ScheduledFuture of each element
          pc,         \* where each producer thread is
          held,       \* the element it has been supplied and not yet put
          waiting,    \* producers parked on the condition "unpaused"
          consumer,   \* the element each consumer has polled and not yet claimed
          mode,       \* the flags paused and running: running, paused or stopped
          stage,      \* where close() is
          drained,    \* the element it has taken from the queue
          fate        \* per element, what claim() or the timeout handler made of it

vars == <<queue, done, timer, pc, held, waiting, consumer, mode, stage, drained, fate>>

Held == Elements \cup {NoElement}
TimerState == {"none", "scheduled", "cancelled", "expiring", "off", "rejected"}
ProducerPc == {"loop", "supplying", "putting", "exited"}
Stage == {"open", "draining", "expiring", "stopProducers", "stopTimers", "closed"}
Fate == {"claimed", "expired"}

TypeOK ==
    /\ queue \in Seq(Elements)
    /\ Len(queue) <= Capacity
    /\ done \in SUBSET Elements
    /\ timer \in [Elements -> TimerState]
    /\ pc \in [Producers -> ProducerPc]
    /\ held \in [Producers -> Held]
    /\ waiting \in SUBSET Producers
    /\ consumer \in [Consumers -> Held]
    /\ mode \in {"running", "paused", "stopped"}
    /\ stage \in Stage
    /\ drained \in Held
    /\ fate \in [Elements -> Seq(Fate)]

Init ==
    /\ queue = <<>>
    /\ done = {}
    /\ timer = [e \in Elements |-> "none"]
    /\ pc = [p \in Producers |-> "loop"]
    /\ held = [p \in Producers |-> NoElement]
    /\ waiting = {}
    /\ consumer = [k \in Consumers |-> NoElement]
    /\ mode = "running"
    /\ stage = "open"
    /\ drained = NoElement
    /\ fate = [e \in Elements |-> <<>>]

ProducersInterrupted == stage \in {"stopTimers", "closed"}
SchedulerShutDown == stage = "closed"

Settle(e, how) == fate' = [fate EXCEPT ![e] = Append(@, how)]

\* queue.remove(e): takes out one occurrence of e, or leaves the queue alone.
QueueRemove(e) ==
    IF \E i \in 1..Len(queue) : queue[i] = e
      THEN LET i == CHOOSE j \in 1..Len(queue) : queue[j] = e
           IN  SubSeq(queue, 1, i - 1) \o SubSeq(queue, i + 1, Len(queue))
      ELSE queue

Goto(p, there, e) ==
    /\ pc' = [pc EXCEPT ![p] = there]
    /\ held' = [held EXCEPT ![p] = e]

(***************************************************************************)
(* producerLoop and awaitUnpausedOrStopped                                 *)
(***************************************************************************)

\* The loop head: park while paused, leave the loop when stopped, else call the supplier.
AwaitUnpausedOrStopped(p) ==
    /\ pc[p] = "loop"
    /\ p \notin waiting
    /\ \/ mode = "paused" /\ waiting' = waiting \cup {p} /\ UNCHANGED <<pc, held>>
       \/ mode = "running" /\ Goto(p, "supplying", NoElement) /\ UNCHANGED waiting
       \/ mode = "stopped" /\ Goto(p, "exited", NoElement) /\ UNCHANGED waiting
    /\ UNCHANGED <<queue, done, timer, consumer, mode, stage, drained, fate>>

\* supplier.get() returned null or threw.
SupplyNothing(p) ==
    /\ pc[p] = "supplying"
    /\ Goto(p, "loop", NoElement)
    /\ UNCHANGED <<queue, done, timer, waiting, consumer, mode, stage, drained, fate>>

\* supplier.get() returned e: its timer is scheduled.  A scheduler that is already shut
\* down rejects the task and the exception ends the thread.
Supply(p, e) ==
    /\ pc[p] = "supplying"
    /\ timer[e] = "none"
    /\ IF SchedulerShutDown
         THEN /\ timer' = [timer EXCEPT ![e] = "rejected"]
              /\ Goto(p, "exited", NoElement)
         ELSE /\ timer' = [timer EXCEPT ![e] = "scheduled"]
              /\ Goto(p, "putting", e)
    /\ UNCHANGED <<queue, done, waiting, consumer, mode, stage, drained, fate>>

\* Fault: the queue is not bounded.
PutMutant(p) ==
    /\ pc[p] = "putting"
    /\ ~ProducersInterrupted
    /\ queue' = Append(queue, held[p])
    /\ Goto(p, "loop", NoElement)
    /\ UNCHANGED <<done, timer, waiting, consumer, mode, stage, drained, fate>>

Put(p) ==
    /\ pc[p] = "putting"
    /\ Len(queue) < Capacity
    /\ ~ProducersInterrupted
    /\ queue' = Append(queue, held[p])
    /\ Goto(p, "loop", NoElement)
    /\ UNCHANGED <<done, timer, waiting, consumer, mode, stage, drained, fate>>

\* await() or put() throws InterruptedException: the thread leaves, with its element.
Interrupted(p) ==
    /\ ProducersInterrupted
    /\ pc[p] \in {"loop", "putting"}
    /\ Goto(p, "exited", NoElement)
    /\ waiting' = waiting \ {p}
    /\ UNCHANGED <<queue, done, timer, consumer, mode, stage, drained, fate>>

(***************************************************************************)
(* get and Element.claim                                                   *)
(***************************************************************************)

Poll(k) ==
    /\ consumer[k] = NoElement
    /\ queue # <<>>
    /\ consumer' = [consumer EXCEPT ![k] = Head(queue)]
    /\ queue' = Tail(queue)
    /\ UNCHANGED <<done, timer, pc, held, waiting, mode, stage, drained, fate>>

\* Fault: set instead of compareAndSet.
ClaimMutant(k) ==
    LET e == consumer[k] IN
    /\ e # NoElement
    /\ consumer' = [consumer EXCEPT ![k] = NoElement]
    /\ done' = done \cup {e}
    /\ timer' = [timer EXCEPT ![e] = IF @ = "scheduled" THEN "cancelled" ELSE @]
    /\ Settle(e, "claimed")
    /\ UNCHANGED <<queue, pc, held, waiting, mode, stage, drained>>

\* compareAndSet on done; the winner cancels the timer, the loser goes on polling.
Claim(k) ==
    LET e == consumer[k] IN
    /\ e # NoElement
    /\ consumer' = [consumer EXCEPT ![k] = NoElement]
    /\ IF e \in done
         THEN UNCHANGED <<done, timer, fate>>
         ELSE /\ done' = done \cup {e}
              /\ timer' = [timer EXCEPT ![e] = IF @ = "scheduled" THEN "cancelled" ELSE @]
              /\ Settle(e, "claimed")
    /\ UNCHANGED <<queue, pc, held, waiting, mode, stage, drained>>

(***************************************************************************)
(* expire, run by the timer thread                                         *)
(***************************************************************************)

MarkExpired(e) ==
    /\ timer[e] = "scheduled"
    /\ timer' = [timer EXCEPT ![e] = IF e \in done THEN "off" ELSE "expiring"]
    /\ done' = done \cup {e}
    /\ UNCHANGED <<queue, pc, held, waiting, consumer, mode, stage, drained, fate>>

\* Fault: the handler runs only when queue.remove(e) found the element.
HandleExpiredMutant(e) ==
    /\ timer[e] = "expiring"
    /\ timer' = [timer EXCEPT ![e] = "off"]
    /\ queue' = QueueRemove(e)
    /\ IF queue' = queue THEN UNCHANGED fate ELSE Settle(e, "expired")
    /\ UNCHANGED <<done, pc, held, waiting, consumer, mode, stage, drained>>

HandleExpired(e) ==
    /\ timer[e] = "expiring"
    /\ timer' = [timer EXCEPT ![e] = "off"]
    /\ queue' = QueueRemove(e)
    /\ Settle(e, "expired")
    /\ UNCHANGED <<done, pc, held, waiting, consumer, mode, stage, drained>>

(***************************************************************************)
(* pause and close                                                         *)
(***************************************************************************)

Pause ==
    /\ mode = "running"
    /\ mode' = "paused"
    /\ UNCHANGED <<queue, done, timer, pc, held, waiting, consumer, stage, drained, fate>>

\* Fault: signal instead of signalAll.
UnpauseMutant ==
    /\ mode = "paused"
    /\ mode' = "running"
    /\ \E p \in waiting \cup {NoElement} : waiting' = waiting \ {p}
    /\ UNCHANGED <<queue, done, timer, pc, held, consumer, stage, drained, fate>>

\* pause(false): signalAll wakes every parked producer.
Unpause ==
    /\ mode = "paused"
    /\ mode' = "running"
    /\ waiting' = {}
    /\ UNCHANGED <<queue, done, timer, pc, held, consumer, stage, drained, fate>>

CloseStart ==
    /\ stage = "open"
    /\ mode' = "stopped"
    /\ waiting' = {}
    /\ stage' = "draining"
    /\ UNCHANGED <<drained, queue, done, timer, pc, held, consumer, fate>>

\* One turn of the drain loop: queue.poll(), then markExpired().
Drain ==
    /\ stage = "draining"
    /\ queue # <<>>
    /\ queue' = Tail(queue)
    /\ done' = done \cup {Head(queue)}
    /\ IF Head(queue) \in done
         THEN UNCHANGED <<stage, drained>>
         ELSE stage' = "expiring" /\ drained' = Head(queue)
    /\ UNCHANGED <<timer, pc, held, waiting, consumer, mode, fate>>

DrainHandle ==
    /\ stage = "expiring"
    /\ queue' = QueueRemove(drained)
    /\ Settle(drained, "expired")
    /\ stage' = "draining"
    /\ drained' = NoElement
    /\ UNCHANGED <<done, timer, pc, held, waiting, consumer, mode>>

DrainDone ==
    /\ stage = "draining"
    /\ queue = <<>>
    /\ stage' = "stopProducers"
    /\ UNCHANGED <<drained, queue, done, timer, pc, held, waiting, consumer, mode, fate>>

StopProducers ==
    /\ stage = "stopProducers"
    /\ stage' = "stopTimers"
    /\ UNCHANGED <<drained, queue, done, timer, pc, held, waiting, consumer, mode, fate>>

\* shutdownNow of the scheduler: timers that have not started never run.
StopTimers ==
    /\ stage = "stopTimers"
    /\ stage' = "closed"
    /\ timer' = [e \in Elements |-> IF timer[e] = "scheduled" THEN "cancelled" ELSE timer[e]]
    /\ UNCHANGED <<drained, queue, done, pc, held, waiting, consumer, mode, fate>>

Produce(p) ==
    \/ AwaitUnpausedOrStopped(p)
    \/ SupplyNothing(p)
    \/ \E e \in Elements : Supply(p, e)
    \/ Put(p)
    \/ Interrupted(p)

Close == CloseStart \/ Drain \/ DrainHandle \/ DrainDone \/ StopProducers \/ StopTimers

Next ==
    \/ \E p \in Producers : Produce(p)
    \/ \E k \in Consumers : Poll(k) \/ Claim(k)
    \/ \E e \in Elements : MarkExpired(e) \/ HandleExpired(e)
    \/ Pause \/ Unpause
    \/ Close

Spec == Init /\ [][Next]_vars

-----------------------------------------------------------------------------
(***************************************************************************)
(* Properties                                                              *)
(***************************************************************************)

\* The parties that have won done of e and still have to settle it.
Pending(e) ==
    (IF timer[e] = "expiring" THEN 1 ELSE 0)
      + (IF stage = "expiring" /\ drained = e THEN 1 ELSE 0)

\* claim() in a harvester's thread, the timer and close() may all reach one element: it is
\* handed out or given back once, never both and never twice.
SettledOnce == \A e \in Elements : Len(fate[e]) + Pending(e) <= 1

\* A set flag always has an owner: an element nobody can claim any more has been settled or
\* is about to be, so no crawl host group is held by an element that fell between the two.
DoneIsAccountedFor == \A e \in Elements : e \in done <=> Len(fate[e]) + Pending(e) = 1

\* pause(false) and close() wake every parked producer: none sleeps on the condition while
\* the supplier may run.
NoLostWakeup == waiting # {} => mode = "paused"

\* An element a producer has armed is never forgotten while the supplier is open: a
\* harvester gets it or the timeout handler does, or close() begins.
EveryElementSettled ==
    \A e \in Elements : timer[e] = "scheduled" ~> (fate[e] # <<>> \/ mode = "stopped")

\* What the comment "Drain remaining elements and treat them as timed out" says of close():
\* once it has returned, no element is left in the queue that nobody has settled.
ClosedQueueIsDrained ==
    stage = "closed" => \A i \in 1..Len(queue) : queue[i] \in done

\* The state of each element as the abstract hand-off sees it.
ItemAs(e) ==
    IF fate[e] = <<>>
      THEN IF timer[e] = "none" THEN "absent" ELSE "offered"
      ELSE IF fate[e][Len(fate[e])] = "claimed" THEN "delivered" ELSE "timedOut"

ItemOf == [e \in Elements |-> ItemAs(e)]

Abstract == INSTANCE Handoff WITH item <- ItemOf

\* The buffer implements the abstract hand-off.
ImplementsHandoff == Abstract!Spec

(***************************************************************************)
(* The timer thread and the producers are scheduled by executors that are  *)
(* never starved; harvesters and close() may never come.                   *)
(***************************************************************************)
Fairness == \A e \in Elements : WF_vars(MarkExpired(e)) /\ WF_vars(HandleExpired(e))

FairSpec == Spec /\ Fairness
=============================================================================
