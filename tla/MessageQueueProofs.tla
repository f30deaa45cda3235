-------------------------- MODULE MessageQueueProofs --------------------------
(***************************************************************************)
(* Proofs about MessageQueue, for any number of threads and messages, any  *)
(* maximal size and any number of calls.                                   *)
(***************************************************************************)
EXTENDS MessageQueue, SequenceTheorems, FiniteSetTheorems, TLAPS

\* Type invariant and size bound together are inductive.
QueueInv == TypeOK /\ Bounded

\* What a step does to the queue and to what was taken from it, whatever the
\* thread does to the wait sets.
Effect ==
  \/ HasRoom /\ UNCHANGED taken /\ \E m \in Messages : queue' = Append(queue, m)
  \/ queue # <<>> /\ queue' = Tail(queue) /\ taken' = Append(taken, Head(queue))
  \/ queue' = <<>> /\ taken' = taken \o queue
  \/ queue' = <<>> /\ UNCHANGED taken
  \/ UNCHANGED <<queue, taken>>

\* notify_one moves the caller and at most one sleeper, and nobody elsewhere.
LEMMA NotifyType ==
  ASSUME TypeOK, NEW t \in Threads, NEW state \in Ops, NEW from \in Ops,
         NEW to \in Ops, NotifyOne(t, state, from, to)
  PROVE  op' \in [Threads -> Ops]
  BY DEF TypeOK, NotifyOne, In

\* Store(t, m) appends m and keeps the other types.
LEMMA StoreStep ==
  ASSUME TypeOK, NEW t \in Threads, NEW m \in Messages, Store(t, m)
  PROVE  /\ Effect
         /\ op' \in [Threads -> Ops]
         /\ expired' \subseteq Threads
<1>1. "idle" \in Ops /\ "sleepPop" \in Ops /\ "wokenPop" \in Ops
  BY DEF Ops
<1>2. op' \in [Threads -> Ops]
  BY <1>1, NotifyType DEF Store, WakePoppers
<1>3. Effect
  BY DEF Store, Effect
<1> QED
  BY <1>2, <1>3 DEF Store, TypeOK

\* Fetch(t) takes the head of the queue and keeps the other types.
LEMMA FetchStep ==
  ASSUME TypeOK, NEW t \in Threads, Fetch(t)
  PROVE  /\ Effect
         /\ op' \in [Threads -> Ops]
         /\ expired' \subseteq Threads
         /\ UNCHANGED <<arg, ops>>
<1>1. "idle" \in Ops /\ "sleepPush" \in Ops /\ "wokenPush" \in Ops
  BY DEF Ops
<1>2. op' \in [Threads -> Ops]
  BY <1>1, NotifyType DEF Fetch, WakePushers
<1> QED
  BY <1>2 DEF Fetch, TypeOK, Effect

\* Every step has one of the effects, and keeps what it does not have to do
\* with the queue well typed.
LEMMA StepEffect ==
  ASSUME TypeOK, [Next]_vars
  PROVE  /\ Effect
         /\ op' \in [Threads -> Ops]
         /\ arg' \in [Threads -> Messages]
         /\ expired' \subseteq Threads
         /\ ops' \in 0 .. MaxOps
<1> DEFINE Goal == /\ Effect
                   /\ op' \in [Threads -> Ops]
                   /\ arg' \in [Threads -> Messages]
                   /\ expired' \subseteq Threads
                   /\ ops' \in 0 .. MaxOps
<1>0. MaxOps \in Nat
  BY QueueAssumption
<1>1. CASE UNCHANGED vars
  BY <1>1 DEF TypeOK, vars, Effect
<1>2. ASSUME NEW t \in Threads, NEW m \in Messages, Push(t, m)
      PROVE  Goal
  <2>1. ops' \in 0 .. MaxOps /\ arg' \in [Threads -> Messages]
    BY <1>0, <1>2 DEF Push, TypeOK
  <2>2. CASE Store(t, m)
    BY <2>1, <2>2, StoreStep
  <2>3. CASE Sleep(t, "sleepPush")
    BY <2>1, <2>3 DEF Sleep, TypeOK, Ops, Effect
  <2> QED
    BY <1>2, <2>2, <2>3 DEF Push
<1>3. ASSUME NEW t \in Threads, Pop(t)
      PROVE  Goal
  <2>1. CASE Fetch(t)
    BY <2>1, FetchStep DEF TypeOK
  <2>2. CASE Sleep(t, "sleepPop") /\ UNCHANGED <<arg, ops>>
    BY <2>2 DEF Sleep, TypeOK, Ops, Effect
  <2> QED
    BY <1>3, <2>1, <2>2 DEF Pop
<1>4. ASSUME NEW t \in Threads, TryPop(t)
      PROVE  Goal
  BY <1>4, FetchStep DEF TryPop, TypeOK
<1>5. ASSUME NEW t \in Threads, clear(t)
      PROVE  Goal
  BY <1>5 DEF clear, WakeAllPushers, TypeOK, Ops, Effect
<1>6. ASSUME NEW t \in Threads, drain(t)
      PROVE  Goal
  BY <1>6 DEF drain, WakeAllPushers, TypeOK, Ops, Effect
<1>7. ASSUME NEW t \in Threads, Expire(t)
      PROVE  Goal
  BY <1>7 DEF Expire, TypeOK, Ops, Effect
<1>8. ASSUME NEW t \in Threads, Resume(t)
      PROVE  Goal
  <2>1. CASE PushStore(t)
    <3>1. arg[t] \in Messages
      BY DEF TypeOK
    <3> QED
      BY <2>1, <3>1, StoreStep DEF PushStore, TypeOK
  <2>2. CASE PopFetch(t)
    BY <2>2, FetchStep DEF PopFetch, TypeOK
  <2>3. CASE PushAgain(t) \/ PopAgain(t)
    BY <2>3 DEF PushAgain, PopAgain, Sleep, TypeOK, Ops, Effect
  <2>4. CASE PushFails(t) \/ PopFails(t)
    BY <2>4 DEF PushFails, PopFails, GiveUp, TypeOK, Ops, Effect
  <2> QED
    BY <1>8, <2>1, <2>2, <2>3, <2>4 DEF Resume
<1> QED
  BY <1>1, <1>2, <1>3, <1>4, <1>5, <1>6, <1>7, <1>8 DEF Next

\* No effect makes the queue longer than maxSize_.
LEMMA EffectKeeps ==
  ASSUME queue \in Seq(Messages), taken \in Seq(Messages), Bounded, Effect
  PROVE  /\ queue' \in Seq(Messages)
         /\ taken' \in Seq(Messages)
         /\ Bounded'
<1>0. MaxSize \in Nat
  BY QueueAssumption
<1>1. CASE HasRoom /\ UNCHANGED taken /\ \E m \in Messages : queue' = Append(queue, m)
  <2>1. PICK m \in Messages : queue' = Append(queue, m)
    BY <1>1
  <2>2. queue' \in Seq(Messages) /\ Len(queue') = Len(queue) + 1
    BY <2>1, AppendProperties
  <2> QED
    BY <1>0, <1>1, <2>2, LenProperties DEF HasRoom, Bounded
<1>2. CASE queue # <<>> /\ queue' = Tail(queue) /\ taken' = Append(taken, Head(queue))
  <2>1. Head(queue) \in Messages /\ Tail(queue) \in Seq(Messages)
          /\ Len(Tail(queue)) = Len(queue) - 1
    BY <1>2, HeadTailProperties
  <2>2. taken' \in Seq(Messages)
    BY <1>2, <2>1, AppendProperties
  <2> QED
    BY <1>0, <1>2, <2>1, <2>2, LenProperties DEF Bounded
<1>3. CASE queue' = <<>> /\ taken' = taken \o queue
  BY <1>0, <1>3, ConcatProperties, EmptySeq DEF Bounded
<1>4. CASE queue' = <<>> /\ UNCHANGED taken
  BY <1>0, <1>4, EmptySeq DEF Bounded
<1>5. CASE UNCHANGED <<queue, taken>>
  BY <1>5 DEF Bounded
<1> QED
  BY <1>1, <1>2, <1>3, <1>4, <1>5 DEF Effect

\* The queue never holds more than maxSize_ messages: push() evaluates its
\* predicate with the mutex held, also after it was woken for a slot that
\* another thread took.
THEOREM SizeBound == Spec => []QueueInv
<1>1. Init => QueueInv
  BY QueueAssumption, EmptySeq DEF Init, QueueInv, TypeOK, Bounded, Ops
<1>2. QueueInv /\ [Next]_vars => QueueInv'
  <2> SUFFICES ASSUME QueueInv, [Next]_vars
               PROVE  QueueInv'
    OBVIOUS
  <2>1. TypeOK /\ Bounded
    BY DEF QueueInv
  <2>2. /\ Effect
        /\ op' \in [Threads -> Ops]
        /\ arg' \in [Threads -> Messages]
        /\ expired' \subseteq Threads
        /\ ops' \in 0 .. MaxOps
    BY <2>1, StepEffect
  <2>3. /\ queue' \in Seq(Messages)
        /\ taken' \in Seq(Messages)
        /\ Bounded'
    BY <2>1, <2>2, EffectKeeps DEF TypeOK
  <2> QED
    BY <2>2, <2>3 DEF QueueInv, TypeOK
<1> QED
  BY <1>1, <1>2, PTL DEF Spec

\* MessageQueue never exceeds maxSize_ (push()'s predicate).
THEOREM BoundedAlways == Spec => []Bounded
<1>1. QueueInv => Bounded
  BY DEF QueueInv
<1> QED
  BY <1>1, SizeBound, PTL

-----------------------------------------------------------------------------
(* Wakeups.                                                                *)

\* One half of NoLostWakeup: while somebody sleeps, at least n threads are on
\* their way.
Side(sleep, woken, n) == In(sleep) # {} => n <= Cardinality(In(woken))

\* The sets of waiting threads are finite.
LEMMA InFinite ==
  ASSUME NEW state
  PROVE  IsFiniteSet(In(state)) /\ Cardinality(In(state)) \in Nat
<1>1. In(state) \in SUBSET Threads
  BY DEF In
<1>2. IsFiniteSet(In(state))
  BY <1>1, FS_Subset, QueueAssumption
<1> QED
  BY <1>2, FS_CardinalityType

\* Somebody who does not wait makes one more message (or slot) and notifies
\* one sleeper, if there is one.
LEMMA SideNotified ==
  ASSUME TypeOK, NEW sleep \in Ops \ {"idle"}, NEW woken \in Ops \ {"idle"},
         sleep # woken,
         NEW t \in Threads, op[t] \notin {sleep, woken}, NEW n \in Int,
         NotifyOne(t, "idle", sleep, woken), Side(sleep, woken, n)
  PROVE  In(sleep)' # {} => n + 1 <= Cardinality(In(woken)')
<1>1. CASE In(sleep) = {}
  <2>1. In(sleep)' = {}
    BY <1>1 DEF NotifyOne, In, TypeOK
  <2> QED
    BY <2>1
<1>2. CASE In(sleep) # {}
  <2>1. PICK w \in In(sleep) : op' = [op EXCEPT ![t] = "idle", ![w] = woken]
    BY <1>2 DEF NotifyOne
  <2>2. /\ In(woken)' = In(woken) \cup {w}
        /\ w \notin In(woken)
    BY <2>1 DEF In, TypeOK
  <2>3. Cardinality(In(woken)') = Cardinality(In(woken)) + 1
    BY <2>2, InFinite, FS_AddElement
  <2> QED
    BY <1>2, <2>3, InFinite DEF Side
<1> QED
  BY <1>1, <1>2

\* Somebody who is on his way takes a message (or a slot), or somebody who
\* does not wait takes it.  The two threads that notify_one moves are not of
\* this side.
LEMMA SideUsed ==
  ASSUME TypeOK, NEW sleep \in Ops \ {"idle"}, NEW woken \in Ops \ {"idle"},
         NEW from \in Ops \ {"idle", sleep, woken},
         NEW to \in Ops \ {"idle", sleep, woken},
         sleep # woken,
         NEW t \in Threads, op[t] \in {"idle", woken}, NEW n \in Int,
         NotifyOne(t, "idle", from, to), Side(sleep, woken, n)
  PROVE  In(sleep)' # {} => n - 1 <= Cardinality(In(woken)')
<1>1. /\ In(sleep)' = In(sleep)
      /\ In(woken)' = In(woken) \ {t}
  <2>1. CASE In(from) = {}
    BY <2>1 DEF NotifyOne, In, TypeOK
  <2>2. CASE In(from) # {}
    <3>1. PICK w \in In(from) : op' = [op EXCEPT ![t] = "idle", ![w] = to]
      BY <2>2 DEF NotifyOne
    <3> QED
      BY <3>1 DEF In, TypeOK
  <2> QED
    BY <2>1, <2>2
<1>2. Cardinality(In(woken) \ {t}) =
        IF t \in In(woken) THEN Cardinality(In(woken)) - 1
                           ELSE Cardinality(In(woken))
  BY InFinite, FS_RemoveElement
<1> QED
  BY <1>1, <1>2, InFinite DEF Side

\* A thread that stores a message: one message more and one slot less.
LEMMA StoreWakes ==
  ASSUME TypeOK, NoLostWakeup, NEW t \in Threads, NEW m \in Messages,
         op[t] \in {"idle", "wokenPush"}, Store(t, m)
  PROVE  NoLostWakeup'
<1>1. Len(queue) \in Nat /\ Len(queue') = Len(queue) + 1
  BY AppendProperties DEF TypeOK, Store
<1>2. /\ Side("sleepPop", "wokenPop", Len(queue))
      /\ Side("sleepPush", "wokenPush", MaxSize - Len(queue))
  BY DEF NoLostWakeup, Side
<1>3. NotifyOne(t, "idle", "sleepPop", "wokenPop")
  BY DEF Store, WakePoppers
<1>4. In("sleepPop")' # {} => Len(queue) + 1 <= Cardinality(In("wokenPop")')
  BY <1>1, <1>2, <1>3, SideNotified DEF Ops
<1>5. In("sleepPush")' # {} =>
        (MaxSize - Len(queue)) - 1 <= Cardinality(In("wokenPush")')
  BY <1>1, <1>2, <1>3, SideUsed, QueueAssumption DEF Ops
<1> QED
  BY <1>1, <1>4, <1>5, QueueAssumption DEF NoLostWakeup, Side


\* A thread that takes a message: one message less and one slot more.
LEMMA FetchWakes ==
  ASSUME TypeOK, NoLostWakeup, NEW t \in Threads,
         op[t] \in {"idle", "wokenPop"}, Fetch(t)
  PROVE  NoLostWakeup'
<1>1. Len(queue) \in Nat /\ Len(queue') = Len(queue) - 1
  BY HeadTailProperties DEF TypeOK, Fetch
<1>2. /\ Side("sleepPop", "wokenPop", Len(queue))
      /\ Side("sleepPush", "wokenPush", MaxSize - Len(queue))
  BY DEF NoLostWakeup, Side
<1>3. NotifyOne(t, "idle", "sleepPush", "wokenPush")
  BY DEF Fetch, WakePushers
<1>4. In("sleepPush")' # {} =>
        (MaxSize - Len(queue)) + 1 <= Cardinality(In("wokenPush")')
  BY <1>1, <1>2, <1>3, SideNotified, QueueAssumption DEF Ops
<1>5. In("sleepPop")' # {} => Len(queue) - 1 <= Cardinality(In("wokenPop")')
  BY <1>1, <1>2, <1>3, SideUsed DEF Ops
<1> QED
  BY <1>1, <1>4, <1>5, QueueAssumption DEF NoLostWakeup

\* A thread that goes back to sleep, or gives up, does so with an empty (or
\* full) queue; one whose time is over leaves the sleepers and is on its way.
LEMMA WaitWakes ==
  ASSUME TypeOK, Bounded, NoLostWakeup, NEW t \in Threads, UNCHANGED queue,
         NEW to \in Ops, op' = [op EXCEPT ![t] = to],
         \/ to = "sleepPush" /\ op[t] \in {"idle", "wokenPush"} /\ ~HasRoom
         \/ to = "idle" /\ op[t] = "wokenPush" /\ ~HasRoom
         \/ to = "sleepPop" /\ op[t] \in {"idle", "wokenPop"} /\ queue = <<>>
         \/ to = "idle" /\ op[t] = "wokenPop" /\ queue = <<>>
         \/ to = "wokenPush" /\ op[t] = "sleepPush"
         \/ to = "wokenPop" /\ op[t] = "sleepPop"
  PROVE  NoLostWakeup'
<1>0. Len(queue) \in Nat /\ MaxSize \in Nat /\ Len(queue) <= MaxSize
  BY QueueAssumption DEF TypeOK, Bounded
<1>1. \A s \in Ops : In(s)' = IF s = to THEN In(s) \cup {t} ELSE In(s) \ {t}
  BY DEF In, TypeOK
<1>2. \A s \in Ops : /\ Cardinality(In(s)') \in Nat
                     /\ s = to => Cardinality(In(s)') >= Cardinality(In(s))
                     /\ s # to /\ op[t] # s => In(s)' = In(s)
  <2> SUFFICES ASSUME NEW s \in Ops
               PROVE  /\ Cardinality(In(s)') \in Nat
                      /\ s = to => Cardinality(In(s)') >= Cardinality(In(s))
                      /\ s # to /\ op[t] # s => In(s)' = In(s)
    OBVIOUS
  <2>1. IsFiniteSet(In(s)) /\ Cardinality(In(s)) \in Nat
    BY InFinite
  <2>2. CASE s = to
    <3>1. Cardinality(In(s) \cup {t}) =
            IF t \in In(s) THEN Cardinality(In(s)) ELSE Cardinality(In(s)) + 1
      BY <2>1, FS_AddElement
    <3>2. In(s)' = In(s) \cup {t}
      BY <1>1, <2>2
    <3>3. Cardinality(In(s)') = Cardinality(In(s) \cup {t})
      BY <3>2
    <3> QED
      BY <2>1, <2>2, <3>1, <3>3
  <2>3. CASE s # to
    <3>1. /\ IsFiniteSet(In(s) \ {t})
          /\ Cardinality(In(s) \ {t}) \in Nat
      BY <2>1, FS_RemoveElement, FS_CardinalityType
    <3>2. op[t] # s => In(s) \ {t} = In(s)
      BY DEF In
    <3> QED
      BY <1>1, <2>3, <3>1, <3>2
  <2> QED
    BY <2>2, <2>3
<1>3. {"sleepPop", "wokenPop", "sleepPush", "wokenPush"} \subseteq Ops
  BY DEF Ops
<1>4. In("sleepPop")' # {} => Len(queue) <= Cardinality(In("wokenPop")')
  <2>1. CASE queue = <<>>
    BY <1>0, <1>2, <1>3, <2>1
  <2>2. CASE queue # <<>>
    <3>1. In("sleepPop")' # {} => In("sleepPop") # {}
      BY <1>1, <1>3, <2>2
    <3>2. Cardinality(In("wokenPop")') >= Cardinality(In("wokenPop"))
      BY <1>2, <1>3, <2>2, InFinite
    <3> QED
      BY <1>0, <1>2, <1>3, <3>1, <3>2, InFinite DEF NoLostWakeup
  <2> QED
    BY <2>1, <2>2
<1>5. In("sleepPush")' # {} =>
        MaxSize - Len(queue) <= Cardinality(In("wokenPush")')
  <2>1. CASE ~HasRoom
    BY <1>0, <1>2, <1>3, <2>1 DEF HasRoom
  <2>2. CASE HasRoom
    <3>1. In("sleepPush")' # {} => In("sleepPush") # {}
      BY <1>1, <1>3, <2>2
    <3>2. Cardinality(In("wokenPush")') >= Cardinality(In("wokenPush"))
      BY <1>2, <1>3, <2>2, InFinite
    <3> QED
      BY <1>0, <1>2, <1>3, <3>1, <3>2, InFinite DEF NoLostWakeup
  <2> QED
    BY <2>1, <2>2
<1> QED
  BY <1>4, <1>5 DEF NoLostWakeup

\* clear() and drain() leave no message and wake everybody who waits for room.
LEMMA EmptyWakes ==
  ASSUME TypeOK, queue' = <<>>, WakeAllPushers
  PROVE  NoLostWakeup'
<1>1. In("sleepPush")' = {}
  BY DEF In, WakeAllPushers, TypeOK
<1>2. In("wokenPop")' = In("wokenPop")
  BY DEF In, WakeAllPushers, TypeOK
<1> QED
  BY <1>1, <1>2, InFinite DEF NoLostWakeup

\* Every step of a thread keeps the wakeups.
LEMMA WakeupStep == QueueInv /\ NoLostWakeup /\ [Next]_vars => NoLostWakeup'
<1> SUFFICES ASSUME QueueInv, NoLostWakeup, [Next]_vars
             PROVE  NoLostWakeup'
  OBVIOUS
<1>0. TypeOK /\ Bounded
  BY DEF QueueInv
<1>1. CASE UNCHANGED vars
  <2>1. \A s : In(s)' = In(s)
    BY <1>1 DEF vars, In
  <2> QED
    BY <1>1, <2>1 DEF vars, NoLostWakeup
<1>2. ASSUME NEW t \in Threads, NEW m \in Messages, Push(t, m)
      PROVE  NoLostWakeup'
  <2>1. CASE Store(t, m)
    BY <1>0, <1>2, <2>1, StoreWakes DEF Push
  <2>2. CASE ~HasRoom /\ Sleep(t, "sleepPush")
    BY <1>0, <1>2, <2>2, WaitWakes DEF Push, Sleep, Ops
  <2> QED
    BY <1>2, <2>1, <2>2 DEF Push
<1>3. ASSUME NEW t \in Threads, Pop(t)
      PROVE  NoLostWakeup'
  <2>1. CASE Fetch(t)
    BY <1>0, <1>3, <2>1, FetchWakes DEF Pop
  <2>2. CASE queue = <<>> /\ Sleep(t, "sleepPop")
    BY <1>0, <1>3, <2>2, WaitWakes DEF Pop, Sleep, Ops
  <2> QED
    BY <1>3, <2>1, <2>2 DEF Pop
<1>4. ASSUME NEW t \in Threads, TryPop(t)
      PROVE  NoLostWakeup'
  BY <1>0, <1>4, FetchWakes DEF TryPop
<1>5. ASSUME NEW t \in Threads, clear(t) \/ drain(t)
      PROVE  NoLostWakeup'
  BY <1>0, <1>5, EmptyWakes DEF clear, drain
<1>6. ASSUME NEW t \in Threads, Expire(t)
      PROVE  NoLostWakeup'
  <2>1. CASE op[t] = "sleepPop"
    BY <1>0, <1>6, <2>1, WaitWakes DEF Expire, Ops
  <2>2. CASE op[t] = "sleepPush"
    BY <1>0, <1>6, <2>2, WaitWakes DEF Expire, Ops
  <2> QED
    BY <1>6, <2>1, <2>2 DEF Expire
<1>7. ASSUME NEW t \in Threads, Resume(t)
      PROVE  NoLostWakeup'
  <2>1. CASE PushStore(t)
    <3>1. arg[t] \in Messages
      BY <1>0 DEF TypeOK
    <3> QED
      BY <1>0, <2>1, <3>1, StoreWakes DEF PushStore
  <2>2. CASE PopFetch(t)
    BY <1>0, <2>2, FetchWakes DEF PopFetch
  <2>3. CASE PushAgain(t)
    BY <1>0, <2>3, WaitWakes DEF PushAgain, Sleep, Ops
  <2>4. CASE PopAgain(t)
    BY <1>0, <2>4, WaitWakes DEF PopAgain, Sleep, Ops
  <2>5. CASE PushFails(t)
    BY <1>0, <2>5, WaitWakes DEF PushFails, GiveUp, Ops
  <2>6. CASE PopFails(t)
    BY <1>0, <2>6, WaitWakes DEF PopFails, GiveUp, Ops
  <2> QED
    BY <1>7, <2>1, <2>2, <2>3, <2>4, <2>5, <2>6 DEF Resume
<1> QED
  BY <1>1, <1>2, <1>3, <1>4, <1>5, <1>6, <1>7 DEF Next

\* No wakeup of push() or pop() is lost, for any number of threads: one
\* notify_one per message and per slot is enough, since a thread that is on
\* its way either takes what it was woken for or finds that it is gone.
THEOREM WakeupsKept == Spec => []NoLostWakeup
<1>1. Init => NoLostWakeup
  BY DEF Init, NoLostWakeup, In
<1> QED
  BY <1>1, WakeupStep, SizeBound, PTL DEF Spec

-----------------------------------------------------------------------------
(* Refinement.                                                             *)

\* Whatever threads push, pop, drain, clear and time out, what consumers get
\* is what a bounded first-in first-out queue gives them.
THEOREM FifoRefinement == Spec => ImplementsFifo
<1>1. Init => Fifo!FifoInit
  BY DEF Init, Fifo!FifoInit
<1>2. QueueInv /\ [Next]_vars => [Fifo!FifoNext]_(Fifo!fifoVars)
  <2> SUFFICES ASSUME QueueInv, [Next]_vars
               PROVE  Fifo!FifoNext \/ UNCHANGED <<queue, taken>>
    BY DEF Fifo!fifoVars
  <2>1. Effect
    BY StepEffect DEF QueueInv
  <2> QED
    BY <2>1 DEF Effect, HasRoom, Fifo!FifoNext, Fifo!Put, Fifo!Get,
                Fifo!GetAll, Fifo!Discard
<1> QED
  BY <1>1, <1>2, SizeBound, PTL DEF Spec, ImplementsFifo, Fifo!FifoSpec

=============================================================================
