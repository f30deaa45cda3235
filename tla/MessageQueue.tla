---------------------------- MODULE MessageQueue ----------------------------
(***************************************************************************)
(* Class MessageQueue (src/chat/message_queue.cpp): a bounded queue with   *)
(* timed push and pop, for any number of threads.                          *)
(*                                                                         *)
(* mutex_ is held from the entry of an operation to its return or to its   *)
(* wait, so each such section is one action.  wait_for with a predicate    *)
(* sleeps in the condition variable's wait set; a thread leaves it when it *)
(* is notified or when its time is over (or spuriously: the same step),    *)
(* and then evaluates the predicate again with the mutex held.             *)
(***************************************************************************)
EXTENDS Naturals, Sequences, FiniteSets

CONSTANTS
  Threads,     \* the callers
  Messages,    \* the messages
  MaxSize,     \* maxSize_
  MaxOps       \* bound: calls of push

ASSUME QueueAssumption ==
  /\ IsFiniteSet(Threads)
  /\ MaxSize \in Nat
  /\ MaxOps \in Nat

VARIABLES
  queue,       \* queue_
  op,          \* what each thread is doing
  arg,         \* the message that a pushing thread holds
  expired,     \* the threads whose wait_for is over its time
  taken,       \* history: what consumers got, in order
  ops          \* how many calls of push were made

vars == <<queue, op, arg, expired, taken, ops>>

\* "sleepPush" and "sleepPop" are the wait sets of notFull_ and notEmpty_;
\* a thread in "wokenPush" or "wokenPop" is about to get the mutex back.
Ops == {"idle", "sleepPush", "wokenPush", "sleepPop", "wokenPop"}

\* Type invariant.
TypeOK ==
  /\ queue \in Seq(Messages)
  /\ op \in [Threads -> Ops]
  /\ arg \in [Threads -> Messages]
  /\ expired \subseteq Threads
  /\ taken \in Seq(Messages)
  /\ ops \in 0 .. MaxOps

Init ==
  /\ queue = <<>>
  /\ op = [t \in Threads |-> "idle"]
  /\ arg \in [Threads -> Messages]
  /\ expired = {}
  /\ taken = <<>>
  /\ ops = 0

-----------------------------------------------------------------------------
In(state) == {t \in Threads : op[t] = state}

\* Mutant of NotifyOne: the notification is missing.
NotifyNobody(t, state, from, to) == op' = [op EXCEPT ![t] = state]

\* op after thread t went to `state` and, if the set is not empty, a thread
\* asleep in `from` was notified.
NotifyOne(t, state, from, to) ==
  IF In(from) = {}
    THEN op' = [op EXCEPT ![t] = state]
    ELSE \E w \in In(from) : op' = [op EXCEPT ![t] = state, ![w] = to]

WakePoppers(t, state) == NotifyOne(t, state, "sleepPop", "wokenPop")
WakePushers(t, state) == NotifyOne(t, state, "sleepPush", "wokenPush")

\* notFull_.notify_all()
WakeAllPushers ==
  op' = [t \in Threads |-> IF op[t] = "sleepPush" THEN "wokenPush" ELSE op[t]]

HasRoom == Len(queue) < MaxSize

\* push() with the mutex held and room in the queue.
Store(t, m) ==
  /\ HasRoom
  /\ queue' = Append(queue, m)
  /\ WakePoppers(t, "idle")
  /\ expired' = expired \ {t}
  /\ UNCHANGED taken

\* Mutant of Fetch: the newest message is taken.
FetchNewest(t) ==
  /\ queue # <<>>
  /\ queue' = SubSeq(queue, 1, Len(queue) - 1)
  /\ taken' = Append(taken, queue[Len(queue)])
  /\ WakePushers(t, "idle")
  /\ expired' = expired \ {t}
  /\ UNCHANGED <<arg, ops>>

\* pop() with the mutex held and a message in the queue.
Fetch(t) ==
  /\ queue # <<>>
  /\ queue' = Tail(queue)
  /\ taken' = Append(taken, Head(queue))
  /\ WakePushers(t, "idle")
  /\ expired' = expired \ {t}
  /\ UNCHANGED <<arg, ops>>

Sleep(t, state) ==
  /\ op' = [op EXCEPT ![t] = state]
  /\ UNCHANGED <<queue, expired, taken>>

\* wait_for is over its time and the predicate is still false.
GiveUp(t) ==
  /\ t \in expired
  /\ op' = [op EXCEPT ![t] = "idle"]
  /\ expired' = expired \ {t}
  /\ UNCHANGED <<queue, arg, taken, ops>>

\* push() is called.
Push(t, m) ==
  /\ op[t] = "idle"
  /\ ops < MaxOps
  /\ ops' = ops + 1
  /\ arg' = [arg EXCEPT ![t] = m]
  /\ \/ Store(t, m)
     \/ ~HasRoom /\ Sleep(t, "sleepPush")

PushStore(t) ==
  /\ op[t] = "wokenPush"
  /\ Store(t, arg[t])
  /\ UNCHANGED <<arg, ops>>

PushAgain(t) ==
  /\ op[t] = "wokenPush"
  /\ ~HasRoom
  /\ t \notin expired
  /\ Sleep(t, "sleepPush")
  /\ UNCHANGED <<arg, ops>>

PushFails(t) ==
  /\ op[t] = "wokenPush"
  /\ ~HasRoom
  /\ GiveUp(t)

\* pop() is called; a nonempty queue is served at once.
Pop(t) ==
  /\ op[t] = "idle"
  /\ \/ Fetch(t)
     \/ queue = <<>> /\ Sleep(t, "sleepPop") /\ UNCHANGED <<arg, ops>>

PopFetch(t) ==
  /\ op[t] = "wokenPop"
  /\ Fetch(t)

PopAgain(t) ==
  /\ op[t] = "wokenPop"
  /\ queue = <<>>
  /\ t \notin expired
  /\ Sleep(t, "sleepPop")
  /\ UNCHANGED <<arg, ops>>

PopFails(t) ==
  /\ op[t] = "wokenPop"
  /\ queue = <<>>
  /\ GiveUp(t)

\* Mutant of Expire: push() waits without a timeout.
ExpirePopOnly(t) ==
  /\ op[t] = "sleepPop"
  /\ expired' = expired \cup {t}
  /\ op' = [op EXCEPT ![t] = "wokenPop"]
  /\ UNCHANGED <<queue, arg, taken, ops>>

\* The time of a waiting thread is over.
Expire(t) ==
  /\ op[t] \in {"sleepPush", "sleepPop"}
  /\ expired' = expired \cup {t}
  /\ op' = [op EXCEPT ![t] = IF @ = "sleepPop" THEN "wokenPop" ELSE "wokenPush"]
  /\ UNCHANGED <<queue, arg, taken, ops>>

\* tryPop(), with a message in the queue.
TryPop(t) ==
  /\ op[t] = "idle"
  /\ Fetch(t)

clear(t) ==
  /\ op[t] = "idle"
  /\ queue' = <<>>
  /\ WakeAllPushers
  /\ UNCHANGED <<arg, expired, taken, ops>>

\* drain() hands every message to its callback with the mutex held.
drain(t) ==
  /\ op[t] = "idle"
  /\ queue' = <<>>
  /\ taken' = taken \o queue
  /\ WakeAllPushers
  /\ UNCHANGED <<arg, expired, ops>>

\* A thread that is out of the wait set returns from wait_for.
Resume(t) ==
  \/ PushStore(t)
  \/ PushAgain(t)
  \/ PushFails(t)
  \/ PopFetch(t)
  \/ PopAgain(t)
  \/ PopFails(t)

Next ==
  \E t \in Threads :
    \/ \E m \in Messages : Push(t, m)
    \/ Pop(t)
    \/ TryPop(t)
    \/ clear(t)
    \/ drain(t)
    \/ Expire(t)
    \/ Resume(t)

Spec == Init /\ [][Next]_vars

\* Clocks run and the scheduler and the mutex starve nobody for ever.
FairSpec == Spec /\ \A t \in Threads : WF_vars(Expire(t)) /\ SF_vars(Resume(t))

-----------------------------------------------------------------------------
(* Properties.                                                             *)

\* The queue never holds more than maxSize_ messages, although a pusher may
\* have been woken for a slot that somebody else took.
Bounded == Len(queue) <= MaxSize

\* No wakeup is lost: while somebody sleeps in pop(), there are at least as
\* many threads on their way out of pop()'s wait as there are messages; and
\* likewise for push() and free slots.  notify_one per message is enough only
\* because wait_for evaluates its predicate again after a timeout.
NoLostWakeup ==
  /\ In("sleepPop") # {} => Len(queue) <= Cardinality(In("wokenPop"))
  /\ In("sleepPush") # {} =>
       MaxSize - Len(queue) <= Cardinality(In("wokenPush"))

\* push() and pop() return.
EveryCallReturns == \A t \in Threads : op[t] # "idle" ~> op[t] = "idle"

\* The queue implements BoundedFifo.
Fifo == INSTANCE BoundedFifo

ImplementsFifo == Fifo!FifoSpec

=============================================================================
