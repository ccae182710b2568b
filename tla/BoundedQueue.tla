---------------------------- MODULE BoundedQueue ----------------------------
(***************************************************************************)
(* BoundedQueue<T> of fma-common/bounded_queue.h: a deque of at most       *)
(* capacity elements, guarded by one mutex, with the condition variables   *)
(* cv_ok_to_push (pushers and WaitEmpty callers wait on it) and            *)
(* cv_ok_to_pop.  A critical section is one atomic step: a thread that     *)
(* finds its condition false enters a wait set, and a notification takes   *)
(* it out, after which it must re-acquire the mutex and test again.        *)
(***************************************************************************)
EXTENDS Integers, Sequences, FiniteSets

CONSTANTS
  Pushers,       \* threads that call Push
  FrontPoppers,  \* threads that call Pop or PopFront
  BackPoppers,   \* threads that call PopBack
  EmptyWaiters,  \* threads that call WaitEmpty
  Items,         \* the elements, each pushed successfully at most once
  NoItem,        \* not an element
  Capacities     \* the capacities the constructor or SetCapacity may be given

Poppers == FrontPoppers \cup BackPoppers
Threads == Pushers \cup Poppers \cup EmptyWaiters

\* A thread keeps one role; a capacity of zero would block every Push forever.
ASSUME QueueAssumption ==
  /\ Pushers \cap (Poppers \cup EmptyWaiters) = {}
  /\ Poppers \cap EmptyWaiters = {}
  /\ FrontPoppers \cap BackPoppers = {}
  /\ IsFiniteSet(Threads)
  /\ NoItem \notin Items
  /\ Capacities \subseteq Nat \ {0}

VARIABLES
  queue,          \* queue_, front first
  kill_switch,    \* kill_switch_
  capacity,       \* capacity_
  cv_ok_to_push,  \* threads blocked in cv_ok_to_push_.wait
  cv_ok_to_pop,   \* threads blocked in cv_ok_to_pop_.wait
  op,             \* op[t]: the call t is in, or "idle"
  item,           \* item[t]: the argument of t's Push
  accepted,       \* history: the elements whose Push returned true, in order
  taken           \* history: the elements Pop returned, in order

vars == <<queue, kill_switch, capacity, cv_ok_to_push, cv_ok_to_pop, op, item,
          accepted, taken>>

Elements(s) == {s[i] : i \in 1..Len(s)}

Active(o) == {t \in Threads : op[t] = o}
Blocked == cv_ok_to_push \cup cv_ok_to_pop
\* Threads inside call o that hold no wait: they will take the mutex.
Awake(o) == Active(o) \ Blocked

(***************************************************************************)
(* Condition variables.  notify_one wakes any one waiter, or nobody.       *)
(***************************************************************************)
NotifyOne(cv) == IF cv = {} THEN {{}} ELSE {cv \ {t} : t \in cv}

Return(t) ==
  /\ op' = [op EXCEPT ![t] = "idle"]
  /\ item' = [item EXCEPT ![t] = NoItem]

Init ==
  /\ queue = <<>>
  /\ kill_switch = FALSE
  /\ capacity \in Capacities
  /\ cv_ok_to_push = {} /\ cv_ok_to_pop = {}
  /\ op = [t \in Threads |-> "idle"]
  /\ item = [t \in Threads |-> NoItem]
  /\ accepted = <<>> /\ taken = <<>>

\* SetCapacity takes no lock; it "MUST be called before pushing any element".
SetCapacity ==
  /\ accepted = <<>> /\ Active("push") = {}
  /\ capacity' \in Capacities
  /\ UNCHANGED <<queue, kill_switch, cv_ok_to_push, cv_ok_to_pop, op, item,
                 accepted, taken>>

(***************************************************************************)
(* Push                                                                    *)
(***************************************************************************)
\* WaitEmpty "should be used when no one is pushing": nobody starts a Push
\* during one.
CallPush(t, d) ==
  /\ op[t] = "idle"
  /\ Active("wait_empty") = {}
  /\ d \notin Elements(accepted) \cup {item[u] : u \in Threads}
  /\ op' = [op EXCEPT ![t] = "push"]
  /\ item' = [item EXCEPT ![t] = d]
  /\ UNCHANGED <<queue, kill_switch, capacity, cv_ok_to_push, cv_ok_to_pop,
                 accepted, taken>>

\* Mutants: the capacity test off by one; the wake-up of a popper forgotten.
PushBlocks_OffByOne == Len(queue) > capacity /\ ~kill_switch
PushBlocks == Len(queue) >= capacity /\ ~kill_switch

WakePopper_Forgotten == {cv_ok_to_pop}
WakePopper == NotifyOne(cv_ok_to_pop)

PushWait(t) ==
  /\ t \in Awake("push") /\ PushBlocks
  /\ cv_ok_to_push' = cv_ok_to_push \cup {t}
  /\ UNCHANGED <<queue, kill_switch, capacity, cv_ok_to_pop, op, item, accepted, taken>>

PushKilled(t) ==
  /\ t \in Awake("push") /\ kill_switch
  /\ Return(t)
  /\ UNCHANGED <<queue, kill_switch, capacity, cv_ok_to_push, cv_ok_to_pop,
                 accepted, taken>>

Push(t) ==
  /\ t \in Awake("push") /\ ~PushBlocks /\ ~kill_switch
  /\ queue' = Append(queue, item[t])
  /\ accepted' = Append(accepted, item[t])
  /\ cv_ok_to_pop' \in WakePopper
  /\ Return(t)
  /\ UNCHANGED <<kill_switch, capacity, cv_ok_to_push, taken>>

(***************************************************************************)
(* PopFront and PopBack (PopImpl)                                          *)
(***************************************************************************)
CallPop(t) ==
  /\ op[t] = "idle"
  /\ op' = [op EXCEPT ![t] = "pop"]
  /\ UNCHANGED <<queue, kill_switch, capacity, cv_ok_to_push, cv_ok_to_pop, item,
                 accepted, taken>>

PopBlocks == queue = <<>> /\ ~kill_switch

PopWait(t) ==
  /\ t \in Awake("pop") /\ PopBlocks
  /\ cv_ok_to_pop' = cv_ok_to_pop \cup {t}
  /\ UNCHANGED <<queue, kill_switch, capacity, cv_ok_to_push, op, item, accepted, taken>>

\* A killed queue yields nothing, whatever it still holds.
PopKilled(t) ==
  /\ t \in Awake("pop") /\ kill_switch
  /\ Return(t)
  /\ UNCHANGED <<queue, kill_switch, capacity, cv_ok_to_push, cv_ok_to_pop,
                 accepted, taken>>

\* Mutant: notify a pusher only when the queue stops being full.
WakePusher_OnlyIfWasFull(left) ==
  IF Len(left) = capacity - 1 THEN NotifyOne(cv_ok_to_push) ELSE {cv_ok_to_push}
WakePusher(left) ==
  IF Len(left) < capacity THEN NotifyOne(cv_ok_to_push) ELSE {cv_ok_to_push}

\* Mutant: the element handed out stays in the queue.
FrontRemoved_Copied == queue
FrontRemoved == Tail(queue)
BackRemoved == SubSeq(queue, 1, Len(queue) - 1)

Take(t, d, left) ==
  /\ t \in Awake("pop") /\ queue # <<>> /\ ~kill_switch
  /\ queue' = left
  /\ taken' = Append(taken, d)
  /\ cv_ok_to_push' \in WakePusher(left)
  /\ Return(t)
  /\ UNCHANGED <<kill_switch, capacity, cv_ok_to_pop, accepted>>

PopFront(t) == Take(t, queue[1], FrontRemoved)
PopBack(t) == Take(t, queue[Len(queue)], BackRemoved)

(***************************************************************************)
(* WaitEmpty, EndQueue                                                     *)
(***************************************************************************)
CallWaitEmpty(t) ==
  /\ op[t] = "idle"
  /\ Active("push") = {}
  /\ op' = [op EXCEPT ![t] = "wait_empty"]
  /\ UNCHANGED <<queue, kill_switch, capacity, cv_ok_to_push, cv_ok_to_pop, item,
                 accepted, taken>>

WaitEmptyWait(t) ==
  /\ t \in Awake("wait_empty") /\ queue # <<>> /\ ~kill_switch
  /\ cv_ok_to_push' = cv_ok_to_push \cup {t}
  /\ UNCHANGED <<queue, kill_switch, capacity, cv_ok_to_pop, op, item, accepted, taken>>

WaitEmpty(t) ==
  /\ t \in Awake("wait_empty") /\ (queue = <<>> \/ kill_switch)
  /\ Return(t)
  /\ UNCHANGED <<queue, kill_switch, capacity, cv_ok_to_push, cv_ok_to_pop,
                 accepted, taken>>

\* Mutant: one waiter is woken where all must be.
WakeAll_OnlyOne(cv) == NotifyOne(cv)
WakeAll(cv) == {{}}

\* Any thread, and the destructor, may call it.
EndQueue ==
  /\ kill_switch' = TRUE
  /\ cv_ok_to_pop' \in WakeAll(cv_ok_to_pop)
  /\ cv_ok_to_push' \in WakeAll(cv_ok_to_push)
  /\ UNCHANGED <<queue, capacity, op, item, accepted, taken>>

\* A condition variable may wake a waiter nobody notified.
SpuriousWakeup(t) ==
  /\ t \in Blocked
  /\ cv_ok_to_push' = cv_ok_to_push \ {t}
  /\ cv_ok_to_pop' = cv_ok_to_pop \ {t}
  /\ UNCHANGED <<queue, kill_switch, capacity, op, item, accepted, taken>>

PushStep(t) == PushWait(t) \/ PushKilled(t) \/ Push(t)
PopStep(t) ==
  \/ PopWait(t)
  \/ PopKilled(t)
  \/ t \in FrontPoppers /\ PopFront(t)
  \/ t \in BackPoppers /\ PopBack(t)
WaitEmptyStep(t) == WaitEmptyWait(t) \/ WaitEmpty(t)

Next ==
  \/ \E t \in Pushers, d \in Items : CallPush(t, d)
  \/ \E t \in Pushers : PushStep(t)
  \/ \E t \in Poppers : CallPop(t) \/ PopStep(t)
  \/ \E t \in EmptyWaiters : CallWaitEmpty(t) \/ WaitEmptyStep(t)
  \/ \E t \in Threads : SpuriousWakeup(t)
  \/ SetCapacity
  \/ EndQueue

Safety == Init /\ [][Next]_vars

(***************************************************************************)
(* A thread that is inside a call and not waiting is scheduled and gets    *)
(* the mutex.  Poppers are the consumer loops of the code, which call Pop  *)
(* again; nothing obliges anybody to push, to wait for emptiness or to     *)
(* kill, and no wake-up comes for free.                                    *)
(***************************************************************************)
Fairness ==
  /\ \A t \in Pushers : WF_vars(PushStep(t))
  /\ \A t \in Poppers : WF_vars(PopStep(t)) /\ WF_vars(CallPop(t))
  /\ \A t \in EmptyWaiters : WF_vars(WaitEmptyStep(t))

Spec == Safety /\ Fairness

-----------------------------------------------------------------------------
\* Types; in particular the queue never outgrows its capacity, whichever
\* pushers were blocked, woken or barged in (Push's while loop).
TypeOK ==
  /\ queue \in Seq(Items)
  /\ kill_switch \in BOOLEAN
  /\ capacity \in Capacities
  /\ cv_ok_to_push \subseteq Active("push") \cup Active("wait_empty")
  /\ cv_ok_to_pop \subseteq Active("pop")
  /\ op \in [Threads -> {"idle", "push", "pop", "wait_empty"}]
  /\ \A t \in Threads : /\ op[t] = "push" => t \in Pushers
                        /\ op[t] = "pop" => t \in Poppers
                        /\ op[t] = "wait_empty" => t \in EmptyWaiters
  /\ item \in [Threads -> Items \cup {NoItem}]
  /\ \A t \in Threads : op[t] = "push" <=> item[t] # NoItem
  /\ accepted \in Seq(Items)
  /\ taken \in Seq(Items)
  /\ Len(queue) <= capacity

\* No wake-up is lost although Push and Pop notify a single waiter.  While a
\* pusher waits, enough pushers are awake to fill every free slot; while a
\* popper waits, enough poppers are awake to take every element; a killed
\* queue has no waiter at all.
NoLostWakeup ==
  /\ cv_ok_to_push \cap Pushers # {} =>
       Len(queue) + Cardinality(Awake("push")) >= capacity
  /\ cv_ok_to_pop # {} => Cardinality(Awake("pop")) >= Len(queue)
  /\ kill_switch => Blocked = {}

\* Every accepted element is in the queue or was handed out, never both and
\* never twice, and the queue keeps the order of acceptance (Push appends,
\* PopFront and PopBack take the two ends).
ExactlyOnceInOrder ==
  /\ Len(accepted) = Len(queue) + Len(taken)
  /\ Elements(accepted) = Elements(queue) \cup Elements(taken)
  /\ Elements(queue) \cap Elements(taken) = {}
  /\ \A i, j \in 1..Len(accepted) : i # j => accepted[i] # accepted[j]
  /\ \A i, j \in 1..Len(queue) : i < j =>
       \E a, b \in 1..Len(accepted) : a < b /\ accepted[a] = queue[i]
                                            /\ accepted[b] = queue[j]

\* A consumer loop receives every accepted element unless the queue is killed.
AllDelivered ==
  \A d \in Items : d \in Elements(accepted) ~> (d \in Elements(taken) \/ kill_switch)

\* "Wait for the queue to become empty": with consumers running, every
\* WaitEmpty returns.
WaitEmptyReturns ==
  \A t \in EmptyWaiters : op[t] = "wait_empty" ~> op[t] = "idle"

\* Waiting on the two condition variables amounts to waiting for the condition
\* itself: the queue implements the blocking queue, its liveness included.
Promise == INSTANCE BlockingQueueSpec WITH
             buf <- queue, closed <- kill_switch, limit <- capacity
ImplementsBlockingQueue == Promise!Spec
=============================================================================
