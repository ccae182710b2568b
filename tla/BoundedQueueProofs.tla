------------------------- MODULE BoundedQueueProofs -------------------------
(***************************************************************************)
(* Proofs about BoundedQueue for any threads, elements and capacities:     *)
(* its types and capacity bound, that no wake-up is lost, that every       *)
(* accepted element is handed out at most once and in order, and that it   *)
(* implements BlockingQueueSpec as far as safety goes.                     *)
(***************************************************************************)
EXTENDS BoundedQueue, FiniteSetTheorems, SequenceTheorems, TLAPS

(***************************************************************************)
(* Type correctness.  SetCapacity may shrink the capacity, so the bound on *)
(* the queue rests on nothing having been accepted by then.                *)
(***************************************************************************)
TypeInv == TypeOK /\ (accepted = <<>> => queue = <<>>)

LEMMA NotifyOneSubset ==
  ASSUME NEW cv, NEW left \in NotifyOne(cv)
  PROVE  left \subseteq cv
BY DEF NotifyOne

LEMMA TypeInvInit == Init => TypeInv
<1> SUFFICES ASSUME Init PROVE TypeInv
  OBVIOUS
<1>1. <<>> \in Seq(Items) /\ Len(<<>>) = 0
  BY EmptySeq
<1>2. capacity \in Capacities /\ 0 <= capacity
  BY QueueAssumption DEF Init
<1>3. /\ op = [t \in Threads |-> "idle"] /\ item = [t \in Threads |-> NoItem]
      /\ cv_ok_to_push = {} /\ cv_ok_to_pop = {}
      /\ kill_switch = FALSE /\ queue = <<>> /\ accepted = <<>> /\ taken = <<>>
  BY DEF Init
<1> QED
  BY <1>1, <1>2, <1>3 DEF TypeInv, TypeOK

LEMMA TypeInvStep == TypeInv /\ [Next]_vars => TypeInv'
<1> SUFFICES ASSUME TypeInv, [Next]_vars
             PROVE  TypeInv'
  OBVIOUS
<1> USE QueueAssumption DEF TypeInv, TypeOK, Active, Awake, Blocked, Return, Poppers, Threads
<1>1. CASE SetCapacity
  BY <1>1 DEF SetCapacity
<1>2. ASSUME NEW t \in Pushers, NEW d \in Items, CallPush(t, d)
      PROVE  TypeInv'
  BY <1>2 DEF CallPush
<1>3. ASSUME NEW t \in Pushers, PushWait(t)
      PROVE  TypeInv'
  BY <1>3 DEF PushWait
<1>4. ASSUME NEW t \in Pushers, PushKilled(t)
      PROVE  TypeInv'
  BY <1>4 DEF PushKilled
<1>5. ASSUME NEW t \in Pushers, Push(t)
      PROVE  TypeInv'
  <2>1. item[t] \in Items /\ Len(queue) < capacity
    BY <1>5 DEF Push, PushBlocks
  <2>2. cv_ok_to_pop' \subseteq cv_ok_to_pop
    BY <1>5, NotifyOneSubset DEF Push, WakePopper
  <2>3. /\ queue' \in Seq(Items) /\ Len(queue') = Len(queue) + 1
        /\ accepted' \in Seq(Items) /\ accepted' # <<>>
    BY <1>5, <2>1 DEF Push
  <2> QED
    BY <1>5, <2>1, <2>2, <2>3 DEF Push
<1>6. ASSUME NEW t \in Poppers, CallPop(t)
      PROVE  TypeInv'
  BY <1>6 DEF CallPop
<1>7. ASSUME NEW t \in Poppers, PopWait(t)
      PROVE  TypeInv'
  BY <1>7 DEF PopWait
<1>8. ASSUME NEW t \in Poppers, PopKilled(t)
      PROVE  TypeInv'
  BY <1>8 DEF PopKilled
<1>9. ASSUME NEW t \in Poppers, NEW d \in Items, NEW left \in Seq(Items),
             Len(left) < Len(queue), Take(t, d, left)
      PROVE  TypeInv'
  <2>1. cv_ok_to_push' \subseteq cv_ok_to_push
    BY <1>9, NotifyOneSubset DEF Take, WakePusher
  <2>2. taken' \in Seq(Items) /\ accepted # <<>>
    BY <1>9 DEF Take
  <2> QED
    BY <1>9, <2>1, <2>2 DEF Take
<1>10. ASSUME NEW t \in Poppers, PopFront(t)
       PROVE  TypeInv'
  <2>1. queue # <<>>
    BY <1>10 DEF PopFront, Take
  <2>2. queue[1] \in Items /\ Tail(queue) \in Seq(Items) /\ Len(Tail(queue)) < Len(queue)
    BY <2>1
  <2> QED
    BY <1>9, <1>10, <2>2 DEF PopFront, FrontRemoved
<1>11. ASSUME NEW t \in Poppers, PopBack(t)
       PROVE  TypeInv'
  <2>1. Len(queue) \in Nat \ {0}
    BY <1>11, EmptySeq DEF PopBack, Take
  <2>2. queue[Len(queue)] \in Items
    BY <2>1, ElementOfSeq
  <2>3. BackRemoved \in Seq(Items) /\ Len(BackRemoved) < Len(queue)
    BY <2>1, SubSeqProperties, ElementOfSeq DEF BackRemoved
  <2> QED
    BY <1>9, <1>11, <2>2, <2>3 DEF PopBack
<1>12. ASSUME NEW t \in EmptyWaiters, CallWaitEmpty(t)
       PROVE  TypeInv'
  BY <1>12 DEF CallWaitEmpty
<1>13. ASSUME NEW t \in EmptyWaiters, WaitEmptyWait(t)
       PROVE  TypeInv'
  BY <1>13 DEF WaitEmptyWait
<1>14. ASSUME NEW t \in EmptyWaiters, WaitEmpty(t)
       PROVE  TypeInv'
  BY <1>14 DEF WaitEmpty
<1>15. CASE EndQueue
  BY <1>15 DEF EndQueue, WakeAll
<1>16. ASSUME NEW t \in Threads, SpuriousWakeup(t)
       PROVE  TypeInv'
  BY <1>16 DEF SpuriousWakeup
<1>17. CASE UNCHANGED vars
  BY <1>17 DEF vars
<1> HIDE DEF TypeInv
<1> QED
  BY <1>1, <1>2, <1>3, <1>4, <1>5, <1>6, <1>7, <1>8, <1>10, <1>11, <1>12, <1>13,
     <1>14, <1>15, <1>16, <1>17
  DEF Next, PushStep, PopStep, WaitEmptyStep

\* The queue's variables keep their types and the queue never exceeds its
\* capacity, however pushers block, wake and barge in (Push, PopImpl,
\* SetCapacity).
THEOREM TypeCorrect == Safety => []TypeOK
<1>1. TypeInv => TypeOK
  BY DEF TypeInv
<1> QED
  BY <1>1, TypeInvInit, TypeInvStep, PTL DEF Safety

(***************************************************************************)
(* No lost wake-up.  A waiter of cv_ok_to_push that Pop wakes is a pusher  *)
(* whenever pushers wait, because WaitEmpty is not called during a Push.   *)
(***************************************************************************)
OnePhase == Active("push") = {} \/ Active("wait_empty") = {}

WakeInv == TypeInv /\ OnePhase /\ NoLostWakeup

LEMMA AwakeFinite ==
  ASSUME NEW o
  PROVE  IsFiniteSet(Awake(o)) /\ Cardinality(Awake(o)) \in Nat
BY QueueAssumption, FS_Subset, FS_CardinalityType DEF Awake, Active

LEMMA AwakeFiniteNext ==
  ASSUME NEW o
  PROVE  IsFiniteSet(Awake(o)')
BY QueueAssumption, FS_Subset DEF Awake, Active

LEMMA OneLess ==
  ASSUME NEW S, NEW T, NEW x \in S, IsFiniteSet(S), IsFiniteSet(T), S \ {x} \subseteq T
  PROVE  Cardinality(T) >= Cardinality(S) - 1
<1>1. Cardinality(S \ {x}) = Cardinality(S) - 1
  BY FS_RemoveElement
<1>2. Cardinality(S \ {x}) <= Cardinality(T)
  BY FS_Subset
<1> QED
  BY <1>1, <1>2, FS_CardinalityType

LEMMA OneMore ==
  ASSUME NEW S, NEW T, NEW x, IsFiniteSet(S), IsFiniteSet(T), x \notin S,
         S \cup {x} \subseteq T
  PROVE  Cardinality(T) >= Cardinality(S) + 1
<1>1. Cardinality(S \cup {x}) = Cardinality(S) + 1
  BY FS_AddElement
<1>2. Cardinality(S \cup {x}) <= Cardinality(T)
  BY FS_Subset
<1> QED
  BY <1>1, <1>2, FS_CardinalityType

\* A step that adds to the awake threads of a call, or leaves them alone,
\* does not lower their number.
LEMMA AwakeGrows ==
  ASSUME NEW o, Awake(o) \subseteq Awake(o)'
  PROVE  Cardinality(Awake(o)) <= Cardinality(Awake(o)')
<1>1. IsFiniteSet(Awake(o)')
  BY QueueAssumption, FS_Subset DEF Awake, Active
<1> QED
  BY <1>1, FS_Subset

LEMMA OnePhaseStep == TypeInv /\ OnePhase /\ [Next]_vars => OnePhase'
<1> SUFFICES ASSUME TypeInv, OnePhase, [Next]_vars
             PROVE  OnePhase'
  OBVIOUS
<1> USE DEF TypeInv, TypeOK, OnePhase, Active
<1>1. ASSUME NEW t \in Pushers, NEW d \in Items, CallPush(t, d)
      PROVE  OnePhase'
  BY <1>1 DEF CallPush
<1>2. ASSUME NEW t \in EmptyWaiters, CallWaitEmpty(t)
      PROVE  OnePhase'
  BY <1>2 DEF CallWaitEmpty
<1>3. ASSUME NEW t \in Threads, Return(t)
      PROVE  OnePhase'
  BY <1>3 DEF Return
<1>4. ASSUME NEW t \in Poppers, CallPop(t)
      PROVE  OnePhase'
  BY <1>4 DEF CallPop
<1>5. ASSUME op' = op
      PROVE  OnePhase'
  BY <1>5
<1> HIDE DEF TypeInv, OnePhase
<1> QED
  BY <1>1, <1>2, <1>3, <1>4, <1>5
  DEF Next, PushStep, PushWait, PushKilled, Push, PopStep, PopWait, PopKilled, PopFront,
      PopBack, Take, WaitEmptyStep, WaitEmptyWait, WaitEmpty, SetCapacity, EndQueue,
      SpuriousWakeup, vars, Threads, Poppers

LEMMA WakeInvStep == WakeInv /\ [Next]_vars => WakeInv'
<1> SUFFICES ASSUME WakeInv, [Next]_vars
             PROVE  NoLostWakeup'
  BY TypeInvStep, OnePhaseStep DEF WakeInv
<1>a. /\ TypeOK
      /\ cv_ok_to_push \cap Pushers # {} =>
           Len(queue) + Cardinality(Awake("push")) >= capacity
      /\ cv_ok_to_pop # {} => Cardinality(Awake("pop")) >= Len(queue)
      /\ kill_switch => Blocked = {}
  BY DEF WakeInv, TypeInv, NoLostWakeup
<1>b. /\ Cardinality(Awake("push")) \in Nat /\ Cardinality(Awake("pop")) \in Nat
      /\ Cardinality(Awake("push")') \in Nat /\ Cardinality(Awake("pop")') \in Nat
      /\ Len(queue) \in Nat /\ capacity \in Nat \ {0}
  <2>1. IsFiniteSet(Awake("push")') /\ IsFiniteSet(Awake("pop")')
    BY QueueAssumption, FS_Subset DEF Awake, Active
  <2> QED
    BY <2>1, <1>a, AwakeFinite, FS_CardinalityType, QueueAssumption, LenProperties DEF TypeOK
<1>1. CASE SetCapacity
  <2>1. cv_ok_to_push \cap Pushers = {}
    BY <1>1, <1>a, QueueAssumption DEF SetCapacity, TypeOK, Active
  <2> QED
    BY <1>1, <1>a, <2>1 DEF SetCapacity, NoLostWakeup, TypeOK, Active, Awake, Blocked
<1>2. ASSUME Awake("push") \subseteq Awake("push")', Awake("pop") \subseteq Awake("pop")',
             cv_ok_to_push' \cap Pushers \subseteq cv_ok_to_push,
             cv_ok_to_pop' \subseteq cv_ok_to_pop,
             kill_switch' => Blocked' = {},
             UNCHANGED <<queue, capacity>>
      PROVE  NoLostWakeup'
  BY <1>2, <1>a, <1>b, AwakeGrows DEF NoLostWakeup
<1>3. ASSUME NEW t \in Pushers, NEW d \in Items, CallPush(t, d)
      PROVE  NoLostWakeup'
  BY <1>2, <1>3, <1>a DEF CallPush, TypeOK, Active, Awake, Blocked
<1>4. ASSUME NEW t \in Pushers, PushWait(t)
      PROVE  NoLostWakeup'
  <2>1. Awake("pop")' = Awake("pop") /\ Len(queue') >= capacity' /\ ~kill_switch'
    BY <1>4, <1>a DEF PushWait, PushBlocks, TypeOK, Active, Awake, Blocked
  <2>2. capacity' = capacity /\ queue' = queue /\ cv_ok_to_pop' = cv_ok_to_pop
    BY <1>4 DEF PushWait
  <2> QED
    BY <1>a, <1>b, <2>1, <2>2 DEF NoLostWakeup
<1>5. ASSUME kill_switch, UNCHANGED <<kill_switch, cv_ok_to_push, cv_ok_to_pop>>
      PROVE  NoLostWakeup'
  BY <1>5, <1>a DEF NoLostWakeup, Blocked
<1>6. ASSUME NEW t \in Pushers, Push(t)
      PROVE  NoLostWakeup'
  <2>1. /\ Len(queue') = Len(queue) + 1 /\ capacity' = capacity
        /\ cv_ok_to_push' = cv_ok_to_push /\ ~kill_switch'
    BY <1>6, <1>a, <1>b DEF Push, Awake, Blocked, TypeOK
  <2>2. Cardinality(Awake("push")') >= Cardinality(Awake("push")) - 1
    <3>1. Awake("push") \ {t} \subseteq Awake("push")'
      BY <1>6, <1>a, NotifyOneSubset DEF Push, Return, WakePopper, TypeOK, Active, Awake, Blocked
    <3>2. t \in Awake("push")
      BY <1>6 DEF Push
    <3> QED
      BY <3>1, <3>2, AwakeFinite, AwakeFiniteNext, OneLess
  <2>3. CASE cv_ok_to_pop' # {}
    <3>1. PICK x \in cv_ok_to_pop : cv_ok_to_pop' = cv_ok_to_pop \ {x}
      BY <1>6, <2>3 DEF Push, WakePopper, NotifyOne
    <3>2. x \notin Awake("pop") /\ Awake("pop") \cup {x} \subseteq Awake("pop")'
      BY <1>6, <1>a, <2>1, <3>1, QueueAssumption DEF Push, Return, Threads, TypeOK, Active, Awake, Blocked
    <3>3. Cardinality(Awake("pop")') >= Cardinality(Awake("pop")) + 1
      BY <3>2, AwakeFinite, AwakeFiniteNext, OneMore
    <3> QED
      BY <1>a, <1>b, <2>1, <2>2, <2>3, <3>1, <3>3 DEF NoLostWakeup
  <2>4. CASE cv_ok_to_pop' = {}
    BY <1>a, <1>b, <2>1, <2>2, <2>4 DEF NoLostWakeup
  <2> QED
    BY <2>3, <2>4
<1>7. ASSUME NEW t \in Poppers, CallPop(t)
      PROVE  NoLostWakeup'
  BY <1>2, <1>7, <1>a DEF CallPop, TypeOK, Active, Awake, Blocked
<1>8. ASSUME NEW t \in Poppers, PopWait(t)
      PROVE  NoLostWakeup'
  <2>1. Awake("push")' = Awake("push") /\ Len(queue') = 0 /\ ~kill_switch'
    BY <1>8, <1>a DEF PopWait, PopBlocks, TypeOK, Active, Awake, Blocked
  <2>2. capacity' = capacity /\ queue' = queue /\ cv_ok_to_push' = cv_ok_to_push
    BY <1>8 DEF PopWait
  <2> QED
    BY <1>a, <1>b, <2>1, <2>2 DEF NoLostWakeup
<1>9. ASSUME NEW t \in Poppers, NEW d, NEW left \in Seq(Items),
             Len(left) = Len(queue) - 1, Take(t, d, left)
      PROVE  NoLostWakeup'
  <2>1. /\ Len(queue') = Len(queue) - 1 /\ capacity' = capacity
        /\ cv_ok_to_pop' = cv_ok_to_pop /\ ~kill_switch'
        /\ cv_ok_to_push' \in NotifyOne(cv_ok_to_push)
    BY <1>9, <1>a, <1>b DEF Take, WakePusher, TypeOK
  <2>2. Cardinality(Awake("pop")') >= Cardinality(Awake("pop")) - 1
    <3>1. Awake("pop") \ {t} \subseteq Awake("pop")'
      BY <1>9, <1>a, <2>1, NotifyOneSubset DEF Take, Return, TypeOK, Active, Awake, Blocked
    <3>2. t \in Awake("pop")
      BY <1>9 DEF Take
    <3> QED
      BY <3>1, <3>2, AwakeFinite, AwakeFiniteNext, OneLess
  <2>3. CASE cv_ok_to_push' \cap Pushers # {}
    <3>1. PICK x \in cv_ok_to_push : cv_ok_to_push' = cv_ok_to_push \ {x}
      BY <2>1, <2>3 DEF NotifyOne
    <3>2. op[x] = "push"
      <4>1. PICK p \in cv_ok_to_push \cap Pushers : TRUE
        BY <2>3, <3>1
      <4>2. op[p] = "push" /\ p \in Threads
        BY <4>1, <1>a, QueueAssumption DEF Threads, TypeOK, Active
      <4>3. Active("wait_empty") = {}
        BY <4>2 DEF WakeInv, OnePhase, Active
      <4> QED
        BY <4>3, <1>a DEF TypeOK, Active
    <3>3. x \notin Awake("push") /\ Awake("push") \cup {x} \subseteq Awake("push")'
      BY <1>9, <1>a, <2>1, <3>1, <3>2, QueueAssumption DEF Take, Return, Threads, TypeOK, Active, Awake, Blocked
    <3>4. Cardinality(Awake("push")') >= Cardinality(Awake("push")) + 1
      BY <3>3, AwakeFinite, AwakeFiniteNext, OneMore
    <3> QED
      BY <1>a, <1>b, <2>1, <2>2, <2>3, <3>1, <3>4 DEF NoLostWakeup
  <2>4. CASE cv_ok_to_push' \cap Pushers = {}
    BY <1>a, <1>b, <2>1, <2>2, <2>4 DEF NoLostWakeup
  <2> QED
    BY <2>3, <2>4
<1>10. ASSUME NEW t \in Poppers, PopFront(t) \/ PopBack(t)
       PROVE  NoLostWakeup'
  <2>1. queue \in Seq(Items) /\ queue # <<>>
    BY <1>10, <1>a DEF PopFront, PopBack, Take, TypeOK
  <2>2. FrontRemoved \in Seq(Items) /\ Len(FrontRemoved) = Len(queue) - 1
    BY <2>1, HeadTailProperties DEF FrontRemoved
  <2>3. BackRemoved \in Seq(Items) /\ Len(BackRemoved) = Len(queue) - 1
    BY <2>1, SubSeqProperties, ElementOfSeq, EmptySeq DEF BackRemoved
  <2> QED
    BY <1>9, <1>10, <2>2, <2>3 DEF PopFront, PopBack
<1>11. ASSUME NEW t \in EmptyWaiters, CallWaitEmpty(t)
       PROVE  NoLostWakeup'
  BY <1>2, <1>11, <1>a DEF CallWaitEmpty, TypeOK, Active, Awake, Blocked
<1>12. ASSUME NEW t \in EmptyWaiters, WaitEmptyWait(t)
       PROVE  NoLostWakeup'
  <2>1. t \notin Pushers /\ op[t] # "push" /\ op[t] # "pop"
    BY <1>12, QueueAssumption DEF WaitEmptyWait, TypeOK, Active, Awake, Blocked
  <2> QED
    BY <1>2, <1>12, <1>a, <2>1 DEF WaitEmptyWait, TypeOK, Active, Awake, Blocked
<1>13. ASSUME NEW t \in EmptyWaiters, WaitEmpty(t)
       PROVE  NoLostWakeup'
  <2>1. Awake("push") \subseteq Awake("push")' /\ Awake("pop") \subseteq Awake("pop")'
    BY <1>13, <1>a DEF WaitEmpty, Return, TypeOK, Active, Awake, Blocked
  <2> QED
    BY <1>2, <1>13, <1>a, <2>1 DEF WaitEmpty, Blocked
<1>14. CASE EndQueue
  BY <1>14 DEF EndQueue, WakeAll, NoLostWakeup, Blocked
<1>15. ASSUME NEW t \in Threads, SpuriousWakeup(t)
       PROVE  NoLostWakeup'
  BY <1>2, <1>15, <1>a DEF SpuriousWakeup, TypeOK, Active, Awake, Blocked
<1>16. CASE UNCHANGED vars
  BY <1>2, <1>16, <1>a DEF vars, TypeOK, Active, Awake, Blocked
<1> QED
  BY <1>1, <1>3, <1>4, <1>5, <1>6, <1>7, <1>8, <1>10, <1>11, <1>12, <1>13, <1>14, <1>15,
     <1>16
  DEF Next, PushStep, PushKilled, PopStep, PopKilled, WaitEmptyStep, Threads, Poppers

\* Although Push and Pop wake a single waiter, a slot or an element is never
\* left to threads that all sleep, and EndQueue leaves no sleeper behind.
THEOREM WakeupsSuffice == Safety => []NoLostWakeup
<1>1. Init => WakeInv
  BY TypeInvInit DEF Init, WakeInv, OnePhase, NoLostWakeup, Active, Blocked
<1>2. WakeInv => NoLostWakeup
  BY DEF WakeInv
<1> QED
  BY <1>1, <1>2, WakeInvStep, PTL DEF Safety

(***************************************************************************)
(* Exactly once, in order.  The element of a call in progress is new: not  *)
(* yet accepted, and nobody else's.                                        *)
(***************************************************************************)
PendingIsNew ==
  \A t \in Threads : item[t] # NoItem =>
    /\ item[t] \notin Elements(accepted)
    /\ \A u \in Threads : u # t => item[u] # item[t]

OrderInv == TypeInv /\ PendingIsNew /\ ExactlyOnceInOrder

LEMMA AppendElements ==
  ASSUME NEW s \in Seq(Items), NEW d \in Items
  PROVE  /\ Append(s, d) \in Seq(Items)
         /\ Len(Append(s, d)) = Len(s) + 1
         /\ \A i \in 1..Len(s) : Append(s, d)[i] = s[i]
         /\ Append(s, d)[Len(s) + 1] = d
         /\ Elements(Append(s, d)) = Elements(s) \cup {d}
<1>1. /\ Append(s, d) \in Seq(Items)
      /\ Len(Append(s, d)) = Len(s) + 1
      /\ \A i \in 1..Len(s) : Append(s, d)[i] = s[i]
      /\ Append(s, d)[Len(s) + 1] = d
      /\ Len(s) \in Nat
  BY LenProperties
<1>2. \A i \in 1..(Len(s) + 1) : i \in 1..Len(s) \/ i = Len(s) + 1
  BY <1>1
<1>3. 1..Len(s) \subseteq 1..(Len(s) + 1) /\ Len(s) + 1 \in 1..(Len(s) + 1)
  BY <1>1
<1> QED
  BY <1>1, <1>2, <1>3 DEF Elements

LEMMA PushKeepsOrder ==
  ASSUME OrderInv, NEW t \in Pushers, Push(t)
  PROVE  ExactlyOnceInOrder'
<1> DEFINE d == item[t]
<1>1. /\ d \in Items /\ d \notin Elements(accepted)
      /\ queue \in Seq(Items) /\ accepted \in Seq(Items) /\ taken \in Seq(Items)
      /\ queue' = Append(queue, d) /\ accepted' = Append(accepted, d) /\ taken' = taken
  BY DEF OrderInv, TypeInv, TypeOK, PendingIsNew, Push, Awake, Active, Threads
<1>2. Len(queue) \in Nat /\ Len(accepted) \in Nat /\ Len(taken) \in Nat
  BY <1>1, LenProperties
<1>3. /\ Len(accepted) = Len(queue) + Len(taken)
      /\ Elements(accepted) = Elements(queue) \cup Elements(taken)
      /\ Elements(queue) \cap Elements(taken) = {}
      /\ \A i, j \in 1..Len(accepted) : i # j => accepted[i] # accepted[j]
      /\ \A i, j \in 1..Len(queue) : i < j =>
           \E a, b \in 1..Len(accepted) : a < b /\ accepted[a] = queue[i]
                                                /\ accepted[b] = queue[j]
  BY DEF OrderInv, ExactlyOnceInOrder
<1>4. /\ Len(queue') = Len(queue) + 1 /\ Elements(queue') = Elements(queue) \cup {d}
      /\ \A i \in 1..Len(queue) : queue'[i] = queue[i]
      /\ queue'[Len(queue) + 1] = d
  BY <1>1, AppendElements
<1>5. /\ Len(accepted') = Len(accepted) + 1
      /\ Elements(accepted') = Elements(accepted) \cup {d}
      /\ \A i \in 1..Len(accepted) : accepted'[i] = accepted[i]
      /\ accepted'[Len(accepted) + 1] = d
  BY <1>1, AppendElements
<1>6. \A i \in 1..Len(accepted) : accepted[i] # d
  BY <1>1 DEF Elements
<1>7. /\ Len(accepted') = Len(queue') + Len(taken')
      /\ Elements(accepted') = Elements(queue') \cup Elements(taken)
      /\ Elements(queue') \cap Elements(taken) = {}
  BY <1>1, <1>2, <1>3, <1>4, <1>5
<1>8. \A i, j \in 1..Len(accepted') : i # j => accepted'[i] # accepted'[j]
  <2>1. \A i \in 1..Len(accepted') : i \in 1..Len(accepted) \/ i = Len(accepted) + 1
    BY <1>2, <1>5
  <2> HIDE DEF d
  <2> QED
    BY <1>3, <1>5, <1>6, <2>1
<1>9. ASSUME NEW i \in 1..Len(queue'), NEW j \in 1..Len(queue'), i < j
      PROVE  \E a, b \in 1..Len(accepted') : a < b /\ accepted'[a] = queue'[i]
                                                   /\ accepted'[b] = queue'[j]
  <2>1. i \in 1..Len(queue)
    BY <1>2, <1>4, <1>9
  <2>2. CASE j \in 1..Len(queue)
    <3>1. PICK a \in 1..Len(accepted), b \in 1..Len(accepted) :
            a < b /\ accepted[a] = queue[i] /\ accepted[b] = queue[j]
      BY <1>3, <1>9, <2>1, <2>2
    <3> QED
      BY <3>1, <1>2, <1>4, <1>5, <2>1, <2>2
  <2>3. CASE j = Len(queue) + 1
    <3>1. queue[i] \in Elements(accepted)
      BY <1>3, <2>1 DEF Elements
    <3>2. PICK a \in 1..Len(accepted) : accepted[a] = queue[i]
      BY <3>1 DEF Elements
    <3>3. a < Len(accepted) + 1 /\ Len(accepted) + 1 \in 1..Len(accepted')
          /\ a \in 1..Len(accepted')
      BY <1>2, <1>5, <3>2
    <3> QED
      BY <3>2, <3>3, <1>4, <1>5, <2>1, <2>3
  <2> QED
    BY <1>2, <1>4, <2>2, <2>3
<1>10. /\ Elements(queue)' = Elements(queue')
       /\ Elements(accepted)' = Elements(accepted')
       /\ Elements(taken)' = Elements(taken)
  BY <1>1 DEF Elements
<1> QED
  BY <1>1, <1>7, <1>8, <1>9, <1>10 DEF ExactlyOnceInOrder

\* The elements of q appear in s in the same order.
InOrderOf(q, s) ==
  \A i, j \in 1..Len(q) : i < j => \E a, b \in 1..Len(s) : a < b /\ s[a] = q[i] /\ s[b] = q[j]

\* Both ends: k is the position of the element taken.
LEMMA TakeKeepsOrder ==
  ASSUME OrderInv, NEW t \in Poppers, NEW k \in {1, Len(queue)}, NEW left \in Seq(Items),
         queue # <<>>, Len(left) = Len(queue) - 1,
         \A i \in 1..Len(left) : left[i] = queue[IF k = 1 THEN i + 1 ELSE i],
         Take(t, queue[k], left)
  PROVE  ExactlyOnceInOrder'
<1> DEFINE d == queue[k]
<1>1. /\ queue \in Seq(Items) /\ accepted \in Seq(Items) /\ taken \in Seq(Items)
      /\ queue' = left /\ taken' = Append(taken, d) /\ accepted' = accepted
  BY DEF OrderInv, TypeInv, TypeOK, Take
<1>2. /\ Len(queue) \in Nat \ {0} /\ Len(accepted) \in Nat /\ Len(taken) \in Nat
      /\ k \in 1..Len(queue) /\ d \in Items
  <2>1. Len(queue) \in Nat \ {0} /\ Len(accepted) \in Nat /\ Len(taken) \in Nat
    BY <1>1, EmptySeq, LenProperties
  <2>2. k \in 1..Len(queue)
    BY <2>1
  <2> QED
    BY <2>1, <2>2, <1>1, ElementOfSeq
<1>3. /\ Len(accepted) = Len(queue) + Len(taken)
      /\ Elements(accepted) = Elements(queue) \cup Elements(taken)
      /\ Elements(queue) \cap Elements(taken) = {}
      /\ \A i, j \in 1..Len(accepted) : i # j => accepted[i] # accepted[j]
      /\ \A i, j \in 1..Len(queue) : i < j =>
           \E a, b \in 1..Len(accepted) : a < b /\ accepted[a] = queue[i]
                                                /\ accepted[b] = queue[j]
  BY DEF OrderInv, ExactlyOnceInOrder
<1>4. \A i, j \in 1..Len(queue) : i < j => queue[i] # queue[j]
  BY <1>2, <1>3
<1>5. Len(taken') = Len(taken) + 1 /\ Elements(taken') = Elements(taken) \cup {d}
  BY <1>1, <1>2, AppendElements
<1> DEFINE from(i) == IF k = 1 THEN i + 1 ELSE i
<1>6. \A i \in 1..Len(left) : from(i) \in 1..Len(queue) /\ from(i) # k /\ left[i] = queue[from(i)]
  <2>1. ASSUME NEW i \in 1..Len(left)
        PROVE  from(i) \in 1..Len(queue) /\ from(i) # k /\ left[i] = queue[from(i)]
    <3>1. CASE k = 1
      BY <1>2, <3>1
    <3>2. CASE k # 1
      BY <1>2, <3>2
    <3> QED
      BY <3>1, <3>2
  <2> QED
    BY <2>1
<1>7. Elements(left) = Elements(queue) \ {d}
  <2>1. ASSUME NEW e \in Elements(left)
        PROVE  e \in Elements(queue) /\ e # d
    <3>1. PICK i \in 1..Len(left) : e = left[i]
      BY <2>1 DEF Elements
    <3>2. from(i) \in 1..Len(queue) /\ from(i) # k /\ e = queue[from(i)]
      BY <1>6, <3>1
    <3>3. from(i) < k \/ k < from(i)
      BY <1>2, <3>2
    <3>4. e # d
      BY <1>2, <1>4, <3>2, <3>3
    <3> QED
      BY <3>2, <3>4 DEF Elements
  <2>2. ASSUME NEW e \in Elements(queue), e # d
        PROVE  e \in Elements(left)
    <3>1. PICK j \in 1..Len(queue) : e = queue[j]
      BY <2>2 DEF Elements
    <3>2. j # k
      BY <2>2, <3>1
    <3>3. \E i \in 1..Len(left) : from(i) = j
      <4>1. CASE k = 1
        <5>1. j - 1 \in 1..Len(left) /\ from(j - 1) = j
          BY <1>2, <3>1, <3>2, <4>1
        <5> QED
          BY <5>1
      <4>2. CASE k # 1
        <5>1. j \in 1..Len(left) /\ from(j) = j
          BY <1>2, <3>1, <3>2, <4>2
        <5> QED
          BY <5>1
      <4> QED
        BY <4>1, <4>2
    <3> QED
      BY <1>6, <3>1, <3>3 DEF Elements
  <2> QED
    BY <2>1, <2>2
<1>8. d \in Elements(queue)
  BY <1>2 DEF Elements
<1>9. /\ Len(accepted) = Len(left) + Len(taken')
      /\ Elements(accepted) = Elements(left) \cup Elements(taken')
      /\ Elements(left) \cap Elements(taken') = {}
  BY <1>2, <1>3, <1>5, <1>7, <1>8
<1>10. ASSUME NEW i \in 1..Len(left), NEW j \in 1..Len(left), i < j
       PROVE  \E a, b \in 1..Len(accepted) : a < b /\ accepted[a] = left[i]
                                                   /\ accepted[b] = left[j]
  <2>1. from(i) < from(j)
    BY <1>10
  <2> HIDE DEF from
  <2> QED
    BY <1>3, <1>6, <2>1
<1>11. /\ Elements(queue)' = Elements(left)
       /\ Elements(accepted)' = Elements(accepted)
       /\ Elements(taken)' = Elements(taken')
  BY <1>1 DEF Elements
<1>12. InOrderOf(left, accepted)
  BY <1>10 DEF InOrderOf
<1>13. queue' = left /\ accepted' = accepted
  BY <1>1
<1> HIDE DEF d, from
<1>14. /\ Len(accepted') = Len(queue') + Len(taken')
       /\ Elements(accepted)' = Elements(queue)' \cup Elements(taken)'
       /\ Elements(queue)' \cap Elements(taken)' = {}
  BY <1>9, <1>11, <1>13
<1>15. \A i, j \in 1..Len(accepted') : i # j => accepted'[i] # accepted'[j]
  BY <1>3, <1>13
<1>16. InOrderOf(queue', accepted')
  BY <1>12, <1>13
<1> QED
  BY <1>14, <1>15, <1>16 DEF ExactlyOnceInOrder, InOrderOf

LEMMA PendingIsNewStep == TypeInv /\ PendingIsNew /\ [Next]_vars => PendingIsNew'
<1> SUFFICES ASSUME TypeInv, PendingIsNew, [Next]_vars
             PROVE  PendingIsNew'
  OBVIOUS
<1> USE DEF TypeInv, TypeOK
<1>1. ASSUME NEW t \in Pushers, NEW d \in Items, CallPush(t, d)
      PROVE  PendingIsNew'
  BY <1>1, QueueAssumption DEF CallPush, PendingIsNew, Elements
<1>2. ASSUME NEW t \in Pushers, Push(t)
      PROVE  PendingIsNew'
  <2>1. t \in Threads /\ item[t] \in Items /\ item[t] # NoItem
    BY <1>2 DEF Push, Awake, Active
  <2>2. Elements(accepted') = Elements(accepted) \cup {item[t]}
    BY <1>2, <2>1, AppendElements DEF Push
  <2>3. /\ item' = [item EXCEPT ![t] = NoItem]
        /\ Elements(accepted)' = Elements(accepted')
    BY <1>2 DEF Push, Return, Elements
  <2> QED
    BY <2>1, <2>2, <2>3 DEF PendingIsNew
<1>3. ASSUME NEW t \in Threads, Return(t), accepted' = accepted
      PROVE  PendingIsNew'
  BY <1>3 DEF Return, PendingIsNew, Elements
<1>4. ASSUME UNCHANGED <<item, accepted>>
      PROVE  PendingIsNew'
  BY <1>4 DEF PendingIsNew, Elements
<1> HIDE DEF TypeInv
<1> QED
  BY <1>1, <1>2, <1>3, <1>4
  DEF Next, PushStep, PushWait, PushKilled, PopStep, CallPop, PopWait, PopKilled, PopFront,
      PopBack, Take, WaitEmptyStep, CallWaitEmpty, WaitEmptyWait, WaitEmpty, SetCapacity,
      EndQueue, SpuriousWakeup, vars, Threads, Poppers

LEMMA OrderInvStep == OrderInv /\ [Next]_vars => OrderInv'
<1> SUFFICES ASSUME OrderInv, [Next]_vars
             PROVE  ExactlyOnceInOrder'
  BY TypeInvStep, PendingIsNewStep DEF OrderInv
<1>1. ASSUME NEW t \in Poppers, PopFront(t)
      PROVE  ExactlyOnceInOrder'
  <2>1. queue \in Seq(Items) /\ queue # <<>>
    BY <1>1 DEF OrderInv, TypeInv, TypeOK, PopFront, Take
  <2>2. Tail(queue) \in Seq(Items) /\ Len(Tail(queue)) = Len(queue) - 1
        /\ \A i \in 1..Len(Tail(queue)) : Tail(queue)[i] = queue[i + 1]
    BY <2>1, HeadTailProperties
  <2> QED
    BY <1>1, <2>1, <2>2, TakeKeepsOrder DEF PopFront, FrontRemoved
<1>2. ASSUME NEW t \in Poppers, PopBack(t)
      PROVE  ExactlyOnceInOrder'
  <2>1. queue \in Seq(Items) /\ queue # <<>> /\ Len(queue) \in Nat \ {0}
    BY <1>2, EmptySeq DEF OrderInv, TypeInv, TypeOK, PopBack, Take
  <2>2. BackRemoved \in Seq(Items) /\ Len(BackRemoved) = Len(queue) - 1
        /\ \A i \in 1..Len(BackRemoved) : BackRemoved[i] = queue[i]
    <3>1. \A i \in 1..(Len(queue) - 1) : queue[i] \in Items
      BY <2>1, ElementOfSeq
    <3>2. /\ BackRemoved \in Seq(Items)
          /\ Len(BackRemoved) = IF 1 <= Len(queue) - 1 THEN (Len(queue) - 1) - 1 + 1 ELSE 0
          /\ \A i \in 1..((Len(queue) - 1) - 1 + 1) : BackRemoved[i] = queue[1 + i - 1]
      BY <2>1, <3>1, SubSeqProperties DEF BackRemoved
    <3>3. Len(BackRemoved) = Len(queue) - 1
      <4>1. Len(queue) \in Nat \ {0}
        BY <2>1
      <4>2. Len(BackRemoved) = IF 1 <= Len(queue) - 1 THEN (Len(queue) - 1) - 1 + 1 ELSE 0
        BY <3>2
      <4>3. \A n \in Nat \ {0} : (IF 1 <= n - 1 THEN (n - 1) - 1 + 1 ELSE 0) = n - 1
        BY SMT
      <4> HIDE DEF BackRemoved
      <4> QED
        BY ONLY <4>1, <4>2, <4>3
    <3>4. ASSUME NEW i \in 1..Len(BackRemoved)
          PROVE  BackRemoved[i] = queue[i]
      <4>1. i \in 1..((Len(queue) - 1) - 1 + 1) /\ 1 + i - 1 = i
        BY <2>1, <3>3, <3>4
      <4> QED
        BY <3>2, <4>1
    <3> QED
      BY <3>2, <3>3, <3>4
  <2>3. Len(queue) = 1 => Len(BackRemoved) = 0
    BY <2>2
  <2>4. \A i \in 1..Len(BackRemoved) :
          BackRemoved[i] = queue[IF Len(queue) = 1 THEN i + 1 ELSE i]
    BY <2>1, <2>2, <2>3
  <2> QED
    BY <1>2, <2>1, <2>2, <2>4, TakeKeepsOrder DEF PopBack
<1>3. ASSUME UNCHANGED <<queue, accepted, taken>>
      PROVE  ExactlyOnceInOrder'
  <2>1. /\ Elements(queue)' = Elements(queue)
        /\ Elements(accepted)' = Elements(accepted)
        /\ Elements(taken)' = Elements(taken)
    BY <1>3 DEF Elements
  <2> QED
    BY <1>3, <2>1 DEF OrderInv, ExactlyOnceInOrder
<1> QED
  BY <1>1, <1>2, <1>3, PushKeepsOrder
  DEF Next, PushStep, CallPush, PushWait, PushKilled, PopStep, CallPop, PopWait, PopKilled,
      WaitEmptyStep, CallWaitEmpty, WaitEmptyWait, WaitEmpty, SetCapacity, EndQueue,
      SpuriousWakeup, vars

\* Whatever the mix of PopFront and PopBack, no accepted element is lost from
\* the queue, handed out twice or overtaken inside it.
THEOREM DeliveryCorrect == Safety => []ExactlyOnceInOrder
<1>1. Init => OrderInv
  <2> SUFFICES ASSUME Init
               PROVE  PendingIsNew /\ ExactlyOnceInOrder
    BY TypeInvInit DEF OrderInv
  <2>1. PendingIsNew
    BY DEF Init, PendingIsNew
  <2>2. Len(<<>>) = 0 /\ 1..0 = {}
    OBVIOUS
  <2>3. queue = <<>> /\ accepted = <<>> /\ taken = <<>>
    BY DEF Init
  <2>4. ExactlyOnceInOrder
    BY <2>2, <2>3 DEF ExactlyOnceInOrder, Elements
  <2> QED
    BY <2>1, <2>4
<1>2. OrderInv => ExactlyOnceInOrder
  BY DEF OrderInv
<1> QED
  BY <1>1, <1>2, OrderInvStep, PTL DEF Safety

(***************************************************************************)
(* Refinement: entering and leaving a wait set is invisible, a call is a   *)
(* Call, and each critical section that returns is the abstract operation. *)
(***************************************************************************)
ImplementsSafely == Promise!Safety

LEMMA CallersAreThreads == Promise!Callers = Threads
BY DEF Promise!Callers, Threads, Poppers

LEMMA InitRefines == Init => Promise!Init
BY QueueAssumption, CallersAreThreads DEF Init, Promise!Init

LEMMA StepRefines == TypeInv /\ [Next]_vars => [Promise!Next]_(Promise!vars)
<1> SUFFICES ASSUME TypeInv, [Next]_vars
             PROVE  [Promise!Next]_(Promise!vars)
  OBVIOUS
<1> USE QueueAssumption, CallersAreThreads
        DEF TypeInv, TypeOK, Promise!vars, Awake, Active
<1>1. CASE SetCapacity
  <2>1. Promise!SetLimit
    BY <1>1 DEF SetCapacity, Promise!SetLimit
  <2> QED
    BY <2>1 DEF Promise!Next
<1>2. ASSUME NEW t \in Pushers, NEW d \in Items, CallPush(t, d)
      PROVE  Promise!Next
  <2>1. Promise!Call(t)
    BY <1>2 DEF CallPush, Promise!Call
  <2> QED
    BY <2>1 DEF Promise!Next, Threads
<1>3. ASSUME NEW t \in Poppers, CallPop(t)
      PROVE  Promise!Next
  <2>1. Promise!Call(t)
    <3>1. item[t] = NoItem /\ t \in Threads
      BY <1>3 DEF CallPop, Threads
    <3>2. item' = [item EXCEPT ![t] = NoItem]
      BY <1>3, <3>1 DEF CallPop
    <3> QED
      BY <1>3, <3>2 DEF CallPop, Promise!Call
  <2> QED
    BY <2>1 DEF Promise!Next, Threads
<1>4. ASSUME NEW t \in EmptyWaiters, CallWaitEmpty(t)
      PROVE  Promise!Next
  <2>1. Promise!Call(t)
    <3>1. item[t] = NoItem /\ t \in Threads
      BY <1>4 DEF CallWaitEmpty, Threads
    <3>2. item' = [item EXCEPT ![t] = NoItem]
      BY <1>4, <3>1 DEF CallWaitEmpty
    <3> QED
      BY <1>4, <3>2 DEF CallWaitEmpty, Promise!Call
  <2> QED
    BY <2>1 DEF Promise!Next, Threads
<1>5. ASSUME NEW t \in Pushers, PushKilled(t) \/ Push(t)
      PROVE  Promise!Next
  <2>1. Promise!Push(t)
    BY <1>5 DEF PushKilled, Push, PushBlocks, Return, Promise!Push, Promise!Return
  <2> QED
    BY <2>1 DEF Promise!Next, Threads
<1>6. ASSUME NEW t \in Poppers, PopKilled(t)
      PROVE  Promise!Next
  <2>1. Promise!Pop(t)
    BY <1>6 DEF PopKilled, Return, Promise!Pop, Promise!Return
  <2> QED
    BY <2>1 DEF Promise!Next, Threads, Poppers
<1>7. ASSUME NEW t \in FrontPoppers, PopFront(t)
      PROVE  Promise!Next
  <2>1. t \notin BackPoppers
    BY DEF Poppers
  <2>2. Promise!Pop(t)
    BY <1>7, <2>1 DEF PopFront, FrontRemoved, Take, Return, Promise!Pop, Promise!Return
  <2> QED
    BY <2>2 DEF Promise!Next, Threads, Poppers
<1>8. ASSUME NEW t \in BackPoppers, PopBack(t)
      PROVE  Promise!Next
  <2>1. Promise!Pop(t)
    BY <1>8 DEF PopBack, BackRemoved, Take, Return, Promise!Pop, Promise!Return
  <2> QED
    BY <2>1 DEF Promise!Next, Threads, Poppers
<1>9. ASSUME NEW t \in EmptyWaiters, WaitEmpty(t)
      PROVE  Promise!Next
  <2>1. Promise!WaitEmpty(t)
    BY <1>9 DEF WaitEmpty, Return, Promise!WaitEmpty, Promise!Return
  <2> QED
    BY <2>1 DEF Promise!Next, Threads
<1>10. CASE EndQueue
  <2>1. Promise!Close
    BY <1>10 DEF EndQueue, Promise!Close
  <2> QED
    BY <2>1 DEF Promise!Next
<1>11. ASSUME UNCHANGED <<queue, kill_switch, capacity, op, item>>
       PROVE  UNCHANGED Promise!vars
  BY <1>11
<1> HIDE DEF TypeInv, Promise!vars
<1> QED
  BY <1>1, <1>2, <1>3, <1>4, <1>5, <1>6, <1>7, <1>8, <1>9, <1>10, <1>11
  DEF Next, PushStep, PushWait, PopStep, PopWait, WaitEmptyStep, WaitEmptyWait,
      SpuriousWakeup, vars, Poppers

\* Every behaviour of the queue with its condition variables is one of the
\* abstract blocking queue (liveness apart).
THEOREM QueueImplementsPromise == Safety => ImplementsSafely
BY InitRefines, StepRefines, TypeInvInit, TypeInvStep, PTL
DEF Safety, Promise!Safety, ImplementsSafely
=============================================================================
