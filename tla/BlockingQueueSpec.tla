-------------------------- MODULE BlockingQueueSpec --------------------------
(***************************************************************************)
(* What BoundedQueue promises its callers, without condition variables: a  *)
(* call blocks exactly as long as its condition is false, and every call   *)
(* whose condition stays true returns.                                     *)
(***************************************************************************)
EXTENDS Integers, Sequences

CONSTANTS Pushers, FrontPoppers, BackPoppers, EmptyWaiters, Items, NoItem

VARIABLES
  buf,     \* the elements in the queue, oldest first
  closed,  \* EndQueue has been called
  limit,   \* the capacity
  op,      \* op[t]: the call thread t is in, or "idle"
  item     \* item[t]: the element t is pushing, or NoItem

vars == <<buf, closed, limit, op, item>>

Callers == Pushers \cup FrontPoppers \cup BackPoppers \cup EmptyWaiters

Call(t) ==
  /\ op[t] = "idle"
  /\ op' \in {[op EXCEPT ![t] = o] : o \in {"push", "pop", "wait_empty"}}
  /\ item' \in {[item EXCEPT ![t] = d] : d \in Items \cup {NoItem}}
  /\ UNCHANGED <<buf, closed, limit>>

Return(t, o) ==
  /\ op[t] = o
  /\ op' = [op EXCEPT ![t] = "idle"]
  /\ item' = [item EXCEPT ![t] = NoItem]
  /\ UNCHANGED <<closed, limit>>

Push(t) ==
  /\ Return(t, "push")
  /\ \/ closed /\ UNCHANGED buf
     \/ ~closed /\ Len(buf) < limit /\ buf' = Append(buf, item[t])

Pop(t) ==
  /\ Return(t, "pop")
  /\ \/ closed /\ UNCHANGED buf
     \/ /\ ~closed /\ buf # <<>>
        /\ buf' = IF t \in BackPoppers THEN SubSeq(buf, 1, Len(buf) - 1)
                                       ELSE Tail(buf)

WaitEmpty(t) ==
  /\ Return(t, "wait_empty")
  /\ closed \/ buf = <<>>
  /\ UNCHANGED buf

Close == closed' = TRUE /\ UNCHANGED <<buf, limit, op, item>>

SetLimit ==
  /\ buf = <<>>
  /\ limit' \in Nat \ {0}
  /\ UNCHANGED <<buf, closed, op, item>>

Init ==
  /\ buf = <<>>
  /\ closed = FALSE
  /\ limit \in Nat \ {0}
  /\ op = [t \in Callers |-> "idle"]
  /\ item = [t \in Callers |-> NoItem]

Next ==
  \/ \E t \in Callers : Call(t) \/ Push(t) \/ Pop(t) \/ WaitEmpty(t)
  \/ Close
  \/ SetLimit

Safety == Init /\ [][Next]_vars

Fairness == \A t \in Callers : WF_vars(Push(t)) /\ WF_vars(Pop(t)) /\ WF_vars(WaitEmpty(t))

Spec == Safety /\ Fairness
=============================================================================
