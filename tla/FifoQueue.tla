------------------------------ MODULE FifoQueue ------------------------------
(***************************************************************************)
(* What the users of LockFreeQueue rely on: items leave in the order in    *)
(* which they came, each once, and to the thread that took them.  A call   *)
(* takes effect at one moment between its beginning and its return: that   *)
(* of Enqueue always and once, that of Dequeue once or, if it returns      *)
(* false, never.  Clear is for a queue that nobody else uses.              *)
(***************************************************************************)
EXTENDS Sequences

CONSTANTS Threads, Items, Nothing

VARIABLES
  items,   \* the queue
  taken,   \* the item that each thread got last
  doing    \* what each thread's call has yet to do

fifoVars == <<items, taken, doing>>

Init ==
  /\ items = <<>>
  /\ taken = [t \in Threads |-> Nothing]
  /\ doing = [t \in Threads |-> "nothing"]

Begin(t) ==
  /\ doing[t] = "nothing"
  /\ doing' \in {[doing EXCEPT ![t] = op] : op \in {"enqueue", "dequeue"}}
  /\ UNCHANGED <<items, taken>>

Enqueue(t) ==
  /\ doing[t] = "enqueue"
  /\ items' \in {Append(items, i) : i \in Items}
  /\ doing' = [doing EXCEPT ![t] = "return"]
  /\ UNCHANGED taken

Dequeue(t) ==
  /\ doing[t] = "dequeue"
  /\ items # <<>>
  /\ taken' = [taken EXCEPT ![t] = Head(items)]
  /\ items' = Tail(items)
  /\ doing' = [doing EXCEPT ![t] = "return"]

Return(t) ==
  /\ doing[t] \in {"dequeue", "return"}
  /\ doing' = [doing EXCEPT ![t] = "nothing"]
  /\ UNCHANGED <<items, taken>>

Clear ==
  /\ \A t \in Threads : doing[t] = "nothing"
  /\ items' = <<>>
  /\ UNCHANGED <<taken, doing>>

Next == Clear \/ \E t \in Threads : Begin(t) \/ Enqueue(t) \/ Dequeue(t) \/ Return(t)

Spec == Init /\ [][Next]_fifoVars
=============================================================================
