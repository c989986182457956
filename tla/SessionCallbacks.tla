--------------------------- MODULE SessionCallbacks ---------------------------
(***************************************************************************)
(* What an application built on NetServer may rely on: the order of its    *)
(* callbacks.  Every connection is announced once by OnClientJoin under an *)
(* ID greater than all before it and while no other connection holds the   *)
(* ID's slot; OnRecv runs for open sessions only, one at a time for each;  *)
(* OnClientLeave comes once and never during an OnRecv of that session.    *)
(***************************************************************************)
EXTENDS Integers

CONSTANT SessionIDs   \* pairs <<slot, count>>

VARIABLES
  opened,    \* IDs OnClientJoin has been called with
  closed,    \* IDs OnClientLeave has been called with
  reading    \* IDs an OnRecv is running for

callbackVars == <<opened, closed, reading>>

Init == opened = {} /\ closed = {} /\ reading = {}

Join(id) ==
  /\ \A other \in opened : other[2] < id[2]
  /\ \A other \in opened \ closed : other[1] # id[1]
  /\ opened' = opened \cup {id}
  /\ UNCHANGED <<closed, reading>>

RecvBegin(id) ==
  /\ id \in opened \ (closed \cup reading)
  /\ reading' = reading \cup {id}
  /\ UNCHANGED <<opened, closed>>

RecvEnd(id) ==
  /\ id \in reading
  /\ reading' = reading \ {id}
  /\ UNCHANGED <<opened, closed>>

Leave(id) ==
  /\ id \in opened \ (closed \cup reading)
  /\ closed' = closed \cup {id}
  /\ UNCHANGED <<opened, reading>>

Next ==
  \/ \E id \in SessionIDs : Join(id)
  \/ \E id \in opened : RecvBegin(id) \/ RecvEnd(id) \/ Leave(id)

Spec == Init /\ [][Next]_callbackVars
=============================================================================
