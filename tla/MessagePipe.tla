----------------------------- MODULE MessagePipe -----------------------------
(***************************************************************************)
(* What a connection promises to those at its ends: a first-in, first-out  *)
(* queue of messages, from which none is lost or taken out of its turn.    *)
(***************************************************************************)
EXTENDS Sequences

CONSTANT Messages

VARIABLES waiting, passed

pipe == <<waiting, passed>>

Init == waiting = <<>> /\ passed = <<>>

\* A message is sent.
Enter(m) ==
  /\ waiting' = Append(waiting, m)
  /\ UNCHANGED passed

\* The message that has waited longest is passed on.
Leave ==
  /\ waiting # <<>>
  /\ passed' = Append(passed, Head(waiting))
  /\ waiting' = Tail(waiting)

Next == (\E m \in Messages : Enter(m)) \/ Leave

Spec == Init /\ [][Next]_pipe
==============================================================================
