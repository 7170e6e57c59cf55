--------------------------- MODULE CommandService ---------------------------
(***************************************************************************)
(* What the HCI layer promises the modules that send commands through it   *)
(* (HciInterface::EnqueueCommand): commands are answered one by one in the *)
(* order in which they were posted, none is skipped and none is answered   *)
(* twice.  Only when the service fails may the oldest commands be dropped, *)
(* once, and then the process is on its way to an abort.                   *)
(***************************************************************************)
EXTENDS Naturals, Sequences

VARIABLES
  posted,   \* how many commands were posted: they are numbered from 1
  state,    \* "serving", "failing" or "over"
  pending,  \* the commands posted and neither answered nor dropped
  done      \* the commands answered, in the order of their answers

vars == <<posted, state, pending, done>>

Own == 0    \* the command a failing service sends for itself

Init ==
  /\ posted = 1
  /\ state = "serving"
  /\ pending = {1}        \* the reset
  /\ done = <<>>

Post ==
  /\ state # "over"
  /\ posted' = posted + 1
  /\ pending' = pending \cup {posted + 1}
  /\ UNCHANGED <<state, done>>

\* The oldest command is answered.
Answer ==
  /\ state # "over"
  /\ \E oldest \in pending :
       /\ \A command \in pending : oldest <= command
       /\ done' = Append(done, oldest)
       /\ pending' = pending \ {oldest}
  /\ UNCHANGED <<posted, state>>

\* Its own command is answered at most once.
AnswerOwn ==
  /\ state = "failing"
  /\ \A n \in 1 .. Len(done) : done[n] # Own
  /\ done' = Append(done, Own)
  /\ UNCHANGED <<posted, state, pending>>

Fail ==
  /\ state = "serving"
  /\ state' = "failing"
  /\ \E dropped \in 0 .. posted :
       pending' = {command \in pending : command > dropped}
  /\ UNCHANGED <<posted, done>>

\* The process ends or the stack is stopped.
End ==
  /\ state # "over"
  /\ state' = "over"
  /\ pending' = {}
  /\ UNCHANGED <<posted, done>>

Next == Post \/ Answer \/ AnswerOwn \/ Fail \/ End

Spec == Init /\ [][Next]_vars

=============================================================================
