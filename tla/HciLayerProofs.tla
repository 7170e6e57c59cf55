--------------------------- MODULE HciLayerProofs ---------------------------
(* Theorems about HciLayer, for every choice of its constants, among them    *)
(* that it implements CommandService.                                        *)
EXTENDS HciLayerRefinement, SequenceTheorems, TLAPS

-----------------------------------------------------------------------------
(* Facts about the data *)

\* Removing an element of a sequence (an answer given out of order) keeps its type.
LEMMA RemoveAtType ==
  ASSUME NEW S, NEW s \in Seq(S), NEW i \in 1 .. Len(s)
  PROVE  /\ RemoveAt(s, i) \in Seq(S)
         /\ Len(RemoveAt(s, i)) = Len(s) - 1
<1> DEFINE before == SubSeq(s, 1, i - 1)
           after == SubSeq(s, i + 1, Len(s))
<1>1. Len(s) \in Nat /\ \A n \in 1 .. Len(s) : s[n] \in S
  BY ElementOfSeq, LenProperties
<1>2. before \in Seq(S) /\ Len(before) = i - 1
  BY <1>1, SubSeqProperties
<1>3. after \in Seq(S) /\ Len(after) = Len(s) - i
  BY <1>1, SubSeqProperties
<1>4. before \o after \in Seq(S) /\ Len(before \o after) = Len(before) + Len(after)
  <2> HIDE DEF before, after
  <2> QED BY <1>2, <1>3, ConcatProperties
<1>5. RemoveAt(s, i) = before \o after
  BY DEF RemoveAt
<1>6. QED
  <2> HIDE DEF before, after
  <2>1. Len(before) + Len(after) = Len(s) - 1
    BY <1>1, <1>2, <1>3
  <2> QED BY <1>4, <1>5, <2>1

\* The two commands the layer itself sends are queue entries.
LEMMA EntryTypes == ResetEntry \in CommandQueueEntry /\ DebugEntry \in CommandQueueEntry
BY BoundsAssumption
DEF ResetEntry, DebugEntry, CommandQueueEntry, Ids, DebugId, AllOps, WaitingFor

\* The three kinds of closure are closures of the layer.
LEMMA TaskTypes ==
  ASSUME NEW t \in Tasks
  PROVE  /\ t.run = "enqueue_command" => t.entry \in CommandQueueEntry
         /\ t.run = "on_hci_event" => t.event \in CommandEvents \cup FailureEvents
         /\ t.run = "reset_complete" => t.status \in ErrorCodes
BY DEF Tasks, EnqueueTasks, EventTasks, ResetTasks

\* An event that is an answer is one of CommandEvents.
LEMMA AnswerTypes ==
  ASSUME NEW e \in CommandEvents \cup FailureEvents, IsAnswer(e)
  PROVE  e \in CommandEvents
BY DEF CommandEvents, FailureEvents, IsAnswer

-----------------------------------------------------------------------------
(* Type correctness *)

\* What send_next_command leaves behind has the right types.
LEMMA SendTypes ==
  ASSUME NEW queue \in Seq(CommandQueueEntry),
         NEW waiting \in AllOps \cup {NONE},
         NEW credits \in Nat,
         NEW alarm \in {"null", "idle", "armed"},
         TypeOK,
         send_next_command(queue, waiting, credits, alarm)
  PROVE  /\ command_queue_' \in Seq(CommandQueueEntry)
         /\ waiting_command_' \in AllOps \cup {NONE}
         /\ command_credits_' \in Nat
         /\ hci_timeout_alarm_' \in {"null", "idle", "armed"}
         /\ controller' \in Seq(CommandQueueEntry)
<1>1. CASE credits = 0 \/ waiting # NONE \/ queue = <<>>
  BY <1>1 DEF send_next_command, TypeOK
<1>2. CASE credits # 0 /\ waiting = NONE /\ queue # <<>>
  <2>1. Head(queue) \in CommandQueueEntry
    BY <1>2, HeadTailProperties
  <2>2. Append(controller, Head(queue)) \in Seq(CommandQueueEntry)
    BY <2>1, AppendProperties DEF TypeOK
  <2>3. Head(queue).op \in AllOps
    BY <2>1 DEF CommandQueueEntry
  <2> QED
    BY <1>2, <2>2, <2>3 DEF send_next_command
<1> QED
  BY <1>1, <1>2

\* EnqueueCommand: a client posts a well typed closure.
LEMMA EnqueueCommandTypes ==
  ASSUME TypeOK, NEW request \in Requests, EnqueueCommand(request[1], request[2])
  PROVE  TypeOK'
<1>1. request[1] \in AllOps /\ request[2] \in WaitingFor
  BY OpCodesAssumption DEF AllOps, WaitingFor
<1>2. posted + 1 \in 1 .. MaxCommands
  BY BoundsAssumption DEF TypeOK, EnqueueCommand
<1> DEFINE entry == [id |-> posted + 1, op |-> request[1], waiting_for_ |-> request[2]]
           task == [run |-> "enqueue_command", entry |-> entry]
<1>3. entry \in CommandQueueEntry
  BY <1>1, <1>2 DEF CommandQueueEntry, Ids
<1>4. task \in Tasks
  BY <1>3 DEF Tasks, EnqueueTasks
<1>5. tasks' = Append(tasks, task)
  BY DEF EnqueueCommand
<1>6. tasks' \in Seq(Tasks)
  <2> HIDE DEF task
  <2> QED BY <1>4, <1>5, AppendProperties DEF TypeOK
<1> QED
  BY <1>2, <1>6 DEF TypeOK, EnqueueCommand, commands, alarms

\* The task the stack thread takes, and what it leaves.
LEMMA FirstTask ==
  ASSUME TypeOK, tasks # <<>>
  PROVE  Head(tasks) \in Tasks /\ Tail(tasks) \in Seq(Tasks)
BY HeadTailProperties DEF TypeOK

\* enqueue_command keeps the types.
LEMMA enqueue_commandTypes ==
  ASSUME TypeOK, enqueue_command
  PROVE  TypeOK'
<1>1. Head(tasks) \in Tasks /\ Tail(tasks) \in Seq(Tasks)
  BY FirstTask DEF enqueue_command
<1>2. Head(tasks).entry \in CommandQueueEntry
  BY <1>1, TaskTypes DEF enqueue_command
<1>3. Append(command_queue_, Head(tasks).entry) \in Seq(CommandQueueEntry)
  BY <1>2, AppendProperties DEF TypeOK
<1>4. send_next_command(Append(command_queue_, Head(tasks).entry),
                        waiting_command_, command_credits_, hci_timeout_alarm_)
  BY DEF enqueue_command
<1>5. /\ command_queue_' \in Seq(CommandQueueEntry)
      /\ waiting_command_' \in AllOps \cup {NONE}
      /\ command_credits_' \in Nat
      /\ hci_timeout_alarm_' \in {"null", "idle", "armed"}
      /\ controller' \in Seq(CommandQueueEntry)
  BY <1>3, <1>4, SendTypes DEF TypeOK
<1> QED
  BY <1>1, <1>5 DEF TypeOK, enqueue_command

\* An accepted answer keeps the types, with the next command it sends.
LEMMA accept_answerTypes ==
  ASSUME TypeOK, tasks # <<>>, NEW e \in CommandEvents, accept_answer(e)
  PROVE  /\ tasks' \in Seq(Tasks)
         /\ answered' \in Seq([id : Ids, by : Ids])
         /\ command_queue_' \in Seq(CommandQueueEntry)
         /\ waiting_command_' \in AllOps \cup {NONE}
         /\ command_credits_' \in Nat
         /\ hci_timeout_alarm_' \in {"null", "idle", "armed"}
         /\ controller' \in Seq(CommandQueueEntry)
         /\ fate' = fate
<1>1. Tail(tasks) \in Seq(Tasks)
  BY FirstTask
<1>2. command_queue_ # <<>>
  BY DEF accept_answer, AssertionsHold
<1>3. Head(command_queue_) \in CommandQueueEntry /\ Tail(command_queue_) \in Seq(CommandQueueEntry)
  BY <1>2, HeadTailProperties DEF TypeOK
<1>4. e.credits \in Nat /\ e.status \in ErrorCodes /\ e.id \in Ids
  BY DEF CommandEvents
<1>5. tasks' \in Seq(Tasks)
  <2> DEFINE task == [run |-> "reset_complete", status |-> e.status]
  <2>1. task \in Tasks
    BY <1>4 DEF Tasks, ResetTasks
  <2>2. tasks' = Tail(tasks) \/ tasks' = Append(Tail(tasks), task)
    BY DEF accept_answer, call_back
  <2> HIDE DEF task
  <2> QED BY <1>1, <2>1, <2>2, AppendProperties
<1>6. answered' \in Seq([id : Ids, by : Ids])
  <2> DEFINE record == [id |-> Head(command_queue_).id, by |-> e.id]
  <2>1. record \in [id : Ids, by : Ids]
    BY <1>3, <1>4 DEF CommandQueueEntry
  <2>2. answered' = Append(answered, record)
    BY DEF accept_answer, call_back
  <2> HIDE DEF record
  <2> QED BY <2>1, <2>2, AppendProperties DEF TypeOK
<1>7. CASE hci_timeout_alarm_ # "null"
  <2>1. send_next_command(Tail(command_queue_), NONE, e.credits, "idle")
    BY <1>7 DEF accept_answer
  <2> QED
    BY <1>3, <1>4, <1>5, <1>6, <2>1, SendTypes DEF accept_answer
<1>8. CASE hci_timeout_alarm_ = "null"
  BY <1>3, <1>4, <1>5, <1>6, <1>8 DEF accept_answer, TypeOK
<1> QED
  BY <1>7, <1>8

\* on_hci_event keeps the types on each of its paths.
LEMMA on_hci_eventTypes ==
  ASSUME TypeOK, on_hci_event
  PROVE  TypeOK'
<1> DEFINE e == Head(tasks).event
<1>1. tasks # <<>> /\ Tail(tasks) \in Seq(Tasks) /\ e \in CommandEvents \cup FailureEvents
  BY FirstTask, TaskTypes DEF on_hci_event
<1>2. life' = life /\ posted' = posted
  BY DEF on_hci_event
<1> HIDE DEF e
<1>3. CASE handle_command_response(e)
  <2>1. e \in CommandEvents /\ hci_abort_alarm_' = hci_abort_alarm_
    BY <1>1, <1>3, AnswerTypes DEF handle_command_response
  <2>2. e.credits \in Nat
    BY <2>1 DEF CommandEvents
  <2>3. CASE grant_credits(e)
    <3>1. send_next_command(command_queue_, waiting_command_, e.credits,
                            hci_timeout_alarm_)
      BY <2>3 DEF grant_credits
    <3>2. /\ command_queue_' \in Seq(CommandQueueEntry)
          /\ waiting_command_' \in AllOps \cup {NONE}
          /\ command_credits_' \in Nat
          /\ hci_timeout_alarm_' \in {"null", "idle", "armed"}
          /\ controller' \in Seq(CommandQueueEntry)
      BY <2>2, <3>1, SendTypes DEF TypeOK
    <3> QED
      BY <1>1, <1>2, <2>1, <2>3, <3>2 DEF grant_credits, TypeOK
  <2>4. CASE fail_assertion(e)
    BY <1>1, <1>2, <2>1, <2>4 DEF fail_assertion, TypeOK, commands
  <2>5. CASE discard_late_answer(e)
    BY <1>1, <1>2, <2>1, <2>2, <2>5 DEF discard_late_answer, TypeOK
  <2>6. CASE accept_answer(e)
    BY <1>1, <1>2, <2>1, <2>6, accept_answerTypes DEF TypeOK
  <2> QED
    BY <1>3, <2>3, <2>4, <2>5, <2>6 DEF handle_command_response
<1>4. CASE handle_root_inflammation(e)
  BY <1>1, <1>2, <1>4 DEF handle_root_inflammation, arm_abort_alarm, TypeOK, commands
<1>5. CASE on_hardware_error(e)
  BY <1>1, <1>2, <1>5 DEF on_hardware_error, TypeOK, commands, alarms
<1> QED
  BY <1>3, <1>4, <1>5 DEF on_hci_event, e

\* The check of the reset's answer keeps the types.
LEMMA reset_completeTypes ==
  ASSUME TypeOK, fail_if_reset_complete_not_success
  PROVE  TypeOK'
BY FirstTask DEF fail_if_reset_complete_not_success, TypeOK, commands, alarms

\* on_hci_timeout keeps the types: the queue is the debug command alone.
LEMMA on_hci_timeoutTypes ==
  ASSUME TypeOK, on_hci_timeout
  PROVE  TypeOK'
<1>1. <<DebugEntry>> \in Seq(CommandQueueEntry)
  BY EntryTypes
<1>2. send_next_command(<<DebugEntry>>, NONE, 1, "null")
  BY DEF on_hci_timeout
<1>3. /\ command_queue_' \in Seq(CommandQueueEntry)
      /\ waiting_command_' \in AllOps \cup {NONE}
      /\ command_credits_' \in Nat
      /\ hci_timeout_alarm_' \in {"null", "idle", "armed"}
      /\ controller' \in Seq(CommandQueueEntry)
  BY <1>1, <1>2, SendTypes
<1> QED
  BY <1>3 DEF on_hci_timeout, arm_abort_alarm, TypeOK

\* Posting an event keeps the queue of closures well typed.
LEMMA hciEventReceivedTypes ==
  ASSUME TypeOK, NEW e \in CommandEvents \cup FailureEvents, hciEventReceived(e)
  PROVE  tasks' \in Seq(Tasks)
<1> DEFINE task == [run |-> "on_hci_event", event |-> e]
<1>1. task \in Tasks
  BY DEF Tasks, EventTasks
<1>2. tasks' = tasks \/ tasks' = Append(tasks, task)
  BY DEF hciEventReceived
<1> HIDE DEF task
<1>3. tasks \in Seq(Tasks)
  BY DEF TypeOK
<1>4. Append(tasks, task) \in Seq(Tasks)
  BY <1>1, <1>3, AppendProperties
<1> QED BY <1>2, <1>3, <1>4

\* The controller only posts events, and keeps the types.
LEMMA ControllerTypes ==
  ASSUME TypeOK, Controller
  PROVE  TypeOK'
<1>1. ASSUME NEW i \in 1 .. Len(controller), NEW credits \in Grants,
             ControllerAnswers(i, credits)
      PROVE  TypeOK'
  <2>1. controller[i] \in CommandQueueEntry
    BY ElementOfSeq DEF TypeOK
  <2>2. RemoveAt(controller, i) \in Seq(CommandQueueEntry)
    BY RemoveAtType DEF TypeOK
  <2>3. PICK answer \in AnswersTo(controller[i]) :
          hciEventReceived([code |-> answer.code, id |-> controller[i].id,
                            op |-> controller[i].op, status |-> answer.status,
                            credits |-> credits])
    BY <1>1 DEF ControllerAnswers
  <2>4. /\ answer.code \in {"COMMAND_STATUS", "COMMAND_COMPLETE"}
        /\ answer.status \in ErrorCodes
    BY <2>3 DEF AnswersTo, ErrorCodes
  <2>5. [code |-> answer.code, id |-> controller[i].id, op |-> controller[i].op,
         status |-> answer.status, credits |-> credits] \in CommandEvents
    BY <2>1, <2>4, BoundsAssumption DEF CommandEvents, CommandQueueEntry
  <2>6. tasks' \in Seq(Tasks)
    BY <2>3, <2>5, hciEventReceivedTypes
  <2> QED
    BY <1>1, <2>2, <2>6 DEF ControllerAnswers, TypeOK, commands, alarms
<1>2. ASSUME NEW i \in 1 .. Len(controller), ControllerLoses(i)
      PROVE  TypeOK'
  <2>1. RemoveAt(controller, i) \in Seq(CommandQueueEntry)
    BY RemoveAtType DEF TypeOK
  <2> QED
    BY <1>2, <2>1 DEF ControllerLoses, TypeOK, commands, alarms
<1>3. ASSUME NEW credits \in Grants, NEW event \in Unsolicited(credits),
             ControllerReports(event)
      PROVE  TypeOK'
  <2>1. event \in CommandEvents \cup FailureEvents
    BY BoundsAssumption
    DEF Unsolicited, CommandEvents, FailureEvents, ErrorCodes, Ids, DebugId
  <2>2. tasks' \in Seq(Tasks)
    BY <1>3, <2>1, hciEventReceivedTypes DEF ControllerReports
  <2> QED
    BY <1>3, <2>2 DEF ControllerReports, TypeOK, commands, alarms
<1> QED
  BY <1>1, <1>2, <1>3 DEF Controller

\* Every step keeps the types.
LEMMA TypeStep ==
  ASSUME TypeOK, [Next]_vars
  PROVE  TypeOK'
<1>1. CASE \E request \in Requests : EnqueueCommand(request[1], request[2])
  BY <1>1, EnqueueCommandTypes
<1>2. CASE StackThread
  BY <1>2, enqueue_commandTypes, on_hci_eventTypes, reset_completeTypes DEF StackThread
<1>3. CASE on_hci_timeout
  BY <1>3, on_hci_timeoutTypes
<1>4. CASE abort
  BY <1>4 DEF abort, TypeOK, commands, alarms
<1>5. CASE Controller
  BY <1>5, ControllerTypes
<1>6. CASE Stop
  BY <1>6 DEF Stop, TypeOK, commands, alarms
<1>7. CASE Destroy
  BY <1>7 DEF Destroy, TypeOK
<1>8. CASE UNCHANGED vars
  BY <1>8 DEF vars, TypeOK, commands, alarms
<1> QED
  BY <1>1, <1>2, <1>3, <1>4, <1>5, <1>6, <1>7, <1>8 DEF Next

\* Every variable of the layer keeps its type, whatever the clients send and
\* however the controller behaves: no credit or queue operation of
\* hci_layer.cc leaves its domain.
THEOREM TypeCorrect == Spec => []TypeOK
<1>1. Init => TypeOK
  <2> SUFFICES ASSUME Init PROVE TypeOK
    OBVIOUS
  <2>1. [run |-> "enqueue_command", entry |-> ResetEntry] \in Tasks
    BY EntryTypes DEF Tasks, EnqueueTasks
  <2>2. tasks \in Seq(Tasks)
    BY <2>1 DEF Init
  <2> QED
    BY <2>2, BoundsAssumption DEF Init, TypeOK
<1>2. TypeOK /\ [Next]_vars => TypeOK'
  BY TypeStep
<1> QED
  BY <1>1, <1>2, PTL DEF Spec

-----------------------------------------------------------------------------
(* The command pipeline *)

\* send_next_command establishes the invariant from what its callers assigned.
LEMMA SendInv ==
  ASSUME NEW queue \in Seq(CommandQueueEntry),
         NEW waiting \in AllOps \cup {NONE},
         NEW credits \in Nat,
         NEW alarm \in {"null", "idle", "armed"},
         send_next_command(queue, waiting, credits, alarm),
         waiting # NONE => queue # <<>> /\ Head(queue).op = waiting,
         waiting # NONE => alarm = "armed" \/ hci_abort_alarm_' # "null",
         alarm = "null" => hci_abort_alarm_' # "null"
  PROVE  CommandInv'
<1>1. CASE credits = 0 \/ waiting # NONE \/ queue = <<>>
  BY <1>1
  DEF send_next_command, CommandInv, WaitingIsHead, Watchdog, NoStalledCommand,
      AbortReplacesTimeout
<1>2. CASE credits # 0 /\ waiting = NONE /\ queue # <<>>
  <2>1. Head(queue).op \in AllOps
    <3>1. Head(queue) \in CommandQueueEntry
      BY <1>2, HeadTailProperties
    <3> QED
      BY <3>1 DEF CommandQueueEntry
  <2>2. Head(queue).op # NONE
    BY <2>1, OpCodesAssumption DEF AllOps, NONE, RESET, CONTROLLER_DEBUG_INFO
  <2> QED
    BY <1>2, <2>2
    DEF send_next_command, CommandInv, WaitingIsHead, Watchdog, NoStalledCommand,
        AbortReplacesTimeout
<1> QED
  BY <1>1, <1>2

\* enqueue_command keeps the invariant: it sends at once if it can.
LEMMA enqueue_commandInv ==
  ASSUME TypeOK, CommandInv, enqueue_command
  PROVE  CommandInv'
<1> DEFINE entry == Head(tasks).entry
           queue == Append(command_queue_, entry)
<1>1. entry \in CommandQueueEntry
  BY FirstTask, TaskTypes DEF enqueue_command
<1>2. /\ send_next_command(queue, waiting_command_, command_credits_, hci_timeout_alarm_)
      /\ hci_abort_alarm_' = hci_abort_alarm_
      /\ life # "destroyed"
  BY DEF enqueue_command, HandlerRuns
<1>3. command_queue_ \in Seq(CommandQueueEntry)
  BY DEF TypeOK
<1> HIDE DEF entry
<1>4. queue \in Seq(CommandQueueEntry) /\ queue # <<>>
  BY <1>1, <1>3, AppendProperties
<1>5. command_queue_ # <<>> => Head(queue) = Head(command_queue_)
  BY <1>1, <1>3, HeadTailAppend
<1> HIDE DEF queue
<1> QED
  BY <1>2, <1>4, <1>5, SendInv
  DEF TypeOK, CommandInv, WaitingIsHead, Watchdog, AbortReplacesTimeout

\* Every outcome of handle_command_response keeps the invariant.
LEMMA handle_command_responseInv ==
  ASSUME TypeOK, CommandInv, life # "destroyed", life' = life,
         NEW e \in CommandEvents, handle_command_response(e)
  PROVE  CommandInv'
<1>1. e.credits \in Nat /\ hci_abort_alarm_' = hci_abort_alarm_
  BY DEF handle_command_response, CommandEvents
<1>2. CASE grant_credits(e)
  <2>1. send_next_command(command_queue_, waiting_command_, e.credits, hci_timeout_alarm_)
    BY <1>2 DEF grant_credits
  <2> QED
    BY <1>1, <2>1, SendInv
    DEF TypeOK, CommandInv, WaitingIsHead, Watchdog, AbortReplacesTimeout
<1>3. CASE fail_assertion(e)
  BY <1>1, <1>3
  DEF fail_assertion, commands, CommandInv, WaitingIsHead, Watchdog,
      NoStalledCommand, AbortReplacesTimeout
<1>4. CASE discard_late_answer(e)
  <2>1. waiting_command_ # NONE
    BY <1>4 DEF discard_late_answer, IsLate, CONTROLLER_DEBUG_INFO, NONE
  <2> QED
    BY <1>1, <1>4, <2>1
    DEF discard_late_answer, CommandInv, WaitingIsHead, Watchdog,
        NoStalledCommand, AbortReplacesTimeout
<1>5. CASE accept_answer(e)
  <2>1. CASE hci_timeout_alarm_ # "null"
    <3>1. Tail(command_queue_) \in Seq(CommandQueueEntry)
      BY <1>5, HeadTailProperties DEF accept_answer, AssertionsHold, TypeOK
    <3>2. send_next_command(Tail(command_queue_), NONE, e.credits, "idle")
      BY <1>5, <2>1 DEF accept_answer
    <3> QED
      BY <1>1, <3>1, <3>2, SendInv
  <2>2. CASE hci_timeout_alarm_ = "null"
    BY <1>1, <1>5, <2>2
    DEF accept_answer, CommandInv, WaitingIsHead, Watchdog, NoStalledCommand,
        AbortReplacesTimeout
  <2> QED
    BY <2>1, <2>2
<1> QED
  BY <1>2, <1>3, <1>4, <1>5 DEF handle_command_response

\* on_hci_event keeps the invariant: root inflammation arms the abort alarm when it
\* deletes the timeout alarm.
LEMMA on_hci_eventInv ==
  ASSUME TypeOK, CommandInv, on_hci_event
  PROVE  CommandInv'
<1> DEFINE e == Head(tasks).event
<1>1. e \in CommandEvents \cup FailureEvents
  BY FirstTask, TaskTypes DEF on_hci_event
<1>2. life # "destroyed" /\ life' = life
  BY DEF on_hci_event, HandlerRuns
<1> HIDE DEF e
<1>3. CASE handle_command_response(e)
  BY <1>1, <1>2, <1>3, AnswerTypes, handle_command_responseInv
  DEF handle_command_response
<1>4. CASE handle_root_inflammation(e)
  BY <1>4
  DEF handle_root_inflammation, arm_abort_alarm, commands, CommandInv,
      WaitingIsHead, Watchdog, NoStalledCommand, AbortReplacesTimeout
<1>5. CASE on_hardware_error(e)
  BY <1>2, <1>5
  DEF on_hardware_error, commands, alarms, CommandInv, WaitingIsHead, Watchdog,
      NoStalledCommand, AbortReplacesTimeout
<1> QED
  BY <1>3, <1>4, <1>5 DEF on_hci_event, e

\* on_hci_timeout keeps the invariant: the debug command it sends is the first of the
\* queue, and the abort alarm watches it.
LEMMA on_hci_timeoutInv ==
  ASSUME TypeOK, CommandInv, on_hci_timeout
  PROVE  CommandInv'
<1>1. <<DebugEntry>> \in Seq(CommandQueueEntry)
  BY EntryTypes
<1>2. send_next_command(<<DebugEntry>>, NONE, 1, "null") /\ hci_abort_alarm_' # "null"
  BY DEF on_hci_timeout, arm_abort_alarm
<1> QED
  BY <1>1, <1>2, SendInv

\* The other steps leave the pipeline alone, or empty it.
LEMMA CommandInvStep ==
  ASSUME TypeOK, CommandInv, [Next]_vars
  PROVE  CommandInv'
<1> USE DEF commands, alarms, CommandInv, WaitingIsHead, Watchdog,
            NoStalledCommand, AbortReplacesTimeout
<1>1. CASE \E request \in Requests : EnqueueCommand(request[1], request[2])
  BY <1>1 DEF EnqueueCommand
<1>2. CASE enqueue_command
  BY <1>2, enqueue_commandInv
<1>3. CASE on_hci_event
  BY <1>3, on_hci_eventInv
<1>4. CASE fail_if_reset_complete_not_success
  BY <1>4 DEF fail_if_reset_complete_not_success
<1>5. CASE on_hci_timeout
  BY <1>5, on_hci_timeoutInv
<1>6. CASE abort
  BY <1>6 DEF abort
<1>7. CASE Controller
  BY <1>7 DEF Controller, ControllerAnswers, ControllerLoses, ControllerReports
<1>8. CASE Stop
  BY <1>8 DEF Stop, HandlerRuns
<1>9. CASE Destroy
  BY <1>9 DEF Destroy
<1>10. CASE UNCHANGED vars
  BY <1>10 DEF vars
<1> QED
  BY <1>1, <1>2, <1>3, <1>4, <1>5, <1>6, <1>7, <1>8, <1>9, <1>10
  DEF Next, StackThread

\* The inductive invariant of the command pipeline holds in every behaviour.
LEMMA CommandInvariant == Spec => []CommandInv
<1>1. Init => CommandInv
  BY DEF Init, CommandInv, WaitingIsHead, Watchdog, NoStalledCommand,
         AbortReplacesTimeout
<1>2. TypeOK /\ CommandInv /\ [Next]_vars => CommandInv'
  BY CommandInvStep
<1> QED
  BY <1>1, <1>2, TypeCorrect, PTL DEF Spec

\* handle_command_response takes the callback of command_queue_.front() for that
\* of the command it waits for: it always is.
THEOREM WaitingIsHeadHolds == Spec => []WaitingIsHead
BY CommandInvariant, PTL DEF CommandInv

\* An outstanding command is always watched by the timeout alarm or the abort
\* alarm, whatever the order of answers, timeouts and root inflammation events.
THEOREM WatchdogHolds == Spec => []Watchdog
BY CommandInvariant, PTL DEF CommandInv

\* No command is left in the queue with a credit to spend and nothing
\* outstanding, unless the process is going to abort.
THEOREM NoStalledCommandHolds == Spec => []NoStalledCommand
BY CommandInvariant, PTL DEF CommandInv

-----------------------------------------------------------------------------
(* Whose answer it is.  The code tells answers apart by operation code only;  *)
(* what follows shows when that is enough.                                    *)

IsReply(t) == t.run = "on_hci_event" /\ IsAnswer(t.event) /\ t.event.op # NONE

\* The event is one of those a controller answers the command with.
Replies(e, entry) ==
  /\ e.id = entry.id
  /\ e.op = entry.op
  /\ [code |-> e.code, status |-> e.status] \in AnswersTo(entry)

\* After a timeout the answer to an earlier command is told from the one that is
\* waited for by its operation code.
IsStale(waiting, op) == waiting = CONTROLLER_DEBUG_INFO /\ op # CONTROLLER_DEBUG_INFO

\* The closures ts and the commands c that the controller has, when queue is the queue
\* and waiting is waited for: every answer, arrived or to come, is the one to the first
\* command of the queue or is stale, and the former comes last.
Pipe(queue, waiting, ts, c) ==
  /\ \A n \in 1 .. Len(ts) : IsReply(ts[n]) =>
       /\ waiting # NONE
       /\ Replies(ts[n].event, Head(queue)) \/ IsStale(waiting, ts[n].event.op)
       /\ ts[n].event.op = waiting =>
            c = <<>> /\ \A m \in n + 1 .. Len(ts) : ~IsReply(ts[m])
  /\ \A i \in 1 .. Len(c) :
       /\ waiting # NONE
       /\ c[i] = Head(queue) \/ IsStale(waiting, c[i].op)
       /\ c[i].op = waiting => i = Len(c)

\* While the controller answers in order, or as long as nothing has timed out.
Orderly == life # "destroyed" /\ (InOrder \/ hci_abort_alarm_ # "hci_timeout")

\* The debug command is in the queue only after a timeout, and there is one timeout
\* at most.
DebugOnlyAfterTimeout ==
  /\ hci_abort_alarm_ # "null" => hci_timeout_alarm_ = "null"
  /\ \A n \in 1 .. Len(tasks) :
       tasks[n].run = "enqueue_command" => tasks[n].entry.op # CONTROLLER_DEBUG_INFO
  /\ \A n \in 1 .. Len(command_queue_) :
       command_queue_[n].op = CONTROLLER_DEBUG_INFO => hci_abort_alarm_ = "hci_timeout"

OrderInv ==
  /\ DebugOnlyAfterTimeout
  /\ Orderly => Pipe(command_queue_, waiting_command_, tasks, controller)
  /\ AssertOnlyAfterTimeout
  /\ InOrder => NoAssertFailure /\ AnswerMatches

\* Taking the first closure keeps the pipe.
LEMMA PipeTail ==
  ASSUME NEW q, NEW w, NEW ts \in Seq(Tasks), ts # <<>>, NEW c, Pipe(q, w, ts, c)
  PROVE  Pipe(q, w, Tail(ts), c)
<1>1. /\ Len(Tail(ts)) = Len(ts) - 1 /\ Len(ts) \in Nat
      /\ \A n \in 1 .. Len(Tail(ts)) : Tail(ts)[n] = ts[n + 1]
  BY HeadTailProperties, LenProperties
<1> DEFINE rest == Tail(ts)
<1>2. \A n \in 1 .. Len(rest) : rest[n] = ts[n + 1] /\ n + 1 \in 1 .. Len(ts)
  BY <1>1
<1> HIDE DEF rest
<1> QED
  BY <1>1, <1>2 DEF Pipe, rest

\* Posting a closure that is no answer keeps it.
LEMMA PipePost ==
  ASSUME NEW q, NEW w, NEW ts \in Seq(Tasks), NEW t \in Tasks, ~IsReply(t), NEW c,
         Pipe(q, w, ts, c)
  PROVE  Pipe(q, w, Append(ts, t), c)
<1>1. /\ Len(Append(ts, t)) = Len(ts) + 1 /\ Len(ts) \in Nat
      /\ \A n \in 1 .. Len(ts) : Append(ts, t)[n] = ts[n]
      /\ Append(ts, t)[Len(ts) + 1] = t
  BY AppendProperties, LenProperties
<1> DEFINE all == Append(ts, t)
<1> HIDE DEF all
<1> QED
  BY <1>1 DEF Pipe, all

\* Only the first command of the queue matters, and only while it is waited for.
LEMMA PipeQueue ==
  ASSUME NEW q, NEW r, NEW w, NEW ts, NEW c, Pipe(q, w, ts, c),
         w # NONE => Head(r) = Head(q)
  PROVE  Pipe(r, w, ts, c)
BY DEF Pipe

\* The elements of a sequence from which one was removed.
LEMMA RemoveAtElements ==
  ASSUME NEW S, NEW s \in Seq(S), NEW i \in 1 .. Len(s), NEW k \in 1 .. Len(s) - 1
  PROVE  RemoveAt(s, i)[k] = IF k < i THEN s[k] ELSE s[k + 1]
<1> DEFINE before == SubSeq(s, 1, i - 1)
           after == SubSeq(s, i + 1, Len(s))
<1>1. Len(s) \in Nat /\ \A n \in 1 .. Len(s) : s[n] \in S
  BY ElementOfSeq, LenProperties
<1>2. /\ before \in Seq(S) /\ Len(before) = i - 1
      /\ \A n \in 1 .. i - 1 : before[n] = s[n]
  BY <1>1, SubSeqProperties
<1>3. /\ after \in Seq(S) /\ Len(after) = Len(s) - i
      /\ \A n \in 1 .. Len(s) - i : after[n] = s[i + n]
  BY <1>1, SubSeqProperties
<1>4. RemoveAt(s, i) = before \o after
  BY DEF RemoveAt
<1> HIDE DEF before, after
<1>5. \A n \in 1 .. Len(before) + Len(after) :
        (before \o after)[n] = IF n <= Len(before) THEN before[n] ELSE after[n - Len(before)]
  BY <1>2, <1>3, ConcatProperties
<1>6. CASE k < i
  BY <1>1, <1>2, <1>3, <1>4, <1>5, <1>6
<1>7. CASE ~(k < i)
  <2> DEFINE n == k - Len(before)
  <2>1. n \in 1 .. Len(s) - i /\ i + n = k + 1
    BY <1>1, <1>2, <1>7
  <2>2. k \in 1 .. Len(before) + Len(after) /\ ~(k <= Len(before))
    BY <1>1, <1>2, <1>3, <1>7
  <2>3. RemoveAt(s, i)[k] = after[n]
    BY <1>4, <1>5, <2>2
  <2> HIDE DEF n
  <2>4. after[n] = s[k + 1]
    BY <1>3, <2>1
  <2> QED
    BY <1>7, <2>3, <2>4
<1> QED
  BY <1>6, <1>7

\* A command that the controller forgets leaves the pipe in order.
LEMMA PipeRemove ==
  ASSUME NEW q, NEW w, NEW ts, NEW c \in Seq(CommandQueueEntry), NEW i \in 1 .. Len(c),
         Pipe(q, w, ts, c)
  PROVE  Pipe(q, w, ts, RemoveAt(c, i))
<1> DEFINE rest == RemoveAt(c, i)
<1>1. Len(c) \in Nat /\ Len(rest) = Len(c) - 1 /\ c # <<>>
  BY RemoveAtType, LenProperties
<1>2. \A k \in 1 .. Len(rest) :
        /\ rest[k] = IF k < i THEN c[k] ELSE c[k + 1]
        /\ k \in 1 .. Len(c) /\ k + 1 \in 1 .. Len(c)
  BY <1>1, RemoveAtElements
<1> HIDE DEF rest
<1>3. \A k \in 1 .. Len(rest) :
        /\ w # NONE
        /\ rest[k] = Head(q) \/ IsStale(w, rest[k].op)
        /\ rest[k].op = w => k = Len(rest)
  <2>0. \A k \in 1 .. Len(c) :
          /\ w # NONE
          /\ c[k] = Head(q) \/ IsStale(w, c[k].op)
          /\ c[k].op = w => k = Len(c)
    BY DEF Pipe
  <2> SUFFICES ASSUME NEW k \in 1 .. Len(rest)
               PROVE  /\ w # NONE
                      /\ rest[k] = Head(q) \/ IsStale(w, rest[k].op)
                      /\ rest[k].op = w => k = Len(rest)
    OBVIOUS
  <2>1. PICK j \in 1 .. Len(c) : rest[k] = c[j] /\ (j = k \/ j = k + 1)
    BY <1>2
  <2>2. /\ w # NONE
        /\ c[j] = Head(q) \/ IsStale(w, c[j].op)
        /\ c[j].op = w => j = Len(c)
    BY <2>0
  <2>3. j = Len(c) => k = Len(rest)
    BY <1>1, <2>1
  <2> QED
    BY <2>1, <2>2, <2>3
<1> QED
  BY <1>1, <1>3 DEF Pipe, rest

\* A command that is sent is the only one on its way, and no answer to another is.
LEMMA SendPipe ==
  ASSUME TypeOK, NEW queue \in Seq(CommandQueueEntry), NEW waiting, NEW credits, NEW alarm,
         send_next_command(queue, waiting, credits, alarm),
         Pipe(queue, waiting, tasks', controller)
  PROVE  Pipe(command_queue_', waiting_command_', tasks', controller')
<1>1. CASE credits = 0 \/ waiting # NONE \/ queue = <<>>
  BY <1>1 DEF send_next_command
<1>2. CASE credits # 0 /\ waiting = NONE /\ queue # <<>>
  <2>1. Head(queue) \in CommandQueueEntry
    BY <1>2, HeadTailProperties
  <2>2. Head(queue).op # NONE
    BY <2>1, OpCodesAssumption DEF CommandQueueEntry, AllOps, NONE, RESET, CONTROLLER_DEBUG_INFO
  <2>3. \A n \in 1 .. Len(tasks') : ~IsReply(tasks'[n])
    BY <1>2 DEF Pipe
  <2>4. controller = <<>>
    <3>1. Len(controller) \in Nat /\ ~ \E i \in 1 .. Len(controller) : TRUE
      BY <1>2, LenProperties DEF Pipe, TypeOK
    <3> QED
      BY <3>1, EmptySeq DEF TypeOK
  <2>5. controller' = <<Head(queue)>>
    BY <1>2, <2>4 DEF send_next_command
  <2>6. Len(controller') = 1 /\ controller'[1] = Head(queue)
    BY <2>5
  <2>7. command_queue_' = queue /\ waiting_command_' = Head(queue).op
    BY <1>2 DEF send_next_command
  <2> QED
    BY <2>2, <2>3, <2>6, <2>7 DEF Pipe
<1> QED
  BY <1>1, <1>2

\* While nothing has timed out the outstanding command is not the debug command.
LEMMA NotDebug ==
  ASSUME TypeOK, CommandInv, DebugOnlyAfterTimeout, hci_abort_alarm_ # "hci_timeout"
  PROVE  waiting_command_ # CONTROLLER_DEBUG_INFO
<1> SUFFICES ASSUME waiting_command_ = CONTROLLER_DEBUG_INFO PROVE FALSE
  OBVIOUS
<1>1. command_queue_ # <<>> /\ Head(command_queue_).op = CONTROLLER_DEBUG_INFO
  BY DEF CommandInv, WaitingIsHead, CONTROLLER_DEBUG_INFO, NONE
<1>2. 1 \in 1 .. Len(command_queue_) /\ Head(command_queue_) = command_queue_[1]
  BY <1>1, HeadTailProperties, EmptySeq, LenProperties DEF TypeOK
<1> QED
  BY <1>1, <1>2 DEF DebugOnlyAfterTimeout

\* An answer leaves the controller for the queue of closures: it stays the last one if
\* it is the one that is waited for.
LEMMA ControllerAnswersPipe ==
  ASSUME TypeOK, CommandInv, DebugOnlyAfterTimeout, Orderly,
         Pipe(command_queue_, waiting_command_, tasks, controller),
         NEW i \in 1 .. Len(controller), NEW credits, ControllerAnswers(i, credits)
  PROVE  Pipe(command_queue_, waiting_command_, tasks', controller')
<1> DEFINE q == command_queue_
           w == waiting_command_
           c == controller
<1>1. c \in Seq(CommandQueueEntry) /\ Len(c) \in Nat /\ c # <<>>
  BY LenProperties DEF TypeOK
<1>2. controller' = RemoveAt(c, i) /\ Len(controller') = Len(c) - 1
      /\ controller' \in Seq(CommandQueueEntry)
  BY <1>1, RemoveAtType DEF ControllerAnswers
<1>3. Pipe(q, w, tasks, controller')
  BY <1>1, <1>2, PipeRemove
<1>4. /\ w # NONE
      /\ c[i] = Head(q) \/ IsStale(w, c[i].op)
      /\ c[i].op = w => i = Len(c)
  BY DEF Pipe
<1>5. c[i].op = w => controller' = <<>>
  <2> SUFFICES ASSUME c[i].op = w PROVE Len(c) = 1
    BY <1>1, <1>2, EmptySeq
  <2>1. CASE InOrder
    BY <1>4, <2>1 DEF ControllerAnswers
  <2>2. CASE ~InOrder
    <3>1. w # CONTROLLER_DEBUG_INFO
      BY <2>2, NotDebug DEF Orderly
    <3>2. 1 \in 1 .. Len(c) /\ i \in 1 .. Len(c)
      BY <1>1, EmptySeq
    <3>3. c[1] = Head(q) /\ c[i] = Head(q)
      BY <3>1, <3>2 DEF Pipe, IsStale
    <3> QED
      BY <3>2, <3>3 DEF Pipe
  <2> QED
    BY <2>1, <2>2
<1>6. PICK answer \in AnswersTo(c[i]) :
        hciEventReceived([code |-> answer.code, id |-> c[i].id, op |-> c[i].op,
                          status |-> answer.status, credits |-> credits])
  BY DEF ControllerAnswers
<1> DEFINE e == [code |-> answer.code, id |-> c[i].id, op |-> c[i].op,
                 status |-> answer.status, credits |-> credits]
           t == [run |-> "on_hci_event", event |-> e]
<1>7. tasks' = tasks \/ tasks' = Append(tasks, t)
  BY <1>6 DEF hciEventReceived
<1>8. /\ t.event = e /\ e.op = c[i].op
      /\ c[i] = Head(q) => Replies(e, Head(q))
  <2>1. answer = [code |-> answer.code, status |-> answer.status]
    BY <1>6 DEF AnswersTo
  <2>2. /\ e.op = c[i].op /\ e.id = c[i].id
        /\ e.code = answer.code /\ e.status = answer.status
        /\ t.event = e
    OBVIOUS
  <2> HIDE DEF e, t
  <2>3. [code |-> e.code, status |-> e.status] \in AnswersTo(c[i])
    BY <1>6, <2>1, <2>2
  <2> QED
    BY <2>2, <2>3 DEF Replies
<1> HIDE DEF e, t
<1>9. CASE tasks' = Append(tasks, t)
  <2>1. /\ Len(tasks') = Len(tasks) + 1 /\ Len(tasks) \in Nat
        /\ \A n \in 1 .. Len(tasks) : tasks'[n] = tasks[n]
        /\ tasks'[Len(tasks) + 1] = t
    BY <1>9, AppendProperties, LenProperties DEF TypeOK
  <2>2. \A n \in 1 .. Len(tasks) : IsReply(tasks[n]) => tasks[n].event.op # w
    BY <1>1 DEF Pipe
  <2>3. ASSUME NEW n \in 1 .. Len(tasks'), IsReply(tasks'[n])
        PROVE  /\ w # NONE
               /\ Replies(tasks'[n].event, Head(q)) \/ IsStale(w, tasks'[n].event.op)
               /\ tasks'[n].event.op = w =>
                    controller' = <<>> /\ \A m \in n + 1 .. Len(tasks') : ~IsReply(tasks'[m])
    <3>1. CASE n \in 1 .. Len(tasks)
      <4>1. tasks'[n] = tasks[n]
        BY <2>1, <3>1
      <4>2. tasks'[n].event.op # w
        BY <2>2, <2>3, <3>1, <4>1
      <4>3. w # NONE /\ (Replies(tasks[n].event, Head(q)) \/ IsStale(w, tasks[n].event.op))
        BY <1>3, <2>3, <3>1, <4>1 DEF Pipe
      <4> QED
        BY <4>1, <4>2, <4>3
    <3>2. CASE n = Len(tasks) + 1
      <4>1. tasks'[n] = t /\ \A m \in n + 1 .. Len(tasks') : FALSE
        BY <2>1, <3>2
      <4> QED
        BY <1>4, <1>5, <1>8, <4>1
    <3> QED
      BY <2>1, <3>1, <3>2
  <2> QED
    BY <1>3, <2>3 DEF Pipe
<1> QED
  BY <1>3, <1>7, <1>9

\* An answer that arrives while the pipe is in order is late, or is one that the first
\* command of the queue takes: handle_command_response finds its assertions true.
LEMMA AnswerTaken ==
  ASSUME TypeOK, CommandInv, tasks # <<>>, IsReply(Head(tasks)),
         Pipe(command_queue_, waiting_command_, tasks, controller)
  PROVE  /\ AssertionsHold(Head(tasks).event)
         /\ ~IsLate(Head(tasks).event) =>
              /\ Head(tasks).event.id = Head(command_queue_).id
              /\ Pipe(Tail(command_queue_), NONE, Tail(tasks), controller)
<1> DEFINE e == Head(tasks).event
           first == Head(command_queue_)
           rest == Tail(tasks)
<1>1. /\ Len(tasks) \in Nat /\ 1 \in 1 .. Len(tasks) /\ Head(tasks) = tasks[1]
      /\ Len(rest) = Len(tasks) - 1
      /\ \A n \in 1 .. Len(rest) : rest[n] = tasks[n + 1]
  BY HeadTailProperties, EmptySeq, LenProperties DEF TypeOK
<1>2. waiting_command_ # NONE
  BY <1>1 DEF Pipe
<1>3. /\ command_queue_ # <<>> /\ first.op = waiting_command_
      /\ first \in CommandQueueEntry
  BY <1>2, HeadTailProperties DEF CommandInv, WaitingIsHead, TypeOK
<1>4. Replies(e, first) \/ IsStale(waiting_command_, e.op)
  BY <1>1 DEF Pipe
<1>5. e.op = waiting_command_ =>
        controller = <<>> /\ \A m \in 2 .. Len(tasks) : ~IsReply(tasks[m])
  BY <1>1 DEF Pipe
<1> HIDE DEF e, first, rest
<1>6. CASE IsStale(waiting_command_, e.op)
  BY <1>3, <1>6 DEF AssertionsHold, IsStale, IsLate, e
<1>7. CASE Replies(e, first) /\ ~IsStale(waiting_command_, e.op)
  <2>1. e.op = waiting_command_ /\ e.id = first.id
    BY <1>3, <1>7 DEF Replies
  <2>2. first.waiting_for_ \in WaitingFor
    BY <1>3 DEF CommandQueueEntry
  <2>3. /\ e.code \in {"COMMAND_STATUS", "COMMAND_COMPLETE"}
        /\ \/ e.code = "COMMAND_STATUS" /\ first.waiting_for_ # "COMPLETE"
           \/ e.code = "COMMAND_COMPLETE" /\ first.waiting_for_ # "STATUS"
           \/ /\ e.code = "COMMAND_STATUS" /\ e.status = "UNKNOWN_HCI_COMMAND"
              /\ IsVendorSpecific(first.op)
    <3>1. [code |-> e.code, status |-> e.status] \in AnswersTo(first)
      BY <1>7 DEF Replies
    <3>2. first = ResetEntry => first.waiting_for_ = "COMPLETE"
      BY DEF ResetEntry
    <3> QED
      BY <3>1, <3>2 DEF AnswersTo
  <2>4. IsUnsupportedVendorCommand(e) \/ IsExpectedKind(e)
    BY <1>3, <2>1, <2>2, <2>3
    DEF IsUnsupportedVendorCommand, IsExpectedKind, first, WaitingFor
  <2>5. AssertionsHold(e)
    BY <1>3, <2>1, <2>4 DEF AssertionsHold
  <2>6. \A n \in 1 .. Len(rest) : ~IsReply(rest[n])
    BY <1>1, <1>5, <2>1
  <2>7. controller = <<>> /\ Len(controller) = 0
    BY <1>5, <2>1
  <2>8. Pipe(Tail(command_queue_), NONE, rest, controller)
    BY <2>6, <2>7 DEF Pipe
  <2> QED
    BY <2>1, <2>5, <2>8 DEF e, first, rest
<1> QED
  BY <1>4, <1>6, <1>7

\* What send_next_command leaves of the debug command's invariant.
LEMMA SendDebug ==
  ASSUME NEW queue, NEW waiting, NEW credits, NEW alarm,
         send_next_command(queue, waiting, credits, alarm),
         hci_abort_alarm_' # "null" => alarm = "null",
         \A n \in 1 .. Len(queue) :
           queue[n].op = CONTROLLER_DEBUG_INFO => hci_abort_alarm_' = "hci_timeout",
         \A n \in 1 .. Len(tasks') :
           tasks'[n].run = "enqueue_command" => tasks'[n].entry.op # CONTROLLER_DEBUG_INFO
  PROVE  DebugOnlyAfterTimeout'
BY DEF send_next_command, DebugOnlyAfterTimeout

\* A closure that is posted leaves the others as they were.
LEMMA Posted ==
  ASSUME NEW S, NEW s \in Seq(S), NEW t
  PROVE  \A n \in 1 .. Len(Append(s, t)) :
           Append(s, t)[n] = t \/ (n \in 1 .. Len(s) /\ Append(s, t)[n] = s[n])
OBVIOUS

\* So does taking the first one.
LEMMA Taken ==
  ASSUME NEW S, NEW s \in Seq(S), s # <<>>
  PROVE  /\ Len(Tail(s)) = Len(s) - 1 /\ Len(s) \in Nat
         /\ 1 \in 1 .. Len(s) /\ Head(s) = s[1]
         /\ \A n \in 1 .. Len(Tail(s)) : Tail(s)[n] = s[n + 1] /\ n + 1 \in 1 .. Len(s)
BY HeadTailProperties, EmptySeq, LenProperties

\* Clients never send the debug command, and only the timeout puts it in the queue.
LEMMA DebugStep ==
  ASSUME TypeOK, TypeOK', CommandInv, DebugOnlyAfterTimeout, [Next]_vars
  PROVE  DebugOnlyAfterTimeout'
<1> DEFINE NoDebug(ts) ==
      \A n \in 1 .. Len(ts) :
        ts[n].run = "enqueue_command" => ts[n].entry.op # CONTROLLER_DEBUG_INFO
<1>1. /\ hci_abort_alarm_ # "null" => hci_timeout_alarm_ = "null"
      /\ NoDebug(tasks)
      /\ \A n \in 1 .. Len(command_queue_) :
           command_queue_[n].op = CONTROLLER_DEBUG_INFO => hci_abort_alarm_ = "hci_timeout"
  BY DEF DebugOnlyAfterTimeout
<1>2. ASSUME tasks # <<>>
      PROVE  NoDebug(Tail(tasks))
  BY <1>1, <1>2, Taken DEF TypeOK
<1>4. ASSUME NEW e, hciEventReceived(e), UNCHANGED <<commands, alarms>>
      PROVE  DebugOnlyAfterTimeout'
  <2> DEFINE t == [run |-> "on_hci_event", event |-> e]
  <2>1. NoDebug(tasks')
    <3>1. tasks' = tasks \/ tasks' = Append(tasks, t)
      BY <1>4 DEF hciEventReceived
    <3>2. t.run # "enqueue_command"
      OBVIOUS
    <3> HIDE DEF t
    <3>3. CASE tasks' = Append(tasks, t)
      <4>1. \A n \in 1 .. Len(tasks') : tasks'[n] = t \/ (n \in 1 .. Len(tasks) /\ tasks'[n] = tasks[n])
        BY <3>3, Posted DEF TypeOK
      <4> QED
        BY <1>1, <3>2, <4>1
    <3> QED
      BY <1>1, <3>1, <3>3
  <2> QED
    BY <1>1, <1>4, <2>1 DEF DebugOnlyAfterTimeout, commands, alarms
<1>5. ASSUME NEW request \in Requests, EnqueueCommand(request[1], request[2])
      PROVE  DebugOnlyAfterTimeout'
  <2> DEFINE entry == [id |-> posted + 1, op |-> request[1], waiting_for_ |-> request[2]]
             t == [run |-> "enqueue_command", entry |-> entry]
  <2>1. request[1] # CONTROLLER_DEBUG_INFO
    BY OpCodesAssumption
  <2>2. tasks' = Append(tasks, t) /\ t.entry.op # CONTROLLER_DEBUG_INFO
    BY <1>5, <2>1 DEF EnqueueCommand
  <2> HIDE DEF t
  <2>3. \A n \in 1 .. Len(tasks') : tasks'[n] = t \/ (n \in 1 .. Len(tasks) /\ tasks'[n] = tasks[n])
    BY <2>2 DEF TypeOK
  <2>4. NoDebug(tasks')
    BY <1>1, <2>2, <2>3
  <2> QED
    BY <1>1, <1>5, <2>4 DEF EnqueueCommand, DebugOnlyAfterTimeout, commands, alarms
<1>6. CASE enqueue_command
  <2> DEFINE entry == Head(tasks).entry
             queue == Append(command_queue_, entry)
  <2>1. /\ tasks # <<>> /\ Head(tasks).run = "enqueue_command" /\ tasks' = Tail(tasks)
        /\ send_next_command(queue, waiting_command_, command_credits_, hci_timeout_alarm_)
        /\ hci_abort_alarm_' = hci_abort_alarm_
    BY <1>6 DEF enqueue_command
  <2>2. entry.op # CONTROLLER_DEBUG_INFO
    BY <1>1, <2>1, Taken DEF TypeOK
  <2> HIDE DEF entry
  <2>3. \A n \in 1 .. Len(queue) :
          queue[n] = entry \/ (n \in 1 .. Len(command_queue_) /\ queue[n] = command_queue_[n])
    BY DEF TypeOK
  <2> HIDE DEF queue
  <2>4. \A n \in 1 .. Len(queue) :
          queue[n].op = CONTROLLER_DEBUG_INFO => hci_abort_alarm_' = "hci_timeout"
    BY <1>1, <2>1, <2>2, <2>3
  <2> QED
    BY <1>1, <1>2, <2>1, <2>4, SendDebug
<1>7. CASE on_hci_event
  <2> DEFINE e == Head(tasks).event
  <2>1. NoDebug(Tail(tasks)) /\ e \in CommandEvents \cup FailureEvents
    BY <1>2, <1>7, FirstTask, TaskTypes DEF on_hci_event
  <2>2. tasks # <<>>
    BY <1>7 DEF on_hci_event
  <2> HIDE DEF e
  <2>3. CASE handle_root_inflammation(e)
    BY <1>1, <2>1, <2>3
    DEF handle_root_inflammation, arm_abort_alarm, commands, DebugOnlyAfterTimeout
  <2>4. CASE on_hardware_error(e)
    BY <1>1, <2>1, <2>4 DEF on_hardware_error, commands, alarms, DebugOnlyAfterTimeout
  <2>5. CASE handle_command_response(e) /\ grant_credits(e)
    <3>1. /\ send_next_command(command_queue_, waiting_command_, e.credits, hci_timeout_alarm_)
          /\ tasks' = Tail(tasks) /\ hci_abort_alarm_' = hci_abort_alarm_
      BY <2>5 DEF handle_command_response, grant_credits
    <3> QED
      BY <1>1, <2>1, <3>1, SendDebug
  <2>6. CASE handle_command_response(e) /\ fail_assertion(e)
    BY <1>1, <2>1, <2>6
    DEF handle_command_response, fail_assertion, commands, DebugOnlyAfterTimeout
  <2>7. CASE handle_command_response(e) /\ discard_late_answer(e)
    BY <1>1, <2>1, <2>7
    DEF handle_command_response, discard_late_answer, DebugOnlyAfterTimeout
  <2>8. CASE handle_command_response(e) /\ accept_answer(e)
    <3>1. hci_abort_alarm_' = hci_abort_alarm_ /\ call_back(e) /\ command_queue_ # <<>>
      BY <2>8 DEF handle_command_response, accept_answer, AssertionsHold
    <3> DEFINE t == [run |-> "reset_complete", status |-> e.status]
    <3>2. tasks' = Tail(tasks) \/ tasks' = Append(Tail(tasks), t)
      BY <3>1 DEF call_back
    <3>3. t.run # "enqueue_command"
      OBVIOUS
    <3> HIDE DEF t
    <3>4. NoDebug(tasks')
      <4>1. CASE tasks' = Append(Tail(tasks), t)
        <5>1. Tail(tasks) \in Seq(Tasks)
          BY <2>2, FirstTask
        <5>2. \A n \in 1 .. Len(tasks') :
                tasks'[n] = t \/ (n \in 1 .. Len(Tail(tasks)) /\ tasks'[n] = Tail(tasks)[n])
          BY <4>1, <5>1
        <5> QED
          BY <2>1, <3>3, <5>2
      <4> QED
        BY <2>1, <3>2, <4>1
    <3>5. \A n \in 1 .. Len(Tail(command_queue_)) :
            Tail(command_queue_)[n].op = CONTROLLER_DEBUG_INFO => hci_abort_alarm_' = "hci_timeout"
      BY <1>1, <3>1, Taken DEF TypeOK
    <3>6. CASE hci_timeout_alarm_ # "null"
      <4>1. send_next_command(Tail(command_queue_), NONE, e.credits, "idle")
        BY <2>8, <3>6 DEF accept_answer
      <4>2. hci_abort_alarm_' = "null"
        BY <1>1, <3>1, <3>6
      <4> QED
        BY <3>4, <3>5, <4>1, <4>2, SendDebug
    <3>7. CASE hci_timeout_alarm_ = "null"
      <4>1. command_queue_' = Tail(command_queue_) /\ hci_timeout_alarm_' = "null"
        BY <2>8, <3>7 DEF accept_answer
      <4> QED
        BY <3>4, <3>5, <4>1 DEF DebugOnlyAfterTimeout
    <3> QED
      BY <3>6, <3>7
  <2> QED
    BY <1>7, <2>3, <2>4, <2>5, <2>6, <2>7, <2>8 DEF on_hci_event, handle_command_response, e
<1>8. CASE fail_if_reset_complete_not_success
  <2>1. NoDebug(tasks')
    BY <1>2, <1>8 DEF fail_if_reset_complete_not_success
  <2> QED
    BY <1>1, <1>8, <2>1
    DEF fail_if_reset_complete_not_success, commands, alarms, DebugOnlyAfterTimeout
<1>9. CASE on_hci_timeout
  <2>1. /\ send_next_command(<<DebugEntry>>, NONE, 1, "null") /\ tasks' = tasks
        /\ hci_abort_alarm_ = "null" /\ hci_abort_alarm_' = "hci_timeout"
    BY <1>1, <1>9 DEF on_hci_timeout, arm_abort_alarm
  <2> QED
    BY <1>1, <2>1, SendDebug
<1>10. CASE abort
  BY <1>1, <1>10 DEF abort, commands, alarms, DebugOnlyAfterTimeout
<1>11. CASE Controller
  <2>1. ASSUME NEW i \in 1 .. Len(controller), NEW credits \in Grants, ControllerAnswers(i, credits)
        PROVE  DebugOnlyAfterTimeout'
    BY <1>4, <2>1 DEF ControllerAnswers
  <2>2. ASSUME NEW i \in 1 .. Len(controller), ControllerLoses(i)
        PROVE  DebugOnlyAfterTimeout'
    BY <1>1, <2>2 DEF ControllerLoses, commands, alarms, DebugOnlyAfterTimeout
  <2>3. ASSUME NEW event, ControllerReports(event)
        PROVE  DebugOnlyAfterTimeout'
    BY <1>4, <2>3 DEF ControllerReports
  <2> QED
    BY <1>11, <2>1, <2>2, <2>3 DEF Controller
<1>12. CASE Stop
  BY <1>1, <1>12 DEF Stop, commands, alarms, DebugOnlyAfterTimeout
<1>13. CASE Destroy
  BY <1>1, <1>13 DEF Destroy, DebugOnlyAfterTimeout
<1>14. CASE UNCHANGED vars
  BY <1>1, <1>14 DEF vars, commands, alarms, DebugOnlyAfterTimeout
<1> QED
  BY <1>5, <1>6, <1>7, <1>8, <1>9, <1>10, <1>11, <1>12, <1>13, <1>14 DEF Next, StackThread

\* The pipe stays in order when an event is handled.
LEMMA on_hci_eventPipe ==
  ASSUME TypeOK, CommandInv, on_hci_event,
         Pipe(command_queue_, waiting_command_, tasks, controller)
  PROVE  Pipe(command_queue_', waiting_command_', tasks', controller')
<1> DEFINE e == Head(tasks).event
<1>1. tasks # <<>> /\ e \in CommandEvents \cup FailureEvents /\ Tail(tasks) \in Seq(Tasks)
  BY FirstTask, TaskTypes DEF on_hci_event
<1>2. Pipe(command_queue_, waiting_command_, Tail(tasks), controller)
  BY <1>1, PipeTail DEF TypeOK
<1>3. Head(tasks).run = "on_hci_event"
  BY DEF on_hci_event
<1> HIDE DEF e
<1>4. CASE handle_root_inflammation(e)
  BY <1>2, <1>4 DEF handle_root_inflammation, commands
<1>5. CASE on_hardware_error(e)
  BY <1>2, <1>5 DEF on_hardware_error, commands
<1>6. CASE handle_command_response(e) /\ grant_credits(e)
  <2>1. /\ send_next_command(command_queue_, waiting_command_, e.credits, hci_timeout_alarm_)
        /\ tasks' = Tail(tasks) /\ command_queue_ \in Seq(CommandQueueEntry)
    BY <1>6 DEF grant_credits, TypeOK
  <2> QED
    BY <1>2, <2>1, SendPipe
<1>7. CASE handle_command_response(e) /\ fail_assertion(e)
  BY <1>2, <1>7 DEF fail_assertion, commands
<1>8. CASE handle_command_response(e) /\ discard_late_answer(e)
  BY <1>2, <1>8 DEF discard_late_answer
<1>9. CASE handle_command_response(e) /\ accept_answer(e)
  <2>1. IsReply(Head(tasks)) /\ ~IsLate(e)
    BY <1>3, <1>9 DEF handle_command_response, accept_answer, IsReply, e
  <2>2. Pipe(Tail(command_queue_), NONE, Tail(tasks), controller)
    BY <1>1, <2>1, AnswerTaken DEF e
  <2>3. Pipe(Tail(command_queue_), NONE, tasks', controller)
    <3> DEFINE t == [run |-> "reset_complete", status |-> e.status]
    <3>1. tasks' = Tail(tasks) \/ tasks' = Append(Tail(tasks), t)
      BY <1>9 DEF accept_answer, call_back
    <3>2. t \in Tasks /\ ~IsReply(t)
      <4>1. e \in CommandEvents
        BY <1>1, <1>9, AnswerTypes DEF handle_command_response
      <4> QED
        BY <4>1 DEF Tasks, ResetTasks, CommandEvents, IsReply
    <3> HIDE DEF t
    <3> QED
      BY <1>1, <2>2, <3>1, <3>2, PipePost
  <2>4. Tail(command_queue_) \in Seq(CommandQueueEntry)
    BY <1>9, HeadTailProperties DEF accept_answer, AssertionsHold, TypeOK
  <2>5. CASE hci_timeout_alarm_ # "null"
    <3>1. send_next_command(Tail(command_queue_), NONE, e.credits, "idle")
      BY <1>9, <2>5 DEF accept_answer
    <3> QED
      BY <2>3, <2>4, <3>1, SendPipe
  <2>6. CASE hci_timeout_alarm_ = "null"
    BY <1>9, <2>3, <2>6 DEF accept_answer
  <2> QED
    BY <2>5, <2>6
<1> QED
  BY <1>4, <1>5, <1>6, <1>7, <1>8, <1>9 DEF on_hci_event, handle_command_response, e

\* A timeout makes every answer on its way a stale one: none is for the debug command.
LEMMA on_hci_timeoutPipe ==
  ASSUME TypeOK, CommandInv, DebugOnlyAfterTimeout, on_hci_timeout,
         Pipe(command_queue_, waiting_command_, tasks, controller)
  PROVE  Pipe(command_queue_', waiting_command_', tasks', controller')
<1>1. /\ command_queue_' = <<DebugEntry>> /\ waiting_command_' = DebugEntry.op
      /\ controller' = Append(controller, DebugEntry) /\ tasks' = tasks
  BY DEF on_hci_timeout, send_next_command
<1>2. waiting_command_ # CONTROLLER_DEBUG_INFO
  BY NotDebug DEF on_hci_timeout, DebugOnlyAfterTimeout
<1>3. DebugEntry.op = CONTROLLER_DEBUG_INFO
  BY DEF DebugEntry
<1>4. waiting_command_ # NONE => Head(command_queue_).op = waiting_command_
  BY DEF CommandInv, WaitingIsHead
<1>5. \A n \in 1 .. Len(tasks) : IsReply(tasks[n]) => tasks[n].event.op # CONTROLLER_DEBUG_INFO
  BY <1>2, <1>4 DEF Pipe, Replies, IsStale
<1>6. \A i \in 1 .. Len(controller) : controller[i].op # CONTROLLER_DEBUG_INFO
  BY <1>2, <1>4 DEF Pipe, IsStale
<1>7. /\ Len(controller) \in Nat /\ Len(controller') = Len(controller) + 1
      /\ \A i \in 1 .. Len(controller) : controller'[i] = controller[i]
      /\ controller'[Len(controller) + 1] = DebugEntry
  BY <1>1, EntryTypes, AppendProperties, LenProperties DEF TypeOK
<1>8. CONTROLLER_DEBUG_INFO # NONE
  BY DEF CONTROLLER_DEBUG_INFO, NONE
<1>9. \A i \in 1 .. Len(controller') :
        i \in 1 .. Len(controller) \/ i = Len(controller')
  BY <1>7
<1>10. Head(command_queue_') = DebugEntry
  BY <1>1
<1>11. \A i \in 1 .. Len(controller') :
         /\ controller'[i] = DebugEntry \/ IsStale(CONTROLLER_DEBUG_INFO, controller'[i].op)
         /\ controller'[i].op = CONTROLLER_DEBUG_INFO => i = Len(controller')
  BY <1>6, <1>7, <1>9 DEF IsStale
<1>12. \A n \in 1 .. Len(tasks) :
         IsReply(tasks[n]) => IsStale(CONTROLLER_DEBUG_INFO, tasks[n].event.op)
  BY <1>5 DEF IsStale
<1> QED
  BY <1>1, <1>3, <1>5, <1>8, <1>10, <1>11, <1>12 DEF Pipe

\* Answers stay in the order of the commands as long as the controller keeps it or
\* nothing has timed out.
LEMMA PipeStep ==
  ASSUME TypeOK, CommandInv, DebugOnlyAfterTimeout, [Next]_vars, Orderly', Orderly,
         Pipe(command_queue_, waiting_command_, tasks, controller)
  PROVE  Pipe(command_queue_', waiting_command_', tasks', controller')
<1>1. ASSUME NEW request \in Requests, EnqueueCommand(request[1], request[2])
      PROVE  Pipe(command_queue_', waiting_command_', tasks', controller')
  <2> DEFINE entry == [id |-> posted + 1, op |-> request[1], waiting_for_ |-> request[2]]
             t == [run |-> "enqueue_command", entry |-> entry]
  <2>1. request[1] \in AllOps /\ request[2] \in WaitingFor /\ posted + 1 \in Ids
    BY <1>1, OpCodesAssumption, BoundsAssumption
    DEF AllOps, WaitingFor, EnqueueCommand, TypeOK, Ids
  <2>2. t \in Tasks /\ ~IsReply(t)
    BY <2>1 DEF Tasks, EnqueueTasks, CommandQueueEntry, IsReply
  <2>3. /\ tasks' = Append(tasks, t) /\ command_queue_' = command_queue_
        /\ waiting_command_' = waiting_command_ /\ controller' = controller
    BY <1>1 DEF EnqueueCommand, commands
  <2> HIDE DEF t
  <2> QED
    BY <2>2, <2>3, PipePost DEF TypeOK
<1>2. CASE enqueue_command
  <2> DEFINE entry == Head(tasks).entry
             queue == Append(command_queue_, entry)
  <2>1. /\ tasks # <<>> /\ tasks' = Tail(tasks)
        /\ send_next_command(queue, waiting_command_, command_credits_, hci_timeout_alarm_)
    BY <1>2 DEF enqueue_command
  <2>2. entry \in CommandQueueEntry
    BY <1>2, FirstTask, TaskTypes DEF enqueue_command
  <2> HIDE DEF entry
  <2>3. queue \in Seq(CommandQueueEntry)
    BY <2>2, AppendProperties DEF TypeOK
  <2>4. waiting_command_ # NONE => Head(queue) = Head(command_queue_)
    BY <2>2, HeadTailAppend DEF CommandInv, WaitingIsHead, TypeOK
  <2> HIDE DEF queue
  <2>5. Pipe(command_queue_, waiting_command_, Tail(tasks), controller)
    BY <2>1, PipeTail DEF TypeOK
  <2>6. Pipe(queue, waiting_command_, Tail(tasks), controller)
    BY <2>4, <2>5, PipeQueue
  <2> QED
    BY <2>1, <2>3, <2>6, SendPipe
<1>3. CASE on_hci_event
  BY <1>3, on_hci_eventPipe
<1>4. CASE fail_if_reset_complete_not_success
  BY <1>4, PipeTail DEF fail_if_reset_complete_not_success, TypeOK, commands
<1>5. CASE on_hci_timeout
  BY <1>5, on_hci_timeoutPipe
<1>6. CASE abort
  BY <1>6 DEF abort, commands
<1>7. ASSUME NEW i \in 1 .. Len(controller), NEW credits \in Grants, ControllerAnswers(i, credits)
      PROVE  Pipe(command_queue_', waiting_command_', tasks', controller')
  BY <1>7, ControllerAnswersPipe DEF ControllerAnswers, commands
<1>8. ASSUME NEW i \in 1 .. Len(controller), ControllerLoses(i)
      PROVE  Pipe(command_queue_', waiting_command_', tasks', controller')
  BY <1>8, PipeRemove DEF ControllerLoses, commands, TypeOK
<1>9. ASSUME NEW credits \in Grants, NEW event \in Unsolicited(credits), ControllerReports(event)
      PROVE  Pipe(command_queue_', waiting_command_', tasks', controller')
  <2> DEFINE t == [run |-> "on_hci_event", event |-> event]
  <2>1. /\ tasks' = tasks \/ tasks' = Append(tasks, t)
        /\ command_queue_' = command_queue_ /\ waiting_command_' = waiting_command_
        /\ controller' = controller
    BY <1>9 DEF ControllerReports, hciEventReceived, commands
  <2>2. t \in Tasks /\ ~IsReply(t)
    <3>1. event \in CommandEvents \cup FailureEvents
      BY BoundsAssumption
      DEF Unsolicited, CommandEvents, FailureEvents, ErrorCodes, Ids, DebugId
    <3>2. IsAnswer(event) => event.op = NONE
      BY DEF Unsolicited, IsAnswer
    <3> QED
      BY <3>1, <3>2 DEF Tasks, EventTasks, IsReply
  <2> HIDE DEF t
  <2> QED
    BY <2>1, <2>2, PipePost DEF TypeOK
<1>10. CASE Stop
  <2>1. tasks' = <<>> /\ Len(tasks') = 0
    BY <1>10 DEF Stop
  <2> QED
    BY <1>10, <2>1 DEF Stop, commands, Pipe
<1>11. CASE Destroy
  BY <1>11 DEF Destroy, Orderly
<1>12. CASE UNCHANGED vars
  BY <1>12 DEF vars, commands
<1> QED
  BY <1>1, <1>2, <1>3, <1>4, <1>5, <1>6, <1>7, <1>8, <1>9, <1>10, <1>11, <1>12
  DEF Next, StackThread, Controller

\* Order that is lost is never found again.
LEMMA OrderlyStep ==
  ASSUME [Next]_vars, Orderly'
  PROVE  Orderly
<1> SUFFICES /\ life' # "destroyed" => life # "destroyed"
             /\ life' # "destroyed" /\ hci_abort_alarm_ = "hci_timeout"
                  => hci_abort_alarm_' = "hci_timeout"
  BY DEF Orderly
<1>1. CASE on_hci_event
  BY <1>1
  DEF on_hci_event, HandlerRuns, handle_command_response, handle_root_inflammation,
      on_hardware_error, arm_abort_alarm, alarms
<1>2. CASE (\E request \in Requests : EnqueueCommand(request[1], request[2])) \/ enqueue_command
  BY <1>2 DEF EnqueueCommand, enqueue_command, alarms
<1>3. CASE fail_if_reset_complete_not_success \/ on_hci_timeout \/ abort
  BY <1>3 DEF fail_if_reset_complete_not_success, on_hci_timeout, arm_abort_alarm, abort, alarms
<1>4. CASE Controller
  BY <1>4 DEF Controller, ControllerAnswers, ControllerLoses, ControllerReports, alarms
<1>5. CASE Stop \/ Destroy
  BY <1>5 DEF Stop, Destroy, HandlerRuns, alarms
<1>6. CASE UNCHANGED vars
  BY <1>6 DEF vars, alarms
<1> QED
  BY <1>1, <1>2, <1>3, <1>4, <1>5, <1>6 DEF Next, StackThread

\* An event makes an assertion fail only where the order of the answers was lost, and
\* an answer is otherwise given to the command it belongs to.
LEMMA on_hci_eventOrder ==
  ASSUME TypeOK, CommandInv, OrderInv, on_hci_event
  PROVE  AssertOnlyAfterTimeout' /\ (InOrder => NoAssertFailure' /\ AnswerMatches')
<1> DEFINE e == Head(tasks).event
<1>1. /\ tasks # <<>> /\ Head(tasks).run = "on_hci_event"
      /\ fate = "alive" /\ life = "running"
  BY DEF on_hci_event, HandlerRuns
<1>2. Orderly => Pipe(command_queue_, waiting_command_, tasks, controller)
  BY DEF OrderInv
<1> HIDE DEF e
<1>3. CASE handle_root_inflammation(e) \/ on_hardware_error(e)
  BY <1>1, <1>3
  DEF handle_root_inflammation, on_hardware_error, OrderInv, AssertOnlyAfterTimeout,
      NoAssertFailure, AnswerMatches
<1>4. CASE handle_command_response(e) /\ (grant_credits(e) \/ discard_late_answer(e))
  BY <1>1, <1>4
  DEF grant_credits, discard_late_answer, OrderInv, AssertOnlyAfterTimeout,
      NoAssertFailure, AnswerMatches
<1>5. CASE handle_command_response(e) /\ fail_assertion(e)
  <2>1. IsReply(Head(tasks)) /\ ~AssertionsHold(e) /\ hci_abort_alarm_' = hci_abort_alarm_
    BY <1>1, <1>5 DEF handle_command_response, fail_assertion, IsReply, e
  <2>2. ~Orderly
    BY <1>1, <1>2, <2>1, AnswerTaken DEF e
  <2> QED
    BY <1>1, <2>1, <2>2 DEF Orderly, AssertOnlyAfterTimeout
<1>6. CASE handle_command_response(e) /\ accept_answer(e)
  <2>1. IsReply(Head(tasks)) /\ ~IsLate(e) /\ fate' = fate
    BY <1>1, <1>6 DEF handle_command_response, accept_answer, IsReply, e
  <2>2. ASSUME InOrder PROVE AnswerMatches'
    <3> DEFINE record == [id |-> Head(command_queue_).id, by |-> e.id]
    <3>1. Orderly
      BY <1>1, <2>2 DEF Orderly
    <3>2. record.id = record.by
      BY <1>1, <1>2, <2>1, <3>1, AnswerTaken DEF e
    <3>3. answered' = Append(answered, record)
      BY <1>6 DEF accept_answer, call_back
    <3> HIDE DEF record
    <3>4. \A n \in 1 .. Len(answered') :
            answered'[n] = record \/ (n \in 1 .. Len(answered) /\ answered'[n] = answered[n])
      BY <3>3, Posted DEF TypeOK
    <3> QED
      BY <2>2, <3>2, <3>4 DEF OrderInv, AnswerMatches
  <2> QED
    BY <1>1, <2>1, <2>2 DEF AssertOnlyAfterTimeout, NoAssertFailure
<1> QED
  BY <1>3, <1>4, <1>5, <1>6 DEF on_hci_event, handle_command_response, e

\* Every step keeps the answers apart.
LEMMA OrderStep ==
  ASSUME TypeOK, TypeOK', CommandInv, OrderInv, [Next]_vars
  PROVE  OrderInv'
<1>1. DebugOnlyAfterTimeout'
  BY DebugStep DEF OrderInv
<1>2. Orderly' => Pipe(command_queue_, waiting_command_, tasks, controller)'
  BY PipeStep, OrderlyStep DEF OrderInv
<1>3. AssertOnlyAfterTimeout' /\ (InOrder => NoAssertFailure' /\ AnswerMatches')
  <2> USE DEF OrderInv, AssertOnlyAfterTimeout, NoAssertFailure, AnswerMatches
  <2>1. CASE on_hci_event
    BY <2>1, on_hci_eventOrder
  <2>2. CASE abort
    BY <2>2 DEF abort, Alive, TypeOK
  <2>3. CASE fail_if_reset_complete_not_success
    BY <2>3 DEF fail_if_reset_complete_not_success, HandlerRuns
  <2>4. CASE on_hci_timeout
    BY <2>4 DEF on_hci_timeout, Alive
  <2>5. CASE Controller
    BY <2>5 DEF Controller, ControllerAnswers, ControllerLoses, ControllerReports, Alive, HandlerRuns
  <2>6. CASE enqueue_command
    BY <2>6 DEF enqueue_command, HandlerRuns
  <2>7. CASE \E request \in Requests : EnqueueCommand(request[1], request[2])
    BY <2>7 DEF EnqueueCommand, HandlerRuns
  <2>8. CASE Stop \/ Destroy
    BY <2>8 DEF Stop, Destroy, HandlerRuns
  <2>9. CASE UNCHANGED vars
    BY <2>9 DEF vars, alarms
  <2> QED
    BY <2>1, <2>2, <2>3, <2>4, <2>5, <2>6, <2>7, <2>8, <2>9 DEF Next, StackThread
<1> QED
  BY <1>1, <1>2, <1>3 DEF OrderInv

\* The answers are kept apart in every behaviour.
LEMMA OrderInvariant == Spec => []OrderInv
<1>1. Init => OrderInv
  <2> SUFFICES ASSUME Init PROVE OrderInv
    OBVIOUS
  <2>1. /\ Len(tasks) = 1 /\ tasks[1].run = "enqueue_command" /\ tasks[1].entry = ResetEntry
        /\ Len(controller) = 0 /\ Len(answered) = 0 /\ Len(command_queue_) = 0
    BY DEF Init
  <2>2. ResetEntry.op # CONTROLLER_DEBUG_INFO
    BY DEF ResetEntry, RESET, CONTROLLER_DEBUG_INFO
  <2>3. Pipe(command_queue_, waiting_command_, tasks, controller)
    BY <2>1 DEF Pipe, IsReply
  <2>4. DebugOnlyAfterTimeout
    BY <2>1, <2>2 DEF Init, DebugOnlyAfterTimeout
  <2> QED
    BY <2>1, <2>3, <2>4
    DEF Init, OrderInv, AssertOnlyAfterTimeout, NoAssertFailure, AnswerMatches
<1>2. TypeOK /\ TypeOK' /\ CommandInv /\ OrderInv /\ [Next]_vars => OrderInv'
  BY OrderStep
<1> QED
  BY <1>1, <1>2, TypeCorrect, CommandInvariant, PTL DEF Spec

\* Whatever the order of its answers, a controller makes an assertion of
\* handle_command_response fail only between a timeout and the abort it schedules.
THEOREM AssertOnlyAfterTimeoutHolds == Spec => []AssertOnlyAfterTimeout
BY OrderInvariant, PTL DEF OrderInv

\* A controller that answers in order never makes an assertion of
\* handle_command_response fail, even when its answers race with the timeout.
THEOREM NoAssertFailureHolds ==
  ASSUME InOrder
  PROVE  Spec => []NoAssertFailure
<1>1. OrderInv => NoAssertFailure
  BY DEF OrderInv
<1> QED
  BY <1>1, OrderInvariant, PTL

\* With such a controller every callback is given the answer to its own command,
\* although the code compares operation codes only.
THEOREM AnswerMatchesHolds ==
  ASSUME InOrder
  PROVE  Spec => []AnswerMatches
<1>1. OrderInv => AnswerMatches
  BY DEF OrderInv
<1> QED
  BY <1>1, OrderInvariant, PTL

-----------------------------------------------------------------------------
(* Commands stand in line: first those in the queue, then those whose        *)
(* enqueue_command has not run.                                              *)

Enqueues(t) == t.run = "enqueue_command"

\* The numbers ascend along the line; only the first may be the debug command's, 0.
Line(queue, closures, last) ==
  /\ \A m, n \in 1 .. Len(queue) : m < n => queue[m].id < queue[n].id
  /\ \A m, n \in 1 .. Len(closures) : Enqueues(closures[m]) /\ Enqueues(closures[n]) /\ m < n =>
       closures[m].entry.id < closures[n].entry.id
  /\ \A m \in 1 .. Len(queue) : \A n \in 1 .. Len(closures) : Enqueues(closures[n]) =>
       queue[m].id < closures[n].entry.id
  /\ \A m \in 1 .. Len(queue) : queue[m].id <= last
  /\ \A n \in 1 .. Len(closures) : Enqueues(closures[n]) =>
       0 < closures[n].entry.id /\ closures[n].entry.id <= last

\* Commands have numbers.
LEMMA IdTypes ==
  ASSUME NEW queue \in Seq(CommandQueueEntry), NEW closures \in Seq(Tasks)
  PROVE  /\ \A m \in 1 .. Len(queue) : queue[m].id \in Nat
         /\ \A n \in 1 .. Len(closures) : Enqueues(closures[n]) => closures[n].entry.id \in Nat
<1>1. \A entry \in CommandQueueEntry : entry.id \in Nat
  BY BoundsAssumption DEF CommandQueueEntry, Ids
<1>2. \A m \in 1 .. Len(queue) : queue[m] \in CommandQueueEntry
  BY ElementOfSeq
<1>3. \A t \in Tasks : Enqueues(t) => t.entry \in CommandQueueEntry
  BY DEF Enqueues, Tasks, EnqueueTasks, EventTasks, ResetTasks
<1>4. \A n \in 1 .. Len(closures) : closures[n] \in Tasks
  BY ElementOfSeq
<1> QED
  BY <1>1, <1>2, <1>3, <1>4

\* The elements of the rest of a sequence.
LEMMA TailElements ==
  ASSUME NEW S, NEW s \in Seq(S), s # <<>>
  PROVE  /\ Len(s) \in Nat /\ Len(s) > 0 /\ Len(Tail(s)) = Len(s) - 1 /\ Head(s) = s[1]
         /\ \A n \in 1 .. Len(Tail(s)) : Tail(s)[n] = s[n + 1] /\ n + 1 \in 1 .. Len(s)
         /\ \A n \in 2 .. Len(s) : s[n] = Tail(s)[n - 1] /\ n - 1 \in 1 .. Len(Tail(s))
<1>1. /\ Len(Tail(s)) = Len(s) - 1 /\ Len(s) \in Nat /\ Len(s) > 0
      /\ \A n \in 1 .. Len(Tail(s)) : Tail(s)[n] = s[n + 1]
  BY HeadTailProperties, LenProperties, EmptySeq
<1>2. ASSUME NEW n \in 2 .. Len(s)
      PROVE  s[n] = Tail(s)[n - 1] /\ n - 1 \in 1 .. Len(Tail(s))
  <2>1. n - 1 \in 1 .. Len(Tail(s)) /\ (n - 1) + 1 = n
    BY <1>1
  <2> QED
    BY <1>1, <2>1
<1>3. Head(s) = s[1]
  BY <1>1
<1> QED
  BY <1>1, <1>2, <1>3

\* The elements of a longer sequence.
LEMMA AppendElements ==
  ASSUME NEW S, NEW s \in Seq(S), NEW x \in S
  PROVE  /\ Len(s) \in Nat /\ Len(Append(s, x)) = Len(s) + 1
         /\ Append(s, x)[Len(s) + 1] = x
         /\ \A n \in 1 .. Len(s) : Append(s, x)[n] = s[n]
         /\ \A n \in 1 .. Len(Append(s, x)) : n \in 1 .. Len(s) \/ n = Len(s) + 1
BY AppendProperties, LenProperties

\* The first closure is done with.
LEMMA LineTail ==
  ASSUME NEW queue, NEW closures \in Seq(Tasks), closures # <<>>, NEW last,
         Line(queue, closures, last)
  PROVE  Line(queue, Tail(closures), last)
<1> DEFINE rest == Tail(closures)
<1>1. /\ \A n \in 1 .. Len(rest) : rest[n] = closures[n + 1] /\ n + 1 \in 1 .. Len(closures)
      /\ \A m, n \in 1 .. Len(rest) : m < n => m + 1 < n + 1
  BY TailElements
<1> HIDE DEF rest
<1> QED
  BY <1>1 DEF Line, rest

\* The first command is done with.
LEMMA LinePop ==
  ASSUME NEW queue \in Seq(CommandQueueEntry), queue # <<>>, NEW closures, NEW last,
         Line(queue, closures, last)
  PROVE  Line(Tail(queue), closures, last)
<1> DEFINE rest == Tail(queue)
<1>1. /\ \A n \in 1 .. Len(rest) : rest[n] = queue[n + 1] /\ n + 1 \in 1 .. Len(queue)
      /\ \A m, n \in 1 .. Len(rest) : m < n => m + 1 < n + 1
  BY TailElements
<1> HIDE DEF rest
<1> QED
  BY <1>1 DEF Line, rest

\* A closure that enqueues nothing does not stand in line.
LEMMA LineEvent ==
  ASSUME NEW queue, NEW closures \in Seq(Tasks), NEW t \in Tasks, ~Enqueues(t), NEW last,
         Line(queue, closures, last)
  PROVE  Line(queue, Append(closures, t), last)
<1> DEFINE more == Append(closures, t)
<1>1. \A n \in 1 .. Len(more) : Enqueues(more[n]) => n \in 1 .. Len(closures) /\ more[n] = closures[n]
  BY AppendElements
<1> HIDE DEF more
<1> QED
  BY <1>1 DEF Line, more

\* A command that is posted is the last one.
LEMMA LinePost ==
  ASSUME NEW queue \in Seq(CommandQueueEntry), NEW closures \in Seq(Tasks), NEW last \in Nat,
         NEW t \in Tasks, Enqueues(t), t.entry.id = last + 1,
         Line(queue, closures, last)
  PROVE  Line(queue, Append(closures, t), last + 1)
<1> DEFINE more == Append(closures, t)
<1>1. /\ Len(closures) \in Nat
      /\ \A n \in 1 .. Len(more) : \/ n \in 1 .. Len(closures) /\ more[n] = closures[n]
                                   \/ n = Len(closures) + 1 /\ more[n] = t
  BY AppendElements
<1>2. /\ \A m \in 1 .. Len(queue) : queue[m].id \in Nat
      /\ \A n \in 1 .. Len(closures) : Enqueues(closures[n]) => closures[n].entry.id \in Nat
  BY IdTypes
<1>3. \A i \in Nat : i <= last => i < last + 1 /\ i <= last + 1
  OBVIOUS
<1> HIDE DEF more
<1>4. ASSUME NEW m \in 1 .. Len(more), NEW n \in 1 .. Len(more), Enqueues(more[m]), Enqueues(more[n]), m < n
      PROVE  more[m].entry.id < more[n].entry.id
  <2>1. m \in 1 .. Len(closures) /\ more[m] = closures[m]
    BY <1>1, <1>4
  <2>2. CASE n \in 1 .. Len(closures) /\ more[n] = closures[n]
    BY <1>4, <2>1, <2>2 DEF Line
  <2>3. CASE more[n] = t
    BY <1>2, <1>3, <1>4, <2>1, <2>3 DEF Line
  <2> QED
    BY <1>1, <2>2, <2>3
<1>5. ASSUME NEW m \in 1 .. Len(queue), NEW n \in 1 .. Len(more), Enqueues(more[n])
      PROVE  queue[m].id < more[n].entry.id
  BY <1>1, <1>2, <1>3, <1>5 DEF Line
<1>6. \A m \in 1 .. Len(queue) : queue[m].id <= last + 1
  BY <1>2, <1>3 DEF Line
<1>7. ASSUME NEW n \in 1 .. Len(more), Enqueues(more[n])
      PROVE  0 < more[n].entry.id /\ more[n].entry.id <= last + 1
  <2>1. CASE n \in 1 .. Len(closures) /\ more[n] = closures[n]
    BY <1>2, <1>3, <1>7, <2>1 DEF Line
  <2>2. CASE more[n] = t
    BY <2>2
  <2> QED
    BY <1>1, <2>1, <2>2
<1>8. \A m, n \in 1 .. Len(queue) : m < n => queue[m].id < queue[n].id
  BY DEF Line
<1> QED
  BY <1>4, <1>5, <1>6, <1>7, <1>8 DEF Line, more

\* enqueue_command takes the first command posted to the end of the queue.
LEMMA LineMove ==
  ASSUME NEW queue \in Seq(CommandQueueEntry), NEW closures \in Seq(Tasks), closures # <<>>,
         Enqueues(Head(closures)), NEW last,
         Line(queue, closures, last)
  PROVE  Line(Append(queue, Head(closures).entry), Tail(closures), last)
<1> DEFINE rest == Tail(closures)
           entry == Head(closures).entry
           more == Append(queue, entry)
<1>1. /\ Len(closures) > 0 /\ Len(closures) \in Nat /\ Head(closures) = closures[1]
      /\ \A n \in 1 .. Len(rest) : rest[n] = closures[n + 1] /\ n + 1 \in 1 .. Len(closures) /\ 1 < n + 1
      /\ \A m, n \in 1 .. Len(rest) : m < n => m + 1 < n + 1
  BY TailElements
<1>2. entry \in CommandQueueEntry
  <2>1. Head(closures) \in Tasks
    BY HeadTailProperties
  <2> QED
    BY <2>1 DEF Enqueues, Tasks, EnqueueTasks, EventTasks, ResetTasks
<1>3. /\ Len(queue) \in Nat
      /\ \A n \in 1 .. Len(more) : \/ n \in 1 .. Len(queue) /\ more[n] = queue[n]
                                   \/ n = Len(queue) + 1 /\ more[n] = entry
  BY <1>2, AppendElements
<1>4. 1 \in 1 .. Len(closures) /\ entry = closures[1].entry /\ Enqueues(closures[1])
  BY <1>1
<1> HIDE DEF rest, more, entry
<1>5. ASSUME NEW m \in 1 .. Len(more), NEW n \in 1 .. Len(more), m < n
      PROVE  more[m].id < more[n].id
  <2>1. m \in 1 .. Len(queue) /\ more[m] = queue[m]
    BY <1>3, <1>5
  <2> QED
    BY <1>3, <1>4, <1>5, <2>1 DEF Line
<1>6. ASSUME NEW m \in 1 .. Len(rest), NEW n \in 1 .. Len(rest), Enqueues(rest[m]), Enqueues(rest[n]), m < n
      PROVE  rest[m].entry.id < rest[n].entry.id
  BY <1>1, <1>6 DEF Line
<1>7. ASSUME NEW m \in 1 .. Len(more), NEW n \in 1 .. Len(rest), Enqueues(rest[n])
      PROVE  more[m].id < rest[n].entry.id
  BY <1>1, <1>3, <1>4, <1>7 DEF Line
<1>8. ASSUME NEW m \in 1 .. Len(more)
      PROVE  more[m].id <= last
  BY <1>3, <1>4 DEF Line
<1>9. ASSUME NEW n \in 1 .. Len(rest), Enqueues(rest[n])
      PROVE  0 < rest[n].entry.id /\ rest[n].entry.id <= last
  BY <1>1, <1>9 DEF Line
<1>10. Line(more, rest, last)
  BY <1>5, <1>6, <1>7, <1>8, <1>9 DEF Line
<1> QED
  BY <1>10 DEF more, rest, entry

\* A timeout puts the debug command in the place of the whole queue.
LEMMA LineDebug ==
  ASSUME NEW queue, NEW closures \in Seq(Tasks), NEW last \in Nat, Line(queue, closures, last)
  PROVE  Line(<<DebugEntry>>, closures, last)
<1>1. Len(<<DebugEntry>>) = 1 /\ <<DebugEntry>>[1] = DebugEntry /\ DebugEntry.id = 0
  BY DEF DebugEntry, DebugId
<1> DEFINE own == <<DebugEntry>>
<1>2. \A m \in 1 .. Len(own) : own[m].id = 0 /\ m = 1
  BY <1>1
<1> HIDE DEF own
<1>3. \A m, n \in 1 .. Len(own) : ~(m < n)
  BY <1>2
<1> QED
  BY <1>2, <1>3 DEF Line, own

-----------------------------------------------------------------------------
(* The pending commands as a set                                             *)

\* The commands of the queue are those of its entries.
LEMMA QueuedMember ==
  ASSUME NEW queue
  PROVE  \A i : i \in QueuedIds(queue) <=> \E n \in 1 .. Len(queue) : i = queue[n].id
BY DEF QueuedIds

\* The commands posted are those of the closures that enqueue.
LEMMA PostedMember ==
  ASSUME NEW closures
  PROVE  \A i : i \in PostedIds(closures) <=>
           \E n \in 1 .. Len(closures) : Enqueues(closures[n]) /\ i = closures[n].entry.id
BY DEF PostedIds, Enqueues

\* One more command in the queue.
LEMMA QueuedAppend ==
  ASSUME NEW queue \in Seq(CommandQueueEntry), NEW entry \in CommandQueueEntry
  PROVE  QueuedIds(Append(queue, entry)) = QueuedIds(queue) \cup {entry.id}
<1> DEFINE more == Append(queue, entry)
<1>1. /\ Len(queue) \in Nat
      /\ Len(more) = Len(queue) + 1
      /\ more[Len(queue) + 1] = entry
      /\ \A n \in 1 .. Len(queue) : more[n] = queue[n] /\ n \in 1 .. Len(more)
      /\ \A n \in 1 .. Len(more) : n \in 1 .. Len(queue) \/ n = Len(queue) + 1
  BY AppendElements
<1>2. Len(queue) + 1 \in 1 .. Len(more)
  BY <1>1
<1> HIDE DEF more
<1>3. ASSUME NEW i
      PROVE  i \in QueuedIds(more) <=> i \in QueuedIds(queue) \/ i = entry.id
  BY <1>1, <1>2, QueuedMember, PostedMember
<1> QED
  BY <1>3 DEF more

\* One more closure.
LEMMA PostedAppend ==
  ASSUME NEW closures \in Seq(Tasks), NEW t \in Tasks
  PROVE  PostedIds(Append(closures, t)) =
           PostedIds(closures) \cup (IF Enqueues(t) THEN {t.entry.id} ELSE {})
<1> DEFINE more == Append(closures, t)
<1>1. /\ Len(closures) \in Nat
      /\ Len(more) = Len(closures) + 1
      /\ more[Len(closures) + 1] = t
      /\ \A n \in 1 .. Len(closures) : more[n] = closures[n] /\ n \in 1 .. Len(more)
      /\ \A n \in 1 .. Len(more) : n \in 1 .. Len(closures) \/ n = Len(closures) + 1
  BY AppendElements
<1>2. Len(closures) + 1 \in 1 .. Len(more)
  BY <1>1
<1> HIDE DEF more
<1>3. ASSUME NEW i
      PROVE  i \in PostedIds(more) <=> i \in PostedIds(closures) \/ (Enqueues(t) /\ i = t.entry.id)
  BY <1>1, <1>2, QueuedMember, PostedMember
<1> QED
  BY <1>3 DEF more

\* The first closure and the others.
LEMMA PostedTail ==
  ASSUME NEW closures \in Seq(Tasks), closures # <<>>
  PROVE  PostedIds(closures) =
           PostedIds(Tail(closures))
             \cup (IF Enqueues(Head(closures)) THEN {Head(closures).entry.id} ELSE {})
<1> DEFINE rest == Tail(closures)
<1>1. /\ Len(closures) \in Nat /\ Len(closures) > 0 /\ Head(closures) = closures[1]
      /\ \A n \in 1 .. Len(rest) : rest[n] = closures[n + 1] /\ n + 1 \in 1 .. Len(closures)
      /\ \A n \in 2 .. Len(closures) : closures[n] = rest[n - 1] /\ n - 1 \in 1 .. Len(rest)
  BY TailElements
<1>2. 1 \in 1 .. Len(closures) /\ \A n \in 1 .. Len(closures) : n = 1 \/ n \in 2 .. Len(closures)
  BY <1>1
<1> HIDE DEF rest
<1>3. ASSUME NEW i
      PROVE  i \in PostedIds(closures)
               <=> i \in PostedIds(rest) \/ (Enqueues(Head(closures)) /\ i = Head(closures).entry.id)
  <2>1. ASSUME i \in PostedIds(rest)
        PROVE  i \in PostedIds(closures)
    <3>1. PICK n \in 1 .. Len(rest) : Enqueues(rest[n]) /\ i = rest[n].entry.id
      BY <2>1, PostedMember
    <3>2. n + 1 \in 1 .. Len(closures) /\ Enqueues(closures[n + 1]) /\ i = closures[n + 1].entry.id
      BY <1>1, <3>1
    <3> QED
      BY <3>2, PostedMember
  <2>2. Enqueues(closures[1]) /\ i = closures[1].entry.id => i \in PostedIds(closures)
    BY <1>2, PostedMember
  <2>3. i \in PostedIds(closures)
          => i \in PostedIds(rest) \/ (Enqueues(Head(closures)) /\ i = Head(closures).entry.id)
    BY <1>1, <1>2, QueuedMember, PostedMember, SMTT(30)
  <2> QED
    BY <1>1, <2>1, <2>2, <2>3
<1> QED
  BY <1>3 DEF rest

\* The first command of the line is the least of the line, and no other has its number.
LEMMA OldestFirst ==
  ASSUME NEW queue \in Seq(CommandQueueEntry), queue # <<>>, NEW closures \in Seq(Tasks),
         NEW last, Line(queue, closures, last)
  PROVE  /\ Head(queue).id \in QueuedIds(queue) /\ Head(queue).id \in Nat
         /\ QueuedIds(Tail(queue)) = QueuedIds(queue) \ {Head(queue).id}
         /\ Head(queue).id \notin PostedIds(closures)
         /\ \A i \in QueuedIds(queue) \cup PostedIds(closures) : Head(queue).id <= i
<1> DEFINE rest == Tail(queue)
           oldest == Head(queue).id
<1>1. /\ Len(queue) \in Nat /\ Len(queue) > 0 /\ Head(queue) = queue[1]
      /\ \A n \in 1 .. Len(rest) : rest[n] = queue[n + 1] /\ n + 1 \in 1 .. Len(queue) /\ 1 < n + 1
      /\ \A n \in 2 .. Len(queue) : queue[n] = rest[n - 1] /\ n - 1 \in 1 .. Len(rest)
  BY TailElements
<1>2. /\ 1 \in 1 .. Len(queue) /\ oldest = queue[1].id
      /\ \A n \in 1 .. Len(queue) : n = 1 \/ (n \in 2 .. Len(queue) /\ 1 < n)
  BY <1>1
<1>3. /\ \A m \in 1 .. Len(queue) : queue[m].id \in Nat
      /\ \A n \in 1 .. Len(closures) : Enqueues(closures[n]) => closures[n].entry.id \in Nat
  BY IdTypes
<1> HIDE DEF rest, oldest
<1>4. \A n \in 2 .. Len(queue) : oldest < queue[n].id
  BY <1>2 DEF Line
<1>5. \A n \in 1 .. Len(closures) : Enqueues(closures[n]) => oldest < closures[n].entry.id
  BY <1>2 DEF Line
<1>6. oldest \in QueuedIds(queue) /\ oldest \in Nat
  BY <1>2, <1>3, QueuedMember, PostedMember
<1>7. \A i, j \in Nat : i < j => i # j /\ i <= j
  OBVIOUS
<1>8. ASSUME NEW i
      PROVE  i \in QueuedIds(rest) <=> i \in QueuedIds(queue) /\ i # oldest
  <2>1. i \in QueuedIds(rest) => i \in QueuedIds(queue)
    BY <1>1, QueuedMember, PostedMember
  <2>2. i \in QueuedIds(rest) => i # oldest
    <3>1. \A n \in 1 .. Len(rest) : rest[n].id # oldest
      <4>1. \A n \in 1 .. Len(rest) : n + 1 \in 2 .. Len(queue)
        BY <1>1
      <4> QED
        BY <1>1, <1>3, <1>4, <1>6, <1>7, <4>1
    <3> QED
      BY <3>1, QueuedMember, PostedMember
  <2>3. i \in QueuedIds(queue) /\ i # oldest => i \in QueuedIds(rest)
    BY <1>1, <1>2, QueuedMember, PostedMember
  <2> QED
    BY <2>1, <2>2, <2>3
<1>9. oldest \notin PostedIds(closures)
  BY <1>3, <1>5, <1>6, <1>7, QueuedMember, PostedMember
<1>10. ASSUME NEW i \in QueuedIds(queue) \cup PostedIds(closures)
       PROVE  oldest <= i
  <2>1. CASE i \in QueuedIds(queue)
    BY <1>2, <1>3, <1>4, <1>6, <1>7, <2>1, QueuedMember, PostedMember
  <2>2. CASE i \in PostedIds(closures)
    BY <1>3, <1>5, <1>6, <1>7, <2>2, QueuedMember, PostedMember
  <2> QED
    BY <2>1, <2>2
<1> QED
  BY <1>6, <1>8, <1>9, <1>10 DEF rest, oldest

\* Dropping the queue drops the oldest commands.
LEMMA QueueIsOldest ==
  ASSUME NEW queue \in Seq(CommandQueueEntry), NEW closures \in Seq(Tasks), NEW last \in Nat,
         Line(queue, closures, last)
  PROVE  \E dropped \in 0 .. last :
           PostedIds(closures) = {i \in Pending(queue, closures) : i > dropped}
<1>1. Len(queue) \in Nat
  BY LenProperties
<1>2. /\ \A m \in 1 .. Len(queue) : queue[m].id \in Nat
      /\ \A n \in 1 .. Len(closures) : Enqueues(closures[n]) => closures[n].entry.id \in Nat
  BY IdTypes
<1>3. PICK dropped \in 0 .. last :
        /\ \A m \in 1 .. Len(queue) : queue[m].id <= dropped
        /\ \A n \in 1 .. Len(closures) : Enqueues(closures[n]) => closures[n].entry.id > dropped
  <2>1. CASE Len(queue) = 0
    <3>1. /\ 0 \in 0 .. last
          /\ \A m \in 1 .. Len(queue) : queue[m].id <= 0
          /\ \A n \in 1 .. Len(closures) : Enqueues(closures[n]) => closures[n].entry.id > 0
      BY <1>2, <2>1 DEF Line
    <3> QED
      BY <3>1
  <2>2. CASE Len(queue) > 0
    <3> DEFINE youngest == queue[Len(queue)].id
    <3>1. Len(queue) \in 1 .. Len(queue)
      BY <1>1, <2>2
    <3>2. youngest \in 0 .. last /\ youngest \in Nat
      BY <1>2, <3>1 DEF Line
    <3>3. ASSUME NEW m \in 1 .. Len(queue)
          PROVE  queue[m].id <= youngest
      <4>1. m = Len(queue) \/ m < Len(queue)
        BY <1>1
      <4>2. m < Len(queue) => queue[m].id < youngest
        BY <3>1 DEF Line
      <4>3. \A i, j \in Nat : i < j => i <= j
        OBVIOUS
      <4> QED
        BY <1>2, <3>2, <4>1, <4>2, <4>3
    <3>4. ASSUME NEW n \in 1 .. Len(closures), Enqueues(closures[n])
          PROVE  closures[n].entry.id > youngest
      <4>1. youngest < closures[n].entry.id
        BY <3>1, <3>4 DEF Line
      <4> QED
        BY <1>2, <3>2, <3>4, <4>1
    <3> HIDE DEF youngest
    <3> QED
      BY <3>2, <3>3, <3>4
  <2> QED
    BY <1>1, <2>1, <2>2
<1>4. dropped \in Nat /\ \A i \in Nat : i > dropped => i # 0
  BY <1>3
<1>5. ASSUME NEW i
      PROVE  i \in PostedIds(closures) <=> i \in Pending(queue, closures) /\ i > dropped
  <2>1. i \in PostedIds(closures) => i \in Nat /\ i > dropped
    BY <1>2, <1>3, QueuedMember, PostedMember
  <2>2. i \in QueuedIds(queue) => ~(i > dropped)
    <3>1. \A k \in Nat : k <= dropped => ~(k > dropped)
      BY <1>4
    <3> QED
      BY <1>2, <1>3, <3>1, QueuedMember, PostedMember
  <2> QED
    BY <1>4, <2>1, <2>2 DEF Pending, DebugId
<1> QED
  BY <1>3, <1>5

-----------------------------------------------------------------------------
(* What a step does to the line of commands                                  *)

\* The timeout alarm is not created again.
AlarmStays == hci_timeout_alarm_ = "null" => hci_timeout_alarm_' = "null"

\* EnqueueCommand.
Posts ==
  /\ ~Over /\ ~Over'
  /\ posted' = posted + 1
  /\ \E t \in Tasks : Enqueues(t) /\ t.entry.id = posted + 1 /\ tasks' = Append(tasks, t)
  /\ UNCHANGED <<command_queue_, alarms, answered>>

\* enqueue_command.
Moves ==
  /\ ~Over /\ ~Over'
  /\ tasks # <<>> /\ Enqueues(Head(tasks))
  /\ tasks' = Tail(tasks)
  /\ command_queue_' = Append(command_queue_, Head(tasks).entry)
  /\ AlarmStays
  /\ UNCHANGED <<hci_abort_alarm_, posted, answered>>

\* An event, or the callback of the reset, that answers no command.
Runs ==
  /\ ~Over
  /\ tasks # <<>> /\ ~Enqueues(Head(tasks))
  /\ tasks' = Tail(tasks)
  /\ \/ Over'
     \/ ~Over' /\ hci_abort_alarm_' = hci_abort_alarm_
     \/ ~Over' /\ hci_abort_alarm_ = "null" /\ hci_abort_alarm_' # "null"
  /\ AlarmStays
  /\ UNCHANGED <<command_queue_, posted, answered>>

\* accept_answer.
Answers ==
  /\ ~Over /\ ~Over'
  /\ tasks # <<>> /\ ~Enqueues(Head(tasks))
  /\ \/ tasks' = Tail(tasks)
     \/ \E t \in Tasks : ~Enqueues(t) /\ tasks' = Append(Tail(tasks), t)
  /\ command_queue_ # <<>>
  /\ command_queue_' = Tail(command_queue_)
  /\ \E r \in [id : Ids, by : Ids] : r.id = Head(command_queue_).id /\ answered' = Append(answered, r)
  /\ AlarmStays
  /\ UNCHANGED <<hci_abort_alarm_, posted>>

\* on_hci_timeout.
TimesOut ==
  /\ Over' = Over
  /\ hci_timeout_alarm_ = "armed" /\ hci_timeout_alarm_' = "null"
  /\ hci_abort_alarm_' # "null"
  /\ command_queue_' = <<DebugEntry>>
  /\ UNCHANGED <<tasks, posted, answered>>

\* The controller's steps.
Receives ==
  /\ Over' = Over
  /\ tasks' = tasks \/ \E t \in Tasks : ~Enqueues(t) /\ tasks' = Append(tasks, t)
  /\ UNCHANGED <<command_queue_, alarms, posted, answered>>

\* abort, Stop and Destroy.
Ends ==
  /\ Over'
  /\ tasks' \in {tasks, <<>>}
  /\ command_queue_' \in {command_queue_, <<>>}
  /\ AlarmStays
  /\ UNCHANGED <<posted, answered>>

Kinds == Posts \/ Moves \/ Runs \/ Answers \/ TimesOut \/ Receives \/ Ends

\* send_next_command sets the queue it is given and creates no alarm.
LEMMA SendKind ==
  ASSUME NEW queue, NEW waiting, NEW credits, NEW alarm,
         send_next_command(queue, waiting, credits, alarm)
  PROVE  command_queue_' = queue /\ (alarm = "null" => hci_timeout_alarm_' = "null")
BY DEF send_next_command

\* An event is of one of the kinds.
LEMMA on_hci_eventKind ==
  ASSUME TypeOK, TypeOK', on_hci_event
  PROVE  Runs \/ Answers
<1> DEFINE e == Head(tasks).event
<1>1. /\ ~Over /\ tasks # <<>> /\ ~Enqueues(Head(tasks))
      /\ fate = "alive" /\ life = "running" /\ life' = life /\ posted' = posted
      /\ handle_command_response(e) \/ handle_root_inflammation(e) \/ on_hardware_error(e)
  BY DEF on_hci_event, HandlerRuns, Over, Enqueues
<1>2. e \in CommandEvents \cup FailureEvents
  BY <1>1, FirstTask, TaskTypes DEF on_hci_event
<1> HIDE DEF e
<1>3. CASE handle_root_inflammation(e)
  <2>1. /\ tasks' = Tail(tasks) /\ fate' = fate /\ hci_timeout_alarm_' = "null"
        /\ UNCHANGED <<command_queue_, answered>>
    BY <1>3 DEF handle_root_inflammation, commands
  <2>2. \/ hci_abort_alarm_' = hci_abort_alarm_
        \/ hci_abort_alarm_ = "null" /\ hci_abort_alarm_' # "null"
    BY <1>3 DEF handle_root_inflammation, arm_abort_alarm
  <2> QED
    BY <1>1, <2>1, <2>2 DEF Runs, Over, AlarmStays
<1>4. CASE on_hardware_error(e)
  <2>1. /\ tasks' = Tail(tasks) /\ fate' = "hardware_error"
        /\ UNCHANGED <<command_queue_, alarms, answered>>
    BY <1>4 DEF on_hardware_error, commands
  <2> QED
    BY <1>1, <2>1 DEF Runs, Over, AlarmStays, alarms
<1>5. CASE handle_command_response(e) /\ grant_credits(e)
  <2>1. /\ tasks' = Tail(tasks) /\ fate' = fate
        /\ UNCHANGED <<hci_abort_alarm_, answered>>
        /\ send_next_command(command_queue_, waiting_command_, e.credits, hci_timeout_alarm_)
    BY <1>5 DEF handle_command_response, grant_credits
  <2> QED
    BY <1>1, <2>1, SendKind DEF Runs, Over, AlarmStays
<1>6. CASE handle_command_response(e) /\ fail_assertion(e)
  <2>1. /\ tasks' = Tail(tasks) /\ fate' = "assert"
        /\ UNCHANGED <<command_queue_, hci_timeout_alarm_, hci_abort_alarm_, answered>>
    BY <1>6 DEF handle_command_response, fail_assertion, commands
  <2> QED
    BY <1>1, <2>1 DEF Runs, Over, AlarmStays
<1>7. CASE handle_command_response(e) /\ discard_late_answer(e)
  <2>1. /\ tasks' = Tail(tasks) /\ fate' = fate
        /\ UNCHANGED <<command_queue_, hci_timeout_alarm_, hci_abort_alarm_, answered>>
    BY <1>7 DEF handle_command_response, discard_late_answer
  <2> QED
    BY <1>1, <2>1 DEF Runs, Over, AlarmStays
<1>8. CASE handle_command_response(e) /\ accept_answer(e)
  <2> DEFINE r == [id |-> Head(command_queue_).id, by |-> e.id]
             t == [run |-> "reset_complete", status |-> e.status]
  <2>1. /\ command_queue_ # <<>> /\ fate' = fate /\ hci_abort_alarm_' = hci_abort_alarm_
        /\ answered' = Append(answered, r)
        /\ tasks' = Tail(tasks) \/ tasks' = Append(Tail(tasks), t)
    BY <1>8 DEF handle_command_response, accept_answer, AssertionsHold, call_back
  <2>2. command_queue_' = Tail(command_queue_) /\ AlarmStays
    <3>1. CASE hci_timeout_alarm_ = "null"
      BY <1>8, <3>1 DEF accept_answer, AlarmStays
    <3>2. CASE hci_timeout_alarm_ # "null"
      <4>1. send_next_command(Tail(command_queue_), NONE, e.credits, "idle")
        BY <1>8, <3>2 DEF accept_answer
      <4> QED
        BY <3>2, <4>1, SendKind DEF AlarmStays
    <3> QED
      BY <3>1, <3>2
  <2>3. e \in CommandEvents
    BY <1>2, <1>8, AnswerTypes DEF handle_command_response
  <2>4. t \in Tasks /\ ~Enqueues(t)
    BY <2>3 DEF CommandEvents, Tasks, ResetTasks, Enqueues
  <2>5. r \in [id : Ids, by : Ids] /\ r.id = Head(command_queue_).id
    <3>1. Head(command_queue_) \in CommandQueueEntry
      BY <2>1 DEF TypeOK
    <3> QED
      BY <2>3, <3>1 DEF CommandQueueEntry, CommandEvents
  <2> HIDE DEF r, t
  <2> QED
    BY <1>1, <2>1, <2>2, <2>4, <2>5 DEF Answers, Over
<1> QED
  BY <1>1, <1>3, <1>4, <1>5, <1>6, <1>7, <1>8 DEF handle_command_response

\* What the HAL thread posts is an event.
LEMMA ReceivedKind ==
  ASSUME TypeOK, TypeOK', NEW event, hciEventReceived(event),
         UNCHANGED <<fate, life, commands, alarms, posted, answered>>
  PROVE  Receives
<1> DEFINE t == [run |-> "on_hci_event", event |-> event]
<1>1. tasks' = tasks \/ tasks' = Append(tasks, t)
  BY DEF hciEventReceived
<1>2. ~Enqueues(t)
  BY DEF Enqueues
<1> HIDE DEF t
<1>3. ASSUME tasks' = Append(tasks, t)
      PROVE  t \in Tasks
  <2>1. Len(tasks) + 1 \in 1 .. Len(tasks') /\ tasks'[Len(tasks) + 1] = t
    BY <1>3, LenProperties DEF TypeOK
  <2> QED
    BY <2>1, ElementOfSeq DEF TypeOK
<1> QED
  BY <1>1, <1>2, <1>3 DEF Receives, Over, commands

\* Every step is of one of the kinds.
LEMMA StepKinds ==
  ASSUME TypeOK, TypeOK', [Next]_vars
  PROVE  Kinds
<1>1. ASSUME NEW request \in Requests, EnqueueCommand(request[1], request[2])
      PROVE  Posts
  <2> DEFINE entry == [id |-> posted + 1, op |-> request[1], waiting_for_ |-> request[2]]
             t == [run |-> "enqueue_command", entry |-> entry]
  <2>1. tasks' = Append(tasks, t) /\ Enqueues(t) /\ t.entry.id = posted + 1
    BY <1>1 DEF EnqueueCommand, Enqueues
  <2> HIDE DEF t
  <2>2. Len(tasks) + 1 \in 1 .. Len(tasks') /\ tasks'[Len(tasks) + 1] = t
    BY <2>1, LenProperties DEF TypeOK
  <2>3. t \in Tasks
    BY <2>2, ElementOfSeq DEF TypeOK
  <2> QED
    BY <1>1, <2>1, <2>3 DEF EnqueueCommand, HandlerRuns, Posts, Over, commands
<1>2. CASE enqueue_command
  <2>1. /\ tasks' = Tail(tasks) /\ tasks # <<>> /\ Enqueues(Head(tasks))
        /\ HandlerRuns /\ UNCHANGED <<fate, life, hci_abort_alarm_, posted, answered>>
        /\ send_next_command(Append(command_queue_, Head(tasks).entry), waiting_command_,
                             command_credits_, hci_timeout_alarm_)
    BY <1>2 DEF enqueue_command, Enqueues
  <2> QED
    BY <2>1, SendKind DEF Moves, HandlerRuns, Over, AlarmStays, Kinds
<1>3. CASE on_hci_event
  BY <1>3, on_hci_eventKind DEF Kinds
<1>4. CASE fail_if_reset_complete_not_success
  <2>1. /\ tasks' = Tail(tasks) /\ tasks # <<>> /\ ~Enqueues(Head(tasks))
        /\ fate = "alive" /\ life = "running" /\ life' = life
        /\ UNCHANGED <<command_queue_, alarms, posted, answered>>
    BY <1>4 DEF fail_if_reset_complete_not_success, HandlerRuns, Enqueues, commands
  <2> QED
    BY <2>1 DEF Runs, Over, AlarmStays, alarms, Kinds
<1>5. CASE on_hci_timeout
  <2>1. /\ hci_timeout_alarm_ = "armed" /\ UNCHANGED <<fate, life, tasks, posted, answered>>
        /\ send_next_command(<<DebugEntry>>, NONE, 1, "null")
        /\ hci_abort_alarm_' # "null"
    BY <1>5 DEF on_hci_timeout, arm_abort_alarm
  <2> QED
    BY <2>1, SendKind DEF TimesOut, Over, Kinds
<1>6. CASE abort
  <2>1. /\ fate' # "alive" /\ UNCHANGED <<tasks, command_queue_, alarms, posted, answered>>
    BY <1>6 DEF abort, commands, TypeOK
  <2> QED
    BY <2>1 DEF Ends, Over, AlarmStays, alarms, Kinds
<1>7. CASE Stop
  BY <1>7 DEF Stop, Ends, Over, AlarmStays, alarms, commands, Kinds
<1>8. CASE Destroy
  BY <1>8 DEF Destroy, Ends, Over, AlarmStays, alarms, commands, Kinds
<1>9. ASSUME NEW i \in 1 .. Len(controller), NEW credits \in Grants, ControllerAnswers(i, credits)
      PROVE  Receives
  BY <1>9, ReceivedKind DEF ControllerAnswers
<1>10. ASSUME NEW i \in 1 .. Len(controller), ControllerLoses(i)
       PROVE  Receives
  BY <1>10 DEF ControllerLoses, Receives, Over, commands
<1>11. ASSUME NEW event, ControllerReports(event)
       PROVE  Receives
  BY <1>11, ReceivedKind DEF ControllerReports
<1>12. CASE UNCHANGED vars
  BY <1>12 DEF vars, commands, Receives, Over, Kinds
<1>13. CASE Controller
  BY <1>9, <1>10, <1>11, <1>13 DEF Controller, Kinds
<1> QED
  BY <1>1, <1>2, <1>3, <1>4, <1>5, <1>6, <1>7, <1>8, <1>12, <1>13 DEF Next, StackThread, Kinds

-----------------------------------------------------------------------------
(* The invariant of the refinement                                           *)

\* The debug command is sent once: it comes with the end of the timeout alarm, and is
\* in the queue or answered, not both.
OwnOnce(queue, answers, alarm) ==
  /\ \A m \in 1 .. Len(queue) : queue[m].id = DebugId =>
       alarm = "null" /\ \A n \in 1 .. Len(answers) : answers[n].id # DebugId
  /\ \A n \in 1 .. Len(answers) : answers[n].id = DebugId => alarm = "null"

RefInv ==
  Line(command_queue_, tasks, posted) /\ OwnOnce(command_queue_, answered, hci_timeout_alarm_)

\* The closures posted, the queue and the answers form one line in every behaviour.
LEMMA RefInvStep ==
  ASSUME TypeOK, TypeOK', RefInv, Kinds
  PROVE  RefInv'
<1>1. /\ tasks \in Seq(Tasks) /\ command_queue_ \in Seq(CommandQueueEntry) /\ posted \in Nat
      /\ answered \in Seq([id : Ids, by : Ids])
      /\ Line(command_queue_, tasks, posted)
      /\ OwnOnce(command_queue_, answered, hci_timeout_alarm_)
  BY DEF TypeOK, RefInv
<1>2. CASE Posts
  <2>1. PICK t \in Tasks : Enqueues(t) /\ t.entry.id = posted + 1 /\ tasks' = Append(tasks, t)
    BY <1>2 DEF Posts
  <2>2. Line(command_queue_', tasks', posted')
    BY <1>1, <1>2, <2>1, LinePost DEF Posts
  <2> QED
    BY <1>1, <1>2, <2>2 DEF Posts, RefInv, alarms
<1>3. CASE Moves
  <2> DEFINE entry == Head(tasks).entry
             more == Append(command_queue_, entry)
  <2>1. Line(more, Tail(tasks), posted)
    BY <1>1, <1>3, LineMove DEF Moves
  <2>2. entry \in CommandQueueEntry /\ entry.id # DebugId
    <3>1. /\ Head(tasks) = tasks[1] /\ 1 \in 1 .. Len(tasks) /\ tasks[1] \in Tasks /\ Enqueues(tasks[1])
      BY <1>1, <1>3, Taken, ElementOfSeq DEF Moves
    <3>2. entry \in CommandQueueEntry
      BY <3>1, TaskTypes DEF Enqueues
    <3>3. entry.id # 0
      BY <1>1, <3>1, IdTypes DEF Line
    <3> QED
      BY <3>2, <3>3 DEF DebugId
  <2>3. \A n \in 1 .. Len(more) : more[n].id = DebugId => n \in 1 .. Len(command_queue_) /\ more[n] = command_queue_[n]
    <3> HIDE DEF entry
    <3> QED
      BY <1>1, <2>2, AppendElements
  <2> HIDE DEF more
  <2>4. OwnOnce(more, answered, hci_timeout_alarm_)
    BY <1>1, <2>3 DEF OwnOnce
  <2>5. OwnOnce(more, answered, hci_timeout_alarm_')
    BY <1>3, <2>4 DEF OwnOnce, Moves, AlarmStays
  <2> QED
    BY <1>3, <2>1, <2>5 DEF Moves, RefInv, more
<1>4. CASE Runs
  <2>1. Line(command_queue_, Tail(tasks), posted)
    BY <1>1, <1>4, LineTail DEF Runs
  <2>2. OwnOnce(command_queue_, answered, hci_timeout_alarm_')
    BY <1>1, <1>4 DEF Runs, AlarmStays, OwnOnce
  <2> QED
    BY <1>4, <2>1, <2>2 DEF Runs, RefInv
<1>5. CASE Answers
  <2> DEFINE rest == Tail(command_queue_)
             front == Head(command_queue_)
  <2>1. Line(rest, Tail(tasks), posted) /\ Tail(tasks) \in Seq(Tasks)
    BY <1>1, <1>5, LineTail, LinePop, HeadTailProperties DEF Answers
  <2>2. Line(rest, tasks', posted')
    BY <1>5, <2>1, LineEvent DEF Answers
  <2>3. PICK r \in [id : Ids, by : Ids] : r.id = front.id /\ answered' = Append(answered, r)
    BY <1>5 DEF Answers
  <2>4. \A n \in 1 .. Len(answered') :
          \/ n \in 1 .. Len(answered) /\ answered'[n] = answered[n]
          \/ answered'[n] = r
    BY <1>1, <2>3, AppendElements
  <2>5. /\ front = command_queue_[1] /\ 1 \in 1 .. Len(command_queue_)
        /\ \A n \in 1 .. Len(rest) : rest[n] = command_queue_[n + 1] /\ n + 1 \in 1 .. Len(command_queue_) /\ 1 < n + 1
    BY <1>1, <1>5, TailElements DEF Answers
  <2>6. ASSUME NEW n \in 1 .. Len(rest)
        PROVE  rest[n].id # DebugId
    <3>1. front.id < rest[n].id
      BY <1>1, <2>5 DEF Line
    <3>2. front.id \in Nat /\ rest[n].id \in Nat
      BY <1>1, <2>5, IdTypes
    <3>3. \A i, j \in Nat : i < j => j # 0
      OBVIOUS
    <3> QED
      BY <3>1, <3>2, <3>3 DEF DebugId
  <2>7. ASSUME NEW n \in 1 .. Len(answered'), answered'[n].id = DebugId
        PROVE  hci_timeout_alarm_' = "null"
    <3> HIDE DEF front, rest
    <3>1. hci_timeout_alarm_ = "null"
      BY <1>1, <2>3, <2>4, <2>5, <2>7 DEF OwnOnce
    <3> QED
      BY <1>5, <3>1 DEF Answers, AlarmStays
  <2> HIDE DEF rest
  <2>8. OwnOnce(rest, answered', hci_timeout_alarm_')
    BY <2>6, <2>7 DEF OwnOnce
  <2> QED
    BY <1>5, <2>2, <2>8 DEF Answers, RefInv, rest
<1>6. CASE TimesOut
  <2>1. Line(<<DebugEntry>>, tasks, posted)
    BY <1>1, LineDebug
  <2>2. \A n \in 1 .. Len(answered) : answered[n].id # DebugId
    BY <1>1, <1>6 DEF TimesOut, OwnOnce
  <2>3. OwnOnce(command_queue_', answered, "null")
    BY <2>2 DEF OwnOnce
  <2> QED
    BY <1>6, <2>1, <2>3 DEF TimesOut, RefInv
<1>7. CASE Receives
  <2>1. Line(command_queue_, tasks', posted)
    BY <1>1, <1>7, LineEvent DEF Receives
  <2> QED
    BY <1>1, <1>7, <2>1 DEF Receives, RefInv, alarms
<1>8. CASE Ends
  <2>1. Line(command_queue_', tasks', posted)
    <3>1. Line(<<>>, tasks, posted) /\ Line(command_queue_, <<>>, posted) /\ Line(<<>>, <<>>, posted)
      BY <1>1 DEF Line
    <3> QED
      BY <1>1, <1>8, <3>1 DEF Ends
  <2>2. OwnOnce(command_queue_', answered, hci_timeout_alarm_')
    BY <1>1, <1>8 DEF Ends, AlarmStays, OwnOnce
  <2> QED
    BY <1>8, <2>1, <2>2 DEF Ends, RefInv
<1> QED
  BY <1>2, <1>3, <1>4, <1>5, <1>6, <1>7, <1>8 DEF Kinds

\* It holds at first.
LEMMA RefInvInit == Init => RefInv
<1> SUFFICES ASSUME Init PROVE RefInv
  OBVIOUS
<1>1. /\ Len(tasks) = 1 /\ tasks[1].entry = ResetEntry
      /\ Len(answered) = 0 /\ Len(command_queue_) = 0 /\ posted = 1
  BY DEF Init
<1>2. ResetEntry.id = 1
  BY DEF ResetEntry
<1>3. Line(command_queue_, tasks, posted)
  BY <1>1, <1>2 DEF Line
<1>4. OwnOnce(command_queue_, answered, hci_timeout_alarm_)
  BY <1>1 DEF OwnOnce
<1> QED
  BY <1>3, <1>4 DEF RefInv

\* Commands keep their line in every behaviour of the layer.
LEMMA RefInvariant == Spec => []RefInv
<1>1. TypeOK /\ TypeOK' /\ RefInv /\ [Next]_vars => RefInv'
  BY RefInvStep, StepKinds
<1> QED
  BY <1>1, RefInvInit, TypeCorrect, PTL DEF Spec

-----------------------------------------------------------------------------
(* The refinement                                                            *)

\* An answer more.
LEMMA NumbersAppend ==
  ASSUME NEW answers \in Seq([id : Ids, by : Ids]), NEW r \in [id : Ids, by : Ids]
  PROVE  Numbers(Append(answers, r)) = Append(Numbers(answers), r.id)
<1> DEFINE more == Append(answers, r)
<1>1. /\ Len(answers) \in Nat /\ Len(more) = Len(answers) + 1 /\ more[Len(answers) + 1] = r
      /\ \A n \in 1 .. Len(answers) : more[n] = answers[n]
      /\ \A n \in 1 .. Len(more) : n \in 1 .. Len(answers) \/ n = Len(answers) + 1
  BY AppendElements
<1>2. \A n \in 1 .. Len(answers) : answers[n].id \in Ids
  <2>1. \A n \in 1 .. Len(answers) : answers[n] \in [id : Ids, by : Ids]
    BY ElementOfSeq
  <2> QED
    BY <2>1
<1>3. Numbers(answers) \in Seq(Ids) /\ Len(Numbers(answers)) = Len(answers)
  BY <1>1, <1>2 DEF Numbers
<1> HIDE DEF more
<1>4. \A n \in 1 .. Len(more) : more[n].id \in Ids
  BY <1>1, <1>2
<1>5. /\ Numbers(more) \in Seq(Ids) /\ Len(Numbers(more)) = Len(more)
      /\ \A n \in 1 .. Len(more) : Numbers(more)[n] = more[n].id
      /\ \A n \in 1 .. Len(answers) : Numbers(answers)[n] = answers[n].id
  BY <1>1, <1>4 DEF Numbers
<1> DEFINE longer == Append(Numbers(answers), r.id)
<1>6. /\ longer \in Seq(Ids) /\ Len(longer) = Len(answers) + 1
      /\ longer[Len(answers) + 1] = r.id
      /\ \A n \in 1 .. Len(answers) : longer[n] = Numbers(answers)[n]
  <2>1. r.id \in Ids
    OBVIOUS
  <2> QED
    BY <1>1, <1>3, <2>1, AppendProperties
<1> HIDE DEF longer
<1>7. Len(Numbers(more)) = Len(longer) /\ \A n \in 1 .. Len(longer) : Numbers(more)[n] = longer[n]
  BY <1>1, <1>5, <1>6
<1>8. Numbers(more) = longer
  BY <1>5, <1>6, <1>7, SeqEqual
<1> QED
  BY <1>8 DEF more, longer

\* What the clients see when the commands in line and the answers are these.
LEMMA ServiceIs ==
  /\ Over => ServiceState = "over" /\ ServicePending = {}
  /\ ~Over => /\ ServiceState = (IF hci_abort_alarm_ # "null" THEN "failing" ELSE "serving")
              /\ ServicePending = Pending(command_queue_, tasks)
BY DEF ServiceState, ServicePending

\* And after the step.
LEMMA ServiceBecomes ==
  /\ Over' => ServiceState' = "over" /\ ServicePending' = {}
  /\ ~Over' => /\ ServiceState' = (IF hci_abort_alarm_' # "null" THEN "failing" ELSE "serving")
               /\ ServicePending' = Pending(command_queue_', tasks')
BY DEF ServiceState, ServicePending

\* Once the service is over nothing more is seen.
LEMMA OverStays ==
  ASSUME Over, Over', UNCHANGED <<posted, answered>>
  PROVE  UNCHANGED Service!vars
<1>1. UNCHANGED <<posted, ServiceState, ServicePending, Numbers(answered)>>
  BY ServiceIs, ServiceBecomes
<1> QED
  BY <1>1 DEF Service!vars

\* The end of the process, or of the stack.
LEMMA OverBegins ==
  ASSUME ~Over, Over', UNCHANGED <<posted, answered>>
  PROVE  Service!End
<1>1. /\ ServiceState # "over" /\ ServiceState' = "over" /\ ServicePending' = {}
      /\ UNCHANGED <<posted, Numbers(answered)>>
  BY ServiceIs, ServiceBecomes
<1> QED
  BY <1>1 DEF Service!End

\* Commands wait in line and not in the other events.
LEMMA PendingSame ==
  ASSUME ~Over, ~Over', Pending(command_queue_', tasks') = Pending(command_queue_, tasks),
         UNCHANGED <<posted, answered, hci_abort_alarm_>>
  PROVE  UNCHANGED Service!vars
<1>1. UNCHANGED <<posted, ServiceState, ServicePending, Numbers(answered)>>
  BY ServiceIs, ServiceBecomes
<1> QED
  BY <1>1 DEF Service!vars

\* Pending commands are numbered from 1.
LEMMA PendingNumbers ==
  ASSUME NEW queue \in Seq(CommandQueueEntry), NEW closures \in Seq(Tasks)
  PROVE  \A i \in Pending(queue, closures) : i \in Nat /\ i > 0
<1>1. /\ \A m \in 1 .. Len(queue) : queue[m].id \in Nat
      /\ \A n \in 1 .. Len(closures) : Enqueues(closures[n]) => closures[n].entry.id \in Nat
  BY IdTypes
<1>2. \A i : i \in QueuedIds(queue) \/ i \in PostedIds(closures) => i \in Nat
  BY <1>1, QueuedMember, PostedMember
<1>3. \A i \in Nat : i # 0 => i > 0
  OBVIOUS
<1> QED
  BY <1>2, <1>3 DEF Pending, DebugId

\* Every step of the layer is a step of the service, or not seen at all.
LEMMA ServiceStep ==
  ASSUME TypeOK, TypeOK', CommandInv, DebugOnlyAfterTimeout, RefInv, Kinds
  PROVE  [Service!Next]_Service!vars
<1>1. /\ tasks \in Seq(Tasks) /\ command_queue_ \in Seq(CommandQueueEntry) /\ posted \in Nat
      /\ answered \in Seq([id : Ids, by : Ids])
      /\ Line(command_queue_, tasks, posted)
      /\ OwnOnce(command_queue_, answered, hci_timeout_alarm_)
  BY DEF TypeOK, RefInv
<1>2. CASE Over /\ Over'
  <2>1. UNCHANGED <<posted, answered>>
    BY <1>2 DEF Kinds, Posts, Moves, Runs, Answers, TimesOut, Receives, Ends
  <2> QED
    BY <1>2, <2>1, OverStays
<1>3. CASE ~Over /\ Over'
  <2>1. UNCHANGED <<posted, answered>>
    BY <1>3 DEF Kinds, Posts, Moves, Runs, Answers, TimesOut, Receives, Ends
  <2> QED
    BY <1>3, <2>1, OverBegins DEF Service!Next
<1>4. ~(Over /\ ~Over')
  BY DEF Kinds, Posts, Moves, Runs, Answers, TimesOut, Receives, Ends
<1>5. CASE Posts
  <2>1. PICK t \in Tasks : Enqueues(t) /\ t.entry.id = posted + 1 /\ tasks' = Append(tasks, t)
    BY <1>5 DEF Posts
  <2>2. PostedIds(tasks') = PostedIds(tasks) \cup {posted + 1} /\ posted + 1 # DebugId
    BY <1>1, <2>1, PostedAppend DEF DebugId
  <2>3. Pending(command_queue_', tasks') = Pending(command_queue_, tasks) \cup {posted + 1}
    BY <1>5, <2>2 DEF Posts, Pending
  <2>4. /\ ServiceState # "over" /\ ServiceState' = ServiceState
        /\ ServicePending' = ServicePending \cup {posted + 1}
        /\ posted' = posted + 1 /\ UNCHANGED Numbers(answered)
    BY <1>5, <2>3, ServiceIs, ServiceBecomes DEF Posts, alarms
  <2> QED
    BY <2>4 DEF Service!Next, Service!Post
<1>6. CASE Moves
  <2> DEFINE entry == Head(tasks).entry
  <2>1. entry \in CommandQueueEntry
    BY <1>1, <1>6, FirstTask, TaskTypes DEF Moves, Enqueues
  <2>2. /\ QueuedIds(command_queue_') = QueuedIds(command_queue_) \cup {entry.id}
        /\ PostedIds(tasks) = PostedIds(tasks') \cup {entry.id}
    BY <1>1, <1>6, <2>1, QueuedAppend, PostedTail DEF Moves
  <2>3. Pending(command_queue_', tasks') = Pending(command_queue_, tasks)
    BY <2>2 DEF Pending
  <2> QED
    BY <1>6, <2>3, PendingSame DEF Moves
<1>7. CASE Runs /\ ~Over'
  <2>1. PostedIds(tasks) = PostedIds(tasks')
    BY <1>1, <1>7, PostedTail DEF Runs
  <2>2. Pending(command_queue_', tasks') = Pending(command_queue_, tasks)
    BY <1>7, <2>1 DEF Runs, Pending
  <2>3. CASE hci_abort_alarm_' = hci_abort_alarm_
    BY <1>7, <2>2, <2>3, PendingSame DEF Runs
  <2>4. CASE hci_abort_alarm_ = "null" /\ hci_abort_alarm_' # "null"
    <3>1. \A i \in Pending(command_queue_, tasks) : i > 0
      BY <1>1, PendingNumbers
    <3>2. Pending(command_queue_', tasks') = {i \in Pending(command_queue_, tasks) : i > 0}
      BY <2>2, <3>1
    <3>3. /\ ServiceState = "serving" /\ ServiceState' = "failing"
          /\ ServicePending' = {i \in ServicePending : i > 0}
          /\ posted' = posted /\ UNCHANGED Numbers(answered)
      BY <1>7, <2>4, <3>2, ServiceIs, ServiceBecomes DEF Runs
    <3>4. 0 \in 0 .. posted
      BY <1>1
    <3> QED
      BY <3>3, <3>4 DEF Service!Next, Service!Fail
  <2> QED
    BY <1>7, <2>3, <2>4 DEF Runs
<1>8. CASE Answers
  <2> DEFINE oldest == Head(command_queue_).id
  <2>1. PICK r \in [id : Ids, by : Ids] : r.id = oldest /\ answered' = Append(answered, r)
    BY <1>8 DEF Answers
  <2>2. Numbers(answered') = Append(Numbers(answered), oldest)
    BY <1>1, <2>1, NumbersAppend
  <2>3. PostedIds(tasks') = PostedIds(tasks)
    <3>1. PostedIds(tasks) = PostedIds(Tail(tasks)) /\ Tail(tasks) \in Seq(Tasks)
      BY <1>1, <1>8, PostedTail, HeadTailProperties DEF Answers
    <3>2. \A t \in Tasks : ~Enqueues(t) => PostedIds(Append(Tail(tasks), t)) = PostedIds(Tail(tasks))
      BY <3>1, PostedAppend
    <3> QED
      BY <1>8, <3>1, <3>2 DEF Answers
  <2>4. /\ oldest \in QueuedIds(command_queue_) /\ oldest \in Nat
        /\ QueuedIds(command_queue_') = QueuedIds(command_queue_) \ {oldest}
        /\ oldest \notin PostedIds(tasks)
        /\ \A i \in QueuedIds(command_queue_) \cup PostedIds(tasks) : oldest <= i
    BY <1>1, <1>8, OldestFirst DEF Answers
  <2>5. /\ ServiceState # "over" /\ ServiceState' = ServiceState
        /\ ServicePending = Pending(command_queue_, tasks)
        /\ ServicePending' = Pending(command_queue_', tasks')
        /\ posted' = posted
    BY <1>8, ServiceIs, ServiceBecomes DEF Answers
  <2>6. oldest = Head(command_queue_).id /\ Head(command_queue_) = command_queue_[1] /\ 1 \in 1 .. Len(command_queue_)
    BY <1>1, <1>8, Taken DEF Answers
  <2> HIDE DEF oldest
  <2>7. CASE oldest = DebugId
    <3>1. ServicePending' = ServicePending
      BY <2>3, <2>4, <2>5, <2>7 DEF Pending
    <3>2. hci_timeout_alarm_ = "null" /\ \A n \in 1 .. Len(answered) : answered[n].id # DebugId
      BY <1>1, <2>6, <2>7 DEF OwnOnce
    <3>3. hci_abort_alarm_ # "null"
      BY <1>8, <3>2 DEF CommandInv, AbortReplacesTimeout, Answers, Over
    <3>4. ServiceState = "failing"
      BY <1>8, <3>3, ServiceIs DEF Answers
    <3>5. \A n \in 1 .. Len(Numbers(answered)) : Numbers(answered)[n] # 0
      <4>1. Len(answered) \in Nat
        BY <1>1, LenProperties
      <4>2. Len(Numbers(answered)) = Len(answered)
        BY <4>1 DEF Numbers
      <4> QED
        BY <3>2, <4>2 DEF Numbers, DebugId
    <3> QED
      BY <2>2, <2>5, <2>7, <3>1, <3>4, <3>5 DEF Service!Next, Service!AnswerOwn, Service!Own, DebugId
  <2>8. CASE oldest # DebugId
    <3>1. oldest \in ServicePending /\ \A i \in ServicePending : oldest <= i
      BY <2>4, <2>5, <2>8 DEF Pending
    <3>2. ServicePending' = ServicePending \ {oldest}
      BY <2>3, <2>4, <2>5 DEF Pending
    <3> QED
      BY <2>2, <2>5, <3>1, <3>2 DEF Service!Next, Service!Answer
  <2> QED
    BY <2>7, <2>8
<1>9. CASE TimesOut /\ ~Over /\ ~Over'
  <2>1. hci_abort_alarm_ = "null"
    BY <1>9 DEF TimesOut, DebugOnlyAfterTimeout
  <2>2. QueuedIds(command_queue_') = {DebugId}
    <3>1. Len(<<DebugEntry>>) = 1 /\ <<DebugEntry>>[1].id = DebugId
      BY DEF DebugEntry
    <3> DEFINE own == <<DebugEntry>>
    <3>2. \A i : i \in QueuedIds(own) <=> i = DebugId
      <4>1. 1 .. Len(own) = {1}
        BY <3>1
      <4> HIDE DEF own
      <4> QED
        BY <3>1, <4>1, QueuedMember DEF own
    <3> QED
      BY <1>9, <3>2 DEF TimesOut
  <2>3. DebugId \notin PostedIds(tasks)
    <3>1. \A n \in 1 .. Len(tasks) : Enqueues(tasks[n]) => tasks[n].entry.id # 0
      BY <1>1, IdTypes DEF Line
    <3> QED
      BY <3>1, PostedMember DEF DebugId
  <2>4. Pending(command_queue_', tasks') = PostedIds(tasks)
    BY <1>9, <2>2, <2>3 DEF Pending, TimesOut
  <2>5. PICK dropped \in 0 .. posted :
          PostedIds(tasks) = {i \in Pending(command_queue_, tasks) : i > dropped}
    BY <1>1, QueueIsOldest
  <2>6. /\ ServiceState = "serving" /\ ServiceState' = "failing"
        /\ ServicePending' = {i \in ServicePending : i > dropped}
        /\ posted' = posted /\ UNCHANGED Numbers(answered)
    BY <1>9, <2>1, <2>4, <2>5, ServiceIs, ServiceBecomes DEF TimesOut
  <2> QED
    BY <2>6 DEF Service!Next, Service!Fail
<1>10. CASE Receives /\ ~Over /\ ~Over'
  <2>1. PostedIds(tasks') = PostedIds(tasks)
    <3>1. tasks' = tasks \/ \E t \in Tasks : ~Enqueues(t) /\ tasks' = Append(tasks, t)
      BY <1>10, Zenon DEF Receives
    <3>2. CASE \E t \in Tasks : ~Enqueues(t) /\ tasks' = Append(tasks, t)
      <4>1. PICK t \in Tasks : ~Enqueues(t) /\ tasks' = Append(tasks, t)
        BY <3>2, Zenon
      <4> QED
        BY <1>1, <4>1, PostedAppend
    <3> QED
      BY <3>1, <3>2, Zenon
  <2>2. Pending(command_queue_', tasks') = Pending(command_queue_, tasks)
    BY <1>10, <2>1 DEF Receives, Pending
  <2> QED
    BY <1>10, <2>2, PendingSame DEF Receives, alarms
<1> QED
  BY <1>2, <1>3, <1>4, <1>5, <1>6, <1>7, <1>8, <1>9, <1>10 DEF Kinds, Ends

\* At first the reset is pending.
LEMMA ServiceInit == Init => Service!Init
<1> SUFFICES ASSUME Init PROVE Service!Init
  OBVIOUS
<1>1. ~Over /\ hci_abort_alarm_ = "null" /\ posted = 1
  BY DEF Init, Over
<1>2. /\ Len(command_queue_) = 0 /\ Len(tasks) = 1 /\ Len(answered) = 0
      /\ tasks[1].run = "enqueue_command" /\ tasks[1].entry = ResetEntry
  BY DEF Init
<1>3. \A i : i \notin QueuedIds(command_queue_)
  BY <1>2, QueuedMember
<1>4. \A i : i \in PostedIds(tasks) <=> i = 1
  BY <1>2, PostedMember DEF Enqueues, ResetEntry
<1>5. ServicePending = {1}
  BY <1>1, <1>3, <1>4, ServiceIs DEF Pending, DebugId
<1>6. Numbers(answered) = <<>>
  BY <1>2 DEF Numbers
<1> QED
  BY <1>1, <1>5, <1>6, ServiceIs DEF Service!Init

\* HciLayer implements CommandService: whatever the clients and the controller do,
\* commands are answered in the order of EnqueueCommand, none is skipped or answered
\* twice, and what a timeout drops are the oldest, once, before an abort.
THEOREM ServesInOrderHolds == Spec => ServesInOrder
<1>1. /\ TypeOK /\ TypeOK' /\ CommandInv /\ OrderInv /\ RefInv /\ [Next]_vars
        => [Service!Next]_Service!vars
  BY StepKinds, ServiceStep DEF OrderInv
<1> QED
  BY <1>1, ServiceInit, TypeCorrect, CommandInvariant, OrderInvariant, RefInvariant, PTL
  DEF Spec, ServesInOrder, Service!Spec

=============================================================================
