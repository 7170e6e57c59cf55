------------------------------ MODULE HciLayer ------------------------------
(***************************************************************************)
(* The command pipeline of the HCI layer (system/gd/hci/hci_layer.cc): the *)
(* queue of commands, the single outstanding command, the command credits  *)
(* the controller grants, the timeout and abort alarms, and the shutdown   *)
(* of the layer by Stack::Stop.                                            *)
(*                                                                         *)
(* Two threads meet here.  Clients (any thread) and the HAL thread only    *)
(* post closures to the handler; the stack thread runs the closures in the *)
(* order of posting, and runs an expired alarm between any two of them.    *)
(* The controller is external: it is modelled by what hci_layer.cc has to  *)
(* cope with.                                                              *)
(***************************************************************************)
EXTENDS Naturals, Sequences, SequencesExt

CONSTANTS
  OpCodes,      \* the operation codes clients send
  VendorOps,    \* those of them in the vendor specific group
  Requests,     \* the commands clients send: operation code, kind of answer
  Grants,       \* the values of Num_HCI_Command_Packets the controller uses
  MaxCommands,  \* bound: commands posted in a behaviour, the reset included
  MaxReports,   \* bound: events that answer no command and wait at a time
  InOrder       \* whether the controller answers commands in order

NONE == "NONE"
RESET == "RESET"
CONTROLLER_DEBUG_INFO == "CONTROLLER_DEBUG_INFO"

ASSUME OpCodesAssumption ==
  /\ {NONE, RESET, CONTROLLER_DEBUG_INFO} \cap OpCodes = {}
  /\ VendorOps \subseteq OpCodes
  /\ Requests \subseteq OpCodes \X {"STATUS", "COMPLETE", "STATUS_OR_COMPLETE"}
ASSUME BoundsAssumption ==
  /\ Grants \subseteq Nat
  /\ MaxCommands \in Nat \ {0}
  /\ MaxReports \in Nat
  /\ InOrder \in BOOLEAN

VARIABLES
  fate,               \* "alive", or why the process ended
  life,               \* of the layer: "running", "cleared" or "destroyed"
  tasks,              \* closures posted to handler_, oldest first
  command_queue_,
  waiting_command_,
  command_credits_,
  hci_timeout_alarm_, \* "null", "idle" or "armed"
  hci_abort_alarm_,   \* "null" or the reason the armed alarm aborts for
  controller,         \* commands the controller has not answered, oldest first
  posted,             \* how many commands clients have posted
  answered            \* callbacks made: the command and the answer it was given

alarms == <<hci_timeout_alarm_, hci_abort_alarm_>>
commands == <<command_queue_, waiting_command_, command_credits_>>
vars == <<fate, life, tasks, commands, alarms, controller, posted, answered>>

-----------------------------------------------------------------------------
(* Data *)

WaitingFor == {"STATUS", "COMPLETE", "STATUS_OR_COMPLETE"}
AllOps == OpCodes \cup {RESET, CONTROLLER_DEBUG_INFO}
Ids == 0 .. MaxCommands         \* 0 is the debug command sent by a timeout
DebugId == 0

\* A command and the kind of answer its callback takes.  The id tells commands
\* with the same operation code apart; the code has no such number.
CommandQueueEntry == [id : Ids, op : AllOps, waiting_for_ : WaitingFor]

ResetEntry == [id |-> 1, op |-> RESET, waiting_for_ |-> "COMPLETE"]
DebugEntry ==
  [id |-> DebugId, op |-> CONTROLLER_DEBUG_INFO, waiting_for_ |-> "COMPLETE"]

ErrorCodes == {"SUCCESS", "UNKNOWN_HCI_COMMAND"}
CommandEvents ==
  [code : {"COMMAND_STATUS", "COMMAND_COMPLETE"}, id : Ids,
   op : AllOps \cup {NONE}, status : ErrorCodes, credits : Nat]
FailureEvents == [code : {"ROOT_INFLAMMATION", "HARDWARE_ERROR"}]

EnqueueTasks == [run : {"enqueue_command"}, entry : CommandQueueEntry]
EventTasks == [run : {"on_hci_event"}, event : CommandEvents \cup FailureEvents]
ResetTasks == [run : {"reset_complete"}, status : ErrorCodes]
Tasks == EnqueueTasks \cup EventTasks \cup ResetTasks

IsVendorSpecific(op) == op \in VendorOps \cup {CONTROLLER_DEBUG_INFO}

Alive == fate = "alive" /\ life # "destroyed"
HandlerRuns == fate = "alive" /\ life = "running"

Init ==
  /\ fate = "alive"
  /\ life = "running"
  /\ tasks = << [run |-> "enqueue_command", entry |-> ResetEntry] >>
  /\ command_queue_ = <<>>
  /\ waiting_command_ = NONE
  /\ command_credits_ = 1
  /\ hci_timeout_alarm_ = "idle"
  /\ hci_abort_alarm_ = "null"
  /\ controller = <<>>
  /\ posted = 1
  /\ answered = <<>>

-----------------------------------------------------------------------------
(* Sending *)

\* Sends the head of queue if there is a credit and nothing is outstanding;
\* the arguments are the values the caller has just assigned.
send_next_command(queue, waiting, credits, alarm) ==
  /\ command_queue_' = queue
  /\ \/ /\ credits = 0 \/ waiting # NONE \/ queue = <<>>
        /\ waiting_command_' = waiting
        /\ command_credits_' = credits
        /\ hci_timeout_alarm_' = alarm
        /\ UNCHANGED controller
     \/ /\ credits # 0 /\ waiting = NONE /\ queue # <<>>
        /\ controller' = Append(controller, Head(queue))
        /\ waiting_command_' = Head(queue).op
        /\ command_credits_' = 0
        /\ hci_timeout_alarm_' = IF alarm = "null" THEN "null" ELSE "armed"

\* A client's call: the closure is posted, the command queued when it runs.
\* A handler that was cleared drops it, whether or not the overload that is called
\* looks at life_cycle_stopped, which is set later.
EnqueueCommand(op, waiting_for) ==
  /\ HandlerRuns
  /\ posted < MaxCommands
  /\ posted' = posted + 1
  /\ tasks' = Append(tasks,
       [run |-> "enqueue_command",
        entry |-> [id |-> posted + 1, op |-> op, waiting_for_ |-> waiting_for]])
  /\ UNCHANGED <<fate, life, commands, alarms, controller, answered>>

\* Mutation: the command is put at the front of the queue.
enqueue_command_first ==
  /\ HandlerRuns
  /\ tasks # <<>>
  /\ Head(tasks).run = "enqueue_command"
  /\ tasks' = Tail(tasks)
  /\ send_next_command(<<Head(tasks).entry>> \o command_queue_,
                       waiting_command_, command_credits_, hci_timeout_alarm_)
  /\ UNCHANGED <<fate, life, hci_abort_alarm_, posted, answered>>

\* The stack thread runs a posted enqueue_command.
enqueue_command ==
  /\ HandlerRuns
  /\ tasks # <<>>
  /\ Head(tasks).run = "enqueue_command"
  /\ tasks' = Tail(tasks)
  /\ send_next_command(Append(command_queue_, Head(tasks).entry),
                       waiting_command_, command_credits_, hci_timeout_alarm_)
  /\ UNCHANGED <<fate, life, hci_abort_alarm_, posted, answered>>

-----------------------------------------------------------------------------
(* Events *)

IsAnswer(e) == e.code \in {"COMMAND_STATUS", "COMMAND_COMPLETE"}

\* Mutation: no answer is taken for a late one.
IsLate_never(e) == FALSE

\* An answer that came after the timeout of its command.
IsLate(e) ==
  waiting_command_ = CONTROLLER_DEBUG_INFO /\ e.op # CONTROLLER_DEBUG_INFO

\* Mutation: a status for a vendor command that waits for a complete event is
\* held to the same rule as any other.
IsUnsupportedVendorCommand_never(e) == FALSE

\* An unsupported vendor command answered by a status is handed to the
\* complete callback as an invalid response.
IsUnsupportedVendorCommand(e) ==
  /\ IsVendorSpecific(e.op)
  /\ e.code = "COMMAND_STATUS"
  /\ e.status = "UNKNOWN_HCI_COMMAND"
  /\ Head(command_queue_).waiting_for_ = "COMPLETE"

\* The answer is of a kind the callback of the first command takes.
IsExpectedKind(e) ==
  \/ Head(command_queue_).waiting_for_ = "STATUS_OR_COMPLETE"
  \/ (Head(command_queue_).waiting_for_ = "STATUS") = (e.code = "COMMAND_STATUS")

\* The assertions on an answer that carries an operation code.
AssertionsHold(e) ==
  /\ command_queue_ # <<>>
  /\ \/ IsLate(e)
     \/ /\ waiting_command_ = e.op
        /\ IsUnsupportedVendorCommand(e) \/ IsExpectedKind(e)

\* Mutation: credits are counted without looking for a command to send.
grant_credits_only(e) ==
  /\ e.op = NONE
  /\ tasks' = Tail(tasks)
  /\ command_credits_' = e.credits
  /\ UNCHANGED <<fate, answered, command_queue_, waiting_command_,
                 hci_timeout_alarm_, controller>>

\* Mutation: the event is charged a credit itself.
grant_credits_less_one(e) ==
  /\ e.op = NONE
  /\ tasks' = Tail(tasks)
  /\ send_next_command(command_queue_, waiting_command_, e.credits - 1,
                       hci_timeout_alarm_)
  /\ UNCHANGED <<fate, answered>>

\* Operation code NONE: the event only grants credits.
grant_credits(e) ==
  /\ e.op = NONE
  /\ tasks' = Tail(tasks)
  /\ send_next_command(command_queue_, waiting_command_, e.credits,
                       hci_timeout_alarm_)
  /\ UNCHANGED <<fate, answered>>

fail_assertion(e) ==
  /\ e.op # NONE
  /\ ~AssertionsHold(e)
  /\ fate' = "assert"
  /\ tasks' = Tail(tasks)
  /\ UNCHANGED <<commands, hci_timeout_alarm_, controller, answered>>

\* Credits are taken from a late answer too.
discard_late_answer(e) ==
  /\ e.op # NONE
  /\ AssertionsHold(e)
  /\ IsLate(e)
  /\ command_credits_' = e.credits
  /\ tasks' = Tail(tasks)
  /\ UNCHANGED <<fate, command_queue_, waiting_command_, hci_timeout_alarm_,
                 controller, answered>>

\* The callback of the first command is posted.  That of the reset runs on this
\* handler and is one of the tasks; the others belong to clients.
call_back(e) ==
  /\ answered' = Append(answered, [id |-> Head(command_queue_).id, by |-> e.id])
  /\ tasks' = IF Head(command_queue_).op = RESET
              THEN Append(Tail(tasks), [run |-> "reset_complete", status |-> e.status])
              ELSE Tail(tasks)

\* Mutation: the outstanding command is popped and still waited for.
accept_answer_keeps_waiting(e) ==
  /\ e.op # NONE
  /\ AssertionsHold(e)
  /\ ~IsLate(e)
  /\ call_back(e)
  /\ send_next_command(Tail(command_queue_), waiting_command_, e.credits,
                       hci_timeout_alarm_)
  /\ UNCHANGED fate

\* Mutation: the alarm is cancelled after the next command has armed it.
accept_answer_cancels_last(e) ==
  /\ e.op # NONE
  /\ AssertionsHold(e)
  /\ ~IsLate(e)
  /\ call_back(e)
  /\ command_queue_' = Tail(command_queue_)
  /\ IF e.credits # 0 /\ Len(command_queue_) > 1
     THEN /\ controller' = Append(controller, command_queue_[2])
          /\ waiting_command_' = command_queue_[2].op
          /\ command_credits_' = 0
     ELSE /\ waiting_command_' = NONE
          /\ command_credits_' = e.credits
          /\ UNCHANGED controller
  /\ hci_timeout_alarm_' = IF hci_timeout_alarm_ = "null" THEN "null" ELSE "idle"
  /\ UNCHANGED fate

\* The next command goes out only while there is a timeout alarm to watch it.
accept_answer(e) ==
  /\ e.op # NONE
  /\ AssertionsHold(e)
  /\ ~IsLate(e)
  /\ call_back(e)
  /\ \/ /\ hci_timeout_alarm_ # "null"
        /\ send_next_command(Tail(command_queue_), NONE, e.credits, "idle")
     \/ /\ hci_timeout_alarm_ = "null"
        /\ command_queue_' = Tail(command_queue_)
        /\ waiting_command_' = NONE
        /\ command_credits_' = e.credits
        /\ UNCHANGED <<hci_timeout_alarm_, controller>>
  /\ UNCHANGED fate

handle_command_response(e) ==
  /\ IsAnswer(e)
  /\ \/ grant_credits(e)
     \/ fail_assertion(e)
     \/ discard_late_answer(e)
     \/ accept_answer(e)
  /\ UNCHANGED hci_abort_alarm_

\* Mutation: the abort is not scheduled.
arm_abort_alarm_never(reason) == UNCHANGED hci_abort_alarm_

\* A debug abort is armed once; its reason is the first one.
arm_abort_alarm(reason) ==
  hci_abort_alarm_' =
    IF hci_abort_alarm_ = "null" THEN reason ELSE hci_abort_alarm_

handle_root_inflammation(e) ==
  /\ e.code = "ROOT_INFLAMMATION"
  /\ hci_timeout_alarm_' = "null"
  /\ arm_abort_alarm("root_inflammation")
  /\ tasks' = Tail(tasks)
  /\ UNCHANGED <<fate, commands, controller, answered>>

on_hardware_error(e) ==
  /\ e.code = "HARDWARE_ERROR"
  /\ fate' = "hardware_error"
  /\ tasks' = Tail(tasks)
  /\ UNCHANGED <<commands, alarms, controller, answered>>

\* The stack thread runs a posted on_hci_event.
on_hci_event ==
  /\ HandlerRuns
  /\ tasks # <<>>
  /\ Head(tasks).run = "on_hci_event"
  /\ LET event == Head(tasks).event IN
       \/ handle_command_response(event)
       \/ handle_root_inflammation(event)
       \/ on_hardware_error(event)
  /\ UNCHANGED <<life, posted>>

\* The callback of the reset the constructor sends.
fail_if_reset_complete_not_success ==
  /\ HandlerRuns
  /\ tasks # <<>>
  /\ Head(tasks).run = "reset_complete"
  /\ fate' = IF Head(tasks).status = "SUCCESS" THEN fate ELSE "reset_failed"
  /\ tasks' = Tail(tasks)
  /\ UNCHANGED <<life, commands, alarms, controller, posted, answered>>

-----------------------------------------------------------------------------
(* Alarms: the stack thread runs them outside the handler, so a cleared      *)
(* handler does not stop them; only ~HciLayer does.                          *)

\* Mutation: only the command that timed out is dropped, and the next one sent.
on_hci_timeout_drops_one ==
  /\ Alive
  /\ hci_timeout_alarm_ = "armed"
  /\ send_next_command(Tail(command_queue_), NONE, 1, "null")
  /\ arm_abort_alarm("hci_timeout")
  /\ UNCHANGED <<fate, life, tasks, posted, answered>>

on_hci_timeout ==
  /\ Alive
  /\ hci_timeout_alarm_ = "armed"
  /\ send_next_command(<<DebugEntry>>, NONE, 1, "null")
  /\ arm_abort_alarm("hci_timeout")
  /\ UNCHANGED <<fate, life, tasks, posted, answered>>

\* abort_after_time_out or abort_after_root_inflammation
abort ==
  /\ Alive
  /\ hci_abort_alarm_ # "null"
  /\ fate' = hci_abort_alarm_
  /\ UNCHANGED <<life, tasks, commands, alarms, controller, posted, answered>>

-----------------------------------------------------------------------------
(* The controller and the HAL thread *)

\* How a controller answers a command.  Each client names the kind of answer
\* its command has, so only an unsupported vendor command is answered otherwise.
AnswersTo(entry) ==
  LET answer(code, status) == [code |-> code, status |-> status] IN
    (IF entry.waiting_for_ # "COMPLETE"
     THEN {answer("COMMAND_STATUS", "SUCCESS")} ELSE {})
    \cup
    (IF entry.waiting_for_ # "STATUS"
     THEN {answer("COMMAND_COMPLETE", "SUCCESS")} ELSE {})
    \cup
    (IF entry = ResetEntry
     THEN {answer("COMMAND_COMPLETE", "UNKNOWN_HCI_COMMAND")} ELSE {})
    \cup
    (IF IsVendorSpecific(entry.op)
     THEN {answer("COMMAND_STATUS", "UNKNOWN_HCI_COMMAND")} ELSE {})

\* The HAL thread posts an event; a cleared handler drops it, and once the
\* layer is destroyed hciEventReceived returns early.
hciEventReceived(event) ==
  tasks' = IF life = "running"
           THEN Append(tasks, [run |-> "on_hci_event", event |-> event])
           ELSE tasks

ControllerAnswers(i, credits) ==
  /\ Alive
  /\ i \in 1 .. Len(controller)
  /\ InOrder => i = 1
  /\ controller' = RemoveAt(controller, i)
  /\ \E answer \in AnswersTo(controller[i]) :
       hciEventReceived([code |-> answer.code, id |-> controller[i].id,
                         op |-> controller[i].op, status |-> answer.status,
                         credits |-> credits])
  /\ UNCHANGED <<fate, life, commands, alarms, posted, answered>>

\* The controller forgets a command: it is never answered.
ControllerLoses(i) ==
  /\ Alive
  /\ i \in 1 .. Len(controller)
  /\ controller' = RemoveAt(controller, i)
  /\ UNCHANGED <<fate, life, tasks, commands, alarms, posted, answered>>

\* Any event that answers no command.
Unsolicited(credits) ==
  { [code |-> "COMMAND_COMPLETE", id |-> DebugId, op |-> NONE,
     status |-> "SUCCESS", credits |-> credits],
    [code |-> "ROOT_INFLAMMATION"], [code |-> "HARDWARE_ERROR"] }

\* Whether a closure has such an event.
IsReport(task) ==
  task.run = "on_hci_event" /\ (IsAnswer(task.event) => task.event.op = NONE)

ControllerReports(event) ==
  /\ HandlerRuns
  /\ Len(SelectSeq(tasks, IsReport)) < MaxReports
  /\ hciEventReceived(event)
  /\ UNCHANGED <<fate, life, commands, alarms, controller, posted, answered>>

-----------------------------------------------------------------------------
(* Shutdown *)

\* Stack::Stop clears the handler: what was posted never runs.
Stop ==
  /\ HandlerRuns
  /\ life' = "cleared"
  /\ tasks' = <<>>
  /\ UNCHANGED <<fate, commands, alarms, controller, posted, answered>>

\* ~HciLayer, later, on the management thread.
Destroy ==
  /\ fate = "alive" /\ life = "cleared"
  /\ life' = "destroyed"
  /\ command_queue_' = <<>>
  /\ waiting_command_' = NONE
  /\ hci_timeout_alarm_' = "null"
  /\ hci_abort_alarm_' = "null"
  /\ UNCHANGED <<fate, tasks, command_credits_, controller, posted, answered>>

-----------------------------------------------------------------------------
StackThread ==
  \/ enqueue_command
  \/ on_hci_event
  \/ fail_if_reset_complete_not_success

Controller ==
  \/ \E i \in 1 .. Len(controller) :
       \/ \E credits \in Grants : ControllerAnswers(i, credits)
       \/ ControllerLoses(i)
  \/ \E credits \in Grants : \E event \in Unsolicited(credits) :
       ControllerReports(event)

Next ==
  \/ \E request \in Requests : EnqueueCommand(request[1], request[2])
  \/ StackThread
  \/ on_hci_timeout
  \/ abort
  \/ Controller
  \/ Stop
  \/ Destroy

Spec == Init /\ [][Next]_vars

\* The stack thread runs what is posted and its alarms expire.  The controller
\* need not answer, but one that withholds the credits grants one some day.
ControllerGrants ==
  \E credits \in Grants \ {0} : \E event \in Unsolicited(credits) :
    IsAnswer(event) /\ ControllerReports(event)

Fairness ==
  /\ WF_vars(StackThread)
  /\ WF_vars(on_hci_timeout)
  /\ WF_vars(abort)
  /\ SF_vars(ControllerGrants /\ command_credits_ = 0 /\ waiting_command_ = NONE)

FairSpec == Spec /\ Fairness

-----------------------------------------------------------------------------
(* Properties *)

\* The types of the members of HciLayer::impl and of what surrounds them. Not by
\* construction: credits are what the controller reports, answers and callbacks carry
\* the commands they belong to.
TypeOK ==
  /\ fate \in {"alive", "assert", "hci_timeout", "root_inflammation",
               "hardware_error", "reset_failed"}
  /\ life \in {"running", "cleared", "destroyed"}
  /\ tasks \in Seq(Tasks)
  /\ command_queue_ \in Seq(CommandQueueEntry)
  /\ waiting_command_ \in AllOps \cup {NONE}
  /\ command_credits_ \in Nat
  /\ hci_timeout_alarm_ \in {"null", "idle", "armed"}
  /\ hci_abort_alarm_ \in {"null", "hci_timeout", "root_inflammation"}
  /\ controller \in Seq(CommandQueueEntry)
  /\ posted \in 1 .. MaxCommands
  /\ answered \in Seq([id : Ids, by : Ids])

\* While a command is outstanding it is the first of the queue: the answer goes
\* to command_queue_.front(), which the code identifies by operation code only.
WaitingIsHead ==
  waiting_command_ # NONE =>
    /\ command_queue_ # <<>>
    /\ Head(command_queue_).op = waiting_command_

\* Something will end the wait for every outstanding command: the timeout alarm
\* is armed, or the process is already going to abort.
Watchdog ==
  waiting_command_ # NONE =>
    hci_timeout_alarm_ = "armed" \/ hci_abort_alarm_ # "null"

\* No lost wakeup: unless the process is going to abort, a command waits in the
\* queue of an idle layer only for want of a credit.
NoStalledCommand ==
  command_queue_ # <<>> /\ waiting_command_ = NONE /\ hci_abort_alarm_ = "null"
    => command_credits_ = 0

\* The timeout alarm is deleted only together with the scheduling of an abort.
AbortReplacesTimeout ==
  hci_timeout_alarm_ = "null" => hci_abort_alarm_ # "null" \/ life = "destroyed"

\* The inductive strengthening of the three invariants above.
CommandInv ==
  WaitingIsHead /\ Watchdog /\ NoStalledCommand /\ AbortReplacesTimeout

\* Assertions of handle_command_response fail only in the window between the
\* timeout and the abort, whatever the order in which the controller answers.
AssertOnlyAfterTimeout ==
  fate = "assert" => hci_abort_alarm_ = "hci_timeout"

\* A controller that answers in order never makes an assertion fail, however
\* late it answers and however the answer races with the timeout.
NoAssertFailure == fate # "assert"

\* Each callback is given the answer to its own command, and never one to an
\* earlier command with the same operation code.
AnswerMatches == \A n \in 1 .. Len(answered) : answered[n].id = answered[n].by

\* Every command a client posts is answered, or the process ends, or the stack
\* is being stopped.
CommandsResolve ==
  \A id \in 1 .. MaxCommands :
    posted >= id ~>
      \/ \E n \in 1 .. Len(answered) : answered[n].id = id
      \/ fate # "alive"
      \/ life # "running"

=============================================================================
