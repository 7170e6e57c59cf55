---------------------------- MODULE AclScheduler ----------------------------
(***************************************************************************)
(* Who may page: the scheduler of classic connections and remote name      *)
(* requests (system/gd/hci/acl_manager/acl_scheduler.cc) together with its *)
(* two users, RemoteNameRequestModuleImpl and the connection part of       *)
(* classic_impl, and the controller they share.                            *)
(*                                                                         *)
(* The three run on the stack thread and call each other by closures, on   *)
(* one handler or, without same_handler_for_all_modules, on one each.      *)
(* Answers and events of the controller reach them through the HCI layer   *)
(* as closures too.                                                        *)
(***************************************************************************)
EXTENDS Naturals, Sequences, FiniteSets, SequencesExt

CONSTANTS
  Peers,           \* the devices clients connect to or ask the name of
  Callers,         \* the devices that connect to us
  SameHandler,     \* flag same_handler_for_all_modules
  FixInAndOut,     \* flag acl_fix_in_and_out_connection_reqs
  MaxConnects,     \* bound: connections requested by clients
  MaxNames,        \* bound: remote names requested
  CancelKinds,     \* what clients cancel: connections ("ACL"), remote names ("RNR")
  MaxCancels,      \* bound: cancellations of connections and of remote names, in all
  MaxIncoming      \* bound: connections requested by remote devices

ASSUME AclSchedulerAssumption ==
  /\ SameHandler \in BOOLEAN /\ FixInAndOut \in BOOLEAN
  /\ CancelKinds \subseteq {"ACL", "RNR"}
  /\ MaxConnects \in Nat /\ MaxNames \in Nat /\ MaxCancels \in Nat
  /\ MaxIncoming \in Nat

VARIABLES
  outgoing_entry_,                  \* the operation under way, or NoEntry
  pending_outgoing_operations_,
  incoming_connecting_address_set_,
  pending_,                         \* of RemoteNameRequestModuleImpl
  on_remote_name_complete_,         \* the request whose callback is kept, 0 if none
  connections,                      \* the devices classic_impl has a link to
  tasks,                            \* per handler the closures posted, oldest first
  hci,                              \* commands the controller has not seen, oldest first
  air,                              \* what the controller is doing
  fate,                             \* "alive" or the assertion that failed
  told,                             \* per request the causes of the answers it got
  counts                            \* how often clients and remote devices acted

scheduler ==
  <<outgoing_entry_, pending_outgoing_operations_, incoming_connecting_address_set_>>
names == <<pending_, on_remote_name_complete_>>
radio == <<hci, air>>
vars == <<scheduler, names, connections, tasks, radio, fate, told, counts>>

-----------------------------------------------------------------------------
(* Data *)

MaxRequests == MaxConnects + MaxNames

Addresses == Peers \cup Callers

\* A request of a client: its number, which the code does not have, its kind (a
\* connection or a remote name) and the device.
QueueEntry == [id : 1 .. MaxRequests, kind : {"ACL", "RNR"}, address : Peers]
NoEntry == [id |-> 0, kind |-> "NONE"]

\* What the controller does: a request, or a connection of a remote device (0), which
\* is asked until the host has answered. A connection that succeeded stays as a link.
Operation ==
  [id : 0 .. MaxRequests, kind : {"ACL", "RNR", "INCOMING"}, address : Addresses,
   state : {"asked", "going", "cancelled", "rejected", "link"}]

HandlerOf(module) == IF SameHandler THEN "stack" ELSE module
Handlers == {HandlerOf(m) : m \in {"scheduler", "rnr", "acl"}}

\* The closure t goes to the handler of the module that runs it.
Post(before, t) == [before EXCEPT ![HandlerOf(t.module)] = Append(@, t)]

\* A closure carries its arguments: a request or operation, a status, and the number
\* of the request (0 if none) that the controller's event is about.
Closure(module, run, entry) ==
  [module |-> module, run |-> run, entry |-> entry, success |-> TRUE, by |-> entry.id]
Completion(module, run, entry, success, by) ==
  [module |-> module, run |-> run, entry |-> entry, success |-> success, by |-> by]

\* The client of request id is told. Its callback only posts to its own handler.
Tell(id, by) == told' = [told EXCEPT ![id] = Append(@, by)]

Init ==
  /\ outgoing_entry_ = NoEntry
  /\ pending_outgoing_operations_ = <<>>
  /\ incoming_connecting_address_set_ = {}
  /\ pending_ = FALSE
  /\ on_remote_name_complete_ = 0
  /\ connections = {}
  /\ tasks = [h \in Handlers |-> <<>>]
  /\ hci = <<>>
  /\ air = {}
  /\ fate = "alive"
  /\ told = [id \in 1 .. MaxRequests |-> <<>>]
  /\ counts = [connects |-> 0, names |-> 0, cancels |-> 0, incoming |-> 0]

\* The stack thread runs the first closure t of a handler.
Runs(module, run) ==
  /\ fate = "alive"
  /\ tasks[HandlerOf(module)] # <<>>
  /\ Head(tasks[HandlerOf(module)]).module = module
  /\ Head(tasks[HandlerOf(module)]).run = run
  /\ UNCHANGED counts

This(module) == Head(tasks[HandlerOf(module)])
Rest(module) == [tasks EXCEPT ![HandlerOf(module)] = Tail(@)]

-----------------------------------------------------------------------------
(* The scheduler *)

\* Mutation: the operation under way is not looked at.
ReadyWhileOutgoing(queue, outgoing, incoming) ==
  /\ queue # <<>>
  /\ \/ Head(queue).kind = "RNR" /\ Head(queue).address \in incoming
     \/ incoming = {}

ready_to_send_next_operation(queue, outgoing, incoming) ==
  /\ queue # <<>>
  /\ \/ Head(queue).kind = "RNR" /\ Head(queue).address \in incoming
     \/ incoming = {} /\ outgoing = NoEntry

\* Mutation: the entry is moved into outgoing_entry_ before its callback is invoked.
StartMoved(entry) == Closure("acl", "actually_create_connection", NoEntry)

\* The callback of an operation
Start(entry) ==
  IF entry.kind = "ACL" THEN Closure("acl", "actually_create_connection", entry)
                        ELSE Closure("rnr", "actually_start_remote_name_request", entry)

\* The arguments are the values the caller has just assigned and the closures that
\* wait once it has posted its own.
try_dequeue_next_operation(queue, outgoing, incoming, waiting) ==
  /\ incoming_connecting_address_set_' = incoming
  /\ \/ /\ ready_to_send_next_operation(queue, outgoing, incoming)
        /\ pending_outgoing_operations_' = Tail(queue)
        /\ outgoing_entry_' = Head(queue)
        /\ tasks' = Post(waiting, Start(Head(queue)))
     \/ /\ ~ready_to_send_next_operation(queue, outgoing, incoming)
        /\ pending_outgoing_operations_' = queue
        /\ outgoing_entry_' = outgoing
        /\ tasks' = waiting

\* EnqueueOutgoingAclConnection and EnqueueRemoteNameRequest
Enqueue ==
  /\ Runs("scheduler", "Enqueue")
  /\ try_dequeue_next_operation(
       Append(pending_outgoing_operations_, This("scheduler").entry),
       outgoing_entry_, incoming_connecting_address_set_, Rest("scheduler"))
  /\ UNCHANGED <<names, connections, radio, fate, told>>

RegisterPendingIncomingConnection ==
  /\ Runs("scheduler", "RegisterPendingIncomingConnection")
  /\ incoming_connecting_address_set_' =
       incoming_connecting_address_set_ \cup {This("scheduler").entry.address}
  /\ tasks' = Rest("scheduler")
  /\ UNCHANGED <<outgoing_entry_, pending_outgoing_operations_, names, connections,
                 radio, fate, told>>

\* Matching is by address only: a failed incoming connection of a device that is being
\* paged is taken for the end of the page.
ReportAclConnectionCompletion ==
  /\ Runs("scheduler", "ReportAclConnectionCompletion")
  /\ LET op == This("scheduler").entry
         success == This("scheduler").success
         incoming == incoming_connecting_address_set_
         isOutgoing == outgoing_entry_.kind = "ACL" /\ outgoing_entry_.address = op.address
         Answered(run, entry) ==
           Post(Rest("scheduler"), Completion("acl", run, entry, success, op.id))
     IN
       \/ /\ isOutgoing
          /\ try_dequeue_next_operation(
               pending_outgoing_operations_, NoEntry,
               IF FixInAndOut THEN incoming \ {op.address} ELSE incoming,
               Answered("create_and_announce_connection", outgoing_entry_))
       \/ /\ ~isOutgoing /\ op.address \in incoming
          /\ try_dequeue_next_operation(
               pending_outgoing_operations_, outgoing_entry_, incoming \ {op.address},
               Answered("create_and_announce_connection", [op EXCEPT !.id = 0]))
       \/ /\ ~isOutgoing /\ op.address \notin incoming
          /\ try_dequeue_next_operation(
               pending_outgoing_operations_, outgoing_entry_, incoming,
               Answered("handle_unknown_connection", op))
  /\ UNCHANGED <<names, connections, radio, fate, told>>

\* The operation under way ends, if it is the one reported.
EndOutgoing(expected) ==
  /\ IF expected
     THEN try_dequeue_next_operation(pending_outgoing_operations_, NoEntry,
                                     incoming_connecting_address_set_, Rest("scheduler"))
     ELSE tasks' = Rest("scheduler") /\ UNCHANGED scheduler
  /\ UNCHANGED <<names, connections, radio, fate, told>>

ReportOutgoingAclConnectionFailure ==
  /\ Runs("scheduler", "ReportOutgoingAclConnectionFailure")
  /\ EndOutgoing(outgoing_entry_.kind = "ACL")

\* The address is ignored; an outgoing connection is taken for failed.
ReportRemoteNameRequestCompletion ==
  /\ Runs("scheduler", "ReportRemoteNameRequestCompletion")
  /\ EndOutgoing(outgoing_entry_ # NoEntry)

WithoutQueued(n) == RemoveAt(pending_outgoing_operations_, n)

\* An outgoing operation is cancelled at the controller; a queued one leaves the queue,
\* its client is told, and the next one is not started.
cancel_outgoing_or_queued_connection(kind, address, cancel) ==
  LET Matches(entry) == entry.kind = kind /\ entry.address = address
      found == {n \in DOMAIN pending_outgoing_operations_ :
                  Matches(pending_outgoing_operations_[n])}
      first == CHOOSE n \in found : \A m \in found : n <= m
  IN
    \/ /\ Matches(outgoing_entry_)
       /\ tasks' = Post(Rest("scheduler"), cancel)
       /\ UNCHANGED <<pending_outgoing_operations_, told>>
    \/ /\ ~Matches(outgoing_entry_) /\ found = {}
       /\ tasks' = Rest("scheduler")
       /\ UNCHANGED <<pending_outgoing_operations_, told>>
    \/ /\ ~Matches(outgoing_entry_) /\ found # {}
       /\ LET id == pending_outgoing_operations_[first].id IN Tell(id, id)
       /\ pending_outgoing_operations_' = WithoutQueued(first)
       /\ tasks' = Rest("scheduler")

CancelAclConnection ==
  /\ Runs("scheduler", "CancelAclConnection")
  /\ cancel_outgoing_or_queued_connection("ACL", This("scheduler").entry.address,
       Closure("acl", "actually_cancel_connect", This("scheduler").entry))
  /\ UNCHANGED <<outgoing_entry_, incoming_connecting_address_set_, names, connections,
                 radio, fate>>

CancelRemoteNameRequest ==
  /\ Runs("scheduler", "CancelRemoteNameRequest")
  /\ cancel_outgoing_or_queued_connection("RNR", This("scheduler").entry.address,
       Closure("rnr", "actually_cancel_remote_name_request", This("scheduler").entry))
  /\ UNCHANGED <<outgoing_entry_, incoming_connecting_address_set_, names, connections,
                 radio, fate>>

-----------------------------------------------------------------------------
(* The connection part of classic_impl *)

Command(op, entry) == [op |-> op, entry |-> entry]

\* A device that has connected meanwhile is not paged, and the client is not told.
actually_create_connection ==
  /\ Runs("acl", "actually_create_connection")
  /\ \/ /\ This("acl").entry.address \in connections
        /\ tasks' = Post(Rest("acl"),
             Closure("scheduler", "ReportOutgoingAclConnectionFailure", This("acl").entry))
        /\ UNCHANGED hci
     \/ /\ This("acl").entry.address \notin connections
        /\ hci' = Append(hci, Command("CREATE_CONNECTION", This("acl").entry))
        /\ tasks' = Rest("acl")
  /\ UNCHANGED <<scheduler, names, connections, air, fate, told>>

\* Mutation: a connection that could not be started blocks the queue.
StatusDoesNotUnblock ==
  /\ Runs("acl", "on_create_connection_status")
  /\ \/ /\ This("acl").success
        /\ tasks' = Rest("acl")
        /\ UNCHANGED told
     \/ /\ ~This("acl").success
        /\ Tell(This("acl").entry.id, This("acl").by)
        /\ tasks' = Rest("acl")
  /\ UNCHANGED <<scheduler, names, connections, radio, fate>>

on_create_connection_status ==
  /\ Runs("acl", "on_create_connection_status")
  /\ \/ /\ This("acl").success
        /\ tasks' = Rest("acl")
        /\ UNCHANGED told
     \/ /\ ~This("acl").success
        /\ Tell(This("acl").entry.id, This("acl").by)
        /\ tasks' = Post(Rest("acl"),
             Closure("scheduler", "ReportOutgoingAclConnectionFailure", This("acl").entry))
  /\ UNCHANGED <<scheduler, names, connections, radio, fate>>

on_connection_complete ==
  /\ Runs("acl", "on_connection_complete")
  /\ tasks' = Post(Rest("acl"),
       [This("acl") EXCEPT !.module = "scheduler", !.run = "ReportAclConnectionCompletion"])
  /\ UNCHANGED <<scheduler, names, connections, radio, fate, told>>

\* The entry is the request the scheduler took the completion for, or the incoming
\* connection.
create_and_announce_connection ==
  /\ Runs("acl", "create_and_announce_connection")
  /\ connections' = IF This("acl").success
                    THEN connections \cup {This("acl").entry.address} ELSE connections
  /\ IF This("acl").entry.id = 0 THEN UNCHANGED told
                                 ELSE Tell(This("acl").entry.id, This("acl").by)
  /\ tasks' = Rest("acl")
  /\ UNCHANGED <<scheduler, names, radio, fate>>

\* The third callback of on_connection_complete: a success is fatal, a failure is
\* taken for the end of a cancelled name request.
handle_unknown_connection ==
  /\ Runs("acl", "handle_unknown_connection")
  /\ fate' = IF This("acl").success THEN "No prior connection request" ELSE fate
  /\ tasks' = IF This("acl").success THEN Rest("acl")
              ELSE Post(Rest("acl"), [This("acl") EXCEPT
                     !.module = "rnr", !.run = "ReportRemoteNameRequestCancellation"])
  /\ UNCHANGED <<scheduler, names, connections, radio, told>>

on_incoming_connection ==
  /\ Runs("acl", "on_incoming_connection")
  /\ tasks' = Post(Rest("acl"),
       Closure("scheduler", "RegisterPendingIncomingConnection", This("acl").entry))
  /\ \E answer \in {"ACCEPT", "REJECT"} :
       /\ This("acl").entry.address \in connections => answer = "REJECT"
       /\ hci' = Append(hci, Command(answer, This("acl").entry))
  /\ UNCHANGED <<scheduler, names, connections, air, fate, told>>

\* An incoming connection that cannot be accepted cancels a request to the device.
on_accept_connection_status ==
  /\ Runs("acl", "on_accept_connection_status")
  /\ tasks' = IF This("acl").success THEN Rest("acl")
              ELSE Post(Rest("acl"),
                     Closure("scheduler", "CancelAclConnection", This("acl").entry))
  /\ UNCHANGED <<scheduler, names, connections, radio, fate, told>>

actually_cancel_connect ==
  /\ Runs("acl", "actually_cancel_connect")
  /\ hci' = Append(hci, Command("CREATE_CONNECTION_CANCEL", This("acl").entry))
  /\ tasks' = Rest("acl")
  /\ UNCHANGED <<scheduler, names, connections, air, fate, told>>

-----------------------------------------------------------------------------
(* RemoteNameRequestModuleImpl *)

actually_start_remote_name_request ==
  /\ Runs("rnr", "actually_start_remote_name_request")
  /\ fate' = IF pending_ THEN "pending_ == false" ELSE fate
  /\ pending_' = TRUE
  /\ on_remote_name_complete_' = This("rnr").entry.id
  /\ hci' = Append(hci, Command("REMOTE_NAME_REQUEST", This("rnr").entry))
  /\ tasks' = Rest("rnr")
  /\ UNCHANGED <<scheduler, connections, air, told>>

on_start_remote_name_request_status ==
  /\ Runs("rnr", "on_start_remote_name_request_status")
  /\ fate' = IF pending_ THEN fate ELSE "pending_ == true"
  /\ \/ /\ This("rnr").success
        /\ tasks' = Rest("rnr")
        /\ UNCHANGED <<pending_, told>>
     \/ /\ ~This("rnr").success
        /\ pending_' = FALSE
        /\ Tell(This("rnr").entry.id, This("rnr").by)
        /\ tasks' = Post(Rest("rnr"),
             Closure("scheduler", "ReportRemoteNameRequestCompletion", This("rnr").entry))
  /\ UNCHANGED <<scheduler, on_remote_name_complete_, connections, radio>>

actually_cancel_remote_name_request ==
  /\ Runs("rnr", "actually_cancel_remote_name_request")
  /\ hci' = IF pending_ THEN Append(hci, Command("REMOTE_NAME_REQUEST_CANCEL", This("rnr").entry))
            ELSE hci
  /\ tasks' = Rest("rnr")
  /\ UNCHANGED <<scheduler, names, connections, air, fate, told>>

\* Mutation: pending_ is not reset.
CompletedStaysPending ==
  \/ /\ pending_
     /\ UNCHANGED pending_
     /\ Tell(on_remote_name_complete_, This("rnr").by)
     /\ tasks' = Post(Rest("rnr"),
          Closure("scheduler", "ReportRemoteNameRequestCompletion", This("rnr").entry))
     /\ UNCHANGED on_remote_name_complete_
  \/ /\ ~pending_
     /\ tasks' = Rest("rnr")
     /\ UNCHANGED <<names, told>>

\* completed and ReportRemoteNameRequestCancellationImpl: whatever request is pending
\* is answered, the address is not compared.
completed ==
  \/ /\ pending_
     /\ pending_' = FALSE
     /\ Tell(on_remote_name_complete_, This("rnr").by)
     /\ tasks' = Post(Rest("rnr"),
          Closure("scheduler", "ReportRemoteNameRequestCompletion", This("rnr").entry))
     /\ UNCHANGED on_remote_name_complete_
  \/ /\ ~pending_
     /\ tasks' = Rest("rnr")
     /\ UNCHANGED <<names, told>>

on_remote_name_request_complete ==
  /\ Runs("rnr", "on_remote_name_request_complete")
  /\ completed
  /\ UNCHANGED <<scheduler, connections, radio, fate>>

ReportRemoteNameRequestCancellation ==
  /\ Runs("rnr", "ReportRemoteNameRequestCancellation")
  /\ completed
  /\ UNCHANGED <<scheduler, connections, radio, fate>>

check_cancel_status ==
  /\ Runs("rnr", "check_cancel_status")
  /\ \/ /\ This("rnr").success
        /\ tasks' = Rest("rnr")
        /\ UNCHANGED <<names, told>>
     \/ /\ ~This("rnr").success
        /\ completed
  /\ UNCHANGED <<scheduler, connections, radio, fate>>

-----------------------------------------------------------------------------
(* Clients, on threads of their own *)

Counted(what, bound) ==
  /\ fate = "alive"
  /\ counts[what] < bound
  /\ counts' = [counts EXCEPT ![what] = @ + 1]

NextId == counts.connects + counts.names + 1

\* create_connection and StartRemoteNameRequest
Request(what, kind, bound, address) ==
  /\ Counted(what, bound)
  /\ tasks' = Post(tasks, Closure("scheduler", "Enqueue",
                 [id |-> NextId, kind |-> kind, address |-> address]))
  /\ UNCHANGED <<scheduler, names, connections, radio, fate, told>>

CreateConnection(address) == Request("connects", "ACL", MaxConnects, address)
StartRemoteNameRequest(address) == Request("names", "RNR", MaxNames, address)

\* cancel_connect and CancelRemoteNameRequest, whether or not there is a request
Cancel(kind, run, address) ==
  /\ kind \in CancelKinds
  /\ Counted("cancels", MaxCancels)
  /\ tasks' = Post(tasks, Closure("scheduler", run,
                 [id |-> 0, kind |-> kind, address |-> address]))
  /\ UNCHANGED <<scheduler, names, connections, radio, fate, told>>

CancelConnect(address) == Cancel("ACL", "CancelAclConnection", address)
CancelName(address) == Cancel("RNR", "CancelRemoteNameRequest", address)

-----------------------------------------------------------------------------
(* The controller *)

Doing(kind, address) ==
  {op \in air : op.kind = kind /\ op.address = address /\ op.state # "link"}
Linked(address) == \E op \in air : op.address = address /\ op.state = "link"

Going(entry) == [id |-> entry.id, kind |-> entry.kind, address |-> entry.address,
                 state |-> "going"]

\* The answer to the oldest command.
Answers(op, waiting) ==
  /\ fate = "alive"
  /\ hci # <<>> /\ Head(hci).op = op
  /\ hci' = Tail(hci)
  /\ tasks' = waiting
  /\ UNCHANGED <<scheduler, names, connections, fate, told, counts>>

\* A page is accepted or refused; a device with a link is not paged.
StartsPaging(op, module, run) ==
  /\ hci # <<>>
  /\ LET entry == Head(hci).entry IN
       \E success \in BOOLEAN :
         /\ success /\ entry.kind = "ACL" => ~Linked(entry.address)
         /\ Answers(op, Post(tasks, Completion(module, run, entry, success, entry.id)))
         /\ air' = IF success THEN air \cup {Going(entry)} ELSE air

ControllerCreateConnection ==
  StartsPaging("CREATE_CONNECTION", "acl", "on_create_connection_status")
ControllerRemoteNameRequest ==
  StartsPaging("REMOTE_NAME_REQUEST", "rnr", "on_start_remote_name_request_status")

\* The page ends early; a page ends in any case. The answer is only logged.
ControllerCreateConnectionCancel ==
  /\ Answers("CREATE_CONNECTION_CANCEL", tasks)
  /\ UNCHANGED air

\* Every operation of ops goes to a state.
Becomes(ops, state) == (air \ ops) \cup {[op EXCEPT !.state = state] : op \in ops}

ControllerRemoteNameRequestCancel ==
  /\ hci # <<>>
  /\ LET entry == Head(hci).entry
         ops == Doing("RNR", entry.address)
     IN  /\ Answers("REMOTE_NAME_REQUEST_CANCEL",
              Post(tasks, Completion("rnr", "check_cancel_status", entry, ops # {}, 0)))
         /\ air' = Becomes(ops, "cancelled")

\* A request that has timed out meanwhile is neither accepted nor rejected.
ControllerIncomingAnswered ==
  /\ hci # <<>>
  /\ LET entry == Head(hci).entry
         ops == Doing("INCOMING", entry.address)
     IN
       \/ /\ Answers("ACCEPT",
               Post(tasks, Completion("acl", "on_accept_connection_status", entry, ops # {}, 0)))
          /\ air' = Becomes(ops, "going")
       \/ /\ Answers("REJECT", tasks)
          /\ air' = Becomes(ops, "rejected")

Event(module, run, op, success) ==
  /\ fate = "alive"
  /\ tasks' = Post(tasks, Completion(module, run, op, success, op.id))
  /\ UNCHANGED <<scheduler, names, connections, hci, fate, told, counts>>

\* One completion answers a page and an incoming connection of the same device.
ConnectionSucceeds(op) ==
  /\ op.kind # "RNR" /\ op.state = "going" /\ ~Linked(op.address)
  /\ Event("acl", "on_connection_complete", op, TRUE)
  /\ air' = (air \ (Doing("ACL", op.address) \cup Doing("INCOMING", op.address)))
              \cup {[op EXCEPT !.state = "link"]}

\* A page or a connection of a remote device fails, or a request nobody has answered
\* times out.
ConnectionFails(op) ==
  /\ op.kind # "RNR" /\ op.state # "link"
  /\ Event("acl", "on_connection_complete", op, FALSE)
  /\ air' = air \ {op}

\* A cancelled name request ends with either event: some controllers report a
\* connection (remote_name_request_impl.cc:100).
NameRequestEnds(op) ==
  /\ op.kind = "RNR"
  /\ \/ Event("rnr", "on_remote_name_request_complete", op, op.state = "going")
     \/ op.state = "cancelled" /\ Event("acl", "on_connection_complete", op, FALSE)
  /\ air' = air \ {op}

Incoming(address) ==
  /\ Counted("incoming", MaxIncoming)
  /\ Doing("INCOMING", address) = {}
  /\ LET op == [id |-> 0, kind |-> "INCOMING", address |-> address, state |-> "asked"] IN
       /\ air' = air \cup {op}
       /\ tasks' = Post(tasks, Closure("acl", "on_incoming_connection", op))
  /\ UNCHANGED <<scheduler, names, connections, hci, fate, told>>

-----------------------------------------------------------------------------
(* The specification *)

SchedulerStep ==
  \/ Enqueue \/ RegisterPendingIncomingConnection \/ ReportAclConnectionCompletion
  \/ ReportOutgoingAclConnectionFailure \/ ReportRemoteNameRequestCompletion
  \/ CancelAclConnection \/ CancelRemoteNameRequest

ClassicStep ==
  \/ actually_create_connection \/ on_create_connection_status \/ on_connection_complete
  \/ create_and_announce_connection \/ handle_unknown_connection
  \/ on_incoming_connection \/ on_accept_connection_status \/ actually_cancel_connect

NameStep ==
  \/ actually_start_remote_name_request \/ on_start_remote_name_request_status
  \/ actually_cancel_remote_name_request \/ on_remote_name_request_complete
  \/ ReportRemoteNameRequestCancellation \/ check_cancel_status

ControllerAnswers ==
  \/ ControllerCreateConnection \/ ControllerRemoteNameRequest
  \/ ControllerCreateConnectionCancel \/ ControllerRemoteNameRequestCancel
  \/ ControllerIncomingAnswered

OperationEnds(op) == ConnectionSucceeds(op) \/ ConnectionFails(op) \/ NameRequestEnds(op)

ClientStep ==
  \/ \E address \in Peers :
       CreateConnection(address) \/ StartRemoteNameRequest(address)
         \/ CancelConnect(address) \/ CancelName(address)
  \/ \E address \in Callers : Incoming(address)

Next ==
  \/ SchedulerStep \/ ClassicStep \/ NameStep \/ ControllerAnswers
  \/ \E op \in air : OperationEnds(op)
  \/ ClientStep

Spec == Init /\ [][Next]_vars

\* The stack thread serves its handlers in turn, and the controller answers commands
\* and ends what it does: pages and name requests time out.
Fairness ==
  /\ WF_vars(SchedulerStep) /\ WF_vars(ClassicStep) /\ WF_vars(NameStep)
  /\ WF_vars(ControllerAnswers)
  /\ WF_vars(\E op \in air : OperationEnds(op))

FairSpec == Spec /\ Fairness

-----------------------------------------------------------------------------
(* Properties *)

Requested == [id : 0 .. MaxRequests, kind : {"ACL", "RNR"}, address : Addresses]

\* The types of the state: acl_scheduler.cc:292-294 and remote_name_request_impl.h. The
\* asynchronous parts are bounded by what clients and remote devices asked for.
TypeOK ==
  /\ outgoing_entry_ \in QueueEntry \cup {NoEntry}
  /\ pending_outgoing_operations_ \in Seq(QueueEntry)
  /\ incoming_connecting_address_set_ \subseteq Addresses
  /\ pending_ \in BOOLEAN
  /\ on_remote_name_complete_ \in 0 .. MaxRequests
  /\ connections \subseteq Addresses
  /\ \A h \in Handlers : \A n \in DOMAIN tasks[h] :
       tasks[h][n].entry \in Requested \cup Operation
  /\ \A n \in DOMAIN hci : hci[n].entry \in Requested \cup Operation
  /\ air \subseteq Operation
  /\ fate \in {"alive", "pending_ == false", "pending_ == true", "No prior connection request"}
  /\ \A id \in DOMAIN told : \A n \in DOMAIN told[id] : told[id][n] \in 0 .. MaxRequests

\* An operation of ours that the controller is doing is the one the scheduler has as
\* outgoing_entry_. So the controller never has two of them, and none is forgotten while
\* its completion is still to come (acl_scheduler.cc:250-262).
OperationIsOutgoing ==
  \A op \in air : op.id # 0 /\ op.state # "link" => outgoing_entry_.id = op.id

\* A client is told the outcome of its request at most once, and the event that made the
\* host tell it is one about that request, not about another one.
AnsweredByOwn == \A id \in DOMAIN told : told[id] \in {<<>>, <<id>>}

\* Every request is answered in the end, or finds its device connected (a request for a
\* device that has a link is dropped silently, classic_impl.h:305). In particular an
\* incoming connection blocks the queue for a while only.
RequestsAreAnswered ==
  \A entry \in QueueEntry :
    (\E n \in DOMAIN pending_outgoing_operations_ : pending_outgoing_operations_[n] = entry)
      ~> (told[entry.id] # <<>> \/ (entry.kind = "ACL" /\ entry.address \in connections))

\* "assert failed: pending_ == false" (remote_name_request_impl.cc:122): no name request is
\* started while another one is pending. It fails when the device is connecting to us.
NotStartedTwice == fate # "pending_ == false"

=============================================================================
