------------------------- MODULE AclSchedulerProofs -------------------------
(***************************************************************************)
(* Theorems about AclScheduler: its types, and that the scheduler keeps to *)
(* the outgoing operation, and answers each request by its own event, in   *)
(* every behaviour without one of two races, which Undisturbed names.      *)
(***************************************************************************)
EXTENDS AclScheduler, NaturalsInduction, WellFoundedInduction, TLAPS

-----------------------------------------------------------------------------
(* The types of everything on its way *)

Modules == {"scheduler", "rnr", "acl"}

Entries == Requested \cup Operation

RunNames ==
  {"Enqueue", "RegisterPendingIncomingConnection", "ReportAclConnectionCompletion",
   "ReportOutgoingAclConnectionFailure", "ReportRemoteNameRequestCompletion",
   "CancelAclConnection", "CancelRemoteNameRequest",
   "actually_create_connection", "on_create_connection_status", "on_connection_complete",
   "create_and_announce_connection", "handle_unknown_connection",
   "on_incoming_connection", "on_accept_connection_status", "actually_cancel_connect",
   "actually_start_remote_name_request", "on_start_remote_name_request_status",
   "actually_cancel_remote_name_request", "on_remote_name_request_complete",
   "ReportRemoteNameRequestCancellation", "check_cancel_status"}

ClosureRecord ==
  [module : Modules, run : RunNames, entry : Entries, success : BOOLEAN,
   by : 0 .. MaxRequests]

IsClosure(t) == t \in ClosureRecord /\ (t.run = "Enqueue" => t.entry \in QueueEntry)

CommandNames ==
  {"CREATE_CONNECTION", "CREATE_CONNECTION_CANCEL", "REMOTE_NAME_REQUEST",
   "REMOTE_NAME_REQUEST_CANCEL", "ACCEPT", "REJECT"}

CommandRecord == [op : CommandNames, entry : Entries]

\* The closures of every handler are of their type.
IsTasks(ts) ==
  /\ ts \in [Handlers -> Seq(ClosureRecord)]
  /\ \A h \in Handlers : \A n \in 1 .. Len(ts[h]) : IsClosure(ts[h][n])

Counts ==
  [connects : 0 .. MaxConnects, names : 0 .. MaxNames, cancels : 0 .. MaxCancels,
   incoming : 0 .. MaxIncoming]

\* TypeOK with the types of what is on its way, from which the rest is assigned.
Types ==
  /\ outgoing_entry_ \in QueueEntry \cup {NoEntry}
  /\ pending_outgoing_operations_ \in Seq(QueueEntry)
  /\ incoming_connecting_address_set_ \subseteq Addresses
  /\ pending_ \in BOOLEAN
  /\ on_remote_name_complete_ \in 0 .. MaxRequests
  /\ connections \subseteq Addresses
  /\ IsTasks(tasks)
  /\ hci \in Seq(CommandRecord)
  /\ air \subseteq Operation
  /\ fate \in {"alive", "pending_ == false", "pending_ == true", "No prior connection request"}
  /\ told \in [1 .. MaxRequests -> Seq(0 .. MaxRequests)]
  /\ counts \in Counts

-----------------------------------------------------------------------------
(* The two races *)

\* The device of the outgoing operation is one of those that are connecting to us. Then a
\* completion of the device's call is taken for the one of the page (acl_scheduler.cc:68), a
\* cancelled name request that ends with a connection event is taken for the call, and a
\* name request has been started beside another operation, if there was one
\* (acl_scheduler.cc:188-192).
OutgoingIsConnecting ==
  /\ outgoing_entry_ # NoEntry
  /\ outgoing_entry_.address \in incoming_connecting_address_set_

\* A cancellation has failed, because the name request it was for had ended, and its status
\* is about to end the request that is pending instead (remote_name_request_impl.cc:208-210).
CancelIsLate ==
  /\ tasks[HandlerOf("rnr")] # <<>>
  /\ This("rnr").module = "rnr" /\ This("rnr").run = "check_cancel_status"
  /\ ~This("rnr").success /\ pending_

Undisturbed == ~OutgoingIsConnecting /\ ~CancelIsLate

-----------------------------------------------------------------------------
(* Who has to end an operation, and who owes its client an answer *)

Roles == {"owes", "ends"}

\* The closures that bring the end of a name request to the module that asked for it; a
\* cancelled one may come as the end of a connection nobody knows.
NameEnds ==
  {"on_remote_name_request_complete", "on_connection_complete", "ReportAclConnectionCompletion",
   "handle_unknown_connection", "ReportRemoteNameRequestCancellation"}

\* The closures that pass an operation on, from its start to its report to the scheduler.
Passing == {"actually_create_connection", "actually_start_remote_name_request"} \cup NameEnds

\* With these in the queue the client has not been told yet.
Owing == Passing \cup {"Enqueue", "create_and_announce_connection"}

\* These let the scheduler go on with its next operation.
Ending ==
  Passing \cup {"ReportOutgoingAclConnectionFailure", "ReportRemoteNameRequestCompletion"}

Statuses == {"on_create_connection_status", "on_start_remote_name_request_status"}

\* Closure t has to tell the client of request id (owes), or to make the scheduler go on
\* after it (ends). A status that reports success does neither.
Plays(t, role, id) ==
  /\ t.entry.id = id
  /\ \/ role = "owes" /\ t.run \in Owing
     \/ role = "ends" /\ t.run \in Ending
     \/ t.run \in Statuses /\ ~t.success

Starting(command, id) ==
  command.entry.id = id /\ command.op \in {"CREATE_CONNECTION", "REMOTE_NAME_REQUEST"}

Ongoing(op, id) == op.id = id /\ op.state # "link"

InTasks(ts, role, id) ==
  \E h \in Handlers : \E n \in 1 .. Len(ts[h]) : Plays(ts[h][n], role, id)
InHci(commands, id) == \E n \in 1 .. Len(commands) : Starting(commands[n], id)
InAir(ops, id) == \E op \in ops : Ongoing(op, id)
InQueue(queue, role, id) ==
  role = "owes" /\ \E n \in 1 .. Len(queue) : queue[n].id = id

OnceInTasks(ts, role, id) ==
  \A h, i \in Handlers : \A m \in 1 .. Len(ts[h]) : \A n \in 1 .. Len(ts[i]) :
    Plays(ts[h][m], role, id) /\ Plays(ts[i][n], role, id) => h = i /\ m = n
OnceInHci(commands, id) ==
  \A m, n \in 1 .. Len(commands) :
    Starting(commands[m], id) /\ Starting(commands[n], id) => m = n
OnceInAir(ops, id) == \A p, q \in ops : Ongoing(p, id) /\ Ongoing(q, id) => p = q
OnceInQueue(queue, id) ==
  \A m, n \in 1 .. Len(queue) : queue[m].id = id /\ queue[n].id = id => m = n

\* Request id has a role in one place at most.
OnePlace(ts, commands, ops, queue, role, id) ==
  /\ OnceInTasks(ts, role, id)
  /\ OnceInHci(commands, id)
  /\ OnceInAir(ops, id)
  /\ OnceInQueue(queue, id)
  /\ InTasks(ts, role, id) =>
       ~InHci(commands, id) /\ ~InAir(ops, id) /\ ~InQueue(queue, role, id)
  /\ InHci(commands, id) => ~InAir(ops, id) /\ ~InQueue(queue, role, id)
  /\ InAir(ops, id) => ~InQueue(queue, role, id)

Somewhere(ts, commands, ops, queue, role, id) ==
  InTasks(ts, role, id) \/ InHci(commands, id) \/ InAir(ops, id) \/ InQueue(queue, role, id)

Asked == counts.connects + counts.names

\* What holds of every request: it is in one place, and its client is told once, of its
\* own end, after everybody who owed it an answer has gone.
RequestInv(ts, commands, ops, queue, answers, asked, id) ==
  /\ \A role \in Roles : OnePlace(ts, commands, ops, queue, role, id)
  /\ Somewhere(ts, commands, ops, queue, "owes", id) => answers[id] = <<>> /\ id <= asked
  /\ answers[id] # <<>> => answers[id] = <<id>> /\ id <= asked

Requests(ts, commands, ops, queue, answers, asked) ==
  \A id \in 1 .. MaxRequests : RequestInv(ts, commands, ops, queue, answers, asked, id)

-----------------------------------------------------------------------------
(* What closures, commands and operations are about *)

IsCall(entry) == entry.id = 0 /\ entry.kind = "INCOMING" /\ entry.address \in Callers

IsPage(entry, kind) ==
  entry.id \in 1 .. MaxRequests /\ entry.kind = kind /\ entry.address \in Peers

\* What the closures carry.
Carries(t) ==
  \/ t.run = "Enqueue" /\ t.module = "scheduler"
  \/ /\ t.run \in {"CancelAclConnection", "CancelRemoteNameRequest"} /\ t.module = "scheduler"
     /\ t.entry.id = 0
  \/ t.run = "ReportOutgoingAclConnectionFailure" /\ t.module = "scheduler"
       /\ IsPage(t.entry, "ACL")
  \/ t.run = "ReportRemoteNameRequestCompletion" /\ t.module = "scheduler"
       /\ IsPage(t.entry, "RNR")
  \/ /\ t.run \in {"actually_create_connection", "on_create_connection_status"}
     /\ t.module = "acl" /\ t.by = t.entry.id /\ IsPage(t.entry, "ACL")
  \/ /\ t.run \in {"actually_start_remote_name_request", "on_start_remote_name_request_status",
                    "on_remote_name_request_complete", "ReportRemoteNameRequestCancellation"}
     /\ t.module = "rnr" /\ t.by = t.entry.id /\ IsPage(t.entry, "RNR")
  \/ /\ \/ t.run = "on_connection_complete" /\ t.module = "acl"
        \/ t.run = "ReportAclConnectionCompletion" /\ t.module = "scheduler"
     /\ t.by = t.entry.id
     /\ IsCall(t.entry) \/ IsPage(t.entry, "ACL") \/ (IsPage(t.entry, "RNR") /\ ~t.success)
  \/ /\ t.run = "handle_unknown_connection" /\ t.module = "acl"
     /\ t.by = t.entry.id /\ IsPage(t.entry, "RNR") /\ ~t.success
  \/ t.run = "create_and_announce_connection" /\ t.module = "acl" /\ t.by = t.entry.id
  \/ /\ \/ /\ t.run \in {"on_incoming_connection", "on_accept_connection_status"}
           /\ t.module = "acl"
        \/ t.run = "RegisterPendingIncomingConnection" /\ t.module = "scheduler"
     /\ IsCall(t.entry)
  \/ t.run = "actually_cancel_connect" /\ t.module = "acl" /\ t.entry.id = 0
  \/ /\ t.run \in {"actually_cancel_remote_name_request", "check_cancel_status"}
     /\ t.module = "rnr"

CommandCarries(command) ==
  \/ command.op = "CREATE_CONNECTION" /\ IsPage(command.entry, "ACL")
  \/ command.op = "REMOTE_NAME_REQUEST" /\ IsPage(command.entry, "RNR")
  \/ command.op \in {"ACCEPT", "REJECT"} /\ IsCall(command.entry)
  \/ command.op \in {"CREATE_CONNECTION_CANCEL", "REMOTE_NAME_REQUEST_CANCEL"}

OperationIs(op) ==
  \/ IsCall(op)
  \/ IsPage(op, "ACL") /\ op.state \in {"going", "link"}
  \/ IsPage(op, "RNR") /\ op.state \in {"going", "cancelled"}

\* Whoever is to end an operation is about the outgoing one, and who is to end a name
\* request that has started is about the one whose callback is kept.
Concerns(entry, outgoing) ==
  entry.id = outgoing.id /\ entry.kind = outgoing.kind /\ entry.address = outgoing.address

TaskConcerns(t, outgoing, name) ==
  /\ \A id \in 1 .. MaxRequests : Plays(t, "ends", id) => Concerns(t.entry, outgoing)
  /\ t.run \in NameEnds /\ t.entry.kind = "RNR" => name = t.entry.id
CommandConcerns(command, outgoing, name) ==
  /\ \A id \in 1 .. MaxRequests : Starting(command, id) => Concerns(command.entry, outgoing)
  /\ command.op = "REMOTE_NAME_REQUEST" => name = command.entry.id
OperationConcerns(op, outgoing, name) ==
  /\ \A id \in 1 .. MaxRequests : Ongoing(op, id) => Concerns(op, outgoing)
  /\ op.kind = "RNR" => name = op.id

TasksCarry(ts, outgoing, name) ==
  \A h \in Handlers : \A n \in 1 .. Len(ts[h]) :
    Carries(ts[h][n]) /\ TaskConcerns(ts[h][n], outgoing, name)
CommandsCarry(commands, outgoing, name) ==
  \A n \in 1 .. Len(commands) :
    CommandCarries(commands[n]) /\ CommandConcerns(commands[n], outgoing, name)
OperationsAre(ops, outgoing, name) ==
  \A op \in ops : OperationIs(op) /\ OperationConcerns(op, outgoing, name)

Contents(ts, commands, ops, outgoing, name) ==
  /\ TasksCarry(ts, outgoing, name)
  /\ CommandsCarry(commands, outgoing, name)
  /\ OperationsAre(ops, outgoing, name)

-----------------------------------------------------------------------------
(* A device that calls is registered before its connection completes *)

Arrives(t, m, c) ==
  /\ t.module = m /\ t.entry.address = c
  /\ t.run \in {"on_incoming_connection", "RegisterPendingIncomingConnection"}
Leaves(t, m, c) ==
  /\ t.module = m /\ t.entry.address = c /\ t.entry.kind = "INCOMING"
  /\ t.run \in {"on_connection_complete", "ReportAclConnectionCompletion"}

\* Of the closures of module m about caller c in the sequence s: between two completions
\* there is a request;
Spaced(s, m, c) ==
  \A i, j \in 1 .. Len(s) :
    i < j /\ Leaves(s[i], m, c) /\ Leaves(s[j], m, c) =>
      \E k \in i .. j : Arrives(s[k], m, c)
\* before the first completion there is one;
Opens(s, m, c) ==
  \A j \in 1 .. Len(s) : Leaves(s[j], m, c) => \E k \in 1 .. j : Arrives(s[k], m, c)
\* after the last completion there is one;
Stays(s, m, c) ==
  \E k \in 1 .. Len(s) :
    Arrives(s[k], m, c) /\ \A j \in k .. Len(s) : ~Leaves(s[j], m, c)
\* there is no completion.
Calm(s, m, c) == \A j \in 1 .. Len(s) : ~Leaves(s[j], m, c)

SchedulerTasks(ts) == ts[HandlerOf("scheduler")]
AclTasks(ts) == ts[HandlerOf("acl")]

\* c is among the connecting devices once the closures of the scheduler have run, and
\* once those of classic_impl have too.
Known(ts, incoming, c) ==
  \/ Stays(SchedulerTasks(ts), "scheduler", c)
  \/ c \in incoming /\ Calm(SchedulerTasks(ts), "scheduler", c)
KnownLater(ts, incoming, c) ==
  \/ Stays(AclTasks(ts), "acl", c)
  \/ Known(ts, incoming, c) /\ Calm(AclTasks(ts), "acl", c)

Calling(ops, c) == {op \in ops : op.kind = "INCOMING" /\ op.address = c /\ op.state # "link"}

CallInv(ts, incoming, ops, c) ==
  /\ Spaced(SchedulerTasks(ts), "scheduler", c) /\ Spaced(AclTasks(ts), "acl", c)
  /\ Opens(SchedulerTasks(ts), "scheduler", c) \/ c \in incoming
  /\ Opens(AclTasks(ts), "acl", c) \/ Known(ts, incoming, c)
  /\ Calling(ops, c) # {} => KnownLater(ts, incoming, c)
  /\ \A p, q \in Calling(ops, c) : p = q

Calls(ts, incoming, ops) == \A c \in Callers : CallInv(ts, incoming, ops, c)

\* What holds as long as neither race has happened.
Inv ==
  /\ Types
  /\ incoming_connecting_address_set_ \subseteq Callers
  /\ Contents(tasks, hci, air, outgoing_entry_, on_remote_name_complete_)
  /\ Requests(tasks, hci, air, pending_outgoing_operations_, told, Asked)
  /\ Calls(tasks, incoming_connecting_address_set_, air)

-----------------------------------------------------------------------------
(* Types *)

LEMMA BoundsAreNat == MaxRequests \in Nat
BY AclSchedulerAssumption DEF MaxRequests

LEMMA HandlerIs ==
  ASSUME NEW m \in Modules
  PROVE  HandlerOf(m) \in Handlers
BY DEF Handlers, Modules

LEMMA EntryFields ==
  ASSUME NEW entry \in Entries
  PROVE  /\ entry.id \in 0 .. MaxRequests /\ entry.address \in Addresses
         /\ entry.kind \in {"ACL", "RNR", "INCOMING"}
         /\ [entry EXCEPT !.id = 0] \in Entries
<1>1. CASE entry \in Requested
  BY <1>1, BoundsAreNat DEF Entries, Requested
<1>2. CASE entry \in Operation
  BY <1>2, BoundsAreNat DEF Entries, Operation
<1> QED BY <1>1, <1>2 DEF Entries

LEMMA QueueEntryIs ==
  ASSUME NEW entry \in QueueEntry
  PROVE  entry \in Entries /\ entry.id \in 1 .. MaxRequests
<1>1. entry \in Requested /\ entry.id \in 1 .. MaxRequests
  BY BoundsAreNat DEF QueueEntry, Requested, Addresses
<1> QED BY <1>1 DEF Entries

LEMMA ClosureIs ==
  ASSUME NEW m \in Modules, NEW run \in RunNames, NEW entry \in Entries,
         run = "Enqueue" => entry \in QueueEntry
  PROVE  IsClosure(Closure(m, run, entry))
<1>1. entry.id \in 0 .. MaxRequests
  BY EntryFields
<1> QED BY <1>1 DEF IsClosure, Closure, ClosureRecord

LEMMA CompletionIs ==
  ASSUME NEW m \in Modules, NEW run \in RunNames, NEW entry \in Entries,
         NEW success \in BOOLEAN, NEW by \in 0 .. MaxRequests, run # "Enqueue"
  PROVE  IsClosure(Completion(m, run, entry, success, by))
BY DEF IsClosure, Completion, ClosureRecord

LEMMA StartIs ==
  ASSUME NEW entry \in QueueEntry
  PROVE  IsClosure(Start(entry))
<1>1. IsClosure(Closure("acl", "actually_create_connection", entry))
  BY ClosureIs, QueueEntryIs DEF Modules, RunNames
<1>2. IsClosure(Closure("rnr", "actually_start_remote_name_request", entry))
  BY ClosureIs, QueueEntryIs DEF Modules, RunNames
<1> QED BY <1>1, <1>2 DEF Start

LEMMA PostTypes ==
  ASSUME NEW ts, IsTasks(ts), NEW t, IsClosure(t)
  PROVE  IsTasks(Post(ts, t))
<1> DEFINE k == HandlerOf(t.module)
<1>1. k \in Handlers /\ t \in ClosureRecord
  BY HandlerIs DEF IsClosure, ClosureRecord
<1>2. Post(ts, t) = [ts EXCEPT ![k] = Append(ts[k], t)]
  BY DEF Post
<1> HIDE DEF k
<1>3. Post(ts, t) \in [Handlers -> Seq(ClosureRecord)]
  BY <1>1, <1>2 DEF IsTasks
<1>4. ASSUME NEW h \in Handlers, NEW n \in 1 .. Len(Post(ts, t)[h])
      PROVE  IsClosure(Post(ts, t)[h][n])
  <2>1. CASE h = k
    <3>1. Post(ts, t)[h] = Append(ts[k], t) /\ ts[k] \in Seq(ClosureRecord)
      BY <1>1, <1>2, <2>1 DEF IsTasks
    <3>2. CASE n = Len(ts[k]) + 1
      BY <3>1, <3>2, <1>1
    <3>3. CASE n # Len(ts[k]) + 1
      <4>1. n \in 1 .. Len(ts[k]) /\ Post(ts, t)[h][n] = ts[k][n]
        BY <3>1, <3>3, <1>1
      <4> QED BY <4>1, <1>1 DEF IsTasks
    <3> QED BY <3>2, <3>3
  <2>2. CASE h # k
    <3>1. Post(ts, t)[h] = ts[h]
      BY <1>1, <1>2, <2>2 DEF IsTasks
    <3> QED BY <3>1, <1>4 DEF IsTasks
  <2> QED BY <2>1, <2>2
<1> QED BY <1>3, <1>4 DEF IsTasks

\* The closures once the first one of handler h has been taken.
Drop(ts, h) == [ts EXCEPT ![h] = Tail(ts[h])]

LEMMA RestIsDrop == \A m : Rest(m) = Drop(tasks, HandlerOf(m))
BY DEF Rest, Drop

LEMMA DropTypes ==
  ASSUME NEW ts, IsTasks(ts), NEW k \in Handlers, ts[k] # <<>>
  PROVE  IsTasks(Drop(ts, k)) /\ IsClosure(Head(ts[k]))
<1>1. ts[k] \in Seq(ClosureRecord) /\ Len(ts[k]) >= 1 /\ Head(ts[k]) = ts[k][1]
  BY DEF IsTasks
<1>2. IsClosure(Head(ts[k]))
  BY <1>1 DEF IsTasks
<1>3. Drop(ts, k) \in [Handlers -> Seq(ClosureRecord)]
  BY <1>1 DEF IsTasks, Drop
<1>4. ASSUME NEW h \in Handlers, NEW n \in 1 .. Len(Drop(ts, k)[h])
      PROVE  IsClosure(Drop(ts, k)[h][n])
  <2>1. CASE h = k
    <3>1. Drop(ts, k)[h] = Tail(ts[k])
      BY <2>1 DEF IsTasks, Drop
    <3>2. n + 1 \in 1 .. Len(ts[k]) /\ Drop(ts, k)[h][n] = ts[k][n + 1]
      BY <3>1, <1>1, <1>4
    <3> QED BY <3>2 DEF IsTasks
  <2>2. CASE h # k
    <3>1. Drop(ts, k)[h] = ts[h]
      BY <2>2 DEF IsTasks, Drop
    <3> QED BY <3>1, <1>4 DEF IsTasks
  <2> QED BY <2>1, <2>2
<1> QED BY <1>2, <1>3, <1>4 DEF IsTasks

LEMMA RunTypes ==
  ASSUME Types, NEW m \in Modules, NEW run, Runs(m, run)
  PROVE  /\ IsTasks(Rest(m)) /\ IsClosure(This(m))
         /\ This(m).module = m /\ This(m).run = run
         /\ This(m) \in ClosureRecord /\ This(m).entry \in Entries
         /\ This(m).by \in 0 .. MaxRequests /\ This(m).success \in BOOLEAN
         /\ fate = "alive" /\ counts' = counts
<1>1. IsTasks(tasks) /\ HandlerOf(m) \in Handlers /\ tasks[HandlerOf(m)] # <<>>
  BY HandlerIs DEF Types, Runs
<1>2. IsTasks(Rest(m)) /\ IsClosure(This(m))
  BY <1>1, DropTypes, RestIsDrop DEF This
<1> QED BY <1>2 DEF Runs, This, IsClosure, ClosureRecord

\* The part of Types that a step of the scheduler may disturb.
SchedulerTypes(outgoing, queue, incoming, ts) ==
  /\ outgoing \in QueueEntry \cup {NoEntry}
  /\ queue \in Seq(QueueEntry)
  /\ incoming \subseteq Addresses
  /\ IsTasks(ts)

LEMMA DequeueTypes ==
  ASSUME NEW queue, NEW outgoing, NEW incoming, NEW waiting,
         SchedulerTypes(outgoing, queue, incoming, waiting),
         try_dequeue_next_operation(queue, outgoing, incoming, waiting)
  PROVE  SchedulerTypes(outgoing_entry_', pending_outgoing_operations_',
                        incoming_connecting_address_set_', tasks')
<1>1. CASE ready_to_send_next_operation(queue, outgoing, incoming)
  <2>1. queue # <<>> /\ queue \in Seq(QueueEntry)
    BY <1>1 DEF ready_to_send_next_operation, SchedulerTypes
  <2>2. Head(queue) \in QueueEntry /\ Tail(queue) \in Seq(QueueEntry)
    BY <2>1
  <2>3. IsTasks(Post(waiting, Start(Head(queue))))
    BY <2>2, StartIs, PostTypes DEF SchedulerTypes
  <2> QED BY <1>1, <2>2, <2>3 DEF try_dequeue_next_operation, SchedulerTypes
<1>2. CASE ~ready_to_send_next_operation(queue, outgoing, incoming)
  BY <1>2 DEF try_dequeue_next_operation, SchedulerTypes
<1> QED BY <1>1, <1>2

\* The rest of Types.
OtherTypes ==
  /\ pending_ \in BOOLEAN
  /\ on_remote_name_complete_ \in 0 .. MaxRequests
  /\ connections \subseteq Addresses
  /\ hci \in Seq(CommandRecord)
  /\ air \subseteq Operation
  /\ fate \in {"alive", "pending_ == false", "pending_ == true", "No prior connection request"}
  /\ told \in [1 .. MaxRequests -> Seq(0 .. MaxRequests)]
  /\ counts \in Counts

LEMMA TypesParts ==
  /\ Types <=> /\ SchedulerTypes(outgoing_entry_, pending_outgoing_operations_,
                                 incoming_connecting_address_set_, tasks)
               /\ OtherTypes
  /\ Types' <=> /\ SchedulerTypes(outgoing_entry_', pending_outgoing_operations_',
                                  incoming_connecting_address_set_', tasks')
                /\ OtherTypes'
BY DEF Types, SchedulerTypes, OtherTypes

LEMMA OthersKept ==
  ASSUME Types, UNCHANGED <<names, connections, radio, fate, told>>, UNCHANGED counts
  PROVE  OtherTypes'
BY DEF Types, OtherTypes, names, radio

LEMMA TellTypes ==
  ASSUME Types, NEW id, NEW by \in 0 .. MaxRequests, Tell(id, by)
  PROVE  told' \in [1 .. MaxRequests -> Seq(0 .. MaxRequests)]
<1>1. told \in [1 .. MaxRequests -> Seq(0 .. MaxRequests)]
  BY DEF Types
<1>2. told' = [told EXCEPT ![id] = Append(told[id], by)]
  BY DEF Tell
<1>3. CASE id \in 1 .. MaxRequests
  <2>1. Append(told[id], by) \in Seq(0 .. MaxRequests)
    BY <1>1, <1>3
  <2> QED BY <1>1, <1>2, <1>3, <2>1
<1>4. CASE id \notin 1 .. MaxRequests
  <2>1. [told EXCEPT ![id] = Append(told[id], by)] = told
    BY <1>1, <1>4, Zenon
  <2> QED BY <2>1, <1>1, <1>2
<1> QED BY <1>3, <1>4

LEMMA EnqueueTypes ==
  ASSUME Types, Enqueue
  PROVE  Types'
<1>1. Runs("scheduler", "Enqueue") /\ "scheduler" \in Modules
  BY DEF Enqueue, Modules
<1>2. /\ IsClosure(This("scheduler")) /\ This("scheduler").run = "Enqueue"
      /\ IsTasks(Rest("scheduler")) /\ counts' = counts
  BY <1>1, RunTypes
<1>3. SchedulerTypes(outgoing_entry_,
        Append(pending_outgoing_operations_, This("scheduler").entry),
        incoming_connecting_address_set_, Rest("scheduler"))
  <2>1. This("scheduler").entry \in QueueEntry /\ pending_outgoing_operations_ \in Seq(QueueEntry)
    BY <1>2 DEF IsClosure, Types
  <2>2. Append(pending_outgoing_operations_, This("scheduler").entry) \in Seq(QueueEntry)
    BY <2>1
  <2> QED BY <1>2, <2>2 DEF Types, SchedulerTypes
<1>4. SchedulerTypes(outgoing_entry_', pending_outgoing_operations_',
                     incoming_connecting_address_set_', tasks')
  BY <1>3, DequeueTypes DEF Enqueue
<1> QED BY <1>2, <1>4, OthersKept, TypesParts DEF Enqueue

LEMMA RegisterTypes ==
  ASSUME Types, RegisterPendingIncomingConnection
  PROVE  Types'
<1>1. Runs("scheduler", "RegisterPendingIncomingConnection") /\ "scheduler" \in Modules
  BY DEF RegisterPendingIncomingConnection, Modules
<1>2. This("scheduler").entry.address \in Addresses /\ IsTasks(Rest("scheduler")) /\ counts' = counts
  BY <1>1, RunTypes, EntryFields
<1>3. SchedulerTypes(outgoing_entry_', pending_outgoing_operations_',
                     incoming_connecting_address_set_', tasks')
  BY <1>2 DEF Types, SchedulerTypes, RegisterPendingIncomingConnection
<1> QED BY <1>2, <1>3, OthersKept, TypesParts DEF RegisterPendingIncomingConnection

LEMMA ReportAclTypes ==
  ASSUME Types, ReportAclConnectionCompletion
  PROVE  Types'
<1> DEFINE t == This("scheduler")
           op == t.entry
           incoming == incoming_connecting_address_set_
           Answer(run, entry) == Completion("acl", run, entry, t.success, op.id)
           Answered(run, entry) == Post(Rest("scheduler"), Answer(run, entry))
<1>1. Runs("scheduler", "ReportAclConnectionCompletion") /\ "scheduler" \in Modules
       /\ "acl" \in Modules
  BY DEF ReportAclConnectionCompletion, Modules
<1>2. /\ op \in Entries /\ t.success \in BOOLEAN /\ IsTasks(Rest("scheduler"))
      /\ op.id \in 0 .. MaxRequests /\ [op EXCEPT !.id = 0] \in Entries /\ counts' = counts
  BY <1>1, RunTypes, EntryFields
<1> SUFFICES SchedulerTypes(outgoing_entry_', pending_outgoing_operations_',
                            incoming_connecting_address_set_', tasks')
  BY <1>2, OthersKept, TypesParts DEF ReportAclConnectionCompletion
<1>3. ASSUME NEW run \in {"create_and_announce_connection", "handle_unknown_connection"},
             NEW entry \in Entries
      PROVE  IsTasks(Answered(run, entry))
  <2>1. run \in RunNames /\ run # "Enqueue"
    BY DEF RunNames
  <2>2. IsClosure(Answer(run, entry))
    BY <2>1, <1>1, <1>2, CompletionIs
  <2> QED BY <2>2, <1>2, PostTypes
<1>4. CASE /\ outgoing_entry_.kind = "ACL" /\ outgoing_entry_.address = op.address
           /\ try_dequeue_next_operation(pending_outgoing_operations_, NoEntry,
                IF FixInAndOut THEN incoming \ {op.address} ELSE incoming,
                Answered("create_and_announce_connection", outgoing_entry_))
  <2>1. outgoing_entry_ \in Entries
    <3>1. outgoing_entry_ # NoEntry
      BY <1>4 DEF NoEntry
    <3> QED BY <3>1, QueueEntryIs DEF Types
  <2>2. IsTasks(Answered("create_and_announce_connection", outgoing_entry_))
    BY <2>1, <1>3
  <2> DEFINE left == IF FixInAndOut THEN incoming \ {op.address} ELSE incoming
             waiting == Answered("create_and_announce_connection", outgoing_entry_)
  <2>3. SchedulerTypes(NoEntry, pending_outgoing_operations_, left, waiting)
    BY <2>2 DEF Types, SchedulerTypes
  <2>4. try_dequeue_next_operation(pending_outgoing_operations_, NoEntry, left, waiting)
    BY <1>4
  <2> HIDE DEF left, waiting
  <2> QED BY <2>3, <2>4, DequeueTypes
<1>5. CASE /\ try_dequeue_next_operation(pending_outgoing_operations_, outgoing_entry_,
                incoming \ {op.address},
                Answered("create_and_announce_connection", [op EXCEPT !.id = 0]))
  <2>1. IsTasks(Answered("create_and_announce_connection", [op EXCEPT !.id = 0]))
    BY <1>2, <1>3
  <2> DEFINE left == incoming \ {op.address}
             waiting == Answered("create_and_announce_connection", [op EXCEPT !.id = 0])
  <2>2. SchedulerTypes(outgoing_entry_, pending_outgoing_operations_, left, waiting)
    BY <2>1 DEF Types, SchedulerTypes
  <2>3. try_dequeue_next_operation(pending_outgoing_operations_, outgoing_entry_, left, waiting)
    BY <1>5
  <2> HIDE DEF left, waiting
  <2> QED BY <2>2, <2>3, DequeueTypes
<1>6. CASE /\ try_dequeue_next_operation(pending_outgoing_operations_, outgoing_entry_,
                incoming, Answered("handle_unknown_connection", op))
  <2>1. IsTasks(Answered("handle_unknown_connection", op))
    BY <1>2, <1>3
  <2> DEFINE waiting == Answered("handle_unknown_connection", op)
  <2>2. SchedulerTypes(outgoing_entry_, pending_outgoing_operations_, incoming, waiting)
    BY <2>1 DEF Types, SchedulerTypes
  <2>3. try_dequeue_next_operation(pending_outgoing_operations_, outgoing_entry_, incoming, waiting)
    BY <1>6
  <2> HIDE DEF waiting
  <2> QED BY <2>2, <2>3, DequeueTypes
<1> QED BY <1>4, <1>5, <1>6 DEF ReportAclConnectionCompletion

LEMMA EndTypes ==
  ASSUME Types, NEW run, Runs("scheduler", run), NEW expected, EndOutgoing(expected)
  PROVE  Types'
<1>1. IsTasks(Rest("scheduler")) /\ counts' = counts
  BY RunTypes DEF Modules
<1>2. /\ SchedulerTypes(NoEntry, pending_outgoing_operations_,
           incoming_connecting_address_set_, Rest("scheduler"))
      /\ SchedulerTypes(outgoing_entry_, pending_outgoing_operations_,
           incoming_connecting_address_set_, Rest("scheduler"))
  BY <1>1 DEF Types, SchedulerTypes
<1>3. SchedulerTypes(outgoing_entry_', pending_outgoing_operations_',
                     incoming_connecting_address_set_', tasks')
  <2>1. CASE expected
    BY <2>1, <1>2, DequeueTypes DEF EndOutgoing
  <2>2. CASE ~expected
    BY <2>2, <1>2 DEF EndOutgoing, scheduler
  <2> QED BY <2>1, <2>2
<1> QED BY <1>1, <1>3, OthersKept, TypesParts DEF EndOutgoing

\* A nonempty set of numbers has a least one.
LEMMA LeastOf ==
  ASSUME NEW S \in SUBSET Nat, S # {}
  PROVE  \E n \in S : \A m \in S : n <= m
<1>1. PICK n \in S : \A m \in Nat : <<m, n>> \in OpToRel(<, Nat) => m \notin S
  BY NatLessThanWellFounded, WFMin
<1>2. ASSUME NEW m \in S, m < n
      PROVE  FALSE
  BY <1>1, <1>2 DEF OpToRel
<1> QED BY <1>2

LEMMA RemoveAtTypes ==
  ASSUME NEW S, NEW s \in Seq(S), NEW n \in 1 .. Len(s)
  PROVE  /\ RemoveAt(s, n) \in Seq(S)
         /\ Len(RemoveAt(s, n)) = Len(s) - 1
         /\ \A i \in 1 .. Len(s) - 1 : RemoveAt(s, n)[i] = IF i < n THEN s[i] ELSE s[i + 1]
<1> DEFINE a == SubSeq(s, 1, n - 1)
           b == SubSeq(s, n + 1, Len(s))
<1>1. a \in Seq(S) /\ Len(a) = n - 1 /\ \A i \in 1 .. n - 1 : a[i] = s[i]
  OBVIOUS
<1>2. b \in Seq(S) /\ Len(b) = Len(s) - n /\ \A i \in 1 .. Len(s) - n : b[i] = s[i + n]
  OBVIOUS
<1>3. RemoveAt(s, n) = a \o b
  BY DEF RemoveAt
<1> HIDE DEF a, b
<1>4. RemoveAt(s, n) \in Seq(S) /\ Len(RemoveAt(s, n)) = Len(s) - 1
  BY <1>1, <1>2, <1>3
<1>5. ASSUME NEW i \in 1 .. Len(s) - 1, i < n
      PROVE  RemoveAt(s, n)[i] = s[i]
  <2>1. i \in 1 .. Len(a)
    BY <1>1, <1>5
  <2> QED BY <1>1, <1>2, <1>3, <2>1
<1>6. ASSUME NEW i \in 1 .. Len(s) - 1, ~(i < n)
      PROVE  RemoveAt(s, n)[i] = s[i + 1]
  <2>1. i - (n - 1) \in 1 .. Len(s) - n /\ (i - (n - 1)) + n = i + 1
    BY <1>6
  <2>2. RemoveAt(s, n)[i] = b[i - (n - 1)]
    BY <1>1, <1>2, <1>3, <1>6
  <2> QED BY <1>2, <2>1, <2>2
<1> QED BY <1>4, <1>5, <1>6

LEMMA CancelTypes ==
  ASSUME Types, NEW run, Runs("scheduler", run), NEW kind, NEW address, NEW cancel,
         IsClosure(cancel),
         cancel_outgoing_or_queued_connection(kind, address, cancel),
         UNCHANGED <<outgoing_entry_, incoming_connecting_address_set_, names, connections,
                     radio, fate>>
  PROVE  Types'
<1> DEFINE queue == pending_outgoing_operations_
           Matches(entry) == entry.kind = kind /\ entry.address = address
           found == {n \in DOMAIN queue : Matches(queue[n])}
           first == CHOOSE n \in found : \A m \in found : n <= m
<1>1. IsTasks(Rest("scheduler")) /\ counts' = counts
  BY RunTypes DEF Modules
<1>2. IsTasks(Post(Rest("scheduler"), cancel))
  BY <1>1, PostTypes
<1>3. CASE UNCHANGED <<pending_outgoing_operations_, told>>
            /\ tasks' \in {Post(Rest("scheduler"), cancel), Rest("scheduler")}
  BY <1>1, <1>2, <1>3 DEF Types, names, radio
<1>4. CASE /\ found # {}
           /\ Tell(queue[first].id, queue[first].id)
           /\ pending_outgoing_operations_' = WithoutQueued(first)
           /\ tasks' = Rest("scheduler")
  <2>1. queue \in Seq(QueueEntry) /\ DOMAIN queue = 1 .. Len(queue)
        /\ found \subseteq 1 .. Len(queue) /\ found \in SUBSET Nat
    <3>1. queue \in Seq(QueueEntry)
      BY DEF Types
    <3>2. DOMAIN queue = 1 .. Len(queue)
      BY <3>1
    <3> QED BY <3>1, <3>2
  <2>2. first \in found
    <3> HIDE DEF found
    <3>1. \E n \in found : \A m \in found : n <= m
      BY <2>1, <1>4, LeastOf
    <3> QED BY <3>1
  <2>3. queue[first] \in QueueEntry /\ first \in 1 .. Len(queue)
    BY <2>1, <2>2
  <2> HIDE DEF first
  <2>4. queue[first].id \in 0 .. MaxRequests
    BY <2>3, QueueEntryIs, BoundsAreNat
  <2>5. told' \in [1 .. MaxRequests -> Seq(0 .. MaxRequests)]
    BY <2>4, <1>4, TellTypes
  <2>6. pending_outgoing_operations_' \in Seq(QueueEntry)
    BY <2>1, <2>3, <1>4, RemoveAtTypes DEF WithoutQueued
  <2> QED BY <2>5, <2>6, <1>1, <1>4 DEF Types, names, radio
<1> QED BY <1>3, <1>4 DEF cancel_outgoing_or_queued_connection

LEMMA CancelsTypes ==
  ASSUME Types, CancelAclConnection \/ CancelRemoteNameRequest
  PROVE  Types'
<1>1. CASE CancelAclConnection
  <2>1. Runs("scheduler", "CancelAclConnection") /\ "scheduler" \in Modules /\ "acl" \in Modules
    BY <1>1 DEF CancelAclConnection, Modules
  <2>2. This("scheduler").entry \in Entries
    BY <2>1, RunTypes
  <2>3. IsClosure(Closure("acl", "actually_cancel_connect", This("scheduler").entry))
    BY <2>1, <2>2, ClosureIs DEF RunNames
  <2> QED BY <1>1, <2>1, <2>3, CancelTypes DEF CancelAclConnection
<1>2. CASE CancelRemoteNameRequest
  <2>1. Runs("scheduler", "CancelRemoteNameRequest") /\ "scheduler" \in Modules /\ "rnr" \in Modules
    BY <1>2 DEF CancelRemoteNameRequest, Modules
  <2>2. This("scheduler").entry \in Entries
    BY <2>1, RunTypes
  <2>3. IsClosure(Closure("rnr", "actually_cancel_remote_name_request", This("scheduler").entry))
    BY <2>1, <2>2, ClosureIs DEF RunNames
  <2> QED BY <1>2, <2>1, <2>3, CancelTypes DEF CancelRemoteNameRequest
<1> QED BY <1>1, <1>2

LEMMA SchedulerStepTypes ==
  ASSUME Types, SchedulerStep
  PROVE  Types'
<1>1. CASE ReportOutgoingAclConnectionFailure
  BY <1>1, EndTypes DEF ReportOutgoingAclConnectionFailure
<1>2. CASE ReportRemoteNameRequestCompletion
  BY <1>2, EndTypes DEF ReportRemoteNameRequestCompletion
<1> QED BY <1>1, <1>2, EnqueueTypes, RegisterTypes, ReportAclTypes, CancelsTypes
        DEF SchedulerStep

LEMMA CommandIs ==
  ASSUME Types, NEW op \in CommandNames, NEW entry \in Entries
  PROVE  Append(hci, Command(op, entry)) \in Seq(CommandRecord)
<1>1. Command(op, entry) \in CommandRecord
  BY DEF Command, CommandRecord
<1>2. hci \in Seq(CommandRecord)
  BY DEF Types
<1> QED BY <1>1, <1>2

\* A closure of classic_impl or of the name requests leaves the scheduler's members alone.
LEMMA ClassicStepTypes ==
  ASSUME Types, ClassicStep
  PROVE  Types'
<1> DEFINE t == This("acl")
<1>1. ASSUME NEW run, Runs("acl", run)
      PROVE  /\ IsTasks(Rest("acl")) /\ t \in ClosureRecord /\ t.entry \in Entries
             /\ t.by \in 0 .. MaxRequests /\ t.success \in BOOLEAN /\ fate = "alive"
             /\ t.entry.id \in 0 .. MaxRequests /\ t.entry.address \in Addresses
             /\ counts' = counts /\ t.run = run
  <2>1. "acl" \in Modules
    BY DEF Modules
  <2> QED BY <1>1, <2>1, RunTypes, EntryFields
<1>2. ASSUME IsTasks(Rest("acl")), t.entry \in Entries, NEW run \in RunNames, run # "Enqueue"
      PROVE  IsTasks(Post(Rest("acl"), Closure("scheduler", run, t.entry)))
  <2>1. IsClosure(Closure("scheduler", run, t.entry))
    BY <1>2, ClosureIs DEF Modules
  <2> QED BY <1>2, <2>1, PostTypes
<1>3. ASSUME IsTasks(Rest("acl")), t \in ClosureRecord, NEW m \in Modules, NEW run \in RunNames,
             run # "Enqueue"
      PROVE  IsTasks(Post(Rest("acl"), [t EXCEPT !.module = m, !.run = run]))
  <2>1. IsClosure([t EXCEPT !.module = m, !.run = run])
    BY <1>3 DEF IsClosure, ClosureRecord
  <2> QED BY <1>3, <2>1, PostTypes
<1>4. CASE actually_create_connection
  <2>1. Runs("acl", "actually_create_connection")
    BY <1>4 DEF actually_create_connection
  <2>2. IsTasks(Post(Rest("acl"), Closure("scheduler", "ReportOutgoingAclConnectionFailure", t.entry)))
    BY <2>1, <1>1, <1>2 DEF RunNames
  <2>3. Append(hci, Command("CREATE_CONNECTION", t.entry)) \in Seq(CommandRecord)
    BY <2>1, <1>1, CommandIs DEF CommandNames
  <2>4. tasks' \in {Rest("acl"), Post(Rest("acl"), Closure("scheduler", "ReportOutgoingAclConnectionFailure", t.entry))}
        /\ hci' \in {hci, Append(hci, Command("CREATE_CONNECTION", t.entry))}
    BY <1>4 DEF actually_create_connection
  <2>5. IsTasks(tasks') /\ hci' \in Seq(CommandRecord) /\ counts' = counts
    BY <2>1, <2>2, <2>3, <2>4, <1>1 DEF Types
  <2> QED BY <1>4, <2>5 DEF actually_create_connection, Types, scheduler, names
<1>5. CASE on_create_connection_status
  <2>1. Runs("acl", "on_create_connection_status")
    BY <1>5 DEF on_create_connection_status
  <2>2. IsTasks(Post(Rest("acl"), Closure("scheduler", "ReportOutgoingAclConnectionFailure", t.entry)))
    BY <2>1, <1>1, <1>2 DEF RunNames
  <2>3. IsTasks(tasks') /\ counts' = counts
    BY <1>5, <2>1, <2>2, <1>1 DEF on_create_connection_status
  <2>4. told' \in [1 .. MaxRequests -> Seq(0 .. MaxRequests)]
    <3>1. CASE UNCHANGED told
      BY <3>1 DEF Types
    <3>2. CASE Tell(t.entry.id, t.by)
      BY <3>2, <2>1, <1>1, TellTypes
    <3> QED BY <3>1, <3>2, <1>5 DEF on_create_connection_status
  <2> QED BY <1>5, <2>3, <2>4 DEF on_create_connection_status, Types, scheduler, names, radio
<1>6. CASE on_connection_complete
  <2>1. Runs("acl", "on_connection_complete")
    BY <1>6 DEF on_connection_complete
  <2>2. "scheduler" \in Modules /\ "ReportAclConnectionCompletion" \in RunNames
    BY DEF Modules, RunNames
  <2>3. tasks' = Post(Rest("acl"), [t EXCEPT !.module = "scheduler",
                                            !.run = "ReportAclConnectionCompletion"])
    BY <1>6 DEF on_connection_complete
  <2>4. IsTasks(tasks') /\ counts' = counts
    BY <2>1, <2>2, <2>3, <1>1, <1>3
  <2> QED BY <1>6, <2>4 DEF on_connection_complete, Types, scheduler, names, radio
<1>7. CASE create_and_announce_connection
  <2>1. Runs("acl", "create_and_announce_connection")
    BY <1>7 DEF create_and_announce_connection
  <2>2. told' \in [1 .. MaxRequests -> Seq(0 .. MaxRequests)]
    <3>1. CASE UNCHANGED told
      BY <3>1 DEF Types
    <3>2. CASE Tell(t.entry.id, t.by)
      BY <3>2, <2>1, <1>1, TellTypes
    <3> QED BY <3>1, <3>2, <1>7 DEF create_and_announce_connection
  <2>3. IsTasks(tasks') /\ connections' \subseteq Addresses /\ counts' = counts
    BY <1>7, <2>1, <1>1 DEF create_and_announce_connection, Types
  <2> QED BY <1>7, <2>2, <2>3 DEF create_and_announce_connection, Types, scheduler, names, radio
<1>8. CASE handle_unknown_connection
  <2>1. Runs("acl", "handle_unknown_connection")
    BY <1>8 DEF handle_unknown_connection
  <2> DEFINE passed == [t EXCEPT !.module = "rnr", !.run = "ReportRemoteNameRequestCancellation"]
  <2>2. IsTasks(Post(Rest("acl"), passed))
    BY <2>1, <1>1, <1>3 DEF RunNames, Modules
  <2>3. tasks' \in {Rest("acl"), Post(Rest("acl"), passed)}
        /\ fate' \in {fate, "No prior connection request"}
    BY <1>8 DEF handle_unknown_connection
  <2> HIDE DEF passed
  <2>4. IsTasks(tasks') /\ counts' = counts
    BY <2>1, <2>2, <2>3, <1>1
  <2> QED BY <1>8, <2>3, <2>4 DEF handle_unknown_connection, Types, scheduler, names, radio
<1>9. CASE on_incoming_connection
  <2>1. Runs("acl", "on_incoming_connection")
    BY <1>9 DEF on_incoming_connection
  <2>2. IsTasks(tasks') /\ counts' = counts
    <3>1. tasks' = Post(Rest("acl"),
                        Closure("scheduler", "RegisterPendingIncomingConnection", t.entry))
      BY <1>9 DEF on_incoming_connection
    <3>2. "RegisterPendingIncomingConnection" \in RunNames
      BY DEF RunNames
    <3> QED BY <2>1, <3>1, <3>2, <1>1, <1>2
  <2>3. PICK answer \in {"ACCEPT", "REJECT"} : hci' = Append(hci, Command(answer, t.entry))
    BY <1>9 DEF on_incoming_connection
  <2>4. hci' \in Seq(CommandRecord)
    BY <2>1, <2>3, <1>1, CommandIs DEF CommandNames
  <2> QED BY <1>9, <2>2, <2>4 DEF on_incoming_connection, Types, scheduler, names
<1>10. CASE on_accept_connection_status
  <2>1. Runs("acl", "on_accept_connection_status")
    BY <1>10 DEF on_accept_connection_status
  <2>2. IsTasks(Post(Rest("acl"), Closure("scheduler", "CancelAclConnection", t.entry)))
    BY <2>1, <1>1, <1>2 DEF RunNames
  <2>3. IsTasks(tasks') /\ counts' = counts
    BY <1>10, <2>1, <2>2, <1>1 DEF on_accept_connection_status
  <2> QED BY <1>10, <2>3 DEF on_accept_connection_status, Types, scheduler, names, radio
<1>11. CASE actually_cancel_connect
  <2>1. Runs("acl", "actually_cancel_connect")
    BY <1>11 DEF actually_cancel_connect
  <2>2. hci' \in Seq(CommandRecord) /\ IsTasks(tasks') /\ counts' = counts
    BY <1>11, <2>1, <1>1, CommandIs DEF actually_cancel_connect, CommandNames
  <2> QED BY <1>11, <2>2 DEF actually_cancel_connect, Types, scheduler, names
<1> QED BY <1>4, <1>5, <1>6, <1>7, <1>8, <1>9, <1>10, <1>11 DEF ClassicStep

LEMMA CompletedTypes ==
  ASSUME Types, NEW run, Runs("rnr", run), completed
  PROVE  /\ IsTasks(tasks') /\ pending_' \in BOOLEAN
         /\ told' \in [1 .. MaxRequests -> Seq(0 .. MaxRequests)]
         /\ on_remote_name_complete_' = on_remote_name_complete_
<1> DEFINE t == This("rnr")
           reported == Closure("scheduler", "ReportRemoteNameRequestCompletion", t.entry)
<1>1. IsTasks(Rest("rnr")) /\ t.entry \in Entries /\ t.by \in 0 .. MaxRequests
  BY RunTypes DEF Modules
<1>2. IsClosure(reported)
  BY <1>1, ClosureIs DEF Modules, RunNames
<1>3. IsTasks(Post(Rest("rnr"), reported))
  BY <1>1, <1>2, PostTypes
<1>4. CASE pending_
  <2>1. Tell(on_remote_name_complete_, t.by)
    BY <1>4 DEF completed
  <2> QED BY <1>1, <1>3, <1>4, <2>1, TellTypes DEF completed
<1>5. CASE ~pending_
  BY <1>1, <1>5 DEF completed, names, Types
<1> QED BY <1>4, <1>5

LEMMA NameStepTypes ==
  ASSUME Types, NameStep
  PROVE  Types'
<1> DEFINE t == This("rnr")
<1>1. ASSUME NEW run, Runs("rnr", run)
      PROVE  /\ IsTasks(Rest("rnr")) /\ t.entry \in Entries
             /\ t.by \in 0 .. MaxRequests /\ t.success \in BOOLEAN /\ fate = "alive"
             /\ t.entry.id \in 0 .. MaxRequests
             /\ counts' = counts
  <2>1. "rnr" \in Modules
    BY DEF Modules
  <2> QED BY <1>1, <2>1, RunTypes, EntryFields
<1>2. CASE actually_start_remote_name_request
  <2>1. Runs("rnr", "actually_start_remote_name_request")
    BY <1>2 DEF actually_start_remote_name_request
  <2>2. hci' \in Seq(CommandRecord) /\ IsTasks(tasks') /\ counts' = counts
        /\ on_remote_name_complete_' \in 0 .. MaxRequests
    BY <1>2, <2>1, <1>1, CommandIs DEF actually_start_remote_name_request, CommandNames
  <2> QED BY <1>2, <2>2 DEF actually_start_remote_name_request, Types, scheduler
<1>3. CASE on_start_remote_name_request_status
  <2>1. Runs("rnr", "on_start_remote_name_request_status")
    BY <1>3 DEF on_start_remote_name_request_status
  <2> DEFINE reported == Closure("scheduler", "ReportRemoteNameRequestCompletion", t.entry)
  <2>2. IsClosure(reported)
    BY <2>1, <1>1, ClosureIs DEF Modules, RunNames
  <2>3. IsTasks(Post(Rest("rnr"), reported))
    BY <2>1, <2>2, <1>1, PostTypes
  <2>4. IsTasks(tasks') /\ counts' = counts /\ pending_' \in BOOLEAN
    BY <1>3, <2>1, <2>3, <1>1 DEF on_start_remote_name_request_status, Types
  <2>5. told' \in [1 .. MaxRequests -> Seq(0 .. MaxRequests)]
    <3>1. CASE UNCHANGED told
      BY <3>1 DEF Types
    <3>2. CASE Tell(t.entry.id, t.by)
      BY <3>2, <2>1, <1>1, TellTypes
    <3> QED BY <3>1, <3>2, <1>3 DEF on_start_remote_name_request_status
  <2> QED BY <1>3, <2>4, <2>5 DEF on_start_remote_name_request_status, Types, scheduler, radio
<1>4. CASE actually_cancel_remote_name_request
  <2>1. Runs("rnr", "actually_cancel_remote_name_request")
    BY <1>4 DEF actually_cancel_remote_name_request
  <2>2. Append(hci, Command("REMOTE_NAME_REQUEST_CANCEL", t.entry)) \in Seq(CommandRecord)
    BY <2>1, <1>1, CommandIs DEF CommandNames
  <2>3. hci' \in Seq(CommandRecord) /\ IsTasks(tasks') /\ counts' = counts
    BY <1>4, <2>1, <2>2, <1>1 DEF actually_cancel_remote_name_request, Types
  <2> QED BY <1>4, <2>3 DEF actually_cancel_remote_name_request, Types, scheduler, names
<1>5. ASSUME NEW run, Runs("rnr", run),
             completed \/ (tasks' = Rest("rnr") /\ UNCHANGED <<names, told>>),
             UNCHANGED <<scheduler, connections, radio, fate>>
      PROVE  Types'
  <2>1. /\ IsTasks(tasks') /\ pending_' \in BOOLEAN
        /\ told' \in [1 .. MaxRequests -> Seq(0 .. MaxRequests)]
        /\ on_remote_name_complete_' = on_remote_name_complete_
    BY <1>5, <1>1, CompletedTypes DEF names, Types
  <2> QED BY <1>5, <1>1, <2>1 DEF Types, scheduler, radio
<1>6. CASE on_remote_name_request_complete
  BY <1>6, <1>5 DEF on_remote_name_request_complete
<1>7. CASE ReportRemoteNameRequestCancellation
  BY <1>7, <1>5 DEF ReportRemoteNameRequestCancellation
<1>8. CASE check_cancel_status
  BY <1>8, <1>5 DEF check_cancel_status
<1> QED BY <1>2, <1>3, <1>4, <1>6, <1>7, <1>8 DEF NameStep

LEMMA BecomesTypes ==
  ASSUME Types, NEW ops \in SUBSET air,
         NEW state \in {"asked", "going", "cancelled", "rejected", "link"}
  PROVE  Becomes(ops, state) \subseteq Operation
<1>1. ASSUME NEW op \in ops
      PROVE  [op EXCEPT !.state = state] \in Operation
  <2>1. op \in Operation
    BY DEF Types
  <2> QED BY <2>1 DEF Operation
<1> QED BY <1>1 DEF Types, Becomes

LEMMA AnswersTypes ==
  ASSUME Types, NEW op, NEW waiting, Answers(op, waiting), IsTasks(waiting),
         air' \subseteq Operation
  PROVE  Types'
<1>1. hci' \in Seq(CommandRecord)
  BY DEF Answers, Types
<1> QED BY <1>1 DEF Answers, Types, scheduler, names

LEMMA HeadEntry ==
  ASSUME Types, hci # <<>>
  PROVE  Head(hci).entry \in Entries
<1>1. hci \in Seq(CommandRecord)
  BY DEF Types
<1>2. Head(hci) \in CommandRecord
  BY <1>1
<1> QED BY <1>2 DEF CommandRecord

LEMMA PostAnswer ==
  ASSUME Types, NEW m \in Modules, NEW run \in RunNames, NEW entry \in Entries,
         NEW success \in BOOLEAN, NEW by \in 0 .. MaxRequests, run # "Enqueue"
  PROVE  IsTasks(Post(tasks, Completion(m, run, entry, success, by)))
<1>1. IsClosure(Completion(m, run, entry, success, by)) /\ IsTasks(tasks)
  BY CompletionIs DEF Types
<1> QED BY <1>1, PostTypes

LEMMA ControllerTypes ==
  ASSUME Types, ControllerAnswers
  PROVE  Types'
<1> DEFINE entry == Head(hci).entry
<1> USE BoundsAreNat
<1>1. ASSUME NEW op, NEW m \in {"acl", "rnr"},
             NEW run \in {"on_create_connection_status", "on_start_remote_name_request_status"},
             StartsPaging(op, m, run)
      PROVE  Types'
  <2>1. entry \in Entries /\ m \in Modules /\ run \in RunNames /\ run # "Enqueue"
    BY <1>1, HeadEntry DEF StartsPaging, Modules, RunNames
  <2>2. PICK success \in BOOLEAN :
          /\ Answers(op, Post(tasks, Completion(m, run, entry, success, entry.id)))
          /\ air' = IF success THEN air \cup {Going(entry)} ELSE air
    BY <1>1 DEF StartsPaging
  <2>3. entry.id \in 0 .. MaxRequests /\ Going(entry) \in Operation
    BY <2>1, EntryFields DEF Going, Operation
  <2> HIDE DEF entry
  <2>4. IsTasks(Post(tasks, Completion(m, run, entry, success, entry.id)))
    BY <2>1, <2>3, PostAnswer
  <2>5. air' \subseteq Operation
    BY <2>2, <2>3 DEF Types
  <2> QED BY <2>2, <2>4, <2>5, AnswersTypes
<1>2. CASE ControllerCreateConnectionCancel
  BY <1>2, AnswersTypes DEF ControllerCreateConnectionCancel, Types
<1>3. CASE ControllerRemoteNameRequestCancel
  <2> DEFINE ops == Doing("RNR", entry.address)
             success == ops # {}
             answer == Completion("rnr", "check_cancel_status", entry, success, 0)
  <2>1. entry \in Entries /\ ops \in SUBSET air /\ success \in BOOLEAN
    BY <1>3, HeadEntry DEF ControllerRemoteNameRequestCancel, Doing
  <2>2. Answers("REMOTE_NAME_REQUEST_CANCEL", Post(tasks, answer)) /\ air' = Becomes(ops, "cancelled")
    BY <1>3 DEF ControllerRemoteNameRequestCancel
  <2> HIDE DEF entry, ops, success
  <2>3. IsTasks(Post(tasks, answer))
    BY <2>1, PostAnswer DEF Modules, RunNames
  <2>4. air' \subseteq Operation
    BY <2>1, <2>2, BecomesTypes
  <2> QED BY <2>2, <2>3, <2>4, AnswersTypes
<1>4. CASE ControllerIncomingAnswered
  <2> DEFINE ops == Doing("INCOMING", entry.address)
             success == ops # {}
             answer == Completion("acl", "on_accept_connection_status", entry, success, 0)
  <2>1. entry \in Entries /\ ops \in SUBSET air /\ success \in BOOLEAN
    BY <1>4, HeadEntry DEF ControllerIncomingAnswered, Doing
  <2>2. \/ Answers("ACCEPT", Post(tasks, answer)) /\ air' = Becomes(ops, "going")
        \/ Answers("REJECT", tasks) /\ air' = Becomes(ops, "rejected")
    BY <1>4 DEF ControllerIncomingAnswered
  <2> HIDE DEF entry, ops, success
  <2>3. IsTasks(Post(tasks, answer)) /\ IsTasks(tasks)
    <3>1. IsTasks(Post(tasks, answer))
      BY <2>1, PostAnswer DEF Modules, RunNames
    <3> QED BY <3>1 DEF Types
  <2> HIDE DEF answer
  <2>4. air' \subseteq Operation
    BY <2>1, <2>2, BecomesTypes
  <2> QED BY <2>2, <2>3, <2>4, AnswersTypes
<1>5. CASE ControllerCreateConnection
  BY <1>5, <1>1 DEF ControllerCreateConnection
<1>6. CASE ControllerRemoteNameRequest
  BY <1>6, <1>1 DEF ControllerRemoteNameRequest
<1> QED BY <1>2, <1>3, <1>4, <1>5, <1>6 DEF ControllerAnswers

LEMMA EventTypes ==
  ASSUME Types, NEW m \in Modules, NEW run \in RunNames, run # "Enqueue", NEW op \in air,
         NEW success \in BOOLEAN, Event(m, run, op, success), air' \subseteq Operation
  PROVE  Types'
<1>1. op \in Entries
  BY DEF Types, Entries
<1>2. op.id \in 0 .. MaxRequests
  BY <1>1, EntryFields
<1>3. IsTasks(Post(tasks, Completion(m, run, op, success, op.id)))
  BY <1>1, <1>2, PostAnswer
<1> QED BY <1>3 DEF Event, Types, scheduler, names

LEMMA OperationEndsTypes ==
  ASSUME Types, NEW op \in air, OperationEnds(op)
  PROVE  Types'
<1>1. /\ "acl" \in Modules /\ "rnr" \in Modules
      /\ "on_connection_complete" \in RunNames /\ "on_remote_name_request_complete" \in RunNames
  BY DEF Modules, RunNames
<1>2. op \in Operation /\ [op EXCEPT !.state = "link"] \in Operation
  BY DEF Types, Operation
<1>3. CASE ConnectionSucceeds(op)
  <2>1. air' \subseteq Operation
    BY <1>2, <1>3 DEF ConnectionSucceeds, Types
  <2> QED BY <1>1, <1>3, <2>1, EventTypes DEF ConnectionSucceeds
<1>4. CASE ConnectionFails(op)
  <2>1. air' \subseteq Operation
    BY <1>4 DEF ConnectionFails, Types
  <2> QED BY <1>1, <1>4, <2>1, EventTypes DEF ConnectionFails
<1>5. CASE NameRequestEnds(op)
  <2>1. air' \subseteq Operation
    BY <1>5 DEF NameRequestEnds, Types
  <2> DEFINE success == op.state = "going"
  <2>2. success \in BOOLEAN
    OBVIOUS
  <2>3. \/ Event("rnr", "on_remote_name_request_complete", op, success)
        \/ Event("acl", "on_connection_complete", op, FALSE)
    BY <1>5 DEF NameRequestEnds
  <2> HIDE DEF success
  <2> QED BY <1>1, <2>1, <2>2, <2>3, EventTypes
<1> QED BY <1>3, <1>4, <1>5 DEF OperationEnds

LEMMA CountedTypes ==
  ASSUME Types, NEW what \in {"connects", "names", "cancels", "incoming"}, NEW bound,
         /\ what = "connects" => bound = MaxConnects
         /\ what = "names" => bound = MaxNames
         /\ what = "cancels" => bound = MaxCancels
         /\ what = "incoming" => bound = MaxIncoming,
         Counted(what, bound)
  PROVE  /\ counts' \in Counts /\ fate = "alive"
         /\ what \in {"connects", "names"} =>
              NextId \in 1 .. MaxRequests /\ Asked' = Asked + 1 /\ NextId = Asked'
         /\ what \notin {"connects", "names"} => Asked' = Asked
<1> USE AclSchedulerAssumption
<1>1. counts \in Counts /\ counts[what] < bound /\ counts' = [counts EXCEPT ![what] = counts[what] + 1]
  BY DEF Counted, Types
<1>2. CASE what = "connects"
  BY <1>1, <1>2 DEF Counts, NextId, Asked, MaxRequests, Counted
<1>3. CASE what = "names"
  BY <1>1, <1>3 DEF Counts, NextId, Asked, MaxRequests, Counted
<1>4. CASE what = "cancels"
  BY <1>1, <1>4 DEF Counts, NextId, Asked, MaxRequests, Counted
<1>5. CASE what = "incoming"
  BY <1>1, <1>5 DEF Counts, NextId, Asked, MaxRequests, Counted
<1> QED BY <1>2, <1>3, <1>4, <1>5

LEMMA RequestTypes ==
  ASSUME Types, NEW what \in {"connects", "names"}, NEW kind \in {"ACL", "RNR"}, NEW bound,
         /\ what = "connects" => bound = MaxConnects
         /\ what = "names" => bound = MaxNames,
         NEW address \in Peers, Request(what, kind, bound, address)
  PROVE  Types'
<1> DEFINE entry == [id |-> NextId, kind |-> kind, address |-> address]
<1>1. counts' \in Counts /\ NextId \in 1 .. MaxRequests
  BY CountedTypes DEF Request
<1>2. entry \in QueueEntry
  BY <1>1 DEF QueueEntry
<1>3. tasks' = Post(tasks, Closure("scheduler", "Enqueue", entry))
  BY DEF Request
<1> HIDE DEF entry
<1>4. IsClosure(Closure("scheduler", "Enqueue", entry))
  BY <1>2, QueueEntryIs, ClosureIs DEF Modules, RunNames
<1>5. IsTasks(tasks')
  BY <1>3, <1>4, PostTypes DEF Types
<1> QED BY <1>1, <1>5 DEF Request, Types, scheduler, names, radio

LEMMA CancelRequestTypes ==
  ASSUME Types, NEW kind \in {"ACL", "RNR"},
         NEW run \in {"CancelAclConnection", "CancelRemoteNameRequest"},
         NEW address \in Peers, Cancel(kind, run, address)
  PROVE  Types'
<1> DEFINE entry == [id |-> 0, kind |-> kind, address |-> address]
<1>1. counts' \in Counts
  BY CountedTypes DEF Cancel
<1>2. entry \in Entries
  <2>1. entry \in Requested
    BY BoundsAreNat DEF Requested, Addresses
  <2> QED BY <2>1 DEF Entries
<1>3. tasks' = Post(tasks, Closure("scheduler", run, entry))
  BY DEF Cancel
<1> HIDE DEF entry
<1>4. IsClosure(Closure("scheduler", run, entry))
  BY <1>2, ClosureIs DEF Modules, RunNames
<1>5. IsTasks(tasks')
  BY <1>3, <1>4, PostTypes DEF Types
<1> QED BY <1>1, <1>5 DEF Cancel, Types, scheduler, names, radio

LEMMA IncomingTypes ==
  ASSUME Types, NEW address \in Callers, Incoming(address)
  PROVE  Types'
<1> DEFINE op == [id |-> 0, kind |-> "INCOMING", address |-> address, state |-> "asked"]
<1>1. counts' \in Counts
  BY CountedTypes DEF Incoming
<1>2. op \in Operation
  BY BoundsAreNat DEF Operation, Addresses
<1>3. tasks' = Post(tasks, Closure("acl", "on_incoming_connection", op)) /\ air' = air \cup {op}
  BY DEF Incoming
<1> HIDE DEF op
<1>4. IsClosure(Closure("acl", "on_incoming_connection", op))
  BY <1>2, ClosureIs DEF Modules, RunNames, Entries
<1>5. IsTasks(tasks') /\ air' \subseteq Operation
  BY <1>2, <1>3, <1>4, PostTypes DEF Types
<1> QED BY <1>1, <1>5 DEF Incoming, Types, scheduler, names

LEMMA ClientStepTypes ==
  ASSUME Types, ClientStep
  PROVE  Types'
<1>1. ASSUME NEW address \in Peers, CreateConnection(address)
      PROVE  Types'
  BY <1>1, RequestTypes DEF CreateConnection
<1>2. ASSUME NEW address \in Peers, StartRemoteNameRequest(address)
      PROVE  Types'
  BY <1>2, RequestTypes DEF StartRemoteNameRequest
<1>3. ASSUME NEW address \in Peers, CancelConnect(address)
      PROVE  Types'
  BY <1>3, CancelRequestTypes DEF CancelConnect
<1>4. ASSUME NEW address \in Peers, CancelName(address)
      PROVE  Types'
  BY <1>4, CancelRequestTypes DEF CancelName
<1> QED BY <1>1, <1>2, <1>3, <1>4, IncomingTypes DEF ClientStep

LEMMA NextTypes ==
  ASSUME Types, [Next]_vars
  PROVE  Types'
<1>1. CASE UNCHANGED vars
  BY <1>1 DEF vars, scheduler, names, radio, Types
<1>2. CASE Next
  BY <1>2, SchedulerStepTypes, ClassicStepTypes, NameStepTypes, ControllerTypes,
     OperationEndsTypes, ClientStepTypes DEF Next
<1> QED BY <1>1, <1>2

LEMMA InitTypes ==
  ASSUME Init
  PROVE  Types
<1> USE BoundsAreNat, AclSchedulerAssumption
<1>1. IsTasks(tasks)
  BY DEF Init, IsTasks
<1>2. counts \in Counts
  BY DEF Init, Counts
<1>3. told \in [1 .. MaxRequests -> Seq(0 .. MaxRequests)]
  BY DEF Init
<1>4. hci \in Seq(CommandRecord) /\ pending_outgoing_operations_ \in Seq(QueueEntry)
  BY DEF Init
<1>5. /\ outgoing_entry_ \in QueueEntry \cup {NoEntry}
      /\ incoming_connecting_address_set_ \subseteq Addresses
      /\ pending_ \in BOOLEAN /\ on_remote_name_complete_ \in 0 .. MaxRequests
      /\ connections \subseteq Addresses /\ air \subseteq Operation /\ fate = "alive"
  <2>1. outgoing_entry_ = NoEntry /\ incoming_connecting_address_set_ = {} /\ pending_ = FALSE
        /\ on_remote_name_complete_ = 0 /\ connections = {} /\ air = {} /\ fate = "alive"
    BY DEF Init
  <2>2. pending_ \in BOOLEAN
    BY <2>1, Zenon
  <2>3. on_remote_name_complete_ \in 0 .. MaxRequests
    BY <2>1
  <2> HIDE BoundsAreNat, AclSchedulerAssumption
  <2>4. {} \subseteq Addresses /\ {} \subseteq Operation
    BY Zenon
  <2> QED BY <2>1, <2>2, <2>3, <2>4, Zenon
<1> QED BY <1>1, <1>2, <1>3, <1>4, <1>5 DEF Types

LEMMA AlwaysTypes == Spec => []Types
<1>1. Init => Types
  BY InitTypes
<1>2. Types /\ [Next]_vars => Types'
  BY NextTypes
<1> QED BY <1>1, <1>2, PTL DEF Spec

LEMMA TypesImplyTypeOK ==
  ASSUME Types
  PROVE  TypeOK
<1>1. \A h \in Handlers : \A n \in DOMAIN tasks[h] : tasks[h][n].entry \in Requested \cup Operation
  <2>1. ASSUME NEW h \in Handlers, NEW n \in DOMAIN tasks[h]
        PROVE  tasks[h][n].entry \in Requested \cup Operation
    <3>1. tasks[h] \in Seq(ClosureRecord)
      BY DEF Types, IsTasks
    <3>2. tasks[h][n] \in ClosureRecord
      BY <3>1
    <3> QED BY <3>2 DEF ClosureRecord, Entries
  <2> QED BY <2>1
<1>2. \A n \in DOMAIN hci : hci[n].entry \in Requested \cup Operation
  <2>1. ASSUME NEW n \in DOMAIN hci
        PROVE  hci[n].entry \in Requested \cup Operation
    <3> hci \in Seq(CommandRecord)
      BY DEF Types
    <3>1. hci[n] \in CommandRecord
      OBVIOUS
    <3> QED BY <3>1 DEF CommandRecord, Entries
  <2> QED BY <2>1
<1>3. \A id \in DOMAIN told : \A n \in DOMAIN told[id] : told[id][n] \in 0 .. MaxRequests
  <2>1. ASSUME NEW id \in DOMAIN told, NEW n \in DOMAIN told[id]
        PROVE  told[id][n] \in 0 .. MaxRequests
    <3> DEFINE Numbers == 0 .. MaxRequests
               answers == told[id]
    <3>1. answers \in Seq(Numbers) /\ n \in DOMAIN answers
      BY DEF Types
    <3> HIDE DEF Numbers, answers
    <3>2. answers[n] \in Numbers
      BY <3>1
    <3> QED BY <3>2 DEF Numbers, answers
  <2> QED BY <2>1
<1> QED BY <1>1, <1>2, <1>3 DEF Types, TypeOK

\* TypeOK: the members of the scheduler, of the name request module and of classic_impl
\* keep their types, and every closure, command and operation is about a request that a
\* client made or a device that called, for any number of devices and requests and with
\* cancellations of every kind.
THEOREM TypeCorrect == Spec => []TypeOK
<1>1. Types => TypeOK
  BY TypesImplyTypeOK
<1> QED BY <1>1, AlwaysTypes, PTL

-----------------------------------------------------------------------------
(* Where a closure is after one was taken or posted *)

LEMMA DropAt ==
  ASSUME NEW ts, IsTasks(ts), NEW k \in Handlers, ts[k] # <<>>, NEW h \in Handlers
  PROVE  /\ h # k => Drop(ts, k)[h] = ts[h]
         /\ h = k => /\ Len(ts[k]) >= 1 /\ Head(ts[k]) = ts[k][1]
                     /\ Len(Drop(ts, k)[h]) = Len(ts[k]) - 1
                     /\ \A n \in 1 .. Len(ts[k]) - 1 : Drop(ts, k)[h][n] = ts[k][n + 1]
         /\ Len(ts[h]) \in Nat
<1>1. ts[k] \in Seq(ClosureRecord) /\ ts[h] \in Seq(ClosureRecord)
  BY DEF IsTasks
<1>2. CASE h # k
  BY <1>1, <1>2 DEF IsTasks, Drop
<1>3. CASE h = k
  <2>1. Drop(ts, k)[h] = Tail(ts[k])
    BY <1>3 DEF IsTasks, Drop
  <2> QED BY <1>1, <1>3, <2>1
<1> QED BY <1>2, <1>3

LEMMA PostAt ==
  ASSUME NEW ts, IsTasks(ts), NEW t, IsClosure(t), NEW h \in Handlers
  PROVE  /\ h # HandlerOf(t.module) => Post(ts, t)[h] = ts[h]
         /\ h = HandlerOf(t.module) =>
              /\ Len(Post(ts, t)[h]) = Len(ts[h]) + 1
              /\ Post(ts, t)[h][Len(ts[h]) + 1] = t
              /\ \A n \in 1 .. Len(ts[h]) : Post(ts, t)[h][n] = ts[h][n]
         /\ Len(ts[h]) \in Nat
         /\ HandlerOf(t.module) \in Handlers
<1> DEFINE k == HandlerOf(t.module)
<1>1. ts[h] \in Seq(ClosureRecord) /\ t \in ClosureRecord /\ k \in Handlers
  BY HandlerIs DEF IsTasks, IsClosure, ClosureRecord
<1>2. Post(ts, t) = [ts EXCEPT ![k] = Append(ts[k], t)]
  BY DEF Post
<1> HIDE DEF k
<1>3. CASE h # k
  <2>1. Post(ts, t)[h] = ts[h]
    BY <1>1, <1>2, <1>3 DEF IsTasks
  <2> QED BY <1>1, <1>3, <2>1 DEF k
<1>4. CASE h = k
  <2>1. Post(ts, t)[h] = Append(ts[h], t)
    BY <1>1, <1>2, <1>4 DEF IsTasks
  <2> QED BY <1>1, <1>4, <2>1 DEF k
<1> QED BY <1>3, <1>4

\* What holds of every closure holds of those that are left, and of those that wait once
\* one of which it holds has been posted.
LEMMA DropEach ==
  ASSUME NEW ts, IsTasks(ts), NEW k \in Handlers, ts[k] # <<>>, NEW h \in Handlers,
         NEW n \in 1 .. Len(Drop(ts, k)[h])
  PROVE  \E m \in 1 .. Len(ts[h]) :
           Drop(ts, k)[h][n] = ts[h][m] /\ (h = k => m = n + 1) /\ (h # k => m = n)
<1>1. CASE h = k
  <2>1. n + 1 \in 1 .. Len(ts[h]) /\ Drop(ts, k)[h][n] = ts[h][n + 1]
    BY <1>1, DropAt
  <2> QED BY <1>1, <2>1
<1>2. CASE h # k
  BY <1>2, DropAt
<1> QED BY <1>1, <1>2

LEMMA PostEach ==
  ASSUME NEW ts, IsTasks(ts), NEW t, IsClosure(t), NEW h \in Handlers,
         NEW n \in 1 .. Len(Post(ts, t)[h])
  PROVE  \/ n \in 1 .. Len(ts[h]) /\ Post(ts, t)[h][n] = ts[h][n]
         \/ h = HandlerOf(t.module) /\ n = Len(ts[h]) + 1 /\ Post(ts, t)[h][n] = t
<1>1. CASE h = HandlerOf(t.module)
  <2>1. CASE n = Len(ts[h]) + 1
    BY <1>1, <2>1, PostAt
  <2>2. CASE n # Len(ts[h]) + 1
    <3>1. n \in 1 .. Len(ts[h])
      BY <1>1, <2>2, PostAt
    <3> QED BY <1>1, <3>1, PostAt
  <2> QED BY <2>1, <2>2
<1>2. CASE h # HandlerOf(t.module)
  BY <1>2, PostAt
<1> QED BY <1>1, <1>2

LEMMA PostKeeps ==
  ASSUME NEW ts, IsTasks(ts), NEW t, IsClosure(t), NEW h \in Handlers
  PROVE  /\ \A n \in 1 .. Len(ts[h]) :
              n \in 1 .. Len(Post(ts, t)[h]) /\ Post(ts, t)[h][n] = ts[h][n]
         /\ h = HandlerOf(t.module) =>
              /\ Len(ts[h]) + 1 \in 1 .. Len(Post(ts, t)[h])
              /\ Post(ts, t)[h][Len(ts[h]) + 1] = t
<1>1. CASE h = HandlerOf(t.module)
  BY <1>1, PostAt
<1>2. CASE h # HandlerOf(t.module)
  BY <1>2, PostAt
<1> QED BY <1>1, <1>2

LEMMA DropIn ==
  ASSUME NEW ts, IsTasks(ts), NEW k \in Handlers, ts[k] # <<>>, NEW role, NEW id,
         InTasks(Drop(ts, k), role, id)
  PROVE  InTasks(ts, role, id)
<1>1. PICK h \in Handlers : \E n \in 1 .. Len(Drop(ts, k)[h]) : Plays(Drop(ts, k)[h][n], role, id)
  BY DEF InTasks
<1>2. PICK n \in 1 .. Len(Drop(ts, k)[h]) : Plays(Drop(ts, k)[h][n], role, id)
  BY <1>1
<1>3. PICK m \in 1 .. Len(ts[h]) : Drop(ts, k)[h][n] = ts[h][m]
  BY DropEach
<1> QED BY <1>2, <1>3 DEF InTasks

LEMMA DropOnce ==
  ASSUME NEW ts, IsTasks(ts), NEW k \in Handlers, ts[k] # <<>>, NEW role, NEW id,
         OnceInTasks(ts, role, id)
  PROVE  OnceInTasks(Drop(ts, k), role, id)
<1>1. SUFFICES ASSUME NEW h \in Handlers, NEW i \in Handlers,
                      NEW m \in 1 .. Len(Drop(ts, k)[h]), NEW n \in 1 .. Len(Drop(ts, k)[i]),
                      Plays(Drop(ts, k)[h][m], role, id), Plays(Drop(ts, k)[i][n], role, id)
               PROVE  h = i /\ m = n
  BY DEF OnceInTasks
<1>2. /\ \E p \in 1 .. Len(ts[h]) :
           Drop(ts, k)[h][m] = ts[h][p] /\ (h = k => p = m + 1) /\ (h # k => p = m)
      /\ \E q \in 1 .. Len(ts[i]) :
           Drop(ts, k)[i][n] = ts[i][q] /\ (i = k => q = n + 1) /\ (i # k => q = n)
  <2>1. \E p \in 1 .. Len(ts[h]) :
          Drop(ts, k)[h][m] = ts[h][p] /\ (h = k => p = m + 1) /\ (h # k => p = m)
    BY DropEach
  <2>2. \E q \in 1 .. Len(ts[i]) :
          Drop(ts, k)[i][n] = ts[i][q] /\ (i = k => q = n + 1) /\ (i # k => q = n)
    BY DropEach
  <2> QED BY <2>1, <2>2
<1>3. PICK p \in 1 .. Len(ts[h]) :
            Drop(ts, k)[h][m] = ts[h][p] /\ (h = k => p = m + 1) /\ (h # k => p = m)
  BY <1>2
<1>4. PICK q \in 1 .. Len(ts[i]) :
            Drop(ts, k)[i][n] = ts[i][q] /\ (i = k => q = n + 1) /\ (i # k => q = n)
  BY <1>2
<1>5. h = i /\ p = q
  BY <1>1, <1>3, <1>4 DEF OnceInTasks
<1> QED BY <1>3, <1>4, <1>5

\* Once the closure that has the role is taken nobody has it.
LEMMA DropHead ==
  ASSUME NEW ts, IsTasks(ts), NEW k \in Handlers, ts[k] # <<>>, NEW role, NEW id,
         OnceInTasks(ts, role, id), Plays(Head(ts[k]), role, id)
  PROVE  InTasks(ts, role, id) /\ ~InTasks(Drop(ts, k), role, id)
<1>1. 1 \in 1 .. Len(ts[k]) /\ Plays(ts[k][1], role, id)
  BY DropAt
<1>2. ASSUME InTasks(Drop(ts, k), role, id) PROVE FALSE
  <2>1. PICK h \in Handlers : \E n \in 1 .. Len(Drop(ts, k)[h]) : Plays(Drop(ts, k)[h][n], role, id)
    BY <1>2 DEF InTasks
  <2>2. PICK n \in 1 .. Len(Drop(ts, k)[h]) : Plays(Drop(ts, k)[h][n], role, id)
    BY <2>1
  <2>3. PICK m \in 1 .. Len(ts[h]) : Drop(ts, k)[h][n] = ts[h][m] /\ (h = k => m = n + 1) /\ (h # k => m = n)
    BY DropEach
  <2>4. h = k /\ m = 1
    BY <1>1, <2>2, <2>3 DEF OnceInTasks
  <2> QED BY <2>3, <2>4
<1> QED BY <1>1, <1>2 DEF InTasks

LEMMA PostIn ==
  ASSUME NEW ts, IsTasks(ts), NEW t, IsClosure(t), NEW role, NEW id
  PROVE  InTasks(Post(ts, t), role, id) <=> InTasks(ts, role, id) \/ Plays(t, role, id)
<1>1. ASSUME InTasks(Post(ts, t), role, id)
      PROVE  InTasks(ts, role, id) \/ Plays(t, role, id)
  <2>1. PICK h \in Handlers : \E n \in 1 .. Len(Post(ts, t)[h]) : Plays(Post(ts, t)[h][n], role, id)
    BY <1>1 DEF InTasks
  <2>2. PICK n \in 1 .. Len(Post(ts, t)[h]) : Plays(Post(ts, t)[h][n], role, id)
    BY <2>1
  <2>3. \/ n \in 1 .. Len(ts[h]) /\ Post(ts, t)[h][n] = ts[h][n]
        \/ Post(ts, t)[h][n] = t
    BY PostEach
  <2> QED BY <2>2, <2>3 DEF InTasks
<1>2. ASSUME InTasks(ts, role, id)
      PROVE  InTasks(Post(ts, t), role, id)
  <2>1. PICK h \in Handlers : \E n \in 1 .. Len(ts[h]) : Plays(ts[h][n], role, id)
    BY <1>2 DEF InTasks
  <2>2. PICK n \in 1 .. Len(ts[h]) : Plays(ts[h][n], role, id)
    BY <2>1
  <2>3. n \in 1 .. Len(Post(ts, t)[h]) /\ Post(ts, t)[h][n] = ts[h][n]
    BY PostKeeps
  <2> QED BY <2>2, <2>3 DEF InTasks
<1>3. ASSUME Plays(t, role, id)
      PROVE  InTasks(Post(ts, t), role, id)
  <2>1. HandlerOf(t.module) \in Handlers
    BY HandlerIs DEF IsClosure, ClosureRecord
  <2>2. PICK h \in Handlers : h = HandlerOf(t.module)
    BY <2>1
  <2>3. Len(ts[h]) + 1 \in 1 .. Len(Post(ts, t)[h]) /\ Post(ts, t)[h][Len(ts[h]) + 1] = t
    BY <2>2, PostKeeps
  <2> QED BY <1>3, <2>3 DEF InTasks
<1> QED BY <1>1, <1>2, <1>3

LEMMA PostOnce ==
  ASSUME NEW ts, IsTasks(ts), NEW t, IsClosure(t), NEW role, NEW id,
         OnceInTasks(ts, role, id), Plays(t, role, id) => ~InTasks(ts, role, id)
  PROVE  OnceInTasks(Post(ts, t), role, id)
<1>1. SUFFICES ASSUME NEW h \in Handlers, NEW i \in Handlers,
                      NEW m \in 1 .. Len(Post(ts, t)[h]), NEW n \in 1 .. Len(Post(ts, t)[i]),
                      Plays(Post(ts, t)[h][m], role, id), Plays(Post(ts, t)[i][n], role, id)
               PROVE  h = i /\ m = n
  BY DEF OnceInTasks
<1>2. \/ m \in 1 .. Len(ts[h]) /\ Post(ts, t)[h][m] = ts[h][m]
      \/ h = HandlerOf(t.module) /\ m = Len(ts[h]) + 1 /\ Post(ts, t)[h][m] = t
  BY PostEach
<1>3. \/ n \in 1 .. Len(ts[i]) /\ Post(ts, t)[i][n] = ts[i][n]
      \/ i = HandlerOf(t.module) /\ n = Len(ts[i]) + 1 /\ Post(ts, t)[i][n] = t
  BY PostEach
<1> QED BY <1>1, <1>2, <1>3 DEF OnceInTasks, InTasks

-----------------------------------------------------------------------------
(* A request is in one place: taking it away and putting it somewhere *)

LEMMA TailHci ==
  ASSUME NEW commands \in Seq(CommandRecord), commands # <<>>, NEW id
  PROVE  /\ InHci(Tail(commands), id) => InHci(commands, id)
         /\ OnceInHci(commands, id) => OnceInHci(Tail(commands), id)
         /\ OnceInHci(commands, id) /\ Starting(Head(commands), id) =>
              InHci(commands, id) /\ ~InHci(Tail(commands), id)
<1>1. /\ Len(commands) >= 1 /\ Head(commands) = commands[1]
      /\ Len(Tail(commands)) = Len(commands) - 1
      /\ \A n \in 1 .. Len(commands) - 1 :
           Tail(commands)[n] = commands[n + 1] /\ n + 1 \in 1 .. Len(commands)
  OBVIOUS
<1>2. InHci(Tail(commands), id) => InHci(commands, id)
  BY <1>1 DEF InHci
<1>3. OnceInHci(commands, id) => OnceInHci(Tail(commands), id)
  BY <1>1 DEF OnceInHci
<1>4. ASSUME OnceInHci(commands, id), Starting(Head(commands), id)
      PROVE  InHci(commands, id) /\ ~InHci(Tail(commands), id)
  <2>1. 1 \in 1 .. Len(commands) /\ Starting(commands[1], id)
    BY <1>1, <1>4
  <2>2. ASSUME NEW n \in 1 .. Len(commands) - 1, Starting(Tail(commands)[n], id)
        PROVE  FALSE
    <3>1. n + 1 \in 1 .. Len(commands) /\ Starting(commands[n + 1], id)
      BY <1>1, <2>2
    <3>2. n + 1 = 1
      BY <3>1, <2>1, <1>4 DEF OnceInHci
    <3> QED BY <3>2
  <2> QED BY <1>1, <2>1, <2>2 DEF InHci
<1> QED BY <1>2, <1>3, <1>4

LEMMA AppendHci ==
  ASSUME NEW commands \in Seq(CommandRecord), NEW command \in CommandRecord, NEW id
  PROVE  /\ InHci(Append(commands, command), id) <=> InHci(commands, id) \/ Starting(command, id)
         /\ OnceInHci(commands, id) /\ (Starting(command, id) => ~InHci(commands, id)) =>
              OnceInHci(Append(commands, command), id)
<1> DEFINE more == Append(commands, command)
<1>1. /\ Len(more) = Len(commands) + 1 /\ more[Len(commands) + 1] = command
      /\ \A n \in 1 .. Len(commands) : more[n] = commands[n]
      /\ Len(commands) \in Nat
  OBVIOUS
<1> HIDE DEF more
<1>2. \A n \in 1 .. Len(more) : n \in 1 .. Len(commands) \/ n = Len(commands) + 1
  BY <1>1
<1>3. Len(commands) + 1 \in 1 .. Len(more)
  BY <1>1
<1>4. InHci(more, id) <=> InHci(commands, id) \/ Starting(command, id)
  <2>1. ASSUME InHci(more, id) PROVE InHci(commands, id) \/ Starting(command, id)
    BY <1>1, <1>2, <2>1 DEF InHci
  <2>2. ASSUME InHci(commands, id) PROVE InHci(more, id)
    BY <1>1, <2>2 DEF InHci
  <2>3. ASSUME Starting(command, id) PROVE InHci(more, id)
    BY <1>1, <1>3, <2>3 DEF InHci
  <2> QED BY <2>1, <2>2, <2>3
<1>5. ASSUME OnceInHci(commands, id), Starting(command, id) => ~InHci(commands, id)
      PROVE  OnceInHci(more, id)
  BY <1>1, <1>2, <1>5 DEF OnceInHci, InHci
<1> QED BY <1>4, <1>5 DEF more

LEMMA TailQueue ==
  ASSUME NEW queue \in Seq(QueueEntry), queue # <<>>, NEW id, NEW role
  PROVE  /\ InQueue(Tail(queue), role, id) => InQueue(queue, role, id)
         /\ OnceInQueue(queue, id) => OnceInQueue(Tail(queue), id)
         /\ OnceInQueue(queue, id) /\ Head(queue).id = id /\ role = "owes" =>
              InQueue(queue, role, id) /\ ~InQueue(Tail(queue), role, id)
<1>1. /\ Len(queue) >= 1 /\ Head(queue) = queue[1]
      /\ Len(Tail(queue)) = Len(queue) - 1
      /\ \A n \in 1 .. Len(queue) - 1 :
           Tail(queue)[n] = queue[n + 1] /\ n + 1 \in 1 .. Len(queue)
  OBVIOUS
<1>2. InQueue(Tail(queue), role, id) => InQueue(queue, role, id)
  BY <1>1 DEF InQueue
<1>3. OnceInQueue(queue, id) => OnceInQueue(Tail(queue), id)
  BY <1>1 DEF OnceInQueue
<1>4. ASSUME OnceInQueue(queue, id), Head(queue).id = id, role = "owes"
      PROVE  InQueue(queue, role, id) /\ ~InQueue(Tail(queue), role, id)
  <2>1. 1 \in 1 .. Len(queue) /\ queue[1].id = id
    BY <1>1, <1>4
  <2>2. ASSUME NEW n \in 1 .. Len(queue) - 1, Tail(queue)[n].id = id
        PROVE  FALSE
    <3>1. n + 1 \in 1 .. Len(queue) /\ queue[n + 1].id = id
      BY <1>1, <2>2
    <3>2. n + 1 = 1
      BY <3>1, <2>1, <1>4 DEF OnceInQueue
    <3> QED BY <3>2
  <2> QED BY <1>1, <1>4, <2>1, <2>2 DEF InQueue
<1> QED BY <1>2, <1>3, <1>4

LEMMA RemoveQueue ==
  ASSUME NEW queue \in Seq(QueueEntry), NEW k \in 1 .. Len(queue), NEW id, NEW role
  PROVE  /\ InQueue(RemoveAt(queue, k), role, id) => InQueue(queue, role, id)
         /\ OnceInQueue(queue, id) => OnceInQueue(RemoveAt(queue, k), id)
         /\ OnceInQueue(queue, id) /\ queue[k].id = id /\ role = "owes" =>
              InQueue(queue, role, id) /\ ~InQueue(RemoveAt(queue, k), role, id)
<1> DEFINE less == RemoveAt(queue, k)
<1>1. /\ Len(less) = Len(queue) - 1 /\ Len(queue) \in Nat
      /\ \A i \in 1 .. Len(queue) - 1 : less[i] = IF i < k THEN queue[i] ELSE queue[i + 1]
  BY RemoveAtTypes
<1> HIDE DEF less
<1>2. ASSUME NEW n \in 1 .. Len(less)
      PROVE  \E m \in 1 .. Len(queue) :
               less[n] = queue[m] /\ m # k /\ (n < k => m = n) /\ (~(n < k) => m = n + 1)
  <2>1. CASE n < k
    BY <1>1, <2>1
  <2>2. CASE ~(n < k)
    <3>1. less[n] = queue[n + 1] /\ n + 1 \in 1 .. Len(queue) /\ n + 1 # k
      BY <1>1, <2>2
    <3> QED BY <2>2, <3>1
  <2> QED BY <2>1, <2>2
<1>3. InQueue(less, role, id) => InQueue(queue, role, id)
  BY <1>2 DEF InQueue
<1>4. ASSUME OnceInQueue(queue, id), NEW m \in 1 .. Len(less), NEW n \in 1 .. Len(less),
             less[m].id = id, less[n].id = id
      PROVE  m = n
  <2>1. PICK p \in 1 .. Len(queue) :
          less[m] = queue[p] /\ p # k /\ (m < k => p = m) /\ (~(m < k) => p = m + 1)
    BY <1>2
  <2>2. PICK q \in 1 .. Len(queue) :
          less[n] = queue[q] /\ q # k /\ (n < k => q = n) /\ (~(n < k) => q = n + 1)
    BY <1>2
  <2>3. p = q
    BY <1>4, <2>1, <2>2 DEF OnceInQueue
  <2> QED BY <1>1, <2>1, <2>2, <2>3
<1>5. ASSUME OnceInQueue(queue, id), queue[k].id = id, role = "owes"
      PROVE  InQueue(queue, role, id) /\ ~InQueue(less, role, id)
  <2>1. ASSUME NEW n \in 1 .. Len(less), less[n].id = id
        PROVE  FALSE
    <3>1. PICK m \in 1 .. Len(queue) : less[n] = queue[m] /\ m # k
      BY <1>2
    <3> QED BY <1>5, <2>1, <3>1 DEF OnceInQueue
  <2> QED BY <1>5, <2>1 DEF InQueue
<1> QED BY <1>3, <1>4, <1>5 DEF OnceInQueue, less

LEMMA AppendQueue ==
  ASSUME NEW queue \in Seq(QueueEntry), NEW entry \in QueueEntry, NEW id, NEW role
  PROVE  /\ InQueue(Append(queue, entry), role, id) <=>
              InQueue(queue, role, id) \/ (role = "owes" /\ entry.id = id)
         /\ OnceInQueue(queue, id) /\ (entry.id = id => ~InQueue(queue, "owes", id)) =>
              OnceInQueue(Append(queue, entry), id)
<1> DEFINE more == Append(queue, entry)
<1>1. /\ Len(more) = Len(queue) + 1 /\ more[Len(queue) + 1] = entry
      /\ \A n \in 1 .. Len(queue) : more[n] = queue[n]
      /\ Len(queue) \in Nat
  OBVIOUS
<1> HIDE DEF more
<1>2. \A n \in 1 .. Len(more) : n \in 1 .. Len(queue) \/ n = Len(queue) + 1
  BY <1>1
<1>3. Len(queue) + 1 \in 1 .. Len(more)
  BY <1>1
<1>4. InQueue(more, role, id) <=> InQueue(queue, role, id) \/ (role = "owes" /\ entry.id = id)
  <2>1. ASSUME InQueue(more, role, id)
        PROVE  InQueue(queue, role, id) \/ (role = "owes" /\ entry.id = id)
    BY <1>1, <1>2, <2>1 DEF InQueue
  <2>2. ASSUME InQueue(queue, role, id) PROVE InQueue(more, role, id)
    BY <1>1, <2>2 DEF InQueue
  <2>3. ASSUME role = "owes", entry.id = id PROVE InQueue(more, role, id)
    BY <1>1, <1>3, <2>3 DEF InQueue
  <2> QED BY <2>1, <2>2, <2>3
<1>5. ASSUME OnceInQueue(queue, id), entry.id = id => ~InQueue(queue, "owes", id)
      PROVE  OnceInQueue(more, id)
  BY <1>1, <1>2, <1>5 DEF OnceInQueue, InQueue
<1> QED BY <1>4, <1>5 DEF more

Free(ts, commands, ops, queue, role, id) == ~Somewhere(ts, commands, ops, queue, role, id)

LEMMA TakeTask ==
  ASSUME NEW ts, IsTasks(ts), NEW k \in Handlers, ts[k] # <<>>, NEW commands, NEW ops,
         NEW queue, NEW answers, NEW asked,
         Requests(ts, commands, ops, queue, answers, asked)
  PROVE  /\ Requests(Drop(ts, k), commands, ops, queue, answers, asked)
         /\ \A role \in Roles : \A id \in 1 .. MaxRequests :
              Plays(Head(ts[k]), role, id) =>
                Free(Drop(ts, k), commands, ops, queue, role, id)
         /\ \A id \in 1 .. MaxRequests :
              Plays(Head(ts[k]), "owes", id) => answers[id] = <<>> /\ id <= asked
<1>1. SUFFICES ASSUME NEW id \in 1 .. MaxRequests
               PROVE  /\ RequestInv(Drop(ts, k), commands, ops, queue, answers, asked, id)
                      /\ \A role \in Roles : Plays(Head(ts[k]), role, id) =>
                           Free(Drop(ts, k), commands, ops, queue, role, id)
                      /\ Plays(Head(ts[k]), "owes", id) => answers[id] = <<>> /\ id <= asked
  BY DEF Requests
<1>2. RequestInv(ts, commands, ops, queue, answers, asked, id)
  BY DEF Requests
<1>3. ASSUME NEW role \in Roles
      PROVE  /\ OnePlace(Drop(ts, k), commands, ops, queue, role, id)
             /\ Somewhere(Drop(ts, k), commands, ops, queue, role, id) =>
                  Somewhere(ts, commands, ops, queue, role, id)
             /\ Plays(Head(ts[k]), role, id) =>
                  /\ Somewhere(ts, commands, ops, queue, role, id)
                  /\ Free(Drop(ts, k), commands, ops, queue, role, id)
  <2>1. OnePlace(ts, commands, ops, queue, role, id)
    BY <1>2 DEF RequestInv
  <2>2. InTasks(Drop(ts, k), role, id) => InTasks(ts, role, id)
    BY DropIn
  <2>3. OnceInTasks(Drop(ts, k), role, id)
    BY <2>1, DropOnce DEF OnePlace
  <2>4. Plays(Head(ts[k]), role, id) =>
          InTasks(ts, role, id) /\ ~InTasks(Drop(ts, k), role, id)
    BY <2>1, DropHead DEF OnePlace
  <2> QED BY <2>1, <2>2, <2>3, <2>4 DEF OnePlace, Somewhere, Free
<1>4. "owes" \in Roles
  BY DEF Roles
<1> QED BY <1>2, <1>3, <1>4 DEF RequestInv

LEMMA PutTask ==
  ASSUME NEW ts, IsTasks(ts), NEW t, IsClosure(t), NEW commands, NEW ops,
         NEW queue, NEW answers, NEW asked,
         Requests(ts, commands, ops, queue, answers, asked),
         \A role \in Roles : \A id \in 1 .. MaxRequests :
           Plays(t, role, id) => Free(ts, commands, ops, queue, role, id),
         \A id \in 1 .. MaxRequests :
           Plays(t, "owes", id) => answers[id] = <<>> /\ id <= asked
  PROVE  Requests(Post(ts, t), commands, ops, queue, answers, asked)
<1>1. SUFFICES ASSUME NEW id \in 1 .. MaxRequests
               PROVE  RequestInv(Post(ts, t), commands, ops, queue, answers, asked, id)
  BY DEF Requests
<1>2. RequestInv(ts, commands, ops, queue, answers, asked, id)
  BY DEF Requests
<1>3. ASSUME NEW role \in Roles
      PROVE  /\ OnePlace(Post(ts, t), commands, ops, queue, role, id)
             /\ Somewhere(Post(ts, t), commands, ops, queue, role, id) =>
                  Somewhere(ts, commands, ops, queue, role, id) \/ Plays(t, role, id)
  <2>1. OnePlace(ts, commands, ops, queue, role, id)
    BY <1>2 DEF RequestInv
  <2>2. InTasks(Post(ts, t), role, id) <=> InTasks(ts, role, id) \/ Plays(t, role, id)
    BY PostIn
  <2>3. Plays(t, role, id) => Free(ts, commands, ops, queue, role, id)
    OBVIOUS
  <2>4. OnceInTasks(Post(ts, t), role, id)
    BY <2>1, <2>3, PostOnce DEF OnePlace, Free, Somewhere
  <2> QED BY <2>1, <2>2, <2>3, <2>4 DEF OnePlace, Somewhere, Free
<1>4. "owes" \in Roles
  BY DEF Roles
<1> QED BY <1>2, <1>3, <1>4 DEF RequestInv

LEMMA TakeCommand ==
  ASSUME NEW ts, NEW commands \in Seq(CommandRecord), commands # <<>>, NEW ops,
         NEW queue, NEW answers, NEW asked,
         Requests(ts, commands, ops, queue, answers, asked)
  PROVE  /\ Requests(ts, Tail(commands), ops, queue, answers, asked)
         /\ \A role \in Roles : \A id \in 1 .. MaxRequests :
              Starting(Head(commands), id) => Free(ts, Tail(commands), ops, queue, role, id)
         /\ \A id \in 1 .. MaxRequests :
              Starting(Head(commands), id) => answers[id] = <<>> /\ id <= asked
<1>1. SUFFICES ASSUME NEW id \in 1 .. MaxRequests
               PROVE  /\ RequestInv(ts, Tail(commands), ops, queue, answers, asked, id)
                      /\ \A role \in Roles : Starting(Head(commands), id) =>
                           Free(ts, Tail(commands), ops, queue, role, id)
                      /\ Starting(Head(commands), id) => answers[id] = <<>> /\ id <= asked
  BY DEF Requests
<1>2. RequestInv(ts, commands, ops, queue, answers, asked, id)
  BY DEF Requests
<1>3. ASSUME NEW role \in Roles
      PROVE  /\ OnePlace(ts, Tail(commands), ops, queue, role, id)
             /\ Somewhere(ts, Tail(commands), ops, queue, role, id) =>
                  Somewhere(ts, commands, ops, queue, role, id)
             /\ Starting(Head(commands), id) =>
                  /\ Somewhere(ts, commands, ops, queue, role, id)
                  /\ Free(ts, Tail(commands), ops, queue, role, id)
  <2>1. OnePlace(ts, commands, ops, queue, role, id)
    BY <1>2 DEF RequestInv
  <2>2. /\ InHci(Tail(commands), id) => InHci(commands, id)
        /\ OnceInHci(Tail(commands), id)
        /\ Starting(Head(commands), id) => InHci(commands, id) /\ ~InHci(Tail(commands), id)
    BY <2>1, TailHci DEF OnePlace
  <2> QED BY <2>1, <2>2 DEF OnePlace, Somewhere, Free
<1>4. "owes" \in Roles
  BY DEF Roles
<1> QED BY <1>2, <1>3, <1>4 DEF RequestInv

LEMMA PutCommand ==
  ASSUME NEW ts, NEW commands \in Seq(CommandRecord), NEW command \in CommandRecord, NEW ops,
         NEW queue, NEW answers, NEW asked,
         Requests(ts, commands, ops, queue, answers, asked),
         \A role \in Roles : \A id \in 1 .. MaxRequests :
           Starting(command, id) => Free(ts, commands, ops, queue, role, id),
         \A id \in 1 .. MaxRequests :
           Starting(command, id) => answers[id] = <<>> /\ id <= asked
  PROVE  Requests(ts, Append(commands, command), ops, queue, answers, asked)
<1>1. SUFFICES ASSUME NEW id \in 1 .. MaxRequests
               PROVE  RequestInv(ts, Append(commands, command), ops, queue, answers, asked, id)
  BY DEF Requests
<1>2. RequestInv(ts, commands, ops, queue, answers, asked, id)
  BY DEF Requests
<1>3. ASSUME NEW role \in Roles
      PROVE  /\ OnePlace(ts, Append(commands, command), ops, queue, role, id)
             /\ Somewhere(ts, Append(commands, command), ops, queue, role, id) =>
                  Somewhere(ts, commands, ops, queue, role, id) \/ Starting(command, id)
  <2>1. OnePlace(ts, commands, ops, queue, role, id)
    BY <1>2 DEF RequestInv
  <2>2. Starting(command, id) => Free(ts, commands, ops, queue, role, id)
    OBVIOUS
  <2>3. /\ InHci(Append(commands, command), id) <=> InHci(commands, id) \/ Starting(command, id)
        /\ OnceInHci(Append(commands, command), id)
    BY <2>1, <2>2, AppendHci DEF OnePlace, Free, Somewhere
  <2> QED BY <2>1, <2>2, <2>3 DEF OnePlace, Somewhere, Free
<1>4. "owes" \in Roles
  BY DEF Roles
<1> QED BY <1>2, <1>3, <1>4 DEF RequestInv

\* Operations that end, and operations that change their state without ending.
OthersLeft(ops, left, op) ==
  \A other \in left : \A id \in 1 .. MaxRequests :
    Ongoing(other, id) => other \in ops /\ other # op

LEMMA TakeOperation ==
  ASSUME NEW ts, NEW commands, NEW ops, NEW op \in ops, NEW left, OthersLeft(ops, left, op),
         NEW queue, NEW answers, NEW asked,
         Requests(ts, commands, ops, queue, answers, asked)
  PROVE  /\ Requests(ts, commands, left, queue, answers, asked)
         /\ \A role \in Roles : \A id \in 1 .. MaxRequests :
              Ongoing(op, id) => Free(ts, commands, left, queue, role, id)
         /\ \A id \in 1 .. MaxRequests : Ongoing(op, id) => answers[id] = <<>> /\ id <= asked
<1>1. SUFFICES ASSUME NEW id \in 1 .. MaxRequests
               PROVE  /\ RequestInv(ts, commands, left, queue, answers, asked, id)
                      /\ \A role \in Roles : Ongoing(op, id) =>
                           Free(ts, commands, left, queue, role, id)
                      /\ Ongoing(op, id) => answers[id] = <<>> /\ id <= asked
  BY DEF Requests
<1>2. RequestInv(ts, commands, ops, queue, answers, asked, id)
  BY DEF Requests
<1>3. ASSUME NEW other \in left, Ongoing(other, id)
      PROVE  other \in ops /\ other # op
  BY <1>3 DEF OthersLeft
<1>4. ASSUME NEW role \in Roles
      PROVE  /\ OnePlace(ts, commands, left, queue, role, id)
             /\ Somewhere(ts, commands, left, queue, role, id) =>
                  Somewhere(ts, commands, ops, queue, role, id)
             /\ Ongoing(op, id) =>
                  /\ Somewhere(ts, commands, ops, queue, role, id)
                  /\ Free(ts, commands, left, queue, role, id)
  <2>1. OnePlace(ts, commands, ops, queue, role, id)
    BY <1>2 DEF RequestInv
  <2>2. OnceInAir(ops, id)
    BY <2>1 DEF OnePlace
  <2>3. /\ InAir(left, id) => InAir(ops, id)
        /\ OnceInAir(left, id)
        /\ Ongoing(op, id) => InAir(ops, id) /\ ~InAir(left, id)
    BY <2>2, <1>3 DEF InAir, OnceInAir
  <2> QED BY <2>1, <2>3 DEF OnePlace, Somewhere, Free
<1>5. "owes" \in Roles
  BY DEF Roles
<1> QED BY <1>2, <1>4, <1>5 DEF RequestInv

LEMMA PutOperation ==
  ASSUME NEW ts, NEW commands, NEW ops, NEW op, NEW queue, NEW answers, NEW asked,
         Requests(ts, commands, ops, queue, answers, asked),
         \A role \in Roles : \A id \in 1 .. MaxRequests :
           Ongoing(op, id) => Free(ts, commands, ops, queue, role, id),
         \A id \in 1 .. MaxRequests : Ongoing(op, id) => answers[id] = <<>> /\ id <= asked
  PROVE  Requests(ts, commands, ops \cup {op}, queue, answers, asked)
<1>1. SUFFICES ASSUME NEW id \in 1 .. MaxRequests
               PROVE  RequestInv(ts, commands, ops \cup {op}, queue, answers, asked, id)
  BY DEF Requests
<1>2. RequestInv(ts, commands, ops, queue, answers, asked, id)
  BY DEF Requests
<1>3. ASSUME NEW role \in Roles
      PROVE  /\ OnePlace(ts, commands, ops \cup {op}, queue, role, id)
             /\ Somewhere(ts, commands, ops \cup {op}, queue, role, id) =>
                  Somewhere(ts, commands, ops, queue, role, id) \/ Ongoing(op, id)
  <2>1. OnePlace(ts, commands, ops, queue, role, id)
    BY <1>2 DEF RequestInv
  <2>2. Ongoing(op, id) => Free(ts, commands, ops, queue, role, id)
    OBVIOUS
  <2>3. InAir(ops \cup {op}, id) <=> InAir(ops, id) \/ Ongoing(op, id)
    BY DEF InAir
  <2>4. OnceInAir(ops \cup {op}, id)
    <3>1. OnceInAir(ops, id) /\ (Ongoing(op, id) => ~InAir(ops, id))
      BY <2>1, <2>2 DEF OnePlace, Free, Somewhere
    <3> QED BY <3>1 DEF OnceInAir, InAir
  <2> QED BY <2>1, <2>2, <2>3, <2>4 DEF OnePlace, Somewhere, Free
<1>4. "owes" \in Roles
  BY DEF Roles
<1> QED BY <1>2, <1>3, <1>4 DEF RequestInv

LEMMA RestateOperations ==
  ASSUME NEW ts, NEW commands, NEW ops, NEW left,
         \A id \in 1 .. MaxRequests : OnceInAir(left, id) /\ (InAir(left, id) => InAir(ops, id)),
         NEW queue, NEW answers, NEW asked,
         Requests(ts, commands, ops, queue, answers, asked)
  PROVE  Requests(ts, commands, left, queue, answers, asked)
<1>1. SUFFICES ASSUME NEW id \in 1 .. MaxRequests
               PROVE  RequestInv(ts, commands, left, queue, answers, asked, id)
  BY DEF Requests
<1>2. RequestInv(ts, commands, ops, queue, answers, asked, id)
  BY DEF Requests
<1>3. OnceInAir(left, id) /\ (InAir(left, id) => InAir(ops, id))
  OBVIOUS
<1>4. ASSUME NEW role \in Roles
      PROVE  /\ OnePlace(ts, commands, left, queue, role, id)
             /\ Somewhere(ts, commands, left, queue, role, id) =>
                  Somewhere(ts, commands, ops, queue, role, id)
  <2>1. OnePlace(ts, commands, ops, queue, role, id)
    BY <1>2 DEF RequestInv
  <2> QED BY <2>1, <1>3 DEF OnePlace, Somewhere
<1>5. "owes" \in Roles
  BY DEF Roles
<1> QED BY <1>2, <1>4, <1>5 DEF RequestInv

LEMMA KeepOperations ==
  ASSUME NEW ts, NEW commands, NEW ops, NEW left,
         \A other \in left : \A id \in 1 .. MaxRequests : Ongoing(other, id) => other \in ops,
         NEW queue, NEW answers, NEW asked,
         Requests(ts, commands, ops, queue, answers, asked)
  PROVE  Requests(ts, commands, left, queue, answers, asked)
<1>1. ASSUME NEW id \in 1 .. MaxRequests
      PROVE  OnceInAir(left, id) /\ (InAir(left, id) => InAir(ops, id))
  <2>1. RequestInv(ts, commands, ops, queue, answers, asked, id)
    BY DEF Requests
  <2>2. OnceInAir(ops, id)
    BY <2>1 DEF RequestInv, Roles, OnePlace
  <2> QED BY <2>2 DEF InAir, OnceInAir
<1> QED BY <1>1, RestateOperations

\* The queue without its first entry, or without the one that is cancelled.
Without(queue, left, entry) ==
  \A role \in Roles : \A id \in 1 .. MaxRequests :
    /\ InQueue(left, role, id) => InQueue(queue, role, id)
    /\ OnceInQueue(queue, id) => OnceInQueue(left, id)
    /\ OnceInQueue(queue, id) /\ entry.id = id /\ role = "owes" =>
         InQueue(queue, role, id) /\ ~InQueue(left, role, id)

Unanswered(answers, asked, id) == answers[id] = <<>> /\ id <= asked

LEMMA TakeQueued ==
  ASSUME NEW ts, NEW commands, NEW ops, NEW queue, NEW left, NEW entry, NEW answers, NEW asked,
         Without(queue, left, entry), Requests(ts, commands, ops, queue, answers, asked)
  PROVE  /\ Requests(ts, commands, ops, left, answers, asked)
         /\ \A id \in 1 .. MaxRequests :
              entry.id = id =>
                Free(ts, commands, ops, left, "owes", id) /\ Unanswered(answers, asked, id)
<1>1. SUFFICES ASSUME NEW id \in 1 .. MaxRequests
               PROVE  /\ RequestInv(ts, commands, ops, left, answers, asked, id)
                      /\ entry.id = id =>
                           /\ Free(ts, commands, ops, left, "owes", id)
                           /\ answers[id] = <<>> /\ id <= asked
  BY DEF Requests, Unanswered
<1>2. RequestInv(ts, commands, ops, queue, answers, asked, id)
  BY DEF Requests
<1>3. ASSUME NEW role \in Roles
      PROVE  /\ OnePlace(ts, commands, ops, left, role, id)
             /\ Somewhere(ts, commands, ops, left, role, id) =>
                  Somewhere(ts, commands, ops, queue, role, id)
             /\ entry.id = id /\ role = "owes" =>
                  /\ Somewhere(ts, commands, ops, queue, role, id)
                  /\ Free(ts, commands, ops, left, role, id)
  <2>1. OnePlace(ts, commands, ops, queue, role, id)
    BY <1>2 DEF RequestInv
  <2>2. /\ InQueue(left, role, id) => InQueue(queue, role, id)
        /\ OnceInQueue(left, id)
        /\ entry.id = id /\ role = "owes" =>
             InQueue(queue, role, id) /\ ~InQueue(left, role, id)
    BY <2>1 DEF OnePlace, Without
  <2> QED BY <2>1, <2>2 DEF OnePlace, Somewhere, Free
<1>4. "owes" \in Roles
  BY DEF Roles
<1> QED BY <1>2, <1>3, <1>4 DEF RequestInv

LEMMA PutQueued ==
  ASSUME NEW ts, NEW commands, NEW ops, NEW queue \in Seq(QueueEntry), NEW entry \in QueueEntry,
         NEW answers, NEW asked,
         Requests(ts, commands, ops, queue, answers, asked),
         \A id \in 1 .. MaxRequests :
           entry.id = id =>
             Free(ts, commands, ops, queue, "owes", id) /\ answers[id] = <<>> /\ id <= asked
  PROVE  Requests(ts, commands, ops, Append(queue, entry), answers, asked)
<1>1. SUFFICES ASSUME NEW id \in 1 .. MaxRequests
               PROVE  RequestInv(ts, commands, ops, Append(queue, entry), answers, asked, id)
  BY DEF Requests
<1>2. RequestInv(ts, commands, ops, queue, answers, asked, id)
  BY DEF Requests
<1>3. entry.id = id => Free(ts, commands, ops, queue, "owes", id)
  OBVIOUS
<1>4. ASSUME NEW role \in Roles
      PROVE  /\ OnePlace(ts, commands, ops, Append(queue, entry), role, id)
             /\ Somewhere(ts, commands, ops, Append(queue, entry), role, id) =>
                  Somewhere(ts, commands, ops, queue, role, id) \/ (role = "owes" /\ entry.id = id)
  <2>1. OnePlace(ts, commands, ops, queue, role, id)
    BY <1>2 DEF RequestInv
  <2>2. /\ InQueue(Append(queue, entry), role, id) <=>
             InQueue(queue, role, id) \/ (role = "owes" /\ entry.id = id)
        /\ OnceInQueue(Append(queue, entry), id)
    BY <2>1, <1>3, AppendQueue DEF OnePlace, Free, Somewhere
  <2>3. role = "owes" /\ entry.id = id => Free(ts, commands, ops, queue, role, id)
    BY <1>3
  <2> QED BY <2>1, <2>2, <2>3 DEF OnePlace, Somewhere, Free
<1>5. "owes" \in Roles
  BY DEF Roles
<1> QED BY <1>2, <1>4, <1>5 DEF RequestInv

\* The client of a request that nobody owes an answer to any more is told.
LEMMA TellRequests ==
  ASSUME NEW ts, NEW commands, NEW ops, NEW queue, NEW asked, NEW one \in 1 .. MaxRequests,
         Types, Requests(ts, commands, ops, queue, told, asked), Tell(one, one),
         Free(ts, commands, ops, queue, "owes", one), told[one] = <<>>, one <= asked
  PROVE  Requests(ts, commands, ops, queue, told', asked)
<1>1. SUFFICES ASSUME NEW id \in 1 .. MaxRequests
               PROVE  RequestInv(ts, commands, ops, queue, told', asked, id)
  BY DEF Requests
<1>2. RequestInv(ts, commands, ops, queue, told, asked, id)
  BY DEF Requests
<1>3. CASE id = one
  <2>1. told' = [told EXCEPT ![one] = Append(told[one], one)]
        /\ told \in [1 .. MaxRequests -> Seq(0 .. MaxRequests)]
    BY DEF Tell, Types
  <2>2. told'[one] = Append(<<>>, one)
    BY <2>1
  <2>3. told'[one] = <<one>>
    BY <2>2
  <2> QED BY <1>2, <1>3, <2>3 DEF RequestInv, Free
<1>4. CASE id # one
  <2>1. told'[id] = told[id]
    BY <1>4 DEF Tell, Types
  <2> QED BY <1>2, <2>1 DEF RequestInv
<1> QED BY <1>3, <1>4

LEMMA MoreAsked ==
  ASSUME NEW ts, NEW commands, NEW ops, NEW queue, NEW answers, NEW asked \in Nat,
         Requests(ts, commands, ops, queue, answers, asked)
  PROVE  /\ Requests(ts, commands, ops, queue, answers, asked + 1)
         /\ asked + 1 \in 1 .. MaxRequests =>
              Free(ts, commands, ops, queue, "owes", asked + 1) /\ answers[asked + 1] = <<>>
<1>1. ASSUME NEW id \in 1 .. MaxRequests
      PROVE  RequestInv(ts, commands, ops, queue, answers, asked + 1, id)
  <2>1. RequestInv(ts, commands, ops, queue, answers, asked, id)
    BY DEF Requests
  <2>2. id <= asked => id <= asked + 1
    OBVIOUS
  <2> QED BY <2>1, <2>2 DEF RequestInv
<1>2. ASSUME asked + 1 \in 1 .. MaxRequests
      PROVE  Free(ts, commands, ops, queue, "owes", asked + 1) /\ answers[asked + 1] = <<>>
  <2>1. RequestInv(ts, commands, ops, queue, answers, asked, asked + 1)
    BY <1>2 DEF Requests
  <2>2. ~(asked + 1 <= asked)
    OBVIOUS
  <2> QED BY <2>1, <2>2 DEF RequestInv, Free
<1> QED BY <1>1, <1>2 DEF Requests

-----------------------------------------------------------------------------
(* What closures, commands and operations are about *)

LEMMA CarryDrop ==
  ASSUME NEW ts, IsTasks(ts), NEW k \in Handlers, ts[k] # <<>>, NEW outgoing, NEW name,
         TasksCarry(ts, outgoing, name)
  PROVE  /\ TasksCarry(Drop(ts, k), outgoing, name)
         /\ Carries(Head(ts[k])) /\ TaskConcerns(Head(ts[k]), outgoing, name)
<1>1. 1 \in 1 .. Len(ts[k]) /\ Head(ts[k]) = ts[k][1]
  BY DropAt
<1>2. ASSUME NEW h \in Handlers, NEW n \in 1 .. Len(Drop(ts, k)[h])
      PROVE  Carries(Drop(ts, k)[h][n]) /\ TaskConcerns(Drop(ts, k)[h][n], outgoing, name)
  <2>1. PICK m \in 1 .. Len(ts[h]) : Drop(ts, k)[h][n] = ts[h][m]
    BY DropEach
  <2> QED BY <2>1 DEF TasksCarry
<1> QED BY <1>1, <1>2 DEF TasksCarry

LEMMA CarryPost ==
  ASSUME NEW ts, IsTasks(ts), NEW t, IsClosure(t), NEW outgoing, NEW name,
         TasksCarry(ts, outgoing, name), Carries(t), TaskConcerns(t, outgoing, name)
  PROVE  TasksCarry(Post(ts, t), outgoing, name)
<1>1. ASSUME NEW h \in Handlers, NEW n \in 1 .. Len(Post(ts, t)[h])
      PROVE  Carries(Post(ts, t)[h][n]) /\ TaskConcerns(Post(ts, t)[h][n], outgoing, name)
  <2>1. \/ n \in 1 .. Len(ts[h]) /\ Post(ts, t)[h][n] = ts[h][n]
        \/ Post(ts, t)[h][n] = t
    BY PostEach
  <2> QED BY <2>1 DEF TasksCarry
<1> QED BY <1>1 DEF TasksCarry

LEMMA CarryTail ==
  ASSUME NEW commands \in Seq(CommandRecord), commands # <<>>, NEW outgoing, NEW name,
         CommandsCarry(commands, outgoing, name)
  PROVE  /\ CommandsCarry(Tail(commands), outgoing, name)
         /\ CommandCarries(Head(commands)) /\ CommandConcerns(Head(commands), outgoing, name)
<1>1. /\ 1 \in 1 .. Len(commands) /\ Head(commands) = commands[1]
      /\ \A n \in 1 .. Len(Tail(commands)) :
           Tail(commands)[n] = commands[n + 1] /\ n + 1 \in 1 .. Len(commands)
  OBVIOUS
<1> QED BY <1>1 DEF CommandsCarry

LEMMA CarryAppend ==
  ASSUME NEW commands \in Seq(CommandRecord), NEW command \in CommandRecord,
         NEW outgoing, NEW name, CommandsCarry(commands, outgoing, name),
         CommandCarries(command), CommandConcerns(command, outgoing, name)
  PROVE  CommandsCarry(Append(commands, command), outgoing, name)
<1> DEFINE more == Append(commands, command)
<1>1. \A n \in 1 .. Len(more) :
        more[n] = command \/ (n \in 1 .. Len(commands) /\ more[n] = commands[n])
  OBVIOUS
<1> HIDE DEF more
<1>2. CommandsCarry(more, outgoing, name)
  BY <1>1 DEF CommandsCarry
<1> QED BY <1>2 DEF more

\* Whoever is to end an operation is about the outgoing one.
LEMMA EndsOutgoing ==
  ASSUME NEW ts, NEW commands, NEW ops, NEW queue, NEW outgoing, NEW name,
         Contents(ts, commands, ops, outgoing, name), NEW id \in 1 .. MaxRequests,
         Somewhere(ts, commands, ops, queue, "ends", id)
  PROVE  outgoing.id = id
<1>1. CASE InTasks(ts, "ends", id)
  <2>1. PICK h \in Handlers : \E n \in 1 .. Len(ts[h]) : Plays(ts[h][n], "ends", id)
    BY <1>1 DEF InTasks
  <2>2. PICK n \in 1 .. Len(ts[h]) : Plays(ts[h][n], "ends", id)
    BY <2>1
  <2>3. TaskConcerns(ts[h][n], outgoing, name)
    BY DEF Contents, TasksCarry
  <2>4. Concerns(ts[h][n].entry, outgoing)
    BY <2>2, <2>3 DEF TaskConcerns
  <2> QED BY <2>2, <2>4 DEF Concerns, Plays
<1>2. CASE InHci(commands, id)
  <2>1. PICK n \in 1 .. Len(commands) : Starting(commands[n], id)
    BY <1>2 DEF InHci
  <2>2. Concerns(commands[n].entry, outgoing)
    BY <2>1 DEF Contents, CommandsCarry, CommandConcerns
  <2> QED BY <2>1, <2>2 DEF Concerns, Starting
<1>3. CASE InAir(ops, id)
  <2>1. PICK op \in ops : Ongoing(op, id)
    BY <1>3 DEF InAir
  <2>2. Concerns(op, outgoing)
    BY <2>1 DEF Contents, OperationsAre, OperationConcerns
  <2> QED BY <2>1, <2>2 DEF Concerns, Ongoing
<1> QED BY <1>1, <1>2, <1>3 DEF Somewhere, InQueue

\* With nobody to end an operation, any other one may become the outgoing one.
LEMMA Released ==
  ASSUME NEW ts, NEW commands, NEW ops, NEW queue, NEW outgoing, NEW name,
         Contents(ts, commands, ops, outgoing, name), NEW other, NEW called,
         ops \subseteq Operation,
         \A id \in 1 .. MaxRequests : Free(ts, commands, ops, queue, "ends", id)
  PROVE  Contents(ts, commands, ops, other, called)
<1>1. ASSUME NEW h \in Handlers, NEW n \in 1 .. Len(ts[h])
      PROVE  Carries(ts[h][n]) /\ TaskConcerns(ts[h][n], other, called)
  <2> DEFINE t == ts[h][n]
  <2>1. Carries(t)
    BY DEF Contents, TasksCarry
  <2>2. \A id \in 1 .. MaxRequests : ~Plays(t, "ends", id)
    BY DEF Free, Somewhere, InTasks
  <2> HIDE DEF t
  <2>3. ASSUME t.run \in NameEnds, t.entry.kind = "RNR" PROVE FALSE
    <3>1. IsPage(t.entry, "RNR")
      BY <2>1, <2>3 DEF Carries, IsCall, IsPage, NameEnds
    <3>2. t.entry.id \in 1 .. MaxRequests
      BY <3>1 DEF IsPage
    <3>3. Plays(t, "ends", t.entry.id)
      BY <2>3 DEF Plays, Ending, Passing, NameEnds
    <3> QED BY <2>2, <3>2, <3>3
  <2> QED BY <2>1, <2>2, <2>3 DEF TaskConcerns, t
<1>2. ASSUME NEW n \in 1 .. Len(commands)
      PROVE  CommandCarries(commands[n]) /\ CommandConcerns(commands[n], other, called)
  <2> DEFINE c == commands[n]
  <2>1. CommandCarries(c)
    BY DEF Contents, CommandsCarry
  <2>2. \A id \in 1 .. MaxRequests : ~Starting(c, id)
    BY DEF Free, Somewhere, InHci
  <2> HIDE DEF c
  <2>3. ASSUME c.op = "REMOTE_NAME_REQUEST" PROVE FALSE
    <3>1. c.entry.id \in 1 .. MaxRequests
      BY <2>1, <2>3 DEF CommandCarries, IsPage
    <3>2. Starting(c, c.entry.id)
      BY <2>3 DEF Starting
    <3> QED BY <2>2, <3>1, <3>2
  <2> QED BY <2>1, <2>2, <2>3 DEF CommandConcerns, c
<1>3. ASSUME NEW op \in ops
      PROVE  OperationIs(op) /\ OperationConcerns(op, other, called)
  <2>1. OperationIs(op)
    BY DEF Contents, OperationsAre
  <2>2. \A id \in 1 .. MaxRequests : ~Ongoing(op, id)
    BY DEF Free, Somewhere, InAir
  <2>3. ASSUME op.kind = "RNR" PROVE FALSE
    <3>1. op.id \in 1 .. MaxRequests /\ op.state # "link"
      BY <2>1, <2>3 DEF OperationIs, IsPage, IsCall
    <3> QED BY <2>2, <3>1 DEF Ongoing
  <2> QED BY <2>1, <2>2, <2>3 DEF OperationConcerns
<1> QED BY <1>1, <1>2, <1>3 DEF Contents, TasksCarry, CommandsCarry, OperationsAre

-----------------------------------------------------------------------------
(* A device that calls is registered before its connection completes *)

LEMMA TailCalls ==
  ASSUME NEW s \in Seq(ClosureRecord), s # <<>>, NEW m, NEW c
  PROVE  /\ Spaced(s, m, c) => Spaced(Tail(s), m, c)
         /\ Calm(s, m, c) => Calm(Tail(s), m, c)
         /\ ~Arrives(Head(s), m, c) /\ Opens(s, m, c) => Opens(Tail(s), m, c)
         /\ ~Arrives(Head(s), m, c) /\ Stays(s, m, c) => Stays(Tail(s), m, c)
         /\ Arrives(Head(s), m, c) /\ Stays(s, m, c) => Stays(Tail(s), m, c) \/ Calm(Tail(s), m, c)
         /\ Leaves(Head(s), m, c) =>
              /\ ~Opens(s, m, c) /\ ~Calm(s, m, c)
              /\ Spaced(s, m, c) => Opens(Tail(s), m, c)
<1> DEFINE r == Tail(s)
<1>1. /\ Len(s) \in Nat /\ Len(s) >= 1 /\ Head(s) = s[1] /\ Len(r) = Len(s) - 1
      /\ \A n \in 1 .. Len(r) : r[n] = s[n + 1] /\ n + 1 \in 1 .. Len(s)
  OBVIOUS
<1> HIDE DEF r
<1>2. ASSUME Spaced(s, m, c) PROVE Spaced(r, m, c)
  <2>1. SUFFICES ASSUME NEW i \in 1 .. Len(r), NEW j \in 1 .. Len(r), i < j,
                        Leaves(r[i], m, c), Leaves(r[j], m, c)
                 PROVE  \E k \in i .. j : Arrives(r[k], m, c)
    BY DEF Spaced
  <2>2. PICK k \in i + 1 .. j + 1 : Arrives(s[k], m, c)
    BY <1>1, <1>2, <2>1 DEF Spaced
  <2>3. k - 1 \in i .. j /\ k - 1 \in 1 .. Len(r) /\ (k - 1) + 1 = k
    BY <1>1
  <2>4. r[k - 1] = s[k]
    BY <1>1, <2>3
  <2> QED BY <2>2, <2>3, <2>4
<1>3. ASSUME Calm(s, m, c) PROVE Calm(r, m, c)
  BY <1>1, <1>3 DEF Calm
<1>4. ASSUME ~Arrives(Head(s), m, c), Opens(s, m, c) PROVE Opens(r, m, c)
  <2>1. SUFFICES ASSUME NEW j \in 1 .. Len(r), Leaves(r[j], m, c)
                 PROVE  \E k \in 1 .. j : Arrives(r[k], m, c)
    BY DEF Opens
  <2>2. PICK k \in 1 .. j + 1 : Arrives(s[k], m, c)
    BY <1>1, <1>4, <2>1 DEF Opens
  <2>3. k # 1
    BY <1>1, <1>4, <2>2
  <2>4. k - 1 \in 1 .. j /\ k - 1 \in 1 .. Len(r) /\ (k - 1) + 1 = k
    BY <1>1, <2>3
  <2>5. r[k - 1] = s[k]
    BY <1>1, <2>4
  <2> QED BY <2>2, <2>4, <2>5
<1>5. ASSUME NEW k \in 1 .. Len(s), Arrives(s[k], m, c), k # 1,
             \A j \in k .. Len(s) : ~Leaves(s[j], m, c)
      PROVE  Stays(r, m, c)
  <2>1. k - 1 \in 1 .. Len(r) /\ (k - 1) + 1 = k
    BY <1>1, <1>5
  <2>2. r[k - 1] = s[k]
    BY <1>1, <2>1
  <2>3. ASSUME NEW j \in k - 1 .. Len(r) PROVE ~Leaves(r[j], m, c)
    <3>1. j \in 1 .. Len(r) /\ j + 1 \in k .. Len(s)
      BY <1>1, <2>1
    <3> QED BY <1>1, <1>5, <3>1
  <2> QED BY <1>5, <2>1, <2>2, <2>3 DEF Stays
<1>6. ASSUME Stays(s, m, c)
      PROVE  /\ ~Arrives(Head(s), m, c) => Stays(r, m, c)
             /\ Stays(r, m, c) \/ Calm(r, m, c)
  <2>1. PICK k \in 1 .. Len(s) :
          Arrives(s[k], m, c) /\ \A j \in k .. Len(s) : ~Leaves(s[j], m, c)
    BY <1>6 DEF Stays
  <2>2. CASE k # 1
    BY <2>1, <2>2, <1>5
  <2>3. CASE k = 1
    <3>1. Calm(r, m, c)
      BY <1>1, <2>1, <2>3 DEF Calm
    <3> QED BY <1>1, <2>1, <2>3, <3>1
  <2> QED BY <2>2, <2>3
<1>7. ASSUME Leaves(Head(s), m, c)
      PROVE  /\ ~Opens(s, m, c) /\ ~Calm(s, m, c)
             /\ Spaced(s, m, c) => Opens(r, m, c)
  <2>1. Leaves(s[1], m, c) /\ ~Arrives(s[1], m, c) /\ 1 \in 1 .. Len(s)
    BY <1>1, <1>7 DEF Leaves, Arrives
  <2>2. ~Opens(s, m, c) /\ ~Calm(s, m, c)
    BY <2>1 DEF Opens, Calm
  <2>3. ASSUME Spaced(s, m, c), NEW j \in 1 .. Len(r), Leaves(r[j], m, c)
        PROVE  \E k \in 1 .. j : Arrives(r[k], m, c)
    <3>1. j + 1 \in 1 .. Len(s) /\ Leaves(s[j + 1], m, c) /\ 1 < j + 1
      BY <1>1, <2>3
    <3>2. PICK k \in 1 .. j + 1 : Arrives(s[k], m, c)
      BY <2>1, <2>3, <3>1 DEF Spaced
    <3>3. k # 1
      BY <2>1, <3>2
    <3>4. k - 1 \in 1 .. j /\ k - 1 \in 1 .. Len(r) /\ (k - 1) + 1 = k
      BY <1>1, <3>3
    <3>5. r[k - 1] = s[k]
      BY <1>1, <3>4
    <3> QED BY <3>2, <3>4, <3>5
  <2> QED BY <2>2, <2>3 DEF Opens
<1> QED BY <1>2, <1>3, <1>4, <1>6, <1>7 DEF r

LEMMA AppendCalls ==
  ASSUME NEW s \in Seq(ClosureRecord), NEW t \in ClosureRecord, NEW m, NEW c
  PROVE  /\ ~Leaves(t, m, c) =>
              /\ Spaced(s, m, c) => Spaced(Append(s, t), m, c)
              /\ Opens(s, m, c) => Opens(Append(s, t), m, c)
              /\ Stays(s, m, c) => Stays(Append(s, t), m, c)
              /\ Calm(s, m, c) => Calm(Append(s, t), m, c)
         /\ Arrives(t, m, c) => Stays(Append(s, t), m, c)
         /\ Stays(s, m, c) \/ Calm(s, m, c) => (Spaced(s, m, c) => Spaced(Append(s, t), m, c))
         /\ Stays(s, m, c) /\ Opens(s, m, c) => Opens(Append(s, t), m, c)
<1> DEFINE r == Append(s, t)
<1>1. /\ Len(s) \in Nat /\ Len(r) = Len(s) + 1 /\ r[Len(s) + 1] = t
      /\ \A n \in 1 .. Len(s) : r[n] = s[n]
  OBVIOUS
<1> HIDE DEF r
<1>2. \A n \in 1 .. Len(r) : n \in 1 .. Len(s) \/ n = Len(s) + 1
  BY <1>1
<1>3. ASSUME NEW i \in 1 .. Len(s), NEW j \in 1 .. Len(s), NEW k \in i .. j, Arrives(s[k], m, c)
      PROVE  Arrives(r[k], m, c)
  <2>1. k \in 1 .. Len(s)
    OBVIOUS
  <2> QED BY <1>1, <1>3, <2>1
<1>4. ASSUME Spaced(s, m, c), Stays(s, m, c) \/ Calm(s, m, c) \/ ~Leaves(t, m, c)
      PROVE  Spaced(r, m, c)
  <2>1. SUFFICES ASSUME NEW i \in 1 .. Len(r), NEW j \in 1 .. Len(r), i < j,
                        Leaves(r[i], m, c), Leaves(r[j], m, c)
                 PROVE  \E k \in i .. j : Arrives(r[k], m, c)
    BY DEF Spaced
  <2>2. i \in 1 .. Len(s) /\ Leaves(s[i], m, c)
    BY <1>1, <1>2, <2>1
  <2>3. CASE j \in 1 .. Len(s)
    <3>1. Leaves(s[j], m, c)
      BY <1>1, <2>1, <2>3
    <3>2. PICK k \in i .. j : Arrives(s[k], m, c)
      BY <1>4, <2>1, <2>2, <2>3, <3>1 DEF Spaced
    <3> QED BY <1>3, <2>2, <2>3, <3>2
  <2>4. CASE j = Len(s) + 1
    <3>1. Leaves(t, m, c) /\ ~Calm(s, m, c)
      BY <1>1, <2>1, <2>2, <2>4 DEF Calm
    <3>2. PICK k \in 1 .. Len(s) :
            Arrives(s[k], m, c) /\ \A n \in k .. Len(s) : ~Leaves(s[n], m, c)
      BY <1>4, <3>1 DEF Stays
    <3>3. ~(k <= i)
      BY <2>2, <3>2
    <3>4. k \in i .. j /\ r[k] = s[k]
      BY <1>1, <2>2, <2>4, <3>3
    <3> QED BY <3>2, <3>4
  <2> QED BY <1>2, <2>3, <2>4
<1>5. ASSUME Opens(s, m, c), Stays(s, m, c) \/ ~Leaves(t, m, c)
      PROVE  Opens(r, m, c)
  <2>1. SUFFICES ASSUME NEW j \in 1 .. Len(r), Leaves(r[j], m, c)
                 PROVE  \E k \in 1 .. j : Arrives(r[k], m, c)
    BY DEF Opens
  <2>2. CASE j \in 1 .. Len(s)
    <3>1. PICK k \in 1 .. j : Arrives(s[k], m, c)
      BY <1>1, <1>5, <2>1, <2>2 DEF Opens
    <3> QED BY <1>1, <2>2, <3>1
  <2>3. CASE j = Len(s) + 1
    <3>1. PICK k \in 1 .. Len(s) : Arrives(s[k], m, c)
      BY <1>1, <1>5, <2>1, <2>3 DEF Stays
    <3> QED BY <1>1, <2>3, <3>1
  <2> QED BY <1>2, <2>2, <2>3
<1>6. ASSUME Stays(s, m, c), ~Leaves(t, m, c)
      PROVE  Stays(r, m, c)
  <2>1. PICK k \in 1 .. Len(s) :
          Arrives(s[k], m, c) /\ \A j \in k .. Len(s) : ~Leaves(s[j], m, c)
    BY <1>6 DEF Stays
  <2>2. k \in 1 .. Len(r) /\ r[k] = s[k]
    BY <1>1
  <2>3. ASSUME NEW j \in k .. Len(r) PROVE ~Leaves(r[j], m, c)
    <3>1. CASE j = Len(s) + 1
      BY <1>1, <1>6, <3>1
    <3>2. CASE j # Len(s) + 1
      <4>1. j \in k .. Len(s) /\ r[j] = s[j]
        BY <1>1, <3>2
      <4> QED BY <2>1, <4>1
    <3> QED BY <3>1, <3>2
  <2> QED BY <2>1, <2>2, <2>3 DEF Stays
<1>7. ASSUME Calm(s, m, c), ~Leaves(t, m, c) PROVE Calm(r, m, c)
  BY <1>1, <1>2, <1>7 DEF Calm
<1>8. ASSUME Arrives(t, m, c) PROVE Stays(r, m, c)
  <2>1. Len(s) + 1 \in 1 .. Len(r) /\ Arrives(r[Len(s) + 1], m, c) /\ ~Leaves(t, m, c)
    BY <1>1, <1>8 DEF Arrives, Leaves
  <2>2. \A j \in Len(s) + 1 .. Len(r) : ~Leaves(r[j], m, c)
    BY <1>1, <2>1
  <2> QED BY <2>1, <2>2 DEF Stays
<1> QED BY <1>4, <1>5, <1>6, <1>7, <1>8 DEF r

-----------------------------------------------------------------------------
(* Calls, as closures are taken and posted *)

\* What becomes of the closures s of module m, which are u once head has been taken (own:
\* from s) or t has been posted.
Taken(head, own, s, u, m, c) ==
  /\ Spaced(s, m, c) => Spaced(u, m, c)
  /\ Calm(s, m, c) => Calm(u, m, c)
  /\ ~Arrives(head, m, c) =>
       (Opens(s, m, c) => Opens(u, m, c)) /\ (Stays(s, m, c) => Stays(u, m, c))
  /\ Stays(s, m, c) => Stays(u, m, c) \/ Calm(u, m, c)
  /\ own /\ Leaves(head, m, c) =>
       ~Opens(s, m, c) /\ ~Calm(s, m, c) /\ (Spaced(s, m, c) => Opens(u, m, c))
Added(t, s, u, m, c) ==
  /\ ~Leaves(t, m, c) =>
       /\ Spaced(s, m, c) => Spaced(u, m, c)
       /\ Opens(s, m, c) => Opens(u, m, c)
       /\ Stays(s, m, c) => Stays(u, m, c)
       /\ Calm(s, m, c) => Calm(u, m, c)
  /\ Arrives(t, m, c) => Stays(u, m, c)
  /\ Stays(s, m, c) \/ Calm(s, m, c) => (Spaced(s, m, c) => Spaced(u, m, c))
  /\ Stays(s, m, c) /\ Opens(s, m, c) => Opens(u, m, c)

LEMMA DropSegment ==
  ASSUME NEW ts, IsTasks(ts), NEW k \in Handlers, ts[k] # <<>>, NEW m \in Modules, NEW c
  PROVE  Taken(Head(ts[k]), k = HandlerOf(m), ts[HandlerOf(m)], Drop(ts, k)[HandlerOf(m)], m, c)
<1> DEFINE s == ts[HandlerOf(m)]
           u == Drop(ts, k)[HandlerOf(m)]
<1>1. HandlerOf(m) \in Handlers /\ ts \in [Handlers -> Seq(ClosureRecord)]
  BY HandlerIs DEF IsTasks
<1>2. CASE k = HandlerOf(m)
  <2>1. s \in Seq(ClosureRecord) /\ s # <<>> /\ u = Tail(s) /\ Head(ts[k]) = Head(s)
    BY <1>1, <1>2 DEF Drop
  <2> HIDE DEF s, u
  <2>2. Taken(Head(ts[k]), k = HandlerOf(m), s, u, m, c)
    BY <2>1, TailCalls DEF Taken
  <2> QED BY <2>2 DEF s, u
<1>3. CASE k # HandlerOf(m)
  <2>1. u = s
    BY <1>1, <1>3 DEF Drop
  <2> HIDE DEF s, u
  <2>2. Taken(Head(ts[k]), k = HandlerOf(m), s, u, m, c)
    BY <1>3, <2>1 DEF Taken
  <2> QED BY <2>2 DEF s, u
<1> QED BY <1>2, <1>3

LEMMA PostSegment ==
  ASSUME NEW ts, IsTasks(ts), NEW t, IsClosure(t), NEW m \in Modules, NEW c
  PROVE  Added(t, ts[HandlerOf(m)], Post(ts, t)[HandlerOf(m)], m, c)
<1> DEFINE k == HandlerOf(t.module)
           s == ts[HandlerOf(m)]
           u == Post(ts, t)[HandlerOf(m)]
<1>1. /\ HandlerOf(m) \in Handlers /\ k \in Handlers /\ t \in ClosureRecord
      /\ ts \in [Handlers -> Seq(ClosureRecord)]
  BY HandlerIs DEF IsTasks, IsClosure, ClosureRecord
<1>2. Post(ts, t) = [ts EXCEPT ![k] = Append(ts[k], t)]
  BY DEF Post
<1>3. k # HandlerOf(m) => t.module # m
  OBVIOUS
<1> HIDE DEF k
<1>4. CASE k = HandlerOf(m)
  <2>1. s \in Seq(ClosureRecord) /\ u = Append(s, t)
    BY <1>1, <1>2, <1>4
  <2> HIDE DEF s, u
  <2>2. Added(t, s, u, m, c)
    BY <1>1, <2>1, AppendCalls DEF Added
  <2> QED BY <2>2 DEF s, u
<1>5. CASE k # HandlerOf(m)
  <2>1. u = s
    BY <1>1, <1>2, <1>5
  <2> HIDE DEF s, u
  <2>2. Added(t, s, u, m, c)
    BY <1>3, <1>5, <2>1 DEF Added, Arrives
  <2> QED BY <2>2 DEF s, u
<1> QED BY <1>4, <1>5

LEMMA DropBoth ==
  ASSUME NEW ts, IsTasks(ts), NEW k \in Handlers, ts[k] # <<>>, NEW c
  PROVE  /\ Taken(Head(ts[k]), k = HandlerOf("scheduler"),
                  SchedulerTasks(ts), SchedulerTasks(Drop(ts, k)), "scheduler", c)
         /\ Taken(Head(ts[k]), k = HandlerOf("acl"), AclTasks(ts), AclTasks(Drop(ts, k)), "acl", c)
<1>1. "scheduler" \in Modules /\ "acl" \in Modules
  BY DEF Modules
<1>2. Taken(Head(ts[k]), k = HandlerOf("scheduler"),
            ts[HandlerOf("scheduler")], Drop(ts, k)[HandlerOf("scheduler")], "scheduler", c)
  BY <1>1, DropSegment
<1>3. Taken(Head(ts[k]), k = HandlerOf("acl"),
            ts[HandlerOf("acl")], Drop(ts, k)[HandlerOf("acl")], "acl", c)
  BY <1>1, DropSegment
<1> QED BY <1>2, <1>3 DEF SchedulerTasks, AclTasks

LEMMA PostBoth ==
  ASSUME NEW ts, IsTasks(ts), NEW t, IsClosure(t), NEW c
  PROVE  /\ Added(t, SchedulerTasks(ts), SchedulerTasks(Post(ts, t)), "scheduler", c)
         /\ Added(t, AclTasks(ts), AclTasks(Post(ts, t)), "acl", c)
<1>1. "scheduler" \in Modules /\ "acl" \in Modules
  BY DEF Modules
<1>2. Added(t, ts[HandlerOf("scheduler")], Post(ts, t)[HandlerOf("scheduler")], "scheduler", c)
  BY <1>1, PostSegment
<1>3. Added(t, ts[HandlerOf("acl")], Post(ts, t)[HandlerOf("acl")], "acl", c)
  BY <1>1, PostSegment
<1> QED BY <1>2, <1>3 DEF SchedulerTasks, AclTasks

\* Closures that register no device leave and closures that complete no connection come
\* without a change.
LEMMA DropCall ==
  ASSUME NEW ts, IsTasks(ts), NEW k \in Handlers, ts[k] # <<>>, NEW incoming, NEW ops, NEW c,
         ~Arrives(Head(ts[k]), "scheduler", c), ~Arrives(Head(ts[k]), "acl", c),
         CallInv(ts, incoming, ops, c)
  PROVE  CallInv(Drop(ts, k), incoming, ops, c)
BY DropBoth DEF Taken, CallInv, Known, KnownLater

LEMMA PostCall ==
  ASSUME NEW ts, IsTasks(ts), NEW t, IsClosure(t), NEW incoming, NEW ops, NEW c,
         ~Leaves(t, "scheduler", c), ~Leaves(t, "acl", c),
         CallInv(ts, incoming, ops, c)
  PROVE  CallInv(Post(ts, t), incoming, ops, c)
BY PostBoth DEF Added, CallInv, Known, KnownLater

\* classic_impl has the scheduler register the device;
LEMMA CallPassedOn ==
  ASSUME NEW ts, IsTasks(ts), NEW k \in Handlers, k = HandlerOf("acl"), ts[k] # <<>>,
         NEW t, IsClosure(t), NEW incoming, NEW ops, NEW c, CallInv(ts, incoming, ops, c),
         ~Arrives(Head(ts[k]), "scheduler", c), Arrives(t, "scheduler", c),
         ~Leaves(t, "scheduler", c), ~Leaves(t, "acl", c)
  PROVE  CallInv(Post(Drop(ts, k), t), incoming, ops, c)
<1> DEFINE left == Drop(ts, k)
<1>1. IsTasks(left)
  BY DropTypes
<1>2. /\ Taken(Head(ts[k]), k = HandlerOf("scheduler"),
               SchedulerTasks(ts), SchedulerTasks(left), "scheduler", c)
      /\ Taken(Head(ts[k]), k = HandlerOf("acl"), AclTasks(ts), AclTasks(left), "acl", c)
  BY DropBoth
<1> HIDE DEF left
<1>3. /\ Added(t, SchedulerTasks(left), SchedulerTasks(Post(left, t)), "scheduler", c)
      /\ Added(t, AclTasks(left), AclTasks(Post(left, t)), "acl", c)
  BY <1>1, PostBoth
<1>4. CallInv(Post(left, t), incoming, ops, c)
  BY <1>2, <1>3 DEF Taken, Added, CallInv, Known, KnownLater
<1> QED BY <1>4 DEF left

\* it reports the end of the connection to the scheduler;
LEMMA EndPassedOn ==
  ASSUME NEW ts, IsTasks(ts), NEW k \in Handlers, k = HandlerOf("acl"), ts[k] # <<>>,
         NEW t, IsClosure(t), NEW incoming, NEW ops, NEW c, CallInv(ts, incoming, ops, c),
         Leaves(Head(ts[k]), "acl", c), ~Arrives(Head(ts[k]), "acl", c),
         ~Arrives(Head(ts[k]), "scheduler", c), ~Leaves(t, "acl", c)
  PROVE  CallInv(Post(Drop(ts, k), t), incoming, ops, c)
<1> DEFINE left == Drop(ts, k)
<1>1. IsTasks(left)
  BY DropTypes
<1>2. /\ Taken(Head(ts[k]), k = HandlerOf("scheduler"),
               SchedulerTasks(ts), SchedulerTasks(left), "scheduler", c)
      /\ Taken(Head(ts[k]), k = HandlerOf("acl"), AclTasks(ts), AclTasks(left), "acl", c)
  BY DropBoth
<1> HIDE DEF left
<1>3. /\ Added(t, SchedulerTasks(left), SchedulerTasks(Post(left, t)), "scheduler", c)
      /\ Added(t, AclTasks(left), AclTasks(Post(left, t)), "acl", c)
  BY <1>1, PostBoth
<1>4. CallInv(Post(left, t), incoming, ops, c)
  BY <1>2, <1>3 DEF Taken, Added, CallInv, Known, KnownLater
<1> QED BY <1>4 DEF left

\* the scheduler registers the device, or takes it off its set, where it is;
LEMMA CallRegistered ==
  ASSUME NEW ts, IsTasks(ts), NEW k \in Handlers, ts[k] # <<>>, NEW incoming, NEW ops, NEW c,
         CallInv(ts, incoming, ops, c), ~Arrives(Head(ts[k]), "acl", c)
  PROVE  CallInv(Drop(ts, k), incoming \cup {c}, ops, c)
<1>1. c \in incoming \cup {c}
  OBVIOUS
<1> QED BY <1>1, DropBoth DEF Taken, CallInv, Known, KnownLater

LEMMA CallEnded ==
  ASSUME NEW ts, IsTasks(ts), NEW k \in Handlers, k = HandlerOf("scheduler"), ts[k] # <<>>,
         NEW incoming, NEW ops, NEW c, CallInv(ts, incoming, ops, c),
         Leaves(Head(ts[k]), "scheduler", c), ~Arrives(Head(ts[k]), "scheduler", c),
         ~Arrives(Head(ts[k]), "acl", c)
  PROVE  c \in incoming /\ CallInv(Drop(ts, k), incoming \ {c}, ops, c)
BY DropBoth DEF Taken, CallInv, Known, KnownLater

\* and the controller announces a call and its end.
LEMMA CallComes ==
  ASSUME NEW ts, IsTasks(ts), NEW t, IsClosure(t), NEW incoming, NEW ops, NEW more, NEW c,
         CallInv(ts, incoming, ops, c), Arrives(t, "acl", c),
         ~Leaves(t, "scheduler", c), ~Leaves(t, "acl", c),
         \A p, q \in Calling(more, c) : p = q
  PROVE  CallInv(Post(ts, t), incoming, more, c)
BY PostBoth DEF Added, CallInv, Known, KnownLater

LEMMA CallGoes ==
  ASSUME NEW ts, IsTasks(ts), NEW t, IsClosure(t), NEW incoming, NEW ops, NEW left, NEW c,
         CallInv(ts, incoming, ops, c), Calling(ops, c) # {}, Calling(left, c) = {},
         ~Leaves(t, "scheduler", c)
  PROVE  CallInv(Post(ts, t), incoming, left, c)
BY PostBoth DEF Added, CallInv, Known, KnownLater

LEMMA CallKept ==
  ASSUME NEW ts, NEW incoming, NEW ops, NEW left, NEW c, CallInv(ts, incoming, ops, c),
         Calling(left, c) # {} => Calling(ops, c) # {}, \A p, q \in Calling(left, c) : p = q
  PROVE  CallInv(ts, incoming, left, c)
BY DEF CallInv

-----------------------------------------------------------------------------
(* The invariant of whatever the closures, commands and operations are *)



Whole(ts, commands, ops, outgoing, queue, incoming, name, answers, asked) ==
  /\ incoming \subseteq Callers
  /\ Contents(ts, commands, ops, outgoing, name)
  /\ Requests(ts, commands, ops, queue, answers, asked)
  /\ Calls(ts, incoming, ops)

\* A closure that has no request to answer or to end.
Silent(t) == \A role \in Roles : \A id \in 1 .. MaxRequests : ~Plays(t, role, id)

\* A closure that says nothing of a caller.
Aside(t) == \A c \in Callers : \A m \in {"scheduler", "acl"} : ~Arrives(t, m, c) /\ ~Leaves(t, m, c)

LEMMA PostWhole ==
  ASSUME NEW ts, IsTasks(ts), NEW t, IsClosure(t), NEW commands, NEW ops, NEW outgoing,
         NEW queue, NEW incoming, NEW name, NEW answers, NEW asked,
         Whole(ts, commands, ops, outgoing, queue, incoming, name, answers, asked),
         Carries(t), TaskConcerns(t, outgoing, name), Aside(t),
         \A role \in Roles : \A id \in 1 .. MaxRequests :
           Plays(t, role, id) => Free(ts, commands, ops, queue, role, id),
         \A id \in 1 .. MaxRequests : Plays(t, "owes", id) => answers[id] = <<>> /\ id <= asked
  PROVE  Whole(Post(ts, t), commands, ops, outgoing, queue, incoming, name, answers, asked)
<1>1. Contents(Post(ts, t), commands, ops, outgoing, name)
  BY CarryPost DEF Whole, Contents
<1>2. Requests(Post(ts, t), commands, ops, queue, answers, asked)
  BY PutTask DEF Whole
<1>3. Calls(Post(ts, t), incoming, ops)
  <2>1. SUFFICES ASSUME NEW c \in Callers PROVE CallInv(Post(ts, t), incoming, ops, c)
    BY DEF Calls
  <2>2. CallInv(ts, incoming, ops, c) /\ ~Leaves(t, "scheduler", c) /\ ~Leaves(t, "acl", c)
    BY DEF Whole, Calls, Aside
  <2> QED BY <2>2, PostCall
<1> QED BY <1>1, <1>2, <1>3 DEF Whole

LEMMA SilentConcerns ==
  ASSUME NEW t, Silent(t), Carries(t), NEW outgoing, NEW name
  PROVE  TaskConcerns(t, outgoing, name)
<1>1. ASSUME t.run \in NameEnds, t.entry.kind = "RNR" PROVE FALSE
  <2>1. t.entry.id \in 1 .. MaxRequests
    BY <1>1 DEF Carries, IsCall, IsPage, NameEnds
  <2>2. Plays(t, "ends", t.entry.id)
    BY <1>1 DEF Plays, Ending, Passing
  <2> QED BY <2>1, <2>2 DEF Silent, Roles
<1> QED BY <1>1 DEF Silent, Roles, TaskConcerns

LEMMA PostSilent ==
  ASSUME NEW ts, IsTasks(ts), NEW t, IsClosure(t), NEW commands, NEW ops, NEW outgoing,
         NEW queue, NEW incoming, NEW name, NEW answers, NEW asked,
         Whole(ts, commands, ops, outgoing, queue, incoming, name, answers, asked),
         Carries(t), Aside(t), Silent(t)
  PROVE  Whole(Post(ts, t), commands, ops, outgoing, queue, incoming, name, answers, asked)
<1>1. TaskConcerns(t, outgoing, name)
  BY SilentConcerns
<1>2. /\ \A role \in Roles : \A id \in 1 .. MaxRequests :
           Plays(t, role, id) => Free(ts, commands, ops, queue, role, id)
      /\ \A id \in 1 .. MaxRequests : Plays(t, "owes", id) => answers[id] = <<>> /\ id <= asked
  BY DEF Silent, Roles
<1> QED BY <1>1, <1>2, PostWhole

LEMMA ReleasedWhole ==
  ASSUME NEW ts, NEW commands, NEW ops, NEW outgoing, NEW queue, NEW incoming, NEW name,
         NEW answers, NEW asked, ops \subseteq Operation,
         Whole(ts, commands, ops, outgoing, queue, incoming, name, answers, asked),
         \A id \in 1 .. MaxRequests : Free(ts, commands, ops, queue, "ends", id),
         NEW other, NEW called
  PROVE  Whole(ts, commands, ops, other, queue, incoming, called, answers, asked)
<1>1. Contents(ts, commands, ops, other, called)
  BY Released DEF Whole
<1> QED BY <1>1 DEF Whole

LEMMA StartFacts ==
  ASSUME NEW entry \in QueueEntry, NEW t, t = Start(entry), NEW name
  PROVE  /\ IsClosure(t) /\ Carries(t) /\ Aside(t) /\ TaskConcerns(t, entry, name)
         /\ \A role \in Roles : \A id \in 1 .. MaxRequests : Plays(t, role, id) => entry.id = id
<1>1. IsClosure(t)
  BY StartIs
<1>2. /\ entry.kind = "ACL" => t = Closure("acl", "actually_create_connection", entry)
      /\ entry.kind = "RNR" => t = Closure("rnr", "actually_start_remote_name_request", entry)
  BY DEF Start
<1>3. /\ entry.kind \in {"ACL", "RNR"} /\ entry.address \in Peers
      /\ entry.id \in 1 .. MaxRequests
  BY QueueEntryIs DEF QueueEntry
<1>4. Carries(t)
  BY <1>2, <1>3 DEF Carries, Closure, IsPage
<1>5. t.run \in {"actually_create_connection", "actually_start_remote_name_request"}
        /\ t.entry = entry
  BY <1>2, <1>3 DEF Closure
<1>6. Aside(t)
  BY <1>5 DEF Aside, Arrives, Leaves
<1>7. TaskConcerns(t, entry, name)
  BY <1>5 DEF TaskConcerns, Concerns, NameEnds
<1> QED BY <1>1, <1>4, <1>5, <1>6, <1>7 DEF Plays

\* The next operation starts only when nobody is left to end another one: the exception
\* for a name of a device that is connecting to us does not apply.
LEMMA DequeueWhole ==
  ASSUME Undisturbed', NEW ts, IsTasks(ts), NEW commands, NEW ops, ops \subseteq Operation,
         NEW outgoing \in QueueEntry \cup {NoEntry}, NEW queue \in Seq(QueueEntry),
         NEW incoming, NEW name, NEW answers, NEW asked,
         Whole(ts, commands, ops, outgoing, queue, incoming, name, answers, asked),
         try_dequeue_next_operation(queue, outgoing, incoming, ts)
  PROVE  Whole(tasks', commands, ops, outgoing_entry_', pending_outgoing_operations_',
               incoming_connecting_address_set_', name, answers, asked)
<1>1. CASE ~ready_to_send_next_operation(queue, outgoing, incoming)
  BY <1>1 DEF try_dequeue_next_operation
<1>2. CASE ready_to_send_next_operation(queue, outgoing, incoming)
  <2> DEFINE entry == Head(queue)
             left == Tail(queue)
             t == Start(entry)
  <2>1. queue # <<>> /\ entry \in QueueEntry
    BY <1>2 DEF ready_to_send_next_operation
  <2>2. /\ incoming_connecting_address_set_' = incoming
        /\ pending_outgoing_operations_' = left /\ outgoing_entry_' = entry /\ tasks' = Post(ts, t)
    BY <1>2 DEF try_dequeue_next_operation
  <2>3. outgoing = NoEntry
    <3>1. entry # NoEntry
      <4> HIDE DEF entry
      <4> QED BY <2>1, QueueEntryIs, BoundsAreNat DEF NoEntry
    <3>2. entry.address \notin incoming
      <4> HIDE DEF entry
      <4> QED BY <2>2, <3>1 DEF Undisturbed, OutgoingIsConnecting
    <3> QED BY <1>2, <3>2 DEF ready_to_send_next_operation
  <2>5. ASSUME NEW id \in 1 .. MaxRequests PROVE Free(ts, commands, ops, left, "ends", id)
    <3>1. outgoing.id # id
      BY <2>3, BoundsAreNat DEF NoEntry
    <3>2. Contents(ts, commands, ops, outgoing, name)
      BY DEF Whole
    <3> HIDE DEF left
    <3> QED BY <3>1, <3>2, EndsOutgoing DEF Free
  <2>6. /\ Requests(ts, commands, ops, left, answers, asked)
        /\ \A id \in 1 .. MaxRequests : entry.id = id =>
             Free(ts, commands, ops, left, "owes", id) /\ answers[id] = <<>> /\ id <= asked
    <3>1. Without(queue, left, entry)
      BY <2>1, TailQueue DEF Without
    <3>2. Requests(ts, commands, ops, queue, answers, asked)
      BY DEF Whole
    <3> HIDE DEF left, entry
    <3>3. Requests(ts, commands, ops, left, answers, asked)
      BY <3>1, <3>2, TakeQueued
    <3>4. \A id \in 1 .. MaxRequests : entry.id = id =>
            Free(ts, commands, ops, left, "owes", id) /\ Unanswered(answers, asked, id)
      BY <3>1, <3>2, TakeQueued
    <3> QED BY <3>3, <3>4 DEF Unanswered
  <2>7. /\ IsClosure(t) /\ Carries(t) /\ Aside(t) /\ TaskConcerns(t, entry, name)
        /\ \A role \in Roles : \A id \in 1 .. MaxRequests : Plays(t, role, id) => entry.id = id
    <3> HIDE DEF entry
    <3> QED BY <2>1, StartFacts
  <2> HIDE DEF entry, left, t
  <2>8. Whole(ts, commands, ops, entry, left, incoming, name, answers, asked)
    <3>1. Whole(ts, commands, ops, outgoing, left, incoming, name, answers, asked)
      BY <2>6 DEF Whole
    <3> QED BY <2>5, <3>1, ReleasedWhole
  <2>9. /\ \A role \in Roles : \A id \in 1 .. MaxRequests :
             Plays(t, role, id) => Free(ts, commands, ops, left, role, id)
        /\ \A id \in 1 .. MaxRequests : Plays(t, "owes", id) => answers[id] = <<>> /\ id <= asked
    BY <2>5, <2>6, <2>7 DEF Roles
  <2>10. Whole(Post(ts, t), commands, ops, entry, left, incoming, name, answers, asked)
    BY <2>7, <2>8, <2>9, PostWhole
  <2> QED BY <2>2, <2>10
<1> QED BY <1>1, <1>2

-----------------------------------------------------------------------------
(* The closures that run *)

LEMMA InvNext ==
  ASSUME Types',
         Whole(tasks', hci', air', outgoing_entry_', pending_outgoing_operations_',
               incoming_connecting_address_set_', on_remote_name_complete_', told', Asked')
  PROVE  Inv'
BY DEF Inv, Whole

\* The handler takes the closure This(m) off its queue.
LEMMA Took ==
  ASSUME Inv, NEW m \in Modules, NEW run, Runs(m, run)
  PROVE  /\ Carries(This(m)) /\ TaskConcerns(This(m), outgoing_entry_, on_remote_name_complete_)
         /\ Contents(Rest(m), hci, air, outgoing_entry_, on_remote_name_complete_)
         /\ Requests(Rest(m), hci, air, pending_outgoing_operations_, told, Asked)
         /\ \A role \in Roles : \A id \in 1 .. MaxRequests :
              Plays(This(m), role, id) =>
                Free(Rest(m), hci, air, pending_outgoing_operations_, role, id)
         /\ \A id \in 1 .. MaxRequests :
              Plays(This(m), "owes", id) => told[id] = <<>> /\ id <= Asked
         /\ HandlerOf(m) \in Handlers /\ tasks[HandlerOf(m)] # <<>> /\ IsTasks(tasks)
         /\ Rest(m) = Drop(tasks, HandlerOf(m)) /\ This(m) = Head(tasks[HandlerOf(m)])
<1> DEFINE k == HandlerOf(m)
           queue == pending_outgoing_operations_
<1>1. /\ IsTasks(tasks) /\ k \in Handlers /\ tasks[k] # <<>>
      /\ Rest(m) = Drop(tasks, k) /\ This(m) = Head(tasks[k])
  BY HandlerIs, RestIsDrop DEF Inv, Types, Runs, This
<1> HIDE DEF k
<1>2. /\ TasksCarry(Drop(tasks, k), outgoing_entry_, on_remote_name_complete_)
      /\ Carries(Head(tasks[k])) /\ TaskConcerns(Head(tasks[k]), outgoing_entry_, on_remote_name_complete_)
  BY <1>1, CarryDrop DEF Inv, Contents
<1>3. /\ Requests(Drop(tasks, k), hci, air, queue, told, Asked)
      /\ \A role \in Roles : \A id \in 1 .. MaxRequests :
           Plays(Head(tasks[k]), role, id) => Free(Drop(tasks, k), hci, air, queue, role, id)
      /\ \A id \in 1 .. MaxRequests :
           Plays(Head(tasks[k]), "owes", id) => told[id] = <<>> /\ id <= Asked
  <2>1. Requests(tasks, hci, air, queue, told, Asked)
    BY DEF Inv
  <2> QED BY <1>1, <2>1, TakeTask
<1>4. Contents(Drop(tasks, k), hci, air, outgoing_entry_, on_remote_name_complete_)
  BY <1>2 DEF Inv, Contents
<1> QED BY <1>1, <1>2, <1>3, <1>4 DEF k

\* It is not one that passes a call on.
LEMMA TookAside ==
  ASSUME Inv, NEW m \in Modules, NEW run, Runs(m, run),
         run \notin {"on_incoming_connection", "RegisterPendingIncomingConnection"}
  PROVE  Whole(Rest(m), hci, air, outgoing_entry_, pending_outgoing_operations_,
               incoming_connecting_address_set_, on_remote_name_complete_, told, Asked)
<1> DEFINE k == HandlerOf(m)
<1>1. /\ k \in Handlers /\ tasks[k] # <<>> /\ IsTasks(tasks)
      /\ Rest(m) = Drop(tasks, k) /\ This(m) = Head(tasks[k])
      /\ Contents(Rest(m), hci, air, outgoing_entry_, on_remote_name_complete_)
      /\ Requests(Rest(m), hci, air, pending_outgoing_operations_, told, Asked)
  BY Took
<1> HIDE DEF k
<1>2. Head(tasks[k]).run = run
  BY <1>1 DEF Runs, This
<1>3. ASSUME NEW c \in Callers
      PROVE  CallInv(Drop(tasks, k), incoming_connecting_address_set_, air, c)
  <2>1. ~Arrives(Head(tasks[k]), "scheduler", c) /\ ~Arrives(Head(tasks[k]), "acl", c)
    BY <1>2 DEF Arrives
  <2>2. CallInv(tasks, incoming_connecting_address_set_, air, c)
    BY DEF Inv, Calls
  <2> QED BY <1>1, <2>1, <2>2, DropCall
<1> QED BY <1>1, <1>3 DEF Inv, Whole, Calls

\* It was the one to end the outgoing operation.
LEMMA TookEnds ==
  ASSUME Inv, NEW m \in Modules, NEW run, Runs(m, run), NEW one \in 1 .. MaxRequests,
         Plays(This(m), "ends", one)
  PROVE  /\ Concerns(This(m).entry, outgoing_entry_) /\ outgoing_entry_.id = one
         /\ \A id \in 1 .. MaxRequests :
              Free(Rest(m), hci, air, pending_outgoing_operations_, "ends", id)
<1>1. /\ TaskConcerns(This(m), outgoing_entry_, on_remote_name_complete_)
      /\ Contents(Rest(m), hci, air, outgoing_entry_, on_remote_name_complete_)
      /\ \A role \in Roles : \A id \in 1 .. MaxRequests :
              Plays(This(m), role, id) =>
                Free(Rest(m), hci, air, pending_outgoing_operations_, role, id)
  BY Took
<1>2. Concerns(This(m).entry, outgoing_entry_)
  BY <1>1 DEF TaskConcerns
<1>3. outgoing_entry_.id = one
  BY <1>2 DEF Concerns, Plays
<1>4. ASSUME NEW id \in 1 .. MaxRequests
      PROVE  Free(Rest(m), hci, air, pending_outgoing_operations_, "ends", id)
  <2>1. CASE id = one
    BY <1>1, <2>1 DEF Roles
  <2>2. CASE id # one
    BY <1>1, <1>3, <2>2, EndsOutgoing DEF Free
  <2> QED BY <2>1, <2>2
<1> QED BY <1>2, <1>3, <1>4

LEMMA SilentZero ==
  ASSUME NEW t, t.entry.id = 0
  PROVE  Silent(t)
BY BoundsAreNat DEF Silent, Plays

\* What the actions have left unchanged.
LEMMA AskedKept ==
  ASSUME counts' = counts
  PROVE  Asked' = Asked
BY DEF Asked

\* A closure about the same request takes the place of the one that has run.
LEMMA PassedOn ==
  ASSUME Inv, NEW m \in Modules, NEW run, Runs(m, run),
         run \notin {"on_incoming_connection", "RegisterPendingIncomingConnection"},
         NEW t, IsClosure(t), t.entry = This(m).entry, Carries(t), Aside(t),
         t.run \in NameEnds => This(m).run \in NameEnds,
         \A role \in Roles : \A id \in 1 .. MaxRequests :
           Plays(t, role, id) => Plays(This(m), role, id)
  PROVE  Whole(Post(Rest(m), t), hci, air, outgoing_entry_, pending_outgoing_operations_,
               incoming_connecting_address_set_, on_remote_name_complete_, told, Asked)
<1> DEFINE ts == Rest(m)
           queue == pending_outgoing_operations_
<1>1. Whole(ts, hci, air, outgoing_entry_, queue,
            incoming_connecting_address_set_, on_remote_name_complete_, told, Asked)
  BY TookAside
<1>2. /\ TaskConcerns(This(m), outgoing_entry_, on_remote_name_complete_)
      /\ \A role \in Roles : \A id \in 1 .. MaxRequests :
           Plays(This(m), role, id) => Free(ts, hci, air, queue, role, id)
      /\ \A id \in 1 .. MaxRequests :
           Plays(This(m), "owes", id) => told[id] = <<>> /\ id <= Asked
      /\ IsTasks(ts)
  BY Took, RunTypes DEF Inv
<1>3. TaskConcerns(t, outgoing_entry_, on_remote_name_complete_)
  BY <1>2 DEF TaskConcerns, Roles
<1>4. /\ \A role \in Roles : \A id \in 1 .. MaxRequests :
           Plays(t, role, id) => Free(ts, hci, air, queue, role, id)
      /\ \A id \in 1 .. MaxRequests : Plays(t, "owes", id) => told[id] = <<>> /\ id <= Asked
  BY <1>2 DEF Roles
<1> HIDE DEF ts
<1>5. Whole(Post(ts, t), hci, air, outgoing_entry_, queue,
            incoming_connecting_address_set_, on_remote_name_complete_, told, Asked)
  BY <1>1, <1>2, <1>3, <1>4, PostWhole
<1> QED BY <1>5 DEF ts

-----------------------------------------------------------------------------
(* The steps of the scheduler *)

LEMMA EnqueueInv ==
  ASSUME Undisturbed', Inv, Enqueue
  PROVE  Inv'
<1> DEFINE t == This("scheduler")
           ts == Rest("scheduler")
           queue == pending_outgoing_operations_
           incoming == incoming_connecting_address_set_
           name == on_remote_name_complete_
<1>1. Runs("scheduler", "Enqueue") /\ "scheduler" \in Modules /\ Types
  BY DEF Enqueue, Modules, Inv
<1>2. /\ IsTasks(ts) /\ IsClosure(t) /\ t.run = "Enqueue" /\ counts' = counts
      /\ t.entry \in QueueEntry
  BY <1>1, RunTypes DEF IsClosure
<1>3. Whole(ts, hci, air, outgoing_entry_, queue, incoming, name, told, Asked)
  BY <1>1, TookAside
<1>4. \A id \in 1 .. MaxRequests : t.entry.id = id =>
        Free(ts, hci, air, queue, "owes", id) /\ told[id] = <<>> /\ id <= Asked
  <2>1. \A id \in 1 .. MaxRequests : t.entry.id = id => Plays(t, "owes", id)
    BY <1>2 DEF Plays, Owing
  <2> QED BY <1>1, <2>1, Took DEF Roles
<1>5. queue \in Seq(QueueEntry) /\ outgoing_entry_ \in QueueEntry \cup {NoEntry} /\ air \subseteq Operation
  BY <1>1 DEF Types
<1>6. try_dequeue_next_operation(Append(queue, t.entry), outgoing_entry_, incoming, ts)
        /\ UNCHANGED <<names, connections, radio, fate, told>>
  BY DEF Enqueue
<1> DEFINE longer == Append(queue, t.entry)
<1>7. longer \in Seq(QueueEntry)
  BY <1>2, <1>5
<1>8. Requests(ts, hci, air, longer, told, Asked)
  <2>1. Requests(ts, hci, air, queue, told, Asked)
    BY <1>3 DEF Whole
  <2> HIDE DEF t, ts
  <2> QED BY <1>2, <1>4, <1>5, <2>1, PutQueued
<1> HIDE DEF t, ts, longer
<1>9. Whole(ts, hci, air, outgoing_entry_, longer, incoming, name, told, Asked)
  BY <1>3, <1>8 DEF Whole
<1>10. Whole(tasks', hci, air, outgoing_entry_', pending_outgoing_operations_',
             incoming_connecting_address_set_', name, told, Asked)
  BY <1>2, <1>5, <1>6, <1>7, <1>9, DequeueWhole DEF longer
<1>11. Types'
  BY <1>1, EnqueueTypes
<1> QED BY <1>2, <1>6, <1>10, <1>11, AskedKept, InvNext DEF names, radio

\* Of another device than the one that is registered or taken off.
LEMMA CallElsewhere ==
  ASSUME NEW ts, NEW incoming, NEW other, NEW ops, NEW c, CallInv(ts, incoming, ops, c),
         c \in incoming <=> c \in other
  PROVE  CallInv(ts, other, ops, c)
BY DEF CallInv, Known, KnownLater

LEMMA RegisterInv ==
  ASSUME Inv, RegisterPendingIncomingConnection
  PROVE  Inv'
<1> DEFINE t == This("scheduler")
           ts == Rest("scheduler")
           incoming == incoming_connecting_address_set_
           name == on_remote_name_complete_
           k == HandlerOf("scheduler")
           d == t.entry.address
<1>1. Runs("scheduler", "RegisterPendingIncomingConnection") /\ "scheduler" \in Modules /\ Types
  BY DEF RegisterPendingIncomingConnection, Modules, Inv
<1>2. /\ t.run = "RegisterPendingIncomingConnection" /\ counts' = counts
      /\ t.module = "scheduler"
  BY <1>1, RunTypes
<1>3. /\ Carries(t) /\ Contents(ts, hci, air, outgoing_entry_, name)
      /\ Requests(ts, hci, air, pending_outgoing_operations_, told, Asked)
      /\ k \in Handlers /\ tasks[k] # <<>> /\ IsTasks(tasks)
      /\ ts = Drop(tasks, k) /\ t = Head(tasks[k])
  BY <1>1, Took
<1>4. d \in Callers
  BY <1>2, <1>3 DEF Carries, IsCall
<1>5. ASSUME NEW c \in Callers
      PROVE  CallInv(ts, incoming \cup {d}, air, c)
  <2>1. CallInv(tasks, incoming, air, c) /\ ~Arrives(t, "acl", c)
    BY <1>2 DEF Inv, Calls, Arrives
  <2> HIDE DEF t, ts, k, d
  <2>2. CASE c = d
    BY <1>3, <2>1, <2>2, CallRegistered
  <2>3. CASE c # d
    <3>1. ~Arrives(t, "scheduler", c)
      BY <2>3 DEF Arrives, d
    <3>2. CallInv(ts, incoming, air, c)
      BY <1>3, <2>1, <3>1, DropCall
    <3>3. c \in incoming <=> c \in incoming \cup {d}
      BY <2>3
    <3> QED BY <3>2, <3>3, CallElsewhere
  <2> QED BY <2>2, <2>3
<1>6. Whole(ts, hci, air, outgoing_entry_, pending_outgoing_operations_, incoming \cup {d},
            name, told, Asked)
  BY <1>3, <1>4, <1>5 DEF Whole, Calls, Inv
<1>7. Types'
  BY <1>1, RegisterTypes
<1> HIDE DEF t, ts, k
<1>8. /\ incoming_connecting_address_set_' = incoming \cup {d} /\ tasks' = ts
      /\ UNCHANGED <<outgoing_entry_, pending_outgoing_operations_, names, connections,
                     radio, fate, told>>
  BY DEF RegisterPendingIncomingConnection, t, ts
<1> QED BY <1>2, <1>6, <1>7, <1>8, AskedKept, InvNext DEF names, radio

\* The completion of a call: the device is in the set.
LEMMA ReportCallInv ==
  ASSUME Undisturbed, Undisturbed', Inv, ReportAclConnectionCompletion,
         IsCall(This("scheduler").entry)
  PROVE  Inv'
<1> DEFINE t == This("scheduler")
           ts == Rest("scheduler")
           queue == pending_outgoing_operations_
           incoming == incoming_connecting_address_set_
           name == on_remote_name_complete_
           k == HandlerOf("scheduler")
           d == t.entry.address
           entry == [t.entry EXCEPT !.id = 0]
           answer == Completion("acl", "create_and_announce_connection", entry, t.success, t.entry.id)
<1>1. Runs("scheduler", "ReportAclConnectionCompletion") /\ "scheduler" \in Modules /\ Types
  BY DEF ReportAclConnectionCompletion, Modules, Inv
<1>2. /\ t.run = "ReportAclConnectionCompletion" /\ counts' = counts /\ t.module = "scheduler"
      /\ IsTasks(ts) /\ t.entry \in Entries /\ t.success \in BOOLEAN
  BY <1>1, RunTypes
<1>3. /\ Contents(ts, hci, air, outgoing_entry_, name)
      /\ Requests(ts, hci, air, queue, told, Asked)
      /\ k \in Handlers /\ tasks[k] # <<>> /\ IsTasks(tasks)
      /\ ts = Drop(tasks, k) /\ t = Head(tasks[k])
  BY <1>1, Took
<1>4. d \in Callers /\ t.entry.id = 0 /\ t.entry.kind = "INCOMING"
  BY DEF IsCall
<1>5. queue \in Seq(QueueEntry) /\ outgoing_entry_ \in QueueEntry \cup {NoEntry}
        /\ air \subseteq Operation
  BY <1>1 DEF Types
<1>6. d \in incoming /\ CallInv(ts, incoming \ {d}, air, d)
  <2>1. CallInv(tasks, incoming, air, d)
    BY <1>4 DEF Inv, Calls
  <2>2. Leaves(t, "scheduler", d) /\ ~Arrives(t, "scheduler", d) /\ ~Arrives(t, "acl", d)
    BY <1>2, <1>4 DEF Leaves, Arrives
  <2> HIDE DEF t, ts, d, k
  <2>3. k = HandlerOf("scheduler")
    BY DEF k
  <2> QED BY <1>3, <2>1, <2>2, <2>3, CallEnded
<1>7. ~(outgoing_entry_.kind = "ACL" /\ outgoing_entry_.address = d)
  BY <1>6 DEF Undisturbed, OutgoingIsConnecting, NoEntry
<1>8. ASSUME NEW c \in Callers, c # d
      PROVE  CallInv(ts, incoming \ {d}, air, c)
  <2>1. CallInv(tasks, incoming, air, c)
    BY DEF Inv, Calls
  <2>2. ~Arrives(t, "scheduler", c) /\ ~Arrives(t, "acl", c)
    BY <1>2 DEF Arrives
  <2> HIDE DEF t, ts, d, k
  <2>3. CallInv(ts, incoming, air, c)
    BY <1>3, <2>1, <2>2, DropCall
  <2>4. c \in incoming <=> c \in incoming \ {d}
    BY <1>8
  <2> QED BY <2>3, <2>4, CallElsewhere
<1>9. Whole(ts, hci, air, outgoing_entry_, queue, incoming \ {d}, name, told, Asked)
  BY <1>3, <1>6, <1>8 DEF Whole, Calls, Inv
<1>10. /\ try_dequeue_next_operation(queue, outgoing_entry_, incoming \ {d}, Post(ts, answer))
       /\ UNCHANGED <<names, connections, radio, fate, told>>
  BY <1>6, <1>7 DEF ReportAclConnectionCompletion
<1>11. IsClosure(answer)
  <2>1. entry \in Entries /\ t.entry.id \in 0 .. MaxRequests
    BY <1>2, EntryFields
  <2> HIDE DEF t, entry
  <2> QED BY <1>2, <2>1, CompletionIs DEF Modules, RunNames
<1>12. /\ answer.entry.id = 0 /\ answer.by = 0 /\ answer.module = "acl"
       /\ answer.run = "create_and_announce_connection"
  <2>1. entry.id = 0
    <3>1. CASE t.entry \in Requested
      BY <3>1 DEF Requested
    <3>2. CASE t.entry \in Operation
      BY <3>2 DEF Operation
    <3> QED BY <1>2, <3>1, <3>2 DEF Entries
  <2> HIDE DEF t, entry
  <2> QED BY <1>4, <2>1 DEF Completion
<1> HIDE DEF t, ts, d, k, entry, answer
<1>13. Carries(answer) /\ Silent(answer) /\ Aside(answer)
  BY <1>12, SilentZero DEF Carries, Aside, Arrives, Leaves
<1>14. Whole(Post(ts, answer), hci, air, outgoing_entry_, queue, incoming \ {d}, name, told, Asked)
  BY <1>2, <1>9, <1>11, <1>12, <1>13, PostSilent
<1>15. IsTasks(Post(ts, answer))
  BY <1>2, <1>11, PostTypes
<1>16. Whole(tasks', hci, air, outgoing_entry_', pending_outgoing_operations_',
             incoming_connecting_address_set_', name, told, Asked)
  <2> DEFINE waiting == Post(ts, answer)
             fewer == incoming \ {d}
  <2> HIDE DEF waiting, fewer
  <2> QED BY <1>5, <1>10, <1>14, <1>15, DequeueWhole DEF waiting, fewer
<1>17. Types'
  BY <1>1, ReportAclTypes
<1> QED BY <1>2, <1>10, <1>16, <1>17, AskedKept, InvNext DEF names, radio

\* The completion of a page: it is the outgoing operation.
LEMMA ReportPageInv ==
  ASSUME Undisturbed, Undisturbed', Inv, Types', ReportAclConnectionCompletion,
         IsPage(This("scheduler").entry, "ACL"), This("scheduler").by = This("scheduler").entry.id
  PROVE  Inv'
<1> DEFINE t == This("scheduler")
           ts == Rest("scheduler")
           queue == pending_outgoing_operations_
           incoming == incoming_connecting_address_set_
           name == on_remote_name_complete_
           one == t.entry.id
           answer == Completion("acl", "create_and_announce_connection", outgoing_entry_, t.success, one)
<1>1. Runs("scheduler", "ReportAclConnectionCompletion") /\ "scheduler" \in Modules /\ Types
  BY DEF ReportAclConnectionCompletion, Modules, Inv
<1>2. /\ t.run = "ReportAclConnectionCompletion" /\ counts' = counts
      /\ IsTasks(ts) /\ t.entry \in Entries /\ t.success \in BOOLEAN
  BY <1>1, RunTypes
<1>3. Whole(ts, hci, air, outgoing_entry_, queue, incoming, name, told, Asked)
  BY <1>1, <1>2, TookAside
<1>4. one \in 1 .. MaxRequests /\ t.entry.kind = "ACL" /\ t.entry.address \in Peers
  BY DEF IsPage
<1>5. Plays(t, "ends", one) /\ Plays(t, "owes", one)
  BY <1>2 DEF Plays, Ending, Owing, Passing, NameEnds
<1>6. /\ Concerns(t.entry, outgoing_entry_) /\ outgoing_entry_.id = one
      /\ \A id \in 1 .. MaxRequests : Free(ts, hci, air, queue, "ends", id)
  BY <1>1, <1>4, <1>5, TookEnds
<1>7. Free(ts, hci, air, queue, "owes", one) /\ told[one] = <<>> /\ one <= Asked
  BY <1>1, <1>4, <1>5, Took DEF Roles
<1>8. queue \in Seq(QueueEntry) /\ outgoing_entry_ \in QueueEntry /\ air \subseteq Operation
  <2>1. outgoing_entry_ # NoEntry
    BY <1>4, <1>6 DEF NoEntry
  <2> QED BY <1>1, <2>1 DEF Types
<1>9. incoming \ {t.entry.address} = incoming
  BY <1>4, <1>6 DEF Undisturbed, OutgoingIsConnecting, Concerns, NoEntry
<1>10. /\ try_dequeue_next_operation(queue, NoEntry, incoming, Post(ts, answer))
       /\ UNCHANGED <<names, connections, radio, fate, told>>
  BY <1>4, <1>6, <1>9 DEF ReportAclConnectionCompletion, Concerns
<1>11. IsClosure(answer)
  <2>1. outgoing_entry_ \in Entries /\ one \in 0 .. MaxRequests
    BY <1>4, <1>8, QueueEntryIs
  <2> HIDE DEF t, one
  <2> QED BY <1>2, <2>1, CompletionIs DEF Modules, RunNames
<1>12. /\ answer.entry = outgoing_entry_ /\ answer.by = one /\ answer.module = "acl"
       /\ answer.run = "create_and_announce_connection"
  BY DEF Completion
<1> HIDE DEF t, ts, one, answer
<1>13. Carries(answer) /\ Aside(answer)
  BY <1>6, <1>12 DEF Carries, Aside, Arrives, Leaves
<1>14. \A role \in Roles : \A id \in 1 .. MaxRequests :
         Plays(answer, role, id) => id = one /\ role = "owes"
  BY <1>6, <1>12 DEF Plays, Ending, Passing, NameEnds, Statuses, Roles
<1>15. TaskConcerns(answer, NoEntry, name)
  BY <1>12, <1>14 DEF TaskConcerns, Roles, NameEnds
<1>16. Whole(ts, hci, air, NoEntry, queue, incoming, name, told, Asked)
  BY <1>3, <1>6, <1>8, ReleasedWhole
<1>17. Whole(Post(ts, answer), hci, air, NoEntry, queue, incoming, name, told, Asked)
  <2>1. /\ \A role \in Roles : \A id \in 1 .. MaxRequests :
             Plays(answer, role, id) => Free(ts, hci, air, queue, role, id)
        /\ \A id \in 1 .. MaxRequests : Plays(answer, "owes", id) => told[id] = <<>> /\ id <= Asked
    BY <1>7, <1>14 DEF Roles
  <2> QED BY <1>2, <1>11, <1>13, <1>15, <1>16, <2>1, PostWhole
<1>18. IsTasks(Post(ts, answer))
  BY <1>2, <1>11, PostTypes
<1>19. Whole(tasks', hci, air, outgoing_entry_', pending_outgoing_operations_',
             incoming_connecting_address_set_', name, told, Asked)
  <2> DEFINE waiting == Post(ts, answer)
             none == NoEntry
  <2>1. none \in QueueEntry \cup {NoEntry}
    OBVIOUS
  <2> HIDE DEF waiting, none
  <2> QED BY <1>8, <1>10, <1>17, <1>18, <2>1, DequeueWhole DEF waiting, none
<1> QED BY <1>2, <1>10, <1>19, AskedKept, InvNext DEF names, radio

\* The end of a cancelled name request, which the controller has reported as the end of a
\* connection: the scheduler does not know of such a connection.
LEMMA ReportNameInv ==
  ASSUME Undisturbed, Undisturbed', Inv, Types', ReportAclConnectionCompletion,
         IsPage(This("scheduler").entry, "RNR"), ~This("scheduler").success,
         This("scheduler").by = This("scheduler").entry.id
  PROVE  Inv'
<1> DEFINE t == This("scheduler")
           ts == Rest("scheduler")
           queue == pending_outgoing_operations_
           incoming == incoming_connecting_address_set_
           name == on_remote_name_complete_
           one == t.entry.id
           answer == Completion("acl", "handle_unknown_connection", t.entry, t.success, one)
<1>1. Runs("scheduler", "ReportAclConnectionCompletion") /\ "scheduler" \in Modules /\ Types
  BY DEF ReportAclConnectionCompletion, Modules, Inv
<1>2. /\ t.run = "ReportAclConnectionCompletion" /\ counts' = counts
      /\ IsTasks(ts) /\ t.entry \in Entries /\ t.success \in BOOLEAN
  BY <1>1, RunTypes
<1>3. one \in 1 .. MaxRequests /\ t.entry.kind = "RNR"
  BY DEF IsPage
<1>4. Plays(t, "ends", one) /\ Plays(t, "owes", one)
  BY <1>2 DEF Plays, Ending, Owing, Passing, NameEnds
<1>5. Concerns(t.entry, outgoing_entry_)
  BY <1>1, <1>3, <1>4, TookEnds
<1>6. outgoing_entry_.kind = "RNR" /\ t.entry.address \notin incoming
  BY <1>3, <1>5 DEF Undisturbed, OutgoingIsConnecting, Concerns, NoEntry
<1>7. /\ try_dequeue_next_operation(queue, outgoing_entry_, incoming, Post(ts, answer))
      /\ UNCHANGED <<names, connections, radio, fate, told>>
  BY <1>6 DEF ReportAclConnectionCompletion
<1>8. IsClosure(answer)
  <2>1. one \in 0 .. MaxRequests
    BY <1>3
  <2> HIDE DEF t, one
  <2> QED BY <1>2, <2>1, CompletionIs DEF Modules, RunNames
<1>9. /\ answer.entry = t.entry /\ answer.by = one /\ answer.module = "acl"
      /\ answer.run = "handle_unknown_connection" /\ ~answer.success
  BY DEF Completion
<1>10. queue \in Seq(QueueEntry) /\ outgoing_entry_ \in QueueEntry \cup {NoEntry}
         /\ air \subseteq Operation
  BY <1>1 DEF Types
<1> HIDE DEF ts, answer
<1>11. Carries(answer) /\ Aside(answer)
  BY <1>9 DEF Carries, Aside, Arrives, Leaves
<1>12. /\ \A role \in Roles : \A id \in 1 .. MaxRequests :
            Plays(answer, role, id) => Plays(t, role, id)
       /\ t.run \in NameEnds
  BY <1>2, <1>9 DEF Plays, Owing, Ending, Passing, NameEnds, Statuses
<1>13. Whole(Post(ts, answer), hci, air, outgoing_entry_, queue, incoming, name, told, Asked)
  <2> HIDE DEF t
  <2> QED BY <1>1, <1>8, <1>9, <1>11, <1>12, PassedOn DEF t, ts
<1>14. IsTasks(Post(ts, answer))
  BY <1>2, <1>8, PostTypes
<1>15. Whole(tasks', hci, air, outgoing_entry_', pending_outgoing_operations_',
             incoming_connecting_address_set_', name, told, Asked)
  <2> DEFINE waiting == Post(ts, answer)
  <2> HIDE DEF waiting
  <2> QED BY <1>7, <1>10, <1>13, <1>14, DequeueWhole DEF waiting
<1> QED BY <1>2, <1>7, <1>15, AskedKept, InvNext DEF names, radio

LEMMA ReportAclInv ==
  ASSUME Undisturbed, Undisturbed', Inv, Types', ReportAclConnectionCompletion
  PROVE  Inv'
<1>1. Runs("scheduler", "ReportAclConnectionCompletion") /\ "scheduler" \in Modules
  BY DEF ReportAclConnectionCompletion, Modules
<1>2. Carries(This("scheduler")) /\ This("scheduler").run = "ReportAclConnectionCompletion"
  BY <1>1, Took, RunTypes DEF Inv
<1>3. /\ \/ IsCall(This("scheduler").entry) \/ IsPage(This("scheduler").entry, "ACL")
         \/ IsPage(This("scheduler").entry, "RNR") /\ ~This("scheduler").success
      /\ This("scheduler").by = This("scheduler").entry.id
  BY <1>2 DEF Carries
<1> QED BY <1>3, ReportCallInv, ReportPageInv, ReportNameInv

LEMMA EndInv ==
  ASSUME Undisturbed', Inv, Types', NEW run, Runs("scheduler", run),
         run \in {"ReportOutgoingAclConnectionFailure", "ReportRemoteNameRequestCompletion"},
         NEW expected, EndOutgoing(expected)
  PROVE  Inv'
<1> DEFINE t == This("scheduler")
           ts == Rest("scheduler")
           queue == pending_outgoing_operations_
           incoming == incoming_connecting_address_set_
           name == on_remote_name_complete_
<1>1. "scheduler" \in Modules /\ Types
  BY DEF Modules, Inv
<1>2. t.run = run /\ counts' = counts /\ IsTasks(ts)
  BY <1>1, RunTypes
<1>3. Whole(ts, hci, air, outgoing_entry_, queue, incoming, name, told, Asked)
  BY <1>1, TookAside
<1>4. UNCHANGED <<names, connections, radio, fate, told>>
  BY DEF EndOutgoing
<1>5. CASE expected
  <2>1. Carries(t)
    BY <1>1, Took
  <2>2. t.entry.id \in 1 .. MaxRequests
    BY <1>2, <2>1 DEF Carries, IsPage
  <2>3. Plays(t, "ends", t.entry.id)
    BY <1>2 DEF Plays, Ending
  <2>4. \A id \in 1 .. MaxRequests : Free(ts, hci, air, queue, "ends", id)
    BY <1>1, <2>2, <2>3, TookEnds
  <2>5. queue \in Seq(QueueEntry) /\ air \subseteq Operation
    BY <1>1 DEF Types
  <2>6. try_dequeue_next_operation(queue, NoEntry, incoming, ts)
    BY <1>5 DEF EndOutgoing
  <2> HIDE DEF t, ts
  <2>7. Whole(ts, hci, air, NoEntry, queue, incoming, name, told, Asked)
    BY <1>3, <2>4, <2>5, ReleasedWhole
  <2>8. Whole(tasks', hci, air, outgoing_entry_', pending_outgoing_operations_',
              incoming_connecting_address_set_', name, told, Asked)
    <3> DEFINE none == NoEntry
    <3>1. none \in QueueEntry \cup {NoEntry}
      OBVIOUS
    <3> HIDE DEF none
    <3> QED BY <1>2, <2>5, <2>6, <2>7, <3>1, DequeueWhole DEF none
  <2> QED BY <1>2, <1>4, <2>8, AskedKept, InvNext DEF names, radio
<1>6. CASE ~expected
  <2>1. tasks' = ts /\ UNCHANGED scheduler
    BY <1>6 DEF EndOutgoing
  <2> HIDE DEF ts
  <2> QED BY <1>2, <1>3, <1>4, <2>1, AskedKept, InvNext DEF names, radio, scheduler
<1> QED BY <1>5, <1>6

LEMMA CancelInv ==
  ASSUME Inv, Types', NEW run, NEW kind, NEW m, NEW next, Runs("scheduler", run),
         cancel_outgoing_or_queued_connection(kind, This("scheduler").entry.address,
           Closure(m, next, This("scheduler").entry)),
         \/ run = "CancelAclConnection" /\ m = "acl" /\ next = "actually_cancel_connect"
         \/ run = "CancelRemoteNameRequest" /\ m = "rnr" /\ next = "actually_cancel_remote_name_request",
         UNCHANGED <<outgoing_entry_, incoming_connecting_address_set_, names, connections,
                     radio, fate>>
  PROVE  Inv'
<1> DEFINE t == This("scheduler")
           ts == Rest("scheduler")
           queue == pending_outgoing_operations_
           incoming == incoming_connecting_address_set_
           name == on_remote_name_complete_
           cancel == Closure(m, next, t.entry)
           Matches(entry) == entry.kind = kind /\ entry.address = t.entry.address
           found == {n \in DOMAIN queue : Matches(queue[n])}
           first == CHOOSE n \in found : \A l \in found : n <= l
<1>1. "scheduler" \in Modules /\ Types
  BY DEF Modules, Inv
<1>2. /\ t.run = run /\ counts' = counts /\ IsTasks(ts) /\ t.entry \in Entries
  BY <1>1, RunTypes
<1>3. Whole(ts, hci, air, outgoing_entry_, queue, incoming, name, told, Asked)
  BY <1>1, TookAside
<1>4. t.entry.id = 0
  <2>1. Carries(t)
    BY <1>1, Took
  <2> QED BY <1>2, <2>1 DEF Carries
<1>5. UNCHANGED <<outgoing_entry_, incoming_connecting_address_set_, names, connections, radio, fate>>
  OBVIOUS
<1>6. \/ tasks' = Post(ts, cancel) /\ UNCHANGED <<pending_outgoing_operations_, told>>
      \/ tasks' = ts /\ UNCHANGED <<pending_outgoing_operations_, told>>
      \/ /\ found # {} /\ tasks' = ts
         /\ Tell(queue[first].id, queue[first].id) /\ pending_outgoing_operations_' = RemoveAt(queue, first)
  BY Zenon DEF cancel_outgoing_or_queued_connection, WithoutQueued
<1>7. CASE tasks' = Post(ts, cancel) /\ UNCHANGED <<pending_outgoing_operations_, told>>
  <2>1. IsClosure(cancel)
    <3>1. m \in Modules /\ next \in RunNames /\ next # "Enqueue"
      BY DEF Modules, RunNames
    <3> HIDE DEF t
    <3> QED BY <1>2, <3>1, ClosureIs
  <2>2. cancel.entry.id = 0 /\ cancel.run = next /\ cancel.module = m
    BY <1>4 DEF Closure
  <2> HIDE DEF t, ts, cancel
  <2>3. Carries(cancel) /\ Silent(cancel) /\ Aside(cancel)
    BY <2>2, SilentZero DEF Carries, Aside, Arrives, Leaves
  <2>4. Whole(Post(ts, cancel), hci, air, outgoing_entry_, queue, incoming, name, told, Asked)
    BY <1>2, <1>3, <2>1, <2>2, <2>3, PostSilent
  <2> QED BY <1>2, <1>5, <1>7, <2>4, AskedKept, InvNext DEF names, radio
<1>8. CASE tasks' = ts /\ UNCHANGED <<pending_outgoing_operations_, told>>
  <2> HIDE DEF ts
  <2> QED BY <1>2, <1>3, <1>5, <1>8, AskedKept, InvNext DEF names, radio
<1>9. CASE /\ found # {} /\ tasks' = ts /\ Tell(queue[first].id, queue[first].id)
           /\ pending_outgoing_operations_' = RemoveAt(queue, first)
  <2> DEFINE left == RemoveAt(queue, first)
             entry == queue[first]
             one == entry.id
  <2>1. queue \in Seq(QueueEntry)
    BY <1>1 DEF Types
  <2>2. first \in 1 .. Len(queue)
    <3>1. found \in SUBSET Nat
      BY <2>1
    <3>2. \E n \in found : \A l \in found : n <= l
      BY <1>9, <3>1, LeastOf
    <3>3. first \in found
      BY <3>2
    <3> QED BY <2>1, <3>3
  <2> HIDE DEF first
  <2>3. entry \in QueueEntry
    BY <2>1, <2>2
  <2>4. one \in 1 .. MaxRequests
    <3> HIDE DEF entry
    <3> QED BY <2>3, QueueEntryIs
  <2>5. Without(queue, left, entry)
    BY <2>1, <2>2, RemoveQueue DEF Without
  <2> HIDE DEF ts, left, entry
  <2>6. /\ Requests(ts, hci, air, left, told, Asked)
        /\ Free(ts, hci, air, left, "owes", one) /\ told[one] = <<>> /\ one <= Asked
    <3>1. Requests(ts, hci, air, queue, told, Asked)
      BY <1>3 DEF Whole
    <3>2. PICK answers : answers = told
      OBVIOUS
    <3>3. /\ Requests(ts, hci, air, left, answers, Asked)
          /\ \A id \in 1 .. MaxRequests : entry.id = id =>
               Free(ts, hci, air, left, "owes", id) /\ Unanswered(answers, Asked, id)
      BY <2>5, <3>1, <3>2, TakeQueued
    <3> QED BY <2>4, <3>2, <3>3 DEF Unanswered
  <2>7. Tell(one, one)
    BY <1>9 DEF entry
  <2> HIDE DEF one
  <2>8. Requests(ts, hci, air, left, told', Asked)
    BY <1>1, <2>4, <2>6, <2>7, TellRequests
  <2>9. Whole(ts, hci, air, outgoing_entry_, left, incoming, name, told', Asked)
    BY <1>3, <2>8 DEF Whole
  <2>10. tasks' = ts /\ pending_outgoing_operations_' = left
    BY <1>9 DEF left
  <2> QED BY <1>2, <1>5, <2>9, <2>10, AskedKept, InvNext DEF names, radio
<1> QED BY <1>6, <1>7, <1>8, <1>9

LEMMA SchedulerStepInv ==
  ASSUME Undisturbed, Undisturbed', Inv, Types', SchedulerStep
  PROVE  Inv'
<1>1. CASE ReportOutgoingAclConnectionFailure
  BY <1>1, EndInv DEF ReportOutgoingAclConnectionFailure
<1>2. CASE ReportRemoteNameRequestCompletion
  BY <1>2, EndInv DEF ReportRemoteNameRequestCompletion
<1>3. CASE CancelAclConnection
  BY <1>3, CancelInv DEF CancelAclConnection
<1>4. CASE CancelRemoteNameRequest
  BY <1>4, CancelInv DEF CancelRemoteNameRequest
<1> QED BY <1>1, <1>2, <1>3, <1>4, EnqueueInv, RegisterInv, ReportAclInv DEF SchedulerStep

-----------------------------------------------------------------------------
(* Closures that answer a request, and commands that start it *)

LEMMA ToldWhole ==
  ASSUME Inv, NEW m \in Modules, NEW run, Runs(m, run),
         run \notin {"on_incoming_connection", "RegisterPendingIncomingConnection"},
         NEW one \in 1 .. MaxRequests, Plays(This(m), "owes", one), Tell(one, one)
  PROVE  Whole(Rest(m), hci, air, outgoing_entry_, pending_outgoing_operations_,
               incoming_connecting_address_set_, on_remote_name_complete_, told', Asked)
<1> DEFINE ts == Rest(m)
           queue == pending_outgoing_operations_
<1>1. Whole(ts, hci, air, outgoing_entry_, queue,
            incoming_connecting_address_set_, on_remote_name_complete_, told, Asked)
  BY TookAside
<1>2. Free(ts, hci, air, queue, "owes", one) /\ told[one] = <<>> /\ one <= Asked
  BY Took DEF Roles
<1>3. Types /\ Requests(ts, hci, air, queue, told, Asked)
  BY <1>1 DEF Inv, Whole
<1> HIDE DEF ts
<1>4. Requests(ts, hci, air, queue, told', Asked)
  BY <1>2, <1>3, TellRequests
<1>5. Whole(ts, hci, air, outgoing_entry_, queue,
            incoming_connecting_address_set_, on_remote_name_complete_, told', Asked)
  BY <1>1, <1>4 DEF Whole
<1> QED BY <1>5 DEF ts

\* The client is told, and the scheduler is to go on.
LEMMA AnsweredWhole ==
  ASSUME Inv, NEW m \in Modules, NEW run, Runs(m, run),
         run \notin {"on_incoming_connection", "RegisterPendingIncomingConnection"},
         NEW one \in 1 .. MaxRequests, Plays(This(m), "owes", one), Plays(This(m), "ends", one),
         Tell(one, one), NEW t, IsClosure(t), t.entry = This(m).entry, Carries(t),
         t.run \in {"ReportOutgoingAclConnectionFailure", "ReportRemoteNameRequestCompletion"}
  PROVE  Whole(Post(Rest(m), t), hci, air, outgoing_entry_, pending_outgoing_operations_,
               incoming_connecting_address_set_, on_remote_name_complete_, told', Asked)
<1> DEFINE ts == Rest(m)
           queue == pending_outgoing_operations_
<1>1. Whole(ts, hci, air, outgoing_entry_, queue,
            incoming_connecting_address_set_, on_remote_name_complete_, told', Asked)
  BY ToldWhole
<1>2. /\ Concerns(This(m).entry, outgoing_entry_)
      /\ \A id \in 1 .. MaxRequests : Free(ts, hci, air, queue, "ends", id)
      /\ IsTasks(ts)
  BY TookEnds, RunTypes DEF Inv
<1>3. TaskConcerns(t, outgoing_entry_, on_remote_name_complete_)
  BY <1>2 DEF TaskConcerns, NameEnds
<1>4. \A role \in Roles : \A id \in 1 .. MaxRequests : Plays(t, role, id) => role = "ends"
  BY DEF Plays, Owing, Passing, NameEnds, Statuses
<1>5. Aside(t)
  BY DEF Aside, Arrives, Leaves
<1>6. /\ \A role \in Roles : \A id \in 1 .. MaxRequests :
           Plays(t, role, id) => Free(ts, hci, air, queue, role, id)
      /\ \A id \in 1 .. MaxRequests : Plays(t, "owes", id) => told'[id] = <<>> /\ id <= Asked
  BY <1>2, <1>4 DEF Roles
<1> HIDE DEF ts
<1>7. Whole(Post(ts, t), hci, air, outgoing_entry_, queue,
            incoming_connecting_address_set_, on_remote_name_complete_, told', Asked)
  BY <1>1, <1>2, <1>3, <1>5, <1>6, PostWhole
<1> QED BY <1>7 DEF ts

\* A command to start a request takes the place of the closure.
LEMMA CommandSent ==
  ASSUME NEW ts, NEW commands \in Seq(CommandRecord), NEW command \in CommandRecord, NEW ops,
         NEW outgoing, NEW queue, NEW incoming, NEW name, NEW answers, NEW asked,
         Whole(ts, commands, ops, outgoing, queue, incoming, name, answers, asked),
         CommandCarries(command), CommandConcerns(command, outgoing, name),
         \A role \in Roles : \A id \in 1 .. MaxRequests :
           Starting(command, id) => Free(ts, commands, ops, queue, role, id),
         \A id \in 1 .. MaxRequests : Starting(command, id) => answers[id] = <<>> /\ id <= asked
  PROVE  Whole(ts, Append(commands, command), ops, outgoing, queue, incoming, name, answers, asked)
<1>1. Contents(ts, Append(commands, command), ops, outgoing, name)
  BY CarryAppend DEF Whole, Contents
<1>2. Requests(ts, Append(commands, command), ops, queue, answers, asked)
  BY PutCommand DEF Whole
<1> QED BY <1>1, <1>2 DEF Whole

LEMMA SilentCommand ==
  ASSUME NEW ts, NEW commands \in Seq(CommandRecord), NEW command \in CommandRecord, NEW ops,
         NEW outgoing, NEW queue, NEW incoming, NEW name, NEW answers, NEW asked,
         Whole(ts, commands, ops, outgoing, queue, incoming, name, answers, asked),
         CommandCarries(command), command.op \notin {"CREATE_CONNECTION", "REMOTE_NAME_REQUEST"}
  PROVE  Whole(ts, Append(commands, command), ops, outgoing, queue, incoming, name, answers, asked)
<1>1. \A id : ~Starting(command, id)
  BY DEF Starting
<1>2. CommandConcerns(command, outgoing, name)
  BY <1>1 DEF CommandConcerns
<1> QED BY <1>1, <1>2, CommandSent

-----------------------------------------------------------------------------
(* The steps of classic_impl *)

\* The closure at the head of m's queue, with what it carries.
LEMMA Running ==
  ASSUME Inv, NEW m \in Modules, NEW run, Runs(m, run)
  PROVE  /\ IsTasks(Rest(m)) /\ IsClosure(This(m)) /\ Carries(This(m))
         /\ This(m).run = run /\ This(m).module = m
         /\ This(m).entry \in Entries /\ This(m).success \in BOOLEAN
         /\ hci \in Seq(CommandRecord) /\ air \subseteq Operation
         /\ counts' = counts /\ Asked' = Asked
BY RunTypes, Took, AskedKept DEF Inv, Types

LEMMA CreateInv ==
  ASSUME Inv, Types', actually_create_connection
  PROVE  Inv'
<1> DEFINE t == This("acl")
           ts == Rest("acl")
           one == t.entry.id
           queue == pending_outgoing_operations_
           incoming == incoming_connecting_address_set_
           name == on_remote_name_complete_
           report == Closure("scheduler", "ReportOutgoingAclConnectionFailure", t.entry)
           command == Command("CREATE_CONNECTION", t.entry)
<1>1. Runs("acl", "actually_create_connection") /\ "acl" \in Modules
        /\ UNCHANGED <<scheduler, names, connections, air, fate, told>>
  BY DEF actually_create_connection, Modules
<1>2. /\ IsTasks(ts) /\ Carries(t) /\ t.run = "actually_create_connection"
      /\ t.entry \in Entries /\ hci \in Seq(CommandRecord) /\ Asked' = Asked
  BY <1>1, Running
<1>3. IsPage(t.entry, "ACL")
  BY <1>2 DEF Carries
<1>4. CASE tasks' = Post(ts, report) /\ UNCHANGED hci
  <2>1. IsClosure(report)
    <3> HIDE DEF t
    <3> QED BY <1>2, ClosureIs DEF Modules, RunNames
  <2>2. report.entry = t.entry /\ report.module = "scheduler"
          /\ report.run = "ReportOutgoingAclConnectionFailure"
    BY DEF Closure
  <2> HIDE DEF t, ts, report
  <2>3. Carries(report) /\ Aside(report)
    BY <1>3, <2>2 DEF Carries, Aside, Arrives, Leaves
  <2>4. \A role \in Roles : \A id \in 1 .. MaxRequests :
          Plays(report, role, id) => Plays(t, role, id)
    BY <1>2, <2>2 DEF Plays, Owing, Ending, Passing, NameEnds, Statuses
  <2>5. report.run \notin NameEnds
    BY <2>2 DEF NameEnds
  <2>6. Whole(Post(ts, report), hci, air, outgoing_entry_, queue, incoming, name, told, Asked)
    BY <1>1, <2>1, <2>2, <2>3, <2>4, <2>5, PassedOn DEF t, ts
  <2> QED BY <1>1, <1>2, <1>4, <2>6, InvNext DEF scheduler, names
<1>5. CASE tasks' = ts /\ hci' = Append(hci, command)
  <2>1. command \in CommandRecord /\ command.op = "CREATE_CONNECTION" /\ command.entry = t.entry
    <3> HIDE DEF t
    <3> QED BY <1>2 DEF CommandNames, CommandRecord, Command
  <2>2. one \in 1 .. MaxRequests
    BY <1>3 DEF IsPage
  <2>3. \A role \in Roles : Plays(t, role, one)
    BY <1>2 DEF Plays, Owing, Ending, Passing, NameEnds, Roles
  <2>4. Whole(ts, hci, air, outgoing_entry_, queue, incoming, name, told, Asked)
    BY <1>1, TookAside
  <2>5. Concerns(t.entry, outgoing_entry_)
    BY <1>1, <2>2, <2>3, TookEnds DEF Roles
  <2>6. /\ \A role \in Roles : Free(ts, hci, air, queue, role, one)
        /\ told[one] = <<>> /\ one <= Asked
    BY <1>1, <2>2, <2>3, Took DEF Roles
  <2> HIDE DEF t, ts, command
  <2>7. \A id \in 1 .. MaxRequests : Starting(command, id) => id = one
    BY <2>1 DEF Starting
  <2>8. CommandCarries(command) /\ CommandConcerns(command, outgoing_entry_, name)
    BY <1>3, <2>1, <2>5 DEF CommandCarries, CommandConcerns
  <2>9. /\ \A role \in Roles : \A id \in 1 .. MaxRequests :
             Starting(command, id) => Free(ts, hci, air, queue, role, id)
        /\ \A id \in 1 .. MaxRequests : Starting(command, id) => told[id] = <<>> /\ id <= Asked
    BY <2>6, <2>7
  <2>10. Whole(ts, Append(hci, command), air, outgoing_entry_, queue, incoming, name, told, Asked)
    BY <1>2, <2>1, <2>4, <2>8, <2>9, CommandSent
  <2> QED BY <1>1, <1>2, <1>5, <2>10, InvNext DEF scheduler, names
<1> QED BY <1>4, <1>5 DEF actually_create_connection

\* The status of a command that starts a request: a failure answers it.
LEMMA StatusWhole ==
  ASSUME Inv, NEW m \in Modules, NEW run, Runs(m, run), NEW next,
         \/ run = "on_create_connection_status" /\ next = "ReportOutgoingAclConnectionFailure"
         \/ run = "on_start_remote_name_request_status" /\ next = "ReportRemoteNameRequestCompletion",
         \/ This(m).success /\ tasks' = Rest(m) /\ UNCHANGED told
         \/ /\ ~This(m).success /\ Tell(This(m).entry.id, This(m).by)
            /\ tasks' = Post(Rest(m), Closure("scheduler", next, This(m).entry))
  PROVE  Whole(tasks', hci, air, outgoing_entry_, pending_outgoing_operations_,
               incoming_connecting_address_set_, on_remote_name_complete_, told', Asked)
<1> DEFINE t == This(m)
           ts == Rest(m)
           one == t.entry.id
           report == Closure("scheduler", next, t.entry)
<1>1. run \notin {"on_incoming_connection", "RegisterPendingIncomingConnection"}
  OBVIOUS
<1>2. /\ IsTasks(ts) /\ Carries(t) /\ t.run = run /\ t.entry \in Entries
  BY Running
<1>3. /\ run = "on_create_connection_status" => IsPage(t.entry, "ACL")
      /\ run = "on_start_remote_name_request_status" => IsPage(t.entry, "RNR")
      /\ t.by = one
  BY <1>2 DEF Carries
<1>4. one \in 1 .. MaxRequests
  BY <1>3 DEF IsPage
<1>5. CASE tasks' = ts /\ UNCHANGED told
  BY <1>1, <1>5, TookAside
<1>6. CASE ~t.success /\ Tell(t.entry.id, t.by) /\ tasks' = Post(ts, report)
  <2>1. IsClosure(report)
    <3>1. next \in RunNames /\ "scheduler" \in Modules /\ next # "Enqueue"
      BY DEF RunNames, Modules
    <3> HIDE DEF t
    <3> QED BY <1>2, <3>1, ClosureIs
  <2>2. report.entry = t.entry /\ report.module = "scheduler" /\ report.run = next
    BY DEF Closure
  <2>3. Plays(t, "owes", one) /\ Plays(t, "ends", one) /\ Tell(one, one)
    BY <1>2, <1>3, <1>6 DEF Plays, Statuses
  <2> HIDE DEF t, ts, report, one
  <2>4. Carries(report)
    BY <1>3, <2>2 DEF Carries
  <2> QED BY <1>1, <1>4, <1>6, <2>1, <2>2, <2>3, <2>4, AnsweredWhole DEF t, ts
<1> QED BY <1>5, <1>6

LEMMA CreateStatusInv ==
  ASSUME Inv, Types', on_create_connection_status
  PROVE  Inv'
<1>1. Runs("acl", "on_create_connection_status") /\ "acl" \in Modules
        /\ UNCHANGED <<scheduler, names, connections, radio, fate>>
  BY DEF on_create_connection_status, Modules
<1>2. \/ This("acl").success /\ tasks' = Rest("acl") /\ UNCHANGED told
      \/ /\ ~This("acl").success /\ Tell(This("acl").entry.id, This("acl").by)
         /\ tasks' = Post(Rest("acl"),
              Closure("scheduler", "ReportOutgoingAclConnectionFailure", This("acl").entry))
  BY DEF on_create_connection_status
<1>3. Whole(tasks', hci, air, outgoing_entry_, pending_outgoing_operations_,
            incoming_connecting_address_set_, on_remote_name_complete_, told', Asked)
  BY <1>1, <1>2, StatusWhole
<1>4. Asked' = Asked
  BY <1>1, Running
<1> QED BY <1>1, <1>3, <1>4, InvNext DEF scheduler, names, radio

LEMMA CompleteInv ==
  ASSUME Inv, Types', on_connection_complete
  PROVE  Inv'
<1> DEFINE t == This("acl")
           ts == Rest("acl")
           k == HandlerOf("acl")
           queue == pending_outgoing_operations_
           incoming == incoming_connecting_address_set_
           name == on_remote_name_complete_
           report == [t EXCEPT !.module = "scheduler", !.run = "ReportAclConnectionCompletion"]
<1>1. Runs("acl", "on_connection_complete") /\ "acl" \in Modules /\ tasks' = Post(ts, report)
        /\ UNCHANGED <<scheduler, names, connections, radio, fate, told>>
  BY DEF on_connection_complete, Modules
<1>2. /\ IsTasks(ts) /\ Carries(t) /\ t.run = "on_connection_complete" /\ t.module = "acl"
      /\ t.entry \in Entries /\ Asked' = Asked /\ IsClosure(t)
  BY <1>1, Running
<1>3. /\ report.entry = t.entry /\ report.module = "scheduler"
      /\ report.run = "ReportAclConnectionCompletion" /\ report.by = t.by /\ IsClosure(report)
      /\ report.success = t.success
  BY <1>2 DEF IsClosure, ClosureRecord, Modules, RunNames
<1>4. /\ Contents(ts, hci, air, outgoing_entry_, name)
      /\ Requests(ts, hci, air, queue, told, Asked)
      /\ k \in Handlers /\ tasks[k] # <<>> /\ IsTasks(tasks)
      /\ ts = Drop(tasks, k) /\ t = Head(tasks[k])
  BY <1>1, Took
<1>5. Carries(report)
  BY <1>2, <1>3 DEF Carries
<1>6. CASE IsCall(t.entry)
  <2>1. Silent(report)
    BY <1>3, <1>6, SilentZero DEF IsCall
  <2>2. ASSUME NEW c \in Callers PROVE CallInv(Post(ts, report), incoming, air, c)
    <3>1. CallInv(tasks, incoming, air, c)
      BY DEF Inv, Calls
    <3>2. ~Arrives(t, "acl", c) /\ ~Arrives(t, "scheduler", c) /\ ~Leaves(report, "acl", c)
      BY <1>2, <1>3 DEF Arrives, Leaves
    <3> HIDE DEF t, ts, report, k
    <3>3. CASE t.entry.address = c
      <4>1. Leaves(t, "acl", c) /\ k = HandlerOf("acl")
        BY <1>2, <1>6, <3>3 DEF Leaves, IsCall, k
      <4> QED BY <1>3, <1>4, <3>1, <3>2, <4>1, EndPassedOn
    <3>4. CASE t.entry.address # c
      <4>1. CallInv(ts, incoming, air, c)
        BY <1>4, <3>1, <3>2, DropCall
      <4>2. ~Leaves(report, "scheduler", c)
        BY <1>3, <3>4 DEF Leaves
      <4> QED BY <1>2, <1>3, <3>2, <4>1, <4>2, PostCall
    <3> QED BY <3>3, <3>4
  <2> HIDE DEF t, ts, report, k
  <2>3. TaskConcerns(report, outgoing_entry_, name)
    BY <1>5, <2>1, SilentConcerns
  <2>4. Contents(Post(ts, report), hci, air, outgoing_entry_, name)
    BY <1>2, <1>3, <1>4, <1>5, <2>3, CarryPost DEF Contents
  <2>5. Requests(Post(ts, report), hci, air, queue, told, Asked)
    BY <1>2, <1>3, <1>4, <2>1, PutTask DEF Silent, Roles
  <2>6. Whole(Post(ts, report), hci, air, outgoing_entry_, queue, incoming, name, told, Asked)
    BY <2>2, <2>4, <2>5 DEF Whole, Calls, Inv
  <2> QED BY <1>1, <1>2, <2>6, InvNext DEF scheduler, names, radio
<1>7. CASE IsPage(t.entry, "ACL") \/ IsPage(t.entry, "RNR")
  <2>1. Aside(report)
    BY <1>3, <1>7 DEF Aside, Arrives, Leaves, IsPage
  <2> HIDE DEF t, ts, report
  <2>2. /\ \A role \in Roles : \A id \in 1 .. MaxRequests :
             Plays(report, role, id) => Plays(t, role, id)
        /\ t.run \in NameEnds
    BY <1>2, <1>3 DEF Plays, Owing, Ending, Passing, NameEnds, Statuses
  <2>3. Whole(Post(ts, report), hci, air, outgoing_entry_, queue, incoming, name, told, Asked)
    BY <1>1, <1>3, <1>5, <2>1, <2>2, PassedOn DEF t, ts
  <2> QED BY <1>1, <1>2, <2>3, InvNext DEF scheduler, names, radio
<1>8. IsCall(t.entry) \/ IsPage(t.entry, "ACL") \/ IsPage(t.entry, "RNR")
  BY <1>2 DEF Carries
<1> QED BY <1>6, <1>7, <1>8

LEMMA AnnounceInv ==
  ASSUME Inv, Types', create_and_announce_connection
  PROVE  Inv'
<1> DEFINE t == This("acl")
           ts == Rest("acl")
           one == t.entry.id
           queue == pending_outgoing_operations_
           incoming == incoming_connecting_address_set_
           name == on_remote_name_complete_
<1>1. Runs("acl", "create_and_announce_connection") /\ "acl" \in Modules /\ tasks' = ts
        /\ UNCHANGED <<scheduler, names, radio, fate>>
  BY DEF create_and_announce_connection, Modules
<1>2. /\ Carries(t) /\ t.run = "create_and_announce_connection" /\ t.entry \in Entries
      /\ Asked' = Asked
  BY <1>1, Running
<1>3. t.by = one /\ one \in 0 .. MaxRequests
  BY <1>2, EntryFields DEF Carries
<1>4. CASE one = 0
  <2>1. told' = told
    BY <1>4 DEF create_and_announce_connection
  <2>2. Whole(ts, hci, air, outgoing_entry_, queue, incoming, name, told, Asked)
    BY <1>1, TookAside
  <2> HIDE DEF t, ts
  <2> QED BY <1>1, <1>2, <2>1, <2>2, InvNext DEF scheduler, names, radio
<1>5. CASE one # 0
  <2>1. one \in 1 .. MaxRequests /\ Tell(one, one)
    BY <1>3, <1>5, BoundsAreNat DEF create_and_announce_connection
  <2>2. Plays(t, "owes", one)
    BY <1>2 DEF Plays, Owing
  <2>3. Whole(ts, hci, air, outgoing_entry_, queue, incoming, name, told', Asked)
    BY <1>1, <2>1, <2>2, ToldWhole
  <2> HIDE DEF t, ts
  <2> QED BY <1>1, <1>2, <2>3, InvNext DEF scheduler, names, radio
<1> QED BY <1>4, <1>5

LEMMA IncomingAnswerInv ==
  ASSUME Inv, Types', on_incoming_connection
  PROVE  Inv'
<1> DEFINE t == This("acl")
           ts == Rest("acl")
           k == HandlerOf("acl")
           queue == pending_outgoing_operations_
           incoming == incoming_connecting_address_set_
           name == on_remote_name_complete_
           register == Closure("scheduler", "RegisterPendingIncomingConnection", t.entry)
<1>1. Runs("acl", "on_incoming_connection") /\ "acl" \in Modules /\ tasks' = Post(ts, register)
        /\ UNCHANGED <<scheduler, names, connections, air, fate, told>>
  BY DEF on_incoming_connection, Modules
<1>2. /\ IsTasks(ts) /\ Carries(t) /\ t.run = "on_incoming_connection" /\ t.module = "acl"
      /\ t.entry \in Entries /\ Asked' = Asked /\ hci \in Seq(CommandRecord)
  BY <1>1, Running
<1>3. /\ register.entry = t.entry /\ register.module = "scheduler"
      /\ register.run = "RegisterPendingIncomingConnection"
  BY DEF Closure
<1>4. IsClosure(register)
  <2> HIDE DEF t
  <2> QED BY <1>2, ClosureIs DEF Modules, RunNames
<1>5. /\ Contents(ts, hci, air, outgoing_entry_, name)
      /\ Requests(ts, hci, air, queue, told, Asked)
      /\ k \in Handlers /\ tasks[k] # <<>> /\ IsTasks(tasks)
      /\ ts = Drop(tasks, k) /\ t = Head(tasks[k])
  BY <1>1, Took
<1>6. IsCall(t.entry)
  BY <1>2 DEF Carries
<1>7. ASSUME NEW c \in Callers PROVE CallInv(Post(ts, register), incoming, air, c)
  <2>1. CallInv(tasks, incoming, air, c)
    BY DEF Inv, Calls
  <2>2. ~Arrives(t, "scheduler", c) /\ ~Leaves(register, "acl", c) /\ ~Leaves(register, "scheduler", c)
    BY <1>2, <1>3 DEF Arrives, Leaves
  <2> HIDE DEF t, ts, register, k
  <2>3. CASE t.entry.address = c
    <3>1. Arrives(register, "scheduler", c) /\ k = HandlerOf("acl")
      BY <1>3, <2>3 DEF Arrives, k
    <3> QED BY <1>4, <1>5, <2>1, <2>2, <3>1, CallPassedOn
  <2>4. CASE t.entry.address # c
    <3>1. ~Arrives(t, "acl", c)
      BY <2>4 DEF Arrives
    <3>2. CallInv(ts, incoming, air, c)
      BY <1>5, <2>1, <2>2, <3>1, DropCall
    <3> QED BY <1>2, <1>4, <2>2, <3>2, PostCall
  <2> QED BY <2>3, <2>4
<1>8. PICK answer \in {"ACCEPT", "REJECT"} : hci' = Append(hci, Command(answer, t.entry))
  BY DEF on_incoming_connection
<1> DEFINE command == Command(answer, t.entry)
<1>9. command \in CommandRecord /\ command.op = answer /\ command.entry = t.entry
  <2> HIDE DEF t
  <2> QED BY <1>2 DEF CommandNames, CommandRecord, Command
<1> HIDE DEF t, ts, register, k, command
<1>10. Silent(register) /\ Carries(register)
  BY <1>3, <1>6, SilentZero DEF IsCall, Carries
<1>11. TaskConcerns(register, outgoing_entry_, name)
  BY <1>3, <1>10, SilentConcerns
<1>12. Contents(Post(ts, register), hci, air, outgoing_entry_, name)
  BY <1>2, <1>4, <1>5, <1>10, <1>11, CarryPost DEF Contents
<1>13. Requests(Post(ts, register), hci, air, queue, told, Asked)
  BY <1>2, <1>4, <1>5, <1>10, PutTask DEF Silent, Roles
<1>14. Whole(Post(ts, register), hci, air, outgoing_entry_, queue, incoming, name, told, Asked)
  BY <1>7, <1>12, <1>13 DEF Whole, Calls, Inv
<1>15. CommandCarries(command) /\ command.op \notin {"CREATE_CONNECTION", "REMOTE_NAME_REQUEST"}
  BY <1>6, <1>9 DEF CommandCarries
<1>16. Whole(Post(ts, register), Append(hci, command), air, outgoing_entry_, queue, incoming,
             name, told, Asked)
  <2> DEFINE waiting == Post(ts, register)
  <2> HIDE DEF waiting
  <2> QED BY <1>2, <1>9, <1>14, <1>15, SilentCommand DEF waiting
<1>17. hci' = Append(hci, command)
  BY <1>8 DEF command
<1> QED BY <1>1, <1>2, <1>16, <1>17, InvNext DEF scheduler, names

LEMMA AcceptStatusInv ==
  ASSUME Inv, Types', on_accept_connection_status
  PROVE  Inv'
<1> DEFINE t == This("acl")
           ts == Rest("acl")
           queue == pending_outgoing_operations_
           incoming == incoming_connecting_address_set_
           name == on_remote_name_complete_
           cancel == Closure("scheduler", "CancelAclConnection", t.entry)
<1>1. Runs("acl", "on_accept_connection_status") /\ "acl" \in Modules
        /\ UNCHANGED <<scheduler, names, connections, radio, fate, told>>
  BY DEF on_accept_connection_status, Modules
<1>2. tasks' = ts \/ tasks' = Post(ts, cancel)
  BY DEF on_accept_connection_status
<1>3. /\ IsTasks(ts) /\ Carries(t) /\ t.run = "on_accept_connection_status"
      /\ t.entry \in Entries /\ Asked' = Asked
  BY <1>1, Running
<1>4. IsClosure(cancel)
  <2> HIDE DEF t
  <2> QED BY <1>3, ClosureIs DEF Modules, RunNames
<1>5. cancel.entry.id = 0 /\ cancel.run = "CancelAclConnection" /\ cancel.module = "scheduler"
  BY <1>3 DEF Closure, Carries, IsCall
<1>6. Whole(ts, hci, air, outgoing_entry_, queue, incoming, name, told, Asked)
  BY <1>1, TookAside
<1> HIDE DEF t, ts, cancel
<1>7. Carries(cancel) /\ Silent(cancel) /\ Aside(cancel)
  BY <1>5, SilentZero DEF Carries, Aside, Arrives, Leaves
<1>8. Whole(Post(ts, cancel), hci, air, outgoing_entry_, queue, incoming, name, told, Asked)
  BY <1>3, <1>4, <1>5, <1>6, <1>7, PostSilent
<1> QED BY <1>1, <1>2, <1>3, <1>6, <1>8, InvNext DEF scheduler, names, radio

LEMMA CancelConnectInv ==
  ASSUME Inv, Types', actually_cancel_connect
  PROVE  Inv'
<1> DEFINE t == This("acl")
           ts == Rest("acl")
           queue == pending_outgoing_operations_
           incoming == incoming_connecting_address_set_
           name == on_remote_name_complete_
           command == Command("CREATE_CONNECTION_CANCEL", t.entry)
<1>1. Runs("acl", "actually_cancel_connect") /\ "acl" \in Modules /\ tasks' = ts
        /\ hci' = Append(hci, command)
        /\ UNCHANGED <<scheduler, names, connections, air, fate, told>>
  BY DEF actually_cancel_connect, Modules
<1>2. t.entry \in Entries /\ Asked' = Asked /\ hci \in Seq(CommandRecord)
  BY <1>1, Running
<1>3. command \in CommandRecord /\ command.op = "CREATE_CONNECTION_CANCEL"
  <2> HIDE DEF t
  <2> QED BY <1>2 DEF CommandNames, CommandRecord, Command
<1>4. Whole(ts, hci, air, outgoing_entry_, queue, incoming, name, told, Asked)
  BY <1>1, TookAside
<1> HIDE DEF t, ts, command
<1>5. Whole(ts, Append(hci, command), air, outgoing_entry_, queue, incoming, name, told, Asked)
  BY <1>2, <1>3, <1>4, SilentCommand DEF CommandCarries
<1> QED BY <1>1, <1>2, <1>5, InvNext DEF scheduler, names

\* A completion that is unknown to the scheduler is the end of a cancelled name request.
LEMMA UnknownInv ==
  ASSUME Inv, Types', handle_unknown_connection
  PROVE  Inv'
<1> DEFINE t == This("acl")
           ts == Rest("acl")
           queue == pending_outgoing_operations_
           incoming == incoming_connecting_address_set_
           name == on_remote_name_complete_
           report == [t EXCEPT !.module = "rnr", !.run = "ReportRemoteNameRequestCancellation"]
<1>1. Runs("acl", "handle_unknown_connection") /\ "acl" \in Modules
        /\ UNCHANGED <<scheduler, names, connections, radio, told>>
  BY DEF handle_unknown_connection, Modules
<1>2. /\ Carries(t) /\ t.run = "handle_unknown_connection" /\ Asked' = Asked /\ IsClosure(t)
  BY <1>1, Running
<1>3. IsPage(t.entry, "RNR") /\ t.by = t.entry.id /\ ~t.success
  BY <1>2 DEF Carries
<1>4. tasks' = Post(ts, report)
  BY <1>3 DEF handle_unknown_connection
<1>5. /\ report.entry = t.entry /\ report.module = "rnr" /\ report.by = t.by /\ IsClosure(report)
      /\ report.run = "ReportRemoteNameRequestCancellation"
  BY <1>2 DEF IsClosure, ClosureRecord, Modules, RunNames
<1> HIDE DEF t, ts, report
<1>6. Carries(report) /\ Aside(report)
  BY <1>3, <1>5 DEF Carries, Aside, Arrives, Leaves
<1>7. /\ \A role \in Roles : \A id \in 1 .. MaxRequests :
           Plays(report, role, id) => Plays(t, role, id)
      /\ t.run \in NameEnds
  BY <1>2, <1>5 DEF Plays, Owing, Ending, Passing, NameEnds, Statuses
<1>8. Whole(Post(ts, report), hci, air, outgoing_entry_, queue, incoming, name, told, Asked)
  BY <1>1, <1>5, <1>6, <1>7, PassedOn DEF t, ts
<1> QED BY <1>1, <1>2, <1>4, <1>8, InvNext DEF scheduler, names, radio

LEMMA ClassicStepInv ==
  ASSUME Inv, Types', ClassicStep
  PROVE  Inv'
BY CreateInv, CreateStatusInv, CompleteInv, AnnounceInv, IncomingAnswerInv,
   AcceptStatusInv, CancelConnectInv, UnknownInv DEF ClassicStep

-----------------------------------------------------------------------------
(* The steps of RemoteNameRequestModuleImpl *)

LEMMA StartNameInv ==
  ASSUME Inv, Types', actually_start_remote_name_request
  PROVE  Inv'
<1> DEFINE t == This("rnr")
           ts == Rest("rnr")
           one == t.entry.id
           queue == pending_outgoing_operations_
           incoming == incoming_connecting_address_set_
           command == Command("REMOTE_NAME_REQUEST", t.entry)
<1>1. Runs("rnr", "actually_start_remote_name_request") /\ "rnr" \in Modules /\ tasks' = ts
        /\ on_remote_name_complete_' = one /\ hci' = Append(hci, command)
        /\ UNCHANGED <<scheduler, connections, air, told>>
  BY DEF actually_start_remote_name_request, Modules
<1>2. /\ Carries(t) /\ t.run = "actually_start_remote_name_request"
      /\ t.entry \in Entries /\ hci \in Seq(CommandRecord) /\ Asked' = Asked
      /\ air \subseteq Operation
  BY <1>1, Running
<1>3. IsPage(t.entry, "RNR")
  BY <1>2 DEF Carries
<1>4. command \in CommandRecord /\ command.op = "REMOTE_NAME_REQUEST" /\ command.entry = t.entry
  <2> HIDE DEF t
  <2> QED BY <1>2 DEF CommandNames, CommandRecord, Command
<1>5. one \in 1 .. MaxRequests
  BY <1>3 DEF IsPage
<1>6. \A role \in Roles : Plays(t, role, one)
  BY <1>2 DEF Plays, Owing, Ending, Passing, NameEnds, Roles
<1>7. Whole(ts, hci, air, outgoing_entry_, queue, incoming, on_remote_name_complete_, told, Asked)
  BY <1>1, TookAside
<1>8. /\ Concerns(t.entry, outgoing_entry_)
      /\ \A id \in 1 .. MaxRequests : Free(ts, hci, air, queue, "ends", id)
  BY <1>1, <1>5, <1>6, TookEnds DEF Roles
<1>9. /\ \A role \in Roles : Free(ts, hci, air, queue, role, one)
      /\ told[one] = <<>> /\ one <= Asked
  BY <1>1, <1>5, <1>6, Took DEF Roles
<1> HIDE DEF t, ts, command, one
<1>10. Whole(ts, hci, air, outgoing_entry_, queue, incoming, one, told, Asked)
  BY <1>2, <1>7, <1>8, ReleasedWhole
<1>11. \A id \in 1 .. MaxRequests : Starting(command, id) => id = one
  BY <1>4 DEF Starting, one
<1>12. CommandCarries(command) /\ CommandConcerns(command, outgoing_entry_, one)
  BY <1>3, <1>4, <1>8 DEF CommandCarries, CommandConcerns, one
<1>13. /\ \A role \in Roles : \A id \in 1 .. MaxRequests :
            Starting(command, id) => Free(ts, hci, air, queue, role, id)
       /\ \A id \in 1 .. MaxRequests : Starting(command, id) => told[id] = <<>> /\ id <= Asked
  BY <1>9, <1>11
<1>14. Whole(ts, Append(hci, command), air, outgoing_entry_, queue, incoming, one, told, Asked)
  BY <1>2, <1>4, <1>10, <1>12, <1>13, CommandSent
<1> QED BY <1>1, <1>2, <1>14, InvNext DEF scheduler

LEMMA StartNameStatusInv ==
  ASSUME Inv, Types', on_start_remote_name_request_status
  PROVE  Inv'
<1>1. Runs("rnr", "on_start_remote_name_request_status") /\ "rnr" \in Modules
        /\ UNCHANGED <<scheduler, on_remote_name_complete_, connections, radio>>
  BY DEF on_start_remote_name_request_status, Modules
<1>2. \/ This("rnr").success /\ tasks' = Rest("rnr") /\ UNCHANGED told
      \/ /\ ~This("rnr").success /\ Tell(This("rnr").entry.id, This("rnr").by)
         /\ tasks' = Post(Rest("rnr"),
              Closure("scheduler", "ReportRemoteNameRequestCompletion", This("rnr").entry))
  BY DEF on_start_remote_name_request_status
<1>3. Whole(tasks', hci, air, outgoing_entry_, pending_outgoing_operations_,
            incoming_connecting_address_set_, on_remote_name_complete_, told', Asked)
  BY <1>1, <1>2, StatusWhole
<1>4. Asked' = Asked
  BY <1>1, Running
<1> QED BY <1>1, <1>3, <1>4, InvNext DEF scheduler, radio

LEMMA CompletedInv ==
  ASSUME Inv, Types', NEW run, Runs("rnr", run), completed,
         run \in {"on_remote_name_request_complete", "ReportRemoteNameRequestCancellation"},
         UNCHANGED <<scheduler, connections, radio, fate>>
  PROVE  Inv'
<1> DEFINE t == This("rnr")
           ts == Rest("rnr")
           one == t.entry.id
           queue == pending_outgoing_operations_
           incoming == incoming_connecting_address_set_
           name == on_remote_name_complete_
           report == Closure("scheduler", "ReportRemoteNameRequestCompletion", t.entry)
<1>1. Runs("rnr", run) /\ "rnr" \in Modules /\ completed
        /\ UNCHANGED <<scheduler, connections, radio, fate>>
  BY DEF Modules
<1>2. /\ Carries(t) /\ t.run = run /\ t.entry \in Entries
      /\ Asked' = Asked /\ TaskConcerns(t, outgoing_entry_, name)
  BY <1>1, Running, Took
<1>3. IsPage(t.entry, "RNR") /\ t.by = one /\ name = one
  BY <1>2 DEF Carries, TaskConcerns, IsPage, NameEnds
<1>4. one \in 1 .. MaxRequests
  BY <1>3 DEF IsPage
<1>5. on_remote_name_complete_' = name
  BY <1>1 DEF completed, names
<1>6. CASE tasks' = ts /\ UNCHANGED told
  <2>1. Whole(ts, hci, air, outgoing_entry_, queue, incoming, name, told, Asked)
    BY <1>1, TookAside
  <2> HIDE DEF t, ts
  <2> QED BY <1>1, <1>2, <1>5, <1>6, <2>1, InvNext DEF scheduler, radio
<1>7. CASE Tell(name, t.by) /\ tasks' = Post(ts, report)
  <2>1. IsClosure(report)
    <3> HIDE DEF t
    <3> QED BY <1>2, ClosureIs DEF Modules, RunNames
  <2>2. report.entry = t.entry /\ report.module = "scheduler"
          /\ report.run = "ReportRemoteNameRequestCompletion"
    BY DEF Closure
  <2>3. Plays(t, "owes", one) /\ Plays(t, "ends", one) /\ Tell(one, one)
    BY <1>2, <1>3, <1>7 DEF Plays, Owing, Ending, Passing, NameEnds
  <2> HIDE DEF t, ts, report, one
  <2>4. Carries(report)
    BY <1>3, <2>2 DEF Carries
  <2>5. Whole(Post(ts, report), hci, air, outgoing_entry_, queue, incoming, name, told', Asked)
    BY <1>1, <1>4, <2>1, <2>2, <2>3, <2>4, AnsweredWhole DEF t, ts
  <2> QED BY <1>1, <1>2, <1>5, <1>7, <2>5, InvNext DEF scheduler, radio
<1> QED BY <1>1, <1>6, <1>7 DEF completed

LEMMA CancelNameInv ==
  ASSUME Inv, Types', actually_cancel_remote_name_request
  PROVE  Inv'
<1> DEFINE t == This("rnr")
           ts == Rest("rnr")
           queue == pending_outgoing_operations_
           incoming == incoming_connecting_address_set_
           name == on_remote_name_complete_
           command == Command("REMOTE_NAME_REQUEST_CANCEL", t.entry)
<1>1. Runs("rnr", "actually_cancel_remote_name_request") /\ "rnr" \in Modules /\ tasks' = ts
        /\ (hci' = Append(hci, command) \/ hci' = hci)
        /\ UNCHANGED <<scheduler, names, connections, air, fate, told>>
  BY DEF actually_cancel_remote_name_request, Modules
<1>2. t.entry \in Entries /\ Asked' = Asked /\ hci \in Seq(CommandRecord)
  BY <1>1, Running
<1>3. command \in CommandRecord /\ command.op = "REMOTE_NAME_REQUEST_CANCEL"
  <2> HIDE DEF t
  <2> QED BY <1>2 DEF CommandNames, CommandRecord, Command
<1>4. Whole(ts, hci, air, outgoing_entry_, queue, incoming, name, told, Asked)
  BY <1>1, TookAside
<1> HIDE DEF t, ts, command
<1>5. Whole(ts, Append(hci, command), air, outgoing_entry_, queue, incoming, name, told, Asked)
  BY <1>2, <1>3, <1>4, SilentCommand DEF CommandCarries
<1> QED BY <1>1, <1>2, <1>4, <1>5, InvNext DEF scheduler, names

\* Only the status of a cancellation that was late would end a request.
LEMMA CancelStatusInv ==
  ASSUME Undisturbed, Inv, Types', check_cancel_status
  PROVE  Inv'
<1> DEFINE t == This("rnr")
           ts == Rest("rnr")
           queue == pending_outgoing_operations_
           incoming == incoming_connecting_address_set_
           name == on_remote_name_complete_
<1>1. Runs("rnr", "check_cancel_status") /\ "rnr" \in Modules
        /\ UNCHANGED <<scheduler, connections, radio, fate>>
  BY DEF check_cancel_status, Modules
<1>2. t.success \/ ~pending_
  BY <1>1 DEF Undisturbed, CancelIsLate, Runs, This
<1>3. tasks' = ts /\ UNCHANGED <<names, told>>
  BY <1>2 DEF check_cancel_status, completed
<1>4. Asked' = Asked
  BY <1>1, Running
<1>5. Whole(ts, hci, air, outgoing_entry_, queue, incoming, name, told, Asked)
  BY <1>1, TookAside
<1> HIDE DEF t, ts
<1> QED BY <1>1, <1>3, <1>4, <1>5, InvNext DEF scheduler, names, radio

LEMMA NameStepInv ==
  ASSUME Undisturbed, Inv, Types', NameStep
  PROVE  Inv'
<1>1. CASE on_remote_name_request_complete
  BY <1>1, CompletedInv DEF on_remote_name_request_complete
<1>2. CASE ReportRemoteNameRequestCancellation
  BY <1>2, CompletedInv DEF ReportRemoteNameRequestCancellation
<1> QED BY <1>1, <1>2, StartNameInv, StartNameStatusInv, CancelNameInv, CancelStatusInv DEF NameStep

-----------------------------------------------------------------------------
(* The steps of the controller *)

LEMMA AirWhole ==
  ASSUME NEW ts, NEW commands, NEW ops, NEW outgoing, NEW queue, NEW incoming, NEW name,
         NEW answers, NEW asked,
         Whole(ts, commands, ops, outgoing, queue, incoming, name, answers, asked),
         NEW left, Requests(ts, commands, left, queue, answers, asked),
         OperationsAre(left, outgoing, name),
         \A c \in Callers : /\ Calling(left, c) # {} => Calling(ops, c) # {}
                            /\ \A p, q \in Calling(left, c) : p = q
  PROVE  Whole(ts, commands, left, outgoing, queue, incoming, name, answers, asked)
<1>1. Contents(ts, commands, left, outgoing, name)
  BY DEF Whole, Contents
<1>2. ASSUME NEW c \in Callers PROVE CallInv(ts, incoming, left, c)
  <2>1. CallInv(ts, incoming, ops, c)
    BY DEF Whole, Calls
  <2> QED BY <2>1, CallKept
<1> QED BY <1>1, <1>2 DEF Whole, Calls

LEMMA CommandTaken ==
  ASSUME Inv, hci # <<>>
  PROVE  /\ CommandCarries(Head(hci))
         /\ CommandConcerns(Head(hci), outgoing_entry_, on_remote_name_complete_)
         /\ Whole(tasks, Tail(hci), air, outgoing_entry_, pending_outgoing_operations_,
                  incoming_connecting_address_set_, on_remote_name_complete_, told, Asked)
         /\ \A role \in Roles : \A id \in 1 .. MaxRequests :
              Starting(Head(hci), id) =>
                Free(tasks, Tail(hci), air, pending_outgoing_operations_, role, id)
         /\ \A id \in 1 .. MaxRequests :
              Starting(Head(hci), id) => told[id] = <<>> /\ id <= Asked
         /\ IsTasks(tasks) /\ Tail(hci) \in Seq(CommandRecord) /\ Head(hci).entry \in Entries
<1>1. hci \in Seq(CommandRecord) /\ IsTasks(tasks)
  BY DEF Inv, Types
<1>2. Head(hci) \in CommandRecord /\ Tail(hci) \in Seq(CommandRecord)
  BY <1>1
<1>3. /\ CommandsCarry(Tail(hci), outgoing_entry_, on_remote_name_complete_)
      /\ CommandCarries(Head(hci))
      /\ CommandConcerns(Head(hci), outgoing_entry_, on_remote_name_complete_)
  BY <1>1, CarryTail DEF Inv, Contents
<1>4. PICK answers : answers = told
  OBVIOUS
<1>5. /\ Requests(tasks, Tail(hci), air, pending_outgoing_operations_, answers, Asked)
      /\ \A role \in Roles : \A id \in 1 .. MaxRequests :
           Starting(Head(hci), id) =>
             Free(tasks, Tail(hci), air, pending_outgoing_operations_, role, id)
      /\ \A id \in 1 .. MaxRequests :
           Starting(Head(hci), id) => answers[id] = <<>> /\ id <= Asked
  <2>1. Requests(tasks, hci, air, pending_outgoing_operations_, answers, Asked)
    BY <1>4 DEF Inv
  <2> QED BY <1>1, <2>1, TakeCommand
<1>6. Whole(tasks, Tail(hci), air, outgoing_entry_, pending_outgoing_operations_,
            incoming_connecting_address_set_, on_remote_name_complete_, told, Asked)
  BY <1>3, <1>4, <1>5 DEF Inv, Whole, Contents
<1>7. Head(hci).entry \in Entries
  BY <1>2 DEF CommandRecord
<1> QED BY <1>1, <1>2, <1>3, <1>4, <1>5, <1>6, <1>7

\* A command that starts a request is refused, or becomes an operation.
LEMMA StartsPagingInv ==
  ASSUME Inv, Types', NEW op, NEW m, NEW run, StartsPaging(op, m, run),
         \/ op = "CREATE_CONNECTION" /\ m = "acl" /\ run = "on_create_connection_status"
         \/ op = "REMOTE_NAME_REQUEST" /\ m = "rnr" /\ run = "on_start_remote_name_request_status"
  PROVE  Inv'
<1> DEFINE command == Head(hci)
           entry == command.entry
           one == entry.id
           rest == Tail(hci)
           queue == pending_outgoing_operations_
           incoming == incoming_connecting_address_set_
           name == on_remote_name_complete_
           page == Going(entry)
<1>1. hci # <<>>
  BY DEF StartsPaging
<1>2. PICK success \in BOOLEAN :
        /\ Answers(op, Post(tasks, Completion(m, run, entry, success, one)))
        /\ air' = IF success THEN air \cup {page} ELSE air
  BY DEF StartsPaging
<1> DEFINE status == Completion(m, run, entry, success, one)
<1>3. /\ command.op = op /\ hci' = rest /\ tasks' = Post(tasks, status)
      /\ UNCHANGED <<scheduler, names, connections, fate, told, counts>>
  BY <1>2 DEF Answers
<1>4. /\ CommandCarries(command) /\ CommandConcerns(command, outgoing_entry_, name)
      /\ Whole(tasks, rest, air, outgoing_entry_, queue, incoming, name, told, Asked)
      /\ \A role \in Roles : \A id \in 1 .. MaxRequests :
           Starting(command, id) => Free(tasks, rest, air, queue, role, id)
      /\ \A id \in 1 .. MaxRequests : Starting(command, id) => told[id] = <<>> /\ id <= Asked
      /\ IsTasks(tasks) /\ entry \in Entries
  BY <1>1, CommandTaken
<1>5. /\ op = "CREATE_CONNECTION" => IsPage(entry, "ACL")
      /\ op = "REMOTE_NAME_REQUEST" => IsPage(entry, "RNR")
  BY <1>3, <1>4 DEF CommandCarries
<1>6. one \in 1 .. MaxRequests /\ entry.address \in Peers /\ entry.kind \in {"ACL", "RNR"}
  BY <1>5 DEF IsPage
<1>7. Starting(command, one)
  BY <1>3 DEF Starting
<1>8. /\ Concerns(entry, outgoing_entry_)
      /\ op = "REMOTE_NAME_REQUEST" => name = one
  BY <1>3, <1>4, <1>6, <1>7 DEF CommandConcerns
<1>9. /\ status.entry = entry /\ status.by = one /\ status.success = success
      /\ status.run = run /\ status.module = m
  BY DEF Completion
<1>10. IsClosure(status)
  <2>1. m \in Modules /\ run \in RunNames /\ run # "Enqueue" /\ one \in 0 .. MaxRequests
    BY <1>6 DEF Modules, RunNames
  <2> HIDE DEF entry, one
  <2> QED BY <1>4, <2>1, CompletionIs
<1>11. /\ page.id = one /\ page.kind = entry.kind /\ page.address = entry.address
       /\ page.state = "going"
  BY DEF Going
<1> HIDE DEF command, entry, rest, page, status
<1>12. Carries(status) /\ Aside(status)
  BY <1>5, <1>9 DEF Carries, Aside, Arrives, Leaves
<1>13. \A role \in Roles : \A id \in 1 .. MaxRequests :
         Plays(status, role, id) => id = one /\ ~success
  BY <1>9 DEF Plays, Owing, Ending, Passing, NameEnds, Statuses
<1>14. Asked' = Asked
  BY <1>3, AskedKept
<1>15. CASE ~success
  <2>1. TaskConcerns(status, outgoing_entry_, name)
    BY <1>8, <1>9 DEF TaskConcerns, NameEnds
  <2>2. /\ \A role \in Roles : \A id \in 1 .. MaxRequests :
             Plays(status, role, id) => Free(tasks, rest, air, queue, role, id)
        /\ \A id \in 1 .. MaxRequests : Plays(status, "owes", id) => told[id] = <<>> /\ id <= Asked
    BY <1>4, <1>7, <1>13 DEF Roles
  <2>3. Whole(Post(tasks, status), rest, air, outgoing_entry_, queue, incoming, name, told, Asked)
    BY <1>4, <1>10, <1>12, <2>1, <2>2, PostWhole
  <2>4. air' = air
    BY <1>2, <1>15
  <2> QED BY <1>3, <1>14, <2>3, <2>4, InvNext DEF scheduler, names
<1>16. CASE success
  <2> DEFINE more == air \cup {page}
  <2>1. \A id \in 1 .. MaxRequests : Ongoing(page, id) => id = one
    BY <1>11 DEF Ongoing
  <2>2. Requests(tasks, rest, more, queue, told, Asked)
    <3>1. Requests(tasks, rest, air, queue, told, Asked)
      BY <1>4 DEF Whole
    <3>2. /\ \A role \in Roles : \A id \in 1 .. MaxRequests :
               Ongoing(page, id) => Free(tasks, rest, air, queue, role, id)
          /\ \A id \in 1 .. MaxRequests : Ongoing(page, id) => told[id] = <<>> /\ id <= Asked
      BY <1>4, <1>7, <2>1
    <3> QED BY <3>1, <3>2, PutOperation
  <2>3. OperationsAre(more, outgoing_entry_, name)
    <3>1. OperationIs(page)
      BY <1>5, <1>11 DEF OperationIs, IsPage
    <3>2. OperationConcerns(page, outgoing_entry_, name)
      BY <1>5, <1>8, <1>11 DEF OperationConcerns, Concerns, IsPage
    <3>3. OperationsAre(air, outgoing_entry_, name)
      BY DEF Inv, Contents
    <3> QED BY <3>1, <3>2, <3>3 DEF OperationsAre
  <2>4. ASSUME NEW c \in Callers
        PROVE  /\ Calling(more, c) # {} => Calling(air, c) # {}
               /\ \A p, q \in Calling(more, c) : p = q
    <3>1. Calling(more, c) = Calling(air, c)
      BY <1>6, <1>11 DEF Calling
    <3>2. CallInv(tasks, incoming, air, c)
      BY DEF Inv, Calls
    <3> QED BY <3>1, <3>2 DEF CallInv
  <2> HIDE DEF more
  <2>5. Whole(tasks, rest, more, outgoing_entry_, queue, incoming, name, told, Asked)
    BY <1>4, <2>2, <2>3, <2>4, AirWhole
  <2>6. Silent(status)
    BY <1>13, <1>16 DEF Silent
  <2>7. Whole(Post(tasks, status), rest, more, outgoing_entry_, queue, incoming, name, told, Asked)
    BY <1>4, <1>10, <1>12, <2>5, <2>6, PostSilent
  <2>8. air' = more
    BY <1>2, <1>16 DEF more
  <2> QED BY <1>3, <1>14, <2>7, <2>8, InvNext DEF scheduler, names
<1> QED BY <1>15, <1>16

\* The answer to a call changes the state of the call.
LEMMA BecomesFacts ==
  ASSUME Inv, NEW d, NEW ops, ops = Doing("INCOMING", d), NEW state, state # "link",
         NEW o \in Becomes(ops, state)
  PROVE  \/ o \in air
         \/ \E p \in air : /\ p.kind = "INCOMING" /\ p.state # "link" /\ p.address = o.address
                           /\ IsCall(p) /\ IsCall(o) /\ o = [p EXCEPT !.state = state]
<1>1. CASE o \in air
  BY <1>1
<1>2. CASE o \notin air
  <2>1. PICK p \in ops : o = [p EXCEPT !.state = state]
    BY <1>2 DEF Becomes
  <2>2. p \in air /\ p.kind = "INCOMING" /\ p.state # "link" /\ p \in Operation
    BY DEF Doing, Inv, Types
  <2>3. OperationIs(p)
    BY <2>2 DEF Inv, Contents, OperationsAre
  <2>4. IsCall(p)
    BY <2>2, <2>3 DEF OperationIs, IsPage
  <2>5. o.id = p.id /\ o.kind = p.kind /\ o.address = p.address
    BY <2>1, <2>2 DEF Operation
  <2> QED BY <2>1, <2>2, <2>4, <2>5 DEF IsCall
<1> QED BY <1>1, <1>2

LEMMA BecomesWhole ==
  ASSUME Inv, NEW d, NEW ops, ops = Doing("INCOMING", d), NEW state, state # "link",
         NEW commands,
         Whole(tasks, commands, air, outgoing_entry_, pending_outgoing_operations_,
               incoming_connecting_address_set_, on_remote_name_complete_, told, Asked)
  PROVE  Whole(tasks, commands, Becomes(ops, state), outgoing_entry_,
               pending_outgoing_operations_, incoming_connecting_address_set_,
               on_remote_name_complete_, told, Asked)
<1> DEFINE left == Becomes(ops, state)
<1>1. ASSUME NEW o \in left
      PROVE  \/ o \in air
             \/ \E p \in air :
                  /\ p.kind = "INCOMING" /\ p.state # "link" /\ p.address = o.address
                  /\ IsCall(p) /\ IsCall(o) /\ o = [p EXCEPT !.state = state]
  BY BecomesFacts
<1> HIDE DEF left
<1>2. Requests(tasks, commands, left, pending_outgoing_operations_, told, Asked)
  <2>1. \A o \in left : \A id \in 1 .. MaxRequests : Ongoing(o, id) => o \in air
    BY <1>1, BoundsAreNat DEF Ongoing, IsCall
  <2>2. Requests(tasks, commands, air, pending_outgoing_operations_, told, Asked)
    BY DEF Whole
  <2> QED BY <2>1, <2>2, KeepOperations
<1>3. OperationsAre(left, outgoing_entry_, on_remote_name_complete_)
  <2>1. OperationsAre(air, outgoing_entry_, on_remote_name_complete_)
    BY DEF Inv, Contents
  <2>2. ASSUME NEW o, IsCall(o)
        PROVE  OperationIs(o) /\ OperationConcerns(o, outgoing_entry_, on_remote_name_complete_)
    BY <2>2, BoundsAreNat DEF IsCall, OperationIs, OperationConcerns, Ongoing
  <2> QED BY <1>1, <2>1, <2>2 DEF OperationsAre
<1>4. ASSUME NEW c \in Callers
      PROVE  /\ Calling(left, c) # {} => Calling(air, c) # {}
             /\ \A p, q \in Calling(left, c) : p = q
  <2>1. \A p, q \in Calling(air, c) : p = q
    BY DEF Inv, Calls, CallInv
  <2>2. ASSUME NEW o \in Calling(left, c)
        PROVE  \E p \in Calling(air, c) : o = p \/ o = [p EXCEPT !.state = state]
    BY <1>1 DEF Calling
  <2>3. ASSUME NEW o \in Calling(left, c), NEW p \in Calling(air, c), o = p
        PROVE  p \in left
    BY <2>3 DEF Calling
  <2>4. ASSUME NEW p \in Calling(air, c), p \in left, p # [p EXCEPT !.state = state]
        PROVE  [p EXCEPT !.state = state] \notin left
    <3>1. p \in air /\ p \in Operation /\ p.kind = "INCOMING" /\ p.address = c /\ p.state # "link"
      BY DEF Calling, Inv, Types
    <3>2. CASE c = d
      <4>1. p \in ops
        BY <3>1, <3>2 DEF Doing
      <4>2. PICK q \in ops : p = [q EXCEPT !.state = state]
        BY <2>4, <4>1 DEF left, Becomes
      <4>3. q \in Operation
        BY DEF Doing, Inv, Types
      <4>4. p.state = state
        BY <4>2, <4>3 DEF Operation
      <4>5. p = [p EXCEPT !.state = state]
        BY <3>1, <4>4 DEF Operation
      <4> QED BY <2>4, <4>5
    <3>3. CASE c # d
      <4>1. ASSUME [p EXCEPT !.state = state] \in left PROVE FALSE
        <5> DEFINE r == [p EXCEPT !.state = state]
        <5>1. r.address = c /\ r.kind = "INCOMING" /\ r.state = state
          BY <3>1 DEF Operation
        <5>2. r \notin air
          <6>1. r \in air => r \in Calling(air, c)
            BY <5>1 DEF Calling
          <6> QED BY <2>1, <2>4, <6>1
        <5>3. PICK q \in ops : r = [q EXCEPT !.state = state]
          BY <4>1, <5>2 DEF left, Becomes
        <5>4. q \in Operation /\ q.address = d
          BY DEF Doing, Inv, Types
        <5>5. r.address = d
          BY <5>3, <5>4 DEF Operation
        <5> QED BY <3>3, <5>1, <5>5
      <4> QED BY <4>1
    <3> QED BY <3>2, <3>3
  <2>5. Calling(left, c) # {} => Calling(air, c) # {}
    BY <2>2
  <2>6. ASSUME NEW p \in Calling(left, c), NEW q \in Calling(left, c)
        PROVE  p = q
    <3>1. PICK a \in Calling(air, c) : p = a \/ p = [a EXCEPT !.state = state]
      BY <2>2
    <3>2. PICK b \in Calling(air, c) : q = b \/ q = [b EXCEPT !.state = state]
      BY <2>2
    <3>3. a = b /\ p \in left /\ q \in left
      BY <2>1 DEF Calling
    <3> QED BY <2>4, <3>1, <3>2, <3>3
  <2> QED BY <2>5, <2>6
<1>5. Whole(tasks, commands, left, outgoing_entry_, pending_outgoing_operations_,
            incoming_connecting_address_set_, on_remote_name_complete_, told, Asked)
  BY <1>2, <1>3, <1>4, AirWhole
<1> QED BY <1>5 DEF left

\* A cancelled name request goes on under the same number until it ends.
LEMMA CancelledWhole ==
  ASSUME Inv, NEW d, NEW ops, ops = Doing("RNR", d), NEW commands,
         Whole(tasks, commands, air, outgoing_entry_, pending_outgoing_operations_,
               incoming_connecting_address_set_, on_remote_name_complete_, told, Asked)
  PROVE  Whole(tasks, commands, Becomes(ops, "cancelled"), outgoing_entry_,
               pending_outgoing_operations_, incoming_connecting_address_set_,
               on_remote_name_complete_, told, Asked)
<1> DEFINE left == Becomes(ops, "cancelled")
           Ended(p) == [p EXCEPT !.state = "cancelled"]
           name == on_remote_name_complete_
<1>1. ASSUME NEW p \in ops
      PROVE  /\ p \in air /\ p \in Operation /\ p.kind = "RNR" /\ p.state # "link"
             /\ OperationIs(p) /\ OperationConcerns(p, outgoing_entry_, name)
             /\ Ended(p).id = p.id /\ Ended(p).kind = p.kind /\ Ended(p).address = p.address
             /\ Ended(p).state = "cancelled" /\ (p.state = "cancelled" => Ended(p) = p)
  <2>1. p \in air /\ p \in Operation /\ p.kind = "RNR" /\ p.state # "link"
    BY DEF Doing, Inv, Types
  <2>2. OperationIs(p) /\ OperationConcerns(p, outgoing_entry_, name)
    BY <2>1 DEF Inv, Contents, OperationsAre
  <2>3. /\ Ended(p).id = p.id /\ Ended(p).kind = p.kind /\ Ended(p).address = p.address
        /\ Ended(p).state = "cancelled" /\ (p.state = "cancelled" => Ended(p) = p)
    BY <2>1 DEF Operation
  <2> QED BY <2>1, <2>2, <2>3
<1>2. \A o \in left : o \in air \ ops \/ \E p \in ops : o = Ended(p)
  BY DEF Becomes
<1> HIDE DEF left, Ended
<1>3. ASSUME NEW id \in 1 .. MaxRequests
      PROVE  OnceInAir(left, id) /\ (InAir(left, id) => InAir(air, id))
  <2>1. RequestInv(tasks, hci, air, pending_outgoing_operations_, told, Asked, id)
    BY DEF Inv, Requests
  <2>2. \A p, q \in air : Ongoing(p, id) /\ Ongoing(q, id) => p = q
    BY <2>1 DEF RequestInv, Roles, OnePlace, OnceInAir
  <2>3. ASSUME NEW o \in left, Ongoing(o, id)
        PROVE  \E p \in air : /\ Ongoing(p, id)
                              /\ \/ p \notin ops /\ o = p
                                 \/ p \in ops /\ o = Ended(p)
    <3>1. CASE o \in air \ ops
      BY <2>3, <3>1
    <3>2. CASE \E p \in ops : o = Ended(p)
      <4>1. PICK p \in ops : o = Ended(p)
        BY <3>2
      <4>2. p \in air /\ Ongoing(p, id)
        BY <1>1, <2>3, <4>1 DEF Ongoing
      <4> QED BY <4>1, <4>2
    <3> QED BY <1>2, <3>1, <3>2
  <2>4. ASSUME NEW o \in left, NEW r \in left, Ongoing(o, id), Ongoing(r, id)
        PROVE  o = r
    <3>1. PICK p \in air : /\ Ongoing(p, id)
                           /\ \/ p \notin ops /\ o = p
                              \/ p \in ops /\ o = Ended(p)
      BY <2>3, <2>4
    <3>2. PICK q \in air : /\ Ongoing(q, id)
                           /\ \/ q \notin ops /\ r = q
                              \/ q \in ops /\ r = Ended(q)
      BY <2>3, <2>4
    <3>3. p = q
      BY <2>2, <3>1, <3>2
    <3> QED BY <3>1, <3>2, <3>3
  <2> QED BY <2>3, <2>4 DEF OnceInAir, InAir
<1>4. Requests(tasks, commands, left, pending_outgoing_operations_, told, Asked)
  <2>1. Requests(tasks, commands, air, pending_outgoing_operations_, told, Asked)
    BY DEF Whole
  <2> QED BY <1>3, <2>1, RestateOperations
<1>5. OperationsAre(left, outgoing_entry_, name)
  <2>1. ASSUME NEW o \in left
        PROVE  OperationIs(o) /\ OperationConcerns(o, outgoing_entry_, name)
    <3>1. CASE o \in air \ ops
      BY <3>1 DEF Inv, Contents, OperationsAre
    <3>2. CASE \E p \in ops : o = Ended(p)
      <4>1. PICK p \in ops : o = Ended(p)
        BY <3>2
      <4>2. IsPage(p, "RNR")
        BY <1>1 DEF OperationIs, IsCall, IsPage
      <4>3. OperationIs(o)
        BY <1>1, <4>1, <4>2 DEF OperationIs, IsPage
      <4>4. OperationConcerns(o, outgoing_entry_, name)
        BY <1>1, <4>1 DEF OperationConcerns, Ongoing, Concerns
      <4> QED BY <4>3, <4>4
    <3> QED BY <1>2, <3>1, <3>2
  <2> QED BY <2>1 DEF OperationsAre
<1>6. ASSUME NEW c \in Callers
      PROVE  /\ Calling(left, c) # {} => Calling(air, c) # {}
             /\ \A p, q \in Calling(left, c) : p = q
  <2>1. \A p, q \in Calling(air, c) : p = q
    BY DEF Inv, Calls, CallInv
  <2>2. \A o \in Calling(left, c) : o \in Calling(air, c)
    BY <1>1, <1>2 DEF Calling
  <2> QED BY <2>1, <2>2
<1>7. Whole(tasks, commands, left, outgoing_entry_, pending_outgoing_operations_,
            incoming_connecting_address_set_, name, told, Asked)
  BY <1>4, <1>5, <1>6, AirWhole
<1> QED BY <1>7 DEF left

LEMMA ControllerInv ==
  ASSUME Inv, Types', ControllerAnswers
  PROVE  Inv'
<1> DEFINE entry == Head(hci).entry
           rest == Tail(hci)
           queue == pending_outgoing_operations_
           incoming == incoming_connecting_address_set_
           name == on_remote_name_complete_
           ops == Doing("INCOMING", entry.address)
           success == ops # {}
           status == Completion("acl", "on_accept_connection_status", entry, success, 0)
<1>1. CASE ControllerCreateConnection
  BY <1>1, StartsPagingInv DEF ControllerCreateConnection
<1>2. CASE ControllerRemoteNameRequest
  BY <1>2, StartsPagingInv DEF ControllerRemoteNameRequest
<1>3. ASSUME hci # <<>>
      PROVE  /\ CommandCarries(Head(hci)) /\ IsTasks(tasks) /\ entry \in Entries
             /\ Whole(tasks, rest, air, outgoing_entry_, queue, incoming, name, told, Asked)
  BY <1>3, CommandTaken
<1>4. CASE ControllerCreateConnectionCancel
  <2>1. /\ hci # <<>> /\ hci' = rest /\ tasks' = tasks /\ air' = air
        /\ UNCHANGED <<scheduler, names, connections, fate, told, counts>>
    BY <1>4 DEF ControllerCreateConnectionCancel, Answers
  <2> HIDE DEF rest
  <2> QED BY <1>3, <2>1, AskedKept, InvNext DEF scheduler, names
<1>5. CASE ControllerRemoteNameRequestCancel
  <2> DEFINE requests == Doing("RNR", entry.address)
             found == requests # {}
             report == Completion("rnr", "check_cancel_status", entry, found, 0)
             left == Becomes(requests, "cancelled")
  <2>1. /\ hci # <<>> /\ hci' = rest /\ tasks' = Post(tasks, report) /\ air' = left
        /\ UNCHANGED <<scheduler, names, connections, fate, told, counts>>
    BY <1>5 DEF ControllerRemoteNameRequestCancel, Answers
  <2>2. IsClosure(report)
    <3>1. found \in BOOLEAN /\ entry \in Entries /\ 0 \in 0 .. MaxRequests
      BY <1>3, <2>1, BoundsAreNat
    <3> HIDE DEF found, entry
    <3> QED BY <3>1, CompletionIs DEF Modules, RunNames
  <2>3. report.module = "rnr" /\ report.run = "check_cancel_status"
    BY DEF Completion
  <2> HIDE DEF report, rest, entry
  <2>4. Carries(report) /\ Silent(report) /\ Aside(report)
    BY <2>3 DEF Carries, Silent, Plays, Owing, Ending, Passing, NameEnds, Statuses,
                Aside, Arrives, Leaves
  <2>5. Whole(tasks, rest, left, outgoing_entry_, queue, incoming, name, told, Asked)
    BY <1>3, <2>1, CancelledWhole
  <2> HIDE DEF left
  <2>6. Whole(Post(tasks, report), rest, left, outgoing_entry_, queue, incoming, name, told, Asked)
    BY <1>3, <2>1, <2>2, <2>4, <2>5, PostSilent
  <2>7. Asked' = Asked
    BY <2>1, AskedKept
  <2> QED BY <2>1, <2>6, <2>7, InvNext DEF scheduler, names
<1>6. CASE ControllerIncomingAnswered
  <2>1. /\ hci # <<>> /\ hci' = rest
        /\ UNCHANGED <<scheduler, names, connections, fate, told, counts>>
        /\ Head(hci).op \in {"ACCEPT", "REJECT"}
    BY <1>6 DEF ControllerIncomingAnswered, Answers
  <2>2. \/ tasks' = Post(tasks, status) /\ air' = Becomes(ops, "going")
        \/ tasks' = tasks /\ air' = Becomes(ops, "rejected")
    BY <1>6 DEF ControllerIncomingAnswered, Answers
  <2>3. IsCall(entry)
    BY <1>3, <2>1 DEF CommandCarries
  <2>4. IsClosure(status)
    <3>1. success \in BOOLEAN /\ entry \in Entries /\ 0 \in 0 .. MaxRequests
      BY <1>3, <2>1, BoundsAreNat
    <3> HIDE DEF success, entry
    <3> QED BY <3>1, CompletionIs DEF Modules, RunNames
  <2>5. /\ status.entry = entry /\ status.module = "acl"
        /\ status.run = "on_accept_connection_status"
    BY DEF Completion
  <2> HIDE DEF status, rest, entry
  <2>6. Carries(status) /\ Silent(status) /\ Aside(status)
    BY <2>3, <2>5, SilentZero DEF Carries, Aside, Arrives, Leaves, IsCall
  <2>7. ASSUME NEW state \in {"going", "rejected"}
        PROVE  Whole(tasks, rest, Becomes(ops, state), outgoing_entry_, queue, incoming, name,
                     told, Asked)
    BY <1>3, <2>1, BecomesWhole
  <2>8. Whole(Post(tasks, status), rest, Becomes(ops, "going"), outgoing_entry_, queue,
              incoming, name, told, Asked)
    <3> DEFINE left == Becomes(ops, "going")
    <3>1. Whole(tasks, rest, left, outgoing_entry_, queue, incoming, name, told, Asked)
      BY <2>7
    <3> HIDE DEF left
    <3>2. Whole(Post(tasks, status), rest, left, outgoing_entry_, queue, incoming, name, told, Asked)
      BY <1>3, <2>1, <2>4, <2>5, <2>6, <3>1, PostSilent
    <3> QED BY <3>2 DEF left
  <2>9. Asked' = Asked
    BY <2>1, AskedKept
  <2> HIDE DEF ops
  <2> QED BY <2>1, <2>2, <2>7, <2>8, <2>9, InvNext DEF scheduler, names
<1> QED BY <1>1, <1>2, <1>4, <1>5, <1>6 DEF ControllerAnswers

\* An operation ends: it is gone, or it is a link, and its completion is on its way.
LEMMA EndedWhole ==
  ASSUME Inv, NEW op \in air, op.state # "link", NEW left, NEW t, IsClosure(t),
         t.entry = op, t.by = op.id,
         \/ t.run = "on_connection_complete" /\ t.module = "acl" /\ (op.kind = "RNR" => ~t.success)
         \/ t.run = "on_remote_name_request_complete" /\ t.module = "rnr" /\ op.kind = "RNR",
         \A o \in left :
           \/ o \in air /\ o # op
           \/ /\ o.state = "link" /\ op.kind # "RNR"
              /\ o.id = op.id /\ o.kind = op.kind /\ o.address = op.address
  PROVE  Whole(Post(tasks, t), hci, left, outgoing_entry_, pending_outgoing_operations_,
               incoming_connecting_address_set_, on_remote_name_complete_, told, Asked)
<1> DEFINE queue == pending_outgoing_operations_
           incoming == incoming_connecting_address_set_
           name == on_remote_name_complete_
<1>1. OperationIs(op) /\ OperationConcerns(op, outgoing_entry_, name) /\ IsTasks(tasks)
  BY DEF Inv, Contents, OperationsAre, Types
<1>2. Carries(t)
  BY <1>1 DEF Carries, OperationIs, IsCall, IsPage
<1>3. \A role \in Roles : \A id \in 1 .. MaxRequests : Plays(t, role, id) => Ongoing(op, id)
  BY DEF Plays, Ongoing
<1>4. TaskConcerns(t, outgoing_entry_, name)
  BY <1>1, <1>3 DEF TaskConcerns, OperationConcerns, Roles
<1>5. OperationsAre(left, outgoing_entry_, name)
  <2>1. ASSUME NEW o \in left
        PROVE  OperationIs(o) /\ OperationConcerns(o, outgoing_entry_, name)
    <3>1. CASE o \in air
      BY <3>1 DEF Inv, Contents, OperationsAre
    <3>2. CASE /\ o.state = "link" /\ op.kind # "RNR"
               /\ o.id = op.id /\ o.kind = op.kind /\ o.address = op.address
      BY <1>1, <3>2 DEF OperationIs, OperationConcerns, IsCall, IsPage, Ongoing
    <3> QED BY <3>1, <3>2
  <2> QED BY <2>1 DEF OperationsAre
<1>6. /\ Requests(tasks, hci, left, queue, told, Asked)
      /\ \A role \in Roles : \A id \in 1 .. MaxRequests :
           Ongoing(op, id) => Free(tasks, hci, left, queue, role, id)
      /\ \A id \in 1 .. MaxRequests : Ongoing(op, id) => told[id] = <<>> /\ id <= Asked
  <2>1. PICK answers : answers = told
    OBVIOUS
  <2>2. Requests(tasks, hci, air, queue, answers, Asked)
    BY <2>1 DEF Inv
  <2>3. OthersLeft(air, left, op)
    BY DEF OthersLeft, Ongoing
  <2>4. /\ Requests(tasks, hci, left, queue, answers, Asked)
        /\ \A role \in Roles : \A id \in 1 .. MaxRequests :
             Ongoing(op, id) => Free(tasks, hci, left, queue, role, id)
        /\ \A id \in 1 .. MaxRequests : Ongoing(op, id) => answers[id] = <<>> /\ id <= Asked
    BY <2>2, <2>3, TakeOperation
  <2> QED BY <2>1, <2>4
<1>7. Requests(Post(tasks, t), hci, left, queue, told, Asked)
  <2>1. PICK answers : answers = told
    OBVIOUS
  <2>2. /\ \A role \in Roles : \A id \in 1 .. MaxRequests :
             Plays(t, role, id) => Free(tasks, hci, left, queue, role, id)
        /\ \A id \in 1 .. MaxRequests : Plays(t, "owes", id) => answers[id] = <<>> /\ id <= Asked
    BY <1>3, <1>6, <2>1 DEF Roles
  <2> QED BY <1>1, <1>6, <2>1, <2>2, PutTask
<1>8. Contents(Post(tasks, t), hci, left, outgoing_entry_, name)
  BY <1>1, <1>2, <1>4, <1>5, CarryPost DEF Inv, Contents
<1>9. ASSUME NEW c \in Callers PROVE CallInv(Post(tasks, t), incoming, left, c)
  <2>1. CallInv(tasks, incoming, air, c) /\ \A p, q \in Calling(air, c) : p = q
    BY DEF Inv, Calls, CallInv
  <2>2. \A o \in Calling(left, c) : o \in Calling(air, c) /\ o # op
    BY DEF Calling
  <2>3. CASE op.kind = "INCOMING" /\ op.address = c
    <3>1. op \in Calling(air, c)
      BY <2>3 DEF Calling
    <3>2. Calling(left, c) = {}
      BY <2>1, <2>2, <3>1
    <3>3. ~Leaves(t, "scheduler", c)
      BY DEF Leaves
    <3> QED BY <1>1, <2>1, <3>1, <3>2, <3>3, CallGoes
  <2>4. CASE ~(op.kind = "INCOMING" /\ op.address = c)
    <3>1. CallInv(tasks, incoming, left, c)
      BY <2>1, <2>2, CallKept
    <3>2. ~Leaves(t, "scheduler", c) /\ ~Leaves(t, "acl", c)
      BY <2>4 DEF Leaves
    <3> QED BY <1>1, <3>1, <3>2, PostCall
  <2> QED BY <2>3, <2>4
<1> QED BY <1>7, <1>8, <1>9 DEF Whole, Calls, Inv

LEMMA OperationEndsInv ==
  ASSUME Inv, Types', NEW op \in air, OperationEnds(op)
  PROVE  Inv'
<1>1. /\ op \in Operation /\ op \in Entries /\ op.id \in 0 .. MaxRequests
      /\ OperationIs(op)
  BY EntryFields DEF Inv, Types, Entries, Contents, OperationsAre
<1>2. ASSUME NEW m, NEW run, NEW success \in BOOLEAN, Event(m, run, op, success),
             op.state # "link",
             \/ run = "on_connection_complete" /\ m = "acl" /\ (op.kind = "RNR" => ~success)
             \/ run = "on_remote_name_request_complete" /\ m = "rnr" /\ op.kind = "RNR",
             \A o \in air' :
               \/ o \in air /\ o # op
               \/ /\ o.state = "link" /\ op.kind # "RNR"
                  /\ o.id = op.id /\ o.kind = op.kind /\ o.address = op.address
      PROVE  Inv'
  <2> DEFINE t == Completion(m, run, op, success, op.id)
  <2>1. /\ tasks' = Post(tasks, t)
        /\ UNCHANGED <<scheduler, names, connections, hci, fate, told, counts>>
    BY <1>2 DEF Event
  <2>2. IsClosure(t)
    <3>1. m \in Modules /\ run \in RunNames /\ run # "Enqueue"
      BY <1>2 DEF Modules, RunNames
    <3> QED BY <1>1, <3>1, CompletionIs
  <2>3. t.entry = op /\ t.by = op.id /\ t.run = run /\ t.module = m /\ t.success = success
    BY DEF Completion
  <2> HIDE DEF t
  <2>4. Whole(Post(tasks, t), hci, air', outgoing_entry_, pending_outgoing_operations_,
              incoming_connecting_address_set_, on_remote_name_complete_, told, Asked)
    <3> DEFINE left == air'
    <3>1. \A o \in left :
            \/ o \in air /\ o # op
            \/ /\ o.state = "link" /\ op.kind # "RNR"
               /\ o.id = op.id /\ o.kind = op.kind /\ o.address = op.address
      BY <1>2
    <3> HIDE DEF left
    <3>2. Whole(Post(tasks, t), hci, left, outgoing_entry_, pending_outgoing_operations_,
                incoming_connecting_address_set_, on_remote_name_complete_, told, Asked)
      BY <1>2, <2>2, <2>3, <3>1, EndedWhole
    <3> QED BY <3>2 DEF left
  <2> QED BY <2>1, <2>4, AskedKept, InvNext DEF scheduler, names
<1>3. CASE ConnectionSucceeds(op)
  <2> DEFINE link == [op EXCEPT !.state = "link"]
  <2>1. link.id = op.id /\ link.kind = op.kind /\ link.address = op.address /\ link.state = "link"
    BY <1>1 DEF Operation
  <2>2. op.kind # "RNR" /\ op.state # "link" /\ Event("acl", "on_connection_complete", op, TRUE)
    BY <1>3 DEF ConnectionSucceeds
  <2>3. op \in Doing("ACL", op.address) \cup Doing("INCOMING", op.address)
    BY <1>1, <2>2 DEF Doing, Operation
  <2>4. air' = (air \ (Doing("ACL", op.address) \cup Doing("INCOMING", op.address))) \cup {link}
    BY <1>3 DEF ConnectionSucceeds
  <2> HIDE DEF link
  <2>5. \A o \in air' :
          \/ o \in air /\ o # op
          \/ /\ o.state = "link" /\ op.kind # "RNR"
             /\ o.id = op.id /\ o.kind = op.kind /\ o.address = op.address
    BY <2>1, <2>2, <2>3, <2>4
  <2> QED BY <1>2, <2>2, <2>5
<1>4. CASE ConnectionFails(op)
  BY <1>2, <1>4 DEF ConnectionFails
<1>5. CASE NameRequestEnds(op)
  <2>1. op.kind = "RNR" /\ op.state # "link" /\ air' = air \ {op}
    BY <1>1, <1>5 DEF NameRequestEnds, OperationIs, IsCall, IsPage
  <2>2. CASE Event("rnr", "on_remote_name_request_complete", op, op.state = "going")
    <3> DEFINE success == op.state = "going"
    <3>1. success \in BOOLEAN
      OBVIOUS
    <3> HIDE DEF success
    <3> QED BY <1>2, <2>1, <2>2, <3>1 DEF success
  <2>3. CASE Event("acl", "on_connection_complete", op, FALSE)
    BY <1>2, <2>1, <2>3
  <2> QED BY <1>5, <2>2, <2>3 DEF NameRequestEnds
<1> QED BY <1>3, <1>4, <1>5 DEF OperationEnds

-----------------------------------------------------------------------------
(* The steps of clients and of remote devices *)

\* A new request has a number that nobody has had.
LEMMA RequestInvNext ==
  ASSUME Inv, Types', NEW what \in {"connects", "names"}, NEW kind \in {"ACL", "RNR"}, NEW bound,
         /\ what = "connects" => bound = MaxConnects
         /\ what = "names" => bound = MaxNames,
         NEW address \in Peers, Request(what, kind, bound, address)
  PROVE  Inv'
<1> DEFINE entry == [id |-> NextId, kind |-> kind, address |-> address]
           t == Closure("scheduler", "Enqueue", entry)
           queue == pending_outgoing_operations_
           incoming == incoming_connecting_address_set_
           name == on_remote_name_complete_
           one == NextId
<1>1. one \in 1 .. MaxRequests /\ Asked' = Asked + 1 /\ one = Asked + 1
  BY CountedTypes DEF Request, Inv
<1>2. entry \in QueueEntry
  BY <1>1 DEF QueueEntry
<1>3. tasks' = Post(tasks, t) /\ UNCHANGED <<scheduler, names, connections, radio, fate, told>>
  BY DEF Request
<1>4. IsClosure(t)
  <2> HIDE DEF entry
  <2> QED BY <1>2, QueueEntryIs, ClosureIs DEF Modules, RunNames
<1>5. t.entry.id = one /\ t.run = "Enqueue" /\ t.module = "scheduler"
  BY DEF Closure
<1>6. Asked \in Nat /\ IsTasks(tasks)
  <2>1. counts \in Counts /\ IsTasks(tasks)
    BY DEF Inv, Types
  <2> QED BY <2>1, AclSchedulerAssumption DEF Asked, Counts
<1> HIDE DEF t, one
<1>7. Carries(t) /\ Aside(t)
  BY <1>5 DEF Carries, Aside, Arrives, Leaves
<1>8. \A role \in Roles : \A id \in 1 .. MaxRequests :
        Plays(t, role, id) => id = one /\ role = "owes"
  BY <1>5 DEF Plays, Ending, Passing, NameEnds, Statuses, Roles
<1>9. TaskConcerns(t, outgoing_entry_, name)
  BY <1>5, <1>8 DEF TaskConcerns, Roles, NameEnds
<1>10. PICK answers : answers = told
  OBVIOUS
<1>11. /\ Requests(tasks, hci, air, queue, answers, Asked + 1)
       /\ Free(tasks, hci, air, queue, "owes", one) /\ answers[one] = <<>>
  <2>1. Requests(tasks, hci, air, queue, answers, Asked)
    BY <1>10 DEF Inv
  <2> QED BY <1>1, <1>6, <2>1, MoreAsked
<1> DEFINE asked == Asked + 1
<1>12. Whole(tasks, hci, air, outgoing_entry_, queue, incoming, name, answers, asked)
  BY <1>11 DEF Inv, Whole
<1>13. /\ \A role \in Roles : \A id \in 1 .. MaxRequests :
            Plays(t, role, id) => Free(tasks, hci, air, queue, role, id)
       /\ \A id \in 1 .. MaxRequests : Plays(t, "owes", id) => answers[id] = <<>> /\ id <= asked
  BY <1>1, <1>6, <1>8, <1>11 DEF Roles
<1> HIDE DEF asked
<1>14. Whole(Post(tasks, t), hci, air, outgoing_entry_, queue, incoming, name, answers, asked)
  BY <1>4, <1>6, <1>7, <1>9, <1>12, <1>13, PostWhole
<1>15. Asked' = asked
  BY <1>1 DEF asked
<1> QED BY <1>3, <1>10, <1>14, <1>15, InvNext DEF scheduler, names, radio

LEMMA CancelRequestInv ==
  ASSUME Inv, Types', NEW address \in Peers, NEW kind \in {"ACL", "RNR"},
         NEW run \in {"CancelAclConnection", "CancelRemoteNameRequest"}, Cancel(kind, run, address)
  PROVE  Inv'
<1> DEFINE entry == [id |-> 0, kind |-> kind, address |-> address]
           t == Closure("scheduler", run, entry)
<1>1. Asked' = Asked
  BY CountedTypes DEF Cancel, Inv
<1>2. entry \in Entries /\ entry.id = 0
  <2>1. entry \in Requested
    BY BoundsAreNat DEF Requested, Addresses
  <2> QED BY <2>1 DEF Entries
<1>3. tasks' = Post(tasks, t) /\ UNCHANGED <<scheduler, names, connections, radio, fate, told>>
  BY DEF Cancel
<1> HIDE DEF entry
<1>4. IsClosure(t)
  <2>1. run \in RunNames /\ run # "Enqueue" /\ "scheduler" \in Modules
    BY DEF Modules, RunNames
  <2> QED BY <1>2, <2>1, ClosureIs
<1>5. t.entry.id = 0 /\ t.run = run /\ t.module = "scheduler"
  BY <1>2 DEF Closure
<1> HIDE DEF t
<1>6. Carries(t) /\ Aside(t) /\ Silent(t)
  BY <1>5, SilentZero DEF Carries, Aside, Arrives, Leaves
<1>7. IsTasks(tasks)
      /\ Whole(tasks, hci, air, outgoing_entry_, pending_outgoing_operations_,
               incoming_connecting_address_set_, on_remote_name_complete_, told, Asked)
  BY DEF Inv, Types, Whole
<1>8. Whole(Post(tasks, t), hci, air, outgoing_entry_, pending_outgoing_operations_,
            incoming_connecting_address_set_, on_remote_name_complete_, told, Asked)
  BY <1>4, <1>5, <1>6, <1>7, PostSilent
<1> QED BY <1>1, <1>3, <1>8, InvNext DEF scheduler, names, radio

LEMMA IncomingInv ==
  ASSUME Inv, Types', NEW address \in Callers, Incoming(address)
  PROVE  Inv'
<1> DEFINE op == [id |-> 0, kind |-> "INCOMING", address |-> address, state |-> "asked"]
           t == Closure("acl", "on_incoming_connection", op)
           more == air \cup {op}
           queue == pending_outgoing_operations_
           incoming == incoming_connecting_address_set_
           name == on_remote_name_complete_
<1>1. Asked' = Asked
  BY CountedTypes DEF Incoming, Inv
<1>2. /\ op \in Operation /\ op.id = 0 /\ op.kind = "INCOMING" /\ op.address = address
      /\ op.state = "asked"
  BY BoundsAreNat DEF Operation, Addresses
<1>3. /\ tasks' = Post(tasks, t) /\ air' = more /\ Doing("INCOMING", address) = {}
      /\ UNCHANGED <<scheduler, names, connections, hci, fate, told>>
  BY DEF Incoming
<1> HIDE DEF op
<1>4. IsClosure(t)
  BY <1>2, ClosureIs DEF Modules, RunNames, Entries
<1>5. t.entry = op /\ t.run = "on_incoming_connection" /\ t.module = "acl"
  BY DEF Closure
<1> HIDE DEF t
<1>6. Carries(t) /\ Silent(t)
  BY <1>2, <1>5, SilentZero DEF Carries, IsCall
<1>7. IsTasks(tasks)
  BY DEF Inv, Types
<1>8. Requests(Post(tasks, t), hci, more, queue, told, Asked)
  <2>1. \A o \in more : \A id \in 1 .. MaxRequests : Ongoing(o, id) => o \in air
    BY <1>2, BoundsAreNat DEF Ongoing
  <2>2. Requests(tasks, hci, air, queue, told, Asked)
    BY DEF Inv
  <2> HIDE DEF more
  <2>3. Requests(tasks, hci, more, queue, told, Asked)
    BY <2>1, <2>2, KeepOperations
  <2> QED BY <1>4, <1>6, <1>7, <2>3, PutTask DEF Silent, Roles
<1>9. Contents(Post(tasks, t), hci, more, outgoing_entry_, name)
  <2>1. TaskConcerns(t, outgoing_entry_, name)
    BY <1>5, <1>6, SilentConcerns
  <2>2. OperationIs(op) /\ OperationConcerns(op, outgoing_entry_, name)
    BY <1>2, BoundsAreNat DEF OperationIs, IsCall, OperationConcerns, Ongoing
  <2>3. OperationsAre(more, outgoing_entry_, name)
    BY <2>2 DEF Inv, Contents, OperationsAre
  <2>4. TasksCarry(Post(tasks, t), outgoing_entry_, name)
    BY <1>4, <1>6, <1>7, <2>1, CarryPost DEF Inv, Contents
  <2> QED BY <2>3, <2>4 DEF Inv, Contents
<1>10. ASSUME NEW c \in Callers PROVE CallInv(Post(tasks, t), incoming, more, c)
  <2>1. CallInv(tasks, incoming, air, c) /\ \A p, q \in Calling(air, c) : p = q
    BY DEF Inv, Calls, CallInv
  <2>2. ~Leaves(t, "scheduler", c) /\ ~Leaves(t, "acl", c)
    BY <1>5 DEF Leaves
  <2>3. CASE c = address
    <3>1. Calling(air, c) = {}
      BY <1>3, <2>3 DEF Calling, Doing
    <3>2. \A p, q \in Calling(more, c) : p = q
      BY <3>1 DEF Calling
    <3>3. Arrives(t, "acl", c)
      BY <1>2, <1>5, <2>3 DEF Arrives
    <3> HIDE DEF more
    <3> QED BY <1>4, <1>7, <2>1, <2>2, <3>2, <3>3, CallComes
  <2>4. CASE c # address
    <3>1. Calling(more, c) = Calling(air, c)
      BY <1>2, <2>4 DEF Calling
    <3> HIDE DEF more
    <3>2. CallInv(tasks, incoming, more, c)
      BY <2>1, <3>1, CallKept
    <3> QED BY <1>4, <1>7, <2>2, <3>2, PostCall
  <2> QED BY <2>3, <2>4
<1>11. Whole(Post(tasks, t), hci, more, outgoing_entry_, queue, incoming, name, told, Asked)
  BY <1>8, <1>9, <1>10 DEF Whole, Calls, Inv
<1> HIDE DEF more
<1> QED BY <1>1, <1>3, <1>11, InvNext DEF scheduler, names

LEMMA ClientStepInv ==
  ASSUME Inv, Types', ClientStep
  PROVE  Inv'
<1>1. ASSUME NEW address \in Peers, CreateConnection(address) PROVE Inv'
  BY <1>1, RequestInvNext DEF CreateConnection
<1>2. ASSUME NEW address \in Peers, StartRemoteNameRequest(address) PROVE Inv'
  BY <1>2, RequestInvNext DEF StartRemoteNameRequest
<1>3. ASSUME NEW address \in Peers, CancelConnect(address) PROVE Inv'
  BY <1>3, CancelRequestInv DEF CancelConnect
<1>4. ASSUME NEW address \in Peers, CancelName(address) PROVE Inv'
  BY <1>4, CancelRequestInv DEF CancelName
<1>5. ASSUME NEW address \in Callers, Incoming(address) PROVE Inv'
  BY <1>5, IncomingInv
<1> QED BY <1>1, <1>2, <1>3, <1>4, <1>5 DEF ClientStep

-----------------------------------------------------------------------------
(* The theorems *)

LEMMA NextInv ==
  ASSUME Undisturbed, Undisturbed', Inv, [Next]_vars
  PROVE  Inv'
<1>1. Types'
  BY NextTypes DEF Inv
<1>2. CASE UNCHANGED vars
  BY <1>2 DEF vars, scheduler, names, radio, Inv, Types, Asked
<1>3. ASSUME NEW op \in air, OperationEnds(op) PROVE Inv'
  BY <1>1, <1>3, OperationEndsInv
<1> QED BY <1>1, <1>2, <1>3, SchedulerStepInv, ClassicStepInv, NameStepInv, ControllerInv,
           ClientStepInv DEF Next

LEMMA InitInv ==
  ASSUME Init
  PROVE  Inv
<1>1. Types
  BY InitTypes
<1>2. /\ tasks = [h \in Handlers |-> <<>>] /\ hci = <<>> /\ air = {}
      /\ pending_outgoing_operations_ = <<>> /\ incoming_connecting_address_set_ = {}
      /\ told = [id \in 1 .. MaxRequests |-> <<>>]
  BY DEF Init
<1>3. \A h \in Handlers : Len(tasks[h]) = 0
  BY <1>2
<1>4. Contents(tasks, hci, air, outgoing_entry_, on_remote_name_complete_)
  BY <1>2, <1>3 DEF Contents, TasksCarry, CommandsCarry, OperationsAre
<1>5. Requests(tasks, hci, air, pending_outgoing_operations_, told, Asked)
  <2>1. ASSUME NEW id \in 1 .. MaxRequests, NEW role \in Roles
        PROVE  /\ OnePlace(tasks, hci, air, pending_outgoing_operations_, role, id)
               /\ ~Somewhere(tasks, hci, air, pending_outgoing_operations_, role, id)
    <3>1. ~InTasks(tasks, role, id) /\ OnceInTasks(tasks, role, id)
      BY <1>3 DEF InTasks, OnceInTasks
    <3>2. ~InHci(hci, id) /\ OnceInHci(hci, id) /\ ~InAir(air, id) /\ OnceInAir(air, id)
      BY <1>2 DEF InHci, OnceInHci, InAir, OnceInAir
    <3>3. /\ ~InQueue(pending_outgoing_operations_, role, id)
          /\ OnceInQueue(pending_outgoing_operations_, id)
      BY <1>2 DEF InQueue, OnceInQueue
    <3> QED BY <3>1, <3>2, <3>3 DEF OnePlace, Somewhere
  <2>2. \A id \in 1 .. MaxRequests : told[id] = <<>>
    BY <1>2
  <2> QED BY <2>1, <2>2 DEF Requests, RequestInv, Roles
<1>6. Calls(tasks, incoming_connecting_address_set_, air)
  <2>1. HandlerOf("scheduler") \in Handlers /\ HandlerOf("acl") \in Handlers
    BY HandlerIs DEF Modules
  <2>2. Len(SchedulerTasks(tasks)) = 0 /\ Len(AclTasks(tasks)) = 0
    BY <1>3, <2>1 DEF SchedulerTasks, AclTasks
  <2>3. ASSUME NEW c \in Callers
        PROVE  /\ Spaced(SchedulerTasks(tasks), "scheduler", c) /\ Spaced(AclTasks(tasks), "acl", c)
               /\ Opens(SchedulerTasks(tasks), "scheduler", c) /\ Opens(AclTasks(tasks), "acl", c)
               /\ Calling(air, c) = {}
    BY <1>2, <2>2 DEF Spaced, Opens, Calling
  <2> QED BY <2>3 DEF Calls, CallInv
<1> QED BY <1>1, <1>2, <1>4, <1>5, <1>6 DEF Inv

LEMMA AlwaysInv == Spec /\ []Undisturbed => []Inv
<1>1. Init => Inv
  BY InitInv
<1>2. Undisturbed /\ Undisturbed' /\ Inv /\ [Next]_vars => Inv'
  BY NextInv
<1> QED BY <1>1, <1>2, PTL DEF Spec

\* For every number of devices, requests, cancellations and calls: the controller does
\* something for us that is not the scheduler's outgoing operation (acl_scheduler.cc:250-262)
\* only in behaviours with one of two races. Either the device of the outgoing operation is at
\* the same time connecting to us, or the status of a name cancellation that came too late is
\* applied to the request that follows. Names may be cancelled and devices that are called may
\* call; nothing else that clients, devices or the controller do makes the property fail.
THEOREM OperationIsOutgoingHolds == Spec /\ []Undisturbed => []OperationIsOutgoing
<1>1. Spec /\ []Undisturbed => []Inv
  BY AlwaysInv
<1>2. Inv => OperationIsOutgoing
  <2>1. SUFFICES ASSUME Inv, NEW op \in air, op.id # 0, op.state # "link"
                 PROVE  outgoing_entry_.id = op.id
    BY DEF OperationIsOutgoing
  <2>2. op.id \in 1 .. MaxRequests
    <3>1. op \in Operation
      BY <2>1 DEF Inv, Types
    <3> QED BY <2>1, <3>1, BoundsAreNat DEF Operation
  <2>3. OperationConcerns(op, outgoing_entry_, on_remote_name_complete_)
    BY <2>1 DEF Inv, Contents, OperationsAre
  <2> QED BY <2>1, <2>2, <2>3 DEF OperationConcerns, Ongoing, Concerns
<1> QED BY <1>1, <1>2, PTL

\* A client is told twice, or by an event about another request than its own, only in
\* behaviours with one of the same two races: otherwise the matching by address
\* (acl_scheduler.cc:68) and by "whatever is pending" (remote_name_request_impl.cc:182) finds
\* the request the event is about, also when it has been cancelled and its end is reported as
\* that of an unknown connection.
THEOREM AnsweredByOwnHolds == Spec /\ []Undisturbed => []AnsweredByOwn
<1>1. Spec /\ []Undisturbed => []Inv
  BY AlwaysInv
<1>2. Inv => AnsweredByOwn
  <2>1. SUFFICES ASSUME Inv, NEW id \in DOMAIN told
                 PROVE  told[id] \in {<<>>, <<id>>}
    BY DEF AnsweredByOwn
  <2>2. id \in 1 .. MaxRequests
    BY <2>1 DEF Inv, Types
  <2>3. RequestInv(tasks, hci, air, pending_outgoing_operations_, told, Asked, id)
    BY <2>1, <2>2 DEF Inv, Requests
  <2> QED BY <2>3 DEF RequestInv
<1> QED BY <1>1, <1>2, PTL

=============================================================================
