------------------------ MODULE RoundRobinScheduler ------------------------
(***************************************************************************)
(* The scheduler of outgoing ACL data                                      *)
(* (system/gd/hci/acl_manager/round_robin_scheduler.cc) between the queues *)
(* of the connections above it and the queue of the HCI layer below it.    *)
(* The controller has a fixed number of buffers per transport; the         *)
(* scheduler spends one credit per fragment and gets it back when the      *)
(* controller reports the fragment completed or the link goes down.        *)
(*                                                                         *)
(* Everything here runs on the stack thread: the closures of the handler   *)
(* in the order of posting, and between any two of them the callbacks of   *)
(* the queues that are ready (os::Queue registers them with the reactor).  *)
(* The controller and the producers of packets run concurrently.           *)
(***************************************************************************)
EXTENDS Integers, Sequences, FiniteSets, FiniteSetsExt

CONSTANTS
  Handles,        \* connection handles, ordered as std::map orders them
  Sizes,          \* how many fragments a packet may need
  MaxCredits,     \* per transport, the buffers of the controller
  HciQueueDepth,  \* capacity of the HCI layer's ACL queue
  MaxPackets,     \* bound: packets produced in a behaviour
  MaxConnections, \* bound: connections made in a behaviour
  Disconnects     \* whether links go down

ConnectionType == {"CLASSIC", "LE"}

ASSUME HandlesAssumption == Handles \subseteq Nat /\ IsFiniteSet(Handles)
ASSUME SizesAssumption == Sizes \subseteq Nat \ {0}
ASSUME CreditsAssumption == MaxCredits \in [ConnectionType -> Nat \ {0}]
ASSUME SchedulerBounds ==
  /\ HciQueueDepth \in Nat \ {0}
  /\ MaxPackets \in Nat
  /\ MaxConnections \in Nat
  /\ Disconnects \in BOOLEAN

VARIABLES
  fate,                \* "alive" or "assert"
  acl_queue_handlers_, \* per handle its entry, or NoHandler
  fragments_to_send_,  \* per priority, a queue of fragments
  packet_credits_,     \* acl_packet_credits_ and le_acl_packet_credits_
  enqueue_registered_,
  starting_point_,
  tasks,               \* closures posted to handler_, oldest first
  queue,               \* per handle, packets the connection wants to send
  hci_queue,           \* fragments on their way to the HAL
  link,                \* per handle, what the controller has: "down" or a type
  buffered,            \* per handle, fragments in the controller's buffers
  last,                \* per handle, the last fragment that reached the controller
  produced,            \* per handle, how many packets were produced
  connections          \* how many connections were made

scheduler == <<acl_queue_handlers_, fragments_to_send_, packet_credits_,
               enqueue_registered_, starting_point_>>
controller == <<link, buffered, last>>
history == <<produced, connections>>
vars == <<fate, scheduler, tasks, queue, hci_queue, controller, history>>

-----------------------------------------------------------------------------
(* Data *)

END == -1         \* acl_queue_handlers_.end()
SINGULAR == -2    \* an iterator that was never assigned
Priorities == {0, 1}

NoHandler == [connection_type_ |-> "none", dequeue_is_registered_ |-> FALSE,
              number_of_sent_packets_ |-> 0, high_priority_ |-> FALSE]

AclQueueHandler ==
  [connection_type_ : ConnectionType, dequeue_is_registered_ : BOOLEAN,
   number_of_sent_packets_ : Nat, high_priority_ : BOOLEAN]

\* Fragment number index of a packet of `of` fragments.
Fragment ==
  [connection_type_ : ConnectionType, handle_ : Handles, packet : Nat,
   index : Nat, of : Nat]

NoFragment == [packet |-> 0, index |-> 1, of |-> 1]

\* As many as f says for each member of S.
Sum(f, S) == Cardinality(UNION {{h} \X (1 .. f[h]) : h \in S})

Registered(handlers) == {h \in Handles : handlers[h] # NoHandler}

\* The iteration order of std::map
Begin(handlers) ==
  IF Registered(handlers) = {} THEN END ELSE Min(Registered(handlers))
After(handlers, h) ==
  LET later == {k \in Registered(handlers) : k > h}
  IN  IF later = {} THEN END ELSE Min(later)

\* MultiPriorityQueue
IsEmpty(fragments) == \A p \in Priorities : fragments[p] = <<>>
Top(fragments) == IF fragments[1] # <<>> THEN 1 ELSE 0
Front(fragments) == Head(fragments[Top(fragments)])
Pop(fragments) == [fragments EXCEPT ![Top(fragments)] = Tail(@)]
Size(fragments) == Len(fragments[0]) + Len(fragments[1])

\* The fragments of one packet, in order (AclFragmenter)
GetFragments(h, type, packet) ==
  [n \in 1 .. packet.size |->
     [connection_type_ |-> type, handle_ |-> h, packet |-> packet.number,
      index |-> n, of |-> packet.size]]

Init ==
  /\ fate = "alive"
  /\ acl_queue_handlers_ = [h \in Handles |-> NoHandler]
  /\ fragments_to_send_ = [p \in Priorities |-> <<>>]
  /\ packet_credits_ = MaxCredits
  /\ enqueue_registered_ = FALSE
  /\ starting_point_ = SINGULAR
  /\ tasks = <<>>
  /\ queue = [h \in Handles |-> <<>>]
  /\ hci_queue = <<>>
  /\ link = [h \in Handles |-> "down"]
  /\ buffered = [h \in Handles |-> 0]
  /\ last = [h \in Handles |-> NoFragment]
  /\ produced = [h \in Handles |-> 0]
  /\ connections = 0

-----------------------------------------------------------------------------
(* Scheduling *)

BufferFull(credits, type) == credits[type] = 0

\* Dequeue callbacks are registered for every connection with credits, starting
\* from start; each is registered at most once, so only the set matters.
RegisterDequeues(handlers, credits) ==
  [h \in Handles |->
     IF h \in Registered(handlers) /\ ~BufferFull(credits, handlers[h].connection_type_)
     THEN [handlers[h] EXCEPT !.dequeue_is_registered_ = TRUE]
     ELSE handlers[h]]

\* The arguments are the values the caller has just assigned.
start_round_robin(handlers, fragments, credits, enqueue, start) ==
  LET idle == \/ \A type \in ConnectionType : BufferFull(credits, type)
              \/ /\ ~IsEmpty(fragments)
                 /\ BufferFull(credits, Front(fragments).connection_type_)
              \/ IsEmpty(fragments) /\ Registered(handlers) = {}
      first == IF Cardinality(Registered(handlers)) = 1 \/ start = END
               THEN Begin(handlers) ELSE start
  IN
    \/ /\ idle
       /\ acl_queue_handlers_' = handlers
       /\ enqueue_registered_' = enqueue
       /\ starting_point_' = start
    \/ /\ ~idle /\ ~IsEmpty(fragments)
       /\ acl_queue_handlers_' = handlers
       /\ enqueue_registered_' = TRUE
       /\ starting_point_' = start
    \/ /\ ~idle /\ IsEmpty(fragments)
       /\ acl_queue_handlers_' = RegisterDequeues(handlers, credits)
       /\ enqueue_registered_' = enqueue
       /\ starting_point_' = After(handlers, first)

\* Mutation: the other connections stay registered while a packet is sent.
unregister_all_connections_none(handlers) == handlers

unregister_all_connections(handlers) ==
  [h \in Handles |-> [handlers[h] EXCEPT !.dequeue_is_registered_ = FALSE]]

\* Mutation: a packet counts as one, whatever the number of its fragments.
packets_counted_once(fragments) == 1

\* What a packet adds to number_of_sent_packets_: all that is now pending.
packets_counted(fragments) == Size(fragments)

\* The dequeue callback of a connection whose queue has a packet.
buffer_packet(h) ==
  /\ fate = "alive"
  /\ acl_queue_handlers_[h].dequeue_is_registered_
  /\ queue[h] # <<>>
  /\ LET handler == acl_queue_handlers_[h]
         priority == IF handler.high_priority_ THEN 1 ELSE 0
         fragments == [fragments_to_send_ EXCEPT
           ![priority] = @ \o GetFragments(h, handler.connection_type_, Head(queue[h]))]
     IN  /\ fragments_to_send_' = fragments
         /\ acl_queue_handlers_' =
              [unregister_all_connections(acl_queue_handlers_) EXCEPT
                 ![h].number_of_sent_packets_ = @ + packets_counted(fragments)]
  /\ queue' = [queue EXCEPT ![h] = Tail(@)]
  /\ enqueue_registered_' = TRUE      \* send_next_fragment
  /\ UNCHANGED <<fate, packet_credits_, starting_point_, tasks, hci_queue,
                 controller, history>>

keeps_sending(fragments, credits) ==
  ~BufferFull(credits, Front(fragments).connection_type_)

\* The enqueue callback of the HCI queue, which has room.
handle_enqueue_next_fragment ==
  /\ fate = "alive"
  /\ enqueue_registered_
  /\ Len(hci_queue) < HciQueueDepth
  /\ LET fragment == Front(fragments_to_send_)
         credits == [packet_credits_ EXCEPT ![fragment.connection_type_] = @ - 1]
         rest == Pop(fragments_to_send_)
     IN  /\ fate' = IF BufferFull(packet_credits_, fragment.connection_type_)
                    THEN "assert" ELSE fate
         /\ packet_credits_' = credits
         /\ fragments_to_send_' = rest
         /\ hci_queue' = Append(hci_queue, fragment)
         /\ \/ /\ IsEmpty(rest)
               /\ enqueue_registered_' = FALSE
               /\ tasks' = Append(tasks, [run |-> "start_round_robin"])
            \/ /\ ~IsEmpty(rest)
               /\ enqueue_registered_' = keeps_sending(rest, credits)
               /\ UNCHANGED tasks
  /\ UNCHANGED <<acl_queue_handlers_, starting_point_, queue, controller, history>>

-----------------------------------------------------------------------------
(* Closures of the handler *)

\* The stack thread takes the first task, which is of kind run.
Runs(run) ==
  /\ fate = "alive"
  /\ tasks # <<>>
  /\ Head(tasks).run = run
  /\ tasks' = Tail(tasks)

RunStartRoundRobin ==
  /\ Runs("start_round_robin")
  /\ start_round_robin(acl_queue_handlers_, fragments_to_send_, packet_credits_,
                       enqueue_registered_, starting_point_)
  /\ UNCHANGED <<fate, fragments_to_send_, packet_credits_, queue, hci_queue,
                 controller, history>>

\* A new connection (classic_impl and le_impl call it on this thread).
Register ==
  /\ Runs("Register")
  /\ LET h == Head(tasks).handle
         handlers == [acl_queue_handlers_ EXCEPT
           ![h] = [NoHandler EXCEPT !.connection_type_ = Head(tasks).type]]
     IN  /\ fate' = IF h \in Registered(acl_queue_handlers_) THEN "assert" ELSE fate
         /\ \/ /\ IsEmpty(fragments_to_send_)
               /\ start_round_robin(handlers, fragments_to_send_, packet_credits_,
                                    enqueue_registered_, starting_point_)
            \/ /\ ~IsEmpty(fragments_to_send_)
               /\ acl_queue_handlers_' = handlers
               /\ UNCHANGED <<enqueue_registered_, starting_point_>>
  /\ UNCHANGED <<fragments_to_send_, packet_credits_, queue, hci_queue, controller,
                 history>>

\* The elements of s at the positions that are kept, in their order.
Subsequence(s, kept) ==
  [n \in 1 .. Cardinality(kept) |->
     s[CHOOSE k \in kept : Cardinality({j \in kept : j <= k}) = n]]

\* The fragments of the other connections
drop_packet_fragments(h) ==
  [p \in Priorities |->
     Subsequence(fragments_to_send_[p],
                 {n \in DOMAIN fragments_to_send_[p] : fragments_to_send_[p][n].handle_ # h})]

\* Mutation: the enqueue callback stays although nothing is left to send.
enqueue_after_drop_kept(fragments) == enqueue_registered_

enqueue_after_drop(fragments) == enqueue_registered_ /\ ~IsEmpty(fragments)

\* Mutation: the dropped fragments are reclaimed as if they had been sent.
packets_to_reclaim_all(h, fragments) == acl_queue_handlers_[h].number_of_sent_packets_

\* The packets of h that the controller has, once fragments are what is left.
packets_to_reclaim(h, fragments) ==
  acl_queue_handlers_[h].number_of_sent_packets_
    - (Size(fragments_to_send_) - Size(fragments))

\* Mutation: the iterator keeps pointing to the erased connection.
starting_point_kept(handlers) == starting_point_

starting_point_after_erase(handlers) == Begin(handlers)

\* A disconnection: pending fragments are dropped, credits reclaimed, and the
\* scheduling restarted only if the transport had run out of credits.
Unregister ==
  /\ Runs("Unregister")
  /\ LET h == Head(tasks).handle
         type == acl_queue_handlers_[h].connection_type_
         fragments == drop_packet_fragments(h)
         outstanding == packets_to_reclaim(h, fragments)
         credits == [packet_credits_ EXCEPT ![type] = @ + outstanding]
         handlers == [acl_queue_handlers_ EXCEPT ![h] = NoHandler]
         enqueue == enqueue_after_drop(fragments)
         start == starting_point_after_erase(handlers)
         reclaimed_from_zero == outstanding > 0 /\ BufferFull(packet_credits_, type)
     IN  /\ fate' = IF h \in Registered(acl_queue_handlers_) THEN fate ELSE "assert"
         /\ fragments_to_send_' = fragments
         /\ packet_credits_' = credits
         /\ queue' = [queue EXCEPT ![h] = <<>>]
         /\ \/ /\ reclaimed_from_zero
               /\ start_round_robin(handlers, fragments, credits, enqueue, start)
            \/ /\ ~reclaimed_from_zero
               /\ acl_queue_handlers_' = handlers
               /\ enqueue_registered_' = enqueue
               /\ starting_point_' = start
  /\ UNCHANGED <<hci_queue, controller, history>>

\* Mutation: new credits do not restart the sending.
credit_was_zero_never(type) == FALSE

credit_was_zero(type) == BufferFull(packet_credits_, type)

\* The controller has completed packets of a handle.
incoming_acl_credits ==
  /\ Runs("incoming_acl_credits")
  /\ LET h == Head(tasks).handle
         completed == Head(tasks).credits
         type == acl_queue_handlers_[h].connection_type_
         handlers == [acl_queue_handlers_ EXCEPT ![h].number_of_sent_packets_ =
                        IF @ >= completed THEN @ - completed ELSE 0]
         credits == [packet_credits_ EXCEPT
                       ![type] = Min({@ + completed, MaxCredits[type]})]
     IN  \/ /\ h \notin Registered(acl_queue_handlers_)
            /\ UNCHANGED scheduler
         \/ /\ h \in Registered(acl_queue_handlers_)
            /\ packet_credits_' = credits
            /\ UNCHANGED fragments_to_send_
            /\ \/ /\ credit_was_zero(type)
                  /\ start_round_robin(handlers, fragments_to_send_, credits,
                                       enqueue_registered_, starting_point_)
               \/ /\ ~credit_was_zero(type)
                  /\ acl_queue_handlers_' = handlers
                  /\ UNCHANGED <<enqueue_registered_, starting_point_>>
  /\ UNCHANGED <<fate, queue, hci_queue, controller, history>>

\* Called on the handler too; no other step depends on when.
SetLinkPriority(h, high_priority) ==
  /\ fate = "alive"
  /\ h \in Registered(acl_queue_handlers_)
  /\ acl_queue_handlers_[h].high_priority_ # high_priority
  /\ acl_queue_handlers_' =
       [acl_queue_handlers_ EXCEPT ![h].high_priority_ = high_priority]
  /\ UNCHANGED <<fate, fragments_to_send_, packet_credits_, enqueue_registered_,
                 starting_point_, tasks, queue, hci_queue, controller, history>>

-----------------------------------------------------------------------------
(* Around the scheduler *)

\* A connection's user has a packet of the given size to send.
Produce(h, size) ==
  /\ fate = "alive"
  /\ h \in Registered(acl_queue_handlers_)
  /\ Sum(produced, Handles) < MaxPackets
  /\ produced' = [produced EXCEPT ![h] = @ + 1]
  /\ queue' = [queue EXCEPT ![h] = Append(@, [number |-> produced[h] + 1, size |-> size])]
  /\ UNCHANGED <<fate, scheduler, tasks, hci_queue, controller, connections>>

\* The HCI layer hands a fragment to the HAL.  The controller ignores data for a
\* handle it does not have.
on_outbound_acl_ready ==
  /\ fate = "alive"
  /\ hci_queue # <<>>
  /\ hci_queue' = Tail(hci_queue)
  /\ LET fragment == Head(hci_queue)
         h == fragment.handle_
         accepted == link[h] # "down"
     IN  /\ buffered' = [buffered EXCEPT ![h] = IF accepted THEN @ + 1 ELSE @]
         /\ last' = [last EXCEPT ![h] =
                       IF accepted
                       THEN [packet |-> fragment.packet, index |-> fragment.index,
                             of |-> fragment.of]
                       ELSE @]
  /\ UNCHANGED <<fate, scheduler, tasks, queue, link, history>>

\* Number Of Completed Packets
ControllerCompletes(h, count) ==
  /\ fate = "alive"
  /\ count \in 1 .. buffered[h]
  /\ buffered' = [buffered EXCEPT ![h] = @ - count]
  /\ tasks' = Append(tasks, [run |-> "incoming_acl_credits", handle |-> h,
                             credits |-> count])
  /\ UNCHANGED <<fate, scheduler, queue, hci_queue, link, last, history>>

\* A controller gives a handle to a new connection only when nothing of the old
\* one is left between the host and itself.
Connect(h, type) ==
  /\ fate = "alive"
  /\ link[h] = "down"
  /\ connections < MaxConnections
  /\ h \notin Registered(acl_queue_handlers_)
  /\ ~ \E n \in 1 .. Len(hci_queue) : hci_queue[n].handle_ = h
  /\ ~ \E n \in 1 .. Len(tasks) :
         tasks[n].run # "start_round_robin" /\ tasks[n].handle = h
  /\ link' = [link EXCEPT ![h] = type]
  /\ last' = [last EXCEPT ![h] = [NoFragment EXCEPT !.packet = produced[h]]]
  /\ tasks' = Append(tasks, [run |-> "Register", handle |-> h, type |-> type])
  /\ connections' = connections + 1
  /\ UNCHANGED <<fate, scheduler, queue, hci_queue, buffered, produced>>

\* The buffers of the link are flushed without being reported.
Disconnect(h) ==
  /\ fate = "alive"
  /\ Disconnects
  /\ link[h] # "down"
  /\ link' = [link EXCEPT ![h] = "down"]
  /\ buffered' = [buffered EXCEPT ![h] = 0]
  /\ tasks' = Append(tasks, [run |-> "Unregister", handle |-> h])
  /\ UNCHANGED <<fate, scheduler, queue, hci_queue, last, history>>

-----------------------------------------------------------------------------
Handler ==
  \/ RunStartRoundRobin
  \/ Register
  \/ Unregister
  \/ incoming_acl_credits

Next ==
  \/ Handler
  \/ handle_enqueue_next_fragment
  \/ on_outbound_acl_ready
  \/ \E h \in Handles :
       \/ buffer_packet(h)
       \/ \E b \in BOOLEAN : SetLinkPriority(h, b)
       \/ \E size \in Sizes : Produce(h, size)
       \/ \E count \in 1 .. buffered[h] : ControllerCompletes(h, count)
       \/ \E type \in ConnectionType : Connect(h, type)
       \/ Disconnect(h)

Spec == Init /\ [][Next]_vars

\* The stack thread serves its handler and every queue that is ready, and the
\* controller completes what it has accepted.
Fairness ==
  /\ WF_vars(Handler)
  /\ WF_vars(handle_enqueue_next_fragment)
  /\ WF_vars(on_outbound_acl_ready)
  /\ \A h \in Handles :
       /\ WF_vars(buffer_packet(h))
       /\ WF_vars(\E count \in 1 .. buffered[h] : ControllerCompletes(h, count))

FairSpec == Spec /\ Fairness

-----------------------------------------------------------------------------
(* Properties *)

\* The types of the members of RoundRobinScheduler; credits and counts of sent packets
\* are unsigned in the code and never go below zero.
TypeOK ==
  /\ fate \in {"alive", "assert"}
  /\ acl_queue_handlers_ \in [Handles -> AclQueueHandler \cup {NoHandler}]
  /\ fragments_to_send_ \in [Priorities -> Seq(Fragment)]
  /\ packet_credits_ \in [ConnectionType -> Nat]
  /\ enqueue_registered_ \in BOOLEAN
  /\ starting_point_ \in Handles \cup {END, SINGULAR}
  /\ hci_queue \in Seq(Fragment)
  /\ link \in [Handles -> ConnectionType \cup {"down"}]
  /\ buffered \in [Handles -> Nat]
  /\ produced \in [Handles -> 0 .. MaxPackets]
  /\ connections \in 0 .. MaxConnections

\* An enqueue callback finds a fragment and a credit for it: what the assertion
\* of handle_enqueue_next_fragment relies on.
ReadyToSend ==
  enqueue_registered_ =>
    /\ ~IsEmpty(fragments_to_send_)
    /\ ~BufferFull(packet_credits_, Front(fragments_to_send_).connection_type_)

\* While a connection may be dequeued nothing else is being sent and there is a
\* credit for its packet: buffer_packet sends without looking at either.
DequeueWhenIdle ==
  \A h \in Handles :
    acl_queue_handlers_[h].dequeue_is_registered_ =>
      /\ IsEmpty(fragments_to_send_)
      /\ ~BufferFull(packet_credits_, acl_queue_handlers_[h].connection_type_)

\* Both callbacks of the scheduler, on the queue of the HCI layer and on those of the
\* connections, are registered only when they can do their work, whatever links came,
\* went or got credits since: no assertion of handle_enqueue_next_fragment fails and
\* buffer_packet neither mixes two packets nor sends without a credit.
CallbacksReady == ReadyToSend /\ DequeueWhenIdle

OfType(type) ==
  {h \in Handles : acl_queue_handlers_[h].connection_type_ = type}

Pending(type) ==
  LET ofType(p) == {n \in DOMAIN fragments_to_send_[p] :
                      fragments_to_send_[p][n].connection_type_ = type}
  IN  Cardinality(ofType(0)) + Cardinality(ofType(1))

\* Credits are neither lost nor made up: those in hand and those spent on the
\* registered connections add up to the buffers of the controller, across
\* completions, dropped fragments and disconnections.
CreditConservation ==
  \A type \in ConnectionType :
    packet_credits_[type]
      + Sum([h \in Handles |-> acl_queue_handlers_[h].number_of_sent_packets_], OfType(type))
    = MaxCredits[type] + Pending(type)

\* The controller is never sent more than its buffers hold.
ControllerNotOverrun ==
  \A type \in ConnectionType :
    Sum(buffered, {h \in Handles : link[h] = type}) <= MaxCredits[type]

\* The books of the host are right: its credits are conserved and so the controller is
\* never sent more than it can hold (incoming_acl_credits, drop_packet_fragments).
CreditsMatchBuffers == CreditConservation /\ ControllerNotOverrun

\* What has been handed down and what is about to be.
Path == hci_queue \o fragments_to_send_[1] \o fragments_to_send_[0]

\* Where the fragments of a connection are.
Own(path, h) == {n \in DOMAIN path : path[n].handle_ = h}

\* m is where the fragment before position n is; at 0 there is the one that the
\* controller got last.
IsPrevious(path, h, m, n) ==
  m \in Own(path, h) \cup {0} /\ \A k \in Own(path, h) : k <= m \/ k >= n

At(path, h, m) == IF m = 0 THEN last[h] ELSE path[m]

Follows(next, previous) ==
  \/ /\ next.packet = previous.packet
     /\ next.index = previous.index + 1
  \/ /\ next.packet = previous.packet + 1
     /\ previous.index = previous.of
     /\ next.index = 1

\* No fragment of a connection is lost, repeated or out of order and no packet is
\* interrupted on the way through fragments_to_send_ and the HCI queue.
FragmentsInOrder ==
  \A h \in Handles : link[h] # "down" =>
    \A n \in Own(Path, h) : \A m \in 0 .. n - 1 :
      IsPrevious(Path, h, m, n) => Follows(Path[n], At(Path, h, m))

\* The iterator that start_round_robin dereferences is valid although elements
\* are erased, and is assigned before there is a second connection.
StartingPointValid ==
  \/ starting_point_ \in Registered(acl_queue_handlers_) \cup {END}
  \/ starting_point_ = SINGULAR /\ Registered(acl_queue_handlers_) = {}

\* Every packet of a connection that stays up reaches the controller.
PacketsAreSent ==
  \A h \in Handles : \A n \in 1 .. MaxPackets :
    produced[h] >= n ~> link[h] = "down" \/ last[h].packet >= n

=============================================================================
