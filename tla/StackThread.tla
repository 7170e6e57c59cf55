---------------------------- MODULE StackThread ----------------------------
(***************************************************************************)
(* The runtime under the HCI core: the handler of the stack thread         *)
(* (gd/os/handler.cc), the flow controlled queue that carries ACL packets  *)
(* from the HAL thread to the stack thread (Queue and EnqueueBuffer of     *)
(* gd/os/queue.h), and the order in which Stack::Stop and the destructor   *)
(* of HciLayer take all of it down from another thread.                    *)
(*                                                                         *)
(* Threads: the stack thread runs the reactor, which calls one ready       *)
(* reactable at a time; the HAL thread enqueues packets; Posters are the   *)
(* threads that post closures; the stopping thread runs Stack::Stop (and   *)
(* waits for the management thread that destroys the modules, so the two   *)
(* are one here).  A section under a std::mutex is one step, unless it     *)
(* waits while it holds the mutex.  The reactor, its events, the alarm and *)
(* the reactive semaphore are only declared in the repository              *)
(* (gd/os/reactor.h, gd/os/alarm.h): they are modelled from those          *)
(* declarations and from how handler.cc and queue.h use them.              *)
(***************************************************************************)
EXTENDS Naturals, Sequences, FiniteSets

CONSTANTS
    Posters,      \* threads that post closures to the handler
    Capacity,     \* capacity of the queue (acl_queue_ has 3)
    MaxPackets,   \* bound: packets the HAL delivers
    MaxPosts,     \* bound: closures posted
    Delays,       \* delays given to PostWithDelay, in milliseconds
    MaxTime       \* bound: the clock, in milliseconds

ASSUME PostersAssumption == IsFiniteSet(Posters)
ASSUME CapacityAssumption == Capacity \in Nat \ {0}
ASSUME BoundsAssumption == /\ MaxPackets \in Nat
                           /\ MaxPosts \in Nat
                           /\ MaxTime \in Nat
                           /\ Delays \subseteq Nat \ {0}

VARIABLES
    \* Handler
    tasks_,               \* how many closures are in tasks_ (all alike)
    delayed_tasks_,       \* the delayed closures: a number and when they are due
    alarm_,               \* when the alarm fires, 0 if it is not armed
    cleared,              \* was_cleared()
    event_,               \* the count of the handler's event
    poster,               \* what each poster has left to do after the lock
    posted,               \* closures accepted so far
    ran,                  \* closures that have run
    \* EnqueueBuffer
    mutex_,               \* who holds it across a wait
    buffer_,
    enqueue_registered_,
    \* Queue
    queue_,
    semaphore,            \* reactive_semaphore_ of each end
    endpoint,             \* handler_ and reactable_ of each end are non-null
    \* the reactor and its thread
    reactables,           \* what is registered
    running,              \* the callback that executes, how far, what it holds
    now,
    \* the modules
    life_cycle_stopped,
    consumers,            \* the ACL managers that the router calls exist
    arrived,              \* how many packets the HAL has delivered
    routed,               \* packets the router has handed on
    stop,                 \* how far Stack::Stop is
    fate                  \* "ok", or how the process failed

handlerVars == <<tasks_, delayed_tasks_, alarm_, cleared, event_, poster, posted, ran>>
queueVars == <<mutex_, buffer_, enqueue_registered_, queue_, semaphore, endpoint>>
moduleVars == <<life_cycle_stopped, consumers, arrived, routed, stop>>
vars == <<handlerVars, queueVars, reactables, running, now, moduleVars, fate>>

Ends == {"enqueue", "dequeue"}
Reactables == {"handler", "alarm"} \cup Ends
Delayed == [number : 1..MaxPosts, due : 1..MaxTime]

\* The callback the reactor executes; removed once its reactable is
\* unregistered, which is what executing_reactable_finished_ is about.
Idle == [what |-> "none", at |-> "poll", data |-> 0, removed |-> FALSE]
Executes(what, at) == running.what = what /\ running.at = at
Proceed(at, data) == running' = [running EXCEPT !.at = at, !.data = data]
Removed(r) == [running EXCEPT !.removed = @ \/ running.what = r]

StopSteps == {"no", "handler_swapped", "handler_cleared", "handler_unregistered", "handler_stopped",
              "consumers_destroyed", "hci_stopped", "clear_waits", "buffer_cleared",
              "dequeue_waits", "dequeue_unregistered", "done"}

Init ==
    /\ tasks_ = 0
    /\ delayed_tasks_ = {}
    /\ alarm_ = 0
    /\ cleared = FALSE
    /\ event_ = 0
    /\ poster = [p \in Posters |-> "idle"]
    /\ posted = 0
    /\ ran = 0
    /\ mutex_ = "free"
    /\ buffer_ = <<>>
    /\ enqueue_registered_ = FALSE
    /\ queue_ = <<>>
    /\ semaphore = [e \in Ends |-> IF e = "enqueue" THEN Capacity ELSE 0]
    /\ endpoint = [e \in Ends |-> e = "dequeue"]
    /\ reactables = {"handler", "alarm", "dequeue"}
    /\ running = Idle
    /\ now = 0
    /\ life_cycle_stopped = FALSE
    /\ consumers = TRUE
    /\ arrived = 0
    /\ routed = <<>>
    /\ stop = "no"
    /\ fate = "ok"

Fail(how) == fate' = how
Ok == fate = "ok"

-----------------------------------------------------------------------------
(***************************************************************************)
(* Handler.                                                                *)
(***************************************************************************)

\* Post, under the mutex: nothing is queued once the handler was cleared.
Post(p) ==
    /\ Ok /\ poster[p] = "idle" /\ posted < MaxPosts
    /\ ~cleared
    /\ tasks_' = tasks_ + 1
    /\ posted' = posted + 1
    /\ poster' = [poster EXCEPT ![p] = "notify"]
    /\ UNCHANGED <<delayed_tasks_, alarm_, cleared, event_, ran, queueVars, reactables,
                   running, now, moduleVars, fate>>

\* Post, after the mutex was released.
Notify(p) ==
    /\ Ok /\ poster[p] = "notify"
    /\ event_' = event_ + 1
    /\ poster' = [poster EXCEPT ![p] = "idle"]
    /\ fate' = IF stop = "done" THEN "handler_destroyed" ELSE fate
    /\ UNCHANGED <<tasks_, delayed_tasks_, alarm_, cleared, posted, ran, queueVars,
                   reactables, running, now, moduleVars>>

\* When the top of the queue is due.
Earliest == LET dues == {task.due : task \in delayed_tasks_}
            IN  CHOOSE due \in dues : \A other \in dues : due <= other

\* PostWithDelay, under the mutex.  The alarm has to be restarted when this
\* closure is due before all others.
PostWithDelay(p, delay) ==
    LET time_to_run == now + delay
        reschedule == delayed_tasks_ = {} \/ Earliest > time_to_run
    IN  /\ Ok /\ poster[p] = "idle" /\ posted < MaxPosts /\ time_to_run <= MaxTime
        /\ ~cleared
        /\ delayed_tasks_' = delayed_tasks_ \cup {[number |-> posted + 1, due |-> time_to_run]}
        /\ posted' = posted + 1
        /\ poster' = [poster EXCEPT ![p] = IF reschedule THEN "reschedule" ELSE "idle"]
        /\ UNCHANGED <<tasks_, alarm_, cleared, event_, ran, queueVars, reactables, running,
                       now, moduleVars, fate>>

\* Mutation: a closure that is overdue is left to the alarm that was set.
RescheduledOnlyAhead ==
    IF cleared \/ delayed_tasks_ = {} THEN alarm_ ELSE IF Earliest > now THEN Earliest ELSE alarm_

\* reschedule_delayed_tasks: the alarm fires when the first delayed closure
\* is due, in one millisecond at the earliest.
Rescheduled ==
    IF cleared \/ delayed_tasks_ = {}
    THEN alarm_
    ELSE IF Earliest > now THEN Earliest ELSE now + 1

\* PostWithDelay, after the mutex was released.
RescheduleAfterPost(p) ==
    /\ Ok /\ poster[p] = "reschedule"
    /\ alarm_' = Rescheduled
    /\ poster' = [poster EXCEPT ![p] = "idle"]
    /\ fate' = IF stop = "done" THEN "handler_destroyed" ELSE fate
    /\ UNCHANGED <<tasks_, delayed_tasks_, cleared, event_, posted, ran, queueVars,
                   reactables, running, now, moduleVars>>

\* handle_delayed_event, under the mutex: what is due within a millisecond of
\* the deadline, the time at which the callback began, moves to tasks_.
DueNow == {task \in delayed_tasks_ : task.due <= running.data + 1}

HandleDelayedEvent ==
    /\ Ok /\ Executes("alarm", "begin")
    /\ IF cleared
       THEN /\ running' = Idle
            /\ UNCHANGED <<tasks_, delayed_tasks_>>
       ELSE /\ tasks_' = tasks_ + Cardinality(DueNow)
            /\ delayed_tasks_' = delayed_tasks_ \ DueNow
            /\ Proceed("notify", Cardinality(DueNow))
    /\ UNCHANGED <<alarm_, cleared, event_, poster, posted, ran, queueVars, reactables, now,
                   moduleVars, fate>>

\* Mutation: one event for all the closures that became due.
NotifyDelayedOnce ==
    /\ Ok /\ Executes("alarm", "notify")
    /\ event_' = event_ + 1
    /\ Proceed("reschedule", 0)
    /\ UNCHANGED <<tasks_, delayed_tasks_, alarm_, cleared, poster, posted, ran, queueVars,
                   reactables, now, moduleVars, fate>>

NotifyDelayed ==
    /\ Ok /\ Executes("alarm", "notify")
    /\ event_' = event_ + running.data
    /\ Proceed("reschedule", 0)
    /\ UNCHANGED <<tasks_, delayed_tasks_, alarm_, cleared, poster, posted, ran, queueVars,
                   reactables, now, moduleVars, fate>>

RescheduleAfterEvent ==
    /\ Ok /\ Executes("alarm", "reschedule")
    /\ alarm_' = Rescheduled
    /\ running' = Idle
    /\ UNCHANGED <<tasks_, delayed_tasks_, cleared, event_, poster, posted, ran, queueVars,
                   reactables, now, moduleVars, fate>>

\* Mutation: the event is read before the mutex is taken, and a handler that
\* was cleared in between is not noticed.
HandleNextEventUnchecked ==
    /\ Ok /\ Executes("handler", "begin")
    /\ event_' = IF event_ = 0 THEN 0 ELSE event_ - 1
    /\ IF event_ = 0
       THEN Fail("assert") /\ UNCHANGED <<tasks_, running>>
       ELSE IF tasks_ = 0
       THEN Fail("front_of_empty_tasks") /\ UNCHANGED <<tasks_, running>>
       ELSE /\ tasks_' = tasks_ - 1
            /\ Proceed("run", 0)
            /\ UNCHANGED fate
    /\ UNCHANGED <<delayed_tasks_, alarm_, cleared, poster, posted, ran, queueVars,
                   reactables, now, moduleVars>>

\* handle_next_event, under the mutex: the event is read before was_cleared()
\* is looked at, so the events left over in a cleared handler are consumed.
HandleNextEvent ==
    /\ Ok /\ Executes("handler", "begin")
    /\ event_' = IF event_ = 0 THEN 0 ELSE event_ - 1
    /\ IF cleared
       THEN /\ running' = Idle
            /\ UNCHANGED <<tasks_, fate>>
       ELSE IF event_ = 0
       THEN Fail("assert") /\ UNCHANGED <<tasks_, running>>
       ELSE IF tasks_ = 0
       THEN Fail("front_of_empty_tasks") /\ UNCHANGED <<tasks_, running>>
       ELSE /\ tasks_' = tasks_ - 1
            /\ Proceed("run", 0)
            /\ UNCHANGED fate
    /\ UNCHANGED <<delayed_tasks_, alarm_, cleared, poster, posted, ran, queueVars,
                   reactables, now, moduleVars>>

RunClosure ==
    /\ Ok /\ Executes("handler", "run")
    /\ ran' = ran + 1
    /\ running' = Idle
    /\ UNCHANGED <<tasks_, delayed_tasks_, alarm_, cleared, event_, poster, posted, queueVars,
                   reactables, now, moduleVars, fate>>

-----------------------------------------------------------------------------
(***************************************************************************)
(* EnqueueBuffer and Queue.                                                *)
(***************************************************************************)

\* aclDataReceived and EnqueueBuffer::Enqueue with RegisterEnqueue, on the
\* HAL thread; a packet that comes after life_cycle_stopped is not looked at.
Enqueue ==
    /\ Ok /\ arrived < MaxPackets
    /\ ~life_cycle_stopped
    /\ mutex_ = "free"
    /\ arrived' = arrived + 1
    /\ buffer_' = Append(buffer_, arrived + 1)
    /\ enqueue_registered_' = TRUE
    /\ IF enqueue_registered_
       THEN UNCHANGED <<endpoint, reactables, fate>>
       ELSE IF endpoint["enqueue"]
       THEN Fail("assert") /\ UNCHANGED <<endpoint, reactables>>
       ELSE /\ endpoint' = [endpoint EXCEPT !["enqueue"] = TRUE]
            /\ reactables' = reactables \cup {"enqueue"}
            /\ UNCHANGED fate
    /\ UNCHANGED <<handlerVars, mutex_, queue_, semaphore, running, now, life_cycle_stopped,
                   consumers, routed, stop>>

\* Mutation: the packet is taken from the wrong end of the buffer.
EnqueueCallbackTakesLast ==
    LET last == Len(buffer_) = 1
    IN  /\ Ok /\ Executes("enqueue", "begin")
        /\ mutex_ = "free"
        /\ buffer_ # <<>>
        /\ buffer_' = SubSeq(buffer_, 1, Len(buffer_) - 1)
        /\ Proceed("push", buffer_[Len(buffer_)])
        /\ enqueue_registered_' = ~last
        /\ endpoint' = [endpoint EXCEPT !["enqueue"] = ~last]
        /\ reactables' = IF last THEN reactables \ {"enqueue"} ELSE reactables
        /\ UNCHANGED <<handlerVars, mutex_, queue_, semaphore, now, moduleVars, fate>>

\* Mutation: the producer stays registered when the buffer runs empty.
EnqueueCallbackStaysRegistered ==
    /\ Ok /\ Executes("enqueue", "begin")
    /\ mutex_ = "free"
    /\ IF buffer_ = <<>>
       THEN /\ Fail("front_of_empty_buffer")
            /\ UNCHANGED <<buffer_, running>>
       ELSE /\ buffer_' = Tail(buffer_)
            /\ Proceed("push", Head(buffer_))
            /\ UNCHANGED fate
    /\ UNCHANGED <<handlerVars, mutex_, queue_, semaphore, now, moduleVars,
                   enqueue_registered_, endpoint, reactables>>

\* EnqueueBuffer::enqueue_callback with UnregisterEnqueue on the same thread.
EnqueueCallback ==
    /\ Ok /\ Executes("enqueue", "begin")
    /\ mutex_ = "free"
    /\ IF buffer_ = <<>>
       THEN /\ Fail("front_of_empty_buffer")
            /\ UNCHANGED <<buffer_, enqueue_registered_, endpoint, reactables, running>>
       ELSE /\ buffer_' = Tail(buffer_)
            /\ IF Tail(buffer_) = <<>> /\ enqueue_registered_
               THEN /\ enqueue_registered_' = FALSE
                    /\ endpoint' = [endpoint EXCEPT !["enqueue"] = FALSE]
                    /\ reactables' = reactables \ {"enqueue"}
                    /\ running' = [Removed("enqueue") EXCEPT !.at = "push", !.data = Head(buffer_)]
                    /\ fate' = IF endpoint["enqueue"] THEN fate ELSE "assert"
               ELSE /\ Proceed("push", Head(buffer_))
                    /\ UNCHANGED <<enqueue_registered_, endpoint, reactables, fate>>
    /\ UNCHANGED <<handlerVars, mutex_, queue_, semaphore, now, moduleVars>>

\* Mutation: the room that the packet takes is not given up.
EnqueueCallbackInternalKeepsRoom ==
    /\ Ok /\ Executes("enqueue", "push")
    /\ queue_' = Append(queue_, running.data)
    /\ semaphore' = [semaphore EXCEPT !["dequeue"] = @ + 1]
    /\ running' = Idle
    /\ UNCHANGED <<handlerVars, mutex_, buffer_, enqueue_registered_, endpoint, reactables,
                   now, moduleVars, fate>>

\* EnqueueCallbackInternal, after the callback returned the packet.
EnqueueCallbackInternal ==
    /\ Ok /\ Executes("enqueue", "push")
    /\ IF stop = "done"
       THEN Fail("queue_destroyed") /\ UNCHANGED <<queue_, semaphore, running>>
       ELSE IF semaphore["enqueue"] = 0
       THEN Fail("assert") /\ UNCHANGED <<queue_, semaphore, running>>
       ELSE /\ queue_' = Append(queue_, running.data)
            /\ semaphore' = [semaphore EXCEPT !["enqueue"] = @ - 1, !["dequeue"] = @ + 1]
            /\ running' = Idle
            /\ UNCHANGED fate
    /\ UNCHANGED <<handlerVars, mutex_, buffer_, enqueue_registered_, endpoint, reactables,
                   now, moduleVars>>

\* TryDequeue as dequeue_and_route_acl_packet_to_connection calls it.
TryDequeue ==
    /\ Ok /\ Executes("dequeue", "begin")
    /\ IF queue_ = <<>>
       THEN Fail("assert") /\ UNCHANGED <<queue_, semaphore, running>>
       ELSE /\ queue_' = Tail(queue_)
            /\ semaphore' = [semaphore EXCEPT !["enqueue"] = @ + 1, !["dequeue"] = @ - 1]
            /\ Proceed("route", Head(queue_))
            /\ UNCHANGED fate
    /\ UNCHANGED <<handlerVars, mutex_, buffer_, enqueue_registered_, endpoint, reactables,
                   now, moduleVars>>

\* The rest of dequeue_and_route_acl_packet_to_connection: the ACL managers
\* are called through pointers that nobody resets when they are destroyed.
Route ==
    /\ Ok /\ Executes("dequeue", "route")
    /\ IF consumers
       THEN /\ routed' = Append(routed, running.data)
            /\ running' = Idle
            /\ UNCHANGED fate
       ELSE Fail("consumer_destroyed") /\ UNCHANGED <<routed, running>>
    /\ UNCHANGED <<handlerVars, queueVars, reactables, now, life_cycle_stopped, consumers,
                   arrived, stop>>

-----------------------------------------------------------------------------
(***************************************************************************)
(* The reactor and the clock.                                              *)
(***************************************************************************)

Ready(r) ==
    \/ r = "handler" /\ event_ > 0
    \/ r = "alarm" /\ alarm_ # 0 /\ alarm_ <= now
    \/ r \in Ends /\ semaphore[r] > 0

Begin(r) ==
    /\ Ok /\ running = Idle
    /\ r \in reactables
    /\ Ready(r)
    /\ running' = [what |-> r, at |-> "begin", data |-> IF r = "alarm" THEN now ELSE 0,
                   removed |-> FALSE]
    /\ alarm_' = IF r = "alarm" THEN 0 ELSE alarm_
    /\ UNCHANGED <<tasks_, delayed_tasks_, cleared, event_, poster, posted, ran, queueVars,
                   reactables, now, moduleVars, fate>>

\* Time passes up to the bound, and beyond it as long as the alarm is armed.
Tick ==
    /\ Ok
    /\ now < MaxTime \/ alarm_ > now
    /\ now' = now + 1
    /\ UNCHANGED <<handlerVars, queueVars, reactables, running, moduleVars, fate>>

\* WaitForUnregisteredReactable: no callback executes whose reactable was
\* unregistered.  A callback that can run finishes within the timeout; one
\* that waits for mutex_, which the waiting thread holds, never does.
Finished == ~running.removed

\* Mutation: the wait has no timeout.
NeverTimesOut == FALSE

TimesOut == Executes("enqueue", "begin") /\ mutex_ # "free"

-----------------------------------------------------------------------------
(***************************************************************************)
(* Stack::Stop, with one handler for all modules, and ~HciLayer.           *)
(***************************************************************************)

\* Handler::Clear takes the queues away under its mutex, and then, without it,
\* cancels the alarm that was set and unregisters the handler.
HandlerClear ==
    /\ Ok /\ stop = "no"
    /\ cleared' = TRUE
    /\ tasks_' = 0
    /\ delayed_tasks_' = {}
    /\ stop' = "handler_swapped"
    /\ UNCHANGED <<alarm_, event_, poster, posted, ran, queueVars, reactables, running, now,
                   life_cycle_stopped, consumers, arrived, routed, fate>>

AlarmCancel ==
    /\ Ok /\ stop = "handler_swapped"
    /\ alarm_' = 0
    /\ reactables' = reactables \ {"alarm"}
    /\ running' = Removed("alarm")
    /\ stop' = "handler_cleared"
    /\ UNCHANGED <<tasks_, delayed_tasks_, cleared, event_, poster, posted, ran, queueVars, now,
                   life_cycle_stopped, consumers, arrived, routed, fate>>

HandlerUnregister ==
    /\ Ok /\ stop = "handler_cleared"
    /\ event_' = 0
    /\ reactables' = reactables \ {"handler"}
    /\ running' = Removed("handler")
    /\ stop' = "handler_unregistered"
    /\ UNCHANGED <<tasks_, delayed_tasks_, alarm_, cleared, poster, posted, ran, queueVars,
                   now, life_cycle_stopped, consumers, arrived, routed, fate>>

WaitUntilStopped ==
    /\ Ok /\ stop = "handler_unregistered"
    /\ Finished
    /\ stop' = "handler_stopped"
    /\ UNCHANGED <<handlerVars, queueVars, reactables, running, now, life_cycle_stopped,
                   consumers, arrived, routed, fate>>

\* Stack::impl destroys its members in reverse order: the ACL managers go
\* before the HciLayer that still routes packets to them.
DestroyConsumers ==
    /\ Ok /\ stop = "handler_stopped"
    /\ consumers' = FALSE
    /\ stop' = "consumers_destroyed"
    /\ UNCHANGED <<handlerVars, queueVars, reactables, running, now, life_cycle_stopped,
                   arrived, routed, fate>>

\* ~HciLayer takes life_cycle_guard, which the HAL thread holds while it
\* delivers a packet.
LifeCycleStop ==
    /\ Ok /\ stop = "consumers_destroyed"
    /\ life_cycle_stopped' = TRUE
    /\ stop' = "hci_stopped"
    /\ UNCHANGED <<handlerVars, queueVars, reactables, running, now, consumers, arrived,
                   routed, fate>>

\* EnqueueBuffer::Clear up to the wait in UnregisterEnqueue; mutex_ stays
\* locked.  A buffer that is not registered is left as it is.
BufferClear ==
    /\ Ok /\ stop = "hci_stopped"
    /\ mutex_ = "free"
    /\ IF enqueue_registered_
       THEN /\ enqueue_registered_' = FALSE
            /\ mutex_' = "stop"
            /\ endpoint' = [endpoint EXCEPT !["enqueue"] = FALSE]
            /\ reactables' = reactables \ {"enqueue"}
            /\ running' = Removed("enqueue")
            /\ stop' = "clear_waits"
            /\ fate' = IF endpoint["enqueue"] THEN fate ELSE "assert"
       ELSE /\ stop' = "buffer_cleared"
            /\ UNCHANGED <<enqueue_registered_, mutex_, endpoint, reactables, running, fate>>
    /\ UNCHANGED <<handlerVars, buffer_, queue_, semaphore, now, life_cycle_stopped,
                   consumers, arrived, routed>>

\* The rest of EnqueueBuffer::Clear.
BufferCleared ==
    /\ Ok /\ stop = "clear_waits"
    /\ Finished \/ TimesOut
    /\ buffer_' = <<>>
    /\ mutex_' = "free"
    /\ stop' = "buffer_cleared"
    /\ UNCHANGED <<handlerVars, enqueue_registered_, queue_, semaphore, endpoint, reactables,
                   running, now, life_cycle_stopped, consumers, arrived, routed, fate>>

\* ~HciDataRouter: UnregisterDequeue, and its wait.
UnregisterDequeue ==
    /\ Ok /\ stop = "buffer_cleared"
    /\ endpoint' = [endpoint EXCEPT !["dequeue"] = FALSE]
    /\ reactables' = reactables \ {"dequeue"}
    /\ running' = Removed("dequeue")
    /\ stop' = "dequeue_waits"
    /\ fate' = IF endpoint["dequeue"] THEN fate ELSE "assert"
    /\ UNCHANGED <<handlerVars, mutex_, buffer_, enqueue_registered_, queue_, semaphore,
                   now, life_cycle_stopped, consumers, arrived, routed>>

DequeueUnregistered ==
    /\ Ok /\ stop = "dequeue_waits"
    /\ Finished
    /\ stop' = "dequeue_unregistered"
    /\ UNCHANGED <<handlerVars, queueVars, reactables, running, now, life_cycle_stopped,
                   consumers, arrived, routed, fate>>

\* ~EnqueueBuffer, ~Queue and ~Handler with their assertions.
DestroyQueue ==
    /\ Ok /\ stop = "dequeue_unregistered"
    /\ stop' = "done"
    /\ fate' = IF ~enqueue_registered_ /\ ~endpoint["enqueue"] /\ ~endpoint["dequeue"] /\ cleared
               THEN fate ELSE "assert"
    /\ UNCHANGED <<handlerVars, queueVars, reactables, running, now, life_cycle_stopped,
                   consumers, arrived, routed>>

Stop == \/ HandlerClear \/ AlarmCancel \/ HandlerUnregister \/ WaitUntilStopped \/ DestroyConsumers
        \/ LifeCycleStop \/ BufferClear \/ BufferCleared \/ UnregisterDequeue
        \/ DequeueUnregistered \/ DestroyQueue

StackThreadStep ==
    \/ \E r \in Reactables : Begin(r)
    \/ HandleNextEvent \/ RunClosure
    \/ HandleDelayedEvent \/ NotifyDelayed \/ RescheduleAfterEvent
    \/ EnqueueCallback \/ EnqueueCallbackInternal \/ TryDequeue \/ Route

FinishPost(p) == Notify(p) \/ RescheduleAfterPost(p)

Next ==
    \/ \E p \in Posters : Post(p) \/ FinishPost(p) \/ \E delay \in Delays : PostWithDelay(p, delay)
    \/ Enqueue
    \/ StackThreadStep
    \/ Tick
    \/ Stop

Spec == Init /\ [][Next]_vars

\* The operating system runs every thread and the clock; a stop that has
\* begun goes on.  Nobody has to post, to deliver a packet or to stop.
FairSpec ==
    /\ Spec
    /\ WF_vars(StackThreadStep)
    /\ \A p \in Posters : WF_vars(FinishPost(p))
    /\ WF_vars(Tick)
    /\ WF_vars(stop # "no" /\ Stop)

-----------------------------------------------------------------------------
(***************************************************************************)
(* Properties.                                                             *)
(***************************************************************************)

Fates == {"ok", "assert", "front_of_empty_tasks", "front_of_empty_buffer", "queue_destroyed",
          "consumer_destroyed", "handler_destroyed"}

\* Every variable stays in its type; a semaphore never counts more than the
\* queue has places (reactive_semaphore_ of gd/os/queue.h).
TypeOK ==
    /\ tasks_ \in 0..MaxPosts
    /\ delayed_tasks_ \subseteq Delayed
    /\ alarm_ \in Nat
    /\ cleared \in BOOLEAN
    /\ event_ \in 0..MaxPosts
    /\ poster \in [Posters -> {"idle", "notify", "reschedule"}]
    /\ posted \in 0..MaxPosts
    /\ ran \in 0..MaxPosts
    /\ mutex_ \in {"free", "stop"}
    /\ buffer_ \in Seq(1..MaxPackets)
    /\ enqueue_registered_ \in BOOLEAN
    /\ queue_ \in Seq(1..MaxPackets)
    /\ semaphore \in [Ends -> 0..Capacity]
    /\ endpoint \in [Ends -> BOOLEAN]
    /\ reactables \subseteq Reactables
    /\ running \in [what : Reactables \cup {"none"},
                    at : {"poll", "begin", "run", "notify", "reschedule", "push", "route"},
                    data : Nat,
                    removed : BOOLEAN]
    /\ now \in Nat
    /\ life_cycle_stopped \in BOOLEAN
    /\ consumers \in BOOLEAN
    /\ arrived \in 0..MaxPackets
    /\ routed \in Seq(1..MaxPackets)
    /\ stop \in StopSteps
    /\ fate \in Fates

Holds(what, at) == IF Executes(what, at) THEN <<running.data>> ELSE <<>>

\* Until the buffer is cleared every packet the HAL delivered is in exactly
\* one place, and the places taken together are in the order of arrival: the
\* router never sees a packet lost, repeated or overtaken, although the
\* packets pass two queues, two locks and two callbacks (gd/os/queue.h).
PacketsInOrder ==
    stop \notin {"buffer_cleared", "dequeue_waits", "dequeue_unregistered", "done"} =>
        routed \o Holds("dequeue", "route") \o queue_ \o Holds("enqueue", "push") \o buffer_
            = [i \in 1..arrived |-> i]

\* The two semaphores of the queue count its free and its taken places: the
\* producer is called exactly when there is room, the consumer exactly when
\* there is a packet (TryDequeue and EnqueueCallbackInternal).
SemaphoresAgree ==
    /\ semaphore["enqueue"] + Len(queue_) = Capacity
    /\ semaphore["dequeue"] = Len(queue_)

\* Whenever mutex_ is free, the buffer is registered as a producer, with its
\* flag, its endpoint and the reactor in agreement, exactly when it holds a
\* packet: no packet waits unnoticed, and the callback never finds the buffer
\* empty because it was left registered (Enqueue, Clear, enqueue_callback).
ProducerRegistered ==
    fate = "ok" /\ mutex_ = "free" =>
        /\ enqueue_registered_ <=> buffer_ # <<>>
        /\ enqueue_registered_ <=> endpoint["enqueue"]
        /\ enqueue_registered_ <=> "enqueue" \in reactables

\* Between its two locks and its two threads the queue keeps its promises: its
\* semaphores count its places and its producer is registered when it has work
\* (gd/os/queue.h).
QueueConsistent == SemaphoresAgree /\ ProducerRegistered

AboutToNotify ==
    Cardinality({p \in Posters : poster[p] = "notify"})
        + IF Executes("alarm", "notify") THEN running.data ELSE 0

\* Until the handler is cleared every queued closure is matched by one event
\* that was notified or that a thread is about to notify, and every event by
\* a closure: no closure is left behind and handle_next_event never finds
\* tasks_ empty, although Post and handle_delayed_event notify outside the
\* mutex.
EventsPayForTasks ==
    ~cleared => tasks_ = event_ + AboutToNotify

\* The alarm is armed no later than the first delayed closure is due, or a
\* millisecond from now if that has passed, or somebody is on the way to arm
\* it (PostWithDelay, handle_delayed_event, reschedule_delayed_tasks).
AlarmCoversDelayed ==
    \/ delayed_tasks_ = {}
    \/ alarm_ # 0 /\ (alarm_ <= Earliest \/ alarm_ <= now + 1)
    \/ running.what = "alarm"
    \/ \E p \in Posters : poster[p] = "reschedule"

\* No closure waits without somebody who will come for it, posted or delayed,
\* at whatever point a poster, the alarm and the reactor stand (gd/os/handler.cc).
NoWakeupLost == EventsPayForTasks /\ AlarmCoversDelayed

\* No assertion of handler.cc and queue.h fails, no closure is taken from an
\* empty queue and no callback outlives the queue, at any moment of a stop.
\* What remains can only happen while the stack is taken down: Clear gives up
\* waiting for a callback that waits for its mutex_, the router calls an ACL
\* manager that is gone, or a poster notifies a handler that is gone.
FailsOnlyInTeardown ==
    /\ fate \notin {"assert", "front_of_empty_tasks", "queue_destroyed"}
    /\ fate = "front_of_empty_buffer" => stop \in {"buffer_cleared", "dequeue_waits"}
    /\ fate = "consumer_destroyed" => ~consumers
    /\ fate = "handler_destroyed" => stop = "done"

\* Unless the stack is stopped, every packet the HAL delivers is routed and
\* every closure, delayed or not, is run.
WorkIsDone ==
    /\ \A n \in 1..MaxPackets : arrived >= n ~> Len(routed) >= n \/ stop # "no"
    /\ \A n \in 1..MaxPosts : posted >= n ~> ran >= n \/ stop # "no"

\* A stop that has begun ends: no thread waits forever for another one
\* (WaitUntilStopped, UnregisterEnqueue under mutex_, UnregisterDequeue).
StopEnds == stop # "no" ~> stop = "done" \/ fate # "ok"
=============================================================================
