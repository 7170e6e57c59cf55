------------------------- MODULE StackThreadProofs -------------------------
(* Theorems about StackThread, for every choice of its constants.            *)
EXTENDS StackThread, FiniteSetTheorems, SequenceTheorems, WellFoundedInduction, TLAPS

-----------------------------------------------------------------------------
(* The inductive invariant                                                   *)

\* The phases of a stop in which the buffer is, or is being, cleared; in which it is
\* empty; in which the consumer is unregistered; and in which no callback is left.
Clearing == {"clear_waits", "buffer_cleared", "dequeue_waits", "dequeue_unregistered", "done"}
BufferGone == Clearing \ {"clear_waits"}
ConsumerGone == {"dequeue_waits", "dequeue_unregistered", "done"}
CallbacksGone == {"dequeue_unregistered", "done"}

Points == {"poll", "begin", "run", "notify", "reschedule", "push", "route"}
Runs == [what : Reactables \cup {"none"},
         at : Points,
         data : Nat,
         removed : BOOLEAN]

\* The points at which each callback may stand.
RunningOK ==
    /\ running \in Runs
    /\ running.what = "none" => running = Idle
    /\ running.what = "handler" => running.at \in {"begin", "run"}
    /\ running.what = "alarm" => running.at \in {"begin", "notify", "reschedule"}
    /\ running.what = "enqueue" => running.at \in {"begin", "push"}
    /\ running.what = "dequeue" => running.at \in {"begin", "route"}
    /\ running.at \in {"push", "route"} => running.data \in 1..MaxPackets

RunsClosure == IF Executes("handler", "run") THEN 1 ELSE 0

\* Every closure that was accepted is in one place at most, and is notified at most once.
ClosuresCounted ==
    /\ IsFiniteSet(delayed_tasks_)
    /\ \A task \in delayed_tasks_ : task.number <= posted
    /\ ran + tasks_ + Cardinality(delayed_tasks_) + RunsClosure <= posted
    /\ event_ + AboutToNotify <= posted
    /\ cleared => tasks_ = 0 /\ delayed_tasks_ = {}
    /\ cleared <=> stop # "no"
    /\ Executes("handler", "begin") /\ ~cleared => event_ > 0

\* A callback of the queue runs only while there is room, or a packet, for it.
CallbacksServed ==
    /\ running.what = "enqueue" => semaphore["enqueue"] > 0
    /\ Executes("dequeue", "begin") => semaphore["dequeue"] > 0

\* What a stop has taken down by each of its phases, and which callback may still run.
TakenDown ==
    /\ life_cycle_stopped <=> stop \in Clearing \cup {"hci_stopped"}
    /\ mutex_ = "stop" <=> stop = "clear_waits"
    /\ stop \in Clearing =>
         ~enqueue_registered_ /\ ~endpoint["enqueue"] /\ "enqueue" \notin reactables
    /\ stop \in BufferGone => buffer_ = <<>>
    /\ stop \in ConsumerGone => ~endpoint["dequeue"] /\ "dequeue" \notin reactables
    /\ stop \notin ConsumerGone => endpoint["dequeue"]
    /\ running.what \in Ends /\ running.what \notin reactables => running.removed
    /\ stop \in CallbacksGone => running.what \notin Ends
    /\ fate = "ok" /\ Executes("enqueue", "begin") =>
         buffer_ # <<>> \/ stop \in {"buffer_cleared", "dequeue_waits"}

IInv ==
    /\ TypeOK
    /\ RunningOK
    /\ ClosuresCounted
    /\ NoWakeupLost
    /\ CallbacksServed
    /\ TakenDown
    /\ QueueConsistent
    /\ PacketsInOrder
    /\ FailsOnlyInTeardown

-----------------------------------------------------------------------------
(* The callback that runs                                                    *)

\* Unregistering a reactable marks the callback that runs if it is its own.
LEMMA RemovedFacts ==
  ASSUME running \in Runs, NEW r
  PROVE  /\ Removed(r) \in Runs
         /\ Removed(r).what = running.what
         /\ Removed(r).at = running.at
         /\ Removed(r).data = running.data
         /\ running.what # r => Removed(r) = running
         /\ running.what = r => Removed(r).removed = TRUE
<1>1. CASE running.what = r
  <2>1. Removed(r) = [running EXCEPT !.removed = TRUE]
    BY <1>1 DEF Removed, Runs
  <2> QED
    BY <1>1, <2>1 DEF Runs
<1>2. CASE running.what # r
  <2>1. Removed(r) = [running EXCEPT !.removed = running.removed]
    BY <1>2, Zenon DEF Removed, Runs
  <2>2. Removed(r) = running
    BY <2>1 DEF Runs
  <2> QED
    BY <1>2, <2>2
<1> QED
  BY <1>1, <1>2

\* The points are what they are.
LEMMA PointsFacts == {"run", "notify", "reschedule", "push", "route"} \subseteq Points
BY DEF Points

\* A callback that goes on changes where it stands and what it holds.
GoesOn(run, at, data) == [run EXCEPT !.at = at, !.data = data]

\* It changes nothing else.
LEMMA GoesOnFields ==
  ASSUME NEW run \in Runs, NEW at, NEW data
  PROVE  /\ GoesOn(run, at, data).what = run.what
         /\ GoesOn(run, at, data).at = at
         /\ GoesOn(run, at, data).data = data
         /\ GoesOn(run, at, data).removed = run.removed
BY DEF Runs, GoesOn

\* A callback that goes on to a point is one that may run.
LEMMA GoesOnFacts ==
  ASSUME NEW run \in Runs,
         NEW at \in Points,
         NEW data \in Nat
  PROVE  /\ GoesOn(run, at, data) \in Runs
         /\ GoesOn(run, at, data).what = run.what
         /\ GoesOn(run, at, data).at = at
         /\ GoesOn(run, at, data).data = data
         /\ GoesOn(run, at, data).removed = run.removed
BY DEF Runs, GoesOn

\* No step leaves the points at which a callback may stand.
LEMMA RunningStep ==
  ASSUME IInv, [Next]_vars
  PROVE  RunningOK'
<1>0. running \in Runs /\ RunningOK
  BY DEF IInv, RunningOK
<1>1. CASE running' = running
  BY <1>0, <1>1 DEF RunningOK
<1>2. CASE running' = Idle
  BY <1>2 DEF Idle, Runs, Points, RunningOK
<1>3. ASSUME NEW r \in Reactables, Begin(r)
      PROVE  RunningOK'
  BY <1>3 DEF IInv, TypeOK, RunningOK, Begin, Runs, Points, Reactables, Ends
<1>4. ASSUME NEW r, running' = Removed(r), r # "none"
      PROVE  RunningOK'
  BY <1>0, <1>4, RemovedFacts DEF RunningOK
<1>5. ASSUME NEW run \in Runs, NEW data \in Nat,
             \/ run.what = "handler" /\ running' = GoesOn(run, "run", data)
             \/ run.what = "alarm" /\ running' = GoesOn(run, "notify", data)
             \/ run.what = "alarm" /\ running' = GoesOn(run, "reschedule", data)
             \/ run.what = "enqueue" /\ running' = GoesOn(run, "push", data) /\ data \in 1..MaxPackets
             \/ run.what = "dequeue" /\ running' = GoesOn(run, "route", data) /\ data \in 1..MaxPackets
      PROVE  RunningOK'
  <2>1. PICK at \in {"run", "notify", "reschedule", "push", "route"} :
          /\ running' = GoesOn(run, at, data)
          /\ \/ run.what = "handler" /\ at = "run"
             \/ run.what = "alarm" /\ at \in {"notify", "reschedule"}
             \/ run.what = "enqueue" /\ at = "push" /\ data \in 1..MaxPackets
             \/ run.what = "dequeue" /\ at = "route" /\ data \in 1..MaxPackets
    BY <1>5
  <2>2. /\ running' \in Runs /\ running'.what = run.what
        /\ running'.at = at /\ running'.data = data
    <3>1. running' = GoesOn(run, at, data) /\ at \in Points
      BY <2>1 DEF Points
    <3> QED
      BY <3>1, GoesOnFacts
  <2>3. CASE run.what = "handler" /\ at = "run"
    BY <2>2, <2>3 DEF RunningOK
  <2>4. CASE run.what = "alarm" /\ at \in {"notify", "reschedule"}
    BY <2>2, <2>4 DEF RunningOK
  <2>5. CASE run.what = "enqueue" /\ at = "push" /\ data \in 1..MaxPackets
    BY <2>2, <2>5 DEF RunningOK
  <2>6. CASE run.what = "dequeue" /\ at = "route" /\ data \in 1..MaxPackets
    BY <2>2, <2>6 DEF RunningOK
  <2> QED
    BY <2>1, <2>3, <2>4, <2>5, <2>6
<1>6. CASE HandleNextEvent
  <2>1. \/ running' = running \/ running' = Idle
        \/ running.what = "handler" /\ running' = GoesOn(running, "run", 0)
    BY <1>6 DEF HandleNextEvent, Executes, Proceed, GoesOn
  <2>2. CASE running' = running \/ running' = Idle
    BY <1>0, <1>1, <1>2, <2>2
  <2>3. CASE running.what = "handler" /\ running' = GoesOn(running, "run", 0)
    BY <1>0, <1>5, <2>3, SMTT(30)
  <2> QED
    BY <2>1, <2>2, <2>3
<1>7. CASE HandleDelayedEvent \/ NotifyDelayed
  <2>1. DueNow \subseteq delayed_tasks_
    BY DEF DueNow
  <2>2. Cardinality(DueNow) \in Nat
    BY <2>1, FS_Subset, FS_CardinalityType DEF IInv, ClosuresCounted
  <2> QED
    BY <1>0, <1>2, <1>5, <1>7, <2>2
    DEF HandleDelayedEvent, NotifyDelayed, Executes, Proceed, GoesOn
<1>8. CASE EnqueueCallback /\ buffer_ # <<>>
  <2>1. Head(buffer_) \in 1..MaxPackets /\ Head(buffer_) \in Nat
    BY <1>8, HeadTailProperties, BoundsAssumption DEF IInv, TypeOK
  <2>2. \/ running' = GoesOn(running, "push", Head(buffer_))
        \/ running' = GoesOn(Removed("enqueue"), "push", Head(buffer_))
    BY <1>8 DEF EnqueueCallback, Proceed, GoesOn
  <2>3. running.what = "enqueue"
    BY <1>8 DEF EnqueueCallback, Executes
  <2>4. Removed("enqueue") \in Runs /\ Removed("enqueue").what = "enqueue"
    BY <1>0, <2>3, RemovedFacts
  <2> QED
    BY <1>0, <1>5, <2>1, <2>2, <2>3, <2>4
<1>9. CASE TryDequeue /\ queue_ # <<>>
  <2>1. Head(queue_) \in 1..MaxPackets /\ Head(queue_) \in Nat
    BY <1>9, HeadTailProperties, BoundsAssumption DEF IInv, TypeOK
  <2> QED
    BY <1>0, <1>5, <1>9, <2>1 DEF TryDequeue, Executes, Proceed, GoesOn
<1>10. CASE \E p \in Posters : Post(p) \/ FinishPost(p) \/ \E delay \in Delays : PostWithDelay(p, delay)
  BY <1>1, <1>10 DEF Post, FinishPost, Notify, RescheduleAfterPost, PostWithDelay
<1>11. CASE Enqueue \/ Tick \/ HandlerClear \/ WaitUntilStopped \/ DestroyConsumers \/ LifeCycleStop
              \/ BufferCleared \/ DequeueUnregistered \/ DestroyQueue
  BY <1>1, <1>11
  DEF Enqueue, Tick, HandlerClear, WaitUntilStopped, DestroyConsumers, LifeCycleStop, BufferCleared,
      DequeueUnregistered, DestroyQueue
<1>12. CASE RunClosure \/ RescheduleAfterEvent \/ EnqueueCallbackInternal \/ Route
  BY <1>1, <1>2, <1>12 DEF RunClosure, RescheduleAfterEvent, EnqueueCallbackInternal, Route
<1>13. CASE AlarmCancel \/ HandlerUnregister \/ UnregisterDequeue
  BY <1>4, <1>13 DEF AlarmCancel, HandlerUnregister, UnregisterDequeue
<1>14. CASE BufferClear
  BY <1>1, <1>4, <1>14 DEF BufferClear
<1>15. CASE UNCHANGED vars
  BY <1>1, <1>15 DEF vars
<1>16. CASE (EnqueueCallback /\ buffer_ = <<>>) \/ (TryDequeue /\ queue_ = <<>>)
  BY <1>1, <1>16 DEF EnqueueCallback, TryDequeue
<1> QED
  BY <1>3, <1>6, <1>7, <1>8, <1>9, <1>10, <1>11, <1>12, <1>13, <1>14, <1>15, <1>16
  DEF Next, StackThreadStep, Stop

-----------------------------------------------------------------------------
(* The handler: closures and events                                          *)

Notifiers == {p \in Posters : poster[p] = "notify"}
AlarmNotifies == IF Executes("alarm", "notify") THEN running.data ELSE 0

\* What is about to be notified is a number.
LEMMA AboutToNotifyType ==
  ASSUME RunningOK
  PROVE  /\ IsFiniteSet(Notifiers) /\ Cardinality(Notifiers) \in Nat
         /\ AlarmNotifies \in Nat
         /\ AboutToNotify = Cardinality(Notifiers) + AlarmNotifies
<1>1. Notifiers \subseteq Posters
  BY DEF Notifiers
<1>2. IsFiniteSet(Notifiers) /\ Cardinality(Notifiers) \in Nat
  BY <1>1, PostersAssumption, FS_Subset, FS_CardinalityType
<1>3. AlarmNotifies \in Nat
  BY DEF AlarmNotifies, RunningOK, Runs
<1> QED
  BY <1>2, <1>3 DEF AboutToNotify, Notifiers, AlarmNotifies

\* The accounts of the handler depend on what the reactor runs only through these.
LEMMA AccountsKept ==
  ASSUME IInv, UNCHANGED <<tasks_, delayed_tasks_, cleared, event_, posted, ran>>,
         Notifiers' = Notifiers, stop' = "no" <=> stop = "no",
         RunsClosure' = RunsClosure, AlarmNotifies' = AlarmNotifies,
         Executes("handler", "begin")' => Executes("handler", "begin") \/ event_ > 0
  PROVE  ClosuresCounted' /\ EventsPayForTasks'
<1>1. AboutToNotify' = AboutToNotify
  BY DEF AboutToNotify, Notifiers, AlarmNotifies
<1> QED
  BY <1>1 DEF IInv, ClosuresCounted, NoWakeupLost, EventsPayForTasks

\* A poster notifies after it has released the mutex: until then its event is due.
LEMMA PostersAccounts ==
  ASSUME IInv, NEW p \in Posters,
         Post(p) \/ FinishPost(p) \/ \E delay \in Delays : PostWithDelay(p, delay)
  PROVE  ClosuresCounted' /\ EventsPayForTasks'
<1> DEFINE n == Cardinality(Notifiers)
           d == Cardinality(delayed_tasks_)
<1>1. /\ tasks_ \in Nat /\ event_ \in Nat /\ posted \in Nat /\ ran \in Nat
      /\ poster \in [Posters -> {"idle", "notify", "reschedule"}]
      /\ MaxPosts \in Nat
  BY BoundsAssumption DEF IInv, TypeOK
<1>2. /\ IsFiniteSet(Notifiers) /\ n \in Nat /\ AlarmNotifies \in Nat
      /\ AboutToNotify = n + AlarmNotifies
  BY AboutToNotifyType DEF IInv
<1>3. /\ running' = running /\ stop' = stop
      /\ Executes("handler", "run")' <=> Executes("handler", "run")
      /\ Executes("handler", "begin")' <=> Executes("handler", "begin")
      /\ Executes("alarm", "notify")' <=> Executes("alarm", "notify")
  BY DEF Post, FinishPost, Notify, RescheduleAfterPost, PostWithDelay, moduleVars, Executes
<1>4. RunsClosure' = RunsClosure /\ AlarmNotifies' = AlarmNotifies /\ RunsClosure \in Nat
  BY <1>3 DEF RunsClosure, AlarmNotifies
<1>5. AboutToNotify' = Cardinality(Notifiers') + AlarmNotifies
  BY <1>3, <1>4 DEF AboutToNotify, Notifiers, AlarmNotifies
<1>6. /\ IsFiniteSet(delayed_tasks_) /\ d \in Nat
      /\ \A task \in delayed_tasks_ : task.number <= posted
      /\ ran + tasks_ + d + RunsClosure <= posted
      /\ event_ + n + AlarmNotifies <= posted
      /\ cleared => tasks_ = 0 /\ delayed_tasks_ = {}
      /\ cleared <=> stop # "no"
      /\ Executes("handler", "begin") /\ ~cleared => event_ > 0
      /\ ~cleared => tasks_ = event_ + n + AlarmNotifies
  BY <1>1, <1>2, FS_CardinalityType DEF IInv, ClosuresCounted, NoWakeupLost, EventsPayForTasks
<1> HIDE DEF n, d
<1>7. CASE Post(p)
  <2>1. Notifiers' = Notifiers \cup {p} /\ p \notin Notifiers
    BY <1>1, <1>7 DEF Post, Notifiers
  <2>2. Cardinality(Notifiers') = n + 1
    BY <1>2, <2>1, FS_AddElement DEF n
  <2>3. /\ tasks_' = tasks_ + 1 /\ posted' = posted + 1 /\ ~cleared /\ ~cleared'
        /\ delayed_tasks_' = delayed_tasks_ /\ event_' = event_ /\ ran' = ran
    BY <1>7 DEF Post
  <2>4. \A task \in delayed_tasks_' : task.number <= posted'
    BY <1>1, <1>6, <2>3, SMTT(30) DEF IInv, TypeOK, Delayed
  <2>5. /\ ran' + tasks_' + d + RunsClosure' <= posted'
        /\ event_' + AboutToNotify' <= posted'
        /\ tasks_' = event_' + AboutToNotify'
    BY <1>1, <1>2, <1>4, <1>5, <1>6, <2>2, <2>3
  <2> QED
    BY <1>3, <1>6, <2>3, <2>4, <2>5 DEF ClosuresCounted, EventsPayForTasks, d
<1>8. CASE Notify(p)
  <2>1. Notifiers' = Notifiers \ {p} /\ p \in Notifiers
    BY <1>1, <1>8 DEF Notify, Notifiers
  <2>2. Cardinality(Notifiers') = n - 1
    BY <1>2, <2>1, FS_RemoveElement DEF n
  <2>3. /\ event_' = event_ + 1 /\ posted' = posted /\ cleared' = cleared
        /\ delayed_tasks_' = delayed_tasks_ /\ tasks_' = tasks_ /\ ran' = ran
    BY <1>8 DEF Notify
  <2>4. event_' + AboutToNotify' = event_ + n + AlarmNotifies /\ event_' > 0
    BY <1>1, <1>2, <1>5, <2>2, <2>3
  <2> QED
    BY <1>3, <1>4, <1>6, <2>3, <2>4 DEF ClosuresCounted, EventsPayForTasks, d
<1>9. CASE RescheduleAfterPost(p)
  <2>1. Notifiers' = Notifiers
    BY <1>1, <1>9 DEF RescheduleAfterPost, Notifiers
  <2> QED
    BY <1>3, <1>4, <1>9, <2>1, AccountsKept DEF RescheduleAfterPost
<1>10. ASSUME NEW delay \in Delays, PostWithDelay(p, delay)
       PROVE  ClosuresCounted' /\ EventsPayForTasks'
  <2> DEFINE new == [number |-> posted + 1, due |-> now + delay]
  <2>1. Notifiers' = Notifiers
    BY <1>1, <1>10 DEF PostWithDelay, Notifiers
  <2>2. /\ tasks_' = tasks_ /\ posted' = posted + 1 /\ ~cleared /\ ~cleared'
        /\ delayed_tasks_' = delayed_tasks_ \cup {new} /\ event_' = event_ /\ ran' = ran
    BY <1>10 DEF PostWithDelay
  <2>3. new.number = posted + 1
    OBVIOUS
  <2> HIDE DEF new
  <2>4. new \notin delayed_tasks_
    BY <1>1, <1>6, <2>3
  <2>5. IsFiniteSet(delayed_tasks_') /\ Cardinality(delayed_tasks_') = d + 1
    BY <1>6, <2>2, <2>4, FS_AddElement DEF d
  <2>6. \A task \in delayed_tasks_ : task.number \in Nat
    BY DEF IInv, TypeOK, Delayed
  <2>7. \A task \in delayed_tasks_' : task.number <= posted'
    BY <1>1, <1>6, <2>2, <2>3, <2>6
  <2>8. /\ ran' + tasks_' + Cardinality(delayed_tasks_') + RunsClosure' <= posted'
        /\ event_' + AboutToNotify' <= posted'
        /\ tasks_' = event_' + AboutToNotify'
    BY <1>1, <1>2, <1>4, <1>5, <1>6, <2>1, <2>2, <2>5 DEF n
  <2> QED
    BY <1>3, <1>6, <2>2, <2>5, <2>7, <2>8 DEF ClosuresCounted, EventsPayForTasks
<1> QED
  BY <1>7, <1>8, <1>9, <1>10 DEF FinishPost

\* The alarm's callback moves what is due and owes as many events.
LEMMA AlarmAccounts ==
  ASSUME IInv, HandleDelayedEvent \/ NotifyDelayed
  PROVE  ClosuresCounted' /\ EventsPayForTasks'
<1> DEFINE n == Cardinality(Notifiers)
           d == Cardinality(delayed_tasks_)
           due == Cardinality(DueNow)
<1>1. /\ tasks_ \in Nat /\ event_ \in Nat /\ posted \in Nat /\ ran \in Nat
      /\ running \in Runs /\ running.what = "alarm"
  BY BoundsAssumption
  DEF IInv, TypeOK, RunningOK, HandleDelayedEvent, NotifyDelayed, Executes
<1>2. n \in Nat /\ AlarmNotifies \in Nat /\ AboutToNotify = n + AlarmNotifies
  BY AboutToNotifyType DEF IInv
<1>3. Notifiers' = Notifiers /\ stop' = stop /\ posted' = posted /\ ran' = ran /\ cleared' = cleared
  BY DEF HandleDelayedEvent, NotifyDelayed, Notifiers, moduleVars
<1>4. /\ IsFiniteSet(delayed_tasks_) /\ d \in Nat
      /\ \A task \in delayed_tasks_ : task.number <= posted
      /\ ran + tasks_ + d <= posted
      /\ event_ + n + AlarmNotifies <= posted
      /\ cleared => tasks_ = 0 /\ delayed_tasks_ = {}
      /\ cleared <=> stop # "no"
      /\ ~cleared => tasks_ = event_ + n + AlarmNotifies
  BY <1>1, <1>2, FS_CardinalityType
  DEF IInv, ClosuresCounted, NoWakeupLost, EventsPayForTasks, RunsClosure, Executes
<1>5. /\ DueNow \subseteq delayed_tasks_ /\ IsFiniteSet(DueNow) /\ due \in Nat
      /\ IsFiniteSet(delayed_tasks_ \ DueNow)
      /\ Cardinality(delayed_tasks_ \ DueNow) = d - due
  <2>1. DueNow \subseteq delayed_tasks_
    BY DEF DueNow
  <2>2. IsFiniteSet(DueNow) /\ due \in Nat
    BY <1>4, <2>1, FS_Subset, FS_CardinalityType
  <2>3. delayed_tasks_ \cap DueNow = DueNow
    BY <2>1
  <2>4. IsFiniteSet(delayed_tasks_ \ DueNow)
    BY <1>4, FS_Difference
  <2>5. Cardinality(delayed_tasks_ \ DueNow)
          = Cardinality(delayed_tasks_) - Cardinality(delayed_tasks_ \cap DueNow)
    BY <1>4, FS_Difference
  <2> QED
    BY <2>1, <2>2, <2>3, <2>4, <2>5
<1> HIDE DEF n, d, due
<1>6. CASE HandleDelayedEvent /\ cleared
  <2>1. /\ running' = Idle /\ tasks_' = tasks_ /\ delayed_tasks_' = delayed_tasks_ /\ event_' = event_
        /\ running.at = "begin"
    BY <1>6 DEF HandleDelayedEvent, Executes
  <2> QED
    BY <1>1, <1>3, <2>1, AccountsKept DEF Idle, Executes, RunsClosure, AlarmNotifies
<1>7. CASE HandleDelayedEvent /\ ~cleared
  <2>1. /\ running.at = "begin" /\ running' = GoesOn(running, "notify", due)
        /\ tasks_' = tasks_ + due /\ delayed_tasks_' = delayed_tasks_ \ DueNow /\ event_' = event_
    BY <1>7 DEF HandleDelayedEvent, Executes, Proceed, GoesOn, due
  <2>2. running'.what = "alarm" /\ running'.at = "notify" /\ running'.data = due
    BY <1>1, <1>5, <2>1, GoesOnFacts, PointsFacts
  <2>3. AlarmNotifies = 0 /\ AlarmNotifies' = due /\ RunsClosure' = 0 /\ ~Executes("handler", "begin")'
    BY <1>1, <2>1, <2>2 DEF AlarmNotifies, RunsClosure, Executes
  <2>4. AboutToNotify' = n + due
    BY <1>3, <2>3 DEF AboutToNotify, Notifiers, AlarmNotifies, n
  <2>5. Cardinality(delayed_tasks_') = d - due /\ d - due \in Nat
    BY <1>5, <2>1, FS_CardinalityType
  <2>6. ran' + tasks_' + Cardinality(delayed_tasks_') + RunsClosure' <= posted'
    BY <1>1, <1>3, <1>4, <1>5, <2>1, <2>3, <2>5
  <2>7. tasks_' = event_' + AboutToNotify'
    BY <1>1, <1>2, <1>4, <1>5, <1>7, <2>1, <2>3, <2>4
  <2>8. event_' + AboutToNotify' <= posted'
    <3>1. due <= d /\ tasks_ = event_ + n
      BY <1>1, <1>2, <1>4, <1>5, <1>7, <2>3, <2>5
    <3>2. event_ + n + due <= posted
      BY <1>1, <1>2, <1>4, <1>5, <3>1
    <3> QED
      BY <1>1, <1>2, <1>3, <1>5, <2>1, <2>4, <3>2
  <2> QED
    BY <1>3, <1>4, <1>5, <1>7, <2>1, <2>3, <2>6, <2>7, <2>8 DEF ClosuresCounted, EventsPayForTasks
<1>8. CASE NotifyDelayed
  <2>1. /\ running.at = "notify" /\ running' = GoesOn(running, "reschedule", 0)
        /\ tasks_' = tasks_ /\ delayed_tasks_' = delayed_tasks_
        /\ event_' = event_ + running.data
    BY <1>8 DEF NotifyDelayed, Executes, Proceed, GoesOn
  <2>2. running'.what = "alarm" /\ running'.at = "reschedule"
    <3>1. running' = GoesOn(running, "reschedule", 0) /\ "reschedule" \in Points /\ 0 \in Nat
      BY <2>1, PointsFacts
    <3> QED
      BY <1>1, <3>1, GoesOnFacts
  <2>3. /\ AlarmNotifies = running.data /\ AlarmNotifies' = 0
        /\ RunsClosure' = 0 /\ ~Executes("handler", "begin")'
    BY <1>1, <2>1, <2>2 DEF AlarmNotifies, RunsClosure, Executes
  <2>4. AboutToNotify' = n + 0
    BY <1>3, <2>3 DEF AboutToNotify, Notifiers, AlarmNotifies, n
  <2>5. event_' + AboutToNotify' = event_ + n + AlarmNotifies
    BY <1>1, <1>2, <2>1, <2>3, <2>4
  <2>6. ran' + tasks_' + Cardinality(delayed_tasks_') + RunsClosure' <= posted'
    BY <1>1, <1>3, <1>4, <2>1, <2>3 DEF d
  <2> QED
    BY <1>3, <1>4, <2>1, <2>3, <2>5, <2>6 DEF ClosuresCounted, EventsPayForTasks
<1> QED
  BY <1>6, <1>7, <1>8

\* The handler's callback takes a closure for an event, and then runs it.
LEMMA HandlerAccounts ==
  ASSUME IInv, HandleNextEvent \/ RunClosure
  PROVE  ClosuresCounted' /\ EventsPayForTasks'
<1> DEFINE n == Cardinality(Notifiers)
           d == Cardinality(delayed_tasks_)
<1>1. /\ tasks_ \in Nat /\ event_ \in Nat /\ posted \in Nat /\ ran \in Nat
      /\ running \in Runs /\ running.what = "handler"
  BY BoundsAssumption
  DEF IInv, TypeOK, RunningOK, HandleNextEvent, RunClosure, Executes
<1>2. n \in Nat /\ AboutToNotify = n /\ AlarmNotifies = 0
  BY <1>1, AboutToNotifyType DEF IInv, AlarmNotifies, Executes
<1>3. /\ Notifiers' = Notifiers /\ stop' = stop /\ posted' = posted /\ cleared' = cleared
      /\ delayed_tasks_' = delayed_tasks_
  BY DEF HandleNextEvent, RunClosure, Notifiers, moduleVars
<1>4. /\ IsFiniteSet(delayed_tasks_) /\ d \in Nat
      /\ \A task \in delayed_tasks_ : task.number <= posted
      /\ ran + tasks_ + d + RunsClosure <= posted
      /\ event_ + n <= posted
      /\ cleared => tasks_ = 0 /\ delayed_tasks_ = {}
      /\ cleared <=> stop # "no"
      /\ ~cleared => tasks_ = event_ + n
      /\ Executes("handler", "begin") /\ ~cleared => event_ > 0
  BY <1>1, <1>2, FS_CardinalityType DEF IInv, ClosuresCounted, NoWakeupLost, EventsPayForTasks
<1>5. ASSUME ~Executes("alarm", "notify")' PROVE AboutToNotify' = n
  BY <1>2, <1>3, <1>5 DEF AboutToNotify, Notifiers
<1> HIDE DEF n, d
<1>6. CASE HandleNextEvent /\ cleared
  <2>1. /\ running' = Idle /\ tasks_' = tasks_ /\ ran' = ran
        /\ event_' <= event_ /\ event_' \in Nat
        /\ running.at = "begin"
    BY <1>1, <1>6 DEF HandleNextEvent, Executes
  <2>2. /\ ~Executes("alarm", "notify")' /\ ~Executes("handler", "begin")'
        /\ RunsClosure' = 0 /\ RunsClosure = 0
    BY <2>1 DEF Idle, Executes, RunsClosure
  <2>3. AboutToNotify' = n
    BY <1>5, <2>2
  <2>4. event_' + AboutToNotify' <= posted'
    <3>1. event_ + n <= posted /\ posted' = posted /\ event_' <= event_ /\ event_' \in Nat
      BY <1>3, <1>4, <2>1
    <3>2. \A a, b, c, e \in Nat : e <= a /\ a + c <= b => e + c <= b
      OBVIOUS
    <3>3. event_' + n <= posted
      BY <1>1, <1>2, <3>1, <3>2
    <3> QED
      BY <2>3, <3>1, <3>3
  <2> QED
    BY <1>3, <1>4, <1>6, <2>1, <2>2, <2>4 DEF ClosuresCounted, EventsPayForTasks, d
<1>7. CASE HandleNextEvent /\ ~cleared
  <2>1. event_ > 0 /\ tasks_ > 0 /\ running.at = "begin"
    BY <1>1, <1>2, <1>4, <1>7 DEF HandleNextEvent, Executes
  <2>2. /\ event_' = event_ - 1 /\ tasks_' = tasks_ - 1 /\ ran' = ran
        /\ running' = GoesOn(running, "run", 0)
    BY <1>1, <1>7, <2>1 DEF HandleNextEvent, Proceed, GoesOn
  <2>3. running'.what = "handler" /\ running'.at = "run"
    BY <1>1, <2>2, GoesOnFacts, PointsFacts
  <2>4. /\ ~Executes("alarm", "notify")' /\ ~Executes("handler", "begin")'
        /\ RunsClosure' = 1 /\ RunsClosure = 0
    BY <2>1, <2>3 DEF Executes, RunsClosure
  <2>5. /\ ran' + tasks_' + d + RunsClosure' <= posted'
        /\ tasks_' = event_' + AboutToNotify'
        /\ event_' + AboutToNotify' <= posted'
    BY <1>1, <1>2, <1>3, <1>4, <1>5, <1>7, <2>1, <2>2, <2>4
  <2> QED
    BY <1>3, <1>4, <1>7, <2>2, <2>4, <2>5 DEF ClosuresCounted, EventsPayForTasks, d
<1>8. CASE RunClosure
  <2>1. /\ running' = Idle /\ tasks_' = tasks_ /\ ran' = ran + 1 /\ event_' = event_
        /\ running.at = "run"
    BY <1>8 DEF RunClosure, Executes
  <2>2. /\ ~Executes("alarm", "notify")' /\ ~Executes("handler", "begin")'
        /\ RunsClosure' = 0 /\ RunsClosure = 1
    BY <1>1, <2>1 DEF Idle, Executes, RunsClosure
  <2>3. ran' + tasks_' + d + RunsClosure' <= posted'
    BY <1>1, <1>3, <1>4, <2>1, <2>2
  <2> QED
    BY <1>3, <1>4, <1>5, <2>1, <2>2, <2>3 DEF ClosuresCounted, EventsPayForTasks, d
<1> QED
  BY <1>6, <1>7, <1>8

\* The accounts hold after every step: what neither posts nor runs a closure leaves them alone,
\* and clearing the handler empties them.
LEMMA AccountsStep ==
  ASSUME IInv, [Next]_vars
  PROVE  ClosuresCounted' /\ EventsPayForTasks'
<1>0. running \in Runs /\ RunningOK
  BY DEF IInv, RunningOK
<1>1. ASSUME UNCHANGED <<tasks_, delayed_tasks_, cleared, event_, poster, posted, ran>>,
             stop' = "no" <=> stop = "no",
             running'.what = running.what, running'.at = running.at, running'.data = running.data
      PROVE  ClosuresCounted' /\ EventsPayForTasks'
  <2>1. /\ Notifiers' = Notifiers /\ RunsClosure' = RunsClosure /\ AlarmNotifies' = AlarmNotifies
        /\ Executes("handler", "begin")' => Executes("handler", "begin")
    BY <1>1 DEF Notifiers, RunsClosure, AlarmNotifies, Executes
  <2> QED
    BY <1>1, <2>1, AccountsKept
<1>2. ASSUME UNCHANGED <<tasks_, delayed_tasks_, cleared, event_, poster, posted, ran>>,
             stop' = stop,
             ~Executes("handler", "run"), ~Executes("handler", "run")',
             ~Executes("alarm", "notify"), ~Executes("alarm", "notify")',
             Executes("handler", "begin")' => event_ > 0
      PROVE  ClosuresCounted' /\ EventsPayForTasks'
  <2>1. Notifiers' = Notifiers /\ RunsClosure' = RunsClosure /\ AlarmNotifies' = AlarmNotifies
    BY <1>2 DEF Notifiers, RunsClosure, AlarmNotifies
  <2> QED
    BY <1>2, <2>1, AccountsKept
<1>3. ASSUME NEW r \in Reactables, Begin(r)
      PROVE  ClosuresCounted' /\ EventsPayForTasks'
  <2>1. /\ UNCHANGED <<tasks_, delayed_tasks_, cleared, event_, poster, posted, ran>>
        /\ stop' = stop /\ running = Idle
        /\ r = "handler" => event_ > 0
    BY <1>3 DEF Begin, Ready, Ends, moduleVars
  <2>2. running'.what = r /\ running'.at = "begin"
    BY <1>3 DEF Begin
  <2> QED
    BY <1>2, <2>1, <2>2 DEF Executes, Idle
<1>4. CASE RescheduleAfterEvent \/ EnqueueCallbackInternal \/ Route
  <2>1. /\ UNCHANGED <<tasks_, delayed_tasks_, cleared, event_, poster, posted, ran>>
        /\ stop' = stop
        /\ ~Executes("handler", "run") /\ ~Executes("alarm", "notify")
        /\ running' = Idle \/ running' = running
        /\ running.what # "handler"
    BY <1>4
    DEF RescheduleAfterEvent, EnqueueCallbackInternal, Route, Executes, handlerVars, moduleVars
  <2>2. /\ ~Executes("handler", "run")' /\ ~Executes("alarm", "notify")'
        /\ ~Executes("handler", "begin")'
    BY <2>1 DEF Executes, Idle
  <2> QED
    BY <1>2, <2>1, <2>2
<1>5. CASE EnqueueCallback \/ TryDequeue
  <2>1. /\ UNCHANGED <<tasks_, delayed_tasks_, cleared, event_, poster, posted, ran>>
        /\ stop' = stop /\ running.what \in Ends
    BY <1>5 DEF EnqueueCallback, TryDequeue, Executes, handlerVars, moduleVars, Ends
  <2>2. running'.what = running.what
    <3>1. \/ running' = running
          \/ \E at, data : \/ running' = [running EXCEPT !.at = at, !.data = data]
                           \/ running' = [Removed("enqueue") EXCEPT !.at = at, !.data = data]
      BY <1>5 DEF EnqueueCallback, TryDequeue, Proceed
    <3>2. Removed("enqueue") \in Runs /\ Removed("enqueue").what = running.what
      BY <1>0, RemovedFacts
    <3> QED
      BY <1>0, <3>1, <3>2 DEF Runs
  <2> QED
    BY <1>2, <2>1, <2>2 DEF Executes, Ends
<1>6. CASE Enqueue \/ Tick \/ UNCHANGED vars
  <2>1. /\ UNCHANGED <<tasks_, delayed_tasks_, cleared, event_, poster, posted, ran>>
        /\ stop' = stop /\ running' = running
    BY <1>6 DEF Enqueue, Tick, vars, handlerVars, moduleVars
  <2> QED
    BY <1>1, <2>1
<1>7. CASE WaitUntilStopped \/ DestroyConsumers \/ LifeCycleStop \/ BufferClear \/ BufferCleared
             \/ UnregisterDequeue \/ DequeueUnregistered \/ DestroyQueue
  <2>1. /\ UNCHANGED <<tasks_, delayed_tasks_, cleared, event_, poster, posted, ran>>
        /\ stop' # "no" /\ stop # "no"
    BY <1>7
    DEF WaitUntilStopped, DestroyConsumers, LifeCycleStop, BufferClear, BufferCleared,
        UnregisterDequeue, DequeueUnregistered, DestroyQueue, handlerVars
  <2>2. running' = running \/ running' = Removed("enqueue") \/ running' = Removed("dequeue")
    BY <1>7
    DEF WaitUntilStopped, DestroyConsumers, LifeCycleStop, BufferClear, BufferCleared,
        UnregisterDequeue, DequeueUnregistered, DestroyQueue
  <2>3. running'.what = running.what /\ running'.at = running.at /\ running'.data = running.data
    BY <1>0, <2>2, RemovedFacts
  <2> QED
    BY <1>1, <2>1, <2>3
<1>8. CASE HandlerClear \/ AlarmCancel \/ HandlerUnregister
  <2> DEFINE n == Cardinality(Notifiers)
  <2>1. /\ posted \in Nat /\ ran \in Nat /\ event_ \in Nat /\ tasks_ \in Nat
        /\ Cardinality(delayed_tasks_) \in Nat
    BY BoundsAssumption, FS_CardinalityType DEF IInv, TypeOK, ClosuresCounted
  <2>2. /\ RunsClosure \in Nat /\ n \in Nat /\ AlarmNotifies \in Nat
        /\ AboutToNotify = n + AlarmNotifies
    BY AboutToNotifyType DEF RunsClosure, IInv
  <2>3. /\ UNCHANGED <<poster, posted, ran>> /\ cleared' /\ stop' # "no"
        /\ tasks_' = 0 /\ delayed_tasks_' = {} /\ event_' \in {0, event_}
    BY <1>8 DEF HandlerClear, AlarmCancel, HandlerUnregister, IInv, ClosuresCounted
  <2>4. running'.what = running.what /\ running'.at = running.at /\ running'.data = running.data
    BY <1>0, <1>8, RemovedFacts DEF HandlerClear, AlarmCancel, HandlerUnregister
  <2>5. RunsClosure' = RunsClosure /\ AboutToNotify' = AboutToNotify
    BY <2>3, <2>4 DEF RunsClosure, AboutToNotify, Executes
  <2>6. /\ ran + tasks_ + Cardinality(delayed_tasks_) + RunsClosure <= posted
        /\ event_ + AboutToNotify <= posted
    BY DEF IInv, ClosuresCounted
  <2> HIDE DEF n
  <2>7. ran + RunsClosure <= posted /\ 0 + AboutToNotify <= posted
    BY <2>1, <2>2, <2>6
  <2>8. IsFiniteSet({}) /\ Cardinality({}) = 0
    BY FS_EmptySet
  <2>9. ran' + tasks_' + Cardinality(delayed_tasks_') + RunsClosure' <= posted'
    BY <2>1, <2>2, <2>3, <2>5, <2>7, <2>8
  <2>10. event_' + AboutToNotify' <= posted'
    BY <2>3, <2>5, <2>6, <2>7
  <2> QED
    BY <2>3, <2>8, <2>9, <2>10 DEF ClosuresCounted, EventsPayForTasks
<1> QED
  BY <1>3, <1>4, <1>5, <1>6, <1>7, <1>8, PostersAccounts, AlarmAccounts, HandlerAccounts
  DEF Next, StackThreadStep, Stop

-----------------------------------------------------------------------------
(* The alarm                                                                 *)

\* A nonempty set of numbers has a least one.
LEMMA LeastNumber ==
  ASSUME NEW S \in SUBSET Nat, S # {}
  PROVE  \E least \in S : \A other \in S : least <= other
<1>1. PICK least \in S : \A y \in Nat : <<y, least>> \in OpToRel(<, Nat) => y \notin S
  BY NatLessThanWellFounded, WFMin
<1>2. ASSUME NEW other \in S, other < least
      PROVE  FALSE
  BY <1>1, <1>2 DEF OpToRel
<1>3. \A other \in S : least <= other
  BY <1>2
<1> QED
  BY <1>3

EarliestOf(tasks) == LET dues == {task.due : task \in tasks}
                     IN  CHOOSE due \in dues : \A other \in dues : due <= other

\* The earliest time is when one of the closures is due, and none is due before it.
LEMMA EarliestFacts ==
  ASSUME NEW tasks, tasks \subseteq Delayed, tasks # {}
  PROVE  /\ EarliestOf(tasks) \in Nat /\ EarliestOf(tasks) > 0
         /\ \E task \in tasks : EarliestOf(tasks) = task.due
         /\ \A task \in tasks : EarliestOf(tasks) <= task.due
<1> DEFINE dues == {task.due : task \in tasks}
<1>1. \A task \in tasks : task.due \in Nat /\ task.due > 0
  BY BoundsAssumption DEF Delayed
<1>2. dues \in SUBSET Nat /\ dues # {}
  BY <1>1
<1>3. \E least \in dues : \A other \in dues : least <= other
  <2> HIDE DEF dues
  <2> QED
    BY <1>2, LeastNumber
<1>4. EarliestOf(tasks) \in dues /\ \A other \in dues : EarliestOf(tasks) <= other
  BY <1>3 DEF EarliestOf
<1> QED
  BY <1>1, <1>4

\* Whoever reschedules arms the alarm in time.
LEMMA RescheduledInTime ==
  ASSUME IInv, alarm_' = Rescheduled, UNCHANGED <<delayed_tasks_, now>>
  PROVE  AlarmCoversDelayed'
<1>1. CASE delayed_tasks_ = {}
  BY <1>1 DEF AlarmCoversDelayed
<1>2. CASE delayed_tasks_ # {}
  <2>1. ~cleared /\ Earliest \in Nat /\ Earliest > 0 /\ now \in Nat
    <3>1. Earliest = EarliestOf(delayed_tasks_)
      BY DEF Earliest, EarliestOf
    <3> QED
      BY <1>2, <3>1, EarliestFacts DEF IInv, TypeOK, ClosuresCounted
  <2>2. alarm_' = IF Earliest > now THEN Earliest ELSE now + 1
    BY <1>2, <2>1 DEF Rescheduled
  <2>3. Earliest' = Earliest /\ now' = now
    BY DEF Earliest
  <2>4. alarm_' # 0 /\ (alarm_' <= Earliest' \/ alarm_' <= now' + 1)
    BY <2>1, <2>2, <2>3
  <2> QED
    BY <2>4 DEF AlarmCoversDelayed
<1> QED
  BY <1>1, <1>2

\* A delayed closure that is not the first one changes nothing for the alarm.
LEMMA DelayedInTime ==
  ASSUME IInv, NEW p \in Posters, NEW delay \in Delays, PostWithDelay(p, delay)
  PROVE  AlarmCoversDelayed'
<1> DEFINE time_to_run == now + delay
           new == [number |-> posted + 1, due |-> time_to_run]
<1>1. /\ poster \in [Posters -> {"idle", "notify", "reschedule"}]
      /\ delayed_tasks_ \subseteq Delayed /\ now \in Nat /\ alarm_ \in Nat
      /\ delay \in Nat /\ delay > 0
      /\ Earliest = EarliestOf(delayed_tasks_) /\ Earliest' = EarliestOf(delayed_tasks_')
  BY BoundsAssumption DEF IInv, TypeOK, Earliest, EarliestOf
<1>2. CASE delayed_tasks_ = {} \/ Earliest > time_to_run
  <2>1. poster'[p] = "reschedule"
    BY <1>1, <1>2 DEF PostWithDelay
  <2> QED
    BY <2>1 DEF AlarmCoversDelayed
<1>3. CASE ~(delayed_tasks_ = {} \/ Earliest > time_to_run)
  <2>1. /\ delayed_tasks_' = delayed_tasks_ \cup {new} /\ poster'[p] = "idle" /\ poster[p] = "idle"
        /\ alarm_' = alarm_ /\ now' = now /\ running' = running
    BY <1>1, <1>3 DEF PostWithDelay
  <2>2. poster' = [poster EXCEPT ![p] = "idle"]
    BY <1>3 DEF PostWithDelay
  <2>3. (\E q \in Posters : poster[q] = "reschedule") => \E q \in Posters : poster'[q] = "reschedule"
    BY <1>1, <2>1, <2>2
  <2>4. /\ Earliest \in Nat /\ Earliest <= time_to_run
        /\ \A task \in delayed_tasks_ : Earliest <= task.due
    BY <1>1, <1>3, EarliestFacts
  <2>5. new \in Delayed
    BY <1>1, BoundsAssumption DEF PostWithDelay, IInv, TypeOK, Delayed
  <2>6. delayed_tasks_' \subseteq Delayed /\ delayed_tasks_' # {}
    BY <1>1, <2>1, <2>5
  <2>7. PICK task \in delayed_tasks_' : Earliest' = task.due /\ Earliest' \in Nat
    BY <1>1, <2>6, EarliestFacts
  <2>8. task.due >= Earliest
    <3>1. CASE task \in delayed_tasks_
      BY <2>4, <2>7, <3>1
    <3>2. CASE task = new
      BY <2>4, <3>2
    <3> QED
      BY <2>1, <3>1, <3>2
  <2>9. \/ alarm_ # 0 /\ (alarm_ <= Earliest \/ alarm_ <= now + 1)
        \/ running.what = "alarm"
        \/ \E q \in Posters : poster[q] = "reschedule"
    BY <1>3 DEF IInv, NoWakeupLost, AlarmCoversDelayed
  <2>10. CASE alarm_ # 0 /\ alarm_ <= Earliest
    <3>1. alarm_' # 0 /\ alarm_' <= Earliest'
      BY <1>1, <2>1, <2>4, <2>7, <2>8, <2>10
    <3> QED
      BY <3>1 DEF AlarmCoversDelayed
  <2>11. CASE alarm_ # 0 /\ alarm_ <= now + 1
    BY <2>1, <2>11 DEF AlarmCoversDelayed
  <2>12. CASE running.what = "alarm" \/ \E q \in Posters : poster[q] = "reschedule"
    BY <2>1, <2>3, <2>12 DEF AlarmCoversDelayed
  <2> QED
    BY <2>9, <2>10, <2>11, <2>12
<1> QED
  BY <1>2, <1>3

\* The alarm covers the delayed closures after every step.
LEMMA AlarmStep ==
  ASSUME IInv, [Next]_vars
  PROVE  AlarmCoversDelayed'
<1>0. /\ running \in Runs /\ RunningOK /\ AlarmCoversDelayed
      /\ poster \in [Posters -> {"idle", "notify", "reschedule"}]
      /\ now \in Nat /\ alarm_ \in Nat /\ delayed_tasks_ \subseteq Delayed
      /\ cleared => delayed_tasks_ = {}
  BY DEF IInv, RunningOK, NoWakeupLost, TypeOK, ClosuresCounted
<1>1. ASSUME UNCHANGED <<delayed_tasks_, alarm_>>, now' \in Nat, now <= now',
             running.what = "alarm" => running'.what = "alarm",
             \A p \in Posters : poster[p] = "reschedule" => poster'[p] = "reschedule"
      PROVE  AlarmCoversDelayed'
  <2>1. Earliest' = Earliest
    BY <1>1 DEF Earliest
  <2>2. alarm_ <= now + 1 => alarm_' <= now' + 1
    <3>1. \A a, b, c \in Nat : b <= c /\ a <= b + 1 => a <= c + 1
      OBVIOUS
    <3> QED
      BY <1>0, <1>1, <3>1
  <2> QED
    BY <1>0, <1>1, <2>1, <2>2 DEF AlarmCoversDelayed
<1>2. ASSUME NEW p \in Posters, Post(p) \/ Notify(p)
      PROVE  AlarmCoversDelayed'
  <2>1. /\ UNCHANGED <<delayed_tasks_, alarm_, now, running>> /\ poster[p] # "reschedule"
        /\ \E q : poster' = [poster EXCEPT ![p] = q]
    BY <1>2 DEF Post, Notify
  <2> QED
    BY <1>0, <1>1, <2>1
<1>3. ASSUME NEW p \in Posters, RescheduleAfterPost(p) \/ \E delay \in Delays : PostWithDelay(p, delay)
      PROVE  AlarmCoversDelayed'
  BY <1>3, RescheduledInTime, DelayedInTime DEF RescheduleAfterPost
<1>4. CASE RescheduleAfterEvent
  BY <1>4, RescheduledInTime DEF RescheduleAfterEvent
<1>5. CASE \E r \in Reactables : Begin(r)
  <2>1. PICK r \in Reactables : Begin(r)
    BY <1>5
  <2>2. running'.what = r /\ UNCHANGED <<delayed_tasks_, now, poster>> /\ running.what = "none"
    BY <2>1 DEF Begin, Idle
  <2>3. CASE r = "alarm"
    BY <2>2, <2>3 DEF AlarmCoversDelayed
  <2>4. CASE r # "alarm"
    BY <1>0, <1>1, <2>1, <2>2, <2>4 DEF Begin
  <2> QED
    BY <2>3, <2>4
<1>6. CASE HandleDelayedEvent \/ NotifyDelayed
  <2>1. running.what = "alarm"
    BY <1>6 DEF HandleDelayedEvent, NotifyDelayed, Executes
  <2>2. \/ delayed_tasks_' = {}
        \/ \E at, data : running' = [running EXCEPT !.at = at, !.data = data]
    BY <1>0, <1>6 DEF HandleDelayedEvent, NotifyDelayed, Proceed
  <2>3. delayed_tasks_' = {} \/ running'.what = "alarm"
    BY <1>0, <2>1, <2>2 DEF Runs
  <2> QED
    BY <2>3 DEF AlarmCoversDelayed
<1>7. CASE HandleNextEvent \/ RunClosure \/ EnqueueCallback \/ EnqueueCallbackInternal
             \/ TryDequeue \/ Route
  <2>1. running.what # "alarm" /\ UNCHANGED <<delayed_tasks_, alarm_, now, poster>>
    BY <1>7
    DEF HandleNextEvent, RunClosure, EnqueueCallback, EnqueueCallbackInternal, TryDequeue, Route,
        Executes, handlerVars
  <2> QED
    BY <1>0, <1>1, <2>1
<1>8. CASE Enqueue \/ Tick \/ UNCHANGED vars
  <2>1. /\ UNCHANGED <<delayed_tasks_, alarm_, running, poster>>
        /\ now' = now \/ now' = now + 1
    BY <1>8 DEF Enqueue, Tick, vars, handlerVars
  <2> QED
    BY <1>0, <1>1, <2>1
<1>9. CASE HandlerClear \/ AlarmCancel \/ HandlerUnregister
  <2>1. delayed_tasks_' = {}
    BY <1>9 DEF HandlerClear, AlarmCancel, HandlerUnregister, IInv, ClosuresCounted
  <2> QED
    BY <2>1 DEF AlarmCoversDelayed
<1>10. CASE WaitUntilStopped \/ DestroyConsumers \/ LifeCycleStop \/ BufferClear \/ BufferCleared
              \/ UnregisterDequeue \/ DequeueUnregistered \/ DestroyQueue
  <2>1. UNCHANGED <<delayed_tasks_, alarm_, now, poster>>
    BY <1>10
    DEF WaitUntilStopped, DestroyConsumers, LifeCycleStop, BufferClear, BufferCleared,
        UnregisterDequeue, DequeueUnregistered, DestroyQueue, handlerVars
  <2>2. running' = running \/ running' = Removed("enqueue") \/ running' = Removed("dequeue")
    BY <1>10
    DEF WaitUntilStopped, DestroyConsumers, LifeCycleStop, BufferClear, BufferCleared,
        UnregisterDequeue, DequeueUnregistered, DestroyQueue
  <2>3. running'.what = running.what
    BY <1>0, <2>2, RemovedFacts
  <2> QED
    BY <1>0, <1>1, <2>1, <2>3
<1> QED
  BY <1>2, <1>3, <1>4, <1>5, <1>6, <1>7, <1>8, <1>9, <1>10
  DEF Next, StackThreadStep, Stop, FinishPost

-----------------------------------------------------------------------------
(* The queue: its semaphores and the callbacks they admit                    *)

\* The semaphores count the places after every step, and admit a callback only when it can
\* be served: the packet it pushes or takes still has its place when it gets there.
LEMMA SemaphoreStep ==
  ASSUME IInv, [Next]_vars
  PROVE  /\ SemaphoresAgree' /\ CallbacksServed'
         /\ semaphore' \in [Ends -> 0..Capacity]
         /\ queue_' \in Seq(1..MaxPackets)
<1>0. /\ running \in Runs /\ SemaphoresAgree /\ CallbacksServed
      /\ semaphore \in [Ends -> 0..Capacity] /\ Capacity \in Nat
      /\ queue_ \in Seq(1..MaxPackets)
  BY CapacityAssumption DEF IInv, RunningOK, QueueConsistent, TypeOK
<1>1. ASSUME UNCHANGED <<queue_, semaphore>>,
             running'.what = "enqueue" => running.what = "enqueue" \/ semaphore["enqueue"] > 0,
             Executes("dequeue", "begin")' => Executes("dequeue", "begin") \/ semaphore["dequeue"] > 0
      PROVE  /\ SemaphoresAgree' /\ CallbacksServed'
             /\ semaphore' \in [Ends -> 0..Capacity]
             /\ queue_' \in Seq(1..MaxPackets)
  BY <1>0, <1>1 DEF SemaphoresAgree, CallbacksServed
<1>2. ASSUME UNCHANGED <<queue_, semaphore>>, running'.what = running.what, running'.at = running.at
      PROVE  /\ SemaphoresAgree' /\ CallbacksServed'
             /\ semaphore' \in [Ends -> 0..Capacity]
             /\ queue_' \in Seq(1..MaxPackets)
  BY <1>1, <1>2 DEF Executes
<1>3. CASE \E r \in Reactables : Begin(r)
  <2>1. PICK r \in Reactables : Begin(r)
    BY <1>3
  <2>2. /\ running'.what = r /\ UNCHANGED <<queue_, semaphore>>
        /\ r \in Ends => semaphore[r] > 0
    <3>1. running'.what = r /\ UNCHANGED <<queue_, semaphore>> /\ Ready(r)
      BY <2>1 DEF Begin, queueVars
    <3>2. r \in Ends => semaphore[r] > 0
      BY <3>1 DEF Ready, Ends
    <3> QED
      BY <3>1, <3>2
  <2> QED
    BY <1>1, <2>2 DEF Executes, Ends
<1>4. CASE EnqueueCallbackInternal
  <2>1. Executes("enqueue", "push") /\ semaphore["enqueue"] > 0
    BY <1>0, <1>4 DEF EnqueueCallbackInternal, Executes, CallbacksServed
  <2>2. CASE stop = "done"
    BY <1>2, <1>4, <2>2 DEF EnqueueCallbackInternal
  <2>3. CASE stop # "done"
    <3>1. /\ queue_' = Append(queue_, running.data) /\ running' = Idle
          /\ semaphore' = [semaphore EXCEPT !["enqueue"] = @ - 1, !["dequeue"] = @ + 1]
      BY <1>0, <1>4, <2>1, <2>3 DEF EnqueueCallbackInternal
    <3>2. running.data \in 1..MaxPackets
      BY <2>1 DEF IInv, RunningOK, Executes
    <3>3. queue_' \in Seq(1..MaxPackets) /\ Len(queue_') = Len(queue_) + 1 /\ Len(queue_) \in Nat
      BY <1>0, <3>1, <3>2, AppendProperties, LenProperties
    <3>4. /\ semaphore'["enqueue"] = semaphore["enqueue"] - 1
          /\ semaphore'["dequeue"] = semaphore["dequeue"] + 1
          /\ semaphore' = [e \in Ends |-> semaphore'[e]]
      BY <1>0, <3>1 DEF Ends
    <3>5. semaphore["enqueue"] \in Nat /\ semaphore["dequeue"] \in Nat
      BY <1>0 DEF Ends
    <3>6. /\ semaphore["enqueue"] + Len(queue_) = Capacity
          /\ semaphore["dequeue"] = Len(queue_)
      BY <1>0 DEF SemaphoresAgree
    <3>7. /\ semaphore'["enqueue"] + Len(queue_') = Capacity
          /\ semaphore'["dequeue"] = Len(queue_')
      BY <3>3, <3>4, <3>5, <3>6, SMTT(30)
    <3>8. semaphore'["enqueue"] \in 0..Capacity /\ semaphore'["dequeue"] \in 0..Capacity
      BY <1>0, <2>1, <3>3, <3>4, <3>5, <3>6
    <3>9. semaphore' \in [Ends -> 0..Capacity]
      BY <3>4, <3>8 DEF Ends
    <3> QED
      BY <3>1, <3>3, <3>7, <3>9 DEF SemaphoresAgree, CallbacksServed, Executes, Idle
  <2> QED
    BY <2>2, <2>3
<1>5. CASE TryDequeue
  <2>1. Executes("dequeue", "begin") /\ semaphore["dequeue"] > 0
    BY <1>0, <1>5 DEF TryDequeue, CallbacksServed
  <2>2. queue_ # <<>>
    BY <1>0, <2>1, EmptySeq DEF SemaphoresAgree
  <2>3. /\ queue_' = Tail(queue_) /\ running' = GoesOn(running, "route", Head(queue_))
        /\ semaphore' = [semaphore EXCEPT !["enqueue"] = @ + 1, !["dequeue"] = @ - 1]
    BY <1>5, <2>2 DEF TryDequeue, Proceed, GoesOn
  <2>4. /\ queue_' \in Seq(1..MaxPackets) /\ Len(queue_') = Len(queue_) - 1
        /\ Len(queue_) \in Nat /\ Head(queue_) \in 1..MaxPackets
    BY <1>0, <2>2, <2>3, HeadTailProperties, LenProperties
  <2>5. /\ semaphore'["enqueue"] = semaphore["enqueue"] + 1
        /\ semaphore'["dequeue"] = semaphore["dequeue"] - 1
        /\ semaphore' = [e \in Ends |-> semaphore'[e]]
    BY <1>0, <2>3 DEF Ends
  <2>6. semaphore["enqueue"] \in Nat /\ semaphore["dequeue"] \in Nat
    BY <1>0 DEF Ends
  <2>7. /\ semaphore["enqueue"] + Len(queue_) = Capacity
        /\ semaphore["dequeue"] = Len(queue_)
    BY <1>0 DEF SemaphoresAgree
  <2>8. SemaphoresAgree'
    BY <1>0, <2>1, <2>4, <2>5, <2>6, <2>7 DEF SemaphoresAgree
  <2>9. semaphore'["enqueue"] \in 0..Capacity /\ semaphore'["dequeue"] \in 0..Capacity
    BY <1>0, <2>1, <2>4, <2>5, <2>6, <2>7
  <2>10. semaphore' \in [Ends -> 0..Capacity]
    BY <2>5, <2>9 DEF Ends
  <2>11. running'.what = "dequeue" /\ running'.at = "route"
    <3>1. Head(queue_) \in Nat /\ "route" \in Points
      BY <2>4, BoundsAssumption, PointsFacts
    <3> QED
      BY <1>0, <2>1, <2>3, <3>1, GoesOnFacts DEF Executes
  <2> QED
    BY <2>4, <2>8, <2>10, <2>11 DEF CallbacksServed, Executes
<1>6. CASE HandleNextEvent \/ RunClosure \/ HandleDelayedEvent \/ NotifyDelayed
             \/ RescheduleAfterEvent \/ Route \/ EnqueueCallback
  <2>1. /\ UNCHANGED <<queue_, semaphore>> /\ Executes("dequeue", "begin") = FALSE
        /\ EnqueueCallback => running.what = "enqueue"
    BY <1>6
    DEF HandleNextEvent, RunClosure, HandleDelayedEvent, NotifyDelayed, RescheduleAfterEvent,
        Route, EnqueueCallback, Executes, queueVars
  <2>2. running' = running \/ running' = Idle
          \/ \E at \in Points \ {"begin"} : \E data :
                running' = GoesOn(running, at, data) \/ running' = GoesOn(Removed("enqueue"), at, data)
    BY <1>6, <2>1
    DEF HandleNextEvent, RunClosure, HandleDelayedEvent, NotifyDelayed, RescheduleAfterEvent,
        Route, EnqueueCallback, Proceed, Points, GoesOn
  <2>3. Removed("enqueue") \in Runs /\ Removed("enqueue").what = running.what
    BY <1>0, RemovedFacts
  <2>4. /\ running'.what = running.what \/ running'.what = "none"
        /\ running'.at # "begin" \/ running' = running
    <3>1. ASSUME NEW run \in Runs, run.what = running.what,
                 NEW at \in Points \ {"begin"}, NEW data, running' = GoesOn(run, at, data)
          PROVE  running'.what = running.what /\ running'.at # "begin"
      BY <3>1, GoesOnFields
    <3> QED
      BY <1>0, <2>2, <2>3, <3>1 DEF Idle
  <2> QED
    BY <1>1, <2>1, <2>4 DEF Executes
<1>7. CASE (\E p \in Posters : Post(p) \/ FinishPost(p) \/ \E delay \in Delays : PostWithDelay(p, delay))
             \/ Enqueue \/ Tick \/ UNCHANGED vars
  <2>1. UNCHANGED <<queue_, semaphore, running>>
    BY <1>7
    DEF Post, FinishPost, Notify, RescheduleAfterPost, PostWithDelay, Enqueue, Tick, vars, queueVars
  <2> QED
    BY <1>2, <2>1
<1>8. CASE Stop
  <2>1. UNCHANGED <<queue_, semaphore>> /\ (running' = running \/ \E r \in Reactables : running' = Removed(r))
    BY <1>8
    DEF Stop, HandlerClear, AlarmCancel, HandlerUnregister, WaitUntilStopped, DestroyConsumers, LifeCycleStop,
        BufferClear, BufferCleared, UnregisterDequeue, DequeueUnregistered, DestroyQueue, queueVars,
        Reactables, Ends
  <2>2. running'.what = running.what /\ running'.at = running.at
    BY <1>0, <2>1, RemovedFacts
  <2> QED
    BY <1>2, <2>1, <2>2
<1> QED
  BY <1>3, <1>4, <1>5, <1>6, <1>7, <1>8 DEF Next, StackThreadStep

-----------------------------------------------------------------------------
(* The order in which a stop takes the queue down                            *)

\* What the phase of a stop says of the consumer, of mutex_ and of the life cycle.
PhaseOK ==
    /\ life_cycle_stopped <=> stop \in Clearing \cup {"hci_stopped"}
    /\ mutex_ = "stop" <=> stop = "clear_waits"
    /\ stop \in ConsumerGone => ~endpoint["dequeue"] /\ "dequeue" \notin reactables
    /\ stop \notin ConsumerGone => endpoint["dequeue"]

\* What it says of the producer.
ProducerOK ==
    /\ stop \in Clearing =>
         ~enqueue_registered_ /\ ~endpoint["enqueue"] /\ "enqueue" \notin reactables
    /\ stop \in BufferGone => buffer_ = <<>>
    /\ ProducerRegistered

\* What it says of the callback that runs.
CallbackOK ==
    /\ running.what \in Ends /\ running.what \notin reactables => running.removed
    /\ stop \in CallbacksGone => running.what \notin Ends
    /\ fate = "ok" /\ Executes("enqueue", "begin") =>
         buffer_ # <<>> \/ stop \in {"buffer_cleared", "dequeue_waits"}

\* Together they are TakenDown and ProducerRegistered.
LEMMA TakenDownParts ==
  TakenDown /\ ProducerRegistered <=> PhaseOK /\ ProducerOK /\ CallbackOK
BY DEF TakenDown, PhaseOK, ProducerOK, CallbackOK

\* Steps outside a stop do not touch the consumer's registration, mutex_ or the life cycle.
LEMMA PhaseStep ==
  ASSUME IInv, [Next]_vars
  PROVE  PhaseOK' /\ endpoint' \in [Ends -> BOOLEAN] /\ reactables' \subseteq Reactables
<1>0. PhaseOK /\ ProducerOK /\ endpoint \in [Ends -> BOOLEAN] /\ reactables \subseteq Reactables
  BY TakenDownParts DEF IInv, QueueConsistent, TypeOK
<1>1. ASSUME UNCHANGED <<life_cycle_stopped, mutex_, stop>>, endpoint' \in [Ends -> BOOLEAN],
             endpoint'["dequeue"] = endpoint["dequeue"],
             reactables' \subseteq reactables \cup {"enqueue"}
      PROVE  PhaseOK' /\ endpoint' \in [Ends -> BOOLEAN] /\ reactables' \subseteq Reactables
  BY <1>0, <1>1 DEF PhaseOK, Reactables, Ends
<1>2. CASE Enqueue
  <2>1. /\ UNCHANGED <<life_cycle_stopped, mutex_, stop>>
        /\ endpoint' = endpoint \/ endpoint' = [endpoint EXCEPT !["enqueue"] = TRUE]
        /\ reactables' = reactables \/ reactables' = reactables \cup {"enqueue"}
    BY <1>2 DEF Enqueue
  <2> QED
    BY <1>0, <1>1, <2>1 DEF Ends
<1>3. CASE EnqueueCallback
  <2>1. /\ UNCHANGED <<life_cycle_stopped, mutex_, stop>>
        /\ endpoint' = endpoint \/ endpoint' = [endpoint EXCEPT !["enqueue"] = FALSE]
        /\ reactables' = reactables \/ reactables' = reactables \ {"enqueue"}
    BY <1>3 DEF EnqueueCallback, moduleVars
  <2> QED
    BY <1>0, <1>1, <2>1 DEF Ends
<1>4. CASE \/ \E p \in Posters : Post(p) \/ FinishPost(p) \/ \E delay \in Delays : PostWithDelay(p, delay)
           \/ Tick \/ UNCHANGED vars
  <2>1. UNCHANGED <<life_cycle_stopped, mutex_, stop, endpoint, reactables>>
    BY <1>4
    DEF Post, FinishPost, Notify, RescheduleAfterPost, PostWithDelay, Tick, vars, queueVars, moduleVars
  <2> QED
    BY <1>0, <1>1, <2>1
<1>5. CASE (\E r \in Reactables : Begin(r)) \/ HandleNextEvent \/ RunClosure \/ HandleDelayedEvent
             \/ NotifyDelayed \/ RescheduleAfterEvent \/ EnqueueCallbackInternal \/ TryDequeue \/ Route
  <2>1. UNCHANGED <<life_cycle_stopped, mutex_, stop, endpoint, reactables>>
    BY <1>5
    DEF Begin, HandleNextEvent, RunClosure, HandleDelayedEvent, NotifyDelayed, RescheduleAfterEvent,
        EnqueueCallbackInternal, TryDequeue, Route, queueVars, moduleVars
  <2> QED
    BY <1>0, <1>1, <2>1
<1>6. CASE HandlerClear \/ AlarmCancel \/ HandlerUnregister \/ WaitUntilStopped \/ DestroyConsumers
  <2>1. /\ UNCHANGED <<life_cycle_stopped, mutex_, endpoint>> /\ reactables' \subseteq reactables
        /\ stop \notin Clearing \cup {"hci_stopped"} /\ stop' \notin Clearing \cup {"hci_stopped"}
    BY <1>6
    DEF HandlerClear, AlarmCancel, HandlerUnregister, WaitUntilStopped, DestroyConsumers, queueVars, Clearing
  <2> QED
    BY <1>0, <2>1 DEF PhaseOK, Clearing, ConsumerGone
<1>7. CASE LifeCycleStop
  BY <1>0, <1>7 DEF LifeCycleStop, PhaseOK, Clearing, ConsumerGone, queueVars
<1>8. CASE BufferClear
  <2>1. /\ stop = "hci_stopped" /\ mutex_ = "free" /\ life_cycle_stopped' = life_cycle_stopped
        /\ \/ mutex_' = "stop" /\ stop' = "clear_waits"
           \/ mutex_' = mutex_ /\ stop' = "buffer_cleared"
        /\ endpoint' = endpoint \/ endpoint' = [endpoint EXCEPT !["enqueue"] = FALSE]
        /\ reactables' = reactables \/ reactables' = reactables \ {"enqueue"}
    BY <1>8 DEF BufferClear
  <2>2. endpoint' \in [Ends -> BOOLEAN] /\ endpoint'["dequeue"] = endpoint["dequeue"]
    BY <1>0, <2>1 DEF Ends
  <2> QED
    BY <1>0, <2>1, <2>2 DEF PhaseOK, Clearing, ConsumerGone
<1>9. CASE BufferCleared
  BY <1>0, <1>9 DEF BufferCleared, PhaseOK, Clearing, ConsumerGone
<1>10. CASE UnregisterDequeue
  BY <1>0, <1>10 DEF UnregisterDequeue, PhaseOK, Clearing, ConsumerGone, Ends
<1>11. CASE DequeueUnregistered \/ DestroyQueue
  BY <1>0, <1>11 DEF DequeueUnregistered, DestroyQueue, PhaseOK, Clearing, ConsumerGone, queueVars
<1> QED
  BY <1>2, <1>3, <1>4, <1>5, <1>6, <1>7, <1>8, <1>9, <1>10, <1>11 DEF Next, StackThreadStep, Stop

\* The producer stays registered exactly while the buffer holds a packet.
LEMMA ProducerStep ==
  ASSUME IInv, [Next]_vars
  PROVE  /\ ProducerOK'
         /\ buffer_' \in Seq(1..MaxPackets)
         /\ enqueue_registered_' \in BOOLEAN
         /\ mutex_' \in {"free", "stop"}
<1>0. /\ PhaseOK /\ ProducerOK /\ CallbackOK /\ endpoint \in [Ends -> BOOLEAN]
      /\ buffer_ \in Seq(1..MaxPackets) /\ mutex_ \in {"free", "stop"} /\ enqueue_registered_ \in BOOLEAN
      /\ arrived \in 0..MaxPackets /\ MaxPackets \in Nat
  BY TakenDownParts, BoundsAssumption DEF IInv, QueueConsistent, TypeOK
<1>1. ASSUME UNCHANGED <<buffer_, enqueue_registered_, mutex_>>,
             endpoint'["enqueue"] = endpoint["enqueue"],
             "enqueue" \in reactables' <=> "enqueue" \in reactables,
             stop' \in Clearing <=> stop \in Clearing,
             stop' \in BufferGone <=> stop \in BufferGone,
             fate' = "ok" => fate = "ok"
      PROVE  /\ ProducerOK' /\ buffer_' \in Seq(1..MaxPackets)
             /\ enqueue_registered_' \in BOOLEAN /\ mutex_' \in {"free", "stop"}
  BY <1>0, <1>1 DEF ProducerOK, ProducerRegistered
<1>2. CASE Enqueue
  <2>1. /\ buffer_' = Append(buffer_, arrived + 1) /\ enqueue_registered_'
        /\ mutex_' = mutex_ /\ mutex_ = "free" /\ fate = "ok"
        /\ stop' = stop /\ ~life_cycle_stopped
        /\ \/ enqueue_registered_ /\ UNCHANGED <<endpoint, reactables>>
           \/ fate' # "ok"
           \/ /\ endpoint' = [endpoint EXCEPT !["enqueue"] = TRUE]
              /\ reactables' = reactables \cup {"enqueue"}
    BY <1>2 DEF Enqueue, Ok, Fail
  <2>2. arrived + 1 \in 1..MaxPackets
    BY <1>0, <1>2 DEF Enqueue
  <2>3. buffer_' \in Seq(1..MaxPackets) /\ buffer_' # <<>>
    BY <1>0, <2>1, <2>2, AppendProperties
  <2>4. stop' \notin Clearing /\ stop' \notin BufferGone
    BY <1>0, <2>1 DEF PhaseOK, BufferGone
  <2>5. fate' = "ok" => endpoint'["enqueue"] /\ "enqueue" \in reactables'
    BY <1>0, <2>1 DEF ProducerOK, ProducerRegistered, Ends
  <2> QED
    BY <1>0, <2>1, <2>3, <2>4, <2>5 DEF ProducerOK, ProducerRegistered
<1>3. CASE EnqueueCallback
  <2>1. CASE buffer_ = <<>>
    <3>1. /\ UNCHANGED <<buffer_, enqueue_registered_, endpoint, reactables, mutex_, stop>>
          /\ fate' # "ok"
      BY <1>3, <2>1 DEF EnqueueCallback, Fail, moduleVars
    <3> QED
      BY <1>1, <3>1
  <2>2. CASE buffer_ # <<>>
    <3>1. /\ mutex_ = "free" /\ mutex_' = mutex_ /\ stop' = stop /\ fate = "ok"
          /\ buffer_' = Tail(buffer_)
      BY <1>3, <2>2 DEF EnqueueCallback, moduleVars, Ok
    <3>2. /\ enqueue_registered_ /\ endpoint["enqueue"] /\ "enqueue" \in reactables
          /\ stop \notin Clearing /\ stop \notin BufferGone
      BY <1>0, <2>2, <3>1 DEF ProducerOK, ProducerRegistered, BufferGone
    <3>3. buffer_' \in Seq(1..MaxPackets)
      BY <1>0, <2>2, <3>1, HeadTailProperties
    <3>4. CASE buffer_' = <<>>
      <4>1. /\ enqueue_registered_' = FALSE /\ "enqueue" \notin reactables'
            /\ endpoint' = [endpoint EXCEPT !["enqueue"] = FALSE]
        BY <1>3, <2>2, <3>1, <3>2, <3>4 DEF EnqueueCallback
      <4> QED
        BY <1>0, <3>1, <3>2, <3>3, <3>4, <4>1 DEF ProducerOK, ProducerRegistered, Ends
    <3>5. CASE buffer_' # <<>>
      <4>1. UNCHANGED <<enqueue_registered_, endpoint, reactables>>
        BY <1>3, <2>2, <3>1, <3>2, <3>5 DEF EnqueueCallback
      <4> QED
        BY <1>0, <3>1, <3>2, <3>3, <3>5, <4>1 DEF ProducerOK, ProducerRegistered
    <3> QED
      BY <3>4, <3>5
  <2> QED
    BY <2>1, <2>2
<1>4. CASE \/ \E p \in Posters : Post(p) \/ FinishPost(p) \/ \E delay \in Delays : PostWithDelay(p, delay)
           \/ Tick \/ UNCHANGED vars
  <2>1. UNCHANGED <<buffer_, enqueue_registered_, mutex_, stop, endpoint, reactables>>
    BY <1>4
    DEF Post, FinishPost, Notify, RescheduleAfterPost, PostWithDelay, Tick, vars, queueVars, moduleVars
  <2>2. fate' = "ok" => fate = "ok"
    BY <1>4 DEF Post, FinishPost, Notify, RescheduleAfterPost, PostWithDelay, Tick, vars, Ok
  <2> QED
    BY <1>1, <2>1, <2>2
<1>5. CASE (\E r \in Reactables : Begin(r)) \/ HandleNextEvent \/ RunClosure \/ HandleDelayedEvent
             \/ NotifyDelayed \/ RescheduleAfterEvent \/ EnqueueCallbackInternal \/ TryDequeue \/ Route
  <2>1. /\ UNCHANGED <<buffer_, enqueue_registered_, mutex_, stop, endpoint, reactables>>
        /\ fate = "ok"
    BY <1>5
    DEF Begin, HandleNextEvent, RunClosure, HandleDelayedEvent, NotifyDelayed, RescheduleAfterEvent,
        EnqueueCallbackInternal, TryDequeue, Route, queueVars, moduleVars, Ok
  <2> QED
    BY <1>1, <2>1
<1>6. CASE HandlerClear \/ AlarmCancel \/ HandlerUnregister \/ WaitUntilStopped
             \/ DestroyConsumers \/ LifeCycleStop
  <2>1. /\ UNCHANGED <<buffer_, enqueue_registered_, mutex_, endpoint>> /\ fate = "ok"
        /\ \E r \in {"alarm", "handler"} : reactables' = reactables \ {r} \/ reactables' = reactables
        /\ stop \notin Clearing /\ stop' \notin Clearing
    BY <1>6
    DEF HandlerClear, AlarmCancel, HandlerUnregister, WaitUntilStopped, DestroyConsumers, LifeCycleStop,
        queueVars, Clearing, Ok
  <2> QED
    BY <1>1, <2>1 DEF BufferGone
<1>7. CASE BufferClear
  <2>1. stop = "hci_stopped" /\ mutex_ = "free" /\ buffer_' = buffer_ /\ fate = "ok"
    BY <1>7 DEF BufferClear, Ok
  <2>2. CASE enqueue_registered_
    <3>1. /\ enqueue_registered_' = FALSE /\ mutex_' = "stop" /\ stop' = "clear_waits"
          /\ endpoint' = [endpoint EXCEPT !["enqueue"] = FALSE] /\ "enqueue" \notin reactables'
      BY <1>7, <2>2 DEF BufferClear
    <3>2. stop' \notin BufferGone
      BY <3>1 DEF BufferGone
    <3> QED
      BY <1>0, <2>1, <3>1, <3>2 DEF ProducerOK, ProducerRegistered, Ends
  <2>3. CASE ~enqueue_registered_
    <3>1. UNCHANGED <<enqueue_registered_, mutex_, endpoint, reactables>>
      BY <1>7, <2>3 DEF BufferClear
    <3> QED
      BY <1>0, <2>1, <2>3, <3>1 DEF ProducerOK, ProducerRegistered
  <2> QED
    BY <2>2, <2>3
<1>8. CASE BufferCleared
  <2>1. /\ stop = "clear_waits" /\ buffer_' = <<>> /\ mutex_' = "free" /\ stop' = "buffer_cleared"
        /\ UNCHANGED <<enqueue_registered_, endpoint, reactables>>
    BY <1>8 DEF BufferCleared
  <2>2. stop \in Clearing
    BY <2>1 DEF Clearing
  <2> QED
    BY <1>0, <2>1, <2>2 DEF ProducerOK, ProducerRegistered
<1>9. CASE UnregisterDequeue \/ DequeueUnregistered \/ DestroyQueue
  <2>1. /\ UNCHANGED <<buffer_, enqueue_registered_, mutex_>> /\ fate = "ok"
        /\ endpoint' = endpoint \/ endpoint' = [endpoint EXCEPT !["dequeue"] = FALSE]
        /\ reactables' = reactables \/ reactables' = reactables \ {"dequeue"}
        /\ stop \in Clearing /\ stop' \in Clearing /\ stop \in BufferGone /\ stop' \in BufferGone
    BY <1>9
    DEF UnregisterDequeue, DequeueUnregistered, DestroyQueue, Clearing, BufferGone, queueVars, Ok
  <2> QED
    BY <1>0, <1>1, <2>1 DEF Ends
<1> QED
  BY <1>2, <1>3, <1>4, <1>5, <1>6, <1>7, <1>8, <1>9 DEF Next, StackThreadStep, Stop

\* A callback of the queue that runs on after its reactable is gone is marked, so the stop
\* waits for it, unless the callback waits for the mutex_ that the stop holds.
LEMMA CallbackStep ==
  ASSUME IInv, [Next]_vars
  PROVE  CallbackOK'
<1>0. /\ PhaseOK /\ ProducerOK /\ CallbackOK /\ running \in Runs
      /\ buffer_ \in Seq(1..MaxPackets) /\ mutex_ \in {"free", "stop"}
  BY TakenDownParts DEF IInv, QueueConsistent, TypeOK, RunningOK
<1>1. ASSUME running'.what = running.what, running'.at = running.at,
             running.removed => running'.removed,
             UNCHANGED <<reactables, stop, buffer_>>, fate = "ok"
      PROVE  CallbackOK'
  BY <1>0, <1>1 DEF CallbackOK, Executes
<1>2. ASSUME running'.what \notin Ends
      PROVE  CallbackOK'
  BY <1>2 DEF CallbackOK, Executes, Ends
<1>3. ASSUME NEW r \in Reactables, Begin(r)
      PROVE  CallbackOK'
  <2>1. /\ running'.what = r /\ r \in reactables /\ UNCHANGED <<reactables, stop, buffer_>>
        /\ fate = "ok"
    BY <1>3 DEF Begin, queueVars, moduleVars, Ok
  <2>2. r = "enqueue" => stop \notin Clearing /\ buffer_ # <<>>
    <3>1. r = "enqueue" => stop \notin Clearing
      BY <1>0, <2>1 DEF ProducerOK
    <3>2. r = "enqueue" => mutex_ = "free"
      BY <1>0, <3>1 DEF PhaseOK, Clearing
    <3> QED
      BY <1>0, <2>1, <3>1, <3>2 DEF ProducerOK, ProducerRegistered
  <2>3. r = "dequeue" => stop \notin CallbacksGone
    BY <1>0, <2>1 DEF PhaseOK, CallbacksGone, ConsumerGone
  <2>4. stop \in CallbacksGone => r \notin Ends
    BY <2>2, <2>3 DEF CallbacksGone, Clearing, Ends
  <2> QED
    BY <2>1, <2>2, <2>4 DEF CallbackOK, Executes
<1>4. CASE HandleNextEvent \/ RunClosure \/ HandleDelayedEvent \/ NotifyDelayed \/ RescheduleAfterEvent
  <2>1. running.what \notin Ends
    BY <1>4
    DEF HandleNextEvent, RunClosure, HandleDelayedEvent, NotifyDelayed, RescheduleAfterEvent,
        Executes, Ends
  <2>2. running' = running \/ running' = Idle \/ \E at, data : running' = GoesOn(running, at, data)
    BY <1>4
    DEF HandleNextEvent, RunClosure, HandleDelayedEvent, NotifyDelayed, RescheduleAfterEvent,
        Proceed, GoesOn
  <2>3. running'.what \notin Ends
    BY <1>0, <2>1, <2>2, GoesOnFields DEF Idle, Ends
  <2> QED
    BY <1>2, <2>3
<1>5. CASE EnqueueCallbackInternal \/ Route \/ TryDequeue
  <2>1. UNCHANGED <<reactables, stop, buffer_>> /\ fate = "ok"
    BY <1>5 DEF EnqueueCallbackInternal, Route, TryDequeue, moduleVars, queueVars, Ok
  <2>2. running' = running \/ running' = Idle \/ running' = GoesOn(running, "route", Head(queue_))
    BY <1>5 DEF EnqueueCallbackInternal, Route, TryDequeue, Proceed, GoesOn
  <2>3. CASE running' = running
    BY <1>1, <2>1, <2>3
  <2>4. CASE running' = Idle
    BY <1>2, <2>4 DEF Idle, Ends
  <2>5. CASE running' = GoesOn(running, "route", Head(queue_))
    <3>1. /\ running'.what = running.what /\ running'.at = "route"
          /\ running'.removed = running.removed
      BY <1>0, <2>5, GoesOnFields
    <3> QED
      BY <1>0, <2>1, <3>1 DEF CallbackOK, Executes
  <2> QED
    BY <2>2, <2>3, <2>4, <2>5
<1>6. CASE EnqueueCallback
  <2>1. running.what = "enqueue" /\ stop' = stop /\ fate = "ok"
    BY <1>6 DEF EnqueueCallback, Executes, moduleVars, Ok
  <2>2. CASE buffer_ = <<>>
    BY <1>1, <1>6, <2>1, <2>2 DEF EnqueueCallback
  <2>3. CASE buffer_ # <<>>
    <3>1. stop \notin CallbacksGone
      BY <1>0, <2>1 DEF CallbackOK, Ends
    <3>2. \/ running' = GoesOn(running, "push", Head(buffer_)) /\ reactables' = reactables
          \/ running' = GoesOn(Removed("enqueue"), "push", Head(buffer_))
      BY <1>6, <2>3 DEF EnqueueCallback, Proceed, GoesOn
    <3>3. /\ Removed("enqueue") \in Runs /\ Removed("enqueue").what = running.what
          /\ Removed("enqueue").removed = TRUE
      BY <1>0, <2>1, RemovedFacts
    <3>4. /\ running'.what = running.what /\ running'.at = "push"
          /\ \/ running'.removed = running.removed /\ reactables' = reactables
             \/ running'.removed = TRUE
      BY <1>0, <3>2, <3>3, GoesOnFields
    <3> QED
      BY <1>0, <2>1, <3>1, <3>4 DEF CallbackOK, Executes
  <2> QED
    BY <2>2, <2>3
<1>7. CASE Enqueue
  <2>1. /\ buffer_' = Append(buffer_, arrived + 1) /\ running' = running /\ stop' = stop
        /\ reactables \subseteq reactables' /\ fate = "ok"
    BY <1>7 DEF Enqueue, Ok
  <2>2. buffer_' # <<>>
    <3>1. buffer_ \in Seq(Nat) /\ arrived + 1 \in Nat
      BY <1>0, BoundsAssumption DEF IInv, TypeOK
    <3> QED
      BY <2>1, <3>1, AppendProperties
  <2> QED
    BY <1>0, <2>1, <2>2 DEF CallbackOK, Executes
<1>8. CASE UNCHANGED vars
  BY <1>0, <1>8 DEF vars, queueVars, moduleVars, CallbackOK, Executes
<1>9. CASE \/ \E p \in Posters : Post(p) \/ FinishPost(p) \/ \E delay \in Delays : PostWithDelay(p, delay)
           \/ Tick
  <2>1. UNCHANGED <<running, reactables, stop, buffer_>> /\ fate = "ok"
    BY <1>9
    DEF Post, FinishPost, Notify, RescheduleAfterPost, PostWithDelay, Tick, queueVars, moduleVars, Ok
  <2> QED
    BY <1>1, <2>1
<1>10. CASE Stop
  <2>1. fate = "ok"
    BY <1>10
    DEF Stop, HandlerClear, AlarmCancel, HandlerUnregister, WaitUntilStopped, DestroyConsumers, LifeCycleStop,
        BufferClear, BufferCleared, UnregisterDequeue, DequeueUnregistered, DestroyQueue, Ok
  <2>2. ASSUME NEW r \in Reactables, running' = Removed(r), reactables' = reactables \ {r},
               stop' \notin CallbacksGone, buffer_' = buffer_,
               stop \in {"buffer_cleared", "dequeue_waits"} => stop' \in {"buffer_cleared", "dequeue_waits"}
        PROVE  CallbackOK'
    <3>1. /\ running'.what = running.what /\ running'.at = running.at
          /\ running.what = r => running'.removed
          /\ running.what # r => running' = running
      BY <1>0, <2>2, RemovedFacts
    <3> QED
      BY <1>0, <2>1, <2>2, <3>1 DEF CallbackOK, Executes
  <2>3. CASE AlarmCancel \/ HandlerUnregister \/ UnregisterDequeue
    <3>1. /\ \E r \in Reactables : running' = Removed(r) /\ reactables' = reactables \ {r}
          /\ stop' \notin CallbacksGone /\ buffer_' = buffer_
          /\ stop \in {"buffer_cleared", "dequeue_waits"} => stop' \in {"buffer_cleared", "dequeue_waits"}
      BY <2>3
      DEF AlarmCancel, HandlerUnregister, UnregisterDequeue, Reactables, Ends, CallbacksGone, queueVars
    <3> QED
      BY <2>2, <3>1
  <2>4. CASE HandlerClear \/ WaitUntilStopped \/ DestroyConsumers \/ LifeCycleStop
    <3>1. /\ UNCHANGED <<running, reactables, buffer_>>
          /\ stop' \notin CallbacksGone /\ stop \notin {"buffer_cleared", "dequeue_waits"}
      BY <2>4 DEF HandlerClear, WaitUntilStopped, DestroyConsumers, LifeCycleStop, CallbacksGone, queueVars
    <3> QED
      BY <1>0, <2>1, <3>1 DEF CallbackOK, Executes
  <2>5. CASE BufferClear
    <3>1. /\ \/ running' = Removed("enqueue") /\ reactables' = reactables \ {"enqueue"}
             \/ UNCHANGED <<running, reactables>>
          /\ stop = "hci_stopped" /\ buffer_' = buffer_ /\ stop' \notin CallbacksGone
      BY <2>5 DEF BufferClear, CallbacksGone
    <3>2. CASE UNCHANGED <<running, reactables>>
      BY <1>0, <2>1, <3>1, <3>2 DEF CallbackOK, Executes
    <3>3. CASE running' = Removed("enqueue") /\ reactables' = reactables \ {"enqueue"}
      BY <2>2, <3>1, <3>3 DEF Reactables, Ends
    <3> QED
      BY <3>1, <3>2, <3>3
  <2>6. CASE BufferCleared
    <3>1. UNCHANGED <<running, reactables>> /\ stop' = "buffer_cleared"
      BY <2>6 DEF BufferCleared
    <3> QED
      BY <1>0, <3>1 DEF CallbackOK, Executes, CallbacksGone
  <2>7. CASE DequeueUnregistered
    <3>1. ~running.removed /\ UNCHANGED <<running, reactables>> /\ stop = "dequeue_waits"
      BY <2>7 DEF DequeueUnregistered, Finished
    <3>2. "enqueue" \notin reactables /\ "dequeue" \notin reactables
      BY <1>0, <3>1 DEF PhaseOK, ProducerOK, Clearing, ConsumerGone
    <3>3. running.what \notin Ends
      BY <1>0, <3>1, <3>2 DEF CallbackOK, Ends
    <3> QED
      BY <1>2, <3>1, <3>3
  <2>8. CASE DestroyQueue
    <3>1. running' = running /\ stop = "dequeue_unregistered"
      BY <2>8 DEF DestroyQueue
    <3>2. running.what \notin Ends
      BY <1>0, <3>1 DEF CallbackOK, CallbacksGone
    <3> QED
      BY <1>2, <3>1, <3>2
  <2> QED
    BY <1>10, <2>3, <2>4, <2>5, <2>6, <2>7, <2>8 DEF Stop
<1> QED
  BY <1>3, <1>4, <1>5, <1>6, <1>7, <1>8, <1>9, <1>10 DEF Next, StackThreadStep

-----------------------------------------------------------------------------
(* The packets                                                               *)

\* Taking the head of a sequence into a hand that comes before it changes no order.
LEMMA TakeHead ==
  ASSUME NEW S, NEW before \in Seq(S), NEW s \in Seq(S), s # <<>>
  PROVE  before \o <<>> \o s = before \o <<Head(s)>> \o Tail(s)
<1>1. s = <<Head(s)>> \o Tail(s)
  <2>1. Head(s) \in S /\ Tail(s) \in Seq(S) /\ Len(Tail(s)) = Len(s) - 1 /\ Len(s) \in Nat /\ Len(s) > 0
        /\ \A i \in 1..Len(Tail(s)) : Tail(s)[i] = s[i + 1]
    BY HeadTailProperties, EmptySeq, LenProperties
  <2>2. <<Head(s)>> \in Seq(S) /\ Len(<<Head(s)>>) = 1 /\ <<Head(s)>>[1] = Head(s) /\ Head(s) = s[1]
    BY <2>1
  <2>3. /\ <<Head(s)>> \o Tail(s) \in Seq(S)
        /\ Len(<<Head(s)>> \o Tail(s)) = Len(<<Head(s)>>) + Len(Tail(s))
        /\ \A i \in 1..(Len(<<Head(s)>>) + Len(Tail(s))) :
             (<<Head(s)>> \o Tail(s))[i] = IF i <= Len(<<Head(s)>>) THEN <<Head(s)>>[i]
                                          ELSE Tail(s)[i - Len(<<Head(s)>>)]
    BY <2>1, <2>2, ConcatProperties
  <2>4. Len(<<Head(s)>> \o Tail(s)) = Len(s)
    BY <2>1, <2>2, <2>3
  <2>5. ASSUME NEW i \in 1..Len(s)
        PROVE  (<<Head(s)>> \o Tail(s))[i] = s[i]
    <3>1. CASE i = 1
      BY <2>1, <2>2, <2>3, <3>1
    <3>2. CASE i # 1
      <4>1. i - 1 \in 1..Len(Tail(s)) /\ i \in 1..(Len(<<Head(s)>>) + Len(Tail(s))) /\ ~(i <= 1)
        BY <2>1, <2>2, <3>2
      <4>2. (<<Head(s)>> \o Tail(s))[i] = Tail(s)[i - 1]
        BY <2>2, <2>3, <4>1
      <4>3. Tail(s)[i - 1] = s[(i - 1) + 1] /\ (i - 1) + 1 = i
        BY <2>1, <4>1
      <4> QED
        BY <4>2, <4>3
    <3> QED
      BY <3>1, <3>2
  <2> QED
    BY <2>3, <2>4, <2>5, SeqEqual
<1>2. before \o <<>> = before
  BY ConcatEmptySeq
<1>3. Head(s) \in S /\ Tail(s) \in Seq(S) /\ <<Head(s)>> \in Seq(S)
  BY HeadTailProperties
<1>4. before \o <<Head(s)>> \o Tail(s) = before \o (<<Head(s)>> \o Tail(s))
  BY <1>3, ConcatAssociative
<1> QED
  BY <1>1, <1>2, <1>4

\* Nor does putting what is in the hand at the end of what comes before it.
LEMMA PutLast ==
  ASSUME NEW S, NEW before \in Seq(S), NEW s \in Seq(S), NEW x \in S
  PROVE  before \o s \o <<x>> = before \o Append(s, x) \o <<>>
<1>1. Append(s, x) = s \o <<x>> /\ <<x>> \in Seq(S) /\ Append(s, x) \in Seq(S)
  BY AppendIsConcat, AppendProperties
<1>2. before \o Append(s, x) \in Seq(S)
  BY <1>1, ConcatProperties
<1>3. before \o Append(s, x) \o <<>> = before \o Append(s, x)
  BY <1>2, ConcatEmptySeq
<1>4. before \o s \o <<x>> = before \o (s \o <<x>>)
  BY <1>1, ConcatAssociative
<1> QED
  BY <1>1, <1>3, <1>4

\* A packet that arrives comes after all others.
LEMMA ArrivesLast ==
  ASSUME NEW S, NEW before \in Seq(S), NEW s \in Seq(S), NEW x \in S
  PROVE  before \o Append(s, x) = Append(before \o s, x)
<1>1. Append(s, x) = s \o <<x>> /\ <<x>> \in Seq(S) /\ before \o s \in Seq(S)
  BY AppendIsConcat, ConcatProperties
<1>2. Append(before \o s, x) = before \o s \o <<x>>
  BY <1>1, AppendIsConcat
<1>3. before \o s \o <<x>> = before \o (s \o <<x>>)
  BY <1>1, ConcatAssociative
<1> QED
  BY <1>1, <1>2, <1>3

\* The packets that arrived, in order.
LEMMA OneMoreArrived ==
  ASSUME NEW n \in Nat
  PROVE  Append([i \in 1..n |-> i], n + 1) = [i \in 1..(n + 1) |-> i]
<1> DEFINE all == [i \in 1..n |-> i]
           more == [i \in 1..(n + 1) |-> i]
<1>1. all \in Seq(Nat) /\ more \in Seq(Nat) /\ Len(all) = n /\ Len(more) = n + 1
  BY SeqDef
<1>2. /\ Append(all, n + 1) \in Seq(Nat) /\ Len(Append(all, n + 1)) = n + 1
      /\ \A i \in 1..n : Append(all, n + 1)[i] = all[i]
      /\ Append(all, n + 1)[n + 1] = n + 1
  BY <1>1, AppendProperties
<1>3. \A i \in 1..n : all[i] = i
  OBVIOUS
<1>4. \A i \in 1..(n + 1) : more[i] = i
  OBVIOUS
<1> HIDE DEF all, more
<1>5. \A i \in 1..(n + 1) : Append(all, n + 1)[i] = more[i]
  BY <1>2, <1>3, <1>4
<1>6. Append(all, n + 1) = more
  BY <1>1, <1>2, <1>5, SeqEqual
<1> QED
  BY <1>6 DEF all, more

Packets == 1..MaxPackets
InRouter == Holds("dequeue", "route")
InProducer == Holds("enqueue", "push")
Places == routed \o InRouter \o queue_ \o InProducer \o buffer_

\* What the callbacks hold is a packet each, if any, and never two at once.
LEMMA HeldTypes ==
  ASSUME IInv
  PROVE  /\ routed \in Seq(Packets) /\ queue_ \in Seq(Packets) /\ buffer_ \in Seq(Packets)
         /\ InRouter \in Seq(Packets) /\ InProducer \in Seq(Packets)
         /\ routed \o InRouter \in Seq(Packets)
         /\ routed \o InRouter \o queue_ \in Seq(Packets)
         /\ routed \o InRouter \o queue_ \o InProducer \in Seq(Packets)
<1>1. routed \in Seq(Packets) /\ queue_ \in Seq(Packets) /\ buffer_ \in Seq(Packets)
  BY DEF IInv, TypeOK, Packets
<1>2. running.at \in {"push", "route"} => running.data \in Packets
  BY DEF IInv, RunningOK, Packets
<1>3. InRouter \in Seq(Packets)
  BY <1>2 DEF InRouter, Holds, Executes
<1>4. InProducer \in Seq(Packets)
  BY <1>2 DEF InProducer, Holds, Executes
<1> QED
  BY <1>1, <1>3, <1>4, ConcatProperties

\* Wherever the callbacks stand, no step loses, repeats or overtakes a packet.
LEMMA PacketsStep ==
  ASSUME IInv, [Next]_vars
  PROVE  /\ PacketsInOrder'
         /\ routed' \in Seq(1..MaxPackets)
         /\ arrived' \in 0..MaxPackets
<1>0. /\ running \in Runs /\ arrived \in 0..MaxPackets /\ arrived \in Nat /\ MaxPackets \in Nat
      /\ routed \in Seq(1..MaxPackets)
      /\ stop \notin BufferGone => Places = [i \in 1..arrived |-> i]
  BY BoundsAssumption
  DEF IInv, RunningOK, TypeOK, PacketsInOrder, Places, InRouter, InProducer, BufferGone, Clearing
<1>1. ASSUME stop' \notin BufferGone => Places' = [i \in 1..arrived' |-> i],
             routed' \in Seq(1..MaxPackets), arrived' \in 0..MaxPackets
      PROVE  /\ PacketsInOrder' /\ routed' \in Seq(1..MaxPackets) /\ arrived' \in 0..MaxPackets
  BY <1>1 DEF PacketsInOrder, Places, InRouter, InProducer, BufferGone, Clearing
<1>2. ASSUME UNCHANGED <<routed, arrived>>, stop' \notin BufferGone => stop \notin BufferGone,
             stop' \notin BufferGone => Places' = Places
      PROVE  /\ PacketsInOrder' /\ routed' \in Seq(1..MaxPackets) /\ arrived' \in 0..MaxPackets
  BY <1>0, <1>1, <1>2
<1>3. ASSUME UNCHANGED <<routed, arrived, queue_, buffer_>>,
             stop' \notin BufferGone => stop \notin BufferGone,
             InRouter' = InRouter, InProducer' = InProducer
      PROVE  /\ PacketsInOrder' /\ routed' \in Seq(1..MaxPackets) /\ arrived' \in 0..MaxPackets
  BY <1>2, <1>3 DEF Places
<1>4. ASSUME UNCHANGED <<routed, arrived, queue_, buffer_>>,
             stop' \notin BufferGone => stop \notin BufferGone,
             running'.what = running.what, running'.at = running.at, running'.data = running.data
      PROVE  /\ PacketsInOrder' /\ routed' \in Seq(1..MaxPackets) /\ arrived' \in 0..MaxPackets
  BY <1>3, <1>4 DEF InRouter, InProducer, Holds, Executes
<1>5. CASE Enqueue
  <2>1. /\ buffer_' = Append(buffer_, arrived + 1) /\ arrived' = arrived + 1
        /\ UNCHANGED <<routed, queue_, running, stop>> /\ arrived < MaxPackets
    BY <1>5 DEF Enqueue
  <2>2. arrived' \in 0..MaxPackets /\ arrived + 1 \in Packets
    BY <1>0, <2>1 DEF Packets
  <2>3. InRouter' = InRouter /\ InProducer' = InProducer
    BY <2>1 DEF InRouter, InProducer, Holds, Executes
  <2>4. Places' = Append(Places, arrived + 1)
    <3> DEFINE ahead == routed \o InRouter \o queue_ \o InProducer
    <3>1. ahead \in Seq(Packets) /\ buffer_ \in Seq(Packets)
      BY HeldTypes
    <3>2. Places = ahead \o buffer_ /\ Places' = ahead \o Append(buffer_, arrived + 1)
      BY <2>1, <2>3 DEF Places
    <3> HIDE DEF ahead
    <3> QED
      BY <2>2, <3>1, <3>2, ArrivesLast
  <2>5. Append([i \in 1..arrived |-> i], arrived + 1) = [i \in 1..arrived' |-> i]
    BY <1>0, <2>1, OneMoreArrived
  <2> QED
    BY <1>0, <1>1, <2>1, <2>2, <2>4, <2>5
<1>6. CASE EnqueueCallback
  <2>1. UNCHANGED <<routed, arrived, queue_, stop>> /\ Executes("enqueue", "begin")
    BY <1>6 DEF EnqueueCallback, moduleVars
  <2>2. CASE buffer_ = <<>>
    BY <1>4, <1>6, <2>1, <2>2 DEF EnqueueCallback
  <2>3. CASE buffer_ # <<>>
    <3>1. /\ buffer_' = Tail(buffer_)
          /\ \/ running' = GoesOn(running, "push", Head(buffer_))
             \/ running' = GoesOn(Removed("enqueue"), "push", Head(buffer_))
      BY <1>6, <2>3 DEF EnqueueCallback, Proceed, GoesOn
    <3>2. Removed("enqueue") \in Runs /\ Removed("enqueue").what = running.what
      BY <1>0, RemovedFacts
    <3>3. running'.what = "enqueue" /\ running'.at = "push" /\ running'.data = Head(buffer_)
      BY <1>0, <2>1, <3>1, <3>2, GoesOnFields DEF Executes
    <3>4. /\ InRouter' = InRouter /\ InProducer' = <<Head(buffer_)>> /\ InProducer = <<>>
      BY <2>1, <3>3 DEF InRouter, InProducer, Holds, Executes
    <3>5. Places' = Places
      BY <2>1, <2>3, <3>1, <3>4, HeldTypes, TakeHead DEF Places
    <3> QED
      BY <1>2, <2>1, <3>5
  <2> QED
    BY <2>2, <2>3
<1>7. CASE EnqueueCallbackInternal
  <2>1. UNCHANGED <<routed, arrived, buffer_, stop>> /\ Executes("enqueue", "push")
    BY <1>7 DEF EnqueueCallbackInternal, moduleVars
  <2>2. CASE UNCHANGED <<queue_, running>>
    BY <1>4, <2>1, <2>2
  <2>3. CASE queue_' = Append(queue_, running.data) /\ running' = Idle
    <3>1. /\ InRouter' = <<>> /\ InRouter = <<>>
          /\ InProducer' = <<>> /\ InProducer = <<running.data>>
      BY <2>1, <2>3 DEF InRouter, InProducer, Holds, Executes, Idle
    <3>2. running.data \in Packets
      BY <2>1 DEF IInv, RunningOK, Executes, Packets
    <3>3. routed \o InRouter \o queue_ \o <<running.data>> = routed \o InRouter \o queue_' \o <<>>
      <4> DEFINE ahead == routed \o InRouter
      <4>1. ahead \in Seq(Packets) /\ queue_ \in Seq(Packets)
        BY HeldTypes
      <4> HIDE DEF ahead
      <4>2. ahead \o queue_ \o <<running.data>> = ahead \o queue_' \o <<>>
        BY <2>3, <3>2, <4>1, PutLast
      <4> QED
        BY <4>2 DEF ahead
    <3>4. Places' = Places
      BY <2>1, <3>1, <3>3 DEF Places
    <3> QED
      BY <1>2, <2>1, <3>4
  <2> QED
    BY <1>7, <2>2, <2>3 DEF EnqueueCallbackInternal
<1>8. CASE TryDequeue
  <2>1. UNCHANGED <<routed, arrived, buffer_, stop>> /\ Executes("dequeue", "begin")
    BY <1>8 DEF TryDequeue, moduleVars
  <2>2. CASE queue_ = <<>>
    BY <1>4, <1>8, <2>1, <2>2 DEF TryDequeue
  <2>3. CASE queue_ # <<>>
    <3>1. queue_' = Tail(queue_) /\ running' = GoesOn(running, "route", Head(queue_))
      BY <1>8, <2>3 DEF TryDequeue, Proceed, GoesOn
    <3>2. running'.what = "dequeue" /\ running'.at = "route" /\ running'.data = Head(queue_)
      BY <1>0, <2>1, <3>1, GoesOnFields DEF Executes
    <3>3. /\ InProducer' = InProducer /\ InRouter' = <<Head(queue_)>> /\ InRouter = <<>>
      BY <2>1, <3>2 DEF InRouter, InProducer, Holds, Executes
    <3>4. routed \o <<>> \o queue_ = routed \o <<Head(queue_)>> \o Tail(queue_)
      BY <2>3, HeldTypes, TakeHead
    <3>5. Places' = Places
      BY <2>1, <3>1, <3>3, <3>4 DEF Places
    <3> QED
      BY <1>2, <2>1, <3>5
  <2> QED
    BY <2>2, <2>3
<1>9. CASE Route
  <2>1. UNCHANGED <<arrived, queue_, buffer_, stop>> /\ Executes("dequeue", "route")
    BY <1>9 DEF Route, queueVars
  <2>2. CASE UNCHANGED <<routed, running>>
    BY <1>4, <2>1, <2>2
  <2>3. CASE routed' = Append(routed, running.data) /\ running' = Idle
    <3>1. /\ InRouter' = <<>> /\ InRouter = <<running.data>>
          /\ InProducer' = <<>> /\ InProducer = <<>>
      BY <2>1, <2>3 DEF InRouter, InProducer, Holds, Executes, Idle
    <3>2. running.data \in Packets
      BY <2>1 DEF IInv, RunningOK, Executes, Packets
    <3>3. routed' = routed \o <<running.data>> /\ routed' \in Seq(Packets)
      BY <2>3, <3>2, HeldTypes, AppendIsConcat, AppendProperties
    <3>4. routed' \o <<>> = routed'
      BY <3>3, ConcatEmptySeq
    <3>5. Places' = Places
      BY <2>1, <3>1, <3>3, <3>4 DEF Places
    <3> QED
      BY <1>0, <1>1, <2>1, <3>3, <3>5 DEF Packets
  <2> QED
    BY <1>9, <2>2, <2>3 DEF Route
<1>10. CASE (\E r \in Reactables : Begin(r)) \/ HandleNextEvent \/ RunClosure \/ HandleDelayedEvent
              \/ NotifyDelayed \/ RescheduleAfterEvent
  <2>1. UNCHANGED <<routed, arrived, queue_, buffer_, stop>>
    BY <1>10
    DEF Begin, HandleNextEvent, RunClosure, HandleDelayedEvent, NotifyDelayed, RescheduleAfterEvent,
        queueVars, moduleVars
  <2>2. running = Idle \/ running.what \in {"handler", "alarm"}
    BY <1>10
    DEF Begin, HandleNextEvent, RunClosure, HandleDelayedEvent, NotifyDelayed, RescheduleAfterEvent, Executes
  <2>3. /\ ~Executes("enqueue", "push") /\ ~Executes("dequeue", "route")
    BY <2>2 DEF Executes, Idle
  <2>4. \/ running' = running \/ running' = Idle \/ running'.at = "begin"
        \/ running.what \in {"handler", "alarm"} /\ \E at, data : running' = GoesOn(running, at, data)
    <3>1. CASE \E r \in Reactables : Begin(r)
      BY <3>1 DEF Begin
    <3>2. CASE HandleNextEvent \/ RunClosure \/ HandleDelayedEvent \/ NotifyDelayed \/ RescheduleAfterEvent
      <4>1. running.what \in {"handler", "alarm"}
        BY <3>2
        DEF HandleNextEvent, RunClosure, HandleDelayedEvent, NotifyDelayed, RescheduleAfterEvent, Executes
      <4> QED
        BY <3>2, <4>1
        DEF HandleNextEvent, RunClosure, HandleDelayedEvent, NotifyDelayed, RescheduleAfterEvent,
            Proceed, GoesOn
    <3> QED
      BY <1>10, <3>1, <3>2
  <2>5. /\ ~Executes("enqueue", "push")' /\ ~Executes("dequeue", "route")'
    <3>1. CASE running' = running \/ running' = Idle \/ running'.at = "begin"
      BY <2>3, <3>1 DEF Executes, Idle
    <3>2. CASE running.what \in {"handler", "alarm"} /\ \E at, data : running' = GoesOn(running, at, data)
      BY <1>0, <3>2, GoesOnFields DEF Executes
    <3> QED
      BY <2>4, <3>1, <3>2
  <2> QED
    BY <1>3, <2>1, <2>3, <2>5 DEF InRouter, InProducer, Holds
<1>11. CASE \/ \E p \in Posters : Post(p) \/ FinishPost(p) \/ \E delay \in Delays : PostWithDelay(p, delay)
            \/ Tick \/ UNCHANGED vars
  <2>1. UNCHANGED <<routed, arrived, queue_, buffer_, stop, running>>
    BY <1>11
    DEF Post, FinishPost, Notify, RescheduleAfterPost, PostWithDelay, Tick, vars, queueVars, moduleVars
  <2> QED
    BY <1>4, <2>1
<1>12. CASE Stop
  <2>1. /\ UNCHANGED <<routed, arrived, queue_>>
        /\ running' = running \/ \E r \in Reactables : running' = Removed(r)
    BY <1>12
    DEF Stop, HandlerClear, AlarmCancel, HandlerUnregister, WaitUntilStopped, DestroyConsumers, LifeCycleStop,
        BufferClear, BufferCleared, UnregisterDequeue, DequeueUnregistered, DestroyQueue, queueVars,
        Reactables, Ends
  <2>2. running'.what = running.what /\ running'.at = running.at /\ running'.data = running.data
    BY <1>0, <2>1, RemovedFacts
  <2>3. stop' \notin BufferGone => stop \notin BufferGone /\ buffer_' = buffer_
    BY <1>12
    DEF Stop, HandlerClear, AlarmCancel, HandlerUnregister, WaitUntilStopped, DestroyConsumers, LifeCycleStop,
        BufferClear, BufferCleared, UnregisterDequeue, DequeueUnregistered, DestroyQueue, queueVars,
        BufferGone, Clearing
  <2>4. stop' \notin BufferGone => Places' = Places
    BY <2>1, <2>2, <2>3 DEF Places, InRouter, InProducer, Holds, Executes
  <2> QED
    BY <1>2, <2>1, <2>3, <2>4
<1> QED
  BY <1>5, <1>6, <1>7, <1>8, <1>9, <1>10, <1>11, <1>12 DEF Next, StackThreadStep

-----------------------------------------------------------------------------
(* Failures and types                                                        *)

\* Whatever fails, fails in a stop, and only in the ways that are listed.
LEMMA FailureStep ==
  ASSUME IInv, [Next]_vars
  PROVE  FailsOnlyInTeardown' /\ fate' \in Fates
<1>0. /\ PhaseOK /\ ProducerOK /\ CallbackOK /\ FailsOnlyInTeardown /\ fate \in Fates
      /\ SemaphoresAgree /\ CallbacksServed
      /\ tasks_ \in Nat /\ event_ \in Nat /\ semaphore \in [Ends -> 0..Capacity] /\ Capacity \in Nat
      /\ endpoint \in [Ends -> BOOLEAN]
  BY TakenDownParts, BoundsAssumption, CapacityAssumption DEF IInv, QueueConsistent, TypeOK
<1>1. ASSUME fate = "ok", fate' = fate
      PROVE  FailsOnlyInTeardown' /\ fate' \in Fates
  BY <1>1 DEF FailsOnlyInTeardown, Fates
<1>2. CASE UNCHANGED vars
  BY <1>0, <1>2 DEF vars, moduleVars, FailsOnlyInTeardown
<1>3. ASSUME NEW p \in Posters, FinishPost(p)
      PROVE  FailsOnlyInTeardown' /\ fate' \in Fates
  <2>1. fate = "ok" /\ (fate' = fate \/ (fate' = "handler_destroyed" /\ stop = "done")) /\ stop' = stop
    BY <1>3 DEF FinishPost, Notify, RescheduleAfterPost, Ok, moduleVars
  <2> QED
    BY <1>1, <2>1 DEF FailsOnlyInTeardown, Fates
<1>4. CASE HandleNextEvent
  <2>1. CASE cleared
    BY <1>1, <1>4, <2>1 DEF HandleNextEvent, Ok
  <2>2. CASE ~cleared
    <3>1. event_ > 0 /\ tasks_ = event_ + AboutToNotify
      BY <1>4, <2>2 DEF IInv, ClosuresCounted, NoWakeupLost, EventsPayForTasks, HandleNextEvent
    <3>2. AboutToNotify \in Nat
      BY AboutToNotifyType DEF IInv
    <3>3. event_ # 0 /\ tasks_ # 0
      BY <1>0, <3>1, <3>2
    <3> QED
      BY <1>1, <1>4, <2>2, <3>3 DEF HandleNextEvent, Ok
  <2> QED
    BY <2>1, <2>2
<1>5. CASE Enqueue
  <2>1. fate = "ok" /\ mutex_ = "free"
    BY <1>5 DEF Enqueue, Ok
  <2>2. enqueue_registered_ <=> endpoint["enqueue"]
    BY <1>0, <2>1 DEF ProducerOK, ProducerRegistered
  <2> QED
    BY <1>1, <1>5, <2>1, <2>2 DEF Enqueue
<1>6. CASE EnqueueCallback
  <2>1. fate = "ok" /\ mutex_ = "free" /\ stop' = stop
    BY <1>6 DEF EnqueueCallback, Ok, moduleVars
  <2>2. enqueue_registered_ <=> endpoint["enqueue"]
    BY <1>0, <2>1 DEF ProducerOK, ProducerRegistered
  <2>3. CASE buffer_ = <<>>
    <3>1. fate' = "front_of_empty_buffer" /\ stop \in {"buffer_cleared", "dequeue_waits"}
      BY <1>0, <1>6, <2>1, <2>3 DEF EnqueueCallback, Fail, CallbackOK
    <3> QED
      BY <2>1, <3>1 DEF FailsOnlyInTeardown, Fates
  <2>4. CASE buffer_ # <<>>
    BY <1>1, <1>6, <2>1, <2>2, <2>4 DEF EnqueueCallback
  <2> QED
    BY <2>3, <2>4
<1>7. CASE EnqueueCallbackInternal
  <2>1. stop # "done"
    BY <1>0, <1>7 DEF CallbackOK, CallbacksGone, EnqueueCallbackInternal, Executes, Ends
  <2>2. semaphore["enqueue"] # 0
    BY <1>0, <1>7 DEF CallbacksServed, EnqueueCallbackInternal, Executes, Ends
  <2> QED
    BY <1>1, <1>7, <2>1, <2>2 DEF EnqueueCallbackInternal, Ok
<1>8. CASE TryDequeue
  <2>1. Len(queue_) > 0
    BY <1>0, <1>8 DEF CallbacksServed, SemaphoresAgree, TryDequeue
  <2>2. queue_ # <<>>
    BY <2>1, EmptySeq
  <2> QED
    BY <1>1, <1>8, <2>2 DEF TryDequeue, Ok
<1>9. CASE Route
  <2>1. fate = "ok" /\ (fate' = fate \/ (fate' = "consumer_destroyed" /\ ~consumers')) /\ stop' = stop
    BY <1>9 DEF Route, Ok, Fail
  <2> QED
    BY <1>1, <2>1 DEF FailsOnlyInTeardown, Fates
<1>10. CASE BufferClear
  <2>1. fate = "ok" /\ mutex_ = "free"
    BY <1>10 DEF BufferClear, Ok
  <2>2. enqueue_registered_ => endpoint["enqueue"]
    BY <1>0, <2>1 DEF ProducerOK, ProducerRegistered
  <2> QED
    BY <1>1, <1>10, <2>1, <2>2 DEF BufferClear
<1>11. CASE UnregisterDequeue
  <2>1. endpoint["dequeue"]
    BY <1>0, <1>11 DEF PhaseOK, ConsumerGone, UnregisterDequeue
  <2> QED
    BY <1>1, <1>11, <2>1 DEF UnregisterDequeue, Ok
<1>12. CASE DestroyQueue
  <2>1. stop = "dequeue_unregistered"
    BY <1>12 DEF DestroyQueue
  <2>2. ~enqueue_registered_ /\ ~endpoint["enqueue"] /\ ~endpoint["dequeue"] /\ cleared
    BY <1>0, <2>1 DEF PhaseOK, ProducerOK, Clearing, ConsumerGone, IInv, ClosuresCounted
  <2> QED
    BY <1>1, <1>12, <2>2 DEF DestroyQueue, Ok
<1>13. CASE \/ \E p \in Posters : Post(p) \/ \E delay \in Delays : PostWithDelay(p, delay)
            \/ \E r \in Reactables : Begin(r)
            \/ Tick \/ RunClosure \/ HandleDelayedEvent \/ NotifyDelayed \/ RescheduleAfterEvent
            \/ HandlerClear \/ AlarmCancel \/ HandlerUnregister \/ WaitUntilStopped \/ DestroyConsumers
            \/ LifeCycleStop \/ BufferCleared \/ DequeueUnregistered
  <2>1. fate = "ok" /\ fate' = fate
    BY <1>13
    DEF Post, PostWithDelay, Begin, Tick, RunClosure, HandleDelayedEvent, NotifyDelayed,
        RescheduleAfterEvent, HandlerClear, AlarmCancel, HandlerUnregister, WaitUntilStopped,
        DestroyConsumers, LifeCycleStop, BufferCleared, DequeueUnregistered, Ok
  <2> QED
    BY <1>1, <2>1
<1> QED
  BY <1>2, <1>3, <1>4, <1>5, <1>6, <1>7, <1>8, <1>9, <1>10, <1>11, <1>12, <1>13
  DEF Next, StackThreadStep, Stop

\* The alarm is set to a time.
LEMMA RescheduledType ==
  ASSUME IInv
  PROVE  Rescheduled \in Nat
<1>1. alarm_ \in Nat /\ now \in Nat
  BY DEF IInv, TypeOK
<1>2. delayed_tasks_ # {} => Earliest \in Nat
  <2>1. Earliest = EarliestOf(delayed_tasks_)
    BY DEF Earliest, EarliestOf
  <2> QED
    BY <2>1, EarliestFacts DEF IInv, TypeOK
<1> QED
  BY <1>1, <1>2 DEF Rescheduled

\* What the clock, the stop and the modules hold keeps its type.
LEMMA ModulesType ==
  ASSUME IInv, [Next]_vars
  PROVE  /\ now' \in Nat /\ alarm_' \in Nat /\ cleared' \in BOOLEAN
         /\ life_cycle_stopped' \in BOOLEAN /\ consumers' \in BOOLEAN
         /\ stop' \in StopSteps
<1>0. /\ now \in Nat /\ alarm_ \in Nat /\ cleared \in BOOLEAN /\ life_cycle_stopped \in BOOLEAN
      /\ consumers \in BOOLEAN /\ stop \in StopSteps
  BY DEF IInv, TypeOK
<1>1. now' \in Nat /\ alarm_' \in Nat
  <2>1. now' = now \/ now' = now + 1
    BY DEF Next, Post, FinishPost, Notify, RescheduleAfterPost, PostWithDelay, Enqueue, StackThreadStep,
           Begin, HandleNextEvent, RunClosure, HandleDelayedEvent, NotifyDelayed, RescheduleAfterEvent,
           EnqueueCallback, EnqueueCallbackInternal, TryDequeue, Route, Tick, Stop, HandlerClear, AlarmCancel,
           HandlerUnregister, WaitUntilStopped, DestroyConsumers, LifeCycleStop, BufferClear,
           BufferCleared, UnregisterDequeue, DequeueUnregistered, DestroyQueue, vars
  <2>2. alarm_' = alarm_ \/ alarm_' = 0 \/ alarm_' = Rescheduled
    BY DEF Next, Post, FinishPost, Notify, RescheduleAfterPost, PostWithDelay, Enqueue, StackThreadStep,
           Begin, HandleNextEvent, RunClosure, HandleDelayedEvent, NotifyDelayed, RescheduleAfterEvent,
           EnqueueCallback, EnqueueCallbackInternal, TryDequeue, Route, Tick, Stop, HandlerClear, AlarmCancel,
           HandlerUnregister, WaitUntilStopped, DestroyConsumers, LifeCycleStop, BufferClear,
           BufferCleared, UnregisterDequeue, DequeueUnregistered, DestroyQueue, vars, handlerVars
  <2> QED
    BY <1>0, <2>1, <2>2, RescheduledType
<1>2. CASE Stop
  BY <1>0, <1>1, <1>2
  DEF Stop, HandlerClear, AlarmCancel, HandlerUnregister, WaitUntilStopped, DestroyConsumers, LifeCycleStop,
      BufferClear, BufferCleared, UnregisterDequeue, DequeueUnregistered, DestroyQueue, handlerVars,
      StopSteps
<1>3. CASE ~Stop
  <2>1. UNCHANGED <<cleared, life_cycle_stopped, consumers, stop>>
    BY <1>3
    DEF Next, Post, FinishPost, Notify, RescheduleAfterPost, PostWithDelay, Enqueue, StackThreadStep,
        Begin, HandleNextEvent, RunClosure, HandleDelayedEvent, NotifyDelayed, RescheduleAfterEvent,
        EnqueueCallback, EnqueueCallbackInternal, TryDequeue, Route, Tick, vars, handlerVars, moduleVars
  <2> QED
    BY <1>0, <1>1, <2>1
<1> QED
  BY <1>2, <1>3

\* So does what the handler counts.
LEMMA HandlerType ==
  ASSUME IInv, [Next]_vars
  PROVE  /\ tasks_' \in Nat /\ event_' \in Nat /\ ran' \in Nat /\ posted' \in 0..MaxPosts
         /\ poster' \in [Posters -> {"idle", "notify", "reschedule"}]
         /\ delayed_tasks_' \subseteq Delayed
<1>0. /\ tasks_ \in Nat /\ event_ \in Nat /\ ran \in Nat /\ posted \in 0..MaxPosts
      /\ poster \in [Posters -> {"idle", "notify", "reschedule"}]
      /\ delayed_tasks_ \subseteq Delayed /\ MaxPosts \in Nat /\ now \in Nat /\ running.data \in Nat
  BY BoundsAssumption DEF IInv, TypeOK
<1>1. ASSUME NEW p \in Posters, Post(p) \/ FinishPost(p)
      PROVE  /\ tasks_' \in Nat /\ event_' \in Nat /\ ran' \in Nat /\ posted' \in 0..MaxPosts
             /\ poster' \in [Posters -> {"idle", "notify", "reschedule"}]
             /\ delayed_tasks_' \subseteq Delayed
  BY <1>0, <1>1 DEF Post, FinishPost, Notify, RescheduleAfterPost
<1>2. ASSUME NEW p \in Posters, NEW delay \in Delays, PostWithDelay(p, delay)
      PROVE  /\ tasks_' \in Nat /\ event_' \in Nat /\ ran' \in Nat /\ posted' \in 0..MaxPosts
             /\ poster' \in [Posters -> {"idle", "notify", "reschedule"}]
             /\ delayed_tasks_' \subseteq Delayed
  <2>1. /\ delayed_tasks_' = delayed_tasks_ \cup {[number |-> posted + 1, due |-> now + delay]}
        /\ now + delay <= MaxTime /\ posted < MaxPosts /\ posted' = posted + 1
        /\ UNCHANGED <<tasks_, event_, ran>>
        /\ \E q \in {"idle", "reschedule"} : poster' = [poster EXCEPT ![p] = q]
    BY <1>2 DEF PostWithDelay
  <2>2. delay \in Nat /\ delay > 0 /\ MaxTime \in Nat
    BY BoundsAssumption
  <2>3. [number |-> posted + 1, due |-> now + delay] \in Delayed
    BY <1>0, <2>1, <2>2 DEF Delayed
  <2> QED
    BY <1>0, <2>1, <2>3
<1>3. CASE HandleDelayedEvent
  <2>1. DueNow \subseteq delayed_tasks_
    BY DEF DueNow
  <2>2. Cardinality(DueNow) \in Nat
    BY <2>1, FS_Subset, FS_CardinalityType DEF IInv, ClosuresCounted
  <2> QED
    BY <1>0, <1>3, <2>2 DEF HandleDelayedEvent
<1>4. CASE NotifyDelayed \/ HandleNextEvent \/ RunClosure
  BY <1>0, <1>4 DEF NotifyDelayed, HandleNextEvent, RunClosure
<1>5. CASE HandlerClear \/ AlarmCancel \/ HandlerUnregister
  BY <1>0, <1>5 DEF HandlerClear, AlarmCancel, HandlerUnregister
<1>6. CASE \/ \E r \in Reactables : Begin(r)
           \/ RescheduleAfterEvent \/ Enqueue \/ EnqueueCallback \/ EnqueueCallbackInternal \/ TryDequeue
           \/ Route \/ Tick \/ WaitUntilStopped \/ DestroyConsumers \/ LifeCycleStop \/ BufferClear
           \/ BufferCleared \/ UnregisterDequeue \/ DequeueUnregistered \/ DestroyQueue \/ UNCHANGED vars
  <2>1. UNCHANGED <<tasks_, event_, ran, posted, poster, delayed_tasks_>>
    BY <1>6
    DEF Begin, RescheduleAfterEvent, Enqueue, EnqueueCallback, EnqueueCallbackInternal, TryDequeue,
        Route, Tick, WaitUntilStopped, DestroyConsumers, LifeCycleStop, BufferClear, BufferCleared,
        UnregisterDequeue, DequeueUnregistered, DestroyQueue, vars, handlerVars
  <2> QED
    BY <1>0, <2>1
<1> QED
  BY <1>1, <1>2, <1>3, <1>4, <1>5, <1>6 DEF Next, StackThreadStep, Stop

\* Every step keeps the types; the bounds on the counters follow from the accounts.
LEMMA TypeStep ==
  ASSUME IInv, [Next]_vars
  PROVE  TypeOK'
<1>1. /\ tasks_' \in Nat /\ event_' \in Nat /\ ran' \in Nat /\ posted' \in 0..MaxPosts /\ MaxPosts \in Nat
  BY HandlerType, BoundsAssumption
<1>2. RunningOK' /\ ClosuresCounted'
  BY RunningStep, AccountsStep
<1>3. /\ RunsClosure' \in Nat /\ AboutToNotify' \in Nat /\ Cardinality(delayed_tasks_') \in Nat
  <2>1. Cardinality(delayed_tasks_') \in Nat
    BY <1>2, FS_CardinalityType DEF ClosuresCounted
  <2>2. Notifiers' \subseteq Posters
    BY DEF Notifiers
  <2>3. Cardinality(Notifiers') \in Nat
    BY <2>2, PostersAssumption, FS_Subset, FS_CardinalityType
  <2>4. AlarmNotifies' \in Nat
    BY <1>2 DEF AlarmNotifies, RunningOK, Runs
  <2>5. AboutToNotify' = Cardinality(Notifiers') + AlarmNotifies'
    BY DEF AboutToNotify, Notifiers, AlarmNotifies
  <2>6. AboutToNotify' \in Nat
    BY <2>3, <2>4, <2>5
  <2> QED
    BY <2>1, <2>6 DEF RunsClosure
<1>4. /\ ran' + tasks_' + Cardinality(delayed_tasks_') + RunsClosure' <= posted'
      /\ event_' + AboutToNotify' <= posted'
  BY <1>2 DEF ClosuresCounted
<1>5. tasks_' \in 0..MaxPosts /\ event_' \in 0..MaxPosts /\ ran' \in 0..MaxPosts
  <2>1. posted' \in Nat /\ posted' <= MaxPosts
    BY <1>1
  <2>2. \A a, b, c, d, e \in Nat : a + b + c + d <= e => a <= e /\ b <= e
    OBVIOUS
  <2>3. ran' <= posted' /\ tasks_' <= posted'
    BY <1>1, <1>3, <1>4, <2>1, <2>2
  <2>4. \A a, b, e \in Nat : a + b <= e => a <= e
    OBVIOUS
  <2>5. event_' <= posted'
    BY <1>1, <1>3, <1>4, <2>1, <2>4
  <2> QED
    BY <1>1, <2>1, <2>3, <2>5
<1>6. running' \in Runs
  BY <1>2 DEF RunningOK
<1> QED
  BY <1>1, <1>5, <1>6, HandlerType, ModulesType, SemaphoreStep, PhaseStep, ProducerStep, PacketsStep,
     FailureStep
  DEF TypeOK, Runs, Points

\* The invariant is inductive.
LEMMA Invariant == Spec => []IInv
<1>1. Init => IInv
  <2> SUFFICES ASSUME Init
               PROVE  IInv
    OBVIOUS
  <2> USE DEF Init
  <2>1. TypeOK
    <3>1. semaphore \in [Ends -> 0..Capacity] /\ endpoint \in [Ends -> BOOLEAN]
      BY CapacityAssumption DEF Ends
    <3>2. running \in [what : Reactables \cup {"none"},
                       at : {"poll", "begin", "run", "notify", "reschedule", "push", "route"},
                       data : Nat,
                       removed : BOOLEAN]
      BY DEF Idle
    <3>3. stop \in StopSteps /\ fate \in Fates /\ reactables \subseteq Reactables
      BY DEF StopSteps, Fates, Reactables, Ends
    <3> QED
      <4>1. <<>> \in Seq(1..MaxPackets) /\ poster \in [Posters -> {"idle", "notify", "reschedule"}]
        BY EmptySeq
      <4>2. 0 \in 0..MaxPosts /\ 0 \in 0..MaxPackets
        BY BoundsAssumption
      <4> QED
        BY <3>1, <3>2, <3>3, <4>1, <4>2 DEF TypeOK
  <2>2. RunningOK /\ CallbacksServed
    BY DEF RunningOK, Runs, Points, Idle, Reactables, Ends, CallbacksServed, Executes
  <2>3. Cardinality(Notifiers) = 0 /\ Cardinality(delayed_tasks_) = 0 /\ IsFiniteSet({})
    <3>1. Notifiers = {}
      BY DEF Notifiers
    <3> QED
      BY <3>1, FS_EmptySet
  <2>4. AboutToNotify = 0 /\ RunsClosure = 0
    BY <2>3 DEF AboutToNotify, Notifiers, RunsClosure, Executes, Idle
  <2>5. ClosuresCounted /\ NoWakeupLost
    BY <2>3, <2>4
    DEF ClosuresCounted, NoWakeupLost, EventsPayForTasks, AlarmCoversDelayed, Executes, Idle
  <2>6. TakenDown
    BY DEF TakenDown, Clearing, BufferGone, ConsumerGone, CallbacksGone, Idle, Executes, Ends
  <2>7. QueueConsistent
    <3>1. /\ semaphore["enqueue"] = Capacity /\ semaphore["dequeue"] = 0
          /\ endpoint["enqueue"] = FALSE
      BY DEF Ends
    <3>2. Len(queue_) = 0
      BY EmptySeq
    <3>3. SemaphoresAgree
      BY <3>1, <3>2, CapacityAssumption DEF SemaphoresAgree
    <3>4. ProducerRegistered
      BY <3>1 DEF ProducerRegistered
    <3> QED
      BY <3>3, <3>4 DEF QueueConsistent
  <2>8. PacketsInOrder
    <3>1. Places = <<>>
      <4>1. InRouter = <<>> /\ InProducer = <<>> /\ <<>> \in Seq(Packets)
        BY DEF InRouter, InProducer, Holds, Executes, Idle
      <4>2. <<>> \o <<>> = <<>>
        BY <4>1, ConcatEmptySeq
      <4> QED
        BY <4>1, <4>2 DEF Places
    <3>2. [i \in 1..arrived |-> i] = <<>>
      OBVIOUS
    <3> QED
      BY <3>1, <3>2 DEF PacketsInOrder, Places, InRouter, InProducer
  <2>9. FailsOnlyInTeardown
    BY DEF FailsOnlyInTeardown
  <2> QED
    BY <2>1, <2>2, <2>5, <2>6, <2>7, <2>8, <2>9 DEF IInv
<1>2. IInv /\ [Next]_vars => IInv'
  <2> SUFFICES ASSUME IInv, [Next]_vars
               PROVE  IInv'
    OBVIOUS
  <2>1. TypeOK' /\ RunningOK' /\ PacketsInOrder' /\ FailsOnlyInTeardown' /\ CallbacksServed'
    BY TypeStep, RunningStep, PacketsStep, FailureStep, SemaphoreStep
  <2>2. ClosuresCounted' /\ NoWakeupLost'
    BY AccountsStep, AlarmStep DEF NoWakeupLost
  <2>3. PhaseOK' /\ ProducerOK' /\ CallbackOK' /\ SemaphoresAgree'
    BY PhaseStep, ProducerStep, CallbackStep, SemaphoreStep
  <2>4. TakenDown' /\ QueueConsistent'
    BY <2>3 DEF TakenDown, PhaseOK, ProducerOK, CallbackOK, QueueConsistent
  <2> QED
    BY <2>1, <2>2, <2>4 DEF IInv
<1> QED
  BY <1>1, <1>2, PTL DEF Spec

-----------------------------------------------------------------------------
(* Theorems                                                                  *)

\* Every variable keeps its type and every counter its bound, for any number of posters, any
\* capacity and any delays (gd/os/handler.cc, gd/os/queue.h).
THEOREM TypeCorrect == Spec => []TypeOK
<1>1. IInv => TypeOK
  BY DEF IInv
<1> QED
  BY <1>1, Invariant, PTL

\* No packet is lost, repeated or overtaken between the HAL and the router, through two queues,
\* two locks and two callbacks, until the buffer is cleared by a stop (gd/os/queue.h).
THEOREM PacketsInOrderHolds == Spec => []PacketsInOrder
<1>1. IInv => PacketsInOrder
  BY DEF IInv
<1> QED
  BY <1>1, Invariant, PTL

\* The semaphores count the queue's places and the buffer is registered exactly when it holds a
\* packet, wherever the HAL thread, the stack thread and the stop stand (Enqueue, Clear,
\* enqueue_callback, EnqueueCallbackInternal, TryDequeue).
THEOREM QueueConsistentHolds == Spec => []QueueConsistent
<1>1. IInv => QueueConsistent
  BY DEF IInv
<1> QED
  BY <1>1, Invariant, PTL

\* No closure is left without an event or an alarm that will come for it, although both are
\* given outside the handler's mutex (gd/os/handler.cc).
THEOREM NoWakeupLostHolds == Spec => []NoWakeupLost
<1>1. IInv => NoWakeupLost
  BY DEF IInv
<1> QED
  BY <1>1, Invariant, PTL

\* No assertion of handler.cc or queue.h fails and no callback outlives the queue; what can fail
\* at all fails while the stack is taken down, in the three ways that are listed.
THEOREM FailsOnlyInTeardownHolds == Spec => []FailsOnlyInTeardown
<1>1. IInv => FailsOnlyInTeardown
  BY DEF IInv
<1> QED
  BY <1>1, Invariant, PTL

=============================================================================
