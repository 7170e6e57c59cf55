# Verification of the Bluetooth stack's HCI core

This directory holds TLA+ models of the HCI core of the Android Bluetooth stack
(`system/gd/hci`), of the runtime it stands on (`system/gd/os`) and of one protocol
above it (`system/stack/rfcomm`), the TLC configurations that check them on small
instances and the TLAPS proofs of what holds for every instance. Paths below are
relative to the repository; `PROJECT.json` maps each definition to the lines it
models.

1. [The system](#1-the-system)
2. [Plan](#2-plan)
3. [Modules and code](#3-modules-and-code)
4. [Runs](#4-runs)
5. [Fairness](#5-fairness)
6. [Proofs](#6-proofs)
7. [Findings](#7-findings)
8. [What is not modelled](#8-what-is-not-modelled)

## 1. The system

The repository is a complete stack: Java services (`android/app`, `service`,
`framework`), the profiles and the JNI interface (`system/bta`, `system/btif`),
the host protocols (`system/stack`: L2CAP, GATT, SMP, RFCOMM, AVDTP ...), and below
them the "gd" core (`system/gd`) that owns the controller. Everything above talks
to the controller through the core, by closures, callbacks and queues, on one
stack thread with a few others posting to it. The ordering, credit, timeout and
ownership rules that the rest of the stack relies on are the core's, and most of
its assertions abort the process. That makes the core the place to start.

### Components of the core

**HCI layer** (`hci/hci_layer.cc`).
*State*: `command_queue_`, `waiting_command_`, `command_credits_`,
`hci_timeout_alarm_`, `hci_abort_alarm_`; the maps of event handlers; the ACL, SCO
and ISO queues.
*Operations*: `EnqueueCommand` posts `enqueue_command`; `on_hci_event` dispatches
answers, root inflammation, hardware errors; `send_next_command`;
`on_hci_timeout`; the abort alarms; registration of event handlers;
`Get…Interface`/`Put…Interface`.
*Interactions*: clients on any thread and the HAL thread post closures to the
layer's handler; callbacks are posted to the clients' handlers; `Stack::Stop`
clears the handler and the destructor cancels the alarms.
*Hard*: an answer races with its timeout; credits are withheld and come later in
an event of their own; alarms replace each other; commands are recognised by
operation code only; shutdown with everything in flight.
*Correct when*: one command is outstanding, it is the head of the queue and some
alarm watches it; a credit and a waiting command never sit idle together; every
callback gets the answer to its own command; every command is answered or the
process ends.

**Round robin scheduler** (`hci/acl_manager/round_robin_scheduler.cc`).
*State*: `acl_queue_handlers_`, `fragments_to_send_`, credits of the two
transports, `enqueue_registered_`, `starting_point_`.
*Operations*: `Register`, `Unregister`, `SetLinkPriority`, `start_round_robin`,
`buffer_packet`, `handle_enqueue_next_fragment`, `incoming_acl_credits`.
*Interactions*: a dequeue callback on each connection's queue, an enqueue callback
on the HCI layer's queue, `NumberOfCompletedPackets` from the controller module.
*Hard*: credits are counted per fragment although a packet is taken as a whole; a
link goes down with fragments pending here, below and in the controller; wakeups
exist only at "credit was zero" and "queue became empty".
*Correct when*: credits are conserved, the controller is never overrun, packets
are not interleaved, iterators stay valid, and every packet of a live link is sent.

**LE address manager and its clients** (`hci/le_address_manager.cc`,
`le_impl.h`, `le_scanning_manager_impl.cc`, `le_advertising_manager_impl.cc`).
*State*: `registered_clients_` with a state per client, `cached_commands_`,
`cached_address_`, `le_address_`, the rotation alarm; per client its own flags
(`address_manager_registered`, `pause_connection`, `arm_on_resume_`, …).
*Operations*: register and unregister, pause and resume with acknowledgements,
rotation, IRK update, accept list and resolving list changes.
*Interactions*: every call crosses the handler as a closure; the client's flag
changes when it posts and the manager's state when it runs.
*Hard*: acknowledgements are duplicated, late, or cross with a departure; a client
registers between the read of `registered_clients_` and the pause; a cancel of a
connection attempt races with its completion.
*Correct when*: commands go out only when every client is paused, every paused
client is resumed, nothing cached is forgotten, rotation stays scheduled.

**ACL scheduler, classic connections and remote names** (`acl_scheduler.cc`,
`classic_impl.h`, `remote_name_request_impl.cc`).
*State*: `outgoing_entry_`, `pending_outgoing_operations_`,
`incoming_connecting_address_set_`; `pending_`, `on_remote_name_complete_`; the
connections.
*Operations*: enqueue a connection or a name request, cancel either, the
completion reports, incoming connections.
*Interactions*: three modules on one handler or on three
(`same_handler_for_all_modules`), and one controller that can page only one device
at a time.
*Hard*: a cancellation races with completion; some controllers report a cancelled
name request as a failed connection; incoming connections block the queue.
*Correct when*: what the controller does is what the scheduler believes it does,
each client is told once, by the event about its own request, and every
request is answered.

**The runtime** (`os/handler.cc`, `os/queue.h`, `main/shim/stack.cc`).
*State*: the handler's `tasks_`, `delayed_tasks_`, alarm and event; the queue with
its two semaphores and endpoints; the `EnqueueBuffer` in front of it; the reactor's
registrations and the callback it executes.
*Operations*: `Post`, `PostWithDelay`, `handle_next_event`, `handle_delayed_event`,
`Clear`, `WaitUntilStopped`; `Enqueue`, `enqueue_callback`, `TryDequeue`, register
and unregister; `Stack::Stop` and the destructors.
*Interactions*: four kinds of threads (stack, HAL, posters, the one that stops) meet
in three mutexes, an event counter and a wait with a timeout.
*Hard*: notifications outside the lock, a callback that runs while it is
unregistered, a wait for a callback that waits for the waiter's lock, teardown in
reverse order of construction.
*Correct when*: no packet is lost or overtaken, no wakeup is lost, a stop ends, and
nothing fails before the stack is taken down.

**Receive path** (`hci_data_router.h`, `assembler.h`, `main/shim/acl.cc`).
*State*: `waiting_packets_` and their alarm; per connection `recombination_stage_`,
`incoming_queue_`, `enqueue_registered_`; the queue to the shim.
*Operations*: `dequeue_and_route_acl_packet_to_connection`, `retry_unknown_acl`,
`on_incoming_packet`, `on_data_ready`, `data_ready_callback`, connecting and
disconnecting.
*Interactions*: connection events and packets come on two ways that are ordered
each by itself only.
*Hard*: packets before their connection is announced and after it is gone, handles
that are reused, fragments that do not add up, a host that does not read.
*Correct when*: each connection gets its packets in order, PDUs are exactly what was
sent, memory is bounded, and nothing complete is forgotten.

### One protocol above the core

**RFCOMM** (`stack/rfcomm`), over the channels of `stack/l2cap`.
*State*: one multiplexer control block per peer (`state`, `lcid`, `is_initiator`,
`restart_required`, `collision_outgoing_lcid`, its timer, `port_handles`), the table
of ports (two state machines, DLCI, timer, expected responses) and `rfc_lcid_mcb`.
*Operations*: create and remove connections and servers; the callbacks of L2CAP;
frames on DLCI 0 and on the ports; the timers; the end of a security check.
*Interactions*: two devices run the same machine against each other; L2CAP and the
security manager call back.
*Hard*: both devices open a multiplexer at once; a retry over the channel kept
aside; a port that opens while the multiplexer closes; timers and late answers;
loss of the link at any time.
*Correct when*: the tables agree, the two devices agree on role, channel and state,
and whoever waits is watched by a timer.

**Others**: the controller module, advertising, distance measurement, vendor
extensions, the HAL and its logger, the storage, and the other parts above the core
are listed in `PROJECT.json` with the reason for their status; the hazards of the
code are listed there line by line.

## 2. Plan

Order: what everything else depends on first.

| step | module | state |
|------|--------|-------|
| 1 | `HciLayer`, abstract `CommandService`, `HciLayerRefinement`, `HciLayerProofs` | done |
| 2 | `RoundRobinScheduler` with queues and controller buffers | done |
| 3 | `LeAddressManager` composed with le_impl and scanners | done |
| 4 | `AclScheduler` composed with classic connections, name requests, controller | done |
| 5 | `StackThread`: `Handler`, `Queue`, `EnqueueBuffer`, reactor and teardown on four kinds of threads | done |
| 6 | `AclReceivePath`: router with its retry timer, assembler and its bounded queue, shim | done |
| 7 | `Rfcomm`: multiplexers and ports of two devices over L2CAP channels | done |
| 8 | proofs: `HciLayer` and that it implements `CommandService`, `RoundRobinScheduler`, `StackThread`, `AclReceivePath`; types and rotation of `LeAddressManager`; types and handles of `Rfcomm` | done |
| 9 | proofs: agreement and assertion of `LeAddressManager`; the invariants of `AclScheduler`, up to its two races; agreement of the two devices of `Rfcomm` | done |
| 10 | `HciEventDispatch`: event handler registration, shared lists of the `Get`/`Put` interfaces | to do |
| 11 | the advertiser as a client in `LeAddressManager`; scans lost over a second pause | to do |
| 12 | announcing LE connections; what becomes of `AclScheduler` after one of its two races | to do |

What the plan leaves to model-checking, and why, is said at the end of section 6.

## 3. Modules and code

In the modules of the core a handler is a sequence of closures (`tasks`) run one at
a time, oldest first, by one action per closure: that is
`Handler::handle_next_event`, and `StackThread` is where the threads and locks under
it are modelled.
An action covers the whole closure with every synchronous call it makes; where the
code calls a helper after assigning members, the helper is an operator whose
arguments are the values just assigned. Only a posted closure, an alarm, a queue
callback or a controller event starts another action. Names are those of the code.
A definition whose comment begins with *Mutation* is a plausible wrong version of
the definition after it and is used by no specification; it shows that the
property named with it in `PROJECT.json` can fail.

### HciLayer

| model | code |
|-------|------|
| `EnqueueCommand` / `enqueue_command` | the client's call / the closure it posts |
| `send_next_command` | the same, with the values its caller assigned |
| `handle_command_response` = `grant_credits`, `fail_assertion`, `discard_late_answer`, `accept_answer` | its four ways out |
| `handle_root_inflammation`, `on_hardware_error` | the same |
| `on_hci_timeout`, `abort` | the alarms; they run outside the handler, so `Stop` does not stop them |
| `fail_if_reset_complete_not_success` | callback of the constructor's reset |
| `Stop`, `Destroy` | `Stack::Stop` (handler cleared), `~HciLayer` |
| `ControllerAnswers`, `ControllerLoses`, `ControllerReports` | external controller and HAL thread; at most `MaxReports` events that answer no command wait at a time |

Commands are an operation code, the kind of answer expected and a number that the
code does not have and the model never branches on; it is what lets
`AnswerMatches` say "its own". `fate` records why the process ended. Assertions
that fail set `fate`, so that "no assertion fails" is a property and not an
assumption.

`CommandService` is the contract clients rely on: answers in the order of posting,
nothing skipped or repeated, commands dropped only once, by a failure that dooms
the process. Pending commands are a set of numbers, given in the order of posting.
`HciLayerRefinement` maps the commands in the queue and in the posted
`enqueue_command` closures to it. The layer's own debug command, which
`on_hci_timeout` sends and no client posted, is not among them; its answer is a step
that no client sees.

### RoundRobinScheduler

Connection queues above, the HCI layer's queue (bounded by `HciQueueDepth`) and the
controller's buffers below. A packet is a number and a count of fragments; the
controller keeps the last fragment of each link, which is what `FragmentsInOrder`
compares with. `starting_point_` is `SINGULAR` until it is first assigned, since a
default constructed iterator may not be dereferenced or compared. The place where
a round starts matters only for the iterator: a round registers the dequeue
callbacks of all connections with credits. Sums over handles are counts of pairs
(`Pending`, `Sum`), and `FragmentsInOrder` compares each position of the path from
the last fragment buffered through the HCI queue to `fragments_to_send_` with the one
before it of the same link.
The controller ignores fragments of links it does not have and does not reuse a
handle while anything of the old link is under way.

### LeAddressManager

The manager, any number of scanning managers and le_impl. The address computation
is abstracted to numbers in the order of generation. `gone` in the operators of
the manager is the client that is leaving: `unregister_client` acknowledges the
pause on its behalf, which may send a command or resume the others before the
client is erased. le_impl connects to a new device (`Connect`) or, with other parameters,
to one that is in the accept list (`ConnectAgain`), which cancels the attempt under way and
starts it anew when the cancellation is reported (`arm_on_disarm_`, the field `again`). The
command that starts an attempt may be refused (`arm_failed`). `connecting_le_` is kept as
whether it is empty and whether it may hold devices that have left the accept list
(`kept`), since only `clear_filter_accept_list` leaves them there. A cancellation of a
connection attempt that le_impl sent before the
attempt ended (`LateCancel`) is a command like the others and is answered in its turn,
with the client perhaps gone or connecting anew. Operations that start while more than `MaxTasks` closures wait
are cut off by the bound. Controller side rotation (`IsRpaGenerationSupported`) and the static
policy are left out.

### AclScheduler

The scheduler, `RemoteNameRequestModuleImpl` and the connection part of
`classic_impl`, each with its handler or all on one (`SameHandler`). `hci` holds
commands on the way down and `air` what the controller does: a page, a name
request, an incoming connection, a link. `told` records, per request, the request
each answering event was really about; the code does not know it, and
`AnsweredByOwn` is about exactly that. Client callbacks only post to the client's
own handler and appear as `Tell`. One completion answers both a page and an
incoming connection of the same device. `FixInAndOut` is the flag
`acl_fix_in_and_out_connection_reqs`: it is TRUE in the runs and matters only for
a device that calls and is paged at the same time. `CancelKinds` says which kinds of
request are ever cancelled: both in the run, and any in the theorems.

### StackThread

| model | code |
|-------|------|
| `Post`, `Notify` | `Handler::Post`, under the mutex and after it |
| `PostWithDelay`, `RescheduleAfterPost` | the same for delayed closures |
| `HandleDelayedEvent`, `NotifyDelayed`, `RescheduleAfterEvent` | the three sections of `handle_delayed_event` |
| `HandleNextEvent`, `RunClosure` | `handle_next_event` |
| `Enqueue`, `EnqueueCallback`, `EnqueueCallbackInternal` | the HAL's packet into the buffer, from the buffer, into the queue |
| `TryDequeue`, `Route` | `dequeue_and_route_acl_packet_to_connection` |
| `Begin`, `Tick`, `Finished`, `TimesOut` | reactor, clock, wait for an unregistered reactable (external) |
| `HandlerClear`, `AlarmCancel`, `HandlerUnregister` | `Handler::Clear`, under the mutex and the two calls after it |
| `WaitUntilStopped` ... `DestroyQueue` | the rest of `Stack::Stop` with one handler for all modules, `~HciLayer` and the members it destroys |

A section under a mutex is one step unless it waits in there, which only
`EnqueueBuffer::Clear` does. Closures are alike, so `tasks_` is a count;
`delayed_tasks_` is a set of numbered closures with the time each is due. Time is in
milliseconds because `reschedule_delayed_tasks` rounds to one and
`handle_delayed_event` takes what is due within one. The repository has only the
declarations of the reactor, the alarm and the semaphore; they are modelled from
them and from their use. `fate` records a failed assertion or a use of something
destroyed.

### AclReceivePath

The router is one action per callback, with the retry of what waits included:
`retry_unknown_acl` is the loop of the code, one `Route` per packet, and gives the
assemblers and the packets that stay unsent. Fragments carry the link they were
received on, which the code does not know: handles are reused and the properties are
about that; they are numbered in the order received. An assembler is a record so that
one step of the router can hand it several packets in order. `handed` and `congested`
are history. `HandedInOrder` is about the `Path` of a link: what its assembler got,
what waits and what is not dequeued yet. `Pdus` defines what the PDUs in a sequence of fragments are
without reference to the algorithm, and `ReassemblesExactly` compares.
`IGNORED` and `INVALID` are the packets that the assembler and the router drop
unseen. A fragment of size 0 is too short for the length field. Any fragment may come
first on a link, a continuation too; only a link that takes over the handle of another
one begins with a first fragment, as its controller would send it. Without that the
continuation would complete a PDU of the old link (`ReassemblesExactly` fails).

### Rfcomm

Handlers run to completion on the main thread and call each other deeply, in an
order that matters (`port_rfc_closed` may close the multiplexer under its caller).
Each function is therefore an operator from the state of a device to its next state,
with the name of the function; what it sends is collected in `out`, and one action
runs one handler. A device has one multiplexer, a client port and a listening port of
the same server channel, so a frame can find either. L2CAP is the part of
`l2c_csm.cc` that RFCOMM sees: connect, configure (the request and the response that
are sent together are one message), refuse, time out, disconnect. The flags
`rfcomm_fix_mux_collision_handling` and `fix_socket_connection_failed_no_callback`
are on. A null `p_mcb` that is dereferenced sets `fate` and ends the behaviour.

## 4. Runs

States are distinct states found by TLC. `CHECK_DEADLOCK FALSE` is set everywhere:
each system may come to rest (no client asks for anything more, or the process has
ended), and progress is stated by the liveness properties instead.

| run | states | what it shows |
|-----|--------|---------------|
| `hci_in_order` | 507 k | controller that answers in order, late, or never: `WaitingIsHead`, `Watchdog`, `NoStalledCommand`, `NoAssertFailure`, `AnswerMatches`, and `CommandsResolve`: every command is answered, or the process ends, or the stack stops |
| `hci_any_order` | 987 k | controller that answers in any order: assertions fail only between a timeout and its abort (`AssertOnlyAfterTimeout`), and the layer implements `CommandService` (`ServesInOrder`) |
| `scheduler_safety` | 1.3 M | credits and buffers (`CreditsMatchBuffers`), `FragmentsInOrder`, the iterator (`StartingPointValid`) and the preconditions of the callbacks (`CallbacksReady`), with links that go down |
| `scheduler_live` | 72 k | `PacketsAreSent`, without disconnections |
| `le_address` | 664 k | for all operations: `AssertOnlyWhenPaused` (the assertion on cached commands fails only in the closure of a resolving list change, after le_impl has acknowledged a pause), `RotationScheduled`, `ClientsAgree` (on who is registered, no acknowledgement is owed and nobody is taken for paused who is not), and, while no connection completes, `ClientsAreResumed` |
| `le_address_stranded` | violation | finding (a) |
| `acl_scheduler` | 176 k | a connection and a name request, one of them cancelled, against an incoming connection, on three handlers: `OperationIsOutgoing`, `AnsweredByOwn`, `RequestsAreAnswered` |
| `acl_scheduler_started_twice` | violation | finding (b) |
| `stack_thread` | 130 k | `PacketsInOrder`, `QueueConsistent`, `NoWakeupLost`, `FailsOnlyInTeardown`, and the liveness `WorkIsDone` and `StopEnds` |
| `acl_receive` | 1.9 M | `HandedInOrder`, `ReassemblesExactly`, `QueueBounded`, `NoneForgotten` |
| `rfcomm` | 918 k | two devices, collisions, restarts, timeouts, refusals, link loss: `HandlesAgree`, `DevicesAgree`, `MuxWatched` |
| `rfcomm_direction` | violation | finding (c) |

**Bounds.** *HciLayer*: the reset and two commands (`MaxCommands` 3), so that one
can be outstanding, one queued and one posted; one operation code of each
answering kind, so that two commands of the same code occur; grants of 0 and 1
because the code compares credits with 0 only. `MaxReports` is 1; with 2 the run in any
order has 10.5 M states and passes.
*RoundRobinScheduler*: two handles of either transport and three connections, so
that a handle is used twice; credits 2 and 1, with packets of 1 and 3 fragments, so
that a packet fits or does not, on both transports; the HCI queue holds one
fragment, which makes every enqueue wait. Without disconnections (`scheduler_live`)
two connections and three packets of two fragments. *LeAddressManager*: le_impl and a
scanner; a scan started twice and one operation of the nine kinds that are counted, or
once and two operations, and any number of completed connections and refused attempts, so that a connection completes
while another device is still waiting for one; at most three closures posted when an
operation starts. *AclScheduler*: one request of each kind,
one cancellation of either and one incoming connection. With two name requests and a
cancellation `OperationIsOutgoing` and `AnsweredByOwn` fail (section 7); what holds of any
number is what section 6 proves. Devices that call and devices
that are called are disjoint, except in the violation run, so the run does not reach the
collisions at `acl_scheduler.cc:68` and `:189` and at `classic_impl.h:698`; the proofs
have no such restriction. *StackThread*: two posters
and two closures, posted or delayed by one or two milliseconds, so that delayed
closures come in either order and both become due at once; three packets through a
queue of two places, so that the queue fills up while the buffer holds one. The
capacity in the code is 3; nothing depends on it but the semaphores. *AclReceivePath*:
one handle used twice, three fragments of up to two units, a queue that is full with
one packet and a shim that takes one: each of the two retries, the congestion and
every way a PDU can be malformed needs at most three fragments. *Rfcomm*: two opens,
so that both devices open at once or one twice, one close, one fault and two channels
per device, so that a multiplexer can start again. With a channel for every open
`L2CA_ConnectReq` does not fail in this run; with `MaxChannels = 1` it fails as it does
when there are no control blocks left. The proofs cover that (section 6), but for one
case that needs two closes; with `MaxChannels = 1`, `MaxCloses = 2` and no fault (2.7 M
states) TLC reaches that case and the four invariants hold. The two devices are symmetric and the run uses that; it has no liveness
property.

## 5. Fairness

Everything on the stack thread is weakly fair: its reactor serves every handler
and every ready queue, and alarms expire. This is what `WF` on `StackThread`,
`Handler`, the queue callbacks and the three groups of steps of `AclScheduler`
says; the module `StackThread` shows it of the reactor itself, from the fairness of
the operating system (each thread runs, the clock goes on, a stop that has begun
continues). Clients, scans, disconnections, address rotation and incoming connections
are never fair. What is assumed of the controller:

- `HciLayer`: nothing about answers (it may lose any command). A controller that
  has withheld its credits grants one some day: strong fairness, because the event
  may be interrupted by others. Without it a command waits with no alarm running,
  as `send_next_command` arms one only when it sends.
- `RoundRobinScheduler`: what it has buffered it completes.
- `LeAddressManager`: it answers commands and ends an attempt that is being
  cancelled.
- `AclScheduler`: it answers commands, and pages and name requests end (page
  timeout). Weak fairness of "some operation ends" is enough, since they are few.

## 6. Proofs

Eight modules hold theorems, all for every choice of the constants under the named
assumptions of the modules (finite or numeric sets where the code has finite maps or
unsigned numbers, bounds that are naturals, reserved operation codes that no client
uses; two devices in `Rfcomm`). None of these restricts what the code may meet. Some
theorems are about part of the behaviours only, and say so in their statement:
`NoAssertFailureHolds` and `AnswerMatchesHolds` about a controller that answers in order;
`OperationIsOutgoingHolds` and `AnsweredByOwnHolds` about behaviours in which neither of
two races occurs (`Undisturbed`), although the code admits both; `DevicesAgreeHolds` and
`MuxWatchedHolds` about behaviours in which no multiplexer is left stray (`NeverStray`),
which the code admits as well, and `DevicesAlwaysAgree` about instances in which L2CAP never
runs out of channels. Where a theorem states a property that a run checks, `PROJECT.json`
names both.

| module | obligations | theorems |
|--------|-------------|----------|
| `HciLayerProofs` | 2 181 | `TypeCorrect`, `WaitingIsHeadHolds`, `WatchdogHolds`, `NoStalledCommandHolds`, `AssertOnlyAfterTimeoutHolds`; for a controller that answers in order `NoAssertFailureHolds`, `AnswerMatchesHolds`; `ServesInOrderHolds`: the layer implements `CommandService` |
| `RoundRobinSchedulerProofs` | 4 856 | `TypeCorrect`, `CallbacksReadyHolds`, `AssertionsHold`, `CreditsMatchBuffersHolds`, `FragmentsInOrderHolds`, `StartingPointValidHolds` |
| `StackThreadProofs` | 2 135 | `TypeCorrect`, `PacketsInOrderHolds`, `QueueConsistentHolds`, `NoWakeupLostHolds`, `FailsOnlyInTeardownHolds` |
| `AclReceivePathProofs` | 1 954 | `TypeCorrect`, `QueueBoundedHolds`, `NoneForgottenHolds`, `HandedInOrderHolds` |
| `LeAddressManagerProofs` | 3 134 | `TypeCorrect`, `RotationScheduledHolds`, `AssertOnlyWhenPausedHolds`, `ClientsAgreeHolds` |
| `AclSchedulerProofs` | 4 158 | `TypeCorrect`; in every behaviour without the two races named by `Undisturbed` `OperationIsOutgoingHolds`, `AnsweredByOwnHolds` |
| `RfcommProofs` | 2 634 | `TypeCorrect`, `HandlesAgreeHolds`; what holds of one channel |
| `RfcommAgreementProofs` | 7 618 | when no multiplexer is left stray `DevicesAgreeHolds`, `MuxWatchedHolds`; both without that condition when L2CAP has a channel for every open (`DevicesAlwaysAgree`) |

**HciLayer.** Types first, one lemma per action, the sending helper (`SendTypes`)
stated once. Then
`CommandInv == WaitingIsHead /\ Watchdog /\ NoStalledCommand /\ AbortReplacesTimeout`.
The last conjunct is the strengthening: an answer sends the next command only if
the timeout alarm still exists, so `NoStalledCommand` survives `accept_answer` only
if a missing alarm implies a scheduled abort; the same holds for `Watchdog` when a
command is sent without an alarm to arm. `SendInv` is the core lemma: whatever
queue, credit and alarm a caller hands to `send_next_command`, the result satisfies
`CommandInv`, provided that a `null` alarm comes with an abort and that a command
already outstanding is the head and is watched.

The assertions and `AnswerMatches` need the way of a command to the controller and of
its answer back (`OrderInv`). `Pipe` says that every command or answer under way is the
head's or a late one that the layer will recognise as such, and that the one with the
operation code waited for is the last. With answers in any order this is
true until a timeout puts the debug command in front (`Orderly`), which is why
`AssertOnlyAfterTimeout` is all that holds of such a controller; with answers in order
it is true until the layer is destroyed. `DebugOnlyAfterTimeout` closes the induction:
clients never send the debug command and there is one timeout at most.

**That HciLayer implements CommandService.** Every step of the layer is first shown to
be of one of a few kinds by what it does to the queue, the closures and the answers
(it posts, it moves a closure to the queue, it answers the head, it drops the head for
the debug command, it ends, it stutters), and each kind to be a step of the service or a
stutter under the mapping. The invariant `RefInv` is the order this needs: the numbers
in the queue followed by those in the closures increase and stay below `posted`
(`Line`), so that the head is the oldest; and the debug command is in the queue at most
once and answered at most once (`OwnOnce`).

**RoundRobinScheduler.** `Inv` has five parts. `Lifecycle`: which closures about a
connection may be posted in which order, and what the controller and the scheduler know
of it meanwhile (a `Register` comes before everything, an `Unregister` after
everything). `OnePacket`: the fragments to send are what is left of one packet, in one
priority. `Accounted`: `number_of_sent_packets_` covers the fragments that wait, are in
the HCI queue, in the controller's buffers, or are completed in a posted closure; this
is what keeps the subtraction in `incoming_acl_credits` above zero. `Conserved`: credits
and sent packets of a type add up to the controller's buffers plus what is not sent.
`Streams`: the fragments of a link along the whole path follow each other. `Ready` and
`Points` are the properties about callbacks and iterator in the same form. Sums over a
sequence are stated by a witness (`IsSum`), since the provers have no induction over
data; sums over handles are cardinalities, and take `IsFiniteSet(Handles)`. From `Inv`
each property follows by a lemma of its own.

**StackThread.** The conjuncts of `IInv` beyond the five properties are `RunningOK`
(where each callback of the reactor may stand), `ClosuresCounted` (a closure accepted is
in one place, and is notified at most once), `CallbacksServed` (the reactor runs a
queue's callback only while its semaphore is positive, and nobody else takes from it
before the callback does) and `TakenDown` (what each phase of a stop has taken down
and which callbacks may still run then). `NoWakeupLost` is inductive only with the
count: an event may be given before or after the closure it is for was taken.
`FailsOnlyInTeardown` rests on `TakenDown`: before a stop reaches
the buffer, a callback that runs is registered and has its packet.

**AclReceivePath.** `Inv` is `TypeOK`, the two properties that are inductive with it
(`QueueBounded`, `NoneForgotten`) and `RouteInv`: handles stand for links that were
announced, connection events come first (`Connected`, `Announced`); what waits was
received before what is still to be dequeued (`OnTheWay`); what the link of a handle got
was received before both (`Delivered`, `NotOvertaken`); and of what a live link was sent
nothing is missing after the first that is left (`NoGaps`). The retry is a loop over any
number of packets: the lemma about it shows that the loop's function exists and that
each `Route` keeps the invariant of the loop, by the least counterexample (`Reached`, from
the well-foundedness of the naturals). `HandedInOrder` follows from `RouteInv` alone.

**LeAddressManager.** `Inv == TypeOK /\ AddressesGenerated /\ RotationScheduled`.
`AddressesGenerated` bounds every address on its way to the controller by the last one
generated, which `TypeOK` of the host's and the controller's address needs. The manager's
functions call each other, so there is a lemma per function, each stated for any departing
client `gone`. The other two properties need `Sound == Agreement /\ AssertOnlyWhenPaused`
with it. `Agreement` follows, client by client, every closure on its way from the client
to the manager: the last `register_client` or `unregister_client` that waits decides
whether the manager will know the client, and agrees with the client's own flag
(`Registers`); an acknowledgement of a pause that waits is true of the client or is taken
back by a later one (`Fresh`); whoever the manager is waiting for has an answer in a closure, or is le_impl with a
cancellation at the controller, and who is taken for paused is or will say otherwise
(`Answers`); and when the closure of a resolving list change runs, le_impl is registered
(`HandlesFor`). The clients that are told to pause
are visited in the order of a map; that such an order exists is shown by the least
counterexample from `IsFiniteSet(Clients)`. The attempt to prove that the assertion never
fails is what found the counterexamples of section 7.

**AclScheduler.** `TypeOK` is inductive with the sets that closures, commands and
operations are taken from (`Types`). The other two theorems are about all constants too:
any number of requests, cancellations of both kinds, and calls from devices that are called
as well. `OperationIsOutgoing` and `AnsweredByOwn` do not hold of every behaviour, because
of the races of section 7; the theorems have the form
`Spec /\ []Undisturbed => []OperationIsOutgoing`, where `Undisturbed` says of a state that
neither of two things is the case:

- `OutgoingIsConnecting`: the outgoing operation is to a device that is connecting to us
  at that moment. Only then can a completion matched by address be taken for another
  one, and a name request be started beside another operation.
- `CancelIsLate`: a cancellation that has failed, since its name request was over, is
  about to be taken for the end of the request that is pending now.

So the theorems say that these two are the only ways in which the code comes to confuse
operations or answers: a cancellation of a name request reported as a connection nobody
knows, a cancellation in any other order, a call of a device whose request is still
queued, or was answered, do not. Neither half can be dropped: with callers that are called
and cancellations of both kinds TLC confirms both properties where `Undisturbed` holds, and
finds each violated when either half is left out.

`Inv` has three parts beyond `Types`. `Contents`: every closure, command and operation that
carries a request is about the outgoing one, and whatever brings the end of a name request
(`NameEnds`, the report of an unknown connection included) is about the one whose callback
is kept. `Requests`: a request is in at most one of the places from
which its client is told, and in at most one of those from which the scheduler learns of
its end, and its client was told nothing while one of the first is left; places and roles are what make "matched by
address" and "matched by whatever is pending" safe. `Calls`: per caller, a device is entered
in `incoming_connecting_address_set_` before the closure of its completion runs, so that a
completion never frees the outgoing entry by mistake unless the outgoing operation is to
that very device (`OutgoingIsConnecting`). Since one handler step can report
several things, the invariant is also stated over explicit arguments (`Whole`) and there
is a lemma per helper (`DequeueWhole`, `AnsweredWhole`, `EndedWhole`, ...).

**Rfcomm.** `Inv` says that every device satisfies `IsDevice` and that every frame in
flight names a channel and a DLCI that exist. `IsDevice` is the types of one device and
`Agree`: a handle in `port_handles` is that of a port attached to the multiplexer and on
that DLCI, and an attached port is in use and has a DLCI. That last part is the
strengthening: a function that clears `port_handles[dlci]` of a port removes the right
entry only if the port has one. The handlers call each other deeply, so `IsDevice` is
stated of a device in the middle of a handler too: there is a lemma per field that a
function assigns, then one per function of the code, from the leaves
(`port_release_port`, `rfc_port_closed`) up to the handlers, each showing that the
function keeps `IsDevice` whatever device it is called on. A port that is not attached is
reached only by the events that are not looked up through the table, its timer and the
end of its security check; the lemmas about the port's state machine have that as their
hypothesis and the action lemmas discharge it.

`DevicesAgree` and `MuxWatched` say what holds when nothing is in flight, and rest on
what everything in flight means. `AgreedInv` is `Inv` and, of each device p, `Good`,
which has three parts. `Fine` is about every channel and both queues. A device sees a
channel as its `View` says: not asked for yet, asked for, being configured, open and
spare, or in the state of the multiplexer that uses it. `Handshake` ties the two views and
the signals of L2CAP on their way; `Dialogue` does the same for SABME, UA, DM and DISC,
and says when one end may be connected without the other; `Awaited` says that whoever waits
for an answer has one coming, or the question is still on its way to a device that
will answer. `Ordered` relates two channels of one owner: it is what shows that a
late channel is never configured in the midst of the dialogue over a newer one, after a
timeout and a new attempt. `Tidy` is about the device between two handlers: the role is
that of whoever opened the channel, the channel is as far as the multiplexer is, the
channel kept aside in a collision is the device's own and its two flags are those of its
state in L2CAP, and a multiplexer that waits for SABME has a timer.
`Signed` says that the frames carry the role of their sender, so none is dropped as a bad
frame (`BadFrame`) on the channel in use.

`Good` does not hold in the middle of a handler. The functions of the ports are shown to be
`Calm` (they send what belongs to the dialogue, and close the multiplexer at most);
those of the multiplexer have a lemma each that starts and ends in `Good` or in a named
intermediate state (`Restated`, `Turns`, `Forgotten`, ...). `Mirrored` and
`StepAgreed` turn the view of the device that ran into that of the other.

One case is left out of `DevicesAgreeHolds` and `MuxWatchedHolds` by the condition
`NeverStray`. A multiplexer is to start again for a port that is closed before the
disconnection is over, and then `L2CA_ConnectReq` fails: `rfc_mx_sm_state_disc_wait_ua`
calls `PORT_StartCnf`, no port is there to release it, and it stays in that
state without a channel. The condition can be met: `DevicesAlwaysAgree` proves both
properties of every run when `MaxOpens <= MaxChannels`, with no condition on the run. Its
invariant adds `Thrift`: the channels a device asked for, and the one a pending restart
will ask for, do not exceed the opens so far; every other handler is shown to be
`Frugal`. The other failures of `L2CA_ConnectReq` are covered by the first two theorems.

*Only model-checked.* Liveness (`CommandsResolve`, `PacketsAreSent`,
`ClientsAreResumed`, `RequestsAreAnswered`, `WorkIsDone`, `StopEnds`): fairness and
`ENABLED` are beyond the prover. `ReassemblesExactly`: what `Pdus`, `Total` and
`SelectSeq` compute is defined by recursion on the sequence and would need induction
over data.
No module uses a RECURSIVE operator.

## 7. Findings

Three runs end in a counterexample to what the code's own words say.

**(a) `le_address_stranded`, `le_address_manager.cc:684`.** The first operation of
le_impl may be a resolving list change. It posts `register_client` and looks at
`registered_clients_` before that runs. The manager therefore skips the pause; when
`handle_next_command` runs the client is registered and not paused, so the commands
wait for an acknowledgement that nobody was asked for.

**(b) `acl_scheduler_started_twice`, `acl_scheduler.cc:189`.** A name request for a
device that is connecting to us is declared ready without a look at
`outgoing_entry_`. With another name request under way, `pending_` is still true
and `remote_name_request_impl.cc:122` asserts.

**(c) `rfcomm_direction`, `rfc_mx_fsm.cc:587`.** A client that opens while a
multiplexer initiated by the other device is closing gets the DLCI of that direction.
When the disconnection is over the multiplexer starts again as the initiator and the
port stays where it is: it is opened on `scn * 2 + 1` although `port_api.cc:105` gives
that DLCI to non-initiators only. The swap that a collision makes moves the ports.

Seen in the models or in the code, kept among the hazards and not the subject of a
run:

- *Scheduler*: `buffer_packet` unregisters every connection until its packet is out.
  If that link goes down first and a credit is left, `Unregister` restarts nothing
  (`round_robin_scheduler.cc:103`), and the other links wait until credits run out and
  come back, or until the next `Register`. `PacketsAreSent` fails with
  `Disconnects = TRUE`.
- *Name requests*: a cancellation that loses against the end of its request completes
  the next one (`remote_name_request_impl.cc:209`, then the assertion at `:136`): the
  scheduler forgets a name request that the controller is about to start, and its client is
  told the outcome of the cancellation;
  `CancelAclConnection` of a queued request does not "execute the next request" as
  `acl_scheduler.h:64` says (`acl_scheduler.cc:280`); completions are matched by
  address only (`acl_scheduler.cc:68`).
- *LE addresses*: the assertion of `handle_next_command` (`le_address_manager.cc:622`) is
  reached with the operations connect, cancel, completed connection and resolving list
  change and four requests: the closure of line 684, posted because nobody was registered
  (finding (a)), runs after le_impl has registered and acknowledged a pause whose command
  is already sent. With four requests, too, `ack_resume` overwrites the
  WAITING_FOR_PAUSE of le_impl, which then leaves without acknowledging; the others stay
  PAUSED until the next pause. le_impl registers itself paused again in
  `create_le_connection` (`le_impl.h:1171`) and only the next rotation or list change
  wakes it. Without completed connections, and without attempts that are refused or
  started anew, none of the three occurs (checked with up to five requests). `le_address_`
  takes the last address generated rather than the one that was set (`le_address_manager.cc:803`), and differs from the controller's when
  the first of two commands succeeds and the second is refused; a second `OnPause`
  overwrites `scan_on_resume_` (`le_scanning_manager_impl.cc:1620`).
- *Runtime*: `EnqueueBuffer::Clear` gives up waiting for a callback that waits for its
  mutex, and that callback then takes the front of an empty buffer (`queue.h:143`,
  `:160`); packets are routed after the ACL managers are destroyed
  (`hci_data_router.h:106`); a poster may notify a handler that is gone
  (`handler.cc:61`). `FailsOnlyInTeardown` confines all three to the teardown.
- *RFCOMM*: the security check of a port may end after its multiplexer was released,
  and `p_mcb` is dereferenced (`rfc_port_fsm.cc:313`); the inactivity timer of the
  multiplexer is not stopped when a port attaches with a PN, so that the multiplexer may
  close under it; a server port is marked open even when its multiplexer is already
  closing (`port_rfc.cc`, `PORT_DlcEstablishInd`); a channel kept aside survives the
  release of its multiplexer (`rfc_utils.cc:192`) until L2CAP or the peer closes it.

## 8. What is not modelled

- *In the modelled components*: event handler registration and the SCO and ISO queues
  of the HCI layer (the former is planned); `AclScheduler::Stop`; links once they are
  announced (encryption, roles, modes), which are forwarded to callbacks; the
  advertiser as a client; static and controller-generated LE addresses; data, credits
  and flow control of RFCOMM; L2CAP beyond the life of a classic channel; handles
  reused while fragments of the old link are still being sent; the
  TARGET_FLOSS variants, which are another build.
- *Cases left out or merged in code that is modelled*, module by module:
  - `HciLayer`: only vendor commands the controller does not know are answered by the
    wrong kind of event, so the assertion at `hci_layer.cc:278` is met only there. The
    overload of `EnqueueCommand` for status-or-complete does not look at
    `life_cycle_stopped` (`hci_layer.cc:689`); the flag is set when the handler is already
    cleared, so the closure is dropped in either case.
  - `LeAddressManager`: the policy is set before anybody registers, so the branches for
    `POLICY_NOT_SET` (`le_address_manager.cc:249`, `:385`) are not taken. `ARMING` and
    `ARMED` are not told apart: an attempt may be refused, and its cancellation be under
    way, at any time of it.
  - `AclScheduler`: `stopped_` (`acl_scheduler.cc:183`), with `Stop`; incoming connections
    before a client has registered its callbacks, which are refused without the scheduler
    (`classic_impl.h:255`).
  - `StackThread`: the wait of `WaitUntilStopped` has no timeout, so its assertion
    (`handler.cc:96`) cannot fail: the callbacks it waits for end.
  - `AclReceivePath`: the hops of a completed connection through the scheduler
    (`classic_impl.h:384`, `:338`) are one step, without the assertion that the handle is
    new (`:216`); the shim learns of a disconnection in the step that removes the
    connection, not by a closure; first fragments after a reused handle (section 3).
  - `Rfcomm`: a device has one client and one server port, so a DLCI that is established
    without a port (`port_rfc.cc:438`) does not occur; without data the receive queue is
    empty when a DISC comes (`rfc_port_fsm.cc:517`); `L2CAP_CFG_FAILED_NO_REASON`
    (`rfc_mx_fsm.cc:683`); a device has one multiplexer block, which is used again, where
    the code takes the next idle one, or fails if there is none (`rfc_utils.cc:154`,
    `rfc_l2cap_if.cc:153`); a multiplexer timeout whose port has lost its `p_mcb`, which
    would match every unattached port (`port_rfc.cc:813`). Of L2CAP: connect pending and
    the wait for the information response (`l2c_csm.cc:665`, `:785`); a channel that is
    kept over the end of a link and tried again (`l2c_csm.cc:755`, `l2c_link.cc:316`);
    both devices see the loss of a link at once.
- *In the core*: storage; the HAL and its logger, which are I/O; the packet library
  and its generated parsers; vendor extensions, distance measurement and codecs, which
  forward commands or process signals.
- *Above the core*: BTM, GATT, SMP, AVDTP and the profiles, LE audio, the Java services
  and the Rust GATT server. They are clients of what is modelled here.

The repository has some 465 000 lines of implementation, of which the models
translate about one in a hundred and fifty: most of the rest are profiles, interfaces
to other languages, codecs and tables. The choice is by where the ordering, credit,
timeout and ownership rules of the whole stack are decided, not by size; a model of
a third of the repository would be some twenty projects like this one.
