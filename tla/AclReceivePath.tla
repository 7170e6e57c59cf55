--------------------------- MODULE AclReceivePath ---------------------------
(***************************************************************************)
(* The receive path of ACL data: HciDataRouter (gd/hci/hci_data_router.h)  *)
(* finds the connection of a packet, or keeps the packet for a while when  *)
(* there is none; the connection's assembler (acl_manager/assembler.h)     *)
(* recombines the fragments into L2CAP PDUs and queues them for the shim   *)
(* (main/shim/acl.cc), which passes them to the host stack.                *)
(*                                                                         *)
(* Events and data reach the stack thread on two ways, the closures of the *)
(* handler and the ACL queue (module StackThread): each is in order, but   *)
(* a connection may be announced after its first packet was dequeued, and  *)
(* its packets may be dequeued after its disconnection was handled.        *)
(*                                                                         *)
(* Links are numbered in the order the controller makes them; handles are  *)
(* reused.  A fragment keeps the link it was received on, which the code   *)
(* does not know.  Lengths are in units: a PDU announces its length in its *)
(* first fragment; a fragment of size 0 is one that is too short to hold   *)
(* the length field.                                                       *)
(***************************************************************************)
EXTENDS Naturals, Sequences, SequencesExt

CONSTANTS
    Handles,        \* connection handles
    MaxQueued,      \* kMaxQueuedPacketsPerConnection
    Capacity,       \* capacity of a connection's queue to the shim
    MaxLinks,       \* bound: links the controller makes
    MaxFragments,   \* bound: fragments the controller sends, over all links
    MaxSize         \* bound: length of a PDU and of a fragment

ASSUME ReceivePathAssumption ==
    /\ MaxQueued \in Nat /\ Capacity \in Nat \ {0}
    /\ MaxLinks \in Nat /\ MaxFragments \in Nat /\ MaxSize \in Nat

Links == 1..MaxLinks

VARIABLES
    \* the controller
    handle,            \* the handles of the links made so far
    up,                \* the links that are up
    sent,              \* what was sent on each link
    received,          \* how many fragments, over all links
    \* on the way to the stack thread
    events,            \* connection and disconnection events
    acl_queue,         \* ACL packets
    \* HciDataRouter
    waiting_packets_,
    unknown_acl_alarm_,
    \* the ACL managers: which link each handle stands for, 0 if none
    acl_connections_,
    \* the assembler of each link
    recombination_stage_,
    incoming_queue_,
    enqueue_registered_,
    \* the queue to the shim, and the shim
    queue_,
    shim,              \* of each link: "none", "announced", "open", "closed"
    upward,            \* PDUs passed to the host stack
    \* history
    handed,            \* fragments handed to each assembler
    congested          \* PDUs each assembler dropped because of congestion

controllerVars == <<handle, up, sent, received>>
routerVars == <<waiting_packets_, unknown_acl_alarm_>>
assemblerVars == <<recombination_stage_, incoming_queue_, enqueue_registered_, handed, congested>>
shimVars == <<queue_, shim, upward>>
vars == <<controllerVars, events, acl_queue, routerVars, acl_connections_, assemblerVars, shimVars>>

Flags == {"FIRST", "CONT", "IGNORED", "INVALID"}
Fragments == [link : Links, n : 1..MaxFragments, flag : Flags, size : 0..MaxSize, len : 0..MaxSize]

Init ==
    /\ handle = <<>>
    /\ up = {}
    /\ sent = [l \in Links |-> <<>>]
    /\ received = 0
    /\ events = <<>>
    /\ acl_queue = <<>>
    /\ waiting_packets_ = <<>>
    /\ unknown_acl_alarm_ = FALSE
    /\ acl_connections_ = [h \in Handles |-> 0]
    /\ recombination_stage_ = [l \in Links |-> <<>>]
    /\ incoming_queue_ = [l \in Links |-> <<>>]
    /\ enqueue_registered_ = [l \in Links |-> FALSE]
    /\ queue_ = [l \in Links |-> <<>>]
    /\ shim = [l \in Links |-> "none"]
    /\ upward = [l \in Links |-> <<>>]
    /\ handed = [l \in Links |-> <<>>]
    /\ congested = [l \in Links |-> {}]

-----------------------------------------------------------------------------
(***************************************************************************)
(* The controller and the HAL (external).                                  *)
(***************************************************************************)

Connect(h) ==
    LET l == Len(handle) + 1
    IN  /\ l \in Links
        /\ \A k \in up : handle[k] # h
        /\ handle' = Append(handle, h)
        /\ up' = up \cup {l}
        /\ events' = Append(events, [type |-> "connected", link |-> l])
        /\ UNCHANGED <<sent, received, acl_queue, routerVars, acl_connections_, assemblerVars,
                       shimVars>>

Disconnect(l) ==
    /\ l \in up
    /\ up' = up \ {l}
    /\ events' = Append(events, [type |-> "disconnected", link |-> l])
    /\ UNCHANGED <<handle, sent, received, acl_queue, routerVars, acl_connections_,
                   assemblerVars, shimVars>>

Total(s) == FoldLeft(LAMBDA n, f : n + f.size, 0, s)

\* A PDU may be cut short, may be longer than announced, a continuation may come
\* without a first fragment, and packets that are dropped unseen may come in between.
Shapes ==
    [flag : {"FIRST"}, size : 0..MaxSize, len : 1..MaxSize]
        \cup [flag : {"CONT"}, size : 1..MaxSize, len : {0}]
        \cup [flag : {"IGNORED", "INVALID"}, size : {0}, len : {0}]

\* A link that takes over the handle of another one begins with a first fragment.
Receive(l, shape) ==
    LET f == [link |-> l, n |-> received + 1, flag |-> shape.flag, size |-> shape.size,
              len |-> shape.len]
    IN  /\ l \in up
        /\ received < MaxFragments
        /\ received' = received + 1
        /\ f.flag = "CONT" => \/ \E i \in DOMAIN sent[l] : sent[l][i].flag = "FIRST"
                              \/ \A k \in 1 .. l - 1 : handle[k] # handle[l]
        /\ sent' = [sent EXCEPT ![l] = Append(@, f)]
        /\ acl_queue' = Append(acl_queue, f)
        /\ UNCHANGED <<handle, up, events, routerVars, acl_connections_, assemblerVars, shimVars>>

-----------------------------------------------------------------------------
(***************************************************************************)
(* The assembler.                                                          *)
(***************************************************************************)

\* An assembler as a record, so that several packets can be handed to it in
\* one step of the router.
Assembler(l) == [stage |-> recombination_stage_[l], queue |-> incoming_queue_[l],
                 registered |-> enqueue_registered_[l], congested |-> congested[l],
                 handed |-> handed[l]]

\* The length in the header of what was received, larger than its size while
\* the length field itself is not complete.
ExpectedSize(stage) == IF Total(stage) = 0 THEN 1 ELSE stage[1].len

\* Mutation: one more packet is let into the queue.
CongestedOneLater(a) == Len(a.queue) > MaxQueued + 1

Congested(a) == Len(a.queue) > MaxQueued

\* Mutation: the fragments are kept when the queue is full.
CompleteKeepsStage(a) ==
    IF Congested(a)
    THEN [a EXCEPT !.congested = @ \cup {a.stage}]
    ELSE [a EXCEPT !.queue = Append(@, a.stage), !.stage = <<>>, !.registered = TRUE]

\* Mutation: the PDU is queued without registering for the queue.
CompleteUnregistered(a) ==
    IF Congested(a)
    THEN [a EXCEPT !.congested = @ \cup {a.stage}, !.stage = <<>>]
    ELSE [a EXCEPT !.queue = Append(@, a.stage), !.stage = <<>>]

Complete(a) ==
    IF Congested(a)
    THEN [a EXCEPT !.congested = @ \cup {a.stage}, !.stage = <<>>]
    ELSE [a EXCEPT !.queue = Append(@, a.stage), !.stage = <<>>, !.registered = TRUE]

\* Mutation: a new first fragment is appended to what was not finished.
on_incoming_packet_appends(a, f) ==
    LET stage == Append(a.stage, f)
        b == [a EXCEPT !.stage = stage, !.handed = Append(@, f)]
    IN  IF f.flag = "IGNORED" \/ (f.flag = "CONT" /\ a.stage = <<>>)
        THEN [a EXCEPT !.handed = Append(@, f)]
        ELSE IF ExpectedSize(stage) < Total(stage) THEN [b EXCEPT !.stage = <<>>]
        ELSE IF ExpectedSize(stage) > Total(stage) THEN b
        ELSE Complete(b)

\* IGNORED is a broadcast or a packet flagged FIRST_NON_AUTOMATICALLY_FLUSHABLE.
on_incoming_packet(a, f) ==
    LET stage == IF f.flag = "FIRST" THEN <<f>> ELSE Append(a.stage, f)
        b == [a EXCEPT !.stage = stage, !.handed = Append(@, f)]
    IN  IF f.flag = "IGNORED" \/ (f.flag = "CONT" /\ a.stage = <<>>)
        THEN [a EXCEPT !.handed = Append(@, f)]
        ELSE IF ExpectedSize(stage) < Total(stage) THEN [b EXCEPT !.stage = <<>>]
        ELSE IF ExpectedSize(stage) > Total(stage) THEN b
        ELSE Complete(b)

\* on_data_ready, called while the queue to the shim has room.
OnDataReady(l) ==
    /\ enqueue_registered_[l]
    /\ Len(queue_[l]) < Capacity
    /\ queue_' = [queue_ EXCEPT ![l] = Append(@, Head(incoming_queue_[l]))]
    /\ incoming_queue_' = [incoming_queue_ EXCEPT ![l] = Tail(@)]
    /\ enqueue_registered_' = [enqueue_registered_ EXCEPT ![l] = Tail(incoming_queue_[l]) # <<>>]
    /\ UNCHANGED <<controllerVars, events, acl_queue, routerVars, acl_connections_,
                   recombination_stage_, handed, congested, shim, upward>>

-----------------------------------------------------------------------------
(***************************************************************************)
(* HciDataRouter.                                                          *)
(***************************************************************************)

\* SendPacketUpward of both ACL managers: the link that the handle of f
\* stands for, 0 if neither knows the handle.
LinkOf(f) == acl_connections_[handle[f.link]]

\* One packet is handed to the assembler of its handle, or kept.
Route(r, f) ==
    IF LinkOf(f) = 0
    THEN [r EXCEPT !.unsent = Append(@, f)]
    ELSE [r EXCEPT !.assemblers[LinkOf(f)] = on_incoming_packet(@, f)]

\* All assemblers after the packets of s were routed in order, and the packets
\* that no connection was found for.
retry_unknown_acl(s) ==
    LET r[n \in 0..Len(s)] ==
            IF n = 0 THEN [assemblers |-> [l \in Links |-> Assembler(l)], unsent |-> <<>>]
                     ELSE Route(r[n - 1], s[n])
    IN  r[Len(s)]

SetAssemblers(as) ==
    /\ recombination_stage_' = [l \in Links |-> as[l].stage]
    /\ incoming_queue_' = [l \in Links |-> as[l].queue]
    /\ enqueue_registered_' = [l \in Links |-> as[l].registered]
    /\ handed' = [l \in Links |-> as[l].handed]
    /\ congested' = [l \in Links |-> as[l].congested]

\* Mutation: what waits is not retried before the packet that came now.
DequeueWithoutRetry ==
    /\ acl_queue # <<>>
    /\ LET packet == Head(acl_queue)
           routed == retry_unknown_acl(IF packet.flag = "INVALID" THEN <<>> ELSE <<packet>>)
       IN  /\ SetAssemblers(routed.assemblers)
           /\ waiting_packets_' = waiting_packets_ \o routed.unsent
           /\ unknown_acl_alarm_' = (unknown_acl_alarm_ \/ routed.unsent # <<>>)
    /\ acl_queue' = Tail(acl_queue)
    /\ UNCHANGED <<controllerVars, events, acl_connections_, shimVars>>

\* dequeue_and_route_acl_packet_to_connection with retry_unknown_acl(false).
\* INVALID is an invalid packet or one with a debug handle.
DequeueAndRoute ==
    /\ acl_queue # <<>>
    /\ LET packet == Head(acl_queue)
           known == packet.flag = "INVALID" \/ LinkOf(packet) # 0
           routed == retry_unknown_acl(IF packet.flag = "INVALID" THEN waiting_packets_
                                       ELSE Append(waiting_packets_, packet))
       IN  /\ SetAssemblers(routed.assemblers)
           /\ waiting_packets_' = routed.unsent
           /\ unknown_acl_alarm_' = (unknown_acl_alarm_ \/ ~known)
    /\ acl_queue' = Tail(acl_queue)
    /\ UNCHANGED <<controllerVars, events, acl_connections_, shimVars>>

\* on_unknown_acl_timer: a last try, and what is still unknown is dropped.
OnUnknownAclTimer ==
    /\ unknown_acl_alarm_
    /\ SetAssemblers(retry_unknown_acl(waiting_packets_).assemblers)
    /\ waiting_packets_' = <<>>
    /\ unknown_acl_alarm_' = FALSE
    /\ UNCHANGED <<controllerVars, events, acl_queue, acl_connections_, shimVars>>

-----------------------------------------------------------------------------
(***************************************************************************)
(* The ACL managers and the shim.                                          *)
(***************************************************************************)

\* on_connection_complete, on_le_connection_complete: the connection is
\* added, and announced to the shim on its handler.
OnConnectionComplete ==
    /\ events # <<>> /\ Head(events).type = "connected"
    /\ LET l == Head(events).link
       IN  /\ acl_connections_' = [acl_connections_ EXCEPT ![handle[l]] = l]
           /\ shim' = [shim EXCEPT ![l] = "announced"]
    /\ events' = Tail(events)
    /\ UNCHANGED <<controllerVars, acl_queue, routerVars, assemblerVars, queue_, upward>>

\* on_classic_disconnect, on_le_disconnect: the assembler is destroyed, with
\* what it still holds, and the shim is told.
OnDisconnect ==
    /\ events # <<>> /\ Head(events).type = "disconnected"
    /\ LET l == Head(events).link
       IN  /\ acl_connections_' = [acl_connections_ EXCEPT ![handle[l]] = 0]
           /\ recombination_stage_' = [recombination_stage_ EXCEPT ![l] = <<>>]
           /\ incoming_queue_' = [incoming_queue_ EXCEPT ![l] = <<>>]
           /\ enqueue_registered_' = [enqueue_registered_ EXCEPT ![l] = FALSE]
           /\ shim' = [shim EXCEPT ![l] = "closed"]
    /\ events' = Tail(events)
    /\ UNCHANGED <<controllerVars, acl_queue, routerVars, handed, congested, queue_, upward>>

\* OnConnectSuccess: ShimAclConnection registers for the queue.
OnConnectSuccess(l) ==
    /\ shim[l] = "announced"
    /\ shim' = [shim EXCEPT ![l] = "open"]
    /\ UNCHANGED <<controllerVars, events, acl_queue, routerVars, acl_connections_,
                   assemblerVars, queue_, upward>>

DataReadyCallback(l) ==
    /\ shim[l] = "open"
    /\ queue_[l] # <<>>
    /\ upward' = [upward EXCEPT ![l] = Append(@, Head(queue_[l]))]
    /\ queue_' = [queue_ EXCEPT ![l] = Tail(@)]
    /\ UNCHANGED <<controllerVars, events, acl_queue, routerVars, acl_connections_,
                   assemblerVars, shim>>

-----------------------------------------------------------------------------
StackThreadStep ==
    \/ DequeueAndRoute \/ OnConnectionComplete \/ OnDisconnect
    \/ \E l \in Links : OnDataReady(l) \/ OnConnectSuccess(l) \/ DataReadyCallback(l)

ControllerStep ==
    \/ \E h \in Handles : Connect(h)
    \/ \E l \in Links : Disconnect(l)
    \/ \E l \in Links, shape \in Shapes : Receive(l, shape)

Next == StackThreadStep \/ OnUnknownAclTimer \/ ControllerStep

Spec == Init /\ [][Next]_vars

-----------------------------------------------------------------------------
(***************************************************************************)
(* Properties.                                                             *)
(***************************************************************************)

\* Every variable stays in its type, and what an assembler keeps between two
\* packets is the beginning of a PDU (recombination_stage_ of assembler.h).
TypeOK ==
    /\ handle \in Seq(Handles) /\ DOMAIN handle \subseteq Links
    /\ up \subseteq DOMAIN handle
    /\ sent \in [Links -> Seq(Fragments)]
    /\ received \in 0..MaxFragments
    /\ events \in Seq([type : {"connected", "disconnected"}, link : Links])
    /\ acl_queue \in Seq(Fragments)
    /\ waiting_packets_ \in Seq(Fragments)
    /\ unknown_acl_alarm_ \in BOOLEAN
    /\ acl_connections_ \in [Handles -> 0..MaxLinks]
    /\ recombination_stage_ \in [Links -> Seq(Fragments)]
    /\ \A l \in Links :
          recombination_stage_[l] # <<>> =>
              /\ recombination_stage_[l][1].flag = "FIRST"
              /\ Total(recombination_stage_[l]) < ExpectedSize(recombination_stage_[l])
    /\ incoming_queue_ \in [Links -> Seq(Seq(Fragments))]
    /\ enqueue_registered_ \in [Links -> BOOLEAN]
    /\ queue_ \in [Links -> Seq(Seq(Fragments))]
    /\ shim \in [Links -> {"none", "announced", "open", "closed"}]
    /\ upward \in [Links -> Seq(Seq(Fragments))]
    /\ handed \in [Links -> Seq(Fragments)]
    /\ congested \in [Links -> SUBSET Seq(Fragments)]

Live(l) == \E h \in Handles : acl_connections_[h] = l

\* What was handed to the assembler of a link and what may still be, and the
\* places of its own packets in there.
Path(l) == handed[l] \o waiting_packets_ \o acl_queue
Own(l) == {i \in DOMAIN Path(l) : Path(l)[i].link = l /\ Path(l)[i].flag # "INVALID"}

\* The router hands every connection its own packets in the order they were
\* received, without a gap from the first one on, whether they had to wait or
\* not: only packets at the very beginning may have been dropped by the
\* timer.  Packets of an earlier link with the same handle, which the router
\* takes for packets of this one, come before all of its own.
HandedInOrder ==
    \A l \in 1..Len(handle) :
        /\ Live(l) =>
              /\ \A i, j \in Own(l) : i < j => Path(l)[i].n < Path(l)[j].n
              /\ \A i \in Own(l) : Path(l)[i] \in Range(sent[l])
              /\ \A f \in Range(sent[l]) :
                    f.flag # "INVALID" /\ (\E i \in Own(l) : Path(l)[i].n < f.n)
                        => \E j \in Own(l) : Path(l)[j] = f
        /\ \A i, j \in DOMAIN handed[l] :
              i < j => handed[l][i].n < handed[l][j].n

\* The PDUs in a sequence of fragments, by their definition: a first fragment
\* and the continuing ones after it, up to the announced length, no more and
\* no less.
IsPdu(s, i, j) ==
    LET pdu == SelectSeq(SubSeq(s, i, j), LAMBDA f : f.flag # "IGNORED")
    IN  /\ s[i].flag = "FIRST" /\ s[j].flag # "IGNORED"
        /\ \A k \in (i + 1)..j : s[k].flag # "FIRST"
        /\ Total(pdu) = s[i].len
Pdus(s) ==
    LET ends == SelectSeq([j \in 1..Len(s) |-> j], LAMBDA j : \E i \in 1..j : IsPdu(s, i, j))
        begin(j) == CHOOSE i \in 1..j : IsPdu(s, i, j)
    IN  [k \in 1..Len(ends) |->
            SelectSeq(SubSeq(s, begin(ends[k]), ends[k]), LAMBDA f : f.flag # "IGNORED")]

\* What an assembler passes on, queues or drops for congestion is exactly the
\* sequence of PDUs in the fragments handed to it: no PDU is lost, repeated or
\* reordered, and none is put together from fragments of two links, although
\* handles are reused while packets of the earlier link still wait
\* (on_incoming_packet).
ReassemblesExactly ==
    /\ \A l \in 1..Len(handle) :
          Live(l) =>
              SelectSeq(Pdus(handed[l]), LAMBDA pdu : pdu \notin congested[l])
                  = upward[l] \o queue_[l] \o incoming_queue_[l]
    /\ \A l \in Links : \A i \in DOMAIN upward[l] :
          \A f, g \in Range(upward[l][i]) : f.link = g.link

\* The queue of an assembler is bounded, by one more packet than
\* kMaxQueuedPacketsPerConnection: the size is compared before the packet is
\* added.
QueueBounded == \A l \in Links : Len(incoming_queue_[l]) <= MaxQueued + 1

\* Nothing is left without somebody who will come back to it: a packet that
\* waits for its connection has the timer, and an assembler is registered
\* with the queue to the shim exactly when it holds a PDU (on_data_ready would
\* take the front of an empty queue otherwise).
NoneForgotten ==
    /\ waiting_packets_ # <<>> => unknown_acl_alarm_
    /\ \A l \in Links : enqueue_registered_[l] <=> incoming_queue_[l] # <<>>
=============================================================================
