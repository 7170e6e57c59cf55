-------------------------- MODULE LeAddressManager --------------------------
(***************************************************************************)
(* The pause and resume protocol around changes of the local LE address    *)
(* (system/gd/hci/le_address_manager.cc).  A controller refuses to change  *)
(* its random address and its lists while it scans, advertises or          *)
(* initiates, so the manager caches such commands, pauses every registered *)
(* client, sends the commands one by one and resumes the clients.          *)
(*                                                                         *)
(* The clients are LE scanning managers, which stop at once, and le_impl,  *)
(* which acknowledges a pause once the controller has cancelled its        *)
(* connection attempt and also asks for the list changes.  Everything runs *)
(* on the stack thread; a call from one part to another is a closure       *)
(* posted to the handler.  The controller does not generate private        *)
(* addresses itself (IsRpaGenerationSupported is false).                   *)
(***************************************************************************)
EXTENDS Naturals, Sequences, FiniteSets, FiniteSetsExt, SequencesExt

CONSTANTS
  Scanners,         \* the clients that are scanning managers
  LeImpl,           \* the client that is le_impl
  Policies,         \* the address policies considered
  Operations,       \* the kinds of operations considered
  MaxStarts,        \* bound: scans started in a behaviour
  MaxOperations,    \* bound: the other operations begun in a behaviour
  MaxRequests,      \* bound: both together
  MaxTasks          \* bound: closures posted when a new operation begins

Clients == Scanners \cup {LeImpl}

ASSUME ClientsAssumption ==
  Clients \subseteq Nat /\ IsFiniteSet(Clients) /\ LeImpl \notin Scanners
ASSUME PoliciesAssumption ==
  Policies \subseteq {"USE_PUBLIC_ADDRESS", "USE_NON_RESOLVABLE_ADDRESS",
                     "USE_RESOLVABLE_ADDRESS"}
ASSUME OperationsAssumption ==
  Operations \subseteq {"CONNECT", "CANCEL_CONNECT", "CONNECTED", "CONNECT_TIMEOUT",
                        "CLEAR_ACCEPT_LIST", "RESOLVING_LIST", "CLEAR_RESOLVING_LIST", "UPDATE_IRK",
                        "ROTATE", "CONNECT_AGAIN", "ARM_FAILS"}
ASSUME LeAddressManagerBounds ==
  {MaxStarts, MaxOperations, MaxRequests, MaxTasks} \subseteq Nat

VARIABLES
  address_policy_,
  registered_clients_, \* per client its ClientState, or "unregistered"
  cached_commands_,
  cached_address_,     \* the last address generated
  le_address_,         \* the address the host believes in
  alarm,               \* the rotation alarm: "idle" or "armed"
  tasks,               \* closures posted to handler_, oldest first
  client,              \* what each client knows of itself
  le_impl,             \* what only le_impl knows
  hci,                 \* commands of the manager in the HCI layer, oldest first
  random_address,      \* the address the controller uses
  fate,                \* "alive" or "assert"
  starts, operations   \* how many there were

manager == <<registered_clients_, cached_commands_, cached_address_, alarm>>
users == <<client, le_impl>>
history == <<starts, operations>>
vars == <<address_policy_, manager, le_address_, tasks, users, hci,
          random_address, fate, history>>

-----------------------------------------------------------------------------
(* Data *)

ClientState ==
  {"WAITING_FOR_PAUSE", "PAUSED", "WAITING_FOR_RESUME", "RESUMED"}

\* Adding to, removing from and clearing a list are one type each.
CommandType ==
  {"ROTATE_RANDOM_ADDRESS", "ACCEPT_LIST", "RESOLVING_LIST",
   "SET_ADDRESS_RESOLUTION_ENABLE", "LE_SET_PRIVACY_MODE", "UPDATE_IRK"}

\* registered: address_manager_registered; paused: paused_ or pause_connection;
\* active: is_scanning_, or connectability_state_ is not DISARMED; on_resume:
\* scan_on_resume_ or arm_on_resume_.
ClientRecord ==
  [registered : BOOLEAN, paused : BOOLEAN, active : BOOLEAN, on_resume : BOOLEAN]

\* devices: the size of accept_list; connecting: connecting_le_ is not empty; kept: it
\* may hold devices that are not in the list any more; removed: a device has left the
\* list since the attempt began; disarming: a cancel is queued or sent; again:
\* arm_on_disarm_; ready: ready_to_unregister.
LeImplRecord ==
  [devices : Nat, connecting : BOOLEAN, kept : BOOLEAN, removed : BOOLEAN,
   disarming : BOOLEAN, again : BOOLEAN, ready : BOOLEAN]

RotatingAddress ==
  address_policy_ \in {"USE_RESOLVABLE_ADDRESS", "USE_NON_RESOLVABLE_ADDRESS"}
Registered(clients) == {c \in Clients : clients[c] # "unregistered"}
NotPaused(clients) == {c \in Registered(clients) : clients[c] # "PAUSED"}

\* Register, if need be
Registration(c) ==
  IF client[c].registered THEN <<>> ELSE <<[run |-> "register_client", client |-> c]>>

\* The order of the map.
Ascending(s) == \A m, n \in DOMAIN s : m < n => s[m] < s[n]

\* One closure per client, in the order of the map.
Calls(run, S) ==
  LET ordered == CHOOSE s \in SetToSeqs(S) : Ascending(s)
  IN  [n \in 1 .. Cardinality(S) |-> [run |-> run, client |-> ordered[n]]]

\* A command for the HCI layer.  A controller that is active when it gets it
\* refuses it; commands reach it in the order in which they were enqueued.
Command(type, address) ==
  [type |-> type, address |-> address,
   allowed |-> ~ \E c \in Clients :
                   client[c].active /\ ~(c = LeImpl /\ le_impl.disarming)]

\* The cancel of an attempt that had completed when it reached the controller.
LateCancel == [type |-> "LE_CREATE_CONNECTION_CANCEL", address |-> 0, allowed |-> FALSE]

\* A cancel on its way was enqueued before the attempt that follows.
NoLateCancel == \A n \in 1 .. Len(hci) : hci[n] # LateCancel

Init ==
  /\ address_policy_ \in Policies
  /\ registered_clients_ = [c \in Clients |-> "unregistered"]
  /\ cached_commands_ = <<>>
  /\ alarm = "idle"
  /\ client = [c \in Clients |->
       [registered |-> FALSE, paused |-> FALSE, active |-> FALSE, on_resume |-> FALSE]]
  /\ le_impl = [devices |-> 0, connecting |-> FALSE, kept |-> FALSE, removed |-> FALSE,
                disarming |-> FALSE, again |-> FALSE, ready |-> FALSE]
  /\ le_address_ = 0
  /\ random_address = 0
  /\ fate = "alive"
  /\ starts = 0
  /\ operations = 0
  /\ \/ /\ RotatingAddress
        /\ cached_address_ = 1
        /\ hci = <<Command("LE_SET_RANDOM_ADDRESS", 1)>>
        /\ tasks = <<>>
     \/ /\ ~RotatingAddress
        /\ cached_address_ = 0
        /\ hci = <<>>
        /\ tasks = <<[run |-> "resume_registered_clients"]>>

-----------------------------------------------------------------------------
(* Callbacks of the clients.  rest is what else is posted. *)

\* A client that is not registered any more does not listen; its unregister_client
\* is on its way.
Hearing(S) == {c \in S : client[c].registered}

\* A scanner stops at once.
ScannerPaused(record) ==
  [record EXCEPT !.paused = TRUE, !.on_resume = record.active, !.active = FALSE]

\* le_impl acknowledges when it is DISARMED, otherwise it starts to cancel its attempt.
LeImplPaused(record) ==
  [record EXCEPT !.paused = TRUE,
                 !.on_resume = IF record.active THEN le_impl.connecting ELSE @]

OnPause(S, rest) ==
  LET prompt == {c \in Hearing(S) : c \in Scanners \/ ~client[c].active}
  IN  /\ client' = [c \in Clients |->
           IF c \notin Hearing(S) THEN client[c]
           ELSE IF c \in Scanners THEN ScannerPaused(client[c]) ELSE LeImplPaused(client[c])]
      /\ le_impl' = [le_impl EXCEPT !.disarming = @ \/ Hearing(S) # prompt]
      /\ tasks' = rest \o Calls("ack_pause", prompt)

ScannerContinues(c) == c \in Scanners /\ client[c].on_resume

\* arm_connectability, unless its guards hold: connecting_le_ is the accept list now.
Arming(record, armed) ==
  [record EXCEPT !.connecting = @ \/ armed, !.kept = @ /\ ~armed, !.removed = @ /\ ~armed]

\* The guards of arm_connectability
CanArm == ~client[LeImpl].active /\ le_impl.devices > 0

LeImplContinues(c) == c = LeImpl /\ client[c].on_resume /\ CanArm

\* check_for_unregister: le_impl leaves when it wants no connection and, which is
\* left open, has none.
MayUnregister(record) == record.ready /\ ~record.connecting

OnResume(S, rest) ==
  LET started == {c \in Hearing(S) : ScannerContinues(c) \/ LeImplContinues(c)}
      resumed == Arming(le_impl, LeImpl \in started)
  IN  \E leaving \in SUBSET {c \in Hearing(S) : c = LeImpl /\ MayUnregister(resumed)} :
        /\ client' = [c \in Clients |->
             IF c \notin Hearing(S) THEN client[c]
             ELSE [registered |-> c \notin leaving, paused |-> FALSE,
                   active |-> client[c].active \/ c \in started, on_resume |-> FALSE]]
        /\ le_impl' = [resumed EXCEPT !.ready = @ /\ leaving = {}]
        /\ tasks' = rest \o Calls("ack_resume", Hearing(S))
                         \o Calls("unregister_client", leaving)

-----------------------------------------------------------------------------
(* The manager.  The arguments are the values the caller has just assigned, *)
(* what else is posted, and the clients erased after the call.              *)

Without(clients, gone) ==
  [c \in Clients |-> IF c \in gone THEN "unregistered" ELSE clients[c]]

\* Mutant: the rotation is cancelled when any client leaves.
AlarmAfter_any(value, clients, gone) ==
  IF gone # {} THEN "idle" ELSE value

\* Without clients there is nothing to rotate for.
AlarmAfter(value, clients, gone) ==
  IF gone # {} /\ Registered(Without(clients, gone)) = {} THEN "idle" ELSE value

pause_registered_clients(clients, cached, rest, gone) ==
  LET told == {c \in Registered(clients) :
                 clients[c] \in {"WAITING_FOR_RESUME", "RESUMED"}}
  IN  /\ registered_clients_' = Without([c \in Clients |->
           IF c \in told THEN "WAITING_FOR_PAUSE" ELSE clients[c]], gone)
      /\ OnPause(told, rest)
      /\ cached_commands_' = cached
      /\ alarm' = AlarmAfter(alarm, clients, gone)
      /\ UNCHANGED <<cached_address_, hci, fate>>

IsAddressChange(type) == type \in {"ROTATE_RANDOM_ADDRESS", "UPDATE_IRK"}

\* What generate_rpa and generate_nrpa return is new: addresses are numbered.
NewAddress == cached_address_ + 1

\* set_random_address, or the cached command itself
send_command(type) ==
  \/ /\ IsAddressChange(type)
     /\ cached_address_' = NewAddress
     /\ hci' = Append(hci, Command("LE_SET_RANDOM_ADDRESS", NewAddress))
  \/ /\ ~IsAddressChange(type)
     /\ hci' = Append(hci, Command(type, 0))
     /\ UNCHANGED cached_address_

\* A rotation schedules the next one, at a random time in the interval.
schedule_rotate_random_address == "armed"

handle_next_command(clients, cached, rest, gone) ==
  /\ registered_clients_' = Without(clients, gone)
  /\ tasks' = rest
  /\ UNCHANGED users
  /\ fate' = IF NotPaused(clients) = {} /\ cached = <<>> THEN "assert" ELSE fate
  /\ \/ /\ NotPaused(clients) # {} \/ cached = <<>>
        /\ cached_commands_' = cached
        /\ alarm' = AlarmAfter(alarm, clients, gone)
        /\ UNCHANGED <<cached_address_, hci>>
     \/ /\ NotPaused(clients) = {} /\ cached # <<>>
        /\ cached_commands_' = Tail(cached)
        /\ send_command(Head(cached))
        /\ alarm' = AlarmAfter(IF Head(cached) = "ROTATE_RANDOM_ADDRESS"
                               THEN schedule_rotate_random_address ELSE alarm,
                               clients, gone)

resume_registered_clients(clients, cached, rest, gone) ==
  \/ /\ cached # <<>>
     /\ handle_next_command(clients, cached, rest, gone)
  \/ /\ cached = <<>>
     /\ registered_clients_' = Without([c \in Clients |->
          IF c \in Registered(clients) THEN "WAITING_FOR_RESUME" ELSE clients[c]], gone)
     /\ OnResume(Registered(clients), rest)
     /\ alarm' = AlarmAfter(alarm, clients, gone)
     /\ UNCHANGED <<cached_commands_, cached_address_, hci, fate>>

check_cached_commands(clients, cached, rest, gone) ==
  \/ /\ NotPaused(clients) # {} /\ cached # <<>>
     /\ pause_registered_clients(clients, cached, rest, gone)
  \/ /\ NotPaused(clients) = {} \/ cached = <<>>
     /\ resume_registered_clients(clients, cached, rest, gone)

\* A client that was not told to pause, or whose ack_resume came in between, is
\* told; the commands are looked at when the last one has acknowledged.
ack_pause(c, rest, gone) ==
  LET clients == [registered_clients_ EXCEPT ![c] = "PAUSED"]
      first == Min(NotPaused(clients))
  IN
    \/ /\ NotPaused(clients) = {}
       /\ check_cached_commands(clients, cached_commands_, rest, gone)
    \/ /\ NotPaused(clients) # {}
       /\ clients[first] = "WAITING_FOR_PAUSE"
       /\ registered_clients_' = Without(clients, gone)
       /\ tasks' = rest
       /\ alarm' = AlarmAfter(alarm, clients, gone)
       /\ UNCHANGED <<cached_commands_, cached_address_, users, hci, fate>>
    \/ /\ NotPaused(clients) # {}
       /\ clients[first] # "WAITING_FOR_PAUSE"
       /\ registered_clients_' =
            Without([clients EXCEPT ![first] = "WAITING_FOR_PAUSE"], gone)
       /\ OnPause({first}, rest)
       /\ alarm' = AlarmAfter(alarm, clients, gone)
       /\ UNCHANGED <<cached_commands_, cached_address_, hci, fate>>

-----------------------------------------------------------------------------
(* Closures of the handler *)

\* The stack thread takes the first task, which is of kind run.
Runs(run) ==
  /\ fate = "alive"
  /\ tasks # <<>>
  /\ Head(tasks).run = run
  /\ UNCHANGED <<address_policy_, history>>

register_client ==
  /\ Runs("register_client")
  /\ LET c == Head(tasks).client
         new == c \notin Registered(registered_clients_)
     IN  /\ registered_clients_' =
              [registered_clients_ EXCEPT ![c] = IF new THEN "RESUMED" ELSE @]
         /\ alarm' = IF RotatingAddress /\ Cardinality(Registered(registered_clients_')) = 1
                     THEN schedule_rotate_random_address ELSE alarm
  /\ tasks' = Tail(tasks)
  /\ UNCHANGED <<cached_commands_, cached_address_, le_address_, users, hci,
                 random_address, fate>>

\* Mutant: the acknowledgement replaces the removal.
unregister_client_acks_only ==
  /\ Runs("unregister_client")
  /\ LET c == Head(tasks).client IN
       \/ /\ registered_clients_[c] = "WAITING_FOR_PAUSE"
          /\ ack_pause(c, Tail(tasks), {})
       \/ /\ registered_clients_[c] # "WAITING_FOR_PAUSE"
          /\ registered_clients_' = Without(registered_clients_, {c})
          /\ alarm' = AlarmAfter(alarm, registered_clients_, {c})
          /\ tasks' = Tail(tasks)
          /\ UNCHANGED <<cached_commands_, cached_address_, users, hci, fate>>
  /\ UNCHANGED <<le_address_, random_address>>

\* A client that owes an acknowledgement gives it by leaving.
unregister_client ==
  /\ Runs("unregister_client")
  /\ LET c == Head(tasks).client IN
       \/ /\ registered_clients_[c] = "WAITING_FOR_PAUSE"
          /\ ack_pause(c, Tail(tasks), {c})
       \/ /\ registered_clients_[c] # "WAITING_FOR_PAUSE"
          /\ registered_clients_' = Without(registered_clients_, {c})
          /\ alarm' = AlarmAfter(alarm, registered_clients_, {c})
          /\ tasks' = Tail(tasks)
          /\ UNCHANGED <<cached_commands_, cached_address_, users, hci, fate>>
  /\ UNCHANGED <<le_address_, random_address>>

RunAckPause ==
  /\ Runs("ack_pause")
  /\ LET c == Head(tasks).client IN
       \/ /\ c \in Registered(registered_clients_)
          /\ ack_pause(c, Tail(tasks), {})
       \/ /\ c \notin Registered(registered_clients_)
          /\ tasks' = Tail(tasks)
          /\ UNCHANGED <<manager, users, hci, fate>>
  /\ UNCHANGED <<le_address_, random_address>>

ack_resume ==
  /\ Runs("ack_resume")
  /\ LET c == Head(tasks).client IN
       registered_clients_' = [registered_clients_ EXCEPT
         ![c] = IF @ = "unregistered" THEN @ ELSE "RESUMED"]
  /\ tasks' = Tail(tasks)
  /\ UNCHANGED <<cached_commands_, cached_address_, alarm, le_address_, users, hci,
                 random_address, fate>>

\* The clients are paused before the command is cached.
push_command ==
  /\ Runs("push_command")
  /\ pause_registered_clients(registered_clients_,
                              Append(cached_commands_, "ACCEPT_LIST"), Tail(tasks), {})
  /\ UNCHANGED <<le_address_, random_address>>

prepare_to_update_irk ==
  /\ Runs("prepare_to_update_irk")
  /\ LET cached == Append(cached_commands_, "UPDATE_IRK") IN
       \/ /\ Registered(registered_clients_) = {}
          /\ handle_next_command(registered_clients_, cached, Tail(tasks), {})
       \/ /\ Registered(registered_clients_) # {}
          /\ pause_registered_clients(registered_clients_, cached, Tail(tasks), {})
  /\ UNCHANGED <<le_address_, random_address>>

\* The other closures, which call one function each.
RunPause ==
  /\ Runs("pause_registered_clients")
  /\ pause_registered_clients(registered_clients_, cached_commands_, Tail(tasks), {})
  /\ UNCHANGED <<le_address_, random_address>>

RunResume ==
  /\ Runs("resume_registered_clients")
  /\ resume_registered_clients(registered_clients_, cached_commands_, Tail(tasks), {})
  /\ UNCHANGED <<le_address_, random_address>>

RunHandleNextCommand ==
  /\ Runs("handle_next_command")
  /\ handle_next_command(registered_clients_, cached_commands_, Tail(tasks), {})
  /\ UNCHANGED <<le_address_, random_address>>

RunCheckCachedCommands ==
  /\ Runs("check_cached_commands")
  /\ check_cached_commands(registered_clients_, cached_commands_, Tail(tasks), {})
  /\ UNCHANGED <<le_address_, random_address>>

\* Mutant: the next command is sent without looking whether there is one.
OnCommandComplete_next ==
  /\ Runs("OnCommandComplete")
  /\ le_address_' = IF Head(tasks).type = "LE_SET_RANDOM_ADDRESS" /\ Head(tasks).success
                    THEN cached_address_ ELSE le_address_
  /\ tasks' = Append(Tail(tasks), [run |-> "handle_next_command"])
  /\ UNCHANGED <<manager, users, hci, random_address, fate>>

\* Mutant: nothing is looked at after the initial random address is set.
OnCommandComplete_silent ==
  /\ Runs("OnCommandComplete")
  /\ le_address_' = IF Head(tasks).type = "LE_SET_RANDOM_ADDRESS" /\ Head(tasks).success
                    THEN cached_address_ ELSE le_address_
  /\ tasks' = IF Head(tasks).type = "LE_SET_RANDOM_ADDRESS" THEN Tail(tasks)
              ELSE Append(Tail(tasks), [run |-> "check_cached_commands"])
  /\ UNCHANGED <<manager, users, hci, random_address, fate>>

OnCommandComplete ==
  /\ Runs("OnCommandComplete")
  /\ le_address_' = IF Head(tasks).type = "LE_SET_RANDOM_ADDRESS" /\ Head(tasks).success
                    THEN cached_address_ ELSE le_address_
  /\ tasks' = Append(Tail(tasks), [run |-> "check_cached_commands"])
  /\ UNCHANGED <<manager, users, hci, random_address, fate>>

-----------------------------------------------------------------------------
(* The alarm, the controller and the clients *)

\* A new operation begins only when few closures are waiting.
Begins(kind) ==
  /\ fate = "alive"
  /\ kind \in Operations
  /\ operations < MaxOperations /\ starts + operations < MaxRequests
  /\ Len(tasks) < MaxTasks
  /\ operations' = operations + 1
  /\ UNCHANGED <<address_policy_, le_address_, random_address, starts>>

\* The rotation alarm expires.
prepare_to_rotate ==
  /\ Begins("ROTATE")
  /\ alarm = "armed"
  /\ alarm' = "idle"
  /\ LET told == {c \in Registered(registered_clients_) :
                    registered_clients_[c] \in {"WAITING_FOR_RESUME", "RESUMED"}}
     IN  /\ registered_clients_' = [c \in Clients |->
              IF c \in told THEN "WAITING_FOR_PAUSE" ELSE registered_clients_[c]]
         /\ OnPause(told, tasks)
  /\ cached_commands_' = Append(cached_commands_, "ROTATE_RANDOM_ADDRESS")
  /\ UNCHANGED <<cached_address_, hci, fate>>

\* The controller completes the oldest command.
ControllerCompletes ==
  /\ fate = "alive"
  /\ hci # <<>> /\ Head(hci) # LateCancel
  /\ hci' = Tail(hci)
  /\ random_address' =
       IF Head(hci).type = "LE_SET_RANDOM_ADDRESS" /\ Head(hci).allowed
       THEN Head(hci).address ELSE random_address
  /\ tasks' = Append(tasks, [run |-> "OnCommandComplete", type |-> Head(hci).type,
                             success |-> Head(hci).allowed])
  /\ UNCHANGED <<address_policy_, manager, le_address_, users, fate, history>>

\* A scan starts, now or when the client is resumed.  The manager is told and the
\* scan enabled in one go.
StartScan(c) ==
  /\ fate = "alive"
  /\ starts < MaxStarts /\ starts + operations < MaxRequests
  /\ Len(tasks) < MaxTasks
  /\ starts' = starts + 1
  /\ \/ /\ client[c].registered /\ client[c].paused
        /\ client' = [client EXCEPT ![c].on_resume = TRUE]
        /\ UNCHANGED tasks
     \/ /\ ~(client[c].registered /\ client[c].paused)
        /\ client' = [client EXCEPT ![c].registered = TRUE, ![c].active = TRUE,
                                    ![c].on_resume = FALSE]
        /\ tasks' = tasks \o Registration(c)
  /\ UNCHANGED <<address_policy_, manager, le_address_, le_impl, hci, random_address,
                 fate, operations>>

StopScan(c) ==
  /\ fate = "alive"
  /\ client[c].registered
  /\ client' = [client EXCEPT ![c] =
       [registered |-> FALSE, paused |-> FALSE, on_resume |-> FALSE, active |-> FALSE]]
  /\ tasks' = Append(tasks, [run |-> "unregister_client", client |-> c])
  /\ UNCHANGED <<address_policy_, manager, le_address_, le_impl, hci, random_address,
                 fate, history>>

-----------------------------------------------------------------------------
(* le_impl *)

\* register_with_address_manager
Registering(record) ==
  [record EXCEPT !.registered = TRUE, !.paused = @ \/ ~record.registered]

\* create_le_connection to a new device: a connection is attempted after the
\* device is in the accept list.
Connect ==
  /\ Begins("CONNECT")
  /\ client' = [client EXCEPT ![LeImpl] =
       LET record == Registering(@)
       IN  [record EXCEPT !.on_resume =
              @ \/ record.paused \/ ~record.active \/ le_impl.disarming]]
  /\ le_impl' = [le_impl EXCEPT !.devices = @ + 1]
  /\ tasks' = Append(tasks \o Registration(LeImpl), [run |-> "push_command"])
  /\ UNCHANGED <<manager, hci, fate>>

\* create_le_connection to a device that is in the accept list: the attempt under way
\* is to be cancelled and started anew with other parameters.  While the attempt is being
\* cancelled it depends on whether the cancel has been sent.
ConnectAgain ==
  /\ Begins("CONNECT_AGAIN")
  /\ le_impl.devices > 0
  /\ LET record == [client[LeImpl] EXCEPT !.registered = TRUE,
                      !.paused = @ \/ (~client[LeImpl].registered /\ RotatingAddress)]
     IN  \/ /\ record.paused \/ ~record.active \/ le_impl.disarming
            /\ client' = [client EXCEPT ![LeImpl] = [record EXCEPT !.on_resume = TRUE]]
            /\ UNCHANGED le_impl
         \/ /\ ~record.paused /\ record.active
            /\ client' = [client EXCEPT ![LeImpl] = record]
            /\ le_impl' = [le_impl EXCEPT !.disarming = TRUE, !.again = TRUE]
  /\ tasks' = tasks \o Registration(LeImpl)
  /\ UNCHANGED <<manager, hci, fate>>

\* Mutant: a device that is not in the list is removed.
RemoveDevice_unchecked(record) ==
  le_impl' = [record EXCEPT !.devices = @ - 1, !.connecting = FALSE]

\* A device leaves the accept list, and connecting_le_ if it was there.
RemoveDevice(record) ==
  \E connecting \in BOOLEAN :
    /\ record.devices > 0
    /\ connecting => record.connecting /\ (record.devices > 1 \/ record.kept)
    /\ le_impl' = [record EXCEPT !.devices = @ - 1, !.connecting = connecting]

\* cancel_connect, or on_create_connection_timeout of a direct connection
CancelConnect ==
  /\ Begins("CANCEL_CONNECT")
  /\ RemoveDevice([le_impl EXCEPT !.removed = client[LeImpl].active])
  /\ client' = [client EXCEPT ![LeImpl] = Registering(@)]
  /\ tasks' = Append(tasks \o Registration(LeImpl), [run |-> "push_command"])
  /\ UNCHANGED <<manager, hci, fate>>

\* Only connecting_le_ keeps its devices.
ClearAcceptList ==
  /\ Begins("CLEAR_ACCEPT_LIST")
  /\ le_impl' = [le_impl EXCEPT !.devices = 0, !.kept = le_impl.connecting,
                                !.removed = client[LeImpl].active]
  /\ client' = [client EXCEPT ![LeImpl] = Registering(@)]
  /\ tasks' = Append(tasks \o Registration(LeImpl), [run |-> "push_command"])
  /\ UNCHANGED <<manager, hci, fate>>

\* on_create_connection_timeout of a background connection
ConnectTimeout ==
  /\ Begins("CONNECT_TIMEOUT")
  /\ client[LeImpl].active
  /\ le_impl' = [le_impl EXCEPT !.disarming = TRUE]
  /\ UNCHANGED <<manager, tasks, client, hci, fate>>

\* create_le_connection to the devices in the accept list, from a state of le_impl
\* and what is posted.
create_le_connection(before, posted) ==
  LET record == [before EXCEPT
        !.registered = TRUE, !.paused = @ \/ (~before.registered /\ RotatingAddress)]
      waits == record.active /\ ~le_impl.disarming
  IN  /\ client' = [client EXCEPT ![LeImpl] =
           [record EXCEPT !.on_resume = @ \/ record.paused]]
      /\ tasks' = posted \o Registration(LeImpl)
           \o (IF record.paused \/ waits THEN <<>> ELSE <<[run |-> "arm_connectability"]>>)

\* The attempt is cancelled.  DISARMED is entered twice, and acknowledged twice, if
\* le_impl is paused; otherwise it starts again, at once if arm_on_disarm_ is set.
on_le_connection_canceled ==
  /\ fate = "alive"
  /\ le_impl.disarming /\ NoLateCancel
  /\ \/ /\ client[LeImpl].paused
        /\ client' = [client EXCEPT ![LeImpl].active = FALSE, ![LeImpl].on_resume = TRUE]
        /\ le_impl' = [le_impl EXCEPT !.disarming = FALSE, !.removed = FALSE]
        /\ tasks' = tasks \o Calls("ack_pause", {LeImpl}) \o Calls("ack_pause", {LeImpl})
     \/ /\ ~client[LeImpl].paused /\ le_impl.again
        /\ LET armed == le_impl.devices > 0
           IN  /\ client' = [client EXCEPT ![LeImpl].active = armed]
               /\ le_impl' = Arming([le_impl EXCEPT !.disarming = FALSE, !.again = FALSE], armed)
        /\ UNCHANGED tasks
     \/ /\ ~client[LeImpl].paused /\ ~le_impl.again
        /\ le_impl' = [le_impl EXCEPT !.disarming = FALSE, !.removed = FALSE,
                                      !.connecting = FALSE, !.kept = FALSE]
        /\ create_le_connection([client[LeImpl] EXCEPT !.active = FALSE], tasks)
  /\ UNCHANGED <<address_policy_, manager, le_address_, hci, random_address, fate,
                 history>>

\* The attempt succeeds or fails, perhaps before the cancel reaches the controller.
\* The device leaves the accept list unless it has been removed already.  There are
\* no more of these than attempts, so they are not counted.  The cancel was enqueued at
\* some time during the attempt.
on_le_connection_complete ==
  /\ fate = "alive"
  /\ "CONNECTED" \in Operations
  /\ Len(tasks) < MaxTasks
  /\ client[LeImpl].active /\ NoLateCancel
  /\ \/ le_impl.disarming /\ \E n \in 1 .. Len(hci) + 1 : hci' = InsertAt(hci, n, LateCancel)
     \/ ~le_impl.disarming /\ UNCHANGED hci
  /\ LET record == [le_impl EXCEPT !.connecting = FALSE, !.kept = FALSE,
                       !.removed = FALSE, !.disarming = FALSE, !.ready = TRUE]
         disarmed == [client[LeImpl] EXCEPT !.active = FALSE, !.on_resume = FALSE]
         acknowledged == tasks \o Calls("ack_pause", {c \in {LeImpl} : client[c].paused})
         others == IF le_impl'.devices > 0 THEN <<[run |-> "create_le_connection"]>> ELSE <<>>
     IN  \/ /\ RemoveDevice(record)
            /\ client' = [client EXCEPT ![LeImpl] = Registering(disarmed)]
            /\ tasks' = acknowledged \o Registration(LeImpl)
                                     \o <<[run |-> "push_command"]>> \o others
         \/ /\ le_impl.removed
            /\ le_impl' = record
            /\ client' = [client EXCEPT ![LeImpl] = disarmed]
            /\ tasks' = acknowledged \o others
  /\ UNCHANGED <<address_policy_, manager, le_address_, random_address, fate, history>>

\* The controller refuses the command that starts the attempt
\* (update_connectability_state_after_armed): a cancel that was queued is dropped, and
\* nothing starts the attempt again unless le_impl is to be resumed.  These are not
\* counted either.
arm_failed ==
  /\ fate = "alive"
  /\ "ARM_FAILS" \in Operations
  /\ Len(tasks) < MaxTasks
  /\ client[LeImpl].active /\ NoLateCancel
  /\ client' = [client EXCEPT ![LeImpl].active = FALSE]
  /\ le_impl' = [le_impl EXCEPT !.disarming = FALSE]
  /\ tasks' = tasks \o Calls("ack_pause", {c \in {LeImpl} : client[c].paused})
  /\ UNCHANGED <<address_policy_, manager, le_address_, hci, random_address, fate, history>>

\* The controller refuses to cancel an attempt that has completed.
on_create_connection_cancel_complete ==
  /\ fate = "alive"
  /\ hci # <<>> /\ Head(hci) = LateCancel
  /\ hci' = Tail(hci)
  /\ tasks' = tasks \o Calls("ack_pause", {c \in {LeImpl} : client[c].paused})
  /\ UNCHANGED <<address_policy_, manager, le_address_, users, random_address, fate,
                 history>>

ResolvingListCommands ==
  <<"SET_ADDRESS_RESOLUTION_ENABLE", "RESOLVING_LIST", "SET_ADDRESS_RESOLUTION_ENABLE">>

AddToResolvingListCommands ==
  <<"SET_ADDRESS_RESOLUTION_ENABLE", "RESOLVING_LIST", "LE_SET_PRIVACY_MODE",
    "SET_ADDRESS_RESOLUTION_ENABLE">>

\* AddDeviceToResolvingList and RemoveDeviceFromResolvingList: who is registered
\* is looked at before register_client has run.
ChangeResolvingList(commands) ==
  /\ Begins("RESOLVING_LIST")
  /\ client' = [client EXCEPT ![LeImpl] = Registering(@)]
  /\ cached_commands_' = cached_commands_ \o commands
  /\ tasks' = tasks \o Registration(LeImpl) \o
       (IF Registered(registered_clients_) = {}
        THEN <<[run |-> "handle_next_command"]>>
        ELSE <<[run |-> "pause_registered_clients"]>>)
  /\ UNCHANGED <<registered_clients_, cached_address_, alarm, le_impl, hci, fate>>

ClearResolvingList ==
  /\ Begins("CLEAR_RESOLVING_LIST")
  /\ cached_commands_' = cached_commands_ \o ResolvingListCommands
  /\ tasks' = Append(tasks, [run |-> "pause_registered_clients"])
  /\ UNCHANGED <<registered_clients_, cached_address_, alarm, users, hci, fate>>

\* A repeated SetPrivacyPolicyForInitiatorAddress
UpdateIrk ==
  /\ Begins("UPDATE_IRK")
  /\ RotatingAddress
  /\ tasks' = Append(tasks, [run |-> "prepare_to_update_irk"])
  /\ UNCHANGED <<manager, users, hci, fate>>

-----------------------------------------------------------------------------
(* Closures of le_impl *)

RunCreateLeConnection ==
  /\ Runs("create_le_connection")
  /\ create_le_connection(client[LeImpl], Tail(tasks))
  /\ UNCHANGED <<manager, le_address_, le_impl, hci, random_address, fate>>

\* Whether le_impl is paused by now is not looked at.
arm_connectability ==
  /\ Runs("arm_connectability")
  /\ client' = [client EXCEPT ![LeImpl].active = @ \/ CanArm]
  /\ le_impl' = Arming(le_impl, CanArm)
  /\ tasks' = Tail(tasks)
  /\ UNCHANGED <<manager, le_address_, hci, random_address, fate>>

-----------------------------------------------------------------------------
Handler ==
  \/ register_client
  \/ unregister_client
  \/ RunAckPause
  \/ ack_resume
  \/ push_command
  \/ prepare_to_update_irk
  \/ RunPause
  \/ RunResume
  \/ RunHandleNextCommand
  \/ RunCheckCachedCommands
  \/ OnCommandComplete
  \/ RunCreateLeConnection
  \/ arm_connectability

\* What the controller does to end an attempt that is being cancelled
Cancels ==
  \/ on_le_connection_canceled
  \/ on_create_connection_cancel_complete

Next ==
  \/ Handler
  \/ prepare_to_rotate
  \/ ControllerCompletes
  \/ \E c \in Scanners : StartScan(c) \/ StopScan(c)
  \/ Connect
  \/ ConnectAgain
  \/ CancelConnect
  \/ ClearAcceptList
  \/ ConnectTimeout
  \/ arm_failed
  \/ on_le_connection_complete
  \/ Cancels
  \/ \E commands \in {ResolvingListCommands, AddToResolvingListCommands} :
       ChangeResolvingList(commands)
  \/ ClearResolvingList
  \/ UpdateIrk

Spec == Init /\ [][Next]_vars

\* The stack thread runs what is posted and the controller answers.  Scans need
\* not end, nothing need be connected and the alarm may be hours away.
Fairness == WF_vars(Handler) /\ WF_vars(ControllerCompletes) /\ WF_vars(Cancels)

FairSpec == Spec /\ Fairness

-----------------------------------------------------------------------------
(* Properties *)

\* Every variable keeps its type; in particular the host never uses an address that
\* was not generated and le_impl never removes a device it has not added.
TypeOK ==
  /\ address_policy_ \in Policies
  /\ registered_clients_ \in [Clients -> ClientState \cup {"unregistered"}]
  /\ cached_commands_ \in Seq(CommandType)
  /\ cached_address_ \in Nat
  /\ le_address_ \in 0 .. cached_address_
  /\ random_address \in 0 .. cached_address_
  /\ alarm \in {"idle", "armed"}
  /\ client \in [Clients -> ClientRecord]
  /\ le_impl \in LeImplRecord
  /\ fate \in {"alive", "assert"}

\* handle_next_command fails its assertion that a command is cached only in the closure
\* of a resolving list change, and after le_impl, which posted it, has registered and
\* acknowledged a pause: acknowledgements that came twice or late have sent the commands
\* before the closure ran.  No other acknowledgement, completion or departure leads to it.
AssertOnlyWhenPaused == fate # "alive" => registered_clients_[LeImpl] = "PAUSED"

\* As long as someone uses a private address its rotation is scheduled or pending
\* (schedule_rotate_random_address, unregister_client).
RotationScheduled ==
  RotatingAddress /\ Registered(registered_clients_) # {} =>
    \/ alarm = "armed"
    \/ \E n \in 1 .. Len(cached_commands_) : cached_commands_[n] = "ROTATE_RANDOM_ADDRESS"

\* When no closure is waiting, the manager knows exactly the clients that believe
\* they are registered, although they set their flag when they post the request.
RegistrationAgrees ==
  tasks = <<>> =>
    \A c \in Clients : client[c].registered <=> c \in Registered(registered_clients_)

Quiet ==
  tasks = <<>> /\ hci = <<>> /\ ~le_impl.disarming

\* When no closure is waiting and no attempt is being cancelled no acknowledgement is
\* owed, and whoever the manager takes for paused is: an acknowledgement given before a
\* resume does not count after it.
NoneOwed ==
  tasks = <<>> /\ ~le_impl.disarming =>
    \A c \in Clients :
      /\ registered_clients_[c] \notin {"WAITING_FOR_PAUSE", "WAITING_FOR_RESUME"}
      /\ registered_clients_[c] = "PAUSED" => client[c].paused

\* The manager and its clients, who learn of each other's changes by closures only,
\* agree on who is registered and who is paused (register_client, unregister_client,
\* resume_registered_clients), whichever acknowledgements came twice or too late.
ClientsAgree == RegistrationAgrees /\ NoneOwed

\* As long as le_impl completes no connection, a client that the manager has told to
\* pause is resumed or leaves.  A completion lets le_impl leave, and its departure may
\* overtake the acknowledgement that the others are waiting for.
ClientsAreResumed ==
  [](~le_impl.ready) =>
    \A c \in Clients :
      registered_clients_[c] \in {"WAITING_FOR_PAUSE", "PAUSED"} ~>
        registered_clients_[c] \in {"RESUMED", "unregistered"}

\* "make sure all client paused, if not, this function will be trigger again by
\* ack_pause" (handle_next_command): no command stays cached when no acknowledgement
\* is to come.
NoStrandedCommand == Quiet => cached_commands_ = <<>>

=============================================================================
