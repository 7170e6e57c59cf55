----------------------- MODULE LeAddressManagerProofs -----------------------
(* Theorems about LeAddressManager, for every choice of its constants.       *)
EXTENDS LeAddressManager, FiniteSetTheorems, SequenceTheorems, NaturalsInduction,
        WellFoundedInduction, TLAPS

-----------------------------------------------------------------------------
(* The invariant *)

ClientStates == ClientState \cup {"unregistered"}
HciCommands ==
  [type : CommandType \cup {"LE_SET_RANDOM_ADDRESS", "LE_CREATE_CONNECTION_CANCEL"},
   address : Nat, allowed : BOOLEAN]

\* The controller is only ever given addresses that were generated.
AddressesGenerated ==
  /\ hci \in Seq(HciCommands)
  /\ \A n \in 1 .. Len(hci) : hci[n].address <= cached_address_

\* A rotation is among these commands.
HasRotation(cached) == \E n \in 1 .. Len(cached) : cached[n] = "ROTATE_RANDOM_ADDRESS"

\* RotationScheduled of the values that a function of the manager is given.
Scheduled(clients, cached) ==
  RotatingAddress /\ Registered(clients) # {} => alarm = "armed" \/ HasRotation(cached)

Inv == TypeOK /\ AddressesGenerated /\ RotationScheduled

\* What TypeOK says of the clients and le_impl, which change together.
UsersOK == client \in [Clients -> ClientRecord] /\ le_impl \in LeImplRecord

-----------------------------------------------------------------------------
(* The clients *)

\* A client that is told to pause stays a client.
LEMMA OnPauseTypes ==
  ASSUME NEW S, NEW rest, UsersOK, OnPause(S, rest)
  PROVE  UsersOK'
<1> USE DEF UsersOK
<1> DEFINE Paused(c) ==
      IF c \notin Hearing(S) THEN client[c]
      ELSE IF c \in Scanners THEN ScannerPaused(client[c]) ELSE LeImplPaused(client[c])
<1>1. ASSUME NEW c \in Clients
      PROVE  Paused(c) \in ClientRecord
  <2>1. client[c] \in ClientRecord
    OBVIOUS
  <2>2. le_impl.connecting \in BOOLEAN
    BY DEF LeImplRecord
  <2>3. ScannerPaused(client[c]) \in ClientRecord
    BY <2>1 DEF ScannerPaused, ClientRecord
  <2>4. LeImplPaused(client[c]) \in ClientRecord
    BY <2>1, <2>2 DEF LeImplPaused, ClientRecord
  <2> QED
    BY <2>1, <2>3, <2>4
<1>2. client' = [c \in Clients |-> Paused(c)]
  BY DEF OnPause
<1> HIDE DEF Paused
<1>3. client' \in [Clients -> ClientRecord]
  BY <1>1, <1>2
<1>4. \E b \in BOOLEAN : le_impl' = [le_impl EXCEPT !.disarming = b]
  BY DEF OnPause, LeImplRecord
<1>5. le_impl' \in LeImplRecord
  BY <1>4 DEF LeImplRecord
<1> QED
  BY <1>3, <1>5

\* The record of le_impl when it has armed, or has not.
LEMMA ArmingType ==
  ASSUME NEW record \in LeImplRecord, NEW armed \in BOOLEAN
  PROVE  Arming(record, armed) \in LeImplRecord /\ Arming(record, armed).disarming = record.disarming
BY DEF Arming, LeImplRecord

\* So does one that is told to go on.
LEMMA OnResumeTypes ==
  ASSUME NEW S, NEW rest, UsersOK, OnResume(S, rest)
  PROVE  UsersOK'
<1> USE DEF UsersOK
<1> DEFINE started == {c \in Hearing(S) : ScannerContinues(c) \/ LeImplContinues(c)}
           resumed == Arming(le_impl, LeImpl \in started)
           Resumed(c, leaving) ==
             IF c \notin Hearing(S) THEN client[c]
             ELSE [registered |-> c \notin leaving, paused |-> FALSE,
                   active |-> client[c].active \/ c \in started, on_resume |-> FALSE]
<1>1. PICK leaving :
        /\ client' = [c \in Clients |-> Resumed(c, leaving)]
        /\ le_impl' = [resumed EXCEPT !.ready = @ /\ leaving = {}]
  BY DEF OnResume
<1>2. ASSUME NEW c \in Clients
      PROVE  Resumed(c, leaving) \in ClientRecord
  <2>1. client[c] \in ClientRecord
    OBVIOUS
  <2> HIDE DEF started
  <2> QED
    BY <2>1 DEF ClientRecord
<1> HIDE DEF Resumed
<1>3. client' \in [Clients -> ClientRecord]
  BY <1>1, <1>2
<1>4. resumed \in LeImplRecord
  <2> HIDE DEF started
  <2> QED
    BY DEF Arming, LeImplRecord
<1> HIDE DEF resumed
<1>5. le_impl' \in LeImplRecord
  BY <1>1, <1>4 DEF LeImplRecord
<1> QED
  BY <1>3, <1>5

-----------------------------------------------------------------------------
(* The manager *)

\* The arguments of the manager's functions.
GoodCall(clients, cached) ==
  /\ clients \in [Clients -> ClientStates]
  /\ cached \in Seq(CommandType)
  /\ Scheduled(clients, cached)

\* Who is left when some clients are erased.
LEMMA WithoutRegistered ==
  ASSUME NEW clients \in [Clients -> ClientStates], NEW gone
  PROVE  /\ Without(clients, gone) \in [Clients -> ClientStates]
         /\ Registered(Without(clients, gone)) = Registered(clients) \ gone
BY DEF Without, Registered, ClientStates

\* The rotation is cancelled only when nobody is left.
LEMMA AlarmAfterFacts ==
  ASSUME NEW value \in {"idle", "armed"}, NEW clients \in [Clients -> ClientStates], NEW gone
  PROVE  /\ AlarmAfter(value, clients, gone) \in {"idle", "armed"}
         /\ value = "armed" /\ AlarmAfter(value, clients, gone) # "armed" =>
              Registered(clients) \ gone = {}
BY WithoutRegistered DEF AlarmAfter

\* Telling clients to pause or to go on changes their state, not who is registered.
LEMMA ToldRegistered ==
  ASSUME NEW clients \in [Clients -> ClientStates], NEW told, told \subseteq Registered(clients),
         NEW state \in ClientState
  PROVE  LET after == [c \in Clients |-> IF c \in told THEN state ELSE clients[c]]
         IN  after \in [Clients -> ClientStates] /\ Registered(after) = Registered(clients)
BY DEF Registered, ClientStates, ClientState

\* What a step of the manager that only changes the state of the clients leaves.
LEMMA ManagerKeeps ==
  ASSUME Inv, NEW clients, NEW cached, NEW after, NEW gone, GoodCall(clients, cached),
         after \in [Clients -> ClientStates], Registered(after) = Registered(clients),
         UNCHANGED <<address_policy_, le_address_, random_address>>,
         registered_clients_' = Without(after, gone),
         UsersOK',
         cached_commands_' = cached,
         alarm' = AlarmAfter(alarm, clients, gone),
         UNCHANGED <<cached_address_, hci>>, fate' \in {"alive", "assert"}
  PROVE  Inv'
<1>1. registered_clients_' \in [Clients -> ClientStates]
      /\ Registered(registered_clients_)' = Registered(clients) \ gone
  <2>1. Registered(Without(after, gone)) = Registered(clients) \ gone
    BY WithoutRegistered
  <2> QED
    BY <2>1, WithoutRegistered DEF Registered
<1>2. clients \in [Clients -> ClientStates] /\ cached \in Seq(CommandType) /\ alarm \in {"idle", "armed"}
  BY DEF GoodCall, Inv, TypeOK
<1>3. alarm' \in {"idle", "armed"}
      /\ (alarm = "armed" /\ alarm' # "armed" => Registered(clients) \ gone = {})
  BY <1>2, AlarmAfterFacts
<1>4. RotationScheduled'
  <2>1. RotatingAddress' <=> RotatingAddress
    BY DEF RotatingAddress
  <2>2. HasRotation(cached) <=> HasRotation(cached_commands_')
    OBVIOUS
  <2>3. RotatingAddress /\ Registered(clients) \ gone # {} =>
          alarm' = "armed" \/ HasRotation(cached_commands_')
    BY <1>3, <2>2 DEF GoodCall, Scheduled
  <2> QED
    BY <1>1, <2>1, <2>3 DEF RotationScheduled, HasRotation
<1>5. TypeOK'
  BY <1>1, <1>2, <1>3 DEF Inv, TypeOK, UsersOK, ClientStates
<1>6. AddressesGenerated'
  BY DEF Inv, AddressesGenerated
<1> QED
  BY <1>4, <1>5, <1>6 DEF Inv

\* pause_registered_clients keeps the invariant.
LEMMA PauseKeeps ==
  ASSUME Inv, NEW clients, NEW cached, NEW rest, NEW gone, GoodCall(clients, cached),
         UNCHANGED <<address_policy_, le_address_, random_address>>,
         pause_registered_clients(clients, cached, rest, gone)
  PROVE  Inv'
<1> DEFINE told == {c \in Registered(clients) :
                      clients[c] \in {"WAITING_FOR_RESUME", "RESUMED"}}
           after == [c \in Clients |-> IF c \in told THEN "WAITING_FOR_PAUSE" ELSE clients[c]]
<1>1. after \in [Clients -> ClientStates] /\ Registered(after) = Registered(clients)
  <2>1. told \subseteq Registered(clients) /\ "WAITING_FOR_PAUSE" \in ClientState
    BY DEF ClientState
  <2> HIDE DEF told
  <2> QED
    BY <2>1, ToldRegistered DEF GoodCall
<1>2. UsersOK'
  <2>1. UsersOK /\ OnPause(told, rest)
    BY DEF Inv, TypeOK, UsersOK, pause_registered_clients
  <2> QED
    BY <2>1, OnPauseTypes
<1>3. /\ registered_clients_' = Without(after, gone) /\ cached_commands_' = cached
      /\ alarm' = AlarmAfter(alarm, clients, gone)
      /\ UNCHANGED <<cached_address_, hci>> /\ fate' \in {"alive", "assert"}
  BY DEF pause_registered_clients, Inv, TypeOK
<1> HIDE DEF after
<1> QED
  BY <1>1, <1>2, <1>3, ManagerKeeps

\* A command that is sent carries a generated address, if any.
LEMMA SendKeeps ==
  ASSUME Inv, NEW type \in CommandType, send_command(type)
  PROVE  AddressesGenerated' /\ cached_address_' \in Nat /\ cached_address_ <= cached_address_'
<1> DEFINE more(t, a) == Append(hci, Command(t, a))
<1>1. /\ hci \in Seq(HciCommands) /\ cached_address_ \in Nat
      /\ \A n \in 1 .. Len(hci) : hci[n].address <= cached_address_
  BY DEF Inv, TypeOK, AddressesGenerated
<1>2. ASSUME NEW t \in CommandType \cup {"LE_SET_RANDOM_ADDRESS"}, NEW a \in Nat, NEW max \in Nat,
             a <= max, cached_address_ <= max
      PROVE  /\ more(t, a) \in Seq(HciCommands)
             /\ \A n \in 1 .. Len(more(t, a)) : more(t, a)[n].address <= max
  <2>1. Command(t, a) \in HciCommands /\ Command(t, a).address = a
    BY DEF Command, HciCommands
  <2>2. /\ more(t, a) \in Seq(HciCommands)
        /\ \A n \in 1 .. Len(more(t, a)) :
             more(t, a)[n] = Command(t, a) \/ (n \in 1 .. Len(hci) /\ more(t, a)[n] = hci[n])
    <3> DEFINE new == Command(t, a)
    <3>1. new \in HciCommands
      BY <2>1
    <3> HIDE DEF new
    <3>2. /\ Append(hci, new) \in Seq(HciCommands)
          /\ \A n \in 1 .. Len(Append(hci, new)) :
               Append(hci, new)[n] = new \/ (n \in 1 .. Len(hci) /\ Append(hci, new)[n] = hci[n])
      BY <1>1, <3>1
    <3> QED
      BY <3>2 DEF new
  <2>3. \A n \in 1 .. Len(hci) : hci[n].address \in Nat
    <3>1. \A n \in 1 .. Len(hci) : hci[n] \in HciCommands
      BY <1>1, ElementOfSeq
    <3> QED
      BY <3>1 DEF HciCommands
  <2>4. \A n \in 1 .. Len(hci) : hci[n].address <= max
    BY <1>1, <1>2, <2>3
  <2> HIDE DEF more
  <2> QED
    BY <1>2, <2>1, <2>2, <2>4
<1>3. CASE IsAddressChange(type)
  <2>1. /\ cached_address_' = cached_address_ + 1
        /\ hci' = more("LE_SET_RANDOM_ADDRESS", cached_address_ + 1)
    BY <1>3 DEF send_command, NewAddress
  <2>2. cached_address_ + 1 \in Nat /\ cached_address_ <= cached_address_ + 1
        /\ cached_address_ + 1 <= cached_address_ + 1
    BY <1>1
  <2> HIDE DEF more
  <2> QED
    BY <1>2, <2>1, <2>2 DEF AddressesGenerated
<1>4. CASE ~IsAddressChange(type)
  <2>1. cached_address_' = cached_address_ /\ hci' = more(type, 0)
    BY <1>4 DEF send_command
  <2>2. 0 <= cached_address_ /\ cached_address_ <= cached_address_ /\ 0 \in Nat
    BY <1>1
  <2> HIDE DEF more
  <2> QED
    BY <1>1, <1>2, <2>1, <2>2 DEF AddressesGenerated
<1> QED
  BY <1>3, <1>4

\* Sending a command of the cache keeps the rotation: the one sent schedules the next.
LEMMA RotationAfterSending ==
  ASSUME NEW cached \in Seq(CommandType), cached # <<>>, HasRotation(cached),
         Head(cached) # "ROTATE_RANDOM_ADDRESS"
  PROVE  HasRotation(Tail(cached))
<1>1. PICK n \in 1 .. Len(cached) : cached[n] = "ROTATE_RANDOM_ADDRESS"
  BY DEF HasRotation
<1>2. Len(cached) \in Nat /\ Len(Tail(cached)) = Len(cached) - 1 /\ Head(cached) = cached[1]
      /\ \A m \in 1 .. Len(Tail(cached)) : Tail(cached)[m] = cached[m + 1]
  BY HeadTailProperties, LenProperties
<1>3. n # 1
  BY <1>1, <1>2
<1>4. n - 1 \in 1 .. Len(Tail(cached)) /\ (n - 1) + 1 = n
  BY <1>2, <1>3
<1> QED
  BY <1>1, <1>2, <1>4 DEF HasRotation

\* handle_next_command keeps the invariant.
LEMMA HandleNextKeeps ==
  ASSUME Inv, NEW clients, NEW cached, NEW rest, NEW gone, GoodCall(clients, cached),
         UNCHANGED <<address_policy_, le_address_, random_address>>,
         handle_next_command(clients, cached, rest, gone)
  PROVE  Inv'
<1>1. UsersOK' /\ fate' \in {"alive", "assert"} /\ registered_clients_' = Without(clients, gone)
  BY DEF Inv, TypeOK, UsersOK, handle_next_command, users
<1>2. clients \in [Clients -> ClientStates] /\ cached \in Seq(CommandType) /\ alarm \in {"idle", "armed"}
      /\ le_address_ \in 0 .. cached_address_ /\ random_address \in 0 .. cached_address_
      /\ cached_address_ \in Nat /\ address_policy_ \in Policies
  BY DEF GoodCall, Inv, TypeOK
<1>3. CASE NotPaused(clients) # {} \/ cached = <<>>
  <2>1. /\ cached_commands_' = cached /\ alarm' = AlarmAfter(alarm, clients, gone)
        /\ UNCHANGED <<cached_address_, hci>>
    BY <1>3 DEF handle_next_command
  <2> QED
    BY <1>1, <1>2, <2>1, ManagerKeeps
<1>4. CASE NotPaused(clients) = {} /\ cached # <<>>
  <2> DEFINE value == IF Head(cached) = "ROTATE_RANDOM_ADDRESS" THEN "armed" ELSE alarm
  <2>1. /\ cached_commands_' = Tail(cached) /\ alarm' = AlarmAfter(value, clients, gone)
        /\ send_command(Head(cached))
    BY <1>4 DEF handle_next_command, schedule_rotate_random_address
  <2>2. Head(cached) \in CommandType /\ Tail(cached) \in Seq(CommandType)
    BY <1>2, <1>4, HeadTailProperties
  <2>3. AddressesGenerated' /\ cached_address_' \in Nat /\ cached_address_ <= cached_address_'
    BY <2>1, <2>2, SendKeeps
  <2>4. /\ registered_clients_' \in [Clients -> ClientStates]
        /\ Registered(registered_clients_)' = Registered(clients) \ gone
    <3>1. Registered(Without(clients, gone)) = Registered(clients) \ gone
      BY <1>2, WithoutRegistered
    <3> QED
      BY <1>1, <1>2, <3>1, WithoutRegistered DEF Registered
  <2>5. alarm' \in {"idle", "armed"}
        /\ (value = "armed" /\ alarm' # "armed" => Registered(clients) \ gone = {})
    <3>1. value \in {"idle", "armed"}
      BY <1>2
    <3> HIDE DEF value
    <3> QED
      BY <1>2, <2>1, <3>1, AlarmAfterFacts
  <2>6. le_address_' \in 0 .. cached_address_' /\ random_address' \in 0 .. cached_address_'
    BY <1>2, <2>3
  <2>7. TypeOK'
    BY <1>1, <1>2, <2>1, <2>2, <2>3, <2>4, <2>5, <2>6 DEF TypeOK, UsersOK, ClientStates
  <2>8. RotationScheduled'
    <3>1. RotatingAddress' <=> RotatingAddress
      BY DEF RotatingAddress
    <3>2. RotatingAddress /\ Registered(clients) \ gone # {} => value = "armed" \/ HasRotation(Tail(cached))
      BY <1>2, <1>4, RotationAfterSending DEF GoodCall, Scheduled
    <3>3. RotatingAddress /\ Registered(clients) \ gone # {} =>
            alarm' = "armed" \/ HasRotation(cached_commands_')
      BY <2>1, <2>5, <3>2
    <3> QED
      BY <2>4, <3>1, <3>3 DEF RotationScheduled, HasRotation
  <2> QED
    BY <2>3, <2>7, <2>8 DEF Inv
<1> QED
  BY <1>3, <1>4

\* resume_registered_clients keeps the invariant.
LEMMA ResumeKeeps ==
  ASSUME Inv, NEW clients, NEW cached, NEW rest, NEW gone, GoodCall(clients, cached),
         cached = <<>> => cached_commands_ = <<>>,
         UNCHANGED <<address_policy_, le_address_, random_address>>,
         resume_registered_clients(clients, cached, rest, gone)
  PROVE  Inv'
<1>1. CASE cached # <<>>
  BY <1>1, HandleNextKeeps DEF resume_registered_clients
<1>2. CASE cached = <<>>
  <2> DEFINE after == [c \in Clients |->
               IF c \in Registered(clients) THEN "WAITING_FOR_RESUME" ELSE clients[c]]
  <2>1. after \in [Clients -> ClientStates] /\ Registered(after) = Registered(clients)
    <3>1. "WAITING_FOR_RESUME" \in ClientState /\ clients \in [Clients -> ClientStates]
      BY DEF ClientState, GoodCall
    <3> QED
      BY <3>1, ToldRegistered
  <2>2. /\ registered_clients_' = Without(after, gone)
        /\ OnResume(Registered(clients), rest)
        /\ alarm' = AlarmAfter(alarm, clients, gone)
        /\ UNCHANGED <<cached_commands_, cached_address_, hci, fate>>
    BY <1>2 DEF resume_registered_clients
  <2>3. UsersOK' /\ fate' \in {"alive", "assert"} /\ cached_commands_' = cached
    <3>1. UsersOK /\ fate \in {"alive", "assert"}
      BY DEF Inv, TypeOK, UsersOK
    <3> QED
      BY <1>2, <2>2, <3>1, OnResumeTypes
  <2> HIDE DEF after
  <2> QED
    BY <2>1, <2>2, <2>3, ManagerKeeps
<1> QED
  BY <1>1, <1>2

\* check_cached_commands keeps the invariant.
LEMMA CheckKeeps ==
  ASSUME Inv, NEW clients, NEW rest, NEW gone, GoodCall(clients, cached_commands_),
         UNCHANGED <<address_policy_, le_address_, random_address>>,
         check_cached_commands(clients, cached_commands_, rest, gone)
  PROVE  Inv'
BY PauseKeeps, ResumeKeeps DEF check_cached_commands

\* The first client that has not paused is one of them.
LEMMA LeastClient ==
  ASSUME NEW clients, NotPaused(clients) # {}
  PROVE  Min(NotPaused(clients)) \in NotPaused(clients)
<1> DEFINE S == NotPaused(clients)
<1>1. S \in SUBSET Nat /\ S # {}
  BY ClientsAssumption DEF NotPaused, Registered
<1> HIDE DEF S
<1>2. PICK least \in S : \A y \in Nat : <<y, least>> \in OpToRel(<, Nat) => y \notin S
  BY <1>1, NatLessThanWellFounded, WFMin
<1>3. ASSUME NEW other \in S, other < least
      PROVE  FALSE
  BY <1>1, <1>2, <1>3 DEF OpToRel
<1>4. \A other \in S : least <= other
  BY <1>1, <1>3
<1>5. Min(S) \in S
  BY <1>4 DEF Min
<1> QED
  BY <1>5 DEF S

\* ack_pause keeps the invariant.
LEMMA AckPauseKeeps ==
  ASSUME Inv, NEW c, c \in Clients => c \in Registered(registered_clients_), NEW rest, NEW gone,
         UNCHANGED <<address_policy_, le_address_, random_address>>,
         ack_pause(c, rest, gone)
  PROVE  Inv'
<1> DEFINE clients == [registered_clients_ EXCEPT ![c] = "PAUSED"]
           first == Min(NotPaused(clients))
<1>1. /\ clients \in [Clients -> ClientStates]
      /\ Registered(clients) = Registered(registered_clients_)
  BY DEF Inv, TypeOK, ClientStates, ClientState, Registered
<1>2. GoodCall(clients, cached_commands_)
  BY <1>1 DEF GoodCall, Scheduled, HasRotation, Inv, TypeOK, RotationScheduled
<1>3. UsersOK /\ fate \in {"alive", "assert"}
  BY DEF Inv, TypeOK, UsersOK
<1>4. CASE NotPaused(clients) = {}
  BY <1>2, <1>4, CheckKeeps DEF ack_pause
<1>5. CASE NotPaused(clients) # {} /\ clients[first] = "WAITING_FOR_PAUSE"
  <2>1. /\ registered_clients_' = Without(clients, gone)
        /\ alarm' = AlarmAfter(alarm, clients, gone)
        /\ UNCHANGED <<cached_commands_, cached_address_, users, hci, fate>>
    BY <1>5 DEF ack_pause
  <2> HIDE DEF clients, first
  <2>2. UsersOK' /\ fate' \in {"alive", "assert"} /\ cached_commands_' = cached_commands_
    BY <1>3, <2>1 DEF UsersOK, users
  <2> QED
    BY <1>1, <1>2, <2>1, <2>2, ManagerKeeps
<1>6. CASE NotPaused(clients) # {} /\ clients[first] # "WAITING_FOR_PAUSE"
  <2> DEFINE after == [clients EXCEPT ![first] = "WAITING_FOR_PAUSE"]
  <2>1. /\ registered_clients_' = Without(after, gone)
        /\ OnPause({first}, rest)
        /\ alarm' = AlarmAfter(alarm, clients, gone)
        /\ UNCHANGED <<cached_commands_, cached_address_, hci, fate>>
    BY <1>6 DEF ack_pause
  <2>2. first \in NotPaused(clients)
    BY <1>6, LeastClient
  <2> HIDE DEF clients, first
  <2>3. after \in [Clients -> ClientStates] /\ Registered(after) = Registered(clients)
    BY <1>1, <2>2 DEF NotPaused, Registered, ClientStates, ClientState
  <2>4. UsersOK' /\ fate' \in {"alive", "assert"} /\ cached_commands_' = cached_commands_
    BY <1>3, <2>1, OnPauseTypes
  <2> HIDE DEF after
  <2> QED
    BY <1>1, <1>2, <2>1, <2>3, <2>4, ManagerKeeps
<1> QED
  BY <1>4, <1>5, <1>6

-----------------------------------------------------------------------------
(* The actions *)

\* The state of the manager is a good call of its functions.
LEMMA OwnCall ==
  ASSUME Inv
  PROVE  GoodCall(registered_clients_, cached_commands_)
BY DEF GoodCall, Scheduled, HasRotation, Inv, TypeOK, RotationScheduled, ClientStates

\* It stays one when a command is appended.
LEMMA AppendedCall ==
  ASSUME Inv, NEW type \in CommandType
  PROVE  GoodCall(registered_clients_, Append(cached_commands_, type))
<1>1. GoodCall(registered_clients_, cached_commands_)
  BY OwnCall
<1>2. cached_commands_ \in Seq(CommandType)
  BY DEF Inv, TypeOK
<1>3. Append(cached_commands_, type) \in Seq(CommandType)
      /\ \A n \in 1 .. Len(cached_commands_) :
           n \in 1 .. Len(Append(cached_commands_, type))
           /\ Append(cached_commands_, type)[n] = cached_commands_[n]
  BY <1>2
<1>4. HasRotation(cached_commands_) => HasRotation(Append(cached_commands_, type))
  BY <1>3 DEF HasRotation
<1> QED
  BY <1>1, <1>3, <1>4 DEF GoodCall, Scheduled

\* Steps of the clients that leave the manager alone, but for the commands they
\* append to its cache.
LEMMA UsersKeep ==
  ASSUME Inv, UsersOK', AddressesGenerated',
         UNCHANGED <<address_policy_, registered_clients_, cached_address_, alarm,
                     le_address_, random_address, fate>>,
         NEW more \in Seq(CommandType), cached_commands_' = cached_commands_ \o more
  PROVE  Inv'
<1>1. cached_commands_ \in Seq(CommandType)
  BY DEF Inv, TypeOK
<1>2. cached_commands_ \o more \in Seq(CommandType)
      /\ \A n \in 1 .. Len(cached_commands_) :
           n \in 1 .. Len(cached_commands_ \o more)
           /\ (cached_commands_ \o more)[n] = cached_commands_[n]
  BY <1>1, ConcatProperties, LenProperties
<1>3. HasRotation(cached_commands_) => HasRotation(cached_commands_')
  BY <1>2 DEF HasRotation
<1>4. RotationScheduled'
  BY <1>3 DEF Inv, RotationScheduled, RotatingAddress, Registered, HasRotation
<1>5. TypeOK'
  BY <1>2 DEF Inv, TypeOK, UsersOK
<1> QED
  BY <1>4, <1>5 DEF Inv

\* The same for steps that do not append anything.
LEMMA UsersOnlyKeep ==
  ASSUME Inv, UsersOK', AddressesGenerated' \/ UNCHANGED hci,
         UNCHANGED <<address_policy_, manager, le_address_, random_address, fate>>
  PROVE  Inv'
<1>1. /\ cached_commands_' = cached_commands_
      /\ UNCHANGED <<address_policy_, registered_clients_, cached_address_, alarm,
                     le_address_, random_address, fate>>
      /\ AddressesGenerated'
  BY DEF manager, Inv, AddressesGenerated
<1>2. cached_commands_ \in Seq(CommandType)
  BY DEF Inv, TypeOK
<1>3. cached_commands_' = cached_commands_ \o <<>> /\ <<>> \in Seq(CommandType)
  BY <1>1, <1>2, ConcatEmptySeq, EmptySeq
<1> QED
  BY <1>1, <1>3, UsersKeep

\* The manager starts without clients.
LEMMA InitInv == Init => Inv
<1> SUFFICES ASSUME Init PROVE Inv
  OBVIOUS
<1>1. Registered(registered_clients_) = {}
  BY DEF Init, Registered
<1>2. UsersOK
  BY DEF Init, UsersOK, ClientRecord, LeImplRecord
<1>3. cached_address_ \in {0, 1} /\ hci \in Seq(HciCommands)
      /\ \A n \in 1 .. Len(hci) : hci[n].address <= cached_address_
  <2>1. CASE cached_address_ = 0 /\ hci = <<>>
    BY <2>1
  <2>2. CASE cached_address_ = 1 /\ hci = <<Command("LE_SET_RANDOM_ADDRESS", 1)>>
    <3> DEFINE first == Command("LE_SET_RANDOM_ADDRESS", 1)
    <3>1. first \in HciCommands /\ first.address = 1
      BY DEF Command, HciCommands
    <3> HIDE DEF first
    <3>2. <<first>> \in Seq(HciCommands) /\ Len(<<first>>) = 1 /\ <<first>>[1] = first
      BY <3>1
    <3>3. hci = <<first>>
      BY <2>2 DEF first
    <3> QED
      BY <2>2, <3>1, <3>2, <3>3
  <2> QED
    BY <2>1, <2>2 DEF Init
<1>4. TypeOK
  BY <1>2, <1>3 DEF Init, TypeOK, UsersOK
<1>5. RotationScheduled
  BY <1>1 DEF RotationScheduled
<1> QED
  BY <1>3, <1>4, <1>5 DEF Inv, AddressesGenerated

\* register_client: the first client starts the rotation.
LEMMA RegisterKeeps ==
  ASSUME Inv, register_client
  PROVE  Inv'
<1> DEFINE c == Head(tasks).client
           after == [registered_clients_ EXCEPT
             ![c] = IF c \notin Registered(registered_clients_) THEN "RESUMED" ELSE @]
<1>1. /\ registered_clients_' = after
      /\ alarm' = IF RotatingAddress /\ Cardinality(Registered(registered_clients_')) = 1
                  THEN "armed" ELSE alarm
      /\ UNCHANGED <<address_policy_, cached_commands_, cached_address_, le_address_, users, hci,
                     random_address, fate>>
  BY DEF register_client, Runs, schedule_rotate_random_address
<1>2. registered_clients_ \in [Clients -> ClientStates]
  BY DEF Inv, TypeOK, ClientStates
<1> HIDE DEF c
<1>3. after \in [Clients -> ClientStates]
  BY <1>2 DEF ClientStates, ClientState
<1>4. Registered(registered_clients_') \subseteq Registered(registered_clients_) \cup {c}
  BY <1>1, <1>2 DEF Registered
<1>5. UsersOK'
  BY <1>1 DEF Inv, TypeOK, UsersOK, users
<1>6. TypeOK'
  <2>1. registered_clients_' \in [Clients -> ClientState \cup {"unregistered"}]
    BY <1>1, <1>3 DEF ClientStates
  <2> HIDE DEF after
  <2> QED
    BY <1>1, <1>5, <2>1 DEF Inv, TypeOK, UsersOK
<1>7. RotationScheduled'
  <2> SUFFICES ASSUME RotatingAddress', Registered(registered_clients_') # {}
               PROVE  alarm' = "armed" \/ HasRotation(cached_commands_')
    BY DEF RotationScheduled, HasRotation, Registered
  <2>1. RotatingAddress
    BY <1>1 DEF RotatingAddress
  <2>2. CASE Registered(registered_clients_) = {}
    <3>1. Registered(registered_clients_') = {c}
      BY <1>4, <2>2
    <3>2. Cardinality(Registered(registered_clients_')) = 1
      BY <3>1, FS_Singleton
    <3> QED
      BY <1>1, <2>1, <3>2
  <2>3. CASE Registered(registered_clients_) # {}
    <3>1. alarm = "armed" \/ HasRotation(cached_commands_)
      BY <2>1, <2>3 DEF Inv, RotationScheduled, HasRotation
    <3> HIDE DEF after
    <3> QED
      BY <1>1, <3>1 DEF HasRotation
  <2> QED
    BY <2>2, <2>3
<1>8. AddressesGenerated'
  BY <1>1 DEF Inv, AddressesGenerated
<1> QED
  BY <1>6, <1>7, <1>8 DEF Inv

\* unregister_client: the rotation ends with the last client only.
LEMMA UnregisterKeeps ==
  ASSUME Inv, unregister_client
  PROVE  Inv'
<1> DEFINE c == Head(tasks).client
<1>1. UNCHANGED <<address_policy_, le_address_, random_address>>
  BY DEF unregister_client, Runs
<1>2. CASE registered_clients_[c] = "WAITING_FOR_PAUSE"
  <2>1. ack_pause(c, Tail(tasks), {c})
    BY <1>2 DEF unregister_client
  <2>2. c \in Clients => c \in Registered(registered_clients_)
    BY <1>2 DEF Registered
  <2> HIDE DEF c
  <2> QED
    BY <1>1, <2>1, <2>2, AckPauseKeeps
<1>3. CASE registered_clients_[c] # "WAITING_FOR_PAUSE"
  <2>1. /\ registered_clients_' = Without(registered_clients_, {c})
        /\ alarm' = AlarmAfter(alarm, registered_clients_, {c})
        /\ UNCHANGED <<cached_commands_, cached_address_, users, hci, fate>>
    BY <1>3 DEF unregister_client
  <2>2. GoodCall(registered_clients_, cached_commands_)
    BY OwnCall
  <2>3. UsersOK' /\ fate' \in {"alive", "assert"} /\ cached_commands_' = cached_commands_
        /\ registered_clients_ \in [Clients -> ClientStates]
    BY <2>1 DEF Inv, TypeOK, UsersOK, users, ClientStates
  <2> HIDE DEF c
  <2> QED
    BY <1>1, <2>1, <2>2, <2>3, ManagerKeeps
<1> QED
  BY <1>2, <1>3

\* The other closures of the manager.
LEMMA ManagerStepKeeps ==
  ASSUME Inv,
         \/ RunAckPause \/ ack_resume \/ push_command \/ prepare_to_update_irk
         \/ RunPause \/ RunResume \/ RunHandleNextCommand \/ RunCheckCachedCommands
  PROVE  Inv'
<1>1. UNCHANGED <<address_policy_, le_address_, random_address>>
  BY DEF RunAckPause, ack_resume, push_command, prepare_to_update_irk, RunPause, RunResume,
         RunHandleNextCommand, RunCheckCachedCommands, Runs
<1>2. GoodCall(registered_clients_, cached_commands_)
  BY OwnCall
<1>3. UsersOK /\ registered_clients_ \in [Clients -> ClientStates] /\ fate \in {"alive", "assert"}
      /\ alarm \in {"idle", "armed"}
  BY DEF Inv, TypeOK, UsersOK, ClientStates
<1>4. CASE RunAckPause
  <2> DEFINE c == Head(tasks).client
  <2>1. CASE c \in Registered(registered_clients_)
    <3>1. ack_pause(c, Tail(tasks), {})
      BY <1>4, <2>1 DEF RunAckPause
    <3> HIDE DEF c
    <3> QED
      BY <1>1, <2>1, <3>1, AckPauseKeeps
  <2>2. CASE c \notin Registered(registered_clients_)
    <3>1. UNCHANGED <<manager, users, hci, fate>>
      BY <1>4, <2>2 DEF RunAckPause
    <3>2. UsersOK'
      BY <1>3, <3>1 DEF UsersOK, users
    <3> QED
      BY <1>1, <3>1, <3>2, UsersOnlyKeep
  <2> QED
    BY <2>1, <2>2
<1>5. CASE ack_resume
  <2> DEFINE c == Head(tasks).client
             after == [registered_clients_ EXCEPT
                         ![c] = IF @ = "unregistered" THEN @ ELSE "RESUMED"]
  <2>1. /\ registered_clients_' = after
        /\ UNCHANGED <<cached_commands_, cached_address_, alarm, users, hci, fate>>
    BY <1>5 DEF ack_resume
  <2> HIDE DEF c
  <2>2. after \in [Clients -> ClientStates] /\ Registered(after) = Registered(registered_clients_)
    BY <1>3 DEF Registered, ClientStates, ClientState
  <2>3. UsersOK' /\ fate' \in {"alive", "assert"} /\ cached_commands_' = cached_commands_
    BY <1>3, <2>1 DEF UsersOK, users
  <2>4. after = Without(after, {})
    BY <2>2 DEF Without
  <2>5. alarm' = AlarmAfter(alarm, registered_clients_, {})
    BY <2>1 DEF AlarmAfter
  <2> HIDE DEF after
  <2>6. registered_clients_' = Without(after, {})
    BY <2>1, <2>4
  <2> QED
    BY <1>1, <1>2, <2>1, <2>2, <2>3, <2>5, <2>6, ManagerKeeps
<1>6. CASE push_command
  <2>1. pause_registered_clients(registered_clients_,
          Append(cached_commands_, "ACCEPT_LIST"), Tail(tasks), {})
    BY <1>6 DEF push_command
  <2>2. GoodCall(registered_clients_, Append(cached_commands_, "ACCEPT_LIST"))
    BY AppendedCall DEF CommandType
  <2> QED
    BY <1>1, <2>1, <2>2, PauseKeeps
<1>7. CASE prepare_to_update_irk
  <2>1. \/ handle_next_command(registered_clients_,
             Append(cached_commands_, "UPDATE_IRK"), Tail(tasks), {})
        \/ pause_registered_clients(registered_clients_,
             Append(cached_commands_, "UPDATE_IRK"), Tail(tasks), {})
    BY <1>7 DEF prepare_to_update_irk
  <2>2. GoodCall(registered_clients_, Append(cached_commands_, "UPDATE_IRK"))
    BY AppendedCall DEF CommandType
  <2> QED
    BY <1>1, <2>1, <2>2, PauseKeeps, HandleNextKeeps
<1>8. CASE RunPause
  BY <1>1, <1>2, <1>8, PauseKeeps DEF RunPause
<1>9. CASE RunResume
  BY <1>1, <1>2, <1>9, ResumeKeeps DEF RunResume
<1>10. CASE RunHandleNextCommand
  BY <1>1, <1>2, <1>10, HandleNextKeeps DEF RunHandleNextCommand
<1>11. CASE RunCheckCachedCommands
  BY <1>1, <1>2, <1>11, CheckKeeps DEF RunCheckCachedCommands
<1> QED
  BY <1>4, <1>5, <1>6, <1>7, <1>8, <1>9, <1>10, <1>11

\* A command completes: the host takes over the last address generated, the controller
\* the one it was given.
LEMMA CompletionKeeps ==
  ASSUME Inv, OnCommandComplete \/ ControllerCompletes
  PROVE  Inv'
<1>1. UsersOK' /\ fate' \in {"alive", "assert"}
      /\ UNCHANGED <<address_policy_, manager>>
  BY DEF Inv, TypeOK, UsersOK, users, OnCommandComplete, ControllerCompletes, Runs
<1>2. /\ hci \in Seq(HciCommands) /\ cached_address_ \in Nat
      /\ \A n \in 1 .. Len(hci) : hci[n].address <= cached_address_
      /\ le_address_ \in 0 .. cached_address_ /\ random_address \in 0 .. cached_address_
  BY DEF Inv, TypeOK, AddressesGenerated
<1>3. AddressesGenerated' /\ random_address' \in 0 .. cached_address_
      /\ le_address_' \in 0 .. cached_address_
  <2>1. CASE OnCommandComplete
    BY <1>1, <1>2, <2>1 DEF OnCommandComplete, AddressesGenerated, manager
  <2>2. CASE ControllerCompletes
    <3>1. hci # <<>> /\ hci' = Tail(hci)
      BY <2>2 DEF ControllerCompletes
    <3>2. /\ Tail(hci) \in Seq(HciCommands) /\ Head(hci) = hci[1]
          /\ Len(Tail(hci)) = Len(hci) - 1 /\ Len(hci) \in Nat /\ Len(hci) # 0
          /\ \A n \in 1 .. Len(Tail(hci)) : Tail(hci)[n] = hci[n + 1]
      BY <1>2, <3>1, HeadTailProperties, LenProperties, EmptySeq
    <3>3. hci[1] \in HciCommands /\ 1 \in 1 .. Len(hci)
      BY <1>2, <3>2, ElementOfSeq
    <3>4. Head(hci).address \in 0 .. cached_address_
      <4>1. Head(hci).address \in Nat
        BY <3>2, <3>3 DEF HciCommands
      <4> QED
        BY <1>2, <3>2, <3>3, <4>1
    <3>5. \A n \in 1 .. Len(Tail(hci)) : Tail(hci)[n].address <= cached_address_
      <4>1. \A n \in 1 .. Len(Tail(hci)) : n + 1 \in 1 .. Len(hci)
        BY <3>2
      <4> QED
        BY <1>2, <3>2, <4>1
    <3>6. cached_address_' = cached_address_ /\ le_address_' = le_address_
      BY <1>1, <2>2 DEF manager, ControllerCompletes
    <3>7. random_address' \in {random_address, Head(hci).address}
      BY <2>2 DEF ControllerCompletes
    <3> QED
      BY <1>2, <3>1, <3>2, <3>4, <3>5, <3>6, <3>7 DEF AddressesGenerated
  <2> QED
    BY <2>1, <2>2
<1>4. TypeOK'
  BY <1>1, <1>3 DEF Inv, TypeOK, UsersOK, manager
<1>5. RotationScheduled'
  BY <1>1 DEF Inv, RotationScheduled, RotatingAddress, Registered, manager
<1> QED
  BY <1>3, <1>4, <1>5 DEF Inv

\* prepare_to_rotate: the alarm has gone off, and a rotation is cached instead.
LEMMA RotateKeeps ==
  ASSUME Inv, prepare_to_rotate
  PROVE  Inv'
<1> DEFINE told == {c \in Registered(registered_clients_) :
                      registered_clients_[c] \in {"WAITING_FOR_RESUME", "RESUMED"}}
           after == [c \in Clients |->
                       IF c \in told THEN "WAITING_FOR_PAUSE" ELSE registered_clients_[c]]
<1>1. /\ registered_clients_' = after /\ OnPause(told, tasks) /\ alarm' = "idle"
      /\ cached_commands_' = Append(cached_commands_, "ROTATE_RANDOM_ADDRESS")
      /\ UNCHANGED <<address_policy_, le_address_, random_address, cached_address_, hci, fate>>
  BY DEF prepare_to_rotate, Begins
<1>2. UsersOK /\ registered_clients_ \in [Clients -> ClientStates]
      /\ cached_commands_ \in Seq(CommandType)
  BY DEF Inv, TypeOK, UsersOK, ClientStates
<1>3. registered_clients_' \in [Clients -> ClientStates]
  BY <1>1, <1>2 DEF ClientStates, ClientState
<1> HIDE DEF told
<1>4. UsersOK'
  BY <1>1, <1>2, OnPauseTypes
<1>5. "ROTATE_RANDOM_ADDRESS" \in CommandType
  BY DEF CommandType
<1>6. cached_commands_' \in Seq(CommandType)
  BY <1>1, <1>2, <1>5
<1>7. Len(cached_commands_') \in 1 .. Len(cached_commands_')
      /\ cached_commands_'[Len(cached_commands_')] = "ROTATE_RANDOM_ADDRESS"
  BY <1>1, <1>2, <1>5
<1> HIDE DEF after
<1>8. TypeOK'
  BY <1>1, <1>3, <1>4, <1>6 DEF Inv, TypeOK, UsersOK, ClientStates
<1>9. RotationScheduled'
  BY <1>7 DEF RotationScheduled
<1>10. AddressesGenerated'
  BY <1>1 DEF Inv, AddressesGenerated
<1> QED
  BY <1>8, <1>9, <1>10 DEF Inv

\* Changing the record of one client.
LEMMA OneClient ==
  ASSUME NEW clients \in [Clients -> ClientRecord], NEW c, NEW record \in ClientRecord
  PROVE  [clients EXCEPT ![c] = record] \in [Clients -> ClientRecord]
OBVIOUS

\* Registering keeps a record a record.
LEMMA RegisteringType ==
  ASSUME NEW record \in ClientRecord
  PROVE  Registering(record) \in ClientRecord
BY DEF Registering, ClientRecord

\* Removing a device does so as well, because the device was in the list.
LEMMA RemoveDeviceType ==
  ASSUME NEW record \in LeImplRecord, RemoveDevice(record)
  PROVE  le_impl' \in LeImplRecord
<1>1. PICK connecting \in BOOLEAN :
        /\ record.devices > 0
        /\ le_impl' = [record EXCEPT !.devices = @ - 1, !.connecting = connecting]
  BY DEF RemoveDevice
<1>2. record.devices - 1 \in Nat
  BY <1>1 DEF LeImplRecord
<1> QED
  BY <1>1, <1>2 DEF LeImplRecord

\* create_le_connection changes le_impl's record only.
LEMMA CreateType ==
  ASSUME client \in [Clients -> ClientRecord], NEW before \in ClientRecord, NEW posted,
         create_le_connection(before, posted)
  PROVE  client' \in [Clients -> ClientRecord]
<1> DEFINE record == [before EXCEPT
             !.registered = TRUE, !.paused = @ \/ (~before.registered /\ RotatingAddress)]
           after == [record EXCEPT !.on_resume = @ \/ record.paused]
<1>1. record \in ClientRecord
  BY DEF ClientRecord
<1>2. client' = [client EXCEPT ![LeImpl] = after]
  BY DEF create_le_connection
<1> HIDE DEF record
<1>3. after \in ClientRecord
  BY <1>1 DEF ClientRecord
<1> HIDE DEF after
<1> QED
  BY <1>2, <1>3, OneClient

\* The operations of the scanners.
LEMMA ScannerKeeps ==
  ASSUME Inv, NEW c \in Scanners, StartScan(c) \/ StopScan(c)
  PROVE  Inv'
<1>1. UNCHANGED <<address_policy_, manager, le_address_, hci, random_address, fate>>
      /\ le_impl' = le_impl
  BY DEF StartScan, StopScan
<1>2. UsersOK /\ client[c] \in ClientRecord
  BY DEF Inv, TypeOK, UsersOK, Clients
<1>3. \E record \in ClientRecord : client' = [client EXCEPT ![c] = record]
  <2>1. CASE client' = [client EXCEPT ![c].on_resume = TRUE]
    <3>1. client' = [client EXCEPT ![c] = [client[c] EXCEPT !.on_resume = TRUE]]
      BY <2>1
    <3>2. [client[c] EXCEPT !.on_resume = TRUE] \in ClientRecord
      BY <1>2 DEF ClientRecord
    <3> QED
      BY <3>1, <3>2
  <2>2. CASE client' = [client EXCEPT ![c].registered = TRUE, ![c].active = TRUE,
                                      ![c].on_resume = FALSE]
    <3> DEFINE record == [client[c] EXCEPT !.registered = TRUE, !.active = TRUE,
                                           !.on_resume = FALSE]
    <3>1. client' = [client EXCEPT ![c] = record]
      BY <1>2, <2>2 DEF UsersOK, Clients
    <3>2. record \in ClientRecord
      BY <1>2 DEF ClientRecord
    <3> HIDE DEF record
    <3> QED
      BY <3>1, <3>2
  <2>3. CASE StopScan(c)
    BY <2>3 DEF StopScan, ClientRecord
  <2> QED
    BY <2>1, <2>2, <2>3 DEF StartScan
<1>4. UsersOK'
  BY <1>1, <1>2, <1>3, OneClient DEF UsersOK
<1> QED
  BY <1>1, <1>4, UsersOnlyKeep

\* The cancel that comes too late carries no address.
LEMMA LateCancelEnqueued ==
  ASSUME AddressesGenerated, cached_address_ \in Nat, NEW n \in 1 .. Len(hci) + 1,
         hci' = InsertAt(hci, n, LateCancel), UNCHANGED cached_address_
  PROVE  AddressesGenerated'
<1> DEFINE before == SubSeq(hci, 1, n - 1)
           after == SubSeq(hci, n, Len(hci))
           one == <<LateCancel>>
<1>1. LateCancel \in HciCommands /\ LateCancel.address <= cached_address_
  BY DEF LateCancel, HciCommands
<1>2. hci \in Seq(HciCommands) /\ Len(hci) \in Nat
  BY DEF AddressesGenerated
<1>3. before \in Seq(HciCommands)
      /\ \A k \in 1 .. Len(before) : before[k].address <= cached_address_
  BY <1>2 DEF AddressesGenerated
<1>4. after \in Seq(HciCommands)
      /\ \A k \in 1 .. Len(after) : after[k].address <= cached_address_
  BY <1>2 DEF AddressesGenerated
<1>5. one \in Seq(HciCommands) /\ \A k \in 1 .. Len(one) : one[k].address <= cached_address_
  BY <1>1
<1>6. hci' = (before \o one) \o after
  BY DEF InsertAt
<1> HIDE DEF before, one, after
<1>7. before \o one \in Seq(HciCommands)
      /\ \A k \in 1 .. Len(before \o one) : (before \o one)[k].address <= cached_address_
  BY <1>3, <1>5
<1> DEFINE both == before \o one
<1> HIDE DEF both
<1>8. both \in Seq(HciCommands)
      /\ \A k \in 1 .. Len(both) : both[k].address <= cached_address_
  BY <1>7 DEF both
<1>9. hci' = both \o after
  BY <1>6 DEF both
<1> QED
  BY <1>4, <1>8, <1>9 DEF AddressesGenerated

\* An attempt that is to start anew changes le_impl only.
LEMMA ConnectAgainFacts ==
  ASSUME client \in [Clients -> ClientRecord], le_impl \in LeImplRecord, ConnectAgain
  PROVE  /\ client' \in [Clients -> ClientRecord] /\ le_impl' \in LeImplRecord
         /\ \A d \in Clients : d # LeImpl => client'[d] = client[d]
         /\ client'[LeImpl].registered = TRUE
         /\ client[LeImpl].paused => client'[LeImpl].paused
         /\ le_impl.disarming => le_impl'.disarming
<1> DEFINE mine == client[LeImpl]
           b == mine.paused \/ (~mine.registered /\ RotatingAddress)
           record == [mine EXCEPT !.registered = TRUE, !.paused = b]
           waiting == [record EXCEPT !.on_resume = TRUE]
<1>1. LeImpl \in Clients /\ mine \in ClientRecord
  BY DEF Clients
<1>2. \/ client' = [client EXCEPT ![LeImpl] = waiting] /\ le_impl' = le_impl
      \/ /\ client' = [client EXCEPT ![LeImpl] = record]
         /\ le_impl' = [le_impl EXCEPT !.disarming = TRUE, !.again = TRUE]
  BY DEF ConnectAgain
<1>3. b \in BOOLEAN /\ (mine.paused => b)
  BY <1>1 DEF ClientRecord
<1> HIDE DEF b, mine
<1>4. record \in ClientRecord /\ record.registered = TRUE /\ record.paused = b
  BY <1>1, <1>3 DEF ClientRecord
<1> HIDE DEF record
<1>5. waiting \in ClientRecord /\ waiting.registered = TRUE /\ waiting.paused = b
  BY <1>4 DEF ClientRecord
<1> HIDE DEF waiting
<1>6. PICK after \in {record, waiting} : client' = [client EXCEPT ![LeImpl] = after]
  BY <1>2
<1>7. /\ client' \in [Clients -> ClientRecord]
      /\ client'[LeImpl] = after
      /\ \A d \in Clients : d # LeImpl => client'[d] = client[d]
  BY <1>1, <1>4, <1>5, <1>6
<1>8. after.registered = TRUE /\ after.paused = b
  BY <1>4, <1>5
<1>9. le_impl' \in LeImplRecord /\ (le_impl.disarming => le_impl'.disarming)
  BY <1>2 DEF LeImplRecord
<1> QED
  BY <1>3, <1>7, <1>8, <1>9 DEF mine

\* The operations and callbacks of le_impl that leave the manager's cache alone.
LEMMA LeImplKeeps ==
  ASSUME Inv,
         \/ Connect \/ CancelConnect \/ ClearAcceptList \/ ConnectTimeout \/ UpdateIrk
         \/ on_le_connection_complete \/ Cancels \/ RunCreateLeConnection \/ arm_connectability
         \/ ConnectAgain \/ arm_failed
  PROVE  Inv'
<1>0. UNCHANGED <<address_policy_, manager, le_address_, random_address, fate>>
  BY DEF Connect, CancelConnect, ClearAcceptList, ConnectTimeout, UpdateIrk, Begins,
         ConnectAgain, arm_failed, on_le_connection_complete, Cancels, on_le_connection_canceled,
         on_create_connection_cancel_complete, RunCreateLeConnection, arm_connectability, Runs
<1>1. /\ UNCHANGED <<address_policy_, manager, le_address_, random_address, fate>>
      /\ AddressesGenerated' \/ UNCHANGED hci
  <2>1. CASE on_le_connection_complete
    <3>1. UNCHANGED hci \/ \E n \in 1 .. Len(hci) + 1 : hci' = InsertAt(hci, n, LateCancel)
      BY <2>1 DEF on_le_connection_complete
    <3>2. AddressesGenerated /\ cached_address_ \in Nat /\ UNCHANGED cached_address_
      BY <1>0 DEF Inv, TypeOK, manager
    <3> QED
      BY <1>0, <3>1, <3>2, LateCancelEnqueued
  <2>2. CASE on_create_connection_cancel_complete
    <3>1. hci # <<>> /\ hci' = Tail(hci)
      BY <2>2 DEF on_create_connection_cancel_complete
    <3>2. hci \in Seq(HciCommands) /\ UNCHANGED cached_address_
          /\ \A n \in 1 .. Len(hci) : hci[n].address <= cached_address_
      BY <1>0 DEF Inv, AddressesGenerated, manager
    <3>3. AddressesGenerated'
      BY <3>1, <3>2 DEF AddressesGenerated
    <3> QED
      BY <1>0, <3>3
  <2>3. CASE ~on_le_connection_complete /\ ~on_create_connection_cancel_complete
    <3>1. UNCHANGED hci
      BY <2>3 DEF Connect, CancelConnect, ClearAcceptList, ConnectTimeout, UpdateIrk, Cancels,
           on_le_connection_canceled, RunCreateLeConnection, arm_connectability, ConnectAgain,
           arm_failed
    <3> QED
      BY <1>0, <3>1
  <2> QED
    BY <2>1, <2>2, <2>3
<1> DEFINE mine == client[LeImpl]
<1>2. client \in [Clients -> ClientRecord] /\ le_impl \in LeImplRecord /\ mine \in ClientRecord
  BY DEF Inv, TypeOK, Clients
<1>3. Registering(mine) \in ClientRecord
  BY <1>2, RegisteringType
<1>4. CASE Connect
  <2> DEFINE record == Registering(mine)
             after == [record EXCEPT !.on_resume =
                         @ \/ record.paused \/ ~record.active \/ le_impl.disarming]
  <2>1. client' = [client EXCEPT ![LeImpl] = after]
        /\ le_impl' = [le_impl EXCEPT !.devices = @ + 1]
    BY <1>4 DEF Connect
  <2> HIDE DEF record, mine
  <2>2. after \in ClientRecord
    BY <1>2, <1>3 DEF ClientRecord, LeImplRecord, record
  <2>3. le_impl' \in LeImplRecord
    BY <1>2, <2>1 DEF LeImplRecord
  <2> HIDE DEF after
  <2> QED
    BY <1>1, <1>2, <2>1, <2>2, <2>3, OneClient, UsersOnlyKeep DEF UsersOK
<1>5. CASE CancelConnect
  <2> DEFINE record == [le_impl EXCEPT !.removed = client[LeImpl].active]
  <2>1. RemoveDevice(record) /\ client' = [client EXCEPT ![LeImpl] = Registering(mine)]
    BY <1>5 DEF CancelConnect
  <2>2. record \in LeImplRecord
    BY <1>2 DEF ClientRecord, LeImplRecord
  <2> HIDE DEF record, mine
  <2>3. le_impl' \in LeImplRecord
    BY <2>1, <2>2, RemoveDeviceType
  <2> QED
    BY <1>1, <1>2, <1>3, <2>1, <2>3, OneClient, UsersOnlyKeep DEF UsersOK
<1>6. CASE ClearAcceptList
  <2>1. client' = [client EXCEPT ![LeImpl] = Registering(mine)]
        /\ le_impl' = [le_impl EXCEPT !.devices = 0, !.kept = le_impl.connecting,
                                      !.removed = client[LeImpl].active]
    BY <1>6 DEF ClearAcceptList
  <2>2. le_impl' \in LeImplRecord
    BY <1>2, <2>1 DEF ClientRecord, LeImplRecord
  <2> HIDE DEF mine
  <2> QED
    BY <1>1, <1>2, <1>3, <2>1, <2>2, OneClient, UsersOnlyKeep DEF UsersOK
<1>7. CASE ConnectTimeout
  <2>1. client' = client /\ le_impl' = [le_impl EXCEPT !.disarming = TRUE]
    BY <1>7 DEF ConnectTimeout
  <2>2. le_impl' \in LeImplRecord
    BY <1>2, <2>1 DEF LeImplRecord
  <2> QED
    BY <1>1, <1>2, <2>1, <2>2, UsersOnlyKeep DEF UsersOK
<1>8. CASE UpdateIrk
  BY <1>1, <1>2, <1>8, UsersOnlyKeep DEF UsersOK, UpdateIrk, users
<1>9. CASE on_le_connection_complete
  <2> DEFINE record == [le_impl EXCEPT !.connecting = FALSE, !.kept = FALSE, !.removed = FALSE,
                          !.disarming = FALSE, !.ready = TRUE]
             disarmed == [client[LeImpl] EXCEPT !.active = FALSE, !.on_resume = FALSE]
  <2>1. \/ RemoveDevice(record) /\ client' = [client EXCEPT ![LeImpl] = Registering(disarmed)]
        \/ le_impl' = record /\ client' = [client EXCEPT ![LeImpl] = disarmed]
    BY <1>9 DEF on_le_connection_complete
  <2>2. record \in LeImplRecord /\ disarmed \in ClientRecord
    BY <1>2 DEF ClientRecord, LeImplRecord
  <2> HIDE DEF record, disarmed, mine
  <2>3. le_impl' \in LeImplRecord
    BY <2>1, <2>2, RemoveDeviceType
  <2>4. client' \in [Clients -> ClientRecord]
    BY <1>2, <2>1, <2>2, RegisteringType, OneClient
  <2> QED
    BY <1>1, <2>3, <2>4, UsersOnlyKeep DEF UsersOK
<1>10. CASE on_le_connection_canceled
  <2>1. le_impl' \in LeImplRecord
    <3> DEFINE before == [le_impl EXCEPT !.disarming = FALSE, !.again = FALSE]
    <3>1. before \in LeImplRecord
      BY <1>2 DEF LeImplRecord
    <3>2. \/ le_impl' = Arming(before, le_impl.devices > 0)
          \/ le_impl' = [le_impl EXCEPT !.disarming = FALSE, !.removed = FALSE]
          \/ le_impl' = [le_impl EXCEPT !.disarming = FALSE, !.removed = FALSE,
                                        !.connecting = FALSE, !.kept = FALSE]
      BY <1>10 DEF on_le_connection_canceled
    <3>3. CASE le_impl' = Arming(before, le_impl.devices > 0)
      <4> HIDE DEF before
      <4> QED
        BY <3>1, <3>3 DEF Arming, LeImplRecord
    <3> HIDE DEF before
    <3>4. CASE le_impl' = [le_impl EXCEPT !.disarming = FALSE, !.removed = FALSE]
      BY <1>2, <3>4 DEF LeImplRecord
    <3>5. CASE le_impl' = [le_impl EXCEPT !.disarming = FALSE, !.removed = FALSE,
                                          !.connecting = FALSE, !.kept = FALSE]
      BY <1>2, <3>5 DEF LeImplRecord
    <3> QED
      BY <3>2, <3>3, <3>4, <3>5
  <2>2. CASE client[LeImpl].paused
    <3> DEFINE record == [client[LeImpl] EXCEPT !.active = FALSE, !.on_resume = TRUE]
    <3>1. client' = [client EXCEPT ![LeImpl].active = FALSE, ![LeImpl].on_resume = TRUE]
      BY <1>10, <2>2 DEF on_le_connection_canceled
    <3>2. client' = [client EXCEPT ![LeImpl] = record]
      BY <1>2, <3>1 DEF Clients
    <3>3. record \in ClientRecord
      BY <1>2 DEF ClientRecord
    <3> HIDE DEF record, mine
    <3> QED
      BY <1>1, <1>2, <2>1, <3>2, <3>3, OneClient, UsersOnlyKeep DEF UsersOK
  <2>4. CASE ~client[LeImpl].paused /\ le_impl.again
    <3> DEFINE record == [client[LeImpl] EXCEPT !.active = (le_impl.devices > 0)]
    <3>1. client' = [client EXCEPT ![LeImpl].active = (le_impl.devices > 0)]
      BY <1>10, <2>4 DEF on_le_connection_canceled
    <3>2. client' = [client EXCEPT ![LeImpl] = record]
      BY <1>2, <3>1 DEF Clients
    <3>3. record \in ClientRecord
      <4> DEFINE armed == le_impl.devices > 0
      <4>1. armed \in BOOLEAN
        BY <1>2 DEF LeImplRecord
      <4> HIDE DEF armed
      <4>2. [mine EXCEPT !.active = armed] \in ClientRecord
        BY <1>2, <4>1 DEF ClientRecord
      <4> QED
        BY <4>2 DEF armed
    <3> HIDE DEF record, mine
    <3> QED
      BY <1>1, <1>2, <2>1, <3>2, <3>3, OneClient, UsersOnlyKeep DEF UsersOK
  <2>3. CASE ~client[LeImpl].paused /\ ~le_impl.again
    <3> DEFINE record == [client[LeImpl] EXCEPT !.active = FALSE]
    <3>1. create_le_connection(record, tasks)
      BY <1>10, <2>3 DEF on_le_connection_canceled
    <3>2. record \in ClientRecord
      BY <1>2 DEF ClientRecord
    <3> HIDE DEF record, mine
    <3> QED
      BY <1>1, <1>2, <2>1, <3>1, <3>2, CreateType, UsersOnlyKeep DEF UsersOK
  <2> QED
    BY <2>2, <2>3, <2>4
<1>11. CASE on_create_connection_cancel_complete
  <2>1. client' = client /\ le_impl' = le_impl
    BY <1>11 DEF on_create_connection_cancel_complete, users
  <2> QED
    BY <1>1, <1>2, <2>1, UsersOnlyKeep DEF UsersOK
<1>12. CASE RunCreateLeConnection
  <2>1. create_le_connection(mine, Tail(tasks)) /\ le_impl' = le_impl
    BY <1>12 DEF RunCreateLeConnection
  <2> HIDE DEF mine
  <2> QED
    BY <1>1, <1>2, <2>1, CreateType, UsersOnlyKeep DEF UsersOK
<1>13. CASE arm_connectability
  <2> DEFINE record == [mine EXCEPT !.active = @ \/ CanArm]
  <2>1. client' = [client EXCEPT ![LeImpl].active = @ \/ CanArm]
        /\ le_impl' = Arming(le_impl, CanArm)
    BY <1>13 DEF arm_connectability
  <2>2. client' = [client EXCEPT ![LeImpl] = record]
    BY <2>1
  <2>3. record \in ClientRecord
    BY <1>2 DEF ClientRecord
  <2>4. le_impl' \in LeImplRecord
    BY <1>2, <2>1, ArmingType DEF CanArm
  <2> HIDE DEF record, mine
  <2> QED
    BY <1>1, <1>2, <2>2, <2>3, <2>4, OneClient, UsersOnlyKeep DEF UsersOK
<1>14. CASE ConnectAgain
  BY <1>1, <1>2, <1>14, ConnectAgainFacts, UsersOnlyKeep DEF UsersOK
<1>15. CASE arm_failed
  <2> DEFINE record == [mine EXCEPT !.active = FALSE]
  <2>1. client' = [client EXCEPT ![LeImpl] = record]
        /\ le_impl' = [le_impl EXCEPT !.disarming = FALSE]
    BY <1>15 DEF arm_failed
  <2>2. record \in ClientRecord
    BY <1>2 DEF ClientRecord
  <2>3. le_impl' \in LeImplRecord
    BY <1>2, <2>1 DEF LeImplRecord
  <2> HIDE DEF record, mine
  <2> QED
    BY <1>1, <1>2, <2>1, <2>2, <2>3, OneClient, UsersOnlyKeep DEF UsersOK
<1> QED
  BY <1>4, <1>5, <1>6, <1>7, <1>8, <1>9, <1>10, <1>11, <1>12, <1>13, <1>14, <1>15 DEF Cancels

\* The operations of le_impl that append commands to the cache.
LEMMA ResolvingListKeeps ==
  ASSUME Inv,
         \/ \E commands \in {ResolvingListCommands, AddToResolvingListCommands} :
              ChangeResolvingList(commands)
         \/ ClearResolvingList
  PROVE  Inv'
<1>1. UNCHANGED <<address_policy_, registered_clients_, cached_address_, alarm,
                  le_address_, hci, random_address, fate>>
  BY DEF ChangeResolvingList, ClearResolvingList, Begins
<1>2. PICK commands \in {ResolvingListCommands, AddToResolvingListCommands} :
        cached_commands_' = cached_commands_ \o commands
  BY DEF ChangeResolvingList, ClearResolvingList
<1>3. commands \in Seq(CommandType)
  <2>1. {"SET_ADDRESS_RESOLUTION_ENABLE", "RESOLVING_LIST", "LE_SET_PRIVACY_MODE"} \subseteq CommandType
    BY DEF CommandType
  <2>2. ResolvingListCommands \in Seq(CommandType)
    BY <2>1 DEF ResolvingListCommands
  <2>3. AddToResolvingListCommands \in Seq(CommandType)
    BY <2>1 DEF AddToResolvingListCommands
  <2> QED
    BY <2>2, <2>3
<1>4. UsersOK'
  <2>1. client \in [Clients -> ClientRecord] /\ client[LeImpl] \in ClientRecord
        /\ le_impl \in LeImplRecord
    BY DEF Inv, TypeOK, Clients
  <2>2. Registering(client[LeImpl]) \in ClientRecord
    BY <2>1, RegisteringType
  <2>3. le_impl' = le_impl
        /\ client' \in {client, [client EXCEPT ![LeImpl] = Registering(client[LeImpl])]}
    BY DEF ChangeResolvingList, ClearResolvingList, users
  <2> QED
    BY <2>1, <2>2, <2>3, OneClient DEF UsersOK
<1>5. AddressesGenerated'
  BY <1>1 DEF Inv, AddressesGenerated
<1> QED
  BY <1>1, <1>2, <1>3, <1>4, <1>5, UsersKeep

-----------------------------------------------------------------------------
(* The theorems *)

\* Every step keeps the invariant.
LEMMA NextInv == Inv /\ [Next]_vars => Inv'
<1> SUFFICES ASSUME Inv, [Next]_vars PROVE Inv'
  OBVIOUS
<1>1. CASE UNCHANGED vars
  <2>1. UsersOK' /\ UNCHANGED <<address_policy_, manager, le_address_, hci, random_address, fate>>
    BY <1>1 DEF vars, users, Inv, TypeOK, UsersOK
  <2> QED
    BY <2>1, UsersOnlyKeep
<1>2. CASE Handler
  BY <1>2, RegisterKeeps, UnregisterKeeps, ManagerStepKeeps, CompletionKeeps, LeImplKeeps DEF Handler
<1>3. CASE \E c \in Scanners : StartScan(c) \/ StopScan(c)
  BY <1>3, ScannerKeeps
<1> QED
  BY <1>1, <1>2, <1>3, RotateKeeps, CompletionKeeps, LeImplKeeps, ResolvingListKeeps DEF Next

\* Every variable keeps its type, however many clients there are and whatever they
\* ask for: the host and the controller only use addresses that were generated, the
\* cache only holds commands, and le_impl never removes a device that is not in the
\* accept list.
THEOREM TypeCorrect == Spec => []TypeOK
<1>1. Inv => TypeOK
  BY DEF Inv
<1> QED
  BY InitInv, NextInv, <1>1, PTL DEF Spec

\* While a client of a private address is registered the next rotation is scheduled
\* or cached: register_client, prepare_to_rotate, handle_next_command and
\* unregister_client hand it from one to the other without losing it.
THEOREM RotationScheduledHolds == Spec => []RotationScheduled
<1>1. Inv => RotationScheduled
  BY DEF Inv
<1> QED
  BY InitInv, NextInv, <1>1, PTL DEF Spec

-----------------------------------------------------------------------------
(* The calls of several clients *)

\* A nonempty set of numbers has a least one.
LEMMA LeastNumber ==
  ASSUME NEW S \in SUBSET Nat, S # {}
  PROVE  \E least \in S : \A other \in S : least <= other
<1>1. PICK least \in S : \A y \in Nat : <<y, least>> \in OpToRel(<, Nat) => y \notin S
  BY NatLessThanWellFounded, WFMin
<1>2. ASSUME NEW other \in S, other < least
      PROVE  FALSE
  BY <1>1, <1>2 DEF OpToRel
<1> QED
  BY <1>2

\* A finite set of numbers can be listed in ascending order: the least one comes first,
\* and a smallest set without such a list would have the list of what is left.
LEMMA AscendingExists ==
  ASSUME NEW S \in SUBSET Nat, IsFiniteSet(S)
  PROVE  \E s \in [1 .. Cardinality(S) -> S] : Ascending(s)
<1> DEFINE Listed(T) == \E s \in [1 .. Cardinality(T) -> T] : Ascending(s)
           Bad == {k \in Nat : \E T \in SUBSET Nat :
                     IsFiniteSet(T) /\ Cardinality(T) = k /\ ~Listed(T)}
<1>1. SUFFICES ASSUME ~Listed(S) PROVE FALSE
  OBVIOUS
<1>2. Cardinality(S) \in Bad
  BY <1>1, FS_CardinalityType
<1>3. PICK k \in Bad : \A other \in Bad : k <= other
  <2> HIDE DEF Bad
  <2>1. Bad \in SUBSET Nat
    BY DEF Bad
  <2> QED
    BY <1>2, <2>1, LeastNumber
<1>4. PICK T \in SUBSET Nat : IsFiniteSet(T) /\ Cardinality(T) = k /\ ~Listed(T)
  BY <1>3
<1>5. T # {}
  <2>1. ASSUME T = {} PROVE FALSE
    <3>1. Cardinality(T) = 0
      BY <2>1, FS_EmptySet
    <3>2. <<>> \in [1 .. Cardinality(T) -> T] /\ Ascending(<<>>)
      BY <2>1, <3>1 DEF Ascending
    <3> QED
      BY <1>4, <3>2
  <2> QED
    BY <2>1
<1>6. PICK least \in T : \A other \in T : least <= other
  BY <1>5, LeastNumber
<1> DEFINE R == T \ {least}
<1>7. IsFiniteSet(R) /\ Cardinality(R) = k - 1 /\ k \in Nat /\ k # 0 /\ k - 1 \in Nat
      /\ R \in SUBSET Nat
  <2>1. IsFiniteSet(R) /\ Cardinality(R) = k - 1
    BY <1>4, <1>6, FS_RemoveElement
  <2>2. k \in Nat /\ k # 0
    BY <1>4, <1>5, FS_EmptySet, FS_CardinalityType
  <2> QED
    BY <2>1, <2>2
<1>8. PICK s \in [1 .. k - 1 -> R] : Ascending(s)
  <2> HIDE DEF R
  <2>1. Listed(R)
    <3>1. SUFFICES ASSUME ~Listed(R) PROVE FALSE
      OBVIOUS
    <3>2. k - 1 \in Bad
      BY <1>7, <3>1
    <3> HIDE DEF Bad
    <3> QED
      BY <1>3, <1>7, <3>2
  <2> QED
    BY <1>7, <2>1
<1> DEFINE longer == [n \in 1 .. k |-> IF n = 1 THEN least ELSE s[n - 1]]
<1>9. longer \in [1 .. k -> T]
  <2>1. ASSUME NEW n \in 1 .. k, n # 1 PROVE s[n - 1] \in T
    <3>1. n - 1 \in 1 .. k - 1
      BY <1>7, <2>1
    <3> QED
      BY <3>1
  <2> QED
    BY <1>6, <2>1
<1>10. Ascending(longer)
  <2>1. ASSUME NEW m \in 1 .. k, NEW n \in 1 .. k, m < n PROVE longer[m] < longer[n]
    <3>1. n # 1 /\ n - 1 \in 1 .. k - 1
      BY <1>7, <2>1
    <3>2. longer[n] = s[n - 1] /\ s[n - 1] \in R
      BY <3>1
    <3>3. CASE m = 1
      <4>1. longer[m] = least
        BY <3>3
      <4>2. s[n - 1] # least /\ least <= s[n - 1] /\ least \in Nat /\ s[n - 1] \in Nat
        BY <1>6, <1>7, <3>2
      <4> HIDE DEF longer
      <4> QED
        BY <3>2, <4>1, <4>2
    <3>4. CASE m # 1
      <4>1. m - 1 \in 1 .. k - 1 /\ m - 1 < n - 1
        BY <1>7, <2>1, <3>4
      <4>2. longer[m] = s[m - 1]
        BY <3>4
      <4>3. s[m - 1] < s[n - 1]
        BY <1>8, <3>1, <4>1 DEF Ascending
      <4> QED
        BY <3>2, <4>2, <4>3
    <3> QED
      BY <3>3, <3>4
  <2>2. DOMAIN longer = 1 .. k
    OBVIOUS
  <2> HIDE DEF longer
  <2> QED
    BY <2>1, <2>2 DEF Ascending
<1> HIDE DEF longer
<1> QED
  BY <1>4, <1>9, <1>10

Called(s, run, c) == \E n \in 1 .. Len(s) : s[n].run = run /\ s[n].client = c

\* The calls of a set of clients are one for each of them.
LEMMA CallsFacts ==
  ASSUME NEW S \in SUBSET Clients, NEW run
  PROVE  /\ Calls(run, S) \in Seq([run : {run}, client : S])
         /\ \A n \in 1 .. Len(Calls(run, S)) :
              Calls(run, S)[n].run = run /\ Calls(run, S)[n].client \in S
         /\ \A c \in S : Called(Calls(run, S), run, c)
<1> DEFINE k == Cardinality(S)
           ordered == CHOOSE s \in SetToSeqs(S) : Ascending(s)
<1>1. S \in SUBSET Nat /\ IsFiniteSet(S) /\ k \in Nat
  BY ClientsAssumption, FS_Subset, FS_CardinalityType
<1>2. PICK s \in [1 .. k -> S] : Ascending(s)
  BY <1>1, AscendingExists
<1>3. s \in SetToSeqs(S)
  <2>1. ASSUME NEW i \in 1 .. k, NEW j \in 1 .. k, i # j PROVE s[i] # s[j]
    <3>1. i < j \/ j < i
      BY <2>1
    <3>2. s[i] \in Nat /\ s[j] \in Nat /\ DOMAIN s = 1 .. k
      BY <1>1, <1>2
    <3>3. s[i] < s[j] \/ s[j] < s[i]
      BY <1>2, <3>1, <3>2 DEF Ascending
    <3> QED
      BY <3>2, <3>3
  <2> QED
    BY <1>2, <2>1 DEF SetToSeqs
<1>4. ordered \in SetToSeqs(S)
  BY <1>2, <1>3
<1> HIDE DEF ordered
<1>5. ordered \in [1 .. k -> S] /\ \A i, j \in 1 .. k : i # j => ordered[i] # ordered[j]
  BY <1>4 DEF SetToSeqs
<1>6. \A c \in S : \E n \in 1 .. k : ordered[n] = c
  <2>1. ordered \in Injection(1 .. k, S)
    BY <1>5 DEF Injection, IsInjective
  <2>2. IsFiniteSet(1 .. k) /\ Cardinality(1 .. k) = k
    <3>1. k \in Int /\ 1 \in Int /\ (1 > k => k = 0) /\ k - 1 + 1 = k
      BY <1>1
    <3> HIDE DEF k
    <3> QED
      BY <3>1, FS_Interval
  <2>3. ordered \in Surjection(1 .. k, S)
    <3> HIDE DEF k
    <3>1. Cardinality(1 .. k) = Cardinality(S)
      BY <2>2 DEF k
    <3> QED
      BY <1>1, <2>1, <3>1, FS_Injection
  <2> QED
    BY <2>3 DEF Surjection
<1> DEFINE calls == [n \in 1 .. k |-> [run |-> run, client |-> ordered[n]]]
<1>7. Calls(run, S) = calls
  BY DEF Calls, ordered
<1>8. \A n \in 1 .. k : calls[n] = [run |-> run, client |-> ordered[n]]
                        /\ calls[n] \in [run : {run}, client : S]
  BY <1>5
<1>9. calls \in Seq([run : {run}, client : S]) /\ Len(calls) = k
  <2> DEFINE Call == [run : {run}, client : S]
  <2>1. calls \in [1 .. k -> Call]
    BY <1>8
  <2> HIDE DEF calls, k, Call
  <2>2. calls \in Seq(Call) /\ Len(calls) = k
    BY <1>1, <2>1
  <2> QED
    BY <2>2 DEF Call
<1> HIDE DEF calls
<1>10. ASSUME NEW n \in 1 .. k PROVE calls[n].run = run /\ calls[n].client = ordered[n]
  <2>1. calls[n] = [run |-> run, client |-> ordered[n]]
    BY <1>8
  <2> QED
    BY <2>1
<1>11. \A n \in 1 .. Len(calls) : calls[n].run = run /\ calls[n].client \in S
  BY <1>5, <1>9, <1>10
<1>12. \A c \in S : Called(calls, run, c)
  BY <1>6, <1>9, <1>10 DEF Called
<1> HIDE DEF k
<1> QED
  BY <1>7, <1>9, <1>11, <1>12

-----------------------------------------------------------------------------
(* What the closures that are waiting will make the manager know of a client *)

ClientRuns == {"register_client", "unregister_client", "ack_pause", "ack_resume"}
OtherRuns ==
  {"push_command", "prepare_to_update_irk", "pause_registered_clients",
   "resume_registered_clients", "handle_next_command", "check_cached_commands",
   "create_le_connection", "arm_connectability"}
Task ==
  [run : ClientRuns, client : Clients]
    \cup [run : OtherRuns]
    \cup [run : {"OnCommandComplete"},
          type : CommandType \cup {"LE_SET_RANDOM_ADDRESS", "LE_CREATE_CONNECTION_CANCEL"},
          success : BOOLEAN]

\* A closure that a client has posted.
About(task, c) == task.run \in ClientRuns /\ task.client = c

\* It decides whether the client is registered,
Decides(task, c) == task.run \in {"register_client", "unregister_client"} /\ task.client = c

\* acknowledges a pause,
Acks(task, c) == task.run = "ack_pause" /\ task.client = c

\* removes the client,
Removes(task, c) == task.run = "unregister_client" /\ task.client = c

\* or ends a pause.
Ends(task, c) == task.run \in {"ack_resume", "unregister_client"} /\ task.client = c

\* If known says whether c is registered, believes says whether it is when the first n
\* closures of s have run.
Registers(s, n, c, believes, known) ==
  /\ \A m \in 1 .. n :
       Decides(s[m], c) /\ (\A k \in m + 1 .. n : ~Decides(s[k], c)) =>
         (believes <=> s[m].run = "register_client")
  /\ (\A m \in 1 .. n : ~Decides(s[m], c)) => (believes <=> known)

\* An acknowledgement in s is true, or is taken back by a later closure.
Fresh(s, c, paused) ==
  \A n \in 1 .. Len(s) :
    Acks(s[n], c) => paused \/ \E m \in n + 1 .. Len(s) : Ends(s[m], c)

WillAck(s, c) == \E n \in 1 .. Len(s) : Acks(s[n], c)
WillEnd(s, c) == \E n \in 1 .. Len(s) : Ends(s[n], c)
WillLeave(s, c) == \E n \in 1 .. Len(s) : Removes(s[n], c)

\* Who is waited for will answer, and who is taken for paused is or will not be.
Answers(s, c, state, paused, cancelling) ==
  /\ state = "WAITING_FOR_PAUSE" =>
       WillAck(s, c) \/ WillLeave(s, c) \/ (cancelling /\ paused)
  /\ state = "WAITING_FOR_RESUME" => WillEnd(s, c)
  /\ state = "PAUSED" => paused \/ WillEnd(s, c)

\* A client with this record, in this state of the manager, when s is waiting.
AgreesWith(s, c, record, state, cancelling) ==
  /\ Registers(s, Len(s), c, record.registered, state # "unregistered")
  /\ Fresh(s, c, record.paused)
  /\ Answers(s, c, state, record.paused, cancelling)

\* le_impl, which posts handle_next_command for a resolving list change, is registered
\* when it runs.
HandlesFor(s, known) ==
  \A n \in 1 .. Len(s) :
    s[n].run = "handle_next_command" => Registers(s, n - 1, LeImpl, TRUE, known)

\* What two sequences of closures are together.
LEMMA Joined ==
  ASSUME NEW T, NEW s \in Seq(T), NEW t \in Seq(T)
  PROVE  /\ s \o t \in Seq(T)
         /\ Len(s) \in Nat /\ Len(t) \in Nat /\ Len(s \o t) = Len(s) + Len(t)
         /\ \A n \in 1 .. Len(s) : n \in 1 .. Len(s \o t) /\ (s \o t)[n] = s[n]
         /\ \A n \in 1 .. Len(t) :
              Len(s) + n \in 1 .. Len(s \o t) /\ (s \o t)[Len(s) + n] = t[n]
         /\ \A n \in 1 .. Len(s \o t) :
              \/ n \in 1 .. Len(s)
              \/ n - Len(s) \in 1 .. Len(t) /\ n = Len(s) + (n - Len(s))
                 /\ (s \o t)[n] = t[n - Len(s)]
BY ConcatProperties, LenProperties

\* What is left of the closures when the first has run.
LEMMA Shifted ==
  ASSUME NEW T, NEW s \in Seq(T), s # <<>>
  PROVE  /\ Tail(s) \in Seq(T) /\ Head(s) = s[1] /\ Head(s) \in T
         /\ Len(s) \in Nat /\ 1 \in 1 .. Len(s) /\ Len(Tail(s)) = Len(s) - 1
         /\ \A n \in 1 .. Len(Tail(s)) : n + 1 \in 1 .. Len(s) /\ Tail(s)[n] = s[n + 1]
         /\ \A n \in 1 .. Len(s) : n # 1 =>
              n - 1 \in 1 .. Len(Tail(s)) /\ (n - 1) + 1 = n /\ s[n] = Tail(s)[n - 1]
BY HeadTailProperties, LenProperties

\* What will happen happens in one part or the other.
LEMMA WillJoined ==
  ASSUME NEW s \in Seq(Task), NEW t \in Seq(Task), NEW c
  PROVE  /\ WillAck(s \o t, c) <=> WillAck(s, c) \/ WillAck(t, c)
         /\ WillEnd(s \o t, c) <=> WillEnd(s, c) \/ WillEnd(t, c)
         /\ WillLeave(s \o t, c) <=> WillLeave(s, c) \/ WillLeave(t, c)
<1> DEFINE r == s \o t
<1>1. /\ \A n \in 1 .. Len(s) : n \in 1 .. Len(r) /\ r[n] = s[n]
      /\ \A n \in 1 .. Len(t) : Len(s) + n \in 1 .. Len(r) /\ r[Len(s) + n] = t[n]
      /\ \A n \in 1 .. Len(r) :
           n \in 1 .. Len(s) \/ (n - Len(s) \in 1 .. Len(t) /\ r[n] = t[n - Len(s)])
  BY Joined
<1> HIDE DEF r
<1>2. WillAck(r, c) <=> WillAck(s, c) \/ WillAck(t, c)
  BY <1>1 DEF WillAck
<1>3. WillEnd(r, c) <=> WillEnd(s, c) \/ WillEnd(t, c)
  BY <1>1 DEF WillEnd
<1>4. WillLeave(r, c) <=> WillLeave(s, c) \/ WillLeave(t, c)
  BY <1>1 DEF WillLeave
<1> QED
  BY <1>2, <1>3, <1>4 DEF r

\* What will happen still will, unless the first closure was it.
LEMMA WillShifted ==
  ASSUME NEW s \in Seq(Task), s # <<>>, NEW c
  PROVE  /\ WillAck(s, c) <=> Acks(Head(s), c) \/ WillAck(Tail(s), c)
         /\ WillEnd(s, c) <=> Ends(Head(s), c) \/ WillEnd(Tail(s), c)
         /\ WillLeave(s, c) <=> Removes(Head(s), c) \/ WillLeave(Tail(s), c)
<1> DEFINE r == Tail(s)
<1>1. /\ Head(s) = s[1] /\ 1 \in 1 .. Len(s)
      /\ \A n \in 1 .. Len(r) : n + 1 \in 1 .. Len(s) /\ r[n] = s[n + 1]
      /\ \A n \in 1 .. Len(s) : n # 1 => n - 1 \in 1 .. Len(r) /\ s[n] = r[n - 1]
  BY Shifted
<1> HIDE DEF r
<1>2. WillAck(s, c) <=> Acks(Head(s), c) \/ WillAck(r, c)
  BY <1>1 DEF WillAck
<1>3. WillEnd(s, c) <=> Ends(Head(s), c) \/ WillEnd(r, c)
  BY <1>1 DEF WillEnd
<1>4. WillLeave(s, c) <=> Removes(Head(s), c) \/ WillLeave(r, c)
  BY <1>1 DEF WillLeave
<1> QED
  BY <1>2, <1>3, <1>4 DEF r

\* Closures that decide nothing change nothing.
LEMMA RegistersJoined ==
  ASSUME NEW s \in Seq(Task), NEW t \in Seq(Task), NEW c, NEW believes, NEW known,
         Registers(s, Len(s), c, believes, known),
         \A n \in 1 .. Len(t) : ~Decides(t[n], c)
  PROVE  Registers(s \o t, Len(s \o t), c, believes, known)
<1> DEFINE r == s \o t
<1>1. /\ Len(s) \in Nat /\ Len(t) \in Nat /\ Len(r) = Len(s) + Len(t)
      /\ \A n \in 1 .. Len(s) : n \in 1 .. Len(r) /\ r[n] = s[n]
      /\ \A n \in 1 .. Len(r) :
           n \in 1 .. Len(s) \/ (n - Len(s) \in 1 .. Len(t) /\ r[n] = t[n - Len(s)])
  BY Joined
<1> HIDE DEF r
<1>2. \A n \in 1 .. Len(r) : Decides(r[n], c) => n \in 1 .. Len(s) /\ r[n] = s[n]
  BY <1>1
<1>3. ASSUME NEW m \in 1 .. Len(r), Decides(r[m], c),
             \A k \in m + 1 .. Len(r) : ~Decides(r[k], c)
      PROVE  believes <=> r[m].run = "register_client"
  <2>1. m \in 1 .. Len(s) /\ r[m] = s[m]
    BY <1>2, <1>3
  <2>2. \A k \in m + 1 .. Len(s) : ~Decides(s[k], c)
    <3>1. \A k \in m + 1 .. Len(s) : k \in m + 1 .. Len(r) /\ r[k] = s[k]
      BY <1>1, <2>1
    <3> QED
      BY <1>3, <3>1
  <2> QED
    BY <1>3, <2>1, <2>2 DEF Registers
<1>4. ASSUME \A m \in 1 .. Len(r) : ~Decides(r[m], c)
      PROVE  believes <=> known
  <2>1. \A m \in 1 .. Len(s) : ~Decides(s[m], c)
    BY <1>1, <1>4
  <2> QED
    BY <2>1 DEF Registers
<1>5. Registers(r, Len(r), c, believes, known)
  BY <1>3, <1>4 DEF Registers
<1> QED
  BY <1>5 DEF r

\* The last closure that decides, does.
LEMMA RegistersLast ==
  ASSUME NEW s \in Seq(Task), NEW t \in Seq(Task), NEW c, NEW believes, NEW known,
         NEW i \in 1 .. Len(t), Decides(t[i], c),
         \A j \in 1 .. Len(t) : Decides(t[j], c) => t[j].run = t[i].run,
         believes <=> t[i].run = "register_client"
  PROVE  Registers(s \o t, Len(s \o t), c, believes, known)
<1> DEFINE r == s \o t
<1>1. /\ Len(s) \in Nat /\ Len(t) \in Nat /\ Len(r) = Len(s) + Len(t)
      /\ \A n \in 1 .. Len(t) : Len(s) + n \in 1 .. Len(r) /\ r[Len(s) + n] = t[n]
      /\ \A n \in 1 .. Len(r) :
           n \in 1 .. Len(s) \/ (n - Len(s) \in 1 .. Len(t) /\ r[n] = t[n - Len(s)])
  BY Joined
<1> HIDE DEF r
<1>2. Len(s) + i \in 1 .. Len(r) /\ r[Len(s) + i] = t[i]
  BY <1>1
<1>3. ASSUME NEW m \in 1 .. Len(r), Decides(r[m], c),
             \A k \in m + 1 .. Len(r) : ~Decides(r[k], c)
      PROVE  r[m].run = t[i].run
  <2>1. CASE m \in 1 .. Len(s)
    <3>1. Len(s) + i \in m + 1 .. Len(r)
      BY <1>1, <1>2, <2>1
    <3> QED
      BY <1>2, <1>3, <3>1
  <2>2. CASE m \notin 1 .. Len(s)
    BY <1>1, <1>3, <2>2
  <2> QED
    BY <2>1, <2>2
<1>4. ~ \A m \in 1 .. Len(r) : ~Decides(r[m], c)
  BY <1>2
<1>5. Registers(r, Len(r), c, believes, known)
  BY <1>3, <1>4 DEF Registers
<1> QED
  BY <1>5 DEF r

\* What the first closure decides is known when it has run.
LEMMA RegistersShifted ==
  ASSUME NEW s \in Seq(Task), s # <<>>, NEW n \in 1 .. Len(s), NEW c, NEW believes,
         NEW known, NEW later,
         Registers(s, n, c, believes, known),
         Decides(Head(s), c) => (later <=> Head(s).run = "register_client"),
         ~Decides(Head(s), c) => (later <=> known)
  PROVE  Registers(Tail(s), n - 1, c, believes, later)
<1> DEFINE r == Tail(s)
<1>1. /\ Head(s) = s[1] /\ Len(s) \in Nat /\ Len(r) = Len(s) - 1
      /\ \A m \in 1 .. Len(r) : r[m] = s[m + 1]
  BY Shifted
<1>2. \A m \in 1 .. n - 1 : m + 1 \in 1 .. n /\ r[m] = s[m + 1]
  BY <1>1
<1>3. \A m \in 2 .. n : m - 1 \in 1 .. n - 1 /\ r[m - 1] = s[m]
  BY <1>1
<1> HIDE DEF r
<1>4. ASSUME NEW m \in 1 .. n - 1, Decides(r[m], c),
             \A k \in m + 1 .. n - 1 : ~Decides(r[k], c)
      PROVE  believes <=> r[m].run = "register_client"
  <2>1. m + 1 \in 1 .. n /\ r[m] = s[m + 1]
    BY <1>2
  <2>2. ASSUME NEW k \in (m + 1) + 1 .. n PROVE ~Decides(s[k], c)
    <3>1. k \in 2 .. n /\ k - 1 \in m + 1 .. n - 1
      BY <1>1
    <3> QED
      BY <1>3, <1>4, <3>1
  <2> QED
    BY <1>4, <2>1, <2>2 DEF Registers
<1>5. ASSUME \A m \in 1 .. n - 1 : ~Decides(r[m], c)
      PROVE  believes <=> later
  <2>1. \A k \in 2 .. n : ~Decides(s[k], c)
    BY <1>3, <1>5
  <2>2. CASE Decides(s[1], c)
    <3>1. 1 \in 1 .. n /\ \A k \in 1 + 1 .. n : ~Decides(s[k], c)
      BY <2>1
    <3>2. believes <=> s[1].run = "register_client"
      BY <2>2, <3>1 DEF Registers
    <3> QED
      BY <1>1, <2>2, <3>2
  <2>3. CASE ~Decides(s[1], c)
    <3>1. \A k \in 1 .. n : k = 1 \/ k \in 2 .. n
      OBVIOUS
    <3>2. \A k \in 1 .. n : ~Decides(s[k], c)
      BY <2>1, <2>3, <3>1
    <3>3. believes <=> known
      BY <3>2 DEF Registers
    <3> QED
      BY <1>1, <2>3, <3>3
  <2> QED
    BY <2>2, <2>3
<1>6. Registers(r, n - 1, c, believes, later)
  BY <1>4, <1>5 DEF Registers
<1> QED
  BY <1>6 DEF r

\* New acknowledgements are true; old ones stay so or are taken back.
LEMMA FreshJoined ==
  ASSUME NEW s \in Seq(Task), NEW t \in Seq(Task), NEW c, NEW before, NEW after,
         Fresh(s, c, before),
         before => after \/ WillEnd(t, c), WillAck(t, c) => after
  PROVE  Fresh(s \o t, c, after)
<1> DEFINE r == s \o t
<1>1. /\ Len(s) \in Nat /\ Len(t) \in Nat /\ Len(r) = Len(s) + Len(t)
      /\ \A n \in 1 .. Len(s) : n \in 1 .. Len(r) /\ r[n] = s[n]
      /\ \A n \in 1 .. Len(t) : Len(s) + n \in 1 .. Len(r) /\ r[Len(s) + n] = t[n]
      /\ \A n \in 1 .. Len(r) :
           n \in 1 .. Len(s) \/ (n - Len(s) \in 1 .. Len(t) /\ r[n] = t[n - Len(s)])
  BY Joined
<1> HIDE DEF r
<1>2. ASSUME NEW n \in 1 .. Len(r), Acks(r[n], c), ~after
      PROVE  \E m \in n + 1 .. Len(r) : Ends(r[m], c)
  <2>1. n \in 1 .. Len(s) /\ r[n] = s[n]
    BY <1>1, <1>2 DEF WillAck
  <2>2. CASE before
    <3>1. PICK m \in 1 .. Len(t) : Ends(t[m], c)
      BY <1>2, <2>2 DEF WillEnd
    <3>2. Len(s) + m \in n + 1 .. Len(r) /\ r[Len(s) + m] = t[m]
      BY <1>1, <2>1
    <3> QED
      BY <3>1, <3>2
  <2>3. CASE ~before
    <3>1. PICK m \in n + 1 .. Len(s) : Ends(s[m], c)
      BY <1>2, <2>1, <2>3 DEF Fresh
    <3>2. m \in n + 1 .. Len(r) /\ r[m] = s[m]
      BY <1>1, <2>1
    <3> QED
      BY <3>1, <3>2
  <2> QED
    BY <2>2, <2>3
<1>3. Fresh(r, c, after)
  BY <1>2 DEF Fresh
<1> QED
  BY <1>3 DEF r

\* The first closure ends no pause that a later one acknowledges.
LEMMA FreshShifted ==
  ASSUME NEW s \in Seq(Task), s # <<>>, NEW c, NEW paused, Fresh(s, c, paused)
  PROVE  /\ Fresh(Tail(s), c, paused)
         /\ Acks(Head(s), c) => paused \/ WillEnd(Tail(s), c)
<1> DEFINE r == Tail(s)
<1>1. /\ Head(s) = s[1] /\ 1 \in 1 .. Len(s) /\ Len(s) \in Nat /\ Len(r) = Len(s) - 1
      /\ \A n \in 1 .. Len(r) : n + 1 \in 1 .. Len(s) /\ r[n] = s[n + 1]
      /\ \A n \in 1 .. Len(s) : n # 1 => n - 1 \in 1 .. Len(r) /\ s[n] = r[n - 1]
  BY Shifted
<1> HIDE DEF r
<1>2. ASSUME NEW n \in 1 .. Len(s), Acks(s[n], c), ~paused
      PROVE  \E m \in n .. Len(r) : Ends(r[m], c)
  <2>1. PICK m \in n + 1 .. Len(s) : Ends(s[m], c)
    BY <1>2 DEF Fresh
  <2>2. m \in 1 .. Len(s) /\ m # 1 /\ m - 1 \in n .. Len(r)
    BY <1>1
  <2> QED
    BY <1>1, <2>1, <2>2
<1>3. Fresh(r, c, paused)
  <2>1. ASSUME NEW n \in 1 .. Len(r), Acks(r[n], c), ~paused
        PROVE  \E m \in n + 1 .. Len(r) : Ends(r[m], c)
    BY <1>1, <1>2, <2>1
  <2> QED
    BY <2>1 DEF Fresh
<1>4. Acks(Head(s), c) => paused \/ WillEnd(r, c)
  BY <1>1, <1>2 DEF WillEnd
<1> QED
  BY <1>3, <1>4 DEF r

\* A client that the manager knows and that believes otherwise is about to leave.
LEMMA UnheardLeaves ==
  ASSUME NEW s \in Seq(Task), NEW c, NEW record, NEW state, NEW cancelling,
         AgreesWith(s, c, record, state, cancelling), ~record.registered, state # "unregistered"
  PROVE  WillLeave(s, c)
<1> DEFINE D == {k \in Nat : k < Len(s) /\ Decides(s[Len(s) - k], c)}
<1>1. Len(s) \in Nat
  BY LenProperties
<1>2. PICK n \in 1 .. Len(s) : Decides(s[n], c)
  BY DEF AgreesWith, Registers
<1>3. Len(s) - n \in Nat /\ Len(s) - n < Len(s) /\ Len(s) - (Len(s) - n) = n
  BY <1>1
<1>4. Len(s) - n \in D
  BY <1>2, <1>3
<1>5. PICK k \in D : \A other \in D : k <= other
  <2> HIDE DEF D
  <2>1. D \in SUBSET Nat
    BY DEF D
  <2> QED
    BY <1>4, <2>1, LeastNumber
<1>6. Len(s) - k \in 1 .. Len(s) /\ Decides(s[Len(s) - k], c)
  BY <1>1, <1>5
<1>7. ASSUME NEW m \in (Len(s) - k) + 1 .. Len(s), Decides(s[m], c)
      PROVE  FALSE
  <2>1. Len(s) - m \in Nat /\ Len(s) - m < Len(s) /\ Len(s) - (Len(s) - m) = m /\ Len(s) - m < k
    BY <1>1, <1>5
  <2>2. Len(s) - m \in D
    BY <1>7, <2>1
  <2> QED
    BY <1>5, <2>1, <2>2
<1>8. record.registered <=> s[Len(s) - k].run = "register_client"
  BY <1>6, <1>7 DEF AgreesWith, Registers
<1>9. Removes(s[Len(s) - k], c)
  BY <1>6, <1>8 DEF Decides, Removes
<1> QED
  BY <1>6, <1>9 DEF WillLeave

\* Closures that are not about a client.
LEMMA NothingAbout ==
  ASSUME NEW t \in Seq(Task), NEW c, \A n \in 1 .. Len(t) : ~About(t[n], c)
  PROVE  /\ \A n \in 1 .. Len(t) : ~Decides(t[n], c)
         /\ ~WillAck(t, c) /\ ~WillEnd(t, c) /\ ~WillLeave(t, c)
BY DEF About, ClientRuns, Decides, Acks, Ends, Removes, WillAck, WillEnd, WillLeave

\* They change nothing for it,
LEMMA AgreesJoined ==
  ASSUME NEW s \in Seq(Task), NEW t \in Seq(Task), NEW c, NEW record, NEW state, NEW cancelling,
         AgreesWith(s, c, record, state, cancelling),
         \A n \in 1 .. Len(t) : ~About(t[n], c)
  PROVE  AgreesWith(s \o t, c, record, state, cancelling)
<1>1. Registers(s \o t, Len(s \o t), c, record.registered, state # "unregistered")
  BY NothingAbout, RegistersJoined DEF AgreesWith
<1>2. Fresh(s \o t, c, record.paused)
  BY NothingAbout, FreshJoined DEF AgreesWith
<1>3. Answers(s \o t, c, state, record.paused, cancelling)
  BY WillJoined DEF AgreesWith, Answers
<1> QED
  BY <1>1, <1>2, <1>3 DEF AgreesWith

\* and neither does one that has run.
LEMMA AgreesShifted ==
  ASSUME NEW s \in Seq(Task), s # <<>>, NEW c, NEW record, NEW state, NEW cancelling,
         AgreesWith(s, c, record, state, cancelling), ~About(Head(s), c)
  PROVE  AgreesWith(Tail(s), c, record, state, cancelling)
<1>1. ~Decides(Head(s), c) /\ ~Acks(Head(s), c) /\ ~Ends(Head(s), c) /\ ~Removes(Head(s), c)
  BY DEF About, ClientRuns, Decides, Acks, Ends, Removes
<1>2. Len(s) \in 1 .. Len(s) /\ Len(Tail(s)) = Len(s) - 1
  BY Shifted
<1>3. Registers(Tail(s), Len(Tail(s)), c, record.registered, state # "unregistered")
  BY <1>1, <1>2, RegistersShifted DEF AgreesWith
<1>4. Fresh(Tail(s), c, record.paused)
  BY FreshShifted DEF AgreesWith
<1>5. Answers(Tail(s), c, state, record.paused, cancelling)
  BY <1>1, WillShifted DEF AgreesWith, Answers
<1> QED
  BY <1>3, <1>4, <1>5 DEF AgreesWith

\* One about the client makes the manager know what it says.
LEMMA AgreesRun ==
  ASSUME NEW s \in Seq(Task), s # <<>>, NEW c, NEW record, NEW state, NEW cancelling,
         AgreesWith(s, c, record, state, cancelling),
         About(Head(s), c), NEW later,
         \/ Head(s).run = "register_client" /\ later = IF state = "unregistered" THEN "RESUMED" ELSE state
         \/ Head(s).run = "unregister_client" /\ later = "unregistered"
         \/ Head(s).run = "ack_pause" /\ later = IF state = "unregistered" THEN state ELSE "PAUSED"
         \/ Head(s).run = "ack_resume" /\ later = IF state = "unregistered" THEN state ELSE "RESUMED"
  PROVE  AgreesWith(Tail(s), c, record, later, cancelling)
<1>1. Len(s) \in 1 .. Len(s) /\ Len(Tail(s)) = Len(s) - 1
  BY Shifted
<1>2. /\ Decides(Head(s), c) => (later # "unregistered" <=> Head(s).run = "register_client")
      /\ ~Decides(Head(s), c) => (later # "unregistered" <=> state # "unregistered")
  BY DEF Decides, About
<1>3. Registers(Tail(s), Len(Tail(s)), c, record.registered, later # "unregistered")
  BY <1>1, <1>2, RegistersShifted DEF AgreesWith
<1>4. Fresh(Tail(s), c, record.paused)
  BY FreshShifted DEF AgreesWith
<1>5. Answers(Tail(s), c, later, record.paused, cancelling)
  <2>1. CASE Head(s).run = "register_client"
    <3>1. ~Acks(Head(s), c) /\ ~Ends(Head(s), c) /\ ~Removes(Head(s), c)
      BY <2>1 DEF Acks, Ends, Removes
    <3> QED
      BY <2>1, <3>1, WillShifted DEF AgreesWith, Answers
  <2>2. CASE Head(s).run = "ack_pause"
    <3>1. Acks(Head(s), c)
      BY <2>2 DEF Acks, About
    <3>2. later \in {"unregistered", "PAUSED"}
      BY <2>2
    <3> QED
      BY <3>1, <3>2, FreshShifted DEF AgreesWith, Answers
  <2>3. CASE Head(s).run \in {"ack_resume", "unregister_client"}
    BY <2>3 DEF Answers
  <2> QED
    BY <2>1, <2>2, <2>3
<1> QED
  BY <1>3, <1>4, <1>5 DEF AgreesWith

\* A client that stays registered and paused agrees as before.
LEMMA AgreesStill ==
  ASSUME NEW s, NEW c, NEW record, NEW state, NEW cancelling, NEW record1, NEW cancelling1,
         AgreesWith(s, c, record, state, cancelling),
         record1.registered = record.registered, record.paused => record1.paused,
         cancelling /\ record.paused => cancelling1
  PROVE  AgreesWith(s, c, record1, state, cancelling1)
<1>1. Fresh(s, c, record1.paused)
  BY DEF AgreesWith, Fresh
<1>2. Answers(s, c, state, record1.paused, cancelling1)
  BY DEF AgreesWith, Answers
<1> QED
  BY <1>1, <1>2 DEF AgreesWith

\* The closures that are waiting handle a command only for le_impl, whatever is posted
LEMMA HandlesJoined ==
  ASSUME NEW s \in Seq(Task), NEW t \in Seq(Task), NEW known, HandlesFor(s, known),
         \A n \in 1 .. Len(t) : t[n].run # "handle_next_command"
  PROVE  HandlesFor(s \o t, known)
<1> DEFINE r == s \o t
<1>1. /\ Len(s) \in Nat /\ \A n \in 1 .. Len(s) : r[n] = s[n]
      /\ \A n \in 1 .. Len(r) :
           n \in 1 .. Len(s) \/ (n - Len(s) \in 1 .. Len(t) /\ r[n] = t[n - Len(s)])
  BY Joined
<1> HIDE DEF r
<1>2. ASSUME NEW n \in 1 .. Len(r), r[n].run = "handle_next_command"
      PROVE  Registers(r, n - 1, LeImpl, TRUE, known)
  <2>1. n \in 1 .. Len(s) /\ r[n] = s[n]
    BY <1>1, <1>2
  <2>2. Registers(s, n - 1, LeImpl, TRUE, known)
    BY <1>2, <2>1 DEF HandlesFor
  <2>3. \A m \in 1 .. n - 1 : r[m] = s[m]
    BY <1>1, <2>1
  <2>4. \A m \in 1 .. n - 1 : \A k \in m + 1 .. n - 1 : k \in 1 .. n - 1
    BY <2>1
  <2> QED
    BY <2>2, <2>3, <2>4 DEF Registers
<1>3. HandlesFor(r, known)
  BY <1>2 DEF HandlesFor
<1> QED
  BY <1>3 DEF r

\* unless le_impl has registered, or is about to, and posts it;
LEMMA HandlesPosted ==
  ASSUME NEW s \in Seq(Task), NEW known, HandlesFor(s, known),
         Registers(s, Len(s), LeImpl, TRUE, known),
         NEW task \in Task
  PROVE  HandlesFor(Append(s, task), known)
<1> DEFINE r == Append(s, task)
<1>1. /\ Len(s) \in Nat /\ \A n \in 1 .. Len(s) : r[n] = s[n]
      /\ Len(r) = Len(s) + 1
  BY AppendProperties, LenProperties
<1> HIDE DEF r
<1>2. ASSUME NEW n \in 1 .. Len(r), r[n].run = "handle_next_command"
      PROVE  Registers(r, n - 1, LeImpl, TRUE, known)
  <2>1. Registers(s, n - 1, LeImpl, TRUE, known)
    <3>1. CASE n \in 1 .. Len(s)
      BY <1>1, <1>2, <3>1 DEF HandlesFor
    <3>2. CASE n \notin 1 .. Len(s)
      <4>1. n - 1 = Len(s)
        BY <1>1, <3>2
      <4> QED
        BY <4>1
    <3> QED
      BY <3>1, <3>2
  <2>2. \A m \in 1 .. n - 1 : r[m] = s[m]
    BY <1>1
  <2>3. \A m \in 1 .. n - 1 : \A k \in m + 1 .. n - 1 : k \in 1 .. n - 1
    BY <1>1
  <2> QED
    BY <2>1, <2>2, <2>3 DEF Registers
<1>3. HandlesFor(r, known)
  BY <1>2 DEF HandlesFor
<1> QED
  BY <1>3 DEF r

\* and when one of them has run.
LEMMA HandlesShifted ==
  ASSUME NEW s \in Seq(Task), s # <<>>, NEW known, NEW later, HandlesFor(s, known),
         Decides(Head(s), LeImpl) => (later <=> Head(s).run = "register_client"),
         ~Decides(Head(s), LeImpl) => (later <=> known)
  PROVE  HandlesFor(Tail(s), later)
<1> DEFINE r == Tail(s)
<1>1. /\ Len(s) \in Nat /\ Head(s) = s[1] /\ Len(r) = Len(s) - 1
      /\ \A n \in 1 .. Len(r) : n + 1 \in 1 .. Len(s) /\ r[n] = s[n + 1]
  BY Shifted
<1>2. ASSUME NEW n \in 1 .. Len(r), r[n].run = "handle_next_command"
      PROVE  Registers(r, n - 1, LeImpl, TRUE, later)
  <2>1. n \in 1 .. Len(s) /\ n + 1 \in 1 .. Len(s) /\ r[n] = s[n + 1] /\ (n + 1) - 1 = n
    BY <1>1
  <2> HIDE DEF r
  <2>2. Registers(s, n, LeImpl, TRUE, known)
    BY <1>2, <2>1 DEF HandlesFor
  <2> QED
    BY <2>1, <2>2, RegistersShifted DEF r
<1> HIDE DEF r
<1>3. HandlesFor(r, later)
  BY <1>2 DEF HandlesFor
<1> QED
  BY <1>3 DEF r

-----------------------------------------------------------------------------
(* The clients and the manager agree *)

Cancelling(c) == c = LeImpl /\ le_impl.disarming

\* Every client agrees with the manager's map and the closures that are waiting.
Waiting(clients, s) ==
  /\ s \in Seq(Task)
  /\ \A c \in Clients : AgreesWith(s, c, client[c], clients[c], Cancelling(c))
  /\ HandlesFor(s, clients[LeImpl] # "unregistered")

Agreement == Waiting(registered_clients_, tasks)

\* The calls of clients are closures, about these clients.
LEMMA CallsAbout ==
  ASSUME NEW S \in SUBSET Clients, NEW run \in ClientRuns
  PROVE  /\ Calls(run, S) \in Seq(Task)
         /\ \A n \in 1 .. Len(Calls(run, S)) : Calls(run, S)[n].run # "handle_next_command"
         /\ \A n \in 1 .. Len(Calls(run, S)) :
              Calls(run, S)[n].run = run /\ Calls(run, S)[n].client \in S
         /\ \A c \in S : Called(Calls(run, S), run, c)
         /\ \A c : c \notin S => \A n \in 1 .. Len(Calls(run, S)) : ~About(Calls(run, S)[n], c)
<1> DEFINE calls == Calls(run, S)
<1>1. /\ calls \in Seq([run : {run}, client : S])
      /\ \A n \in 1 .. Len(calls) : calls[n].run = run /\ calls[n].client \in S
      /\ \A c \in S : Called(calls, run, c)
  BY CallsFacts
<1>2. [run : {run}, client : S] \subseteq Task
  BY DEF Task
<1> HIDE DEF calls
<1>3. calls \in Seq(Task)
  <2> DEFINE Call == [run : {run}, client : S]
  <2>1. calls \in Seq(Call) /\ Call \subseteq Task
    BY <1>1, <1>2
  <2> HIDE DEF Call
  <2> QED
    BY <2>1
<1>4. run # "handle_next_command"
  BY DEF ClientRuns
<1> QED
  BY <1>1, <1>3, <1>4 DEF About, calls

\* A client that is told to pause acknowledges, starts to cancel or has left.
LEMMA OnPauseAgrees ==
  ASSUME UsersOK, NEW clients \in [Clients -> ClientStates], NEW rest, NEW S \in SUBSET Clients,
         Waiting(clients, rest), OnPause(S, rest),
         registered_clients_' = [c \in Clients |->
           IF c \in S /\ clients[c] # "unregistered" THEN "WAITING_FOR_PAUSE" ELSE clients[c]]
  PROVE  Agreement'
<1> DEFINE prompt == {c \in Hearing(S) : c \in Scanners \/ ~client[c].active}
           t == Calls("ack_pause", prompt)
<1>1. /\ t \in Seq(Task) /\ rest \in Seq(Task) /\ tasks' = rest \o t
      /\ \A n \in 1 .. Len(t) : t[n].run = "ack_pause" /\ t[n].client \in prompt
      /\ \A c \in prompt : Called(t, "ack_pause", c)
      /\ \A n \in 1 .. Len(t) : t[n].run # "handle_next_command"
  <2>1. prompt \in SUBSET Clients /\ "ack_pause" \in ClientRuns
    BY DEF Hearing, ClientRuns
  <2>2. tasks' = rest \o t /\ rest \in Seq(Task)
    BY DEF OnPause, Waiting
  <2> HIDE DEF prompt
  <2>3. /\ \A n \in 1 .. Len(t) : t[n].run = "ack_pause" /\ t[n].client \in prompt
        /\ \A c \in prompt : Called(t, "ack_pause", c)
    BY <2>1, CallsAbout
  <2>4. t \in Seq(Task) /\ \A n \in 1 .. Len(t) : t[n].run # "handle_next_command"
    BY <2>1, CallsAbout
  <2> QED
    BY <2>2, <2>3, <2>4
<1>2. ASSUME NEW c \in Clients
      PROVE  /\ client'[c].registered = client[c].registered
             /\ client'[c].paused = (client[c].paused \/ c \in Hearing(S))
  <2>1. client'[c] = IF c \notin Hearing(S) THEN client[c]
                     ELSE IF c \in Scanners THEN ScannerPaused(client[c]) ELSE LeImplPaused(client[c])
    BY DEF OnPause
  <2>2. client[c] \in ClientRecord
    BY DEF UsersOK
  <2>3. /\ ScannerPaused(client[c]).registered = client[c].registered
        /\ ScannerPaused(client[c]).paused = TRUE
    BY <2>2 DEF ScannerPaused, ClientRecord
  <2>4. /\ LeImplPaused(client[c]).registered = client[c].registered
        /\ LeImplPaused(client[c]).paused = TRUE
    BY <2>2 DEF LeImplPaused, ClientRecord
  <2>5. client[c].paused \in BOOLEAN
    BY <2>2 DEF ClientRecord
  <2> QED
    BY <2>1, <2>3, <2>4, <2>5
<1>3. le_impl'.disarming = (le_impl.disarming \/ Hearing(S) # prompt)
  BY DEF OnPause, UsersOK, LeImplRecord
<1>4. ASSUME NEW c \in Clients
      PROVE  AgreesWith(tasks', c, client'[c], registered_clients_'[c], Cancelling(c)')
  <2> DEFINE state == registered_clients_'[c]
  <2>1. AgreesWith(rest, c, client[c], clients[c], Cancelling(c))
    BY DEF Waiting
  <2>2. state = IF c \in S /\ clients[c] # "unregistered" THEN "WAITING_FOR_PAUSE" ELSE clients[c]
    OBVIOUS
  <2>3. /\ \A n \in 1 .. Len(t) : ~Decides(t[n], c)
        /\ ~WillEnd(t, c) /\ ~WillLeave(t, c) /\ (WillAck(t, c) <=> c \in prompt)
    <3> HIDE DEF t, prompt
    <3> QED
      BY <1>1 DEF Called, Decides, Ends, Removes, Acks, WillEnd, WillLeave, WillAck
  <2>4. state # "unregistered" <=> clients[c] # "unregistered"
    BY <2>2
  <2> HIDE DEF state, t
  <2>5. Registers(tasks', Len(tasks'), c, client'[c].registered, state # "unregistered")
    BY <1>1, <1>2, <2>1, <2>3, <2>4, RegistersJoined DEF AgreesWith
  <2>6. Fresh(tasks', c, client'[c].paused)
    BY <1>1, <1>2, <2>1, <2>3, FreshJoined DEF AgreesWith
  <2>7. /\ WillAck(tasks', c) <=> WillAck(rest, c) \/ c \in prompt
        /\ WillEnd(tasks', c) <=> WillEnd(rest, c)
        /\ WillLeave(tasks', c) <=> WillLeave(rest, c)
    BY <1>1, <2>3, WillJoined
  <2>8. /\ client[c].paused => client'[c].paused
        /\ Cancelling(c) => Cancelling(c)'
        /\ Answers(rest, c, clients[c], client[c].paused, Cancelling(c))
    BY <1>2, <1>3, <2>1 DEF Cancelling, AgreesWith
  <2>9. ASSUME c \in S, clients[c] # "unregistered"
        PROVE  WillAck(tasks', c) \/ WillLeave(tasks', c) \/ (Cancelling(c)' /\ client'[c].paused)
    <3>1. CASE ~client[c].registered
      <4>1. WillLeave(rest, c)
        BY <1>1, <2>1, <2>9, <3>1, UnheardLeaves
      <4> QED
        BY <2>7, <4>1
    <3>2. CASE client[c].registered
      <4>1. c \in Hearing(S)
        BY <2>9, <3>2 DEF Hearing
      <4>2. CASE c \in prompt
        BY <2>7, <4>2
      <4>3. CASE c \notin prompt
        <5>1. c = LeImpl /\ Hearing(S) # prompt
          BY <4>1, <4>3 DEF Clients
        <5> QED
          BY <1>2, <1>3, <4>1, <5>1 DEF Cancelling
      <4> QED
        BY <4>2, <4>3
    <3> QED
      BY <3>1, <3>2
  <2>10. Answers(tasks', c, state, client'[c].paused, Cancelling(c)')
    <3>1. CASE c \in S /\ clients[c] # "unregistered"
      BY <2>2, <2>9, <3>1 DEF Answers
    <3>2. CASE ~(c \in S /\ clients[c] # "unregistered")
      <4>1. state = clients[c]
        BY <2>2, <3>2
      <4> HIDE DEF prompt
      <4> QED
        BY <2>7, <2>8, <4>1 DEF Answers
    <3> QED
      BY <3>1, <3>2
  <2> QED
    BY <2>5, <2>6, <2>10 DEF AgreesWith, state
<1>5. HandlesFor(tasks', registered_clients_'[LeImpl] # "unregistered")
  <2>1. registered_clients_'[LeImpl] # "unregistered" <=> clients[LeImpl] # "unregistered"
    BY DEF Clients
  <2>2. HandlesFor(tasks', clients[LeImpl] # "unregistered")
    <3> HIDE DEF t
    <3> QED
      BY <1>1, HandlesJoined DEF Waiting
  <2> QED
    BY <2>1, <2>2
<1>6. tasks' \in Seq(Task)
  <2> HIDE DEF t
  <2> QED
    BY <1>1, Joined
<1> QED
  BY <1>4, <1>5, <1>6 DEF Agreement, Waiting

\* A client that is told to go on acknowledges, and may leave after that.
LEMMA OnResumeAgrees ==
  ASSUME UsersOK, NEW clients \in [Clients -> ClientStates], NEW rest, NEW S \in SUBSET Clients,
         Waiting(clients, rest), OnResume(S, rest), Registered(clients) \subseteq S,
         registered_clients_' = [c \in Clients |->
           IF clients[c] # "unregistered" THEN "WAITING_FOR_RESUME" ELSE clients[c]]
  PROVE  Agreement'
<1> DEFINE started == {c \in Hearing(S) : ScannerContinues(c) \/ LeImplContinues(c)}
           resumed == Arming(le_impl, LeImpl \in started)
<1>1. PICK leaving \in SUBSET {c \in Hearing(S) : c = LeImpl /\ MayUnregister(resumed)} :
        /\ client' = [c \in Clients |->
             IF c \notin Hearing(S) THEN client[c]
             ELSE [registered |-> c \notin leaving, paused |-> FALSE,
                   active |-> client[c].active \/ c \in started, on_resume |-> FALSE]]
        /\ le_impl' = [resumed EXCEPT !.ready = @ /\ leaving = {}]
        /\ tasks' = rest \o Calls("ack_resume", Hearing(S))
                         \o Calls("unregister_client", leaving)
  BY DEF OnResume
<1> DEFINE t == Calls("ack_resume", Hearing(S))
           u == Calls("unregister_client", leaving)
           s == rest \o t
<1>2. leaving \subseteq Hearing(S) /\ Hearing(S) \subseteq Clients
  BY DEF Hearing
<1>3. le_impl'.disarming = le_impl.disarming
  <2>1. resumed \in LeImplRecord /\ resumed.disarming = le_impl.disarming
    <3> HIDE DEF started
    <3> QED
      BY DEF UsersOK, Arming, LeImplRecord
  <2> HIDE DEF resumed
  <2> QED
    BY <1>1, <2>1 DEF LeImplRecord
<1> HIDE DEF started, resumed
<1>4. /\ t \in Seq(Task)
      /\ \A n \in 1 .. Len(t) : t[n].run # "handle_next_command"
      /\ \A n \in 1 .. Len(t) : t[n].run = "ack_resume" /\ t[n].client \in Hearing(S)
      /\ \A c \in Hearing(S) : Called(t, "ack_resume", c)
  BY <1>2, CallsAbout DEF ClientRuns
<1>5. /\ u \in Seq(Task)
      /\ \A n \in 1 .. Len(u) : u[n].run # "handle_next_command"
      /\ \A n \in 1 .. Len(u) : u[n].run = "unregister_client" /\ u[n].client \in leaving
      /\ \A c \in leaving : Called(u, "unregister_client", c)
  BY <1>2, CallsAbout DEF ClientRuns
<1>6. tasks' = s \o u /\ rest \in Seq(Task)
  BY <1>1 DEF Waiting
<1> HIDE DEF t, u
<1>7. s \in Seq(Task) /\ tasks' \in Seq(Task)
  BY <1>4, <1>5, <1>6, Joined
<1>8. ASSUME NEW c \in Clients
      PROVE  AgreesWith(tasks', c, client'[c], registered_clients_'[c], Cancelling(c)')
  <2>1. AgreesWith(rest, c, client[c], clients[c], Cancelling(c))
    BY DEF Waiting
  <2>2. /\ \A n \in 1 .. Len(t) : ~Decides(t[n], c)
        /\ ~WillAck(t, c) /\ ~WillAck(u, c) /\ (c \in Hearing(S) => WillEnd(t, c))
        /\ c \notin leaving => \A n \in 1 .. Len(u) : ~Decides(u[n], c)
    BY <1>4, <1>5 DEF Called, Decides, Ends, Acks, WillEnd, WillAck
  <2>3. /\ WillEnd(tasks', c) <=> WillEnd(rest, c) \/ WillEnd(t, c) \/ WillEnd(u, c)
        /\ WillEnd(s, c) <=> WillEnd(rest, c) \/ WillEnd(t, c)
    BY <1>4, <1>5, <1>6, <1>7, WillJoined
  <2> DEFINE state == registered_clients_'[c]
  <2>4. state = IF clients[c] # "unregistered" THEN "WAITING_FOR_RESUME" ELSE clients[c]
    OBVIOUS
  <2>5. state # "unregistered" <=> clients[c] # "unregistered"
    BY <2>4
  <2> HIDE DEF state, s
  <2>6. Registers(s, Len(s), c, client[c].registered, state # "unregistered")
    BY <1>4, <1>6, <2>1, <2>2, <2>5, RegistersJoined DEF AgreesWith, s
  <2>7. CASE c \in Hearing(S)
    <3>1. client'[c].registered = (c \notin leaving) /\ client'[c].paused = FALSE
          /\ client[c].registered
      BY <1>1, <2>7 DEF Hearing
    <3>2. Registers(tasks', Len(tasks'), c, client'[c].registered, state # "unregistered")
      <4>1. CASE c \notin leaving
        <5>1. client'[c].registered = client[c].registered
          <6>1. client[c].registered \in BOOLEAN
            BY DEF UsersOK, ClientRecord
          <6> QED
            BY <3>1, <4>1, <6>1
        <5> QED
          BY <1>5, <1>6, <1>7, <2>2, <2>6, <4>1, <5>1, RegistersJoined
      <4>2. CASE c \in leaving
        <5>1. PICK i \in 1 .. Len(u) : u[i].run = "unregister_client" /\ u[i].client = c
          BY <1>5, <4>2 DEF Called
        <5>2. /\ Decides(u[i], c) /\ \A j \in 1 .. Len(u) : u[j].run = u[i].run
              /\ client'[c].registered <=> u[i].run = "register_client"
          BY <1>5, <3>1, <4>2, <5>1 DEF Decides
        <5> QED
          BY <1>5, <1>6, <1>7, <5>2, RegistersLast
      <4> QED
        BY <4>1, <4>2
    <3>3. Fresh(tasks', c, client'[c].paused)
      <4>1. Fresh(s, c, FALSE)
        BY <1>4, <1>6, <2>1, <2>2, <2>7, FreshJoined DEF AgreesWith, s
      <4>2. Fresh(s \o u, c, FALSE)
        BY <1>5, <1>7, <2>2, <4>1, FreshJoined
      <4> QED
        BY <1>6, <3>1, <4>2
    <3>4. Answers(tasks', c, state, client'[c].paused, Cancelling(c)')
      <4>1. WillEnd(tasks', c) /\ state \in {"WAITING_FOR_RESUME", "unregistered"}
        BY <2>2, <2>3, <2>4, <2>7
      <4> QED
        BY <4>1 DEF Answers
    <3> QED
      BY <3>2, <3>3, <3>4 DEF AgreesWith, state
  <2>8. CASE c \notin Hearing(S)
    <3>1. client'[c] = client[c] /\ c \notin leaving
      BY <1>1, <1>2, <2>8
    <3>2. Registers(tasks', Len(tasks'), c, client'[c].registered, state # "unregistered")
      BY <1>5, <1>6, <1>7, <2>2, <2>6, <3>1, RegistersJoined
    <3>3. Fresh(tasks', c, client'[c].paused)
      <4>1. Fresh(s, c, client[c].paused)
        BY <1>4, <1>6, <2>1, <2>2, FreshJoined DEF AgreesWith, s
      <4>2. Fresh(s \o u, c, client[c].paused)
        BY <1>5, <1>7, <2>2, <4>1, FreshJoined
      <4> QED
        BY <1>6, <3>1, <4>2
    <3>4. Answers(tasks', c, state, client'[c].paused, Cancelling(c)')
      <4>1. CASE clients[c] = "unregistered"
        BY <2>4, <4>1 DEF Answers
      <4>2. CASE clients[c] # "unregistered"
        <5>1. ~client[c].registered
          BY <2>8, <4>2 DEF Hearing, Registered
        <5>2. WillLeave(rest, c)
          BY <1>6, <2>1, <4>2, <5>1, UnheardLeaves
        <5>3. WillEnd(rest, c)
          BY <5>2 DEF WillLeave, WillEnd, Removes, Ends
        <5> QED
          BY <2>3, <2>4, <4>2, <5>3 DEF Answers
      <4> QED
        BY <4>1, <4>2
    <3> QED
      BY <3>2, <3>3, <3>4 DEF AgreesWith, state
  <2> QED
    BY <2>7, <2>8
<1>9. HandlesFor(tasks', registered_clients_'[LeImpl] # "unregistered")
  <2>1. registered_clients_'[LeImpl] # "unregistered" <=> clients[LeImpl] # "unregistered"
    BY DEF Clients
  <2>2. HandlesFor(s, clients[LeImpl] # "unregistered")
    BY <1>4, <1>6, HandlesJoined DEF Waiting
  <2> HIDE DEF s
  <2>3. HandlesFor(tasks', clients[LeImpl] # "unregistered")
    BY <1>5, <1>6, <1>7, <2>2, HandlesJoined
  <2> QED
    BY <2>1, <2>3
<1> QED
  BY <1>7, <1>8, <1>9 DEF Agreement, Waiting

-----------------------------------------------------------------------------
(* The manager's functions *)

\* The same clients and no assertion failed, but in a call with le_impl paused.
Sound == Agreement /\ AssertOnlyWhenPaused

\* pause_registered_clients
LEMMA PauseAgrees ==
  ASSUME UsersOK, NEW clients \in [Clients -> ClientStates], NEW cached, NEW rest, NEW gone,
         fate = "alive", Waiting(Without(clients, gone), rest),
         pause_registered_clients(clients, cached, rest, gone)
  PROVE  Sound'
<1> DEFINE told == {c \in Registered(clients) :
                      clients[c] \in {"WAITING_FOR_RESUME", "RESUMED"}}
           left == Without(clients, gone)
<1>1. told \in SUBSET Clients /\ left \in [Clients -> ClientStates]
  BY DEF Registered, Without, ClientStates
<1>2. registered_clients_' = [c \in Clients |->
        IF c \in told /\ left[c] # "unregistered" THEN "WAITING_FOR_PAUSE" ELSE left[c]]
  <2>1. registered_clients_' = Without([c \in Clients |->
           IF c \in told THEN "WAITING_FOR_PAUSE" ELSE clients[c]], gone)
    BY DEF pause_registered_clients
  <2>2. \A c \in Clients : c \in told => clients[c] # "unregistered"
    BY DEF Registered
  <2> HIDE DEF told
  <2> QED
    BY <2>1, <2>2 DEF Without
<1>3. OnPause(told, rest) /\ fate' = fate
  BY DEF pause_registered_clients
<1> HIDE DEF told, left
<1>4. Waiting(left, rest)
  BY DEF left
<1>5. Agreement'
  BY <1>1, <1>2, <1>3, <1>4, OnPauseAgrees
<1> QED
  BY <1>3, <1>5 DEF Sound, AssertOnlyWhenPaused

\* What a step that leaves the clients alone keeps.
LEMMA UnheardAgrees ==
  ASSUME NEW clients, NEW rest, Waiting(clients, rest),
         registered_clients_' = clients, tasks' = rest, UNCHANGED users
  PROVE  Agreement'
<1>1. client' = client /\ le_impl' = le_impl
  BY DEF users
<1>2. \A c \in Clients : Cancelling(c)' = Cancelling(c)
  BY <1>1 DEF Cancelling
<1> QED
  BY <1>1, <1>2 DEF Agreement, Waiting

\* handle_next_command, when there is something to handle or le_impl is registered
LEMMA HandleAgrees ==
  ASSUME NEW clients \in [Clients -> ClientStates], NEW cached, NEW rest, NEW gone,
         fate = "alive", Waiting(Without(clients, gone), rest),
         cached # <<>> \/ (LeImpl \in Registered(clients) /\ LeImpl \notin gone),
         handle_next_command(clients, cached, rest, gone)
  PROVE  Sound'
<1>1. /\ registered_clients_' = Without(clients, gone) /\ tasks' = rest /\ UNCHANGED users
      /\ fate' = IF NotPaused(clients) = {} /\ cached = <<>> THEN "assert" ELSE fate
  BY DEF handle_next_command
<1>2. Agreement'
  BY <1>1, UnheardAgrees
<1>3. AssertOnlyWhenPaused'
  <2>1. ASSUME NotPaused(clients) = {}, cached = <<>>
        PROVE  registered_clients_'[LeImpl] = "PAUSED"
    <3>1. LeImpl \in Registered(clients) /\ LeImpl \notin gone /\ LeImpl \in Clients
      BY <2>1 DEF Clients
    <3>2. clients[LeImpl] = "PAUSED"
      BY <2>1, <3>1 DEF NotPaused
    <3> QED
      BY <1>1, <3>1, <3>2 DEF Without
  <2> QED
    BY <1>1, <2>1 DEF AssertOnlyWhenPaused
<1> QED
  BY <1>2, <1>3 DEF Sound

\* resume_registered_clients
LEMMA ResumeAgrees ==
  ASSUME UsersOK, NEW clients \in [Clients -> ClientStates], NEW cached, NEW rest, NEW gone,
         fate = "alive", Waiting(Without(clients, gone), rest),
         resume_registered_clients(clients, cached, rest, gone)
  PROVE  Sound'
<1>1. CASE cached # <<>>
  <2>1. handle_next_command(clients, cached, rest, gone)
    BY <1>1 DEF resume_registered_clients
  <2> QED
    BY <1>1, <2>1, HandleAgrees
<1>2. CASE cached = <<>>
  <2> DEFINE left == Without(clients, gone)
  <2>1. /\ registered_clients_' = Without([c \in Clients |->
             IF c \in Registered(clients) THEN "WAITING_FOR_RESUME" ELSE clients[c]], gone)
        /\ OnResume(Registered(clients), rest)
        /\ fate' = fate
    BY <1>2 DEF resume_registered_clients
  <2>2. /\ left \in [Clients -> ClientStates] /\ Registered(clients) \in SUBSET Clients
        /\ Registered(left) \subseteq Registered(clients)
    BY DEF Registered, Without, ClientStates
  <2>3. registered_clients_' = [c \in Clients |->
          IF left[c] # "unregistered" THEN "WAITING_FOR_RESUME" ELSE left[c]]
    BY <2>1 DEF Without, Registered
  <2> HIDE DEF left
  <2>4. Waiting(left, rest)
    BY DEF left
  <2>5. Agreement'
    BY <2>1, <2>2, <2>3, <2>4, OnResumeAgrees
  <2> QED
    BY <2>1, <2>5 DEF Sound, AssertOnlyWhenPaused
<1> QED
  BY <1>1, <1>2

\* check_cached_commands
LEMMA CheckAgrees ==
  ASSUME UsersOK, NEW clients \in [Clients -> ClientStates], NEW cached, NEW rest, NEW gone,
         fate = "alive", Waiting(Without(clients, gone), rest),
         check_cached_commands(clients, cached, rest, gone)
  PROVE  Sound'
BY PauseAgrees, ResumeAgrees DEF check_cached_commands

\* ack_pause
LEMMA AckPauseAgrees ==
  ASSUME UsersOK, registered_clients_ \in [Clients -> ClientStates], NEW c \in Clients,
         NEW rest, NEW gone, fate = "alive",
         Waiting(Without([registered_clients_ EXCEPT ![c] = "PAUSED"], gone), rest),
         ack_pause(c, rest, gone)
  PROVE  Sound'
<1> DEFINE clients == [registered_clients_ EXCEPT ![c] = "PAUSED"]
           first == Min(NotPaused(clients))
           left == Without(clients, gone)
<1>1. clients \in [Clients -> ClientStates] /\ left \in [Clients -> ClientStates]
  BY DEF ClientStates, ClientState, Without
<1>2. CASE NotPaused(clients) = {}
  <2>1. check_cached_commands(clients, cached_commands_, rest, gone)
    BY <1>2 DEF ack_pause
  <2> HIDE DEF clients, left
  <2>2. Waiting(Without(clients, gone), rest)
    BY DEF clients
  <2> QED
    BY <1>1, <2>1, <2>2, CheckAgrees
<1>3. CASE NotPaused(clients) # {} /\ clients[first] = "WAITING_FOR_PAUSE"
  <2>1. registered_clients_' = left /\ tasks' = rest /\ UNCHANGED users /\ fate' = fate
    BY <1>3 DEF ack_pause
  <2>2. Waiting(left, rest)
    OBVIOUS
  <2> HIDE DEF left
  <2>3. Agreement'
    BY <2>1, <2>2, UnheardAgrees
  <2> QED
    BY <2>1, <2>3 DEF Sound, AssertOnlyWhenPaused
<1>4. CASE NotPaused(clients) # {} /\ clients[first] # "WAITING_FOR_PAUSE"
  <2>1. /\ registered_clients_' = Without([clients EXCEPT ![first] = "WAITING_FOR_PAUSE"], gone)
        /\ OnPause({first}, rest) /\ fate' = fate
    BY <1>4 DEF ack_pause
  <2>2. first \in NotPaused(clients)
    BY <1>4, LeastClient
  <2>3. Waiting(left, rest)
    OBVIOUS
  <2> HIDE DEF clients, first
  <2>4. {first} \in SUBSET Clients /\ clients[first] # "unregistered"
    BY <2>2 DEF NotPaused, Registered
  <2>5. registered_clients_' = [d \in Clients |->
          IF d \in {first} /\ left[d] # "unregistered" THEN "WAITING_FOR_PAUSE" ELSE left[d]]
    BY <1>1, <2>1, <2>4 DEF Without
  <2> HIDE DEF left
  <2>6. Agreement'
    BY <1>1, <2>1, <2>3, <2>4, <2>5, OnPauseAgrees
  <2> QED
    BY <2>1, <2>6 DEF Sound, AssertOnlyWhenPaused
<1> QED
  BY <1>2, <1>3, <1>4

-----------------------------------------------------------------------------
(* The closures of the handler *)

\* Agreement of given values: the records of the clients, whether le_impl is disarming, the
\* map of the manager and the closures.
AgreesAll(records, disarming, clients, s) ==
  /\ s \in Seq(Task)
  /\ \A c \in Clients : AgreesWith(s, c, records[c], clients[c], c = LeImpl /\ disarming)
  /\ HandlesFor(s, clients[LeImpl] # "unregistered")

LEMMA AgreementOfAll ==
  /\ Agreement <=> AgreesAll(client, le_impl.disarming, registered_clients_, tasks)
  /\ \A clients, s : Waiting(clients, s) <=> AgreesAll(client, le_impl.disarming, clients, s)
BY DEF Agreement, Waiting, AgreesAll, Cancelling

\* A closure that is posted.
LEMMA TaskFacts ==
  ASSUME NEW task \in Task, task.run \in ClientRuns
  PROVE  task.client \in Clients
BY DEF Task, ClientRuns, OtherRuns

\* A closure that no client has posted leaves the agreement as it is.
LEMMA ShiftedAgrees ==
  ASSUME Agreement, tasks # <<>>, Head(tasks).run \notin ClientRuns
  PROVE  Waiting(registered_clients_, Tail(tasks))
<1>1. tasks \in Seq(Task) /\ Tail(tasks) \in Seq(Task)
  BY Shifted DEF Agreement, Waiting
<1>2. \A c : ~About(Head(tasks), c) /\ ~Decides(Head(tasks), c)
  BY DEF About, Decides, ClientRuns
<1>3. \A c \in Clients :
        AgreesWith(Tail(tasks), c, client[c], registered_clients_[c], Cancelling(c))
  BY <1>1, <1>2, AgreesShifted DEF Agreement, Waiting
<1>4. HandlesFor(Tail(tasks), registered_clients_[LeImpl] # "unregistered")
  BY <1>1, <1>2, HandlesShifted DEF Agreement, Waiting
<1> QED
  BY <1>1, <1>3, <1>4 DEF Waiting

\* A closure of a client makes the manager's map agree with what it says.
LEMMA ClientRunAgrees ==
  ASSUME Agreement, registered_clients_ \in [Clients -> ClientStates],
         tasks # <<>>, Head(tasks).run \in ClientRuns, NEW c, c = Head(tasks).client,
         NEW state, state = registered_clients_[c], NEW later,
         \/ Head(tasks).run = "register_client" /\ later = IF state = "unregistered" THEN "RESUMED" ELSE state
         \/ Head(tasks).run = "unregister_client" /\ later = "unregistered"
         \/ Head(tasks).run = "ack_pause" /\ later = IF state = "unregistered" THEN state ELSE "PAUSED"
         \/ Head(tasks).run = "ack_resume" /\ later = IF state = "unregistered" THEN state ELSE "RESUMED"
  PROVE  c \in Clients /\ Waiting([registered_clients_ EXCEPT ![c] = later], Tail(tasks))
<1> DEFINE after == [registered_clients_ EXCEPT ![c] = later]
<1>1. tasks \in Seq(Task) /\ Tail(tasks) \in Seq(Task) /\ Head(tasks) \in Task
  BY Shifted DEF Agreement, Waiting
<1>2. c \in Clients
  BY <1>1, TaskFacts
<1>3. after[c] = later /\ \A d \in Clients : d # c => after[d] = registered_clients_[d]
  BY <1>2
<1> HIDE DEF after
<1>4. About(Head(tasks), c) /\ \A d : d # c => ~About(Head(tasks), d)
  BY DEF About
<1>5. ASSUME NEW d \in Clients
      PROVE  AgreesWith(Tail(tasks), d, client[d], after[d], Cancelling(d))
  <2>1. AgreesWith(tasks, d, client[d], registered_clients_[d], Cancelling(d))
    BY DEF Agreement, Waiting
  <2>2. CASE d = c
    BY <1>1, <1>3, <1>4, <2>1, <2>2, AgreesRun
  <2>3. CASE d # c
    BY <1>1, <1>3, <1>4, <2>1, <2>3, AgreesShifted
  <2> QED
    BY <2>2, <2>3
<1>6. HandlesFor(Tail(tasks), after[LeImpl] # "unregistered")
  <2>1. /\ Decides(Head(tasks), LeImpl) =>
             (after[LeImpl] # "unregistered" <=> Head(tasks).run = "register_client")
        /\ ~Decides(Head(tasks), LeImpl) =>
             (after[LeImpl] # "unregistered" <=> registered_clients_[LeImpl] # "unregistered")
    <3>1. LeImpl \in Clients
      BY DEF Clients
    <3> QED
      BY <1>3, <3>1 DEF Decides
  <2> QED
    BY <1>1, <2>1, HandlesShifted DEF Agreement, Waiting
<1> QED
  BY <1>1, <1>2, <1>5, <1>6 DEF Waiting, after

\* A map from which nobody is erased.
LEMMA WithoutNobody ==
  ASSUME NEW clients \in [Clients -> ClientStates]
  PROVE  Without(clients, {}) = clients
BY DEF Without

\* Registering, leaving and acknowledging.
LEMMA ClientRunsAgree ==
  ASSUME Inv, Sound, register_client \/ unregister_client \/ RunAckPause \/ ack_resume
  PROVE  Sound'
<1> DEFINE c == Head(tasks).client
           state == registered_clients_[c]
           later(s) == [registered_clients_ EXCEPT ![c] = s]
<1>1. /\ registered_clients_ \in [Clients -> ClientStates] /\ Agreement /\ UsersOK
  BY DEF Inv, TypeOK, ClientStates, Sound, UsersOK
<1>2. fate = "alive" /\ tasks # <<>>
  BY DEF register_client, unregister_client, RunAckPause, ack_resume, Runs
<1>3. CASE register_client
  <2> DEFINE s == IF state = "unregistered" THEN "RESUMED" ELSE state
  <2>1. Head(tasks).run = "register_client" /\ "register_client" \in ClientRuns
    BY <1>3 DEF register_client, Runs, ClientRuns
  <2>2. c \in Clients /\ Waiting(later(s), Tail(tasks))
    BY <1>1, <1>2, <2>1, ClientRunAgrees
  <2>3. registered_clients_' = later(s)
    BY <1>3, <2>2 DEF register_client, Registered
  <2>4. tasks' = Tail(tasks) /\ UNCHANGED users /\ fate' = fate
    BY <1>3 DEF register_client
  <2> HIDE DEF later, s
  <2> QED
    BY <1>2, <2>2, <2>3, <2>4, UnheardAgrees DEF Sound, AssertOnlyWhenPaused
<1>4. CASE unregister_client
  <2>1. Head(tasks).run = "unregister_client" /\ "unregister_client" \in ClientRuns
    BY <1>4 DEF unregister_client, Runs, ClientRuns
  <2>2. c \in Clients /\ Waiting(later("unregistered"), Tail(tasks))
    BY <1>1, <1>2, <2>1, ClientRunAgrees
  <2>3. CASE state = "WAITING_FOR_PAUSE"
    <3>1. ack_pause(c, Tail(tasks), {c})
      BY <1>4, <2>3 DEF unregister_client
    <3>2. Without(later("PAUSED"), {c}) = later("unregistered")
      BY <1>1, <2>2 DEF Without
    <3> HIDE DEF c
    <3> QED
      BY <1>1, <1>2, <2>2, <3>1, <3>2, AckPauseAgrees
  <2>4. CASE state # "WAITING_FOR_PAUSE"
    <3>1. /\ registered_clients_' = Without(registered_clients_, {c})
          /\ tasks' = Tail(tasks) /\ UNCHANGED users /\ fate' = fate
      BY <1>4, <2>4 DEF unregister_client
    <3>2. Without(registered_clients_, {c}) = later("unregistered")
      BY <1>1, <2>2 DEF Without
    <3> HIDE DEF later
    <3> QED
      BY <1>2, <2>2, <3>1, <3>2, UnheardAgrees DEF Sound, AssertOnlyWhenPaused
  <2> QED
    BY <2>3, <2>4
<1>5. CASE RunAckPause
  <2>1. Head(tasks).run = "ack_pause" /\ "ack_pause" \in ClientRuns
    BY <1>5 DEF RunAckPause, Runs, ClientRuns
  <2> DEFINE s == IF state = "unregistered" THEN state ELSE "PAUSED"
  <2>2. c \in Clients /\ Waiting(later(s), Tail(tasks))
    BY <1>1, <1>2, <2>1, ClientRunAgrees
  <2>3. CASE state # "unregistered"
    <3>1. ack_pause(c, Tail(tasks), {})
      BY <1>5, <2>2, <2>3 DEF RunAckPause, Registered
    <3>2. Without(later("PAUSED"), {}) = later(s)
      BY <1>1, <2>2, <2>3 DEF Without
    <3> HIDE DEF c
    <3> QED
      BY <1>1, <1>2, <2>2, <3>1, <3>2, AckPauseAgrees
  <2>4. CASE state = "unregistered"
    <3>1. tasks' = Tail(tasks) /\ UNCHANGED <<manager, users, fate>>
      BY <1>5, <2>2, <2>4 DEF RunAckPause, Registered
    <3>2. registered_clients_' = later(s)
      BY <1>1, <2>2, <2>4, <3>1 DEF manager
    <3> HIDE DEF later, s
    <3> QED
      BY <1>2, <2>2, <3>1, <3>2, UnheardAgrees DEF Sound, AssertOnlyWhenPaused
  <2> QED
    BY <2>3, <2>4
<1>6. CASE ack_resume
  <2>1. Head(tasks).run = "ack_resume" /\ "ack_resume" \in ClientRuns
    BY <1>6 DEF ack_resume, Runs, ClientRuns
  <2> DEFINE s == IF state = "unregistered" THEN state ELSE "RESUMED"
  <2>2. c \in Clients /\ Waiting(later(s), Tail(tasks))
    BY <1>1, <1>2, <2>1, ClientRunAgrees
  <2>3. registered_clients_' = later(s)
    BY <1>6, <2>2 DEF ack_resume
  <2>4. tasks' = Tail(tasks) /\ UNCHANGED users /\ fate' = fate
    BY <1>6 DEF ack_resume
  <2> HIDE DEF later, s
  <2> QED
    BY <1>2, <2>2, <2>3, <2>4, UnheardAgrees DEF Sound, AssertOnlyWhenPaused
<1> QED
  BY <1>3, <1>4, <1>5, <1>6

\* The other closures of the manager.
LEMMA ManagerRunsAgree ==
  ASSUME Inv, Sound,
         \/ push_command \/ prepare_to_update_irk \/ RunPause \/ RunResume
         \/ RunHandleNextCommand \/ RunCheckCachedCommands
  PROVE  Sound'
<1>1. /\ registered_clients_ \in [Clients -> ClientStates] /\ Agreement /\ UsersOK
      /\ cached_commands_ \in Seq(CommandType)
  BY DEF Inv, TypeOK, ClientStates, Sound, UsersOK
<1>2. fate = "alive" /\ tasks # <<>> /\ Head(tasks).run \notin ClientRuns
  BY DEF push_command, prepare_to_update_irk, RunPause, RunResume, RunHandleNextCommand,
         RunCheckCachedCommands, Runs, ClientRuns
<1>3. Waiting(Without(registered_clients_, {}), Tail(tasks))
  BY <1>1, <1>2, ShiftedAgrees, WithoutNobody
<1>4. CASE push_command
  BY <1>1, <1>2, <1>3, <1>4, PauseAgrees DEF push_command
<1>5. CASE prepare_to_update_irk
  <2>1. Append(cached_commands_, "UPDATE_IRK") # <<>>
    BY <1>1
  <2> QED
    BY <1>1, <1>2, <1>3, <1>5, <2>1, PauseAgrees, HandleAgrees DEF prepare_to_update_irk
<1>6. CASE RunPause
  BY <1>1, <1>2, <1>3, <1>6, PauseAgrees DEF RunPause
<1>7. CASE RunResume
  BY <1>1, <1>2, <1>3, <1>7, ResumeAgrees DEF RunResume
<1>8. CASE RunHandleNextCommand
  <2>1. Head(tasks).run = "handle_next_command"
    BY <1>8 DEF RunHandleNextCommand, Runs
  <2>2. tasks \in Seq(Task) /\ HandlesFor(tasks, registered_clients_[LeImpl] # "unregistered")
    BY <1>1 DEF Agreement, Waiting
  <2>3. Head(tasks) = tasks[1] /\ 1 \in 1 .. Len(tasks) /\ 1 - 1 = 0
    BY <1>2, <2>2, Shifted
  <2>4. Registers(tasks, 0, LeImpl, TRUE, registered_clients_[LeImpl] # "unregistered")
    BY <2>1, <2>2, <2>3 DEF HandlesFor
  <2>5. registered_clients_[LeImpl] # "unregistered"
    BY <2>4 DEF Registers
  <2>6. LeImpl \in Registered(registered_clients_)
    BY <2>5 DEF Registered, Clients
  <2> QED
    BY <1>1, <1>2, <1>3, <1>8, <2>6, HandleAgrees DEF RunHandleNextCommand
<1>9. CASE RunCheckCachedCommands
  BY <1>1, <1>2, <1>3, <1>9, CheckAgrees DEF RunCheckCachedCommands
<1> QED
  BY <1>4, <1>5, <1>6, <1>7, <1>8, <1>9

-----------------------------------------------------------------------------
(* The steps of the clients *)

\* Closures that no client posts change nothing.
LEMMA AllJoined ==
  ASSUME NEW records, NEW disarming, NEW clients, NEW s, NEW t \in Seq(Task),
         AgreesAll(records, disarming, clients, s),
         \A n \in 1 .. Len(t) : t[n].run \notin ClientRuns /\ t[n].run # "handle_next_command"
  PROVE  AgreesAll(records, disarming, clients, s \o t)
<1>1. s \in Seq(Task) /\ s \o t \in Seq(Task)
  BY Joined DEF AgreesAll
<1>2. \A c : \A n \in 1 .. Len(t) : ~About(t[n], c)
  BY DEF About
<1>3. ASSUME NEW c \in Clients
      PROVE  AgreesWith(s \o t, c, records[c], clients[c], c = LeImpl /\ disarming)
  BY <1>1, <1>2, AgreesJoined DEF AgreesAll
<1>4. HandlesFor(s \o t, clients[LeImpl] # "unregistered")
  BY <1>1, HandlesJoined DEF AgreesAll
<1> QED
  BY <1>1, <1>3, <1>4 DEF AgreesAll

\* Such a closure alone.
LEMMA OtherPosted ==
  ASSUME NEW records, NEW disarming, NEW clients, NEW s, NEW task \in Task,
         AgreesAll(records, disarming, clients, s),
         task.run \notin ClientRuns, task.run # "handle_next_command"
  PROVE  /\ AgreesAll(records, disarming, clients, s \o <<task>>)
         /\ AgreesAll(records, disarming, clients, Append(s, task))
<1> DEFINE t == <<task>>
<1>1. t \in Seq(Task) /\ Len(t) = 1 /\ t[1] = task
  OBVIOUS
<1>2. s \in Seq(Task)
  BY DEF AgreesAll
<1>3. s \o t = Append(s, task)
  BY <1>2
<1> HIDE DEF t
<1>4. \A n \in 1 .. Len(t) : t[n].run \notin ClientRuns /\ t[n].run # "handle_next_command"
  BY <1>1
<1>5. AgreesAll(records, disarming, clients, s \o t)
  BY <1>1, <1>4, AllJoined
<1> QED
  BY <1>3, <1>5 DEF t

\* One client changes and posts closures that are about itself only.
LEMMA OneAgrees ==
  ASSUME NEW records, NEW disarming, NEW clients, NEW s, NEW t \in Seq(Task),
         AgreesAll(records, disarming, clients, s),
         NEW c \in Clients, NEW records1, NEW disarming1,
         \A d \in Clients : d # c => records1[d] = records[d],
         c # LeImpl => (disarming1 <=> disarming),
         \A d : d # c => \A n \in 1 .. Len(t) : ~About(t[n], d),
         \A n \in 1 .. Len(t) : t[n].run # "handle_next_command",
         AgreesWith(s \o t, c, records1[c], clients[c], c = LeImpl /\ disarming1)
  PROVE  AgreesAll(records1, disarming1, clients, s \o t)
<1>1. s \in Seq(Task) /\ s \o t \in Seq(Task)
  BY Joined DEF AgreesAll
<1>2. ASSUME NEW d \in Clients, d # c
      PROVE  AgreesWith(s \o t, d, records1[d], clients[d], d = LeImpl /\ disarming1)
  <2>1. AgreesWith(s, d, records[d], clients[d], d = LeImpl /\ disarming)
    BY DEF AgreesAll
  <2>2. AgreesWith(s \o t, d, records[d], clients[d], d = LeImpl /\ disarming)
    BY <1>1, <1>2, <2>1, AgreesJoined
  <2>3. (d = LeImpl /\ disarming1) <=> (d = LeImpl /\ disarming)
    BY <1>2
  <2> QED
    BY <1>2, <2>2, <2>3 DEF AgreesWith, Answers
<1>3. HandlesFor(s \o t, clients[LeImpl] # "unregistered")
  BY <1>1, HandlesJoined DEF AgreesAll
<1> QED
  BY <1>1, <1>2, <1>3 DEF AgreesAll

\* One client changes and posts nothing.
LEMMA OneStill ==
  ASSUME NEW records, NEW disarming, NEW clients, NEW s,
         AgreesAll(records, disarming, clients, s),
         NEW c \in Clients, NEW records1, NEW disarming1,
         \A d \in Clients : d # c => records1[d] = records[d],
         c # LeImpl => (disarming1 <=> disarming),
         disarming /\ records[c].paused => disarming1,
         records1[c].registered = records[c].registered,
         records[c].paused => records1[c].paused
  PROVE  AgreesAll(records1, disarming1, clients, s)
<1>1. s \in Seq(Task) /\ HandlesFor(s, clients[LeImpl] # "unregistered")
  BY DEF AgreesAll
<1>2. ASSUME NEW d \in Clients
      PROVE  AgreesWith(s, d, records1[d], clients[d], d = LeImpl /\ disarming1)
  <2>1. AgreesWith(s, d, records[d], clients[d], d = LeImpl /\ disarming)
    BY DEF AgreesAll
  <2>2. CASE d = c
    BY <2>1, <2>2, AgreesStill
  <2>3. CASE d # c
    <3>1. (d = LeImpl /\ disarming1) <=> (d = LeImpl /\ disarming)
      BY <2>3
    <3> QED
      BY <2>1, <2>3, <3>1 DEF AgreesWith, Answers
  <2> QED
    BY <2>2, <2>3
<1> QED
  BY <1>1, <1>2 DEF AgreesAll

\* A client that was not registered registers, and may be paused from then on.
LEMMA OneEnters ==
  ASSUME NEW records, NEW disarming, NEW clients, NEW s,
         AgreesAll(records, disarming, clients, s),
         NEW c \in Clients, NEW records1, NEW task \in Task,
         task.run = "register_client", task.client = c,
         \A d \in Clients : d # c => records1[d] = records[d],
         records1[c].registered = TRUE,
         records[c].paused => records1[c].paused
  PROVE  AgreesAll(records1, disarming, clients, s \o <<task>>)
<1> DEFINE t == <<task>>
<1>1. t \in Seq(Task) /\ Len(t) = 1 /\ t[1] = task
  OBVIOUS
<1> HIDE DEF t
<1>2. s \in Seq(Task) /\ AgreesWith(s, c, records[c], clients[c], c = LeImpl /\ disarming)
  BY DEF AgreesAll
<1>3. /\ \A d : d # c => \A n \in 1 .. Len(t) : ~About(t[n], d)
      /\ \A n \in 1 .. Len(t) : t[n].run # "handle_next_command"
      /\ 1 \in 1 .. Len(t) /\ Decides(t[1], c) /\ t[1].run = "register_client"
      /\ \A n \in 1 .. Len(t) : Decides(t[n], c) => t[n].run = t[1].run
      /\ ~WillAck(t, c) /\ ~WillEnd(t, c) /\ ~WillLeave(t, c)
  BY <1>1 DEF About, Decides, Acks, Ends, Removes, WillAck, WillEnd, WillLeave
<1>4. Registers(s \o t, Len(s \o t), c, records1[c].registered, clients[c] # "unregistered")
  <2>1. records1[c].registered <=> t[1].run = "register_client"
    BY <1>3
  <2> QED
    BY <1>1, <1>2, <1>3, <2>1, RegistersLast
<1>5. Fresh(s \o t, c, records1[c].paused)
  BY <1>1, <1>2, <1>3, FreshJoined DEF AgreesWith
<1>6. Answers(s \o t, c, clients[c], records1[c].paused, c = LeImpl /\ disarming)
  <2>1. /\ WillAck(s \o t, c) <=> WillAck(s, c)
        /\ WillEnd(s \o t, c) <=> WillEnd(s, c)
        /\ WillLeave(s \o t, c) <=> WillLeave(s, c)
    BY <1>1, <1>2, <1>3, WillJoined
  <2> QED
    BY <1>2, <2>1 DEF AgreesWith, Answers
<1>7. AgreesWith(s \o t, c, records1[c], clients[c], c = LeImpl /\ disarming)
  BY <1>4, <1>5, <1>6 DEF AgreesWith
<1>8. AgreesAll(records1, disarming, clients, s \o t)
  BY <1>1, <1>3, <1>7, OneAgrees
<1> QED
  BY <1>8 DEF t

\* The closure that a client posts unless it is registered.
RegistrationUnless(registered, c) ==
  IF registered THEN <<>> ELSE <<[run |-> "register_client", client |-> c]>>

\* The record of a client before and after it registers.
Enters(before, after) ==
  /\ before.registered \in BOOLEAN
  /\ after.registered = TRUE
  /\ before.paused => after.paused

\* A client registers, if need be.
LEMMA OneRegisters ==
  ASSUME NEW records, NEW disarming, NEW clients, NEW s,
         AgreesAll(records, disarming, clients, s),
         NEW c \in Clients, NEW records1,
         \A d \in Clients : d # c => records1[d] = records[d],
         Enters(records[c], records1[c])
  PROVE  AgreesAll(records1, disarming, clients, s \o RegistrationUnless(records[c].registered, c))
<1> USE DEF Enters
<1> DEFINE t == RegistrationUnless(records[c].registered, c)
<1>1. s \in Seq(Task)
  BY DEF AgreesAll
<1>2. CASE records[c].registered
  <2>1. s \o t = s
    BY <1>1, <1>2 DEF RegistrationUnless
  <2>2. records1[c].registered = records[c].registered
    BY <1>2
  <2>3. AgreesAll(records1, disarming, clients, s)
    BY <2>2, OneStill
  <2> QED
    BY <2>1, <2>3
<1>3. CASE ~records[c].registered
  <2> DEFINE task == [run |-> "register_client", client |-> c]
  <2>1. task \in Task /\ task.run = "register_client" /\ task.client = c
    BY DEF Task, ClientRuns
  <2>2. t = <<task>>
    BY <1>3 DEF RegistrationUnless
  <2> HIDE DEF task
  <2>3. AgreesAll(records1, disarming, clients, s \o <<task>>)
    BY <2>1, OneEnters
  <2> QED
    BY <2>2, <2>3
<1> QED
  BY <1>2, <1>3

\* le_impl acknowledges a pause, if it is paused, and has cancelled its attempt.
LEMMA LeImplAcks ==
  ASSUME NEW records, NEW disarming, NEW clients, NEW s,
         AgreesAll(records, disarming, clients, s),
         NEW records1, NEW disarming1,
         \A d \in Clients : d # LeImpl => records1[d] = records[d],
         records1[LeImpl].registered = records[LeImpl].registered,
         records1[LeImpl].paused = records[LeImpl].paused
  PROVE  AgreesAll(records1, disarming1, clients,
                   s \o Calls("ack_pause", {c \in {LeImpl} : records[c].paused}))
<1> DEFINE S == {c \in {LeImpl} : records[c].paused}
           t == Calls("ack_pause", S)
<1>1. LeImpl \in Clients /\ S \in SUBSET Clients /\ "ack_pause" \in ClientRuns
  BY DEF Clients, ClientRuns
<1>2. LeImpl \in S <=> records[LeImpl].paused
  OBVIOUS
<1>3. \A d : d # LeImpl => d \notin S
  OBVIOUS
<1> HIDE DEF S
<1>4. /\ t \in Seq(Task)
      /\ \A n \in 1 .. Len(t) : t[n].run # "handle_next_command"
      /\ \A n \in 1 .. Len(t) : t[n].run = "ack_pause" /\ t[n].client \in S
      /\ \A c \in S : Called(t, "ack_pause", c)
      /\ \A d : d # LeImpl => \A n \in 1 .. Len(t) : ~About(t[n], d)
  BY <1>1, <1>3, CallsAbout
<1> HIDE DEF t
<1>5. s \in Seq(Task) /\ AgreesWith(s, LeImpl, records[LeImpl], clients[LeImpl], disarming)
  BY <1>1 DEF AgreesAll, AgreesWith, Answers
<1>6. /\ \A n \in 1 .. Len(t) : ~Decides(t[n], LeImpl)
      /\ ~WillEnd(t, LeImpl) /\ ~WillLeave(t, LeImpl)
      /\ WillAck(t, LeImpl) <=> records[LeImpl].paused
  BY <1>2, <1>4 DEF Called, Decides, Ends, Removes, Acks, WillEnd, WillLeave, WillAck
<1>7. Registers(s \o t, Len(s \o t), LeImpl, records1[LeImpl].registered,
                clients[LeImpl] # "unregistered")
  BY <1>4, <1>5, <1>6, RegistersJoined DEF AgreesWith
<1>8. Fresh(s \o t, LeImpl, records1[LeImpl].paused)
  BY <1>4, <1>5, <1>6, FreshJoined DEF AgreesWith
<1>9. Answers(s \o t, LeImpl, clients[LeImpl], records1[LeImpl].paused, LeImpl = LeImpl /\ disarming1)
  BY <1>4, <1>5, <1>6, WillJoined DEF AgreesWith, Answers
<1>10. AgreesWith(s \o t, LeImpl, records1[LeImpl], clients[LeImpl], LeImpl = LeImpl /\ disarming1)
  BY <1>7, <1>8, <1>9 DEF AgreesWith
<1>11. AgreesAll(records1, disarming1, clients, s \o t)
  BY <1>1, <1>4, <1>10, OneAgrees
<1> QED
  BY <1>11 DEF t, S

\* A scan is stopped: the client leaves.
LEMMA OneLeaves ==
  ASSUME NEW records, NEW disarming, NEW clients, NEW s,
         AgreesAll(records, disarming, clients, s),
         NEW c \in Clients, NEW records1,
         \A d \in Clients : d # c => records1[d] = records[d],
         records1[c].registered = FALSE
  PROVE  AgreesAll(records1, disarming, clients,
                   Append(s, [run |-> "unregister_client", client |-> c]))
<1> DEFINE task == [run |-> "unregister_client", client |-> c]
           t == <<task>>
<1>1. task \in Task /\ task.run = "unregister_client" /\ task.client = c
  BY DEF Task, ClientRuns
<1> HIDE DEF task
<1>2. t \in Seq(Task) /\ Len(t) = 1 /\ t[1] = task
  BY <1>1
<1>3. s \in Seq(Task) /\ AgreesWith(s, c, records[c], clients[c], c = LeImpl /\ disarming)
  BY DEF AgreesAll
<1>4. Append(s, task) = s \o t
  BY <1>3
<1> HIDE DEF t
<1>5. /\ \A d : d # c => \A n \in 1 .. Len(t) : ~About(t[n], d)
      /\ \A n \in 1 .. Len(t) : t[n].run # "handle_next_command"
      /\ 1 \in 1 .. Len(t) /\ Decides(t[1], c) /\ t[1].run = "unregister_client"
      /\ \A n \in 1 .. Len(t) : Decides(t[n], c) => t[n].run = t[1].run
      /\ ~WillAck(t, c) /\ WillEnd(t, c) /\ WillLeave(t, c)
  BY <1>1, <1>2 DEF About, Decides, Acks, Ends, Removes, WillAck, WillEnd, WillLeave
<1>6. Registers(s \o t, Len(s \o t), c, records1[c].registered, clients[c] # "unregistered")
  <2>1. records1[c].registered <=> t[1].run = "register_client"
    BY <1>5
  <2> QED
    BY <1>2, <1>3, <1>5, <2>1, RegistersLast
<1>7. Fresh(s \o t, c, records1[c].paused)
  BY <1>2, <1>3, <1>5, FreshJoined DEF AgreesWith
<1>8. Answers(s \o t, c, clients[c], records1[c].paused, c = LeImpl /\ disarming)
  BY <1>2, <1>3, <1>5, WillJoined DEF Answers
<1>9. AgreesWith(s \o t, c, records1[c], clients[c], c = LeImpl /\ disarming)
  BY <1>6, <1>7, <1>8 DEF AgreesWith
<1>10. AgreesAll(records1, disarming, clients, s \o t)
  BY <1>2, <1>5, <1>9, OneAgrees
<1> QED
  BY <1>4, <1>10 DEF task

\* A closure of the manager or of le_impl itself.
LEMMA PlainTask ==
  ASSUME NEW run \in OtherRuns
  PROVE  [run |-> run] \in Task /\ [run |-> run].run = run /\ run \notin ClientRuns
BY DEF Task, OtherRuns, ClientRuns

\* What is left to show of a step in which no assertion fails.
LEMMA StepAgrees ==
  ASSUME fate = "alive", fate' = fate,
         AgreesAll(client', le_impl'.disarming, registered_clients_', tasks')
  PROVE  Sound'
BY AgreementOfAll DEF Sound, AssertOnlyWhenPaused, Agreement, Waiting, AgreesAll, Cancelling

\* The state before a step.
LEMMA BeforeAgrees ==
  ASSUME Inv, Sound
  PROVE  /\ AgreesAll(client, le_impl.disarming, registered_clients_, tasks)
         /\ tasks \in Seq(Task) /\ UsersOK /\ LeImpl \in Clients
         /\ \A c \in Clients : client[c] \in ClientRecord /\ client[c].registered \in BOOLEAN
BY AgreementOfAll
   DEF Inv, TypeOK, Sound, Agreement, Waiting, AgreesAll, Cancelling, UsersOK, Clients, ClientRecord

\* The alarm, the controller's answers and requests that concern the manager only.
LEMMA ManagerStepsAgree ==
  ASSUME Inv, Sound,
         \/ prepare_to_rotate \/ ControllerCompletes \/ OnCommandComplete
         \/ ClearResolvingList \/ UpdateIrk
  PROVE  Sound'
<1>1. /\ AgreesAll(client, le_impl.disarming, registered_clients_, tasks)
      /\ tasks \in Seq(Task) /\ UsersOK
      /\ registered_clients_ \in [Clients -> ClientStates]
  BY BeforeAgrees DEF Inv, TypeOK, ClientStates
<1>2. fate = "alive"
  BY DEF prepare_to_rotate, ControllerCompletes, OnCommandComplete, ClearResolvingList,
         UpdateIrk, Begins, Runs
<1>3. CASE prepare_to_rotate
  <2> DEFINE told == {c \in Registered(registered_clients_) :
                        registered_clients_[c] \in {"WAITING_FOR_RESUME", "RESUMED"}}
  <2>1. /\ registered_clients_' = [c \in Clients |->
             IF c \in told THEN "WAITING_FOR_PAUSE" ELSE registered_clients_[c]]
        /\ OnPause(told, tasks) /\ fate' = fate
    BY <1>3 DEF prepare_to_rotate
  <2>2. told \in SUBSET Clients /\ \A c \in told : registered_clients_[c] # "unregistered"
    BY DEF Registered
  <2> HIDE DEF told
  <2>3. registered_clients_' = [c \in Clients |->
          IF c \in told /\ registered_clients_[c] # "unregistered"
          THEN "WAITING_FOR_PAUSE" ELSE registered_clients_[c]]
    BY <2>1, <2>2
  <2>4. Waiting(registered_clients_, tasks)
    BY DEF Sound, Agreement
  <2>5. Agreement'
    BY <1>1, <2>1, <2>2, <2>3, <2>4, OnPauseAgrees
  <2> QED
    BY <1>2, <2>1, <2>5 DEF Sound, AssertOnlyWhenPaused
<1>4. CASE ControllerCompletes
  <2> DEFINE task == [run |-> "OnCommandComplete", type |-> Head(hci).type,
                      success |-> Head(hci).allowed]
  <2>1. /\ tasks' = Append(tasks, task) /\ UNCHANGED <<registered_clients_, client, le_impl, fate>>
        /\ hci # <<>>
    BY <1>4 DEF ControllerCompletes, manager, users
  <2>2. Head(hci) \in HciCommands
    BY <2>1, HeadTailProperties DEF Inv, AddressesGenerated
  <2>3. task \in Task /\ task.run = "OnCommandComplete"
    BY <2>2 DEF HciCommands, Task
  <2>4. "OnCommandComplete" \notin ClientRuns /\ "OnCommandComplete" # "handle_next_command"
    BY DEF ClientRuns
  <2> HIDE DEF task
  <2>5. AgreesAll(client, le_impl.disarming, registered_clients_, tasks')
    BY <1>1, <2>1, <2>3, <2>4, OtherPosted
  <2> QED
    BY <1>2, <2>1, <2>5, StepAgrees
<1>5. CASE OnCommandComplete
  <2> DEFINE task == [run |-> "check_cached_commands"]
  <2>1. /\ tasks' = Append(Tail(tasks), task)
        /\ UNCHANGED <<registered_clients_, client, le_impl, fate>>
        /\ tasks # <<>> /\ Head(tasks).run \notin ClientRuns
    BY <1>5 DEF OnCommandComplete, manager, users, Runs, ClientRuns
  <2>2. AgreesAll(client, le_impl.disarming, registered_clients_, Tail(tasks))
    BY <2>1, ShiftedAgrees, AgreementOfAll DEF Sound
  <2>3. task \in Task /\ task.run \notin ClientRuns /\ task.run # "handle_next_command"
    BY PlainTask DEF OtherRuns
  <2> HIDE DEF task
  <2>4. AgreesAll(client, le_impl.disarming, registered_clients_, tasks')
    BY <2>1, <2>2, <2>3, OtherPosted
  <2> QED
    BY <1>2, <2>1, <2>4, StepAgrees
<1>6. CASE ClearResolvingList
  <2> DEFINE task == [run |-> "pause_registered_clients"]
  <2>1. tasks' = Append(tasks, task) /\ UNCHANGED <<registered_clients_, client, le_impl, fate>>
    BY <1>6 DEF ClearResolvingList, users
  <2>2. task \in Task /\ task.run \notin ClientRuns /\ task.run # "handle_next_command"
    BY PlainTask DEF OtherRuns
  <2> HIDE DEF task
  <2>3. AgreesAll(client, le_impl.disarming, registered_clients_, tasks')
    BY <1>1, <2>1, <2>2, OtherPosted
  <2> QED
    BY <1>2, <2>1, <2>3, StepAgrees
<1>7. CASE UpdateIrk
  <2> DEFINE task == [run |-> "prepare_to_update_irk"]
  <2>1. tasks' = Append(tasks, task) /\ UNCHANGED <<registered_clients_, client, le_impl, fate>>
    BY <1>7 DEF UpdateIrk, manager, users
  <2>2. task \in Task /\ task.run \notin ClientRuns /\ task.run # "handle_next_command"
    BY PlainTask DEF OtherRuns
  <2> HIDE DEF task
  <2>3. AgreesAll(client, le_impl.disarming, registered_clients_, tasks')
    BY <1>1, <2>1, <2>2, OtherPosted
  <2> QED
    BY <1>2, <2>1, <2>3, StepAgrees
<1> QED
  BY <1>3, <1>4, <1>5, <1>6, <1>7

\* Scans start and stop.
LEMMA ScannersAgree ==
  ASSUME Inv, Sound, NEW c \in Scanners, StartScan(c) \/ StopScan(c)
  PROVE  Sound'
<1>1. /\ AgreesAll(client, le_impl.disarming, registered_clients_, tasks)
      /\ client \in [Clients -> ClientRecord] /\ c \in Clients
      /\ client[c] \in ClientRecord /\ client[c].registered \in BOOLEAN
  BY BeforeAgrees DEF UsersOK, Clients
<1>2. fate = "alive" /\ UNCHANGED <<registered_clients_, le_impl, fate>>
  BY DEF StartScan, StopScan, manager
<1>3. CASE StartScan(c) /\ client[c].registered /\ client[c].paused
  <2>1. client' = [client EXCEPT ![c].on_resume = TRUE] /\ tasks' = tasks
    BY <1>3 DEF StartScan
  <2>2. /\ \A d \in Clients : d # c => client'[d] = client[d]
        /\ client'[c].registered = client[c].registered /\ client'[c].paused = client[c].paused
    BY <1>1, <2>1 DEF ClientRecord
  <2>3. AgreesAll(client', le_impl.disarming, registered_clients_, tasks)
    BY <1>1, <2>2, OneStill
  <2> QED
    BY <1>2, <2>1, <2>3, StepAgrees
<1>4. CASE StartScan(c) /\ ~(client[c].registered /\ client[c].paused)
  <2>1. /\ client' = [client EXCEPT ![c].registered = TRUE, ![c].active = TRUE,
                                    ![c].on_resume = FALSE]
        /\ tasks' = tasks \o Registration(c)
    BY <1>4 DEF StartScan
  <2>2. /\ \A d \in Clients : d # c => client'[d] = client[d]
        /\ client'[c].registered = TRUE /\ client'[c].paused = client[c].paused
    BY <1>1, <2>1 DEF ClientRecord
  <2>3. Registration(c) = RegistrationUnless(client[c].registered, c)
    BY DEF Registration, RegistrationUnless
  <2>4. Enters(client[c], client'[c])
    BY <1>1, <2>2 DEF Enters
  <2>5. AgreesAll(client', le_impl.disarming, registered_clients_,
                  tasks \o RegistrationUnless(client[c].registered, c))
    BY <1>1, <2>2, <2>4, OneRegisters
  <2> QED
    BY <1>2, <2>1, <2>3, <2>5, StepAgrees
<1>5. CASE StopScan(c)
  <2>1. /\ client' = [client EXCEPT ![c] =
             [registered |-> FALSE, paused |-> FALSE, on_resume |-> FALSE, active |-> FALSE]]
        /\ tasks' = Append(tasks, [run |-> "unregister_client", client |-> c])
    BY <1>5 DEF StopScan
  <2>2. /\ \A d \in Clients : d # c => client'[d] = client[d]
        /\ client'[c].registered = FALSE
    BY <1>1, <2>1
  <2>3. AgreesAll(client', le_impl.disarming, registered_clients_, tasks')
    BY <1>1, <2>1, <2>2, OneLeaves
  <2> QED
    BY <1>2, <2>1, <2>3, StepAgrees
<1> QED
  BY <1>3, <1>4, <1>5

\* le_impl registers, if need be, with the record it has after that.
LEMMA LeImplRegisters ==
  ASSUME UsersOK, NEW disarming, NEW clients, NEW s,
         NEW records, AgreesAll(records, disarming, clients, s),
         records[LeImpl].registered = client[LeImpl].registered,
         NEW records1, \A d \in Clients : d # LeImpl => records1[d] = records[d],
         records1[LeImpl].registered = TRUE,
         records[LeImpl].paused => records1[LeImpl].paused
  PROVE  AgreesAll(records1, disarming, clients, s \o Registration(LeImpl))
<1>1. LeImpl \in Clients /\ records[LeImpl].registered \in BOOLEAN
  BY DEF Clients, UsersOK, ClientRecord
<1>2. Registration(LeImpl) = RegistrationUnless(records[LeImpl].registered, LeImpl)
  BY DEF Registration, RegistrationUnless
<1>3. Enters(records[LeImpl], records1[LeImpl])
  BY <1>1 DEF Enters
<1>4. AgreesAll(records1, disarming, clients,
                s \o RegistrationUnless(records[LeImpl].registered, LeImpl))
  BY <1>1, <1>3, OneRegisters
<1> QED
  BY <1>2, <1>4

\* register_with_address_manager
LEMMA RegisteringFacts ==
  ASSUME NEW record \in ClientRecord
  PROVE  Registering(record).registered = TRUE /\ (record.paused => Registering(record).paused)
BY DEF Registering, ClientRecord

\* le_impl changes the accept list.
LEMMA AcceptListAgrees ==
  ASSUME Inv, Sound, Connect \/ CancelConnect \/ ClearAcceptList
  PROVE  Sound'
<1>1. /\ AgreesAll(client, le_impl.disarming, registered_clients_, tasks)
      /\ UsersOK /\ LeImpl \in Clients /\ client[LeImpl] \in ClientRecord
  BY BeforeAgrees
<1> DEFINE task == [run |-> "push_command"]
<1>2. /\ fate = "alive" /\ UNCHANGED <<registered_clients_, fate>>
      /\ tasks' = Append(tasks \o Registration(LeImpl), task)
  BY DEF Connect, CancelConnect, ClearAcceptList, Begins, manager
<1>3. /\ \A d \in Clients : d # LeImpl => client'[d] = client[d]
      /\ client'[LeImpl].registered = TRUE
      /\ client[LeImpl].paused => client'[LeImpl].paused
  <2> DEFINE record == Registering(client[LeImpl])
  <2>1. record \in ClientRecord /\ record.registered = TRUE /\ (client[LeImpl].paused => record.paused)
    BY <1>1, RegisteringFacts, RegisteringType
  <2>2. CASE Connect
    <3> DEFINE b == record.on_resume \/ record.paused \/ ~record.active \/ le_impl.disarming
    <3>1. client' = [client EXCEPT ![LeImpl] = [record EXCEPT !.on_resume = b]]
      BY <1>1, <2>2 DEF Connect, UsersOK
    <3> HIDE DEF record, b
    <3>2. /\ [record EXCEPT !.on_resume = b].registered = record.registered
          /\ [record EXCEPT !.on_resume = b].paused = record.paused
      BY <2>1 DEF ClientRecord
    <3>3. client'[LeImpl] = [record EXCEPT !.on_resume = b]
          /\ \A d \in Clients : d # LeImpl => client'[d] = client[d]
      BY <1>1, <3>1 DEF UsersOK
    <3> QED
      BY <2>1, <3>2, <3>3
  <2>3. CASE CancelConnect \/ ClearAcceptList
    <3>1. client' = [client EXCEPT ![LeImpl] = record]
      BY <1>1, <2>3 DEF CancelConnect, ClearAcceptList, UsersOK
    <3> HIDE DEF record
    <3> QED
      BY <1>1, <2>1, <3>1 DEF UsersOK
  <2> QED
    BY <2>2, <2>3
<1>4. le_impl'.disarming = le_impl.disarming
  <2>1. le_impl \in LeImplRecord
    BY <1>1 DEF UsersOK
  <2>2. CASE Connect
    BY <2>1, <2>2 DEF Connect, LeImplRecord
  <2>3. CASE ClearAcceptList
    BY <2>1, <2>3 DEF ClearAcceptList, LeImplRecord
  <2>4. CASE CancelConnect
    <3> DEFINE before == [le_impl EXCEPT !.removed = client[LeImpl].active]
    <3>1. before \in LeImplRecord /\ before.disarming = le_impl.disarming
      BY <1>1, <2>1 DEF LeImplRecord, ClientRecord
    <3>2. RemoveDevice(before)
      BY <2>4 DEF CancelConnect
    <3> HIDE DEF before
    <3>3. PICK b : le_impl' = [before EXCEPT !.devices = @ - 1, !.connecting = b]
      BY <3>2 DEF RemoveDevice
    <3> QED
      BY <3>1, <3>3 DEF LeImplRecord
  <2> QED
    BY <2>2, <2>3, <2>4
<1>5. AgreesAll(client', le_impl.disarming, registered_clients_, tasks \o Registration(LeImpl))
  BY <1>1, <1>3, LeImplRegisters
<1>6. task \in Task /\ task.run \notin ClientRuns /\ task.run # "handle_next_command"
  BY PlainTask DEF OtherRuns
<1> HIDE DEF task
<1>7. AgreesAll(client', le_impl.disarming, registered_clients_, tasks')
  BY <1>2, <1>5, <1>6, OtherPosted
<1> QED
  BY <1>2, <1>4, <1>7, StepAgrees

\* le_impl changes the resolving list: it is registered before handle_next_command runs.
LEMMA ResolvingListAgrees ==
  ASSUME Inv, Sound, NEW commands, ChangeResolvingList(commands)
  PROVE  Sound'
<1>1. /\ AgreesAll(client, le_impl.disarming, registered_clients_, tasks)
      /\ UsersOK /\ LeImpl \in Clients /\ client[LeImpl] \in ClientRecord
  BY BeforeAgrees
<1> DEFINE s == tasks \o Registration(LeImpl)
           known == registered_clients_[LeImpl] # "unregistered"
<1>2. /\ fate = "alive" /\ UNCHANGED <<registered_clients_, le_impl, fate>>
      /\ client' = [client EXCEPT ![LeImpl] = Registering(client[LeImpl])]
      /\ \E run \in {"handle_next_command", "pause_registered_clients"} :
           tasks' = s \o <<[run |-> run]>>
  BY <1>1 DEF ChangeResolvingList, Begins, UsersOK
<1>3. /\ \A d \in Clients : d # LeImpl => client'[d] = client[d]
      /\ client'[LeImpl].registered = TRUE
      /\ client[LeImpl].paused => client'[LeImpl].paused
  <2>1. client'[LeImpl] = Registering(client[LeImpl])
        /\ \A d \in Clients : d # LeImpl => client'[d] = client[d]
    BY <1>1, <1>2 DEF UsersOK
  <2> QED
    BY <1>1, <2>1, RegisteringFacts
<1>4. AgreesAll(client', le_impl.disarming, registered_clients_, s)
  BY <1>1, <1>3, LeImplRegisters
<1>5. PICK run \in {"handle_next_command", "pause_registered_clients"} :
        tasks' = s \o <<[run |-> run]>>
  BY <1>2
<1> DEFINE task == [run |-> run]
<1>6. task \in Task /\ task.run = run /\ run \notin ClientRuns
  BY PlainTask DEF OtherRuns
<1> HIDE DEF task, s
<1>7. s \in Seq(Task) /\ tasks' = Append(s, task) /\ tasks' = s \o <<task>>
  <2>1. s \in Seq(Task)
    BY <1>4 DEF AgreesAll
  <2> QED
    BY <1>5, <1>6, <2>1 DEF task
<1>8. CASE run = "pause_registered_clients"
  <2>1. AgreesAll(client', le_impl.disarming, registered_clients_, tasks')
    BY <1>4, <1>6, <1>7, <1>8, OtherPosted
  <2> QED
    BY <1>2, <2>1, StepAgrees
<1>9. CASE run = "handle_next_command"
  <2>1. HandlesFor(tasks', known)
    <3>1. HandlesFor(s, known) /\ Registers(s, Len(s), LeImpl, TRUE, known)
      BY <1>1, <1>3, <1>4 DEF AgreesAll, AgreesWith
    <3> QED
      BY <1>6, <1>7, <3>1, HandlesPosted
  <2> DEFINE t == <<task>>
  <2>2. t \in Seq(Task) /\ Len(t) = 1 /\ t[1] = task
    BY <1>6
  <2>3. tasks' = s \o t /\ tasks' \in Seq(Task)
    BY <1>7, <2>2, Joined
  <2> HIDE DEF t
  <2>4. \A c : \A n \in 1 .. Len(t) : ~About(t[n], c)
    BY <1>6, <2>2 DEF About
  <2>5. \A c \in Clients :
          AgreesWith(tasks', c, client'[c], registered_clients_[c], c = LeImpl /\ le_impl.disarming)
    BY <1>4, <1>7, <2>2, <2>3, <2>4, AgreesJoined DEF AgreesAll
  <2>6. AgreesAll(client', le_impl.disarming, registered_clients_, tasks')
    BY <2>1, <2>3, <2>5 DEF AgreesAll
  <2> QED
    BY <1>2, <2>6, StepAgrees
<1> QED
  BY <1>5, <1>8, <1>9

\* A new attempt is created: le_impl registers, if need be, and may post arm_connectability.
LEMMA CreateAgrees ==
  ASSUME UsersOK, NEW clients, NEW s, NEW disarming,
         NEW before \in ClientRecord, before.registered = client[LeImpl].registered,
         NEW records, records = [client EXCEPT ![LeImpl] = before],
         AgreesAll(records, disarming, clients, s),
         create_le_connection(before, s)
  PROVE  AgreesAll(client', disarming, clients, tasks')
<1> DEFINE record == [before EXCEPT
             !.registered = TRUE, !.paused = @ \/ (~before.registered /\ RotatingAddress)]
           b == record.on_resume \/ record.paused
           waits == record.active /\ ~le_impl.disarming
           arm == [run |-> "arm_connectability"]
<1>1. /\ client' = [client EXCEPT ![LeImpl] = [record EXCEPT !.on_resume = b]]
      /\ tasks' = s \o Registration(LeImpl)
                    \o (IF record.paused \/ waits THEN <<>> ELSE <<arm>>)
  BY DEF create_le_connection
<1>2. /\ [record EXCEPT !.on_resume = b].registered = TRUE
      /\ before.paused => [record EXCEPT !.on_resume = b].paused
  BY DEF ClientRecord
<1> HIDE DEF record, b
<1>3. LeImpl \in Clients /\ client \in [Clients -> ClientRecord]
  BY DEF Clients, UsersOK
<1>4. /\ \A d \in Clients : d # LeImpl => client'[d] = records[d]
      /\ client'[LeImpl].registered = TRUE
      /\ records[LeImpl] = before
      /\ records[LeImpl].paused => client'[LeImpl].paused
  BY <1>1, <1>2, <1>3
<1>5. AgreesAll(client', disarming, clients, s \o Registration(LeImpl))
  BY <1>4, LeImplRegisters
<1>6. arm \in Task /\ arm.run \notin ClientRuns /\ arm.run # "handle_next_command"
  BY PlainTask DEF OtherRuns
<1> HIDE DEF arm, waits
<1> DEFINE r == s \o Registration(LeImpl)
<1>7. r \in Seq(Task)
  BY <1>5 DEF AgreesAll
<1> HIDE DEF r
<1>8. CASE record.paused \/ waits
  <2>1. tasks' = r
    BY <1>1, <1>7, <1>8 DEF r
  <2> QED
    BY <1>5, <2>1 DEF r
<1>9. CASE ~(record.paused \/ waits)
  <2>1. tasks' = r \o <<arm>>
    BY <1>1, <1>9 DEF r
  <2> QED
    BY <1>5, <1>6, <2>1, OtherPosted DEF r
<1> QED
  BY <1>8, <1>9

\* le_impl's own closures and the timeout of an attempt.
LEMMA LeImplRunsAgree ==
  ASSUME Inv, Sound,
         RunCreateLeConnection \/ arm_connectability \/ ConnectTimeout \/ ConnectAgain
  PROVE  Sound'
<1>1. /\ AgreesAll(client, le_impl.disarming, registered_clients_, tasks)
      /\ UsersOK /\ LeImpl \in Clients /\ client[LeImpl] \in ClientRecord
      /\ client \in [Clients -> ClientRecord] /\ le_impl \in LeImplRecord
  BY BeforeAgrees DEF UsersOK
<1>2. fate = "alive" /\ UNCHANGED <<registered_clients_, fate>>
  BY DEF RunCreateLeConnection, arm_connectability, ConnectTimeout, ConnectAgain, Runs, Begins,
         manager
<1>3. CASE RunCreateLeConnection
  <2>1. /\ tasks # <<>> /\ Head(tasks).run \notin ClientRuns /\ le_impl' = le_impl
        /\ create_le_connection(client[LeImpl], Tail(tasks))
    BY <1>3 DEF RunCreateLeConnection, Runs, ClientRuns
  <2>2. AgreesAll(client, le_impl.disarming, registered_clients_, Tail(tasks))
    BY <2>1, ShiftedAgrees, AgreementOfAll DEF Sound
  <2>3. client = [client EXCEPT ![LeImpl] = client[LeImpl]]
    BY <1>1
  <2>4. AgreesAll(client', le_impl.disarming, registered_clients_, tasks')
    BY <1>1, <2>1, <2>2, <2>3, CreateAgrees
  <2> QED
    BY <1>2, <2>1, <2>4, StepAgrees
<1>4. CASE arm_connectability
  <2>1. /\ tasks # <<>> /\ Head(tasks).run \notin ClientRuns /\ tasks' = Tail(tasks)
        /\ client' = [client EXCEPT ![LeImpl].active = @ \/ CanArm]
        /\ le_impl' = Arming(le_impl, CanArm)
    BY <1>4 DEF arm_connectability, Runs, ClientRuns
  <2>2. AgreesAll(client, le_impl.disarming, registered_clients_, Tail(tasks))
    BY <2>1, ShiftedAgrees, AgreementOfAll DEF Sound
  <2>3. /\ \A d \in Clients : d # LeImpl => client'[d] = client[d]
        /\ client'[LeImpl].registered = client[LeImpl].registered
        /\ client'[LeImpl].paused = client[LeImpl].paused
    BY <1>1, <2>1 DEF ClientRecord
  <2>5. le_impl'.disarming = le_impl.disarming
    BY <1>1, <2>1, ArmingType DEF CanArm
  <2>4. AgreesAll(client', le_impl.disarming, registered_clients_, Tail(tasks))
    BY <1>1, <2>2, <2>3, OneStill
  <2> QED
    BY <1>2, <2>1, <2>4, <2>5, StepAgrees
<1>5. CASE ConnectTimeout
  <2>1. tasks' = tasks /\ client' = client /\ le_impl'.disarming = TRUE
    BY <1>1, <1>5 DEF ConnectTimeout, LeImplRecord
  <2>2. AgreesAll(client', TRUE, registered_clients_, tasks')
    BY <1>1, <2>1, OneStill
  <2> QED
    BY <1>2, <2>1, <2>2, StepAgrees
<1>6. CASE ConnectAgain
  <2>1. tasks' = tasks \o Registration(LeImpl)
    BY <1>6 DEF ConnectAgain
  <2>2. /\ \A d \in Clients : d # LeImpl => client'[d] = client[d]
        /\ client'[LeImpl].registered = TRUE
        /\ client[LeImpl].paused => client'[LeImpl].paused
        /\ le_impl.disarming => le_impl'.disarming
    BY <1>1, <1>6, ConnectAgainFacts
  <2>3. AgreesAll(client', le_impl.disarming, registered_clients_, tasks')
    BY <1>1, <2>1, <2>2, LeImplRegisters
  <2>4. AgreesAll(client', le_impl'.disarming, registered_clients_, tasks')
    BY <1>1, <2>2, <2>3, OneStill
  <2> QED
    BY <1>2, <2>4, StepAgrees
<1> QED
  BY <1>3, <1>4, <1>5, <1>6

\* An attempt is cancelled, a cancel came too late, or the controller refuses to begin.
LEMMA CancelsAgree ==
  ASSUME Inv, Sound, Cancels \/ arm_failed
  PROVE  Sound'
<1>1. /\ AgreesAll(client, le_impl.disarming, registered_clients_, tasks)
      /\ UsersOK /\ LeImpl \in Clients /\ client[LeImpl] \in ClientRecord
      /\ client \in [Clients -> ClientRecord] /\ le_impl \in LeImplRecord
  BY BeforeAgrees DEF UsersOK
<1>2. fate = "alive" /\ UNCHANGED <<registered_clients_, fate>>
  BY DEF Cancels, on_le_connection_canceled, on_create_connection_cancel_complete, arm_failed,
         manager
<1> DEFINE acks(records) == Calls("ack_pause", {c \in {LeImpl} : records[c].paused})
<1>3. CASE on_create_connection_cancel_complete
  <2>1. tasks' = tasks \o acks(client) /\ client' = client /\ le_impl' = le_impl
    BY <1>3 DEF on_create_connection_cancel_complete, users
  <2>2. AgreesAll(client, le_impl.disarming, registered_clients_, tasks \o acks(client))
    BY <1>1, LeImplAcks
  <2> QED
    BY <1>2, <2>1, <2>2, StepAgrees
<1>4. CASE on_le_connection_canceled /\ client[LeImpl].paused
  <2>1. /\ client' = [client EXCEPT ![LeImpl].active = FALSE, ![LeImpl].on_resume = TRUE]
        /\ le_impl' = [le_impl EXCEPT !.disarming = FALSE, !.removed = FALSE]
        /\ tasks' = tasks \o Calls("ack_pause", {LeImpl}) \o Calls("ack_pause", {LeImpl})
    BY <1>4 DEF on_le_connection_canceled
  <2>2. /\ \A d \in Clients : d # LeImpl => client'[d] = client[d]
        /\ client'[LeImpl].registered = client[LeImpl].registered
        /\ client'[LeImpl].paused = client[LeImpl].paused
        /\ le_impl'.disarming = FALSE
    BY <1>1, <2>1 DEF ClientRecord, LeImplRecord
  <2>3. {c \in {LeImpl} : client[c].paused} = {LeImpl}
    BY <1>4
  <2>4. AgreesAll(client, FALSE, registered_clients_, tasks \o Calls("ack_pause", {LeImpl}))
    BY <1>1, <2>3, LeImplAcks
  <2>5. AgreesAll(client', FALSE, registered_clients_,
                  (tasks \o Calls("ack_pause", {LeImpl})) \o Calls("ack_pause", {LeImpl}))
    BY <2>2, <2>3, <2>4, LeImplAcks
  <2> QED
    BY <1>2, <2>1, <2>2, <2>5, StepAgrees
<1>6. CASE on_le_connection_canceled /\ ~client[LeImpl].paused /\ le_impl.again
  <2> DEFINE before == [le_impl EXCEPT !.disarming = FALSE, !.again = FALSE]
  <2>1. /\ client' = [client EXCEPT ![LeImpl].active = (le_impl.devices > 0)]
        /\ le_impl' = Arming(before, le_impl.devices > 0)
        /\ tasks' = tasks
    BY <1>6 DEF on_le_connection_canceled
  <2>2. before \in LeImplRecord /\ before.disarming = FALSE
    BY <1>1 DEF LeImplRecord
  <2> HIDE DEF before
  <2>3. le_impl'.disarming = FALSE
    BY <2>1, <2>2 DEF Arming, LeImplRecord
  <2>4. /\ \A d \in Clients : d # LeImpl => client'[d] = client[d]
        /\ client'[LeImpl].registered = client[LeImpl].registered
        /\ client'[LeImpl].paused = client[LeImpl].paused
    BY <1>1, <2>1 DEF ClientRecord
  <2>5. AgreesAll(client', FALSE, registered_clients_, tasks)
    BY <1>1, <1>6, <2>4, OneStill
  <2> QED
    BY <1>2, <2>1, <2>3, <2>5, StepAgrees
<1>7. CASE arm_failed
  <2>1. /\ client' = [client EXCEPT ![LeImpl].active = FALSE]
        /\ le_impl' = [le_impl EXCEPT !.disarming = FALSE]
        /\ tasks' = tasks \o acks(client)
    BY <1>7 DEF arm_failed
  <2>2. /\ \A d \in Clients : d # LeImpl => client'[d] = client[d]
        /\ client'[LeImpl].registered = client[LeImpl].registered
        /\ client'[LeImpl].paused = client[LeImpl].paused
        /\ le_impl'.disarming = FALSE
    BY <1>1, <2>1 DEF ClientRecord, LeImplRecord
  <2>3. AgreesAll(client', FALSE, registered_clients_, tasks \o acks(client))
    BY <1>1, <2>2, LeImplAcks
  <2> QED
    BY <1>2, <2>1, <2>2, <2>3, StepAgrees
<1>5. CASE on_le_connection_canceled /\ ~client[LeImpl].paused /\ ~le_impl.again
  <2> DEFINE before == [client[LeImpl] EXCEPT !.active = FALSE]
             records == [client EXCEPT ![LeImpl] = before]
  <2>1. /\ le_impl' = [le_impl EXCEPT !.disarming = FALSE, !.removed = FALSE,
                                      !.connecting = FALSE, !.kept = FALSE]
        /\ create_le_connection(before, tasks)
    BY <1>5 DEF on_le_connection_canceled
  <2>2. /\ before \in ClientRecord /\ before.registered = client[LeImpl].registered
        /\ before.paused = client[LeImpl].paused /\ le_impl'.disarming = FALSE
    BY <1>1, <2>1 DEF ClientRecord, LeImplRecord
  <2> HIDE DEF before
  <2>3. records[LeImpl] = before /\ \A d \in Clients : d # LeImpl => records[d] = client[d]
    BY <1>1
  <2> HIDE DEF records
  <2>4. AgreesAll(records, FALSE, registered_clients_, tasks)
    BY <1>1, <1>5, <2>2, <2>3, OneStill
  <2>5. AgreesAll(client', FALSE, registered_clients_, tasks')
    BY <1>1, <2>1, <2>2, <2>4, CreateAgrees DEF records
  <2> QED
    BY <1>2, <2>2, <2>5, StepAgrees
<1> QED
  BY <1>3, <1>4, <1>5, <1>6, <1>7 DEF Cancels

\* An attempt succeeds or fails.
LEMMA CompleteAgrees ==
  ASSUME Inv, Sound, on_le_connection_complete
  PROVE  Sound'
<1>1. /\ AgreesAll(client, le_impl.disarming, registered_clients_, tasks)
      /\ UsersOK /\ LeImpl \in Clients /\ client[LeImpl] \in ClientRecord
      /\ client \in [Clients -> ClientRecord] /\ le_impl \in LeImplRecord
  BY BeforeAgrees DEF UsersOK
<1>2. fate = "alive" /\ UNCHANGED <<registered_clients_, fate>>
  BY DEF on_le_connection_complete, manager
<1> DEFINE record == [le_impl EXCEPT !.connecting = FALSE, !.kept = FALSE, !.removed = FALSE,
                        !.disarming = FALSE, !.ready = TRUE]
           disarmed == [client[LeImpl] EXCEPT !.active = FALSE, !.on_resume = FALSE]
           acknowledged == tasks \o Calls("ack_pause", {c \in {LeImpl} : client[c].paused})
           create == [run |-> "create_le_connection"]
           push == [run |-> "push_command"]
           others == IF le_impl'.devices > 0 THEN <<create>> ELSE <<>>
           records == [client EXCEPT ![LeImpl] = disarmed]
<1>3. \/ /\ RemoveDevice(record)
         /\ client' = [client EXCEPT ![LeImpl] = Registering(disarmed)]
         /\ tasks' = acknowledged \o Registration(LeImpl) \o <<push>> \o others
      \/ /\ le_impl' = record
         /\ client' = [client EXCEPT ![LeImpl] = disarmed]
         /\ tasks' = acknowledged \o others
  BY DEF on_le_connection_complete
<1>4. /\ disarmed \in ClientRecord /\ disarmed.registered = client[LeImpl].registered
      /\ disarmed.paused = client[LeImpl].paused
      /\ record \in LeImplRecord /\ record.disarming = FALSE
  BY <1>1 DEF ClientRecord, LeImplRecord
<1>5. /\ create \in Task /\ create.run \notin ClientRuns /\ create.run # "handle_next_command"
      /\ push \in Task /\ push.run \notin ClientRuns /\ push.run # "handle_next_command"
  BY PlainTask DEF OtherRuns
<1> HIDE DEF record, disarmed, create, push
<1>6. records[LeImpl] = disarmed /\ \A d \in Clients : d # LeImpl => records[d] = client[d]
  BY <1>1
<1> HIDE DEF records
<1>7. AgreesAll(records, FALSE, registered_clients_, acknowledged)
  BY <1>1, <1>4, <1>6, LeImplAcks
<1> HIDE DEF acknowledged
<1>8. ASSUME NEW recs, NEW s, AgreesAll(recs, FALSE, registered_clients_, s)
      PROVE  AgreesAll(recs, FALSE, registered_clients_, s \o others)
  <2>1. s \in Seq(Task)
    BY <1>8 DEF AgreesAll
  <2>2. CASE le_impl'.devices > 0
    BY <1>5, <1>8, <2>2, OtherPosted
  <2>3. CASE ~(le_impl'.devices > 0)
    <3>1. s \o others = s
      BY <2>1, <2>3
    <3> QED
      BY <1>8, <3>1
  <2> QED
    BY <2>2, <2>3
<1> HIDE DEF others
<1>9. CASE /\ RemoveDevice(record)
           /\ client' = [client EXCEPT ![LeImpl] = Registering(disarmed)]
           /\ tasks' = acknowledged \o Registration(LeImpl) \o <<push>> \o others
  <2>1. le_impl'.disarming = FALSE
    <3>1. PICK b : le_impl' = [record EXCEPT !.devices = @ - 1, !.connecting = b]
      BY <1>9 DEF RemoveDevice
    <3> QED
      BY <1>4, <3>1 DEF LeImplRecord
  <2>2. /\ \A d \in Clients : d # LeImpl => client'[d] = records[d]
        /\ client'[LeImpl] = Registering(disarmed)
    BY <1>1, <1>6, <1>9
  <2>3. /\ client'[LeImpl].registered = TRUE
        /\ records[LeImpl].paused => client'[LeImpl].paused
        /\ records[LeImpl].registered = client[LeImpl].registered
    BY <1>4, <1>6, <2>2, RegisteringFacts
  <2>4. AgreesAll(client', FALSE, registered_clients_, acknowledged \o Registration(LeImpl))
    BY <1>1, <1>7, <2>2, <2>3, LeImplRegisters
  <2>5. AgreesAll(client', FALSE, registered_clients_, acknowledged \o Registration(LeImpl) \o <<push>>)
    BY <1>5, <2>4, OtherPosted
  <2>6. AgreesAll(client', FALSE, registered_clients_, tasks')
    BY <1>8, <1>9, <2>5
  <2> QED
    BY <1>2, <2>1, <2>6, StepAgrees
<1>10. CASE /\ le_impl' = record
            /\ client' = [client EXCEPT ![LeImpl] = disarmed]
            /\ tasks' = acknowledged \o others
  <2>1. AgreesAll(client', FALSE, registered_clients_, tasks')
    BY <1>7, <1>8, <1>10 DEF records
  <2> QED
    BY <1>2, <1>4, <1>10, <2>1, StepAgrees
<1> QED
  BY <1>3, <1>9, <1>10

-----------------------------------------------------------------------------
(* Agreement and the assertion, for every choice of the constants *)

IInv == Inv /\ Sound

\* Nobody is registered at first and nothing about a client is posted.
LEMMA InitSound == Init => Sound
<1> SUFFICES ASSUME Init PROVE Sound
  OBVIOUS
<1>1. tasks \in Seq(Task) /\ \A n \in 1 .. Len(tasks) :
        tasks[n].run \notin ClientRuns /\ tasks[n].run # "handle_next_command"
  <2> DEFINE task == [run |-> "resume_registered_clients"]
  <2>1. task \in Task /\ task.run \notin ClientRuns /\ task.run # "handle_next_command"
    BY PlainTask DEF OtherRuns
  <2>2. tasks = <<>> \/ tasks = <<task>>
    BY DEF Init
  <2> HIDE DEF task
  <2>3. CASE tasks = <<>>
    BY <2>3
  <2>4. CASE tasks = <<task>>
    <3>1. tasks \in Seq(Task) /\ Len(tasks) = 1 /\ tasks[1] = task
      BY <2>1, <2>4
    <3>2. \A n \in 1 .. Len(tasks) : tasks[n] = task
      BY <3>1
    <3> QED
      BY <2>1, <3>1, <3>2
  <2> QED
    BY <2>2, <2>3, <2>4
<1>2. ASSUME NEW c \in Clients
      PROVE  AgreesWith(tasks, c, client[c], registered_clients_[c], Cancelling(c))
  <2>1. \A n \in 1 .. Len(tasks) : ~Decides(tasks[n], c) /\ ~Acks(tasks[n], c)
    BY <1>1 DEF Decides, Acks, ClientRuns
  <2>2. registered_clients_[c] = "unregistered" /\ client[c].registered = FALSE
    BY DEF Init
  <2> QED
    BY <2>1, <2>2 DEF AgreesWith, Registers, Fresh, Answers
<1>3. HandlesFor(tasks, registered_clients_[LeImpl] # "unregistered")
  BY <1>1 DEF HandlesFor
<1>4. fate = "alive"
  BY DEF Init
<1> QED
  BY <1>1, <1>2, <1>3, <1>4 DEF Sound, Agreement, Waiting, AssertOnlyWhenPaused

\* Every step keeps the agreement.
LEMMA NextSound == IInv /\ [Next]_vars => Sound'
<1> SUFFICES ASSUME Inv, Sound, [Next]_vars PROVE Sound'
  BY DEF IInv
<1>1. CASE Handler
  <2>1. CASE register_client \/ unregister_client \/ RunAckPause \/ ack_resume
    BY <2>1, ClientRunsAgree
  <2>2. CASE \/ push_command \/ prepare_to_update_irk \/ RunPause \/ RunResume
             \/ RunHandleNextCommand \/ RunCheckCachedCommands
    BY <2>2, ManagerRunsAgree
  <2>3. CASE OnCommandComplete
    BY <2>3, ManagerStepsAgree
  <2>4. CASE RunCreateLeConnection \/ arm_connectability
    BY <2>4, LeImplRunsAgree
  <2> QED
    BY <1>1, <2>1, <2>2, <2>3, <2>4 DEF Handler
<1>2. CASE prepare_to_rotate \/ ControllerCompletes \/ ClearResolvingList \/ UpdateIrk
  BY <1>2, ManagerStepsAgree
<1>3. CASE \E c \in Scanners : StartScan(c) \/ StopScan(c)
  BY <1>3, ScannersAgree
<1>4. CASE Connect \/ CancelConnect \/ ClearAcceptList
  BY <1>4, AcceptListAgrees
<1>5. CASE ConnectTimeout \/ ConnectAgain
  BY <1>5, LeImplRunsAgree
<1>6. CASE on_le_connection_complete
  BY <1>6, CompleteAgrees
<1>7. CASE Cancels \/ arm_failed
  BY <1>7, CancelsAgree
<1>8. CASE \E commands \in {ResolvingListCommands, AddToResolvingListCommands} :
             ChangeResolvingList(commands)
  BY <1>8, ResolvingListAgrees
<1>9. CASE UNCHANGED vars
  <2>1. UNCHANGED <<registered_clients_, tasks, client, le_impl, fate>>
    BY <1>9 DEF vars, manager, users
  <2>2. AgreesAll(client', le_impl'.disarming, registered_clients_', tasks')
    BY <2>1, BeforeAgrees
  <2>3. Agreement'
    BY <2>2 DEF Agreement, Waiting, AgreesAll, Cancelling
  <2> QED
    BY <2>1, <2>3 DEF Sound, AssertOnlyWhenPaused
<1> QED
  BY <1>1, <1>2, <1>3, <1>4, <1>5, <1>6, <1>7, <1>8, <1>9 DEF Next

\* The invariant holds in every behaviour.
LEMMA IInvHolds == Spec => []IInv
<1>1. Init => IInv
  BY InitInv, InitSound DEF IInv
<1>2. IInv /\ [Next]_vars => IInv'
  BY NextInv, NextSound DEF IInv
<1> QED
  BY <1>1, <1>2, PTL DEF Spec

\* handle_next_command fails its assertion only in the closure of a resolving list change,
\* with le_impl registered and paused, for any number of clients, operations and closures.
THEOREM AssertOnlyWhenPausedHolds == Spec => []AssertOnlyWhenPaused
<1>1. IInv => AssertOnlyWhenPaused
  BY DEF IInv, Sound
<1> QED
  BY <1>1, IInvHolds, PTL

\* When the handler has run what was posted the manager and the clients agree on who is
\* registered; unless le_impl is still cancelling nobody owes an acknowledgement, and whoever
\* the manager takes for paused is.
THEOREM ClientsAgreeHolds == Spec => []ClientsAgree
<1>1. IInv => ClientsAgree
  <2> SUFFICES ASSUME IInv, tasks = <<>> PROVE ClientsAgree
    BY DEF ClientsAgree, RegistrationAgrees, NoneOwed
  <2>1. Len(tasks) = 0
    OBVIOUS
  <2>2. ASSUME NEW c \in Clients
        PROVE  /\ client[c].registered <=> registered_clients_[c] # "unregistered"
               /\ ~le_impl.disarming =>
                    /\ registered_clients_[c] \notin {"WAITING_FOR_PAUSE", "WAITING_FOR_RESUME"}
                    /\ registered_clients_[c] = "PAUSED" => client[c].paused
    <3>1. AgreesWith(tasks, c, client[c], registered_clients_[c], Cancelling(c))
      BY DEF IInv, Sound, Agreement, Waiting
    <3>2. \A m \in 1 .. Len(tasks) : FALSE
      BY <2>1
    <3>3. client[c].registered <=> registered_clients_[c] # "unregistered"
      BY <3>1, <3>2 DEF AgreesWith, Registers
    <3>4. ~WillAck(tasks, c) /\ ~WillEnd(tasks, c) /\ ~WillLeave(tasks, c)
      BY <3>2 DEF WillAck, WillEnd, WillLeave
    <3> QED
      BY <3>1, <3>3, <3>4 DEF AgreesWith, Answers, Cancelling
  <2> QED
    BY <2>2 DEF ClientsAgree, RegistrationAgrees, NoneOwed, Registered
<1> QED
  BY <1>1, IInvHolds, PTL

=============================================================================
