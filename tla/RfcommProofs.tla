---------------------------- MODULE RfcommProofs ----------------------------
(* Theorems about Rfcomm, for every choice of its constants: one device, and *)
(* one channel between the two.                                              *)
EXTENDS Rfcomm, SequenceTheorems, TLAPS

-----------------------------------------------------------------------------
(* The invariant of a device, kept by every function of stack/rfcomm         *)

MxStates == {"IDLE", "WAIT_CONN_CNF", "CONFIGURE", "SABME_WAIT_UA", "WAIT_SABME",
             "CONNECTED", "DISC_WAIT_UA"}
MxTimers == {"NONE", "INIT", "CONN", "COLLISION", "T1", "DISC", "RELEASE"}
AnyChannel == Channels \cup {NoChannel}
AnyHandle == Handles \cup {NoHandle}

Mx == [state : MxStates, lcid : AnyChannel, is_initiator : BOOLEAN,
       is_disc_initiator : BOOLEAN, restart_required : BOOLEAN,
       collision_outgoing_lcid : AnyChannel,
       collision_outgoing_conn_cnf : BOOLEAN,
       collision_outgoing_cfg_complete : BOOLEAN, timer : MxTimers]

PortStates == {"CLOSED", "OPENING", "OPENED", "CLOSING"}
SmStates == {"CLOSED", "SABME_WAIT_UA", "ORIG_WAIT_SEC_CHECK", "TERM_WAIT_SEC_CHECK",
             "OPENED", "DISC_WAIT_UA"}
Responses == SUBSET {"PN", "MSC"}

Port == [in_use : BOOLEAN, is_server : BOOLEAN, keep : BOOLEAN, state : PortStates,
         sm : SmStates, dlci : Dlcis \cup {0}, attached : BOOLEAN, timer : BOOLEAN,
         expected_rsp : Responses, req_sent : BOOLEAN]

CcbStates == {"CLOSED", "W4_CONNECT_RSP", "CONFIG", "OPEN"}

\* The frames of the multiplexer that are about a port.
PortCommands == {"PN", "PN_RSP", "MSC", "MSC_RSP"}
PortFrames == {"SABME", "UA", "DM", "DISC"}
AnyFrame == [k : Signals \cup PortCommands \cup PortFrames, c : Channels,
             d : Dlcis \cup {0}, initiator : BOOLEAN]
Frame == {f \in AnyFrame : /\ f.k \in PortCommands => f.d \in Dlcis
                           /\ f.k \in Signals => f.d = 0}

Device(p) ==
  [self : {p}, mx : Mx, port_handles : [Dlcis -> AnyHandle], lcid_mcb : SUBSET Channels,
   port : [Handles -> Port], ccb : [Channels -> CcbStates], made : 0 .. MaxChannels,
   fate : {"up", "null_mcb"}, out : Seq(Frame)]

\* HandlesAgree of one device; a port that is attached has a DLCI.
Agree(port, handles) ==
  /\ \A x \in Handles : port[x].attached => port[x].in_use /\ port[x].dlci \in Dlcis
  /\ \A d \in Dlcis :
       handles[d] # NoHandle => port[handles[d]].attached /\ port[handles[d]].dlci = d

\* A device with agreeing tables, in the middle of a handler or between two.
IsDevice(p, s) == s \in Device(p) /\ Agree(s.port, s.port_handles)

\* The multiplexer has no handle of the port.
Unreferenced(s, x) == \A d \in Dlcis : s.port_handles[d] # x

\* The tables of ports are the same.
SameTables(s, t) == t.port = s.port /\ t.port_handles = s.port_handles

-----------------------------------------------------------------------------
(* Assignments *)

\* The members of a device.
LEMMA Members ==
  ASSUME NEW p, NEW s, IsDevice(p, s)
  PROVE  /\ s.self = p /\ s.mx \in Mx /\ s.port_handles \in [Dlcis -> AnyHandle]
         /\ s.lcid_mcb \in SUBSET Channels /\ s.port \in [Handles -> Port]
         /\ s.ccb \in [Channels -> CcbStates] /\ s.made \in 0 .. MaxChannels
         /\ s.out \in Seq(Frame) /\ Agree(s.port, s.port_handles)
BY DEF IsDevice, Device

\* The members of its multiplexer.
LEMMA MxMembers ==
  ASSUME NEW p, NEW s, IsDevice(p, s)
  PROVE  /\ s.mx.state \in MxStates /\ s.mx.lcid \in AnyChannel
         /\ s.mx.is_initiator \in BOOLEAN /\ s.mx.is_disc_initiator \in BOOLEAN
         /\ s.mx.restart_required \in BOOLEAN /\ s.mx.collision_outgoing_lcid \in AnyChannel
         /\ s.mx.collision_outgoing_conn_cnf \in BOOLEAN
         /\ s.mx.collision_outgoing_cfg_complete \in BOOLEAN /\ s.mx.timer \in MxTimers
BY Members DEF Mx

\* The members of a port.
LEMMA PortMembers ==
  ASSUME NEW p, NEW s, IsDevice(p, s), NEW x \in Handles
  PROVE  /\ s.port[x].in_use \in BOOLEAN /\ s.port[x].is_server \in BOOLEAN
         /\ s.port[x].keep \in BOOLEAN /\ s.port[x].state \in PortStates
         /\ s.port[x].sm \in SmStates /\ s.port[x].dlci \in Dlcis \cup {0}
         /\ s.port[x].attached \in BOOLEAN /\ s.port[x].timer \in BOOLEAN
         /\ s.port[x].expected_rsp \in Responses /\ s.port[x].req_sent \in BOOLEAN
         /\ s.port[x].attached => s.port[x].in_use /\ s.port[x].dlci \in Dlcis
<1>1. s.port[x] \in Port /\ Agree(s.port, s.port_handles)
  BY Members
<1> QED
  BY <1>1 DEF Port, Agree

\* A handle in the table is that of a port.
LEMMA HandleMembers ==
  ASSUME NEW p, NEW s, IsDevice(p, s), NEW d \in Dlcis, s.port_handles[d] # NoHandle
  PROVE  /\ s.port_handles[d] \in Handles
         /\ s.port[s.port_handles[d]].attached /\ s.port[s.port_handles[d]].dlci = d
BY Members DEF Agree, AnyHandle

\* A port that is not attached is not in the table.
LEMMA NotAttached ==
  ASSUME NEW p, NEW s, IsDevice(p, s), NEW x \in Handles, ~s.port[x].attached
  PROVE  Unreferenced(s, x)
BY Members DEF Agree, Unreferenced, Handles, NoHandle

\* Another multiplexer control block.
LEMMA SetMx ==
  ASSUME NEW p, NEW s, IsDevice(p, s), NEW m \in Mx
  PROVE  IsDevice(p, [s EXCEPT !.mx = m])
BY DEF IsDevice, Device

\* Other ports.
LEMMA SetPort ==
  ASSUME NEW p, NEW s, IsDevice(p, s), NEW q \in [Handles -> Port], Agree(q, s.port_handles)
  PROVE  IsDevice(p, [s EXCEPT !.port = q])
BY DEF IsDevice, Device

\* Other handles.
LEMMA SetPortHandles ==
  ASSUME NEW p, NEW s, IsDevice(p, s), NEW h \in [Dlcis -> AnyHandle], Agree(s.port, h)
  PROVE  IsDevice(p, [s EXCEPT !.port_handles = h])
BY DEF IsDevice, Device

\* The other members.
LEMMA SetLcidMcb ==
  ASSUME NEW p, NEW s, IsDevice(p, s), NEW v \in SUBSET Channels
  PROVE  IsDevice(p, [s EXCEPT !.lcid_mcb = v])
BY DEF IsDevice, Device

\* How many channels the device has made.
LEMMA SetMade ==
  ASSUME NEW p, NEW s, IsDevice(p, s), NEW v \in 0 .. MaxChannels
  PROVE  IsDevice(p, [s EXCEPT !.made = v])
BY DEF IsDevice, Device

\* The channels.
LEMMA SetCcb ==
  ASSUME NEW p, NEW s, IsDevice(p, s), NEW v \in [Channels -> CcbStates]
  PROVE  IsDevice(p, [s EXCEPT !.ccb = v])
BY DEF IsDevice, Device

\* A channel.
LEMMA SetChannel ==
  ASSUME NEW p, NEW s, IsDevice(p, s), NEW c, NEW v \in CcbStates
  PROVE  IsDevice(p, [s EXCEPT !.ccb[c] = v])
<1>1. [s.ccb EXCEPT ![c] = v] \in [Channels -> CcbStates]
  BY Members
<1> QED
  BY <1>1, SetCcb

\* What it sent.
LEMMA SetOut ==
  ASSUME NEW p, NEW s, IsDevice(p, s), NEW v \in Seq(Frame)
  PROVE  IsDevice(p, [s EXCEPT !.out = v])
BY DEF IsDevice, Device

\* Its fate.
LEMMA CrashKeeps ==
  ASSUME NEW p, NEW s, IsDevice(p, s)
  PROVE  IsDevice(p, Crash(s))
BY DEF IsDevice, Device, Crash

\* The state of the multiplexer.
LEMMA SetState ==
  ASSUME NEW p, NEW s, IsDevice(p, s), NEW v \in MxStates
  PROVE  IsDevice(p, [s EXCEPT !.mx.state = v])
<1>1. [s.mx EXCEPT !.state = v] \in Mx
  BY Members DEF Mx
<1> QED
  BY <1>1, SetMx

\* Its channel.
LEMMA SetLcid ==
  ASSUME NEW p, NEW s, IsDevice(p, s), NEW v \in AnyChannel
  PROVE  IsDevice(p, [s EXCEPT !.mx.lcid = v])
<1>1. [s.mx EXCEPT !.lcid = v] \in Mx
  BY Members DEF Mx
<1> QED
  BY <1>1, SetMx

\* Its role.
LEMMA SetIsInitiator ==
  ASSUME NEW p, NEW s, IsDevice(p, s), NEW v \in BOOLEAN
  PROVE  IsDevice(p, [s EXCEPT !.mx.is_initiator = v])
<1>1. [s.mx EXCEPT !.is_initiator = v] \in Mx
  BY Members DEF Mx
<1> QED
  BY <1>1, SetMx

\* Whether it is to disconnect.
LEMMA SetIsDiscInitiator ==
  ASSUME NEW p, NEW s, IsDevice(p, s), NEW v \in BOOLEAN
  PROVE  IsDevice(p, [s EXCEPT !.mx.is_disc_initiator = v])
<1>1. [s.mx EXCEPT !.is_disc_initiator = v] \in Mx
  BY Members DEF Mx
<1> QED
  BY <1>1, SetMx

\* Whether it is to start again.
LEMMA SetRestartRequired ==
  ASSUME NEW p, NEW s, IsDevice(p, s), NEW v \in BOOLEAN
  PROVE  IsDevice(p, [s EXCEPT !.mx.restart_required = v])
<1>1. [s.mx EXCEPT !.restart_required = v] \in Mx
  BY Members DEF Mx
<1> QED
  BY <1>1, SetMx

\* The channel kept aside,
LEMMA SetCollisionLcid ==
  ASSUME NEW p, NEW s, IsDevice(p, s), NEW v \in AnyChannel
  PROVE  IsDevice(p, [s EXCEPT !.mx.collision_outgoing_lcid = v])
<1>1. [s.mx EXCEPT !.collision_outgoing_lcid = v] \in Mx
  BY Members DEF Mx
<1> QED
  BY <1>1, SetMx

\* whether that is connected,
LEMMA SetCollisionConnCnf ==
  ASSUME NEW p, NEW s, IsDevice(p, s), NEW v \in BOOLEAN
  PROVE  IsDevice(p, [s EXCEPT !.mx.collision_outgoing_conn_cnf = v])
<1>1. [s.mx EXCEPT !.collision_outgoing_conn_cnf = v] \in Mx
  BY Members DEF Mx
<1> QED
  BY <1>1, SetMx

\* and whether it is configured.
LEMMA SetCollisionCfgComplete ==
  ASSUME NEW p, NEW s, IsDevice(p, s), NEW v \in BOOLEAN
  PROVE  IsDevice(p, [s EXCEPT !.mx.collision_outgoing_cfg_complete = v])
<1>1. [s.mx EXCEPT !.collision_outgoing_cfg_complete = v] \in Mx
  BY Members DEF Mx
<1> QED
  BY <1>1, SetMx

\* The timer of the multiplexer.
LEMMA SetMxTimer ==
  ASSUME NEW p, NEW s, IsDevice(p, s), NEW v \in MxTimers
  PROVE  IsDevice(p, [s EXCEPT !.mx.timer = v])
<1>1. [s.mx EXCEPT !.timer = v] \in Mx
  BY Members DEF Mx
<1> QED
  BY <1>1, SetMx

\* A port that stays on its DLCI, or is attached to none.
LEMMA SetOnePort ==
  ASSUME NEW p, NEW s, IsDevice(p, s), NEW x \in Handles, NEW r \in Port,
         \/ /\ r.attached = s.port[x].attached /\ r.dlci = s.port[x].dlci
            /\ r.in_use = s.port[x].in_use
         \/ ~r.attached /\ Unreferenced(s, x)
  PROVE  IsDevice(p, [s EXCEPT !.port[x] = r])
<1> DEFINE q == [s.port EXCEPT ![x] = r]
<1>1. /\ s.port \in [Handles -> Port] /\ s.port_handles \in [Dlcis -> AnyHandle]
      /\ Agree(s.port, s.port_handles)
  BY Members
<1>2. q \in [Handles -> Port] /\ Agree(q, s.port_handles)
  BY <1>1 DEF Agree, Unreferenced, AnyHandle
<1> HIDE DEF q
<1>3. IsDevice(p, [s EXCEPT !.port = q])
  BY <1>2, SetPort
<1> QED
  BY <1>3 DEF q

\* The timer of a port.
LEMMA SetPortTimer ==
  ASSUME NEW p, NEW s, IsDevice(p, s), NEW x \in Handles, NEW v \in BOOLEAN
  PROVE  IsDevice(p, [s EXCEPT !.port[x].timer = v])
<1> DEFINE r == [s.port[x] EXCEPT !.timer = v]
<1>1. s.port[x] \in Port
  BY Members
<1>2. /\ r \in Port
      /\ r.attached = s.port[x].attached /\ r.dlci = s.port[x].dlci /\ r.in_use = s.port[x].in_use
  BY <1>1 DEF Port
<1> HIDE DEF r
<1>3. IsDevice(p, [s EXCEPT !.port[x] = r])
  BY <1>2, SetOnePort
<1> QED
  BY <1>3 DEF r

\* Its state,
LEMMA SetPortState ==
  ASSUME NEW p, NEW s, IsDevice(p, s), NEW x \in Handles, NEW v \in PortStates
  PROVE  IsDevice(p, [s EXCEPT !.port[x].state = v])
<1> DEFINE r == [s.port[x] EXCEPT !.state = v]
<1>1. s.port[x] \in Port
  BY Members
<1>2. /\ r \in Port
      /\ r.attached = s.port[x].attached /\ r.dlci = s.port[x].dlci /\ r.in_use = s.port[x].in_use
  BY <1>1 DEF Port
<1> HIDE DEF r
<1>3. IsDevice(p, [s EXCEPT !.port[x] = r])
  BY <1>2, SetOnePort
<1> QED
  BY <1>3 DEF r

\* and that of its connection.
LEMMA SetPortSm ==
  ASSUME NEW p, NEW s, IsDevice(p, s), NEW x \in Handles, NEW v \in SmStates
  PROVE  IsDevice(p, [s EXCEPT !.port[x].sm = v])
<1> DEFINE r == [s.port[x] EXCEPT !.sm = v]
<1>1. s.port[x] \in Port
  BY Members
<1>2. /\ r \in Port
      /\ r.attached = s.port[x].attached /\ r.dlci = s.port[x].dlci /\ r.in_use = s.port[x].in_use
  BY <1>1 DEF Port
<1> HIDE DEF r
<1>3. IsDevice(p, [s EXCEPT !.port[x] = r])
  BY <1>2, SetOnePort
<1> QED
  BY <1>3 DEF r

\* The responses it waits for.
LEMMA SetExpectedRsp ==
  ASSUME NEW p, NEW s, IsDevice(p, s), NEW x \in Handles, NEW v \in Responses
  PROVE  IsDevice(p, [s EXCEPT !.port[x].expected_rsp = v])
<1> DEFINE r == [s.port[x] EXCEPT !.expected_rsp = v]
<1>1. s.port[x] \in Port
  BY Members
<1>2. /\ r \in Port
      /\ r.attached = s.port[x].attached /\ r.dlci = s.port[x].dlci /\ r.in_use = s.port[x].in_use
  BY <1>1 DEF Port
<1> HIDE DEF r
<1>3. IsDevice(p, [s EXCEPT !.port[x] = r])
  BY <1>2, SetOnePort
<1> QED
  BY <1>3 DEF r

\* Whether it sent its modem status.
LEMMA SetReqSent ==
  ASSUME NEW p, NEW s, IsDevice(p, s), NEW x \in Handles, NEW v \in BOOLEAN
  PROVE  IsDevice(p, [s EXCEPT !.port[x].req_sent = v])
<1> DEFINE r == [s.port[x] EXCEPT !.req_sent = v]
<1>1. s.port[x] \in Port
  BY Members
<1>2. /\ r \in Port
      /\ r.attached = s.port[x].attached /\ r.dlci = s.port[x].dlci /\ r.in_use = s.port[x].in_use
  BY <1>1 DEF Port
<1> HIDE DEF r
<1>3. IsDevice(p, [s EXCEPT !.port[x] = r])
  BY <1>2, SetOnePort
<1> QED
  BY <1>3 DEF r

\* Whether it is kept when it is released.
LEMMA SetKeep ==
  ASSUME NEW p, NEW s, IsDevice(p, s), NEW x \in Handles, NEW v \in BOOLEAN
  PROVE  IsDevice(p, [s EXCEPT !.port[x].keep = v])
<1> DEFINE r == [s.port[x] EXCEPT !.keep = v]
<1>1. s.port[x] \in Port
  BY Members
<1>2. /\ r \in Port
      /\ r.attached = s.port[x].attached /\ r.dlci = s.port[x].dlci /\ r.in_use = s.port[x].in_use
  BY <1>1 DEF Port
<1> HIDE DEF r
<1>3. IsDevice(p, [s EXCEPT !.port[x] = r])
  BY <1>2, SetOnePort
<1> QED
  BY <1>3 DEF r

-----------------------------------------------------------------------------
(* L2CAP and what is sent *)

\* A signal is one more frame.
LEMMA SignalKeeps ==
  ASSUME NEW p, NEW s, IsDevice(p, s), NEW k \in Signals, NEW c \in Channels
  PROVE  IsDevice(p, Signal(s, k, c))
<1> DEFINE f == [k |-> k, c |-> c, d |-> 0, initiator |-> FALSE]
<1>1. f \in Frame
  BY DEF Frame, AnyFrame, Signals, PortCommands
<1> HIDE DEF f
<1>2. Append(s.out, f) \in Seq(Frame)
  BY <1>1, Members
<1>3. IsDevice(p, [s EXCEPT !.out = Append(s.out, f)])
  BY <1>2, SetOut
<1> QED
  BY <1>3 DEF Signal, f

\* A frame of RFCOMM is one more frame on the channel of the multiplexer.
LEMMA SendKeeps ==
  ASSUME NEW p, NEW s, IsDevice(p, s), NEW k \in PortCommands \cup PortFrames,
         NEW d \in Dlcis \cup {0}, k \in PortCommands => d \in Dlcis
  PROVE  IsDevice(p, rfc_send(s, k, d))
<1> DEFINE f == [k |-> k, c |-> s.mx.lcid, d |-> d, initiator |-> s.mx.is_initiator]
<1>1. ASSUME IsOpen(s, s.mx.lcid) PROVE IsDevice(p, [s EXCEPT !.out = Append(s.out, f)])
  <2>1. f \in Frame
    BY <1>1, MxMembers DEF Frame, AnyFrame, IsOpen, Signals, PortCommands, PortFrames
  <2> HIDE DEF f
  <2>2. Append(s.out, f) \in Seq(Frame)
    BY <2>1, Members
  <2> QED
    BY <2>2, SetOut
<1> QED
  BY <1>1 DEF rfc_send

\* Sending changes nothing else.
LEMMA SendFrame ==
  ASSUME NEW p, NEW s, IsDevice(p, s), NEW k, NEW d
  PROVE  /\ SameTables(s, rfc_send(s, k, d))
         /\ rfc_send(s, k, d).mx = s.mx /\ rfc_send(s, k, d).lcid_mcb = s.lcid_mcb
         /\ rfc_send(s, k, d).ccb = s.ccb /\ rfc_send(s, k, d).made = s.made
BY DEF rfc_send, IsDevice, Device, SameTables

\* A new channel is one of the device's own.
LEMMA OwnChannel ==
  ASSUME NEW p \in Peers, NEW n \in 1 .. MaxChannels
  PROVE  <<p, n>> \in Channels
BY DEF Channels

\* There is one channel more.
LEMMA ConnectReqKeeps ==
  ASSUME NEW p \in Peers, NEW s, IsDevice(p, s), s.made < MaxChannels
  PROVE  /\ IsDevice(p, L2CA_ConnectReq(s))
         /\ L2CA_ConnectReq(s).made = s.made + 1 /\ <<s.self, s.made + 1>> \in Channels
         /\ SameTables(s, L2CA_ConnectReq(s))
         /\ L2CA_ConnectReq(s).mx = s.mx /\ L2CA_ConnectReq(s).lcid_mcb = s.lcid_mcb
<1> DEFINE c == <<s.self, s.made + 1>>
           t == [s EXCEPT !.made = s.made + 1, !.ccb[c] = "W4_CONNECT_RSP"]
<1>1. s.made + 1 \in 0 .. MaxChannels /\ s.made + 1 \in 1 .. MaxChannels /\ s.self = p
  BY Members, BoundsAssumption
<1>2. c \in Channels
  BY <1>1, OwnChannel
<1> HIDE DEF c
<1>3. IsDevice(p, t)
  BY <1>1, SetMade, SetChannel DEF CcbStates
<1>4. t.made = s.made + 1 /\ SameTables(s, t) /\ t.mx = s.mx /\ t.lcid_mcb = s.lcid_mcb
  BY DEF IsDevice, Device, SameTables
<1> HIDE DEF t
<1>5. IsDevice(p, Signal(t, "CONN_REQ", c))
  BY <1>2, <1>3, SignalKeeps DEF Signals
<1>6. /\ SameTables(t, Signal(t, "CONN_REQ", c)) /\ Signal(t, "CONN_REQ", c).made = t.made
      /\ Signal(t, "CONN_REQ", c).mx = t.mx /\ Signal(t, "CONN_REQ", c).lcid_mcb = t.lcid_mcb
  BY <1>3 DEF IsDevice, Device, SameTables, Signal
<1>7. L2CA_ConnectReq(s) = Signal(t, "CONN_REQ", c)
  BY DEF L2CA_ConnectReq, t, c
<1> QED
  BY <1>2, <1>4, <1>5, <1>6, <1>7 DEF c, SameTables

\* A channel less.
LEMMA DisconnectReqKeeps ==
  ASSUME NEW p, NEW s, IsDevice(p, s), NEW c
  PROVE  /\ IsDevice(p, L2CA_DisconnectReq(s, c))
         /\ L2CA_DisconnectReq(s, c).made = s.made /\ SameTables(s, L2CA_DisconnectReq(s, c))
         /\ L2CA_DisconnectReq(s, c).mx = s.mx /\ L2CA_DisconnectReq(s, c).lcid_mcb = s.lcid_mcb
<1> DEFINE t == [s EXCEPT !.ccb[c] = "CLOSED"]
<1>1. /\ IsDevice(p, t) /\ t.made = s.made /\ SameTables(s, t) /\ t.mx = s.mx
      /\ t.lcid_mcb = s.lcid_mcb
  <2>1. IsDevice(p, t)
    BY SetChannel DEF CcbStates
  <2> QED
    BY <2>1 DEF IsDevice, Device, SameTables
<1> HIDE DEF t
<1>2. ASSUME c \in Channels
      PROVE  /\ IsDevice(p, Signal(t, "DISC_REQ", c)) /\ SameTables(t, Signal(t, "DISC_REQ", c))
             /\ Signal(t, "DISC_REQ", c).made = t.made /\ Signal(t, "DISC_REQ", c).mx = t.mx
             /\ Signal(t, "DISC_REQ", c).lcid_mcb = t.lcid_mcb
  <2>1. IsDevice(p, Signal(t, "DISC_REQ", c))
    BY <1>1, <1>2, SignalKeeps DEF Signals
  <2> QED
    BY <1>1, <2>1 DEF IsDevice, Device, SameTables, Signal
<1>3. \/ L2CA_DisconnectReq(s, c) = s
      \/ L2CA_DisconnectReq(s, c) = t
      \/ c \in Channels /\ L2CA_DisconnectReq(s, c) = Signal(t, "DISC_REQ", c)
  BY DEF L2CA_DisconnectReq, t
<1> QED
  BY <1>1, <1>2, <1>3 DEF SameTables

-----------------------------------------------------------------------------
(* Ports that close *)

\* The multiplexer forgets a port.
LEMMA ForgetHandle ==
  ASSUME NEW p, NEW s, IsDevice(p, s), NEW d
  PROVE  IsDevice(p, [s EXCEPT !.port_handles[d] = NoHandle])
<1> DEFINE h == [s.port_handles EXCEPT ![d] = NoHandle]
<1>1. s.port_handles \in [Dlcis -> AnyHandle] /\ Agree(s.port, s.port_handles)
  BY Members
<1>2. h \in [Dlcis -> AnyHandle] /\ Agree(s.port, h)
  BY <1>1 DEF Agree, AnyHandle
<1> QED
  BY <1>2, SetPortHandles

\* The multiplexer is asked to close.
LEMMA CloseReqKeeps ==
  ASSUME NEW p, NEW s, IsDevice(p, s)
  PROVE  IsDevice(p, rfc_mx_close_req(s)) /\ SameTables(s, rfc_mx_close_req(s))
<1> DEFINE t == [s EXCEPT !.mx.timer = "DISC", !.mx.state = "DISC_WAIT_UA"]
<1>1. IsDevice(p, t)
  BY SetMxTimer, SetState DEF MxTimers, MxStates
<1>2. SameTables(s, t)
  BY DEF IsDevice, Device, SameTables
<1> HIDE DEF t
<1>3. IsDevice(p, rfc_send(t, "DISC", 0)) /\ SameTables(t, rfc_send(t, "DISC", 0))
  BY <1>1, SendKeeps, SendFrame DEF PortFrames, PortCommands
<1>4. rfc_mx_close_req(s) = s \/ rfc_mx_close_req(s) = rfc_send(t, "DISC", 0)
  BY DEF rfc_mx_close_req, t
<1> QED
  BY <1>2, <1>3, <1>4 DEF SameTables

\* The multiplexer without ports is closed, now or later.
LEMMA CheckMcbActiveKeeps ==
  ASSUME NEW p, NEW s, IsDevice(p, s)
  PROVE  IsDevice(p, rfc_check_mcb_active(s)) /\ SameTables(s, rfc_check_mcb_active(s))
<1> DEFINE t == [s EXCEPT !.mx.is_disc_initiator = FALSE]
           u == [t EXCEPT !.mx.timer = "RELEASE"]
<1>1. IsDevice(p, t)
  BY SetIsDiscInitiator
<1>2. SameTables(s, t)
  BY DEF IsDevice, Device, SameTables
<1> HIDE DEF t
<1>3. IsDevice(p, u)
  BY <1>1, SetMxTimer DEF MxTimers
<1>4. SameTables(t, u)
  BY <1>1 DEF IsDevice, Device, SameTables
<1> HIDE DEF u
<1>5. rfc_check_mcb_active(s) \in {t, u, rfc_mx_close_req(t)}
  BY DEF rfc_check_mcb_active, t, u
<1> QED
  BY <1>1, <1>2, <1>3, <1>4, <1>5, CloseReqKeeps DEF SameTables

\* A port that leaves its multiplexer keeps its members and loses its handle.
LEMMA LeaveMcbKeeps ==
  ASSUME NEW p, NEW s, IsDevice(p, s), NEW x \in Handles
  PROVE  /\ IsDevice(p, LeaveMcb(s, x)) /\ Unreferenced(LeaveMcb(s, x), x)
         /\ LeaveMcb(s, x).port = s.port
<1>1. CASE ~s.port[x].attached
  BY <1>1, NotAttached DEF LeaveMcb
<1>2. CASE s.port[x].attached
  <2> DEFINE d == s.port[x].dlci
             t == [s EXCEPT !.port_handles[d] = NoHandle]
  <2>1. IsDevice(p, t)
    BY ForgetHandle
  <2>2. t.port = s.port /\ t.port_handles = [s.port_handles EXCEPT ![d] = NoHandle]
    BY DEF IsDevice, Device
  <2>3. Unreferenced(t, x)
    <3>1. \A e \in Dlcis : s.port_handles[e] = x => e = d
      BY HandleMembers DEF Handles, NoHandle
    <3>2. s.port_handles \in [Dlcis -> AnyHandle] /\ x # NoHandle
      BY Members DEF Handles, NoHandle
    <3> HIDE DEF t, d
    <3> QED
      BY <2>2, <3>1, <3>2 DEF Unreferenced
  <2>4. LeaveMcb(s, x) = rfc_check_mcb_active(t)
    BY <1>2 DEF LeaveMcb
  <2> HIDE DEF t
  <2>5. IsDevice(p, rfc_check_mcb_active(t)) /\ SameTables(t, rfc_check_mcb_active(t))
    BY <2>1, CheckMcbActiveKeeps
  <2>6. /\ rfc_check_mcb_active(t).port_handles = t.port_handles
        /\ rfc_check_mcb_active(t).port = t.port
    BY <2>5 DEF SameTables
  <2>7. Unreferenced(rfc_check_mcb_active(t), x)
    BY <2>3, <2>6 DEF Unreferenced
  <2> QED
    BY <2>2, <2>4, <2>5, <2>6, <2>7
<1> QED
  BY <1>1, <1>2

\* A released port is free, or listens again.
LEMMA ReleasePortKeeps ==
  ASSUME NEW p, NEW s, IsDevice(p, s), NEW x \in Handles
  PROVE  IsDevice(p, port_release_port(s, x))
<1> DEFINE t == [s EXCEPT !.port[x].timer = FALSE, !.port[x].state = "CLOSED"]
           kept == [ListeningPort EXCEPT !.expected_rsp = s.port[x].expected_rsp]
           r == IF s.port[x].keep THEN kept ELSE FreePort
           u == LeaveMcb(t, x)
<1>1. IsDevice(p, t)
  BY SetPortTimer, SetPortState DEF PortStates
<1>2. r \in Port /\ ~r.attached
  BY PortMembers, ZenonT(60) DEF Port, FreePort, ListeningPort, PortStates, SmStates, Dlcis, Responses
<1>3. port_release_port(s, x) = t \/ port_release_port(s, x) = [u EXCEPT !.port[x] = r]
  BY DEF port_release_port
<1> HIDE DEF t, r, kept
<1>4. IsDevice(p, u) /\ Unreferenced(u, x)
  BY <1>1, LeaveMcbKeeps
<1> HIDE DEF u
<1>5. IsDevice(p, [u EXCEPT !.port[x] = r])
  BY <1>2, <1>4, SetOnePort
<1> QED
  BY <1>1, <1>3, <1>5

\* A port whose connection is closed is released, or listens again.
LEMMA PortRfcClosedKeeps ==
  ASSUME NEW p, NEW s, IsDevice(p, s), NEW x \in Handles
  PROVE  IsDevice(p, port_rfc_closed(s, x))
<1> DEFINE t == [s EXCEPT !.port[x].sm = "CLOSED"]
           u == LeaveMcb([t EXCEPT !.port[x].timer = FALSE], x)
           r1 == [u.port[x] EXCEPT !.attached = FALSE]
           r2 == [r1 EXCEPT !.dlci = 2]
           v == [u EXCEPT !.port[x] = r1]
<1>1. IsDevice(p, t)
  BY SetPortSm DEF SmStates
<1> HIDE DEF t
<1>2. IsDevice(p, u) /\ Unreferenced(u, x)
  BY <1>1, SetPortTimer, LeaveMcbKeeps
<1>3. port_rfc_closed(s, x) \in {[u EXCEPT !.port[x].attached = FALSE, !.port[x].dlci = 2],
                                 port_release_port(t, x)}
  BY DEF port_rfc_closed, t
<1> HIDE DEF u
<1>4. r1 \in Port /\ ~r1.attached
  <2>1. u.port[x] \in Port
    BY <1>2, Members
  <2> QED
    BY <2>1 DEF Port
<1>5. IsDevice(p, v) /\ Unreferenced(v, x) /\ v.port[x] = r1
  <2>1. IsDevice(p, v)
    BY <1>2, <1>4, SetOnePort
  <2> QED
    BY <1>2, <2>1 DEF IsDevice, Device, Unreferenced
<1>6. r2 \in Port /\ ~r2.attached
  BY <1>4 DEF Port, Dlcis
<1>7. IsDevice(p, [v EXCEPT !.port[x] = [v.port[x] EXCEPT !.dlci = 2]])
  <2> HIDE DEF v
  <2>1. IsDevice(p, [v EXCEPT !.port[x] = r2])
    BY <1>5, <1>6, SetOnePort
  <2> QED
    BY <1>5, <2>1
<1> QED
  BY <1>1, <1>3, <1>7, ReleasePortKeeps

\* The connection of a port is closed.
LEMMA RfcPortClosedKeeps ==
  ASSUME NEW p, NEW s, IsDevice(p, s), NEW x \in Handles
  PROVE  IsDevice(p, rfc_port_closed(s, x))
<1> DEFINE t == [s EXCEPT !.port[x].timer = FALSE, !.port[x].sm = "CLOSED"]
<1>1. IsDevice(p, t)
  BY SetPortTimer, SetPortSm DEF SmStates
<1>2. rfc_port_closed(s, x) = port_rfc_closed(LeaveMcb(t, x), x)
  BY DEF rfc_port_closed
<1> HIDE DEF t
<1> QED
  BY <1>1, <1>2, LeaveMcbKeeps, PortRfcClosedKeeps

\* The other device released a connection.
LEMMA DlcReleaseIndKeeps ==
  ASSUME NEW p, NEW s, IsDevice(p, s), NEW d \in Dlcis
  PROVE  IsDevice(p, PORT_DlcReleaseInd(s, d))
BY HandleMembers, PortRfcClosedKeeps DEF PORT_DlcReleaseInd

\* Every port is closed.
LEMMA TimeOutCloseMuxKeeps ==
  ASSUME NEW p, NEW s, IsDevice(p, s)
  PROVE  IsDevice(p, PORT_TimeOutCloseMux(s))
<1> DEFINE t == IF s.port.sv.attached THEN port_rfc_closed(s, "sv") ELSE s
<1>1. "sv" \in Handles /\ "cl" \in Handles
  BY DEF Handles
<1>2. IsDevice(p, t)
  BY <1>1, PortRfcClosedKeeps
<1>3. PORT_TimeOutCloseMux(s) = t \/ PORT_TimeOutCloseMux(s) = port_rfc_closed(t, "cl")
  BY DEF PORT_TimeOutCloseMux, ForAttached
<1> HIDE DEF t
<1> QED
  BY <1>1, <1>2, <1>3, PortRfcClosedKeeps

\* The multiplexer is released: no port has it, and it has no port.
LEMMA ReleaseMultiplexerKeeps ==
  ASSUME NEW p, NEW s, IsDevice(p, s)
  PROVE  /\ IsDevice(p, rfc_release_multiplexer_channel(s))
         /\ rfc_release_multiplexer_channel(s).mx = IdleMx
<1> DEFINE none == [d \in Dlcis |-> NoHandle]
           s1 == [s EXCEPT !.lcid_mcb = s.lcid_mcb \ {s.mx.lcid}]
           s2 == [s1 EXCEPT !.mx = IdleMx]
           s3 == [s2 EXCEPT !.port_handles = none]
           sv == [s3.port["sv"] EXCEPT !.attached = FALSE]
           s4 == [s3 EXCEPT !.port["sv"] = sv]
           cl == [s4.port["cl"] EXCEPT !.attached = FALSE]
           s5 == [s4 EXCEPT !.port["cl"] = cl]
<1>0. "sv" \in Handles /\ "cl" \in Handles
  BY DEF Handles
<1>1. IsDevice(p, s1)
  BY Members, SetLcidMcb
<1>2. IsDevice(p, s2)
  <2>1. IdleMx \in Mx
    BY DEF IdleMx, Mx, MxStates, MxTimers, AnyChannel
  <2> HIDE DEF s1
  <2> QED
    BY <1>1, <2>1, SetMx
<1>3. IsDevice(p, s3) /\ s3.port_handles = none
  <2>1. none \in [Dlcis -> AnyHandle] /\ Agree(s2.port, none)
    BY <1>2, Members DEF Agree, AnyHandle
  <2> HIDE DEF s2
  <2>2. IsDevice(p, s3)
    BY <1>2, <2>1, SetPortHandles
  <2> QED
    BY <1>2, <2>2 DEF IsDevice, Device
<1>4. IsDevice(p, s4) /\ s4.port_handles = none
  <2> HIDE DEF s3
  <2>1. s3.port["sv"] \in Port
    BY <1>0, <1>3, Members
  <2>2. sv \in Port /\ ~sv.attached
    BY <2>1 DEF Port
  <2>3. Unreferenced(s3, "sv")
    BY <1>3 DEF Unreferenced, NoHandle
  <2> HIDE DEF sv
  <2>4. IsDevice(p, s4)
    BY <1>0, <1>3, <2>2, <2>3, SetOnePort
  <2> QED
    BY <1>3, <2>4 DEF IsDevice, Device
<1>5. IsDevice(p, s5)
  <2> HIDE DEF s4
  <2>1. s4.port["cl"] \in Port
    BY <1>0, <1>4, Members
  <2>2. cl \in Port /\ ~cl.attached
    BY <2>1 DEF Port
  <2>3. Unreferenced(s4, "cl")
    BY <1>4 DEF Unreferenced, NoHandle
  <2> HIDE DEF cl
  <2> QED
    BY <1>0, <1>4, <2>2, <2>3, SetOnePort
<1>6. rfc_release_multiplexer_channel(s) = s5
  BY DEF rfc_release_multiplexer_channel
<1>7. s5.mx = IdleMx
  BY DEF IsDevice, Device
<1> QED
  BY <1>5, <1>6, <1>7

\* The ports are closed and the multiplexer with them.
LEMMA CloseIndKeeps ==
  ASSUME NEW p, NEW s, IsDevice(p, s)
  PROVE  IsDevice(p, PORT_CloseInd(s))
BY TimeOutCloseMuxKeeps, ReleaseMultiplexerKeeps DEF PORT_CloseInd, PORT_TimeOutCloseMux

-----------------------------------------------------------------------------
(* Ports that open *)

\* A response more that a port waits for, or one less.
LEMMA SetOneResponse ==
  ASSUME NEW p, NEW s, IsDevice(p, s), NEW x \in Handles, NEW r \in {"PN", "MSC"}
  PROVE  /\ IsDevice(p, [s EXCEPT !.port[x].expected_rsp = s.port[x].expected_rsp \cup {r}])
         /\ IsDevice(p, [s EXCEPT !.port[x].expected_rsp = s.port[x].expected_rsp \ {r}])
<1>1. /\ s.port[x].expected_rsp \cup {r} \in Responses
      /\ s.port[x].expected_rsp \ {r} \in Responses
  BY PortMembers DEF Responses
<1> QED
  BY <1>1, SetExpectedRsp

\* The parameters of a connection are negotiated.
LEMMA ParameterNegotiationKeeps ==
  ASSUME NEW p, NEW s, IsDevice(p, s), NEW d \in Dlcis
  PROVE  IsDevice(p, RFCOMM_ParameterNegotiationRequest(s, d))
<1> DEFINE x == s.port_handles[d]
           t == [s EXCEPT !.port[x].expected_rsp = s.port[x].expected_rsp \cup {"PN"},
                          !.port[x].timer = TRUE]
<1>1. ASSUME x # NoHandle PROVE IsDevice(p, rfc_send(t, "PN", d))
  <2>1. x \in Handles
    BY <1>1, HandleMembers
  <2> HIDE DEF x
  <2>2. IsDevice(p, t)
    BY <2>1, SetOneResponse, SetPortTimer
  <2> HIDE DEF t
  <2> QED
    BY <2>2, SendKeeps DEF PortCommands
<1>2. \/ RFCOMM_ParameterNegotiationRequest(s, d) = s
      \/ x # NoHandle /\ RFCOMM_ParameterNegotiationRequest(s, d) = rfc_send(t, "PN", d)
  BY DEF RFCOMM_ParameterNegotiationRequest
<1> QED
  BY <1>1, <1>2

\* The multiplexer is up, or failed to come up.
LEMMA StartCnfKeeps ==
  ASSUME NEW p, NEW s, IsDevice(p, s), NEW ok
  PROVE  /\ IsDevice(p, PORT_StartCnf(s, ok))
<1>1. "sv" \in Handles /\ "cl" \in Handles
  BY DEF Handles
<1>2. IsDevice(p, rfc_check_mcb_active(s))
  BY CheckMcbActiveKeeps
<1>3. IsDevice(p, ForAttached(s, NegotiatePort))
  <2> DEFINE t == IF s.port["sv"].attached THEN NegotiatePort(s, "sv") ELSE s
             u == IF t.port["cl"].attached THEN NegotiatePort(t, "cl") ELSE t
  <2>1. IsDevice(p, t)
    BY <1>1, PortMembers, ParameterNegotiationKeeps DEF NegotiatePort
  <2> HIDE DEF t
  <2>2. IsDevice(p, u)
    BY <1>1, <2>1, PortMembers, ParameterNegotiationKeeps DEF NegotiatePort
  <2>3. ForAttached(s, NegotiatePort) = u
    BY DEF ForAttached, t
  <2> QED
    BY <2>2, <2>3
<1>4. IsDevice(p, ForAttached(s, port_release_port))
  <2> DEFINE t == IF s.port["sv"].attached THEN port_release_port(s, "sv") ELSE s
             u == IF t.port["cl"].attached THEN port_release_port(t, "cl") ELSE t
  <2>1. IsDevice(p, t)
    BY <1>1, ReleasePortKeeps
  <2> HIDE DEF t
  <2>2. IsDevice(p, u)
    BY <1>1, <2>1, ReleasePortKeeps
  <2>3. ForAttached(s, port_release_port) = u
    BY DEF ForAttached, t
  <2> QED
    BY <2>2, <2>3
<1> QED
  BY <1>2, <1>3, <1>4, ReleaseMultiplexerKeeps DEF PORT_StartCnf

\* A port sends its modem status.
LEMMA ControlReqKeeps ==
  ASSUME NEW p, NEW s, IsDevice(p, s), NEW d \in Dlcis
  PROVE  IsDevice(p, RFCOMM_ControlReq(s, d))
<1> DEFINE x == s.port_handles[d]
           s1 == [s EXCEPT !.port[x].req_sent = TRUE]
           s2 == [s1 EXCEPT !.port[x].timer = TRUE]
           t == [s2 EXCEPT !.port[x].expected_rsp = s.port[x].expected_rsp \cup {"MSC"}]
<1>1. ASSUME x # NoHandle PROVE IsDevice(p, rfc_send(t, "MSC", d))
  <2>1. x \in Handles
    BY <1>1, HandleMembers
  <2>2. s.port[x].expected_rsp \cup {"MSC"} \in Responses
    BY <2>1, PortMembers DEF Responses
  <2> HIDE DEF x
  <2>3. IsDevice(p, t)
    BY <2>1, <2>2, SetReqSent, SetPortTimer, SetExpectedRsp
  <2> HIDE DEF t
  <2> QED
    BY <2>3, SendKeeps DEF PortCommands
<1>2. \/ RFCOMM_ControlReq(s, d) = s
      \/ x # NoHandle /\ RFCOMM_ControlReq(s, d) = rfc_send(t, "MSC", d)
  BY DEF RFCOMM_ControlReq
<1> QED
  BY <1>1, <1>2

\* A connection that the device asked for is up, or failed.
LEMMA DlcEstablishCnfKeeps ==
  ASSUME NEW p, NEW s, IsDevice(p, s), NEW d \in Dlcis, NEW ok
  PROVE  IsDevice(p, PORT_DlcEstablishCnf(s, d, ok))
<1> DEFINE x == s.port_handles[d]
           t == [s EXCEPT !.mx.timer = "NONE", !.port[x].state = "OPENED"]
<1>1. ASSUME x # NoHandle
      PROVE  IsDevice(p, port_rfc_closed(s, x)) /\ IsDevice(p, RFCOMM_ControlReq(t, d))
  <2>1. x \in Handles
    BY <1>1, HandleMembers
  <2> HIDE DEF x
  <2>2. IsDevice(p, t)
    BY <2>1, SetMxTimer, SetPortState DEF MxTimers, PortStates
  <2> HIDE DEF t
  <2> QED
    BY <2>1, <2>2, PortRfcClosedKeeps, ControlReqKeeps
<1>2. \/ PORT_DlcEstablishCnf(s, d, ok) = s
      \/ x # NoHandle /\ PORT_DlcEstablishCnf(s, d, ok) \in {port_rfc_closed(s, x), RFCOMM_ControlReq(t, d)}
  BY DEF PORT_DlcEstablishCnf
<1> QED
  BY <1>1, <1>2

\* The server's side of it.
LEMMA DlcEstablishIndKeeps ==
  ASSUME NEW p, NEW s, IsDevice(p, s), NEW d \in Dlcis
  PROVE  IsDevice(p, PORT_DlcEstablishInd(s, d))
<1> DEFINE x == s.port_handles[d]
           s1 == [s EXCEPT !.mx.timer = "NONE"]
           open == [s1 EXCEPT !.port[x].sm = "OPENED"]
           s2 == IF s.mx.state # "CONNECTED" THEN PORT_DlcReleaseInd(s1, d)
                 ELSE IF s.port[x].sm = "TERM_WAIT_SEC_CHECK"
                 THEN rfc_send(open, "UA", d)
                 ELSE s1
<1>1. ASSUME x # NoHandle PROVE IsDevice(p, [s2 EXCEPT !.port[x].state = "OPENED"])
  <2>1. x \in Handles
    BY <1>1, HandleMembers
  <2> HIDE DEF x
  <2>2. IsDevice(p, s1)
    BY SetMxTimer DEF MxTimers
  <2> HIDE DEF s1
  <2>3. IsDevice(p, open)
    BY <2>1, <2>2, SetPortSm DEF SmStates
  <2> HIDE DEF open
  <2>4. IsDevice(p, rfc_send(open, "UA", d))
    BY <2>3, SendKeeps DEF PortFrames, PortCommands
  <2>5. IsDevice(p, s2)
    BY <2>2, <2>4, DlcReleaseIndKeeps
  <2> HIDE DEF s2
  <2> QED
    BY <2>1, <2>5, SetPortState DEF PortStates
<1>2. \/ PORT_DlcEstablishInd(s, d) = s
      \/ x # NoHandle /\ PORT_DlcEstablishInd(s, d) = [s2 EXCEPT !.port[x].state = "OPENED"]
  BY DEF PORT_DlcEstablishInd
<1> QED
  BY <1>1, <1>2

-----------------------------------------------------------------------------
(* The state machine of a port.  An event that needs the multiplexer comes   *)
(* to a port that is attached, or is one of those below.                     *)

LateEvents == {"TIMEOUT", "SEC_OK", "SEC_FAILED"}

\* A port without a connection.
LEMMA ClosedKeeps ==
  ASSUME NEW p, NEW s, IsDevice(p, s), NEW x \in Handles, NEW event
  PROVE  IsDevice(p, rfc_port_sm_state_closed(s, x, event))
<1>1. IsDevice(p, [s EXCEPT !.port[x].sm = "ORIG_WAIT_SEC_CHECK"])
  BY SetPortSm DEF SmStates
<1>2. IsDevice(p, [s EXCEPT !.mx.timer = "NONE", !.port[x].sm = "TERM_WAIT_SEC_CHECK"])
  BY SetMxTimer, SetPortSm DEF SmStates, MxTimers
<1>3. IsDevice(p, rfc_send(s, "DM", s.port[x].dlci))
  BY PortMembers, SendKeeps DEF PortFrames, PortCommands
<1> QED
  BY <1>1, <1>2, <1>3, RfcPortClosedKeeps, TimeOutCloseMuxKeeps DEF rfc_port_sm_state_closed

\* A port asks to disconnect.
LEMMA SendDiscKeeps ==
  ASSUME NEW p, NEW s, IsDevice(p, s), NEW x \in Handles
  PROVE  IsDevice(p, SendDisc(s, x))
<1> DEFINE t == [s EXCEPT !.port[x].timer = TRUE, !.port[x].expected_rsp = {},
                          !.port[x].sm = "DISC_WAIT_UA"]
<1>1. IsDevice(p, t)
  BY SetPortTimer, SetExpectedRsp, SetPortSm DEF SmStates, Responses
<1> HIDE DEF t
<1>2. IsDevice(p, rfc_send(t, "DISC", s.port[x].dlci))
  BY <1>1, PortMembers, SendKeeps DEF PortFrames, PortCommands
<1> QED
  BY <1>2 DEF SendDisc, t

\* A connection could not be made.
LEMMA EstablishFailedKeeps ==
  ASSUME NEW p, NEW s, IsDevice(p, s), NEW x \in Handles, s.port[x].attached
  PROVE  IsDevice(p, EstablishFailed(s, x))
BY PortMembers, DlcEstablishCnfKeeps, RfcPortClosedKeeps DEF EstablishFailed

\* It is asked for.
LEMMA SabmeWaitUaKeeps ==
  ASSUME NEW p, NEW s, IsDevice(p, s), NEW x \in Handles, NEW event,
         s.port[x].attached \/ event \in LateEvents
  PROVE  IsDevice(p, rfc_port_sm_sabme_wait_ua(s, x, event))
<1> DEFINE d == s.port[x].dlci
           up == [s EXCEPT !.port[x].timer = FALSE, !.port[x].sm = "OPENED"]
           closing == [s EXCEPT !.mx.is_disc_initiator = TRUE]
           closed == [s EXCEPT !.port[x].sm = "CLOSED"]
<1>1. s.port[x].attached => d \in Dlcis
  BY PortMembers
<1>2. d \in Dlcis \cup {0}
  BY PortMembers
<1>3. IsDevice(p, rfc_send(s, "UA", d)) /\ SameTables(s, rfc_send(s, "UA", d))
  BY <1>2, SendKeeps, SendFrame DEF PortFrames, PortCommands
<1>4. s.port[x].attached => IsDevice(p, EstablishFailed(rfc_send(s, "UA", d), x))
  BY <1>3, EstablishFailedKeeps DEF SameTables
<1>5. s.port[x].attached => IsDevice(p, EstablishFailed(closing, x))
  <2>1. IsDevice(p, closing)
    BY SetIsDiscInitiator
  <2>2. closing.port = s.port
    BY DEF IsDevice, Device
  <2> HIDE DEF closing
  <2> QED
    BY <2>1, <2>2, EstablishFailedKeeps
<1>6. d \in Dlcis => IsDevice(p, PORT_DlcEstablishCnf(up, d, TRUE))
  <2>1. IsDevice(p, up)
    BY SetPortTimer, SetPortSm DEF SmStates
  <2> HIDE DEF up, d
  <2> QED
    BY <2>1, DlcEstablishCnfKeeps
<1>7. d \in Dlcis => IsDevice(p, PORT_DlcEstablishCnf(closed, d, FALSE))
  <2>1. IsDevice(p, closed)
    BY SetPortSm DEF SmStates
  <2> HIDE DEF closed, d
  <2> QED
    BY <2>1, DlcEstablishCnfKeeps
<1>8. rfc_port_sm_sabme_wait_ua(s, x, event) =
        CASE event = "CLOSE" -> SendDisc(s, x)
          [] event = "UA" -> PORT_DlcEstablishCnf(up, d, TRUE)
          [] event = "DM" -> EstablishFailed(closing, x)
          [] event = "DISC" -> EstablishFailed(rfc_send(s, "UA", d), x)
          [] event = "SABME" -> rfc_send(s, "UA", d)
          [] event = "TIMEOUT" -> IF s.port[x].attached
                                  THEN PORT_DlcEstablishCnf(closed, d, FALSE) ELSE Crash(s)
          [] OTHER -> s
  BY DEF rfc_port_sm_sabme_wait_ua
<1> HIDE DEF up, closing, closed, d
<1> QED
  BY <1>1, <1>3, <1>4, <1>5, <1>6, <1>7, <1>8, SendDiscKeeps, CrashKeeps DEF LateEvents

\* The security check of a connection that the other device asked for.
LEMMA TermWaitSecCheckKeeps ==
  ASSUME NEW p, NEW s, IsDevice(p, s), NEW x \in Handles, NEW event,
         s.port[x].attached \/ event \in LateEvents
  PROVE  IsDevice(p, rfc_port_sm_term_wait_sec_check(s, x, event))
<1> DEFINE d == s.port[x].dlci
           refused == [rfc_send(s, "DM", d) EXCEPT !.mx.is_disc_initiator = TRUE]
           closed == rfc_send([s EXCEPT !.port[x].sm = "CLOSED"], "UA", d)
<1>1. s.port[x].attached => d \in Dlcis
  BY PortMembers
<1>2. d \in Dlcis \cup {0}
  BY PortMembers
<1> HIDE DEF d
<1>3. IsDevice(p, port_rfc_closed(refused, x))
  <2>1. IsDevice(p, rfc_send(s, "DM", d))
    BY <1>2, SendKeeps DEF PortFrames, PortCommands
  <2>2. IsDevice(p, refused)
    BY <2>1, SetIsDiscInitiator
  <2> HIDE DEF refused
  <2> QED
    BY <2>2, PortRfcClosedKeeps
<1>4. d \in Dlcis => IsDevice(p, PORT_DlcReleaseInd(closed, d))
  <2>1. IsDevice(p, [s EXCEPT !.port[x].sm = "CLOSED"])
    BY SetPortSm DEF SmStates
  <2>2. IsDevice(p, closed)
    BY <1>2, <2>1, SendKeeps DEF PortFrames, PortCommands
  <2> HIDE DEF closed
  <2> QED
    BY <2>2, DlcReleaseIndKeeps
<1>5. rfc_port_sm_term_wait_sec_check(s, x, event) =
        CASE event = "SEC_OK" -> IF s.port[x].attached THEN PORT_DlcEstablishInd(s, d) ELSE Crash(s)
          [] event = "SEC_FAILED" -> IF ~s.port[x].attached THEN s ELSE port_rfc_closed(refused, x)
          [] event = "DISC" -> PORT_DlcReleaseInd(closed, d)
          [] OTHER -> s
  BY DEF rfc_port_sm_term_wait_sec_check, d
<1> HIDE DEF refused, closed
<1> QED
  BY <1>1, <1>3, <1>4, <1>5, DlcEstablishIndKeeps, CrashKeeps DEF LateEvents

\* That of a connection that this device asks for.
LEMMA OrigWaitSecCheckKeeps ==
  ASSUME NEW p, NEW s, IsDevice(p, s), NEW x \in Handles, NEW event
  PROVE  IsDevice(p, rfc_port_sm_orig_wait_sec_check(s, x, event))
<1> DEFINE d == s.port[x].dlci
           started == [s EXCEPT !.port[x].timer = TRUE, !.port[x].sm = "SABME_WAIT_UA"]
           refused == [s EXCEPT !.mx.is_disc_initiator = TRUE]
<1>1. d \in Dlcis \cup {0}
  BY PortMembers
<1>2. IsDevice(p, rfc_send(started, "SABME", d))
  <2>1. IsDevice(p, started)
    BY SetPortTimer, SetPortSm DEF SmStates
  <2> HIDE DEF started, d
  <2> QED
    BY <1>1, <2>1, SendKeeps DEF PortFrames, PortCommands
<1>3. s.port[x].attached => IsDevice(p, EstablishFailed(refused, x))
  <2>1. IsDevice(p, refused)
    BY SetIsDiscInitiator
  <2>2. refused.port = s.port
    BY DEF IsDevice, Device
  <2> HIDE DEF refused
  <2> QED
    BY <2>1, <2>2, EstablishFailedKeeps
<1>4. rfc_port_sm_orig_wait_sec_check(s, x, event) =
        CASE event = "SEC_OK" -> IF s.port[x].attached THEN rfc_send(started, "SABME", d)
                                                       ELSE Crash(s)
          [] event = "SEC_FAILED" -> IF s.port[x].attached THEN EstablishFailed(refused, x)
                                                           ELSE Crash(s)
          [] event = "CLOSE" -> rfc_port_closed(s, x)
          [] OTHER -> s
  BY DEF rfc_port_sm_orig_wait_sec_check
<1> HIDE DEF d, started, refused
<1> QED
  BY <1>2, <1>3, <1>4, RfcPortClosedKeeps, CrashKeeps

\* A port with a connection.
LEMMA OpenedKeeps ==
  ASSUME NEW p, NEW s, IsDevice(p, s), NEW x \in Handles, NEW event,
         s.port[x].attached \/ event \in LateEvents
  PROVE  IsDevice(p, rfc_port_sm_opened(s, x, event))
<1> DEFINE d == s.port[x].dlci
           closed == rfc_send([s EXCEPT !.port[x].sm = "CLOSED"], "UA", d)
<1>1. s.port[x].attached => d \in Dlcis
  BY PortMembers
<1>2. d \in Dlcis \cup {0}
  BY PortMembers
<1> HIDE DEF d
<1>3. IsDevice(p, rfc_send(s, "UA", d))
  BY <1>2, SendKeeps DEF PortFrames, PortCommands
<1>4. d \in Dlcis => IsDevice(p, PORT_DlcReleaseInd(closed, d))
  <2>1. IsDevice(p, [s EXCEPT !.port[x].sm = "CLOSED"])
    BY SetPortSm DEF SmStates
  <2>2. IsDevice(p, closed)
    BY <1>2, <2>1, SendKeeps DEF PortFrames, PortCommands
  <2> HIDE DEF closed
  <2> QED
    BY <2>2, DlcReleaseIndKeeps
<1>5. d \in Dlcis => IsDevice(p, rfc_port_closed(PORT_DlcReleaseInd(s, d), x))
  BY DlcReleaseIndKeeps, RfcPortClosedKeeps
<1>6. rfc_port_sm_opened(s, x, event) =
        CASE event = "CLOSE" -> SendDisc(s, x)
          [] event = "SABME" -> rfc_send(s, "UA", d)
          [] event = "DM" -> rfc_port_closed(PORT_DlcReleaseInd(s, d), x)
          [] event = "DISC" -> PORT_DlcReleaseInd(closed, d)
          [] event = "TIMEOUT" -> PORT_TimeOutCloseMux(s)
          [] OTHER -> s
  BY DEF rfc_port_sm_opened, d
<1> HIDE DEF closed
<1> QED
  BY <1>1, <1>3, <1>4, <1>5, <1>6, SendDiscKeeps, TimeOutCloseMuxKeeps DEF LateEvents

\* A port that waits for the end of its connection.
LEMMA DiscWaitUaKeeps ==
  ASSUME NEW p, NEW s, IsDevice(p, s), NEW x \in Handles, NEW event
  PROVE  IsDevice(p, rfc_port_sm_disc_wait_ua(s, x, event))
<1> DEFINE closing == [s EXCEPT !.mx.is_disc_initiator = TRUE]
<1>1. IsDevice(p, rfc_port_closed(closing, x))
  <2>1. IsDevice(p, closing)
    BY SetIsDiscInitiator
  <2> HIDE DEF closing
  <2> QED
    BY <2>1, RfcPortClosedKeeps
<1>2. IsDevice(p, rfc_send(s, "DM", s.port[x].dlci))
  BY PortMembers, SendKeeps DEF PortFrames, PortCommands
<1> QED
  BY <1>1, <1>2, RfcPortClosedKeeps DEF rfc_port_sm_disc_wait_ua

\* Every event of a port keeps the tables in agreement.
LEMMA PortExecuteKeeps ==
  ASSUME NEW p, NEW s, IsDevice(p, s), NEW x \in Handles, NEW event,
         s.port[x].attached \/ event \in LateEvents
  PROVE  IsDevice(p, rfc_port_sm_execute(s, x, event))
<1>1. s.port[x].sm \in SmStates
  BY PortMembers
<1>2. CASE s.port[x].sm = "CLOSED"
  BY <1>2, ClosedKeeps DEF rfc_port_sm_execute
<1>3. CASE s.port[x].sm = "SABME_WAIT_UA"
  BY <1>3, SabmeWaitUaKeeps DEF rfc_port_sm_execute
<1>4. CASE s.port[x].sm = "ORIG_WAIT_SEC_CHECK"
  BY <1>4, OrigWaitSecCheckKeeps DEF rfc_port_sm_execute
<1>5. CASE s.port[x].sm = "TERM_WAIT_SEC_CHECK"
  BY <1>5, TermWaitSecCheckKeeps DEF rfc_port_sm_execute
<1>6. CASE s.port[x].sm = "OPENED"
  BY <1>6, OpenedKeeps DEF rfc_port_sm_execute
<1>7. CASE s.port[x].sm = "DISC_WAIT_UA"
  BY <1>7, DiscWaitUaKeeps DEF rfc_port_sm_execute
<1> QED
  BY <1>1, <1>2, <1>3, <1>4, <1>5, <1>6, <1>7 DEF SmStates

-----------------------------------------------------------------------------
(* The multiplexer *)

\* Both tables change.
LEMMA SetTables ==
  ASSUME NEW p, NEW s, IsDevice(p, s), NEW h \in [Dlcis -> AnyHandle], NEW q \in [Handles -> Port],
         Agree(q, h)
  PROVE  IsDevice(p, [s EXCEPT !.port_handles = h, !.port = q])
BY DEF IsDevice, Device

\* A port that is in use and on no DLCI, or already on this one, is attached.
LEMMA AttachKeeps ==
  ASSUME NEW p, NEW s, IsDevice(p, s), NEW x \in Handles, NEW d \in Dlcis, s.port[x].in_use,
         ~s.port[x].attached \/ s.port_handles[d] = x
  PROVE  IsDevice(p, Attach(s, x, d)) /\ Attach(s, x, d).mx = s.mx
         /\ Attach(s, x, d).port[x].attached /\ Attach(s, x, d).port_handles[d] = x
<1> DEFINE r == [[s.port[x] EXCEPT !.dlci = d] EXCEPT !.attached = TRUE]
           h == [s.port_handles EXCEPT ![d] = x]
           q == [s.port EXCEPT ![x] = r]
           t == [s EXCEPT !.port_handles = h, !.port = q]
<1>1. /\ s.port \in [Handles -> Port] /\ s.port_handles \in [Dlcis -> AnyHandle]
      /\ Agree(s.port, s.port_handles)
  BY Members
<1>2. r \in Port /\ r.attached /\ r.dlci = d /\ r.in_use
  <2>1. s.port[x] \in Port
    BY <1>1
  <2> QED
    BY <2>1 DEF Port
<1>3. Attach(s, x, d) = t
  BY <1>1 DEF Attach, IsDevice, Device, Port
<1> HIDE DEF r
<1>4. h \in [Dlcis -> AnyHandle] /\ q \in [Handles -> Port] /\ h[d] = x /\ q[x] = r
  BY <1>1, <1>2 DEF AnyHandle
<1>5. \A e \in Dlcis : e # d => s.port_handles[e] # x
  <2>1. x # NoHandle
    BY DEF Handles, NoHandle
  <2> QED
    BY <1>1, <2>1 DEF Agree
<1>6. Agree(q, h)
  BY <1>1, <1>2, <1>5 DEF Agree, AnyHandle
<1>7. t.mx = s.mx /\ t.port = q /\ t.port_handles = h
  <2> HIDE DEF q, h
  <2> QED
    BY DEF IsDevice, Device
<1>8. IsDevice(p, t)
  <2> HIDE DEF q, h
  <2> QED
    BY <1>4, <1>6, SetTables
<1> QED
  BY <1>2, <1>3, <1>4, <1>7, <1>8

\* The ports move to the DLCIs of the other direction and stay attached.
LEMMA SwapDirectionsKeeps ==
  ASSUME NEW p, NEW s, IsDevice(p, s)
  PROVE  /\ IsDevice(p, rfc_mx_swap_directions(s))
         /\ rfc_mx_swap_directions(s).mx = [s.mx EXCEPT !.is_initiator = ~s.mx.is_initiator]
         /\ rfc_mx_swap_directions(s).lcid_mcb = s.lcid_mcb
         /\ rfc_mx_swap_directions(s).ccb = s.ccb /\ rfc_mx_swap_directions(s).made = s.made
<1> DEFINE from == IF s.mx.is_initiator THEN 2 ELSE 3
           to == 5 - from
           x == s.port_handles[from]
           s1 == [s EXCEPT !.mx.is_initiator = ~s.mx.is_initiator]
           r == [s.port[x] EXCEPT !.dlci = s.port[x].dlci + (to - from)]
           h == [[s.port_handles EXCEPT ![from] = NoHandle] EXCEPT ![to] = x]
           q == [s.port EXCEPT ![x] = r]
           t == [s1 EXCEPT !.port_handles = h, !.port = q]
<1>1. from \in Dlcis /\ to \in Dlcis /\ from # to /\ from \in Int /\ to \in Int
  BY DEF Dlcis
<1>2. /\ s.port \in [Handles -> Port] /\ s.port_handles \in [Dlcis -> AnyHandle]
      /\ Agree(s.port, s.port_handles)
  BY Members
<1>3. IsDevice(p, s1)
  BY MxMembers, SetIsInitiator
<1>4. /\ s1.port = s.port /\ s1.port_handles = s.port_handles
      /\ s1.mx = [s.mx EXCEPT !.is_initiator = ~s.mx.is_initiator]
      /\ s1.lcid_mcb = s.lcid_mcb /\ s1.ccb = s.ccb /\ s1.made = s.made
  BY DEF IsDevice, Device
<1>5. CASE x = NoHandle
  <2>1. rfc_mx_swap_directions(s) = s1
    BY <1>5 DEF rfc_mx_swap_directions
  <2> HIDE DEF s1
  <2> QED
    BY <1>3, <1>4, <2>1
<1>6. CASE x # NoHandle
  <2>1. rfc_mx_swap_directions(s) =
          [s1 EXCEPT !.port_handles[from] = NoHandle, !.port_handles[to] = x,
                     !.port[x].dlci = s.port[x].dlci + (to - from)]
    BY <1>6 DEF rfc_mx_swap_directions
  <2> HIDE DEF s1, from, to
  <2>2. rfc_mx_swap_directions(s) = t
    BY <1>3, <1>4, <2>1, ZenonT(60) DEF IsDevice, Device
  <2>3. x \in Handles /\ s.port[x].attached /\ s.port[x].dlci = from
    BY <1>1, <1>6, HandleMembers
  <2> HIDE DEF x
  <2>4. s.port[x] \in Port /\ s.port[x].in_use
    BY <1>2, <2>3 DEF Agree
  <2>5. r \in Port /\ r.attached /\ r.in_use /\ r.dlci = to
    BY <1>1, <2>3, <2>4 DEF Port
  <2> HIDE DEF r
  <2>6. h \in [Dlcis -> AnyHandle] /\ q \in [Handles -> Port]
    BY <1>2, <2>3, <2>5 DEF AnyHandle
  <2>7. \A e \in Dlcis : e # from => s.port_handles[e] # x
    <3>1. x # NoHandle
      BY <2>3 DEF Handles, NoHandle
    <3> QED
      BY <1>2, <2>3, <3>1 DEF Agree
  <2>8. Agree(q, h)
    BY <1>1, <1>2, <2>3, <2>5, <2>7 DEF Agree, AnyHandle
  <2> HIDE DEF q, h
  <2>9. IsDevice(p, t)
    BY <1>3, <2>6, <2>8, SetTables
  <2>10. t.mx = s1.mx /\ t.lcid_mcb = s1.lcid_mcb /\ t.ccb = s1.ccb /\ t.made = s1.made
    BY <1>3 DEF IsDevice, Device
  <2> QED
    BY <1>4, <2>2, <2>9, <2>10
<1> QED
  BY <1>5, <1>6

\* The channel is configured: the initiator sends SABME, the other waits for it.
LEMMA ConfCnfKeeps ==
  ASSUME NEW p, NEW s, IsDevice(p, s)
  PROVE  IsDevice(p, rfc_mx_conf_cnf(s))
<1> DEFINE t == [s EXCEPT !.mx.state = "SABME_WAIT_UA", !.mx.timer = "T1"]
           u == [s EXCEPT !.mx.state = "WAIT_SABME", !.mx.timer = "CONN"]
<1>1. IsDevice(p, t) /\ IsDevice(p, u)
  BY SetState, SetMxTimer DEF MxStates, MxTimers
<1>2. rfc_mx_conf_cnf(s) \in {s, rfc_send(t, "SABME", 0), u}
  BY DEF rfc_mx_conf_cnf
<1> HIDE DEF t, u
<1>3. IsDevice(p, rfc_send(t, "SABME", 0))
  BY <1>1, SendKeeps DEF PortFrames, PortCommands
<1> QED
  BY <1>1, <1>2, <1>3

\* The channel kept aside is forgotten.
LEMMA ForgetCachedKeeps ==
  ASSUME NEW p, NEW s, IsDevice(p, s)
  PROVE  IsDevice(p, ForgetCached(s))
BY SetCollisionLcid, SetCollisionConnCnf, SetCollisionCfgComplete DEF ForgetCached, AnyChannel

\* The channel kept aside is used after all.
LEMMA RetryKeeps ==
  ASSUME NEW p, NEW s, IsDevice(p, s), s.mx.collision_outgoing_lcid # NoChannel
  PROVE  IsDevice(p, rfc_mx_retry_with_cached_lcid(s))
<1> DEFINE cached == s.mx.collision_outgoing_lcid
           s1 == L2CA_DisconnectReq(s, s.mx.lcid)
           mcbs == (s1.lcid_mcb \ {s.mx.lcid}) \cup {cached}
           s2 == [s1 EXCEPT !.lcid_mcb = mcbs, !.mx.lcid = cached]
           s3 == rfc_mx_swap_directions(ForgetCached(s2))
           state == IF s.mx.collision_outgoing_conn_cnf THEN "CONFIGURE" ELSE "WAIT_CONN_CNF"
           s4 == [s3 EXCEPT !.mx.state = state]
<1>1. cached \in Channels
  BY MxMembers DEF AnyChannel
<1>2. IsDevice(p, s1)
  BY DisconnectReqKeeps
<1>3. rfc_mx_retry_with_cached_lcid(s) \in {s4, rfc_mx_conf_cnf(s4)}
  BY DEF rfc_mx_retry_with_cached_lcid
<1>4. state \in MxStates
  BY DEF MxStates
<1> HIDE DEF s1, state
<1>5. mcbs \in SUBSET Channels /\ cached \in AnyChannel
  BY <1>1, <1>2, Members DEF AnyChannel
<1> HIDE DEF mcbs, cached
<1>6. IsDevice(p, s2)
  BY <1>2, <1>5, SetLcidMcb, SetLcid
<1> HIDE DEF s2
<1>7. IsDevice(p, s3)
  BY <1>6, ForgetCachedKeeps, SwapDirectionsKeeps
<1> HIDE DEF s3
<1>8. IsDevice(p, s4)
  BY <1>4, <1>7, SetState
<1> HIDE DEF s4
<1> QED
  BY <1>3, <1>8, ConfCnfKeeps

\* A channel of its own is the multiplexer's.
LEMMA UseChannelKeeps ==
  ASSUME NEW p, NEW s, IsDevice(p, s), NEW c \in Channels
  PROVE  IsDevice(p, [s EXCEPT !.mx.lcid = c, !.lcid_mcb = s.lcid_mcb \cup {c}])
<1>1. c \in AnyChannel /\ s.lcid_mcb \cup {c} \in SUBSET Channels
  BY Members DEF AnyChannel
<1> QED
  BY <1>1, SetLcid, SetLcidMcb

\* The multiplexer is asked to start.
LEMMA StartReqKeeps ==
  ASSUME NEW p \in Peers, NEW s, IsDevice(p, s)
  PROVE  IsDevice(p, rfc_mx_start_req(s))
<1> DEFINE s1 == L2CA_ConnectReq(s)
           c == <<s.self, s1.made>>
           t == [s1 EXCEPT !.mx.lcid = c, !.lcid_mcb = s1.lcid_mcb \cup {c}]
           u == [t EXCEPT !.mx.state = "WAIT_CONN_CNF"]
           again == [s EXCEPT !.mx.restart_required = TRUE]
<1>1. ASSUME s.made < MaxChannels PROVE IsDevice(p, u)
  <2>1. IsDevice(p, s1) /\ c \in Channels
    BY <1>1, ConnectReqKeeps
  <2> HIDE DEF s1, c
  <2>2. IsDevice(p, t)
    BY <2>1, UseChannelKeeps
  <2> HIDE DEF t
  <2> QED
    BY <2>2, SetState DEF MxStates
<1>2. IsDevice(p, again)
  BY SetRestartRequired
<1>3. rfc_mx_start_req(s) =
        CASE s.mx.state = "IDLE" /\ s.made < MaxChannels -> u
          [] s.mx.state = "IDLE" /\ s.made = MaxChannels -> PORT_StartCnf(s, FALSE)
          [] s.mx.state = "DISC_WAIT_UA" -> again
          [] OTHER -> s
  BY DEF rfc_mx_start_req
<1> HIDE DEF u, again
<1>4. \/ s.made < MaxChannels /\ rfc_mx_start_req(s) = u
      \/ rfc_mx_start_req(s) \in {PORT_StartCnf(s, FALSE), again, s}
  BY <1>3
<1> QED
  BY <1>1, <1>2, <1>4, StartCnfKeeps

\* The disconnection of the multiplexer is over.
LEMMA DisconnectedKeeps ==
  ASSUME NEW p \in Peers, NEW s, IsDevice(p, s)
  PROVE  IsDevice(p, rfc_mx_disconnected(s))
<1> DEFINE s1 == L2CA_DisconnectReq(s, s.mx.lcid)
           s2 == L2CA_ConnectReq(s1)
           c == <<s.self, s2.made>>
           failed == [s1 EXCEPT !.lcid_mcb = s1.lcid_mcb \ {s.mx.lcid}, !.mx.lcid = NoChannel]
           t == [s2 EXCEPT !.mx.lcid = c, !.lcid_mcb = s2.lcid_mcb \cup {c}]
           restarted == [t EXCEPT !.mx.timer = "INIT", !.mx.is_initiator = TRUE,
                                  !.mx.restart_required = FALSE, !.mx.state = "WAIT_CONN_CNF"]
<1>1. IsDevice(p, s1) /\ s1.made = s.made /\ s1.mx = s.mx
  BY DisconnectReqKeeps
<1>2. s.made \in 0 .. MaxChannels /\ s.self = p /\ s1.self = p
  BY <1>1, Members
<1>3. \/ rfc_mx_disconnected(s) = rfc_release_multiplexer_channel(s1)
      \/ rfc_mx_disconnected(s) = PORT_StartCnf(failed, FALSE)
      \/ s.made # MaxChannels /\ rfc_mx_disconnected(s) = restarted
  BY DEF rfc_mx_disconnected
<1> HIDE DEF s1
<1>4. IsDevice(p, failed)
  <2>1. s1.lcid_mcb \ {s.mx.lcid} \in SUBSET Channels /\ NoChannel \in AnyChannel
    BY <1>1, Members DEF AnyChannel
  <2> QED
    BY <1>1, <2>1, SetLcidMcb, SetLcid
<1>5. ASSUME s.made # MaxChannels PROVE IsDevice(p, restarted)
  <2>1. s1.made < MaxChannels
    BY <1>1, <1>2, <1>5, BoundsAssumption
  <2>2. IsDevice(p, s2) /\ c \in Channels
    BY <1>1, <1>2, <2>1, ConnectReqKeeps
  <2> HIDE DEF s2, c
  <2>3. IsDevice(p, t)
    BY <2>2, UseChannelKeeps
  <2> HIDE DEF t
  <2> QED
    BY <2>3, SetMxTimer, SetIsInitiator, SetRestartRequired, SetState DEF MxTimers, MxStates
<1> HIDE DEF failed, restarted
<1> QED
  BY <1>1, <1>3, <1>4, <1>5, ReleaseMultiplexerKeeps, StartCnfKeeps

\* The channel cannot be used, and the ports are told.
LEMMA GivingUpKeeps ==
  ASSUME NEW p, NEW s, IsDevice(p, s)
  PROVE  IsDevice(p, StartFailed(s)) /\ IsDevice(p, GiveUp(s)) /\ IsDevice(p, GiveUpIncoming(s))
<1> DEFINE t == [s EXCEPT !.mx.state = "IDLE"]
<1>1. IsDevice(p, t) /\ t.mx.collision_outgoing_lcid = s.mx.collision_outgoing_lcid
  <2>1. IsDevice(p, t)
    BY SetState DEF MxStates
  <2> QED
    BY <2>1 DEF IsDevice, Device, Mx
<1>2. /\ StartFailed(s) = PORT_StartCnf(L2CA_DisconnectReq(t, s.mx.lcid), FALSE)
      /\ GiveUp(s) = PORT_CloseInd(L2CA_DisconnectReq(t, s.mx.lcid))
      /\ GiveUpIncoming(s) = IF s.mx.collision_outgoing_lcid # NoChannel
                             THEN rfc_mx_retry_with_cached_lcid(t) ELSE GiveUp(s)
  BY DEF StartFailed, GiveUp, GiveUpIncoming
<1> HIDE DEF t
<1>3. IsDevice(p, L2CA_DisconnectReq(t, s.mx.lcid))
  BY <1>1, DisconnectReqKeeps
<1>4. s.mx.collision_outgoing_lcid # NoChannel => IsDevice(p, rfc_mx_retry_with_cached_lcid(t))
  BY <1>1, RetryKeeps
<1> QED
  BY <1>2, <1>3, <1>4, StartCnfKeeps, CloseIndKeeps

\* The timer of the multiplexer expires.
LEMMA MxTimeoutKeeps ==
  ASSUME NEW p \in Peers, NEW s, IsDevice(p, s)
  PROVE  IsDevice(p, rfc_mx_timeout(s))
<1>1. IsDevice(p, StartFailed(s)) /\ IsDevice(p, GiveUp(s)) /\ IsDevice(p, GiveUpIncoming(s))
  BY GivingUpKeeps
<1>2. StartFailed(s).mx.collision_outgoing_lcid # NoChannel
        => IsDevice(p, rfc_mx_retry_with_cached_lcid(StartFailed(s)))
  BY <1>1, RetryKeeps
<1>3. IsDevice(p, rfc_mx_close_req(s))
  BY CloseReqKeeps
<1>4. IsDevice(p, rfc_mx_disconnected(s))
  BY DisconnectedKeeps
<1>5. rfc_mx_timeout(s) \in
        {GiveUp(s), GiveUpIncoming(s), StartFailed(s), rfc_mx_close_req(s),
         rfc_mx_disconnected(s), s}
      \/ /\ rfc_mx_timeout(s) = rfc_mx_retry_with_cached_lcid(StartFailed(s))
         /\ StartFailed(s).mx.collision_outgoing_lcid # NoChannel
  BY DEF rfc_mx_timeout
<1> QED
  BY <1>1, <1>2, <1>3, <1>4, <1>5

\* A frame on DLCI 0.
LEMMA MxFrameKeeps ==
  ASSUME NEW p \in Peers, NEW s, IsDevice(p, s), NEW event
  PROVE  IsDevice(p, rfc_mx_frame(s, event))
<1> DEFINE stopped == [s EXCEPT !.mx.timer = "NONE"]
           connected == [stopped EXCEPT !.mx.state = "CONNECTED"]
           answered == rfc_send(s, "UA", 0)
           left == IF s.mx.is_initiator THEN L2CA_DisconnectReq(answered, s.mx.lcid) ELSE answered
<1>1. IsDevice(p, stopped) /\ IsDevice(p, connected)
  <2>1. IsDevice(p, stopped)
    BY SetMxTimer DEF MxTimers
  <2> HIDE DEF stopped
  <2> QED
    BY <2>1, SetState DEF MxStates
<1>2. IsDevice(p, answered) /\ IsDevice(p, rfc_send(s, "DM", 0))
  BY SendKeeps DEF PortFrames, PortCommands
<1>3. rfc_mx_frame(s, event) \in
        {PORT_StartCnf(ForgetCached(rfc_send(connected, "UA", 0)), TRUE),
         PORT_StartCnf(connected, TRUE), StartFailed(stopped), rfc_mx_disconnected(s),
         rfc_send(s, "DM", 0), PORT_CloseInd(left), answered, s}
  BY DEF rfc_mx_frame
<1> HIDE DEF stopped, connected, answered
<1>4. IsDevice(p, left)
  BY <1>2, DisconnectReqKeeps
<1> HIDE DEF left
<1>5. IsDevice(p, PORT_StartCnf(ForgetCached(rfc_send(connected, "UA", 0)), TRUE))
  <2>1. IsDevice(p, rfc_send(connected, "UA", 0))
    BY <1>1, SendKeeps DEF PortFrames, PortCommands
  <2> QED
    BY <2>1, ForgetCachedKeeps, StartCnfKeeps
<1>6. IsDevice(p, PORT_StartCnf(connected, TRUE)) /\ IsDevice(p, StartFailed(stopped))
  BY <1>1, StartCnfKeeps, GivingUpKeeps
<1>7. IsDevice(p, rfc_mx_disconnected(s)) /\ IsDevice(p, PORT_CloseInd(left))
  BY <1>4, DisconnectedKeeps, CloseIndKeeps
<1> QED
  BY <1>2, <1>3, <1>5, <1>6, <1>7

\* Both devices opened a channel; c is the incoming one.
LEMMA CollisionKeeps ==
  ASSUME NEW p, NEW s, IsDevice(p, s), s.mx.lcid \in Channels
  PROVE  IsDevice(p, rfc_mx_collision(s))
<1> DEFINE w == rfc_mx_swap_directions(s)
           used == [w EXCEPT !.lcid_mcb = w.lcid_mcb \cup {s.mx.lcid},
                             !.mx.timer = "COLLISION", !.mx.state = "CONFIGURE"]
           l == L2CA_DisconnectReq(s, s.mx.lcid)
           refused == [l EXCEPT !.mx.lcid = s.mx.collision_outgoing_lcid,
                                !.mx.collision_outgoing_lcid = NoChannel]
<1>1. IsDevice(p, w) /\ IsDevice(p, l)
  BY SwapDirectionsKeeps, DisconnectReqKeeps
<1>2. rfc_mx_collision(s) \in {used, refused}
  BY DEF rfc_mx_collision
<1> HIDE DEF w, l
<1>3. w.lcid_mcb \cup {s.mx.lcid} \in SUBSET Channels
  BY <1>1, Members
<1>4. s.mx.collision_outgoing_lcid \in AnyChannel /\ NoChannel \in AnyChannel
  BY MxMembers DEF AnyChannel
<1>5. IsDevice(p, used)
  BY <1>1, <1>3, SetLcidMcb, SetMxTimer, SetState DEF MxTimers, MxStates
<1>6. IsDevice(p, refused)
  BY <1>1, <1>4, SetLcid, SetCollisionLcid
<1> HIDE DEF used, refused
<1> QED
  BY <1>2, <1>5, <1>6

-----------------------------------------------------------------------------
(* What L2CAP reports *)

\* A multiplexer control block is found or made.
LEMMA AllocKeeps ==
  ASSUME NEW p, NEW s, IsDevice(p, s), NEW initiator \in BOOLEAN
  PROVE  /\ IsDevice(p, rfc_alloc_multiplexer_channel(s, initiator))
         /\ rfc_alloc_multiplexer_channel(s, initiator).port = s.port
         /\ rfc_alloc_multiplexer_channel(s, initiator).lcid_mcb = s.lcid_mcb
<1> DEFINE m == [IdleMx EXCEPT !.is_initiator = initiator, !.timer = "INIT"]
           none == [d \in Dlcis |-> NoHandle]
           fresh == [s EXCEPT !.mx = m, !.port_handles = none]
           known == [s EXCEPT !.mx.timer = "NONE"]
<1>1. m \in Mx
  BY DEF IdleMx, Mx, MxStates, MxTimers, AnyChannel
<1>2. none \in [Dlcis -> AnyHandle] /\ Agree(s.port, none)
  BY Members DEF Agree, AnyHandle
<1>3. rfc_alloc_multiplexer_channel(s, initiator) \in {fresh, known, s}
  BY DEF rfc_alloc_multiplexer_channel
<1> HIDE DEF m, none
<1>4. IsDevice(p, fresh) /\ fresh.port = s.port /\ fresh.lcid_mcb = s.lcid_mcb
  BY <1>1, <1>2 DEF IsDevice, Device
<1>5. IsDevice(p, known) /\ known.port = s.port /\ known.lcid_mcb = s.lcid_mcb
  <2>1. IsDevice(p, known)
    BY SetMxTimer DEF MxTimers
  <2> QED
    BY <2>1 DEF IsDevice, Device
<1> HIDE DEF fresh, known
<1> QED
  BY <1>3, <1>4, <1>5

\* The other device opened a channel.
LEMMA ConnectIndKeeps ==
  ASSUME NEW p, NEW s, IsDevice(p, s), NEW c \in Channels
  PROVE  IsDevice(p, RFCOMM_ConnectInd(s, c))
<1> DEFINE s1 == rfc_alloc_multiplexer_channel(s, FALSE)
           s2 == [s1 EXCEPT !.mx.lcid = c, !.lcid_mcb = s1.lcid_mcb \cup {c}]
           both == [s1 EXCEPT !.mx.collision_outgoing_lcid = s1.mx.lcid, !.mx.lcid = c]
           new == [s2 EXCEPT !.mx.timer = "CONN", !.mx.state = "CONFIGURE"]
<1>1. IsDevice(p, s1)
  BY AllocKeeps
<1>2. RFCOMM_ConnectInd(s, c) \in {rfc_mx_collision(both), new, s2}
  BY DEF RFCOMM_ConnectInd
<1> HIDE DEF s1
<1>3. c \in AnyChannel /\ s1.mx.lcid \in AnyChannel
  BY <1>1, MxMembers DEF AnyChannel
<1>4. IsDevice(p, both) /\ both.mx.lcid = c
  <2>1. IsDevice(p, both)
    BY <1>1, <1>3, SetCollisionLcid, SetLcid
  <2> QED
    BY <1>1, <2>1 DEF IsDevice, Device, Mx
<1> HIDE DEF both
<1>5. IsDevice(p, s2)
  BY <1>1, UseChannelKeeps
<1> HIDE DEF s2
<1>6. IsDevice(p, new)
  BY <1>5, SetMxTimer, SetState DEF MxTimers, MxStates
<1> HIDE DEF new
<1>7. IsDevice(p, rfc_mx_collision(both))
  BY <1>4, CollisionKeeps
<1> QED
  BY <1>2, <1>5, <1>6, <1>7

\* The channel that this device opened is connected; a channel is configured.
LEMMA ChannelCnfKeeps ==
  ASSUME NEW p, NEW s, IsDevice(p, s), NEW c
  PROVE  IsDevice(p, RFCOMM_ConnectCnf(s, c)) /\ IsDevice(p, RFCOMM_ConfigCnf(s, c))
<1>1. IsDevice(p, [s EXCEPT !.mx.collision_outgoing_conn_cnf = TRUE])
  BY SetCollisionConnCnf
<1>2. IsDevice(p, [s EXCEPT !.mx.state = "CONFIGURE"])
  BY SetState DEF MxStates
<1>3. IsDevice(p, [s EXCEPT !.mx.collision_outgoing_cfg_complete = TRUE])
  BY SetCollisionCfgComplete
<1>4. IsDevice(p, RFCOMM_ConnectCnf(s, c))
  BY <1>1, <1>2 DEF RFCOMM_ConnectCnf
<1>5. IsDevice(p, RFCOMM_ConfigCnf(s, c))
  BY <1>3, GivingUpKeeps, ConfCnfKeeps DEF RFCOMM_ConfigCnf
<1> QED
  BY <1>4, <1>5

\* A channel is up.
LEMMA ConnectionOpenKeeps ==
  ASSUME NEW p, NEW s, IsDevice(p, s), NEW c \in Channels
  PROVE  IsDevice(p, l2c_csm_indicate_connection_open(s, c))
<1> DEFINE s1 == [s EXCEPT !.ccb[c] = "OPEN"]
           s2 == IF c[1] = s.self THEN RFCOMM_ConnectCnf(s1, c) ELSE RFCOMM_ConnectInd(s1, c)
<1>1. IsDevice(p, s1)
  BY SetChannel DEF CcbStates
<1>2. l2c_csm_indicate_connection_open(s, c) \in {RFCOMM_ConfigCnf(s2, c), s2}
  BY DEF l2c_csm_indicate_connection_open
<1> HIDE DEF s1
<1>3. IsDevice(p, s2)
  BY <1>1, ChannelCnfKeeps, ConnectIndKeeps
<1> HIDE DEF s2
<1> QED
  BY <1>2, <1>3, ChannelCnfKeeps

\* A channel is gone, or could not be opened.
LEMMA ChannelLostKeeps ==
  ASSUME NEW p, NEW s, IsDevice(p, s), NEW c
  PROVE  IsDevice(p, RFCOMM_DisconnectInd(s, c)) /\ IsDevice(p, rfc_on_l2cap_error(s, c))
<1> DEFINE t == [s EXCEPT !.mx.state = "IDLE"]
<1>1. IsDevice(p, t)
  BY SetState DEF MxStates
<1>2. /\ RFCOMM_DisconnectInd(s, c) \in {ForgetCached(s), PORT_CloseInd(t), s}
      /\ rfc_on_l2cap_error(s, c) \in {ForgetCached(s), PORT_StartCnf(t, FALSE), s}
  BY DEF RFCOMM_DisconnectInd, rfc_on_l2cap_error
<1> HIDE DEF t
<1>3. IsDevice(p, ForgetCached(s)) /\ IsDevice(p, PORT_CloseInd(t)) /\ IsDevice(p, PORT_StartCnf(t, FALSE))
  BY <1>1, ForgetCachedKeeps, CloseIndKeeps, StartCnfKeeps
<1> QED
  BY <1>2, <1>3

\* A signal of L2CAP.
LEMMA L2capSignalKeeps ==
  ASSUME NEW p, NEW s, IsDevice(p, s), NEW k, NEW c \in Channels
  PROVE  IsDevice(p, L2capSignal(s, k, c))
<1> DEFINE closed == [s EXCEPT !.ccb[c] = "CLOSED"]
           configuring == [s EXCEPT !.ccb[c] = "CONFIG"]
<1>1. IsDevice(p, closed) /\ IsDevice(p, configuring)
  BY SetChannel DEF CcbStates
<1>2. L2capSignal(s, k, c) \in
        {Signal(configuring, "CONN_RSP", c), Signal(configuring, "CFG", c),
         l2c_csm_indicate_connection_open(Signal(s, "CFG_RSP", c), c),
         l2c_csm_indicate_connection_open(s, c), rfc_on_l2cap_error(closed, c),
         RFCOMM_DisconnectInd(closed, c), s}
  BY DEF L2capSignal
<1> HIDE DEF closed, configuring
<1>3. {"CONN_RSP", "CFG", "CFG_RSP"} \subseteq Signals
  BY DEF Signals
<1>4. IsDevice(p, Signal(configuring, "CONN_RSP", c)) /\ IsDevice(p, Signal(configuring, "CFG", c))
  BY <1>1, <1>3, SignalKeeps
<1>5. IsDevice(p, l2c_csm_indicate_connection_open(Signal(s, "CFG_RSP", c), c))
  BY <1>3, SignalKeeps, ConnectionOpenKeeps
<1> QED
  BY <1>1, <1>2, <1>4, <1>5, ConnectionOpenKeeps, ChannelLostKeeps

\* The timer of a channel expires.
LEMMA ChannelTimeoutKeeps ==
  ASSUME NEW p, NEW s, IsDevice(p, s), NEW c \in Channels
  PROVE  IsDevice(p, l2c_ccb_timer_timeout(s, c))
<1> DEFINE closed == [s EXCEPT !.ccb[c] = "CLOSED"]
<1>1. IsDevice(p, closed)
  BY SetChannel DEF CcbStates
<1>2. l2c_ccb_timer_timeout(s, c) \in
        {rfc_on_l2cap_error(closed, c), RFCOMM_DisconnectInd(Signal(closed, "DISC_REQ", c), c)}
  BY DEF l2c_ccb_timer_timeout
<1> HIDE DEF closed
<1>3. IsDevice(p, Signal(closed, "DISC_REQ", c))
  BY <1>1, SignalKeeps DEF Signals
<1> QED
  BY <1>1, <1>2, <1>3, ChannelLostKeeps

\* The ACL link is gone.
LEMMA LinkDownKeeps ==
  ASSUME NEW p, NEW s, IsDevice(p, s)
  PROVE  IsDevice(p, LinkDown(s)) /\ LinkDown(s).out = <<>>
<1> DEFINE s1 == [s EXCEPT !.ccb = [c \in Channels |-> "CLOSED"]]
           s2 == RFCOMM_DisconnectInd(s1, s.mx.collision_outgoing_lcid)
           s3 == RFCOMM_DisconnectInd(s2, s.mx.lcid)
<1>1. IsDevice(p, s1)
  BY SetCcb DEF CcbStates
<1>2. LinkDown(s) = [s3 EXCEPT !.out = <<>>]
  BY DEF LinkDown
<1> HIDE DEF s1
<1>3. IsDevice(p, s3)
  BY <1>1, ChannelLostKeeps
<1> HIDE DEF s3
<1>4. IsDevice(p, [s3 EXCEPT !.out = <<>>]) /\ [s3 EXCEPT !.out = <<>>].out = <<>>
  <2>1. <<>> \in Seq(Frame)
    OBVIOUS
  <2>2. IsDevice(p, [s3 EXCEPT !.out = <<>>])
    BY <1>3, <2>1, SetOut
  <2> QED
    BY <1>3, <2>2 DEF IsDevice, Device
<1> QED
  BY <1>2, <1>4

-----------------------------------------------------------------------------
(* Frames and calls *)

\* The other device negotiates: the port that is on the DLCI, or waits for it, is attached.
LEMMA ParNegIndKeeps ==
  ASSUME NEW p, NEW s, IsDevice(p, s), NEW d \in Dlcis
  PROVE  IsDevice(p, PORT_ParNegInd(s, d))
<1> DEFINE y == port_find_dlci_port(s, d)
           x == IF s.port_handles[d] # NoHandle THEN s.port_handles[d] ELSE y
           s1 == Attach(s, x, d)
<1>1. /\ y # NoHandle => y \in Handles /\ s.port[y].in_use /\ ~s.port[y].attached
  BY DEF port_find_dlci_port, Waits, Handles, NoHandle
<1>2. /\ IsDevice(p, rfc_send(s, "DM", d))
  BY SendKeeps DEF PortFrames, PortCommands
<1>3. ASSUME x # NoHandle PROVE IsDevice(p, s1) /\ IsDevice(p, rfc_send(s1, "PN_RSP", d))
  <2>1. CASE s.port_handles[d] # NoHandle
    <3>1. x \in Handles /\ s.port_handles[d] = x /\ s.port[x].attached
      BY <2>1, HandleMembers
    <3>2. s.port[x].in_use
      BY <3>1, PortMembers
    <3> HIDE DEF x
    <3> QED
      BY <3>1, <3>2, AttachKeeps, SendKeeps DEF PortCommands
  <2>2. CASE s.port_handles[d] = NoHandle
    <3>1. x \in Handles /\ s.port[x].in_use /\ ~s.port[x].attached
      BY <1>1, <1>3, <2>2
    <3> HIDE DEF x
    <3> QED
      BY <3>1, AttachKeeps, SendKeeps DEF PortCommands
  <2> QED
    BY <2>1, <2>2
<1>4. \/ PORT_ParNegInd(s, d) = rfc_check_mcb_active(rfc_send(s, "DM", d))
      \/ x # NoHandle /\ PORT_ParNegInd(s, d) \in {rfc_send(s1, "PN_RSP", d), s1}
  BY DEF PORT_ParNegInd
<1> HIDE DEF x
<1> QED
  BY <1>2, <1>3, <1>4, CheckMcbActiveKeeps

\* A negotiated port asks for its connection.
LEMMA DlcEstablishReqKeeps ==
  ASSUME NEW p, NEW s, IsDevice(p, s), NEW d \in Dlcis, s.port_handles[d] # NoHandle
  PROVE  IsDevice(p, RFCOMM_DlcEstablishReq(s, d))
BY HandleMembers, DlcEstablishCnfKeeps, PortExecuteKeeps DEF RFCOMM_DlcEstablishReq

\* A response is no longer waited for.
LEMMA ResponseReceived ==
  ASSUME NEW p, NEW s, IsDevice(p, s), NEW x \in Handles, NEW r \in {"PN", "MSC"}
  PROVE  LET t == [s EXCEPT !.port[x].expected_rsp = s.port[x].expected_rsp \ {r},
                            !.port[x].timer = FALSE]
         IN  IsDevice(p, t) /\ t.port_handles = s.port_handles
<1> DEFINE s1 == [s EXCEPT !.port[x].expected_rsp = s.port[x].expected_rsp \ {r}]
           t == [s1 EXCEPT !.port[x].timer = FALSE]
<1>1. IsDevice(p, s1)
  BY SetOneResponse
<1>2. s1.port_handles = s.port_handles
  BY DEF IsDevice, Device
<1> HIDE DEF s1
<1>3. IsDevice(p, t)
  BY <1>1, SetPortTimer
<1>4. t.port_handles = s1.port_handles
  BY <1>1 DEF IsDevice, Device
<1> QED
  BY <1>2, <1>3, <1>4 DEF s1

\* The frames about the parameters of a port.
LEMMA ProcessPnKeeps ==
  ASSUME NEW p, NEW s, IsDevice(p, s), NEW k, NEW d \in Dlcis
  PROVE  IsDevice(p, rfc_process_pn(s, k, d))
<1> DEFINE x == s.port_handles[d]
           s1 == [s EXCEPT !.port[x].expected_rsp = s.port[x].expected_rsp \ {"PN"},
                           !.port[x].timer = FALSE]
<1>1. \/ rfc_process_pn(s, k, d) \in {rfc_send(s, "DM", d), PORT_ParNegInd(s, d), s}
      \/ x # NoHandle /\ rfc_process_pn(s, k, d) \in {RFCOMM_DlcEstablishReq(s1, d), s1}
  BY DEF rfc_process_pn
<1>2. ASSUME x # NoHandle PROVE IsDevice(p, s1) /\ s1.port_handles[d] # NoHandle
  <2>1. x \in Handles
    BY <1>2, HandleMembers
  <2>2. IsDevice(p, s1) /\ s1.port_handles = s.port_handles
    <3> HIDE DEF x
    <3> QED
      BY <2>1, ResponseReceived
  <2> HIDE DEF s1
  <2> QED
    BY <1>2, <2>2
<1> HIDE DEF s1
<1>3. IsDevice(p, rfc_send(s, "DM", d))
  BY SendKeeps DEF PortFrames, PortCommands
<1> QED
  BY <1>1, <1>2, <1>3, ParNegIndKeeps, DlcEstablishReqKeeps

\* Those about its modem status.
LEMMA ProcessMscKeeps ==
  ASSUME NEW p, NEW s, IsDevice(p, s), NEW k, NEW d \in Dlcis
  PROVE  IsDevice(p, rfc_process_msc(s, k, d))
<1> DEFINE x == s.port_handles[d]
           s1 == rfc_send(s, "MSC_RSP", d)
           t == [s EXCEPT !.port[x].expected_rsp = s.port[x].expected_rsp \ {"MSC"},
                          !.port[x].timer = FALSE]
<1>1. \/ rfc_process_msc(s, k, d) \in {s1, RFCOMM_ControlReq(s1, d), s}
      \/ x # NoHandle /\ rfc_process_msc(s, k, d) = t
  BY DEF rfc_process_msc
<1>2. ASSUME x # NoHandle PROVE IsDevice(p, t)
  <2>1. x \in Handles
    BY <1>2, HandleMembers
  <2> HIDE DEF x
  <2> QED
    BY <2>1, ResponseReceived
<1>3. IsDevice(p, s1)
  BY SendKeeps DEF PortCommands
<1> HIDE DEF t, s1
<1> QED
  BY <1>1, <1>2, <1>3, ControlReqKeeps

\* A frame on the DLCI of a port.
LEMMA PortFrameKeeps ==
  ASSUME NEW p, NEW s, IsDevice(p, s), NEW k, NEW d \in Dlcis
  PROVE  IsDevice(p, PortFrame(s, k, d))
<1> DEFINE x == s.port_handles[d]
           y == port_find_dlci_port(s, d)
<1>1. \/ x # NoHandle /\ PortFrame(s, k, d) = rfc_port_sm_execute(s, x, k)
      \/ PortFrame(s, k, d) \in {rfc_send(s, "DM", d), s}
      \/ y # NoHandle /\ PortFrame(s, k, d) = rfc_port_sm_execute(Attach(s, y, d), y, k)
  BY DEF PortFrame
<1>2. x # NoHandle => IsDevice(p, rfc_port_sm_execute(s, x, k))
  BY HandleMembers, PortExecuteKeeps
<1>3. y # NoHandle => y \in Handles /\ s.port[y].in_use /\ ~s.port[y].attached
  BY DEF port_find_dlci_port, Waits, Handles, NoHandle
<1> HIDE DEF x, y
<1>4. y # NoHandle => IsDevice(p, Attach(s, y, d)) /\ Attach(s, y, d).port[y].attached
  BY <1>3, AttachKeeps
<1>5. y # NoHandle => IsDevice(p, rfc_port_sm_execute(Attach(s, y, d), y, k))
  BY <1>3, <1>4, PortExecuteKeeps
<1>6. IsDevice(p, rfc_send(s, "DM", d))
  BY SendKeeps DEF PortFrames, PortCommands
<1> QED
  BY <1>1, <1>2, <1>5, <1>6

\* Whatever comes over the link.
LEMMA DeliverKeeps ==
  ASSUME NEW p \in Peers, NEW s, IsDevice(p, s), NEW f \in Frame
  PROVE  IsDevice(p, Deliver(s, f))
<1>1. f.c \in Channels /\ f.d \in Dlcis \cup {0} /\ (f.k \in PortCommands => f.d \in Dlcis)
  BY DEF Frame, AnyFrame
<1>2. IsDevice(p, L2capSignal(s, f.k, f.c))
  BY <1>1, L2capSignalKeeps
<1>3. f.k \in PortCommands => /\ IsDevice(p, rfc_process_pn(s, f.k, f.d))
                              /\ IsDevice(p, rfc_process_msc(s, f.k, f.d))
  BY <1>1, ProcessPnKeeps, ProcessMscKeeps
<1>4. IsDevice(p, rfc_mx_frame(s, f.k)) /\ (f.d # 0 => IsDevice(p, PortFrame(s, f.k, f.d)))
  BY <1>1, MxFrameKeeps, PortFrameKeeps
<1>5. \/ RFCOMM_BufDataInd(s, f) \in {s, rfc_mx_frame(s, f.k)}
      \/ /\ f.k \in PortCommands
         /\ RFCOMM_BufDataInd(s, f) \in {rfc_process_pn(s, f.k, f.d), rfc_process_msc(s, f.k, f.d)}
      \/ f.d # 0 /\ RFCOMM_BufDataInd(s, f) = PortFrame(s, f.k, f.d)
  BY DEF RFCOMM_BufDataInd, PortCommands
<1> QED
  BY <1>2, <1>3, <1>4, <1>5 DEF Deliver

\* The application opens its client port.
LEMMA OpenContinueKeeps ==
  ASSUME NEW p \in Peers, NEW s, IsDevice(p, s), ~s.port.cl.in_use
  PROVE  IsDevice(p, port_open_continue(s))
<1> DEFINE d == IF s.mx.state # "IDLE" /\ ~s.mx.is_initiator THEN 3 ELSE 2
           opening == [FreePort EXCEPT !.in_use = TRUE, !.state = "OPENING"]
           t == [s EXCEPT !.port["cl"] = opening]
           s1 == rfc_alloc_multiplexer_channel(t, TRUE)
           s2 == Attach(s1, "cl", d)
<1>1. "cl" \in Handles /\ d \in Dlcis
  BY DEF Handles, Dlcis
<1>2. ~s.port["cl"].attached
  BY <1>1, PortMembers
<1>3. opening \in Port /\ ~opening.attached /\ opening.in_use
  BY DEF FreePort, Port, PortStates, SmStates, Dlcis, Responses
<1>4. port_open_continue(s) \in {RFCOMM_ParameterNegotiationRequest(s2, d), rfc_mx_start_req(s2)}
  BY DEF port_open_continue
<1> HIDE DEF opening, d
<1>5. IsDevice(p, t) /\ t.port["cl"] = opening
  <2>1. IsDevice(p, t)
    BY <1>1, <1>2, <1>3, NotAttached, SetOnePort
  <2> QED
    BY <1>1, <2>1 DEF IsDevice, Device
<1> HIDE DEF t
<1>6. IsDevice(p, s1) /\ s1.port["cl"] = opening
  BY <1>5, AllocKeeps
<1> HIDE DEF s1
<1>7. IsDevice(p, s2)
  BY <1>1, <1>3, <1>6, AttachKeeps
<1> HIDE DEF s2
<1> QED
  BY <1>1, <1>4, <1>7, ParameterNegotiationKeeps, StartReqKeeps

\* It closes a port.
LEMMA StartCloseKeeps ==
  ASSUME NEW p, NEW s, IsDevice(p, s), NEW x \in Handles
  PROVE  IsDevice(p, port_start_close(s, x))
<1> DEFINE s1 == [s EXCEPT !.port[x].state = "CLOSING"]
           y == s.port_handles[s.port[x].dlci]
<1>1. IsDevice(p, s1) /\ s1.port_handles = s.port_handles
  <2>1. IsDevice(p, s1)
    BY SetPortState DEF PortStates
  <2> QED
    BY <2>1 DEF IsDevice, Device
<1>2. \/ port_start_close(s, x) \in {port_release_port(s1, x), s1}
      \/ /\ s.port[x].attached /\ y # NoHandle
         /\ port_start_close(s, x) = rfc_port_sm_execute(s1, y, "CLOSE")
  BY DEF port_start_close
<1> HIDE DEF s1
<1>3. s.port[x].attached /\ y # NoHandle => IsDevice(p, rfc_port_sm_execute(s1, y, "CLOSE"))
  <2>1. s.port[x].attached => s.port[x].dlci \in Dlcis
    BY PortMembers
  <2>2. s.port[x].attached /\ y # NoHandle => y \in Handles /\ s1.port[y].attached
    BY <1>1, <2>1, HandleMembers
  <2> HIDE DEF y
  <2> QED
    BY <1>1, <2>2, PortExecuteKeeps
<1> QED
  BY <1>1, <1>2, <1>3, ReleasePortKeeps

-----------------------------------------------------------------------------
(* The steps *)

Devices == UNION {Device(p) : p \in Peers}

\* Between two handlers.
Inv ==
  /\ stack \in [Peers -> Devices]
  /\ \A p \in Peers : IsDevice(p, stack[p]) /\ stack[p].out = <<>>
  /\ link \in [Peers -> Seq(Frame)]
  /\ budget \in [{"opens", "closes", "faults"} -> Nat]

\* Both devices start with a listening port and nothing else.
LEMMA InitInv == Init => Inv
<1> SUFFICES ASSUME Init PROVE Inv
  OBVIOUS
<1>1. IdleMx \in Mx
  BY DEF IdleMx, Mx, MxStates, MxTimers, AnyChannel
<1>2. /\ FreePort \in Port /\ ~FreePort.attached
      /\ ListeningPort \in Port /\ ~ListeningPort.attached
  BY DEF FreePort, ListeningPort, Port, PortStates, SmStates, Dlcis, Responses
<1>3. ASSUME NEW p \in Peers
      PROVE  IsDevice(p, InitialDevice(p)) /\ InitialDevice(p).out = <<>>
  <2> DEFINE ports == [cl |-> FreePort, sv |-> ListeningPort]
             none == [d \in Dlcis |-> NoHandle]
             closed == [c \in Channels |-> "CLOSED"]
  <2> HIDE DEF FreePort, ListeningPort, IdleMx
  <2>1. ports \in [Handles -> Port] /\ \A x \in Handles : ~ports[x].attached
    BY <1>2 DEF Handles
  <2>2. none \in [Dlcis -> AnyHandle] /\ \A d \in Dlcis : none[d] = NoHandle
    BY DEF AnyHandle
  <2>3. closed \in [Channels -> CcbStates] /\ 0 \in 0 .. MaxChannels /\ <<>> \in Seq(Frame)
    BY BoundsAssumption DEF CcbStates
  <2>4. InitialDevice(p) =
          [self |-> p, mx |-> IdleMx, port_handles |-> none, lcid_mcb |-> {}, port |-> ports,
           ccb |-> closed, made |-> 0, fate |-> "up", out |-> <<>>]
    BY DEF InitialDevice
  <2>5. Agree(ports, none)
    BY <2>1, <2>2 DEF Agree
  <2> HIDE DEF ports, none, closed
  <2> QED
    BY <1>1, <2>1, <2>2, <2>3, <2>4, <2>5 DEF IsDevice, Device
<1>4. stack \in [Peers -> Devices]
  BY <1>3 DEF Init, IsDevice, Devices
<1>5. \A p \in Peers : stack[p] = InitialDevice(p)
  BY DEF Init
<1>6. link \in [Peers -> Seq(Frame)]
  BY DEF Init
<1>7. budget \in [{"opens", "closes", "faults"} -> Nat]
  BY BoundsAssumption DEF Init
<1> QED
  BY <1>3, <1>4, <1>5, <1>6, <1>7 DEF Inv

\* A device that has handed over what it sent.
LEMMA OutSent ==
  ASSUME NEW p, NEW s, IsDevice(p, s)
  PROVE  IsDevice(p, [s EXCEPT !.out = <<>>]) /\ [s EXCEPT !.out = <<>>].out = <<>>
<1>1. <<>> \in Seq(Frame)
  OBVIOUS
<1>2. IsDevice(p, [s EXCEPT !.out = <<>>])
  BY <1>1, SetOut
<1> QED
  BY <1>2 DEF IsDevice, Device

\* One device becomes s, and the links stay links.
LEMMA StackInv ==
  ASSUME Inv, NEW p \in Peers, NEW s, IsDevice(p, s),
         stack' = [stack EXCEPT ![p] = [s EXCEPT !.out = <<>>]],
         link' \in [Peers -> Seq(Frame)],
         budget' \in [{"opens", "closes", "faults"} -> Nat]
  PROVE  Inv'
<1> DEFINE t == [s EXCEPT !.out = <<>>]
<1>1. IsDevice(p, t) /\ t.out = <<>>
  BY OutSent
<1>2. t \in Devices
  BY <1>1 DEF IsDevice, Devices
<1>3. stack' = [stack EXCEPT ![p] = t]
  OBVIOUS
<1> HIDE DEF t
<1>4. stack' \in [Peers -> Devices]
  BY <1>2, <1>3 DEF Inv
<1>5. \A q \in Peers : stack'[q] = IF q = p THEN t ELSE stack[q]
  BY <1>3 DEF Inv
<1>6. \A q \in Peers : IsDevice(q, stack'[q]) /\ stack'[q].out = <<>>
  BY <1>1, <1>5 DEF Inv
<1> QED
  BY <1>4, <1>6 DEF Inv

\* The same for what a handler sends to the other device.
LEMMA BecomesInv ==
  ASSUME Inv, NEW p \in Peers, NEW s, IsDevice(p, s), Becomes(p, s),
         budget' \in [{"opens", "closes", "faults"} -> Nat]
  PROVE  Inv'
<1>1. s.out \in Seq(Frame)
  BY Members
<1>2. link \in [Peers -> Seq(Frame)] /\ link' = [link EXCEPT ![Other(p)] = link[Other(p)] \o s.out]
  BY DEF Becomes, Inv
<1>3. Other(p) \in Peers => link[Other(p)] \o s.out \in Seq(Frame)
  BY <1>1, <1>2, ConcatProperties
<1>4. link' \in [Peers -> Seq(Frame)]
  BY <1>2, <1>3
<1> QED
  BY <1>4, StackInv DEF Becomes

\* What is spent was there.
LEMMA SpendInv ==
  ASSUME Inv, NEW what \in {"opens", "closes", "faults"}, Spend(what)
  PROVE  budget' \in [{"opens", "closes", "faults"} -> Nat]
<1>1. budget \in [{"opens", "closes", "faults"} -> Nat]
  BY DEF Inv
<1> QED
  BY <1>1 DEF Spend

\* Every step keeps the invariant.
LEMMA NextInv ==
  ASSUME Inv, [Next]_vars
  PROVE  Inv'
<1>1. \A p \in Peers : IsDevice(p, stack[p])
  BY DEF Inv
<1>2. budget \in [{"opens", "closes", "faults"} -> Nat] /\ link \in [Peers -> Seq(Frame)]
  BY DEF Inv
<1>3. "sv" \in Handles
  BY DEF Handles
<1>4. CASE LinkLoss
  <2>1. stack' = [p \in Peers |-> LinkDown(stack[p])] /\ link' = [p \in Peers |-> <<>>]
    BY <1>4 DEF LinkLoss
  <2>2. \A p \in Peers : IsDevice(p, stack'[p]) /\ stack'[p].out = <<>>
    BY <1>1, <2>1, LinkDownKeeps
  <2>3. stack' \in [Peers -> Devices]
    BY <1>1, <2>1, LinkDownKeeps DEF IsDevice, Devices
  <2>4. link' \in [Peers -> Seq(Frame)]
    BY <2>1
  <2>5. budget' \in [{"opens", "closes", "faults"} -> Nat]
    BY <1>4, SpendInv DEF LinkLoss
  <2> QED
    BY <2>2, <2>3, <2>4, <2>5 DEF Inv
<1>5. ASSUME NEW p \in Peers, RFCOMM_CreateConnection(p) PROVE Inv'
  <2>1. IsDevice(p, port_open_continue(stack[p]))
    BY <1>1, <1>5, OpenContinueKeeps DEF RFCOMM_CreateConnection
  <2> QED
    BY <1>5, <2>1, SpendInv, BecomesInv DEF RFCOMM_CreateConnection
<1>6. ASSUME NEW p \in Peers, RFCOMM_RemoveServer(p) PROVE Inv'
  <2> DEFINE t == [stack[p] EXCEPT !.port["sv"].keep = FALSE]
  <2>1. IsDevice(p, t)
    BY <1>1, <1>3, SetKeep
  <2>2. Becomes(p, port_start_close(t, "sv")) /\ Spend("closes")
    BY <1>6 DEF RFCOMM_RemoveServer
  <2> HIDE DEF t
  <2>3. IsDevice(p, port_start_close(t, "sv"))
    BY <1>3, <2>1, StartCloseKeeps
  <2> QED
    BY <2>2, <2>3, SpendInv, BecomesInv
<1>7. ASSUME NEW p \in Peers, Receive(p) PROVE Inv'
  <2> DEFINE s == Deliver(stack[p], Head(link[p]))
  <2>1. link[p] \in Seq(Frame) /\ link[p] # <<>> /\ budget' = budget
    BY <1>2, <1>7 DEF Receive
  <2>2. Head(link[p]) \in Frame /\ Tail(link[p]) \in Seq(Frame)
    BY <2>1
  <2>3. IsDevice(p, s)
    BY <1>1, <2>2, DeliverKeeps
  <2>4. /\ stack' = [stack EXCEPT ![p] = [s EXCEPT !.out = <<>>]]
        /\ link' = [[link EXCEPT ![p] = Tail(link[p])] EXCEPT ![Other(p)] = link[Other(p)] \o s.out]
    BY <1>7 DEF Receive
  <2> HIDE DEF s
  <2>5. s.out \in Seq(Frame)
    BY <2>3, Members
  <2> DEFINE left == [link EXCEPT ![p] = Tail(link[p])]
  <2>6. left \in [Peers -> Seq(Frame)]
    BY <1>2, <2>2
  <2>7. link' = [left EXCEPT ![Other(p)] = link[Other(p)] \o s.out]
    BY <2>4
  <2> HIDE DEF left
  <2>8. Other(p) \in Peers => link[Other(p)] \o s.out \in Seq(Frame)
    BY <1>2, <2>5, ConcatProperties
  <2>9. link' \in [Peers -> Seq(Frame)]
    BY <2>6, <2>7, <2>8
  <2> QED
    BY <1>2, <2>1, <2>3, <2>4, <2>9, StackInv
<1>8. ASSUME NEW p \in Peers, Refuse(p) PROVE Inv'
  <2> DEFINE f == [Head(link[p]) EXCEPT !.k = "CONN_RSP_NEG"]
             left == [link EXCEPT ![p] = Tail(link[p])]
  <2>1. link[p] \in Seq(Frame) /\ link[p] # <<>> /\ stack' = stack
    BY <1>2, <1>8 DEF Refuse
  <2>2. Head(link[p]) \in Frame /\ Tail(link[p]) \in Seq(Frame)
    BY <2>1
  <2>3. f \in Frame
    <3>1. Head(link[p]).k = "CONN_REQ"
      BY <1>8 DEF Refuse
    <3> DEFINE g == Head(link[p])
    <3>2. g \in Frame /\ g.k = "CONN_REQ" /\ f = [g EXCEPT !.k = "CONN_RSP_NEG"]
      BY <2>2, <3>1
    <3> HIDE DEF f, g
    <3> QED
      BY <3>2 DEF Frame, AnyFrame, Signals, PortCommands
  <2>4. link' = [left EXCEPT ![Other(p)] = Append(link[Other(p)], f)]
    BY <1>8 DEF Refuse
  <2> HIDE DEF f
  <2>5. left \in [Peers -> Seq(Frame)]
    BY <1>2, <2>2
  <2> HIDE DEF left
  <2>6. Other(p) \in Peers => Append(link[Other(p)], f) \in Seq(Frame)
    BY <1>2, <2>3
  <2>7. link' \in [Peers -> Seq(Frame)]
    BY <2>4, <2>5, <2>6
  <2>8. budget' \in [{"opens", "closes", "faults"} -> Nat]
    BY <1>8, SpendInv DEF Refuse
  <2> QED
    BY <2>1, <2>7, <2>8 DEF Inv
<1>9. ASSUME NEW p \in Peers, rfcomm_mcb_timer_timeout(p) PROVE Inv'
  <2> DEFINE t == [stack[p] EXCEPT !.mx.timer = "NONE"]
  <2>1. IsDevice(p, t)
    BY <1>1, SetMxTimer DEF MxTimers
  <2>2. Becomes(p, rfc_mx_timeout(t)) /\ budget' = budget
    BY <1>9 DEF rfcomm_mcb_timer_timeout
  <2> HIDE DEF t
  <2>3. IsDevice(p, rfc_mx_timeout(t))
    BY <2>1, MxTimeoutKeeps
  <2> QED
    BY <1>2, <2>2, <2>3, BecomesInv
<1>10. ASSUME NEW p \in Peers, NEW c \in Channels, L2capTimeout(p, c) PROVE Inv'
  <2>1. IsDevice(p, l2c_ccb_timer_timeout(stack[p], c))
    BY <1>1, ChannelTimeoutKeeps
  <2> QED
    BY <1>2, <1>10, <2>1, BecomesInv DEF L2capTimeout
<1>11. ASSUME NEW p \in Peers, NEW x \in Handles, RFCOMM_RemoveConnection(p, x) PROVE Inv'
  <2>1. IsDevice(p, port_start_close(stack[p], x))
    BY <1>1, StartCloseKeeps
  <2> QED
    BY <1>11, <2>1, SpendInv, BecomesInv DEF RFCOMM_RemoveConnection
<1>12. ASSUME NEW p \in Peers, NEW x \in Handles, rfcomm_port_timer_timeout(p, x) PROVE Inv'
  <2> DEFINE t == [stack[p] EXCEPT !.port[x].timer = FALSE]
  <2>1. IsDevice(p, t)
    BY <1>1, SetPortTimer
  <2>2. Becomes(p, rfc_port_sm_execute(t, x, "TIMEOUT")) /\ budget' = budget
    BY <1>12 DEF rfcomm_port_timer_timeout
  <2> HIDE DEF t
  <2>3. IsDevice(p, rfc_port_sm_execute(t, x, "TIMEOUT"))
    BY <2>1, PortExecuteKeeps DEF LateEvents
  <2> QED
    BY <1>2, <2>2, <2>3, BecomesInv
<1>13. ASSUME NEW p \in Peers, NEW x \in Handles, SecurityGranted(p, x) PROVE Inv'
  <2>1. IsDevice(p, rfc_port_sm_execute(stack[p], x, "SEC_OK"))
    BY <1>1, PortExecuteKeeps DEF LateEvents
  <2> QED
    BY <1>2, <1>13, <2>1, BecomesInv DEF SecurityGranted
<1>14. ASSUME NEW p \in Peers, NEW x \in Handles, SecurityFailed(p, x) PROVE Inv'
  <2>1. IsDevice(p, rfc_port_sm_execute(stack[p], x, "SEC_FAILED"))
    BY <1>1, PortExecuteKeeps DEF LateEvents
  <2> QED
    BY <1>14, <2>1, SpendInv, BecomesInv DEF SecurityFailed
<1>15. CASE UNCHANGED vars
  BY <1>15 DEF vars, Inv
<1> QED
  BY <1>4, <1>5, <1>6, <1>7, <1>8, <1>9, <1>10, <1>11, <1>12, <1>13, <1>14, <1>15 DEF Next

-----------------------------------------------------------------------------
(* What is on its way *)

\* A frame that is about a channel: a signal of L2CAP or, on DLCI 0, one of
\* the multiplexer.
Is(f, k, c) == f.k = k /\ f.c = c /\ f.d = 0

\* A frame of RFCOMM, whatever its DLCI.
IsData(f, c) == f.c = c /\ f.k \notin Signals

Has(L, k, c) == \E i \in 1 .. Len(L) : Is(L[i], k, c)
HasData(L, c) == \E i \in 1 .. Len(L) : IsData(L[i], c)
About(L, c) == \E i \in 1 .. Len(L) : L[i].c = c
Single(L, k, c) == \A i, j \in 1 .. Len(L) : Is(L[i], k, c) /\ Is(L[j], k, c) => i = j

\* The first frame of RFCOMM on the channel is the SABME of the multiplexer.
Led(L, c) ==
  \A j \in 1 .. Len(L) : IsData(L[j], c) => \E i \in 1 .. j : Is(L[i], "SABME", c)

\* Each k of channel c comes after a k1 or k2 of channel b.
Preceded(L, k, c, k1, k2, b) ==
  \A j \in 1 .. Len(L) :
    Is(L[j], k, c) => \E i \in 1 .. j : Is(L[i], k1, b) \/ Is(L[i], k2, b)

\* Each k of channel b comes before one of channel c.
Followed(L, k, b, c) ==
  \A i \in 1 .. Len(L) : Is(L[i], k, b) => \E j \in 1 .. Len(L) : j >= i /\ Is(L[j], k, c)

\* M is L with f behind it.
Added(L, f, M) ==
  /\ \A k, c : Has(M, k, c) <=> Has(L, k, c) \/ Is(f, k, c)
  /\ \A c : HasData(M, c) <=> HasData(L, c) \/ IsData(f, c)
  /\ \A c : About(M, c) <=> About(L, c) \/ f.c = c
  /\ \A k, c : Single(L, k, c) /\ ~(Has(L, k, c) /\ Is(f, k, c)) => Single(M, k, c)
  /\ \A c : Led(L, c) /\ (IsData(f, c) => Has(L, "SABME", c) \/ Is(f, "SABME", c)) => Led(M, c)
  /\ \A k, c, k1, k2, b :
       Preceded(L, k, c, k1, k2, b) /\ (Is(f, k, c) => Has(L, k1, b) \/ Has(L, k2, b))
         => Preceded(M, k, c, k1, k2, b)
  /\ \A k, b, c :
       Is(f, k, c) \/ (Followed(L, k, b, c) /\ ~Is(f, k, b)) => Followed(M, k, b, c)

\* M is L without its head f.
Taken(L, f, M) ==
  /\ \A k, c : Has(L, k, c) <=> Has(M, k, c) \/ Is(f, k, c)
  /\ \A c : HasData(L, c) <=> HasData(M, c) \/ IsData(f, c)
  /\ \A c : About(L, c) <=> About(M, c) \/ f.c = c
  /\ \A k, c : Single(L, k, c) => Single(M, k, c) /\ ~(Has(M, k, c) /\ Is(f, k, c))
  /\ \A c : Led(L, c) => (Is(f, "SABME", c) \/ (Led(M, c) /\ ~IsData(f, c)))
  /\ \A k, c, k1, k2, b :
       Preceded(L, k, c, k1, k2, b) =>
         Is(f, k1, b) \/ Is(f, k2, b) \/ (Preceded(M, k, c, k1, k2, b) /\ ~Is(f, k, c))
  /\ \A k, b, c : Followed(L, k, b, c) => Followed(M, k, b, c)

\* One more frame.
LEMMA AppendAdds ==
  ASSUME NEW L \in Seq(Frame), NEW f \in Frame
  PROVE  Append(L, f) \in Seq(Frame) /\ Added(L, f, Append(L, f))
<1> DEFINE M == Append(L, f)
<1>1. /\ M \in Seq(Frame) /\ Len(M) = Len(L) + 1 /\ Len(L) \in Nat
      /\ M[Len(L) + 1] = f
      /\ \A i \in 1 .. Len(L) : M[i] = L[i]
  OBVIOUS
<1> HIDE DEF M
<1>a. \A i \in 1 .. Len(M) : i \in 1 .. Len(L) \/ i = Len(M)
  BY <1>1
<1>b. Len(M) \in 1 .. Len(M) /\ M[Len(M)] = f /\ 1 .. Len(L) \subseteq 1 .. Len(M)
  BY <1>1
<1>2. \A k, c : Has(M, k, c) <=> Has(L, k, c) \/ Is(f, k, c)
  BY <1>1, <1>a, <1>b DEF Has
<1>3. \A c : HasData(M, c) <=> HasData(L, c) \/ IsData(f, c)
  BY <1>1, <1>a, <1>b DEF HasData
<1>4. \A c : About(M, c) <=> About(L, c) \/ f.c = c
  BY <1>1, <1>a, <1>b DEF About
<1>5. \A k, c : Single(L, k, c) /\ ~(Has(L, k, c) /\ Is(f, k, c)) => Single(M, k, c)
  BY <1>1, <1>a, <1>b DEF Has, Single
<1>6. \A c : Led(L, c) /\ (IsData(f, c) => Has(L, "SABME", c) \/ Is(f, "SABME", c)) => Led(M, c)
  <2> SUFFICES ASSUME NEW c, Led(L, c),
                      IsData(f, c) => Has(L, "SABME", c) \/ Is(f, "SABME", c),
                      NEW j \in 1 .. Len(M), IsData(M[j], c)
               PROVE  \E i \in 1 .. j : Is(M[i], "SABME", c)
    BY DEF Led
  <2>1. CASE j \in 1 .. Len(L)
    <3>1. PICK i \in 1 .. j : Is(L[i], "SABME", c)
      BY <2>1, <1>1 DEF Led
    <3> QED
      BY <3>1, <2>1, <1>1
  <2>2. CASE j = Len(M)
    <3>1. CASE Is(f, "SABME", c)
      BY <3>1, <2>2, <1>b
    <3>2. CASE Has(L, "SABME", c)
      <4>1. PICK i \in 1 .. Len(L) : Is(L[i], "SABME", c)
        BY <3>2 DEF Has
      <4> QED
        BY <4>1, <2>2, <1>1
    <3> QED
      BY <3>1, <3>2, <2>2, <1>b
  <2> QED
    BY <2>1, <2>2, <1>a
<1>7. \A k, c, k1, k2, b :
        Preceded(L, k, c, k1, k2, b) /\ (Is(f, k, c) => Has(L, k1, b) \/ Has(L, k2, b))
          => Preceded(M, k, c, k1, k2, b)
  <2> SUFFICES ASSUME NEW k, NEW c, NEW k1, NEW k2, NEW b, Preceded(L, k, c, k1, k2, b),
                      Is(f, k, c) => Has(L, k1, b) \/ Has(L, k2, b)
               PROVE  Preceded(M, k, c, k1, k2, b)
    OBVIOUS
  <2> SUFFICES ASSUME NEW j \in 1 .. Len(M), Is(M[j], k, c)
               PROVE  \E i \in 1 .. j : Is(M[i], k1, b) \/ Is(M[i], k2, b)
    BY DEF Preceded
  <2>1. CASE j \in 1 .. Len(L)
    <3>1. PICK i \in 1 .. j : Is(L[i], k1, b) \/ Is(L[i], k2, b)
      BY <2>1, <1>1 DEF Preceded
    <3> QED
      BY <3>1, <2>1, <1>1
  <2>2. CASE j = Len(M)
    <3>1. PICK i \in 1 .. Len(L) : Is(L[i], k1, b) \/ Is(L[i], k2, b)
      BY <2>2, <1>b DEF Has
    <3> QED
      BY <3>1, <2>2, <1>1
  <2> QED
    BY <2>1, <2>2, <1>a
<1>8. \A k, b, c :
        Is(f, k, c) \/ (Followed(L, k, b, c) /\ ~Is(f, k, b)) => Followed(M, k, b, c)
  <2> SUFFICES ASSUME NEW k, NEW b, NEW c,
                      Is(f, k, c) \/ (Followed(L, k, b, c) /\ ~Is(f, k, b)),
                      NEW i \in 1 .. Len(M), Is(M[i], k, b)
               PROVE  \E j \in 1 .. Len(M) : j >= i /\ Is(M[j], k, c)
    BY DEF Followed
  <2>1. CASE Is(f, k, c)
    BY <2>1, <1>b, <1>1
  <2>2. CASE Followed(L, k, b, c) /\ ~Is(f, k, b)
    <3>1. i \in 1 .. Len(L) /\ Is(L[i], k, b)
      BY <2>2, <1>a, <1>1, <1>b
    <3>2. PICK j \in 1 .. Len(L) : j >= i /\ Is(L[j], k, c)
      BY <3>1, <2>2 DEF Followed
    <3> QED
      BY <3>2, <1>b, <1>1
  <2> QED
    BY <2>1, <2>2
<1> QED
  BY <1>1, <1>2, <1>3, <1>4, <1>5, <1>6, <1>7, <1>8 DEF Added, M

\* One frame less.
LEMMA TailTakes ==
  ASSUME NEW L \in Seq(Frame), L # <<>>
  PROVE  Tail(L) \in Seq(Frame) /\ Head(L) \in Frame /\ Taken(L, Head(L), Tail(L))
<1> DEFINE M == Tail(L)
           f == Head(L)
<1>1. /\ M \in Seq(Frame) /\ f \in Frame /\ Len(L) = Len(M) + 1 /\ Len(M) \in Nat /\ f = L[1]
      /\ \A i \in 1 .. Len(M) : M[i] = L[i + 1]
  OBVIOUS
<1> HIDE DEF M, f
<1>a. /\ \A i \in 1 .. Len(L) : i = 1 \/ (i - 1 \in 1 .. Len(M) /\ M[i - 1] = L[i])
      /\ \A i \in 1 .. Len(M) : i + 1 \in 1 .. Len(L)
      /\ 1 \in 1 .. Len(L)
  <2>1. \A i \in 1 .. Len(L) : i = 1 \/ i - 1 \in 1 .. Len(M)
    BY <1>1
  <2>2. \A i \in 1 .. Len(L) : i = 1 \/ M[i - 1] = L[(i - 1) + 1]
    BY <2>1, <1>1
  <2>3. \A i \in 1 .. Len(L) : (i - 1) + 1 = i
    BY <1>1
  <2> QED
    BY <1>1, <2>1, <2>2, <2>3
<1>2. \A k, c : Has(L, k, c) <=> Has(M, k, c) \/ Is(f, k, c)
  BY <1>1, <1>a DEF Has
<1>3. \A c : HasData(L, c) <=> HasData(M, c) \/ IsData(f, c)
  BY <1>1, <1>a DEF HasData
<1>4. \A c : About(L, c) <=> About(M, c) \/ f.c = c
  BY <1>1, <1>a DEF About
<1>5. \A k, c : Single(L, k, c) => Single(M, k, c) /\ ~(Has(M, k, c) /\ Is(f, k, c))
  <2> SUFFICES ASSUME NEW k, NEW c, Single(L, k, c)
               PROVE  Single(M, k, c) /\ ~(Has(M, k, c) /\ Is(f, k, c))
    OBVIOUS
  <2>1. Single(M, k, c)
    <3> SUFFICES ASSUME NEW i \in 1 .. Len(M), NEW j \in 1 .. Len(M),
                        Is(M[i], k, c), Is(M[j], k, c)
                 PROVE  i = j
      BY DEF Single
    <3>1. i + 1 = j + 1
      BY <1>1, <1>a DEF Single
    <3> QED
      BY <3>1
  <2>2. ASSUME Has(M, k, c), Is(f, k, c) PROVE FALSE
    <3>1. PICK i \in 1 .. Len(M) : Is(M[i], k, c)
      BY <2>2 DEF Has
    <3>2. i + 1 = 1
      BY <3>1, <2>2, <1>1, <1>a DEF Single
    <3> QED
      BY <3>2
  <2> QED
    BY <2>1, <2>2
<1>6. \A c : Led(L, c) => (Is(f, "SABME", c) \/ (Led(M, c) /\ ~IsData(f, c)))
  <2> SUFFICES ASSUME NEW c, Led(L, c), ~Is(f, "SABME", c)
               PROVE  Led(M, c) /\ ~IsData(f, c)
    OBVIOUS
  <2>1. ~IsData(f, c)
    BY <1>1, <1>a DEF Led
  <2>2. ASSUME NEW j \in 1 .. Len(M), IsData(M[j], c)
        PROVE  \E i \in 1 .. j : Is(M[i], "SABME", c)
    <3>1. PICK i \in 1 .. j + 1 : Is(L[i], "SABME", c)
      BY <2>2, <1>1, <1>a DEF Led
    <3>2. i # 1 /\ i \in 1 .. Len(L)
      BY <3>1, <1>1
    <3>3. i - 1 \in 1 .. j /\ Is(M[i - 1], "SABME", c)
      BY <3>1, <3>2, <1>a
    <3> QED
      BY <3>3
  <2> QED
    BY <2>1, <2>2 DEF Led
<1>7. \A k, c, k1, k2, b :
        Preceded(L, k, c, k1, k2, b) =>
          Is(f, k1, b) \/ Is(f, k2, b) \/ (Preceded(M, k, c, k1, k2, b) /\ ~Is(f, k, c))
  <2> SUFFICES ASSUME NEW k, NEW c, NEW k1, NEW k2, NEW b, Preceded(L, k, c, k1, k2, b),
                      ~Is(f, k1, b), ~Is(f, k2, b)
               PROVE  Preceded(M, k, c, k1, k2, b) /\ ~Is(f, k, c)
    OBVIOUS
  <2>1. ~Is(f, k, c)
    BY <1>1, <1>a DEF Preceded
  <2>2. ASSUME NEW j \in 1 .. Len(M), Is(M[j], k, c)
        PROVE  \E i \in 1 .. j : Is(M[i], k1, b) \/ Is(M[i], k2, b)
    <3>1. PICK i \in 1 .. j + 1 : Is(L[i], k1, b) \/ Is(L[i], k2, b)
      BY <2>2, <1>1, <1>a DEF Preceded
    <3>2. i # 1 /\ i \in 1 .. Len(L)
      BY <3>1, <1>1
    <3>3. i - 1 \in 1 .. j /\ (Is(M[i - 1], k1, b) \/ Is(M[i - 1], k2, b))
      BY <3>1, <3>2, <1>a
    <3> QED
      BY <3>3
  <2> QED
    BY <2>1, <2>2 DEF Preceded
<1>8. \A k, b, c : Followed(L, k, b, c) => Followed(M, k, b, c)
  <2> SUFFICES ASSUME NEW k, NEW b, NEW c, Followed(L, k, b, c),
                      NEW i \in 1 .. Len(M), Is(M[i], k, b)
               PROVE  \E j \in 1 .. Len(M) : j >= i /\ Is(M[j], k, c)
    BY DEF Followed
  <2>1. PICK j \in 1 .. Len(L) : j >= i + 1 /\ Is(L[j], k, c)
    BY <1>1, <1>a DEF Followed
  <2>2. j - 1 \in 1 .. Len(M) /\ j - 1 >= i /\ Is(M[j - 1], k, c)
    BY <2>1, <1>1, <1>a
  <2> QED
    BY <2>2
<1> QED
  BY <1>1, <1>2, <1>3, <1>4, <1>5, <1>6, <1>7, <1>8 DEF Taken, M, f

\* Nothing about a channel is no frame of it,
LEMMA NothingAbout ==
  ASSUME NEW L, NEW c, ~About(L, c)
  PROVE  ~HasData(L, c) /\ \A k : ~Has(L, k, c)
BY DEF About, HasData, Has, Is, IsData

\* no frame of RFCOMM is no SABME, UA, DISC or DM,
LEMMA NoData ==
  ASSUME NEW L, NEW c, ~HasData(L, c)
  PROVE  /\ ~Has(L, "SABME", c) /\ ~Has(L, "UA", c) /\ ~Has(L, "DISC", c) /\ ~Has(L, "DM", c)
         /\ Led(L, c)
BY DEF HasData, Has, Is, IsData, Led, Signals

\* and what is not there is alone and in any order.
LEMMA Vacuous ==
  ASSUME NEW L, NEW k, NEW c, ~Has(L, k, c)
  PROVE  /\ Single(L, k, c)
         /\ \A k1, k2, b : Preceded(L, k, c, k1, k2, b)
         /\ \A b : Followed(L, k, c, b)
BY DEF Has, Single, Preceded, Followed

\* What is followed by nothing is not there.
LEMMA NotFollowed ==
  ASSUME NEW L, NEW k, NEW b, NEW c, Followed(L, k, b, c), ~Has(L, k, c)
  PROVE  ~Has(L, k, b)
BY DEF Followed, Has

-----------------------------------------------------------------------------
(* A channel, seen from both of its ends *)

\* What a channel is to a device: a channel that it has not opened yet, or the
\* state of L2CAP for a channel that is not open; LIVE says that the
\* multiplexer is to use the channel when it opens, and READY that it opened.
\* A channel that is open is in use, in the state of the multiplexer, or SPARE.
Asking == {"W4", "W4_LIVE"}
Configuring == {"CONFIG", "CONFIG_LIVE"}
Engaged == {"CONNECTED", "DISC_WAIT_UA"}
OpenAtOwner == {"READY", "SPARE", "SABME_WAIT_UA"} \cup Engaged
OpenAtOther == {"SPARE", "WAIT_SABME"} \cup Engaged
Young == {"NEW", "READY"} \cup Asking \cup Configuring
Using == {"CONFIG_LIVE", "READY", "SABME_WAIT_UA"} \cup Engaged

\* The setup of channel c.  Its owner, the device that opened it, sees it as x
\* and the other device as y; La is what is on its way to the other device and
\* Lo what is on its way to the owner.
Handshake(c, x, y, La, Lo) ==
  /\ x \in {"NEW", "CLOSED"} \cup Asking \cup Configuring \cup OpenAtOwner
  /\ y \in {"CLOSED", "CONFIG"} \cup OpenAtOther
  /\ x = "NEW" => y = "CLOSED" /\ ~About(La, c) /\ ~About(Lo, c)
  /\ Has(La, "CONN_REQ", c) =>
       /\ y = "CLOSED" /\ x \in Asking \cup {"CLOSED"} /\ ~Has(La, "CFG", c)
       /\ ~Has(Lo, "CONN_RSP", c) /\ ~Has(Lo, "CONN_RSP_NEG", c)
       /\ ~Has(Lo, "CFG_RSP", c) /\ ~Has(Lo, "DISC_REQ", c)
  /\ Has(Lo, "CONN_RSP", c) \/ x \in Asking =>
       ~Has(La, "CFG", c) /\ ~Has(Lo, "CFG_RSP", c) /\ x \in Asking \cup {"CLOSED"}
  /\ x \in Asking =>
       Has(La, "CONN_REQ", c) \/ Has(Lo, "CONN_RSP", c) \/ Has(Lo, "CONN_RSP_NEG", c)
  /\ Has(La, "CFG", c) => ~Has(Lo, "CFG_RSP", c) /\ x \in Configuring \cup {"CLOSED"}
  /\ x \in OpenAtOwner \/ Has(Lo, "CFG_RSP", c) \/ HasData(La, c) =>
       y # "CONFIG" /\ ~Has(La, "CFG", c) /\ ~Has(La, "CONN_REQ", c)
  /\ ~Has(Lo, "CONN_REQ", c) /\ ~Has(Lo, "CFG", c)
  /\ ~Has(La, "CONN_RSP", c) /\ ~Has(La, "CONN_RSP_NEG", c) /\ ~Has(La, "CFG_RSP", c)
  /\ Has(La, "DISC_REQ", c) => x = "CLOSED"
  /\ Has(Lo, "DISC_REQ", c) => y = "CLOSED"
  /\ Single(La, "CONN_REQ", c) /\ Single(La, "CFG", c) /\ Single(Lo, "CONN_RSP", c)

\* The multiplexers over it: what SABME, UA and DISC on their way mean, and
\* when one end may be connected.
Dialogue(c, x, y, La, Lo) ==
  /\ x \in Young => ~HasData(La, c) /\ ~Has(Lo, "UA", c) /\ ~Has(Lo, "DISC", c)
  /\ Single(La, "SABME", c)
  /\ Has(La, "SABME", c) /\ y \in OpenAtOther =>
       \/ x = "SABME_WAIT_UA" /\ ~Has(Lo, "UA", c)
       \/ x = "CLOSED" /\ Has(La, "DISC_REQ", c)
  /\ Has(La, "DISC", c) => x \in {"CLOSED", "DISC_WAIT_UA"}
  /\ x = "SABME_WAIT_UA" =>
       /\ Has(Lo, "UA", c) => \/ y = "CLOSED" /\ Has(Lo, "DISC_REQ", c)
                              \/ y = "CONNECTED"
                              \/ y = "DISC_WAIT_UA" /\ Has(Lo, "DISC", c)
       /\ Preceded(Lo, "DISC", c, "UA", "UA", c)
  /\ y \in Engaged =>
       \/ x = "CLOSED" /\ Has(La, "DISC_REQ", c)
       \/ x = "SABME_WAIT_UA" /\ Has(Lo, "UA", c)
       \/ x = "CONNECTED"
       \/ x = "DISC_WAIT_UA" /\ (y = "CONNECTED" => Has(La, "DISC", c))
  /\ x = "CONNECTED" =>
       \/ y = "CLOSED" /\ Has(Lo, "DISC_REQ", c)
       \/ y = "CONNECTED"
       \/ y = "DISC_WAIT_UA" /\ Has(Lo, "DISC", c)

\* Who waits for an answer over it has one coming, or to come.
Awaited(c, x, y, La, Lo) ==
  /\ x = "SABME_WAIT_UA" =>
       \/ Has(La, "SABME", c) /\ y = "WAIT_SABME"
       \/ Has(Lo, "UA", c)
       \/ Has(Lo, "DISC_REQ", c)
  /\ x = "READY" \/ (x = "CONFIG_LIVE" /\ Has(Lo, "CFG_RSP", c)) =>
       y = "WAIT_SABME" \/ Has(Lo, "DISC_REQ", c)
  /\ x = "DISC_WAIT_UA" =>
       \/ Has(Lo, "UA", c) \/ Has(Lo, "DM", c) \/ Has(Lo, "DISC_REQ", c)
       \/ Has(La, "DISC", c) /\ y \in Engaged
  /\ y = "DISC_WAIT_UA" =>
       \/ Has(La, "UA", c) \/ Has(La, "DM", c) \/ Has(La, "DISC_REQ", c)
       \/ Has(Lo, "DISC", c) /\ x \in Engaged \cup {"SABME_WAIT_UA"}
  /\ x = "DISC_WAIT_UA" => y # "WAIT_SABME"
  /\ y = "WAIT_SABME" => Led(La, c)

\* Two channels of the same owner: the requests for them are answered in
\* order, and an older channel is never configured in the midst of the dialogue
\* over c.
Ordered(c, b, u, w, La, Lo) ==
  /\ u[c] \in Using \cup {"W4_LIVE"} /\ b[2] > c[2] => u[b] = "NEW"
  /\ u[b] \in Asking /\ b[2] < c[2] =>
       /\ u[c] \notin Configuring \cup OpenAtOwner
       /\ Preceded(Lo, "CONN_RSP", c, "CONN_RSP", "CONN_RSP_NEG", b)
       /\ \/ Preceded(La, "CONN_REQ", c, "CONN_REQ", "CONN_REQ", b)
          \/ Has(Lo, "CONN_RSP", b)
          \/ Has(Lo, "CONN_RSP_NEG", b)
  /\ w[c] \in Engaged \/ (w[c] \in OpenAtOther /\ Has(La, "SABME", c)) =>
       Preceded(La, "CFG", b, "DISC_REQ", "DISC_REQ", c)
  /\ u[c] \in Using => Followed(La, "CFG", b, c)

At(c, u, w, La, Lo) ==
  /\ Handshake(c, u[c], w[c], La, Lo)
  /\ Dialogue(c, u[c], w[c], La, Lo)
  /\ Awaited(c, u[c], w[c], La, Lo)

\* The channels that device o opened.
Own(o, u, w, La, Lo) ==
  /\ \A c \in Channels : c[1] = o => At(c, u, w, La, Lo)
  /\ \A c, b \in Channels : c[1] = o /\ b[1] = o /\ b # c => Ordered(c, b, u, w, La, Lo)

\* Two channels of a device are opened one after the other.
LEMMA Mates ==
  ASSUME NEW b \in Channels, NEW c \in Channels, b[1] = c[1], b # c
  PROVE  b[2] \in Nat /\ c[2] \in Nat /\ (b[2] < c[2] \/ c[2] < b[2])
BY BoundsAssumption DEF Channels

\* L and M have the same to say of every channel but k.
Beside(L, M, k) ==
  /\ \A c : c # k =>
       /\ \A j : Has(M, j, c) <=> Has(L, j, c)
       /\ HasData(M, c) <=> HasData(L, c)
       /\ About(M, c) <=> About(L, c)
       /\ \A j : Single(L, j, c) => Single(M, j, c)
       /\ Led(L, c) => Led(M, c)
  /\ \A c, b : c # k /\ b # k =>
       /\ \A j, k1, k2 : Preceded(L, j, c, k1, k2, b) => Preceded(M, j, c, k1, k2, b)
       /\ \A j : Followed(L, j, b, c) => Followed(M, j, b, c)

\* A queue says of every channel what it says.
LEMMA BesideSelf == ASSUME NEW L, NEW k PROVE Beside(L, L, k)
BY DEF Beside

\* Two changes about channel k are one.
LEMMA BesideTrans ==
  ASSUME NEW L, NEW M, NEW N, NEW k, Beside(L, M, k), Beside(M, N, k)
  PROVE  Beside(L, N, k)
BY DEF Beside

\* A frame about channel k is added.
LEMMA BesideAdded ==
  ASSUME NEW L, NEW f, NEW M, Added(L, f, M)
  PROVE  Beside(L, M, f.c)
BY DEF Beside, Added, Is, IsData

\* A frame about channel k is taken.
LEMMA BesideTaken ==
  ASSUME NEW L, NEW f, NEW M, Taken(L, f, M)
  PROVE  Beside(L, M, f.c)
BY DEF Beside, Taken, Is, IsData

\* The same device's view of every channel but k.
SameBut(u, v, k) == \A c \in Channels : c # k => v[c] = u[c]

\* A step on channel k concerns k alone, and k beside its mates.
LEMMA StepAt ==
  ASSUME NEW o, NEW u, NEW w, NEW La, NEW Lo, Own(o, u, w, La, Lo),
         NEW u2, NEW w2, NEW La2, NEW Lo2, NEW k \in Channels, k[1] = o,
         SameBut(u, u2, k), SameBut(w, w2, k), Beside(La, La2, k), Beside(Lo, Lo2, k),
         At(k, u2, w2, La2, Lo2),
         \A b \in Channels : b[1] = o /\ b # k =>
           Ordered(k, b, u2, w2, La2, Lo2) /\ Ordered(b, k, u2, w2, La2, Lo2)
  PROVE  Own(o, u2, w2, La2, Lo2)
<1>1. ASSUME NEW c \in Channels, c[1] = o, c # k PROVE At(c, u2, w2, La2, Lo2)
  <2>1. At(c, u, w, La, Lo) /\ u2[c] = u[c] /\ w2[c] = w[c]
    BY <1>1 DEF Own, SameBut
  <2>2. Handshake(c, u[c], w[c], La2, Lo2)
    BY <2>1, <1>1 DEF At, Handshake, Beside
  <2>3. Dialogue(c, u[c], w[c], La2, Lo2)
    BY <2>1, <1>1 DEF At, Dialogue, Beside
  <2>4. Awaited(c, u[c], w[c], La2, Lo2)
    BY <2>1, <1>1 DEF At, Awaited, Beside
  <2> QED
    BY <2>1, <2>2, <2>3, <2>4 DEF At
<1>2. ASSUME NEW c \in Channels, NEW b \in Channels, c[1] = o, b[1] = o, b # c, c # k, b # k
      PROVE  Ordered(c, b, u2, w2, La2, Lo2)
  <2>1. Ordered(c, b, u, w, La, Lo) /\ u2[c] = u[c] /\ w2[c] = w[c] /\ u2[b] = u[b]
    BY <1>2 DEF Own, SameBut
  <2> QED
    BY <2>1, <1>2 DEF Ordered, Beside
<1> QED
  BY <1>1, <1>2 DEF Own

\* A step on a channel of the other device.
LEMMA StepElsewhere ==
  ASSUME NEW o, NEW u, NEW w, NEW La, NEW Lo, Own(o, u, w, La, Lo),
         NEW u2, NEW w2, NEW La2, NEW Lo2, NEW k \in Channels, k[1] # o,
         SameBut(u, u2, k), SameBut(w, w2, k), Beside(La, La2, k), Beside(Lo, Lo2, k)
  PROVE  Own(o, u2, w2, La2, Lo2)
<1>1. ASSUME NEW c \in Channels, c[1] = o PROVE At(c, u2, w2, La2, Lo2)
  <2>1. At(c, u, w, La, Lo) /\ u2[c] = u[c] /\ w2[c] = w[c] /\ c # k
    BY <1>1 DEF Own, SameBut
  <2>2. Handshake(c, u[c], w[c], La2, Lo2)
    BY <2>1, <1>1 DEF At, Handshake, Beside
  <2>3. Dialogue(c, u[c], w[c], La2, Lo2)
    BY <2>1, <1>1 DEF At, Dialogue, Beside
  <2>4. Awaited(c, u[c], w[c], La2, Lo2)
    BY <2>1, <1>1 DEF At, Awaited, Beside
  <2> QED
    BY <2>1, <2>2, <2>3, <2>4 DEF At
<1>2. ASSUME NEW c \in Channels, NEW b \in Channels, c[1] = o, b[1] = o, b # c
      PROVE  Ordered(c, b, u2, w2, La2, Lo2)
  <2>1. Ordered(c, b, u, w, La, Lo) /\ u2[c] = u[c] /\ w2[c] = w[c] /\ u2[b] = u[b]
        /\ c # k /\ b # k
    BY <1>2 DEF Own, SameBut
  <2> QED
    BY <2>1, <1>2 DEF Ordered, Beside
<1> QED
  BY <1>1, <1>2 DEF Own

-----------------------------------------------------------------------------
(* The steps of the two ends of a channel *)

USE DEF Asking, Configuring, Engaged, OpenAtOwner, OpenAtOther, Young, Using, Signals

\* The owner sends a frame of RFCOMM other than SABME and DISC on DLCI 0.
LEMMA OwnerSays ==
  ASSUME NEW o, NEW u, NEW w, NEW La, NEW Lo, Own(o, u, w, La, Lo), NEW k \in Channels,
         k[1] = o, u[k] \in {"SABME_WAIT_UA"} \cup Engaged, NEW f, IsData(f, k),
         ~Is(f, "SABME", k), ~Is(f, "DISC", k), NEW M, Added(La, f, M)
  PROVE  Own(o, u, w, M, Lo)
<1>1. At(k, u, w, La, Lo)
  BY DEF Own
<1>2. /\ SameBut(u, u, k) /\ SameBut(w, w, k)
      /\ Beside(La, M, k) /\ Beside(Lo, Lo, k)
  BY BesideSelf, BesideAdded, BesideTaken DEF SameBut, Is, IsData
<1>3. Handshake(k, u[k], w[k], M, Lo)
  BY <1>1 DEF At, Handshake, Added, Is, IsData
<1>4. Dialogue(k, u[k], w[k], M, Lo)
  BY <1>1 DEF At, Dialogue, Handshake, Added, Is, IsData
<1>5. Awaited(k, u[k], w[k], M, Lo)
  BY <1>1 DEF At, Awaited, Handshake, Dialogue, Added, Is, IsData
<1>6. ASSUME NEW b \in Channels, b[1] = o, b # k
      PROVE  Ordered(k, b, u, w, M, Lo) /\ Ordered(b, k, u, w, M, Lo)
  <2>1. /\ Ordered(k, b, u, w, La, Lo) /\ Ordered(b, k, u, w, La, Lo)
        /\ At(b, u, w, La, Lo) /\ u[b] = u[b] /\ w[b] = w[b] /\ b[1] = o /\ b # k
        /\ b[2] \in Nat /\ k[2] \in Nat /\ (b[2] < k[2] \/ k[2] < b[2])
    BY <1>6, <1>2, Mates DEF Own, SameBut
  <2>2. Ordered(k, b, u, w, M, Lo)
    BY <1>1, <2>1 DEF At, Ordered, Handshake, Dialogue, Added, Is, IsData
  <2>3. Ordered(b, k, u, w, M, Lo)
    BY <1>1, <2>1 DEF At, Ordered, Handshake, Dialogue, Added, Is, IsData
  <2> QED
    BY <2>2, <2>3
<1> QED
  BY <1>2, <1>3, <1>4, <1>5, <1>6, StepAt DEF At

\* It sends DISC.
LEMMA OwnerCloses ==
  ASSUME NEW o, NEW u, NEW w, NEW La, NEW Lo, Own(o, u, w, La, Lo), NEW k \in Channels,
         k[1] = o, NEW u2, SameBut(u, u2, k), u[k] = "CONNECTED", u2[k] = "DISC_WAIT_UA",
         NEW f, Is(f, "DISC", k), NEW M, Added(La, f, M)
  PROVE  Own(o, u2, w, M, Lo)
<1>1. At(k, u, w, La, Lo)
  BY DEF Own
<1>2. /\ SameBut(u, u2, k) /\ SameBut(w, w, k)
      /\ Beside(La, M, k) /\ Beside(Lo, Lo, k)
  BY BesideSelf, BesideAdded, BesideTaken DEF SameBut, Is, IsData
<1>3. Handshake(k, u2[k], w[k], M, Lo)
  BY <1>1 DEF At, Handshake, Added, Is, IsData
<1>4. Dialogue(k, u2[k], w[k], M, Lo)
  BY <1>1 DEF At, Dialogue, Handshake, Added, Is, IsData
<1>5. Awaited(k, u2[k], w[k], M, Lo)
  BY <1>1 DEF At, Awaited, Handshake, Dialogue, Added, Is, IsData
<1>6. ASSUME NEW b \in Channels, b[1] = o, b # k
      PROVE  Ordered(k, b, u2, w, M, Lo) /\ Ordered(b, k, u2, w, M, Lo)
  <2>1. /\ Ordered(k, b, u, w, La, Lo) /\ Ordered(b, k, u, w, La, Lo)
        /\ At(b, u, w, La, Lo) /\ u2[b] = u[b] /\ w[b] = w[b] /\ b[1] = o /\ b # k
        /\ b[2] \in Nat /\ k[2] \in Nat /\ (b[2] < k[2] \/ k[2] < b[2])
    BY <1>6, <1>2, Mates DEF Own, SameBut
  <2>2. Ordered(k, b, u2, w, M, Lo)
    BY <1>1, <2>1 DEF At, Ordered, Handshake, Dialogue, Added, Is, IsData
  <2>3. Ordered(b, k, u2, w, M, Lo)
    BY <1>1, <2>1 DEF At, Ordered, Handshake, Dialogue, Added, Is, IsData
  <2> QED
    BY <2>2, <2>3
<1> QED
  BY <1>2, <1>3, <1>4, <1>5, <1>6, StepAt DEF At

\* It takes the channel down.
LEMMA OwnerDisconnects ==
  ASSUME NEW o, NEW u, NEW w, NEW La, NEW Lo, Own(o, u, w, La, Lo), NEW k \in Channels,
         k[1] = o, NEW u2, SameBut(u, u2, k), u[k] \in Configuring \cup OpenAtOwner,
         u2[k] = "CLOSED", NEW f, Is(f, "DISC_REQ", k), NEW M, Added(La, f, M)
  PROVE  Own(o, u2, w, M, Lo)
<1>1. At(k, u, w, La, Lo)
  BY DEF Own
<1>2. /\ SameBut(u, u2, k) /\ SameBut(w, w, k)
      /\ Beside(La, M, k) /\ Beside(Lo, Lo, k)
  BY BesideSelf, BesideAdded, BesideTaken DEF SameBut, Is, IsData
<1>3. Handshake(k, u2[k], w[k], M, Lo)
  BY <1>1 DEF At, Handshake, Added, Is, IsData
<1>4. Dialogue(k, u2[k], w[k], M, Lo)
  BY <1>1 DEF At, Dialogue, Handshake, Added, Is, IsData
<1>5. Awaited(k, u2[k], w[k], M, Lo)
  BY <1>1 DEF At, Awaited, Handshake, Dialogue, Added, Is, IsData
<1>6. ASSUME NEW b \in Channels, b[1] = o, b # k
      PROVE  Ordered(k, b, u2, w, M, Lo) /\ Ordered(b, k, u2, w, M, Lo)
  <2>1. /\ Ordered(k, b, u, w, La, Lo) /\ Ordered(b, k, u, w, La, Lo)
        /\ At(b, u, w, La, Lo) /\ u2[b] = u[b] /\ w[b] = w[b] /\ b[1] = o /\ b # k
        /\ b[2] \in Nat /\ k[2] \in Nat /\ (b[2] < k[2] \/ k[2] < b[2])
    BY <1>6, <1>2, Mates DEF Own, SameBut
  <2>2. Ordered(k, b, u2, w, M, Lo)
    BY <1>1, <2>1 DEF At, Ordered, Handshake, Dialogue, Added, Is, IsData
  <2>3. Ordered(b, k, u2, w, M, Lo)
    BY <1>1, <2>1 DEF At, Ordered, Handshake, Dialogue, Added, Is, IsData
  <2> QED
    BY <2>2, <2>3
<1> QED
  BY <1>2, <1>3, <1>4, <1>5, <1>6, StepAt DEF At

\* It gives up a channel that was not granted yet, or was taken down.
LEMMA OwnerAbandons ==
  ASSUME NEW o, NEW u, NEW w, NEW La, NEW Lo, Own(o, u, w, La, Lo), NEW k \in Channels,
         k[1] = o, NEW u2, SameBut(u, u2, k), u[k] \in Asking \/ Has(Lo, "DISC_REQ", k),
         u[k] # "NEW", u2[k] = "CLOSED"
  PROVE  Own(o, u2, w, La, Lo)
<1>1. At(k, u, w, La, Lo)
  BY DEF Own
<1>2. /\ SameBut(u, u2, k) /\ SameBut(w, w, k)
      /\ Beside(La, La, k) /\ Beside(Lo, Lo, k)
  BY BesideSelf, BesideAdded, BesideTaken DEF SameBut, Is, IsData
<1>3. Handshake(k, u2[k], w[k], La, Lo)
  BY <1>1 DEF At, Handshake, Added, Is, IsData
<1>4. Dialogue(k, u2[k], w[k], La, Lo)
  BY <1>1 DEF At, Dialogue, Handshake, Added, Is, IsData
<1>5. Awaited(k, u2[k], w[k], La, Lo)
  BY <1>1 DEF At, Awaited, Handshake, Dialogue, Added, Is, IsData
<1>6. ASSUME NEW b \in Channels, b[1] = o, b # k
      PROVE  Ordered(k, b, u2, w, La, Lo) /\ Ordered(b, k, u2, w, La, Lo)
  <2>1. /\ Ordered(k, b, u, w, La, Lo) /\ Ordered(b, k, u, w, La, Lo)
        /\ At(b, u, w, La, Lo) /\ u2[b] = u[b] /\ w[b] = w[b] /\ b[1] = o /\ b # k
        /\ b[2] \in Nat /\ k[2] \in Nat /\ (b[2] < k[2] \/ k[2] < b[2])
    BY <1>6, <1>2, Mates DEF Own, SameBut
  <2>2. Ordered(k, b, u2, w, La, Lo)
    BY <1>1, <2>1 DEF At, Ordered, Handshake, Dialogue, Added, Is, IsData
  <2>3. Ordered(b, k, u2, w, La, Lo)
    BY <1>1, <2>1 DEF At, Ordered, Handshake, Dialogue, Added, Is, IsData
  <2> QED
    BY <2>2, <2>3
<1> QED
  BY <1>2, <1>3, <1>4, <1>5, <1>6, StepAt DEF At

\* It asks for a channel; no channel that it opened before is in use.
LEMMA OwnerOpens ==
  ASSUME NEW o, NEW u, NEW w, NEW La, NEW Lo, Own(o, u, w, La, Lo), NEW k \in Channels,
         k[1] = o, NEW u2, SameBut(u, u2, k), u[k] = "NEW", u2[k] = "W4_LIVE",
         \A b \in Channels : b[1] = o /\ b # k => u[b] \notin Using \cup {"W4_LIVE"} /\ (b[2] < k[2] \/ u[b] = "NEW"),
         NEW f, Is(f, "CONN_REQ", k), NEW M, Added(La, f, M)
  PROVE  Own(o, u2, w, M, Lo)
<1>1. At(k, u, w, La, Lo)
  BY DEF Own
<1>2. /\ SameBut(u, u2, k) /\ SameBut(w, w, k)
      /\ Beside(La, M, k) /\ Beside(Lo, Lo, k)
  BY BesideSelf, BesideAdded, BesideTaken DEF SameBut, Is, IsData
<1>f1. ~About(La, k) /\ ~About(Lo, k)
  BY <1>1 DEF At, Handshake
<1>f2. ~HasData(La, k) /\ ~HasData(Lo, k) /\ \A j : ~Has(La, j, k) /\ ~Has(Lo, j, k)
  BY <1>f1, NothingAbout
<1>f3. /\ \A b : Preceded(Lo, "CONN_RSP", k, "CONN_RSP", "CONN_RSP_NEG", b)
       /\ \A b : Preceded(La, "CONN_REQ", k, "CONN_REQ", "CONN_REQ", b)
       /\ \A b : Preceded(La, "CFG", k, "DISC_REQ", "DISC_REQ", b)
  BY <1>f2, Vacuous
<1>f4. ASSUME NEW b \in Channels, b[1] = o, u[b] = "NEW"
       PROVE  /\ Preceded(Lo, "CONN_RSP", b, "CONN_RSP", "CONN_RSP_NEG", k)
              /\ Preceded(La, "CONN_REQ", b, "CONN_REQ", "CONN_REQ", k)
  <2>1. ~About(La, b) /\ ~About(Lo, b)
    BY <1>f4 DEF Own, At, Handshake
  <2> QED
    BY <2>1, NothingAbout, Vacuous
<1>3. Handshake(k, u2[k], w[k], M, Lo)
  BY <1>1, <1>f1, <1>f2, <1>f3, <1>f4 DEF At, Handshake, Added, Is, IsData
<1>4. Dialogue(k, u2[k], w[k], M, Lo)
  BY <1>1, <1>f1, <1>f2, <1>f3, <1>f4 DEF At, Dialogue, Handshake, Added, Is, IsData
<1>5. Awaited(k, u2[k], w[k], M, Lo)
  BY <1>1, <1>f1, <1>f2, <1>f3, <1>f4 DEF At, Awaited, Handshake, Dialogue, Added, Is, IsData
<1>6. ASSUME NEW b \in Channels, b[1] = o, b # k
      PROVE  Ordered(k, b, u2, w, M, Lo) /\ Ordered(b, k, u2, w, M, Lo)
  <2>1. /\ Ordered(k, b, u, w, La, Lo) /\ Ordered(b, k, u, w, La, Lo)
        /\ At(b, u, w, La, Lo) /\ u2[b] = u[b] /\ w[b] = w[b] /\ b[1] = o /\ b # k
        /\ b[2] \in Nat /\ k[2] \in Nat /\ (b[2] < k[2] \/ k[2] < b[2])
    BY <1>6, <1>2, Mates DEF Own, SameBut
  <2>2. Ordered(k, b, u2, w, M, Lo)
    BY <1>1, <1>f1, <1>f2, <1>f3, <1>f4, <2>1 DEF At, Ordered, Handshake, Dialogue, Added, Is, IsData
  <2>3. Ordered(b, k, u2, w, M, Lo)
    BY <1>1, <1>f1, <1>f2, <1>f3, <1>f4, <2>1 DEF At, Ordered, Handshake, Dialogue, Added, Is, IsData
  <2> QED
    BY <2>2, <2>3
<1> QED
  BY <1>2, <1>3, <1>4, <1>5, <1>6, StepAt DEF At

\* The channel is granted.
LEMMA OwnerConfigures ==
  ASSUME NEW o, NEW u, NEW w, NEW La, NEW Lo, Own(o, u, w, La, Lo), NEW k \in Channels,
         k[1] = o, NEW u2, SameBut(u, u2, k), u[k] = "W4" => u2[k] = "CONFIG",
         u[k] = "W4_LIVE" => u2[k] = "CONFIG_LIVE", u[k] \in Asking, NEW g,
         Is(g, "CONN_RSP", k), NEW N, Taken(Lo, g, N), NEW f, Is(f, "CFG", k), NEW M,
         Added(La, f, M)
  PROVE  Own(o, u2, w, M, N)
<1>1. At(k, u, w, La, Lo)
  BY DEF Own
<1>2. /\ SameBut(u, u2, k) /\ SameBut(w, w, k)
      /\ Beside(La, M, k) /\ Beside(Lo, N, k)
  BY BesideSelf, BesideAdded, BesideTaken DEF SameBut, Is, IsData
<1>3. Handshake(k, u2[k], w[k], M, N)
  BY <1>1 DEF At, Handshake, Dialogue, Added, Taken, Is, IsData
<1>4. Dialogue(k, u2[k], w[k], M, N)
  BY <1>1 DEF At, Dialogue, Handshake, Added, Taken, Is, IsData
<1>5. Awaited(k, u2[k], w[k], M, N)
  BY <1>1 DEF At, Awaited, Handshake, Dialogue, Added, Taken, Is, IsData
<1>6. ASSUME NEW b \in Channels, b[1] = o, b # k
      PROVE  Ordered(k, b, u2, w, M, N) /\ Ordered(b, k, u2, w, M, N)
  <2>1. /\ Ordered(k, b, u, w, La, Lo) /\ Ordered(b, k, u, w, La, Lo)
        /\ At(b, u, w, La, Lo) /\ u2[b] = u[b] /\ w[b] = w[b] /\ b[1] = o /\ b # k
        /\ b[2] \in Nat /\ k[2] \in Nat /\ (b[2] < k[2] \/ k[2] < b[2])
    BY <1>6, <1>2, Mates DEF Own, SameBut
  <2>2. Ordered(k, b, u2, w, M, N)
    BY <1>1, <2>1 DEF At, Ordered, Handshake, Dialogue, Added, Taken, Is, IsData
  <2>3. Ordered(b, k, u2, w, M, N)
    BY <1>1, <2>1 DEF At, Ordered, Handshake, Dialogue, Added, Taken, Is, IsData
  <2> QED
    BY <2>2, <2>3
<1> QED
  BY <1>2, <1>3, <1>4, <1>5, <1>6, StepAt DEF At

\* The channel is configured.
LEMMA OwnerReady ==
  ASSUME NEW o, NEW u, NEW w, NEW La, NEW Lo, Own(o, u, w, La, Lo), NEW k \in Channels,
         k[1] = o, NEW u2, SameBut(u, u2, k), u[k] = "CONFIG" => u2[k] = "SPARE",
         u[k] = "CONFIG_LIVE" => u2[k] = "READY", u[k] \in Configuring, Has(Lo, "CFG_RSP", k)
  PROVE  Own(o, u2, w, La, Lo)
<1>1. At(k, u, w, La, Lo)
  BY DEF Own
<1>2. /\ SameBut(u, u2, k) /\ SameBut(w, w, k)
      /\ Beside(La, La, k) /\ Beside(Lo, Lo, k)
  BY BesideSelf, BesideAdded, BesideTaken DEF SameBut, Is, IsData
<1>3. Handshake(k, u2[k], w[k], La, Lo)
  BY <1>1 DEF At, Handshake, Added, Is, IsData
<1>4. Dialogue(k, u2[k], w[k], La, Lo)
  BY <1>1 DEF At, Dialogue, Handshake, Added, Is, IsData
<1>5. Awaited(k, u2[k], w[k], La, Lo)
  BY <1>1 DEF At, Awaited, Handshake, Dialogue, Added, Is, IsData
<1>6. ASSUME NEW b \in Channels, b[1] = o, b # k
      PROVE  Ordered(k, b, u2, w, La, Lo) /\ Ordered(b, k, u2, w, La, Lo)
  <2>1. /\ Ordered(k, b, u, w, La, Lo) /\ Ordered(b, k, u, w, La, Lo)
        /\ At(b, u, w, La, Lo) /\ u2[b] = u[b] /\ w[b] = w[b] /\ b[1] = o /\ b # k
        /\ b[2] \in Nat /\ k[2] \in Nat /\ (b[2] < k[2] \/ k[2] < b[2])
    BY <1>6, <1>2, Mates DEF Own, SameBut
  <2>2. Ordered(k, b, u2, w, La, Lo)
    BY <1>1, <2>1 DEF At, Ordered, Handshake, Dialogue, Added, Is, IsData
  <2>3. Ordered(b, k, u2, w, La, Lo)
    BY <1>1, <2>1 DEF At, Ordered, Handshake, Dialogue, Added, Is, IsData
  <2> QED
    BY <2>2, <2>3
<1> QED
  BY <1>2, <1>3, <1>4, <1>5, <1>6, StepAt DEF At

\* It sends SABME.
LEMMA OwnerGreets ==
  ASSUME NEW o, NEW u, NEW w, NEW La, NEW Lo, Own(o, u, w, La, Lo), NEW k \in Channels,
         k[1] = o, NEW u2, SameBut(u, u2, k), u[k] = "READY", u2[k] = "SABME_WAIT_UA", NEW f,
         Is(f, "SABME", k), NEW M, Added(La, f, M)
  PROVE  Own(o, u2, w, M, Lo)
<1>1. At(k, u, w, La, Lo)
  BY DEF Own
<1>2. /\ SameBut(u, u2, k) /\ SameBut(w, w, k)
      /\ Beside(La, M, k) /\ Beside(Lo, Lo, k)
  BY BesideSelf, BesideAdded, BesideTaken DEF SameBut, Is, IsData
<1>f1. ~HasData(La, k) /\ ~Has(Lo, "DISC", k) /\ ~Has(La, "CFG", k)
  BY <1>1 DEF At, Handshake, Dialogue
<1>f2. ~Has(La, "SABME", k) /\ Led(La, k) /\ Preceded(Lo, "DISC", k, "UA", "UA", k)
  BY <1>f1, NoData, Vacuous
<1>f3. \A b \in Channels : b[1] = o /\ b # k =>
         Preceded(La, "CFG", b, "DISC_REQ", "DISC_REQ", k)
  BY <1>f1, NotFollowed, Vacuous DEF Own, Ordered
<1>3. Handshake(k, u2[k], w[k], M, Lo)
  BY <1>1, <1>f1, <1>f2, <1>f3 DEF At, Handshake, Added, Is, IsData
<1>4. Dialogue(k, u2[k], w[k], M, Lo)
  BY <1>1, <1>f1, <1>f2, <1>f3 DEF At, Dialogue, Handshake, Added, Is, IsData
<1>5. Awaited(k, u2[k], w[k], M, Lo)
  BY <1>1, <1>f1, <1>f2, <1>f3 DEF At, Awaited, Handshake, Dialogue, Added, Is, IsData
<1>6. ASSUME NEW b \in Channels, b[1] = o, b # k
      PROVE  Ordered(k, b, u2, w, M, Lo) /\ Ordered(b, k, u2, w, M, Lo)
  <2>1. /\ Ordered(k, b, u, w, La, Lo) /\ Ordered(b, k, u, w, La, Lo)
        /\ At(b, u, w, La, Lo) /\ u2[b] = u[b] /\ w[b] = w[b] /\ b[1] = o /\ b # k
        /\ b[2] \in Nat /\ k[2] \in Nat /\ (b[2] < k[2] \/ k[2] < b[2])
    BY <1>6, <1>2, Mates DEF Own, SameBut
  <2>2. Ordered(k, b, u2, w, M, Lo)
    BY <1>1, <1>f1, <1>f2, <1>f3, <2>1 DEF At, Ordered, Handshake, Dialogue, Added, Is, IsData
  <2>3. Ordered(b, k, u2, w, M, Lo)
    BY <1>1, <1>f1, <1>f2, <1>f3, <2>1 DEF At, Ordered, Handshake, Dialogue, Added, Is, IsData
  <2> QED
    BY <2>2, <2>3
<1> QED
  BY <1>2, <1>3, <1>4, <1>5, <1>6, StepAt DEF At

\* UA has come.
LEMMA OwnerConnected ==
  ASSUME NEW o, NEW u, NEW w, NEW La, NEW Lo, Own(o, u, w, La, Lo), NEW k \in Channels,
         k[1] = o, NEW u2, SameBut(u, u2, k), u[k] = "SABME_WAIT_UA", u2[k] = "CONNECTED",
         Has(Lo, "UA", k)
  PROVE  Own(o, u2, w, La, Lo)
<1>1. At(k, u, w, La, Lo)
  BY DEF Own
<1>2. /\ SameBut(u, u2, k) /\ SameBut(w, w, k)
      /\ Beside(La, La, k) /\ Beside(Lo, Lo, k)
  BY BesideSelf, BesideAdded, BesideTaken DEF SameBut, Is, IsData
<1>3. Handshake(k, u2[k], w[k], La, Lo)
  BY <1>1 DEF At, Handshake, Added, Is, IsData
<1>4. Dialogue(k, u2[k], w[k], La, Lo)
  BY <1>1 DEF At, Dialogue, Handshake, Added, Is, IsData
<1>5. Awaited(k, u2[k], w[k], La, Lo)
  BY <1>1 DEF At, Awaited, Handshake, Dialogue, Added, Is, IsData
<1>6. ASSUME NEW b \in Channels, b[1] = o, b # k
      PROVE  Ordered(k, b, u2, w, La, Lo) /\ Ordered(b, k, u2, w, La, Lo)
  <2>1. /\ Ordered(k, b, u, w, La, Lo) /\ Ordered(b, k, u, w, La, Lo)
        /\ At(b, u, w, La, Lo) /\ u2[b] = u[b] /\ w[b] = w[b] /\ b[1] = o /\ b # k
        /\ b[2] \in Nat /\ k[2] \in Nat /\ (b[2] < k[2] \/ k[2] < b[2])
    BY <1>6, <1>2, Mates DEF Own, SameBut
  <2>2. Ordered(k, b, u2, w, La, Lo)
    BY <1>1, <2>1 DEF At, Ordered, Handshake, Dialogue, Added, Is, IsData
  <2>3. Ordered(b, k, u2, w, La, Lo)
    BY <1>1, <2>1 DEF At, Ordered, Handshake, Dialogue, Added, Is, IsData
  <2> QED
    BY <2>2, <2>3
<1> QED
  BY <1>2, <1>3, <1>4, <1>5, <1>6, StepAt DEF At

\* The multiplexer is not to use the channel after all.
LEMMA OwnerForgets ==
  ASSUME NEW o, NEW u, NEW w, NEW La, NEW Lo, Own(o, u, w, La, Lo), NEW k \in Channels,
         k[1] = o, NEW u2, SameBut(u, u2, k), u[k] = "W4_LIVE" => u2[k] = "W4",
         u[k] = "CONFIG_LIVE" => u2[k] = "CONFIG", u[k] = "READY" => u2[k] = "SPARE",
         u[k] \in {"W4_LIVE", "CONFIG_LIVE", "READY"}
  PROVE  Own(o, u2, w, La, Lo)
<1>1. At(k, u, w, La, Lo)
  BY DEF Own
<1>2. /\ SameBut(u, u2, k) /\ SameBut(w, w, k)
      /\ Beside(La, La, k) /\ Beside(Lo, Lo, k)
  BY BesideSelf, BesideAdded, BesideTaken DEF SameBut, Is, IsData
<1>3. Handshake(k, u2[k], w[k], La, Lo)
  BY <1>1 DEF At, Handshake, Added, Is, IsData
<1>4. Dialogue(k, u2[k], w[k], La, Lo)
  BY <1>1 DEF At, Dialogue, Handshake, Added, Is, IsData
<1>5. Awaited(k, u2[k], w[k], La, Lo)
  BY <1>1 DEF At, Awaited, Handshake, Dialogue, Added, Is, IsData
<1>6. ASSUME NEW b \in Channels, b[1] = o, b # k
      PROVE  Ordered(k, b, u2, w, La, Lo) /\ Ordered(b, k, u2, w, La, Lo)
  <2>1. /\ Ordered(k, b, u, w, La, Lo) /\ Ordered(b, k, u, w, La, Lo)
        /\ At(b, u, w, La, Lo) /\ u2[b] = u[b] /\ w[b] = w[b] /\ b[1] = o /\ b # k
        /\ b[2] \in Nat /\ k[2] \in Nat /\ (b[2] < k[2] \/ k[2] < b[2])
    BY <1>6, <1>2, Mates DEF Own, SameBut
  <2>2. Ordered(k, b, u2, w, La, Lo)
    BY <1>1, <2>1 DEF At, Ordered, Handshake, Dialogue, Added, Is, IsData
  <2>3. Ordered(b, k, u2, w, La, Lo)
    BY <1>1, <2>1 DEF At, Ordered, Handshake, Dialogue, Added, Is, IsData
  <2> QED
    BY <2>2, <2>3
<1> QED
  BY <1>2, <1>3, <1>4, <1>5, <1>6, StepAt DEF At

\* The other device sends a frame of RFCOMM other than SABME, UA and DISC on
\* DLCI 0.
LEMMA OtherSays ==
  ASSUME NEW o, NEW u, NEW w, NEW La, NEW Lo, Own(o, u, w, La, Lo), NEW k \in Channels,
         k[1] = o, w[k] \in OpenAtOther, NEW f, IsData(f, k), ~Is(f, "UA", k),
         ~Is(f, "DISC", k), NEW M, Added(Lo, f, M)
  PROVE  Own(o, u, w, La, M)
<1>1. At(k, u, w, La, Lo)
  BY DEF Own
<1>2. /\ SameBut(u, u, k) /\ SameBut(w, w, k)
      /\ Beside(La, La, k) /\ Beside(Lo, M, k)
  BY BesideSelf, BesideAdded, BesideTaken DEF SameBut, Is, IsData
<1>3. Handshake(k, u[k], w[k], La, M)
  BY <1>1 DEF At, Handshake, Added, Is, IsData
<1>4. Dialogue(k, u[k], w[k], La, M)
  BY <1>1 DEF At, Dialogue, Handshake, Added, Is, IsData
<1>5. Awaited(k, u[k], w[k], La, M)
  BY <1>1 DEF At, Awaited, Handshake, Dialogue, Added, Is, IsData
<1>6. ASSUME NEW b \in Channels, b[1] = o, b # k
      PROVE  Ordered(k, b, u, w, La, M) /\ Ordered(b, k, u, w, La, M)
  <2>1. /\ Ordered(k, b, u, w, La, Lo) /\ Ordered(b, k, u, w, La, Lo)
        /\ At(b, u, w, La, Lo) /\ u[b] = u[b] /\ w[b] = w[b] /\ b[1] = o /\ b # k
        /\ b[2] \in Nat /\ k[2] \in Nat /\ (b[2] < k[2] \/ k[2] < b[2])
    BY <1>6, <1>2, Mates DEF Own, SameBut
  <2>2. Ordered(k, b, u, w, La, M)
    BY <1>1, <2>1 DEF At, Ordered, Handshake, Dialogue, Added, Is, IsData
  <2>3. Ordered(b, k, u, w, La, M)
    BY <1>1, <2>1 DEF At, Ordered, Handshake, Dialogue, Added, Is, IsData
  <2> QED
    BY <2>2, <2>3
<1> QED
  BY <1>2, <1>3, <1>4, <1>5, <1>6, StepAt DEF At

\* It answers a DISC.
LEMMA OtherAnswersDisc ==
  ASSUME NEW o, NEW u, NEW w, NEW La, NEW Lo, Own(o, u, w, La, Lo), NEW k \in Channels,
         k[1] = o, w[k] \in Engaged, NEW f, Is(f, "UA", k), NEW M, Added(Lo, f, M)
  PROVE  Own(o, u, w, La, M)
<1>1. At(k, u, w, La, Lo)
  BY DEF Own
<1>2. /\ SameBut(u, u, k) /\ SameBut(w, w, k)
      /\ Beside(La, La, k) /\ Beside(Lo, M, k)
  BY BesideSelf, BesideAdded, BesideTaken DEF SameBut, Is, IsData
<1>3. Handshake(k, u[k], w[k], La, M)
  BY <1>1 DEF At, Handshake, Added, Is, IsData
<1>4. Dialogue(k, u[k], w[k], La, M)
  BY <1>1 DEF At, Dialogue, Handshake, Added, Is, IsData
<1>5. Awaited(k, u[k], w[k], La, M)
  BY <1>1 DEF At, Awaited, Handshake, Dialogue, Added, Is, IsData
<1>6. ASSUME NEW b \in Channels, b[1] = o, b # k
      PROVE  Ordered(k, b, u, w, La, M) /\ Ordered(b, k, u, w, La, M)
  <2>1. /\ Ordered(k, b, u, w, La, Lo) /\ Ordered(b, k, u, w, La, Lo)
        /\ At(b, u, w, La, Lo) /\ u[b] = u[b] /\ w[b] = w[b] /\ b[1] = o /\ b # k
        /\ b[2] \in Nat /\ k[2] \in Nat /\ (b[2] < k[2] \/ k[2] < b[2])
    BY <1>6, <1>2, Mates DEF Own, SameBut
  <2>2. Ordered(k, b, u, w, La, M)
    BY <1>1, <2>1 DEF At, Ordered, Handshake, Dialogue, Added, Is, IsData
  <2>3. Ordered(b, k, u, w, La, M)
    BY <1>1, <2>1 DEF At, Ordered, Handshake, Dialogue, Added, Is, IsData
  <2> QED
    BY <2>2, <2>3
<1> QED
  BY <1>2, <1>3, <1>4, <1>5, <1>6, StepAt DEF At

\* It sends DISC.
LEMMA OtherCloses ==
  ASSUME NEW o, NEW u, NEW w, NEW La, NEW Lo, Own(o, u, w, La, Lo), NEW k \in Channels,
         k[1] = o, NEW w2, SameBut(w, w2, k), w[k] = "CONNECTED", w2[k] = "DISC_WAIT_UA",
         NEW f, Is(f, "DISC", k), NEW M, Added(Lo, f, M)
  PROVE  Own(o, u, w2, La, M)
<1>1. At(k, u, w, La, Lo)
  BY DEF Own
<1>2. /\ SameBut(u, u, k) /\ SameBut(w, w2, k)
      /\ Beside(La, La, k) /\ Beside(Lo, M, k)
  BY BesideSelf, BesideAdded, BesideTaken DEF SameBut, Is, IsData
<1>3. Handshake(k, u[k], w2[k], La, M)
  BY <1>1 DEF At, Handshake, Added, Is, IsData
<1>4. Dialogue(k, u[k], w2[k], La, M)
  BY <1>1 DEF At, Dialogue, Handshake, Added, Is, IsData
<1>5. Awaited(k, u[k], w2[k], La, M)
  BY <1>1 DEF At, Awaited, Handshake, Dialogue, Added, Is, IsData
<1>6. ASSUME NEW b \in Channels, b[1] = o, b # k
      PROVE  Ordered(k, b, u, w2, La, M) /\ Ordered(b, k, u, w2, La, M)
  <2>1. /\ Ordered(k, b, u, w, La, Lo) /\ Ordered(b, k, u, w, La, Lo)
        /\ At(b, u, w, La, Lo) /\ u[b] = u[b] /\ w2[b] = w[b] /\ b[1] = o /\ b # k
        /\ b[2] \in Nat /\ k[2] \in Nat /\ (b[2] < k[2] \/ k[2] < b[2])
    BY <1>6, <1>2, Mates DEF Own, SameBut
  <2>2. Ordered(k, b, u, w2, La, M)
    BY <1>1, <2>1 DEF At, Ordered, Handshake, Dialogue, Added, Is, IsData
  <2>3. Ordered(b, k, u, w2, La, M)
    BY <1>1, <2>1 DEF At, Ordered, Handshake, Dialogue, Added, Is, IsData
  <2> QED
    BY <2>2, <2>3
<1> QED
  BY <1>2, <1>3, <1>4, <1>5, <1>6, StepAt DEF At

\* It takes the channel down.
LEMMA OtherDisconnects ==
  ASSUME NEW o, NEW u, NEW w, NEW La, NEW Lo, Own(o, u, w, La, Lo), NEW k \in Channels,
         k[1] = o, NEW w2, SameBut(w, w2, k), w[k] \in {"CONFIG"} \cup OpenAtOther,
         w2[k] = "CLOSED", NEW f, Is(f, "DISC_REQ", k), NEW M, Added(Lo, f, M)
  PROVE  Own(o, u, w2, La, M)
<1>1. At(k, u, w, La, Lo)
  BY DEF Own
<1>2. /\ SameBut(u, u, k) /\ SameBut(w, w2, k)
      /\ Beside(La, La, k) /\ Beside(Lo, M, k)
  BY BesideSelf, BesideAdded, BesideTaken DEF SameBut, Is, IsData
<1>3. Handshake(k, u[k], w2[k], La, M)
  BY <1>1 DEF At, Handshake, Added, Is, IsData
<1>4. Dialogue(k, u[k], w2[k], La, M)
  BY <1>1 DEF At, Dialogue, Handshake, Added, Is, IsData
<1>5. Awaited(k, u[k], w2[k], La, M)
  BY <1>1 DEF At, Awaited, Handshake, Dialogue, Added, Is, IsData
<1>6. ASSUME NEW b \in Channels, b[1] = o, b # k
      PROVE  Ordered(k, b, u, w2, La, M) /\ Ordered(b, k, u, w2, La, M)
  <2>1. /\ Ordered(k, b, u, w, La, Lo) /\ Ordered(b, k, u, w, La, Lo)
        /\ At(b, u, w, La, Lo) /\ u[b] = u[b] /\ w2[b] = w[b] /\ b[1] = o /\ b # k
        /\ b[2] \in Nat /\ k[2] \in Nat /\ (b[2] < k[2] \/ k[2] < b[2])
    BY <1>6, <1>2, Mates DEF Own, SameBut
  <2>2. Ordered(k, b, u, w2, La, M)
    BY <1>1, <2>1 DEF At, Ordered, Handshake, Dialogue, Added, Is, IsData
  <2>3. Ordered(b, k, u, w2, La, M)
    BY <1>1, <2>1 DEF At, Ordered, Handshake, Dialogue, Added, Is, IsData
  <2> QED
    BY <2>2, <2>3
<1> QED
  BY <1>2, <1>3, <1>4, <1>5, <1>6, StepAt DEF At

\* The channel was taken down.
LEMMA OtherLoses ==
  ASSUME NEW o, NEW u, NEW w, NEW La, NEW Lo, Own(o, u, w, La, Lo), NEW k \in Channels,
         k[1] = o, NEW w2, SameBut(w, w2, k), Has(La, "DISC_REQ", k), w2[k] = "CLOSED"
  PROVE  Own(o, u, w2, La, Lo)
<1>1. At(k, u, w, La, Lo)
  BY DEF Own
<1>2. /\ SameBut(u, u, k) /\ SameBut(w, w2, k)
      /\ Beside(La, La, k) /\ Beside(Lo, Lo, k)
  BY BesideSelf, BesideAdded, BesideTaken DEF SameBut, Is, IsData
<1>3. Handshake(k, u[k], w2[k], La, Lo)
  BY <1>1 DEF At, Handshake, Added, Is, IsData
<1>4. Dialogue(k, u[k], w2[k], La, Lo)
  BY <1>1 DEF At, Dialogue, Handshake, Added, Is, IsData
<1>5. Awaited(k, u[k], w2[k], La, Lo)
  BY <1>1 DEF At, Awaited, Handshake, Dialogue, Added, Is, IsData
<1>6. ASSUME NEW b \in Channels, b[1] = o, b # k
      PROVE  Ordered(k, b, u, w2, La, Lo) /\ Ordered(b, k, u, w2, La, Lo)
  <2>1. /\ Ordered(k, b, u, w, La, Lo) /\ Ordered(b, k, u, w, La, Lo)
        /\ At(b, u, w, La, Lo) /\ u[b] = u[b] /\ w2[b] = w[b] /\ b[1] = o /\ b # k
        /\ b[2] \in Nat /\ k[2] \in Nat /\ (b[2] < k[2] \/ k[2] < b[2])
    BY <1>6, <1>2, Mates DEF Own, SameBut
  <2>2. Ordered(k, b, u, w2, La, Lo)
    BY <1>1, <2>1 DEF At, Ordered, Handshake, Dialogue, Added, Is, IsData
  <2>3. Ordered(b, k, u, w2, La, Lo)
    BY <1>1, <2>1 DEF At, Ordered, Handshake, Dialogue, Added, Is, IsData
  <2> QED
    BY <2>2, <2>3
<1> QED
  BY <1>2, <1>3, <1>4, <1>5, <1>6, StepAt DEF At

\* It grants the channel.
LEMMA OtherAsked ==
  ASSUME NEW o, NEW u, NEW w, NEW La, NEW Lo, Own(o, u, w, La, Lo), NEW k \in Channels,
         k[1] = o, NEW w2, SameBut(w, w2, k), NEW g, Is(g, "CONN_REQ", k), NEW N,
         Taken(La, g, N), w2[k] = "CONFIG", NEW f, Is(f, "CONN_RSP", k), NEW M,
         Added(Lo, f, M)
  PROVE  Own(o, u, w2, N, M)
<1>1. At(k, u, w, La, Lo)
  BY DEF Own
<1>2. /\ SameBut(u, u, k) /\ SameBut(w, w2, k)
      /\ Beside(La, N, k) /\ Beside(Lo, M, k)
  BY BesideSelf, BesideAdded, BesideTaken DEF SameBut, Is, IsData
<1>3. Handshake(k, u[k], w2[k], N, M)
  BY <1>1 DEF At, Handshake, Added, Taken, Is, IsData
<1>4. Dialogue(k, u[k], w2[k], N, M)
  BY <1>1 DEF At, Dialogue, Handshake, Added, Taken, Is, IsData
<1>5. Awaited(k, u[k], w2[k], N, M)
  BY <1>1 DEF At, Awaited, Handshake, Dialogue, Added, Taken, Is, IsData
<1>6. ASSUME NEW b \in Channels, b[1] = o, b # k
      PROVE  Ordered(k, b, u, w2, N, M) /\ Ordered(b, k, u, w2, N, M)
  <2>1. /\ Ordered(k, b, u, w, La, Lo) /\ Ordered(b, k, u, w, La, Lo)
        /\ At(b, u, w, La, Lo) /\ u[b] = u[b] /\ w2[b] = w[b] /\ b[1] = o /\ b # k
        /\ b[2] \in Nat /\ k[2] \in Nat /\ (b[2] < k[2] \/ k[2] < b[2])
    BY <1>6, <1>2, Mates DEF Own, SameBut
  <2>2. Ordered(k, b, u, w2, N, M)
    BY <1>1, <2>1 DEF At, Ordered, Handshake, Dialogue, Added, Taken, Is, IsData
  <2>3. Ordered(b, k, u, w2, N, M)
    BY <1>1, <2>1 DEF At, Ordered, Handshake, Dialogue, Added, Taken, Is, IsData
  <2> QED
    BY <2>2, <2>3
<1> QED
  BY <1>2, <1>3, <1>4, <1>5, <1>6, StepAt DEF At

\* It refuses the channel.
LEMMA OtherRefuses ==
  ASSUME NEW o, NEW u, NEW w, NEW La, NEW Lo, Own(o, u, w, La, Lo), NEW k \in Channels,
         k[1] = o, NEW g, Is(g, "CONN_REQ", k), NEW N, Taken(La, g, N), NEW f,
         Is(f, "CONN_RSP_NEG", k), NEW M, Added(Lo, f, M)
  PROVE  Own(o, u, w, N, M)
<1>1. At(k, u, w, La, Lo)
  BY DEF Own
<1>2. /\ SameBut(u, u, k) /\ SameBut(w, w, k)
      /\ Beside(La, N, k) /\ Beside(Lo, M, k)
  BY BesideSelf, BesideAdded, BesideTaken DEF SameBut, Is, IsData
<1>3. Handshake(k, u[k], w[k], N, M)
  BY <1>1 DEF At, Handshake, Added, Taken, Is, IsData
<1>4. Dialogue(k, u[k], w[k], N, M)
  BY <1>1 DEF At, Dialogue, Handshake, Added, Taken, Is, IsData
<1>5. Awaited(k, u[k], w[k], N, M)
  BY <1>1 DEF At, Awaited, Handshake, Dialogue, Added, Taken, Is, IsData
<1>6. ASSUME NEW b \in Channels, b[1] = o, b # k
      PROVE  Ordered(k, b, u, w, N, M) /\ Ordered(b, k, u, w, N, M)
  <2>1. /\ Ordered(k, b, u, w, La, Lo) /\ Ordered(b, k, u, w, La, Lo)
        /\ At(b, u, w, La, Lo) /\ u[b] = u[b] /\ w[b] = w[b] /\ b[1] = o /\ b # k
        /\ b[2] \in Nat /\ k[2] \in Nat /\ (b[2] < k[2] \/ k[2] < b[2])
    BY <1>6, <1>2, Mates DEF Own, SameBut
  <2>2. Ordered(k, b, u, w, N, M)
    BY <1>1, <2>1 DEF At, Ordered, Handshake, Dialogue, Added, Taken, Is, IsData
  <2>3. Ordered(b, k, u, w, N, M)
    BY <1>1, <2>1 DEF At, Ordered, Handshake, Dialogue, Added, Taken, Is, IsData
  <2> QED
    BY <2>2, <2>3
<1> QED
  BY <1>2, <1>3, <1>4, <1>5, <1>6, StepAt DEF At

\* The channel is configured, and the multiplexer is to use it.
LEMMA OtherAccepts ==
  ASSUME NEW o, NEW u, NEW w, NEW La, NEW Lo, Own(o, u, w, La, Lo), NEW k \in Channels,
         k[1] = o, NEW w2, SameBut(w, w2, k), NEW g, Is(g, "CFG", k), NEW N, Taken(La, g, N),
         w[k] = "CONFIG", w2[k] = "WAIT_SABME", NEW f, Is(f, "CFG_RSP", k), NEW M,
         Added(Lo, f, M)
  PROVE  Own(o, u, w2, N, M)
<1>1. At(k, u, w, La, Lo)
  BY DEF Own
<1>2. /\ SameBut(u, u, k) /\ SameBut(w, w2, k)
      /\ Beside(La, N, k) /\ Beside(Lo, M, k)
  BY BesideSelf, BesideAdded, BesideTaken DEF SameBut, Is, IsData
<1>f1. ~HasData(N, k)
  BY <1>1 DEF At, Handshake, Taken
<1>f2. ~Has(N, "SABME", k) /\ Led(N, k)
  BY <1>f1, NoData
<1>3. Handshake(k, u[k], w2[k], N, M)
  BY <1>1, <1>f1, <1>f2 DEF At, Handshake, Added, Taken, Is, IsData
<1>4. Dialogue(k, u[k], w2[k], N, M)
  BY <1>1, <1>f1, <1>f2 DEF At, Dialogue, Handshake, Added, Taken, Is, IsData
<1>5. Awaited(k, u[k], w2[k], N, M)
  BY <1>1, <1>f1, <1>f2 DEF At, Awaited, Handshake, Dialogue, Added, Taken, Is, IsData
<1>6. ASSUME NEW b \in Channels, b[1] = o, b # k
      PROVE  Ordered(k, b, u, w2, N, M) /\ Ordered(b, k, u, w2, N, M)
  <2>1. /\ Ordered(k, b, u, w, La, Lo) /\ Ordered(b, k, u, w, La, Lo)
        /\ At(b, u, w, La, Lo) /\ u[b] = u[b] /\ w2[b] = w[b] /\ b[1] = o /\ b # k
        /\ b[2] \in Nat /\ k[2] \in Nat /\ (b[2] < k[2] \/ k[2] < b[2])
    BY <1>6, <1>2, Mates DEF Own, SameBut
  <2>2. Ordered(k, b, u, w2, N, M)
    BY <1>1, <1>f1, <1>f2, <2>1 DEF At, Ordered, Handshake, Dialogue, Added, Taken, Is, IsData
  <2>3. Ordered(b, k, u, w2, N, M)
    BY <1>1, <1>f1, <1>f2, <2>1 DEF At, Ordered, Handshake, Dialogue, Added, Taken, Is, IsData
  <2> QED
    BY <2>2, <2>3
<1> QED
  BY <1>2, <1>3, <1>4, <1>5, <1>6, StepAt DEF At

\* SABME has come.
LEMMA OtherGreeted ==
  ASSUME NEW o, NEW u, NEW w, NEW La, NEW Lo, Own(o, u, w, La, Lo), NEW k \in Channels,
         k[1] = o, NEW w2, SameBut(w, w2, k), NEW g, Is(g, "SABME", k), NEW N,
         Taken(La, g, N), w[k] = "WAIT_SABME", w2[k] = "CONNECTED", NEW f, Is(f, "UA", k),
         NEW M, Added(Lo, f, M)
  PROVE  Own(o, u, w2, N, M)
<1>1. At(k, u, w, La, Lo)
  BY DEF Own
<1>2. /\ SameBut(u, u, k) /\ SameBut(w, w2, k)
      /\ Beside(La, N, k) /\ Beside(Lo, M, k)
  BY BesideSelf, BesideAdded, BesideTaken DEF SameBut, Is, IsData
<1>3. Handshake(k, u[k], w2[k], N, M)
  BY <1>1 DEF At, Handshake, Added, Taken, Is, IsData
<1>4. Dialogue(k, u[k], w2[k], N, M)
  BY <1>1 DEF At, Dialogue, Handshake, Added, Taken, Is, IsData
<1>5. Awaited(k, u[k], w2[k], N, M)
  BY <1>1 DEF At, Awaited, Handshake, Dialogue, Added, Taken, Is, IsData
<1>6. ASSUME NEW b \in Channels, b[1] = o, b # k
      PROVE  Ordered(k, b, u, w2, N, M) /\ Ordered(b, k, u, w2, N, M)
  <2>1. /\ Ordered(k, b, u, w, La, Lo) /\ Ordered(b, k, u, w, La, Lo)
        /\ At(b, u, w, La, Lo) /\ u[b] = u[b] /\ w2[b] = w[b] /\ b[1] = o /\ b # k
        /\ b[2] \in Nat /\ k[2] \in Nat /\ (b[2] < k[2] \/ k[2] < b[2])
    BY <1>6, <1>2, Mates DEF Own, SameBut
  <2>2. Ordered(k, b, u, w2, N, M)
    BY <1>1, <2>1 DEF At, Ordered, Handshake, Dialogue, Added, Taken, Is, IsData
  <2>3. Ordered(b, k, u, w2, N, M)
    BY <1>1, <2>1 DEF At, Ordered, Handshake, Dialogue, Added, Taken, Is, IsData
  <2> QED
    BY <2>2, <2>3
<1> QED
  BY <1>2, <1>3, <1>4, <1>5, <1>6, StepAt DEF At

\* DISC has come and was answered.
LEMMA OtherReleases ==
  ASSUME NEW o, NEW u, NEW w, NEW La, NEW Lo, Own(o, u, w, La, Lo), NEW k \in Channels,
         k[1] = o, NEW w2, SameBut(w, w2, k), Has(La, "DISC", k), Has(Lo, "UA", k),
         w[k] \in Engaged, w2[k] = "SPARE"
  PROVE  Own(o, u, w2, La, Lo)
<1>1. At(k, u, w, La, Lo)
  BY DEF Own
<1>2. /\ SameBut(u, u, k) /\ SameBut(w, w2, k)
      /\ Beside(La, La, k) /\ Beside(Lo, Lo, k)
  BY BesideSelf, BesideAdded, BesideTaken DEF SameBut, Is, IsData
<1>3. Handshake(k, u[k], w2[k], La, Lo)
  BY <1>1 DEF At, Handshake, Added, Is, IsData
<1>4. Dialogue(k, u[k], w2[k], La, Lo)
  BY <1>1 DEF At, Dialogue, Handshake, Added, Is, IsData
<1>5. Awaited(k, u[k], w2[k], La, Lo)
  BY <1>1 DEF At, Awaited, Handshake, Dialogue, Added, Is, IsData
<1>6. ASSUME NEW b \in Channels, b[1] = o, b # k
      PROVE  Ordered(k, b, u, w2, La, Lo) /\ Ordered(b, k, u, w2, La, Lo)
  <2>1. /\ Ordered(k, b, u, w, La, Lo) /\ Ordered(b, k, u, w, La, Lo)
        /\ At(b, u, w, La, Lo) /\ u[b] = u[b] /\ w2[b] = w[b] /\ b[1] = o /\ b # k
        /\ b[2] \in Nat /\ k[2] \in Nat /\ (b[2] < k[2] \/ k[2] < b[2])
    BY <1>6, <1>2, Mates DEF Own, SameBut
  <2>2. Ordered(k, b, u, w2, La, Lo)
    BY <1>1, <2>1 DEF At, Ordered, Handshake, Dialogue, Added, Is, IsData
  <2>3. Ordered(b, k, u, w2, La, Lo)
    BY <1>1, <2>1 DEF At, Ordered, Handshake, Dialogue, Added, Is, IsData
  <2> QED
    BY <2>2, <2>3
<1> QED
  BY <1>2, <1>3, <1>4, <1>5, <1>6, StepAt DEF At

\* The other device is about to use another channel of the owner.
LEMMA OtherLeaves ==
  ASSUME NEW o, NEW u, NEW w, NEW La, NEW Lo, Own(o, u, w, La, Lo), NEW k \in Channels,
         k[1] = o, NEW w2, SameBut(w, w2, k), NEW b1 \in Channels, b1[1] = o, b1 # k,
         Has(La, "CFG", b1), w[k] = "WAIT_SABME", w2[k] = "SPARE"
  PROVE  Own(o, u, w2, La, Lo)
<1>1. At(k, u, w, La, Lo)
  BY DEF Own
<1>2. /\ SameBut(u, u, k) /\ SameBut(w, w2, k)
      /\ Beside(La, La, k) /\ Beside(Lo, Lo, k)
  BY BesideSelf, BesideAdded, BesideTaken DEF SameBut, Is, IsData
<1>f1. (u[k] \notin OpenAtOwner /\ ~Has(Lo, "CFG_RSP", k)) \/ u[k] \notin Using
  BY <1>1, NotFollowed DEF Own, Ordered, At, Handshake
<1>3. Handshake(k, u[k], w2[k], La, Lo)
  BY <1>1, <1>f1 DEF At, Handshake, Added, Is, IsData
<1>4. Dialogue(k, u[k], w2[k], La, Lo)
  BY <1>1, <1>f1 DEF At, Dialogue, Handshake, Added, Is, IsData
<1>5. Awaited(k, u[k], w2[k], La, Lo)
  BY <1>1, <1>f1 DEF At, Awaited, Handshake, Dialogue, Added, Is, IsData
<1>6. ASSUME NEW b \in Channels, b[1] = o, b # k
      PROVE  Ordered(k, b, u, w2, La, Lo) /\ Ordered(b, k, u, w2, La, Lo)
  <2>1. /\ Ordered(k, b, u, w, La, Lo) /\ Ordered(b, k, u, w, La, Lo)
        /\ At(b, u, w, La, Lo) /\ u[b] = u[b] /\ w2[b] = w[b] /\ b[1] = o /\ b # k
        /\ b[2] \in Nat /\ k[2] \in Nat /\ (b[2] < k[2] \/ k[2] < b[2])
    BY <1>6, <1>2, Mates DEF Own, SameBut
  <2>2. Ordered(k, b, u, w2, La, Lo)
    BY <1>1, <1>f1, <2>1 DEF At, Ordered, Handshake, Dialogue, Added, Is, IsData
  <2>3. Ordered(b, k, u, w2, La, Lo)
    BY <1>1, <1>f1, <2>1 DEF At, Ordered, Handshake, Dialogue, Added, Is, IsData
  <2> QED
    BY <2>2, <2>3
<1> QED
  BY <1>2, <1>3, <1>4, <1>5, <1>6, StepAt DEF At

\* A frame that the owner has dealt with is dropped.
LEMMA OwnerDone ==
  ASSUME NEW o, NEW u, NEW w, NEW La, NEW Lo, Own(o, u, w, La, Lo), NEW k \in Channels,
         k[1] = o, NEW g, NEW N, Taken(Lo, g, N), g.c = k,
         Is(g, "DISC_REQ", k) => u[k] = "CLOSED",
         Is(g, "CONN_RSP", k) \/ Is(g, "CONN_RSP_NEG", k) => u[k] \notin Asking,
         Is(g, "UA", k) => u[k] \notin {"SABME_WAIT_UA", "DISC_WAIT_UA"},
         Is(g, "DM", k) => u[k] # "DISC_WAIT_UA",
         Is(g, "DISC", k) => u[k] # "CONNECTED" /\ (u[k] = "DISC_WAIT_UA" => Has(La, "UA", k))
  PROVE  Own(o, u, w, La, N)
<1>1. At(k, u, w, La, Lo)
  BY DEF Own
<1>2. /\ SameBut(u, u, k) /\ SameBut(w, w, k)
      /\ Beside(La, La, k) /\ Beside(Lo, N, k)
  BY BesideSelf, BesideAdded, BesideTaken DEF SameBut, Is, IsData
<1>3. Handshake(k, u[k], w[k], La, N)
  BY <1>1 DEF At, Handshake, Taken, Is, IsData
<1>4. Dialogue(k, u[k], w[k], La, N)
  BY <1>1 DEF At, Dialogue, Handshake, Taken, Is, IsData
<1>5. Awaited(k, u[k], w[k], La, N)
  BY <1>1 DEF At, Awaited, Handshake, Dialogue, Taken, Is, IsData
<1>6. ASSUME NEW b \in Channels, b[1] = o, b # k
      PROVE  Ordered(k, b, u, w, La, N) /\ Ordered(b, k, u, w, La, N)
  <2>1. /\ Ordered(k, b, u, w, La, Lo) /\ Ordered(b, k, u, w, La, Lo)
        /\ At(b, u, w, La, Lo) /\ u[b] = u[b] /\ w[b] = w[b] /\ b[1] = o /\ b # k
        /\ b[2] \in Nat /\ k[2] \in Nat /\ (b[2] < k[2] \/ k[2] < b[2])
    BY <1>6, <1>2, Mates DEF Own, SameBut
  <2>2. Ordered(k, b, u, w, La, N)
    BY <1>1, <2>1 DEF At, Ordered, Handshake, Dialogue, Taken, Is, IsData
  <2>3. Ordered(b, k, u, w, La, N)
    BY <1>1, <2>1 DEF At, Ordered, Handshake, Dialogue, Taken, Is, IsData
  <2> QED
    BY <2>2, <2>3
<1> QED
  BY <1>2, <1>3, <1>4, <1>5, <1>6, StepAt DEF At

\* A frame that the other device has dealt with is dropped.
LEMMA OtherDone ==
  ASSUME NEW o, NEW u, NEW w, NEW La, NEW Lo, Own(o, u, w, La, Lo), NEW k \in Channels,
         k[1] = o, NEW g, NEW N, Taken(La, g, N), g.c = k, ~Is(g, "CONN_REQ", k),
         Is(g, "DISC_REQ", k) => w[k] = "CLOSED", Is(g, "SABME", k) => w[k] # "WAIT_SABME",
         Is(g, "UA", k) \/ Is(g, "DM", k) => w[k] # "DISC_WAIT_UA",
         Is(g, "DISC", k) => w[k] # "CONNECTED" /\ (w[k] = "DISC_WAIT_UA" => Has(Lo, "UA", k))
  PROVE  Own(o, u, w, N, Lo)
<1>1. At(k, u, w, La, Lo)
  BY DEF Own
<1>2. /\ SameBut(u, u, k) /\ SameBut(w, w, k)
      /\ Beside(La, N, k) /\ Beside(Lo, Lo, k)
  BY BesideSelf, BesideAdded, BesideTaken DEF SameBut, Is, IsData
<1>3. Handshake(k, u[k], w[k], N, Lo)
  BY <1>1 DEF At, Handshake, Taken, Is, IsData
<1>4. Dialogue(k, u[k], w[k], N, Lo)
  BY <1>1 DEF At, Dialogue, Handshake, Taken, Is, IsData
<1>5. Awaited(k, u[k], w[k], N, Lo)
  BY <1>1 DEF At, Awaited, Handshake, Dialogue, Taken, Is, IsData
<1>6. ASSUME NEW b \in Channels, b[1] = o, b # k
      PROVE  Ordered(k, b, u, w, N, Lo) /\ Ordered(b, k, u, w, N, Lo)
  <2>1. /\ Ordered(k, b, u, w, La, Lo) /\ Ordered(b, k, u, w, La, Lo)
        /\ At(b, u, w, La, Lo) /\ u[b] = u[b] /\ w[b] = w[b] /\ b[1] = o /\ b # k
        /\ b[2] \in Nat /\ k[2] \in Nat /\ (b[2] < k[2] \/ k[2] < b[2])
    BY <1>6, <1>2, Mates DEF Own, SameBut
  <2>2. Ordered(k, b, u, w, N, Lo)
    BY <1>1, <2>1 DEF At, Ordered, Handshake, Dialogue, Taken, Is, IsData
  <2>3. Ordered(b, k, u, w, N, Lo)
    BY <1>1, <2>1 DEF At, Ordered, Handshake, Dialogue, Taken, Is, IsData
  <2> QED
    BY <2>2, <2>3
<1> QED
  BY <1>2, <1>3, <1>4, <1>5, <1>6, StepAt DEF At

HIDE DEF Asking, Configuring, Engaged, OpenAtOwner, OpenAtOther, Young, Using, Signals

-----------------------------------------------------------------------------
(* Theorems *)

\* The invariant holds in every reachable state.
LEMMA Invariant == Spec => []Inv
<1>1. Init => Inv
  BY InitInv
<1>2. Inv /\ [Next]_vars => Inv'
  BY NextInv
<1> QED
  BY <1>1, <1>2, PTL DEF Spec

\* The states, timers, channels and DLCIs keep their meaning for any number of channels and
\* calls: in particular the swap of directions (rfc_mx_swap_directions) never takes a port to
\* a DLCI of another server channel.
THEOREM TypeCorrect == Spec => []TypeOK
<1>1. Inv => TypeOK
  <2> SUFFICES ASSUME Inv PROVE TypeOK
    OBVIOUS
  <2>1. budget \in [{"opens", "closes", "faults"} -> Nat]
    BY DEF Inv
  <2>2. ASSUME NEW p \in Peers, NEW i \in 1 .. Len(link[p])
        PROVE  link[p][i].c \in Channels
    <3>1. link[p][i] \in Frame
      BY DEF Inv
    <3> QED
      BY <3>1 DEF Frame, AnyFrame
  <2>3. ASSUME NEW p \in Peers
        PROVE  LET s == stack[p] IN
               /\ s.mx.state \in MxStates /\ s.mx.timer \in MxTimers
               /\ {s.mx.lcid, s.mx.collision_outgoing_lcid} \subseteq Channels \cup {NoChannel}
               /\ s.lcid_mcb \subseteq Channels
               /\ s.port_handles \in [Dlcis -> Handles \cup {NoHandle}]
               /\ \A x \in Handles :
                    /\ s.port[x].state \in PortStates /\ s.port[x].sm \in SmStates
                    /\ s.port[x].dlci \in Dlcis \cup {0}
                    /\ s.port[x].expected_rsp \subseteq {"PN", "MSC"}
               /\ s.ccb \in [Channels -> CcbStates] /\ s.made \in 0 .. MaxChannels
               /\ s.fate \in {"up", "null_mcb"} /\ s.out = <<>>
    <3> DEFINE s == stack[p]
    <3>1. IsDevice(p, s) /\ s.out = <<>>
      BY DEF Inv
    <3> HIDE DEF s
    <3>2. s.fate \in {"up", "null_mcb"}
      BY <3>1 DEF IsDevice, Device
    <3>3. {s.mx.lcid, s.mx.collision_outgoing_lcid} \subseteq Channels \cup {NoChannel}
      BY <3>1, MxMembers DEF AnyChannel
    <3>4. s.mx.state \in MxStates /\ s.mx.timer \in MxTimers
      BY <3>1, MxMembers
    <3>5. /\ s.lcid_mcb \subseteq Channels /\ s.port_handles \in [Dlcis -> Handles \cup {NoHandle}]
          /\ s.ccb \in [Channels -> CcbStates] /\ s.made \in 0 .. MaxChannels
      BY <3>1, Members DEF AnyHandle
    <3>6. \A x \in Handles :
            /\ s.port[x].state \in PortStates /\ s.port[x].sm \in SmStates
            /\ s.port[x].dlci \in Dlcis \cup {0}
            /\ s.port[x].expected_rsp \subseteq {"PN", "MSC"}
      BY <3>1, PortMembers DEF Responses
    <3> QED
      BY <3>1, <3>2, <3>3, <3>4, <3>5, <3>6 DEF s
  <2> QED
    BY <2>1, <2>2, <2>3 DEF TypeOK, MxStates, MxTimers, PortStates, SmStates, CcbStates
<1> QED
  BY <1>1, Invariant, PTL

\* port_handles of the multiplexer and p_mcb, dlci of the ports agree after every handler, for
\* any number of channels, calls and faults: a frame never reaches a port that left or is on
\* another DLCI, and a port outside use holds no pointer to a multiplexer.
THEOREM HandlesAgreeHolds == Spec => []HandlesAgree
<1>1. Inv => HandlesAgree
  <2> SUFFICES ASSUME Inv, NEW p \in Peers
               PROVE  /\ \A x \in Handles : stack[p].port[x].attached => stack[p].port[x].in_use
                      /\ \A d \in Dlcis : stack[p].port_handles[d] # NoHandle =>
                           /\ stack[p].port[stack[p].port_handles[d]].attached
                           /\ stack[p].port[stack[p].port_handles[d]].dlci = d
    BY DEF HandlesAgree
  <2>1. IsDevice(p, stack[p])
    BY DEF Inv
  <2> QED
    BY <2>1, PortMembers, HandleMembers
<1> QED
  BY <1>1, Invariant, PTL

=============================================================================
