------------------------------- MODULE Rfcomm -------------------------------
(***************************************************************************)
(* The RFCOMM multiplexer and its ports (stack/rfcomm) of two devices that *)
(* run this code and share one ACL link, over the part of L2CAP that       *)
(* stack/rfcomm sees (stack/l2cap/l2c_csm.cc).                             *)
(*                                                                         *)
(* Each device has one multiplexer control block for the other, a client   *)
(* port that its application opens and closes, and a listening server port *)
(* of the same server channel.  Data, credits, congestion and the          *)
(* negotiated values are left out; every frame that sets up or takes down  *)
(* a connection is there.  Handlers run to completion on the main thread   *)
(* of their device, so each is an operator from the state of a device to   *)
(* its next state; what it sends is collected in `out'.  The flags         *)
(* rfcomm_fix_mux_collision_handling and                                   *)
(* fix_socket_connection_failed_no_callback are on.                        *)
(***************************************************************************)
EXTENDS Integers, Sequences, FiniteSets

CONSTANTS
    Peers,        \* the two devices
    MaxChannels,  \* L2CAP channels a device can open; then L2CA_ConnectReq returns 0
    MaxOpens,     \* RFCOMM_CreateConnection calls, in all
    MaxCloses,    \* RFCOMM_RemoveConnection and RFCOMM_RemoveServer calls, in all
    MaxFaults     \* failed security checks, refusals and link losses, in all

ASSUME PeersAssumption == \E p, q \in Peers : p # q /\ Peers = {p, q}
ASSUME BoundsAssumption == {MaxChannels, MaxOpens, MaxCloses, MaxFaults} \subseteq Nat

VARIABLES
    stack,   \* stack[p]: RFCOMM and L2CAP of device p
    link,    \* link[p]: what is on its way to p, in order
    budget   \* the calls and faults that are left

vars == <<stack, link, budget>>

Other(p) == CHOOSE q \in Peers : q # p

Channels == Peers \X (1 .. MaxChannels)
NoChannel == <<>>
Dlcis == {2, 3}             \* server channel 1: 2 * scn and 2 * scn + 1
Handles == {"sv", "cl"}     \* rfc_cb.port.port[], in this order
NoHandle == "none"

(***************************************************************************)
(* The state of a device.                                                  *)
(***************************************************************************)
IdleMx == [state |-> "IDLE", lcid |-> NoChannel, is_initiator |-> FALSE,
           is_disc_initiator |-> FALSE, restart_required |-> FALSE,
           collision_outgoing_lcid |-> NoChannel,
           collision_outgoing_conn_cnf |-> FALSE,
           collision_outgoing_cfg_complete |-> FALSE, timer |-> "NONE"]

FreePort == [in_use |-> FALSE, is_server |-> FALSE, keep |-> FALSE, state |-> "CLOSED",
             sm |-> "CLOSED", dlci |-> 0, attached |-> FALSE, timer |-> FALSE,
             expected_rsp |-> {}, req_sent |-> FALSE]

ListeningPort == [FreePort EXCEPT !.in_use = TRUE, !.is_server = TRUE, !.keep = TRUE,
                                  !.state = "OPENING", !.dlci = 2]

InitialDevice(p) ==
    [self |-> p, mx |-> IdleMx, port_handles |-> [d \in Dlcis |-> NoHandle],
     lcid_mcb |-> {}, port |-> [cl |-> FreePort, sv |-> ListeningPort],
     ccb |-> [c \in Channels |-> "CLOSED"], made |-> 0, fate |-> "up", out |-> <<>>]

(***************************************************************************)
(* L2CAP below.  A channel is known by the same name on both sides.        *)
(***************************************************************************)
IsOpen(s, c) == c \in Channels /\ s.ccb[c] = "OPEN"

Signal(s, k, c) == [s EXCEPT !.out = Append(@, [k |-> k, c |-> c, d |-> 0, initiator |-> FALSE])]

L2CA_ConnectReq(s) ==
    LET c == <<s.self, s.made + 1>> IN
    Signal([s EXCEPT !.made = @ + 1, !.ccb[c] = "W4_CONNECT_RSP"], "CONN_REQ", c)

L2CA_DisconnectReq(s, c) ==
    IF c \notin Channels \/ s.ccb[c] = "CLOSED" THEN s
    ELSE IF s.ccb[c] = "W4_CONNECT_RSP" THEN [s EXCEPT !.ccb[c] = "CLOSED"]
    ELSE Signal([s EXCEPT !.ccb[c] = "CLOSED"], "DISC_REQ", c)

(* A frame goes out on the channel of the multiplexer if that is open.     *)
rfc_send(s, k, d) ==
    IF ~IsOpen(s, s.mx.lcid) THEN s
    ELSE [s EXCEPT !.out = Append(@, [k |-> k, c |-> s.mx.lcid, d |-> d,
                                      initiator |-> s.mx.is_initiator])]

(***************************************************************************)
(* Looking things up.                                                      *)
(***************************************************************************)
rfc_find_lcid_mcb(s, c) == c \in s.lcid_mcb /\ s.mx.lcid = c

IsCached(s, c) == ~rfc_find_lcid_mcb(s, c) /\ s.lcid_mcb # {} /\ s.mx.collision_outgoing_lcid = c

ForgetCached(s) == [s EXCEPT !.mx.collision_outgoing_lcid = NoChannel,
                             !.mx.collision_outgoing_conn_cnf = FALSE,
                             !.mx.collision_outgoing_cfg_complete = FALSE]

(* The first port that waits for a connection on this DLCI, an even DLCI   *)
(* of a listening port standing for the odd one too.                       *)
Waits(s, x, d) == /\ s.port[x].in_use /\ ~s.port[x].attached
                  /\ s.port[x].dlci \in {d, d - (d % 2)}
port_find_dlci_port(s, d) == IF Waits(s, "sv", d) THEN "sv"
                             ELSE IF Waits(s, "cl", d) THEN "cl" ELSE NoHandle

Attach(s, x, d) == [s EXCEPT !.port_handles[d] = x, !.port[x].dlci = d, !.port[x].attached = TRUE]

(***************************************************************************)
(* Closing ports, and the multiplexer with the last one.                   *)
(***************************************************************************)
rfc_mx_close_req(s) ==
    IF s.mx.state # "CONNECTED" THEN s
    ELSE rfc_send([s EXCEPT !.mx.timer = "DISC", !.mx.state = "DISC_WAIT_UA"], "DISC", 0)

rfc_check_mcb_active(s) ==
    LET s1 == [s EXCEPT !.mx.is_disc_initiator = FALSE] IN
    IF \E d \in Dlcis : s.port_handles[d] # NoHandle THEN s1
    ELSE IF s.mx.is_disc_initiator THEN rfc_mx_close_req(s1)
    ELSE [s1 EXCEPT !.mx.timer = "RELEASE"]

(* Mutation: the multiplexer keeps the handle of the port.                 *)
LeaveMcbKeepsHandle(s, x) ==
    IF ~s.port[x].attached THEN s ELSE rfc_check_mcb_active(s)

(* What is common to every way a port leaves its multiplexer.              *)
LeaveMcb(s, x) ==
    IF ~s.port[x].attached THEN s
    ELSE rfc_check_mcb_active([s EXCEPT !.port_handles[s.port[x].dlci] = NoHandle])

port_release_port(s, x) ==
    LET s1 == [s EXCEPT !.port[x].timer = FALSE, !.port[x].state = "CLOSED"]
        s2 == LeaveMcb(s1, x)
        kept == [ListeningPort EXCEPT !.expected_rsp = s.port[x].expected_rsp]
    IN IF s.port[x].sm # "CLOSED" THEN s1
       ELSE [s2 EXCEPT !.port[x] = IF s.port[x].keep THEN kept ELSE FreePort]

port_rfc_closed(s, x) ==
    LET s1 == [s EXCEPT !.port[x].sm = "CLOSED"]
        s2 == LeaveMcb([s1 EXCEPT !.port[x].timer = FALSE], x)
    IN IF s.port[x].state = "OPENING" /\ s.port[x].is_server
       THEN [s2 EXCEPT !.port[x].attached = FALSE, !.port[x].dlci = 2]
       ELSE port_release_port(s1, x)

rfc_port_closed(s, x) ==
    port_rfc_closed(LeaveMcb([s EXCEPT !.port[x].timer = FALSE, !.port[x].sm = "CLOSED"], x), x)

PORT_DlcReleaseInd(s, d) ==
    IF s.port_handles[d] = NoHandle THEN s ELSE port_rfc_closed(s, s.port_handles[d])

(* Applies Op to the ports attached to the multiplexer, in table order.    *)
ForAttached(s, Op(_, _)) ==
    LET s1 == IF s.port.sv.attached THEN Op(s, "sv") ELSE s
    IN IF s1.port.cl.attached THEN Op(s1, "cl") ELSE s1

rfc_release_multiplexer_channel(s) ==
    [s EXCEPT !.lcid_mcb = @ \ {s.mx.lcid}, !.mx = IdleMx,
              !.port_handles = [d \in Dlcis |-> NoHandle],
              !.port.sv.attached = FALSE, !.port.cl.attached = FALSE]

PORT_CloseInd(s) == rfc_release_multiplexer_channel(ForAttached(s, port_rfc_closed))

PORT_TimeOutCloseMux(s) == ForAttached(s, port_rfc_closed)

(***************************************************************************)
(* Opening ports over a multiplexer that is up, or failed to come up.      *)
(***************************************************************************)
RFCOMM_ParameterNegotiationRequest(s, d) ==
    LET x == s.port_handles[d] IN
    IF x = NoHandle \/ s.mx.state # "CONNECTED" THEN s
    ELSE rfc_send([s EXCEPT !.port[x].expected_rsp = @ \cup {"PN"}, !.port[x].timer = TRUE],
                  "PN", d)

NegotiatePort(s, x) == RFCOMM_ParameterNegotiationRequest(s, s.port[x].dlci)

NoPortsUp(s) == ~\E x \in Handles : s.port[x].attached

PORT_StartCnf(s, ok) ==
    IF NoPortsUp(s) THEN rfc_check_mcb_active(s)
    ELSE IF ok THEN ForAttached(s, NegotiatePort)
    ELSE rfc_release_multiplexer_channel(ForAttached(s, port_release_port))

RFCOMM_ControlReq(s, d) ==
    LET x == s.port_handles[d] IN
    IF x = NoHandle \/ s.port[x].state # "OPENED" \/ s.port[x].sm # "OPENED" THEN s
    ELSE rfc_send([s EXCEPT !.port[x].req_sent = TRUE, !.port[x].timer = TRUE,
                            !.port[x].expected_rsp = @ \cup {"MSC"}], "MSC", d)

PORT_DlcEstablishCnf(s, d, ok) ==
    LET x == s.port_handles[d] IN
    IF x = NoHandle THEN s
    ELSE IF ~ok THEN port_rfc_closed(s, x)
    ELSE RFCOMM_ControlReq([s EXCEPT !.mx.timer = "NONE", !.port[x].state = "OPENED"], d)

(* The server's side: the multiplexer may be closing by now.  The port is  *)
(* reported open and marked OPENED in either case.                         *)
PORT_DlcEstablishInd(s, d) ==
    LET x == s.port_handles[d]
        s1 == [s EXCEPT !.mx.timer = "NONE"]
        s2 == IF s.mx.state # "CONNECTED" THEN PORT_DlcReleaseInd(s1, d)
              ELSE IF s.port[x].sm = "TERM_WAIT_SEC_CHECK"
              THEN rfc_send([s1 EXCEPT !.port[x].sm = "OPENED"], "UA", d)
              ELSE s1
    IN IF x = NoHandle THEN s ELSE [s2 EXCEPT !.port[x].state = "OPENED"]

(***************************************************************************)
(* The state machine of a port.                                            *)
(***************************************************************************)
Crash(s) == [s EXCEPT !.fate = "null_mcb"]

rfc_port_sm_state_closed(s, x, event) ==
    CASE event = "OPEN" -> [s EXCEPT !.port[x].sm = "ORIG_WAIT_SEC_CHECK"]
      [] event = "SABME" -> [s EXCEPT !.mx.timer = "NONE", !.port[x].sm = "TERM_WAIT_SEC_CHECK"]
      [] event = "DM" -> rfc_port_closed(s, x)
      [] event = "DISC" -> rfc_send(s, "DM", s.port[x].dlci)
      [] event = "TIMEOUT" -> PORT_TimeOutCloseMux(s)
      [] OTHER -> s

SendDisc(s, x) ==
    rfc_send([s EXCEPT !.port[x].timer = TRUE, !.port[x].expected_rsp = {},
                       !.port[x].sm = "DISC_WAIT_UA"], "DISC", s.port[x].dlci)

EstablishFailed(s, x) == rfc_port_closed(PORT_DlcEstablishCnf(s, s.port[x].dlci, FALSE), x)

rfc_port_sm_sabme_wait_ua(s, x, event) ==
    LET d == s.port[x].dlci IN
    CASE event = "CLOSE" -> SendDisc(s, x)
      [] event = "UA" -> PORT_DlcEstablishCnf([s EXCEPT !.port[x].timer = FALSE,
                                                        !.port[x].sm = "OPENED"], d, TRUE)
      [] event = "DM" -> EstablishFailed([s EXCEPT !.mx.is_disc_initiator = TRUE], x)
      [] event = "DISC" -> EstablishFailed(rfc_send(s, "UA", d), x)
      [] event = "SABME" -> rfc_send(s, "UA", d)
      [] event = "TIMEOUT" -> IF s.port[x].attached
                              THEN PORT_DlcEstablishCnf([s EXCEPT !.port[x].sm = "CLOSED"], d, FALSE)
                              ELSE Crash(s)
      [] OTHER -> s

rfc_port_sm_term_wait_sec_check(s, x, event) ==
    LET d == s.port[x].dlci IN
    CASE event = "SEC_OK" -> IF s.port[x].attached THEN PORT_DlcEstablishInd(s, d) ELSE Crash(s)
      [] event = "SEC_FAILED" ->
            IF ~s.port[x].attached THEN s
            ELSE port_rfc_closed([rfc_send(s, "DM", d) EXCEPT !.mx.is_disc_initiator = TRUE], x)
      [] event = "DISC" -> PORT_DlcReleaseInd(rfc_send([s EXCEPT !.port[x].sm = "CLOSED"],
                                                       "UA", d), d)
      [] OTHER -> s

rfc_port_sm_orig_wait_sec_check(s, x, event) ==
    CASE event = "SEC_OK" -> IF s.port[x].attached
            THEN rfc_send([s EXCEPT !.port[x].timer = TRUE, !.port[x].sm = "SABME_WAIT_UA"],
                          "SABME", s.port[x].dlci)
            ELSE Crash(s)
      [] event = "SEC_FAILED" -> IF s.port[x].attached
            THEN EstablishFailed([s EXCEPT !.mx.is_disc_initiator = TRUE], x)
            ELSE Crash(s)
      [] event = "CLOSE" -> rfc_port_closed(s, x)
      [] OTHER -> s

rfc_port_sm_opened(s, x, event) ==
    LET d == s.port[x].dlci IN
    CASE event = "CLOSE" -> SendDisc(s, x)
      [] event = "SABME" -> rfc_send(s, "UA", d)
      [] event = "DM" -> rfc_port_closed(PORT_DlcReleaseInd(s, d), x)
      [] event = "DISC" -> PORT_DlcReleaseInd(rfc_send([s EXCEPT !.port[x].sm = "CLOSED"],
                                                       "UA", d), d)
      [] event = "TIMEOUT" -> PORT_TimeOutCloseMux(s)
      [] OTHER -> s

rfc_port_sm_disc_wait_ua(s, x, event) ==
    CASE event \in {"UA", "DM"} -> rfc_port_closed([s EXCEPT !.mx.is_disc_initiator = TRUE], x)
      [] event \in {"SABME", "DISC"} -> rfc_send(s, "DM", s.port[x].dlci)
      [] event = "TIMEOUT" -> rfc_port_closed(s, x)
      [] OTHER -> s

rfc_port_sm_execute(s, x, event) ==
    CASE s.port[x].sm = "CLOSED" -> rfc_port_sm_state_closed(s, x, event)
      [] s.port[x].sm = "SABME_WAIT_UA" -> rfc_port_sm_sabme_wait_ua(s, x, event)
      [] s.port[x].sm = "ORIG_WAIT_SEC_CHECK" -> rfc_port_sm_orig_wait_sec_check(s, x, event)
      [] s.port[x].sm = "TERM_WAIT_SEC_CHECK" -> rfc_port_sm_term_wait_sec_check(s, x, event)
      [] s.port[x].sm = "OPENED" -> rfc_port_sm_opened(s, x, event)
      [] s.port[x].sm = "DISC_WAIT_UA" -> rfc_port_sm_disc_wait_ua(s, x, event)

(***************************************************************************)
(* The state machine of the multiplexer.                                   *)
(***************************************************************************)
(* Mutation: the DLCI of the port goes up whichever way the swap goes.     *)
rfc_mx_swap_directions_up(s) ==
    LET from == IF s.mx.is_initiator THEN 2 ELSE 3
        x == s.port_handles[from]
        s1 == [s EXCEPT !.mx.is_initiator = ~@]
    IN IF x = NoHandle THEN s1
       ELSE [s1 EXCEPT !.port_handles[from] = NoHandle, !.port_handles[5 - from] = x,
                       !.port[x].dlci = @ + 1]

(* The ports move to the DLCIs of the other direction.                     *)
rfc_mx_swap_directions(s) ==
    LET from == IF s.mx.is_initiator THEN 2 ELSE 3
        to == 5 - from
        x == s.port_handles[from]
        s1 == [s EXCEPT !.mx.is_initiator = ~@]
    IN IF x = NoHandle THEN s1
       ELSE [s1 EXCEPT !.port_handles[from] = NoHandle, !.port_handles[to] = x,
                       !.port[x].dlci = @ + (to - from)]

(* Mutation: the side that accepted the channel waits without a timer.     *)
rfc_mx_conf_cnf_unwatched(s) ==
    IF s.mx.state # "CONFIGURE" THEN s
    ELSE IF s.mx.is_initiator
    THEN rfc_send([s EXCEPT !.mx.state = "SABME_WAIT_UA", !.mx.timer = "T1"], "SABME", 0)
    ELSE [s EXCEPT !.mx.state = "WAIT_SABME", !.mx.timer = "NONE"]

rfc_mx_conf_cnf(s) ==
    IF s.mx.state # "CONFIGURE" THEN s
    ELSE IF s.mx.is_initiator
    THEN rfc_send([s EXCEPT !.mx.state = "SABME_WAIT_UA", !.mx.timer = "T1"], "SABME", 0)
    ELSE [s EXCEPT !.mx.state = "WAIT_SABME", !.mx.timer = "CONN"]

rfc_mx_retry_with_cached_lcid(s) ==
    LET cached == s.mx.collision_outgoing_lcid
        s1 == L2CA_DisconnectReq(s, s.mx.lcid)
        s2 == [s1 EXCEPT !.lcid_mcb = (@ \ {s.mx.lcid}) \cup {cached}, !.mx.lcid = cached]
        s3 == rfc_mx_swap_directions(ForgetCached(s2))
        s4 == [s3 EXCEPT !.mx.state = IF s.mx.collision_outgoing_conn_cnf
                                      THEN "CONFIGURE" ELSE "WAIT_CONN_CNF"]
    IN IF s.mx.collision_outgoing_cfg_complete THEN rfc_mx_conf_cnf(s4) ELSE s4

rfc_mx_start_req(s) ==
    CASE s.mx.state = "IDLE" /\ s.made < MaxChannels ->
            LET s1 == L2CA_ConnectReq(s)
                c == <<s.self, s1.made>>
            IN [s1 EXCEPT !.mx.lcid = c, !.lcid_mcb = @ \cup {c}, !.mx.state = "WAIT_CONN_CNF"]
      [] s.mx.state = "IDLE" /\ s.made = MaxChannels -> PORT_StartCnf(s, FALSE)
      [] s.mx.state = "DISC_WAIT_UA" -> [s EXCEPT !.mx.restart_required = TRUE]
      [] OTHER -> s

(* The disconnection is over: start again if a port was opened meanwhile.  *)
rfc_mx_disconnected(s) ==
    LET s1 == L2CA_DisconnectReq(s, s.mx.lcid)
        s2 == L2CA_ConnectReq(s1)
        c == <<s.self, s2.made>>
    IN IF ~s.mx.restart_required THEN rfc_release_multiplexer_channel(s1)
       ELSE IF s.made = MaxChannels
       THEN PORT_StartCnf([s1 EXCEPT !.lcid_mcb = @ \ {s.mx.lcid}, !.mx.lcid = NoChannel], FALSE)
       ELSE [s2 EXCEPT !.mx.lcid = c, !.lcid_mcb = @ \cup {c}, !.mx.timer = "INIT",
                       !.mx.is_initiator = TRUE, !.mx.restart_required = FALSE,
                       !.mx.state = "WAIT_CONN_CNF"]

(* The channel of this multiplexer cannot be used: tell the ports.         *)
StartFailed(s) ==
    PORT_StartCnf(L2CA_DisconnectReq([s EXCEPT !.mx.state = "IDLE"], s.mx.lcid), FALSE)
GiveUp(s) ==
    PORT_CloseInd(L2CA_DisconnectReq([s EXCEPT !.mx.state = "IDLE"], s.mx.lcid))
GiveUpIncoming(s) ==
    IF s.mx.collision_outgoing_lcid # NoChannel
    THEN rfc_mx_retry_with_cached_lcid([s EXCEPT !.mx.state = "IDLE"])
    ELSE GiveUp(s)

rfc_mx_timeout(s) ==
    CASE s.mx.state = "WAIT_CONN_CNF" -> GiveUp(s)
      [] s.mx.state = "CONFIGURE" ->
            LET s1 == StartFailed(s) IN
            IF s1.mx.collision_outgoing_lcid # NoChannel
            THEN rfc_mx_retry_with_cached_lcid(s1) ELSE s1
      [] s.mx.state = "SABME_WAIT_UA" -> StartFailed(s)
      [] s.mx.state = "WAIT_SABME" -> GiveUpIncoming(s)
      [] s.mx.state = "CONNECTED" -> rfc_mx_close_req(s)
      [] s.mx.state = "DISC_WAIT_UA" -> rfc_mx_disconnected(s)
      [] OTHER -> s

(* Frames on DLCI 0.                                                       *)
rfc_mx_frame(s, event) ==
    LET stopped == [s EXCEPT !.mx.timer = "NONE"]
        connected == [stopped EXCEPT !.mx.state = "CONNECTED"]
    IN CASE event = "SABME" /\ s.mx.state = "WAIT_SABME" ->
               PORT_StartCnf(ForgetCached(rfc_send(connected, "UA", 0)), TRUE)
         [] event = "UA" /\ s.mx.state = "SABME_WAIT_UA" -> PORT_StartCnf(connected, TRUE)
         [] event = "DM" /\ s.mx.state = "SABME_WAIT_UA" -> StartFailed(stopped)
         [] event \in {"UA", "DM"} /\ s.mx.state = "DISC_WAIT_UA" -> rfc_mx_disconnected(s)
         [] event = "DISC" /\ s.mx.state = "IDLE" -> rfc_send(s, "DM", 0)
         [] event = "DISC" /\ s.mx.state = "CONNECTED" ->
               LET s1 == rfc_send(s, "UA", 0) IN
               PORT_CloseInd(IF s.mx.is_initiator THEN L2CA_DisconnectReq(s1, s.mx.lcid) ELSE s1)
         [] event = "DISC" /\ s.mx.state = "DISC_WAIT_UA" -> rfc_send(s, "UA", 0)
         [] OTHER -> s

(* Mutation: the incoming channel is used without a change of direction.   *)
rfc_mx_collision_unswapped(s) ==
    IF s.mx.state = "WAIT_CONN_CNF"
    THEN [s EXCEPT !.lcid_mcb = @ \cup {s.mx.lcid}, !.mx.timer = "COLLISION",
                   !.mx.state = "CONFIGURE"]
    ELSE [L2CA_DisconnectReq(s, s.mx.lcid) EXCEPT !.mx.lcid = s.mx.collision_outgoing_lcid,
                                                  !.mx.collision_outgoing_lcid = NoChannel]

(* Both sides opened a channel: the incoming one is used and the outgoing  *)
(* one kept aside, or the incoming one is refused.                         *)
rfc_mx_collision(s) ==
    IF s.mx.state = "WAIT_CONN_CNF"
    THEN [rfc_mx_swap_directions(s) EXCEPT !.lcid_mcb = @ \cup {s.mx.lcid},
                                           !.mx.timer = "COLLISION", !.mx.state = "CONFIGURE"]
    ELSE [L2CA_DisconnectReq(s, s.mx.lcid) EXCEPT !.mx.lcid = s.mx.collision_outgoing_lcid,
                                                  !.mx.collision_outgoing_lcid = NoChannel]

(***************************************************************************)
(* What L2CAP reports to RFCOMM.                                           *)
(***************************************************************************)
rfc_alloc_multiplexer_channel(s, is_initiator) ==
    IF s.mx.state = "IDLE"
    THEN [s EXCEPT !.mx = [IdleMx EXCEPT !.is_initiator = is_initiator, !.timer = "INIT"],
                   !.port_handles = [d \in Dlcis |-> NoHandle]]
    ELSE IF s.mx.state = "CONNECTED" THEN [s EXCEPT !.mx.timer = "NONE"]
    ELSE s

RFCOMM_ConnectInd(s, c) ==
    LET s1 == rfc_alloc_multiplexer_channel(s, FALSE)
        s2 == [s1 EXCEPT !.mx.lcid = c, !.lcid_mcb = @ \cup {c}]
    IN IF s1.mx.is_initiator /\ s1.mx.state # "IDLE"
       THEN rfc_mx_collision([s1 EXCEPT !.mx.collision_outgoing_lcid = s1.mx.lcid, !.mx.lcid = c])
       ELSE IF s1.mx.state = "IDLE"
       THEN [s2 EXCEPT !.mx.timer = "CONN", !.mx.state = "CONFIGURE"]
       ELSE s2

RFCOMM_ConnectCnf(s, c) ==
    IF IsCached(s, c) THEN [s EXCEPT !.mx.collision_outgoing_conn_cnf = TRUE]
    ELSE IF rfc_find_lcid_mcb(s, c) /\ s.mx.state = "WAIT_CONN_CNF"
    THEN [s EXCEPT !.mx.state = "CONFIGURE"]
    ELSE s

RFCOMM_ConfigCnf(s, c) ==
    IF IsCached(s, c) THEN [s EXCEPT !.mx.collision_outgoing_cfg_complete = TRUE]
    ELSE IF ~rfc_find_lcid_mcb(s, c) THEN s
    ELSE IF s.mx.state = "SABME_WAIT_UA" THEN StartFailed(s)
    ELSE IF s.mx.state = "WAIT_SABME" THEN GiveUpIncoming(s)
    ELSE rfc_mx_conf_cnf(s)

(* The channel is up: only here does the accepting side hear of it.        *)
l2c_csm_indicate_connection_open(s, c) ==
    LET s1 == [s EXCEPT !.ccb[c] = "OPEN"]
        s2 == IF c[1] = s.self THEN RFCOMM_ConnectCnf(s1, c) ELSE RFCOMM_ConnectInd(s1, c)
    IN IF IsOpen(s2, c) THEN RFCOMM_ConfigCnf(s2, c) ELSE s2

RFCOMM_DisconnectInd(s, c) ==
    IF IsCached(s, c) THEN ForgetCached(s)
    ELSE IF rfc_find_lcid_mcb(s, c) /\ s.mx.state # "IDLE"
    THEN PORT_CloseInd([s EXCEPT !.mx.state = "IDLE"])
    ELSE s

(* The channel was refused, or nothing was heard of it.                    *)
rfc_on_l2cap_error(s, c) ==
    IF IsCached(s, c) THEN ForgetCached(s)
    ELSE IF rfc_find_lcid_mcb(s, c) /\ s.mx.state = "WAIT_CONN_CNF"
    THEN PORT_StartCnf([s EXCEPT !.mx.state = "IDLE"], FALSE)
    ELSE s

(***************************************************************************)
(* Frames of RFCOMM.                                                       *)
(***************************************************************************)
PORT_ParNegInd(s, d) ==
    LET x == IF s.port_handles[d] # NoHandle THEN s.port_handles[d]
             ELSE port_find_dlci_port(s, d)
        s1 == Attach(s, x, d)
    IN IF x = NoHandle THEN rfc_check_mcb_active(rfc_send(s, "DM", d))
       ELSE IF s.mx.state = "CONNECTED" THEN rfc_send(s1, "PN_RSP", d)
       ELSE s1

RFCOMM_DlcEstablishReq(s, d) ==
    IF s.mx.state # "CONNECTED" THEN PORT_DlcEstablishCnf(s, d, FALSE)
    ELSE rfc_port_sm_execute(s, s.port_handles[d], "OPEN")

rfc_process_pn(s, k, d) ==
    LET x == s.port_handles[d]
        s1 == [s EXCEPT !.port[x].expected_rsp = @ \ {"PN"}, !.port[x].timer = FALSE]
    IN IF k = "PN"
       THEN IF s.mx.state = "DISC_WAIT_UA" THEN rfc_send(s, "DM", d) ELSE PORT_ParNegInd(s, d)
       ELSE IF x = NoHandle \/ "PN" \notin s.port[x].expected_rsp THEN s
       ELSE IF s.port[x].state = "OPENING" THEN RFCOMM_DlcEstablishReq(s1, d)
       ELSE s1

rfc_process_msc(s, k, d) ==
    LET x == s.port_handles[d]
        s1 == rfc_send(s, "MSC_RSP", d)
    IN IF x = NoHandle THEN s
       ELSE IF k = "MSC" THEN IF s.port[x].req_sent THEN s1 ELSE RFCOMM_ControlReq(s1, d)
       ELSE IF "MSC" \notin s.port[x].expected_rsp THEN s
       ELSE [s EXCEPT !.port[x].expected_rsp = @ \ {"MSC"}, !.port[x].timer = FALSE]

(* A frame of the wrong direction: the sender takes itself for what the    *)
(* receiver is, so a command reads as a response.                          *)
BadFrame(s, f) == f.initiator = s.mx.is_initiator

PortFrame(s, k, d) ==
    LET x == s.port_handles[d]
        y == port_find_dlci_port(s, d)
    IN IF x # NoHandle /\ s.port[x].attached THEN rfc_port_sm_execute(s, x, k)
       ELSE IF k = "DISC" THEN rfc_send(s, "DM", d)
       ELSE IF k # "SABME" THEN s
       ELSE IF y = NoHandle THEN rfc_send(s, "DM", d)
       ELSE rfc_port_sm_execute(Attach(s, y, d), y, k)

RFCOMM_BufDataInd(s, f) ==
    CASE ~rfc_find_lcid_mcb(s, f.c) -> s
      [] rfc_find_lcid_mcb(s, f.c) /\ f.k \in {"PN", "PN_RSP"} -> rfc_process_pn(s, f.k, f.d)
      [] rfc_find_lcid_mcb(s, f.c) /\ f.k \in {"MSC", "MSC_RSP"} -> rfc_process_msc(s, f.k, f.d)
      [] OTHER -> IF BadFrame(s, f) THEN s
                  ELSE IF f.d = 0 THEN rfc_mx_frame(s, f.k)
                  ELSE PortFrame(s, f.k, f.d)

(***************************************************************************)
(* Signals of L2CAP.  The request and the response of a configuration that *)
(* are sent together are one message.                                      *)
(***************************************************************************)
L2capSignal(s, k, c) ==
    LET state == s.ccb[c]
        closed == [s EXCEPT !.ccb[c] = "CLOSED"]
    IN CASE k = "CONN_REQ" -> Signal([s EXCEPT !.ccb[c] = "CONFIG"], "CONN_RSP", c)
         [] k = "CONN_RSP" /\ state = "W4_CONNECT_RSP" ->
               Signal([s EXCEPT !.ccb[c] = "CONFIG"], "CFG", c)
         [] k = "CFG" /\ state = "CONFIG" ->
               l2c_csm_indicate_connection_open(Signal(s, "CFG_RSP", c), c)
         [] k = "CFG_RSP" /\ state = "CONFIG" -> l2c_csm_indicate_connection_open(s, c)
         [] k = "CONN_RSP_NEG" /\ state = "W4_CONNECT_RSP" -> rfc_on_l2cap_error(closed, c)
         [] k = "DISC_REQ" /\ state # "CLOSED" -> RFCOMM_DisconnectInd(closed, c)
         [] OTHER -> s

Signals == {"CONN_REQ", "CONN_RSP", "CFG", "CFG_RSP", "CONN_RSP_NEG", "DISC_REQ"}

Deliver(s, f) ==
    IF f.k \in Signals THEN L2capSignal(s, f.k, f.c)
    ELSE IF IsOpen(s, f.c) THEN RFCOMM_BufDataInd(s, f)
    ELSE s

l2c_ccb_timer_timeout(s, c) ==
    LET s1 == [s EXCEPT !.ccb[c] = "CLOSED"] IN
    IF s.ccb[c] = "W4_CONNECT_RSP" THEN rfc_on_l2cap_error(s1, c)
    ELSE RFCOMM_DisconnectInd(Signal(s1, "DISC_REQ", c), c)

(***************************************************************************)
(* Calls of the application.                                               *)
(***************************************************************************)
port_open_continue(s) ==
    LET d == IF s.mx.state # "IDLE" /\ ~s.mx.is_initiator THEN 3 ELSE 2
        opening == [FreePort EXCEPT !.in_use = TRUE, !.state = "OPENING"]
        s1 == rfc_alloc_multiplexer_channel([s EXCEPT !.port.cl = opening], TRUE)
        s2 == Attach(s1, "cl", d)
    IN IF s2.mx.state = "CONNECTED" THEN RFCOMM_ParameterNegotiationRequest(s2, d)
       ELSE rfc_mx_start_req(s2)

port_start_close(s, x) ==
    LET s1 == [s EXCEPT !.port[x].state = "CLOSING"]
        y == s.port_handles[s.port[x].dlci]
    IN IF ~s.port[x].attached \/ s.port[x].sm = "CLOSED" THEN port_release_port(s1, x)
       ELSE IF y = NoHandle THEN s1
       ELSE rfc_port_sm_execute(s1, y, "CLOSE")

(***************************************************************************)
(* The steps.                                                              *)
(***************************************************************************)
Running == \A p \in Peers : stack[p].fate = "up"

(* Device p has run a handler and is now s; what it sent is on its way.    *)
Becomes(p, s) ==
    /\ stack' = [stack EXCEPT ![p] = [s EXCEPT !.out = <<>>]]
    /\ link' = [link EXCEPT ![Other(p)] = @ \o s.out]

Spend(what) == budget[what] > 0 /\ budget' = [budget EXCEPT ![what] = @ - 1]

Init ==
    /\ stack = [p \in Peers |-> InitialDevice(p)]
    /\ link = [p \in Peers |-> <<>>]
    /\ budget = [opens |-> MaxOpens, closes |-> MaxCloses, faults |-> MaxFaults]

RFCOMM_CreateConnection(p) ==
    /\ Spend("opens")
    /\ ~stack[p].port.cl.in_use
    /\ Becomes(p, port_open_continue(stack[p]))

RFCOMM_RemoveConnection(p, x) ==
    /\ Spend("closes")
    /\ stack[p].port[x].in_use /\ stack[p].port[x].state # "CLOSED"
    /\ Becomes(p, port_start_close(stack[p], x))

RFCOMM_RemoveServer(p) ==
    /\ Spend("closes")
    /\ stack[p].port.sv.in_use /\ stack[p].port.sv.state # "CLOSED"
    /\ Becomes(p, port_start_close([stack[p] EXCEPT !.port.sv.keep = FALSE], "sv"))

Receive(p) ==
    /\ link[p] # <<>>
    /\ LET s == Deliver(stack[p], Head(link[p])) IN
       /\ stack' = [stack EXCEPT ![p] = [s EXCEPT !.out = <<>>]]
       /\ link' = [link EXCEPT ![p] = Tail(@), ![Other(p)] = link[Other(p)] \o s.out]
    /\ UNCHANGED budget

(* L2CAP refuses the channel that the other device asks for.               *)
Refuse(p) ==
    /\ Spend("faults")
    /\ link[p] # <<>> /\ Head(link[p]).k = "CONN_REQ"
    /\ link' = [link EXCEPT ![p] = Tail(@),
                            ![Other(p)] = Append(link[Other(p)],
                                                 [Head(link[p]) EXCEPT !.k = "CONN_RSP_NEG"])]
    /\ UNCHANGED stack

rfcomm_mcb_timer_timeout(p) ==
    /\ stack[p].mx.timer # "NONE"
    /\ Becomes(p, rfc_mx_timeout([stack[p] EXCEPT !.mx.timer = "NONE"]))
    /\ UNCHANGED budget

rfcomm_port_timer_timeout(p, x) ==
    /\ stack[p].port[x].timer
    /\ Becomes(p, rfc_port_sm_execute([stack[p] EXCEPT !.port[x].timer = FALSE], x, "TIMEOUT"))
    /\ UNCHANGED budget

L2capTimeout(p, c) ==
    /\ stack[p].ccb[c] \in {"W4_CONNECT_RSP", "CONFIG"}
    /\ Becomes(p, l2c_ccb_timer_timeout(stack[p], c))
    /\ UNCHANGED budget

(* The security manager ends the check that the port waits for.            *)
WaitsForSecurity(s, x) ==
    s.port[x].in_use /\ s.port[x].sm \in {"ORIG_WAIT_SEC_CHECK", "TERM_WAIT_SEC_CHECK"}

SecurityGranted(p, x) ==
    /\ WaitsForSecurity(stack[p], x)
    /\ Becomes(p, rfc_port_sm_execute(stack[p], x, "SEC_OK"))
    /\ UNCHANGED budget

SecurityFailed(p, x) ==
    /\ Spend("faults")
    /\ WaitsForSecurity(stack[p], x)
    /\ Becomes(p, rfc_port_sm_execute(stack[p], x, "SEC_FAILED"))

(* The ACL link is gone: L2CAP takes every channel down on both devices.   *)
LinkDown(s) ==
    LET s1 == [s EXCEPT !.ccb = [c \in Channels |-> "CLOSED"]]
        s2 == RFCOMM_DisconnectInd(s1, s.mx.collision_outgoing_lcid)
    IN [RFCOMM_DisconnectInd(s2, s.mx.lcid) EXCEPT !.out = <<>>]

LinkLoss ==
    /\ Spend("faults")
    /\ stack' = [p \in Peers |-> LinkDown(stack[p])]
    /\ link' = [p \in Peers |-> <<>>]

Next ==
    /\ Running
    /\ \/ LinkLoss
       \/ \E p \in Peers :
            \/ RFCOMM_CreateConnection(p)
            \/ RFCOMM_RemoveServer(p)
            \/ Receive(p)
            \/ Refuse(p)
            \/ rfcomm_mcb_timer_timeout(p)
            \/ \E c \in Channels : L2capTimeout(p, c)
            \/ \E x \in Handles :
                 \/ RFCOMM_RemoveConnection(p, x)
                 \/ rfcomm_port_timer_timeout(p, x)
                 \/ SecurityGranted(p, x)
                 \/ SecurityFailed(p, x)

Spec == Init /\ [][Next]_vars

(***************************************************************************)
(* Properties.                                                             *)
(***************************************************************************)
(* The states, timers, channels and DLCIs are those the code has a meaning *)
(* for: a swap of directions keeps every port on a DLCI of its own server  *)
(* channel (rfc_mx_swap_directions).                                       *)
TypeOK ==
    /\ \A p \in Peers :
         LET s == stack[p] IN
         /\ s.mx.state \in {"IDLE", "WAIT_CONN_CNF", "CONFIGURE", "SABME_WAIT_UA", "WAIT_SABME",
                            "CONNECTED", "DISC_WAIT_UA"}
         /\ s.mx.timer \in {"NONE", "INIT", "CONN", "COLLISION", "T1", "DISC", "RELEASE"}
         /\ {s.mx.lcid, s.mx.collision_outgoing_lcid} \subseteq Channels \cup {NoChannel}
         /\ s.lcid_mcb \subseteq Channels
         /\ s.port_handles \in [Dlcis -> Handles \cup {NoHandle}]
         /\ \A x \in Handles :
              /\ s.port[x].state \in {"CLOSED", "OPENING", "OPENED", "CLOSING"}
              /\ s.port[x].sm \in {"CLOSED", "SABME_WAIT_UA", "ORIG_WAIT_SEC_CHECK",
                                   "TERM_WAIT_SEC_CHECK", "OPENED", "DISC_WAIT_UA"}
              /\ s.port[x].dlci \in Dlcis \cup {0}
              /\ s.port[x].expected_rsp \subseteq {"PN", "MSC"}
         /\ s.ccb \in [Channels -> {"CLOSED", "W4_CONNECT_RSP", "CONFIG", "OPEN"}]
         /\ s.made \in 0 .. MaxChannels
         /\ s.fate \in {"up", "null_mcb"} /\ s.out = <<>>
         /\ \A i \in 1 .. Len(link[p]) : link[p][i].c \in Channels
    /\ budget \in [{"opens", "closes", "faults"} -> Nat]

(* The two tables that say which port is on which DLCI, port_handles of    *)
(* the multiplexer and p_mcb, dlci of the port, are kept by many handlers. *)
(* A frame is never given to a port that left, or that is on another DLCI, *)
(* and no port outside use holds a pointer to the multiplexer.             *)
HandlesAgree ==
    \A p \in Peers :
      LET s == stack[p] IN
      /\ \A x \in Handles : s.port[x].attached => s.port[x].in_use
      /\ \A d \in Dlcis :
           LET x == s.port_handles[d] IN
           x # NoHandle => s.port[x].attached /\ s.port[x].dlci = d

(* Whatever collisions, retries over the cached channel and restarts came  *)
(* before, a device takes itself for the initiator exactly when it opened  *)
(* the L2CAP channel that the multiplexer uses.  Otherwise both devices    *)
(* would drop each other's frames as bad frames (rfc_parse_data), or both  *)
(* would wait for the other's SABME.                                       *)
RoleMatchesChannel ==
    \A p \in Peers :
      LET m == stack[p].mx IN
      IsOpen(stack[p], m.lcid) => (m.is_initiator <=> m.lcid[1] = p)

NothingInFlight == \A p \in Peers : link[p] = <<>>

(* When nothing is in flight the two devices agree that the multiplexer is *)
(* connected, and on which channel: after a collision they do not settle   *)
(* on different ones, and a start that timed out on one side does not      *)
(* leave the other connected.                                              *)
BothConnected ==
    NothingInFlight =>
      \A p \in Peers :
        stack[p].mx.state = "CONNECTED" =>
          /\ stack[Other(p)].mx.state = "CONNECTED"
          /\ stack[Other(p)].mx.lcid = stack[p].mx.lcid

(* The two devices never disagree for good on who initiated the            *)
(* multiplexer and on which channel it is (rfc_mx_sm_state_wait_conn_cnf,  *)
(* rfc_mx_retry_with_cached_lcid), however often their requests collide.   *)
DevicesAgree == RoleMatchesChannel /\ BothConnected

(* When nothing is in flight, a multiplexer that waits for the other       *)
(* device has a timer running, its own or that of the L2CAP channel being  *)
(* opened.  After a collision both devices may wait for the other's SABME, *)
(* each on the other's channel: only the timer gets them out of it.        *)
MuxWatched ==
    NothingInFlight =>
      \A p \in Peers :
        LET s == stack[p] IN
        s.mx.state \notin {"IDLE", "CONNECTED"} =>
          \/ s.mx.timer # "NONE"
          \/ s.mx.lcid \in Channels /\ s.ccb[s.mx.lcid] \in {"W4_CONNECT_RSP", "CONFIG"}

(* What port_api.cc:105 says of the DLCI of a client: scn * 2 + 1 on a     *)
(* multiplexer that the other device initiated, otherwise scn * 2.  It     *)
(* does not hold of a client that opens while the multiplexer closes: the  *)
(* restart of rfc_mx_sm_state_disc_wait_ua makes the device the initiator  *)
(* and leaves the port on scn * 2 + 1.                                     *)
DlciMatchesRole ==
    \A p \in Peers :
      LET s == stack[p] IN
      s.port.cl.attached /\ s.port.cl.state = "OPENED" /\ s.mx.state = "CONNECTED" =>
        s.port.cl.dlci = IF s.mx.is_initiator THEN 2 ELSE 3
=============================================================================
