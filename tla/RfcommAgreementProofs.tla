----------------------- MODULE RfcommAgreementProofs ------------------------
(* The two devices of Rfcomm agree, for every choice of its constants: what  *)
(* they take every channel for, what is on its way between them, and what    *)
(* each handler makes of both.                                               *)
EXTENDS RfcommProofs

-----------------------------------------------------------------------------
(* The view that a device has of the channels *)

\* The multiplexer is to use channel c when that opens.
Live(s, c) ==
  \/ c = s.mx.collision_outgoing_lcid
  \/ c = s.mx.lcid /\ s.mx.state \in {"WAIT_CONN_CNF", "CONFIGURE"}

Status(s, c) ==
  IF s.ccb[c] = "CLOSED" THEN IF c[1] = s.self /\ c[2] > s.made THEN "NEW" ELSE "CLOSED"
  ELSE IF s.ccb[c] = "W4_CONNECT_RSP" THEN IF Live(s, c) THEN "W4_LIVE" ELSE "W4"
  ELSE IF s.ccb[c] = "CONFIG" THEN IF Live(s, c) THEN "CONFIG_LIVE" ELSE "CONFIG"
  ELSE IF Live(s, c) THEN "READY"
  ELSE IF c = s.mx.lcid /\ s.mx.state # "IDLE" THEN s.mx.state
  ELSE "SPARE"

View(s) == [c \in Channels |-> Status(s, c)]

\* A device runs a handler: what it is, the other device, how that sees the
\* channels, what is on its way to the device, and to the other one already.
IsEnv(e) ==
  /\ e.self \in Peers /\ e.other \in Peers /\ e.self # e.other
  /\ \A p \in Peers : p = e.self \/ p = e.other
  /\ e.in \in Seq(Frame) /\ e.sent \in Seq(Frame)

\* The frames of RFCOMM carry the role of their sender p.
Signed(L, p) ==
  \A i \in 1 .. Len(L) : L[i].k \notin Signals => (L[i].initiator <=> L[i].c[1] = p)

Sent(e, s) == e.sent \o s.out

\* The channels of both devices, in the midst of a handler.
Fine(e, s) ==
  /\ Own(e.self, View(s), e.view, Sent(e, s), e.in)
  /\ Own(e.other, e.view, View(s), e.in, Sent(e, s))
  /\ Signed(s.out, e.self)

\* The device takes itself for the initiator on a channel that it opened.
Role(s) == s.mx.lcid # NoChannel => (s.mx.is_initiator <=> s.mx.lcid[1] = s.self)

\* What is sent on the channel of the multiplexer is part of the dialogue.
Speaks(s) ==
  /\ Role(s)
  /\ IsOpen(s, s.mx.lcid) =>
       /\ s.mx.state \notin {"IDLE", "WAIT_CONN_CNF", "CONFIGURE"}
       /\ s.mx.lcid # s.mx.collision_outgoing_lcid

\* What no function of the ports changes, and what all but sending leaves.
Kept(s, t) ==
  /\ t.self = s.self /\ t.made = s.made /\ t.ccb = s.ccb /\ t.lcid_mcb = s.lcid_mcb
  /\ t.mx.lcid = s.mx.lcid /\ t.mx.is_initiator = s.mx.is_initiator
  /\ t.mx.restart_required = s.mx.restart_required
  /\ t.mx.collision_outgoing_lcid = s.mx.collision_outgoing_lcid
  /\ t.mx.collision_outgoing_conn_cnf = s.mx.collision_outgoing_conn_cnf
  /\ t.mx.collision_outgoing_cfg_complete = s.mx.collision_outgoing_cfg_complete
  /\ t.mx.state = s.mx.state \/ (s.mx.state = "CONNECTED" /\ t.mx.state = "DISC_WAIT_UA")
\* The multiplexer is to start again and has no channel left.
Stray(s) ==
  /\ s.mx.state = "DISC_WAIT_UA" /\ s.mx.lcid = NoChannel
  /\ s.mx.restart_required /\ s.made = MaxChannels

\* The other device asked for a connection to a port.
Busy(s) == \E x \in Handles : s.port[x].attached /\ s.port[x].sm = "TERM_WAIT_SEC_CHECK"

\* A device that waits for SABME has a timer running and no port on the DLCI
\* of the other direction; one that is stray has a timer running.
Watch(s) ==
  /\ s.mx.state = "WAIT_SABME" => s.mx.timer # "NONE" /\ s.port_handles[2] = NoHandle
  /\ s.mx.state = "CONNECTED" => s.mx.lcid # NoChannel
  /\ Stray(s) => s.mx.timer # "NONE" /\ ~Busy(s)

\* The timer of the multiplexer may stop.
Free(s) == s.mx.state # "WAIT_SABME" /\ ~Stray(s)

\* No port has asked for the end of the multiplexer.
Settled(s) == ~s.mx.is_disc_initiator

Untouched(s, t) ==
  /\ Kept(s, t) /\ t.mx.state = s.mx.state /\ t.out = s.out
  /\ (Watch(s) => Watch(t)) /\ (Settled(s) => Settled(t))

\* A function of the ports: it sends what belongs to the dialogue, and closes
\* a multiplexer at most,
Mild(e, s, t) ==
  Kept(s, t) /\ (Fine(e, s) /\ Speaks(s) => Fine(e, t)) /\ (Watch(s) => Watch(t))

\* and has seen to the multiplexer when the last port left.
Calm(e, s, t) == Mild(e, s, t) /\ (Settled(s) => Settled(t))

\* A view follows from the channels and the multiplexer.
LEMMA SameView ==
  ASSUME NEW s, NEW t, t.self = s.self, t.made = s.made, t.ccb = s.ccb,
         t.mx.lcid = s.mx.lcid, t.mx.state = s.mx.state,
         t.mx.collision_outgoing_lcid = s.mx.collision_outgoing_lcid
  PROVE  View(t) = View(s)
BY DEF View, Status, Live

\* Leaving the multiplexer alone is calm.
LEMMA UntouchedCalm ==
  ASSUME NEW e, NEW s, NEW t, Untouched(s, t)
  PROVE  Calm(e, s, t)
<1>1. View(t) = View(s)
  BY SameView DEF Untouched, Kept
<1> QED
  BY <1>1 DEF Calm, Mild, Untouched, Fine, Sent

\* Where the ports are all that changes.
LEMMA PortsUntouched ==
  ASSUME NEW s, NEW t, t.self = s.self, t.made = s.made, t.ccb = s.ccb,
         t.lcid_mcb = s.lcid_mcb, t.mx = s.mx, t.out = s.out,
         \/ Free(s)
         \/ /\ s.port_handles[2] = NoHandle => t.port_handles[2] = NoHandle
            /\ Busy(t) => Busy(s)
  PROVE  Untouched(s, t)
BY DEF Untouched, Kept, Watch, Stray, Settled, Free

\* What is kept keeps what is sent part of the dialogue.
LEMMA KeptSpeaks ==
  ASSUME NEW s, NEW t, Kept(s, t), Speaks(s)
  PROVE  Speaks(t)
BY DEF Kept, Speaks, Role, IsOpen

\* Mild steps compose.
LEMMA MildTrans ==
  ASSUME NEW e, NEW s, NEW t, NEW r, Mild(e, s, t), Mild(e, t, r)
  PROVE  Mild(e, s, r)
<1>1. Kept(s, r)
  BY DEF Mild, Kept
<1> QED
  BY <1>1, KeptSpeaks DEF Mild

\* Calm steps compose.
LEMMA CalmTrans ==
  ASSUME NEW e, NEW s, NEW t, NEW r, Calm(e, s, t), Calm(e, t, r)
  PROVE  Calm(e, s, r)
BY MildTrans DEF Calm

\* Nothing is done.
LEMMA CalmSelf == ASSUME NEW e, NEW s PROVE Calm(e, s, s)
BY DEF Calm, Mild, Kept

\* A frame sent by a handler is behind all that was sent before.
LEMMA ConcatAppend ==
  ASSUME NEW S, NEW a \in Seq(S), NEW b \in Seq(S), NEW x \in S
  PROVE  a \o b \in Seq(S) /\ a \o Append(b, x) = Append(a \o b, x)
OBVIOUS

\* Sending is adding to what is on its way.
LEMMA SentAdded ==
  ASSUME NEW e, IsEnv(e), NEW s, NEW t, s.out \in Seq(Frame), NEW f \in Frame,
         t.out = Append(s.out, f)
  PROVE  Sent(e, s) \in Seq(Frame) /\ Added(Sent(e, s), f, Sent(e, t))
<1>1. e.sent \in Seq(Frame)
  BY DEF IsEnv
<1>2. e.sent \o s.out \in Seq(Frame) /\ e.sent \o Append(s.out, f) = Append(e.sent \o s.out, f)
  <2> DEFINE a == e.sent
             b == s.out
  <2>1. a \in Seq(Frame) /\ b \in Seq(Frame)
    BY <1>1
  <2> HIDE DEF a, b
  <2>2. a \o b \in Seq(Frame)
    BY <2>1, ConcatAppend
  <2>3. a \o Append(b, f) = Append(a \o b, f)
    BY <2>1, ConcatAppend
  <2> QED
    BY <2>2, <2>3 DEF a, b
<1> QED
  BY <1>2, AppendAdds DEF Sent

\* A signed frame more.
LEMMA SignedAdded ==
  ASSUME NEW L \in Seq(Frame), NEW f \in Frame, NEW p, Signed(L, p),
         f.k \in Signals \/ (f.initiator <=> f.c[1] = p)
  PROVE  Signed(Append(L, f), p)
<1> DEFINE M == Append(L, f)
<1>1. /\ Len(M) = Len(L) + 1 /\ Len(L) \in Nat
      /\ M[Len(L) + 1] = f
      /\ \A i \in 1 .. Len(L) : M[i] = L[i]
  OBVIOUS
<1>2. \A i \in 1 .. Len(M) : i \in 1 .. Len(L) \/ i = Len(L) + 1
  BY <1>1
<1> HIDE DEF M
<1>3. Signed(M, p)
  BY <1>1, <1>2 DEF Signed
<1> QED
  BY <1>3 DEF M

-----------------------------------------------------------------------------
(* The steps of a device on its channels and on those of the other one *)

\* The first frame on its way to the device is gone.
Rest(e, r) ==
  /\ r.self = e.self /\ r.other = e.other /\ r.view = e.view /\ r.sent = e.sent
  /\ e.in # <<>> /\ r.in = Tail(e.in)

\* A frame of RFCOMM that does not open or close the multiplexer.
LEMMA SaysFine ==
  ASSUME NEW e, IsEnv(e), NEW s, NEW t, Fine(e, s), s.out \in Seq(Frame), NEW k \in Channels,
         View(t) = View(s), NEW f \in Frame, t.out = Append(s.out, f),
         f.initiator <=> k[1] = e.self,
         View(s)[k] \in {"SABME_WAIT_UA", "WAIT_SABME"} \cup Engaged, IsData(f, k),
         ~Is(f, "SABME", k), ~Is(f, "DISC", k), ~Is(f, "UA", k)
  PROVE  Fine(e, t)
<1>1. /\ Added(Sent(e, s), f, Sent(e, t)) /\ f.c = k
      /\ Signed(t.out, e.self)
  BY SentAdded, SignedAdded DEF Fine, Is, IsData, Signals
<1>3. /\ Beside(Sent(e, s), Sent(e, t), k) /\ Beside(e.in, e.in, k)
      /\ SameBut(View(s), View(t), k) /\ SameBut(e.view, e.view, k)
      /\ k[1] = e.self \/ k[1] = e.other
  BY <1>1, BesideAdded, BesideTaken, BesideSelf DEF SameBut, IsEnv, Channels
<1>4. /\ Own(e.self, View(s), e.view, Sent(e, s), e.in)
      /\ Own(e.other, e.view, View(s), e.in, Sent(e, s))
      /\ At(k, View(s), e.view, Sent(e, s), e.in) \/ At(k, e.view, View(s), e.in, Sent(e, s))
      /\ e.self # e.other
  BY <1>3 DEF Fine, Own, IsEnv
<1>5. CASE k[1] = e.self
  <2>1. At(k, View(s), e.view, Sent(e, s), e.in)
    BY <1>5, <1>4 DEF Own
  <2>2. Own(e.self, View(t), e.view, Sent(e, t), e.in)
    BY <1>5, <1>1, <1>3, <1>4, <2>1, OwnerSays
       DEF At, Handshake, Asking, Configuring, Engaged, OpenAtOwner, OpenAtOther, IsData
  <2>3. Own(e.other, e.view, View(t), e.in, Sent(e, t))
    BY <1>5, <1>1, <1>3, <1>4, StepElsewhere
  <2> QED
    BY <1>1, <2>2, <2>3 DEF Fine
<1>6. CASE k[1] = e.other
  <2>1. At(k, e.view, View(s), e.in, Sent(e, s))
    BY <1>6, <1>4 DEF Own
  <2>2. Own(e.other, e.view, View(t), e.in, Sent(e, t))
    BY <1>6, <1>1, <1>3, <1>4, <2>1, OtherSays
       DEF At, Handshake, Asking, Configuring, Engaged, OpenAtOwner, OpenAtOther, IsData
  <2>3. Own(e.self, View(t), e.view, Sent(e, t), e.in)
    BY <1>6, <1>1, <1>3, <1>4, StepElsewhere
  <2> QED
    BY <1>1, <2>2, <2>3 DEF Fine
<1> QED
  BY <1>3, <1>5, <1>6

\* UA, for a DISC.
LEMMA AnswersDiscFine ==
  ASSUME NEW e, IsEnv(e), NEW s, NEW t, Fine(e, s), s.out \in Seq(Frame), NEW k \in Channels,
         View(t) = View(s), NEW f \in Frame, t.out = Append(s.out, f), Is(f, "UA", k),
         f.initiator <=> k[1] = e.self, View(s)[k] \in Engaged
  PROVE  Fine(e, t)
<1>1. /\ Added(Sent(e, s), f, Sent(e, t)) /\ f.c = k
      /\ Signed(t.out, e.self)
  BY SentAdded, SignedAdded DEF Fine, Is, IsData, Signals
<1>3. /\ Beside(Sent(e, s), Sent(e, t), k) /\ Beside(e.in, e.in, k)
      /\ SameBut(View(s), View(t), k) /\ SameBut(e.view, e.view, k)
      /\ k[1] = e.self \/ k[1] = e.other
  BY <1>1, BesideAdded, BesideTaken, BesideSelf DEF SameBut, IsEnv, Channels
<1>4. /\ Own(e.self, View(s), e.view, Sent(e, s), e.in)
      /\ Own(e.other, e.view, View(s), e.in, Sent(e, s))
      /\ At(k, View(s), e.view, Sent(e, s), e.in) \/ At(k, e.view, View(s), e.in, Sent(e, s))
      /\ e.self # e.other
  BY <1>3 DEF Fine, Own, IsEnv
<1>5. CASE k[1] = e.self
  <2>1. At(k, View(s), e.view, Sent(e, s), e.in)
    BY <1>5, <1>4 DEF Own
  <2>2. Own(e.self, View(t), e.view, Sent(e, t), e.in)
    BY <1>5, <1>1, <1>3, <1>4, <2>1, OwnerSays
       DEF At, Handshake, Asking, Configuring, Engaged, OpenAtOwner, OpenAtOther, Is, IsData, Signals
  <2>3. Own(e.other, e.view, View(t), e.in, Sent(e, t))
    BY <1>5, <1>1, <1>3, <1>4, StepElsewhere
  <2> QED
    BY <1>1, <2>2, <2>3 DEF Fine
<1>6. CASE k[1] = e.other
  <2>1. At(k, e.view, View(s), e.in, Sent(e, s))
    BY <1>6, <1>4 DEF Own
  <2>2. Own(e.other, e.view, View(t), e.in, Sent(e, t))
    BY <1>6, <1>1, <1>3, <1>4, <2>1, OtherAnswersDisc
       DEF At, Handshake, Asking, Configuring, Engaged, OpenAtOwner, OpenAtOther, Is, IsData, Signals
  <2>3. Own(e.self, View(t), e.view, Sent(e, t), e.in)
    BY <1>6, <1>1, <1>3, <1>4, StepElsewhere
  <2> QED
    BY <1>1, <2>2, <2>3 DEF Fine
<1> QED
  BY <1>3, <1>5, <1>6

\* DISC.
LEMMA ClosesFine ==
  ASSUME NEW e, IsEnv(e), NEW s, NEW t, Fine(e, s), s.out \in Seq(Frame), NEW k \in Channels,
         SameBut(View(s), View(t), k), NEW f \in Frame, t.out = Append(s.out, f),
         Is(f, "DISC", k), f.initiator <=> k[1] = e.self, View(s)[k] = "CONNECTED",
         View(t)[k] = "DISC_WAIT_UA"
  PROVE  Fine(e, t)
<1>1. /\ Added(Sent(e, s), f, Sent(e, t)) /\ f.c = k
      /\ Signed(t.out, e.self)
  BY SentAdded, SignedAdded DEF Fine, Is, IsData, Signals
<1>3. /\ Beside(Sent(e, s), Sent(e, t), k) /\ Beside(e.in, e.in, k)
      /\ SameBut(View(s), View(t), k) /\ SameBut(e.view, e.view, k)
      /\ k[1] = e.self \/ k[1] = e.other
  BY <1>1, BesideAdded, BesideTaken, BesideSelf DEF SameBut, IsEnv, Channels
<1>4. /\ Own(e.self, View(s), e.view, Sent(e, s), e.in)
      /\ Own(e.other, e.view, View(s), e.in, Sent(e, s))
      /\ At(k, View(s), e.view, Sent(e, s), e.in) \/ At(k, e.view, View(s), e.in, Sent(e, s))
      /\ e.self # e.other
  BY <1>3 DEF Fine, Own, IsEnv
<1>5. CASE k[1] = e.self
  <2>1. At(k, View(s), e.view, Sent(e, s), e.in)
    BY <1>5, <1>4 DEF Own
  <2>2. Own(e.self, View(t), e.view, Sent(e, t), e.in)
    BY <1>5, <1>1, <1>3, <1>4, <2>1, OwnerCloses
       DEF At, Handshake, Asking, Configuring, Engaged, OpenAtOwner, OpenAtOther
  <2>3. Own(e.other, e.view, View(t), e.in, Sent(e, t))
    BY <1>5, <1>1, <1>3, <1>4, StepElsewhere
  <2> QED
    BY <1>1, <2>2, <2>3 DEF Fine
<1>6. CASE k[1] = e.other
  <2>1. At(k, e.view, View(s), e.in, Sent(e, s))
    BY <1>6, <1>4 DEF Own
  <2>2. Own(e.other, e.view, View(t), e.in, Sent(e, t))
    BY <1>6, <1>1, <1>3, <1>4, <2>1, OtherCloses
       DEF At, Handshake, Asking, Configuring, Engaged, OpenAtOwner, OpenAtOther
  <2>3. Own(e.self, View(t), e.view, Sent(e, t), e.in)
    BY <1>6, <1>1, <1>3, <1>4, StepElsewhere
  <2> QED
    BY <1>1, <2>2, <2>3 DEF Fine
<1> QED
  BY <1>3, <1>5, <1>6

\* The channel is taken down.
LEMMA DisconnectsFine ==
  ASSUME NEW e, IsEnv(e), NEW s, NEW t, Fine(e, s), s.out \in Seq(Frame), NEW k \in Channels,
         SameBut(View(s), View(t), k), NEW f \in Frame, t.out = Append(s.out, f),
         Is(f, "DISC_REQ", k), View(s)[k] \in Configuring \cup OpenAtOwner \cup OpenAtOther,
         View(t)[k] = "CLOSED"
  PROVE  Fine(e, t)
<1>1. /\ Added(Sent(e, s), f, Sent(e, t)) /\ f.c = k
      /\ Signed(t.out, e.self)
  BY SentAdded, SignedAdded DEF Fine, Is, IsData, Signals
<1>3. /\ Beside(Sent(e, s), Sent(e, t), k) /\ Beside(e.in, e.in, k)
      /\ SameBut(View(s), View(t), k) /\ SameBut(e.view, e.view, k)
      /\ k[1] = e.self \/ k[1] = e.other
  BY <1>1, BesideAdded, BesideTaken, BesideSelf DEF SameBut, IsEnv, Channels
<1>4. /\ Own(e.self, View(s), e.view, Sent(e, s), e.in)
      /\ Own(e.other, e.view, View(s), e.in, Sent(e, s))
      /\ At(k, View(s), e.view, Sent(e, s), e.in) \/ At(k, e.view, View(s), e.in, Sent(e, s))
      /\ e.self # e.other
  BY <1>3 DEF Fine, Own, IsEnv
<1>5. CASE k[1] = e.self
  <2>1. At(k, View(s), e.view, Sent(e, s), e.in)
    BY <1>5, <1>4 DEF Own
  <2>2. Own(e.self, View(t), e.view, Sent(e, t), e.in)
    BY <1>5, <1>1, <1>3, <1>4, <2>1, OwnerDisconnects
       DEF At, Handshake, Asking, Configuring, Engaged, OpenAtOwner, OpenAtOther
  <2>3. Own(e.other, e.view, View(t), e.in, Sent(e, t))
    BY <1>5, <1>1, <1>3, <1>4, StepElsewhere
  <2> QED
    BY <1>1, <2>2, <2>3 DEF Fine
<1>6. CASE k[1] = e.other
  <2>1. At(k, e.view, View(s), e.in, Sent(e, s))
    BY <1>6, <1>4 DEF Own
  <2>2. Own(e.other, e.view, View(t), e.in, Sent(e, t))
    BY <1>6, <1>1, <1>3, <1>4, <2>1, OtherDisconnects
       DEF At, Handshake, Asking, Configuring, Engaged, OpenAtOwner, OpenAtOther
  <2>3. Own(e.self, View(t), e.view, Sent(e, t), e.in)
    BY <1>6, <1>1, <1>3, <1>4, StepElsewhere
  <2> QED
    BY <1>1, <2>2, <2>3 DEF Fine
<1> QED
  BY <1>3, <1>5, <1>6

\* The channel is given up, or was taken down.
LEMMA LosesFine ==
  ASSUME NEW e, IsEnv(e), NEW s, NEW t, Fine(e, s), s.out \in Seq(Frame), NEW k \in Channels,
         SameBut(View(s), View(t), k), t.out = s.out,
         View(s)[k] \in Asking \/ (Has(e.in, "DISC_REQ", k) /\ View(s)[k] # "NEW"),
         View(t)[k] = "CLOSED"
  PROVE  Fine(e, t)
<1>1. Sent(e, t) = Sent(e, s) /\ Signed(t.out, e.self)
  BY DEF Sent, Fine
<1>3. /\ Beside(Sent(e, s), Sent(e, t), k) /\ Beside(e.in, e.in, k)
      /\ SameBut(View(s), View(t), k) /\ SameBut(e.view, e.view, k)
      /\ k[1] = e.self \/ k[1] = e.other
  BY <1>1, BesideAdded, BesideTaken, BesideSelf DEF SameBut, IsEnv, Channels
<1>4. /\ Own(e.self, View(s), e.view, Sent(e, s), e.in)
      /\ Own(e.other, e.view, View(s), e.in, Sent(e, s))
      /\ At(k, View(s), e.view, Sent(e, s), e.in) \/ At(k, e.view, View(s), e.in, Sent(e, s))
      /\ e.self # e.other
  BY <1>3 DEF Fine, Own, IsEnv
<1>5. CASE k[1] = e.self
  <2>1. At(k, View(s), e.view, Sent(e, s), e.in)
    BY <1>5, <1>4 DEF Own
  <2>2. Own(e.self, View(t), e.view, Sent(e, t), e.in)
    BY <1>5, <1>1, <1>3, <1>4, <2>1, OwnerAbandons
       DEF At, Handshake, Asking, Configuring, Engaged, OpenAtOwner, OpenAtOther
  <2>3. Own(e.other, e.view, View(t), e.in, Sent(e, t))
    BY <1>5, <1>1, <1>3, <1>4, StepElsewhere
  <2> QED
    BY <1>1, <2>2, <2>3 DEF Fine
<1>6. CASE k[1] = e.other
  <2>1. At(k, e.view, View(s), e.in, Sent(e, s))
    BY <1>6, <1>4 DEF Own
  <2>2. Own(e.other, e.view, View(t), e.in, Sent(e, t))
    BY <1>6, <1>1, <1>3, <1>4, <2>1, OtherLoses
       DEF At, Handshake, Asking, Configuring, Engaged, OpenAtOwner, OpenAtOther
  <2>3. Own(e.self, View(t), e.view, Sent(e, t), e.in)
    BY <1>6, <1>1, <1>3, <1>4, StepElsewhere
  <2> QED
    BY <1>1, <2>2, <2>3 DEF Fine
<1> QED
  BY <1>3, <1>5, <1>6

\* A new channel.
LEMMA OpensFine ==
  ASSUME NEW e, IsEnv(e), NEW s, NEW t, Fine(e, s), s.out \in Seq(Frame), NEW k \in Channels,
         k[1] = e.self, SameBut(View(s), View(t), k), NEW f \in Frame,
         t.out = Append(s.out, f), Is(f, "CONN_REQ", k), View(s)[k] = "NEW",
         View(t)[k] = "W4_LIVE",
         \A b \in Channels : b[1] = e.self /\ b # k =>
           View(s)[b] \notin Using \cup {"W4_LIVE"} /\ (b[2] < k[2] \/ View(s)[b] = "NEW")
  PROVE  Fine(e, t)
<1>1. /\ Added(Sent(e, s), f, Sent(e, t)) /\ f.c = k
      /\ Signed(t.out, e.self)
  BY SentAdded, SignedAdded DEF Fine, Is, IsData, Signals
<1>3. /\ Beside(Sent(e, s), Sent(e, t), k) /\ Beside(e.in, e.in, k)
      /\ SameBut(View(s), View(t), k) /\ SameBut(e.view, e.view, k)
      /\ k[1] = e.self \/ k[1] = e.other
  BY <1>1, BesideAdded, BesideTaken, BesideSelf DEF SameBut, IsEnv, Channels
<1>4. /\ Own(e.self, View(s), e.view, Sent(e, s), e.in)
      /\ Own(e.other, e.view, View(s), e.in, Sent(e, s))
      /\ At(k, View(s), e.view, Sent(e, s), e.in) \/ At(k, e.view, View(s), e.in, Sent(e, s))
      /\ e.self # e.other
  BY <1>3 DEF Fine, Own, IsEnv
<1>5. CASE k[1] = e.self
  <2>1. At(k, View(s), e.view, Sent(e, s), e.in)
    BY <1>5, <1>4 DEF Own
  <2>2. Own(e.self, View(t), e.view, Sent(e, t), e.in)
    BY <1>5, <1>1, <1>3, <1>4, <2>1, OwnerOpens
       DEF At, Handshake, Asking, Configuring, Engaged, OpenAtOwner, OpenAtOther
  <2>3. Own(e.other, e.view, View(t), e.in, Sent(e, t))
    BY <1>5, <1>1, <1>3, <1>4, StepElsewhere
  <2> QED
    BY <1>1, <2>2, <2>3 DEF Fine
<1> QED
  BY <1>3, <1>5

\* The channel was granted.
LEMMA ConfiguresFine ==
  ASSUME NEW e, IsEnv(e), NEW s, NEW t, Fine(e, s), s.out \in Seq(Frame), NEW k \in Channels,
         k[1] = e.self, SameBut(View(s), View(t), k), NEW f \in Frame,
         t.out = Append(s.out, f), Is(f, "CFG", k), NEW r, Rest(e, r), View(s)[k] \in Asking,
         View(s)[k] = "W4" => View(t)[k] = "CONFIG",
         View(s)[k] = "W4_LIVE" => View(t)[k] = "CONFIG_LIVE", Is(Head(e.in), "CONN_RSP", k)
  PROVE  Fine(r, t)
<1>1. /\ Added(Sent(e, s), f, Sent(e, t)) /\ f.c = k
      /\ Signed(t.out, e.self)
  BY SentAdded, SignedAdded DEF Fine, Is, IsData, Signals
<1>2. /\ Taken(e.in, Head(e.in), r.in)
      /\ r.self = e.self /\ r.other = e.other /\ r.view = e.view /\ Sent(r, t) = Sent(e, t)
  BY TailTakes DEF IsEnv, Rest, Sent
<1>3. /\ Beside(Sent(e, s), Sent(e, t), k) /\ Beside(e.in, r.in, k)
      /\ SameBut(View(s), View(t), k) /\ SameBut(e.view, e.view, k)
      /\ k[1] = e.self \/ k[1] = e.other
  BY <1>1, <1>2, BesideAdded, BesideTaken, BesideSelf DEF SameBut, IsEnv, Channels, Is
<1>4. /\ Own(e.self, View(s), e.view, Sent(e, s), e.in)
      /\ Own(e.other, e.view, View(s), e.in, Sent(e, s))
      /\ At(k, View(s), e.view, Sent(e, s), e.in) \/ At(k, e.view, View(s), e.in, Sent(e, s))
      /\ e.self # e.other
  BY <1>3 DEF Fine, Own, IsEnv
<1>5. CASE k[1] = e.self
  <2>1. At(k, View(s), e.view, Sent(e, s), e.in)
    BY <1>5, <1>4 DEF Own
  <2>2. Own(e.self, View(t), e.view, Sent(e, t), r.in)
    BY <1>5, <1>1, <1>3, <1>4, <1>2, <2>1, OwnerConfigures
       DEF At, Handshake, Asking, Configuring, Engaged, OpenAtOwner, OpenAtOther
  <2>3. Own(e.other, e.view, View(t), r.in, Sent(e, t))
    BY <1>5, <1>1, <1>3, <1>4, <1>2, StepElsewhere
  <2> QED
    BY <1>1, <1>2, <2>2, <2>3 DEF Fine
<1> QED
  BY <1>3, <1>5

\* The channel that the device opened is configured.
LEMMA ReadyFine ==
  ASSUME NEW e, IsEnv(e), NEW s, NEW t, Fine(e, s), s.out \in Seq(Frame), NEW k \in Channels,
         k[1] = e.self, SameBut(View(s), View(t), k), t.out = s.out,
         View(s)[k] \in Configuring, View(s)[k] = "CONFIG" => View(t)[k] = "SPARE",
         View(s)[k] = "CONFIG_LIVE" => View(t)[k] = "READY", Has(e.in, "CFG_RSP", k)
  PROVE  Fine(e, t)
<1>1. Sent(e, t) = Sent(e, s) /\ Signed(t.out, e.self)
  BY DEF Sent, Fine
<1>3. /\ Beside(Sent(e, s), Sent(e, t), k) /\ Beside(e.in, e.in, k)
      /\ SameBut(View(s), View(t), k) /\ SameBut(e.view, e.view, k)
      /\ k[1] = e.self \/ k[1] = e.other
  BY <1>1, BesideAdded, BesideTaken, BesideSelf DEF SameBut, IsEnv, Channels
<1>4. /\ Own(e.self, View(s), e.view, Sent(e, s), e.in)
      /\ Own(e.other, e.view, View(s), e.in, Sent(e, s))
      /\ At(k, View(s), e.view, Sent(e, s), e.in) \/ At(k, e.view, View(s), e.in, Sent(e, s))
      /\ e.self # e.other
  BY <1>3 DEF Fine, Own, IsEnv
<1>5. CASE k[1] = e.self
  <2>1. At(k, View(s), e.view, Sent(e, s), e.in)
    BY <1>5, <1>4 DEF Own
  <2>2. Own(e.self, View(t), e.view, Sent(e, t), e.in)
    BY <1>5, <1>1, <1>3, <1>4, <2>1, OwnerReady
       DEF At, Handshake, Asking, Configuring, Engaged, OpenAtOwner, OpenAtOther
  <2>3. Own(e.other, e.view, View(t), e.in, Sent(e, t))
    BY <1>5, <1>1, <1>3, <1>4, StepElsewhere
  <2> QED
    BY <1>1, <2>2, <2>3 DEF Fine
<1> QED
  BY <1>3, <1>5

\* SABME.
LEMMA GreetsFine ==
  ASSUME NEW e, IsEnv(e), NEW s, NEW t, Fine(e, s), s.out \in Seq(Frame), NEW k \in Channels,
         k[1] = e.self, SameBut(View(s), View(t), k), NEW f \in Frame,
         t.out = Append(s.out, f), Is(f, "SABME", k), f.initiator <=> k[1] = e.self,
         View(s)[k] = "READY", View(t)[k] = "SABME_WAIT_UA"
  PROVE  Fine(e, t)
<1>1. /\ Added(Sent(e, s), f, Sent(e, t)) /\ f.c = k
      /\ Signed(t.out, e.self)
  BY SentAdded, SignedAdded DEF Fine, Is, IsData, Signals
<1>3. /\ Beside(Sent(e, s), Sent(e, t), k) /\ Beside(e.in, e.in, k)
      /\ SameBut(View(s), View(t), k) /\ SameBut(e.view, e.view, k)
      /\ k[1] = e.self \/ k[1] = e.other
  BY <1>1, BesideAdded, BesideTaken, BesideSelf DEF SameBut, IsEnv, Channels
<1>4. /\ Own(e.self, View(s), e.view, Sent(e, s), e.in)
      /\ Own(e.other, e.view, View(s), e.in, Sent(e, s))
      /\ At(k, View(s), e.view, Sent(e, s), e.in) \/ At(k, e.view, View(s), e.in, Sent(e, s))
      /\ e.self # e.other
  BY <1>3 DEF Fine, Own, IsEnv
<1>5. CASE k[1] = e.self
  <2>1. At(k, View(s), e.view, Sent(e, s), e.in)
    BY <1>5, <1>4 DEF Own
  <2>2. Own(e.self, View(t), e.view, Sent(e, t), e.in)
    BY <1>5, <1>1, <1>3, <1>4, <2>1, OwnerGreets
       DEF At, Handshake, Asking, Configuring, Engaged, OpenAtOwner, OpenAtOther
  <2>3. Own(e.other, e.view, View(t), e.in, Sent(e, t))
    BY <1>5, <1>1, <1>3, <1>4, StepElsewhere
  <2> QED
    BY <1>1, <2>2, <2>3 DEF Fine
<1> QED
  BY <1>3, <1>5

\* UA has come.
LEMMA ConnectedFine ==
  ASSUME NEW e, IsEnv(e), NEW s, NEW t, Fine(e, s), s.out \in Seq(Frame), NEW k \in Channels,
         k[1] = e.self, SameBut(View(s), View(t), k), t.out = s.out,
         View(s)[k] = "SABME_WAIT_UA", View(t)[k] = "CONNECTED", Has(e.in, "UA", k)
  PROVE  Fine(e, t)
<1>1. Sent(e, t) = Sent(e, s) /\ Signed(t.out, e.self)
  BY DEF Sent, Fine
<1>3. /\ Beside(Sent(e, s), Sent(e, t), k) /\ Beside(e.in, e.in, k)
      /\ SameBut(View(s), View(t), k) /\ SameBut(e.view, e.view, k)
      /\ k[1] = e.self \/ k[1] = e.other
  BY <1>1, BesideAdded, BesideTaken, BesideSelf DEF SameBut, IsEnv, Channels
<1>4. /\ Own(e.self, View(s), e.view, Sent(e, s), e.in)
      /\ Own(e.other, e.view, View(s), e.in, Sent(e, s))
      /\ At(k, View(s), e.view, Sent(e, s), e.in) \/ At(k, e.view, View(s), e.in, Sent(e, s))
      /\ e.self # e.other
  BY <1>3 DEF Fine, Own, IsEnv
<1>5. CASE k[1] = e.self
  <2>1. At(k, View(s), e.view, Sent(e, s), e.in)
    BY <1>5, <1>4 DEF Own
  <2>2. Own(e.self, View(t), e.view, Sent(e, t), e.in)
    BY <1>5, <1>1, <1>3, <1>4, <2>1, OwnerConnected
       DEF At, Handshake, Asking, Configuring, Engaged, OpenAtOwner, OpenAtOther
  <2>3. Own(e.other, e.view, View(t), e.in, Sent(e, t))
    BY <1>5, <1>1, <1>3, <1>4, StepElsewhere
  <2> QED
    BY <1>1, <2>2, <2>3 DEF Fine
<1> QED
  BY <1>3, <1>5

\* The channel kept aside is not used.
LEMMA ForgetsFine ==
  ASSUME NEW e, IsEnv(e), NEW s, NEW t, Fine(e, s), s.out \in Seq(Frame), NEW k \in Channels,
         k[1] = e.self, SameBut(View(s), View(t), k), t.out = s.out,
         View(s)[k] \in {"W4_LIVE", "CONFIG_LIVE", "READY"},
         View(s)[k] = "W4_LIVE" => View(t)[k] = "W4",
         View(s)[k] = "CONFIG_LIVE" => View(t)[k] = "CONFIG",
         View(s)[k] = "READY" => View(t)[k] = "SPARE"
  PROVE  Fine(e, t)
<1>1. Sent(e, t) = Sent(e, s) /\ Signed(t.out, e.self)
  BY DEF Sent, Fine
<1>3. /\ Beside(Sent(e, s), Sent(e, t), k) /\ Beside(e.in, e.in, k)
      /\ SameBut(View(s), View(t), k) /\ SameBut(e.view, e.view, k)
      /\ k[1] = e.self \/ k[1] = e.other
  BY <1>1, BesideAdded, BesideTaken, BesideSelf DEF SameBut, IsEnv, Channels
<1>4. /\ Own(e.self, View(s), e.view, Sent(e, s), e.in)
      /\ Own(e.other, e.view, View(s), e.in, Sent(e, s))
      /\ At(k, View(s), e.view, Sent(e, s), e.in) \/ At(k, e.view, View(s), e.in, Sent(e, s))
      /\ e.self # e.other
  BY <1>3 DEF Fine, Own, IsEnv
<1>5. CASE k[1] = e.self
  <2>1. At(k, View(s), e.view, Sent(e, s), e.in)
    BY <1>5, <1>4 DEF Own
  <2>2. Own(e.self, View(t), e.view, Sent(e, t), e.in)
    BY <1>5, <1>1, <1>3, <1>4, <2>1, OwnerForgets
       DEF At, Handshake, Asking, Configuring, Engaged, OpenAtOwner, OpenAtOther
  <2>3. Own(e.other, e.view, View(t), e.in, Sent(e, t))
    BY <1>5, <1>1, <1>3, <1>4, StepElsewhere
  <2> QED
    BY <1>1, <2>2, <2>3 DEF Fine
<1> QED
  BY <1>3, <1>5

\* The other device asks for a channel.
LEMMA AskedFine ==
  ASSUME NEW e, IsEnv(e), NEW s, NEW t, Fine(e, s), s.out \in Seq(Frame), NEW k \in Channels,
         k[1] = e.other, SameBut(View(s), View(t), k), NEW f \in Frame,
         t.out = Append(s.out, f), Is(f, "CONN_RSP", k), NEW r, Rest(e, r),
         Is(Head(e.in), "CONN_REQ", k), View(t)[k] = "CONFIG"
  PROVE  Fine(r, t)
<1>1. /\ Added(Sent(e, s), f, Sent(e, t)) /\ f.c = k
      /\ Signed(t.out, e.self)
  BY SentAdded, SignedAdded DEF Fine, Is, IsData, Signals
<1>2. /\ Taken(e.in, Head(e.in), r.in)
      /\ r.self = e.self /\ r.other = e.other /\ r.view = e.view /\ Sent(r, t) = Sent(e, t)
  BY TailTakes DEF IsEnv, Rest, Sent
<1>3. /\ Beside(Sent(e, s), Sent(e, t), k) /\ Beside(e.in, r.in, k)
      /\ SameBut(View(s), View(t), k) /\ SameBut(e.view, e.view, k)
      /\ k[1] = e.self \/ k[1] = e.other
  BY <1>1, <1>2, BesideAdded, BesideTaken, BesideSelf DEF SameBut, IsEnv, Channels, Is
<1>4. /\ Own(e.self, View(s), e.view, Sent(e, s), e.in)
      /\ Own(e.other, e.view, View(s), e.in, Sent(e, s))
      /\ At(k, View(s), e.view, Sent(e, s), e.in) \/ At(k, e.view, View(s), e.in, Sent(e, s))
      /\ e.self # e.other
  BY <1>3 DEF Fine, Own, IsEnv
<1>5. CASE k[1] = e.other
  <2>1. At(k, e.view, View(s), e.in, Sent(e, s))
    BY <1>5, <1>4 DEF Own
  <2>2. Own(e.other, e.view, View(t), r.in, Sent(e, t))
    BY <1>5, <1>1, <1>3, <1>4, <1>2, <2>1, OtherAsked
       DEF At, Handshake, Asking, Configuring, Engaged, OpenAtOwner, OpenAtOther
  <2>3. Own(e.self, View(t), e.view, Sent(e, t), r.in)
    BY <1>5, <1>1, <1>3, <1>4, <1>2, StepElsewhere
  <2> QED
    BY <1>1, <1>2, <2>2, <2>3 DEF Fine
<1> QED
  BY <1>3, <1>5

\* The channel is refused.
LEMMA RefusesFine ==
  ASSUME NEW e, IsEnv(e), NEW s, NEW t, Fine(e, s), s.out \in Seq(Frame), NEW k \in Channels,
         k[1] = e.other, View(t) = View(s), NEW f \in Frame, t.out = Append(s.out, f),
         Is(f, "CONN_RSP_NEG", k), NEW r, Rest(e, r), Is(Head(e.in), "CONN_REQ", k)
  PROVE  Fine(r, t)
<1>1. /\ Added(Sent(e, s), f, Sent(e, t)) /\ f.c = k
      /\ Signed(t.out, e.self)
  BY SentAdded, SignedAdded DEF Fine, Is, IsData, Signals
<1>2. /\ Taken(e.in, Head(e.in), r.in)
      /\ r.self = e.self /\ r.other = e.other /\ r.view = e.view /\ Sent(r, t) = Sent(e, t)
  BY TailTakes DEF IsEnv, Rest, Sent
<1>3. /\ Beside(Sent(e, s), Sent(e, t), k) /\ Beside(e.in, r.in, k)
      /\ SameBut(View(s), View(t), k) /\ SameBut(e.view, e.view, k)
      /\ k[1] = e.self \/ k[1] = e.other
  BY <1>1, <1>2, BesideAdded, BesideTaken, BesideSelf DEF SameBut, IsEnv, Channels, Is
<1>4. /\ Own(e.self, View(s), e.view, Sent(e, s), e.in)
      /\ Own(e.other, e.view, View(s), e.in, Sent(e, s))
      /\ At(k, View(s), e.view, Sent(e, s), e.in) \/ At(k, e.view, View(s), e.in, Sent(e, s))
      /\ e.self # e.other
  BY <1>3 DEF Fine, Own, IsEnv
<1>5. CASE k[1] = e.other
  <2>1. At(k, e.view, View(s), e.in, Sent(e, s))
    BY <1>5, <1>4 DEF Own
  <2>2. Own(e.other, e.view, View(t), r.in, Sent(e, t))
    BY <1>5, <1>1, <1>3, <1>4, <1>2, <2>1, OtherRefuses
       DEF At, Handshake, Asking, Configuring, Engaged, OpenAtOwner, OpenAtOther
  <2>3. Own(e.self, View(t), e.view, Sent(e, t), r.in)
    BY <1>5, <1>1, <1>3, <1>4, <1>2, StepElsewhere
  <2> QED
    BY <1>1, <1>2, <2>2, <2>3 DEF Fine
<1> QED
  BY <1>3, <1>5

\* The channel that the other device opened is configured.
LEMMA AcceptsFine ==
  ASSUME NEW e, IsEnv(e), NEW s, NEW t, Fine(e, s), s.out \in Seq(Frame), NEW k \in Channels,
         k[1] = e.other, SameBut(View(s), View(t), k), NEW f \in Frame,
         t.out = Append(s.out, f), Is(f, "CFG_RSP", k), NEW r, Rest(e, r),
         Is(Head(e.in), "CFG", k), View(s)[k] = "CONFIG", View(t)[k] = "WAIT_SABME"
  PROVE  Fine(r, t)
<1>1. /\ Added(Sent(e, s), f, Sent(e, t)) /\ f.c = k
      /\ Signed(t.out, e.self)
  BY SentAdded, SignedAdded DEF Fine, Is, IsData, Signals
<1>2. /\ Taken(e.in, Head(e.in), r.in)
      /\ r.self = e.self /\ r.other = e.other /\ r.view = e.view /\ Sent(r, t) = Sent(e, t)
  BY TailTakes DEF IsEnv, Rest, Sent
<1>3. /\ Beside(Sent(e, s), Sent(e, t), k) /\ Beside(e.in, r.in, k)
      /\ SameBut(View(s), View(t), k) /\ SameBut(e.view, e.view, k)
      /\ k[1] = e.self \/ k[1] = e.other
  BY <1>1, <1>2, BesideAdded, BesideTaken, BesideSelf DEF SameBut, IsEnv, Channels, Is
<1>4. /\ Own(e.self, View(s), e.view, Sent(e, s), e.in)
      /\ Own(e.other, e.view, View(s), e.in, Sent(e, s))
      /\ At(k, View(s), e.view, Sent(e, s), e.in) \/ At(k, e.view, View(s), e.in, Sent(e, s))
      /\ e.self # e.other
  BY <1>3 DEF Fine, Own, IsEnv
<1>5. CASE k[1] = e.other
  <2>1. At(k, e.view, View(s), e.in, Sent(e, s))
    BY <1>5, <1>4 DEF Own
  <2>2. Own(e.other, e.view, View(t), r.in, Sent(e, t))
    BY <1>5, <1>1, <1>3, <1>4, <1>2, <2>1, OtherAccepts
       DEF At, Handshake, Asking, Configuring, Engaged, OpenAtOwner, OpenAtOther
  <2>3. Own(e.self, View(t), e.view, Sent(e, t), r.in)
    BY <1>5, <1>1, <1>3, <1>4, <1>2, StepElsewhere
  <2> QED
    BY <1>1, <1>2, <2>2, <2>3 DEF Fine
<1> QED
  BY <1>3, <1>5

\* SABME has come.
LEMMA GreetedFine ==
  ASSUME NEW e, IsEnv(e), NEW s, NEW t, Fine(e, s), s.out \in Seq(Frame), NEW k \in Channels,
         k[1] = e.other, SameBut(View(s), View(t), k), NEW f \in Frame,
         t.out = Append(s.out, f), Is(f, "UA", k), f.initiator <=> k[1] = e.self, NEW r,
         Rest(e, r), Is(Head(e.in), "SABME", k), View(s)[k] = "WAIT_SABME",
         View(t)[k] = "CONNECTED"
  PROVE  Fine(r, t)
<1>1. /\ Added(Sent(e, s), f, Sent(e, t)) /\ f.c = k
      /\ Signed(t.out, e.self)
  BY SentAdded, SignedAdded DEF Fine, Is, IsData, Signals
<1>2. /\ Taken(e.in, Head(e.in), r.in)
      /\ r.self = e.self /\ r.other = e.other /\ r.view = e.view /\ Sent(r, t) = Sent(e, t)
  BY TailTakes DEF IsEnv, Rest, Sent
<1>3. /\ Beside(Sent(e, s), Sent(e, t), k) /\ Beside(e.in, r.in, k)
      /\ SameBut(View(s), View(t), k) /\ SameBut(e.view, e.view, k)
      /\ k[1] = e.self \/ k[1] = e.other
  BY <1>1, <1>2, BesideAdded, BesideTaken, BesideSelf DEF SameBut, IsEnv, Channels, Is
<1>4. /\ Own(e.self, View(s), e.view, Sent(e, s), e.in)
      /\ Own(e.other, e.view, View(s), e.in, Sent(e, s))
      /\ At(k, View(s), e.view, Sent(e, s), e.in) \/ At(k, e.view, View(s), e.in, Sent(e, s))
      /\ e.self # e.other
  BY <1>3 DEF Fine, Own, IsEnv
<1>5. CASE k[1] = e.other
  <2>1. At(k, e.view, View(s), e.in, Sent(e, s))
    BY <1>5, <1>4 DEF Own
  <2>2. Own(e.other, e.view, View(t), r.in, Sent(e, t))
    BY <1>5, <1>1, <1>3, <1>4, <1>2, <2>1, OtherGreeted
       DEF At, Handshake, Asking, Configuring, Engaged, OpenAtOwner, OpenAtOther
  <2>3. Own(e.self, View(t), e.view, Sent(e, t), r.in)
    BY <1>5, <1>1, <1>3, <1>4, <1>2, StepElsewhere
  <2> QED
    BY <1>1, <1>2, <2>2, <2>3 DEF Fine
<1> QED
  BY <1>3, <1>5

\* DISC has come and was answered.
LEMMA ReleasesFine ==
  ASSUME NEW e, IsEnv(e), NEW s, NEW t, Fine(e, s), s.out \in Seq(Frame), NEW k \in Channels,
         k[1] = e.other, SameBut(View(s), View(t), k), t.out = s.out, Has(e.in, "DISC", k),
         Has(Sent(e, s), "UA", k), View(s)[k] \in Engaged, View(t)[k] = "SPARE"
  PROVE  Fine(e, t)
<1>1. Sent(e, t) = Sent(e, s) /\ Signed(t.out, e.self)
  BY DEF Sent, Fine
<1>3. /\ Beside(Sent(e, s), Sent(e, t), k) /\ Beside(e.in, e.in, k)
      /\ SameBut(View(s), View(t), k) /\ SameBut(e.view, e.view, k)
      /\ k[1] = e.self \/ k[1] = e.other
  BY <1>1, BesideAdded, BesideTaken, BesideSelf DEF SameBut, IsEnv, Channels
<1>4. /\ Own(e.self, View(s), e.view, Sent(e, s), e.in)
      /\ Own(e.other, e.view, View(s), e.in, Sent(e, s))
      /\ At(k, View(s), e.view, Sent(e, s), e.in) \/ At(k, e.view, View(s), e.in, Sent(e, s))
      /\ e.self # e.other
  BY <1>3 DEF Fine, Own, IsEnv
<1>5. CASE k[1] = e.other
  <2>1. At(k, e.view, View(s), e.in, Sent(e, s))
    BY <1>5, <1>4 DEF Own
  <2>2. Own(e.other, e.view, View(t), e.in, Sent(e, t))
    BY <1>5, <1>1, <1>3, <1>4, <2>1, OtherReleases
       DEF At, Handshake, Asking, Configuring, Engaged, OpenAtOwner, OpenAtOther
  <2>3. Own(e.self, View(t), e.view, Sent(e, t), e.in)
    BY <1>5, <1>1, <1>3, <1>4, StepElsewhere
  <2> QED
    BY <1>1, <2>2, <2>3 DEF Fine
<1> QED
  BY <1>3, <1>5

\* The other device is about to open another channel.
LEMMA LeavesFine ==
  ASSUME NEW e, IsEnv(e), NEW s, NEW t, Fine(e, s), s.out \in Seq(Frame), NEW k \in Channels,
         k[1] = e.other, SameBut(View(s), View(t), k), t.out = s.out, NEW b \in Channels,
         b[1] = e.other, b # k, Has(e.in, "CFG", b), View(s)[k] = "WAIT_SABME",
         View(t)[k] = "SPARE"
  PROVE  Fine(e, t)
<1>1. Sent(e, t) = Sent(e, s) /\ Signed(t.out, e.self)
  BY DEF Sent, Fine
<1>3. /\ Beside(Sent(e, s), Sent(e, t), k) /\ Beside(e.in, e.in, k)
      /\ SameBut(View(s), View(t), k) /\ SameBut(e.view, e.view, k)
      /\ k[1] = e.self \/ k[1] = e.other
  BY <1>1, BesideAdded, BesideTaken, BesideSelf DEF SameBut, IsEnv, Channels
<1>4. /\ Own(e.self, View(s), e.view, Sent(e, s), e.in)
      /\ Own(e.other, e.view, View(s), e.in, Sent(e, s))
      /\ At(k, View(s), e.view, Sent(e, s), e.in) \/ At(k, e.view, View(s), e.in, Sent(e, s))
      /\ e.self # e.other
  BY <1>3 DEF Fine, Own, IsEnv
<1>5. CASE k[1] = e.other
  <2>1. At(k, e.view, View(s), e.in, Sent(e, s))
    BY <1>5, <1>4 DEF Own
  <2>2. Own(e.other, e.view, View(t), e.in, Sent(e, t))
    BY <1>5, <1>1, <1>3, <1>4, <2>1, OtherLeaves
       DEF At, Handshake, Asking, Configuring, Engaged, OpenAtOwner, OpenAtOther
  <2>3. Own(e.self, View(t), e.view, Sent(e, t), e.in)
    BY <1>5, <1>1, <1>3, <1>4, StepElsewhere
  <2> QED
    BY <1>1, <2>2, <2>3 DEF Fine
<1> QED
  BY <1>3, <1>5

\* A frame that was dealt with.
LEMMA DoneFine ==
  ASSUME NEW e, IsEnv(e), NEW s, NEW t, Fine(e, s), s.out \in Seq(Frame), NEW k \in Channels,
         View(t) = View(s), t.out = s.out, NEW r, Rest(e, r), Head(e.in).c = k,
         ~Is(Head(e.in), "CONN_REQ", k),
         Is(Head(e.in), "DISC_REQ", k) => View(s)[k] = "CLOSED",
         Is(Head(e.in), "CONN_RSP", k) \/ Is(Head(e.in), "CONN_RSP_NEG", k) => View(s)[k] \notin Asking,
         Is(Head(e.in), "SABME", k) => View(s)[k] # "WAIT_SABME",
         Is(Head(e.in), "UA", k) => View(s)[k] \notin {"SABME_WAIT_UA", "DISC_WAIT_UA"},
         Is(Head(e.in), "DM", k) => View(s)[k] # "DISC_WAIT_UA",
         Is(Head(e.in), "DISC", k) =>
           View(s)[k] # "CONNECTED" /\ (View(s)[k] = "DISC_WAIT_UA" => Has(Sent(e, s), "UA", k))
  PROVE  Fine(r, t)
<1>1. Sent(e, t) = Sent(e, s) /\ Signed(t.out, e.self)
  BY DEF Sent, Fine
<1>2. /\ Taken(e.in, Head(e.in), r.in)
      /\ r.self = e.self /\ r.other = e.other /\ r.view = e.view /\ Sent(r, t) = Sent(e, t)
  BY TailTakes DEF IsEnv, Rest, Sent
<1>3. /\ Beside(Sent(e, s), Sent(e, t), k) /\ Beside(e.in, r.in, k)
      /\ SameBut(View(s), View(t), k) /\ SameBut(e.view, e.view, k)
      /\ k[1] = e.self \/ k[1] = e.other
  BY <1>1, <1>2, BesideAdded, BesideTaken, BesideSelf DEF SameBut, IsEnv, Channels, Is
<1>4. /\ Own(e.self, View(s), e.view, Sent(e, s), e.in)
      /\ Own(e.other, e.view, View(s), e.in, Sent(e, s))
      /\ At(k, View(s), e.view, Sent(e, s), e.in) \/ At(k, e.view, View(s), e.in, Sent(e, s))
      /\ e.self # e.other
  BY <1>3 DEF Fine, Own, IsEnv
<1>5. CASE k[1] = e.self
  <2>1. At(k, View(s), e.view, Sent(e, s), e.in)
    BY <1>5, <1>4 DEF Own
  <2>2. Own(e.self, View(t), e.view, Sent(e, t), r.in)
    BY <1>5, <1>1, <1>3, <1>4, <1>2, <2>1, OwnerDone
       DEF At, Handshake, Asking, Configuring, Engaged, OpenAtOwner, OpenAtOther
  <2>3. Own(e.other, e.view, View(t), r.in, Sent(e, t))
    BY <1>5, <1>1, <1>3, <1>4, <1>2, StepElsewhere
  <2> QED
    BY <1>1, <1>2, <2>2, <2>3 DEF Fine
<1>6. CASE k[1] = e.other
  <2>1. At(k, e.view, View(s), e.in, Sent(e, s))
    BY <1>6, <1>4 DEF Own
  <2>2. Own(e.other, e.view, View(t), r.in, Sent(e, t))
    BY <1>6, <1>1, <1>3, <1>4, <1>2, <2>1, OtherDone
       DEF At, Handshake, Asking, Configuring, Engaged, OpenAtOwner, OpenAtOther
  <2>3. Own(e.self, View(t), e.view, Sent(e, t), r.in)
    BY <1>6, <1>1, <1>3, <1>4, <1>2, StepElsewhere
  <2> QED
    BY <1>1, <1>2, <2>2, <2>3 DEF Fine
<1> QED
  BY <1>3, <1>5, <1>6

-----------------------------------------------------------------------------
(* The functions of the ports are calm *)

\* The members that a view rests on.
LEMMA OwnMembers ==
  ASSUME NEW e, IsEnv(e), NEW s, IsDevice(e.self, s)
  PROVE  /\ s.out \in Seq(Frame) /\ s.self = e.self
         /\ s.mx.is_initiator \in BOOLEAN /\ s.mx.state \in MxStates
         /\ s.ccb \in [Channels -> CcbStates]
         /\ s.mx.lcid \in AnyChannel /\ s.mx.collision_outgoing_lcid \in AnyChannel
         /\ NoChannel \notin Channels
<1>1. NoChannel \notin Channels
  BY DEF Channels, NoChannel
<1> QED
  BY <1>1, Members, MxMembers

\* The open channel of the multiplexer is seen as the state of that.
LEMMA LcidStatus ==
  ASSUME NEW s, IsOpen(s, s.mx.lcid), Speaks(s)
  PROVE  /\ s.mx.lcid \in Channels /\ View(s)[s.mx.lcid] = s.mx.state
         /\ s.mx.is_initiator <=> s.mx.lcid[1] = s.self
BY DEF IsOpen, Speaks, Role, View, Status, Live, Channels, NoChannel

\* A frame about a port.
LEMMA SendCalm ==
  ASSUME NEW e, IsEnv(e), NEW s, IsDevice(e.self, s),
         NEW k \in PortCommands \cup PortFrames, NEW d \in Dlcis
  PROVE  Calm(e, s, rfc_send(s, k, d))
<1> DEFINE f == [k |-> k, c |-> s.mx.lcid, d |-> d, initiator |-> s.mx.is_initiator]
           t == [s EXCEPT !.out = Append(s.out, f)]
<1>1. CASE ~IsOpen(s, s.mx.lcid)
  BY <1>1, CalmSelf DEF rfc_send
<1>2. CASE IsOpen(s, s.mx.lcid)
  <2>1. rfc_send(s, k, d) = t
    BY <1>2 DEF rfc_send
  <2>2. f \in Frame
    BY <1>2, MxMembers DEF Frame, AnyFrame, IsOpen, Signals, PortCommands, PortFrames
  <2>3. /\ t.out = Append(s.out, f) /\ Kept(s, t) /\ t.mx.state = s.mx.state
        /\ t.mx = s.mx /\ t.port_handles = s.port_handles /\ t.port = s.port
    BY DEF Kept, IsDevice, Device
  <2>4. f.initiator = s.mx.is_initiator /\ IsData(f, s.mx.lcid) /\ \A j : ~Is(f, j, s.mx.lcid)
    BY DEF IsData, Is, PortCommands, PortFrames, Signals, Dlcis
  <2>5. View(t) = View(s)
    BY <2>3, SameView DEF Kept
  <2> HIDE DEF t, f
  <2>6. ASSUME Fine(e, s), Speaks(s) PROVE Fine(e, t)
    <3>1. /\ s.mx.lcid \in Channels /\ View(s)[s.mx.lcid] = s.mx.state
          /\ s.mx.is_initiator <=> s.mx.lcid[1] = s.self
      BY <1>2, <2>6, LcidStatus
    <3>2. s.mx.state \in {"SABME_WAIT_UA", "WAIT_SABME"} \cup Engaged
      BY <1>2, <2>6, OwnMembers DEF Speaks, MxStates, Engaged
    <3> QED
      BY <2>2, <2>3, <2>4, <2>5, <2>6, <3>1, <3>2, OwnMembers, SaysFine
  <2> QED
    BY <2>1, <2>3, <2>6 DEF Calm, Mild, Kept, Watch, Stray, Busy, Settled
<1> QED
  BY <1>1, <1>2

\* The multiplexer is asked to close.
LEMMA CloseReqCalm ==
  ASSUME NEW e, IsEnv(e), NEW s, IsDevice(e.self, s)
  PROVE  Calm(e, s, rfc_mx_close_req(s))
<1> DEFINE t == [s EXCEPT !.mx.timer = "DISC", !.mx.state = "DISC_WAIT_UA"]
           f == [k |-> "DISC", c |-> s.mx.lcid, d |-> 0, initiator |-> s.mx.is_initiator]
           r == [t EXCEPT !.out = Append(t.out, f)]
<1>1. CASE s.mx.state # "CONNECTED"
  BY <1>1, CalmSelf DEF rfc_mx_close_req
<1>2. CASE s.mx.state = "CONNECTED"
  <2>1. /\ t.self = s.self /\ t.made = s.made /\ t.ccb = s.ccb /\ t.out = s.out
        /\ t.mx.lcid = s.mx.lcid /\ t.mx.state = "DISC_WAIT_UA" /\ Kept(s, t)
        /\ t.mx.collision_outgoing_lcid = s.mx.collision_outgoing_lcid
        /\ t.mx.is_initiator = s.mx.is_initiator /\ (Settled(s) => Settled(t))
    BY <1>2 DEF Settled, IsDevice, Device, Mx, Kept
  <2>2. /\ r.self = s.self /\ r.made = s.made /\ r.ccb = s.ccb /\ r.out = Append(s.out, f)
        /\ r.mx = t.mx /\ r.lcid_mcb = t.lcid_mcb
    BY DEF IsDevice, Device
  <2>a. rfc_mx_close_req(s) = rfc_send(t, "DISC", 0)
    BY <1>2 DEF rfc_mx_close_req
  <2>b. f = [k |-> "DISC", c |-> t.mx.lcid, d |-> 0, initiator |-> t.mx.is_initiator]
    BY <2>1
  <2>c. IsOpen(t, t.mx.lcid) <=> IsOpen(s, s.mx.lcid)
    BY <2>1 DEF IsOpen
  <2>3. rfc_mx_close_req(s) = IF IsOpen(s, s.mx.lcid) THEN r ELSE t
    <3> HIDE DEF t
    <3> QED
      BY <2>a, <2>b, <2>c DEF rfc_send
  <2>4. /\ f.initiator = s.mx.is_initiator /\ Is(f, "DISC", s.mx.lcid)
        /\ s.mx.lcid \in Channels => f \in Frame
    BY MxMembers DEF Is, Frame, AnyFrame, Signals, PortFrames, PortCommands
  <2> HIDE DEF t, r, f
  <2>5. CASE ~IsOpen(s, s.mx.lcid)
    <3>1. View(t) = View(s)
      BY <1>2, <2>1, <2>5, OwnMembers DEF View, Status, Live, IsOpen, CcbStates
    <3> QED
      BY <1>2, <2>1, <2>3, <2>5, <3>1 DEF Calm, Mild, Watch, Stray, Fine, Sent
  <2>6. CASE IsOpen(s, s.mx.lcid)
    <3>1. Kept(s, r)
      BY <2>1, <2>2 DEF Kept
    <3>2. ASSUME Fine(e, s), Speaks(s) PROVE Fine(e, r)
      <4>1. /\ s.mx.lcid \in Channels /\ View(s)[s.mx.lcid] = s.mx.state
            /\ s.mx.is_initiator <=> s.mx.lcid[1] = s.self
        BY <2>6, <3>2, LcidStatus
      <4>2. View(r)[s.mx.lcid] = "DISC_WAIT_UA"
        BY <2>1, <2>2, <2>6, <3>2, <4>1 DEF View, Status, Live, IsOpen, Speaks
      <4>3. SameBut(View(s), View(r), s.mx.lcid)
        BY <1>2, <2>1, <2>2 DEF SameBut, View, Status, Live
      <4> QED
        BY <1>2, <2>2, <2>4, <3>2, <4>1, <4>2, <4>3, OwnMembers, ClosesFine
    <3> QED
      BY <1>2, <2>1, <2>2, <2>3, <2>6, <3>1, <3>2 DEF Calm, Mild, Watch, Stray, Settled
  <2> QED
    BY <2>5, <2>6
<1> QED
  BY <1>1, <1>2

\* The multiplexer without ports is closed, now or later.
LEMMA CheckMcbActiveCalm ==
  ASSUME NEW e, IsEnv(e), NEW s, IsDevice(e.self, s)
  PROVE  Calm(e, s, rfc_check_mcb_active(s))
<1> DEFINE t == [s EXCEPT !.mx.is_disc_initiator = FALSE]
           u == [t EXCEPT !.mx.timer = "RELEASE"]
<1>1. IsDevice(e.self, t)
  BY SetIsDiscInitiator
<1>2. Untouched(s, t) /\ Untouched(s, u)
  BY DEF IsDevice, Device, Mx, Untouched, Kept, Watch, Stray, Busy, Settled, Port
<1>3. rfc_check_mcb_active(s) \in {t, u, rfc_mx_close_req(t)}
  BY DEF rfc_check_mcb_active
<1> HIDE DEF t, u
<1>4. Calm(e, s, t) /\ Calm(e, s, u) /\ Calm(e, t, rfc_mx_close_req(t))
  BY <1>1, <1>2, UntouchedCalm, CloseReqCalm
<1> QED
  BY <1>3, <1>4, CalmTrans

\* A port leaves its multiplexer.
LEMMA LeaveMcbCalm ==
  ASSUME NEW e, IsEnv(e), NEW s, IsDevice(e.self, s), NEW x \in Handles
  PROVE  Calm(e, s, LeaveMcb(s, x))
<1> DEFINE t == [s EXCEPT !.port_handles[s.port[x].dlci] = NoHandle]
<1>1. IsDevice(e.self, t)
  BY ForgetHandle
<1>2. Untouched(s, t)
  BY DEF IsDevice, Device, Untouched, Kept, Watch, Stray, Busy, Settled, Port
<1>3. LeaveMcb(s, x) \in {s, rfc_check_mcb_active(t)}
  BY DEF LeaveMcb
<1> HIDE DEF t
<1>4. Calm(e, s, t) /\ Calm(e, t, rfc_check_mcb_active(t))
  BY <1>1, <1>2, UntouchedCalm, CheckMcbActiveCalm
<1> QED
  BY <1>3, <1>4, CalmTrans, CalmSelf

\* A port is released,
LEMMA ReleasePortCalm ==
  ASSUME NEW e, IsEnv(e), NEW s, IsDevice(e.self, s), NEW x \in Handles
  PROVE  Calm(e, s, port_release_port(s, x))
<1> DEFINE t == [s EXCEPT !.port[x].timer = FALSE, !.port[x].state = "CLOSED"]
           kept == [ListeningPort EXCEPT !.expected_rsp = s.port[x].expected_rsp]
           r == IF s.port[x].keep THEN kept ELSE FreePort
           u == LeaveMcb(t, x)
           v == [u EXCEPT !.port[x] = r]
<1>1. IsDevice(e.self, t)
  BY SetPortTimer, SetPortState DEF PortStates
<1>2. Untouched(s, t)
  BY DEF IsDevice, Device, Untouched, Kept, Watch, Stray, Busy, Settled, Port
<1>3. port_release_port(s, x) = t \/ port_release_port(s, x) = v
  BY DEF port_release_port
<1>a. ~r.attached
  BY DEF ListeningPort, FreePort
<1> HIDE DEF t, r, kept
<1>4. IsDevice(e.self, u) /\ Calm(e, s, t) /\ Calm(e, t, u)
  BY <1>1, <1>2, UntouchedCalm, LeaveMcbCalm, LeaveMcbKeeps
<1> HIDE DEF u
<1>5. Untouched(u, v)
  <2>1. /\ v.self = u.self /\ v.made = u.made /\ v.ccb = u.ccb /\ v.lcid_mcb = u.lcid_mcb
        /\ v.mx = u.mx /\ v.out = u.out /\ v.port_handles = u.port_handles
    BY <1>4 DEF IsDevice, Device
  <2>2. Busy(v) => Busy(u)
    BY <1>4, <1>a DEF IsDevice, Device, Busy
  <2> HIDE DEF v
  <2> QED
    BY <2>1, <2>2, PortsUntouched
<1> HIDE DEF v
<1> QED
  BY <1>3, <1>4, <1>5, UntouchedCalm, CalmTrans

\* a port is closed,
LEMMA PortRfcClosedCalm ==
  ASSUME NEW e, IsEnv(e), NEW s, IsDevice(e.self, s), NEW x \in Handles
  PROVE  Calm(e, s, port_rfc_closed(s, x))
<1> DEFINE t == [s EXCEPT !.port[x].sm = "CLOSED"]
           t1 == [t EXCEPT !.port[x].timer = FALSE]
           u == LeaveMcb(t1, x)
           v == [u EXCEPT !.port[x].attached = FALSE, !.port[x].dlci = 2]
<1>1. IsDevice(e.self, t) /\ Untouched(s, t)
  <2>1. IsDevice(e.self, t)
    BY SetPortSm DEF SmStates
  <2>2. /\ t.self = s.self /\ t.made = s.made /\ t.ccb = s.ccb /\ t.lcid_mcb = s.lcid_mcb
        /\ t.mx = s.mx /\ t.out = s.out /\ t.port_handles = s.port_handles
    BY DEF IsDevice, Device
  <2>3. Busy(t) => Busy(s)
    BY DEF IsDevice, Device, Port, Busy
  <2> HIDE DEF t
  <2> QED
    BY <2>1, <2>2, <2>3, PortsUntouched
<1>2. port_rfc_closed(s, x) \in {v, port_release_port(t, x)}
  BY DEF port_rfc_closed
<1> HIDE DEF t
<1>3. IsDevice(e.self, t1) /\ Untouched(t, t1)
  <2>1. IsDevice(e.self, t1)
    BY <1>1, SetPortTimer
  <2>2. /\ t1.self = t.self /\ t1.made = t.made /\ t1.ccb = t.ccb /\ t1.lcid_mcb = t.lcid_mcb
        /\ t1.mx = t.mx /\ t1.out = t.out /\ t1.port_handles = t.port_handles
    BY <1>1 DEF IsDevice, Device
  <2>3. Busy(t1) => Busy(t)
    BY <1>1 DEF IsDevice, Device, Port, Busy
  <2> HIDE DEF t1
  <2> QED
    BY <2>1, <2>2, <2>3, PortsUntouched
<1> HIDE DEF t1
<1>4. IsDevice(e.self, u) /\ Calm(e, t1, u)
  BY <1>3, LeaveMcbCalm, LeaveMcbKeeps
<1> HIDE DEF u
<1>5. Untouched(u, v)
  BY <1>4 DEF IsDevice, Device, Untouched, Kept, Watch, Stray, Busy, Settled, Port
<1> HIDE DEF v
<1>6. /\ Calm(e, s, t) /\ Calm(e, t, t1) /\ Calm(e, u, v)
      /\ Calm(e, t, port_release_port(t, x))
  BY <1>1, <1>3, <1>5, UntouchedCalm, ReleasePortCalm
<1>7. Calm(e, s, u)
  BY <1>4, <1>6, CalmTrans
<1> QED
  BY <1>2, <1>6, <1>7, CalmTrans

\* and its connection.
LEMMA RfcPortClosedCalm ==
  ASSUME NEW e, IsEnv(e), NEW s, IsDevice(e.self, s), NEW x \in Handles
  PROVE  Calm(e, s, rfc_port_closed(s, x))
<1> DEFINE t == [s EXCEPT !.port[x].timer = FALSE, !.port[x].sm = "CLOSED"]
           u == LeaveMcb(t, x)
<1>1. IsDevice(e.self, t)
  BY SetPortTimer, SetPortSm DEF SmStates
<1>2. Untouched(s, t)
  BY DEF IsDevice, Device, Untouched, Kept, Watch, Stray, Busy, Settled, Port
<1>3. rfc_port_closed(s, x) = port_rfc_closed(u, x)
  BY DEF rfc_port_closed
<1> HIDE DEF t
<1>4. IsDevice(e.self, u) /\ Calm(e, s, t) /\ Calm(e, t, u)
  BY <1>1, <1>2, UntouchedCalm, LeaveMcbCalm, LeaveMcbKeeps
<1> HIDE DEF u
<1> QED
  BY <1>3, <1>4, PortRfcClosedCalm, CalmTrans

\* The other device released a connection.
LEMMA DlcReleaseIndCalm ==
  ASSUME NEW e, IsEnv(e), NEW s, IsDevice(e.self, s), NEW d \in Dlcis
  PROVE  Calm(e, s, PORT_DlcReleaseInd(s, d))
BY HandleMembers, PortRfcClosedCalm, CalmSelf DEF PORT_DlcReleaseInd

\* Every port is closed,
LEMMA TimeOutCloseMuxCalm ==
  ASSUME NEW e, IsEnv(e), NEW s, IsDevice(e.self, s)
  PROVE  Calm(e, s, PORT_TimeOutCloseMux(s))
<1> DEFINE t == IF s.port.sv.attached THEN port_rfc_closed(s, "sv") ELSE s
<1>1. "sv" \in Handles /\ "cl" \in Handles
  BY DEF Handles
<1>2. IsDevice(e.self, t) /\ Calm(e, s, t)
  BY <1>1, PortRfcClosedKeeps, PortRfcClosedCalm, CalmSelf
<1>3. PORT_TimeOutCloseMux(s) = t \/ PORT_TimeOutCloseMux(s) = port_rfc_closed(t, "cl")
  BY DEF PORT_TimeOutCloseMux, ForAttached
<1> HIDE DEF t
<1> QED
  BY <1>1, <1>2, <1>3, PortRfcClosedCalm, CalmTrans

\* or released,
LEMMA ReleasePortsCalm ==
  ASSUME NEW e, IsEnv(e), NEW s, IsDevice(e.self, s)
  PROVE  /\ IsDevice(e.self, ForAttached(s, port_release_port))
         /\ Calm(e, s, ForAttached(s, port_release_port))
<1> DEFINE t == IF s.port.sv.attached THEN port_release_port(s, "sv") ELSE s
<1>1. "sv" \in Handles /\ "cl" \in Handles
  BY DEF Handles
<1>2. IsDevice(e.self, t) /\ Calm(e, s, t)
  BY <1>1, ReleasePortKeeps, ReleasePortCalm, CalmSelf
<1>3. \/ ForAttached(s, port_release_port) = t
      \/ ForAttached(s, port_release_port) = port_release_port(t, "cl")
  BY DEF ForAttached
<1> HIDE DEF t
<1> QED
  BY <1>1, <1>2, <1>3, ReleasePortCalm, ReleasePortKeeps, CalmTrans

\* The parameters of a connection are negotiated.
LEMMA ParameterNegotiationCalm ==
  ASSUME NEW e, IsEnv(e), NEW s, IsDevice(e.self, s), NEW d \in Dlcis
  PROVE  Calm(e, s, RFCOMM_ParameterNegotiationRequest(s, d))
<1> DEFINE x == s.port_handles[d]
           t == [s EXCEPT !.port[x].expected_rsp = s.port[x].expected_rsp \cup {"PN"},
                          !.port[x].timer = TRUE]
<1>1. ASSUME x # NoHandle PROVE Calm(e, s, rfc_send(t, "PN", d))
  <2>1. x \in Handles
    BY <1>1, HandleMembers
  <2> HIDE DEF x
  <2>2. IsDevice(e.self, t)
    BY <2>1, SetOneResponse, SetPortTimer
  <2>3. Untouched(s, t)
    BY DEF IsDevice, Device, Untouched, Kept, Watch, Stray, Busy, Settled, Port
  <2> HIDE DEF t
  <2>4. Calm(e, s, t) /\ Calm(e, t, rfc_send(t, "PN", d))
    BY <2>2, <2>3, UntouchedCalm, SendCalm DEF PortCommands
  <2> QED
    BY <2>4, CalmTrans
<1>2. \/ RFCOMM_ParameterNegotiationRequest(s, d) = s
      \/ x # NoHandle /\ RFCOMM_ParameterNegotiationRequest(s, d) = rfc_send(t, "PN", d)
  BY DEF RFCOMM_ParameterNegotiationRequest
<1> QED
  BY <1>1, <1>2, CalmSelf

\* The multiplexer is up.
LEMMA StartCnfCalm ==
  ASSUME NEW e, IsEnv(e), NEW s, IsDevice(e.self, s)
  PROVE  Calm(e, s, PORT_StartCnf(s, TRUE))
<1>1. "sv" \in Handles /\ "cl" \in Handles
  BY DEF Handles
<1> DEFINE t == IF s.port["sv"].attached THEN NegotiatePort(s, "sv") ELSE s
           u == IF t.port["cl"].attached THEN NegotiatePort(t, "cl") ELSE t
<1>2. IsDevice(e.self, t) /\ Calm(e, s, t)
  BY <1>1, PortMembers, ParameterNegotiationKeeps, ParameterNegotiationCalm, CalmSelf
  DEF NegotiatePort
<1> HIDE DEF t
<1>3. Calm(e, t, u)
  BY <1>1, <1>2, PortMembers, ParameterNegotiationCalm, CalmSelf DEF NegotiatePort
<1>4. ForAttached(s, NegotiatePort) = u
  BY DEF ForAttached, t
<1> HIDE DEF u
<1>5. PORT_StartCnf(s, TRUE) \in {rfc_check_mcb_active(s), u}
  BY <1>4 DEF PORT_StartCnf
<1> QED
  BY <1>2, <1>3, <1>5, CheckMcbActiveCalm, CalmTrans

\* A port sends its modem status.
LEMMA ControlReqCalm ==
  ASSUME NEW e, IsEnv(e), NEW s, IsDevice(e.self, s), NEW d \in Dlcis
  PROVE  Calm(e, s, RFCOMM_ControlReq(s, d))
<1> DEFINE x == s.port_handles[d]
           s1 == [s EXCEPT !.port[x].req_sent = TRUE]
           s2 == [s1 EXCEPT !.port[x].timer = TRUE]
           t == [s2 EXCEPT !.port[x].expected_rsp = s.port[x].expected_rsp \cup {"MSC"}]
<1>1. ASSUME x # NoHandle PROVE Calm(e, s, rfc_send(t, "MSC", d))
  <2>1. x \in Handles
    BY <1>1, HandleMembers
  <2>2. s.port[x].expected_rsp \cup {"MSC"} \in Responses
    BY <2>1, PortMembers DEF Responses
  <2> HIDE DEF x
  <2>3. IsDevice(e.self, t)
    BY <2>1, <2>2, SetReqSent, SetPortTimer, SetExpectedRsp
  <2>4. Untouched(s, t)
    BY DEF IsDevice, Device, Untouched, Kept, Watch, Stray, Busy, Settled, Port
  <2> HIDE DEF t
  <2>5. Calm(e, s, t) /\ Calm(e, t, rfc_send(t, "MSC", d))
    BY <2>3, <2>4, UntouchedCalm, SendCalm DEF PortCommands
  <2> QED
    BY <2>5, CalmTrans
<1>2. \/ RFCOMM_ControlReq(s, d) = s
      \/ x # NoHandle /\ RFCOMM_ControlReq(s, d) = rfc_send(t, "MSC", d)
  BY DEF RFCOMM_ControlReq
<1> QED
  BY <1>1, <1>2, CalmSelf

\* A connection that the device asked for is up, or failed.
LEMMA DlcEstablishCnfCalm ==
  ASSUME NEW e, IsEnv(e), NEW s, IsDevice(e.self, s), NEW d \in Dlcis, NEW ok,
         ok => Free(s)
  PROVE  Calm(e, s, PORT_DlcEstablishCnf(s, d, ok))
<1> DEFINE x == s.port_handles[d]
           t == [s EXCEPT !.mx.timer = "NONE", !.port[x].state = "OPENED"]
<1>1. ASSUME x # NoHandle
      PROVE  /\ Calm(e, s, port_rfc_closed(s, x))
             /\ Free(s) => Calm(e, s, RFCOMM_ControlReq(t, d))
  <2>1. x \in Handles
    BY <1>1, HandleMembers
  <2> HIDE DEF x
  <2>2. IsDevice(e.self, t)
    BY <2>1, SetMxTimer, SetPortState DEF MxTimers, PortStates
  <2>3. Free(s) => Untouched(s, t)
    BY DEF IsDevice, Device, Mx, Untouched, Kept, Watch, Stray, Settled, Free
  <2> HIDE DEF t
  <2>4. Calm(e, t, RFCOMM_ControlReq(t, d))
    BY <2>2, ControlReqCalm
  <2> QED
    BY <2>1, <2>3, <2>4, PortRfcClosedCalm, UntouchedCalm, CalmTrans
<1>2. \/ PORT_DlcEstablishCnf(s, d, ok) = s
      \/ x # NoHandle /\ PORT_DlcEstablishCnf(s, d, ok) = port_rfc_closed(s, x)
      \/ ok /\ x # NoHandle /\ PORT_DlcEstablishCnf(s, d, ok) = RFCOMM_ControlReq(t, d)
  BY DEF PORT_DlcEstablishCnf
<1> QED
  BY <1>1, <1>2, CalmSelf

\* When the last port leaves, a device that waits for SABME goes on waiting for
\* as long as a timer runs.
LEMMA LastLeaves ==
  ASSUME NEW p, NEW s, IsDevice(p, s), NEW x \in Handles, s.port[x].attached, Settled(s),
         s.mx.state = "WAIT_SABME", s.port_handles[2] = NoHandle, s.port[x].dlci = 3
  PROVE  Watch(LeaveMcb(s, x)) /\ LeaveMcb(s, x).mx.state = "WAIT_SABME"
<1> DEFINE t == [s EXCEPT !.port_handles[3] = NoHandle]
           u == [t EXCEPT !.mx.is_disc_initiator = FALSE]
           v == [u EXCEPT !.mx.timer = "RELEASE"]
<1>1. /\ t.mx = s.mx /\ t.port_handles[2] = NoHandle /\ t.port_handles[3] = NoHandle
  BY DEF IsDevice, Device, Dlcis
<1>2. LeaveMcb(s, x) = rfc_check_mcb_active(t)
  BY DEF LeaveMcb
<1>3. v.mx.timer = "RELEASE" /\ v.port_handles = t.port_handles
  BY DEF IsDevice, Device, Mx
<1> HIDE DEF t
<1>4. rfc_check_mcb_active(t) = v
  BY <1>1 DEF rfc_check_mcb_active, Settled, Dlcis
<1>5. v.mx.state = "WAIT_SABME"
  <2> USE DEF t
  <2> QED
    BY DEF IsDevice, Device, Mx
<1> HIDE DEF v
<1> QED
  BY <1>1, <1>2, <1>3, <1>4, <1>5 DEF Watch, Stray

\* An assignment to a member of a port that does not say where the port is.
LEMMA PortStays ==
  ASSUME NEW p, NEW s, IsDevice(p, s), NEW x \in Handles, NEW v, NEW t,
         t = [s EXCEPT !.port[x].timer = v] \/ t = [s EXCEPT !.port[x].state = v]
  PROVE  /\ t.mx = s.mx /\ t.port_handles = s.port_handles
         /\ t.port[x].attached = s.port[x].attached /\ t.port[x].dlci = s.port[x].dlci
<1> DEFINE q == IF t = [s EXCEPT !.port[x].timer = v]
                THEN [s.port[x] EXCEPT !.timer = v] ELSE [s.port[x] EXCEPT !.state = v]
<1>1. t = [s EXCEPT !.port = [s.port EXCEPT ![x] = q]]
  BY DEF IsDevice, Device
<1>2. s.port[x] \in Port
  BY DEF IsDevice, Device
<1>3. q.attached = s.port[x].attached /\ q.dlci = s.port[x].dlci
  BY <1>2 DEF Port
<1> HIDE DEF q
<1>4. t.mx = s.mx /\ t.port_handles = s.port_handles /\ t.port[x] = q
  BY <1>1 DEF IsDevice, Device
<1> QED
  BY <1>3, <1>4

\* A port that closes leaves the timer of a multiplexer that needs it.
LEMMA ClosedWatches ==
  ASSUME NEW p, NEW s, IsDevice(p, s), NEW x \in Handles, s.port[x].attached, Settled(s),
         s.mx.state = "WAIT_SABME", s.port_handles[2] = NoHandle, s.port[x].dlci = 3
  PROVE  Watch(port_rfc_closed(s, x))
<1> DEFINE t == [s EXCEPT !.port[x].sm = "CLOSED"]
           t1 == [t EXCEPT !.port[x].timer = FALSE]
           u == LeaveMcb(t1, x)
           v == [u EXCEPT !.port[x].attached = FALSE, !.port[x].dlci = 2]
           t2 == [t1 EXCEPT !.port[x].state = "CLOSED"]
           kept == [ListeningPort EXCEPT !.expected_rsp = t.port[x].expected_rsp]
           r == IF t.port[x].keep THEN kept ELSE FreePort
           u2 == LeaveMcb(t2, x)
           w == [u2 EXCEPT !.port[x] = r]
<1>1. /\ IsDevice(p, t) /\ t.mx = s.mx /\ t.port_handles = s.port_handles
      /\ t.port[x].attached /\ t.port[x].dlci = 3 /\ t.port[x].sm = "CLOSED"
  <2>1. IsDevice(p, t)
    BY SetPortSm DEF SmStates
  <2> QED
    BY <2>1 DEF IsDevice, Device, Port
<1>2. port_rfc_closed(s, x) \in {v, port_release_port(t, x)}
  BY DEF port_rfc_closed
<1>3. port_release_port(t, x) = w
  <2> HIDE DEF t
  <2>1. t2 = [t EXCEPT !.port[x].timer = FALSE, !.port[x].state = "CLOSED"]
    BY <1>1 DEF IsDevice, Device
  <2> HIDE DEF t2
  <2> QED
    BY <1>1, <2>1 DEF port_release_port
<1> HIDE DEF t
<1>4. /\ IsDevice(p, t1) /\ t1.mx = s.mx /\ t1.port_handles = s.port_handles
      /\ t1.port[x].attached /\ t1.port[x].dlci = 3
  <2>1. IsDevice(p, t1)
    BY <1>1, SetPortTimer
  <2>2. t1 = [t EXCEPT !.port[x].timer = FALSE]
    OBVIOUS
  <2> HIDE DEF t1
  <2> QED
    BY <1>1, <2>1, <2>2, PortStays
<1> HIDE DEF t1, r, kept
<1>5. /\ IsDevice(p, t2) /\ t2.mx = s.mx /\ t2.port_handles = s.port_handles
      /\ t2.port[x].attached /\ t2.port[x].dlci = 3
  <2>1. IsDevice(p, t2)
    BY <1>4, SetPortState DEF PortStates
  <2>2. t2 = [t1 EXCEPT !.port[x].state = "CLOSED"]
    OBVIOUS
  <2> HIDE DEF t2
  <2> QED
    BY <1>4, <2>1, <2>2, PortStays
<1> HIDE DEF t2
<1>6. /\ Watch(u) /\ Watch(u2) /\ IsDevice(p, u) /\ IsDevice(p, u2)
      /\ u.mx.state = "WAIT_SABME" /\ u2.mx.state = "WAIT_SABME"
  <2>1. Settled(t1) /\ Settled(t2)
    BY <1>4, <1>5 DEF Settled
  <2> QED
    BY <2>1, <1>4, <1>5, LastLeaves, LeaveMcbKeeps
<1> HIDE DEF u, u2
<1>7. v.mx = u.mx /\ v.port_handles = u.port_handles
      /\ w.mx = u2.mx /\ w.port_handles = u2.port_handles
  BY <1>6 DEF IsDevice, Device
<1> HIDE DEF v, w
<1> QED
  BY <1>2, <1>3, <1>6, <1>7 DEF Watch, Stray

\* The server's side of a connection: the multiplexer may be closing by now.
LEMMA DlcEstablishIndCalm ==
  ASSUME NEW e, IsEnv(e), NEW s, IsDevice(e.self, s), NEW d \in Dlcis,
         s.mx.state = "WAIT_SABME" => Settled(s), Stray(s) => ~Watch(s)
  PROVE  Calm(e, s, PORT_DlcEstablishInd(s, d))
<1> DEFINE x == s.port_handles[d]
           s1 == [s EXCEPT !.mx.timer = "NONE"]
           open == [s1 EXCEPT !.port[x].sm = "OPENED"]
           s2 == IF s.mx.state # "CONNECTED" THEN PORT_DlcReleaseInd(s1, d)
                 ELSE IF s.port[x].sm = "TERM_WAIT_SEC_CHECK"
                 THEN rfc_send(open, "UA", d)
                 ELSE s1
           t == [s2 EXCEPT !.port[x].state = "OPENED"]
<1>1. ASSUME x # NoHandle PROVE Calm(e, s, t)
  <2>1. x \in Handles /\ s.port[x].attached /\ s.port[x].dlci = d
    BY <1>1, HandleMembers
  <2>2. s1.port_handles[d] = x
    BY DEF IsDevice, Device
  <2> HIDE DEF x
  <2>3. IsDevice(e.self, s1)
    BY SetMxTimer DEF MxTimers
  <2>4. /\ s.mx.state # "WAIT_SABME" => Untouched(s, s1)
        /\ Kept(s, s1) /\ s1.mx.state = s.mx.state /\ s1.out = s.out
        /\ (Settled(s) => Settled(s1)) /\ s1.port = s.port /\ s1.port_handles = s.port_handles
    BY DEF IsDevice, Device, Mx, Untouched, Kept, Watch, Stray, Settled
  <2> HIDE DEF s1
  <2>5. IsDevice(e.self, open) /\ Untouched(s1, open)
    <3>1. IsDevice(e.self, open)
      BY <2>1, <2>3, SetPortSm DEF SmStates
    <3>2. /\ open.self = s1.self /\ open.made = s1.made /\ open.ccb = s1.ccb
          /\ open.lcid_mcb = s1.lcid_mcb /\ open.mx = s1.mx /\ open.out = s1.out
          /\ open.port_handles = s1.port_handles
      BY <2>3 DEF IsDevice, Device
    <3>3. Busy(open) => Busy(s1)
      BY <2>1, <2>3 DEF IsDevice, Device, Port, Busy
    <3> HIDE DEF open
    <3> QED
      BY <3>1, <3>2, <3>3, PortsUntouched
  <2> HIDE DEF open
  <2>6. /\ IsDevice(e.self, rfc_send(open, "UA", d)) /\ Calm(e, open, rfc_send(open, "UA", d))
        /\ Calm(e, s1, open)
    BY <2>5, SendKeeps, SendCalm, UntouchedCalm DEF PortFrames, PortCommands
  <2>7. IsDevice(e.self, s2) /\ Calm(e, s1, s2)
    BY <2>3, <2>6, DlcReleaseIndKeeps, DlcReleaseIndCalm, CalmTrans, CalmSelf
  <2>8. s.mx.state = "WAIT_SABME" => s2 = port_rfc_closed(s1, x)
    BY <2>2, <1>1 DEF PORT_DlcReleaseInd
  <2> HIDE DEF s2
  <2>9. Untouched(s2, t)
    BY <2>7 DEF IsDevice, Device, Untouched, Kept, Watch, Stray, Busy, Settled, Port
  <2> HIDE DEF t
  <2>10. CASE s.mx.state # "WAIT_SABME"
    BY <2>4, <2>7, <2>9, <2>10, UntouchedCalm, CalmTrans
  <2>11. CASE s.mx.state = "WAIT_SABME"
    <3>1. Calm(e, s1, t)
      BY <2>7, <2>9, UntouchedCalm, CalmTrans
    <3>2. Kept(s, t)
      BY <2>4, <3>1 DEF Calm, Mild, Kept
    <3>3. ASSUME Fine(e, s), Speaks(s) PROVE Fine(e, t)
      <4>1. Fine(e, s1)
        BY <2>4, <3>3, SameView DEF Fine, Sent, Kept
      <4> QED
        BY <2>4, <3>1, <3>3, <4>1, KeptSpeaks DEF Calm, Mild
    <3>4. ASSUME Watch(s) PROVE Watch(t)
      <4>1. s.port_handles[2] = NoHandle
        BY <2>11, <3>4 DEF Watch
      <4>2. d = 3
        BY <1>1, <4>1 DEF Dlcis, x
      <4>3. Watch(s2)
        BY <2>1, <2>3, <2>4, <2>8, <2>11, <4>1, <4>2, ClosedWatches
      <4> QED
        BY <2>9, <4>3 DEF Untouched
    <3>5. Settled(s) => Settled(t)
      BY <2>4, <3>1, SMTT(30) DEF Calm
    <3> QED
      BY <3>2, <3>3, <3>4, <3>5 DEF Calm, Mild
  <2> QED
    BY <2>10, <2>11
<1>2. \/ PORT_DlcEstablishInd(s, d) = s
      \/ x # NoHandle /\ PORT_DlcEstablishInd(s, d) = t
  BY DEF PORT_DlcEstablishInd
<1> HIDE DEF t
<1> QED
  BY <1>1, <1>2, CalmSelf

-----------------------------------------------------------------------------
(* A port that asks for the end of the multiplexer *)

\* When a port leaves, the multiplexer is seen to.
LEMMA LeaveSettles ==
  ASSUME NEW p, NEW s, IsDevice(p, s), NEW x \in Handles, s.port[x].attached
  PROVE  Settled(LeaveMcb(s, x))
<1> DEFINE t == [s EXCEPT !.port_handles[s.port[x].dlci] = NoHandle]
           u == [t EXCEPT !.mx.is_disc_initiator = FALSE]
           v == [u EXCEPT !.mx.timer = "RELEASE"]
           c == [u EXCEPT !.mx.timer = "DISC", !.mx.state = "DISC_WAIT_UA"]
<1>1. IsDevice(p, t)
  BY ForgetHandle
<1>2. LeaveMcb(s, x) = rfc_check_mcb_active(t)
  BY DEF LeaveMcb
<1> HIDE DEF t
<1>3. IsDevice(p, u) /\ Settled(u)
  <2>1. IsDevice(p, u)
    BY <1>1, SetIsDiscInitiator
  <2> QED
    BY <1>1 DEF IsDevice, Device, Mx, Settled
<1>4. rfc_check_mcb_active(t) \in {u, v, rfc_mx_close_req(u)}
  BY DEF rfc_check_mcb_active
<1> HIDE DEF u
<1>5. Settled(v) /\ Settled(c)
  BY <1>3 DEF IsDevice, Device, Mx, Settled
<1>6. rfc_mx_close_req(u) \in {u, rfc_send(c, "DISC", 0)}
  BY DEF rfc_mx_close_req
<1> HIDE DEF c
<1>7. rfc_send(c, "DISC", 0).mx = c.mx
  <2>1. IsDevice(p, c)
    BY <1>3, SetMxTimer, SetState DEF MxTimers, MxStates, c
  <2> QED
    BY <2>1 DEF rfc_send, IsDevice, Device
<1> QED
  BY <1>2, <1>3, <1>4, <1>5, <1>6, <1>7 DEF Settled

\* A port that closes settles what it asked for.
LEMMA ClosedSettles ==
  ASSUME NEW p, NEW s, IsDevice(p, s), NEW x \in Handles, s.port[x].attached
  PROVE  Settled(port_rfc_closed(s, x))
<1> DEFINE t == [s EXCEPT !.port[x].sm = "CLOSED"]
           t1 == [t EXCEPT !.port[x].timer = FALSE]
           u == LeaveMcb(t1, x)
           v == [u EXCEPT !.port[x].attached = FALSE, !.port[x].dlci = 2]
           t2 == [t1 EXCEPT !.port[x].state = "CLOSED"]
           kept == [ListeningPort EXCEPT !.expected_rsp = t.port[x].expected_rsp]
           r == IF t.port[x].keep THEN kept ELSE FreePort
           u2 == LeaveMcb(t2, x)
           w == [u2 EXCEPT !.port[x] = r]
<1>1. IsDevice(p, t) /\ t.port[x].attached /\ t.port[x].sm = "CLOSED"
  <2>1. IsDevice(p, t)
    BY SetPortSm DEF SmStates
  <2> QED
    BY <2>1 DEF IsDevice, Device, Port
<1>2. port_rfc_closed(s, x) \in {v, port_release_port(t, x)}
  BY DEF port_rfc_closed
<1>3. port_release_port(t, x) = w
  <2> HIDE DEF t
  <2>1. t2 = [t EXCEPT !.port[x].timer = FALSE, !.port[x].state = "CLOSED"]
    BY <1>1 DEF IsDevice, Device
  <2> HIDE DEF t2
  <2> QED
    BY <1>1, <2>1 DEF port_release_port
<1> HIDE DEF t
<1>4. IsDevice(p, t1) /\ t1.port[x].attached
  <2>1. IsDevice(p, t1)
    BY <1>1, SetPortTimer
  <2>2. t1 = [t EXCEPT !.port[x].timer = FALSE]
    OBVIOUS
  <2> HIDE DEF t1
  <2> QED
    BY <1>1, <2>1, <2>2, PortStays
<1> HIDE DEF t1, r, kept
<1>5. IsDevice(p, t2) /\ t2.port[x].attached
  <2>1. IsDevice(p, t2)
    BY <1>4, SetPortState DEF PortStates
  <2>2. t2 = [t1 EXCEPT !.port[x].state = "CLOSED"]
    OBVIOUS
  <2> HIDE DEF t2
  <2> QED
    BY <1>4, <2>1, <2>2, PortStays
<1> HIDE DEF t2
<1>6. Settled(u) /\ Settled(u2) /\ IsDevice(p, u) /\ IsDevice(p, u2)
  BY <1>4, <1>5, LeaveSettles, LeaveMcbKeeps
<1> HIDE DEF u, u2
<1>7. v.mx = u.mx /\ w.mx = u2.mx
  BY <1>6 DEF IsDevice, Device
<1> HIDE DEF v, w
<1> QED
  BY <1>2, <1>3, <1>6, <1>7 DEF Settled

\* To ask for it is mild, and once it is seen to, calm.
LEMMA AskMild ==
  ASSUME NEW e, IsEnv(e), NEW s, IsDevice(e.self, s)
  PROVE  LET t == [s EXCEPT !.mx.is_disc_initiator = TRUE]
         IN  /\ IsDevice(e.self, t) /\ Mild(e, s, t)
             /\ t.port = s.port /\ t.port_handles = s.port_handles /\ t.mx.state = s.mx.state
<1> DEFINE t == [s EXCEPT !.mx.is_disc_initiator = TRUE]
<1>1. IsDevice(e.self, t)
  BY SetIsDiscInitiator
<1>2. /\ Kept(s, t) /\ t.out = s.out /\ t.port = s.port /\ t.port_handles = s.port_handles
      /\ t.mx.state = s.mx.state /\ t.mx.timer = s.mx.timer
  BY DEF IsDevice, Device, Mx, Kept
<1> HIDE DEF t
<1>3. View(t) = View(s)
  BY <1>2, SameView DEF Kept
<1>4. Mild(e, s, t)
  BY <1>2, <1>3 DEF Mild, Fine, Sent, Watch, Stray, Busy, Kept
<1> QED
  BY <1>1, <1>2, <1>4 DEF t

\* A mild step and a calm one that ends settled.
LEMMA SettledCalm ==
  ASSUME NEW e, NEW s, NEW t, NEW r, Mild(e, s, t), Calm(e, t, r), Settled(r)
  PROVE  Calm(e, s, r)
BY MildTrans DEF Calm

\* A port closes the multiplexer with itself.
LEMMA AskedClosedCalm ==
  ASSUME NEW e, IsEnv(e), NEW s, IsDevice(e.self, s), NEW x \in Handles, s.port[x].attached
  PROVE  /\ Calm(e, s, rfc_port_closed([s EXCEPT !.mx.is_disc_initiator = TRUE], x))
         /\ Calm(e, s, port_rfc_closed([s EXCEPT !.mx.is_disc_initiator = TRUE], x))
<1> DEFINE c == [s EXCEPT !.mx.is_disc_initiator = TRUE]
           t == [c EXCEPT !.port[x].timer = FALSE, !.port[x].sm = "CLOSED"]
           u == LeaveMcb(t, x)
<1>1. IsDevice(e.self, c) /\ Mild(e, s, c) /\ c.port = s.port
  BY AskMild
<1> HIDE DEF c
<1>2. IsDevice(e.self, t) /\ t.port[x].attached
  <2>1. IsDevice(e.self, t)
    BY <1>1, SetPortTimer, SetPortSm DEF SmStates
  <2> QED
    BY <1>1, <2>1 DEF IsDevice, Device, Port
<1>3. rfc_port_closed(c, x) = port_rfc_closed(u, x)
  BY DEF rfc_port_closed
<1> HIDE DEF t
<1>4. IsDevice(e.self, u) /\ Settled(u)
  BY <1>2, LeaveMcbKeeps, LeaveSettles
<1> HIDE DEF u
<1>5. Settled(rfc_port_closed(c, x))
  BY <1>3, <1>4, PortRfcClosedCalm DEF Calm
<1>6. Settled(port_rfc_closed(c, x))
  BY <1>1, ClosedSettles
<1>7. Calm(e, c, rfc_port_closed(c, x)) /\ Calm(e, c, port_rfc_closed(c, x))
  BY <1>1, RfcPortClosedCalm, PortRfcClosedCalm
<1>8. Calm(e, s, rfc_port_closed(c, x)) /\ Calm(e, s, port_rfc_closed(c, x))
  BY <1>1, <1>5, <1>6, <1>7, SettledCalm
<1> QED
  BY <1>8 DEF c

\* A connection could not be made.
LEMMA EstablishFailedCalm ==
  ASSUME NEW e, IsEnv(e), NEW s, IsDevice(e.self, s), NEW x \in Handles, s.port[x].attached
  PROVE  Calm(e, s, EstablishFailed(s, x))
<1> DEFINE d == s.port[x].dlci
           t == PORT_DlcEstablishCnf(s, d, FALSE)
<1>1. d \in Dlcis
  BY PortMembers
<1>2. EstablishFailed(s, x) = rfc_port_closed(t, x)
  BY DEF EstablishFailed
<1> HIDE DEF d
<1>3. IsDevice(e.self, t) /\ Calm(e, s, t)
  BY <1>1, DlcEstablishCnfKeeps, DlcEstablishCnfCalm
<1> HIDE DEF t
<1> QED
  BY <1>2, <1>3, RfcPortClosedCalm, CalmTrans

\* The connection of a port is refused.
LEMMA AskedFailedCalm ==
  ASSUME NEW e, IsEnv(e), NEW s, IsDevice(e.self, s), NEW x \in Handles, s.port[x].attached
  PROVE  Calm(e, s, EstablishFailed([s EXCEPT !.mx.is_disc_initiator = TRUE], x))
<1> DEFINE c == [s EXCEPT !.mx.is_disc_initiator = TRUE]
           d == c.port[x].dlci
           h == c.port_handles[d]
           t == PORT_DlcEstablishCnf(c, d, FALSE)
<1>1. /\ IsDevice(e.self, c) /\ Mild(e, s, c) /\ c.port = s.port
  BY AskMild
<1>2. EstablishFailed(c, x) = rfc_port_closed(t, x)
  BY DEF EstablishFailed
<1>3. t = c \/ (h # NoHandle /\ t = port_rfc_closed(c, h))
  BY DEF PORT_DlcEstablishCnf
<1>a. Calm(e, s, rfc_port_closed(c, x))
  BY AskedClosedCalm
<1> SUFFICES Calm(e, s, EstablishFailed(c, x))
  OBVIOUS
<1> HIDE DEF c
<1>4. CASE t = c
  BY <1>2, <1>4, <1>a
<1>5. CASE h # NoHandle /\ t = port_rfc_closed(c, h)
  <2>1. d \in Dlcis
    BY <1>1, PortMembers
  <2>2. h \in Handles /\ c.port[h].attached
    BY <1>1, <1>5, <2>1, HandleMembers
  <2> HIDE DEF h
  <2>3. IsDevice(e.self, t) /\ Settled(t) /\ Calm(e, c, t)
    BY <1>1, <1>5, <2>2, PortRfcClosedKeeps, ClosedSettles, PortRfcClosedCalm
  <2> HIDE DEF t
  <2>4. Calm(e, s, t)
    BY <1>1, <2>3, SettledCalm
  <2>5. Calm(e, t, rfc_port_closed(t, x))
    BY <2>3, RfcPortClosedCalm
  <2>6. Calm(e, s, rfc_port_closed(t, x))
    BY <2>4, <2>5, CalmTrans
  <2> QED
    BY <1>2, <2>6
<1> QED
  BY <1>3, <1>4, <1>5

-----------------------------------------------------------------------------
(* The state machine of a port is calm *)

\* A crash changes nothing of the multiplexer.
LEMMA CrashCalm ==
  ASSUME NEW e, IsEnv(e), NEW s, IsDevice(e.self, s)
  PROVE  Calm(e, s, Crash(s))
<1> DEFINE t == [s EXCEPT !.fate = "null_mcb"]
<1>1. Untouched(s, t)
  BY DEF IsDevice, Device, Untouched, Kept, Watch, Stray, Busy, Settled, Port
<1> HIDE DEF t
<1>2. Calm(e, s, t)
  BY <1>1, UntouchedCalm
<1> QED
  BY <1>2 DEF Crash, t

\* A port without a connection.
LEMMA ClosedCalm ==
  ASSUME NEW e, IsEnv(e), NEW s, IsDevice(e.self, s), NEW x \in Handles, NEW event,
         s.port[x].attached \/ event \in LateEvents,
         event = "SABME" => Free(s)
  PROVE  Calm(e, s, rfc_port_sm_state_closed(s, x, event))
<1> DEFINE t == [s EXCEPT !.port[x].sm = "ORIG_WAIT_SEC_CHECK"]
           u == [s EXCEPT !.mx.timer = "NONE", !.port[x].sm = "TERM_WAIT_SEC_CHECK"]
<1>1. Untouched(s, t)
  <2>1. /\ t.self = s.self /\ t.made = s.made /\ t.ccb = s.ccb /\ t.lcid_mcb = s.lcid_mcb
        /\ t.mx = s.mx /\ t.out = s.out /\ t.port_handles = s.port_handles
    BY DEF IsDevice, Device
  <2>2. Busy(t) => Busy(s)
    BY DEF IsDevice, Device, Port, Busy
  <2> HIDE DEF t
  <2> QED
    BY <2>1, <2>2, PortsUntouched
<1>6. Free(s) => Untouched(s, u)
  BY DEF IsDevice, Device, Mx, Untouched, Kept, Watch, Stray, Settled, Free
<1>2. rfc_port_sm_state_closed(s, x, event) =
        CASE event = "OPEN" -> t
          [] event = "SABME" -> u
          [] event = "DM" -> rfc_port_closed(s, x)
          [] event = "DISC" -> rfc_send(s, "DM", s.port[x].dlci)
          [] event = "TIMEOUT" -> PORT_TimeOutCloseMux(s)
          [] OTHER -> s
  BY DEF rfc_port_sm_state_closed
<1> HIDE DEF t, u
<1>3. s.port[x].attached => Calm(e, s, rfc_send(s, "DM", s.port[x].dlci))
  BY PortMembers, SendCalm DEF PortFrames, PortCommands
<1>4. Calm(e, s, t) /\ (Free(s) => Calm(e, s, u))
  BY <1>1, <1>6, UntouchedCalm
<1>5. Calm(e, s, rfc_port_closed(s, x)) /\ Calm(e, s, PORT_TimeOutCloseMux(s)) /\ Calm(e, s, s)
  BY RfcPortClosedCalm, TimeOutCloseMuxCalm, CalmSelf
<1> QED
  BY <1>2, <1>3, <1>4, <1>5 DEF LateEvents

\* A port asks to disconnect.
LEMMA SendDiscCalm ==
  ASSUME NEW e, IsEnv(e), NEW s, IsDevice(e.self, s), NEW x \in Handles, s.port[x].attached
  PROVE  Calm(e, s, SendDisc(s, x))
<1> DEFINE t == [s EXCEPT !.port[x].timer = TRUE, !.port[x].expected_rsp = {},
                          !.port[x].sm = "DISC_WAIT_UA"]
           d == s.port[x].dlci
<1>1. IsDevice(e.self, t)
  BY SetPortTimer, SetExpectedRsp, SetPortSm DEF SmStates, Responses
<1>2. Untouched(s, t)
  BY DEF IsDevice, Device, Untouched, Kept, Watch, Stray, Busy, Settled, Port
<1>3. SendDisc(s, x) = rfc_send(t, "DISC", d) /\ d \in Dlcis
  BY PortMembers DEF SendDisc
<1> HIDE DEF t, d
<1>4. Calm(e, s, t) /\ Calm(e, t, rfc_send(t, "DISC", d))
  BY <1>1, <1>2, <1>3, SendCalm, UntouchedCalm DEF PortFrames, PortCommands
<1> QED
  BY <1>3, <1>4, CalmTrans

\* The connection is asked for.
LEMMA SabmeWaitUaCalm ==
  ASSUME NEW e, IsEnv(e), NEW s, IsDevice(e.self, s), NEW x \in Handles, NEW event,
         s.port[x].attached \/ event \in LateEvents,
         event = "UA" => Free(s)
  PROVE  Calm(e, s, rfc_port_sm_sabme_wait_ua(s, x, event))
<1> DEFINE d == s.port[x].dlci
           up == [s EXCEPT !.port[x].timer = FALSE, !.port[x].sm = "OPENED"]
           closing == [s EXCEPT !.mx.is_disc_initiator = TRUE]
           closed == [s EXCEPT !.port[x].sm = "CLOSED"]
           said == rfc_send(s, "UA", d)
<1>1. s.port[x].attached => d \in Dlcis
  BY PortMembers
<1>2. d \in Dlcis => IsDevice(e.self, said) /\ SameTables(s, said) /\ Calm(e, s, said)
  BY SendKeeps, SendFrame, SendCalm DEF PortFrames, PortCommands
<1>3. s.port[x].attached => Calm(e, s, EstablishFailed(said, x))
  <2> HIDE DEF said
  <2> QED
    BY <1>1, <1>2, EstablishFailedCalm, CalmTrans DEF SameTables
<1>4. s.port[x].attached => Calm(e, s, EstablishFailed(closing, x))
  BY AskedFailedCalm
<1>5. d \in Dlcis /\ Free(s) => Calm(e, s, PORT_DlcEstablishCnf(up, d, TRUE))
  <2>1. IsDevice(e.self, up)
    BY SetPortTimer, SetPortSm DEF SmStates
  <2>2. Untouched(s, up)
    BY DEF IsDevice, Device, Untouched, Kept, Watch, Stray, Busy, Settled, Port
  <2> HIDE DEF up, d
  <2> QED
    BY <2>1, <2>2, DlcEstablishCnfCalm, UntouchedCalm, CalmTrans DEF Untouched, Kept, Free, Stray
<1>6. d \in Dlcis => Calm(e, s, PORT_DlcEstablishCnf(closed, d, FALSE))
  <2>1. IsDevice(e.self, closed)
    BY SetPortSm DEF SmStates
  <2>2. Untouched(s, closed)
    BY DEF IsDevice, Device, Untouched, Kept, Watch, Stray, Busy, Settled, Port
  <2> HIDE DEF closed, d
  <2> QED
    BY <2>1, <2>2, DlcEstablishCnfCalm, UntouchedCalm, CalmTrans
<1>7. rfc_port_sm_sabme_wait_ua(s, x, event) =
        CASE event = "CLOSE" -> SendDisc(s, x)
          [] event = "UA" -> PORT_DlcEstablishCnf(up, d, TRUE)
          [] event = "DM" -> EstablishFailed(closing, x)
          [] event = "DISC" -> EstablishFailed(said, x)
          [] event = "SABME" -> said
          [] event = "TIMEOUT" -> IF s.port[x].attached
                                  THEN PORT_DlcEstablishCnf(closed, d, FALSE) ELSE Crash(s)
          [] OTHER -> s
  BY DEF rfc_port_sm_sabme_wait_ua
<1>8. Calm(e, s, Crash(s)) /\ Calm(e, s, s) /\ (s.port[x].attached => Calm(e, s, SendDisc(s, x)))
  BY SendDiscCalm, CrashCalm, CalmSelf
<1> HIDE DEF up, closing, closed, d, said
<1> QED
  BY <1>1, <1>2, <1>3, <1>4, <1>5, <1>6, <1>7, <1>8 DEF LateEvents

\* The security check of a connection that the other device asked for.
LEMMA TermWaitSecCheckCalm ==
  ASSUME NEW e, IsEnv(e), NEW s, IsDevice(e.self, s), NEW x \in Handles, NEW event,
         s.port[x].attached \/ event \in LateEvents, Settled(s),
         s.port[x].sm = "TERM_WAIT_SEC_CHECK"
  PROVE  Calm(e, s, rfc_port_sm_term_wait_sec_check(s, x, event))
<1> DEFINE d == s.port[x].dlci
           said == rfc_send(s, "DM", d)
           refused == [said EXCEPT !.mx.is_disc_initiator = TRUE]
           t == [s EXCEPT !.port[x].sm = "CLOSED"]
           closed == rfc_send(t, "UA", d)
<1>1. s.port[x].attached => d \in Dlcis
  BY PortMembers
<1> HIDE DEF d
<1>2. s.port[x].attached => Calm(e, s, port_rfc_closed(refused, x))
  <2> SUFFICES ASSUME s.port[x].attached PROVE Calm(e, s, port_rfc_closed(refused, x))
    OBVIOUS
  <2>1. IsDevice(e.self, said) /\ SameTables(s, said) /\ Calm(e, s, said)
    BY <1>1, SendKeeps, SendFrame, SendCalm DEF PortFrames, PortCommands
  <2> HIDE DEF said
  <2>2. Calm(e, said, port_rfc_closed(refused, x))
    BY <2>1, AskedClosedCalm DEF SameTables
  <2> HIDE DEF refused
  <2> QED
    BY <2>1, <2>2, CalmTrans
<1>3. d \in Dlcis => Calm(e, s, PORT_DlcReleaseInd(closed, d))
  <2>1. IsDevice(e.self, t)
    BY SetPortSm DEF SmStates
  <2>2. Untouched(s, t)
    BY DEF IsDevice, Device, Untouched, Kept, Watch, Stray, Busy, Settled, Port
  <2> HIDE DEF t
  <2>3. d \in Dlcis => IsDevice(e.self, closed) /\ Calm(e, t, closed)
    BY <2>1, SendKeeps, SendCalm DEF PortFrames, PortCommands
  <2> HIDE DEF closed
  <2>4. d \in Dlcis => Calm(e, closed, PORT_DlcReleaseInd(closed, d))
    BY <2>3, DlcReleaseIndCalm
  <2> QED
    BY <2>2, <2>3, <2>4, UntouchedCalm, CalmTrans
<1>4. rfc_port_sm_term_wait_sec_check(s, x, event) =
        CASE event = "SEC_OK" -> IF s.port[x].attached THEN PORT_DlcEstablishInd(s, d) ELSE Crash(s)
          [] event = "SEC_FAILED" -> IF ~s.port[x].attached THEN s ELSE port_rfc_closed(refused, x)
          [] event = "DISC" -> PORT_DlcReleaseInd(closed, d)
          [] OTHER -> s
  BY DEF rfc_port_sm_term_wait_sec_check, d
<1>5. /\ Calm(e, s, Crash(s)) /\ Calm(e, s, s)
      /\ s.port[x].attached => Calm(e, s, PORT_DlcEstablishInd(s, d))
  BY <1>1, DlcEstablishIndCalm, CrashCalm, CalmSelf DEF Watch, Busy
<1> HIDE DEF refused, closed
<1> QED
  BY <1>1, <1>2, <1>3, <1>4, <1>5 DEF LateEvents

\* That of a connection that this device asks for.
LEMMA OrigWaitSecCheckCalm ==
  ASSUME NEW e, IsEnv(e), NEW s, IsDevice(e.self, s), NEW x \in Handles, NEW event
  PROVE  Calm(e, s, rfc_port_sm_orig_wait_sec_check(s, x, event))
<1> DEFINE d == s.port[x].dlci
           started == [s EXCEPT !.port[x].timer = TRUE, !.port[x].sm = "SABME_WAIT_UA"]
           refused == [s EXCEPT !.mx.is_disc_initiator = TRUE]
<1>1. s.port[x].attached => d \in Dlcis
  BY PortMembers
<1>2. d \in Dlcis => Calm(e, s, rfc_send(started, "SABME", d))
  <2>1. IsDevice(e.self, started)
    BY SetPortTimer, SetPortSm DEF SmStates
  <2>2. Untouched(s, started)
    BY DEF IsDevice, Device, Untouched, Kept, Watch, Stray, Busy, Settled, Port
  <2> HIDE DEF started, d
  <2> QED
    BY <2>1, <2>2, SendCalm, UntouchedCalm, CalmTrans DEF PortFrames, PortCommands
<1>3. s.port[x].attached => Calm(e, s, EstablishFailed(refused, x))
  BY AskedFailedCalm
<1>4. rfc_port_sm_orig_wait_sec_check(s, x, event) =
        CASE event = "SEC_OK" -> IF s.port[x].attached THEN rfc_send(started, "SABME", d)
                                                       ELSE Crash(s)
          [] event = "SEC_FAILED" -> IF s.port[x].attached THEN EstablishFailed(refused, x)
                                                           ELSE Crash(s)
          [] event = "CLOSE" -> rfc_port_closed(s, x)
          [] OTHER -> s
  BY DEF rfc_port_sm_orig_wait_sec_check
<1>5. Calm(e, s, Crash(s)) /\ Calm(e, s, s) /\ Calm(e, s, rfc_port_closed(s, x))
  BY RfcPortClosedCalm, CrashCalm, CalmSelf
<1> HIDE DEF d, started, refused
<1> QED
  BY <1>1, <1>2, <1>3, <1>4, <1>5

\* A port with a connection.
LEMMA OpenedCalm ==
  ASSUME NEW e, IsEnv(e), NEW s, IsDevice(e.self, s), NEW x \in Handles, NEW event,
         s.port[x].attached \/ event \in LateEvents
  PROVE  Calm(e, s, rfc_port_sm_opened(s, x, event))
<1> DEFINE d == s.port[x].dlci
           t == [s EXCEPT !.port[x].sm = "CLOSED"]
           closed == rfc_send(t, "UA", d)
           left == PORT_DlcReleaseInd(s, d)
<1>1. s.port[x].attached => d \in Dlcis
  BY PortMembers
<1> HIDE DEF d
<1>2. d \in Dlcis => Calm(e, s, rfc_send(s, "UA", d))
  BY SendCalm DEF PortFrames, PortCommands
<1>3. d \in Dlcis => Calm(e, s, PORT_DlcReleaseInd(closed, d))
  <2>1. IsDevice(e.self, t)
    BY SetPortSm DEF SmStates
  <2>2. Untouched(s, t)
    BY DEF IsDevice, Device, Untouched, Kept, Watch, Stray, Busy, Settled, Port
  <2> HIDE DEF t
  <2>3. d \in Dlcis => IsDevice(e.self, closed) /\ Calm(e, t, closed)
    BY <2>1, SendKeeps, SendCalm DEF PortFrames, PortCommands
  <2> HIDE DEF closed
  <2>4. d \in Dlcis => Calm(e, closed, PORT_DlcReleaseInd(closed, d))
    BY <2>3, DlcReleaseIndCalm
  <2> QED
    BY <2>2, <2>3, <2>4, UntouchedCalm, CalmTrans
<1>4. d \in Dlcis => Calm(e, s, rfc_port_closed(left, x))
  <2>1. d \in Dlcis => IsDevice(e.self, left) /\ Calm(e, s, left)
    BY DlcReleaseIndKeeps, DlcReleaseIndCalm
  <2> HIDE DEF left
  <2> QED
    BY <2>1, RfcPortClosedCalm, CalmTrans
<1>5. rfc_port_sm_opened(s, x, event) =
        CASE event = "CLOSE" -> SendDisc(s, x)
          [] event = "SABME" -> rfc_send(s, "UA", d)
          [] event = "DM" -> rfc_port_closed(left, x)
          [] event = "DISC" -> PORT_DlcReleaseInd(closed, d)
          [] event = "TIMEOUT" -> PORT_TimeOutCloseMux(s)
          [] OTHER -> s
  BY DEF rfc_port_sm_opened, d
<1>6. /\ Calm(e, s, PORT_TimeOutCloseMux(s)) /\ Calm(e, s, s)
      /\ (s.port[x].attached => Calm(e, s, SendDisc(s, x)))
  BY SendDiscCalm, TimeOutCloseMuxCalm, CalmSelf
<1> HIDE DEF closed, left
<1> QED
  BY <1>1, <1>2, <1>3, <1>4, <1>5, <1>6 DEF LateEvents

\* A port that waits for the end of its connection.
LEMMA DiscWaitUaCalm ==
  ASSUME NEW e, IsEnv(e), NEW s, IsDevice(e.self, s), NEW x \in Handles, NEW event,
         s.port[x].attached \/ event \in LateEvents
  PROVE  Calm(e, s, rfc_port_sm_disc_wait_ua(s, x, event))
<1> DEFINE closing == [s EXCEPT !.mx.is_disc_initiator = TRUE]
<1>1. s.port[x].attached => Calm(e, s, rfc_port_closed(closing, x))
  BY AskedClosedCalm
<1>2. s.port[x].attached => Calm(e, s, rfc_send(s, "DM", s.port[x].dlci))
  BY PortMembers, SendCalm DEF PortFrames, PortCommands
<1>3. rfc_port_sm_disc_wait_ua(s, x, event) =
        CASE event \in {"UA", "DM"} -> rfc_port_closed(closing, x)
          [] event \in {"SABME", "DISC"} -> rfc_send(s, "DM", s.port[x].dlci)
          [] event = "TIMEOUT" -> rfc_port_closed(s, x)
          [] OTHER -> s
  BY DEF rfc_port_sm_disc_wait_ua
<1>4. Calm(e, s, s) /\ Calm(e, s, rfc_port_closed(s, x))
  BY RfcPortClosedCalm, CalmSelf
<1> HIDE DEF closing
<1> QED
  BY <1>1, <1>2, <1>3, <1>4 DEF LateEvents

\* Every event of a port is.
LEMMA PortExecuteCalm ==
  ASSUME NEW e, IsEnv(e), NEW s, IsDevice(e.self, s), NEW x \in Handles, NEW event,
         s.port[x].attached \/ event \in LateEvents,
         event \in {"UA", "SABME"} => Free(s), Settled(s)
  PROVE  Calm(e, s, rfc_port_sm_execute(s, x, event))
<1>1. s.port[x].sm \in SmStates
  BY PortMembers
<1>2. CASE s.port[x].sm = "CLOSED"
  BY <1>2, ClosedCalm DEF rfc_port_sm_execute
<1>3. CASE s.port[x].sm = "SABME_WAIT_UA"
  BY <1>3, SabmeWaitUaCalm DEF rfc_port_sm_execute
<1>4. CASE s.port[x].sm = "ORIG_WAIT_SEC_CHECK"
  BY <1>4, OrigWaitSecCheckCalm DEF rfc_port_sm_execute
<1>5. CASE s.port[x].sm = "TERM_WAIT_SEC_CHECK"
  BY <1>5, TermWaitSecCheckCalm DEF rfc_port_sm_execute
<1>6. CASE s.port[x].sm = "OPENED"
  BY <1>6, OpenedCalm DEF rfc_port_sm_execute
<1>7. CASE s.port[x].sm = "DISC_WAIT_UA"
  BY <1>7, DiscWaitUaCalm DEF rfc_port_sm_execute
<1> QED
  BY <1>1, <1>2, <1>3, <1>4, <1>5, <1>6, <1>7 DEF SmStates

-----------------------------------------------------------------------------
(* Frames of the ports *)

\* A port is attached to a multiplexer whose timer may stop, or without
\* harm.
LEMMA AttachUntouched ==
  ASSUME NEW p, NEW s, IsDevice(p, s), NEW x \in Handles, NEW d \in Dlcis,
         \/ Free(s)
         \/ (s.mx.state # "WAIT_SABME" \/ d = 3) /\ s.port[x].sm # "TERM_WAIT_SEC_CHECK"
  PROVE  Untouched(s, Attach(s, x, d))
<1> DEFINE t == [s EXCEPT !.port_handles[d] = x, !.port[x].dlci = d, !.port[x].attached = TRUE]
<1>1. /\ t.self = s.self /\ t.made = s.made /\ t.ccb = s.ccb /\ t.lcid_mcb = s.lcid_mcb
      /\ t.mx = s.mx /\ t.out = s.out
      /\ d = 3 /\ s.port_handles[2] = NoHandle => t.port_handles[2] = NoHandle
  BY DEF IsDevice, Device, Dlcis
<1>2. s.port[x].sm # "TERM_WAIT_SEC_CHECK" /\ Busy(t) => Busy(s)
  BY DEF IsDevice, Device, Port, Busy
<1> HIDE DEF t
<1>3. Untouched(s, t)
  BY <1>1, <1>2, PortsUntouched DEF Untouched, Kept, Watch, Stray, Settled
<1> QED
  BY <1>3 DEF Attach, t

\* The other device negotiates.
LEMMA ParNegIndCalm ==
  ASSUME NEW e, IsEnv(e), NEW s, IsDevice(e.self, s), NEW d \in Dlcis, Free(s)
  PROVE  Calm(e, s, PORT_ParNegInd(s, d))
<1> DEFINE y == port_find_dlci_port(s, d)
           x == IF s.port_handles[d] # NoHandle THEN s.port_handles[d] ELSE y
           s1 == Attach(s, x, d)
           said == rfc_send(s, "DM", d)
<1>1. /\ y # NoHandle => y \in Handles /\ s.port[y].in_use /\ ~s.port[y].attached
  BY DEF port_find_dlci_port, Waits, Handles, NoHandle
<1>2. IsDevice(e.self, said) /\ Calm(e, s, said)
  BY SendKeeps, SendCalm DEF PortFrames, PortCommands
<1>3. ASSUME x # NoHandle PROVE IsDevice(e.self, s1) /\ x \in Handles
  <2>1. CASE s.port_handles[d] # NoHandle
    <3>1. x \in Handles /\ s.port_handles[d] = x /\ s.port[x].attached
      BY <2>1, HandleMembers
    <3>2. s.port[x].in_use
      BY <3>1, PortMembers
    <3> HIDE DEF x
    <3> QED
      BY <3>1, <3>2, AttachKeeps
  <2>2. CASE s.port_handles[d] = NoHandle
    <3>1. x \in Handles /\ s.port[x].in_use /\ ~s.port[x].attached
      BY <1>1, <1>3, <2>2
    <3> HIDE DEF x
    <3> QED
      BY <3>1, AttachKeeps
  <2> QED
    BY <2>1, <2>2
<1>4. \/ PORT_ParNegInd(s, d) = rfc_check_mcb_active(said)
      \/ x # NoHandle /\ PORT_ParNegInd(s, d) \in {rfc_send(s1, "PN_RSP", d), s1}
  BY DEF PORT_ParNegInd
<1> HIDE DEF x
<1>5. x # NoHandle => Calm(e, s, s1)
  BY <1>3, AttachUntouched, UntouchedCalm
<1> HIDE DEF s1, said
<1>6. x # NoHandle => Calm(e, s1, rfc_send(s1, "PN_RSP", d))
  BY <1>3, SendCalm DEF PortCommands
<1>7. Calm(e, said, rfc_check_mcb_active(said))
  BY <1>2, CheckMcbActiveCalm
<1> QED
  BY <1>2, <1>4, <1>5, <1>6, <1>7, CalmTrans

\* A negotiated port asks for its connection.
LEMMA DlcEstablishReqCalm ==
  ASSUME NEW e, IsEnv(e), NEW s, IsDevice(e.self, s), NEW d \in Dlcis,
         s.port_handles[d] # NoHandle, Settled(s)
  PROVE  Calm(e, s, RFCOMM_DlcEstablishReq(s, d))
<1>1. Calm(e, s, PORT_DlcEstablishCnf(s, d, FALSE))
  BY DlcEstablishCnfCalm
<1>2. Calm(e, s, rfc_port_sm_execute(s, s.port_handles[d], "OPEN"))
  BY HandleMembers, PortExecuteCalm
<1> QED
  BY <1>1, <1>2 DEF RFCOMM_DlcEstablishReq

\* The frames about the parameters of a port.
LEMMA ProcessPnCalm ==
  ASSUME NEW e, IsEnv(e), NEW s, IsDevice(e.self, s), NEW k, NEW d \in Dlcis, Free(s), Settled(s)
  PROVE  Calm(e, s, rfc_process_pn(s, k, d))
<1> DEFINE x == s.port_handles[d]
           s1 == [s EXCEPT !.port[x].expected_rsp = s.port[x].expected_rsp \ {"PN"},
                           !.port[x].timer = FALSE]
<1>1. \/ rfc_process_pn(s, k, d) \in {rfc_send(s, "DM", d), PORT_ParNegInd(s, d), s}
      \/ x # NoHandle /\ rfc_process_pn(s, k, d) \in {RFCOMM_DlcEstablishReq(s1, d), s1}
  BY DEF rfc_process_pn
<1>2. ASSUME x # NoHandle
      PROVE  IsDevice(e.self, s1) /\ s1.port_handles[d] # NoHandle /\ Untouched(s, s1)
  <2>1. x \in Handles
    BY <1>2, HandleMembers
  <2>2. IsDevice(e.self, s1) /\ s1.port_handles = s.port_handles
    <3> HIDE DEF x
    <3> QED
      BY <2>1, ResponseReceived
  <2>3. Untouched(s, s1)
    <3> HIDE DEF x
    <3> QED
      BY DEF IsDevice, Device, Untouched, Kept, Watch, Stray, Busy, Settled, Port
  <2> HIDE DEF s1
  <2> QED
    BY <1>2, <2>2, <2>3
<1> HIDE DEF s1
<1>3. Calm(e, s, rfc_send(s, "DM", d)) /\ Calm(e, s, PORT_ParNegInd(s, d)) /\ Calm(e, s, s)
  BY SendCalm, ParNegIndCalm, CalmSelf DEF PortFrames, PortCommands
<1>4. x # NoHandle => Calm(e, s, s1) /\ Calm(e, s1, RFCOMM_DlcEstablishReq(s1, d))
  BY <1>2, UntouchedCalm, DlcEstablishReqCalm DEF Untouched
<1> QED
  BY <1>1, <1>3, <1>4, CalmTrans

\* Those about its modem status.
LEMMA ProcessMscCalm ==
  ASSUME NEW e, IsEnv(e), NEW s, IsDevice(e.self, s), NEW k, NEW d \in Dlcis
  PROVE  Calm(e, s, rfc_process_msc(s, k, d))
<1> DEFINE x == s.port_handles[d]
           s1 == rfc_send(s, "MSC_RSP", d)
           t == [s EXCEPT !.port[x].expected_rsp = s.port[x].expected_rsp \ {"MSC"},
                          !.port[x].timer = FALSE]
<1>1. rfc_process_msc(s, k, d) \in {s1, RFCOMM_ControlReq(s1, d), s, t}
  BY DEF rfc_process_msc
<1>2. Untouched(s, t)
  <2> HIDE DEF x
  <2> QED
    BY DEF IsDevice, Device, Untouched, Kept, Watch, Stray, Busy, Settled, Port
<1>3. IsDevice(e.self, s1) /\ Calm(e, s, s1)
  BY SendKeeps, SendCalm DEF PortCommands
<1> HIDE DEF t, s1
<1>4. Calm(e, s1, RFCOMM_ControlReq(s1, d)) /\ Calm(e, s, t) /\ Calm(e, s, s)
  BY <1>2, <1>3, ControlReqCalm, UntouchedCalm, CalmSelf
<1> QED
  BY <1>1, <1>3, <1>4, CalmTrans

\* A frame on the DLCI of a port.
LEMMA PortFrameCalm ==
  ASSUME NEW e, IsEnv(e), NEW s, IsDevice(e.self, s), NEW k, NEW d \in Dlcis, Free(s), Settled(s)
  PROVE  Calm(e, s, PortFrame(s, k, d))
<1> DEFINE x == s.port_handles[d]
           y == port_find_dlci_port(s, d)
           t == Attach(s, y, d)
<1>1. \/ x # NoHandle /\ PortFrame(s, k, d) = rfc_port_sm_execute(s, x, k)
      \/ PortFrame(s, k, d) \in {rfc_send(s, "DM", d), s}
      \/ y # NoHandle /\ PortFrame(s, k, d) = rfc_port_sm_execute(t, y, k)
  BY DEF PortFrame
<1>2. x # NoHandle => Calm(e, s, rfc_port_sm_execute(s, x, k))
  BY HandleMembers, PortExecuteCalm
<1>3. y # NoHandle => y \in Handles /\ s.port[y].in_use /\ ~s.port[y].attached
  BY DEF port_find_dlci_port, Waits, Handles, NoHandle
<1> HIDE DEF x, y
<1>4. /\ y # NoHandle => IsDevice(e.self, t) /\ t.port[y].attached /\ t.mx = s.mx
      /\ y # NoHandle => Calm(e, s, t)
  BY <1>3, AttachKeeps, AttachUntouched, UntouchedCalm
<1> HIDE DEF t
<1>a. y # NoHandle => Free(t) /\ Settled(t)
  BY <1>4 DEF Calm, Mild, Kept, Free, Stray, Settled
<1>5. y # NoHandle => Calm(e, t, rfc_port_sm_execute(t, y, k))
  BY <1>3, <1>4, <1>a, PortExecuteCalm
<1>6. Calm(e, s, rfc_send(s, "DM", d)) /\ Calm(e, s, s)
  BY SendCalm, CalmSelf DEF PortFrames, PortCommands
<1> QED
  BY <1>1, <1>2, <1>4, <1>5, <1>6, CalmTrans

\* The application closes a port.
LEMMA StartCloseCalm ==
  ASSUME NEW e, IsEnv(e), NEW s, IsDevice(e.self, s), NEW x \in Handles, Settled(s)
  PROVE  Calm(e, s, port_start_close(s, x))
<1> DEFINE s1 == [s EXCEPT !.port[x].state = "CLOSING"]
           y == s.port_handles[s.port[x].dlci]
<1>1. IsDevice(e.self, s1) /\ s1.port_handles = s.port_handles /\ Untouched(s, s1)
  <2>1. IsDevice(e.self, s1)
    BY SetPortState DEF PortStates
  <2>2. /\ s1.self = s.self /\ s1.made = s.made /\ s1.ccb = s.ccb /\ s1.lcid_mcb = s.lcid_mcb
        /\ s1.mx = s.mx /\ s1.out = s.out /\ s1.port_handles = s.port_handles
    BY DEF IsDevice, Device
  <2>3. Busy(s1) => Busy(s)
    BY DEF IsDevice, Device, Port, Busy
  <2> HIDE DEF s1
  <2> QED
    BY <2>1, <2>2, <2>3, PortsUntouched
<1>2. \/ port_start_close(s, x) \in {port_release_port(s1, x), s1}
      \/ /\ s.port[x].attached /\ y # NoHandle
         /\ port_start_close(s, x) = rfc_port_sm_execute(s1, y, "CLOSE")
  BY DEF port_start_close
<1> HIDE DEF s1
<1>3. s.port[x].attached /\ y # NoHandle => Calm(e, s1, rfc_port_sm_execute(s1, y, "CLOSE"))
  <2>1. s.port[x].attached => s.port[x].dlci \in Dlcis
    BY PortMembers
  <2>2. s.port[x].attached /\ y # NoHandle => y \in Handles /\ s1.port[y].attached
    BY <1>1, <2>1, HandleMembers
  <2> HIDE DEF y
  <2> QED
    BY <1>1, <2>2, PortExecuteCalm DEF Untouched
<1>4. Calm(e, s, s1) /\ Calm(e, s1, port_release_port(s1, x))
  BY <1>1, ReleasePortCalm, UntouchedCalm
<1> QED
  BY <1>2, <1>3, <1>4, CalmTrans

-----------------------------------------------------------------------------
(* The multiplexer at rest *)

\* A channel that the device has not opened yet is closed.
Unopened(s) == \A c \in Channels : c[1] = s.self /\ c[2] > s.made => s.ccb[c] = "CLOSED"

\* The channel kept aside in a collision is one that the device opened, and it
\* is known whether it is configured.
Aside(s) ==
  /\ s.mx.collision_outgoing_lcid # NoChannel =>
       /\ s.mx.state = "WAIT_SABME"
       /\ s.mx.collision_outgoing_lcid[1] = s.self
       /\ s.ccb[s.mx.collision_outgoing_lcid] # "CLOSED"
       /\ s.mx.collision_outgoing_conn_cnf <=> s.ccb[s.mx.collision_outgoing_lcid] = "OPEN"
       /\ s.mx.collision_outgoing_cfg_complete <=> s.ccb[s.mx.collision_outgoing_lcid] = "OPEN"
  /\ s.mx.collision_outgoing_lcid = NoChannel =>
       ~s.mx.collision_outgoing_conn_cnf /\ ~s.mx.collision_outgoing_cfg_complete

\* The channel of the multiplexer is as far as the multiplexer is.
Placed(s) ==
  /\ s.mx.state # "CONFIGURE"
  /\ s.mx.state # "IDLE" => s.mx.lcid \in s.lcid_mcb
  /\ s.mx.state = "WAIT_CONN_CNF" =>
       s.mx.lcid[1] = s.self /\ s.ccb[s.mx.lcid] \in {"W4_CONNECT_RSP", "CONFIG"}
  /\ s.mx.state = "SABME_WAIT_UA" => s.mx.lcid[1] = s.self
  /\ s.mx.state = "WAIT_SABME" => s.mx.lcid[1] # s.self
  /\ s.mx.state \in {"SABME_WAIT_UA", "WAIT_SABME", "CONNECTED", "DISC_WAIT_UA"} =>
       s.ccb[s.mx.lcid] = "OPEN"
  /\ s.mx.state = "IDLE" /\ s.mx.lcid # NoChannel =>
       s.mx.lcid[1] = s.self /\ s.ccb[s.mx.lcid] = "CLOSED"

Neat(s) == Role(s) /\ Placed(s) /\ Aside(s) /\ Unopened(s)
Tidy(s) == Neat(s) /\ Settled(s) /\ Watch(s)

\* A handler may end here, in device e.self.
Good(e, s) == IsDevice(e.self, s) /\ Fine(e, s) /\ Tidy(s)

\* The absence of a channel is no channel.
LEMMA NoChannelOut == NoChannel \notin Channels
BY DEF Channels, NoChannel

\* What a neat multiplexer sends is part of the dialogue.
LEMMA NeatSpeaks ==
  ASSUME NEW p, NEW s, IsDevice(p, s), Neat(s)
  PROVE  Speaks(s)
<1>1. NoChannel \notin Channels
  BY DEF Channels, NoChannel
<1>2. IsOpen(s, s.mx.lcid) => s.mx.state \notin {"IDLE", "WAIT_CONN_CNF", "CONFIGURE"}
  BY <1>1 DEF Neat, Placed, IsOpen
<1>3. IsOpen(s, s.mx.lcid) => s.mx.lcid # s.mx.collision_outgoing_lcid
  BY <1>1 DEF Neat, Placed, Aside, IsOpen
<1> QED
  BY <1>2, <1>3 DEF Neat, Speaks

\* What is kept keeps the multiplexer neat.
LEMMA NeatKept ==
  ASSUME NEW s, NEW t, Neat(s), Kept(s, t)
  PROVE  Neat(t)
<1>1. Role(t) /\ Unopened(t)
  BY DEF Neat, Role, Unopened, Kept
<1>2. Placed(t)
  BY DEF Neat, Placed, Kept
<1>3. Aside(t)
  BY DEF Neat, Aside, Kept
<1> QED
  BY <1>1, <1>2, <1>3 DEF Neat

\* What the functions of the ports do.
LEMMA CalmGood ==
  ASSUME NEW e, NEW s, NEW t, Good(e, s), IsDevice(e.self, t), Calm(e, s, t)
  PROVE  Good(e, t)
<1>1. Neat(t)
  BY NeatKept DEF Good, Tidy, Calm, Mild
<1>2. Speaks(s)
  BY NeatSpeaks DEF Good, Tidy
<1> QED
  BY <1>1, <1>2 DEF Good, Tidy, Calm, Mild

\* The multiplexer of a device at rest has its channel.
LEMMA TidyFree ==
  ASSUME NEW p, NEW s, IsDevice(p, s), Placed(s)
  PROVE  /\ s.mx.state # "IDLE" => s.mx.lcid \in Channels
         /\ ~Stray(s)
         /\ s.mx.state # "WAIT_SABME" => Free(s)
<1>1. s.lcid_mcb \in SUBSET Channels /\ NoChannel \notin Channels
  BY Members DEF Channels, NoChannel
<1> QED
  BY <1>1 DEF Placed, Stray, Free

-----------------------------------------------------------------------------
(* A channel goes down *)

DiscReq(k) == [k |-> "DISC_REQ", c |-> k, d |-> 0, initiator |-> FALSE]

\* Channel k is taken down, whatever becomes of the multiplexer.
Drops(s, t, k) ==
  /\ t.self = s.self /\ t.made = s.made
  /\ t.ccb = [s.ccb EXCEPT ![k] = "CLOSED"]
  /\ s.ccb[k] \in {"CLOSED", "W4_CONNECT_RSP"} => t.out = s.out
  /\ s.ccb[k] \notin {"CLOSED", "W4_CONNECT_RSP"} => t.out = Append(s.out, DiscReq(k))

\* The other channels are seen as before.
Elsewhere(s, t, k) == \A c \in Channels : c # k => Status(t, c) = Status(s, c)

\* L2CA_DisconnectReq takes the channel down and changes nothing else.
LEMMA DisconnectReqDrops ==
  ASSUME NEW p, NEW s, IsDevice(p, s), NEW k \in Channels
  PROVE  LET t == L2CA_DisconnectReq(s, k)
         IN  /\ Drops(s, t, k) /\ IsDevice(p, t)
             /\ t.mx = s.mx /\ t.lcid_mcb = s.lcid_mcb /\ t.port = s.port
             /\ t.port_handles = s.port_handles
<1> DEFINE t == L2CA_DisconnectReq(s, k)
<1>1. IsDevice(p, t)
  BY DisconnectReqKeeps DEF AnyChannel
<1>2. s.ccb \in [Channels -> CcbStates]
  BY Members
<1>3. s \in Device(p)
  BY DEF IsDevice
<1>4. CASE s.ccb[k] = "CLOSED"
  <2>1. t = s /\ s.ccb = [s.ccb EXCEPT ![k] = "CLOSED"]
    BY <1>2, <1>4 DEF L2CA_DisconnectReq
  <2> QED
    BY <1>1, <1>4, <2>1 DEF Drops
<1>5. CASE s.ccb[k] = "W4_CONNECT_RSP"
  <2>1. t = [s EXCEPT !.ccb[k] = "CLOSED"]
    BY <1>5 DEF L2CA_DisconnectReq
  <2> QED
    BY <1>1, <1>3, <1>5, <2>1 DEF Drops, Device
<1>6. CASE s.ccb[k] \notin {"CLOSED", "W4_CONNECT_RSP"}
  <2>1. t = Signal([s EXCEPT !.ccb[k] = "CLOSED"], "DISC_REQ", k)
    BY <1>6 DEF L2CA_DisconnectReq
  <2> QED
    BY <1>1, <1>3, <1>6, <2>1 DEF Drops, Device, Signal, DiscReq
<1> QED
  BY <1>4, <1>5, <1>6

\* The status of a channel in each state of L2CAP.
LEMMA StatusOf ==
  ASSUME NEW p, NEW s, IsDevice(p, s), NEW c \in Channels
  PROVE  /\ View(s)[c] = Status(s, c)
         /\ s.ccb[c] = "CLOSED" => Status(s, c) \in {"NEW", "CLOSED"}
         /\ s.ccb[c] = "W4_CONNECT_RSP" => Status(s, c) \in Asking
         /\ s.ccb[c] = "CONFIG" => Status(s, c) \in Configuring
         /\ s.ccb[c] = "OPEN" => Status(s, c) \in OpenAtOwner \cup OpenAtOther
         /\ s.ccb[c] \in CcbStates
<1>1. s.mx.state \in MxStates /\ s.ccb[c] \in CcbStates
  BY Members, MxMembers
<1> QED
  BY <1>1 DEF View, Status, Live, Asking, Configuring, OpenAtOwner, OpenAtOther, Engaged,
              MxStates

\* The channels of both devices are fine when one is taken down.
LEMMA DropsFine ==
  ASSUME NEW e, IsEnv(e), NEW s, IsDevice(e.self, s), NEW t, NEW k \in Channels,
         Fine(e, s), Unopened(s), Drops(s, t, k), Elsewhere(s, t, k)
  PROVE  Fine(e, t)
<1>1. s.out \in Seq(Frame) /\ s.ccb \in [Channels -> CcbStates] /\ s.self = e.self
  BY Members
<1>2. SameBut(View(s), View(t), k) /\ t.ccb[k] = "CLOSED" /\ View(t)[k] = Status(t, k)
  BY <1>1 DEF SameBut, View, Elsewhere, Drops
<1>3. s.ccb[k] # "CLOSED" => View(t)[k] = "CLOSED"
  BY <1>2 DEF Status, Unopened, Drops
<1>4. CASE s.ccb[k] = "CLOSED"
  <2>1. Status(t, k) = Status(s, k)
    BY <1>2, <1>4 DEF Status, Drops
  <2>2. View(t) = View(s)
    BY <2>1 DEF View, Elsewhere
  <2> QED
    BY <1>4, <2>2 DEF Fine, Sent, Drops
<1>5. CASE s.ccb[k] = "W4_CONNECT_RSP"
  <2>1. View(s)[k] \in Asking /\ t.out = s.out
    BY <1>5, StatusOf DEF Drops
  <2> QED
    BY <1>1, <1>2, <1>3, <1>5, <2>1, LosesFine
<1>6. CASE s.ccb[k] \notin {"CLOSED", "W4_CONNECT_RSP"}
  <2>1. View(s)[k] \in Configuring \cup OpenAtOwner \cup OpenAtOther
    BY <1>1, <1>6, StatusOf DEF CcbStates
  <2>2. DiscReq(k) \in Frame /\ Is(DiscReq(k), "DISC_REQ", k)
    BY DEF DiscReq, Frame, AnyFrame, Signals, Is, PortCommands, Dlcis
  <2>3. t.out = Append(s.out, DiscReq(k))
    BY <1>6 DEF Drops
  <2> QED
    BY <1>1, <1>2, <1>3, <1>6, <2>1, <2>2, <2>3, DisconnectsFine
<1> QED
  BY <1>4, <1>5, <1>6

-----------------------------------------------------------------------------
(* The end of a multiplexer *)

\* The channel of the multiplexer is down.
Shut(s) ==
  /\ Role(s) /\ Unopened(s)
  /\ s.mx.collision_outgoing_lcid # NoChannel => s.mx.collision_outgoing_lcid[1] = s.self
  /\ s.mx.lcid \in Channels => s.ccb[s.mx.lcid] = "CLOSED"

\* What is kept keeps the channel down.
LEMMA ShutKept ==
  ASSUME NEW s, NEW t, Shut(s), Kept(s, t)
  PROVE  Shut(t)
BY DEF Shut, Role, Unopened, Kept

\* Nothing is sent on a channel that is down.
LEMMA ShutSpeaks == ASSUME NEW s, Shut(s) PROVE Speaks(s)
BY DEF Shut, Speaks, IsOpen

\* A multiplexer that starts afresh.
LEMMA IdleTidy ==
  ASSUME NEW s, Unopened(s), s.mx = IdleMx
  PROVE  Tidy(s)
<1>1. /\ s.mx.state = "IDLE" /\ s.mx.lcid = NoChannel /\ ~s.mx.is_disc_initiator
      /\ s.mx.collision_outgoing_lcid = NoChannel /\ ~s.mx.collision_outgoing_conn_cnf
      /\ ~s.mx.collision_outgoing_cfg_complete
  BY DEF IdleMx
<1> QED
  BY <1>1 DEF Tidy, Neat, Role, Placed, Aside, Settled, Watch, Stray

\* The channel kept aside, if any, is not used.
LEMMA ForgottenFine ==
  ASSUME NEW e, IsEnv(e), NEW s, IsDevice(e.self, s), NEW t, Fine(e, s),
         s.mx.collision_outgoing_lcid # NoChannel => s.mx.collision_outgoing_lcid[1] = s.self,
         t.self = s.self, t.made = s.made, t.ccb = s.ccb, t.out = s.out,
         t.mx.collision_outgoing_lcid = NoChannel, t.mx.state \in MxStates,
         s.mx.collision_outgoing_lcid \in Channels =>
           Status(t, s.mx.collision_outgoing_lcid) \in {"NEW", "CLOSED", "W4", "CONFIG", "SPARE"},
         Elsewhere(s, t, s.mx.collision_outgoing_lcid)
  PROVE  Fine(e, t)
<1> DEFINE k == s.mx.collision_outgoing_lcid
<1>1. s.out \in Seq(Frame) /\ s.ccb \in [Channels -> CcbStates] /\ s.self = e.self
  BY Members
<1>2. (k \in Channels \/ k = NoChannel) /\ NoChannel \notin Channels
  BY MxMembers DEF AnyChannel, Channels, NoChannel
<1>3. CASE k \notin Channels \/ s.ccb[k] = "CLOSED"
  <2>1. View(t) = View(s)
    BY <1>2, <1>3 DEF View, Elsewhere, Status
  <2>2. Sent(e, t) = Sent(e, s)
    BY DEF Sent
  <2> HIDE DEF k
  <2> QED
    BY <2>1, <2>2, Zenon DEF Fine
<1>4. CASE k \in Channels /\ s.ccb[k] # "CLOSED"
  <2>1. SameBut(View(s), View(t), k) /\ k[1] = e.self
    BY <1>1, <1>2, <1>4 DEF SameBut, View, Elsewhere
  <2>2. Live(s, k) /\ s.ccb[k] \in CcbStates /\ View(s)[k] = Status(s, k)
    BY <1>1, <1>4 DEF Live, View
  <2>3. View(t)[k] = Status(t, k) /\ View(t)[k] \in {"NEW", "CLOSED", "W4", "CONFIG", "SPARE"}
    BY <1>4 DEF View
  <2>4. /\ View(s)[k] \in {"W4_LIVE", "CONFIG_LIVE", "READY"}
        /\ View(s)[k] = "W4_LIVE" => s.ccb[k] = "W4_CONNECT_RSP"
        /\ View(s)[k] = "CONFIG_LIVE" => s.ccb[k] = "CONFIG"
        /\ View(s)[k] = "READY" => s.ccb[k] = "OPEN"
    BY <1>4, <2>2 DEF Status, CcbStates
  <2>5. /\ s.ccb[k] = "W4_CONNECT_RSP" => View(t)[k] = "W4"
        /\ s.ccb[k] = "CONFIG" => View(t)[k] = "CONFIG"
        /\ s.ccb[k] = "OPEN" => View(t)[k] = "SPARE"
    BY <1>4, <2>3 DEF Status, MxStates
  <2> HIDE DEF k
  <2> QED
    BY <1>1, <1>4, <2>1, <2>4, <2>5, ForgetsFine
<1> QED
  BY <1>3, <1>4

\* The multiplexer is released.
LEMMA ReleaseGood ==
  ASSUME NEW e, IsEnv(e), NEW s, IsDevice(e.self, s), Fine(e, s), Shut(s)
  PROVE  Good(e, rfc_release_multiplexer_channel(s))
<1> DEFINE t == rfc_release_multiplexer_channel(s)
           k == s.mx.collision_outgoing_lcid
<1>1. IsDevice(e.self, t)
  BY ReleaseMultiplexerKeeps
<1>2. t.self = s.self /\ t.made = s.made /\ t.ccb = s.ccb /\ t.out = s.out /\ t.mx = IdleMx
  BY DEF IsDevice, Device, rfc_release_multiplexer_channel
<1>3. t.mx.state = "IDLE" /\ t.mx.lcid = NoChannel /\ t.mx.collision_outgoing_lcid = NoChannel
  BY <1>2 DEF IdleMx
<1> HIDE DEF t
<1>4. Tidy(t)
  BY <1>2, IdleTidy DEF Shut, Unopened
<1>5. /\ NoChannel \notin Channels /\ \A c \in Channels : ~Live(t, c)
      /\ \A c \in Channels : s.ccb[c] \in CcbStates
  BY <1>3, Members, SMTT(30) DEF Channels, NoChannel, Live
<1>6. Elsewhere(s, t, k)
  BY <1>2, <1>3, <1>5 DEF Elsewhere, Status, Live, Shut
<1>7. \A c \in Channels : Status(t, c) \in {"NEW", "CLOSED", "W4", "CONFIG", "SPARE"}
  BY <1>2, <1>3, <1>5 DEF Status, CcbStates
<1>8. Fine(e, t)
  <2>1. t.mx.state \in MxStates
    BY <1>3 DEF MxStates
  <2> QED
    BY <1>2, <1>3, <1>6, <1>7, <2>1, ForgottenFine DEF Shut
<1> QED
  BY <1>1, <1>4, <1>8 DEF Good, t

\* The ports are closed and the multiplexer is released.
LEMMA CloseIndGood ==
  ASSUME NEW e, IsEnv(e), NEW s, IsDevice(e.self, s), Fine(e, s), Shut(s)
  PROVE  Good(e, PORT_CloseInd(s))
<1> DEFINE t == PORT_TimeOutCloseMux(s)
<1>1. IsDevice(e.self, t) /\ Calm(e, s, t)
  BY TimeOutCloseMuxKeeps, TimeOutCloseMuxCalm
<1>2. PORT_CloseInd(s) = rfc_release_multiplexer_channel(t)
  BY DEF PORT_CloseInd, PORT_TimeOutCloseMux
<1> HIDE DEF t
<1>3. Fine(e, t) /\ Shut(t)
  BY <1>1, ShutSpeaks, ShutKept DEF Calm, Mild
<1> QED
  BY <1>1, <1>2, <1>3, ReleaseGood

\* The ports are told that the multiplexer failed to start.
LEMMA StartFailedGood ==
  ASSUME NEW e, IsEnv(e), NEW s, IsDevice(e.self, s), Fine(e, s), Shut(s)
  PROVE  LET t == PORT_StartCnf(s, FALSE)
         IN  Good(e, t) \/ (NoPortsUp(s) /\ t = rfc_check_mcb_active(s))
<1> DEFINE t == ForAttached(s, port_release_port)
<1>1. IsDevice(e.self, t) /\ Calm(e, s, t)
  BY ReleasePortsCalm
<1>2. \/ PORT_StartCnf(s, FALSE) = rfc_release_multiplexer_channel(t)
      \/ NoPortsUp(s) /\ PORT_StartCnf(s, FALSE) = rfc_check_mcb_active(s)
  BY DEF PORT_StartCnf
<1> HIDE DEF t
<1>3. Fine(e, t) /\ Shut(t)
  BY <1>1, ShutSpeaks, ShutKept DEF Calm, Mild
<1> QED
  BY <1>1, <1>2, <1>3, ReleaseGood

\* A device at rest tells its ports that the multiplexer did not start.
LEMMA StartFailedIdle ==
  ASSUME NEW e, IsEnv(e), NEW s, Good(e, s), Shut(s)
  PROVE  Good(e, PORT_StartCnf(s, FALSE))
<1>1. IsDevice(e.self, s) /\ Fine(e, s)
  BY DEF Good
<1>2. CASE PORT_StartCnf(s, FALSE) = rfc_check_mcb_active(s)
  BY <1>1, <1>2, CheckMcbActiveKeeps, CheckMcbActiveCalm, CalmGood
<1> QED
  BY <1>1, <1>2, StartFailedGood

\* The multiplexer is idle and its channel down, on which it was the initiator.
LEMMA IdleGood ==
  ASSUME NEW e, NEW s, IsDevice(e.self, s), Fine(e, s), Shut(s), Aside(s), Settled(s),
         s.mx.state = "IDLE", s.mx.is_initiator
  PROVE  Good(e, s)
<1>1. s.mx.lcid \in Channels \/ s.mx.lcid = NoChannel
  BY MxMembers DEF AnyChannel
<1>2. Placed(s)
  BY <1>1 DEF Placed, Shut, Role
<1> QED
  BY <1>2 DEF Good, Tidy, Neat, Shut, Watch, Stray

\* A multiplexer that cannot start again is released, or left without a
\* channel.
LEMMA RestartFailed ==
  ASSUME NEW e, IsEnv(e), NEW s, IsDevice(e.self, s), Fine(e, s), Shut(s), Stray(s)
  PROVE  LET t == PORT_StartCnf(s, FALSE) IN Good(e, t) \/ Stray(t)
<1>1. CASE PORT_StartCnf(s, FALSE) = rfc_check_mcb_active(s)
  <2>1. Calm(e, s, rfc_check_mcb_active(s))
    BY CheckMcbActiveCalm
  <2>2. Stray(rfc_check_mcb_active(s))
    BY <2>1 DEF Calm, Mild, Kept, Stray
  <2> QED
    BY <1>1, <2>2
<1> QED
  BY <1>1, StartFailedGood

-----------------------------------------------------------------------------
(* Giving up *)

\* What the multiplexer knows but its state.
SameMx(s, t) ==
  /\ t.mx.lcid = s.mx.lcid /\ t.mx.is_initiator = s.mx.is_initiator
  /\ t.mx.is_disc_initiator = s.mx.is_disc_initiator
  /\ t.mx.restart_required = s.mx.restart_required
  /\ t.mx.collision_outgoing_lcid = s.mx.collision_outgoing_lcid
  /\ t.mx.collision_outgoing_conn_cnf = s.mx.collision_outgoing_conn_cnf
  /\ t.mx.collision_outgoing_cfg_complete = s.mx.collision_outgoing_cfg_complete
  /\ t.mx.timer = s.mx.timer

\* The multiplexer is idle.
LEMMA Idled ==
  ASSUME NEW p, NEW s, IsDevice(p, s)
  PROVE  LET t == [s EXCEPT !.mx.state = "IDLE"]
         IN  /\ IsDevice(p, t) /\ SameMx(s, t) /\ t.mx.state = "IDLE" /\ t.self = s.self
             /\ t.made = s.made /\ t.ccb = s.ccb /\ t.out = s.out /\ t.lcid_mcb = s.lcid_mcb
             /\ t.port = s.port /\ t.port_handles = s.port_handles
<1>1. IsDevice(p, [s EXCEPT !.mx.state = "IDLE"])
  BY SetState DEF MxStates
<1> QED
  BY <1>1 DEF IsDevice, Device, Mx, SameMx

\* The multiplexer is idle and its channel is taken down.
LEMMA IdleDropped ==
  ASSUME NEW e, IsEnv(e), NEW s, IsDevice(e.self, s), Neat(s), Fine(e, s), s.mx.state # "IDLE"
  PROVE  LET t == L2CA_DisconnectReq([s EXCEPT !.mx.state = "IDLE"], s.mx.lcid)
         IN  /\ IsDevice(e.self, t) /\ Fine(e, t) /\ Shut(t)
             /\ SameMx(s, t) /\ t.mx.state = "IDLE" /\ Drops(s, t, s.mx.lcid)
             /\ t.lcid_mcb = s.lcid_mcb /\ t.ccb[s.mx.lcid] = "CLOSED"
<1> DEFINE u == [s EXCEPT !.mx.state = "IDLE"]
           k == s.mx.lcid
           t == L2CA_DisconnectReq(u, k)
<1>1. /\ IsDevice(e.self, u) /\ SameMx(s, u) /\ u.mx.state = "IDLE" /\ u.self = s.self
      /\ u.made = s.made /\ u.ccb = s.ccb /\ u.out = s.out /\ u.lcid_mcb = s.lcid_mcb
  BY Idled
<1> HIDE DEF u
<1>2. k \in Channels
  BY TidyFree DEF Neat
<1>3. IsDevice(e.self, t) /\ Drops(u, t, k) /\ t.mx = u.mx /\ t.lcid_mcb = u.lcid_mcb
  BY <1>1, <1>2, DisconnectReqDrops
<1> HIDE DEF t
<1>4. SameMx(s, t) /\ t.mx.state = "IDLE" /\ Drops(s, t, k) /\ t.lcid_mcb = s.lcid_mcb
  BY <1>1, <1>3 DEF SameMx, Drops
<1>5. s.ccb \in [Channels -> CcbStates]
  BY Members
<1>6. Elsewhere(s, t, k)
  BY <1>4, <1>5 DEF Elsewhere, Status, Live, SameMx, Drops
<1>7. t.ccb[k] = "CLOSED" /\ Unopened(s) /\ Unopened(t)
  BY <1>2, <1>4, <1>5 DEF Drops, Neat, Unopened
<1>8. Fine(e, t)
  BY <1>2, <1>4, <1>6, <1>7, DropsFine
<1>9. Shut(t)
  BY <1>4, <1>7 DEF Shut, SameMx, Neat, Role, Aside, Drops
<1> QED
  BY <1>3, <1>4, <1>7, <1>8, <1>9 DEF t, u

\* The multiplexer gives up its channel and closes the ports.
LEMMA GiveUpGood ==
  ASSUME NEW e, IsEnv(e), NEW s, IsDevice(e.self, s), Neat(s), Fine(e, s), s.mx.state # "IDLE"
  PROVE  Good(e, GiveUp(s))
BY IdleDropped, CloseIndGood DEF GiveUp

\* What is left to do when the channel that the device opened is down.
LEMMA AfterStartFailed ==
  ASSUME NEW e, IsEnv(e), NEW s, NEW t, IsDevice(e.self, t), Fine(e, t), Shut(t), SameMx(s, t),
         t.mx.state = "IDLE", Neat(s), Settled(s), s.mx.is_initiator,
         s.mx.collision_outgoing_lcid = NoChannel
  PROVE  Good(e, PORT_StartCnf(t, FALSE))
<1>1. Aside(t) /\ Settled(t) /\ t.mx.is_initiator
  BY DEF Aside, SameMx, Settled, Neat
<1> QED
  BY <1>1, IdleGood, StartFailedIdle

-----------------------------------------------------------------------------
(* The channel that the device opened is used *)

\* A frame of the multiplexer goes out.
Utters(s, t, k) ==
  \E f \in Frame : /\ Is(f, k, s.mx.lcid) /\ f.initiator = s.mx.is_initiator
                   /\ t.out = Append(s.out, f)

\* A frame on DLCI 0 goes out on the open channel.
LEMMA MxFrameSent ==
  ASSUME NEW p, NEW s, IsDevice(p, s), NEW k \in PortFrames, IsOpen(s, s.mx.lcid)
  PROVE  LET t == rfc_send(s, k, 0)
         IN  /\ Utters(s, t, k)
             /\ IsDevice(p, t) /\ t.mx = s.mx /\ t.self = s.self
             /\ t.made = s.made /\ t.ccb = s.ccb /\ t.lcid_mcb = s.lcid_mcb
             /\ t.port = s.port /\ t.port_handles = s.port_handles
<1> DEFINE f == [k |-> k, c |-> s.mx.lcid, d |-> 0, initiator |-> s.mx.is_initiator]
           t == rfc_send(s, k, 0)
<1>1. f \in Frame /\ Is(f, k, s.mx.lcid) /\ f.initiator = s.mx.is_initiator
  BY MxMembers DEF Frame, AnyFrame, IsOpen, Signals, PortFrames, PortCommands, Is
<1>2. IsDevice(p, t)
  BY SendKeeps DEF PortFrames, PortCommands
<1>3. t = [s EXCEPT !.out = Append(s.out, f)]
  BY DEF rfc_send
<1> HIDE DEF f
<1>4. /\ t.out = Append(s.out, f) /\ t.mx = s.mx /\ t.self = s.self
      /\ t.made = s.made /\ t.ccb = s.ccb /\ t.lcid_mcb = s.lcid_mcb
      /\ t.port = s.port /\ t.port_handles = s.port_handles
  BY <1>3 DEF IsDevice, Device
<1> QED
  BY <1>1, <1>2, <1>4 DEF Utters

\* The initiator sends SABME when its channel is configured.
LEMMA GreetGood ==
  ASSUME NEW e, IsEnv(e), NEW s, IsDevice(e.self, s), Fine(e, s), s.mx.state = "CONFIGURE",
         s.mx.is_initiator, s.mx.lcid \in s.lcid_mcb, s.mx.lcid[1] = s.self,
         s.ccb[s.mx.lcid] = "OPEN", s.mx.collision_outgoing_lcid = NoChannel, Aside(s),
         Unopened(s), Settled(s)
  PROVE  Good(e, rfc_mx_conf_cnf(s))
<1> DEFINE k == s.mx.lcid
           u == [s EXCEPT !.mx.state = "SABME_WAIT_UA", !.mx.timer = "T1"]
           t == rfc_send(u, "SABME", 0)
<1>1. IsDevice(e.self, u)
  BY SetState, SetMxTimer DEF MxStates, MxTimers
<1>2. /\ u.mx.state = "SABME_WAIT_UA" /\ u.mx.lcid = k /\ u.mx.is_initiator
      /\ u.mx.is_disc_initiator = s.mx.is_disc_initiator
      /\ u.mx.collision_outgoing_lcid = NoChannel
      /\ u.mx.collision_outgoing_conn_cnf = s.mx.collision_outgoing_conn_cnf
      /\ u.mx.collision_outgoing_cfg_complete = s.mx.collision_outgoing_cfg_complete
      /\ u.self = s.self /\ u.made = s.made /\ u.ccb = s.ccb /\ u.lcid_mcb = s.lcid_mcb
      /\ u.out = s.out
  BY DEF IsDevice, Device, Mx
<1>3. rfc_mx_conf_cnf(s) = t
  BY DEF rfc_mx_conf_cnf
<1> HIDE DEF u
<1>4. /\ k \in Channels /\ NoChannel \notin Channels /\ s.self = e.self /\ s.out \in Seq(Frame)
      /\ s.ccb \in [Channels -> CcbStates]
  BY Members, NoChannelOut
<1>5. IsOpen(u, u.mx.lcid) /\ "SABME" \in PortFrames
  BY <1>2, <1>4 DEF IsOpen, PortFrames
<1>6. PICK f \in Frame :
        /\ Is(f, "SABME", k) /\ f.initiator = TRUE /\ IsDevice(e.self, t)
        /\ t.out = Append(s.out, f) /\ t.mx = u.mx /\ t.self = s.self
        /\ t.made = s.made /\ t.ccb = s.ccb /\ t.lcid_mcb = s.lcid_mcb
  <2>1. u.mx.is_initiator = TRUE
    BY <1>1, <1>2, MxMembers
  <2>2. /\ Utters(u, t, "SABME") /\ IsDevice(e.self, t) /\ t.mx = u.mx /\ t.self = u.self
        /\ t.made = u.made /\ t.ccb = u.ccb /\ t.lcid_mcb = u.lcid_mcb
    BY <1>1, <1>5, MxFrameSent
  <2> HIDE DEF t
  <2> QED
    BY <1>2, <2>1, <2>2 DEF Utters
<1> HIDE DEF t
<1>7. View(s)[k] = "READY" /\ View(t)[k] = "SABME_WAIT_UA"
  BY <1>2, <1>4, <1>6 DEF View, Status, Live
<1>8. SameBut(View(s), View(t), k)
  BY <1>2, <1>4, <1>6 DEF View, Status, Live, SameBut
<1>9. Fine(e, t)
  <2>1. f.initiator <=> k[1] = e.self
    BY <1>4, <1>6
  <2>2. t.out = Append(s.out, f) /\ Is(f, "SABME", k)
    BY <1>6
  <2> HIDE DEF k
  <2> QED
    BY <1>4, <1>7, <1>8, <2>1, <2>2, GreetsFine DEF k
<1>10. Tidy(t)
  <2>1. Role(t) /\ Unopened(t) /\ Settled(t) /\ Watch(t)
    BY <1>2, <1>6 DEF Role, Unopened, Settled, Watch, Stray
  <2>2. Placed(t)
    BY <1>2, <1>6 DEF Placed
  <2>3. Aside(t)
    BY <1>2, <1>6 DEF Aside
  <2> QED
    BY <2>1, <2>2, <2>3 DEF Tidy, Neat
<1> QED
  BY <1>3, <1>6, <1>9, <1>10 DEF Good

-----------------------------------------------------------------------------
(* The channel kept aside is used after all *)

\* What a swap of directions leaves alone, and the DLCI that it frees.
LEMMA SwapDirectionsMore ==
  ASSUME NEW p, NEW s, IsDevice(p, s)
  PROVE  LET t == rfc_mx_swap_directions(s)
         IN  /\ t.self = s.self /\ t.out = s.out
             /\ s.mx.is_initiator => t.port_handles[2] = NoHandle
<1>1. /\ s \in Device(p) /\ s.port_handles \in [Dlcis -> AnyHandle] /\ 2 \in Dlcis
  BY Members DEF IsDevice, Dlcis
<1>2. rfc_mx_swap_directions(s).self = s.self /\ rfc_mx_swap_directions(s).out = s.out
  BY <1>1 DEF rfc_mx_swap_directions, Device
<1>3. ASSUME s.mx.is_initiator PROVE rfc_mx_swap_directions(s).port_handles[2] = NoHandle
  <2>1. CASE s.port_handles[2] = NoHandle
    BY <1>1, <1>3, <2>1 DEF rfc_mx_swap_directions, Device
  <2>2. CASE s.port_handles[2] # NoHandle
    <3> DEFINE x == s.port_handles[2]
    <3>1. rfc_mx_swap_directions(s) =
            [[s EXCEPT !.mx.is_initiator = ~s.mx.is_initiator] EXCEPT
               !.port_handles[2] = NoHandle, !.port_handles[3] = x,
               !.port[x].dlci = s.port[x].dlci + (3 - 2)]
      BY <1>1, <1>3, <2>2 DEF rfc_mx_swap_directions, Device
    <3> QED
      BY <1>1, <3>1 DEF Device
  <2> QED
    BY <2>1, <2>2
<1> QED
  BY <1>2, <1>3

\* What forgetting the channel kept aside leaves alone.
LEMMA ForgetCachedIs ==
  ASSUME NEW p, NEW s, IsDevice(p, s)
  PROVE  LET t == ForgetCached(s)
         IN  /\ IsDevice(p, t) /\ t.self = s.self /\ t.made = s.made /\ t.ccb = s.ccb
             /\ t.out = s.out /\ t.lcid_mcb = s.lcid_mcb /\ t.port_handles = s.port_handles
             /\ t.port = s.port
             /\ t.mx.state = s.mx.state /\ t.mx.lcid = s.mx.lcid /\ t.mx.timer = s.mx.timer
             /\ t.mx.is_initiator = s.mx.is_initiator
             /\ t.mx.is_disc_initiator = s.mx.is_disc_initiator
             /\ t.mx.collision_outgoing_lcid = NoChannel
             /\ t.mx.collision_outgoing_conn_cnf = FALSE
             /\ t.mx.collision_outgoing_cfg_complete = FALSE
<1>1. IsDevice(p, ForgetCached(s))
  BY ForgetCachedKeeps
<1> QED
  BY <1>1 DEF ForgetCached, IsDevice, Device, Mx

\* The multiplexer of s takes to the channel kept aside: v, where u is s without
\* its channel.
Retried(s, u, v) ==
  /\ v.self = u.self /\ v.made = u.made /\ v.ccb = u.ccb /\ v.out = u.out
  /\ s.mx.collision_outgoing_lcid \in v.lcid_mcb
  /\ v.mx.lcid = s.mx.collision_outgoing_lcid
  /\ v.mx.is_initiator = ~s.mx.is_initiator
  /\ v.mx.is_disc_initiator = s.mx.is_disc_initiator
  /\ v.mx.collision_outgoing_lcid = NoChannel
  /\ v.mx.collision_outgoing_conn_cnf = FALSE
  /\ v.mx.collision_outgoing_cfg_complete = FALSE
  /\ v.mx.state = IF s.mx.collision_outgoing_conn_cnf THEN "CONFIGURE" ELSE "WAIT_CONN_CNF"

\* The steps of rfc_mx_retry_with_cached_lcid.
LEMMA RetryIs ==
  ASSUME NEW p, NEW s, IsDevice(p, s), s.mx.collision_outgoing_lcid # NoChannel
  PROVE  LET u == L2CA_DisconnectReq(s, s.mx.lcid)
             t == rfc_mx_retry_with_cached_lcid(s)
         IN  \E v : /\ IsDevice(p, v) /\ Retried(s, u, v)
                    /\ s.mx.collision_outgoing_cfg_complete => t = rfc_mx_conf_cnf(v)
                    /\ ~s.mx.collision_outgoing_cfg_complete => t = v
<1> DEFINE k == s.mx.collision_outgoing_lcid
           u == L2CA_DisconnectReq(s, s.mx.lcid)
           mcbs == (u.lcid_mcb \ {s.mx.lcid}) \cup {k}
           s2 == [u EXCEPT !.lcid_mcb = mcbs, !.mx.lcid = k]
           s3 == ForgetCached(s2)
           s4 == rfc_mx_swap_directions(s3)
           state == IF s.mx.collision_outgoing_conn_cnf THEN "CONFIGURE" ELSE "WAIT_CONN_CNF"
           v == [s4 EXCEPT !.mx.state = state]
<1>1. k \in Channels /\ k \in AnyChannel /\ state \in MxStates
  BY MxMembers DEF AnyChannel, MxStates
<1>2. IsDevice(p, u) /\ u.mx = s.mx
  <2>1. CASE s.mx.lcid \in Channels
    BY <2>1, DisconnectReqDrops
  <2>2. CASE s.mx.lcid \notin Channels
    BY <2>2 DEF L2CA_DisconnectReq
  <2> QED
    BY <2>1, <2>2
<1>3. /\ s.mx.collision_outgoing_cfg_complete =>
           rfc_mx_retry_with_cached_lcid(s) = rfc_mx_conf_cnf(v)
      /\ ~s.mx.collision_outgoing_cfg_complete => rfc_mx_retry_with_cached_lcid(s) = v
  BY DEF rfc_mx_retry_with_cached_lcid
<1> HIDE DEF u, state
<1>4. mcbs \in SUBSET Channels /\ k \in mcbs
  BY <1>1, <1>2, Members
<1> HIDE DEF mcbs, k
<1>5. IsDevice(p, s2)
  BY <1>1, <1>2, <1>4, SetLcidMcb, SetLcid
<1>6. /\ s2.self = u.self /\ s2.made = u.made /\ s2.ccb = u.ccb /\ s2.out = u.out
      /\ s2.lcid_mcb = mcbs /\ s2.mx.lcid = k /\ s2.mx.is_initiator = s.mx.is_initiator
      /\ s2.mx.is_disc_initiator = s.mx.is_disc_initiator
  BY <1>2 DEF IsDevice, Device, Mx
<1> HIDE DEF s2
<1>7. /\ IsDevice(p, s3) /\ s3.self = u.self /\ s3.made = u.made /\ s3.ccb = u.ccb
      /\ s3.out = u.out /\ s3.lcid_mcb = mcbs /\ s3.mx.lcid = k
      /\ s3.mx.is_initiator = s.mx.is_initiator
      /\ s3.mx.is_disc_initiator = s.mx.is_disc_initiator
      /\ s3.mx.collision_outgoing_lcid = NoChannel
      /\ s3.mx.collision_outgoing_conn_cnf = FALSE
      /\ s3.mx.collision_outgoing_cfg_complete = FALSE
  <2>1. /\ IsDevice(p, s3) /\ s3.self = s2.self /\ s3.made = s2.made /\ s3.ccb = s2.ccb
        /\ s3.out = s2.out /\ s3.lcid_mcb = s2.lcid_mcb /\ s3.mx.lcid = s2.mx.lcid
        /\ s3.mx.is_initiator = s2.mx.is_initiator
        /\ s3.mx.is_disc_initiator = s2.mx.is_disc_initiator
        /\ s3.mx.collision_outgoing_lcid = NoChannel
        /\ s3.mx.collision_outgoing_conn_cnf = FALSE
        /\ s3.mx.collision_outgoing_cfg_complete = FALSE
    BY <1>5, ForgetCachedIs, ZenonT(60)
  <2> HIDE DEF s3
  <2> QED
    BY <1>6, <2>1
<1> HIDE DEF s3
<1>8. /\ IsDevice(p, s4) /\ s4.self = s3.self /\ s4.made = s3.made /\ s4.ccb = s3.ccb
      /\ s4.out = s3.out /\ s4.lcid_mcb = s3.lcid_mcb
      /\ s4.mx = [s3.mx EXCEPT !.is_initiator = ~s3.mx.is_initiator]
  BY <1>7, SwapDirectionsKeeps, SwapDirectionsMore
<1> HIDE DEF s4
<1>9. IsDevice(p, v)
  BY <1>1, <1>8, SetState
<1>10. /\ v.self = s3.self /\ v.made = s3.made /\ v.ccb = s3.ccb /\ v.out = s3.out
       /\ v.lcid_mcb = s3.lcid_mcb
       /\ v.mx = [s4.mx EXCEPT !.state = state]
  BY <1>8 DEF IsDevice, Device
<1> HIDE DEF v
<1>11. /\ v.mx.lcid = k /\ v.mx.is_initiator = ~s.mx.is_initiator
       /\ v.mx.is_disc_initiator = s.mx.is_disc_initiator
       /\ v.mx.collision_outgoing_lcid = NoChannel
       /\ v.mx.collision_outgoing_conn_cnf = FALSE
       /\ v.mx.collision_outgoing_cfg_complete = FALSE
       /\ v.mx.state = state
  BY <1>7, <1>8, <1>10 DEF IsDevice, Device, Mx
<1> QED
  <2>1. Retried(s, u, v)
    BY <1>4, <1>7, <1>10, <1>11 DEF Retried, k, state
  <2> QED
    BY <1>3, <1>9, <2>1 DEF u

\* The multiplexer takes to the channel kept aside.
LEMMA RetryGood ==
  ASSUME NEW e, IsEnv(e), NEW s, IsDevice(e.self, s), Neat(s), Fine(e, s), Settled(s),
         s.mx.state = "WAIT_SABME", s.mx.collision_outgoing_lcid # NoChannel
  PROVE  Good(e, rfc_mx_retry_with_cached_lcid([s EXCEPT !.mx.state = "IDLE"]))
<1> DEFINE s0 == [s EXCEPT !.mx.state = "IDLE"]
           k == s.mx.collision_outgoing_lcid
           u == L2CA_DisconnectReq(s0, s.mx.lcid)
           t == rfc_mx_retry_with_cached_lcid(s0)
<1>1. /\ IsDevice(e.self, u) /\ Fine(e, u) /\ Shut(u) /\ SameMx(s, u) /\ u.mx.state = "IDLE"
      /\ Drops(s, u, s.mx.lcid)
  BY IdleDropped
<1>2. IsDevice(e.self, s0) /\ SameMx(s, s0)
  BY Idled
<1> HIDE DEF s0
<1>3. s0.mx.lcid = s.mx.lcid /\ s0.mx.collision_outgoing_lcid = k
  BY <1>2 DEF SameMx
<1>4. PICK v :
        /\ IsDevice(e.self, v) /\ Retried(s0, u, v)
        /\ s0.mx.collision_outgoing_cfg_complete => t = rfc_mx_conf_cnf(v)
        /\ ~s0.mx.collision_outgoing_cfg_complete => t = v
  <2>1. s0.mx.collision_outgoing_lcid # NoChannel
    BY <1>3
  <2>2. u = L2CA_DisconnectReq(s0, s0.mx.lcid)
    BY <1>3
  <2> HIDE DEF u
  <2> QED
    BY <1>2, <2>1, <2>2, RetryIs
<1>a. /\ IsDevice(e.self, v) /\ v.self = u.self /\ v.made = u.made /\ v.ccb = u.ccb
      /\ v.out = u.out /\ k \in v.lcid_mcb /\ v.mx.lcid = k
      /\ v.mx.is_initiator = ~s.mx.is_initiator
      /\ v.mx.is_disc_initiator = s.mx.is_disc_initiator
      /\ v.mx.collision_outgoing_lcid = NoChannel
      /\ v.mx.collision_outgoing_conn_cnf = FALSE
      /\ v.mx.collision_outgoing_cfg_complete = FALSE
      /\ v.mx.state = IF s.mx.collision_outgoing_conn_cnf THEN "CONFIGURE" ELSE "WAIT_CONN_CNF"
      /\ s.mx.collision_outgoing_cfg_complete => t = rfc_mx_conf_cnf(v)
      /\ ~s.mx.collision_outgoing_cfg_complete => t = v
  <2> HIDE DEF u, t
  <2> QED
    BY <1>2, <1>4 DEF Retried, SameMx
<1> HIDE DEF u, t
<1>5. /\ k[1] = s.self /\ s.ccb[k] # "CLOSED" /\ k \in Channels /\ NoChannel \notin Channels
      /\ s.mx.collision_outgoing_conn_cnf <=> s.ccb[k] = "OPEN"
      /\ s.mx.collision_outgoing_cfg_complete <=> s.ccb[k] = "OPEN"
      /\ s.mx.lcid[1] # s.self /\ s.mx.lcid \in Channels
      /\ s.self = e.self
  BY MxMembers, Members, TidyFree, NoChannelOut DEF Neat, Aside, Placed, AnyChannel
<1>6. s.ccb \in [Channels -> CcbStates] /\ u.ccb \in [Channels -> CcbStates]
  BY <1>1, Members
<1>7. v.ccb[k] = s.ccb[k]
  BY <1>1, <1>a, <1>5, <1>6 DEF Drops
<1>8. View(v) = View(u)
  <2>1. \A c \in Channels : Live(u, c) <=> c = k
    BY <1>1, <1>5 DEF Live, SameMx
  <2>2. \A c \in Channels : Live(v, c) <=> c = k
    BY <1>a, <1>5 DEF Live
  <2>3. \A c \in Channels : Status(v, c) = Status(u, c)
    BY <1>1, <1>a, <2>1, <2>2 DEF Status
  <2> QED
    BY <2>3 DEF View
<1>9. Fine(e, v)
  <2>1. Sent(e, v) = Sent(e, u) /\ v.out = u.out
    BY <1>a DEF Sent
  <2> QED
    BY <1>1, <1>8, <2>1 DEF Fine
<1>10. /\ v.mx.is_initiator /\ Settled(v) /\ Unopened(v) /\ Aside(v) /\ Role(v)
       /\ v.self = s.self
  <2>1. ~s.mx.is_initiator
    BY <1>5 DEF Neat, Role
  <2>2. v.self = s.self /\ Settled(v) /\ Unopened(v)
    BY <1>1, <1>a DEF Settled, Shut, Unopened, Drops
  <2>3. Aside(v)
    BY <1>a DEF Aside
  <2> QED
    BY <1>a, <1>5, <2>1, <2>2, <2>3 DEF Role
<1>11. CASE s.ccb[k] = "OPEN"
  <2>1. t = rfc_mx_conf_cnf(v) /\ v.mx.state = "CONFIGURE"
    BY <1>a, <1>5, <1>11
  <2>2. v.mx.lcid \in v.lcid_mcb /\ v.mx.lcid[1] = v.self /\ v.ccb[v.mx.lcid] = "OPEN"
    BY <1>a, <1>5, <1>7, <1>10, <1>11
  <2>3. Good(e, rfc_mx_conf_cnf(v))
    BY <1>a, <1>9, <1>10, <2>1, <2>2, GreetGood
  <2> QED
    BY <2>1, <2>3 DEF t, s0
<1>12. CASE s.ccb[k] # "OPEN"
  <2>1. t = v /\ v.mx.state = "WAIT_CONN_CNF" /\ v.ccb[k] \in {"W4_CONNECT_RSP", "CONFIG"}
    BY <1>a, <1>5, <1>6, <1>7, <1>12 DEF CcbStates
  <2>2. Placed(v)
    BY <1>a, <1>5, <1>10, <2>1 DEF Placed
  <2>3. Watch(v)
    BY <2>1 DEF Watch, Stray
  <2>4. Good(e, v)
    BY <1>a, <1>9, <1>10, <2>2, <2>3 DEF Good, Tidy, Neat
  <2> QED
    BY <2>1, <2>4 DEF t, s0
<1> QED
  BY <1>11, <1>12

\* The channel of the other device is given up.
LEMMA GiveUpIncomingGood ==
  ASSUME NEW e, IsEnv(e), NEW s, IsDevice(e.self, s), Neat(s), Fine(e, s), Settled(s),
         s.mx.state = "WAIT_SABME"
  PROVE  Good(e, GiveUpIncoming(s))
BY RetryGood, GiveUpGood DEF GiveUpIncoming

-----------------------------------------------------------------------------
(* A new channel *)

NextChannel(s) == <<s.self, s.made + 1>>
ConnReq(c) == [k |-> "CONN_REQ", c |-> c, d |-> 0, initiator |-> FALSE]

\* The device asks for a channel.
Asks(s, t) ==
  /\ t.self = s.self /\ t.made = s.made + 1
  /\ t.ccb = [s.ccb EXCEPT ![NextChannel(s)] = "W4_CONNECT_RSP"]
  /\ t.out = Append(s.out, ConnReq(NextChannel(s)))

\* L2CA_ConnectReq asks for the next channel.
LEMMA ConnectReqAsks ==
  ASSUME NEW p \in Peers, NEW s, IsDevice(p, s), s.made < MaxChannels
  PROVE  LET t == L2CA_ConnectReq(s)
         IN  /\ IsDevice(p, t) /\ Asks(s, t) /\ NextChannel(s) \in Channels
             /\ <<s.self, t.made>> = NextChannel(s)
             /\ t.mx = s.mx /\ t.lcid_mcb = s.lcid_mcb
<1>1. IsDevice(p, L2CA_ConnectReq(s)) /\ NextChannel(s) \in Channels
  <2>1. s.self = p /\ s.made \in Nat /\ s.made + 1 \in 1 .. MaxChannels
    BY Members, BoundsAssumption
  <2> QED
    BY <2>1, ConnectReqKeeps DEF NextChannel, Channels
<1>2. s \in Device(p)
  BY DEF IsDevice
<1> QED
  BY <1>1, <1>2 DEF L2CA_ConnectReq, Signal, Asks, NextChannel, ConnReq, Device

\* A multiplexer without a channel starts on a new one.
LEMMA OpensGood ==
  ASSUME NEW e, IsEnv(e), NEW s, IsDevice(e.self, s), Fine(e, s), Shut(s),
         s.mx.collision_outgoing_lcid = NoChannel,
         NEW t, IsDevice(e.self, t), Asks(s, t), NextChannel(s) \in Channels,
         t.mx.lcid = NextChannel(s), t.mx.lcid \in t.lcid_mcb, t.mx.state = "WAIT_CONN_CNF",
         t.mx.is_initiator, t.mx.collision_outgoing_lcid = NoChannel, Aside(t), Settled(t)
  PROVE  Good(e, t)
<1> DEFINE k == NextChannel(s)
<1>1. /\ s.self = e.self /\ s.made \in Nat /\ s.out \in Seq(Frame)
      /\ s.ccb \in [Channels -> CcbStates] /\ NoChannel \notin Channels
  BY Members, NoChannelOut, BoundsAssumption
<1>2. k[1] = s.self /\ k[2] = s.made + 1 /\ k \in Channels
  BY DEF NextChannel
<1>a. \A c \in Channels : c[2] \in Nat
  BY BoundsAssumption DEF Channels
<1> HIDE DEF k
<1>3. s.ccb[k] = "CLOSED" /\ t.ccb[k] = "W4_CONNECT_RSP"
  BY <1>1, <1>2 DEF Shut, Unopened, Asks, k
<1>4. \A c \in Channels : c # k => t.ccb[c] = s.ccb[c]
  BY <1>1 DEF Asks, k
<1>b. \A c \in Channels : c[1] = s.self /\ c # k => (c[2] > t.made <=> c[2] > s.made)
  <2> SUFFICES ASSUME NEW c \in Channels, c[1] = s.self, c # k
               PROVE  c[2] > t.made <=> c[2] > s.made
    OBVIOUS
  <2>1. c[2] # k[2]
    BY <1>2 DEF Channels
  <2> QED
    BY <1>1, <1>2, <1>a, <2>1 DEF Asks
<1>5. /\ \A c \in Channels : Live(s, c) \/ c = s.mx.lcid => s.ccb[c] = "CLOSED"
      /\ \A c \in Channels : Live(t, c) <=> c = k
  BY <1>1 DEF Live, Shut, k
<1>6. SameBut(View(s), View(t), k)
  <2>1. \A c \in Channels : c # k => Status(t, c) = Status(s, c)
    BY <1>4, <1>5, <1>b DEF Status, Asks, k
  <2> QED
    BY <2>1 DEF SameBut, View
<1>7. View(s)[k] = "NEW" /\ View(t)[k] = "W4_LIVE"
  BY <1>1, <1>2, <1>3, <1>5 DEF View, Status
<1>8. \A b \in Channels : b[1] = e.self /\ b # k =>
        View(s)[b] \notin Using \cup {"W4_LIVE"} /\ (b[2] < k[2] \/ View(s)[b] = "NEW")
  <2> SUFFICES ASSUME NEW b \in Channels, b[1] = e.self, b # k
               PROVE  View(s)[b] \notin Using \cup {"W4_LIVE"} /\ (b[2] < k[2] \/ View(s)[b] = "NEW")
    OBVIOUS
  <2>1. View(s)[b] = Status(s, b) /\ s.ccb[b] \in CcbStates
    BY <1>1 DEF View
  <2>2. Status(s, b) \in {"NEW", "CLOSED", "W4", "CONFIG", "SPARE"}
    BY <1>5, <2>1 DEF Status, CcbStates
  <2>3. b[2] > s.made => Status(s, b) = "NEW"
    BY <1>1 DEF Status, Shut, Unopened
  <2>4. b[2] < k[2] \/ b[2] > s.made
    BY <1>1, <1>2, <1>a
  <2> QED
    BY <2>1, <2>2, <2>3, <2>4 DEF Using, Engaged
<1>9. Fine(e, t)
  <2>1. ConnReq(k) \in Frame /\ Is(ConnReq(k), "CONN_REQ", k)
    BY <1>2 DEF ConnReq, Frame, AnyFrame, Signals, Is, PortCommands, Dlcis
  <2>2. t.out = Append(s.out, ConnReq(k)) /\ k[1] = e.self
    BY <1>1, <1>2 DEF Asks, k
  <2> QED
    BY <1>1, <1>2, <1>6, <1>7, <1>8, <2>1, <2>2, OpensFine
<1>10. Unopened(t)
  <2>1. ~(k[2] > t.made)
    BY <1>1, <1>2 DEF Asks
  <2> QED
    BY <1>4, <1>b, <2>1 DEF Shut, Unopened, Asks
<1>11. Role(t) /\ Placed(t) /\ Watch(t)
  BY <1>2, <1>3 DEF Role, Placed, Watch, Stray, Asks, k
<1> QED
  BY <1>9, <1>10, <1>11 DEF Good, Tidy, Neat

-----------------------------------------------------------------------------
(* The multiplexer is disconnected *)

\* The channel of the multiplexer goes down.
LEMMA LcidDropped ==
  ASSUME NEW e, IsEnv(e), NEW s, IsDevice(e.self, s), Neat(s), Fine(e, s), s.mx.state # "IDLE"
  PROVE  LET t == L2CA_DisconnectReq(s, s.mx.lcid)
         IN  /\ IsDevice(e.self, t) /\ Fine(e, t) /\ Shut(t) /\ Drops(s, t, s.mx.lcid)
             /\ t.mx = s.mx /\ t.lcid_mcb = s.lcid_mcb /\ s.mx.lcid \in Channels
             /\ t.ccb[s.mx.lcid] = "CLOSED"
<1> DEFINE k == s.mx.lcid
           t == L2CA_DisconnectReq(s, k)
<1>1. k \in Channels /\ s.ccb \in [Channels -> CcbStates]
  BY TidyFree, Members DEF Neat
<1>2. /\ IsDevice(e.self, t) /\ Drops(s, t, k) /\ t.mx = s.mx /\ t.lcid_mcb = s.lcid_mcb
  BY <1>1, DisconnectReqDrops
<1> HIDE DEF t
<1>3. Elsewhere(s, t, k)
  BY <1>1, <1>2 DEF Elsewhere, Status, Live, Drops
<1>4. t.ccb[k] = "CLOSED" /\ Unopened(s) /\ Unopened(t)
  BY <1>1, <1>2 DEF Drops, Neat, Unopened
<1>5. Fine(e, t)
  BY <1>1, <1>2, <1>3, <1>4, DropsFine
<1>6. Shut(t)
  BY <1>2, <1>4 DEF Shut, Neat, Role, Aside, Drops
<1> QED
  BY <1>1, <1>2, <1>4, <1>5, <1>6 DEF t

\* It is released or starts again.  It may be left without a channel when there
\* is none to have.
LEMMA AfterDisconnected ==
  ASSUME NEW e, IsEnv(e), NEW s, IsDevice(e.self, s), Neat(s), Settled(s),
         s.mx.state = "DISC_WAIT_UA", NEW u, u = L2CA_DisconnectReq(s, s.mx.lcid), Fine(e, u)
  PROVE  LET t == rfc_mx_disconnected(s) IN Good(e, t) \/ Stray(t)
<1> DEFINE k == s.mx.lcid
           t == rfc_mx_disconnected(s)
<1>1. k \in Channels /\ s.ccb \in [Channels -> CcbStates] /\ NoChannel \notin Channels
  BY TidyFree, Members, NoChannelOut DEF Neat
<1>2. /\ IsDevice(e.self, u) /\ Drops(s, u, k) /\ u.mx = s.mx /\ u.lcid_mcb = s.lcid_mcb
  BY <1>1, DisconnectReqDrops
<1>3. u.ccb[k] = "CLOSED" /\ Unopened(u) /\ Shut(u)
  BY <1>1, <1>2 DEF Drops, Neat, Unopened, Shut, Role, Aside
<1>4. /\ s.mx.collision_outgoing_lcid = NoChannel /\ ~s.mx.collision_outgoing_conn_cnf
      /\ ~s.mx.collision_outgoing_cfg_complete /\ s.made \in 0 .. MaxChannels
      /\ e.self \in Peers /\ u.made = s.made
  BY <1>2, Members DEF Neat, Aside, IsEnv, Drops
<1>5. CASE ~s.mx.restart_required
  <2>1. t = rfc_release_multiplexer_channel(u)
    BY <1>5 DEF rfc_mx_disconnected
  <2> QED
    BY <1>2, <1>3, <2>1, ReleaseGood
<1>6. CASE s.mx.restart_required /\ s.made = MaxChannels
  <2> DEFINE mcbs == u.lcid_mcb \ {k}
             w == [u EXCEPT !.lcid_mcb = mcbs, !.mx.lcid = NoChannel]
  <2>1. t = PORT_StartCnf(w, FALSE)
    BY <1>6 DEF rfc_mx_disconnected
  <2>2. IsDevice(e.self, w)
    <3>1. mcbs \in SUBSET Channels /\ NoChannel \in AnyChannel
      BY <1>2, Members DEF AnyChannel
    <3> HIDE DEF mcbs
    <3> QED
      BY <1>2, <3>1, SetLcidMcb, SetLcid
  <2>3. /\ w.mx.lcid = NoChannel /\ w.mx.state = s.mx.state /\ w.self = u.self
        /\ w.mx.collision_outgoing_lcid = NoChannel /\ w.made = u.made /\ w.ccb = u.ccb
        /\ w.out = u.out /\ w.mx.restart_required = u.mx.restart_required
    BY <1>2, <1>4 DEF IsDevice, Device, Mx
  <2> HIDE DEF w, t
  <2>4. Shut(w) /\ Stray(w)
    BY <1>1, <1>2, <1>3, <1>4, <1>6, <2>3 DEF Shut, Role, Stray, Unopened
  <2>5. View(w) = View(u)
    <3>1. \A c \in Channels : Status(w, c) = Status(u, c)
      BY <1>1, <1>2, <1>3, <1>4, <2>3 DEF Status, Live
    <3> QED
      BY <3>1 DEF View
  <2>6. Fine(e, w)
    <3>1. Sent(e, w) = Sent(e, u)
      BY <2>3 DEF Sent
    <3> QED
      BY <2>3, <2>5, <3>1 DEF Fine
  <2> QED
    BY <2>1, <2>2, <2>4, <2>6, RestartFailed DEF t
<1>7. CASE s.mx.restart_required /\ s.made # MaxChannels
  <2> DEFINE v == L2CA_ConnectReq(u)
             c == <<s.self, v.made>>
             mcbs == v.lcid_mcb \cup {c}
             w == [v EXCEPT !.mx.lcid = c, !.lcid_mcb = mcbs, !.mx.timer = "INIT",
                            !.mx.is_initiator = TRUE, !.mx.restart_required = FALSE,
                            !.mx.state = "WAIT_CONN_CNF"]
  <2>1. t = w
    BY <1>7 DEF rfc_mx_disconnected
  <2>2. u.made < MaxChannels
    BY <1>4, <1>7, BoundsAssumption
  <2>3. /\ IsDevice(e.self, v) /\ Asks(u, v) /\ NextChannel(u) \in Channels
        /\ <<u.self, v.made>> = NextChannel(u) /\ v.mx = u.mx /\ v.lcid_mcb = u.lcid_mcb
    BY <1>2, <1>4, <2>2, ConnectReqAsks
  <2>4. c = NextChannel(u) /\ c \in Channels
    BY <1>2, <2>3 DEF Drops
  <2> HIDE DEF v, c
  <2>5. mcbs \in SUBSET Channels /\ c \in mcbs /\ c \in AnyChannel
    BY <2>3, <2>4, Members DEF AnyChannel
  <2> HIDE DEF mcbs
  <2>6. IsDevice(e.self, w)
    BY <1>4, <2>1, DisconnectedKeeps
  <2>7. /\ w.mx.lcid = c /\ w.lcid_mcb = mcbs /\ w.mx.is_initiator
        /\ w.mx.state = "WAIT_CONN_CNF" /\ w.self = v.self /\ w.made = v.made /\ w.ccb = v.ccb
        /\ w.out = v.out
        /\ w.mx.is_disc_initiator = v.mx.is_disc_initiator
        /\ w.mx.collision_outgoing_lcid = v.mx.collision_outgoing_lcid
        /\ w.mx.collision_outgoing_conn_cnf = v.mx.collision_outgoing_conn_cnf
        /\ w.mx.collision_outgoing_cfg_complete = v.mx.collision_outgoing_cfg_complete
    BY <2>3 DEF IsDevice, Device, Mx
  <2> HIDE DEF w, t
  <2>8. Asks(u, w) /\ w.mx.lcid \in w.lcid_mcb /\ w.mx.lcid = NextChannel(u)
    BY <2>3, <2>4, <2>5, <2>7 DEF Asks
  <2>9. w.mx.collision_outgoing_lcid = NoChannel /\ Aside(w) /\ Settled(w)
    BY <1>2, <1>4, <2>3, <2>7 DEF Aside, Settled
  <2>10. Good(e, w)
    BY <1>2, <1>3, <1>4, <2>3, <2>6, <2>7, <2>8, <2>9, OpensGood
  <2> QED
    BY <2>1, <2>10 DEF t
<1> QED
  BY <1>5, <1>6, <1>7

-----------------------------------------------------------------------------
(* The timer of the multiplexer *)

\* Without its timer a multiplexer is as neat.
LEMMA StoppedNeat ==
  ASSUME NEW e, NEW s, Good(e, s)
  PROVE  LET t == [s EXCEPT !.mx.timer = "NONE"]
         IN  /\ IsDevice(e.self, t) /\ Neat(t) /\ Fine(e, t) /\ Settled(t)
             /\ t.mx.state = s.mx.state /\ t.mx.lcid = s.mx.lcid
             /\ t.mx.is_initiator = s.mx.is_initiator
             /\ s.mx.state # "WAIT_SABME" => Good(e, t)
<1> DEFINE t == [s EXCEPT !.mx.timer = "NONE"]
<1>1. IsDevice(e.self, s) /\ Fine(e, s) /\ Tidy(s)
  BY DEF Good
<1>2. IsDevice(e.self, t)
  BY <1>1, SetMxTimer DEF MxTimers
<1>3. Kept(s, t) /\ t.out = s.out /\ t.mx.is_disc_initiator = s.mx.is_disc_initiator
      /\ t.mx.state = s.mx.state
  BY <1>1 DEF IsDevice, Device, Mx, Kept
<1> HIDE DEF t
<1>4. Neat(t) /\ Settled(t)
  BY <1>1, <1>3, NeatKept DEF Tidy, Settled
<1>5. View(t) = View(s)
  BY <1>3, SameView DEF Kept
<1>6. Fine(e, t)
  <2>1. Sent(e, t) = Sent(e, s)
    BY <1>3 DEF Sent
  <2> QED
    BY <1>1, <1>3, <1>5, <2>1 DEF Fine
<1>7. ASSUME s.mx.state # "WAIT_SABME" PROVE Watch(t)
  <2>1. ~Stray(t)
    BY <1>2, <1>4, TidyFree DEF Neat
  <2> QED
    BY <1>1, <1>3, <1>7, <2>1 DEF Watch, Tidy, Kept
<1> QED
  BY <1>2, <1>3, <1>4, <1>6, <1>7 DEF Good, Tidy, Kept, t

\* The channel that the device opened is given up while it waits for UA.
LEMMA StartFailedOver ==
  ASSUME NEW e, IsEnv(e), NEW s, IsDevice(e.self, s), Neat(s), Fine(e, s), Settled(s),
         s.mx.state = "SABME_WAIT_UA"
  PROVE  Good(e, StartFailed(s))
<1> DEFINE t == L2CA_DisconnectReq([s EXCEPT !.mx.state = "IDLE"], s.mx.lcid)
<1>1. IsDevice(e.self, t) /\ Fine(e, t) /\ Shut(t) /\ SameMx(s, t) /\ t.mx.state = "IDLE"
  BY IdleDropped
<1>2. s.mx.is_initiator /\ s.mx.collision_outgoing_lcid = NoChannel
  <2>1. s.mx.lcid # NoChannel
    BY TidyFree, NoChannelOut DEF Neat
  <2> QED
    BY <2>1 DEF Neat, Placed, Role, Aside
<1>3. StartFailed(s) = PORT_StartCnf(t, FALSE)
  BY DEF StartFailed
<1> HIDE DEF t
<1> QED
  BY <1>1, <1>2, <1>3, AfterStartFailed

\* The timer of the multiplexer runs out, in whichever state.
LEMMA MxTimeoutGood ==
  ASSUME NEW e, IsEnv(e), NEW s, Good(e, s)
  PROVE  LET t == rfc_mx_timeout([s EXCEPT !.mx.timer = "NONE"]) IN Good(e, t) \/ Stray(t)
<1> DEFINE u == [s EXCEPT !.mx.timer = "NONE"]
           t == rfc_mx_timeout(u)
<1>1. /\ IsDevice(e.self, u) /\ Neat(u) /\ Fine(e, u) /\ Settled(u)
      /\ u.mx.state # "WAIT_SABME" => Good(e, u)
  BY StoppedNeat
<1> HIDE DEF u
<1>2. u.mx.state \in MxStates /\ u.mx.state # "CONFIGURE"
  BY <1>1, MxMembers DEF Neat, Placed
<1>3. CASE u.mx.state = "WAIT_CONN_CNF"
  <2>1. t = GiveUp(u)
    BY <1>3 DEF rfc_mx_timeout
  <2> QED
    BY <1>1, <1>3, <2>1, GiveUpGood DEF u
<1>4. CASE u.mx.state = "SABME_WAIT_UA"
  <2>1. t = StartFailed(u)
    BY <1>4 DEF rfc_mx_timeout
  <2> QED
    BY <1>1, <1>4, <2>1, StartFailedOver DEF u
<1>5. CASE u.mx.state = "WAIT_SABME"
  <2>1. t = GiveUpIncoming(u)
    BY <1>5 DEF rfc_mx_timeout
  <2> QED
    BY <1>1, <1>5, <2>1, GiveUpIncomingGood DEF u
<1>6. CASE u.mx.state = "CONNECTED"
  <2>1. t = rfc_mx_close_req(u) /\ Good(e, u)
    BY <1>1, <1>6 DEF rfc_mx_timeout
  <2>2. Good(e, rfc_mx_close_req(u))
    BY <1>1, <2>1, CloseReqKeeps, CloseReqCalm, CalmGood
  <2> QED
    BY <2>1, <2>2 DEF u
<1>7. CASE u.mx.state = "DISC_WAIT_UA"
  <2>1. t = rfc_mx_disconnected(u)
    BY <1>7 DEF rfc_mx_timeout
  <2>2. Fine(e, L2CA_DisconnectReq(u, u.mx.lcid))
    BY <1>1, <1>7, LcidDropped
  <2> QED
    BY <1>1, <1>7, <2>1, <2>2, AfterDisconnected DEF u
<1>8. CASE u.mx.state = "IDLE"
  <2>1. t = u /\ Good(e, u)
    BY <1>1, <1>8 DEF rfc_mx_timeout
  <2> QED
    BY <2>1 DEF u
<1> QED
  BY <1>2, <1>3, <1>4, <1>5, <1>6, <1>7, <1>8 DEF MxStates

-----------------------------------------------------------------------------
(* A port is opened *)

\* An idle multiplexer is made anew.
LEMMA AllocFresh ==
  ASSUME NEW e, NEW s, Good(e, s), NEW b \in BOOLEAN, s.mx.state = "IDLE"
  PROVE  LET t == rfc_alloc_multiplexer_channel(s, b)
         IN  /\ IsDevice(e.self, t) /\ View(t) = View(s) /\ Fine(e, t) /\ Shut(t) /\ Aside(t)
             /\ Settled(t) /\ t.mx.state = "IDLE" /\ t.mx.lcid = NoChannel
             /\ t.mx.collision_outgoing_lcid = NoChannel /\ t.mx.is_initiator = b
             /\ t.port = s.port /\ t.port_handles[2] = NoHandle /\ t.lcid_mcb = s.lcid_mcb
             /\ t.self = s.self /\ t.made = s.made /\ t.ccb = s.ccb /\ t.out = s.out
<1> DEFINE t == rfc_alloc_multiplexer_channel(s, b)
           m == [IdleMx EXCEPT !.is_initiator = b, !.timer = "INIT"]
           none == [d \in Dlcis |-> NoHandle]
<1>1. IsDevice(e.self, s) /\ Fine(e, s) /\ Tidy(s)
  BY DEF Good
<1>2. IsDevice(e.self, t) /\ t.port = s.port /\ t.lcid_mcb = s.lcid_mcb
  BY <1>1, AllocKeeps
<1>3. t = [s EXCEPT !.mx = m, !.port_handles = none]
  BY DEF rfc_alloc_multiplexer_channel
<1>4. /\ m.state = "IDLE" /\ m.lcid = NoChannel /\ m.collision_outgoing_lcid = NoChannel
      /\ m.is_initiator = b /\ ~m.is_disc_initiator /\ ~m.collision_outgoing_conn_cnf
      /\ ~m.collision_outgoing_cfg_complete /\ none[2] = NoHandle
  BY DEF IdleMx, Dlcis
<1> HIDE DEF m, none
<1>5. /\ t.mx = m /\ t.port_handles = none /\ t.self = s.self /\ t.made = s.made
      /\ t.ccb = s.ccb /\ t.out = s.out
  BY <1>1, <1>3 DEF IsDevice, Device
<1> HIDE DEF t
<1>6. Unopened(t) /\ Aside(t) /\ Settled(t) /\ Role(t)
  BY <1>1, <1>4, <1>5 DEF Tidy, Neat, Unopened, Aside, Settled, Role
<1>7. Shut(t)
  BY <1>4, <1>5, <1>6, NoChannelOut DEF Shut
<1>8. View(t) = View(s)
  <2>1. s.mx.collision_outgoing_lcid = NoChannel
    BY <1>1 DEF Tidy, Neat, Aside
  <2>2. \A c \in Channels : ~Live(s, c) /\ ~Live(t, c)
    BY <1>4, <1>5, <2>1, NoChannelOut DEF Live
  <2>3. \A c \in Channels : Status(t, c) = Status(s, c)
    BY <1>4, <1>5, <2>2 DEF Status
  <2> QED
    BY <2>3 DEF View
<1>9. Fine(e, t)
  <2>1. Sent(e, t) = Sent(e, s)
    BY <1>5 DEF Sent
  <2> QED
    BY <1>1, <1>5, <1>8, <2>1 DEF Fine
<1> QED
  BY <1>2, <1>4, <1>5, <1>6, <1>7, <1>8, <1>9 DEF t

\* The multiplexer is asked to start, on a channel of the device if it is idle.
LEMMA StartReqGood ==
  ASSUME NEW e, IsEnv(e), NEW s, Good(e, s), s.mx.state = "IDLE" => Shut(s) /\ s.mx.is_initiator
  PROVE  Good(e, rfc_mx_start_req(s))
<1> DEFINE t == rfc_mx_start_req(s)
<1>1. IsDevice(e.self, s) /\ Fine(e, s) /\ Tidy(s) /\ e.self \in Peers
  BY DEF Good, IsEnv
<1>2. s.made \in 0 .. MaxChannels /\ s.mx.state \in MxStates
  BY <1>1, Members, MxMembers
<1>3. CASE s.mx.state = "IDLE" /\ s.made < MaxChannels
  <2> DEFINE v == L2CA_ConnectReq(s)
             c == <<s.self, v.made>>
             mcbs == v.lcid_mcb \cup {c}
             w == [v EXCEPT !.mx.lcid = c, !.lcid_mcb = mcbs, !.mx.state = "WAIT_CONN_CNF"]
  <2>1. t = w
    <3>1. s.made # MaxChannels
      BY <1>2, <1>3, BoundsAssumption
    <3> QED
      BY <1>3, <3>1 DEF rfc_mx_start_req
  <2>2. /\ IsDevice(e.self, v) /\ Asks(s, v) /\ NextChannel(s) \in Channels
        /\ c = NextChannel(s) /\ v.mx = s.mx /\ v.lcid_mcb = s.lcid_mcb
    <3>1. /\ IsDevice(e.self, v) /\ Asks(s, v) /\ NextChannel(s) \in Channels
          /\ <<s.self, v.made>> = NextChannel(s) /\ v.mx = s.mx /\ v.lcid_mcb = s.lcid_mcb
      BY <1>1, <1>3, ConnectReqAsks
    <3> QED
      BY <3>1
  <2>3. IsDevice(e.self, w)
    BY <1>1, <2>1, StartReqKeeps
  <2> HIDE DEF v, c
  <2>4. c \in mcbs
    OBVIOUS
  <2> HIDE DEF mcbs
  <2>5. /\ w.mx.lcid = c /\ w.lcid_mcb = mcbs /\ w.mx.state = "WAIT_CONN_CNF"
        /\ w.self = v.self /\ w.made = v.made /\ w.ccb = v.ccb /\ w.out = v.out
        /\ w.mx.is_initiator = s.mx.is_initiator
        /\ w.mx.is_disc_initiator = s.mx.is_disc_initiator
        /\ w.mx.collision_outgoing_lcid = s.mx.collision_outgoing_lcid
        /\ w.mx.collision_outgoing_conn_cnf = s.mx.collision_outgoing_conn_cnf
        /\ w.mx.collision_outgoing_cfg_complete = s.mx.collision_outgoing_cfg_complete
    BY <2>2 DEF IsDevice, Device, Mx
  <2> HIDE DEF w, t
  <2>6. /\ Asks(s, w) /\ w.mx.lcid \in w.lcid_mcb /\ w.mx.lcid = NextChannel(s)
        /\ w.mx.is_initiator
    BY <1>3, <2>2, <2>4, <2>5 DEF Asks
  <2>7. s.mx.collision_outgoing_lcid = NoChannel
    BY <1>1, <1>3 DEF Tidy, Neat, Aside
  <2>8. w.mx.collision_outgoing_lcid = NoChannel /\ Aside(w) /\ Settled(w)
    BY <1>1, <2>5, <2>7 DEF Tidy, Neat, Aside, Settled
  <2>9. Good(e, w)
    BY <1>1, <1>3, <2>2, <2>3, <2>5, <2>6, <2>7, <2>8, OpensGood
  <2> QED
    BY <2>1, <2>9 DEF t
<1>4. CASE s.mx.state = "IDLE" /\ s.made = MaxChannels
  <2>1. t = PORT_StartCnf(s, FALSE)
    BY <1>4, BoundsAssumption DEF rfc_mx_start_req
  <2> QED
    BY <1>4, <2>1, StartFailedIdle
<1>5. CASE s.mx.state = "DISC_WAIT_UA"
  <2>1. t = [s EXCEPT !.mx.restart_required = TRUE]
    BY <1>5 DEF rfc_mx_start_req
  <2>2. IsDevice(e.self, t)
    BY <1>1, StartReqKeeps
  <2>3. /\ t.self = s.self /\ t.made = s.made /\ t.ccb = s.ccb /\ t.lcid_mcb = s.lcid_mcb
        /\ t.out = s.out /\ t.port = s.port /\ t.port_handles = s.port_handles
        /\ t.mx.state = s.mx.state
        /\ t.mx.lcid = s.mx.lcid /\ t.mx.is_initiator = s.mx.is_initiator
        /\ t.mx.is_disc_initiator = s.mx.is_disc_initiator /\ t.mx.timer = s.mx.timer
        /\ t.mx.collision_outgoing_lcid = s.mx.collision_outgoing_lcid
        /\ t.mx.collision_outgoing_conn_cnf = s.mx.collision_outgoing_conn_cnf
        /\ t.mx.collision_outgoing_cfg_complete = s.mx.collision_outgoing_cfg_complete
    BY <1>1, <2>1 DEF IsDevice, Device, Mx, SameMx
  <2> HIDE DEF t
  <2>4. Role(t) /\ Unopened(t) /\ Settled(t)
    BY <1>1, <2>3 DEF Tidy, Neat, Role, Unopened, Settled
  <2>5. Placed(t)
    BY <1>1, <2>3 DEF Tidy, Neat, Placed
  <2>6. Aside(t)
    BY <1>1, <2>3 DEF Tidy, Neat, Aside
  <2>7. Watch(t)
    BY <1>1, <2>2, <2>3, <2>5, TidyFree DEF Tidy, Watch
  <2>8. View(t) = View(s)
    BY <2>3, SameView
  <2>9. Fine(e, t)
    <3>1. Sent(e, t) = Sent(e, s)
      BY <2>3 DEF Sent
    <3> QED
      BY <1>1, <2>3, <2>8, <3>1 DEF Fine
  <2> QED
    BY <2>2, <2>4, <2>5, <2>6, <2>7, <2>9 DEF Good, Tidy, Neat, t
<1>6. CASE s.mx.state \notin {"IDLE", "DISC_WAIT_UA"}
  <2>1. t = s
    BY <1>6 DEF rfc_mx_start_req
  <2> QED
    BY <2>1
<1>7. s.made < MaxChannels \/ s.made = MaxChannels
  BY <1>2, BoundsAssumption
<1> QED
  BY <1>3, <1>4, <1>5, <1>6, <1>7

\* Leaving the multiplexer alone is good.
LEMMA UntouchedGood ==
  ASSUME NEW e, NEW s, NEW t, Good(e, s), IsDevice(e.self, t), Untouched(s, t)
  PROVE  Good(e, t)
BY UntouchedCalm, CalmGood

\* The application opens a port, in whichever state of the multiplexer.
LEMMA OpenContinueGood ==
  ASSUME NEW e, IsEnv(e), NEW s, Good(e, s), ~s.port.cl.in_use
  PROVE  Good(e, port_open_continue(s))
<1> DEFINE d == IF s.mx.state # "IDLE" /\ ~s.mx.is_initiator THEN 3 ELSE 2
           opening == [FreePort EXCEPT !.in_use = TRUE, !.state = "OPENING"]
           s0 == [s EXCEPT !.port["cl"] = opening]
           s1 == rfc_alloc_multiplexer_channel(s0, TRUE)
           s2 == Attach(s1, "cl", d)
<1>0. IsDevice(e.self, s) /\ Tidy(s) /\ e.self \in Peers
  BY DEF Good, IsEnv
<1>1. "cl" \in Handles /\ d \in Dlcis /\ TRUE \in BOOLEAN
  BY DEF Handles, Dlcis
<1>2. ~s.port["cl"].attached
  BY <1>0, <1>1, PortMembers
<1>3. opening \in Port /\ ~opening.attached /\ opening.in_use /\ opening.sm = "CLOSED"
  BY DEF FreePort, Port, PortStates, SmStates, Dlcis, Responses
<1>4. port_open_continue(s) =
        IF s2.mx.state = "CONNECTED" THEN RFCOMM_ParameterNegotiationRequest(s2, d)
        ELSE rfc_mx_start_req(s2)
  BY DEF port_open_continue
<1>a. s.mx.state = "WAIT_SABME" => d = 3
  <2>1. s.mx.state = "WAIT_SABME" => s.mx.lcid # NoChannel
    BY <1>0, TidyFree, NoChannelOut DEF Tidy, Neat
  <2> QED
    BY <1>0, <2>1 DEF Tidy, Neat, Placed, Role
<1> HIDE DEF opening, d
<1>5. /\ IsDevice(e.self, s0) /\ s0.port["cl"] = opening /\ s0.mx = s.mx
      /\ s0.self = s.self /\ s0.made = s.made /\ s0.ccb = s.ccb /\ s0.lcid_mcb = s.lcid_mcb
      /\ s0.out = s.out /\ s0.port_handles = s.port_handles
      /\ \A x \in Handles : x # "cl" => s0.port[x] = s.port[x]
  <2>1. IsDevice(e.self, s0)
    BY <1>0, <1>1, <1>2, <1>3, NotAttached, SetOnePort
  <2> QED
    BY <1>0, <1>1, <2>1 DEF IsDevice, Device
<1> HIDE DEF s0
<1>6. Good(e, s0)
  <2>1. Busy(s0) => Busy(s)
    BY <1>3, <1>5 DEF Busy
  <2>2. Untouched(s, s0)
    BY <1>5, <2>1, PortsUntouched
  <2> QED
    BY <1>5, <2>2, UntouchedGood
<1>7. IsDevice(e.self, s1) /\ s1.port["cl"] = opening
  BY <1>1, <1>5, AllocKeeps
<1>8. /\ Good(e, s1)
      /\ s1.mx.state = s.mx.state
      /\ s.mx.state = "IDLE" => Shut(s1) /\ s1.mx.is_initiator
  <2>1. CASE s.mx.state = "IDLE"
    <3>1. /\ Fine(e, s1) /\ Shut(s1) /\ Aside(s1) /\ Settled(s1) /\ s1.mx.state = "IDLE"
          /\ s1.mx.is_initiator = TRUE
      BY <1>1, <1>5, <1>6, <2>1, AllocFresh, ZenonT(60)
    <3> HIDE DEF s1
    <3>2. Good(e, s1)
      BY <1>7, <3>1, IdleGood
    <3> QED
      BY <2>1, <3>1, <3>2
  <2>2. CASE s.mx.state = "CONNECTED"
    <3>1. s1 = [s0 EXCEPT !.mx.timer = "NONE"]
      BY <1>5, <2>2 DEF rfc_alloc_multiplexer_channel
    <3> HIDE DEF s1
    <3> QED
      BY <1>5, <1>6, <2>2, <3>1, StoppedNeat
  <2>3. CASE s.mx.state \notin {"IDLE", "CONNECTED"}
    <3>1. s1 = s0
      BY <1>5, <2>3 DEF rfc_alloc_multiplexer_channel
    <3> QED
      BY <1>5, <1>6, <2>3, <3>1
  <2> QED
    BY <2>1, <2>2, <2>3
<1> HIDE DEF s1
<1>9. IsDevice(e.self, s2)
  BY <1>1, <1>3, <1>7, AttachKeeps
<1>10. Untouched(s1, s2)
  <2>1. s1.port["cl"].sm # "TERM_WAIT_SEC_CHECK" /\ (s1.mx.state # "WAIT_SABME" \/ d = 3)
    BY <1>3, <1>7, <1>8, <1>a
  <2> QED
    BY <1>1, <1>7, <2>1, AttachUntouched
<1> HIDE DEF s2
<1>11. Good(e, s2) /\ s2.mx.state = s1.mx.state
  BY <1>8, <1>9, <1>10, UntouchedGood DEF Untouched
<1>12. s2.mx.state = "IDLE" => Shut(s2) /\ s2.mx.is_initiator
  BY <1>8, <1>10, <1>11, ShutKept DEF Untouched, Kept
<1>13. Good(e, RFCOMM_ParameterNegotiationRequest(s2, d))
  BY <1>1, <1>9, <1>11, ParameterNegotiationKeeps, ParameterNegotiationCalm, CalmGood
<1>14. Good(e, rfc_mx_start_req(s2))
  BY <1>11, <1>12, StartReqGood
<1> QED
  BY <1>4, <1>13, <1>14

-----------------------------------------------------------------------------
(* A channel was lost *)

\* The same multiplexer and ports, and channel c is down.
Lost(s, t, c) ==
  /\ t.self = s.self /\ t.made = s.made /\ t.mx = s.mx /\ t.lcid_mcb = s.lcid_mcb
  /\ t.port = s.port /\ t.port_handles = s.port_handles
  /\ t.ccb = [s.ccb EXCEPT ![c] = "CLOSED"]

\* The channel kept aside: it is forgotten.
LEMMA AsideLost ==
  ASSUME NEW e, NEW s, IsDevice(e.self, s), Tidy(s), NEW c \in Channels, NEW t,
         IsDevice(e.self, t), Lost(s, t, c), Fine(e, t), c = s.mx.collision_outgoing_lcid
  PROVE  IsCached(t, c) /\ Good(e, ForgetCached(t))
<1> DEFINE u == ForgetCached(t)
<1>1. /\ s.ccb \in [Channels -> CcbStates] /\ NoChannel \notin Channels /\ c # NoChannel
      /\ s.mx.state = "WAIT_SABME" /\ s.mx.lcid \in s.lcid_mcb /\ s.mx.lcid \in Channels
      /\ s.mx.lcid # c /\ s.mx.lcid # NoChannel
  BY Members, NoChannelOut, TidyFree DEF Tidy, Neat, Aside, Placed
<1>2. IsCached(t, c)
  BY <1>1 DEF IsCached, rfc_find_lcid_mcb, Lost
<1>3. /\ IsDevice(e.self, u) /\ u.self = t.self /\ u.made = t.made /\ u.ccb = t.ccb
      /\ u.out = t.out /\ u.lcid_mcb = t.lcid_mcb /\ u.port_handles = t.port_handles
      /\ u.port = t.port
      /\ u.mx.state = t.mx.state /\ u.mx.lcid = t.mx.lcid /\ u.mx.timer = t.mx.timer
      /\ u.mx.is_initiator = t.mx.is_initiator
      /\ u.mx.is_disc_initiator = t.mx.is_disc_initiator
      /\ u.mx.collision_outgoing_lcid = NoChannel
      /\ u.mx.collision_outgoing_conn_cnf = FALSE
      /\ u.mx.collision_outgoing_cfg_complete = FALSE
  BY ForgetCachedIs, Zenon
<1> HIDE DEF u
<1>4. u.ccb[s.mx.lcid] = s.ccb[s.mx.lcid] /\ t.ccb[c] = "CLOSED"
  BY <1>1, <1>3 DEF Lost
<1>5. View(u) = View(t)
  <2>1. \A x \in Channels : x # c => (Live(u, x) <=> Live(t, x))
    BY <1>1, <1>3 DEF Live, Lost
  <2>2. \A x \in Channels : Status(u, x) = Status(t, x)
    BY <1>3, <1>4, <2>1 DEF Status
  <2> QED
    BY <2>2 DEF View
<1>6. Fine(e, u)
  <2>1. Sent(e, u) = Sent(e, t)
    BY <1>3 DEF Sent
  <2> QED
    BY <1>3, <1>5, <2>1 DEF Fine
<1>7. Role(u) /\ Settled(u) /\ Aside(u)
  BY <1>3 DEF Tidy, Neat, Role, Settled, Aside, Lost
<1>8. Unopened(u)
  BY <1>1, <1>3 DEF Tidy, Neat, Unopened, Lost
<1>9. Placed(u)
  BY <1>1, <1>3, <1>4 DEF Tidy, Neat, Placed, Lost
<1>10. Watch(u)
  BY <1>1, <1>3 DEF Tidy, Watch, Stray, Lost
<1> QED
  BY <1>2, <1>3, <1>6, <1>7, <1>8, <1>9, <1>10 DEF Good, Tidy, Neat, u

\* The channel of the multiplexer: that is idle now.
LEMMA LcidLost ==
  ASSUME NEW e, NEW s, IsDevice(e.self, s), Tidy(s), NEW c \in Channels, s.ccb[c] # "CLOSED",
         NEW t, IsDevice(e.self, t), Lost(s, t, c), Fine(e, t), c = s.mx.lcid
  PROVE  LET u == [t EXCEPT !.mx.state = "IDLE"]
         IN  /\ ~IsCached(t, c) /\ rfc_find_lcid_mcb(t, c) /\ s.mx.state # "IDLE"
             /\ IsDevice(e.self, u) /\ Fine(e, u) /\ Shut(u) /\ SameMx(s, u)
             /\ u.mx.state = "IDLE"
<1> DEFINE u == [t EXCEPT !.mx.state = "IDLE"]
<1>1. /\ s.ccb \in [Channels -> CcbStates] /\ NoChannel \notin Channels /\ c # NoChannel
  BY Members, NoChannelOut
<1>2. s.mx.state # "IDLE" /\ c \in s.lcid_mcb
  BY <1>1 DEF Tidy, Neat, Placed
<1>3. rfc_find_lcid_mcb(t, c) /\ ~IsCached(t, c)
  BY <1>2 DEF rfc_find_lcid_mcb, IsCached, Lost
<1>4. /\ IsDevice(e.self, u) /\ SameMx(t, u) /\ u.mx.state = "IDLE" /\ u.self = t.self
      /\ u.made = t.made /\ u.ccb = t.ccb /\ u.out = t.out
  BY Idled
<1> HIDE DEF u
<1>5. SameMx(s, u) /\ u.ccb[c] = "CLOSED"
  BY <1>1, <1>4 DEF SameMx, Lost
<1>6. View(u) = View(t)
  <2>1. \A x \in Channels : x # c => (Live(u, x) <=> Live(t, x))
    BY <1>4 DEF Live, Lost, SameMx
  <2>2. \A x \in Channels : Status(u, x) = Status(t, x)
    BY <1>4, <1>5, <2>1 DEF Status, Lost, SameMx
  <2> QED
    BY <2>2 DEF View
<1>7. Fine(e, u)
  <2>1. Sent(e, u) = Sent(e, t)
    BY <1>4 DEF Sent
  <2> QED
    BY <1>4, <1>6, <2>1 DEF Fine
<1>8. Shut(u)
  <2>1. Unopened(u)
    BY <1>1, <1>4 DEF Tidy, Neat, Unopened, Lost
  <2> QED
    BY <1>1, <1>4, <1>5, <2>1 DEF Tidy, Neat, Shut, Role, Aside, SameMx, Lost
<1> QED
  BY <1>2, <1>3, <1>4, <1>5, <1>7, <1>8 DEF u

\* Another channel: the multiplexer does not see to it.
LEMMA SpareLost ==
  ASSUME NEW e, NEW s, IsDevice(e.self, s), Tidy(s), NEW c \in Channels, NEW t,
         IsDevice(e.self, t), Lost(s, t, c), Fine(e, t), c # s.mx.lcid,
         c # s.mx.collision_outgoing_lcid
  PROVE  ~IsCached(t, c) /\ ~rfc_find_lcid_mcb(t, c) /\ Good(e, t)
<1>1. /\ s.ccb \in [Channels -> CcbStates] /\ NoChannel \notin Channels
      /\ s.mx.lcid \in AnyChannel /\ s.mx.collision_outgoing_lcid \in AnyChannel
      /\ s.mx.state # "IDLE" => s.mx.lcid \in Channels
  BY Members, MxMembers, NoChannelOut, TidyFree DEF Tidy, Neat
<1>2. ~IsCached(t, c) /\ ~rfc_find_lcid_mcb(t, c)
  BY DEF IsCached, rfc_find_lcid_mcb, Lost
<1>3. \A x \in Channels : x # c => t.ccb[x] = s.ccb[x]
  BY <1>1 DEF Lost
<1>4. Role(t) /\ Settled(t) /\ Unopened(t)
  BY <1>1 DEF Tidy, Neat, Role, Settled, Unopened, Lost
<1>5. Placed(t)
  BY <1>1, <1>3 DEF Tidy, Neat, Placed, Lost, AnyChannel
<1>6. Aside(t)
  BY <1>1, <1>3 DEF Tidy, Neat, Aside, Lost, AnyChannel
<1>7. Watch(t)
  BY DEF Tidy, Watch, Stray, Busy, Lost
<1> QED
  BY <1>2, <1>4, <1>5, <1>6, <1>7 DEF Good, Tidy, Neat

\* A channel went down: RFCOMM_DisconnectInd.
LEMMA DisconnectIndGood ==
  ASSUME NEW e, IsEnv(e), NEW s, IsDevice(e.self, s), Tidy(s), NEW c \in Channels,
         s.ccb[c] # "CLOSED", NEW t, IsDevice(e.self, t), Lost(s, t, c), Fine(e, t)
  PROVE  Good(e, RFCOMM_DisconnectInd(t, c))
<1>1. CASE c = s.mx.lcid
  <2> DEFINE u == [t EXCEPT !.mx.state = "IDLE"]
  <2>1. /\ ~IsCached(t, c) /\ rfc_find_lcid_mcb(t, c) /\ s.mx.state # "IDLE"
        /\ IsDevice(e.self, u) /\ Fine(e, u) /\ Shut(u)
    BY <1>1, LcidLost
  <2>2. RFCOMM_DisconnectInd(t, c) = PORT_CloseInd(u)
    BY <2>1 DEF RFCOMM_DisconnectInd, Lost
  <2> HIDE DEF u
  <2> QED
    BY <2>1, <2>2, CloseIndGood
<1>2. CASE c = s.mx.collision_outgoing_lcid
  BY <1>2, AsideLost DEF RFCOMM_DisconnectInd
<1>3. CASE c # s.mx.lcid /\ c # s.mx.collision_outgoing_lcid
  BY <1>3, SpareLost DEF RFCOMM_DisconnectInd
<1> QED
  BY <1>1, <1>2, <1>3

\* A channel did not open: rfc_on_l2cap_error.
LEMMA L2capErrorGood ==
  ASSUME NEW e, IsEnv(e), NEW s, IsDevice(e.self, s), Tidy(s), NEW c \in Channels,
         s.ccb[c] = "W4_CONNECT_RSP", NEW t, IsDevice(e.self, t), Lost(s, t, c), Fine(e, t)
  PROVE  Good(e, rfc_on_l2cap_error(t, c))
<1>1. CASE c = s.mx.lcid
  <2> DEFINE u == [t EXCEPT !.mx.state = "IDLE"]
  <2>1. /\ ~IsCached(t, c) /\ rfc_find_lcid_mcb(t, c) /\ s.mx.state # "IDLE"
        /\ IsDevice(e.self, u) /\ Fine(e, u) /\ Shut(u) /\ SameMx(s, u) /\ u.mx.state = "IDLE"
    BY <1>1, LcidLost
  <2>2. s.mx.state = "WAIT_CONN_CNF"
    <3>1. s.mx.state \in MxStates
      BY MxMembers
    <3> QED
      BY <1>1, <2>1, <3>1 DEF Tidy, Neat, Placed, MxStates
  <2>3. rfc_on_l2cap_error(t, c) = PORT_StartCnf(u, FALSE)
    BY <2>1, <2>2 DEF rfc_on_l2cap_error, Lost
  <2>4. s.mx.is_initiator /\ s.mx.collision_outgoing_lcid = NoChannel
    BY <1>1, <2>2, NoChannelOut DEF Tidy, Neat, Placed, Role, Aside
  <2> HIDE DEF u
  <2> QED
    BY <2>1, <2>3, <2>4, AfterStartFailed DEF Tidy
<1>2. CASE c = s.mx.collision_outgoing_lcid
  BY <1>2, AsideLost DEF rfc_on_l2cap_error
<1>3. CASE c # s.mx.lcid /\ c # s.mx.collision_outgoing_lcid
  BY <1>3, SpareLost DEF rfc_on_l2cap_error
<1> QED
  BY <1>1, <1>2, <1>3

\* One channel changes, the multiplexer does not.
LEMMA ElsewhereMx ==
  ASSUME NEW s, NEW t, NEW k, t.self = s.self, t.made = s.made, t.mx = s.mx,
         s.ccb \in [Channels -> CcbStates], NEW v, t.ccb = [s.ccb EXCEPT ![k] = v]
  PROVE  Elsewhere(s, t, k) /\ SameBut(View(s), View(t), k)
<1>1. \A c \in Channels : c # k => t.ccb[c] = s.ccb[c]
  OBVIOUS
<1>2. Elsewhere(s, t, k)
  BY <1>1 DEF Elsewhere, Status, Live
<1> QED
  BY <1>2 DEF Elsewhere, SameBut, View

\* The timer of a channel ran out.
LEMMA ChannelTimeoutGood ==
  ASSUME NEW e, IsEnv(e), NEW s, Good(e, s), NEW c \in Channels,
         s.ccb[c] \in {"W4_CONNECT_RSP", "CONFIG"}
  PROVE  Good(e, l2c_ccb_timer_timeout(s, c))
<1> DEFINE t == [s EXCEPT !.ccb[c] = "CLOSED"]
           u == Signal(t, "DISC_REQ", c)
<1>1. IsDevice(e.self, s) /\ Fine(e, s) /\ Tidy(s) /\ Unopened(s)
  BY DEF Good, Tidy, Neat
<1>2. s.ccb \in [Channels -> CcbStates]
  BY <1>1, Members
<1>3. IsDevice(e.self, t)
  BY <1>1, SetChannel DEF CcbStates
<1>4. IsDevice(e.self, u)
  BY <1>3, SignalKeeps DEF Signals
<1>5. Lost(s, t, c) /\ Lost(s, u, c) /\ t.out = s.out /\ u.out = Append(s.out, DiscReq(c))
  BY <1>1 DEF IsDevice, Device, Lost, Signal, DiscReq
<1>6. /\ s.ccb[c] = "W4_CONNECT_RSP" => l2c_ccb_timer_timeout(s, c) = rfc_on_l2cap_error(t, c)
      /\ s.ccb[c] # "W4_CONNECT_RSP" => l2c_ccb_timer_timeout(s, c) = RFCOMM_DisconnectInd(u, c)
  BY DEF l2c_ccb_timer_timeout
<1> HIDE DEF t, u
<1>7. CASE s.ccb[c] = "W4_CONNECT_RSP"
  <2>1. Drops(s, t, c) /\ Elsewhere(s, t, c)
    BY <1>2, <1>5, <1>7, ElsewhereMx DEF Drops, Lost
  <2>2. Fine(e, t)
    BY <1>1, <2>1, DropsFine
  <2> QED
    BY <1>1, <1>3, <1>5, <1>6, <1>7, <2>2, L2capErrorGood
<1>8. CASE s.ccb[c] = "CONFIG"
  <2>1. Drops(s, u, c) /\ Elsewhere(s, u, c)
    BY <1>2, <1>5, <1>8, ElsewhereMx DEF Drops, Lost
  <2>2. Fine(e, u)
    BY <1>1, <2>1, DropsFine
  <2> QED
    BY <1>1, <1>4, <1>5, <1>6, <1>8, <2>2, DisconnectIndGood
<1> QED
  BY <1>7, <1>8

-----------------------------------------------------------------------------
(* A frame is received *)

\* The first frame on its way, and what is behind it.
LEMMA RestEnv ==
  ASSUME NEW e, IsEnv(e), NEW r, Rest(e, r), NEW f, f = Head(e.in)
  PROVE  /\ IsEnv(r) /\ f \in Frame /\ Taken(e.in, f, r.in) /\ f.c \in Channels
         /\ f.k \in Signals => f.d = 0
         /\ About(e.in, f.c)
         /\ f.d = 0 => Has(e.in, f.k, f.c)
         /\ f.c[1] = e.self \/ f.c[1] = e.other
<1>1. e.in \in Seq(Frame) /\ e.in # <<>> /\ r.in = Tail(e.in)
  BY DEF IsEnv, Rest
<1>2. r.in \in Seq(Frame) /\ f \in Frame /\ Taken(e.in, f, r.in)
  BY <1>1, TailTakes
<1>3. IsEnv(r)
  BY <1>2 DEF IsEnv, Rest
<1>4. f.c \in Channels /\ (f.k \in Signals => f.d = 0)
  BY <1>2 DEF Frame, AnyFrame
<1>5. Is(f, f.k, f.c) <=> f.d = 0
  BY DEF Is
<1>6. About(e.in, f.c) /\ (f.d = 0 => Has(e.in, f.k, f.c))
  BY <1>2, <1>5 DEF Taken
<1>7. f.c[1] \in Peers
  BY <1>4 DEF Channels
<1> QED
  BY <1>2, <1>3, <1>4, <1>6, <1>7 DEF IsEnv

\* Nobody waits for the first frame on its way any more.
Answered(e, s) ==
  LET f == Head(e.in)
      v == View(s)[f.c]
  IN  /\ f.k # "CONN_REQ"
      /\ f.k = "DISC_REQ" => v = "CLOSED"
      /\ f.k \in {"CONN_RSP", "CONN_RSP_NEG"} => v \notin Asking
      /\ f.d = 0 =>
           /\ f.k = "SABME" => v # "WAIT_SABME"
           /\ f.k = "UA" => v \notin {"SABME_WAIT_UA", "DISC_WAIT_UA"}
           /\ f.k = "DM" => v # "DISC_WAIT_UA"
           /\ f.k = "DISC" =>
                v # "CONNECTED" /\ (v = "DISC_WAIT_UA" => Has(Sent(e, s), "UA", f.c))

\* A signal is answered: the channels.
LEMMA AnsweredFine ==
  ASSUME NEW e, IsEnv(e), NEW s, Fine(e, s), s.out \in Seq(Frame), NEW r, Rest(e, r),
         Answered(e, s)
  PROVE  Fine(r, s)
<1> DEFINE f == Head(e.in)
           k == f.c
<1>1. k \in Channels
  BY RestEnv
<1>2. /\ ~Is(f, "CONN_REQ", k)
      /\ Is(f, "DISC_REQ", k) => View(s)[k] = "CLOSED"
      /\ Is(f, "CONN_RSP", k) \/ Is(f, "CONN_RSP_NEG", k) => View(s)[k] \notin Asking
      /\ Is(f, "SABME", k) => View(s)[k] # "WAIT_SABME"
      /\ Is(f, "UA", k) => View(s)[k] \notin {"SABME_WAIT_UA", "DISC_WAIT_UA"}
      /\ Is(f, "DM", k) => View(s)[k] # "DISC_WAIT_UA"
      /\ Is(f, "DISC", k) =>
           View(s)[k] # "CONNECTED" /\ (View(s)[k] = "DISC_WAIT_UA" => Has(Sent(e, s), "UA", k))
  BY DEF Answered, Is
<1>3. Head(e.in).c = k
  OBVIOUS
<1> HIDE DEF k
<1> QED
  BY <1>1, <1>2, <1>3, DoneFine

\* A signal is answered: the device.
LEMMA AnsweredGood ==
  ASSUME NEW e, IsEnv(e), NEW s, Good(e, s), NEW r, Rest(e, r), Answered(e, s)
  PROVE  Good(r, s)
<1>1. s.out \in Seq(Frame) /\ r.self = e.self
  BY Members DEF Good, Rest
<1> QED
  BY <1>1, AnsweredFine DEF Good

\* What the channels of either device are to a device.
LEMMA Bounds ==
  ASSUME NEW e, IsEnv(e), NEW s, Fine(e, s), NEW c \in Channels
  PROVE  /\ c[1] = e.self => Handshake(c, View(s)[c], e.view[c], Sent(e, s), e.in)
         /\ c[1] = e.other => Handshake(c, e.view[c], View(s)[c], e.in, Sent(e, s))
         /\ About(e.in, c) => View(s)[c] # "NEW"
<1>1. /\ c[1] = e.self => Handshake(c, View(s)[c], e.view[c], Sent(e, s), e.in)
      /\ c[1] = e.other => Handshake(c, e.view[c], View(s)[c], e.in, Sent(e, s))
  BY DEF Fine, Own, At
<1>2. c[1] = e.self \/ c[1] = e.other
  BY DEF IsEnv, Channels
<1>3. About(e.in, c) => View(s)[c] # "NEW"
  BY <1>1, <1>2 DEF Handshake, OpenAtOther, Engaged
<1> QED
  BY <1>1, <1>3

-----------------------------------------------------------------------------
(* Signals of L2CAP *)

SigFrame(j, c) == [k |-> j, c |-> c, d |-> 0, initiator |-> FALSE]

\* The same multiplexer and ports; channel k is v now.
Turns(s, t, k, v) ==
  /\ t.self = s.self /\ t.made = s.made /\ t.mx = s.mx /\ t.lcid_mcb = s.lcid_mcb
  /\ t.port = s.port /\ t.port_handles = s.port_handles
  /\ t.ccb = [s.ccb EXCEPT ![k] = v]

\* The frame of a signal.
LEMMA SigFrameIs ==
  ASSUME NEW j \in Signals, NEW c \in Channels
  PROVE  SigFrame(j, c) \in Frame /\ Is(SigFrame(j, c), j, c)
BY DEF SigFrame, Frame, AnyFrame, Signals, PortCommands, Is

\* A channel is in another state of L2CAP, and nothing else has changed.
LEMMA ChannelTurns ==
  ASSUME NEW p, NEW s, IsDevice(p, s), NEW k \in Channels, NEW v \in CcbStates, NEW t,
         t = [s EXCEPT !.ccb[k] = v]
  PROVE  /\ IsDevice(p, t) /\ Turns(s, t, k, v) /\ t.out = s.out
         /\ \A j \in Signals :
              /\ IsDevice(p, Signal(t, j, k)) /\ Turns(s, Signal(t, j, k), k, v)
              /\ Signal(t, j, k).out = Append(s.out, SigFrame(j, k))
<1>1. IsDevice(p, t)
  BY SetChannel
<1>2. \A j \in Signals : IsDevice(p, Signal(t, j, k))
  BY <1>1, SignalKeeps
<1>3. Turns(s, t, k, v) /\ t.out = s.out
  BY DEF IsDevice, Device, Turns
<1>4. ASSUME NEW j \in Signals
      PROVE  Turns(s, Signal(t, j, k), k, v) /\ Signal(t, j, k).out = Append(s.out, SigFrame(j, k))
  BY <1>1, <1>3 DEF IsDevice, Device, Turns, Signal, SigFrame
<1> QED
  BY <1>1, <1>2, <1>3, <1>4

\* A channel that was not open is not open yet: the multiplexer is where it was.
LEMMA TurnsTidy ==
  ASSUME NEW p, NEW s, IsDevice(p, s), Tidy(s), NEW k \in Channels, NEW t,
         NEW v, Turns(s, t, k, v), v \in {"W4_CONNECT_RSP", "CONFIG", "OPEN"},
         k[1] = s.self => s.ccb[k] # "CLOSED",
         k = s.mx.lcid =>
           s.ccb[k] \in {"W4_CONNECT_RSP", "CONFIG"} /\ v \in {"W4_CONNECT_RSP", "CONFIG"},
         k = s.mx.collision_outgoing_lcid =>
           s.ccb[k] \in {"W4_CONNECT_RSP", "CONFIG"} /\ v \in {"W4_CONNECT_RSP", "CONFIG"}
  PROVE  Tidy(t)
<1>1. /\ s.ccb \in [Channels -> CcbStates] /\ NoChannel \notin Channels
      /\ s.mx.lcid \in AnyChannel /\ s.mx.collision_outgoing_lcid \in AnyChannel
      /\ s.mx.state \in MxStates
      /\ s.mx.state # "IDLE" => s.mx.lcid \in Channels
  BY Members, MxMembers, NoChannelOut, TidyFree DEF Tidy, Neat
<1>2. t.ccb[k] = v /\ \A x \in Channels : x # k => t.ccb[x] = s.ccb[x]
  BY <1>1 DEF Turns
<1>3. Role(t) /\ Settled(t) /\ Unopened(t)
  BY <1>1, <1>2 DEF Tidy, Neat, Role, Settled, Unopened, Turns
<1>4. Placed(t)
  <2>1. CASE k = s.mx.lcid
    BY <1>1, <1>2, <2>1 DEF Tidy, Neat, Placed, Turns
  <2>2. CASE k # s.mx.lcid
    BY <1>1, <1>2, <2>2 DEF Tidy, Neat, Placed, Turns, AnyChannel
  <2> QED
    BY <2>1, <2>2
<1>5. Aside(t)
  BY <1>1, <1>2 DEF Tidy, Neat, Aside, Turns, AnyChannel
<1>6. Watch(t)
  BY DEF Tidy, Watch, Stray, Busy, Turns
<1> QED
  BY <1>3, <1>4, <1>5, <1>6 DEF Tidy, Neat

\* The other device asks for a channel.
LEMMA ConnReqGood ==
  ASSUME NEW e, IsEnv(e), NEW s, Good(e, s), NEW r, Rest(e, r), NEW k,
         k = Head(e.in).c, Head(e.in).k = "CONN_REQ"
  PROVE  Good(r, L2capSignal(s, "CONN_REQ", k))
<1> DEFINE t == [s EXCEPT !.ccb[k] = "CONFIG"]
           u == Signal(t, "CONN_RSP", k)
<1>0. IsDevice(e.self, s) /\ Fine(e, s) /\ Tidy(s) /\ r.self = e.self /\ e.self # e.other
  BY DEF Good, Rest, IsEnv
<1>1. "CONN_REQ" \in Signals /\ "CONN_RSP" \in Signals /\ "CONFIG" \in CcbStates
  BY DEF Signals, CcbStates
<1>2. /\ k \in Channels /\ Has(e.in, "CONN_REQ", k) /\ Is(Head(e.in), "CONN_REQ", k)
      /\ k[1] = e.self \/ k[1] = e.other
  BY <1>1, RestEnv DEF Is
<1>3. L2capSignal(s, "CONN_REQ", k) = u
  BY DEF L2capSignal
<1>a. t = [s EXCEPT !.ccb[k] = "CONFIG"]
  OBVIOUS
<1> HIDE DEF t
<1>4. IsDevice(e.self, u) /\ Turns(s, u, k, "CONFIG") /\ u.out = Append(s.out, SigFrame("CONN_RSP", k))
  BY <1>a, <1>0, <1>1, <1>2, ChannelTurns
<1> HIDE DEF u
<1>5. k[1] = e.other /\ View(s)[k] = "CLOSED"
  BY <1>0, <1>2, Bounds DEF Handshake
<1>6. s.ccb[k] = "CLOSED" /\ s.self = e.self /\ s.out \in Seq(Frame) /\ s.ccb \in [Channels -> CcbStates]
  <2>1. s.self = e.self /\ s.out \in Seq(Frame) /\ s.ccb \in [Channels -> CcbStates]
    BY <1>0, Members
  <2>2. s.ccb[k] = "CLOSED"
    BY <1>0, <1>2, <1>5, StatusOf DEF CcbStates, Asking, Configuring, OpenAtOwner, OpenAtOther, Engaged
  <2> QED
    BY <2>1, <2>2
<1>7. k # s.mx.lcid /\ k # s.mx.collision_outgoing_lcid
  <2>1. s.mx.state \in MxStates
    BY <1>0, MxMembers
  <2> QED
    BY <1>0, <1>2, <1>5, <1>6, <2>1, NoChannelOut DEF Tidy, Neat, Placed, Aside, MxStates
<1>8. Tidy(u)
  BY <1>0, <1>2, <1>4, <1>5, <1>6, <1>7, TurnsTidy
<1>9. View(u)[k] = "CONFIG" /\ SameBut(View(s), View(u), k)
  <2>1. SameBut(View(s), View(u), k)
    BY <1>4, <1>6, ElsewhereMx DEF Turns
  <2>2. u.ccb[k] = "CONFIG" /\ ~Live(u, k)
    BY <1>2, <1>4, <1>6, <1>7 DEF Turns, Live
  <2> QED
    BY <1>2, <2>1, <2>2 DEF View, Status
<1>10. Fine(r, u)
  BY <1>0, <1>1, <1>2, <1>4, <1>5, <1>6, <1>9, SigFrameIs, AskedFine
<1> QED
  BY <1>0, <1>3, <1>4, <1>8, <1>10 DEF Good, t, u

\* A channel that the device asked for is granted.
LEMMA ConnRspGood ==
  ASSUME NEW e, IsEnv(e), NEW s, Good(e, s), NEW r, Rest(e, r), NEW k,
         k = Head(e.in).c, Head(e.in).k = "CONN_RSP", s.ccb[k] = "W4_CONNECT_RSP"
  PROVE  Good(r, L2capSignal(s, "CONN_RSP", k))
<1> DEFINE t == [s EXCEPT !.ccb[k] = "CONFIG"]
           u == Signal(t, "CFG", k)
<1>0. IsDevice(e.self, s) /\ Fine(e, s) /\ Tidy(s) /\ r.self = e.self /\ e.self # e.other
  BY DEF Good, Rest, IsEnv
<1>1. "CONN_RSP" \in Signals /\ "CFG" \in Signals /\ "CONFIG" \in CcbStates
  BY DEF Signals, CcbStates
<1>2. /\ k \in Channels /\ Is(Head(e.in), "CONN_RSP", k)
      /\ k[1] = e.self \/ k[1] = e.other
  BY <1>1, RestEnv DEF Is
<1>3. L2capSignal(s, "CONN_RSP", k) = u
  BY DEF L2capSignal
<1>a. t = [s EXCEPT !.ccb[k] = "CONFIG"]
  OBVIOUS
<1> HIDE DEF t
<1>4. IsDevice(e.self, u) /\ Turns(s, u, k, "CONFIG") /\ u.out = Append(s.out, SigFrame("CFG", k))
  BY <1>a, <1>0, <1>1, <1>2, ChannelTurns
<1> HIDE DEF u
<1>5. View(s)[k] \in Asking
  BY <1>0, <1>2, StatusOf
<1>6. k[1] = e.self
  BY <1>0, <1>2, <1>5, Bounds DEF Handshake, Asking, OpenAtOther, Engaged
<1>7. s.self = e.self /\ s.out \in Seq(Frame) /\ s.ccb \in [Channels -> CcbStates]
  BY <1>0, Members
<1>8. Tidy(u)
  BY <1>0, <1>2, <1>4, TurnsTidy
<1>9. /\ SameBut(View(s), View(u), k)
      /\ View(s)[k] = "W4" => View(u)[k] = "CONFIG"
      /\ View(s)[k] = "W4_LIVE" => View(u)[k] = "CONFIG_LIVE"
  <2>1. SameBut(View(s), View(u), k)
    BY <1>4, <1>7, ElsewhereMx DEF Turns
  <2>2. u.ccb[k] = "CONFIG" /\ (Live(u, k) <=> Live(s, k))
    BY <1>2, <1>4, <1>7 DEF Turns, Live
  <2> QED
    BY <1>2, <2>1, <2>2 DEF View, Status
<1>10. Fine(r, u)
  BY <1>0, <1>1, <1>2, <1>4, <1>5, <1>6, <1>7, <1>9, SigFrameIs, ConfiguresFine
<1> QED
  BY <1>0, <1>3, <1>4, <1>8, <1>10 DEF Good, t, u

\* A channel is lost: it was refused, or the other device took it down.
LEMMA LosingFine ==
  ASSUME NEW e, IsEnv(e), NEW s, Good(e, s), NEW r, Rest(e, r), NEW k,
         k = Head(e.in).c, Head(e.in).k \in {"CONN_RSP_NEG", "DISC_REQ"},
         Head(e.in).k = "CONN_RSP_NEG" => s.ccb[k] = "W4_CONNECT_RSP",
         s.ccb[k] # "CLOSED", NEW t, t = [s EXCEPT !.ccb[k] = "CLOSED"]
  PROVE  IsDevice(r.self, t) /\ Fine(r, t) /\ Lost(s, t, k) /\ k \in Channels /\ IsEnv(r)
<1>0. IsDevice(e.self, s) /\ Fine(e, s) /\ Tidy(s) /\ r.self = e.self
  BY DEF Good, Rest
<1>1. "CONN_RSP_NEG" \in Signals /\ "DISC_REQ" \in Signals /\ "CLOSED" \in CcbStates
  BY DEF Signals, CcbStates
<1>2. /\ k \in Channels /\ Has(e.in, Head(e.in).k, k) /\ IsEnv(r) /\ About(e.in, k)
  BY <1>1, RestEnv
<1>4. IsDevice(e.self, t) /\ Turns(s, t, k, "CLOSED") /\ t.out = s.out
  BY <1>0, <1>1, <1>2, ChannelTurns
<1>7. s.self = e.self /\ s.out \in Seq(Frame) /\ s.ccb \in [Channels -> CcbStates]
  BY <1>0, Members
<1>8. SameBut(View(s), View(t), k) /\ View(t)[k] = "CLOSED"
  <2>1. SameBut(View(s), View(t), k)
    BY <1>4, <1>7, ElsewhereMx DEF Turns
  <2>2. t.ccb[k] = "CLOSED" /\ ~(k[1] = t.self /\ k[2] > t.made)
    BY <1>0, <1>2, <1>4, <1>7 DEF Turns, Tidy, Neat, Unopened
  <2> QED
    BY <1>2, <2>1, <2>2 DEF View, Status
<1>9. View(s)[k] \in Asking \/ (Has(e.in, "DISC_REQ", k) /\ View(s)[k] # "NEW")
  <2>1. CASE Head(e.in).k = "CONN_RSP_NEG"
    BY <1>0, <1>2, <2>1, StatusOf
  <2>2. CASE Head(e.in).k = "DISC_REQ"
    BY <1>0, <1>2, <2>2, Bounds
  <2> QED
    BY <2>1, <2>2
<1>10. Fine(e, t)
  BY <1>0, <1>2, <1>4, <1>7, <1>8, <1>9, LosesFine
<1>11. Answered(e, t) /\ t.out \in Seq(Frame)
  BY <1>2, <1>4, <1>7, <1>8 DEF Answered, Asking
<1>12. Fine(r, t)
  BY <1>10, <1>11, AnsweredFine
<1> QED
  BY <1>0, <1>2, <1>4, <1>12 DEF Lost, Turns

\* The signals that take a channel down.
LEMMA LosingGood ==
  ASSUME NEW e, IsEnv(e), NEW s, Good(e, s), NEW r, Rest(e, r), NEW k,
         k = Head(e.in).c, NEW j \in {"CONN_RSP_NEG", "DISC_REQ"}, Head(e.in).k = j,
         j = "CONN_RSP_NEG" => s.ccb[k] = "W4_CONNECT_RSP",
         s.ccb[k] # "CLOSED"
  PROVE  Good(r, L2capSignal(s, j, k))
<1> DEFINE t == [s EXCEPT !.ccb[k] = "CLOSED"]
<1>1. /\ j = "CONN_RSP_NEG" => L2capSignal(s, j, k) = rfc_on_l2cap_error(t, k)
      /\ j = "DISC_REQ" => L2capSignal(s, j, k) = RFCOMM_DisconnectInd(t, k)
  BY DEF L2capSignal
<1>2. t = [s EXCEPT !.ccb[k] = "CLOSED"]
  OBVIOUS
<1> HIDE DEF t
<1>3. IsDevice(r.self, t) /\ Fine(r, t) /\ Lost(s, t, k) /\ k \in Channels /\ IsEnv(r)
  BY <1>2, LosingFine
<1>4. IsDevice(r.self, s) /\ Tidy(s)
  BY DEF Good, Rest
<1>5. CASE j = "CONN_RSP_NEG"
  BY <1>1, <1>3, <1>4, <1>5, L2capErrorGood
<1>6. CASE j = "DISC_REQ"
  BY <1>1, <1>3, <1>4, <1>6, DisconnectIndGood
<1> QED
  BY <1>5, <1>6

\* A signal that is of no use any more.
LEMMA SpareSignalGood ==
  ASSUME NEW e, IsEnv(e), NEW s, Good(e, s), NEW r, Rest(e, r), NEW k,
         k = Head(e.in).c, NEW j \in Signals, Head(e.in).k = j, j # "CONN_REQ",
         j \in {"CONN_RSP", "CONN_RSP_NEG"} => s.ccb[k] # "W4_CONNECT_RSP",
         j \in {"CFG", "CFG_RSP"} => s.ccb[k] # "CONFIG",
         j = "DISC_REQ" => s.ccb[k] = "CLOSED"
  PROVE  Good(r, L2capSignal(s, j, k))
<1>1. L2capSignal(s, j, k) = s
  BY DEF L2capSignal, Signals
<1>0. IsDevice(e.self, s) /\ Fine(e, s) /\ Tidy(s)
  BY DEF Good
<1>2. k \in Channels /\ About(e.in, k)
  BY RestEnv
<1>3. /\ View(s)[k] # "NEW"
      /\ s.ccb[k] = "CLOSED" => View(s)[k] = "CLOSED"
      /\ s.ccb[k] # "W4_CONNECT_RSP" => View(s)[k] \notin Asking
  <2>1. View(s)[k] # "NEW"
    BY <1>0, <1>2, Bounds
  <2>2. s.ccb[k] # "W4_CONNECT_RSP" => View(s)[k] \notin Asking
    BY <1>0, <1>2, StatusOf DEF CcbStates, Asking, Configuring, OpenAtOwner, OpenAtOther, Engaged
  <2>3. s.ccb[k] = "CLOSED" => View(s)[k] = "CLOSED"
    BY <1>0, <1>2, <2>1, StatusOf
  <2> QED
    BY <2>1, <2>2, <2>3
<1>4. Answered(e, s)
  BY <1>3 DEF Answered, Signals
<1> QED
  BY <1>1, <1>4, AnsweredGood

-----------------------------------------------------------------------------
(* A channel that the device opened is configured *)

\* The channel is open, and the multiplexer has not heard of it.
LEMMA CfgRspFine ==
  ASSUME NEW e, IsEnv(e), NEW s, Good(e, s), NEW r, Rest(e, r), NEW k,
         k = Head(e.in).c, Head(e.in).k = "CFG_RSP", s.ccb[k] = "CONFIG",
         NEW t, t = [s EXCEPT !.ccb[k] = "OPEN"]
  PROVE  /\ IsDevice(e.self, t) /\ Fine(r, t) /\ Turns(s, t, k, "OPEN")
         /\ k \in Channels /\ IsEnv(r) /\ k[1] = s.self
<1>0. IsDevice(e.self, s) /\ Fine(e, s) /\ Tidy(s) /\ r.self = e.self /\ e.self # e.other
  BY DEF Good, Rest, IsEnv
<1>1. "CFG_RSP" \in Signals /\ "OPEN" \in CcbStates
  BY DEF Signals, CcbStates
<1>2. /\ k \in Channels /\ Has(e.in, "CFG_RSP", k) /\ IsEnv(r)
      /\ k[1] = e.self \/ k[1] = e.other
  BY <1>1, RestEnv
<1>4. IsDevice(e.self, t) /\ Turns(s, t, k, "OPEN") /\ t.out = s.out
  BY <1>0, <1>1, <1>2, ChannelTurns
<1>6. k[1] = e.self
  BY <1>0, <1>2, Bounds DEF Handshake
<1>7. /\ s.self = e.self /\ s.out \in Seq(Frame) /\ s.ccb \in [Channels -> CcbStates]
      /\ s.mx.state \in MxStates
  BY <1>0, Members, MxMembers
<1>8. k = s.mx.lcid => s.mx.state = "WAIT_CONN_CNF"
  BY <1>0, <1>2, <1>7, NoChannelOut, SMTT(30) DEF Tidy, Neat, Placed, MxStates
<1>9. /\ SameBut(View(s), View(t), k)
      /\ View(s)[k] \in Configuring
      /\ View(s)[k] = "CONFIG" => View(t)[k] = "SPARE"
      /\ View(s)[k] = "CONFIG_LIVE" => View(t)[k] = "READY"
  <2>1. SameBut(View(s), View(t), k)
    BY <1>4, <1>7, ElsewhereMx, ZenonT(60) DEF Turns
  <2>2. t.ccb[k] = "OPEN" /\ (Live(t, k) <=> Live(s, k)) /\ t.mx = s.mx
    BY <1>2, <1>4, <1>7 DEF Turns, Live
  <2>3. k = s.mx.lcid => Live(s, k)
    BY <1>8 DEF Live
  <2> QED
    BY <1>2, <2>1, <2>2, <2>3 DEF View, Status, Configuring
<1>10. Fine(e, t)
  BY <1>0, <1>2, <1>4, <1>6, <1>7, <1>9, ReadyFine
<1>11. Answered(e, t) /\ t.out \in Seq(Frame)
  BY <1>4, <1>7 DEF Answered
<1>12. Fine(r, t)
  BY <1>10, <1>11, AnsweredFine
<1> QED
  BY <1>2, <1>4, <1>6, <1>7, <1>12

\* The other device has configured a channel of this one.
LEMMA CfgRspGood ==
  ASSUME NEW e, IsEnv(e), NEW s, Good(e, s), NEW r, Rest(e, r), NEW k,
         k = Head(e.in).c, Head(e.in).k = "CFG_RSP", s.ccb[k] = "CONFIG"
  PROVE  Good(r, L2capSignal(s, "CFG_RSP", k))
<1> DEFINE t == [s EXCEPT !.ccb[k] = "OPEN"]
           u == RFCOMM_ConnectCnf(t, k)
           w == L2capSignal(s, "CFG_RSP", k)
<1>1. t = [s EXCEPT !.ccb[k] = "OPEN"]
  OBVIOUS
<1>2. k[1] = s.self => w = IF IsOpen(u, k) THEN RFCOMM_ConfigCnf(u, k) ELSE u
  BY DEF L2capSignal, l2c_csm_indicate_connection_open
<1> HIDE DEF t, w
<1>3. /\ IsDevice(e.self, t) /\ Fine(r, t) /\ Turns(s, t, k, "OPEN")
      /\ k \in Channels /\ IsEnv(r) /\ k[1] = s.self
  BY <1>1, CfgRspFine
<1>4. IsDevice(e.self, s) /\ Tidy(s) /\ r.self = e.self
  BY DEF Good, Rest
<1>5. /\ s.ccb \in [Channels -> CcbStates] /\ s.mx.state \in MxStates
      /\ t.ccb[k] = "OPEN" /\ k # NoChannel
  BY <1>3, <1>4, Members, MxMembers, NoChannelOut DEF Turns
<1>6. CASE k = s.mx.collision_outgoing_lcid
  <2> DEFINE v == [t EXCEPT !.mx.collision_outgoing_conn_cnf = TRUE]
             x == [v EXCEPT !.mx.collision_outgoing_cfg_complete = TRUE]
  <2>1. /\ s.mx.state = "WAIT_SABME" /\ s.mx.lcid # k /\ s.mx.lcid \in s.lcid_mcb
    BY <1>3, <1>4, <1>5, <1>6 DEF Tidy, Neat, Aside, Placed
  <2>2. IsCached(t, k)
    BY <1>3, <1>6, <2>1 DEF IsCached, rfc_find_lcid_mcb, Turns
  <2>3. u = v
    BY <2>2 DEF RFCOMM_ConnectCnf
  <2>4. IsDevice(e.self, v) /\ IsDevice(e.self, x)
    BY <1>3, SetCollisionConnCnf, SetCollisionCfgComplete
  <2>5. /\ v.mx.lcid = t.mx.lcid /\ v.lcid_mcb = t.lcid_mcb /\ v.ccb = t.ccb
        /\ v.mx.collision_outgoing_lcid = t.mx.collision_outgoing_lcid
    BY <1>3 DEF IsDevice, Device, Mx
  <2>6. /\ x.mx.lcid = t.mx.lcid /\ x.lcid_mcb = t.lcid_mcb /\ x.ccb = t.ccb
        /\ x.mx.collision_outgoing_lcid = t.mx.collision_outgoing_lcid
        /\ x.mx.collision_outgoing_conn_cnf /\ x.mx.collision_outgoing_cfg_complete
        /\ x.mx.state = t.mx.state /\ x.mx.is_initiator = t.mx.is_initiator
        /\ x.mx.is_disc_initiator = t.mx.is_disc_initiator /\ x.mx.timer = t.mx.timer
        /\ x.self = t.self /\ x.made = t.made /\ x.port = t.port
        /\ x.port_handles = t.port_handles /\ x.out = t.out
    BY <1>3 DEF IsDevice, Device, Mx
  <2>7. IsCached(v, k) /\ IsOpen(v, k)
    BY <1>3, <1>5, <2>2, <2>5 DEF IsCached, rfc_find_lcid_mcb, IsOpen
  <2>8. w = x
    BY <1>2, <1>3, <2>3, <2>7 DEF RFCOMM_ConfigCnf
  <2> HIDE DEF v, x, u
  <2>9. \A c \in Channels : c # k => x.ccb[c] = s.ccb[c]
    BY <1>3, <1>5, <2>6 DEF Turns
  <2>a. s.mx.lcid \in Channels
    BY <1>4, <2>1, TidyFree DEF Tidy, Neat
  <2>10. Role(x) /\ Unopened(x) /\ Settled(x)
    BY <1>3, <1>4, <1>5, <2>6, <2>9 DEF Tidy, Neat, Role, Unopened, Settled, Turns
  <2>11. Placed(x)
    BY <1>3, <1>4, <2>1, <2>6, <2>9, <2>a DEF Tidy, Neat, Placed, Turns
  <2>12. Aside(x)
    BY <1>3, <1>5, <1>6, <2>1, <2>6 DEF Aside, Turns
  <2>13. Watch(x)
    <3>1. ~Stray(x)
      BY <2>4, <2>11, TidyFree DEF x
    <3> QED
      BY <1>3, <1>4, <2>6, <3>1 DEF Tidy, Watch, Turns
  <2>14. Fine(r, x)
    <3>1. View(x) = View(t)
      BY <2>6, SameView
    <3>2. Sent(r, x) = Sent(r, t)
      BY <2>6 DEF Sent
    <3> QED
      BY <1>3, <2>6, <3>1, <3>2 DEF Fine
  <2> QED
    BY <1>4, <2>4, <2>8, <2>10, <2>11, <2>12, <2>13, <2>14 DEF Good, Tidy, Neat, w
<1>7. CASE k = s.mx.lcid
  <2> DEFINE v == [t EXCEPT !.mx.state = "CONFIGURE"]
  <2>1. s.mx.state = "WAIT_CONN_CNF"
    BY <1>4, <1>5, <1>7 DEF Tidy, Neat, Placed, MxStates
  <2>2. s.mx.collision_outgoing_lcid = NoChannel /\ k \in s.lcid_mcb /\ s.mx.is_initiator
    BY <1>3, <1>4, <1>5, <1>7, <2>1 DEF Tidy, Neat, Placed, Aside, Role
  <2>3. ~IsCached(t, k) /\ rfc_find_lcid_mcb(t, k) /\ t.mx.state = "WAIT_CONN_CNF"
    BY <1>3, <1>7, <2>1, <2>2 DEF IsCached, rfc_find_lcid_mcb, Turns
  <2>4. u = v
    BY <2>3 DEF RFCOMM_ConnectCnf
  <2>5. IsDevice(e.self, v)
    BY <1>3, SetState DEF MxStates
  <2>6. /\ SameMx(t, v) /\ v.mx.state = "CONFIGURE" /\ v.self = t.self
        /\ v.made = t.made /\ v.ccb = t.ccb /\ v.out = t.out /\ v.lcid_mcb = t.lcid_mcb
        /\ v.port = t.port /\ v.port_handles = t.port_handles
    BY <1>3 DEF SameMx, IsDevice, Device, Mx
  <2> HIDE DEF v
  <2>7. ~IsCached(v, k) /\ rfc_find_lcid_mcb(v, k) /\ IsOpen(v, k)
    BY <1>3, <1>5, <2>3, <2>6 DEF IsCached, rfc_find_lcid_mcb, SameMx, IsOpen
  <2>8. w = rfc_mx_conf_cnf(v)
    BY <1>2, <1>3, <2>4, <2>6, <2>7 DEF RFCOMM_ConfigCnf
  <2> HIDE DEF u
  <2>9. Fine(r, v)
    <3>1. View(v) = View(t)
      <4>1. \A c : Live(v, c) <=> Live(t, c)
        BY <2>3, <2>6 DEF Live, SameMx
      <4>2. \A c \in Channels : Status(v, c) = Status(t, c)
        BY <1>7, <2>3, <2>6, <4>1 DEF Status, SameMx, Live
      <4> QED
        BY <4>2 DEF View
    <3>2. Sent(r, v) = Sent(r, t)
      BY <2>6 DEF Sent
    <3> QED
      BY <1>3, <2>6, <3>1, <3>2 DEF Fine
  <2>10. Unopened(v) /\ Settled(v)
    BY <1>3, <1>4, <1>5, <2>6 DEF Tidy, Neat, Unopened, Settled, Turns, SameMx
  <2>11. Aside(v)
    BY <1>3, <1>4, <2>2, <2>6 DEF Tidy, Neat, Aside, Turns, SameMx
  <2>12. /\ v.mx.is_initiator /\ v.mx.lcid = k /\ k \in v.lcid_mcb /\ k[1] = v.self
         /\ v.ccb[k] = "OPEN" /\ v.mx.collision_outgoing_lcid = NoChannel
    BY <1>3, <1>5, <1>7, <2>2, <2>6 DEF Turns, SameMx
  <2>13. Good(r, rfc_mx_conf_cnf(v))
    BY <1>3, <1>4, <2>5, <2>6, <2>9, <2>10, <2>11, <2>12, GreetGood
  <2> QED
    BY <2>8, <2>13 DEF w
<1>8. CASE k # s.mx.collision_outgoing_lcid /\ k # s.mx.lcid
  <2>1. ~IsCached(t, k) /\ ~rfc_find_lcid_mcb(t, k)
    BY <1>3, <1>8 DEF IsCached, rfc_find_lcid_mcb, Turns
  <2>2. w = t
    BY <1>2, <1>3, <2>1 DEF RFCOMM_ConnectCnf, RFCOMM_ConfigCnf
  <2>3. Tidy(t)
    BY <1>3, <1>4, <1>8, TurnsTidy
  <2> QED
    BY <1>3, <1>4, <2>2, <2>3 DEF Good, w
<1> QED
  BY <1>6, <1>7, <1>8

-----------------------------------------------------------------------------
(* A channel that the other device opened is configured *)

\* What is known when the configuration of a channel of the other device arrives.
LEMMA CfgFacts ==
  ASSUME NEW e, IsEnv(e), NEW s, Good(e, s), NEW r, Rest(e, r), NEW k,
         k = Head(e.in).c, Head(e.in).k = "CFG", s.ccb[k] = "CONFIG"
  PROVE  /\ k \in Channels /\ Is(Head(e.in), "CFG", k) /\ Has(e.in, "CFG", k) /\ k[1] = e.other
         /\ k[1] # s.self /\ k # s.mx.lcid /\ k # s.mx.collision_outgoing_lcid
         /\ View(s)[k] = "CONFIG" /\ IsEnv(r)
<1>0. IsDevice(e.self, s) /\ Fine(e, s) /\ Tidy(s) /\ r.self = e.self /\ e.self # e.other
  BY DEF Good, Rest, IsEnv
<1>1. "CFG" \in Signals
  BY DEF Signals
<1>2. /\ k \in Channels /\ Has(e.in, "CFG", k) /\ IsEnv(r) /\ Is(Head(e.in), "CFG", k)
      /\ k[1] = e.self \/ k[1] = e.other
  BY <1>1, RestEnv DEF Is
<1>3. k[1] = e.other
  BY <1>0, <1>2, Bounds DEF Handshake
<1>4. s.self = e.self /\ s.mx.state \in MxStates
  BY <1>0, Members, MxMembers
<1>5. k # s.mx.collision_outgoing_lcid
  BY <1>0, <1>2, <1>3, <1>4, NoChannelOut DEF Tidy, Neat, Aside
<1>6. k # s.mx.lcid
  BY <1>0, <1>2, <1>3, <1>4, NoChannelOut DEF Tidy, Neat, Placed, MxStates
<1>7. View(s)[k] = "CONFIG"
  BY <1>2, <1>5, <1>6 DEF View, Status, Live
<1> QED
  BY <1>0, <1>2, <1>3, <1>4, <1>5, <1>6, <1>7

\* The channel is accepted, to wait for SABME on it.
Accepts(m, t, k) ==
  /\ t.self = m.self /\ t.made = m.made /\ t.ccb = [m.ccb EXCEPT ![k] = "OPEN"]
  /\ t.out = Append(m.out, SigFrame("CFG_RSP", k))
  /\ t.mx.lcid = k /\ k \in t.lcid_mcb /\ t.mx.state = "WAIT_SABME" /\ ~t.mx.is_initiator

\* The multiplexer uses the channel that the other device opened.
LEMMA AcceptNeat ==
  ASSUME NEW e, IsEnv(e), NEW m, IsDevice(e.self, m), Fine(e, m), Unopened(m), NEW r, Rest(e, r),
         NEW k \in Channels, Is(Head(e.in), "CFG", k), k[1] = e.other, View(m)[k] = "CONFIG",
         NEW t, IsDevice(e.self, t), Accepts(m, t, k), Aside(t), Elsewhere(m, t, k)
  PROVE  Fine(r, t) /\ Neat(t)
<1>1. m.self = e.self /\ m.out \in Seq(Frame) /\ m.ccb \in [Channels -> CcbStates] /\ e.self # e.other
  BY Members DEF IsEnv
<1>2. k # NoChannel /\ t.ccb[k] = "OPEN" /\ k # t.mx.collision_outgoing_lcid
  BY <1>1, NoChannelOut DEF Accepts, Aside
<1>3. View(t)[k] = "WAIT_SABME"
  BY <1>2 DEF View, Status, Live, Accepts
<1>4. SameBut(View(m), View(t), k)
  BY DEF SameBut, View, Elsewhere
<1>5. "CFG_RSP" \in Signals
  BY DEF Signals
<1>6. Fine(r, t)
  BY <1>1, <1>3, <1>4, <1>5, SigFrameIs, AcceptsFine DEF Accepts
<1>7. Role(t) /\ Placed(t)
  BY <1>1, <1>2 DEF Role, Placed, Accepts
<1>8. Unopened(t)
  BY <1>1 DEF Unopened, Accepts
<1> QED
  BY <1>6, <1>7, <1>8 DEF Neat

\* The signal is answered and the channel open, before RFCOMM hears of it.
LEMMA CfgAnswered ==
  ASSUME NEW p, NEW s, IsDevice(p, s), NEW k \in Channels
  PROVE  LET t == [Signal(s, "CFG_RSP", k) EXCEPT !.ccb[k] = "OPEN"]
         IN  /\ IsDevice(p, t) /\ Turns(s, t, k, "OPEN")
             /\ t.out = Append(s.out, SigFrame("CFG_RSP", k))
<1> DEFINE u == Signal(s, "CFG_RSP", k)
           t == [u EXCEPT !.ccb[k] = "OPEN"]
<1>1. IsDevice(p, u)
  BY SignalKeeps DEF Signals
<1>2. IsDevice(p, t)
  BY <1>1, SetChannel DEF CcbStates
<1>3. Turns(s, t, k, "OPEN") /\ t.out = Append(s.out, SigFrame("CFG_RSP", k))
  BY DEF IsDevice, Device, Turns, Signal, SigFrame
<1> QED
  BY <1>2, <1>3

\* Two members of the multiplexer are set.
Restated(s, t, a, b) ==
  /\ t.self = s.self /\ t.made = s.made /\ t.ccb = s.ccb /\ t.out = s.out
  /\ t.lcid_mcb = s.lcid_mcb /\ t.port = s.port /\ t.port_handles = s.port_handles
  /\ t.mx.state = a /\ t.mx.timer = b
  /\ t.mx.lcid = s.mx.lcid /\ t.mx.is_initiator = s.mx.is_initiator
  /\ t.mx.is_disc_initiator = s.mx.is_disc_initiator
  /\ t.mx.restart_required = s.mx.restart_required
  /\ t.mx.collision_outgoing_lcid = s.mx.collision_outgoing_lcid
  /\ t.mx.collision_outgoing_conn_cnf = s.mx.collision_outgoing_conn_cnf
  /\ t.mx.collision_outgoing_cfg_complete = s.mx.collision_outgoing_cfg_complete

\* The state and the timer of the multiplexer are set.
LEMMA SetStateTimer ==
  ASSUME NEW p, NEW s, IsDevice(p, s), NEW a, NEW b, NEW t,
         \/ t = [s EXCEPT !.mx.state = a, !.mx.timer = b]
         \/ t = [s EXCEPT !.mx.timer = b, !.mx.state = a]
  PROVE  Restated(s, t, a, b)
<1>1. t = [s EXCEPT !.mx = [s.mx EXCEPT !.state = a, !.timer = b]]
  BY ZenonT(60) DEF IsDevice, Device, Mx
<1> DEFINE m == [s.mx EXCEPT !.state = a, !.timer = b]
<1>2. /\ m.state = a /\ m.timer = b
      /\ m.lcid = s.mx.lcid /\ m.is_initiator = s.mx.is_initiator
      /\ m.is_disc_initiator = s.mx.is_disc_initiator
      /\ m.restart_required = s.mx.restart_required
      /\ m.collision_outgoing_lcid = s.mx.collision_outgoing_lcid
      /\ m.collision_outgoing_conn_cnf = s.mx.collision_outgoing_conn_cnf
      /\ m.collision_outgoing_cfg_complete = s.mx.collision_outgoing_cfg_complete
  BY Members DEF Mx
<1>3. t = [s EXCEPT !.mx = m]
  BY <1>1
<1> HIDE DEF m
<1>4. /\ t.self = s.self /\ t.made = s.made /\ t.ccb = s.ccb /\ t.out = s.out /\ t.mx = m
      /\ t.lcid_mcb = s.lcid_mcb /\ t.port = s.port /\ t.port_handles = s.port_handles
  BY <1>3 DEF IsDevice, Device
<1> QED
  BY <1>2, <1>4 DEF Restated

\* What the multiplexer makes of an incoming channel k in z, is t.
Incoming(z, t, k) ==
  /\ t.self = z.self /\ t.made = z.made /\ t.ccb = z.ccb /\ t.out = z.out
  /\ t.mx.lcid = k /\ k \in t.lcid_mcb /\ t.mx.state = "WAIT_SABME" /\ t.mx.is_initiator = FALSE
  /\ t.mx.timer = "CONN" /\ t.port_handles[2] = NoHandle

\* It was idle,
LEMMA IncomingFresh ==
  ASSUME NEW p, NEW z, IsDevice(p, z), NEW k \in Channels, z.ccb[k] = "OPEN", z.mx.state = "IDLE",
         NEW y, y = RFCOMM_ConnectInd(z, k), NEW t, t = RFCOMM_ConfigCnf(y, k)
  PROVE  /\ IsOpen(y, k) /\ Incoming(z, t, k) /\ t.mx.is_disc_initiator = FALSE
         /\ t.mx.collision_outgoing_lcid = NoChannel
         /\ t.mx.collision_outgoing_conn_cnf = FALSE
         /\ t.mx.collision_outgoing_cfg_complete = FALSE
<1> DEFINE m == [IdleMx EXCEPT !.is_initiator = FALSE, !.timer = "INIT"]
           none == [d \in Dlcis |-> NoHandle]
           a == rfc_alloc_multiplexer_channel(z, FALSE)
           b == [a EXCEPT !.mx.lcid = k, !.lcid_mcb = a.lcid_mcb \cup {k}]
<1>1. a = [z EXCEPT !.mx = m, !.port_handles = none]
  BY DEF rfc_alloc_multiplexer_channel
<1>2. /\ m.state = "IDLE" /\ m.collision_outgoing_lcid = NoChannel
      /\ m.is_initiator = FALSE /\ m.is_disc_initiator = FALSE
      /\ m.collision_outgoing_conn_cnf = FALSE /\ m.collision_outgoing_cfg_complete = FALSE
      /\ none[2] = NoHandle
  BY DEF IdleMx, Dlcis
<1>3. IsDevice(p, a) /\ IsDevice(p, y)
  BY AllocKeeps, ConnectIndKeeps
<1> HIDE DEF m, none
<1>4. /\ a.mx = m /\ a.port_handles = none /\ a.self = z.self /\ a.made = z.made
      /\ a.ccb = z.ccb /\ a.out = z.out
  BY <1>1 DEF IsDevice, Device
<1>5. y = [b EXCEPT !.mx.timer = "CONN", !.mx.state = "CONFIGURE"]
  BY <1>2, <1>4 DEF RFCOMM_ConnectInd
<1> HIDE DEF a
<1>b. IsDevice(p, b)
  <2>1. k \in AnyChannel /\ a.lcid_mcb \cup {k} \in SUBSET Channels
    BY <1>3, Members DEF AnyChannel
  <2>2. IsDevice(p, [a EXCEPT !.mx.lcid = k])
    BY <1>3, <2>1, SetLcid
  <2> QED
    BY <2>1, <2>2, SetLcidMcb
<1>c. /\ b.self = a.self /\ b.made = a.made /\ b.ccb = a.ccb /\ b.out = a.out
      /\ b.mx.lcid = k /\ k \in b.lcid_mcb /\ b.port_handles = a.port_handles
      /\ b.mx.is_initiator = a.mx.is_initiator /\ b.mx.is_disc_initiator = a.mx.is_disc_initiator
      /\ b.mx.collision_outgoing_lcid = a.mx.collision_outgoing_lcid
      /\ b.mx.collision_outgoing_conn_cnf = a.mx.collision_outgoing_conn_cnf
      /\ b.mx.collision_outgoing_cfg_complete = a.mx.collision_outgoing_cfg_complete
  BY <1>3 DEF IsDevice, Device, Mx
<1> HIDE DEF b
<1>d. Restated(b, y, "CONFIGURE", "CONN")
  BY <1>b, <1>5, SetStateTimer
<1>6. /\ y.self = z.self /\ y.made = z.made /\ y.ccb = z.ccb /\ y.out = z.out
      /\ y.mx.lcid = k /\ k \in y.lcid_mcb /\ y.mx.state = "CONFIGURE"
      /\ y.mx.is_initiator = FALSE /\ y.mx.is_disc_initiator = FALSE
      /\ y.mx.collision_outgoing_lcid = NoChannel
      /\ y.mx.collision_outgoing_conn_cnf = FALSE
      /\ y.mx.collision_outgoing_cfg_complete = FALSE
      /\ y.port_handles[2] = NoHandle
  BY <1>2, <1>4, <1>c, <1>d DEF Restated
<1>7. ~IsCached(y, k) /\ rfc_find_lcid_mcb(y, k) /\ IsOpen(y, k)
  BY <1>6, NoChannelOut DEF IsCached, rfc_find_lcid_mcb, IsOpen
<1>8. t = rfc_mx_conf_cnf(y)
  BY <1>6, <1>7 DEF RFCOMM_ConfigCnf
<1>9. t = [y EXCEPT !.mx.state = "WAIT_SABME", !.mx.timer = "CONN"]
  BY <1>6, <1>8 DEF rfc_mx_conf_cnf
<1>10. Restated(y, t, "WAIT_SABME", "CONN")
  BY <1>3, <1>9, SetStateTimer
<1> QED
  BY <1>6, <1>7, <1>10 DEF Incoming, Restated

\* it has a channel of its own on its way,
LEMMA IncomingCollides ==
  ASSUME NEW p, NEW z, IsDevice(p, z), NEW k \in Channels, z.ccb[k] = "OPEN",
         z.mx.state = "WAIT_CONN_CNF", z.mx.is_initiator, k # z.mx.lcid,
         NEW y, y = RFCOMM_ConnectInd(z, k), NEW t, t = RFCOMM_ConfigCnf(y, k)
  PROVE  /\ IsOpen(y, k) /\ Incoming(z, t, k)
         /\ t.mx.is_disc_initiator = z.mx.is_disc_initiator
         /\ t.mx.collision_outgoing_lcid = z.mx.lcid
         /\ t.mx.collision_outgoing_conn_cnf = z.mx.collision_outgoing_conn_cnf
         /\ t.mx.collision_outgoing_cfg_complete = z.mx.collision_outgoing_cfg_complete
<1> DEFINE v == [z EXCEPT !.mx.collision_outgoing_lcid = z.mx.lcid, !.mx.lcid = k]
           w == rfc_mx_swap_directions(v)
<1>1. rfc_alloc_multiplexer_channel(z, FALSE) = z
  BY DEF rfc_alloc_multiplexer_channel
<1>2. y = rfc_mx_collision(v)
  BY <1>1 DEF RFCOMM_ConnectInd
<1>3. IsDevice(p, v) /\ IsDevice(p, y)
  BY SetLcid, SetCollisionLcid, MxMembers, ConnectIndKeeps DEF AnyChannel
<1>4. /\ v.mx.collision_outgoing_lcid = z.mx.lcid /\ v.mx.lcid = k
      /\ v.mx.state = "WAIT_CONN_CNF" /\ v.mx.is_initiator = TRUE
      /\ v.self = z.self /\ v.made = z.made /\ v.ccb = z.ccb /\ v.out = z.out
      /\ v.mx.is_disc_initiator = z.mx.is_disc_initiator
      /\ v.mx.collision_outgoing_conn_cnf = z.mx.collision_outgoing_conn_cnf
      /\ v.mx.collision_outgoing_cfg_complete = z.mx.collision_outgoing_cfg_complete
  <2>1. z.mx.is_initiator = TRUE
    BY MxMembers
  <2> QED
    BY <2>1 DEF IsDevice, Device, Mx
<1> HIDE DEF v
<1>5. /\ IsDevice(p, w) /\ w.mx = [v.mx EXCEPT !.is_initiator = ~v.mx.is_initiator]
      /\ w.ccb = v.ccb /\ w.made = v.made /\ w.self = v.self /\ w.out = v.out
      /\ w.port_handles[2] = NoHandle
  BY <1>3, <1>4, SwapDirectionsKeeps, SwapDirectionsMore
<1> DEFINE mcbs == w.lcid_mcb \cup {k}
           x == [w EXCEPT !.lcid_mcb = mcbs]
<1>6. y = [x EXCEPT !.mx.timer = "COLLISION", !.mx.state = "CONFIGURE"]
  BY <1>2, <1>4 DEF rfc_mx_collision
<1> HIDE DEF w
<1>a. k \in mcbs /\ mcbs \in SUBSET Channels
  BY <1>5, Members
<1> HIDE DEF mcbs
<1>b. IsDevice(p, x)
  BY <1>5, <1>a, SetLcidMcb
<1>c. /\ x.self = w.self /\ x.made = w.made /\ x.ccb = w.ccb /\ x.out = w.out /\ x.mx = w.mx
      /\ x.lcid_mcb = mcbs /\ x.port_handles = w.port_handles
  BY <1>5 DEF IsDevice, Device
<1> HIDE DEF x
<1>d. Restated(x, y, "CONFIGURE", "COLLISION")
  BY <1>b, <1>6, SetStateTimer
<1>7. /\ w.mx.is_initiator = FALSE /\ w.mx.lcid = k /\ w.mx.collision_outgoing_lcid = z.mx.lcid
      /\ w.mx.is_disc_initiator = z.mx.is_disc_initiator
      /\ w.mx.collision_outgoing_conn_cnf = z.mx.collision_outgoing_conn_cnf
      /\ w.mx.collision_outgoing_cfg_complete = z.mx.collision_outgoing_cfg_complete
  <2>1. v.mx \in Mx
    BY <1>3, Members
  <2> QED
    BY <1>4, <1>5, <2>1 DEF Mx
<1>8. /\ y.self = z.self /\ y.made = z.made /\ y.ccb = z.ccb /\ y.out = z.out
      /\ y.mx.lcid = k /\ k \in y.lcid_mcb /\ y.mx.state = "CONFIGURE"
      /\ y.mx.is_initiator = FALSE /\ y.mx.is_disc_initiator = z.mx.is_disc_initiator
      /\ y.mx.collision_outgoing_lcid = z.mx.lcid
      /\ y.mx.collision_outgoing_conn_cnf = z.mx.collision_outgoing_conn_cnf
      /\ y.mx.collision_outgoing_cfg_complete = z.mx.collision_outgoing_cfg_complete
      /\ y.port_handles[2] = NoHandle
  BY <1>4, <1>5, <1>7, <1>a, <1>c, <1>d DEF Restated
<1>9. ~IsCached(y, k) /\ rfc_find_lcid_mcb(y, k) /\ IsOpen(y, k)
  BY <1>8 DEF IsCached, rfc_find_lcid_mcb, IsOpen
<1>10. t = rfc_mx_conf_cnf(y)
  BY <1>8, <1>9 DEF RFCOMM_ConfigCnf
<1>11. t = [y EXCEPT !.mx.state = "WAIT_SABME", !.mx.timer = "CONN"]
  BY <1>8, <1>10 DEF rfc_mx_conf_cnf
<1>12. Restated(y, t, "WAIT_SABME", "CONN")
  BY <1>3, <1>11, SetStateTimer
<1> QED
  BY <1>8, <1>9, <1>12 DEF Incoming, Restated

\* It waits for SABME on another channel and takes to this one,
LEMMA IncomingReplaces ==
  ASSUME NEW p, NEW z, IsDevice(p, z), NEW k \in Channels, z.ccb[k] = "OPEN",
         z.mx.state = "WAIT_SABME", ~z.mx.is_initiator, k # z.mx.collision_outgoing_lcid,
         NEW y, y = RFCOMM_ConnectInd(z, k), NEW t, t = RFCOMM_ConfigCnf(y, k)
  PROVE  /\ IsOpen(y, k) /\ IsDevice(p, y) /\ t = GiveUpIncoming(y)
         /\ y.self = z.self /\ y.made = z.made /\ y.ccb = z.ccb /\ y.out = z.out
         /\ y.mx.lcid = k /\ k \in y.lcid_mcb /\ y.mx.state = "WAIT_SABME"
         /\ y.mx.is_initiator = z.mx.is_initiator
         /\ y.mx.is_disc_initiator = z.mx.is_disc_initiator
         /\ y.mx.collision_outgoing_lcid = z.mx.collision_outgoing_lcid
         /\ y.mx.collision_outgoing_conn_cnf = z.mx.collision_outgoing_conn_cnf
         /\ y.mx.collision_outgoing_cfg_complete = z.mx.collision_outgoing_cfg_complete
<1> DEFINE mcbs == z.lcid_mcb \cup {k}
<1>1. rfc_alloc_multiplexer_channel(z, FALSE) = z
  BY DEF rfc_alloc_multiplexer_channel
<1>2. y = [z EXCEPT !.mx.lcid = k, !.lcid_mcb = mcbs]
  BY <1>1 DEF RFCOMM_ConnectInd
<1>3. IsDevice(p, y)
  BY ConnectIndKeeps
<1>4. k \in mcbs
  OBVIOUS
<1> HIDE DEF mcbs
<1>5. /\ y.self = z.self /\ y.made = z.made /\ y.ccb = z.ccb /\ y.out = z.out
      /\ y.mx.lcid = k /\ y.lcid_mcb = mcbs /\ y.mx.state = "WAIT_SABME"
      /\ y.mx.is_initiator = z.mx.is_initiator
      /\ y.mx.is_disc_initiator = z.mx.is_disc_initiator
      /\ y.mx.collision_outgoing_lcid = z.mx.collision_outgoing_lcid
      /\ y.mx.collision_outgoing_conn_cnf = z.mx.collision_outgoing_conn_cnf
      /\ y.mx.collision_outgoing_cfg_complete = z.mx.collision_outgoing_cfg_complete
  BY <1>2 DEF IsDevice, Device, Mx
<1>6. ~IsCached(y, k) /\ rfc_find_lcid_mcb(y, k) /\ IsOpen(y, k)
  BY <1>4, <1>5 DEF IsCached, rfc_find_lcid_mcb, IsOpen
<1>7. t = GiveUpIncoming(y)
  BY <1>5, <1>6 DEF RFCOMM_ConfigCnf
<1> QED
  BY <1>3, <1>4, <1>5, <1>6, <1>7

\* The incoming channel k of z is refused in y.
Refused(z, y, k) ==
  /\ ~IsOpen(y, k) /\ y.self = z.self /\ y.made = z.made
  /\ y.ccb = [z.ccb EXCEPT ![k] = "CLOSED"] /\ y.out = Append(z.out, SigFrame("DISC_REQ", k))
  /\ y.lcid_mcb = z.lcid_mcb /\ y.port = z.port /\ y.port_handles = z.port_handles
  /\ y.mx.lcid = z.mx.lcid /\ y.mx.state = z.mx.state
  /\ y.mx.is_initiator = z.mx.is_initiator
  /\ y.mx.is_disc_initiator = z.mx.is_disc_initiator
  /\ y.mx.collision_outgoing_lcid = NoChannel
  /\ y.mx.collision_outgoing_conn_cnf = z.mx.collision_outgoing_conn_cnf
  /\ y.mx.collision_outgoing_cfg_complete = z.mx.collision_outgoing_cfg_complete

\* or it is past that, on a channel of its own: the incoming one is refused.
LEMMA IncomingRefused ==
  ASSUME NEW p, NEW z, IsDevice(p, z), NEW k \in Channels, z.ccb[k] = "OPEN",
         z.mx.state \in {"SABME_WAIT_UA", "CONNECTED", "DISC_WAIT_UA"}, z.mx.is_initiator,
         z.mx.collision_outgoing_lcid = NoChannel, NEW y, y = RFCOMM_ConnectInd(z, k)
  PROVE  Refused(z, y, k)
<1> USE DEF Refused
<1> DEFINE a == rfc_alloc_multiplexer_channel(z, FALSE)
           v == [a EXCEPT !.mx.collision_outgoing_lcid = a.mx.lcid, !.mx.lcid = k]
           w == L2CA_DisconnectReq(v, k)
<1>1. IsDevice(p, a) /\ FALSE \in BOOLEAN
  BY AllocKeeps
<1>2. /\ a.self = z.self /\ a.made = z.made /\ a.ccb = z.ccb /\ a.out = z.out
      /\ a.lcid_mcb = z.lcid_mcb /\ a.port = z.port /\ a.port_handles = z.port_handles
      /\ a.mx.lcid = z.mx.lcid /\ a.mx.state = z.mx.state
      /\ a.mx.is_initiator = z.mx.is_initiator
      /\ a.mx.is_disc_initiator = z.mx.is_disc_initiator
      /\ a.mx.collision_outgoing_conn_cnf = z.mx.collision_outgoing_conn_cnf
      /\ a.mx.collision_outgoing_cfg_complete = z.mx.collision_outgoing_cfg_complete
  <2>1. CASE z.mx.state = "CONNECTED"
    <3>1. a = [z EXCEPT !.mx.timer = "NONE"]
      BY <2>1 DEF rfc_alloc_multiplexer_channel
    <3> QED
      BY <3>1 DEF IsDevice, Device, Mx
  <2>2. CASE z.mx.state # "CONNECTED"
    <3>1. a = z
      BY <2>2 DEF rfc_alloc_multiplexer_channel
    <3> QED
      BY <3>1
  <2> QED
    BY <2>1, <2>2
<1>3. y = rfc_mx_collision(v)
  BY <1>2 DEF RFCOMM_ConnectInd
<1> HIDE DEF a
<1>4. IsDevice(p, v)
  BY <1>1, SetLcid, SetCollisionLcid, MxMembers DEF AnyChannel
<1>5. /\ v.self = a.self /\ v.made = a.made /\ v.ccb = a.ccb /\ v.out = a.out
      /\ v.lcid_mcb = a.lcid_mcb /\ v.port = a.port /\ v.port_handles = a.port_handles
      /\ v.mx.lcid = k /\ v.mx.state = a.mx.state
      /\ v.mx.is_initiator = a.mx.is_initiator
      /\ v.mx.is_disc_initiator = a.mx.is_disc_initiator
      /\ v.mx.collision_outgoing_lcid = a.mx.lcid
      /\ v.mx.collision_outgoing_conn_cnf = a.mx.collision_outgoing_conn_cnf
      /\ v.mx.collision_outgoing_cfg_complete = a.mx.collision_outgoing_cfg_complete
  BY <1>1 DEF IsDevice, Device, Mx
<1> HIDE DEF v
<1>6. y = [w EXCEPT !.mx.lcid = v.mx.collision_outgoing_lcid, !.mx.collision_outgoing_lcid = NoChannel]
  <2>1. w.mx = v.mx
    BY <1>4, DisconnectReqDrops
  <2> QED
    BY <1>2, <1>3, <1>5, <2>1 DEF rfc_mx_collision
<1>7. /\ IsDevice(p, w) /\ Drops(v, w, k) /\ w.mx = v.mx /\ w.lcid_mcb = v.lcid_mcb
      /\ w.port = v.port /\ w.port_handles = v.port_handles
  BY <1>4, DisconnectReqDrops
<1> HIDE DEF w
<1>8. /\ y.self = w.self /\ y.made = w.made /\ y.ccb = w.ccb /\ y.out = w.out
      /\ y.lcid_mcb = w.lcid_mcb /\ y.port = w.port /\ y.port_handles = w.port_handles
      /\ y.mx.lcid = v.mx.collision_outgoing_lcid /\ y.mx.state = w.mx.state
      /\ y.mx.is_initiator = w.mx.is_initiator
      /\ y.mx.is_disc_initiator = w.mx.is_disc_initiator
      /\ y.mx.collision_outgoing_lcid = NoChannel
      /\ y.mx.collision_outgoing_conn_cnf = w.mx.collision_outgoing_conn_cnf
      /\ y.mx.collision_outgoing_cfg_complete = w.mx.collision_outgoing_cfg_complete
  <2> DEFINE c == v.mx.collision_outgoing_lcid
             n == [w.mx EXCEPT !.lcid = c, !.collision_outgoing_lcid = NoChannel]
  <2>1. y = [w EXCEPT !.mx = n]
    BY <1>6, <1>7 DEF IsDevice, Device, Mx
  <2>2. /\ n.lcid = c /\ n.state = w.mx.state
        /\ n.is_initiator = w.mx.is_initiator
        /\ n.is_disc_initiator = w.mx.is_disc_initiator
        /\ n.collision_outgoing_lcid = NoChannel
        /\ n.collision_outgoing_conn_cnf = w.mx.collision_outgoing_conn_cnf
        /\ n.collision_outgoing_cfg_complete = w.mx.collision_outgoing_cfg_complete
    BY <1>7, Members DEF Mx
  <2> HIDE DEF n
  <2>3. /\ y.self = w.self /\ y.made = w.made /\ y.ccb = w.ccb /\ y.out = w.out
        /\ y.lcid_mcb = w.lcid_mcb /\ y.port = w.port /\ y.port_handles = w.port_handles
        /\ y.mx = n
    BY <1>7, <2>1 DEF IsDevice, Device
  <2> QED
    BY <2>2, <2>3
<1>9. /\ w.self = v.self /\ w.made = v.made /\ w.ccb = [v.ccb EXCEPT ![k] = "CLOSED"]
      /\ w.out = Append(v.out, SigFrame("DISC_REQ", k))
  BY <1>2, <1>5, <1>7 DEF Drops, DiscReq, SigFrame
<1>10. ~IsOpen(y, k)
  <2>1. z.ccb \in [Channels -> CcbStates]
    BY Members
  <2> QED
    BY <1>2, <1>5, <1>8, <1>9, <2>1 DEF IsOpen
<1> QED
  BY <1>2, <1>5, <1>7, <1>8, <1>9, <1>10

\* The incoming channel is configured and taken down at once.
LEMMA DeclinesFine ==
  ASSUME NEW e, IsEnv(e), NEW s, NEW z, NEW t, Fine(e, s), s.out \in Seq(Frame),
         z.out \in Seq(Frame), NEW k \in Channels, k[1] = e.other,
         SameBut(View(s), View(t), k), NEW g \in Frame, z.out = Append(s.out, g),
         Is(g, "CFG_RSP", k), NEW f \in Frame, t.out = Append(z.out, f), Is(f, "DISC_REQ", k),
         NEW r, Rest(e, r), Is(Head(e.in), "CFG", k), View(s)[k] = "CONFIG",
         View(t)[k] = "CLOSED"
  PROVE  Fine(r, t)
<1> DEFINE v == [View(s) EXCEPT ![k] = "WAIT_SABME"]
<1>1. /\ Added(Sent(e, s), g, Sent(e, z)) /\ g.c = k /\ Signed(z.out, e.self)
  BY SentAdded, SignedAdded DEF Fine, Is, IsData, Signals
<1>2. /\ Added(Sent(e, z), f, Sent(e, t)) /\ f.c = k /\ Signed(t.out, e.self)
  BY <1>1, SentAdded, SignedAdded DEF Is, IsData, Signals
<1>3. /\ Taken(e.in, Head(e.in), r.in) /\ e.self # e.other
      /\ r.self = e.self /\ r.other = e.other /\ r.view = e.view /\ Sent(r, t) = Sent(e, t)
  BY TailTakes DEF IsEnv, Rest, Sent
<1>4. /\ SameBut(View(s), v, k) /\ SameBut(v, View(t), k) /\ v[k] = "WAIT_SABME"
  BY DEF SameBut, View
<1> HIDE DEF v
<1>5. /\ Own(e.self, View(s), e.view, Sent(e, s), e.in)
      /\ Own(e.other, e.view, View(s), e.in, Sent(e, s))
  BY DEF Fine
<1>6. Own(e.other, e.view, v, r.in, Sent(e, z))
  BY <1>1, <1>3, <1>4, <1>5, OtherAccepts
<1>7. Own(e.other, e.view, View(t), r.in, Sent(e, t))
  BY <1>2, <1>4, <1>6, OtherDisconnects DEF OpenAtOther
<1>8. /\ Beside(Sent(e, s), Sent(e, z), k) /\ Beside(Sent(e, z), Sent(e, t), k)
      /\ Beside(e.in, r.in, k) /\ SameBut(e.view, e.view, k)
  BY <1>1, <1>2, <1>3, BesideAdded, BesideTaken DEF SameBut, Is
<1>9. Beside(Sent(e, s), Sent(e, t), k)
  BY <1>8, BesideTrans
<1>10. Own(e.self, View(t), e.view, Sent(e, t), r.in)
  BY <1>3, <1>5, <1>8, <1>9, StepElsewhere
<1> QED
  BY <1>2, <1>3, <1>7, <1>10 DEF Fine

\* A channel of the other device is configured, in whichever state of the multiplexer.
LEMMA CfgGood ==
  ASSUME NEW e, IsEnv(e), NEW s, Good(e, s), NEW r, Rest(e, r), NEW k,
         k = Head(e.in).c, Head(e.in).k = "CFG", s.ccb[k] = "CONFIG"
  PROVE  Good(r, L2capSignal(s, "CFG", k))
<1> DEFINE z == [Signal(s, "CFG_RSP", k) EXCEPT !.ccb[k] = "OPEN"]
           y == RFCOMM_ConnectInd(z, k)
           t == RFCOMM_ConfigCnf(y, k)
           w == L2capSignal(s, "CFG", k)
<1>0. IsDevice(e.self, s) /\ Fine(e, s) /\ Tidy(s) /\ r.self = e.self /\ e.self # e.other
  BY DEF Good, Rest, IsEnv
<1>1. /\ k \in Channels /\ Is(Head(e.in), "CFG", k) /\ Has(e.in, "CFG", k) /\ k[1] = e.other
      /\ k[1] # s.self /\ k # s.mx.lcid /\ k # s.mx.collision_outgoing_lcid
      /\ View(s)[k] = "CONFIG" /\ IsEnv(r)
  BY CfgFacts
<1>2. /\ IsDevice(e.self, z) /\ Turns(s, z, k, "OPEN")
      /\ z.out = Append(s.out, SigFrame("CFG_RSP", k))
  BY <1>0, <1>1, CfgAnswered
<1>3. w = IF IsOpen(y, k) THEN t ELSE y
  <2>1. Signal(s, "CFG_RSP", k).self = s.self
    BY <1>0 DEF Signal, IsDevice, Device
  <2>2. w = l2c_csm_indicate_connection_open(Signal(s, "CFG_RSP", k), k)
    BY DEF L2capSignal
  <2> QED
    BY <1>1, <2>1, <2>2 DEF l2c_csm_indicate_connection_open
<1>4. /\ s.ccb \in [Channels -> CcbStates] /\ s.mx.state \in MxStates /\ s.self = e.self
      /\ s.out \in Seq(Frame) /\ NoChannel \notin Channels
      /\ s.mx.state # "IDLE" => s.mx.lcid \in Channels
  BY <1>0, Members, MxMembers, NoChannelOut, TidyFree DEF Tidy, Neat
<1>5. IsDevice(e.self, w)
  BY <1>0, <1>1, L2capSignalKeeps
<1>y. y = RFCOMM_ConnectInd(z, k) /\ t = RFCOMM_ConfigCnf(y, k)
  OBVIOUS
<1> HIDE DEF z, y, t, w
<1>6. z.ccb[k] = "OPEN" /\ z.mx = s.mx /\ \A c \in Channels : c # k => z.ccb[c] = s.ccb[c]
  BY <1>1, <1>2, <1>4 DEF Turns
<1>a. CASE s.mx.state = "IDLE"
  <2>1. /\ IsOpen(y, k) /\ Incoming(z, t, k) /\ t.mx.is_disc_initiator = FALSE
        /\ t.mx.collision_outgoing_lcid = NoChannel
        /\ t.mx.collision_outgoing_conn_cnf = FALSE
        /\ t.mx.collision_outgoing_cfg_complete = FALSE
    <3>1. z.mx.state = "IDLE" /\ z.ccb[k] = "OPEN" /\ k \in Channels
      BY <1>a, <1>1, <1>6
    <3>2. IsDevice(e.self, z)
      BY <1>2
    <3>3. y = RFCOMM_ConnectInd(z, k) /\ t = RFCOMM_ConfigCnf(y, k)
      BY <1>y
    <3> QED
      BY ONLY <3>1, <3>2, <3>3, IncomingFresh, ZenonT(60)
  <2>2. w = t /\ IsDevice(e.self, t)
    BY <1>3, <1>5, <2>1
  <2>3. Accepts(s, t, k)
    BY <1>2, <2>1 DEF Accepts, Incoming, Turns
  <2>4. Aside(t)
    BY <2>1 DEF Aside
  <2>5. Elsewhere(s, t, k)
    <3>1. s.mx.collision_outgoing_lcid = NoChannel
      BY <1>0, <1>a DEF Tidy, Neat, Aside
    <3>2. \A c \in Channels : ~Live(s, c) /\ ~Live(t, c)
      BY <1>4, <1>a, <2>1, <3>1 DEF Live, Incoming
    <3>3. /\ t.self = s.self /\ t.made = s.made /\ t.mx.lcid = k
          /\ \A c \in Channels : c # k => t.ccb[c] = s.ccb[c]
      BY <1>2, <1>6, <2>1 DEF Incoming, Turns
    <3> QED
      BY <1>a, <3>2, <3>3 DEF Elsewhere, Status
  <2>6. Fine(r, t) /\ Neat(t)
    BY <1>0, <1>1, <2>2, <2>3, <2>4, <2>5, AcceptNeat DEF Tidy, Neat
  <2>7. Settled(t) /\ Watch(t)
    BY <2>1 DEF Settled, Watch, Stray, Incoming
  <2> QED
    BY <1>0, <2>2, <2>6, <2>7 DEF Good, Tidy, w
<1>b. CASE s.mx.state = "WAIT_CONN_CNF"
  <2>0. /\ s.mx.is_initiator /\ s.mx.collision_outgoing_lcid = NoChannel
        /\ s.mx.lcid[1] = s.self /\ s.ccb[s.mx.lcid] \in {"W4_CONNECT_RSP", "CONFIG"}
        /\ ~s.mx.collision_outgoing_conn_cnf /\ ~s.mx.collision_outgoing_cfg_complete
        /\ s.mx.lcid \in Channels
    BY <1>0, <1>4, <1>b DEF Tidy, Neat, Placed, Aside, Role
  <2>1. /\ IsOpen(y, k) /\ Incoming(z, t, k)
        /\ t.mx.is_disc_initiator = z.mx.is_disc_initiator
        /\ t.mx.collision_outgoing_lcid = z.mx.lcid
        /\ t.mx.collision_outgoing_conn_cnf = z.mx.collision_outgoing_conn_cnf
        /\ t.mx.collision_outgoing_cfg_complete = z.mx.collision_outgoing_cfg_complete
    BY <1>b, <1>1, <1>2, <1>6, <1>y, <2>0, IncomingCollides
  <2>2. w = t /\ IsDevice(e.self, t)
    BY <1>3, <1>5, <2>1
  <2>3. Accepts(s, t, k)
    BY <1>2, <2>1 DEF Accepts, Incoming, Turns
  <2>a. /\ t.self = s.self /\ t.made = s.made /\ t.mx.lcid = k
        /\ \A c \in Channels : c # k => t.ccb[c] = s.ccb[c]
    BY <1>2, <1>6, <2>1 DEF Incoming, Turns
  <2>4. Aside(t)
    BY <1>1, <1>4, <1>6, <2>0, <2>1, <2>a DEF Aside, Incoming
  <2>5. Elsewhere(s, t, k)
    <3>2. \A c \in Channels : c # k => (Live(s, c) <=> c = s.mx.lcid) /\ (Live(t, c) <=> c = s.mx.lcid)
      BY <1>4, <1>6, <1>b, <2>0, <2>1 DEF Live, Incoming
    <3> QED
      BY <1>b, <2>0, <2>a, <3>2 DEF Elsewhere, Status
  <2>6. Fine(r, t) /\ Neat(t)
    BY <1>0, <1>1, <2>2, <2>3, <2>4, <2>5, AcceptNeat DEF Tidy, Neat
  <2>7. Settled(t) /\ Watch(t)
    BY <1>0, <1>6, <2>1 DEF Tidy, Settled, Watch, Stray, Incoming
  <2> QED
    BY <1>0, <2>2, <2>6, <2>7 DEF Good, Tidy, w
<1>c. CASE s.mx.state \in {"SABME_WAIT_UA", "CONNECTED", "DISC_WAIT_UA"} /\ s.mx.is_initiator
  <2>0. s.mx.collision_outgoing_lcid = NoChannel
    BY <1>0, <1>c DEF Tidy, Neat, Aside
  <2>1. /\ ~IsOpen(y, k) /\ y.self = z.self /\ y.made = z.made
        /\ y.ccb = [z.ccb EXCEPT ![k] = "CLOSED"] /\ y.out = Append(z.out, SigFrame("DISC_REQ", k))
        /\ y.lcid_mcb = z.lcid_mcb /\ y.port = z.port /\ y.port_handles = z.port_handles
        /\ y.mx.lcid = z.mx.lcid /\ y.mx.state = z.mx.state
        /\ y.mx.is_initiator = z.mx.is_initiator
        /\ y.mx.is_disc_initiator = z.mx.is_disc_initiator
        /\ y.mx.collision_outgoing_lcid = NoChannel
        /\ y.mx.collision_outgoing_conn_cnf = z.mx.collision_outgoing_conn_cnf
        /\ y.mx.collision_outgoing_cfg_complete = z.mx.collision_outgoing_cfg_complete
    <3>1. /\ z.mx.state \in {"SABME_WAIT_UA", "CONNECTED", "DISC_WAIT_UA"}
          /\ z.mx.collision_outgoing_lcid = NoChannel /\ z.ccb[k] = "OPEN" /\ k \in Channels
      BY <1>c, <1>1, <1>6, <2>0
    <3>2. IsDevice(e.self, z) /\ z.mx.is_initiator
      BY <1>2, <1>6, <1>c
    <3>3. y = RFCOMM_ConnectInd(z, k)
      BY <1>y
    <3> QED
      <4>1. Refused(z, y, k)
        BY ONLY <3>1, <3>2, <3>3, IncomingRefused
      <4> QED
        BY <4>1 DEF Refused
  <2>2. w = y /\ IsDevice(e.self, y)
    BY <1>3, <1>5, <2>1
  <2>3. /\ y.self = s.self /\ y.made = s.made /\ y.ccb = [s.ccb EXCEPT ![k] = "CLOSED"]
        /\ y.lcid_mcb = s.lcid_mcb /\ y.port = s.port /\ y.port_handles = s.port_handles
        /\ y.ccb[k] = "CLOSED" /\ \A c \in Channels : c # k => y.ccb[c] = s.ccb[c]
    BY <1>1, <1>2, <1>4, <2>1 DEF Turns
  <2>4. Elsewhere(s, y, k) /\ Status(y, k) = "CLOSED"
    <3>1. \A c \in Channels : Live(y, c) <=> Live(s, c)
      BY <1>6, <2>0, <2>1 DEF Live
    <3> QED
      BY <1>1, <1>6, <2>1, <2>3, <3>1 DEF Elsewhere, Status
  <2>5. SameBut(View(s), View(y), k) /\ View(y)[k] = "CLOSED"
    BY <1>1, <2>4 DEF SameBut, View, Elsewhere
  <2>6. Fine(r, y)
    <3>1. "CFG_RSP" \in Signals /\ "DISC_REQ" \in Signals
      BY DEF Signals
    <3>2. z.out \in Seq(Frame)
      BY <1>2, Members
    <3> DEFINE g == SigFrame("CFG_RSP", k)
               f == SigFrame("DISC_REQ", k)
    <3>3. g \in Frame /\ Is(g, "CFG_RSP", k) /\ f \in Frame /\ Is(f, "DISC_REQ", k)
      BY <1>1, <3>1, SigFrameIs
    <3>4. z.out = Append(s.out, g) /\ y.out = Append(z.out, f)
      BY <1>2, <2>1
    <3>5. Fine(e, s) /\ s.out \in Seq(Frame) /\ k \in Channels /\ k[1] = e.other
      BY <1>0, <1>1, <1>4
    <3>6. Is(Head(e.in), "CFG", k) /\ View(s)[k] = "CONFIG"
      BY <1>1
    <3> HIDE DEF g, f
    <3> QED
      BY <2>5, <3>2, <3>3, <3>4, <3>5, <3>6, DeclinesFine
  <2>7. Role(y) /\ Unopened(y) /\ Settled(y)
    BY <1>0, <1>1, <1>6, <2>1, <2>3 DEF Tidy, Neat, Role, Unopened, Settled
  <2>8. Placed(y) /\ Aside(y)
    BY <1>0, <1>1, <1>4, <1>6, <1>c, <2>0, <2>1, <2>3 DEF Tidy, Neat, Placed, Aside
  <2>9. Watch(y)
    BY <1>4, <1>6, <1>c, <2>1 DEF Watch, Stray
  <2> QED
    BY <1>0, <2>2, <2>6, <2>7, <2>8, <2>9 DEF Good, Tidy, Neat, w
<1>d. CASE s.mx.state = "WAIT_SABME"
  <2> DEFINE b == s.mx.lcid
             m == [s EXCEPT !.mx.lcid = NoChannel]
  <2>0. /\ ~s.mx.is_initiator /\ b \in Channels /\ b[1] # s.self /\ s.ccb[b] = "OPEN"
        /\ b # s.mx.collision_outgoing_lcid
    BY <1>0, <1>4, <1>d DEF Tidy, Neat, Placed, Aside, Role
  <2>1. /\ IsOpen(y, k) /\ IsDevice(e.self, y) /\ t = GiveUpIncoming(y)
        /\ y.self = z.self /\ y.made = z.made /\ y.ccb = z.ccb /\ y.out = z.out
        /\ y.mx.lcid = k /\ k \in y.lcid_mcb /\ y.mx.state = "WAIT_SABME"
        /\ y.mx.is_initiator = z.mx.is_initiator
        /\ y.mx.is_disc_initiator = z.mx.is_disc_initiator
        /\ y.mx.collision_outgoing_lcid = z.mx.collision_outgoing_lcid
        /\ y.mx.collision_outgoing_conn_cnf = z.mx.collision_outgoing_conn_cnf
        /\ y.mx.collision_outgoing_cfg_complete = z.mx.collision_outgoing_cfg_complete
    BY <1>d, <1>1, <1>2, <1>6, <1>y, <2>0, IncomingReplaces
  <2>2. IsDevice(e.self, m)
    BY <1>0, SetLcid DEF AnyChannel
  <2>3. /\ m.self = s.self /\ m.made = s.made /\ m.ccb = s.ccb /\ m.out = s.out
        /\ m.mx.lcid = NoChannel /\ m.mx.state = s.mx.state
        /\ m.mx.collision_outgoing_lcid = s.mx.collision_outgoing_lcid
    BY <1>0 DEF IsDevice, Device, Mx
  <2> HIDE DEF m
  <2>4. \A c \in Channels : (Live(m, c) <=> Live(s, c)) /\ (Live(y, c) <=> Live(s, c))
    BY <1>6, <1>d, <2>1, <2>3 DEF Live
  <2>5. /\ SameBut(View(s), View(m), b) /\ View(s)[b] = "WAIT_SABME" /\ View(m)[b] = "SPARE"
        /\ View(m)[k] = "CONFIG"
    <3>1. \A c \in Channels : c # b => Status(m, c) = Status(s, c)
      BY <1>4, <2>3, <2>4 DEF Status
    <3>2. Status(s, b) = "WAIT_SABME" /\ Status(m, b) = "SPARE"
      BY <1>4, <1>d, <2>0, <2>3 DEF Status, Live
    <3> QED
      BY <1>1, <2>0, <3>1, <3>2 DEF SameBut, View
  <2>6. Fine(e, m)
    <3>1. b[1] = e.other
      BY <1>4, <2>0 DEF IsEnv, Channels
    <3> HIDE DEF b
    <3> QED
      BY <1>0, <1>1, <1>4, <2>0, <2>3, <2>5, <3>1, LeavesFine DEF b
  <2>7. Accepts(m, y, k)
    BY <1>2, <1>6, <2>0, <2>1, <2>3 DEF Accepts, Turns
  <2>a. /\ y.self = s.self /\ y.made = s.made
        /\ \A c \in Channels : c # k => y.ccb[c] = s.ccb[c]
    BY <1>2, <1>6, <2>1 DEF Turns
  <2>8. Elsewhere(m, y, k)
    BY <1>4, <2>1, <2>3, <2>4, <2>a DEF Elsewhere, Status
  <2>9. Aside(y)
    <3>1. s.mx.collision_outgoing_lcid # NoChannel =>
            s.mx.collision_outgoing_lcid \in Channels /\ s.mx.collision_outgoing_lcid # k
      BY <1>0, <1>1, MxMembers DEF AnyChannel
    <3> QED
      BY <1>0, <1>6, <1>d, <2>1, <2>a, <3>1 DEF Tidy, Neat, Aside
  <2>10. Unopened(m)
    BY <1>0, <2>3 DEF Tidy, Neat, Unopened
  <2>11. Fine(r, y) /\ Neat(y)
    BY <1>0, <1>1, <2>1, <2>2, <2>5, <2>6, <2>7, <2>8, <2>9, <2>10, AcceptNeat
  <2>12. Settled(y)
    BY <1>0, <1>6, <2>1 DEF Tidy, Settled
  <2>13. Good(r, GiveUpIncoming(y))
    BY <1>0, <1>1, <2>1, <2>11, <2>12, GiveUpIncomingGood
  <2> QED
    BY <1>3, <2>1, <2>13 DEF w
<1>f. CASE s.mx.state \in {"CONNECTED", "DISC_WAIT_UA"} /\ ~s.mx.is_initiator
  <2> DEFINE b == s.mx.lcid
  <2>1. b \in Channels /\ b[1] # s.self /\ s.ccb[b] = "OPEN"
    BY <1>0, <1>4, <1>f DEF Tidy, Neat, Placed, Role
  <2>2. b[1] = e.other /\ b # k
    BY <1>1, <1>4, <2>1 DEF IsEnv, Channels
  <2>3. View(s)[b] = s.mx.state
    <3>1. Speaks(s) /\ IsOpen(s, b)
      BY <1>0, <2>1, NeatSpeaks DEF Tidy, IsOpen
    <3> QED
      BY <3>1, LcidStatus
  <2>4. Ordered(b, k, e.view, View(s), e.in, Sent(e, s))
    BY <1>0, <1>1, <2>1, <2>2 DEF Fine, Own
  <2>5. Preceded(e.in, "CFG", k, "DISC_REQ", "DISC_REQ", b)
    BY <1>f, <2>3, <2>4 DEF Ordered, Engaged
  <2>6. Taken(e.in, Head(e.in), r.in)
    BY RestEnv
  <2> QED
    BY <1>1, <2>5, <2>6 DEF Taken, Is
<1>g. s.mx.state \in {"IDLE", "WAIT_CONN_CNF", "SABME_WAIT_UA", "WAIT_SABME", "CONNECTED", "DISC_WAIT_UA"}
  BY <1>0, <1>4 DEF Tidy, Neat, Placed, MxStates
<1>h. s.mx.state = "SABME_WAIT_UA" => s.mx.is_initiator
  BY <1>0, <1>4 DEF Tidy, Neat, Placed, Role
<1> QED
  BY <1>a, <1>b, <1>c, <1>d, <1>f, <1>g, <1>h

-----------------------------------------------------------------------------
(* A frame is dealt with *)

\* A signal of L2CAP.
LEMMA SignalGood ==
  ASSUME NEW e, IsEnv(e), NEW s, Good(e, s), NEW r, Rest(e, r), NEW f, f = Head(e.in),
         f.k \in Signals
  PROVE  Good(r, Deliver(s, f))
<1>1. PICK k : k = f.c
  OBVIOUS
<1>2. PICK j \in Signals : j = f.k
  OBVIOUS
<1>3. Deliver(s, f) = L2capSignal(s, j, k) /\ k = Head(e.in).c /\ Head(e.in).k = j
  BY <1>1, <1>2 DEF Deliver
<1>a. CASE j = "CONN_REQ"
  BY <1>a, <1>3, ConnReqGood
<1>b. CASE j = "CONN_RSP" /\ s.ccb[k] = "W4_CONNECT_RSP"
  BY <1>b, <1>3, ConnRspGood
<1>c. CASE j \in {"CONN_RSP_NEG", "DISC_REQ"} /\ (j = "CONN_RSP_NEG" => s.ccb[k] = "W4_CONNECT_RSP")
           /\ s.ccb[k] # "CLOSED"
  BY <1>c, <1>3, LosingGood
<1>d. CASE j = "CFG" /\ s.ccb[k] = "CONFIG"
  BY <1>d, <1>3, CfgGood
<1>e. CASE j = "CFG_RSP" /\ s.ccb[k] = "CONFIG"
  BY <1>e, <1>3, CfgRspGood
<1>f. CASE /\ j # "CONN_REQ"
           /\ j \in {"CONN_RSP", "CONN_RSP_NEG"} => s.ccb[k] # "W4_CONNECT_RSP"
           /\ j \in {"CFG", "CFG_RSP"} => s.ccb[k] # "CONFIG"
           /\ j = "DISC_REQ" => s.ccb[k] = "CLOSED"
  BY <1>f, <1>3, SpareSignalGood
<1> QED
  BY <1>a, <1>b, <1>c, <1>d, <1>e, <1>f DEF Signals

\* The states of a multiplexer that answers on its channel.
Answering == {"WAIT_SABME", "SABME_WAIT_UA", "CONNECTED", "DISC_WAIT_UA"}

\* A frame on a channel that is not open, or not that of the multiplexer.
LEMMA UnusedGood ==
  ASSUME NEW e, IsEnv(e), NEW s, Good(e, s), NEW r, Rest(e, r), NEW f, f = Head(e.in),
         f.k \notin Signals, ~IsOpen(s, f.c) \/ ~rfc_find_lcid_mcb(s, f.c)
  PROVE  Good(r, Deliver(s, f))
<1>1. f.c \in Channels /\ IsDevice(e.self, s) /\ Placed(s) /\ Aside(s)
  BY RestEnv DEF Good, Tidy, Neat
<1>2. Deliver(s, f) = s
  BY DEF Deliver, RFCOMM_BufDataInd
<1>3. View(s)[f.c] \notin Answering
  <2>1. View(s)[f.c] = Status(s, f.c) /\ s.ccb[f.c] \in CcbStates
    BY <1>1, StatusOf
  <2>2. CASE s.ccb[f.c] # "OPEN"
    BY <1>1, <2>1, <2>2, StatusOf DEF Answering, Asking, Configuring, CcbStates
  <2>3. CASE s.ccb[f.c] = "OPEN"
    <3>1. ~(f.c = s.mx.lcid /\ s.mx.state # "IDLE")
      BY <1>1, <2>3 DEF IsOpen, rfc_find_lcid_mcb, Placed
    <3> QED
      BY <2>1, <2>3, <3>1 DEF Status, Answering
  <2> QED
    BY <2>2, <2>3
<1>4. Answered(e, s)
  BY <1>3 DEF Answered, Answering, Signals
<1> QED
  BY <1>2, <1>4, AnsweredGood

\* The channel is that of the multiplexer.
LEMMA UsedFacts ==
  ASSUME NEW e, IsEnv(e), NEW s, Good(e, s), NEW r, Rest(e, r), NEW f, f = Head(e.in),
         f.k \notin Signals, IsOpen(s, f.c), rfc_find_lcid_mcb(s, f.c)
  PROVE  /\ f.c = s.mx.lcid /\ f.c \in Channels /\ IsOpen(s, s.mx.lcid)
         /\ View(s)[f.c] = s.mx.state /\ s.mx.state \in Answering
         /\ s.mx.is_initiator <=> f.c[1] = e.self
         /\ f.c[1] = e.self \/ f.c[1] = e.other
         /\ s.mx.state = "WAIT_SABME" => f.c[1] = e.other /\ Is(f, "SABME", f.c)
         /\ s.mx.state = "SABME_WAIT_UA" => f.c[1] = e.self
         /\ s.mx.state \in Engaged => Free(s)
         /\ s.mx.state # "WAIT_SABME" => Free(s) /\ s.mx.collision_outgoing_lcid = NoChannel
<1>1. /\ IsDevice(e.self, s) /\ Neat(s) /\ Placed(s) /\ Aside(s) /\ Speaks(s) /\ s.self = e.self
      /\ s.mx.state \in MxStates /\ Fine(e, s)
  BY NeatSpeaks, OwnMembers DEF Good, Tidy, Neat
<1>2. /\ f.c = s.mx.lcid /\ IsOpen(s, s.mx.lcid) /\ f.c \in Channels
      /\ f.c[1] = e.self \/ f.c[1] = e.other
  BY RestEnv DEF rfc_find_lcid_mcb
<1>3. View(s)[f.c] = s.mx.state /\ (s.mx.is_initiator <=> f.c[1] = e.self)
  BY <1>1, <1>2, LcidStatus
<1>4. s.mx.state \in Answering
  BY <1>1, <1>2 DEF Answering, MxStates, Speaks
<1>5. ASSUME s.mx.state = "WAIT_SABME" PROVE f.c[1] = e.other /\ Is(f, "SABME", f.c)
  <2>1. f.c[1] = e.other
    BY <1>1, <1>2, <1>5 DEF Placed
  <2>2. Led(e.in, f.c)
    BY <1>1, <1>2, <1>3, <1>5, <2>1 DEF Fine, Own, At, Awaited
  <2>3. Taken(e.in, f, r.in) /\ IsData(f, f.c)
    BY RestEnv DEF IsData
  <2> QED
    BY <2>1, <2>2, <2>3 DEF Taken
<1>6. s.mx.state # "WAIT_SABME" => Free(s) /\ s.mx.collision_outgoing_lcid = NoChannel
  BY <1>1, TidyFree DEF Aside
<1> QED
  BY <1>1, <1>2, <1>3, <1>4, <1>5, <1>6 DEF Placed, Engaged

\* A frame of a port is delivered,
LEMMA PortFrameDelivered ==
  ASSUME NEW e, IsEnv(e), NEW s, Good(e, s), NEW r, Rest(e, r), NEW f, f = Head(e.in),
         f.k \notin Signals, IsOpen(s, f.c), rfc_find_lcid_mcb(s, f.c), f.d # 0
  PROVE  IsDevice(e.self, Deliver(s, f)) /\ Calm(e, s, Deliver(s, f)) /\ f.d \in Dlcis
<1> DEFINE t == Deliver(s, f)
<1>1. IsDevice(e.self, s) /\ Settled(s)
  BY DEF Good, Tidy
<1>2. Free(s)
  BY UsedFacts DEF Is
<1>3. f \in Frame /\ f.d \in Dlcis /\ f.c \in Channels
  BY RestEnv DEF Frame, AnyFrame
<1>4. \/ t = rfc_process_pn(s, f.k, f.d) \/ t = rfc_process_msc(s, f.k, f.d) \/ t = s
      \/ t = PortFrame(s, f.k, f.d)
  BY DEF Deliver, RFCOMM_BufDataInd
<1>5. PICK j : j = f.k
  OBVIOUS
<1>6. PICK d \in Dlcis : d = f.d
  BY <1>3
<1>7. \/ t = rfc_process_pn(s, j, d) \/ t = rfc_process_msc(s, j, d) \/ t = s
      \/ t = PortFrame(s, j, d)
  BY <1>4, <1>5, <1>6
<1> HIDE DEF t
<1>8. IsDevice(e.self, t) /\ Calm(e, s, t)
  <2>1. CASE t = rfc_process_pn(s, j, d)
    BY <1>1, <1>2, <2>1, ProcessPnKeeps, ProcessPnCalm
  <2>2. CASE t = rfc_process_msc(s, j, d)
    BY <1>1, <1>2, <2>2, ProcessMscKeeps, ProcessMscCalm
  <2>3. CASE t = s
    BY <1>1, <2>3, CalmSelf
  <2>4. CASE t = PortFrame(s, j, d)
    BY <1>1, <1>2, <2>4, PortFrameKeeps, PortFrameCalm
  <2> QED
    BY <1>7, <2>1, <2>2, <2>3, <2>4
<1> QED
  BY <1>3, <1>8 DEF t

\* and the device is at rest again.
LEMMA PortFrameGood ==
  ASSUME NEW e, IsEnv(e), NEW s, Good(e, s), NEW r, Rest(e, r), NEW f, f = Head(e.in),
         f.k \notin Signals, IsOpen(s, f.c), rfc_find_lcid_mcb(s, f.c), f.d # 0
  PROVE  Good(r, Deliver(s, f))
<1> DEFINE t == Deliver(s, f)
<1>1. IsDevice(e.self, t) /\ Calm(e, s, t) /\ f.d \in Dlcis
  BY PortFrameDelivered
<1> HIDE DEF t
<1>2. Good(e, t)
  BY <1>1, CalmGood
<1>3. Answered(e, t)
  BY <1>1 DEF Answered, Signals, Dlcis
<1> QED
  BY <1>2, <1>3, AnsweredGood DEF t

\* A frame on DLCI 0 of the channel in use, which the state machine of the
\* multiplexer sees.
MuxFrame(e, s, r, f) ==
  /\ IsEnv(e) /\ Good(e, s) /\ Rest(e, r) /\ f = Head(e.in) /\ f.k \notin Signals
  /\ IsOpen(s, f.c) /\ rfc_find_lcid_mcb(s, f.c) /\ f.d = 0

\* What is known of a frame on DLCI 0 that reaches the multiplexer.
LEMMA MuxFrameFacts ==
  ASSUME NEW e, NEW s, NEW r, NEW f, MuxFrame(e, s, r, f)
  PROVE  /\ f.c = s.mx.lcid /\ f.c \in Channels /\ IsOpen(s, s.mx.lcid) /\ IsEnv(e) /\ IsEnv(r)
         /\ f = Head(e.in) /\ r.self = e.self /\ r.other = e.other /\ Rest(e, r)
         /\ View(s)[f.c] = s.mx.state /\ s.mx.state \in Answering
         /\ s.mx.is_initiator <=> f.c[1] = e.self
         /\ f.c[1] = e.self \/ f.c[1] = e.other
         /\ f.k \in PortFrames /\ Is(f, f.k, f.c) /\ Has(e.in, f.k, f.c)
         /\ s.self = e.self /\ e.self # e.other
         /\ IsDevice(e.self, s) /\ Fine(e, s) /\ Neat(s) /\ Settled(s) /\ Watch(s) /\ Good(e, s)
         /\ s.out \in Seq(Frame) /\ s.mx.state \in MxStates /\ s.ccb \in [Channels -> CcbStates]
         /\ NoChannel \notin Channels
<1>1. IsEnv(e) /\ Good(e, s) /\ Rest(e, r) /\ f = Head(e.in) /\ f.k \notin Signals
  BY DEF MuxFrame
<1>2. IsOpen(s, f.c) /\ rfc_find_lcid_mcb(s, f.c) /\ f.d = 0
  BY DEF MuxFrame
<1>3. /\ f.c = s.mx.lcid /\ f.c \in Channels /\ IsOpen(s, s.mx.lcid)
      /\ View(s)[f.c] = s.mx.state /\ s.mx.state \in Answering
      /\ s.mx.is_initiator <=> f.c[1] = e.self
      /\ f.c[1] = e.self \/ f.c[1] = e.other
  BY <1>1, <1>2, UsedFacts
<1>4. IsEnv(r) /\ f \in Frame /\ Has(e.in, f.k, f.c)
  BY <1>1, <1>2, RestEnv
<1>5. f.k \in PortFrames
  BY <1>1, <1>2, <1>4 DEF Frame, AnyFrame, Dlcis
<1>6. /\ IsDevice(e.self, s) /\ Fine(e, s) /\ Neat(s) /\ Settled(s) /\ Watch(s) /\ Good(e, s)
      /\ r.self = e.self /\ r.other = e.other /\ e.self # e.other
  BY <1>1 DEF Good, Tidy, Rest, IsEnv
<1>7. /\ s.out \in Seq(Frame) /\ s.mx.state \in MxStates /\ s.ccb \in [Channels -> CcbStates]
      /\ NoChannel \notin Channels /\ s.self = e.self
  BY <1>1, <1>6, OwnMembers
<1> QED
  BY <1>1, <1>2, <1>3, <1>4, <1>5, <1>6, <1>7 DEF Is

\* It is of the right direction.
LEMMA MuxFrameDelivered ==
  ASSUME NEW e, NEW s, NEW r, NEW f, MuxFrame(e, s, r, f), Signed(e.in, e.other)
  PROVE  Deliver(s, f) = rfc_mx_frame(s, f.k)
<1>1. /\ IsOpen(s, f.c) /\ rfc_find_lcid_mcb(s, f.c) /\ f.d = 0 /\ f.k \notin Signals
  BY DEF MuxFrame
<1>2. /\ s.mx.is_initiator <=> f.c[1] = e.self
      /\ f.c[1] = e.self \/ f.c[1] = e.other
      /\ e.self # e.other /\ f.k \in PortFrames
  BY MuxFrameFacts
<1>3. f.initiator <=> f.c[1] = e.other
  <2>1. e.in \in Seq(Frame) /\ e.in # <<>> /\ f = Head(e.in)
    BY DEF MuxFrame, IsEnv, Rest
  <2>2. f = e.in[1] /\ 1 \in 1 .. Len(e.in)
    BY <2>1
  <2> QED
    BY <1>1, <2>2 DEF Signed
<1>4. f.initiator # s.mx.is_initiator
  BY <1>2, <1>3
<1>5. ~BadFrame(s, f)
  BY <1>4 DEF BadFrame
<1>6. f.k \notin {"PN", "PN_RSP"} /\ f.k \notin {"MSC", "MSC_RSP"}
  BY <1>2 DEF PortFrames
<1>7. RFCOMM_BufDataInd(s, f) = rfc_mx_frame(s, f.k)
  BY <1>1, <1>5, <1>6 DEF RFCOMM_BufDataInd
<1> QED
  BY <1>1, <1>7 DEF Deliver

\* DM for a SABME.
LEMMA RejectedGood ==
  ASSUME NEW e, NEW s, NEW r, NEW f, MuxFrame(e, s, r, f), f.k = "DM",
         s.mx.state = "SABME_WAIT_UA"
  PROVE  Good(r, rfc_mx_frame(s, "DM"))
<1> DEFINE m == [s EXCEPT !.mx.timer = "NONE"]
<1>1. /\ f.c = s.mx.lcid /\ f.c \in Channels /\ IsEnv(e) /\ IsEnv(r) /\ Rest(e, r)
      /\ Good(e, s) /\ f = Head(e.in)
  BY MuxFrameFacts
<1>2. rfc_mx_frame(s, "DM") = StartFailed(m)
  BY DEF rfc_mx_frame
<1>3. /\ Good(e, m) /\ m.mx.state = "SABME_WAIT_UA" /\ m.mx.lcid = s.mx.lcid
  BY <1>1, StoppedNeat
<1> HIDE DEF m
<1>4. Answered(e, m)
  <2>1. View(m)[f.c] # "DISC_WAIT_UA"
    BY <1>1, <1>3 DEF View, Status
  <2> QED
    BY <1>1, <2>1 DEF Answered
<1>5. Good(r, m)
  BY <1>1, <1>3, <1>4, AnsweredGood
<1> QED
  BY <1>1, <1>2, <1>3, <1>5, StartFailedOver DEF Good, Tidy

\* An answer to DISC.
LEMMA DisconnectedGood ==
  ASSUME NEW e, NEW s, NEW r, NEW f, MuxFrame(e, s, r, f), NEW j, j = f.k, j \in {"UA", "DM"},
         s.mx.state = "DISC_WAIT_UA"
  PROVE  LET t == rfc_mx_frame(s, j) IN Good(r, t) \/ Stray(t)
<1> DEFINE u == L2CA_DisconnectReq(s, s.mx.lcid)
<1>1. /\ f.c = s.mx.lcid /\ f.c \in Channels /\ IsEnv(e) /\ IsEnv(r) /\ Rest(e, r)
      /\ Good(e, s) /\ f = Head(e.in) /\ r.self = e.self /\ Neat(s) /\ Settled(s)
      /\ IsDevice(e.self, s) /\ Fine(e, s)
  BY MuxFrameFacts
<1>2. rfc_mx_frame(s, j) = rfc_mx_disconnected(s)
  BY DEF rfc_mx_frame
<1>3. IsDevice(e.self, u) /\ Fine(e, u) /\ u.ccb[s.mx.lcid] = "CLOSED"
  BY <1>1, LcidDropped
<1>u. u = L2CA_DisconnectReq(s, s.mx.lcid)
  OBVIOUS
<1> HIDE DEF u
<1>4. Answered(e, u)
  <2>1. View(u)[f.c] \in {"NEW", "CLOSED"}
    BY <1>1, <1>3, StatusOf
  <2> QED
    BY <1>1, <2>1 DEF Answered
<1>5. u.out \in Seq(Frame)
  BY <1>3, Members
<1>6. Fine(r, u)
  BY <1>1, <1>3, <1>4, <1>5, AnsweredFine
<1> QED
  BY <1>1, <1>2, <1>6, <1>u, AfterDisconnected

\* The multiplexer is connected, and its timer stopped.
LEMMA ConnectedIs ==
  ASSUME NEW p, NEW s, IsDevice(p, s), NEW t,
         t = [[s EXCEPT !.mx.timer = "NONE"] EXCEPT !.mx.state = "CONNECTED"]
  PROVE  IsDevice(p, t) /\ Restated(s, t, "CONNECTED", "NONE")
<1> DEFINE m == [s EXCEPT !.mx.timer = "NONE"]
<1>1. IsDevice(p, m)
  BY SetMxTimer DEF MxTimers
<1>2. Restated(s, m, s.mx.state, "NONE")
  <2> DEFINE n == [s.mx EXCEPT !.timer = "NONE"]
  <2>1. m = [s EXCEPT !.mx = n]
    OBVIOUS
  <2>2. s \in Device(p) /\ s.mx \in Mx
    BY Members DEF IsDevice
  <2>3. /\ n.state = s.mx.state /\ n.timer = "NONE" /\ n.lcid = s.mx.lcid
        /\ n.is_initiator = s.mx.is_initiator /\ n.is_disc_initiator = s.mx.is_disc_initiator
        /\ n.restart_required = s.mx.restart_required
        /\ n.collision_outgoing_lcid = s.mx.collision_outgoing_lcid
        /\ n.collision_outgoing_conn_cnf = s.mx.collision_outgoing_conn_cnf
        /\ n.collision_outgoing_cfg_complete = s.mx.collision_outgoing_cfg_complete
    BY <2>2 DEF Mx
  <2> HIDE DEF n, m
  <2> QED
    BY <2>1, <2>2, <2>3 DEF Restated, Device
<1>3. t = [m EXCEPT !.mx.state = "CONNECTED"]
  OBVIOUS
<1> HIDE DEF m
<1>4. IsDevice(p, t)
  <2>1. "CONNECTED" \in MxStates
    BY DEF MxStates
  <2>2. IsDevice(p, [m EXCEPT !.mx.state = "CONNECTED"])
    BY <1>1, <2>1, SetState
  <2> QED
    BY <1>3, <2>2
<1>5. Restated(m, t, "CONNECTED", m.mx.timer)
  <2> DEFINE n == [m.mx EXCEPT !.state = "CONNECTED"]
  <2>1. t = [m EXCEPT !.mx = n]
    BY <1>3
  <2>2. m \in Device(p) /\ m.mx \in Mx
    BY <1>1, Members DEF IsDevice
  <2>3. /\ n.timer = m.mx.timer /\ n.state = "CONNECTED" /\ n.lcid = m.mx.lcid
        /\ n.is_initiator = m.mx.is_initiator /\ n.is_disc_initiator = m.mx.is_disc_initiator
        /\ n.restart_required = m.mx.restart_required
        /\ n.collision_outgoing_lcid = m.mx.collision_outgoing_lcid
        /\ n.collision_outgoing_conn_cnf = m.mx.collision_outgoing_conn_cnf
        /\ n.collision_outgoing_cfg_complete = m.mx.collision_outgoing_cfg_complete
    BY <2>2 DEF Mx
  <2> HIDE DEF n
  <2> QED
    BY <2>1, <2>2, <2>3 DEF Restated, Device
<1>6. m.mx.timer = "NONE"
  BY <1>2 DEF Restated
<1>7. Restated(m, t, "CONNECTED", "NONE")
  BY <1>5, <1>6
<1>8. Restated(s, t, "CONNECTED", "NONE")
  BY <1>2, <1>7, Zenon DEF Restated
<1> QED
  BY <1>4, <1>8

\* A multiplexer that is connected is at rest.
LEMMA ConnectedTidy ==
  ASSUME NEW e, IsEnv(e), NEW s, IsDevice(e.self, s), Neat(s), Settled(s), NEW t,
         s.mx.lcid \in Channels,
         IsOpen(s, s.mx.lcid), t.self = s.self, t.made = s.made, t.ccb = s.ccb,
         t.mx.lcid \in t.lcid_mcb, t.mx.lcid = s.mx.lcid,
         t.mx.state = "CONNECTED", t.mx.is_initiator = s.mx.is_initiator,
         t.mx.is_disc_initiator = s.mx.is_disc_initiator,
         t.mx.collision_outgoing_lcid = NoChannel,
         ~t.mx.collision_outgoing_conn_cnf, ~t.mx.collision_outgoing_cfg_complete
  PROVE  Tidy(t)
<1>1. Role(t) /\ Unopened(t) /\ Settled(t)
  BY DEF Neat, Role, Unopened, Settled
<1>2. Placed(t) /\ Aside(t)
  BY DEF Placed, Aside, IsOpen
<1>3. Watch(t)
  BY NoChannelOut DEF Watch, Stray
<1> QED
  BY <1>1, <1>2, <1>3 DEF Tidy, Neat

\* UA for a SABME.
LEMMA ConnectedGood ==
  ASSUME NEW e, NEW s, NEW r, NEW f, MuxFrame(e, s, r, f), f.k = "UA",
         s.mx.state = "SABME_WAIT_UA"
  PROVE  Good(r, rfc_mx_frame(s, "UA"))
<1> DEFINE t == [[s EXCEPT !.mx.timer = "NONE"] EXCEPT !.mx.state = "CONNECTED"]
<1>1. /\ f.c = s.mx.lcid /\ f.c \in Channels /\ IsEnv(e) /\ IsEnv(r) /\ Rest(e, r)
      /\ f = Head(e.in) /\ r.self = e.self /\ Neat(s) /\ Settled(s) /\ IsOpen(s, s.mx.lcid)
      /\ IsDevice(e.self, s) /\ Fine(e, s) /\ s.out \in Seq(Frame) /\ s.self = e.self
      /\ View(s)[f.c] = s.mx.state /\ Has(e.in, "UA", f.c)
  BY MuxFrameFacts
<1>2. rfc_mx_frame(s, "UA") = PORT_StartCnf(t, TRUE)
  BY DEF rfc_mx_frame
<1>t. t = [[s EXCEPT !.mx.timer = "NONE"] EXCEPT !.mx.state = "CONNECTED"]
  OBVIOUS
<1> HIDE DEF t
<1>3. IsDevice(e.self, t) /\ Restated(s, t, "CONNECTED", "NONE")
  BY <1>1, <1>t, ConnectedIs
<1>4. /\ s.mx.collision_outgoing_lcid = NoChannel /\ s.mx.lcid \in s.lcid_mcb
      /\ ~s.mx.collision_outgoing_conn_cnf /\ ~s.mx.collision_outgoing_cfg_complete
      /\ f.c[1] = e.self /\ NoChannel \notin Channels
  BY <1>1, NoChannelOut DEF Neat, Placed, Aside
<1>5. SameBut(View(s), View(t), f.c) /\ View(t)[f.c] = "CONNECTED" /\ t.out = s.out
  <2>1. /\ t.self = s.self /\ t.made = s.made /\ t.ccb = s.ccb /\ t.out = s.out
        /\ t.mx.lcid = s.mx.lcid /\ t.mx.state = "CONNECTED"
        /\ t.mx.collision_outgoing_lcid = s.mx.collision_outgoing_lcid
    BY <1>3 DEF Restated
  <2>2. \A c \in Channels : ~Live(s, c) /\ ~Live(t, c)
    BY <1>4, <2>1 DEF Live
  <2>3. \A c \in Channels : c # f.c => Status(t, c) = Status(s, c)
    BY <1>1, <2>1, <2>2 DEF Status
  <2>4. Status(t, f.c) = "CONNECTED"
    BY <1>1, <2>1, <2>2 DEF Status, IsOpen
  <2> QED
    BY <1>1, <2>1, <2>3, <2>4 DEF SameBut, View
<1>6. Fine(e, t)
  <2>1. PICK k \in Channels : k = f.c
    BY <1>1
  <2>2. /\ k[1] = e.self /\ SameBut(View(s), View(t), k) /\ View(t)[k] = "CONNECTED"
        /\ View(s)[k] = "SABME_WAIT_UA" /\ Has(e.in, "UA", k)
    BY <1>1, <1>4, <1>5, <2>1
  <2> QED
    BY <1>1, <1>5, <2>2, ConnectedFine
<1>7. Answered(e, t)
  BY <1>1, <1>5 DEF Answered
<1>8. Fine(r, t)
  BY <1>1, <1>3, <1>5, <1>6, <1>7, AnsweredFine
<1>9. Tidy(t)
  BY <1>1, <1>3, <1>4, ConnectedTidy DEF Restated
<1>10. Good(r, t)
  BY <1>1, <1>3, <1>8, <1>9 DEF Good
<1>11. IsDevice(r.self, PORT_StartCnf(t, TRUE)) /\ Calm(r, t, PORT_StartCnf(t, TRUE))
  BY <1>1, <1>3, StartCnfKeeps, StartCnfCalm
<1> QED
  BY <1>2, <1>10, <1>11, CalmGood

\* The channel kept aside is forgotten.
Forgotten(s, t) ==
  /\ t.self = s.self /\ t.made = s.made /\ t.ccb = s.ccb
  /\ t.out = s.out /\ t.lcid_mcb = s.lcid_mcb
  /\ t.mx.state = s.mx.state /\ t.mx.lcid = s.mx.lcid
  /\ t.mx.is_initiator = s.mx.is_initiator
  /\ t.mx.is_disc_initiator = s.mx.is_disc_initiator
  /\ t.mx.collision_outgoing_lcid = NoChannel
  /\ t.mx.collision_outgoing_conn_cnf = FALSE
  /\ t.mx.collision_outgoing_cfg_complete = FALSE

\* ForgetCached changes the channel kept aside and nothing else.
LEMMA ForgetCachedForgets ==
  ASSUME NEW p, NEW s, IsDevice(p, s)
  PROVE  IsDevice(p, ForgetCached(s)) /\ Forgotten(s, ForgetCached(s))
BY ForgetCachedIs, Zenon DEF Forgotten

\* SABME.
LEMMA GreetedGood ==
  ASSUME NEW e, NEW s, NEW r, NEW f, MuxFrame(e, s, r, f), f.k = "SABME",
         s.mx.state = "WAIT_SABME"
  PROVE  Good(r, rfc_mx_frame(s, "SABME"))
<1> DEFINE t == [[s EXCEPT !.mx.timer = "NONE"] EXCEPT !.mx.state = "CONNECTED"]
           x == rfc_send(t, "UA", 0)
           y == ForgetCached(x)
<1>1. /\ f.c = s.mx.lcid /\ f.c \in Channels /\ IsEnv(e) /\ IsEnv(r) /\ Rest(e, r)
      /\ f = Head(e.in) /\ r.self = e.self /\ Neat(s) /\ Settled(s) /\ IsOpen(s, s.mx.lcid)
      /\ IsDevice(e.self, s) /\ Fine(e, s) /\ s.out \in Seq(Frame) /\ s.self = e.self
      /\ View(s)[f.c] = s.mx.state /\ Is(f, "SABME", f.c) /\ NoChannel \notin Channels
      /\ s.mx.is_initiator <=> f.c[1] = e.self
      /\ f.c[1] = e.self \/ f.c[1] = e.other
  BY MuxFrameFacts
<1>2. rfc_mx_frame(s, "SABME") = PORT_StartCnf(y, TRUE)
  BY DEF rfc_mx_frame
<1>t. t = [[s EXCEPT !.mx.timer = "NONE"] EXCEPT !.mx.state = "CONNECTED"]
  OBVIOUS
<1>x. x = rfc_send(t, "UA", 0) /\ y = ForgetCached(x)
  OBVIOUS
<1> HIDE DEF t, x, y
<1>3. IsDevice(e.self, t) /\ Restated(s, t, "CONNECTED", "NONE")
  BY <1>1, <1>t, ConnectedIs
<1>4. /\ t.self = s.self /\ t.made = s.made /\ t.ccb = s.ccb /\ t.out = s.out
      /\ t.lcid_mcb = s.lcid_mcb
      /\ t.mx.lcid = s.mx.lcid /\ t.mx.state = "CONNECTED"
      /\ t.mx.is_initiator = s.mx.is_initiator
      /\ t.mx.is_disc_initiator = s.mx.is_disc_initiator
      /\ t.mx.collision_outgoing_lcid = s.mx.collision_outgoing_lcid
  BY <1>3 DEF Restated
<1>5. "UA" \in PortFrames /\ IsOpen(t, t.mx.lcid)
  BY <1>1, <1>4 DEF PortFrames, IsOpen
<1>6. /\ Utters(t, x, "UA") /\ IsDevice(e.self, x) /\ x.mx = t.mx /\ x.self = t.self
      /\ x.made = t.made /\ x.ccb = t.ccb /\ x.lcid_mcb = t.lcid_mcb
  BY <1>3, <1>5, <1>x, MxFrameSent
<1>7. PICK g \in Frame : /\ Is(g, "UA", t.mx.lcid) /\ g.initiator = t.mx.is_initiator
                         /\ x.out = Append(t.out, g)
  BY <1>6 DEF Utters
<1>8. /\ f.c[1] = e.other /\ f.c[1] # s.self /\ s.mx.lcid \in s.lcid_mcb
      /\ s.mx.collision_outgoing_lcid # NoChannel => s.mx.collision_outgoing_lcid[1] = s.self
  BY <1>1 DEF Neat, Placed, Aside
<1>9. SameBut(View(s), View(x), f.c) /\ View(x)[f.c] = "CONNECTED"
  <2>1. \A c \in Channels : (Live(s, c) <=> c = s.mx.collision_outgoing_lcid) /\ (Live(x, c) <=> Live(s, c))
    BY <1>4, <1>6 DEF Live
  <2>2. \A c \in Channels : c # f.c => Status(x, c) = Status(s, c)
    BY <1>1, <1>4, <1>6, <2>1 DEF Status
  <2>3. f.c # s.mx.collision_outgoing_lcid
    BY <1>1, <1>8
  <2>4. Status(x, f.c) = "CONNECTED"
    BY <1>1, <1>4, <1>6, <2>1, <2>3 DEF Status, IsOpen
  <2> QED
    BY <1>1, <2>2, <2>4 DEF SameBut, View
<1>10. Fine(r, x)
  <2>1. PICK k \in Channels : k = f.c
    BY <1>1
  <2>2. /\ k[1] = e.other /\ SameBut(View(s), View(x), k) /\ View(x)[k] = "CONNECTED"
        /\ View(s)[k] = "WAIT_SABME" /\ Is(Head(e.in), "SABME", k)
    BY <1>1, <1>8, <1>9, <2>1
  <2>3. Is(g, "UA", k) /\ (g.initiator <=> k[1] = e.self) /\ x.out = Append(s.out, g)
    BY <1>1, <1>4, <1>7, <2>1
  <2> QED
    BY <1>1, <2>2, <2>3, GreetedFine
<1>11. /\ IsDevice(e.self, y) /\ y.self = x.self /\ y.made = x.made /\ y.ccb = x.ccb
       /\ y.out = x.out /\ y.lcid_mcb = x.lcid_mcb
       /\ y.mx.state = x.mx.state /\ y.mx.lcid = x.mx.lcid
       /\ y.mx.is_initiator = x.mx.is_initiator
       /\ y.mx.is_disc_initiator = x.mx.is_disc_initiator
       /\ y.mx.collision_outgoing_lcid = NoChannel
       /\ y.mx.collision_outgoing_conn_cnf = FALSE
       /\ y.mx.collision_outgoing_cfg_complete = FALSE
  <2>1. IsDevice(e.self, x)
    BY <1>6
  <2>2. y = ForgetCached(x)
    BY <1>x
  <2>3. IsDevice(e.self, y) /\ Forgotten(x, y)
    BY ONLY <2>1, <2>2, ForgetCachedForgets
  <2> QED
    BY <2>3 DEF Forgotten
<1>12. Fine(r, y)
  <2> DEFINE b == x.mx.collision_outgoing_lcid
  <2>1. b = s.mx.collision_outgoing_lcid /\ x.mx.state = "CONNECTED" /\ x.mx.lcid = f.c
    BY <1>1, <1>4, <1>6
  <2>2. \A c \in Channels : ~Live(y, c) /\ (c # b => ~Live(x, c))
    BY <1>1, <1>11, <2>1 DEF Live
  <2>3. Elsewhere(x, y, b)
    BY <1>11, <2>2 DEF Elsewhere, Status
  <2>4. b \in Channels => Status(y, b) \in {"NEW", "CLOSED", "W4", "CONFIG", "SPARE"}
    BY <1>1, <1>8, <1>11, <2>1, <2>2 DEF Status
  <2>5. y.mx.state \in MxStates
    BY <1>11, MxMembers
  <2>6. b # NoChannel => b[1] = x.self
    BY <1>4, <1>6, <1>8, <2>1
  <2>7. IsDevice(r.self, x)
    BY <1>1, <1>6
  <2> QED
    BY <1>1, <1>10, <1>11, <2>3, <2>4, <2>5, <2>6, <2>7, ForgottenFine
<1>13. Tidy(y)
  <2>1. /\ y.self = s.self /\ y.made = s.made /\ y.ccb = s.ccb /\ y.mx.lcid = s.mx.lcid
        /\ y.mx.lcid \in y.lcid_mcb /\ y.mx.state = "CONNECTED"
        /\ y.mx.is_initiator = s.mx.is_initiator
        /\ y.mx.is_disc_initiator = s.mx.is_disc_initiator
        /\ s.mx.lcid \in Channels
    BY <1>1, <1>4, <1>6, <1>8, <1>11
  <2>2. ~y.mx.collision_outgoing_conn_cnf /\ ~y.mx.collision_outgoing_cfg_complete
    BY <1>11
  <2> QED
    BY <1>1, <1>11, <2>1, <2>2, ConnectedTidy
<1>14. Good(r, y)
  BY <1>1, <1>11, <1>12, <1>13 DEF Good
<1>15. IsDevice(r.self, PORT_StartCnf(y, TRUE)) /\ Calm(r, y, PORT_StartCnf(y, TRUE))
  BY <1>1, <1>11, StartCnfKeeps, StartCnfCalm
<1> QED
  BY <1>2, <1>14, <1>15, CalmGood

\* DISC is answered.
LEMMA DiscAnswered ==
  ASSUME NEW e, NEW s, NEW r, NEW f, MuxFrame(e, s, r, f), s.mx.state \in Engaged,
         NEW t, t = rfc_send(s, "UA", 0)
  PROVE  /\ Good(e, t) /\ Has(t.out, "UA", f.c) /\ Has(Sent(e, t), "UA", f.c)
         /\ t.mx = s.mx /\ t.ccb = s.ccb /\ t.lcid_mcb = s.lcid_mcb
<1>1. /\ f.c = s.mx.lcid /\ f.c \in Channels /\ IsEnv(e) /\ IsEnv(r) /\ Rest(e, r)
      /\ f = Head(e.in) /\ r.self = e.self /\ Neat(s) /\ Settled(s) /\ IsOpen(s, s.mx.lcid)
      /\ IsDevice(e.self, s) /\ Fine(e, s) /\ s.out \in Seq(Frame) /\ s.self = e.self
      /\ View(s)[f.c] = s.mx.state /\ Watch(s)
      /\ s.mx.is_initiator <=> f.c[1] = e.self
  BY MuxFrameFacts
<1>2. "UA" \in PortFrames
  BY DEF PortFrames
<1>3. /\ Utters(s, t, "UA") /\ IsDevice(e.self, t) /\ t.mx = s.mx /\ t.self = s.self
      /\ t.made = s.made /\ t.ccb = s.ccb /\ t.lcid_mcb = s.lcid_mcb
      /\ t.port = s.port /\ t.port_handles = s.port_handles
  BY <1>1, <1>2, MxFrameSent
<1>4. PICK g \in Frame : /\ Is(g, "UA", s.mx.lcid) /\ g.initiator = s.mx.is_initiator
                         /\ t.out = Append(s.out, g)
  BY <1>3 DEF Utters
<1>5. View(t) = View(s)
  BY <1>3, SameView
<1>6. PICK k \in Channels : k = f.c
  BY <1>1
<1>7. Is(g, "UA", k) /\ (g.initiator <=> k[1] = e.self) /\ View(s)[k] \in Engaged
  BY <1>1, <1>4, <1>6
<1>8. Fine(e, t)
  <2>1. IsEnv(e) /\ Fine(e, s) /\ s.out \in Seq(Frame)
    BY <1>1
  <2>2. t.out = Append(s.out, g)
    BY <1>4
  <2> QED
    BY ONLY <2>1, <2>2, <1>5, <1>7, k \in Channels, g \in Frame, AnswersDiscFine
<1>9. Tidy(t)
  <2>1. Kept(s, t)
    BY <1>3 DEF Kept
  <2>2. Busy(t) => Busy(s)
    BY <1>3 DEF Busy
  <2> QED
    BY <1>1, <1>3, <2>1, <2>2, NeatKept DEF Tidy, Settled, Watch, Stray
<1>10. Added(Sent(e, s), g, Sent(e, t)) /\ Added(s.out, g, t.out)
  BY <1>1, <1>4, SentAdded, AppendAdds
<1>11. Has(t.out, "UA", f.c) /\ Has(Sent(e, t), "UA", f.c)
  BY <1>6, <1>7, <1>10 DEF Added
<1> QED
  BY <1>3, <1>8, <1>9, <1>11 DEF Good

\* DISC meets a multiplexer that sent DISC itself.
LEMMA DiscCrossedGood ==
  ASSUME NEW e, NEW s, NEW r, NEW f, MuxFrame(e, s, r, f), f.k = "DISC",
         s.mx.state = "DISC_WAIT_UA"
  PROVE  Good(r, rfc_mx_frame(s, "DISC"))
<1> DEFINE t == rfc_send(s, "UA", 0)
<1>1. rfc_mx_frame(s, "DISC") = t
  BY DEF rfc_mx_frame
<1>2. t = rfc_send(s, "UA", 0) /\ s.mx.state \in Engaged
  BY DEF Engaged
<1> HIDE DEF t
<1>3. /\ IsEnv(e) /\ Rest(e, r) /\ f = Head(e.in) /\ View(s)[f.c] = s.mx.state
      /\ f.c = s.mx.lcid /\ f.c \in Channels /\ IsOpen(s, s.mx.lcid) /\ Neat(s)
  BY MuxFrameFacts
<1>4. Good(e, t) /\ Has(Sent(e, t), "UA", f.c) /\ t.mx = s.mx /\ t.ccb = s.ccb
  BY <1>2, DiscAnswered
<1>5. View(t)[f.c] # "CONNECTED"
  BY <1>3, <1>4 DEF View, Status
<1>6. Answered(e, t)
  BY <1>3, <1>4, <1>5 DEF Answered
<1> QED
  BY <1>1, <1>3, <1>4, <1>6, AnsweredGood

\* The side that opened the channel takes it down.
LEMMA DiscInitiatorGood ==
  ASSUME NEW e, NEW s, NEW r, NEW f, MuxFrame(e, s, r, f), f.k = "DISC",
         s.mx.state = "CONNECTED", s.mx.is_initiator
  PROVE  Good(r, rfc_mx_frame(s, "DISC"))
<1> DEFINE t == rfc_send(s, "UA", 0)
           u == L2CA_DisconnectReq(t, t.mx.lcid)
<1>0. t = rfc_send(s, "UA", 0) /\ s.mx.state \in Engaged /\ u = L2CA_DisconnectReq(t, t.mx.lcid)
  BY DEF Engaged
<1>1. rfc_mx_frame(s, "DISC") = PORT_CloseInd(L2CA_DisconnectReq(t, s.mx.lcid))
  BY DEF rfc_mx_frame
<1> HIDE DEF t, u
<1>3. /\ IsEnv(e) /\ Rest(e, r) /\ f = Head(e.in) /\ r.self = e.self /\ IsEnv(r)
      /\ f.c = s.mx.lcid /\ f.c \in Channels
  BY MuxFrameFacts
<1>4. Good(e, t) /\ t.mx = s.mx
  BY <1>0, DiscAnswered
<1>5. /\ IsDevice(e.self, u) /\ Fine(e, u) /\ Shut(u) /\ u.ccb[f.c] = "CLOSED"
  BY <1>0, <1>3, <1>4, LcidDropped DEF Good, Tidy
<1>6. Answered(e, u)
  <2>1. View(u)[f.c] \in {"NEW", "CLOSED"}
    BY <1>3, <1>5, StatusOf
  <2> QED
    BY <1>3, <2>1 DEF Answered
<1>7. u.out \in Seq(Frame)
  BY <1>5, Members
<1>8. Fine(r, u)
  BY <1>3, <1>5, <1>6, <1>7, AnsweredFine
<1>9. Good(r, PORT_CloseInd(u))
  BY <1>3, <1>5, <1>8, CloseIndGood
<1> QED
  BY <1>0, <1>1, <1>4, <1>9

-----------------------------------------------------------------------------
(* What was sent stays sent while the ports are closed *)

Longer(s, t) == \A j, c : Has(s.out, j, c) => Has(t.out, j, c)

\* Nothing is sent.
LEMMA LongerSame == ASSUME NEW s, NEW t, t.out = s.out PROVE Longer(s, t)
BY DEF Longer

\* What was sent stays sent, over several steps.
LEMMA LongerTrans ==
  ASSUME NEW s, NEW t, NEW u, Longer(s, t), Longer(t, u)
  PROVE  Longer(s, u)
BY DEF Longer



\* A frame is sent.
LEMMA SendLonger ==
  ASSUME NEW p, NEW s, IsDevice(p, s), NEW k \in PortCommands \cup PortFrames,
         NEW d \in Dlcis \cup {0}, k \in PortCommands => d \in Dlcis
  PROVE  Longer(s, rfc_send(s, k, d))
<1>1. CASE ~IsOpen(s, s.mx.lcid)
  BY <1>1, LongerSame DEF rfc_send
<1>2. CASE IsOpen(s, s.mx.lcid)
  <2> DEFINE f == [k |-> k, c |-> s.mx.lcid, d |-> d, initiator |-> s.mx.is_initiator]
  <2>1. f \in Frame /\ s.out \in Seq(Frame)
    BY <1>2, Members, MxMembers
       DEF Frame, AnyFrame, IsOpen, PortCommands, PortFrames, Signals
  <2>2. rfc_send(s, k, d).out = Append(s.out, f)
    BY <1>2 DEF rfc_send, IsDevice, Device
  <2> HIDE DEF f
  <2>3. Added(s.out, f, rfc_send(s, k, d).out)
    BY <2>1, <2>2, AppendAdds
  <2> QED
    BY <2>3 DEF Added, Longer
<1> QED
  BY <1>1, <1>2

\* The multiplexer is asked to close.
LEMMA CloseReqLonger ==
  ASSUME NEW p, NEW s, IsDevice(p, s)
  PROVE  Longer(s, rfc_mx_close_req(s))
<1> DEFINE t == [s EXCEPT !.mx.timer = "DISC", !.mx.state = "DISC_WAIT_UA"]
<1>1. IsDevice(p, t)
  BY SetMxTimer, SetState DEF MxTimers, MxStates
<1>2. t.out = s.out
  BY DEF IsDevice, Device
<1>3. rfc_mx_close_req(s) = s \/ rfc_mx_close_req(s) = rfc_send(t, "DISC", 0)
  BY DEF rfc_mx_close_req
<1> HIDE DEF t
<1>4. Longer(t, rfc_send(t, "DISC", 0))
  BY <1>1, SendLonger DEF PortFrames, PortCommands
<1> QED
  BY <1>2, <1>3, <1>4, LongerSame, LongerTrans

\* The last port left, or did not.
LEMMA CheckMcbActiveLonger ==
  ASSUME NEW p, NEW s, IsDevice(p, s)
  PROVE  Longer(s, rfc_check_mcb_active(s))
<1> DEFINE t == [s EXCEPT !.mx.is_disc_initiator = FALSE]
           u == [t EXCEPT !.mx.timer = "RELEASE"]
<1>1. IsDevice(p, t)
  BY SetIsDiscInitiator
<1>2. t.out = s.out
  BY DEF IsDevice, Device
<1> HIDE DEF t
<1>3. u.out = t.out
  BY <1>1 DEF IsDevice, Device
<1> HIDE DEF u
<1>4. rfc_check_mcb_active(s) \in {t, u, rfc_mx_close_req(t)}
  BY DEF rfc_check_mcb_active, t, u
<1>5. Longer(t, rfc_mx_close_req(t))
  BY <1>1, CloseReqLonger
<1> QED
  BY <1>2, <1>3, <1>4, <1>5, LongerSame, LongerTrans

\* A port leaves the multiplexer.
LEMMA LeaveMcbLonger ==
  ASSUME NEW p, NEW s, IsDevice(p, s), NEW x \in Handles
  PROVE  Longer(s, LeaveMcb(s, x))
<1> DEFINE d == s.port[x].dlci
           t == [s EXCEPT !.port_handles[d] = NoHandle]
<1>1. IsDevice(p, t)
  BY ForgetHandle
<1>2. t.out = s.out
  BY DEF IsDevice, Device
<1>3. LeaveMcb(s, x) = s \/ LeaveMcb(s, x) = rfc_check_mcb_active(t)
  BY DEF LeaveMcb
<1> HIDE DEF t
<1>4. Longer(t, rfc_check_mcb_active(t))
  BY <1>1, CheckMcbActiveLonger
<1> QED
  BY <1>2, <1>3, <1>4, LongerSame, LongerTrans

\* A port is released.
LEMMA ReleasePortLonger ==
  ASSUME NEW p, NEW s, IsDevice(p, s), NEW x \in Handles
  PROVE  Longer(s, port_release_port(s, x))
<1> DEFINE t == [s EXCEPT !.port[x].timer = FALSE, !.port[x].state = "CLOSED"]
           kept == [ListeningPort EXCEPT !.expected_rsp = s.port[x].expected_rsp]
           r == IF s.port[x].keep THEN kept ELSE FreePort
           u == LeaveMcb(t, x)
           v == [u EXCEPT !.port[x] = r]
<1>1. IsDevice(p, t)
  BY SetPortTimer, SetPortState DEF PortStates
<1>2. t.out = s.out
  BY DEF IsDevice, Device
<1>3. port_release_port(s, x) = t \/ port_release_port(s, x) = v
  BY DEF port_release_port
<1> HIDE DEF t, r, kept
<1>4. IsDevice(p, u) /\ Longer(t, u)
  BY <1>1, LeaveMcbKeeps, LeaveMcbLonger
<1> HIDE DEF u
<1>5. v.out = u.out
  BY <1>4 DEF IsDevice, Device
<1> HIDE DEF v
<1> QED
  BY <1>2, <1>3, <1>4, <1>5, LongerSame, LongerTrans

\* A port is closed.
LEMMA PortRfcClosedLonger ==
  ASSUME NEW p, NEW s, IsDevice(p, s), NEW x \in Handles
  PROVE  Longer(s, port_rfc_closed(s, x))
<1> DEFINE t == [s EXCEPT !.port[x].sm = "CLOSED"]
           w == [t EXCEPT !.port[x].timer = FALSE]
           u == LeaveMcb(w, x)
           v == [u EXCEPT !.port[x].attached = FALSE, !.port[x].dlci = 2]
<1>1. IsDevice(p, t)
  BY SetPortSm DEF SmStates
<1>2. t.out = s.out
  BY DEF IsDevice, Device
<1>3. port_rfc_closed(s, x) \in {v, port_release_port(t, x)}
  BY DEF port_rfc_closed
<1> HIDE DEF t
<1>4. IsDevice(p, w) /\ w.out = t.out
  BY <1>1, SetPortTimer DEF IsDevice, Device
<1> HIDE DEF w
<1>5. IsDevice(p, u) /\ Longer(w, u)
  BY <1>4, LeaveMcbKeeps, LeaveMcbLonger
<1> HIDE DEF u
<1>6. v.out = u.out
  BY <1>5 DEF IsDevice, Device
<1> HIDE DEF v
<1>7. Longer(s, w) /\ Longer(s, t)
  BY <1>2, <1>4, LongerSame
<1>8. Longer(s, v)
  BY <1>5, <1>6, <1>7, LongerSame, LongerTrans
<1>9. Longer(s, port_release_port(t, x))
  BY <1>1, <1>7, ReleasePortLonger, LongerTrans
<1> QED
  BY <1>3, <1>8, <1>9

\* All ports are closed.
LEMMA TimeOutCloseMuxLonger ==
  ASSUME NEW p, NEW s, IsDevice(p, s)
  PROVE  Longer(s, PORT_TimeOutCloseMux(s))
<1> DEFINE t == IF s.port.sv.attached THEN port_rfc_closed(s, "sv") ELSE s
<1>1. "sv" \in Handles /\ "cl" \in Handles
  BY DEF Handles
<1>2. IsDevice(p, t)
  BY <1>1, PortRfcClosedKeeps
<1>3. Longer(s, t)
  BY <1>1, PortRfcClosedLonger, LongerSame
<1>4. PORT_TimeOutCloseMux(s) = t \/ PORT_TimeOutCloseMux(s) = port_rfc_closed(t, "cl")
  BY DEF PORT_TimeOutCloseMux, ForAttached
<1> HIDE DEF t
<1> QED
  BY <1>1, <1>2, <1>3, <1>4, PortRfcClosedLonger, LongerTrans

\* What a queue holds is in any longer one.
LEMMA HasConcat ==
  ASSUME NEW a \in Seq(Frame), NEW b \in Seq(Frame), NEW j, NEW c, Has(b, j, c)
  PROVE  Has(a \o b, j, c)
<1>1. PICK i \in 1 .. Len(b) : Is(b[i], j, c)
  BY DEF Has
<1>2. Len(a \o b) = Len(a) + Len(b) /\ Len(a) \in Nat /\ Len(b) \in Nat
  OBVIOUS
<1>3. i + Len(a) \in 1 .. Len(a \o b)
  BY <1>2
<1>4. (a \o b)[i + Len(a)] = b[i]
  BY <1>2
<1> QED
  BY <1>1, <1>3, <1>4 DEF Has

\* The side that did not open the channel answers DISC, closes the ports and
\* leaves the channel to the other side.
LEMMA DiscAcceptorGood ==
  ASSUME NEW e, NEW s, NEW r, NEW f, MuxFrame(e, s, r, f), f.k = "DISC",
         s.mx.state = "CONNECTED", ~s.mx.is_initiator
  PROVE  Good(r, rfc_mx_frame(s, "DISC"))
<1> DEFINE t == rfc_send(s, "UA", 0)
           a == PORT_TimeOutCloseMux(t)
           b == rfc_release_multiplexer_channel(a)
<1>0. /\ t = rfc_send(s, "UA", 0) /\ s.mx.state \in Engaged /\ a = PORT_TimeOutCloseMux(t)
      /\ b = rfc_release_multiplexer_channel(a)
  BY DEF Engaged
<1>1. rfc_mx_frame(s, "DISC") = b
  BY DEF rfc_mx_frame, PORT_CloseInd, PORT_TimeOutCloseMux
<1> HIDE DEF t, a, b
<1>2. /\ IsEnv(e) /\ Rest(e, r) /\ f = Head(e.in) /\ r.self = e.self /\ IsEnv(r)
      /\ f.c = s.mx.lcid /\ f.c \in Channels /\ Has(e.in, "DISC", f.c)
      /\ IsOpen(s, s.mx.lcid) /\ NoChannel \notin Channels
      /\ s.mx.is_initiator <=> f.c[1] = e.self
      /\ f.c[1] = e.self \/ f.c[1] = e.other
  BY MuxFrameFacts
<1>3. Good(e, t) /\ t.mx = s.mx /\ t.ccb = s.ccb /\ Has(t.out, "UA", f.c)
  BY <1>0, DiscAnswered
<1>4. IsDevice(e.self, a) /\ Calm(e, t, a) /\ Longer(t, a)
  BY <1>0, <1>2, <1>3, TimeOutCloseMuxKeeps, TimeOutCloseMuxCalm, TimeOutCloseMuxLonger DEF Good
<1>5. Good(e, a)
  BY <1>3, <1>4, CalmGood
<1>6. /\ a.ccb = s.ccb /\ a.mx.lcid = f.c /\ a.mx.state \in Engaged
  <2>1. Kept(t, a)
    BY <1>4 DEF Calm, Mild
  <2> QED
    BY <1>2, <1>3, <2>1 DEF Kept, Engaged
<1>7. a.mx.collision_outgoing_lcid = NoChannel /\ Unopened(a) /\ a.out \in Seq(Frame) /\ Fine(e, a)
  BY <1>4, <1>5, <1>6, Members DEF Good, Tidy, Neat, Aside, Engaged
<1>8. Has(Sent(e, a), "UA", f.c)
  <2>1. Has(a.out, "UA", f.c)
    BY <1>3, <1>4 DEF Longer
  <2> QED
    BY <1>2, <1>7, <2>1, HasConcat DEF Sent, IsEnv
<1>9. /\ IsDevice(e.self, b) /\ b.mx = IdleMx /\ b.self = a.self /\ b.made = a.made
      /\ b.ccb = a.ccb /\ b.out = a.out
  <2>1. IsDevice(e.self, b) /\ b.mx = IdleMx
    BY <1>0, <1>4, ReleaseMultiplexerKeeps
  <2> QED
    BY <1>0, <1>4, <2>1 DEF rfc_release_multiplexer_channel, IsDevice, Device
<1>10. /\ View(a)[f.c] \in Engaged /\ View(b)[f.c] = "SPARE" /\ SameBut(View(a), View(b), f.c)
  <2>1. \A c \in Channels : ~Live(a, c) /\ ~Live(b, c)
    BY <1>2, <1>6, <1>7, <1>9 DEF Live, IdleMx, Engaged
  <2>2. b.mx.lcid = NoChannel /\ b.mx.state = "IDLE"
    BY <1>9 DEF IdleMx
  <2>3. \A c \in Channels : c # f.c => Status(b, c) = Status(a, c)
    BY <1>2, <1>6, <1>9, <2>1, <2>2 DEF Status
  <2>4. Status(a, f.c) \in Engaged
    BY <1>2, <1>6, <2>1 DEF Status, IsOpen, Engaged
  <2>5. Status(b, f.c) = "SPARE"
    BY <1>2, <1>6, <1>9, <2>1, <2>2 DEF Status, IsOpen
  <2> QED
    BY <1>2, <2>3, <2>4, <2>5 DEF View, SameBut
<1>11. Fine(e, b)
  <2>1. PICK k \in Channels : k = f.c
    BY <1>2
  <2>2. /\ k[1] = e.other /\ SameBut(View(a), View(b), k) /\ Has(e.in, "DISC", k)
        /\ Has(Sent(e, a), "UA", k) /\ View(a)[k] \in Engaged /\ View(b)[k] = "SPARE"
    BY <1>2, <1>8, <1>10, <2>1
  <2> QED
    BY <1>2, <1>7, <1>9, <2>2, ReleasesFine
<1>12. Answered(e, b)
  BY <1>2, <1>10 DEF Answered
<1>13. Fine(r, b)
  BY <1>2, <1>7, <1>9, <1>11, <1>12, AnsweredFine
<1>14. Tidy(b)
  <2>1. Unopened(b)
    BY <1>7, <1>9 DEF Unopened
  <2> QED
    BY <1>9, <2>1, IdleTidy
<1> QED
  BY <1>1, <1>2, <1>9, <1>13, <1>14 DEF Good

\* A frame of no use to the multiplexer.
LEMMA IgnoredGood ==
  ASSUME NEW e, NEW s, NEW r, NEW f, MuxFrame(e, s, r, f), s.mx.state # "WAIT_SABME",
         f.k = "UA" => s.mx.state = "CONNECTED",
         f.k = "DM" => s.mx.state = "CONNECTED",
         f.k = "DISC" => s.mx.state = "SABME_WAIT_UA"
  PROVE  Good(r, s)
<1>1. /\ f = Head(e.in) /\ View(s)[f.c] = s.mx.state /\ IsEnv(e) /\ Rest(e, r) /\ Good(e, s)
      /\ f.k \in PortFrames
  BY MuxFrameFacts
<1>2. Answered(e, s)
  BY <1>1 DEF Answered, PortFrames
<1> QED
  BY <1>1, <1>2, AnsweredGood

\* A frame on DLCI 0, in whichever state of the multiplexer.
LEMMA MuxFrameGood ==
  ASSUME NEW e, NEW s, NEW r, NEW f, MuxFrame(e, s, r, f), NEW j, j = f.k
  PROVE  LET t == rfc_mx_frame(s, j) IN Good(r, t) \/ Stray(t)
<1>1. /\ s.mx.state \in Answering /\ j \in PortFrames
  BY MuxFrameFacts
<1>2. s.mx.state = "WAIT_SABME" => j = "SABME"
  BY UsedFacts DEF MuxFrame, Is
<1>a. CASE s.mx.state = "WAIT_SABME"
  BY <1>a, <1>2, GreetedGood
<1>b. CASE s.mx.state = "SABME_WAIT_UA" /\ j = "UA"
  BY <1>b, ConnectedGood
<1>c. CASE s.mx.state = "SABME_WAIT_UA" /\ j = "DM"
  BY <1>c, RejectedGood
<1>d. CASE s.mx.state = "DISC_WAIT_UA" /\ j \in {"UA", "DM"}
  BY <1>d, DisconnectedGood
<1>e. CASE s.mx.state = "DISC_WAIT_UA" /\ j = "DISC"
  BY <1>e, DiscCrossedGood
<1>f. CASE s.mx.state = "CONNECTED" /\ j = "DISC"
  BY <1>f, DiscInitiatorGood, DiscAcceptorGood
<1>g. CASE /\ s.mx.state # "WAIT_SABME" /\ (j = "UA" => s.mx.state = "CONNECTED")
           /\ (j = "DM" => s.mx.state = "CONNECTED")
           /\ (j = "DISC" => s.mx.state = "SABME_WAIT_UA")
  <2>1. Good(r, s)
    BY <1>g, IgnoredGood
  <2>2. rfc_mx_frame(s, j) = s
    BY <1>1, <1>g DEF rfc_mx_frame, PortFrames
  <2> QED
    BY <2>1, <2>2
<1> QED
  BY <1>1, <1>a, <1>b, <1>c, <1>d, <1>e, <1>f, <1>g DEF Answering, PortFrames

\* Whatever comes over the link.
LEMMA DeliverGood ==
  ASSUME NEW e, IsEnv(e), NEW s, Good(e, s), NEW r, Rest(e, r), Signed(e.in, e.other),
         NEW f, f = Head(e.in)
  PROVE  Good(r, Deliver(s, f)) \/ Stray(Deliver(s, f))
<1>a. CASE f.k \in Signals
  BY <1>a, SignalGood
<1>b. CASE f.k \notin Signals /\ (~IsOpen(s, f.c) \/ ~rfc_find_lcid_mcb(s, f.c))
  BY <1>b, UnusedGood
<1>c. CASE f.k \notin Signals /\ IsOpen(s, f.c) /\ rfc_find_lcid_mcb(s, f.c) /\ f.d # 0
  BY <1>c, PortFrameGood
<1>d. CASE f.k \notin Signals /\ IsOpen(s, f.c) /\ rfc_find_lcid_mcb(s, f.c) /\ f.d = 0
  <2>1. MuxFrame(e, s, r, f)
    BY <1>d DEF MuxFrame
  <2>2. Deliver(s, f) = rfc_mx_frame(s, f.k)
    BY <2>1, MuxFrameDelivered
  <2>3. PICK j : j = f.k
    OBVIOUS
  <2>4. LET t == rfc_mx_frame(s, j) IN Good(r, t) \/ Stray(t)
    BY <2>1, <2>3, MuxFrameGood
  <2> QED
    BY <2>2, <2>3, <2>4
<1> QED
  BY <1>a, <1>b, <1>c, <1>d

-----------------------------------------------------------------------------
(* The link is lost *)

Down(s) == \A c \in Channels : s.ccb[c] = "CLOSED"

\* The same multiplexer and ports.
SameDevice(s, t) ==
  /\ t.self = s.self /\ t.made = s.made /\ t.ccb = s.ccb /\ t.lcid_mcb = s.lcid_mcb
  /\ t.mx = s.mx /\ t.port = s.port /\ t.port_handles = s.port_handles

\* The same multiplexer is as tidy, and sees the channels alike.
LEMMA SameTidy ==
  ASSUME NEW s, NEW t, Tidy(s), SameDevice(s, t)
  PROVE  Tidy(t) /\ View(t) = View(s)
<1>1. Kept(s, t)
  BY DEF SameDevice, Kept
<1>2. Busy(t) => Busy(s)
  BY DEF SameDevice, Busy
<1>3. Neat(t)
  BY <1>1, NeatKept DEF Tidy
<1>4. Settled(t) /\ Watch(t)
  BY <1>2 DEF SameDevice, Tidy, Settled, Watch, Stray
<1>5. View(t) = View(s)
  BY SameView DEF SameDevice
<1> QED
  BY <1>3, <1>4, <1>5 DEF Tidy

\* Nothing is on its way and every channel is down.
LEMMA DownFine ==
  ASSUME NEW e, IsEnv(e), NEW s, IsDevice(e.self, s), Down(s), e.in = <<>>, Sent(e, s) = <<>>,
         s.out = <<>>,
         \A c \in Channels : /\ e.view[c] \in {"NEW", "CLOSED"}
                             /\ c[1] = e.self => e.view[c] = "CLOSED"
  PROVE  Fine(e, s)
<1>1. s.self = e.self /\ e.self # e.other
  BY Members DEF IsEnv
<1>2. \A c \in Channels : /\ View(s)[c] \in {"NEW", "CLOSED"}
                          /\ c[1] = e.other => View(s)[c] = "CLOSED"
  BY <1>1 DEF View, Status, Down
<1>3. PICK L : L = <<>>
  OBVIOUS
<1>4. Len(L) = 0
  BY <1>3
<1>5. \A c : /\ ~About(L, c) /\ ~HasData(L, c) /\ \A k : ~Has(L, k, c)
  BY <1>4 DEF About, HasData, Has
<1>6. /\ \A k, c : Single(L, k, c)
      /\ \A k, c, k1, k2, b : Preceded(L, k, c, k1, k2, b)
      /\ \A k, b, c : Followed(L, k, b, c)
      /\ \A c : Led(L, c)
  BY <1>4 DEF Single, Preceded, Followed, Led
<1>7. ASSUME NEW o, NEW u, NEW w,
             \A c \in Channels : u[c] \in {"NEW", "CLOSED"} /\ (c[1] = o => w[c] = "CLOSED")
      PROVE  Own(o, u, w, L, L)
  <2>1. ASSUME NEW c \in Channels, c[1] = o PROVE At(c, u, w, L, L)
    <3>1. Handshake(c, u[c], w[c], L, L)
      BY <1>5, <1>6, <1>7, <2>1 DEF Handshake, Asking, Configuring, OpenAtOwner, OpenAtOther, Engaged
    <3>2. Dialogue(c, u[c], w[c], L, L)
      BY <1>5, <1>6, <1>7, <2>1 DEF Dialogue, OpenAtOther, Engaged
    <3>3. Awaited(c, u[c], w[c], L, L)
      BY <1>5, <1>6, <1>7, <2>1 DEF Awaited
    <3> QED
      BY <3>1, <3>2, <3>3 DEF At
  <2>2. ASSUME NEW c \in Channels, NEW b \in Channels, c[1] = o, b[1] = o, b # c
        PROVE  Ordered(c, b, u, w, L, L)
    BY <1>5, <1>6, <1>7, <2>2 DEF Ordered, Asking, Using, Engaged
  <2> QED
    BY <2>1, <2>2 DEF Own
<1>8. Own(e.self, View(s), e.view, L, L)
  BY <1>2, <1>7
<1>9. Own(e.other, e.view, View(s), L, L)
  BY <1>2, <1>7
<1>10. Signed(s.out, e.self)
  BY DEF Signed
<1> QED
  BY <1>3, <1>8, <1>9, <1>10 DEF Fine

\* Closing the ports and the multiplexer leaves L2CAP alone.
LEMMA CloseIndDown ==
  ASSUME NEW e, IsEnv(e), NEW s, IsDevice(e.self, s)
  PROVE  PORT_CloseInd(s).ccb = s.ccb
<1> DEFINE t == PORT_TimeOutCloseMux(s)
<1>1. PORT_CloseInd(s) = rfc_release_multiplexer_channel(t)
  BY DEF PORT_CloseInd, PORT_TimeOutCloseMux
<1>2. IsDevice(e.self, t) /\ Kept(s, t)
  BY TimeOutCloseMuxKeeps, TimeOutCloseMuxCalm DEF Calm, Mild
<1> HIDE DEF t
<1>3. rfc_release_multiplexer_channel(t).ccb = t.ccb
  BY <1>2 DEF rfc_release_multiplexer_channel, IsDevice, Device
<1> QED
  BY <1>1, <1>2, <1>3 DEF Kept

\* L2CAP takes every channel down.
LEMMA ChannelsDown ==
  ASSUME NEW p, NEW s, IsDevice(p, s), NEW t, t = [s EXCEPT !.ccb = [c \in Channels |-> "CLOSED"]]
  PROVE  /\ IsDevice(p, t) /\ Down(t) /\ t.self = s.self /\ t.made = s.made /\ t.mx = s.mx
         /\ t.lcid_mcb = s.lcid_mcb /\ t.out = s.out
<1> DEFINE closed == [c \in Channels |-> "CLOSED"]
<1>1. closed \in [Channels -> CcbStates] /\ \A c \in Channels : closed[c] = "CLOSED"
  BY DEF CcbStates
<1>2. t = [s EXCEPT !.ccb = closed]
  OBVIOUS
<1> HIDE DEF closed
<1>3. IsDevice(p, t)
  BY <1>1, <1>2, SetCcb
<1> QED
  BY <1>1, <1>2, <1>3 DEF Down, IsDevice, Device

\* The multiplexer hears of the channel kept aside first.
LEMMA AsideDown ==
  ASSUME NEW p, NEW s, IsDevice(p, s), Tidy(s), NEW t, IsDevice(p, t), t.mx = s.mx, Down(t),
         t.lcid_mcb = s.lcid_mcb, t.self = s.self, t.made = s.made,
         NEW b, b = s.mx.collision_outgoing_lcid, NEW u, u = RFCOMM_DisconnectInd(t, b)
  PROVE  /\ IsDevice(p, u) /\ u.self = s.self /\ u.made = s.made /\ Down(u)
         /\ u.lcid_mcb = s.lcid_mcb /\ u.out = t.out
         /\ u.mx.state = s.mx.state /\ u.mx.lcid = s.mx.lcid
         /\ u.mx.is_initiator = s.mx.is_initiator
         /\ u.mx.is_disc_initiator = s.mx.is_disc_initiator
         /\ u.mx.collision_outgoing_lcid = NoChannel
         /\ ~u.mx.collision_outgoing_conn_cnf /\ ~u.mx.collision_outgoing_cfg_complete
<1>1. Aside(s) /\ Placed(s) /\ s.lcid_mcb \in SUBSET Channels /\ NoChannel \notin Channels
  BY Members, NoChannelOut DEF Tidy, Neat
<1>2. b # NoChannel => b # s.mx.lcid /\ s.mx.lcid \in s.lcid_mcb
  BY <1>1 DEF Aside, Placed
<1>3. ~rfc_find_lcid_mcb(t, b)
  BY <1>1, <1>2 DEF rfc_find_lcid_mcb
<1>4. CASE IsCached(t, b)
  <2>1. u = ForgetCached(t)
    BY <1>4 DEF RFCOMM_DisconnectInd
  <2>2. IsDevice(p, u) /\ Forgotten(t, u)
    BY <2>1, ForgetCachedForgets
  <2> QED
    BY <2>2 DEF Forgotten, Down
<1>5. CASE ~IsCached(t, b)
  <2>1. u = t
    BY <1>3, <1>5 DEF RFCOMM_DisconnectInd
  <2>2. b = NoChannel
    BY <1>2, <1>3, <1>5 DEF IsCached
  <2> QED
    BY <1>1, <2>1, <2>2 DEF Aside
<1> QED
  BY <1>4, <1>5

\* What comes of it when every channel is down already.
LEMMA LcidDown ==
  ASSUME NEW e, IsEnv(e), NEW s, IsDevice(e.self, s), Fine(e, s), Down(s), Role(s), Settled(s),
         NEW k, k = s.mx.lcid, s.mx.state # "IDLE" => k \in s.lcid_mcb,
         s.mx.state = "IDLE" /\ k # NoChannel => k[1] = s.self,
         s.mx.collision_outgoing_lcid = NoChannel,
         ~s.mx.collision_outgoing_conn_cnf, ~s.mx.collision_outgoing_cfg_complete,
         NEW t, t = RFCOMM_DisconnectInd(s, k)
  PROVE  Tidy(t) /\ Down(t) /\ IsDevice(e.self, t)
<1>1. /\ s.lcid_mcb \in SUBSET Channels /\ NoChannel \notin Channels
      /\ s.mx.lcid \in AnyChannel /\ s.ccb \in [Channels -> CcbStates]
  BY Members, MxMembers, NoChannelOut
<1>2. Unopened(s)
  BY DEF Unopened, Down
<1>a. CASE s.mx.state # "IDLE"
  <2> DEFINE u == [s EXCEPT !.mx.state = "IDLE"]
  <2>1. rfc_find_lcid_mcb(s, k) /\ ~IsCached(s, k)
    BY <1>a DEF rfc_find_lcid_mcb, IsCached
  <2>2. t = PORT_CloseInd(u)
    BY <1>a, <2>1 DEF RFCOMM_DisconnectInd
  <2>3. /\ IsDevice(e.self, u) /\ SameMx(s, u) /\ u.mx.state = "IDLE" /\ u.self = s.self
        /\ u.made = s.made /\ u.ccb = s.ccb /\ u.out = s.out
    BY Idled
  <2> HIDE DEF u
  <2>4. View(u) = View(s)
    <3>1. u.mx.lcid = s.mx.lcid /\ u.mx.collision_outgoing_lcid = s.mx.collision_outgoing_lcid
      BY <2>3 DEF SameMx
    <3>2. \A c \in Channels : Status(u, c) = Status(s, c)
      BY <2>3, <3>1 DEF Status, Down
    <3> QED
      BY <3>2 DEF View
  <2>5. Fine(e, u)
    <3>1. Sent(e, u) = Sent(e, s)
      BY <2>3 DEF Sent
    <3> QED
      BY <2>3, <2>4, <3>1, Zenon DEF Fine
  <2>6. Shut(u)
    BY <1>2, <2>3 DEF Shut, SameMx, Role, Unopened, Down
  <2>7. Good(e, t)
    BY <2>2, <2>3, <2>5, <2>6, CloseIndGood
  <2>8. t.ccb = u.ccb
    BY <2>2, <2>3, CloseIndDown
  <2> QED
    BY <2>3, <2>7, <2>8 DEF Good, Down
<1>b. CASE s.mx.state = "IDLE"
  <2>1. t = s \/ t = ForgetCached(s)
    BY <1>b DEF RFCOMM_DisconnectInd
  <2>2. /\ IsDevice(e.self, t) /\ t.self = s.self /\ t.made = s.made /\ t.ccb = s.ccb
        /\ t.mx.state = s.mx.state /\ t.mx.lcid = s.mx.lcid
        /\ t.mx.is_initiator = s.mx.is_initiator
        /\ t.mx.is_disc_initiator = s.mx.is_disc_initiator
        /\ t.mx.collision_outgoing_lcid = NoChannel
        /\ ~t.mx.collision_outgoing_conn_cnf /\ ~t.mx.collision_outgoing_cfg_complete
    <3>1. CASE t = s
      BY <3>1
    <3>2. CASE t = ForgetCached(s)
      <4>1. IsDevice(e.self, t) /\ Forgotten(s, t)
        BY <3>2, ForgetCachedForgets
      <4> QED
        BY <4>1 DEF Forgotten
    <3> QED
      BY <2>1, <3>1, <3>2
  <2>3. Role(t) /\ Unopened(t) /\ Settled(t) /\ Down(t)
    BY <1>2, <2>2 DEF Role, Unopened, Settled, Down
  <2>4. Placed(t) /\ Aside(t) /\ Watch(t)
    BY <1>1, <1>b, <2>2, <2>3 DEF Placed, Aside, Watch, Stray, Down, AnyChannel
  <2> QED
    BY <2>2, <2>3, <2>4 DEF Tidy, Neat
<1> QED
  BY <1>a, <1>b

\* What LinkDown makes of a device.
LEMMA LinkDownTidy ==
  ASSUME NEW e, IsEnv(e), NEW s, IsDevice(e.self, s), Tidy(s), e.in = <<>>, e.sent = <<>>,
         s.out = <<>>,
         \A c \in Channels : /\ e.view[c] \in {"NEW", "CLOSED"}
                             /\ c[1] = e.self => e.view[c] = "CLOSED"
  PROVE  Tidy(LinkDown(s)) /\ Down(LinkDown(s))
<1> DEFINE s1 == [s EXCEPT !.ccb = [c \in Channels |-> "CLOSED"]]
           b == s.mx.collision_outgoing_lcid
           k == s.mx.lcid
           s2 == RFCOMM_DisconnectInd(s1, b)
           s3 == RFCOMM_DisconnectInd(s2, k)
           t == [s3 EXCEPT !.out = <<>>]
<1>1. LinkDown(s) = t
  BY DEF LinkDown
<1>2. /\ s1 = [s EXCEPT !.ccb = [c \in Channels |-> "CLOSED"]]
      /\ s2 = RFCOMM_DisconnectInd(s1, b) /\ s3 = RFCOMM_DisconnectInd(s2, k)
      /\ b = s.mx.collision_outgoing_lcid /\ k = s.mx.lcid
  OBVIOUS
<1> HIDE DEF s1, s2, s3, b, k
<1>3. /\ IsDevice(e.self, s1) /\ Down(s1) /\ s1.self = s.self /\ s1.made = s.made /\ s1.mx = s.mx
      /\ s1.lcid_mcb = s.lcid_mcb /\ s1.out = s.out
  BY <1>2, ChannelsDown
<1>4. /\ IsDevice(e.self, s2) /\ s2.self = s.self /\ s2.made = s.made /\ Down(s2)
      /\ s2.lcid_mcb = s.lcid_mcb /\ s2.out = s1.out
      /\ s2.mx.state = s.mx.state /\ s2.mx.lcid = s.mx.lcid
      /\ s2.mx.is_initiator = s.mx.is_initiator
      /\ s2.mx.is_disc_initiator = s.mx.is_disc_initiator
      /\ s2.mx.collision_outgoing_lcid = NoChannel
      /\ ~s2.mx.collision_outgoing_conn_cnf /\ ~s2.mx.collision_outgoing_cfg_complete
  <2>1. s1.mx = s.mx /\ s1.lcid_mcb = s.lcid_mcb /\ s1.self = s.self /\ s1.made = s.made
    BY <1>3
  <2>2. IsDevice(e.self, s1) /\ Down(s1)
    BY <1>3
  <2>3. b = s.mx.collision_outgoing_lcid /\ s2 = RFCOMM_DisconnectInd(s1, b)
    BY <1>2
  <2>4. IsDevice(e.self, s) /\ Tidy(s)
    OBVIOUS
  <2> QED
    BY ONLY <2>1, <2>2, <2>3, <2>4, AsideDown
<1>5. Fine(e, s2)
  <2>1. s2.out = <<>> /\ Sent(e, s2) = <<>>
    BY <1>3, <1>4 DEF Sent
  <2> QED
    BY <1>4, <2>1, DownFine
<1>6. /\ Role(s2) /\ Settled(s2) /\ k = s2.mx.lcid
      /\ s2.mx.state # "IDLE" => k \in s2.lcid_mcb
      /\ s2.mx.state = "IDLE" /\ k # NoChannel => k[1] = s2.self
  BY <1>2, <1>4 DEF Tidy, Neat, Role, Settled, Placed
<1>7. Tidy(s3) /\ Down(s3) /\ IsDevice(e.self, s3)
  BY <1>2, <1>4, <1>5, <1>6, LcidDown
<1>8. SameDevice(s3, t)
  BY <1>7 DEF SameDevice, IsDevice, Device
<1> HIDE DEF t
<1>9. Tidy(t)
  BY <1>7, <1>8, SameTidy
<1> QED
  BY <1>1, <1>7, <1>8, <1>9 DEF Down, SameDevice

-----------------------------------------------------------------------------
(* Both devices *)

\* There are two devices.
LEMMA TheOther ==
  ASSUME NEW p \in Peers
  PROVE  /\ Other(p) \in Peers /\ Other(p) # p /\ Other(Other(p)) = p
         /\ \A q \in Peers : q = p \/ q = Other(p)
<1>1. PICK a, b \in Peers : a # b /\ Peers = {a, b}
  BY PeersAssumption
<1>2. \E q \in Peers : q # p
  BY <1>1
<1>3. Other(p) \in Peers /\ Other(p) # p
  BY <1>2 DEF Other
<1>4. \A q \in Peers : q = p \/ q = Other(p)
  BY <1>1, <1>3
<1>5. Other(Other(p)) \in Peers /\ Other(Other(p)) # Other(p)
  <2>1. \E q \in Peers : q # Other(p)
    BY <1>3
  <2> QED
    BY <2>1 DEF Other
<1> QED
  BY <1>3, <1>4, <1>5

\* Device p about to run a handler, st and ln being the devices and the links.
EnvOf(p, st, ln) ==
  [self |-> p, other |-> Other(p), view |-> View(st[Other(p)]), in |-> ln[p],
   sent |-> ln[Other(p)]]

Agreed(st, ln) ==
  \A p \in Peers : Good(EnvOf(p, st, ln), st[p]) /\ Signed(ln[p], Other(p))

\* The members of the environment of a device.
LEMMA EnvIs ==
  ASSUME NEW p \in Peers, NEW st, NEW ln, ln \in [Peers -> Seq(Frame)], NEW e, e = EnvOf(p, st, ln)
  PROVE  /\ IsEnv(e) /\ e.self = p /\ e.other = Other(p) /\ e.view = View(st[Other(p)])
         /\ e.in = ln[p] /\ e.sent = ln[Other(p)]
<1>1. /\ Other(p) \in Peers /\ Other(p) # p /\ \A q \in Peers : q = p \/ q = Other(p)
  BY TheOther
<1>2. /\ e.self = p /\ e.other = Other(p) /\ e.view = View(st[Other(p)])
      /\ e.in = ln[p] /\ e.sent = ln[Other(p)]
  BY DEF EnvOf
<1> QED
  BY <1>1, <1>2 DEF IsEnv

\* A handler has ended and what it sent is on its way.
LEMMA HandedOver ==
  ASSUME NEW e, IsEnv(e), NEW t, Good(e, t), NEW u, u = [t EXCEPT !.out = <<>>],
         NEW d, d.self = e.self, d.other = e.other, d.view = e.view, d.in = e.in,
         d.sent = Sent(e, t)
  PROVE  Good(d, u) /\ View(u) = View(t) /\ u.out = <<>>
<1>1. IsDevice(e.self, t) /\ Fine(e, t) /\ Tidy(t)
  BY DEF Good
<1>2. IsDevice(e.self, u) /\ u.out = <<>>
  BY <1>1, OutSent
<1>3. SameDevice(t, u)
  BY <1>1 DEF SameDevice, IsDevice, Device
<1>4. Tidy(u) /\ View(u) = View(t)
  BY <1>1, <1>3, SameTidy
<1>5. Sent(d, u) = Sent(e, t)
  <2>1. t.out \in Seq(Frame) /\ e.sent \in Seq(Frame)
    BY <1>1, Members DEF IsEnv
  <2>2. Sent(e, t) \in Seq(Frame)
    BY <2>1, ConcatProperties DEF Sent
  <2>3. PICK L \in Seq(Frame) : L = Sent(e, t)
    BY <2>2
  <2>4. L \o <<>> = L
    OBVIOUS
  <2> QED
    BY <1>2, <2>3, <2>4, Zenon DEF Sent
<1>6. Signed(u.out, e.self)
  BY <1>2 DEF Signed
<1>7. Fine(d, u)
  BY <1>1, <1>4, <1>5, <1>6 DEF Fine
<1> QED
  BY <1>2, <1>4, <1>7 DEF Good

\* The other device sees the same from its end.
LEMMA Mirrored ==
  ASSUME NEW d, NEW u, Good(d, u), u.out = <<>>, NEW m, NEW z, IsDevice(m.self, z), Tidy(z),
         z.out = <<>>, d.view = View(z), m.view = View(u), m.self = d.other, m.other = d.self,
         m.in = d.sent, m.sent = d.in, d.in \in Seq(Frame), d.sent \in Seq(Frame)
  PROVE  Good(m, z)
<1>1. Sent(d, u) = d.sent /\ Sent(m, z) = d.in
  BY DEF Sent
<1>2. /\ Own(d.self, View(u), d.view, d.sent, d.in)
      /\ Own(d.other, d.view, View(u), d.in, d.sent)
  BY <1>1 DEF Good, Fine
<1>3. Signed(z.out, m.self)
  BY DEF Signed
<1>4. Fine(m, z)
  BY <1>1, <1>2, <1>3 DEF Fine
<1> QED
  BY <1>4 DEF Good

\* Two signed queues, one behind the other.
LEMMA SignedConcat ==
  ASSUME NEW a \in Seq(Frame), NEW b \in Seq(Frame), NEW p, Signed(a, p), Signed(b, p)
  PROVE  Signed(a \o b, p)
<1> SUFFICES ASSUME NEW i \in 1 .. Len(a \o b), (a \o b)[i].k \notin Signals
             PROVE  (a \o b)[i].initiator <=> (a \o b)[i].c[1] = p
  BY DEF Signed
<1>1. Len(a \o b) = Len(a) + Len(b) /\ Len(a) \in Nat /\ Len(b) \in Nat
  OBVIOUS
<1>2. CASE i <= Len(a)
  <2>1. (a \o b)[i] = a[i] /\ i \in 1 .. Len(a)
    BY <1>1, <1>2
  <2> QED
    BY <2>1 DEF Signed
<1>3. CASE i > Len(a)
  <2>1. (a \o b)[i] = b[i - Len(a)] /\ i - Len(a) \in 1 .. Len(b)
    BY <1>1, <1>3
  <2> QED
    BY <2>1 DEF Signed
<1> QED
  BY <1>1, <1>2, <1>3

\* A signed queue without its head.
LEMMA SignedTail ==
  ASSUME NEW a \in Seq(Frame), a # <<>>, NEW p, Signed(a, p)
  PROVE  Signed(Tail(a), p)
<1> SUFFICES ASSUME NEW i \in 1 .. Len(Tail(a)), Tail(a)[i].k \notin Signals
             PROVE  Tail(a)[i].initiator <=> Tail(a)[i].c[1] = p
  BY DEF Signed
<1>1. Tail(a)[i] = a[i + 1] /\ i + 1 \in 1 .. Len(a)
  OBVIOUS
<1> QED
  BY <1>1 DEF Signed

\* No device is in the middle of a handler.
Quiet(st, ln) == ln \in [Peers -> Seq(Frame)] /\ \A p \in Peers : st[p].out = <<>>

\* Device p runs a handler in r.
Runs(p, r, st, ln) ==
  /\ IsEnv(r) /\ r.self = p /\ r.other = Other(p) /\ r.view = View(st[Other(p)])
  /\ r.sent = ln[Other(p)] /\ Signed(r.in, Other(p))

\* It has become t.
Ran(p, r, t, st, ln, st2, ln2) ==
  /\ st2[p] = [t EXCEPT !.out = <<>>] /\ st2[Other(p)] = st[Other(p)]
  /\ ln2[p] = r.in /\ ln2[Other(p)] = ln[Other(p)] \o t.out

\* Device p has run a handler.
LEMMA StepAgreed ==
  ASSUME NEW st, NEW ln, Quiet(st, ln), Agreed(st, ln), NEW p \in Peers, NEW r, Runs(p, r, st, ln),
         NEW t, Good(r, t), NEW st2, NEW ln2, Ran(p, r, t, st, ln, st2, ln2)
  PROVE  Agreed(st2, ln2)
<1> DEFINE q == Other(p)
<1>0. /\ ln \in [Peers -> Seq(Frame)] /\ \A x \in Peers : st[x].out = <<>>
      /\ IsEnv(r) /\ r.self = p /\ r.other = q /\ r.view = View(st[q])
      /\ r.sent = ln[q] /\ Signed(r.in, q)
      /\ st2[p] = [t EXCEPT !.out = <<>>] /\ st2[q] = st[q]
      /\ ln2[p] = r.in /\ ln2[q] = ln[q] \o t.out
  BY DEF Quiet, Runs, Ran
<1>q. q = Other(p)
  OBVIOUS
<1> HIDE DEF q
<1> USE <1>0, <1>q
<1> DEFINE d == EnvOf(p, st2, ln2)
           m == EnvOf(q, st2, ln2)
           u == st2[p]
           z == st[q]
<1>1. q \in Peers /\ q # p /\ Other(q) = p /\ \A x \in Peers : x = p \/ x = q
  BY TheOther
<1>2. t.out \in Seq(Frame) /\ r.in \in Seq(Frame) /\ r.sent \in Seq(Frame) /\ Signed(t.out, p)
  BY Members DEF Good, IsEnv, Fine
<1>3. /\ d.self = p /\ d.other = q /\ d.view = View(z) /\ d.in = r.in /\ d.sent = Sent(r, t)
  BY DEF EnvOf, Sent
<1>4. /\ m.self = q /\ m.other = p /\ m.view = View(u) /\ m.in = d.sent /\ m.sent = d.in
  BY <1>1 DEF EnvOf
<1>u. u = [t EXCEPT !.out = <<>>]
  OBVIOUS
<1>z. IsDevice(q, z) /\ Tidy(z) /\ z.out = <<>> /\ Signed(ln[q], p)
  <2>1. Good(EnvOf(q, st, ln), st[q]) /\ Signed(ln[q], Other(q))
    BY <1>1 DEF Agreed
  <2>2. EnvOf(q, st, ln).self = q
    BY DEF EnvOf
  <2> QED
    BY <1>1, <2>1, <2>2 DEF Good
<1> HIDE DEF d, m, u, z
<1>d. /\ d.self = r.self /\ d.other = r.other /\ d.view = r.view /\ d.in = r.in
      /\ d.sent = Sent(r, t)
  BY <1>3 DEF z
<1>5. Good(d, u) /\ u.out = <<>>
  <2>1. d.self = r.self
    BY <1>d
  <2>2. d.other = r.other
    BY <1>d
  <2>3. d.view = r.view
    BY <1>d
  <2>4. d.in = r.in
    BY <1>d
  <2>5. d.sent = Sent(r, t)
    BY <1>d
  <2>6. IsEnv(r) /\ Good(r, t)
    OBVIOUS
  <2> QED
    BY ONLY <2>1, <2>2, <2>3, <2>4, <2>5, <2>6, <1>u, HandedOver
<1>6. Sent(r, t) \in Seq(Frame)
  BY <1>2, ConcatProperties DEF Sent
<1>7. Good(m, z)
  <2>1. IsDevice(m.self, z) /\ Tidy(z) /\ z.out = <<>>
    BY <1>4, <1>z
  <2>2. d.view = View(z)
    BY <1>3
  <2>3. m.view = View(u)
    BY <1>4
  <2>4. m.self = d.other
    BY <1>3, <1>4
  <2>5. m.other = d.self
    BY <1>3, <1>4
  <2>6. m.in = d.sent
    BY <1>4
  <2>7. m.sent = d.in
    BY <1>4
  <2>8. d.in \in Seq(Frame) /\ d.sent \in Seq(Frame)
    BY <1>2, <1>3, <1>6
  <2> QED
    BY ONLY <1>5, <2>1, <2>2, <2>3, <2>4, <2>5, <2>6, <2>7, <2>8, Mirrored
<1>8. Signed(ln2[q], p)
  BY <1>2, <1>z, SignedConcat
<1>9. st2[q] = z
  BY DEF z
<1> QED
  BY <1>1, <1>5, <1>7, <1>8, <1>9 DEF Agreed, d, m, u

\* The devices and the links between two handlers.
AgreedInv == Inv /\ Agreed(stack, link)

\* A handler that takes nothing from the link.
LEMMA BecomesAgreed ==
  ASSUME AgreedInv, Inv', NEW p \in Peers, NEW t, Becomes(p, t),
         Good(EnvOf(p, stack, link), t)
  PROVE  AgreedInv'
<1>1. Other(p) \in Peers /\ Other(p) # p
  BY TheOther
<1>2. /\ link \in [Peers -> Seq(Frame)] /\ \A x \in Peers : stack[x].out = <<>>
      /\ stack \in [Peers -> Devices] /\ Agreed(stack, link)
  BY DEF AgreedInv, Inv
<1>3. /\ stack'[p] = [t EXCEPT !.out = <<>>] /\ stack'[Other(p)] = stack[Other(p)]
      /\ link'[p] = link[p] /\ link'[Other(p)] = link[Other(p)] \o t.out
  BY <1>1, <1>2 DEF Becomes
<1> DEFINE r == EnvOf(p, stack, link)
<1>4. /\ IsEnv(r) /\ r.self = p /\ r.other = Other(p) /\ r.view = View(stack[Other(p)])
      /\ r.in = link[p] /\ r.sent = link[Other(p)]
  BY <1>2, EnvIs
<1>5. Signed(r.in, Other(p)) /\ Good(r, t) /\ link'[p] = r.in
  BY <1>2, <1>3, <1>4 DEF Agreed
<1> HIDE DEF r
<1>6. Quiet(stack, link) /\ Agreed(stack, link)
  BY <1>2 DEF Quiet
<1>7. Runs(p, r, stack, link)
  BY <1>4, <1>5 DEF Runs
<1>8. Ran(p, r, t, stack, link, stack', link')
  BY <1>3, <1>5 DEF Ran
<1>9. Agreed(stack', link')
  BY <1>5, <1>6, <1>7, <1>8, StepAgreed
<1> QED
  BY <1>9 DEF AgreedInv

-----------------------------------------------------------------------------
(* The steps *)

\* Device p between two handlers.
LEMMA AtRest ==
  ASSUME AgreedInv, NEW p \in Peers, NEW e, e = EnvOf(p, stack, link)
  PROVE  /\ IsEnv(e) /\ e.self = p /\ e.other = Other(p) /\ e.in = link[p]
         /\ e.sent = link[Other(p)] /\ e.view = View(stack[Other(p)])
         /\ Good(e, stack[p]) /\ Signed(e.in, e.other)
         /\ IsDevice(p, stack[p]) /\ Settled(stack[p]) /\ stack[p].out = <<>>
<1>1. /\ link \in [Peers -> Seq(Frame)] /\ Agreed(stack, link)
      /\ IsDevice(p, stack[p]) /\ stack[p].out = <<>>
  BY DEF AgreedInv, Inv
<1>2. /\ IsEnv(e) /\ e.self = p /\ e.other = Other(p) /\ e.in = link[p]
      /\ e.sent = link[Other(p)] /\ e.view = View(stack[Other(p)])
  BY <1>1, EnvIs
<1>3. Good(e, stack[p]) /\ Signed(e.in, e.other)
  BY <1>1, <1>2 DEF Agreed
<1> QED
  BY <1>1, <1>2, <1>3 DEF Good, Tidy

\* The application opens a port.
LEMMA CreateConnectionAgreed ==
  ASSUME AgreedInv, Inv', NEW p \in Peers, RFCOMM_CreateConnection(p)
  PROVE  AgreedInv'
<1> DEFINE e == EnvOf(p, stack, link)
<1>1. /\ IsEnv(e) /\ e.self = p /\ Good(e, stack[p])
  BY AtRest
<1>2. Becomes(p, port_open_continue(stack[p])) /\ ~stack[p].port["cl"].in_use
  BY DEF RFCOMM_CreateConnection
<1>3. Good(e, port_open_continue(stack[p]))
  <2> HIDE DEF e
  <2> QED
    BY <1>1, <1>2, OpenContinueGood
<1> QED
  BY <1>2, <1>3, BecomesAgreed

\* It closes one.
LEMMA RemoveConnectionAgreed ==
  ASSUME AgreedInv, Inv', NEW p \in Peers, NEW x \in Handles, RFCOMM_RemoveConnection(p, x)
  PROVE  AgreedInv'
<1> DEFINE e == EnvOf(p, stack, link)
           t == port_start_close(stack[p], x)
<1>1. IsEnv(e) /\ e.self = p /\ Good(e, stack[p]) /\ IsDevice(p, stack[p]) /\ Settled(stack[p])
  BY AtRest
<1>2. Becomes(p, t)
  BY DEF RFCOMM_RemoveConnection
<1>3. Good(e, t)
  <2> HIDE DEF e
  <2>1. Calm(e, stack[p], t) /\ IsDevice(p, t)
    BY <1>1, StartCloseCalm, StartCloseKeeps
  <2> HIDE DEF t
  <2> QED
    BY <1>1, <2>1, CalmGood
<1> QED
  BY <1>2, <1>3, BecomesAgreed

\* It closes a server.
LEMMA RemoveServerAgreed ==
  ASSUME AgreedInv, Inv', NEW p \in Peers, RFCOMM_RemoveServer(p)
  PROVE  AgreedInv'
<1> DEFINE e == EnvOf(p, stack, link)
           s == stack[p]
           w == [s EXCEPT !.port["sv"].keep = FALSE]
           t == port_start_close(w, "sv")
<1>0. "sv" \in Handles
  BY DEF Handles
<1>1. IsEnv(e) /\ e.self = p /\ Good(e, s) /\ IsDevice(p, s)
  BY AtRest
<1>2. Becomes(p, t)
  BY DEF RFCOMM_RemoveServer
<1>3. Good(e, t)
  <2> HIDE DEF e, s
  <2>1. IsDevice(p, w)
    BY <1>0, <1>1, SetKeep
  <2>2. /\ w.self = s.self /\ w.made = s.made /\ w.ccb = s.ccb /\ w.lcid_mcb = s.lcid_mcb
        /\ w.mx = s.mx /\ w.out = s.out /\ w.port_handles = s.port_handles
    BY <1>1 DEF IsDevice, Device
  <2>3. \A x \in Handles : w.port[x].attached = s.port[x].attached /\ w.port[x].sm = s.port[x].sm
    BY <1>0, <1>1 DEF IsDevice, Device, Port
  <2>4. Busy(w) => Busy(s)
    BY <2>3 DEF Busy
  <2> HIDE DEF w
  <2>5. Good(e, w)
    BY <1>1, <2>1, <2>2, <2>4, PortsUntouched, UntouchedGood
  <2>6. Settled(w)
    BY <2>5 DEF Good, Tidy
  <2>7. Calm(e, w, t) /\ IsDevice(p, t)
    BY <1>0, <1>1, <2>1, <2>6, StartCloseCalm, StartCloseKeeps
  <2> HIDE DEF t
  <2> QED
    BY <1>1, <2>5, <2>7, CalmGood
<1> QED
  BY <1>2, <1>3, BecomesAgreed

\* The timer of a port runs out.
LEMMA PortTimerAgreed ==
  ASSUME AgreedInv, Inv', NEW p \in Peers, NEW x \in Handles, rfcomm_port_timer_timeout(p, x)
  PROVE  AgreedInv'
<1> DEFINE e == EnvOf(p, stack, link)
           s == stack[p]
           w == [s EXCEPT !.port[x].timer = FALSE]
           t == rfc_port_sm_execute(w, x, "TIMEOUT")
<1>1. IsEnv(e) /\ e.self = p /\ Good(e, s) /\ IsDevice(p, s)
  BY AtRest
<1>2. Becomes(p, t)
  BY DEF rfcomm_port_timer_timeout
<1>3. Good(e, t)
  <2> HIDE DEF e, s
  <2>1. IsDevice(p, w)
    BY <1>1, SetPortTimer
  <2>2. /\ w.self = s.self /\ w.made = s.made /\ w.ccb = s.ccb /\ w.lcid_mcb = s.lcid_mcb
        /\ w.mx = s.mx /\ w.out = s.out /\ w.port_handles = s.port_handles
    BY <1>1 DEF IsDevice, Device
  <2>3. \A y \in Handles : w.port[y].attached = s.port[y].attached /\ w.port[y].sm = s.port[y].sm
    BY <1>1 DEF IsDevice, Device, Port
  <2>4. Busy(w) => Busy(s)
    BY <2>3 DEF Busy
  <2> HIDE DEF w
  <2>5. Good(e, w)
    BY <1>1, <2>1, <2>2, <2>4, PortsUntouched, UntouchedGood
  <2>6. Settled(w)
    BY <2>5 DEF Good, Tidy
  <2>7. Calm(e, w, t) /\ IsDevice(p, t)
    BY <1>1, <2>1, <2>6, PortExecuteCalm, PortExecuteKeeps DEF LateEvents
  <2> HIDE DEF t
  <2> QED
    BY <1>1, <2>5, <2>7, CalmGood
<1> QED
  BY <1>2, <1>3, BecomesAgreed

\* The security check of a port ends.
LEMMA SecurityAgreed ==
  ASSUME AgreedInv, Inv', NEW p \in Peers, NEW x \in Handles, NEW event \in {"SEC_OK", "SEC_FAILED"},
         Becomes(p, rfc_port_sm_execute(stack[p], x, event))
  PROVE  AgreedInv'
<1> DEFINE e == EnvOf(p, stack, link)
           t == rfc_port_sm_execute(stack[p], x, event)
<1>1. IsEnv(e) /\ e.self = p /\ Good(e, stack[p]) /\ IsDevice(p, stack[p]) /\ Settled(stack[p])
  BY AtRest
<1>2. Becomes(p, t)
  OBVIOUS
<1>3. Good(e, t)
  <2> HIDE DEF e
  <2>1. event \in LateEvents /\ event \notin {"UA", "SABME"}
    BY DEF LateEvents
  <2>2. Calm(e, stack[p], t) /\ IsDevice(p, t)
    BY <1>1, <2>1, PortExecuteCalm, PortExecuteKeeps
  <2> HIDE DEF t
  <2> QED
    BY <1>1, <2>2, CalmGood
<1> QED
  BY <1>2, <1>3, BecomesAgreed

\* The timer of a channel runs out.
LEMMA L2capTimeoutAgreed ==
  ASSUME AgreedInv, Inv', NEW p \in Peers, NEW c \in Channels, L2capTimeout(p, c)
  PROVE  AgreedInv'
<1> DEFINE e == EnvOf(p, stack, link)
<1>1. IsEnv(e) /\ e.self = p /\ Good(e, stack[p])
  BY AtRest
<1>2. /\ Becomes(p, l2c_ccb_timer_timeout(stack[p], c))
      /\ stack[p].ccb[c] \in {"W4_CONNECT_RSP", "CONFIG"}
  BY DEF L2capTimeout
<1>3. Good(e, l2c_ccb_timer_timeout(stack[p], c))
  <2> HIDE DEF e
  <2> QED
    BY <1>1, <1>2, ChannelTimeoutGood
<1> QED
  BY <1>2, <1>3, BecomesAgreed

\* No multiplexer is left in DISC_WAIT_UA without a channel: L2CA_ConnectReq does not fail when
\* a multiplexer without ports is to start again (rfc_mx_sm_state_disc_wait_ua).
NeverStray == \A p \in Peers : ~Stray(stack[p])

\* What the device becomes has the multiplexer of t.
LEMMA BecomesStray ==
  ASSUME Inv, NEW p \in Peers, NEW t, IsDevice(p, t), NeverStray',
         stack' = [stack EXCEPT ![p] = [t EXCEPT !.out = <<>>]]
  PROVE  ~Stray(t)
<1>1. stack'[p] = [t EXCEPT !.out = <<>>]
  BY DEF Inv
<1>2. [t EXCEPT !.out = <<>>].mx = t.mx /\ [t EXCEPT !.out = <<>>].made = t.made
  BY DEF IsDevice, Device
<1>3. ~Stray(stack'[p])
  BY DEF NeverStray
<1> QED
  BY <1>1, <1>2, <1>3 DEF Stray

\* The timer of the multiplexer runs out.
LEMMA McbTimerAgreed ==
  ASSUME AgreedInv, Inv', NeverStray', NEW p \in Peers, rfcomm_mcb_timer_timeout(p)
  PROVE  AgreedInv'
<1> DEFINE e == EnvOf(p, stack, link)
           w == [stack[p] EXCEPT !.mx.timer = "NONE"]
           t == rfc_mx_timeout(w)
<1>1. IsEnv(e) /\ e.self = p /\ Good(e, stack[p]) /\ IsDevice(p, stack[p])
  BY AtRest
<1>2. Becomes(p, t)
  BY DEF rfcomm_mcb_timer_timeout
<1>3. Good(e, t) \/ Stray(t)
  <2> HIDE DEF e
  <2> QED
    BY <1>1, MxTimeoutGood
<1>4. IsDevice(p, t)
  <2>1. IsDevice(p, w)
    BY <1>1, SetMxTimer DEF MxTimers
  <2> HIDE DEF w
  <2> QED
    BY <2>1, MxTimeoutKeeps
<1> HIDE DEF t
<1>5. ~Stray(t)
  BY <1>2, <1>4, BecomesStray DEF Becomes, AgreedInv
<1> QED
  BY <1>2, <1>3, <1>5, BecomesAgreed

\* Device p takes the first frame on its way to it, and has become t.
LEMMA TakesAgreed ==
  ASSUME AgreedInv, Inv', NEW p \in Peers, NEW e, e = EnvOf(p, stack, link), NEW r, Rest(e, r),
         NEW t, Good(r, t), NEW q, q = Other(p),
         stack'[p] = [t EXCEPT !.out = <<>>], stack'[q] = stack[q],
         link'[p] = Tail(link[p]), link'[q] = link[q] \o t.out
  PROVE  AgreedInv'
<1>1. /\ IsEnv(e) /\ e.self = p /\ e.other = Other(p) /\ e.in = link[p]
      /\ e.sent = link[Other(p)] /\ e.view = View(stack[Other(p)]) /\ Signed(e.in, e.other)
  BY AtRest
<1>2. /\ r.self = e.self /\ r.other = e.other /\ r.view = e.view /\ r.sent = e.sent
      /\ e.in # <<>> /\ r.in = Tail(e.in)
  BY DEF Rest
<1>3. e.in \in Seq(Frame) /\ Tail(e.in) \in Seq(Frame)
  BY <1>1, <1>2 DEF IsEnv
<1>4. Signed(r.in, Other(p))
  BY <1>1, <1>2, <1>3, SignedTail
<1>5. IsEnv(r)
  BY <1>1, <1>2, <1>3 DEF IsEnv
<1>6. Runs(p, r, stack, link)
  BY <1>1, <1>2, <1>4, <1>5 DEF Runs
<1>7. Ran(p, r, t, stack, link, stack', link')
  BY <1>1, <1>2 DEF Ran
<1>8. Quiet(stack, link) /\ Agreed(stack, link)
  BY DEF AgreedInv, Inv, Quiet
<1>9. Agreed(stack', link')
  BY <1>6, <1>7, <1>8, StepAgreed
<1> QED
  BY <1>9 DEF AgreedInv

\* It is delivered.
LEMMA ReceiveAgreed ==
  ASSUME AgreedInv, Inv', NeverStray', NEW p \in Peers, Receive(p)
  PROVE  AgreedInv'
<1> DEFINE e == EnvOf(p, stack, link)
           r == [e EXCEPT !.in = Tail(link[p])]
           f == Head(link[p])
           t == Deliver(stack[p], f)
           q == Other(p)
<1>0. q \in Peers /\ q # p
  BY TheOther
<1>1. /\ IsEnv(e) /\ e.self = p /\ e.in = link[p] /\ Good(e, stack[p]) /\ Signed(e.in, e.other)
      /\ IsDevice(p, stack[p])
  BY AtRest
<1>2. /\ link[p] # <<>> /\ link[p] \in Seq(Frame) /\ stack' = [stack EXCEPT ![p] = [t EXCEPT !.out = <<>>]]
      /\ link' = [[link EXCEPT ![p] = Tail(link[p])] EXCEPT ![q] = link[q] \o t.out]
  BY DEF Receive, AgreedInv, Inv
<1>3. Rest(e, r)
  BY <1>1, <1>2 DEF Rest, EnvOf
<1>4. IsDevice(p, t)
  BY <1>1, <1>2, DeliverKeeps
<1>5. f = Head(e.in)
  BY <1>1
<1>6. Good(r, t) \/ Stray(t)
  <2> HIDE DEF e, r, f
  <2> QED
    BY <1>1, <1>3, <1>5, DeliverGood
<1> HIDE DEF t
<1>7. ~Stray(t)
  BY <1>2, <1>4, BecomesStray DEF AgreedInv
<1>8. stack'[p] = [t EXCEPT !.out = <<>>] /\ stack'[q] = stack[q]
  BY <1>0, <1>2 DEF AgreedInv, Inv
<1>9. link'[p] = Tail(link[p]) /\ link'[q] = link[q] \o t.out
  BY <1>0, <1>2 DEF AgreedInv, Inv
<1> HIDE DEF r
<1> QED
  BY <1>3, <1>6, <1>7, <1>8, <1>9, TakesAgreed, ZenonT(60)

\* It is refused.
LEMMA RefuseAgreed ==
  ASSUME AgreedInv, Inv', NEW p \in Peers, Refuse(p)
  PROVE  AgreedInv'
<1> DEFINE e == EnvOf(p, stack, link)
           r == [e EXCEPT !.in = Tail(link[p])]
           g == Head(link[p])
           f == [g EXCEPT !.k = "CONN_RSP_NEG"]
           s == stack[p]
           t == [s EXCEPT !.out = <<f>>]
           q == Other(p)
<1>0. q \in Peers /\ q # p
  BY TheOther
<1>1. /\ IsEnv(e) /\ e.self = p /\ e.other = q /\ e.in = link[p] /\ Good(e, s)
      /\ IsDevice(p, s) /\ s.out = <<>>
  BY AtRest
<1>2. /\ link[p] # <<>> /\ link[p] \in Seq(Frame) /\ stack' = stack /\ g.k = "CONN_REQ"
      /\ link' = [[link EXCEPT ![p] = Tail(link[p])] EXCEPT ![q] = Append(link[q], f)]
      /\ link[q] \in Seq(Frame)
  BY <1>0 DEF Refuse, AgreedInv, Inv
<1>3. Rest(e, r)
  BY <1>1, <1>2 DEF Rest, EnvOf
<1>4. g \in Frame /\ g = Head(e.in)
  BY <1>1, <1>2
<1> HIDE DEF g, e, r, s, q
<1>5. f \in Frame /\ f.k = "CONN_RSP_NEG" /\ f.c = g.c /\ f.d = g.d /\ g.c \in Channels /\ g.d = 0
  BY <1>2, <1>4 DEF Frame, AnyFrame, Signals, PortCommands
<1> HIDE DEF f
<1>6. PICK k \in Channels : k = g.c
  BY <1>5
<1>7. Is(f, "CONN_RSP_NEG", k) /\ Is(Head(e.in), "CONN_REQ", k)
  BY <1>2, <1>4, <1>5, <1>6 DEF Is
<1>8. k[1] = e.other
  <2>1. PICK L \in Seq(Frame) : L = e.in
    BY <1>1 DEF IsEnv
  <2>2. Has(e.in, "CONN_REQ", k)
    <3>1. L # <<>> /\ Is(L[1], "CONN_REQ", k)
      BY <1>1, <1>2, <1>7, <2>1
    <3>2. 1 \in 1 .. Len(L)
      BY <3>1
    <3> QED
      BY <2>1, <3>1, <3>2 DEF Has
  <2>3. CASE k[1] = e.self
    <3>1. Own(e.self, View(s), e.view, Sent(e, s), e.in)
      BY <1>1 DEF Good, Fine
    <3>2. At(k, View(s), e.view, Sent(e, s), e.in)
      BY <2>3, <3>1 DEF Own
    <3>3. ~Has(e.in, "CONN_REQ", k)
      BY <3>2 DEF At, Handshake
    <3> QED
      BY <2>2, <3>3
  <2>4. k[1] \in Peers
    BY DEF Channels
  <2> QED
    BY <1>1, <2>3, <2>4 DEF IsEnv
<1>9. t.out = <<f>> /\ SameDevice(s, t)
  BY <1>1 DEF SameDevice, IsDevice, Device
<1>10. IsDevice(p, t)
  <2>1. <<f>> \in Seq(Frame)
    BY <1>5
  <2> QED
    BY <1>1, <2>1, SetOut
<1>11. [t EXCEPT !.out = <<>>] = s
  BY <1>1 DEF IsDevice, Device
<1> HIDE DEF t
<1>12. Tidy(t) /\ View(t) = View(s)
  BY <1>1, <1>9, SameTidy DEF Good
<1>13. t.out = Append(s.out, f) /\ s.out \in Seq(Frame)
  BY <1>1, <1>9
<1>14. Fine(r, t)
  BY <1>1, <1>3, <1>5, <1>7, <1>8, <1>12, <1>13, RefusesFine DEF Good
<1>15. Good(r, t)
  BY <1>1, <1>3, <1>10, <1>12, <1>14 DEF Good, Rest
<1>16. link[q] \o t.out = Append(link[q], f)
  BY <1>2, <1>5, <1>9
<1>17. stack'[p] = [t EXCEPT !.out = <<>>] /\ stack'[q] = stack[q]
  BY <1>2, <1>11 DEF s
<1>18. link'[p] = Tail(link[p]) /\ link'[q] = link[q] \o t.out
  BY <1>0, <1>2, <1>16 DEF AgreedInv, Inv
<1>19. e = EnvOf(p, stack, link) /\ q = Other(p)
  BY DEF e, q
<1> QED
  BY <1>3, <1>15, <1>17, <1>18, <1>19, TakesAgreed, ZenonT(60)

\* Every channel is down on both devices, and nothing is on its way.
LEMMA DownAgreed ==
  ASSUME NEW st, NEW ln, ln = [p \in Peers |-> <<>>],
         \A p \in Peers : IsDevice(p, st[p]) /\ st[p].out = <<>> /\ Tidy(st[p]) /\ Down(st[p])
  PROVE  Agreed(st, ln)
<1> SUFFICES ASSUME NEW p \in Peers
             PROVE  Good(EnvOf(p, st, ln), st[p]) /\ Signed(ln[p], Other(p))
  BY DEF Agreed
<1> DEFINE e == EnvOf(p, st, ln)
           q == Other(p)
           z == st[q]
           s == st[p]
<1>1. q \in Peers /\ q # p
  BY TheOther
<1>2. ln \in [Peers -> Seq(Frame)] /\ ln[p] = <<>> /\ ln[q] = <<>>
  BY <1>1
<1>3. IsEnv(e) /\ e.self = p /\ e.view = View(z) /\ e.in = <<>> /\ e.sent = <<>>
  <2>1. e = EnvOf(p, st, ln) /\ z = st[Other(p)] /\ q = Other(p)
    OBVIOUS
  <2> HIDE DEF e, z, q
  <2>2. /\ IsEnv(e) /\ e.self = p /\ e.other = Other(p) /\ e.view = View(st[Other(p)])
        /\ e.in = ln[p] /\ e.sent = ln[Other(p)]
    BY ONLY <1>2, <2>1, EnvIs
  <2> QED
    BY <1>2, <2>1, <2>2
<1>4. IsDevice(q, z) /\ Down(z) /\ IsDevice(p, s) /\ Tidy(s) /\ Down(s) /\ s.out = <<>>
  BY <1>1
<1> HIDE DEF e, q, z, s
<1>5. ASSUME NEW c \in Channels
      PROVE  e.view[c] \in {"NEW", "CLOSED"} /\ (c[1] = e.self => e.view[c] = "CLOSED")
  <2>1. z.self = q /\ z.ccb[c] = "CLOSED"
    BY <1>4 DEF Down, IsDevice, Device
  <2> QED
    BY <1>1, <1>3, <2>1 DEF View, Status
<1>6. Sent(e, s) = <<>>
  BY <1>3, <1>4 DEF Sent
<1>7. Fine(e, s)
  BY <1>3, <1>4, <1>5, <1>6, DownFine
<1>8. Good(e, s)
  BY <1>3, <1>4, <1>7 DEF Good
<1> QED
  BY <1>2, <1>8 DEF Signed, e, s

\* The link is lost.
LEMMA LinkLossAgreed ==
  ASSUME AgreedInv, Inv', LinkLoss
  PROVE  AgreedInv'
<1>1. stack' = [p \in Peers |-> LinkDown(stack[p])] /\ link' = [p \in Peers |-> <<>>]
  BY DEF LinkLoss
<1>2. ASSUME NEW p \in Peers
      PROVE  /\ IsDevice(p, stack'[p]) /\ stack'[p].out = <<>>
             /\ Tidy(stack'[p]) /\ Down(stack'[p])
  <2> DEFINE e == [self |-> p, other |-> Other(p), view |-> [c \in Channels |-> "CLOSED"],
                   in |-> <<>>, sent |-> <<>>]
             s == stack[p]
             b == EnvOf(p, stack, link)
  <2>1. IsDevice(p, s) /\ s.out = <<>> /\ b.self = p /\ Good(b, s) /\ IsEnv(b)
    BY AtRest
  <2>2. Tidy(s)
    BY <2>1 DEF Good
  <2>3. /\ e.self = p /\ e.in = <<>> /\ e.sent = <<>> /\ \A c \in Channels : e.view[c] = "CLOSED"
    OBVIOUS
  <2>4. IsEnv(e)
    <3>1. Other(p) \in Peers /\ Other(p) # p /\ \A x \in Peers : x = p \/ x = Other(p)
      BY TheOther
    <3>2. e.other = Other(p)
      OBVIOUS
    <3> QED
      BY <3>1, <3>2, <2>3 DEF IsEnv
  <2> HIDE DEF e, s
  <2>5. Tidy(LinkDown(s)) /\ Down(LinkDown(s))
    BY <2>1, <2>2, <2>3, <2>4, LinkDownTidy
  <2>6. IsDevice(p, LinkDown(s)) /\ LinkDown(s).out = <<>>
    BY <2>1, LinkDownKeeps
  <2>7. stack'[p] = LinkDown(s)
    BY <1>1 DEF s
  <2> QED
    BY <2>5, <2>6, <2>7
<1>3. Agreed(stack', link')
  BY <1>1, <1>2, DownAgreed
<1> QED
  BY <1>3 DEF AgreedInv

\* The devices start without channels.
LEMMA InitAgreed == Init => AgreedInv
<1> SUFFICES ASSUME Init PROVE AgreedInv
  OBVIOUS
<1>1. Inv
  BY InitInv
<1>2. ASSUME NEW p \in Peers
      PROVE  /\ IsDevice(p, stack[p]) /\ stack[p].out = <<>>
             /\ Tidy(stack[p]) /\ Down(stack[p])
  <2>1. IsDevice(p, stack[p]) /\ stack[p].out = <<>>
    BY <1>1 DEF Inv
  <2>2. stack[p].mx = IdleMx /\ \A c \in Channels : stack[p].ccb[c] = "CLOSED"
    BY DEF Init, InitialDevice
  <2>3. Unopened(stack[p]) /\ Down(stack[p])
    BY <2>2 DEF Unopened, Down
  <2> QED
    BY <2>1, <2>2, <2>3, IdleTidy
<1>3. link = [p \in Peers |-> <<>>]
  BY DEF Init
<1>4. Agreed(stack, link)
  BY <1>2, <1>3, DownAgreed
<1> QED
  BY <1>1, <1>4 DEF AgreedInv

\* Every step keeps the devices in agreement.
LEMMA NextAgreed ==
  ASSUME AgreedInv, [Next]_vars, NeverStray'
  PROVE  AgreedInv'
<1>1. Inv'
  BY NextInv DEF AgreedInv
<1>2. CASE LinkLoss
  BY <1>1, <1>2, LinkLossAgreed
<1>3. ASSUME NEW p \in Peers, RFCOMM_CreateConnection(p) PROVE AgreedInv'
  BY <1>1, <1>3, CreateConnectionAgreed
<1>4. ASSUME NEW p \in Peers, RFCOMM_RemoveServer(p) PROVE AgreedInv'
  BY <1>1, <1>4, RemoveServerAgreed
<1>5. ASSUME NEW p \in Peers, Receive(p) PROVE AgreedInv'
  BY <1>1, <1>5, ReceiveAgreed
<1>6. ASSUME NEW p \in Peers, Refuse(p) PROVE AgreedInv'
  BY <1>1, <1>6, RefuseAgreed
<1>7. ASSUME NEW p \in Peers, rfcomm_mcb_timer_timeout(p) PROVE AgreedInv'
  BY <1>1, <1>7, McbTimerAgreed
<1>8. ASSUME NEW p \in Peers, NEW c \in Channels, L2capTimeout(p, c) PROVE AgreedInv'
  BY <1>1, <1>8, L2capTimeoutAgreed
<1>9. ASSUME NEW p \in Peers, NEW x \in Handles, RFCOMM_RemoveConnection(p, x) PROVE AgreedInv'
  BY <1>1, <1>9, RemoveConnectionAgreed
<1>10. ASSUME NEW p \in Peers, NEW x \in Handles, rfcomm_port_timer_timeout(p, x) PROVE AgreedInv'
  BY <1>1, <1>10, PortTimerAgreed
<1>11. ASSUME NEW p \in Peers, NEW x \in Handles, SecurityGranted(p, x) PROVE AgreedInv'
  BY <1>1, <1>11, SecurityAgreed DEF SecurityGranted
<1>12. ASSUME NEW p \in Peers, NEW x \in Handles, SecurityFailed(p, x) PROVE AgreedInv'
  BY <1>1, <1>12, SecurityAgreed DEF SecurityFailed
<1>13. CASE UNCHANGED vars
  <2>1. stack' = stack /\ link' = link
    BY <1>13 DEF vars
  <2> QED
    BY <1>1, <2>1 DEF AgreedInv
<1> QED
  BY <1>2, <1>3, <1>4, <1>5, <1>6, <1>7, <1>8, <1>9, <1>10, <1>11, <1>12, <1>13 DEF Next

-----------------------------------------------------------------------------
(* What the devices agree on *)

\* The channel of a multiplexer that is up, and what both devices take it for.
LEMMA UpAt ==
  ASSUME NEW e, IsEnv(e), NEW s, Good(e, s),
         s.mx.state \in {"SABME_WAIT_UA", "WAIT_SABME", "CONNECTED", "DISC_WAIT_UA"}
  PROVE  /\ s.mx.lcid \in Channels /\ IsOpen(s, s.mx.lcid)
         /\ View(s)[s.mx.lcid] = s.mx.state
         /\ s.mx.lcid[1] = e.self =>
              At(s.mx.lcid, View(s), e.view, Sent(e, s), e.in)
         /\ s.mx.lcid[1] # e.self =>
              At(s.mx.lcid, e.view, View(s), e.in, Sent(e, s))
<1>1. IsDevice(e.self, s) /\ Neat(s) /\ Fine(e, s)
  BY DEF Good, Tidy
<1>2. s.mx.state # "IDLE" /\ s.ccb[s.mx.lcid] = "OPEN"
  BY <1>1 DEF Neat, Placed
<1>3. s.mx.lcid \in Channels
  BY <1>1, <1>2, TidyFree DEF Neat
<1>4. IsOpen(s, s.mx.lcid) /\ Speaks(s)
  BY <1>1, <1>2, <1>3, NeatSpeaks DEF IsOpen
<1>5. View(s)[s.mx.lcid] = s.mx.state
  BY <1>4, LcidStatus
<1>6. s.mx.lcid[1] \in Peers
  BY <1>3 DEF Channels
<1>7. s.mx.lcid[1] = e.self \/ s.mx.lcid[1] = e.other
  BY <1>6 DEF IsEnv
<1>8. /\ Own(e.self, View(s), e.view, Sent(e, s), e.in)
      /\ Own(e.other, e.view, View(s), e.in, Sent(e, s))
  BY <1>1 DEF Fine
<1> QED
  BY <1>3, <1>4, <1>5, <1>7, <1>8 DEF Own

\* A channel that a device takes for connected is that of its multiplexer.
LEMMA ConnectedAt ==
  ASSUME NEW s, NEW c \in Channels, View(s)[c] = "CONNECTED"
  PROVE  s.mx.state = "CONNECTED" /\ s.mx.lcid = c
BY DEF View, Status

\* Nothing is on its way.
LEMMA NothingThere ==
  ASSUME NEW L, L = <<>>, NEW c
  PROVE  \A k : ~Has(L, k, c)
BY DEF Has

\* Then who is connected has the other connected, and nobody waits for an answer.
LEMMA AtPeace ==
  ASSUME NEW e, IsEnv(e), NEW s, Good(e, s), e.in = <<>>, Sent(e, s) = <<>>
  PROVE  /\ s.mx.state = "CONNECTED" => e.view[s.mx.lcid] = "CONNECTED"
         /\ s.mx.state \notin {"SABME_WAIT_UA", "DISC_WAIT_UA"}
<1> DEFINE c == s.mx.lcid
           u == View(s)
           w == e.view
<1>1. \A k : ~Has(e.in, k, c) /\ ~Has(Sent(e, s), k, c)
  BY NothingThere
<1>2. ASSUME s.mx.state \in {"SABME_WAIT_UA", "CONNECTED", "DISC_WAIT_UA"}
      PROVE  s.mx.state = "CONNECTED" /\ w[c] = "CONNECTED"
  <2>1. /\ u[c] = s.mx.state
        /\ c[1] = e.self => At(c, u, w, Sent(e, s), e.in)
        /\ c[1] # e.self => At(c, w, u, e.in, Sent(e, s))
    BY <1>2, UpAt
  <2> HIDE DEF c, u, w
  <2>2. CASE c[1] = e.self
    <3>1. /\ Dialogue(c, u[c], w[c], Sent(e, s), e.in) /\ Awaited(c, u[c], w[c], Sent(e, s), e.in)
      BY <2>1, <2>2 DEF At
    <3>2. u[c] # "SABME_WAIT_UA" /\ u[c] # "DISC_WAIT_UA"
      BY <1>1, <3>1 DEF Awaited
    <3>3. u[c] = "CONNECTED"
      BY <1>2, <2>1, <3>2
    <3> QED
      BY <1>1, <2>1, <3>1, <3>3 DEF Dialogue
  <2>3. CASE c[1] # e.self
    <3>1. /\ Dialogue(c, w[c], u[c], e.in, Sent(e, s)) /\ Awaited(c, w[c], u[c], e.in, Sent(e, s))
      BY <2>1, <2>3 DEF At
    <3>2. u[c] # "DISC_WAIT_UA"
      BY <1>1, <3>1 DEF Awaited
    <3>4. s.mx.state # "SABME_WAIT_UA"
      BY <2>3 DEF Good, Tidy, Neat, Placed, IsDevice, Device, c
    <3>3. u[c] = "CONNECTED"
      BY <1>2, <2>1, <3>2, <3>4
    <3> QED
      BY <1>1, <2>1, <3>1, <3>3 DEF Dialogue, Engaged
  <2> QED
    BY <2>2, <2>3
<1> QED
  BY <1>2

\* A device that takes itself for the initiator opened the channel.
LEMMA AgreedRole ==
  ASSUME AgreedInv
  PROVE  RoleMatchesChannel
<1> SUFFICES ASSUME NEW p \in Peers, IsOpen(stack[p], stack[p].mx.lcid)
             PROVE  stack[p].mx.is_initiator <=> stack[p].mx.lcid[1] = p
  BY DEF RoleMatchesChannel
<1> DEFINE s == stack[p]
           e == EnvOf(p, stack, link)
<1>1. IsEnv(e) /\ e.self = p /\ Good(e, s) /\ IsDevice(p, s)
  BY AtRest
<1> HIDE DEF s, e
<1>2. Speaks(s)
  BY <1>1, NeatSpeaks DEF Good, Tidy
<1>3. s.self = p
  BY <1>1 DEF IsDevice, Device
<1>4. IsOpen(s, s.mx.lcid)
  BY DEF s
<1> QED
  BY <1>2, <1>3, <1>4, LcidStatus DEF s

\* A device and its environment when nothing is in flight.
LEMMA AgreedAtPeace ==
  ASSUME AgreedInv, NothingInFlight, NEW p \in Peers
  PROVE  /\ Good(EnvOf(p, stack, link), stack[p])
         /\ stack[p].mx.state = "CONNECTED" => View(stack[Other(p)])[stack[p].mx.lcid] = "CONNECTED"
         /\ stack[p].mx.state \notin {"SABME_WAIT_UA", "DISC_WAIT_UA"}
<1> DEFINE s == stack[p]
           e == EnvOf(p, stack, link)
<1>0. Other(p) \in Peers
  BY TheOther
<1>1. /\ IsEnv(e) /\ Good(e, s) /\ e.in = link[p] /\ e.sent = link[Other(p)] /\ s.out = <<>>
      /\ e.view = View(stack[Other(p)])
  BY AtRest
<1>2. e.in = <<>> /\ e.sent = <<>>
  BY <1>0, <1>1 DEF NothingInFlight
<1> HIDE DEF s, e
<1>3. Sent(e, s) = <<>>
  BY <1>1, <1>2 DEF Sent
<1>4. /\ s.mx.state = "CONNECTED" => e.view[s.mx.lcid] = "CONNECTED"
      /\ s.mx.state \notin {"SABME_WAIT_UA", "DISC_WAIT_UA"}
  BY <1>1, <1>2, <1>3, AtPeace
<1> QED
  BY <1>1, <1>4 DEF s, e

\* Both are connected, over the same channel.
LEMMA AgreedConnected ==
  ASSUME AgreedInv
  PROVE  BothConnected
<1> SUFFICES ASSUME NothingInFlight, NEW p \in Peers, stack[p].mx.state = "CONNECTED"
             PROVE  /\ stack[Other(p)].mx.state = "CONNECTED"
                    /\ stack[Other(p)].mx.lcid = stack[p].mx.lcid
  BY DEF BothConnected
<1> DEFINE s == stack[p]
           z == stack[Other(p)]
           e == EnvOf(p, stack, link)
<1>1. IsEnv(e)
  BY AtRest
<1>2. Good(e, s) /\ View(z)[s.mx.lcid] = "CONNECTED"
  BY AgreedAtPeace
<1>3. s.mx.state = "CONNECTED"
  OBVIOUS
<1> HIDE DEF s, z, e
<1>4. s.mx.lcid \in Channels
  BY <1>1, <1>2, <1>3, UpAt
<1>5. z.mx.state = "CONNECTED" /\ z.mx.lcid = s.mx.lcid
  BY <1>2, <1>4, ConnectedAt
<1> QED
  BY <1>5 DEF s, z

\* Who waits has a timer.
LEMMA AgreedWatched ==
  ASSUME AgreedInv
  PROVE  MuxWatched
<1> SUFFICES ASSUME NothingInFlight, NEW p \in Peers, NEW s, s = stack[p],
                    s.mx.state \notin {"IDLE", "CONNECTED"}
             PROVE  \/ s.mx.timer # "NONE"
                    \/ s.mx.lcid \in Channels /\ s.ccb[s.mx.lcid] \in {"W4_CONNECT_RSP", "CONFIG"}
  BY DEF MuxWatched
<1> DEFINE e == EnvOf(p, stack, link)
<1>1. IsDevice(p, s) /\ Good(e, s) /\ s.mx.state \notin {"SABME_WAIT_UA", "DISC_WAIT_UA"}
  BY AgreedAtPeace DEF AgreedInv, Inv
<1> HIDE DEF e
<1>2. Placed(s) /\ Watch(s)
  BY <1>1 DEF Good, Tidy, Neat
<1>3. s.mx.state \in MxStates
  BY <1>1, MxMembers
<1>4. s.mx.state \in {"WAIT_CONN_CNF", "WAIT_SABME"}
  BY <1>1, <1>2, <1>3 DEF MxStates, Placed
<1>5. s.mx.lcid \in Channels
  BY <1>1, <1>2, TidyFree
<1> QED
  BY <1>2, <1>4, <1>5 DEF Placed, Watch

-----------------------------------------------------------------------------
(* The channels that a device asks for *)

\* No new channel, and none that is still to be asked for.
Thrifty(s, t) == t.made = s.made /\ (t.mx.restart_required => s.mx.restart_required)

\* Thrift over several steps.
LEMMA ThriftyTrans ==
  ASSUME NEW s, NEW t, NEW u, Thrifty(s, t), Thrifty(t, u)
  PROVE  Thrifty(s, u)
BY DEF Thrifty

\* What the functions of the ports do.
LEMMA CalmThrifty ==
  ASSUME NEW e, NEW s, NEW t, Calm(e, s, t)
  PROVE  Thrifty(s, t)
BY DEF Calm, Mild, Kept, Thrifty

\* An assignment to another member of the multiplexer, or of the device.
LEMMA SetThrifty ==
  ASSUME NEW p, NEW s, IsDevice(p, s), NEW v, NEW c
  PROVE  /\ Thrifty(s, [s EXCEPT !.mx.state = v])
         /\ Thrifty(s, [s EXCEPT !.mx.timer = v])
         /\ Thrifty(s, [s EXCEPT !.mx.lcid = v])
         /\ Thrifty(s, [s EXCEPT !.mx.collision_outgoing_lcid = v])
         /\ Thrifty(s, [s EXCEPT !.mx.collision_outgoing_conn_cnf = v])
         /\ Thrifty(s, [s EXCEPT !.mx.collision_outgoing_cfg_complete = v])
         /\ Thrifty(s, [s EXCEPT !.lcid_mcb = v])
         /\ Thrifty(s, [s EXCEPT !.ccb = v])
         /\ Thrifty(s, [s EXCEPT !.ccb[c] = v])
         /\ Thrifty(s, [s EXCEPT !.out = v])
         /\ Thrifty(s, s)
BY DEF Thrifty, IsDevice, Device, Mx

\* A frame or a signal is sent.
LEMMA SendThrifty ==
  ASSUME NEW p, NEW s, IsDevice(p, s), NEW k, NEW c
  PROVE  Thrifty(s, rfc_send(s, k, c)) /\ Thrifty(s, Signal(s, k, c))
BY DEF Thrifty, IsDevice, Device, rfc_send, Signal

\* A channel is taken down.
LEMMA DisconnectReqThrifty ==
  ASSUME NEW p, NEW s, IsDevice(p, s), NEW c
  PROVE  Thrifty(s, L2CA_DisconnectReq(s, c)) /\ IsDevice(p, L2CA_DisconnectReq(s, c))
<1>1. /\ IsDevice(p, L2CA_DisconnectReq(s, c)) /\ L2CA_DisconnectReq(s, c).made = s.made
      /\ L2CA_DisconnectReq(s, c).mx = s.mx
  BY DisconnectReqKeeps
<1> QED
  BY <1>1 DEF Thrifty

\* The channel kept aside is forgotten, and the directions are swapped.
LEMMA SwapThrifty ==
  ASSUME NEW p, NEW s, IsDevice(p, s)
  PROVE  Thrifty(s, ForgetCached(s)) /\ Thrifty(s, rfc_mx_swap_directions(s))
<1>1. Thrifty(s, ForgetCached(s))
  BY DEF Thrifty, IsDevice, Device, Mx, ForgetCached
<1>2. /\ rfc_mx_swap_directions(s).mx = [s.mx EXCEPT !.is_initiator = ~s.mx.is_initiator]
      /\ rfc_mx_swap_directions(s).made = s.made
  BY SwapDirectionsKeeps
<1>3. s.mx \in Mx
  BY DEF IsDevice, Device
<1> QED
  BY <1>1, <1>2, <1>3 DEF Thrifty, Mx

\* The multiplexer is released.
LEMMA ReleaseThrifty ==
  ASSUME NEW p, NEW s, IsDevice(p, s)
  PROVE  Thrifty(s, rfc_release_multiplexer_channel(s))
BY DEF Thrifty, IsDevice, Device, rfc_release_multiplexer_channel, IdleMx

\* Every device has an environment.
LEMMA SomeEnv ==
  ASSUME NEW p \in Peers
  PROVE  \E e : IsEnv(e) /\ e.self = p
<1> DEFINE e == [self |-> p, other |-> Other(p), in |-> <<>>, sent |-> <<>>]
<1>1. Other(p) \in Peers /\ Other(p) # p /\ \A x \in Peers : x = p \/ x = Other(p)
  BY TheOther
<1>2. e.self = p /\ e.other = Other(p) /\ e.in = <<>> /\ e.sent = <<>>
  OBVIOUS
<1> HIDE DEF e
<1>3. IsEnv(e)
  BY <1>1, <1>2 DEF IsEnv
<1> QED
  BY <1>2, <1>3

\* The ports are closed and the multiplexer is released.
LEMMA CloseIndThrifty ==
  ASSUME NEW p \in Peers, NEW s, IsDevice(p, s)
  PROVE  Thrifty(s, PORT_CloseInd(s))
<1> DEFINE t == PORT_TimeOutCloseMux(s)
<1>1. PICK e : IsEnv(e) /\ e.self = p
  BY SomeEnv
<1>2. IsDevice(p, t) /\ Thrifty(s, t)
  BY <1>1, TimeOutCloseMuxKeeps, TimeOutCloseMuxCalm, CalmThrifty
<1>3. PORT_CloseInd(s) = rfc_release_multiplexer_channel(t)
  BY DEF PORT_CloseInd, PORT_TimeOutCloseMux
<1> HIDE DEF t
<1> QED
  BY <1>2, <1>3, ReleaseThrifty, ThriftyTrans

\* The ports hear that the multiplexer is up, or did not start.
LEMMA StartCnfThrifty ==
  ASSUME NEW p \in Peers, NEW s, IsDevice(p, s)
  PROVE  Thrifty(s, PORT_StartCnf(s, TRUE)) /\ Thrifty(s, PORT_StartCnf(s, FALSE))
<1> DEFINE t == ForAttached(s, port_release_port)
<1>1. PICK e : IsEnv(e) /\ e.self = p
  BY SomeEnv
<1>2. Thrifty(s, PORT_StartCnf(s, TRUE))
  BY <1>1, StartCnfCalm, CalmThrifty
<1>3. IsDevice(p, t) /\ Thrifty(s, t)
  BY <1>1, ReleasePortsCalm, CalmThrifty
<1>4. PORT_StartCnf(s, FALSE) \in {rfc_check_mcb_active(s), rfc_release_multiplexer_channel(t)}
  BY DEF PORT_StartCnf
<1>5. Thrifty(s, rfc_check_mcb_active(s))
  BY <1>1, CheckMcbActiveCalm, CalmThrifty
<1> HIDE DEF t
<1>6. Thrifty(s, rfc_release_multiplexer_channel(t))
  BY <1>3, ReleaseThrifty, ThriftyTrans
<1> QED
  BY <1>2, <1>4, <1>5, <1>6

\* The channel is configured.
LEMMA ConfCnfThrifty ==
  ASSUME NEW p, NEW s, IsDevice(p, s)
  PROVE  Thrifty(s, rfc_mx_conf_cnf(s))
<1> DEFINE w == [s EXCEPT !.mx.state = "SABME_WAIT_UA"]
           t == [w EXCEPT !.mx.timer = "T1"]
           v == [s EXCEPT !.mx.state = "WAIT_SABME"]
           u == [v EXCEPT !.mx.timer = "CONN"]
<1>1. IsDevice(p, w) /\ IsDevice(p, v) /\ Thrifty(s, w) /\ Thrifty(s, v)
  BY SetState, SetThrifty DEF MxStates
<1>2. rfc_mx_conf_cnf(s) \in {s, rfc_send(t, "SABME", 0), u}
  BY DEF rfc_mx_conf_cnf
<1> HIDE DEF w, v
<1>3. IsDevice(p, t) /\ Thrifty(w, t) /\ Thrifty(v, u)
  BY <1>1, SetMxTimer, SetThrifty DEF MxTimers
<1> HIDE DEF t, u
<1>4. Thrifty(t, rfc_send(t, "SABME", 0))
  BY <1>3, SendThrifty
<1> QED
  BY <1>1, <1>2, <1>3, <1>4, SetThrifty, ThriftyTrans

\* The channel kept aside is used after all.
LEMMA RetryThrifty ==
  ASSUME NEW p, NEW s, IsDevice(p, s), s.mx.collision_outgoing_lcid # NoChannel
  PROVE  Thrifty(s, rfc_mx_retry_with_cached_lcid(s))
<1> DEFINE cached == s.mx.collision_outgoing_lcid
           s1 == L2CA_DisconnectReq(s, s.mx.lcid)
           mcbs == (s1.lcid_mcb \ {s.mx.lcid}) \cup {cached}
           s0 == [s1 EXCEPT !.lcid_mcb = mcbs]
           s2 == [s0 EXCEPT !.mx.lcid = cached]
           f == ForgetCached(s2)
           s3 == rfc_mx_swap_directions(f)
           state == IF s.mx.collision_outgoing_conn_cnf THEN "CONFIGURE" ELSE "WAIT_CONN_CNF"
           s4 == [s3 EXCEPT !.mx.state = state]
<1>1. cached \in Channels
  BY MxMembers DEF AnyChannel
<1>2. IsDevice(p, s1) /\ Thrifty(s, s1)
  BY DisconnectReqThrifty
<1>3. rfc_mx_retry_with_cached_lcid(s) \in {s4, rfc_mx_conf_cnf(s4)}
  BY DEF rfc_mx_retry_with_cached_lcid
<1>4. state \in MxStates
  BY DEF MxStates
<1> HIDE DEF s1, state
<1>5. mcbs \in SUBSET Channels /\ cached \in AnyChannel
  BY <1>1, <1>2, Members DEF AnyChannel
<1> HIDE DEF mcbs, cached
<1>6. IsDevice(p, s0) /\ Thrifty(s1, s0)
  BY <1>2, <1>5, SetLcidMcb, SetThrifty
<1> HIDE DEF s0
<1>7. IsDevice(p, s2) /\ Thrifty(s0, s2)
  BY <1>5, <1>6, SetLcid, SetThrifty
<1> HIDE DEF s2
<1>8. IsDevice(p, f) /\ Thrifty(s2, f)
  BY <1>7, ForgetCachedKeeps, SwapThrifty
<1> HIDE DEF f
<1>9. IsDevice(p, s3) /\ Thrifty(f, s3)
  BY <1>8, SwapDirectionsKeeps, SwapThrifty
<1> HIDE DEF s3
<1>10. IsDevice(p, s4) /\ Thrifty(s3, s4)
  BY <1>4, <1>9, SetState, SetThrifty
<1> HIDE DEF s4
<1>11. Thrifty(s, s4)
  BY <1>2, <1>6, <1>7, <1>8, <1>9, <1>10, ThriftyTrans
<1>12. Thrifty(s4, rfc_mx_conf_cnf(s4))
  BY <1>10, ConfCnfThrifty
<1> QED
  BY <1>3, <1>11, <1>12, ThriftyTrans

\* The channel cannot be used.
LEMMA GivingUpThrifty ==
  ASSUME NEW p \in Peers, NEW s, IsDevice(p, s)
  PROVE  Thrifty(s, StartFailed(s)) /\ Thrifty(s, GiveUp(s)) /\ Thrifty(s, GiveUpIncoming(s))
<1> DEFINE t == [s EXCEPT !.mx.state = "IDLE"]
           u == L2CA_DisconnectReq(t, s.mx.lcid)
<1>1. /\ IsDevice(p, t) /\ Thrifty(s, t)
      /\ t.mx.collision_outgoing_lcid = s.mx.collision_outgoing_lcid
  BY Idled, SetThrifty DEF SameMx
<1>2. /\ StartFailed(s) = PORT_StartCnf(u, FALSE) /\ GiveUp(s) = PORT_CloseInd(u)
      /\ GiveUpIncoming(s) = IF s.mx.collision_outgoing_lcid # NoChannel
                             THEN rfc_mx_retry_with_cached_lcid(t) ELSE GiveUp(s)
  BY DEF StartFailed, GiveUp, GiveUpIncoming
<1> HIDE DEF t
<1>3. IsDevice(p, u) /\ Thrifty(t, u)
  BY <1>1, DisconnectReqThrifty
<1> HIDE DEF u
<1>4. Thrifty(s, PORT_StartCnf(u, FALSE))
  BY <1>1, <1>3, StartCnfThrifty, ThriftyTrans
<1>5. Thrifty(s, PORT_CloseInd(u))
  BY <1>1, <1>3, CloseIndThrifty, ThriftyTrans
<1>6. s.mx.collision_outgoing_lcid # NoChannel => Thrifty(s, rfc_mx_retry_with_cached_lcid(t))
  BY <1>1, RetryThrifty, ThriftyTrans
<1> QED
  BY <1>2, <1>4, <1>5, <1>6

-----------------------------------------------------------------------------
(* What the channels of a device cost *)

\* The channels asked for, and the one that a restart will ask for.
Cost(s) == IF s.mx.restart_required THEN s.made + 1 ELSE s.made

\* A handler that asks for nothing that was not promised.
Frugal(s, t) == Cost(t) <= Cost(s)

\* Thrift is frugal.
LEMMA ThriftyFrugal ==
  ASSUME NEW p, NEW s, IsDevice(p, s), NEW t, Thrifty(s, t)
  PROVE  Frugal(s, t) /\ Cost(s) \in Nat
<1>1. s.made \in Nat
  BY Members, BoundsAssumption
<1> QED
  BY <1>1 DEF Thrifty, Frugal, Cost

\* The disconnection is over: a restart asks for the channel that was promised.
LEMMA DisconnectedFrugal ==
  ASSUME NEW p \in Peers, NEW s, IsDevice(p, s)
  PROVE  Frugal(s, rfc_mx_disconnected(s))
<1> DEFINE s1 == L2CA_DisconnectReq(s, s.mx.lcid)
           s2 == L2CA_ConnectReq(s1)
           c == <<s.self, s2.made>>
           mcbs == s1.lcid_mcb \ {s.mx.lcid}
           w == [s1 EXCEPT !.lcid_mcb = mcbs]
           failed == [w EXCEPT !.mx.lcid = NoChannel]
           restarted == [s2 EXCEPT !.mx.lcid = c, !.lcid_mcb = s2.lcid_mcb \cup {c},
                           !.mx.timer = "INIT", !.mx.is_initiator = TRUE,
                           !.mx.restart_required = FALSE, !.mx.state = "WAIT_CONN_CNF"]
<1>1. IsDevice(p, s1) /\ s1.made = s.made /\ s1.mx = s.mx /\ Thrifty(s, s1)
  BY DisconnectReqKeeps, DisconnectReqThrifty
<1>2. s.made \in 0 .. MaxChannels /\ MaxChannels \in Nat
  BY Members, BoundsAssumption
<1>3. \/ rfc_mx_disconnected(s) = rfc_release_multiplexer_channel(s1)
      \/ rfc_mx_disconnected(s) = PORT_StartCnf(failed, FALSE)
      \/ s.made # MaxChannels /\ s.mx.restart_required /\ rfc_mx_disconnected(s) = restarted
  BY DEF rfc_mx_disconnected
<1> HIDE DEF s1
<1>4. Thrifty(s, rfc_release_multiplexer_channel(s1))
  BY <1>1, ReleaseThrifty, ThriftyTrans
<1>5. Thrifty(s, PORT_StartCnf(failed, FALSE))
  <2>1. mcbs \in SUBSET Channels /\ NoChannel \in AnyChannel
    BY <1>1, Members DEF AnyChannel
  <2> HIDE DEF mcbs
  <2>2. IsDevice(p, w) /\ Thrifty(s1, w)
    BY <1>1, <2>1, SetLcidMcb, SetThrifty
  <2> HIDE DEF w
  <2>3. IsDevice(p, failed) /\ Thrifty(w, failed)
    BY <2>1, <2>2, SetLcid, SetThrifty
  <2> HIDE DEF failed
  <2>4. Thrifty(failed, PORT_StartCnf(failed, FALSE))
    BY <2>3, StartCnfThrifty
  <2> QED
    BY <1>1, <2>2, <2>3, <2>4, ThriftyTrans
<1>6. ASSUME s.made # MaxChannels, s.mx.restart_required
      PROVE  Frugal(s, restarted)
  <2>1. s1.made < MaxChannels
    BY <1>1, <1>2, <1>6
  <2>2. IsDevice(p, s2) /\ s2.made = s1.made + 1
    BY <1>1, <2>1, ConnectReqAsks DEF Asks
  <2> HIDE DEF s2, c
  <2>3. restarted.made = s2.made /\ ~restarted.mx.restart_required
    BY <2>2 DEF IsDevice, Device, Mx
  <2> HIDE DEF restarted
  <2> QED
    BY <1>1, <1>2, <1>6, <2>2, <2>3 DEF Frugal, Cost
<1> HIDE DEF restarted, failed
<1> QED
  BY <1>3, <1>4, <1>5, <1>6, ThriftyFrugal

\* The timer of the multiplexer expires.
LEMMA MxTimeoutFrugal ==
  ASSUME NEW e, IsEnv(e), NEW s, IsDevice(e.self, s)
  PROVE  Frugal(s, rfc_mx_timeout(s))
<1>1. e.self \in Peers
  BY DEF IsEnv
<1>2. Thrifty(s, StartFailed(s)) /\ Thrifty(s, GiveUp(s)) /\ Thrifty(s, GiveUpIncoming(s))
  BY <1>1, GivingUpThrifty
<1>3. IsDevice(e.self, StartFailed(s))
  BY <1>1, GivingUpKeeps
<1>4. StartFailed(s).mx.collision_outgoing_lcid # NoChannel
        => Thrifty(s, rfc_mx_retry_with_cached_lcid(StartFailed(s)))
  BY <1>2, <1>3, RetryThrifty, ThriftyTrans
<1>5. Thrifty(s, rfc_mx_close_req(s)) /\ Thrifty(s, s)
  BY <1>1, CloseReqCalm, CalmThrifty, SetThrifty
<1>6. Frugal(s, rfc_mx_disconnected(s))
  BY <1>1, DisconnectedFrugal
<1>7. rfc_mx_timeout(s) \in
        {GiveUp(s), GiveUpIncoming(s), StartFailed(s), rfc_mx_close_req(s),
         rfc_mx_disconnected(s), s}
      \/ /\ rfc_mx_timeout(s) = rfc_mx_retry_with_cached_lcid(StartFailed(s))
         /\ StartFailed(s).mx.collision_outgoing_lcid # NoChannel
  BY DEF rfc_mx_timeout
<1> QED
  BY <1>2, <1>4, <1>5, <1>6, <1>7, ThriftyFrugal

\* A frame on DLCI 0.
LEMMA MxFrameFrugal ==
  ASSUME NEW e, IsEnv(e), NEW s, IsDevice(e.self, s), NEW event
  PROVE  Frugal(s, rfc_mx_frame(s, event))
<1> DEFINE p == e.self
           stopped == [s EXCEPT !.mx.timer = "NONE"]
           connected == [stopped EXCEPT !.mx.state = "CONNECTED"]
           ua == rfc_send(connected, "UA", 0)
           forgot == ForgetCached(ua)
           answered == rfc_send(s, "UA", 0)
           left == IF s.mx.is_initiator THEN L2CA_DisconnectReq(answered, s.mx.lcid) ELSE answered
<1>1. p \in Peers
  BY DEF IsEnv
<1> HIDE DEF p
<1>2. IsDevice(p, s)
  BY DEF p
<1>3. rfc_mx_frame(s, event) \in
        {PORT_StartCnf(forgot, TRUE), PORT_StartCnf(connected, TRUE), StartFailed(stopped),
         rfc_mx_disconnected(s), rfc_send(s, "DM", 0), PORT_CloseInd(left), answered, s}
  BY DEF rfc_mx_frame
<1>4. IsDevice(p, stopped) /\ Thrifty(s, stopped)
  BY <1>2, SetMxTimer, SetThrifty DEF MxTimers
<1> HIDE DEF stopped
<1>5. IsDevice(p, connected) /\ Thrifty(stopped, connected)
  BY <1>4, SetState, SetThrifty DEF MxStates
<1> HIDE DEF connected
<1>6. IsDevice(p, ua) /\ Thrifty(connected, ua)
  BY <1>5, SendKeeps, SendThrifty DEF PortFrames, PortCommands
<1> HIDE DEF ua
<1>7. IsDevice(p, forgot) /\ Thrifty(ua, forgot)
  BY <1>6, ForgetCachedKeeps, SwapThrifty
<1> HIDE DEF forgot
<1>8. IsDevice(p, answered) /\ Thrifty(s, answered) /\ Thrifty(s, rfc_send(s, "DM", 0))
  BY <1>2, SendKeeps, SendThrifty DEF PortFrames, PortCommands
<1> HIDE DEF answered
<1>9. IsDevice(p, left) /\ Thrifty(s, left)
  BY <1>8, DisconnectReqThrifty, ThriftyTrans
<1> HIDE DEF left
<1>10. Thrifty(s, PORT_StartCnf(forgot, TRUE))
  BY <1>1, <1>4, <1>5, <1>6, <1>7, StartCnfThrifty, ThriftyTrans
<1>11. Thrifty(s, PORT_StartCnf(connected, TRUE))
  BY <1>1, <1>4, <1>5, StartCnfThrifty, ThriftyTrans
<1>12. Thrifty(s, StartFailed(stopped))
  BY <1>1, <1>4, GivingUpThrifty, ThriftyTrans
<1>13. Thrifty(s, PORT_CloseInd(left)) /\ Thrifty(s, s)
  BY <1>1, <1>2, <1>9, CloseIndThrifty, ThriftyTrans, SetThrifty
<1>14. Frugal(s, rfc_mx_disconnected(s))
  BY <1>1, <1>2, DisconnectedFrugal
<1>15. \/ rfc_mx_frame(s, event) = rfc_mx_disconnected(s)
       \/ Thrifty(s, rfc_mx_frame(s, event))
  BY <1>3, <1>8, <1>10, <1>11, <1>12, <1>13
<1> QED
  BY <1>2, <1>14, <1>15, ThriftyFrugal

\* Both devices opened a channel.
LEMMA CollisionThrifty ==
  ASSUME NEW p, NEW s, IsDevice(p, s), s.mx.lcid \in Channels
  PROVE  Thrifty(s, rfc_mx_collision(s))
<1> DEFINE w == rfc_mx_swap_directions(s)
           w1 == [w EXCEPT !.lcid_mcb = w.lcid_mcb \cup {s.mx.lcid}]
           w2 == [w1 EXCEPT !.mx.timer = "COLLISION"]
           used == [w2 EXCEPT !.mx.state = "CONFIGURE"]
           l == L2CA_DisconnectReq(s, s.mx.lcid)
           l1 == [l EXCEPT !.mx.lcid = s.mx.collision_outgoing_lcid]
           refused == [l1 EXCEPT !.mx.collision_outgoing_lcid = NoChannel]
<1>1. IsDevice(p, w) /\ Thrifty(s, w) /\ IsDevice(p, l) /\ Thrifty(s, l)
  BY SwapDirectionsKeeps, SwapThrifty, DisconnectReqThrifty
<1>2. rfc_mx_collision(s) \in {used, refused}
  BY DEF rfc_mx_collision
<1> HIDE DEF w, l
<1>3. w.lcid_mcb \cup {s.mx.lcid} \in SUBSET Channels
  BY <1>1, Members
<1>4. s.mx.collision_outgoing_lcid \in AnyChannel
  BY MxMembers
<1>5. IsDevice(p, w1) /\ Thrifty(w, w1)
  BY <1>1, <1>3, SetLcidMcb, SetThrifty
<1> HIDE DEF w1
<1>6. IsDevice(p, w2) /\ Thrifty(w1, w2)
  BY <1>5, SetMxTimer, SetThrifty DEF MxTimers
<1> HIDE DEF w2
<1>7. Thrifty(w2, used)
  BY <1>6, SetThrifty
<1>8. IsDevice(p, l1) /\ Thrifty(l, l1)
  BY <1>1, <1>4, SetLcid, SetThrifty
<1> HIDE DEF l1
<1>9. Thrifty(l1, refused)
  BY <1>8, SetThrifty
<1> HIDE DEF used, refused
<1> QED
  BY <1>1, <1>2, <1>5, <1>6, <1>7, <1>8, <1>9, ThriftyTrans

\* A multiplexer control block is found or made.
LEMMA AllocThrifty ==
  ASSUME NEW p, NEW s, IsDevice(p, s), NEW initiator \in BOOLEAN
  PROVE  Thrifty(s, rfc_alloc_multiplexer_channel(s, initiator))
<1> DEFINE m == [IdleMx EXCEPT !.is_initiator = initiator, !.timer = "INIT"]
           none == [d \in Dlcis |-> NoHandle]
           fresh == [s EXCEPT !.mx = m, !.port_handles = none]
           known == [s EXCEPT !.mx.timer = "NONE"]
<1>1. ~m.restart_required
  BY DEF IdleMx
<1>2. rfc_alloc_multiplexer_channel(s, initiator) \in {fresh, known, s}
  BY DEF rfc_alloc_multiplexer_channel
<1> HIDE DEF m, none
<1>3. Thrifty(s, fresh)
  BY <1>1 DEF Thrifty, IsDevice, Device
<1>4. Thrifty(s, known) /\ Thrifty(s, s)
  BY SetThrifty
<1> HIDE DEF fresh, known
<1> QED
  BY <1>2, <1>3, <1>4

\* The other device opened a channel.
LEMMA ConnectIndThrifty ==
  ASSUME NEW p, NEW s, IsDevice(p, s), NEW c \in Channels
  PROVE  Thrifty(s, RFCOMM_ConnectInd(s, c))
<1> DEFINE s1 == rfc_alloc_multiplexer_channel(s, FALSE)
           l == [s1 EXCEPT !.mx.lcid = c]
           s2 == [l EXCEPT !.lcid_mcb = s1.lcid_mcb \cup {c}]
           b == [s1 EXCEPT !.mx.collision_outgoing_lcid = s1.mx.lcid]
           both == [b EXCEPT !.mx.lcid = c]
           n == [s2 EXCEPT !.mx.timer = "CONN"]
           new == [n EXCEPT !.mx.state = "CONFIGURE"]
<1>1. IsDevice(p, s1) /\ Thrifty(s, s1)
  BY AllocKeeps, AllocThrifty
<1>2. RFCOMM_ConnectInd(s, c) \in {rfc_mx_collision(both), new, s2}
  BY DEF RFCOMM_ConnectInd
<1> HIDE DEF s1
<1>3. c \in AnyChannel /\ s1.mx.lcid \in AnyChannel /\ s1.lcid_mcb \cup {c} \in SUBSET Channels
  BY <1>1, MxMembers, Members DEF AnyChannel
<1>4. IsDevice(p, b) /\ Thrifty(s1, b)
  BY <1>1, <1>3, SetCollisionLcid, SetThrifty
<1> HIDE DEF b
<1>5. IsDevice(p, both) /\ both.mx.lcid = c /\ Thrifty(b, both)
  <2>1. IsDevice(p, both) /\ Thrifty(b, both)
    BY <1>3, <1>4, SetLcid, SetThrifty
  <2> QED
    BY <1>4, <2>1 DEF IsDevice, Device, Mx
<1> HIDE DEF both
<1>6. IsDevice(p, l) /\ Thrifty(s1, l)
  BY <1>1, <1>3, SetLcid, SetThrifty
<1> HIDE DEF l
<1>7. IsDevice(p, s2) /\ Thrifty(l, s2)
  BY <1>3, <1>6, SetLcidMcb, SetThrifty
<1> HIDE DEF s2
<1>8. IsDevice(p, n) /\ Thrifty(s2, n)
  BY <1>7, SetMxTimer, SetThrifty DEF MxTimers
<1> HIDE DEF n
<1>9. Thrifty(n, new)
  BY <1>8, SetThrifty
<1> HIDE DEF new
<1>10. Thrifty(both, rfc_mx_collision(both))
  BY <1>5, CollisionThrifty
<1> QED
  BY <1>1, <1>2, <1>4, <1>5, <1>6, <1>7, <1>8, <1>9, <1>10, ThriftyTrans

\* The channel that this device opened is connected; a channel is configured.
LEMMA ChannelCnfThrifty ==
  ASSUME NEW p \in Peers, NEW s, IsDevice(p, s), NEW c
  PROVE  Thrifty(s, RFCOMM_ConnectCnf(s, c)) /\ Thrifty(s, RFCOMM_ConfigCnf(s, c))
<1>1. Thrifty(s, RFCOMM_ConnectCnf(s, c))
  BY SetThrifty DEF RFCOMM_ConnectCnf
<1>2. Thrifty(s, RFCOMM_ConfigCnf(s, c))
  BY SetThrifty, GivingUpThrifty, ConfCnfThrifty DEF RFCOMM_ConfigCnf
<1> QED
  BY <1>1, <1>2

\* A channel is up.
LEMMA ConnectionOpenThrifty ==
  ASSUME NEW p \in Peers, NEW s, IsDevice(p, s), NEW c \in Channels
  PROVE  Thrifty(s, l2c_csm_indicate_connection_open(s, c))
<1> DEFINE s1 == [s EXCEPT !.ccb[c] = "OPEN"]
           s2 == IF c[1] = s.self THEN RFCOMM_ConnectCnf(s1, c) ELSE RFCOMM_ConnectInd(s1, c)
<1>1. IsDevice(p, s1) /\ Thrifty(s, s1)
  BY SetChannel, SetThrifty DEF CcbStates
<1>2. l2c_csm_indicate_connection_open(s, c) \in {RFCOMM_ConfigCnf(s2, c), s2}
  BY DEF l2c_csm_indicate_connection_open
<1> HIDE DEF s1
<1>3. IsDevice(p, s2) /\ Thrifty(s1, s2)
  BY <1>1, ChannelCnfKeeps, ConnectIndKeeps, ChannelCnfThrifty, ConnectIndThrifty
<1> HIDE DEF s2
<1>4. Thrifty(s2, RFCOMM_ConfigCnf(s2, c))
  BY <1>3, ChannelCnfThrifty
<1> QED
  BY <1>1, <1>2, <1>3, <1>4, ThriftyTrans

\* A channel is gone, or could not be opened.
LEMMA ChannelLostThrifty ==
  ASSUME NEW p \in Peers, NEW s, IsDevice(p, s), NEW c
  PROVE  Thrifty(s, RFCOMM_DisconnectInd(s, c)) /\ Thrifty(s, rfc_on_l2cap_error(s, c))
<1> DEFINE t == [s EXCEPT !.mx.state = "IDLE"]
<1>1. IsDevice(p, t) /\ Thrifty(s, t) /\ Thrifty(s, s)
  BY SetState, SetThrifty DEF MxStates
<1>2. /\ RFCOMM_DisconnectInd(s, c) \in {ForgetCached(s), PORT_CloseInd(t), s}
      /\ rfc_on_l2cap_error(s, c) \in {ForgetCached(s), PORT_StartCnf(t, FALSE), s}
  BY DEF RFCOMM_DisconnectInd, rfc_on_l2cap_error
<1> HIDE DEF t
<1>3. Thrifty(s, ForgetCached(s)) /\ Thrifty(s, PORT_CloseInd(t)) /\ Thrifty(s, PORT_StartCnf(t, FALSE))
  BY <1>1, SwapThrifty, CloseIndThrifty, StartCnfThrifty, ThriftyTrans
<1> QED
  BY <1>1, <1>2, <1>3

\* A signal of L2CAP.
LEMMA L2capSignalThrifty ==
  ASSUME NEW p \in Peers, NEW s, IsDevice(p, s), NEW k, NEW c \in Channels
  PROVE  Thrifty(s, L2capSignal(s, k, c))
<1> DEFINE closed == [s EXCEPT !.ccb[c] = "CLOSED"]
           configuring == [s EXCEPT !.ccb[c] = "CONFIG"]
           answered == Signal(s, "CFG_RSP", c)
<1>1. /\ IsDevice(p, closed) /\ IsDevice(p, configuring)
      /\ Thrifty(s, closed) /\ Thrifty(s, configuring) /\ Thrifty(s, s)
  BY SetChannel, SetThrifty DEF CcbStates
<1>2. L2capSignal(s, k, c) \in
        {Signal(configuring, "CONN_RSP", c), Signal(configuring, "CFG", c),
         l2c_csm_indicate_connection_open(answered, c),
         l2c_csm_indicate_connection_open(s, c), rfc_on_l2cap_error(closed, c),
         RFCOMM_DisconnectInd(closed, c), s}
  BY DEF L2capSignal
<1> HIDE DEF closed, configuring
<1>3. IsDevice(p, answered) /\ Thrifty(s, answered)
  BY SignalKeeps, SendThrifty DEF Signals
<1> HIDE DEF answered
<1>4. /\ Thrifty(configuring, Signal(configuring, "CONN_RSP", c))
      /\ Thrifty(configuring, Signal(configuring, "CFG", c))
  BY <1>1, SendThrifty
<1>5. /\ Thrifty(answered, l2c_csm_indicate_connection_open(answered, c))
      /\ Thrifty(s, l2c_csm_indicate_connection_open(s, c))
  BY <1>3, ConnectionOpenThrifty
<1>6. /\ Thrifty(closed, rfc_on_l2cap_error(closed, c))
      /\ Thrifty(closed, RFCOMM_DisconnectInd(closed, c))
  BY <1>1, ChannelLostThrifty
<1> QED
  BY <1>1, <1>2, <1>3, <1>4, <1>5, <1>6, ThriftyTrans

\* The timer of a channel expires.
LEMMA ChannelTimeoutThrifty ==
  ASSUME NEW p \in Peers, NEW s, IsDevice(p, s), NEW c \in Channels
  PROVE  Thrifty(s, l2c_ccb_timer_timeout(s, c))
<1> DEFINE closed == [s EXCEPT !.ccb[c] = "CLOSED"]
           told == Signal(closed, "DISC_REQ", c)
<1>1. IsDevice(p, closed) /\ Thrifty(s, closed)
  BY SetChannel, SetThrifty DEF CcbStates
<1>2. l2c_ccb_timer_timeout(s, c) \in {rfc_on_l2cap_error(closed, c), RFCOMM_DisconnectInd(told, c)}
  BY DEF l2c_ccb_timer_timeout
<1> HIDE DEF closed
<1>3. IsDevice(p, told) /\ Thrifty(closed, told)
  BY <1>1, SignalKeeps, SendThrifty DEF Signals
<1> HIDE DEF told
<1>4. /\ Thrifty(closed, rfc_on_l2cap_error(closed, c))
      /\ Thrifty(told, RFCOMM_DisconnectInd(told, c))
  BY <1>1, <1>3, ChannelLostThrifty
<1> QED
  BY <1>1, <1>2, <1>3, <1>4, ThriftyTrans

\* The ACL link is gone.
LEMMA LinkDownThrifty ==
  ASSUME NEW p \in Peers, NEW s, IsDevice(p, s)
  PROVE  Thrifty(s, LinkDown(s))
<1> DEFINE s1 == [s EXCEPT !.ccb = [c \in Channels |-> "CLOSED"]]
           s2 == RFCOMM_DisconnectInd(s1, s.mx.collision_outgoing_lcid)
           s3 == RFCOMM_DisconnectInd(s2, s.mx.lcid)
           s4 == [s3 EXCEPT !.out = <<>>]
<1>1. IsDevice(p, s1) /\ Thrifty(s, s1)
  BY SetCcb, SetThrifty DEF CcbStates
<1>2. LinkDown(s) = s4
  BY DEF LinkDown
<1> HIDE DEF s1
<1>3. IsDevice(p, s2) /\ Thrifty(s1, s2)
  BY <1>1, ChannelLostKeeps, ChannelLostThrifty
<1> HIDE DEF s2
<1>4. IsDevice(p, s3) /\ Thrifty(s2, s3)
  BY <1>3, ChannelLostKeeps, ChannelLostThrifty
<1> HIDE DEF s3
<1>5. Thrifty(s3, s4)
  BY <1>4, SetThrifty
<1> HIDE DEF s4
<1> QED
  BY <1>1, <1>2, <1>3, <1>4, <1>5, ThriftyTrans

\* Whatever comes over the link.
LEMMA DeliverFrugal ==
  ASSUME NEW e, IsEnv(e), NEW s, Good(e, s), NEW r, Rest(e, r), Signed(e.in, e.other),
         NEW f, f = Head(e.in), f \in Frame
  PROVE  Frugal(s, Deliver(s, f))
<1>1. e.self \in Peers /\ IsDevice(e.self, s) /\ f.c \in Channels
  BY DEF IsEnv, Good, Frame, AnyFrame
<1>2. CASE f.k \in Signals
  <2>1. Thrifty(s, L2capSignal(s, f.k, f.c))
    BY <1>1, L2capSignalThrifty
  <2>2. Deliver(s, f) = L2capSignal(s, f.k, f.c)
    BY <1>2 DEF Deliver
  <2> QED
    BY <1>1, <2>1, <2>2, ThriftyFrugal
<1>3. CASE f.k \notin Signals /\ (~IsOpen(s, f.c) \/ ~rfc_find_lcid_mcb(s, f.c))
  <2>1. Deliver(s, f) = s
    BY <1>3 DEF Deliver, RFCOMM_BufDataInd
  <2>2. Thrifty(s, s)
    BY DEF Thrifty
  <2> QED
    BY <1>1, <2>1, <2>2, ThriftyFrugal
<1>4. CASE f.k \notin Signals /\ IsOpen(s, f.c) /\ rfc_find_lcid_mcb(s, f.c) /\ f.d # 0
  <2>1. Calm(e, s, Deliver(s, f))
    BY <1>4, PortFrameDelivered
  <2> QED
    BY <1>1, <2>1, CalmThrifty, ThriftyFrugal
<1>5. CASE f.k \notin Signals /\ IsOpen(s, f.c) /\ rfc_find_lcid_mcb(s, f.c) /\ f.d = 0
  <2>1. MuxFrame(e, s, r, f)
    BY <1>5 DEF MuxFrame
  <2>2. Deliver(s, f) = rfc_mx_frame(s, f.k)
    BY <2>1, MuxFrameDelivered
  <2> QED
    BY <1>1, <2>2, MxFrameFrugal
<1> QED
  BY <1>2, <1>3, <1>4, <1>5

\* The multiplexer is asked to start: one channel is asked for, now or after the restart.
LEMMA StartReqCost ==
  ASSUME NEW p \in Peers, NEW s, IsDevice(p, s)
  PROVE  Cost(rfc_mx_start_req(s)) <= Cost(s) + 1
<1> DEFINE s1 == L2CA_ConnectReq(s)
           c == <<s.self, s1.made>>
           u == [s1 EXCEPT !.mx.lcid = c, !.lcid_mcb = s1.lcid_mcb \cup {c},
                           !.mx.state = "WAIT_CONN_CNF"]
           again == [s EXCEPT !.mx.restart_required = TRUE]
           failed == PORT_StartCnf(s, FALSE)
<1>1. s.made \in Nat /\ Cost(s) \in Nat /\ s.made <= Cost(s)
  <2>1. s.made \in Nat
    BY Members, BoundsAssumption
  <2> QED
    BY <2>1 DEF Cost
<1>2. rfc_mx_start_req(s) =
        CASE s.mx.state = "IDLE" /\ s.made < MaxChannels -> u
          [] s.mx.state = "IDLE" /\ s.made = MaxChannels -> failed
          [] s.mx.state = "DISC_WAIT_UA" -> again
          [] OTHER -> s
  BY DEF rfc_mx_start_req
<1>3. again.made = s.made
  BY DEF IsDevice, Device
<1>4. ASSUME s.made < MaxChannels
      PROVE  u.made = s.made + 1 /\ u.mx.restart_required = s.mx.restart_required
  <2>1. IsDevice(p, s1) /\ s1.made = s.made + 1 /\ s1.mx = s.mx
    BY <1>4, ConnectReqAsks DEF Asks
  <2> HIDE DEF s1, c
  <2>2. u.made = s1.made /\ u.mx.restart_required = s1.mx.restart_required
    BY <2>1 DEF IsDevice, Device, Mx
  <2> QED
    BY <2>1, <2>2
<1>5. IsDevice(p, failed) /\ Thrifty(s, failed)
  BY StartCnfKeeps, StartCnfThrifty
<1> HIDE DEF u, again, failed
<1>6. Cost(failed) <= Cost(s) + 1 /\ Cost(s) <= Cost(s) + 1
  <2>1. Cost(failed) \in Nat /\ Frugal(s, failed)
    BY <1>5, ThriftyFrugal DEF Thrifty
  <2> QED
    BY <1>1, <2>1 DEF Frugal
<1>7. Cost(again) <= Cost(s) + 1
  BY <1>1, <1>3 DEF Cost
<1>8. s.made < MaxChannels => Cost(u) <= Cost(s) + 1
  BY <1>1, <1>4 DEF Cost
<1>9. \/ s.made < MaxChannels /\ rfc_mx_start_req(s) = u
      \/ rfc_mx_start_req(s) \in {failed, again, s}
  BY <1>2
<1> QED
  BY <1>6, <1>7, <1>8, <1>9

\* The application opens its client port.
LEMMA OpenContinueCost ==
  ASSUME NEW p \in Peers, NEW s, IsDevice(p, s), ~s.port["cl"].in_use
  PROVE  Cost(port_open_continue(s)) <= Cost(s) + 1
<1> DEFINE d == IF s.mx.state # "IDLE" /\ ~s.mx.is_initiator THEN 3 ELSE 2
           opening == [FreePort EXCEPT !.in_use = TRUE, !.state = "OPENING"]
           t == [s EXCEPT !.port["cl"] = opening]
           s1 == rfc_alloc_multiplexer_channel(t, TRUE)
           s2 == Attach(s1, "cl", d)
           negotiated == RFCOMM_ParameterNegotiationRequest(s2, d)
<1>1. "cl" \in Handles /\ d \in Dlcis
  BY DEF Handles, Dlcis
<1>2. ~s.port["cl"].attached
  BY <1>1, PortMembers
<1>3. opening \in Port /\ ~opening.attached /\ opening.in_use
  BY DEF FreePort, Port, PortStates, SmStates, Dlcis, Responses
<1>4. port_open_continue(s) \in {negotiated, rfc_mx_start_req(s2)}
  BY DEF port_open_continue
<1> HIDE DEF opening, d
<1>5. IsDevice(p, t) /\ t.port["cl"] = opening /\ Thrifty(s, t)
  <2>1. IsDevice(p, t)
    BY <1>1, <1>2, <1>3, NotAttached, SetOnePort
  <2>2. t.port["cl"] = opening
    BY <1>1, <2>1 DEF IsDevice, Device
  <2> QED
    BY <2>1, <2>2 DEF IsDevice, Device, Thrifty
<1> HIDE DEF t
<1>6. IsDevice(p, s1) /\ s1.port["cl"] = opening /\ Thrifty(t, s1)
  BY <1>5, AllocKeeps, AllocThrifty
<1> HIDE DEF s1
<1>7. IsDevice(p, s2)
  BY <1>1, <1>3, <1>6, AttachKeeps
<1>8. Thrifty(s1, s2)
  BY <1>6 DEF Thrifty, Attach, IsDevice, Device
<1> HIDE DEF s2
<1>9. Thrifty(s, s2)
  BY <1>5, <1>6, <1>8, ThriftyTrans
<1>10. Cost(s) \in Nat /\ Cost(s2) \in Nat /\ Cost(s2) <= Cost(s)
  BY <1>7, <1>9, ThriftyFrugal DEF Frugal, Thrifty
<1>11. IsDevice(p, negotiated) /\ Thrifty(s2, negotiated)
  <2>1. PICK e : IsEnv(e) /\ e.self = p
    BY SomeEnv
  <2> QED
    BY <1>1, <1>7, <2>1, ParameterNegotiationKeeps, ParameterNegotiationCalm, CalmThrifty
<1> HIDE DEF negotiated
<1>12. Cost(negotiated) \in Nat /\ Cost(negotiated) <= Cost(s2)
  BY <1>7, <1>11, ThriftyFrugal DEF Frugal, Thrifty
<1>13. IsDevice(p, rfc_mx_start_req(s2)) /\ Cost(rfc_mx_start_req(s2)) <= Cost(s2) + 1
  BY <1>7, StartReqCost, StartReqKeeps
<1>14. Cost(rfc_mx_start_req(s2)) \in Nat
  BY <1>13, ThriftyFrugal DEF Thrifty
<1>15. Cost(negotiated) <= Cost(s) + 1
  BY <1>10, <1>12
<1>16. Cost(rfc_mx_start_req(s2)) <= Cost(s) + 1
  BY <1>10, <1>13, <1>14
<1> QED
  BY <1>4, <1>15, <1>16

-----------------------------------------------------------------------------
(* The channels that are asked for in a run *)

\* Every channel was asked for on behalf of a port that the application opened.
Thrift == \A p \in Peers : Cost(stack[p]) + budget["opens"] <= MaxOpens

\* Device p has become t, and the application opened one port or none.
LEMMA StepThrift ==
  ASSUME Inv, Thrift, Inv', NEW p \in Peers, NEW t, IsDevice(p, t), NEW n \in {0, 1},
         Cost(t) <= Cost(stack[p]) + n, budget'["opens"] = budget["opens"] - n,
         stack' = [stack EXCEPT ![p] = [t EXCEPT !.out = <<>>]]
  PROVE  Thrift'
<1> SUFFICES ASSUME NEW q \in Peers PROVE Cost(stack'[q]) + budget'["opens"] <= MaxOpens
  BY DEF Thrift
<1> DEFINE u == [t EXCEPT !.out = <<>>]
<1>1. /\ IsDevice(q, stack[q]) /\ IsDevice(q, stack'[q]) /\ IsDevice(p, stack[p])
      /\ budget["opens"] \in Nat /\ budget'["opens"] \in Nat
  BY DEF Inv
<1>2. Cost(stack[q]) \in Nat /\ Cost(stack'[q]) \in Nat /\ Cost(t) \in Nat /\ Cost(stack[p]) \in Nat
  BY <1>1, ThriftyFrugal DEF Thrifty
<1>3. Cost(u) = Cost(t)
  <2>1. u.made = t.made /\ u.mx = t.mx
    BY DEF IsDevice, Device
  <2> QED
    BY <2>1 DEF Cost
<1>4. stack'[p] = u /\ (q # p => stack'[q] = stack[q])
  BY DEF Inv
<1> HIDE DEF u
<1>5. /\ Cost(stack[q]) + budget["opens"] <= MaxOpens /\ MaxOpens \in Nat
      /\ Cost(stack[p]) + budget["opens"] <= MaxOpens
  BY BoundsAssumption DEF Thrift
<1>6. CASE q = p
  <2>1. Cost(stack'[q]) = Cost(t)
    BY <1>3, <1>4, <1>6
  <2> QED
    BY <1>1, <1>2, <1>5, <2>1
<1>7. CASE q # p
  <2>1. Cost(stack'[q]) = Cost(stack[q])
    BY <1>4, <1>7
  <2> QED
    BY <1>1, <1>2, <1>5, <2>1
<1> QED
  BY <1>6, <1>7

\* The same for a handler that the application did not call to open a port.
LEMMA FrugalThrift ==
  ASSUME Inv, Thrift, Inv', NEW p \in Peers, NEW t, IsDevice(p, t), Frugal(stack[p], t),
         budget'["opens"] = budget["opens"],
         stack' = [stack EXCEPT ![p] = [t EXCEPT !.out = <<>>]]
  PROVE  Thrift'
<1>1. Cost(t) \in Nat /\ Cost(stack[p]) \in Nat /\ budget["opens"] \in Nat
  BY ThriftyFrugal DEF Thrifty, Inv
<1>2. Cost(t) <= Cost(stack[p]) + 0 /\ budget'["opens"] = budget["opens"] - 0
  BY <1>1 DEF Frugal
<1> QED
  BY <1>2, StepThrift

\* What a call, an accident or a timer leaves of the budget.
LEMMA Spent ==
  ASSUME Inv
  PROVE  /\ Spend("opens") => budget'["opens"] = budget["opens"] - 1
         /\ Spend("closes") \/ Spend("faults") => budget'["opens"] = budget["opens"]
         /\ UNCHANGED budget => budget'["opens"] = budget["opens"]
BY DEF Spend, Inv

\* A handler of the ports asks for no channel.
LEMMA CalmThrift ==
  ASSUME Inv, Thrift, Inv', NEW p \in Peers, NEW e, IsEnv(e), NEW s, IsDevice(p, s),
         Thrifty(stack[p], s), NEW t, IsDevice(p, t), Calm(e, s, t),
         budget'["opens"] = budget["opens"], Becomes(p, t)
  PROVE  Thrift'
<1>1. Thrifty(stack[p], t) /\ IsDevice(p, stack[p])
  BY CalmThrifty, ThriftyTrans DEF Inv
<1>2. Frugal(stack[p], t)
  BY <1>1, ThriftyFrugal
<1> QED
  BY <1>2, FrugalThrift DEF Becomes

\* The application opens a port.
LEMMA CreateConnectionThrift ==
  ASSUME AgreedInv, Thrift, Inv', NEW p \in Peers, RFCOMM_CreateConnection(p)
  PROVE  Thrift'
<1> DEFINE t == port_open_continue(stack[p])
<1>1. Inv /\ IsDevice(p, stack[p])
  BY DEF AgreedInv, Inv
<1>2. ~stack[p].port["cl"].in_use /\ Becomes(p, t) /\ Spend("opens")
  BY DEF RFCOMM_CreateConnection
<1>3. IsDevice(p, t) /\ Cost(t) <= Cost(stack[p]) + 1
  BY <1>1, <1>2, OpenContinueKeeps, OpenContinueCost
<1> HIDE DEF t
<1>4. budget'["opens"] = budget["opens"] - 1
  BY <1>1, <1>2, Spent
<1> QED
  BY <1>1, <1>2, <1>3, <1>4, StepThrift DEF Becomes

\* It closes one.
LEMMA RemoveConnectionThrift ==
  ASSUME AgreedInv, Thrift, Inv', NEW p \in Peers, NEW x \in Handles, RFCOMM_RemoveConnection(p, x)
  PROVE  Thrift'
<1> DEFINE e == EnvOf(p, stack, link)
           t == port_start_close(stack[p], x)
<1>1. Inv /\ IsEnv(e) /\ e.self = p /\ IsDevice(p, stack[p]) /\ Settled(stack[p])
  BY AtRest DEF AgreedInv
<1>2. Becomes(p, t) /\ Spend("closes")
  BY DEF RFCOMM_RemoveConnection
<1> HIDE DEF e
<1>3. Calm(e, stack[p], t) /\ IsDevice(p, t)
  BY <1>1, StartCloseCalm, StartCloseKeeps
<1> HIDE DEF t
<1>4. budget'["opens"] = budget["opens"] /\ Thrifty(stack[p], stack[p])
  BY <1>1, <1>2, Spent DEF Thrifty
<1> QED
  BY <1>1, <1>2, <1>3, <1>4, CalmThrift

\* It closes a server.
LEMMA RemoveServerThrift ==
  ASSUME AgreedInv, Thrift, Inv', NEW p \in Peers, RFCOMM_RemoveServer(p)
  PROVE  Thrift'
<1> DEFINE e == EnvOf(p, stack, link)
           s == stack[p]
           w == [s EXCEPT !.port["sv"].keep = FALSE]
           t == port_start_close(w, "sv")
<1>0. "sv" \in Handles
  BY DEF Handles
<1>1. Inv /\ IsEnv(e) /\ e.self = p /\ IsDevice(p, s) /\ Settled(s)
  BY AtRest DEF AgreedInv
<1>2. Becomes(p, t) /\ Spend("closes")
  BY DEF RFCOMM_RemoveServer
<1>3. budget'["opens"] = budget["opens"]
  BY <1>1, <1>2, Spent
<1>4. IsDevice(p, w) /\ Thrifty(s, w) /\ Settled(w)
  <2> HIDE DEF s
  <2>1. IsDevice(p, w)
    BY <1>0, <1>1, SetKeep
  <2>2. w.mx = s.mx /\ w.made = s.made
    BY <1>1 DEF IsDevice, Device
  <2> QED
    BY <1>1, <2>1, <2>2 DEF Thrifty, Settled
<1> HIDE DEF e, w
<1>5. Calm(e, w, t) /\ IsDevice(p, t)
  BY <1>0, <1>1, <1>4, StartCloseCalm, StartCloseKeeps
<1> HIDE DEF t
<1> QED
  BY <1>1, <1>2, <1>3, <1>4, <1>5, CalmThrift DEF s

\* The timer of a port runs out.
LEMMA PortTimerThrift ==
  ASSUME AgreedInv, Thrift, Inv', NEW p \in Peers, NEW x \in Handles, rfcomm_port_timer_timeout(p, x)
  PROVE  Thrift'
<1> DEFINE e == EnvOf(p, stack, link)
           s == stack[p]
           w == [s EXCEPT !.port[x].timer = FALSE]
           t == rfc_port_sm_execute(w, x, "TIMEOUT")
<1>1. Inv /\ IsEnv(e) /\ e.self = p /\ IsDevice(p, s) /\ Settled(s)
  BY AtRest DEF AgreedInv
<1>2. Becomes(p, t) /\ UNCHANGED budget
  BY DEF rfcomm_port_timer_timeout
<1>3. budget'["opens"] = budget["opens"]
  BY <1>1, <1>2, Spent
<1>4. IsDevice(p, w) /\ Thrifty(s, w) /\ Settled(w)
  <2> HIDE DEF s
  <2>1. IsDevice(p, w)
    BY <1>1, SetPortTimer
  <2>2. w.mx = s.mx /\ w.made = s.made
    BY <1>1 DEF IsDevice, Device
  <2> QED
    BY <1>1, <2>1, <2>2 DEF Thrifty, Settled
<1> HIDE DEF e, w
<1>5. Calm(e, w, t) /\ IsDevice(p, t)
  BY <1>1, <1>4, PortExecuteCalm, PortExecuteKeeps DEF LateEvents
<1> HIDE DEF t
<1> QED
  BY <1>1, <1>2, <1>3, <1>4, <1>5, CalmThrift DEF s

\* The security check of a port ends.
LEMMA SecurityThrift ==
  ASSUME AgreedInv, Thrift, Inv', NEW p \in Peers, NEW x \in Handles,
         NEW event \in {"SEC_OK", "SEC_FAILED"}, budget'["opens"] = budget["opens"],
         Becomes(p, rfc_port_sm_execute(stack[p], x, event))
  PROVE  Thrift'
<1> DEFINE e == EnvOf(p, stack, link)
           t == rfc_port_sm_execute(stack[p], x, event)
<1>1. Inv /\ IsEnv(e) /\ e.self = p /\ IsDevice(p, stack[p]) /\ Settled(stack[p])
  BY AtRest DEF AgreedInv
<1>2. Becomes(p, t) /\ Thrifty(stack[p], stack[p])
  BY DEF Thrifty
<1> HIDE DEF e
<1>3. event \in LateEvents /\ event \notin {"UA", "SABME"}
  BY DEF LateEvents
<1>4. Calm(e, stack[p], t) /\ IsDevice(p, t)
  BY <1>1, <1>3, PortExecuteCalm, PortExecuteKeeps
<1> HIDE DEF t
<1> QED
  BY <1>1, <1>2, <1>4, CalmThrift

\* The timer of a channel runs out.
LEMMA L2capTimeoutThrift ==
  ASSUME AgreedInv, Thrift, Inv', NEW p \in Peers, NEW c \in Channels, L2capTimeout(p, c)
  PROVE  Thrift'
<1> DEFINE t == l2c_ccb_timer_timeout(stack[p], c)
<1>1. Inv /\ IsDevice(p, stack[p])
  BY DEF AgreedInv, Inv
<1>2. Becomes(p, t) /\ UNCHANGED budget
  BY DEF L2capTimeout
<1>3. budget'["opens"] = budget["opens"]
  BY <1>1, <1>2, Spent
<1>4. IsDevice(p, t) /\ Thrifty(stack[p], t)
  BY <1>1, ChannelTimeoutKeeps, ChannelTimeoutThrifty
<1> HIDE DEF t
<1>5. Frugal(stack[p], t)
  BY <1>1, <1>4, ThriftyFrugal
<1> QED
  BY <1>1, <1>2, <1>3, <1>4, <1>5, FrugalThrift DEF Becomes

\* The timer of the multiplexer runs out.
LEMMA McbTimerThrift ==
  ASSUME AgreedInv, Thrift, Inv', NEW p \in Peers, rfcomm_mcb_timer_timeout(p)
  PROVE  Thrift'
<1> DEFINE w == [stack[p] EXCEPT !.mx.timer = "NONE"]
           t == rfc_mx_timeout(w)
<1>1. Inv /\ IsDevice(p, stack[p])
  BY DEF AgreedInv, Inv
<1>2. Becomes(p, t) /\ UNCHANGED budget
  BY DEF rfcomm_mcb_timer_timeout
<1>3. budget'["opens"] = budget["opens"]
  BY <1>1, <1>2, Spent
<1>4. IsDevice(p, w) /\ Thrifty(stack[p], w)
  BY <1>1, SetMxTimer, SetThrifty DEF MxTimers
<1> HIDE DEF w
<1>5. IsDevice(p, t) /\ Frugal(w, t)
  <2>1. PICK e : IsEnv(e) /\ e.self = p
    BY SomeEnv
  <2> QED
    BY <1>4, <2>1, MxTimeoutKeeps, MxTimeoutFrugal
<1> HIDE DEF t
<1>6. Cost(stack[p]) \in Nat /\ Cost(w) \in Nat /\ Cost(t) \in Nat /\ Frugal(stack[p], w)
  BY <1>1, <1>4, <1>5, ThriftyFrugal DEF Thrifty
<1>7. Frugal(stack[p], t)
  BY <1>5, <1>6 DEF Frugal
<1> QED
  BY <1>1, <1>2, <1>3, <1>5, <1>7, FrugalThrift DEF Becomes

\* A frame is delivered.
LEMMA ReceiveThrift ==
  ASSUME AgreedInv, Thrift, Inv', NEW p \in Peers, Receive(p)
  PROVE  Thrift'
<1> DEFINE e == EnvOf(p, stack, link)
           r == [e EXCEPT !.in = Tail(link[p])]
           f == Head(link[p])
           t == Deliver(stack[p], f)
<1>1. /\ IsEnv(e) /\ e.self = p /\ e.in = link[p] /\ Good(e, stack[p]) /\ Signed(e.in, e.other)
      /\ IsDevice(p, stack[p]) /\ Inv
  BY AtRest DEF AgreedInv
<1>2. /\ link[p] # <<>> /\ link[p] \in Seq(Frame) /\ UNCHANGED budget
      /\ stack' = [stack EXCEPT ![p] = [t EXCEPT !.out = <<>>]]
  BY DEF Receive, AgreedInv, Inv
<1>3. budget'["opens"] = budget["opens"]
  BY <1>1, <1>2, Spent
<1>4. Rest(e, r)
  BY <1>1, <1>2 DEF Rest, EnvOf
<1>5. f = Head(e.in) /\ f \in Frame
  BY <1>1, <1>2
<1>6. IsDevice(p, t)
  BY <1>1, <1>2, DeliverKeeps
<1>7. Frugal(stack[p], t)
  <2> HIDE DEF e, r, f
  <2> QED
    BY <1>1, <1>4, <1>5, DeliverFrugal
<1> HIDE DEF t
<1> QED
  BY <1>1, <1>2, <1>3, <1>6, <1>7, FrugalThrift

\* The link is lost.
LEMMA LinkLossThrift ==
  ASSUME AgreedInv, Thrift, Inv', LinkLoss
  PROVE  Thrift'
<1>1. Inv /\ stack' = [p \in Peers |-> LinkDown(stack[p])] /\ Spend("faults")
  BY DEF LinkLoss, AgreedInv
<1>2. budget'["opens"] = budget["opens"]
  BY <1>1, Spent
<1> SUFFICES ASSUME NEW p \in Peers PROVE Cost(stack'[p]) + budget'["opens"] <= MaxOpens
  BY DEF Thrift
<1>3. IsDevice(p, stack[p]) /\ IsDevice(p, stack'[p]) /\ budget["opens"] \in Nat /\ MaxOpens \in Nat
  BY <1>1, BoundsAssumption DEF Inv
<1>4. Thrifty(stack[p], stack'[p])
  BY <1>1, <1>3, LinkDownThrifty
<1>5. Cost(stack[p]) \in Nat /\ Cost(stack'[p]) \in Nat /\ Cost(stack'[p]) <= Cost(stack[p])
  BY <1>3, <1>4, ThriftyFrugal DEF Frugal, Thrifty
<1>6. Cost(stack[p]) + budget["opens"] <= MaxOpens
  BY DEF Thrift
<1> QED
  BY <1>2, <1>3, <1>5, <1>6

\* Every step asks for at most the channels that the application paid for.
LEMMA NextThrift ==
  ASSUME AgreedInv, Thrift, [Next]_vars
  PROVE  Thrift'
<1>1. Inv /\ Inv'
  BY NextInv DEF AgreedInv
<1>2. CASE LinkLoss
  BY <1>1, <1>2, LinkLossThrift
<1>3. ASSUME NEW p \in Peers, RFCOMM_CreateConnection(p) PROVE Thrift'
  BY <1>1, <1>3, CreateConnectionThrift
<1>4. ASSUME NEW p \in Peers, RFCOMM_RemoveServer(p) PROVE Thrift'
  BY <1>1, <1>4, RemoveServerThrift
<1>5. ASSUME NEW p \in Peers, Receive(p) PROVE Thrift'
  BY <1>1, <1>5, ReceiveThrift
<1>6. ASSUME NEW p \in Peers, Refuse(p) PROVE Thrift'
  <2>1. stack' = stack /\ budget'["opens"] = budget["opens"]
    BY <1>1, <1>6, Spent DEF Refuse
  <2> QED
    BY <2>1 DEF Thrift
<1>7. ASSUME NEW p \in Peers, rfcomm_mcb_timer_timeout(p) PROVE Thrift'
  BY <1>1, <1>7, McbTimerThrift
<1>8. ASSUME NEW p \in Peers, NEW c \in Channels, L2capTimeout(p, c) PROVE Thrift'
  BY <1>1, <1>8, L2capTimeoutThrift
<1>9. ASSUME NEW p \in Peers, NEW x \in Handles, RFCOMM_RemoveConnection(p, x) PROVE Thrift'
  BY <1>1, <1>9, RemoveConnectionThrift
<1>10. ASSUME NEW p \in Peers, NEW x \in Handles, rfcomm_port_timer_timeout(p, x) PROVE Thrift'
  BY <1>1, <1>10, PortTimerThrift
<1>11. ASSUME NEW p \in Peers, NEW x \in Handles, SecurityGranted(p, x) PROVE Thrift'
  <2>1. budget'["opens"] = budget["opens"]
    BY <1>1, <1>11, Spent DEF SecurityGranted
  <2> QED
    BY <1>1, <1>11, <2>1, SecurityThrift DEF SecurityGranted
<1>12. ASSUME NEW p \in Peers, NEW x \in Handles, SecurityFailed(p, x) PROVE Thrift'
  <2>1. budget'["opens"] = budget["opens"]
    BY <1>1, <1>12, Spent DEF SecurityFailed
  <2> QED
    BY <1>1, <1>12, <2>1, SecurityThrift DEF SecurityFailed
<1>13. CASE UNCHANGED vars
  BY <1>13 DEF vars, Thrift
<1> QED
  BY <1>2, <1>3, <1>4, <1>5, <1>6, <1>7, <1>8, <1>9, <1>10, <1>11, <1>12, <1>13 DEF Next

\* The application has opened nothing yet.
LEMMA InitThrift == Init => Thrift
<1> SUFFICES ASSUME Init, NEW p \in Peers PROVE Cost(stack[p]) + budget["opens"] <= MaxOpens
  BY DEF Thrift
<1>1. budget["opens"] = MaxOpens /\ MaxOpens \in Nat
  BY BoundsAssumption DEF Init
<1>2. stack[p].made = 0 /\ ~stack[p].mx.restart_required
  BY DEF Init, InitialDevice, IdleMx
<1> QED
  BY <1>1, <1>2 DEF Cost

\* A stray multiplexer has asked for every channel, and is to ask for one more.
LEMMA ThriftNotStray ==
  ASSUME NEW s, NEW n \in Nat, Cost(s) + n <= MaxOpens, MaxOpens <= MaxChannels
  PROVE  ~Stray(s)
<1> SUFFICES ASSUME Stray(s) PROVE FALSE
  OBVIOUS
<1>1. Cost(s) = MaxChannels + 1
  BY DEF Stray, Cost
<1>2. MaxOpens \in Nat /\ MaxChannels \in Nat
  BY BoundsAssumption
<1> QED
  BY <1>1, <1>2

-----------------------------------------------------------------------------
(* Theorems *)

\* The devices agree in every state that is reached without leaving a multiplexer stray.
LEMMA AgreedInvariant == Spec /\ []NeverStray => []AgreedInv
<1>1. Init => AgreedInv
  BY InitAgreed
<1>2. AgreedInv /\ [Next]_vars /\ NeverStray' => AgreedInv'
  BY NextAgreed
<1> QED
  BY <1>1, <1>2, PTL DEF Spec

\* DevicesAgree holds whatever channels collide, time out, are refused or are lost, and whether
\* L2CA_ConnectReq fails or not, as long as it does not fail in the restart of a multiplexer that
\* has no port left (rfc_mx_sm_state_disc_wait_ua), which would leave it stray.
\* DevicesAlwaysAgree is the case in which L2CAP always has a channel.
THEOREM DevicesAgreeHolds == Spec /\ []NeverStray => []DevicesAgree
<1>1. AgreedInv => DevicesAgree
  BY AgreedRole, AgreedConnected DEF DevicesAgree
<1> QED
  BY <1>1, AgreedInvariant, PTL

\* MuxWatched holds under the same condition: a multiplexer that waits for the other device never
\* waits without a timer (rfc_timer_start in the states of rfc_mx_fsm.cc, and the timer of the
\* L2CAP channel).
THEOREM MuxWatchedHolds == Spec /\ []NeverStray => []MuxWatched
<1>1. AgreedInv => MuxWatched
  BY AgreedWatched
<1> QED
  BY <1>1, AgreedInvariant, PTL

\* The devices agree in every state that is reached, L2CAP having a channel for every port that
\* the application opens.
LEMMA ThriftInvariant ==
  ASSUME MaxOpens <= MaxChannels
  PROVE  Spec => [](AgreedInv /\ Thrift)
<1>1. Init => AgreedInv /\ Thrift
  BY InitAgreed, InitThrift
<1>2. AgreedInv /\ Thrift /\ [Next]_vars => (AgreedInv /\ Thrift)'
  <2> SUFFICES ASSUME AgreedInv, Thrift, [Next]_vars PROVE AgreedInv' /\ Thrift'
    OBVIOUS
  <2>1. Thrift' /\ Inv'
    BY NextThrift, NextInv DEF AgreedInv
  <2>2. NeverStray'
    <3>1. budget'["opens"] \in Nat
      BY <2>1 DEF Inv
    <3> QED
      BY <2>1, <3>1, ThriftNotStray DEF Thrift, NeverStray
  <2> QED
    BY <2>1, <2>2, NextAgreed
<1> QED
  BY <1>1, <1>2, PTL DEF Spec

\* Both hold without a condition on the run when L2CAP has a channel for every port that the
\* application opens: each channel that a multiplexer asks for, in rfc_mx_start_req or in a
\* restart, is paid for by one RFCOMM_CreateConnection, so L2CA_ConnectReq never fails.
THEOREM DevicesAlwaysAgree ==
  ASSUME MaxOpens <= MaxChannels
  PROVE  Spec => [](DevicesAgree /\ MuxWatched)
<1>1. Spec => [](AgreedInv /\ Thrift)
  BY ThriftInvariant
<1>2. AgreedInv /\ Thrift => DevicesAgree /\ MuxWatched
  BY AgreedRole, AgreedConnected, AgreedWatched DEF DevicesAgree
<1> QED
  BY <1>1, <1>2, PTL

=============================================================================
