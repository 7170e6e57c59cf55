------------------------ MODULE AclReceivePathProofs ------------------------
(* Theorems about AclReceivePath, for every choice of its constants.         *)
EXTENDS AclReceivePath, SequenceTheorems, NaturalsInduction, WellFoundedInduction, TLAPS

-----------------------------------------------------------------------------
(* The invariant *)

\* The fragments were received in this order.
Increasing(s) == \A i, j \in DOMAIN s : i < j => s[i].n < s[j].n

\* These fragments were received before those.
Earlier(S, T) == \A f \in S, g \in T : f.n < g.n

\* A handle stands for a link that has it and was announced.
Connected(conns, handles, shims) ==
  \A h \in Handles : conns[h] # 0 =>
    conns[h] \in DOMAIN handles /\ handles[conns[h]] = h /\ shims[conns[h]] # "none"

\* A connection event is the first event of its link, and announces it.
Announced(evs, handles, shims) ==
  /\ \A l \in Links : shims[l] # "none" => l \in DOMAIN handles
  /\ \A i \in DOMAIN evs :
       /\ evs[i].link \in DOMAIN handles
       /\ evs[i].type = "connected" => shims[evs[i].link] = "none"
  /\ \A i, j \in DOMAIN evs :
       i < j /\ evs[j].type = "connected" => evs[i].link # evs[j].link

\* What was sent on a link carries its number and was counted.
Counted(fragments, handles, count) ==
  \A l \in Links :
    /\ fragments[l] # <<>> => l \in DOMAIN handles
    /\ \A f \in Range(fragments[l]) : f.link = l /\ f.n <= count

\* These fragments were sent, on links that exist.
WereSent(S, fragments, handles) ==
  \A f \in S : f.link \in DOMAIN handles /\ f \in Range(fragments[f.link])

Valid(S) == \A f \in S : f.flag # "INVALID"

\* Everything on the way was sent and is in order; what waits came before what is
\* still to be dequeued.
OnTheWay(waiting, acl, fragments, handles, count) ==
  /\ Increasing(waiting) /\ Increasing(acl)
  /\ Earlier(Range(waiting), Range(acl))
  /\ WereSent(Range(waiting), fragments, handles) /\ Valid(Range(waiting))
  /\ WereSent(Range(acl), fragments, handles)
  /\ Counted(fragments, handles, count)

\* What the assemblers got was sent and is in order, and a link that was not
\* announced got nothing.
Delivered(given, fragments, handles, shims) ==
  \A l \in Links :
    /\ Increasing(given[l])
    /\ WereSent(Range(given[l]), fragments, handles) /\ Valid(Range(given[l]))
    /\ shims[l] = "none" => given[l] = <<>>

\* What the link that a handle stands for got came before all that it may still get.
NotOvertaken(conns, given, waiting, acl, handles) ==
  \A h \in Handles : conns[h] # 0 =>
    /\ Earlier(Range(given[conns[h]]), Range(acl))
    /\ Earlier(Range(given[conns[h]]), {g \in Range(waiting) : handles[g.link] = h})

\* The link's own packets among all it got or may still get
Mine(l, given, waiting, acl) ==
  {f \in Range(given[l]) \cup Range(waiting) \cup Range(acl) : f.link = l /\ f.flag # "INVALID"}

\* None is missing after the first of them.
NoGap(l, given, waiting, acl, fragments) ==
  \A f \in Range(fragments[l]), g \in Mine(l, given, waiting, acl) :
    f.flag # "INVALID" /\ g.n < f.n => f \in Mine(l, given, waiting, acl)

\* The links that are connected or will be
Expected(l, conns, shims) == shims[l] = "none" \/ \E h \in Handles : conns[h] = l

NoGaps(given, waiting, acl, fragments, conns, shims) ==
  \A l \in Links : Expected(l, conns, shims) => NoGap(l, given, waiting, acl, fragments)

RouteInv ==
  /\ Connected(acl_connections_, handle, shim)
  /\ Announced(events, handle, shim)
  /\ OnTheWay(waiting_packets_, acl_queue, sent, handle, received)
  /\ Delivered(handed, sent, handle, shim)
  /\ NotOvertaken(acl_connections_, handed, waiting_packets_, acl_queue, handle)
  /\ NoGaps(handed, waiting_packets_, acl_queue, sent, acl_connections_, shim)

Inv == TypeOK /\ QueueBounded /\ NoneForgotten /\ RouteInv

-----------------------------------------------------------------------------
(* Sequences *)

\* A set of numbers with 0 and with the successor of each of its members below m has
\* all numbers up to m.
LEMMA Reached ==
  ASSUME NEW S, NEW m \in Nat, 0 \in S,
         \A n \in Nat : n < m /\ n \in S => n + 1 \in S
  PROVE  0 .. m \subseteq S
<1> DEFINE missing == {n \in 0 .. m : n \notin S}
<1> SUFFICES ASSUME missing # {} PROVE FALSE
  OBVIOUS
<1>1. missing \in SUBSET Nat
  OBVIOUS
<1>2. PICK least \in missing : \A y \in Nat : <<y, least>> \in OpToRel(<, Nat) => y \notin missing
  BY <1>1, NatLessThanWellFounded, WFMin
<1>3. least \in 0 .. m /\ least \notin S
  OBVIOUS
<1>4. least # 0
  BY <1>3
<1>5. least - 1 \in 0 .. m /\ least - 1 \in Nat /\ least - 1 < least /\ least - 1 < m
  BY <1>3, <1>4
<1>6. least - 1 \in S
  <2>1. \A y \in Nat : y < least => y \notin missing
    <3> HIDE DEF missing
    <3> QED
      BY <1>1, <1>2 DEF OpToRel
  <2>2. least - 1 \notin missing
    BY <1>5, <2>1
  <2> QED
    BY <1>5, <2>2
<1>7. (least - 1) + 1 \in S
  BY <1>5, <1>6
<1> QED
  BY <1>3, <1>7

\* A handle that is not free stands for a link.
LEMMA SomeLink ==
  ASSUME NEW k \in 0..MaxLinks, k # 0
  PROVE  k \in Links
BY ReceivePathAssumption DEF Links

\* An element at the end
LEMMA RangeAppend ==
  ASSUME NEW T, NEW s \in Seq(T), NEW f \in T
  PROVE  Append(s, f) \in Seq(T) /\ Range(Append(s, f)) = Range(s) \cup {f}
<1>1. Append(s, f) \in Seq(T) /\ DOMAIN Append(s, f) = 1 .. Len(s) + 1
  OBVIOUS
<1>2. \A i \in 1 .. Len(s) : Append(s, f)[i] = s[i]
  OBVIOUS
<1>3. Append(s, f)[Len(s) + 1] = f
  OBVIOUS
<1>4. DOMAIN s = 1 .. Len(s) /\ Len(s) \in Nat
  OBVIOUS
<1>5. Range(Append(s, f)) \subseteq Range(s) \cup {f}
  <2> SUFFICES ASSUME NEW i \in 1 .. Len(s) + 1 PROVE Append(s, f)[i] \in Range(s) \cup {f}
    BY <1>1 DEF Range
  <2> QED
    BY <1>2, <1>3, <1>4 DEF Range
<1>6. Range(s) \cup {f} \subseteq Range(Append(s, f))
  <2>1. f \in Range(Append(s, f))
    BY <1>1, <1>3, <1>4 DEF Range
  <2>2. ASSUME NEW i \in 1 .. Len(s) PROVE s[i] \in Range(Append(s, f))
    BY <1>1, <1>2, <1>4 DEF Range
  <2> QED
    BY <2>1, <2>2, <1>4 DEF Range
<1> QED
  BY <1>1, <1>5, <1>6

\* A later fragment at the end keeps the order.
LEMMA IncreasingAppend ==
  ASSUME NEW s \in Seq(Fragments), NEW f \in Fragments, Increasing(s),
         Earlier(Range(s), {f})
  PROVE  Increasing(Append(s, f))
<1> SUFFICES ASSUME NEW i \in DOMAIN Append(s, f), NEW j \in DOMAIN Append(s, f), i < j
             PROVE  Append(s, f)[i].n < Append(s, f)[j].n
  BY DEF Increasing
<1>1. i \in 1 .. Len(s) /\ j \in 1 .. Len(s) + 1 /\ DOMAIN s = 1 .. Len(s)
  OBVIOUS
<1>2. Append(s, f)[i] = s[i] /\ s[i] \in Range(s)
  BY <1>1 DEF Range
<1>3. CASE j = Len(s) + 1
  <2>1. Append(s, f)[j] = f
    BY <1>3
  <2> QED
    BY <1>2, <2>1 DEF Earlier
<1>4. CASE j \in 1 .. Len(s)
  <2>1. Append(s, f)[j] = s[j]
    BY <1>4
  <2> QED
    BY <1>1, <1>2, <1>4, <2>1 DEF Increasing
<1> QED
  BY <1>1, <1>3, <1>4

\* The first element and the rest
LEMMA HeadTail ==
  ASSUME NEW s \in Seq(Fragments), s # <<>>, Increasing(s)
  PROVE  /\ Head(s) \in Fragments /\ Tail(s) \in Seq(Fragments)
         /\ Range(s) = {Head(s)} \cup Range(Tail(s))
         /\ Increasing(Tail(s))
         /\ Earlier({Head(s)}, Range(Tail(s)))
<1>1. Len(s) \in Nat /\ Len(s) # 0 /\ DOMAIN s = 1 .. Len(s)
  OBVIOUS
<1>2. Head(s) = s[1] /\ Tail(s) \in Seq(Fragments) /\ DOMAIN Tail(s) = 1 .. Len(s) - 1
  BY <1>1
<1>3. \A i \in 1 .. Len(s) - 1 : Tail(s)[i] = s[i + 1]
  BY <1>1
<1>4. Head(s) \in Fragments
  BY <1>1, <1>2
<1>5. Range(s) \subseteq {Head(s)} \cup Range(Tail(s))
  <2> SUFFICES ASSUME NEW i \in 1 .. Len(s) PROVE s[i] \in {Head(s)} \cup Range(Tail(s))
    BY <1>1 DEF Range
  <2>1. CASE i = 1
    BY <1>2, <2>1
  <2>2. CASE i # 1
    <3>1. i - 1 \in 1 .. Len(s) - 1 /\ (i - 1) + 1 = i
      BY <1>1, <2>2
    <3>2. Tail(s)[i - 1] = s[i]
      BY <1>3, <3>1
    <3> QED
      BY <1>2, <3>1, <3>2 DEF Range
  <2> QED
    BY <2>1, <2>2
<1>6. {Head(s)} \cup Range(Tail(s)) \subseteq Range(s)
  <2>1. Head(s) \in Range(s)
    BY <1>1, <1>2 DEF Range
  <2>2. ASSUME NEW i \in 1 .. Len(s) - 1 PROVE Tail(s)[i] \in Range(s)
    <3>1. i + 1 \in 1 .. Len(s)
      BY <1>1
    <3> QED
      BY <1>1, <1>3, <3>1 DEF Range
  <2> QED
    BY <2>1, <2>2, <1>2 DEF Range
<1>7. Increasing(Tail(s))
  <2> SUFFICES ASSUME NEW i \in 1 .. Len(s) - 1, NEW j \in 1 .. Len(s) - 1, i < j
               PROVE  Tail(s)[i].n < Tail(s)[j].n
    BY <1>2 DEF Increasing
  <2>1. i + 1 \in DOMAIN s /\ j + 1 \in DOMAIN s /\ i + 1 < j + 1
    BY <1>1
  <2>2. s[i + 1].n < s[j + 1].n
    BY <2>1 DEF Increasing
  <2> QED
    BY <1>3, <2>2
<1>8. Earlier({Head(s)}, Range(Tail(s)))
  <2> SUFFICES ASSUME NEW i \in 1 .. Len(s) - 1 PROVE s[1].n < Tail(s)[i].n
    BY <1>2 DEF Earlier, Range
  <2>1. 1 \in DOMAIN s /\ i + 1 \in DOMAIN s /\ 1 < i + 1
    BY <1>1
  <2>2. s[1].n < s[i + 1].n
    BY <2>1 DEF Increasing
  <2> QED
    BY <1>3, <2>2
<1> QED
  BY <1>2, <1>4, <1>5, <1>6, <1>7, <1>8

\* Nothing is in the empty sequence, and in no other.
LEMMA EmptyRange == Range(<<>>) = {} /\ Increasing(<<>>)
  BY DEF Range, Increasing

LEMMA RangeEmpty ==
  ASSUME NEW s \in Seq(Fragments), Range(s) = {}
  PROVE  s = <<>>
<1> SUFFICES ASSUME s # <<>> PROVE FALSE
  OBVIOUS
<1>1. 1 \in DOMAIN s
  OBVIOUS
<1> QED
  BY <1>1 DEF Range

-----------------------------------------------------------------------------
(* The assembler *)

AssemblerRecord ==
  [stage : Seq(Fragments), queue : Seq(Seq(Fragments)), registered : BOOLEAN,
   congested : SUBSET Seq(Fragments), handed : Seq(Fragments)]

\* What is kept between two packets is the beginning of a PDU.
Begun(stage) ==
  stage # <<>> => stage[1].flag = "FIRST" /\ Total(stage) < ExpectedSize(stage)

\* TypeOK, QueueBounded and NoneForgotten of one assembler.
AssemblerOK(a) ==
  /\ a \in AssemblerRecord
  /\ Begun(a.stage)
  /\ Len(a.queue) <= MaxQueued + 1
  /\ a.registered <=> a.queue # <<>>

\* A complete PDU is queued if there is room for it.
LEMMA CompleteOK ==
  ASSUME NEW a \in AssemblerRecord, Len(a.queue) <= MaxQueued + 1,
         a.registered <=> a.queue # <<>>
  PROVE  AssemblerOK(Complete(a)) /\ Complete(a).handed = a.handed
<1>1. a.stage \in Seq(Fragments) /\ a.queue \in Seq(Seq(Fragments)) /\ Len(a.queue) \in Nat
  BY DEF AssemblerRecord
<1>2. MaxQueued \in Nat
  BY ReceivePathAssumption
<1>3. <<>> \in Seq(Fragments) /\ Begun(<<>>)
  BY DEF Begun
<1>4. CASE Congested(a)
  <2> DEFINE b == [a EXCEPT !.congested = @ \cup {a.stage}, !.stage = <<>>]
  <2>1. Complete(a) = b
    BY <1>4 DEF Complete
  <2>2. a.congested \cup {a.stage} \in SUBSET Seq(Fragments)
    BY <1>1 DEF AssemblerRecord
  <2>3. b \in AssemblerRecord /\ b.stage = <<>> /\ b.queue = a.queue
        /\ b.registered = a.registered /\ b.handed = a.handed
    BY <1>3, <2>2 DEF AssemblerRecord
  <2> QED
    BY <1>3, <2>1, <2>3 DEF AssemblerOK
<1>5. CASE ~Congested(a)
  <2> DEFINE more == Append(a.queue, a.stage)
             b == [a EXCEPT !.queue = Append(@, a.stage), !.stage = <<>>, !.registered = TRUE]
  <2>1. Complete(a) = b
    BY <1>5 DEF Complete
  <2>2. more \in Seq(Seq(Fragments)) /\ Len(more) = Len(a.queue) + 1 /\ more # <<>>
    BY <1>1, AppendProperties
  <2>3. Len(more) <= MaxQueued + 1
    BY <1>1, <1>2, <1>5, <2>2 DEF Congested
  <2>4. b = [a EXCEPT !.queue = more, !.stage = <<>>, !.registered = TRUE]
    BY DEF AssemblerRecord
  <2> HIDE DEF more
  <2>5. b \in AssemblerRecord /\ b.stage = <<>> /\ b.queue = more
        /\ b.registered = TRUE /\ b.handed = a.handed
    BY <1>3, <2>2, <2>4 DEF AssemblerRecord
  <2> QED
    BY <1>3, <2>1, <2>2, <2>3, <2>5 DEF AssemblerOK
<1> QED
  BY <1>4, <1>5

\* An assembler stays in order with every packet it gets.
LEMMA PacketOK ==
  ASSUME NEW a, AssemblerOK(a), NEW f \in Fragments, f.flag # "INVALID"
  PROVE  /\ AssemblerOK(on_incoming_packet(a, f))
         /\ on_incoming_packet(a, f).handed = Append(a.handed, f)
<1> DEFINE more == Append(a.handed, f)
           stage == IF f.flag = "FIRST" THEN <<f>> ELSE Append(a.stage, f)
           b == [a EXCEPT !.stage = stage, !.handed = more]
<1>1. a \in AssemblerRecord /\ a.stage \in Seq(Fragments) /\ a.handed \in Seq(Fragments)
  BY DEF AssemblerOK, AssemblerRecord
<1>2. more \in Seq(Fragments) /\ stage \in Seq(Fragments)
  BY <1>1
<1>3. [a EXCEPT !.handed = Append(@, f)] = [a EXCEPT !.handed = more]
  BY <1>1 DEF AssemblerRecord
<1>4. [a EXCEPT !.stage = stage, !.handed = Append(@, f)] = b
  BY <1>1 DEF AssemblerRecord
<1>5. CASE f.flag = "IGNORED" \/ (f.flag = "CONT" /\ a.stage = <<>>)
  <2>1. on_incoming_packet(a, f) = [a EXCEPT !.handed = more]
    BY <1>3, <1>5 DEF on_incoming_packet
  <2> HIDE DEF more, stage, b
  <2> DEFINE c == [a EXCEPT !.handed = more]
  <2>2. c \in AssemblerRecord /\ c.stage = a.stage /\ c.handed = more /\ c.queue = a.queue
        /\ c.registered = a.registered
    BY <1>1, <1>2 DEF AssemblerRecord
  <2> HIDE DEF c
  <2>3. AssemblerOK(c)
    BY <2>2 DEF AssemblerOK
  <2> QED
    BY <2>1, <2>2, <2>3 DEF c, more
<1>6. CASE ~(f.flag = "IGNORED" \/ (f.flag = "CONT" /\ a.stage = <<>>))
  <2>1. on_incoming_packet(a, f) = IF ExpectedSize(stage) < Total(stage) THEN [b EXCEPT !.stage = <<>>]
                                   ELSE IF ExpectedSize(stage) > Total(stage) THEN b
                                   ELSE Complete(b)
    BY <1>4, <1>6 DEF on_incoming_packet
  <2>2. stage # <<>> /\ stage[1].flag = "FIRST"
    <3>1. CASE f.flag = "FIRST"
      BY <3>1
    <3>2. CASE f.flag # "FIRST"
      <4>1. f.flag = "CONT"
        BY <1>6, <3>2 DEF Fragments, Flags
      <4>2. a.stage # <<>> /\ a.stage[1].flag = "FIRST"
        BY <1>6, <4>1 DEF AssemblerOK, Begun
      <4>3. stage = Append(a.stage, f)
        BY <3>2
      <4>4. Append(a.stage, f)[1] = a.stage[1] /\ Append(a.stage, f) # <<>>
        BY <1>1, <4>2
      <4> QED
        BY <4>2, <4>3, <4>4
    <3> QED
      BY <3>1, <3>2
  <2> HIDE DEF stage, more
  <2>3. b \in AssemblerRecord /\ b.stage = stage /\ b.handed = more /\ b.queue = a.queue
        /\ b.registered = a.registered
    BY <1>1, <1>2 DEF AssemblerRecord
  <2>4. Len(b.queue) <= MaxQueued + 1 /\ (b.registered <=> b.queue # <<>>)
    BY <2>3 DEF AssemblerOK
  <2> HIDE DEF b
  <2>5. CASE ExpectedSize(stage) < Total(stage)
    <3> DEFINE c == [b EXCEPT !.stage = <<>>]
    <3>1. on_incoming_packet(a, f) = c
      BY <2>1, <2>5
    <3>2. c \in AssemblerRecord /\ c.stage = <<>> /\ c.handed = more /\ c.queue = b.queue
          /\ c.registered = b.registered
      <4>1. <<>> \in Seq(Fragments)
        OBVIOUS
      <4> QED
        BY <2>3, <4>1 DEF AssemblerRecord
    <3> HIDE DEF c
    <3> QED
      BY <2>4, <3>1, <3>2 DEF AssemblerOK, Begun, more
  <2>6. CASE ~(ExpectedSize(stage) < Total(stage)) /\ ExpectedSize(stage) > Total(stage)
    <3>1. on_incoming_packet(a, f) = b
      BY <2>1, <2>6
    <3>2. Total(stage) < ExpectedSize(stage)
      BY <2>6
    <3> QED
      BY <2>2, <2>3, <2>4, <3>1, <3>2 DEF AssemblerOK, Begun, more
  <2>7. CASE ~(ExpectedSize(stage) < Total(stage)) /\ ~(ExpectedSize(stage) > Total(stage))
    <3>1. on_incoming_packet(a, f) = Complete(b)
      BY <2>1, <2>7
    <3>2. AssemblerOK(Complete(b)) /\ Complete(b).handed = b.handed
      BY <2>3, <2>4, CompleteOK
    <3> QED
      BY <2>3, <3>1, <3>2 DEF more
  <2> QED
    BY <2>5, <2>6, <2>7
<1> QED
  BY <1>5, <1>6

-----------------------------------------------------------------------------
(* The router *)

Start == [assemblers |-> [l \in Links |-> Assembler(l)], unsent |-> <<>>]

\* The loop of retry_unknown_acl up to packet m
IsLoop(r, s, m) == r = [n \in 0 .. m |-> IF n = 0 THEN Start ELSE Route(r[n - 1], s[n])]

\* There is such a function.
LEMMA LoopExists ==
  ASSUME NEW s \in Seq(Fragments)
  PROVE  \E r : IsLoop(r, s, Len(s))
<1> DEFINE S == {m \in Nat : \E r : IsLoop(r, s, m)}
<1>1. 0 \in S
  <2> DEFINE r == [n \in 0 .. 0 |-> Start]
  <2>1. r = [n \in 0 .. 0 |-> IF n = 0 THEN Start ELSE Route(r[n - 1], s[n])]
    OBVIOUS
  <2> QED
    BY <2>1 DEF IsLoop
<1>2. ASSUME NEW m \in Nat, m < Len(s), m \in S
      PROVE  m + 1 \in S
  <2>1. PICK r : IsLoop(r, s, m)
    BY <1>2
  <2> DEFINE last == Route(r[m], s[m + 1])
             q == [n \in 0 .. m + 1 |-> IF n = m + 1 THEN last ELSE r[n]]
  <2>2. ASSUME NEW n \in 0 .. m + 1
        PROVE  q[n] = IF n = 0 THEN Start ELSE Route(q[n - 1], s[n])
    <3>1. CASE n = m + 1
      <4>1. q[n] = last
        BY <3>1
      <4>2. m \in 0 .. m + 1 /\ m # m + 1 /\ n - 1 = m /\ n # 0
        BY <3>1
      <4>3. q[n - 1] = r[m]
        BY <4>2
      <4> QED
        BY <3>1, <4>1, <4>2, <4>3
    <3>2. CASE n # m + 1
      <4>1. n \in 0 .. m
        BY <3>2
      <4>2. q[n] = r[n]
        BY <3>2
      <4>3. r[n] = IF n = 0 THEN Start ELSE Route(r[n - 1], s[n])
        BY <2>1, <4>1 DEF IsLoop
      <4>4. CASE n # 0
        <5>1. n - 1 \in 0 .. m + 1 /\ n - 1 # m + 1
          BY <4>1, <4>4
        <5>2. q[n - 1] = r[n - 1]
          BY <5>1
        <5> QED
          BY <4>2, <4>3, <4>4, <5>2
      <4> QED
        BY <4>2, <4>3, <4>4
    <3> QED
      BY <3>1, <3>2
  <2>3. q = [n \in 0 .. m + 1 |-> IF n = 0 THEN Start ELSE Route(q[n - 1], s[n])]
    <3>1. q = [n \in 0 .. m + 1 |-> q[n]]
      OBVIOUS
    <3> HIDE DEF q
    <3> QED
      BY <2>2, <3>1
  <2> HIDE DEF q
  <2>4. IsLoop(q, s, m + 1)
    BY <2>3 DEF IsLoop
  <2> QED
    BY <2>4
<1>3. Len(s) \in Nat
  OBVIOUS
<1> HIDE DEF S
<1>4. 0 .. Len(s) \subseteq S
  BY <1>1, <1>2, <1>3, Reached
<1> QED
  BY <1>3, <1>4 DEF S

\* The code's loop is that function.
LEMMA RetryIsLoop ==
  ASSUME NEW s \in Seq(Fragments)
  PROVE  \E r : IsLoop(r, s, Len(s)) /\ retry_unknown_acl(s) = r[Len(s)]
<1> DEFINE r == CHOOSE r : r = [n \in 0 .. Len(s) |-> IF n = 0 THEN Start ELSE Route(r[n - 1], s[n])]
<1>1. retry_unknown_acl(s) = r[Len(s)]
  BY DEF retry_unknown_acl, Start
<1>2. IsLoop(r, s, Len(s))
  BY LoopExists DEF IsLoop
<1> QED
  BY <1>1, <1>2

\* The first n packets
First(s, n) == {s[i] : i \in 1 .. n}

\* The outcome of routing the packets of F, in their order.
Routed(F, r) ==
  /\ r.unsent \in Seq(Fragments)
  /\ Range(r.unsent) = {f \in F : LinkOf(f) = 0}
  /\ Increasing(r.unsent)
  /\ DOMAIN r.assemblers = Links
  /\ \A l \in Links :
       /\ AssemblerOK(r.assemblers[l])
       /\ Range(r.assemblers[l].handed) = Range(handed[l]) \cup {f \in F : LinkOf(f) = l}
       /\ Increasing(r.assemblers[l].handed)

\* What routing needs of the state and the packets: they are in order and after all
\* that their assembler has got.
Routable(s) ==
  /\ \A l \in Links : AssemblerOK(Assembler(l)) /\ Increasing(handed[l])
  /\ Increasing(s) /\ Valid(Range(s))
  /\ \A f \in Range(s) :
       LinkOf(f) # 0 => LinkOf(f) \in Links /\ Earlier(Range(handed[LinkOf(f)]), {f})

\* One more packet
LEMMA RouteStep ==
  ASSUME NEW F, NEW r, NEW f \in Fragments, f.flag # "INVALID", Routed(F, r),
         r \in [assemblers : [Links -> AssemblerRecord], unsent : Seq(Fragments)],
         Earlier(F, {f}),
         LinkOf(f) # 0 => LinkOf(f) \in Links /\ Earlier(Range(handed[LinkOf(f)]), {f})
  PROVE  /\ Routed(F \cup {f}, Route(r, f))
         /\ Route(r, f) \in [assemblers : [Links -> AssemblerRecord], unsent : Seq(Fragments)]
<1>1. r.unsent \in Seq(Fragments) /\ r.assemblers \in [Links -> AssemblerRecord]
  OBVIOUS
<1>2. CASE LinkOf(f) = 0
  <2> DEFINE more == Append(r.unsent, f)
             q == [r EXCEPT !.unsent = more]
  <2>1. Route(r, f) = q
    BY <1>1, <1>2 DEF Route
  <2>2. more \in Seq(Fragments) /\ Range(more) = Range(r.unsent) \cup {f}
    BY <1>1, RangeAppend
  <2>3. Increasing(more)
    <3>1. Earlier(Range(r.unsent), {f}) /\ Increasing(r.unsent)
      BY DEF Routed, Earlier
    <3> QED
      BY <1>1, <3>1, IncreasingAppend
  <2> HIDE DEF more
  <2>4. q.unsent = more /\ q.assemblers = r.assemblers
        /\ q \in [assemblers : [Links -> AssemblerRecord], unsent : Seq(Fragments)]
    BY <2>2
  <2> HIDE DEF q
  <2>5. Range(more) = {g \in F \cup {f} : LinkOf(g) = 0}
    BY <1>2, <2>2 DEF Routed
  <2>6. \A l \in Links : {g \in F \cup {f} : LinkOf(g) = l} = {g \in F : LinkOf(g) = l}
    BY <1>2 DEF Links
  <2>7. Routed(F \cup {f}, q)
    BY <2>2, <2>3, <2>4, <2>5, <2>6 DEF Routed
  <2> QED
    BY <2>1, <2>4, <2>7
<1>3. CASE LinkOf(f) # 0
  <2> DEFINE k == LinkOf(f)
             a == r.assemblers[k]
             next == on_incoming_packet(a, f)
             as == [r.assemblers EXCEPT ![k] = next]
             q == [r EXCEPT !.assemblers = as]
  <2>1. k \in Links
    BY <1>3
  <2>2. Route(r, f) = q
    BY <1>1, <1>3 DEF Route
  <2>3. AssemblerOK(a) /\ Range(a.handed) = Range(handed[k]) \cup {g \in F : LinkOf(g) = k}
        /\ Increasing(a.handed)
    BY <2>1 DEF Routed
  <2>4. AssemblerOK(next) /\ next.handed = Append(a.handed, f)
    BY <2>3, PacketOK
  <2>5. a.handed \in Seq(Fragments)
    BY <2>3 DEF AssemblerOK, AssemblerRecord
  <2>6. Earlier(Range(a.handed), {f})
    BY <1>3, <2>3 DEF Earlier
  <2>7. Range(next.handed) = Range(a.handed) \cup {f} /\ Increasing(next.handed)
    <3> DEFINE before == a.handed
    <3>1. before \in Seq(Fragments) /\ Increasing(before) /\ Earlier(Range(before), {f})
          /\ next.handed = Append(before, f)
      BY <2>3, <2>4, <2>5, <2>6
    <3> HIDE DEF before, next
    <3>2. Range(Append(before, f)) = Range(before) \cup {f}
      BY <3>1, RangeAppend
    <3>3. Increasing(Append(before, f))
      BY <3>1, IncreasingAppend
    <3> QED
      BY <3>1, <3>2, <3>3 DEF before
  <2>8. Range(next.handed) = Range(handed[k]) \cup {g \in F \cup {f} : LinkOf(g) = k}
    BY <2>3, <2>7
  <2>9. next \in AssemblerRecord
    BY <2>4 DEF AssemblerOK
  <2> HIDE DEF next
  <2>10. as \in [Links -> AssemblerRecord] /\ as[k] = next
         /\ \A l \in Links : l # k => as[l] = r.assemblers[l]
    BY <1>1, <2>1, <2>9
  <2> HIDE DEF as
  <2>11. q.unsent = r.unsent /\ q.assemblers = as
         /\ q \in [assemblers : [Links -> AssemblerRecord], unsent : Seq(Fragments)]
    BY <2>10
  <2> HIDE DEF q
  <2>12. {g \in F \cup {f} : LinkOf(g) = 0} = {g \in F : LinkOf(g) = 0}
    BY <1>3
  <2>13. ASSUME NEW l \in Links
         PROVE  /\ AssemblerOK(as[l]) /\ Increasing(as[l].handed)
                /\ Range(as[l].handed) = Range(handed[l]) \cup {g \in F \cup {f} : LinkOf(g) = l}
    <3>1. CASE l = k
      BY <2>4, <2>7, <2>8, <2>10, <3>1
    <3>2. CASE l # k
      <4>1. {g \in F \cup {f} : LinkOf(g) = l} = {g \in F : LinkOf(g) = l}
        BY <3>2
      <4> QED
        BY <2>10, <3>2, <4>1 DEF Routed
    <3> QED
      BY <3>1, <3>2
  <2>14. Routed(F \cup {f}, q)
    BY <2>10, <2>11, <2>12, <2>13 DEF Routed
  <2> QED
    BY <2>2, <2>11, <2>14
<1> QED
  BY <1>2, <1>3

\* The loop hands every assembler its packets and keeps the others.
LEMMA RetryFacts ==
  ASSUME NEW s \in Seq(Fragments), Routable(s)
  PROVE  Routed(Range(s), retry_unknown_acl(s))
<1> DEFINE R == [assemblers : [Links -> AssemblerRecord], unsent : Seq(Fragments)]
<1>1. PICK r : IsLoop(r, s, Len(s)) /\ retry_unknown_acl(s) = r[Len(s)]
  BY RetryIsLoop
<1>2. Len(s) \in Nat /\ DOMAIN s = 1 .. Len(s)
  OBVIOUS
<1> DEFINE S == {n \in 0 .. Len(s) : r[n] \in R /\ Routed(First(s, n), r[n])}
<1>3. 0 \in S
  <2>1. r[0] = Start
    BY <1>1, <1>2 DEF IsLoop
  <2>2. First(s, 0) = {}
    BY DEF First
  <2>3. Start.unsent = <<>> /\ Start.assemblers = [l \in Links |-> Assembler(l)]
    BY DEF Start
  <2>4. \A l \in Links : AssemblerOK(Assembler(l)) /\ Increasing(handed[l])
    BY DEF Routable
  <2>5. \A l \in Links : Assembler(l) \in AssemblerRecord /\ Assembler(l).handed = handed[l]
    BY <2>4 DEF AssemblerOK, Assembler
  <2>6. Start \in R
    BY <2>5 DEF Start
  <2>7. Routed({}, Start)
    BY <2>3, <2>4, <2>5, EmptyRange DEF Routed
  <2>8. r[0] \in R /\ Routed(First(s, 0), r[0])
    BY <2>1, <2>2, <2>6, <2>7
  <2> HIDE DEF R
  <2>9. 0 \in 0 .. Len(s)
    BY <1>2
  <2> QED
    BY <2>8, <2>9
<1>4. ASSUME NEW n \in Nat, n < Len(s), n \in S
      PROVE  n + 1 \in S
  <2>1. n + 1 \in 0 .. Len(s) /\ n + 1 # 0 /\ (n + 1) - 1 = n /\ n + 1 \in 1 .. Len(s)
    BY <1>2, <1>4
  <2> DEFINE f == s[n + 1]
  <2>2. r[n + 1] = Route(r[n], f)
    BY <1>1, <2>1 DEF IsLoop
  <2>3. f \in Fragments /\ f \in Range(s)
    BY <1>2, <2>1 DEF Range
  <2>4. First(s, n + 1) = First(s, n) \cup {f}
    BY <1>2, <1>4 DEF First
  <2>5. Earlier(First(s, n), {f})
    <3> SUFFICES ASSUME NEW i \in 1 .. n PROVE s[i].n < f.n
      BY DEF Earlier, First
    <3>1. i \in DOMAIN s /\ n + 1 \in DOMAIN s /\ i < n + 1
      BY <1>2, <2>1
    <3> QED
      BY <3>1 DEF Routable, Increasing
  <2>6. f.flag # "INVALID"
        /\ (LinkOf(f) # 0 => LinkOf(f) \in Links /\ Earlier(Range(handed[LinkOf(f)]), {f}))
    BY <2>3 DEF Routable, Valid
  <2>7. r[n] \in R /\ Routed(First(s, n), r[n])
    BY <1>4
  <2> HIDE DEF f
  <2>8. Routed(First(s, n) \cup {f}, Route(r[n], f)) /\ Route(r[n], f) \in R
    BY <2>3, <2>5, <2>6, <2>7, RouteStep
  <2> QED
    BY <2>1, <2>2, <2>4, <2>8
<1> HIDE DEF S
<1>5. 0 .. Len(s) \subseteq S
  BY <1>2, <1>3, <1>4, Reached
<1>6. Len(s) \in S
  BY <1>2, <1>5
<1>7. Routed(First(s, Len(s)), r[Len(s)])
  BY <1>6 DEF S
<1>8. First(s, Len(s)) = Range(s)
  BY <1>2 DEF First, Range
<1> QED
  BY <1>1, <1>7, <1>8

\* The assemblers are in order between two steps.
LEMMA AssemblersOK ==
  ASSUME TypeOK, QueueBounded, NoneForgotten, NEW l \in Links
  PROVE  AssemblerOK(Assembler(l)) /\ Assembler(l).handed = handed[l]
<1>1. Assembler(l) \in AssemblerRecord
  BY DEF TypeOK, Assembler, AssemblerRecord
<1>2. /\ Assembler(l).stage = recombination_stage_[l] /\ Assembler(l).queue = incoming_queue_[l]
      /\ Assembler(l).registered = enqueue_registered_[l] /\ Assembler(l).handed = handed[l]
  BY DEF Assembler
<1>3. Begun(recombination_stage_[l])
  BY DEF TypeOK, Begun
<1>4. Len(incoming_queue_[l]) <= MaxQueued + 1 /\ (enqueue_registered_[l] <=> incoming_queue_[l] # <<>>)
  BY DEF QueueBounded, NoneForgotten
<1> QED
  BY <1>1, <1>2, <1>3, <1>4 DEF AssemblerOK

\* The link a packet is handed to has the handle of the packet and was announced.
LEMMA LinkOfFacts ==
  ASSUME TypeOK, Connected(acl_connections_, handle, shim), NEW f, f.link \in DOMAIN handle
  PROVE  /\ handle[f.link] \in Handles
         /\ LinkOf(f) # 0 => /\ LinkOf(f) \in Links
                             /\ handle[LinkOf(f)] = handle[f.link]
                             /\ shim[LinkOf(f)] # "none"
<1>1. handle[f.link] \in Handles
  BY DEF TypeOK
<1>2. acl_connections_[handle[f.link]] \in 0 .. MaxLinks
  BY <1>1 DEF TypeOK
<1> QED
  BY <1>1, <1>2, ReceivePathAssumption DEF LinkOf, Connected, Links

\* What a step of the router does: it routes the packets s, which are all that waited
\* and perhaps the next one; W is what waits then, Q is still in the queue and A has
\* been handed out.
Routing(s, W, Q, A) ==
  /\ Increasing(s) /\ Valid(Range(s)) /\ Earlier(Range(s), Range(Q))
  /\ WereSent(Range(s), sent, handle)
  /\ \A f \in Range(waiting_packets_) \cup Range(acl_queue) :
       f.flag # "INVALID" => f \in Range(s) \cup Range(Q)
  /\ Range(s) \cup Range(Q) \subseteq Range(waiting_packets_) \cup Range(acl_queue)
  /\ Increasing(Q) /\ Range(Q) \subseteq Range(acl_queue)
  /\ Increasing(W)
  /\ Range(W) = {} \/ Range(W) = {f \in Range(s) : LinkOf(f) = 0}
  /\ \A l \in Links : /\ Range(A[l]) = Range(handed[l]) \cup {f \in Range(s) : LinkOf(f) = l}
                      /\ Increasing(A[l])

\* Such a step keeps the order and leaves no gap.
LEMMA RoutingInv ==
  ASSUME TypeOK, RouteInv, NEW s \in Seq(Fragments), NEW W \in Seq(Fragments),
         NEW Q \in Seq(Fragments), NEW A \in [Links -> Seq(Fragments)], Routing(s, W, Q, A)
  PROVE  /\ OnTheWay(W, Q, sent, handle, received)
         /\ Delivered(A, sent, handle, shim)
         /\ NotOvertaken(acl_connections_, A, W, Q, handle)
         /\ NoGaps(A, W, Q, sent, acl_connections_, shim)
<1>1. /\ Connected(acl_connections_, handle, shim)
      /\ Delivered(handed, sent, handle, shim)
      /\ NotOvertaken(acl_connections_, handed, waiting_packets_, acl_queue, handle)
      /\ NoGaps(handed, waiting_packets_, acl_queue, sent, acl_connections_, shim)
      /\ Counted(sent, handle, received)
      /\ WereSent(Range(acl_queue), sent, handle)
  BY DEF RouteInv, OnTheWay
<1>2. Range(W) \subseteq Range(s) /\ \A f \in Range(W) : LinkOf(f) = 0
  BY DEF Routing
<1>3. ASSUME NEW f \in Range(s)
      PROVE  /\ f.link \in DOMAIN handle /\ f \in Range(sent[f.link]) /\ f.flag # "INVALID"
             /\ handle[f.link] \in Handles
             /\ LinkOf(f) # 0 => /\ LinkOf(f) \in Links
                                 /\ handle[LinkOf(f)] = handle[f.link]
                                 /\ shim[LinkOf(f)] # "none"
  <2>1. f.link \in DOMAIN handle /\ f \in Range(sent[f.link]) /\ f.flag # "INVALID"
    BY DEF Routing, WereSent, Valid
  <2> QED
    BY <1>1, <2>1, LinkOfFacts
<1>4. OnTheWay(W, Q, sent, handle, received)
  BY <1>1, <1>2, <1>3 DEF OnTheWay, Routing, Earlier, WereSent, Valid
<1>5. Delivered(A, sent, handle, shim)
  <2> SUFFICES ASSUME NEW l \in Links
               PROVE  /\ Increasing(A[l])
                      /\ WereSent(Range(A[l]), sent, handle) /\ Valid(Range(A[l]))
                      /\ shim[l] = "none" => A[l] = <<>>
    BY DEF Delivered
  <2>1. Range(A[l]) = Range(handed[l]) \cup {f \in Range(s) : LinkOf(f) = l} /\ Increasing(A[l])
    BY DEF Routing
  <2>2. /\ WereSent(Range(handed[l]), sent, handle) /\ Valid(Range(handed[l]))
        /\ shim[l] = "none" => handed[l] = <<>>
    BY <1>1 DEF Delivered
  <2>3. WereSent(Range(A[l]), sent, handle) /\ Valid(Range(A[l]))
    BY <1>3, <2>1, <2>2 DEF WereSent, Valid
  <2>4. ASSUME shim[l] = "none" PROVE A[l] = <<>>
    <3>1. Range(handed[l]) = {}
      BY <2>2, <2>4, EmptyRange
    <3>2. {f \in Range(s) : LinkOf(f) = l} = {}
      BY <1>3, <2>4, ReceivePathAssumption DEF Links
    <3>3. Range(A[l]) = {}
      BY <2>1, <3>1, <3>2
    <3>4. A[l] \in Seq(Fragments)
      OBVIOUS
    <3> QED
      BY <3>3, <3>4, RangeEmpty
  <2> QED
    BY <2>1, <2>3, <2>4
<1>6. NotOvertaken(acl_connections_, A, W, Q, handle)
  <2> SUFFICES ASSUME NEW h \in Handles, acl_connections_[h] # 0
               PROVE  /\ Earlier(Range(A[acl_connections_[h]]), Range(Q))
                      /\ Earlier(Range(A[acl_connections_[h]]), {g \in Range(W) : handle[g.link] = h})
    BY DEF NotOvertaken
  <2> DEFINE k == acl_connections_[h]
  <2>1. k \in Links
    BY ReceivePathAssumption DEF TypeOK, Links
  <2>2. Earlier(Range(handed[k]), Range(acl_queue))
    BY <1>1 DEF NotOvertaken
  <2>3. Range(A[k]) = Range(handed[k]) \cup {f \in Range(s) : LinkOf(f) = k}
    BY <2>1 DEF Routing
  <2>4. Earlier(Range(A[k]), Range(Q))
    BY <2>2, <2>3 DEF Earlier, Routing
  <2>5. {g \in Range(W) : handle[g.link] = h} = {}
    BY <1>2 DEF LinkOf
  <2> QED
    BY <2>4, <2>5 DEF Earlier
<1>7. NoGaps(A, W, Q, sent, acl_connections_, shim)
  <2> SUFFICES ASSUME NEW l \in Links, Expected(l, acl_connections_, shim),
                      NEW f \in Range(sent[l]), NEW g \in Mine(l, A, W, Q),
                      f.flag # "INVALID", g.n < f.n
               PROVE  f \in Mine(l, A, W, Q)
    BY DEF NoGaps, NoGap
  <2>1. Range(A[l]) = Range(handed[l]) \cup {x \in Range(s) : LinkOf(x) = l}
    BY DEF Routing
  <2>2. g \in Mine(l, handed, waiting_packets_, acl_queue)
    BY <1>2, <2>1 DEF Mine, Routing
  <2>3. f \in Mine(l, handed, waiting_packets_, acl_queue)
    BY <1>1, <2>2 DEF NoGaps, NoGap
  <2>4. f.link = l /\ f \in Range(handed[l]) \cup Range(s) \cup Range(Q)
    BY <2>3 DEF Mine, Routing
  <2>5. CASE f \in Range(handed[l]) \cup Range(Q)
    BY <2>1, <2>4, <2>5 DEF Mine
  <2>6. CASE f \in Range(s)
    <3>1. CASE LinkOf(f) = l
      BY <2>1, <2>4, <2>6, <3>1 DEF Mine
    <3>2. CASE LinkOf(f) # l
      <4>1. \A h \in Handles : acl_connections_[h] # l
        <5> SUFFICES ASSUME NEW h \in Handles, acl_connections_[h] = l PROVE FALSE
          OBVIOUS
        <5>1. l # 0
          BY ReceivePathAssumption DEF Links
        <5>2. handle[l] = h
          BY <1>1, <5>1 DEF Connected
        <5> QED
          BY <2>4, <3>2, <5>2 DEF LinkOf
      <4>2. handed[l] = <<>>
        BY <1>1, <4>1 DEF Expected, Delivered
      <4>3. g \notin Range(handed[l])
        BY <4>2, EmptyRange
      <4>4. f.n \in Nat /\ g.n \in Nat
        <5>1. f \in Fragments
          BY <2>6 DEF Range
        <5>2. \A q \in Seq(Fragments) : \A x \in Range(q) : x \in Fragments
          BY DEF Range
        <5>3. g \in Fragments
          BY <2>2, <5>2 DEF Mine, TypeOK
        <5> QED
          BY <5>1, <5>3, ReceivePathAssumption DEF Fragments
      <4>5. g \notin Range(Q)
        <5> SUFFICES ASSUME g \in Range(Q) PROVE FALSE
          OBVIOUS
        <5>1. f.n < g.n
          BY <2>6 DEF Routing, Earlier
        <5> QED
          BY <4>4, <5>1
      <4>6. g.link = l /\ (g \in Range(W) \/ LinkOf(g) = l)
        BY <2>1, <4>3, <4>5 DEF Mine
      <4>7. LinkOf(g) = LinkOf(f)
        BY <2>4, <4>6 DEF LinkOf
      <4>8. g \in Range(W) /\ LinkOf(g) = 0
        BY <1>2, <3>2, <4>6, <4>7
      <4>9. f \in Range(W)
        BY <2>6, <4>7, <4>8 DEF Routing
      <4> QED
        BY <2>4, <4>9 DEF Mine
    <3> QED
      BY <3>1, <3>2
  <2> QED
    BY <2>4, <2>5, <2>6
<1> QED
  BY <1>4, <1>5, <1>6, <1>7

\* What waits can be routed, alone or with the next packet.
LEMMA WaitingRoutable ==
  ASSUME Inv
  PROVE  Routable(waiting_packets_)
<1>1. TypeOK /\ QueueBounded /\ NoneForgotten
  BY DEF Inv
<1>2. /\ Connected(acl_connections_, handle, shim)
      /\ Delivered(handed, sent, handle, shim)
      /\ NotOvertaken(acl_connections_, handed, waiting_packets_, acl_queue, handle)
      /\ Increasing(waiting_packets_) /\ Valid(Range(waiting_packets_))
      /\ WereSent(Range(waiting_packets_), sent, handle)
  BY DEF Inv, RouteInv, OnTheWay
<1>3. \A l \in Links : AssemblerOK(Assembler(l)) /\ Increasing(handed[l])
  BY <1>1, <1>2, AssemblersOK DEF Delivered
<1>4. ASSUME NEW f \in Range(waiting_packets_), LinkOf(f) # 0
      PROVE  LinkOf(f) \in Links /\ Earlier(Range(handed[LinkOf(f)]), {f})
  <2>1. f.link \in DOMAIN handle
    BY <1>2 DEF WereSent
  <2>2. handle[f.link] \in Handles /\ LinkOf(f) \in Links
    BY <1>1, <1>2, <1>4, <2>1, LinkOfFacts
  <2> QED
    BY <1>2, <1>4, <2>2 DEF NotOvertaken, Earlier, LinkOf
<1> QED
  BY <1>2, <1>3, <1>4 DEF Routable

LEMMA NextRoutable ==
  ASSUME Inv, acl_queue # <<>>, Head(acl_queue).flag # "INVALID"
  PROVE  Routable(Append(waiting_packets_, Head(acl_queue)))
<1> DEFINE packet == Head(acl_queue)
           s == Append(waiting_packets_, packet)
<1>1. TypeOK /\ waiting_packets_ \in Seq(Fragments) /\ acl_queue \in Seq(Fragments)
  BY DEF Inv, TypeOK
<1>2. /\ Connected(acl_connections_, handle, shim)
      /\ NotOvertaken(acl_connections_, handed, waiting_packets_, acl_queue, handle)
      /\ Increasing(acl_queue) /\ Earlier(Range(waiting_packets_), Range(acl_queue))
      /\ WereSent(Range(acl_queue), sent, handle)
  BY DEF Inv, RouteInv, OnTheWay
<1>3. Routable(waiting_packets_)
  BY WaitingRoutable
<1>4. packet \in Fragments /\ packet \in Range(acl_queue)
  BY <1>1, <1>2, HeadTail
<1> HIDE DEF packet
<1>5. Range(s) = Range(waiting_packets_) \cup {packet}
  BY <1>1, <1>4, RangeAppend
<1>6. Increasing(s)
  <2>1. Increasing(waiting_packets_)
    BY <1>3 DEF Routable
  <2>2. Earlier(Range(waiting_packets_), {packet})
    BY <1>2, <1>4 DEF Earlier
  <2> QED
    BY <1>1, <1>4, <2>1, <2>2, IncreasingAppend
<1>7. LinkOf(packet) # 0 => LinkOf(packet) \in Links /\ Earlier(Range(handed[LinkOf(packet)]), {packet})
  <2> SUFFICES ASSUME LinkOf(packet) # 0
               PROVE  LinkOf(packet) \in Links /\ Earlier(Range(handed[LinkOf(packet)]), {packet})
    OBVIOUS
  <2>1. packet.link \in DOMAIN handle
    BY <1>2, <1>4 DEF WereSent
  <2>2. handle[packet.link] \in Handles /\ LinkOf(packet) \in Links
    BY <1>1, <1>2, <2>1, LinkOfFacts
  <2>3. Earlier(Range(handed[LinkOf(packet)]), Range(acl_queue))
    BY <1>2, <2>2 DEF NotOvertaken, LinkOf
  <2> QED
    BY <1>4, <2>2, <2>3 DEF Earlier
<1> HIDE DEF s
<1>8. Routable(s)
  BY <1>3, <1>5, <1>6, <1>7 DEF Routable, Valid, packet
<1> QED
  BY <1>8 DEF s, packet

\* The state of the assemblers after a step of the router
LEMMA AssemblersSet ==
  ASSUME NEW F, NEW r, Routed(F, r), SetAssemblers(r.assemblers)
  PROVE  /\ recombination_stage_' \in [Links -> Seq(Fragments)]
         /\ \A l \in Links : Begun(recombination_stage_'[l])
         /\ incoming_queue_' \in [Links -> Seq(Seq(Fragments))]
         /\ enqueue_registered_' \in [Links -> BOOLEAN]
         /\ handed' \in [Links -> Seq(Fragments)]
         /\ congested' \in [Links -> SUBSET Seq(Fragments)]
         /\ QueueBounded'
         /\ \A l \in Links : enqueue_registered_'[l] <=> incoming_queue_'[l] # <<>>
         /\ \A l \in Links :
              /\ Range(handed'[l]) = Range(handed[l]) \cup {f \in F : LinkOf(f) = l}
              /\ Increasing(handed'[l])
<1> DEFINE as == r.assemblers
<1>1. \A l \in Links :
        /\ as[l] \in AssemblerRecord /\ Begun(as[l].stage) /\ Len(as[l].queue) <= MaxQueued + 1
        /\ as[l].registered <=> as[l].queue # <<>>
        /\ Range(as[l].handed) = Range(handed[l]) \cup {f \in F : LinkOf(f) = l}
        /\ Increasing(as[l].handed)
  BY DEF Routed, AssemblerOK
<1>2. \A l \in Links :
        /\ as[l].stage \in Seq(Fragments) /\ as[l].queue \in Seq(Seq(Fragments))
        /\ as[l].registered \in BOOLEAN /\ as[l].handed \in Seq(Fragments)
        /\ as[l].congested \in SUBSET Seq(Fragments)
  BY <1>1 DEF AssemblerRecord
<1> HIDE DEF as
<1>3. /\ recombination_stage_' = [l \in Links |-> as[l].stage]
      /\ incoming_queue_' = [l \in Links |-> as[l].queue]
      /\ enqueue_registered_' = [l \in Links |-> as[l].registered]
      /\ handed' = [l \in Links |-> as[l].handed]
      /\ congested' = [l \in Links |-> as[l].congested]
  BY DEF SetAssemblers, as
<1>4. recombination_stage_' \in [Links -> Seq(Fragments)]
      /\ \A l \in Links : Begun(recombination_stage_'[l])
  BY <1>1, <1>2, <1>3
<1>5. incoming_queue_' \in [Links -> Seq(Seq(Fragments))] /\ QueueBounded'
  BY <1>1, <1>2, <1>3 DEF QueueBounded
<1>6. enqueue_registered_' \in [Links -> BOOLEAN]
      /\ \A l \in Links : enqueue_registered_'[l] <=> incoming_queue_'[l] # <<>>
  BY <1>1, <1>2, <1>3
<1>7. handed' \in [Links -> Seq(Fragments)] /\ congested' \in [Links -> SUBSET Seq(Fragments)]
  BY <1>2, <1>3
<1>8. \A l \in Links :
        /\ Range(handed'[l]) = Range(handed[l]) \cup {f \in F : LinkOf(f) = l}
        /\ Increasing(handed'[l])
  BY <1>1, <1>3
<1> QED
  BY <1>4, <1>5, <1>6, <1>7, <1>8

-----------------------------------------------------------------------------
(* The steps *)

\* What TypeOK says of the variables that the router does not change.
OthersOK ==
  /\ handle \in Seq(Handles) /\ DOMAIN handle \subseteq Links
  /\ up \subseteq DOMAIN handle
  /\ sent \in [Links -> Seq(Fragments)]
  /\ received \in 0 .. MaxFragments
  /\ events \in Seq([type : {"connected", "disconnected"}, link : Links])
  /\ acl_connections_ \in [Handles -> 0 .. MaxLinks]
  /\ queue_ \in [Links -> Seq(Seq(Fragments))]
  /\ shim \in [Links -> {"none", "announced", "open", "closed"}]
  /\ upward \in [Links -> Seq(Seq(Fragments))]

\* A step that routes s and leaves Q in the queue.
LEMMA RouterStep ==
  ASSUME Inv, NEW s \in Seq(Fragments), Routable(s),
         SetAssemblers(retry_unknown_acl(s).assemblers),
         waiting_packets_' = <<>> \/ waiting_packets_' = retry_unknown_acl(s).unsent,
         waiting_packets_' # <<>> => unknown_acl_alarm_',
         unknown_acl_alarm_' \in BOOLEAN,
         acl_queue' \in Seq(Fragments), Increasing(acl_queue'),
         Range(acl_queue') \subseteq Range(acl_queue),
         Earlier(Range(s), Range(acl_queue')),
         WereSent(Range(s), sent, handle),
         \A f \in Range(waiting_packets_) \cup Range(acl_queue) :
           f.flag # "INVALID" => f \in Range(s) \cup Range(acl_queue'),
         Range(s) \subseteq Range(waiting_packets_) \cup Range(acl_queue),
         UNCHANGED <<controllerVars, events, acl_connections_, shimVars>>
  PROVE  Inv'
<1> DEFINE r == retry_unknown_acl(s)
<1>1. Routed(Range(s), r)
  BY RetryFacts
<1> HIDE DEF r
<1>2. SetAssemblers(r.assemblers) /\ (waiting_packets_' = <<>> \/ waiting_packets_' = r.unsent)
  BY DEF r
<1>3. /\ recombination_stage_' \in [Links -> Seq(Fragments)]
      /\ \A l \in Links : Begun(recombination_stage_'[l])
      /\ incoming_queue_' \in [Links -> Seq(Seq(Fragments))]
      /\ enqueue_registered_' \in [Links -> BOOLEAN]
      /\ handed' \in [Links -> Seq(Fragments)]
      /\ congested' \in [Links -> SUBSET Seq(Fragments)]
      /\ QueueBounded'
      /\ \A l \in Links : enqueue_registered_'[l] <=> incoming_queue_'[l] # <<>>
      /\ \A l \in Links :
           /\ Range(handed'[l]) = Range(handed[l]) \cup {f \in Range(s) : LinkOf(f) = l}
           /\ Increasing(handed'[l])
  BY <1>1, <1>2, AssemblersSet
<1>4. /\ waiting_packets_' \in Seq(Fragments) /\ Increasing(waiting_packets_')
      /\ \/ Range(waiting_packets_') = {}
         \/ Range(waiting_packets_') = {f \in Range(s) : LinkOf(f) = 0}
  <2>1. r.unsent \in Seq(Fragments) /\ Range(r.unsent) = {f \in Range(s) : LinkOf(f) = 0}
        /\ Increasing(r.unsent)
    BY <1>1 DEF Routed
  <2>2. CASE waiting_packets_' = <<>>
    BY <2>2, EmptyRange
  <2>3. CASE waiting_packets_' = r.unsent
    BY <2>1, <2>3
  <2> QED
    BY <1>2, <2>2, <2>3
<1>5. OthersOK /\ TypeOK /\ RouteInv
  BY DEF Inv, TypeOK, OthersOK
<1>6. /\ handle' = handle /\ sent' = sent /\ received' = received /\ shim' = shim
      /\ acl_connections_' = acl_connections_ /\ events' = events
  BY DEF controllerVars, shimVars
<1>7. OthersOK'
  BY <1>5 DEF OthersOK, controllerVars, shimVars
<1>8. TypeOK'
  BY <1>3, <1>4, <1>7 DEF TypeOK, OthersOK, Begun
<1>9. NoneForgotten'
  BY <1>3 DEF NoneForgotten
<1> DEFINE W == waiting_packets_'
           Q == acl_queue'
           A == handed'
<1>10. W \in Seq(Fragments) /\ Q \in Seq(Fragments) /\ A \in [Links -> Seq(Fragments)]
  BY <1>3, <1>4
<1>11. Routing(s, W, Q, A)
  BY <1>3, <1>4 DEF Routing, Routable
<1> HIDE DEF W, Q, A
<1>12. /\ OnTheWay(W, Q, sent, handle, received)
       /\ Delivered(A, sent, handle, shim)
       /\ NotOvertaken(acl_connections_, A, W, Q, handle)
       /\ NoGaps(A, W, Q, sent, acl_connections_, shim)
  BY <1>5, <1>10, <1>11, RoutingInv
<1>13. RouteInv'
  BY <1>5, <1>6, <1>12 DEF RouteInv, W, Q, A
<1> QED
  BY <1>3, <1>8, <1>9, <1>13 DEF Inv

\* The router takes the next packet.
LEMMA DequeueAndRouteInv ==
  ASSUME Inv, DequeueAndRoute
  PROVE  Inv'
<1> DEFINE packet == Head(acl_queue)
           s == IF packet.flag = "INVALID" THEN waiting_packets_
                ELSE Append(waiting_packets_, packet)
<1>1. /\ acl_queue # <<>> /\ acl_queue' = Tail(acl_queue)
      /\ SetAssemblers(retry_unknown_acl(s).assemblers)
      /\ waiting_packets_' = retry_unknown_acl(s).unsent
      /\ unknown_acl_alarm_' = (unknown_acl_alarm_ \/ ~(packet.flag = "INVALID" \/ LinkOf(packet) # 0))
      /\ UNCHANGED <<controllerVars, events, acl_connections_, shimVars>>
  BY DEF DequeueAndRoute
<1>2. /\ waiting_packets_ \in Seq(Fragments) /\ acl_queue \in Seq(Fragments)
      /\ unknown_acl_alarm_ \in BOOLEAN /\ NoneForgotten
  BY DEF Inv, TypeOK
<1>3. /\ Increasing(acl_queue) /\ Earlier(Range(waiting_packets_), Range(acl_queue))
      /\ WereSent(Range(acl_queue), sent, handle)
      /\ WereSent(Range(waiting_packets_), sent, handle)
  BY DEF Inv, RouteInv, OnTheWay
<1>4. /\ packet \in Fragments /\ acl_queue' \in Seq(Fragments) /\ Increasing(acl_queue')
      /\ Range(acl_queue) = {packet} \cup Range(acl_queue')
      /\ Earlier({packet}, Range(acl_queue'))
  BY <1>1, <1>2, <1>3, HeadTail
<1>5. s \in Seq(Fragments) /\ Routable(s)
      /\ Range(s) = Range(waiting_packets_)
                      \cup (IF packet.flag = "INVALID" THEN {} ELSE {packet})
  <2>1. CASE packet.flag = "INVALID"
    BY <1>2, <2>1, WaitingRoutable
  <2>2. CASE packet.flag # "INVALID"
    <3>1. Routable(Append(waiting_packets_, packet))
      BY <1>1, <2>2, NextRoutable
    <3>2. Append(waiting_packets_, packet) \in Seq(Fragments)
          /\ Range(Append(waiting_packets_, packet)) = Range(waiting_packets_) \cup {packet}
      BY <1>2, <1>4, RangeAppend
    <3> QED
      BY <2>2, <3>1, <3>2
  <2> QED
    BY <2>1, <2>2
<1> HIDE DEF s, packet
<1>6. Earlier(Range(s), Range(acl_queue')) /\ WereSent(Range(s), sent, handle)
  BY <1>3, <1>4, <1>5 DEF Earlier, WereSent
<1>7. /\ Range(s) \subseteq Range(waiting_packets_) \cup Range(acl_queue)
      /\ \A f \in Range(waiting_packets_) \cup Range(acl_queue) :
           f.flag # "INVALID" => f \in Range(s) \cup Range(acl_queue')
  BY <1>4, <1>5
<1>8. unknown_acl_alarm_' \in BOOLEAN
  BY <1>1, <1>2
<1>9. waiting_packets_' # <<>> => unknown_acl_alarm_'
  <2> SUFFICES ASSUME ~unknown_acl_alarm_' PROVE waiting_packets_' = <<>>
    BY <1>8
  <2>1. waiting_packets_ = <<>> /\ (packet.flag = "INVALID" \/ LinkOf(packet) # 0)
    BY <1>1, <1>2 DEF NoneForgotten
  <2>2. {f \in Range(s) : LinkOf(f) = 0} = {}
    BY <1>5, <2>1, EmptyRange
  <2>3. Routed(Range(s), retry_unknown_acl(s))
    BY <1>5, RetryFacts
  <2>4. waiting_packets_' \in Seq(Fragments) /\ Range(waiting_packets_') = {}
    BY <1>1, <2>2, <2>3 DEF Routed
  <2> QED
    BY <2>4, RangeEmpty
<1> QED
  BY <1>1, <1>4, <1>5, <1>6, <1>7, <1>8, <1>9, RouterStep

\* The timer drops what is still unknown.
LEMMA OnUnknownAclTimerInv ==
  ASSUME Inv, OnUnknownAclTimer
  PROVE  Inv'
<1>1. /\ SetAssemblers(retry_unknown_acl(waiting_packets_).assemblers)
      /\ waiting_packets_' = <<>> /\ unknown_acl_alarm_' = FALSE /\ acl_queue' = acl_queue
      /\ UNCHANGED <<controllerVars, events, acl_connections_, shimVars>>
  BY DEF OnUnknownAclTimer
<1>2. waiting_packets_ \in Seq(Fragments) /\ acl_queue \in Seq(Fragments)
  BY DEF Inv, TypeOK
<1>3. /\ Increasing(acl_queue) /\ Earlier(Range(waiting_packets_), Range(acl_queue))
      /\ WereSent(Range(waiting_packets_), sent, handle)
  BY DEF Inv, RouteInv, OnTheWay
<1>4. Routable(waiting_packets_)
  BY WaitingRoutable
<1> QED
  BY <1>1, <1>2, <1>3, <1>4, RouterStep

\* What a step of the rest leaves alone
RouterSame == UNCHANGED <<waiting_packets_, unknown_acl_alarm_, assemblerVars>>

\* The invariant of the assemblers, which only some steps touch.
LEMMA SameAssemblers ==
  ASSUME Inv, RouterSame, OthersOK', acl_queue' \in Seq(Fragments), RouteInv'
  PROVE  Inv'
<1>1. TypeOK'
  BY DEF Inv, TypeOK, OthersOK, RouterSame, assemblerVars
<1>2. QueueBounded' /\ NoneForgotten'
  BY DEF Inv, QueueBounded, NoneForgotten, RouterSame, assemblerVars
<1> QED
  BY <1>1, <1>2 DEF Inv

\* One more handle
LEMMA HandleAppended ==
  ASSUME NEW h \in Handles, handle \in Seq(Handles)
  PROVE  /\ Append(handle, h) \in Seq(Handles)
         /\ DOMAIN Append(handle, h) = DOMAIN handle \cup {Len(handle) + 1}
         /\ Len(handle) + 1 \notin DOMAIN handle
         /\ \A l \in DOMAIN handle : Append(handle, h)[l] = handle[l]
  OBVIOUS

\* One more event
LEMMA EventAppended ==
  ASSUME NEW E, NEW s \in Seq(E), NEW e \in E
  PROVE  /\ Append(s, e) \in Seq(E)
         /\ DOMAIN Append(s, e) = DOMAIN s \cup {Len(s) + 1}
         /\ Append(s, e)[Len(s) + 1] = e
         /\ \A i \in DOMAIN s : Append(s, e)[i] = s[i] /\ i \in Nat /\ i < Len(s) + 1
  OBVIOUS

\* The controller makes a link.
LEMMA ConnectInv ==
  ASSUME Inv, NEW h \in Handles, Connect(h)
  PROVE  Inv'
<1> DEFINE l == Len(handle) + 1
           e == [type |-> "connected", link |-> l]
           E == [type : {"connected", "disconnected"}, link : Links]
<1>1. /\ l \in Links /\ handle' = Append(handle, h) /\ up' = up \cup {l}
      /\ events' = Append(events, e)
      /\ UNCHANGED <<sent, received, acl_queue, routerVars, acl_connections_, assemblerVars, shimVars>>
  BY DEF Connect
<1>2. OthersOK /\ RouteInv /\ acl_queue \in Seq(Fragments) /\ waiting_packets_ \in Seq(Fragments)
  BY DEF Inv, TypeOK, OthersOK
<1>3. /\ sent' = sent /\ received' = received /\ acl_queue' = acl_queue /\ shim' = shim
      /\ waiting_packets_' = waiting_packets_ /\ handed' = handed
      /\ acl_connections_' = acl_connections_ /\ queue_' = queue_ /\ upward' = upward
      /\ RouterSame
  BY <1>1 DEF routerVars, assemblerVars, shimVars, RouterSame
<1>4. /\ handle' \in Seq(Handles) /\ DOMAIN handle' = DOMAIN handle \cup {l}
      /\ l \notin DOMAIN handle /\ \A k \in DOMAIN handle : handle'[k] = handle[k]
  BY <1>1, <1>2, HandleAppended DEF OthersOK
<1>5. e \in E /\ events \in Seq(E)
  BY <1>1, <1>2 DEF OthersOK
<1>6. /\ events' \in Seq(E)
      /\ DOMAIN events' = DOMAIN events \cup {Len(events) + 1}
      /\ events'[Len(events) + 1] = e
      /\ \A i \in DOMAIN events : events'[i] = events[i] /\ i \in Nat /\ i < Len(events) + 1
  BY <1>1, <1>5, EventAppended
<1>7. OthersOK'
  BY <1>1, <1>2, <1>3, <1>4, <1>6 DEF OthersOK
<1>8. e.type = "connected" /\ e.link = l
  OBVIOUS
<1> HIDE DEF l, e, E
<1>9. Connected(acl_connections_', handle', shim')
  BY <1>2, <1>3, <1>4 DEF RouteInv, Connected
<1>10. Announced(events', handle', shim')
  <2>1. Announced(events, handle, shim)
    BY <1>2 DEF RouteInv
  <2>2. shim[l] = "none"
    BY <1>1, <1>4, <2>1 DEF Announced
  <2>3. \A k \in Links : shim'[k] # "none" => k \in DOMAIN handle'
    BY <1>3, <1>4, <2>1 DEF Announced
  <2>4. \A i \in DOMAIN events' :
          /\ events'[i].link \in DOMAIN handle'
          /\ events'[i].type = "connected" => shim'[events'[i].link] = "none"
    BY <1>3, <1>4, <1>6, <1>8, <2>1, <2>2 DEF Announced
  <2>5. ASSUME NEW i \in DOMAIN events', NEW j \in DOMAIN events', i < j,
               events'[j].type = "connected"
        PROVE  events'[i].link # events'[j].link
    <3>1. CASE i \in DOMAIN events /\ j \in DOMAIN events
      BY <1>6, <2>1, <2>5, <3>1 DEF Announced
    <3>2. CASE i \in DOMAIN events /\ j = Len(events) + 1
      <4>1. events'[i].link \in DOMAIN handle
        BY <1>6, <2>1, <3>2 DEF Announced
      <4> QED
        BY <1>4, <1>6, <1>8, <3>2, <4>1
    <3>3. CASE i = Len(events) + 1
      <4>1. Len(events) \in Nat /\ DOMAIN events = 1 .. Len(events)
        BY <1>5
      <4> QED
        BY <1>6, <2>5, <3>3, <4>1
    <3> QED
      BY <1>6, <3>1, <3>2, <3>3
  <2> QED
    BY <2>3, <2>4, <2>5 DEF Announced
<1>11. OnTheWay(waiting_packets_', acl_queue', sent', handle', received')
  <2>1. OnTheWay(waiting_packets_, acl_queue, sent, handle, received)
    BY <1>2 DEF RouteInv
  <2> QED
    BY <1>3, <1>4, <2>1 DEF OnTheWay, WereSent, Counted
<1>12. Delivered(handed', sent', handle', shim')
  BY <1>2, <1>3, <1>4 DEF RouteInv, Delivered, WereSent
<1>13. NotOvertaken(acl_connections_', handed', waiting_packets_', acl_queue', handle')
  <2>1. WereSent(Range(waiting_packets_), sent, handle)
    BY <1>2 DEF RouteInv, OnTheWay
  <2>2. \A k \in Handles : {g \in Range(waiting_packets_) : handle'[g.link] = k}
                           = {g \in Range(waiting_packets_) : handle[g.link] = k}
    BY <1>4, <2>1 DEF WereSent
  <2> QED
    BY <1>2, <1>3, <2>2 DEF RouteInv, NotOvertaken
<1>14. NoGaps(handed', waiting_packets_', acl_queue', sent', acl_connections_', shim')
  BY <1>2, <1>3 DEF RouteInv
<1>15. RouteInv'
  BY <1>9, <1>10, <1>11, <1>12, <1>13, <1>14 DEF RouteInv
<1> QED
  BY <1>2, <1>3, <1>7, <1>15, SameAssemblers

\* The controller ends one.
LEMMA DisconnectInv ==
  ASSUME Inv, NEW l \in Links, Disconnect(l)
  PROVE  Inv'
<1> DEFINE e == [type |-> "disconnected", link |-> l]
           E == [type : {"connected", "disconnected"}, link : Links]
<1>1. /\ l \in up /\ up' = up \ {l} /\ events' = Append(events, e)
      /\ UNCHANGED <<handle, sent, received, acl_queue, routerVars, acl_connections_,
                     assemblerVars, shimVars>>
  BY DEF Disconnect
<1>2. OthersOK /\ RouteInv /\ acl_queue \in Seq(Fragments)
  BY DEF Inv, TypeOK, OthersOK
<1>3. /\ handle' = handle /\ sent' = sent /\ received' = received /\ acl_queue' = acl_queue
      /\ waiting_packets_' = waiting_packets_ /\ handed' = handed /\ shim' = shim
      /\ acl_connections_' = acl_connections_ /\ queue_' = queue_ /\ upward' = upward
      /\ RouterSame
  BY <1>1 DEF routerVars, assemblerVars, shimVars, RouterSame
<1>4. e \in E /\ events \in Seq(E) /\ l \in DOMAIN handle
  BY <1>1, <1>2 DEF OthersOK
<1>5. /\ events' \in Seq(E)
      /\ DOMAIN events' = DOMAIN events \cup {Len(events) + 1}
      /\ events'[Len(events) + 1] = e
      /\ \A i \in DOMAIN events : events'[i] = events[i] /\ i \in Nat /\ i < Len(events) + 1
  BY <1>1, <1>4, EventAppended
<1>6. OthersOK'
  BY <1>1, <1>2, <1>3, <1>5 DEF OthersOK
<1>7. e.type # "connected" /\ e.link = l
  OBVIOUS
<1> HIDE DEF e, E
<1>8. Announced(events', handle', shim')
  <2>1. Announced(events, handle, shim)
    BY <1>2 DEF RouteInv
  <2>2. \A i \in DOMAIN events' :
          /\ events'[i].link \in DOMAIN handle'
          /\ events'[i].type = "connected" => shim'[events'[i].link] = "none"
    BY <1>3, <1>4, <1>5, <1>7, <2>1 DEF Announced
  <2>3. ASSUME NEW i \in DOMAIN events', NEW j \in DOMAIN events', i < j,
               events'[j].type = "connected"
        PROVE  events'[i].link # events'[j].link
    <3>1. j \in DOMAIN events
      BY <1>5, <1>7, <2>3
    <3>2. i \in DOMAIN events
      <4>1. Len(events) \in Nat /\ DOMAIN events = 1 .. Len(events)
        BY <1>4
      <4> QED
        BY <1>5, <2>3, <3>1, <4>1
    <3> QED
      BY <1>5, <2>1, <2>3, <3>1, <3>2 DEF Announced
  <2> QED
    BY <1>3, <2>1, <2>2, <2>3 DEF Announced
<1>9. RouteInv'
  BY <1>2, <1>3, <1>8 DEF RouteInv
<1> QED
  BY <1>2, <1>3, <1>6, <1>9, SameAssemblers

\* A shape of the controller is that of a fragment.
LEMMA ShapeOf ==
  ASSUME NEW l \in Links, NEW n \in 1 .. MaxFragments, NEW shape \in Shapes
  PROVE  [link |-> l, n |-> n, flag |-> shape.flag, size |-> shape.size, len |-> shape.len]
           \in Fragments
<1>1. shape.flag \in Flags /\ shape.size \in 0 .. MaxSize /\ shape.len \in 0 .. MaxSize
  BY ReceivePathAssumption DEF Shapes, Flags
<1> QED
  BY <1>1 DEF Fragments

\* What was sent on any link was counted.
LEMMA AllCounted ==
  ASSUME RouteInv, NEW s \in Seq(Fragments), WereSent(Range(s), sent, handle)
  PROVE  \A f \in Range(s) : f \in Fragments /\ f.n <= received
<1> SUFFICES ASSUME NEW f \in Range(s) PROVE f \in Fragments /\ f.n <= received
  OBVIOUS
<1>1. f \in Range(sent[f.link])
  BY DEF WereSent
<1>2. Counted(sent, handle, received)
  BY DEF RouteInv, OnTheWay
<1>3. f \in Fragments /\ f.link \in Links
  <2>1. f \in Fragments
    BY DEF Range
  <2> QED
    BY <2>1 DEF Fragments
<1> QED
  BY <1>1, <1>2, <1>3 DEF Counted

\* A fragment is received: it is the latest.
LEMMA ReceiveInv ==
  ASSUME Inv, NEW l \in Links, NEW shape \in Shapes, Receive(l, shape)
  PROVE  Inv'
<1> DEFINE f == [link |-> l, n |-> received + 1, flag |-> shape.flag, size |-> shape.size,
                 len |-> shape.len]
           more == Append(sent[l], f)
<1>1. /\ l \in up /\ received < MaxFragments /\ received' = received + 1
      /\ sent' = [sent EXCEPT ![l] = more] /\ acl_queue' = Append(acl_queue, f)
      /\ UNCHANGED <<handle, up, events, routerVars, acl_connections_, assemblerVars, shimVars>>
  BY DEF Receive, Inv, TypeOK
<1>2. OthersOK /\ TypeOK /\ RouteInv /\ acl_queue \in Seq(Fragments)
      /\ waiting_packets_ \in Seq(Fragments) /\ handed \in [Links -> Seq(Fragments)]
  BY DEF Inv, TypeOK, OthersOK
<1>3. /\ handle' = handle /\ up' = up /\ events' = events /\ shim' = shim
      /\ waiting_packets_' = waiting_packets_ /\ handed' = handed
      /\ acl_connections_' = acl_connections_ /\ queue_' = queue_ /\ upward' = upward
      /\ RouterSame
  BY <1>1 DEF routerVars, assemblerVars, shimVars, RouterSame
<1>4. received \in Nat /\ received + 1 \in 1 .. MaxFragments /\ received' \in 0 .. MaxFragments
  BY <1>1, <1>2, ReceivePathAssumption DEF OthersOK
<1>5. f \in Fragments /\ f.link = l /\ f.n = received + 1
  BY <1>4, ShapeOf
<1> HIDE DEF f
<1>6. sent \in [Links -> Seq(Fragments)] /\ sent[l] \in Seq(Fragments)
  BY <1>2 DEF OthersOK
<1>7. more \in Seq(Fragments) /\ Range(more) = Range(sent[l]) \cup {f} /\ more # <<>>
  BY <1>5, <1>6, RangeAppend
<1>8. acl_queue' \in Seq(Fragments) /\ Range(acl_queue') = Range(acl_queue) \cup {f}
  BY <1>1, <1>2, <1>5, RangeAppend
<1> HIDE DEF more
<1>9. /\ sent' \in [Links -> Seq(Fragments)] /\ sent'[l] = more
      /\ \A k \in Links : k # l => sent'[k] = sent[k]
  BY <1>1, <1>6, <1>7
<1>10. OthersOK'
  BY <1>2, <1>3, <1>4, <1>9 DEF OthersOK
<1>11. /\ OnTheWay(waiting_packets_, acl_queue, sent, handle, received)
       /\ Delivered(handed, sent, handle, shim)
       /\ NotOvertaken(acl_connections_, handed, waiting_packets_, acl_queue, handle)
       /\ NoGaps(handed, waiting_packets_, acl_queue, sent, acl_connections_, shim)
  BY <1>2 DEF RouteInv
\* Everything else was received before it.
<1>12. ASSUME NEW s \in Seq(Fragments), WereSent(Range(s), sent, handle)
       PROVE  Earlier(Range(s), {f}) /\ WereSent(Range(s), sent', handle)
  <2>1. \A g \in Range(s) : g \in Fragments /\ g.n <= received
    BY <1>2, <1>12, AllCounted
  <2>2. \A g \in Range(s) : g.n \in Nat /\ g.link \in Links
    BY <2>1, ReceivePathAssumption DEF Fragments
  <2>3. Earlier(Range(s), {f})
    BY <1>4, <1>5, <2>1, <2>2 DEF Earlier
  <2>4. \A k \in Links : Range(sent[k]) \subseteq Range(sent'[k])
    BY <1>7, <1>9
  <2> QED
    BY <1>12, <2>2, <2>3, <2>4 DEF WereSent
<1>13. /\ Earlier(Range(waiting_packets_), {f}) /\ WereSent(Range(waiting_packets_), sent', handle)
       /\ Earlier(Range(acl_queue), {f}) /\ WereSent(Range(acl_queue), sent', handle)
  BY <1>2, <1>11, <1>12 DEF OnTheWay
<1>14. \A k \in Links : Earlier(Range(handed[k]), {f}) /\ WereSent(Range(handed[k]), sent', handle)
  BY <1>2, <1>11, <1>12 DEF Delivered
<1>15. Counted(sent', handle, received')
  <2>1. Counted(sent, handle, received)
    BY <1>11 DEF OnTheWay
  <2>2. l \in DOMAIN handle
    BY <1>1, <1>2 DEF OthersOK
  <2> SUFFICES ASSUME NEW k \in Links
               PROVE  /\ sent'[k] # <<>> => k \in DOMAIN handle
                      /\ \A g \in Range(sent'[k]) : g.link = k /\ g.n <= received'
    BY DEF Counted
  <2>3. \A g \in Range(sent[k]) : g.link = k /\ g.n <= received /\ g.n \in Nat
    <3>1. \A g \in Range(sent[k]) : g \in Fragments
      BY <1>6 DEF Range
    <3> QED
      BY <2>1, <3>1, ReceivePathAssumption DEF Counted, Fragments
  <2>4. \A g \in Range(sent[k]) : g.link = k /\ g.n <= received'
    BY <1>1, <1>4, <2>3
  <2>5. CASE k = l
    BY <1>1, <1>4, <1>5, <1>7, <1>9, <2>2, <2>4, <2>5
  <2>6. CASE k # l
    BY <1>9, <2>1, <2>4, <2>6 DEF Counted
  <2> QED
    BY <2>5, <2>6
<1>16. OnTheWay(waiting_packets_', acl_queue', sent', handle', received')
  <2>1. Increasing(acl_queue')
    BY <1>1, <1>2, <1>5, <1>11, <1>13, IncreasingAppend DEF OnTheWay
  <2>2. Earlier(Range(waiting_packets_), Range(acl_queue'))
    BY <1>8, <1>11, <1>13 DEF OnTheWay, Earlier
  <2>3. WereSent(Range(acl_queue'), sent', handle)
    <3>1. l \in DOMAIN handle /\ f \in Range(sent'[l])
      BY <1>1, <1>2, <1>7, <1>9 DEF OthersOK
    <3> QED
      BY <1>5, <1>8, <1>13, <3>1 DEF WereSent
  <2> QED
    BY <1>3, <1>11, <1>13, <1>15, <2>1, <2>2, <2>3 DEF OnTheWay
<1>17. Delivered(handed', sent', handle', shim')
  BY <1>3, <1>11, <1>14 DEF Delivered
<1>18. NotOvertaken(acl_connections_', handed', waiting_packets_', acl_queue', handle')
  <2> SUFFICES ASSUME NEW h \in Handles, acl_connections_[h] # 0
               PROVE  /\ Earlier(Range(handed[acl_connections_[h]]), Range(acl_queue'))
                      /\ Earlier(Range(handed[acl_connections_[h]]),
                                 {g \in Range(waiting_packets_) : handle[g.link] = h})
    BY <1>3 DEF NotOvertaken
  <2>1. acl_connections_[h] \in Links
    <3>1. acl_connections_[h] \in 0..MaxLinks
      BY <1>2, Zenon DEF OthersOK
    <3> QED
      BY <3>1, SomeLink
  <2>2. Earlier(Range(handed[acl_connections_[h]]), {f})
    BY <1>14, <2>1
  <2> QED
    BY <1>8, <1>11, <2>2 DEF NotOvertaken, Earlier
<1>19. NoGaps(handed', waiting_packets_', acl_queue', sent', acl_connections_', shim')
  <2> SUFFICES ASSUME NEW k \in Links, Expected(k, acl_connections_, shim),
                      NEW x \in Range(sent'[k]),
                      NEW g \in Mine(k, handed, waiting_packets_, acl_queue'),
                      x.flag # "INVALID", g.n < x.n
               PROVE  x \in Mine(k, handed, waiting_packets_, acl_queue')
    BY <1>3 DEF NoGaps, NoGap
  <2>1. NoGap(k, handed, waiting_packets_, acl_queue, sent)
    BY <1>11 DEF NoGaps
  <2>2. CASE x = f /\ k = l
    BY <1>5, <1>8, <2>2 DEF Mine
  <2>3. CASE ~(x = f /\ k = l)
    <3>1. x \in Range(sent[k])
      BY <1>7, <1>9, <2>3
    <3>2. x.n \in Nat /\ x.n <= received
      <4>1. x \in Fragments
        BY <1>6, <3>1 DEF Range
      <4>2. x.n <= received
        BY <1>11, <3>1 DEF OnTheWay, Counted
      <4> QED
        BY <4>1, <4>2, ReceivePathAssumption DEF Fragments
    <3>3. g # f
      BY <1>4, <1>5, <3>2
    <3>4. g \in Mine(k, handed, waiting_packets_, acl_queue)
      BY <1>8, <3>3 DEF Mine
    <3>5. x \in Mine(k, handed, waiting_packets_, acl_queue)
      BY <2>1, <3>1, <3>4 DEF NoGap
    <3> QED
      BY <1>8, <3>5 DEF Mine
  <2> QED
    BY <2>2, <2>3
<1>20. Connected(acl_connections_', handle', shim') /\ Announced(events', handle', shim')
  BY <1>2, <1>3 DEF RouteInv
<1>21. RouteInv'
  BY <1>16, <1>17, <1>18, <1>19, <1>20 DEF RouteInv
<1> QED
  BY <1>3, <1>8, <1>10, <1>21, SameAssemblers

\* The events after the first
LEMMA EventTaken ==
  ASSUME NEW E, NEW s \in Seq(E), s # <<>>
  PROVE  /\ Head(s) = s[1] /\ 1 \in DOMAIN s /\ Head(s) \in E /\ Tail(s) \in Seq(E)
         /\ \A i \in DOMAIN Tail(s) : /\ Tail(s)[i] = s[i + 1] /\ i + 1 \in DOMAIN s
                                      /\ 1 < i + 1 /\ i \in Nat
<1>1. Len(s) \in Nat /\ Len(s) # 0 /\ DOMAIN s = 1 .. Len(s)
  OBVIOUS
<1>2. Head(s) = s[1] /\ 1 \in DOMAIN s /\ Head(s) \in E /\ Tail(s) \in Seq(E)
  BY <1>1
<1>3. DOMAIN Tail(s) = 1 .. Len(s) - 1 /\ \A i \in 1 .. Len(s) - 1 : Tail(s)[i] = s[i + 1]
  BY <1>1
<1> QED
  BY <1>1, <1>2, <1>3

\* The first event is taken and its link changes its state, not to "none": the
\* connection events that follow are about other links.
LEMMA AnnouncedTail ==
  ASSUME OthersOK, Announced(events, handle, shim), events # <<>>,
         NEW state \in {"announced", "closed"}
  PROVE  /\ Tail(events) \in Seq([type : {"connected", "disconnected"}, link : Links])
         /\ Head(events).link \in Links /\ Head(events).link \in DOMAIN handle
         /\ Head(events).type = "connected" => shim[Head(events).link] = "none"
         /\ Announced(Tail(events), handle, [shim EXCEPT ![Head(events).link] = state])
<1> DEFINE l == Head(events).link
           E == [type : {"connected", "disconnected"}, link : Links]
           after == [shim EXCEPT ![l] = state]
           rest == Tail(events)
<1>1. /\ Head(events) = events[1] /\ 1 \in DOMAIN events /\ Head(events) \in E /\ rest \in Seq(E)
      /\ \A i \in DOMAIN rest : /\ rest[i] = events[i + 1] /\ i + 1 \in DOMAIN events
                                /\ 1 < i + 1 /\ i \in Nat
  <2>1. events \in Seq(E)
    BY DEF OthersOK
  <2> HIDE DEF E
  <2> QED
    BY <2>1, EventTaken
<1>2. l \in Links /\ l \in DOMAIN handle
      /\ (Head(events).type = "connected" => shim[l] = "none")
  BY <1>1 DEF Announced
<1> HIDE DEF rest, l
<1>3. DOMAIN shim = Links /\ DOMAIN after = Links /\ \A k \in Links : k # l => after[k] = shim[k]
  BY DEF OthersOK
<1>4. after[l] = state
  BY <1>2, <1>3
<1> HIDE DEF after
<1>5. \A k \in Links : after[k] # "none" => k \in DOMAIN handle
  BY <1>2, <1>3 DEF Announced
<1>6. ASSUME NEW i \in DOMAIN rest
      PROVE  /\ rest[i].link \in DOMAIN handle
             /\ rest[i].type = "connected" => after[rest[i].link] = "none"
  <2> HIDE DEF E
  <2>1. rest[i] = events[i + 1] /\ i + 1 \in DOMAIN events /\ 1 < i + 1 /\ rest[i] \in E
    BY <1>1, <1>6
  <2>2. rest[i].link \in Links
    BY <2>1 DEF E
  <2>3. rest[i].type = "connected" => rest[i].link # l /\ shim[rest[i].link] = "none"
    BY <1>1, <2>1 DEF Announced, l
  <2> QED
    BY <1>3, <2>1, <2>2, <2>3 DEF Announced
<1>7. ASSUME NEW i \in DOMAIN rest, NEW j \in DOMAIN rest, i < j, rest[j].type = "connected"
      PROVE  rest[i].link # rest[j].link
  <2>1. i + 1 < j + 1 /\ i + 1 \in DOMAIN events /\ j + 1 \in DOMAIN events
    BY <1>1, <1>7
  <2> QED
    BY <1>1, <1>7, <2>1 DEF Announced
<1>8. Announced(rest, handle, after)
  BY <1>5, <1>6, <1>7 DEF Announced
<1> QED
  BY <1>1, <1>2, <1>8 DEF rest, l, after

\* A connection is added and announced: nothing was handed to it before.
LEMMA OnConnectionCompleteInv ==
  ASSUME Inv, OnConnectionComplete
  PROVE  Inv'
<1> DEFINE l == Head(events).link
           h == handle[l]
<1>1. /\ events # <<>> /\ Head(events).type = "connected"
      /\ acl_connections_' = [acl_connections_ EXCEPT ![h] = l]
      /\ shim' = [shim EXCEPT ![l] = "announced"] /\ events' = Tail(events)
      /\ UNCHANGED <<controllerVars, acl_queue, routerVars, assemblerVars, queue_, upward>>
  BY DEF OnConnectionComplete
<1>2. OthersOK /\ RouteInv /\ acl_queue \in Seq(Fragments)
  BY DEF Inv, TypeOK, OthersOK
<1>3. /\ handle' = handle /\ up' = up /\ sent' = sent /\ received' = received
      /\ acl_queue' = acl_queue /\ waiting_packets_' = waiting_packets_ /\ handed' = handed
      /\ queue_' = queue_ /\ upward' = upward /\ RouterSame
  BY <1>1 DEF controllerVars, routerVars, assemblerVars, RouterSame
<1>4. /\ events' \in Seq([type : {"connected", "disconnected"}, link : Links])
      /\ l \in Links /\ l \in DOMAIN handle /\ shim[l] = "none"
      /\ Announced(events', handle', shim')
  BY <1>1, <1>2, <1>3, AnnouncedTail DEF RouteInv
<1> HIDE DEF l
<1>5. h \in Handles /\ l # 0 /\ l \in 0 .. MaxLinks
  <2>1. handle \in Seq(Handles)
    BY <1>2 DEF OthersOK
  <2>2. h \in Handles
    BY <1>4, <2>1
  <2> QED
    BY <1>4, <2>2, ReceivePathAssumption DEF Links
<1> HIDE DEF h
<1>6. /\ acl_connections_' \in [Handles -> 0 .. MaxLinks] /\ acl_connections_'[h] = l
      /\ \A k \in Handles : k # h => acl_connections_'[k] = acl_connections_[k]
  BY <1>1, <1>2, <1>5 DEF OthersOK
<1>7. /\ shim' \in [Links -> {"none", "announced", "open", "closed"}] /\ shim'[l] = "announced"
      /\ \A k \in Links : k # l => shim'[k] = shim[k]
  BY <1>1, <1>2, <1>4 DEF OthersOK
<1>8. OthersOK'
  BY <1>2, <1>3, <1>4, <1>6, <1>7 DEF OthersOK
<1>9. Connected(acl_connections_', handle', shim')
  <2> SUFFICES ASSUME NEW k \in Handles, acl_connections_'[k] # 0
               PROVE  /\ acl_connections_'[k] \in DOMAIN handle
                      /\ handle[acl_connections_'[k]] = k
                      /\ shim'[acl_connections_'[k]] # "none"
    BY <1>3 DEF Connected
  <2>1. CASE k = h
    BY <1>4, <1>6, <1>7, <2>1 DEF h
  <2>2. CASE k # h
    <3>1. acl_connections_'[k] = acl_connections_[k]
      BY <1>6, <2>2
    <3>2. acl_connections_[k] \in Links
      BY <1>2, <3>1, ReceivePathAssumption DEF OthersOK, Links
    <3> QED
      BY <1>2, <1>7, <3>1, <3>2 DEF RouteInv, Connected
  <2> QED
    BY <2>1, <2>2
<1>10. handed[l] = <<>>
  BY <1>2, <1>4 DEF RouteInv, Delivered
<1>11. Delivered(handed', sent', handle', shim')
  <2>1. \A k \in Links : shim'[k] = "none" => shim[k] = "none"
    BY <1>7
  <2> QED
    BY <1>2, <1>3, <2>1 DEF RouteInv, Delivered
<1>12. NotOvertaken(acl_connections_', handed', waiting_packets_', acl_queue', handle')
  <2> SUFFICES ASSUME NEW k \in Handles, acl_connections_'[k] # 0
               PROVE  /\ Earlier(Range(handed[acl_connections_'[k]]), Range(acl_queue))
                      /\ Earlier(Range(handed[acl_connections_'[k]]),
                                 {g \in Range(waiting_packets_) : handle[g.link] = k})
    BY <1>3 DEF NotOvertaken
  <2>1. CASE k = h
    BY <1>6, <1>10, <2>1, EmptyRange DEF Earlier
  <2>2. CASE k # h
    BY <1>2, <1>6, <2>2 DEF RouteInv, NotOvertaken
  <2> QED
    BY <2>1, <2>2
<1>13. NoGaps(handed', waiting_packets_', acl_queue', sent', acl_connections_', shim')
  <2>1. ASSUME NEW k \in Links, Expected(k, acl_connections_', shim')
        PROVE  Expected(k, acl_connections_, shim)
    BY <1>4, <1>6, <1>7, <2>1 DEF Expected
  <2> QED
    BY <1>2, <1>3, <2>1 DEF RouteInv, NoGaps
<1>14. RouteInv'
  BY <1>2, <1>3, <1>4, <1>9, <1>11, <1>12, <1>13 DEF RouteInv
<1> QED
  BY <1>2, <1>3, <1>8, <1>14, SameAssemblers

\* A connection is removed, and its assembler with it.
LEMMA OnDisconnectInv ==
  ASSUME Inv, OnDisconnect
  PROVE  Inv'
<1> DEFINE l == Head(events).link
           h == handle[l]
<1>1. /\ events # <<>>
      /\ acl_connections_' = [acl_connections_ EXCEPT ![h] = 0]
      /\ recombination_stage_' = [recombination_stage_ EXCEPT ![l] = <<>>]
      /\ incoming_queue_' = [incoming_queue_ EXCEPT ![l] = <<>>]
      /\ enqueue_registered_' = [enqueue_registered_ EXCEPT ![l] = FALSE]
      /\ shim' = [shim EXCEPT ![l] = "closed"] /\ events' = Tail(events)
      /\ UNCHANGED <<controllerVars, acl_queue, routerVars, handed, congested, queue_, upward>>
  BY DEF OnDisconnect
<1>2. OthersOK /\ RouteInv /\ TypeOK /\ QueueBounded /\ NoneForgotten
  BY DEF Inv, TypeOK, OthersOK
<1>3. /\ handle' = handle /\ up' = up /\ sent' = sent /\ received' = received
      /\ acl_queue' = acl_queue /\ waiting_packets_' = waiting_packets_ /\ handed' = handed
      /\ queue_' = queue_ /\ upward' = upward /\ congested' = congested
      /\ unknown_acl_alarm_' = unknown_acl_alarm_
  BY <1>1 DEF controllerVars, routerVars
<1>4. /\ events' \in Seq([type : {"connected", "disconnected"}, link : Links])
      /\ l \in Links /\ l \in DOMAIN handle
      /\ Announced(events', handle', shim')
  <2>1. Announced(events, handle, shim) /\ OthersOK /\ events # <<>>
    BY <1>1, <1>2 DEF RouteInv
  <2>2. /\ Tail(events) \in Seq([type : {"connected", "disconnected"}, link : Links])
        /\ l \in Links /\ l \in DOMAIN handle
        /\ Announced(Tail(events), handle, [shim EXCEPT ![l] = "closed"])
    BY <2>1, AnnouncedTail
  <2> QED
    BY <1>1, <1>3, <2>2
<1> HIDE DEF l
<1>5. h \in Handles
  <2>1. handle \in Seq(Handles)
    BY <1>2 DEF OthersOK
  <2> QED
    BY <1>4, <2>1
<1> HIDE DEF h
<1>6. /\ acl_connections_' \in [Handles -> 0 .. MaxLinks] /\ acl_connections_'[h] = 0
      /\ \A k \in Handles : k # h => acl_connections_'[k] = acl_connections_[k]
  BY <1>1, <1>2, <1>5, ReceivePathAssumption DEF OthersOK
<1>7. /\ shim' \in [Links -> {"none", "announced", "open", "closed"}] /\ shim'[l] = "closed"
      /\ \A k \in Links : k # l => shim'[k] = shim[k]
  BY <1>1, <1>2, <1>4 DEF OthersOK
<1>8. OthersOK'
  BY <1>2, <1>3, <1>4, <1>6, <1>7 DEF OthersOK
<1>9. <<>> \in Seq(Fragments) /\ <<>> \in Seq(Seq(Fragments)) /\ Len(<<>>) = 0
  OBVIOUS
<1>10. /\ recombination_stage_' \in [Links -> Seq(Fragments)]
       /\ \A k \in Links : Begun(recombination_stage_'[k])
  <2>1. /\ recombination_stage_ \in [Links -> Seq(Fragments)]
        /\ \A k \in Links : Begun(recombination_stage_[k])
    BY <1>2 DEF TypeOK, Begun
  <2>2. Begun(<<>>)
    BY DEF Begun
  <2> QED
    BY <1>1, <1>4, <1>9, <2>1, <2>2
<1>11. /\ incoming_queue_' \in [Links -> Seq(Seq(Fragments))]
       /\ enqueue_registered_' \in [Links -> BOOLEAN]
       /\ incoming_queue_'[l] = <<>> /\ enqueue_registered_'[l] = FALSE
       /\ \A k \in Links : k # l => /\ incoming_queue_'[k] = incoming_queue_[k]
                                    /\ enqueue_registered_'[k] = enqueue_registered_[k]
  BY <1>1, <1>2, <1>4, <1>9 DEF TypeOK
<1>12. TypeOK'
  BY <1>2, <1>3, <1>8, <1>10, <1>11 DEF TypeOK, OthersOK, Begun
<1>13. QueueBounded'
  <2>1. 0 <= MaxQueued + 1
    BY ReceivePathAssumption
  <2> QED
    BY <1>2, <1>9, <1>11, <2>1 DEF QueueBounded
<1>14. NoneForgotten'
  BY <1>2, <1>3, <1>11 DEF NoneForgotten
<1>15. \A k \in Handles : acl_connections_'[k] # 0 => acl_connections_'[k] = acl_connections_[k]
  BY <1>6
<1>16. Connected(acl_connections_', handle', shim')
  <2> SUFFICES ASSUME NEW k \in Handles, acl_connections_'[k] # 0
               PROVE  /\ acl_connections_[k] \in DOMAIN handle
                      /\ handle[acl_connections_[k]] = k
                      /\ shim'[acl_connections_[k]] # "none"
    BY <1>3, <1>15 DEF Connected
  <2>1. acl_connections_[k] # 0 /\ acl_connections_[k] \in Links
    BY <1>2, <1>15, ReceivePathAssumption DEF OthersOK, Links
  <2> QED
    BY <1>2, <1>7, <2>1 DEF RouteInv, Connected
<1>17. \A k \in Links : shim'[k] = "none" => shim[k] = "none"
  BY <1>7
<1>18. Delivered(handed', sent', handle', shim')
  BY <1>2, <1>3, <1>17 DEF RouteInv, Delivered
<1>19. NotOvertaken(acl_connections_', handed', waiting_packets_', acl_queue', handle')
  BY <1>2, <1>3, <1>15 DEF RouteInv, NotOvertaken
<1>20. NoGaps(handed', waiting_packets_', acl_queue', sent', acl_connections_', shim')
  <2>1. ASSUME NEW k \in Links, Expected(k, acl_connections_', shim')
        PROVE  Expected(k, acl_connections_, shim)
    <3>1. k # 0
      BY ReceivePathAssumption DEF Links
    <3> QED
      BY <1>15, <1>17, <2>1, <3>1 DEF Expected
  <2> QED
    BY <1>2, <1>3, <2>1 DEF RouteInv, NoGaps
<1>21. RouteInv'
  BY <1>2, <1>3, <1>4, <1>16, <1>18, <1>19, <1>20 DEF RouteInv
<1> QED
  BY <1>12, <1>13, <1>14, <1>21 DEF Inv

\* The shim changes its state, not to or from "none".
LEMMA OnConnectSuccessInv ==
  ASSUME Inv, NEW l \in Links, OnConnectSuccess(l)
  PROVE  Inv'
<1>1. /\ shim[l] = "announced" /\ shim' = [shim EXCEPT ![l] = "open"]
      /\ UNCHANGED <<controllerVars, events, acl_queue, routerVars, acl_connections_,
                     assemblerVars, queue_, upward>>
  BY DEF OnConnectSuccess
<1>2. OthersOK /\ RouteInv /\ acl_queue \in Seq(Fragments)
  BY DEF Inv, TypeOK, OthersOK
<1>3. /\ handle' = handle /\ up' = up /\ sent' = sent /\ received' = received /\ events' = events
      /\ acl_queue' = acl_queue /\ waiting_packets_' = waiting_packets_ /\ handed' = handed
      /\ acl_connections_' = acl_connections_ /\ queue_' = queue_ /\ upward' = upward
      /\ RouterSame
  BY <1>1 DEF controllerVars, routerVars, assemblerVars, RouterSame
<1>4. /\ shim' \in [Links -> {"none", "announced", "open", "closed"}]
      /\ \A k \in Links : shim'[k] = "none" <=> shim[k] = "none"
  BY <1>1, <1>2 DEF OthersOK
<1>5. OthersOK'
  BY <1>2, <1>3, <1>4 DEF OthersOK
<1>6. Connected(acl_connections_', handle', shim')
  <2>1. \A h \in Handles : acl_connections_[h] # 0 => acl_connections_[h] \in Links
    <3>1. \A h \in Handles : acl_connections_[h] \in 0..MaxLinks
      BY <1>2, Zenon DEF OthersOK
    <3> QED
      BY <3>1, SomeLink
  <2> QED
    BY <1>2, <1>3, <1>4, <2>1 DEF RouteInv, Connected
<1>7. Announced(events', handle', shim')
  <2>1. \A i \in DOMAIN events : events[i].link \in Links
    <3> DEFINE E == [type : {"connected", "disconnected"}, link : Links]
    <3>1. events \in Seq(E)
      BY <1>2 DEF OthersOK
    <3>2. \A e \in E : e.link \in Links
      OBVIOUS
    <3> HIDE DEF E
    <3>3. \A i \in DOMAIN events : events[i] \in E
      BY <3>1
    <3> QED
      BY <3>2, <3>3
  <2> QED
    BY <1>2, <1>3, <1>4, <2>1 DEF RouteInv, Announced
<1>8. Delivered(handed', sent', handle', shim')
  BY <1>2, <1>3, <1>4 DEF RouteInv, Delivered
<1>9. NoGaps(handed', waiting_packets_', acl_queue', sent', acl_connections_', shim')
  BY <1>2, <1>3, <1>4 DEF RouteInv, NoGaps, Expected
<1>10. RouteInv'
  BY <1>2, <1>3, <1>6, <1>7, <1>8, <1>9 DEF RouteInv
<1> QED
  BY <1>2, <1>3, <1>5, <1>10, SameAssemblers

\* RouteInv says nothing of the queue to the shim.
LEMMA SameRoute ==
  ASSUME RouteInv, UNCHANGED <<controllerVars, events, acl_queue, routerVars, acl_connections_,
                               handed, shim>>
  PROVE  RouteInv'
<1>1. /\ handle' = handle /\ sent' = sent /\ received' = received /\ events' = events
      /\ acl_queue' = acl_queue /\ waiting_packets_' = waiting_packets_ /\ handed' = handed
      /\ acl_connections_' = acl_connections_ /\ shim' = shim
  BY DEF controllerVars, routerVars
<1> QED
  BY <1>1 DEF RouteInv

\* A PDU goes to the host stack.
LEMMA DataReadyCallbackInv ==
  ASSUME Inv, NEW l \in Links, DataReadyCallback(l)
  PROVE  Inv'
<1> DEFINE more == Append(upward[l], Head(queue_[l]))
           rest == Tail(queue_[l])
<1>1. /\ queue_[l] # <<>> /\ upward' = [upward EXCEPT ![l] = more]
      /\ queue_' = [queue_ EXCEPT ![l] = rest]
      /\ UNCHANGED <<controllerVars, events, acl_queue, routerVars, acl_connections_,
                     assemblerVars, shim>>
  BY DEF DataReadyCallback, Inv, TypeOK
<1>2. OthersOK /\ RouteInv /\ acl_queue \in Seq(Fragments)
  BY DEF Inv, TypeOK, OthersOK
<1>3. queue_[l] \in Seq(Seq(Fragments)) /\ upward[l] \in Seq(Seq(Fragments))
  BY <1>2 DEF OthersOK
<1>4. Head(queue_[l]) \in Seq(Fragments) /\ rest \in Seq(Seq(Fragments))
  BY <1>1, <1>3, EventTaken
<1>5. more \in Seq(Seq(Fragments))
  BY <1>3, <1>4, RangeAppend
<1> HIDE DEF more, rest
<1>6. OthersOK'
  BY <1>1, <1>2, <1>4, <1>5 DEF OthersOK, controllerVars
<1>7. RouteInv'
  BY <1>1, <1>2, SameRoute DEF assemblerVars
<1> QED
  BY <1>1, <1>2, <1>6, <1>7, SameAssemblers DEF RouterSame, routerVars

\* A PDU leaves the assembler.
LEMMA OnDataReadyInv ==
  ASSUME Inv, NEW l \in Links, OnDataReady(l)
  PROVE  Inv'
<1> DEFINE more == Append(queue_[l], Head(incoming_queue_[l]))
           rest == Tail(incoming_queue_[l])
<1>1. /\ enqueue_registered_[l] /\ queue_' = [queue_ EXCEPT ![l] = more]
      /\ incoming_queue_' = [incoming_queue_ EXCEPT ![l] = rest]
      /\ enqueue_registered_' = [enqueue_registered_ EXCEPT ![l] = rest # <<>>]
      /\ UNCHANGED <<controllerVars, events, acl_queue, routerVars, acl_connections_,
                     recombination_stage_, handed, congested, shim, upward>>
  BY DEF OnDataReady, Inv, TypeOK
<1>2. OthersOK /\ RouteInv /\ TypeOK /\ QueueBounded /\ NoneForgotten
  BY DEF Inv, TypeOK, OthersOK
<1>3. /\ incoming_queue_[l] \in Seq(Seq(Fragments)) /\ incoming_queue_[l] # <<>>
      /\ queue_[l] \in Seq(Seq(Fragments)) /\ Len(incoming_queue_[l]) <= MaxQueued + 1
  BY <1>1, <1>2 DEF TypeOK, NoneForgotten, QueueBounded
<1>4. Head(incoming_queue_[l]) \in Seq(Fragments) /\ rest \in Seq(Seq(Fragments))
  BY <1>3, EventTaken
<1>5. Len(rest) <= MaxQueued + 1
  <2>1. Len(incoming_queue_[l]) \in Nat /\ Len(rest) = Len(incoming_queue_[l]) - 1
    BY <1>3
  <2> QED
    BY <1>3, <2>1, ReceivePathAssumption
<1>6. more \in Seq(Seq(Fragments))
  BY <1>3, <1>4, RangeAppend
<1> HIDE DEF more, rest
<1>7. /\ incoming_queue_' \in [Links -> Seq(Seq(Fragments))] /\ incoming_queue_'[l] = rest
      /\ \A k \in Links : k # l => incoming_queue_'[k] = incoming_queue_[k]
  BY <1>1, <1>2, <1>4 DEF TypeOK
<1>8. /\ enqueue_registered_' \in [Links -> BOOLEAN]
      /\ enqueue_registered_'[l] = (rest # <<>>)
      /\ \A k \in Links : k # l => enqueue_registered_'[k] = enqueue_registered_[k]
  BY <1>1, <1>2 DEF TypeOK
<1>9. OthersOK'
  BY <1>1, <1>2, <1>6 DEF OthersOK, controllerVars
<1>10. TypeOK'
  BY <1>1, <1>2, <1>7, <1>8, <1>9 DEF TypeOK, OthersOK, routerVars
<1>11. QueueBounded'
  BY <1>2, <1>5, <1>7 DEF QueueBounded
<1>12. NoneForgotten'
  BY <1>1, <1>2, <1>7, <1>8 DEF NoneForgotten, routerVars
<1>13. RouteInv'
  BY <1>1, <1>2, SameRoute
<1> QED
  BY <1>10, <1>11, <1>12, <1>13 DEF Inv

-----------------------------------------------------------------------------
(* The theorems *)

\* The invariant holds initially.
LEMMA InvInit == Init => Inv
<1> SUFFICES ASSUME Init PROVE Inv
  OBVIOUS
<1>1. <<>> \in Seq(Fragments) /\ <<>> \in Seq(Seq(Fragments)) /\ <<>> \in Seq(Handles)
      /\ DOMAIN <<>> = {} /\ Len(<<>>) = 0
  OBVIOUS
<1>2. /\ handle = <<>> /\ up = {} /\ sent = [l \in Links |-> <<>>] /\ received = 0
      /\ events = <<>> /\ acl_queue = <<>> /\ waiting_packets_ = <<>>
      /\ unknown_acl_alarm_ = FALSE /\ acl_connections_ = [h \in Handles |-> 0]
      /\ recombination_stage_ = [l \in Links |-> <<>>]
      /\ incoming_queue_ = [l \in Links |-> <<>>]
      /\ enqueue_registered_ = [l \in Links |-> FALSE]
      /\ queue_ = [l \in Links |-> <<>>] /\ shim = [l \in Links |-> "none"]
      /\ upward = [l \in Links |-> <<>>] /\ handed = [l \in Links |-> <<>>]
      /\ congested = [l \in Links |-> {}]
  BY DEF Init
<1>3. OthersOK
  <2>1. events \in Seq([type : {"connected", "disconnected"}, link : Links])
    BY <1>2
  <2>2. received \in 0 .. MaxFragments /\ acl_connections_ \in [Handles -> 0 .. MaxLinks]
    BY <1>2, ReceivePathAssumption
  <2> QED
    BY <1>1, <1>2, <2>1, <2>2 DEF OthersOK
<1>4. TypeOK
  BY <1>1, <1>2, <1>3 DEF TypeOK, OthersOK
<1>5. QueueBounded
  BY <1>1, <1>2, ReceivePathAssumption DEF QueueBounded
<1>6. NoneForgotten
  BY <1>2 DEF NoneForgotten
<1>7. Connected(acl_connections_, handle, shim) /\ Announced(events, handle, shim)
  BY <1>1, <1>2 DEF Connected, Announced
<1>8. OnTheWay(waiting_packets_, acl_queue, sent, handle, received)
  BY <1>1, <1>2, EmptyRange DEF OnTheWay, Earlier, WereSent, Valid, Counted
<1>9. Delivered(handed, sent, handle, shim)
  BY <1>2, EmptyRange DEF Delivered, WereSent, Valid
<1>10. NotOvertaken(acl_connections_, handed, waiting_packets_, acl_queue, handle)
  BY <1>2 DEF NotOvertaken
<1>11. NoGaps(handed, waiting_packets_, acl_queue, sent, acl_connections_, shim)
  BY <1>2, EmptyRange DEF NoGaps, NoGap
<1> QED
  BY <1>4, <1>5, <1>6, <1>7, <1>8, <1>9, <1>10, <1>11 DEF Inv, RouteInv

\* Nothing changes.
LEMMA StutterInv ==
  ASSUME Inv, UNCHANGED vars
  PROVE  Inv'
<1>1. UNCHANGED <<controllerVars, events, acl_queue, routerVars, acl_connections_, assemblerVars,
                  shimVars>>
  BY DEF vars
<1>2. OthersOK'
  BY <1>1 DEF Inv, TypeOK, OthersOK, controllerVars, shimVars
<1>3. RouteInv'
  BY <1>1, SameRoute DEF Inv, assemblerVars, shimVars
<1> QED
  BY <1>1, <1>2, <1>3, SameAssemblers DEF Inv, TypeOK, RouterSame, routerVars

\* The invariant of the receive path, from which the theorems below follow.
LEMMA Invariant == Spec => []Inv
<1>1. Init => Inv
  BY InvInit
<1>2. Inv /\ [Next]_vars => Inv'
  <2> SUFFICES ASSUME Inv, [Next]_vars PROVE Inv'
    OBVIOUS
  <2>1. CASE StackThreadStep
    BY <2>1, DequeueAndRouteInv, OnConnectionCompleteInv, OnDisconnectInv, OnDataReadyInv,
       OnConnectSuccessInv, DataReadyCallbackInv DEF StackThreadStep
  <2>2. CASE OnUnknownAclTimer
    BY <2>2, OnUnknownAclTimerInv
  <2>3. CASE ControllerStep
    BY <2>3, ConnectInv, DisconnectInv, ReceiveInv DEF ControllerStep
  <2>4. CASE UNCHANGED vars
    BY <2>4, StutterInv
  <2> QED
    BY <2>1, <2>2, <2>3, <2>4 DEF Next
<1> QED
  BY <1>1, <1>2, PTL DEF Spec

\* Every variable keeps its type, and what an assembler holds between two packets is
\* the beginning of a PDU, for every number of handles, links and fragments
\* (assembler::on_incoming_packet).
THEOREM TypeCorrect == Spec => []TypeOK
<1>1. Inv => TypeOK
  BY DEF Inv
<1> QED
  BY <1>1, Invariant, PTL

\* The queue of an assembler never holds more than kMaxQueuedPacketsPerConnection + 1
\* PDUs, whatever the host and the controller do.
THEOREM QueueBoundedHolds == Spec => []QueueBounded
<1>1. Inv => QueueBounded
  BY DEF Inv
<1> QED
  BY <1>1, Invariant, PTL

\* A packet that waits has the timer, and an assembler is registered exactly when it has
\* a PDU to pass on.
THEOREM NoneForgottenHolds == Spec => []NoneForgotten
<1>1. Inv => NoneForgotten
  BY DEF Inv
<1> QED
  BY <1>1, Invariant, PTL

\* Two parts of a path in order
LEMMA IncreasingConcat ==
  ASSUME NEW s \in Seq(Fragments), NEW t \in Seq(Fragments), NEW S,
         \A i, j \in DOMAIN s : i < j /\ s[i] \in S /\ s[j] \in S => s[i].n < s[j].n,
         \A i, j \in DOMAIN t : i < j /\ t[i] \in S /\ t[j] \in S => t[i].n < t[j].n,
         Earlier(Range(s) \cap S, Range(t) \cap S)
  PROVE  \A i, j \in DOMAIN (s \o t) :
           i < j /\ (s \o t)[i] \in S /\ (s \o t)[j] \in S => (s \o t)[i].n < (s \o t)[j].n
<1> DEFINE p == s \o t
           m == Len(s)
<1>1. /\ p \in Seq(Fragments) /\ DOMAIN p = 1 .. m + Len(t) /\ m \in Nat /\ Len(t) \in Nat
      /\ DOMAIN s = 1 .. m /\ DOMAIN t = 1 .. Len(t)
  OBVIOUS
<1>2. \A i \in 1 .. m : p[i] = s[i]
  OBVIOUS
<1>3. \A i \in m + 1 .. m + Len(t) : p[i] = t[i - m]
  OBVIOUS
<1> HIDE DEF p, m
<1> SUFFICES ASSUME NEW i \in DOMAIN p, NEW j \in DOMAIN p, i < j, p[i] \in S, p[j] \in S
             PROVE  p[i].n < p[j].n
  BY DEF p
<1>4. CASE j <= m
  <2>1. i \in 1 .. m /\ j \in 1 .. m
    BY <1>1, <1>4
  <2> QED
    BY <1>1, <1>2, <2>1
<1>5. CASE i > m
  <2>1. i - m \in DOMAIN t /\ j - m \in DOMAIN t /\ i - m < j - m
    BY <1>1, <1>5
  <2>2. p[i] = t[i - m] /\ p[j] = t[j - m]
    BY <1>1, <1>3, <1>5
  <2> QED
    BY <2>1, <2>2
<1>6. CASE i <= m /\ j > m
  <2>1. p[i] \in Range(s)
    BY <1>1, <1>2, <1>6 DEF Range
  <2>2. p[j] = t[j - m] /\ j - m \in DOMAIN t
    BY <1>1, <1>3, <1>6
  <2>3. p[j] \in Range(t)
    BY <2>2 DEF Range
  <2> QED
    BY <2>1, <2>3 DEF Earlier
<1> QED
  BY <1>1, <1>4, <1>5, <1>6

\* The elements of two sequences in a row
LEMMA RangeConcat ==
  ASSUME NEW s \in Seq(Fragments), NEW t \in Seq(Fragments)
  PROVE  s \o t \in Seq(Fragments) /\ Range(s \o t) = Range(s) \cup Range(t)
<1> DEFINE p == s \o t
           m == Len(s)
<1>1. /\ p \in Seq(Fragments) /\ DOMAIN p = 1 .. m + Len(t) /\ m \in Nat /\ Len(t) \in Nat
      /\ DOMAIN s = 1 .. m /\ DOMAIN t = 1 .. Len(t)
  OBVIOUS
<1>2. \A i \in 1 .. m : p[i] = s[i]
  OBVIOUS
<1>3. \A i \in m + 1 .. m + Len(t) : p[i] = t[i - m]
  OBVIOUS
<1> HIDE DEF p, m
<1>4. ASSUME NEW i \in DOMAIN p PROVE p[i] \in Range(s) \cup Range(t)
  <2>1. CASE i <= m
    <3>1. i \in DOMAIN s /\ p[i] = s[i]
      BY <1>1, <1>2, <2>1
    <3> QED
      BY <3>1 DEF Range
  <2>2. CASE i > m
    <3>1. i - m \in DOMAIN t /\ p[i] = t[i - m]
      BY <1>1, <1>3, <2>2
    <3> QED
      BY <3>1 DEF Range
  <2> QED
    BY <1>1, <2>1, <2>2
<1>5. ASSUME NEW i \in DOMAIN s PROVE s[i] \in Range(p)
  <2>1. i \in DOMAIN p /\ p[i] = s[i]
    BY <1>1, <1>2
  <2> QED
    BY <2>1 DEF Range
<1>6. ASSUME NEW i \in DOMAIN t PROVE t[i] \in Range(p)
  <2>1. m + i \in DOMAIN p /\ m + i \in m + 1 .. m + Len(t) /\ (m + i) - m = i
    BY <1>1
  <2>2. p[m + i] = t[i]
    BY <1>3, <2>1
  <2> QED
    BY <2>1, <2>2 DEF Range
<1>7. Range(p) = Range(s) \cup Range(t)
  BY <1>4, <1>5, <1>6 DEF Range
<1> QED
  BY <1>1, <1>7 DEF p

\* The invariant says of the sets of packets what HandedInOrder says of the path.
LEMMA InvImpliesOrder == Inv => HandedInOrder
<1> SUFFICES ASSUME Inv, NEW l \in 1 .. Len(handle)
             PROVE  /\ Live(l) =>
                         /\ \A i, j \in Own(l) : i < j => Path(l)[i].n < Path(l)[j].n
                         /\ \A i \in Own(l) : Path(l)[i] \in Range(sent[l])
                         /\ \A f \in Range(sent[l]) :
                              f.flag # "INVALID" /\ (\E i \in Own(l) : Path(l)[i].n < f.n)
                                => \E j \in Own(l) : Path(l)[j] = f
                    /\ \A i, j \in DOMAIN handed[l] : i < j => handed[l][i].n < handed[l][j].n
  BY DEF HandedInOrder
<1>1. TypeOK /\ RouteInv
  BY DEF Inv
<1>2. l \in Links /\ l \in DOMAIN handle
  BY <1>1 DEF TypeOK
<1>3. /\ OnTheWay(waiting_packets_, acl_queue, sent, handle, received)
      /\ Delivered(handed, sent, handle, shim)
      /\ Connected(acl_connections_, handle, shim)
      /\ NotOvertaken(acl_connections_, handed, waiting_packets_, acl_queue, handle)
      /\ NoGaps(handed, waiting_packets_, acl_queue, sent, acl_connections_, shim)
  BY <1>1 DEF RouteInv
<1>4. \A i, j \in DOMAIN handed[l] : i < j => handed[l][i].n < handed[l][j].n
  BY <1>2, <1>3 DEF Delivered, Increasing
<1>5. ASSUME Live(l)
      PROVE  /\ \A i, j \in Own(l) : i < j => Path(l)[i].n < Path(l)[j].n
             /\ \A i \in Own(l) : Path(l)[i] \in Range(sent[l])
             /\ \A f \in Range(sent[l]) :
                  f.flag # "INVALID" /\ (\E i \in Own(l) : Path(l)[i].n < f.n)
                    => \E j \in Own(l) : Path(l)[j] = f
  <2> DEFINE mine == {f \in Fragments : f.link = l /\ f.flag # "INVALID"}
             first == handed[l] \o waiting_packets_
  <2>1. PICK h \in Handles : acl_connections_[h] = l
    BY <1>5 DEF Live
  <2>2. l # 0 /\ handle[l] = h
    BY <1>2, <1>3, <2>1, ReceivePathAssumption DEF Connected, Links
  <2>3. /\ handed[l] \in Seq(Fragments) /\ waiting_packets_ \in Seq(Fragments)
        /\ acl_queue \in Seq(Fragments)
    BY <1>1, <1>2 DEF TypeOK
  <2>4. /\ Increasing(handed[l]) /\ Increasing(waiting_packets_) /\ Increasing(acl_queue)
        /\ Earlier(Range(handed[l]), Range(acl_queue))
        /\ Earlier(Range(waiting_packets_), Range(acl_queue))
    BY <1>2, <1>3, <2>1, <2>2 DEF Delivered, OnTheWay, NotOvertaken
  <2>5. Earlier(Range(handed[l]) \cap mine, Range(waiting_packets_) \cap mine)
    BY <1>3, <2>1, <2>2 DEF NotOvertaken, Earlier
  <2>6. first \in Seq(Fragments) /\ Range(first) = Range(handed[l]) \cup Range(waiting_packets_)
    BY <2>3, RangeConcat
  <2>7. Path(l) = first \o acl_queue /\ Path(l) \in Seq(Fragments)
        /\ Range(Path(l)) = Range(handed[l]) \cup Range(waiting_packets_) \cup Range(acl_queue)
    BY <2>3, <2>6, RangeConcat DEF Path
  <2>8. \A i, j \in DOMAIN first :
          i < j /\ first[i] \in mine /\ first[j] \in mine => first[i].n < first[j].n
    <3> HIDE DEF mine
    <3> QED
      BY <2>3, <2>4, <2>5, IncreasingConcat DEF Increasing
  <2>9. Earlier(Range(first) \cap mine, Range(acl_queue) \cap mine)
    BY <2>4, <2>6 DEF Earlier
  <2>10. \A i, j \in DOMAIN Path(l) :
           i < j /\ Path(l)[i] \in mine /\ Path(l)[j] \in mine => Path(l)[i].n < Path(l)[j].n
    <3> HIDE DEF mine, first
    <3>1. \A i, j \in DOMAIN acl_queue :
            i < j /\ acl_queue[i] \in mine /\ acl_queue[j] \in mine
              => acl_queue[i].n < acl_queue[j].n
      BY <2>4 DEF Increasing
    <3>2. \A i, j \in DOMAIN (first \o acl_queue) :
            i < j /\ (first \o acl_queue)[i] \in mine /\ (first \o acl_queue)[j] \in mine
              => (first \o acl_queue)[i].n < (first \o acl_queue)[j].n
      BY <2>3, <2>6, <2>8, <2>9, <3>1, IncreasingConcat
    <3> QED
      BY <2>7, <3>2
  <2>11. \A i \in Own(l) : /\ i \in DOMAIN Path(l) /\ Path(l)[i] \in mine
                           /\ Path(l)[i] \in Mine(l, handed, waiting_packets_, acl_queue)
    <3> SUFFICES ASSUME NEW i \in Own(l)
                 PROVE  /\ i \in DOMAIN Path(l) /\ Path(l)[i] \in mine
                        /\ Path(l)[i] \in Mine(l, handed, waiting_packets_, acl_queue)
      OBVIOUS
    <3>1. i \in DOMAIN Path(l) /\ Path(l)[i].link = l /\ Path(l)[i].flag # "INVALID"
      BY DEF Own
    <3>2. Path(l)[i] \in Fragments
      BY <2>7, <3>1
    <3>3. Path(l)[i] \in Range(Path(l))
      BY <3>1 DEF Range
    <3> QED
      BY <2>7, <3>1, <3>2, <3>3 DEF Mine
  <2>12. \A i, j \in Own(l) : i < j => Path(l)[i].n < Path(l)[j].n
    BY <2>10, <2>11
  <2>13. \A i \in Own(l) : Path(l)[i] \in Range(sent[l])
    <3>1. /\ WereSent(Range(handed[l]), sent, handle) /\ WereSent(Range(waiting_packets_), sent, handle)
          /\ WereSent(Range(acl_queue), sent, handle)
      BY <1>2, <1>3 DEF Delivered, OnTheWay
    <3> QED
      BY <2>11, <3>1 DEF Mine, WereSent
  <2>14. ASSUME NEW f \in Range(sent[l]), f.flag # "INVALID", NEW i \in Own(l), Path(l)[i].n < f.n
         PROVE  \E j \in Own(l) : Path(l)[j] = f
    <3>1. NoGap(l, handed, waiting_packets_, acl_queue, sent)
      BY <1>2, <1>3, <2>1 DEF NoGaps, Expected
    <3>2. f \in Mine(l, handed, waiting_packets_, acl_queue)
      BY <2>11, <2>14, <3>1 DEF NoGap
    <3>3. f.link = l /\ f \in Range(Path(l))
      BY <2>7, <3>2 DEF Mine
    <3>4. PICK j \in DOMAIN Path(l) : Path(l)[j] = f
      BY <3>3 DEF Range
    <3> QED
      BY <2>14, <3>3, <3>4 DEF Own
  <2> QED
    BY <2>12, <2>13, <2>14
<1> QED
  BY <1>4, <1>5

\* A connection gets its own packets in the order they were received and without a gap
\* after the first, whether they waited or not, for every number of handles, links and
\* packets (retry_unknown_acl, dequeue_and_route_acl_packet_to_connection).
THEOREM HandedInOrderHolds == Spec => []HandedInOrder
  BY Invariant, InvImpliesOrder, PTL

=============================================================================
