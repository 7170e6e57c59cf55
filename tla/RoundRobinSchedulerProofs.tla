---------------------- MODULE RoundRobinSchedulerProofs ----------------------
(* Theorems about RoundRobinScheduler, for every choice of its constants.     *)
EXTENDS RoundRobinScheduler, FiniteSetTheorems, SequenceTheorems, NaturalsInduction,
        WellFoundedInduction, TLAPS

-----------------------------------------------------------------------------
(* The invariant *)

Handlers == [Handles -> AclQueueHandler \cup {NoHandler}]
Types(handlers) == [h \in Handles |-> handlers[h].connection_type_]
Counts(handlers) == [h \in Handles |-> handlers[h].number_of_sent_packets_]

Task ==
  [run : {"start_round_robin"}]
    \cup [run : {"Register"}, handle : Handles, type : ConnectionType]
    \cup [run : {"Unregister"}, handle : Handles]
    \cup [run : {"incoming_acl_credits"}, handle : Handles, credits : Nat \ {0}]
Packet == [number : Nat, size : Sizes]
LastFragment == [packet : Nat, index : Nat, of : Nat]

\* What TypeOK leaves out.
MoreTypes ==
  /\ tasks \in Seq(Task)
  /\ queue \in [Handles -> Seq(Packet)]
  /\ last \in [Handles -> LastFragment]

\* The task is about the connection.
About(task, h) == task.run # "start_round_robin" /\ task.handle = h
Is(task, run, h) == task.run = run /\ task.handle = h

\* A connection that is to be registered is new: nothing is known of it yet.
RegisterIsFirst(ts, h, registered, known, handed) ==
  \A n \in 1 .. Len(ts) : Is(ts[n], "Register", h) =>
    /\ ~registered /\ ~handed
    /\ known \in {"down", ts[n].type}
    /\ \A m \in 1 .. Len(ts) :
         /\ m < n => ~About(ts[m], h)
         /\ m # n => ~Is(ts[m], "Register", h)
         /\ ~Is(ts[m], "incoming_acl_credits", h)

\* A connection is unregistered once, after all the rest.
UnregisterIsLast(ts, h, registered, known) ==
  \A n \in 1 .. Len(ts) : Is(ts[n], "Unregister", h) =>
    /\ known = "down"
    /\ registered \/ \E m \in 1 .. Len(ts) : m < n /\ Is(ts[m], "Register", h)
    /\ \A m \in 1 .. Len(ts) : m > n => ~About(ts[m], h)

\* What the scheduler knows of a connection agrees with the controller.
LinkKnown(ts, h, registered, type, known, count, waiting) ==
  /\ known # "down" =>
       \/ registered /\ type = known
       \/ \E n \in 1 .. Len(ts) : Is(ts[n], "Register", h)
  /\ count > 0 => known # "down" /\ registered
  /\ waiting => registered

\* The life of a connection, given the tasks, whether it is registered and as what, the
\* link, whether it has fragments in the HCI queue, how many are in the controller's
\* buffers and whether packets wait in its queue.
Life(ts, h, registered, type, known, handed, count, waiting) ==
  /\ RegisterIsFirst(ts, h, registered, known, handed)
  /\ UnregisterIsLast(ts, h, registered, known)
  /\ LinkKnown(ts, h, registered, type, known, count, waiting)

LifeOf(handlers, ts, hq, h, known, count, packets) ==
  Life(ts, h, h \in Registered(handlers), handlers[h].connection_type_, known,
       Own(hq, h) # {}, count, packets # <<>>)

Lifecycle(handlers, ts, hq, known, count, packets) ==
  \A h \in Handles : LifeOf(handlers, ts, hq, h, known[h], count[h], packets[h])

\* What is left of one packet.
Pieces(s, h, type) ==
  \A n \in 1 .. Len(s) :
    /\ s[n].handle_ = h
    /\ s[n].connection_type_ = type
    /\ s[n].packet = s[1].packet
    /\ s[n].of = s[1].of
    /\ s[n].index + Len(s) = s[n].of + n

\* It is all there is to send.
PacketAt(fragments, p, h, type) ==
  /\ \A q \in Priorities \ {p} : fragments[q] = <<>>
  /\ fragments[p] # <<>>
  /\ Pieces(fragments[p], h, type)

OnePacket(handlers, fragments) ==
  ~IsEmpty(fragments) =>
    \E h \in Registered(handlers), p \in Priorities :
      PacketAt(fragments, p, h, handlers[h].connection_type_)

\* sum[n] is what the values from n on add up to.
IsSum(sum, values, length) ==
  /\ sum \in [1 .. length + 1 -> Nat]
  /\ sum[length + 1] = 0
  /\ \A n \in 1 .. length : sum[n] = values[n] + sum[n + 1]

\* The first `length` values add up to total.
AddUp(values, length, total) == \E sum : IsSum(sum, values, length) /\ sum[1] = total

\* What each element of the HCI queue and each task stands for.
Handed(q, h) == [n \in 1 .. Len(q) |-> IF q[n].handle_ = h THEN 1 ELSE 0]
Completed(ts, h) ==
  [n \in 1 .. Len(ts) |-> IF Is(ts[n], "incoming_acl_credits", h) THEN ts[n].credits ELSE 0]
Waiting(fragments, h) ==
  IF ~IsEmpty(fragments) /\ Front(fragments).handle_ = h THEN Size(fragments) ELSE 0

\* number_of_sent_packets_ covers whatever is on its way to the controller and back.
Covered(ts, q, h, waiting, count, sent) ==
  \E handed, completed \in Nat :
    /\ AddUp(Handed(q, h), Len(q), handed)
    /\ AddUp(Completed(ts, h), Len(ts), completed)
    /\ waiting + handed + count + completed <= sent

Accounted(handlers, fragments, ts, hq, count) ==
  \A h \in Registered(handlers) :
    Covered(ts, hq, h, Waiting(fragments, h), count[h], handlers[h].number_of_sent_packets_)

\* CreditConservation, with all that is pending being of one type.
PendingOf(fragments, type) ==
  IF ~IsEmpty(fragments) /\ Front(fragments).connection_type_ = type THEN Size(fragments) ELSE 0
Conserved(handlers, fragments, credits) ==
  \A type \in ConnectionType :
    credits[type] + Sum(Counts(handlers), {h \in Handles : Types(handlers)[h] = type})
    = MaxCredits[type] + PendingOf(fragments, type)

\* The fragments of a connection on this path are in order after the one that the
\* controller got last, and the packet numbered done is the last of them.
Sent(path, first, m) == IF m = 0 THEN first ELSE path[m]
Ordered(path, h, first, done) ==
  /\ \A n \in Own(path, h) : \A m \in 0 .. n - 1 :
       IsPrevious(path, h, m, n) => Follows(path[n], Sent(path, first, m))
  /\ \A m \in 0 .. Len(path) : IsPrevious(path, h, m, Len(path) + 1) =>
       Sent(path, first, m).packet = done /\ Sent(path, first, m).index = Sent(path, first, m).of

\* The packets of a connection are numbered, and the next one follows what was sent.
Stream(path, h, packets, known, first, number) ==
  /\ Len(packets) <= number
  /\ \A n \in 1 .. Len(packets) : packets[n].number + Len(packets) = number + n
  /\ known # "down" => Ordered(path, h, first, number - Len(packets))

PathOf(hq, fragments) == hq \o fragments[1] \o fragments[0]

Streams(path, packets, known, first, number) ==
  \A h \in Handles : Stream(path, h, packets[h], known[h], first[h], number[h])

\* The callbacks are registered only where they can do their work.
Ready(handlers, fragments, credits, enqueue) ==
  /\ enqueue => /\ ~IsEmpty(fragments)
                /\ ~BufferFull(credits, Front(fragments).connection_type_)
  /\ \A h \in Handles : handlers[h].dequeue_is_registered_ =>
       IsEmpty(fragments) /\ ~BufferFull(credits, handlers[h].connection_type_)

\* The starting point is a valid iterator, or not assigned yet.
Points(start, handlers) ==
  \/ start \in Registered(handlers) \cup {END}
  \/ start = SINGULAR /\ Registered(handlers) = {}

\* The map of connections fits the rest of the state.
Fit(handlers, fragments, credits, ts, hq, known, count, packets) ==
  /\ Lifecycle(handlers, ts, hq, known, count, packets)
  /\ OnePacket(handlers, fragments)
  /\ Accounted(handlers, fragments, ts, hq, count)
  /\ Conserved(handlers, fragments, credits)

Inv ==
  /\ TypeOK /\ MoreTypes
  /\ Fit(acl_queue_handlers_, fragments_to_send_, packet_credits_, tasks, hci_queue, link,
         buffered, queue)
  /\ Streams(PathOf(hci_queue, fragments_to_send_), queue, link, last, produced)
  /\ Ready(acl_queue_handlers_, fragments_to_send_, packet_credits_, enqueue_registered_)
  /\ Points(starting_point_, acl_queue_handlers_)
  /\ fate = "alive"

-----------------------------------------------------------------------------
(* Sums *)

\* One more value.
LEMMA AddUpAppend ==
  ASSUME NEW values, NEW more, NEW length \in Nat, NEW total \in Nat,
         AddUp(values, length, total),
         \A n \in 1 .. length : more[n] = values[n] /\ values[n] \in Nat,
         more[length + 1] \in Nat
  PROVE  AddUp(more, length + 1, total + more[length + 1])
<1>1. PICK sum : IsSum(sum, values, length) /\ sum[1] = total
  BY DEF AddUp
<1> DEFINE v == more[length + 1]
           next == [n \in 1 .. (length + 1) + 1 |-> IF n = length + 2 THEN 0 ELSE sum[n] + v]
<1>2. /\ sum \in [1 .. length + 1 -> Nat] /\ sum[length + 1] = 0
      /\ \A n \in 1 .. length : sum[n] = values[n] + sum[n + 1]
  BY <1>1 DEF IsSum
<1>3. v \in Nat
  OBVIOUS
<1> HIDE DEF v
<1>4. \A n \in 1 .. length + 1 : n # length + 2 /\ next[n] = sum[n] + v /\ sum[n] \in Nat
  BY <1>2
<1>5. next[(length + 1) + 1] = 0 /\ next[1] = total + v
  BY <1>1, <1>4
<1>6. next \in [1 .. (length + 1) + 1 -> Nat]
  <2>1. \A n \in 1 .. (length + 1) + 1 : n = (length + 1) + 1 \/ n \in 1 .. length + 1
    OBVIOUS
  <2>2. \A n \in 1 .. length + 1 : next[n] \in Nat
    <3>1. \A n \in 1 .. length + 1 : sum[n] + v \in Nat
      BY <1>2, <1>3
    <3> QED
      BY <1>4, <3>1
  <2>3. \A n \in 1 .. (length + 1) + 1 : next[n] \in Nat
    BY <1>5, <2>1, <2>2
  <2> QED
    BY <2>3
<1>7. ASSUME NEW n \in 1 .. length + 1
      PROVE  next[n] = more[n] + next[n + 1]
  <2>1. CASE n = length + 1
    <3>1. next[n] = 0 + v /\ next[n + 1] = 0
      BY <1>2, <1>4, <1>5, <2>1
    <3>2. more[n] = v
      BY <2>1 DEF v
    <3> HIDE DEF next
    <3> QED
      BY <1>3, <3>1, <3>2
  <2>2. CASE n # length + 1
    <3>1. n \in 1 .. length /\ n + 1 \in 1 .. length + 1
      BY <2>2
    <3>2. next[n] = sum[n] + v /\ next[n + 1] = sum[n + 1] + v /\ sum[n] = more[n] + sum[n + 1]
      BY <1>2, <1>4, <3>1
    <3>3. sum[n + 1] \in Nat /\ sum[n] \in Nat
      BY <1>2, <3>1
    <3> HIDE DEF next
    <3>4. sum[n] = values[n] + sum[n + 1] /\ more[n] = values[n]
      BY <1>2, <3>1
    <3>5. values[n] \in Nat
      BY <3>1
    <3> QED
      BY <1>3, <3>2, <3>3, <3>4, <3>5
  <2> QED
    BY <2>1, <2>2
<1> HIDE DEF next
<1>8. IsSum(next, more, length + 1)
  BY <1>5, <1>6, <1>7 DEF IsSum
<1> QED
  BY <1>5, <1>8 DEF AddUp, v

\* What is left of a sum without its first value.
AddUpAfter(values, rest, length, total) ==
  \E t \in Nat : AddUp(rest, length, t) /\ total = values[1] + t

\* One value less.
LEMMA AddUpTail ==
  ASSUME NEW values, NEW rest, NEW length \in Nat, NEW total \in Nat,
         AddUp(values, length + 1, total), values[1] \in Nat,
         \A n \in 1 .. length : rest[n] = values[n + 1]
  PROVE  AddUpAfter(values, rest, length, total)
<1>1. PICK sum : IsSum(sum, values, length + 1) /\ sum[1] = total
  BY DEF AddUp
<1>2. /\ sum \in [1 .. (length + 1) + 1 -> Nat] /\ sum[(length + 1) + 1] = 0
      /\ \A n \in 1 .. length + 1 : sum[n] = values[n] + sum[n + 1]
  BY <1>1 DEF IsSum
<1> DEFINE next == [n \in 1 .. length + 1 |-> sum[n + 1]]
<1>3. \A n \in 1 .. length + 1 : n + 1 \in 1 .. (length + 1) + 1 /\ next[n] = sum[n + 1]
  OBVIOUS
<1>4. next \in [1 .. length + 1 -> Nat]
  BY <1>2, <1>3
<1>5. next[length + 1] = 0
  BY <1>2, <1>3
<1>6. ASSUME NEW n \in 1 .. length
      PROVE  next[n] = rest[n] + next[n + 1]
  <2>1. n \in 1 .. length + 1 /\ n + 1 \in 1 .. length + 1
    OBVIOUS
  <2> QED
    BY <1>2, <1>3, <2>1
<1>7. sum[1] = values[1] + next[1] /\ next[1] \in Nat
  BY <1>2, <1>3
<1> HIDE DEF next
<1>8. IsSum(next, rest, length)
  BY <1>4, <1>5, <1>6 DEF IsSum
<1> QED
  BY <1>1, <1>7, <1>8 DEF AddUp, AddUpAfter

\* Nothing adds up to nothing.
LEMMA AddUpZero ==
  ASSUME NEW values, NEW length \in Nat, \A n \in 1 .. length : values[n] = 0
  PROVE  AddUp(values, length, 0)
<1> DEFINE sum == [n \in 1 .. length + 1 |-> 0]
<1>1. IsSum(sum, values, length) /\ sum[1] = 0
  BY DEF IsSum
<1> QED
  BY <1>1 DEF AddUp

\* What h stands for in a sum over handles.
Share(f, h) == {h} \X (1 .. f[h])

\* A set of handles has a finite number of things.
LEMMA SharesFinite ==
  ASSUME NEW f \in [Handles -> Nat], NEW S \in SUBSET Handles
  PROVE  IsFiniteSet(UNION {Share(f, h) : h \in S})
<1> DEFINE T == {Share(f, h) : h \in S}
           g == [h \in S |-> Share(f, h)]
<1>1. IsFiniteSet(S)
  BY HandlesAssumption, FS_Subset
<1>2. g \in Surjection(S, T)
  BY DEF Surjection
<1>3. IsFiniteSet(T)
  BY <1>1, <1>2, FS_Surjection
<1>4. ASSUME NEW h \in S PROVE IsFiniteSet(Share(f, h))
  <2>1. f[h] \in Int /\ 1 \in Int
    OBVIOUS
  <2>2. IsFiniteSet(1 .. f[h]) /\ IsFiniteSet({h})
    BY <2>1, FS_Interval, FS_Singleton
  <2> QED
    BY <2>2, FS_Product DEF Share
<1>5. \A X \in T : IsFiniteSet(X)
  BY <1>4
<1> HIDE DEF T
<1>6. IsFiniteSet(UNION T)
  BY <1>3, <1>5, FS_UNION
<1> QED
  BY <1>6 DEF T

\* A sum is a number.
LEMMA SumType ==
  ASSUME NEW f \in [Handles -> Nat], NEW S \in SUBSET Handles
  PROVE  Sum(f, S) \in Nat
<1>1. Sum(f, S) = Cardinality(UNION {Share(f, h) : h \in S})
  BY DEF Sum, Share
<1> QED
  BY <1>1, SharesFinite, FS_CardinalityType

\* One handle contributes its value.
LEMMA SumSplit ==
  ASSUME NEW f \in [Handles -> Nat], NEW S \in SUBSET Handles, NEW h \in S
  PROVE  Sum(f, S) = Sum(f, S \ {h}) + f[h] /\ Sum(f, S \ {h}) \in Nat
<1> DEFINE U == UNION {Share(f, k) : k \in S}
           A == UNION {Share(f, k) : k \in S \ {h}}
           B == Share(f, h)
<1>1. Sum(f, S) = Cardinality(U) /\ Sum(f, S \ {h}) = Cardinality(A)
  BY DEF Sum, Share
<1>2. U = A \cup B
  OBVIOUS
<1>3. A \cap B = {}
  BY DEF Share
<1>4. IsFiniteSet(A)
  BY SharesFinite
<1>5. f[h] \in Nat
  OBVIOUS
<1>6. IsFiniteSet(B) /\ Cardinality(B) = f[h]
  <2>1. IsFiniteSet(1 .. f[h]) /\ Cardinality(1 .. f[h]) = f[h]
    BY <1>5, FS_Interval
  <2>2. IsFiniteSet({h}) /\ Cardinality({h}) = 1
    BY FS_Singleton
  <2>3. IsFiniteSet(B) /\ Cardinality(B) = 1 * f[h]
    BY <2>1, <2>2, FS_Product DEF Share
  <2> QED
    BY <1>5, <2>3
<1> HIDE DEF U, A, B
<1>7. Cardinality(A \cup B) = Cardinality(A) + Cardinality(B) - Cardinality(A \cap B)
  BY <1>4, <1>6, FS_Union
<1>8. Cardinality(A \cap B) = 0 /\ Cardinality(A) \in Nat
  BY <1>3, <1>4, FS_EmptySet, FS_CardinalityType
<1> QED
  BY <1>1, <1>2, <1>5, <1>6, <1>7, <1>8

\* A sum depends on the values of the summed handles only.
LEMMA SumSame ==
  ASSUME NEW f, NEW g, NEW S, \A h \in S : f[h] = g[h]
  PROVE  Sum(f, S) = Sum(g, S)
<1>1. {{h} \X (1 .. f[h]) : h \in S} = {{h} \X (1 .. g[h]) : h \in S}
  OBVIOUS
<1> QED
  BY <1>1 DEF Sum

\* Handles with nothing can be left out, and less cannot add up to more.
LEMMA SumMonotone ==
  ASSUME NEW f \in [Handles -> Nat], NEW g \in [Handles -> Nat],
         NEW S \in SUBSET Handles, NEW T \in SUBSET Handles,
         \A h \in S : f[h] > 0 => h \in T /\ f[h] <= g[h]
  PROVE  Sum(f, S) <= Sum(g, T)
<1> DEFINE A == UNION {Share(f, h) : h \in S}
           B == UNION {Share(g, h) : h \in T}
<1>1. ASSUME NEW x \in A PROVE x \in B
  <2>1. PICK h \in S : x \in Share(f, h)
    OBVIOUS
  <2>2. PICK n \in 1 .. f[h] : x = <<h, n>>
    BY <2>1 DEF Share
  <2>3. h \in T /\ n \in 1 .. g[h]
    BY <2>2
  <2>4. x \in Share(g, h)
    BY <2>2, <2>3 DEF Share
  <2> QED
    BY <2>3, <2>4
<1>2. IsFiniteSet(B)
  BY SharesFinite
<1>3. Sum(f, S) = Cardinality(A) /\ Sum(g, T) = Cardinality(B)
  BY DEF Sum, Share
<1> HIDE DEF A, B
<1>4. A \in SUBSET B
  BY <1>1
<1> QED
  BY <1>2, <1>3, <1>4, FS_Subset

-----------------------------------------------------------------------------
(* The map of connections *)

\* The first of a set of handles.
LEMMA LeastHandle ==
  ASSUME NEW S \in SUBSET Handles, S # {}
  PROVE  Min(S) \in S
<1>1. S \in SUBSET Nat
  BY HandlesAssumption
<1>2. PICK least \in S : \A y \in Nat : <<y, least>> \in OpToRel(<, Nat) => y \notin S
  BY <1>1, NatLessThanWellFounded, WFMin
<1>3. ASSUME NEW other \in S, other < least
      PROVE  FALSE
  BY <1>1, <1>2, <1>3 DEF OpToRel
<1>4. \A other \in S : least <= other
  BY <1>1, <1>3
<1> QED
  BY <1>4 DEF Min

\* The iterators point to a connection or to the end.
LEMMA IteratorValid ==
  ASSUME NEW handlers, NEW h
  PROVE  /\ Begin(handlers) \in Registered(handlers) \cup {END}
         /\ After(handlers, h) \in Registered(handlers) \cup {END}
<1>1. Begin(handlers) \in Registered(handlers) \cup {END}
  <2>1. Registered(handlers) \in SUBSET Handles
    BY DEF Registered
  <2> QED
    BY <2>1, LeastHandle DEF Begin
<1>2. After(handlers, h) \in Registered(handlers) \cup {END}
  <2> DEFINE later == {k \in Registered(handlers) : k > h}
  <2>1. later \in SUBSET Handles /\ later \subseteq Registered(handlers)
    BY DEF Registered
  <2>2. After(handlers, h) = IF later = {} THEN END ELSE Min(later)
    BY DEF After
  <2> HIDE DEF later
  <2> QED
    BY <2>1, <2>2, LeastHandle
<1> QED
  BY <1>1, <1>2

\* An entry of the map is a handler or none.
LEMMA EntryFacts ==
  ASSUME NEW handlers \in Handlers, NEW h \in Handles
  PROVE  /\ handlers[h].connection_type_ \in ConnectionType \cup {"none"}
         /\ handlers[h].number_of_sent_packets_ \in Nat
         /\ handlers[h].dequeue_is_registered_ \in BOOLEAN
         /\ handlers[h].high_priority_ \in BOOLEAN
         /\ h \in Registered(handlers) <=> handlers[h].connection_type_ # "none"
         /\ h \in Registered(handlers) => handlers[h] \in AclQueueHandler
         /\ h \in Registered(handlers) => handlers[h].connection_type_ \in ConnectionType
         /\ h \notin Registered(handlers) =>
              handlers[h] = NoHandler /\ handlers[h].number_of_sent_packets_ = 0
              /\ ~handlers[h].dequeue_is_registered_
<1>1. handlers[h] \in AclQueueHandler \cup {NoHandler}
  BY DEF Handlers
<1>2. CASE handlers[h] \in AclQueueHandler
  <2>1. handlers[h].connection_type_ \in ConnectionType /\ handlers[h].connection_type_ # "none"
        /\ handlers[h].number_of_sent_packets_ \in Nat
        /\ handlers[h].dequeue_is_registered_ \in BOOLEAN
        /\ handlers[h].high_priority_ \in BOOLEAN
    BY <1>2 DEF AclQueueHandler, ConnectionType
  <2>2. NoHandler.connection_type_ = "none"
    BY DEF NoHandler
  <2>3. handlers[h] # NoHandler
    BY <2>1, <2>2
  <2> QED
    BY <1>2, <2>1, <2>3 DEF Registered
<1>3. CASE handlers[h] = NoHandler
  BY <1>3 DEF NoHandler, Registered
<1> QED
  BY <1>1, <1>2, <1>3

\* Two maps have the same connections, of the same types and counts.
SameBooks(new, old) ==
  /\ Registered(new) = Registered(old)
  /\ Types(new) = Types(old)
  /\ Counts(new) = Counts(old)

\* Entries that differ in their flags only.
LEMMA SameBooksWhen ==
  ASSUME NEW new \in Handlers, NEW old \in Handlers,
         \A h \in Handles : /\ new[h].connection_type_ = old[h].connection_type_
                            /\ new[h].number_of_sent_packets_ = old[h].number_of_sent_packets_
  PROVE  SameBooks(new, old)
<1>1. \A h \in Handles : h \in Registered(new) <=> h \in Registered(old)
  BY EntryFacts
<1>2. Registered(new) \subseteq Handles /\ Registered(old) \subseteq Handles
  BY DEF Registered
<1>3. Registered(new) = Registered(old)
  BY <1>1, <1>2
<1> QED
  BY <1>3 DEF SameBooks, Types, Counts

\* Setting a flag of a handler keeps it a handler.
LEMMA FlagFacts ==
  ASSUME NEW e \in AclQueueHandler \cup {NoHandler}, NEW b \in BOOLEAN,
         b => e \in AclQueueHandler
  PROVE  LET n == [e EXCEPT !.dequeue_is_registered_ = b]
         IN  /\ n \in AclQueueHandler \cup {NoHandler}
             /\ n.connection_type_ = e.connection_type_
             /\ n.number_of_sent_packets_ = e.number_of_sent_packets_
             /\ n.high_priority_ = e.high_priority_
             /\ n.dequeue_is_registered_ = b
<1>1. CASE e \in AclQueueHandler
  BY <1>1 DEF AclQueueHandler
<1>2. CASE e = NoHandler
  <2>1. e.connection_type_ = "none" /\ ~e.dequeue_is_registered_
    BY <1>2 DEF NoHandler
  <2>2. e \notin AclQueueHandler
    BY <2>1 DEF AclQueueHandler, ConnectionType
  <2>3. b = FALSE
    BY <2>2
  <2>4. e \in [connection_type_ : {"none"}, dequeue_is_registered_ : {FALSE},
               number_of_sent_packets_ : {0}, high_priority_ : {FALSE}]
    BY <1>2 DEF NoHandler
  <2>5. [e EXCEPT !.dequeue_is_registered_ = FALSE] = e
    BY <2>4
  <2> DEFINE n == [e EXCEPT !.dequeue_is_registered_ = b]
  <2>6. n = e
    BY <2>3, <2>5
  <2> HIDE DEF n
  <2>7. n.dequeue_is_registered_ = b
    BY <2>1, <2>3, <2>4, <2>6
  <2> QED
    BY <2>6, <2>7 DEF n
<1> QED
  BY <1>1, <1>2

\* unregister_all_connections clears the flags.
LEMMA UnregisterAllFacts ==
  ASSUME NEW handlers \in Handlers
  PROVE  LET new == unregister_all_connections(handlers)
         IN  /\ new \in Handlers /\ SameBooks(new, handlers)
             /\ \A h \in Handles : ~new[h].dequeue_is_registered_
                                   /\ new[h].high_priority_ = handlers[h].high_priority_
<1> DEFINE new == unregister_all_connections(handlers)
<1>1. ASSUME NEW h \in Handles
      PROVE  /\ new[h] \in AclQueueHandler \cup {NoHandler}
             /\ new[h].connection_type_ = handlers[h].connection_type_
             /\ new[h].number_of_sent_packets_ = handlers[h].number_of_sent_packets_
             /\ new[h].high_priority_ = handlers[h].high_priority_
             /\ ~new[h].dequeue_is_registered_
  <2>1. handlers[h] \in AclQueueHandler \cup {NoHandler}
    BY DEF Handlers
  <2>2. new[h] = [handlers[h] EXCEPT !.dequeue_is_registered_ = FALSE]
    BY DEF unregister_all_connections
  <2> HIDE DEF new
  <2> QED
    BY <2>1, <2>2, FlagFacts
<1>2. new = [h \in Handles |-> new[h]]
  BY DEF unregister_all_connections
<1> HIDE DEF new
<1>3. new \in Handlers
  BY <1>1, <1>2 DEF Handlers
<1>4. SameBooks(new, handlers)
  BY <1>1, <1>3, SameBooksWhen
<1> QED
  BY <1>1, <1>3, <1>4 DEF new

\* Registering the dequeue callbacks sets flags of connections with credits.
LEMMA RegisterDequeuesFacts ==
  ASSUME NEW handlers \in Handlers, NEW credits
  PROVE  LET new == RegisterDequeues(handlers, credits)
         IN  /\ new \in Handlers /\ SameBooks(new, handlers)
             /\ \A h \in Handles : new[h].dequeue_is_registered_ =>
                  \/ handlers[h].dequeue_is_registered_
                  \/ ~BufferFull(credits, handlers[h].connection_type_)
<1> DEFINE new == RegisterDequeues(handlers, credits)
           ready(h) == h \in Registered(handlers) /\ ~BufferFull(credits, handlers[h].connection_type_)
<1>1. ASSUME NEW h \in Handles
      PROVE  /\ new[h] \in AclQueueHandler \cup {NoHandler}
             /\ new[h].connection_type_ = handlers[h].connection_type_
             /\ new[h].number_of_sent_packets_ = handlers[h].number_of_sent_packets_
             /\ new[h].dequeue_is_registered_ =>
                  \/ handlers[h].dequeue_is_registered_
                  \/ ~BufferFull(credits, handlers[h].connection_type_)
  <2>1. handlers[h] \in AclQueueHandler \cup {NoHandler}
    BY DEF Handlers
  <2>2. new[h] = IF ready(h) THEN [handlers[h] EXCEPT !.dequeue_is_registered_ = TRUE] ELSE handlers[h]
    BY DEF RegisterDequeues
  <2>3. CASE ready(h)
    <3>1. handlers[h] \in AclQueueHandler
      BY <2>3, EntryFacts
    <3> HIDE DEF new
    <3> QED
      BY <2>1, <2>2, <2>3, <3>1, FlagFacts
  <2>4. CASE ~ready(h)
    <3> HIDE DEF new
    <3> QED
      BY <2>1, <2>2, <2>4
  <2> QED
    BY <2>3, <2>4
<1>2. new = [h \in Handles |-> new[h]]
  BY DEF RegisterDequeues
<1> HIDE DEF new, ready
<1>3. new \in Handlers
  BY <1>1, <1>2 DEF Handlers
<1>4. SameBooks(new, handlers)
  BY <1>1, <1>3, SameBooksWhen
<1> QED
  BY <1>1, <1>3, <1>4 DEF new

\* What start_round_robin does: it registers callbacks and moves the starting point.
LEMMA StartFacts ==
  ASSUME NEW handlers \in Handlers, NEW fragments, NEW credits, NEW enqueue \in BOOLEAN, NEW start,
         Ready(handlers, fragments, credits, enqueue),
         start_round_robin(handlers, fragments, credits, enqueue, start)
  PROVE  /\ acl_queue_handlers_' \in Handlers
         /\ SameBooks(acl_queue_handlers_', handlers)
         /\ enqueue_registered_' \in BOOLEAN
         /\ Ready(acl_queue_handlers_', fragments, credits, enqueue_registered_')
         /\ starting_point_' = start \/ starting_point_' \in Registered(handlers) \cup {END}
<1> DEFINE idle == \/ \A type \in ConnectionType : BufferFull(credits, type)
                   \/ /\ ~IsEmpty(fragments)
                      /\ BufferFull(credits, Front(fragments).connection_type_)
                   \/ IsEmpty(fragments) /\ Registered(handlers) = {}
           first == IF Cardinality(Registered(handlers)) = 1 \/ start = END
                    THEN Begin(handlers) ELSE start
<1>1. SameBooks(handlers, handlers)
  BY DEF SameBooks
<1>2. CASE idle
  <2>1. acl_queue_handlers_' = handlers /\ enqueue_registered_' = enqueue /\ starting_point_' = start
    BY <1>2 DEF start_round_robin
  <2> QED
    BY <1>1, <2>1
<1>3. CASE ~idle /\ ~IsEmpty(fragments)
  <2>1. acl_queue_handlers_' = handlers /\ enqueue_registered_' = TRUE /\ starting_point_' = start
    BY <1>3 DEF start_round_robin
  <2>2. ~BufferFull(credits, Front(fragments).connection_type_)
    BY <1>3
  <2> QED
    BY <1>1, <1>3, <2>1, <2>2 DEF Ready
<1>4. CASE ~idle /\ IsEmpty(fragments)
  <2>1. /\ acl_queue_handlers_' = RegisterDequeues(handlers, credits)
        /\ enqueue_registered_' = enqueue
        /\ starting_point_' = After(handlers, first)
    BY <1>4 DEF start_round_robin
  <2> HIDE DEF first, idle
  <2>2. starting_point_' \in Registered(handlers) \cup {END}
    BY <2>1, IteratorValid
  <2>3. acl_queue_handlers_' \in Handlers /\ SameBooks(acl_queue_handlers_', handlers)
        /\ \A h \in Handles : acl_queue_handlers_'[h].dequeue_is_registered_ =>
             \/ handlers[h].dequeue_is_registered_
             \/ ~BufferFull(credits, handlers[h].connection_type_)
    BY <2>1, RegisterDequeuesFacts
  <2>4. \A h \in Handles : acl_queue_handlers_'[h].connection_type_ = handlers[h].connection_type_
    <3>1. \A h \in Handles : Types(acl_queue_handlers_')[h] = Types(handlers)[h]
      BY <2>3 DEF SameBooks
    <3> QED
      BY <3>1 DEF Types
  <2>5. Ready(acl_queue_handlers_', fragments, credits, enqueue_registered_')
    BY <1>4, <2>1, <2>3, <2>4 DEF Ready
  <2> QED
    BY <2>1, <2>2, <2>3, <2>5
<1> QED
  BY <1>2, <1>3, <1>4

-----------------------------------------------------------------------------
(* The fragments to send *)

Fragments == [Priorities -> Seq(Fragment)]

\* The first element of a sequence and the rest.
LEMMA TailFacts ==
  ASSUME NEW S, NEW s \in Seq(S), s # <<>>
  PROVE  /\ Tail(s) \in Seq(S) /\ Head(s) = s[1] /\ s[1] \in S
         /\ Len(s) \in Nat /\ Len(s) > 0 /\ Len(Tail(s)) = Len(s) - 1
         /\ \A n \in 1 .. Len(Tail(s)) : Tail(s)[n] = s[n + 1] /\ n + 1 \in 1 .. Len(s)
<1>1. Len(s) \in Nat /\ Len(s) # 0
  BY LenProperties, EmptySeq
<1>2. s[1] \in S
  BY <1>1, ElementOfSeq
<1>3. /\ Tail(s) \in Seq(S) /\ Head(s) = s[1] /\ Len(Tail(s)) = Len(s) - 1
      /\ \A n \in 1 .. Len(Tail(s)) : Tail(s)[n] = s[n + 1]
  BY HeadTailProperties
<1>4. \A n \in 1 .. Len(Tail(s)) : n + 1 \in 1 .. Len(s)
  BY <1>1, <1>3
<1> QED
  BY <1>1, <1>2, <1>3, <1>4

\* An element at the end of a sequence.
LEMMA AppendFacts ==
  ASSUME NEW S, NEW s \in Seq(S), NEW e \in S
  PROVE  /\ Append(s, e) \in Seq(S)
         /\ Len(Append(s, e)) = Len(s) + 1 /\ Len(s) \in Nat
         /\ \A n \in 1 .. Len(s) : Append(s, e)[n] = s[n]
         /\ Append(s, e)[Len(s) + 1] = e
BY AppendProperties, LenProperties

\* The queue that is not empty is the top one.
LEMMA PacketFront ==
  ASSUME NEW fragments \in Fragments, NEW p \in Priorities, NEW h, NEW type,
         PacketAt(fragments, p, h, type)
  PROVE  /\ ~IsEmpty(fragments) /\ Top(fragments) = p
         /\ Front(fragments) = fragments[p][1]
         /\ Front(fragments) \in Fragment
         /\ Front(fragments).handle_ = h
         /\ Front(fragments).connection_type_ = type
         /\ Size(fragments) = Len(fragments[p]) /\ Len(fragments[p]) \in Nat \ {0}
<1>1. fragments[0] \in Seq(Fragment) /\ fragments[1] \in Seq(Fragment)
  BY DEF Fragments, Priorities
<1>2. fragments[p] # <<>> /\ Pieces(fragments[p], h, type)
      /\ (p = 0 => fragments[1] = <<>>) /\ (p = 1 => fragments[0] = <<>>)
  BY DEF PacketAt, Priorities
<1>3. p = 0 \/ p = 1
  BY DEF Priorities
<1>4. fragments[p] \in Seq(Fragment)
  BY <1>1, <1>3
<1>5. /\ Head(fragments[p]) = fragments[p][1] /\ fragments[p][1] \in Fragment
      /\ Len(fragments[p]) \in Nat /\ Len(fragments[p]) > 0
  BY <1>2, <1>4, TailFacts
<1>6. ~IsEmpty(fragments)
  BY <1>2 DEF IsEmpty
<1>7. Top(fragments) = p /\ Size(fragments) = Len(fragments[p])
  <2>1. CASE p = 1
    <3>1. fragments[0] = <<>>
      BY <1>2, <2>1
    <3>2. Len(fragments[0]) = 0
      BY <3>1
    <3> QED
      BY <1>2, <1>5, <2>1, <3>2 DEF Top, Size
  <2>2. CASE p = 0
    <3>1. fragments[1] = <<>>
      BY <1>2, <2>2
    <3>2. Len(fragments[1]) = 0
      BY <3>1
    <3> QED
      BY <1>5, <2>2, <3>1, <3>2 DEF Top, Size
  <2> QED
    BY <1>3, <2>1, <2>2
<1>8. Front(fragments) = fragments[p][1]
  BY <1>5, <1>7 DEF Front
<1>9. fragments[p][1].handle_ = h /\ fragments[p][1].connection_type_ = type
  BY <1>2, <1>5 DEF Pieces
<1> QED
  BY <1>5, <1>6, <1>7, <1>8, <1>9

\* Both sides are one less.
LEMMA OneLess ==
  ASSUME NEW x \in Nat, NEW y \in Nat, NEW l \in Nat, NEW n \in Nat, x + l = y + (n + 1)
  PROVE  x + (l - 1) = y + n
OBVIOUS

\* Taking a fragment leaves the rest of the packet.
LEMMA PacketPop ==
  ASSUME NEW fragments \in Fragments, NEW p \in Priorities, NEW h, NEW type,
         PacketAt(fragments, p, h, type)
  PROVE  /\ Pop(fragments) \in Fragments
         /\ Size(Pop(fragments)) = Size(fragments) - 1
         /\ Pop(fragments)[p] = Tail(fragments[p])
         /\ \A q \in Priorities \ {p} : Pop(fragments)[q] = <<>>
         /\ ~IsEmpty(Pop(fragments)) => PacketAt(Pop(fragments), p, h, type)
<1> DEFINE s == fragments[p]
           rest == Pop(fragments)
<1>1. p \in {0, 1} /\ s \in Seq(Fragment) /\ s # <<>> /\ Pieces(s, h, type)
      /\ \A q \in Priorities \ {p} : fragments[q] = <<>>
  BY DEF Priorities, Fragments, PacketAt
<1>2. rest = [fragments EXCEPT ![p] = Tail(s)]
  BY PacketFront DEF Pop
<1>3. /\ Tail(s) \in Seq(Fragment) /\ Len(s) \in Nat /\ Len(s) > 0 /\ Len(Tail(s)) = Len(s) - 1
      /\ \A n \in 1 .. Len(Tail(s)) : Tail(s)[n] = s[n + 1] /\ n + 1 \in 1 .. Len(s)
  BY <1>1, TailFacts
<1> HIDE DEF s
<1>4. rest \in Fragments /\ rest[p] = Tail(s)
      /\ \A q \in Priorities \ {p} : rest[q] = <<>>
  BY <1>1, <1>2, <1>3 DEF Fragments, Priorities
<1>5. ASSUME NEW t \in Seq(Fragment), \A n \in 1 .. Len(t) : t[n] = s[n + 1] /\ n + 1 \in 1 .. Len(s),
             Len(t) = Len(s) - 1
      PROVE  Pieces(t, h, type)
  <2> SUFFICES ASSUME NEW n \in 1 .. Len(t)
               PROVE  /\ t[n].handle_ = h /\ t[n].connection_type_ = type
                      /\ t[n].packet = t[1].packet /\ t[n].of = t[1].of
                      /\ t[n].index + Len(t) = t[n].of + n
    BY DEF Pieces
  <2>1. t[n] = s[n + 1] /\ n + 1 \in 1 .. Len(s) /\ 1 \in 1 .. Len(t) /\ t[1] = s[2] /\ 2 \in 1 .. Len(s)
    <3>1. 1 \in 1 .. Len(t)
      BY <1>3, <1>5
    <3> QED
      BY <1>5, <3>1
  <2>2. s[n + 1] \in Fragment /\ s[2] \in Fragment
    BY <1>1, <2>1, ElementOfSeq
  <2>3. s[n + 1].index \in Nat /\ s[n + 1].of \in Nat
    BY <2>2 DEF Fragment
  <2>4. /\ s[n + 1].handle_ = h /\ s[n + 1].connection_type_ = type
        /\ s[n + 1].packet = s[1].packet /\ s[n + 1].of = s[1].of
        /\ s[2].packet = s[1].packet /\ s[2].of = s[1].of
        /\ s[n + 1].index + Len(s) = s[n + 1].of + (n + 1)
    BY <1>1, <2>1 DEF Pieces
  <2>5. s[n + 1].index + (Len(s) - 1) = s[n + 1].of + n
    <3>1. n \in Nat /\ Len(s) \in Nat
      BY <1>3, <1>5
    <3> DEFINE e == s[n + 1]
    <3>2. e.index \in Nat /\ e.of \in Nat /\ e.index + Len(s) = e.of + (n + 1)
      BY <2>3, <2>4
    <3> DEFINE x == e.index
               y == e.of
               l == Len(s)
    <3>3. x \in Nat /\ y \in Nat /\ l \in Nat /\ n \in Nat /\ x + l = y + (n + 1)
      BY <3>1, <3>2
    <3> HIDE DEF x, y, l
    <3>4. x + (l - 1) = y + n
      BY <3>3, OneLess, SMTT(30)
    <3> QED
      BY <3>4 DEF e, x, y, l
  <2> QED
    BY <1>5, <2>1, <2>4, <2>5
<1>6. Pieces(Tail(s), h, type)
  BY <1>3, <1>5
<1>7. Size(rest) = Size(fragments) - 1
  <2>1. Size(fragments) = Len(s)
    BY PacketFront DEF s
  <2>2. Len(<<>>) = 0 /\ Len(Tail(s)) \in Nat
    BY <1>3, LenProperties
  <2> HIDE DEF rest
  <2>3. CASE p = 0
    <3>1. rest[0] = Tail(s) /\ rest[1] = <<>>
      BY <1>4, <2>3 DEF Priorities
    <3>2. Size(rest) = Len(Tail(s)) + Len(<<>>)
      BY <3>1 DEF Size
    <3> QED
      BY <1>3, <2>1, <2>2, <3>2
  <2>4. CASE p = 1
    <3>1. rest[0] = <<>> /\ rest[1] = Tail(s)
      BY <1>4, <2>4 DEF Priorities
    <3>2. Size(rest) = Len(<<>>) + Len(Tail(s))
      BY <3>1 DEF Size
    <3> QED
      BY <1>3, <2>1, <2>2, <3>2
  <2> QED
    BY <1>1, <2>3, <2>4
<1>8. ~IsEmpty(rest) => PacketAt(rest, p, h, type)
  <2>1. ~IsEmpty(rest) => rest[p] # <<>>
    <3> HIDE DEF rest
    <3> QED
      BY <1>1, <1>4 DEF IsEmpty, Priorities
  <2> HIDE DEF rest
  <2> QED
    BY <1>4, <1>6, <2>1 DEF PacketAt
<1> QED
  BY <1>4, <1>7, <1>8 DEF s

\* Keeping everything, or nothing.
LEMMA SubsequenceFacts ==
  ASSUME NEW S, NEW s \in Seq(S)
  PROVE  Subsequence(s, {}) = <<>> /\ Subsequence(s, DOMAIN s) = s
<1>1. Subsequence(s, {}) = <<>>
  <2>1. Cardinality({}) = 0
    BY FS_EmptySet
  <2> QED
    BY <2>1 DEF Subsequence
<1>2. Subsequence(s, DOMAIN s) = s
  <2>1. DOMAIN s = 1 .. Len(s) /\ Len(s) \in Nat
    BY LenProperties
  <2> DEFINE D == 1 .. Len(s)
  <2>2. Cardinality(D) = Len(s)
    BY <2>1, FS_Interval
  <2>3. ASSUME NEW n \in D
        PROVE  (CHOOSE k \in D : Cardinality({j \in D : j <= k}) = n) = n
    <3>1. ASSUME NEW k \in D PROVE Cardinality({j \in D : j <= k}) = k
      <4> DEFINE E == {j \in D : j <= k}
      <4>1. E = 1 .. k
        BY <2>1
      <4>2. k \in Nat /\ k \in Int /\ 1 \in Int /\ ~(1 > k)
        BY <2>1
      <4>3. Cardinality(1 .. k) = k - 1 + 1
        BY <4>2, FS_Interval
      <4> HIDE DEF E, D
      <4>4. Cardinality(E) = k
        BY <4>1, <4>2, <4>3
      <4> QED
        BY <4>4 DEF E
    <3> QED
      BY <3>1
  <2>4. Subsequence(s, D) = [n \in D |-> s[n]]
    <3>1. Subsequence(s, D) =
            [n \in D |-> s[CHOOSE k \in D : Cardinality({j \in D : j <= k}) = n]]
      BY <2>2 DEF Subsequence
    <3> QED
      BY <2>3, <3>1
  <2>5. s = [n \in D |-> s[n]]
    BY <2>1
  <2> QED
    BY <2>1, <2>4, <2>5
<1> QED
  BY <1>1, <1>2

-----------------------------------------------------------------------------
(* The life of a connection *)

\* A task that is not the registration of h has run.
LEMMA LifeTail ==
  ASSUME NEW ts \in Seq(Task), ts # <<>>, NEW h, NEW registered, NEW type, NEW known, NEW handed,
         NEW count, NEW waiting, ~Is(Head(ts), "Register", h),
         Life(ts, h, registered, type, known, handed, count, waiting)
  PROVE  Life(Tail(ts), h, registered, type, known, handed, count, waiting)
<1> DEFINE us == Tail(ts)
<1>1. /\ Head(ts) = ts[1] /\ Len(ts) \in Nat /\ Len(ts) > 0 /\ Len(us) = Len(ts) - 1
      /\ \A n \in 1 .. Len(us) : us[n] = ts[n + 1] /\ n + 1 \in 1 .. Len(ts)
  BY TailFacts
<1>2. RegisterIsFirst(ts, h, registered, known, handed)
      /\ UnregisterIsLast(ts, h, registered, known)
      /\ LinkKnown(ts, h, registered, type, known, count, waiting)
  BY DEF Life
<1> HIDE DEF us
<1>3. \A n \in 1 .. Len(ts) : Is(ts[n], "Register", h) => n - 1 \in 1 .. Len(us) /\ us[n - 1] = ts[n]
  <2> SUFFICES ASSUME NEW n \in 1 .. Len(ts), Is(ts[n], "Register", h)
               PROVE  n - 1 \in 1 .. Len(us) /\ us[n - 1] = ts[n]
    OBVIOUS
  <2>1. n # 1
    BY <1>1
  <2>2. n - 1 \in 1 .. Len(us) /\ (n - 1) + 1 = n
    BY <1>1, <2>1
  <2> QED
    BY <1>1, <2>2
<1>4. RegisterIsFirst(us, h, registered, known, handed)
  <2> SUFFICES ASSUME NEW n \in 1 .. Len(us), Is(us[n], "Register", h)
               PROVE  /\ ~registered /\ ~handed /\ known \in {"down", us[n].type}
                      /\ \A m \in 1 .. Len(us) :
                           /\ m < n => ~About(us[m], h)
                           /\ m # n => ~Is(us[m], "Register", h)
                           /\ ~Is(us[m], "incoming_acl_credits", h)
    BY DEF RegisterIsFirst
  <2>1. us[n] = ts[n + 1] /\ n + 1 \in 1 .. Len(ts)
    BY <1>1
  <2>2. /\ ~registered /\ ~handed /\ known \in {"down", ts[n + 1].type}
        /\ \A m \in 1 .. Len(ts) :
             /\ m < n + 1 => ~About(ts[m], h)
             /\ m # n + 1 => ~Is(ts[m], "Register", h)
             /\ ~Is(ts[m], "incoming_acl_credits", h)
    BY <1>2, <2>1 DEF RegisterIsFirst
  <2>3. \A m \in 1 .. Len(us) : (m < n => m + 1 < n + 1) /\ (m # n => m + 1 # n + 1)
    BY <1>1
  <2> QED
    BY <1>1, <2>1, <2>2, <2>3
<1>5. UnregisterIsLast(us, h, registered, known)
  <2> SUFFICES ASSUME NEW n \in 1 .. Len(us), Is(us[n], "Unregister", h)
               PROVE  /\ known = "down"
                      /\ registered \/ \E m \in 1 .. Len(us) : m < n /\ Is(us[m], "Register", h)
                      /\ \A m \in 1 .. Len(us) : m > n => ~About(us[m], h)
    BY DEF UnregisterIsLast
  <2>1. us[n] = ts[n + 1] /\ n + 1 \in 1 .. Len(ts)
    BY <1>1
  <2>2. /\ known = "down"
        /\ registered \/ \E m \in 1 .. Len(ts) : m < n + 1 /\ Is(ts[m], "Register", h)
        /\ \A m \in 1 .. Len(ts) : m > n + 1 => ~About(ts[m], h)
    BY <1>2, <2>1 DEF UnregisterIsLast
  <2>3. ASSUME NEW m \in 1 .. Len(ts), m < n + 1, Is(ts[m], "Register", h)
        PROVE  \E k \in 1 .. Len(us) : k < n /\ Is(us[k], "Register", h)
    <3>1. m - 1 \in 1 .. Len(us) /\ us[m - 1] = ts[m]
      BY <1>3, <2>3
    <3>2. m - 1 < n
      BY <1>1, <2>3
    <3> QED
      BY <2>3, <3>1, <3>2
  <2>4. \A m \in 1 .. Len(us) : m > n => m + 1 > n + 1
    BY <1>1
  <2> QED
    BY <1>1, <2>2, <2>3, <2>4
<1>6. LinkKnown(us, h, registered, type, known, count, waiting)
  BY <1>2, <1>3 DEF LinkKnown
<1> QED
  BY <1>4, <1>5, <1>6 DEF Life, us

\* A task about something else, or, as a connection that is registered, a report, has
\* been posted.
LEMMA LifeAppend ==
  ASSUME NEW ts \in Seq(Task), NEW e \in Task, NEW h, NEW registered, NEW type, NEW known,
         NEW handed, NEW count, NEW waiting,
         ~About(e, h) \/ (registered /\ known # "down" /\ Is(e, "incoming_acl_credits", h)),
         Life(ts, h, registered, type, known, handed, count, waiting)
  PROVE  Life(Append(ts, e), h, registered, type, known, handed, count, waiting)
<1> DEFINE us == Append(ts, e)
           end == Len(ts) + 1
<1>1. /\ Len(ts) \in Nat /\ Len(us) = end /\ us[end] = e
      /\ \A n \in 1 .. Len(ts) : us[n] = ts[n] /\ n \in 1 .. end
      /\ \A n \in 1 .. end : n = end \/ n \in 1 .. Len(ts)
  BY AppendFacts
<1>2. RegisterIsFirst(ts, h, registered, known, handed)
      /\ UnregisterIsLast(ts, h, registered, known)
      /\ LinkKnown(ts, h, registered, type, known, count, waiting)
  BY DEF Life
<1> HIDE DEF us, end
<1>3. ~Is(e, "Register", h) /\ ~Is(e, "Unregister", h)
  BY DEF About, Is
<1>4. RegisterIsFirst(us, h, registered, known, handed)
  <2> SUFFICES ASSUME NEW n \in 1 .. end, Is(us[n], "Register", h)
               PROVE  /\ ~registered /\ ~handed /\ known \in {"down", us[n].type}
                      /\ \A m \in 1 .. end :
                           /\ m < n => ~About(us[m], h)
                           /\ m # n => ~Is(us[m], "Register", h)
                           /\ ~Is(us[m], "incoming_acl_credits", h)
    BY <1>1 DEF RegisterIsFirst
  <2>1. n \in 1 .. Len(ts) /\ us[n] = ts[n]
    BY <1>1, <1>3
  <2>2. /\ ~registered /\ ~handed /\ known \in {"down", ts[n].type}
        /\ \A m \in 1 .. Len(ts) :
             /\ m < n => ~About(ts[m], h)
             /\ m # n => ~Is(ts[m], "Register", h)
             /\ ~Is(ts[m], "incoming_acl_credits", h)
    BY <1>2, <2>1 DEF RegisterIsFirst
  <2>3. ~About(e, h)
    BY <2>2
  <2>4. ~Is(e, "incoming_acl_credits", h)
    BY <2>3 DEF Is, About
  <2> QED
    BY <1>1, <1>3, <2>1, <2>2, <2>3, <2>4
<1>5. UnregisterIsLast(us, h, registered, known)
  <2> SUFFICES ASSUME NEW n \in 1 .. end, Is(us[n], "Unregister", h)
               PROVE  /\ known = "down"
                      /\ registered \/ \E m \in 1 .. end : m < n /\ Is(us[m], "Register", h)
                      /\ \A m \in 1 .. end : m > n => ~About(us[m], h)
    BY <1>1 DEF UnregisterIsLast
  <2>1. n \in 1 .. Len(ts) /\ us[n] = ts[n]
    BY <1>1, <1>3
  <2>2. /\ known = "down"
        /\ registered \/ \E m \in 1 .. Len(ts) : m < n /\ Is(ts[m], "Register", h)
        /\ \A m \in 1 .. Len(ts) : m > n => ~About(ts[m], h)
    BY <1>2, <2>1 DEF UnregisterIsLast
  <2>3. ~About(e, h)
    BY <2>2
  <2> QED
    BY <1>1, <2>1, <2>2, <2>3
<1>6. LinkKnown(us, h, registered, type, known, count, waiting)
  BY <1>1, <1>2 DEF LinkKnown
<1> QED
  BY <1>4, <1>5, <1>6 DEF Life, us

\* A connection has been registered.
LEMMA LifeRegister ==
  ASSUME NEW ts \in Seq(Task), ts # <<>>, NEW h, NEW registered, NEW type, NEW known, NEW handed,
         NEW count, NEW waiting, Is(Head(ts), "Register", h),
         Life(ts, h, registered, type, known, handed, count, waiting)
  PROVE  /\ ~registered /\ ~handed
         /\ \A n \in 1 .. Len(ts) : ~Is(ts[n], "incoming_acl_credits", h)
         /\ Life(Tail(ts), h, TRUE, Head(ts).type, known, handed, count, waiting)
<1> DEFINE us == Tail(ts)
<1>1. /\ Head(ts) = ts[1] /\ Len(ts) \in Nat /\ Len(ts) > 0 /\ Len(us) = Len(ts) - 1
      /\ \A n \in 1 .. Len(us) : us[n] = ts[n + 1] /\ n + 1 \in 1 .. Len(ts)
  BY TailFacts
<1>2. RegisterIsFirst(ts, h, registered, known, handed)
      /\ UnregisterIsLast(ts, h, registered, known)
      /\ LinkKnown(ts, h, registered, type, known, count, waiting)
  BY DEF Life
<1> HIDE DEF us
<1>3. 1 \in 1 .. Len(ts) /\ \A n \in 1 .. Len(us) : n + 1 # 1
  BY <1>1
<1>4. /\ ~registered /\ ~handed /\ known \in {"down", Head(ts).type}
      /\ \A m \in 1 .. Len(ts) : /\ m # 1 => ~Is(ts[m], "Register", h)
                                 /\ ~Is(ts[m], "incoming_acl_credits", h)
  BY <1>1, <1>2, <1>3 DEF RegisterIsFirst
<1>5. RegisterIsFirst(us, h, TRUE, known, handed)
  BY <1>1, <1>3, <1>4 DEF RegisterIsFirst
<1>6. UnregisterIsLast(us, h, TRUE, known)
  <2> SUFFICES ASSUME NEW n \in 1 .. Len(us), Is(us[n], "Unregister", h)
               PROVE  known = "down" /\ \A m \in 1 .. Len(us) : m > n => ~About(us[m], h)
    BY DEF UnregisterIsLast
  <2>1. us[n] = ts[n + 1] /\ n + 1 \in 1 .. Len(ts)
    BY <1>1
  <2>2. known = "down" /\ \A m \in 1 .. Len(ts) : m > n + 1 => ~About(ts[m], h)
    BY <1>2, <2>1 DEF UnregisterIsLast
  <2>3. \A m \in 1 .. Len(us) : m > n => m + 1 > n + 1
    BY <1>1
  <2> QED
    BY <1>1, <2>2, <2>3
<1>7. LinkKnown(us, h, TRUE, Head(ts).type, known, count, waiting)
  BY <1>2, <1>4 DEF LinkKnown
<1> QED
  BY <1>4, <1>5, <1>6, <1>7 DEF Life, us

\* A connection has been unregistered.
LEMMA LifeUnregister ==
  ASSUME NEW ts \in Seq(Task), ts # <<>>, NEW h, NEW registered, NEW type, NEW known, NEW handed,
         NEW count, NEW waiting, Is(Head(ts), "Unregister", h),
         Life(ts, h, registered, type, known, handed, count, waiting), NEW newtype
  PROVE  /\ registered /\ known = "down" /\ ~(count > 0)
         /\ Life(Tail(ts), h, FALSE, newtype, known, handed, count, FALSE)
<1> DEFINE us == Tail(ts)
<1>1. /\ Head(ts) = ts[1] /\ Len(ts) \in Nat /\ Len(ts) > 0 /\ Len(us) = Len(ts) - 1
      /\ \A n \in 1 .. Len(us) : us[n] = ts[n + 1] /\ n + 1 \in 1 .. Len(ts)
  BY TailFacts
<1>2. RegisterIsFirst(ts, h, registered, known, handed)
      /\ UnregisterIsLast(ts, h, registered, known)
      /\ LinkKnown(ts, h, registered, type, known, count, waiting)
  BY DEF Life
<1> HIDE DEF us
<1>3. 1 \in 1 .. Len(ts) /\ (\A n \in 1 .. Len(us) : n + 1 > 1) /\ \A n \in 1 .. Len(ts) : ~(n < 1)
  BY <1>1
<1>4. registered /\ known = "down" /\ \A m \in 1 .. Len(ts) : m > 1 => ~About(ts[m], h)
  BY <1>1, <1>2, <1>3 DEF UnregisterIsLast
<1>5. ~(count > 0)
  BY <1>2, <1>4 DEF LinkKnown
<1>6. \A n \in 1 .. Len(us) : ~About(us[n], h)
  BY <1>1, <1>3, <1>4
<1>7. \A n \in 1 .. Len(us) : ~Is(us[n], "Register", h) /\ ~Is(us[n], "Unregister", h)
  BY <1>6 DEF About, Is
<1>8. Life(us, h, FALSE, newtype, known, handed, count, FALSE)
  BY <1>4, <1>5, <1>7 DEF Life, RegisterIsFirst, UnregisterIsLast, LinkKnown
<1> QED
  BY <1>4, <1>5, <1>8 DEF us

\* A link has come up.
LEMMA LifeConnect ==
  ASSUME NEW ts \in Seq(Task), NEW e \in Task, NEW h, NEW type, NEW count,
         Is(e, "Register", h), ~(count > 0),
         \A n \in 1 .. Len(ts) : ~About(ts[n], h)
  PROVE  Life(Append(ts, e), h, FALSE, type, e.type, FALSE, count, FALSE)
<1> DEFINE us == Append(ts, e)
           end == Len(ts) + 1
<1>1. /\ Len(ts) \in Nat /\ Len(us) = end /\ us[end] = e /\ end \in 1 .. end
      /\ \A n \in 1 .. Len(ts) : us[n] = ts[n]
      /\ \A n \in 1 .. end : n = end \/ n \in 1 .. Len(ts)
      /\ \A n \in 1 .. end : ~(n > end)
  BY AppendFacts
<1> HIDE DEF us, end
<1>2. \A n \in 1 .. end : n # end => ~About(us[n], h)
  BY <1>1
<1>3. \A n \in 1 .. end : n # end =>
        ~Is(us[n], "Register", h) /\ ~Is(us[n], "Unregister", h) /\ ~Is(us[n], "incoming_acl_credits", h)
  BY <1>2 DEF About, Is
<1>4. ~Is(e, "Unregister", h) /\ ~Is(e, "incoming_acl_credits", h)
  BY DEF Is
<1>5. RegisterIsFirst(us, h, FALSE, e.type, FALSE)
  <2> SUFFICES ASSUME NEW n \in 1 .. end, Is(us[n], "Register", h)
               PROVE  /\ e.type \in {"down", us[n].type}
                      /\ \A m \in 1 .. end :
                           /\ m < n => ~About(us[m], h)
                           /\ m # n => ~Is(us[m], "Register", h)
                           /\ ~Is(us[m], "incoming_acl_credits", h)
    BY <1>1 DEF RegisterIsFirst
  <2>1. n = end
    BY <1>3
  <2>2. ~(end < end)
    BY <1>1
  <2> QED
    BY <1>1, <1>2, <1>3, <1>4, <2>1, <2>2
<1>6. UnregisterIsLast(us, h, FALSE, e.type)
  <2>1. \A n \in 1 .. end : ~Is(us[n], "Unregister", h)
    BY <1>1, <1>3, <1>4
  <2> QED
    BY <1>1, <2>1 DEF UnregisterIsLast
<1>7. LinkKnown(us, h, FALSE, type, e.type, count, FALSE)
  BY <1>1 DEF LinkKnown
<1> QED
  BY <1>5, <1>6, <1>7 DEF Life, us

\* A link has gone down.
LEMMA LifeDisconnect ==
  ASSUME NEW ts \in Seq(Task), NEW e \in Task, NEW h, NEW registered, NEW type, NEW known, NEW handed,
         NEW count, NEW waiting, Is(e, "Unregister", h), known # "down",
         Life(ts, h, registered, type, known, handed, count, waiting)
  PROVE  Life(Append(ts, e), h, registered, type, "down", handed, 0, waiting)
<1> DEFINE us == Append(ts, e)
           end == Len(ts) + 1
<1>1. /\ Len(ts) \in Nat /\ Len(us) = end /\ us[end] = e /\ end \in 1 .. end
      /\ \A n \in 1 .. Len(ts) : us[n] = ts[n] /\ n \in 1 .. end /\ n < end
      /\ \A n \in 1 .. end : n = end \/ n \in 1 .. Len(ts)
      /\ \A n \in 1 .. end : ~(n > end)
  BY AppendFacts
<1>2. RegisterIsFirst(ts, h, registered, known, handed)
      /\ UnregisterIsLast(ts, h, registered, known)
      /\ LinkKnown(ts, h, registered, type, known, count, waiting)
  BY DEF Life
<1> HIDE DEF us, end
<1>3. ~Is(e, "Register", h) /\ ~Is(e, "incoming_acl_credits", h)
  BY DEF Is
<1>4. \A n \in 1 .. Len(ts) : ~Is(ts[n], "Unregister", h)
  BY <1>2 DEF UnregisterIsLast
<1>5. registered \/ \E n \in 1 .. Len(ts) : Is(ts[n], "Register", h)
  BY <1>2 DEF LinkKnown
<1>6. RegisterIsFirst(us, h, registered, "down", handed)
  <2> SUFFICES ASSUME NEW n \in 1 .. end, Is(us[n], "Register", h)
               PROVE  /\ ~registered /\ ~handed
                      /\ \A m \in 1 .. end :
                           /\ m < n => ~About(us[m], h)
                           /\ m # n => ~Is(us[m], "Register", h)
                           /\ ~Is(us[m], "incoming_acl_credits", h)
    BY <1>1 DEF RegisterIsFirst
  <2>1. n \in 1 .. Len(ts) /\ us[n] = ts[n] /\ n < end
    BY <1>1, <1>3
  <2>2. /\ ~registered /\ ~handed
        /\ \A m \in 1 .. Len(ts) :
             /\ m < n => ~About(ts[m], h)
             /\ m # n => ~Is(ts[m], "Register", h)
             /\ ~Is(ts[m], "incoming_acl_credits", h)
    BY <1>2, <2>1 DEF RegisterIsFirst
  <2>3. ~(end < n)
    BY <1>1, <2>1
  <2> QED
    BY <1>1, <1>3, <2>1, <2>2, <2>3
<1>7. UnregisterIsLast(us, h, registered, "down")
  <2> SUFFICES ASSUME NEW n \in 1 .. end, Is(us[n], "Unregister", h)
               PROVE  /\ registered \/ \E m \in 1 .. end : m < n /\ Is(us[m], "Register", h)
                      /\ \A m \in 1 .. end : m > n => ~About(us[m], h)
    BY <1>1 DEF UnregisterIsLast
  <2>1. n = end
    BY <1>1, <1>4
  <2> QED
    BY <1>1, <1>5, <2>1
<1>8. LinkKnown(us, h, registered, type, "down", 0, waiting)
  BY <1>2 DEF LinkKnown
<1> QED
  BY <1>6, <1>7, <1>8 DEF Life, us

\* A registered connection gets fragments into the HCI queue, packets into its queue or,
\* when its link is up, fragments into the controller's buffers.
LEMMA LifeRegistered ==
  ASSUME NEW ts, NEW h, NEW registered, NEW type, NEW known, NEW handed, NEW count, NEW waiting,
         Life(ts, h, registered, type, known, handed, count, waiting), registered,
         NEW newhanded, NEW newcount, NEW newwaiting,
         newcount > 0 => count > 0 \/ known # "down"
  PROVE  Life(ts, h, registered, type, known, newhanded, newcount, newwaiting)
BY DEF Life, RegisterIsFirst, UnregisterIsLast, LinkKnown

\* What leaves the HCI queue or the queue of a connection changes nothing.
LEMMA LifeLess ==
  ASSUME NEW ts, NEW h, NEW registered, NEW type, NEW known, NEW handed, NEW count, NEW waiting,
         Life(ts, h, registered, type, known, handed, count, waiting),
         NEW newhanded, newhanded => handed, NEW newwaiting, newwaiting => waiting
  PROVE  Life(ts, h, registered, type, known, newhanded, count, newwaiting)
BY DEF Life, RegisterIsFirst, UnregisterIsLast, LinkKnown

\* Fragments in the HCI queue for a link that is up belong to a registered connection.
LEMMA LifeHanded ==
  ASSUME NEW ts, NEW h, NEW registered, NEW type, NEW known, NEW handed, NEW count, NEW waiting,
         Life(ts, h, registered, type, known, handed, count, waiting),
         handed, known # "down"
  PROVE  registered /\ type = known
BY DEF Life, RegisterIsFirst, LinkKnown

-----------------------------------------------------------------------------
(* What a connection has on its way *)

\* What the first task or fragment stands for.
Reports(task, h) == IF Is(task, "incoming_acl_credits", h) THEN task.credits ELSE 0
Counts1(fragment, h) == IF fragment.handle_ = h THEN 1 ELSE 0

\* A task stands for a number of completed fragments.
LEMMA ReportsType ==
  ASSUME NEW task \in Task, NEW h
  PROVE  Reports(task, h) \in Nat
<1>1. task.run = "incoming_acl_credits" => task.credits \in Nat
  BY DEF Task
<1> QED
  BY <1>1 DEF Reports, Is

\* What is left of the completed fragments without the first task.
CompletedAfter(ts, h, total) ==
  \E t \in Nat : /\ AddUp(Completed(Tail(ts), h), Len(Tail(ts)), t)
                 /\ total = Reports(Head(ts), h) + t

\* The completed fragments after a task has run.
LEMMA CompletedTail ==
  ASSUME NEW ts \in Seq(Task), ts # <<>>, NEW h, NEW total \in Nat,
         AddUp(Completed(ts, h), Len(ts), total)
  PROVE  CompletedAfter(ts, h, total)
<1> DEFINE us == Tail(ts)
           values == Completed(ts, h)
           rest == Completed(us, h)
<1>1. /\ Head(ts) = ts[1] /\ ts[1] \in Task /\ Len(ts) \in Nat /\ Len(ts) > 0 /\ Len(us) = Len(ts) - 1
      /\ \A n \in 1 .. Len(us) : us[n] = ts[n + 1] /\ n + 1 \in 1 .. Len(ts)
  BY TailFacts
<1>2. \A n \in 1 .. Len(ts) : values[n] = Reports(ts[n], h)
  BY DEF Completed, Reports
<1>3. \A n \in 1 .. Len(us) : rest[n] = Reports(us[n], h)
  BY DEF Completed, Reports
<1> HIDE DEF us, values, rest
<1>4. values[1] = Reports(Head(ts), h) /\ values[1] \in Nat
  BY <1>1, <1>2, ReportsType
<1>5. \A n \in 1 .. Len(ts) - 1 : rest[n] = values[n + 1]
  BY <1>1, <1>2, <1>3
<1>6. AddUp(values, Len(ts), total)
  BY DEF values
<1>7. \E t \in Nat : AddUp(rest, Len(us), t) /\ total = values[1] + t
  <2>1. Len(us) \in Nat /\ Len(ts) = Len(us) + 1
    BY <1>1
  <2>2. AddUp(values, Len(us) + 1, total) /\ \A n \in 1 .. Len(us) : rest[n] = values[n + 1]
    BY <1>1, <1>5, <1>6, <2>1
  <2>3. AddUpAfter(values, rest, Len(us), total)
    BY <1>4, <2>1, <2>2, AddUpTail
  <2> QED
    BY <2>3 DEF AddUpAfter
<1> QED
  BY <1>1, <1>4, <1>7 DEF us, rest, CompletedAfter

\* The completed fragments after a task has been posted.
LEMMA CompletedAppend ==
  ASSUME NEW ts \in Seq(Task), NEW e \in Task, NEW h, NEW total \in Nat,
         AddUp(Completed(ts, h), Len(ts), total)
  PROVE  AddUp(Completed(Append(ts, e), h), Len(Append(ts, e)), total + Reports(e, h))
<1> DEFINE us == Append(ts, e)
           values == Completed(ts, h)
           more == Completed(us, h)
<1>1. /\ Len(ts) \in Nat /\ Len(us) = Len(ts) + 1 /\ us[Len(ts) + 1] = e
      /\ \A n \in 1 .. Len(ts) : us[n] = ts[n] /\ n \in 1 .. Len(us)
      /\ Len(ts) + 1 \in 1 .. Len(us)
  BY AppendFacts
<1>2. \A n \in 1 .. Len(ts) : values[n] = Reports(ts[n], h)
  BY DEF Completed, Reports
<1>3. \A n \in 1 .. Len(us) : more[n] = Reports(us[n], h)
  BY DEF Completed, Reports
<1>4. \A n \in 1 .. Len(ts) : ts[n] \in Task
  BY ElementOfSeq
<1> HIDE DEF us, values, more
<1>5. \A n \in 1 .. Len(ts) : more[n] = values[n] /\ values[n] \in Nat
  BY <1>1, <1>2, <1>3, <1>4, ReportsType
<1>6. more[Len(ts) + 1] = Reports(e, h) /\ Reports(e, h) \in Nat
  BY <1>1, <1>3, ReportsType
<1>7. AddUp(values, Len(ts), total)
  BY DEF values
<1>8. AddUp(more, Len(ts) + 1, total + more[Len(ts) + 1])
  BY <1>1, <1>5, <1>6, <1>7, AddUpAppend
<1> QED
  BY <1>1, <1>6, <1>8 DEF us, more

\* What is left in the HCI queue without the first fragment.
HandedAfter(q, h, total) ==
  \E t \in Nat : /\ AddUp(Handed(Tail(q), h), Len(Tail(q)), t)
                 /\ total = Counts1(Head(q), h) + t

\* The fragments in the HCI queue after one has left.
LEMMA HandedTail ==
  ASSUME NEW q \in Seq(Fragment), q # <<>>, NEW h, NEW total \in Nat,
         AddUp(Handed(q, h), Len(q), total)
  PROVE  HandedAfter(q, h, total)
<1> DEFINE us == Tail(q)
           values == Handed(q, h)
           rest == Handed(us, h)
<1>1. /\ Head(q) = q[1] /\ Len(q) \in Nat /\ Len(q) > 0 /\ Len(us) = Len(q) - 1
      /\ \A n \in 1 .. Len(us) : us[n] = q[n + 1] /\ n + 1 \in 1 .. Len(q)
  BY TailFacts
<1>2. \A n \in 1 .. Len(q) : values[n] = Counts1(q[n], h)
  BY DEF Handed, Counts1
<1>3. \A n \in 1 .. Len(us) : rest[n] = Counts1(us[n], h)
  BY DEF Handed, Counts1
<1> HIDE DEF us, values, rest
<1>4. values[1] = Counts1(Head(q), h) /\ values[1] \in Nat
  BY <1>1, <1>2 DEF Counts1
<1>5. \A n \in 1 .. Len(q) - 1 : rest[n] = values[n + 1]
  BY <1>1, <1>2, <1>3
<1>6. AddUp(values, Len(q), total)
  BY DEF values
<1>7. \E t \in Nat : AddUp(rest, Len(us), t) /\ total = values[1] + t
  <2>1. Len(us) \in Nat /\ Len(q) = Len(us) + 1
    BY <1>1
  <2>2. AddUp(values, Len(us) + 1, total) /\ \A n \in 1 .. Len(us) : rest[n] = values[n + 1]
    BY <1>1, <1>5, <1>6, <2>1
  <2>3. AddUpAfter(values, rest, Len(us), total)
    BY <1>4, <2>1, <2>2, AddUpTail
  <2> QED
    BY <2>3 DEF AddUpAfter
<1> QED
  BY <1>1, <1>4, <1>7 DEF us, rest, HandedAfter

\* The fragments in the HCI queue after one has been handed down.
LEMMA HandedAppend ==
  ASSUME NEW q \in Seq(Fragment), NEW e \in Fragment, NEW h, NEW total \in Nat,
         AddUp(Handed(q, h), Len(q), total)
  PROVE  AddUp(Handed(Append(q, e), h), Len(Append(q, e)), total + Counts1(e, h))
<1> DEFINE us == Append(q, e)
           values == Handed(q, h)
           more == Handed(us, h)
<1>1. /\ Len(q) \in Nat /\ Len(us) = Len(q) + 1 /\ us[Len(q) + 1] = e
      /\ \A n \in 1 .. Len(q) : us[n] = q[n] /\ n \in 1 .. Len(us)
      /\ Len(q) + 1 \in 1 .. Len(us)
  BY AppendFacts
<1>2. \A n \in 1 .. Len(q) : values[n] = Counts1(q[n], h)
  BY DEF Handed, Counts1
<1>3. \A n \in 1 .. Len(us) : more[n] = Counts1(us[n], h)
  BY DEF Handed, Counts1
<1> HIDE DEF us, values, more
<1>4. \A n \in 1 .. Len(q) : more[n] = values[n] /\ values[n] \in Nat
  BY <1>1, <1>2, <1>3 DEF Counts1
<1>5. more[Len(q) + 1] = Counts1(e, h) /\ Counts1(e, h) \in Nat
  BY <1>1, <1>3 DEF Counts1
<1>6. AddUp(values, Len(q), total)
  BY DEF values
<1>7. AddUp(more, Len(q) + 1, total + more[Len(q) + 1])
  BY <1>1, <1>4, <1>5, <1>6, AddUpAppend
<1> QED
  BY <1>1, <1>5, <1>7 DEF us, more

\* A task has run: what it reported may be taken off the count.
LEMMA CoveredRun ==
  ASSUME NEW ts \in Seq(Task), ts # <<>>, NEW q, NEW h, NEW waiting \in Nat, NEW count \in Nat,
         NEW sent \in Nat, Covered(ts, q, h, waiting, count, sent)
  PROVE  /\ waiting + count + Reports(Head(ts), h) <= sent
         /\ Reports(Head(ts), h) \in Nat
         /\ \A s \in Nat : sent <= s + Reports(Head(ts), h) =>
              Covered(Tail(ts), q, h, waiting, count, s)
<1>1. PICK handed \in Nat, completed \in Nat :
        /\ AddUp(Handed(q, h), Len(q), handed)
        /\ AddUp(Completed(ts, h), Len(ts), completed)
        /\ waiting + handed + count + completed <= sent
  BY DEF Covered
<1>2. PICK t \in Nat : /\ AddUp(Completed(Tail(ts), h), Len(Tail(ts)), t)
                       /\ completed = Reports(Head(ts), h) + t
  <2>1. AddUp(Completed(ts, h), Len(ts), completed)
    BY <1>1
  <2>2. CompletedAfter(ts, h, completed)
    BY <2>1, CompletedTail
  <2> QED
    BY <2>2 DEF CompletedAfter
<1> DEFINE r == Reports(Head(ts), h)
<1>3. Head(ts) \in Task
  BY TailFacts
<1>4. r \in Nat /\ completed = r + t /\ waiting + handed + count + completed <= sent
  BY <1>1, <1>2, <1>3, ReportsType
<1> HIDE DEF r
<1>5. waiting + count + r <= sent
  BY <1>4
<1>6. ASSUME NEW s \in Nat, sent <= s + r
      PROVE  Covered(Tail(ts), q, h, waiting, count, s)
  <2>1. waiting + handed + count + t <= s
    BY <1>4, <1>6
  <2> QED
    BY <1>1, <1>2, <2>1 DEF Covered
<1> QED
  BY <1>4, <1>5, <1>6 DEF r

\* A task has been posted: what it reports comes from the controller's buffers.
LEMMA CoveredPost ==
  ASSUME NEW ts \in Seq(Task), NEW e \in Task, NEW q, NEW h, NEW waiting \in Nat, NEW count \in Nat,
         NEW sent \in Nat, Covered(ts, q, h, waiting, count, sent),
         NEW rest \in Nat, rest + Reports(e, h) <= count
  PROVE  Covered(Append(ts, e), q, h, waiting, rest, sent)
<1>1. PICK handed \in Nat, completed \in Nat :
        /\ AddUp(Handed(q, h), Len(q), handed)
        /\ AddUp(Completed(ts, h), Len(ts), completed)
        /\ waiting + handed + count + completed <= sent
  BY DEF Covered
<1>2. Reports(e, h) \in Nat
  BY ReportsType
<1>3. AddUp(Completed(Append(ts, e), h), Len(Append(ts, e)), completed + Reports(e, h))
  BY <1>1, CompletedAppend
<1> DEFINE r == Reports(e, h)
<1>4. r \in Nat /\ rest + r <= count /\ waiting + handed + count + completed <= sent
  BY <1>1, <1>2
<1> HIDE DEF r
<1>5. waiting + handed + rest + (completed + r) <= sent /\ completed + r \in Nat
  BY <1>4
<1> QED
  BY <1>1, <1>3, <1>5 DEF Covered, r

\* A fragment has been handed down: it does not wait any more.
LEMMA CoveredHand ==
  ASSUME NEW ts, NEW q \in Seq(Fragment), NEW e \in Fragment, NEW h, NEW waiting \in Nat,
         NEW count \in Nat, NEW sent \in Nat, Covered(ts, q, h, waiting, count, sent),
         NEW rest \in Nat, rest + Counts1(e, h) <= waiting
  PROVE  Covered(ts, Append(q, e), h, rest, count, sent)
<1>1. PICK handed \in Nat, completed \in Nat :
        /\ AddUp(Handed(q, h), Len(q), handed)
        /\ AddUp(Completed(ts, h), Len(ts), completed)
        /\ waiting + handed + count + completed <= sent
  BY DEF Covered
<1>2. Counts1(e, h) \in Nat
  BY DEF Counts1
<1>3. AddUp(Handed(Append(q, e), h), Len(Append(q, e)), handed + Counts1(e, h))
  BY <1>1, HandedAppend
<1> DEFINE r == Counts1(e, h)
<1>4. r \in Nat /\ rest + r <= waiting /\ waiting + handed + count + completed <= sent
  BY <1>1, <1>2
<1> HIDE DEF r
<1>5. rest + (handed + r) + count + completed <= sent /\ handed + r \in Nat
  BY <1>4
<1> QED
  BY <1>1, <1>3, <1>5 DEF Covered, r

\* The controller has got a fragment, and may have accepted it.
LEMMA CoveredTake ==
  ASSUME NEW ts, NEW q \in Seq(Fragment), q # <<>>, NEW h, NEW waiting \in Nat,
         NEW count \in Nat, NEW sent \in Nat, Covered(ts, q, h, waiting, count, sent),
         NEW more \in Nat, more <= count + Counts1(Head(q), h)
  PROVE  Covered(ts, Tail(q), h, waiting, more, sent)
<1>1. PICK handed \in Nat, completed \in Nat :
        /\ AddUp(Handed(q, h), Len(q), handed)
        /\ AddUp(Completed(ts, h), Len(ts), completed)
        /\ waiting + handed + count + completed <= sent
  BY DEF Covered
<1>2. Counts1(Head(q), h) \in Nat
  BY DEF Counts1
<1>3. PICK t \in Nat : /\ AddUp(Handed(Tail(q), h), Len(Tail(q)), t)
                       /\ handed = Counts1(Head(q), h) + t
  <2>1. AddUp(Handed(q, h), Len(q), handed)
    BY <1>1
  <2>2. HandedAfter(q, h, handed)
    BY <2>1, HandedTail
  <2> QED
    BY <2>2 DEF HandedAfter
<1> DEFINE r == Counts1(Head(q), h)
<1>4. /\ r \in Nat /\ handed = r + t /\ more <= count + r
      /\ waiting + handed + count + completed <= sent
  BY <1>1, <1>2, <1>3
<1> HIDE DEF r
<1>5. waiting + t + more + completed <= sent
  BY <1>4
<1> QED
  BY <1>1, <1>3, <1>5 DEF Covered

\* What waits, what the controller has and what is counted change together.
LEMMA CoveredMore ==
  ASSUME NEW ts, NEW q, NEW h, NEW waiting \in Nat, NEW count \in Nat, NEW sent \in Nat,
         Covered(ts, q, h, waiting, count, sent),
         NEW w \in Nat, NEW c \in Nat, NEW s \in Nat, w + c + sent <= waiting + count + s
  PROVE  Covered(ts, q, h, w, c, s)
<1>1. PICK handed \in Nat, completed \in Nat :
        /\ AddUp(Handed(q, h), Len(q), handed)
        /\ AddUp(Completed(ts, h), Len(ts), completed)
        /\ waiting + handed + count + completed <= sent
  BY DEF Covered
<1>2. w + handed + c + completed <= s
  BY <1>1
<1> QED
  BY <1>1, <1>2 DEF Covered

\* A new connection has nothing on its way.
LEMMA CoveredNew ==
  ASSUME NEW ts \in Seq(Task), NEW q \in Seq(Fragment), NEW h, Own(q, h) = {},
         \A n \in 1 .. Len(ts) : ~Is(ts[n], "incoming_acl_credits", h), NEW sent \in Nat
  PROVE  Covered(ts, q, h, 0, 0, sent)
<1>1. Len(ts) \in Nat /\ Len(q) \in Nat /\ DOMAIN q = 1 .. Len(q)
  BY LenProperties
<1>2. \A n \in 1 .. Len(q) : Handed(q, h)[n] = 0
  BY <1>1 DEF Handed, Own
<1>3. \A n \in 1 .. Len(ts) : Completed(ts, h)[n] = 0
  BY DEF Completed
<1>4. AddUp(Handed(q, h), Len(q), 0) /\ AddUp(Completed(ts, h), Len(ts), 0)
  BY <1>1, <1>2, <1>3, AddUpZero
<1>5. 0 + 0 + 0 + 0 <= sent
  OBVIOUS
<1> QED
  BY <1>4, <1>5 DEF Covered

-----------------------------------------------------------------------------
(* The order of the fragments *)

\* Only one of the queues of fragments is not empty.
LEMMA PathFacts ==
  ASSUME NEW q \in Seq(Fragment), NEW fragments \in Fragments
  PROVE  /\ PathOf(q, fragments) \in Seq(Fragment)
         /\ IsEmpty(fragments) => PathOf(q, fragments) = q
         /\ \A p \in Priorities : (\A r \in Priorities \ {p} : fragments[r] = <<>>) =>
              PathOf(q, fragments) = q \o fragments[p]
<1>1. fragments[0] \in Seq(Fragment) /\ fragments[1] \in Seq(Fragment)
  BY DEF Fragments, Priorities
<1>2. q \o <<>> = q /\ \A s \in Seq(Fragment) : q \o s \in Seq(Fragment) /\ (q \o s) \o <<>> = q \o s
  BY ConcatEmptySeq, ConcatProperties
<1>3. PathOf(q, fragments) \in Seq(Fragment)
  BY <1>1, <1>2, ConcatProperties DEF PathOf
<1>4. ASSUME NEW p \in Priorities, \A r \in Priorities \ {p} : fragments[r] = <<>>
      PROVE  PathOf(q, fragments) = q \o fragments[p]
  <2>1. CASE p = 0
    <3>1. fragments[1] = <<>>
      BY <1>4, <2>1 DEF Priorities
    <3> QED
      BY <1>1, <1>2, <2>1, <3>1 DEF PathOf
  <2>2. CASE p = 1
    <3>1. fragments[0] = <<>>
      BY <1>4, <2>2 DEF Priorities
    <3> QED
      BY <1>1, <1>2, <2>2, <3>1 DEF PathOf
  <2> QED
    BY <2>1, <2>2 DEF Priorities
<1>5. IsEmpty(fragments) => PathOf(q, fragments) = q
  BY <1>2, <1>4 DEF IsEmpty, Priorities
<1> QED
  BY <1>3, <1>4, <1>5

\* Elements of a concatenation.
LEMMA ConcatFacts ==
  ASSUME NEW S, NEW s \in Seq(S), NEW t \in Seq(S)
  PROVE  /\ s \o t \in Seq(S)
         /\ Len(s) \in Nat /\ Len(t) \in Nat /\ Len(s \o t) = Len(s) + Len(t)
         /\ \A n \in 1 .. Len(s) : (s \o t)[n] = s[n]
         /\ \A n \in 1 .. Len(t) : (s \o t)[Len(s) + n] = t[n]
<1>1. Len(s) \in Nat /\ Len(t) \in Nat
  BY LenProperties
<1>2. /\ s \o t \in Seq(S) /\ Len(s \o t) = Len(s) + Len(t)
      /\ \A n \in 1 .. Len(s) + Len(t) : (s \o t)[n] = IF n <= Len(s) THEN s[n] ELSE t[n - Len(s)]
  BY ConcatProperties
<1>3. ASSUME NEW n \in 1 .. Len(s) PROVE (s \o t)[n] = s[n]
  <2>1. n \in 1 .. Len(s) + Len(t) /\ n <= Len(s)
    BY <1>1
  <2> QED
    BY <1>2, <2>1
<1>4. ASSUME NEW n \in 1 .. Len(t) PROVE (s \o t)[Len(s) + n] = t[n]
  <2>1. Len(s) + n \in 1 .. Len(s) + Len(t) /\ ~(Len(s) + n <= Len(s)) /\ (Len(s) + n) - Len(s) = n
    BY <1>1
  <2> QED
    BY <1>2, <2>1
<1> QED
  BY <1>1, <1>2, <1>3, <1>4

\* A fragment moves from one sequence to the other.
LEMMA MoveFacts ==
  ASSUME NEW S, NEW s \in Seq(S), NEW t \in Seq(S), t # <<>>
  PROVE  Append(s, Head(t)) \o Tail(t) = s \o t
<1> DEFINE u == Append(s, Head(t))
           v == Tail(t)
<1>1. /\ v \in Seq(S) /\ Head(t) = t[1] /\ t[1] \in S /\ Len(t) \in Nat /\ Len(t) > 0
      /\ Len(v) = Len(t) - 1
      /\ \A n \in 1 .. Len(v) : v[n] = t[n + 1] /\ n + 1 \in 1 .. Len(t)
  BY TailFacts
<1>2. /\ u \in Seq(S) /\ Len(u) = Len(s) + 1 /\ Len(s) \in Nat
      /\ \A n \in 1 .. Len(s) : u[n] = s[n]
      /\ u[Len(s) + 1] = t[1]
  BY <1>1, AppendFacts
<1> HIDE DEF u, v
<1>3. /\ u \o v \in Seq(S) /\ Len(u \o v) = Len(u) + Len(v)
      /\ \A n \in 1 .. Len(u) : (u \o v)[n] = u[n]
      /\ \A n \in 1 .. Len(v) : (u \o v)[Len(u) + n] = v[n]
  <2>1. u \in Seq(S) /\ v \in Seq(S)
    BY <1>1, <1>2
  <2> QED
    BY <2>1, ConcatFacts
<1>4. /\ s \o t \in Seq(S) /\ Len(s \o t) = Len(s) + Len(t)
      /\ \A n \in 1 .. Len(s) : (s \o t)[n] = s[n]
      /\ \A n \in 1 .. Len(t) : (s \o t)[Len(s) + n] = t[n]
  BY ConcatFacts
<1>5. Len(u \o v) = Len(s \o t)
  BY <1>1, <1>2, <1>3, <1>4
<1>6. ASSUME NEW n \in 1 .. Len(u \o v)
      PROVE  (u \o v)[n] = (s \o t)[n]
  <2>1. CASE n \in 1 .. Len(s)
    <3>1. n \in 1 .. Len(u)
      BY <1>2, <2>1
    <3> QED
      BY <1>2, <1>3, <1>4, <2>1, <3>1
  <2>2. CASE n = Len(s) + 1
    <3>1. n \in 1 .. Len(u) /\ 1 \in 1 .. Len(t)
      BY <1>1, <1>2, <2>2
    <3>2. (u \o v)[n] = t[1]
      BY <1>2, <1>3, <2>2, <3>1
    <3>3. (s \o t)[Len(s) + 1] = t[1]
      BY <1>4, <3>1
    <3> QED
      BY <2>2, <3>2, <3>3
  <2>3. CASE n > Len(s) + 1
    <3> DEFINE k == n - Len(u)
    <3>1. k \in 1 .. Len(v) /\ n = Len(u) + k /\ n = Len(s) + (k + 1)
      BY <1>1, <1>2, <1>3, <2>3
    <3> HIDE DEF k
    <3>2. (u \o v)[n] = v[k] /\ v[k] = t[k + 1] /\ k + 1 \in 1 .. Len(t)
      BY <1>1, <1>3, <3>1
    <3>3. (s \o t)[n] = t[k + 1]
      BY <1>4, <3>1, <3>2
    <3> QED
      BY <3>2, <3>3
  <2> QED
    BY <1>1, <1>2, <1>3, <2>1, <2>2, <2>3
<1>7. u \o v = s \o t
  BY <1>3, <1>4, <1>5, <1>6, SeqEqual
<1> QED
  BY <1>7 DEF u, v

\* The first element leaves the first sequence.
LEMMA TailConcat ==
  ASSUME NEW S, NEW s \in Seq(S), NEW t \in Seq(S), s # <<>>
  PROVE  Tail(s) \o t = Tail(s \o t) /\ s \o t # <<>> /\ (s \o t)[1] = s[1]
<1> DEFINE v == Tail(s)
           w == s \o t
<1>1. /\ v \in Seq(S) /\ Len(s) \in Nat /\ Len(s) > 0 /\ Len(v) = Len(s) - 1
      /\ \A n \in 1 .. Len(v) : v[n] = s[n + 1] /\ n + 1 \in 1 .. Len(s)
  BY TailFacts
<1>2. /\ w \in Seq(S) /\ Len(t) \in Nat /\ Len(w) = Len(s) + Len(t)
      /\ \A n \in 1 .. Len(s) : w[n] = s[n]
      /\ \A n \in 1 .. Len(t) : w[Len(s) + n] = t[n]
  BY ConcatFacts
<1>3. w # <<>> /\ w[1] = s[1]
  <2>1. Len(w) # 0 /\ 1 \in 1 .. Len(s)
    BY <1>1, <1>2
  <2> QED
    BY <1>2, <2>1, EmptySeq
<1> HIDE DEF v, w
<1>4. /\ Tail(w) \in Seq(S) /\ Len(Tail(w)) = Len(w) - 1
      /\ \A n \in 1 .. Len(Tail(w)) : Tail(w)[n] = w[n + 1]
  BY <1>2, <1>3, TailFacts
<1>5. /\ v \o t \in Seq(S) /\ Len(v \o t) = Len(v) + Len(t)
      /\ \A n \in 1 .. Len(v) : (v \o t)[n] = v[n]
      /\ \A n \in 1 .. Len(t) : (v \o t)[Len(v) + n] = t[n]
  <2>1. v \in Seq(S)
    BY <1>1
  <2> QED
    BY <2>1, ConcatFacts
<1>6. Len(v \o t) = Len(Tail(w))
  BY <1>1, <1>2, <1>4, <1>5
<1>7. ASSUME NEW n \in 1 .. Len(v \o t)
      PROVE  (v \o t)[n] = Tail(w)[n]
  <2>1. Tail(w)[n] = w[n + 1]
    BY <1>4, <1>6
  <2>2. CASE n \in 1 .. Len(v)
    BY <1>1, <1>2, <1>5, <2>1, <2>2
  <2>3. CASE n > Len(v)
    <3> DEFINE k == n - Len(v)
    <3>1. k \in 1 .. Len(t) /\ n = Len(v) + k /\ n + 1 = Len(s) + k
      BY <1>1, <1>2, <1>5, <2>3
    <3> HIDE DEF k
    <3>2. (v \o t)[n] = t[k]
      BY <1>5, <3>1
    <3>3. w[Len(s) + k] = t[k]
      BY <1>2, <3>1
    <3> QED
      BY <2>1, <3>1, <3>2, <3>3
  <2> QED
    BY <1>1, <1>2, <1>5, <2>2, <2>3
<1>8. v \o t = Tail(w)
  BY <1>4, <1>5, <1>6, <1>7, SeqEqual
<1> QED
  BY <1>3, <1>8 DEF v, w

\* Fragments of other connections do not matter.
LEMMA OrderedSame ==
  ASSUME NEW path \in Seq(Fragment), NEW other \in Seq(Fragment), NEW h, NEW first, NEW done,
         Own(other, h) = Own(path, h), \A n \in Own(path, h) : other[n] = path[n],
         Ordered(path, h, first, done)
  PROVE  Ordered(other, h, first, done)
<1>1. Len(path) \in Nat /\ DOMAIN path = 1 .. Len(path) /\ Len(other) \in Nat /\ DOMAIN other = 1 .. Len(other)
  BY LenProperties
<1>2. Own(path, h) \subseteq 1 .. Len(path) /\ Own(path, h) \subseteq 1 .. Len(other)
  BY <1>1 DEF Own
<1>3. \A m, n : IsPrevious(other, h, m, n) <=> IsPrevious(path, h, m, n)
  BY DEF IsPrevious
<1>4. \A m \in Own(path, h) \cup {0} : Sent(other, first, m) = Sent(path, first, m)
  BY DEF Sent
<1>5. ASSUME NEW n \in Own(other, h), NEW m \in 0 .. n - 1, IsPrevious(other, h, m, n)
      PROVE  Follows(other[n], Sent(other, first, m))
  <2>1. IsPrevious(path, h, m, n) /\ n \in Own(path, h)
    BY <1>3, <1>5
  <2>2. m \in Own(path, h) \cup {0}
    BY <2>1 DEF IsPrevious
  <2>3. Follows(path[n], Sent(path, first, m))
    BY <2>1 DEF Ordered
  <2> QED
    BY <1>4, <2>1, <2>2, <2>3
<1>6. ASSUME NEW m \in 0 .. Len(other), IsPrevious(other, h, m, Len(other) + 1)
      PROVE  /\ Sent(other, first, m).packet = done
             /\ Sent(other, first, m).index = Sent(other, first, m).of
  <2>1. m \in Own(path, h) \cup {0} /\ \A k \in Own(path, h) : k <= m \/ k >= Len(other) + 1
    BY <1>6 DEF IsPrevious
  <2>2. m \in 0 .. Len(path)
    BY <1>1, <1>2, <2>1
  <2>3. \A k \in Own(path, h) : k <= m
    BY <1>1, <1>2, <2>1
  <2>4. IsPrevious(path, h, m, Len(path) + 1)
    BY <2>1, <2>3 DEF IsPrevious
  <2>5. Sent(path, first, m).packet = done /\ Sent(path, first, m).index = Sent(path, first, m).of
    BY <2>2, <2>4 DEF Ordered
  <2> QED
    BY <1>4, <2>1, <2>5
<1> QED
  BY <1>5, <1>6 DEF Ordered

\* Two records of the same fragment.
SameMark(a, b) == a.packet = b.packet /\ a.index = b.index /\ a.of = b.of

\* Where the fragment before a position of the tail is on the path itself.
Before(path, h, m) == IF m = 0 THEN (IF path[1].handle_ = h THEN 1 ELSE 0) ELSE m + 1

\* Positions on the tail of a path.
LEMMA PreviousTail ==
  ASSUME NEW path \in Seq(Fragment), path # <<>>, NEW h, NEW first, NEW next,
         IF path[1].handle_ = h THEN SameMark(next, path[1]) ELSE next = first,
         NEW n \in 1 .. Len(path), NEW m \in 0 .. n - 1, IsPrevious(Tail(path), h, m, n)
  PROVE  /\ Before(path, h, m) \in 0 .. (n + 1) - 1
         /\ IsPrevious(path, h, Before(path, h, m), n + 1)
         /\ SameMark(Sent(Tail(path), next, m), Sent(path, first, Before(path, h, m)))
<1> DEFINE us == Tail(path)
           b == Before(path, h, m)
<1>1. /\ us \in Seq(Fragment) /\ Len(path) \in Nat /\ Len(path) > 0 /\ Len(us) = Len(path) - 1
      /\ \A k \in 1 .. Len(us) : us[k] = path[k + 1] /\ k + 1 \in 1 .. Len(path)
  BY TailFacts
<1>2. DOMAIN us = 1 .. Len(us) /\ DOMAIN path = 1 .. Len(path)
  BY <1>1, LenProperties
<1>3. m \in Own(us, h) \cup {0} /\ \A k \in Own(us, h) : k <= m \/ k >= n
  BY DEF IsPrevious
<1> HIDE DEF us
<1>4. ASSUME NEW k \in Own(path, h), k # 1
      PROVE  k - 1 \in Own(us, h)
  <2>1. k \in 1 .. Len(path) /\ path[k].handle_ = h
    BY <1>2 DEF Own
  <2>2. k - 1 \in 1 .. Len(us) /\ (k - 1) + 1 = k
    BY <1>1, <1>4, <2>1
  <2>3. us[k - 1] = path[k]
    BY <1>1, <2>2
  <2> QED
    BY <1>2, <2>1, <2>2, <2>3 DEF Own
<1>5. CASE m = 0
  <2>1. b = IF path[1].handle_ = h THEN 1 ELSE 0
    BY <1>5 DEF Before
  <2>2. b \in 0 .. (n + 1) - 1
    BY <2>1
  <2>3. b \in Own(path, h) \cup {0}
    BY <1>1, <1>2, <2>1 DEF Own
  <2>4. ASSUME NEW k \in Own(path, h) PROVE k <= b \/ k >= n + 1
    <3>1. CASE k = 1
      <4>1. path[1].handle_ = h
        BY <3>1 DEF Own
      <4> QED
        BY <2>1, <3>1, <4>1
    <3>2. CASE k # 1
      <4>1. k \in 1 .. Len(path)
        BY <1>2 DEF Own
      <4>2. k - 1 <= m \/ k - 1 >= n
        BY <1>3, <1>4, <3>2
      <4>3. k >= n + 1
        BY <1>1, <1>5, <3>2, <4>1, <4>2
      <4> QED
        BY <4>3
    <3> QED
      BY <3>1, <3>2
  <2>5. SameMark(Sent(us, next, m), Sent(path, first, b))
    <3>1. Sent(us, next, m) = next
      BY <1>5 DEF Sent
    <3>2. CASE path[1].handle_ = h
      <4>1. Sent(path, first, b) = path[1]
        BY <2>1, <3>2 DEF Sent
      <4> QED
        BY <3>1, <3>2, <4>1
    <3>3. CASE path[1].handle_ # h
      <4>1. Sent(path, first, b) = first
        BY <2>1, <3>3 DEF Sent
      <4> QED
        BY <3>1, <3>3, <4>1 DEF SameMark
    <3> QED
      BY <3>2, <3>3
  <2>6. IsPrevious(path, h, b, n + 1)
    BY <2>3, <2>4 DEF IsPrevious
  <2> QED
    BY <2>2, <2>5, <2>6 DEF us
<1>6. CASE m # 0
  <2>1. b = m + 1 /\ b # 0
    BY <1>6 DEF Before
  <2>2. m \in 1 .. Len(us) /\ us[m].handle_ = h
    BY <1>2, <1>3, <1>6 DEF Own
  <2>3. us[m] = path[b] /\ b \in 1 .. Len(path)
    BY <1>1, <2>1, <2>2
  <2>4. b \in Own(path, h)
    BY <1>2, <2>2, <2>3 DEF Own
  <2>5. ASSUME NEW k \in Own(path, h) PROVE k <= b \/ k >= n + 1
    <3>1. k \in 1 .. Len(path)
      BY <1>2 DEF Own
    <3>2. CASE k = 1
      BY <2>1, <2>2, <3>2
    <3>3. CASE k # 1
      <4>1. k - 1 <= m \/ k - 1 >= n
        BY <1>3, <1>4, <3>3
      <4> QED
        BY <1>1, <2>1, <3>1, <4>1
    <3> QED
      BY <3>2, <3>3
  <2>6. SameMark(Sent(us, next, m), Sent(path, first, b))
    BY <1>6, <2>1, <2>3 DEF Sent, SameMark
  <2>7. IsPrevious(path, h, b, n + 1)
    BY <2>4, <2>5 DEF IsPrevious
  <2>8. b \in 0 .. (n + 1) - 1
    BY <2>1
  <2> QED
    BY <2>6, <2>7, <2>8 DEF us
<1> QED
  BY <1>5, <1>6

\* The first fragment of the path has reached the controller.
LEMMA OrderedTail ==
  ASSUME NEW path \in Seq(Fragment), path # <<>>, NEW h, NEW first, NEW next, NEW done,
         IF path[1].handle_ = h THEN SameMark(next, path[1]) ELSE next = first,
         Ordered(path, h, first, done)
  PROVE  Ordered(Tail(path), h, next, done)
<1> DEFINE us == Tail(path)
<1>1. /\ us \in Seq(Fragment) /\ Len(path) \in Nat /\ Len(path) > 0 /\ Len(us) = Len(path) - 1
      /\ \A k \in 1 .. Len(us) : us[k] = path[k + 1] /\ k + 1 \in 1 .. Len(path)
  BY TailFacts
<1>2. DOMAIN us = 1 .. Len(us) /\ DOMAIN path = 1 .. Len(path)
  BY <1>1, LenProperties
<1>3. ASSUME NEW n \in Own(us, h), NEW m \in 0 .. n - 1, IsPrevious(us, h, m, n)
      PROVE  Follows(us[n], Sent(us, next, m))
  <2>1. n \in 1 .. Len(us) /\ n \in 1 .. Len(path)
    BY <1>1, <1>2 DEF Own
  <2>2. us[n] = path[n + 1] /\ n + 1 \in 1 .. Len(path) /\ path[n + 1].handle_ = h
    BY <1>1, <2>1 DEF Own
  <2>3. n + 1 \in Own(path, h)
    BY <1>2, <2>2 DEF Own
  <2>4. /\ Before(path, h, m) \in 0 .. (n + 1) - 1
        /\ IsPrevious(path, h, Before(path, h, m), n + 1)
        /\ SameMark(Sent(us, next, m), Sent(path, first, Before(path, h, m)))
    BY <1>3, <2>1, PreviousTail
  <2>5. Follows(path[n + 1], Sent(path, first, Before(path, h, m)))
    BY <2>3, <2>4 DEF Ordered
  <2> HIDE DEF us
  <2> QED
    BY <2>2, <2>4, <2>5 DEF Follows, SameMark
<1>4. ASSUME NEW m \in 0 .. Len(us), IsPrevious(us, h, m, Len(us) + 1)
      PROVE  Sent(us, next, m).packet = done /\ Sent(us, next, m).index = Sent(us, next, m).of
  <2> DEFINE n == Len(path)
  <2>1. n \in 1 .. Len(path) /\ n = Len(us) + 1 /\ m \in 0 .. n - 1
    BY <1>1
  <2>2. IsPrevious(us, h, m, n)
    BY <1>4, <2>1
  <2> HIDE DEF n
  <2>3. /\ Before(path, h, m) \in 0 .. (n + 1) - 1
        /\ IsPrevious(path, h, Before(path, h, m), n + 1)
        /\ SameMark(Sent(us, next, m), Sent(path, first, Before(path, h, m)))
    BY <2>1, <2>2, PreviousTail
  <2>4. Before(path, h, m) \in 0 .. Len(path) /\ n + 1 = Len(path) + 1
    BY <1>1, <2>3 DEF n
  <2>5. LET s == Sent(path, first, Before(path, h, m)) IN s.packet = done /\ s.index = s.of
    BY <2>3, <2>4 DEF Ordered
  <2> QED
    BY <2>3, <2>5 DEF SameMark
<1> QED
  BY <1>3, <1>4 DEF Ordered

\* The fragments of a packet.
LEMMA FragmentsOf ==
  ASSUME NEW h \in Handles, NEW type \in ConnectionType, NEW packet \in Packet
  PROVE  LET t == GetFragments(h, type, packet)
         IN  /\ t \in Seq(Fragment) /\ Len(t) = packet.size /\ packet.size \in Nat \ {0}
             /\ t # <<>> /\ Pieces(t, h, type)
             /\ \A n \in 1 .. Len(t) :
                  t[n].handle_ = h /\ t[n].packet = packet.number /\ t[n].index = n /\ t[n].of = Len(t)
<1> DEFINE t == GetFragments(h, type, packet)
           size == packet.size
<1>1. size \in Nat \ {0} /\ packet.number \in Nat
  BY SizesAssumption DEF Packet
<1>2. \A n \in 1 .. size :
        t[n] = [connection_type_ |-> type, handle_ |-> h, packet |-> packet.number,
                index |-> n, of |-> size]
  BY DEF GetFragments
<1>3. \A n \in 1 .. size : /\ t[n] \in Fragment /\ t[n].connection_type_ = type
                           /\ t[n].handle_ = h /\ t[n].packet = packet.number
                           /\ t[n].index = n /\ t[n].of = size
  <2> DEFINE number == packet.number
  <2> HIDE DEF t, size, number
  <2> SUFFICES ASSUME NEW n \in 1 .. size
               PROVE  /\ t[n] \in Fragment /\ t[n].connection_type_ = type
                      /\ t[n].handle_ = h /\ t[n].packet = number
                      /\ t[n].index = n /\ t[n].of = size
    BY DEF number
  <2>1. t[n] = [connection_type_ |-> type, handle_ |-> h, packet |-> number, index |-> n, of |-> size]
    BY <1>2 DEF number
  <2>2. n \in Nat /\ size \in Nat /\ number \in Nat
    BY <1>1 DEF number
  <2> QED
    BY <2>1, <2>2 DEF Fragment
<1>4. t = [n \in 1 .. size |-> t[n]]
  BY DEF GetFragments
<1> HIDE DEF t, size
<1>5. t \in [1 .. size -> Fragment]
  BY <1>3, <1>4
<1>6. t \in Seq(Fragment) /\ Len(t) = size
  <2>1. t \in Seq(Fragment)
    BY <1>1, <1>5, SeqDef
  <2>2. DOMAIN t = 1 .. Len(t) /\ Len(t) \in Nat /\ DOMAIN t = 1 .. size
    BY <1>5, <2>1, LenProperties
  <2>3. size \in 1 .. Len(t)
    BY <1>1, <2>2
  <2>4. Len(t) \in 1 .. size
    BY <2>2, <2>3
  <2>5. Len(t) = size
    BY <1>1, <2>3, <2>4
  <2> QED
    BY <2>1, <2>5
<1>7. t # <<>>
  BY <1>1, <1>6, EmptySeq
<1>8. 1 \in 1 .. size
  BY <1>1
<1>9. Pieces(t, h, type)
  <2>1. \A n \in 1 .. size : t[n].index + size = t[n].of + n
    BY <1>1, <1>3
  <2> QED
    BY <1>3, <1>6, <1>8, <2>1 DEF Pieces
<1> QED
  BY <1>1, <1>3, <1>6, <1>7, <1>9 DEF t, size

\* The fragments of the next packet are added to the path.
LEMMA OrderedPacket ==
  ASSUME NEW path \in Seq(Fragment), NEW t \in Seq(Fragment), NEW h, NEW first, NEW done \in Nat,
         t # <<>>,
         \A n \in 1 .. Len(t) :
           t[n].handle_ = h /\ t[n].packet = done + 1 /\ t[n].index = n /\ t[n].of = Len(t),
         Ordered(path, h, first, done)
  PROVE  Ordered(path \o t, h, first, done + 1)
<1> DEFINE w == path \o t
           L == Len(path)
<1>1. /\ w \in Seq(Fragment) /\ L \in Nat /\ Len(t) \in Nat /\ Len(w) = L + Len(t)
      /\ \A n \in 1 .. L : w[n] = path[n]
      /\ \A n \in 1 .. Len(t) : w[L + n] = t[n]
  BY ConcatFacts
<1>2. Len(t) > 0
  BY <1>1, EmptySeq
<1> HIDE DEF w
<1>3. DOMAIN w = 1 .. Len(w) /\ DOMAIN path = 1 .. L
  BY <1>1, LenProperties
<1>4. \A n \in 1 .. L : n \in Own(w, h) <=> n \in Own(path, h)
  BY <1>1, <1>3 DEF Own
<1>5. \A n \in 1 .. Len(t) : L + n \in Own(w, h)
  <2>1. \A n \in 1 .. Len(t) : L + n \in 1 .. Len(w)
    BY <1>1
  <2> QED
    BY <1>1, <1>3, <2>1 DEF Own
<1>6. ASSUME NEW n \in 1 .. L + 1, NEW m \in 0 .. n - 1, IsPrevious(w, h, m, n)
      PROVE  /\ IsPrevious(path, h, m, n) /\ m \in 0 .. L
             /\ Sent(w, first, m) = Sent(path, first, m)
  <2>1. m = 0 \/ m \in 1 .. L
    BY <1>1
  <2>2. m \in Own(w, h) \cup {0} /\ \A k \in Own(w, h) : k <= m \/ k >= n
    BY <1>6 DEF IsPrevious
  <2>3. m \in Own(path, h) \cup {0}
    BY <1>4, <2>1, <2>2
  <2>4. \A k \in Own(path, h) : k \in Own(w, h)
    BY <1>3, <1>4 DEF Own
  <2>5. IsPrevious(path, h, m, n)
    BY <2>2, <2>3, <2>4 DEF IsPrevious
  <2> QED
    BY <1>1, <2>1, <2>5 DEF Sent
<1>7. ASSUME NEW n \in Own(w, h), NEW m \in 0 .. n - 1, IsPrevious(w, h, m, n)
      PROVE  Follows(w[n], Sent(w, first, m))
  <2>1. n \in 1 .. Len(w)
    BY <1>3 DEF Own
  <2>2. CASE n <= L
    <3>1. n \in 1 .. L /\ n \in 1 .. L + 1
      BY <1>1, <2>1, <2>2
    <3>2. n \in Own(path, h) /\ w[n] = path[n]
      BY <1>1, <1>4, <3>1
    <3>3. IsPrevious(path, h, m, n) /\ Sent(w, first, m) = Sent(path, first, m)
      BY <1>6, <1>7, <3>1
    <3>4. Follows(path[n], Sent(path, first, m))
      BY <3>2, <3>3 DEF Ordered
    <3> QED
      BY <3>2, <3>3, <3>4
  <2>3. CASE n = L + 1
    <3>1. n \in 1 .. L + 1
      BY <1>1, <2>3
    <3>2. IsPrevious(path, h, m, L + 1) /\ m \in 0 .. L /\ Sent(w, first, m) = Sent(path, first, m)
      BY <1>6, <1>7, <2>3, <3>1
    <3>3. Sent(path, first, m).packet = done /\ Sent(path, first, m).index = Sent(path, first, m).of
      BY <3>2 DEF Ordered
    <3>4. 1 \in 1 .. Len(t)
      BY <1>1, <1>2
    <3>5. w[n] = t[1] /\ t[1].packet = done + 1 /\ t[1].index = 1
      BY <1>1, <2>3, <3>4
    <3> QED
      BY <3>2, <3>3, <3>5 DEF Follows
  <2>4. CASE n > L + 1
    <3> DEFINE i == n - L
               j == (n - 1) - L
    <3>1. i \in 1 .. Len(t) /\ j \in 1 .. Len(t) /\ n = L + i /\ n - 1 = L + j /\ i = j + 1
      BY <1>1, <2>1, <2>4
    <3>2. n - 1 \in Own(w, h)
      BY <1>5, <3>1
    <3>3. n - 1 <= m \/ n - 1 >= n
      BY <1>7, <3>2 DEF IsPrevious
    <3>4. m = n - 1 /\ m # 0
      BY <1>1, <2>1, <2>4, <3>3
    <3> HIDE DEF i, j
    <3>5. w[n] = t[i] /\ Sent(w, first, m) = t[j]
      BY <1>1, <3>1, <3>4 DEF Sent
    <3>6. t[i].packet = t[j].packet /\ t[i].index = i /\ t[j].index = j
      BY <3>1
    <3>7. t[i].index = t[j].index + 1
      BY <3>1, <3>6
    <3> QED
      BY <3>5, <3>6, <3>7 DEF Follows
  <2>5. n <= L \/ n = L + 1 \/ n > L + 1
    <3>1. L \in Nat /\ n \in Nat
      BY <1>1, <2>1
    <3> HIDE DEF L
    <3> QED
      BY <3>1
  <2> QED
    BY <2>2, <2>3, <2>4, <2>5
<1>8. ASSUME NEW m \in 0 .. Len(w), IsPrevious(w, h, m, Len(w) + 1)
      PROVE  Sent(w, first, m).packet = done + 1 /\ Sent(w, first, m).index = Sent(w, first, m).of
  <2> DEFINE i == Len(t)
  <2>1. i \in 1 .. Len(t) /\ Len(w) = L + i
    BY <1>1, <1>2
  <2>2. Len(w) \in Own(w, h)
    BY <1>5, <2>1
  <2>3. Len(w) <= m \/ Len(w) >= Len(w) + 1
    BY <1>8, <2>2 DEF IsPrevious
  <2>4. m = L + i /\ m # 0
    <3>1. L \in Nat /\ i \in Nat /\ i > 0
      BY <1>1, <1>2
    <3> HIDE DEF i, L
    <3> QED
      BY <2>1, <2>3, <3>1
  <2>5. Sent(w, first, m) = t[i]
    BY <1>1, <2>1, <2>4 DEF Sent
  <2>6. t[i].packet = done + 1 /\ t[i].index = i /\ t[i].of = i
    BY <2>1
  <2> QED
    BY <2>5, <2>6
<1> QED
  BY <1>7, <1>8 DEF Ordered, w

\* Nothing is on its way yet.
LEMMA OrderedNew ==
  ASSUME NEW path \in Seq(Fragment), NEW h, NEW first, NEW done, Own(path, h) = {},
         first.packet = done, first.index = first.of
  PROVE  Ordered(path, h, first, done)
<1>1. \A m : IsPrevious(path, h, m, Len(path) + 1) => m = 0
  BY DEF IsPrevious
<1> QED
  BY <1>1 DEF Ordered, Sent

-----------------------------------------------------------------------------
(* Credits *)

Credits == [ConnectionType -> Nat]
OfTypeIn(handlers, type) == {h \in Handles : Types(handlers)[h] = type}

\* Counts are numbers.
LEMMA CountsType ==
  ASSUME NEW handlers \in Handlers
  PROVE  /\ Counts(handlers) \in [Handles -> Nat]
         /\ \A h \in Handles : /\ Counts(handlers)[h] = handlers[h].number_of_sent_packets_
                               /\ Types(handlers)[h] = handlers[h].connection_type_
<1>1. \A h \in Handles : handlers[h].number_of_sent_packets_ \in Nat
  BY EntryFacts
<1> QED
  BY <1>1 DEF Counts, Types

\* A queue of fragments has a size, and nothing when empty.
LEMMA SizeFacts ==
  ASSUME NEW fragments \in Fragments
  PROVE  /\ Size(fragments) \in Nat
         /\ IsEmpty(fragments) => Size(fragments) = 0
         /\ \A h : Waiting(fragments, h) \in Nat
         /\ \A type : PendingOf(fragments, type) \in Nat
<1>1. fragments[0] \in Seq(Fragment) /\ fragments[1] \in Seq(Fragment)
  BY DEF Fragments, Priorities
<1>2. Len(fragments[0]) \in Nat /\ Len(fragments[1]) \in Nat
  BY <1>1, LenProperties
<1>3. Size(fragments) \in Nat
  <2> DEFINE a == Len(fragments[0])
             b == Len(fragments[1])
  <2>1. a \in Nat /\ b \in Nat /\ Size(fragments) = a + b
    BY <1>2 DEF Size
  <2> HIDE DEF a, b
  <2> QED
    BY <2>1
<1>4. ASSUME IsEmpty(fragments) PROVE Size(fragments) = 0
  <2>1. fragments[0] = <<>> /\ fragments[1] = <<>>
    BY <1>4 DEF IsEmpty, Priorities
  <2>2. Len(fragments[0]) = 0 /\ Len(fragments[1]) = 0
    BY <2>1
  <2> QED
    BY <2>2 DEF Size
<1> QED
  BY <1>3, <1>4 DEF Waiting, PendingOf

\* All that waits belongs to one registered connection.
LEMMA OwnerFacts ==
  ASSUME NEW handlers \in Handlers, NEW fragments \in Fragments, OnePacket(handlers, fragments),
         ~IsEmpty(fragments)
  PROVE  \E k \in Registered(handlers) :
           /\ Front(fragments) \in Fragment
           /\ Front(fragments).handle_ = k
           /\ Front(fragments).connection_type_ = handlers[k].connection_type_
           /\ Size(fragments) > 0
           /\ Waiting(fragments, k) = Size(fragments)
           /\ \A h : h # k => Waiting(fragments, h) = 0
           /\ PendingOf(fragments, handlers[k].connection_type_) = Size(fragments)
           /\ \A type : type # handlers[k].connection_type_ => PendingOf(fragments, type) = 0
<1>1. PICK k \in Registered(handlers), p \in Priorities :
        PacketAt(fragments, p, k, handlers[k].connection_type_)
  BY DEF OnePacket
<1>2. /\ Front(fragments) \in Fragment
      /\ Front(fragments).handle_ = k
      /\ Front(fragments).connection_type_ = handlers[k].connection_type_
      /\ Size(fragments) = Len(fragments[p]) /\ Len(fragments[p]) \in Nat \ {0}
  BY <1>1, PacketFront
<1>3. Size(fragments) > 0
  BY <1>2
<1> QED
  BY <1>2, <1>3 DEF Waiting, PendingOf

\* Nothing waits.
LEMMA NothingWaits ==
  ASSUME NEW fragments, IsEmpty(fragments)
  PROVE  (\A h : Waiting(fragments, h) = 0) /\ (\A type : PendingOf(fragments, type) = 0)
BY DEF Waiting, PendingOf

\* One connection of a type has sent a different number.
LEMMA CountChanged ==
  ASSUME NEW old \in Handlers, NEW new \in Handlers, NEW h \in Handles,
         NEW type, Types(old)[h] = type, Types(new)[h] = type,
         \A k \in Handles \ {h} : Types(new)[k] = Types(old)[k] /\ Counts(new)[k] = Counts(old)[k]
  PROVE  /\ \E rest \in Nat : /\ Sum(Counts(old), OfTypeIn(old, type)) = rest + Counts(old)[h]
                              /\ Sum(Counts(new), OfTypeIn(new, type)) = rest + Counts(new)[h]
         /\ \A other : other # type =>
              Sum(Counts(new), OfTypeIn(new, other)) = Sum(Counts(old), OfTypeIn(old, other))
<1> DEFINE S == OfTypeIn(old, type)
           f == Counts(old)
           g == Counts(new)
<1>1. f \in [Handles -> Nat] /\ g \in [Handles -> Nat]
  BY CountsType
<1>2. S \in SUBSET Handles /\ h \in S
  BY DEF OfTypeIn
<1>3. OfTypeIn(new, type) = S
  BY DEF OfTypeIn
<1>4. \A k \in S \ {h} : f[k] = g[k]
  BY <1>2
<1>5. ASSUME NEW other, other # type
      PROVE  Sum(g, OfTypeIn(new, other)) = Sum(f, OfTypeIn(old, other))
  <2>1. OfTypeIn(new, other) = OfTypeIn(old, other) /\ h \notin OfTypeIn(old, other)
    BY <1>5 DEF OfTypeIn
  <2>2. \A k \in OfTypeIn(old, other) : g[k] = f[k]
    BY <2>1 DEF OfTypeIn
  <2> HIDE DEF f, g
  <2>3. Sum(g, OfTypeIn(old, other)) = Sum(f, OfTypeIn(old, other))
    BY <2>2, SumSame
  <2> QED
    BY <2>1, <2>3
<1> HIDE DEF f, g, S
<1>6. Sum(f, S) = Sum(f, S \ {h}) + f[h] /\ Sum(f, S \ {h}) \in Nat
  BY <1>1, <1>2, SumSplit
<1>7. Sum(g, S) = Sum(g, S \ {h}) + g[h]
  BY <1>1, <1>2, SumSplit
<1>8. Sum(f, S \ {h}) = Sum(g, S \ {h})
  BY <1>4, SumSame
<1>9. \E rest \in Nat : Sum(f, S) = rest + f[h] /\ Sum(g, S) = rest + g[h]
  BY <1>6, <1>7, <1>8
<1> QED
  BY <1>3, <1>5, <1>9 DEF f, g, S

\* A connection that has sent nothing comes.
LEMMA CountAdded ==
  ASSUME NEW old \in Handlers, NEW new \in Handlers, NEW h \in Handles,
         Counts(new)[h] = 0, Types(old)[h] \notin ConnectionType,
         \A k \in Handles \ {h} : Types(new)[k] = Types(old)[k] /\ Counts(new)[k] = Counts(old)[k]
  PROVE  \A type \in ConnectionType :
           Sum(Counts(new), OfTypeIn(new, type)) = Sum(Counts(old), OfTypeIn(old, type))
<1> SUFFICES ASSUME NEW type \in ConnectionType
             PROVE  Sum(Counts(new), OfTypeIn(new, type)) = Sum(Counts(old), OfTypeIn(old, type))
  OBVIOUS
<1> DEFINE S == OfTypeIn(old, type)
           T == OfTypeIn(new, type)
           f == Counts(old)
           g == Counts(new)
<1>1. f \in [Handles -> Nat] /\ g \in [Handles -> Nat]
  BY CountsType
<1>2. S \in SUBSET Handles /\ T \in SUBSET Handles /\ h \notin S
  BY DEF OfTypeIn
<1>3. (h \notin T => T = S) /\ (h \in T => T \ {h} = S)
  BY DEF OfTypeIn
<1>4. \A k \in S : f[k] = g[k]
  BY <1>2
<1>5. g[h] = 0
  OBVIOUS
<1> HIDE DEF f, g, S, T
<1>6. Sum(f, S) = Sum(g, S)
  BY <1>4, SumSame
<1>7. ASSUME h \in T PROVE Sum(g, T) = Sum(g, T \ {h}) + 0 /\ Sum(g, T \ {h}) \in Nat
  BY <1>1, <1>2, <1>5, <1>7, SumSplit
<1>8. Sum(g, T) = Sum(f, S)
  <2>1. CASE h \in T
    <3>1. Sum(g, T) = Sum(g, T \ {h})
      BY <1>7, <2>1
    <3>2. T \ {h} = S
      BY <1>3, <2>1
    <3> QED
      BY <1>6, <3>1, <3>2
  <2>2. CASE h \notin T
    BY <1>3, <1>6, <2>2
  <2> QED
    BY <2>1, <2>2
<1> QED
  BY <1>8 DEF f, g, S, T

\* A connection goes.
LEMMA CountRemoved ==
  ASSUME NEW old \in Handlers, NEW new \in Handlers, NEW h \in Handles,
         Types(new)[h] \notin ConnectionType,
         \A k \in Handles \ {h} : Types(new)[k] = Types(old)[k] /\ Counts(new)[k] = Counts(old)[k]
  PROVE  \A type \in ConnectionType :
           /\ Sum(Counts(new), OfTypeIn(new, type)) \in Nat
           /\ Sum(Counts(old), OfTypeIn(old, type)) =
                Sum(Counts(new), OfTypeIn(new, type))
                  + IF Types(old)[h] = type THEN Counts(old)[h] ELSE 0
<1> SUFFICES ASSUME NEW type \in ConnectionType
             PROVE  /\ Sum(Counts(new), OfTypeIn(new, type)) \in Nat
                    /\ Sum(Counts(old), OfTypeIn(old, type)) =
                         Sum(Counts(new), OfTypeIn(new, type))
                           + IF Types(old)[h] = type THEN Counts(old)[h] ELSE 0
  OBVIOUS
<1> DEFINE S == OfTypeIn(old, type)
           T == OfTypeIn(new, type)
           f == Counts(old)
           g == Counts(new)
<1>1. f \in [Handles -> Nat] /\ g \in [Handles -> Nat]
  BY CountsType
<1>2. S \in SUBSET Handles /\ T \in SUBSET Handles /\ h \notin T
  BY DEF OfTypeIn
<1>3. (Types(old)[h] # type => T = S) /\ (Types(old)[h] = type => h \in S /\ S \ {h} = T)
  BY DEF OfTypeIn
<1>4. \A k \in T : f[k] = g[k]
  BY <1>2
<1> HIDE DEF f, g, S, T
<1>5. Sum(f, T) = Sum(g, T) /\ Sum(g, T) \in Nat
  BY <1>1, <1>2, <1>4, SumSame, SumType
<1>6. CASE Types(old)[h] = type
  <2>1. Sum(f, S) = Sum(f, S \ {h}) + f[h]
    BY <1>1, <1>2, <1>3, <1>6, SumSplit
  <2>2. Sum(f, S) = Sum(g, T) + f[h]
    BY <1>3, <1>5, <1>6, <2>1
  <2> QED
    BY <1>5, <1>6, <2>2 DEF f, g, S, T
<1>7. CASE Types(old)[h] # type
  <2>1. Sum(f, S) = Sum(g, T) + 0
    BY <1>3, <1>5, <1>7
  <2> QED
    BY <1>5, <1>7, <2>1 DEF f, g, S, T
<1> QED
  BY <1>6, <1>7

-----------------------------------------------------------------------------
(* The map of connections and the rest of the state *)

Buffers == [Handles -> Nat]

\* Only connections, types and counts matter.
LEMMA FitSame ==
  ASSUME NEW new \in Handlers, NEW old \in Handlers, SameBooks(new, old),
         NEW fragments, NEW credits, NEW ts, NEW hq, NEW known, NEW count, NEW packets,
         Fit(old, fragments, credits, ts, hq, known, count, packets)
  PROVE  Fit(new, fragments, credits, ts, hq, known, count, packets)
<1>1. Registered(new) = Registered(old) /\ Types(new) = Types(old) /\ Counts(new) = Counts(old)
      /\ Registered(old) \subseteq Handles
  BY DEF SameBooks, Registered
<1>2. \A h \in Handles : /\ new[h].connection_type_ = old[h].connection_type_
                         /\ new[h].number_of_sent_packets_ = old[h].number_of_sent_packets_
  BY <1>1, CountsType
<1>3. Lifecycle(new, ts, hq, known, count, packets)
  <2>1. \A h \in Handles : LifeOf(old, ts, hq, h, known[h], count[h], packets[h])
    BY DEF Fit, Lifecycle
  <2> QED
    BY <1>1, <1>2, <2>1 DEF Lifecycle, LifeOf
<1>4. OnePacket(new, fragments)
  <2>1. OnePacket(old, fragments)
    BY DEF Fit
  <2> QED
    BY <1>1, <1>2, <2>1 DEF OnePacket
<1>5. Accounted(new, fragments, ts, hq, count)
  <2>1. Accounted(old, fragments, ts, hq, count)
    BY DEF Fit
  <2> QED
    BY <1>1, <1>2, <2>1 DEF Accounted
<1>6. Conserved(new, fragments, credits)
  <2>1. Conserved(old, fragments, credits)
    BY DEF Fit
  <2> QED
    BY <1>1, <2>1 DEF Conserved
<1> QED
  BY <1>3, <1>4, <1>5, <1>6 DEF Fit

\* A task other than Register leaves the map as it is.
LEMMA FitRun ==
  ASSUME NEW handlers \in Handlers, NEW fragments \in Fragments, NEW credits,
         NEW ts \in Seq(Task), ts # <<>>, Head(ts).run # "Register", NEW hq, NEW known,
         NEW count \in Buffers, NEW packets,
         Fit(handlers, fragments, credits, ts, hq, known, count, packets)
  PROVE  Fit(handlers, fragments, credits, Tail(ts), hq, known, count, packets)
<1>1. Lifecycle(handlers, Tail(ts), hq, known, count, packets)
  <2> SUFFICES ASSUME NEW h \in Handles
               PROVE  LifeOf(handlers, Tail(ts), hq, h, known[h], count[h], packets[h])
    BY DEF Lifecycle
  <2>1. LifeOf(handlers, ts, hq, h, known[h], count[h], packets[h])
    BY DEF Fit, Lifecycle
  <2>2. ~Is(Head(ts), "Register", h)
    BY DEF Is
  <2> QED
    BY <2>1, <2>2, LifeTail DEF LifeOf
<1>2. Accounted(handlers, fragments, Tail(ts), hq, count)
  <2> SUFFICES ASSUME NEW h \in Registered(handlers)
               PROVE  Covered(Tail(ts), hq, h, Waiting(fragments, h), count[h],
                              handlers[h].number_of_sent_packets_)
    BY DEF Accounted
  <2> DEFINE w == Waiting(fragments, h)
             c == count[h]
             s == handlers[h].number_of_sent_packets_
  <2>1. h \in Handles
    BY DEF Registered
  <2>2. w \in Nat /\ c \in Nat /\ s \in Nat
    BY <2>1, SizeFacts, EntryFacts DEF Buffers
  <2>3. Covered(ts, hq, h, w, c, s)
    BY DEF Fit, Accounted
  <2> HIDE DEF w, c, s
  <2>4. Reports(Head(ts), h) \in Nat /\ \A t \in Nat : s <= t + Reports(Head(ts), h) =>
          Covered(Tail(ts), hq, h, w, c, t)
    BY <2>2, <2>3, CoveredRun
  <2>5. s <= s + Reports(Head(ts), h)
    BY <2>2, <2>4
  <2>6. Covered(Tail(ts), hq, h, w, c, s)
    BY <2>2, <2>4, <2>5
  <2> QED
    BY <2>6 DEF w, c, s
<1> QED
  BY <1>1, <1>2 DEF Fit

\* A connection is registered.
LEMMA FitRegister ==
  ASSUME NEW old \in Handlers, NEW new \in Handlers, NEW fragments \in Fragments, NEW credits,
         NEW ts \in Seq(Task), ts # <<>>, NEW hq \in Seq(Fragment), NEW known,
         NEW count \in Buffers, NEW packets, NEW h \in Handles, Is(Head(ts), "Register", h),
         Fit(old, fragments, credits, ts, hq, known, count, packets),
         new[h].connection_type_ = Head(ts).type, new[h].number_of_sent_packets_ = 0,
         Head(ts).type \in ConnectionType,
         \A k \in Handles \ {h} : new[k] = old[k]
  PROVE  /\ h \notin Registered(old) /\ Registered(new) = Registered(old) \cup {h}
         /\ Fit(new, fragments, credits, Tail(ts), hq, known, count, packets)
<1> DEFINE us == Tail(ts)
<1>1. \A k \in Handles : LifeOf(old, ts, hq, k, known[k], count[k], packets[k])
  BY DEF Fit, Lifecycle
<1>2. /\ h \notin Registered(old) /\ Own(hq, h) = {}
      /\ \A n \in 1 .. Len(ts) : ~Is(ts[n], "incoming_acl_credits", h)
      /\ Life(us, h, TRUE, Head(ts).type, known[h], Own(hq, h) # {}, count[h], packets[h] # <<>>)
  BY <1>1, LifeRegister DEF LifeOf
<1>3. count[h] \in Nat /\ ~(count[h] > 0)
  BY <1>1, <1>2 DEF LifeOf, Life, LinkKnown, Buffers
<1>4. /\ us \in Seq(Task) /\ \A n \in 1 .. Len(us) : us[n] = ts[n + 1] /\ n + 1 \in 1 .. Len(ts)
  BY TailFacts
<1> HIDE DEF us
<1>5. h \in Registered(new)
  <2>1. new[h].connection_type_ # "none"
    BY DEF ConnectionType
  <2> QED
    BY <2>1, EntryFacts
<1>6. Registered(new) = Registered(old) \cup {h}
  BY <1>5 DEF Registered
<1>7. Lifecycle(new, us, hq, known, count, packets)
  <2> SUFFICES ASSUME NEW k \in Handles
               PROVE  LifeOf(new, us, hq, k, known[k], count[k], packets[k])
    BY DEF Lifecycle
  <2>1. CASE k = h
    <3>1. (h \in Registered(new)) = TRUE
      BY <1>5
    <3> QED
      BY <1>2, <2>1, <3>1 DEF LifeOf
  <2>2. CASE k # h
    <3>1. ~Is(Head(ts), "Register", k)
      BY <2>2 DEF Is
    <3>2. LifeOf(old, us, hq, k, known[k], count[k], packets[k])
      BY <1>1, <3>1, LifeTail DEF LifeOf, us
    <3>3. new[k] = old[k] /\ (k \in Registered(new)) = (k \in Registered(old))
      BY <1>6, <2>2
    <3> QED
      BY <3>2, <3>3 DEF LifeOf
  <2> QED
    BY <2>1, <2>2
<1>8. OnePacket(new, fragments)
  <2>1. OnePacket(old, fragments)
    BY DEF Fit
  <2>2. \A k \in Registered(old) : k \in Registered(new) /\ new[k] = old[k]
    BY <1>2, <1>6 DEF Registered
  <2> QED
    BY <2>1, <2>2 DEF OnePacket
<1>9. Accounted(new, fragments, us, hq, count)
  <2> SUFFICES ASSUME NEW k \in Registered(new)
               PROVE  Covered(us, hq, k, Waiting(fragments, k), count[k], new[k].number_of_sent_packets_)
    BY DEF Accounted
  <2>1. CASE k = h
    <3>1. \A n \in 1 .. Len(us) : ~Is(us[n], "incoming_acl_credits", h)
      BY <1>2, <1>4
    <3>2. Waiting(fragments, h) = 0
      <4>1. CASE IsEmpty(fragments)
        BY <4>1, NothingWaits
      <4>2. CASE ~IsEmpty(fragments)
        <5>1. OnePacket(old, fragments)
          BY DEF Fit
        <5>2. PICK o \in Registered(old) : \A g : g # o => Waiting(fragments, g) = 0
          BY <4>2, <5>1, OwnerFacts
        <5> QED
          BY <1>2, <5>2
      <4> QED
        BY <4>1, <4>2
    <3>3. count[h] = 0
      BY <1>3
    <3>4. Covered(us, hq, h, 0, 0, 0)
      BY <1>2, <1>4, <3>1, CoveredNew
    <3> QED
      BY <2>1, <3>2, <3>3, <3>4
  <2>2. CASE k # h
    <3>1. k \in Registered(old) /\ k \in Handles /\ new[k] = old[k]
      BY <1>6, <2>2 DEF Registered
    <3> DEFINE w == Waiting(fragments, k)
               c == count[k]
               s == old[k].number_of_sent_packets_
    <3>2. w \in Nat /\ c \in Nat /\ s \in Nat
      BY <3>1, SizeFacts, EntryFacts DEF Buffers
    <3>3. Covered(ts, hq, k, w, c, s)
      BY <3>1 DEF Fit, Accounted
    <3> HIDE DEF w, c, s
    <3>4. Reports(Head(ts), k) \in Nat /\ \A t \in Nat : s <= t + Reports(Head(ts), k) =>
            Covered(us, hq, k, w, c, t)
      BY <3>2, <3>3, CoveredRun DEF us
    <3>5. s <= s + Reports(Head(ts), k)
      BY <3>2, <3>4
    <3>6. Covered(us, hq, k, w, c, s)
      BY <3>2, <3>4, <3>5
    <3> QED
      BY <3>1, <3>6 DEF w, c, s
  <2> QED
    BY <2>1, <2>2
<1>10. Conserved(new, fragments, credits)
  <2>1. Counts(new)[h] = 0 /\ Types(old)[h] \notin ConnectionType
    BY <1>2, CountsType, EntryFacts DEF ConnectionType
  <2>2. \A k \in Handles \ {h} : Types(new)[k] = Types(old)[k] /\ Counts(new)[k] = Counts(old)[k]
    BY CountsType
  <2>3. \A type \in ConnectionType :
          Sum(Counts(new), OfTypeIn(new, type)) = Sum(Counts(old), OfTypeIn(old, type))
    BY <2>1, <2>2, CountAdded
  <2>4. Conserved(old, fragments, credits)
    BY DEF Fit
  <2> QED
    BY <2>3, <2>4 DEF Conserved, OfTypeIn
<1> QED
  BY <1>2, <1>6, <1>7, <1>8, <1>9, <1>10 DEF Fit, us

\* A connection that was told to go: what is dropped is what it has waiting.
LEMMA DropFacts ==
  ASSUME NEW handlers \in Handlers, fragments_to_send_ \in Fragments,
         OnePacket(handlers, fragments_to_send_), NEW h \in Handles
  PROVE  LET rest == drop_packet_fragments(h)
         IN  /\ rest \in Fragments
             /\ ~IsEmpty(rest) => rest = fragments_to_send_
             /\ IsEmpty(fragments_to_send_) => IsEmpty(rest)
             /\ Size(fragments_to_send_) - Size(rest) = Waiting(fragments_to_send_, h)
             /\ Waiting(rest, h) = 0
             /\ \A p \in Priorities : \A n \in DOMAIN fragments_to_send_[p] :
                  IsEmpty(rest) => fragments_to_send_[p][n].handle_ = h
<1> DEFINE F == fragments_to_send_
           kept(p) == {n \in DOMAIN F[p] : F[p][n].handle_ # h}
           rest == drop_packet_fragments(h)
<1>1. rest = [p \in Priorities |-> Subsequence(F[p], kept(p))]
  BY DEF drop_packet_fragments
<1>2. \A p \in Priorities : F[p] \in Seq(Fragment)
  BY DEF Fragments
<1>3. \A p \in Priorities : Subsequence(F[p], {}) = <<>> /\ Subsequence(F[p], DOMAIN F[p]) = F[p]
  BY <1>2, SubsequenceFacts
<1>4. \A p \in Priorities : DOMAIN F[p] = 1 .. Len(F[p])
  BY <1>2, LenProperties
<1> HIDE DEF F, rest
<1>5. ASSUME IsEmpty(F)
      PROVE  rest = F /\ \A p \in Priorities : DOMAIN F[p] = {}
  <2>1. \A p \in Priorities : F[p] = <<>> /\ DOMAIN F[p] = {}
    BY <1>5 DEF IsEmpty
  <2>2. \A p \in Priorities : kept(p) = {}
    BY <2>1
  <2> HIDE DEF kept
  <2>3. \A p \in Priorities : Subsequence(F[p], kept(p)) = F[p]
    BY <1>3, <2>1, <2>2
  <2>4. F = [p \in Priorities |-> F[p]]
    BY DEF Fragments, F
  <2> QED
    BY <1>1, <2>1, <2>3, <2>4
<1>6. ASSUME NEW k \in Registered(handlers), NEW q \in Priorities,
             PacketAt(F, q, k, handlers[k].connection_type_)
      PROVE  /\ \A p \in Priorities : \A n \in DOMAIN F[p] : F[p][n].handle_ = k
             /\ k # h => rest = F
             /\ k = h => rest = [p \in Priorities |-> <<>>]
  <2>1. \A p \in Priorities \ {q} : F[p] = <<>>
    BY <1>6 DEF PacketAt
  <2>2. \A n \in 1 .. Len(F[q]) : F[q][n].handle_ = k
    BY <1>6 DEF PacketAt, Pieces
  <2>3. \A p \in Priorities : \A n \in DOMAIN F[p] : F[p][n].handle_ = k
    BY <1>4, <2>1, <2>2
  <2>4. ASSUME k # h PROVE rest = F
    <3>1. \A p \in Priorities : kept(p) = DOMAIN F[p]
      BY <2>3, <2>4
    <3> HIDE DEF kept
    <3>2. \A p \in Priorities : Subsequence(F[p], kept(p)) = F[p]
      BY <1>3, <3>1
    <3>3. F = [p \in Priorities |-> F[p]]
      BY DEF Fragments, F
    <3> QED
      BY <1>1, <3>2, <3>3
  <2>5. ASSUME k = h PROVE rest = [p \in Priorities |-> <<>>]
    <3>1. \A p \in Priorities : kept(p) = {}
      BY <2>3, <2>5
    <3> HIDE DEF kept
    <3> QED
      BY <1>1, <1>3, <3>1
  <2> QED
    BY <2>3, <2>4, <2>5
<1>7. F \in Fragments
  BY DEF F
<1>8. CASE IsEmpty(F)
  <2>1. rest = F /\ \A p \in Priorities : DOMAIN F[p] = {}
    BY <1>5, <1>8
  <2>2. Size(F) - Size(rest) = 0 /\ Waiting(F, h) = 0
    BY <1>7, <1>8, <2>1, SizeFacts, NothingWaits
  <2> QED
    BY <1>7, <1>8, <2>1, <2>2 DEF F, rest
<1>9. CASE ~IsEmpty(F)
  <2>1. PICK k \in Registered(handlers), q \in Priorities :
          PacketAt(F, q, k, handlers[k].connection_type_)
    BY <1>9 DEF OnePacket, F
  <2>2. /\ \A p \in Priorities : \A n \in DOMAIN F[p] : F[p][n].handle_ = k
        /\ k # h => rest = F
        /\ k = h => rest = [p \in Priorities |-> <<>>]
    BY <1>6, <2>1
  <2>3. Front(F).handle_ = k
    BY <1>7, <2>1, PacketFront
  <2>4. Size(F) \in Nat
    BY <1>7, SizeFacts
  <2>5. CASE k = h
    <3>1. rest \in Fragments /\ IsEmpty(rest)
      BY <2>2, <2>5, EmptySeq DEF Fragments, IsEmpty
    <3>2. Size(rest) = 0 /\ Waiting(rest, h) = 0
      BY <3>1, SizeFacts, NothingWaits
    <3>3. Waiting(F, h) = Size(F)
      BY <1>9, <2>3, <2>5 DEF Waiting
    <3>4. Size(F) - Size(rest) = Waiting(F, h)
      BY <2>4, <3>2, <3>3
    <3> QED
      BY <1>9, <2>2, <2>5, <3>1, <3>2, <3>4 DEF F, rest
  <2>6. CASE k # h
    <3>1. rest = F /\ Waiting(F, h) = 0
      BY <2>2, <2>3, <2>6 DEF Waiting
    <3>2. Size(F) - Size(rest) = 0
      BY <2>4, <3>1
    <3> QED
      BY <1>7, <1>9, <3>1, <3>2 DEF F, rest
  <2> QED
    BY <2>5, <2>6
<1> QED
  BY <1>8, <1>9

\* What a connection has waiting is counted as sent.
LEMMA CountCovers ==
  ASSUME NEW handlers \in Handlers, NEW fragments \in Fragments, NEW credits,
         NEW ts \in Seq(Task), ts # <<>>, NEW hq, NEW known,
         NEW count \in Buffers, NEW packets, NEW h \in Registered(handlers),
         Fit(handlers, fragments, credits, ts, hq, known, count, packets)
  PROVE  LET r == Reports(Head(ts), h)
             s == handlers[h].number_of_sent_packets_
         IN  /\ Waiting(fragments, h) \in Nat /\ r \in Nat /\ s \in Nat
             /\ Waiting(fragments, h) + r <= s
             /\ \A t \in Nat : s <= t + r =>
                  Covered(Tail(ts), hq, h, Waiting(fragments, h), count[h], t)
<1> DEFINE w == Waiting(fragments, h)
           c == count[h]
           s == handlers[h].number_of_sent_packets_
           r == Reports(Head(ts), h)
<1>1. h \in Handles
  BY DEF Registered
<1>2. w \in Nat /\ c \in Nat /\ s \in Nat
  BY <1>1, SizeFacts, EntryFacts DEF Buffers
<1>3. Covered(ts, hq, h, w, c, s)
  BY DEF Fit, Accounted
<1> HIDE DEF w, c, s
<1>4. w + c + Reports(Head(ts), h) <= s /\ Reports(Head(ts), h) \in Nat
      /\ \A t \in Nat : s <= t + Reports(Head(ts), h) => Covered(Tail(ts), hq, h, w, c, t)
  BY <1>2, <1>3, CoveredRun
<1> HIDE DEF r
<1>5. w + c + r <= s /\ r \in Nat
  BY <1>4 DEF r
<1>6. w + r <= s
  BY <1>2, <1>5
<1> QED
  BY <1>2, <1>4, <1>5, <1>6 DEF w, c, s, r

\* What Unregister does to the map, the fragments, the credits and the packets.
Erased(old, new, fragments, rest, credits, reclaimed, packets, left, h) ==
  /\ new[h] = NoHandler
  /\ \A k \in Handles \ {h} : new[k] = old[k]
  /\ left[h] = <<>>
  /\ \A k \in Handles \ {h} : left[k] = packets[k]
  /\ ~IsEmpty(rest) => rest = fragments
  /\ IsEmpty(fragments) => IsEmpty(rest)
  /\ Size(fragments) - Size(rest) = Waiting(fragments, h)
  /\ Waiting(rest, h) = 0
  /\ \A type \in ConnectionType :
       reclaimed[type] = credits[type] + IF type = old[h].connection_type_
                                         THEN old[h].number_of_sent_packets_ - Waiting(fragments, h)
                                         ELSE 0

\* A connection is unregistered.
LEMMA FitUnregister ==
  ASSUME NEW old \in Handlers, NEW new \in Handlers, NEW fragments \in Fragments,
         NEW rest \in Fragments, NEW credits \in Credits, NEW reclaimed,
         NEW ts \in Seq(Task), ts # <<>>, NEW hq \in Seq(Fragment), NEW known,
         NEW count \in Buffers, NEW packets, NEW left, NEW h \in Handles,
         Is(Head(ts), "Unregister", h),
         Fit(old, fragments, credits, ts, hq, known, count, packets),
         Erased(old, new, fragments, rest, credits, reclaimed, packets, left, h)
  PROVE  /\ Registered(new) = Registered(old) \ {h}
         /\ Fit(new, rest, reclaimed, Tail(ts), hq, known, count, left)
<1> DEFINE us == Tail(ts)
<1>0. /\ new[h] = NoHandler /\ \A k \in Handles \ {h} : new[k] = old[k]
      /\ left[h] = <<>> /\ \A k \in Handles \ {h} : left[k] = packets[k]
      /\ ~IsEmpty(rest) => rest = fragments
      /\ IsEmpty(fragments) => IsEmpty(rest)
      /\ Size(fragments) - Size(rest) = Waiting(fragments, h)
      /\ Waiting(rest, h) = 0
      /\ \A type \in ConnectionType :
           reclaimed[type] = credits[type] + IF type = old[h].connection_type_
                                             THEN old[h].number_of_sent_packets_ - Waiting(fragments, h)
                                             ELSE 0
  BY DEF Erased
<1> USE <1>0
<1>1. \A k \in Handles : LifeOf(old, ts, hq, k, known[k], count[k], packets[k])
  BY DEF Fit, Lifecycle
<1>2. /\ h \in Registered(old)
      /\ Life(us, h, FALSE, new[h].connection_type_, known[h], Own(hq, h) # {}, count[h], FALSE)
  BY <1>1, LifeUnregister DEF LifeOf
<1> HIDE DEF us
<1>3. Registered(new) = Registered(old) \ {h}
  BY DEF Registered
<1>4. Lifecycle(new, us, hq, known, count, left)
  <2> SUFFICES ASSUME NEW k \in Handles
               PROVE  LifeOf(new, us, hq, k, known[k], count[k], left[k])
    BY DEF Lifecycle
  <2>1. CASE k = h
    <3>1. (h \in Registered(new)) = FALSE /\ (left[h] # <<>>) = FALSE
      BY <1>3
    <3> QED
      BY <1>2, <2>1, <3>1 DEF LifeOf
  <2>2. CASE k # h
    <3>1. ~Is(Head(ts), "Register", k)
      BY DEF Is
    <3>2. LifeOf(old, us, hq, k, known[k], count[k], packets[k])
      BY <1>1, <3>1, LifeTail DEF LifeOf, us
    <3>3. new[k] = old[k] /\ left[k] = packets[k] /\ (k \in Registered(new)) = (k \in Registered(old))
      BY <1>3, <2>2
    <3> QED
      BY <3>2, <3>3 DEF LifeOf
  <2> QED
    BY <2>1, <2>2
<1>5. OnePacket(old, fragments)
  BY DEF Fit
<1>6. OnePacket(new, rest)
  <2> SUFFICES ASSUME ~IsEmpty(rest)
               PROVE  \E k \in Registered(new), p \in Priorities :
                        PacketAt(rest, p, k, new[k].connection_type_)
    BY DEF OnePacket
  <2>1. rest = fragments
    OBVIOUS
  <2>2. PICK k \in Registered(old), p \in Priorities : PacketAt(rest, p, k, old[k].connection_type_)
    BY <1>5, <2>1 DEF OnePacket
  <2>3. Front(rest).handle_ = k /\ Size(rest) = Len(rest[p]) /\ Len(rest[p]) \in Nat \ {0}
    BY <2>2, PacketFront
  <2>4. k # h
    BY <2>3 DEF Waiting
  <2>5. k \in Registered(new) /\ new[k] = old[k]
    BY <1>3, <2>4 DEF Registered
  <2> QED
    BY <2>2, <2>5
<1>7. Accounted(new, rest, us, hq, count)
  <2> SUFFICES ASSUME NEW k \in Registered(new)
               PROVE  Covered(us, hq, k, Waiting(rest, k), count[k], new[k].number_of_sent_packets_)
    BY DEF Accounted
  <2>1. k \in Registered(old) /\ k \in Handles /\ new[k] = old[k] /\ k # h
    BY <1>3 DEF Registered
  <2> DEFINE w == Waiting(fragments, k)
             v == Waiting(rest, k)
             c == count[k]
             s == old[k].number_of_sent_packets_
             r == Reports(Head(ts), k)
  <2>2. w \in Nat /\ r \in Nat /\ s \in Nat /\ \A t \in Nat : s <= t + r => Covered(us, hq, k, w, c, t)
    BY <2>1, CountCovers DEF us
  <2>3. c \in Nat /\ v \in Nat
    BY <2>1, SizeFacts DEF Buffers
  <2>4. v <= w
    <3>1. CASE IsEmpty(rest)
      <4>1. v = 0
        BY <3>1, NothingWaits
      <4> HIDE DEF v, w
      <4> QED
        BY <2>2, <4>1
    <3>2. CASE ~IsEmpty(rest)
      <4>1. v = w
        BY <3>2
      <4> HIDE DEF v, w
      <4> QED
        BY <2>2, <4>1
    <3> QED
      BY <3>1, <3>2
  <2> HIDE DEF w, v, c, s, r
  <2>5. Covered(us, hq, k, w, c, s)
    <3>1. s <= s + r
      BY <2>2
    <3> QED
      BY <2>2, <3>1
  <2>6. v + c + s <= w + c + s
    BY <2>2, <2>3, <2>4
  <2>7. Covered(us, hq, k, v, c, s)
    BY <2>2, <2>3, <2>5, <2>6, CoveredMore
  <2> QED
    BY <2>1, <2>7 DEF v, c, s
<1>8. Conserved(new, rest, reclaimed)
  <2> SUFFICES ASSUME NEW type \in ConnectionType
               PROVE  reclaimed[type] + Sum(Counts(new), OfTypeIn(new, type))
                      = MaxCredits[type] + PendingOf(rest, type)
    BY DEF Conserved, OfTypeIn
  <2> DEFINE a == Sum(Counts(old), OfTypeIn(old, type))
             b == Sum(Counts(new), OfTypeIn(new, type))
             s == old[h].number_of_sent_packets_
             w == Waiting(fragments, h)
             pf == PendingOf(fragments, type)
             pr == PendingOf(rest, type)
  <2>1. credits[type] + a = MaxCredits[type] + pf
    BY DEF Fit, Conserved, OfTypeIn
  <2>2. b \in Nat /\ a = b + IF old[h].connection_type_ = type THEN s ELSE 0
    <3>1. Types(new)[h] \notin ConnectionType
      BY CountsType DEF NoHandler, ConnectionType
    <3>2. \A k \in Handles \ {h} : Types(new)[k] = Types(old)[k] /\ Counts(new)[k] = Counts(old)[k]
      BY DEF Types, Counts
    <3>3. Types(old)[h] = old[h].connection_type_ /\ Counts(old)[h] = s
      BY CountsType
    <3> QED
      BY <3>1, <3>2, <3>3, CountRemoved
  <2>3. s \in Nat /\ w \in Nat /\ pf \in Nat /\ pr \in Nat /\ credits[type] \in Nat
        /\ MaxCredits[type] \in Nat
    BY EntryFacts, SizeFacts, CreditsAssumption DEF Credits
  <2>4. pf = pr + IF type = old[h].connection_type_ THEN w ELSE 0
    <3>1. CASE ~IsEmpty(rest)
      <4>1. pf = pr /\ w = 0
        BY <3>1
      <4> HIDE DEF pf, pr, w
      <4> QED
        BY <2>3, <4>1
    <3>2. CASE IsEmpty(rest) /\ IsEmpty(fragments)
      <4>1. pf = 0 /\ pr = 0 /\ w = 0
        BY <3>2, NothingWaits
      <4> HIDE DEF pf, pr, w
      <4> QED
        BY <4>1
    <3>3. CASE IsEmpty(rest) /\ ~IsEmpty(fragments)
      <4>1. PICK o \in Registered(old) :
               /\ Size(fragments) > 0
               /\ \A g : g # o => Waiting(fragments, g) = 0
               /\ PendingOf(fragments, old[o].connection_type_) = Size(fragments)
               /\ \A t : t # old[o].connection_type_ => PendingOf(fragments, t) = 0
        BY <1>5, <3>3, OwnerFacts
      <4>2. Size(rest) = 0 /\ pr = 0 /\ Size(fragments) \in Nat
        BY <3>3, SizeFacts, NothingWaits
      <4>3. w = Size(fragments)
        BY <4>2
      <4>4. o = h
        BY <4>1, <4>3
      <4>5. pf = IF type = old[h].connection_type_ THEN w ELSE 0
        BY <4>1, <4>3, <4>4
      <4> HIDE DEF pf, pr, w
      <4> QED
        BY <2>3, <4>2, <4>5
    <3> QED
      BY <3>1, <3>2, <3>3
  <2>5. reclaimed[type] = credits[type] + IF type = old[h].connection_type_ THEN s - w ELSE 0
    OBVIOUS
  <2> HIDE DEF a, b, s, w, pf, pr
  <2> DEFINE cr == credits[type]
             re == reclaimed[type]
             mx == MaxCredits[type]
  <2>6. cr + a = mx + pf /\ cr \in Nat /\ mx \in Nat
    BY <2>1, <2>3
  <2>7. CASE type = old[h].connection_type_
    <3>1. a = b + s /\ pf = pr + w /\ re = cr + (s - w)
      BY <2>2, <2>4, <2>5, <2>7
    <3> HIDE DEF cr, re, mx
    <3>2. re + b = mx + pr
      BY <2>2, <2>3, <2>6, <3>1
    <3> QED
      BY <3>2 DEF b, pr, re, mx
  <2>8. CASE type # old[h].connection_type_
    <3>1. a = b + 0 /\ pf = pr + 0 /\ re = cr + 0
      BY <2>2, <2>4, <2>5, <2>8
    <3> HIDE DEF cr, re, mx
    <3>2. re + b = mx + pr
      BY <2>2, <2>3, <2>6, <3>1
    <3> QED
      BY <3>2 DEF b, pr, re, mx
  <2> QED
    BY <2>7, <2>8
<1> QED
  BY <1>3, <1>4, <1>6, <1>7, <1>8 DEF Fit, us

\* Completed packets were sent, and there is room for the credits they give back.
LEMMA CreditsBound ==
  ASSUME NEW handlers \in Handlers, NEW fragments \in Fragments, NEW credits \in Credits,
         NEW ts \in Seq(Task), ts # <<>>, NEW hq, NEW known,
         NEW count \in Buffers, NEW packets, NEW h \in Registered(handlers),
         Fit(handlers, fragments, credits, ts, hq, known, count, packets)
  PROVE  LET r == Reports(Head(ts), h)
             type == handlers[h].connection_type_
         IN  /\ r \in Nat /\ r <= handlers[h].number_of_sent_packets_
             /\ credits[type] + r <= MaxCredits[type]
<1> DEFINE type == handlers[h].connection_type_
           r == Reports(Head(ts), h)
           f == Counts(handlers)
           S == OfTypeIn(handlers, type)
           w == Waiting(fragments, h)
           p == PendingOf(fragments, type)
           cr == credits[type]
           mx == MaxCredits[type]
<1>1. h \in Handles /\ type \in ConnectionType
  BY EntryFacts DEF Registered
<1>2. f \in [Handles -> Nat] /\ f[h] = handlers[h].number_of_sent_packets_ /\ Types(handlers)[h] = type
  BY <1>1, CountsType
<1>3. S \in SUBSET Handles /\ h \in S
  BY <1>1, <1>2 DEF OfTypeIn
<1>4. w \in Nat /\ r \in Nat /\ f[h] \in Nat /\ w + r <= f[h]
  BY <1>2, CountCovers
<1>5. cr + Sum(f, S) = mx + p
  BY <1>1 DEF Fit, Conserved, OfTypeIn
<1>6. cr \in Nat /\ mx \in Nat /\ p \in Nat
  BY <1>1, SizeFacts, CreditsAssumption DEF Credits
<1>7. Sum(f, S) = Sum(f, S \ {h}) + f[h] /\ Sum(f, S \ {h}) \in Nat
  <2> HIDE DEF f, S
  <2> QED
    BY <1>2, <1>3, SumSplit
<1>8. p <= Sum(f, S \ {h}) \/ p <= w
  <2>1. CASE p = 0
    <3> HIDE DEF p, w, f, S
    <3> QED
      BY <1>7, <2>1
  <2>2. CASE p # 0
    <3>1. ~IsEmpty(fragments)
      BY <2>2, NothingWaits
    <3>2. OnePacket(handlers, fragments)
      BY DEF Fit
    <3>3. PICK o \in Registered(handlers) :
             /\ Waiting(fragments, o) = Size(fragments)
             /\ PendingOf(fragments, handlers[o].connection_type_) = Size(fragments)
             /\ \A t : t # handlers[o].connection_type_ => PendingOf(fragments, t) = 0
      BY <3>1, <3>2, OwnerFacts
    <3>4. handlers[o].connection_type_ = type /\ p = Waiting(fragments, o)
      BY <2>2, <3>3
    <3>5. CASE o = h
      BY <1>4, <3>4, <3>5
    <3>6. CASE o # h
      <4> DEFINE wo == Waiting(fragments, o)
                 ro == Reports(Head(ts), o)
                 T == S \ {h}
      <4>1. o \in Handles
        BY DEF Registered
      <4>2. f[o] = handlers[o].number_of_sent_packets_ /\ Types(handlers)[o] = type
        BY <3>4, <4>1, CountsType
      <4>3. o \in T /\ T \in SUBSET Handles
        BY <3>6, <4>1, <4>2 DEF OfTypeIn
      <4>4. wo \in Nat /\ ro \in Nat /\ f[o] \in Nat /\ wo + ro <= f[o]
        BY <4>2, CountCovers
      <4> HIDE DEF f, T, wo, ro
      <4>5. Sum(f, T) = Sum(f, T \ {o}) + f[o] /\ Sum(f, T \ {o}) \in Nat
        BY <1>2, <4>3, SumSplit
      <4>6. wo <= Sum(f, T)
        BY <4>4, <4>5
      <4> QED
        BY <3>4, <4>6 DEF T, wo
    <3> QED
      BY <3>5, <3>6
  <2> QED
    BY <2>1, <2>2
<1> DEFINE rest == Sum(f, S \ {h})
           sum == Sum(f, S)
           n == f[h]
<1>9. /\ sum = rest + n /\ rest \in Nat /\ cr + sum = mx + p /\ w + r <= n /\ (p <= rest \/ p <= w)
      /\ n \in Nat
  BY <1>4, <1>5, <1>7, <1>8
<1> HIDE DEF rest, sum, n, cr, mx, p, w, r
<1>10. r <= n /\ cr + r <= mx
  BY <1>4, <1>6, <1>9
<1> QED
  BY <1>2, <1>4, <1>10 DEF n, r, cr, mx

\* The credits of completed packets come back.
LEMMA FitCredits ==
  ASSUME NEW old \in Handlers, NEW new \in Handlers, NEW fragments \in Fragments,
         NEW credits \in Credits, NEW more,
         NEW ts \in Seq(Task), ts # <<>>, NEW hq \in Seq(Fragment), NEW known,
         NEW count \in Buffers, NEW packets, NEW h \in Registered(old),
         Head(ts).run # "Register",
         Fit(old, fragments, credits, ts, hq, known, count, packets),
         new[h].connection_type_ = old[h].connection_type_,
         new[h].number_of_sent_packets_ = old[h].number_of_sent_packets_ - Reports(Head(ts), h),
         \A k \in Handles \ {h} : new[k] = old[k],
         \A type \in ConnectionType :
           more[type] = credits[type]
                          + IF type = old[h].connection_type_ THEN Reports(Head(ts), h) ELSE 0
  PROVE  /\ Registered(new) = Registered(old)
         /\ Fit(new, fragments, more, Tail(ts), hq, known, count, packets)
<1> DEFINE us == Tail(ts)
           r == Reports(Head(ts), h)
           s == old[h].number_of_sent_packets_
<1>1. h \in Handles /\ old[h].connection_type_ \in ConnectionType
  BY EntryFacts DEF Registered
<1>2. Registered(new) = Registered(old)
  <2>1. h \in Registered(new)
    BY <1>1, EntryFacts DEF ConnectionType
  <2> QED
    BY <2>1 DEF Registered
<1>3. Fit(old, fragments, credits, us, hq, known, count, packets)
  BY FitRun
<1>4. r \in Nat /\ s \in Nat /\ s - r \in Nat
  <2>1. r \in Nat /\ r <= s /\ s \in Nat
    BY <1>1, CreditsBound, EntryFacts
  <2> HIDE DEF r, s
  <2> QED
    BY <2>1
<1> HIDE DEF us
<1>5. Lifecycle(new, us, hq, known, count, packets)
  <2> SUFFICES ASSUME NEW k \in Handles
               PROVE  LifeOf(new, us, hq, k, known[k], count[k], packets[k])
    BY DEF Lifecycle
  <2>1. LifeOf(old, us, hq, k, known[k], count[k], packets[k])
    BY <1>3 DEF Fit, Lifecycle
  <2>2. new[k].connection_type_ = old[k].connection_type_
    BY <1>1
  <2> QED
    BY <1>2, <2>1, <2>2 DEF LifeOf
<1>6. OnePacket(new, fragments)
  <2>1. OnePacket(old, fragments)
    BY DEF Fit
  <2>2. \A k \in Registered(old) : new[k].connection_type_ = old[k].connection_type_
    BY DEF Registered
  <2> QED
    BY <1>2, <2>1, <2>2 DEF OnePacket
<1>7. Accounted(new, fragments, us, hq, count)
  <2> SUFFICES ASSUME NEW k \in Registered(old)
               PROVE  Covered(us, hq, k, Waiting(fragments, k), count[k], new[k].number_of_sent_packets_)
    BY <1>2 DEF Accounted
  <2>1. CASE k = h
    <3>1. \A t \in Nat : s <= t + r => Covered(us, hq, h, Waiting(fragments, h), count[h], t)
      BY CountCovers DEF us
    <3> HIDE DEF r, s
    <3>2. s <= (s - r) + r
      BY <1>4
    <3>3. Covered(us, hq, h, Waiting(fragments, h), count[h], s - r)
      BY <1>4, <3>1, <3>2
    <3> QED
      BY <2>1, <3>3 DEF r, s
  <2>2. CASE k # h
    <3>1. new[k] = old[k]
      BY <2>2 DEF Registered
    <3>2. Accounted(old, fragments, us, hq, count)
      BY <1>3 DEF Fit
    <3> QED
      BY <3>1, <3>2 DEF Accounted
  <2> QED
    BY <2>1, <2>2
<1>8. Conserved(new, fragments, more)
  <2> DEFINE type == old[h].connection_type_
  <2>1. \A k \in Handles \ {h} : Types(new)[k] = Types(old)[k] /\ Counts(new)[k] = Counts(old)[k]
    BY DEF Types, Counts
  <2>2. Types(old)[h] = type /\ Types(new)[h] = type /\ Counts(old)[h] = s /\ Counts(new)[h] = s - r
    BY <1>1 DEF Types, Counts
  <2>3. Conserved(old, fragments, credits)
    BY DEF Fit
  <2> HIDE DEF type, r, s
  <2>4. /\ \E rest \in Nat : /\ Sum(Counts(old), OfTypeIn(old, type)) = rest + Counts(old)[h]
                             /\ Sum(Counts(new), OfTypeIn(new, type)) = rest + Counts(new)[h]
        /\ \A other : other # type =>
             Sum(Counts(new), OfTypeIn(new, other)) = Sum(Counts(old), OfTypeIn(old, other))
    BY <1>1, <2>1, <2>2, CountChanged
  <2> SUFFICES ASSUME NEW t \in ConnectionType
               PROVE  more[t] + Sum(Counts(new), OfTypeIn(new, t))
                      = MaxCredits[t] + PendingOf(fragments, t)
    BY DEF Conserved, OfTypeIn
  <2> DEFINE a == Sum(Counts(old), OfTypeIn(old, t))
             b == Sum(Counts(new), OfTypeIn(new, t))
             cr == credits[t]
             mx == MaxCredits[t]
             p == PendingOf(fragments, t)
  <2>5. cr + a = mx + p
    BY <2>3 DEF Conserved, OfTypeIn
  <2>6. cr \in Nat /\ mx \in Nat /\ p \in Nat
    BY SizeFacts, CreditsAssumption DEF Credits
  <2>7. CASE t = type
    <3>1. PICK rest \in Nat : a = rest + s /\ b = rest + (s - r)
      BY <2>2, <2>4, <2>7
    <3>2. more[t] = cr + r
      BY <2>7 DEF type, r
    <3> HIDE DEF a, b, cr, mx, p
    <3>3. (cr + r) + b = mx + p
      BY <1>4, <2>5, <2>6, <3>1
    <3> QED
      BY <3>2, <3>3 DEF b, mx, p
  <2>8. CASE t # type
    <3>1. a = b
      BY <2>4, <2>8
    <3>2. more[t] = cr + 0
      BY <2>8 DEF type
    <3>3. more[t] = cr
      BY <2>6, <3>2
    <3> QED
      BY <2>5, <3>1, <3>3
  <2> QED
    BY <2>7, <2>8
<1> QED
  BY <1>2, <1>5, <1>6, <1>7, <1>8 DEF Fit, us

\* Whose fragments are in the HCI queue when one comes or goes.
LEMMA OwnAppend ==
  ASSUME NEW q \in Seq(Fragment), NEW e \in Fragment, NEW h
  PROVE  Own(Append(q, e), h) # {} <=> Own(q, h) # {} \/ e.handle_ = h
<1> DEFINE u == Append(q, e)
<1>1. /\ u \in Seq(Fragment) /\ Len(u) = Len(q) + 1 /\ Len(q) \in Nat
      /\ \A n \in 1 .. Len(q) : u[n] = q[n]
      /\ u[Len(q) + 1] = e
  BY AppendFacts
<1> HIDE DEF u
<1>2. DOMAIN u = 1 .. Len(q) + 1 /\ DOMAIN q = 1 .. Len(q)
  BY <1>1, LenProperties
<1>3. \A n \in 1 .. Len(q) + 1 : n \in 1 .. Len(q) \/ n = Len(q) + 1
  BY <1>1
<1>4. \A n \in 1 .. Len(q) : n \in 1 .. Len(q) + 1
  BY <1>1
<1>5. Len(q) + 1 \in 1 .. Len(q) + 1
  BY <1>1
<1>6. ASSUME Own(u, h) # {} PROVE Own(q, h) # {} \/ e.handle_ = h
  <2>1. PICK n \in 1 .. Len(q) + 1 : u[n].handle_ = h
    BY <1>2, <1>6 DEF Own
  <2> QED
    BY <1>1, <1>2, <1>3, <2>1 DEF Own
<1>7. ASSUME Own(q, h) # {} \/ e.handle_ = h PROVE Own(u, h) # {}
  BY <1>1, <1>2, <1>4, <1>5, <1>7 DEF Own
<1> QED
  BY <1>6, <1>7 DEF u

\* Taking the first fragment adds none, and the first one is somebody's.
LEMMA OwnTail ==
  ASSUME NEW q \in Seq(Fragment), q # <<>>, NEW h
  PROVE  /\ Own(Tail(q), h) # {} => Own(q, h) # {}
         /\ q[1].handle_ = h => Own(q, h) # {}
<1> DEFINE u == Tail(q)
<1>1. /\ u \in Seq(Fragment) /\ Len(q) \in Nat /\ Len(q) > 0
      /\ \A n \in 1 .. Len(u) : u[n] = q[n + 1] /\ n + 1 \in 1 .. Len(q)
  BY TailFacts
<1> HIDE DEF u
<1>2. DOMAIN u = 1 .. Len(u) /\ DOMAIN q = 1 .. Len(q)
  BY <1>1, LenProperties
<1>3. 1 \in 1 .. Len(q)
  BY <1>1
<1>4. Own(u, h) # {} => Own(q, h) # {}
  BY <1>1, <1>2 DEF Own
<1> QED
  BY <1>2, <1>3, <1>4 DEF Own, u

\* A fragment is handed to the HCI layer.
LEMMA FitHand ==
  ASSUME NEW handlers \in Handlers, NEW fragments \in Fragments, NEW credits \in Credits, NEW spent,
         NEW ts, NEW hq \in Seq(Fragment), NEW known, NEW count \in Buffers, NEW packets,
         ~IsEmpty(fragments),
         Fit(handlers, fragments, credits, ts, hq, known, count, packets),
         \A type \in ConnectionType :
           spent[type] = credits[type] - IF type = Front(fragments).connection_type_ THEN 1 ELSE 0
  PROVE  /\ Pop(fragments) \in Fragments
         /\ Append(hq, Front(fragments)) \in Seq(Fragment)
         /\ Front(fragments).connection_type_ \in ConnectionType
         /\ ~IsEmpty(Pop(fragments)) =>
              Front(Pop(fragments)).connection_type_ = Front(fragments).connection_type_
         /\ Fit(handlers, Pop(fragments), spent, ts, Append(hq, Front(fragments)), known, count, packets)
<1> DEFINE e == Front(fragments)
           rest == Pop(fragments)
           nq == Append(hq, e)
           n == Size(fragments)
<1>1. PICK k \in Registered(handlers), p \in Priorities :
        PacketAt(fragments, p, k, handlers[k].connection_type_)
  BY DEF Fit, OnePacket
<1>2. k \in Handles /\ handlers[k].connection_type_ \in ConnectionType
  BY EntryFacts DEF Registered
<1>3. e \in Fragment /\ e.handle_ = k /\ e.connection_type_ = handlers[k].connection_type_
      /\ n \in Nat /\ n > 0
  BY <1>1, PacketFront
<1>4. /\ rest \in Fragments /\ Size(rest) = n - 1
      /\ ~IsEmpty(rest) => PacketAt(rest, p, k, handlers[k].connection_type_)
  BY <1>1, PacketPop
<1>5. nq \in Seq(Fragment)
  BY <1>3, AppendFacts
<1>6. \A h : Own(nq, h) # {} <=> Own(hq, h) # {} \/ e.handle_ = h
  BY <1>3, OwnAppend
<1> HIDE DEF e, rest, nq, n
<1>7. ~IsEmpty(rest) => Front(rest).handle_ = k /\ Front(rest).connection_type_ = handlers[k].connection_type_
  BY <1>4, PacketFront
<1>8. IsEmpty(rest) => n - 1 = 0
  BY <1>4, SizeFacts
<1>9. Lifecycle(handlers, ts, nq, known, count, packets)
  <2> SUFFICES ASSUME NEW h \in Handles
               PROVE  LifeOf(handlers, ts, nq, h, known[h], count[h], packets[h])
    BY DEF Lifecycle
  <2>1. LifeOf(handlers, ts, hq, h, known[h], count[h], packets[h])
    BY DEF Fit, Lifecycle
  <2>2. CASE h = k
    BY <2>1, <2>2, LifeRegistered DEF LifeOf
  <2>3. CASE h # k
    <3>1. (Own(nq, h) # {}) = (Own(hq, h) # {})
      BY <1>3, <1>6, <2>3
    <3> QED
      BY <2>1, <3>1 DEF LifeOf
  <2> QED
    BY <2>2, <2>3
<1>10. OnePacket(handlers, rest)
  BY <1>4 DEF OnePacket
<1>11. Accounted(handlers, rest, ts, nq, count)
  <2> SUFFICES ASSUME NEW h \in Registered(handlers)
               PROVE  Covered(ts, nq, h, Waiting(rest, h), count[h], handlers[h].number_of_sent_packets_)
    BY DEF Accounted
  <2> DEFINE w == Waiting(fragments, h)
             v == Waiting(rest, h)
             c == count[h]
             s == handlers[h].number_of_sent_packets_
  <2>1. h \in Handles
    BY DEF Registered
  <2>2. w \in Nat /\ v \in Nat /\ c \in Nat /\ s \in Nat
    BY <1>4, <2>1, SizeFacts, EntryFacts DEF Buffers
  <2>3. Covered(ts, hq, h, w, c, s)
    BY DEF Fit, Accounted
  <2>4. v + Counts1(e, h) <= w
    <3>1. CASE h = k
      <4>1. w = n
        BY <1>3, <3>1 DEF Waiting, e, n
      <4>2. v = n - 1
        <5>1. CASE IsEmpty(rest)
          BY <1>8, <5>1 DEF Waiting
        <5>2. CASE ~IsEmpty(rest)
          BY <1>4, <1>7, <3>1, <5>2 DEF Waiting
        <5> QED
          BY <5>1, <5>2
      <4>3. Counts1(e, h) = 1
        BY <1>3, <3>1 DEF Counts1
      <4> HIDE DEF v, w
      <4> QED
        BY <1>3, <4>1, <4>2, <4>3
    <3>2. CASE h # k
      <4>1. v = 0 /\ Counts1(e, h) = 0
        BY <1>3, <1>7, <3>2 DEF Waiting, Counts1
      <4> HIDE DEF v, w
      <4> QED
        BY <2>2, <4>1
    <3> QED
      BY <3>1, <3>2
  <2> HIDE DEF w, v, c, s
  <2>5. Covered(ts, nq, h, v, c, s)
    BY <1>3, <2>2, <2>3, <2>4, CoveredHand DEF nq
  <2> QED
    BY <2>5 DEF v, c, s
<1>12. Conserved(handlers, rest, spent)
  <2> SUFFICES ASSUME NEW type \in ConnectionType
               PROVE  spent[type] + Sum(Counts(handlers), OfTypeIn(handlers, type))
                      = MaxCredits[type] + PendingOf(rest, type)
    BY DEF Conserved, OfTypeIn
  <2> DEFINE a == Sum(Counts(handlers), OfTypeIn(handlers, type))
             cr == credits[type]
             mx == MaxCredits[type]
             pf == PendingOf(fragments, type)
             pr == PendingOf(rest, type)
  <2>1. cr + a = mx + pf
    BY DEF Fit, Conserved, OfTypeIn
  <2>2. cr \in Nat /\ mx \in Nat /\ pf \in Nat /\ pr \in Nat /\ a \in Nat
    <3>1. OfTypeIn(handlers, type) \in SUBSET Handles /\ Counts(handlers) \in [Handles -> Nat]
      BY CountsType DEF OfTypeIn
    <3>2. a \in Nat
      BY <3>1, SumType
    <3> QED
      BY <1>4, <3>2, SizeFacts, CreditsAssumption DEF Credits
  <2>3. CASE type = e.connection_type_
    <3>1. pf = n
      BY <2>3 DEF PendingOf, e, n
    <3>2. pr = n - 1
      <4>1. CASE IsEmpty(rest)
        BY <1>8, <4>1 DEF PendingOf
      <4>2. CASE ~IsEmpty(rest)
        BY <1>3, <1>4, <1>7, <2>3, <4>2 DEF PendingOf
      <4> QED
        BY <4>1, <4>2
    <3>3. spent[type] = cr - 1
      BY <2>3 DEF e
    <3> HIDE DEF a, cr, mx, pf, pr
    <3>4. (cr - 1) + a = mx + pr
      BY <1>3, <2>1, <2>2, <3>1, <3>2
    <3> QED
      BY <3>3, <3>4 DEF a, mx, pr
  <2>4. CASE type # e.connection_type_
    <3>1. pf = 0 /\ pr = 0
      BY <1>3, <1>7, <2>4 DEF PendingOf, e
    <3>2. spent[type] = cr - 0
      BY <2>4 DEF e
    <3>3. spent[type] = cr
      BY <2>2, <3>2
    <3> QED
      BY <2>1, <3>1, <3>3
  <2> QED
    BY <2>3, <2>4
<1> QED
  BY <1>2, <1>3, <1>4, <1>5, <1>7, <1>9, <1>10, <1>11, <1>12 DEF Fit, e, rest, nq

\* start_round_robin is posted.
LEMMA FitPosted ==
  ASSUME NEW handlers \in Handlers, NEW fragments \in Fragments, NEW credits,
         NEW ts \in Seq(Task), NEW e \in Task, e.run = "start_round_robin", NEW hq, NEW known,
         NEW count \in Buffers, NEW packets,
         Fit(handlers, fragments, credits, ts, hq, known, count, packets)
  PROVE  Fit(handlers, fragments, credits, Append(ts, e), hq, known, count, packets)
<1>1. Lifecycle(handlers, Append(ts, e), hq, known, count, packets)
  <2> SUFFICES ASSUME NEW h \in Handles
               PROVE  LifeOf(handlers, Append(ts, e), hq, h, known[h], count[h], packets[h])
    BY DEF Lifecycle
  <2>1. LifeOf(handlers, ts, hq, h, known[h], count[h], packets[h])
    BY DEF Fit, Lifecycle
  <2>2. ~About(e, h)
    BY DEF About
  <2> QED
    BY <2>1, <2>2, LifeAppend DEF LifeOf
<1>2. Accounted(handlers, fragments, Append(ts, e), hq, count)
  <2> SUFFICES ASSUME NEW h \in Registered(handlers)
               PROVE  Covered(Append(ts, e), hq, h, Waiting(fragments, h), count[h],
                              handlers[h].number_of_sent_packets_)
    BY DEF Accounted
  <2> DEFINE w == Waiting(fragments, h)
             c == count[h]
             s == handlers[h].number_of_sent_packets_
  <2>1. h \in Handles
    BY DEF Registered
  <2>2. w \in Nat /\ c \in Nat /\ s \in Nat
    BY <2>1, SizeFacts, EntryFacts DEF Buffers
  <2>3. Covered(ts, hq, h, w, c, s)
    BY DEF Fit, Accounted
  <2>4. Reports(e, h) = 0
    BY DEF Reports, Is
  <2> HIDE DEF w, c, s
  <2>5. c + Reports(e, h) <= c
    BY <2>2, <2>4
  <2>6. Covered(Append(ts, e), hq, h, w, c, s)
    BY <2>2, <2>3, <2>5, CoveredPost
  <2> QED
    BY <2>6 DEF w, c, s
<1> QED
  BY <1>1, <1>2 DEF Fit

\* The HCI layer hands a fragment to the controller.
LEMMA FitTake ==
  ASSUME NEW handlers \in Handlers, NEW fragments \in Fragments, NEW credits,
         NEW ts, NEW hq \in Seq(Fragment), hq # <<>>, NEW known, NEW count \in Buffers,
         NEW more \in Buffers, NEW packets, NEW g \in Handles, g = Head(hq).handle_,
         Fit(handlers, fragments, credits, ts, hq, known, count, packets),
         more[g] = IF known[g] # "down" THEN count[g] + 1 ELSE count[g],
         \A h \in Handles \ {g} : more[h] = count[h]
  PROVE  Fit(handlers, fragments, credits, ts, Tail(hq), known, more, packets)
<1>1. Head(hq) = hq[1] /\ Tail(hq) \in Seq(Fragment) /\ hq[1] \in Fragment
  BY TailFacts
<1>2. Lifecycle(handlers, ts, Tail(hq), known, more, packets)
  <2> SUFFICES ASSUME NEW h \in Handles
               PROVE  LifeOf(handlers, ts, Tail(hq), h, known[h], more[h], packets[h])
    BY DEF Lifecycle
  <2>1. LifeOf(handlers, ts, hq, h, known[h], count[h], packets[h])
    BY DEF Fit, Lifecycle
  <2>2. Own(Tail(hq), h) # {} => Own(hq, h) # {}
    BY OwnTail
  <2>3. LifeOf(handlers, ts, Tail(hq), h, known[h], count[h], packets[h])
    BY <2>1, <2>2, LifeLess DEF LifeOf
  <2>4. CASE h = g /\ known[g] # "down"
    <3>1. Own(hq, h) # {}
      BY <1>1, <2>4, OwnTail
    <3>2. h \in Registered(handlers)
      BY <2>1, <2>4, <3>1 DEF LifeOf, Life, RegisterIsFirst, LinkKnown
    <3> DEFINE handed == Own(Tail(hq), h) # {}
               waiting == packets[h] # <<>>
               type == handlers[h].connection_type_
    <3>3. Life(ts, h, h \in Registered(handlers), type, known[h], handed, count[h], waiting)
      BY <2>3 DEF LifeOf
    <3>4. known[h] # "down"
      BY <2>4
    <3> HIDE DEF handed, waiting, type
    <3>5. Life(ts, h, h \in Registered(handlers), type, known[h], handed, more[h], waiting)
      BY <3>2, <3>3, <3>4 DEF Life, RegisterIsFirst, UnregisterIsLast, LinkKnown
    <3> QED
      BY <3>5 DEF LifeOf, handed, waiting, type
  <2>5. CASE ~(h = g /\ known[g] # "down")
    <3>1. more[h] = count[h]
      BY <2>5
    <3> QED
      BY <2>3, <3>1
  <2> QED
    BY <2>4, <2>5
<1>3. Accounted(handlers, fragments, ts, Tail(hq), more)
  <2> SUFFICES ASSUME NEW h \in Registered(handlers)
               PROVE  Covered(ts, Tail(hq), h, Waiting(fragments, h), more[h],
                              handlers[h].number_of_sent_packets_)
    BY DEF Accounted
  <2> DEFINE w == Waiting(fragments, h)
             c == count[h]
             m == more[h]
             s == handlers[h].number_of_sent_packets_
  <2>1. h \in Handles
    BY DEF Registered
  <2>2. w \in Nat /\ c \in Nat /\ s \in Nat /\ m \in Nat
    BY <2>1, SizeFacts, EntryFacts DEF Buffers
  <2>3. Covered(ts, hq, h, w, c, s)
    BY DEF Fit, Accounted
  <2>4. m <= c + Counts1(Head(hq), h)
    <3>1. CASE h = g
      <4>1. Counts1(Head(hq), h) = 1 /\ (m = c + 1 \/ m = c)
        BY <3>1 DEF Counts1
      <4> HIDE DEF m, c
      <4> QED
        BY <2>2, <4>1
    <3>2. CASE h # g
      <4>1. Counts1(Head(hq), h) = 0 /\ m = c
        BY <2>1, <3>2 DEF Counts1
      <4> HIDE DEF m, c
      <4> QED
        BY <2>2, <4>1
    <3> QED
      BY <3>1, <3>2
  <2> HIDE DEF w, c, s, m
  <2>5. Covered(ts, Tail(hq), h, w, m, s)
    BY <2>2, <2>3, <2>4, CoveredTake
  <2> QED
    BY <2>5 DEF w, m, s
<1> QED
  BY <1>2, <1>3 DEF Fit

\* A packet is taken from the queue of a connection while nothing waits.
LEMMA FitBuffer ==
  ASSUME NEW old \in Handlers, NEW new \in Handlers, NEW fragments \in Fragments,
         NEW next \in Fragments, NEW credits \in Credits,
         NEW ts, NEW hq \in Seq(Fragment), NEW known, NEW count \in Buffers, NEW packets, NEW left,
         NEW h \in Registered(old), NEW p \in Priorities,
         IsEmpty(fragments), PacketAt(next, p, h, old[h].connection_type_),
         Fit(old, fragments, credits, ts, hq, known, count, packets),
         Types(new) = Types(old), Registered(new) = Registered(old),
         Counts(new)[h] = Counts(old)[h] + Size(next),
         \A k \in Handles \ {h} : Counts(new)[k] = Counts(old)[k] /\ left[k] = packets[k]
  PROVE  Fit(new, next, credits, ts, hq, known, count, left)
<1> DEFINE n == Size(next)
           type == old[h].connection_type_
<1>1. h \in Handles /\ type \in ConnectionType
  BY EntryFacts DEF Registered
<1>2. Front(next).handle_ = h /\ Front(next).connection_type_ = type /\ ~IsEmpty(next) /\ n \in Nat
  BY PacketFront
<1>3. \A k \in Handles : /\ new[k].connection_type_ = old[k].connection_type_
                         /\ Counts(old)[k] = old[k].number_of_sent_packets_
                         /\ Counts(new)[k] = new[k].number_of_sent_packets_
                         /\ Counts(old)[k] \in Nat /\ Counts(new)[k] \in Nat
  BY CountsType
<1> HIDE DEF n
<1>4. Lifecycle(new, ts, hq, known, count, left)
  <2> SUFFICES ASSUME NEW k \in Handles
               PROVE  LifeOf(new, ts, hq, k, known[k], count[k], left[k])
    BY DEF Lifecycle
  <2>1. LifeOf(old, ts, hq, k, known[k], count[k], packets[k])
    BY DEF Fit, Lifecycle
  <2>2. LifeOf(new, ts, hq, k, known[k], count[k], packets[k])
    BY <1>3, <2>1 DEF LifeOf
  <2>3. CASE k = h
    BY <2>2, <2>3, LifeRegistered DEF LifeOf
  <2>4. CASE k # h
    BY <2>2, <2>4
  <2> QED
    BY <2>3, <2>4
<1>5. OnePacket(new, next)
  BY <1>1, <1>3 DEF OnePacket
<1>6. Accounted(new, next, ts, hq, count)
  <2> SUFFICES ASSUME NEW k \in Registered(old)
               PROVE  Covered(ts, hq, k, Waiting(next, k), count[k], new[k].number_of_sent_packets_)
    BY DEF Accounted
  <2> DEFINE v == Waiting(next, k)
             c == count[k]
             s == old[k].number_of_sent_packets_
             t == new[k].number_of_sent_packets_
  <2>1. k \in Handles
    BY DEF Registered
  <2>2. v \in Nat /\ c \in Nat /\ s \in Nat /\ t \in Nat
    BY <2>1, SizeFacts, EntryFacts DEF Buffers
  <2>3. Covered(ts, hq, k, 0, c, s)
    BY NothingWaits DEF Fit, Accounted
  <2>4. v + c + s <= 0 + c + t
    <3>1. CASE k = h
      <4>1. v = n /\ t = s + n
        BY <1>2, <1>3, <2>1, <3>1 DEF Waiting, n
      <4> HIDE DEF v, c, s, t
      <4> QED
        BY <1>2, <2>2, <4>1
    <3>2. CASE k # h
      <4>1. v = 0 /\ t = s
        BY <1>2, <1>3, <2>1, <3>2 DEF Waiting
      <4> HIDE DEF v, c, s, t
      <4> QED
        BY <2>2, <4>1
    <3> QED
      BY <3>1, <3>2
  <2> HIDE DEF v, c, s, t
  <2>5. Covered(ts, hq, k, v, c, t)
    BY <2>2, <2>3, <2>4, CoveredMore
  <2> QED
    BY <2>5 DEF v, c, t
<1>7. Conserved(new, next, credits)
  <2>1. \A k \in Handles \ {h} : Types(new)[k] = Types(old)[k] /\ Counts(new)[k] = Counts(old)[k]
    OBVIOUS
  <2>2. Types(old)[h] = type /\ Types(new)[h] = type
    BY <1>1 DEF Types
  <2>3. Conserved(old, fragments, credits)
    BY DEF Fit
  <2> HIDE DEF type
  <2>4. /\ \E rest \in Nat : /\ Sum(Counts(old), OfTypeIn(old, type)) = rest + Counts(old)[h]
                             /\ Sum(Counts(new), OfTypeIn(new, type)) = rest + Counts(new)[h]
        /\ \A other : other # type =>
             Sum(Counts(new), OfTypeIn(new, other)) = Sum(Counts(old), OfTypeIn(old, other))
    BY <1>1, <2>1, <2>2, CountChanged
  <2> SUFFICES ASSUME NEW t \in ConnectionType
               PROVE  credits[t] + Sum(Counts(new), OfTypeIn(new, t))
                      = MaxCredits[t] + PendingOf(next, t)
    BY DEF Conserved, OfTypeIn
  <2> DEFINE a == Sum(Counts(old), OfTypeIn(old, t))
             b == Sum(Counts(new), OfTypeIn(new, t))
             cr == credits[t]
             mx == MaxCredits[t]
             s == Counts(old)[h]
             u == Counts(new)[h]
             pn == PendingOf(next, t)
  <2>5. cr + a = mx + 0
    BY <2>3, NothingWaits DEF Conserved, OfTypeIn
  <2>6. cr \in Nat /\ mx \in Nat /\ s \in Nat /\ u = s + n /\ u \in Nat
    BY <1>1, <1>3, CreditsAssumption DEF Credits, n
  <2>7. CASE t = type
    <3>1. PICK rest \in Nat : a = rest + s /\ b = rest + u
      BY <2>4, <2>7
    <3>2. pn = n
      BY <1>2, <2>7 DEF PendingOf, n
    <3> HIDE DEF a, b, cr, mx, s, u, pn
    <3>3. cr + b = mx + pn
      BY <1>2, <2>5, <2>6, <3>1, <3>2
    <3> QED
      BY <3>3 DEF b, cr, mx, pn
  <2>8. CASE t # type
    <3>1. a = b
      BY <2>4, <2>8
    <3>2. pn = 0
      BY <1>2, <2>8 DEF PendingOf
    <3> QED
      BY <2>5, <3>1, <3>2
  <2> QED
    BY <2>7, <2>8
<1> QED
  BY <1>4, <1>5, <1>6, <1>7 DEF Fit

\* A connection's user has something to send.
LEMMA FitProduce ==
  ASSUME NEW handlers, NEW fragments, NEW credits, NEW ts, NEW hq, NEW known, NEW count, NEW packets,
         NEW more, NEW h \in Registered(handlers), \A k \in Handles \ {h} : more[k] = packets[k],
         Fit(handlers, fragments, credits, ts, hq, known, count, packets)
  PROVE  Fit(handlers, fragments, credits, ts, hq, known, count, more)
<1>1. Lifecycle(handlers, ts, hq, known, count, more)
  <2> SUFFICES ASSUME NEW k \in Handles
               PROVE  LifeOf(handlers, ts, hq, k, known[k], count[k], more[k])
    BY DEF Lifecycle
  <2>1. LifeOf(handlers, ts, hq, k, known[k], count[k], packets[k])
    BY DEF Fit, Lifecycle
  <2>2. CASE k = h
    BY <2>1, <2>2, LifeRegistered DEF LifeOf
  <2>3. CASE k # h
    BY <2>1, <2>3
  <2> QED
    BY <2>2, <2>3
<1> QED
  BY <1>1 DEF Fit

\* The controller reports completed packets.
LEMMA FitCompletes ==
  ASSUME NEW handlers \in Handlers, NEW fragments \in Fragments, NEW credits,
         NEW ts \in Seq(Task), NEW e \in Task, NEW hq, NEW known, NEW count \in Buffers,
         NEW rest \in Buffers, NEW packets, NEW h \in Handles, NEW n \in 1 .. count[h],
         Is(e, "incoming_acl_credits", h), e.credits = n,
         rest[h] = count[h] - n, \A k \in Handles \ {h} : rest[k] = count[k],
         Fit(handlers, fragments, credits, ts, hq, known, count, packets)
  PROVE  Fit(handlers, fragments, credits, Append(ts, e), hq, known, rest, packets)
<1>1. Lifecycle(handlers, Append(ts, e), hq, known, rest, packets)
  <2> SUFFICES ASSUME NEW k \in Handles
               PROVE  LifeOf(handlers, Append(ts, e), hq, k, known[k], rest[k], packets[k])
    BY DEF Lifecycle
  <2>1. LifeOf(handlers, ts, hq, k, known[k], count[k], packets[k])
    BY DEF Fit, Lifecycle
  <2>2. CASE k = h
    <3>1. count[h] > 0
      BY DEF Buffers
    <3>2. known[h] # "down" /\ h \in Registered(handlers)
      BY <2>1, <2>2, <3>1 DEF LifeOf, Life, LinkKnown
    <3>3. LifeOf(handlers, Append(ts, e), hq, k, known[k], count[k], packets[k])
      BY <2>1, <2>2, <3>2, LifeAppend DEF LifeOf
    <3> QED
      BY <2>2, <3>2, <3>3, LifeRegistered DEF LifeOf
  <2>3. CASE k # h
    <3>1. ~About(e, k)
      BY <2>3 DEF About, Is
    <3>2. LifeOf(handlers, Append(ts, e), hq, k, known[k], count[k], packets[k])
      BY <2>1, <3>1, LifeAppend DEF LifeOf
    <3> QED
      BY <2>3, <3>2
  <2> QED
    BY <2>2, <2>3
<1>2. Accounted(handlers, fragments, Append(ts, e), hq, rest)
  <2> SUFFICES ASSUME NEW k \in Registered(handlers)
               PROVE  Covered(Append(ts, e), hq, k, Waiting(fragments, k), rest[k],
                              handlers[k].number_of_sent_packets_)
    BY DEF Accounted
  <2> DEFINE w == Waiting(fragments, k)
             c == count[k]
             r == rest[k]
             s == handlers[k].number_of_sent_packets_
  <2>1. k \in Handles
    BY DEF Registered
  <2>2. w \in Nat /\ c \in Nat /\ s \in Nat /\ r \in Nat
    BY <2>1, SizeFacts, EntryFacts DEF Buffers
  <2>3. Covered(ts, hq, k, w, c, s)
    BY DEF Fit, Accounted
  <2>4. r + Reports(e, k) <= c
    <3>1. CASE k = h
      <4>1. Reports(e, k) = n /\ r = c - n /\ n \in Nat
        BY <3>1 DEF Reports
      <4> HIDE DEF r, c
      <4> QED
        BY <2>2, <4>1
    <3>2. CASE k # h
      <4>1. Reports(e, k) = 0 /\ r = c
        BY <2>1, <3>2 DEF Reports, Is
      <4> HIDE DEF r, c
      <4> QED
        BY <2>2, <4>1
    <3> QED
      BY <3>1, <3>2
  <2> HIDE DEF w, c, s, r
  <2>5. Covered(Append(ts, e), hq, k, w, r, s)
    BY <2>2, <2>3, <2>4, CoveredPost
  <2> QED
    BY <2>5 DEF w, r, s
<1> QED
  BY <1>1, <1>2 DEF Fit

\* A link comes up: the connection is not registered yet.
LEMMA FitConnect ==
  ASSUME NEW handlers \in Handlers, NEW fragments \in Fragments, NEW credits,
         NEW ts \in Seq(Task), NEW e \in Task, NEW hq, NEW known, NEW new, NEW count \in Buffers,
         NEW packets, NEW h \in Handles,
         Is(e, "Register", h), h \notin Registered(handlers), Own(hq, h) = {},
         \A n \in 1 .. Len(ts) : ~About(ts[n], h),
         new[h] = e.type, \A k \in Handles \ {h} : new[k] = known[k],
         Fit(handlers, fragments, credits, ts, hq, known, count, packets)
  PROVE  /\ packets[h] = <<>>
         /\ Fit(handlers, fragments, credits, Append(ts, e), hq, new, count, packets)
<1>1. \A k \in Handles : LifeOf(handlers, ts, hq, k, known[k], count[k], packets[k])
  BY DEF Fit, Lifecycle
<1>2. ~(count[h] > 0) /\ packets[h] = <<>>
  BY <1>1 DEF LifeOf, Life, LinkKnown
<1>3. Lifecycle(handlers, Append(ts, e), hq, new, count, packets)
  <2> SUFFICES ASSUME NEW k \in Handles
               PROVE  LifeOf(handlers, Append(ts, e), hq, k, new[k], count[k], packets[k])
    BY DEF Lifecycle
  <2>1. CASE k = h
    <3>1. Life(Append(ts, e), h, FALSE, handlers[h].connection_type_, e.type, FALSE, count[h], FALSE)
      BY <1>2, LifeConnect
    <3>2. /\ (h \in Registered(handlers)) = FALSE /\ (Own(hq, h) # {}) = FALSE
          /\ (packets[h] # <<>>) = FALSE
      BY <1>2
    <3> QED
      BY <2>1, <3>1, <3>2 DEF LifeOf
  <2>2. CASE k # h
    <3>1. ~About(e, k)
      BY <2>2 DEF About, Is
    <3>2. LifeOf(handlers, Append(ts, e), hq, k, known[k], count[k], packets[k])
      BY <1>1, <3>1, LifeAppend DEF LifeOf
    <3> QED
      BY <2>2, <3>2
  <2> QED
    BY <2>1, <2>2
<1>4. Accounted(handlers, fragments, Append(ts, e), hq, count)
  <2> SUFFICES ASSUME NEW k \in Registered(handlers)
               PROVE  Covered(Append(ts, e), hq, k, Waiting(fragments, k), count[k],
                              handlers[k].number_of_sent_packets_)
    BY DEF Accounted
  <2> DEFINE w == Waiting(fragments, k)
             c == count[k]
             s == handlers[k].number_of_sent_packets_
  <2>1. k \in Handles
    BY DEF Registered
  <2>2. w \in Nat /\ c \in Nat /\ s \in Nat
    BY <2>1, SizeFacts, EntryFacts DEF Buffers
  <2>3. Covered(ts, hq, k, w, c, s)
    BY DEF Fit, Accounted
  <2>4. Reports(e, k) = 0
    BY DEF Reports, Is
  <2> HIDE DEF w, c, s
  <2>5. c + Reports(e, k) <= c
    BY <2>2, <2>4
  <2>6. Covered(Append(ts, e), hq, k, w, c, s)
    BY <2>2, <2>3, <2>5, CoveredPost
  <2> QED
    BY <2>6 DEF w, c, s
<1> QED
  BY <1>2, <1>3, <1>4 DEF Fit

\* A link goes down: the connection is to be unregistered.
LEMMA FitDisconnect ==
  ASSUME NEW handlers \in Handlers, NEW fragments \in Fragments, NEW credits,
         NEW ts \in Seq(Task), NEW e \in Task, NEW hq, NEW known, NEW new, NEW count \in Buffers,
         NEW rest \in Buffers, NEW packets, NEW h \in Handles,
         Is(e, "Unregister", h), known[h] # "down",
         new[h] = "down", rest[h] = 0,
         \A k \in Handles \ {h} : new[k] = known[k] /\ rest[k] = count[k],
         Fit(handlers, fragments, credits, ts, hq, known, count, packets)
  PROVE  Fit(handlers, fragments, credits, Append(ts, e), hq, new, rest, packets)
<1>1. \A k \in Handles : LifeOf(handlers, ts, hq, k, known[k], count[k], packets[k])
  BY DEF Fit, Lifecycle
<1>2. Lifecycle(handlers, Append(ts, e), hq, new, rest, packets)
  <2> SUFFICES ASSUME NEW k \in Handles
               PROVE  LifeOf(handlers, Append(ts, e), hq, k, new[k], rest[k], packets[k])
    BY DEF Lifecycle
  <2>1. CASE k = h
    <3>1. Life(Append(ts, e), h, h \in Registered(handlers), handlers[h].connection_type_, "down",
               Own(hq, h) # {}, 0, packets[h] # <<>>)
      BY <1>1, LifeDisconnect DEF LifeOf
    <3> QED
      BY <2>1, <3>1 DEF LifeOf
  <2>2. CASE k # h
    <3>1. ~About(e, k)
      BY <2>2 DEF About, Is
    <3>2. LifeOf(handlers, Append(ts, e), hq, k, known[k], count[k], packets[k])
      BY <1>1, <3>1, LifeAppend DEF LifeOf
    <3> QED
      BY <2>2, <3>2
  <2> QED
    BY <2>1, <2>2
<1>3. Accounted(handlers, fragments, Append(ts, e), hq, rest)
  <2> SUFFICES ASSUME NEW k \in Registered(handlers)
               PROVE  Covered(Append(ts, e), hq, k, Waiting(fragments, k), rest[k],
                              handlers[k].number_of_sent_packets_)
    BY DEF Accounted
  <2> DEFINE w == Waiting(fragments, k)
             c == count[k]
             r == rest[k]
             s == handlers[k].number_of_sent_packets_
  <2>1. k \in Handles
    BY DEF Registered
  <2>2. w \in Nat /\ c \in Nat /\ s \in Nat /\ r \in Nat
    BY <2>1, SizeFacts, EntryFacts DEF Buffers
  <2>3. Covered(ts, hq, k, w, c, s)
    BY DEF Fit, Accounted
  <2>4. Reports(e, k) = 0
    BY DEF Reports, Is
  <2>5. r = 0 \/ r = c
    BY <2>1
  <2> HIDE DEF w, c, s, r
  <2>6. r + Reports(e, k) <= c
    BY <2>2, <2>4, <2>5
  <2>7. Covered(Append(ts, e), hq, k, w, r, s)
    BY <2>2, <2>3, <2>6, CoveredPost
  <2> QED
    BY <2>7 DEF w, r, s
<1> QED
  BY <1>2, <1>3 DEF Fit

-----------------------------------------------------------------------------
(* The path of the fragments *)

\* Fragments of other connections at the end of a path do not matter.
LEMMA OtherConcat ==
  ASSUME NEW s \in Seq(Fragment), NEW t \in Seq(Fragment), NEW k,
         \A n \in DOMAIN t : t[n].handle_ # k
  PROVE  Own(s \o t, k) = Own(s, k) /\ \A n \in Own(s, k) : (s \o t)[n] = s[n]
<1> DEFINE w == s \o t
<1>1. /\ w \in Seq(Fragment) /\ Len(s) \in Nat /\ Len(t) \in Nat /\ Len(w) = Len(s) + Len(t)
      /\ \A n \in 1 .. Len(s) : w[n] = s[n]
      /\ \A n \in 1 .. Len(t) : w[Len(s) + n] = t[n]
  BY ConcatFacts
<1> HIDE DEF w
<1>2. DOMAIN w = 1 .. Len(w) /\ DOMAIN s = 1 .. Len(s) /\ DOMAIN t = 1 .. Len(t)
  BY <1>1, LenProperties
<1>3. ASSUME NEW n \in Own(w, k) PROVE n \in Own(s, k)
  <2>1. n \in 1 .. Len(w) /\ w[n].handle_ = k
    BY <1>2 DEF Own
  <2>2. CASE n \in 1 .. Len(s)
    BY <1>1, <1>2, <2>1, <2>2 DEF Own
  <2>3. CASE n \notin 1 .. Len(s)
    <3> DEFINE i == n - Len(s)
    <3>1. i \in 1 .. Len(t) /\ n = Len(s) + i
      BY <1>1, <2>1, <2>3
    <3> HIDE DEF i
    <3>2. w[n] = t[i]
      BY <1>1, <3>1
    <3> QED
      BY <1>2, <2>1, <3>1, <3>2
  <2> QED
    BY <2>2, <2>3
<1>4. ASSUME NEW n \in Own(s, k) PROVE n \in Own(w, k) /\ w[n] = s[n]
  <2>1. n \in 1 .. Len(s) /\ s[n].handle_ = k
    BY <1>2 DEF Own
  <2>2. n \in 1 .. Len(w) /\ w[n] = s[n]
    <3>1. n \in 1 .. Len(w)
      BY <1>1, <2>1
    <3> QED
      BY <1>1, <2>1, <3>1
  <2> QED
    BY <1>2, <2>1, <2>2 DEF Own
<1> QED
  BY <1>3, <1>4 DEF w

\* The same for what is to be sent.
LEMMA OtherPath ==
  ASSUME NEW q \in Seq(Fragment), NEW fragments \in Fragments, NEW k,
         \A p \in Priorities : \A n \in DOMAIN fragments[p] : fragments[p][n].handle_ # k
  PROVE  /\ PathOf(q, fragments) \in Seq(Fragment)
         /\ Own(PathOf(q, fragments), k) = Own(q, k)
         /\ \A n \in Own(q, k) : PathOf(q, fragments)[n] = q[n]
<1> DEFINE a == fragments[1]
           b == fragments[0]
           u == q \o a
<1>1. a \in Seq(Fragment) /\ b \in Seq(Fragment)
  BY DEF Fragments, Priorities
<1>2. (\A n \in DOMAIN a : a[n].handle_ # k) /\ (\A n \in DOMAIN b : b[n].handle_ # k)
  BY DEF Priorities
<1>3. PathOf(q, fragments) = u \o b /\ PathOf(q, fragments) \in Seq(Fragment)
  BY PathFacts DEF PathOf
<1> HIDE DEF a, b
<1>4. u \in Seq(Fragment)
  BY <1>1, ConcatFacts
<1>5. Own(u, k) = Own(q, k) /\ \A n \in Own(q, k) : u[n] = q[n]
  BY <1>1, <1>2, OtherConcat
<1> HIDE DEF u
<1>6. Own(u \o b, k) = Own(u, k) /\ \A n \in Own(u, k) : (u \o b)[n] = u[n]
  BY <1>1, <1>2, <1>4, OtherConcat
<1> QED
  BY <1>3, <1>5, <1>6

\* The fragments that wait are of one connection.
LEMMA OthersWait ==
  ASSUME NEW handlers, NEW fragments \in Fragments, OnePacket(handlers, fragments),
         NEW k, k \notin Registered(handlers)
  PROVE  \A p \in Priorities : \A n \in DOMAIN fragments[p] : fragments[p][n].handle_ # k
<1> SUFFICES ASSUME NEW p \in Priorities, NEW n \in DOMAIN fragments[p]
             PROVE  fragments[p][n].handle_ # k
  OBVIOUS
<1>1. \A q \in Priorities : fragments[q] \in Seq(Fragment)
  BY DEF Fragments
<1>2. \A q \in Priorities : DOMAIN fragments[q] = 1 .. Len(fragments[q])
  BY <1>1, LenProperties
<1>3. fragments[p] # <<>>
  OBVIOUS
<1>4. ~IsEmpty(fragments)
  BY <1>3 DEF IsEmpty
<1>5. PICK h \in Registered(handlers), q \in Priorities :
        PacketAt(fragments, q, h, handlers[h].connection_type_)
  BY <1>4 DEF OnePacket
<1>6. p = q
  BY <1>3, <1>5 DEF PacketAt
<1>7. fragments[p][n].handle_ = h
  BY <1>2, <1>5, <1>6 DEF PacketAt, Pieces
<1> QED
  BY <1>7

-----------------------------------------------------------------------------
(* The actions *)

\* What the invariant says of the state.
LEMMA InvFacts ==
  ASSUME Inv
  PROVE  /\ acl_queue_handlers_ \in Handlers /\ fragments_to_send_ \in Fragments
         /\ packet_credits_ \in Credits /\ enqueue_registered_ \in BOOLEAN
         /\ hci_queue \in Seq(Fragment) /\ buffered \in Buffers /\ tasks \in Seq(Task)
         /\ Fit(acl_queue_handlers_, fragments_to_send_, packet_credits_, tasks, hci_queue, link,
                buffered, queue)
         /\ Ready(acl_queue_handlers_, fragments_to_send_, packet_credits_, enqueue_registered_)
         /\ Points(starting_point_, acl_queue_handlers_)
         /\ Streams(PathOf(hci_queue, fragments_to_send_), queue, link, last, produced)
BY DEF Inv, TypeOK, MoreTypes, Handlers, Fragments, Credits, Buffers

\* A starting point is a handle or one of the special values.
LEMMA PointsType ==
  ASSUME NEW start, NEW handlers, Points(start, handlers)
  PROVE  start \in Handles \cup {END, SINGULAR}
BY DEF Points, Registered

\* A starting point stays valid in a map with the same connections.
LEMMA PointsKept ==
  ASSUME NEW new, NEW old, NEW from, NEW to, Registered(new) = Registered(old), Points(from, old),
         to = from \/ to \in Registered(old) \cup {END}
  PROVE  Points(to, new)
BY DEF Points

\* start_round_robin on the handler.
LEMMA RunStartRoundRobinKeeps ==
  ASSUME Inv, RunStartRoundRobin
  PROVE  Inv'
<1>1. /\ fate = "alive" /\ tasks # <<>> /\ Head(tasks).run = "start_round_robin" /\ tasks' = Tail(tasks)
      /\ start_round_robin(acl_queue_handlers_, fragments_to_send_, packet_credits_,
                           enqueue_registered_, starting_point_)
      /\ UNCHANGED <<fate, fragments_to_send_, packet_credits_, queue, hci_queue, controller, history>>
  BY DEF RunStartRoundRobin, Runs
<1>2. /\ acl_queue_handlers_' \in Handlers /\ SameBooks(acl_queue_handlers_', acl_queue_handlers_)
      /\ enqueue_registered_' \in BOOLEAN
      /\ Ready(acl_queue_handlers_', fragments_to_send_, packet_credits_, enqueue_registered_')
      /\ starting_point_' = starting_point_
         \/ starting_point_' \in Registered(acl_queue_handlers_) \cup {END}
  BY <1>1, InvFacts, StartFacts
<1>3. Fit(acl_queue_handlers_, fragments_to_send_, packet_credits_, tasks', hci_queue, link,
          buffered, queue)
  BY <1>1, InvFacts, FitRun
<1>4. Fit(acl_queue_handlers_', fragments_to_send_, packet_credits_, tasks', hci_queue, link,
          buffered, queue)
  BY <1>2, <1>3, InvFacts, FitSame
<1>5. Points(starting_point_', acl_queue_handlers_')
  BY <1>2, InvFacts, PointsKept DEF SameBooks
<1>6. starting_point_' \in Handles \cup {END, SINGULAR}
  BY <1>5, PointsType
<1>7. tasks' \in Seq(Task)
  BY <1>1, InvFacts, TailFacts
<1>8. TypeOK' /\ MoreTypes'
  BY <1>1, <1>2, <1>6, <1>7 DEF Inv, TypeOK, MoreTypes, Handlers, controller, history
<1> QED
  BY <1>1, <1>2, <1>4, <1>5, <1>8 DEF Inv, controller, history

\* What the first task carries.
LEMMA HeadTask ==
  ASSUME NEW ts \in Seq(Task), ts # <<>>
  PROVE  /\ Head(ts).run = "Register" => Head(ts).handle \in Handles /\ Head(ts).type \in ConnectionType
         /\ Head(ts).run = "Unregister" => Head(ts).handle \in Handles
         /\ Head(ts).run = "incoming_acl_credits" =>
              Head(ts).handle \in Handles /\ Head(ts).credits \in Nat
         /\ Tail(ts) \in Seq(Task)
<1>1. Head(ts) \in Task /\ Tail(ts) \in Seq(Task)
  BY TailFacts
<1> QED
  BY <1>1 DEF Task

\* The entry of a new connection.
NewHandler(type) == [NoHandler EXCEPT !.connection_type_ = type]

\* It is a handler that has sent nothing and is not to be dequeued.
LEMMA NewHandlerFacts ==
  ASSUME NEW type \in ConnectionType
  PROVE  /\ NewHandler(type) \in AclQueueHandler
         /\ NewHandler(type).connection_type_ = type
         /\ NewHandler(type).number_of_sent_packets_ = 0
         /\ ~NewHandler(type).dequeue_is_registered_
BY DEF NewHandler, NoHandler, AclQueueHandler

\* With nothing to send and a credit left start_round_robin assigns the starting point.
LEMMA StartMoves ==
  ASSUME NEW handlers, NEW fragments, NEW credits, NEW enqueue, NEW start,
         IsEmpty(fragments), Registered(handlers) # {},
         NEW type \in ConnectionType, ~BufferFull(credits, type),
         start_round_robin(handlers, fragments, credits, enqueue, start)
  PROVE  starting_point_' \in Registered(handlers) \cup {END}
<1> DEFINE first == IF Cardinality(Registered(handlers)) = 1 \/ start = END
                    THEN Begin(handlers) ELSE start
<1>1. starting_point_' = After(handlers, first)
  BY DEF start_round_robin
<1> HIDE DEF first
<1> QED
  BY <1>1, IteratorValid

\* Without connections all credits are in hand.
LEMMA CreditsInHand ==
  ASSUME NEW handlers \in Handlers, NEW fragments \in Fragments, NEW credits \in Credits,
         Conserved(handlers, fragments, credits), IsEmpty(fragments), Registered(handlers) = {},
         NEW type \in ConnectionType
  PROVE  ~BufferFull(credits, type)
<1> DEFINE S == OfTypeIn(handlers, type)
<1>1. S = {}
  <2>1. ASSUME NEW h \in S PROVE FALSE
    <3>1. h \in Handles /\ handlers[h].connection_type_ = type
      BY CountsType DEF OfTypeIn
    <3>2. h \in Registered(handlers)
      BY <3>1, EntryFacts DEF ConnectionType
    <3> QED
      BY <3>2
  <2> QED
    BY <2>1
<1>2. Sum(Counts(handlers), S) = 0
  <2>1. UNION {{h} \X (1 .. Counts(handlers)[h]) : h \in {}} = {}
    OBVIOUS
  <2> QED
    BY <1>1, <2>1, FS_EmptySet DEF Sum
<1>3. credits[type] + Sum(Counts(handlers), S) = MaxCredits[type] + 0
  BY NothingWaits DEF Conserved, OfTypeIn
<1>4. credits[type] \in Nat /\ MaxCredits[type] \in Nat \ {0}
  BY CreditsAssumption DEF Credits
<1> HIDE DEF S
<1>5. credits[type] # 0
  BY <1>2, <1>3, <1>4
<1> QED
  BY <1>5 DEF BufferFull

\* A connection is registered.
LEMMA RegisterKeeps ==
  ASSUME Inv, Register
  PROVE  Inv'
<1> DEFINE h == Head(tasks).handle
           type == Head(tasks).type
           handlers == [acl_queue_handlers_ EXCEPT ![h] = NewHandler(type)]
<1>1. /\ fate = "alive" /\ tasks # <<>> /\ Head(tasks).run = "Register" /\ tasks' = Tail(tasks)
      /\ fate' = IF h \in Registered(acl_queue_handlers_) THEN "assert" ELSE fate
      /\ \/ /\ IsEmpty(fragments_to_send_)
            /\ start_round_robin(handlers, fragments_to_send_, packet_credits_,
                                 enqueue_registered_, starting_point_)
         \/ /\ ~IsEmpty(fragments_to_send_)
            /\ acl_queue_handlers_' = handlers
            /\ UNCHANGED <<enqueue_registered_, starting_point_>>
      /\ UNCHANGED <<fragments_to_send_, packet_credits_, queue, hci_queue, controller, history>>
  BY DEF Register, Runs, NewHandler
<1>2. h \in Handles /\ type \in ConnectionType /\ tasks' \in Seq(Task)
  BY <1>1, InvFacts, HeadTask
<1>3. /\ NewHandler(type) \in AclQueueHandler /\ NewHandler(type).connection_type_ = type
      /\ NewHandler(type).number_of_sent_packets_ = 0 /\ ~NewHandler(type).dequeue_is_registered_
  BY <1>2, NewHandlerFacts
<1>4. handlers \in Handlers
  BY <1>2, <1>3, InvFacts DEF Handlers
<1>5. handlers[h] = NewHandler(type) /\ \A k \in Handles \ {h} : handlers[k] = acl_queue_handlers_[k]
  BY <1>2, InvFacts DEF Handlers
<1>6. Is(Head(tasks), "Register", h)
  BY <1>1 DEF Is
<1> HIDE DEF handlers
<1>7. /\ h \notin Registered(acl_queue_handlers_)
      /\ Registered(handlers) = Registered(acl_queue_handlers_) \cup {h}
      /\ Fit(handlers, fragments_to_send_, packet_credits_, tasks', hci_queue, link, buffered, queue)
  <2>1. handlers[h].connection_type_ = Head(tasks).type /\ handlers[h].number_of_sent_packets_ = 0
    BY <1>3, <1>5
  <2>2. /\ acl_queue_handlers_ \in Handlers /\ fragments_to_send_ \in Fragments
        /\ packet_credits_ \in Credits /\ buffered \in Buffers /\ tasks \in Seq(Task)
        /\ hci_queue \in Seq(Fragment)
        /\ Fit(acl_queue_handlers_, fragments_to_send_, packet_credits_, tasks, hci_queue, link,
               buffered, queue)
    BY InvFacts
  <2>3. tasks # <<>> /\ tasks' = Tail(tasks) /\ h \in Handles /\ Head(tasks).type \in ConnectionType
    BY <1>1, <1>2
  <2>4. \A k \in Handles \ {h} : handlers[k] = acl_queue_handlers_[k]
    BY <1>5
  <2> HIDE DEF h
  <2> QED
    BY <1>4, <1>6, <2>1, <2>2, <2>3, <2>4, FitRegister
<1>8. Ready(handlers, fragments_to_send_, packet_credits_, enqueue_registered_)
  BY <1>3, <1>5, InvFacts DEF Ready
<1> HIDE DEF h, type
<1>9. /\ acl_queue_handlers_' \in Handlers /\ SameBooks(acl_queue_handlers_', handlers)
      /\ enqueue_registered_' \in BOOLEAN
      /\ Ready(acl_queue_handlers_', fragments_to_send_, packet_credits_, enqueue_registered_')
      /\ Points(starting_point_', acl_queue_handlers_')
  <2>1. CASE IsEmpty(fragments_to_send_)
    <3>1. start_round_robin(handlers, fragments_to_send_, packet_credits_, enqueue_registered_,
                            starting_point_)
      BY <1>1, <2>1
    <3>2. /\ acl_queue_handlers_' \in Handlers /\ SameBooks(acl_queue_handlers_', handlers)
          /\ enqueue_registered_' \in BOOLEAN
          /\ Ready(acl_queue_handlers_', fragments_to_send_, packet_credits_, enqueue_registered_')
          /\ starting_point_' = starting_point_ \/ starting_point_' \in Registered(handlers) \cup {END}
      BY <1>4, <1>8, <3>1, InvFacts, StartFacts
    <3>3. starting_point_' \in Registered(handlers) \cup {END}
      <4>1. CASE Registered(acl_queue_handlers_) = {}
        <5>1. \A t \in ConnectionType : ~BufferFull(packet_credits_, t)
          BY <2>1, <4>1, InvFacts, CreditsInHand DEF Fit
        <5>2. ~BufferFull(packet_credits_, type) /\ Registered(handlers) # {}
          BY <1>2, <1>7, <5>1
        <5> QED
          BY <1>2, <2>1, <3>1, <5>2, StartMoves
      <4>2. CASE Registered(acl_queue_handlers_) # {}
        <5>1. starting_point_ \in Registered(acl_queue_handlers_) \cup {END}
          BY <4>2, InvFacts DEF Points
        <5> QED
          BY <1>7, <3>2, <5>1
      <4> QED
        BY <4>1, <4>2
    <3>4. Points(starting_point_', acl_queue_handlers_')
      BY <3>2, <3>3 DEF Points, SameBooks
    <3> QED
      BY <3>2, <3>4
  <2>2. CASE ~IsEmpty(fragments_to_send_)
    <3>1. acl_queue_handlers_' = handlers /\ UNCHANGED <<enqueue_registered_, starting_point_>>
      BY <1>1, <2>2
    <3>2. OnePacket(acl_queue_handlers_, fragments_to_send_)
      BY InvFacts DEF Fit
    <3>3. Registered(acl_queue_handlers_) # {}
      BY <2>2, <3>2 DEF OnePacket
    <3>4. starting_point_ \in Registered(acl_queue_handlers_) \cup {END}
      BY <3>3, InvFacts DEF Points
    <3>5. Points(starting_point_', acl_queue_handlers_')
      BY <1>7, <3>1, <3>4 DEF Points
    <3>6. SameBooks(handlers, handlers)
      BY DEF SameBooks
    <3> QED
      BY <1>4, <1>8, <3>1, <3>5, <3>6, InvFacts
  <2> QED
    BY <2>1, <2>2
<1>10. Fit(acl_queue_handlers_', fragments_to_send_, packet_credits_, tasks', hci_queue, link,
           buffered, queue)
  BY <1>4, <1>7, <1>9, FitSame
<1>11. starting_point_' \in Handles \cup {END, SINGULAR}
  BY <1>9, PointsType
<1>12. fate' = "alive"
  BY <1>1, <1>7 DEF h
<1>13. TypeOK' /\ MoreTypes'
  BY <1>1, <1>2, <1>9, <1>11, <1>12 DEF Inv, TypeOK, MoreTypes, Handlers, controller, history
<1> QED
  BY <1>1, <1>9, <1>10, <1>12, <1>13 DEF Inv, controller, history

\* More credits and fewer fragments keep the callbacks ready.
LEMMA ReadyKept ==
  ASSUME NEW old, NEW new, NEW fragments, NEW rest, NEW credits, NEW more, NEW enqueue, NEW still,
         Ready(old, fragments, credits, enqueue),
         still => enqueue /\ ~IsEmpty(rest),
         ~IsEmpty(rest) => rest = fragments, IsEmpty(fragments) => IsEmpty(rest),
         \A type : ~BufferFull(credits, type) => ~BufferFull(more, type),
         \A h \in Handles : new[h].dequeue_is_registered_ =>
           old[h].dequeue_is_registered_ /\ new[h].connection_type_ = old[h].connection_type_
  PROVE  Ready(new, rest, more, still)
BY DEF Ready

\* start_round_robin, run or not, after which the iterator is valid.
LEMMA Restarted ==
  ASSUME NEW handlers \in Handlers, NEW fragments, NEW credits, NEW enqueue \in BOOLEAN, NEW start,
         NEW run, Ready(handlers, fragments, credits, enqueue), Points(start, handlers),
         \/ run /\ start_round_robin(handlers, fragments, credits, enqueue, start)
         \/ /\ ~run
            /\ acl_queue_handlers_' = handlers /\ enqueue_registered_' = enqueue
            /\ starting_point_' = start
  PROVE  /\ acl_queue_handlers_' \in Handlers
         /\ SameBooks(acl_queue_handlers_', handlers)
         /\ enqueue_registered_' \in BOOLEAN
         /\ Ready(acl_queue_handlers_', fragments, credits, enqueue_registered_')
         /\ Points(starting_point_', acl_queue_handlers_')
         /\ starting_point_' \in Handles \cup {END, SINGULAR}
<1>1. CASE start_round_robin(handlers, fragments, credits, enqueue, start)
  <2>1. /\ acl_queue_handlers_' \in Handlers
        /\ SameBooks(acl_queue_handlers_', handlers)
        /\ enqueue_registered_' \in BOOLEAN
        /\ Ready(acl_queue_handlers_', fragments, credits, enqueue_registered_')
        /\ starting_point_' = start \/ starting_point_' \in Registered(handlers) \cup {END}
    BY <1>1, StartFacts
  <2>2. Registered(acl_queue_handlers_') = Registered(handlers)
    BY <2>1 DEF SameBooks
  <2>3. Points(starting_point_', acl_queue_handlers_')
    BY <2>1, <2>2, PointsKept
  <2> QED
    BY <2>1, <2>3, PointsType
<1>2. CASE acl_queue_handlers_' = handlers /\ enqueue_registered_' = enqueue /\ starting_point_' = start
  <2>1. SameBooks(handlers, handlers)
    BY DEF SameBooks
  <2> QED
    BY <1>2, <2>1, PointsType
<1> QED
  BY <1>1, <1>2

\* A connection is unregistered.
LEMMA UnregisterKeeps ==
  ASSUME Inv, Unregister
  PROVE  Inv'
<1> DEFINE h == Head(tasks).handle
           H == acl_queue_handlers_
           F == fragments_to_send_
           type == H[h].connection_type_
           R == drop_packet_fragments(h)
           outstanding == packets_to_reclaim(h, R)
           credits == [packet_credits_ EXCEPT ![type] = @ + outstanding]
           handlers == [H EXCEPT ![h] = NoHandler]
           enqueue == enqueue_after_drop(R)
           start == starting_point_after_erase(handlers)
           zero == outstanding > 0 /\ BufferFull(packet_credits_, type)
<1>1. /\ fate = "alive" /\ tasks # <<>> /\ Head(tasks).run = "Unregister" /\ tasks' = Tail(tasks)
      /\ fate' = IF h \in Registered(H) THEN fate ELSE "assert"
      /\ fragments_to_send_' = R
      /\ packet_credits_' = credits
      /\ queue' = [queue EXCEPT ![h] = <<>>]
      /\ \/ zero /\ start_round_robin(handlers, R, credits, enqueue, start)
         \/ /\ ~zero
            /\ acl_queue_handlers_' = handlers /\ enqueue_registered_' = enqueue
            /\ starting_point_' = start
      /\ UNCHANGED <<hci_queue, controller, history>>
  BY DEF Unregister, Runs
<1>2. h \in Handles /\ tasks' \in Seq(Task) /\ Is(Head(tasks), "Unregister", h)
  BY <1>1, InvFacts, HeadTask DEF Is
<1>3. h \in Registered(H) /\ link[h] = "down"
  <2>1. LifeOf(H, tasks, hci_queue, h, link[h], buffered[h], queue[h])
    BY <1>2, InvFacts DEF Fit, Lifecycle
  <2>2. 1 \in 1 .. Len(tasks) /\ tasks[1] = Head(tasks)
    <3>1. Len(tasks) \in Nat /\ Len(tasks) > 0 /\ Head(tasks) = tasks[1]
      BY <1>1, InvFacts, TailFacts
    <3> QED
      BY <3>1
  <2>3. ~ \E m \in 1 .. Len(tasks) : m < 1
    OBVIOUS
  <2> HIDE DEF h, H
  <2> QED
    BY <1>2, <2>1, <2>2, <2>3 DEF LifeOf, Life, UnregisterIsLast
<1>4. /\ R \in Fragments
      /\ ~IsEmpty(R) => R = F
      /\ IsEmpty(F) => IsEmpty(R)
      /\ Size(F) - Size(R) = Waiting(F, h)
      /\ Waiting(R, h) = 0
      /\ \A p \in Priorities : \A n \in DOMAIN F[p] : IsEmpty(R) => F[p][n].handle_ = h
  BY <1>2, InvFacts, DropFacts DEF Fit
<1>5. type \in ConnectionType
  BY <1>2, <1>3, InvFacts, EntryFacts
<1>6. /\ outstanding = H[h].number_of_sent_packets_ - Waiting(F, h)
      /\ outstanding \in Nat
  <2> DEFINE s == H[h].number_of_sent_packets_
             w == Waiting(F, h)
             r == Reports(Head(tasks), h)
  <2>1. outstanding = s - w
    BY <1>4 DEF packets_to_reclaim
  <2>2. w \in Nat /\ r \in Nat /\ s \in Nat /\ w + r <= s
    BY <1>1, <1>3, InvFacts, CountCovers
  <2> HIDE DEF s, w, r, outstanding
  <2>3. s - w \in Nat
    BY <2>2
  <2> QED
    BY <2>1, <2>3 DEF s, w
<1> HIDE DEF outstanding
<1>7. /\ credits \in Credits
      /\ \A t \in ConnectionType :
           /\ credits[t] = packet_credits_[t] + IF t = type THEN outstanding ELSE 0
           /\ packet_credits_[t] \in Nat
  <2> HIDE DEF type
  <2>1. packet_credits_ \in [ConnectionType -> Nat]
    BY InvFacts DEF Credits
  <2>2. packet_credits_[type] + outstanding \in Nat
    BY <1>5, <1>6, <2>1
  <2> QED
    BY <1>5, <1>6, <2>1, <2>2 DEF Credits
<1>8. handlers \in Handlers /\ handlers[h] = NoHandler /\ \A k \in Handles \ {h} : handlers[k] = H[k]
  BY <1>2, InvFacts DEF Handlers
<1>9. queue' \in [Handles -> Seq(Packet)] /\ queue'[h] = <<>> /\ \A k \in Handles \ {h} : queue'[k] = queue[k]
  <2>1. queue \in [Handles -> Seq(Packet)] /\ <<>> \in Seq(Packet)
    BY EmptySeq DEF Inv, MoreTypes
  <2> QED
    BY <1>1, <1>2, <2>1
<1> HIDE DEF R, credits, handlers, enqueue, start
<1>10. /\ Registered(handlers) = Registered(H) \ {h}
       /\ Fit(handlers, R, credits, tasks', hci_queue, link, buffered, queue')
  <2>1. \A t \in ConnectionType :
          credits[t] = packet_credits_[t] + IF t = H[h].connection_type_
                                            THEN H[h].number_of_sent_packets_ - Waiting(F, h)
                                            ELSE 0
    BY <1>6, <1>7
  <2>2. /\ H \in Handlers /\ F \in Fragments /\ packet_credits_ \in Credits /\ hci_queue \in Seq(Fragment)
        /\ buffered \in Buffers /\ tasks \in Seq(Task)
        /\ Fit(H, F, packet_credits_, tasks, hci_queue, link, buffered, queue)
    BY InvFacts
  <2> HIDE DEF h, H, F
  <2>3. Tail(tasks) = tasks' /\ tasks # <<>>
    BY <1>1
  <2>4. Erased(H, handlers, F, R, packet_credits_, credits, queue, queue', h)
    BY <1>4, <1>8, <1>9, <2>1 DEF Erased
  <2>5. /\ Registered(handlers) = Registered(H) \ {h}
        /\ Fit(handlers, R, credits, Tail(tasks), hci_queue, link, buffered, queue')
    BY <1>2, <1>4, <1>8, <2>2, <2>3, <2>4, FitUnregister
  <2> QED
    BY <2>3, <2>5
<1>11. Ready(handlers, R, credits, enqueue)
  <2>1. enqueue => enqueue_registered_ /\ ~IsEmpty(R)
    BY DEF enqueue, enqueue_after_drop
  <2>2. ASSUME NEW t, ~BufferFull(packet_credits_, t) PROVE ~BufferFull(credits, t)
    <3>1. CASE t \in ConnectionType
      <4>1. packet_credits_[t] # 0
        BY <2>2 DEF BufferFull
      <4> DEFINE c == packet_credits_[t]
                 d == credits[t]
      <4>2. c \in Nat /\ c # 0 /\ (d = c + outstanding \/ d = c + 0)
        BY <1>7, <3>1, <4>1
      <4> HIDE DEF c, d
      <4>3. d # 0
        BY <1>6, <4>2
      <4> QED
        BY <4>3 DEF BufferFull, d
    <3>2. CASE t \notin ConnectionType
      <4>1. credits[t] = packet_credits_[t]
        BY <1>5, <3>2, InvFacts DEF credits, Credits
      <4> QED
        BY <2>2, <4>1 DEF BufferFull
    <3> QED
      BY <3>1, <3>2
  <2>3. ASSUME NEW k \in Handles, handlers[k].dequeue_is_registered_
        PROVE  H[k].dequeue_is_registered_ /\ handlers[k].connection_type_ = H[k].connection_type_
    BY <1>8, <2>3 DEF NoHandler
  <2>4. Ready(H, F, packet_credits_, enqueue_registered_)
    BY InvFacts
  <2> HIDE DEF h, H, F
  <2> QED
    BY <1>4, <2>1, <2>2, <2>3, <2>4, ReadyKept
<1>12. Points(start, handlers)
  BY IteratorValid DEF Points, start, starting_point_after_erase
<1>13. enqueue \in BOOLEAN
  BY InvFacts DEF enqueue, enqueue_after_drop
<1>14. /\ acl_queue_handlers_' \in Handlers
       /\ SameBooks(acl_queue_handlers_', handlers)
       /\ enqueue_registered_' \in BOOLEAN
       /\ Ready(acl_queue_handlers_', R, credits, enqueue_registered_')
       /\ Points(starting_point_', acl_queue_handlers_')
       /\ starting_point_' \in Handles \cup {END, SINGULAR}
  <2> HIDE DEF zero
  <2> QED
    BY <1>1, <1>8, <1>11, <1>12, <1>13, Restarted
<1>15. Fit(acl_queue_handlers_', R, credits, tasks', hci_queue, link, buffered, queue')
  BY <1>8, <1>10, <1>14, FitSame
<1>16. Streams(PathOf(hci_queue, R), queue', link, last, produced)
  <2> SUFFICES ASSUME NEW k \in Handles
               PROVE  Stream(PathOf(hci_queue, R), k, queue'[k], link[k], last[k], produced[k])
    BY DEF Streams
  <2>1. Stream(PathOf(hci_queue, F), k, queue[k], link[k], last[k], produced[k])
    BY InvFacts DEF Streams
  <2>2. CASE k = h
    <3>1. produced[k] \in Nat
      BY SchedulerBounds DEF Inv, TypeOK
    <3>2. queue'[k] = <<>> /\ Len(queue'[k]) = 0
      BY <1>9, <2>2
    <3> QED
      BY <1>3, <2>2, <3>1, <3>2 DEF Stream
  <2>3. CASE k # h
    <3>1. queue'[k] = queue[k]
      BY <1>9, <2>3
    <3>2. CASE ~IsEmpty(R)
      <4>1. R = F
        BY <1>4, <3>2
      <4> QED
        BY <2>1, <3>1, <4>1
    <3>3. CASE IsEmpty(R)
      <4> DEFINE path == PathOf(hci_queue, F)
      <4>1. PathOf(hci_queue, R) = hci_queue /\ hci_queue \in Seq(Fragment)
        BY <1>4, <3>3, InvFacts, PathFacts
      <4>2. \A p \in Priorities : \A n \in DOMAIN F[p] : F[p][n].handle_ # k
        BY <1>4, <2>3, <3>3
      <4>3. /\ path \in Seq(Fragment) /\ Own(path, k) = Own(hci_queue, k)
            /\ \A n \in Own(hci_queue, k) : path[n] = hci_queue[n]
        BY <4>1, <4>2, InvFacts, OtherPath
      <4> HIDE DEF path
      <4>4. ASSUME NEW done, Ordered(path, k, last[k], done)
            PROVE  Ordered(hci_queue, k, last[k], done)
        BY <4>1, <4>3, <4>4, OrderedSame
      <4> QED
        BY <2>1, <3>1, <4>1, <4>4 DEF Stream, path
    <3> QED
      BY <3>2, <3>3
  <2> QED
    BY <2>2, <2>3
<1>17. fate' = "alive"
  BY <1>1, <1>3
<1>18. TypeOK' /\ MoreTypes'
  <2> HIDE DEF h, H, F, type, zero
  <2> QED
    BY <1>1, <1>2, <1>4, <1>7, <1>9, <1>14, <1>17
    DEF Inv, TypeOK, MoreTypes, Handlers, Fragments, Credits, controller, history
<1> HIDE DEF h, H, F, type, zero
<1> QED
  BY <1>1, <1>14, <1>15, <1>16, <1>17, <1>18 DEF Inv, controller, history

\* The smaller of two numbers.
LEMMA MinPair ==
  ASSUME NEW a \in Nat, NEW b \in Nat, a <= b
  PROVE  Min({a, b}) = a
<1>1. \A x \in {a, b} : (\A y \in {a, b} : x <= y) => x = a
  OBVIOUS
<1>2. \A y \in {a, b} : a <= y
  OBVIOUS
<1> QED
  BY <1>1, <1>2 DEF Min

\* A handler with another count.
Recount(e, n) == [e EXCEPT !.number_of_sent_packets_ = n]

\* Only the count of the entry changes.
LEMMA RecountFacts ==
  ASSUME NEW e \in AclQueueHandler, NEW n \in Nat
  PROVE  /\ Recount(e, n) \in AclQueueHandler
         /\ Recount(e, n).number_of_sent_packets_ = n
         /\ Recount(e, n).connection_type_ = e.connection_type_
         /\ Recount(e, n).dequeue_is_registered_ = e.dequeue_is_registered_
BY DEF Recount, AclQueueHandler

\* Completed packets are reported for a registered connection.
LEMMA CreditsKeep ==
  ASSUME Inv, incoming_acl_credits, Head(tasks).handle \in Registered(acl_queue_handlers_)
  PROVE  Inv'
<1> DEFINE h == Head(tasks).handle
           H == acl_queue_handlers_
           F == fragments_to_send_
           completed == Head(tasks).credits
           type == H[h].connection_type_
           s == H[h].number_of_sent_packets_
           handlers == [H EXCEPT ![h] = Recount(H[h], IF s >= completed THEN s - completed ELSE 0)]
           credits == [packet_credits_ EXCEPT
                         ![type] = Min({packet_credits_[type] + completed, MaxCredits[type]})]
           zero == credit_was_zero(type)
<1>1. /\ fate = "alive" /\ tasks # <<>> /\ Head(tasks).run = "incoming_acl_credits"
      /\ tasks' = Tail(tasks)
      /\ UNCHANGED <<fate, queue, hci_queue, controller, history>>
  BY SMTT(30) DEF incoming_acl_credits, Runs
<1>2. /\ packet_credits_' = credits
      /\ UNCHANGED fragments_to_send_
      /\ \/ zero /\ start_round_robin(handlers, F, credits, enqueue_registered_, starting_point_)
         \/ /\ ~zero
            /\ acl_queue_handlers_' = handlers
            /\ UNCHANGED <<enqueue_registered_, starting_point_>>
  BY DEF incoming_acl_credits, Recount
<1>3. /\ H \in Handlers /\ F \in Fragments /\ packet_credits_ \in Credits /\ hci_queue \in Seq(Fragment)
      /\ buffered \in Buffers /\ tasks \in Seq(Task) /\ enqueue_registered_ \in BOOLEAN
      /\ Fit(H, F, packet_credits_, tasks, hci_queue, link, buffered, queue)
      /\ Ready(H, F, packet_credits_, enqueue_registered_)
      /\ Points(starting_point_, H)
  BY InvFacts
<1>4. h \in Handles /\ completed \in Nat /\ tasks' \in Seq(Task) /\ h \in Registered(H)
  BY <1>1, <1>3, HeadTask
<1>5. completed = Reports(Head(tasks), h)
  BY <1>1 DEF Reports, Is
<1>6. s \in Nat /\ type \in ConnectionType /\ H[h] \in AclQueueHandler
  BY <1>3, <1>4, EntryFacts
<1>7. completed <= s /\ packet_credits_[type] + completed <= MaxCredits[type]
  BY <1>1, <1>3, <1>4, <1>5, CreditsBound
<1>8. s - completed \in Nat /\ (IF s >= completed THEN s - completed ELSE 0) = s - completed
  <2> HIDE DEF s, completed
  <2> QED
    BY <1>4, <1>6, <1>7
<1>9. handlers = [H EXCEPT ![h] = Recount(H[h], s - completed)]
  BY <1>8
<1>10. /\ Recount(H[h], s - completed) \in AclQueueHandler
       /\ Recount(H[h], s - completed).number_of_sent_packets_ = s - completed
       /\ Recount(H[h], s - completed).connection_type_ = type
       /\ Recount(H[h], s - completed).dequeue_is_registered_ = H[h].dequeue_is_registered_
  BY <1>6, <1>8, RecountFacts
<1> HIDE DEF handlers
<1>11. /\ handlers \in Handlers /\ handlers[h] = Recount(H[h], s - completed)
       /\ \A k \in Handles \ {h} : handlers[k] = H[k]
  BY <1>3, <1>4, <1>9, <1>10 DEF Handlers
<1>12. Min({packet_credits_[type] + completed, MaxCredits[type]}) = packet_credits_[type] + completed
  <2> DEFINE a == packet_credits_[type] + completed
             b == MaxCredits[type]
  <2>1. a \in Nat /\ b \in Nat /\ a <= b
    BY <1>3, <1>4, <1>6, <1>7, CreditsAssumption DEF Credits
  <2> HIDE DEF a, b
  <2>2. Min({a, b}) = a
    BY <2>1, MinPair
  <2> QED
    BY <2>2 DEF a, b
<1>13. credits = [packet_credits_ EXCEPT ![type] = packet_credits_[type] + completed]
  BY <1>12
<1> HIDE DEF credits
<1>14. /\ credits \in Credits
       /\ \A t \in ConnectionType :
            /\ credits[t] = packet_credits_[t] + IF t = type THEN completed ELSE 0
            /\ packet_credits_[t] \in Nat
       /\ \A t : t \notin ConnectionType => credits[t] = packet_credits_[t]
  <2> HIDE DEF type, completed
  <2>1. packet_credits_ \in [ConnectionType -> Nat]
    BY <1>3 DEF Credits
  <2>2. packet_credits_[type] + completed \in Nat
    BY <1>4, <1>6, <2>1
  <2> QED
    BY <1>4, <1>6, <1>13, <2>1, <2>2 DEF Credits
<1>15. /\ Registered(handlers) = Registered(H)
       /\ Fit(handlers, F, credits, tasks', hci_queue, link, buffered, queue)
  <2>1. /\ handlers[h].connection_type_ = H[h].connection_type_
        /\ handlers[h].number_of_sent_packets_ = H[h].number_of_sent_packets_ - Reports(Head(tasks), h)
    BY <1>5, <1>10, <1>11
  <2>2. \A t \in ConnectionType :
          credits[t] = packet_credits_[t]
                         + IF t = H[h].connection_type_ THEN Reports(Head(tasks), h) ELSE 0
    BY <1>5, <1>14
  <2>3. tasks # <<>> /\ Head(tasks).run # "Register" /\ Tail(tasks) = tasks'
    BY <1>1
  <2> HIDE DEF h, H, F
  <2>4. /\ Registered(handlers) = Registered(H)
        /\ Fit(handlers, F, credits, Tail(tasks), hci_queue, link, buffered, queue)
    BY <1>3, <1>4, <1>11, <2>1, <2>2, <2>3, FitCredits
  <2> QED
    BY <2>3, <2>4
<1>16. Ready(handlers, F, credits, enqueue_registered_)
  <2>1. ASSUME NEW t, ~BufferFull(packet_credits_, t) PROVE ~BufferFull(credits, t)
    <3>1. CASE t \in ConnectionType
      <4>1. packet_credits_[t] # 0
        BY <2>1 DEF BufferFull
      <4> DEFINE c == packet_credits_[t]
                 d == credits[t]
      <4>2. c \in Nat /\ c # 0 /\ (d = c + completed \/ d = c + 0)
        BY <1>14, <3>1, <4>1
      <4> HIDE DEF c, d, completed
      <4>3. d # 0
        BY <1>4, <4>2
      <4> QED
        BY <4>3 DEF BufferFull, d
    <3>2. CASE t \notin ConnectionType
      BY <1>14, <2>1, <3>2 DEF BufferFull
    <3> QED
      BY <3>1, <3>2
  <2>2. \A k \in Handles : handlers[k].dequeue_is_registered_ =>
          H[k].dequeue_is_registered_ /\ handlers[k].connection_type_ = H[k].connection_type_
    BY <1>10, <1>11
  <2>3. enqueue_registered_ => ~IsEmpty(F)
    BY <1>3 DEF Ready
  <2> HIDE DEF h, H, F
  <2> QED
    BY <1>3, <2>1, <2>2, <2>3, ReadyKept
<1>17. Points(starting_point_, handlers)
  BY <1>3, <1>15 DEF Points
<1>18. /\ acl_queue_handlers_' \in Handlers
       /\ SameBooks(acl_queue_handlers_', handlers)
       /\ enqueue_registered_' \in BOOLEAN
       /\ Ready(acl_queue_handlers_', F, credits, enqueue_registered_')
       /\ Points(starting_point_', acl_queue_handlers_')
       /\ starting_point_' \in Handles \cup {END, SINGULAR}
  <2>1. \/ zero /\ start_round_robin(handlers, F, credits, enqueue_registered_, starting_point_)
        \/ /\ ~zero
           /\ acl_queue_handlers_' = handlers /\ enqueue_registered_' = enqueue_registered_
           /\ starting_point_' = starting_point_
    BY <1>2
  <2> HIDE DEF zero, F
  <2> QED
    BY <1>3, <1>11, <1>16, <1>17, <2>1, Restarted
<1>19. Fit(acl_queue_handlers_', F, credits, tasks', hci_queue, link, buffered, queue)
  BY <1>11, <1>15, <1>18, FitSame
<1>20. fragments_to_send_' = F /\ packet_credits_' = credits
  BY <1>2
<1>21. TypeOK' /\ MoreTypes'
  BY <1>1, <1>4, <1>14, <1>18, <1>20
  DEF Inv, TypeOK, MoreTypes, Handlers, Fragments, Credits, controller, history
<1> HIDE DEF h, type, zero, s, completed
<1> QED
  BY <1>1, <1>18, <1>19, <1>20, <1>21 DEF Inv, controller, history

\* Completed packets are reported.
LEMMA incoming_acl_creditsKeeps ==
  ASSUME Inv, incoming_acl_credits
  PROVE  Inv'
<1>1. CASE Head(tasks).handle \in Registered(acl_queue_handlers_)
  BY <1>1, CreditsKeep
<1>2. CASE Head(tasks).handle \notin Registered(acl_queue_handlers_)
  <2>1. /\ tasks # <<>> /\ Head(tasks).run # "Register" /\ tasks' = Tail(tasks)
        /\ UNCHANGED <<fate, scheduler, queue, hci_queue, controller, history>>
    BY <1>2 DEF incoming_acl_credits, Runs
  <2>2. tasks' \in Seq(Task)
    BY <2>1, InvFacts, TailFacts
  <2>3. Fit(acl_queue_handlers_, fragments_to_send_, packet_credits_, tasks', hci_queue, link,
            buffered, queue)
    BY <2>1, InvFacts, FitRun
  <2>4. TypeOK' /\ MoreTypes'
    BY <2>1, <2>2 DEF Inv, TypeOK, MoreTypes, scheduler, controller, history
  <2> QED
    BY <2>1, <2>3, <2>4 DEF Inv, scheduler, controller, history
<1> QED
  BY <1>1, <1>2

\* A fragment is handed to the HCI layer.
LEMMA handle_enqueue_next_fragmentKeeps ==
  ASSUME Inv, handle_enqueue_next_fragment
  PROVE  Inv'
<1> DEFINE H == acl_queue_handlers_
           F == fragments_to_send_
           e == Front(F)
           type == e.connection_type_
           credits == [packet_credits_ EXCEPT ![type] = @ - 1]
           rest == Pop(F)
           task == [run |-> "start_round_robin"]
<1>1. /\ fate = "alive" /\ enqueue_registered_
      /\ fate' = IF BufferFull(packet_credits_, type) THEN "assert" ELSE fate
      /\ packet_credits_' = credits
      /\ fragments_to_send_' = rest
      /\ hci_queue' = Append(hci_queue, e)
      /\ \/ /\ IsEmpty(rest)
            /\ enqueue_registered_' = FALSE
            /\ tasks' = Append(tasks, task)
         \/ /\ ~IsEmpty(rest)
            /\ enqueue_registered_' = keeps_sending(rest, credits)
            /\ UNCHANGED tasks
      /\ UNCHANGED <<acl_queue_handlers_, starting_point_, queue, controller, history>>
  BY DEF handle_enqueue_next_fragment
<1>2. /\ H \in Handlers /\ F \in Fragments /\ packet_credits_ \in Credits /\ hci_queue \in Seq(Fragment)
      /\ buffered \in Buffers /\ tasks \in Seq(Task)
      /\ Fit(H, F, packet_credits_, tasks, hci_queue, link, buffered, queue)
      /\ Ready(H, F, packet_credits_, enqueue_registered_)
      /\ Points(starting_point_, H)
      /\ Streams(PathOf(hci_queue, F), queue, link, last, produced)
  BY InvFacts
<1>3. ~IsEmpty(F) /\ ~BufferFull(packet_credits_, type)
  BY <1>1, <1>2 DEF Ready
<1>4. PICK k \in Registered(H), p \in Priorities : PacketAt(F, p, k, H[k].connection_type_)
  BY <1>2, <1>3 DEF Fit, OnePacket
<1>5. e = F[p][1] /\ e \in Fragment /\ type \in ConnectionType
  <2>1. e = F[p][1] /\ e \in Fragment
    BY <1>2, <1>4, PacketFront
  <2> QED
    BY <2>1 DEF Fragment
<1>6. credits \in Credits
      /\ \A t \in ConnectionType : credits[t] = packet_credits_[t] - IF t = type THEN 1 ELSE 0
  <2> HIDE DEF type
  <2>1. packet_credits_ \in [ConnectionType -> Nat]
    BY <1>2 DEF Credits
  <2>2. packet_credits_[type] \in Nat /\ packet_credits_[type] # 0
    BY <1>3, <1>5, <2>1 DEF BufferFull
  <2>3. packet_credits_[type] - 1 \in Nat
    BY <2>2
  <2>4. \A t \in ConnectionType : packet_credits_[t] - 0 = packet_credits_[t]
    BY <2>1
  <2> QED
    BY <1>5, <2>1, <2>3, <2>4 DEF Credits
<1> HIDE DEF credits, rest, e
<1>7. /\ rest \in Fragments /\ hci_queue' \in Seq(Fragment)
      /\ Fit(H, rest, credits, tasks, hci_queue', link, buffered, queue)
  <2>1. \A t \in ConnectionType :
          credits[t] = packet_credits_[t] - IF t = Front(F).connection_type_ THEN 1 ELSE 0
    BY <1>6 DEF e
  <2> HIDE DEF H, F
  <2>2. /\ rest \in Fragments /\ Append(hci_queue, e) \in Seq(Fragment)
        /\ Fit(H, rest, credits, tasks, Append(hci_queue, e), link, buffered, queue)
    BY <1>2, <1>3, <2>1, FitHand DEF e, rest
  <2> QED
    BY <1>1, <2>2
<1>8. tasks' \in Seq(Task) /\ Fit(H, rest, credits, tasks', hci_queue', link, buffered, queue)
  <2>1. CASE IsEmpty(rest)
    <3>1. task \in Task /\ task.run = "start_round_robin"
      BY DEF Task
    <3>2. tasks' = Append(tasks, task)
      BY <1>1, <2>1
    <3> HIDE DEF task, H
    <3> QED
      BY <1>2, <1>7, <3>1, <3>2, FitPosted, AppendFacts
  <2>2. CASE ~IsEmpty(rest)
    BY <1>1, <1>2, <1>7, <2>2
  <2> QED
    BY <2>1, <2>2
<1>9. Ready(H, rest, credits, enqueue_registered_') /\ enqueue_registered_' \in BOOLEAN
  <2>1. \A h \in Handles : ~H[h].dequeue_is_registered_
    BY <1>2, <1>3 DEF Ready
  <2>2. enqueue_registered_' = FALSE
        \/ (/\ ~IsEmpty(rest)
            /\ enqueue_registered_' = ~BufferFull(credits, Front(rest).connection_type_))
    BY <1>1 DEF keeps_sending
  <2> QED
    BY <2>1, <2>2 DEF Ready
<1>10. PathOf(hci_queue', rest) = PathOf(hci_queue, F)
  <2> DEFINE t == F[p]
  <2>1. t \in Seq(Fragment) /\ t # <<>> /\ \A q \in Priorities \ {p} : F[q] = <<>>
    BY <1>2, <1>4 DEF Fragments, PacketAt
  <2>2. rest[p] = Tail(t) /\ \A q \in Priorities \ {p} : rest[q] = <<>>
    BY <1>2, <1>4, PacketPop DEF rest
  <2>3. PathOf(hci_queue, F) = hci_queue \o t
    BY <1>2, <2>1, PathFacts
  <2>4. PathOf(hci_queue', rest) = hci_queue' \o Tail(t)
    BY <1>7, <2>2, PathFacts
  <2>5. e = Head(t)
    BY <1>5, <2>1, TailFacts
  <2> HIDE DEF t
  <2>6. Append(hci_queue, Head(t)) \o Tail(t) = hci_queue \o t
    BY <1>2, <2>1, MoveFacts
  <2> QED
    BY <1>1, <2>3, <2>4, <2>5, <2>6
<1>11. fate' = "alive"
  BY <1>1, <1>3
<1> HIDE DEF type, task
<1>12. TypeOK' /\ MoreTypes'
  BY <1>1, <1>6, <1>7, <1>8, <1>9, <1>11
  DEF Inv, TypeOK, MoreTypes, Fragments, Credits, controller, history
<1>13. Streams(PathOf(hci_queue', fragments_to_send_'), queue', link', last', produced')
  BY <1>1, <1>2, <1>10 DEF controller, history
<1> QED
  BY <1>1, <1>2, <1>8, <1>9, <1>11, <1>12, <1>13 DEF Inv, controller, history

\* The HCI layer hands a fragment to the controller.
LEMMA on_outbound_acl_readyKeeps ==
  ASSUME Inv, on_outbound_acl_ready
  PROVE  Inv'
<1> DEFINE e == Head(hci_queue)
           g == e.handle_
           accepted == link[g] # "down"
           mark == [packet |-> e.packet, index |-> e.index, of |-> e.of]
           F == fragments_to_send_
           path == PathOf(hci_queue, F)
<1>1. /\ fate = "alive" /\ hci_queue # <<>> /\ hci_queue' = Tail(hci_queue)
      /\ buffered' = [buffered EXCEPT ![g] = IF accepted THEN @ + 1 ELSE @]
      /\ last' = [last EXCEPT ![g] = IF accepted THEN mark ELSE @]
      /\ UNCHANGED <<fate, scheduler, tasks, queue, link, history>>
  BY DEF on_outbound_acl_ready
<1>2. /\ acl_queue_handlers_ \in Handlers /\ F \in Fragments /\ hci_queue \in Seq(Fragment)
      /\ buffered \in Buffers
      /\ Fit(acl_queue_handlers_, F, packet_credits_, tasks, hci_queue, link, buffered, queue)
      /\ Streams(path, queue, link, last, produced)
  BY InvFacts
<1>3. e = hci_queue[1] /\ e \in Fragment /\ hci_queue' \in Seq(Fragment)
  BY <1>1, <1>2, TailFacts
<1>4. g \in Handles /\ mark \in LastFragment /\ SameMark(mark, e)
  BY <1>3 DEF Fragment, LastFragment, SameMark
<1>5. /\ buffered' \in Buffers
      /\ buffered'[g] = IF accepted THEN buffered[g] + 1 ELSE buffered[g]
      /\ \A h \in Handles \ {g} : buffered'[h] = buffered[h]
  <2>1. buffered \in [Handles -> Nat]
    BY <1>2 DEF Buffers
  <2>2. (IF accepted THEN buffered[g] + 1 ELSE buffered[g]) \in Nat
    BY <1>4, <2>1
  <2> HIDE DEF g, accepted
  <2> QED
    BY <1>1, <1>4, <2>1, <2>2 DEF Buffers
<1>6. Fit(acl_queue_handlers_, F, packet_credits_, tasks, hci_queue', link, buffered', queue)
  <2>1. buffered'[g] = IF link[g] # "down" THEN buffered[g] + 1 ELSE buffered[g]
    BY <1>5
  <2>2. g = Head(hci_queue).handle_ /\ g \in Handles /\ hci_queue # <<>>
    BY <1>1, <1>4
  <2>3. /\ acl_queue_handlers_ \in Handlers /\ F \in Fragments /\ hci_queue \in Seq(Fragment)
        /\ buffered \in Buffers /\ buffered' \in Buffers
        /\ Fit(acl_queue_handlers_, F, packet_credits_, tasks, hci_queue, link, buffered, queue)
        /\ \A h \in Handles \ {g} : buffered'[h] = buffered[h]
    BY <1>2, <1>5
  <2> HIDE DEF g, F
  <2>4. Fit(acl_queue_handlers_, F, packet_credits_, tasks, Tail(hci_queue), link, buffered', queue)
    BY <2>1, <2>2, <2>3, FitTake
  <2> QED
    BY <1>1, <2>4
<1>7. /\ last' \in [Handles -> LastFragment]
      /\ last'[g] = IF accepted THEN mark ELSE last[g]
      /\ \A h \in Handles \ {g} : last'[h] = last[h]
  <2>1. last \in [Handles -> LastFragment]
    BY DEF Inv, MoreTypes
  <2>2. (IF accepted THEN mark ELSE last[g]) \in LastFragment
    BY <1>4, <2>1
  <2> HIDE DEF g, accepted, mark
  <2> QED
    BY <1>1, <1>4, <2>1, <2>2
<1>8. /\ path \in Seq(Fragment) /\ path # <<>> /\ path[1] = e
      /\ PathOf(hci_queue', F) = Tail(path)
  <2>1. F[1] \in Seq(Fragment) /\ F[0] \in Seq(Fragment)
    BY <1>2 DEF Fragments, Priorities
  <2> DEFINE a == F[1]
             b == F[0]
             u == hci_queue \o a
  <2>2. a \in Seq(Fragment) /\ b \in Seq(Fragment) /\ path = u \o b
        /\ PathOf(hci_queue', F) = (Tail(hci_queue) \o a) \o b
    BY <1>1, <2>1 DEF PathOf
  <2>3. path \in Seq(Fragment)
    BY <1>2, PathFacts
  <2> HIDE DEF a, b, path
  <2>4. u \in Seq(Fragment)
    BY <1>2, <2>2, ConcatFacts
  <2>5. Tail(hci_queue) \o a = Tail(u) /\ u # <<>> /\ u[1] = hci_queue[1]
    BY <1>1, <1>2, <2>2, TailConcat
  <2> HIDE DEF u
  <2>6. Tail(u) \o b = Tail(u \o b) /\ u \o b # <<>> /\ (u \o b)[1] = u[1]
    BY <2>2, <2>4, <2>5, TailConcat
  <2> QED
    BY <1>3, <2>2, <2>3, <2>5, <2>6
<1>9. Streams(PathOf(hci_queue', F), queue, link, last', produced)
  <2> SUFFICES ASSUME NEW h \in Handles
               PROVE  Stream(Tail(path), h, queue[h], link[h], last'[h], produced[h])
    BY <1>8 DEF Streams
  <2>1. Stream(path, h, queue[h], link[h], last[h], produced[h])
    BY <1>2 DEF Streams
  <2>2. ASSUME link[h] # "down", NEW done, Ordered(path, h, last[h], done)
        PROVE  Ordered(Tail(path), h, last'[h], done)
    <3>1. IF path[1].handle_ = h THEN SameMark(last'[h], path[1]) ELSE last'[h] = last[h]
      <4>1. CASE h = g
        <5>1. last'[h] = mark /\ path[1].handle_ = h
          BY <1>7, <1>8, <2>2, <4>1
        <5> QED
          BY <1>4, <1>8, <5>1
      <4>2. CASE h # g
        <5>1. last'[h] = last[h] /\ path[1].handle_ # h
          BY <1>7, <1>8, <4>2
        <5> QED
          BY <5>1
      <4> QED
        BY <4>1, <4>2
    <3> HIDE DEF path
    <3> QED
      BY <1>8, <2>2, <3>1, OrderedTail
  <2> HIDE DEF path
  <2> QED
    BY <2>1, <2>2 DEF Stream
<1>10. TypeOK' /\ MoreTypes'
  BY <1>1, <1>3, <1>5, <1>7 DEF Inv, TypeOK, MoreTypes, Buffers, scheduler, history
<1> HIDE DEF path, mark, accepted, g, e
<1> QED
  BY <1>1, <1>6, <1>9, <1>10 DEF Inv, scheduler, history

\* A packet is taken from the queue of a connection.
LEMMA buffer_packetKeeps ==
  ASSUME Inv, NEW h \in Handles, buffer_packet(h)
  PROVE  Inv'
<1> DEFINE H == acl_queue_handlers_
           F == fragments_to_send_
           type == H[h].connection_type_
           packet == Head(queue[h])
           p == IF H[h].high_priority_ THEN 1 ELSE 0
           t == GetFragments(h, type, packet)
           next == [F EXCEPT ![p] = @ \o t]
           U == unregister_all_connections(H)
           n == Size(next)
           new == [U EXCEPT ![h] = Recount(U[h], U[h].number_of_sent_packets_ + n)]
<1>1. /\ fate = "alive" /\ H[h].dequeue_is_registered_ /\ queue[h] # <<>>
      /\ fragments_to_send_' = next
      /\ acl_queue_handlers_' = new
      /\ queue' = [queue EXCEPT ![h] = Tail(@)]
      /\ enqueue_registered_' = TRUE
      /\ UNCHANGED <<fate, packet_credits_, starting_point_, tasks, hci_queue, controller, history>>
  BY DEF buffer_packet, Recount, packets_counted
<1>2. /\ H \in Handlers /\ F \in Fragments /\ packet_credits_ \in Credits /\ hci_queue \in Seq(Fragment)
      /\ buffered \in Buffers /\ tasks \in Seq(Task)
      /\ Fit(H, F, packet_credits_, tasks, hci_queue, link, buffered, queue)
      /\ Ready(H, F, packet_credits_, enqueue_registered_)
      /\ Points(starting_point_, H)
      /\ Streams(PathOf(hci_queue, F), queue, link, last, produced)
  BY InvFacts
<1>3. h \in Registered(H) /\ type \in ConnectionType /\ IsEmpty(F) /\ ~BufferFull(packet_credits_, type)
  BY <1>1, <1>2, EntryFacts DEF Ready
<1>4. queue \in [Handles -> Seq(Packet)] /\ produced \in [Handles -> Nat]
  BY SchedulerBounds DEF Inv, MoreTypes, TypeOK
<1>5. /\ packet = queue[h][1] /\ packet \in Packet /\ Tail(queue[h]) \in Seq(Packet)
      /\ Len(queue[h]) \in Nat /\ Len(queue[h]) > 0 /\ Len(Tail(queue[h])) = Len(queue[h]) - 1
      /\ \A i \in 1 .. Len(Tail(queue[h])) :
           Tail(queue[h])[i] = queue[h][i + 1] /\ i + 1 \in 1 .. Len(queue[h])
  <2>1. queue[h] \in Seq(Packet)
    BY <1>4
  <2> QED
    BY <1>1, <2>1, TailFacts
<1>6. queue' \in [Handles -> Seq(Packet)] /\ queue'[h] = Tail(queue[h])
      /\ \A k \in Handles \ {h} : queue'[k] = queue[k]
  BY <1>1, <1>4, <1>5
<1>7. p \in Priorities
  BY DEF Priorities
<1> HIDE DEF packet, p
<1>8. /\ t \in Seq(Fragment) /\ t # <<>> /\ Pieces(t, h, type)
      /\ \A i \in 1 .. Len(t) :
           t[i].handle_ = h /\ t[i].packet = packet.number /\ t[i].index = i /\ t[i].of = Len(t)
  <2> HIDE DEF type
  <2> QED
    BY <1>3, <1>5, FragmentsOf
<1> HIDE DEF t
<1>9. next \in Fragments /\ next[p] = t /\ \A q \in Priorities \ {p} : next[q] = <<>>
  <2>1. \A q \in Priorities : F[q] = <<>>
    BY <1>3 DEF IsEmpty
  <2>2. F[p] \o t = t
    BY <1>7, <1>8, <2>1, ConcatEmptySeq
  <2>3. next = [F EXCEPT ![p] = t]
    BY <2>2
  <2> QED
    BY <1>2, <1>7, <1>8, <2>1, <2>3 DEF Fragments
<1> HIDE DEF next
<1>10. PacketAt(next, p, h, type)
  BY <1>8, <1>9 DEF PacketAt
<1>11. n \in Nat /\ ~IsEmpty(next) /\ Front(next).connection_type_ = type
  BY <1>7, <1>9, <1>10, PacketFront
<1> HIDE DEF n
<1>12. /\ U \in Handlers /\ SameBooks(U, H) /\ \A k \in Handles : ~U[k].dequeue_is_registered_
  BY <1>2, UnregisterAllFacts
<1> HIDE DEF U
<1>13. \A k \in Handles : /\ U[k].connection_type_ = H[k].connection_type_
                          /\ U[k].number_of_sent_packets_ = H[k].number_of_sent_packets_
                          /\ U[k].number_of_sent_packets_ \in Nat
  <2>1. Types(U) = Types(H) /\ Counts(U) = Counts(H)
    BY <1>12 DEF SameBooks
  <2> QED
    BY <1>2, <1>12, <2>1, CountsType, EntryFacts
<1>14. U[h] \in AclQueueHandler
  BY <1>3, <1>12, EntryFacts DEF SameBooks
<1>15. LET r == Recount(U[h], U[h].number_of_sent_packets_ + n)
       IN  /\ r \in AclQueueHandler /\ r.connection_type_ = U[h].connection_type_
           /\ r.number_of_sent_packets_ = U[h].number_of_sent_packets_ + n
           /\ r.dequeue_is_registered_ = U[h].dequeue_is_registered_
  <2>1. U[h].number_of_sent_packets_ + n \in Nat
    BY <1>11, <1>13
  <2> QED
    BY <1>14, <2>1, RecountFacts
<1>16. /\ new \in Handlers
       /\ \A k \in Handles : new[k].connection_type_ = H[k].connection_type_
                             /\ ~new[k].dequeue_is_registered_
       /\ new[h].number_of_sent_packets_ = H[h].number_of_sent_packets_ + n
       /\ \A k \in Handles \ {h} : new[k].number_of_sent_packets_ = H[k].number_of_sent_packets_
  <2> DEFINE r == Recount(U[h], U[h].number_of_sent_packets_ + n)
  <2>1. /\ r \in AclQueueHandler /\ r.connection_type_ = H[h].connection_type_
        /\ r.number_of_sent_packets_ = H[h].number_of_sent_packets_ + n
        /\ ~r.dequeue_is_registered_
    BY <1>12, <1>13, <1>15
  <2>2. new = [U EXCEPT ![h] = r]
    OBVIOUS
  <2> HIDE DEF r, new
  <2>3. new \in Handlers /\ new[h] = r /\ \A k \in Handles \ {h} : new[k] = U[k]
    BY <1>12, <2>1, <2>2 DEF Handlers
  <2> QED
    BY <1>12, <1>13, <2>1, <2>3
<1> HIDE DEF new
<1>17. Types(new) = Types(H) /\ Registered(new) = Registered(H)
  <2>1. \A k \in Handles : k \in Registered(new) <=> k \in Registered(H)
    BY <1>2, <1>16, EntryFacts
  <2>2. Registered(new) = Registered(H)
    BY <2>1 DEF Registered
  <2> QED
    BY <1>16, <2>2 DEF Types
<1>18. Fit(new, next, packet_credits_, tasks, hci_queue, link, buffered, queue')
  <2>1. Counts(new)[h] = Counts(H)[h] + Size(next)
        /\ \A k \in Handles \ {h} : Counts(new)[k] = Counts(H)[k] /\ queue'[k] = queue[k]
    BY <1>6, <1>16 DEF Counts, n
  <2>2. PacketAt(next, p, h, H[h].connection_type_)
    BY <1>10
  <2> HIDE DEF H, F
  <2> QED
    BY <1>2, <1>3, <1>7, <1>9, <1>16, <1>17, <2>1, <2>2, FitBuffer
<1>19. Ready(new, next, packet_credits_, TRUE)
  BY <1>3, <1>11, <1>16 DEF Ready
<1>20. Points(starting_point_, new)
  BY <1>2, <1>17 DEF Points
<1>21. Streams(PathOf(hci_queue, next), queue', link, last, produced)
  <2>1. PathOf(hci_queue, F) = hci_queue /\ PathOf(hci_queue, next) = hci_queue \o t
    BY <1>2, <1>3, <1>7, <1>9, PathFacts
  <2> SUFFICES ASSUME NEW k \in Handles
               PROVE  Stream(hci_queue \o t, k, queue'[k], link[k], last[k], produced[k])
    BY <2>1 DEF Streams
  <2>2. Stream(hci_queue, k, queue[k], link[k], last[k], produced[k])
    BY <1>2, <2>1 DEF Streams
  <2>3. CASE k # h
    <3>1. queue'[k] = queue[k]
      BY <1>6, <2>3
    <3>2. \A i \in DOMAIN t : t[i].handle_ # k
      BY <1>8, <2>3, LenProperties
    <3>3. Own(hci_queue \o t, k) = Own(hci_queue, k)
          /\ \A i \in Own(hci_queue, k) : (hci_queue \o t)[i] = hci_queue[i]
      <4>1. hci_queue \in Seq(Fragment) /\ t \in Seq(Fragment)
        BY <1>2, <1>8
      <4> QED
        BY <3>2, <4>1, OtherConcat
    <3>4. hci_queue \o t \in Seq(Fragment)
      BY <1>2, <1>8, ConcatFacts
    <3>5. ASSUME NEW done, Ordered(hci_queue, k, last[k], done)
          PROVE  Ordered(hci_queue \o t, k, last[k], done)
      BY <1>2, <3>3, <3>4, <3>5, OrderedSame
    <3> QED
      BY <2>2, <3>1, <3>5 DEF Stream
  <2>4. CASE k = h
    <3> DEFINE s == queue[h]
               u == Tail(s)
               m == produced[h]
               done == m - Len(s)
    <3>1. /\ Len(s) <= m /\ \A i \in 1 .. Len(s) : s[i].number + Len(s) = m + i
          /\ link[h] # "down" => Ordered(hci_queue, h, last[h], done)
      BY <2>2, <2>4 DEF Stream
    <3>2. /\ m \in Nat /\ Len(s) \in Nat /\ Len(s) > 0 /\ Len(u) = Len(s) - 1
          /\ \A i \in 1 .. Len(u) : u[i] = s[i + 1] /\ i + 1 \in 1 .. Len(s)
          /\ u \in Seq(Packet) /\ s \in Seq(Packet)
      BY <1>4, <1>5
    <3> HIDE DEF s, u, m
    <3>3. done \in Nat /\ m - Len(u) = done + 1
      BY <3>1, <3>2
    <3>4. packet.number = done + 1
      <4>1. 1 \in 1 .. Len(s)
        BY <3>2
      <4>2. packet.number + Len(s) = m + 1 /\ packet.number \in Nat
        BY <1>5, <3>1, <4>1 DEF s, Packet
      <4> HIDE DEF packet
      <4>3. packet.number = (m - Len(s)) + 1
        BY <3>2, <4>2
      <4> QED
        BY <4>3
    <3> HIDE DEF done
    <3>5. ASSUME link[h] # "down"
          PROVE  Ordered(hci_queue \o t, h, last[h], m - Len(u))
      <4>1. Ordered(hci_queue, h, last[h], done)
        BY <3>1, <3>5
      <4>2. \A i \in 1 .. Len(t) :
              t[i].handle_ = h /\ t[i].packet = done + 1 /\ t[i].index = i /\ t[i].of = Len(t)
        BY <1>8, <3>4
      <4>3. Ordered(hci_queue \o t, h, last[h], done + 1)
        BY <1>2, <1>8, <3>3, <4>1, <4>2, OrderedPacket
      <4> QED
        BY <3>3, <4>3
    <3>6. Len(u) <= m
      BY <3>1, <3>2
    <3>7. ASSUME NEW i \in 1 .. Len(u) PROVE u[i].number + Len(u) = m + i
      <4>1. u[i] = s[i + 1] /\ i + 1 \in 1 .. Len(s)
        BY <3>2
      <4>2. u[i].number + Len(s) = m + (i + 1)
        BY <3>1, <4>1
      <4>3. u[i] \in Packet
        BY <3>2, ElementOfSeq
      <4>4. u[i].number \in Nat
        BY <4>3 DEF Packet
      <4> DEFINE x == u[i].number
                 l == Len(s)
                 j == Len(u)
      <4>5. x + l = m + (i + 1) /\ x \in Nat /\ l \in Nat /\ j = l - 1
        BY <3>2, <4>2, <4>4
      <4> HIDE DEF x, l, j
      <4>6. x + j = m + i
        BY <3>2, <4>5
      <4> QED
        BY <4>6 DEF x, j
    <3>8. Stream(hci_queue \o t, h, u, link[h], last[h], m)
      BY <3>5, <3>6, <3>7 DEF Stream
    <3> QED
      BY <1>6, <2>4, <3>8 DEF s, u, m
  <2> QED
    BY <2>3, <2>4
<1>22. TypeOK' /\ MoreTypes'
  BY <1>1, <1>6, <1>9, <1>16 DEF Inv, TypeOK, MoreTypes, Handlers, Fragments, controller, history
<1> HIDE DEF H, F, type
<1> QED
  BY <1>1, <1>18, <1>19, <1>20, <1>21, <1>22 DEF Inv, controller, history

\* The entry of a connection with another priority.
Reprioritized(e, b) == [e EXCEPT !.high_priority_ = b]

\* Only the priority of the entry changes.
LEMMA ReprioritizedFacts ==
  ASSUME NEW e \in AclQueueHandler, NEW b \in BOOLEAN
  PROVE  LET r == Reprioritized(e, b)
         IN  /\ r \in AclQueueHandler /\ r.connection_type_ = e.connection_type_
             /\ r.number_of_sent_packets_ = e.number_of_sent_packets_
             /\ r.dequeue_is_registered_ = e.dequeue_is_registered_
BY DEF Reprioritized, AclQueueHandler

\* A connection gets another priority.
LEMMA SetLinkPriorityKeeps ==
  ASSUME Inv, NEW h \in Handles, NEW b \in BOOLEAN, SetLinkPriority(h, b)
  PROVE  Inv'
<1> DEFINE H == acl_queue_handlers_
           r == Reprioritized(H[h], b)
           new == [H EXCEPT ![h] = r]
<1>1. /\ h \in Registered(H) /\ acl_queue_handlers_' = new
      /\ UNCHANGED <<fate, fragments_to_send_, packet_credits_, enqueue_registered_,
                     starting_point_, tasks, queue, hci_queue, controller, history>>
  BY DEF SetLinkPriority, Reprioritized
<1>2. /\ H \in Handlers
      /\ Fit(H, fragments_to_send_, packet_credits_, tasks, hci_queue, link, buffered, queue)
      /\ Ready(H, fragments_to_send_, packet_credits_, enqueue_registered_)
      /\ Points(starting_point_, H)
  BY InvFacts
<1>3. /\ r \in AclQueueHandler /\ r.connection_type_ = H[h].connection_type_
      /\ r.number_of_sent_packets_ = H[h].number_of_sent_packets_
      /\ r.dequeue_is_registered_ = H[h].dequeue_is_registered_
  BY <1>1, <1>2, EntryFacts, ReprioritizedFacts
<1> HIDE DEF r
<1>4. /\ new \in Handlers
      /\ \A k \in Handles : /\ new[k].connection_type_ = H[k].connection_type_
                            /\ new[k].number_of_sent_packets_ = H[k].number_of_sent_packets_
                            /\ new[k].dequeue_is_registered_ = H[k].dequeue_is_registered_
  BY <1>2, <1>3 DEF Handlers
<1> HIDE DEF new
<1>5. SameBooks(new, H)
  BY <1>2, <1>4, SameBooksWhen
<1>6. Fit(new, fragments_to_send_, packet_credits_, tasks, hci_queue, link, buffered, queue)
  BY <1>2, <1>4, <1>5, FitSame
<1>7. Ready(new, fragments_to_send_, packet_credits_, enqueue_registered_)
  BY <1>2, <1>4 DEF Ready
<1>8. Points(starting_point_, new)
  BY <1>2, <1>5 DEF Points, SameBooks
<1>9. TypeOK' /\ MoreTypes'
  BY <1>1, <1>4 DEF Inv, TypeOK, MoreTypes, Handlers, controller, history
<1> HIDE DEF H
<1> QED
  BY <1>1, <1>6, <1>7, <1>8, <1>9 DEF Inv, controller, history

\* A packet more in the queue of a connection.
LEMMA ProduceKeeps ==
  ASSUME Inv, NEW h \in Handles, NEW size \in Sizes, Produce(h, size)
  PROVE  Inv'
<1> DEFINE e == [number |-> produced[h] + 1, size |-> size]
<1>1. /\ h \in Registered(acl_queue_handlers_)
      /\ Sum(produced, Handles) < MaxPackets
      /\ produced' = [produced EXCEPT ![h] = @ + 1]
      /\ queue' = [queue EXCEPT ![h] = Append(@, e)]
      /\ UNCHANGED <<fate, scheduler, tasks, hci_queue, controller, connections>>
  BY DEF Produce
<1>2. produced \in [Handles -> 0 .. MaxPackets] /\ queue \in [Handles -> Seq(Packet)]
      /\ produced \in [Handles -> Nat] /\ MaxPackets \in Nat
  BY SchedulerBounds DEF Inv, TypeOK, MoreTypes
<1>3. e \in Packet /\ e.number = produced[h] + 1
  BY <1>2 DEF Packet
<1> HIDE DEF e
<1>4. produced[h] < MaxPackets
  <2> DEFINE a == Sum(produced, Handles)
             b == Sum(produced, Handles \ {h})
             c == produced[h]
  <2>1. a = b + c /\ b \in Nat /\ c \in Nat /\ a < MaxPackets
    BY <1>1, <1>2, SumSplit
  <2> HIDE DEF a, b, c
  <2>2. c < MaxPackets
    BY <1>2, <2>1
  <2> QED
    BY <2>2 DEF c
<1>5. /\ produced' \in [Handles -> 0 .. MaxPackets] /\ produced'[h] = produced[h] + 1
      /\ \A k \in Handles \ {h} : produced'[k] = produced[k]
  <2>1. produced[h] + 1 \in 0 .. MaxPackets
    BY <1>2, <1>4
  <2> QED
    BY <1>1, <1>2, <2>1
<1>6. /\ queue' \in [Handles -> Seq(Packet)] /\ queue'[h] = Append(queue[h], e)
      /\ \A k \in Handles \ {h} : queue'[k] = queue[k]
  BY <1>1, <1>2, <1>3
<1>7. Fit(acl_queue_handlers_, fragments_to_send_, packet_credits_, tasks, hci_queue, link,
          buffered, queue')
  <2>1. Fit(acl_queue_handlers_, fragments_to_send_, packet_credits_, tasks, hci_queue, link,
            buffered, queue)
    BY InvFacts
  <2> QED
    BY <1>1, <1>6, <2>1, FitProduce
<1> DEFINE path == PathOf(hci_queue, fragments_to_send_)
<1>8. Streams(path, queue', link, last, produced')
  <2>1. Streams(path, queue, link, last, produced)
    BY InvFacts
  <2> HIDE DEF path
  <2> SUFFICES ASSUME NEW k \in Handles
               PROVE  Stream(path, k, queue'[k], link[k], last[k], produced'[k])
    BY DEF Streams
  <2>2. Stream(path, k, queue[k], link[k], last[k], produced[k])
    BY <2>1 DEF Streams
  <2>3. CASE k # h
    BY <1>5, <1>6, <2>2, <2>3
  <2>4. CASE k = h
    <3> DEFINE s == queue[h]
               u == Append(s, e)
               m == produced[h]
    <3>1. s \in Seq(Packet) /\ m \in Nat /\ e.number = m + 1
      BY <1>2, <1>3
    <3>2. Stream(path, h, s, link[h], last[h], m)
      BY <2>2, <2>4
    <3> HIDE DEF s, m
    <3>3. /\ Len(u) = Len(s) + 1 /\ Len(s) \in Nat
          /\ \A i \in 1 .. Len(s) : u[i] = s[i]
          /\ u[Len(s) + 1] = e
      BY <1>3, <3>1, AppendFacts
    <3>4. \A i \in 1 .. Len(s) : s[i] \in Packet
      BY <3>1, ElementOfSeq
    <3> HIDE DEF u
    <3>5. Len(u) <= m + 1 /\ (m + 1) - Len(u) = m - Len(s)
      BY <3>1, <3>2, <3>3 DEF Stream
    <3>6. ASSUME NEW i \in 1 .. Len(u) PROVE u[i].number + Len(u) = (m + 1) + i
      <4>1. CASE i = Len(s) + 1
        <5>1. u[i].number = m + 1
          BY <3>1, <3>3, <4>1
        <5> QED
          BY <3>1, <3>3, <4>1, <5>1
      <4>2. CASE i # Len(s) + 1
        <5>1. i \in 1 .. Len(s)
          BY <3>3, <4>2
        <5> DEFINE x == u[i].number
                   l == Len(s)
        <5>2. x + l = m + i /\ x \in Nat /\ l \in Nat /\ Len(u) = l + 1
          BY <3>2, <3>3, <3>4, <5>1 DEF Stream, Packet
        <5> HIDE DEF x, l
        <5>3. x + Len(u) = (m + 1) + i
          BY <3>1, <5>2
        <5> QED
          BY <5>3 DEF x
      <4> QED
        BY <4>1, <4>2
    <3>7. link[h] # "down" => Ordered(path, h, last[h], (m + 1) - Len(u))
      BY <3>2, <3>5 DEF Stream
    <3>8. Stream(path, h, u, link[h], last[h], m + 1)
      BY <3>5, <3>6, <3>7 DEF Stream
    <3> QED
      BY <1>5, <1>6, <2>4, <3>8 DEF u, s, m
  <2> QED
    BY <2>3, <2>4
<1>9. TypeOK' /\ MoreTypes'
  BY <1>1, <1>5, <1>6 DEF Inv, TypeOK, MoreTypes, scheduler, controller
<1> QED
  BY <1>1, <1>7, <1>8, <1>9 DEF Inv, scheduler, controller

\* The controller reports packets as completed.
LEMMA ControllerCompletesKeeps ==
  ASSUME Inv, NEW h \in Handles, NEW count \in 1 .. buffered[h], ControllerCompletes(h, count)
  PROVE  Inv'
<1> DEFINE e == [run |-> "incoming_acl_credits", handle |-> h, credits |-> count]
<1>1. /\ buffered' = [buffered EXCEPT ![h] = @ - count]
      /\ tasks' = Append(tasks, e)
      /\ UNCHANGED <<fate, scheduler, queue, hci_queue, link, last, history>>
  BY DEF ControllerCompletes
<1>2. /\ acl_queue_handlers_ \in Handlers /\ fragments_to_send_ \in Fragments
      /\ buffered \in Buffers /\ tasks \in Seq(Task)
      /\ Fit(acl_queue_handlers_, fragments_to_send_, packet_credits_, tasks, hci_queue, link,
             buffered, queue)
  BY InvFacts
<1>3. buffered \in [Handles -> Nat] /\ buffered[h] \in Nat
  BY <1>2 DEF Buffers
<1>4. count \in Nat \ {0} /\ buffered[h] - count \in Nat
  BY <1>3
<1>5. e \in Task /\ Is(e, "incoming_acl_credits", h) /\ e.credits = count
  BY <1>4 DEF Task, Is
<1> HIDE DEF e
<1>6. tasks' \in Seq(Task)
  BY <1>1, <1>2, <1>5, AppendFacts
<1>7. /\ buffered' \in Buffers /\ buffered'[h] = buffered[h] - count
      /\ \A k \in Handles \ {h} : buffered'[k] = buffered[k]
  BY <1>1, <1>3, <1>4 DEF Buffers
<1>8. Fit(acl_queue_handlers_, fragments_to_send_, packet_credits_, Append(tasks, e), hci_queue,
          link, buffered', queue)
  BY <1>2, <1>5, <1>7, FitCompletes
<1>9. TypeOK' /\ MoreTypes'
  BY <1>1, <1>6, <1>7 DEF Inv, TypeOK, MoreTypes, Buffers, scheduler, history
<1> QED
  BY <1>1, <1>8, <1>9 DEF Inv, scheduler, history

\* A new connection.
LEMMA ConnectKeeps ==
  ASSUME Inv, NEW h \in Handles, NEW type \in ConnectionType, Connect(h, type)
  PROVE  Inv'
<1> DEFINE e == [run |-> "Register", handle |-> h, type |-> type]
           first == [NoFragment EXCEPT !.packet = produced[h]]
           path == PathOf(hci_queue, fragments_to_send_)
<1>1. /\ connections < MaxConnections
      /\ h \notin Registered(acl_queue_handlers_)
      /\ ~ \E n \in 1 .. Len(hci_queue) : hci_queue[n].handle_ = h
      /\ ~ \E n \in 1 .. Len(tasks) : tasks[n].run # "start_round_robin" /\ tasks[n].handle = h
      /\ link' = [link EXCEPT ![h] = type]
      /\ last' = [last EXCEPT ![h] = first]
      /\ tasks' = Append(tasks, e)
      /\ connections' = connections + 1
      /\ UNCHANGED <<fate, scheduler, queue, hci_queue, buffered, produced>>
  BY DEF Connect
<1>2. /\ acl_queue_handlers_ \in Handlers /\ fragments_to_send_ \in Fragments
      /\ hci_queue \in Seq(Fragment) /\ buffered \in Buffers /\ tasks \in Seq(Task)
      /\ Fit(acl_queue_handlers_, fragments_to_send_, packet_credits_, tasks, hci_queue, link,
             buffered, queue)
      /\ Streams(path, queue, link, last, produced)
  BY InvFacts
<1>3. e \in Task /\ Is(e, "Register", h) /\ e.type = type
  BY DEF Task, Is
<1> HIDE DEF e
<1>4. tasks' \in Seq(Task)
  BY <1>1, <1>2, <1>3, AppendFacts
<1>5. /\ link' \in [Handles -> ConnectionType \cup {"down"}]
      /\ link'[h] = type /\ \A k \in Handles \ {h} : link'[k] = link[k]
  BY <1>1 DEF Inv, TypeOK
<1>6. /\ produced[h] \in Nat /\ first.packet = produced[h] /\ first.index = first.of
      /\ first \in LastFragment
  <2>1. produced[h] \in Nat
    BY SchedulerBounds DEF Inv, TypeOK
  <2> QED
    BY <2>1 DEF NoFragment, LastFragment
<1> HIDE DEF first
<1>7. /\ last' \in [Handles -> LastFragment]
      /\ last'[h] = first /\ \A k \in Handles \ {h} : last'[k] = last[k]
  BY <1>1, <1>6 DEF Inv, MoreTypes
<1>8. connections' \in 0 .. MaxConnections
  BY <1>1, SchedulerBounds DEF Inv, TypeOK
<1>9. Own(hci_queue, h) = {} /\ \A n \in 1 .. Len(tasks) : ~About(tasks[n], h)
  BY <1>1, <1>2, LenProperties DEF Own, About
<1>10. /\ queue[h] = <<>>
       /\ Fit(acl_queue_handlers_, fragments_to_send_, packet_credits_, Append(tasks, e), hci_queue,
              link', buffered, queue)
  <2>1. h \notin Registered(acl_queue_handlers_) /\ link'[h] = e.type
    BY <1>1, <1>3, <1>5
  <2>2. \A k \in Handles \ {h} : link'[k] = link[k]
    BY <1>5
  <2>3. /\ acl_queue_handlers_ \in Handlers /\ fragments_to_send_ \in Fragments
        /\ buffered \in Buffers /\ tasks \in Seq(Task)
        /\ Fit(acl_queue_handlers_, fragments_to_send_, packet_credits_, tasks, hci_queue, link,
               buffered, queue)
    BY <1>2
  <2> QED
    BY <1>3, <1>9, <2>1, <2>2, <2>3, FitConnect
<1>11. path \in Seq(Fragment) /\ Own(path, h) = {}
  <2>1. OnePacket(acl_queue_handlers_, fragments_to_send_)
    BY <1>2 DEF Fit
  <2>2. \A p \in Priorities : \A n \in DOMAIN fragments_to_send_[p] :
          fragments_to_send_[p][n].handle_ # h
    BY <1>1, <1>2, <2>1, OthersWait
  <2> QED
    BY <1>2, <1>9, <2>2, OtherPath
<1> HIDE DEF path
<1>12. Streams(path, queue, link', last', produced)
  <2> SUFFICES ASSUME NEW k \in Handles
               PROVE  Stream(path, k, queue[k], link'[k], last'[k], produced[k])
    BY DEF Streams
  <2>1. Stream(path, k, queue[k], link[k], last[k], produced[k])
    BY <1>2 DEF Streams
  <2>2. CASE k # h
    BY <1>5, <1>7, <2>1, <2>2
  <2>3. CASE k = h
    <3>1. Ordered(path, h, first, produced[h])
      BY <1>6, <1>11, OrderedNew
    <3>2. Len(queue[h]) = 0 /\ produced[h] - Len(queue[h]) = produced[h]
      BY <1>6, <1>10
    <3>3. Ordered(path, h, last'[h], produced[h] - Len(queue[h]))
      BY <1>7, <3>1, <3>2
    <3> QED
      BY <2>1, <2>3, <3>3 DEF Stream
  <2> QED
    BY <2>2, <2>3
<1>13. TypeOK' /\ MoreTypes'
  BY <1>1, <1>4, <1>5, <1>7, <1>8 DEF Inv, TypeOK, MoreTypes, scheduler
<1> QED
  BY <1>1, <1>10, <1>12, <1>13 DEF Inv, scheduler, path

\* A link goes down.
LEMMA DisconnectKeeps ==
  ASSUME Inv, NEW h \in Handles, Disconnect(h)
  PROVE  Inv'
<1> DEFINE e == [run |-> "Unregister", handle |-> h]
           path == PathOf(hci_queue, fragments_to_send_)
<1>1. /\ link[h] # "down"
      /\ link' = [link EXCEPT ![h] = "down"]
      /\ buffered' = [buffered EXCEPT ![h] = 0]
      /\ tasks' = Append(tasks, e)
      /\ UNCHANGED <<fate, scheduler, queue, hci_queue, last, history>>
  BY DEF Disconnect
<1>2. /\ acl_queue_handlers_ \in Handlers /\ fragments_to_send_ \in Fragments
      /\ buffered \in Buffers /\ tasks \in Seq(Task)
      /\ Fit(acl_queue_handlers_, fragments_to_send_, packet_credits_, tasks, hci_queue, link,
             buffered, queue)
      /\ Streams(path, queue, link, last, produced)
  BY InvFacts
<1>3. e \in Task /\ Is(e, "Unregister", h)
  BY DEF Task, Is
<1> HIDE DEF e
<1>4. tasks' \in Seq(Task)
  BY <1>1, <1>2, <1>3, AppendFacts
<1>5. /\ link' \in [Handles -> ConnectionType \cup {"down"}]
      /\ link'[h] = "down" /\ \A k \in Handles \ {h} : link'[k] = link[k]
  BY <1>1 DEF Inv, TypeOK
<1>6. /\ buffered' \in Buffers /\ buffered'[h] = 0
      /\ \A k \in Handles \ {h} : buffered'[k] = buffered[k]
  BY <1>1, <1>2 DEF Buffers
<1>7. Fit(acl_queue_handlers_, fragments_to_send_, packet_credits_, Append(tasks, e), hci_queue,
          link', buffered', queue)
  <2>1. link[h] # "down" /\ link'[h] = "down" /\ buffered'[h] = 0
    BY <1>1, <1>5, <1>6
  <2>2. \A k \in Handles \ {h} : link'[k] = link[k] /\ buffered'[k] = buffered[k]
    BY <1>5, <1>6
  <2>3. /\ acl_queue_handlers_ \in Handlers /\ fragments_to_send_ \in Fragments
        /\ buffered \in Buffers /\ buffered' \in Buffers /\ tasks \in Seq(Task)
        /\ Fit(acl_queue_handlers_, fragments_to_send_, packet_credits_, tasks, hci_queue, link,
               buffered, queue)
    BY <1>2, <1>6
  <2> QED
    BY <1>3, <2>1, <2>2, <2>3, FitDisconnect
<1> HIDE DEF path
<1>8. Streams(path, queue, link', last, produced)
  <2> SUFFICES ASSUME NEW k \in Handles
               PROVE  Stream(path, k, queue[k], link'[k], last[k], produced[k])
    BY DEF Streams
  <2>1. Stream(path, k, queue[k], link[k], last[k], produced[k])
    BY <1>2 DEF Streams
  <2>2. CASE k # h
    BY <1>5, <2>1, <2>2
  <2>3. CASE k = h
    BY <1>5, <2>1, <2>3 DEF Stream
  <2> QED
    BY <2>2, <2>3
<1>9. TypeOK' /\ MoreTypes'
  BY <1>1, <1>4, <1>5, <1>6 DEF Inv, TypeOK, MoreTypes, Buffers, scheduler, history
<1> QED
  BY <1>1, <1>7, <1>8, <1>9 DEF Inv, scheduler, history, path

-----------------------------------------------------------------------------
(* The invariant holds *)

\* Nothing adds up to nothing, whatever the function.
LEMMA SumNone ==
  ASSUME NEW f
  PROVE  Sum(f, {}) = 0
<1>1. UNION {{h} \X (1 .. f[h]) : h \in {}} = {}
  OBVIOUS
<1> QED
  BY <1>1, FS_EmptySet DEF Sum

\* It holds initially.
LEMMA InitInv ==
  ASSUME Init
  PROVE  Inv
<1>1. /\ fate = "alive" /\ acl_queue_handlers_ = [h \in Handles |-> NoHandler]
      /\ fragments_to_send_ = [p \in Priorities |-> <<>>]
      /\ packet_credits_ = MaxCredits /\ enqueue_registered_ = FALSE
      /\ starting_point_ = SINGULAR /\ tasks = <<>> /\ hci_queue = <<>>
      /\ queue = [h \in Handles |-> <<>>] /\ link = [h \in Handles |-> "down"]
      /\ buffered = [h \in Handles |-> 0] /\ last = [h \in Handles |-> NoFragment]
      /\ produced = [h \in Handles |-> 0] /\ connections = 0
  BY DEF Init
<1>2. TypeOK
  <2>1. packet_credits_ \in [ConnectionType -> Nat]
    BY <1>1, CreditsAssumption
  <2>2. fragments_to_send_ \in [Priorities -> Seq(Fragment)] /\ hci_queue \in Seq(Fragment)
    BY <1>1, EmptySeq
  <2>3. 0 \in 0 .. MaxPackets /\ 0 \in 0 .. MaxConnections
    BY SchedulerBounds
  <2>4. produced \in [Handles -> 0 .. MaxPackets] /\ connections \in 0 .. MaxConnections
    BY <1>1, <2>3
  <2>5. buffered \in [Handles -> Nat] /\ link \in [Handles -> ConnectionType \cup {"down"}]
    BY <1>1
  <2>6. acl_queue_handlers_ \in [Handles -> AclQueueHandler \cup {NoHandler}]
    BY <1>1
  <2>7. fate \in {"alive", "assert"} /\ enqueue_registered_ \in BOOLEAN
        /\ starting_point_ \in Handles \cup {END, SINGULAR}
    BY <1>1
  <2> QED
    BY <2>1, <2>2, <2>4, <2>5, <2>6, <2>7 DEF TypeOK
<1>3. MoreTypes
  <2>1. tasks \in Seq(Task) /\ queue \in [Handles -> Seq(Packet)]
    BY <1>1, EmptySeq
  <2>2. NoFragment \in LastFragment
    BY DEF NoFragment, LastFragment
  <2> QED
    BY <1>1, <2>1, <2>2 DEF MoreTypes
<1>4. Registered(acl_queue_handlers_) = {}
  BY <1>1 DEF Registered
<1>5. IsEmpty(fragments_to_send_)
  BY <1>1 DEF IsEmpty
<1>6. Lifecycle(acl_queue_handlers_, tasks, hci_queue, link, buffered, queue)
  <2> SUFFICES ASSUME NEW h \in Handles
               PROVE  LifeOf(acl_queue_handlers_, tasks, hci_queue, h, link[h], buffered[h], queue[h])
    BY DEF Lifecycle
  <2>1. Len(tasks) = 0 /\ link[h] = "down" /\ buffered[h] = 0 /\ queue[h] = <<>>
    BY <1>1
  <2>2. \A n \in 1 .. Len(tasks) : FALSE
    BY <2>1
  <2> QED
    BY <2>1, <2>2 DEF LifeOf, Life, RegisterIsFirst, UnregisterIsLast, LinkKnown
<1>7. Conserved(acl_queue_handlers_, fragments_to_send_, packet_credits_)
  <2> SUFFICES ASSUME NEW type \in ConnectionType
               PROVE  packet_credits_[type]
                        + Sum(Counts(acl_queue_handlers_),
                              {h \in Handles : Types(acl_queue_handlers_)[h] = type})
                      = MaxCredits[type] + PendingOf(fragments_to_send_, type)
    BY DEF Conserved
  <2>1. {h \in Handles : Types(acl_queue_handlers_)[h] = type} = {}
    BY <1>1 DEF Types, NoHandler, ConnectionType
  <2>2. PendingOf(fragments_to_send_, type) = 0
    BY <1>5, NothingWaits
  <2>3. MaxCredits[type] \in Nat
    BY CreditsAssumption
  <2> QED
    BY <1>1, <2>1, <2>2, <2>3, SumNone
<1>8. Fit(acl_queue_handlers_, fragments_to_send_, packet_credits_, tasks, hci_queue, link,
          buffered, queue)
  BY <1>4, <1>5, <1>6, <1>7 DEF Fit, OnePacket, Accounted
<1>9. Streams(PathOf(hci_queue, fragments_to_send_), queue, link, last, produced)
  <2> SUFFICES ASSUME NEW h \in Handles
               PROVE  Stream(PathOf(hci_queue, fragments_to_send_), h, queue[h], link[h], last[h],
                             produced[h])
    BY DEF Streams
  <2>1. queue[h] = <<>> /\ link[h] = "down" /\ produced[h] = 0
    BY <1>1
  <2>2. Len(queue[h]) = 0
    BY <2>1
  <2> QED
    BY <2>1, <2>2 DEF Stream
<1>10. Ready(acl_queue_handlers_, fragments_to_send_, packet_credits_, enqueue_registered_)
  BY <1>1 DEF Ready, NoHandler
<1>11. Points(starting_point_, acl_queue_handlers_)
  BY <1>1, <1>4 DEF Points
<1> QED
  BY <1>1, <1>2, <1>3, <1>8, <1>9, <1>10, <1>11 DEF Inv

\* Every step keeps it.
LEMMA NextKeeps ==
  ASSUME Inv, [Next]_vars
  PROVE  Inv'
<1>1. CASE UNCHANGED vars
  BY <1>1 DEF vars, scheduler, controller, history, Inv, TypeOK, MoreTypes
<1>2. CASE Handler
  BY <1>2, RunStartRoundRobinKeeps, RegisterKeeps, UnregisterKeeps, incoming_acl_creditsKeeps
     DEF Handler
<1>3. CASE handle_enqueue_next_fragment
  BY <1>3, handle_enqueue_next_fragmentKeeps
<1>4. CASE on_outbound_acl_ready
  BY <1>4, on_outbound_acl_readyKeeps
<1>5. ASSUME NEW h \in Handles, buffer_packet(h) PROVE Inv'
  BY <1>5, buffer_packetKeeps
<1>6. ASSUME NEW h \in Handles, NEW b \in BOOLEAN, SetLinkPriority(h, b) PROVE Inv'
  BY <1>6, SetLinkPriorityKeeps
<1>7. ASSUME NEW h \in Handles, NEW size \in Sizes, Produce(h, size) PROVE Inv'
  BY <1>7, ProduceKeeps
<1>8. ASSUME NEW h \in Handles, NEW count \in 1 .. buffered[h], ControllerCompletes(h, count)
      PROVE  Inv'
  BY <1>8, ControllerCompletesKeeps
<1>9. ASSUME NEW h \in Handles, NEW type \in ConnectionType, Connect(h, type) PROVE Inv'
  BY <1>9, ConnectKeeps
<1>10. ASSUME NEW h \in Handles, Disconnect(h) PROVE Inv'
  BY <1>10, DisconnectKeeps
<1> QED
  BY <1>1, <1>2, <1>3, <1>4, <1>5, <1>6, <1>7, <1>8, <1>9, <1>10 DEF Next

\* The invariant holds in every reachable state of the scheduler.
THEOREM Invariant == Spec => []Inv
<1>1. Init => Inv
  BY InitInv
<1>2. Inv /\ [Next]_vars => Inv'
  BY NextKeeps
<1> QED
  BY <1>1, <1>2, PTL DEF Spec

-----------------------------------------------------------------------------
(* What follows *)

\* What is counted as pending is what the invariant says.
LEMMA PendingIs ==
  ASSUME NEW handlers \in Handlers, fragments_to_send_ \in Fragments,
         OnePacket(handlers, fragments_to_send_), NEW type
  PROVE  Pending(type) = PendingOf(fragments_to_send_, type)
<1> DEFINE F == fragments_to_send_
           P(p) == {n \in DOMAIN F[p] : F[p][n].connection_type_ = type}
<1>1. Pending(type) = Cardinality(P(0)) + Cardinality(P(1))
  BY DEF Pending
<1>2. \A p \in Priorities : F[p] \in Seq(Fragment)
  BY DEF Fragments
<1>3. ASSUME NEW p \in Priorities, F[p] = <<>> PROVE Cardinality(P(p)) = 0
  <2>1. P(p) = {}
    BY <1>3
  <2> HIDE DEF P
  <2> QED
    BY <2>1, FS_EmptySet
<1>4. CASE IsEmpty(F)
  <2>1. Cardinality(P(0)) = 0 /\ Cardinality(P(1)) = 0
    BY <1>3, <1>4 DEF IsEmpty, Priorities
  <2> HIDE DEF P
  <2> QED
    BY <1>1, <1>4, <2>1, NothingWaits
<1>5. CASE ~IsEmpty(F)
  <2>1. PICK h \in Registered(handlers), p \in Priorities :
          PacketAt(F, p, h, handlers[h].connection_type_)
    BY <1>5 DEF OnePacket
  <2> DEFINE other == handlers[h].connection_type_
  <2>2. /\ Front(F).connection_type_ = other
        /\ Size(F) = Len(F[p]) /\ Len(F[p]) \in Nat \ {0}
    BY <2>1, PacketFront
  <2>3. PendingOf(F, type) = IF other = type THEN Len(F[p]) ELSE 0
    BY <1>5, <2>2 DEF PendingOf
  <2>4. DOMAIN F[p] = 1 .. Len(F[p])
    BY <1>2, LenProperties
  <2>5. \A n \in 1 .. Len(F[p]) : F[p][n].connection_type_ = other
    BY <2>1 DEF PacketAt, Pieces
  <2>6. P(p) = IF other = type THEN 1 .. Len(F[p]) ELSE {}
    BY <2>4, <2>5
  <2> DEFINE l == Len(F[p])
             S == P(p)
  <2>7. l \in Nat /\ S = IF other = type THEN 1 .. l ELSE {}
    BY <2>2, <2>6
  <2> HIDE DEF l, S, other
  <2>8. Cardinality(S) = IF other = type THEN l ELSE 0
    <3>1. Cardinality(1 .. l) = l
      <4>1. Cardinality(1 .. l) = IF 1 > l THEN 0 ELSE l - 1 + 1
        BY <2>7, FS_Interval
      <4> QED
        BY <2>7, <4>1
    <3> QED
      BY <2>7, <3>1, FS_EmptySet
  <2>9. Cardinality(P(p)) = PendingOf(F, type) /\ PendingOf(F, type) \in Nat
    BY <2>3, <2>7, <2>8 DEF S, l
  <2>10. \A q \in Priorities \ {p} : F[q] = <<>>
    BY <2>1 DEF PacketAt
  <2>11. \A q \in Priorities \ {p} : Cardinality(P(q)) = 0
    BY <1>3, <2>10
  <2> HIDE DEF P, F
  <2>12. Pending(type) = PendingOf(F, type)
    <3>1. CASE p = 0
      <4>1. Cardinality(P(1)) = 0
        BY <2>11, <3>1 DEF Priorities
      <4> QED
        BY <1>1, <2>9, <3>1, <4>1
    <3>2. CASE p = 1
      <4>1. Cardinality(P(0)) = 0
        BY <2>11, <3>2 DEF Priorities
      <4> QED
        BY <1>1, <2>9, <3>2, <4>1
    <3> QED
      BY <3>1, <3>2 DEF Priorities
  <2> QED
    BY <2>12 DEF F
<1> QED
  BY <1>4, <1>5

\* Credits are conserved.
LEMMA ConservationFollows ==
  ASSUME Inv
  PROVE  CreditConservation
<1> SUFFICES ASSUME NEW type \in ConnectionType
             PROVE  packet_credits_[type]
                      + Sum([h \in Handles |-> acl_queue_handlers_[h].number_of_sent_packets_],
                            OfType(type))
                    = MaxCredits[type] + Pending(type)
  BY DEF CreditConservation
<1>1. /\ acl_queue_handlers_ \in Handlers /\ fragments_to_send_ \in Fragments
      /\ OnePacket(acl_queue_handlers_, fragments_to_send_)
      /\ Conserved(acl_queue_handlers_, fragments_to_send_, packet_credits_)
  BY InvFacts DEF Fit
<1>2. Pending(type) = PendingOf(fragments_to_send_, type)
  BY <1>1, PendingIs
<1>3. OfType(type) = {h \in Handles : Types(acl_queue_handlers_)[h] = type}
  BY DEF OfType, Types
<1> QED
  BY <1>1, <1>2, <1>3 DEF Conserved, Counts

\* What waits and what the controller has of a connection has been counted.
LEMMA Counted ==
  ASSUME Inv, NEW h \in Registered(acl_queue_handlers_)
  PROVE  Waiting(fragments_to_send_, h) + buffered[h]
           <= acl_queue_handlers_[h].number_of_sent_packets_
<1>1. /\ acl_queue_handlers_ \in Handlers /\ fragments_to_send_ \in Fragments /\ buffered \in Buffers
      /\ Accounted(acl_queue_handlers_, fragments_to_send_, tasks, hci_queue, buffered)
  BY InvFacts DEF Fit
<1>2. Covered(tasks, hci_queue, h, Waiting(fragments_to_send_, h), buffered[h],
              acl_queue_handlers_[h].number_of_sent_packets_)
  BY <1>1 DEF Accounted
<1> DEFINE w == Waiting(fragments_to_send_, h)
           b == buffered[h]
           s == acl_queue_handlers_[h].number_of_sent_packets_
<1>3. w \in Nat /\ b \in Nat /\ s \in Nat /\ Covered(tasks, hci_queue, h, w, b, s)
  BY <1>1, <1>2, SizeFacts, EntryFacts DEF Buffers, Registered
<1> HIDE DEF w, b, s
<1>4. PICK i \in Nat, j \in Nat : w + i + b + j <= s
  BY <1>3 DEF Covered
<1>5. w + b <= s
  BY <1>3, <1>4
<1> QED
  BY <1>5 DEF w, b, s

\* What the controller has is of a connection that the scheduler knows.
LEMMA BufferedKnown ==
  ASSUME Inv, NEW h \in Handles, buffered[h] > 0
  PROVE  /\ h \in Registered(acl_queue_handlers_)
         /\ acl_queue_handlers_[h].connection_type_ = link[h]
<1>1. LifeOf(acl_queue_handlers_, tasks, hci_queue, h, link[h], buffered[h], queue[h])
  BY InvFacts DEF Fit, Lifecycle
<1>2. link[h] # "down" /\ h \in Registered(acl_queue_handlers_)
  BY <1>1 DEF LifeOf, Life, LinkKnown
<1>3. acl_queue_handlers_[h].connection_type_ = link[h]
  BY <1>1, <1>2 DEF LifeOf, Life, LinkKnown, RegisterIsFirst
<1> QED
  BY <1>2, <1>3

\* The controller is never sent more than its buffers hold.
LEMMA NotOverrunFollows ==
  ASSUME Inv
  PROVE  ControllerNotOverrun
<1> SUFFICES ASSUME NEW type \in ConnectionType
             PROVE  Sum(buffered, {h \in Handles : link[h] = type}) <= MaxCredits[type]
  BY DEF ControllerNotOverrun
<1> DEFINE H == acl_queue_handlers_
           F == fragments_to_send_
           C == Counts(H)
           B == {h \in Handles : link[h] = type}
           T == {h \in Handles : Types(H)[h] = type}
<1>1. /\ H \in Handlers /\ F \in Fragments /\ packet_credits_ \in Credits /\ buffered \in Buffers
      /\ OnePacket(H, F) /\ Conserved(H, F, packet_credits_)
  BY InvFacts DEF Fit
<1>2. /\ C \in [Handles -> Nat] /\ buffered \in [Handles -> Nat]
      /\ \A h \in Handles : C[h] = H[h].number_of_sent_packets_ /\ Types(H)[h] = H[h].connection_type_
      /\ T \in SUBSET Handles /\ B \in SUBSET Handles
  BY <1>1, CountsType DEF Buffers
<1>3. packet_credits_[type] + Sum(C, T) = MaxCredits[type] + PendingOf(F, type)
      /\ packet_credits_[type] \in Nat /\ MaxCredits[type] \in Nat
  BY <1>1, CreditsAssumption DEF Conserved, Credits
<1>4. ASSUME NEW h \in B, buffered[h] > 0
      PROVE  h \in T /\ Waiting(F, h) + buffered[h] <= C[h]
  <2>1. h \in Handles /\ link[h] = type
    BY DEF B
  <2>2. h \in Registered(H) /\ H[h].connection_type_ = type
    BY <1>4, <2>1, BufferedKnown
  <2>3. h \in T /\ C[h] = H[h].number_of_sent_packets_
    BY <1>2, <2>1, <2>2 DEF T
  <2> QED
    BY <2>2, <2>3, Counted
<1> HIDE DEF C, B, T
<1>5. CASE PendingOf(F, type) = 0
  <2>1. \A h \in B : buffered[h] > 0 => h \in T /\ buffered[h] <= C[h]
    <3> SUFFICES ASSUME NEW h \in B, buffered[h] > 0 PROVE h \in T /\ buffered[h] <= C[h]
      OBVIOUS
    <3>1. Waiting(F, h) \in Nat /\ buffered[h] \in Nat /\ C[h] \in Nat
      BY <1>1, <1>2, SizeFacts
    <3> QED
      BY <1>4, <3>1
  <2> DEFINE a == Sum(buffered, B)
             s == Sum(C, T)
             c == packet_credits_[type]
             m == MaxCredits[type]
  <2>2. a <= s /\ a \in Nat /\ s \in Nat
    BY <1>2, <2>1, SumMonotone, SumType
  <2>3. c + s = m /\ c \in Nat /\ m \in Nat
    BY <1>3, <1>5
  <2> HIDE DEF a, s, c, m
  <2>4. a <= m
    BY <2>2, <2>3
  <2> QED
    BY <2>4 DEF a, m, B
<1>6. CASE PendingOf(F, type) # 0
  <2>1. ~IsEmpty(F)
    BY <1>6, NothingWaits
  <2>2. PICK k \in Registered(H) :
          /\ Waiting(F, k) = Size(F)
          /\ \A h : h # k => Waiting(F, h) = 0
          /\ PendingOf(F, H[k].connection_type_) = Size(F)
          /\ \A t : t # H[k].connection_type_ => PendingOf(F, t) = 0
    BY <1>1, <2>1, OwnerFacts
  <2>3. H[k].connection_type_ = type /\ PendingOf(F, type) = Size(F) /\ Size(F) \in Nat
    BY <1>1, <1>6, <2>2, SizeFacts
  <2>4. k \in T /\ k \in Handles
    BY <1>2, <2>3 DEF T, Registered
  <2> DEFINE n == Size(F)
             x == C[k]
             g == [C EXCEPT ![k] = x - n]
  <2>5. x \in Nat /\ n \in Nat /\ buffered[k] \in Nat /\ n + buffered[k] <= x
    BY <1>2, <2>2, <2>3, <2>4, Counted
  <2> HIDE DEF n, x
  <2>6. x - n \in Nat /\ buffered[k] <= x - n
    BY <2>5
  <2>7. /\ g \in [Handles -> Nat] /\ g[k] = x - n
        /\ \A h \in Handles \ {k} : g[h] = C[h]
    BY <1>2, <2>4, <2>6
  <2> HIDE DEF g
  <2>8. ASSUME NEW h \in B, buffered[h] > 0 PROVE h \in T /\ buffered[h] <= g[h]
    <3>1. h \in Handles /\ h \in T /\ Waiting(F, h) + buffered[h] <= C[h]
      BY <1>2, <1>4, <2>8
    <3>2. CASE h = k
      BY <2>6, <2>7, <3>1, <3>2
    <3>3. CASE h # k
      <4>1. Waiting(F, h) = 0 /\ g[h] = C[h] /\ buffered[h] \in Nat
        BY <1>2, <2>2, <2>7, <3>1, <3>3
      <4> QED
        BY <3>1, <4>1
    <3> QED
      BY <3>2, <3>3
  <2> DEFINE a == Sum(buffered, B)
             s == Sum(C, T)
             r == Sum(g, T)
             o == Sum(C, T \ {k})
             c == packet_credits_[type]
             m == MaxCredits[type]
  <2>9. a <= r /\ a \in Nat /\ r \in Nat
    BY <1>2, <2>7, <2>8, SumMonotone, SumType
  <2>10. s = o + x /\ o \in Nat
    BY <1>2, <2>4, SumSplit DEF x
  <2>11. r = o + (x - n)
    <3>1. r = Sum(g, T \ {k}) + (x - n)
      BY <1>2, <2>4, <2>7, SumSplit
    <3>2. Sum(g, T \ {k}) = Sum(C, T \ {k})
      <4>1. \A h \in T \ {k} : g[h] = C[h]
        BY <1>2, <2>7
      <4> QED
        BY <4>1, SumSame
    <3> QED
      BY <3>1, <3>2
  <2>12. c + s = m + n /\ c \in Nat /\ m \in Nat
    BY <1>3, <2>3 DEF n
  <2> HIDE DEF a, s, r, o, c, m
  <2>13. a <= m
    BY <2>5, <2>9, <2>10, <2>11, <2>12
  <2> QED
    BY <2>13 DEF a, m, B
<1> QED
  BY <1>5, <1>6 DEF B

\* The fragments of every connection are in order.
LEMMA InOrderFollows ==
  ASSUME Inv
  PROVE  FragmentsInOrder
<1> SUFFICES ASSUME NEW h \in Handles, link[h] # "down",
                    NEW n \in Own(Path, h), NEW m \in 0 .. n - 1, IsPrevious(Path, h, m, n)
             PROVE  Follows(Path[n], At(Path, h, m))
  BY DEF FragmentsInOrder
<1>1. Path = PathOf(hci_queue, fragments_to_send_)
  BY DEF Path, PathOf
<1>2. Stream(Path, h, queue[h], link[h], last[h], produced[h])
  BY <1>1, InvFacts DEF Streams
<1>3. Follows(Path[n], Sent(Path, last[h], m))
  BY <1>2 DEF Stream, Ordered
<1> QED
  BY <1>3 DEF Sent, At

-----------------------------------------------------------------------------
(* Theorems *)

\* The members of RoundRobinScheduler keep their types: in particular no credit and no
\* count of sent packets, which are unsigned in the code, ever wraps below zero.
THEOREM TypeCorrect == Spec => []TypeOK
<1>1. Inv => TypeOK
  BY DEF Inv
<1> QED
  BY <1>1, Invariant, PTL

\* The callbacks on the HCI queue and on the queues of the connections are registered
\* only when they can do their work.
THEOREM CallbacksReadyHolds == Spec => []CallbacksReady
<1>1. Inv => CallbacksReady
  BY DEF Inv, Ready, CallbacksReady, ReadyToSend, DequeueWhenIdle
<1> QED
  BY <1>1, Invariant, PTL

\* No ASSERT of Register, Unregister or handle_enqueue_next_fragment fails.
THEOREM AssertionsHold == Spec => [](fate = "alive")
<1>1. Inv => fate = "alive"
  BY DEF Inv
<1> QED
  BY <1>1, Invariant, PTL

\* The credits of the host and the buffers of the controller match.
THEOREM CreditsMatchBuffersHolds == Spec => []CreditsMatchBuffers
<1>1. Inv => CreditsMatchBuffers
  BY ConservationFollows, NotOverrunFollows DEF CreditsMatchBuffers
<1> QED
  BY <1>1, Invariant, PTL

\* No fragment is lost, repeated or out of order and no packet interrupted.
THEOREM FragmentsInOrderHolds == Spec => []FragmentsInOrder
<1>1. Inv => FragmentsInOrder
  BY InOrderFollows
<1> QED
  BY <1>1, Invariant, PTL

\* The iterator that start_round_robin dereferences is valid.
THEOREM StartingPointValidHolds == Spec => []StartingPointValid
<1>1. Inv => StartingPointValid
  BY DEF Inv, Points, StartingPointValid
<1> QED
  BY <1>1, Invariant, PTL

=============================================================================
