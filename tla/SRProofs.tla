------------------------------ MODULE SRProofs ------------------------------
(***************************************************************************)
(* IInv of module SR is inductive, for every window size; what it implies. *)
(***************************************************************************)
EXTENDS SR, SimulatorProofs, FiniteSetTheorems, SequenceTheorems, WellFoundedInduction

Wire == Packet \cup {Corrupt}

-----------------------------------------------------------------------------
(* Numbers *)

\* A set of naturals has a least element: the finite intervals below its
\* elements are well-founded under inclusion.
LEMMA LeastNumber ==
    ASSUME NEW S \in SUBSET Nat, S # {}
    PROVE  \E n \in S : \A m \in S : n <= m
<1>1. PICK b \in S : TRUE
  OBVIOUS
<1> DEFINE U == 0 .. b
           T == { 0 .. m : m \in { k \in S : k <= b } }
           R == StrictSubsetOrdering(U)
<1>2. IsWellFoundedOn(R, FiniteSubsetsOf(U))
  BY FS_StrictSubsetOrderingWellFounded
<1>3. T # {}
  <2>1. b \in { k \in S : k <= b }
    BY <1>1
  <2> QED
    BY <2>1
<1>4. T \subseteq FiniteSubsetsOf(U)
  <2>1. \A m \in { k \in S : k <= b } : 0 .. m \in SUBSET U /\ IsFiniteSet(0 .. m)
    BY <1>1, FS_Interval
  <2> QED
    BY <2>1 DEF FiniteSubsetsOf
<1> HIDE DEF T, R
<1>5. PICK x \in T : \A y \in T : ~ (<<y, x>> \in R)
  BY <1>2, <1>3, <1>4, WFMin
<1> USE DEF T, R
<1>6. PICK n \in S : n <= b /\ x = 0 .. n
  BY <1>5
<1>7. ASSUME NEW m \in S, m < n PROVE FALSE
  <2>1. 0 .. m \in T
    BY <1>6, <1>7
  <2>2. <<0 .. m, x>> \in R
    BY <1>6, <1>7 DEF StrictSubsetOrdering
  <2> QED
    BY <1>5, <2>1, <2>2
<1> QED
  BY <1>7

\* Induction, over a set instead of a predicate.
LEMMA Induction ==
    ASSUME NEW S \in SUBSET Nat, 0 \in S, \A n \in S : n + 1 \in S
    PROVE  S = Nat
<1>1. SUFFICES ASSUME Nat \ S # {} PROVE FALSE
  OBVIOUS
<1>2. PICK n \in Nat \ S : \A m \in Nat \ S : n <= m
  BY <1>1, LeastNumber
<1>3. n # 0 /\ n - 1 \in S
  BY <1>2
<1> QED
  BY <1>2, <1>3

\* Where while(buffer[first].received) and while(B_buffer[B_head].received)
\* stop when some number within reach is not set.
LEMMA FirstUnsetFacts ==
    ASSUME NEW flags, NEW first \in Nat, NEW n \in Nat,
           first <= n, n <= first + MaxMsgs, n \notin flags
    PROVE  /\ FirstUnset(flags, first) \in first .. n
           /\ FirstUnset(flags, first) \notin flags
           /\ first .. FirstUnset(flags, first) - 1 \subseteq flags
<1> DEFINE Stop(i) == i \notin flags /\ \A j \in first .. i - 1 : j \in flags
           S == { k \in first .. n : k \notin flags }
<1>1. PICK m \in S : \A k \in S : m <= k
  <2>1. S \in SUBSET Nat /\ S # {}
    OBVIOUS
  <2> HIDE DEF S
  <2> QED
    BY <2>1, LeastNumber
<1>2. m \in first .. n /\ m \in first .. first + MaxMsgs /\ Stop(m)
  BY <1>1, SimulatorAssumption
<1> DEFINE u == CHOOSE i \in first .. first + MaxMsgs : Stop(i)
<1>3. u \in first .. first + MaxMsgs /\ Stop(u)
  BY <1>2
<1>4. FirstUnset(flags, first) = u
  BY DEF FirstUnset
<1> HIDE DEF u
<1>5. u <= n
  BY <1>3, SimulatorAssumption
<1> QED
  BY <1>3, <1>4, <1>5, SimulatorAssumption

\* The while loop of A_input (sr.c:114-134) sends one packet in each of its
\* turns until none is left: the window has room for it, since each turn
\* moves it by one.
LEMMA NextAfterIs ==
    ASSUME A_nextseqnum \in Nat, A_w_last \in Int, A_rear \in Int,
           A_nextseqnum <= A_w_last + 1, A_nextseqnum <= A_rear + 1,
           NEW turns \in Nat
    PROVE  NextAfter(turns) =
               IF A_nextseqnum + turns <= A_rear + 1 THEN A_nextseqnum + turns ELSE A_rear + 1
<1> DEFINE Turn(f, i) == IF i = 0 THEN A_nextseqnum
                         ELSE IF f[i - 1] <= A_w_last + i /\ f[i - 1] <= A_rear
                              THEN f[i - 1] + 1
                              ELSE f[i - 1]
           G(i) == IF A_nextseqnum + i <= A_rear + 1 THEN A_nextseqnum + i ELSE A_rear + 1
           g == [i \in 0 .. turns |-> G(i)]
           next == CHOOSE f : f = [i \in 0 .. turns |-> Turn(f, i)]
<1>1. g = [i \in 0 .. turns |-> Turn(g, i)]
  <2>1. \A i \in 0 .. turns : G(i) = Turn(g, i)
    OBVIOUS
  <2> QED
    BY <2>1
<1>2. next = [i \in 0 .. turns |-> Turn(next, i)]
  <2> HIDE DEF g
  <2>1. \E f : f = [i \in 0 .. turns |-> Turn(f, i)]
    BY <1>1
  <2> QED
    BY <2>1
<1> DEFINE S == { i \in Nat : i <= turns => next[i] = G(i) }
<1>3. S = Nat
  <2> HIDE DEF next
  <2>1. 0 \in S
    BY <1>2
  <2>2. ASSUME NEW i \in S PROVE i + 1 \in S
    <3>1. SUFFICES ASSUME i + 1 <= turns PROVE next[i + 1] = G(i + 1)
      OBVIOUS
    <3>2. i \in 0 .. turns /\ i + 1 \in 0 .. turns /\ i + 1 # 0 /\ (i + 1) - 1 = i
      BY <3>1
    <3>3. next[i] = G(i)
      BY <2>2, <3>2
    <3>4. next[i + 1] = Turn(next, i + 1)
      BY ONLY <1>2, <3>2
    <3> QED
      BY <3>2, <3>3, <3>4
  <2>3. S \in SUBSET Nat
    OBVIOUS
  <2> HIDE DEF S
  <2> QED
    BY <2>1, <2>2, <2>3, Induction
<1>4. next[turns] = G(turns)
  <2>1. turns \in S
    BY <1>3
  <2> QED
    BY <2>1
<1>5. NextAfter(turns) = next[turns]
  BY DEF NextAfter
<1> HIDE DEF next
<1> QED
  BY <1>4, <1>5

-----------------------------------------------------------------------------
(* The list and the medium *)

\* Writing A_buffer[A_rear + 1] adds one packet and keeps the others.
LEMMA StoreExtends ==
    ASSUME NEW r \in Nat \cup {-1},
           NEW q \in [0 .. r -> Packet],
           NEW l \in Packet
    PROVE  /\ Store(q, r + 1, l) \in [0 .. r + 1 -> Packet]
           /\ Store(q, r + 1, l)[r + 1] = l
           /\ \A i \in 0 .. r : Store(q, r + 1, l)[i] = q[i]
<1>1. DOMAIN q \cup {r + 1} = 0 .. r + 1
  OBVIOUS
<1> QED
  BY <1>1 DEF Store

\* The list has a node for packet n.
Holds(queue, n) == \E i \in DOMAIN queue : queue[i] = n

\* A sequence over a set is one over a larger set.
LEMMA SubsetSeq ==
    ASSUME NEW S, NEW T, S \subseteq T, NEW q \in Seq(S)
    PROVE  q \in Seq(T)
<1>1. q \in [1 .. Len(q) -> T] /\ Len(q) \in Nat
  OBVIOUS
<1> QED
  BY <1>1

\* enQueue puts one node behind the others.
LEMMA AppendHolds ==
    ASSUME NEW S, NEW q \in Seq(S), NEW e \in S
    PROVE  /\ Append(q, e) \in Seq(S)
           /\ Append(q, e) # <<>>
           /\ \A m \in S : Holds(q, m) \/ m = e => Holds(Append(q, e), m)
<1>1. /\ Len(q) \in Nat /\ DOMAIN q = 1 .. Len(q) /\ Append(q, e) \in Seq(S)
      /\ DOMAIN Append(q, e) = 1 .. Len(q) + 1 /\ Len(Append(q, e)) = Len(q) + 1
      /\ Append(q, e)[Len(q) + 1] = e /\ \A i \in 1 .. Len(q) : Append(q, e)[i] = q[i]
  OBVIOUS
<1>2. Append(q, e) # <<>>
  <2>1. Len(<<>>) = 0 /\ Len(q) + 1 # 0
    BY <1>1
  <2> QED
    BY <1>1, <2>1, Zenon
<1>3. ASSUME NEW m \in S, Holds(q, m) \/ m = e PROVE Holds(Append(q, e), m)
  BY <1>1, <1>3 DEF Holds
<1> QED
  BY <1>1, <1>2, <1>3

\* deQueue_acknum (sr.c) takes out one node, and no other packet's; deQueue,
\* when the node is the first, empties a list of one.
LEMMA WithoutFirstFacts ==
    ASSUME NEW S, NEW q \in Seq(S), q # <<>>, NEW n \in S
    PROVE  /\ WithoutFirst(q, n) \in Seq(S)
           /\ \A m \in S : m # n /\ Holds(q, m) => Holds(WithoutFirst(q, n), m)
           /\ Head(q) = n => (WithoutFirst(q, n) # <<>> <=> Len(q) > 1)
           /\ Head(q) # n => WithoutFirst(q, n) # <<>>
<1>1. Len(q) \in Nat /\ DOMAIN q = 1 .. Len(q) /\ 1 \in DOMAIN q /\ Head(q) = q[1] /\ Len(q) >= 1
  OBVIOUS
<1>2. CASE ~Holds(q, n)
  <2>1. WithoutFirst(q, n) = q
    BY <1>2 DEF WithoutFirst, Holds
  <2>2. Head(q) # n
    BY <1>1, <1>2 DEF Holds
  <2> QED
    BY <2>1, <2>2
<1>3. CASE Holds(q, n)
  <2> DEFINE At(i) == q[i] = n /\ \A j \in 1 .. i - 1 : q[j] # n
             k == CHOOSE i \in DOMAIN q : At(i)
             P == { i \in DOMAIN q : q[i] = n }
  <2>1. k \in DOMAIN q /\ At(k)
    <3>1. PICK i \in P : \A j \in P : i <= j
      <4>1. P \in SUBSET Nat /\ P # {}
        BY <1>1, <1>3 DEF Holds
      <4> HIDE DEF P
      <4> QED
        BY <4>1, LeastNumber
    <3>2. i \in DOMAIN q /\ At(i)
      BY <1>1, <3>1
    <3> QED
      BY <3>2
  <2> DEFINE a == SubSeq(q, 1, k - 1)
             b == SubSeq(q, k + 1, Len(q))
  <2>2. WithoutFirst(q, n) = a \o b
    BY <1>3 DEF WithoutFirst, Holds
  <2> HIDE DEF k
  <2>3. k \in 1 .. Len(q) /\ q[k] = n
    BY <1>1, <2>1
  <2>4. a \in Seq(S) /\ Len(a) = k - 1 /\ \A i \in 1 .. k - 1 : a[i] = q[i]
    BY <1>1, <2>3
  <2>5. b \in Seq(S) /\ Len(b) = Len(q) - k /\ \A i \in 1 .. Len(q) - k : b[i] = q[k + i]
    <3>1. k + 1 \in Int /\ Len(q) \in Int /\ \A i \in k + 1 .. Len(q) : q[i] \in S
      BY <1>1, <2>3
    <3> HIDE DEF At, P
    <3> DEFINE from == k + 1
               to == Len(q)
    <3> HIDE DEF from, to
    <3>2. from \in Int /\ to \in Int /\ \A i \in from .. to : q[i] \in S
      BY <3>1 DEF from, to
    <3>3. /\ SubSeq(q, from, to) \in Seq(S)
          /\ Len(SubSeq(q, from, to)) = IF from <= to THEN to - from + 1 ELSE 0
          /\ \A i \in 1 .. to - from + 1 : SubSeq(q, from, to)[i] = q[from + i - 1]
      BY <3>2, SubSeqProperties
    <3>4. b = SubSeq(q, from, to)
      BY Zenon DEF from, to
    <3> HIDE DEF a, b
    <3>5. /\ b \in Seq(S)
          /\ Len(b) = IF from <= to THEN to - from + 1 ELSE 0
          /\ \A i \in 1 .. to - from + 1 : b[i] = q[from + i - 1]
      BY <3>3, <3>4
    <3>6. /\ (IF from <= to THEN to - from + 1 ELSE 0) = Len(q) - k
          /\ to - from + 1 = Len(q) - k
          /\ \A i \in 1 .. Len(q) - k : from + i - 1 = k + i
      <4>1. k \in Int /\ Len(q) \in Int /\ k <= Len(q)
        BY <1>1, <2>3
      <4> HIDE DEF b
      <4> QED
        BY <4>1 DEF from, to
    <3>7. \A i \in 1 .. Len(q) - k : b[i] = q[k + i]
      <4>1. 1 .. to - from + 1 = 1 .. Len(q) - k
        BY <3>6
      <4> QED
        BY <3>5, <3>6, <4>1, Zenon
    <3> QED
      BY <3>5, <3>6, <3>7, Zenon
  <2> HIDE DEF a, b, At, P
  <2>6. /\ a \o b \in Seq(S) /\ Len(a \o b) = Len(q) - 1 /\ DOMAIN (a \o b) = 1 .. Len(q) - 1
        /\ \A i \in 1 .. k - 1 : (a \o b)[i] = a[i]
        /\ \A i \in k .. Len(q) - 1 : (a \o b)[i] = b[i - (k - 1)]
    <3>1. /\ a \o b \in Seq(S) /\ Len(a \o b) = Len(a) + Len(b)
          /\ \A i \in 1 .. Len(a) + Len(b) :
                (a \o b)[i] = IF i <= Len(a) THEN a[i] ELSE b[i - Len(a)]
      BY <2>4, <2>5, ConcatProperties
    <3>2. k \in Int /\ Len(q) \in Int /\ 1 <= k /\ k <= Len(q)
      BY <1>1, <2>3
    <3>3. Len(a) = k - 1 /\ Len(b) = Len(q) - k /\ Len(a) + Len(b) = Len(q) - 1
      BY <2>4, <2>5, <3>2
    <3>4. DOMAIN (a \o b) = 1 .. Len(q) - 1
      BY <3>1, <3>3, LenProperties
    <3> QED
      BY SMTT(30), <3>1, <3>2, <3>3, <3>4
  <2>7. ASSUME NEW m \in S, m # n, Holds(q, m) PROVE Holds(a \o b, m)
    <3>1. PICK i \in 1 .. Len(q) : q[i] = m
      BY <1>1, <2>7 DEF Holds
    <3>2. CASE i < k
      <4>1. i \in 1 .. k - 1 /\ i \in 1 .. Len(q) - 1
        BY <1>1, <2>3, <3>2
      <4> QED
        BY <2>4, <2>6, <3>1, <4>1 DEF Holds
    <3>3. CASE i > k
      <4>1. /\ i - 1 \in k .. Len(q) - 1 /\ i - 1 \in 1 .. Len(q) - 1
            /\ (i - 1) - (k - 1) \in 1 .. Len(q) - k /\ k + ((i - 1) - (k - 1)) = i
        BY <1>1, <2>3, <3>3
      <4>2. (a \o b)[i - 1] = q[i]
        BY <2>5, <2>6, <4>1
      <4> QED
        BY <2>6, <3>1, <4>1, <4>2 DEF Holds
    <3> QED
      BY <1>1, <2>3, <2>7, <3>1, <3>2, <3>3
  <2>8. (a \o b) # <<>> <=> Len(q) > 1
    <3>1. \A s \in Seq(S) : s # <<>> <=> Len(s) > 0
      OBVIOUS
    <3> DEFINE c == a \o b
    <3>2. c \in Seq(S) /\ Len(c) = Len(q) - 1
      BY <2>6
    <3> HIDE DEF c
    <3>3. c # <<>> <=> Len(q) > 1
      BY <1>1, <3>1, <3>2
    <3> QED
      BY <3>3 DEF c
  <2>9. Head(q) # n => Len(q) > 1
    BY <1>1, <2>3
  <2> QED
    BY <2>2, <2>6, <2>7, <2>8, <2>9
<1> QED
  BY <1>2, <1>3

\* enQueue of the packets a slide sends keeps every node and adds theirs, and
\* leaves the list empty only if it was empty and nothing is sent.
LEMMA EnlistFacts ==
    ASSUME NEW S, NEW q \in Seq(S), NEW sent \in Seq(S)
    PROVE  /\ Enlist(q, sent) \in Seq(S)
           /\ \A m \in S : Holds(q, m) \/ Holds(sent, m) => Holds(Enlist(q, sent), m)
           /\ Enlist(q, sent) # <<>> <=> (q # <<>> \/ sent # <<>>)
<1>1. ASSUME NEW a \in Seq(S), NEW b \in Seq(S)
      PROVE  /\ a \o b \in Seq(S)
             /\ \A m \in S : Holds(a, m) \/ Holds(b, m) => Holds(a \o b, m)
             /\ a \o b # <<>> <=> (a # <<>> \/ b # <<>>)
  <2>1. /\ Len(a) \in Nat /\ Len(b) \in Nat
        /\ DOMAIN a = 1 .. Len(a) /\ DOMAIN b = 1 .. Len(b)
        /\ a \o b \in Seq(S) /\ DOMAIN (a \o b) = 1 .. Len(a) + Len(b)
        /\ \A i \in 1 .. Len(a) : (a \o b)[i] = a[i]
        /\ \A i \in 1 .. Len(b) : (a \o b)[Len(a) + i] = b[i]
    OBVIOUS
  <2>2. ASSUME NEW m \in S, Holds(a, m) PROVE Holds(a \o b, m)
    BY <2>1, <2>2 DEF Holds
  <2>3. ASSUME NEW m \in S, Holds(b, m) PROVE Holds(a \o b, m)
    <3>1. PICK i \in 1 .. Len(b) : b[i] = m
      BY <2>1, <2>3 DEF Holds
    <3>2. Len(a) + i \in 1 .. Len(a) + Len(b)
      BY <2>1
    <3> QED
      BY <2>1, <3>1, <3>2 DEF Holds
  <2>4. a \o b # <<>> <=> (a # <<>> \/ b # <<>>)
    OBVIOUS
  <2> QED
    BY <2>1, <2>2, <2>3, <2>4
<1>2. CASE q = <<>> /\ sent # <<>>
  <2>1. <<Head(sent)>> \in Seq(S)
    BY <1>2
  <2>2. Enlist(q, sent) = <<Head(sent)>> \o sent
    BY <1>2 DEF Enlist
  <2>3. \A m \in S : ~Holds(q, m)
    BY <1>2 DEF Holds
  <2> DEFINE first == <<Head(sent)>>
  <2>4. first # <<>>
    OBVIOUS
  <2> HIDE DEF first
  <2>5. /\ first \o sent \in Seq(S)
        /\ \A m \in S : Holds(sent, m) => Holds(first \o sent, m)
        /\ first \o sent # <<>>
    BY <1>1, <2>1, <2>4 DEF first
  <2>6. Enlist(q, sent) = first \o sent
    BY <2>2 DEF first
  <2> QED
    BY <1>2, <2>3, <2>5, <2>6
<1>3. CASE ~(q = <<>> /\ sent # <<>>)
  <2>1. Enlist(q, sent) = q \o sent
    BY <1>3 DEF Enlist
  <2> QED
    BY <1>1, <2>1
<1> QED
  BY <1>2, <1>3

\* Every packet in the medium was taken from the buffer, below next.
FromBuffer(medium, buffer, next) ==
    \A i \in DOMAIN medium : medium[i] # Corrupt =>
        /\ medium[i].seqnum \in 0 .. next - 1
        /\ medium[i] = buffer[medium[i].seqnum]

\* Sending packets of the buffer keeps it so.
LEMMA SendFromBuffer ==
    ASSUME NEW medium \in Seq(Wire), NEW buffer, NEW next \in Nat,
           FromBuffer(medium, buffer, next),
           \A n \in 0 .. next - 1 : buffer[n] \in Packet /\ buffer[n].seqnum = n,
           NEW pkts \in Seq(Wire),
           \A j \in DOMAIN pkts : \E n \in 0 .. next - 1 : pkts[j] = buffer[n],
           NEW after \in tolayer3(medium, pkts)
    PROVE  after \in Seq(Wire) /\ FromBuffer(after, buffer, next)
<1>1. after \in Seq(Wire) /\ Extends(after, medium, pkts)
  <2>1. Corrupt \in Wire
    BY DEF Wire
  <2> QED
    BY <2>1, TransmitMany
<1>2. SUFFICES ASSUME NEW i \in DOMAIN after, after[i] # Corrupt
               PROVE  /\ after[i].seqnum \in 0 .. next - 1
                      /\ after[i] = buffer[after[i].seqnum]
  BY <1>1 DEF FromBuffer
<1>3. CASE i > Len(medium)
  BY <1>1, <1>2, <1>3 DEF Extends
<1>4. CASE ~(i > Len(medium))
  <2>1. i \in DOMAIN medium
    BY <1>1, <1>4
  <2> QED
    BY <1>1, <1>2, <2>1 DEF Extends, FromBuffer
<1> QED
  BY <1>3, <1>4

\* tolayer5 of several payloads that are all due: all are accepted.
LEMMA AcceptMany ==
    ASSUME NEW k \in Nat, NEW data, data \in [1 .. k -> Letters],
           cur_msg_recv \in Nat, nsim \in Nat, cur_msg_recv + k <= nsim,
           \A i \in 1 .. k : data[i] = Letter(cur_msg_recv + i - 1),
           tolayer5(data)
    PROVE  cur_msg_recv' = cur_msg_recv + k /\ exitcode' = exitcode
<1>1. DOMAIN data = 1 .. k /\ data \in Seq(Letters) /\ Len(data) = k
  OBVIOUS
<1>2. { i \in DOMAIN data : Refuses(cur_msg_recv + i - 1, data[i]) } = {}
  BY <1>1 DEF Refuses
<1> QED
  BY <1>1, <1>2 DEF tolayer5

-----------------------------------------------------------------------------
(* The invariant *)

\* The initial state satisfies the invariant.
LEMMA IInvInit == Init => IInv
<1> SUFFICES ASSUME Init PROVE IInv
  OBVIOUS
<1>1. /\ A_buffer \in [0 .. -1 -> Packet] /\ A_buffer = EmptyBuffer
      /\ B_buffer = EmptyBuffer /\ DOMAIN B_buffer = {} /\ 0 .. -1 = {}
  <2>1. 0 .. -1 = {}
    OBVIOUS
  <2>2. A_buffer \in [{} -> Packet] /\ DOMAIN B_buffer = {}
    BY Zenon DEF Init, EmptyBuffer
  <2> QED
    BY <2>1, <2>2 DEF Init
<1>2. /\ nsim = 0 /\ cur_msg_recv = 0 /\ exitcode = 0 /\ toA = <<>> /\ toB = <<>> /\ timer = FALSE
      /\ A_received = {} /\ A_head = 0 /\ A_nextseqnum = 0 /\ A_rear = -1
      /\ A_w_last = window_size - 1 /\ Aq = <<>> /\ B_head = 0 /\ B_w_last = window_size - 1
      /\ window_size \in Nat /\ window_size >= 1
  BY WindowAssumption DEF Init, SimInit
<1>3. \A S : <<>> \in Seq(S)
  OBVIOUS
<1>4. TypeOK
  <2>1. SimTypeOK
    <3>1. timer \in BOOLEAN
      BY <1>2, Zenon
    <3> QED
      BY <1>2, <3>1, SimulatorAssumption DEF SimTypeOK
  <2>2. A_buffer \in [0 .. A_rear -> Packet] /\ A_received \subseteq 0 .. A_rear
    BY <1>1, <1>2
  <2>3. DOMAIN B_buffer \subseteq 0 .. A_rear /\ \A n \in DOMAIN B_buffer : B_buffer[n] \in Packet
    BY <1>1
  <2>4. toA \in Seq(Packet \cup {Corrupt}) /\ toB \in Seq(Packet \cup {Corrupt}) /\ Aq \in Seq(0 .. A_rear)
    BY <1>2, <1>3
  <2>5. /\ A_head \in Nat /\ A_nextseqnum \in Nat /\ A_rear \in Nat \cup {-1}
        /\ A_w_last \in Int /\ B_head \in Nat /\ B_w_last \in Int
    BY <1>2
  <2> QED
    BY <2>1, <2>2, <2>3, <2>4, <2>5 DEF TypeOK
<1>5. SenderInv
  BY <1>1, <1>2, <1>3 DEF SenderInv
<1>6. ReceiverInv /\ ReceivedIsStored
  BY <1>1, <1>2 DEF ReceiverInv, ReceivedIsStored
<1>7. DataInv /\ AckInv /\ RetransmissionCovers /\ TimerCoversList
  BY <1>2 DEF DataInv, AckInv, RetransmissionCovers, TimerCoversList
<1> QED
  BY <1>4, <1>5, <1>6, <1>7 DEF IInv

\* The parts of the invariant in the form the remaining proofs use.  No
\* window is ahead of the packets sent, and A's never ahead of B's.
LEMMA IInvFacts ==
    ASSUME IInv
    PROVE  /\ A_rear \in Nat \cup {-1} /\ A_head \in Nat /\ A_nextseqnum \in Nat
           /\ nsim \in Nat /\ nsim <= MaxMsgs /\ nsim = A_rear + 1
           /\ cur_msg_recv \in Nat /\ B_head \in Nat /\ B_w_last \in Int /\ A_w_last \in Int
           /\ window_size \in Nat /\ window_size >= 1
           /\ A_buffer \in [0 .. A_rear -> Packet]
           /\ toA \in Seq(Wire) /\ toB \in Seq(Wire)
           /\ Corrupt \in Wire /\ Corrupt \notin Packet
           /\ Aq \in Seq(0 .. A_nextseqnum - 1)
           /\ A_nextseqnum <= A_rear + 1 /\ A_nextseqnum <= A_w_last + 1
           /\ A_nextseqnum = A_rear + 1 \/ A_nextseqnum = A_w_last + 1
           /\ A_head <= A_nextseqnum /\ B_head <= A_nextseqnum /\ A_head <= B_head
           /\ \A n \in 0 .. A_nextseqnum - 1 :
                 /\ n \in 0 .. A_rear /\ n \in SeqNum
                 /\ A_buffer[n] \in Packet /\ A_buffer[n].seqnum = n
                 /\ A_buffer[n].payload = Letter(n)
           /\ TypeOK /\ SimTypeOK /\ SenderInv /\ ReceiverInv /\ ReceivedIsStored
           /\ FromBuffer(toB, A_buffer, A_nextseqnum) /\ AckInv
<1>1. TypeOK /\ SimTypeOK /\ SenderInv /\ ReceiverInv /\ ReceivedIsStored /\ AckInv
  BY DEF IInv, TypeOK
<1>2. FromBuffer(toB, A_buffer, A_nextseqnum)
  BY DEF IInv, DataInv, FromBuffer
<1>3. /\ A_rear \in Nat \cup {-1} /\ A_head \in Nat /\ A_nextseqnum \in Nat
      /\ nsim \in Nat /\ nsim <= MaxMsgs /\ nsim = A_rear + 1
      /\ cur_msg_recv \in Nat /\ B_head \in Nat /\ B_w_last \in Int /\ A_w_last \in Int
      /\ window_size \in Nat /\ window_size >= 1
      /\ A_buffer \in [0 .. A_rear -> Packet]
      /\ toA \in Seq(Wire) /\ toB \in Seq(Wire)
      /\ Corrupt \in Wire /\ Corrupt \notin Packet
      /\ Aq \in Seq(0 .. A_nextseqnum - 1)
  <2>1. nsim = A_rear + 1 /\ Aq \in Seq(0 .. A_nextseqnum - 1)
    BY <1>1 DEF SenderInv
  <2> QED
    BY <1>1, <2>1, CorruptAssumption, SimulatorAssumption, WindowAssumption
       DEF TypeOK, SimTypeOK, Wire
<1>4. /\ A_nextseqnum <= A_rear + 1 /\ A_nextseqnum <= A_w_last + 1
      /\ A_nextseqnum = A_rear + 1 \/ A_nextseqnum = A_w_last + 1
  BY <1>1, <1>3 DEF SenderInv
<1>5. A_head <= A_nextseqnum
  <2>1. 0 .. A_head - 1 \subseteq 0 .. A_nextseqnum - 1
    BY <1>1 DEF SenderInv
  <2> QED
    BY <1>3, <2>1
<1>6. B_head <= A_nextseqnum
  <2>1. 0 .. B_head - 1 \subseteq 0 .. A_nextseqnum - 1
    BY <1>1 DEF ReceiverInv
  <2> QED
    BY <1>3, <2>1
<1>7. A_head <= B_head
  <2>1. 0 .. A_head - 1 \subseteq DOMAIN B_buffer /\ B_head \notin DOMAIN B_buffer
    BY <1>1 DEF SenderInv, ReceiverInv, ReceivedIsStored
  <2>2. B_head \notin 0 .. A_head - 1
    BY <2>1
  <2> QED
    BY <1>3, <2>2
<1>8. ASSUME NEW n \in 0 .. A_nextseqnum - 1
      PROVE  /\ n \in 0 .. A_rear /\ n \in SeqNum
             /\ A_buffer[n] \in Packet /\ A_buffer[n].seqnum = n
             /\ A_buffer[n].payload = Letter(n)
  <2>1. n \in 0 .. A_rear /\ n \in SeqNum
    BY <1>3, <1>4, SimulatorAssumption DEF SeqNum
  <2>2. A_buffer[n] = a_Make_Packet(Letter(n), n)
    BY <1>1, <2>1 DEF SenderInv
  <2>3. A_buffer[n] \in Packet
    BY <1>3, <2>1
  <2> QED
    BY <2>1, <2>2, <2>3 DEF a_Make_Packet
<1> QED
  BY <1>1, <1>2, <1>3, <1>4, <1>5, <1>6, <1>7, <1>8

\* Every packet in the window that is not acknowledged has its node; an empty
\* list means that nothing is outstanding.
LEMMA ListFacts ==
    ASSUME IInv
    PROVE  /\ \A m \in A_head .. A_nextseqnum - 1 : m \notin A_received => Holds(Aq, m)
           /\ Aq = <<>> => A_head = A_nextseqnum
<1>1. \A m \in A_head .. A_nextseqnum - 1 : m \notin A_received => Holds(Aq, m)
  BY DEF IInv, RetransmissionCovers, Holds
<1>2. ASSUME Aq = <<>>, A_head # A_nextseqnum PROVE FALSE
  <2>1. A_head \in A_head .. A_nextseqnum - 1
    BY <1>2, IInvFacts
  <2>2. A_head \notin A_received
    BY IInvFacts DEF SenderInv
  <2>3. Holds(Aq, A_head)
    BY <1>1, <2>1, <2>2
  <2> QED
    BY <1>2, <2>3 DEF Holds
<1> QED
  BY <1>1, <1>2

\* A_output (sr.c:56-83) preserves the invariant.
LEMMA IInvOutput == IInv /\ A_output => IInv'
<1> SUFFICES ASSUME IInv, A_output PROVE IInv'
  OBVIOUS
<1> DEFINE new == a_Make_Packet(Letter(nsim), A_rear + 1)
<1>1. /\ exitcode = 0 /\ A_rear' = A_rear + 1 /\ nsim' = nsim + 1 /\ nsim < MaxMsgs
      /\ UNCHANGED <<cur_msg_recv, exitcode, toA, A_head, A_w_last, B_buffer, B_head, B_w_last>>
  BY DEF A_output, Running, bVars
<1>2. /\ A_rear \in Nat \cup {-1} /\ A_nextseqnum \in Nat /\ A_head \in Nat /\ A_w_last \in Int
      /\ A_nextseqnum <= A_rear + 1 /\ A_head <= A_nextseqnum
  BY IInvFacts
<1>3. new \in Packet
  BY <1>1, IInvFacts, LetterType, SimulatorAssumption DEF a_Make_Packet, Packet, SeqNum
<1>4. /\ A_buffer' \in [0 .. A_rear' -> Packet]
      /\ A_buffer'[A_rear + 1] = new
      /\ \A i \in 0 .. A_rear : A_buffer'[i] = A_buffer[i]
  <2>1. A_buffer' = Store(A_buffer, A_rear + 1, new)
    BY <1>1 DEF A_output
  <2>2. A_rear \in Nat \cup {-1} /\ A_buffer \in [0 .. A_rear -> Packet]
    BY IInvFacts
  <2> HIDE DEF new
  <2>3. /\ Store(A_buffer, A_rear + 1, new) \in [0 .. A_rear + 1 -> Packet]
        /\ Store(A_buffer, A_rear + 1, new)[A_rear + 1] = new
        /\ \A i \in 0 .. A_rear : Store(A_buffer, A_rear + 1, new)[i] = A_buffer[i]
    BY <1>3, <2>2, StoreExtends
  <2> QED
    BY <1>1, <2>1, <2>3
<1>5. \A i \in 0 .. A_rear' : A_buffer'[i] = a_Make_Packet(Letter(i), i)
  <2>1. nsim = A_rear + 1 /\ \A i \in 0 .. A_rear : A_buffer[i] = a_Make_Packet(Letter(i), i)
    BY IInvFacts DEF SenderInv
  <2>2. SUFFICES ASSUME NEW i \in 0 .. A_rear'
                 PROVE  A_buffer'[i] = a_Make_Packet(Letter(i), i)
    OBVIOUS
  <2>3. CASE i = A_rear + 1
    BY <1>4, <2>1, <2>3
  <2>4. CASE i # A_rear + 1
    <3>1. i \in 0 .. A_rear
      BY <1>1, <1>2, <2>4
    <3> QED
      BY <1>4, <2>1, <3>1
  <2> QED
    BY <2>3, <2>4
<1>6. A_received' = A_received
  <2>1. A_received' = A_received \ {A_rear + 1}
    BY <1>1 DEF A_output
  <2>2. A_received \subseteq 0 .. A_nextseqnum - 1
    BY IInvFacts DEF SenderInv
  <2>3. A_rear + 1 \notin 0 .. A_nextseqnum - 1
    BY <1>2
  <2> QED
    BY <2>1, <2>2, <2>3
<1>7. \A i \in 0 .. A_nextseqnum - 1 : A_buffer'[i] = A_buffer[i]
  BY <1>4, IInvFacts
<1>8. ASSUME NEW next \in Nat, A_nextseqnum <= next
      PROVE  /\ 0 .. A_nextseqnum - 1 \subseteq 0 .. next - 1
             /\ FromBuffer(toB, A_buffer', next)
             /\ A_received \subseteq 0 .. next - 1
             /\ DOMAIN B_buffer \subseteq 0 .. next - 1
             /\ \A i \in DOMAIN B_buffer : B_buffer[i] = A_buffer'[i]
  <2>1. 0 .. A_nextseqnum - 1 \subseteq 0 .. next - 1
    BY <1>2, <1>8
  <2>2. FromBuffer(toB, A_buffer, A_nextseqnum)
    BY IInvFacts
  <2>3. FromBuffer(toB, A_buffer', next)
    BY <1>7, <2>1, <2>2 DEF FromBuffer
  <2>4. /\ A_received \subseteq 0 .. A_nextseqnum - 1
        /\ DOMAIN B_buffer \subseteq 0 .. A_nextseqnum - 1
        /\ \A i \in DOMAIN B_buffer : B_buffer[i] = A_buffer[i]
    BY IInvFacts DEF SenderInv, ReceiverInv
  <2> QED
    BY <1>7, <2>1, <2>3, <2>4
<1>9. ASSUME A_nextseqnum' \in Nat, A_nextseqnum <= A_nextseqnum', A_nextseqnum' <= A_rear' + 1,
             A_nextseqnum' = (IF A_w_last <= A_rear' THEN A_w_last ELSE A_rear') + 1,
             toB' \in Seq(Wire), FromBuffer(toB', A_buffer', A_nextseqnum'),
             Aq' \in Seq(0 .. A_nextseqnum' - 1), timer' \in BOOLEAN,
             RetransmissionCovers', timer' <=> Aq' # <<>>
      PROVE  IInv'
  <2>1. TypeOK'
    <3>1. SimTypeOK'
      <4>1. SimTypeOK /\ nsim \in Nat
        BY IInvFacts
      <4>2. nsim' \in 0 .. MaxMsgs
        BY <1>1, <4>1, SimulatorAssumption
      <4>3. timer' \in BOOLEAN
        BY <1>9
      <4> QED
        BY <1>1, <4>1, <4>2, <4>3 DEF SimTypeOK
    <3>2. 0 .. A_nextseqnum' - 1 \subseteq 0 .. A_rear' /\ A_rear' \in Nat \cup {-1}
      BY <1>1, <1>2, <1>9
    <3>3. A_received' \subseteq 0 .. A_nextseqnum' - 1 /\ DOMAIN B_buffer' \subseteq 0 .. A_nextseqnum' - 1
      BY <1>1, <1>6, <1>8, <1>9
    <3>4. Aq' \in Seq(0 .. A_rear')
      BY <1>9, <3>2, SubsetSeq
    <3>5. /\ toA' \in Seq(Wire) /\ A_head' \in Nat /\ A_w_last' \in Int /\ B_head' \in Nat
          /\ B_w_last' \in Int /\ \A n \in DOMAIN B_buffer' : B_buffer'[n] \in Packet
      BY <1>1, IInvFacts DEF TypeOK
    <3> QED
      BY <1>4, <1>9, <3>1, <3>2, <3>3, <3>4, <3>5 DEF TypeOK, Wire
  <2>2. SenderInv'
    <3>1. nsim' = A_rear' + 1
      BY <1>1, IInvFacts
    <3> QED
      BY <1>1, <1>5, <1>6, <1>8, <1>9, <3>1, IInvFacts DEF SenderInv
  <2>3. ReceiverInv'
    BY <1>1, <1>8, <1>9, IInvFacts DEF ReceiverInv
  <2>4. ReceivedIsStored' /\ AckInv' /\ DataInv' /\ TimerCoversList'
    BY <1>1, <1>6, <1>9, IInvFacts
       DEF ReceivedIsStored, AckInv, DataInv, FromBuffer, TimerCoversList
  <2> QED
    BY <1>9, <2>1, <2>2, <2>3, <2>4 DEF IInv
<1>10. timer <=> Aq # <<>>
  BY <1>1 DEF IInv, TimerCoversList, Running
<1>11. timer \in BOOLEAN
  BY IInvFacts DEF SimTypeOK
<1>12. CASE /\ A_nextseqnum <= A_w_last /\ A_nextseqnum <= A_rear'
            /\ toB' \in tolayer3(toB, <<A_buffer'[A_nextseqnum]>>)
            /\ Aq' = Append(Aq, A_nextseqnum)
            /\ timer' = (timer \/ A_head = A_nextseqnum)
            /\ A_nextseqnum' = A_nextseqnum + 1
  <2>1. A_nextseqnum = A_rear + 1
    BY <1>12, IInvFacts
  <2>2. /\ A_nextseqnum' \in Nat /\ A_nextseqnum <= A_nextseqnum' /\ A_nextseqnum' <= A_rear' + 1
        /\ A_nextseqnum' = (IF A_w_last <= A_rear' THEN A_w_last ELSE A_rear') + 1
    BY <1>1, <1>2, <1>12, <2>1
  <2>3. toB' \in Seq(Wire) /\ FromBuffer(toB', A_buffer', A_nextseqnum')
    <3>1. \A n \in 0 .. A_nextseqnum' - 1 : A_buffer'[n] \in Packet /\ A_buffer'[n].seqnum = n
      <4>1. 0 .. A_nextseqnum' - 1 \subseteq 0 .. A_rear'
        BY <1>1, <1>2, <2>2
      <4> QED
        BY <1>4, <1>5, <4>1 DEF a_Make_Packet
    <3>2. A_nextseqnum \in 0 .. A_nextseqnum' - 1
      BY <1>2, <1>12
    <3> DEFINE pkts == <<A_buffer'[A_nextseqnum]>>
    <3>3. /\ pkts \in Seq(Wire)
          /\ \A j \in DOMAIN pkts : \E n \in 0 .. A_nextseqnum' - 1 : pkts[j] = A_buffer'[n]
      BY <3>1, <3>2 DEF Wire
    <3>4. FromBuffer(toB, A_buffer', A_nextseqnum') /\ toB \in Seq(Wire)
      BY <1>8, <2>2, IInvFacts
    <3>5. toB' \in tolayer3(toB, pkts)
      BY <1>12
    <3> HIDE DEF pkts
    <3> QED
      BY <2>2, <3>1, <3>3, <3>4, <3>5, SendFromBuffer
  <2>7. /\ Append(Aq, A_nextseqnum) \in Seq(0 .. A_nextseqnum)
        /\ Append(Aq, A_nextseqnum) # <<>>
        /\ \A k \in 0 .. A_nextseqnum :
              Holds(Aq, k) \/ k = A_nextseqnum => Holds(Append(Aq, A_nextseqnum), k)
    <3>1. Aq \in Seq(0 .. A_nextseqnum - 1)
      BY IInvFacts
    <3>2. 0 .. A_nextseqnum - 1 \subseteq 0 .. A_nextseqnum /\ A_nextseqnum \in 0 .. A_nextseqnum
      BY <1>2
    <3>3. Aq \in Seq(0 .. A_nextseqnum)
      BY <3>1, <3>2, SubsetSeq
    <3> QED
      BY <3>2, <3>3, AppendHolds
  <2>4. Aq' \in Seq(0 .. A_nextseqnum' - 1) /\ A_nextseqnum' - 1 = A_nextseqnum
    <3>1. A_nextseqnum' - 1 = A_nextseqnum
      BY <1>2, <1>12
    <3> QED
      BY <1>12, <2>7, <3>1
  <2>5. RetransmissionCovers'
    <3>1. SUFFICES ASSUME NEW m \in A_head .. A_nextseqnum, m \notin A_received
                   PROVE  Holds(Aq', m)
      <4>1. A_nextseqnum' - 1 = A_nextseqnum
        BY <1>2, <1>12
      <4> QED
        BY <1>1, <1>6, <4>1 DEF RetransmissionCovers, Holds
    <3>2. \A k \in 0 .. A_nextseqnum : Holds(Aq, k) \/ k = A_nextseqnum => Holds(Aq', k)
      BY <1>12, <2>7
    <3>3. CASE m = A_nextseqnum
      BY <1>2, <3>2, <3>3
    <3>4. CASE m # A_nextseqnum
      <4>1. m \in A_head .. A_nextseqnum - 1
        BY <1>2, <3>4
      <4>2. Holds(Aq, m)
        BY <3>1, <4>1, ListFacts
      <4> QED
        BY <1>2, <3>2, <4>2
    <3> QED
      BY <3>3, <3>4
  <2>6. timer' \in BOOLEAN /\ (timer' <=> Aq' # <<>>)
    <3>1. Aq' # <<>>
      BY <1>12, <2>7
    <3>2. timer \/ A_head = A_nextseqnum
      BY <1>10, ListFacts
    <3> QED
      BY <1>11, <1>12, <3>1, <3>2
  <2> QED
    BY <1>9, <2>2, <2>3, <2>4, <2>5, <2>6
<1>13. CASE /\ ~(A_nextseqnum <= A_w_last /\ A_nextseqnum <= A_rear')
            /\ UNCHANGED <<toB, Aq, timer, A_nextseqnum>>
  <2>1. A_nextseqnum = A_w_last + 1
    BY SMTT(30), <1>1, <1>13, IInvFacts
  <2>2. /\ A_nextseqnum' \in Nat /\ A_nextseqnum <= A_nextseqnum' /\ A_nextseqnum' <= A_rear' + 1
        /\ A_nextseqnum' = (IF A_w_last <= A_rear' THEN A_w_last ELSE A_rear') + 1
    BY <1>1, <1>2, <1>13, <2>1
  <2>3. RetransmissionCovers'
    BY <1>1, <1>6, <1>13 DEF IInv, RetransmissionCovers
  <2>4. /\ toB' \in Seq(Wire) /\ FromBuffer(toB', A_buffer', A_nextseqnum')
        /\ Aq' \in Seq(0 .. A_nextseqnum' - 1)
    BY <1>8, <1>13, <2>2, IInvFacts
  <2> QED
    BY <1>9, <1>10, <1>11, <1>13, <2>2, <2>3, <2>4
<1> QED
  BY <1>12, <1>13 DEF A_output

\* What an event at A has to keep, besides the list and its timer.
LEMMA SenderStep ==
    ASSUME IInv,
           UNCHANGED <<nsim, cur_msg_recv, A_buffer, A_rear, B_buffer, B_head, B_w_last>>,
           exitcode' \in {0, Segfault}, toA' \in Seq(Wire), AckInv',
           A_head' \in Nat, A_nextseqnum' \in Nat,
           A_nextseqnum <= A_nextseqnum', A_nextseqnum' <= A_rear + 1,
           A_w_last' = A_head' + window_size - 1,
           A_nextseqnum' = (IF A_w_last' <= A_rear THEN A_w_last' ELSE A_rear) + 1,
           0 .. A_head' - 1 \subseteq A_received', A_head' \notin A_received',
           A_received' \subseteq 0 .. A_nextseqnum - 1, A_received' \subseteq DOMAIN B_buffer,
           toB' \in Seq(Wire), FromBuffer(toB', A_buffer, A_nextseqnum'),
           Aq' \in Seq(0 .. A_nextseqnum' - 1), timer' \in BOOLEAN,
           RetransmissionCovers', TimerCoversList'
    PROVE  IInv'
<1>1. /\ 0 .. A_nextseqnum - 1 \subseteq 0 .. A_nextseqnum' - 1
      /\ 0 .. A_nextseqnum' - 1 \subseteq 0 .. A_rear
  <2>1. A_nextseqnum \in Nat /\ A_rear \in Int
    BY IInvFacts
  <2>2. A_nextseqnum' \in Nat /\ A_nextseqnum <= A_nextseqnum' /\ A_nextseqnum' <= A_rear + 1
    OBVIOUS
  <2>3. \A a, b \in Nat : \A c \in Int :
            a <= b /\ b <= c + 1 => 0 .. a - 1 \subseteq 0 .. b - 1 /\ 0 .. b - 1 \subseteq 0 .. c
    BY ONLY TRUE
  <2> QED
    BY ONLY <2>1, <2>2, <2>3
<1>2. TypeOK'
  <2>1. SimTypeOK'
    <3>1. SimTypeOK
      BY IInvFacts
    <3> QED
      BY <3>1 DEF SimTypeOK
  <2>2. Aq' \in Seq(0 .. A_rear') /\ A_received' \subseteq 0 .. A_rear'
    BY ZenonT(30), <1>1, SubsetSeq
  <2>3. A_w_last' \in Int
    BY SMTT(30), IInvFacts
  <2>4. TypeOK
    BY IInvFacts
  <2>5. /\ A_rear' \in Nat \cup {-1} /\ A_buffer' \in [0 .. A_rear' -> Packet]
        /\ DOMAIN B_buffer' \subseteq 0 .. A_rear' /\ B_head' \in Nat /\ B_w_last' \in Int
        /\ \A n \in DOMAIN B_buffer' : B_buffer'[n] \in Packet
    BY <2>4 DEF TypeOK
  <2> QED
    BY <2>1, <2>2, <2>3, <2>5 DEF TypeOK, Wire
<1>3. SenderInv'
  <2>1. nsim = A_rear + 1 /\ \A i \in 0 .. A_rear : A_buffer[i] = a_Make_Packet(Letter(i), i)
    BY IInvFacts DEF SenderInv
  <2> QED
    BY <1>1, <2>1 DEF SenderInv
<1>4. ReceiverInv'
  <2>1. ReceiverInv
    BY IInvFacts
  <2> QED
    BY <1>1, <2>1 DEF ReceiverInv
<1>5. ReceivedIsStored' /\ DataInv'
  BY DEF ReceivedIsStored, DataInv, FromBuffer
<1> QED
  BY <1>2, <1>3, <1>4, <1>5 DEF IInv

\* A_timerinterrupt (sr.c:151-171) preserves the invariant.
LEMMA IInvTimer == IInv /\ A_timerinterrupt => IInv'
<1> SUFFICES ASSUME IInv, A_timerinterrupt PROVE IInv'
  OBVIOUS
<1>1. /\ UNCHANGED <<nsim, cur_msg_recv, toA, A_buffer, A_received, A_head,
                     A_nextseqnum, A_rear, A_w_last, B_buffer, B_head, B_w_last>>
      /\ exitcode = 0 /\ timer
  BY DEF A_timerinterrupt, Running, bVars
<1>2. Aq # <<>>
  BY <1>1 DEF IInv, TimerCoversList, Running
<1>3. /\ toB' \in tolayer3(toB, <<A_buffer[Head(Aq)]>>)
      /\ Aq' = Append(Tail(Aq), Head(Aq))
      /\ timer' = TRUE /\ exitcode' = exitcode
  BY <1>2 DEF A_timerinterrupt, A_resend
<1> DEFINE S == 0 .. A_nextseqnum - 1
<1>4. Head(Aq) \in S /\ Tail(Aq) \in Seq(S)
      /\ \A i \in DOMAIN Aq : Aq[i] = Head(Aq) \/ \E j \in DOMAIN Tail(Aq) : Tail(Aq)[j] = Aq[i]
  <2>1. Aq \in Seq(S)
    BY IInvFacts
  <2> HIDE DEF S
  <2>2. /\ Head(Aq) \in S /\ Tail(Aq) \in Seq(S) /\ Len(Tail(Aq)) = Len(Aq) - 1
        /\ \A i \in 1 .. Len(Tail(Aq)) : Tail(Aq)[i] = Aq[i + 1]
        /\ DOMAIN Aq = 1 .. Len(Aq) /\ DOMAIN Tail(Aq) = 1 .. Len(Tail(Aq)) /\ Len(Aq) \in Nat
        /\ Head(Aq) = Aq[1]
    BY <1>2, <2>1
  <2>3. ASSUME NEW i \in DOMAIN Aq, i # 1 PROVE \E j \in DOMAIN Tail(Aq) : Tail(Aq)[j] = Aq[i]
    <3>1. i - 1 \in DOMAIN Tail(Aq) /\ (i - 1) + 1 = i
      BY <2>2, <2>3
    <3> QED
      BY <2>2, <3>1
  <2> QED
    BY <2>2, <2>3
<1> HIDE DEF S
<1>5. /\ Aq' \in Seq(S) /\ Aq' # <<>>
      /\ \A m \in S : Holds(Tail(Aq), m) \/ m = Head(Aq) => Holds(Aq', m)
  BY <1>3, <1>4, AppendHolds
<1>6. RetransmissionCovers'
  <2>1. SUFFICES ASSUME NEW m \in A_head .. A_nextseqnum - 1, m \notin A_received
                 PROVE  Holds(Aq', m)
    BY <1>1 DEF RetransmissionCovers, Holds
  <2>2. Holds(Aq, m)
    BY <2>1, ListFacts
  <2>3. m \in S
    BY IInvFacts DEF S
  <2>4. Holds(Tail(Aq), m) \/ m = Head(Aq)
    BY <1>4, <2>2 DEF Holds
  <2> QED
    BY <1>5, <2>3, <2>4
<1>7. toB' \in Seq(Wire) /\ FromBuffer(toB', A_buffer, A_nextseqnum)
  <2> DEFINE pkts == <<A_buffer[Head(Aq)]>>
  <2>1. /\ toB \in Seq(Wire) /\ A_nextseqnum \in Nat /\ FromBuffer(toB, A_buffer, A_nextseqnum)
        /\ \A n \in 0 .. A_nextseqnum - 1 : A_buffer[n] \in Packet /\ A_buffer[n].seqnum = n
    BY IInvFacts
  <2>2. pkts \in Seq(Wire) /\ \A j \in DOMAIN pkts : \E n \in 0 .. A_nextseqnum - 1 : pkts[j] = A_buffer[n]
    BY <1>4, <2>1 DEF S, Wire
  <2>3. toB' \in tolayer3(toB, pkts)
    BY <1>3
  <2> HIDE DEF pkts
  <2> QED
    BY <2>1, <2>2, <2>3, SendFromBuffer
<1>8. AckInv' /\ TimerCoversList'
  BY <1>1, <1>3, <1>5, IInvFacts DEF AckInv, TimerCoversList
<1>9. /\ SenderInv /\ ReceivedIsStored /\ exitcode' \in {0, Segfault} /\ toA' \in Seq(Wire)
      /\ A_head' \in Nat /\ A_nextseqnum' \in Nat /\ timer' \in BOOLEAN
      /\ A_nextseqnum <= A_nextseqnum' /\ A_nextseqnum' <= A_rear + 1
  BY <1>1, <1>3, IInvFacts
<1>10. /\ A_w_last' = A_head' + window_size - 1
       /\ A_nextseqnum' = (IF A_w_last' <= A_rear THEN A_w_last' ELSE A_rear) + 1
       /\ 0 .. A_head' - 1 \subseteq A_received' /\ A_head' \notin A_received'
       /\ A_received' \subseteq 0 .. A_nextseqnum - 1 /\ A_received' \subseteq DOMAIN B_buffer
  BY <1>1, <1>9 DEF SenderInv, ReceivedIsStored
<1>11. FromBuffer(toB', A_buffer, A_nextseqnum') /\ Aq' \in Seq(0 .. A_nextseqnum' - 1)
  BY <1>1, <1>5, <1>7 DEF S
<1> QED
  BY <1>1, <1>6, <1>7, <1>8, <1>9, <1>10, <1>11, SenderStep

\* The packets a slide sends: those from .. to - 1, all of them once.
LEMMA NumbersFacts ==
    ASSUME NEW from \in Nat, NEW to \in Nat, from <= to
    PROVE  /\ Numbers(from, to) \in Seq(0 .. to - 1)
           /\ DOMAIN Numbers(from, to) = 1 .. to - from
           /\ \A m \in from .. to - 1 : Holds(Numbers(from, to), m)
<1>1. to - from \in Nat /\ \A i \in 1 .. to - from : from + i - 1 \in 0 .. to - 1
  OBVIOUS
<1>2. Numbers(from, to) = [i \in 1 .. to - from |-> from + i - 1]
  BY DEF Numbers
<1>3. Numbers(from, to) \in [1 .. to - from -> 0 .. to - 1]
  BY <1>1, <1>2
<1>4. ASSUME NEW m \in from .. to - 1 PROVE Holds(Numbers(from, to), m)
  <2>1. m - from + 1 \in 1 .. to - from /\ from + (m - from + 1) - 1 = m
    OBVIOUS
  <2>2. Numbers(from, to)[m - from + 1] = m
    BY <1>2, <2>1
  <2> QED
    BY <1>2, <2>1, <2>2 DEF Holds
<1>5. Numbers(from, to) \in Seq(0 .. to - 1)
  BY <1>1, <1>3
<1> QED
  BY <1>2, <1>4, <1>5

\* Any two stretches of the window: sending as far as it reaches.
LEMMA SlideReaches ==
    ASSUME NEW next \in Nat, NEW rear \in Int, NEW wlast \in Int, NEW turns \in Nat,
           next = (IF wlast <= rear THEN wlast ELSE rear) + 1
    PROVE  LET after == IF next + turns <= rear + 1 THEN next + turns ELSE rear + 1
           IN  /\ after \in Nat /\ next <= after /\ after <= rear + 1
               /\ after = (IF wlast + turns <= rear THEN wlast + turns ELSE rear) + 1
OBVIOUS

\* The loop of A_input (sr.c:114-134) over what the first half has left in
\* the list: the window starts at the first gap, every packet it has room for
\* is sent and listed.
LEMMA SlideFacts ==
    ASSUME IInv, A_received' \subseteq 0 .. A_nextseqnum - 1, A_received \subseteq A_received',
           NEW queue \in Seq(0 .. A_nextseqnum - 1), NEW running \in BOOLEAN,
           running <=> queue # <<>>,
           A_slide(queue, running)
    PROVE  /\ A_head' \in Nat /\ A_head <= A_head'
           /\ 0 .. A_head' - 1 \subseteq A_received' /\ A_head' \notin A_received'
           /\ A_w_last' = A_head' + window_size - 1
           /\ A_nextseqnum' \in Nat /\ A_nextseqnum <= A_nextseqnum' /\ A_nextseqnum' <= A_rear + 1
           /\ A_nextseqnum' = (IF A_w_last' <= A_rear THEN A_w_last' ELSE A_rear) + 1
           /\ toB' \in Seq(Wire) /\ FromBuffer(toB', A_buffer, A_nextseqnum')
           /\ Aq' \in Seq(0 .. A_nextseqnum' - 1)
           /\ \A m \in 0 .. A_nextseqnum - 1 : Holds(queue, m) => Holds(Aq', m)
           /\ \A m \in A_nextseqnum .. A_nextseqnum' - 1 : Holds(Aq', m)
           /\ timer' \in BOOLEAN /\ (timer' <=> Aq' # <<>>)
<1> DEFINE stop == FirstUnset(A_received', A_head)
           turns == stop - A_head
           sent == Numbers(A_nextseqnum, NextAfter(turns))
<1>1. /\ A_nextseqnum \in Nat /\ A_head \in Nat /\ A_rear \in Nat \cup {-1} /\ A_w_last \in Int
      /\ window_size \in Nat /\ A_head <= A_nextseqnum /\ A_nextseqnum <= A_rear + 1
      /\ A_nextseqnum <= A_w_last + 1 /\ A_rear + 1 <= MaxMsgs
  BY IInvFacts
<1>2. /\ A_head' = A_head + turns /\ A_w_last' = A_w_last + turns
      /\ A_nextseqnum' = NextAfter(turns)
      /\ toB' \in tolayer3(toB, [i \in DOMAIN sent |-> A_buffer[sent[i]]])
      /\ Aq' = Enlist(queue, sent)
      /\ timer' = (running \/ (queue = <<>> /\ sent # <<>>))
  BY DEF A_slide
<1>3. stop \in A_head .. A_nextseqnum /\ stop \notin A_received' /\ A_head .. stop - 1 \subseteq A_received'
  <2>1. A_nextseqnum \notin A_received'
    <3>1. A_nextseqnum \notin 0 .. A_nextseqnum - 1
      BY <1>1
    <3> QED
      BY <3>1
  <2>2. A_head <= A_nextseqnum /\ A_nextseqnum <= A_head + MaxMsgs
    BY <1>1, SimulatorAssumption
  <2> QED
    BY <1>1, <2>1, <2>2, FirstUnsetFacts
<1> HIDE DEF stop
<1>4. turns \in Nat /\ A_head' = stop /\ A_head' \in Nat /\ A_head <= A_head'
  BY ONLY <1>1, <1>2, <1>3
<1>5. 0 .. A_head' - 1 \subseteq A_received' /\ A_head' \notin A_received'
  <2>1. 0 .. A_head - 1 \subseteq A_received'
    BY IInvFacts DEF SenderInv
  <2>2. SUFFICES ASSUME NEW m \in 0 .. stop - 1 PROVE m \in A_received'
    BY <1>3, <1>4
  <2>3. m \in 0 .. A_head - 1 \/ m \in A_head .. stop - 1
    BY ONLY <1>1, <1>3, <2>2
  <2> QED
    BY <1>3, <2>1, <2>3
<1> HIDE DEF turns
<1>6. A_w_last' = A_head' + window_size - 1
  <2>1. A_w_last = A_head + window_size - 1
    BY IInvFacts DEF SenderInv
  <2> QED
    BY ONLY <1>1, <1>2, <1>4, <2>1
<1>7. /\ A_nextseqnum' \in Nat /\ A_nextseqnum <= A_nextseqnum' /\ A_nextseqnum' <= A_rear + 1
      /\ A_nextseqnum' = (IF A_w_last' <= A_rear THEN A_w_last' ELSE A_rear) + 1
  <2>1. A_nextseqnum = (IF A_w_last <= A_rear THEN A_w_last ELSE A_rear) + 1
    BY IInvFacts DEF SenderInv
  <2>2. NextAfter(turns) =
            IF A_nextseqnum + turns <= A_rear + 1 THEN A_nextseqnum + turns ELSE A_rear + 1
    BY <1>1, <1>4, NextAfterIs
  <2>3. A_rear \in Int /\ A_nextseqnum \in Nat /\ A_w_last \in Int /\ turns \in Nat
    BY <1>1, <1>4
  <2> QED
    BY ONLY <1>2, <2>1, <2>2, <2>3, SlideReaches
<1>8. /\ sent \in Seq(0 .. A_nextseqnum' - 1) /\ DOMAIN sent = 1 .. A_nextseqnum' - A_nextseqnum
      /\ \A m \in A_nextseqnum .. A_nextseqnum' - 1 : Holds(sent, m)
  BY ONLY <1>1, <1>2, <1>7, NumbersFacts
<1> HIDE DEF sent
<1>9. toB' \in Seq(Wire) /\ FromBuffer(toB', A_buffer, A_nextseqnum')
  <2> DEFINE pkts == [i \in DOMAIN sent |-> A_buffer[sent[i]]]
  <2>1. ASSUME NEW n \in 0 .. A_nextseqnum' - 1
        PROVE  A_buffer[n] \in Packet /\ A_buffer[n].seqnum = n /\ A_buffer[n] \in Wire
    <3>1. n \in 0 .. A_rear
      BY ONLY <1>1, <1>7, <2>1
    <3>2. /\ A_buffer \in [0 .. A_rear -> Packet]
          /\ \A i \in 0 .. A_rear : A_buffer[i] = a_Make_Packet(Letter(i), i)
      BY IInvFacts DEF SenderInv
    <3> QED
      BY ONLY <3>1, <3>2 DEF a_Make_Packet, Wire
  <2>2. \A i \in DOMAIN sent : sent[i] \in 0 .. A_nextseqnum' - 1
    <3> DEFINE S == 0 .. A_nextseqnum' - 1
    <3>1. sent \in Seq(S)
      BY <1>8
    <3> HIDE DEF S
    <3>2. \A i \in DOMAIN sent : sent[i] \in S
      BY ONLY <3>1
    <3> QED
      BY ONLY <3>2 DEF S
  <2>3. A_nextseqnum' - A_nextseqnum \in Nat
    BY ONLY <1>1, <1>7
  <2>4. pkts \in [1 .. A_nextseqnum' - A_nextseqnum -> Wire]
    BY ONLY <1>8, <2>1, <2>2
  <2>5. pkts \in Seq(Wire) /\ \A j \in DOMAIN pkts : \E n \in 0 .. A_nextseqnum' - 1 : pkts[j] = A_buffer[n]
    BY ONLY <2>2, <2>3, <2>4
  <2>6. toB' \in tolayer3(toB, pkts)
    BY <1>2
  <2>7. toB \in Seq(Wire) /\ FromBuffer(toB, A_buffer, A_nextseqnum')
    <3>1. toB \in Seq(Wire) /\ FromBuffer(toB, A_buffer, A_nextseqnum)
      BY IInvFacts
    <3>2. 0 .. A_nextseqnum - 1 \subseteq 0 .. A_nextseqnum' - 1
      BY ONLY <1>1, <1>7
    <3> QED
      BY ONLY <3>1, <3>2 DEF FromBuffer
  <2> HIDE DEF pkts
  <2> QED
    BY ONLY <1>7, <2>1, <2>5, <2>6, <2>7, SendFromBuffer
<1>10. /\ Enlist(queue, sent) \in Seq(0 .. A_nextseqnum' - 1)
       /\ \A m \in 0 .. A_nextseqnum' - 1 :
             Holds(queue, m) \/ Holds(sent, m) => Holds(Enlist(queue, sent), m)
       /\ Enlist(queue, sent) # <<>> <=> (queue # <<>> \/ sent # <<>>)
  <2>1. 0 .. A_nextseqnum - 1 \subseteq 0 .. A_nextseqnum' - 1
    BY ONLY <1>1, <1>7
  <2>2. queue \in Seq(0 .. A_nextseqnum' - 1)
    BY <2>1, SubsetSeq
  <2> DEFINE S == 0 .. A_nextseqnum' - 1
  <2>3. sent \in Seq(S) /\ queue \in Seq(S)
    BY <1>8, <2>2
  <2> HIDE DEF S
  <2>4. /\ Enlist(queue, sent) \in Seq(S)
        /\ \A m \in S : Holds(queue, m) \/ Holds(sent, m) => Holds(Enlist(queue, sent), m)
        /\ Enlist(queue, sent) # <<>> <=> (queue # <<>> \/ sent # <<>>)
    BY ONLY <2>3, EnlistFacts
  <2> QED
    BY ONLY <2>4 DEF S
<1>11. \A m \in 0 .. A_nextseqnum - 1 : Holds(queue, m) => Holds(Aq', m)
  <2>1. 0 .. A_nextseqnum - 1 \subseteq 0 .. A_nextseqnum' - 1
    BY ONLY <1>1, <1>7
  <2> QED
    BY ONLY <1>2, <1>10, <2>1
<1>12. \A m \in A_nextseqnum .. A_nextseqnum' - 1 : Holds(Aq', m)
  <2>1. A_nextseqnum .. A_nextseqnum' - 1 \subseteq 0 .. A_nextseqnum' - 1
    BY ONLY <1>1, <1>7
  <2> QED
    BY ONLY <1>2, <1>8, <1>10, <2>1
<1>13. timer' \in BOOLEAN /\ (timer' <=> Aq' # <<>>)
  <2>1. timer' \in BOOLEAN
    BY <1>2, Zenon
  <2>2. timer' <=> (queue # <<>> \/ sent # <<>>)
    BY <1>2, Zenon
  <2> QED
    BY <1>2, <1>10, <2>1, <2>2, Zenon
<1> QED
  BY <1>2, <1>4, <1>5, <1>6, <1>7, <1>9, <1>10, <1>11, <1>12, <1>13

\* A_input (sr.c:86-148) preserves the invariant, the NULL dereference that
\* ends the process included.
LEMMA IInvAck == IInv /\ A_input => IInv'
<1> SUFFICES ASSUME IInv, A_input PROVE IInv'
  OBVIOUS
<1>1. /\ toA # <<>> /\ toA' = Tail(toA) /\ toA' \in Seq(Wire)
      /\ Head(toA) = toA[1] /\ toA[1] \in Wire /\ 1 \in DOMAIN toA
      /\ \A i \in DOMAIN toA' : i + 1 \in DOMAIN toA /\ toA'[i] = toA[i + 1]
  <2>1. toA # <<>> /\ toA' = Tail(toA) /\ toA \in Seq(Wire)
    BY IInvFacts DEF A_input
  <2> QED
    BY <2>1, TailFacts
<1>2. /\ UNCHANGED <<nsim, cur_msg_recv, A_buffer, A_rear, B_buffer, B_head, B_w_last>>
      /\ exitcode = 0
  BY DEF A_input, bVars, Running
<1>3. AckInv'
  <2>1. AckInv
    BY IInvFacts
  <2> QED
    BY <1>1, <1>2, <2>1 DEF AckInv
<1>4. /\ timer \in BOOLEAN /\ (timer <=> Aq # <<>>)
  <2>1. timer \in BOOLEAN
    BY IInvFacts DEF SimTypeOK
  <2>2. timer <=> Aq # <<>>
    BY <1>2 DEF IInv, TimerCoversList, Running
  <2> QED
    BY <2>1, <2>2
<1>5. /\ A_head \in Nat /\ A_nextseqnum \in Nat /\ A_nextseqnum <= A_nextseqnum
      /\ A_nextseqnum <= A_rear + 1 /\ A_head <= A_nextseqnum
      /\ toB \in Seq(Wire) /\ FromBuffer(toB, A_buffer, A_nextseqnum)
      /\ Aq \in Seq(0 .. A_nextseqnum - 1)
  BY IInvFacts
<1>6. /\ A_w_last = A_head + window_size - 1
      /\ A_nextseqnum = (IF A_w_last <= A_rear THEN A_w_last ELSE A_rear) + 1
      /\ 0 .. A_head - 1 \subseteq A_received /\ A_head \notin A_received
      /\ A_received \subseteq 0 .. A_nextseqnum - 1 /\ A_received \subseteq DOMAIN B_buffer
  BY IInvFacts DEF SenderInv, ReceivedIsStored
<1>7. ASSUME UNCHANGED <<A_received, A_head, A_nextseqnum, A_w_last, Aq, timer, toB>>,
             exitcode' \in {0, Segfault}
      PROVE  IInv'
  <2>1. RetransmissionCovers'
    BY <1>7 DEF IInv, RetransmissionCovers
  <2>2. TimerCoversList'
    BY <1>4, <1>7 DEF TimerCoversList
  <2> QED
    BY <1>1, <1>2, <1>3, <1>4, <1>5, <1>6, <1>7, <2>1, <2>2, SenderStep
<1>8. CASE ~Intact(toA)
  BY <1>2, <1>7, <1>8 DEF A_input
<1>9. CASE A_nullList
  BY <1>7, <1>9 DEF A_nullList
<1>10. CASE Intact(toA) /\ Aq # <<>> /\ A_acknowledged(Head(toA).seqnum)
  <2> DEFINE n == Head(toA).seqnum
             S == 0 .. A_nextseqnum - 1
             queue == WithoutFirst(Aq, n)
  <2>1. n \in DOMAIN B_buffer /\ n \in S
    <3>1. toA[1] # Corrupt
      BY <1>1, <1>10 DEF Intact
    <3>2. n \in DOMAIN B_buffer
      BY <1>1, <3>1, IInvFacts DEF AckInv
    <3> QED
      BY <3>2, IInvFacts DEF ReceiverInv
  <2>2. /\ A_received' = A_received \cup {n}
        /\ exitcode' = exitcode
        /\ \/ /\ A_head = n
              /\ A_slide(queue, TimerAfter(n))
           \/ /\ A_head # n
              /\ Aq' = queue
              /\ timer' = TimerAfter(n)
              /\ UNCHANGED <<toB, A_head, A_nextseqnum, A_w_last>>
    BY <1>10 DEF A_acknowledged
  <2>3. Aq \in Seq(S) /\ Aq # <<>>
    BY <1>5, <1>10
  <2> HIDE DEF n, S
  <2>4. /\ queue \in Seq(S)
        /\ \A m \in S : m # n /\ Holds(Aq, m) => Holds(queue, m)
        /\ Head(Aq) = n => (queue # <<>> <=> Len(Aq) > 1)
        /\ Head(Aq) # n => queue # <<>>
    BY <2>1, <2>3, WithoutFirstFacts
  <2> HIDE DEF queue
  <2>5. TimerAfter(n) \in BOOLEAN /\ (TimerAfter(n) <=> queue # <<>>)
    <3>1. CASE Head(Aq) = n
      <4>1. TimerAfter(n) = (Len(Aq) > 1)
        BY <3>1 DEF TimerAfter
      <4>2. (Len(Aq) > 1) \in BOOLEAN
        OBVIOUS
      <4> QED
        BY <2>4, <3>1, <4>1, <4>2, Zenon
    <3>2. CASE Head(Aq) # n
      <4>1. TimerAfter(n) = timer
        BY <3>2 DEF TimerAfter
      <4> QED
        BY <1>4, <2>3, <2>4, <3>2, <4>1, Zenon
    <3> QED
      BY <3>1, <3>2
  <2>6. /\ A_received' \subseteq 0 .. A_nextseqnum - 1 /\ A_received \subseteq A_received'
        /\ A_received' \subseteq DOMAIN B_buffer
    BY <1>6, <2>1, <2>2 DEF S
  <2>7. \A m \in A_head .. A_nextseqnum - 1 : m \notin A_received' => Holds(queue, m) /\ m \in S
    <3>1. SUFFICES ASSUME NEW m \in A_head .. A_nextseqnum - 1, m \notin A_received'
                   PROVE  Holds(queue, m) /\ m \in S
      OBVIOUS
    <3>2. m \notin A_received /\ m # n
      BY <2>2, <3>1
    <3>3. Holds(Aq, m)
      BY <3>2, ListFacts
    <3>4. m \in S
      BY <1>5 DEF S
    <3> QED
      BY <2>4, <3>2, <3>3, <3>4
  <2>8. CASE A_head = n /\ A_slide(queue, TimerAfter(n))
    <3>1. queue \in Seq(0 .. A_nextseqnum - 1) /\ A_slide(queue, TimerAfter(n))
      BY <2>4, <2>8 DEF S
    <3>2. /\ A_head' \in Nat /\ A_head <= A_head'
          /\ 0 .. A_head' - 1 \subseteq A_received' /\ A_head' \notin A_received'
          /\ A_w_last' = A_head' + window_size - 1
          /\ A_nextseqnum' \in Nat /\ A_nextseqnum <= A_nextseqnum' /\ A_nextseqnum' <= A_rear + 1
          /\ A_nextseqnum' = (IF A_w_last' <= A_rear THEN A_w_last' ELSE A_rear) + 1
          /\ toB' \in Seq(Wire) /\ FromBuffer(toB', A_buffer, A_nextseqnum')
          /\ Aq' \in Seq(0 .. A_nextseqnum' - 1)
          /\ \A m \in 0 .. A_nextseqnum - 1 : Holds(queue, m) => Holds(Aq', m)
          /\ \A m \in A_nextseqnum .. A_nextseqnum' - 1 : Holds(Aq', m)
          /\ timer' \in BOOLEAN /\ (timer' <=> Aq' # <<>>)
      BY ONLY IInv, <2>5, <2>6, <3>1, SlideFacts
    <3>3. RetransmissionCovers'
      <4>1. SUFFICES ASSUME NEW m \in A_head' .. A_nextseqnum' - 1, m \notin A_received'
                     PROVE  Holds(Aq', m)
        BY DEF RetransmissionCovers, Holds
      <4>2. m \in A_head .. A_nextseqnum - 1 \/ m \in A_nextseqnum .. A_nextseqnum' - 1
        BY ONLY <1>5, <3>2, <4>1
      <4>3. CASE m \in A_head .. A_nextseqnum - 1
        <5>1. Holds(queue, m) /\ m \in 0 .. A_nextseqnum - 1
          BY <2>7, <4>1, <4>3 DEF S
        <5> QED
          BY <3>2, <5>1
      <4>4. CASE m \in A_nextseqnum .. A_nextseqnum' - 1
        BY <3>2, <4>4
      <4> QED
        BY <4>2, <4>3, <4>4
    <3>4. TimerCoversList'
      BY <3>2 DEF TimerCoversList
    <3>5. exitcode' \in {0, Segfault}
      BY <1>2, <2>2
    <3> QED
      BY <1>1, <1>2, <1>3, <2>6, <3>2, <3>3, <3>4, <3>5, SenderStep
  <2>9. CASE /\ A_head # n
             /\ Aq' = queue
             /\ timer' = TimerAfter(n)
             /\ UNCHANGED <<toB, A_head, A_nextseqnum, A_w_last>>
    <3>1. RetransmissionCovers'
      BY <2>7, <2>9 DEF RetransmissionCovers, Holds
    <3>2. timer' \in BOOLEAN /\ (timer' <=> Aq' # <<>>)
      BY <2>5, <2>9, Zenon
    <3>3. TimerCoversList'
      BY <3>2 DEF TimerCoversList
    <3>4. exitcode' \in {0, Segfault}
      BY <1>2, <2>2
    <3>5. 0 .. A_head - 1 \subseteq A_received' /\ A_head \notin A_received'
      BY <1>6, <2>2, <2>9
    <3>6. Aq' \in Seq(0 .. A_nextseqnum' - 1)
      BY <2>4, <2>9 DEF S
    <3>7. /\ toB' = toB /\ A_head' = A_head /\ A_nextseqnum' = A_nextseqnum /\ A_w_last' = A_w_last
      BY <2>9
    <3> QED
      BY <1>1, <1>2, <1>3, <1>5, <1>6, <2>6, <3>1, <3>2, <3>3, <3>4, <3>5, <3>6, <3>7, SenderStep
  <2> QED
    BY <2>2, <2>8, <2>9
<1> QED
  BY <1>8, <1>9, <1>10 DEF A_input

\* The acknowledgement of a packet B has stored keeps AckInv.
LEMMA AckSent ==
    ASSUME IInv,
           NEW n \in SeqNum, n \in DOMAIN B_buffer', DOMAIN B_buffer \subseteq DOMAIN B_buffer',
           toA' \in tolayer3(toA, <<b_Make_Packet(n)>>)
    PROVE  toA' \in Seq(Wire) /\ AckInv'
<1> DEFINE ack == b_Make_Packet(n)
<1>1. ack \in Packet /\ ack \in Wire /\ ack.seqnum = n
  BY DEF b_Make_Packet, Packet, Wire
<1> HIDE DEF ack
<1>2. toA \in Seq(Wire) /\ Corrupt \in Wire /\ AckInv
  BY IInvFacts
<1>3. toA' \in Seq(Wire) /\ toA' \in {toA, Append(toA, ack), Append(toA, Corrupt)}
  <2>1. toA' \in tolayer3(toA, <<ack>>)
    BY DEF ack
  <2> QED
    BY <1>1, <1>2, <2>1, TransmitOne
<1>4. \A i \in DOMAIN toA' : (i \in DOMAIN toA /\ toA'[i] = toA[i]) \/ toA'[i] \in {ack, Corrupt}
  <2>1. CASE toA' = toA
    BY <2>1
  <2>2. ASSUME NEW e \in Wire, toA' = Append(toA, e)
        PROVE  \A i \in DOMAIN toA' : (i \in DOMAIN toA /\ toA'[i] = toA[i]) \/ toA'[i] = e
    BY <1>2, <2>2, AppendFacts
  <2> QED
    BY <1>1, <1>2, <1>3, <2>1, <2>2
<1>5. AckInv'
  <2>1. SUFFICES ASSUME NEW i \in DOMAIN toA', toA'[i] # Corrupt
                 PROVE  toA'[i].seqnum \in DOMAIN B_buffer'
    BY DEF AckInv
  <2>2. CASE i \in DOMAIN toA /\ toA'[i] = toA[i]
    BY <1>2, <2>1, <2>2 DEF AckInv
  <2>3. CASE toA'[i] = ack
    BY <1>1, <2>3
  <2> QED
    BY <1>4, <2>1, <2>2, <2>3
<1> QED
  BY <1>3, <1>5

\* What an event at B has to keep.
LEMMA ReceiverStep ==
    ASSUME IInv,
           UNCHANGED <<nsim, timer, aVars>>,
           exitcode' = exitcode, cur_msg_recv' = B_head', B_head' \in Nat,
           B_w_last' = B_head' + window_size - 1,
           toA' \in Seq(Wire), AckInv', toB # <<>>, toB' = Tail(toB),
           DOMAIN B_buffer \subseteq DOMAIN B_buffer', DOMAIN B_buffer' \subseteq 0 .. A_nextseqnum - 1,
           0 .. B_head' - 1 \subseteq DOMAIN B_buffer', B_head' \notin DOMAIN B_buffer',
           \A i \in DOMAIN B_buffer' : B_buffer'[i] = A_buffer[i]
    PROVE  IInv'
<1>1. UNCHANGED <<A_buffer, A_received, A_head, A_nextseqnum, A_rear, A_w_last, Aq>>
  BY DEF aVars
<1>2. TypeOK'
  <2>1. SimTypeOK'
    <3>1. SimTypeOK /\ cur_msg_recv' \in Nat
      BY IInvFacts
    <3> QED
      BY <3>1 DEF SimTypeOK
  <2>2. toB' \in Seq(Wire)
    <3>1. toB \in Seq(Wire)
      BY IInvFacts
    <3> QED
      BY <3>1, TailFacts
  <2>3. B_w_last' \in Int
    BY SMTT(30), IInvFacts
  <2>4. DOMAIN B_buffer' \subseteq 0 .. A_rear' /\ \A n \in DOMAIN B_buffer' : B_buffer'[n] \in Packet
    <3>1. \A n \in 0 .. A_nextseqnum - 1 : n \in 0 .. A_rear /\ A_buffer[n] \in Packet
      BY IInvFacts
    <3> QED
      BY <1>1, <3>1
  <2>5. TypeOK
    BY IInvFacts
  <2>6. /\ A_head' \in Nat /\ A_nextseqnum' \in Nat /\ A_rear' \in Nat \cup {-1} /\ A_w_last' \in Int
        /\ A_buffer' \in [0 .. A_rear' -> Packet]
        /\ A_received' \subseteq 0 .. A_rear'
        /\ Aq' \in Seq(0 .. A_rear')
    BY <1>1, <2>5 DEF TypeOK
  <2> QED
    BY <2>1, <2>2, <2>3, <2>4, <2>6 DEF TypeOK, Wire
<1>3. SenderInv'
  <2>1. SenderInv
    BY IInvFacts
  <2> QED
    BY <1>1, <2>1 DEF SenderInv
<1>4. ReceiverInv'
  <2>1. exitcode \in {0, Segfault}
    BY IInvFacts DEF ReceiverInv
  <2> QED
    BY <1>1, <2>1 DEF ReceiverInv
<1>5. ReceivedIsStored'
  <2>1. ReceivedIsStored
    BY IInvFacts
  <2> QED
    BY <1>1, <2>1 DEF ReceivedIsStored
<1>6. DataInv'
  <2>1. toB \in Seq(Wire) /\ FromBuffer(toB, A_buffer, A_nextseqnum)
    BY IInvFacts
  <2>2. \A i \in DOMAIN toB' : i + 1 \in DOMAIN toB /\ toB'[i] = toB[i + 1]
    BY <2>1, TailFacts
  <2> QED
    BY <1>1, <2>1, <2>2 DEF FromBuffer, DataInv
<1>7. RetransmissionCovers' /\ TimerCoversList'
  <2>1. RetransmissionCovers /\ TimerCoversList
    BY DEF IInv
  <2> QED
    BY <1>1, <2>1 DEF RetransmissionCovers, TimerCoversList, Running
<1> QED
  BY <1>2, <1>3, <1>4, <1>5, <1>6, <1>7 DEF IInv

\* The loop of B_input (sr.c:217-221): everything up to the first gap is
\* accepted, in order.
LEMMA DeliverFacts ==
    ASSUME IInv, B_deliver,
           UNCHANGED <<nsim, A_buffer, A_nextseqnum>>,
           DOMAIN B_buffer \subseteq DOMAIN B_buffer', DOMAIN B_buffer' \subseteq 0 .. A_nextseqnum - 1,
           \A i \in DOMAIN B_buffer' : B_buffer'[i] = A_buffer[i]
    PROVE  /\ B_head <= B_head' /\ B_head' \in Nat /\ B_head' <= nsim
           /\ 0 .. B_head' - 1 \subseteq DOMAIN B_buffer' /\ B_head' \notin DOMAIN B_buffer'
           /\ B_w_last' = B_head' + window_size - 1
           /\ cur_msg_recv' = B_head' /\ exitcode' = exitcode
<1> DEFINE stop == FirstUnset(DOMAIN B_buffer', B_head)
           k == stop - B_head
           data == [i \in 1 .. k |-> B_buffer'[B_head + i - 1].payload]
<1>1. /\ A_nextseqnum \in Nat /\ B_head \in Nat /\ B_head <= A_nextseqnum
      /\ nsim \in Nat /\ A_nextseqnum <= nsim /\ nsim <= MaxMsgs /\ window_size \in Nat
  BY IInvFacts
<1>2. tolayer5(data) /\ B_head' = stop /\ B_w_last' = B_w_last + stop - B_head
  BY DEF B_deliver
<1>3. /\ stop \in B_head .. A_nextseqnum /\ stop \notin DOMAIN B_buffer'
      /\ B_head .. stop - 1 \subseteq DOMAIN B_buffer'
  <2>1. A_nextseqnum \notin DOMAIN B_buffer'
    <3>1. A_nextseqnum \notin 0 .. A_nextseqnum - 1
      BY <1>1
    <3> QED
      BY <3>1
  <2>2. B_head <= A_nextseqnum /\ A_nextseqnum <= B_head + MaxMsgs
    BY <1>1, SimulatorAssumption
  <2> QED
    BY <1>1, <2>1, <2>2, FirstUnsetFacts
<1> HIDE DEF stop
<1>4. k \in Nat /\ stop \in Nat /\ B_head <= stop /\ stop <= nsim /\ B_head + k = stop
  BY ONLY <1>1, <1>3
<1>5. 0 .. stop - 1 \subseteq DOMAIN B_buffer'
  <2>1. 0 .. B_head - 1 \subseteq DOMAIN B_buffer'
    BY IInvFacts DEF ReceiverInv
  <2>2. \A m \in 0 .. stop - 1 : m \in 0 .. B_head - 1 \/ m \in B_head .. stop - 1
    BY ONLY <1>1, <1>3
  <2> QED
    BY ONLY <1>3, <2>1, <2>2
<1>6. B_w_last' = stop + window_size - 1
  <2>1. B_w_last = B_head + window_size - 1
    BY IInvFacts DEF ReceiverInv
  <2> QED
    BY ONLY <1>1, <1>2, <1>4, <2>1
<1>7. cur_msg_recv = B_head
  BY IInvFacts DEF ReceiverInv
<1>8. \A i \in 1 .. k : data[i] = Letter(cur_msg_recv + i - 1) /\ data[i] \in Letters
  <2>1. SUFFICES ASSUME NEW i \in 1 .. k
                 PROVE  data[i] = Letter(B_head + i - 1) /\ data[i] \in Letters
    BY <1>7
  <2>2. B_head + i - 1 \in B_head .. stop - 1 /\ B_head + i - 1 \in Nat
    BY ONLY <1>1, <1>4, <2>1
  <2>3. B_head + i - 1 \in DOMAIN B_buffer' /\ B_head + i - 1 \in 0 .. A_nextseqnum - 1
    BY <1>3, <2>2
  <2>4. B_buffer'[B_head + i - 1].payload = Letter(B_head + i - 1)
    BY <2>3, IInvFacts
  <2>5. data[i] = B_buffer'[B_head + i - 1].payload
    BY <2>1
  <2> QED
    BY <2>2, <2>4, <2>5, LetterType
<1>9. data \in [1 .. k -> Letters]
  BY <1>8
<1> HIDE DEF k, data
<1>10. cur_msg_recv' = cur_msg_recv + k /\ exitcode' = exitcode
  <2>1. cur_msg_recv \in Nat /\ nsim \in Nat /\ cur_msg_recv + k <= nsim
    BY <1>1, <1>4, <1>7
  <2> QED
    BY <1>2, <1>4, <1>8, <1>9, <2>1, AcceptMany
<1> QED
  BY <1>2, <1>3, <1>4, <1>5, <1>6, <1>7, <1>10

\* B_input (sr.c:197-235) preserves the invariant.
LEMMA IInvData == IInv /\ B_input => IInv'
<1> SUFFICES ASSUME IInv, B_input PROVE IInv'
  OBVIOUS
<1> DEFINE p == Head(toB)
<1>1. toB # <<>> /\ toB' = Tail(toB) /\ UNCHANGED <<nsim, timer, aVars>>
  BY DEF B_input
<1>2. UNCHANGED <<A_buffer, A_nextseqnum>>
  BY <1>1 DEF aVars
<1>3. Intact(toB) => /\ p.seqnum \in 0 .. A_nextseqnum - 1 /\ p.seqnum \in SeqNum
                     /\ p = A_buffer[p.seqnum] /\ p.seqnum \in Nat
  <2>1. SUFFICES ASSUME Intact(toB)
                 PROVE  p.seqnum \in 0 .. A_nextseqnum - 1 /\ p = A_buffer[p.seqnum]
    BY SMTT(30), IInvFacts
  <2>2. toB \in Seq(Wire) /\ FromBuffer(toB, A_buffer, A_nextseqnum)
    BY IInvFacts
  <2>3. p = toB[1] /\ 1 \in DOMAIN toB
    BY <1>1, <2>2, TailFacts
  <2> QED
    BY <2>1, <2>2, <2>3 DEF Intact, FromBuffer
<1>4. /\ cur_msg_recv = B_head /\ B_head \in Nat /\ B_w_last = B_head + window_size - 1
      /\ 0 .. B_head - 1 \subseteq DOMAIN B_buffer /\ B_head \notin DOMAIN B_buffer
      /\ DOMAIN B_buffer \subseteq 0 .. A_nextseqnum - 1
      /\ \A i \in DOMAIN B_buffer : B_buffer[i] = A_buffer[i]
      /\ toA \in Seq(Wire) /\ AckInv
  BY IInvFacts DEF ReceiverInv
<1>5. ASSUME UNCHANGED <<cur_msg_recv, exitcode, bVars>>, toA' \in Seq(Wire), AckInv' PROVE IInv'
  <2>1. UNCHANGED <<B_buffer, B_head, B_w_last>>
    BY <1>5 DEF bVars
  <2> QED
    BY <1>1, <1>4, <1>5, <2>1, ReceiverStep
<1>6. ASSUME UNCHANGED <<toA, cur_msg_recv, exitcode, bVars>> PROVE IInv'
  <2>1. AckInv'
    BY <1>4, <1>6 DEF AckInv, bVars
  <2> QED
    BY <1>4, <1>5, <1>6, <2>1
<1>7. CASE ~Intact(toB) /\ B_ignore
  BY <1>6, <1>7 DEF B_ignore
<1>8. CASE Intact(toB) /\ B_ignore
  BY <1>6, <1>8 DEF B_ignore
<1>9. CASE Intact(toB) /\ InLastWindow(p.seqnum) /\ B_reack(p)
  <2>1. /\ toA' \in tolayer3(toA, <<b_Make_Packet(p.seqnum)>>)
        /\ UNCHANGED <<cur_msg_recv, exitcode, bVars>>
    BY <1>9 DEF B_reack
  <2>2. p.seqnum \in DOMAIN B_buffer
    <3>1. p.seqnum <= B_head - 1
      BY <1>9 DEF InLastWindow
    <3>2. p.seqnum \in 0 .. B_head - 1
      BY <1>3, <1>4, <1>9, <3>1
    <3> QED
      BY <1>4, <3>2
  <2>3. B_buffer' = B_buffer
    BY <2>1 DEF bVars
  <2>4. p.seqnum \in SeqNum /\ p.seqnum \in DOMAIN B_buffer' /\ DOMAIN B_buffer \subseteq DOMAIN B_buffer'
    BY <1>3, <1>9, <2>2, <2>3
  <2> HIDE DEF p
  <2>5. toA' \in Seq(Wire) /\ AckInv'
    BY <2>1, <2>4, AckSent
  <2> QED
    BY <1>5, <2>1, <2>5
<1>10. CASE Intact(toB) /\ InWindow(p.seqnum) /\ B_store(p)
  <2>1. /\ toA' \in tolayer3(toA, <<b_Make_Packet(p.seqnum)>>)
        /\ B_buffer' = IF p.seqnum \in DOMAIN B_buffer
                       THEN B_buffer ELSE Store(B_buffer, p.seqnum, p)
        /\ \/ p.seqnum = B_head /\ B_deliver
           \/ p.seqnum # B_head /\ UNCHANGED <<cur_msg_recv, exitcode, B_head, B_w_last>>
    BY <1>10 DEF B_store
  <2>2. /\ p.seqnum \in 0 .. A_nextseqnum - 1 /\ p.seqnum \in SeqNum
        /\ p = A_buffer[p.seqnum] /\ p.seqnum \in Nat
    BY <1>3, <1>10
  <2> DEFINE n == p.seqnum
  <2>3. /\ DOMAIN B_buffer' = DOMAIN B_buffer \cup {n}
        /\ \A i \in DOMAIN B_buffer' : B_buffer'[i] = A_buffer[i]
    <3>1. CASE n \in DOMAIN B_buffer
      BY <1>4, <2>1, <3>1
    <3>2. CASE n \notin DOMAIN B_buffer
      <4>1. B_buffer' = [j \in DOMAIN B_buffer \cup {n} |-> IF j = n THEN p ELSE B_buffer[j]]
        BY <2>1, <3>2 DEF Store
      <4> QED
        BY <1>4, <2>2, <4>1
    <3> QED
      BY <3>1, <3>2
  <2> HIDE DEF p
  <2>4. /\ DOMAIN B_buffer \subseteq DOMAIN B_buffer' /\ n \in DOMAIN B_buffer'
        /\ DOMAIN B_buffer' \subseteq 0 .. A_nextseqnum - 1
    BY <1>4, <2>2, <2>3
  <2>5. toA' \in Seq(Wire) /\ AckInv'
    BY <2>1, <2>2, <2>4, AckSent
  <2>6. CASE n = B_head /\ B_deliver
    <3>1. /\ B_head' \in Nat
          /\ 0 .. B_head' - 1 \subseteq DOMAIN B_buffer' /\ B_head' \notin DOMAIN B_buffer'
          /\ B_w_last' = B_head' + window_size - 1
          /\ cur_msg_recv' = B_head' /\ exitcode' = exitcode
      BY <1>1, <1>2, <2>3, <2>4, <2>6, DeliverFacts
    <3> QED
      BY <1>1, <2>3, <2>4, <2>5, <3>1, ReceiverStep
  <2>7. CASE n # B_head /\ UNCHANGED <<cur_msg_recv, exitcode, B_head, B_w_last>>
    <3>1. 0 .. B_head' - 1 \subseteq DOMAIN B_buffer' /\ B_head' \notin DOMAIN B_buffer'
      BY <1>4, <2>3, <2>7
    <3>2. /\ B_head' \in Nat /\ B_w_last' = B_head' + window_size - 1
          /\ cur_msg_recv' = B_head' /\ exitcode' = exitcode
      BY <1>4, <2>7
    <3> QED
      BY <1>1, <2>3, <2>4, <2>5, <3>1, <3>2, ReceiverStep
  <2> QED
    BY <2>1, <2>6, <2>7
<1> QED
  BY <1>7, <1>8, <1>9, <1>10 DEF B_input, B_take

-----------------------------------------------------------------------------
(* Theorems *)

\* The invariant holds in every reachable state, for any window size, number
\* of messages and capacity of the medium.
THEOREM Invariance == Spec => []IInv
<1>1. Init => IInv
  BY IInvInit
<1>2. IInv /\ [Next]_vars => IInv'
  <2> SUFFICES ASSUME IInv, [Next]_vars PROVE IInv'
    OBVIOUS
  <2>1. CASE UNCHANGED vars
    BY <2>1 DEF vars, simVars, aVars, bVars, IInv, TypeOK, SimTypeOK, SenderInv, ReceiverInv,
                ReceivedIsStored, DataInv, AckInv, RetransmissionCovers, TimerCoversList, Running
  <2>2. CASE Next
    BY <2>2, IInvOutput, IInvAck, IInvTimer, IInvData DEF Next
  <2> QED
    BY <2>1, <2>2
<1> QED
  BY <1>1, <1>2, PTL DEF Spec

\* The variables keep their types.
THEOREM TypeCorrect == Spec => []TypeOK
<1>1. IInv => TypeOK
  BY DEF IInv
<1> QED
  BY <1>1, Invariance, PTL

\* A packet A takes for received is stored at B.
THEOREM NothingLost == Spec => []ReceivedIsStored
<1>1. IInv => ReceivedIsStored
  BY DEF IInv
<1> QED
  BY <1>1, Invariance, PTL

\* B answers every copy of a packet A still waits for.
THEOREM Answered == Spec => []NeverIgnored
<1>1. IInv => NeverIgnored
  <2> SUFFICES ASSUME IInv, NEW n \in A_head .. A_nextseqnum - 1
               PROVE  InWindow(n) \/ InLastWindow(n)
    BY DEF NeverIgnored
  <2>1. /\ A_head \in Nat /\ B_head \in Nat /\ A_nextseqnum \in Nat /\ window_size \in Nat
        /\ A_head <= B_head /\ B_head <= A_nextseqnum
        /\ A_nextseqnum <= A_w_last + 1
    BY IInvFacts
  <2>2. A_w_last = A_head + window_size - 1 /\ B_w_last = B_head + window_size - 1
    BY IInvFacts DEF SenderInv, ReceiverInv
  <2>3. A_nextseqnum <= A_head + window_size
    BY ONLY <2>1, <2>2
  <2>4. CASE B_head <= n
    BY <2>1, <2>2, <2>3, <2>4 DEF InWindow
  <2>5. CASE ~(B_head <= n)
    BY <2>1, <2>2, <2>3, <2>5 DEF InLastWindow
  <2> QED
    BY <2>4, <2>5
<1> QED
  BY <1>1, Invariance, PTL

\* Every packet sent and not acknowledged has a node in the list.
THEOREM Retransmitted == Spec => []RetransmissionCovers
<1>1. IInv => RetransmissionCovers
  BY DEF IInv
<1> QED
  BY <1>1, Invariance, PTL

\* The one timer runs exactly while the list holds a packet.
THEOREM OneTimerIsEnough == Spec => []TimerCoversList
<1>1. IInv => TimerCoversList
  BY DEF IInv
<1> QED
  BY <1>1, Invariance, PTL

\* With an empty event list nothing offered is undelivered.
THEOREM Covered == Spec => []NoSilentStall
<1>1. IInv => NoSilentStall
  <2> SUFFICES ASSUME IInv, Running, ~timer PROVE cur_msg_recv = nsim /\ A_head = nsim
    BY DEF NoSilentStall
  <2>1. Aq = <<>>
    BY DEF IInv, TimerCoversList
  <2>2. A_head = A_nextseqnum
    BY <2>1, ListFacts
  <2>3. /\ A_head \in Nat /\ A_nextseqnum \in Nat /\ B_head \in Nat /\ A_rear \in Int
        /\ A_w_last \in Int /\ window_size \in Nat /\ window_size >= 1
        /\ A_nextseqnum = A_rear + 1 \/ A_nextseqnum = A_w_last + 1
        /\ A_head <= B_head /\ B_head <= A_nextseqnum /\ nsim = A_rear + 1
    BY IInvFacts
  <2>4. A_w_last = A_head + window_size - 1 /\ cur_msg_recv = B_head
    BY IInvFacts DEF SenderInv, ReceiverInv
  <2> QED
    BY ONLY <2>2, <2>3, <2>4
<1> QED
  BY <1>1, Invariance, PTL

\* One event of the protocol is at most one step of the abstract delivery:
\* the loop of B_input hands over several messages at once.
LEMMA StepRefines == IInv /\ IInv' /\ [Next]_vars => [D!Next]_D!vars
<1> SUFFICES ASSUME IInv, IInv', [Next]_vars PROVE D!Next \/ UNCHANGED D!vars
  OBVIOUS
<1> DEFINE status == IF exitcode = Segfault THEN 0 ELSE exitcode
<1>1. status = 0 /\ status' = 0
  BY DEF IInv, ReceiverInv, Segfault
<1>2. /\ nsim \in Nat /\ cur_msg_recv = B_head /\ B_head \in Nat /\ B_head <= A_nextseqnum
      /\ nsim' \in Nat /\ cur_msg_recv' = B_head' /\ B_head' \in Nat
  <2>1. nsim \in Nat /\ cur_msg_recv = B_head /\ B_head \in Nat /\ B_head <= A_nextseqnum
    BY IInvFacts DEF ReceiverInv
  <2>2. nsim' \in Nat /\ cur_msg_recv' = B_head' /\ B_head' \in Nat
    BY SimulatorAssumption DEF IInv, TypeOK, SimTypeOK, ReceiverInv
  <2> QED
    BY <2>1, <2>2
<1>3. CASE UNCHANGED vars
  BY <1>1, <1>3 DEF vars, simVars, D!vars
<1>4. CASE A_output
  BY <1>1, <1>4 DEF A_output, D!Next, D!Offer
<1>5. CASE A_input
  BY <1>1, <1>5 DEF A_input, D!vars
<1>6. CASE A_timerinterrupt
  BY <1>1, <1>6 DEF A_timerinterrupt, D!vars
<1>7. CASE B_input
  <2>1. nsim' = nsim
    BY <1>7 DEF B_input
  <2>2. CASE cur_msg_recv' = cur_msg_recv
    BY <1>1, <2>1, <2>2 DEF D!vars
  <2>3. CASE cur_msg_recv' # cur_msg_recv
    <3>1. cur_msg_recv < cur_msg_recv' /\ cur_msg_recv' <= nsim
      <4>1. B_head <= B_head'
        <5>1. DOMAIN B_buffer \subseteq DOMAIN B_buffer'
          <6>1. \E p : B_store(p)
            BY <1>7, <2>3 DEF B_input, B_take, B_reack, B_ignore
          <6>2. PICK p : \/ B_buffer' = B_buffer
                         \/ B_buffer' = Store(B_buffer, p.seqnum, p)
            BY <6>1 DEF B_store
          <6>3. DOMAIN Store(B_buffer, p.seqnum, p) = DOMAIN B_buffer \cup {p.seqnum}
            BY DEF Store
          <6> QED
            BY <6>2, <6>3
        <5>2. 0 .. B_head - 1 \subseteq DOMAIN B_buffer /\ B_head' \notin DOMAIN B_buffer'
          BY DEF IInv, ReceiverInv
        <5>3. B_head' \notin 0 .. B_head - 1
          BY <5>1, <5>2
        <5> QED
          BY <1>2, <5>3
      <4>2. B_head' <= nsim
        <5>1. A_nextseqnum' = A_nextseqnum
          BY <1>7 DEF B_input, aVars
        <5>2. A_nextseqnum \in Nat /\ A_nextseqnum <= nsim /\ nsim \in Nat
          BY IInvFacts
        <5>3. 0 .. B_head' - 1 \subseteq 0 .. A_nextseqnum - 1
          BY <5>1 DEF IInv, ReceiverInv
        <5>4. B_head' <= A_nextseqnum
          <6>1. A_nextseqnum \notin 0 .. A_nextseqnum - 1
            BY <5>2
          <6>2. A_nextseqnum \notin 0 .. B_head' - 1
            BY ONLY <5>3, <6>1
          <6>3. \A b, n \in Nat : n \notin 0 .. b - 1 => b <= n
            BY ONLY TRUE
          <6>4. B_head' \in Nat /\ A_nextseqnum \in Nat
            BY <1>2, <5>2
          <6> QED
            BY ONLY <6>2, <6>3, <6>4
        <5> QED
          BY ONLY <1>2, <5>2, <5>4
      <4> QED
        BY <1>2, <2>3, <4>1, <4>2
    <3> QED
      BY <1>1, <1>2, <2>1, <3>1 DEF D!Next, D!Deliver
  <2> QED
    BY <2>2, <2>3
<1> QED
  BY <1>3, <1>4, <1>5, <1>6, <1>7 DEF Next

\* Selective repeat is a reliable transport as long as its process lives:
\* tolayer5 accepts every message once and in the order offered, whatever
\* order packets and acknowledgements arrive in.
THEOREM Refinement == Spec => ImplementsDelivery
<1>1. Init => D!Init
  BY DEF Init, SimInit, D!Init, Segfault
<1> QED
  BY <1>1, StepRefines, Invariance, PTL DEF Spec, ImplementsDelivery, D!Spec
=============================================================================
