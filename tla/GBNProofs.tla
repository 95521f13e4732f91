------------------------------ MODULE GBNProofs ------------------------------
(***************************************************************************)
(* IInv of module GBN is inductive, for every window size; what it implies. *)
(***************************************************************************)
EXTENDS GBN, SimulatorProofs

Wire == Packet \cup {Corrupt}

\* Writing A_queue[rear + 1] adds one packet and keeps the others.
LEMMA StoreExtends ==
    ASSUME NEW r \in Nat \cup {-1},
           NEW q \in [0 .. r -> Packet],
           NEW l \in Packet
    PROVE  /\ Store(q, r + 1, l) \in [0 .. r + 1 -> Packet]
           /\ Store(q, r + 1, l)[r + 1] = l
           /\ \A i \in 0 .. r : Store(q, r + 1, l)[i] = q[i]
<1>1. DOMAIN q \cup {r + 1} = 0 .. r + 1
  OBVIOUS
<1> QED
  BY <1>1 DEF Store

\* What the send loops leave in the medium to B was there before, is
\* corrupted, or is one of the packets of the stretch.
LEMMA SendStretch ==
    ASSUME NEW medium \in Seq(Wire),
           NEW r \in Nat \cup {-1},
           NEW q \in [0 .. r -> Packet],
           NEW from \in Nat, NEW to \in Int, to <= r,
           NEW after \in tolayer3(medium, Stretch(q, from, to))
    PROVE  /\ after \in Seq(Wire)
           /\ \A i \in DOMAIN after : after[i] # Corrupt =>
                 \/ \E j \in DOMAIN medium : after[i] = medium[j]
                 \/ \E n \in from .. to : after[i] = q[n]
<1> DEFINE len == IF to < from THEN 0 ELSE to - from + 1
           s == Stretch(q, from, to)
<1>1. len \in Nat /\ \A i \in 1 .. len : from + i - 1 \in from .. to /\ from + i - 1 \in 0 .. r
  OBVIOUS
<1>2. s = [i \in 1 .. len |-> q[from + i - 1]]
  BY DEF Stretch
<1>3. s \in [1 .. len -> Wire]
  BY <1>1, <1>2 DEF Wire
<1>4. s \in Seq(Wire) /\ DOMAIN s = 1 .. len
  BY <1>1, <1>3
<1>5. Corrupt \in Wire
  BY DEF Wire
<1>6. \A j \in DOMAIN s : \E n \in from .. to : s[j] = q[n]
  BY <1>1, <1>2, <1>4
<1> HIDE DEF s, len
<1>7. after \in Seq(Wire) /\ Extends(after, medium, s)
  <2>1. after \in tolayer3(medium, s)
    BY DEF s
  <2>2. s \in Seq(Wire)
    BY <1>4
  <2> QED
    BY <1>5, <2>1, <2>2, TransmitMany
<1>8. ASSUME NEW i \in DOMAIN after, after[i] # Corrupt
      PROVE  \/ \E j \in DOMAIN medium : after[i] = medium[j]
             \/ \E n \in from .. to : after[i] = q[n]
  <2>1. CASE i > Len(medium)
    BY <2>1, <1>6, <1>7, <1>8 DEF Extends
  <2>2. CASE ~(i > Len(medium))
    <3>1. i \in DOMAIN medium
      BY <2>2, <1>7
    <3> QED
      BY <3>1, <1>7 DEF Extends
  <2> QED
    BY <2>1, <2>2
<1> QED
  BY <1>7, <1>8

\* The initial state satisfies the invariant.
LEMMA IInvInit == Init => IInv
<1> SUFFICES ASSUME Init PROVE IInv
  OBVIOUS
<1>1. TypeOK
  <2>1. A_queue \in [0 .. -1 -> Packet]
    <3>1. 0 .. -1 = {}
      OBVIOUS
    <3>2. A_queue \in [{} -> Packet]
      BY Zenon DEF Init, EmptyBuffer
    <3> QED
      BY <3>1, <3>2
  <2>2. toA \in Seq(Wire) /\ toB \in Seq(Wire)
    BY DEF Init, SimInit
  <2>3. SimTypeOK
    <3>1. timer \in BOOLEAN
      BY DEF Init, SimInit
    <3> QED
      BY <3>1, SimulatorAssumption DEF Init, SimInit, SimTypeOK
  <2> QED
    BY <2>1, <2>2, <2>3, WindowAssumption DEF Init, TypeOK, Wire
<1>2. SenderInv
  BY WindowAssumption DEF Init, SimInit, SenderInv, Sendable
<1>3. ReceiverInv
  BY DEF Init, SimInit, ReceiverInv
<1>4. DataInv /\ AckInv
  BY DEF Init, SimInit, DataInv, AckInv
<1> QED
  BY <1>1, <1>2, <1>3, <1>4 DEF IInv

\* The parts of the invariant in the form the remaining proofs use.
LEMMA IInvFacts ==
    ASSUME IInv
    PROVE  /\ rear \in Nat \cup {-1} /\ head \in Nat /\ nextseqnum \in Nat
           /\ nsim \in Nat /\ nsim <= MaxMsgs /\ cur_msg_recv \in Nat /\ expectedseqnum \in Nat
           /\ w_last \in Int /\ window_size \in Nat /\ window_size >= 1
           /\ A_queue \in [0 .. rear -> Packet]
           /\ toA \in Seq(Wire) /\ toB \in Seq(Wire)
           /\ Corrupt \in Wire /\ Corrupt \notin Packet
           /\ nextseqnum <= rear + 1 /\ nextseqnum <= w_last + 1
           /\ nextseqnum = rear + 1 \/ nextseqnum = w_last + 1
           /\ TypeOK /\ SimTypeOK /\ SenderInv /\ ReceiverInv /\ DataInv /\ AckInv
<1>1. TypeOK /\ SimTypeOK /\ SenderInv /\ ReceiverInv /\ DataInv /\ AckInv
  BY DEF IInv, TypeOK
<1>2. /\ rear \in Nat \cup {-1} /\ head \in Nat /\ nextseqnum \in Nat
      /\ nsim \in Nat /\ nsim <= MaxMsgs /\ cur_msg_recv \in Nat /\ expectedseqnum \in Nat
      /\ w_last \in Int /\ window_size \in Nat /\ window_size >= 1
      /\ A_queue \in [0 .. rear -> Packet]
      /\ toA \in Seq(Wire) /\ toB \in Seq(Wire)
      /\ Corrupt \in Wire /\ Corrupt \notin Packet
  BY <1>1, CorruptAssumption, SimulatorAssumption, WindowAssumption DEF TypeOK, SimTypeOK, Wire
<1>3. /\ nextseqnum <= rear + 1 /\ nextseqnum <= w_last + 1
      /\ nextseqnum = rear + 1 \/ nextseqnum = w_last + 1
  BY <1>1, <1>2 DEF SenderInv, Sendable
<1> QED
  BY <1>1, <1>2, <1>3

\* A_output (gbn.c:41-59) preserves the invariant.
LEMMA IInvOutput == IInv /\ A_output => IInv'
<1> SUFFICES ASSUME IInv, A_output PROVE IInv'
  OBVIOUS
<1> DEFINE new == a_Make_Packet(Letter(nsim), rear + 1)
<1>1. /\ rear' = rear + 1 /\ nsim' = nsim + 1 /\ nsim < MaxMsgs
      /\ UNCHANGED <<cur_msg_recv, exitcode, toA, head, w_last, expectedseqnum>>
  BY DEF A_output
<1>2. new \in Packet
  BY SMTT(30), <1>1, IInvFacts, LetterType, SimulatorAssumption
     DEF a_Make_Packet, Packet, SeqNum, SenderInv
<1>3. /\ A_queue' \in [0 .. rear' -> Packet]
      /\ A_queue'[rear + 1] = new
      /\ \A i \in 0 .. rear : A_queue'[i] = A_queue[i]
  <2>1. A_queue' = Store(A_queue, rear + 1, new)
    BY <1>1 DEF A_output
  <2>2. rear \in Nat \cup {-1} /\ A_queue \in [0 .. rear -> Packet]
    BY IInvFacts
  <2> HIDE DEF new
  <2>3. /\ Store(A_queue, rear + 1, new) \in [0 .. rear + 1 -> Packet]
        /\ Store(A_queue, rear + 1, new)[rear + 1] = new
        /\ \A i \in 0 .. rear : Store(A_queue, rear + 1, new)[i] = A_queue[i]
    BY <1>2, <2>2, StoreExtends
  <2> QED
    BY <1>1, <2>1, <2>3
<1>4. \A i \in 0 .. rear' : A_queue'[i] = a_Make_Packet(Letter(i), i)
  <2>1. nsim = rear + 1 /\ \A i \in 0 .. rear : A_queue[i] = a_Make_Packet(Letter(i), i)
    BY IInvFacts DEF SenderInv
  <2>2. rear \in Nat \cup {-1}
    BY IInvFacts
  <2>3. SUFFICES ASSUME NEW i \in 0 .. rear'
                 PROVE  A_queue'[i] = a_Make_Packet(Letter(i), i)
    OBVIOUS
  <2>4. CASE i = rear + 1
    BY <1>3, <2>1, <2>4
  <2>5. CASE i # rear + 1
    <3>1. i \in 0 .. rear
      BY <1>1, <2>2, <2>5
    <3> QED
      BY <1>3, <2>1, <3>1
  <2> QED
    BY <2>4, <2>5
<1>5. ASSUME nextseqnum' \in Nat, toB' \in Seq(Wire), timer' \in BOOLEAN PROVE TypeOK'
  <2>1. SimTypeOK'
    BY SMTT(30), <1>1, <1>5, IInvFacts, SimulatorAssumption DEF SimTypeOK
  <2>2. rear' \in Nat \cup {-1}
    BY <1>1, IInvFacts
  <2> QED
    BY <1>1, <1>3, <1>5, <2>1, <2>2, IInvFacts DEF TypeOK, Wire
<1>6. AckInv'
  BY <1>1, IInvFacts DEF AckInv
<1>7. CASE /\ nextseqnum <= w_last /\ nextseqnum <= rear'
           /\ toB' \in tolayer3(toB, <<A_queue'[nextseqnum]>>)
           /\ timer' = (timer \/ head = nextseqnum)
           /\ nextseqnum' = nextseqnum + 1
  <2>1. nextseqnum = rear + 1
    BY <1>7, IInvFacts
  <2>2. A_queue'[nextseqnum] \in Wire
    BY <1>3, <1>2, <2>1 DEF Wire
  <2>3. /\ toB' \in Seq(Wire)
        /\ toB' \in {toB, Append(toB, A_queue'[nextseqnum]), Append(toB, Corrupt)}
    BY <1>7, <2>2, IInvFacts, TransmitOne
  <2>4. timer' \in BOOLEAN /\ (timer' <=> head' < nextseqnum')
    <3>1. timer' <=> (timer \/ head = nextseqnum)
      BY <1>7
    <3>2. (timer \/ head = nextseqnum) <=> head' < nextseqnum'
      BY SMTT(30), <1>1, <1>7, IInvFacts DEF SenderInv
    <3>3. timer' \in BOOLEAN
      BY <1>7
    <3> QED
      BY <3>1, <3>2, <3>3
  <2>5. SenderInv'
    <3>1. nextseqnum' = Sendable(w_last)' + 1
      BY <1>1, <1>7, <2>1, IInvFacts DEF Sendable
    <3> QED
      BY SMTT(30), <1>1, <1>4, <1>7, <2>4, <3>1, IInvFacts DEF SenderInv
  <2>6. ReceiverInv'
    BY <1>1, <1>7, IInvFacts DEF ReceiverInv
  <2>7. DataInv'
    <3>1. ASSUME NEW i \in DOMAIN toB, toB[i] # Corrupt
          PROVE  /\ toB[i].seqnum \in 0 .. nextseqnum' - 1
                 /\ toB[i] = A_queue'[toB[i].seqnum]
      <4>1. toB[i].seqnum \in 0 .. nextseqnum - 1 /\ toB[i] = A_queue[toB[i].seqnum]
        BY <3>1, IInvFacts DEF DataInv
      <4>2. toB[i].seqnum \in 0 .. rear /\ toB[i].seqnum \in 0 .. nextseqnum' - 1
        <5>1. nextseqnum' = nextseqnum + 1 /\ nextseqnum \in Nat /\ rear \in Int
          BY <1>7, IInvFacts
        <5> QED
          BY <2>1, <4>1, <5>1
      <4> QED
        BY <1>3, <4>1, <4>2
    <3>2. /\ A_queue'[nextseqnum].seqnum = nextseqnum
          /\ nextseqnum \in 0 .. nextseqnum' - 1
      BY <1>3, <1>7, <2>1, IInvFacts DEF a_Make_Packet
    <3>3. CASE toB' = toB
      BY <3>1, <3>3 DEF DataInv
    <3>4. toB \in Seq(Wire) /\ Corrupt \in Wire
      BY IInvFacts
    <3>5. CASE toB' = Append(toB, A_queue'[nextseqnum])
      <4>1. \A i \in DOMAIN toB' :
                (i \in DOMAIN toB /\ toB'[i] = toB[i]) \/ toB'[i] = A_queue'[nextseqnum]
        BY <2>2, <3>4, <3>5, AppendFacts
      <4> QED
        BY <3>1, <3>2, <4>1 DEF DataInv
    <3>6. CASE toB' = Append(toB, Corrupt)
      <4>1. \A i \in DOMAIN toB' :
                (i \in DOMAIN toB /\ toB'[i] = toB[i]) \/ toB'[i] = Corrupt
        BY <3>4, <3>6, AppendFacts
      <4> QED
        BY <3>1, <4>1 DEF DataInv
    <3> QED
      BY <2>3, <3>3, <3>5, <3>6
  <2>8. TypeOK'
    BY SMTT(30), <1>5, <1>7, <2>3, <2>4, IInvFacts
  <2> QED
    BY <1>6, <2>5, <2>6, <2>7, <2>8 DEF IInv
<1>8. CASE /\ ~(nextseqnum <= w_last /\ nextseqnum <= rear')
           /\ UNCHANGED <<toB, timer, nextseqnum>>
  <2>1. TypeOK'
    BY <1>5, <1>8, IInvFacts DEF SimTypeOK
  <2>2. nextseqnum = w_last + 1
    BY <1>1, <1>8, IInvFacts
  <2>3. SenderInv'
    <3>1. nextseqnum' = Sendable(w_last)' + 1
      BY <1>1, <1>8, <2>2, IInvFacts DEF Sendable
    <3> QED
      BY <1>1, <1>4, <1>8, <3>1, IInvFacts DEF SenderInv
  <2>4. ReceiverInv'
    BY <1>1, <1>8, IInvFacts DEF ReceiverInv
  <2>5. DataInv'
    <3>1. \A i \in DOMAIN toB : toB[i] # Corrupt =>
              toB[i].seqnum \in 0 .. nextseqnum - 1 /\ toB[i] = A_queue[toB[i].seqnum]
      BY IInvFacts DEF DataInv
    <3>2. \A n \in 0 .. nextseqnum - 1 : A_queue'[n] = A_queue[n]
      <4>1. nextseqnum \in Nat /\ rear \in Int /\ nextseqnum <= rear + 1
        BY IInvFacts
      <4> QED
        BY <1>3, <4>1
    <3>3. toB' = toB /\ nextseqnum' = nextseqnum
      BY <1>8
    <3> QED
      BY <3>1, <3>2, <3>3 DEF DataInv
  <2> QED
    BY <1>6, <2>1, <2>3, <2>4, <2>5 DEF IInv
<1> QED
  BY <1>7, <1>8 DEF A_output

\* Sending a stretch of the queue keeps DataInv: what is in the medium
\* afterwards is in the queue, below the next packet to send.
LEMMA SendKeepsData ==
    ASSUME IInv,
           NEW from \in Nat, NEW to \in Int, to <= rear,
           NEW next \in Nat, nextseqnum <= next, to < next,
           NEW after \in tolayer3(toB, Stretch(A_queue, from, to))
    PROVE  /\ after \in Seq(Wire)
           /\ \A i \in DOMAIN after : after[i] # Corrupt =>
                 /\ after[i].seqnum \in 0 .. next - 1
                 /\ after[i] = A_queue[after[i].seqnum]
<1>1. rear \in Nat \cup {-1} /\ A_queue \in [0 .. rear -> Packet] /\ toB \in Seq(Wire)
  BY IInvFacts
<1>2. /\ after \in Seq(Wire)
      /\ \A i \in DOMAIN after : after[i] # Corrupt =>
            \/ \E j \in DOMAIN toB : after[i] = toB[j]
            \/ \E n \in from .. to : after[i] = A_queue[n]
  BY SMTT(30), <1>1, SendStretch
<1>3. SUFFICES ASSUME NEW i \in DOMAIN after, after[i] # Corrupt
               PROVE  /\ after[i].seqnum \in 0 .. next - 1
                      /\ after[i] = A_queue[after[i].seqnum]
  BY <1>2
<1>4. CASE \E j \in DOMAIN toB : after[i] = toB[j]
  <2>1. /\ after[i].seqnum \in 0 .. nextseqnum - 1
        /\ after[i] = A_queue[after[i].seqnum]
    BY <1>3, <1>4, IInvFacts DEF DataInv
  <2>2. nextseqnum \in Nat
    BY IInvFacts
  <2> QED
    BY <2>1, <2>2
<1>5. CASE \E n \in from .. to : after[i] = A_queue[n]
  <2>1. PICK n \in from .. to : after[i] = A_queue[n]
    BY <1>5
  <2>2. n \in 0 .. rear /\ n \in 0 .. next - 1
    BY <1>1
  <2>3. A_queue[n].seqnum = n
    BY <2>2, IInvFacts DEF SenderInv, a_Make_Packet
  <2> QED
    BY <2>1, <2>2, <2>3
<1> QED
  BY <1>2, <1>3, <1>4, <1>5

\* A_timerinterrupt (gbn.c:107-121) preserves the invariant.
LEMMA IInvTimer == IInv /\ A_timerinterrupt => IInv'
<1> SUFFICES ASSUME IInv, A_timerinterrupt PROVE IInv'
  OBVIOUS
<1>1. /\ UNCHANGED <<nsim, cur_msg_recv, exitcode, toA, expectedseqnum>>
      /\ UNCHANGED <<A_queue, head, nextseqnum, rear, w_last>>
      /\ timer /\ timer' = TRUE
  BY DEF A_timerinterrupt, aVars
<1>2. /\ toB' \in Seq(Wire)
      /\ \A i \in DOMAIN toB' : toB'[i] # Corrupt =>
            /\ toB'[i].seqnum \in 0 .. nextseqnum - 1
            /\ toB'[i] = A_queue[toB'[i].seqnum]
  <2>1. /\ head \in Nat /\ nextseqnum \in Nat /\ nextseqnum - 1 \in Int
        /\ nextseqnum - 1 <= rear /\ nextseqnum <= nextseqnum /\ nextseqnum - 1 < nextseqnum
    BY IInvFacts
  <2>2. toB' \in tolayer3(toB, Stretch(A_queue, head, nextseqnum - 1))
    BY DEF A_timerinterrupt
  <2> QED
    BY <2>1, <2>2, SendKeepsData
<1>3. TypeOK'
  BY <1>1, <1>2, IInvFacts DEF TypeOK, SimTypeOK, Wire
<1>4. SenderInv'
  BY <1>1, IInvFacts DEF SenderInv, Sendable
<1>5. ReceiverInv' /\ AckInv'
  BY <1>1, IInvFacts DEF ReceiverInv, AckInv
<1>6. DataInv'
  BY <1>1, <1>2 DEF DataInv
<1> QED
  BY <1>3, <1>4, <1>5, <1>6 DEF IInv

\* A_input (gbn.c:62-104) preserves the invariant.
LEMMA IInvAck == IInv /\ A_input => IInv'
<1> SUFFICES ASSUME IInv, A_input PROVE IInv'
  OBVIOUS
<1>1. /\ toA # <<>> /\ toA' = Tail(toA) /\ toA' \in Seq(Wire)
      /\ Head(toA) = toA[1] /\ toA[1] \in Wire /\ 1 \in DOMAIN toA
      /\ \A i \in DOMAIN toA' : i + 1 \in DOMAIN toA /\ toA'[i] = toA[i + 1] /\ 1 < i + 1
  <2>1. toA # <<>> /\ toA' = Tail(toA) /\ toA \in Seq(Wire)
    BY IInvFacts DEF A_input
  <2>2. \A i \in DOMAIN Tail(toA) : 1 < i + 1
    BY <2>1
  <2> QED
    BY <2>1, <2>2, TailFacts
<1>2. UNCHANGED <<nsim, cur_msg_recv, exitcode, A_queue, rear, expectedseqnum>>
  BY DEF A_input
<1>3. \A i, j \in DOMAIN toA' : i < j /\ toA'[i] # Corrupt /\ toA'[j] # Corrupt =>
          toA'[i].acknum <= toA'[j].acknum
  <2>1. \A i, j \in DOMAIN toA : i < j /\ toA[i] # Corrupt /\ toA[j] # Corrupt =>
            toA[i].acknum <= toA[j].acknum
    BY IInvFacts DEF AckInv
  <2>2. SUFFICES ASSUME NEW i \in DOMAIN toA', NEW j \in DOMAIN toA', i < j,
                        toA'[i] # Corrupt, toA'[j] # Corrupt
                 PROVE  toA'[i].acknum <= toA'[j].acknum
    OBVIOUS
  <2>3. /\ i + 1 \in DOMAIN toA /\ toA'[i] = toA[i + 1]
        /\ j + 1 \in DOMAIN toA /\ toA'[j] = toA[j + 1]
    BY <1>1
  <2>4. i + 1 < j + 1
    <3>1. i \in Nat /\ j \in Nat
      BY <1>1
    <3> QED
      BY <2>2, <3>1
  <2> QED
    BY <2>1, <2>2, <2>3, <2>4
<1>4. CASE ~Intact(toA)
  <2>1. UNCHANGED <<head, w_last, timer, toB, nextseqnum>>
    BY <1>4 DEF A_input
  <2>2. TypeOK' /\ SenderInv' /\ ReceiverInv' /\ DataInv'
    BY <2>1, <1>1, <1>2, IInvFacts
       DEF TypeOK, SimTypeOK, SenderInv, Sendable, ReceiverInv, DataInv, Wire
  <2>3. AckInv'
    <3>1. \A i \in DOMAIN toA' : toA'[i] # Corrupt =>
              head - 1 <= toA'[i].acknum /\ toA'[i].acknum <= expectedseqnum - 1
      BY <1>1, IInvFacts DEF AckInv
    <3> QED
      BY <1>2, <1>3, <2>1, <3>1 DEF AckInv
  <2> QED
    BY <2>2, <2>3 DEF IInv
<1>5. CASE Intact(toA)
  <2> DEFINE last == head' + window_size - 1
             s == Sendable(last)
  <2>1. /\ head' = toA[1].acknum + 1
        /\ w_last' = last
        /\ A_allAcked \/ A_someAcked
    BY <1>1, <1>5 DEF A_input, AckedUpTo
  <2>2. toA[1] # Corrupt
    BY <1>1, <1>5 DEF Intact
  <2>3. head <= head' /\ head' <= expectedseqnum /\ head' <= nextseqnum /\ head' \in Nat
    <3>1. head - 1 <= toA[1].acknum /\ toA[1].acknum <= expectedseqnum - 1
      BY <1>1, <2>2, IInvFacts DEF AckInv
    <3>2. toA[1].acknum \in Int
      BY <1>1, <2>2, SimulatorAssumption DEF Wire, Packet, SeqNum
    <3>3. expectedseqnum <= nextseqnum
      BY IInvFacts DEF ReceiverInv
    <3>4. head \in Nat /\ expectedseqnum \in Nat /\ nextseqnum \in Nat
      BY IInvFacts
    <3> QED
      BY <2>1, <3>1, <3>2, <3>3, <3>4
  <2>4. /\ s \in Int /\ s <= rear /\ nextseqnum <= s + 1
        /\ (IF nextseqnum <= s THEN s + 1 ELSE nextseqnum) = s + 1
        /\ head' <= s + 1
        /\ (head' = nextseqnum /\ nextseqnum <= rear) => head' < s + 1
        /\ (head' = nextseqnum /\ ~(nextseqnum <= rear)) => s + 1 = nextseqnum
    <3>1. /\ head \in Nat /\ nextseqnum \in Nat /\ rear \in Int
          /\ window_size \in Nat /\ window_size >= 1
          /\ nextseqnum <= rear + 1 /\ nextseqnum <= head + window_size
          /\ nextseqnum = rear + 1 \/ nextseqnum = head + window_size
      BY IInvFacts DEF SenderInv
    <3>2. s = IF head' + window_size - 1 <= rear THEN head' + window_size - 1 ELSE rear
      BY DEF Sendable
    <3> HIDE DEF s, last
    <3>3. CASE head' + window_size - 1 <= rear
      <4>1. s = head' + window_size - 1
        BY <3>2, <3>3
      <4>2. s \in Int /\ s <= rear /\ nextseqnum <= s + 1 /\ head' < s + 1
        <5>1. \A h, hh, n, w \in Nat : h <= hh /\ n <= h + w /\ w >= 1 =>
                  /\ hh + w - 1 \in Int
                  /\ n <= (hh + w - 1) + 1
                  /\ hh < (hh + w - 1) + 1
          OBVIOUS
        <5>2. head \in Nat /\ head' \in Nat /\ nextseqnum \in Nat /\ window_size \in Nat
              /\ head <= head' /\ nextseqnum <= head + window_size /\ window_size >= 1
          BY <2>3, <3>1
        <5> QED
          BY <3>3, <4>1, <5>1, <5>2
      <4>3. (IF nextseqnum <= s THEN s + 1 ELSE nextseqnum) = s + 1
        BY <3>1, <4>2
      <4> QED
        BY <2>3, <3>1, <4>2, <4>3
    <3>4. CASE ~(head' + window_size - 1 <= rear)
      <4>1. s = rear
        BY <3>2, <3>4
      <4>2. rear \in Int /\ nextseqnum \in Nat /\ head' \in Nat
            /\ nextseqnum <= rear + 1 /\ head' <= nextseqnum
        BY <2>3, <3>1
      <4>3. (IF nextseqnum <= rear THEN rear + 1 ELSE nextseqnum) = rear + 1
        BY <4>2
      <4> QED
        BY <4>1, <4>2, <4>3
    <3> QED
      BY <3>3, <3>4
  <2>5. AckInv'
    <3>1. \A i \in DOMAIN toA' : toA'[i] # Corrupt =>
              toA[1].acknum <= toA'[i].acknum /\ toA'[i].acknum <= expectedseqnum - 1
      BY <1>1, <2>2, IInvFacts DEF AckInv
    <3>2. toA[1].acknum \in Int
      BY <1>1, <2>2, SimulatorAssumption DEF Wire, Packet, SeqNum
    <3>3. head' - 1 = toA[1].acknum
      BY <2>1, <3>2
    <3> QED
      BY <1>2, <1>3, <3>1, <3>3 DEF AckInv
  <2>6. /\ nextseqnum' = s + 1
        /\ timer' \in BOOLEAN /\ (timer' <=> head' < s + 1)
        /\ toB' \in Seq(Wire)
        /\ \A i \in DOMAIN toB' : toB'[i] # Corrupt =>
              /\ toB'[i].seqnum \in 0 .. s
              /\ toB'[i] = A_queue[toB'[i].seqnum]
    <3>1. ASSUME SendWindow(w_last')
          PROVE  /\ nextseqnum' = s + 1
                 /\ toB' \in Seq(Wire)
                 /\ \A i \in DOMAIN toB' : toB'[i] # Corrupt =>
                       /\ toB'[i].seqnum \in 0 .. s
                       /\ toB'[i] = A_queue[toB'[i].seqnum]
      <4>1. /\ toB' \in tolayer3(toB, Stretch(A_queue, nextseqnum, s))
            /\ nextseqnum' = IF nextseqnum <= s THEN s + 1 ELSE nextseqnum
        BY <2>1, <3>1 DEF SendWindow
      <4> HIDE DEF s, last
      <4>2. s + 1 \in Nat /\ s < s + 1 /\ (s + 1) - 1 = s /\ nextseqnum \in Nat
        BY <2>4, IInvFacts
      <4>3. /\ toB' \in Seq(Wire)
            /\ \A i \in DOMAIN toB' : toB'[i] # Corrupt =>
                  /\ toB'[i].seqnum \in 0 .. (s + 1) - 1
                  /\ toB'[i] = A_queue[toB'[i].seqnum]
        BY <2>4, <4>1, <4>2, SendKeepsData
      <4> QED
        BY <2>4, <4>1, <4>2, <4>3
    <3>2. CASE A_someAcked
      <4>1. SendWindow(w_last') /\ timer' = TRUE /\ head' # nextseqnum
        BY <3>2 DEF A_someAcked
      <4> HIDE DEF s, last
      <4>2. head' < s + 1
        BY <2>3, <2>4, <4>1, IInvFacts
      <4> QED
        BY <3>1, <4>1, <4>2
    <3>3. CASE A_allAcked /\ nextseqnum <= rear
      <4>1. SendWindow(w_last') /\ timer' = TRUE /\ head' = nextseqnum
        BY <3>3 DEF A_allAcked
      <4> HIDE DEF s, last
      <4>2. head' < s + 1
        BY <2>4, <3>3, <4>1
      <4> QED
        BY <3>1, <4>1, <4>2
    <3>4. CASE A_allAcked /\ ~(nextseqnum <= rear)
      <4>1. UNCHANGED <<toB, nextseqnum>> /\ timer' = FALSE /\ head' = nextseqnum
        BY <3>4 DEF A_allAcked
      <4> HIDE DEF s, last
      <4>2. s + 1 = nextseqnum /\ ~(head' < s + 1)
        BY <2>3, <2>4, <3>4, <4>1
      <4>3. s = nextseqnum - 1
        BY <2>4, <4>2, IInvFacts
      <4> QED
        BY <4>1, <4>2, <4>3, IInvFacts DEF DataInv
    <3> QED
      BY <2>1, <3>2, <3>3, <3>4
  <2>7. SenderInv'
    <3>1. Sendable(w_last)' = s
      BY <1>2, <2>1 DEF Sendable
    <3> HIDE DEF s
    <3>2. /\ nsim = rear + 1
          /\ \A i \in 0 .. rear : A_queue[i] = a_Make_Packet(Letter(i), i)
      BY IInvFacts DEF SenderInv
    <3> QED
      BY <1>2, <2>1, <2>4, <2>6, <3>1, <3>2 DEF SenderInv
  <2> HIDE DEF s
  <2>8. nextseqnum' \in Nat /\ nextseqnum <= nextseqnum' /\ nextseqnum' - 1 = s
    BY <2>4, <2>6, IInvFacts
  <2>9. TypeOK'
    <3>1. w_last' \in Int
      BY <2>1, <2>3, IInvFacts
    <3> QED
      BY <1>1, <1>2, <2>3, <2>6, <2>8, <3>1, IInvFacts DEF TypeOK, SimTypeOK, Wire
  <2>10. ReceiverInv'
    <3>1. expectedseqnum <= nextseqnum /\ exitcode = 0 /\ cur_msg_recv = expectedseqnum
      BY IInvFacts DEF ReceiverInv
    <3> QED
      BY <1>2, <2>3, <2>8, <3>1, IInvFacts DEF ReceiverInv
  <2>11. DataInv'
    BY <1>2, <2>6, <2>8 DEF DataInv
  <2> QED
    BY <2>5, <2>7, <2>9, <2>10, <2>11 DEF IInv
<1> QED
  BY <1>4, <1>5

\* An acknowledgement of n behind the others keeps AckInv when the receiver
\* has delivered exactly the packets up to n.
LEMMA AckAppended ==
    ASSUME IInv,
           NEW n \in SeqNum, n = expectedseqnum' - 1,
           expectedseqnum <= expectedseqnum', expectedseqnum' \in Nat, head' = head,
           toA' \in tolayer3(toA, <<b_Make_Packet(n)>>)
    PROVE  toA' \in Seq(Wire) /\ AckInv'
<1> DEFINE ack == b_Make_Packet(n)
<1>1. ack \in Packet /\ ack \in Wire /\ ack.acknum = n
  BY DEF b_Make_Packet, Packet, Wire
<1> HIDE DEF ack
<1>2. toA' \in Seq(Wire) /\ toA' \in {toA, Append(toA, ack), Append(toA, Corrupt)}
  <2>1. toA' \in tolayer3(toA, <<ack>>) /\ toA \in Seq(Wire) /\ Corrupt \in Wire
    BY IInvFacts DEF ack
  <2> QED
    BY <1>1, <2>1, TransmitOne
<1>3. \A i \in DOMAIN toA : toA[i] # Corrupt =>
          /\ toA[i].acknum \in Int
          /\ head - 1 <= toA[i].acknum /\ toA[i].acknum <= expectedseqnum - 1
  BY SMTT(30), IInvFacts, SimulatorAssumption DEF AckInv, Wire, Packet, SeqNum
<1>4. /\ head \in Nat /\ expectedseqnum \in Nat /\ head <= expectedseqnum
      /\ n \in Int /\ toA \in Seq(Wire)
  BY IInvFacts, SimulatorAssumption DEF ReceiverInv, SeqNum
<1>5. \A i \in DOMAIN toA : toA[i] # Corrupt =>
          head - 1 <= toA[i].acknum /\ toA[i].acknum <= n
  BY <1>3, <1>4
<1>6. head - 1 <= n
  <2>1. \A h, e, f \in Nat : h <= e /\ e <= f => h - 1 <= f - 1
    OBVIOUS
  <2> QED
    BY <1>4, <2>1
<1>7. \A i, j \in DOMAIN toA : i < j /\ toA[i] # Corrupt /\ toA[j] # Corrupt =>
          toA[i].acknum <= toA[j].acknum
  BY IInvFacts DEF AckInv
<1>8. CASE toA' = toA
  BY <1>2, <1>5, <1>7, <1>8 DEF AckInv
<1>9. ASSUME NEW e \in Wire, toA' = Append(toA, e), e = ack \/ e = Corrupt
      PROVE  AckInv'
  <2>1. /\ \A i \in DOMAIN toA' : (i \in DOMAIN toA /\ toA'[i] = toA[i]) \/ toA'[i] = e
        /\ \A i, j \in DOMAIN toA' : i < j => i \in DOMAIN toA /\ toA'[i] = toA[i]
    BY <1>4, <1>9, AppendFacts
  <2>2. \A i \in DOMAIN toA' : toA'[i] # Corrupt =>
            head - 1 <= toA'[i].acknum /\ toA'[i].acknum <= n
    <3>1. \A m \in Int : m <= m
      OBVIOUS
    <3>2. n <= n
      BY ONLY <1>4, <3>1
    <3> QED
      BY <1>1, <1>5, <1>6, <1>9, <2>1, <3>2
  <2>3. \A i, j \in DOMAIN toA' : i < j /\ toA'[i] # Corrupt /\ toA'[j] # Corrupt =>
            toA'[i].acknum <= toA'[j].acknum
    <3>1. SUFFICES ASSUME NEW i \in DOMAIN toA', NEW j \in DOMAIN toA', i < j,
                          toA'[i] # Corrupt, toA'[j] # Corrupt
                   PROVE  toA'[i].acknum <= toA'[j].acknum
      OBVIOUS
    <3>2. i \in DOMAIN toA /\ toA'[i] = toA[i]
      BY <2>1, <3>1
    <3>3. CASE j \in DOMAIN toA /\ toA'[j] = toA[j]
      BY <1>7, <3>1, <3>2, <3>3
    <3>4. CASE toA'[j] = e
      <4>1. toA'[j].acknum = n /\ toA[i].acknum <= n
        BY <1>1, <1>5, <1>9, <3>1, <3>2, <3>4
      <4> QED
        BY <3>2, <4>1
    <3> QED
      BY <2>1, <3>3, <3>4
  <2> QED
    BY <2>2, <2>3 DEF AckInv
<1> QED
  BY <1>1, <1>2, <1>8, <1>9, IInvFacts

\* B_input (gbn.c:136-161) preserves the invariant.
LEMMA IInvData == IInv /\ B_input => IInv'
<1> SUFFICES ASSUME IInv, B_input PROVE IInv'
  OBVIOUS
<1> DEFINE p == Head(toB)
<1>1. /\ toB # <<>> /\ toB' = Tail(toB) /\ toB' \in Seq(Wire)
      /\ p \in Wire /\ p = toB[1] /\ 1 \in DOMAIN toB
      /\ \A i \in DOMAIN toB' : i + 1 \in DOMAIN toB /\ toB'[i] = toB[i + 1]
  <2>1. toB # <<>> /\ toB' = Tail(toB) /\ toB \in Seq(Wire)
    BY IInvFacts DEF B_input
  <2> QED
    BY <2>1, TailFacts
<1>2. UNCHANGED <<nsim, timer, A_queue, head, nextseqnum, rear, w_last>>
  BY DEF B_input, aVars
<1>3. SenderInv'
  BY <1>2, IInvFacts DEF SenderInv, Sendable
<1>4. DataInv'
  BY <1>1, <1>2, IInvFacts DEF DataInv
<1>5. expectedseqnum \in 0 .. MaxMsgs /\ expectedseqnum - 1 \in SeqNum /\ expectedseqnum \in SeqNum
  BY SMTT(30), IInvFacts, SimulatorAssumption DEF ReceiverInv, SenderInv, SeqNum
<1>6. ASSUME toA' \in Seq(Wire), expectedseqnum' \in Nat, cur_msg_recv' \in Nat, exitcode' = exitcode
      PROVE  TypeOK'
  BY <1>1, <1>2, <1>6, IInvFacts DEF TypeOK, SimTypeOK, Wire
<1>7. CASE Intact(toB) /\ Expected(p) /\ B_accept
  <2>1. /\ p # Corrupt /\ p.seqnum = expectedseqnum
        /\ toA' \in tolayer3(toA, <<b_Make_Packet(expectedseqnum)>>)
        /\ expectedseqnum' = expectedseqnum + 1
        /\ tolayer5(<<p.payload>>)
    BY <1>7 DEF Intact, Expected, B_accept
  <2>2. expectedseqnum \in 0 .. nextseqnum - 1 /\ p = A_queue[expectedseqnum]
    BY <1>1, <2>1, IInvFacts DEF DataInv
  <2>3. expectedseqnum \in 0 .. rear
    BY SMTT(30), <2>2, IInvFacts
  <2>4. p.payload = Letter(cur_msg_recv) /\ cur_msg_recv < nsim
    BY <2>2, <2>3, IInvFacts DEF SenderInv, ReceiverInv, a_Make_Packet
  <2>5. cur_msg_recv' = cur_msg_recv + 1 /\ exitcode' = exitcode
    <3>1. cur_msg_recv \in Nat /\ nsim \in Nat
      BY IInvFacts
    <3> QED
      BY <2>1, <2>4, <3>1, AcceptOne
  <2>6. toA' \in Seq(Wire) /\ AckInv'
    <3>1. /\ expectedseqnum = expectedseqnum' - 1 /\ expectedseqnum <= expectedseqnum'
          /\ expectedseqnum' \in Nat /\ head' = head
      BY <1>2, <1>5, <2>1
    <3> QED
      BY <1>5, <2>1, <3>1, AckAppended
  <2>7. TypeOK'
    <3>1. expectedseqnum' \in Nat /\ cur_msg_recv' \in Nat
      <4>1. expectedseqnum \in Nat /\ cur_msg_recv \in Nat
        BY IInvFacts
      <4> QED
        BY <2>1, <2>5, <4>1
    <3> QED
      BY <1>6, <2>5, <2>6, <3>1
  <2>8. ReceiverInv'
    BY SMTT(30), <1>2, <2>1, <2>2, <2>5, IInvFacts DEF ReceiverInv
  <2> QED
    BY <1>3, <1>4, <2>6, <2>7, <2>8 DEF IInv
<1>8. CASE Intact(toB) /\ ~Expected(p) /\ B_reack
  <2>1. /\ UNCHANGED <<cur_msg_recv, exitcode, expectedseqnum>>
        /\ toA' \in tolayer3(toA, <<b_Make_Packet(expectedseqnum - 1)>>)
    BY <1>8 DEF B_reack
  <2>2. toA' \in Seq(Wire) /\ AckInv'
    <3>1. /\ expectedseqnum - 1 = expectedseqnum' - 1 /\ expectedseqnum <= expectedseqnum'
          /\ expectedseqnum' \in Nat /\ head' = head
      BY <1>2, <1>5, <2>1
    <3> QED
      BY <1>5, <2>1, <3>1, AckAppended
  <2>3. TypeOK'
    BY <1>6, <2>1, <2>2, IInvFacts
  <2>4. ReceiverInv'
    BY <1>2, <2>1, IInvFacts DEF ReceiverInv
  <2> QED
    BY <1>3, <1>4, <2>2, <2>3, <2>4 DEF IInv
<1>9. CASE ~Intact(toB) /\ UNCHANGED <<toA, cur_msg_recv, exitcode, expectedseqnum>>
  <2>1. TypeOK'
    BY <1>6, <1>9, IInvFacts
  <2>2. ReceiverInv' /\ AckInv'
    BY <1>2, <1>9, IInvFacts DEF ReceiverInv, AckInv
  <2> QED
    BY <1>3, <1>4, <2>1, <2>2 DEF IInv
<1> QED
  BY <1>7, <1>8, <1>9 DEF B_input

-----------------------------------------------------------------------------
(* Theorems *)

\* The invariant holds in every reachable state, for any window size, number
\* of messages and capacity of the medium.
THEOREM Invariance == Spec => []IInv
<1>1. Init => IInv
  BY IInvInit
<1>2. IInv /\ [Next]_vars => IInv'
  <2> SUFFICES ASSUME IInv, [Next]_vars PROVE IInv'
    OBVIOUS
  <2>1. CASE UNCHANGED vars
    BY <2>1 DEF vars, simVars, aVars, IInv, TypeOK, SimTypeOK, SenderInv, Sendable,
                ReceiverInv, DataInv, AckInv
  <2>2. CASE Next
    BY <2>2, IInvOutput, IInvAck, IInvTimer, IInvData DEF Next
  <2> QED
    BY <2>1, <2>2
<1> QED
  BY <1>1, <1>2, PTL DEF Spec

\* The variables keep their types.
THEOREM TypeCorrect == Spec => []TypeOK
<1>1. IInv => TypeOK
  BY DEF IInv
<1> QED
  BY <1>1, Invariance, PTL

\* The window never passes a packet the receiver has not delivered, and
\* never grows beyond window_size.
THEOREM HeadTracks == Spec => []HeadTracksReceiver
<1>1. IInv => HeadTracksReceiver
  <2> SUFFICES ASSUME IInv PROVE HeadTracksReceiver
    OBVIOUS
  <2>1. nextseqnum <= head + window_size
    BY IInvFacts DEF SenderInv
  <2> QED
    BY <2>1, IInvFacts DEF ReceiverInv, HeadTracksReceiver
<1> QED
  BY <1>1, Invariance, PTL

\* No packet the window has room for is held back.
THEOREM WorkConserving == Spec => []NothingHeldBack
<1>1. IInv => NothingHeldBack
  BY IInvFacts DEF NothingHeldBack
<1> QED
  BY <1>1, Invariance, PTL

\* With an empty event list nothing offered is undelivered.
THEOREM Covered == Spec => []NoSilentStall
<1>1. IInv => NoSilentStall
  <2> SUFFICES ASSUME IInv, ~timer PROVE cur_msg_recv = nsim /\ head = nsim
    BY DEF NoSilentStall
  <2>1. head = nextseqnum
    BY IInvFacts DEF SenderInv
  <2>2. nextseqnum # w_last + 1
    BY <2>1, IInvFacts DEF SenderInv
  <2> QED
    BY <2>1, <2>2, IInvFacts DEF SenderInv, ReceiverInv
<1> QED
  BY <1>1, Invariance, PTL

\* A_input assigns head from any acknowledgement, and never moves it back.
THEOREM Monotone == Spec => HeadMonotone
<1>1. IInv /\ [Next]_vars => [head' >= head]_vars
  <2> SUFFICES ASSUME IInv, Next PROVE head' >= head
    OBVIOUS
  <2>1. CASE A_output
    BY <2>1, IInvFacts DEF A_output
  <2>2. CASE A_timerinterrupt
    BY <2>2, IInvFacts DEF A_timerinterrupt, aVars
  <2>3. CASE B_input
    BY <2>3, IInvFacts DEF B_input, aVars
  <2>4. CASE A_input
    <3>1. CASE ~Intact(toA)
      BY <2>4, <3>1, IInvFacts DEF A_input
    <3>2. CASE Intact(toA)
      <4>1. head' = toA[1].acknum + 1 /\ 1 \in DOMAIN toA /\ toA[1] # Corrupt /\ toA[1] \in Wire
        <5>1. toA # <<>> /\ toA \in Seq(Wire)
          BY <2>4, IInvFacts DEF A_input
        <5>2. Head(toA) = toA[1] /\ 1 \in DOMAIN toA /\ toA[1] \in Wire
          BY <5>1
        <5> QED
          BY <2>4, <3>2, <5>2 DEF A_input, AckedUpTo, Intact
      <4>2. head - 1 <= toA[1].acknum /\ toA[1].acknum \in Int /\ head \in Nat
        BY <4>1, IInvFacts, SimulatorAssumption DEF AckInv, Wire, Packet, SeqNum
      <4> QED
        BY <4>1, <4>2
    <3> QED
      BY <3>1, <3>2
  <2> QED
    BY <2>1, <2>2, <2>3, <2>4 DEF Next
<1> QED
  BY <1>1, Invariance, PTL DEF Spec, HeadMonotone

\* One event of the protocol is at most one step of the abstract delivery.
LEMMA StepRefines == IInv /\ IInv' /\ [Next]_vars => [D!Next]_D!vars
<1> SUFFICES ASSUME IInv, IInv', [Next]_vars PROVE D!Next \/ UNCHANGED D!vars
  OBVIOUS
<1>1. exitcode = 0 /\ exitcode' = 0
  BY IInvFacts DEF IInv, ReceiverInv
<1>2. nsim \in Nat /\ cur_msg_recv \in Nat
  BY IInvFacts
<1>3. CASE UNCHANGED vars
  BY <1>3 DEF vars, simVars, D!vars
<1>4. CASE A_output
  BY <1>4 DEF A_output, D!Next, D!Offer
<1>5. CASE A_input
  BY <1>5 DEF A_input, D!vars
<1>6. CASE A_timerinterrupt
  BY <1>6 DEF A_timerinterrupt, D!vars
<1>7. CASE B_input
  <2>1. nsim' = nsim
    BY <1>7 DEF B_input
  <2>2. CASE cur_msg_recv' = cur_msg_recv
    BY <1>1, <2>1, <2>2 DEF D!vars
  <2>3. CASE cur_msg_recv' # cur_msg_recv
    <3>1. cur_msg_recv' = cur_msg_recv + 1
      <4>1. B_accept
        BY <1>7, <2>3 DEF B_input, B_reack
      <4>2. cur_msg_recv = expectedseqnum /\ cur_msg_recv' = expectedseqnum'
        BY IInvFacts DEF IInv, ReceiverInv
      <4> QED
        BY <4>1, <4>2 DEF B_accept
    <3>2. cur_msg_recv' <= nsim'
      <4>1. cur_msg_recv' = expectedseqnum' /\ expectedseqnum' <= nextseqnum'
        BY DEF IInv, ReceiverInv
      <4>2. nextseqnum' = nextseqnum
        BY <1>7 DEF B_input, aVars
      <4>3. nextseqnum <= nsim /\ nextseqnum \in Nat
        BY IInvFacts DEF SenderInv
      <4> QED
        BY <1>2, <2>1, <3>1, <4>1, <4>2, <4>3
    <3> QED
      BY <1>1, <1>2, <2>1, <3>1, <3>2 DEF D!Next, D!Deliver
  <2> QED
    BY <2>2, <2>3
<1> QED
  BY <1>3, <1>4, <1>5, <1>6, <1>7 DEF Next

\* Go-back-N is a reliable transport: tolayer5 accepts every message once,
\* in the order offered, and never exits.
THEOREM Refinement == Spec => ImplementsDelivery
<1>1. Init => D!Init
  BY DEF Init, SimInit, D!Init
<1> QED
  BY <1>1, StepRefines, Invariance, PTL DEF Spec, ImplementsDelivery, D!Spec
=============================================================================
