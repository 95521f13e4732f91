------------------------------ MODULE ABTProofs ------------------------------
(***************************************************************************)
(* IInv of module ABT is inductive; what it implies.                       *)
(***************************************************************************)
EXTENDS ABT, SimulatorProofs

Wire == Packet \cup {Corrupt}

\* Writing A_queue[rear + 1] adds one message and keeps the others.
LEMMA StoreExtends ==
    ASSUME NEW r \in Nat \cup {-1},
           NEW q \in [0 .. r -> Letters],
           NEW l \in Letters
    PROVE  /\ Store(q, r + 1, l) \in [0 .. r + 1 -> Letters]
           /\ Store(q, r + 1, l)[r + 1] = l
           /\ \A i \in 0 .. r : Store(q, r + 1, l)[i] = q[i]
<1>1. DOMAIN q \cup {r + 1} = 0 .. r + 1
  OBVIOUS
<1> QED
  BY <1>1 DEF Store

\* The two makers build packets.
LEMMA MakerTypes ==
    /\ \A r \in Nat \cup {-1} : \A q \in [0 .. r -> Letters] : \A i \in 0 .. r :
          a_Make_Packet(q, i) \in Packet
    /\ \A bit \in Nat : b_Make_Packet(bit) \in Packet
BY DEF a_Make_Packet, b_Make_Packet, Packet, Bit, Letters, NoPayload

\* The bit alternates with the index.
LEMMA ParityAlternates ==
    \A n \in Nat : n % 2 \in Bit /\ (n + 1) % 2 # n % 2 /\ (n + 1) % 2 \in Bit
                 /\ (n + 2) % 2 = n % 2
BY DEF Bit

\* The initial state of every process satisfies the invariant.
LEMMA IInvInit == Init => IInv
<1> SUFFICES ASSUME Init PROVE IInv
  OBVIOUS
<1>1. TypeOK
  <2>1. b_Make_Packet(0) \in Packet
    BY MakerTypes
  <2>2. A_queue \in [0 .. -1 -> Letters]
    <3>1. 0 .. -1 = {}
      OBVIOUS
    <3>2. A_queue \in [{} -> Letters]
      BY Zenon DEF Init, EmptyBuffer
    <3> QED
      BY <3>1, <3>2
  <2>3. toA \in Seq(Wire) /\ toB \in Seq(Wire)
    BY DEF Init, SimInit
  <2>4. SimTypeOK
    <3>1. timer \in BOOLEAN
      BY DEF Init, SimInit
    <3> QED
      BY <3>1, SimulatorAssumption DEF Init, SimInit, SimTypeOK
  <2> QED
    BY <2>1, <2>2, <2>3, <2>4 DEF Init, TypeOK, Bit, Wire
<1>2. SenderInv
  BY DEF Init, SimInit, SenderInv
<1>3. ReceiverInv
  BY DEF Init, SimInit, ReceiverInv
<1>4. DataInv /\ AckInv
  BY DEF Init, SimInit, DataInv, AckInv
<1> QED
  BY <1>1, <1>2, <1>3, <1>4 DEF IInv

\* A_output (abt.c:40-67) preserves the invariant.
LEMMA IInvOutput == IInv /\ A_output => IInv'
<1> SUFFICES ASSUME IInv, A_output PROVE IInv'
  OBVIOUS
<1> USE DEF IInv
<1>1. TypeOK /\ SimTypeOK /\ SenderInv /\ ReceiverInv
  BY DEF TypeOK
<1>2. /\ rear \in Nat \cup {-1} /\ head \in Nat /\ nsim \in Nat /\ cur_msg_recv \in Nat
      /\ A_queue \in [0 .. rear -> Letters]
      /\ toA \in Seq(Wire) /\ toB \in Seq(Wire)
      /\ Letter(nsim) \in Letters
      /\ nsim + 1 <= MaxMsgs
  BY <1>1, LetterType, SimulatorAssumption DEF TypeOK, SimTypeOK, A_output, Wire
<1>3. CASE /\ InFlight \/ head <= rear
           /\ rear' = rear + 1
           /\ A_queue' = Store(A_queue, rear', Letter(nsim))
           /\ UNCHANGED <<A_sndpkt, A_wait_seq, toB, timer>>
  <2>1. head <= rear
    BY <1>1, <1>2, <1>3 DEF SenderInv, InFlight
  <2>2. /\ A_queue' \in [0 .. rear' -> Letters]
        /\ A_queue'[rear + 1] = Letter(nsim)
        /\ \A i \in 0 .. rear : A_queue'[i] = A_queue[i]
    BY <1>2, <1>3, StoreExtends
  <2>3. TypeOK'
    BY <1>1, <1>2, <1>3, <2>2, SimulatorAssumption DEF TypeOK, SimTypeOK, A_output, Wire
  <2>4. SenderInv'
    <3>1. \A i \in 0 .. rear' : A_queue'[i] = Letter(i)
      BY <1>1, <1>2, <1>3, <2>2 DEF SenderInv
    <3>2. A_sndpkt' = a_Make_Packet(A_queue', head)
      BY SMTT(30), <1>1, <1>2, <2>1, <2>2, <1>3 DEF SenderInv, a_Make_Packet
    <3> QED
      BY <1>1, <1>2, <1>3, <2>1, <3>1, <3>2 DEF SenderInv, A_output
  <2>5. ReceiverInv' /\ DataInv' /\ AckInv'
    BY <1>1, <1>2, <1>3, <2>1 DEF ReceiverInv, DataInv, AckInv, A_output
  <2> QED
    BY <2>3, <2>4, <2>5
<1>4. CASE /\ ~(InFlight \/ head <= rear)
           /\ rear' = head
           /\ A_queue' = Store(A_queue, rear', Letter(nsim))
           /\ A_sndpkt' = a_Make_Packet(A_queue', head)
           /\ toB' \in tolayer3(toB, <<A_sndpkt'>>)
           /\ timer' = TRUE
           /\ A_wait_seq' = (head + 1) % 2
  <2>1. head = rear + 1 /\ rear' = rear + 1 /\ cur_msg_recv = head
    BY <1>1, <1>2, <1>4 DEF SenderInv, ReceiverInv
  <2>2. /\ A_queue' \in [0 .. rear' -> Letters]
        /\ A_queue'[rear + 1] = Letter(nsim)
        /\ \A i \in 0 .. rear : A_queue'[i] = A_queue[i]
    <3>1. A_queue' = Store(A_queue, rear + 1, Letter(nsim))
      BY <1>4, <2>1
    <3> QED
      BY ZenonT(30), <1>2, <2>1, <3>1, StoreExtends
  <2>3. A_sndpkt' \in Packet /\ A_sndpkt' \in Wire /\ Corrupt \in Wire
    BY <1>2, <1>4, <2>1, <2>2, MakerTypes DEF Wire
  <2>4. /\ toB' \in Seq(Wire)
        /\ toB' \in {toB, Append(toB, A_sndpkt'), Append(toB, Corrupt)}
    BY <1>2, <1>4, <2>3, TransmitOne
  <2>5. TypeOK'
    <3>2. A_wait_seq' \in Bit
      BY <1>2, <1>4 DEF Bit
    <3> QED
      BY <1>1, <1>2, <1>4, <2>1, <2>2, <2>3, <2>4, <3>2, SimulatorAssumption
         DEF TypeOK, SimTypeOK, A_output, Wire
  <2>6. SenderInv'
    <3>1. \A i \in 0 .. rear' : A_queue'[i] = Letter(i)
      BY <1>1, <1>2, <2>1, <2>2 DEF SenderInv
    <3>2. timer' = TRUE
      BY <1>4
    <3>3. A_sndpkt' = a_Make_Packet(A_queue', head') /\ head' = head
      BY <1>4 DEF A_output
    <3>4. head' <= rear' + 1 /\ nsim' = rear' + 1
      BY <1>1, <1>2, <2>1 DEF SenderInv, A_output
    <3>5. A_wait_ack' = head' % 2 /\ A_wait_seq' = (head' + 1) % 2 /\ head' <= rear'
      BY <1>1, <1>2, <1>4, <2>1 DEF SenderInv, A_output
    <3> QED
      BY <3>1, <3>2, <3>3, <3>4, <3>5 DEF SenderInv
  <2>7. ReceiverInv'
    BY <1>1, <1>2, <2>1 DEF ReceiverInv, A_output
  <2>8. DataInv'
    <3>1. A_sndpkt'.seqnum = head % 2
      BY <1>4 DEF a_Make_Packet
    <3>2. \A i \in DOMAIN toB : toB[i] # Corrupt => toB[i].seqnum # head % 2
      BY <1>2, <2>1 DEF DataInv
    <3>3. head' = head /\ cur_msg_recv' = cur_msg_recv
      BY DEF A_output
    <3>4. CASE toB' = toB
      BY <3>2, <3>3, <3>4, <1>2, <2>1 DEF DataInv
    <3>5. CASE toB' = Append(toB, A_sndpkt')
      BY <3>1, <3>2, <3>3, <3>5, <1>2, <2>1, <2>3 DEF DataInv
    <3>6. CASE toB' = Append(toB, Corrupt)
      BY <3>2, <3>3, <3>6, <1>2, <2>1 DEF DataInv
    <3> QED
      BY <2>4, <3>4, <3>5, <3>6
  <2>9. AckInv'
    BY DEF AckInv, A_output
  <2> QED
    BY <2>5, <2>6, <2>7, <2>8, <2>9
<1> QED
  BY <1>3, <1>4 DEF A_output

\* The parts of the invariant in the form the remaining proofs use.
LEMMA IInvFacts ==
    ASSUME IInv
    PROVE  /\ rear \in Nat \cup {-1} /\ head \in Nat /\ nsim \in Nat /\ cur_msg_recv \in Nat
           /\ A_queue \in [0 .. rear -> Letters]
           /\ toA \in Seq(Wire) /\ toB \in Seq(Wire)
           /\ A_sndpkt \in Wire /\ A_sndpkt \in Packet /\ Corrupt \in Wire
           /\ Corrupt \notin Packet
           /\ TypeOK /\ SimTypeOK /\ SenderInv /\ ReceiverInv /\ DataInv /\ AckInv
BY CorruptAssumption DEF IInv, TypeOK, SimTypeOK, Wire

\* A_timerinterrupt (abt.c:100-108) preserves the invariant.
LEMMA IInvTimer == IInv /\ A_timerinterrupt => IInv'
<1> SUFFICES ASSUME IInv, A_timerinterrupt PROVE IInv'
  OBVIOUS
<1>1. head <= rear /\ A_sndpkt.seqnum = head % 2
  BY IInvFacts DEF SenderInv, A_timerinterrupt, a_Make_Packet
<1>2. /\ toB' \in Seq(Wire)
      /\ toB' \in {toB, Append(toB, A_sndpkt), Append(toB, Corrupt)}
  BY IInvFacts, TransmitOne DEF A_timerinterrupt
<1>3. TypeOK'
  BY IInvFacts, <1>2 DEF TypeOK, SimTypeOK, A_timerinterrupt, aVars, Wire
<1>4. SenderInv'
  BY IInvFacts, <1>1 DEF SenderInv, A_timerinterrupt, aVars
<1>5. ReceiverInv' /\ AckInv'
  BY IInvFacts DEF ReceiverInv, AckInv, A_timerinterrupt, aVars
<1>6. DataInv'
  <2>1. head' = head /\ rear' = rear /\ cur_msg_recv' = cur_msg_recv /\ A_sndpkt' = A_sndpkt
    BY DEF A_timerinterrupt, aVars
  <2>2. CASE toB' = toB
    BY <2>1, <2>2, IInvFacts DEF DataInv
  <2>3. ASSUME NEW e \in Wire, toB' = Append(toB, e), e = A_sndpkt \/ e = Corrupt
        PROVE  DataInv'
    <3>1. /\ \A i \in DOMAIN toB' : (i \in DOMAIN toB /\ toB'[i] = toB[i]) \/ toB'[i] = e
          /\ \A i, j \in DOMAIN toB' : i < j => i \in DOMAIN toB /\ toB'[i] = toB[i]
      BY SMTT(30), <2>3, IInvFacts, AppendFacts
    <3>2. DataInv
      BY IInvFacts
    <3> QED
      BY <1>1, <2>1, <2>3, <3>1, <3>2 DEF DataInv
  <2> QED
    BY <1>2, <2>2, <2>3, IInvFacts
<1> QED
  BY <1>3, <1>4, <1>5, <1>6 DEF IInv

\* A_input (abt.c:70-97) preserves the invariant.
LEMMA IInvAck == IInv /\ A_input => IInv'
<1> SUFFICES ASSUME IInv, A_input PROVE IInv'
  OBVIOUS
<1>1. /\ toA # <<>> /\ toA' = Tail(toA) /\ toA' \in Seq(Wire)
      /\ Head(toA) = toA[1] /\ 1 \in DOMAIN toA
      /\ \A i \in DOMAIN toA' : i + 1 \in DOMAIN toA /\ toA'[i] = toA[i + 1] /\ 1 < i + 1
  BY IInvFacts, TailFacts DEF A_input
<1>2. CASE ~(Intact(toA) /\ RightAck(Head(toA)))
  <2>1. UNCHANGED <<nsim, cur_msg_recv, exitcode, A_queue, rear, B_wait_seqnum, head,
                    A_wait_ack, A_sndpkt, toB, timer, A_wait_seq>>
    BY <1>2 DEF A_input
  <2>2. TypeOK' /\ SenderInv' /\ ReceiverInv' /\ DataInv'
    BY <2>1, <1>1, IInvFacts DEF TypeOK, SimTypeOK, SenderInv, ReceiverInv, DataInv, Wire
  <2>3. AckInv'
    BY <2>1, <1>1, IInvFacts DEF AckInv
  <2> QED
    BY <2>2, <2>3 DEF IInv
<1>3. CASE Intact(toA) /\ RightAck(Head(toA))
  <2>1. toA[1] # Corrupt /\ toA[1].acknum = head % 2
    BY <1>1, <1>3, IInvFacts DEF Intact, RightAck, SenderInv
  <2>2. cur_msg_recv = head + 1 /\ head <= rear
    BY <2>1, <1>1, IInvFacts DEF AckInv, ReceiverInv
  <2>3. /\ UNCHANGED <<nsim, cur_msg_recv, exitcode, A_queue, rear, B_wait_seqnum>>
        /\ A_advance
    BY <1>3 DEF A_input
  <2>4. head' = head + 1 /\ A_wait_ack' = head' % 2 /\ head' \in Nat /\ rear' = rear
    BY <2>3, IInvFacts DEF A_advance
  <2>5. AckInv'
    <3>1. \A i \in DOMAIN toA' : toA'[i] # Corrupt => toA'[i].acknum = head % 2
      BY <1>1, <2>1, IInvFacts DEF AckInv
    <3>2. head % 2 # head' % 2
      BY <2>4, IInvFacts, ParityAlternates
    <3> QED
      BY <3>1, <3>2 DEF AckInv
  <2>6. ReceiverInv'
    BY <2>2, <2>3, <2>4, IInvFacts DEF ReceiverInv
  <2>7. \A i \in DOMAIN toB : toB[i] # Corrupt => toB[i].seqnum # head' % 2
    <3>1. head % 2 # head' % 2
      BY <2>4, IInvFacts, ParityAlternates
    <3> QED
      BY <2>2, <3>1, IInvFacts DEF DataInv
  <2>8. CASE ~(head' <= rear)
    <3>1. timer' = FALSE /\ UNCHANGED <<A_sndpkt, toB, A_wait_seq>>
      BY <2>3, <2>8 DEF A_advance
    <3>2. TypeOK'
      <4>1. A_wait_ack' \in Bit
        BY <2>4, ParityAlternates
      <4> QED
        BY <4>1, <3>1, <2>3, <2>4, <1>1, IInvFacts DEF TypeOK, SimTypeOK, Wire
    <3>3. SenderInv'
      BY <3>1, <2>2, <2>3, <2>4, <2>8, IInvFacts DEF SenderInv
    <3>4. DataInv'
      BY SMTT(30), <3>1, <2>2, <2>3, <2>4, <2>7, IInvFacts DEF DataInv
    <3> QED
      BY <3>2, <3>3, <3>4, <2>5, <2>6 DEF IInv
  <2>9. CASE head' <= rear
    <3>1. /\ A_sndpkt' = a_Make_Packet(A_queue, head')
          /\ toB' \in tolayer3(toB, <<A_sndpkt'>>)
          /\ timer' = TRUE
          /\ A_wait_seq' = (head' + 1) % 2
      BY <2>3, <2>9 DEF A_advance
    <3>2. A_sndpkt' \in Packet /\ A_sndpkt' \in Wire /\ A_sndpkt'.seqnum = head' % 2
      <4>1. head' \in 0 .. rear
        BY <2>4, <2>9, IInvFacts
      <4> QED
        BY <4>1, <3>1, IInvFacts, MakerTypes DEF Wire, a_Make_Packet
    <3>3. /\ toB' \in Seq(Wire)
          /\ toB' \in {toB, Append(toB, A_sndpkt'), Append(toB, Corrupt)}
      BY <3>1, <3>2, IInvFacts, TransmitOne
    <3>4. TypeOK'
      <4>1. A_wait_ack' \in Bit /\ A_wait_seq' \in Bit
        BY <2>4, <3>1 DEF Bit
      <4> QED
        BY <4>1, <3>1, <3>2, <3>3, <2>3, <2>4, <1>1, IInvFacts DEF TypeOK, SimTypeOK, Wire
    <3>5. SenderInv'
      <4>1. head' <= rear' /\ head' <= rear' + 1 /\ nsim' = rear' + 1
        BY <2>3, <2>4, <2>9, IInvFacts DEF SenderInv
      <4>2. \A i \in 0 .. rear' : A_queue'[i] = Letter(i)
        BY <2>3, IInvFacts DEF SenderInv
      <4>3. A_sndpkt' = a_Make_Packet(A_queue', head')
        BY <2>3, <3>1 DEF a_Make_Packet
      <4> QED
        BY <4>1, <4>2, <4>3, <3>1, <2>4 DEF SenderInv
    <3>6. DataInv'
      <4>1. cur_msg_recv' # head' + 1
        <5>1. cur_msg_recv' = head' /\ head' \in Nat
          BY <2>2, <2>3, <2>4
        <5>2. \A n \in Nat : n # n + 1
          OBVIOUS
        <5> QED
          BY <5>1, <5>2
      <4>2. CASE toB' = toB
        BY <4>1, <4>2, <2>7 DEF DataInv
      <4>3. ASSUME NEW e \in Wire, toB' = Append(toB, e), e = A_sndpkt' \/ e = Corrupt
            PROVE  DataInv'
        <5>1. /\ \A i \in DOMAIN toB' : (i \in DOMAIN toB /\ toB'[i] = toB[i]) \/ toB'[i] = e
              /\ \A i, j \in DOMAIN toB' : i < j => i \in DOMAIN toB /\ toB'[i] = toB[i]
          BY SMTT(30), <4>3, IInvFacts, AppendFacts
        <5>2. head' <= rear'
          BY <2>4, <2>9
        <5> QED
          BY <2>7, <3>2, <4>1, <4>3, <5>1, <5>2 DEF DataInv
      <4> QED
        BY <3>2, <3>3, <4>2, <4>3, IInvFacts
    <3> QED
      BY <3>4, <3>5, <3>6, <2>5, <2>6 DEF IInv
  <2> QED
    BY <2>8, <2>9
<1> QED
  BY <1>2, <1>3

\* B_input (abt.c:125-145) preserves the invariant.
LEMMA IInvData == IInv /\ B_input => IInv'
<1> SUFFICES ASSUME IInv, B_input PROVE IInv'
  OBVIOUS
<1> DEFINE p == Head(toB)
<1>1. /\ toB # <<>> /\ toB' = Tail(toB) /\ toB' \in Seq(Wire)
      /\ p \in Wire /\ p = toB[1] /\ 1 \in DOMAIN toB
      /\ \A i \in DOMAIN toB' : i + 1 \in DOMAIN toB /\ toB'[i] = toB[i + 1] /\ 1 < i + 1
  BY IInvFacts, TailFacts DEF B_input
<1>2. UNCHANGED <<nsim, timer, A_queue, head, rear, A_wait_ack, A_wait_seq, A_sndpkt>>
  BY DEF B_input, aVars
<1>3. SenderInv'
  BY <1>2, IInvFacts DEF SenderInv, a_Make_Packet
<1>4. CASE Intact(toB) /\ Expected(p)
  <2>1. B_accept
    BY <1>4 DEF B_input
  <2>2. p # Corrupt /\ p.seqnum = cur_msg_recv % 2
    BY <1>4, IInvFacts DEF Intact, Expected, ReceiverInv
  <2>3. cur_msg_recv = head
    <3>1. SUFFICES ASSUME cur_msg_recv = head + 1 PROVE FALSE
      BY IInvFacts DEF ReceiverInv
    <3>2. p.seqnum = head % 2
      BY <1>1, <2>2, <3>1, IInvFacts DEF DataInv
    <3> QED
      BY <2>2, <3>1, <3>2, IInvFacts, ParityAlternates
  <2>4. head <= rear /\ p = A_sndpkt /\ p.seqnum = head % 2
    BY <1>1, <2>2, <2>3, IInvFacts DEF DataInv
  <2>5. p.payload = Letter(cur_msg_recv) /\ cur_msg_recv < nsim
    <3>1. head \in 0 .. rear /\ p.payload = A_queue[head]
      BY <2>4, IInvFacts DEF SenderInv, a_Make_Packet
    <3> QED
      BY <2>3, <3>1, IInvFacts DEF SenderInv
  <2>6. cur_msg_recv' = cur_msg_recv + 1 /\ exitcode' = exitcode
    <3>1. tolayer5(<<p.payload>>)
      BY <2>1 DEF B_accept
    <3> QED
      BY <2>5, <3>1, IInvFacts, AcceptOne
  <2>7. B_wait_seqnum' = cur_msg_recv' % 2
    BY <2>1, <2>6, IInvFacts DEF B_accept, ReceiverInv
  <2> DEFINE ack == b_Make_Packet(B_wait_seqnum)
  <2>8. ack \in Packet /\ ack \in Wire /\ ack.acknum = head % 2
    <3>1. B_wait_seqnum = head % 2 /\ B_wait_seqnum \in Nat
      BY <2>3, IInvFacts DEF ReceiverInv
    <3> QED
      BY <3>1, MakerTypes, IInvFacts, ParityAlternates DEF b_Make_Packet, Wire, Bit
  <2>9. /\ toA' \in Seq(Wire)
        /\ toA' \in {toA, Append(toA, ack), Append(toA, Corrupt)}
    <3> HIDE DEF ack
    <3>1. toA' \in tolayer3(toA, <<ack>>)
      BY <2>1 DEF B_accept, ack
    <3> QED
      BY <2>8, <3>1, IInvFacts, TransmitOne
  <2> HIDE DEF ack, p
  <2>10. TypeOK'
    <3>1. B_wait_seqnum' \in Bit /\ cur_msg_recv' \in Nat
      BY <2>6, <2>7, IInvFacts, ParityAlternates
    <3> QED
      BY <3>1, <1>1, <1>2, <2>6, <2>9, IInvFacts DEF TypeOK, SimTypeOK, Wire
  <2>11. ReceiverInv'
    BY <1>2, <2>3, <2>4, <2>6, <2>7, IInvFacts DEF ReceiverInv
  <2>12. DataInv'
    <3>1. \A i \in DOMAIN toB' : toB'[i] # Corrupt => toB'[i].seqnum = head % 2
      BY <1>1, <2>2, <2>4, IInvFacts DEF DataInv
    <3>2. \A i \in DOMAIN toB' : toB'[i] # Corrupt => head <= rear /\ toB'[i] = A_sndpkt
      BY <1>1, <3>1, IInvFacts DEF DataInv
    <3> QED
      BY <1>2, <3>1, <3>2 DEF DataInv
  <2>13. AckInv'
    <3>1. \A i \in DOMAIN toA : toA[i] # Corrupt => toA[i].acknum # head % 2
      BY <2>3, IInvFacts DEF AckInv
    <3>2. cur_msg_recv' = head + 1 /\ head' = head /\ cur_msg_recv' # head'
      BY <1>2, <2>3, <2>6, IInvFacts
    <3>3. CASE toA' = toA
      BY <3>1, <3>2, <3>3, IInvFacts DEF AckInv
    <3>4. ASSUME NEW e \in Wire, toA' = Append(toA, e), e = ack \/ e = Corrupt
          PROVE  AckInv'
      <4>1. /\ \A i \in DOMAIN toA' : (i \in DOMAIN toA /\ toA'[i] = toA[i]) \/ toA'[i] = e
            /\ \A i, j \in DOMAIN toA' : i < j => i \in DOMAIN toA /\ toA'[i] = toA[i]
        BY SMTT(30), <3>4, IInvFacts, AppendFacts
      <4> QED
        BY <2>8, <3>1, <3>2, <3>4, <4>1 DEF AckInv
    <3> QED
      BY <2>8, <2>9, <3>3, <3>4, IInvFacts
  <2> QED
    BY <1>3, <2>10, <2>11, <2>12, <2>13 DEF IInv
<1>5. CASE ~(Intact(toB) /\ Expected(p))
  <2>1. B_reject
    BY <1>5 DEF B_input
  <2>2. UNCHANGED <<cur_msg_recv, exitcode, B_wait_seqnum>>
    BY <2>1 DEF B_reject
  <2> DEFINE ack == b_Make_Packet((B_wait_seqnum + 1) % 2)
  <2>3. /\ ack \in Packet /\ ack \in Wire
        /\ cur_msg_recv = head => ack.acknum # head % 2
        /\ cur_msg_recv = head + 1 => ack.acknum = head % 2
    <3>1. B_wait_seqnum \in Bit /\ B_wait_seqnum = cur_msg_recv % 2
      BY IInvFacts DEF ReceiverInv, TypeOK
    <3>2. ack.acknum = (B_wait_seqnum + 1) % 2 /\ ack \in Packet
      BY <3>1, MakerTypes DEF b_Make_Packet, Bit
    <3>3. cur_msg_recv = head => (B_wait_seqnum + 1) % 2 # head % 2
      BY <3>1, IInvFacts
    <3>4. cur_msg_recv = head + 1 => (B_wait_seqnum + 1) % 2 = head % 2
      BY SMTT(30), <3>1, IInvFacts
    <3> QED
      BY <3>2, <3>3, <3>4 DEF Wire
  <2> HIDE DEF p, ack
  <2>4. /\ toA' \in Seq(Wire)
        /\ toA' \in {toA, Append(toA, ack), Append(toA, Corrupt)}
    <3>1. toA' \in tolayer3(toA, <<ack>>)
      BY <2>1 DEF B_reject, ack
    <3> QED
      BY <2>3, <3>1, IInvFacts, TransmitOne
  <2>5. TypeOK'
    BY <1>1, <1>2, <2>2, <2>4, IInvFacts DEF TypeOK, SimTypeOK, Wire
  <2>6. ReceiverInv'
    BY <1>2, <2>2, IInvFacts DEF ReceiverInv
  <2>7. DataInv'
    BY SMTT(30), <1>1, <1>2, <2>2, IInvFacts DEF DataInv
  <2>8. AckInv'
    <3>1. head' = head /\ cur_msg_recv' = cur_msg_recv
      BY <1>2, <2>2
    <3>2. cur_msg_recv = head \/ cur_msg_recv = head + 1
      BY IInvFacts DEF ReceiverInv
    <3>3. CASE toA' = toA
      BY <3>1, <3>3, IInvFacts DEF AckInv
    <3>4. ASSUME NEW e \in Wire, toA' = Append(toA, e), e = ack \/ e = Corrupt
          PROVE  AckInv'
      <4>1. /\ \A i \in DOMAIN toA' : (i \in DOMAIN toA /\ toA'[i] = toA[i]) \/ toA'[i] = e
            /\ \A i, j \in DOMAIN toA' : i < j => i \in DOMAIN toA /\ toA'[i] = toA[i]
        BY SMTT(30), <3>4, IInvFacts, AppendFacts
      <4>2. AckInv
        BY IInvFacts
      <4> QED
        BY <2>3, <3>1, <3>2, <3>4, <4>1, <4>2 DEF AckInv
    <3> QED
      BY <2>3, <2>4, <3>3, <3>4, IInvFacts
  <2> QED
    BY <1>3, <2>5, <2>6, <2>7, <2>8 DEF IInv
<1> QED
  BY <1>4, <1>5

-----------------------------------------------------------------------------
(* Theorems *)

\* The invariant holds in every reachable state, for any number of messages
\* and any capacity of the medium.
THEOREM Invariance == Spec => []IInv
<1>1. Init => IInv
  BY IInvInit
<1>2. IInv /\ [Next]_vars => IInv'
  <2> SUFFICES ASSUME IInv, [Next]_vars PROVE IInv'
    OBVIOUS
  <2>1. CASE UNCHANGED vars
    BY <2>1 DEF vars, simVars, aVars, IInv, TypeOK, SimTypeOK, SenderInv, ReceiverInv,
                DataInv, AckInv
  <2>2. CASE Next
    BY <2>2, IInvOutput, IInvAck, IInvTimer, IInvData DEF Next
  <2> QED
    BY <2>1, <2>2
<1> QED
  BY <1>1, <1>2, PTL DEF Spec

\* The variables keep their types.
THEOREM TypeCorrect == Spec => []TypeOK
<1>1. IInv => TypeOK
  BY DEF IInv
<1> QED
  BY <1>1, Invariance, PTL

\* A_input never takes a message for acknowledged that tolayer5 has not
\* accepted at B, and B is at most one message ahead.
THEOREM HeadTracks == Spec => []HeadTracksReceiver
<1>1. IInv => HeadTracksReceiver
  BY IInvFacts DEF ReceiverInv, HeadTracksReceiver
<1> QED
  BY <1>1, Invariance, PTL

\* With an empty event list nothing offered is undelivered: the timer covers
\* every packet that may be lost.
THEOREM Covered == Spec => []NoSilentStall
<1>1. IInv => NoSilentStall
  <2> SUFFICES ASSUME IInv, ~timer PROVE cur_msg_recv = nsim /\ head = nsim
    BY DEF NoSilentStall
  <2>1. ~(head <= rear)
    BY IInvFacts DEF SenderInv
  <2> QED
    BY <2>1, IInvFacts DEF SenderInv, ReceiverInv
<1> QED
  BY <1>1, Invariance, PTL

\* One event of the protocol is at most one step of the abstract delivery.
LEMMA StepRefines == IInv /\ IInv' /\ [Next]_vars => [D!Next]_D!vars
<1> SUFFICES ASSUME IInv, IInv', [Next]_vars PROVE D!Next \/ UNCHANGED D!vars
  OBVIOUS
<1>1. exitcode = 0 /\ exitcode' = 0
  BY IInvFacts DEF IInv, ReceiverInv
<1>2. nsim' <= MaxMsgs /\ nsim \in Nat /\ cur_msg_recv \in Nat /\ cur_msg_recv' <= nsim'
      /\ cur_msg_recv' \in Nat /\ nsim' \in Nat
  <2>1. nsim' \in 0 .. MaxMsgs /\ cur_msg_recv' \in Nat /\ head' \in Nat /\ rear' \in Int
    BY DEF IInv, TypeOK, SimTypeOK
  <2>2. nsim' = rear' + 1 /\ head' <= rear' + 1
    BY DEF IInv, SenderInv
  <2>3. cur_msg_recv' = head' \/ (cur_msg_recv' = head' + 1 /\ head' <= rear')
    BY DEF IInv, ReceiverInv
  <2>4. nsim' <= MaxMsgs /\ nsim' \in Nat
    BY <2>1, SimulatorAssumption
  <2>5. cur_msg_recv' <= nsim'
    <3>1. \A h, r, c \in Int : h <= r + 1 /\ (c = h \/ (c = h + 1 /\ h <= r)) => c <= r + 1
      OBVIOUS
    <3>2. head' \in Int /\ rear' \in Int /\ cur_msg_recv' \in Int
      BY <2>1
    <3>3. cur_msg_recv' <= rear' + 1
      BY <2>2, <2>3, <3>1, <3>2
    <3> QED
      BY <2>2, <3>3
  <2> QED
    BY <2>1, <2>4, <2>5, IInvFacts
<1>3. CASE UNCHANGED vars
  BY <1>3 DEF vars, simVars, D!vars
<1>4. CASE A_output
  BY <1>4 DEF A_output, D!Next, D!Offer
<1>5. CASE A_input
  BY <1>5 DEF A_input, D!vars
<1>6. CASE A_timerinterrupt
  BY <1>6 DEF A_timerinterrupt, D!vars
<1>7. CASE B_input
  <2>1. nsim' = nsim
    BY <1>7 DEF B_input
  <2>2. CASE cur_msg_recv' = cur_msg_recv
    BY <1>1, <2>1, <2>2 DEF D!vars
  <2>3. CASE cur_msg_recv' # cur_msg_recv
    <3>1. B_accept /\ head' = head /\ head <= rear
      BY <1>7, <2>3, IInvFacts DEF B_input, B_reject, aVars, IInv, ReceiverInv, SenderInv
    <3>2. cur_msg_recv' > cur_msg_recv
      BY SMTT(30), <2>3, <3>1, <1>2, IInvFacts DEF IInv, ReceiverInv
    <3> QED
      BY <1>1, <1>2, <2>1, <3>2 DEF D!Next, D!Deliver
  <2> QED
    BY <2>2, <2>3
<1> QED
  BY <1>3, <1>4, <1>5, <1>6, <1>7 DEF Next

\* The alternating-bit protocol is a reliable transport: tolayer5 accepts
\* every message once, in the order offered, and never exits.
THEOREM Refinement == Spec => ImplementsDelivery
<1>1. Init => D!Init
  BY DEF Init, SimInit, D!Init
<1> QED
  BY <1>1, StepRefines, Invariance, PTL DEF Spec, ImplementsDelivery, D!Spec
=============================================================================
