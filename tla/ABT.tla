--------------------------------- MODULE ABT ---------------------------------
(***************************************************************************)
(* The alternating-bit protocol, Reliable_Transport_Protocols/src/abt.c,   *)
(* over the emulator of module Simulator.  One action per event of the     *)
(* main loop that reaches the protocol: a message from layer 5, a packet   *)
(* for A, a packet for B, A's timer.                                       *)
(***************************************************************************)
EXTENDS Simulator

VARIABLES
    A_queue,        \* payloads by index, as far as rear
    head,           \* index of the message in flight, or the next to send
    rear,           \* index of the last message queued
    A_wait_ack,     \* the ack bit A waits for
    A_wait_seq,     \* the sequence bit A sends next
    A_sndpkt,       \* the last packet A sent
    B_wait_seqnum   \* the sequence bit B waits for

aVars == <<A_queue, head, rear, A_wait_ack, A_wait_seq, A_sndpkt>>
vars == <<simVars, aVars, B_wait_seqnum>>

Bit == {0, 1}

Packet == [seqnum : Bit, acknum : Bit, payload : Letters \cup {NoPayload}]

ASSUME CorruptAssumption == Corrupt \notin Packet

a_Make_Packet(queue, i) ==
    [seqnum |-> i % 2, acknum |-> i % 2, payload |-> queue[i]]

b_Make_Packet(bit) ==
    [seqnum |-> bit % 2, acknum |-> bit % 2, payload |-> NoPayload]

Init ==
    /\ SimInit
    /\ A_queue = EmptyBuffer
    /\ head = 0
    /\ rear = -1
    /\ A_wait_ack = 0
    /\ A_wait_seq = 0
    /\ A_sndpkt = b_Make_Packet(0)   \* zeroed storage, overwritten before it is sent
    /\ B_wait_seqnum = 0

-----------------------------------------------------------------------------
(* Events *)

InFlight == A_wait_ack # A_wait_seq

\* Layer 5 offers the next message: queue it, or send it when A is idle.
A_output ==
    /\ Running
    /\ nsim < MaxMsgs
    /\ nsim' = nsim + 1
    /\ \/ /\ InFlight \/ head <= rear
          /\ rear' = rear + 1
          /\ A_queue' = Store(A_queue, rear', Letter(nsim))
          /\ UNCHANGED <<A_sndpkt, A_wait_seq, toB, timer>>
       \/ /\ ~(InFlight \/ head <= rear)
          /\ rear' = head
          /\ A_queue' = Store(A_queue, rear', Letter(nsim))
          /\ A_sndpkt' = a_Make_Packet(A_queue', head)
          /\ toB' \in tolayer3(toB, <<A_sndpkt'>>)
          /\ timer' = TRUE
          /\ A_wait_seq' = (head + 1) % 2
    /\ UNCHANGED <<cur_msg_recv, exitcode, toA, head, A_wait_ack, B_wait_seqnum>>

\* Faulty variant: any intact acknowledgement is taken for the current one.
RightAck_Any(p) == TRUE

RightAck(p) == p.acknum = A_wait_ack

\* The packet in flight is acknowledged: send the next one queued, if any.
A_advance ==
    /\ head' = head + 1
    /\ A_wait_ack' = head' % 2
    /\ IF head' <= rear
       THEN /\ A_sndpkt' = a_Make_Packet(A_queue, head')
            /\ toB' \in tolayer3(toB, <<A_sndpkt'>>)
            /\ timer' = TRUE
            /\ A_wait_seq' = (head' + 1) % 2
       ELSE /\ timer' = FALSE
            /\ UNCHANGED <<A_sndpkt, toB, A_wait_seq>>

A_input ==
    /\ Running
    /\ toA # <<>>
    /\ toA' = Tail(toA)
    /\ \/ /\ Intact(toA) /\ RightAck(Head(toA))
          /\ A_advance
       \/ /\ ~(Intact(toA) /\ RightAck(Head(toA)))
          /\ UNCHANGED <<head, A_wait_ack, A_sndpkt, toB, timer, A_wait_seq>>
    /\ UNCHANGED <<nsim, cur_msg_recv, exitcode, A_queue, rear, B_wait_seqnum>>

\* Faulty variant: the packet is sent again but the timer is not.
A_timerinterrupt_OneShot ==
    /\ Running
    /\ timer
    /\ toB' \in tolayer3(toB, <<A_sndpkt>>)
    /\ timer' = FALSE
    /\ UNCHANGED <<nsim, cur_msg_recv, exitcode, toA, aVars, B_wait_seqnum>>

\* The expired timer has left the event list; starttimer puts it back.
A_timerinterrupt ==
    /\ Running
    /\ timer
    /\ toB' \in tolayer3(toB, <<A_sndpkt>>)
    /\ timer' = TRUE
    /\ UNCHANGED <<nsim, cur_msg_recv, exitcode, toA, aVars, B_wait_seqnum>>

\* Faulty variant: a duplicate is delivered again.
Expected_Any(p) == TRUE

Expected(p) == p.seqnum = B_wait_seqnum

B_accept ==
    /\ tolayer5(<<Head(toB).payload>>)
    /\ toA' \in tolayer3(toA, <<b_Make_Packet(B_wait_seqnum)>>)
    /\ B_wait_seqnum' = (B_wait_seqnum + 1) % 2

\* Faulty variant: a packet that is not delivered is not acknowledged.
B_reject_Silent ==
    UNCHANGED <<toA, cur_msg_recv, exitcode, B_wait_seqnum>>

\* A corrupted packet or one received before: acknowledge the last delivered.
B_reject ==
    /\ toA' \in tolayer3(toA, <<b_Make_Packet((B_wait_seqnum + 1) % 2)>>)
    /\ UNCHANGED <<cur_msg_recv, exitcode, B_wait_seqnum>>

B_input ==
    /\ Running
    /\ toB # <<>>
    /\ toB' = Tail(toB)
    /\ \/ Intact(toB) /\ Expected(Head(toB)) /\ B_accept
       \/ ~(Intact(toB) /\ Expected(Head(toB))) /\ B_reject
    /\ UNCHANGED <<nsim, timer, aVars>>

Next == A_output \/ A_input \/ A_timerinterrupt \/ B_input

Spec == Init /\ [][Next]_vars

(***************************************************************************)
(* Fairness.  The main loop processes every event in the list, so a packet *)
(* in the medium is handled and a running timer expires.  lossprob and     *)
(* corruptprob below 1 let every packet that is sent again and again       *)
(* through intact in the end: strong fairness of the lucky transmissions.  *)
(* Layer 5 owes nobody another message: A_output is not fair.              *)
(***************************************************************************)
RetransmissionArrives == A_timerinterrupt /\ toB' = Append(toB, A_sndpkt)

AckArrives ==
    /\ B_input
    /\ Len(toA') = Len(toA) + 1
    /\ toA'[Len(toA')] # Corrupt

Fairness ==
    /\ WF_vars(A_input)
    /\ WF_vars(B_input)
    /\ SF_vars(RetransmissionArrives)
    /\ SF_vars(AckArrives)

FairSpec == Spec /\ Fairness

-----------------------------------------------------------------------------
(* Properties *)

\* Every variable keeps its range: bits stay bits, the queue is the part of
\* A_queue up to rear, and the medium holds packets or corrupted packets.
TypeOK ==
    /\ SimTypeOK
    /\ toA \in Seq(Packet \cup {Corrupt})
    /\ toB \in Seq(Packet \cup {Corrupt})
    /\ head \in Nat
    /\ rear \in Nat \cup {-1}
    /\ A_queue \in [0 .. rear -> Letters]
    /\ A_wait_ack \in Bit
    /\ A_wait_seq \in Bit
    /\ A_sndpkt \in Packet
    /\ B_wait_seqnum \in Bit

\* The sender never counts a message as acknowledged that the receiver does
\* not have, and is never more than one message behind it: A_input advances
\* head only on an acknowledgement of the packet in flight, however many
\* stale or repeated ones are in the medium.
HeadTracksReceiver == head <= cur_msg_recv /\ cur_msg_recv <= head + 1

\* When neither a packet nor a timer is left in the event list, everything
\* offered has been delivered and acknowledged: the protocol cannot fall
\* silent with a message in its queue.
NoSilentStall ==
    (toA = <<>> /\ toB = <<>> /\ ~timer) =>
        (cur_msg_recv = nsim /\ head = nsim)

\* tolayer5 at B sees what module Delivery promises: each message once, in
\* order, and no exit(52) or exit(63).
D == INSTANCE Delivery WITH offered <- nsim, accepted <- cur_msg_recv

ImplementsDelivery == D!Spec

\* Under the fairness above every message offered is delivered at B and
\* its acknowledgement gets back to A.
EventuallyAcknowledged ==
    \A i \in 1 .. MaxMsgs : nsim >= i ~> (cur_msg_recv >= i /\ head >= i)

-----------------------------------------------------------------------------
(* The inductive invariant *)

\* The sender's bits are the parities of head, its queue holds the messages
\* in the order layer 5 offered them, and its timer runs exactly while a
\* packet is in flight.
SenderInv ==
    /\ head <= rear + 1
    /\ nsim = rear + 1
    /\ \A i \in 0 .. rear : A_queue[i] = Letter(i)
    /\ A_wait_ack = head % 2
    /\ A_wait_seq = IF head <= rear THEN (head + 1) % 2 ELSE head % 2
    /\ head <= rear => A_sndpkt = a_Make_Packet(A_queue, head)
    /\ timer <=> head <= rear

\* The receiver has delivered the messages before head, and perhaps head.
ReceiverInv ==
    /\ exitcode = 0
    /\ B_wait_seqnum = cur_msg_recv % 2
    /\ \/ cur_msg_recv = head
       \/ cur_msg_recv = head + 1 /\ head <= rear

\* A packet on its way to B with the current bit is the packet in flight;
\* packets of the message before come first, and none of them is left once
\* the current one was delivered.
DataInv ==
    \A i \in DOMAIN toB : toB[i] # Corrupt =>
        /\ toB[i].seqnum = head % 2 => head <= rear /\ toB[i] = A_sndpkt
        /\ cur_msg_recv = head + 1 => toB[i].seqnum = head % 2
        /\ \A j \in DOMAIN toB :
              (i < j /\ toB[j] # Corrupt /\ toB[i].seqnum = head % 2)
                  => toB[j].seqnum = head % 2

\* An acknowledgement of the current bit exists only once the packet in
\* flight was delivered, and none of the bit before comes after it.
AckInv ==
    \A i \in DOMAIN toA : toA[i] # Corrupt =>
        /\ cur_msg_recv = head => toA[i].acknum # head % 2
        /\ \A j \in DOMAIN toA :
              (i < j /\ toA[j] # Corrupt /\ toA[i].acknum = head % 2)
                  => toA[j].acknum = head % 2

\* What every event of the protocol preserves.
IInv ==
    /\ TypeOK
    /\ SenderInv
    /\ ReceiverInv
    /\ DataInv
    /\ AckInv
=============================================================================
