--------------------------------- MODULE GBN ---------------------------------
(***************************************************************************)
(* Go-back-N, Reliable_Transport_Protocols/src/gbn.c, over the emulator of *)
(* module Simulator.  One action per event of the main loop that reaches   *)
(* the protocol.  The deadline each packet carries (A_node.timeout) only   *)
(* sets how long the timer runs, which module Simulator abstracts.         *)
(***************************************************************************)
EXTENDS Simulator

CONSTANT window_size

ASSUME WindowAssumption == window_size \in Nat \ {0}

VARIABLES
    A_queue,        \* the packets made so far, by sequence number
    head,           \* the oldest packet not acknowledged
    nextseqnum,     \* the next packet to send for the first time
    rear,           \* the last packet made
    w_last,         \* the last sequence number inside the window
    expectedseqnum  \* the sequence number B waits for

aVars == <<A_queue, head, nextseqnum, rear, w_last>>
vars == <<simVars, aVars, expectedseqnum>>

SeqNum == -1 .. MaxMsgs

Packet == [seqnum : SeqNum, acknum : SeqNum, payload : Letters \cup {NoPayload}]

ASSUME CorruptAssumption == Corrupt \notin Packet

a_Make_Packet(message, n) == [seqnum |-> n, acknum |-> n, payload |-> message]

\* Faulty variant: the receiver acknowledges the packet it expects next.
b_Make_Packet_Next(n) == [seqnum |-> n + 1, acknum |-> n + 1, payload |-> NoPayload]

b_Make_Packet(n) == [seqnum |-> n, acknum |-> n, payload |-> NoPayload]

\* The statics, and what A_init and B_init set.
Init ==
    /\ SimInit
    /\ A_queue = EmptyBuffer
    /\ head = 0
    /\ nextseqnum = 0
    /\ rear = -1
    /\ w_last = window_size - 1
    /\ expectedseqnum = 0

-----------------------------------------------------------------------------
(* Sending *)

\* Packets from .. to of the queue, in order.
Stretch(queue, from, to) ==
    [i \in 1 .. (IF to < from THEN 0 ELSE to - from + 1) |-> queue[from + i - 1]]

\* Faulty variant: the window is one packet too wide.
Sendable_Wide(last) == IF last + 1 <= rear THEN last + 1 ELSE rear

\* The last packet the window, ending at last, allows to send.
Sendable(last) == IF last <= rear THEN last ELSE rear

\* while(nextseqnum <= w_last && nextseqnum <= rear), when w_last is last.
SendWindow(last) ==
    /\ toB' \in tolayer3(toB, Stretch(A_queue, nextseqnum, Sendable(last)))
    /\ nextseqnum' = IF nextseqnum <= Sendable(last) THEN Sendable(last) + 1 ELSE nextseqnum

\* Layer 5 offers the next message: make its packet, send it if the window
\* has room.
A_output ==
    /\ Running
    /\ nsim < MaxMsgs
    /\ nsim' = nsim + 1
    /\ rear' = rear + 1
    /\ A_queue' = Store(A_queue, rear', a_Make_Packet(Letter(nsim), rear'))
    /\ \/ /\ nextseqnum <= w_last /\ nextseqnum <= rear'
          /\ toB' \in tolayer3(toB, <<A_queue'[nextseqnum]>>)
          /\ timer' = (timer \/ head = nextseqnum)
          /\ nextseqnum' = nextseqnum + 1
       \/ /\ ~(nextseqnum <= w_last /\ nextseqnum <= rear')
          /\ UNCHANGED <<toB, timer, nextseqnum>>
    /\ UNCHANGED <<cur_msg_recv, exitcode, toA, head, w_last, expectedseqnum>>

-----------------------------------------------------------------------------
(* Events *)

\* Everything sent is acknowledged: the timer stops, and starts again if
\* the window has moved over packets that wait.
A_allAcked ==
    /\ head' = nextseqnum
    /\ IF head' <= rear
       THEN timer' = TRUE /\ SendWindow(w_last')
       ELSE timer' = FALSE /\ UNCHANGED <<toB, nextseqnum>>

\* Faulty variant: the window moves but nothing is sent.
A_someAcked_Idle ==
    /\ head' # nextseqnum
    /\ timer' = TRUE
    /\ UNCHANGED <<toB, nextseqnum>>

\* Some packets are still out: the timer runs for the oldest of them.
A_someAcked ==
    /\ head' # nextseqnum
    /\ timer' = TRUE
    /\ SendWindow(w_last')

\* The head an acknowledgement leads to: acknowledgements are cumulative.
AckedUpTo(p) == p.acknum + 1

A_input ==
    /\ Running
    /\ toA # <<>>
    /\ toA' = Tail(toA)
    /\ \/ /\ Intact(toA)
          /\ head' = AckedUpTo(Head(toA))
          /\ w_last' = head' + window_size - 1
          /\ A_allAcked \/ A_someAcked
       \/ /\ ~Intact(toA)
          /\ UNCHANGED <<head, w_last, timer, toB, nextseqnum>>
    /\ UNCHANGED <<nsim, cur_msg_recv, exitcode, A_queue, rear, expectedseqnum>>

\* Faulty variant: the packets are sent again but the timer is not.
A_timerinterrupt_OneShot ==
    /\ Running
    /\ timer
    /\ toB' \in tolayer3(toB, Stretch(A_queue, head, nextseqnum - 1))
    /\ timer' = FALSE
    /\ UNCHANGED <<nsim, cur_msg_recv, exitcode, toA, aVars, expectedseqnum>>

\* Send every packet that is out again.
A_timerinterrupt ==
    /\ Running
    /\ timer
    /\ toB' \in tolayer3(toB, Stretch(A_queue, head, nextseqnum - 1))
    /\ timer' = TRUE
    /\ UNCHANGED <<nsim, cur_msg_recv, exitcode, toA, aVars, expectedseqnum>>

\* Faulty variant: a packet after a gap is delivered too.
Expected_Later(p) == p.seqnum >= expectedseqnum

Expected(p) == p.seqnum = expectedseqnum

B_accept ==
    /\ tolayer5(<<Head(toB).payload>>)
    /\ toA' \in tolayer3(toA, <<b_Make_Packet(expectedseqnum)>>)
    /\ expectedseqnum' = expectedseqnum + 1

\* Faulty variant: a packet that is not delivered is not acknowledged.
B_reack_Silent == UNCHANGED <<toA, cur_msg_recv, exitcode, expectedseqnum>>

\* Faulty variant: the packet that arrived is acknowledged, whatever it is.
B_reack_Own ==
    /\ toA' \in tolayer3(toA, <<b_Make_Packet(Head(toB).seqnum)>>)
    /\ UNCHANGED <<cur_msg_recv, exitcode, expectedseqnum>>

\* A duplicate or a packet after a gap: acknowledge the last one delivered.
B_reack ==
    /\ toA' \in tolayer3(toA, <<b_Make_Packet(expectedseqnum - 1)>>)
    /\ UNCHANGED <<cur_msg_recv, exitcode, expectedseqnum>>

B_input ==
    /\ Running
    /\ toB # <<>>
    /\ toB' = Tail(toB)
    /\ \/ Intact(toB) /\ Expected(Head(toB)) /\ B_accept
       \/ Intact(toB) /\ ~Expected(Head(toB)) /\ B_reack
       \/ ~Intact(toB) /\ UNCHANGED <<toA, cur_msg_recv, exitcode, expectedseqnum>>
    /\ UNCHANGED <<nsim, timer, aVars>>

Next == A_output \/ A_input \/ A_timerinterrupt \/ B_input

Spec == Init /\ [][Next]_vars

(***************************************************************************)
(* Fairness, as in module ABT: events in the list are processed, and with  *)
(* lossprob and corruptprob below 1 the oldest packet, sent again and      *)
(* again, gets through.                                                    *)
(***************************************************************************)
RetransmissionArrives ==
    /\ A_timerinterrupt
    /\ Len(toB') > Len(toB)
    /\ toB'[Len(toB) + 1] = A_queue[head]

AckArrives ==
    /\ B_input
    /\ Len(toA') = Len(toA) + 1
    /\ toA'[Len(toA')] # Corrupt

Fairness ==
    /\ WF_vars(A_input)
    /\ WF_vars(B_input)
    /\ SF_vars(RetransmissionArrives)
    /\ SF_vars(AckArrives)

FairSpec == Spec /\ Fairness

-----------------------------------------------------------------------------
(* Properties *)

\* Every variable keeps its range; head and nextseqnum index the queue and
\* the medium holds packets or corrupted packets.
TypeOK ==
    /\ SimTypeOK
    /\ toA \in Seq(Packet \cup {Corrupt})
    /\ toB \in Seq(Packet \cup {Corrupt})
    /\ head \in Nat
    /\ nextseqnum \in Nat
    /\ rear \in Nat \cup {-1}
    /\ A_queue \in [0 .. rear -> Packet]
    /\ w_last \in Int
    /\ expectedseqnum \in Nat

\* The sender forgets a packet (head passes it) only after the receiver has
\* delivered it, although acknowledgements are lost, repeated and
\* cumulative; and the receiver has nothing the sender has not sent.
HeadTracksReceiver ==
    /\ head <= cur_msg_recv
    /\ cur_msg_recv <= nextseqnum
    /\ nextseqnum <= head + window_size

\* A_input assigns head from every intact acknowledgement without comparing
\* it with the old value: it still never moves the window backwards.
HeadMonotone == [][head' >= head]_vars

\* Whenever a handler returns, every packet the window has room for was
\* sent: no later event is owed to a packet held back.
NothingHeldBack == nextseqnum > w_last \/ nextseqnum > rear

\* An event list without packets and without a timer leaves nothing
\* undelivered or unacknowledged.
NoSilentStall ==
    (toA = <<>> /\ toB = <<>> /\ ~timer) =>
        (cur_msg_recv = nsim /\ head = nsim)

\* tolayer5 at B sees what module Delivery promises.
D == INSTANCE Delivery WITH offered <- nsim, accepted <- cur_msg_recv

ImplementsDelivery == D!Spec

\* Every message offered is delivered and acknowledged in the end.
EventuallyAcknowledged ==
    \A i \in 1 .. MaxMsgs : nsim >= i ~> (cur_msg_recv >= i /\ head >= i)

-----------------------------------------------------------------------------
(* The inductive invariant *)

\* The queue holds the messages in the order offered; the window starts at
\* head and is sent as far as it reaches; the timer runs exactly while a
\* packet is out.
SenderInv ==
    /\ nsim = rear + 1
    /\ \A i \in 0 .. rear : A_queue[i] = a_Make_Packet(Letter(i), i)
    /\ head <= nextseqnum
    /\ w_last = head + window_size - 1
    /\ nextseqnum = Sendable(w_last) + 1
    /\ timer <=> head < nextseqnum

\* The receiver has delivered everything before head and nothing unsent.
ReceiverInv ==
    /\ exitcode = 0
    /\ cur_msg_recv = expectedseqnum
    /\ head <= expectedseqnum
    /\ expectedseqnum <= nextseqnum

\* What is on its way to B was sent from the queue.
DataInv ==
    \A i \in DOMAIN toB : toB[i] # Corrupt =>
        /\ toB[i].seqnum \in 0 .. nextseqnum - 1
        /\ toB[i] = A_queue[toB[i].seqnum]

\* Acknowledgements travel in increasing order between the sender's and the
\* receiver's view of the window.
AckInv ==
    \A i \in DOMAIN toA : toA[i] # Corrupt =>
        /\ head - 1 <= toA[i].acknum
        /\ toA[i].acknum <= expectedseqnum - 1
        /\ \A j \in DOMAIN toA :
              i < j /\ toA[j] # Corrupt => toA[i].acknum <= toA[j].acknum

\* What every event of the protocol preserves.
IInv ==
    /\ TypeOK
    /\ SenderInv
    /\ ReceiverInv
    /\ DataInv
    /\ AckInv
=============================================================================
