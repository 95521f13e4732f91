---------------------------------- MODULE SR ----------------------------------
(***************************************************************************)
(* Selective repeat, Reliable_Transport_Protocols/src/sr.c, over the       *)
(* emulator of module Simulator.  One action per event of the main loop    *)
(* that reaches the protocol.  The linked list behind Aq_head is the       *)
(* sequence Aq; a node's packet is named by its sequence number, and its   *)
(* timeout only sets how long the timer runs.                              *)
(***************************************************************************)
EXTENDS Simulator

CONSTANT window_size

ASSUME WindowAssumption == window_size \in Nat \ {0}

VARIABLES
    A_buffer,      \* the packets made so far, by sequence number
    A_received,    \* the sequence numbers whose received flag is set at A
    A_head,        \* the first packet not known to be received
    A_nextseqnum,  \* the next packet to send for the first time
    A_rear,        \* the last packet made
    A_w_last,      \* the last sequence number inside the window
    Aq,            \* packets that wait for their acknowledgement, by timeout
    B_buffer,      \* the packets B has stored, by sequence number
    B_head,        \* the next packet to deliver
    B_w_last       \* the last sequence number B stores

aVars == <<A_buffer, A_received, A_head, A_nextseqnum, A_rear, A_w_last, Aq>>
bVars == <<B_buffer, B_head, B_w_last>>
vars == <<simVars, aVars, bVars>>

SeqNum == 0 .. MaxMsgs

Packet == [seqnum : SeqNum, acknum : SeqNum, payload : Letters \cup {NoPayload}]

ASSUME CorruptAssumption == Corrupt \notin Packet

a_Make_Packet(message, n) == [seqnum |-> n, acknum |-> n, payload |-> message]

\* Faulty variant: the acknowledgement names the packet after the one stored.
b_Make_Packet_Next(n) == [seqnum |-> n + 1, acknum |-> n + 1, payload |-> NoPayload]

b_Make_Packet(n) == [seqnum |-> n, acknum |-> n, payload |-> NoPayload]

\* The statics, and what A_init and B_init set.
Init ==
    /\ SimInit
    /\ A_buffer = EmptyBuffer
    /\ A_received = {}
    /\ A_head = 0
    /\ A_nextseqnum = 0
    /\ A_rear = -1
    /\ A_w_last = window_size - 1
    /\ Aq = <<>>
    /\ B_buffer = EmptyBuffer
    /\ B_head = 0
    /\ B_w_last = window_size - 1

-----------------------------------------------------------------------------
(* Sending *)

\* Layer 5 offers the next message: make its packet, send it if the window
\* has room.
A_output ==
    /\ Running
    /\ nsim < MaxMsgs
    /\ nsim' = nsim + 1
    /\ A_rear' = A_rear + 1
    /\ A_buffer' = Store(A_buffer, A_rear', a_Make_Packet(Letter(nsim), A_rear'))
    /\ A_received' = A_received \ {A_rear'}
    /\ \/ /\ A_nextseqnum <= A_w_last /\ A_nextseqnum <= A_rear'
          /\ toB' \in tolayer3(toB, <<A_buffer'[A_nextseqnum]>>)
          /\ Aq' = Append(Aq, A_nextseqnum)
          /\ timer' = (timer \/ A_head = A_nextseqnum)
          /\ A_nextseqnum' = A_nextseqnum + 1
       \/ /\ ~(A_nextseqnum <= A_w_last /\ A_nextseqnum <= A_rear')
          /\ UNCHANGED <<toB, Aq, timer, A_nextseqnum>>
    /\ UNCHANGED <<cur_msg_recv, exitcode, toA, A_head, A_w_last, bVars>>

\* The first index from first on that is not in flags: where
\* while(buffer[first].received) stops.
FirstUnset(flags, first) ==
    CHOOSE i \in first .. first + MaxMsgs :
        i \notin flags /\ \A j \in first .. i - 1 : j \in flags

\* A_nextseqnum after i turns of the while loop in A_input: each turn moves
\* the window by one and sends at most one packet.
NextAfter(turns) ==
    LET next[i \in 0 .. turns] ==
            IF i = 0 THEN A_nextseqnum
            ELSE IF next[i - 1] <= A_w_last + i /\ next[i - 1] <= A_rear
                 THEN next[i - 1] + 1
                 ELSE next[i - 1]
    IN  next[turns]

\* Sequence numbers from .. to - 1, in order.
Numbers(from, to) == [i \in 1 .. to - from |-> from + i - 1]

\* Faulty variant: the first packet is not attached to an empty list.
Enlist_Unlisted(queue, sent) ==
    IF queue = <<>> /\ sent # <<>> THEN Tail(sent) ELSE queue \o sent

\* enQueue for each packet sent in the loop: into an empty list the first
\* goes twice, inside the test and again behind it.
Enlist(queue, sent) ==
    IF queue = <<>> /\ sent # <<>> THEN <<Head(sent)>> \o sent ELSE queue \o sent

\* The window moves over every packet received; queue and running are the
\* list and the timer as the first half of A_input leaves them.
A_slide(queue, running) ==
    LET turns == FirstUnset(A_received', A_head) - A_head
        sent  == Numbers(A_nextseqnum, NextAfter(turns))
    IN  /\ A_head' = A_head + turns
        /\ A_w_last' = A_w_last + turns
        /\ A_nextseqnum' = NextAfter(turns)
        /\ toB' \in tolayer3(toB, [i \in DOMAIN sent |-> A_buffer[sent[i]]])
        /\ Aq' = Enlist(queue, sent)
        /\ timer' = (running \/ (queue = <<>> /\ sent # <<>>))

-----------------------------------------------------------------------------
(* Events *)

\* deQueue_acknum: the list without the first node that holds n.
WithoutFirst(queue, n) ==
    IF \E i \in DOMAIN queue : queue[i] = n
    THEN LET k == CHOOSE i \in DOMAIN queue :
                      queue[i] = n /\ \A j \in 1 .. i - 1 : queue[j] # n
         IN  SubSeq(queue, 1, k - 1) \o SubSeq(queue, k + 1, Len(queue))
    ELSE queue

\* Faulty variant: the timer is not started again for the next packet.
TimerAfter_Stopped(n) == IF Head(Aq) = n THEN FALSE ELSE timer

\* The acknowledgement of the packet the timer runs for stops the timer,
\* and starts it again for the next packet in the list.
TimerAfter(n) == IF Head(Aq) = n THEN Len(Aq) > 1 ELSE timer

A_acknowledged(n) ==
    /\ A_received' = A_received \cup {n}
    /\ \/ /\ A_head = n
          /\ A_slide(WithoutFirst(Aq, n), TimerAfter(n))
       \/ /\ A_head # n
          /\ Aq' = WithoutFirst(Aq, n)
          /\ timer' = TimerAfter(n)
          /\ UNCHANGED <<toB, A_head, A_nextseqnum, A_w_last>>
    /\ UNCHANGED exitcode

\* Aq_head->next is NULL and is dereferenced.
A_nullList ==
    /\ Aq = <<>>
    /\ exitcode' = Segfault
    /\ UNCHANGED <<A_received, A_head, A_nextseqnum, A_w_last, Aq, timer, toB>>

A_input ==
    /\ Running
    /\ toA # <<>>
    /\ toA' = Tail(toA)
    /\ \/ Intact(toA) /\ Aq # <<>> /\ A_acknowledged(Head(toA).seqnum)
       \/ Intact(toA) /\ A_nullList
       \/ ~Intact(toA) /\ UNCHANGED <<exitcode, timer, toB, A_received, A_head,
                                      A_nextseqnum, A_w_last, Aq>>
    /\ UNCHANGED <<nsim, cur_msg_recv, A_buffer, A_rear, bVars>>

\* Faulty variant: the packet sent again is not put back into the list.
A_resend_Dropped ==
    /\ toB' \in tolayer3(toB, <<A_buffer[Head(Aq)]>>)
    /\ Aq' = Tail(Aq)
    /\ timer' = (Aq' # <<>>)
    /\ UNCHANGED exitcode

\* The first packet of the list is sent again and waits at its end.
A_resend ==
    /\ toB' \in tolayer3(toB, <<A_buffer[Head(Aq)]>>)
    /\ Aq' = Append(Tail(Aq), Head(Aq))
    /\ timer' = TRUE
    /\ UNCHANGED exitcode

\* With an empty list deQueue returns NULL, which printf dereferences before
\* the test for it; TimerCoversList says that this cannot happen.
A_timerinterrupt ==
    /\ Running
    /\ timer
    /\ IF Aq # <<>>
       THEN A_resend
       ELSE exitcode' = Segfault /\ UNCHANGED <<toB, Aq, timer>>
    /\ UNCHANGED <<nsim, cur_msg_recv, toA, A_buffer, A_received, A_head,
                   A_nextseqnum, A_rear, A_w_last, bVars>>

\* Deliver what is stored from B_head on without a gap.
B_deliver ==
    LET stop == FirstUnset(DOMAIN B_buffer', B_head)
    IN  /\ tolayer5([i \in 1 .. stop - B_head |-> B_buffer'[B_head + i - 1].payload])
        /\ B_head' = stop
        /\ B_w_last' = B_w_last + stop - B_head

InWindow(n) == B_head <= n /\ n <= B_w_last

\* Faulty variant: a packet is delivered when it arrives.
B_store_Unordered(p) ==
    /\ toA' \in tolayer3(toA, <<b_Make_Packet(p.seqnum)>>)
    /\ tolayer5(<<p.payload>>)
    /\ B_head' = B_head + 1
    /\ B_w_last' = B_w_last + 1
    /\ UNCHANGED B_buffer

\* Acknowledge, store unless stored before, deliver if the gap is closed.
B_store(p) ==
    /\ toA' \in tolayer3(toA, <<b_Make_Packet(p.seqnum)>>)
    /\ B_buffer' = IF p.seqnum \in DOMAIN B_buffer
                   THEN B_buffer ELSE Store(B_buffer, p.seqnum, p)
    /\ \/ p.seqnum = B_head /\ B_deliver
       \/ p.seqnum # B_head /\ UNCHANGED <<cur_msg_recv, exitcode, B_head, B_w_last>>

\* Faulty variant: a packet delivered before is not acknowledged again.
InLastWindow_Never(n) == FALSE

\* Delivered before, but A may have missed the acknowledgement.
InLastWindow(n) == B_head - window_size <= n /\ n <= B_head - 1

B_reack(p) ==
    /\ toA' \in tolayer3(toA, <<b_Make_Packet(p.seqnum)>>)
    /\ UNCHANGED <<cur_msg_recv, exitcode, bVars>>

B_ignore == UNCHANGED <<toA, cur_msg_recv, exitcode, bVars>>

B_take(p) ==
    \/ InWindow(p.seqnum) /\ B_store(p)
    \/ ~InWindow(p.seqnum) /\ InLastWindow(p.seqnum) /\ B_reack(p)
    \/ ~InWindow(p.seqnum) /\ ~InLastWindow(p.seqnum) /\ B_ignore

B_input ==
    /\ Running
    /\ toB # <<>>
    /\ toB' = Tail(toB)
    /\ \/ Intact(toB) /\ B_take(Head(toB))
       \/ ~Intact(toB) /\ B_ignore
    /\ UNCHANGED <<nsim, timer, aVars>>

Next == A_output \/ A_input \/ A_timerinterrupt \/ B_input

Spec == Init /\ [][Next]_vars

(***************************************************************************)
(* Fairness.  Events in the list are processed; a packet that is sent      *)
(* again and again, and an acknowledgement that is, gets through in the    *)
(* end (lossprob and corruptprob below 1), whichever packet it is.         *)
(***************************************************************************)
RetransmissionArrives(n) ==
    /\ A_timerinterrupt
    /\ Aq # <<>> /\ Head(Aq) = n
    /\ toB' = Append(toB, A_buffer[n])

AckArrives(n) ==
    /\ B_input
    /\ toA' = Append(toA, b_Make_Packet(n))

Fairness ==
    /\ WF_vars(A_input)
    /\ WF_vars(B_input)
    /\ WF_vars(A_timerinterrupt)
    /\ \A n \in 0 .. MaxMsgs - 1 :
          SF_vars(RetransmissionArrives(n)) /\ SF_vars(AckArrives(n))

FairSpec == Spec /\ Fairness

-----------------------------------------------------------------------------
(* Properties *)

\* Every variable keeps its range.
TypeOK ==
    /\ SimTypeOK
    /\ toA \in Seq(Packet \cup {Corrupt})
    /\ toB \in Seq(Packet \cup {Corrupt})
    /\ A_head \in Nat
    /\ A_nextseqnum \in Nat
    /\ A_rear \in Nat \cup {-1}
    /\ A_w_last \in Int
    /\ A_buffer \in [0 .. A_rear -> Packet]
    /\ A_received \subseteq 0 .. A_rear
    /\ Aq \in Seq(0 .. A_rear)
    /\ DOMAIN B_buffer \subseteq 0 .. A_rear
    /\ \A n \in DOMAIN B_buffer : B_buffer[n] \in Packet
    /\ B_head \in Nat
    /\ B_w_last \in Int

\* A packet A takes for received is stored at B: whatever A removes from its
\* list and slides its window over, nothing is lost for good.
ReceivedIsStored == A_received \subseteq DOMAIN B_buffer

\* B answers every copy of a packet A still waits for: the two windows never
\* drift so far apart that B ignores a packet whose acknowledgement was lost.
NeverIgnored ==
    \A n \in A_head .. A_nextseqnum - 1 :
        n \notin A_received => InWindow(n) \/ InLastWindow(n)

\* Every packet sent and not acknowledged has a node in the list, so its
\* turn to be sent again comes, in whatever order acknowledgements arrive.
RetransmissionCovers ==
    \A n \in A_head .. A_nextseqnum - 1 :
        n \notin A_received => \E i \in DOMAIN Aq : Aq[i] = n

\* One timer serves all packets: it runs exactly while the list holds one.
TimerCoversList == Running => (timer <=> Aq # <<>>)

\* An event list without packets and without a timer leaves nothing
\* undelivered or unacknowledged.
NoSilentStall ==
    (Running /\ toA = <<>> /\ toB = <<>> /\ ~timer) =>
        (cur_msg_recv = nsim /\ A_head = nsim)

\* tolayer5 at B sees what module Delivery promises, as long as the process
\* lives: a NULL dereference (property NoCrash) is a stop, not a delivery.
D == INSTANCE Delivery WITH
         offered <- nsim,
         accepted <- cur_msg_recv,
         exitcode <- IF exitcode = Segfault THEN 0 ELSE exitcode

ImplementsDelivery == D!Spec

\* Every message offered is delivered in the end, unless the process dies.
EventuallyDelivered ==
    \A i \in 1 .. MaxMsgs : nsim >= i ~> (cur_msg_recv >= i \/ ~Running)

\* The repository's README.md:12-16: the protocols deal with data loss and
\* data corruption.  A_input (sr.c:96) dereferences the first node of the list
\* without a test: a repeated acknowledgement that finds the list empty ends
\* the process.
NoCrash == exitcode # Segfault

-----------------------------------------------------------------------------
(* The inductive invariant *)

\* The window starts at the first packet not known to be received and is sent
\* as far as it reaches; only packets that were sent wait in the list or are
\* taken for received.
SenderInv ==
    /\ nsim = A_rear + 1
    /\ \A i \in 0 .. A_rear : A_buffer[i] = a_Make_Packet(Letter(i), i)
    /\ A_w_last = A_head + window_size - 1
    /\ A_nextseqnum = (IF A_w_last <= A_rear THEN A_w_last ELSE A_rear) + 1
    /\ 0 .. A_head - 1 \subseteq A_received
    /\ Aq \in Seq(0 .. A_nextseqnum - 1)
    /\ A_received \subseteq 0 .. A_nextseqnum - 1
    /\ A_head \notin A_received

\* B stores packets that were sent, delivers them up to the first gap, and the
\* emulator has accepted what was delivered.
ReceiverInv ==
    /\ exitcode \in {0, Segfault}
    /\ cur_msg_recv = B_head
    /\ B_w_last = B_head + window_size - 1
    /\ 0 .. B_head - 1 \subseteq DOMAIN B_buffer
    /\ DOMAIN B_buffer \subseteq 0 .. A_nextseqnum - 1
    /\ B_head \notin DOMAIN B_buffer
    /\ \A i \in DOMAIN B_buffer : B_buffer[i] = A_buffer[i]

\* What is on its way to B was sent from the buffer.
DataInv ==
    \A i \in DOMAIN toB : toB[i] # Corrupt =>
        /\ toB[i].seqnum \in 0 .. A_nextseqnum - 1
        /\ toB[i] = A_buffer[toB[i].seqnum]

\* B acknowledges only what it has stored.
AckInv == \A i \in DOMAIN toA : toA[i] # Corrupt => toA[i].seqnum \in DOMAIN B_buffer

\* What every event of the protocol preserves, a crash of A included.
IInv ==
    /\ TypeOK
    /\ SenderInv
    /\ ReceiverInv
    /\ ReceivedIsStored
    /\ DataInv
    /\ AckInv
    /\ RetransmissionCovers
    /\ TimerCoversList
=============================================================================
