------------------------------ MODULE Simulator ------------------------------
(***************************************************************************)
(* The network emulator (Reliable_Transport_Protocols/src/simulator.c) as  *)
(* its callers see it: the services starttimer, stoptimer, tolayer3,       *)
(* tolayer5 and the state they share.  ABT, GBN and SR extend this module. *)
(*                                                                         *)
(* Time is abstracted: a packet spends any time in the medium and a        *)
(* running timer may expire at any moment.  The delay of a packet grows    *)
(* with the number of packets before it (simulator.c:507-512), so no       *)
(* constant bounds it and a timer may expire before an answer that is      *)
(* still in flight.  The event list with its clock is module EventList.    *)
(*                                                                         *)
(* An action that is one event of the main loop is written with the values *)
(* its calls leave behind; the order of the calls matters only where the   *)
(* comments say so.                                                        *)
(***************************************************************************)
EXTENDS Integers, Sequences

CONSTANTS
    MaxMsgs,      \* bound: messages layer 5 offers (nsimmax lies beyond it)
    LETTERS,      \* layer 5 fills message n with the letter n % LETTERS
    MaxInFlight,  \* bound: packets the medium holds in each direction
    Corrupt       \* a packet whose checksum does not match its contents

ASSUME SimulatorAssumption ==
    /\ MaxMsgs \in Nat
    /\ LETTERS \in Nat \ {0}
    /\ MaxInFlight \in Nat

VARIABLES
    nsim,          \* messages handed to A_output (cur_msg_sent keeps the same count)
    cur_msg_recv,  \* messages tolayer5 has accepted at B
    exitcode,      \* 0 while the process runs, the exit status after it stopped
    toA,           \* packets in the medium on their way to A, oldest first
    toB,           \* packets in the medium on their way to B, oldest first
    timer          \* whether a TIMER_INTERRUPT event for A is in the event list

simVars == <<nsim, cur_msg_recv, exitcode, toA, toB, timer>>

\* The payload of the n-th message (simulator.c: j = nsim % 26).
Letter(n) == n % LETTERS

Letters == 0 .. LETTERS - 1

\* A payload tolayer5 cannot have been offered: B never reads an ack's payload.
NoPayload == -1

Running == exitcode = 0

\* exit(52), exit(63): tolayer5 refuses a payload.  139: the process died on
\* a NULL dereference (128 + SIGSEGV).
NonExistent == 52
WrongPayload == 63
Segfault == 139

SimTypeOK ==
    /\ nsim \in 0 .. MaxMsgs
    /\ cur_msg_recv \in Nat
    /\ exitcode \in {0, NonExistent, WrongPayload, Segfault}
    /\ timer \in BOOLEAN

SimInit ==
    /\ nsim = 0
    /\ cur_msg_recv = 0
    /\ exitcode = 0
    /\ toA = <<>>
    /\ toB = <<>>
    /\ timer = FALSE

\* A protocol's buffer of BUFFER_SIZE entries, as far as it is filled.
EmptyBuffer == [i \in {} |-> NoPayload]

Store(buffer, i, entry) ==
    [j \in DOMAIN buffer \cup {i} |-> IF j = i THEN entry ELSE buffer[j]]

-----------------------------------------------------------------------------
(* tolayer3 *)

\* The ways to choose at most m of n packets, keeping their order.
Selections(n, m) ==
    UNION { { g \in [1 .. k -> 1 .. n] : \A i, j \in 1 .. k : i < j => g[i] < g[j] } :
            k \in 0 .. m }

\* The chosen packets of pkts, each of them intact or corrupted.
Arrivals(pkts, g) ==
    { [i \in DOMAIN g |-> IF i \in hit THEN Corrupt ELSE pkts[g[i]]] :
        hit \in SUBSET DOMAIN g }

\* What a handler that calls tolayer3 for each packet of pkts in turn may
\* leave in the medium: some are lost (jimsrand() < lossprob, or beyond the
\* bound), the others arrive behind the packets already there.
tolayer3(medium, pkts) ==
    UNION { { medium \o s : s \in Arrivals(pkts, g) } :
            g \in Selections(Len(pkts), MaxInFlight - Len(medium)) }

\* The packet at the head of the medium passes get_checksum.
Intact(medium) == Head(medium) # Corrupt

-----------------------------------------------------------------------------
(* tolayer5 *)

\* The payload tolayer5 expects next is not the one it is given.
Refuses(i, payload) == i >= nsim \/ payload # Letter(i)

\* A handler that calls tolayer5 for each payload of data in turn.  exit(145)
\* is out of reach: cur_msg_recv grows only where delivered was set.
tolayer5(data) ==
    LET bad == { i \in DOMAIN data : Refuses(cur_msg_recv + i - 1, data[i]) }
    IN  IF bad = {}
        THEN /\ cur_msg_recv' = cur_msg_recv + Len(data)
             /\ UNCHANGED exitcode
        ELSE LET first == CHOOSE i \in bad : \A j \in bad : i <= j
             IN  /\ cur_msg_recv' = cur_msg_recv + first - 1
                 /\ exitcode' = IF cur_msg_recv' >= nsim THEN NonExistent ELSE WrongPayload
=============================================================================
