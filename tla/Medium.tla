-------------------------------- MODULE Medium --------------------------------
(***************************************************************************)
(* What the emulator promises the protocols (the comments at the head of   *)
(* abt.c, gbn.c and sr.c, and simulator.c:504-506): packets are delivered  *)
(* in the order in which they were sent, although some can be lost, each   *)
(* at most once; each entity has one timer.                                *)
(***************************************************************************)
EXTENDS Naturals, Sequences

CONSTANTS
    Entity,     \* the two ends, 0 and 1
    MaxPackets  \* bound: packets sent in a run

VARIABLES
    inTransit,  \* for each entity the packets on their way to it, oldest first
    timers      \* the entities whose timer runs

vars == <<inTransit, timers>>

Other(e) == (e + 1) % 2

Init ==
    /\ inTransit = [e \in Entity |-> <<>>]
    /\ timers = {}

\* A packet that is not lost goes behind the others.
Send(e) ==
    \E p \in 1 .. MaxPackets :
        /\ inTransit' = [inTransit EXCEPT ![Other(e)] = Append(@, p)]
        /\ UNCHANGED timers

Arrive(e) ==
    /\ inTransit[e] # <<>>
    /\ inTransit' = [inTransit EXCEPT ![e] = Tail(@)]
    /\ UNCHANGED timers

Start(e) == timers' = timers \cup {e} /\ UNCHANGED inTransit

\* stoptimer, and the timer going off.
Stop(e) == timers' = timers \ {e} /\ UNCHANGED inTransit

Next == \E e \in Entity : Send(e) \/ Arrive(e) \/ Start(e) \/ Stop(e)

Spec == Init /\ [][Next]_vars
=============================================================================
