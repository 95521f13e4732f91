------------------------------- MODULE Delivery -------------------------------
(***************************************************************************)
(* What a reliable transport promises layer 5, whatever the protocol: the  *)
(* emulator (tolayer5 in simulator.c) accepts every message exactly once,  *)
(* in the order in which A_output was given them, and never stops with an  *)
(* error.                                                                  *)
(***************************************************************************)
EXTENDS Naturals

CONSTANT MaxMsgs

VARIABLES
    offered,    \* messages given to A_output
    accepted,   \* messages tolayer5 accepted at B
    exitcode    \* exit status of the process, 0 while it runs

vars == <<offered, accepted, exitcode>>

Init ==
    /\ offered = 0
    /\ accepted = 0
    /\ exitcode = 0

Offer ==
    /\ offered < MaxMsgs
    /\ offered' = offered + 1
    /\ UNCHANGED <<accepted, exitcode>>

\* One event may hand over several messages: the selective-repeat receiver
\* empties its buffer in a loop.
Deliver ==
    /\ accepted < offered
    /\ accepted' \in accepted + 1 .. offered
    /\ UNCHANGED <<offered, exitcode>>

Next == Offer \/ Deliver

Spec == Init /\ [][Next]_vars

FairSpec == Spec /\ WF_vars(Deliver)
=============================================================================
