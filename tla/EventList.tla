------------------------------ MODULE EventList ------------------------------
(***************************************************************************)
(* The emulator's main loop, event list and clock                          *)
(* (Reliable_Transport_Protocols/src/simulator.c) with an arbitrary        *)
(* protocol above it: a handler makes any calls of starttimer, stoptimer   *)
(* and tolayer3 before it returns.  Time is counted in units of the        *)
(* emulator; the clock is a float, which holds integers exactly only below *)
(* 2^24 (EXACT here) and every second one in the binade after it.          *)
(*                                                                         *)
(* The doubly linked list evlist is a sequence in list order.              *)
(***************************************************************************)
EXTENDS Integers, Sequences, SequencesExt, FiniteSets

CONSTANTS
    nsimmax,     \* messages after which the simulation stops (-m)
    ARRIVALS,    \* times between messages: lambda*jimsrand()*2
    DELAYS,      \* 9*jimsrand() in tolayer3
    INCREMENTS,  \* arguments the protocols give starttimer
    EXACT,       \* the float clock holds every integer up to EXACT
    MaxPackets,  \* bound: calls of tolayer3 in a run
    Horizon      \* bound: no event after it is processed

ASSUME EventListAssumption ==
    /\ nsimmax \in Nat /\ MaxPackets \in Nat /\ Horizon \in Nat /\ EXACT \in Nat
    /\ ARRIVALS \subseteq Nat /\ INCREMENTS \subseteq Nat
    /\ DELAYS \subseteq 0 .. 9

\* One binade above EXACT is modelled: no time in a run lies beyond it.
ASSUME ClockAssumption ==
    \A x \in ARRIVALS \cup INCREMENTS \cup {10 * (MaxPackets + 1)} : Horizon + x <= 2 * EXACT

VARIABLES
    time,       \* the time of the event being processed
    evlist,     \* the events to come, in list order
    nsim,       \* messages handed to A_output
    ntolayer3,  \* calls of tolayer3 so far, the name of the last packet
    handler     \* the entity whose handler runs, or where the main loop is

emulatorVars == <<time, evlist, nsim, ntolayer3, handler>>

A == 0
B == 1
Entity == {A, B}

TIMER_INTERRUPT == 0
FROM_LAYER5 == 1
FROM_LAYER3 == 2

\* handler when the main loop is about to take an event, and when it ended.
Loop == -1
Terminated == -2

\* The packet of an event that is no arrival.
NULL == 0

Event == [evtime : Nat, evtype : {TIMER_INTERRUPT, FROM_LAYER5, FROM_LAYER3},
          eventity : Entity, pktptr : 0 .. MaxPackets]

-----------------------------------------------------------------------------
(* The list *)

\* An integer as a float: above EXACT the nearest even one, ties to the one
\* whose significand is even.
Float(x) ==
    IF x <= EXACT \/ x % 2 = 0 THEN x
    ELSE IF (x \div 2) % 2 = 0 THEN x - 1 ELSE x + 1

\* Faulty variant: an event is put at the end of the list, whatever its time.
Before_Always(f, e) == TRUE

\* The search of insertevent goes on past an event f that is before e.
Before(f, e) == e.evtime > f.evtime

\* insertevent: ahead of the first event that is not before e.
insertevent(list, e) ==
    LET k == CHOOSE i \in 0 .. Len(list) :
                 /\ \A j \in 1 .. i : Before(list[j], e)
                 /\ i < Len(list) => ~Before(list[i + 1], e)
    IN  InsertAt(list, k + 1, e)

IsTimer(ev, e) == ev.evtype = TIMER_INTERRUPT /\ ev.eventity = e

IsPacket(ev, e) == ev.evtype = FROM_LAYER3 /\ ev.eventity = e

\* generate_next_arrival at time now: the next message, for A always
\* (BIDIRECTIONAL is 0).
NextArrival(now, x) ==
    [evtime |-> Float(now + x), evtype |-> FROM_LAYER5, eventity |-> A, pktptr |-> NULL]

\* init(): the clock starts and the first arrival is put into the list.
EmulatorInit ==
    /\ time = 0
    /\ \E x \in ARRIVALS : evlist = <<NextArrival(0, x)>>
    /\ nsim = 0
    /\ ntolayer3 = 0
    /\ handler = Loop

-----------------------------------------------------------------------------
(* The main loop *)

AllOffered == nsim = nsimmax

\* Take the first event; stop when all messages were offered.  A message
\* sets up the next one before A_output runs; B has no timer handler.
NextEvent ==
    /\ handler = Loop
    /\ evlist # <<>>
    /\ Head(evlist).evtime <= Horizon
    /\ time' = Head(evlist).evtime
    /\ IF AllOffered
       THEN handler' = Terminated /\ evlist' = Tail(evlist) /\ UNCHANGED nsim
       ELSE /\ handler' = Head(evlist).eventity
            /\ IF Head(evlist).evtype = FROM_LAYER5
               THEN /\ nsim' = nsim + 1
                    /\ \E x \in ARRIVALS :
                          evlist' = insertevent(Tail(evlist), NextArrival(time', x))
               ELSE UNCHANGED nsim /\ evlist' = Tail(evlist)
    /\ UNCHANGED ntolayer3

\* The handler returns to the main loop.
Return ==
    /\ handler \in Entity
    /\ handler' = Loop
    /\ UNCHANGED <<time, evlist, nsim, ntolayer3>>

-----------------------------------------------------------------------------
(* The calls a handler makes *)

TimerRuns(e) == \E i \in DOMAIN evlist : IsTimer(evlist[i], e)

\* starttimer: without effect while the timer runs.
StartTimer ==
    /\ handler \in Entity
    /\ ~TimerRuns(handler)
    /\ \E inc \in INCREMENTS :
          evlist' = insertevent(evlist,
                        [evtime |-> Float(time + inc), evtype |-> TIMER_INTERRUPT,
                         eventity |-> handler, pktptr |-> NULL])
    /\ UNCHANGED <<time, nsim, ntolayer3, handler>>

\* stoptimer: remove the first timer of this entity, if there is one.
StopTimer ==
    /\ handler \in Entity
    /\ TimerRuns(handler)
    /\ LET k == CHOOSE i \in DOMAIN evlist :
                    /\ IsTimer(evlist[i], handler)
                    /\ \A j \in 1 .. i - 1 : ~IsTimer(evlist[j], handler)
       IN  evlist' = RemoveAt(evlist, k)
    /\ UNCHANGED <<time, nsim, ntolayer3, handler>>

\* Faulty variant: a packet may overtake those sent before it.
Lastime_Now(to) == time

\* Faulty variant: the search stops at the first packet.
Lastime_First(to) ==
    LET on == { i \in DOMAIN evlist : IsPacket(evlist[i], to) }
    IN  IF on = {} THEN time
        ELSE evlist[CHOOSE i \in on : \A j \in on : i <= j].evtime

\* The arrival of the last packet in the list on its way to this entity.
Lastime(to) ==
    LET on == { i \in DOMAIN evlist : IsPacket(evlist[i], to) }
    IN  IF on = {} THEN time
        ELSE evlist[CHOOSE i \in on : \A j \in on : j <= i].evtime

\* tolayer3: the packet is lost, or arrives behind the last one.
ToLayer3 ==
    /\ handler \in Entity
    /\ ntolayer3 < MaxPackets
    /\ ntolayer3' = ntolayer3 + 1
    /\ \/ UNCHANGED evlist
       \/ LET to == (handler + 1) % 2
          IN  \E d \in DELAYS :
                 evlist' = insertevent(evlist,
                               [evtime |-> Float(Float(Lastime(to) + 1) + d),
                                evtype |-> FROM_LAYER3, eventity |-> to,
                                pktptr |-> ntolayer3'])
    /\ UNCHANGED <<time, nsim, handler>>

EmulatorNext == NextEvent \/ Return \/ StartTimer \/ StopTimer \/ ToLayer3

EmulatorSpec == EmulatorInit /\ [][EmulatorNext]_emulatorVars

-----------------------------------------------------------------------------
(* Properties *)

\* The clock and the list keep their types.
EmulatorTypeOK ==
    /\ time \in Nat
    /\ evlist \in Seq(Event)
    /\ nsim \in 0 .. nsimmax
    /\ ntolayer3 \in 0 .. MaxPackets
    /\ handler \in Entity \cup {Loop, Terminated}

\* The list is in order of time and nothing in it lies in the past: the
\* clock of the main loop never runs backwards.
Chronological ==
    /\ \A i \in DOMAIN evlist : time <= evlist[i].evtime
    /\ \A i, j \in DOMAIN evlist : i < j => evlist[i].evtime <= evlist[j].evtime

\* simulator.c:504 "medium can not reorder": packets on their way to the same
\* entity arrive in the order in which they were sent.
CannotReorder ==
    \A e \in Entity : \A i, j \in DOMAIN evlist :
        (i < j /\ IsPacket(evlist[i], e) /\ IsPacket(evlist[j], e)) =>
            evlist[i].pktptr < evlist[j].pktptr

\* The places of the packets on their way to e, and a set of places in order.
Places(list, e) == { i \in DOMAIN list : IsPacket(list[i], e) }

InOrder(P) ==
    [n \in 1 .. Cardinality(P) |->
        CHOOSE i \in P : Cardinality({ j \in P : j <= i }) = n]

Pending(list, e) ==
    LET g == InOrder(Places(list, e)) IN [n \in DOMAIN g |-> list[g[n]].pktptr]

\* The timed list implements the untimed medium and timers over which
\* modules ABT, GBN and SR run their protocols.
M == INSTANCE Medium WITH
         inTransit <- [e \in Entity |-> Pending(evlist, e)],
         timers <- { e \in Entity : TimerRuns(e) }

ImplementsMedium == M!Spec

-----------------------------------------------------------------------------
(* The inductive invariant *)

\* A time the float clock can hold.
Held(t) == t <= EXACT \/ t % 2 = 0

ClockHolds == Held(time) /\ \A i \in DOMAIN evlist : Held(evlist[i].evtime)

OneTimer ==
    \A e \in Entity : \A i, j \in DOMAIN evlist :
        IsTimer(evlist[i], e) /\ IsTimer(evlist[j], e) => i = j

\* The n-th packet arrives at most 10 units later than the one before it
\* could; the longest run is short enough for the clock to be exact.
Numbered ==
    /\ time <= Horizon
    /\ \A i \in DOMAIN evlist : evlist[i].evtype = FROM_LAYER3 =>
          /\ evlist[i].pktptr \in 1 .. ntolayer3
          /\ evlist[i].evtime <= Horizon + 10 * evlist[i].pktptr

ExactRun == Horizon + 10 * MaxPackets <= EXACT

EmulatorIInv ==
    /\ EmulatorTypeOK
    /\ Chronological
    /\ ClockHolds
    /\ OneTimer
    /\ ExactRun => Numbered /\ CannotReorder
=============================================================================
