----------------------------- MODULE TimeoutList -----------------------------
(***************************************************************************)
(* The timers of one router: the linked list RT_head                       *)
(* (Software_Defined_Routing/src/table.c) and the select loop that waits   *)
(* for its first deadline (connection_manager.c).  One timer serves the    *)
(* router itself (time to send its table) and every neighbour (time to     *)
(* expect theirs).                                                         *)
(*                                                                         *)
(* One action is one turn of main_loop: select returns, the handler runs,  *)
(* and get_timer computes the next deadline.  Time is counted in ticks,    *)
(* TICKS of them to a second, because get_timer treats seconds and         *)
(* fractions of a second separately.  A turn takes no time; sockets that   *)
(* are ready together are separate turns.                                  *)
(***************************************************************************)
EXTENDS Integers, Sequences, SequencesExt, FiniteSets

CONSTANTS
    Neighbour,                  \* ids of the neighbours the controller named
    my_id,                      \* the router's own id
    updates_periodic_interval,  \* seconds
    TICKS,                      \* ticks in a second
    Garbage,                    \* value of a timeout field nobody has written
    MaxTime,                    \* bound: the clock stops there
    MaxWakes                    \* bound: events that wake select early

ASSUME TimeoutAssumption ==
    /\ my_id \notin Neighbour /\ IsFiniteSet(Neighbour)
    /\ updates_periodic_interval \in Nat \ {0}
    /\ TICKS \in Nat \ {0}
    /\ Garbage \in Int
    /\ MaxTime \in Nat /\ MaxWakes \in Nat

VARIABLES
    now,       \* gettimeofday
    RT,        \* the nodes behind RT_head, in list order
    deadline,  \* when select gives up waiting
    lastSent,  \* history: when the table was last sent (INIT counts as once)
    heardAt,   \* history: when a listed neighbour's last update came
    woken,     \* history: events since then that woke select early
    silence,   \* history: for a neighbour removed, both when it was
    wakes      \* all the events that have woken select early

vars == <<now, RT, deadline, lastSent, heardAt, woken, silence, wakes>>

Interval == updates_periodic_interval * TICKS

Node == [router_id : Neighbour \cup {my_id}, timeout : Int, count : 0 .. 2, recv : {0, 1}]

Listed(v) == \E i \in DOMAIN RT : RT[i].router_id = v

-----------------------------------------------------------------------------
(* The list *)

\* Faulty variant: a node goes to the end of the list.
enQueueByRecv_End(list, node) == Append(list, node)

\* Faulty variant: a node goes to the head of the list.
enQueueByRecv_Head(list, node) == <<node>> \o list

\* Behind the leading nodes whose recv is 1.
enQueueByRecv(list, node) ==
    LET k == CHOOSE i \in 0 .. Len(list) :
                 /\ \A j \in 1 .. i : list[j].recv = 1
                 /\ i < Len(list) => list[i + 1].recv # 1
    IN  InsertAt(list, k + 1, node)

\* Faulty variant: the old node is not unlinked.
Without_None(list, v) == list

\* deQueue_router_ip: the first node of v, which has one, is unlinked.
Without(list, v) ==
    RemoveAt(list, CHOOSE i \in DOMAIN list :
                       /\ list[i].router_id = v
                       /\ \A j \in 1 .. i - 1 : list[j].router_id # v)

Second(t) == t \div TICKS

Fraction(t) == t % TICKS

\* Faulty variant: the second that is borrowed is not waited for.
get_timer_Short(list) ==
    LET q == Head(list)
        borrow == Fraction(q.timeout) < Fraction(now)
        until == IF borrow THEN q.timeout - TICKS ELSE q.timeout
    IN  /\ RT' = [list EXCEPT ![1].timeout = until]
        /\ deadline' = IF until < now THEN now ELSE until

\* get_timer: the fraction of a second left is borrowed from the node itself,
\* whose timeout stays a second shorter.  Afterwards select waits until the
\* time the timeout had before.
get_timer(list) ==
    LET q == Head(list)
        borrow == Fraction(q.timeout) < Fraction(now)
    IN  /\ RT' = IF borrow THEN [list EXCEPT ![1].timeout = @ - TICKS] ELSE list
        /\ deadline' = IF q.timeout < now THEN now ELSE q.timeout

\* make_timeout_node and initTimeOutList: the neighbours in table order behind
\* the router itself, whose timer runs at once.
Init ==
    /\ now \in 0 .. TICKS - 1
    /\ \E order \in SetToSeqs(Neighbour) :
          RT = <<[router_id |-> my_id, timeout |-> now + Interval, count |-> 0, recv |-> 1]>>
               \o [i \in DOMAIN order |->
                      [router_id |-> order[i], timeout |-> Garbage, count |-> 0, recv |-> 0]]
    /\ deadline = now + Interval
    /\ lastSent = now
    /\ heardAt = [v \in Neighbour |-> now]
    /\ woken = [v \in Neighbour |-> 0]
    /\ silence = [v \in {} |-> 0]
    /\ wakes = 0

-----------------------------------------------------------------------------
(* Turns of the main loop *)

\* The clock advances while select waits.
Tick ==
    /\ now < deadline
    /\ now < MaxTime
    /\ now' = now + 1
    /\ UNCHANGED <<RT, deadline, lastSent, heardAt, woken, silence, wakes>>

\* select times out with the router itself at the head: send the table.
SendTable ==
    /\ now >= deadline
    /\ Head(RT).router_id = my_id
    /\ lastSent' = now
    /\ get_timer(enQueueByRecv(Tail(RT), [Head(RT) EXCEPT !.timeout = now + Interval]))
    /\ UNCHANGED <<now, heardAt, woken, silence, wakes>>

\* Updates a neighbour may miss and stay in the list.
Tolerated(count) == count < 3

\* Faulty variant: a missing update is not counted.
Missed_Uncounted(node) == node.count

\* rotate_head: temp->count += 1.
Missed(node) == node.count + 1

\* select times out with a neighbour at the head, which has missed an update:
\* wait for the next one, or remove it.
NeighbourLate ==
    /\ now >= deadline
    /\ Head(RT).router_id # my_id
    /\ LET node == [Head(RT) EXCEPT !.count = Missed(Head(RT))]
           v == node.router_id
       IN  IF Tolerated(node.count)
           THEN /\ get_timer(enQueueByRecv(Tail(RT), [node EXCEPT !.timeout = now + Interval]))
                /\ UNCHANGED silence
           ELSE /\ get_timer(Tail(RT))
                /\ silence' = [w \in DOMAIN silence \cup {v} |->
                                  IF w = v THEN [lasted |-> now - heardAt[v], woken |-> woken[v]]
                                  ELSE silence[w]]
    /\ UNCHANGED <<now, lastSent, heardAt, woken, wakes>>

\* Every neighbour has been silent during one event more.
Woken == [w \in Neighbour |-> woken[w] + 1]

\* router_recv_hook, update_neighbor_node: an update from v arrives and v's
\* timer starts again, unless v was removed.
Hear(v) ==
    /\ wakes < MaxWakes
    /\ wakes' = wakes + 1
    /\ IF Listed(v)
       THEN /\ heardAt' = [heardAt EXCEPT ![v] = now]
            /\ woken' = [Woken EXCEPT ![v] = 0]
            /\ get_timer(enQueueByRecv(Without(RT, v),
                             [router_id |-> v, timeout |-> now + Interval,
                              count |-> 0, recv |-> 1]))
       ELSE get_timer(RT) /\ woken' = Woken /\ UNCHANGED heardAt
    /\ UNCHANGED <<now, lastSent, silence>>

\* A message or a connection of the controller wakes select.
Control ==
    /\ wakes < MaxWakes
    /\ wakes' = wakes + 1
    /\ woken' = Woken
    /\ get_timer(RT)
    /\ UNCHANGED <<now, lastSent, heardAt, silence>>

Next == Tick \/ SendTable \/ NeighbourLate \/ Control \/ \E v \in Neighbour : Hear(v)

Spec == Init /\ [][Next]_vars

-----------------------------------------------------------------------------
(* Properties *)

\* The list is a list of nodes, and the clock and the histories are times.
TypeOK ==
    /\ now \in Nat
    /\ RT \in Seq(Node)
    /\ deadline \in Int
    /\ lastSent \in Nat
    /\ heardAt \in [Neighbour -> Nat]
    /\ woken \in [Neighbour -> Nat]
    /\ DOMAIN silence \subseteq Neighbour
    /\ silence \in [DOMAIN silence -> [lasted : Int, woken : Nat]]
    /\ wakes \in Nat

\* The timeout of a neighbour is first written when its first update comes
\* (make_timeout_node leaves it unset), so get_timer must never find such a
\* node at the head: the list stays parted into heard and unheard nodes.
HeadHasDeadline == RT # <<>> /\ Head(RT).recv = 1

\* The table is sent at least once in every interval, whatever the updates
\* and the timeouts of neighbours do to the order of the list.
SendsInTime == now - lastSent <= Interval

\* A neighbour that was heard once and then falls silent leaves the list when
\* three intervals have passed.
RemovesInTime ==
    \A i \in DOMAIN RT :
        (RT[i].router_id # my_id /\ RT[i].recv = 1) =>
            now - heardAt[RT[i].router_id] <= 3 * Interval

\* A router has one timer for itself and at most one for each neighbour.
OneNodeEach ==
    /\ Listed(my_id)
    /\ \A i, j \in DOMAIN RT : RT[i].router_id = RT[j].router_id => i = j

\* A neighbour is removed when it "exceed[s] three consecutive update intervals"
\* (table.c:657), but get_timer takes a second off its deadline whenever another
\* event wakes select with a smaller fraction of a second left.  Of its three
\* intervals a silent neighbour loses no more than a second for each event since
\* its last update, and nothing for what was before or for the list's own turns.
NotTooEarly ==
    \A v \in DOMAIN silence : silence[v].lasted + TICKS * silence[v].woken >= 3 * Interval

-----------------------------------------------------------------------------
(* The inductive invariant *)

\* The nodes with a deadline come first, with the router's own among them.
Parted ==
    /\ \E k \in 0 .. Len(RT) : \A i \in DOMAIN RT : RT[i].recv = 1 <=> i <= k
    /\ \A i \in DOMAIN RT : RT[i].router_id = my_id => RT[i].recv = 1

\* They are in the order of their deadlines, none of which is far away.
Sorted ==
    \A i \in DOMAIN RT : RT[i].recv = 1 =>
        /\ RT[i].timeout <= now + Interval
        /\ \A j \in 1 .. i : RT[j].timeout <= RT[i].timeout

\* The latest time at which a node must be served.
Due(node) ==
    IF node.router_id = my_id THEN lastSent + Interval
    ELSE heardAt[node.router_id] + (node.count + 1) * Interval

\* No deadline is later than that, the one select waits for included.
InTime ==
    \A i \in DOMAIN RT : RT[i].recv = 1 =>
        /\ RT[i].timeout <= Due(RT[i])
        /\ now <= Due(RT[i])
        /\ deadline <= now \/ deadline <= Due(RT[i])

\* Nor is a neighbour's much earlier: get_timer has taken a second off for each
\* event since the neighbour was heard, and may have taken the next one off the
\* head already, of which select knows nothing yet.
NotEarly ==
    /\ \A i \in DOMAIN RT : RT[i].recv = 1 /\ RT[i].router_id # my_id =>
          LET lag == TICKS * woken[RT[i].router_id] IN
          /\ i > 1 => Due(RT[i]) <= RT[i].timeout + lag
          /\ i = 1 => Due(RT[i]) <= deadline + lag
          /\ Due(RT[i]) <= RT[i].timeout + lag + TICKS
    /\ NotTooEarly

IInv == TypeOK /\ OneNodeEach /\ Parted /\ Sorted /\ InTime /\ NotEarly
=============================================================================
