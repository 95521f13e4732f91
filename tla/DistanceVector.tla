---------------------------- MODULE DistanceVector ----------------------------
(***************************************************************************)
(* The routers of Software_Defined_Routing, their tables (table.c) and the *)
(* routing updates between them (router_handler.c, connection_manager.c),  *)
(* driven by the controller's INIT, UPDATE and CRASH (control_handler.c).  *)
(*                                                                         *)
(* The controller names the routers in the same order to all of them, so   *)
(* the arrays are functions of the router.  A datagram is a vector of      *)
(* costs; datagrams between two routers may be lost and keep their order.  *)
(* When a timer goes off is module TimeoutList's subject: here a router    *)
(* sends its table at any time, and gives up a neighbour it has heard at   *)
(* any time if three updates in a row may be missed (UNRELIABLE).          *)
(***************************************************************************)
EXTENDS Integers, Sequences, FiniteSets

CONSTANTS
    INF,          \* table.h: 65535, the largest number of two bytes
    Router,       \* the ids of the routers
    Cost,         \* Cost[x][y]: the cost INIT gives the link from x to y
    UPDATES,      \* <<x, y, cost>>: UPDATE messages, each is sent to x once
    CRASHES,      \* routers the controller may crash
    UNRELIABLE,   \* <<x, v>>: x may miss three updates of v in a row
    MaxInFlight   \* bound: MaxInFlight[v][x] datagrams are under way from v to x

Uint16(n) == n % (INF + 1)

ASSUME CostAssumption ==
    /\ Cost \in [Router -> [Router -> 0 .. INF]]
    /\ \A x, y \in Router : Cost[x][y] = Cost[y][x] /\ (Cost[x][y] = 0 <=> x = y)

ASSUME EnvironmentAssumption ==
    /\ INF \in Nat \ {0}
    /\ Router \subseteq Nat /\ IsFiniteSet(Router) /\ INF \notin Router
    /\ UPDATES \subseteq Router \X Router \X (0 .. INF)
    /\ \A u \in UPDATES : u[1] # u[2] /\ Cost[u[1]][u[2]] < INF
    /\ CRASHES \subseteq Router
    /\ UNRELIABLE \subseteq Router \X Router

ASSUME BoundAssumption == MaxInFlight \in [Router -> [Router -> Nat]]

VARIABLES
    status,     \* whether a router waits for INIT, runs or has crashed
    table,      \* Routing_table: cost and next_hop_id of the route to a router
    topology,   \* Routing_topology: the cost of the link to a router
    listed,     \* the neighbours in the timeout list, who are sent updates
    heard,      \* the neighbours whose timer runs (recv = 1)
    toRouter,   \* toRouter[v][x]: datagrams under way from v to x
    updates     \* UPDATE messages still to come

vars == <<status, table, topology, listed, heard, toRouter, updates>>

running == { x \in Router : status[x] = "running" }

Entry == [cost : 0 .. INF, next_hop_id : Router \cup {INF}]

Neighbours(x) == { v \in Router \ {x} : Cost[x][v] < INF }

-----------------------------------------------------------------------------
(* The tables *)

\* init_routing_table: what the controller's INIT makes of one router's entry.
Direct(x, y) ==
    [cost |-> Cost[x][y], next_hop_id |-> IF Cost[x][y] < INF THEN y ELSE INF]

\* Faulty variant: the entry is replaced by whatever v offers.
Relax_Always(entry, v, c, d) ==
    [cost |-> Uint16(c + d), next_hop_id |-> v]

\* Faulty variant: a route through v does not follow v's cost.
Relax_Sticky(entry, v, c, d) ==
    IF c + d < entry.cost
    THEN [cost |-> Uint16(c + d), next_hop_id |-> v]
    ELSE entry

\* Faulty variant: the cost of the link is left out.
Relax_Free(entry, v, c, d) ==
    IF entry.next_hop_id = v \/ d < entry.cost
    THEN [cost |-> d, next_hop_id |-> v]
    ELSE entry

\* update_routing_table, one entry: v, at the end of a link of cost c, is at
\* distance d.  The sum is compared as an int and stored in two bytes.
Relax(entry, v, c, d) ==
    IF entry.next_hop_id = v \/ c + d < entry.cost
    THEN [cost |-> Uint16(c + d), next_hop_id |-> v]
    ELSE entry

\* Faulty variant: the difference is taken the other way round.
Difference_Reversed(old, new) == IF new = INF THEN INF ELSE new - old

\* controller_update_topology: by how much the link became cheaper.
Difference(old, new) == IF new = INF THEN INF ELSE old - new

\* controller_update_routing_table, one entry.
Adjust(entry, v, difference) ==
    IF entry.next_hop_id # v THEN entry
    ELSE [entry EXCEPT !.cost =
             IF difference = INF THEN INF ELSE Uint16(@ - difference)]

\* Both, for router x and its link to v.
SetLink(x, v, new) ==
    /\ topology' = [topology EXCEPT ![x][v] = new]
    /\ table' = [table EXCEPT ![x] =
           [y \in Router |-> Adjust(@[y], v, Difference(topology[x][v], new))]]

\* make_update_packet.
Vector(x) == [y \in Router |-> table[x][y].cost]

-----------------------------------------------------------------------------
(* Events *)

Init ==
    /\ status = [x \in Router |-> "started"]
    /\ table = [x \in Router |-> [y \in Router |-> [cost |-> INF, next_hop_id |-> INF]]]
    /\ topology = [x \in Router |-> [y \in Router |-> INF]]
    /\ listed = [x \in Router |-> {}]
    /\ heard = [x \in Router |-> {}]
    /\ toRouter = [v \in Router |-> [x \in Router |-> <<>>]]
    /\ updates = UPDATES

\* INIT reaches router x: init_routing_table, initTimeOutList, and the router
\* socket is opened.
Initialise(x) ==
    /\ status[x] = "started"
    /\ status' = [status EXCEPT ![x] = "running"]
    /\ table' = [table EXCEPT ![x] = [y \in Router |-> Direct(x, y)]]
    /\ topology' = [topology EXCEPT ![x] = Cost[x]]
    /\ listed' = [listed EXCEPT ![x] = Neighbours(x)]
    /\ UNCHANGED <<heard, toRouter, updates>>

\* A datagram reaches a running router with room in its buffer, unless lost.
Reachable(x, v) == v \in running /\ Len(toRouter[x][v]) < MaxInFlight[x][v]

\* routing_update: the table goes to every neighbour in the list.
routing_update(x) ==
    /\ x \in running
    /\ \E arriving \in SUBSET { v \in listed[x] : Reachable(x, v) } :
          toRouter' = [toRouter EXCEPT ![x] =
              [v \in Router |-> IF v \in arriving THEN Append(@[v], Vector(x)) ELSE @[v]]]
    /\ UNCHANGED <<status, table, topology, listed, heard, updates>>

\* router_recv_hook: the timer of a listed sender starts, and the table
\* follows the vector whether the sender is listed or not.
router_recv_hook(x, v) ==
    /\ x \in running
    /\ toRouter[v][x] # <<>>
    /\ toRouter' = [toRouter EXCEPT ![v][x] = Tail(@)]
    /\ heard' = [heard EXCEPT ![x] = @ \cup (listed[x] \cap {v})]
    /\ table' = [table EXCEPT ![x] =
           [y \in Router |-> Relax(@[y], v, topology[x][v], Head(toRouter[v][x])[y])]]
    /\ UNCHANGED <<status, topology, listed, updates>>

\* rotate_head, when neighbour v has missed three updates.  select times out only
\* when there is nothing to read, and no datagram is under way that long.
NeighbourLost(x, v) ==
    /\ x \in running
    /\ v \in heard[x]
    /\ <<x, v>> \in UNRELIABLE \/ v \notin running
    /\ toRouter[v][x] = <<>>
    /\ listed' = [listed EXCEPT ![x] = @ \ {v}]
    /\ heard' = [heard EXCEPT ![x] = @ \ {v}]
    /\ SetLink(x, v, INF)
    /\ UNCHANGED <<status, toRouter, updates>>

\* UPDATE: update_topology_table.  The controller sends one message to each
\* end of the link, in any order.
update_topology_table(u) ==
    /\ u \in updates
    /\ u[1] \in running
    /\ updates' = updates \ {u}
    /\ SetLink(u[1], u[2], u[3])
    /\ UNCHANGED <<status, listed, heard, toRouter>>

\* CRASH: the main loop ends and the process with it.
crash_router(x) ==
    /\ x \in CRASHES \cap running
    /\ status' = [status EXCEPT ![x] = "crashed"]
    /\ toRouter' = [v \in Router |-> [toRouter[v] EXCEPT ![x] = <<>>]]
    /\ UNCHANGED <<table, topology, listed, heard, updates>>

Next ==
    \/ \E x \in Router : Initialise(x) \/ routing_update(x) \/ crash_router(x)
    \/ \E x, v \in Router : router_recv_hook(x, v) \/ NeighbourLost(x, v)
    \/ \E u \in UPDATES : update_topology_table(u)

Spec == Init /\ [][Next]_vars

(***************************************************************************)
(* Fairness.  The controller's messages arrive (they are TCP); the socket  *)
(* of a running router is read; a table is sent in every interval          *)
(* (TimeoutList, SendsInTime) and not all datagrams of a link are lost; a  *)
(* neighbour that falls silent is given up (TimeoutList, RemovesInTime).   *)
(***************************************************************************)
UpdateArrives(x, v) ==
    /\ routing_update(x)
    /\ Len(toRouter'[x][v]) > Len(toRouter[x][v])

Fairness ==
    /\ \A x \in Router : WF_vars(Initialise(x))
    /\ \A u \in UPDATES : WF_vars(update_topology_table(u))
    /\ \A x \in Router : \A v \in Neighbours(x) :
          /\ WF_vars(status[v] = "crashed" /\ NeighbourLost(x, v))
          /\ WF_vars(router_recv_hook(x, v))
          /\ SF_vars(UpdateArrives(x, v))

FairSpec == Spec /\ Fairness

-----------------------------------------------------------------------------
(* Properties *)

TypeOK ==
    /\ status \in [Router -> {"started", "running", "crashed"}]
    /\ table \in [Router -> [Router -> Entry]]
    /\ topology \in [Router -> [Router -> 0 .. INF]]
    /\ listed \in [Router -> SUBSET Router]
    /\ heard \in [Router -> SUBSET Router]
    /\ toRouter \in [Router -> [Router -> Seq([Router -> 0 .. INF])]]
    /\ updates \subseteq UPDATES

Minimum(S) == CHOOSE m \in S : \A n \in S : m <= n

UpdatesOf(x, y) == { u \in UPDATES : u[1] = x /\ u[2] = y }

\* The cost of a link when all UPDATE messages have arrived, and the lowest it
\* has at any time.
LinkCost(x, y) == IF UpdatesOf(x, y) = {} THEN Cost[x][y] ELSE (CHOOSE u \in UpdatesOf(x, y) : TRUE)[3]

LowestCost(x, y) == Minimum({Cost[x][y]} \cup { u[3] : u \in UpdatesOf(x, y) })

\* The cost of the cheapest walks when a link from x to y costs cost[x][y]: none
\* but those that stay, and those of one more link than walks d.
NoLink == [x \in Router |-> [y \in Router |-> IF x = y THEN 0 ELSE INF]]

OneMoreLink(cost, d) ==
    [x \in Router |-> [y \in Router |->
        Minimum({INF} \cup { cost[x][v] + d[v][y] : v \in Router })]]

CheapestWalks(cost) ==
    LET walks[n \in 0 .. Cardinality(Router)] ==
            IF n = 0 THEN NoLink ELSE OneMoreLink(cost, walks[n - 1])
    IN  walks[Cardinality(Router)]

Distance == CheapestWalks([x \in Router |-> [y \in Router |-> LinkCost(x, y)]])

Lowest == CheapestWalks([x \in Router |-> [y \in Router |-> LowestCost(x, y)]])

\* No route between routers that stay ever costs less than the cheapest walk
\* over links at their lowest: neither while neighbours count up behind each
\* other's old vectors, nor when the next hop crashes and is given up, nor
\* although the costs of the crashed router wrap around in the same vectors.
NeverBelow ==
    \A x \in running \ CRASHES : \A y \in Router \ CRASHES : table[x][y].cost >= Lowest[x][y]

\* The network is as the controller's INIT made it: no UPDATE has come, nobody
\* has crashed or was taken for crashed.
Quiet ==
    /\ updates = UPDATES
    /\ \A x \in Router : status[x] # "crashed"
    /\ \A x \in running : listed[x] = Neighbours(x)

\* In a network that does not change a table only improves, although an entry
\* follows its next hop without comparison and routers start at any time
\* (update_routing_table).
OnlyImproves ==
    [][Quiet' => \A x \in running : \A y \in Router : table'[x][y].cost <= table[x][y].cost]_vars

\* A route is never cheaper than its first link, while links become cheaper
\* and dearer and vectors with the old costs are still under way.
FirstLink ==
    \A x \in running : \A y \in Router \ {x} :
        LET v == table[x][y].next_hop_id
        IN  v # INF => table[x][y].cost >= topology[x][v]

\* Every router runs and no neighbour was given up.
Intact == running = Router /\ (\A x \in Router : listed[x] = Neighbours(x))

\* The same in a network with crashes, as long as none has happened and no
\* router has taken another one for crashed.
FirstLinkIntact == Intact => FirstLink

\* As long as this holds no router was lost by anyone.
Unbroken ==
    /\ \A x \in Router : status[x] # "crashed"
    /\ \A x \in running : listed[x] = Neighbours(x)

\* No sum that a vector is about to give the route to y is cut to two bytes
\* (update_routing_table).
DatagramsFit(y) ==
    \A x \in running : \A v \in Router : toRouter[v][x] # <<>> =>
        LET sum == topology[x][v] + Head(toRouter[v][x])[y]
        IN  table[x][y].next_hop_id = v \/ sum < table[x][y].cost => sum <= INF

\* No UPDATE is about to take the route to y out of two bytes or to restore a
\* link that was given up: INF is not a cost to count from
\* (controller_update_routing_table).
UpdatesFit(y) ==
    \A u \in updates : u[1] \in running =>
        LET old == topology[u[1]][u[2]]
        IN  /\ old # INF
            /\ table[u[1]][y].next_hop_id = u[2] /\ u[3] # INF =>
                  table[u[1]][y].cost - old + u[3] <= INF

\* The width of a cost only matters to routes to routers that are gone: counting
\* up takes no other cost out of two bytes (table.c:212, 261).
SumsFit ==
    \A y \in Router :
        Unbroken \/ y \notin CRASHES => DatagramsFit(y) /\ UpdatesFit(y)

\* The tables find the cheapest routes and keep them: between all routers when
\* the network stays intact, and else between those that stay.
Converges ==
    <>[](\A x, y \in Router :
            Intact \/ {x, y} \cap CRASHES = {} => table[x][y].cost = Distance[x][y])

-----------------------------------------------------------------------------
(* The inductive invariant *)

\* Who is listened to.
Lists ==
    \A x \in Router : heard[x] \subseteq listed[x] /\ listed[x] \subseteq Neighbours(x)

\* What a router knows of itself and of its links.
Own ==
    \A x \in running : topology[x] = Cost[x] /\ table[x][x] = [cost |-> 0, next_hop_id |-> x]

\* Datagrams are under way only along links of running routers.
AlongLinks ==
    \A v, x \in Router :
        toRouter[v][x] # <<>> => {v, x} \subseteq running /\ v \in Neighbours(x)

\* A vector is no better than those behind it and than its sender's table.
Improving ==
    \A v, x, y \in Router : \A i \in DOMAIN toRouter[v][x] :
        /\ table[v][y].cost <= toRouter[v][x][i][y]
        /\ \A j \in 1 .. i : toRouter[v][x][i][y] <= toRouter[v][x][j][y]

\* The route from x to y through v costs no less than anything v has said or
\* will say of it.
Behind(x, y, v) ==
    LET rest == table[x][y].cost - Cost[x][v] IN
    /\ v \in Neighbours(x)
    /\ rest >= 0
    /\ IF v \in running THEN table[v][y].cost <= rest ELSE v = y
    /\ \A i \in DOMAIN toRouter[v][x] : toRouter[v][x][i][y] <= rest

Following ==
    \A x \in running : \A y \in Router \ {x} :
        table[x][y].next_hop_id # INF => Behind(x, y, table[x][y].next_hop_id)

\* The tables, the vectors under way and the links of running routers are not
\* below their lowest, and what is left of a route behind its first link is not
\* below what the next hop may have.
Grounded(y) ==
    /\ \A x \in Router :
          /\ Lowest[x][y] <= table[x][y].cost
          /\ \A w \in Router : \A i \in DOMAIN toRouter[x][w] :
                Lowest[x][y] <= toRouter[x][w][i][y]
    /\ \A x \in running : \A v \in Router :
          /\ LowestCost(x, v) <= topology[x][v]
          /\ table[x][y].next_hop_id = v /\ topology[x][v] # INF =>
                topology[x][v] + Lowest[v][y] <= table[x][y].cost

IInv ==
    /\ TypeOK
    /\ Lists
    /\ Quiet => Own /\ AlongLinks /\ Improving /\ Following
=============================================================================
