------------------------- MODULE DistanceVectorProofs -------------------------
(***************************************************************************)
(* Type correctness of module DistanceVector in any network; for every     *)
(* network as long as it stays as INIT made it, that tables only improve,  *)
(* that no route undercuts its first link, and that none is cheaper than   *)
(* the cheapest walk; and, for every network as long as no sum is cut,     *)
(* that the routes between routers that stay are not cheaper than links at *)
(* their lowest allow, and none undercuts its first link while no router   *)
(* is lost.                                                                *)
(***************************************************************************)
EXTENDS DistanceVector, FiniteSetTheorems, WellFoundedInduction, TLAPS

Vec == [Router -> 0 .. INF]

\* The numbers that the constants are about.
LEMMA Numbers == INF \in Nat \ {0} /\ Router \subseteq Nat /\ INF \notin Router
BY EnvironmentAssumption

\* Two bytes hold a number from 0 to INF, whatever is cut off.
LEMMA TwoBytes ==
    ASSUME NEW n \in Int
    PROVE  Uint16(n) \in 0 .. INF /\ (n \in 0 .. INF => Uint16(n) = n)
BY Numbers DEF Uint16

\* A datagram put behind the others leaves them where they are.
LEMMA AppendPlaces ==
    ASSUME NEW s \in Seq(Vec), NEW e \in Vec, NEW i \in DOMAIN Append(s, e)
    PROVE  (i \in DOMAIN s /\ Append(s, e)[i] = s[i]) \/ Append(s, e)[i] = e
OBVIOUS

\* What update_routing_table makes of an entry.
LEMMA RelaxType ==
    ASSUME NEW entry \in Entry, NEW v \in Router, NEW c \in 0 .. INF, NEW d \in 0 .. INF
    PROVE  Relax(entry, v, c, d) \in Entry
<1>1. Uint16(c + d) \in 0 .. INF
  BY TwoBytes, Numbers
<1> QED
  BY <1>1 DEF Relax, Entry

\* What controller_update_routing_table makes of an entry.
LEMMA AdjustType ==
    ASSUME NEW entry \in Entry, NEW v, NEW old \in 0 .. INF, NEW new \in 0 .. INF
    PROVE  Adjust(entry, v, Difference(old, new)) \in Entry
<1>1. Difference(old, new) \in Int
  BY Numbers DEF Difference
<1>2. Uint16(entry.cost - Difference(old, new)) \in 0 .. INF
  BY <1>1, TwoBytes, Numbers DEF Entry
<1>3. INF \in 0 .. INF
  BY Numbers
<1> QED
  BY <1>2, <1>3 DEF Adjust, Entry

\* A link is changed in the table and the topology of one router.
LEMMA SetLinkType ==
    ASSUME table \in [Router -> [Router -> Entry]],
           topology \in [Router -> [Router -> 0 .. INF]],
           NEW x \in Router, NEW v \in Router, NEW new \in 0 .. INF, SetLink(x, v, new)
    PROVE  table' \in [Router -> [Router -> Entry]] /\ topology' \in [Router -> [Router -> 0 .. INF]]
<1>1. \A y \in Router : Adjust(table[x][y], v, Difference(topology[x][v], new)) \in Entry
  BY AdjustType
<1> QED
  BY <1>1 DEF SetLink

\* Taking the oldest datagram moves the others one place forward.
LEMMA TailPlaces ==
    ASSUME NEW s \in Seq(Vec), s # <<>>
    PROVE  /\ DOMAIN s = 1 .. Len(s) /\ Len(s) \in Nat \ {0}
           /\ DOMAIN Tail(s) = 1 .. Len(s) - 1
           /\ \A j \in 1 .. Len(s) - 1 : Tail(s)[j] = s[j + 1]
OBVIOUS

\* Links have the same cost in both directions.
LEMMA NeighboursMutual == \A x, v \in Router : v \in Neighbours(x) <=> x \in Neighbours(v)
BY CostAssumption DEF Neighbours

\* The types in the form the proofs use.
LEMMA Ranges ==
    ASSUME TypeOK
    PROVE  /\ INF \in Nat /\ INF \notin Router /\ running \subseteq Router
           /\ \A x, y \in Router : table[x][y] \in Entry /\ table[x][y].cost \in 0 .. INF
           /\ \A x, y \in Router : Cost[x][y] \in 0 .. INF
           /\ toRouter \in [Router -> [Router -> Seq(Vec)]]
           /\ \A v, x \in Router : toRouter[v][x] \in Seq(Vec)
           /\ \A v, x \in Router : \A i \in DOMAIN toRouter[v][x] :
                 /\ i \in Nat \ {0} /\ toRouter[v][x][i] \in Vec
                 /\ \A y \in Router : toRouter[v][x][i][y] \in 0 .. INF
<1>1. INF \in Nat /\ INF \notin Router /\ running \subseteq Router
  BY Numbers DEF running
<1>2. \A x, y \in Router : table[x][y] \in Entry /\ table[x][y].cost \in 0 .. INF
  BY DEF TypeOK, Entry
<1>3. \A x, y \in Router : Cost[x][y] \in 0 .. INF
  BY CostAssumption
<1>4. toRouter \in [Router -> [Router -> Seq(Vec)]]
  BY DEF TypeOK, Vec
<1>5. \A v, x \in Router : toRouter[v][x] \in Seq(Vec)
  BY <1>4
<1>6. \A v, x \in Router : \A i \in DOMAIN toRouter[v][x] : i \in Nat \ {0} /\ toRouter[v][x][i] \in Vec
  BY <1>5
<1>7. \A e \in Vec : \A y \in Router : e[y] \in 0 .. INF
  BY DEF Vec
<1> QED
  BY <1>1, <1>2, <1>3, <1>4, <1>5, <1>6, <1>7

\* What routing_update leaves under way.
LEMMA UpdateSends ==
    ASSUME TypeOK, NEW x \in Router, routing_update(x)
    PROVE  /\ toRouter' \in [Router -> [Router -> Seq(Vec)]]
           /\ Vector(x) \in Vec
           /\ \A u, w \in Router :
                 \/ toRouter'[u][w] = toRouter[u][w]
                 \/ /\ u = x /\ w \in listed[x] /\ w \in running
                    /\ toRouter'[u][w] = Append(toRouter[u][w], Vector(x))
<1>1. Vector(x) \in Vec
  BY DEF TypeOK, Vector, Vec, Entry
<1>2. PICK arriving \in SUBSET { v \in listed[x] : Reachable(x, v) } :
          toRouter' = [toRouter EXCEPT ![x] =
              [v \in Router |-> IF v \in arriving THEN Append(@[v], Vector(x)) ELSE @[v]]]
  BY DEF routing_update
<1>3. toRouter \in [Router -> [Router -> Seq(Vec)]]
  BY DEF TypeOK, Vec
<1>4. \A w \in arriving : w \in listed[x] /\ w \in running
  BY <1>2 DEF Reachable
<1>5. \A u, w \in Router :
          toRouter'[u][w] = IF u = x /\ w \in arriving
                            THEN Append(toRouter[u][w], Vector(x)) ELSE toRouter[u][w]
  BY <1>2, <1>3
<1>6. toRouter' \in [Router -> [Router -> Seq(Vec)]]
  <2>1. \A w \in Router : (IF w \in arriving THEN Append(toRouter[x][w], Vector(x)) ELSE toRouter[x][w]) \in Seq(Vec)
    BY <1>1, <1>3
  <2> QED
    BY <1>2, <1>3, <2>1
<1> QED
  BY <1>1, <1>4, <1>5, <1>6

\* What router_recv_hook leaves under way, and what it makes of the table.
LEMMA RecvTakes ==
    ASSUME TypeOK, NEW x \in Router, NEW v \in Router, router_recv_hook(x, v)
    PROVE  /\ toRouter' \in [Router -> [Router -> Seq(Vec)]]
           /\ Head(toRouter[v][x]) = toRouter[v][x][1] /\ toRouter[v][x][1] \in Vec
           /\ toRouter'[v][x] = Tail(toRouter[v][x])
           /\ \A u, w \in Router : <<u, w>> # <<v, x>> => toRouter'[u][w] = toRouter[u][w]
           /\ table' \in [Router -> [Router -> Entry]]
           /\ \A u \in Router \ {x} : table'[u] = table[u]
           /\ \A y \in Router :
                 table'[x][y] = Relax(table[x][y], v, topology[x][v], toRouter[v][x][1][y])
<1>1. toRouter \in [Router -> [Router -> Seq(Vec)]] /\ toRouter[v][x] # <<>>
  BY DEF TypeOK, Vec, router_recv_hook
<1>2. /\ Head(toRouter[v][x]) = toRouter[v][x][1] /\ toRouter[v][x][1] \in Vec
      /\ Tail(toRouter[v][x]) \in Seq(Vec)
  BY <1>1
<1>3. /\ toRouter' \in [Router -> [Router -> Seq(Vec)]]
      /\ toRouter'[v][x] = Tail(toRouter[v][x])
      /\ \A u, w \in Router : <<u, w>> # <<v, x>> => toRouter'[u][w] = toRouter[u][w]
  BY <1>1, <1>2 DEF router_recv_hook
<1>4. \A y \in Router : Relax(table[x][y], v, topology[x][v], toRouter[v][x][1][y]) \in Entry
  BY <1>2, RelaxType DEF TypeOK, Vec
<1>5. table' = [table EXCEPT ![x] =
          [y \in Router |-> Relax(table[x][y], v, topology[x][v], toRouter[v][x][1][y])]]
  BY <1>2 DEF router_recv_hook
<1>6. table \in [Router -> [Router -> Entry]]
  BY DEF TypeOK
<1> QED
  BY <1>2, <1>3, <1>4, <1>5, <1>6

\* Every variable keeps its type.
LEMMA TypeNext == TypeOK /\ [Next]_vars => TypeOK'
<1> SUFFICES ASSUME TypeOK, [Next]_vars PROVE TypeOK'
  OBVIOUS
<1> USE Numbers
<1>1. ASSUME NEW x \in Router, Initialise(x) PROVE TypeOK'
  <2>1. \A y \in Router : Direct(x, y) \in Entry
    BY CostAssumption DEF Direct, Entry
  <2>2. [y \in Router |-> Direct(x, y)] \in [Router -> Entry]
    BY <2>1
  <2>3. Neighbours(x) \in SUBSET Router
    BY DEF Neighbours
  <2>4. Cost[x] \in [Router -> 0 .. INF]
    BY CostAssumption
  <2> QED
    BY <1>1, <2>2, <2>3, <2>4 DEF Initialise, TypeOK
<1>2. ASSUME NEW x \in Router, routing_update(x) PROVE TypeOK'
  BY <1>2, UpdateSends DEF TypeOK, routing_update, Vec
<1>3. ASSUME NEW x \in Router, NEW v \in Router, router_recv_hook(x, v) PROVE TypeOK'
  <2>1. heard' \in [Router -> SUBSET Router]
    BY <1>3 DEF TypeOK, router_recv_hook
  <2> QED
    BY <1>3, <2>1, RecvTakes DEF TypeOK, router_recv_hook, Vec
<1>4. ASSUME NEW x \in Router, NEW v \in Router, NeighbourLost(x, v) PROVE TypeOK'
  <2>1. listed' \in [Router -> SUBSET Router] /\ heard' \in [Router -> SUBSET Router]
    BY <1>4 DEF TypeOK, NeighbourLost
  <2>2. table' \in [Router -> [Router -> Entry]] /\ topology' \in [Router -> [Router -> 0 .. INF]]
    <3>1. INF \in 0 .. INF
      OBVIOUS
    <3>2. SetLink(x, v, INF)
      BY <1>4 DEF NeighbourLost
    <3> QED
      BY <3>1, <3>2, SetLinkType DEF TypeOK
  <2> QED
    BY <1>4, <2>1, <2>2 DEF TypeOK, NeighbourLost
<1>5. ASSUME NEW u \in UPDATES, update_topology_table(u) PROVE TypeOK'
  <2>1. u[1] \in Router /\ u[2] \in Router /\ u[3] \in 0 .. INF
    BY EnvironmentAssumption
  <2>2. table' \in [Router -> [Router -> Entry]] /\ topology' \in [Router -> [Router -> 0 .. INF]]
    BY <1>5, <2>1, SetLinkType DEF TypeOK, update_topology_table
  <2> QED
    BY <1>5, <2>2 DEF TypeOK, update_topology_table
<1>6. ASSUME NEW x \in Router, crash_router(x) PROVE TypeOK'
  <2>1. toRouter' \in [Router -> [Router -> Seq(Vec)]]
    <3>1. toRouter \in [Router -> [Router -> Seq(Vec)]]
      BY DEF TypeOK, Vec
    <3>2. \A v \in Router : [toRouter[v] EXCEPT ![x] = <<>>] \in [Router -> Seq(Vec)]
      BY <3>1
    <3>3. toRouter' = [v \in Router |-> [toRouter[v] EXCEPT ![x] = <<>>]]
      BY <1>6 DEF crash_router
    <3> QED
      BY <3>2, <3>3
  <2>2. status' \in [Router -> {"started", "running", "crashed"}]
    BY <1>6 DEF TypeOK, crash_router
  <2> QED
    BY <1>6, <2>1, <2>2 DEF TypeOK, crash_router, Vec
<1>7. CASE UNCHANGED vars
  BY <1>7 DEF TypeOK, vars
<1> QED
  BY <1>1, <1>2, <1>3, <1>4, <1>5, <1>6, <1>7 DEF Next
\* Who is listened to, in every network.
LEMMA ListsNext == TypeOK /\ Lists /\ [Next]_vars => Lists'
<1> SUFFICES ASSUME TypeOK, Lists, [Next]_vars PROVE Lists'
  OBVIOUS
<1>1. ASSUME NEW x \in Router, Initialise(x) PROVE Lists'
  <2>1. Lists /\ TypeOK /\ heard' = heard /\ listed' = [listed EXCEPT ![x] = Neighbours(x)]
    BY <1>1 DEF Initialise
  <2> QED
    BY <2>1 DEF Lists, TypeOK
<1>2. ASSUME NEW x \in Router, NEW v \in Router, router_recv_hook(x, v) PROVE Lists'
  BY <1>2 DEF Lists, TypeOK, router_recv_hook
<1>3. ASSUME NEW x \in Router, NEW v \in Router, NeighbourLost(x, v) PROVE Lists'
  BY <1>3 DEF Lists, TypeOK, NeighbourLost
<1>4. ASSUME UNCHANGED <<listed, heard>> PROVE Lists'
  BY <1>4 DEF Lists
<1> QED
  BY <1>1, <1>2, <1>3, <1>4 DEF Next, vars, routing_update, update_topology_table, crash_router

\* The steps of a network that stays as it was.
LEMMA QuietSteps ==
    ASSUME TypeOK, Lists, [Next]_vars, Quiet'
    PROVE  /\ Quiet
           /\ \/ \E x \in Router : Initialise(x) \/ routing_update(x)
              \/ \E x, v \in Router : router_recv_hook(x, v)
              \/ UNCHANGED vars
<1>1. ASSUME NEW x \in Router, Initialise(x) PROVE Quiet
  <2>1. \A w \in Router \ {x} : status'[w] = status[w] /\ listed'[w] = listed[w]
    BY <1>1 DEF Initialise, TypeOK
  <2>2. status[x] = "started" /\ updates' = updates
    BY <1>1 DEF Initialise
  <2> QED
    BY <2>1, <2>2 DEF Quiet, running
<1>2. ASSUME UNCHANGED <<status, listed, updates>> PROVE Quiet
  BY <1>2 DEF Quiet, running
<1>3. ASSUME NEW x \in Router, NEW v \in Router, NeighbourLost(x, v) PROVE FALSE
  <2>1. v \in heard[x] /\ listed'[x] = listed[x] \ {v} /\ status' = status /\ x \in running
    BY <1>3 DEF NeighbourLost, TypeOK
  <2>2. v \in Neighbours(x)
    BY <2>1 DEF Lists
  <2>3. listed'[x] = Neighbours(x)
    BY <2>1 DEF Quiet, running
  <2> QED
    BY <2>1, <2>2, <2>3
<1>4. ASSUME NEW u \in UPDATES, update_topology_table(u) PROVE FALSE
  BY <1>4 DEF update_topology_table, Quiet
<1>5. ASSUME NEW x \in Router, crash_router(x) PROVE FALSE
  BY <1>5 DEF crash_router, Quiet, TypeOK
<1> QED
  BY <1>1, <1>2, <1>3, <1>4, <1>5
  DEF Next, vars, routing_update, router_recv_hook

Static == Own /\ AlongLinks /\ Improving /\ Following

\* A router that starts.
LEMMA StaticInitialise ==
    ASSUME TypeOK, Static, NEW x \in Router, Initialise(x)
    PROVE  Static'
<1> USE Numbers
<1>1. /\ x \notin running /\ running' = running \cup {x}
      /\ toRouter' = toRouter
      /\ table'[x] = [y \in Router |-> Direct(x, y)] /\ topology'[x] = Cost[x]
      /\ \A w \in Router \ {x} : table'[w] = table[w] /\ topology'[w] = topology[w]
      /\ running \subseteq Router
  BY DEF Initialise, TypeOK, running
<1>2. \A w \in Router : toRouter[x][w] = <<>> /\ toRouter[w][x] = <<>>
  BY <1>1 DEF Static, AlongLinks
<1>3. Own'
  <2>1. Direct(x, x) = [cost |-> 0, next_hop_id |-> x]
    <3>1. Cost[x][x] = 0 /\ 0 < INF
      BY CostAssumption
    <3> QED
      BY <3>1 DEF Direct
  <2>2. table'[x][x] = [cost |-> 0, next_hop_id |-> x]
    BY <1>1, <2>1
  <2>3. \A w \in running : w \in Router \ {x}
    BY <1>1
  <2> QED
    BY <1>1, <2>2, <2>3 DEF Static, Own
<1>4. AlongLinks'
  BY <1>1 DEF Static, AlongLinks
<1>5. Improving'
  <2> SUFFICES ASSUME NEW v \in Router, NEW w \in Router, NEW y \in Router,
                      NEW i \in DOMAIN toRouter[v][w]
               PROVE  /\ table'[v][y].cost <= toRouter[v][w][i][y]
                      /\ \A j \in 1 .. i : toRouter[v][w][i][y] <= toRouter[v][w][j][y]
    BY <1>1 DEF Improving
  <2>1. v # x
    BY <1>2
  <2> QED
    BY <1>1, <2>1 DEF Static, Improving
<1>6. Following'
  <2> SUFFICES ASSUME NEW w \in running', NEW y \in Router \ {w},
                      table'[w][y].next_hop_id # INF
               PROVE  Behind(w, y, table[w][y].next_hop_id)'
    BY DEF Following
  <2>1. CASE w = x
    <3>1. Cost[x][y] < INF /\ table'[x][y] = [cost |-> Cost[x][y], next_hop_id |-> y]
      BY <1>1, <2>1, CostAssumption DEF Direct
    <3>2. y \in Neighbours(x) /\ toRouter[y][x] = <<>>
      BY <1>2, <2>1, <3>1 DEF Neighbours
    <3>3. y \in running' => table'[y][y].cost = 0
      <4>1. y \in Router \ {x} /\ table'[y] = table[y]
        BY <1>1, <2>1
      <4>2. y \in running' => y \in running
        BY <1>1, <4>1
      <4>3. y \in running => table[y][y].cost = 0
        <5>1. Own
          BY DEF Static
        <5>2. y \in running => table[y][y] = [cost |-> 0, next_hop_id |-> y]
          BY <5>1 DEF Own
        <5> QED
          BY <5>2
      <4> QED
        BY <4>1, <4>2, <4>3
    <3>4. toRouter'[y][x] = <<>> /\ Cost[x][y] \in 0 .. INF
      BY <1>1, <3>2, CostAssumption
    <3>5. table'[x][y].cost = Cost[x][y] /\ table'[x][y].next_hop_id = y
      BY <3>1
    <3> QED
      BY <2>1, <3>2, <3>3, <3>4, <3>5 DEF Behind
  <2>2. CASE w # x
    <3> DEFINE v == table[w][y].next_hop_id
    <3>1. w \in running /\ w \in Router /\ table'[w] = table[w] /\ Behind(w, y, v)
      BY <1>1, <2>2 DEF Static, Following, running
    <3>2. CASE v # x
      <4>1. v \in Router
        BY <3>1 DEF Behind, Neighbours
      <4>2. table'[v] = table[v] /\ (v \in running' <=> v \in running) /\ table'[w][y] = table[w][y]
        BY <1>1, <3>1, <3>2, <4>1
      <4>3. table'[w][y].next_hop_id = v /\ toRouter' = toRouter
        BY <1>1, <4>2
      <4> QED
        BY <3>1, <4>2, <4>3 DEF Behind
    <3>3. CASE v = x
      <4>1. y = x
        BY <1>1, <3>1, <3>3 DEF Behind
      <4>2. table'[x][x].cost = 0 /\ x \in running'
        <5>1. x \in running'
          BY <1>1
        <5>2. table'[x][x] = [cost |-> 0, next_hop_id |-> x]
          BY <1>3, <5>1 DEF Own
        <5> QED
          BY <5>1, <5>2
      <4>3. table'[w][y] = table[w][y] /\ toRouter'[x][w] = <<>>
        BY <1>1, <1>2, <3>1
      <4>4. x \in Neighbours(w) /\ table[w][y].cost - Cost[w][x] >= 0
        BY <3>1, <3>3 DEF Behind
      <4>5. table'[w][y].next_hop_id = x
        BY <3>3, <4>3
      <4> QED
        BY <4>1, <4>2, <4>3, <4>4, <4>5 DEF Behind
    <3> QED
      BY <3>2, <3>3
  <2> QED
    BY <2>1, <2>2
<1> QED
  BY <1>3, <1>4, <1>5, <1>6 DEF Static

\* A router sends its table.
LEMMA StaticSend ==
    ASSUME TypeOK, Lists, Static, NEW x \in Router, routing_update(x)
    PROVE  Static'
<1> USE Numbers
<1>1. UNCHANGED <<status, table, topology>> /\ running' = running /\ x \in running
  BY DEF routing_update, running
<1>2. /\ toRouter' \in [Router -> [Router -> Seq(Vec)]]
      /\ Vector(x) \in Vec
      /\ \A u, w \in Router :
            \/ toRouter'[u][w] = toRouter[u][w]
            \/ /\ u = x /\ w \in listed[x] /\ w \in running
               /\ toRouter'[u][w] = Append(toRouter[u][w], Vector(x))
  BY UpdateSends
<1>3. \A y \in Router : Vector(x)[y] = table[x][y].cost
  BY DEF Vector
<1>4. toRouter \in [Router -> [Router -> Seq(Vec)]]
  BY DEF TypeOK, Vec
\* Every datagram under way is an old one, or the last and the table.
<1>5. ASSUME NEW u \in Router, NEW w \in Router, NEW i \in DOMAIN toRouter'[u][w]
      PROVE  /\ i \in Nat \ {0}
             /\ \/ i \in DOMAIN toRouter[u][w] /\ toRouter'[u][w][i] = toRouter[u][w][i]
                \/ u = x /\ i = Len(toRouter[u][w]) + 1 /\ toRouter'[u][w][i] = Vector(x)
             /\ \A j \in 1 .. i - 1 :
                   j \in DOMAIN toRouter[u][w] /\ toRouter'[u][w][j] = toRouter[u][w][j]
  <2>1. CASE toRouter'[u][w] = toRouter[u][w]
    BY SMTT(30), <1>4, <1>5, <2>1
  <2>2. CASE u = x /\ toRouter'[u][w] = Append(toRouter[u][w], Vector(x))
    <3> DEFINE s == toRouter[u][w]
    <3>1. s \in Seq(Vec) /\ Len(s) \in Nat /\ DOMAIN s = 1 .. Len(s)
      <4>1. toRouter[u] \in [Router -> Seq(Vec)]
        BY <1>4
      <4>2. s \in Seq(Vec)
        BY <4>1
      <4> HIDE DEF s
      <4> QED
        BY <4>2
    <3>2. DOMAIN toRouter'[u][w] = 1 .. Len(s) + 1 /\ toRouter'[u][w][Len(s) + 1] = Vector(x)
      BY SMTT(30), <1>2, <2>2, <3>1
    <3>3. \A j \in 1 .. Len(s) : toRouter'[u][w][j] = s[j]
      BY <1>2, <2>2, <3>1
    <3>4. i \in 1 .. Len(s) + 1
      BY <1>5, <3>2
    <3> HIDE DEF s
    <3>5. /\ i \in Nat \ {0}
          /\ i \in 1 .. Len(s) \/ i = Len(s) + 1
          /\ \A j \in 1 .. i - 1 : j \in 1 .. Len(s)
      BY <3>1, <3>4
    <3>6. /\ i \in Nat \ {0}
          /\ \/ i \in DOMAIN s /\ toRouter'[u][w][i] = s[i]
             \/ i = Len(s) + 1 /\ toRouter'[u][w][i] = Vector(x)
          /\ \A j \in 1 .. i - 1 : j \in DOMAIN s /\ toRouter'[u][w][j] = s[j]
      BY <3>1, <3>2, <3>3, <3>5
    <3> QED
      BY <2>2, <3>6 DEF s
  <2> QED
    BY <1>2, <2>1, <2>2
<1>6. AlongLinks'
  <2> SUFFICES ASSUME NEW u \in Router, NEW w \in Router, toRouter'[u][w] # <<>>
               PROVE  {u, w} \subseteq running /\ u \in Neighbours(w)
    BY <1>1 DEF AlongLinks
  <2>1. CASE toRouter'[u][w] = toRouter[u][w]
    BY <2>1 DEF Static, AlongLinks
  <2>2. CASE u = x /\ w \in listed[x] /\ w \in running
    BY <1>1, <2>2, NeighboursMutual DEF Lists
  <2> QED
    BY <1>2, <2>1, <2>2
<1>7. Improving'
  <2> SUFFICES ASSUME NEW u \in Router, NEW w \in Router, NEW y \in Router,
                      NEW i \in DOMAIN toRouter'[u][w]
               PROVE  /\ table[u][y].cost <= toRouter'[u][w][i][y]
                      /\ \A j \in 1 .. i : toRouter'[u][w][i][y] <= toRouter'[u][w][j][y]
    BY <1>1 DEF Improving
  <2>1. table[u][y].cost \in 0 .. INF
    BY Ranges
  <2>2. table[u][y].cost <= toRouter'[u][w][i][y] /\ toRouter'[u][w][i][y] \in 0 .. INF
    <3>1. CASE i \in DOMAIN toRouter[u][w] /\ toRouter'[u][w][i] = toRouter[u][w][i]
      BY <3>1, Ranges DEF Static, Improving
    <3>2. CASE u = x /\ toRouter'[u][w][i] = Vector(x)
      BY <1>3, <2>1, <3>2
    <3> QED
      BY <1>5, <3>1, <3>2
  <2>3. ASSUME NEW j \in 1 .. i - 1 PROVE toRouter'[u][w][i][y] <= toRouter'[u][w][j][y]
    <3>1. j \in DOMAIN toRouter[u][w] /\ toRouter'[u][w][j] = toRouter[u][w][j]
      BY <1>5
    <3>2. CASE i \in DOMAIN toRouter[u][w] /\ toRouter'[u][w][i] = toRouter[u][w][i]
      <4>1. j \in 1 .. i
        BY <1>5
      <4> QED
        BY <3>1, <3>2, <4>1 DEF Static, Improving
    <3>3. CASE u = x /\ toRouter'[u][w][i] = Vector(x)
      BY <1>3, <3>1, <3>3 DEF Static, Improving
    <3> QED
      BY <1>5, <3>2, <3>3
  <2>4. \A j \in 1 .. i : j = i \/ j \in 1 .. i - 1
    BY <1>5
  <2> QED
    BY <2>2, <2>3, <2>4
<1>8. Following'
  <2> SUFFICES ASSUME NEW w \in running, NEW y \in Router \ {w},
                      table[w][y].next_hop_id # INF
               PROVE  Behind(w, y, table[w][y].next_hop_id)'
    BY <1>1 DEF Following
  <2> DEFINE v == table[w][y].next_hop_id
  <2>1. Behind(w, y, v) /\ v \in Router /\ w \in Router
    BY DEF Static, Following, Behind, Neighbours, running
  <2>2. ASSUME NEW i \in DOMAIN toRouter'[v][w]
        PROVE  toRouter'[v][w][i][y] <= table[w][y].cost - Cost[w][v]
    <3> HIDE DEF v
    <3>1. CASE i \in DOMAIN toRouter[v][w] /\ toRouter'[v][w][i] = toRouter[v][w][i]
      BY <2>1, <3>1 DEF Behind
    <3>2. CASE v = x /\ toRouter'[v][w][i] = Vector(x)
      BY <1>1, <1>3, <2>1, <3>2 DEF Behind
    <3>3. v \in Router /\ w \in Router
      BY <2>1
    <3>4. \/ i \in DOMAIN toRouter[v][w] /\ toRouter'[v][w][i] = toRouter[v][w][i]
          \/ v = x /\ toRouter'[v][w][i] = Vector(x)
      BY <1>5, <3>3
    <3> QED
      BY <3>1, <3>2, <3>4
  <2> QED
    BY <1>1, <2>1, <2>2 DEF Behind
<1> QED
  BY <1>1, <1>6, <1>7, <1>8 DEF Static, Own

\* A router hears a vector: its entries do not get worse.
LEMMA RecvImproves ==
    ASSUME TypeOK, Static, NEW x \in Router, NEW v \in Router, router_recv_hook(x, v)
    PROVE  /\ x \in running /\ v \in running /\ v \in Neighbours(x) /\ v # x
           /\ table'[x][x] = table[x][x]
           /\ \A y \in Router :
                 /\ table'[x][y].cost <= table[x][y].cost
                 /\ \/ table'[x][y] = table[x][y] /\ table[x][y].next_hop_id # v
                    \/ y # x /\ table'[x][y] = [cost |-> Cost[x][v] + toRouter[v][x][1][y], next_hop_id |-> v]
<1> USE Numbers
<1>1. x \in running /\ v \in running /\ v \in Neighbours(x) /\ v # x /\ 1 \in DOMAIN toRouter[v][x]
  BY SMTT(30) DEF router_recv_hook, Static, AlongLinks, Neighbours, TypeOK
<1>2. topology[x] = Cost[x] /\ table[x][x] = [cost |-> 0, next_hop_id |-> x]
  BY <1>1 DEF Static, Own
<1>3. /\ toRouter[v][x][1] \in Vec
      /\ \A y \in Router : table'[x][y] = Relax(table[x][y], v, Cost[x][v], toRouter[v][x][1][y])
  BY <1>2, RecvTakes
<1>4. ASSUME NEW y \in Router
      PROVE  /\ table'[x][y].cost <= table[x][y].cost
             /\ \/ table'[x][y] = table[x][y] /\ table[x][y].next_hop_id # v
                \/ y # x /\ table'[x][y] = [cost |-> Cost[x][v] + toRouter[v][x][1][y], next_hop_id |-> v]
  <2> DEFINE c == Cost[x][v]
             d == toRouter[v][x][1][y]
             e == table[x][y]
  <2>1. c \in 0 .. INF /\ d \in 0 .. INF /\ e \in Entry /\ e.cost \in 0 .. INF
    BY <1>1, Ranges
  <2>2. CASE e.next_hop_id = v \/ c + d < e.cost
    <3>1. y # x
      <4>1. y = x => e.cost = 0 /\ e.next_hop_id = x
        BY <1>2
      <4> QED
        BY <1>1, <2>1, <2>2, <4>1
    <3>2. c + d <= e.cost
      <4>1. CASE e.next_hop_id = v
        <5>1. Behind(x, y, v)
          BY <1>1, <3>1, <4>1 DEF Static, Following
        <5>2. d <= e.cost - c
          BY <1>1, <5>1 DEF Behind
        <5> QED
          BY <2>1, <5>2
      <4> QED
        BY <2>1, <2>2, <4>1
    <3>3. Uint16(c + d) = c + d
      BY <2>1, <3>2, TwoBytes
    <3>4. table'[x][y] = [cost |-> c + d, next_hop_id |-> v]
      BY <1>3, <2>2, <3>3 DEF Relax
    <3> QED
      BY <3>1, <3>2, <3>4
  <2>3. CASE ~(e.next_hop_id = v \/ c + d < e.cost)
    <3>1. table'[x][y] = e
      BY <1>3, <2>3 DEF Relax
    <3> QED
      BY <2>1, <2>3, <3>1
  <2> QED
    BY <2>2, <2>3
<1> QED
  BY <1>1, <1>4

\* A router hears a vector.
LEMMA StaticRecv ==
    ASSUME TypeOK, Static, NEW x \in Router, NEW v \in Router, router_recv_hook(x, v)
    PROVE  Static'
<1> USE Numbers
<1> DEFINE q == toRouter[v][x]
<1>1. UNCHANGED <<status, topology>> /\ running' = running
  BY DEF router_recv_hook, running
<1>2. /\ x \in running /\ v \in running /\ v \in Neighbours(x) /\ v # x
      /\ table'[x][x] = table[x][x]
      /\ \A y \in Router :
            /\ table'[x][y].cost <= table[x][y].cost
            /\ \/ table'[x][y] = table[x][y] /\ table[x][y].next_hop_id # v
               \/ y # x /\ table'[x][y] = [cost |-> Cost[x][v] + q[1][y], next_hop_id |-> v]
  BY RecvImproves
<1>3. /\ toRouter'[v][x] = Tail(q) /\ q # <<>>
      /\ \A u, w \in Router : <<u, w>> # <<v, x>> => toRouter'[u][w] = toRouter[u][w]
      /\ \A u \in Router \ {x} : table'[u] = table[u]
      /\ table' \in [Router -> [Router -> Entry]] /\ table \in [Router -> [Router -> Entry]]
      /\ toRouter \in [Router -> [Router -> Seq(Vec)]]
      /\ q \in Seq(Vec)
  <2>1. toRouter[v][x] # <<>> /\ table \in [Router -> [Router -> Entry]]
    BY DEF router_recv_hook, TypeOK
  <2>2. toRouter \in [Router -> [Router -> Seq(Vec)]] /\ toRouter[v][x] \in Seq(Vec)
    BY Ranges
  <2>3. /\ toRouter'[v][x] = Tail(toRouter[v][x])
        /\ \A u, w \in Router : <<u, w>> # <<v, x>> => toRouter'[u][w] = toRouter[u][w]
        /\ \A u \in Router \ {x} : table'[u] = table[u]
        /\ table' \in [Router -> [Router -> Entry]]
    BY RecvTakes
  <2> QED
    BY <2>1, <2>2, <2>3
\* Every datagram that is under way was so before, perhaps one place behind.
<1>4. ASSUME NEW u \in Router, NEW w \in Router, NEW i \in DOMAIN toRouter'[u][w]
      PROVE  \E s \in {0, 1} :
                 /\ i + s \in DOMAIN toRouter[u][w] /\ i \in Nat \ {0}
                 /\ \A j \in 1 .. i : toRouter'[u][w][j] = toRouter[u][w][j + s] /\ j + s \in 1 .. i + s
                 /\ <<u, w>> = <<v, x>> <=> s = 1
  <2>1. CASE <<u, w>> = <<v, x>>
    <3>1. toRouter'[u][w] = Tail(q) /\ u = v /\ w = x
      BY <1>3, <2>1
    <3>2. DOMAIN q = 1 .. Len(q) /\ DOMAIN Tail(q) = 1 .. Len(q) - 1 /\ Len(q) \in Nat
      BY <1>3, TailPlaces
    <3>3. i \in 1 .. Len(q) - 1
      BY <1>4, <3>1, <3>2
    <3>4. \A j \in 1 .. Len(q) - 1 : Tail(q)[j] = q[j + 1]
      BY <1>3, TailPlaces
    <3> HIDE DEF q
    <3>5. i + 1 \in DOMAIN q /\ i \in Nat \ {0} /\ (\A j \in 1 .. i : j + 1 \in 1 .. i + 1 /\ j \in 1 .. Len(q) - 1)
      BY <3>2, <3>3
    <3>6. \A j \in 1 .. i : toRouter'[u][w][j] = q[j + 1]
      BY <3>1, <3>4, <3>5
    <3>7. q = toRouter[u][w]
      BY <3>1 DEF q
    <3> QED
      BY <2>1, <3>5, <3>6, <3>7
  <2>2. CASE <<u, w>> # <<v, x>>
    <3>1. toRouter'[u][w] = toRouter[u][w] /\ toRouter[u][w] \in Seq(Vec)
      BY <1>3, <2>2
    <3>2. i + 0 \in DOMAIN toRouter[u][w] /\ i \in Nat \ {0}
      BY <1>4, <3>1
    <3>3. \A j \in 1 .. i : toRouter'[u][w][j] = toRouter[u][w][j + 0] /\ j + 0 \in 1 .. i + 0
      BY <3>1, <3>2
    <3> QED
      BY <2>2, <3>2, <3>3
  <2> QED
    BY <2>1, <2>2
<1>5. Own'
  BY ZenonT(30), <1>1, <1>2, <1>3 DEF Static, Own, running
<1>6. AlongLinks'
  <2> SUFFICES ASSUME NEW u \in Router, NEW w \in Router, toRouter'[u][w] # <<>>
               PROVE  {u, w} \subseteq running /\ u \in Neighbours(w)
    BY <1>1 DEF AlongLinks
  <2>1. CASE <<u, w>> = <<v, x>>
    BY <1>2, <2>1
  <2>2. CASE <<u, w>> # <<v, x>>
    BY <1>3, <2>2 DEF Static, AlongLinks
  <2> QED
    BY <2>1, <2>2
<1>7. \A u, y \in Router :
         table'[u][y].cost <= table[u][y].cost /\ table'[u][y].cost \in 0 .. INF /\ table[u][y].cost \in 0 .. INF
  <2>1. \A u, y \in Router : table'[u][y].cost \in 0 .. INF
    BY <1>3 DEF Entry
  <2>2. \A u, y \in Router : table[u][y].cost \in 0 .. INF
    BY Ranges
  <2>3. ASSUME NEW u \in Router, NEW y \in Router PROVE table'[u][y].cost <= table[u][y].cost
    <3>1. CASE u = x
      BY <1>2, <3>1
    <3>2. CASE u # x
      <4>1. table'[u] = table[u]
        BY <1>3, <3>2
      <4>2. table[u][y].cost \in 0 .. INF
        BY <2>2
      <4>3. table'[u][y].cost = table[u][y].cost
        BY <4>1, Zenon
      <4> QED
        BY <4>2, <4>3
    <3> QED
      BY <3>1, <3>2
  <2> QED
    BY <2>1, <2>2, <2>3
<1>8. Improving'
  <2> SUFFICES ASSUME NEW u \in Router, NEW w \in Router, NEW y \in Router,
                      NEW i \in DOMAIN toRouter'[u][w]
               PROVE  /\ table'[u][y].cost <= toRouter'[u][w][i][y]
                      /\ \A j \in 1 .. i : toRouter'[u][w][i][y] <= toRouter'[u][w][j][y]
    BY DEF Improving
  <2>1. PICK s \in {0, 1} :
                 /\ i + s \in DOMAIN toRouter[u][w] /\ i \in Nat \ {0}
                 /\ \A j \in 1 .. i : toRouter'[u][w][j] = toRouter[u][w][j + s] /\ j + s \in 1 .. i + s
    <3>1. \E s \in {0, 1} :
                 /\ i + s \in DOMAIN toRouter[u][w] /\ i \in Nat \ {0}
                 /\ \A j \in 1 .. i : toRouter'[u][w][j] = toRouter[u][w][j + s] /\ j + s \in 1 .. i + s
                 /\ <<u, w>> = <<v, x>> <=> s = 1
      BY <1>4
    <3> QED
      BY <3>1, Zenon
  <2>2. i \in 1 .. i /\ toRouter'[u][w][i] = toRouter[u][w][i + s]
    BY <2>1
  <2>3. /\ table[u][y].cost <= toRouter[u][w][i + s][y]
        /\ \A j \in 1 .. i + s : toRouter[u][w][i + s][y] <= toRouter[u][w][j][y]
    BY <2>1 DEF Static, Improving
  <2>4. toRouter[u][w][i + s][y] \in 0 .. INF
    BY <2>1, Ranges
  <2>5. table'[u][y].cost <= toRouter'[u][w][i][y]
    <3>1. table'[u][y].cost <= table[u][y].cost /\ table'[u][y].cost \in 0 .. INF
          /\ table[u][y].cost \in 0 .. INF
      BY <1>7, Ranges
    <3>2. toRouter'[u][w][i][y] = toRouter[u][w][i + s][y]
      BY <2>2
    <3> QED
      BY <2>3, <2>4, <3>1, <3>2
  <2>6. ASSUME NEW j \in 1 .. i PROVE toRouter'[u][w][i][y] <= toRouter'[u][w][j][y]
    <3>1. toRouter'[u][w][j] = toRouter[u][w][j + s] /\ j + s \in 1 .. i + s
      BY <2>1
    <3> QED
      BY <2>2, <2>3, <3>1
  <2> QED
    BY <2>5, <2>6
<1>9. Following'
  <2> SUFFICES ASSUME NEW w \in running, NEW y \in Router \ {w},
                      table'[w][y].next_hop_id # INF
               PROVE  Behind(w, y, table[w][y].next_hop_id)'
    BY <1>1 DEF Following
  <2> DEFINE h == table'[w][y].next_hop_id
  <2>0. w \in Router
    BY DEF running
  <2>1. CASE w = x /\ table'[x][y] = [cost |-> Cost[x][v] + q[1][y], next_hop_id |-> v]
    <3>1. q[1][y] \in 0 .. INF /\ Cost[x][v] \in 0 .. INF
      <4>1. 1 \in DOMAIN q
        BY <1>3
      <4> QED
        BY <4>1, Ranges
    <3>2. table'[w][y].cost - Cost[w][h] = q[1][y] /\ h = v
      BY <2>1, <3>1
    <3>3. table'[v][y].cost <= q[1][y]
      <4>1. 1 \in DOMAIN q
        BY <1>3
      <4> QED
        BY <1>2, <1>3, <4>1 DEF Static, Improving
    <3>4. ASSUME NEW i \in DOMAIN toRouter'[v][x] PROVE toRouter'[v][x][i][y] <= q[1][y]
      <4>1. i + 1 \in DOMAIN q /\ toRouter'[v][x][i] = q[i + 1] /\ 1 \in 1 .. i + 1
        BY SMTT(30), <1>3
      <4> QED
        BY <4>1 DEF Static, Improving
    <3>5. v \in running' /\ v \in Neighbours(x) /\ q[1][y] >= 0
      BY <1>1, <1>2, <3>1
    <3> QED
      BY <2>1, <3>2, <3>3, <3>4, <3>5 DEF Behind
  <2>2. CASE table'[w][y] = table[w][y] /\ (w = x => table[w][y].next_hop_id # v)
    <3>1. Behind(w, y, h) /\ h \in Router /\ <<h, w>> # <<v, x>>
      <4>1. h = table[w][y].next_hop_id /\ h # INF
        BY <2>2
      <4>2. Behind(w, y, h)
        BY <4>1 DEF Static, Following
      <4> QED
        BY <2>2, <4>1, <4>2 DEF Behind, Neighbours
    <3>2. toRouter'[h][w] = toRouter[h][w]
      BY <1>3, <2>0, <3>1
    <3>3. Cost[w][h] \in 0 .. INF
      BY <2>0, <3>1, Ranges
    <3>4. /\ table'[h][y].cost <= table[h][y].cost /\ table'[h][y].cost \in 0 .. INF
          /\ table[h][y].cost \in 0 .. INF /\ table[w][y].cost \in 0 .. INF
      BY <1>7, <2>0, <3>1
    <3> HIDE DEF h
    <3>5. /\ h \in Neighbours(w) /\ table[w][y].cost - Cost[w][h] >= 0
          /\ IF h \in running THEN table[h][y].cost <= table[w][y].cost - Cost[w][h] ELSE h = y
          /\ \A i \in DOMAIN toRouter[h][w] : toRouter[h][w][i][y] <= table[w][y].cost - Cost[w][h]
      BY <3>1 DEF Behind
    <3>6. h \in running => table'[h][y].cost <= table[w][y].cost - Cost[w][h]
      BY <3>3, <3>4, <3>5
    <3> QED
      BY <1>1, <2>2, <3>2, <3>5, <3>6 DEF Behind, h
  <2> QED
    BY <1>2, <1>3, <2>0, <2>1, <2>2
<1> QED
  BY <1>5, <1>6, <1>8, <1>9 DEF Static

\* The initial state satisfies the invariant.
LEMMA IInvInit == Init => IInv
<1> SUFFICES ASSUME Init PROVE IInv
  OBVIOUS
<1>1. TypeOK
  <2>1. INF \in 0 .. INF /\ <<>> \in Seq([Router -> 0 .. INF])
    BY Numbers
  <2> QED
    BY <2>1 DEF Init, TypeOK, Entry
<1>2. Lists
  BY DEF Init, Lists
<1>3. running = {}
  BY DEF Init, running
<1>4. Own /\ AlongLinks /\ Improving /\ Following
  BY <1>3 DEF Init, Own, AlongLinks, Improving, Following
<1> QED
  BY <1>1, <1>2, <1>4 DEF IInv

\* Every step keeps the invariant.
LEMMA IInvNext == IInv /\ [Next]_vars => IInv'
<1> SUFFICES ASSUME IInv, [Next]_vars PROVE IInv'
  OBVIOUS
<1>1. TypeOK' /\ Lists'
  BY TypeNext, ListsNext DEF IInv
<1>2. ASSUME Quiet' PROVE Static'
  <2>1. TypeOK /\ Lists /\ Static
    BY <1>2, QuietSteps DEF IInv, Static
  <2>2. ASSUME NEW x \in Router, Initialise(x) PROVE Static'
    BY <2>1, <2>2, StaticInitialise
  <2>3. ASSUME NEW x \in Router, routing_update(x) PROVE Static'
    BY <2>1, <2>3, StaticSend
  <2>4. ASSUME NEW x \in Router, NEW v \in Router, router_recv_hook(x, v) PROVE Static'
    BY <2>1, <2>4, StaticRecv
  <2>5. CASE UNCHANGED vars
    <3>1. Own'
      BY <2>1, <2>5 DEF Static, Own, running, vars
    <3>2. AlongLinks' /\ Improving'
      BY <2>1, <2>5 DEF Static, AlongLinks, Improving, running, vars
    <3>3. Following'
      BY <2>1, <2>5 DEF Static, Following, Behind, running, vars
    <3> QED
      BY <3>1, <3>2, <3>3 DEF Static
  <2> QED
    BY <1>2, <2>1, <2>2, <2>3, <2>4, <2>5, QuietSteps
<1> QED
  BY <1>1, <1>2 DEF IInv, Static

\* The inductive invariant of the routers: types, who is listened to, and, as
\* long as the network stays as INIT made it, that every vector is no better
\* than what follows it (table.c, update_routing_table).
THEOREM Invariance == Spec => []IInv
<1>1. Init => IInv
  BY IInvInit
<1>2. IInv /\ [Next]_vars => IInv'
  BY IInvNext
<1> QED
  BY <1>1, <1>2, PTL DEF Spec

\* Costs fit into two bytes and next hops are routers, through crashes, changed
\* links and sums that wrap around (table.c).
THEOREM TypeCorrect == Spec => []TypeOK
<1>1. IInv => TypeOK
  BY DEF IInv
<1> QED
  BY <1>1, Invariance, PTL

\* In every network that does not change, tables only improve: following a
\* next hop without comparison (table.c:259) never makes a route dearer.
THEOREM TablesImprove == Spec => OnlyImproves
<1>1. ASSUME IInv, [Next]_vars, Quiet', NEW x \in running, NEW y \in Router
      PROVE  table'[x][y].cost <= table[x][y].cost
  <2>1. TypeOK /\ Lists /\ Static /\ x \in Router
    BY <1>1, QuietSteps DEF IInv, Static, running
  <2>2. table[x][y].cost \in Int
    BY <2>1 DEF TypeOK, Entry
  <2>3. ASSUME NEW z \in Router, Initialise(z) PROVE table'[x][y].cost <= table[x][y].cost
    <3>1. x # z
      BY <1>1, <2>3 DEF Initialise, running
    <3>2. table'[x] = table[x]
      BY <2>1, <2>3, <3>1 DEF Initialise, TypeOK
    <3> QED
      BY <2>2, <3>2
  <2>4. ASSUME NEW z \in Router, NEW v \in Router, router_recv_hook(z, v)
        PROVE  table'[x][y].cost <= table[x][y].cost
    <3>1. CASE x = z
      BY <2>1, <2>4, <3>1, RecvImproves
    <3>2. CASE x # z
      <4>1. table'[x] = table[x]
        BY <2>1, <2>4, <3>2, RecvTakes
      <4> QED
        BY <2>2, <4>1
    <3> QED
      BY <3>1, <3>2
  <2>5. CASE UNCHANGED table
    BY <2>2, <2>5
  <2> QED
    BY <1>1, <2>1, <2>3, <2>4, <2>5, QuietSteps DEF routing_update, vars
<1>2. IInv /\ [Next]_vars
      => [Quiet' => \A x \in running : \A y \in Router : table'[x][y].cost <= table[x][y].cost]_vars
  BY <1>1
<1> QED
  BY <1>2, Invariance, PTL DEF Spec, OnlyImproves

\* In every network that does not change, no route is cheaper than the link to
\* its next hop, which DVPhantom refutes for networks that do (table.c:260).
THEOREM NoUndercut == Spec => [](Quiet => FirstLink)
<1>1. ASSUME IInv, Quiet, NEW x \in running, NEW y \in Router \ {x}, table[x][y].next_hop_id # INF
      PROVE  table[x][y].cost >= topology[x][table[x][y].next_hop_id]
  <2> DEFINE v == table[x][y].next_hop_id
  <2>1. TypeOK /\ Behind(x, y, v) /\ topology[x] = Cost[x] /\ x \in Router
    BY <1>1 DEF IInv, Own, Following, running
  <2>2. v \in Router /\ table[x][y].cost - Cost[x][v] >= 0
    BY <2>1 DEF Behind, Neighbours
  <2>3. table[x][y].cost \in Int /\ Cost[x][v] \in Int
    BY SMTT(30), <2>1, <2>2, Ranges
  <2> HIDE DEF v
  <2>4. table[x][y].cost >= topology[x][v]
    BY <2>1, <2>2, <2>3
  <2> QED
    BY <2>4 DEF v
<1>2. IInv => (Quiet => FirstLink)
  BY <1>1 DEF FirstLink
<1> QED
  BY <1>2, Invariance, PTL

\* f[x][y] underestimates the cost of getting from x to y over the links.
Underestimate(f) ==
    /\ f \in [Router -> [Router -> 0 .. INF]]
    /\ \A x, v, y \in Router : f[y][y] = 0 /\ f[x][y] <= Cost[x][v] + f[v][y]

Above(f) ==
    \A x, y \in Router :
        /\ f[x][y] <= table[x][y].cost
        /\ \A w \in Router : \A i \in DOMAIN toRouter[x][w] : f[x][y] <= toRouter[x][w][i][y]

LEMMA AboveInit ==
    ASSUME NEW f, Underestimate(f), Init
    PROVE  Above(f)
<1> USE Numbers
<1>1. \A x, y \in Router : f[x][y] \in 0 .. INF /\ table[x][y].cost = INF
  BY DEF Underestimate, Init
<1>2. \A x, w \in Router : toRouter[x][w] = <<>>
  BY DEF Init
<1>3. \A x, w \in Router : DOMAIN toRouter[x][w] = {}
  <2>1. DOMAIN <<>> = {}
    OBVIOUS
  <2> QED
    BY <1>2, <2>1, Zenon
<1>4. \A x, y \in Router : f[x][y] <= table[x][y].cost
  BY <1>1
<1> QED
  BY <1>3, <1>4 DEF Above

\* A network that does not change keeps above an underestimate.
LEMMA AboveStep ==
    ASSUME NEW f, Underestimate(f), Above(f), TypeOK, Lists, Static, Quiet', [Next]_vars
    PROVE  Above(f)'
<1> USE Numbers
<1>0. \A x, y \in Router : f[x][y] \in 0 .. INF
  BY DEF Underestimate
<1>1. ASSUME NEW z \in Router, Initialise(z) PROVE Above(f)'
  <2>1. toRouter' = toRouter /\ (\A x \in Router \ {z} : table'[x] = table[x])
    BY <1>1 DEF Initialise, TypeOK
  <2>2. ASSUME NEW y \in Router PROVE f[z][y] <= table'[z][y].cost
    <3>1. table'[z][y].cost = Cost[z][y]
      BY <1>1 DEF Initialise, TypeOK, Direct
    <3>2. f[z][y] <= Cost[z][y] + f[y][y] /\ f[y][y] = 0 /\ Cost[z][y] \in 0 .. INF
      BY Ranges DEF Underestimate
    <3> QED
      BY <3>1, <3>2
  <2> QED
    BY <2>1, <2>2 DEF Above
<1>2. ASSUME NEW z \in Router, routing_update(z) PROVE Above(f)'
  <2> SUFFICES ASSUME NEW x \in Router, NEW y \in Router
               PROVE  /\ f[x][y] <= table'[x][y].cost
                      /\ \A w \in Router : \A i \in DOMAIN toRouter'[x][w] : f[x][y] <= toRouter'[x][w][i][y]
    BY DEF Above
  <2>1. table' = table /\ Vector(z)[y] = table[z][y].cost /\ Vector(z) \in Vec
    BY <1>2, UpdateSends DEF routing_update, Vector
  <2>2. ASSUME NEW w \in Router, NEW i \in DOMAIN toRouter'[x][w]
        PROVE  f[x][y] <= toRouter'[x][w][i][y]
    <3>1. toRouter[x][w] \in Seq(Vec)
      BY Ranges
    <3>2. CASE toRouter'[x][w] = toRouter[x][w]
      BY <2>2, <3>2 DEF Above
    <3>3. CASE x = z /\ toRouter'[x][w] = Append(toRouter[x][w], Vector(z))
      <4>1. \/ i \in DOMAIN toRouter[x][w] /\ toRouter'[x][w][i] = toRouter[x][w][i]
            \/ toRouter'[x][w][i] = Vector(z)
        BY <2>1, <2>2, <3>1, <3>3, AppendPlaces
      <4> QED
        BY <2>1, <3>3, <4>1 DEF Above
    <3>4. \/ toRouter'[x][w] = toRouter[x][w]
          \/ x = z /\ toRouter'[x][w] = Append(toRouter[x][w], Vector(z))
      <4>1. TypeOK
        OBVIOUS
      <4> QED
        BY <1>2, <4>1, UpdateSends
    <3> QED
      BY <3>2, <3>3, <3>4
  <2> QED
    BY <2>1, <2>2 DEF Above
<1>3. ASSUME NEW z \in Router, NEW v \in Router, router_recv_hook(z, v) PROVE Above(f)'
  <2>1. ASSUME NEW x \in Router, NEW y \in Router PROVE f[x][y] <= table'[x][y].cost
    <3>1. CASE x # z
      <4>1. table'[x] = table[x]
        BY <1>3, <3>1, RecvTakes
      <4> QED
        BY <4>1 DEF Above
    <3>2. CASE x = z /\ table'[z][y] = table[z][y]
      BY <3>2 DEF Above
    <3>3. CASE x = z /\ table'[z][y] = [cost |-> Cost[z][v] + toRouter[v][z][1][y], next_hop_id |-> v]
      <4>1. 1 \in DOMAIN toRouter[v][z]
        <5>1. toRouter[v][z] # <<>> /\ toRouter[v][z] \in Seq(Vec)
          BY <1>3, Ranges DEF router_recv_hook
        <5> QED
          BY <5>1, TailPlaces
      <4>2. f[v][y] <= toRouter[v][z][1][y] /\ f[z][y] <= Cost[z][v] + f[v][y]
        BY <4>1 DEF Above, Underestimate
      <4>3. toRouter[v][z][1][y] \in 0 .. INF /\ Cost[z][v] \in 0 .. INF
        BY <4>1, Ranges
      <4>4. table'[z][y].cost = Cost[z][v] + toRouter[v][z][1][y]
        BY <3>3
      <4> QED
        BY SMTT(30), <1>0, <3>3, <4>2, <4>3, <4>4
    <3> QED
      BY <1>3, <3>1, <3>2, <3>3, RecvImproves
  <2>2. ASSUME NEW x \in Router, NEW y \in Router, NEW w \in Router, NEW i \in DOMAIN toRouter'[x][w]
        PROVE  f[x][y] <= toRouter'[x][w][i][y]
    <3>1. CASE <<x, w>> = <<v, z>>
      <4>1. toRouter'[x][w] = Tail(toRouter[x][w]) /\ toRouter[x][w] \in Seq(Vec) /\ toRouter[x][w] # <<>>
        BY <1>3, <3>1, RecvTakes, Ranges DEF router_recv_hook
      <4>2. i + 1 \in DOMAIN toRouter[x][w] /\ toRouter'[x][w][i] = toRouter[x][w][i + 1]
        BY <2>2, <4>1, TailPlaces
      <4> QED
        BY <4>2 DEF Above
    <3>2. CASE <<x, w>> # <<v, z>>
      <4>1. \A a, b \in Router : <<a, b>> # <<v, z>> => toRouter'[a][b] = toRouter[a][b]
        <5> HIDE Numbers
        <5> QED
          BY SMTT(30), <1>3, RecvTakes
      <4>2. toRouter'[x][w] = toRouter[x][w]
        BY <3>2, <4>1
      <4> QED
        BY <2>2, <4>2 DEF Above
    <3> QED
      BY <3>1, <3>2
  <2> QED
    BY <2>1, <2>2 DEF Above
<1>4. CASE UNCHANGED vars
  BY <1>4 DEF Above, vars
<1> QED
  BY <1>1, <1>2, <1>3, <1>4, QuietSteps

LEMMA AboveNext ==
    ASSUME NEW f, Underestimate(f), IInv, Quiet => Above(f), [Next]_vars
    PROVE  (Quiet => Above(f))'
<1> SUFFICES ASSUME Quiet' PROVE Above(f)'
  OBVIOUS
<1>1. TypeOK /\ Lists /\ Quiet
  BY QuietSteps DEF IInv
<1>2. Static
  BY <1>1 DEF IInv, Static
<1> QED
  BY <1>1, <1>2, AboveStep

\* In every network that does not change, no table and no vector under way
\* promises less than any underestimate of the costs: no sum is ever cut
\* (update_routing_table).
THEOREM NeverCheaper ==
    ASSUME NEW f, Underestimate(f)
    PROVE  Spec => [](Quiet => Above(f))
<1>1. Init => Above(f)
  BY AboveInit
<1>2. IInv /\ (Quiet => Above(f)) /\ [Next]_vars => (Quiet => Above(f))'
  BY AboveNext
<1> QED
  BY <1>1, <1>2, Invariance, PTL DEF Spec

-----------------------------------------------------------------------------
(* The cheapest walks *)

Matrix == [Router -> [Router -> 0 .. INF]]

\* A set of naturals has a least element: the finite intervals below its
\* elements are well-founded under inclusion.
LEMMA LeastNumber ==
    ASSUME NEW S \in SUBSET Nat, S # {}
    PROVE  \E n \in S : \A m \in S : n <= m
<1>1. PICK b \in S : TRUE
  OBVIOUS
<1> DEFINE U == 0 .. b
           T == { 0 .. m : m \in { k \in S : k <= b } }
           R == StrictSubsetOrdering(U)
<1>2. IsWellFoundedOn(R, FiniteSubsetsOf(U))
  BY FS_StrictSubsetOrderingWellFounded
<1>3. T # {}
  <2>1. b \in { k \in S : k <= b }
    BY <1>1
  <2> QED
    BY <2>1
<1>4. T \subseteq FiniteSubsetsOf(U)
  <2>1. \A m \in { k \in S : k <= b } : 0 .. m \in SUBSET U /\ IsFiniteSet(0 .. m)
    BY <1>1, FS_Interval
  <2> QED
    BY <2>1 DEF FiniteSubsetsOf
<1> HIDE DEF T, R
<1>5. PICK x \in T : \A y \in T : ~ (<<y, x>> \in R)
  BY <1>2, <1>3, <1>4, WFMin
<1> USE DEF T, R
<1>6. PICK n \in S : n <= b /\ x = 0 .. n
  BY <1>5
<1>7. ASSUME NEW m \in S, m < n PROVE FALSE
  <2>1. 0 .. m \in T
    BY <1>6, <1>7
  <2>2. <<0 .. m, x>> \in R
    BY <1>6, <1>7 DEF StrictSubsetOrdering
  <2> QED
    BY <1>5, <2>1, <2>2
<1> QED
  BY <1>7

\* Induction, over a set instead of a predicate.
LEMMA Induction ==
    ASSUME NEW S \in SUBSET Nat, 0 \in S, \A n \in S : n + 1 \in S
    PROVE  S = Nat
<1>1. SUFFICES ASSUME Nat \ S # {} PROVE FALSE
  OBVIOUS
<1>2. PICK n \in Nat \ S : \A m \in Nat \ S : n <= m
  BY <1>1, LeastNumber
<1>3. n # 0 /\ n - 1 \in S
  BY <1>2
<1> QED
  BY <1>2, <1>3

\* What Minimum chooses.
LEMMA MinimumLeast ==
    ASSUME NEW S \in SUBSET Nat, S # {}
    PROVE  Minimum(S) \in S /\ \A n \in S : Minimum(S) <= n
BY LeastNumber DEF Minimum

\* Walks of one more link are the cheapest there are, and are of one more link.
LEMMA OneMoreLinkFacts ==
    ASSUME NEW cost \in Matrix, NEW d \in Matrix
    PROVE  /\ OneMoreLink(cost, d) \in Matrix
           /\ \A x, y \in Router :
                 /\ \A v \in Router : OneMoreLink(cost, d)[x][y] <= cost[x][v] + d[v][y]
                 /\ \/ OneMoreLink(cost, d)[x][y] = INF
                    \/ \E v \in Router : OneMoreLink(cost, d)[x][y] = cost[x][v] + d[v][y]
<1> DEFINE Costs(x, y) == {INF} \cup { cost[x][v] + d[v][y] : v \in Router }
<1>1. \A x, y \in Router : cost[x][y] \in 0 .. INF /\ d[x][y] \in 0 .. INF
  BY DEF Matrix
<1>2. \A x, y \in Router : \A c \in Costs(x, y) : c \in Nat
  BY <1>1, Numbers
<1>3. \A x, y \in Router : INF \in Costs(x, y) /\ \A v \in Router : cost[x][v] + d[v][y] \in Costs(x, y)
  OBVIOUS
<1>4. ASSUME NEW x \in Router, NEW y \in Router
      PROVE  /\ OneMoreLink(cost, d)[x][y] = Minimum(Costs(x, y))
             /\ Minimum(Costs(x, y)) \in Costs(x, y)
             /\ \A c \in Costs(x, y) : Minimum(Costs(x, y)) <= c
  <2>1. Costs(x, y) \in SUBSET Nat /\ Costs(x, y) # {}
    BY <1>2, <1>3
  <2> HIDE DEF Costs
  <2>2. Minimum(Costs(x, y)) \in Costs(x, y) /\ \A c \in Costs(x, y) : Minimum(Costs(x, y)) <= c
    BY <2>1, MinimumLeast
  <2>3. OneMoreLink(cost, d)[x][y] = Minimum(Costs(x, y))
    BY DEF OneMoreLink, Costs
  <2> QED
    BY <2>2, <2>3
<1>5. ASSUME NEW x \in Router, NEW y \in Router PROVE Minimum(Costs(x, y)) \in 0 .. INF
  <2>1. Minimum(Costs(x, y)) \in Nat /\ Minimum(Costs(x, y)) <= INF
    <3> HIDE DEF Costs
    <3> QED
      BY <1>2, <1>3, <1>4
  <2> QED
    BY <2>1, Numbers
<1>6. OneMoreLink(cost, d) = [x \in Router |-> [y \in Router |-> Minimum(Costs(x, y))]]
  BY DEF OneMoreLink
<1>7. OneMoreLink(cost, d) \in Matrix
  <2> HIDE DEF Costs
  <2> QED
    BY <1>5, <1>6 DEF Matrix
<1>8. ASSUME NEW x \in Router, NEW y \in Router
      PROVE  \/ Minimum(Costs(x, y)) = INF
             \/ \E v \in Router : Minimum(Costs(x, y)) = cost[x][v] + d[v][y]
  BY <1>4
<1>9. ASSUME NEW x \in Router, NEW y \in Router, NEW v \in Router
      PROVE  Minimum(Costs(x, y)) <= cost[x][v] + d[v][y]
  BY <1>3, <1>4
<1> HIDE DEF Costs
<1> QED
  BY <1>4, <1>7, <1>8, <1>9

\* walks[n] is the cost of the cheapest walks of at most n links.
LinkByLink(cost, walks, limit) ==
    /\ walks \in [0 .. limit -> Matrix]
    /\ walks[0] = NoLink
    /\ \A n \in 0 .. limit - 1 : walks[n + 1] = OneMoreLink(cost, walks[n])

LEMMA LinkByLinkExists ==
    ASSUME NEW cost \in Matrix, NEW limit \in Nat
    PROVE  \E walks : LinkByLink(cost, walks, limit)
<1> DEFINE S == { k \in Nat : \E walks : LinkByLink(cost, walks, k) }
<1>1. 0 \in S
  <2>1. NoLink \in Matrix
    BY Numbers DEF NoLink, Matrix
  <2>2. LinkByLink(cost, [n \in 0 .. 0 |-> NoLink], 0)
    BY <2>1 DEF LinkByLink
  <2> QED
    BY <2>2
<1>2. ASSUME NEW k \in S PROVE k + 1 \in S
  <2>1. PICK w : LinkByLink(cost, w, k)
    BY <1>2
  <2> DEFINE more == [n \in 0 .. k + 1 |-> IF n <= k THEN w[n] ELSE OneMoreLink(cost, w[k])]
  <2>2. w \in [0 .. k -> Matrix] /\ k \in Nat
    BY <2>1 DEF LinkByLink
  <2>3. \A n \in 0 .. k : w[n] \in Matrix
    BY <2>2
  <2>4. OneMoreLink(cost, w[k]) \in Matrix
    BY <2>2, <2>3, OneMoreLinkFacts
  <2>5. more \in [0 .. k + 1 -> Matrix]
    BY <2>2, <2>3, <2>4
  <2>6. more[0] = NoLink
    BY <2>1, <2>2 DEF LinkByLink
  <2>7. ASSUME NEW n \in 0 .. k PROVE more[n + 1] = OneMoreLink(cost, more[n])
    <3>1. CASE n < k
      BY <2>1, <2>2, <3>1 DEF LinkByLink
    <3>2. CASE n = k
      BY <2>2, <3>2
    <3> QED
      BY <2>2, <2>7, <3>1, <3>2
  <2>8. LinkByLink(cost, more, k + 1)
    <3>1. k + 1 - 1 = k
      BY <2>2
    <3> HIDE DEF more
    <3> QED
      BY <2>5, <2>6, <2>7, <3>1 DEF LinkByLink
  <2> HIDE DEF more
  <2> QED
    BY <2>2, <2>8
<1> HIDE DEF S
<1>3. S = Nat
  <2>1. S \in SUBSET Nat
    BY DEF S
  <2> QED
    BY <1>1, <1>2, <2>1, Induction
<1> QED
  BY <1>3 DEF S

\* CheapestWalks counts as many links as there are routers.
LEMMA CheapestWalksEquation ==
    ASSUME NEW cost \in Matrix
    PROVE  \E walks : /\ LinkByLink(cost, walks, Cardinality(Router))
                      /\ CheapestWalks(cost) = walks[Cardinality(Router)]
<1> DEFINE N == Cardinality(Router)
           Recursive(w) == w = [n \in 0 .. N |-> IF n = 0 THEN NoLink ELSE OneMoreLink(cost, w[n - 1])]
           walks == CHOOSE w : Recursive(w)
<1>1. N \in Nat
  BY EnvironmentAssumption, FS_CardinalityType
<1>2. PICK w : LinkByLink(cost, w, N)
  BY <1>1, LinkByLinkExists
<1>3. Recursive(w)
  <2>1. w = [n \in 0 .. N |-> w[n]] /\ w[0] = NoLink
    BY <1>2 DEF LinkByLink
  <2>2. \A n \in 0 .. N : n # 0 => w[n] = OneMoreLink(cost, w[n - 1])
    <3>1. \A n \in 0 .. N : n # 0 => n - 1 \in 0 .. N - 1 /\ (n - 1) + 1 = n
      BY <1>1
    <3> QED
      BY <1>2, <3>1 DEF LinkByLink
  <2> HIDE DEF N
  <2> QED
    BY <2>1, <2>2
<1>4. Recursive(walks)
  <2> HIDE DEF Recursive
  <2> QED
    BY <1>3
<1>5. CheapestWalks(cost) = walks[N]
  BY DEF CheapestWalks
<1> HIDE DEF walks, N
<1>6. /\ walks[0] = NoLink
      /\ \A n \in 0 .. N - 1 : walks[n + 1] = OneMoreLink(cost, walks[n])
  <2>1. 0 \in 0 .. N /\ \A n \in 0 .. N - 1 : n + 1 \in 0 .. N /\ n + 1 # 0 /\ (n + 1) - 1 = n
    BY <1>1
  <2> QED
    BY <1>4, <2>1
<1>7. \A n \in Nat : n <= N => walks[n] \in Matrix
  <2> DEFINE S == { n \in Nat : n <= N => walks[n] \in Matrix }
  <2>1. 0 \in S
    BY <1>6, Numbers DEF NoLink, Matrix
  <2>2. ASSUME NEW n \in S PROVE n + 1 \in S
    <3>1. n + 1 <= N => n \in 0 .. N - 1 /\ n <= N
      BY <1>1, <2>2
    <3>2. n + 1 <= N => walks[n] \in Matrix
      BY <2>2, <3>1
    <3> QED
      BY <1>6, <2>2, <3>1, <3>2, OneMoreLinkFacts
  <2> HIDE DEF S
  <2>3. S = Nat
    <3>1. S \in SUBSET Nat
      BY DEF S
    <3> QED
      BY <2>1, <2>2, <3>1, Induction
  <2> QED
    BY <2>3 DEF S
<1>8. walks \in [0 .. N -> Matrix]
  <2>1. \A n \in 0 .. N : walks[n] \in Matrix
    BY <1>1, <1>7
  <2>2. walks = [n \in 0 .. N |-> walks[n]]
    BY <1>4
  <2> QED
    BY <2>1, <2>2
<1> QED
  BY <1>5, <1>6, <1>8 DEF LinkByLink, N

\* A column that stopped changing at every router stays as it is: with each
\* further link the cheapest of the others stops changing, so that as many
\* links as there are routers are enough.
LEMMA WalksSettle ==
    ASSUME NEW cost \in Matrix, \A x \in Router : cost[x][x] = 0,
           NEW D, LinkByLink(cost, D, Cardinality(Router) + 1), NEW y \in Router, NEW x \in Router
    PROVE  D[Cardinality(Router) + 1][x][y] = D[Cardinality(Router)][x][y]
<1> DEFINE N == Cardinality(Router)
           Settled(n) == { r \in Router : \A k \in n .. N + 1 : D[k][r][y] = D[n][r][y] }
           S == { n \in Nat : n <= N => Cardinality(Settled(n)) >= n \/ Settled(n) = Router }
<1>1. N \in Nat /\ IsFiniteSet(Router)
  BY EnvironmentAssumption, FS_CardinalityType
<1>2. \A n \in 0 .. N + 1 : D[n] \in Matrix
  BY DEF LinkByLink
<1>3. \A n \in 0 .. N + 1 : \A r \in Router : D[n][r][y] \in 0 .. INF
  BY <1>2 DEF Matrix
<1>4. ASSUME NEW n \in 0 .. N, NEW r \in Router
      PROVE  /\ \A v \in Router : D[n + 1][r][y] <= cost[r][v] + D[n][v][y]
             /\ \/ D[n + 1][r][y] = INF
                \/ \E v \in Router : D[n + 1][r][y] = cost[r][v] + D[n][v][y]
             /\ D[n + 1][r][y] <= D[n][r][y]
  <2>1. n \in 0 .. (N + 1) - 1 /\ n \in 0 .. N + 1
    BY <1>1
  <2>2. D[n + 1] = OneMoreLink(cost, D[n]) /\ D[n] \in Matrix
    BY <1>2, <2>1 DEF LinkByLink
  <2>3. /\ \A v \in Router : D[n + 1][r][y] <= cost[r][v] + D[n][v][y]
        /\ \/ D[n + 1][r][y] = INF
           \/ \E v \in Router : D[n + 1][r][y] = cost[r][v] + D[n][v][y]
    BY <2>2, OneMoreLinkFacts
  <2>4. D[n + 1][r][y] <= cost[r][r] + D[n][r][y] /\ cost[r][r] = 0 /\ D[n][r][y] \in Nat
    BY <1>3, <2>1, <2>3, Numbers
  <2> QED
    BY <2>3, <2>4
<1>5. \A n \in Nat : IsFiniteSet(Settled(n)) /\ Cardinality(Settled(n)) \in Nat
  BY <1>1, FS_Subset, FS_CardinalityType
<1>6. 0 \in S
  BY <1>5
<1>7. ASSUME NEW n \in S, n + 1 <= N PROVE n + 1 \in S
  <2>1. n \in 0 .. N /\ n + 1 \in 0 .. N + 1 /\ n + 1 \in Nat
    BY <1>1, <1>7
  <2>2. Settled(n) \subseteq Settled(n + 1)
    <3>1. \A k \in (n + 1) .. N + 1 : k \in n .. N + 1
      BY <2>1
    <3>2. n + 1 \in n .. N + 1
      BY <1>1, <2>1
    <3> QED
      BY <3>1, <3>2
  <2>3. CASE Settled(n) = Router
    BY <2>1, <2>2, <2>3
  <2>4. CASE Settled(n) # Router
    <3> DEFINE Others == Router \ Settled(n)
               Costs == { D[n + 1][r][y] : r \in Others }
    <3>1. Costs \in SUBSET Nat /\ Costs # {}
      <4>1. \A r \in Router : D[n + 1][r][y] \in Nat
        BY <1>3, <2>1, Numbers
      <4>2. Others # {} /\ Others \subseteq Router
        BY <2>4
      <4> HIDE DEF Others
      <4>3. \A c \in Costs : c \in Nat
        BY <4>1, <4>2
      <4>4. PICK r \in Others : TRUE
        BY <4>2
      <4>5. D[n + 1][r][y] \in Costs
        BY <4>4
      <4> HIDE DEF Costs
      <4> QED
        BY <4>3, <4>5
    <3>2. PICK m \in Costs : \A c \in Costs : m <= c
      BY <3>1, LeastNumber
    <3>3. PICK z \in Others : D[n + 1][z][y] = m
      OBVIOUS
    <3>4. \A r \in Others : m <= D[n + 1][r][y]
      BY <3>2
    <3>5. m \in Nat /\ m <= INF
      BY <1>3, <2>1, <3>3, Numbers
    <3>6. ASSUME NEW v \in Settled(n), NEW k \in n .. N + 1 PROVE D[k][v][y] = D[n][v][y]
      BY <3>6
    <3>7. Others \subseteq Router /\ z \in Router
      OBVIOUS
    <3>8. \A v \in Router : v \in Settled(n) \/ v \in Others
      OBVIOUS
    <3> HIDE DEF Costs, Others, Settled
    <3> DEFINE Stays(k) == D[k][z][y] = m /\ \A r \in Others : m <= D[k][r][y]
               T == { k \in Nat : n + 1 + k <= N + 1 => Stays(n + 1 + k) }
    <3>9. 0 \in T
      BY <2>1, <3>3, <3>4
    <3>10. ASSUME NEW i \in T, n + 1 + i + 1 <= N + 1 PROVE i + 1 \in T
      <4> DEFINE k == n + 1 + i
      <4>1. k \in 0 .. N /\ k \in n .. N + 1 /\ Stays(k) /\ k + 1 \in 0 .. N + 1 /\ k \in 0 .. N + 1
            /\ k + 1 = n + 1 + (i + 1)
        BY <1>1, <2>1, <3>10
      <4> HIDE DEF k
      <4>2. ASSUME NEW r \in Others PROVE m <= D[k + 1][r][y]
        <5>1. r \in Router
          BY <3>7
        <5>2. CASE D[k + 1][r][y] = INF
          BY <3>5, <5>2
        <5>3. ASSUME NEW v \in Router, D[k + 1][r][y] = cost[r][v] + D[k][v][y]
              PROVE  m <= D[k + 1][r][y]
          <6>1. cost[r][v] \in Nat /\ D[k][v][y] \in Nat /\ D[n][v][y] \in Nat
            <7>1. k \in 0 .. N + 1 /\ n \in 0 .. N + 1
              BY <1>1, <2>1, <4>1
            <7>2. cost[r][v] \in 0 .. INF /\ D[k][v][y] \in 0 .. INF /\ D[n][v][y] \in 0 .. INF
              <8>1. cost[r][v] \in 0 .. INF
                BY <5>1 DEF Matrix
              <8> QED
                BY <1>3, <7>1, <8>1
            <7> QED
              BY <7>2, Numbers
          <6>2. CASE v \in Settled(n)
            <7>1. D[k][v][y] = D[n][v][y]
              BY <3>6, <4>1, <6>2
            <7>2. D[n + 1][r][y] <= cost[r][v] + D[n][v][y]
              BY <1>4, <2>1, <5>1
            <7>3. m <= D[n + 1][r][y] /\ D[n + 1][r][y] \in 0 .. INF
              BY <1>3, <2>1, <3>4, <5>1
            <7> QED
              BY <3>5, <5>3, <6>1, <7>1, <7>2, <7>3, Numbers
          <6>3. CASE v \in Others
            <7>1. m <= D[k][v][y]
              BY <4>1, <6>3
            <7> QED
              BY <3>5, <5>3, <6>1, <7>1
          <6> QED
            BY <3>8, <6>2, <6>3
        <5> QED
          BY <1>4, <4>1, <5>1, <5>2, <5>3
      <4>3. D[k + 1][z][y] = m
        <5>1. D[k + 1][z][y] <= D[k][z][y] /\ D[k][z][y] = m /\ m <= D[k + 1][z][y]
          BY <1>4, <3>3, <3>7, <4>1, <4>2
        <5>2. D[k + 1][z][y] \in Int
          BY <1>3, <3>7, <4>1, Numbers
        <5> QED
          BY <3>5, <5>1, <5>2
      <4>4. Stays(n + 1 + (i + 1))
        BY <4>1, <4>2, <4>3
      <4> HIDE DEF Stays
      <4> QED
        BY <4>4
    <3>11. T = Nat
      <4>1. \A i \in T : i + 1 \in T
        <5>1. ASSUME NEW i \in T, ~ (n + 1 + i + 1 <= N + 1) PROVE i + 1 \in T
          BY <5>1, <2>1, <1>1
        <5> QED
          BY <3>10, <5>1
      <4>2. T \in SUBSET Nat
        OBVIOUS
      <4> HIDE DEF T
      <4> QED
        BY <3>9, <4>1, <4>2, Induction
    <3>12. z \in Settled(n + 1)
      <4>1. ASSUME NEW k \in (n + 1) .. N + 1 PROVE D[k][z][y] = D[n + 1][z][y]
        <5>1. k - (n + 1) \in Nat /\ n + 1 + (k - (n + 1)) = k /\ k <= N + 1
          BY <1>1, <2>1, <4>1
        <5>2. k - (n + 1) \in T
          BY <3>11, <5>1
        <5> QED
          BY <3>3, <5>1, <5>2
      <4> QED
        BY <3>7, <4>1 DEF Settled
    <3>13. z \notin Settled(n)
      BY <3>3 DEF Others
    <3>14. Cardinality(Settled(n + 1)) >= n + 1
      <4>1. /\ IsFiniteSet(Settled(n)) /\ IsFiniteSet(Settled(n + 1))
            /\ Cardinality(Settled(n)) \in Nat /\ Cardinality(Settled(n + 1)) \in Nat
        BY <1>5, <2>1
      <4>2. Cardinality(Settled(n) \cup {z}) = Cardinality(Settled(n)) + 1
        BY <3>13, <4>1, FS_AddElement
      <4>3. Settled(n) \cup {z} \subseteq Settled(n + 1)
        BY <2>2, <3>12
      <4>4. Cardinality(Settled(n) \cup {z}) <= Cardinality(Settled(n + 1))
        BY <4>1, <4>3, FS_Subset
      <4>5. Cardinality(Settled(n)) >= n
        BY <1>7, <2>1, <2>4
      <4> QED
        BY <2>1, <4>1, <4>2, <4>4, <4>5
    <3> QED
      BY <2>1, <3>14
  <2> QED
    BY <2>3, <2>4
<1>8. Settled(N) = Router
  <2>1. S = Nat
    <3>1. S \in SUBSET Nat
      OBVIOUS
    <3>2. ASSUME NEW n \in S, ~ (n + 1 <= N) PROVE n + 1 \in S
      BY <3>2
    <3>3. \A n \in S : n + 1 \in S
      BY <1>7, <3>2
    <3> HIDE DEF S
    <3> QED
      BY <1>6, <3>1, <3>3, Induction
  <2>2. Cardinality(Settled(N)) >= N \/ Settled(N) = Router
    <3>1. N \in S /\ N <= N
      BY <1>1, <2>1
    <3> QED
      BY <3>1
  <2>3. Settled(N) \subseteq Router
    OBVIOUS
  <2>4. Cardinality(Settled(N)) \in Nat
    BY <1>1, <1>5
  <2> HIDE DEF Settled
  <2>5. Cardinality(Settled(N)) >= N => Settled(N) = Router
    BY <1>1, <2>3, <2>4, FS_Subset
  <2> QED
    BY <2>2, <2>5
<1>9. N + 1 \in N .. N + 1
  BY <1>1
<1> QED
  BY <1>8, <1>9

\* CheapestWalks keeps its promise: no walk that begins with a link to v costs
\* less than what it has for x, and a router is at no distance from itself.
LEMMA CheapestWalksFacts ==
    ASSUME NEW cost \in Matrix, \A x \in Router : cost[x][x] = 0
    PROVE  /\ CheapestWalks(cost) \in Matrix
           /\ \A x, v, y \in Router :
                 /\ CheapestWalks(cost)[y][y] = 0
                 /\ CheapestWalks(cost)[x][y] <= cost[x][v] + CheapestWalks(cost)[v][y]
<1> DEFINE N == Cardinality(Router)
<1>1. N \in Nat
  BY EnvironmentAssumption, FS_CardinalityType
<1>2. PICK w : LinkByLink(cost, w, N) /\ CheapestWalks(cost) = w[N]
  BY CheapestWalksEquation
<1>3. w[N] \in Matrix /\ \A n \in 0 .. N : w[n] \in Matrix
  BY <1>1, <1>2 DEF LinkByLink
<1>4. ASSUME NEW y \in Router PROVE w[N][y][y] = 0
  <2> DEFINE S == { n \in Nat : n <= N => w[n][y][y] = 0 }
  <2>1. 0 \in S
    BY <1>2 DEF LinkByLink, NoLink
  <2>2. ASSUME NEW n \in S, n + 1 <= N PROVE n + 1 \in S
    <3>1. n \in 0 .. N - 1 /\ n \in 0 .. N /\ n + 1 \in 0 .. N
      BY <1>1, <2>2
    <3>2. w[n + 1] = OneMoreLink(cost, w[n]) /\ w[n] \in Matrix /\ w[n + 1] \in Matrix
      BY <1>2, <1>3, <3>1 DEF LinkByLink
    <3>3. w[n + 1][y][y] <= cost[y][y] + w[n][y][y] /\ w[n][y][y] = 0
      BY <2>2, <3>1, <3>2, OneMoreLinkFacts
    <3>4. w[n + 1][y][y] \in 0 .. INF
      BY <3>2 DEF Matrix
    <3>5. w[n + 1][y][y] = 0
      BY <3>3, <3>4, Numbers
    <3> QED
      BY <3>5
  <2>3. ASSUME NEW n \in S, ~ (n + 1 <= N) PROVE n + 1 \in S
    BY <2>3
  <2>4. S \in SUBSET Nat
    OBVIOUS
  <2>5. S = Nat
    <3> HIDE DEF S
    <3> QED
      BY <2>1, <2>2, <2>3, <2>4, Induction
  <2> QED
    BY <1>1, <2>5
<1>5. ASSUME NEW x \in Router, NEW v \in Router, NEW y \in Router
      PROVE  w[N][x][y] <= cost[x][v] + w[N][v][y]
  <2> DEFINE D == [n \in 0 .. N + 1 |-> IF n <= N THEN w[n] ELSE OneMoreLink(cost, w[N])]
  <2>1. OneMoreLink(cost, w[N]) \in Matrix
    BY <1>3, OneMoreLinkFacts
  <2>2. D \in [0 .. N + 1 -> Matrix] /\ D[0] = NoLink
    BY <1>1, <1>2, <1>3, <2>1 DEF LinkByLink
  <2>3. ASSUME NEW n \in 0 .. N PROVE D[n + 1] = OneMoreLink(cost, D[n])
    <3>1. CASE n < N
      <4>1. n \in 0 .. N - 1
        BY <1>1, <3>1
      <4>2. w[n + 1] = OneMoreLink(cost, w[n])
        BY <1>2, <4>1 DEF LinkByLink
      <4> QED
        BY <1>1, <3>1, <4>2
    <3>2. CASE n = N
      BY <1>1, <3>2
    <3> QED
      BY <1>1, <2>3, <3>1, <3>2
  <2>4. LinkByLink(cost, D, N + 1)
    <3>1. (N + 1) - 1 = N
      BY <1>1
    <3> HIDE DEF D
    <3> QED
      BY <2>2, <2>3, <3>1 DEF LinkByLink
  <2>5. D[N] = w[N] /\ D[N + 1] = OneMoreLink(cost, w[N])
    BY <1>1
  <2> HIDE DEF D
  <2>6. D[N + 1][x][y] = D[N][x][y]
    BY <2>4, WalksSettle
  <2>7. OneMoreLink(cost, w[N])[x][y] <= cost[x][v] + w[N][v][y]
    BY <1>3, OneMoreLinkFacts
  <2> QED
    BY <2>5, <2>6, <2>7
<1> QED
  BY <1>2, <1>3, <1>4, <1>5

\* In a network that does not change nothing is cut, so that what SumsFit says
\* of vectors needs no assumption there (table.c:260).
THEOREM QuietFits == Spec => [](Quiet => \A y \in Router : DatagramsFit(y))
<1>1. ASSUME IInv, Quiet, NEW y \in Router PROVE DatagramsFit(y)
  <2>1. TypeOK /\ Own /\ AlongLinks /\ Improving /\ Following
    BY <1>1 DEF IInv
  <2> SUFFICES ASSUME NEW x \in running, NEW v \in Router, toRouter[v][x] # <<>>,
                      \/ table[x][y].next_hop_id = v
                      \/ topology[x][v] + Head(toRouter[v][x])[y] < table[x][y].cost
               PROVE  topology[x][v] + Head(toRouter[v][x])[y] <= INF
    BY DEF DatagramsFit
  <2>2. x \in Router /\ v # x /\ topology[x] = Cost[x] /\ table[x][x] = [cost |-> 0, next_hop_id |-> x]
    BY <2>1, NeighboursMutual DEF Own, AlongLinks, Neighbours, running
  <2>3. /\ toRouter[v][x] \in Seq(Vec) /\ 1 \in DOMAIN toRouter[v][x]
        /\ Head(toRouter[v][x]) = toRouter[v][x][1]
    <3>1. toRouter[v][x] \in Seq(Vec)
      BY <2>1, <2>2, Ranges
    <3> QED
      BY <3>1, TailPlaces
  <2>4. /\ toRouter[v][x][1][y] \in 0 .. INF /\ Cost[x][v] \in 0 .. INF
        /\ table[x][y].cost \in 0 .. INF
    BY <2>1, <2>2, <2>3, Ranges
  <2>5. CASE table[x][y].next_hop_id = v
    <3>1. y # x /\ v # INF
      BY <2>2, <2>5, Numbers
    <3>2. Behind(x, y, v)
      BY <2>1, <2>5, <3>1 DEF Following
    <3>3. toRouter[v][x][1][y] <= table[x][y].cost - Cost[x][v]
      BY <2>3, <3>2 DEF Behind
    <3>4. topology[x][v] = Cost[x][v]
      BY <2>2
    <3>5. Cost[x][v] + toRouter[v][x][1][y] <= INF
      BY <2>4, <3>3, Numbers
    <3> QED
      BY <2>3, <3>4, <3>5
  <2>6. CASE topology[x][v] + Head(toRouter[v][x])[y] < table[x][y].cost
    BY <2>2, <2>3, <2>4, <2>6, Numbers
  <2> QED
    BY <2>5, <2>6
<1>2. IInv => (Quiet => \A y \in Router : DatagramsFit(y))
  BY <1>1
<1> QED
  BY <1>2, Invariance, PTL

\* In a network that does not change no table and no vector under way ever
\* promises less than the cheapest walk (update_routing_table).
THEOREM NeverCheaperThanWalks == Spec => [](Quiet => Above(CheapestWalks(Cost)))
<1>1. Cost \in Matrix /\ \A x \in Router : Cost[x][x] = 0
  BY CostAssumption DEF Matrix
<1>2. PICK f : f = CheapestWalks(Cost)
  OBVIOUS
<1>3. Underestimate(f)
  BY <1>1, <1>2, CheapestWalksFacts DEF Underestimate, Matrix
<1>4. Init => Above(f)
  BY <1>3, AboveInit
<1>5. IInv /\ (Quiet => Above(f)) /\ [Next]_vars => (Quiet => Above(f))'
  BY <1>3, AboveNext
<1>6. Above(f) <=> Above(CheapestWalks(Cost))
  BY <1>2
<1> QED
  BY <1>4, <1>5, <1>6, Invariance, PTL DEF Spec

\* The cheapest walks are the greatest underestimate, so that no bound of this
\* kind is left out by NeverCheaperThanWalks.
THEOREM GreatestUnderestimate ==
    /\ Underestimate(CheapestWalks(Cost))
    /\ \A f : Underestimate(f) => \A x, y \in Router : f[x][y] <= CheapestWalks(Cost)[x][y]
<1> DEFINE N == Cardinality(Router)
<1>1. Cost \in Matrix /\ \A x \in Router : Cost[x][x] = 0
  BY CostAssumption DEF Matrix
<1>2. Underestimate(CheapestWalks(Cost))
  BY <1>1, CheapestWalksFacts DEF Underestimate, Matrix
<1>3. N \in Nat
  BY EnvironmentAssumption, FS_CardinalityType
<1>4. PICK w : LinkByLink(Cost, w, N) /\ CheapestWalks(Cost) = w[N]
  BY <1>1, CheapestWalksEquation
<1>5. ASSUME NEW f, Underestimate(f)
      PROVE  \A x, y \in Router : f[x][y] <= CheapestWalks(Cost)[x][y]
  <2> DEFINE S == { n \in Nat : n <= N => \A x, y \in Router : f[x][y] <= w[n][x][y] }
  <2>1. \A x, v, y \in Router : f[x][y] \in 0 .. INF /\ f[y][y] = 0 /\ f[x][y] <= Cost[x][v] + f[v][y]
    BY <1>5 DEF Underestimate
  <2>2. 0 \in S
    <3>1. w[0] = NoLink
      BY <1>4 DEF LinkByLink
    <3>2. ASSUME NEW x \in Router, NEW y \in Router PROVE f[x][y] <= NoLink[x][y]
      BY <2>1, Numbers DEF NoLink
    <3> QED
      BY <3>1, <3>2
  <2>3. ASSUME NEW n \in S, n + 1 <= N PROVE n + 1 \in S
    <3>1. n \in 0 .. N - 1 /\ n \in 0 .. N /\ n <= N
      BY <1>3, <2>3
    <3>2. w[n + 1] = OneMoreLink(Cost, w[n]) /\ w[n] \in Matrix
      BY <1>4, <3>1 DEF LinkByLink
    <3>3. ASSUME NEW x \in Router, NEW y \in Router PROVE f[x][y] <= w[n + 1][x][y]
      <4>1. CASE w[n + 1][x][y] = INF
        BY <2>1, <4>1, Numbers
      <4>2. ASSUME NEW v \in Router, w[n + 1][x][y] = Cost[x][v] + w[n][v][y]
            PROVE  f[x][y] <= w[n + 1][x][y]
        <5>1. f[v][y] <= w[n][v][y] /\ f[x][y] <= Cost[x][v] + f[v][y]
          BY <2>1, <2>3, <3>1
        <5>2. f[v][y] \in 0 .. INF /\ f[x][y] \in 0 .. INF /\ Cost[x][v] \in 0 .. INF /\ w[n][v][y] \in 0 .. INF
          BY <1>1, <2>1, <3>2 DEF Matrix
        <5> QED
          BY <4>2, <5>1, <5>2, Numbers
      <4> QED
        BY <1>1, <3>2, <4>1, <4>2, OneMoreLinkFacts
    <3> QED
      BY <3>3
  <2>4. ASSUME NEW n \in S, ~ (n + 1 <= N) PROVE n + 1 \in S
    BY <2>4
  <2>5. S \in SUBSET Nat
    OBVIOUS
  <2>6. S = Nat
    <3> HIDE DEF S
    <3> QED
      BY <2>2, <2>3, <2>4, <2>5, Induction
  <2>7. N \in S /\ N <= N
    BY <1>3, <2>6
  <2> QED
    BY <1>4, <2>7
<1> QED
  BY <1>2, <1>5

\* The cost of a link at its lowest.
LEMMA LowestCostFacts ==
    ASSUME NEW x \in Router, NEW v \in Router
    PROVE  /\ LowestCost(x, v) \in 0 .. INF
           /\ LowestCost(x, v) <= Cost[x][v]
           /\ \A u \in UPDATES : u[1] = x /\ u[2] = v => LowestCost(x, v) <= u[3]
<1> DEFINE Costs == {Cost[x][v]} \cup { u[3] : u \in UpdatesOf(x, v) }
<1>1. Cost[x][v] \in 0 .. INF
  BY CostAssumption
<1>2. \A u \in UpdatesOf(x, v) : u[3] \in 0 .. INF
  BY EnvironmentAssumption DEF UpdatesOf
<1>3. \A c \in Costs : c \in 0 .. INF
  BY <1>1, <1>2
<1>4. Cost[x][v] \in Costs /\ \A u \in UPDATES : u[1] = x /\ u[2] = v => u[3] \in Costs
  BY DEF UpdatesOf
<1>5. LowestCost(x, v) = Minimum(Costs)
  BY DEF LowestCost
<1> HIDE DEF Costs
<1>6. Costs \in SUBSET Nat /\ Costs # {}
  BY <1>3, <1>4, Numbers
<1>7. Minimum(Costs) \in Costs /\ \A c \in Costs : Minimum(Costs) <= c
  BY <1>6, MinimumLeast
<1> QED
  BY <1>3, <1>4, <1>5, <1>7

\* The cheapest walks over links at their lowest.
LEMMA LowestFacts ==
    ASSUME NEW x \in Router, NEW v \in Router, NEW y \in Router
    PROVE  /\ Lowest[x][y] \in 0 .. INF /\ Lowest[v][y] \in 0 .. INF
           /\ Lowest[y][y] = 0
           /\ Lowest[x][y] <= LowestCost(x, v) + Lowest[v][y]
<1> DEFINE lowest == [a \in Router |-> [b \in Router |-> LowestCost(a, b)]]
<1>1. lowest \in Matrix
  BY LowestCostFacts DEF Matrix
<1>2. \A a \in Router : lowest[a][a] = 0
  <2>1. \A a \in Router : LowestCost(a, a) \in 0 .. INF /\ LowestCost(a, a) <= Cost[a][a] /\ Cost[a][a] = 0
    BY LowestCostFacts, CostAssumption
  <2>2. \A a \in Router : LowestCost(a, a) = 0
    BY <2>1, Numbers
  <2> QED
    BY <2>2
<1>3. lowest[x][v] = LowestCost(x, v) /\ Lowest = CheapestWalks(lowest)
  BY DEF Lowest
<1> HIDE DEF lowest
<1>4. /\ CheapestWalks(lowest) \in Matrix /\ CheapestWalks(lowest)[y][y] = 0
      /\ CheapestWalks(lowest)[x][y] <= lowest[x][v] + CheapestWalks(lowest)[v][y]
  BY <1>1, <1>2, CheapestWalksFacts
<1> QED
  BY <1>3, <1>4 DEF Matrix

-----------------------------------------------------------------------------
(* Networks that change *)

\* What a changed link makes of the tables.
LEMMA SetLinkEntries ==
    ASSUME TypeOK, NEW x \in Router, NEW v \in Router, NEW new \in 0 .. INF, SetLink(x, v, new)
    PROVE  /\ \A w \in Router \ {x} : table'[w] = table[w] /\ topology'[w] = topology[w]
           /\ topology'[x][v] = new
           /\ \A w \in Router \ {v} : topology'[x][w] = topology[x][w]
           /\ \A y \in Router :
                 /\ table'[x][y].next_hop_id = table[x][y].next_hop_id
                 /\ table[x][y].next_hop_id # v => table'[x][y] = table[x][y]
                 /\ table[x][y].next_hop_id = v /\ new = INF => table'[x][y].cost = INF
                 /\ table[x][y].next_hop_id = v /\ new # INF /\ topology[x][v] # INF =>
                       table'[x][y].cost = Uint16(table[x][y].cost - (topology[x][v] - new))
<1>1. table \in [Router -> [Router -> Entry]] /\ topology \in [Router -> [Router -> 0 .. INF]]
  BY DEF TypeOK
<1>2. /\ \A w \in Router \ {x} : table'[w] = table[w] /\ topology'[w] = topology[w]
      /\ topology'[x][v] = new
      /\ \A w \in Router \ {v} : topology'[x][w] = topology[x][w]
  BY <1>1 DEF SetLink
<1>3. ASSUME NEW y \in Router
      PROVE  table'[x][y] = Adjust(table[x][y], v, Difference(topology[x][v], new))
  BY <1>1 DEF SetLink
<1>4. ASSUME NEW y \in Router
      PROVE  /\ table'[x][y].next_hop_id = table[x][y].next_hop_id
             /\ table[x][y].next_hop_id # v => table'[x][y] = table[x][y]
             /\ table[x][y].next_hop_id = v /\ new = INF => table'[x][y].cost = INF
             /\ table[x][y].next_hop_id = v /\ new # INF /\ topology[x][v] # INF =>
                   table'[x][y].cost = Uint16(table[x][y].cost - (topology[x][v] - new))
  <2>1. table[x][y] \in [cost : 0 .. INF, next_hop_id : Router \cup {INF}]
    BY <1>1 DEF Entry
  <2>2. topology[x][v] \in 0 .. INF
    BY <1>1
  <2>3. topology[x][v] # INF => topology[x][v] - new # INF
    BY <2>2, Numbers
  <2> QED
    BY <1>3, <2>1, <2>2, <2>3 DEF Adjust, Difference
<1> QED
  BY <1>2, <1>4

\* A router that starts, or tells its neighbours what it has, keeps to what is
\* possible.
LEMMA GroundedStart ==
    ASSUME TypeOK, NEW y \in Router, Grounded(y), NEW x \in Router, Initialise(x)
    PROVE  Grounded(y)'
<1>1. /\ toRouter' = toRouter /\ running' = running \cup {x}
      /\ table'[x][y] = Direct(x, y) /\ topology'[x] = Cost[x]
      /\ \A w \in Router \ {x} : table'[w] = table[w] /\ topology'[w] = topology[w]
  BY DEF Initialise, TypeOK, running
<1>2. /\ Cost[x][y] \in 0 .. INF /\ Direct(x, y).cost = Cost[x][y]
      /\ \A v \in Router : Direct(x, y).next_hop_id = v => v = y
  BY CostAssumption, Numbers DEF Direct
<1>3. Lowest[x][y] <= Cost[x][y]
  <2>1. /\ Lowest[x][y] \in 0 .. INF /\ Lowest[y][y] = 0
        /\ Lowest[x][y] <= LowestCost(x, y) + Lowest[y][y]
    BY LowestFacts
  <2>2. LowestCost(x, y) \in 0 .. INF /\ LowestCost(x, y) <= Cost[x][y]
    BY LowestCostFacts
  <2> QED
    BY <1>2, <2>1, <2>2, Numbers
<1>4. \A v \in Router : LowestCost(x, v) <= topology'[x][v]
  BY <1>1, LowestCostFacts
<1>5. \A v \in Router : table'[x][y].next_hop_id = v => topology'[x][v] + Lowest[v][y] <= table'[x][y].cost
  <2>1. Lowest[y][y] = 0
    BY LowestFacts
  <2>2. Cost[x][y] + 0 <= Cost[x][y]
    BY <1>2, Numbers
  <2> QED
    BY <1>1, <1>2, <2>1, <2>2
<1>6. ASSUME NEW w \in Router, w # x
      PROVE  /\ Lowest[w][y] <= table'[w][y].cost
             /\ w \in running' => \A v \in Router :
                   /\ LowestCost(w, v) <= topology'[w][v]
                   /\ table'[w][y].next_hop_id = v /\ topology'[w][v] # INF =>
                         topology'[w][v] + Lowest[v][y] <= table'[w][y].cost
  BY <1>1, <1>6 DEF Grounded
<1>7. Lowest' = Lowest /\ \A w, v \in Router : LowestCost(w, v)' = LowestCost(w, v)
  OBVIOUS
<1>8. running' \subseteq Router
  BY <1>1 DEF running
<1>9. \A w \in Router : Lowest[w][y] <= table'[w][y].cost
  BY <1>1, <1>2, <1>3, <1>6
<1>10. \A w, v \in Router : \A i \in DOMAIN toRouter'[w][v] : Lowest[w][y] <= toRouter'[w][v][i][y]
  BY <1>1 DEF Grounded
<1>11. \A w \in running' : \A v \in Router :
          /\ LowestCost(w, v) <= topology'[w][v]
          /\ table'[w][y].next_hop_id = v /\ topology'[w][v] # INF =>
                topology'[w][v] + Lowest[v][y] <= table'[w][y].cost
  BY <1>4, <1>5, <1>6, <1>8
<1> QED
  BY <1>9, <1>10, <1>11 DEF Grounded

LEMMA GroundedSend ==
    ASSUME TypeOK, NEW y \in Router, Grounded(y), NEW x \in Router, routing_update(x)
    PROVE  Grounded(y)'
<1>1. table' = table /\ topology' = topology /\ running' = running
  BY DEF routing_update, running
<1>2. Vector(x)[y] = table[x][y].cost /\ Vector(x) \in Vec
  BY UpdateSends DEF Vector
<1>3. ASSUME NEW w \in Router, NEW v \in Router, NEW i \in DOMAIN toRouter'[w][v]
      PROVE  Lowest[w][y] <= toRouter'[w][v][i][y]
  <2>1. toRouter[w][v] \in Seq(Vec)
    BY Ranges
  <2>2. CASE toRouter'[w][v] = toRouter[w][v]
    BY <1>3, <2>2 DEF Grounded
  <2>3. CASE w = x /\ toRouter'[w][v] = Append(toRouter[w][v], Vector(x))
    <3>1. \/ i \in DOMAIN toRouter[w][v] /\ toRouter'[w][v][i] = toRouter[w][v][i]
          \/ toRouter'[w][v][i] = Vector(x)
      BY <1>2, <1>3, <2>1, <2>3, AppendPlaces
    <3> QED
      BY <1>2, <2>3, <3>1 DEF Grounded
  <2> QED
    BY <2>2, <2>3, UpdateSends
<1> QED
  BY <1>1, <1>3 DEF Grounded

\* A sum that is not cut is what the next hop said and the link to it.
LEMMA GroundedRecv ==
    ASSUME TypeOK, NEW y \in Router, DatagramsFit(y), Grounded(y),
           NEW x \in Router, NEW v \in Router, router_recv_hook(x, v)
    PROVE  Grounded(y)'
<1> DEFINE q == toRouter[v][x]
           sum == topology[x][v] + q[1][y]
<1>1. x \in running /\ q # <<>> /\ q \in Seq(Vec) /\ topology' = topology /\ running' = running
  BY Ranges DEF router_recv_hook, running
<1>2. /\ q[1] \in Vec /\ Head(q) = q[1] /\ toRouter'[v][x] = Tail(q)
      /\ \A u, w \in Router : <<u, w>> # <<v, x>> => toRouter'[u][w] = toRouter[u][w]
      /\ \A u \in Router \ {x} : table'[u] = table[u]
      /\ table'[x][y] = Relax(table[x][y], v, topology[x][v], q[1][y])
  BY RecvTakes
<1>3. topology[x][v] \in 0 .. INF /\ q[1][y] \in 0 .. INF
  BY <1>2 DEF TypeOK, Vec
<1>4. 1 \in DOMAIN q /\ DOMAIN Tail(q) = 1 .. Len(q) - 1 /\ Len(q) \in Nat
      /\ \A i \in 1 .. Len(q) - 1 : Tail(q)[i] = q[i + 1] /\ i + 1 \in DOMAIN q
  BY <1>1, TailPlaces
<1>5. Lowest[v][y] <= q[1][y] /\ LowestCost(x, v) <= topology[x][v]
  BY <1>1, <1>4 DEF Grounded
<1>6. Lowest[x][y] <= sum /\ topology[x][v] + Lowest[v][y] <= sum
  <2>1. /\ Lowest[x][y] \in 0 .. INF /\ Lowest[v][y] \in 0 .. INF
        /\ Lowest[x][y] <= LowestCost(x, v) + Lowest[v][y]
    BY LowestFacts
  <2>2. LowestCost(x, v) \in 0 .. INF
    BY LowestCostFacts
  <2> QED
    BY <1>3, <1>5, <2>1, <2>2, Numbers
<1>7. table'[x][y] = table[x][y] \/ table'[x][y] = [cost |-> sum, next_hop_id |-> v]
  <2>1. CASE table[x][y].next_hop_id = v \/ sum < table[x][y].cost
    <3>1. sum <= INF
      BY <1>1, <1>2, <2>1 DEF DatagramsFit
    <3>2. sum \in 0 .. INF /\ sum \in Int
      BY <1>3, <3>1, Numbers
    <3>3. Uint16(sum) = sum
      BY <3>2, TwoBytes
    <3> QED
      BY <1>2, <2>1, <3>3 DEF Relax
  <2>2. CASE ~ (table[x][y].next_hop_id = v \/ sum < table[x][y].cost)
    BY <1>2, <2>2 DEF Relax
  <2> QED
    BY <2>1, <2>2
<1> HIDE DEF sum
<1>8. ASSUME NEW w \in Router PROVE Lowest[w][y] <= table'[w][y].cost
  BY <1>2, <1>6, <1>7 DEF Grounded
<1>9. ASSUME NEW w \in Router, NEW z \in Router, NEW i \in DOMAIN toRouter'[w][z]
      PROVE  Lowest[w][y] <= toRouter'[w][z][i][y]
  <2>1. CASE <<w, z>> = <<v, x>>
    <3>1. toRouter'[w][z][i] = q[i + 1] /\ i + 1 \in DOMAIN q /\ q = toRouter[w][z]
      BY <1>2, <1>4, <1>9, <2>1
    <3> QED
      BY <3>1 DEF Grounded
  <2>2. CASE <<w, z>> # <<v, x>>
    <3>1. toRouter'[w][z] = toRouter[w][z]
      BY <1>2, <2>2
    <3> QED
      BY <1>9, <3>1 DEF Grounded
  <2> QED
    BY <2>1, <2>2
<1>10. ASSUME NEW w \in running, NEW z \in Router, table'[w][y].next_hop_id = z, topology[w][z] # INF
       PROVE  topology[w][z] + Lowest[z][y] <= table'[w][y].cost
  <2>1. CASE w = x /\ table'[x][y] = [cost |-> sum, next_hop_id |-> v]
    BY <1>6, <1>10, <2>1
  <2>2. CASE table'[w][y] = table[w][y]
    BY <1>10, <2>2 DEF Grounded
  <2>3. w \in Router
    BY DEF running
  <2> QED
    BY <1>2, <1>7, <2>1, <2>2, <2>3
<1>11. \A w \in running : \A z \in Router : LowestCost(w, z) <= topology[w][z]
  BY DEF Grounded
<1> QED
  BY <1>1, <1>8, <1>9, <1>10, <1>11 DEF Grounded

\* A link that is changed takes with it what is behind it.
LEMMA GroundedLink ==
    ASSUME TypeOK, NEW y \in Router, Grounded(y), NEW x \in running, NEW v \in Router,
           NEW new \in 0 .. INF, SetLink(x, v, new), LowestCost(x, v) <= new,
           table[x][y].next_hop_id = v /\ new # INF =>
               topology[x][v] # INF /\ table[x][y].cost - topology[x][v] + new <= INF,
           running' = running, toRouter' = toRouter
    PROVE  Grounded(y)'
<1> DEFINE old == topology[x][v]
           cost == table[x][y].cost
<1>1. x \in Router /\ old \in 0 .. INF /\ cost \in 0 .. INF /\ new \in 0 .. INF
  <2>1. x \in Router
    BY DEF running
  <2> QED
    BY <2>1 DEF TypeOK, Entry
<1>2. /\ \A w \in Router \ {x} : table'[w] = table[w] /\ topology'[w] = topology[w]
      /\ topology'[x][v] = new
      /\ \A w \in Router \ {v} : topology'[x][w] = topology[x][w]
      /\ table'[x][y].next_hop_id = table[x][y].next_hop_id
      /\ table[x][y].next_hop_id # v => table'[x][y] = table[x][y]
      /\ table[x][y].next_hop_id = v /\ new = INF => table'[x][y].cost = INF
      /\ table[x][y].next_hop_id = v /\ new # INF /\ old # INF =>
            table'[x][y].cost = Uint16(cost - (old - new))
  BY <1>1, SetLinkEntries
<1>3. /\ Lowest[x][y] \in 0 .. INF /\ Lowest[v][y] \in 0 .. INF
      /\ Lowest[x][y] <= LowestCost(x, v) + Lowest[v][y]
      /\ LowestCost(x, v) \in 0 .. INF
  BY <1>1, LowestFacts, LowestCostFacts
<1>4. CASE table[x][y].next_hop_id = v /\ new # INF
  <2>1. old + Lowest[v][y] <= cost
    BY <1>4 DEF Grounded
  <2>2. cost - (old - new) \in 0 .. INF
    BY <1>1, <1>3, <1>4, <2>1, Numbers
  <2>3. cost - (old - new) \in Int
    BY <2>2, Numbers
  <2>4. table'[x][y].cost = cost - (old - new)
    BY <1>2, <1>4, <2>2, <2>3, TwoBytes
  <2>5. new + Lowest[v][y] <= table'[x][y].cost /\ Lowest[x][y] <= table'[x][y].cost
    BY <1>1, <1>3, <2>1, <2>4, Numbers
  <2> QED
    BY <1>2, <1>4, <2>5 DEF Grounded, running
<1>5. CASE table[x][y].next_hop_id = v /\ new = INF
  <2>1. Lowest[x][y] <= table'[x][y].cost
    BY <1>2, <1>3, <1>5, Numbers
  <2> QED
    BY <1>2, <1>5, <2>1 DEF Grounded, running
<1>6. CASE table[x][y].next_hop_id # v
  BY <1>2, <1>6 DEF Grounded, running
<1> QED
  BY <1>4, <1>5, <1>6

\* No step lets an entry, a vector or a link below the lowest.
LEMMA GroundedNext ==
    ASSUME TypeOK, [Next]_vars, NEW y \in Router, DatagramsFit(y), UpdatesFit(y), Grounded(y)
    PROVE  Grounded(y)'
<1>1. ASSUME NEW x \in Router, NEW v \in Router, NeighbourLost(x, v) PROVE Grounded(y)'
  <2>1. INF \in 0 .. INF /\ LowestCost(x, v) <= INF
    BY LowestCostFacts, Numbers
  <2>2. x \in running /\ SetLink(x, v, INF) /\ running' = running /\ toRouter' = toRouter
    BY <1>1 DEF NeighbourLost, running
  <2> QED
    BY <2>1, <2>2, GroundedLink
<1>2. ASSUME NEW u \in UPDATES, update_topology_table(u) PROVE Grounded(y)'
  <2>1. u[1] \in Router /\ u[2] \in Router /\ u[3] \in 0 .. INF
    BY EnvironmentAssumption
  <2>2. u[1] \in running /\ u \in updates /\ SetLink(u[1], u[2], u[3]) /\ running' = running /\ toRouter' = toRouter
    BY <1>2 DEF update_topology_table, running
  <2>3. LowestCost(u[1], u[2]) <= u[3]
    BY <2>1, LowestCostFacts
  <2>4. table[u[1]][y].next_hop_id = u[2] /\ u[3] # INF =>
            topology[u[1]][u[2]] # INF /\ table[u[1]][y].cost - topology[u[1]][u[2]] + u[3] <= INF
    BY <2>2 DEF UpdatesFit
  <2> QED
    BY <2>1, <2>2, <2>3, <2>4, GroundedLink
<1>3. ASSUME NEW x \in Router, crash_router(x) PROVE Grounded(y)'
  <2>1. /\ table' = table /\ topology' = topology
        /\ \A w \in running' : w \in running
    <3>1. table' = table /\ topology' = topology /\ status' = [status EXCEPT ![x] = "crashed"]
      BY <1>3 DEF crash_router
    <3> QED
      BY <3>1 DEF running, TypeOK
  <2>2. ASSUME NEW w \in Router, NEW z \in Router, NEW i \in DOMAIN toRouter'[w][z]
        PROVE  i \in DOMAIN toRouter[w][z] /\ toRouter'[w][z][i] = toRouter[w][z][i]
    <3>1. toRouter'[w] = [toRouter[w] EXCEPT ![x] = <<>>]
      BY <1>3 DEF crash_router
    <3>2. toRouter[w] \in [Router -> Seq([Router -> 0 .. INF])]
      BY DEF TypeOK
    <3>3. z # x
      BY <2>2, <3>1, <3>2
    <3>4. toRouter'[w][z] = toRouter[w][z]
      BY <3>1, <3>2, <3>3
    <3> QED
      BY <2>2, <3>4
  <2>3. \A w, z \in Router : \A i \in DOMAIN toRouter'[w][z] : Lowest[w][y] <= toRouter'[w][z][i][y]
    BY <2>2 DEF Grounded
  <2> QED
    BY <2>1, <2>3 DEF Grounded
<1>4. CASE UNCHANGED vars
  BY <1>4 DEF Grounded, vars, running
<1> QED
  BY <1>1, <1>2, <1>3, <1>4, GroundedStart, GroundedSend, GroundedRecv DEF Next

\* Routers are lost for ever.
LEMMA UnbrokenBefore ==
    ASSUME TypeOK, Lists, [Next]_vars, Unbroken'
    PROVE  Unbroken /\ \A x, v \in Router : ~ NeighbourLost(x, v) /\ ~ crash_router(x)
<1>1. ASSUME NEW x \in Router, Initialise(x) PROVE Unbroken
  <2>1. \A w \in Router \ {x} : status'[w] = status[w] /\ listed'[w] = listed[w]
    BY <1>1 DEF Initialise, TypeOK
  <2>2. status[x] = "started"
    BY <1>1 DEF Initialise
  <2> QED
    BY <2>1, <2>2 DEF Unbroken, running
<1>2. ASSUME UNCHANGED <<status, listed>> PROVE Unbroken
  BY <1>2 DEF Unbroken, running
<1>3. ASSUME NEW x \in Router, NEW v \in Router, NeighbourLost(x, v) PROVE FALSE
  <2>1. v \in heard[x] /\ listed'[x] = listed[x] \ {v} /\ status' = status /\ x \in running
    BY <1>3 DEF NeighbourLost, TypeOK
  <2>2. v \in Neighbours(x)
    BY <2>1 DEF Lists
  <2>3. listed'[x] = Neighbours(x)
    BY <2>1 DEF Unbroken, running
  <2> QED
    BY <2>1, <2>2, <2>3
<1>4. ASSUME NEW x \in Router, crash_router(x) PROVE FALSE
  BY <1>4 DEF crash_router, Unbroken, TypeOK
<1> QED
  BY <1>1, <1>2, <1>3, <1>4
  DEF Next, vars, routing_update, router_recv_hook, update_topology_table

\* The entries of one router are no cheaper than its first links.
LinksFirst(x) ==
    \A y \in Router \ {x} : \A v \in Router :
        table[x][y].next_hop_id = v => table[x][y].cost >= topology[x][v]

LEMMA FirstLinkEach == TypeOK => (FirstLink <=> \A x \in running : LinksFirst(x))
<1> SUFFICES ASSUME TypeOK PROVE FirstLink <=> \A x \in running : LinksFirst(x)
  OBVIOUS
<1>1. \A x \in running : \A y \in Router : table[x][y].next_hop_id \in Router \cup {INF}
  BY DEF TypeOK, Entry, running
<1>2. INF \notin Router
  BY Numbers
<1> QED
  BY <1>1, <1>2 DEF FirstLink, LinksFirst

\* While no router is lost and no sum is cut, no step takes a route below the
\* link it begins with.
LEMMA FirstLinkNext ==
    ASSUME TypeOK, Lists, [Next]_vars, Unbroken', SumsFit, FirstLink
    PROVE  FirstLink'
<1>1. /\ \A y \in Router : DatagramsFit(y) /\ UpdatesFit(y)
      /\ \A x \in running : LinksFirst(x)
  BY UnbrokenBefore, FirstLinkEach DEF SumsFit
<1>2. \A x \in Router : \A y \in Router : table[x][y].cost \in 0 .. INF /\ topology[x][y] \in 0 .. INF
  BY DEF TypeOK, Entry
<1>3. \A x \in running : x \in Router
  BY DEF running
<1>0. FirstLink' <=> \A x \in running' : LinksFirst(x)'
  <2>1. TypeOK'
    BY TypeNext
  <2>2. (TypeOK => (FirstLink <=> \A x \in running : LinksFirst(x)))'
    BY FirstLinkEach, PTL
  <2> QED
    BY <2>1, <2>2
<1> SUFFICES ASSUME NEW x \in running' PROVE LinksFirst(x)'
  BY <1>0
<1>4. x \in Router
  BY DEF running
<1>5. ASSUME NEW z \in Router, Initialise(z) PROVE LinksFirst(x)'
  <2>1. CASE x = z
    <3>1. table'[x] = [y \in Router |-> Direct(x, y)] /\ topology'[x] = Cost[x]
      BY <1>5, <2>1 DEF Initialise, TypeOK
    <3>2. ASSUME NEW y \in Router, NEW v \in Router, Direct(x, y).next_hop_id = v
          PROVE  Direct(x, y).cost >= Cost[x][v]
      <4>1. v = y /\ Direct(x, y).cost = Cost[x][y] /\ Cost[x][y] \in 0 .. INF
        BY <1>4, <3>2, CostAssumption, Numbers DEF Direct
      <4> QED
        BY <4>1, Numbers
    <3> QED
      BY <1>4, <3>1, <3>2 DEF LinksFirst
  <2>2. CASE x # z
    <3>1. table'[x] = table[x] /\ topology'[x] = topology[x] /\ x \in running
      BY <1>4, <1>5, <2>2 DEF Initialise, TypeOK, running
    <3> QED
      BY <1>1, <3>1 DEF LinksFirst
  <2> QED
    BY <2>1, <2>2
<1>6. ASSUME NEW z \in Router, NEW v \in Router, router_recv_hook(z, v) PROVE LinksFirst(x)'
  <2>1. /\ topology' = topology /\ x \in running /\ z \in running /\ toRouter[v][z] # <<>>
        /\ \A w \in Router \ {z} : table'[w] = table[w]
    BY <1>6, RecvTakes DEF router_recv_hook, running
  <2>2. CASE x # z
    BY <1>1, <1>4, <2>1, <2>2 DEF LinksFirst
  <2>3. CASE x = z
    <3> SUFFICES ASSUME NEW y \in Router \ {x}, NEW h \in Router, table'[x][y].next_hop_id = h
                 PROVE  table'[x][y].cost >= topology[x][h]
      BY <2>1 DEF LinksFirst
    <3> DEFINE sum == topology[x][v] + toRouter[v][z][1][y]
    <3>1. /\ table'[x][y] = Relax(table[x][y], v, topology[x][v], toRouter[v][z][1][y])
          /\ Head(toRouter[v][z]) = toRouter[v][z][1] /\ toRouter[v][z][1] \in Vec
      BY <1>6, <2>3, RecvTakes
    <3>2. toRouter[v][z][1][y] \in 0 .. INF
      BY <3>1 DEF Vec
    <3>3. sum >= topology[x][v] /\ sum \in Nat
      BY <1>2, <1>4, <3>2, Numbers
    <3>4. CASE table[x][y].next_hop_id = v \/ sum < table[x][y].cost
      <4>1. sum <= INF
        BY <1>1, <2>1, <2>3, <3>1, <3>4 DEF DatagramsFit
      <4>2. Uint16(sum) = sum
        BY <3>3, <4>1, TwoBytes, Numbers
      <4>3. table'[x][y] = [cost |-> sum, next_hop_id |-> v]
        BY <3>1, <3>4, <4>2 DEF Relax
      <4> QED
        BY <3>3, <4>3
    <3>5. CASE ~ (table[x][y].next_hop_id = v \/ sum < table[x][y].cost)
      <4>1. table'[x][y] = table[x][y]
        BY <3>1, <3>5 DEF Relax
      <4> QED
        BY <1>1, <2>1, <4>1 DEF LinksFirst
    <3> QED
      BY <3>4, <3>5
  <2> QED
    BY <2>2, <2>3
<1>7. ASSUME NEW u \in UPDATES, update_topology_table(u) PROVE LinksFirst(x)'
  <2>1. u[1] \in Router /\ u[2] \in Router /\ u[3] \in 0 .. INF
    BY EnvironmentAssumption
  <2>2. u[1] \in running /\ u \in updates /\ SetLink(u[1], u[2], u[3]) /\ x \in running
    BY <1>7 DEF update_topology_table, running
  <2> DEFINE v == u[2]
             new == u[3]
             old == topology[u[1]][v]
  <2>3. /\ \A w \in Router \ {u[1]} : table'[w] = table[w] /\ topology'[w] = topology[w]
        /\ topology'[u[1]][v] = new
        /\ \A w \in Router \ {v} : topology'[u[1]][w] = topology[u[1]][w]
        /\ \A y \in Router :
              /\ table'[u[1]][y].next_hop_id = table[u[1]][y].next_hop_id
              /\ table[u[1]][y].next_hop_id # v => table'[u[1]][y] = table[u[1]][y]
              /\ table[u[1]][y].next_hop_id = v /\ new = INF => table'[u[1]][y].cost = INF
              /\ table[u[1]][y].next_hop_id = v /\ new # INF /\ old # INF =>
                    table'[u[1]][y].cost = Uint16(table[u[1]][y].cost - (old - new))
    BY <2>1, <2>2, SetLinkEntries
  <2>4. CASE x # u[1]
    BY <1>1, <1>4, <2>2, <2>3, <2>4 DEF LinksFirst
  <2>5. CASE x = u[1]
    <3> SUFFICES ASSUME NEW y \in Router \ {x}, NEW h \in Router, table'[x][y].next_hop_id = h
                 PROVE  table'[x][y].cost >= topology'[x][h]
      BY DEF LinksFirst
    <3>1. table[x][y].next_hop_id = h /\ table[x][y].cost >= topology[x][h]
      BY <1>1, <2>2, <2>3, <2>5 DEF LinksFirst
    <3>2. old # INF /\ (h = v /\ new # INF => table[x][y].cost - old + new <= INF)
      BY <1>1, <2>2, <2>5, <3>1 DEF UpdatesFit
    <3>3. CASE h # v
      BY <2>3, <2>5, <3>1, <3>3
    <3>4. CASE h = v /\ new = INF
      BY <2>3, <2>5, <3>1, <3>4, Numbers
    <3>5. CASE h = v /\ new # INF
      <4> DEFINE cost == table[x][y].cost
      <4>1. old \in 0 .. INF /\ cost \in 0 .. INF /\ new \in 0 .. INF /\ cost >= old
        BY <1>2, <1>4, <2>1, <2>5, <3>1, <3>5
      <4>2. cost - (old - new) \in 0 .. INF /\ cost - (old - new) \in Int /\ cost - (old - new) >= new
        <5>1. cost - old + new <= INF
          BY <3>2, <3>5
        <5> HIDE DEF cost, old, new
        <5> QED
          BY <4>1, <5>1, Numbers
      <4>3. table'[x][y].cost = Uint16(cost - (old - new)) /\ topology'[x][h] = new
        BY <2>3, <2>5, <3>1, <3>2, <3>5
      <4> QED
        BY <4>2, <4>3, TwoBytes
    <3> QED
      BY <3>3, <3>4, <3>5
  <2> QED
    BY <2>4, <2>5
<1>8. CASE UNCHANGED <<table, topology, status>>
  BY <1>1, <1>8 DEF LinksFirst, running
<1> QED
  BY <1>5, <1>6, <1>7, <1>8, UnbrokenBefore DEF Next, vars, routing_update

\* Between routers that stay no route is below the cheapest walk over links at
\* their lowest, in every network, through lost and old vectors and the routes
\* that are counted up beside it, unless a sum of such a route was cut or an
\* UPDATE restored a given-up link (table.c:186, 212, 261).
THEOREM AboveLowest == Spec /\ []SumsFit => []NeverBelow
<1> DEFINE Stays == \A y \in Router \ CRASHES : Grounded(y)
<1>1. Init => Stays
  <2> SUFFICES ASSUME Init, NEW y \in Router PROVE Grounded(y)
    OBVIOUS
  <2>1. \A x \in Router : Lowest[x][y] <= table[x][y].cost
    BY LowestFacts, Numbers DEF Init
  <2>2. \A x, w \in Router : DOMAIN toRouter[x][w] = {}
    BY DEF Init
  <2>3. running = {}
    BY DEF Init, running
  <2> QED
    BY <2>1, <2>2, <2>3 DEF Grounded
<1>2. TypeOK /\ SumsFit /\ Stays /\ [Next]_vars => Stays'
  <2> SUFFICES ASSUME TypeOK, SumsFit, Stays, [Next]_vars, NEW y \in Router \ CRASHES
               PROVE  Grounded(y)'
    OBVIOUS
  <2>1. DatagramsFit(y) /\ UpdatesFit(y)
    BY DEF SumsFit
  <2> QED
    BY <2>1, GroundedNext
<1>3. Stays => NeverBelow
  <2> SUFFICES ASSUME Stays, NEW x \in running \ CRASHES, NEW y \in Router \ CRASHES
               PROVE  table[x][y].cost >= Lowest[x][y]
    BY DEF NeverBelow
  <2>1. x \in Router /\ Grounded(y)
    BY DEF running
  <2> QED
    BY <2>1 DEF Grounded
<1> HIDE DEF Stays
<1> QED
  BY <1>1, <1>2, <1>3, TypeCorrect, PTL DEF Spec

\* While every router runs and has all its neighbours, no route is cheaper than
\* its first link, in every network, through UPDATEs that reach the two ends of
\* a link at different times, unless a sum was cut or an UPDATE came for a link
\* without cost (table.c:186, 212, 261).
THEOREM IntactFirstLink == Spec /\ []SumsFit => []FirstLinkIntact
<1>1. Init => (Unbroken => FirstLink)
  BY DEF Init, running, FirstLink
<1>2. IInv /\ SumsFit /\ (Unbroken => FirstLink) /\ [Next]_vars => (Unbroken => FirstLink)'
  BY UnbrokenBefore, FirstLinkNext DEF IInv
<1>3. (Unbroken => FirstLink) => FirstLinkIntact
  <2> SUFFICES ASSUME Intact PROVE Unbroken
    BY DEF FirstLinkIntact
  <2> QED
    BY DEF Intact, Unbroken, running
<1> QED
  BY <1>1, <1>2, <1>3, Invariance, PTL DEF Spec
=============================================================================
