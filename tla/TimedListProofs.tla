--------------------------- MODULE TimedListProofs ---------------------------
(***************************************************************************)
(* The two lists that are kept in order of time: a router's list of timers *)
(* (module TimeoutList) and the emulator's list of events (EventList). The *)
(* lemmas about insertion and removal serve both.                          *)
(*                                                                         *)
(* IInv of each module is inductive, for every value of its constants;     *)
(* what it implies, and that EventList implements Medium.                  *)
(***************************************************************************)
EXTENDS TimeoutList, EventList, FiniteSetTheorems, WellFoundedInduction, TLAPS

\* An interval is a whole number of ticks.
LEMMA IntervalType == Interval \in Nat \ {0}
BY TimeoutAssumption DEF Interval

\* What an insertion does to the places of a list.
LEMMA InsertPlaces ==
    ASSUME NEW S, NEW s \in Seq(S), NEW k \in 0 .. Len(s), NEW e \in S
    PROVE  /\ InsertAt(s, k + 1, e) \in Seq(S)
           /\ Len(s) \in Nat /\ DOMAIN s = 1 .. Len(s)
           /\ DOMAIN InsertAt(s, k + 1, e) = 1 .. Len(s) + 1
           /\ \A i \in 1 .. k : InsertAt(s, k + 1, e)[i] = s[i]
           /\ InsertAt(s, k + 1, e)[k + 1] = e
           /\ \A i \in k + 2 .. Len(s) + 1 : InsertAt(s, k + 1, e)[i] = s[i - 1]
<1> DEFINE a == SubSeq(s, 1, k)
           b == SubSeq(s, k + 1, Len(s))
<1>1. a \in Seq(S) /\ Len(a) = k /\ \A i \in 1 .. k : a[i] = s[i]
  OBVIOUS
<1>2. b \in Seq(S) /\ Len(b) = Len(s) - k /\ \A i \in 1 .. Len(s) - k : b[i] = s[k + i]
  OBVIOUS
<1>3. InsertAt(s, k + 1, e) = (a \o <<e>>) \o b
  <2>1. InsertAt(s, k + 1, e) = SubSeq(s, 1, (k + 1) - 1) \o <<e>> \o SubSeq(s, k + 1, Len(s))
    BY Zenon DEF InsertAt
  <2>2. (k + 1) - 1 = k
    OBVIOUS
  <2> QED
    BY <2>1, <2>2 DEF a, b
<1> HIDE DEF a, b
<1>4. /\ a \o <<e>> \in Seq(S) /\ Len(a \o <<e>>) = k + 1 /\ (a \o <<e>>)[k + 1] = e
      /\ \A i \in 1 .. k : (a \o <<e>>)[i] = s[i]
  BY <1>1
<1> DEFINE c == a \o <<e>>
<1> HIDE DEF c
<1>5. /\ c \o b \in Seq(S) /\ Len(c \o b) = Len(s) + 1
      /\ \A i \in 1 .. k + 1 : (c \o b)[i] = c[i]
      /\ \A i \in k + 2 .. Len(s) + 1 : (c \o b)[i] = b[i - (k + 1)]
  BY <1>2, <1>4 DEF c
<1>6. \A i \in k + 2 .. Len(s) + 1 : b[i - (k + 1)] = s[i - 1]
  <2> SUFFICES ASSUME NEW i \in k + 2 .. Len(s) + 1 PROVE b[i - (k + 1)] = s[i - 1]
    OBVIOUS
  <2>1. i - (k + 1) \in 1 .. Len(s) - k /\ k + (i - (k + 1)) = i - 1
    OBVIOUS
  <2> QED
    BY <1>2, <2>1
<1>7. InsertAt(s, k + 1, e) = c \o b
  BY <1>3 DEF c
<1>8. Len(s) \in Nat /\ DOMAIN s = 1 .. Len(s) /\ DOMAIN (c \o b) = 1 .. Len(s) + 1
  BY <1>5
<1>9. \A i \in 1 .. k : (c \o b)[i] = s[i]
  BY <1>4, <1>5 DEF c
<1>10. (c \o b)[k + 1] = e
  BY <1>4, <1>5 DEF c
<1> QED
  BY <1>5, <1>6, <1>7, <1>8, <1>9, <1>10

\* What a removal does to the places of a list.
LEMMA RemovePlaces ==
    ASSUME NEW S, NEW s \in Seq(S), NEW k \in DOMAIN s
    PROVE  /\ RemoveAt(s, k) \in Seq(S)
           /\ Len(s) \in Nat /\ DOMAIN s = 1 .. Len(s)
           /\ Len(RemoveAt(s, k)) = Len(s) - 1
           /\ DOMAIN RemoveAt(s, k) = 1 .. Len(s) - 1
           /\ \A i \in 1 .. k - 1 : RemoveAt(s, k)[i] = s[i]
           /\ \A i \in k .. Len(s) - 1 : RemoveAt(s, k)[i] = s[i + 1]
<1> DEFINE a == SubSeq(s, 1, k - 1)
           b == SubSeq(s, k + 1, Len(s))
<1>0. k \in 1 .. Len(s) /\ Len(s) \in Nat
  OBVIOUS
<1>1. a \in Seq(S) /\ Len(a) = k - 1 /\ \A i \in 1 .. k - 1 : a[i] = s[i]
  BY <1>0
<1>2. b \in Seq(S) /\ Len(b) = Len(s) - k /\ \A i \in 1 .. Len(s) - k : b[i] = s[k + i]
  BY <1>0
<1>3. RemoveAt(s, k) = a \o b
  BY DEF RemoveAt
<1> HIDE DEF a, b
<1>4. /\ a \o b \in Seq(S) /\ Len(a \o b) = Len(s) - 1
      /\ \A i \in 1 .. k - 1 : (a \o b)[i] = a[i]
      /\ \A i \in k .. Len(s) - 1 : (a \o b)[i] = b[i - (k - 1)]
  BY SMTT(30), <1>0, <1>1, <1>2
<1>5. \A i \in k .. Len(s) - 1 : b[i - (k - 1)] = s[i + 1]
  <2> SUFFICES ASSUME NEW i \in k .. Len(s) - 1 PROVE b[i - (k - 1)] = s[i + 1]
    OBVIOUS
  <2>1. i - (k - 1) \in 1 .. Len(s) - k /\ k + (i - (k - 1)) = i + 1
    BY <1>0
  <2> QED
    BY <1>2, <2>1
<1> DEFINE c == a \o b
<1>6. Len(s) \in Nat /\ DOMAIN s = 1 .. Len(s)
  BY <1>0
<1>7. c \in Seq(S) /\ Len(c) = Len(s) - 1 /\ DOMAIN c = 1 .. Len(s) - 1
  BY <1>4
<1>8. \A i \in 1 .. k - 1 : c[i] = s[i]
  BY <1>1, <1>4
<1>9. \A i \in k .. Len(s) - 1 : c[i] = s[i + 1]
  BY <1>4, <1>5
<1>10. RemoveAt(s, k) = c
  BY <1>3
<1> HIDE DEF c
<1> QED
  BY <1>6, <1>7, <1>8, <1>9, <1>10

\* The first k nodes of a list are those with a deadline.
Leading(list, k) == \A i \in DOMAIN list : list[i].recv = 1 <=> i <= k

\* enQueueByRecv puts a node behind them.
LEMMA EnQueuePlace ==
    ASSUME NEW list \in Seq(Node), NEW node \in Node,
           NEW k \in 0 .. Len(list), Leading(list, k)
    PROVE  enQueueByRecv(list, node) = InsertAt(list, k + 1, node)
<1> DEFINE OK(i) == /\ \A j \in 1 .. i : list[j].recv = 1
                    /\ i < Len(list) => list[i + 1].recv # 1
           c == CHOOSE i \in 0 .. Len(list) : OK(i)
<1>0. Len(list) \in Nat /\ DOMAIN list = 1 .. Len(list)
  OBVIOUS
<1>1. OK(k)
  BY <1>0 DEF Leading
<1>2. c \in 0 .. Len(list) /\ OK(c)
  BY <1>1
<1>3. enQueueByRecv(list, node) = InsertAt(list, c + 1, node)
  BY DEF enQueueByRecv
<1> HIDE DEF c
<1>4. c = k
  <2>1. CASE c < k
    <3>1. c + 1 \in DOMAIN list /\ c + 1 <= k
      BY <1>0, <1>2, <2>1
    <3> QED
      BY <1>0, <1>2, <2>1, <3>1 DEF Leading
  <2>2. CASE k < c
    <3>1. k + 1 \in DOMAIN list /\ ~(k + 1 <= k) /\ k + 1 \in 1 .. c
      BY <1>0, <1>2, <2>2
    <3> QED
      BY <1>2, <3>1 DEF Leading
  <2> QED
    BY <1>2, <2>1, <2>2
<1> QED
  BY <1>3, <1>4

-----------------------------------------------------------------------------
(* Lists as the turns of the main loop make them *)

Has(list, v) == \E i \in DOMAIN list : list[i].router_id = v

\* OneNodeEach, Parted and Sorted of any list, at time t.
Body(list, t) ==
    /\ list \in Seq(Node)
    /\ \A i, j \in DOMAIN list : list[i].router_id = list[j].router_id => i = j
    /\ \E k \in 0 .. Len(list) : Leading(list, k)
    /\ \A i \in DOMAIN list : list[i].router_id = my_id => list[i].recv = 1
    /\ \A i \in DOMAIN list : list[i].recv = 1 =>
          /\ list[i].timeout <= t + Interval
          /\ \A j \in 1 .. i : list[j].timeout <= list[i].timeout

\* Every node of list is one of old.
From(list, old) == \A i \in DOMAIN list : \E j \in DOMAIN old : list[i] = old[j]

\* The fields of a node.
LEMMA NodeFields ==
    ASSUME NEW list \in Seq(Node), NEW i \in DOMAIN list
    PROVE  /\ list[i] \in Node /\ i \in Nat \ {0} /\ i \in 1 .. Len(list) /\ Len(list) \in Nat
           /\ list[i].timeout \in Int /\ list[i].count \in 0 .. 2 /\ list[i].recv \in {0, 1}
           /\ list[i].router_id \in Neighbour \cup {my_id}
<1>1. list[i] \in Node /\ i \in Nat \ {0} /\ i \in 1 .. Len(list) /\ Len(list) \in Nat
  OBVIOUS
<1> QED
  BY <1>1 DEF Node

\* deQueue_router_ip, and deQueue when k is 1: a list without its node k.
LEMMA RemoveBody ==
    ASSUME NEW t \in Int, NEW list, Body(list, t), NEW k \in DOMAIN list
    PROVE  /\ Body(RemoveAt(list, k), t)
           /\ From(RemoveAt(list, k), list)
           /\ ~Has(RemoveAt(list, k), list[k].router_id)
           /\ \A w : Has(list, w) /\ w # list[k].router_id => Has(RemoveAt(list, k), w)
<1> DEFINE new == RemoveAt(list, k)
           was(i) == IF i < k THEN i ELSE i + 1
<1>1. list \in Seq(Node)
  BY DEF Body
<1>2. /\ new \in Seq(Node)
      /\ Len(list) \in Nat /\ DOMAIN list = 1 .. Len(list)
      /\ Len(new) = Len(list) - 1
      /\ DOMAIN new = 1 .. Len(list) - 1
      /\ \A i \in 1 .. k - 1 : new[i] = list[i]
      /\ \A i \in k .. Len(list) - 1 : new[i] = list[i + 1]
  BY <1>1, RemovePlaces
<1> HIDE DEF new
<1>3. ASSUME NEW i \in DOMAIN new
      PROVE  was(i) \in DOMAIN list /\ new[i] = list[was(i)] /\ was(i) # k /\ i \in Nat /\ was(i) \in Nat
  BY <1>2
<1>4. \A i, j \in DOMAIN new : (i < j => was(i) < was(j)) /\ (was(i) = was(j) => i = j)
  BY <1>2
<1>5. Body(new, t)
  <2>1. \A i, j \in DOMAIN new : new[i].router_id = new[j].router_id => i = j
    <3> SUFFICES ASSUME NEW i \in DOMAIN new, NEW j \in DOMAIN new, new[i].router_id = new[j].router_id
                 PROVE  i = j
      OBVIOUS
    <3>1. was(i) = was(j)
      BY <1>3 DEF Body
    <3> QED
      BY <1>4, <3>1
  <2>2. \E n \in 0 .. Len(new) : Leading(new, n)
    <3>1. PICK n \in 0 .. Len(list) : Leading(list, n)
      BY DEF Body
    <3>2. Len(new) = Len(list) - 1 /\ k \in 1 .. Len(list) /\ n \in Int
      BY <1>2, <3>1
    <3>3. CASE k <= n
      <4>1. n - 1 \in 0 .. Len(new)
        BY <1>2, <3>2, <3>3
      <4>2. \A i \in DOMAIN new : was(i) <= n <=> i <= n - 1
        BY <1>2, <3>2, <3>3
      <4> HIDE DEF was
      <4>3. Leading(new, n - 1)
        BY <1>3, <3>1, <4>2 DEF Leading
      <4> QED
        BY <4>1, <4>3
    <3>4. CASE n < k
      <4>1. n \in 0 .. Len(new)
        BY <1>2, <3>1, <3>2, <3>4
      <4>2. \A i \in DOMAIN new : was(i) <= n <=> i <= n
        BY <1>2, <3>2, <3>4
      <4> HIDE DEF was
      <4>3. Leading(new, n)
        BY <1>3, <3>1, <4>2 DEF Leading
      <4> QED
        BY <4>1, <4>3
    <3> QED
      BY <3>2, <3>3, <3>4
  <2>3. \A i \in DOMAIN new : new[i].router_id = my_id => new[i].recv = 1
    <3> HIDE DEF was
    <3> QED
      BY <1>3 DEF Body
  <2>4. ASSUME NEW i \in DOMAIN new, new[i].recv = 1
        PROVE  /\ new[i].timeout <= t + Interval
               /\ \A j \in 1 .. i : new[j].timeout <= new[i].timeout
    <3>1. new[i].timeout <= t + Interval
      <4> HIDE DEF was
      <4> QED
        BY <1>3, <2>4 DEF Body
    <3>2. ASSUME NEW j \in 1 .. i PROVE new[j].timeout <= new[i].timeout
      <4>1. j \in DOMAIN new /\ (j = i \/ j < i)
        BY <1>2, <1>3
      <4>2. was(j) \in 1 .. was(i)
        BY <1>2, <1>3, <1>4, <4>1
      <4> HIDE DEF was
      <4> QED
        BY <1>3, <2>4, <4>1, <4>2 DEF Body
    <3> QED
      BY <3>1, <3>2
  <2> QED
    BY <1>2, <2>1, <2>2, <2>3, <2>4 DEF Body
<1>6. From(new, list)
  <2> HIDE DEF was
  <2> QED
    BY <1>3 DEF From
<1>7. ~Has(new, list[k].router_id)
  <2> SUFFICES ASSUME NEW i \in DOMAIN new, new[i].router_id = list[k].router_id PROVE FALSE
    BY DEF Has
  <2> HIDE DEF was
  <2>1. was(i) = k
    BY <1>3 DEF Body
  <2> QED
    BY <1>3, <2>1
<1>8. ASSUME NEW w, Has(list, w), w # list[k].router_id PROVE Has(new, w)
  <2>1. PICK j \in DOMAIN list : list[j].router_id = w
    BY <1>8 DEF Has
  <2>2. j # k /\ j \in 1 .. Len(list) /\ k \in 1 .. Len(list)
    BY <1>2, <1>8, <2>1
  <2>3. CASE j < k
    <3>1. j \in DOMAIN new /\ new[j] = list[j]
      BY <1>2, <2>2, <2>3
    <3> QED
      BY <2>1, <3>1 DEF Has
  <2>4. CASE j > k
    <3>1. j - 1 \in DOMAIN new /\ j - 1 \in k .. Len(list) - 1 /\ (j - 1) + 1 = j
      BY <1>2, <2>2, <2>4
    <3>2. new[j - 1] = list[j]
      BY <1>2, <3>1
    <3> QED
      BY <2>1, <3>1, <3>2 DEF Has
  <2> QED
    BY <2>2, <2>3, <2>4
<1> QED
  BY <1>5, <1>6, <1>7, <1>8 DEF new

\* enQueueByRecv of a node whose timer has just been started.
LEMMA EnQueueBody ==
    ASSUME NEW t \in Int, NEW list, Body(list, t),
           NEW node \in Node, node.recv = 1, node.timeout = t + Interval,
           ~Has(list, node.router_id)
    PROVE  LET new == enQueueByRecv(list, node) IN
           /\ Body(new, t)
           /\ \A i \in DOMAIN new : new[i] = node \/ \E j \in DOMAIN list : new[i] = list[j]
           /\ Has(new, node.router_id)
           /\ \A w : Has(list, w) => Has(new, w)
<1> DEFINE new == enQueueByRecv(list, node)
<1>1. list \in Seq(Node)
  BY DEF Body
<1>2. PICK k \in 0 .. Len(list) : Leading(list, k)
  BY DEF Body
<1>3. /\ new \in Seq(Node)
      /\ Len(list) \in Nat /\ DOMAIN list = 1 .. Len(list)
      /\ DOMAIN new = 1 .. Len(list) + 1
      /\ \A i \in 1 .. k : new[i] = list[i]
      /\ new[k + 1] = node
      /\ \A i \in k + 2 .. Len(list) + 1 : new[i] = list[i - 1]
  <2>1. new = InsertAt(list, k + 1, node)
    BY <1>1, <1>2, EnQueuePlace
  <2> DEFINE ins == InsertAt(list, k + 1, node)
  <2>2. /\ ins \in Seq(Node)
        /\ Len(list) \in Nat /\ DOMAIN list = 1 .. Len(list)
        /\ DOMAIN ins = 1 .. Len(list) + 1
        /\ \A i \in 1 .. k : ins[i] = list[i]
        /\ ins[k + 1] = node
        /\ \A i \in k + 2 .. Len(list) + 1 : ins[i] = list[i - 1]
    BY <1>1, InsertPlaces
  <2> HIDE DEF new, ins
  <2>3. new = ins
    BY <2>1 DEF ins
  <2> QED
    BY <2>2, <2>3
<1> HIDE DEF new
\* Behind the new node nothing has a deadline.
<1>4. ASSUME NEW i \in DOMAIN list PROVE list[i].recv = 1 <=> i <= k
  BY <1>2 DEF Leading
<1>5. ASSUME NEW i \in DOMAIN new
      PROVE  \/ i \in 1 .. k /\ i \in DOMAIN list /\ new[i] = list[i] /\ list[i].recv = 1
             \/ i = k + 1 /\ new[i] = node
             \/ i > k + 1 /\ i - 1 \in DOMAIN list /\ new[i] = list[i - 1] /\ list[i - 1].recv # 1
  <2>1. CASE i \in 1 .. k
    BY <1>3, <1>4, <2>1
  <2>2. CASE i = k + 1
    BY <1>3, <2>2
  <2>3. CASE i \in k + 2 .. Len(list) + 1
    <3>1. i - 1 \in DOMAIN list /\ ~(i - 1 <= k)
      BY <1>3, <2>3
    <3> QED
      BY <1>3, <1>4, <2>3, <3>1
  <2> QED
    BY <1>3, <2>1, <2>2, <2>3
<1>6. \A i \in DOMAIN list : list[i].router_id # node.router_id
  BY DEF Has
<1>7. Body(new, t)
  <2>1. ASSUME NEW i \in DOMAIN new, NEW j \in DOMAIN new, new[i].router_id = new[j].router_id
        PROVE  i = j
    <3>0. i \in Nat /\ j \in Nat
      BY <1>3
    <3>1. CASE i = k + 1
      BY <1>5, <1>6, <2>1, <3>1
    <3>2. CASE j = k + 1
      BY <1>5, <1>6, <2>1, <3>2
    <3>3. CASE i # k + 1 /\ j # k + 1
      <4> DEFINE was(n) == IF n <= k THEN n ELSE n - 1
      <4>1. ASSUME NEW n \in DOMAIN new, n # k + 1
            PROVE  was(n) \in DOMAIN list /\ new[n] = list[was(n)]
        <5>1. n \in Nat /\ (n \in 1 .. k => n <= k) /\ (n > k + 1 => ~(n <= k))
          BY <1>3
        <5>2. CASE n \in 1 .. k
          BY <1>3, <5>1, <5>2
        <5>3. CASE n > k + 1
          BY <1>3, <1>5, <5>1, <5>3
        <5> QED
          BY <1>3, <4>1, <5>1, <5>2, <5>3
      <4>2. was(i) = was(j) => i = j
        BY <3>0, <3>3
      <4> HIDE DEF was
      <4>3. was(i) = was(j)
        BY <2>1, <3>3, <4>1 DEF Body
      <4> QED
        BY <4>2, <4>3
    <3> QED
      BY <3>1, <3>2, <3>3
  <2>2. ASSUME NEW i \in DOMAIN new, new[i].recv = 1 PROVE i <= k + 1
    BY <1>3, <1>5, <2>2
  <2>3. k + 1 \in 0 .. Len(new) /\ Leading(new, k + 1)
    <3>1. Len(new) = Len(list) + 1
      BY <1>3
    <3>2. ASSUME NEW i \in DOMAIN new, i <= k + 1 PROVE new[i].recv = 1
      BY <1>3, <1>5, <3>2
    <3> QED
      BY <1>3, <2>2, <3>1, <3>2 DEF Leading
  <2>4. \A i \in DOMAIN new : new[i].router_id = my_id => new[i].recv = 1
    BY <1>5 DEF Body
  <2>5. ASSUME NEW i \in DOMAIN new, new[i].recv = 1
        PROVE  /\ new[i].timeout <= t + Interval
               /\ \A j \in 1 .. i : new[j].timeout <= new[i].timeout
    <3>1. \A j \in 1 .. k : j \in DOMAIN list /\ list[j].recv = 1 /\ new[j] = list[j]
      BY <1>3, <1>4
    <3>2. \A j \in 1 .. k : list[j].timeout <= t + Interval /\ list[j].timeout \in Int
      BY <1>1, <3>1, NodeFields DEF Body
    <3>3. t + Interval \in Int
      BY IntervalType
    <3>4. CASE i = k + 1
      <4>1. \A j \in 1 .. i : j \in 1 .. k \/ j = k + 1
        BY <3>4
      <4> QED
        BY <1>3, <3>1, <3>2, <3>3, <3>4, <4>1
    <3>5. CASE i \in 1 .. k
      <4>1. \A j \in 1 .. i : j \in 1 .. k
        BY <3>5
      <4>2. \A j \in 1 .. i : list[j].timeout <= list[i].timeout
        BY <3>1, <3>5 DEF Body
      <4> QED
        BY <3>1, <3>2, <3>5, <4>1, <4>2
    <3> QED
      BY <1>3, <2>2, <2>5, <3>4, <3>5
  <2> QED
    BY <1>3, <2>1, <2>3, <2>4, <2>5 DEF Body
<1>8. \A i \in DOMAIN new : new[i] = node \/ \E j \in DOMAIN list : new[i] = list[j]
  BY <1>5
<1>9. Has(new, node.router_id)
  BY <1>3 DEF Has
<1>10. ASSUME NEW w, Has(list, w) PROVE Has(new, w)
  <2>1. PICK j \in DOMAIN list : list[j].router_id = w
    BY <1>10 DEF Has
  <2>2. CASE j <= k
    <3>1. j \in DOMAIN new /\ new[j] = list[j]
      BY <1>3, <2>2
    <3> QED
      BY <2>1, <3>1 DEF Has
  <2>3. CASE j > k
    <3>1. j + 1 \in DOMAIN new /\ j + 1 \in k + 2 .. Len(list) + 1 /\ (j + 1) - 1 = j
      BY <1>3, <2>3
    <3>2. new[j + 1] = list[j]
      BY <1>3, <3>1
    <3> QED
      BY <2>1, <3>1, <3>2 DEF Has
  <2> QED
    BY <1>3, <2>2, <2>3
<1> QED
  BY <1>7, <1>8, <1>9, <1>10 DEF new

\* deQueue: a list without its head.
LEMMA TailRemoves ==
    ASSUME NEW S, NEW s \in Seq(S), s # <<>>
    PROVE  Tail(s) = RemoveAt(s, 1) /\ 1 \in DOMAIN s /\ Head(s) = s[1]
<1>1. Len(s) \in Nat /\ 1 \in DOMAIN s /\ Head(s) = s[1]
  OBVIOUS
<1>2. /\ RemoveAt(s, 1) \in Seq(S)
      /\ Len(RemoveAt(s, 1)) = Len(s) - 1
      /\ DOMAIN RemoveAt(s, 1) = 1 .. Len(s) - 1
      /\ \A i \in 1 .. Len(s) - 1 : RemoveAt(s, 1)[i] = s[i + 1]
  BY <1>1, RemovePlaces
<1> DEFINE r == RemoveAt(s, 1)
<1> HIDE DEF r
<1>3. Tail(s) \in Seq(S) /\ Len(Tail(s)) = Len(s) - 1 /\ \A i \in 1 .. Len(s) - 1 : Tail(s)[i] = s[i + 1]
  BY <1>1
<1>4. r \in Seq(S) /\ Len(r) = Len(s) - 1 /\ \A i \in 1 .. Len(s) - 1 : r[i] = s[i + 1]
  BY <1>2 DEF r
<1>5. Tail(s) = r
  BY <1>3, <1>4
<1> QED
  BY <1>1, <1>5 DEF r

\* Due of a node, when the table was last sent at sent and the neighbours were
\* last heard at heard.
DueIn(node, sent, heard) ==
    IF node.router_id = my_id THEN sent + Interval
    ELSE heard[node.router_id] + (node.count + 1) * Interval

\* The invariant of a list, but for deadline.
Timely(list, t, sent, heard) ==
    /\ Body(list, t)
    /\ Has(list, my_id)
    /\ \A i \in DOMAIN list : list[i].recv = 1 =>
          list[i].timeout <= DueIn(list[i], sent, heard) /\ t <= DueIn(list[i], sent, heard)

\* Intervals are counted in whole numbers.
LEMMA Intervals ==
    /\ \A c \in 0 .. 2 : (c + 1) * Interval \in Nat
    /\ \A c \in 0 .. 1 : (c + 2) * Interval = (c + 1) * Interval + Interval
    /\ 1 * Interval = Interval
    /\ \A c \in 0 .. 2 : (c + 1) * Interval <= 3 * Interval
<1>1. \A I \in Nat : /\ \A c \in {0, 1, 2} : (c + 1) * I \in Nat /\ (c + 1) * I <= 3 * I
                     /\ \A c \in {0, 1} : (c + 2) * I = (c + 1) * I + I
                     /\ 1 * I = I
  OBVIOUS
<1>2. \A c \in 0 .. 2 : c \in {0, 1, 2}
  OBVIOUS
<1>3. \A c \in 0 .. 1 : c \in {0, 1}
  OBVIOUS
<1> QED
  BY <1>1, <1>2, <1>3, IntervalType

\* A deadline is a time.
LEMMA DueType ==
    ASSUME NEW node \in Node, NEW sent \in Nat, NEW heard \in [Neighbour -> Nat]
    PROVE  DueIn(node, sent, heard) \in Nat
BY IntervalType, Intervals DEF DueIn, Node

\* In a list with the router's own node the head has a deadline.
LEMMA HeadLeads ==
    ASSUME NEW t, NEW list, Body(list, t), Has(list, my_id)
    PROVE  list # <<>> /\ 1 \in DOMAIN list /\ Head(list) = list[1] /\ list[1].recv = 1
<1>1. PICK m \in DOMAIN list : list[m].router_id = my_id
  BY DEF Has
<1>2. list[m].recv = 1
  BY <1>1 DEF Body
<1>3. PICK k \in 0 .. Len(list) : Leading(list, k)
  BY DEF Body
<1>4. list \in Seq(Node) /\ Len(list) \in Nat /\ DOMAIN list = 1 .. Len(list)
  BY DEF Body
<1>5. m <= k /\ 1 <= m /\ 1 \in DOMAIN list /\ 1 <= k
  BY <1>2, <1>3, <1>4 DEF Leading
<1> QED
  BY <1>3, <1>4, <1>5 DEF Leading

\* get_timer: only the deadline of the head changes, and only to an earlier one.
LEMMA Borrowed ==
    ASSUME NEW list \in Seq(Node), list # <<>>, get_timer(list)
    PROVE  /\ RT' \in Seq(Node) /\ Len(RT') = Len(list) /\ DOMAIN RT' = DOMAIN list
           /\ \A i \in DOMAIN list :
                 /\ RT'[i].router_id = list[i].router_id
                 /\ RT'[i].count = list[i].count
                 /\ RT'[i].recv = list[i].recv
                 /\ RT'[i].timeout \in {list[i].timeout, list[i].timeout - TICKS}
                 /\ i # 1 => RT'[i].timeout = list[i].timeout
<1>1. 1 \in DOMAIN list /\ list[1] \in Node /\ list[1].timeout \in Int /\ TICKS \in Int
  <2>1. 1 \in DOMAIN list /\ list[1] \in Node
    OBVIOUS
  <2> QED
    BY <2>1, TimeoutAssumption DEF Node
<1>2. CASE RT' = list
  BY <1>2
<1>3. CASE RT' = [list EXCEPT ![1].timeout = @ - TICKS]
  <2> DEFINE head == [list[1] EXCEPT !.timeout = list[1].timeout - TICKS]
  <2>1. RT' = [list EXCEPT ![1] = head]
    BY <1>3
  <2>2. /\ head \in Node /\ head.router_id = list[1].router_id /\ head.count = list[1].count
        /\ head.recv = list[1].recv /\ head.timeout = list[1].timeout - TICKS
    BY <1>1 DEF Node
  <2> HIDE DEF head
  <2>3. /\ RT' \in Seq(Node) /\ Len(RT') = Len(list) /\ DOMAIN RT' = DOMAIN list
        /\ RT'[1] = head /\ \A i \in DOMAIN list : i # 1 => RT'[i] = list[i]
    BY <1>1, <2>1, <2>2
  <2> QED
    BY <2>2, <2>3
<1> QED
  BY <1>2, <1>3 DEF get_timer

\* get_timer: what it makes of a list is the invariant after the turn.
LEMMA GetTimer ==
    ASSUME NEW list, now \in Nat, lastSent' \in Nat, heardAt' \in [Neighbour -> Nat],
           now' = now, get_timer(list), Timely(list, now, lastSent', heardAt')
    PROVE  RT' \in Seq(Node) /\ deadline' \in Int /\ (OneNodeEach /\ Parted /\ Sorted /\ InTime)'
<1> DEFINE due(node) == DueIn(node, lastSent', heardAt')
<1>1. list \in Seq(Node) /\ Len(list) \in Nat /\ DOMAIN list = 1 .. Len(list)
  BY DEF Timely, Body
<1>2. list # <<>> /\ 1 \in DOMAIN list /\ Head(list) = list[1] /\ list[1].recv = 1
  BY HeadLeads DEF Timely
<1>3. \A i \in DOMAIN list :
         /\ list[i] \in Node /\ due(list[i]) \in Int
         /\ list[i].timeout \in Int /\ list[i].recv \in {0, 1}
  <2> SUFFICES ASSUME NEW i \in DOMAIN list
               PROVE  /\ list[i] \in Node /\ due(list[i]) \in Int
                      /\ list[i].timeout \in Int /\ list[i].recv \in {0, 1}
    OBVIOUS
  <2>1. list[i] \in Node
    BY <1>1
  <2>2. due(list[i]) \in Nat
    BY <2>1, DueType
  <2> HIDE DEF due
  <2> QED
    BY <2>1, <2>2 DEF Node
<1>4. now + Interval \in Int /\ TICKS \in Nat
  BY IntervalType, TimeoutAssumption
\* Only the deadline of the head changes, and only to an earlier one.
<1>5. /\ RT' \in Seq(Node) /\ Len(RT') = Len(list) /\ DOMAIN RT' = DOMAIN list
      /\ \A i \in DOMAIN list :
            /\ RT'[i].router_id = list[i].router_id
            /\ RT'[i].count = list[i].count
            /\ RT'[i].recv = list[i].recv
            /\ RT'[i].timeout \in Int
            /\ RT'[i].timeout <= list[i].timeout
            /\ i # 1 => RT'[i].timeout = list[i].timeout
  <2>1. TICKS \in Nat /\ \A i \in DOMAIN list : list[i].timeout \in Int
    BY <1>3, <1>4
  <2> QED
    BY <1>1, <1>2, <2>1, Borrowed
<1>6. deadline' = now \/ deadline' = list[1].timeout
  BY <1>2 DEF get_timer
<1>7. deadline' \in Int
  BY <1>2, <1>3, <1>6
<1>8. \A i \in DOMAIN list : DueIn(RT'[i], lastSent', heardAt') = due(list[i])
  BY <1>5 DEF DueIn
<1>9. \A i \in DOMAIN list : Due(RT[i])' = DueIn(RT'[i], lastSent', heardAt')
  BY DEF Due, DueIn
<1>10. OneNodeEach'
  <2>1. Listed(my_id)'
    BY <1>5 DEF Listed, Timely, Has
  <2>2. \A i, j \in DOMAIN list : list[i].router_id = list[j].router_id => i = j
    BY DEF Timely, Body
  <2> QED
    BY <1>5, <2>1, <2>2 DEF OneNodeEach
<1>11. Parted'
  <2>1. PICK k \in 0 .. Len(list) : Leading(list, k)
    BY DEF Timely, Body
  <2>2. \A i \in DOMAIN list : list[i].router_id = my_id => list[i].recv = 1
    BY DEF Timely, Body
  <2>3. \E n \in 0 .. Len(RT') : \A i \in DOMAIN RT' : RT'[i].recv = 1 <=> i <= n
    BY <1>5, <2>1 DEF Leading
  <2> QED
    BY <1>5, <2>2, <2>3 DEF Parted
<1>12. Sorted'
  <2>1. \A i \in DOMAIN list : list[i].recv = 1 =>
           /\ list[i].timeout <= now + Interval
           /\ \A j \in 1 .. i : list[j].timeout <= list[i].timeout
    BY DEF Timely, Body
  <2>2. ASSUME NEW i \in DOMAIN list, list[i].recv = 1
        PROVE  RT'[i].timeout <= now + Interval
    BY <1>3, <1>4, <1>5, <2>1, <2>2
  <2>3. ASSUME NEW i \in DOMAIN list, list[i].recv = 1, NEW j \in 1 .. i
        PROVE  RT'[j].timeout <= RT'[i].timeout
    <3>1. j \in DOMAIN list /\ (i = 1 => j = 1)
      BY <1>1
    <3>2. CASE i = 1
      BY <1>5, <3>1, <3>2
    <3>3. CASE i # 1
      <4>1. list[j].timeout <= list[i].timeout /\ RT'[i].timeout = list[i].timeout
        BY <1>5, <2>1, <2>3, <3>3
      <4> QED
        BY <1>3, <1>5, <3>1, <4>1
    <3> QED
      BY <3>2, <3>3
  <2> QED
    BY <1>5, <2>2, <2>3 DEF Sorted, Interval
<1>13. InTime'
  <2> SUFFICES ASSUME NEW i \in DOMAIN list, list[i].recv = 1
               PROVE  /\ RT'[i].timeout <= due(list[i])
                      /\ now <= due(list[i])
                      /\ deadline' <= now \/ deadline' <= due(list[i])
    BY <1>5, <1>8, <1>9 DEF InTime
  <2>1. list[i].timeout <= due(list[i]) /\ now <= due(list[i])
    BY DEF Timely
  <2>2. list[1].timeout <= list[i].timeout
    <3>1. 1 \in 1 .. i
      BY <1>1
    <3> QED
      BY <3>1 DEF Timely, Body
  <2> HIDE DEF due
  <2>3. /\ RT'[i].timeout \in Int /\ RT'[i].timeout <= list[i].timeout
        /\ list[i].timeout \in Int /\ list[1].timeout \in Int /\ due(list[i]) \in Int
    BY <1>2, <1>3, <1>5
  <2>4. RT'[i].timeout <= due(list[i])
    BY <2>1, <2>3
  <2>5. deadline' <= now \/ deadline' <= due(list[i])
    BY <1>6, <2>1, <2>2, <2>3
  <2> QED
    BY <2>1, <2>4, <2>5
<1> QED
  BY <1>5, <1>7, <1>10, <1>11, <1>12, <1>13

\* A turn that starts a timer: the list without a node v, with the node put
\* back and its deadline an interval away, is timely for the histories sent2
\* and heard2, which are those of every other node.
LEMMA Restart ==
    ASSUME NEW t \in Nat, NEW list, NEW v \in Neighbour \cup {my_id}, Body(list, t), ~Has(list, v),
           NEW sent, NEW heard, NEW sent2 \in Nat, NEW heard2 \in [Neighbour -> Nat],
           v = my_id \/ Has(list, my_id),
           \A i \in DOMAIN list :
              /\ DueIn(list[i], sent2, heard2) = DueIn(list[i], sent, heard)
              /\ list[i].recv = 1 =>
                    /\ list[i].timeout <= DueIn(list[i], sent, heard)
                    /\ t <= DueIn(list[i], sent, heard),
           NEW node \in Node, node.router_id = v, node.recv = 1, node.timeout = t + Interval,
           t + Interval <= DueIn(node, sent2, heard2)
    PROVE  Timely(enQueueByRecv(list, node), t, sent2, heard2)
<1> DEFINE new == enQueueByRecv(list, node)
<1>1. /\ Body(new, t)
      /\ \A i \in DOMAIN new : new[i] = node \/ \E j \in DOMAIN list : new[i] = list[j]
      /\ Has(new, v)
      /\ \A w : Has(list, w) => Has(new, w)
  BY EnQueueBody
<1> HIDE DEF new
<1>2. Has(new, my_id)
  BY <1>1
<1>3. ASSUME NEW i \in DOMAIN new, new[i].recv = 1
      PROVE  new[i].timeout <= DueIn(new[i], sent2, heard2) /\ t <= DueIn(new[i], sent2, heard2)
  <2>1. CASE new[i] = node
    <3>1. DueIn(node, sent2, heard2) \in Nat /\ t <= t + Interval
      BY DueType, IntervalType
    <3> QED
      BY <2>1, <3>1, IntervalType
  <2>2. CASE \E j \in DOMAIN list : new[i] = list[j]
    BY <1>3, <2>2
  <2> QED
    BY <1>1, <2>1, <2>2
<1> QED
  BY <1>1, <1>2, <1>3 DEF Timely, new

\* The invariant, of the list alone.
LEMMA IInvTimely ==
    ASSUME IInv
    PROVE  Timely(RT, now, lastSent, heardAt)
<1>1. RT \in Seq(Node)
  BY DEF IInv, TypeOK
<1>2. \A i \in DOMAIN RT : Due(RT[i]) = DueIn(RT[i], lastSent, heardAt)
  BY DEF Due, DueIn
<1>3. Has(RT, my_id)
  BY DEF IInv, OneNodeEach, Listed, Has
<1>4. Body(RT, now)
  BY <1>1 DEF IInv, OneNodeEach, Parted, Leading, Sorted, Body
<1>5. \A i \in DOMAIN RT : RT[i].recv = 1 =>
          RT[i].timeout <= DueIn(RT[i], lastSent, heardAt) /\ now <= DueIn(RT[i], lastSent, heardAt)
  BY <1>2 DEF IInv, InTime
<1> QED
  BY <1>3, <1>4, <1>5 DEF Timely

\* What is left of the list when a node has been taken from it.
LEMMA Taken ==
    ASSUME NEW list, NEW t \in Nat, NEW sent, NEW heard, Timely(list, t, sent, heard),
           NEW k \in DOMAIN list
    PROVE  LET left == RemoveAt(list, k) IN
           /\ Body(left, t)
           /\ ~Has(left, list[k].router_id)
           /\ list[k].router_id # my_id => Has(left, my_id)
           /\ \A i \in DOMAIN left :
                 /\ left[i] \in Node /\ left[i].router_id # list[k].router_id
                 /\ left[i].recv = 1 =>
                       left[i].timeout <= DueIn(left[i], sent, heard) /\ t <= DueIn(left[i], sent, heard)
<1> DEFINE left == RemoveAt(list, k)
<1>1. Body(list, t) /\ list \in Seq(Node) /\ Has(list, my_id) /\ t \in Int
  BY DEF Timely, Body
<1>2. /\ Body(left, t) /\ From(left, list) /\ ~Has(left, list[k].router_id)
      /\ \A w : Has(list, w) /\ w # list[k].router_id => Has(left, w)
  BY <1>1, RemoveBody
<1> HIDE DEF left
<1>3. ASSUME NEW i \in DOMAIN left
      PROVE  /\ left[i] \in Node /\ left[i].router_id # list[k].router_id
             /\ left[i].recv = 1 =>
                   left[i].timeout <= DueIn(left[i], sent, heard) /\ t <= DueIn(left[i], sent, heard)
  <2>1. PICK j \in DOMAIN list : left[i] = list[j]
    BY <1>2 DEF From
  <2>2. list[j] \in Node
    BY <1>1
  <2> QED
    BY <1>2, <2>1, <2>2 DEF Has, Timely
<1> QED
  BY <1>1, <1>2, <1>3 DEF left

-----------------------------------------------------------------------------
(* The inductive invariant *)

\* init_routing_table builds a list that satisfies it.
LEMMA IInvInit == Init => IInv
<1> SUFFICES ASSUME Init PROVE IInv
  OBVIOUS
<1> DEFINE own == [router_id |-> my_id, timeout |-> now + Interval, count |-> 0, recv |-> 1]
           other(order) == [i \in DOMAIN order |->
                      [router_id |-> order[i], timeout |-> Garbage, count |-> 0, recv |-> 0]]
<1>1. PICK order \in SetToSeqs(Neighbour) : RT = <<own>> \o other(order)
  BY DEF Init
<1>2. now \in Nat /\ now + Interval \in Int /\ Interval \in Nat /\ Garbage \in Int
      /\ 1 * Interval = Interval
  BY IntervalType, Intervals, TimeoutAssumption DEF Init
<1> DEFINE n == Cardinality(Neighbour)
<1>3. n \in Nat
  BY FS_CardinalityType, TimeoutAssumption
<1>4. /\ order \in [1 .. n -> Neighbour]
      /\ \A i, j \in 1 .. n : i # j => order[i] # order[j]
  BY DEF SetToSeqs
<1> HIDE DEF n
<1>5. own \in Node
  BY <1>2 DEF Node
<1>6. other(order) \in Seq(Node) /\ Len(other(order)) = n
      /\ \A i \in 1 .. n : other(order)[i] =
             [router_id |-> order[i], timeout |-> Garbage, count |-> 0, recv |-> 0]
  <2>1. other(order) \in [1 .. n -> Node]
    BY <1>2, <1>4 DEF Node
  <2> QED
    BY <1>3, <1>4, <2>1
<1> DEFINE rest == other(order)
<1> HIDE DEF own, rest
<1>7. /\ RT \in Seq(Node) /\ Len(RT) = n + 1 /\ DOMAIN RT = 1 .. n + 1
      /\ RT[1] = own
      /\ \A i \in 2 .. n + 1 : RT[i] = rest[i - 1]
  <2>1. rest \in Seq(Node) /\ Len(rest) = n
    BY <1>6 DEF rest
  <2>2. RT = <<own>> \o rest
    BY <1>1 DEF rest
  <2> QED
    BY <1>3, <1>5, <2>1, <2>2
<1>8. \A i \in 2 .. n + 1 : i - 1 \in 1 .. n /\ RT[i].router_id = order[i - 1] /\ RT[i].recv = 0
  <2> SUFFICES ASSUME NEW i \in 2 .. n + 1
               PROVE  i - 1 \in 1 .. n /\ RT[i].router_id = order[i - 1] /\ RT[i].recv = 0
    OBVIOUS
  <2>1. i - 1 \in 1 .. n
    BY <1>3
  <2>2. RT[i] = other(order)[i - 1]
    BY <1>7 DEF rest
  <2>3. other(order)[i - 1] =
            [router_id |-> order[i - 1], timeout |-> Garbage, count |-> 0, recv |-> 0]
    BY <1>6, <2>1
  <2> HIDE DEF other
  <2> QED
    BY <2>1, <2>2, <2>3
<1>9. RT[1].router_id = my_id /\ RT[1].recv = 1 /\ RT[1].timeout = now + Interval
  BY <1>7 DEF own
<1>10. \A i \in DOMAIN RT : i = 1 \/ i \in 2 .. n + 1
  BY <1>3, <1>7
<1>11. TypeOK
  <2>1. /\ heardAt \in [Neighbour -> Nat]
        /\ DOMAIN silence \subseteq Neighbour
        /\ silence \in [DOMAIN silence -> [lasted : Int, woken : Nat]]
        /\ woken \in [Neighbour -> Nat]
    BY <1>2 DEF Init
  <2>2. lastSent = now /\ deadline = now + Interval /\ wakes = 0
    BY DEF Init
  <2> QED
    BY <1>2, <1>7, <2>1, <2>2 DEF TypeOK
<1>12. OneNodeEach
  <2>1. Listed(my_id)
    BY <1>3, <1>7, <1>9 DEF Listed
  <2>2. ASSUME NEW i \in DOMAIN RT, NEW j \in DOMAIN RT, RT[i].router_id = RT[j].router_id
        PROVE  i = j
    <3>1. \A m \in 1 .. n : order[m] # my_id
      BY <1>4, TimeoutAssumption
    <3>2. CASE i = 1 \/ j = 1
      BY <1>8, <1>9, <1>10, <2>2, <3>1, <3>2
    <3>3. CASE i \in 2 .. n + 1 /\ j \in 2 .. n + 1
      <4>1. i - 1 = j - 1
        BY <1>4, <1>8, <2>2, <3>3
      <4> QED
        BY <3>3, <4>1
    <3> QED
      BY <1>10, <3>2, <3>3
  <2> QED
    BY <2>1, <2>2 DEF OneNodeEach
<1>13. Parted
  <2>1. 1 \in 0 .. Len(RT) /\ \A i \in DOMAIN RT : RT[i].recv = 1 <=> i <= 1
    BY <1>3, <1>7, <1>8, <1>9, <1>10
  <2>2. \A i \in DOMAIN RT : RT[i].router_id = my_id => RT[i].recv = 1
    BY <1>4, <1>8, <1>9, <1>10, TimeoutAssumption
  <2> QED
    BY <2>1, <2>2 DEF Parted
<1>14. \A i \in DOMAIN RT : RT[i].recv = 1 => i = 1
  BY <1>8, <1>10
<1>15. Sorted
  <2>1. \A j \in 1 .. 1 : j = 1
    OBVIOUS
  <2> QED
    BY <1>2, <1>9, <1>14, <2>1 DEF Sorted
<1>16. InTime
  <2>1. Due(RT[1]) = now + Interval /\ deadline = now + Interval
    BY <1>9 DEF Due, Init
  <2> QED
    BY <1>2, <1>9, <1>14, <2>1 DEF InTime
<1>17. NotEarly
  <2>1. Due(RT[1]) = now + Interval /\ deadline = now + Interval /\ DOMAIN silence = {}
    BY <1>9 DEF Due, Init
  <2>2. RT[1].router_id = my_id
    BY <1>9
  <2>3. \A i \in DOMAIN RT : ~(RT[i].recv = 1 /\ RT[i].router_id # my_id)
    BY <1>14, <2>2
  <2> QED
    BY <2>1, <2>3 DEF NotEarly, NotTooEarly
<1> QED
  BY <1>11, <1>12, <1>13, <1>15, <1>16, <1>17 DEF IInv

\* Time passes only until the deadline select waits for.
LEMMA TickKeeps == IInv /\ Tick => IInv'
<1> SUFFICES ASSUME IInv, Tick PROVE IInv'
  OBVIOUS
<1>1. /\ now' = now + 1 /\ now < deadline
      /\ RT' = RT /\ deadline' = deadline /\ lastSent' = lastSent /\ heardAt' = heardAt
      /\ woken' = woken /\ silence' = silence /\ wakes' = wakes
  BY DEF Tick
<1>2. /\ now \in Nat /\ deadline \in Int /\ RT \in Seq(Node)
      /\ lastSent \in Nat /\ heardAt \in [Neighbour -> Nat]
  BY DEF IInv, TypeOK
<1>3. \A i \in DOMAIN RT : Due(RT[i])' = Due(RT[i])
  BY <1>1 DEF Due
<1>4. ASSUME NEW i \in DOMAIN RT
      PROVE  Due(RT[i]) \in Int /\ RT[i].timeout \in Int
  <2>1. RT[i] \in Node /\ Due(RT[i]) = DueIn(RT[i], lastSent, heardAt)
    BY <1>2 DEF Due, DueIn
  <2> QED
    BY <1>2, <2>1, DueType, NodeFields
<1>5. TypeOK'
  BY <1>1 DEF IInv, TypeOK
<1>6. OneNodeEach' /\ Parted'
  BY <1>1 DEF IInv, OneNodeEach, Listed, Parted
<1>7. Sorted'
  <2>1. ASSUME NEW i \in DOMAIN RT, RT[i].recv = 1
        PROVE  /\ RT[i].timeout <= now' + Interval
               /\ \A j \in 1 .. i : RT[j].timeout <= RT[i].timeout
    <3>1. RT[i].timeout <= now + Interval /\ \A j \in 1 .. i : RT[j].timeout <= RT[i].timeout
      BY <2>1 DEF IInv, Sorted
    <3> QED
      BY <1>1, <1>2, <1>4, <3>1, IntervalType
  <2> QED
    BY <1>1, <2>1 DEF Sorted, Interval
<1>8. InTime'
  <2> SUFFICES ASSUME NEW i \in DOMAIN RT, RT[i].recv = 1
               PROVE  /\ RT[i].timeout <= Due(RT[i]) /\ now + 1 <= Due(RT[i])
                      /\ deadline <= now + 1 \/ deadline <= Due(RT[i])
    BY <1>1, <1>3 DEF InTime
  <2>1. /\ RT[i].timeout <= Due(RT[i]) /\ now <= Due(RT[i])
        /\ deadline <= now \/ deadline <= Due(RT[i])
    BY DEF IInv, InTime
  <2> QED
    BY <1>1, <1>2, <1>4, <2>1
<1>9. NotEarly'
  <2>1. NotTooEarly' = NotTooEarly
    BY <1>1 DEF NotTooEarly, Interval
  <2> QED
    BY <1>1, <1>3, <2>1 DEF IInv, NotEarly
<1> QED
  BY <1>5, <1>6, <1>7, <1>8, <1>9 DEF IInv

\* What get_timer may have taken off a neighbour's deadline.
Lag(since) == [v \in Neighbour |-> TICKS * since[v]]

\* Wake-ups are counted in seconds.
LEMMA Lags ==
    ASSUME woken \in [Neighbour -> Nat]
    PROVE  /\ Woken \in [Neighbour -> Nat] /\ TICKS \in Nat
           /\ Lag(woken) \in [Neighbour -> Nat] /\ Lag(Woken) \in [Neighbour -> Nat]
           /\ \A v \in Neighbour : /\ Lag(woken)[v] = TICKS * woken[v]
                                   /\ Lag(Woken)[v] = Lag(woken)[v] + TICKS
<1>1. \A t, n \in Nat : t * n \in Nat /\ n + 1 \in Nat /\ t * (n + 1) = t * n + t
  OBVIOUS
<1>2. TICKS \in Nat
  BY TimeoutAssumption
<1>3. \A v \in Neighbour : woken[v] \in Nat /\ Woken[v] = woken[v] + 1
  BY DEF Woken
<1>4. \A v \in Neighbour : TICKS * woken[v] \in Nat /\ TICKS * (woken[v] + 1) = TICKS * woken[v] + TICKS
  BY <1>1, <1>2, <1>3
<1>5. Woken \in [Neighbour -> Nat]
  BY <1>1, <1>3 DEF Woken
<1>6. \A v \in Neighbour : Lag(woken)[v] = TICKS * woken[v] /\ Lag(Woken)[v] = TICKS * (woken[v] + 1)
  BY <1>3 DEF Lag
<1>7. Lag(woken) \in [Neighbour -> Nat]
  BY <1>4 DEF Lag
<1>8. Lag(Woken) \in [Neighbour -> Nat]
  <2>1. \A v \in Neighbour : TICKS * Woken[v] \in Nat
    BY <1>1, <1>2, <1>5
  <2> QED
    BY <2>1 DEF Lag
<1> QED
  BY <1>2, <1>4, <1>5, <1>6, <1>7, <1>8

\* No deadline of a neighbour in list is more than its lag ahead of its time.
Lagging(list, sent, heard, lag) ==
    \A i \in DOMAIN list : list[i].recv = 1 /\ list[i].router_id # my_id =>
        DueIn(list[i], sent, heard) <= list[i].timeout + lag[list[i].router_id]

\* get_timer: a list that lags by no more than what the turn counts for.
LEMMA GetTimerLags ==
    ASSUME NEW list, now \in Nat, NEW t, lastSent' \in Nat, heardAt' \in [Neighbour -> Nat],
           now' = now, get_timer(list), Timely(list, t, lastSent', heardAt'),
           woken' \in [Neighbour -> Nat],
           Lagging(list, lastSent', heardAt', Lag(woken')), NotTooEarly'
    PROVE  NotEarly'
<1> DEFINE due(node) == DueIn(node, lastSent', heardAt')
           lag(node) == TICKS * woken'[node.router_id]
<1>1. list \in Seq(Node) /\ Len(list) \in Nat /\ DOMAIN list = 1 .. Len(list)
  BY DEF Timely, Body
<1>2. list # <<>> /\ 1 \in DOMAIN list /\ Head(list) = list[1] /\ list[1].recv = 1
  BY HeadLeads DEF Timely
<1>3. TICKS \in Nat /\ \A n \in Nat : TICKS * n \in Nat
  <2>1. \A a, b \in Nat : a * b \in Nat
    OBVIOUS
  <2> QED
    BY <2>1, TimeoutAssumption
<1>4. \A i \in DOMAIN list : list[i] \in Node /\ due(list[i]) \in Int /\ list[i].timeout \in Int
  <2> SUFFICES ASSUME NEW i \in DOMAIN list
               PROVE  list[i] \in Node /\ due(list[i]) \in Int /\ list[i].timeout \in Int
    OBVIOUS
  <2>1. list[i] \in Node
    BY <1>1
  <2>2. due(list[i]) \in Nat
    BY <2>1, DueType
  <2> HIDE DEF due
  <2> QED
    BY <2>1, <2>2 DEF Node
<1>5. /\ RT' \in Seq(Node) /\ DOMAIN RT' = DOMAIN list
      /\ \A i \in DOMAIN list :
            /\ RT'[i].router_id = list[i].router_id
            /\ RT'[i].count = list[i].count
            /\ RT'[i].recv = list[i].recv
            /\ RT'[i].timeout \in {list[i].timeout, list[i].timeout - TICKS}
            /\ i # 1 => RT'[i].timeout = list[i].timeout
  BY <1>1, <1>2, <1>3, <1>4, Borrowed
<1>6. \A i \in DOMAIN list : Due(RT[i])' = due(list[i])
  BY <1>5 DEF Due, DueIn
<1>7. deadline' \in Int /\ list[1].timeout <= deadline'
  <2>1. deadline' = IF list[1].timeout < now THEN now ELSE list[1].timeout
    BY <1>2 DEF get_timer
  <2> QED
    BY <1>2, <1>4, <2>1
<1>8. \A i \in DOMAIN list : list[i].recv = 1 /\ list[i].router_id # my_id =>
          lag(list[i]) \in Nat /\ due(list[i]) <= list[i].timeout + lag(list[i])
  <2> SUFFICES ASSUME NEW i \in DOMAIN list, list[i].recv = 1, list[i].router_id # my_id
               PROVE  lag(list[i]) \in Nat /\ due(list[i]) <= list[i].timeout + lag(list[i])
    OBVIOUS
  <2>1. list[i].router_id \in Neighbour
    BY <1>4 DEF Node
  <2>2. woken'[list[i].router_id] \in Nat
    BY <2>1
  <2>3. Lag(woken')[list[i].router_id] = lag(list[i])
    BY <2>1 DEF Lag
  <2>4. due(list[i]) <= list[i].timeout + Lag(woken')[list[i].router_id]
    BY DEF Lagging
  <2> QED
    BY <1>3, <2>2, <2>3, <2>4
<1> HIDE DEF due, lag
<1>9. ASSUME NEW i \in DOMAIN list, list[i].recv = 1, list[i].router_id # my_id
      PROVE  /\ i > 1 => due(list[i]) <= RT'[i].timeout + lag(list[i])
             /\ i = 1 => due(list[i]) <= deadline' + lag(list[i])
             /\ due(list[i]) <= RT'[i].timeout + lag(list[i]) + TICKS
  <2>1. lag(list[i]) \in Nat /\ due(list[i]) <= list[i].timeout + lag(list[i])
    BY <1>8, <1>9
  <2>2. /\ RT'[i].timeout \in {list[i].timeout, list[i].timeout - TICKS}
        /\ i # 1 => RT'[i].timeout = list[i].timeout
    BY <1>5
  <2> QED
    BY SMTT(30), <1>1, <1>3, <1>4, <1>7, <2>1, <2>2
<1>10. \A i \in DOMAIN RT' : lag(RT'[i]) = lag(list[i])
  BY <1>5 DEF lag
<1> QED
  BY <1>5, <1>6, <1>9, <1>10 DEF NotEarly, lag

\* A timer that starts again is not early, whatever its list was.
LEMMA RestartLags ==
    ASSUME NEW t \in Nat, NEW list, Body(list, t), NEW sent, NEW heard,
           NEW lag, Lagging(list, sent, heard, lag),
           NEW node \in Node, node.recv = 1, node.timeout = t + Interval,
           ~Has(list, node.router_id),
           node.router_id # my_id =>
               DueIn(node, sent, heard) <= t + Interval + lag[node.router_id]
    PROVE  Lagging(enQueueByRecv(list, node), sent, heard, lag)
<1> DEFINE new == enQueueByRecv(list, node)
<1>1. \A i \in DOMAIN new : new[i] = node \/ \E j \in DOMAIN list : new[i] = list[j]
  BY EnQueueBody
<1> HIDE DEF new
<1>2. Lagging(new, sent, heard, lag)
  BY <1>1 DEF Lagging
<1> QED
  BY <1>2 DEF new

\* What is left of a list without a node lags no more.
LEMMA TakenLags ==
    ASSUME NEW t \in Int, NEW list, Body(list, t), NEW k \in DOMAIN list,
           NEW sent, NEW heard, NEW lag, Lagging(list, sent, heard, lag)
    PROVE  Lagging(RemoveAt(list, k), sent, heard, lag)
<1> DEFINE left == RemoveAt(list, k)
<1>1. From(left, list)
  BY RemoveBody
<1> HIDE DEF left
<1>2. Lagging(left, sent, heard, lag)
  BY <1>1 DEF From, Lagging
<1> QED
  BY <1>2 DEF left

\* The facts every turn of the list starts from.
LEMMA BeforeTurn ==
    ASSUME IInv
    PROVE  /\ Timely(RT, now, lastSent, heardAt) /\ Body(RT, now) /\ Has(RT, my_id)
           /\ now \in Nat /\ now + Interval \in Nat /\ RT \in Seq(Node)
           /\ lastSent \in Nat /\ heardAt \in [Neighbour -> Nat] /\ wakes \in Nat
           /\ woken \in [Neighbour -> Nat]
           /\ RT # <<>> /\ 1 \in DOMAIN RT /\ Head(RT) = RT[1] /\ RT[1] \in Node /\ RT[1].recv = 1
           /\ Tail(RT) = RemoveAt(RT, 1)
<1>1. /\ Timely(RT, now, lastSent, heardAt) /\ RT \in Seq(Node)
      /\ now \in Nat /\ lastSent \in Nat /\ heardAt \in [Neighbour -> Nat] /\ wakes \in Nat
      /\ woken \in [Neighbour -> Nat]
  BY IInvTimely DEF IInv, TypeOK
<1>2. Body(RT, now) /\ Has(RT, my_id)
  BY <1>1 DEF Timely
<1>3. RT # <<>> /\ 1 \in DOMAIN RT /\ Head(RT) = RT[1] /\ RT[1].recv = 1
  BY <1>2, HeadLeads
<1>4. RT[1] \in Node
  BY <1>1, <1>3
<1>5. Tail(RT) = RemoveAt(RT, 1)
  BY <1>1, <1>3, TailRemoves
<1>6. now + Interval \in Nat
  BY <1>1, IntervalType
<1> QED
  BY <1>1, <1>2, <1>3, <1>4, <1>5, <1>6

\* How early the neighbours are when a turn starts: with the second that another
\* wake-up counts for the head is no exception, without it the others are none.
LEMMA BeforeLags ==
    ASSUME IInv
    PROVE  /\ Lagging(RT, lastSent, heardAt, Lag(Woken))
           /\ Lagging(RemoveAt(RT, 1), lastSent, heardAt, Lag(woken))
           /\ RT[1].router_id # my_id =>
                 DueIn(RT[1], lastSent, heardAt) <= deadline + Lag(woken)[RT[1].router_id]
           /\ woken \in [Neighbour -> Nat] /\ Lag(woken) \in [Neighbour -> Nat]
           /\ Woken \in [Neighbour -> Nat] /\ Lag(Woken) \in [Neighbour -> Nat]
           /\ deadline \in Int /\ NotTooEarly
<1>1. /\ RT \in Seq(Node) /\ 1 \in DOMAIN RT /\ RT[1].recv = 1 /\ woken \in [Neighbour -> Nat]
      /\ lastSent \in Nat /\ heardAt \in [Neighbour -> Nat]
  BY BeforeTurn
<1>2. /\ Woken \in [Neighbour -> Nat] /\ TICKS \in Nat
      /\ Lag(woken) \in [Neighbour -> Nat] /\ Lag(Woken) \in [Neighbour -> Nat]
      /\ \A v \in Neighbour : /\ Lag(woken)[v] = TICKS * woken[v]
                              /\ Lag(Woken)[v] = Lag(woken)[v] + TICKS
  BY <1>1, Lags
<1>3. \A i \in DOMAIN RT : Due(RT[i]) = DueIn(RT[i], lastSent, heardAt)
  BY DEF Due, DueIn
<1>4. ASSUME NEW i \in DOMAIN RT, RT[i].recv = 1, RT[i].router_id # my_id
      PROVE  /\ i > 1 => DueIn(RT[i], lastSent, heardAt) <= RT[i].timeout + Lag(woken)[RT[i].router_id]
             /\ i = 1 => DueIn(RT[i], lastSent, heardAt) <= deadline + Lag(woken)[RT[i].router_id]
             /\ DueIn(RT[i], lastSent, heardAt) <= RT[i].timeout + Lag(Woken)[RT[i].router_id]
  <2>1. RT[i] \in Node
    BY <1>1
  <2>2. RT[i].router_id \in Neighbour /\ RT[i].timeout \in Int
    BY <1>4, <2>1 DEF Node
  <2>3. Lag(woken)[RT[i].router_id] \in Nat
    BY <1>2, <2>2
  <2>4. /\ i > 1 => Due(RT[i]) <= RT[i].timeout + TICKS * woken[RT[i].router_id]
        /\ i = 1 => Due(RT[i]) <= deadline + TICKS * woken[RT[i].router_id]
        /\ Due(RT[i]) <= RT[i].timeout + TICKS * woken[RT[i].router_id] + TICKS
    BY <1>4 DEF IInv, NotEarly
  <2>5. RT[i].timeout + Lag(woken)[RT[i].router_id] + TICKS = RT[i].timeout + Lag(Woken)[RT[i].router_id]
    BY <1>2, <2>2, <2>3
  <2> QED
    BY <1>2, <1>3, <2>2, <2>4, <2>5
<1>5. Lagging(RT, lastSent, heardAt, Lag(Woken))
  BY <1>4 DEF Lagging
<1> DEFINE left == RemoveAt(RT, 1)
<1>6. \A i \in DOMAIN left : left[i] = RT[i + 1] /\ i + 1 \in DOMAIN RT /\ i + 1 > 1
  <2>1. /\ DOMAIN left = 1 .. Len(RT) - 1 /\ \A i \in 1 .. Len(RT) - 1 : left[i] = RT[i + 1]
        /\ DOMAIN RT = 1 .. Len(RT) /\ Len(RT) \in Nat
    BY <1>1, RemovePlaces
  <2> HIDE DEF left
  <2> QED
    BY <2>1
<1> HIDE DEF left
<1>7. Lagging(left, lastSent, heardAt, Lag(woken))
  BY <1>4, <1>6 DEF Lagging
<1> QED
  BY <1>1, <1>2, <1>4, <1>5, <1>7 DEF IInv, NotEarly, TypeOK, left

\* Sending the table starts the router's own timer again.
LEMMA SendTableKeeps == IInv /\ SendTable => IInv'
<1> SUFFICES ASSUME IInv, SendTable PROVE IInv'
  OBVIOUS
<1> DEFINE node == [RT[1] EXCEPT !.timeout = now + Interval]
           left == RemoveAt(RT, 1)
<1>1. /\ Timely(RT, now, lastSent, heardAt) /\ Body(RT, now) /\ Has(RT, my_id)
      /\ now \in Nat /\ now + Interval \in Nat
      /\ heardAt \in [Neighbour -> Nat] /\ wakes \in Nat /\ woken \in [Neighbour -> Nat]
      /\ 1 \in DOMAIN RT /\ Head(RT) = RT[1] /\ RT[1] \in Node /\ RT[1].recv = 1
      /\ Tail(RT) = left
  BY BeforeTurn
<1>2. /\ RT[1].router_id = my_id /\ now' = now /\ lastSent' = now /\ heardAt' = heardAt
      /\ silence' = silence /\ wakes' = wakes /\ woken' = woken
      /\ get_timer(enQueueByRecv(left, node))
  BY <1>1 DEF SendTable
<1>3. /\ node \in Node /\ node.router_id = my_id /\ node.recv = 1
      /\ node.timeout = now + Interval
  BY <1>1, <1>2 DEF Node
<1>4. /\ Body(left, now) /\ ~Has(left, my_id)
      /\ \A i \in DOMAIN left :
            /\ left[i].router_id # my_id
            /\ left[i].recv = 1 =>
                  left[i].timeout <= DueIn(left[i], lastSent, heardAt) /\ now <= DueIn(left[i], lastSent, heardAt)
  BY <1>1, <1>2, Taken
<1> HIDE DEF node, left
<1>5. \A i \in DOMAIN left : DueIn(left[i], now, heardAt) = DueIn(left[i], lastSent, heardAt)
  BY <1>4 DEF DueIn
<1>6. now + Interval <= DueIn(node, now, heardAt)
  BY <1>1, <1>3 DEF DueIn
<1>7. Timely(enQueueByRecv(left, node), now, now, heardAt)
  BY <1>1, <1>3, <1>4, <1>5, <1>6, Restart
<1>8. RT' \in Seq(Node) /\ deadline' \in Int /\ (OneNodeEach /\ Parted /\ Sorted /\ InTime)'
  BY <1>1, <1>2, <1>7, GetTimer
<1>9. TypeOK'
  BY <1>1, <1>2, <1>8 DEF IInv, TypeOK
<1>10. NotEarly'
  <2>1. Lagging(left, now, heardAt, Lag(woken)) /\ NotTooEarly
    <3>1. Lagging(left, lastSent, heardAt, Lag(woken)) /\ NotTooEarly
      BY BeforeLags DEF left
    <3> QED
      BY <1>5, <3>1 DEF Lagging
  <2>2. Lagging(enQueueByRecv(left, node), now, heardAt, Lag(woken))
    BY <1>1, <1>3, <1>4, <2>1, RestartLags
  <2>3. NotTooEarly' /\ Lag(woken') = Lag(woken)
    BY <1>2, <2>1 DEF NotTooEarly, Interval, Lag
  <2> QED
    BY <1>1, <1>2, <1>7, <2>2, <2>3, GetTimerLags
<1> QED
  BY <1>8, <1>9, <1>10 DEF IInv

\* A missing update moves the neighbour's deadline by an interval, or removes it.
LEMMA NeighbourLateKeeps == IInv /\ NeighbourLate => IInv'
<1> SUFFICES ASSUME IInv, NeighbourLate PROVE IInv'
  OBVIOUS
<1> DEFINE late == [Head(RT) EXCEPT !.count = Head(RT).count + 1]
           node == [late EXCEPT !.timeout = now + Interval]
           left == Tail(RT)
           v == RT[1].router_id
<1>1. /\ Timely(RT, now, lastSent, heardAt) /\ Body(RT, now) /\ Has(RT, my_id)
      /\ now \in Nat /\ now + Interval \in Nat
      /\ lastSent \in Nat /\ heardAt \in [Neighbour -> Nat] /\ wakes \in Nat
      /\ woken \in [Neighbour -> Nat]
      /\ 1 \in DOMAIN RT /\ Head(RT) = RT[1] /\ RT[1] \in Node /\ RT[1].recv = 1
      /\ left = RemoveAt(RT, 1)
  BY BeforeTurn
<1>2. v # my_id /\ v \in Neighbour /\ RT[1].count \in 0 .. 2
  BY <1>1 DEF NeighbourLate, Node
<1>3. /\ late = [router_id |-> v, timeout |-> RT[1].timeout,
                 count |-> RT[1].count + 1, recv |-> RT[1].recv]
      /\ late.count = RT[1].count + 1 /\ late.router_id = v
  <2>1. Head(RT) = RT[1] /\ RT[1] \in Node
    BY <1>1
  <2> QED
    BY <2>1 DEF Node
<1>4. /\ now' = now /\ lastSent' = lastSent /\ heardAt' = heardAt /\ wakes' = wakes /\ woken' = woken
      /\ \/ /\ late.count < 3
            /\ get_timer(enQueueByRecv(left, node))
            /\ silence' = silence
         \/ /\ ~(late.count < 3)
            /\ get_timer(left)
            /\ silence' = [w \in DOMAIN silence \cup {v} |->
                              IF w = v THEN [lasted |-> now - heardAt[v], woken |-> woken[v]]
                              ELSE silence[w]]
  <2>2. now' = now /\ lastSent' = lastSent /\ heardAt' = heardAt /\ wakes' = wakes /\ woken' = woken
    BY DEF NeighbourLate
  <2>3. IF late.count < 3
           THEN /\ get_timer(enQueueByRecv(left, node))
                /\ UNCHANGED silence
           ELSE /\ get_timer(left)
                /\ silence' = [w \in DOMAIN silence \cup {late.router_id} |->
                                  IF w = late.router_id
                                   THEN [lasted |-> now - heardAt[late.router_id],
                                         woken |-> woken[late.router_id]]
                                   ELSE silence[w]]
    BY DEF NeighbourLate, Missed, Tolerated
  <2> HIDE DEF late, node, left, v
  <2> QED
    BY <1>3, <2>2, <2>3
<1>5. /\ Body(left, now) /\ ~Has(left, v) /\ Has(left, my_id)
      /\ \A i \in DOMAIN left :
            left[i].recv = 1 =>
                  left[i].timeout <= DueIn(left[i], lastSent, heardAt) /\ now <= DueIn(left[i], lastSent, heardAt)
  <2> DEFINE r == RemoveAt(RT, 1)
  <2>1. /\ Body(r, now) /\ ~Has(r, v) /\ (v # my_id => Has(r, my_id))
        /\ \A i \in DOMAIN r :
              r[i].recv = 1 =>
                  r[i].timeout <= DueIn(r[i], lastSent, heardAt) /\ now <= DueIn(r[i], lastSent, heardAt)
    BY <1>1, Taken
  <2> HIDE DEF left, r, v
  <2>2. left = r
    BY <1>1 DEF r
  <2> QED
    BY <1>2, <2>1, <2>2
\* select has waited as long as the head was to wait, or nearly so.
<1>6. /\ DueIn(RT[1], lastSent, heardAt) = heardAt[v] + (RT[1].count + 1) * Interval
      /\ DueIn(RT[1], lastSent, heardAt) <= now + Lag(woken)[v]
      /\ (RT[1].count + 1) * Interval \in Nat /\ heardAt[v] \in Nat
      /\ Lagging(left, lastSent, heardAt, Lag(woken))
      /\ Lag(woken)[v] \in Nat /\ Lag(woken)[v] = TICKS * woken[v] /\ NotTooEarly
  <2>1. DueIn(RT[1], lastSent, heardAt) = heardAt[v] + (RT[1].count + 1) * Interval
    BY <1>2 DEF DueIn
  <2>2. /\ Lagging(RemoveAt(RT, 1), lastSent, heardAt, Lag(woken))
        /\ DueIn(RT[1], lastSent, heardAt) <= deadline + Lag(woken)[v]
        /\ Lag(woken)[v] \in Nat /\ NotTooEarly /\ deadline \in Int
    BY <1>2, BeforeLags
  <2>3. now >= deadline
    BY DEF NeighbourLate
  <2>4. (RT[1].count + 1) * Interval \in Nat /\ heardAt[v] \in Nat
    BY <1>1, <1>2, Intervals
  <2>5. DueIn(RT[1], lastSent, heardAt) <= now + Lag(woken)[v]
    <3>1. DueIn(RT[1], lastSent, heardAt) \in Nat
      BY <2>1, <2>4
    <3> QED
      BY <1>1, <2>2, <2>3, <3>1
  <2>6. Lagging(left, lastSent, heardAt, Lag(woken))
    <3> DEFINE r == RemoveAt(RT, 1)
    <3>1. left = r /\ Lagging(r, lastSent, heardAt, Lag(woken))
      BY <1>1, <2>2
    <3> HIDE DEF left, r
    <3> QED
      BY <3>1
  <2>7. Lag(woken)[v] = TICKS * woken[v]
    BY <1>1, <1>2, Lags
  <2> QED
    BY <2>1, <2>2, <2>4, <2>5, <2>6, <2>7
<1>7. TypeOK' /\ (OneNodeEach /\ Parted /\ Sorted /\ InTime /\ NotEarly)'
  <2>1. CASE late.count < 3 /\ get_timer(enQueueByRecv(left, node)) /\ silence' = silence
    <3>1. RT[1].count \in 0 .. 1
      BY <1>2, <1>3, <2>1
    <3>2. /\ node \in Node /\ node.router_id = v /\ node.recv = 1
          /\ node.timeout = now + Interval /\ node.count = RT[1].count + 1
      <4>1. node = [router_id |-> v, timeout |-> now + Interval,
                    count |-> RT[1].count + 1, recv |-> RT[1].recv]
        <5> HIDE DEF late
        <5> QED
          BY <1>3
      <4>2. RT[1].count + 1 \in 0 .. 2
        BY <3>1
      <4> HIDE DEF node
      <4> QED
        BY <1>1, <1>2, <4>1, <4>2 DEF Node
    <3>3. now + Interval <= DueIn(node, lastSent, heardAt)
      <4>1. now <= heardAt[v] + (RT[1].count + 1) * Interval
        BY <1>1, <1>2 DEF Timely, DueIn
      <4>2. (RT[1].count + 2) * Interval = (RT[1].count + 1) * Interval + Interval
        BY <3>1, Intervals
      <4>3. (RT[1].count + 1) + 1 = RT[1].count + 2
        BY <3>1
      <4>4. DueIn(node, lastSent, heardAt) = heardAt[v] + (RT[1].count + 2) * Interval
        BY <1>2, <3>2, <4>3 DEF DueIn
      <4>5. heardAt[v] \in Nat /\ (RT[1].count + 1) * Interval \in Nat
        BY <1>1, <1>2, Intervals
      <4> QED
        BY <1>1, <4>1, <4>2, <4>4, <4>5, IntervalType
    <3> HIDE DEF node, left, late
    <3>4. Timely(enQueueByRecv(left, node), now, lastSent, heardAt)
      BY <1>1, <1>2, <1>5, <3>2, <3>3, Restart
    <3>5. RT' \in Seq(Node) /\ deadline' \in Int /\ (OneNodeEach /\ Parted /\ Sorted /\ InTime)'
      BY <1>1, <1>4, <2>1, <3>4, GetTimer
    <3>6. NotEarly'
      <4>1. DueIn(node, lastSent, heardAt) <= now + Interval + Lag(woken)[v]
        <5>1. (RT[1].count + 2) * Interval = (RT[1].count + 1) * Interval + Interval
              /\ (RT[1].count + 1) + 1 = RT[1].count + 2
          BY <3>1, Intervals
        <5>2. DueIn(node, lastSent, heardAt) = heardAt[v] + (RT[1].count + 2) * Interval
          BY <1>2, <3>2, <5>1 DEF DueIn
        <5>3. Interval \in Nat
          BY IntervalType
        <5> QED
          BY <1>1, <1>6, <5>1, <5>2, <5>3
      <4>2. Lagging(enQueueByRecv(left, node), lastSent, heardAt, Lag(woken))
        BY <1>1, <1>5, <1>6, <3>2, <4>1, RestartLags
      <4>3. NotTooEarly' /\ Lag(woken') = Lag(woken)
        BY <1>4, <1>6, <2>1 DEF NotTooEarly, Interval, Lag
      <4> QED
        BY <1>1, <1>4, <2>1, <3>4, <4>2, <4>3, GetTimerLags
    <3> QED
      BY <1>1, <1>4, <2>1, <3>5, <3>6 DEF IInv, TypeOK
  <2>2. CASE /\ ~(late.count < 3)
             /\ get_timer(left)
             /\ silence' = [w \in DOMAIN silence \cup {v} |->
                               IF w = v THEN [lasted |-> now - heardAt[v], woken |-> woken[v]]
                              ELSE silence[w]]
    <3> HIDE DEF node, left, late
    <3>1. Timely(left, now, lastSent, heardAt)
      BY <1>5 DEF Timely
    <3>2. RT' \in Seq(Node) /\ deadline' \in Int /\ (OneNodeEach /\ Parted /\ Sorted /\ InTime)'
      BY <1>1, <1>4, <2>2, <3>1, GetTimer
    <3> DEFINE last == [lasted |-> now - heardAt[v], woken |-> woken[v]]
    <3>3. /\ DOMAIN silence' \subseteq Neighbour
          /\ silence' \in [DOMAIN silence' -> [lasted : Int, woken : Nat]]
      <4>1. /\ DOMAIN silence \subseteq Neighbour
            /\ silence \in [DOMAIN silence -> [lasted : Int, woken : Nat]]
            /\ last \in [lasted : Int, woken : Nat]
        BY <1>1, <1>2 DEF IInv, TypeOK
      <4> HIDE DEF v
      <4>2. silence' = [w \in DOMAIN silence \cup {v} |-> IF w = v THEN last ELSE silence[w]]
        BY <2>2
      <4> HIDE DEF last
      <4> QED
        BY <1>2, <4>1, <4>2
    <3>4. NotTooEarly' /\ Lag(woken') = Lag(woken)
      <4>1. ~(RT[1].count + 1 < 3)
        BY <1>3, <2>2
      <4>2. RT[1].count = 2 /\ RT[1].count + 1 = 3
        BY <1>2, <4>1
      <4>3. heardAt[v] + 3 * Interval <= now + TICKS * woken[v] /\ 3 * Interval \in Nat
            /\ TICKS * woken[v] \in Nat
        BY <1>6, <4>2
      <4>4. last.lasted + TICKS * last.woken >= 3 * Interval
        BY <1>1, <1>6, <4>3
      <4>5. \A w \in DOMAIN silence : silence[w].lasted + TICKS * silence[w].woken >= 3 * Interval
        BY <1>6 DEF NotTooEarly
      <4>6. silence' = [w \in DOMAIN silence \cup {v} |-> IF w = v THEN last ELSE silence[w]]
        BY <2>2
      <4> HIDE DEF v, last
      <4>7. \A w \in DOMAIN silence' : silence'[w].lasted + TICKS * silence'[w].woken >= 3 * Interval
        BY <4>4, <4>5, <4>6
      <4>8. Lag(woken') = Lag(woken)
        BY <1>4 DEF Lag
      <4> QED
        BY <1>4, <4>7, <4>8 DEF NotTooEarly, Interval
    <3>5. NotEarly'
      BY <1>1, <1>4, <1>6, <2>2, <3>1, <3>4, GetTimerLags
    <3> QED
      BY <1>1, <1>4, <3>2, <3>3, <3>5 DEF IInv, TypeOK
  <2> QED
    BY <1>4, <2>1, <2>2
<1> QED
  BY <1>7 DEF IInv

\* An update starts the timer of the neighbour it comes from, if that is in
\* the list still.
LEMMA HearKeeps ==
    ASSUME IInv, NEW v \in Neighbour, Hear(v)
    PROVE  IInv'
<1> DEFINE node == [router_id |-> v, timeout |-> now + Interval, count |-> 0, recv |-> 1]
           left == Without(RT, v)
<1>1. /\ Timely(RT, now, lastSent, heardAt) /\ Body(RT, now) /\ Has(RT, my_id)
      /\ now \in Nat /\ now + Interval \in Nat
      /\ lastSent \in Nat /\ heardAt \in [Neighbour -> Nat] /\ wakes \in Nat
      /\ woken \in [Neighbour -> Nat]
      /\ RT \in Seq(Node)
  BY BeforeTurn
<1>2. now' = now /\ lastSent' = lastSent /\ silence' = silence /\ wakes' = wakes + 1
  BY DEF Hear
<1>3. RT' \in Seq(Node) /\ deadline' \in Int /\ heardAt' \in [Neighbour -> Nat]
      /\ woken' \in [Neighbour -> Nat]
      /\ (OneNodeEach /\ Parted /\ Sorted /\ InTime /\ NotEarly)'
  <2>0. /\ Lagging(RT, lastSent, heardAt, Lag(Woken))
        /\ Woken \in [Neighbour -> Nat] /\ Lag(Woken) \in [Neighbour -> Nat]
        /\ NotTooEarly'
    <3>1. NotTooEarly
      BY BeforeLags
    <3> QED
      BY <1>2, <3>1, BeforeLags DEF NotTooEarly, Interval
  <2>1. CASE Listed(v)
    <3>1. /\ heardAt' = [heardAt EXCEPT ![v] = now] /\ get_timer(enQueueByRecv(left, node))
          /\ woken' = [Woken EXCEPT ![v] = 0]
      BY <2>1 DEF Hear
    <3>2. heardAt' \in [Neighbour -> Nat] /\ heardAt'[v] = now
          /\ \A w \in Neighbour : w # v => heardAt'[w] = heardAt[w]
      BY <1>1, <3>1
    <3>3. v # my_id /\ node \in Node /\ node.router_id = v /\ node.recv = 1
          /\ node.timeout = now + Interval /\ node.count = 0
      BY <1>1, TimeoutAssumption DEF Node
    \* The node that deQueue_router_ip finds.
    <3>4. PICK k \in DOMAIN RT : RT[k].router_id = v /\ left = RemoveAt(RT, k)
      <4> DEFINE First(i) == /\ RT[i].router_id = v
                             /\ \A j \in 1 .. i - 1 : RT[j].router_id # v
      <4>1. PICK m \in DOMAIN RT : RT[m].router_id = v
        BY <2>1 DEF Listed
      <4>2. \A j \in DOMAIN RT : RT[j].router_id = v => j = m
        BY <1>1, <4>1 DEF Body
      <4>3. First(m)
        <5> SUFFICES ASSUME NEW j \in 1 .. m - 1, RT[j].router_id = v PROVE FALSE
          BY <4>1
        <5>1. j \in DOMAIN RT /\ j # m
          BY <1>1, <4>1
        <5> QED
          BY <4>2, <5>1
      <4> DEFINE c == CHOOSE i \in DOMAIN RT : First(i)
      <4>4. c \in DOMAIN RT /\ First(c)
        BY <4>3
      <4>5. left = RemoveAt(RT, c)
        BY DEF Without
      <4> HIDE DEF c, left
      <4> QED
        BY <4>4, <4>5
    <3>5. /\ Body(left, now) /\ ~Has(left, v) /\ Has(left, my_id)
          /\ \A i \in DOMAIN left :
                /\ left[i] \in Node /\ left[i].router_id # v
                /\ left[i].recv = 1 =>
                     left[i].timeout <= DueIn(left[i], lastSent, heardAt) /\ now <= DueIn(left[i], lastSent, heardAt)
      <4> DEFINE r == RemoveAt(RT, k)
      <4>1. /\ Body(r, now) /\ ~Has(r, RT[k].router_id)
            /\ RT[k].router_id # my_id => Has(r, my_id)
            /\ \A i \in DOMAIN r :
                 /\ r[i] \in Node /\ r[i].router_id # RT[k].router_id
                 /\ r[i].recv = 1 =>
                      r[i].timeout <= DueIn(r[i], lastSent, heardAt) /\ now <= DueIn(r[i], lastSent, heardAt)
        BY <1>1, Taken
      <4> HIDE DEF left, r
      <4>2. left = r
        BY <3>4 DEF r
      <4> QED
        BY <3>3, <3>4, <4>1, <4>2
    <3> HIDE DEF node, left
    <3>6. \A i \in DOMAIN left : DueIn(left[i], lastSent, heardAt') = DueIn(left[i], lastSent, heardAt)
      <4> SUFFICES ASSUME NEW i \in DOMAIN left
                   PROVE  DueIn(left[i], lastSent, heardAt') = DueIn(left[i], lastSent, heardAt)
        OBVIOUS
      <4>1. left[i].router_id \in Neighbour \cup {my_id} /\ left[i].router_id # v
        BY <3>5 DEF Node
      <4> QED
        BY <3>2, <4>1 DEF DueIn
    <3>7. now + Interval <= DueIn(node, lastSent, heardAt')
      <4>1. (node.count + 1) * Interval = Interval
        <5>1. node.count + 1 = 1
          BY <3>3
        <5> QED
          BY <5>1, Intervals
      <4> QED
        BY <1>1, <3>2, <3>3, <4>1 DEF DueIn
    <3>8. Timely(enQueueByRecv(left, node), now, lastSent, heardAt')
      BY ZenonT(30), <1>1, <3>2, <3>3, <3>5, <3>6, <3>7, Restart
    <3>9. Lagging(enQueueByRecv(left, node), lastSent, heardAt', Lag(woken'))
          /\ woken' \in [Neighbour -> Nat]
      <4>1. Lagging(left, lastSent, heardAt, Lag(Woken))
        <5>1. Lagging(RemoveAt(RT, k), lastSent, heardAt, Lag(Woken))
          BY <1>1, <2>0, TakenLags
        <5> QED
          BY <3>4, <5>1
      <4>2. /\ woken' \in [Neighbour -> Nat] /\ woken'[v] = 0
            /\ \A w \in Neighbour : w # v => woken'[w] = Woken[w]
        BY <2>0, <3>1
      <4>3. \A w \in Neighbour : w # v => Lag(woken')[w] = Lag(Woken)[w]
        BY <4>2 DEF Lag
      <4>4. Lagging(left, lastSent, heardAt', Lag(woken'))
        <5>1. \A i \in DOMAIN left : left[i].router_id # my_id =>
                  left[i].router_id \in Neighbour /\ left[i].router_id # v
          BY <3>5 DEF Node
        <5> QED
          BY <3>6, <4>1, <4>3, <5>1 DEF Lagging
      <4>5. DueIn(node, lastSent, heardAt') <= now + Interval + Lag(woken')[v]
        <5>1. (node.count + 1) * Interval = Interval
          <6>1. node.count + 1 = 1
            BY <3>3
          <6> QED
            BY <6>1, Intervals
        <5>2. DueIn(node, lastSent, heardAt') = now + Interval
          BY <1>1, <3>2, <3>3, <5>1 DEF DueIn
        <5>3. Lag(woken')[v] = 0
          <6>1. TICKS * 0 = 0
            BY TimeoutAssumption
          <6> QED
            BY <4>2, <6>1 DEF Lag
        <5> QED
          BY <1>1, <5>2, <5>3
      <4> DEFINE lag == Lag(woken')
                 heard == heardAt'
      <4>6. /\ Lagging(left, lastSent, heard, lag)
            /\ DueIn(node, lastSent, heard) <= now + Interval + lag[node.router_id]
            /\ Body(left, now) /\ ~Has(left, node.router_id)
        BY <3>3, <3>5, <4>4, <4>5
      <4> HIDE DEF lag, heard
      <4>7. Lagging(enQueueByRecv(left, node), lastSent, heard, lag)
        BY <1>1, <3>3, <4>6, RestartLags
      <4> QED
        BY <4>2, <4>7 DEF lag, heard
    <3>10. NotEarly'
      <4>1. Lagging(enQueueByRecv(left, node), lastSent', heardAt', Lag(woken'))
        BY <1>2, <3>9
      <4>2. Timely(enQueueByRecv(left, node), now, lastSent', heardAt')
        BY <1>2, <3>8
      <4>3. now' = now /\ lastSent' \in Nat /\ woken' \in [Neighbour -> Nat]
        BY <1>1, <1>2, <3>9
      <4> QED
        BY <1>1, <2>0, <3>1, <3>2, <4>1, <4>2, <4>3, GetTimerLags
    <3> QED
      BY <1>1, <1>2, <3>1, <3>2, <3>8, <3>9, <3>10, GetTimer
  <2>2. CASE ~Listed(v)
    <3>1. heardAt' = heardAt /\ get_timer(RT) /\ woken' = Woken
      BY <2>2 DEF Hear
    <3>2. NotEarly'
      <4>1. Lagging(RT, lastSent', heardAt', Lag(woken')) /\ woken' \in [Neighbour -> Nat]
        BY <1>2, <2>0, <3>1
      <4> QED
        BY <1>1, <1>2, <2>0, <3>1, <4>1, GetTimerLags
    <3> QED
      BY <1>1, <1>2, <2>0, <3>1, <3>2, GetTimer
  <2> QED
    BY <2>1, <2>2
<1> QED
  BY <1>1, <1>2, <1>3 DEF IInv, TypeOK

\* An event that is none of the list's business only sets the next deadline.
LEMMA ControlKeeps == IInv /\ Control => IInv'
<1> SUFFICES ASSUME IInv, Control PROVE IInv'
  OBVIOUS
<1>1. /\ Timely(RT, now, lastSent, heardAt)
      /\ now \in Nat /\ lastSent \in Nat /\ heardAt \in [Neighbour -> Nat] /\ wakes \in Nat
  BY BeforeTurn
<1>2. /\ now' = now /\ lastSent' = lastSent /\ heardAt' = heardAt /\ silence' = silence
      /\ wakes' = wakes + 1 /\ woken' = Woken /\ get_timer(RT)
  BY DEF Control
<1>3. RT' \in Seq(Node) /\ deadline' \in Int /\ (OneNodeEach /\ Parted /\ Sorted /\ InTime)'
  BY <1>1, <1>2, GetTimer
<1>4. NotEarly' /\ woken' \in [Neighbour -> Nat]
  <2>1. /\ Lagging(RT, lastSent, heardAt, Lag(Woken)) /\ Woken \in [Neighbour -> Nat]
        /\ NotTooEarly
    BY BeforeLags
  <2>2. NotTooEarly'
    BY <1>2, <2>1 DEF NotTooEarly, Interval
  <2>3. Lagging(RT, lastSent', heardAt', Lag(woken')) /\ woken' \in [Neighbour -> Nat]
    BY <1>2, <2>1
  <2> QED
    BY <1>1, <1>2, <2>2, <2>3, GetTimerLags
<1> QED
  BY <1>1, <1>2, <1>3, <1>4 DEF IInv, TypeOK

\* The invariant is inductive.
LEMMA IInvNext == IInv /\ [Next]_vars => IInv'
<1> SUFFICES ASSUME IInv, [Next]_vars PROVE IInv'
  OBVIOUS
<1>1. CASE Tick
  BY <1>1, TickKeeps
<1>2. CASE SendTable
  BY <1>2, SendTableKeeps
<1>3. CASE NeighbourLate
  BY <1>3, NeighbourLateKeeps
<1>4. CASE Control
  BY <1>4, ControlKeeps
<1>5. CASE \E v \in Neighbour : Hear(v)
  BY <1>5, HearKeeps
<1>6. CASE UNCHANGED vars
  BY <1>6 DEF vars, IInv, TypeOK, OneNodeEach, Listed, Parted, Sorted, InTime, Due, NotEarly, NotTooEarly
<1> QED
  BY <1>1, <1>2, <1>3, <1>4, <1>5, <1>6 DEF Next

-----------------------------------------------------------------------------
(* Theorems *)

\* The list has one node of each router, those with a deadline first and in
\* the order of their deadlines, and select never waits beyond the time at
\* which a node must be served.
THEOREM Invariance == Spec => []IInv
<1>1. Init => IInv
  BY IInvInit
<1>2. IInv /\ [Next]_vars => IInv'
  BY IInvNext
<1> QED
  BY <1>1, <1>2, PTL DEF Spec

\* The state has the types the declarations give it.
THEOREM TypeCorrect == Spec => []TypeOK
<1>1. IInv => TypeOK
  BY DEF IInv
<1> QED
  BY <1>1, Invariance, PTL

\* get_timer never reads the deadline of a neighbour that has none.
THEOREM DeadlineKnown == Spec => []HeadHasDeadline
<1>1. IInv => HeadHasDeadline
  BY BeforeTurn DEF HeadHasDeadline
<1> QED
  BY <1>1, Invariance, PTL

\* The table is sent in every interval, whatever else wakes the router.
THEOREM PeriodicUpdates == Spec => []SendsInTime
<1>1. IInv => SendsInTime
  <2> SUFFICES ASSUME IInv PROVE now - lastSent <= Interval
    BY DEF SendsInTime
  <2>1. PICK m \in DOMAIN RT : RT[m].router_id = my_id
    BY DEF IInv, OneNodeEach, Listed
  <2>2. RT[m].recv = 1
    BY <2>1 DEF IInv, Parted
  <2>3. now <= lastSent + Interval
    BY <2>1, <2>2 DEF IInv, InTime, Due
  <2> QED
    BY <2>3, IntervalType DEF IInv, TypeOK
<1> QED
  BY <1>1, Invariance, PTL

\* A silent neighbour is out of the list after three intervals.
THEOREM SilentRemoved == Spec => []RemovesInTime
<1>1. IInv => RemovesInTime
  <2> SUFFICES ASSUME IInv, NEW i \in DOMAIN RT, RT[i].router_id # my_id, RT[i].recv = 1
               PROVE  now - heardAt[RT[i].router_id] <= 3 * Interval
    BY DEF RemovesInTime
  <2>1. RT[i] \in Node /\ now \in Nat /\ heardAt \in [Neighbour -> Nat]
    BY DEF IInv, TypeOK
  <2>2. RT[i].router_id \in Neighbour /\ RT[i].count \in 0 .. 2
    BY <2>1 DEF Node
  <2>3. now <= heardAt[RT[i].router_id] + (RT[i].count + 1) * Interval
    BY DEF IInv, InTime, Due
  <2>4. /\ (RT[i].count + 1) * Interval <= 3 * Interval
        /\ (RT[i].count + 1) * Interval \in Nat /\ 3 * Interval \in Nat
    <3>1. 3 * Interval \in Nat
      BY IntervalType
    <3> QED
      BY <2>2, <3>1, Intervals
  <2> QED
    BY <2>1, <2>2, <2>3, <2>4
<1> QED
  BY <1>1, Invariance, PTL

\* A neighbour is given up at most a second too early for each event that woke
\* select since its last update, and not at all for what happened before or for
\* the turns of the list.
THEOREM NoHaste == Spec => []NotTooEarly
<1>1. IInv => NotTooEarly
  BY DEF IInv, NotEarly
<1> QED
  BY <1>1, Invariance, PTL

\* A router keeps its own timer and never has two of one neighbour.
THEOREM OneTimerEach == Spec => []OneNodeEach
<1>1. IInv => OneNodeEach
  BY DEF IInv
<1> QED
  BY <1>1, Invariance, PTL

-----------------------------------------------------------------------------
(* The emulator's event list (module EventList) *)

\* A set of naturals has a least element: the finite intervals below its
\* elements are well-founded under inclusion.
LEMMA LeastNumber ==
    ASSUME NEW S \in SUBSET Nat, S # {}
    PROVE  \E n \in S : \A m \in S : n <= m
<1>1. PICK b \in S : TRUE
  OBVIOUS
<1> DEFINE U == 0 .. b
           T == { 0 .. m : m \in { k \in S : k <= b } }
           R == StrictSubsetOrdering(U)
<1>2. IsWellFoundedOn(R, FiniteSubsetsOf(U))
  BY FS_StrictSubsetOrderingWellFounded
<1>3. T # {}
  <2>1. b \in { k \in S : k <= b }
    BY <1>1
  <2> QED
    BY <2>1
<1>4. T \subseteq FiniteSubsetsOf(U)
  <2>1. \A m \in { k \in S : k <= b } : 0 .. m \in SUBSET U /\ IsFiniteSet(0 .. m)
    BY <1>1, FS_Interval
  <2> QED
    BY <2>1 DEF FiniteSubsetsOf
<1> HIDE DEF T, R
<1>5. PICK x \in T : \A y \in T : ~ (<<y, x>> \in R)
  BY <1>2, <1>3, <1>4, WFMin
<1> USE DEF T, R
<1>6. PICK n \in S : n <= b /\ x = 0 .. n
  BY <1>5
<1>7. ASSUME NEW m \in S, m < n PROVE FALSE
  <2>1. 0 .. m \in T
    BY <1>6, <1>7
  <2>2. <<0 .. m, x>> \in R
    BY <1>6, <1>7 DEF StrictSubsetOrdering
  <2> QED
    BY <1>5, <2>1, <2>2
<1> QED
  BY <1>7

\* Induction, over a set instead of a predicate.
LEMMA Induction ==
    ASSUME NEW S \in SUBSET Nat, 0 \in S, \A n \in S : n + 1 \in S
    PROVE  S = Nat
<1>1. SUFFICES ASSUME Nat \ S # {} PROVE FALSE
  OBVIOUS
<1>2. PICK n \in Nat \ S : \A m \in Nat \ S : n <= m
  BY <1>1, LeastNumber
<1>3. n # 0 /\ n - 1 \in S
  BY <1>2
<1> QED
  BY <1>2, <1>3


\* The event list is in order of time.
Ordered(list) == \A i, j \in DOMAIN list : i < j => list[i].evtime <= list[j].evtime

\* What an event is made of.
LEMMA EventFields ==
    \A ev \in Event :
        /\ ev.evtime \in Nat /\ ev.eventity \in Entity /\ ev.pktptr \in 0 .. MaxPackets
        /\ ev.evtype \in {TIMER_INTERRUPT, FROM_LAYER5, FROM_LAYER3}
BY DEF Event

\* insertevent: an event goes behind all earlier events and ahead of the others.
LEMMA InsertPlace ==
    ASSUME NEW list \in Seq(Event), Ordered(list), NEW e \in Event
    PROVE  \E k \in 0 .. Len(list) :
              /\ insertevent(list, e) = InsertAt(list, k + 1, e)
              /\ \A i \in 1 .. k : list[i].evtime < e.evtime
              /\ \A i \in k + 1 .. Len(list) : e.evtime <= list[i].evtime
<1> DEFINE P(i) == /\ \A j \in 1 .. i : Before(list[j], e)
                   /\ i < Len(list) => ~Before(list[i + 1], e)
           S == { i \in 0 .. Len(list) : i < Len(list) => ~Before(list[i + 1], e) }
           c == CHOOSE i \in 0 .. Len(list) : P(i)
<1>1. /\ Len(list) \in Nat /\ DOMAIN list = 1 .. Len(list)
      /\ e.evtime \in Nat /\ \A i \in 1 .. Len(list) : list[i].evtime \in Nat
  <2>1. \A i \in 1 .. Len(list) : list[i] \in Event
    OBVIOUS
  <2> QED
    BY <2>1, EventFields
<1>2. S \in SUBSET Nat /\ Len(list) \in S
  BY <1>1
<1>3. PICK n \in S : \A m \in S : n <= m
  BY <1>2, LeastNumber
<1>4. n \in 0 .. Len(list) /\ P(n)
  <2>1. ASSUME NEW j \in 1 .. n PROVE Before(list[j], e)
    <3>1. j - 1 \in 0 .. Len(list) /\ j - 1 < n /\ (j - 1) + 1 = j
      BY <1>1, <1>2, <1>3
    <3>2. j - 1 \notin S
      <4> HIDE DEF S
      <4> QED
        BY <1>2, <1>3, <3>1
    <3> QED
      BY <3>1, <3>2
  <2> QED
    BY <1>3, <2>1
<1>5. c \in 0 .. Len(list) /\ P(c)
  BY <1>4
<1>6. insertevent(list, e) = InsertAt(list, c + 1, e)
  BY DEF insertevent, InsertAt, InsertAt
<1> HIDE DEF c
<1>7. \A i \in 1 .. c : list[i].evtime < e.evtime
  BY <1>1, <1>5 DEF Before
<1>8. ASSUME NEW i \in c + 1 .. Len(list) PROVE e.evtime <= list[i].evtime
  <2>1. e.evtime <= list[c + 1].evtime
    BY <1>1, <1>5, <1>8 DEF Before
  <2>2. /\ i \in DOMAIN list /\ c + 1 \in DOMAIN list /\ (c + 1 < i \/ c + 1 = i)
        /\ list[i].evtime \in Nat /\ list[c + 1].evtime \in Nat
    BY <1>1, <1>5, <1>8
  <2>3. list[c + 1].evtime <= list[i].evtime
    BY <2>2 DEF Ordered
  <2> QED
    BY <1>1, <2>1, <2>2, <2>3
<1> QED
  BY <1>5, <1>6, <1>7, <1>8

\* The float clock: rounding yields a time it holds, and does not go below a
\* time it holds already.
LEMMA Rounding ==
    ASSUME NEW x \in Nat
    PROVE  /\ Float(x) \in Nat /\ Held(Float(x))
           /\ \A t \in Nat : Held(t) /\ t <= x => t <= Float(x)
           /\ x <= EXACT => Float(x) = x
<1>1. EXACT \in Nat
  BY EventListAssumption
<1>2. x % 2 \in {0, 1}
  OBVIOUS
<1>4. CASE x <= EXACT \/ x % 2 = 0
  BY <1>1, <1>4 DEF Float, Held
<1>5. CASE x > EXACT /\ x % 2 = 1
  <2>1. Float(x) \in {x - 1, x + 1}
    BY <1>1, <1>5 DEF Float
  <2>2. (x - 1) % 2 = 0 /\ (x + 1) % 2 = 0
    BY <1>5
  <2>3. ASSUME NEW t \in Nat, Held(t), t <= x PROVE t <= x - 1
    BY <1>1, <1>5, <2>3 DEF Held
  <2> QED
    BY <1>1, <1>5, <2>1, <2>2, <2>3 DEF Held
<1> QED
  BY <1>1, <1>2, <1>4, <1>5

\* The invariant of a list, when the clock stands at t or before.
Sound(list, t) ==
    /\ list \in Seq(Event)
    /\ Ordered(list)
    /\ \A i \in DOMAIN list : t <= list[i].evtime /\ Held(list[i].evtime)
    /\ \A x \in Entity : \A i, j \in DOMAIN list :
          IsTimer(list[i], x) /\ IsTimer(list[j], x) => i = j

\* The packets of a list, when the last one was number n.
InTurn(list, n) ==
    /\ \A i \in DOMAIN list : list[i].evtype = FROM_LAYER3 =>
          /\ list[i].pktptr \in 1 .. n
          /\ list[i].evtime <= Horizon + 10 * list[i].pktptr
    /\ \A x \in Entity : \A i, j \in DOMAIN list :
          (i < j /\ IsPacket(list[i], x) /\ IsPacket(list[j], x)) =>
              list[i].pktptr < list[j].pktptr

\* Events that leave a list, wherever they stood, leave it sound.
LEMMA RemoveSound ==
    ASSUME NEW list, NEW t \in Nat, Sound(list, t), NEW k \in DOMAIN list
    PROVE  /\ Sound(RemoveAt(list, k), t)
           /\ \A n : InTurn(list, n) => InTurn(RemoveAt(list, k), n)
<1> DEFINE r == RemoveAt(list, k)
           f(i) == IF i < k THEN i ELSE i + 1
<1>1. list \in Seq(Event)
  BY DEF Sound
<1>2. /\ r \in Seq(Event)
      /\ Len(list) \in Nat /\ DOMAIN list = 1 .. Len(list) /\ k \in 1 .. Len(list)
      /\ DOMAIN r = 1 .. Len(list) - 1
      /\ \A i \in 1 .. k - 1 : r[i] = list[i]
      /\ \A i \in k .. Len(list) - 1 : r[i] = list[i + 1]
  BY <1>1, RemovePlaces
<1> HIDE DEF r
<1>3. /\ \A i \in DOMAIN r : f(i) \in DOMAIN list /\ r[i] = list[f(i)]
      /\ \A i, j \in DOMAIN r : (i < j => f(i) < f(j)) /\ (f(i) = f(j) => i = j)
  <2>1. ASSUME NEW i \in DOMAIN r PROVE f(i) \in DOMAIN list /\ r[i] = list[f(i)]
    <3>1. CASE i < k
      BY <1>2, <3>1
    <3>2. CASE i >= k
      BY <1>2, <3>2
    <3> QED
      BY <1>2, <3>1, <3>2
  <2>2. DOMAIN r \subseteq Int /\ k \in Int
    BY <1>2
  <2> QED
    BY <2>1, <2>2
<1> HIDE DEF f
<1>4. Sound(r, t)
  BY <1>2, <1>3 DEF Sound, Ordered
<1>5. ASSUME NEW n, InTurn(list, n) PROVE InTurn(r, n)
  BY <1>3, <1>5 DEF InTurn
<1> QED
  BY <1>4, <1>5 DEF r


\* r is s with e put at place p: up says where the others went, down where they
\* were.
Shifted(s, r, e, p, up, down) ==
    /\ p \in DOMAIN r /\ r[p] = e
    /\ DOMAIN s \subseteq Nat /\ DOMAIN r \subseteq Nat
    /\ up \in [DOMAIN s -> DOMAIN r \ {p}]
    /\ down \in [DOMAIN r \ {p} -> DOMAIN s]
    /\ \A i, j \in DOMAIN s : i < j => up[i] < up[j]
    /\ \A i \in DOMAIN s : r[up[i]] = s[i] /\ down[up[i]] = i
    /\ \A i \in DOMAIN s : i < p <=> up[i] < p
    /\ \A i \in DOMAIN r \ {p} : up[down[i]] = i

\* Where the events of a list stand when one more was put behind the first k.
LEMMA InsertMoves ==
    ASSUME NEW S, NEW s \in Seq(S), NEW k \in 0 .. Len(s), NEW e \in S
    PROVE  /\ InsertAt(s, k + 1, e) \in Seq(S)
           /\ \E up, down : Shifted(s, InsertAt(s, k + 1, e), e, k + 1, up, down)
<1> DEFINE r == InsertAt(s, k + 1, e)
<1>1. /\ r \in Seq(S) /\ Len(s) \in Nat /\ DOMAIN s = 1 .. Len(s)
      /\ DOMAIN r = 1 .. Len(s) + 1
      /\ \A i \in 1 .. k : r[i] = s[i]
      /\ r[k + 1] = e
      /\ \A i \in k + 2 .. Len(s) + 1 : r[i] = s[i - 1]
  BY InsertPlaces
<1> HIDE DEF r
<1> DEFINE up == [i \in DOMAIN s |-> IF i <= k THEN i ELSE i + 1]
           down == [i \in DOMAIN r \ {k + 1} |-> IF i <= k THEN i ELSE i - 1]
<1>2. ASSUME NEW i \in DOMAIN s
      PROVE  /\ up[i] \in DOMAIN r \ {k + 1} /\ r[up[i]] = s[i]
             /\ down[up[i]] = i /\ (i < k + 1 <=> up[i] < k + 1)
  <2>1. CASE i <= k
    BY <1>1, <2>1
  <2>2. CASE i > k
    <3>1. up[i] = i + 1 /\ i + 1 \in k + 2 .. Len(s) + 1 /\ ~(i + 1 <= k) /\ i + 1 # k + 1
      BY <1>1, <2>2
    <3>2. r[i + 1] = s[i] /\ down[i + 1] = i
      BY <1>1, <3>1
    <3> QED
      BY <1>1, <2>2, <3>1, <3>2
  <2> QED
    BY <1>1, <2>1, <2>2
<1>3. ASSUME NEW i \in DOMAIN r \ {k + 1} PROVE down[i] \in DOMAIN s /\ up[down[i]] = i
  <2>1. CASE i <= k
    <3>1. down[i] = i /\ i \in DOMAIN s
      BY <1>1, <2>1
    <3> QED
      BY <2>1, <3>1
  <2>2. CASE i > k
    <3>1. down[i] = i - 1 /\ i - 1 \in DOMAIN s /\ ~(i - 1 <= k)
      BY <1>1, <2>2
    <3> QED
      BY <1>1, <3>1
  <2> QED
    BY <1>1, <2>1, <2>2
<1>4. \A i, j \in DOMAIN s : i < j => up[i] < up[j]
  BY <1>1
<1>5. /\ up \in [DOMAIN s -> DOMAIN r \ {k + 1}]
      /\ down \in [DOMAIN r \ {k + 1} -> DOMAIN s]
      /\ k + 1 \in DOMAIN r /\ DOMAIN s \subseteq Nat /\ DOMAIN r \subseteq Nat
  BY <1>1, <1>2, <1>3
<1> HIDE DEF up, down
<1>6. Shifted(s, r, e, k + 1, up, down)
  BY <1>1, <1>2, <1>3, <1>4, <1>5 DEF Shifted
<1> QED
  BY <1>1, <1>6 DEF r

\* The same of insertevent: what stands before the new event is earlier, what
\* stands behind it is not.
Moved(list, r, e, p, up, down) ==
    /\ r \in Seq(Event)
    /\ Shifted(list, r, e, p, up, down)
    /\ \A i, j \in DOMAIN r \ {p} : (i < j => down[i] < down[j]) /\ (down[i] = down[j] => i = j)
    /\ \A i \in DOMAIN r \ {p} : down[i] \in DOMAIN list /\ r[i] = list[down[i]]
    /\ \A i \in DOMAIN r : i < p => r[i].evtime < e.evtime
    /\ \A i \in DOMAIN r : i > p => e.evtime <= r[i].evtime

LEMMA Inserted ==
    ASSUME NEW list \in Seq(Event), Ordered(list), NEW e \in Event
    PROVE  \E p, up, down : Moved(list, insertevent(list, e), e, p, up, down)
<1>1. PICK k \in 0 .. Len(list) :
          /\ insertevent(list, e) = InsertAt(list, k + 1, e)
          /\ \A i \in 1 .. k : list[i].evtime < e.evtime
          /\ \A i \in k + 1 .. Len(list) : e.evtime <= list[i].evtime
  BY InsertPlace
<1> DEFINE r == InsertAt(list, k + 1, e)
<1>0. r \in Seq(Event) /\ \E up, down : Shifted(list, r, e, k + 1, up, down)
  BY InsertMoves
<1> HIDE DEF r
<1>00. PICK up, down : Shifted(list, r, e, k + 1, up, down)
  BY <1>0
<1>2. /\ r \in Seq(Event)
      /\ k + 1 \in DOMAIN r /\ r[k + 1] = e
      /\ DOMAIN list \subseteq Nat /\ DOMAIN r \subseteq Nat
      /\ up \in [DOMAIN list -> DOMAIN r \ {k + 1}]
      /\ down \in [DOMAIN r \ {k + 1} -> DOMAIN list]
      /\ \A i, j \in DOMAIN list : i < j => up[i] < up[j]
      /\ \A i \in DOMAIN list : r[up[i]] = list[i] /\ down[up[i]] = i
      /\ \A i \in DOMAIN list : i < k + 1 <=> up[i] < k + 1
      /\ \A i \in DOMAIN r \ {k + 1} : up[down[i]] = i
  BY <1>0, <1>00 DEF Shifted
<1>3. \A i \in DOMAIN r \ {k + 1} : down[i] \in DOMAIN list /\ r[i] = list[down[i]]
  BY <1>2
<1>4. ASSUME NEW i \in DOMAIN r \ {k + 1}, NEW j \in DOMAIN r \ {k + 1}
      PROVE  (i < j => down[i] < down[j]) /\ (down[i] = down[j] => i = j)
  <2>1. i \in Nat /\ j \in Nat /\ down[i] \in Nat /\ down[j] \in Nat
    BY <1>2, <1>3
  <2>2. down[j] < down[i] => j < i
    BY <1>2, <1>3
  <2>3. up[down[i]] = i /\ up[down[j]] = j
    BY <1>2
  <2> QED
    BY <2>1, <2>2, <2>3
<1>5. ASSUME NEW i \in DOMAIN r
      PROVE  (i < k + 1 => r[i].evtime < e.evtime) /\ (i > k + 1 => e.evtime <= r[i].evtime)
  <2>1. i \in Nat /\ DOMAIN list = 1 .. Len(list) /\ Len(list) \in Nat
    BY <1>2
  <2>2. CASE i < k + 1
    <3>1. i \in DOMAIN r \ {k + 1} /\ up[down[i]] < k + 1
      BY <1>2, <2>1, <2>2
    <3>2. down[i] \in DOMAIN list /\ down[i] < k + 1
      BY <1>2, <1>3, <3>1
    <3>3. down[i] \in 1 .. k
      BY <2>1, <3>2
    <3> QED
      BY <1>1, <1>3, <2>1, <2>2, <3>1, <3>3
  <2>3. CASE i > k + 1
    <3>1. i \in DOMAIN r \ {k + 1} /\ ~(up[down[i]] < k + 1)
      BY <1>2, <2>1, <2>3
    <3>2. down[i] \in DOMAIN list /\ ~(down[i] < k + 1)
      BY <1>2, <1>3, <3>1
    <3>3. down[i] \in k + 1 .. Len(list)
      BY <2>1, <3>2
    <3> QED
      BY <1>1, <1>3, <2>1, <2>3, <3>1, <3>3
  <2> QED
    BY <2>2, <2>3
<1>6. Moved(list, r, e, k + 1, up, down)
  BY <1>00, <1>2, <1>3, <1>4, <1>5 DEF Moved
<1> QED
  BY <1>1, <1>6 DEF r

\* An event put into a list leaves it sound: it does not lie in the past, and
\* is no second timer of an entity.
LEMMA InsertSound ==
    ASSUME NEW list, NEW t \in Nat, Sound(list, t),
           NEW e \in Event, t <= e.evtime, Held(e.evtime),
           \A x \in Entity : \A i \in DOMAIN list : ~(IsTimer(list[i], x) /\ IsTimer(e, x))
    PROVE  /\ Sound(insertevent(list, e), t)
           /\ \A n : InTurn(list, n) /\ e.evtype # FROM_LAYER3 =>
                 InTurn(insertevent(list, e), n)
<1> DEFINE r == insertevent(list, e)
<1>1. list \in Seq(Event) /\ Ordered(list)
  BY DEF Sound
<1>2. PICK p, up, down : Moved(list, r, e, p, up, down)
  BY <1>1, Inserted
<1> HIDE DEF r
<1>3. /\ r \in Seq(Event) /\ p \in DOMAIN r /\ r[p] = e /\ DOMAIN r \subseteq Nat
      /\ \A i \in DOMAIN r \ {p} : down[i] \in DOMAIN list /\ r[i] = list[down[i]]
      /\ \A i, j \in DOMAIN r \ {p} : (i < j => down[i] < down[j]) /\ (down[i] = down[j] => i = j)
  BY <1>2 DEF Moved, Shifted
<1>4. /\ \A i \in DOMAIN r : i < p => r[i].evtime < e.evtime
      /\ \A i \in DOMAIN r : i > p => e.evtime <= r[i].evtime
      /\ \A i \in DOMAIN r : r[i].evtime \in Nat
      /\ e.evtime \in Nat
  BY <1>2, <1>3, EventFields DEF Moved
<1>5. Ordered(r)
  <2> SUFFICES ASSUME NEW i \in DOMAIN r, NEW j \in DOMAIN r, i < j
               PROVE  r[i].evtime <= r[j].evtime
    BY DEF Ordered
  <2>1. CASE i = p
    BY <1>3, <1>4, <2>1
  <2>2. CASE j = p
    BY <1>3, <1>4, <2>2
  <2>3. CASE i # p /\ j # p
    BY <1>1, <1>3, <2>3 DEF Ordered
  <2> QED
    BY <2>1, <2>2, <2>3
<1>6. \A i \in DOMAIN r : t <= r[i].evtime /\ Held(r[i].evtime)
  BY <1>3 DEF Sound
<1>7. \A x \in Entity : \A i, j \in DOMAIN r : IsTimer(r[i], x) /\ IsTimer(r[j], x) => i = j
  <2> SUFFICES ASSUME NEW x \in Entity, NEW i \in DOMAIN r, NEW j \in DOMAIN r,
                      IsTimer(r[i], x), IsTimer(r[j], x)
               PROVE  i = j
    OBVIOUS
  <2>1. \A q \in DOMAIN list : ~(IsTimer(list[q], x) /\ IsTimer(e, x))
    OBVIOUS
  <2>2. CASE i # p /\ j # p
    <3>1. /\ i \in DOMAIN r \ {p} /\ j \in DOMAIN r \ {p}
          /\ down[i] \in DOMAIN list /\ down[j] \in DOMAIN list
          /\ IsTimer(list[down[i]], x) /\ IsTimer(list[down[j]], x)
      BY <1>3, <2>2
    <3>2. down[i] = down[j]
      BY <3>1 DEF Sound
    <3> QED
      BY <1>3, <3>1, <3>2
  <2> QED
    BY <1>3, <2>1, <2>2
<1>8. ASSUME NEW n, InTurn(list, n), e.evtype # FROM_LAYER3 PROVE InTurn(r, n)
  <2>1. \A i \in DOMAIN r : r[i].evtype = FROM_LAYER3 => i # p
    BY <1>3, <1>8
  <2>2. \A i \in DOMAIN r : r[i].evtype = FROM_LAYER3 =>
            r[i].pktptr \in 1 .. n /\ r[i].evtime <= Horizon + 10 * r[i].pktptr
    BY <1>3, <1>8, <2>1 DEF InTurn
  <2>3. ASSUME NEW x \in Entity, NEW i \in DOMAIN r, NEW j \in DOMAIN r,
               i < j, IsPacket(r[i], x), IsPacket(r[j], x)
        PROVE  r[i].pktptr < r[j].pktptr
    <3>1. i \in DOMAIN r \ {p} /\ j \in DOMAIN r \ {p}
      BY <2>1, <2>3 DEF IsPacket
    <3> QED
      BY <1>3, <1>8, <2>3, <3>1 DEF InTurn
  <2> QED
    BY <2>2, <2>3 DEF InTurn
<1> QED
  BY <1>3, <1>5, <1>6, <1>7, <1>8 DEF Sound, r

\* A packet that arrives later than those already on their way to the same
\* entity goes behind them.
LEMMA InsertLast ==
    ASSUME NEW list \in Seq(Event), Ordered(list),
           NEW n \in Nat, InTurn(list, n),
           NEW e \in Event, e.evtype = FROM_LAYER3, e.pktptr = n + 1,
           e.evtime <= Horizon + 10 * (n + 1),
           \A i \in DOMAIN list : IsPacket(list[i], e.eventity) => list[i].evtime < e.evtime
    PROVE  /\ InTurn(insertevent(list, e), n + 1)
           /\ \E p, up, down :
                 /\ Moved(list, insertevent(list, e), e, p, up, down)
                 /\ \A i \in DOMAIN insertevent(list, e) :
                       i > p => ~IsPacket(insertevent(list, e)[i], e.eventity)
<1> DEFINE r == insertevent(list, e)
<1>1. PICK p, up, down : Moved(list, r, e, p, up, down)
  BY Inserted
<1> HIDE DEF r
<1>2. /\ r \in Seq(Event) /\ p \in DOMAIN r /\ r[p] = e /\ DOMAIN r \subseteq Nat
      /\ \A i \in DOMAIN r \ {p} : down[i] \in DOMAIN list /\ r[i] = list[down[i]]
      /\ \A i, j \in DOMAIN r \ {p} : i < j => down[i] < down[j]
  BY <1>1 DEF Moved, Shifted
<1>3. /\ \A i \in DOMAIN r : i > p => e.evtime <= r[i].evtime
      /\ \A i \in DOMAIN r : r[i].evtime \in Nat
      /\ e.evtime \in Nat
  BY <1>1, <1>2, EventFields DEF Moved
<1>4. ASSUME NEW i \in DOMAIN r, i > p, IsPacket(r[i], e.eventity) PROVE FALSE
  <2>1. i \in DOMAIN r \ {p}
    BY <1>2, <1>4
  <2>2. r[i].evtime < e.evtime
    BY <1>2, <1>4, <2>1
  <2> QED
    BY <1>3, <1>4, <2>2
<1>5. \A i \in DOMAIN r \ {p} : r[i].evtype = FROM_LAYER3 =>
          r[i].pktptr \in 1 .. n /\ r[i].evtime <= Horizon + 10 * r[i].pktptr
  BY <1>2 DEF InTurn
<1>6. ASSUME NEW i \in DOMAIN r, r[i].evtype = FROM_LAYER3
      PROVE  r[i].pktptr \in 1 .. n + 1 /\ r[i].evtime <= Horizon + 10 * r[i].pktptr
  <2>1. CASE i = p
    <3>1. r[i].pktptr = n + 1 /\ r[i].evtime <= Horizon + 10 * (n + 1)
      BY <1>2, <2>1
    <3> QED
      BY <3>1
  <2>2. CASE i # p
    BY <1>5, <1>6, <2>2
  <2> QED
    BY <2>1, <2>2
<1>7. ASSUME NEW x \in Entity, NEW i \in DOMAIN r, NEW j \in DOMAIN r,
             i < j, IsPacket(r[i], x), IsPacket(r[j], x)
      PROVE  r[i].pktptr < r[j].pktptr
  <2>0. r[i].evtype = FROM_LAYER3 /\ r[j].evtype = FROM_LAYER3
    BY <1>7 DEF IsPacket
  <2>1. CASE i = p
    <3>1. x = e.eventity /\ j > p
      BY <1>2, <1>7, <2>1 DEF IsPacket
    <3> QED
      BY <1>4, <1>7, <3>1
  <2>2. CASE j = p
    <3>1. i # p
      BY <1>2, <1>7, <2>2
    <3>2. r[i].pktptr \in 1 .. n /\ r[j].pktptr = n + 1
      BY <1>2, <1>5, <2>0, <2>2, <3>1
    <3> QED
      BY <3>2
  <2>3. CASE i # p /\ j # p
    BY <1>2, <1>7, <2>3 DEF InTurn
  <2> QED
    BY <2>1, <2>2, <2>3
<1>8. InTurn(r, n + 1)
  BY <1>6, <1>7 DEF InTurn
<1> QED
  BY <1>1, <1>4, <1>8 DEF r


\* The first event leaves the list and its time becomes the clock's.
LEMMA TakeFirst ==
    ASSUME NEW list, NEW t \in Nat, Sound(list, t), list # <<>>
    PROVE  /\ Head(list) \in Event /\ t <= Head(list).evtime /\ Held(Head(list).evtime)
           /\ Sound(Tail(list), Head(list).evtime)
           /\ \A n : InTurn(list, n) => InTurn(Tail(list), n)
<1>1. list \in Seq(Event)
  BY DEF Sound
<1>2. Tail(list) = RemoveAt(list, 1) /\ 1 \in DOMAIN list /\ Head(list) = list[1]
  BY <1>1, TailRemoves
<1>3. /\ Sound(Tail(list), t)
      /\ \A n : InTurn(list, n) => InTurn(Tail(list), n)
  BY <1>2, RemoveSound
<1>4. ASSUME NEW i \in DOMAIN Tail(list) PROVE list[1].evtime <= Tail(list)[i].evtime
  <2>1. i + 1 \in DOMAIN list /\ Tail(list)[i] = list[i + 1] /\ 1 < i + 1
    BY <1>1, <1>2
  <2> QED
    BY <1>2, <2>1 DEF Sound, Ordered
<1>5. list[1] \in Event /\ t <= list[1].evtime /\ Held(list[1].evtime)
  BY <1>1, <1>2 DEF Sound
<1> QED
  BY <1>2, <1>3, <1>4, <1>5 DEF Sound

\* A set of places has a last one.
LEMMA GreatestNumber ==
    ASSUME NEW n \in Nat, NEW S \in SUBSET (1 .. n), S # {}
    PROVE  \E m \in S : \A i \in S : i <= m
<1> DEFINE T == { n - i : i \in S }
<1>1. T \in SUBSET Nat /\ T # {}
  OBVIOUS
<1>2. PICK a \in T : \A b \in T : a <= b
  BY <1>1, LeastNumber
<1>3. PICK m \in S : a = n - m
  BY <1>2
<1>4. ASSUME NEW i \in S PROVE i <= m
  <2>1. n - m <= n - i
    BY <1>2, <1>3
  <2> QED
    BY <2>1
<1> QED
  BY <1>4

\* tolayer3's lastime: no packet on its way to that entity arrives later.
LEMMA LastArrival ==
    ASSUME time \in Nat, Held(time), Sound(evlist, time), NEW x \in Entity
    PROVE  /\ Lastime(x) \in Nat /\ Held(Lastime(x)) /\ time <= Lastime(x)
           /\ \A i \in DOMAIN evlist : IsPacket(evlist[i], x) => evlist[i].evtime <= Lastime(x)
           /\ \/ Lastime(x) = time
              \/ \E i \in DOMAIN evlist : IsPacket(evlist[i], x) /\ Lastime(x) = evlist[i].evtime
<1> DEFINE on == { i \in DOMAIN evlist : IsPacket(evlist[i], x) }
           c == CHOOSE i \in on : \A j \in on : j <= i
<1>1. evlist \in Seq(Event) /\ \A i \in DOMAIN evlist : evlist[i].evtime \in Nat
  <2>1. evlist \in Seq(Event)
    BY DEF Sound
  <2> QED
    BY <2>1, EventFields
<1>2. CASE on = {}
  BY <1>2 DEF Lastime
<1>3. CASE on # {}
  <2>1. on \in SUBSET (1 .. Len(evlist)) /\ Len(evlist) \in Nat
    BY <1>1
  <2>2. \E m \in on : \A i \in on : i <= m
    <3> HIDE DEF on
    <3> QED
      BY <1>3, <2>1, GreatestNumber
  <2>3. c \in on /\ \A j \in on : j <= c
    BY <2>2
  <2>4. Lastime(x) = evlist[c].evtime
    BY <1>3 DEF Lastime
  <2> HIDE DEF c
  <2>5. ASSUME NEW i \in DOMAIN evlist, IsPacket(evlist[i], x)
        PROVE  evlist[i].evtime <= evlist[c].evtime
    <3>1. i \in on /\ (i < c \/ i = c) /\ c \in DOMAIN evlist
      BY <2>1, <2>3, <2>5
    <3> QED
      BY <1>1, <3>1 DEF Sound, Ordered
  <2> QED
    BY <1>1, <2>3, <2>4, <2>5 DEF Sound
<1> QED
  BY <1>2, <1>3

\* IInv of module EventList, spelled with the invariants of a list.
LEMMA IInvIs ==
    ASSUME EmulatorIInv
    PROVE  /\ EmulatorTypeOK /\ Held(time) /\ Sound(evlist, time)
           /\ ExactRun => time <= Horizon /\ InTurn(evlist, ntolayer3)
BY DEF EmulatorIInv, EmulatorTypeOK, Chronological, ClockHolds, OneTimer, Numbered, CannotReorder,
       Sound, Ordered, InTurn

LEMMA IInvNextIs ==
    ASSUME EmulatorTypeOK', Held(time)', Sound(evlist', time'),
           ExactRun => time' <= Horizon /\ InTurn(evlist', ntolayer3')
    PROVE  EmulatorIInv'
<1>1. Chronological' /\ ClockHolds' /\ OneTimer'
  BY DEF Chronological, ClockHolds, OneTimer, Sound, Ordered, Held
<1>2. ASSUME ExactRun PROVE Numbered' /\ CannotReorder'
  BY <1>2 DEF Numbered, CannotReorder, InTurn
<1> QED
  BY <1>1, <1>2 DEF EmulatorIInv, ExactRun

LEMMA EventInit == EmulatorInit => EmulatorIInv
<1> SUFFICES ASSUME EmulatorInit PROVE EmulatorIInv
  OBVIOUS
<1>1. PICK x \in ARRIVALS : evlist = <<NextArrival(0, x)>>
  BY DEF EmulatorInit
<1>2. x \in Nat /\ 0 + x = x /\ 0 \in Nat /\ Held(0)
  BY EventListAssumption DEF Held
<1>3. Float(x) \in Nat /\ Held(Float(x)) /\ 0 <= Float(x)
  BY <1>2, Rounding
<1> DEFINE e == NextArrival(0, x)
<1>4. /\ e \in Event /\ e.evtime = Float(x) /\ e.evtype = FROM_LAYER5
  BY <1>2, <1>3, EventListAssumption DEF NextArrival, Event, NULL, Entity
<1> HIDE DEF e
<1>5. evlist = <<e>> /\ DOMAIN evlist = {1} /\ evlist[1] = e /\ evlist \in Seq(Event)
  BY <1>1, <1>4 DEF e
<1>6. EmulatorTypeOK
  BY <1>5, EventListAssumption DEF EmulatorInit, EmulatorTypeOK
<1>7. Chronological /\ ClockHolds /\ OneTimer /\ CannotReorder
  BY <1>2, <1>3, <1>4, <1>5 DEF EmulatorInit, Chronological, ClockHolds, OneTimer, CannotReorder
<1>8. Numbered
  BY <1>4, <1>5, EventListAssumption DEF EmulatorInit, Numbered, FROM_LAYER3, FROM_LAYER5
<1> QED
  BY <1>6, <1>7, <1>8 DEF EmulatorIInv


\* The next event is taken; a message brings the one after it into the list.
LEMMA NextEventKeeps == EmulatorIInv /\ NextEvent => EmulatorIInv'
<1> SUFFICES ASSUME EmulatorIInv, NextEvent PROVE EmulatorIInv'
  OBVIOUS
<1> DEFINE e == Head(evlist)
           rest == Tail(evlist)
<1>1. /\ EmulatorTypeOK /\ Held(time) /\ Sound(evlist, time) /\ time \in Nat
      /\ ExactRun => time <= Horizon /\ InTurn(evlist, ntolayer3)
  BY IInvIs DEF EmulatorTypeOK
<1>2. /\ e \in Event /\ time <= e.evtime /\ Held(e.evtime) /\ Sound(rest, e.evtime)
      /\ ExactRun => InTurn(rest, ntolayer3)
  BY <1>1, TakeFirst DEF NextEvent
<1>3. e.evtime \in Nat /\ e.eventity \in Entity
  BY <1>2, EventFields
<1>4. time' = e.evtime /\ time' <= Horizon /\ ntolayer3' = ntolayer3
  BY DEF NextEvent
<1> HIDE DEF e, rest
<1>5. /\ Sound(evlist', time') /\ (ExactRun => InTurn(evlist', ntolayer3'))
      /\ nsim' \in 0 .. nsimmax
      /\ handler' \in Entity \cup {Loop, Terminated}
  <2>1. CASE AllOffered
    BY <1>1, <1>2, <1>4, <2>1 DEF NextEvent, EmulatorTypeOK, rest
  <2>2. CASE ~AllOffered /\ Head(evlist).evtype # FROM_LAYER5
    BY <1>1, <1>2, <1>3, <1>4, <2>2 DEF NextEvent, EmulatorTypeOK, rest, e
  <2>3. CASE ~AllOffered /\ Head(evlist).evtype = FROM_LAYER5
    <3>1. PICK x \in ARRIVALS : evlist' = insertevent(rest, NextArrival(time', x))
      BY <2>3 DEF NextEvent, rest
    <3> DEFINE new == NextArrival(time', x)
    <3>2. x \in Nat /\ time' + x \in Nat /\ time' <= time' + x /\ time' \in Nat
      BY <1>3, <1>4, EventListAssumption
    <3>3. /\ Float(time' + x) \in Nat /\ Held(Float(time' + x))
          /\ time' <= Float(time' + x)
      BY <1>2, <1>4, <3>2, Rounding
    <3>4. /\ new \in Event /\ new.evtime = Float(time' + x)
          /\ new.evtype = FROM_LAYER5
      BY <3>3, EventListAssumption DEF NextArrival, Event, NULL, Entity
    <3> HIDE DEF new
    <3>5. \A y \in Entity : ~IsTimer(new, y)
      BY <3>4 DEF IsTimer, TIMER_INTERRUPT, FROM_LAYER5
    <3>6. new.evtype # FROM_LAYER3
      BY <3>4 DEF FROM_LAYER3, FROM_LAYER5
    <3>7. /\ Sound(insertevent(rest, new), time')
          /\ \A n : InTurn(rest, n) => InTurn(insertevent(rest, new), n)
      <4>1. time' \in Nat /\ Sound(rest, time')
        BY <1>2, <1>3, <1>4
      <4> QED
        BY <3>3, <3>4, <3>5, <3>6, <4>1, InsertSound
    <3>8. nsim' \in 0 .. nsimmax
      BY <1>1, <2>3, EventListAssumption DEF NextEvent, EmulatorTypeOK, AllOffered
    <3>9. handler' \in Entity
      BY <1>3, <2>3 DEF NextEvent, e
    <3> QED
      BY <1>2, <1>4, <3>1, <3>7, <3>8, <3>9 DEF new
  <2> QED
    BY <2>1, <2>2, <2>3
<1>6. EmulatorTypeOK'
  BY <1>1, <1>3, <1>4, <1>5 DEF EmulatorTypeOK, Sound
<1>7. Held(time)'
  BY <1>2, <1>4 DEF Held
<1> QED
  BY <1>4, <1>5, <1>6, <1>7, IInvNextIs

\* starttimer.
LEMMA StartTimerKeeps == EmulatorIInv /\ StartTimer => EmulatorIInv'
<1> SUFFICES ASSUME EmulatorIInv, StartTimer PROVE EmulatorIInv'
  OBVIOUS
<1>1. /\ EmulatorTypeOK /\ Held(time) /\ Sound(evlist, time) /\ time \in Nat
      /\ ExactRun => time <= Horizon /\ InTurn(evlist, ntolayer3)
  BY IInvIs DEF EmulatorTypeOK
<1> DEFINE new(inc) == [evtime |-> Float(time + inc), evtype |-> TIMER_INTERRUPT,
                        eventity |-> handler, pktptr |-> NULL]
<1>2. PICK inc \in INCREMENTS : evlist' = insertevent(evlist, new(inc))
  BY DEF StartTimer
<1>3. inc \in Nat /\ time + inc \in Nat /\ time <= time + inc
  BY <1>1, EventListAssumption
<1>4. /\ Float(time + inc) \in Nat /\ Held(Float(time + inc)) /\ time <= Float(time + inc)
  BY <1>1, <1>3, Rounding
<1> DEFINE e == new(inc)
<1>5. /\ e \in Event /\ e.evtime = Float(time + inc)
      /\ e.evtype = TIMER_INTERRUPT /\ e.eventity = handler
  BY <1>4, EventListAssumption DEF StartTimer, Event, NULL
<1>6. evlist' = insertevent(evlist, e)
  BY <1>2
<1> HIDE DEF e, new
<1>7. \A x \in Entity : \A i \in DOMAIN evlist : ~(IsTimer(evlist[i], x) /\ IsTimer(e, x))
  BY <1>5 DEF StartTimer, TimerRuns, IsTimer
<1>8. e.evtype # FROM_LAYER3
  BY <1>5 DEF FROM_LAYER3, TIMER_INTERRUPT
<1>9. /\ Sound(evlist', time)
      /\ \A n : InTurn(evlist, n) => InTurn(evlist', n)
  BY <1>1, <1>4, <1>5, <1>6, <1>7, <1>8, InsertSound
<1>10. UNCHANGED <<time, nsim, ntolayer3, handler>>
  BY DEF StartTimer
<1>11. EmulatorTypeOK'
  BY <1>1, <1>9, <1>10 DEF EmulatorTypeOK, Sound
<1> QED
  BY <1>1, <1>9, <1>10, <1>11, IInvNextIs DEF Held

\* The first timer of an entity.
LEMMA FirstTimer ==
    ASSUME NEW list \in Seq(Event), NEW x, \E i \in DOMAIN list : IsTimer(list[i], x)
    PROVE  \E i \in DOMAIN list :
              IsTimer(list[i], x) /\ \A j \in 1 .. i - 1 : ~IsTimer(list[j], x)
<1> DEFINE S == { i \in DOMAIN list : IsTimer(list[i], x) }
<1>1. DOMAIN list = 1 .. Len(list) /\ Len(list) \in Nat
  OBVIOUS
<1>2. S \in SUBSET Nat /\ S # {}
  BY <1>1
<1>3. PICK i \in S : \A j \in S : i <= j
  <2> HIDE DEF S
  <2> QED
    BY <1>2, LeastNumber
<1>4. ASSUME NEW j \in 1 .. i - 1 PROVE ~IsTimer(list[j], x)
  <2>1. j \in DOMAIN list /\ ~(i <= j)
    BY <1>1, <1>2
  <2> QED
    BY <1>3, <2>1
<1> QED
  BY <1>4

\* stoptimer takes one timer out of the list.
LEMMA StopTimerRemoves ==
    ASSUME StopTimer, evlist \in Seq(Event)
    PROVE  \E k \in DOMAIN evlist : IsTimer(evlist[k], handler) /\ evlist' = RemoveAt(evlist, k)
<1> DEFINE First(i) == /\ IsTimer(evlist[i], handler)
                       /\ \A j \in 1 .. i - 1 : ~IsTimer(evlist[j], handler)
           k == CHOOSE i \in DOMAIN evlist : First(i)
<1>1. \E i \in DOMAIN evlist : First(i)
  BY FirstTimer DEF StopTimer, TimerRuns
<1>2. k \in DOMAIN evlist /\ First(k)
  BY <1>1
<1>3. evlist' = RemoveAt(evlist, k)
  BY DEF StopTimer, RemoveAt, RemoveAt
<1> HIDE DEF k
<1> QED
  BY <1>2, <1>3

LEMMA StopTimerKeeps == EmulatorIInv /\ StopTimer => EmulatorIInv'
<1> SUFFICES ASSUME EmulatorIInv, StopTimer PROVE EmulatorIInv'
  OBVIOUS
<1>1. /\ EmulatorTypeOK /\ Held(time) /\ Sound(evlist, time) /\ time \in Nat
      /\ ExactRun => time <= Horizon /\ InTurn(evlist, ntolayer3)
  BY IInvIs DEF EmulatorTypeOK
<1>2. PICK k \in DOMAIN evlist : evlist' = RemoveAt(evlist, k)
  BY <1>1, StopTimerRemoves DEF Sound
<1>3. Sound(evlist', time) /\ \A n : InTurn(evlist, n) => InTurn(evlist', n)
  BY <1>1, <1>2, RemoveSound
<1>4. UNCHANGED <<time, nsim, ntolayer3, handler>>
  BY DEF StopTimer
<1>5. EmulatorTypeOK'
  BY <1>1, <1>3, <1>4 DEF EmulatorTypeOK, Sound
<1> QED
  BY <1>1, <1>3, <1>4, <1>5, IInvNextIs DEF Held

\* The other end.
LEMMA Ends == \A x \in Entity : (x + 1) % 2 \in Entity
BY DEF Entity, A, B

\* The packet tolayer3 puts into the list.
Sent(n, t) == [evtime |-> t, evtype |-> FROM_LAYER3, eventity |-> (handler + 1) % 2,
               pktptr |-> n]

\* tolayer3: a packet that is not lost arrives later than those on their way
\* to the same entity, as long as the clock is exact.
LEMMA ArrivesLast ==
    ASSUME EmulatorIInv, ToLayer3, evlist' # evlist
    PROVE  \E t \in Nat :
              /\ evlist' = insertevent(evlist, Sent(ntolayer3 + 1, t))
              /\ Sent(ntolayer3 + 1, t) \in Event /\ time <= t /\ Held(t)
              /\ ExactRun =>
                    /\ t <= Horizon + 10 * (ntolayer3 + 1)
                    /\ \A i \in DOMAIN evlist :
                          IsPacket(evlist[i], (handler + 1) % 2) => evlist[i].evtime < t
<1> DEFINE to == (handler + 1) % 2
           last == Lastime(to)
<1>1. /\ EmulatorTypeOK /\ Held(time) /\ Sound(evlist, time) /\ time \in Nat
      /\ ExactRun => time <= Horizon /\ InTurn(evlist, ntolayer3)
  BY IInvIs DEF EmulatorTypeOK
<1>2. handler \in Entity /\ to \in Entity /\ ntolayer3' = ntolayer3 + 1
  BY Ends DEF ToLayer3
<1>3. ntolayer3 \in Nat /\ ntolayer3 + 1 \in 0 .. MaxPackets /\ MaxPackets \in Nat
  BY <1>1, EventListAssumption DEF ToLayer3, EmulatorTypeOK
<1>4. PICK d \in DELAYS :
          evlist' = insertevent(evlist, Sent(ntolayer3 + 1, Float(Float(last + 1) + d)))
  BY DEF ToLayer3, Sent
<1>5. d \in 0 .. 9
  BY EventListAssumption
<1>6. /\ last \in Nat /\ Held(last) /\ time <= last
      /\ \A i \in DOMAIN evlist : IsPacket(evlist[i], to) => evlist[i].evtime <= last
      /\ \/ last = time
         \/ \E i \in DOMAIN evlist : IsPacket(evlist[i], to) /\ last = evlist[i].evtime
  BY <1>1, <1>2, LastArrival
<1> HIDE DEF last, to
<1> DEFINE u == Float(last + 1)
           t == Float(u + d)
<1>7. u \in Nat /\ Held(u) /\ last <= u /\ (last + 1 <= EXACT => u = last + 1)
  BY <1>6, Rounding
<1> HIDE DEF u
<1>8. u + d \in Nat /\ u <= u + d
  BY <1>5, <1>7
<1>9. t \in Nat /\ Held(t) /\ u <= t /\ (u + d <= EXACT => t = u + d)
  BY <1>7, <1>8, Rounding
<1> HIDE DEF t
<1>10. time <= t
  BY <1>1, <1>6, <1>7, <1>9
<1>11. Sent(ntolayer3 + 1, t) \in Event
  BY <1>2, <1>3, <1>9 DEF Sent, Event, to
<1>12. ASSUME ExactRun
       PROVE  /\ t <= Horizon + 10 * (ntolayer3 + 1)
              /\ \A i \in DOMAIN evlist : IsPacket(evlist[i], to) => evlist[i].evtime < t
  <2>1. Horizon + 10 * MaxPackets <= EXACT /\ Horizon \in Nat /\ EXACT \in Nat
    BY <1>12, EventListAssumption DEF ExactRun
  <2>2. last <= Horizon + 10 * ntolayer3
    <3>1. CASE last = time
      BY <1>1, <1>3, <1>12, <2>1, <3>1
    <3>2. ASSUME NEW i \in DOMAIN evlist, IsPacket(evlist[i], to), last = evlist[i].evtime
          PROVE  last <= Horizon + 10 * ntolayer3
      <4>1. evlist[i].pktptr \in 1 .. ntolayer3 /\ last <= Horizon + 10 * evlist[i].pktptr
        BY <1>1, <1>12, <3>2 DEF InTurn, IsPacket
      <4> QED
        BY <1>3, <1>6, <2>1, <4>1
    <3> QED
      BY <1>6, <3>1, <3>2
  <2>3. last + 1 <= EXACT /\ (last + 1) + d <= Horizon + 10 * (ntolayer3 + 1)
        /\ (last + 1) + d <= EXACT
    BY <1>3, <1>5, <1>6, <2>1, <2>2
  <2>4. u = last + 1 /\ t = u + d
    BY <1>7, <1>9, <2>3
  <2>5. \A i \in DOMAIN evlist : evlist[i].evtime \in Nat
    BY <1>1, EventFields DEF Sound
  <2> QED
    BY <1>5, <1>6, <2>3, <2>4, <2>5
<1> QED
  BY <1>4, <1>9, <1>10, <1>11, <1>12 DEF t, u, to

LEMMA ToLayer3Keeps == EmulatorIInv /\ ToLayer3 => EmulatorIInv'
<1> SUFFICES ASSUME EmulatorIInv, ToLayer3 PROVE EmulatorIInv'
  OBVIOUS
<1>1. /\ EmulatorTypeOK /\ Held(time) /\ Sound(evlist, time) /\ time \in Nat
      /\ ExactRun => time <= Horizon /\ InTurn(evlist, ntolayer3)
  BY IInvIs DEF EmulatorTypeOK
<1>2. UNCHANGED <<time, nsim, handler>> /\ ntolayer3' = ntolayer3 + 1
  BY DEF ToLayer3
<1>3. ntolayer3 \in Nat /\ ntolayer3' \in 0 .. MaxPackets
  BY <1>1, <1>2, EventListAssumption DEF ToLayer3, EmulatorTypeOK
<1>4. Sound(evlist', time') /\ (ExactRun => InTurn(evlist', ntolayer3'))
  <2>1. CASE evlist' = evlist
    <3>1. \A m \in Nat : m \in 1 .. ntolayer3 => m \in 1 .. ntolayer3 + 1
      BY <1>3
    <3> QED
      BY <1>1, <1>2, <1>3, <2>1, <3>1 DEF InTurn
  <2>2. CASE evlist' # evlist
    <3>1. PICK t \in Nat :
              /\ evlist' = insertevent(evlist, Sent(ntolayer3 + 1, t))
              /\ Sent(ntolayer3 + 1, t) \in Event /\ time <= t /\ Held(t)
              /\ ExactRun =>
                    /\ t <= Horizon + 10 * (ntolayer3 + 1)
                    /\ \A i \in DOMAIN evlist :
                          IsPacket(evlist[i], (handler + 1) % 2) => evlist[i].evtime < t
      BY <2>2, ArrivesLast
    <3> DEFINE e == Sent(ntolayer3 + 1, t)
    <3>2. /\ e.evtime = t /\ e.evtype = FROM_LAYER3 /\ e.pktptr = ntolayer3 + 1
          /\ e.eventity = (handler + 1) % 2 /\ e \in Event
      BY <3>1 DEF Sent
    <3> HIDE DEF e
    <3>3. \A x \in Entity : ~IsTimer(e, x)
      BY <3>2 DEF IsTimer, FROM_LAYER3, TIMER_INTERRUPT
    <3>4. Sound(insertevent(evlist, e), time)
      BY <1>1, <3>1, <3>2, <3>3, InsertSound
    <3>5. ASSUME ExactRun PROVE InTurn(insertevent(evlist, e), ntolayer3 + 1)
      <4>1. evlist \in Seq(Event) /\ Ordered(evlist) /\ InTurn(evlist, ntolayer3)
        BY <1>1, <3>5 DEF Sound
      <4> QED
        BY <1>3, <3>1, <3>2, <3>5, <4>1, InsertLast
    <3> QED
      BY <1>2, <3>1, <3>4, <3>5 DEF e
  <2> QED
    BY <2>1, <2>2
<1>5. EmulatorTypeOK'
  BY <1>1, <1>2, <1>3, <1>4 DEF EmulatorTypeOK, Sound
<1> QED
  BY <1>1, <1>2, <1>4, <1>5, IInvNextIs DEF Held

LEMMA EventNext == EmulatorIInv /\ [EmulatorNext]_emulatorVars => EmulatorIInv'
<1> SUFFICES ASSUME EmulatorIInv, [EmulatorNext]_emulatorVars PROVE EmulatorIInv'
  OBVIOUS
<1>1. CASE UNCHANGED emulatorVars \/ Return
  <2>1. UNCHANGED <<time, evlist, nsim, ntolayer3>>
    BY <1>1 DEF emulatorVars, Return
  <2>2. /\ EmulatorTypeOK /\ Held(time) /\ Sound(evlist, time)
        /\ ExactRun => time <= Horizon /\ InTurn(evlist, ntolayer3)
    BY IInvIs
  <2>3. handler' \in Entity \cup {Loop, Terminated}
    BY <1>1, <2>2 DEF emulatorVars, Return, EmulatorTypeOK
  <2>4. EmulatorTypeOK' /\ Held(time)'
    BY <2>1, <2>2, <2>3 DEF EmulatorTypeOK, Held
  <2> QED
    BY <2>1, <2>2, <2>4, IInvNextIs
<1>2. CASE NextEvent
  BY <1>2, NextEventKeeps
<1>3. CASE StartTimer
  BY <1>3, StartTimerKeeps
<1>4. CASE StopTimer
  BY <1>4, StopTimerKeeps
<1>5. CASE ToLayer3
  BY <1>5, ToLayer3Keeps
<1> QED
  BY <1>1, <1>2, <1>3, <1>4, <1>5 DEF EmulatorNext

\* The inductive invariant of the event list: sorted, never in the past, times
\* the float clock holds, one timer for each entity, packets in turn.
THEOREM EventInvariance == EmulatorSpec => []EmulatorIInv
<1>1. EmulatorInit => EmulatorIInv
  BY EventInit
<1>2. EmulatorIInv /\ [EmulatorNext]_emulatorVars => EmulatorIInv'
  BY EventNext
<1> QED
  BY <1>1, <1>2, PTL DEF EmulatorSpec

\* The clock, the list and the counters of the emulator keep their types.
THEOREM EventTypes == EmulatorSpec => []EmulatorTypeOK
<1>1. EmulatorIInv => EmulatorTypeOK
  BY DEF EmulatorIInv
<1> QED
  BY <1>1, EventInvariance, PTL

\* The clock of the main loop (simulator.c) never runs backwards and the list
\* is in order of time, whatever the protocols above it call, also when the
\* clock is too late to be exact.
THEOREM ClockForward == EmulatorSpec => []Chronological
<1>1. EmulatorIInv => Chronological
  BY DEF EmulatorIInv
<1> QED
  BY <1>1, EventInvariance, PTL

\* "medium can not reorder" (simulator.c:504): packets to the same entity are in
\* the list in the order in which they were sent, as long as the clock is exact.
THEOREM NoReordering ==
    ASSUME Horizon + 10 * MaxPackets <= EXACT
    PROVE  EmulatorSpec => []CannotReorder
<1>1. EmulatorIInv => CannotReorder
  BY DEF EmulatorIInv, ExactRun
<1> QED
  BY <1>1, EventInvariance, PTL

-----------------------------------------------------------------------------
(* The event list implements the medium *)

\* h lists the members of P in order.
Lists(h, m, P) ==
    /\ m \in Nat /\ h \in [1 .. m -> P]
    /\ \A i, j \in 1 .. m : i < j => h[i] < h[j]
    /\ \A p \in P : \E i \in 1 .. m : h[i] = p

\* A list of m numbers in order has m members, whatever Cardinality is called.
LEMMA Count ==
    ASSUME NEW P \in SUBSET Nat, NEW m, NEW h, Lists(h, m, P)
    PROVE  Cardinality(P) = m
<1>1. h \in Bijection(1 .. m, P)
  <2>1. h \in [1 .. m -> P] /\ 1 .. m \subseteq Nat
    BY DEF Lists
  <2>2. \A i, j \in 1 .. m : h[i] = h[j] => i = j
    <3> SUFFICES ASSUME NEW i \in 1 .. m, NEW j \in 1 .. m, h[i] = h[j], i # j PROVE FALSE
      OBVIOUS
    <3>1. i < j \/ j < i
      BY <2>1
    <3>2. h[i] \in Nat /\ h[j] \in Nat
      BY <2>1
    <3>3. h[i] < h[j] \/ h[j] < h[i]
      BY <3>1 DEF Lists
    <3> QED
      BY <3>2, <3>3
  <2>3. \A p \in P : \E i \in 1 .. m : h[i] = p
    BY DEF Lists
  <2> QED
    BY <2>1, <2>2, <2>3 DEF Bijection, Injection, Surjection, IsInjective
<1>2. IsFiniteSet(1 .. m) /\ Cardinality(1 .. m) = m
  BY FS_Interval DEF Lists
<1>3. Cardinality(P) = m
  BY <1>1, <1>2, FS_Bijection DEF ExistsBijection
<1>4. Cardinality(P) = Cardinality(P)
  BY DEF Cardinality, Cardinality
<1> QED
  BY <1>3, <1>4

LEMMA SortedIs ==
    ASSUME NEW P \in SUBSET Nat, NEW m, NEW h, Lists(h, m, P)
    PROVE  InOrder(P) = h
<1> DEFINE Q(i) == { j \in P : j <= i }
<1>1. m \in Nat /\ h \in [1 .. m -> P] /\ \A i, j \in 1 .. m : i < j => h[i] < h[j]
  BY DEF Lists
<1>2. ASSUME NEW n \in 1 .. m PROVE Cardinality(Q(h[n])) = n
  <2> DEFINE g == [i \in 1 .. n |-> h[i]]
  <2>1. Q(h[n]) \in SUBSET Nat
    OBVIOUS
  <2>0. m \in Nat /\ n \in Nat /\ \A i \in 1 .. m : i \in Nat /\ h[i] \in P /\ h[i] \in Nat
    <3>1. m \in Nat /\ \A i \in 1 .. m : h[i] \in P
      BY <1>1
    <3>2. n \in Nat /\ \A i \in 1 .. m : i \in Nat
      BY <3>1
    <3> QED
      BY <3>1, <3>2
  <2>2. ASSUME NEW i \in 1 .. n PROVE i \in 1 .. m /\ h[i] \in Q(h[n])
    <3>1. i \in 1 .. m /\ (i < n \/ i = n)
      BY <2>0
    <3>2. h[i] <= h[n]
      BY <1>1, <2>0, <3>1
    <3> QED
      BY <2>0, <3>1, <3>2
  <2>3. ASSUME NEW p \in Q(h[n]) PROVE \E i \in 1 .. n : h[i] = p
    <3>1. PICK i \in 1 .. m : h[i] = p
      BY DEF Lists
    <3>2. h[i] <= h[n] /\ h[i] \in Nat /\ h[n] \in Nat
      BY <2>0, <3>1
    <3>3. ~(n < i)
      BY <1>1, <3>2
    <3>4. i \in 1 .. n
      BY <2>0, <3>3
    <3> QED
      BY <3>1, <3>4
  <2>4. Lists(g, n, Q(h[n]))
    <3>1. g \in [1 .. n -> Q(h[n])]
      BY <2>2
    <3>2. \A i, j \in 1 .. n : i < j => g[i] < g[j]
      BY <1>1, <2>2
    <3>3. \A p \in Q(h[n]) : \E i \in 1 .. n : g[i] = p
      BY <2>3
    <3> HIDE DEF g, Q
    <3> QED
      BY <2>0, <3>1, <3>2, <3>3 DEF Lists
  <2> HIDE DEF g, Q
  <2> QED
    <3> DEFINE R == Q(h[n])
    <3> HIDE DEF R
    <3>1. R \in SUBSET Nat /\ Lists(g, n, R)
      BY <2>1, <2>4 DEF R
    <3>2. Cardinality(R) = n
      BY <3>1, Count
    <3> QED
      BY <3>2 DEF R
<1> HIDE DEF Q
<1>3. ASSUME NEW n \in 1 .. m PROVE (CHOOSE i \in P : Cardinality(Q(i)) = n) = h[n]
  <2> DEFINE c == CHOOSE i \in P : Cardinality(Q(i)) = n
  <2>1. h[n] \in P /\ Cardinality(Q(h[n])) = n
    BY <1>1, <1>2
  <2>2. c \in P /\ Cardinality(Q(c)) = n
    BY <2>1
  <2> HIDE DEF c
  <2>3. PICK k \in 1 .. m : h[k] = c
    BY <2>2 DEF Lists
  <2>4. k = n
    <3>1. Cardinality(Q(h[k])) = k
      BY <1>2
    <3> QED
      BY <2>2, <2>3, <3>1
  <2> QED
    BY <2>3, <2>4 DEF c
<1>4. Cardinality(P) = m
  BY Count
<1>5. InOrder(P) = [n \in 1 .. m |-> CHOOSE i \in P : Cardinality(Q(i)) = n]
  BY <1>4 DEF InOrder, Q
<1> QED
  BY <1>1, <1>3, <1>5

\* Every finite set of places can be listed.
LEMMA Listable ==
    ASSUME NEW n \in Nat, NEW P \in SUBSET (1 .. n)
    PROVE  \E m, h : Lists(h, m, P)
<1> DEFINE S == { k \in Nat : \A Q \in SUBSET (1 .. k) : \E m, h : Lists(h, m, Q) }
<1>1. 0 \in S
  <2> SUFFICES ASSUME NEW Q \in SUBSET (1 .. 0) PROVE \E m, h : Lists(h, m, Q)
    OBVIOUS
  <2>1. Q = {} /\ 1 .. 0 = {}
    OBVIOUS
  <2>2. Lists([i \in {} |-> 0], 0, Q)
    BY <2>1 DEF Lists
  <2> QED
    BY <2>2
<1>2. ASSUME NEW k \in S PROVE k + 1 \in S
  <2> SUFFICES ASSUME NEW Q \in SUBSET (1 .. k + 1) PROVE \E m, h : Lists(h, m, Q)
    OBVIOUS
  <2>1. k \in Nat /\ \A R \in SUBSET (1 .. k) : \E m, h : Lists(h, m, R)
    BY <1>2
  <2>2. CASE k + 1 \notin Q
    <3>1. Q \in SUBSET (1 .. k)
      BY <2>1, <2>2
    <3> QED
      BY <2>1, <3>1
  <2>3. CASE k + 1 \in Q
    <3> DEFINE R == Q \ {k + 1}
    <3>1. R \in SUBSET (1 .. k)
      BY <2>1
    <3>2. PICK m, h : Lists(h, m, R)
      BY <2>1, <3>1
    <3> DEFINE g == [i \in 1 .. m + 1 |-> IF i = m + 1 THEN k + 1 ELSE h[i]]
    <3>3. /\ m \in Nat /\ h \in [1 .. m -> R]
          /\ \A i, j \in 1 .. m : i < j => h[i] < h[j]
          /\ \A p \in R : \E i \in 1 .. m : h[i] = p
      BY <3>2 DEF Lists
    <3>4. g[m + 1] = k + 1 /\ \A i \in 1 .. m : i \in 1 .. m + 1 /\ g[i] = h[i] /\ h[i] \in R
      BY <3>3
    <3>5. \A i \in 1 .. m + 1 : i = m + 1 \/ i \in 1 .. m
      BY <3>3
    <3>6. g \in [1 .. m + 1 -> Q]
      BY <2>3, <3>4, <3>5
    <3>7. m + 1 \in Nat /\ m + 1 \in 1 .. m + 1
      BY <3>3
    <3> HIDE DEF g, R
    <3>8. ASSUME NEW i \in 1 .. m + 1, NEW j \in 1 .. m + 1, i < j PROVE g[i] < g[j]
      <4>1. i \in 1 .. m
        BY <3>3, <3>8
      <4>2. h[i] \in 1 .. k
        BY <3>1, <3>3, <4>1
      <4> QED
        BY <2>1, <3>3, <3>4, <3>5, <3>8, <4>1, <4>2
    <3>9. ASSUME NEW p \in Q PROVE \E i \in 1 .. m + 1 : g[i] = p
      <4>1. p = k + 1 \/ p \in R
        BY DEF R
      <4> QED
        BY <3>3, <3>4, <3>7, <4>1
    <3> QED
      BY <3>6, <3>7, <3>8, <3>9 DEF Lists
  <2> QED
    BY <2>2, <2>3
<1> HIDE DEF S
<1>3. S = Nat
  <2>1. S \in SUBSET Nat
    BY DEF S
  <2> QED
    BY <1>1, <1>2, <2>1, Induction
<1> QED
  BY <1>3 DEF S

\* The packets on their way to an entity, taken off the list one by one.
LEMMA PendingIs ==
    ASSUME NEW list \in Seq(Event), NEW x
    PROVE  /\ Places(list, x) \in SUBSET Nat
           /\ \E m, h : Lists(h, m, Places(list, x))
           /\ \A m, h : Lists(h, m, Places(list, x)) =>
                 Pending(list, x) = [i \in 1 .. m |-> list[h[i]].pktptr]
<1>1. Len(list) \in Nat /\ Places(list, x) \in SUBSET (1 .. Len(list))
  BY DEF Places
<1>2. Places(list, x) \in SUBSET Nat
  BY <1>1
<1>3. \E m, h : Lists(h, m, Places(list, x))
  BY <1>1, Listable
<1>4. ASSUME NEW m, NEW h, Lists(h, m, Places(list, x))
      PROVE  Pending(list, x) = [i \in 1 .. m |-> list[h[i]].pktptr]
  <2>1. InOrder(Places(list, x)) = h
    BY <1>2, <1>4, SortedIs
  <2>2. DOMAIN h = 1 .. m
    BY <1>4 DEF Lists
  <2> QED
    BY <2>1, <2>2 DEF Pending
<1> QED
  BY <1>2, <1>3, <1>4

\* A list whose packets for x stand in the same order has the same medium.
LEMMA PendingSame ==
    ASSUME NEW list \in Seq(Event), NEW r \in Seq(Event), NEW x,
           NEW f \in [Places(list, x) -> Places(r, x)],
           \A i, j \in Places(list, x) : i < j => f[i] < f[j],
           \A p \in Places(r, x) : \E i \in Places(list, x) : f[i] = p,
           \A i \in Places(list, x) : r[f[i]] = list[i]
    PROVE  Pending(r, x) = Pending(list, x)
<1> DEFINE P == Places(list, x)
           Q == Places(r, x)
<1>1. PICK m, h : Lists(h, m, P)
  BY PendingIs
<1> DEFINE g == [i \in 1 .. m |-> f[h[i]]]
<1> HIDE DEF P, Q
<1>2. /\ m \in Nat /\ h \in [1 .. m -> P]
      /\ \A i, j \in 1 .. m : i < j => h[i] < h[j]
      /\ \A p \in P : \E i \in 1 .. m : h[i] = p
  BY <1>1 DEF Lists
<1>3. /\ f \in [P -> Q] /\ \A i, j \in P : i < j => f[i] < f[j]
      /\ \A p \in Q : \E i \in P : f[i] = p
      /\ \A i \in P : r[f[i]] = list[i]
  BY DEF P, Q
<1>4. \A i \in 1 .. m : h[i] \in P /\ g[i] = f[h[i]] /\ f[h[i]] \in Q
  BY <1>2, <1>3
<1>5. Lists(g, m, Q)
  BY <1>2, <1>3, <1>4 DEF Lists
<1>6. Pending(r, x) = [i \in 1 .. m |-> r[g[i]].pktptr]
  <2> HIDE DEF g
  <2> QED
    BY <1>5, PendingIs DEF Q
<1>7. Pending(list, x) = [i \in 1 .. m |-> list[h[i]].pktptr]
  BY <1>1, PendingIs DEF P
<1>8. \A i \in 1 .. m : r[g[i]] = list[h[i]]
  BY <1>3, <1>4
<1> QED
  BY <1>6, <1>7, <1>8

\* One more packet for x, behind the others.
Grows(P, Q, last, f) ==
    /\ last \in Q /\ f \in [P -> Q \ {last}]
    /\ \A i, j \in P : i < j => f[i] < f[j]
    /\ \A i \in P : f[i] < last
    /\ \A p \in Q \ {last} : \E i \in P : f[i] = p

LEMMA PendingMore ==
    ASSUME NEW list \in Seq(Event), NEW r \in Seq(Event), NEW x, NEW last, NEW f,
           Grows(Places(list, x), Places(r, x), last, f),
           \A i \in Places(list, x) : r[f[i]] = list[i]
    PROVE  Pending(r, x) = Append(Pending(list, x), r[last].pktptr)
<1> DEFINE P == Places(list, x)
           Q == Places(r, x)
<1>1. PICK m, h : Lists(h, m, P)
  BY PendingIs
<1> DEFINE g == [i \in 1 .. m + 1 |-> IF i = m + 1 THEN last ELSE f[h[i]]]
<1> HIDE DEF P, Q
<1>2. /\ m \in Nat /\ h \in [1 .. m -> P]
      /\ \A i, j \in 1 .. m : i < j => h[i] < h[j]
      /\ \A p \in P : \E i \in 1 .. m : h[i] = p
  BY <1>1 DEF Lists
<1>3. /\ f \in [P -> Q \ {last}] /\ \A i, j \in P : i < j => f[i] < f[j]
      /\ \A p \in Q \ {last} : \E i \in P : f[i] = p
      /\ \A i \in P : r[f[i]] = list[i] /\ f[i] < last
      /\ last \in Q
  BY DEF P, Q, Grows
<1>4. /\ \A i \in 1 .. m : i \in 1 .. m + 1 /\ h[i] \in P /\ g[i] = f[h[i]] /\ f[h[i]] \in Q
      /\ g[m + 1] = last /\ m + 1 \in Nat /\ m + 1 \in 1 .. m + 1
      /\ \A i \in 1 .. m + 1 : i = m + 1 \/ i \in 1 .. m
  BY <1>2, <1>3
<1>5. g \in [1 .. m + 1 -> Q]
  BY <1>3, <1>4
<1> HIDE DEF g
<1>6. ASSUME NEW i \in 1 .. m + 1, NEW j \in 1 .. m + 1, i < j PROVE g[i] < g[j]
  <2>1. i \in 1 .. m
    BY <1>2, <1>6
  <2>2. CASE j = m + 1
    BY <1>3, <1>4, <2>1, <2>2
  <2>3. CASE j \in 1 .. m
    <3>1. h[i] < h[j] /\ h[i] \in P /\ h[j] \in P
      BY <1>2, <1>6, <2>1, <2>3
    <3>2. f[h[i]] < f[h[j]]
      BY <1>3, <3>1
    <3> QED
      BY <1>4, <2>1, <2>3, <3>2
  <2> QED
    BY <1>4, <2>2, <2>3
<1>7. ASSUME NEW p \in Q PROVE \E i \in 1 .. m + 1 : g[i] = p
  <2>1. CASE p = last
    BY <1>4, <2>1
  <2>2. CASE p # last
    <3>1. PICK q \in P : f[q] = p
      BY <1>3, <2>2
    <3>2. PICK i \in 1 .. m : h[i] = q
      BY <1>2
    <3> QED
      BY <1>4, <3>1, <3>2
  <2> QED
    BY <2>1, <2>2
<1>8. Lists(g, m + 1, Q)
  BY <1>4, <1>5, <1>6, <1>7 DEF Lists
<1> DEFINE s == [i \in 1 .. m |-> list[h[i]].pktptr]
<1>9. Pending(r, x) = [i \in 1 .. m + 1 |-> r[g[i]].pktptr]
  BY <1>8, PendingIs DEF Q
<1>10. Pending(list, x) = s
  BY <1>1, PendingIs DEF P
<1>11. /\ \A i \in 1 .. m : r[g[i]].pktptr = s[i]
       /\ r[g[m + 1]].pktptr = r[last].pktptr
  BY <1>3, <1>4
<1>12. Append(s, r[last].pktptr) = [i \in 1 .. m + 1 |-> IF i <= m THEN s[i] ELSE r[last].pktptr]
  <2>1. Len(s) = m
    BY <1>2
  <2> HIDE DEF s
  <2> QED
    BY <1>2, <2>1
<1> HIDE DEF s
<1> QED
  BY <1>2, <1>4, <1>9, <1>10, <1>11, <1>12


Runs(list, x) == \E i \in DOMAIN list : IsTimer(list[i], x)

\* An event that is put into the list: no packet for x,
LEMMA InsertOther ==
    ASSUME NEW list \in Seq(Event), NEW r, NEW e, NEW p, NEW up, NEW down,
           Moved(list, r, e, p, up, down), NEW x, ~IsPacket(e, x)
    PROVE  Pending(r, x) = Pending(list, x)
<1> DEFINE P == Places(list, x)
           Q == Places(r, x)
           f == [i \in P |-> up[i]]
<1>1. /\ r \in Seq(Event) /\ p \in DOMAIN r /\ r[p] = e
      /\ up \in [DOMAIN list -> DOMAIN r \ {p}]
      /\ \A i, j \in DOMAIN list : i < j => up[i] < up[j]
      /\ \A i \in DOMAIN list : r[up[i]] = list[i]
      /\ \A i \in DOMAIN r \ {p} : down[i] \in DOMAIN list /\ up[down[i]] = i /\ r[i] = list[down[i]]
  BY DEF Moved, Shifted
<1>2. P \subseteq DOMAIN list
  BY DEF Places
<1>3. ASSUME NEW i \in P PROVE f[i] = up[i] /\ f[i] \in Q /\ r[f[i]] = list[i]
  BY <1>1, <1>3 DEF Places
<1>4. ASSUME NEW q \in Q PROVE \E i \in P : f[i] = q
  <2>1. q \in DOMAIN r \ {p} /\ IsPacket(r[q], x)
    BY <1>1, <1>4 DEF Places
  <2>2. down[q] \in P /\ up[down[q]] = q
    BY <1>1, <2>1 DEF Places
  <2> QED
    BY <1>3, <2>2
<1>5. f \in [P -> Q]
  BY <1>3
<1>6. \A i, j \in P : i < j => f[i] < f[j]
  BY <1>1, <1>2, <1>3
<1> HIDE DEF f
<1> QED
  BY <1>1, <1>3, <1>4, <1>5, <1>6, PendingSame

\* or a packet for x behind the others.
LEMMA InsertBehind ==
    ASSUME NEW list \in Seq(Event), NEW r, NEW e, NEW p, NEW up, NEW down,
           Moved(list, r, e, p, up, down), NEW x, IsPacket(e, x),
           \A i \in DOMAIN r : i > p => ~IsPacket(r[i], x)
    PROVE  Pending(r, x) = Append(Pending(list, x), e.pktptr)
<1> DEFINE P == Places(list, x)
           Q == Places(r, x)
           f == [i \in P |-> up[i]]
<1>1. /\ r \in Seq(Event) /\ p \in DOMAIN r /\ r[p] = e /\ DOMAIN r \subseteq Nat
      /\ up \in [DOMAIN list -> DOMAIN r \ {p}]
      /\ \A i, j \in DOMAIN list : i < j => up[i] < up[j]
      /\ \A i \in DOMAIN list : r[up[i]] = list[i]
      /\ \A i \in DOMAIN r \ {p} : down[i] \in DOMAIN list /\ up[down[i]] = i /\ r[i] = list[down[i]]
  BY DEF Moved, Shifted
<1>2. P \subseteq DOMAIN list /\ p \in Q
  BY <1>1 DEF Places
<1>3. ASSUME NEW i \in P
      PROVE  f[i] = up[i] /\ f[i] \in Q \ {p} /\ f[i] < p /\ r[f[i]] = list[i]
  <2>1. /\ up[i] \in DOMAIN r \ {p} /\ IsPacket(r[up[i]], x) /\ r[up[i]] = list[i]
    BY <1>1, <1>3 DEF Places
  <2>2. up[i] < p
    BY <1>1, <2>1
  <2> QED
    BY <2>1, <2>2 DEF Places
<1>4. ASSUME NEW q \in Q \ {p} PROVE \E i \in P : f[i] = q
  <2>1. q \in DOMAIN r \ {p} /\ IsPacket(r[q], x)
    BY <1>4 DEF Places
  <2>2. down[q] \in P /\ up[down[q]] = q
    BY <1>1, <2>1 DEF Places
  <2> QED
    BY <1>3, <2>2
<1>5. f \in [P -> Q \ {p}]
  BY <1>3
<1>6. \A i, j \in P : i < j => f[i] < f[j]
  BY <1>1, <1>2, <1>3
<1> HIDE DEF f
<1> QED
  <2>1. Grows(P, Q, p, f) /\ \A i \in P : r[f[i]] = list[i]
    BY <1>2, <1>3, <1>4, <1>5, <1>6 DEF Grows
  <2>2. Pending(r, x) = Append(Pending(list, x), r[p].pktptr)
    BY <1>1, <2>1, PendingMore
  <2> QED
    BY <1>1, <2>2

\* An event that leaves the list and is no packet for x.
LEMMA RemoveOther ==
    ASSUME NEW list \in Seq(Event), NEW k \in DOMAIN list, NEW x, ~IsPacket(list[k], x)
    PROVE  Pending(RemoveAt(list, k), x) = Pending(list, x)
<1> DEFINE r == RemoveAt(list, k)
           P == Places(list, x)
           Q == Places(r, x)
           f == [i \in P |-> IF i < k THEN i ELSE i - 1]
<1>1. /\ r \in Seq(Event)
      /\ Len(list) \in Nat /\ DOMAIN list = 1 .. Len(list) /\ k \in 1 .. Len(list)
      /\ DOMAIN r = 1 .. Len(list) - 1
      /\ \A i \in 1 .. k - 1 : r[i] = list[i]
      /\ \A i \in k .. Len(list) - 1 : r[i] = list[i + 1]
  BY RemovePlaces
<1> HIDE DEF r
<1>2. /\ \A i \in P : i \in 1 .. Len(list) /\ i # k /\ IsPacket(list[i], x)
      /\ \A i \in 1 .. Len(list) : IsPacket(list[i], x) => i \in P
      /\ \A i \in Q : i \in 1 .. Len(list) - 1 /\ IsPacket(r[i], x)
      /\ \A i \in 1 .. Len(list) - 1 : IsPacket(r[i], x) => i \in Q
  BY <1>1 DEF Places
<1> HIDE DEF P, Q
<1>3. ASSUME NEW i \in P PROVE f[i] \in Q /\ r[f[i]] = list[i]
  <2>1. CASE i < k
    <3>1. f[i] = i /\ i \in 1 .. Len(list) - 1 /\ i \in 1 .. k - 1
      BY <1>1, <1>2, <2>1
    <3> QED
      BY <1>1, <1>2, <3>1
  <2>2. CASE ~(i < k)
    <3>1. f[i] = i - 1 /\ i - 1 \in 1 .. Len(list) - 1 /\ i - 1 \in k .. Len(list) - 1 /\ (i - 1) + 1 = i
      BY <1>1, <1>2, <2>2
    <3>2. r[i - 1] = list[i]
      BY <1>1, <3>1
    <3> QED
      BY <1>2, <3>1, <3>2
  <2> QED
    BY <2>1, <2>2
<1>4. ASSUME NEW q \in Q PROVE \E i \in P : f[i] = q
  <2>1. q \in 1 .. Len(list) - 1 /\ IsPacket(r[q], x)
    BY <1>2
  <2>2. CASE q < k
    <3>1. q \in 1 .. k - 1 /\ q \in 1 .. Len(list)
      BY <1>1, <2>1, <2>2
    <3>2. q \in P
      BY <1>1, <1>2, <2>1, <3>1
    <3> QED
      BY <2>2, <3>2
  <2>3. CASE ~(q < k)
    <3>1. q \in k .. Len(list) - 1 /\ q + 1 \in 1 .. Len(list) /\ ~(q + 1 < k) /\ (q + 1) - 1 = q
      BY <1>1, <2>1, <2>3
    <3>2. q + 1 \in P
      BY <1>1, <1>2, <2>1, <3>1
    <3> QED
      BY <3>1, <3>2
  <2> QED
    BY <2>2, <2>3
<1>5. f \in [P -> Q]
  BY <1>3
<1>6. \A i, j \in P : i < j => f[i] < f[j]
  BY <1>1, <1>2
<1> HIDE DEF f
<1> QED
  BY <1>1, <1>3, <1>4, <1>5, <1>6, PendingSame DEF P, Q, r

\* What is behind the first of m.
LEMMA TailIs ==
    ASSUME NEW m \in Nat, m # 0, NEW S, NEW s \in [1 .. m -> S]
    PROVE  s # <<>> /\ Tail(s) = [i \in 1 .. m - 1 |-> s[i + 1]]
<1> DEFINE g == [i \in 1 .. m - 1 |-> s[i + 1]]
<1>1. s \in Seq(S) /\ Len(s) = m /\ s # <<>>
  OBVIOUS
<1>2. Tail(s) \in Seq(S) /\ Len(Tail(s)) = m - 1 /\ \A i \in 1 .. m - 1 : Tail(s)[i] = s[i + 1]
  BY <1>1
<1>3. g \in Seq(S) /\ Len(g) = m - 1 /\ \A i \in 1 .. m - 1 : g[i] = s[i + 1]
  <2>1. \A i \in 1 .. m - 1 : i + 1 \in 1 .. m
    OBVIOUS
  <2>2. g \in [1 .. m - 1 -> S] /\ m - 1 \in Nat
    BY <2>1
  <2> QED
    BY <2>2
<1> HIDE DEF g
<1>4. Tail(s) = g
  BY <1>2, <1>3
<1> QED
  BY <1>1, <1>4 DEF g

\* The first event leaves the list and is a packet for x.
LEMMA PendingFirst ==
    ASSUME NEW list \in Seq(Event), list # <<>>, NEW x, IsPacket(Head(list), x)
    PROVE  /\ Pending(list, x) # <<>>
           /\ Pending(Tail(list), x) = Tail(Pending(list, x))
<1> DEFINE r == Tail(list)
           P == Places(list, x)
           Q == Places(r, x)
<1>1. PICK m, h : Lists(h, m, P)
  BY PendingIs
<1>2. /\ 1 \in DOMAIN list /\ list[1] = Head(list) /\ DOMAIN list = 1 .. Len(list) /\ Len(list) \in Nat
      /\ r \in Seq(Event) /\ DOMAIN r = 1 .. Len(list) - 1
      /\ \A i \in 1 .. Len(list) - 1 : r[i] = list[i + 1]
  OBVIOUS
<1> HIDE DEF r
<1>3. /\ 1 \in P
      /\ \A i \in P : i \in 1 .. Len(list) /\ IsPacket(list[i], x)
      /\ \A i \in 1 .. Len(list) : IsPacket(list[i], x) => i \in P
      /\ \A i \in Q : i \in 1 .. Len(list) - 1 /\ IsPacket(r[i], x)
      /\ \A i \in 1 .. Len(list) - 1 : IsPacket(r[i], x) => i \in Q
  BY <1>2 DEF Places
<1> HIDE DEF P, Q
<1>4. /\ m \in Nat /\ h \in [1 .. m -> P]
      /\ \A i, j \in 1 .. m : i < j => h[i] < h[j]
      /\ \A p \in P : \E i \in 1 .. m : h[i] = p
  BY <1>1 DEF Lists
<1>5. m >= 1 /\ 1 \in 1 .. m /\ h[1] = 1
  <2>1. PICK i \in 1 .. m : h[i] = 1
    BY <1>3, <1>4
  <2>2. 1 \in 1 .. m /\ i \in Nat /\ m \in Nat
    BY <1>4, <2>1
  <2>3. h[1] \in P /\ h[1] >= 1
    BY <1>2, <1>3, <1>4, <2>2
  <2>4. ~(1 < i)
    BY <1>2, <1>3, <1>4, <2>1, <2>2, <2>3
  <2> QED
    BY <2>1, <2>2, <2>4
<1> DEFINE g == [i \in 1 .. m - 1 |-> h[i + 1] - 1]
<1>6. ASSUME NEW i \in 1 .. m - 1
      PROVE  /\ i + 1 \in 1 .. m /\ g[i] = h[i + 1] - 1 /\ g[i] \in Q
             /\ r[g[i]] = list[h[i + 1]] /\ h[i + 1] \in 1 .. Len(list)
  <2>1. i + 1 \in 1 .. m /\ 1 < i + 1
    BY <1>4, <1>5
  <2>2. h[1] < h[i + 1] /\ h[i + 1] \in P
    BY <1>4, <1>5, <2>1
  <2>3. h[i + 1] - 1 \in 1 .. Len(list) - 1 /\ (h[i + 1] - 1) + 1 = h[i + 1] /\ h[i + 1] \in 1 .. Len(list)
    BY <1>2, <1>3, <1>5, <2>2
  <2>4. r[h[i + 1] - 1] = list[h[i + 1]]
    BY <1>2, <2>3
  <2>5. h[i + 1] - 1 \in Q
    BY <1>3, <2>2, <2>3, <2>4
  <2> QED
    BY <2>1, <2>3, <2>4, <2>5
<1>7. ASSUME NEW q \in Q PROVE \E i \in 1 .. m - 1 : g[i] = q
  <2>1. q \in 1 .. Len(list) - 1 /\ q + 1 \in 1 .. Len(list) /\ IsPacket(list[q + 1], x)
    BY <1>2, <1>3
  <2>2. PICK i \in 1 .. m : h[i] = q + 1
    BY <1>3, <1>4, <2>1
  <2>3. i # 1
    BY <1>5, <2>1, <2>2
  <2>4. i - 1 \in 1 .. m - 1 /\ (i - 1) + 1 = i /\ (q + 1) - 1 = q
    BY <1>4, <2>1, <2>3
  <2> QED
    BY <2>2, <2>4
<1>8. Lists(g, m - 1, Q)
  <2>1. m - 1 \in Nat
    BY <1>4, <1>5
  <2>2. g \in [1 .. m - 1 -> Q]
    BY <1>6
  <2>3. ASSUME NEW i \in 1 .. m - 1, NEW j \in 1 .. m - 1, i < j PROVE g[i] < g[j]
    <3>1. i + 1 \in 1 .. m /\ j + 1 \in 1 .. m /\ i + 1 < j + 1
      BY <1>6, <2>1, <2>3
    <3>2. h[i + 1] < h[j + 1] /\ h[i + 1] \in Int /\ h[j + 1] \in Int
      BY <1>4, <1>6, <3>1
    <3> QED
      BY <1>6, <3>2
  <2> HIDE DEF g
  <2> QED
    BY <1>7, <2>1, <2>2, <2>3 DEF Lists
<1> HIDE DEF g
<1> DEFINE s == [i \in 1 .. m |-> list[h[i]].pktptr]
<1>9. Pending(list, x) = s
  BY <1>1, PendingIs DEF P
<1>10. Pending(r, x) = [i \in 1 .. m - 1 |-> r[g[i]].pktptr]
  BY <1>2, <1>8, PendingIs DEF Q
<1>11. \A i \in 1 .. m - 1 : r[g[i]].pktptr = s[i + 1]
  BY <1>6
<1>12. s \in [1 .. m -> 0 .. MaxPackets]
  <2>1. \A i \in 1 .. m : list[h[i]] \in Event
    BY <1>2, <1>3, <1>4
  <2> QED
    BY <2>1, EventFields
<1> HIDE DEF s
<1>13. s # <<>> /\ Tail(s) = [i \in 1 .. m - 1 |-> s[i + 1]]
  <2>1. m # 0 /\ m \in Nat
    BY <1>4, <1>5
  <2> QED
    BY <1>12, <2>1, TailIs
<1> QED
  BY <1>9, <1>10, <1>11, <1>13 DEF r

\* The timers that run when an event comes or goes.
LEMMA RunsInsert ==
    ASSUME NEW list, NEW r, NEW e, NEW p, NEW up, NEW down,
           Moved(list, r, e, p, up, down), NEW x
    PROVE  Runs(r, x) <=> Runs(list, x) \/ IsTimer(e, x)
<1>1. /\ p \in DOMAIN r /\ r[p] = e
      /\ \A i \in DOMAIN list : up[i] \in DOMAIN r /\ r[up[i]] = list[i]
      /\ \A i \in DOMAIN r \ {p} : down[i] \in DOMAIN list /\ r[i] = list[down[i]]
  BY DEF Moved, Shifted
<1> QED
  BY <1>1 DEF Runs

LEMMA RunsRemove ==
    ASSUME NEW list, NEW t, Sound(list, t), NEW k \in DOMAIN list, NEW x \in Entity
    PROVE  Runs(RemoveAt(list, k), x) <=> Runs(list, x) /\ ~IsTimer(list[k], x)
<1> DEFINE r == RemoveAt(list, k)
<1>1. /\ list \in Seq(Event)
      /\ \A i, j \in DOMAIN list : IsTimer(list[i], x) /\ IsTimer(list[j], x) => i = j
  BY DEF Sound
<1>2. /\ r \in Seq(Event)
      /\ Len(list) \in Nat /\ DOMAIN list = 1 .. Len(list) /\ k \in 1 .. Len(list)
      /\ DOMAIN r = 1 .. Len(list) - 1
      /\ \A i \in 1 .. k - 1 : r[i] = list[i]
      /\ \A i \in k .. Len(list) - 1 : r[i] = list[i + 1]
  BY <1>1, RemovePlaces
<1> HIDE DEF r
<1>3. ASSUME NEW i \in DOMAIN r PROVE \E j \in DOMAIN list \ {k} : r[i] = list[j]
  <2>1. CASE i < k
    <3>1. i \in 1 .. k - 1 /\ i \in DOMAIN list \ {k}
      BY <1>2, <2>1
    <3> QED
      BY <1>2, <3>1
  <2>2. CASE ~(i < k)
    <3>1. i \in k .. Len(list) - 1 /\ i + 1 \in DOMAIN list \ {k}
      BY <1>2, <2>2
    <3> QED
      BY <1>2, <3>1
  <2> QED
    BY <2>1, <2>2
<1>4. ASSUME NEW j \in DOMAIN list \ {k} PROVE \E i \in DOMAIN r : r[i] = list[j]
  <2>1. CASE j < k
    <3>1. j \in 1 .. k - 1 /\ j \in DOMAIN r
      BY <1>2, <2>1
    <3> QED
      BY <1>2, <3>1
  <2>2. CASE ~(j < k)
    <3>1. j - 1 \in k .. Len(list) - 1 /\ j - 1 \in DOMAIN r /\ (j - 1) + 1 = j
      BY <1>2, <2>2
    <3>2. r[j - 1] = list[j]
      BY <1>2, <3>1
    <3> QED
      BY <3>1, <3>2
  <2> QED
    BY <2>1, <2>2
<1>5. CASE IsTimer(list[k], x)
  BY <1>1, <1>3, <1>5 DEF Runs, r
<1>6. CASE ~IsTimer(list[k], x)
  BY <1>3, <1>4, <1>6 DEF Runs, r
<1> QED
  BY <1>5, <1>6


-----------------------------------------------------------------------------
(* Every step of the event list is one of the medium *)

\* The medium's view of two lists: the same packets and timers,
Unseen(list, r) ==
    \A x \in Entity : Pending(r, x) = Pending(list, x) /\ (Runs(r, x) <=> Runs(list, x))

LEMMA StutterOf == ASSUME Unseen(evlist, evlist') PROVE UNCHANGED M!vars
<1>1. [x \in Entity |-> Pending(evlist, x)]' = [x \in Entity |-> Pending(evlist, x)]
  BY DEF Unseen
<1>2. { x \in Entity : TimerRuns(x) }' = { x \in Entity : TimerRuns(x) }
  BY DEF Unseen, Runs, TimerRuns
<1> QED
  BY <1>1, <1>2 DEF M!vars

\* one packet for x more,
LEMMA SendOf ==
    ASSUME NEW x \in Entity, NEW p \in 1 .. MaxPackets,
           \A y \in Entity :
              /\ Pending(evlist', y) = IF y = (x + 1) % 2 THEN Append(Pending(evlist, y), p)
                                         ELSE Pending(evlist, y)
              /\ Runs(evlist', y) <=> Runs(evlist, y)
    PROVE  M!Next
<1>1. [y \in Entity |-> Pending(evlist, y)]'
        = [[y \in Entity |-> Pending(evlist, y)]
              EXCEPT ![M!Other(x)] = Append(@, p)]
  BY Ends DEF M!Other
<1>2. { y \in Entity : TimerRuns(y) }' = { y \in Entity : TimerRuns(y) }
  BY DEF Runs, TimerRuns
<1>3. M!Send(x)
  BY <1>1, <1>2 DEF M!Send
<1> QED
  BY <1>3 DEF M!Next

\* one packet for x less, the oldest,
LEMMA ArriveOf ==
    ASSUME NEW x \in Entity,
           Pending(evlist, x) # <<>>,
           \A y \in Entity :
              /\ Pending(evlist', y) = IF y = x THEN Tail(Pending(evlist, y))
                                         ELSE Pending(evlist, y)
              /\ Runs(evlist', y) <=> Runs(evlist, y)
    PROVE  M!Next
<1>1. [y \in Entity |-> Pending(evlist, y)]'
        = [[y \in Entity |-> Pending(evlist, y)] EXCEPT ![x] = Tail(@)]
  OBVIOUS
<1>2. { y \in Entity : TimerRuns(y) }' = { y \in Entity : TimerRuns(y) }
  BY DEF Runs, TimerRuns
<1>3. M!Arrive(x)
  BY <1>1, <1>2 DEF M!Arrive
<1> QED
  BY <1>3 DEF M!Next

\* or the timer of x started or stopped.
LEMMA TimerOf ==
    ASSUME NEW x \in Entity, NEW on \in BOOLEAN,
           \A y \in Entity :
              /\ Pending(evlist', y) = Pending(evlist, y)
              /\ Runs(evlist', y) <=> IF y = x THEN on ELSE Runs(evlist, y)
    PROVE  M!Next
<1>1. [y \in Entity |-> Pending(evlist, y)]' = [y \in Entity |-> Pending(evlist, y)]
  OBVIOUS
<1>2. \A y \in Entity : TimerRuns(y)' <=> IF y = x THEN on ELSE TimerRuns(y)
  BY DEF Runs, TimerRuns
<1>3. CASE on
  <2>1. { y \in Entity : TimerRuns(y) }' = { y \in Entity : TimerRuns(y) } \cup {x}
    BY <1>2, <1>3
  <2>2. M!Start(x)
    BY <1>1, <2>1 DEF M!Start
  <2> QED
    BY <2>2 DEF M!Next
<1>4. CASE ~on
  <2>1. { y \in Entity : TimerRuns(y) }' = { y \in Entity : TimerRuns(y) } \ {x}
    BY <1>2, <1>4
  <2>2. M!Stop(x)
    BY <1>1, <2>1 DEF M!Stop
  <2> QED
    BY <2>2 DEF M!Next
<1> QED
  BY <1>3, <1>4

\* An event is a packet for one entity, a timer of one, or neither.
LEMMA Kinds ==
    ASSUME NEW e \in Event, NEW x
    PROVE  /\ IsPacket(e, x) <=> e.evtype = FROM_LAYER3 /\ x = e.eventity
           /\ IsTimer(e, x) <=> e.evtype = TIMER_INTERRUPT /\ x = e.eventity
           /\ ~(IsPacket(e, x) /\ IsTimer(e, x))
BY DEF IsPacket, IsTimer, FROM_LAYER3, TIMER_INTERRUPT

\* A message put into the list is not seen by the medium.
LEMMA ArrivalUnseen ==
    ASSUME NEW list \in Seq(Event), Ordered(list),
           NEW e \in Event, e.evtype = FROM_LAYER5
    PROVE  Unseen(list, insertevent(list, e))
<1>1. PICK p, up, down : Moved(list, insertevent(list, e), e, p, up, down)
  BY Inserted
<1>2. \A x \in Entity : ~IsPacket(e, x) /\ ~IsTimer(e, x)
  BY DEF IsPacket, IsTimer, FROM_LAYER3, FROM_LAYER5, TIMER_INTERRUPT
<1>3. \A x \in Entity : Pending(insertevent(list, e), x) = Pending(list, x)
  BY <1>1, <1>2, InsertOther
<1>4. \A x \in Entity : Runs(insertevent(list, e), x) <=> Runs(list, x)
  BY <1>1, <1>2, RunsInsert
<1> QED
  BY <1>3, <1>4 DEF Unseen

\* The event the main loop takes: a packet arrives, a timer goes off, or a
\* message is handed to A, which the medium does not see.
LEMMA NextEventImplements ==
    ASSUME EmulatorIInv, NextEvent
    PROVE  [M!Next]_M!vars
<1> DEFINE e == Head(evlist)
           rest == Tail(evlist)
<1>1. /\ EmulatorTypeOK /\ Sound(evlist, time) /\ time \in Nat /\ evlist # <<>> /\ evlist \in Seq(Event)
  BY IInvIs DEF EmulatorTypeOK, NextEvent
<1>2. e \in Event /\ Held(e.evtime) /\ Sound(rest, e.evtime) /\ e.evtime \in Nat
  BY <1>1, TakeFirst, EventFields
<1>3. rest = RemoveAt(evlist, 1) /\ 1 \in DOMAIN evlist /\ evlist[1] = e
  BY <1>1, TailRemoves
<1>4. \A x \in Entity : ~IsPacket(e, x) => Pending(rest, x) = Pending(evlist, x)
  BY <1>1, <1>3, RemoveOther
<1>5. \A x \in Entity : IsPacket(e, x) =>
          Pending(evlist, x) # <<>> /\ Pending(rest, x) = Tail(Pending(evlist, x))
  BY <1>1, PendingFirst
<1>6. \A x \in Entity : Runs(rest, x) <=> Runs(evlist, x) /\ ~IsTimer(e, x)
  <2>1. \A x \in Entity :
            Runs(RemoveAt(evlist, 1), x) <=> Runs(evlist, x) /\ ~IsTimer(evlist[1], x)
    BY <1>1, <1>3, RunsRemove
  <2> QED
    BY <1>3, <2>1
<1>7. e.eventity \in Entity /\ time' = e.evtime
  BY <1>2, EventFields DEF NextEvent
<1>8. evlist' = rest \/ (e.evtype = FROM_LAYER5 /\ Unseen(rest, evlist'))
  <2>1. CASE ~AllOffered /\ e.evtype = FROM_LAYER5
    <3>1. PICK x \in ARRIVALS : evlist' = insertevent(rest, NextArrival(time', x))
      BY <2>1 DEF NextEvent
    <3>2. x \in Nat /\ time' + x \in Nat
      BY <1>2, <1>7, EventListAssumption
    <3>3. Float(time' + x) \in Nat
      BY <3>2, Rounding
    <3> DEFINE new == NextArrival(time', x)
    <3>4. new \in Event /\ new.evtype = FROM_LAYER5
      BY <3>3, EventListAssumption DEF NextArrival, Event, NULL, Entity
    <3> HIDE DEF new, rest
    <3>5. rest \in Seq(Event) /\ Ordered(rest)
      BY <1>2 DEF Sound
    <3>6. Unseen(rest, insertevent(rest, new))
      BY <3>4, <3>5, ArrivalUnseen
    <3> QED
      BY <2>1, <3>1, <3>6 DEF new
  <2>2. CASE ~(~AllOffered /\ e.evtype = FROM_LAYER5)
    BY <2>2 DEF NextEvent
  <2> QED
    BY <2>1, <2>2
<1> HIDE DEF e, rest
<1>9. CASE e.evtype = FROM_LAYER3
  <2>1. evlist' = rest
    BY <1>8, <1>9 DEF FROM_LAYER3, FROM_LAYER5
  <2>2. \A y \in Entity :
           /\ Pending(evlist', y) = IF y = e.eventity THEN Tail(Pending(evlist, y))
                                      ELSE Pending(evlist, y)
           /\ Runs(evlist', y) <=> Runs(evlist, y)
    BY <1>2, <1>4, <1>5, <1>6, <1>9, <2>1, Kinds
  <2>3. Pending(evlist, e.eventity) # <<>>
    BY <1>2, <1>5, <1>7, <1>9, Kinds
  <2> QED
    BY <1>7, <2>2, <2>3, ArriveOf
<1>10. CASE e.evtype = TIMER_INTERRUPT
  <2>1. evlist' = rest
    BY <1>8, <1>10 DEF TIMER_INTERRUPT, FROM_LAYER5
  <2>2. \A y \in Entity :
           /\ Pending(evlist', y) = Pending(evlist, y)
           /\ Runs(evlist', y) <=> IF y = e.eventity THEN FALSE ELSE Runs(evlist, y)
    <3>1. \A y \in Entity : ~IsPacket(e, y) /\ (IsTimer(e, y) <=> y = e.eventity)
      BY <1>2, <1>10, Kinds
    <3> QED
      BY <1>4, <1>6, <2>1, <3>1
  <2> QED
    BY <1>7, <2>2, TimerOf
<1>11. CASE e.evtype = FROM_LAYER5
  <2>1. \A x \in Entity : ~IsPacket(e, x) /\ ~IsTimer(e, x)
    BY <1>11 DEF IsPacket, IsTimer, FROM_LAYER3, FROM_LAYER5, TIMER_INTERRUPT
  <2>2. Unseen(evlist, rest)
    BY <1>4, <1>6, <2>1 DEF Unseen
  <2>3. Unseen(evlist, evlist')
    BY <1>8, <2>2 DEF Unseen
  <2> QED
    BY <2>3, StutterOf
<1> QED
  BY <1>2, <1>9, <1>10, <1>11, EventFields

\* starttimer.
LEMMA StartTimerImplements ==
    ASSUME EmulatorIInv, StartTimer
    PROVE  M!Next
<1>1. EmulatorTypeOK /\ Sound(evlist, time) /\ time \in Nat /\ evlist \in Seq(Event) /\ Ordered(evlist)
  BY IInvIs DEF EmulatorTypeOK, Sound
<1> DEFINE new(inc) == [evtime |-> Float(time + inc), evtype |-> TIMER_INTERRUPT,
                        eventity |-> handler, pktptr |-> NULL]
<1>2. PICK inc \in INCREMENTS : evlist' = insertevent(evlist, new(inc))
  BY DEF StartTimer
<1>3. inc \in Nat /\ time + inc \in Nat
  BY <1>1, EventListAssumption
<1>4. Float(time + inc) \in Nat
  BY <1>3, Rounding
<1> DEFINE e == new(inc)
<1>5. e \in Event /\ e.evtype = TIMER_INTERRUPT /\ e.eventity = handler /\ handler \in Entity
  BY <1>4, EventListAssumption DEF StartTimer, Event, NULL
<1>6. evlist' = insertevent(evlist, e)
  BY <1>2
<1> HIDE DEF e, new
<1>7. PICK p, up, down : Moved(evlist, evlist', e, p, up, down)
  BY <1>1, <1>5, <1>6, Inserted
<1>8. \A x \in Entity : ~IsPacket(e, x) /\ (IsTimer(e, x) <=> x = handler)
  BY <1>5 DEF IsPacket, IsTimer, FROM_LAYER3, TIMER_INTERRUPT
<1>9. \A x \in Entity : Pending(evlist', x) = Pending(evlist, x)
  BY <1>1, <1>7, <1>8, InsertOther
<1>10. \A x \in Entity : Runs(evlist', x) <=> Runs(evlist, x) \/ x = handler
  BY <1>7, <1>8, RunsInsert
<1>11. \A x \in Entity : Runs(evlist', x) <=> IF x = handler THEN TRUE ELSE Runs(evlist, x)
  BY <1>10
<1> QED
  BY <1>5, <1>9, <1>11, TimerOf

\* stoptimer.
LEMMA StopTimerImplements ==
    ASSUME EmulatorIInv, StopTimer
    PROVE  M!Next
<1>1. EmulatorTypeOK /\ Sound(evlist, time) /\ evlist \in Seq(Event)
  BY IInvIs DEF EmulatorTypeOK
<1>2. PICK k \in DOMAIN evlist : IsTimer(evlist[k], handler) /\ evlist' = RemoveAt(evlist, k)
  BY <1>1, StopTimerRemoves
<1>3. evlist[k] \in Event /\ handler \in Entity
  BY <1>1 DEF StopTimer
<1>4. \A x \in Entity : ~IsPacket(evlist[k], x) /\ (IsTimer(evlist[k], x) <=> x = handler)
  BY <1>2, <1>3, Kinds
<1>5. \A x \in Entity : Pending(evlist', x) = Pending(evlist, x)
  BY <1>1, <1>2, <1>4, RemoveOther
<1>6. \A x \in Entity : Runs(evlist', x) <=> Runs(evlist, x) /\ x # handler
  BY <1>1, <1>2, <1>4, RunsRemove
<1>7. \A x \in Entity : Runs(evlist', x) <=> IF x = handler THEN FALSE ELSE Runs(evlist, x)
  BY <1>6
<1> QED
  BY <1>3, <1>5, <1>7, TimerOf

\* tolayer3: the packet is lost or goes behind the others.
LEMMA ToLayer3Implements ==
    ASSUME ExactRun, EmulatorIInv, ToLayer3
    PROVE  [M!Next]_M!vars
<1>1. /\ EmulatorTypeOK /\ Sound(evlist, time) /\ InTurn(evlist, ntolayer3)
      /\ evlist \in Seq(Event) /\ Ordered(evlist)
  BY IInvIs DEF EmulatorTypeOK, Sound
<1>2. handler \in Entity /\ ntolayer3 \in Nat /\ ntolayer3 + 1 \in 1 .. MaxPackets
  BY <1>1, EventListAssumption DEF ToLayer3, EmulatorTypeOK
<1>3. CASE evlist' = evlist
  <2>1. Unseen(evlist, evlist')
    BY <1>3 DEF Unseen
  <2> QED
    BY <2>1, StutterOf
<1>4. CASE evlist' # evlist
  <2>1. PICK t \in Nat :
            /\ evlist' = insertevent(evlist, Sent(ntolayer3 + 1, t))
            /\ Sent(ntolayer3 + 1, t) \in Event /\ time <= t /\ Held(t)
            /\ ExactRun =>
                  /\ t <= Horizon + 10 * (ntolayer3 + 1)
                  /\ \A i \in DOMAIN evlist :
                        IsPacket(evlist[i], (handler + 1) % 2) => evlist[i].evtime < t
    BY <1>4, ArrivesLast
  <2> DEFINE e == Sent(ntolayer3 + 1, t)
  <2>2. /\ e.evtime = t /\ e.evtype = FROM_LAYER3 /\ e.pktptr = ntolayer3 + 1
        /\ e.eventity = (handler + 1) % 2 /\ e \in Event /\ evlist' = insertevent(evlist, e)
    BY <2>1 DEF Sent
  <2> HIDE DEF e
  <2>3. PICK p, up, down :
            /\ Moved(evlist, evlist', e, p, up, down)
            /\ \A i \in DOMAIN evlist' : i > p => ~IsPacket(evlist'[i], e.eventity)
    BY <1>1, <1>2, <2>1, <2>2, InsertLast
  <2>4. \A x \in Entity : ~IsTimer(e, x) /\ (IsPacket(e, x) <=> x = (handler + 1) % 2)
    BY <2>2, Kinds DEF FROM_LAYER3, TIMER_INTERRUPT
  <2>5. \A x \in Entity : x # (handler + 1) % 2 => Pending(evlist', x) = Pending(evlist, x)
    BY <1>1, <2>3, <2>4, InsertOther
  <2>6. \A x \in Entity : x = (handler + 1) % 2 =>
            Pending(evlist', x) = Append(Pending(evlist, x), ntolayer3 + 1)
    BY <1>1, <2>2, <2>3, <2>4, InsertBehind
  <2>7. \A x \in Entity : Runs(evlist', x) <=> Runs(evlist, x)
    BY <2>3, <2>4, RunsInsert
  <2>8. M!Next
    BY <1>2, <2>5, <2>6, <2>7, SendOf
  <2> QED
    BY <2>8
<1> QED
  BY <1>3, <1>4

LEMMA InitImplements == EmulatorInit => M!Init
<1> SUFFICES ASSUME EmulatorInit PROVE M!Init
  OBVIOUS
<1>1. PICK x \in ARRIVALS : evlist = <<NextArrival(0, x)>>
  BY DEF EmulatorInit
<1>2. evlist[1].evtype = FROM_LAYER5 /\ DOMAIN evlist = {1}
  BY <1>1 DEF NextArrival
<1>3. evlist \in Seq(Event)
  BY EventInit, IInvIs DEF Sound
<1>4. \A y \in Entity : Places(evlist, y) = {} /\ ~TimerRuns(y)
  BY <1>2 DEF Places, TimerRuns, IsPacket, IsTimer, FROM_LAYER3, FROM_LAYER5, TIMER_INTERRUPT
<1>5. ASSUME NEW y \in Entity PROVE Pending(evlist, y) = <<>>
  <2> DEFINE h == [i \in {} |-> 0]
  <2>1. Lists(h, 0, Places(evlist, y))
    BY <1>4 DEF Lists
  <2>2. Pending(evlist, y) = [i \in 1 .. 0 |-> evlist[h[i]].pktptr]
    BY <1>3, <2>1, PendingIs
  <2> QED
    BY <2>2
<1> QED
  BY <1>4, <1>5 DEF M!Init

LEMMA NextImplements ==
    ExactRun /\ EmulatorIInv /\ [EmulatorNext]_emulatorVars => [M!Next]_M!vars
<1> SUFFICES ASSUME ExactRun, EmulatorIInv, [EmulatorNext]_emulatorVars
             PROVE  [M!Next]_M!vars
  OBVIOUS
<1>1. CASE UNCHANGED emulatorVars \/ Return
  <2>1. Unseen(evlist, evlist')
    BY <1>1 DEF emulatorVars, Return, Unseen
  <2> QED
    BY <2>1, StutterOf
<1>2. CASE NextEvent
  BY <1>2, NextEventImplements
<1>3. CASE StartTimer
  BY <1>3, StartTimerImplements
<1>4. CASE StopTimer
  BY <1>4, StopTimerImplements
<1>5. CASE ToLayer3
  BY <1>5, ToLayer3Implements
<1> QED
  BY <1>1, <1>2, <1>3, <1>4, <1>5 DEF EmulatorNext

\* The emulator keeps what it promises the protocols: its timed list with its
\* float clock is an untimed medium that loses packets but neither reorders nor
\* duplicates them, and one timer for each entity, as long as the clock is exact.
THEOREM MediumRefined ==
    ASSUME Horizon + 10 * MaxPackets <= EXACT
    PROVE  EmulatorSpec => ImplementsMedium
<1>1. ExactRun
  BY DEF ExactRun
<1>2. EmulatorInit => M!Init
  BY InitImplements
<1>3. EmulatorIInv /\ [EmulatorNext]_emulatorVars => [M!Next]_M!vars
  BY <1>1, NextImplements
<1> QED
  BY <1>2, <1>3, EventInvariance, PTL DEF EmulatorSpec, M!Spec, ImplementsMedium

==============================================================================
