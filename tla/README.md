# Formal models of Modern Network Concepts

The repository holds three independent C programs: a reliable transport over a
network emulator, distance-vector routing, and a chat application. This
directory models the three, checks the models with TLC and proves the main
results about each of them with TLAPS. Paths below are relative to `src/`.

## 1. Inventory

### Reliable_Transport_Protocols

One process, one thread. `src/simulator.c` keeps a list of events in order of
time and calls the protocol that is linked to it; the protocol calls back.

| Part | State | Operations | Interaction |
|---|---|---|---|
| Network emulator, `simulator.c` | `time` (float), `evlist`, `nsim`, `application_msgs`, `cur_msg_recv` | main loop, `generate_next_arrival`, `insertevent`, `starttimer`, `stoptimer`, `tolayer3`, `tolayer5` | calls `A_output`, `A_input`, `B_input`, `A_timerinterrupt`; stops the process with 52, 63 or 145 when the protocol delivers a wrong message |
| Alternating bit, `abt.c` | queue with `head`, `rear`; the bits `A_wait_ack`, `A_wait_seq`, `B_wait_seqnum`; the packet in flight | the four handlers | one packet in flight, one timer |
| Go-back-N, `gbn.c` | queue of packets with `head`, `nextseqnum`, `rear`, `w_last`; `expectedseqnum` | the four handlers | cumulative acknowledgements, one timer for the window |
| Selective repeat, `sr.c` | two buffers with `received` flags and windows; the list `Aq_head` of packets that wait for an acknowledgement | the four handlers | one timer serves every packet of the list |

Hard: packets and acknowledgements are lost, corrupted and sent again; a timer
races the answer; one timer stands for many packets; equal arrival times;
`head` is assigned without comparison (gbn.c:69); the first node of a list is
used without a test (sr.c:96). A protocol is correct when layer 5 at B gets
every message once, in order, when the sender never forgets what the receiver
does not have, and when the protocol never falls silent with work left.

### Software_Defined_Routing

One process per router, one thread each: a `select` loop over the
controller's TCP connections and a UDP socket.

| Part | State | Operations | Interaction |
|---|---|---|---|
| Routing tables, `table.c` | `Routing_table` (cost, next hop), `Routing_topology` (cost of links), all 16 bits wide | `init_routing_table`, `update_routing_table`, `update_topology_table`, `make_update_packet` | INIT and UPDATE come from the controller, vectors from the neighbours |
| Timeout list, `table.c` | `RT_head`: a node with a deadline for the router itself and for every neighbour | `initTimeOutList`, `update_neighbor_node`, `rotate_head`, `get_timer`, `enQueueByRecv` | its first node decides how long `select` waits |
| Main loop, `connection_manager.c`, `router_handler.c` | descriptors, `crashed` | send the table, give up a neighbour, receive a vector, run a command | ties the two together |
| Control connections, `control_handler.c`, `connection_manager.c` | `control_conn_list`, `master_list`, `head_fd`, `watch_list`, the router's own sockets | `new_control_conn`, `control_recv_hook`, `remove_control_conn`, `isControl` | requests of the controller, over TCP |
| Control messages, `control_header_lib.c`, `network_util.c`, `author.c`, `init.c`, `crash.c` | none | `recvALL` and `sendALL`, one response for each code | the one thread of the router waits in them |
| Data plane | none: a stub | | |

Hard: vectors of old costs are under way while links change; UPDATE reaches the
two ends of a link at different times; datagrams are lost; a neighbour is given
up and heard again; costs wrap at 65536; the order of the list depends on the
order of updates and timeouts; a request arrives in parts, and its controller
may go away between any two of them or stay and be silent; numbers of descriptors are used again;
nodes of the list of connections are freed while they are linked. The routers are correct when no table promises
less than some path costs, when tables converge, when a timer that is waited for
was set, when a silent neighbour is given up neither too late nor too early, and
when every request is answered once, in order, with `select` watching what is open.

### Text_Chat_Application

`src/shaoming_assignment1.c` is server and client in one file, each a `select`
loop over TCP sockets.

| Part | State | Operations | Interaction |
|---|---|---|---|
| Server | list of clients (address, port, login state, two counters), list of blocks, descriptors | accept, end of a connection, LOGIN, REFRESH, SEND, BROADCAST, BLOCK, UNBLOCK, LOGOUT, EXIT; LIST, STATISTICS, BLOCKED print | relays texts between the connections |
| Client | its socket, `login_success`, a copy of the list, its own blocks | the commands of the same names, receiving | changes its own lists first, then tells the server |
| `src/logger.c` | none | writes results | |

Hard: two messages arrive in one `recv`, and nothing ends a message; a
connection ends without a word or is reset while messages wait; a client logs in
again on a second socket; `malloc` and `memcpy` leave strings without an end.
The application is correct when its lists stay in order and agree with what the
clients asked for, when a text reaches its addressee once and with the right
sender and is counted once.

## 2. Modules

| Module | Models |
|---|---|
| `Simulator` | the emulator's services as a protocol sees them; time is abstracted, a timer may expire at any moment |
| `ABT`, `GBN`, `SR` | the three protocols, each EXTENDS `Simulator`; one action per event of the main loop that reaches the protocol |
| `Delivery` | abstract: what a reliable transport promises layer 5 |
| `EventList` | the emulator's main loop, event list and clock, with an arbitrary protocol above it |
| `Medium` | abstract: the first-in-first-out, lossy medium and one timer per entity, which the protocols take for granted |
| `TimeoutList` | one router's list of timers and the turns of its main loop, in time |
| `DistanceVector` | the routers together: tables, vectors under way, controller; without time |
| `DVNetwork` | small networks for TLC |
| `ControlConnections` | one router's descriptors, list of connections and turns of the main loop, with controllers that write in parts and go away |
| `ControlService` | abstract: what a controller may rely on |
| `Chat` | the chat server, its clients and the TCP connections between them |
| `ChatAddresses` | addresses of the chat's clients for TLC |
| `SimulatorProofs`, `ABTProofs`, `GBNProofs`, `SRProofs`, `DistanceVectorProofs`, `TimedListProofs`, `ControlConnectionsProofs`, `ChatProofs` | the proofs |

How they fit: `EventList` implements `Medium` (run EventList), and the operator
`tolayer3` of `Simulator` is what `Medium` allows: packets are appended, taken
from the front, or lost. `ABT`, `GBN` and `SR` each implement `Delivery`.
`DistanceVector` leaves open when a timer goes off; `TimeoutList` says when, and
`ControlConnections` (which implements `ControlService`) when a command of the
controller is carried out.
`Chat` stands alone.

### Correspondence

* `Simulator`. `toA` and `toB` are the FROM_LAYER3 events for A and B in list
  order, `timer` is whether a TIMER_INTERRUPT event for A is in the list.
  `tolayer3(medium, pkts)` is the set of media that a handler's calls of
  tolayer3 may leave: each packet lost, intact or corrupted. A corrupted packet
  is the value `Corrupt`: what the emulator corrupts (a first letter set to Z,
  a number set to 999999) always changes the sum, so `get_checksum` sees it.
  `tolayer5` compares with the message that is due and stops the process as the
  code does; 145 cannot occur and is not written out.
* `ABT`, `GBN`, `SR`. Variables have the names of the C globals. Every buffer is
  a function on the indices filled so far. An action is a whole handler, with
  its loops folded into one step (`SendWindow`, `A_slide`, `B_deliver`).
  A node of SR's list is named by its sequence number. NULL dereferences are
  steps that end the process (`exitcode = Segfault`).
* `EventList`. `evlist` is the doubly linked list. A handler is a sequence of
  calls between `NextEvent` and `Return`. `Float` rounds as the C `float` does
  above its exact integers, with 2^24 shrunk to `EXACT`.
* `TimeoutList`. `RT` is the list behind `RT_head`. One action is one turn of
  `main_loop`: what woke `select`, the handler, and `get_timer`, which computes
  the next deadline and writes into the first node while doing so. `lastSent`,
  `heardAt`, `woken` (for each neighbour, the early wake-ups since its last update)
  and `silence` are histories for the properties.
* `DistanceVector`. `table` and `topology` are the two arrays of every router,
  `listed` the neighbours in its timeout list, `heard` those whose timer runs.
  A vector is the costs of the sender's table. `Uint16` is the width of the cost
  field: the modulus is `INF + 1`, so that a small `INF` shows the same
  arithmetic. Comparisons are made on the sum before it is cut, as C does.
* `ControlConnections`. `at` is where the router's thread is: in `select`, in the
  loop over the descriptors, in a `recvALL` for a header or a payload, before the
  response, or at an end. A request is a stream of parts, two of a header and two
  of a payload (INIT and UPDATE). `Request` begins one, `Write` brings some more of
  its parts (`arrived`) whenever the controller likes, in the middle of a request
  too, and `recv` takes any number of the parts that have arrived and that it has
  room for; with none there the router waits in it. A controller may stay and never
  write the rest, and `Disconnect` cuts off what has not arrived. A connection is `open`, closed by the
  controller (`fin`), closed and answered with a reset since (`dead`), `reset`, or
  `gone`. Descriptors are numbers and the kernel gives the lowest that is free.
  `remove_control_conn` unlinks one node and frees all: `list` is then empty and
  `freed` says that freed nodes are still linked. What reading them, or freeing
  the unwritten pointer of `routing_table_response` (`FreesNothing`), comes to is
  a choice from `FreedMemory`: the node is still found, not found, or the process
  ends. `asked` and `polite` are histories for the properties.
* `Chat`. `L` and `Bs` are the server's lists, `server`, `L_head` and `B_head`
  the client's variables. `conn` has every connection with its two streams, the
  server's descriptor and what the server's TCP knows of the other end. `recv`
  takes any number of waiting messages of which the first is understood; what
  the rest does to it is in each handler (the port of LOGIN is no number, REFRESH
  and UNBLOCK are ignored, BLOCK names nobody, a text gets longer). Undefined
  behaviour is a choice: an address copied without its end may be `Nobody`'s
  (glibc puts the copy where an older, longer string was), `clientaddr_recv`
  after a failed `getpeername` is anybody's, the node of a BLOCK that is not
  filled is empty or the remains of a freed one, with any client's address and
  port. A client is named by its listening port; `Long` are the clients with the
  longer addresses. They matter to the buffers `str3` and `str4`, which are not
  cleared between the entries of the list of blocks: a shorter address written over
  a longer one is read with the end of that one (`ReadAs`), as nobody's address or,
  if it is the beginning of another client's, as the other client's. `Overlaid`
  says which; it is a constant because it depends on the addresses alone. Addresses
  of two lengths are modelled, and what lies behind a copy without its end is taken
  not to complete another client's address. `sent` and `rcv` are the counters of
  STATISTICS; SEND and BROADCAST count by a copy of the address without its end,
  which may be nobody's. `Counted` are the clients whose counters are followed,
  all of them in the code: no action reads a counter, so leaving some at 0 changes
  nothing else. The model ends when the server does.

## 3. Runs

| Run | Instance | Checks |
|---|---|---|
| ABT | 4 messages, 3 packets each way | delivery, no silence, head against receiver, liveness |
| GBN | 4 messages, window 3, 2 packets each way | the same, the inductive invariant, `head` never moves back, nothing held back |
| SR | 4 messages, window 2, 2 packets each way | the list covers every packet that waits, B ignores none of them, the timer runs while the list is not empty, delivery, liveness |
| EventList | 3 messages, 4 packets, time to 12, a clock that is exact that far | order of time, no reordering, implements `Medium` |
| TimeoutList | 3 neighbours, interval of 2 seconds of 2 ticks, 4 early wake-ups | the head has a deadline, the table is sent in every interval, a silent neighbour goes after three and how much earlier it may, one node each |
| DVDynamic | line, a link becomes dearer, the end crashes or seems to, INF = 10 | `SumsFit` (no sum of a route between routers that stay is cut), `FirstLinkIntact`, `Converges` (between all while nothing crashes) |
| DVCounting | triangle with a tail, the far link becomes dearer, an old vector waits in front of a new one, routes counted to 9 | `NeverBelow`, `OnlyImproves` (until the link changes) |
| Chat | 2 clients, 2 connections, 2 commands, one client's counters | order of the lists, faithful relaying, texts counted once |
| ControlConnections | 2 connections, 2 requests (INIT, ROUTING-TABLE, CRASH) written in any portions, any state of freed memory | `select` watches what is open, no unknown socket until nodes were freed, no endless `recvALL` with polite controllers, implements `ControlService`; `Answered`, of controllers that complete what they have begun as long as they stay |
| SRCrash | 2 messages, window 2 | violated: `NoCrash` |
| DVPhantom | line, the end crashes | violated: `FirstLink` |
| ControlCut | 1 connection, 1 request | violated: `AlwaysReady` |

The type invariants of SR, EventList, TimeoutList, DistanceVector, Chat and
ControlConnections hold in these instances too, and so do the inductive
invariants of these modules and of ABT; they are theorems and none is in a run.
(SR's was also tried with windows of 1 and 3.)

Bounds. Four messages are twice the alternation of the bit, more than a window
of GBN, and twice SR's window, so that A's window can lag a whole window behind
B's. Two or three packets each way are enough for a stale packet, a copy and a
new one together, and one timeout sends as many; a loss beyond the bound is the
same as a loss in the medium. The letters of messages repeat after 26, in the
code and the model. `MaxTime` of TimeoutList is four intervals, one more than a
removal needs, and the start of the clock is any fraction of a second; three
neighbours are one that is heard, one that is late and one that was never heard.
`NotTooEarly` counts the wake-ups of the silence it judges and no earlier ones, so
that with four of them it still tells one second from two.

In DVDynamic `INF = 10` puts the wrap within reach of a few vectors. Its routes
between the routers that stay lead over one link, so the two properties that are
about changes of the next hop have a network of their own, DVCounting, with
`INF = 65535`. Router 1 reaches 4 by 2, and 2 first over its own dear link (6) and
then by 3 (2), so next hops change, and become cheaper behind 1's back, while an old
vector of 3 waits in front of a newer one: that is what `OnlyImproves` is about. Then
the link between 3 and 4 becomes dearer, for 3 and for 4 at different times: 3 takes
2 for its next hop while 2 still follows 3, and they count up behind each other's old
vectors, each followed by 1, until a vector of 4 brings 2 back to its own link.
`Counted` ends a behaviour in which a route exceeds 9: the true costs are at most 8
then, so the routers count past them and return. (With 10 in place of 9 the run
takes twice as long and shows nothing else.) It also keeps the run far below `INF`,
that is within the hypothesis of the theorem about `NeverBelow`, `[]SumsFit`, and the
run says nothing of what follows a sum that is cut. Vectors from 3 to 2 have two places, those from 2 to 1
and 3 and from 4 to 2 and 3 one, the other directions none, which is the same as
a loss. Nobody crashes in DVCounting: where a router that stays follows one whose
next hop has crashed a sum is cut and `NeverBelow` fails, which is DVPhantom; that
it holds with crashes as long as no sum of a route between the others is cut is only
proved (`AboveLowest`).

Two connections of Chat are two clients or one that logs in twice, and two
commands besides LOGIN, LOGOUT and EXIT are two texts to be kept in order, or a
BLOCK and what it acts on; every connection starts with two messages that may be
joined, and may end at any point. LOGOUT and the end of a client are bounded by
the connections. The run follows the counters of one client, who may send, receive,
be listed twice or come back. A vector under way is superseded
by the next, so one or two per direction show the interleavings of old and new.
Two connections of ControlConnections are the
one that is served and the one whose node is freed or whose number is used
again, two requests are one on each or two on one, joined in the stream (the
safety properties were also checked with three); UPDATE has a payload like
INIT's and is left to the proofs. CHECK_DEADLOCK is off where the program really ends: no more messages, or the
bound of the clock.

Fairness. *Transport*: the main loop takes every event in the list, so arrivals
are weakly fair; a timeout is only required to succeed as often as it is
possible (strong fairness of the transmission that gets through, on both ways):
`lossprob` and `corruptprob` below 1 give that with probability one. Layer 5
owes nobody a message, so A_output is not fair. *Routing*: control messages
arrive (TCP), the socket of a running router is read, a table is sent in every
interval (`SendsInTime`) and not all datagrams of a link are lost, a crashed
neighbour is given up (`RemovesInTime`). CRASH is not fair. *Control
connections*: the router's one thread runs (weak fairness of `RouterNext`); the loop
serves every ready descriptor in each turn. `Answered` needs one thing more, which
`FairSpec` assumes of the controllers and nothing in the code enforces: each of them,
as long as it stays, goes on to write the requests it has begun. Without that
(`StallSpec`) one silent controller starves all others: see the deviations.

### What the violations show

* **SRCrash**, sr.c:96. A packet is sent again before its acknowledgement comes,
  B acknowledges both copies, and the second acknowledgement finds no list. The
  program dies with SIGSEGV; it needs no loss or corruption, only a queue of
  packets long enough for a round trip to exceed the timer of 100
  (many arrivals at short intervals and a wide window).
* **DVPhantom**, table.c:260. 65535 plus the cost of a link is stored in 16 bits.
  After a crash the neighbour of the crashed router offers 65535 and its
  neighbours store the cost of their link less one.
* **ControlCut**, network_util.c:48. The controller closes in the middle of a
  request: the second `recv` returns 0 and the loop of `recvALL` never ends; timers
  and all other connections wait with it. A controller that resets the connection
  before its answer ends the router by SIGPIPE (network_util.c:32). Section 6.3 of
  Assignment3_Description.pdf lets the controller go "any time" and wants the
  router "always ready".

### Known deviations without a run

Seen with these models (add the formula to the module and check it):

* simulator.c:362 and 512, EventList. Where the float clock has lost its last digit,
  `lastime + 1` may be `lastime`, and `insertevent` puts the later packet ahead of the
  earlier one, though simulator.c:504 says "medium can not reorder": `CannotReorder`
  is violated, and `Chronological` is not, with `EXACT = 32`, `Horizon = 34`,
  `ARRIVALS = {0, 15}`, `DELAYS = {0, 3}`, `INCREMENTS = {0, 7}`, `MaxPackets = 2`. A
  `float` rounds above 2^24, which a run of 1000 messages reaches with a mean time
  between them (`-t`) of some 17000.
* network_util.c:49, ControlConnections. One controller has written half a header
  and is silent; `recv` waits for the rest, and the request of another one, which
  has arrived as a whole, is not read; timers and updates wait too. Under
  `StallSpec`, for each k,
  `(Owed(k) /\ arrived[k] = Len(conn[k].up)) ~> ~Owed(k)` is violated with two
  connections, although section 6.3 of Assignment3_Description.pdf wants the
  router to "listen for control messages" always.
* control_handler.c:105, ControlConnections. One of two controllers leaves,
  `remove_control_conn` frees both nodes, and the next request of the other ends the
  router with "Unknown socket index" (connection_manager.c:129):
  `at # "unknown socket"` is violated with two connections and
  `FreedMemory = {"missing"}`. When the freed node can still be read nothing happens,
  and when it cannot the router crashes. ControlCut, with one connection, has none
  of this.
* shaoming_assignment1.c:1542, Chat. `Sblock_delete` moves `p` on but not `q`, so
  `q->bs_next = p->bs_next` makes the rest of the list the whole list: with the
  entry, all before it are gone. Two clients with a block each suffice: the one
  whose entry comes second unblocks, and the other's block is lost at the server
  while its own list still has it.
* table.c:182 leaves the next hop of a route whose cost became INF, while the
  assignment wants INF for both (ROUTING-TABLE response) and table.c:134 does it.
* table.c:528 borrows the second for a fraction of a second from the node's own
  deadline, where it stays taken: each event that wakes `select` early may bring
  the removal of a neighbour one second forward, so that it comes before the
  "three consecutive update intervals" of table.c:657. `NotTooEarly` says that it
  is never more than that, counting the events since the neighbour's last update.
* table.c:256 compares entry i of the table while j searches, so an entry of a
  vector is used only if both routers list the router at the same place, while
  Assignment3_Description.pdf, section 6.2, says "routers can be listed in any
  order inside the packet". The model's routers have the controller's one order.
* table.c:58 frees a pointer that was never written when ROUTING-TABLE comes before
  INIT.
* control_handler.c:175, 188: INIT and UPDATE are answered before they are carried
  out, so the answer says nothing about their success; INIT for more than five
  routers is answered with success, and `init_list` runs over a table that was not
  filled (179).
* router_handler.c:111 ignores that the sender was removed from the list; a late
  vector gives the routes through it a cost again, INF plus something cut to 16 bits.
* table.c:186 and 212: an UPDATE with INF sets all routes through the link to INF,
  whatever is behind it; when another UPDATE gives the link a cost c again, the
  difference is taken from INF and all of them, near and far, get the cost c. On a
  line 1–2–3 with costs 3 and 2, UPDATEs of 1–2 to INF and back to 3 leave router
  1 with cost 3 to router 3 until the next vector of 2: with these as UPDATES
  `NeverBelow` and `FirstLinkIntact` are violated, and so is `SumsFit`, which asks
  that no UPDATE comes for a link without cost. No run has an UPDATE with INF, and
  the theorems about changing networks exclude what follows one by `[]SumsFit`.
* The cost of a crashed router is counted up, wraps and is counted up again, so
  it never stays at INF. The same happens without a crash when an UPDATE makes the
  only link to a router INF or nearly so.
* sr.c:126 and 129 put the same packet into an empty list twice; one node
  outlives the acknowledgement and is sent once more for every turn of the timer,
  until a late acknowledgement takes it out. `RetransmissionCovers` and
  `NeverIgnored` show that no packet is lost through it.
* shaoming_assignment1.c, in `Chat`: a client that disconnects without a word, or
  whose LOGOUT is joined to another message, stays logged in (350); after a second
  LOGIN the LOGOUT of the first socket may be handled last and hide a client that
  is there (389); a client's own BROADCAST reaches its other socket (426), and
  blocks are not asked for (404); a second send to a client that has gone ends the
  server (427, 459); a message that waits in a reset connection is relayed in
  another client's name (357); a shorter address behind a longer one is not found
  among the blocks (1506), or is taken for the longer one: behind an entry with
  10.0.0.12, one with 10.0.0.1 blocks the texts of 10.0.0.12.

## 4. Proofs

All for any value of the constants that the named assumptions allow: any number
of messages, letters, window size (at least 1), capacity of the medium; any
network, costs and width of the cost; any neighbours and interval; any number of
connections and requests; any number of chat clients, connections and commands.

* **ABTProofs**: `Invariance` (IInv is inductive), and from it `TypeCorrect`,
  `HeadTracks`, `Covered` (an empty event list means that all is delivered and
  acknowledged) and `Refinement` (ABT implements `Delivery`). The safety
  properties are not inductive: whether an acknowledgement with the right bit is
  of the packet in flight depends on what else is under way. IInv says that bits
  are parities of `head` (SenderInv), that the receiver is at `head` or one ahead
  (ReceiverInv), and that in each direction packets of the former bit come before
  those of the current bit and none of them is left when the other side has moved
  (DataInv, AckInv). This rests on the medium being first-in-first-out.
* **GBNProofs**: `Invariance`, `TypeCorrect`, `HeadTracks`, `WorkConserving`,
  `Monotone`, `Covered`, `Refinement`. The heart is AckInv: the acknowledgements
  under way are in increasing order, between `head - 1` and `expectedseqnum - 1`.
  That is why the unguarded assignment of gbn.c:69 is right, with acknowledgement
  -1 as the lower end, and it too needs the order of the medium.
* **SRProofs**: `Invariance`, `TypeCorrect`, `NothingLost`, `Answered`,
  `Retransmitted`, `OneTimerIsEnough`, `Covered`, `Refinement`; all of them until
  A dereferences the first node of an empty list (run SRCrash), which ends the
  process but breaks none of them. IInv relates three sets that
  drift apart: what A has sent, what B has stored and what A takes for received.
  The window starts at the first packet that is not known to be received
  (SenderInv), B's at the first it has not stored (ReceiverInv), what is under way
  is from A's buffer (DataInv) or acknowledges what B has stored (AckInv), and the
  list has every packet A waits for (RetransmissionCovers). No order of the medium
  is needed: selective repeat would be as right over one that reorders. The two
  loops that slide a window over what is already there stop at the first gap, which
  needs induction: `Induction` and `LeastNumber` state it over a set of numbers,
  which follows from the well-foundedness of strict inclusion among finite sets.
* **SimulatorProofs**: the lemmas about `tolayer3` and `tolayer5` that these cite
  (a handler's packets appear behind the old ones, in order, each intact or
  corrupted; a payload that is due is accepted).
* **DistanceVectorProofs** has three parts.
  * `Invariance` and `TypeCorrect` hold with crashes, updates and costs that wrap.
    For a network as INIT made it (`Quiet`) there are `TablesImprove`, `NoUndercut`
    and `QuietFits` (no sum is cut). That a table only improves is
    not inductive, because an entry follows its next hop without comparison: IInv
    adds that vectors under way are in decreasing order down to the sender's table
    (Improving), and that a route through v costs the link plus no less than
    anything v has said or will say (Behind). `NeverCheaper` says that in such a
    network no table and no vector is below any underestimate f of the costs
    (f[x][y] at most the link to v plus f[v][y]).
  * `GreatestUnderestimate`: `CheapestWalks`, the recursive function behind
    `Lowest` and `Distance`, is the greatest of these; with it
    `NeverCheaperThanWalks`. That the function is what its equation says is an
    induction over a set of numbers (`LinkByLinkExists`, `CheapestWalksEquation`;
    `Induction` and `LeastNumber` as in SRProofs). That as many links as there are
    routers are enough is `WalksSettle`: with each further link, among the routers
    whose cost may still fall the one with the lowest is settled, because a walk
    that leads through a settled router could have been had before; so after n
    links at least n routers are settled.
  * Networks that change: `AboveLowest` (`NeverBelow`) and `IntactFirstLink`
    (`FirstLinkIntact`), for any network, UPDATEs, crashes, losses and wrong
    suspicions. Neither is inductive. Grounded adds to the first that the vectors
    under way and the links are not below their lowest either, and that a route
    through v is at least the cost of the link now plus the lowest v may have, which
    is what is left when the link becomes cheaper; the second needs `FirstLink` for
    as long as no router was lost (Unbroken), also while some have not started. Both have the
    hypothesis `[]SumsFit`: the sums that a vector is about to make fit into two
    bytes, unless they are of routes to a router that may crash in a network where
    one was lost, and no UPDATE is about to count from INF. Both properties are
    false without it (see the deviations above, and DVPhantom), and it does not
    follow from the constants: two routers count each other's cost up for as long
    as the datagrams with the true one are lost. DVDynamic checks that it holds
    there although routes to the crashed router do wrap, and `QuietFits` proves its
    part about vectors for every network before anything changes.
* **TimedListProofs** is about both lists that are kept in order of time: a
  router's timers and the emulator's events. The lemmas on insertion and removal
  serve the two, so the module EXTENDS both, which share no name.
  * The timers: `Invariance`, `TypeCorrect`, `DeadlineKnown`, `PeriodicUpdates`,
    `SilentRemoved`, `NoHaste`, `OneTimerEach`. IInv says that the list is parted
    into nodes with and without a deadline, the router's own among the former
    (Parted), that those deadlines are in order and at most an interval away
    (Sorted), that none of them, nor the one `select` waits for, is later than the
    promise (InTime), and that none is earlier than that by more than a second for
    each event that woke `select` since the neighbour's last update (NotEarly). The
    first node may be one second
    further ahead: `get_timer` has taken it already, and `select` still waits for
    the old time. `enQueueByRecv` keeps the order only because the new deadline is
    the farthest.
  * The events: `EventInvariance`, `EventTypes`, `ClockForward` (`Chronological`),
    `NoReordering`
    (`CannotReorder`) and `MediumRefined` (EventList implements `Medium`). That the
    clock never runs backwards needs ClockHolds: `time` and the times in the list
    are numbers the float can hold, so that adding to one of them and rounding
    never falls below it. OneTimer is what lets `stoptimer` end its search at the
    first timer. The last two have the hypothesis
    `Horizon + 10 * MaxPackets <= EXACT`: each packet arrives at most 10 after the
    one before it could, so no arrival is rounded and two packets to one entity
    never have the same time. Beyond `EXACT` they may, and `insertevent` then puts
    the later one ahead; there both properties are false, while `ClockForward`
    holds. In the emulator, with 2^24 and at most 1000 messages, it depends on the mean
  time between messages (`-t`): usual ones leave room.
    For the refinement, what is under way to an entity is the list of its packets'
    places in increasing order (`InOrder`), which exists for every finite set of
    places (`Listable`) and is the only one (`SortedIs`).
* **ControlConnectionsProofs**: `Invariance`, `TypeCorrect`, `WatchesOpen`,
  `KnowsOpen`, `ServesPolite` and `KeepsPromises` (ControlConnections implements
  `ControlService`). IInv adds that a number names one descriptor (Distinct), that
  what waits in `watch_list` is open and is not what is being served (InTurn),
  that what has arrived is the front of what is under way, and all of it when the
  controller has gone (Arrivals), that the parts under way continue exactly where
  `recvALL` has got to (Stream),
  that the answers are those of the first requests (InOrder), and that a polite
  controller leaves nothing behind (Settled). `due` of `ControlService` is, after
  CRASH, who is still in the turn that was under way.

* **ChatProofs**: `Invariance`, `TypeCorrect`, `Sorted` (the order of the lists,
  which is nearly inductive), `Faithful` and `CountedRight`. IInv adds that a client reads a connection of its own (Reads),
  that the texts on a connection are numbered in the order of typing and no number
  is under way twice (Numbered), and that a text that was relayed is older than
  what its connection still holds (Relayed): only with that is the next text
  behind it. That the counters never exceed the commands typed less the texts under
  way (an upper bound: commands that are not texts leave it slack) is shown without
  computing a sum: the sent counters are a set of pairs, entries and counts, that
  grows by at most one pair when the server handles a text and the set of texts
  under way loses a number (`CountsOne`, `CountsStay`). An entry that is removed takes
  its pairs with it; one that is inserted has none.

Only model-checked: `SumsFit`, which is a hypothesis of two theorems and false for
some constants (an UPDATE that makes a link so dear that the routers on either side
count up past INF), and liveness (`EventuallyAcknowledged`, `EventuallyDelivered`,
`Converges`, `Answered`), which needs fairness and ENABLED. Induction here is always
over a set of numbers and comes from `LeastNumber`; it is enough for positions in
lists and for a function defined by recursion on a number.

## 5. Not modelled

Statistics and traces of the emulator; buffers of 1000 entries (a longer run is
outside what the emulator was written for); uninitialised payloads of
acknowledgements (nobody reads them); the layout of control messages, routing
updates and texts; errors of `socket`, `bind`, `accept` and `select`; routers that
are named in another order to different routers, or senders that are in nobody's
table; INIT twice or for more than five routers; the data plane, which is a stub
(its socket is never created and its handler is commented out); the chat logger,
which keeps no state; of the chat, the commands that only print, two clients with
the same port, lists longer than a buffer of 256 bytes, and what clients do
without a server.

## 6. Plan

Done: the emulator and its medium, the three protocols, the timeout list, the
routers, the control connections, the chat; each with its inductive invariant, the
safety properties of its run and, where there is an abstract specification, the
refinement as theorems; of the routers also that the cheapest walks are what their
definition promises, and the soundness of routes in networks that change. Left:

1. A hypothesis on the constants under which `SumsFit` holds: it needs a bound on
   how many updates of one link are lost in a row, which DistanceVector leaves
   open (TimeoutList has it).
2. Liveness, if a prover for ENABLED becomes available.
