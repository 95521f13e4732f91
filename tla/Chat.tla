-------------------------------- MODULE Chat --------------------------------
(***************************************************************************)
(* The chat server and its clients                                         *)
(* (Text_Chat_Application/src/shaoming_assignment1.c).  Server and client  *)
(* are select loops over TCP sockets; an action is one command at a        *)
(* client's keyboard or one socket the server or a client serves.          *)
(*                                                                         *)
(* TCP is a stream: a recv takes one or more messages that were sent, and  *)
(* since none of them has an end mark only the first is understood, with   *)
(* the rest attached to its last word.  A client is named by the port it   *)
(* listens on, which stands for its address too.                           *)
(***************************************************************************)
EXTENDS Naturals, Sequences, SequencesExt, FiniteSets

CONSTANTS
    Client,      \* listening ports of the clients
    Long,        \* the clients whose address is written with one character more
    Overlaid,    \* how an address reads that is written over a longer one
    Counted,     \* the clients whose counters are followed; others keep 0
    MaxConns,    \* bound: connections ever made
    MaxCommands  \* bound: commands typed, not counting LOGIN, LOGOUT and EXIT

ASSUME ChatAssumption ==
    /\ Client \subseteq Nat \ {0} /\ IsFiniteSet(Client) /\ Client # {}
    /\ Long \subseteq Client /\ Counted \subseteq Client
    /\ Overlaid \in [Long -> [Client \ Long -> Long \cup {0}]]
    /\ MaxConns \in Nat /\ MaxCommands \in Nat

\* An address that is nobody's: unterminated or never written.
Nobody == 0

\* s2i of a word that is not a number: UINT_MAX.
BadPort == Max(Client) + 1

VARIABLES
    serving,  \* the server process is alive
    L,        \* server: L_head, the clients it knows, in list order
    Bs,       \* server: Bs_head, who blocks whom, in list order
    conn,     \* the connections, in the order they were made
    server,   \* client: the connection it reads, 0 when login_success is 0
    L_head,   \* client: the clients of its copy of the list
    B_head,   \* client: the clients it blocks
    spent     \* commands typed so far

serverVars == <<serving, L, Bs>>
clientVars == <<server, L_head, B_head, spent>>
vars == <<serverVars, conn, clientVars>>

\* A message to the server.  A text is identified by its number.
Message(cmd, des, nr) == [cmd |-> cmd, des |-> des, nr |-> nr]

\* A connection: the client that made it, what the server's TCP knows of the
\* client's end ("open", closed in order, or reset), the server's descriptor,
\* and the two streams.
NewConnection(c) ==
    [peer |-> c, tcp |-> "open", fd |-> "backlog", down |-> <<>>,
     up |-> <<Message("LOGIN", Nobody, 0), Message("REFRESH", Nobody, 0)>>]

Conns == DOMAIN conn

\* getpeername succeeds.
Named(k) == conn[k].tcp # "reset"

-----------------------------------------------------------------------------
(* The lists of the server *)

\* Faulty variant: one node too far.
InsertByPort_Late(s, e) ==
    LET i == Min({ j \in 1 .. Len(s) + 1 : j <= Len(s) => s[j].port >= e.port })
    IN  InsertAt(s, IF i <= Len(s) THEN i + 1 ELSE i, e)

\* Client_insert, Sblock_insert: before the first port that is not smaller.
InsertByPort(s, e) ==
    InsertAt(s, Min({ j \in 1 .. Len(s) + 1 : j <= Len(s) => s[j].port >= e.port }), e)

\* The entries of L with the address of c, and the first of them.
Entries(c) == { i \in DOMAIN L : L[i].ip = c }

First(c) == Min(Entries(c))

\* What str3 or str4 holds at the i-th of the addresses a.  It is not cleared
\* between entries: a shorter address keeps the end of the last longer one, and
\* may read as the address of another client.
ReadAs(a, i) ==
    LET longer == { j \in 1 .. i - 1 : a[j] \in Long } IN
    IF a[i] \in Client \ Long /\ longer # {} THEN Overlaid[a[Max(longer)]][a[i]] ELSE a[i]

\* The entries that Sblock_location and Sblock_delete take for src and des.
Matches(src, des) ==
    { i \in DOMAIN Bs :
        /\ {src, des} \subseteq Client
        /\ ReadAs([j \in DOMAIN Bs |-> Bs[j].src], i) = src
        /\ ReadAs([j \in DOMAIN Bs |-> Bs[j].des], i) = des }

\* Sblock_initiate.  When des is not in the list the entry keeps what malloc
\* returned: nothing, or the remains of an entry that was freed.
BlockEntries(src, des) ==
    IF Entries(des) # {}
    THEN { [src |-> src, des |-> des, port |-> L[First(des)].port] }
    ELSE [src : {src}, des : Client \cup {Nobody}, port : Client \cup {Nobody, BadPort}]

\* num_msg_sent, or the other counter, of the entries in I goes up by one.
CountUp(s, I, counter) ==
    [i \in DOMAIN s |-> IF i \in I /\ s[i].ip \in Counted THEN [s[i] EXCEPT ![counter] = @ + 1] ELSE s[i]]

\* Faulty variant: the search goes on behind the entry that was found.
Client_set_send_All(c) == CountUp(L, Entries(c), "sent")

\* STATISTICS: a text was sent by c.
Client_set_send(c) == CountUp(L, { i \in Entries(c) : i = First(c) }, "sent")

\* A text for c, with the list as Client_set_send left it.
Client_set_recv(s, c) == CountUp(s, { i \in Entries(c) : i = First(c) }, "rcv")

\* A text for everyone who is listed, connected or not, except c.
Client_set_recv_b(s, c) == CountUp(s, DOMAIN s \ Entries(c), "rcv")

-----------------------------------------------------------------------------
(* The clients *)

\* The connections in ks are closed by the client, in the state cs.  Where data
\* is unread TCP resets, and only the first n messages are transmitted.
Close(cs, ks) ==
    LET unread == { k \in ks : cs[k].down # <<>> } IN
    \E n \in [unread -> 0 .. Max({0} \cup { Len(cs[k].up) : k \in unread })] :
        /\ \A k \in unread : n[k] <= Len(cs[k].up)
        /\ conn' = [k \in DOMAIN cs |->
               CASE k \in unread -> [cs[k] EXCEPT !.tcp = "reset", !.up = SubSeq(@, 1, n[k]), !.down = <<>>]
                 [] k \in ks \ unread -> [cs[k] EXCEPT !.tcp = "fin"]
                 [] OTHER -> cs[k]]

Held(c) == { k \in Conns : conn[k].peer = c /\ conn[k].tcp = "open" }

LoggedIn(c) == server[c] # 0

\* send(server, m): the state of the connections afterwards.
Sent(c, m) == [conn EXCEPT ![server[c]].up = Append(@, m)]

\* LOGIN, also by a client that is logged in: the old socket stays open and
\* nobody reads it again.  The model ends with the server.
LOGIN(c) ==
    /\ serving /\ Len(conn) < MaxConns
    /\ conn' = Append(conn, NewConnection(c))
    /\ server' = [server EXCEPT ![c] = Len(conn) + 1]
    /\ UNCHANGED <<serverVars, L_head, B_head, spent>>

Type(c, cmd, des) ==
    /\ spent < MaxCommands /\ serving /\ LoggedIn(c)
    /\ spent' = spent + 1
    /\ conn' = Sent(c, Message(cmd, des, IF cmd \in {"SEND", "BROADCAST"} THEN spent' ELSE 0))
    /\ UNCHANGED <<serverVars, server, L_head>>

REFRESH(c) == Type(c, "REFRESH", Nobody) /\ UNCHANGED B_head

SEND(c, d) == Type(c, "SEND", d) /\ UNCHANGED B_head

BROADCAST(c) == Type(c, "BROADCAST", Nobody) /\ UNCHANGED B_head

BLOCK(c, d) ==
    /\ d \notin B_head[c]
    /\ Type(c, "BLOCK", d)
    /\ B_head' = [B_head EXCEPT ![c] = @ \cup {d}]

UNBLOCK(c, d) ==
    /\ d \in B_head[c]
    /\ Type(c, "UNBLOCK", d)
    /\ B_head' = [B_head EXCEPT ![c] = @ \ {d}]

\* LOGOUT closes the socket that is read and no other.
LOGOUT(c) ==
    /\ serving /\ LoggedIn(c)
    /\ Close(Sent(c, Message("LOGOUT", Nobody, 0)), {server[c]})
    /\ server' = [server EXCEPT ![c] = 0]
    /\ UNCHANGED <<serverVars, L_head, B_head, spent>>

\* EXIT, or the process ends without a word (killed, or its input ends).  The
\* program may be started again at once, with the lists it starts with; for one
\* that has just been started nothing changes.
Quit(c) ==
    /\ serving
    /\ LET held == Held(c) IN
       \/ LoggedIn(c) /\ Close(Sent(c, Message("EXIT", Nobody, 0)), held)
       \/ held # {} /\ Close(conn, held)
       \/ held = {} /\ <<L_head[c], B_head[c]>> # <<{c}, {}>> /\ UNCHANGED conn
    /\ server' = [server EXCEPT ![c] = 0]
    /\ L_head' = [L_head EXCEPT ![c] = {c}]
    /\ B_head' = [B_head EXCEPT ![c] = {}]
    /\ UNCHANGED <<serverVars, spent>>

\* A client reads: a text is shown, a list replaces its own.
ClientRecv(c) ==
    /\ serving /\ LoggedIn(c)
    /\ LET k == server[c]
           m == Head(conn[k].down)
       IN  \E n \in 1 .. Len(conn[k].down) :
             /\ conn' = [conn EXCEPT ![k].down = SubSeq(@, n + 1, Len(@))]
             /\ L_head' = [L_head EXCEPT ![c] = IF m.cmd = "REFRESH" THEN m.list ELSE @]
    /\ UNCHANGED <<serverVars, server, B_head, spent>>

-----------------------------------------------------------------------------
(* The server *)

Accept(k) ==
    /\ serving /\ conn[k].fd = "backlog"
    /\ \A j \in 1 .. k - 1 : conn[j].fd # "backlog"
    /\ conn' = [conn EXCEPT ![k].fd = "open"]
    /\ UNCHANGED <<serverVars, clientVars>>

\* recv returns 0 or an error.
Ended(k) == conn[k].fd = "open" /\ conn[k].up = <<>> /\ conn[k].tcp # "open"

\* The descriptor is closed; the client stays logged in.
HangUp(k) ==
    /\ serving /\ Ended(k)
    /\ conn' = [conn EXCEPT ![k].fd = "closed"]
    /\ UNCHANGED <<serverVars, clientVars>>

\* recv has taken the first n messages of connection k.
Rest(k, n) == [conn EXCEPT ![k].up = SubSeq(@, n + 1, Len(@))]

\* m is sent to the connections ks, in the state cs, and the list becomes l.  A
\* peer that has closed answers with a reset, soon or (those in late) later.
\* On a connection that is reset the send may fail once; then SIGPIPE ends the
\* server, and what else it did in that turn is not followed.
Relay(cs, ks, m, l) ==
    \/ /\ \E k \in ks : cs[k].tcp = "reset"
       /\ serving' = FALSE
       /\ UNCHANGED <<conn, L>>
    \/ /\ \E late \in SUBSET { k \in ks : cs[k].tcp = "fin" } :
             conn' = [k \in DOMAIN cs |->
                 CASE k \in ks /\ cs[k].tcp = "open" -> [cs[k] EXCEPT !.down = Append(@, m)]
                   [] k \in ks \ late /\ cs[k].tcp = "fin" -> [cs[k] EXCEPT !.tcp = "reset"]
                   [] OTHER -> cs[k]]
       /\ L' = l
       /\ UNCHANGED serving

\* A text on its way to a client: what it says of its sender, and what it is.
Text(k, m, from) == [cmd |-> m.cmd, from |-> from, via |-> k, des |-> m.des, nr |-> m.nr]

\* The address getpeername left in clientaddr_recv.
Source(k) == IF Named(k) THEN {conn[k].peer} ELSE Client \cup {Nobody}

HandleLOGIN(k, n, m) ==
    /\ m.cmd = "LOGIN"
    /\ LET c == conn[k].peer IN
       \/ /\ Entries(c) # {}
          /\ L' = [L EXCEPT ![First(c)].status = TRUE]
       \* Not in the list, or not found: str3 has no end.
       \/ L' = InsertByPort(L, [ip |-> c, port |-> IF n = 1 THEN c ELSE BadPort,
                               status |-> TRUE, sent |-> 0, rcv |-> 0])
    /\ conn' = Rest(k, n)
    /\ UNCHANGED <<serving, Bs, clientVars>>

\* With anything attached the word is not REFRESH and is ignored.
HandleREFRESH(k, n, m) ==
    /\ m.cmd = "REFRESH"
    /\ IF n = 1
       THEN Relay(Rest(k, n), {k},
                  [cmd |-> "REFRESH", list |-> { L[i].ip : i \in { j \in DOMAIN L : L[j].status } }], L)
       ELSE conn' = Rest(k, n) /\ UNCHANGED <<serving, L>>
    /\ UNCHANGED <<Bs, clientVars>>

Others(k) == { j \in Conns \ {k} : conn[j].fd = "open" }

\* BROADCAST goes to everyone; nobody's blocks are asked for.  The text has the
\* address itself, what is counted has the copy, which has no end.
HandleBROADCAST(k, n, m) ==
    /\ m.cmd = "BROADCAST"
    /\ \E from \in Source(k) : \E copy \in {from, Nobody} :
          Relay(Rest(k, n), Others(k), Text(k, m, from),
                Client_set_recv_b(Client_set_send(copy), copy))
    /\ UNCHANGED <<Bs, clientVars>>

\* Faulty variant: the addresses are not compared.
Addressed_All(k, d) == { Others(k) }

\* The connections SEND compares equal to d.  For those that are reset the
\* address of an earlier one is compared.
Addressed(k, d) ==
    { { j \in Others(k) : Named(j) /\ conn[j].peer = d } \cup stale :
        stale \in SUBSET { j \in Others(k) : ~Named(j) } }

\* The copy of the source address has no end and may name nobody.
HandleSEND(k, n, m) ==
    /\ m.cmd = "SEND"
    /\ \E from \in Source(k) \cup {Nobody} :
         IF Matches(m.des, from) = {}
         THEN \E ks \in Addressed(k, m.des) :
                 Relay(Rest(k, n), ks, Text(k, m, from), Client_set_recv(Client_set_send(from), m.des))
         ELSE /\ conn' = Rest(k, n) /\ UNCHANGED serving
              /\ L' = Client_set_send(from)
    /\ UNCHANGED <<Bs, clientVars>>

\* With anything attached no client has the address.
HandleBLOCK(k, n, m) ==
    /\ m.cmd = "BLOCK"
    /\ \E e \in BlockEntries(conn[k].peer, IF n = 1 THEN m.des ELSE Nobody) :
          Bs' = InsertByPort(Bs, e)
    /\ conn' = Rest(k, n)
    /\ UNCHANGED <<serving, L, clientVars>>

\* Sblock_delete does not advance q: the entries before the one that is found
\* are unlinked with it.
HandleUNBLOCK(k, n, m) ==
    /\ m.cmd = "UNBLOCK"
    /\ LET found == Matches(conn[k].peer, m.des) IN
       Bs' = IF n = 1 /\ found # {} THEN SubSeq(Bs, Min(found) + 1, Len(Bs)) ELSE Bs
    /\ conn' = Rest(k, n)
    /\ UNCHANGED <<serving, L, clientVars>>

HandleLOGOUT(k, n, m) ==
    /\ m.cmd = "LOGOUT"
    /\ LET c == conn[k].peer IN
       L' = IF Entries(c) # {} THEN [L EXCEPT ![First(c)].status = FALSE] ELSE L
    /\ conn' = Rest(k, n)
    /\ UNCHANGED <<serving, Bs, clientVars>>

\* The client's blocks stay.
HandleEXIT(k, n, m) ==
    /\ m.cmd = "EXIT"
    /\ LET c == conn[k].peer IN L' = IF Entries(c) # {} THEN RemoveAt(L, First(c)) ELSE L
    /\ conn' = Rest(k, n)
    /\ UNCHANGED <<serving, Bs, clientVars>>

-----------------------------------------------------------------------------
Init ==
    /\ serving = TRUE /\ L = <<>> /\ Bs = <<>>
    /\ conn = <<>>
    /\ server = [c \in Client |-> 0]
    /\ L_head = [c \in Client |-> {c}]
    /\ B_head = [c \in Client |-> {}]
    /\ spent = 0

ClientNext(c) ==
    \/ LOGIN(c) \/ REFRESH(c) \/ BROADCAST(c)
    \/ \E d \in L_head[c] : SEND(c, d) \/ BLOCK(c, d) \/ UNBLOCK(c, d)
    \/ LOGOUT(c) \/ Quit(c) \/ ClientRecv(c)

\* recv takes the first n messages, of which m is understood.
ServerRecv(k) ==
    /\ serving /\ conn[k].fd = "open"
    /\ \E n \in 1 .. Len(conn[k].up) :
         LET m == Head(conn[k].up) IN
         \/ HandleLOGIN(k, n, m) \/ HandleREFRESH(k, n, m)
         \/ HandleSEND(k, n, m) \/ HandleBROADCAST(k, n, m)
         \/ HandleBLOCK(k, n, m) \/ HandleUNBLOCK(k, n, m)
         \/ HandleLOGOUT(k, n, m) \/ HandleEXIT(k, n, m)

ServerNext(k) == Accept(k) \/ HangUp(k) \/ ServerRecv(k)

Next == (\E c \in Client : ClientNext(c)) \/ (\E k \in Conns : ServerNext(k))

Spec == Init /\ [][Next]_vars

-----------------------------------------------------------------------------
(* Properties *)

Command == {"LOGIN", "REFRESH", "SEND", "BROADCAST", "BLOCK", "UNBLOCK", "LOGOUT", "EXIT"}

\* What a client writes to the server, and what the server writes to a client.
Request == [cmd : Command, des : Client \cup {Nobody}, nr : 0 .. MaxCommands]

Answer ==
    [cmd : {"REFRESH"}, list : SUBSET Client] \cup
    [cmd : {"SEND", "BROADCAST"}, from : Client \cup {Nobody}, via : Nat,
     des : Client \cup {Nobody}, nr : 0 .. MaxCommands]

Connection ==
    [peer : Client, tcp : {"open", "fin", "reset"}, fd : {"backlog", "open", "closed"},
     down : Seq(Answer), up : Seq(Request)]

\* Every variable has its type.
TypeOK ==
    /\ serving \in BOOLEAN
    /\ L \in Seq([ip : Client, port : Client \cup {BadPort}, status : BOOLEAN, sent : Nat, rcv : Nat])
    /\ Bs \in Seq([src : Client, des : Client \cup {Nobody}, port : Client \cup {Nobody, BadPort}])
    /\ conn \in Seq(Connection)
    /\ server \in [Client -> 0 .. Len(conn)]
    /\ L_head \in [Client -> SUBSET Client]
    /\ B_head \in [Client -> SUBSET Client]
    /\ spent \in 0 .. MaxCommands

InOrder(s) == \A i \in 2 .. Len(s) : s[i - 1].port <= s[i].port

\* LIST and BLOCKED print in increasing order of ports, whatever was logged in,
\* blocked and removed before, ports and entries that were never set included
\* (Client_insert, Sblock_insert).
SortedByPort == InOrder(L) /\ InOrder(Bs)

\* What lies in a connection towards client c: a SEND is addressed to c; of two
\* texts of one connection the one typed first comes first, and none comes
\* twice; and the sender that is shown is the true one, or nobody, unless its
\* connection has been reset (the branches SEND and BROADCAST of the server).
RelayedFaithfully ==
    \A k \in Conns : \A i \in DOMAIN conn[k].down :
        LET t == conn[k].down[i] IN
        t.cmd # "REFRESH" =>
            /\ t.cmd = "SEND" => t.des = conn[k].peer
            /\ t.from \in {conn[t.via].peer, Nobody} \/ ~Named(t.via)
            /\ \A j \in 1 .. i - 1 :
                 LET u == conn[k].down[j] IN
                 u.cmd # "REFRESH" /\ u.via = t.via => u.nr < t.nr

\* The texts that the server has not handled, and those it has counted.
Pending ==
    { nr \in 1 .. spent : \E k \in Conns : \E i \in DOMAIN conn[k].up : conn[k].up[i].nr = nr }

Credits == UNION { { <<i, nr>> : nr \in 1 .. L[i].sent } : i \in DOMAIN L }

\* STATISTICS counts a text when the server handles it, and once: with those
\* that are still under way no more are sent than were typed, and no entry has
\* received more, though a client may be listed twice, be taken for another one
\* or be removed and come back (Client_set_send, _recv, _recv_b).  An upper
\* bound: the other commands typed leave it slack.
CountedOnce ==
    LET handled == spent - Cardinality(Pending) IN
    /\ Cardinality(Credits) <= handled
    /\ \A i \in DOMAIN L : L[i].rcv <= handled

-----------------------------------------------------------------------------
(* The inductive invariant *)

\* A client reads a connection of its own that it has not closed.
Reads ==
    \A c \in Client : LoggedIn(c) => conn[server[c]].peer = c /\ conn[server[c]].tcp = "open"

\* Texts and no other messages have a number; on their way to the server they
\* are in the order of their numbers, and none is on its way twice.
Numbered ==
    \A k \in Conns : \A i \in DOMAIN conn[k].up :
        LET m == conn[k].up[i] IN
        /\ m.nr <= spent
        /\ m.nr > 0 <=> m.cmd \in {"SEND", "BROADCAST"}
        /\ m.nr > 0 =>
              /\ \A j \in 1 .. i - 1 : conn[k].up[j].nr < m.nr
              /\ \A l \in Conns \ {k} : \A j \in DOMAIN conn[l].up : conn[l].up[j].nr # m.nr

\* A text that was relayed was typed before those that its connection still
\* holds for the server.
Relayed ==
    \A k \in Conns : \A i \in DOMAIN conn[k].down :
        LET t == conn[k].down[i] IN
        t.cmd # "REFRESH" =>
            /\ t.nr \in 1 .. spent /\ t.via \in Conns
            /\ \A j \in DOMAIN conn[t.via].up :
                 conn[t.via].up[j].nr > 0 => t.nr < conn[t.via].up[j].nr

IInv ==
    /\ TypeOK
    /\ Reads
    /\ Numbered
    /\ Relayed
    /\ SortedByPort
    /\ RelayedFaithfully
    /\ CountedOnce
=============================================================================
