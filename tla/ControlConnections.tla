-------------------------- MODULE ControlConnections --------------------------
(***************************************************************************)
(* The router's end of the controller's TCP connections: the descriptors   *)
(* that main_loop watches (connection_manager.c), the list of connections  *)
(* and the commands (control_handler.c), and the loops around recv and     *)
(* send (network_util.c), in which the whole router may wait.              *)
(*                                                                         *)
(* A request is a header of two parts and, for INIT and UPDATE, a payload  *)
(* of two parts; every part carries the code, the controller writes the    *)
(* parts in any portions and at its own pace, and recv takes any number of *)
(* those that have arrived and that it has room for.  Timers and datagrams *)
(* are the subject of TimeoutList and DistanceVector.                      *)
(***************************************************************************)
EXTENDS Naturals, Sequences, FiniteSets, Functions

CONSTANTS
    Commands,     \* the control codes the controller uses, from 0 .. 4
    FreedMemory,  \* what reading freed or unwritten memory may come to
    MaxConns,     \* bound: connections ever made
    MaxRequests   \* bound: requests ever begun

Code == 0 .. 4

INIT == 1
ROUTING_TABLE == 2
UPDATE == 3
CRASH == 4

ASSUME ControlAssumption ==
    /\ Commands \subseteq Code
    /\ FreedMemory \subseteq {"found", "missing", "unreadable"}
    /\ MaxConns \in Nat /\ MaxRequests \in Nat

VARIABLES
    at,             \* where the router is, or how it ended
    master_list,    \* the descriptors main_loop watches
    head_fd,        \* the highest of them it looks at
    watch_list,     \* those that were ready and are still to be served
    sock_index,     \* the one that is served
    bytes,          \* parts recvALL has received so far
    control_code,   \* of the request that is served
    list,           \* control_conn_list: the descriptors of its nodes
    freed,          \* the list also links nodes that have been freed
    router_socket, router_client_socket,  \* 0 until they are created
    RT_head,        \* the timeout list exists
    crashed,        \* CRASH was handled
    conn,           \* the connections, in the order they were made
    arrived,        \* of the parts conn[k].up, the first arrived[k] are written
    polite          \* history: no controller left before its last answer

socketVars == <<master_list, head_fd, list, freed, router_socket, router_client_socket>>
turnVars == <<watch_list, sock_index, bytes, control_code>>
vars == <<at, socketVars, turnVars, RT_head, crashed, conn, arrived, polite>>

\* The ends that CRASH does not explain: recvALL never returns, SIGPIPE,
\* ERROR("Unknown socket index"), and whatever freed memory leads to.
Dead == {"looping", "SIGPIPE", "unknown socket", "corrupt"}

Ended == Dead \cup {"exited"}

Conns == DOMAIN conn

Open == { k \in Conns : conn[k].fd # 0 }

\* The served connection.
Served == CHOOSE k \in Open : conn[k].fd = sock_index

-----------------------------------------------------------------------------
(* Descriptors and requests *)

\* After stdin, stdout and stderr.
control_socket == 3

Used == {0, 1, 2, control_socket, router_socket, router_client_socket}
            \cup { conn[k].fd : k \in Open }

\* The kernel's choice: the lowest number that is free.
Lowest(fd, used) == fd \notin used /\ 0 .. fd - 1 \subseteq used

Descriptor == 0 .. MaxConns + 6

HEADER == 2

PayloadLen(code) == IF code \in {INIT, UPDATE} THEN 2 ELSE 0

\* Request number nr of a connection, as it is written.  A receiver sees the
\* codes; number and place are there for the properties.
Parts(nr, code) ==
    [p \in 1 .. HEADER + PayloadLen(code) |-> [nr |-> nr, place |-> p, code |-> code]]

\* A descriptor that select reports: it has parts to read, or has ended.
Readable(k) == arrived[k] > 0 \/ conn[k].tcp # "open"

Backlog == { k \in Conns : conn[k].tcp # "gone" /\ conn[k].fd = 0 }

-----------------------------------------------------------------------------
(* The controller *)

Init ==
    /\ at = "select"
    /\ master_list = {control_socket} /\ head_fd = control_socket
    /\ watch_list = {} /\ sock_index = 0 /\ bytes = 0 /\ control_code = 0
    /\ list = {} /\ freed = FALSE
    /\ router_socket = 0 /\ router_client_socket = 0
    /\ RT_head = FALSE /\ crashed = FALSE
    /\ conn = <<>> /\ arrived = <<>>
    /\ polite = TRUE

Connect ==
    /\ at \notin Ended /\ Len(conn) < MaxConns
    /\ conn' = Append(conn, [tcp |-> "open", fd |-> 0, up |-> <<>>,
                             asked |-> <<>>, answers |-> <<>>])
    /\ arrived' = Append(arrived, 0)
    /\ UNCHANGED <<at, socketVars, turnVars, RT_head, crashed, polite>>

Begun == FoldFunction(LAMBDA c, n : Len(c.asked) + n, 0, conn)

\* The controller sets about another request: its parts are to be written.
Request(k) ==
    /\ at \notin Ended /\ Begun < MaxRequests
    /\ conn[k].tcp = "open"
    /\ \E code \in Commands :
          conn' = [conn EXCEPT ![k].asked = Append(@, code),
                               ![k].up = @ \o Parts(Len(conn[k].asked) + 1, code)]
    /\ UNCHANGED <<at, socketVars, turnVars, RT_head, crashed, arrived, polite>>

\* Some more of the parts arrive, be it in the middle of a request.
Write(k) ==
    /\ at \notin Ended
    /\ conn[k].tcp = "open"
    /\ \E n \in arrived[k] + 1 .. Len(conn[k].up) : arrived' = [arrived EXCEPT ![k] = n]
    /\ UNCHANGED <<at, socketVars, turnVars, RT_head, crashed, conn, polite>>

\* The controller closes its end or is killed, at any time (Assignment 3,
\* section 6.3), also within a request: what it has not written never comes,
\* nor does what a reset overtakes.
Disconnect(k) ==
    /\ at \notin Ended
    /\ conn[k].tcp = "open"
    /\ \E tcp \in {"fin", "reset"}, n \in 0 .. Len(conn[k].up) :
          /\ n <= arrived[k] /\ (tcp = "fin" => n = arrived[k])
          /\ conn' = [conn EXCEPT ![k].tcp = tcp, ![k].up = SubSeq(@, 1, n)]
          /\ arrived' = [arrived EXCEPT ![k] = n]
          /\ polite' = (polite /\ tcp = "fin" /\ conn[k].answers = conn[k].asked)
    /\ UNCHANGED <<at, socketVars, turnVars, RT_head, crashed>>

-----------------------------------------------------------------------------
(* Turns of main_loop *)

\* select returns.
Select ==
    /\ at = "select"
    /\ watch_list' = { fd \in master_list : fd <= head_fd /\
           \/ fd = control_socket /\ Backlog # {}
           \/ \E k \in Open : conn[k].fd = fd /\ Readable(k) }
    /\ watch_list' # {}
    /\ at' = "serving"
    /\ UNCHANGED <<socketVars, sock_index, bytes, control_code, RT_head, crashed, conn, arrived,
                   polite>>

\* The descriptors are served in increasing order.
Next_ready(fd) == fd \in watch_list /\ \A e \in watch_list : fd <= e

\* Faulty variant: the highest descriptor is not brought up to date.
Raised_Never(fd) == head_fd

Raised(fd) == IF fd > head_fd THEN fd ELSE head_fd

\* Faulty variant: the new node is not linked to the others.
Enlisted_Alone(fd) == {fd}

\* LIST_INSERT_HEAD.
Enlisted(fd) == list \cup {fd}

\* accept, new_control_conn.
Accept ==
    /\ at = "serving"
    /\ Next_ready(control_socket)
    /\ \E k \in Backlog, fd \in Descriptor :
          /\ \A j \in Backlog : k <= j
          /\ Lowest(fd, Used)
          /\ conn' = [conn EXCEPT ![k].fd = fd]
          /\ list' = Enlisted(fd)
          /\ master_list' = master_list \cup {fd}
          /\ head_fd' = Raised(fd)
    /\ watch_list' = watch_list \ {control_socket}
    /\ UNCHANGED <<at, freed, router_socket, router_client_socket, sock_index, bytes,
                   control_code, RT_head, crashed, arrived, polite>>

\* What isControl may come to.  New nodes are in front of the freed ones.
isControl(fd) ==
    IF fd \in list THEN {"found"}
    ELSE IF freed THEN FreedMemory
    ELSE {"missing"}

\* An existing connection: control_recv_hook begins to receive the header.
Serve ==
    /\ at = "serving"
    /\ \E fd \in watch_list \ {control_socket} :
          /\ Next_ready(fd)
          /\ sock_index' = fd
          /\ watch_list' = watch_list \ {fd}
          /\ \E outcome \in isControl(fd) :
                at' = CASE outcome = "found" -> "header"
                        [] outcome = "missing" -> "unknown socket"
                        [] outcome = "unreadable" -> "corrupt"
    /\ bytes' = 0
    /\ UNCHANGED <<socketVars, control_code, RT_head, crashed, conn, arrived, polite>>

\* The loop over the descriptors is done: the main loop ends after CRASH, and
\* after the first INIT it creates the router's sockets.
NextTurn ==
    /\ at = "serving" /\ watch_list = {}
    /\ at' = IF crashed THEN "exited" ELSE "select"
    /\ IF RT_head /\ router_socket = 0 /\ ~crashed
       THEN /\ \E fd, fd2 \in Descriptor :
                  /\ Lowest(fd, Used) /\ Lowest(fd2, Used \cup {fd})
                  /\ router_socket' = fd
                  /\ router_client_socket' = fd2
                  /\ master_list' = master_list \cup {fd}
                  /\ head_fd' = Raised(fd)
            /\ UNCHANGED <<list, freed>>
       ELSE UNCHANGED socketVars
    /\ UNCHANGED <<turnVars, RT_head, crashed, conn, arrived, polite>>

-----------------------------------------------------------------------------
(* control_recv_hook *)

\* Faulty variant: the header is taken to be a part shorter than it is.
Wanted_Short == IF at = "header" THEN HEADER - 1 ELSE PayloadLen(control_code)

\* The parts the call of recvALL is for.
Wanted == IF at = "header" THEN HEADER ELSE PayloadLen(control_code)

\* recv returns some of the parts that are there, and waits until there are
\* any: with it the router waits.  The last part completes the header or the
\* payload.
Receive ==
    /\ at \in {"header", "payload"}
    /\ LET k == Served IN
       \E n \in 1 .. arrived[k] :
          /\ bytes + n <= Wanted
          /\ conn' = [conn EXCEPT ![k].up = SubSeq(@, n + 1, Len(@))]
          /\ arrived' = [arrived EXCEPT ![k] = @ - n]
          /\ LET done == bytes + n = Wanted
                 code == IF done /\ at = "header" THEN conn[k].up[n].code ELSE control_code
             IN  /\ control_code' = code
                 /\ bytes' = IF done THEN 0 ELSE bytes + n
                 /\ at' = CASE ~done -> at
                            [] done /\ at = "header" /\ PayloadLen(code) # 0 -> "payload"
                            [] OTHER -> "respond"
    /\ UNCHANGED <<socketVars, watch_list, sock_index, RT_head, crashed, polite>>

\* Faulty variant: only an error ends the connection, not its end.
EndSeen_Error(k) == bytes = 0 /\ conn[k].tcp = "reset"

\* The end of the connection is seen if recv returns 0 before anything else.
EndSeen(k) == bytes = 0 /\ conn[k].tcp \in {"fin", "dead"}

\* Faulty variant: main_loop goes on watching the descriptor.
Forgotten_Watched(fd) == master_list

\* FD_CLR.
Forgotten(fd) == master_list \ {fd}

\* recvALL returns -1: remove_control_conn frees every node of the list, and
\* reads each one afterwards.  main_loop forgets the descriptor.
Remove ==
    /\ at \in {"header", "payload"}
    /\ LET k == Served IN
       /\ conn[k].up = <<>> /\ EndSeen(k)
       /\ conn' = [conn EXCEPT ![k].fd = 0, ![k].tcp = "gone"]
    /\ at' = "serving"
    /\ list' = {}
    /\ freed' = (freed \/ list \ {sock_index} # {})
    /\ master_list' = Forgotten(sock_index)
    /\ UNCHANGED <<head_fd, router_socket, router_client_socket, turnVars, RT_head, crashed, arrived,
                   polite>>

\* The same, when what it reads there is no list any more.
RemoveCorrupt ==
    /\ at \in {"header", "payload"}
    /\ conn[Served].up = <<>> /\ EndSeen(Served)
    /\ "unreadable" \in FreedMemory
    /\ at' = "corrupt"
    /\ UNCHANGED <<socketVars, turnVars, RT_head, crashed, conn, arrived, polite>>

\* recv returned -1, or 0 after the first part: it returns 0 ever after, and
\* the sum of bytes never gets to nbytes.
Loop ==
    /\ at \in {"header", "payload"}
    /\ conn[Served].up = <<>> /\ conn[Served].tcp # "open" /\ ~EndSeen(Served)
    /\ at' = "looping"
    /\ UNCHANGED <<socketVars, turnVars, RT_head, crashed, conn, arrived, polite>>

\* The control code in the header of each response.
author_response == 0
init_response == 1
routing_table_response == 2
update_response == 3
crash_response == 4

\* The switch on control_code.
Response(code) ==
    CASE code = 0             -> author_response
      [] code = INIT          -> init_response
      [] code = ROUTING_TABLE -> routing_table_response
      [] code = UPDATE        -> update_response
      [] code = CRASH         -> crash_response

\* The response is sent and the command carried out.  A controller that has
\* closed answers with a reset, sooner or later.
Triage ==
    /\ at = "respond"
    /\ LET k == Served IN
       /\ conn[k].tcp \in {"open", "fin"}
       /\ \E tcp \in IF conn[k].tcp = "fin" THEN {"fin", "dead"} ELSE {"open"} :
             conn' = [conn EXCEPT ![k].answers = Append(@, Response(control_code)), ![k].tcp = tcp]
    /\ RT_head' = (RT_head \/ control_code = INIT)
    /\ crashed' = (crashed \/ control_code = CRASH)
    /\ at' = "serving"
    /\ UNCHANGED <<socketVars, turnVars, arrived, polite>>

\* Before INIT there are no routers, and routing_table_response frees an element
\* that was never made.
FreesNothing ==
    /\ at = "respond"
    /\ control_code = ROUTING_TABLE /\ ~RT_head
    /\ "unreadable" \in FreedMemory
    /\ at' = "corrupt"
    /\ UNCHANGED <<socketVars, turnVars, RT_head, crashed, conn, arrived, polite>>

\* sendALL, on a connection that was reset.
SendFails ==
    /\ at = "respond"
    /\ conn[Served].tcp \in {"reset", "dead"}
    /\ at' = "SIGPIPE"
    /\ UNCHANGED <<socketVars, turnVars, RT_head, crashed, conn, arrived, polite>>

RouterNext ==
    \/ Select \/ Accept \/ Serve \/ NextTurn
    \/ Receive \/ Remove \/ RemoveCorrupt \/ Loop
    \/ Triage \/ FreesNothing \/ SendFails

Next ==
    \/ Connect
    \/ \E k \in Conns : Request(k) \/ Write(k) \/ Disconnect(k)
    \/ RouterNext

Spec == Init /\ [][Next]_vars

\* The router's one thread runs.  The controller owes nobody anything: it may
\* stay connected and never write the rest of a request.
StallSpec == Spec /\ WF_vars(RouterNext)

\* An assumption about the controller that the code needs and does not
\* enforce: as long as it stays it goes on with the requests it has begun.
FairSpec ==
    /\ StallSpec
    /\ \A k \in 1 .. MaxConns : WF_vars(k \in Conns /\ Write(k))

-----------------------------------------------------------------------------
(* Properties *)

Part == [nr : Nat, place : Nat, code : Code]

Connection ==
    [tcp : {"open", "fin", "dead", "reset", "gone"}, fd : Descriptor,
     up : Seq(Part), asked : Seq(Code), answers : Seq(Code)]

TypeOK ==
    /\ at \in {"select", "serving", "header", "payload", "respond"} \cup Ended
    /\ master_list \subseteq Descriptor /\ head_fd \in Descriptor
    /\ watch_list \subseteq Descriptor /\ sock_index \in Descriptor
    /\ bytes \in 0 .. 2 /\ control_code \in Code
    /\ list \subseteq Descriptor /\ freed \in BOOLEAN
    /\ router_socket \in Descriptor /\ router_client_socket \in Descriptor
    /\ RT_head \in BOOLEAN /\ crashed \in BOOLEAN /\ polite \in BOOLEAN
    /\ conn \in Seq(Connection)
    /\ arrived \in [Conns -> Nat]

fds == { conn[k].fd : k \in Open }

\* main_loop watches exactly the descriptors that are open and looks as far as
\* the highest, although numbers are used again, by connections and by the
\* router's own sockets: select never meets a closed one and misses none.
Watched ==
    /\ master_list = {control_socket} \cup ({router_socket} \ {0}) \cup fds
    /\ \A fd \in master_list : fd <= head_fd

\* Until remove_control_conn has freed the nodes of connections that are still
\* open, the list has all of them, and main_loop has no unknown socket.
KnownWhileWhole == ~freed => list = fds /\ at # "unknown socket"

\* While every controller waits for its answers before it closes the
\* connection, recvALL returns, and no response is sent to a closed one.
PoliteReady == polite => at \notin {"looping", "SIGPIPE"}

\* The controller may end a connection at any time, and the router should
\* always be ready for another one (Assignment3_Description.pdf, section 6.3);
\* recvALL is there to "ensure nbytes are always sent/received".
AlwaysReady == at \notin Dead

Turn == at \in {"header", "payload", "respond"}

Promised == INSTANCE ControlService WITH
    asked <- [k \in Conns |-> conn[k].asked],
    answers <- [k \in Conns |-> conn[k].answers],
    due <- IF ~crashed THEN Conns
           ELSE { k \in Open : conn[k].fd \in watch_list \/ (Turn /\ conn[k].fd = sock_index) }

\* Every request is answered at most once, in order and with its own code, for
\* all the ways in which its parts arrive, other connections interfere and
\* memory is read; and CRASH silences the router after the turn it is in.
ImplementsControl == Promised!Spec

Owed(k) ==
    at \notin Ended /\ k \in Conns /\ conn[k].tcp = "open" /\ conn[k].answers # conn[k].asked

\* As long as the router lives, a controller that stays gets its answers: no
\* connection is starved by others that begin, end, or come back.  It holds
\* only if every controller that stays also completes what it has begun.
Answered == \A k \in 1 .. MaxConns : Owed(k) ~> ~Owed(k)

-----------------------------------------------------------------------------
(* The inductive invariant *)

\* A descriptor is used for one thing.
Distinct ==
    /\ \A j, k \in Open : conn[j].fd = conn[k].fd => j = k
    /\ fds \cap {0, 1, 2, control_socket, router_socket, router_client_socket} = {}
    /\ router_socket # 0 => router_socket # control_socket
    /\ router_socket # 0 => router_socket # router_client_socket

\* What is still to be served is open, and apart from what is being served;
\* after CRASH there is no other turn.
InTurn ==
    /\ watch_list \subseteq {control_socket} \cup fds
    /\ Turn => sock_index \in fds \ watch_list
    /\ at = "header" => bytes < HEADER
    /\ at = "payload" => bytes < PayloadLen(control_code)
    /\ at = "select" => ~crashed

\* The part that connection k must bring next: request and place.
NextPart(k) ==
    LET nr == Len(conn[k].answers) + 1 IN
    IF Turn /\ conn[k].fd = sock_index
    THEN CASE at = "header" -> <<nr, bytes + 1>>
           [] at = "payload" -> <<nr, HEADER + bytes + 1>>
           [] at = "respond" -> <<nr + 1, 1>>
    ELSE <<nr, 1>>

Last(p) == p.place = HEADER + PayloadLen(p.code)

Follows(p, q) ==
    IF Last(p) THEN q.nr = p.nr + 1 /\ q.place = 1 ELSE q.nr = p.nr /\ q.place = p.place + 1

\* What has arrived is the front of what is under way; of a controller that
\* has gone it is all there is.
Arrivals ==
    \A k \in Conns :
        /\ arrived[k] <= Len(conn[k].up)
        /\ conn[k].tcp # "open" => arrived[k] = Len(conn[k].up)

\* What is under way continues where the router has got to, request by
\* request, and of a controller that stays it reaches to the last request.
Stream(k) ==
    LET c == conn[k] IN
    /\ \A i \in DOMAIN c.up :
          /\ c.up[i].nr \in DOMAIN c.asked
          /\ c.up[i].code = c.asked[c.up[i].nr]
          /\ c.up[i].place \in 1 .. HEADER + PayloadLen(c.up[i].code)
    /\ \A i \in DOMAIN c.up : i + 1 \in DOMAIN c.up => Follows(c.up[i], c.up[i + 1])
    /\ c.up # <<>> => <<c.up[1].nr, c.up[1].place>> = NextPart(k)
    /\ c.tcp = "open" =>
          IF c.up = <<>> THEN NextPart(k) = <<Len(c.asked) + 1, 1>>
          ELSE c.up[Len(c.up)].nr = Len(c.asked) /\ Last(c.up[Len(c.up)])

\* The answers given are those to the first requests, and what is served is
\* the next one.
InOrder(k) ==
    LET c == conn[k] IN
    /\ Len(c.answers) <= Len(c.asked)
    /\ \A i \in DOMAIN c.answers : c.answers[i] = c.asked[i]
    /\ c.fd # 0 => c.tcp # "gone"
    /\ (c.fd = 0 /\ c.tcp # "gone") => c.answers = <<>>
    /\ (Turn /\ k \in Open /\ c.fd = sock_index) =>
          /\ (at # "header" \/ bytes > 0) => Len(c.answers) < Len(c.asked)
          /\ at # "header" => control_code = c.asked[Len(c.answers) + 1]

\* After polite controllers there is nothing left to do.
Settled(k) ==
    polite /\ conn[k].tcp # "open" =>
        /\ conn[k].tcp \in {"fin", "gone"}
        /\ conn[k].up = <<>>
        /\ conn[k].answers = conn[k].asked

IInv ==
    /\ TypeOK
    /\ Watched /\ KnownWhileWhole /\ PoliteReady
    /\ Distinct /\ InTurn /\ Arrivals
    /\ \A k \in Conns : InOrder(k) /\ Settled(k)
    /\ at \notin Ended => \A k \in Conns : Stream(k)
=============================================================================
