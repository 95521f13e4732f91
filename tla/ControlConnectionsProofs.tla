---------------------- MODULE ControlConnectionsProofs ----------------------
(***************************************************************************)
(* IInv of module ControlConnections is inductive, for every number of     *)
(* connections and requests and whatever freed memory holds; what it       *)
(* implies, and the refinement of ControlService.                          *)
(***************************************************************************)
EXTENDS ControlConnections, SequenceTheorems, TLAPS

\* What the types say of a connection.
LEMMA ConnType ==
    ASSUME conn \in Seq(Connection)
    PROVE  /\ Len(conn) \in Nat /\ Conns = 1 .. Len(conn)
           /\ \A k \in Conns :
                /\ conn[k] \in Connection
                /\ conn[k].tcp \in {"open", "fin", "dead", "reset", "gone"}
                /\ conn[k].fd \in Descriptor
                /\ conn[k].up \in Seq(Part)
                /\ conn[k].asked \in Seq(Code)
                /\ conn[k].answers \in Seq(Code)
<1>1. Len(conn) \in Nat /\ Conns = 1 .. Len(conn) /\ \A k \in Conns : conn[k] \in Connection
  BY DEF Conns
<1>2. ASSUME NEW c \in Connection
      PROVE  /\ c.tcp \in {"open", "fin", "dead", "reset", "gone"}
             /\ c.fd \in Descriptor
             /\ c.up \in Seq(Part)
             /\ c.asked \in Seq(Code)
             /\ c.answers \in Seq(Code)
  BY DEF Connection
<1> QED
  BY <1>1, <1>2

\* A connection, field by field.
IsConn(d, tcp, fd, up, asked, answers) ==
    /\ d \in Connection
    /\ d.tcp = tcp /\ d.fd = fd /\ d.up = up /\ d.asked = asked /\ d.answers = answers

\* A connection with some of its fields replaced.
LEMMA Fields ==
    ASSUME NEW c \in Connection, NEW asked \in Seq(Code), NEW answers \in Seq(Code),
           NEW up \in Seq(Part), NEW tcp \in {"open", "fin", "dead", "reset", "gone"},
           NEW fd \in Descriptor
    PROVE  /\ IsConn([[c EXCEPT !.asked = asked] EXCEPT !.up = up], c.tcp, c.fd, up, asked, c.answers)
           /\ IsConn([[c EXCEPT !.tcp = tcp] EXCEPT !.up = up], tcp, c.fd, up, c.asked, c.answers)
           /\ IsConn([c EXCEPT !.fd = fd], c.tcp, fd, c.up, c.asked, c.answers)
           /\ IsConn([c EXCEPT !.up = up], c.tcp, c.fd, up, c.asked, c.answers)
           /\ IsConn([[c EXCEPT !.fd = fd] EXCEPT !.tcp = tcp], tcp, fd, c.up, c.asked, c.answers)
           /\ IsConn([[c EXCEPT !.answers = answers] EXCEPT !.tcp = tcp], tcp, c.fd, c.up, c.asked, answers)
BY DEF Connection, IsConn

\* The connection k is replaced and all others stay.
LEMMA ConnChanged ==
    ASSUME conn \in Seq(Connection), NEW k \in Conns, NEW d \in Connection,
           conn' = [conn EXCEPT ![k] = d]
    PROVE  /\ conn' \in Seq(Connection) /\ Len(conn') = Len(conn) /\ Conns' = Conns
           /\ conn'[k] = d
           /\ \A j \in Conns : j # k => conn'[j] = conn[j]
BY DEF Conns

\* The numbers of descriptors.
LEMMA DescriptorType ==
    /\ Descriptor \subseteq Nat
    /\ {0, 1, 2, control_socket} \subseteq Descriptor
BY ControlAssumption DEF Descriptor, control_socket

\* The served connection is the one with the descriptor sock_index.
Being(k) == Turn /\ conn[k].fd = sock_index

\* In a turn there is exactly one.
LEMMA ServedIsOne ==
    ASSUME TypeOK, Distinct, InTurn, Turn
    PROVE  /\ Served \in Open /\ Served \in Conns /\ conn[Served].fd = sock_index /\ sock_index # 0
           /\ \A k \in Conns : conn[k].fd = sock_index => k = Served
<1>1. PICK k \in Open : conn[k].fd = sock_index
  BY DEF InTurn, fds
<1>2. Served \in Open /\ conn[Served].fd = sock_index
  BY <1>1 DEF Served
<1>3. sock_index # 0 /\ Served \in Conns
  BY <1>2 DEF Open
<1>4. \A j \in Conns : conn[j].fd = sock_index => j = Served
  BY <1>2, <1>3 DEF Distinct, Open
<1> QED
  BY <1>2, <1>3, <1>4

\* Connections that are left as they are, and are not served or are served as
\* before, keep what is known of them.
LEMMA Frame ==
    ASSUME NEW k \in Conns, conn'[k] = conn[k], polite' => polite,
           \/ ~Being(k) /\ ~Being(k)'
           \/ /\ at' = at /\ bytes' = bytes /\ sock_index' = sock_index
              /\ control_code' = control_code
    PROVE  /\ InOrder(k) /\ k \in Conns' => InOrder(k)'
           /\ Settled(k) => Settled(k)'
           /\ Stream(k) => Stream(k)'
<1>1. NextPart(k)' = NextPart(k)
  BY DEF NextPart, Being, Turn
<1>2. InOrder(k) /\ k \in Conns' => InOrder(k)'
  BY DEF InOrder, Being, Turn, Open
<1>3. Settled(k) => Settled(k)'
  BY DEF Settled
<1>4. Stream(k) => Stream(k)'
  BY <1>1 DEF Stream
<1> QED
  BY <1>2, <1>3, <1>4

\* While no descriptor changes hands, the descriptors in use are the same.
LEMMA SameDescriptors ==
    ASSUME Conns' = Conns, \A k \in Conns : conn'[k].fd = conn[k].fd
    PROVE  Open' = Open /\ fds' = fds
BY DEF Open, fds

\* While nothing is written or read, the same parts have arrived.
LEMMA ArrivalsSame ==
    ASSUME arrived \in [Conns -> Nat], Arrivals, arrived' = arrived, Conns' = Conns,
           \A k \in Conns : /\ conn'[k].up = conn[k].up
                            /\ conn'[k].tcp = "open" <=> conn[k].tcp = "open"
    PROVE  Arrivals' /\ arrived' \in [Conns' -> Nat]
BY DEF Arrivals

\* Of one connection other parts are under way and have arrived.
LEMMA ArrivalsChanged ==
    ASSUME arrived \in [Conns -> Nat], Arrivals, NEW k \in Conns, NEW n \in Nat,
           arrived' = [arrived EXCEPT ![k] = n], Conns' = Conns,
           \A j \in Conns : j # k => conn'[j] = conn[j],
           n <= Len(conn'[k].up), conn'[k].tcp # "open" => n = Len(conn'[k].up)
    PROVE  Arrivals' /\ arrived' \in [Conns' -> Nat]
BY DEF Arrivals

\* Where a step of a turn leaves the descriptors as they are.
LEMMA TurnFrame ==
    ASSUME IInv, master_list' = master_list, head_fd' = head_fd, list' = list, freed' = freed,
           router_socket' = router_socket, router_client_socket' = router_client_socket,
           polite' = polite, Conns' = Conns, \A k \in Conns : conn'[k].fd = conn[k].fd,
           at' # "unknown socket", at' # "looping", at' # "SIGPIPE"
    PROVE  Watched' /\ KnownWhileWhole' /\ PoliteReady' /\ Distinct'
<1>1. Open' = Open /\ fds' = fds
  BY SameDescriptors
<1>2. Watched'
  BY <1>1 DEF IInv, Watched
<1>3. KnownWhileWhole' /\ PoliteReady'
  <2>1. KnownWhileWhole'
    <3>1. KnownWhileWhole
      BY DEF IInv
    <3> QED
      BY <1>1, <3>1 DEF KnownWhileWhole
  <2>2. PoliteReady'
    BY DEF PoliteReady
  <2> QED
    BY <2>1, <2>2
<1>4. Distinct'
  <2>1. \A i, j \in Open' : conn'[i].fd = conn'[j].fd => i = j
    BY <1>1 DEF IInv, Distinct, Open
  <2>2. fds' \cap {0, 1, 2, control_socket, router_socket', router_client_socket'} = {}
    BY <1>1 DEF IInv, Distinct
  <2>3. /\ router_socket' # 0 => router_socket' # control_socket
        /\ router_socket' # 0 => router_socket' # router_client_socket'
    BY DEF IInv, Distinct
  <2> QED
    BY <2>1, <2>2, <2>3 DEF Distinct
<1> QED
  BY <1>2, <1>3, <1>4

-----------------------------------------------------------------------------
(* The controller's actions *)

\* The router's variables are untouched by them.
LEMMA ControllerFrame ==
    ASSUME IInv, UNCHANGED <<at, socketVars, turnVars, RT_head, crashed>>, polite' => polite,
           Open' = Open, \A k \in Open : conn'[k].fd = conn[k].fd
    PROVE  Watched' /\ KnownWhileWhole' /\ PoliteReady' /\ Distinct' /\ InTurn'
<1>1. /\ at' = at /\ master_list' = master_list /\ head_fd' = head_fd /\ list' = list
      /\ freed' = freed /\ router_socket' = router_socket
      /\ router_client_socket' = router_client_socket
      /\ watch_list' = watch_list /\ sock_index' = sock_index /\ bytes' = bytes
      /\ control_code' = control_code /\ RT_head' = RT_head /\ crashed' = crashed
  BY DEF socketVars, turnVars
<1>2. fds' = fds
  BY DEF fds
<1>3. Watched'
  BY <1>1, <1>2 DEF IInv, Watched
<1>4. KnownWhileWhole' /\ PoliteReady'
  BY <1>1, <1>2 DEF IInv, KnownWhileWhole, PoliteReady
<1>5. Distinct'
  BY <1>1, <1>2 DEF IInv, Distinct
<1>6. InTurn'
  BY <1>1, <1>2 DEF IInv, InTurn, Turn
<1> QED
  BY <1>3, <1>4, <1>5, <1>6

\* Nothing is in use when the router starts.
LEMMA IInvInit == Init => IInv
<1> SUFFICES ASSUME Init PROVE IInv
  OBVIOUS
<1>1. Conns = {} /\ Open = {} /\ fds = {} /\ conn \in Seq(Connection)
  BY DEF Init, Conns, Open, fds
<1>2. TypeOK
  <2>1. 0 \in Descriptor /\ control_socket \in Descriptor /\ 0 \in Code /\ 0 \in 0 .. 2
    BY DescriptorType DEF Code
  <2>2. arrived \in [{} -> Nat]
    <3>1. arrived = <<>> /\ arrived \in Seq(Nat) /\ DOMAIN arrived = {}
      BY DEF Init
    <3> QED
      BY <3>1
  <2> QED
    BY <1>1, <2>1, <2>2 DEF Init, TypeOK
<1>5. Arrivals
  BY <1>1 DEF Arrivals
<1>3. Watched /\ KnownWhileWhole /\ PoliteReady
  BY <1>1 DEF Init, Watched, KnownWhileWhole, PoliteReady, control_socket
<1>4. Distinct /\ InTurn
  BY <1>1 DEF Init, Distinct, InTurn, Turn
<1> QED
  BY <1>1, <1>2, <1>3, <1>4, <1>5 DEF IInv

\* A new connection waits in the backlog.
LEMMA ConnectKeeps == IInv /\ Connect => IInv'
<1> SUFFICES ASSUME IInv, Connect PROVE IInv'
  OBVIOUS
<1> DEFINE new == [tcp |-> "open", fd |-> 0, up |-> <<>>, asked |-> <<>>, answers |-> <<>>]
<1>0. PICK n : n = Len(conn) + 1
  OBVIOUS
<1>1. /\ conn' = Append(conn, new) /\ at \notin Ended
      /\ UNCHANGED <<at, socketVars, turnVars, RT_head, crashed>> /\ polite' = polite
      /\ arrived' = Append(arrived, 0)
  BY DEF Connect
<1>2. /\ conn \in Seq(Connection) /\ Len(conn) \in Nat /\ Conns = 1 .. Len(conn)
  BY ConnType DEF IInv, TypeOK
<1>3. /\ new \in Connection /\ new.tcp = "open" /\ new.fd = 0 /\ new.up = <<>>
      /\ new.asked = <<>> /\ new.answers = <<>>
  BY DescriptorType DEF Connection
<1> HIDE DEF new
<1>4. /\ conn' \in Seq(Connection) /\ Conns' = 1 .. n
      /\ conn'[n] = new /\ \A k \in Conns : conn'[k] = conn[k]
  BY <1>0, <1>1, <1>2, <1>3 DEF Conns
<1>5. Conns' = Conns \cup {n} /\ n \notin Conns
  BY <1>0, <1>2, <1>4
<1>6. Open' = Open /\ \A k \in Open : conn'[k].fd = conn[k].fd
  BY <1>3, <1>4, <1>5 DEF Open
<1>7. Watched' /\ KnownWhileWhole' /\ PoliteReady' /\ Distinct' /\ InTurn'
  BY <1>1, <1>6, ControllerFrame
<1>12. arrived' \in [Conns' -> Nat] /\ Arrivals'
  <2>1. arrived \in Seq(Nat) /\ Len(arrived) + 1 = n
    <3>1. arrived \in [1 .. Len(conn) -> Nat]
      BY <1>2 DEF IInv, TypeOK
    <3>2. arrived \in Seq(Nat)
      BY <1>2, <3>1, SeqDef
    <3> QED
      BY <1>0, <1>2, <3>1, <3>2
  <2>2. arrived' \in [Conns' -> Nat] /\ arrived'[n] = 0 /\ \A k \in Conns : arrived'[k] = arrived[k]
    <3>1. arrived' = Append(arrived, 0)
      BY <1>1
    <3>2. DOMAIN arrived' = 1 .. n /\ arrived' \in Seq(Nat)
      BY <1>0, <1>2, <2>1, <3>1
    <3>3. arrived' \in [1 .. n -> Nat]
      <4>1. PICK m \in Nat : arrived' \in [1 .. m -> Nat]
        BY <3>2, SeqDef
      <4>2. 1 .. m = 1 .. n
        BY <3>2, <4>1
      <4> QED
        BY <4>1, <4>2
    <3>4. Len(arrived) \in Nat /\ Conns = 1 .. Len(arrived)
      BY <1>0, <1>2, <2>1
    <3>5. arrived'[n] = 0 /\ \A k \in 1 .. Len(arrived) : arrived'[k] = arrived[k]
      BY <2>1, <3>1, <3>4
    <3> QED
      BY <1>4, <3>3, <3>4, <3>5
  <2>3. Len(conn'[n].up) = 0 /\ conn'[n].tcp = "open"
    BY <1>3, <1>4
  <2>4. \A k \in Conns : /\ arrived[k] <= Len(conn[k].up)
                         /\ conn[k].tcp # "open" => arrived[k] = Len(conn[k].up)
    BY DEF IInv, Arrivals
  <2>5. ASSUME NEW k \in Conns'
        PROVE  /\ arrived'[k] <= Len(conn'[k].up)
               /\ conn'[k].tcp # "open" => arrived'[k] = Len(conn'[k].up)
    <3>1. CASE k = n
      BY <2>2, <2>3, <3>1
    <3>2. CASE k \in Conns
      BY <1>4, <2>2, <2>4, <3>2
    <3> QED
      BY <1>5, <3>1, <3>2
  <2> QED
    BY <2>2, <2>5 DEF Arrivals
<1>8. TypeOK'
  BY <1>1, <1>4, <1>12 DEF IInv, TypeOK, socketVars, turnVars
<1>9. ASSUME NEW k \in Conns PROVE InOrder(k)' /\ Settled(k)' /\ Stream(k)'
  <2>1. conn'[k] = conn[k] /\ k \in Conns' /\ InOrder(k) /\ Settled(k) /\ Stream(k)
    BY <1>1, <1>4, <1>5 DEF IInv
  <2>2. at' = at /\ bytes' = bytes /\ sock_index' = sock_index /\ control_code' = control_code
        /\ polite' = polite
    BY <1>1 DEF turnVars
  <2> QED
    BY <2>1, <2>2, Frame
<1>10. InOrder(n)' /\ Settled(n)' /\ Stream(n)'
  <2>1. ~Being(n)'
    <3>1. Turn => sock_index # 0
      BY ServedIsOne DEF IInv
    <3>2. conn'[n].fd = 0 /\ at' = at /\ sock_index' = sock_index
      BY <1>1, <1>3, <1>4 DEF turnVars
    <3> QED
      BY <3>1, <3>2 DEF Being, Turn
  <2>2. n \notin Open'
    BY <1>3, <1>4 DEF Open
  <2>3. InOrder(n)'
    BY <1>3, <1>4, <2>2 DEF InOrder
  <2>4. Settled(n)'
    BY <1>3, <1>4 DEF Settled
  <2>5. NextPart(n)' = <<1, 1>>
    BY <1>3, <1>4, <2>1 DEF NextPart, Being
  <2>6. Stream(n)'
    BY <1>3, <1>4, <2>5 DEF Stream
  <2> QED
    BY <2>3, <2>4, <2>6
<1>11. \A k \in Conns' : InOrder(k)' /\ Settled(k)' /\ Stream(k)'
  BY <1>5, <1>9, <1>10
<1> QED
  BY <1>7, <1>8, <1>11, <1>12 DEF IInv

\* A request, part by part.
LEMMA PartsType ==
    ASSUME NEW nr \in Nat, NEW code \in Code
    PROVE  LET P == Parts(nr, code) IN
           /\ PayloadLen(code) \in {0, 2}
           /\ P \in Seq(Part) /\ Len(P) = HEADER + PayloadLen(code)
           /\ \A i \in 1 .. HEADER + PayloadLen(code) :
                 P[i].nr = nr /\ P[i].place = i /\ P[i].code = code
<1> DEFINE L == HEADER + PayloadLen(code)
           f(i) == [nr |-> nr, place |-> i, code |-> code]
<1>1. PayloadLen(code) \in {0, 2} /\ L \in Nat
  BY DEF PayloadLen, HEADER
<1>2. Parts(nr, code) = [i \in 1 .. L |-> f(i)]
  BY DEF Parts
<1>3. \A i \in 1 .. L : f(i) \in Part /\ f(i).nr = nr /\ f(i).place = i /\ f(i).code = code
  BY <1>1 DEF Part
<1> HIDE DEF L, f
<1>4. /\ Parts(nr, code) \in Seq(Part) /\ Len(Parts(nr, code)) = L
      /\ \A i \in 1 .. L : Parts(nr, code)[i] = f(i)
  BY <1>1, <1>2, <1>3
<1> QED
  BY <1>1, <1>3, <1>4 DEF L

\* Two sequences, one behind the other.
LEMMA Joined ==
    ASSUME NEW S, NEW s \in Seq(S), NEW t \in Seq(S)
    PROVE  /\ s \o t \in Seq(S) /\ Len(s \o t) = Len(s) + Len(t)
           /\ Len(s) \in Nat /\ Len(t) \in Nat
           /\ DOMAIN (s \o t) = 1 .. Len(s) + Len(t)
           /\ \A i \in 1 .. Len(s) : (s \o t)[i] = s[i]
           /\ \A i \in 1 .. Len(t) : (s \o t)[Len(s) + i] = t[i]
OBVIOUS

\* A request goes behind what is under way.
LEMMA RequestKeeps ==
    ASSUME IInv, NEW k \in Conns, Request(k)
    PROVE  IInv'
<1> DEFINE c == conn[k]
           n == Len(c.asked)
           m == Len(c.up)
<1>1. /\ conn \in Seq(Connection) /\ c \in Connection
      /\ c.tcp = "open" /\ c.fd \in Descriptor /\ c.up \in Seq(Part)
      /\ c.asked \in Seq(Code) /\ c.answers \in Seq(Code)
  BY ConnType DEF IInv, TypeOK, Request
<1>2. n \in Nat /\ m \in Nat /\ DOMAIN c.up = 1 .. m /\ DOMAIN c.asked = 1 .. n
  BY <1>1
<1>3. PICK code \in Commands :
        conn' = [conn EXCEPT ![k].asked = Append(@, code), ![k].up = @ \o Parts(n + 1, code)]
  BY DEF Request
<1>4. /\ at \notin Ended /\ UNCHANGED <<at, socketVars, turnVars, RT_head, crashed>>
      /\ polite' = polite /\ arrived' = arrived
  BY DEF Request
<1>5. code \in Code
  BY ControlAssumption
<1> DEFINE P == Parts(n + 1, code)
           L == HEADER + PayloadLen(code)
           up2 == c.up \o P
           asked2 == Append(c.asked, code)
<1>6. /\ PayloadLen(code) \in {0, 2} /\ L \in {2, 4}
      /\ P \in Seq(Part) /\ Len(P) = L
      /\ \A i \in 1 .. L : P[i].nr = n + 1 /\ P[i].place = i /\ P[i].code = code
  <2>1. n + 1 \in Nat
    BY <1>2
  <2> QED
    BY <1>5, <2>1, PartsType DEF HEADER
<1>8. /\ up2 \in Seq(Part) /\ DOMAIN up2 = 1 .. m + L /\ Len(up2) = m + L
      /\ \A i \in 1 .. m : up2[i] = c.up[i]
      /\ \A i \in 1 .. L : up2[m + i] = P[i]
  <2> HIDE DEF P, L, c
  <2> QED
    BY <1>1, <1>6, Joined
<1>9. /\ asked2 \in Seq(Code) /\ Len(asked2) = n + 1 /\ DOMAIN asked2 = 1 .. n + 1
      /\ \A i \in 1 .. n : asked2[i] = c.asked[i]
      /\ asked2[n + 1] = code
  BY <1>1, <1>5
<1> DEFINE d == [[c EXCEPT !.asked = asked2] EXCEPT !.up = up2]
<1>7. conn' = [conn EXCEPT ![k] = d]
  BY <1>3
<1>10. /\ conn' \in Seq(Connection) /\ Conns' = Conns
       /\ conn'[k].tcp = "open" /\ conn'[k].fd = c.fd /\ conn'[k].up = up2
       /\ conn'[k].asked = asked2 /\ conn'[k].answers = c.answers
       /\ \A j \in Conns : j # k => conn'[j] = conn[j]
  <2>1. IsConn(d, c.tcp, c.fd, up2, asked2, c.answers)
    <3> HIDE DEF c, up2, asked2
    <3> QED
      BY <1>1, <1>8, <1>9, Fields
  <2> HIDE DEF d, c, up2, asked2
  <2> QED
    BY <1>1, <1>7, <2>1, ConnChanged DEF IsConn
<1> HIDE DEF up2, asked2, P
<1>11. Open' = Open /\ \A j \in Conns : conn'[j].fd = conn[j].fd
  BY <1>10 DEF Open
<1>12. Watched' /\ KnownWhileWhole' /\ PoliteReady' /\ Distinct' /\ InTurn'
  BY <1>4, <1>11, ControllerFrame DEF Open
<1>20. arrived' \in [Conns' -> Nat] /\ Arrivals'
  <2>1. arrived \in [Conns -> Nat] /\ Arrivals
    BY DEF IInv, TypeOK
  <2>2. arrived[k] <= m
    BY <2>1 DEF Arrivals
  <2>3. arrived[k] <= m + L
    BY <1>2, <1>6, <2>1, <2>2
  <2> HIDE DEF c, m, L
  <2> QED
    BY <1>4, <1>8, <1>10, <2>1, <2>3 DEF Arrivals
<1>13. TypeOK'
  BY <1>4, <1>10, <1>20 DEF IInv, TypeOK, socketVars, turnVars
<1>14. at' = at /\ bytes' = bytes /\ sock_index' = sock_index /\ control_code' = control_code
  BY <1>4 DEF turnVars
<1>15. ASSUME NEW j \in Conns, j # k PROVE InOrder(j)' /\ Settled(j)' /\ Stream(j)'
  <2>1. conn'[j] = conn[j] /\ j \in Conns' /\ InOrder(j) /\ Settled(j) /\ Stream(j)
    BY <1>4, <1>10, <1>15 DEF IInv
  <2> QED
    BY <1>4, <1>14, <2>1, Frame
<1>16. InOrder(k)'
  <2>1. /\ Len(c.answers) <= n /\ \A i \in DOMAIN c.answers : c.answers[i] = c.asked[i]
        /\ (c.fd = 0 /\ c.tcp # "gone") => c.answers = <<>>
        /\ (Turn /\ k \in Open /\ c.fd = sock_index) =>
              /\ (at # "header" \/ bytes > 0) => Len(c.answers) < n
              /\ at # "header" => control_code = c.asked[Len(c.answers) + 1]
    BY DEF IInv, InOrder
  <2>2. Len(c.answers) \in Nat /\ DOMAIN c.answers = 1 .. Len(c.answers)
    BY <1>1
  <2> HIDE DEF c
  <2>3. Len(c.answers) <= n + 1
    BY <1>2, <2>1, <2>2
  <2>4. \A i \in DOMAIN c.answers : c.answers[i] = asked2[i]
    BY <1>2, <1>9, <2>1, <2>2
  <2>5. (Turn /\ k \in Open /\ c.fd = sock_index) =>
              /\ (at # "header" \/ bytes > 0) => Len(c.answers) < n + 1
              /\ at # "header" => control_code = asked2[Len(c.answers) + 1]
    BY SMTT(30), <1>2, <1>9, <2>1, <2>2
  <2> QED
    BY <1>1, <1>9, <1>10, <1>11, <1>14, <2>1, <2>3, <2>4, <2>5 DEF InOrder, Turn
<1>17. Settled(k)'
  BY <1>10 DEF Settled
<1>18. NextPart(k)' = NextPart(k)
  BY <1>10, <1>14 DEF NextPart, Turn
<1>19. Stream(k)'
  <2>1. /\ \A i \in 1 .. m :
             /\ c.up[i].nr \in 1 .. n
             /\ c.up[i].code = c.asked[c.up[i].nr]
             /\ c.up[i].place \in 1 .. HEADER + PayloadLen(c.up[i].code)
        /\ \A i \in 1 .. m : i + 1 \in 1 .. m => Follows(c.up[i], c.up[i + 1])
        /\ c.up # <<>> => <<c.up[1].nr, c.up[1].place>> = NextPart(k)
        /\ IF c.up = <<>> THEN NextPart(k) = <<n + 1, 1>>
           ELSE c.up[m].nr = n /\ Last(c.up[m])
    BY <1>1, <1>2, <1>4 DEF IInv, Stream
  <2>2. (c.up = <<>> <=> m = 0) /\ up2 # <<>> /\ 1 \in 1 .. m + L /\ L \in Nat /\ L >= 2
    BY <1>1, <1>2, <1>6, <1>8
  <2>3. \A i \in 1 .. m + L : i \in 1 .. m \/ \E j \in 1 .. L : i = m + j
    <3> SUFFICES ASSUME NEW i \in 1 .. m + L, i \notin 1 .. m PROVE \E j \in 1 .. L : i = m + j
      OBVIOUS
    <3>1. i - m \in 1 .. L /\ i = m + (i - m)
      BY <1>2, <2>2
    <3> QED
      BY <3>1
  <2> HIDE DEF c, m, n, L
  <2>4. ASSUME NEW i \in DOMAIN up2
        PROVE  /\ up2[i].nr \in DOMAIN asked2
               /\ up2[i].code = asked2[up2[i].nr]
               /\ up2[i].place \in 1 .. HEADER + PayloadLen(up2[i].code)
    <3>1. CASE i \in 1 .. m
      <4>1. up2[i] = c.up[i]
        BY <1>8, <3>1
      <4>2. /\ up2[i].nr \in 1 .. n /\ up2[i].code = c.asked[up2[i].nr]
            /\ up2[i].place \in 1 .. HEADER + PayloadLen(up2[i].code)
        BY <2>1, <3>1, <4>1
      <4> QED
        BY <1>2, <1>9, <4>2
    <3>2. CASE \E j \in 1 .. L : i = m + j
      <4>1. PICK j \in 1 .. L : i = m + j
        BY <3>2
      <4>2. up2[i].nr = n + 1 /\ up2[i].place = j /\ up2[i].code = code
        BY <1>6, <1>8, <4>1
      <4> QED
        BY <1>2, <1>9, <4>2 DEF L
    <3> QED
      BY <1>8, <2>3, <3>1, <3>2
  <2>5. ASSUME NEW i \in DOMAIN up2, i + 1 \in DOMAIN up2 PROVE Follows(up2[i], up2[i + 1])
    <3>0. i \in 1 .. m + L /\ i + 1 \in 1 .. m + L
      BY <1>8, <2>5
    <3>1. CASE i + 1 \in 1 .. m
      <4>1. i \in 1 .. m
        BY <1>2, <3>0, <3>1
      <4> QED
        BY <1>8, <2>1, <3>1, <4>1
    <3>2. CASE i = m
      <4>1. up2[i] = c.up[m] /\ Last(c.up[m]) /\ c.up[m].nr = n
        BY <1>2, <1>8, <2>1, <2>2, <3>0, <3>2
      <4>2. up2[i + 1] = P[1] /\ P[1].nr = n + 1 /\ P[1].place = 1
        <5>1. 1 \in 1 .. L
          BY <2>2
        <5> QED
          BY <1>6, <1>8, <3>2, <5>1
      <4> QED
        BY <4>1, <4>2 DEF Follows
    <3>3. CASE i > m
      <4>1. PICK j \in 1 .. L : i = m + j
        BY <1>2, <2>3, <3>0, <3>3
      <4>2. j + 1 \in 1 .. L /\ i + 1 = m + (j + 1)
        BY <1>2, <2>2, <3>0, <4>1
      <4>3. up2[i] = P[j] /\ up2[i + 1] = P[j + 1]
        BY <1>8, <4>1, <4>2
      <4>4. P[j].nr = n + 1 /\ P[j].place = j /\ P[j].code = code
            /\ P[j + 1].nr = n + 1 /\ P[j + 1].place = j + 1
        BY <1>6, <4>2
      <4>5. ~Last(P[j])
        BY <2>2, <4>2, <4>4 DEF Last, L
      <4> QED
        BY <4>3, <4>4, <4>5 DEF Follows
    <3> QED
      BY <1>2, <2>2, <3>0, <3>1, <3>2, <3>3
  <2>6. <<up2[1].nr, up2[1].place>> = NextPart(k)
    <3>1. CASE m = 0
      <4>1. 1 \in 1 .. L /\ 1 = m + 1
        BY <2>2, <3>1
      <4>2. up2[1] = P[1]
        BY <1>8, <4>1
      <4> QED
        BY <1>6, <2>1, <2>2, <3>1, <4>1, <4>2
    <3>2. CASE m # 0
      <4>1. 1 \in 1 .. m
        BY <1>2, <3>2
      <4> QED
        BY <1>8, <2>1, <2>2, <3>2, <4>1
    <3> QED
      BY <3>1, <3>2
  <2>7. up2[Len(up2)].nr = Len(asked2) /\ Last(up2[Len(up2)])
    <3>1. L \in 1 .. L
      BY <2>2
    <3>2. up2[m + L] = P[L]
      BY <1>8, <3>1
    <3>3. P[L].nr = n + 1 /\ P[L].place = L /\ P[L].code = code
      BY <1>6, <3>1
    <3> QED
      BY <1>8, <1>9, <3>2, <3>3 DEF Last, L
  <2> QED
    BY <1>10, <1>18, <2>2, <2>4, <2>5, <2>6, <2>7 DEF Stream
<1> QED
  BY <1>10, <1>12, <1>13, <1>15, <1>16, <1>17, <1>19, <1>20 DEF IInv

\* What arrives was under way.
LEMMA WriteKeeps ==
    ASSUME IInv, NEW k \in Conns, Write(k)
    PROVE  IInv'
<1>1. /\ at \notin Ended /\ UNCHANGED <<at, socketVars, turnVars, RT_head, crashed>>
      /\ conn' = conn /\ polite' = polite /\ conn[k].tcp = "open"
  BY DEF Write
<1>2. PICK n \in arrived[k] + 1 .. Len(conn[k].up) : arrived' = [arrived EXCEPT ![k] = n]
  BY DEF Write
<1>3. Conns' = Conns /\ Open' = Open
  BY <1>1 DEF Conns, Open
<1>4. Watched' /\ KnownWhileWhole' /\ PoliteReady' /\ Distinct' /\ InTurn'
  BY <1>1, <1>3, ControllerFrame
<1>5. arrived' \in [Conns' -> Nat] /\ Arrivals'
  <2>1. arrived \in [Conns -> Nat] /\ Arrivals /\ arrived[k] \in Nat
    BY DEF IInv, TypeOK
  <2>2. Len(conn[k].up) \in Nat
    BY ConnType DEF IInv, TypeOK
  <2>3. n \in Nat /\ n <= Len(conn[k].up)
    BY <2>1, <2>2
  <2> QED
    BY <1>1, <1>2, <1>3, <2>1, <2>3, ArrivalsChanged
<1>6. TypeOK'
  BY <1>1, <1>3, <1>5 DEF IInv, TypeOK, socketVars, turnVars
<1>7. ASSUME NEW j \in Conns' PROVE InOrder(j)' /\ Settled(j)' /\ Stream(j)'
  <2>1. conn'[j] = conn[j] /\ j \in Conns /\ InOrder(j) /\ Settled(j) /\ Stream(j)
    BY <1>1, <1>3 DEF IInv
  <2>2. at' = at /\ bytes' = bytes /\ sock_index' = sock_index /\ control_code' = control_code
    BY <1>1 DEF turnVars
  <2> QED
    BY <1>1, <2>1, <2>2, Frame
<1> QED
  BY <1>4, <1>5, <1>6, <1>7 DEF IInv

\* The two sides of a sequence that is cut.
LEMMA Cut ==
    ASSUME NEW S, NEW s \in Seq(S), NEW n \in 0 .. Len(s)
    PROVE  /\ Len(s) \in Nat /\ DOMAIN s = 1 .. Len(s)
           /\ SubSeq(s, 1, n) \in Seq(S) /\ Len(SubSeq(s, 1, n)) = n
           /\ DOMAIN SubSeq(s, 1, n) = 1 .. n
           /\ \A i \in 1 .. n : SubSeq(s, 1, n)[i] = s[i]
           /\ SubSeq(s, n + 1, Len(s)) \in Seq(S) /\ Len(SubSeq(s, n + 1, Len(s))) = Len(s) - n
           /\ DOMAIN SubSeq(s, n + 1, Len(s)) = 1 .. Len(s) - n
           /\ \A i \in 1 .. Len(s) - n : SubSeq(s, n + 1, Len(s))[i] = s[n + i]
OBVIOUS

\* Where every request is answered nothing is under way.
LEMMA NothingUnderWay ==
    ASSUME conn \in Seq(Connection), NEW k \in Conns, Stream(k), conn[k].answers = conn[k].asked
    PROVE  conn[k].up = <<>>
<1> DEFINE n == Len(conn[k].asked)
<1> SUFFICES ASSUME conn[k].up # <<>> PROVE FALSE
  OBVIOUS
<1>1. n \in Nat /\ DOMAIN conn[k].asked = 1 .. n /\ 1 \in DOMAIN conn[k].up
  BY ConnType
<1>2. conn[k].up[1].nr \in 1 .. n /\ <<conn[k].up[1].nr, conn[k].up[1].place>> = NextPart(k)
  BY <1>1 DEF Stream
<1>3. NextPart(k)[1] \in {n + 1, n + 2}
  <2> HIDE DEF n
  <2>1. Len(conn[k].answers) = n
    BY DEF n
  <2> QED
    BY <1>1, <2>1 DEF NextPart, Turn
<1>4. conn[k].up[1].nr \in {n + 1, n + 2}
  BY <1>2, <1>3
<1> QED
  BY <1>1, <1>2, <1>4

\* The end of a controller takes parts away, but never one in the middle.
LEMMA DisconnectKeeps ==
    ASSUME IInv, NEW k \in Conns, Disconnect(k)
    PROVE  IInv'
<1> DEFINE c == conn[k]
<1>1. /\ conn \in Seq(Connection) /\ c \in Connection
      /\ c.tcp = "open" /\ c.fd \in Descriptor /\ c.up \in Seq(Part)
      /\ c.asked \in Seq(Code) /\ c.answers \in Seq(Code)
  BY ConnType DEF IInv, TypeOK, Disconnect
<1>2. PICK tcp \in {"fin", "reset"}, n \in 0 .. Len(c.up) :
        /\ conn' = [conn EXCEPT ![k].tcp = tcp, ![k].up = SubSeq(@, 1, n)]
        /\ arrived' = [arrived EXCEPT ![k] = n]
        /\ polite' = (polite /\ tcp = "fin" /\ conn[k].answers = conn[k].asked)
  BY DEF Disconnect
<1>3. at \notin Ended /\ UNCHANGED <<at, socketVars, turnVars, RT_head, crashed>>
  BY DEF Disconnect
<1> DEFINE up2 == SubSeq(c.up, 1, n)
           d == [[c EXCEPT !.tcp = tcp] EXCEPT !.up = up2]
<1>4. /\ up2 \in Seq(Part) /\ Len(up2) = n /\ DOMAIN up2 = 1 .. n
      /\ \A i \in 1 .. n : up2[i] = c.up[i]
      /\ Len(c.up) \in Nat /\ DOMAIN c.up = 1 .. Len(c.up)
  <2> HIDE DEF c
  <2> QED
    BY <1>1, Cut
<1>5. conn' = [conn EXCEPT ![k] = d]
  BY <1>2
<1>6. /\ conn' \in Seq(Connection) /\ Conns' = Conns
      /\ conn'[k].tcp = tcp /\ conn'[k].fd = c.fd /\ conn'[k].up = up2
      /\ conn'[k].asked = c.asked /\ conn'[k].answers = c.answers
      /\ \A j \in Conns : j # k => conn'[j] = conn[j]
  <2>1. IsConn(d, tcp, c.fd, up2, c.asked, c.answers)
    <3>1. tcp \in {"open", "fin", "dead", "reset", "gone"}
      OBVIOUS
    <3> HIDE DEF c, up2
    <3> QED
      BY ZenonT(30), <1>1, <1>4, <3>1, Fields
  <2> HIDE DEF d, c, up2
  <2> QED
    BY <1>1, <1>5, <2>1, ConnChanged DEF IsConn
<1> HIDE DEF up2, d
<1>7. Open' = Open /\ \A j \in Conns : conn'[j].fd = conn[j].fd
  BY <1>6 DEF Open
<1>8. polite' => polite
  BY <1>2
<1>9. Watched' /\ KnownWhileWhole' /\ PoliteReady' /\ Distinct' /\ InTurn'
  BY <1>3, <1>7, <1>8, ControllerFrame DEF Open
<1>19. arrived' \in [Conns' -> Nat] /\ Arrivals'
  <2>1. arrived \in [Conns -> Nat] /\ Arrivals
    BY DEF IInv, TypeOK
  <2>2. n \in Nat /\ n <= Len(conn'[k].up) /\ (conn'[k].tcp # "open" => n = Len(conn'[k].up))
    BY <1>4, <1>6
  <2>3. arrived' = [arrived EXCEPT ![k] = n]
    BY <1>2
  <2>4. Conns' = Conns /\ \A j \in Conns : j # k => conn'[j] = conn[j]
    BY <1>6
  <2> HIDE DEF c
  <2> QED
    BY <2>1, <2>2, <2>3, <2>4, ArrivalsChanged
<1>10. TypeOK'
  <2>1. polite' \in BOOLEAN
    BY <1>2
  <2> QED
    BY <1>3, <1>6, <1>19, <2>1 DEF IInv, TypeOK, socketVars, turnVars
<1>11. at' = at /\ bytes' = bytes /\ sock_index' = sock_index /\ control_code' = control_code
  BY <1>3 DEF turnVars
<1>12. ASSUME NEW j \in Conns, j # k PROVE InOrder(j)' /\ Settled(j)' /\ Stream(j)'
  <2>1. conn'[j] = conn[j] /\ j \in Conns' /\ InOrder(j) /\ Settled(j) /\ Stream(j)
    BY <1>3, <1>6, <1>12 DEF IInv
  <2> QED
    BY <1>8, <1>11, <2>1, Frame
<1>13. InOrder(k) /\ Stream(k)
  BY <1>3 DEF IInv
<1>14. InOrder(k)'
  BY <1>1, <1>2, <1>6, <1>7, <1>11, <1>13 DEF InOrder, Turn
<1>15. Settled(k)'
  <2> SUFFICES ASSUME polite' PROVE tcp = "fin" /\ up2 = <<>> /\ c.answers = c.asked
    BY <1>6 DEF Settled
  <2>1. tcp = "fin" /\ c.answers = c.asked
    BY <1>2
  <2>2. c.up = <<>>
    BY <1>1, <1>13, <2>1, NothingUnderWay
  <2>3. n = 0
    BY <2>2
  <2> QED
    BY <1>4, <2>1, <2>3
<1>16. NextPart(k)' = NextPart(k)
  BY <1>6, <1>11 DEF NextPart, Turn
<1>17. Stream(k)'
  <2>1. \A i \in 1 .. n : i \in DOMAIN c.up
    BY <1>4
  <2>2. \A i \in DOMAIN up2 :
          /\ up2[i].nr \in DOMAIN c.asked
          /\ up2[i].code = c.asked[up2[i].nr]
          /\ up2[i].place \in 1 .. HEADER + PayloadLen(up2[i].code)
    BY <1>4, <1>13, <2>1 DEF Stream
  <2>3. \A i \in DOMAIN up2 : i + 1 \in DOMAIN up2 => Follows(up2[i], up2[i + 1])
    BY <1>4, <1>13, <2>1 DEF Stream
  <2>4. up2 # <<>> => <<up2[1].nr, up2[1].place>> = NextPart(k)
    <3> SUFFICES ASSUME up2 # <<>> PROVE <<up2[1].nr, up2[1].place>> = NextPart(k)
      OBVIOUS
    <3>1. 1 \in 1 .. n
      BY <1>4
    <3>2. c.up # <<>> /\ up2[1] = c.up[1]
      BY <1>4, <3>1
    <3> QED
      BY <1>13, <3>2 DEF Stream
  <2>5. conn'[k].tcp # "open"
    BY <1>6
  <2> HIDE DEF c
  <2> QED
    BY <1>6, <1>16, <2>2, <2>3, <2>4, <2>5 DEF Stream
<1>18. \A j \in Conns' : InOrder(j)' /\ Settled(j)' /\ Stream(j)'
  BY <1>6, <1>12, <1>14, <1>15, <1>17
<1> QED
  BY <1>9, <1>10, <1>18, <1>19 DEF IInv

-----------------------------------------------------------------------------
(* Turns of main_loop *)

\* A step that leaves every connection as it is and is not in a turn, before
\* or after.
LEMMA OutOfTurn ==
    ASSUME IInv, conn' = conn, polite' = polite, ~Turn, ~Turn'
    PROVE  /\ Conns' = Conns /\ Open' = Open /\ fds' = fds
           /\ \A k \in Conns' : InOrder(k)' /\ Settled(k)'
           /\ at \notin Ended => \A k \in Conns' : Stream(k)'
<1>1. Conns' = Conns /\ Open' = Open
  BY DEF Conns, Open
<1>2. fds' = fds
  BY <1>1 DEF fds
<1>3. ASSUME NEW k \in Conns
      PROVE  InOrder(k)' /\ Settled(k)' /\ (at \notin Ended => Stream(k)')
  <2>1. conn'[k] = conn[k] /\ k \in Conns' /\ ~Being(k) /\ ~Being(k)'
    BY <1>1 DEF Being
  <2>2. InOrder(k) /\ Settled(k) /\ (at \notin Ended => Stream(k))
    BY DEF IInv
  <2> QED
    BY <2>1, <2>2, Frame
<1> QED
  BY <1>1, <1>2, <1>3

\* What select reports is open.
LEMMA SelectKeeps == IInv /\ Select => IInv'
<1> SUFFICES ASSUME IInv, Select PROVE IInv'
  OBVIOUS
<1>1. /\ at = "select" /\ at' = "serving"
      /\ conn' = conn /\ arrived' = arrived /\ polite' = polite /\ crashed' = crashed /\ RT_head' = RT_head
      /\ master_list' = master_list /\ head_fd' = head_fd /\ list' = list /\ freed' = freed
      /\ router_socket' = router_socket /\ router_client_socket' = router_client_socket
      /\ sock_index' = sock_index /\ bytes' = bytes /\ control_code' = control_code
  BY DEF Select, socketVars
<1>2. /\ watch_list' \subseteq master_list
      /\ watch_list' \subseteq {control_socket} \cup fds
  BY DEF Select, fds
<1>3. ~Turn /\ ~Turn' /\ at \notin Ended
  BY <1>1 DEF Turn, Ended, Dead
<1>4. /\ fds' = fds /\ Open' = Open
      /\ \A k \in Conns' : InOrder(k)' /\ Settled(k)' /\ Stream(k)'
  BY <1>1, <1>3, OutOfTurn
<1>9. arrived' \in [Conns' -> Nat] /\ Arrivals'
  BY <1>1, ArrivalsSame DEF IInv, TypeOK, Conns
<1>5. TypeOK'
  BY <1>1, <1>2, <1>9 DEF IInv, TypeOK
<1>6. Watched' /\ KnownWhileWhole' /\ PoliteReady'
  BY <1>1, <1>4 DEF IInv, Watched, KnownWhileWhole, PoliteReady
<1>7. Distinct'
  BY <1>1, <1>4 DEF IInv, Distinct
<1>8. InTurn'
  BY <1>1, <1>2, <1>3, <1>4 DEF InTurn
<1> QED
  BY <1>4, <1>5, <1>6, <1>7, <1>8, <1>9 DEF IInv

\* A new descriptor is one that nothing else has.
LEMMA AcceptKeeps == IInv /\ Accept => IInv'
<1> SUFFICES ASSUME IInv, Accept PROVE IInv'
  OBVIOUS
<1>1. PICK k \in Backlog, fd \in Descriptor :
        /\ Lowest(fd, Used)
        /\ conn' = [conn EXCEPT ![k].fd = fd]
        /\ list' = Enlisted(fd)
        /\ master_list' = master_list \cup {fd}
        /\ head_fd' = Raised(fd)
  BY DEF Accept
<1>2. /\ at = "serving" /\ at' = at /\ watch_list' = watch_list \ {control_socket}
      /\ arrived' = arrived /\ polite' = polite /\ crashed' = crashed /\ RT_head' = RT_head /\ freed' = freed
      /\ router_socket' = router_socket /\ router_client_socket' = router_client_socket
      /\ sock_index' = sock_index /\ bytes' = bytes /\ control_code' = control_code
  BY DEF Accept
<1> DEFINE c == conn[k]
           d == [c EXCEPT !.fd = fd]
<1>3. /\ k \in Conns /\ c.fd = 0 /\ c.tcp # "gone" /\ k \notin Open
  BY DEF Backlog, Open
<1>4. conn \in Seq(Connection) /\ c \in Connection
  BY <1>3, ConnType DEF IInv, TypeOK
<1>5. conn' = [conn EXCEPT ![k] = d]
  BY <1>1
<1>6. /\ conn' \in Seq(Connection) /\ Conns' = Conns
      /\ conn'[k].tcp = c.tcp /\ conn'[k].fd = fd /\ conn'[k].up = c.up
      /\ conn'[k].asked = c.asked /\ conn'[k].answers = c.answers
      /\ \A j \in Conns : j # k => conn'[j] = conn[j]
  <2>1. IsConn(d, c.tcp, fd, c.up, c.asked, c.answers)
    <3>1. /\ c.tcp \in {"open", "fin", "dead", "reset", "gone"} /\ c.up \in Seq(Part)
          /\ c.asked \in Seq(Code) /\ c.answers \in Seq(Code)
      BY <1>3, ConnType DEF IInv, TypeOK
    <3> HIDE DEF c
    <3> QED
      BY <1>4, <3>1, Fields
  <2> HIDE DEF d, c
  <2> QED
    BY <1>3, <1>4, <1>5, <2>1, ConnChanged DEF IsConn
<1>7. /\ fd \notin Used /\ fd \notin {0, 1, 2, control_socket, router_socket, router_client_socket}
      /\ fd \notin fds
  BY <1>1 DEF Lowest, Used, fds
<1> HIDE DEF d
<1>8. Open' = Open \cup {k}
  BY <1>3, <1>6, <1>7 DEF Open
<1>9. fds' = fds \cup {fd}
  <2>1. \A j \in Open : conn'[j].fd = conn[j].fd
    BY <1>3, <1>6 DEF Open
  <2> QED
    BY <1>6, <1>8, <2>1 DEF fds
<1>10. ~Turn /\ ~Turn' /\ at \notin Ended
  BY <1>2 DEF Turn, Ended, Dead
<1>11. head_fd' \in {head_fd, fd} /\ head_fd' >= head_fd /\ head_fd' >= fd
  BY <1>1, DescriptorType DEF IInv, TypeOK, Raised
<1>24. arrived' \in [Conns' -> Nat] /\ Arrivals'
  <2>1. \A j \in Conns : conn'[j].up = conn[j].up /\ conn'[j].tcp = conn[j].tcp
    BY <1>6
  <2> QED
    BY <1>2, <1>6, <2>1, ArrivalsSame DEF IInv, TypeOK
<1>12. TypeOK'
  <2>1. list' \subseteq Descriptor /\ master_list' \subseteq Descriptor /\ head_fd' \in Descriptor
        /\ watch_list' \subseteq Descriptor
    BY <1>1, <1>2, <1>11 DEF IInv, TypeOK, Enlisted
  <2> QED
    BY <1>2, <1>6, <1>24, <2>1 DEF IInv, TypeOK
<1>13. Watched'
  <2>1. master_list' = {control_socket} \cup ({router_socket'} \ {0}) \cup fds'
    BY <1>1, <1>2, <1>9 DEF IInv, Watched
  <2>2. \A e \in master_list' : e <= head_fd'
    <3>1. \A e \in master_list : e \in Nat /\ e <= head_fd
      BY DescriptorType DEF IInv, Watched, TypeOK
    <3>2. head_fd \in Nat /\ fd \in Nat
      BY DescriptorType DEF IInv, TypeOK
    <3> QED
      BY <1>1, <1>11, <3>1, <3>2
  <2> QED
    BY <2>1, <2>2 DEF Watched
<1>14. KnownWhileWhole' /\ PoliteReady'
  BY <1>1, <1>2, <1>9 DEF IInv, KnownWhileWhole, PoliteReady, Enlisted
<1>15. Distinct'
  <2>1. ASSUME NEW i \in Open', NEW j \in Open', conn'[i].fd = conn'[j].fd PROVE i = j
    <3>1. \A e \in Open : conn'[e] = conn[e] /\ conn[e].fd \in fds
      BY <1>3, <1>6 DEF Open, fds
    <3>2. CASE i \in Open /\ j \in Open
      BY <2>1, <3>1, <3>2 DEF IInv, Distinct
    <3>3. CASE i = k \/ j = k
      BY <1>6, <1>7, <1>8, <2>1, <3>1, <3>3
    <3> QED
      BY <1>8, <3>2, <3>3
  <2>2. fds' \cap {0, 1, 2, control_socket, router_socket', router_client_socket'} = {}
    BY <1>2, <1>7, <1>9 DEF IInv, Distinct
  <2>3. /\ router_socket' # 0 => router_socket' # control_socket
        /\ router_socket' # 0 => router_socket' # router_client_socket'
    BY <1>2 DEF IInv, Distinct
  <2> QED
    BY <2>1, <2>2, <2>3 DEF Distinct
<1>16. InTurn'
  BY <1>2, <1>9, <1>10 DEF IInv, InTurn
<1>17. ASSUME NEW j \in Conns, j # k PROVE InOrder(j)' /\ Settled(j)' /\ Stream(j)'
  <2>1. /\ conn'[j] = conn[j] /\ j \in Conns' /\ InOrder(j) /\ Settled(j) /\ Stream(j)
        /\ ~Being(j) /\ ~Being(j)'
    BY <1>6, <1>10, <1>17 DEF IInv, Being
  <2> QED
    BY <1>2, <2>1, Frame
<1>18. InOrder(k) /\ Settled(k) /\ Stream(k)
  BY <1>3, <1>10 DEF IInv
<1>19. InOrder(k)'
  BY <1>3, <1>6, <1>10, <1>18 DEF InOrder
<1>20. Settled(k)'
  BY <1>2, <1>6, <1>18 DEF Settled
<1>21. NextPart(k)' = NextPart(k)
  BY <1>6, <1>10 DEF NextPart
<1>22. Stream(k)'
  BY <1>6, <1>18, <1>21 DEF Stream
<1>23. \A j \in Conns' : InOrder(j)' /\ Settled(j)' /\ Stream(j)'
  BY <1>6, <1>17, <1>19, <1>20, <1>22
<1> QED
  BY <1>12, <1>13, <1>14, <1>15, <1>16, <1>23, <1>24 DEF IInv

\* What is served is open, and it is known as long as the list is whole.
LEMMA ServeKeeps == IInv /\ Serve => IInv'
<1> SUFFICES ASSUME IInv, Serve PROVE IInv'
  OBVIOUS
<1>1. PICK fd \in watch_list \ {control_socket} :
        /\ sock_index' = fd
        /\ watch_list' = watch_list \ {fd}
        /\ \E outcome \in isControl(fd) :
              at' = CASE outcome = "found" -> "header"
                      [] outcome = "missing" -> "unknown socket"
                      [] outcome = "unreadable" -> "corrupt"
  BY DEF Serve
<1>0. sock_index' = fd /\ watch_list' = watch_list \ {fd} /\ fd \in watch_list
  BY <1>1
<1>2. /\ at = "serving" /\ bytes' = 0
      /\ conn' = conn /\ arrived' = arrived /\ polite' = polite /\ crashed' = crashed /\ RT_head' = RT_head
      /\ master_list' = master_list /\ head_fd' = head_fd /\ list' = list /\ freed' = freed
      /\ router_socket' = router_socket /\ router_client_socket' = router_client_socket
      /\ control_code' = control_code
  BY DEF Serve, socketVars
<1>3. fd \in fds /\ (~freed => fd \in list)
  BY DEF IInv, InTurn, KnownWhileWhole
<1>4. isControl(fd) \subseteq {"found", "missing", "unreadable"}
  BY ControlAssumption DEF isControl
<1>5. at' \in {"header", "unknown socket", "corrupt"}
  BY <1>1, <1>4
<1>6. ~freed => at' = "header"
  <2>1. ~freed => isControl(fd) = {"found"}
    BY <1>3 DEF isControl
  <2> QED
    BY <1>1, <2>1
<1>7. Conns' = Conns /\ Open' = Open
  BY <1>2 DEF Conns, Open
<1>8. fds' = fds
  BY <1>2, <1>7 DEF fds
<1>9. ~Turn /\ at \notin Ended
  BY <1>2 DEF Turn, Ended, Dead
<1>16. arrived' \in [Conns' -> Nat] /\ Arrivals'
  BY <1>2, <1>7, ArrivalsSame DEF IInv, TypeOK
<1>10. TypeOK'
  <2>1. fd \in Descriptor /\ watch_list' \subseteq Descriptor
    BY <1>0 DEF IInv, TypeOK
  <2>3. bytes' \in 0 .. 2
    BY <1>2
  <2>2. at' \in {"select", "serving", "header", "payload", "respond"} \cup Ended
    BY <1>5 DEF Ended, Dead
  <2> QED
    BY <1>0, <1>2, <1>16, <2>1, <2>2, <2>3 DEF IInv, TypeOK
<1>11. Watched'
  BY <1>2, <1>8 DEF IInv, Watched
<1>12. KnownWhileWhole' /\ PoliteReady'
  BY <1>2, <1>5, <1>6, <1>8 DEF IInv, KnownWhileWhole, PoliteReady
<1>13. Distinct'
  BY <1>2, <1>7, <1>8 DEF IInv, Distinct
<1>14. InTurn'
  <2>1. watch_list' \subseteq {control_socket} \cup fds' /\ sock_index' \in fds' \ watch_list'
    BY <1>0, <1>3, <1>8 DEF IInv, InTurn
  <2>2. at' # "payload" /\ at' # "select"
    BY <1>5
  <2>3. bytes' = 0 /\ 0 < HEADER
    BY <1>2 DEF HEADER
  <2> QED
    BY <2>1, <2>2, <2>3 DEF InTurn
<1>15. ASSUME NEW k \in Conns' PROVE InOrder(k)' /\ Settled(k)' /\ Stream(k)'
  <2>1. k \in Conns /\ conn'[k] = conn[k] /\ InOrder(k) /\ Settled(k) /\ Stream(k)
    BY <1>2, <1>7, <1>9 DEF IInv
  <2>2. InOrder(k)' \/ ~(at' = "header")
    BY <1>2, <1>7, <2>1 DEF InOrder
  <2>3. at' # "header" => ~Turn'
    BY <1>5 DEF Turn
  <2>4. InOrder(k)'
    BY <1>2, <1>7, <2>1, <2>2, <2>3 DEF InOrder
  <2>5. Settled(k)'
    BY <1>2, <2>1 DEF Settled
  <2>6. NextPart(k) = <<Len(conn[k].answers) + 1, 1>>
    BY <1>9 DEF NextPart
  <2>7. NextPart(k)' = NextPart(k)
    <3>1. CASE Turn' /\ conn[k].fd = sock_index'
      <4>1. at' = "header" /\ bytes' + 1 = 1
        BY <1>2, <2>3, <3>1
      <4> QED
        BY <2>1, <2>6, <3>1, <4>1 DEF NextPart
    <3>2. CASE ~(Turn' /\ conn[k].fd = sock_index')
      BY <2>1, <2>6, <3>2 DEF NextPart
    <3> QED
      BY <3>1, <3>2
  <2>8. Stream(k)'
    BY <2>1, <2>7 DEF Stream
  <2> QED
    BY <2>4, <2>5, <2>8
<1> QED
  BY <1>10, <1>11, <1>12, <1>13, <1>14, <1>15, <1>16 DEF IInv

\* The sockets that INIT asks for are new ones.
LEMMA NextTurnKeeps == IInv /\ NextTurn => IInv'
<1> SUFFICES ASSUME IInv, NextTurn PROVE IInv'
  OBVIOUS
<1>1. /\ at = "serving" /\ watch_list = {}
      /\ at' = IF crashed THEN "exited" ELSE "select"
      /\ conn' = conn /\ arrived' = arrived /\ polite' = polite /\ crashed' = crashed /\ RT_head' = RT_head
      /\ watch_list' = watch_list /\ sock_index' = sock_index /\ bytes' = bytes
      /\ control_code' = control_code
  BY DEF NextTurn, turnVars
<1>2. ~Turn /\ ~Turn' /\ at \notin Ended
  BY <1>1 DEF Turn, Ended, Dead
<1>3. /\ fds' = fds /\ Open' = Open
      /\ \A k \in Conns' : InOrder(k)' /\ Settled(k)' /\ Stream(k)'
  BY <1>1, <1>2, OutOfTurn
<1>9. arrived' \in [Conns' -> Nat] /\ Arrivals'
  BY <1>1, ArrivalsSame DEF IInv, TypeOK, Conns
<1>4. InTurn'
  BY <1>1, <1>2 DEF InTurn
<1>5. at' \in {"exited", "select"}
  BY <1>1
<1>6. CASE UNCHANGED socketVars
  <2>1. /\ master_list' = master_list /\ head_fd' = head_fd /\ list' = list /\ freed' = freed
        /\ router_socket' = router_socket /\ router_client_socket' = router_client_socket
    BY <1>6 DEF socketVars
  <2>2. TypeOK'
    BY <1>1, <1>5, <1>9, <2>1 DEF IInv, TypeOK, Ended
  <2>3. Watched' /\ KnownWhileWhole' /\ PoliteReady'
    BY <1>1, <1>3, <1>5, <2>1 DEF IInv, Watched, KnownWhileWhole, PoliteReady
  <2>4. Distinct'
    BY <1>1, <1>3, <2>1 DEF IInv, Distinct
  <2> QED
    BY <1>3, <1>4, <1>9, <2>2, <2>3, <2>4 DEF IInv
<1>7. CASE \E fd, fd2 \in Descriptor :
             /\ Lowest(fd, Used) /\ Lowest(fd2, Used \cup {fd})
             /\ router_socket = 0 /\ router_socket' = fd /\ router_client_socket' = fd2
             /\ master_list' = master_list \cup {fd} /\ head_fd' = Raised(fd)
             /\ list' = list /\ freed' = freed
  <2>1. PICK fd \in Descriptor, fd2 \in Descriptor :
             /\ Lowest(fd, Used) /\ Lowest(fd2, Used \cup {fd})
             /\ router_socket = 0 /\ router_socket' = fd /\ router_client_socket' = fd2
             /\ master_list' = master_list \cup {fd} /\ head_fd' = Raised(fd)
             /\ list' = list /\ freed' = freed
    BY <1>7
  <2>2. /\ fd \notin {0, 1, 2, control_socket} /\ fd \notin fds
        /\ fd2 # fd /\ fd2 \notin fds
    BY <2>1 DEF Lowest, Used, fds
  <2>3. head_fd' \in {head_fd, fd} /\ head_fd' >= head_fd /\ head_fd' >= fd
    BY <2>1, DescriptorType DEF IInv, TypeOK, Raised
  <2>4. TypeOK'
    BY <1>1, <1>5, <1>9, <2>1, <2>3 DEF IInv, TypeOK, Ended
  <2>5. Watched'
    <3>1. master_list' = {control_socket} \cup ({router_socket'} \ {0}) \cup fds'
      BY <1>3, <2>1, <2>2 DEF IInv, Watched
    <3>2. \A e \in master_list : e \in Nat /\ e <= head_fd
      BY DescriptorType DEF IInv, Watched, TypeOK
    <3>3. head_fd \in Nat /\ fd \in Nat
      BY DescriptorType DEF IInv, TypeOK
    <3>4. \A e \in master_list' : e <= head_fd'
      BY <2>1, <2>3, <3>2, <3>3
    <3> QED
      BY <3>1, <3>4 DEF Watched
  <2>6. KnownWhileWhole' /\ PoliteReady'
    BY <1>1, <1>3, <1>5, <2>1 DEF IInv, KnownWhileWhole, PoliteReady
  <2>7. Distinct'
    <3>1. \A i, j \in Open' : conn'[i].fd = conn'[j].fd => i = j
      BY <1>1, <1>3 DEF IInv, Distinct
    <3>2. fds' \cap {0, 1, 2, control_socket, router_socket', router_client_socket'} = {}
      <4>1. fds \cap {0, 1, 2, control_socket} = {}
        BY DEF IInv, Distinct
      <4>2. router_socket' = fd /\ router_client_socket' = fd2
        BY <2>1
      <4> QED
        BY <1>3, <2>2, <4>1, <4>2
    <3> QED
      BY <2>1, <2>2, <3>1, <3>2 DEF Distinct
  <2> QED
    BY <1>3, <1>4, <1>9, <2>4, <2>5, <2>6, <2>7 DEF IInv
<1>8. CASE RT_head /\ router_socket = 0 /\ ~crashed
  <2>1. \E fd, fd2 \in Descriptor :
             /\ Lowest(fd, Used) /\ Lowest(fd2, Used \cup {fd})
             /\ router_socket' = fd /\ router_client_socket' = fd2
             /\ master_list' = master_list \cup {fd} /\ head_fd' = Raised(fd)
    BY <1>8 DEF NextTurn
  <2>2. list' = list /\ freed' = freed
    BY <1>8 DEF NextTurn
  <2> QED
    BY <1>7, <1>8, <2>1, <2>2
<1> QED
  BY <1>6, <1>8 DEF NextTurn

-----------------------------------------------------------------------------
(* control_recv_hook *)

\* Other connections than the served one, in a step of its turn.
LEMMA OthersKeep ==
    ASSUME IInv, Turn, at \notin Ended, polite' = polite, sock_index' = sock_index,
           Conns' = Conns, \A j \in Conns : j # Served => conn'[j] = conn[j]
    PROVE  \A j \in Conns : j # Served => InOrder(j)' /\ Settled(j)' /\ Stream(j)'
<1> SUFFICES ASSUME NEW j \in Conns, j # Served PROVE InOrder(j)' /\ Settled(j)' /\ Stream(j)'
  OBVIOUS
<1>1. conn[j].fd # sock_index
  BY ServedIsOne DEF IInv
<1>2. /\ conn'[j] = conn[j] /\ j \in Conns' /\ ~Being(j) /\ ~Being(j)'
      /\ InOrder(j) /\ Settled(j) /\ Stream(j)
  BY <1>1 DEF IInv, Being
<1> QED
  BY <1>2, Frame

\* The part after p.
Succ(p) == IF Last(p) THEN <<p.nr + 1, 1>> ELSE <<p.nr, p.place + 1>>

\* The parts that one call of recv returns belong to one request.
LEMMA Returned ==
    ASSUME IInv, at \in {"header", "payload"}, NEW k \in Conns, Being(k), k \in Open,
           NEW n \in 1 .. Len(conn[k].up), bytes + n <= Wanted
    PROVE  LET p == conn[k].up[n]
               nr == Len(conn[k].answers) + 1
               base == IF at = "header" THEN 0 ELSE HEADER
           IN  /\ p.nr = nr /\ p.place = base + bytes + n /\ p.code = conn[k].asked[nr]
               /\ nr \in DOMAIN conn[k].asked /\ p.code \in Code
               /\ Wanted = 2 /\ PayloadLen(p.code) \in {0, 2}
               /\ at = "payload" => PayloadLen(p.code) = 2 /\ p.code = control_code
<1> DEFINE c == conn[k]
           up == conn[k].up
           nr == Len(conn[k].answers) + 1
           base == IF at = "header" THEN 0 ELSE HEADER
<1>1. /\ conn \in Seq(Connection) /\ up \in Seq(Part) /\ c.asked \in Seq(Code)
      /\ c.answers \in Seq(Code) /\ bytes \in 0 .. 2 /\ control_code \in Code
  BY ConnType DEF IInv, TypeOK
<1>2. Stream(k) /\ InOrder(k)
  BY DEF IInv, Ended, Dead
<1>3. \A code \in Code : PayloadLen(code) \in {0, 2}
  BY DEF PayloadLen
<1>4. /\ DOMAIN up = 1 .. Len(up) /\ Len(up) \in Nat /\ 1 \in DOMAIN up /\ n \in DOMAIN up
      /\ up # <<>> /\ nr \in Nat
  <2>1. Len(conn[k].answers) \in Nat
    BY <1>1
  <2> HIDE DEF c
  <2> QED
    BY <1>1, <2>1
<1>5. \A i \in DOMAIN up :
        /\ up[i].nr \in DOMAIN c.asked /\ up[i].code = c.asked[up[i].nr]
        /\ up[i].code \in Code /\ PayloadLen(up[i].code) \in {0, 2}
  <2>1. \A i \in DOMAIN up : up[i].nr \in DOMAIN c.asked /\ up[i].code = c.asked[up[i].nr]
    BY <1>2 DEF Stream
  <2>2. \A i \in DOMAIN c.asked : c.asked[i] \in Code
    BY <1>1
  <2> HIDE DEF c, up
  <2> QED
    BY <1>3, <2>1, <2>2
<1>6. <<up[1].nr, up[1].place>> = <<nr, base + bytes + 1>>
  <2>1. <<up[1].nr, up[1].place>> = NextPart(k)
    BY <1>2, <1>4 DEF Stream
  <2>2. CASE at = "header"
    <3>1. NextPart(k) = <<nr, bytes + 1>> /\ base = 0
      BY <2>2 DEF NextPart, Being
    <3> QED
      BY <1>1, <2>1, <3>1
  <2>3. CASE at = "payload"
    <3>1. NextPart(k) = <<nr, HEADER + bytes + 1>> /\ base = HEADER
      BY <2>3 DEF NextPart, Being
    <3> QED
      BY <2>1, <3>1
  <2> QED
    BY <2>2, <2>3
<1>7. nr \in DOMAIN c.asked /\ up[1].code = c.asked[nr]
  BY <1>4, <1>5, <1>6
<1>8. at = "payload" => PayloadLen(control_code) = 2 /\ control_code = c.asked[nr]
  <2>1. at = "payload" => control_code = c.asked[nr]
    BY <1>2 DEF InOrder, Being
  <2>2. at = "payload" => bytes < PayloadLen(control_code)
    BY DEF IInv, InTurn
  <2> QED
    BY <1>1, <1>3, <2>1, <2>2
<1>9. Wanted = 2
  BY <1>8 DEF Wanted, HEADER
<1>10. n \in Nat /\ (n = 1 \/ (n = 2 /\ bytes = 0))
  BY <1>1, <1>4, <1>9
<1>11. up[n].nr = nr /\ up[n].place = base + bytes + n
  <2>1. CASE n = 1
    BY <1>6, <2>1
  <2>2. CASE n = 2 /\ bytes = 0
    <3>1. Follows(up[1], up[2])
      BY <1>2, <1>4, <2>2 DEF Stream
    <3>2. up[1].place = base + 1 /\ up[1].nr = nr
      BY <1>6, <2>2 DEF HEADER
    <3>3. ~Last(up[1])
      <4>1. CASE at = "header"
        BY <1>4, <1>5, <3>2, <4>1 DEF Last, HEADER
      <4>2. CASE at = "payload"
        BY <1>7, <1>8, <3>2, <4>2 DEF Last, HEADER
      <4> QED
        BY <4>1, <4>2
    <3>4. up[2].nr = nr /\ up[2].place = base + 1 + 1
      BY <3>1, <3>2, <3>3 DEF Follows
    <3> QED
      BY <2>2, <3>4 DEF HEADER
  <2> QED
    BY <1>10, <2>1, <2>2
<1> HIDE DEF c, up, nr, base
<1>12. up[n].code = c.asked[nr] /\ up[n].code \in Code /\ PayloadLen(up[n].code) \in {0, 2}
  BY <1>4, <1>5, <1>11
<1>13. at = "payload" => PayloadLen(up[n].code) = 2 /\ up[n].code = control_code
  BY <1>8, <1>12
<1> QED
  BY <1>7, <1>9, <1>11, <1>12, <1>13 DEF c, up, nr, base

\* What is received is taken from the front, and the router goes on behind it.
LEMMA ReceiveKeeps == IInv /\ Receive => IInv'
<1> SUFFICES ASSUME IInv, Receive PROVE IInv'
  OBVIOUS
<1>0. PICK k : k = Served
  OBVIOUS
<1> DEFINE c == conn[k]
           nr == Len(c.answers) + 1
           base == IF at = "header" THEN 0 ELSE HEADER
<1>1. PICK n \in 1 .. arrived[k] :
        /\ bytes + n <= Wanted
        /\ conn' = [conn EXCEPT ![k].up = SubSeq(@, n + 1, Len(@))]
        /\ arrived' = [arrived EXCEPT ![k] = @ - n]
        /\ control_code' = IF bytes + n = Wanted /\ at = "header" THEN c.up[n].code ELSE control_code
        /\ bytes' = IF bytes + n = Wanted THEN 0 ELSE bytes + n
        /\ at' = CASE bytes + n # Wanted -> at
                   [] bytes + n = Wanted /\ at = "header" /\ PayloadLen(control_code') # 0 -> "payload"
                   [] OTHER -> "respond"
  BY <1>0 DEF Receive
<1>2. /\ at \in {"header", "payload"}
      /\ master_list' = master_list /\ head_fd' = head_fd /\ list' = list /\ freed' = freed
      /\ router_socket' = router_socket /\ router_client_socket' = router_client_socket
      /\ watch_list' = watch_list /\ sock_index' = sock_index /\ RT_head' = RT_head
      /\ crashed' = crashed /\ polite' = polite
  BY DEF Receive, socketVars
<1>3. Turn /\ at \notin Ended
  BY <1>2 DEF Turn, Ended, Dead
<1>4. k \in Open /\ k \in Conns /\ c.fd = sock_index /\ Being(k)
  BY <1>0, <1>3, ServedIsOne DEF IInv, Being
<1>5. /\ conn \in Seq(Connection) /\ c \in Connection /\ c.up \in Seq(Part)
      /\ c.tcp \in {"open", "fin", "dead", "reset", "gone"} /\ c.fd \in Descriptor
      /\ c.asked \in Seq(Code) /\ c.answers \in Seq(Code) /\ bytes \in 0 .. 2 /\ control_code \in Code
  BY <1>4, ConnType DEF IInv, TypeOK
<1>26. arrived \in [Conns -> Nat] /\ Arrivals /\ arrived[k] \in Nat /\ n \in 1 .. Len(c.up)
  <2>1. arrived \in [Conns -> Nat] /\ Arrivals
    BY DEF IInv, TypeOK
  <2>2. arrived[k] \in Nat /\ arrived[k] <= Len(c.up) /\ Len(c.up) \in Nat
    BY <1>4, <1>5, <2>1 DEF Arrivals
  <2> QED
    BY <1>1, <2>1, <2>2
<1> DEFINE p == c.up[n]
           up2 == SubSeq(c.up, n + 1, Len(c.up))
           d == [c EXCEPT !.up = up2]
           m == Len(c.up)
<1>6. /\ p.nr = nr /\ p.place = base + bytes + n /\ p.code = c.asked[nr]
      /\ nr \in DOMAIN c.asked /\ p.code \in Code
      /\ Wanted = 2 /\ PayloadLen(p.code) \in {0, 2}
      /\ at = "payload" => PayloadLen(p.code) = 2 /\ p.code = control_code
  BY <1>1, <1>2, <1>4, <1>26, Returned
<1>7. /\ m \in Nat /\ n \in 1 .. m /\ DOMAIN c.up = 1 .. m
      /\ up2 \in Seq(Part) /\ Len(up2) = m - n /\ DOMAIN up2 = 1 .. m - n
      /\ \A i \in 1 .. m - n : up2[i] = c.up[n + i]
  <2>1. n \in 0 .. Len(c.up)
    BY <1>26
  <2> HIDE DEF c
  <2> QED
    BY <1>5, <1>26, <2>1, Cut
<1>8. conn' = [conn EXCEPT ![k] = d]
  BY <1>1
<1>9. /\ conn' \in Seq(Connection) /\ Conns' = Conns
      /\ conn'[k].tcp = c.tcp /\ conn'[k].fd = c.fd /\ conn'[k].up = up2
      /\ conn'[k].asked = c.asked /\ conn'[k].answers = c.answers
      /\ \A j \in Conns : j # k => conn'[j] = conn[j]
  <2>1. IsConn(d, c.tcp, c.fd, up2, c.asked, c.answers)
    <3> HIDE DEF c, up2
    <3> QED
      BY <1>5, <1>7, Fields
  <2> HIDE DEF d, c, up2
  <2> QED
    BY <1>4, <1>5, <1>8, <2>1, ConnChanged DEF IsConn
<1> HIDE DEF d, up2, p, nr, base, m
<1>10. /\ bytes + n \in {1, 2} /\ (at = "header" \/ at = "payload")
       /\ control_code' \in Code /\ bytes' \in 0 .. 2
       /\ at' \in {"header", "payload", "respond"}
  <2>1. bytes + n \in {1, 2} /\ bytes' \in 0 .. 2
    <3>1. bytes + n <= 2 /\ bytes' = IF bytes + n = 2 THEN 0 ELSE bytes + n
      BY <1>1, <1>6
    <3>2. bytes \in Nat /\ n \in Nat \ {0}
      BY <1>5, <1>7
    <3> QED
      BY <3>1, <3>2
  <2>2. control_code' \in Code
    BY <1>1, <1>5, <1>6 DEF p
  <2>3. at' \in {"header", "payload", "respond"}
    BY <1>1, <1>2
  <2> QED
    BY <1>2, <2>1, <2>2, <2>3
\* The three ways to go on.
<1>11. bytes + n # 2 =>
         at' = at /\ bytes' = bytes + n /\ control_code' = control_code
  BY <1>1, <1>6
<1>12. bytes + n = 2 => bytes' = 0 /\ control_code' = p.code
  BY <1>1, <1>2, <1>6 DEF p
<1>13. bytes + n = 2 /\ at = "header" /\ PayloadLen(p.code) # 0 => at' = "payload"
  BY <1>1, <1>6, <1>12
<1>14. bytes + n = 2 /\ (at = "payload" \/ PayloadLen(p.code) = 0) => at' = "respond"
  BY <1>1, <1>6, <1>12
<1>25. /\ at = "header" => p.place = bytes + n
       /\ at = "payload" => p.place = HEADER + (bytes + n)
  <2>1. /\ at = "header" => base = 0
        /\ at = "payload" => base = HEADER
    BY DEF base
  <2>2. bytes \in Nat /\ n \in Nat /\ HEADER \in Nat
    BY <1>5, <1>7 DEF HEADER
  <2>3. p.place = base + bytes + n
    BY <1>6
  <2> QED
    BY <2>1, <2>2, <2>3
<1>15. NextPart(k)' = Succ(p)
  <2>1. /\ at' = "header" => NextPart(k)' = <<nr, bytes' + 1>>
        /\ at' = "payload" => NextPart(k)' = <<nr, HEADER + bytes' + 1>>
        /\ at' = "respond" => NextPart(k)' = <<nr + 1, 1>>
    <3>1. Turn' /\ conn'[k].fd = sock_index'
      BY <1>2, <1>4, <1>9, <1>10 DEF Turn
    <3>2. Len(conn'[k].answers) + 1 = nr
      BY <1>9 DEF nr
    <3> QED
      BY <3>1, <3>2 DEF NextPart
  <2>2. CASE at = "header" /\ bytes + n # 2
    <3>1. p.place = 1 /\ ~Last(p)
      BY <1>6, <1>10, <1>25, <2>2 DEF Last, HEADER
    <3>2. Succ(p) = <<nr, 2>>
      BY <1>6, <3>1 DEF Succ
    <3>3. at' = "header" /\ bytes' + 1 = 2
      BY <1>10, <1>11, <2>2
    <3> QED
      BY <2>1, <3>2, <3>3
  <2>3. CASE at = "header" /\ bytes + n = 2 /\ PayloadLen(p.code) # 0
    <3>1. p.place = 2 /\ ~Last(p)
      BY <1>6, <1>25, <2>3 DEF Last, HEADER
    <3>2. Succ(p) = <<nr, 3>>
      BY <1>6, <3>1 DEF Succ
    <3>3. at' = "payload" /\ HEADER + bytes' + 1 = 3
      BY <1>12, <1>13, <2>3 DEF HEADER
    <3> QED
      BY <2>1, <3>2, <3>3
  <2>4. CASE at = "header" /\ bytes + n = 2 /\ PayloadLen(p.code) = 0
    <3>1. p.place = 2 /\ Last(p)
      BY <1>6, <1>25, <2>4 DEF Last, HEADER
    <3>2. Succ(p) = <<nr + 1, 1>>
      BY <1>6, <3>1 DEF Succ
    <3>3. at' = "respond"
      BY <1>14, <2>4
    <3> QED
      BY <2>1, <3>2, <3>3
  <2>5. CASE at = "payload" /\ bytes + n # 2
    <3>1. p.place = 3 /\ ~Last(p)
      BY <1>6, <1>10, <1>25, <2>5 DEF Last, HEADER
    <3>2. Succ(p) = <<nr, 4>>
      BY <1>6, <3>1 DEF Succ
    <3>3. at' = "payload" /\ HEADER + bytes' + 1 = 4
      BY <1>10, <1>11, <2>5 DEF HEADER
    <3> QED
      BY <2>1, <3>2, <3>3
  <2>6. CASE at = "payload" /\ bytes + n = 2
    <3>1. p.place = 4 /\ Last(p)
      BY <1>6, <1>25, <2>6 DEF Last, HEADER
    <3>2. Succ(p) = <<nr + 1, 1>>
      BY <1>6, <3>1 DEF Succ
    <3>3. at' = "respond"
      BY <1>14, <2>6
    <3> QED
      BY <2>1, <3>2, <3>3
  <2> QED
    BY <1>6, <1>10, <2>2, <2>3, <2>4, <2>5, <2>6
<1>16. \A j \in Conns : conn'[j].fd = conn[j].fd
  BY <1>9
<1>17. Watched' /\ KnownWhileWhole' /\ PoliteReady' /\ Distinct'
  <2>1. at' # "unknown socket" /\ at' # "looping" /\ at' # "SIGPIPE"
    BY <1>10
  <2> QED
    BY <1>2, <1>9, <1>16, <2>1, TurnFrame
<1>27. arrived' \in [Conns' -> Nat] /\ Arrivals'
  <2>1. /\ arrived[k] <= Len(c.up) /\ (c.tcp # "open" => arrived[k] = Len(c.up))
        /\ arrived' = [arrived EXCEPT ![k] = arrived[k] - n]
    BY <1>1, <1>4, <1>26 DEF Arrivals
  <2>2. /\ arrived[k] - n \in Nat /\ arrived[k] - n <= m - n
        /\ (c.tcp # "open" => arrived[k] - n = m - n)
    BY <1>1, <1>7, <1>26, <2>1 DEF m
  <2> HIDE DEF c
  <2> QED
    BY <1>4, <1>7, <1>9, <1>26, <2>1, <2>2, ArrivalsChanged
<1>18. TypeOK'
  <2>1. at' \in {"select", "serving", "header", "payload", "respond"} \cup Ended
    BY <1>10
  <2> QED
    BY <1>2, <1>9, <1>10, <1>27, <2>1 DEF IInv, TypeOK
<1>19. InTurn'
  <2>1. fds' = fds
    BY <1>9, <1>16, SameDescriptors
  <2>2. watch_list' \subseteq {control_socket} \cup fds' /\ sock_index' \in fds' \ watch_list'
    BY <1>2, <1>3, <2>1 DEF IInv, InTurn
  <2>3. at' = "header" => bytes' < HEADER
    <3>1. at' = "header" => bytes + n # 2
      BY <1>6, <1>10, <1>13, <1>14
    <3> QED
      BY <1>10, <1>11, <3>1 DEF HEADER
  <2>4. at' = "payload" => bytes' < PayloadLen(control_code')
    <3>1. CASE bytes + n = 2
      BY <1>6, <1>10, <1>12, <1>14, <3>1
    <3>2. CASE bytes + n # 2
      BY <1>6, <1>10, <1>11, <3>2
    <3> QED
      BY <3>1, <3>2
  <2>5. at' # "select"
    BY <1>10
  <2> QED
    BY <2>2, <2>3, <2>4, <2>5 DEF InTurn
<1>20. InOrder(k) /\ Settled(k) /\ Stream(k)
  BY <1>3, <1>4 DEF IInv
<1>21. InOrder(k)'
  <2>1. Len(c.answers) \in Nat /\ Len(c.asked) \in Nat /\ DOMAIN c.asked = 1 .. Len(c.asked)
    BY <1>5
  <2>2. Len(c.answers) < Len(c.asked)
    BY <1>6, <2>1 DEF nr
  <2>3. at' # "header" => control_code' = c.asked[nr]
    <3>1. CASE bytes + n = 2
      BY <1>6, <1>12, <3>1
    <3>2. CASE bytes + n # 2
      BY <1>6, <1>10, <1>11, <3>2
    <3> QED
      BY <3>1, <3>2
  <2>4. c.fd # 0 /\ c.tcp # "gone" /\ \A i \in DOMAIN c.answers : c.answers[i] = c.asked[i]
    BY <1>4, <1>20 DEF InOrder, Open
  <2> HIDE DEF c
  <2> QED
    BY <1>9, <2>1, <2>2, <2>3, <2>4 DEF InOrder, nr
<1>22. Settled(k)'
  <2>1. c.up # <<>>
    BY <1>7 DEF m
  <2>2. ~polite \/ c.tcp = "open"
    BY <1>20, <2>1 DEF Settled
  <2> HIDE DEF c
  <2> QED
    BY <1>2, <1>9, <2>2 DEF Settled
<1>23. Stream(k)'
  <2>1. \A i \in 1 .. m - n : n + i \in DOMAIN c.up /\ (i + 1 \in 1 .. m - n => n + i + 1 \in DOMAIN c.up)
    BY <1>7
  <2>2. \A i \in DOMAIN up2 :
          /\ up2[i].nr \in DOMAIN c.asked
          /\ up2[i].code = c.asked[up2[i].nr]
          /\ up2[i].place \in 1 .. HEADER + PayloadLen(up2[i].code)
    <3>1. \A i \in DOMAIN c.up :
            /\ c.up[i].nr \in DOMAIN c.asked
            /\ c.up[i].code = c.asked[c.up[i].nr]
            /\ c.up[i].place \in 1 .. HEADER + PayloadLen(c.up[i].code)
      BY <1>20 DEF Stream
    <3>2. \A i \in DOMAIN up2 : n + i \in DOMAIN c.up /\ up2[i] = c.up[n + i]
      BY <1>7, <2>1
    <3> HIDE DEF c
    <3> QED
      BY <3>1, <3>2
  <2>3. \A i \in DOMAIN c.up : i + 1 \in DOMAIN c.up => Follows(c.up[i], c.up[i + 1])
    BY <1>20 DEF Stream
  <2>4. \A i \in DOMAIN up2 : i + 1 \in DOMAIN up2 => Follows(up2[i], up2[i + 1])
    <3> SUFFICES ASSUME NEW i \in DOMAIN up2, i + 1 \in DOMAIN up2
                 PROVE  Follows(up2[i], up2[i + 1])
      OBVIOUS
    <3>1. up2[i] = c.up[n + i] /\ up2[i + 1] = c.up[n + i + 1]
      <4>1. i \in 1 .. m - n /\ i + 1 \in 1 .. m - n /\ n + (i + 1) = n + i + 1
        BY <1>7
      <4> HIDE DEF c
      <4> QED
        BY <1>7, <4>1
    <3>2. n + i \in DOMAIN c.up /\ (n + i) + 1 \in DOMAIN c.up /\ (n + i) + 1 = n + i + 1
      BY <1>7, <2>1
    <3> QED
      BY <2>3, <3>1, <3>2
  <2>5. up2 # <<>> => <<up2[1].nr, up2[1].place>> = NextPart(k)'
    <3> SUFFICES ASSUME up2 # <<>> PROVE <<up2[1].nr, up2[1].place>> = Succ(p)
      BY <1>15
    <3>1. 1 \in 1 .. m - n /\ n + 1 \in DOMAIN c.up /\ n \in DOMAIN c.up
      BY <1>7
    <3>2. up2[1] = c.up[n + 1] /\ Follows(p, c.up[n + 1])
      BY <1>7, <2>3, <3>1 DEF p
    <3> HIDE DEF c
    <3> QED
      BY <3>2 DEF Follows, Succ
  <2>6. c.tcp = "open" => c.up # <<>> /\ c.up[m].nr = Len(c.asked) /\ Last(c.up[m])
    <3>1. c.up # <<>>
      BY <1>7 DEF m
    <3> QED
      BY <1>20, <3>1 DEF Stream, m
  <2>7. c.tcp = "open" =>
          IF up2 = <<>> THEN NextPart(k)' = <<Len(c.asked) + 1, 1>>
          ELSE up2[Len(up2)].nr = Len(c.asked) /\ Last(up2[Len(up2)])
    <3>1. CASE up2 = <<>>
      <4>1. m - n = 0
        BY <1>7, <3>1
      <4>2. m = n
        BY <1>7, <4>1
      <4>3. c.tcp = "open" => p.nr = Len(c.asked) /\ Last(p)
        BY <2>6, <4>2 DEF p
      <4> HIDE DEF c
      <4> QED
        BY <1>15, <3>1, <4>3 DEF Succ
    <3>2. CASE up2 # <<>>
      <4>1. m - n \in 1 .. m - n /\ n + (m - n) = m
        BY <1>7, <3>2
      <4>2. up2[Len(up2)] = c.up[m]
        BY <1>7, <4>1
      <4> QED
        BY <2>6, <3>2, <4>2
    <3> QED
      BY <3>1, <3>2
  <2> HIDE DEF c
  <2> QED
    BY <1>9, <2>2, <2>4, <2>5, <2>7 DEF Stream
<1>24. \A j \in Conns' : InOrder(j)' /\ Settled(j)' /\ Stream(j)'
  <2>1. \A j \in Conns : j # k => InOrder(j)' /\ Settled(j)' /\ Stream(j)'
    BY <1>0, <1>2, <1>3, <1>9, OthersKeep
  <2> QED
    BY <1>9, <1>21, <1>22, <1>23, <2>1
<1> QED
  BY <1>17, <1>18, <1>19, <1>24, <1>27 DEF IInv

\* The connection that has ended is forgotten everywhere; if others are open,
\* the list is not whole any more.
LEMMA RemoveKeeps == IInv /\ Remove => IInv'
<1> SUFFICES ASSUME IInv, Remove PROVE IInv'
  OBVIOUS
<1>0. PICK k : k = Served
  OBVIOUS
<1> DEFINE c == conn[k]
           d == [[c EXCEPT !.fd = 0] EXCEPT !.tcp = "gone"]
<1>1. /\ at \in {"header", "payload"} /\ at' = "serving"
      /\ c.up = <<>> /\ c.tcp \in {"fin", "dead"}
      /\ conn' = [conn EXCEPT ![k].fd = 0, ![k].tcp = "gone"]
      /\ list' = {} /\ freed' = (freed \/ list \ {sock_index} # {})
      /\ master_list' = master_list \ {sock_index} /\ head_fd' = head_fd
      /\ router_socket' = router_socket /\ router_client_socket' = router_client_socket
      /\ watch_list' = watch_list /\ sock_index' = sock_index /\ RT_head' = RT_head
      /\ bytes' = bytes /\ control_code' = control_code
      /\ crashed' = crashed /\ polite' = polite /\ arrived' = arrived
  BY <1>0 DEF Remove, EndSeen, Forgotten, turnVars
<1>2. Turn /\ ~Turn' /\ at \notin Ended
  BY <1>1 DEF Turn, Ended, Dead
<1>3. /\ k \in Open /\ k \in Conns /\ c.fd = sock_index /\ sock_index # 0
      /\ \A j \in Conns : conn[j].fd = sock_index => j = k
  BY <1>0, <1>2, ServedIsOne DEF IInv
<1>4. /\ conn \in Seq(Connection) /\ c \in Connection /\ c.up \in Seq(Part)
      /\ c.asked \in Seq(Code) /\ c.answers \in Seq(Code)
  BY <1>3, ConnType DEF IInv, TypeOK
<1>5. conn' = [conn EXCEPT ![k] = d]
  BY <1>1
<1>6. /\ conn' \in Seq(Connection) /\ Conns' = Conns
      /\ conn'[k].tcp = "gone" /\ conn'[k].fd = 0 /\ conn'[k].up = c.up
      /\ conn'[k].asked = c.asked /\ conn'[k].answers = c.answers
      /\ \A j \in Conns : j # k => conn'[j] = conn[j]
  <2>1. IsConn(d, "gone", 0, c.up, c.asked, c.answers)
    <3>1. 0 \in Descriptor
      BY DescriptorType
    <3>2. "gone" \in {"open", "fin", "dead", "reset", "gone"}
      OBVIOUS
    <3> HIDE DEF c
    <3> QED
      BY <1>4, <3>1, <3>2, Fields
  <2> HIDE DEF d, c
  <2> QED
    BY <1>3, <1>4, <1>5, <2>1, ConnChanged DEF IsConn
<1> HIDE DEF d
<1>7. Open' = Open \ {k} /\ \A j \in Open' : conn'[j] = conn[j]
  BY <1>3, <1>6 DEF Open
<1>8. fds' = fds \ {sock_index}
  <2>1. \A j \in Open : conn[j].fd = sock_index <=> j = k
    BY <1>3 DEF Open
  <2> QED
    BY <1>3, <1>7, <2>1 DEF fds
<1>22. arrived' \in [Conns' -> Nat] /\ Arrivals'
  <2>1. c.tcp # "open" /\ conn'[k].tcp # "open"
    BY <1>1, <1>6
  <2>2. \A j \in Conns : /\ conn'[j].up = conn[j].up
                         /\ conn'[j].tcp = "open" <=> conn[j].tcp = "open"
    BY <1>6, <2>1
  <2> QED
    BY <1>1, <1>6, <2>2, ArrivalsSame DEF IInv, TypeOK
<1>9. TypeOK'
  <2>1. at' \in {"select", "serving", "header", "payload", "respond"} \cup Ended
    BY <1>1
  <2>2. list' \subseteq Descriptor /\ master_list' \subseteq Descriptor
    BY <1>1 DEF IInv, TypeOK
  <2>3. freed' \in BOOLEAN
    BY <1>1
  <2> QED
    BY <1>1, <1>6, <1>22, <2>1, <2>2, <2>3 DEF IInv, TypeOK
<1>10. sock_index \in fds /\ sock_index \notin watch_list
  BY <1>2 DEF IInv, InTurn
<1>11. sock_index # control_socket /\ sock_index # router_socket
  BY <1>10 DEF IInv, Distinct
<1>12. Watched'
  <2>1. master_list' = {control_socket} \cup ({router_socket'} \ {0}) \cup fds'
    BY <1>1, <1>8, <1>11 DEF IInv, Watched
  <2>2. \A e \in master_list' : e <= head_fd'
    BY <1>1 DEF IInv, Watched
  <2> QED
    BY <2>1, <2>2 DEF Watched
<1>13. KnownWhileWhole'
  <2> SUFFICES ASSUME ~freed' PROVE list' = fds'
    BY <1>1 DEF KnownWhileWhole
  <2>1. ~freed /\ list \ {sock_index} = {}
    BY <1>1
  <2>2. fds \subseteq {sock_index}
    BY <2>1 DEF IInv, KnownWhileWhole
  <2> QED
    BY <1>1, <1>8, <2>2
<1>14. PoliteReady'
  BY <1>1 DEF PoliteReady
<1>15. Distinct'
  <2>1. \A i, j \in Open' : conn'[i].fd = conn'[j].fd => i = j
    BY <1>7 DEF IInv, Distinct
  <2>2. fds' \cap {0, 1, 2, control_socket, router_socket', router_client_socket'} = {}
    BY <1>1, <1>8 DEF IInv, Distinct
  <2>3. /\ router_socket' # 0 => router_socket' # control_socket
        /\ router_socket' # 0 => router_socket' # router_client_socket'
    BY <1>1 DEF IInv, Distinct
  <2> QED
    BY <2>1, <2>2, <2>3 DEF Distinct
<1>16. InTurn'
  BY <1>1, <1>2, <1>8, <1>10 DEF IInv, InTurn
<1>17. InOrder(k) /\ Settled(k)
  BY <1>3 DEF IInv
<1>18. InOrder(k)'
  <2>1. ~(k \in Open')
    BY <1>7
  <2> HIDE DEF c
  <2>2. /\ Len(c.answers) <= Len(c.asked)
        /\ \A i \in DOMAIN c.answers : c.answers[i] = c.asked[i]
    BY <1>17 DEF InOrder, c
  <2> QED
    BY <1>6, <2>1, <2>2 DEF InOrder
<1>19. Settled(k)'
  <2>1. polite => c.answers = c.asked
    BY <1>1, <1>17 DEF Settled
  <2> HIDE DEF c
  <2> QED
    BY <1>1, <1>6, <2>1 DEF Settled
<1>20. Stream(k)'
  <2> HIDE DEF c
  <2>1. conn'[k].up = <<>> /\ conn'[k].tcp # "open" /\ DOMAIN conn'[k].up = {}
    BY <1>1, <1>6
  <2> QED
    BY <2>1 DEF Stream
<1>21. \A j \in Conns' : InOrder(j)' /\ Settled(j)' /\ Stream(j)'
  <2>1. \A j \in Conns : j # k => InOrder(j)' /\ Settled(j)' /\ Stream(j)'
    BY <1>0, <1>1, <1>2, <1>6, OthersKeep
  <2> QED
    BY <1>6, <1>18, <1>19, <1>20, <2>1
<1> QED
  BY <1>9, <1>12, <1>13, <1>14, <1>15, <1>16, <1>21, <1>22 DEF IInv

\* The response has the code of the request.
LEMMA OwnCode == \A code \in Code : Response(code) = code
BY DEF Response, Code, INIT, ROUTING_TABLE, UPDATE, CRASH, author_response, init_response,
       routing_table_response, update_response, crash_response

\* The answer is the next one that is due.
LEMMA TriageKeeps == IInv /\ Triage => IInv'
<1> SUFFICES ASSUME IInv, Triage PROVE IInv'
  OBVIOUS
<1>0. PICK k : k = Served
  OBVIOUS
<1> DEFINE c == conn[k]
<1>1. PICK tcp \in {"open", "fin", "dead"} :
        /\ c.tcp \in {"open", "fin"} /\ (tcp = "open" <=> c.tcp = "open")
        /\ conn' = [conn EXCEPT ![k].answers = Append(@, Response(control_code)), ![k].tcp = tcp]
  BY <1>0 DEF Triage
<1>2. /\ at = "respond" /\ at' = "serving"
      /\ RT_head' = (RT_head \/ control_code = INIT) /\ crashed' = (crashed \/ control_code = CRASH)
      /\ master_list' = master_list /\ head_fd' = head_fd /\ list' = list /\ freed' = freed
      /\ router_socket' = router_socket /\ router_client_socket' = router_client_socket
      /\ watch_list' = watch_list /\ sock_index' = sock_index
      /\ bytes' = bytes /\ control_code' = control_code /\ polite' = polite /\ arrived' = arrived
  BY DEF Triage, socketVars, turnVars
<1>3. Turn /\ ~Turn' /\ at \notin Ended
  BY <1>2 DEF Turn, Ended, Dead
<1>4. k \in Open /\ k \in Conns /\ c.fd = sock_index
  BY <1>0, <1>3, ServedIsOne DEF IInv
<1>5. /\ conn \in Seq(Connection) /\ c \in Connection /\ c.up \in Seq(Part) /\ c.fd \in Descriptor
      /\ c.asked \in Seq(Code) /\ c.answers \in Seq(Code) /\ control_code \in Code
  BY <1>4, ConnType DEF IInv, TypeOK
<1>6. InOrder(k) /\ Settled(k) /\ Stream(k)
  BY <1>3, <1>4 DEF IInv
<1> DEFINE n == Len(c.answers)
           answers2 == Append(c.answers, control_code)
           d == [[c EXCEPT !.answers = answers2] EXCEPT !.tcp = tcp]
<1>7. /\ n \in Nat /\ Len(c.asked) \in Nat /\ n + 1 <= Len(c.asked)
      /\ control_code = c.asked[n + 1] /\ c.fd # 0
      /\ \A i \in 1 .. n : c.answers[i] = c.asked[i]
  <2>1. n \in Nat /\ Len(c.asked) \in Nat /\ DOMAIN c.answers = 1 .. n
    BY <1>5
  <2>2. /\ n < Len(c.asked) /\ control_code = c.asked[n + 1] /\ c.fd # 0
        /\ \A i \in DOMAIN c.answers : c.answers[i] = c.asked[i]
    BY <1>2, <1>3, <1>4, <1>6 DEF InOrder, Open
  <2> HIDE DEF c
  <2> QED
    BY <2>1, <2>2
<1>8. /\ answers2 \in Seq(Code) /\ Len(answers2) = n + 1 /\ DOMAIN answers2 = 1 .. n + 1
      /\ \A i \in 1 .. n + 1 : answers2[i] = IF i = n + 1 THEN control_code ELSE c.answers[i]
  BY <1>5
<1>9. conn' = [conn EXCEPT ![k] = d]
  <2>1. Response(control_code) = control_code
    BY <1>5, OwnCode
  <2> QED
    BY <1>1, <2>1
<1>10. /\ conn' \in Seq(Connection) /\ Conns' = Conns
       /\ conn'[k].tcp = tcp /\ conn'[k].fd = c.fd /\ conn'[k].up = c.up
       /\ conn'[k].asked = c.asked /\ conn'[k].answers = answers2
       /\ \A j \in Conns : j # k => conn'[j] = conn[j]
  <2>1. IsConn(d, tcp, c.fd, c.up, c.asked, answers2)
    <3>1. tcp \in {"open", "fin", "dead", "reset", "gone"}
      OBVIOUS
    <3> HIDE DEF c, answers2
    <3> QED
      BY ZenonT(30), <1>5, <1>8, <3>1, Fields
  <2> HIDE DEF d, c, answers2
  <2> QED
    BY <1>4, <1>5, <1>9, <2>1, ConnChanged DEF IsConn
<1> HIDE DEF d, answers2
<1>11. \A j \in Conns : conn'[j].fd = conn[j].fd
  BY <1>10
<1>12. Watched' /\ KnownWhileWhole' /\ PoliteReady' /\ Distinct'
  <2>1. at' # "unknown socket" /\ at' # "looping" /\ at' # "SIGPIPE"
    BY <1>2
  <2> QED
    BY <1>2, <1>10, <1>11, <2>1, TurnFrame
<1>20. arrived' \in [Conns' -> Nat] /\ Arrivals'
  <2>1. \A j \in Conns : /\ conn'[j].up = conn[j].up
                         /\ conn'[j].tcp = "open" <=> conn[j].tcp = "open"
    BY <1>1, <1>10
  <2> QED
    BY <1>2, <1>10, <2>1, ArrivalsSame DEF IInv, TypeOK
<1>13. TypeOK'
  <2>1. at' \in {"select", "serving", "header", "payload", "respond"} \cup Ended
    BY <1>2
  <2>2. RT_head' \in BOOLEAN /\ crashed' \in BOOLEAN
    BY <1>2
  <2> QED
    BY <1>2, <1>10, <1>20, <2>1, <2>2 DEF IInv, TypeOK
<1>14. InTurn'
  <2>1. fds' = fds
    BY <1>10, <1>11, SameDescriptors
  <2> QED
    BY <1>2, <1>3, <2>1 DEF IInv, InTurn
<1>15. InOrder(k)'
  <2> HIDE DEF c, n
  <2>1. \A i \in 1 .. n + 1 : answers2[i] = c.asked[i]
    BY <1>7, <1>8
  <2>2. c.fd # 0 /\ tcp # "gone" /\ Len(answers2) <= Len(c.asked)
    BY <1>7, <1>8
  <2> QED
    BY <1>3, <1>8, <1>10, <2>1, <2>2 DEF InOrder
<1>16. Settled(k)'
  <2>1. c.answers # c.asked
    BY <1>7
  <2>2. polite => c.tcp = "open"
    BY <1>6, <2>1 DEF Settled
  <2> HIDE DEF c
  <2> QED
    BY <1>1, <1>2, <1>10, <2>2 DEF Settled
<1>17. NextPart(k)' = NextPart(k)
  <2>1. NextPart(k) = <<n + 1 + 1, 1>>
    BY <1>2, <1>3, <1>4 DEF NextPart
  <2>2. NextPart(k)' = <<n + 1 + 1, 1>>
    BY <1>3, <1>8, <1>10 DEF NextPart
  <2> QED
    BY <2>1, <2>2
<1>18. Stream(k)'
  <2>1. conn'[k].tcp = "open" <=> c.tcp = "open"
    BY <1>1, <1>10
  <2> QED
    BY <1>6, <1>10, <1>17, <2>1 DEF Stream
<1>19. \A j \in Conns' : InOrder(j)' /\ Settled(j)' /\ Stream(j)'
  <2>1. \A j \in Conns : j # k => InOrder(j)' /\ Settled(j)' /\ Stream(j)'
    BY <1>0, <1>2, <1>3, <1>10, OthersKeep
  <2> QED
    BY <1>10, <1>15, <1>16, <1>18, <2>1
<1> QED
  BY <1>12, <1>13, <1>14, <1>19, <1>20 DEF IInv

\* The ends that are bugs: nothing is known of the streams any more, and
\* without an impolite controller there is no such end in recvALL or sendALL.
LEMMA EndingKeeps ==
    ASSUME IInv, RemoveCorrupt \/ Loop \/ FreesNothing \/ SendFails
    PROVE  IInv'
<1>1. /\ Turn /\ at \notin Ended /\ at' \in {"looping", "SIGPIPE", "corrupt"}
      /\ at' = "looping" => Loop
      /\ at' = "SIGPIPE" => SendFails
  BY DEF RemoveCorrupt, Loop, FreesNothing, SendFails, Turn, Ended, Dead
<1>2. /\ master_list' = master_list /\ head_fd' = head_fd /\ list' = list /\ freed' = freed
      /\ router_socket' = router_socket /\ router_client_socket' = router_client_socket
      /\ watch_list' = watch_list /\ sock_index' = sock_index /\ RT_head' = RT_head
      /\ bytes' = bytes /\ control_code' = control_code
      /\ crashed' = crashed /\ polite' = polite /\ conn' = conn /\ arrived' = arrived
  BY DEF RemoveCorrupt, Loop, FreesNothing, SendFails, socketVars, turnVars
<1>3. PICK k : k = Served
  OBVIOUS
<1>4. /\ k \in Open /\ k \in Conns /\ conn[k].fd = sock_index /\ conn[k].fd # 0
  BY <1>1, <1>3, ServedIsOne DEF IInv
<1>5. InOrder(k) /\ Settled(k)
  BY <1>4 DEF IInv
<1>6. Len(conn[k].answers) \in Nat /\ Len(conn[k].asked) \in Nat
  BY <1>4, ConnType DEF IInv, TypeOK
<1>7. ~(polite /\ Loop)
  <2> SUFFICES ASSUME polite, Loop PROVE FALSE
    OBVIOUS
  <2>1. conn[k].tcp # "open" /\ ~EndSeen(k) /\ at \in {"header", "payload"}
    BY <1>3 DEF Loop
  <2>2. conn[k].tcp = "fin" /\ conn[k].answers = conn[k].asked
    BY <1>4, <1>5, <2>1 DEF Settled, InOrder
  <2>3. bytes # 0
    BY <2>1, <2>2 DEF EndSeen
  <2>4. bytes > 0
    BY <2>3 DEF IInv, TypeOK
  <2>5. Len(conn[k].answers) < Len(conn[k].asked)
    BY <1>1, <1>4, <1>5, <2>4 DEF InOrder
  <2> QED
    BY <1>6, <2>2, <2>5
<1>8. ~(polite /\ SendFails)
  <2> SUFFICES ASSUME polite, SendFails PROVE FALSE
    OBVIOUS
  <2>1. conn[k].tcp \in {"reset", "dead"}
    BY <1>3 DEF SendFails
  <2> QED
    BY <1>5, <2>1 DEF Settled
<1>9. PoliteReady'
  BY <1>1, <1>2, <1>7, <1>8 DEF PoliteReady
<1>10. Conns' = Conns /\ Open' = Open
  BY <1>2 DEF Conns, Open
<1>11. fds' = fds
  BY <1>2, <1>10 DEF fds
<1>12. at' \in Ended /\ ~Turn' /\ at' # "unknown socket" /\ at' # "select"
  BY <1>1 DEF Ended, Dead, Turn
<1>19. arrived' \in [Conns' -> Nat] /\ Arrivals'
  BY <1>2, <1>10, ArrivalsSame DEF IInv, TypeOK
<1>13. TypeOK'
  BY <1>2, <1>12, <1>19 DEF IInv, TypeOK
<1>14. Watched'
  BY <1>2, <1>11 DEF IInv, Watched
<1>15. KnownWhileWhole'
  BY <1>2, <1>11, <1>12 DEF IInv, KnownWhileWhole
<1>16. Distinct'
  BY <1>2, <1>10, <1>11 DEF IInv, Distinct
<1>17. InTurn'
  <2>1. at' # "header" /\ at' # "payload"
    BY <1>12 DEF Turn
  <2>2. watch_list' \subseteq {control_socket} \cup fds'
    BY <1>2, <1>11 DEF IInv, InTurn
  <2> QED
    BY <1>12, <2>1, <2>2 DEF InTurn
<1>18. ASSUME NEW j \in Conns' PROVE InOrder(j)' /\ Settled(j)'
  <2>1. j \in Conns /\ InOrder(j) /\ Settled(j)
    BY <1>10 DEF IInv
  <2>2. InOrder(j)'
    BY <1>2, <1>12, <2>1 DEF InOrder
  <2>3. Settled(j)'
    BY <1>2, <2>1 DEF Settled
  <2> QED
    BY <2>2, <2>3
<1> QED
  BY <1>9, <1>12, <1>13, <1>14, <1>15, <1>16, <1>17, <1>18, <1>19 DEF IInv

-----------------------------------------------------------------------------
(* The invariant and what it implies *)

LEMMA IInvNext == IInv /\ [Next]_vars => IInv'
<1> SUFFICES ASSUME IInv, [Next]_vars PROVE IInv'
  OBVIOUS
<1>1. CASE UNCHANGED vars
  <2>1. /\ at' = at /\ master_list' = master_list /\ head_fd' = head_fd /\ list' = list
        /\ freed' = freed /\ router_socket' = router_socket
        /\ router_client_socket' = router_client_socket
        /\ watch_list' = watch_list /\ sock_index' = sock_index /\ RT_head' = RT_head
        /\ bytes' = bytes /\ control_code' = control_code
        /\ crashed' = crashed /\ polite' = polite /\ conn' = conn /\ arrived' = arrived
    BY <1>1 DEF vars, socketVars, turnVars
  <2>2. Conns' = Conns /\ Open' = Open /\ Turn' = Turn
    BY <2>1 DEF Conns, Open, Turn
  <2>3. fds' = fds
    BY <2>1, <2>2 DEF fds
  <2>8. Arrivals'
    BY <2>1, <2>2 DEF IInv, Arrivals
  <2>4. TypeOK'
    BY <2>1, <2>2 DEF IInv, TypeOK
  <2>5. Watched' /\ KnownWhileWhole' /\ PoliteReady'
    BY <2>1, <2>3 DEF IInv, Watched, KnownWhileWhole, PoliteReady
  <2>6. Distinct' /\ InTurn'
    BY <2>1, <2>2, <2>3 DEF IInv, Distinct, InTurn
  <2>7. ASSUME NEW k \in Conns'
        PROVE  InOrder(k)' /\ Settled(k)' /\ (at \notin Ended => Stream(k)')
    <3>1. k \in Conns /\ InOrder(k) /\ Settled(k) /\ (at \notin Ended => Stream(k))
      BY <2>2 DEF IInv
    <3> QED
      BY <2>1, <3>1, Frame
  <2> QED
    BY <2>1, <2>4, <2>5, <2>6, <2>7, <2>8 DEF IInv
<1>2. CASE Connect
  BY <1>2, ConnectKeeps
<1>3. ASSUME NEW k \in Conns, Request(k) \/ Write(k) \/ Disconnect(k) PROVE IInv'
  BY <1>3, RequestKeeps, WriteKeeps, DisconnectKeeps
<1>4. CASE Select \/ Accept \/ Serve \/ NextTurn
  BY <1>4, SelectKeeps, AcceptKeeps, ServeKeeps, NextTurnKeeps
<1>5. CASE Receive \/ Remove \/ Triage
  BY <1>5, ReceiveKeeps, RemoveKeeps, TriageKeeps
<1>6. CASE RemoveCorrupt \/ Loop \/ FreesNothing \/ SendFails
  BY <1>6, EndingKeeps
<1> QED
  BY <1>1, <1>2, <1>3, <1>4, <1>5, <1>6 DEF Next, RouterNext

\* The strengthened invariant holds in every reachable state, for every number
\* of connections and requests and whatever freed memory comes to.
THEOREM Invariance == Spec => []IInv
<1>1. Init => IInv
  BY IInvInit
<1>2. IInv /\ [Next]_vars => IInv'
  BY IInvNext
<1> QED
  BY <1>1, <1>2, PTL DEF Spec

\* Type correctness.
THEOREM TypeCorrect == Spec => []TypeOK
<1>1. IInv => TypeOK
  BY DEF IInv
<1> QED
  BY <1>1, Invariance, PTL

\* main_loop watches exactly the open descriptors, and looks as far as the
\* highest (connection_manager.c:50-132).
THEOREM WatchesOpen == Spec => []Watched
<1>1. IInv => Watched
  BY DEF IInv
<1> QED
  BY <1>1, Invariance, PTL

\* control_conn_list has every open connection until remove_control_conn has
\* freed one of them (control_handler.c:84-118).
THEOREM KnowsOpen == Spec => []KnownWhileWhole
<1>1. IInv => KnownWhileWhole
  BY DEF IInv
<1> QED
  BY <1>1, Invariance, PTL

\* Controllers that wait for their answers never make recvALL loop or sendALL
\* raise SIGPIPE (network_util.c:29-51).
THEOREM ServesPolite == Spec => []PoliteReady
<1>1. IInv => PoliteReady
  BY DEF IInv
<1> QED
  BY <1>1, Invariance, PTL

-----------------------------------------------------------------------------
(* ControlConnections implements ControlService *)

\* After CRASH: the connections that the turn of the main loop still comes to.
Due == { k \in Open : conn[k].fd \in watch_list \/ (Turn /\ conn[k].fd = sock_index) }

askedBar == [k \in Conns |-> conn[k].asked]
answersBar == [k \in Conns |-> conn[k].answers]
dueBar == IF ~crashed THEN Conns ELSE Due

\* The steps that answer nothing and ask for nothing.
LEMMA QuietStep ==
    ASSUME Conns' = Conns, crashed' = crashed,
           \A k \in Conns : conn'[k].asked = conn[k].asked /\ conn'[k].answers = conn[k].answers,
           crashed => Due' \subseteq Due
    PROVE  [Promised!Next]_(Promised!vars)
<1>1. askedBar' = askedBar /\ answersBar' = answersBar
  BY DEF askedBar, answersBar
<1>2. CASE crashed
  <2>1. dueBar' \in SUBSET dueBar
    BY <1>2 DEF dueBar
  <2>2. Promised!Leave
    BY <1>1, <1>2, <2>1 DEF Promised!Leave, askedBar, answersBar, dueBar, Due
  <2> QED
    BY <2>2 DEF Promised!Next
<1>3. CASE ~crashed
  <2>1. dueBar' = dueBar
    BY <1>3 DEF dueBar
  <2>2. UNCHANGED Promised!vars
    BY <1>1, <2>1 DEF Promised!vars, askedBar, answersBar, dueBar, Due
  <2> QED
    BY <2>2
<1> QED
  BY <1>2, <1>3

LEMMA RefinesInit == Init => Promised!Init
<1> SUFFICES ASSUME Init PROVE Promised!Init
  OBVIOUS
<1>1. Conns = {} /\ ~crashed
  BY DEF Init, Conns
<1>2. askedBar = <<>> /\ answersBar = <<>> /\ dueBar = {}
  BY <1>1 DEF askedBar, answersBar, dueBar
<1> QED
  BY <1>1, <1>2 DEF Promised!Init, askedBar, answersBar, dueBar, Due

\* The answer to one more connection may be asked for.
LEMMA RefinesConnect == IInv /\ Connect => Promised!Connect
<1> SUFFICES ASSUME IInv, Connect PROVE Promised!Connect
  OBVIOUS
<1> DEFINE new == [tcp |-> "open", fd |-> 0, up |-> <<>>, asked |-> <<>>, answers |-> <<>>]
<1>0. PICK n : n = Len(conn) + 1
  OBVIOUS
<1>1. conn' = Append(conn, new)
  BY DEF Connect
<1>2. /\ at' = at /\ watch_list' = watch_list /\ sock_index' = sock_index /\ crashed' = crashed
  BY DEF Connect, turnVars
<1>3. conn \in Seq(Connection) /\ Len(conn) \in Nat /\ Conns = 1 .. Len(conn)
  BY ConnType DEF IInv, TypeOK
<1>4. new.fd = 0 /\ new.asked = <<>> /\ new.answers = <<>>
  OBVIOUS
<1> HIDE DEF new
<1>5. Conns' = 1 .. n /\ conn'[n] = new /\ \A k \in Conns : conn'[k] = conn[k]
  BY <1>0, <1>1, <1>3 DEF Conns
<1>6. Conns' = Conns \cup {n} /\ n \notin Conns
  BY <1>0, <1>3, <1>5
<1>7. askedBar' = Append(askedBar, <<>>) /\ DOMAIN askedBar' = Conns'
  BY <1>0, <1>3, <1>4, <1>5, <1>6 DEF askedBar
<1>8. answersBar' = Append(answersBar, <<>>)
  BY <1>0, <1>3, <1>4, <1>5, <1>6 DEF answersBar
<1>9. Due' = Due
  <2>1. Open' = Open /\ \A k \in Open : conn'[k].fd = conn[k].fd
    BY <1>4, <1>5, <1>6 DEF Open
  <2> QED
    BY <1>2, <2>1 DEF Due, Turn
<1>10. dueBar' = IF crashed THEN dueBar ELSE DOMAIN askedBar'
  BY <1>2, <1>7, <1>9 DEF dueBar
<1> QED
  BY <1>2, <1>7, <1>8, <1>10 DEF Promised!Connect, askedBar, answersBar, dueBar, Due

\* A request is asked for.
LEMMA RefinesRequest ==
    ASSUME IInv, NEW k \in Conns, Request(k)
    PROVE  Promised!Ask(k) /\ k \in DOMAIN askedBar
<1>1. PICK code \in Commands :
        conn' = [conn EXCEPT ![k].asked = Append(@, code),
                             ![k].up = @ \o Parts(Len(conn[k].asked) + 1, code)]
  BY DEF Request
<1>2. at' = at /\ watch_list' = watch_list /\ sock_index' = sock_index /\ crashed' = crashed
  BY DEF Request, turnVars
<1>3. code \in Code /\ conn \in Seq(Connection) /\ conn[k] \in Connection
  BY ControlAssumption, ConnType DEF IInv, TypeOK
<1>4. /\ Conns' = Conns /\ conn'[k].asked = Append(conn[k].asked, code)
      /\ conn'[k].answers = conn[k].answers /\ conn'[k].fd = conn[k].fd
      /\ \A j \in Conns : j # k => conn'[j] = conn[j]
  BY <1>1, <1>3 DEF Conns, Connection
<1>5. askedBar' = [askedBar EXCEPT ![k] = Append(@, code)] /\ DOMAIN askedBar = Conns
  BY <1>4 DEF askedBar
<1>6. answersBar' = answersBar
  BY <1>4 DEF answersBar
<1>7. dueBar' = dueBar
  <2>1. Open' = Open /\ \A j \in Open : conn'[j].fd = conn[j].fd
    BY <1>4 DEF Open
  <2> QED
    BY <1>2, <1>4, <2>1 DEF dueBar, Due, Turn
<1> QED
  BY <1>2, <1>3, <1>5, <1>6, <1>7 DEF Promised!Ask, askedBar, answersBar, dueBar, Due

\* Triage answers the request that is due, and after CRASH no other one of this
\* connection.
LEMMA RefinesTriage ==
    ASSUME IInv, Triage
    PROVE  \E k \in DOMAIN askedBar : Promised!Answer(k)
<1>0. PICK k : k = Served
  OBVIOUS
<1>1. PICK tcp \in {"open", "fin", "dead"} :
        conn' = [conn EXCEPT ![k].answers = Append(@, Response(control_code)), ![k].tcp = tcp]
  BY <1>0 DEF Triage
<1>2. /\ at = "respond" /\ at' = "serving" /\ crashed' = (crashed \/ control_code = CRASH)
      /\ watch_list' = watch_list /\ sock_index' = sock_index
  BY DEF Triage, turnVars
<1>3. Turn /\ ~Turn' /\ at \notin Ended
  BY <1>2 DEF Turn, Ended, Dead
<1>4. k \in Open /\ k \in Conns /\ conn[k].fd = sock_index
  BY <1>0, <1>3, ServedIsOne DEF IInv
<1>5. /\ conn \in Seq(Connection) /\ conn[k] \in Connection /\ control_code \in Code
      /\ conn[k].asked \in Seq(Code) /\ conn[k].answers \in Seq(Code)
  BY <1>4, ConnType DEF IInv, TypeOK
<1>6. Response(control_code) = control_code
  BY <1>5, OwnCode
<1>7. /\ Conns' = Conns /\ conn'[k].asked = conn[k].asked /\ conn'[k].fd = conn[k].fd
      /\ conn'[k].answers = Append(conn[k].answers, control_code)
      /\ \A j \in Conns : j # k => conn'[j] = conn[j]
  BY <1>1, <1>4, <1>5, <1>6 DEF Conns, Connection
<1>8. /\ Len(conn[k].answers) < Len(conn[k].asked)
      /\ control_code = conn[k].asked[Len(conn[k].answers) + 1]
  <2>1. InOrder(k)
    BY <1>4 DEF IInv
  <2> QED
    BY <1>2, <1>3, <1>4, <2>1 DEF InOrder
<1>9. /\ askedBar' = askedBar /\ DOMAIN askedBar = Conns /\ askedBar[k] = conn[k].asked
      /\ answersBar[k] = conn[k].answers
      /\ answersBar' = [answersBar EXCEPT ![k] = Append(@, control_code)]
  BY <1>4, <1>7 DEF askedBar, answersBar
<1>10. k \in Due
  BY <1>3, <1>4 DEF Due
<1>11. Due' \subseteq Due \ {k}
  <2>1. sock_index \notin watch_list
    BY <1>3 DEF IInv, InTurn
  <2>2. Open' = Open /\ \A j \in Open : conn'[j].fd = conn[j].fd
    BY <1>7 DEF Open
  <2> QED
    BY <1>2, <1>3, <1>4, <2>1, <2>2 DEF Due
<1>12. k \in dueBar /\ dueBar' \in SUBSET dueBar
  <2>1. Due \subseteq Conns
    BY DEF Due, Open
  <2> QED
    BY <1>2, <1>4, <1>7, <1>10, <1>11, <2>1 DEF dueBar
<1>13. IF crashed' THEN k \notin dueBar' ELSE dueBar' = dueBar
  BY <1>2, <1>7, <1>11 DEF dueBar
<1>14. Promised!Answer(k)
  <2>1. askedBar[k][Len(answersBar[k]) + 1] = control_code
    BY <1>8, <1>9
  <2>2. Len(answersBar[k]) < Len(askedBar[k])
    BY <1>8, <1>9
  <2> QED
    BY <1>2, <1>9, <1>12, <1>13, <2>1, <2>2
       DEF Promised!Answer, askedBar, answersBar, dueBar, Due
<1> QED
  BY <1>4, <1>9, <1>14

\* The controller's end and the router's other steps.
LEMMA RefinesQuiet ==
    ASSUME IInv,
           \/ \E k \in Conns : Write(k) \/ Disconnect(k)
           \/ Select \/ Accept \/ Serve \/ NextTurn \/ Receive \/ Remove
           \/ RemoveCorrupt \/ Loop \/ FreesNothing \/ SendFails
    PROVE  [Promised!Next]_(Promised!vars)
<1>0. conn \in Seq(Connection) /\ \A k \in Conns : conn[k] \in Connection
  BY ConnType DEF IInv, TypeOK
<1>1. ASSUME NEW k \in Conns, Disconnect(k) PROVE [Promised!Next]_(Promised!vars)
  <2>1. /\ at' = at /\ watch_list' = watch_list /\ sock_index' = sock_index /\ crashed' = crashed
    BY <1>1 DEF Disconnect, turnVars
  <2>2. PICK tcp, up : conn' = [conn EXCEPT ![k].tcp = tcp, ![k].up = up]
    BY <1>1 DEF Disconnect
  <2>3. /\ Conns' = Conns
        /\ \A j \in Conns : /\ conn'[j].asked = conn[j].asked
                            /\ conn'[j].answers = conn[j].answers
                            /\ conn'[j].fd = conn[j].fd
    BY <1>0, <2>2 DEF Conns, Connection
  <2>4. Due' = Due
    <3>1. Open' = Open
      BY <2>3 DEF Open
    <3> QED
      BY <2>1, <2>3, <3>1 DEF Due, Turn, Open
  <2> QED
    BY <2>1, <2>3, <2>4, QuietStep
<1>2. ASSUME conn' = conn, crashed' = crashed, crashed => Due' \subseteq Due
      PROVE  [Promised!Next]_(Promised!vars)
  <2>1. Conns' = Conns
    BY <1>2 DEF Conns
  <2> QED
    BY <1>2, <2>1, QuietStep
<1>10. ASSUME NEW k \in Conns, Write(k) PROVE [Promised!Next]_(Promised!vars)
  <2>1. conn' = conn /\ at' = at /\ watch_list' = watch_list /\ sock_index' = sock_index
        /\ crashed' = crashed
    BY <1>10 DEF Write, turnVars
  <2>2. Due' \subseteq Due
    BY <2>1 DEF Due, Turn, Open, Conns
  <2> QED
    BY <1>2, <2>1, <2>2
<1>3. CASE Select
  <2>1. ~crashed
    BY <1>3 DEF Select, IInv, InTurn
  <2> QED
    BY <1>2, <1>3, <2>1 DEF Select
<1>4. CASE Serve
  <2>1. PICK fd \in watch_list : sock_index' = fd /\ watch_list' = watch_list \ {fd}
    BY <1>4 DEF Serve
  <2>2. conn' = conn /\ crashed' = crashed
    BY <1>4 DEF Serve
  <2>3. Due' \subseteq Due
    BY <2>1, <2>2 DEF Due, Open, Conns
  <2> QED
    BY <1>2, <2>2, <2>3
<1>5. CASE NextTurn
  <2>1. conn' = conn /\ crashed' = crashed /\ watch_list' = {} /\ ~Turn'
    BY <1>5 DEF NextTurn, turnVars, Turn
  <2>2. Due' = {}
    BY <2>1 DEF Due
  <2> QED
    BY <1>2, <2>1, <2>2
<1>6. CASE RemoveCorrupt \/ Loop \/ FreesNothing \/ SendFails
  <2>1. conn' = conn /\ crashed' = crashed /\ watch_list' = watch_list /\ ~Turn'
    BY <1>6 DEF RemoveCorrupt, Loop, FreesNothing, SendFails, turnVars, Turn
  <2>2. Due' \subseteq Due
    BY <2>1 DEF Due, Open, Conns
  <2> QED
    BY <1>2, <2>1, <2>2
<1>7. CASE Accept
  <2>1. PICK k \in Backlog, fd \in Descriptor :
          Lowest(fd, Used) /\ conn' = [conn EXCEPT ![k].fd = fd]
    BY <1>7 DEF Accept
  <2>2. /\ crashed' = crashed /\ watch_list' = watch_list \ {control_socket} /\ ~Turn'
    BY <1>7 DEF Accept, Turn
  <2>3. k \in Conns /\ k \notin Open
    BY DEF Backlog, Open
  <2>4. /\ Conns' = Conns /\ conn'[k].fd = fd
        /\ \A j \in Conns : /\ conn'[j].asked = conn[j].asked
                            /\ conn'[j].answers = conn[j].answers
                            /\ j # k => conn'[j].fd = conn[j].fd
    BY <1>0, <2>1, <2>3 DEF Conns, Connection
  <2>5. fd \notin watch_list'
    <3>1. fd \notin fds
      BY <2>1 DEF Lowest, Used, fds
    <3> QED
      BY <2>2, <3>1 DEF IInv, InTurn
  <2>6. Due' \subseteq Due
    BY <2>2, <2>4, <2>5 DEF Due, Open
  <2> QED
    BY <2>2, <2>4, <2>6, QuietStep
<1>8. CASE Receive
  <2>1. Turn /\ Served \in Conns
    BY <1>8, ServedIsOne DEF IInv, Receive, Turn
  <2>2. PICK k \in Conns : \E up : conn' = [conn EXCEPT ![k].up = up]
    BY <1>8, <2>1 DEF Receive
  <2>3. /\ crashed' = crashed /\ watch_list' = watch_list /\ sock_index' = sock_index
    BY <1>8 DEF Receive
  <2>4. /\ Conns' = Conns
        /\ \A j \in Conns : /\ conn'[j].asked = conn[j].asked
                            /\ conn'[j].answers = conn[j].answers
                            /\ conn'[j].fd = conn[j].fd
    BY SMTT(30), <1>0, <2>2 DEF Conns, Connection
  <2>5. Due' \subseteq Due
    BY <2>1, <2>3, <2>4 DEF Due, Open
  <2> QED
    BY <2>3, <2>4, <2>5, QuietStep
<1>9. CASE Remove
  <2>1. Turn /\ Served \in Conns
    BY <1>9, ServedIsOne DEF IInv, Remove, Turn
  <2>2. PICK k \in Conns : conn' = [conn EXCEPT ![k].fd = 0, ![k].tcp = "gone"]
    BY <1>9, <2>1 DEF Remove
  <2>3. /\ crashed' = crashed /\ watch_list' = watch_list /\ ~Turn'
    BY <1>9 DEF Remove, turnVars, Turn
  <2>4. /\ Conns' = Conns
        /\ \A j \in Conns : /\ conn'[j].asked = conn[j].asked
                            /\ conn'[j].answers = conn[j].answers
                            /\ conn'[j].fd # 0 => conn'[j].fd = conn[j].fd
    BY <1>0, <2>2 DEF Conns, Connection
  <2>5. Due' \subseteq Due
    BY <2>3, <2>4 DEF Due, Open
  <2> QED
    BY <2>3, <2>4, <2>5, QuietStep
<1> QED
  BY <1>1, <1>3, <1>4, <1>5, <1>6, <1>7, <1>8, <1>9, <1>10

\* The router keeps the promises of ControlService, for every number of
\* connections and requests and whatever freed memory comes to.
THEOREM KeepsPromises == Spec => ImplementsControl
<1>1. Init => Promised!Init
  BY RefinesInit
<1>2. IInv /\ [Next]_vars => [Promised!Next]_(Promised!vars)
  <2> SUFFICES ASSUME IInv, [Next]_vars PROVE [Promised!Next]_(Promised!vars)
    OBVIOUS
  <2>1. CASE UNCHANGED vars
    <3>1. conn' = conn /\ crashed' = crashed /\ watch_list' = watch_list
          /\ sock_index' = sock_index /\ at' = at
      BY <2>1 DEF vars, turnVars
    <3>2. Conns' = Conns /\ Due' \subseteq Due
      BY <3>1 DEF Conns, Due, Open, Turn
    <3> QED
      BY <3>1, <3>2, QuietStep
  <2>2. CASE Connect
    BY <2>2, RefinesConnect DEF Promised!Next
  <2>3. ASSUME NEW k \in Conns, Request(k) PROVE [Promised!Next]_(Promised!vars)
    BY <2>3, RefinesRequest DEF Promised!Next, askedBar
  <2>4. CASE Triage
    BY <2>4, RefinesTriage DEF Promised!Next, askedBar
  <2> QED
    BY <2>1, <2>2, <2>3, <2>4, RefinesQuiet DEF Next, RouterNext
<1> QED
  BY <1>1, <1>2, Invariance, PTL DEF Spec, ImplementsControl, Promised!Spec
=============================================================================
