------------------------------ MODULE DVNetwork ------------------------------
(***************************************************************************)
(* Small networks for model checking DistanceVector.                       *)
(***************************************************************************)
EXTENDS DistanceVector, TLC

R3 == 1 .. 3

R4 == 1 .. 4

Link(w, x, y) == IF x = y THEN 0 ELSE IF {x, y} \in DOMAIN w THEN w[{x, y}] ELSE INF

Links(w) == [x \in Router |-> [y \in Router |-> Link(w, x, y)]]

\* Room for datagrams in some directions; in the others all of them are lost.
Room(c) ==
    [x \in Router |-> [y \in Router |-> IF <<x, y>> \in DOMAIN c THEN c[<<x, y>>] ELSE 0]]

OneEachWay == [x \in Router |-> [y \in Router |-> 1]]

NoPairs == {}

(* A line. *)

Line == Links({1, 2} :> 3 @@ {2, 3} :> 2)

\* The link between 1 and 2 becomes dearer, for the two ends at different times.
LinkUpdates == { <<1, 2, 6>>, <<2, 1, 6>> }

\* Datagrams from the end of the line may be lost for three intervals.
EndLossy == { <<2, 3>> }

(* A triangle with a tail.                                                   *)

\* 1 reaches 4 through 2, and 2 does first over its own link, then by 3.
Kite == Links({1, 2} :> 1 @@ {2, 3} :> 1 @@ {3, 4} :> 1 @@ {2, 4} :> 6)

\* The link between 3 and 4 becomes dearer, for its two ends at different
\* times: 2 and 3 count up, each behind what the other has said, until the
\* link between 2 and 4 is better.
FarUpdates == { <<3, 4, 8>>, <<4, 3, 8>> }

\* An old vector of 3 waits in front of a newer one.
KiteRoom == Room(<<2, 1>> :> 1 @@ <<3, 2>> :> 2 @@ <<4, 2>> :> 1 @@ <<4, 3>> :> 1 @@ <<2, 3>> :> 1)

\* Bound: how far the routes between routers that stay are counted up.  A sum
\* of one link more is still within INF.
Counted ==
    \A x, y \in Router \ CRASHES : table[x][y].cost <= 9 \/ table[x][y].cost = INF
=============================================================================
