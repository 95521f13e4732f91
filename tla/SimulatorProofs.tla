--------------------------- MODULE SimulatorProofs ---------------------------
(***************************************************************************)
(* What tolayer3 and tolayer5 of module Simulator do, as facts the proofs  *)
(* about the protocols cite.                                               *)
(***************************************************************************)
EXTENDS Simulator, TLAPS

\* Layer 5's letters are letters (simulator.c: nsim % 26).
LEMMA LetterType == \A n \in Nat : Letter(n) \in Letters
BY SimulatorAssumption DEF Letter, Letters

\* Taking the oldest packet out of the medium keeps the others in order.
LEMMA TailFacts ==
    ASSUME NEW S, NEW s \in Seq(S), s # <<>>
    PROVE  /\ Head(s) \in S
           /\ Head(s) = s[1]
           /\ 1 \in DOMAIN s
           /\ Tail(s) \in Seq(S)
           /\ \A i \in DOMAIN Tail(s) : i + 1 \in DOMAIN s /\ Tail(s)[i] = s[i + 1]
OBVIOUS

\* A packet put behind the others leaves them where they are.
LEMMA AppendFacts ==
    ASSUME NEW S, NEW s \in Seq(S), NEW e \in S
    PROVE  /\ \A i \in DOMAIN Append(s, e) :
                 \/ i \in DOMAIN s /\ Append(s, e)[i] = s[i]
                 \/ Append(s, e)[i] = e
           /\ \A i, j \in DOMAIN Append(s, e) :
                 i < j => i \in DOMAIN s /\ Append(s, e)[i] = s[i]
<1>1. DOMAIN s = 1 .. Len(s) /\ DOMAIN Append(s, e) = 1 .. Len(s) + 1 /\ Len(s) \in Nat
  OBVIOUS
<1>2. \A i \in 1 .. Len(s) : Append(s, e)[i] = s[i]
  OBVIOUS
<1>3. Append(s, e)[Len(s) + 1] = e
  OBVIOUS
<1> QED
  BY <1>1, <1>2, <1>3

\* A choice of packets lists its members in increasing order.
LEMMA SelectionIncreases ==
    ASSUME NEW n \in Nat, NEW m \in Int, NEW g \in Selections(n, m)
    PROVE  \E k \in Nat : /\ g \in [1 .. k -> 1 .. n]
                          /\ \A i, j \in 1 .. k : i < j => g[i] < g[j]
<1>1. PICK k \in 0 .. m :
          g \in { f \in [1 .. k -> 1 .. n] : \A i, j \in 1 .. k : i < j => f[i] < f[j] }
  BY DEF Selections
<1>2. k \in Nat
  OBVIOUS
<1> QED
  BY <1>1, <1>2

\* The medium keeps what it held, as a prefix, and every packet behind it is
\* one of pkts or is corrupted.
Extends(after, medium, pkts) ==
    /\ Len(medium) <= Len(after)
    /\ \A i \in DOMAIN medium : after[i] = medium[i]
    /\ \A i \in DOMAIN after : i > Len(medium) =>
          after[i] = Corrupt \/ \E j \in DOMAIN pkts : after[i] = pkts[j]

\* tolayer3 (simulator.c:459-532) of several packets.
LEMMA TransmitMany ==
    ASSUME NEW S, Corrupt \in S,
           NEW medium \in Seq(S),
           NEW pkts \in Seq(S),
           NEW after \in tolayer3(medium, pkts)
    PROVE  after \in Seq(S) /\ Extends(after, medium, pkts)
<1>1. PICK g \in Selections(Len(pkts), MaxInFlight - Len(medium)) :
          after \in { medium \o s : s \in Arrivals(pkts, g) }
  BY DEF tolayer3
<1>2. PICK s \in Arrivals(pkts, g) : after = medium \o s
  BY <1>1
<1>3. PICK k \in Nat : g \in [1 .. k -> 1 .. Len(pkts)]
  BY SelectionIncreases, SimulatorAssumption
<1>4. PICK hit \in SUBSET DOMAIN g :
          s = [i \in DOMAIN g |-> IF i \in hit THEN Corrupt ELSE pkts[g[i]]]
  BY <1>2 DEF Arrivals
<1>5. s \in [1 .. k -> S] /\ DOMAIN s = 1 .. k
  BY <1>3, <1>4
<1>6. s \in Seq(S) /\ Len(s) = k
  BY <1>5
<1>7. \A i \in 1 .. k : s[i] = Corrupt \/ \E j \in DOMAIN pkts : s[i] = pkts[j]
  BY <1>3, <1>4
<1>8. after \in Seq(S) /\ Len(after) = Len(medium) + k
  BY <1>2, <1>6
<1>9. \A i \in DOMAIN medium : after[i] = medium[i]
  BY <1>2, <1>6
<1>10. ASSUME NEW i \in DOMAIN after, i > Len(medium)
       PROVE  after[i] = Corrupt \/ \E j \in DOMAIN pkts : after[i] = pkts[j]
  <2>1. i - Len(medium) \in 1 .. k /\ after[i] = s[i - Len(medium)]
    BY <1>2, <1>6, <1>8, <1>10
  <2> QED
    BY <2>1, <1>7
<1> QED
  BY <1>8, <1>9, <1>10 DEF Extends

\* tolayer3 of one packet: it is lost, or arrives last, intact or corrupted.
LEMMA TransmitOne ==
    ASSUME NEW S, Corrupt \in S,
           NEW medium \in Seq(S),
           NEW p \in S,
           NEW after \in tolayer3(medium, <<p>>)
    PROVE  /\ after \in Seq(S)
           /\ after \in {medium, Append(medium, p), Append(medium, Corrupt)}
<1>1. PICK g \in Selections(1, MaxInFlight - Len(medium)) :
          after \in { medium \o s : s \in Arrivals(<<p>>, g) }
  BY DEF tolayer3
<1>2. PICK s \in Arrivals(<<p>>, g) : after = medium \o s
  BY <1>1
<1>3. PICK k \in Nat : /\ g \in [1 .. k -> 1 .. 1]
                       /\ \A i, j \in 1 .. k : i < j => g[i] < g[j]
  BY SelectionIncreases, SimulatorAssumption
<1>4. k = 0 \/ k = 1
  <2>1. SUFFICES ASSUME k > 1 PROVE FALSE
    OBVIOUS
  <2>2. 1 \in 1 .. k /\ 2 \in 1 .. k
    BY <2>1
  <2>3. g[1] = 1 /\ g[2] = 1 /\ g[1] < g[2]
    BY <2>2, <1>3
  <2> QED
    BY <2>3
<1>5. PICK hit \in SUBSET DOMAIN g :
          s = [i \in DOMAIN g |-> IF i \in hit THEN Corrupt ELSE <<p>>[g[i]]]
  BY <1>2 DEF Arrivals
<1>6. CASE k = 0
  <2>1. s = <<>>
    BY <1>3, <1>5, <1>6
  <2>2. medium \o s = medium
    BY <2>1
  <2> QED
    BY <2>2, <1>2
<1>7. CASE k = 1
  <2>1. DOMAIN s = {1} /\ (s[1] = p \/ s[1] = Corrupt)
    BY <1>3, <1>5, <1>7
  <2>2. s = <<p>> \/ s = <<Corrupt>>
    <3>1. s = [i \in 1 .. 1 |-> s[1]]
      BY <2>1, <1>3, <1>5, <1>7
    <3> QED
      BY <3>1, <2>1
  <2>3. \A x \in S : medium \o <<x>> = Append(medium, x) /\ Append(medium, x) \in Seq(S)
    OBVIOUS
  <2> QED
    BY <2>2, <2>3, <1>2
<1> QED
  BY <1>4, <1>6, <1>7

\* tolayer5 (simulator.c:534-574) of one payload: accepted when it is the
\* next message offered.
LEMMA AcceptOne ==
    ASSUME NEW d,
           cur_msg_recv \in Nat,
           nsim \in Nat,
           cur_msg_recv < nsim,
           d = Letter(cur_msg_recv),
           tolayer5(<<d>>)
    PROVE  cur_msg_recv' = cur_msg_recv + 1 /\ exitcode' = exitcode
<1>1. DOMAIN <<d>> = {1} /\ <<d>>[1] = d /\ Len(<<d>>) = 1
  OBVIOUS
<1>2. { i \in DOMAIN <<d>> : Refuses(cur_msg_recv + i - 1, <<d>>[i]) } = {}
  BY <1>1 DEF Refuses
<1> QED
  BY <1>1, <1>2 DEF tolayer5
=============================================================================
