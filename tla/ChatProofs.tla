----------------------------- MODULE ChatProofs -----------------------------
(***************************************************************************)
(* IInv of module Chat is inductive, for any clients, addresses and bounds; *)
(* what it implies.                                                        *)
(***************************************************************************)
EXTENDS Chat, TLAPS, FiniteSetTheorems, SequenceTheorems, WellFoundedInduction

-----------------------------------------------------------------------------
(* Numbers *)

\* What Min and Max choose exists: the parts of a finite set below (above) its
\* elements are well-founded under inclusion.
LEMMA MinOf ==
    ASSUME NEW S \in SUBSET Nat, S # {}, IsFiniteSet(S)
    PROVE  Min(S) \in S /\ \A m \in S : Min(S) <= m
<1> DEFINE Part(m) == { k \in S : k <= m }
           T == { Part(m) : m \in S }
           R == StrictSubsetOrdering(S)
<1>1. IsWellFoundedOn(R, FiniteSubsetsOf(S))
  BY FS_StrictSubsetOrderingWellFounded
<1>2. T # {} /\ T \subseteq FiniteSubsetsOf(S)
  <2>1. \A m \in S : Part(m) \in SUBSET S /\ IsFiniteSet(Part(m))
    BY FS_Subset
  <2> QED
    BY <2>1 DEF FiniteSubsetsOf
<1> HIDE DEF T, R
<1>3. PICK x \in T : \A y \in T : ~ (<<y, x>> \in R)
  BY <1>1, <1>2, WFMin
<1> USE DEF T, R
<1>4. PICK n \in S : x = Part(n)
  BY <1>3
<1>5. ASSUME NEW m \in S, m < n PROVE FALSE
  <2>1. Part(m) \in T /\ Part(m) \subseteq S
    OBVIOUS
  <2>2. Part(m) \subseteq Part(n) /\ n \in Part(n) /\ n \notin Part(m)
    <3>1. m \in Nat /\ n \in Nat /\ \A k \in S : k \in Nat
      OBVIOUS
    <3>2. \A k \in S : k <= m => k <= n
      BY <1>5, <3>1
    <3>3. n <= n /\ ~ (n <= m)
      BY <1>5, <3>1
    <3> QED
      BY <3>2, <3>3
  <2>3. <<Part(m), x>> \in R
    BY <1>4, <2>1, <2>2 DEF StrictSubsetOrdering
  <2> QED
    BY <1>3, <2>1, <2>3
<1>6. \A m \in S : n <= m
  BY <1>5
<1> QED
  BY <1>6 DEF Min

LEMMA MaxOf ==
    ASSUME NEW S \in SUBSET Nat, S # {}, IsFiniteSet(S)
    PROVE  Max(S) \in S /\ \A m \in S : Max(S) >= m
<1> DEFINE Part(m) == { k \in S : k >= m }
           T == { Part(m) : m \in S }
           R == StrictSubsetOrdering(S)
<1>1. IsWellFoundedOn(R, FiniteSubsetsOf(S))
  BY FS_StrictSubsetOrderingWellFounded
<1>2. T # {} /\ T \subseteq FiniteSubsetsOf(S)
  <2>1. \A m \in S : Part(m) \in SUBSET S /\ IsFiniteSet(Part(m))
    BY FS_Subset
  <2> QED
    BY <2>1 DEF FiniteSubsetsOf
<1> HIDE DEF T, R
<1>3. PICK x \in T : \A y \in T : ~ (<<y, x>> \in R)
  BY <1>1, <1>2, WFMin
<1> USE DEF T, R
<1>4. PICK n \in S : x = Part(n)
  BY <1>3
<1>5. ASSUME NEW m \in S, m > n PROVE FALSE
  <2>1. Part(m) \in T /\ Part(m) \subseteq S
    OBVIOUS
  <2>2. Part(m) \subseteq Part(n) /\ n \in Part(n) /\ n \notin Part(m)
    <3>1. m \in Nat /\ n \in Nat /\ \A k \in S : k \in Nat
      OBVIOUS
    <3>2. \A k \in S : k >= m => k >= n
      BY <1>5, <3>1
    <3>3. n >= n /\ ~ (n >= m)
      BY <1>5, <3>1
    <3> QED
      BY <3>2, <3>3
  <2>3. <<Part(m), x>> \in R
    BY <1>4, <2>1, <2>2 DEF StrictSubsetOrdering
  <2> QED
    BY <1>3, <2>1, <2>3
<1>6. \A m \in S : n >= m
  BY <1>5
<1> QED
  BY <1>6 DEF Max

LEMMA BadPortType == BadPort \in Nat /\ Client \subseteq Nat \ {0}
<1>1. Client \in SUBSET Nat /\ Client # {} /\ IsFiniteSet(Client)
  BY ChatAssumption
<1>2. Max(Client) \in Nat
  BY <1>1, MaxOf
<1> QED
  BY <1>2, ChatAssumption DEF BadPort

-----------------------------------------------------------------------------
(* The lists of the server *)

\* Client_insert and Sblock_insert put the entry before the first port that is
\* not smaller, and move nothing else.
LEMMA InsertFacts ==
    ASSUME NEW E, \A x \in E : x.port \in Nat, NEW s \in Seq(E), NEW e \in E
    PROVE  /\ InsertByPort(s, e) \in Seq(E)
           /\ Len(InsertByPort(s, e)) = Len(s) + 1
           /\ \E p \in 1 .. Len(s) + 1 :
                /\ \A i \in 1 .. Len(s) + 1 :
                     InsertByPort(s, e)[i] = IF i < p THEN s[i] ELSE IF i = p THEN e ELSE s[i - 1]
                /\ \A i \in 1 .. p - 1 : s[i].port < e.port
                /\ p <= Len(s) => s[p].port >= e.port
<1> DEFINE n == Len(s)
           S == { j \in 1 .. n + 1 : j <= Len(s) => s[j].port >= e.port }
           p == Min(S)
<1>1. n \in Nat /\ \A i \in 1 .. n : s[i] \in E
  BY LenProperties
<1>2. p \in S /\ \A m \in S : p <= m
  <2>1. n + 1 \in S /\ S \in SUBSET (1 .. n + 1) /\ S \in SUBSET Nat
    BY <1>1
  <2> HIDE DEF S, n
  <2>2. IsFiniteSet(S)
    <3>1. IsFiniteSet(1 .. n + 1)
      BY <1>1, FS_Interval
    <3> QED
      BY <2>1, <3>1, FS_Subset
  <2> QED
    BY <2>1, <2>2, MinOf
<1>3. \A i \in 1 .. p - 1 : s[i].port < e.port
  BY <1>1, <1>2
<1>4. InsertByPort(s, e) = SubSeq(s, 1, p - 1) \o <<e>> \o SubSeq(s, p, n)
  BY DEF InsertByPort, InsertAt
<1>5. p \in 1 .. n + 1 /\ (p <= Len(s) => s[p].port >= e.port)
  BY <1>2
<1> HIDE DEF p, S
<1> DEFINE a == SubSeq(s, 1, p - 1)
           b == SubSeq(s, p, n)
<1>6. /\ a \in Seq(E) /\ Len(a) = p - 1 /\ \A i \in 1 .. p - 1 : a[i] = s[i]
      /\ b \in Seq(E) /\ Len(b) = n - p + 1 /\ \A i \in 1 .. n - p + 1 : b[i] = s[p + i - 1]
  <2>1. p - 1 \in Int /\ p \in Int /\ n \in Int /\ 1 \in Int
    BY <1>1, <1>5
  <2>2. \A i \in 1 .. p - 1 : s[i] \in E
    BY <1>1, <1>5
  <2>3. \A i \in p .. n : s[i] \in E
    BY <1>1, <1>5
  <2>4. a \in Seq(E) /\ Len(a) = p - 1 /\ \A i \in 1 .. p - 1 : a[i] = s[i]
    BY <1>5, <1>1, <2>1, <2>2, SubSeqProperties
  <2>5. b \in Seq(E) /\ Len(b) = n - p + 1 /\ \A i \in 1 .. n - p + 1 : b[i] = s[p + i - 1]
    BY <1>5, <1>1, <2>1, <2>3, SubSeqProperties
  <2> QED
    BY <2>4, <2>5
<1> HIDE DEF a, b, n
<1> DEFINE c == a \o <<e>>
<1>7. c \in Seq(E) /\ Len(c) = p /\ \A i \in 1 .. p : c[i] = IF i < p THEN s[i] ELSE e
  <2>1. <<e>> \in Seq(E) /\ Len(<<e>>) = 1 /\ <<e>>[1] = e
    OBVIOUS
  <2>2. /\ c \in Seq(E) /\ Len(c) = Len(a) + 1
        /\ \A i \in 1 .. Len(a) + 1 : c[i] = IF i <= Len(a) THEN a[i] ELSE <<e>>[i - Len(a)]
    BY <1>6, <2>1, ConcatProperties
  <2> HIDE DEF c
  <2>3. Len(c) = p /\ p \in Nat
    BY <1>1, <1>5, <1>6, <2>2
  <2>4. ASSUME NEW i \in 1 .. p PROVE c[i] = IF i < p THEN s[i] ELSE e
    <3>1. i \in 1 .. Len(a) + 1 /\ (i <= Len(a) <=> i < p) /\ (~ (i < p) => i - Len(a) = 1)
      BY <1>6, <2>3
    <3>2. i < p => i \in 1 .. p - 1
      BY <2>3
    <3> QED
      BY <1>6, <2>1, <2>2, <3>1, <3>2
  <2> QED
    BY <2>2, <2>3, <2>4
<1> HIDE DEF c
<1>8. /\ c \o b \in Seq(E) /\ Len(c \o b) = Len(c) + Len(b)
      /\ \A i \in 1 .. Len(c) + Len(b) : (c \o b)[i] = IF i <= Len(c) THEN c[i] ELSE b[i - Len(c)]
  BY <1>6, <1>7, ConcatProperties
<1>9. InsertByPort(s, e) = c \o b
  BY <1>4 DEF a, b, c
<1>10. /\ InsertByPort(s, e) \in Seq(E) /\ Len(InsertByPort(s, e)) = n + 1
       /\ \A i \in 1 .. n + 1 :
            InsertByPort(s, e)[i] = IF i < p THEN s[i] ELSE IF i = p THEN e ELSE s[i - 1]
  <2>1. Len(c) + Len(b) = n + 1
    BY <1>1, <1>5, <1>6, <1>7
  <2>2. ASSUME NEW i \in 1 .. n + 1
        PROVE  (c \o b)[i] = IF i < p THEN s[i] ELSE IF i = p THEN e ELSE s[i - 1]
    <3>1. CASE i <= p
      <4>1. i \in 1 .. p /\ (i < p \/ i = p) /\ p \in Nat
        BY <1>1, <1>5, <3>1
      <4>2. (c \o b)[i] = c[i]
        BY <1>7, <1>8, <2>1, <3>1
      <4> QED
        BY <1>7, <4>1, <4>2
    <3>2. CASE i > p
      <4>1. /\ i - p \in 1 .. n - p + 1 /\ p + (i - p) - 1 = i - 1
            /\ ~ (i <= p) /\ ~ (i < p) /\ i # p
        BY <1>1, <1>5, <3>2
      <4>2. (c \o b)[i] = b[i - p]
        BY <1>7, <1>8, <2>1, <4>1
      <4> QED
        BY <1>6, <4>1, <4>2
    <3>3. i <= p \/ i > p
      BY <1>1, <1>5
    <3> QED
      BY ONLY <3>1, <3>2, <3>3
  <2> QED
    BY <1>8, <1>9, <2>1, <2>2
<1> QED
  BY <1>3, <1>5, <1>10 DEF n

\* A list that is in order stays so.
LEMMA InsertKeepsOrder ==
    ASSUME NEW E, \A x \in E : x.port \in Nat, NEW s \in Seq(E), NEW e \in E, InOrder(s)
    PROVE  InOrder(InsertByPort(s, e))
<1> DEFINE t == InsertByPort(s, e)
           n == Len(s)
<1>1. n \in Nat /\ \A i \in 1 .. n : s[i].port \in Nat
  BY LenProperties
<1>2. e.port \in Nat /\ \A i \in 2 .. n : s[i - 1].port <= s[i].port
  BY DEF InOrder
<1>3. Len(t) = n + 1
  BY InsertFacts
<1>4. PICK p \in 1 .. n + 1 :
        /\ \A i \in 1 .. n + 1 : t[i] = IF i < p THEN s[i] ELSE IF i = p THEN e ELSE s[i - 1]
        /\ \A i \in 1 .. p - 1 : s[i].port < e.port
        /\ p <= n => s[p].port >= e.port
  BY InsertFacts
<1> HIDE DEF t, n
<1>5. ASSUME NEW i \in 2 .. n + 1 PROVE t[i - 1].port <= t[i].port
  <2>1. CASE i < p
    <3>1. i \in 2 .. n /\ i - 1 \in 1 .. n + 1 /\ i - 1 < p
      BY <1>1, <2>1
    <3>2. t[i] = s[i] /\ t[i - 1] = s[i - 1]
      BY <1>4, <2>1, <3>1
    <3> QED
      BY <1>2, <3>1, <3>2
  <2>2. CASE i = p
    <3>1. t[i] = e /\ t[i - 1] = s[i - 1] /\ i - 1 \in 1 .. p - 1 /\ i - 1 \in 1 .. n
      BY <1>1, <1>4, <2>2
    <3> QED
      BY <1>1, <1>2, <1>4, <3>1
  <2>3. CASE i = p + 1
    <3>1. t[i] = s[p] /\ t[i - 1] = e /\ p <= n /\ p \in 1 .. n
      BY SMTT(30), <1>1, <1>4, <2>3
    <3> QED
      BY <1>1, <1>2, <1>4, <3>1
  <2>4. CASE i > p + 1
    <3>1. t[i] = s[i - 1] /\ t[i - 1] = s[(i - 1) - 1] /\ i - 1 \in 2 .. n
      BY <1>1, <1>4, <2>4
    <3> QED
      BY <1>2, <3>1
  <2> QED
    BY <1>1, <1>4, <2>1, <2>2, <2>3, <2>4
<1> QED
  BY <1>3, <1>5 DEF InOrder, t

\* Client_remove takes one entry out.
LEMMA RemoveFacts ==
    ASSUME NEW E, NEW s \in Seq(E), NEW p \in 1 .. Len(s)
    PROVE  /\ RemoveAt(s, p) \in Seq(E)
           /\ Len(RemoveAt(s, p)) = Len(s) - 1
           /\ \A i \in 1 .. Len(s) - 1 : RemoveAt(s, p)[i] = IF i < p THEN s[i] ELSE s[i + 1]
<1> DEFINE n == Len(s)
           a == SubSeq(s, 1, p - 1)
           b == SubSeq(s, p + 1, n)
<1>1. n \in Nat /\ p \in 1 .. n /\ \A i \in 1 .. n : s[i] \in E
  BY LenProperties
<1>2. a \in Seq(E) /\ Len(a) = p - 1 /\ \A i \in 1 .. p - 1 : a[i] = s[i]
  <2>1. p - 1 \in Int /\ 1 \in Int /\ \A i \in 1 .. p - 1 : s[i] \in E
    BY <1>1
  <2> QED
    BY <1>1, <2>1, SubSeqProperties
<1>3. b \in Seq(E) /\ Len(b) = n - p /\ \A i \in 1 .. n - p : b[i] = s[p + i]
  <2>1. p + 1 \in Int /\ n \in Int /\ \A i \in p + 1 .. n : s[i] \in E
    BY <1>1
  <2>2. /\ b \in Seq(E) /\ Len(b) = IF p + 1 <= n THEN n - (p + 1) + 1 ELSE 0
        /\ \A i \in 1 .. n - (p + 1) + 1 : b[i] = s[p + 1 + i - 1]
    BY <2>1, SubSeqProperties
  <2> HIDE DEF b, n
  <2> QED
    BY <1>1, <2>2
<1>4. RemoveAt(s, p) = a \o b
  BY DEF RemoveAt
<1> HIDE DEF a, b, n
<1>5. /\ a \o b \in Seq(E) /\ Len(a \o b) = Len(a) + Len(b)
      /\ \A i \in 1 .. Len(a) + Len(b) : (a \o b)[i] = IF i <= Len(a) THEN a[i] ELSE b[i - Len(a)]
  BY <1>2, <1>3, ConcatProperties
<1>6. Len(a) + Len(b) = n - 1
  BY <1>1, <1>2, <1>3
<1>7. ASSUME NEW i \in 1 .. n - 1 PROVE (a \o b)[i] = IF i < p THEN s[i] ELSE s[i + 1]
  <2>1. CASE i < p
    BY <1>1, <1>2, <1>5, <1>6, <2>1
  <2>2. CASE i >= p
    <3>1. i - (p - 1) \in 1 .. n - p /\ p + (i - (p - 1)) = i + 1 /\ ~ (i <= p - 1) /\ ~ (i < p)
      BY <1>1, <2>2
    <3> QED
      BY <1>1, <1>2, <1>3, <1>5, <1>6, <3>1
  <2>3. i < p \/ i >= p
    BY <1>1
  <2> QED
    BY ONLY <2>1, <2>2, <2>3
<1> QED
  BY <1>4, <1>5, <1>6, <1>7 DEF n

LEMMA RemoveKeepsOrder ==
    ASSUME NEW E, \A x \in E : x.port \in Nat, NEW s \in Seq(E), NEW p \in 1 .. Len(s), InOrder(s)
    PROVE  InOrder(RemoveAt(s, p))
<1> DEFINE t == RemoveAt(s, p)
           n == Len(s)
<1>1. n \in Nat /\ p \in 1 .. n /\ \A i \in 1 .. n : s[i].port \in Nat
  BY LenProperties
<1>2. \A i \in 2 .. n : s[i - 1].port <= s[i].port
  BY DEF InOrder
<1>3. Len(t) = n - 1 /\ \A i \in 1 .. n - 1 : t[i] = IF i < p THEN s[i] ELSE s[i + 1]
  BY RemoveFacts
<1> HIDE DEF t, n
<1>4. ASSUME NEW i \in 2 .. n - 1 PROVE t[i - 1].port <= t[i].port
  <2>1. CASE i < p
    <3>1. t[i] = s[i] /\ t[i - 1] = s[i - 1] /\ i \in 2 .. n
      BY <1>1, <1>3, <2>1
    <3> QED
      BY <1>2, <3>1
  <2>2. CASE i = p
    <3>1. /\ t[i] = s[i + 1] /\ t[i - 1] = s[i - 1]
          /\ i \in 2 .. n /\ i + 1 \in 2 .. n /\ (i + 1) - 1 = i
          /\ i - 1 \in 1 .. n /\ i \in 1 .. n /\ i + 1 \in 1 .. n
      BY <1>1, <1>3, <2>2
    <3>2. s[i - 1].port <= s[i].port /\ s[i].port <= s[i + 1].port
      BY <1>2, <3>1
    <3> QED
      BY SMTT(30), <1>1, <3>1, <3>2
  <2>3. CASE i > p
    <3>1. t[i] = s[i + 1] /\ t[i - 1] = s[(i + 1) - 1] /\ i + 1 \in 2 .. n
      BY <1>1, <1>3, <2>3
    <3> QED
      BY <1>2, <3>1
  <2> QED
    BY <1>1, <2>1, <2>2, <2>3
<1> QED
  BY <1>3, <1>4 DEF InOrder, t

-----------------------------------------------------------------------------
(* The connections *)

\* Parts of the invariant, of connections cs when top commands are typed.
NumberedIn(cs, top) ==
    \A k \in DOMAIN cs : \A i \in DOMAIN cs[k].up :
        LET m == cs[k].up[i] IN
        /\ m.nr <= top
        /\ m.nr > 0 <=> m.cmd \in {"SEND", "BROADCAST"}
        /\ m.nr > 0 =>
              /\ \A j \in 1 .. i - 1 : cs[k].up[j].nr < m.nr
              /\ \A l \in DOMAIN cs \ {k} : \A j \in DOMAIN cs[l].up : cs[l].up[j].nr # m.nr

RelayedIn(cs, top) ==
    \A k \in DOMAIN cs : \A i \in DOMAIN cs[k].down :
        LET t == cs[k].down[i] IN
        t.cmd # "REFRESH" =>
            /\ t.nr \in 1 .. top /\ t.via \in DOMAIN cs
            /\ \A j \in DOMAIN cs[t.via].up :
                 cs[t.via].up[j].nr > 0 => t.nr < cs[t.via].up[j].nr

FaithfulIn(cs) ==
    \A k \in DOMAIN cs : \A i \in DOMAIN cs[k].down :
        LET t == cs[k].down[i] IN
        t.cmd # "REFRESH" =>
            /\ t.cmd = "SEND" => t.des = cs[k].peer
            /\ t.from \in {cs[t.via].peer, Nobody} \/ cs[t.via].tcp = "reset"
            /\ \A j \in 1 .. i - 1 :
                 LET u == cs[k].down[j] IN
                 u.cmd # "REFRESH" /\ u.via = t.via => u.nr < t.nr

Streams(cs, top) ==
    /\ cs \in Seq(Connection)
    /\ NumberedIn(cs, top) /\ RelayedIn(cs, top) /\ FaithfulIn(cs)

PendingIn(cs, top) ==
    { nr \in 1 .. top : \E k \in DOMAIN cs : \E i \in DOMAIN cs[k].up : cs[k].up[i].nr = nr }

\* A text that was relayed, and the connection it came through.
LEMMA RelayedText ==
    ASSUME NEW cs, NEW top, RelayedIn(cs, top),
           NEW k \in DOMAIN cs, NEW i \in DOMAIN cs[k].down, cs[k].down[i].cmd # "REFRESH"
    PROVE  LET t == cs[k].down[i] IN
           /\ t.nr \in 1 .. top /\ t.via \in DOMAIN cs
           /\ \A j \in DOMAIN cs[t.via].up :
                cs[t.via].up[j].nr > 0 => t.nr < cs[t.via].up[j].nr
BY DEF RelayedIn

LEMMA ConnectionFacts ==
    ASSUME NEW cs \in Seq(Connection), NEW k \in DOMAIN cs
    PROVE  /\ DOMAIN cs = 1 .. Len(cs) /\ Len(cs) \in Nat
           /\ cs[k] \in Connection /\ cs[k].peer \in Client
           /\ cs[k].up \in Seq(Request) /\ cs[k].down \in Seq(Answer)
           /\ Len(cs[k].up) \in Nat /\ DOMAIN cs[k].up = 1 .. Len(cs[k].up)
           /\ Len(cs[k].down) \in Nat /\ DOMAIN cs[k].down = 1 .. Len(cs[k].down)
           /\ \A i \in DOMAIN cs[k].up : cs[k].up[i] \in Request /\ cs[k].up[i].nr \in Nat
           /\ \A i \in DOMAIN cs[k].down : cs[k].down[i] \in Answer
<1>1. DOMAIN cs = 1 .. Len(cs) /\ Len(cs) \in Nat /\ cs[k] \in Connection
  BY LenProperties, ElementOfSeq
<1>2. cs[k].up \in Seq(Request) /\ cs[k].down \in Seq(Answer) /\ cs[k].peer \in Client
  BY <1>1 DEF Connection
<1> DEFINE u == cs[k].up
           d == cs[k].down
<1> HIDE DEF u, d
<1>3. Len(u) \in Nat /\ DOMAIN u = 1 .. Len(u) /\ \A i \in DOMAIN u : u[i] \in Request
  BY <1>2, LenProperties DEF u
<1>4. Len(d) \in Nat /\ DOMAIN d = 1 .. Len(d) /\ \A i \in DOMAIN d : d[i] \in Answer
  BY <1>2, LenProperties DEF d
<1>5. \A i \in DOMAIN u : u[i].nr \in Nat
  <2>1. MaxCommands \in Nat
    BY ChatAssumption
  <2> QED
    BY <1>3, <2>1 DEF Request
<1> QED
  BY <1>1, <1>2, <1>3, <1>4, <1>5 DEF u, d

\* t is a contiguous part of s.
Window(s, t) == \E a \in Nat : Len(t) + a <= Len(s) /\ \A i \in 1 .. Len(t) : t[i] = s[i + a]

\* ds is what is left of cs: messages are taken at the ends of the streams, and
\* the state of a connection only goes on.
Shrunk(cs, ds) ==
    /\ ds \in Seq(Connection) /\ Len(ds) = Len(cs)
    /\ \A k \in 1 .. Len(cs) :
         /\ ds[k].peer = cs[k].peer
         /\ ds[k].tcp = "open" => cs[k].tcp = "open"
         /\ cs[k].tcp = "reset" => ds[k].tcp = "reset"
         /\ ds[k].fd = "closed" => cs[k].fd = "closed" \/ ds[k].tcp # "open"
         /\ Window(cs[k].up, ds[k].up) /\ Window(cs[k].down, ds[k].down)

\* Taking messages away and going on keeps all of it.
LEMMA Shrinks ==
    ASSUME NEW cs, NEW ds, NEW top \in Nat, Streams(cs, top), Shrunk(cs, ds)
    PROVE  Streams(ds, top) /\ PendingIn(ds, top) \subseteq PendingIn(cs, top)
<1>1. cs \in Seq(Connection) /\ ds \in Seq(Connection)
  BY DEF Streams, Shrunk
<1>2. DOMAIN ds = DOMAIN cs /\ DOMAIN cs = 1 .. Len(cs)
  BY <1>1, LenProperties DEF Shrunk
<1>3. \A k \in DOMAIN ds :
        /\ ds[k].peer = cs[k].peer
        /\ ds[k].tcp = "open" => cs[k].tcp = "open"
        /\ cs[k].tcp = "reset" => ds[k].tcp = "reset"
        /\ ds[k].fd = "closed" => cs[k].fd = "closed" \/ ds[k].tcp # "open"
  BY <1>2 DEF Shrunk
<1>4. ASSUME NEW k \in DOMAIN ds
      PROVE \E a \in Nat :
        /\ \A i \in DOMAIN ds[k].up : i + a \in DOMAIN cs[k].up /\ ds[k].up[i] = cs[k].up[i + a]
        /\ \A i \in DOMAIN ds[k].up : \A j \in 1 .. i - 1 :
             j + a \in 1 .. (i + a) - 1 /\ ds[k].up[j] = cs[k].up[j + a]
  <2>1. PICK a \in Nat : /\ Len(ds[k].up) + a <= Len(cs[k].up)
                         /\ \A i \in 1 .. Len(ds[k].up) : ds[k].up[i] = cs[k].up[i + a]
    <3>1. Window(cs[k].up, ds[k].up)
      BY <1>2 DEF Shrunk
    <3> QED
      BY <3>1 DEF Window
  <2>2. /\ Len(ds[k].up) \in Nat /\ DOMAIN ds[k].up = 1 .. Len(ds[k].up)
        /\ Len(cs[k].up) \in Nat /\ DOMAIN cs[k].up = 1 .. Len(cs[k].up)
    BY <1>1, <1>2, ConnectionFacts
  <2>3. \A i \in DOMAIN ds[k].up : i + a \in DOMAIN cs[k].up /\ ds[k].up[i] = cs[k].up[i + a]
    BY SMTT(30), <2>1, <2>2
  <2>4. \A i \in DOMAIN ds[k].up : \A j \in 1 .. i - 1 :
             j + a \in 1 .. (i + a) - 1 /\ ds[k].up[j] = cs[k].up[j + a]
    BY <2>1, <2>2
  <2> QED
    BY <2>3, <2>4
<1>5. ASSUME NEW k \in DOMAIN ds
      PROVE \E a \in Nat :
        /\ \A i \in DOMAIN ds[k].down : i + a \in DOMAIN cs[k].down /\ ds[k].down[i] = cs[k].down[i + a]
        /\ \A i \in DOMAIN ds[k].down : \A j \in 1 .. i - 1 :
             j + a \in 1 .. (i + a) - 1 /\ ds[k].down[j] = cs[k].down[j + a]
  <2>1. PICK a \in Nat : /\ Len(ds[k].down) + a <= Len(cs[k].down)
                         /\ \A i \in 1 .. Len(ds[k].down) : ds[k].down[i] = cs[k].down[i + a]
    <3>1. Window(cs[k].down, ds[k].down)
      BY <1>2 DEF Shrunk
    <3> QED
      BY <3>1 DEF Window
  <2>2. /\ Len(ds[k].down) \in Nat /\ DOMAIN ds[k].down = 1 .. Len(ds[k].down)
        /\ Len(cs[k].down) \in Nat /\ DOMAIN cs[k].down = 1 .. Len(cs[k].down)
    BY <1>1, <1>2, ConnectionFacts
  <2>3. \A i \in DOMAIN ds[k].down : i + a \in DOMAIN cs[k].down /\ ds[k].down[i] = cs[k].down[i + a]
    BY SMTT(30), <2>1, <2>2
  <2>4. \A i \in DOMAIN ds[k].down : \A j \in 1 .. i - 1 :
             j + a \in 1 .. (i + a) - 1 /\ ds[k].down[j] = cs[k].down[j + a]
    BY <2>1, <2>2
  <2> QED
    BY <2>3, <2>4
<1>6. NumberedIn(ds, top)
  <2>1. SUFFICES ASSUME NEW k \in DOMAIN ds, NEW i \in DOMAIN ds[k].up
        PROVE  LET m == ds[k].up[i] IN
               /\ m.nr <= top
               /\ m.nr > 0 <=> m.cmd \in {"SEND", "BROADCAST"}
               /\ m.nr > 0 =>
                     /\ \A j \in 1 .. i - 1 : ds[k].up[j].nr < m.nr
                     /\ \A l \in DOMAIN ds \ {k} : \A j \in DOMAIN ds[l].up : ds[l].up[j].nr # m.nr
    BY DEF NumberedIn
  <2>2. PICK a \in Nat :
        /\ i + a \in DOMAIN cs[k].up /\ ds[k].up[i] = cs[k].up[i + a]
        /\ \A j \in 1 .. i - 1 : j + a \in 1 .. (i + a) - 1 /\ ds[k].up[j] = cs[k].up[j + a]
    BY <1>4
  <2>3. LET m == cs[k].up[i + a] IN
        /\ m.nr <= top
        /\ m.nr > 0 <=> m.cmd \in {"SEND", "BROADCAST"}
        /\ m.nr > 0 =>
              /\ \A j \in 1 .. (i + a) - 1 : cs[k].up[j].nr < m.nr
              /\ \A l \in DOMAIN cs \ {k} : \A j \in DOMAIN cs[l].up : cs[l].up[j].nr # m.nr
    BY <1>2, <2>2 DEF Streams, NumberedIn
  <2>4. ASSUME ds[k].up[i].nr > 0, NEW l \in DOMAIN ds \ {k}, NEW j \in DOMAIN ds[l].up
        PROVE  ds[l].up[j].nr # ds[k].up[i].nr
    <3>1. PICK b \in Nat : j + b \in DOMAIN cs[l].up /\ ds[l].up[j] = cs[l].up[j + b]
      BY <1>4
    <3> QED
      BY <1>2, <2>2, <2>3, <2>4, <3>1
  <2> QED
    BY <2>2, <2>3, <2>4
<1>7. RelayedIn(ds, top)
  <2>1. SUFFICES ASSUME NEW k \in DOMAIN ds, NEW i \in DOMAIN ds[k].down, ds[k].down[i].cmd # "REFRESH"
        PROVE  LET t == ds[k].down[i] IN
            /\ t.nr \in 1 .. top /\ t.via \in DOMAIN ds
            /\ \A j \in DOMAIN ds[t.via].up :
                 ds[t.via].up[j].nr > 0 => t.nr < ds[t.via].up[j].nr
    BY DEF RelayedIn
  <2>2. PICK a \in Nat : i + a \in DOMAIN cs[k].down /\ ds[k].down[i] = cs[k].down[i + a]
    BY <1>5
  <2> DEFINE t == ds[k].down[i]
  <2>3. /\ t.nr \in 1 .. top /\ t.via \in DOMAIN cs
        /\ \A j \in DOMAIN cs[t.via].up : cs[t.via].up[j].nr > 0 => t.nr < cs[t.via].up[j].nr
    BY <1>2, <2>1, <2>2 DEF Streams, RelayedIn
  <2> HIDE DEF t
  <2>4. ASSUME NEW j \in DOMAIN ds[t.via].up, ds[t.via].up[j].nr > 0
        PROVE  t.nr < ds[t.via].up[j].nr
    <3>1. PICK b \in Nat : j + b \in DOMAIN cs[t.via].up /\ ds[t.via].up[j] = cs[t.via].up[j + b]
      BY <1>2, <1>4, <2>3
    <3> QED
      BY <2>3, <2>4, <3>1
  <2> QED
    BY <1>2, <2>3, <2>4 DEF t
<1>8. FaithfulIn(ds)
  <2>1. SUFFICES ASSUME NEW k \in DOMAIN ds, NEW i \in DOMAIN ds[k].down, ds[k].down[i].cmd # "REFRESH"
        PROVE  LET t == ds[k].down[i] IN
            /\ t.cmd = "SEND" => t.des = ds[k].peer
            /\ t.from \in {ds[t.via].peer, Nobody} \/ ds[t.via].tcp = "reset"
            /\ \A j \in 1 .. i - 1 :
                 LET u == ds[k].down[j] IN
                 u.cmd # "REFRESH" /\ u.via = t.via => u.nr < t.nr
    BY DEF FaithfulIn
  <2>2. PICK a \in Nat :
        /\ i + a \in DOMAIN cs[k].down /\ ds[k].down[i] = cs[k].down[i + a]
        /\ \A j \in 1 .. i - 1 : j + a \in 1 .. (i + a) - 1 /\ ds[k].down[j] = cs[k].down[j + a]
    BY <1>5
  <2> DEFINE t == ds[k].down[i]
  <2>3. /\ t.cmd = "SEND" => t.des = cs[k].peer
        /\ t.from \in {cs[t.via].peer, Nobody} \/ cs[t.via].tcp = "reset"
        /\ \A j \in 1 .. (i + a) - 1 :
             LET u == cs[k].down[j] IN
             u.cmd # "REFRESH" /\ u.via = t.via => u.nr < t.nr
    BY <1>2, <2>1, <2>2 DEF Streams, FaithfulIn
  <2>4. t.via \in DOMAIN ds
    BY <1>7, <2>1 DEF RelayedIn
  <2>5. \A j \in 1 .. i - 1 :
          LET u == ds[k].down[j] IN u.cmd # "REFRESH" /\ u.via = t.via => u.nr < t.nr
    <3> HIDE DEF t
    <3> QED
      BY <2>2, <2>3
  <2>6. (t.cmd = "SEND" => t.des = ds[k].peer)
        /\ (t.from \in {ds[t.via].peer, Nobody} \/ ds[t.via].tcp = "reset")
    <3> HIDE DEF t
    <3> QED
      BY <1>3, <2>3, <2>4
  <2> QED
    BY <2>5, <2>6
<1>9. PendingIn(ds, top) \subseteq PendingIn(cs, top)
  <2>1. SUFFICES ASSUME NEW nr \in 1 .. top, NEW k \in DOMAIN ds, NEW i \in DOMAIN ds[k].up,
                        ds[k].up[i].nr = nr
        PROVE  \E l \in DOMAIN cs : \E j \in DOMAIN cs[l].up : cs[l].up[j].nr = nr
    BY DEF PendingIn
  <2>2. PICK a \in Nat : i + a \in DOMAIN cs[k].up /\ ds[k].up[i] = cs[k].up[i + a]
    BY <1>4
  <2> QED
    BY <1>2, <2>1, <2>2
<1> QED
  BY <1>1, <1>6, <1>7, <1>8, <1>9 DEF Streams

\* What a write may leave pending that was not: the number of the message written.
Opens(cs, top, ds, next, nr) ==
    /\ PendingIn(ds, next) \subseteq PendingIn(cs, top) \cup {top + 1}
    /\ nr = 0 => PendingIn(ds, next) \subseteq PendingIn(cs, top)

\* A client writes a message: it has no number, or the next one.
LEMMA Writes ==
    ASSUME NEW cs, NEW top \in Nat, NEW next \in {top, top + 1}, Streams(cs, top),
           NEW k \in DOMAIN cs, NEW m \in Request,
           m.nr = IF m.cmd \in {"SEND", "BROADCAST"} THEN top + 1 ELSE 0,
           m.nr <= next,
           NEW ds, ds = [cs EXCEPT ![k].up = Append(@, m)]
    PROVE  /\ Streams(ds, next) /\ DOMAIN ds = DOMAIN cs
           /\ \A l \in DOMAIN cs : ds[l].peer = cs[l].peer /\ ds[l].tcp = cs[l].tcp
           /\ Opens(cs, top, ds, next, m.nr)
<1>1. cs \in Seq(Connection) /\ DOMAIN cs = 1 .. Len(cs) /\ Len(cs) \in Nat
  BY LenProperties DEF Streams
<1> DEFINE u == cs[k].up
           n == Len(u)
           c == [cs[k] EXCEPT !.up = Append(u, m)]
<1>2. ds = [cs EXCEPT ![k] = c]
  BY <1>1
<1>3. u \in Seq(Request) /\ cs[k] \in Connection
  BY <1>1, ConnectionFacts
<1>4. n \in Nat /\ DOMAIN u = 1 .. n
  BY <1>1, ConnectionFacts
<1> HIDE DEF u
<1> DEFINE v == Append(u, m)
<1>5. v \in Seq(Request) /\ DOMAIN v = 1 .. n + 1 /\ v[n + 1] = m /\ \A i \in 1 .. n : v[i] = u[i]
  <2>1. v \in Seq(Request) /\ Len(v) = n + 1 /\ v[n + 1] = m /\ \A i \in 1 .. n : v[i] = u[i]
    BY <1>3, AppendProperties
  <2>2. DOMAIN v = 1 .. Len(v)
    BY <2>1, LenProperties
  <2> QED
    BY <2>1, <2>2
<1> HIDE DEF v, n
<1>6. /\ c \in Connection
      /\ c.up = v /\ c.peer = cs[k].peer /\ c.tcp = cs[k].tcp /\ c.fd = cs[k].fd /\ c.down = cs[k].down
  BY <1>3, <1>5 DEF Connection, v
<1> HIDE DEF c
<1>7. ds \in Seq(Connection) /\ DOMAIN ds = DOMAIN cs
  <2>1. k \in 1 .. Len(cs)
    BY <1>1
  <2>2. [cs EXCEPT ![k] = c] \in Seq(Connection)
    BY <1>1, <1>6, <2>1, ExceptSeq
  <2> QED
    BY <1>2, <2>2
<1>8. ASSUME NEW l \in DOMAIN cs
      PROVE  /\ ds[l].peer = cs[l].peer /\ ds[l].tcp = cs[l].tcp
             /\ ds[l].fd = cs[l].fd /\ ds[l].down = cs[l].down
             /\ ds[l].up = IF l = k THEN v ELSE cs[l].up
  BY <1>1, <1>2, <1>6
<1>9. /\ \A l \in DOMAIN cs : \A i \in DOMAIN cs[l].up : cs[l].up[i].nr \in Nat
      /\ m.nr \in Nat
  <2>1. \A l \in DOMAIN cs : \A i \in DOMAIN cs[l].up : cs[l].up[i].nr \in Nat
    BY <1>1, ConnectionFacts
  <2>2. m.nr \in Nat
    OBVIOUS
  <2> QED
    BY <2>1, <2>2
<1>10. \A l \in DOMAIN cs : \A i \in DOMAIN cs[l].up :
         cs[l].up[i].nr <= top /\ (cs[l].up[i].nr > 0 <=> cs[l].up[i].cmd \in {"SEND", "BROADCAST"})
  BY DEF Streams, NumberedIn
<1>11. ASSUME NEW l \in DOMAIN ds, NEW i \in DOMAIN ds[l].up
       PROVE  \/ l = k /\ i = n + 1 /\ ds[l].up[i] = m
              \/ i \in DOMAIN cs[l].up /\ ds[l].up[i] = cs[l].up[i] /\ (l = k => i < n + 1)
  <2>1. CASE l = k
    <3>1. ds[l].up = v /\ i \in 1 .. n + 1
      BY <1>5, <1>7, <1>8, <2>1
    <3>2. CASE i = n + 1
      BY <1>5, <2>1, <3>1, <3>2
    <3>3. CASE i # n + 1
      <4>1. i \in 1 .. n /\ i < n + 1
        BY <1>4, <3>1, <3>3
      <4>2. i \in DOMAIN u /\ v[i] = u[i]
        BY <1>4, <1>5, <4>1
      <4>3. i \in DOMAIN cs[l].up /\ ds[l].up[i] = cs[l].up[i]
        BY <2>1, <3>1, <4>2 DEF u
      <4> QED
        BY <4>1, <4>3
    <3> QED
      BY <3>2, <3>3
  <2>2. CASE l # k
    BY <1>7, <1>8, <2>2
  <2> QED
    BY <2>1, <2>2
<1>12. NumberedIn(ds, next)
  <2>1. SUFFICES ASSUME NEW l \in DOMAIN ds, NEW i \in DOMAIN ds[l].up
        PROVE  LET x == ds[l].up[i] IN
               /\ x.nr <= next
               /\ x.nr > 0 <=> x.cmd \in {"SEND", "BROADCAST"}
               /\ x.nr > 0 =>
                     /\ \A j \in 1 .. i - 1 : ds[l].up[j].nr < x.nr
                     /\ \A h \in DOMAIN ds \ {l} : \A j \in DOMAIN ds[h].up : ds[h].up[j].nr # x.nr
    BY DEF NumberedIn
  <2>2. CASE l = k /\ i = n + 1 /\ ds[l].up[i] = m
    <3>1. m.nr <= next /\ (m.nr > 0 <=> m.cmd \in {"SEND", "BROADCAST"})
      BY <1>9
    <3>2. ASSUME m.nr > 0, NEW j \in 1 .. i - 1 PROVE ds[l].up[j].nr < m.nr
      <4>1. j \in 1 .. n /\ j \in DOMAIN u
        BY <1>4, <2>2
      <4>0. ds[l].up = v /\ v[j] = u[j]
        BY <1>5, <1>8, <2>2, <4>1
      <4>2. ds[l].up[j] = cs[k].up[j] /\ j \in DOMAIN cs[k].up
        BY <4>0, <4>1 DEF u
      <4>3. m.nr = top + 1 /\ cs[k].up[j].nr <= top /\ cs[k].up[j].nr \in Nat
        BY <1>9, <1>10, <3>2, <4>2
      <4> QED
        BY <4>2, <4>3
    <3>3. ASSUME m.nr > 0, NEW h \in DOMAIN ds \ {l}, NEW j \in DOMAIN ds[h].up
          PROVE  ds[h].up[j].nr # m.nr
      <4>1. j \in DOMAIN cs[h].up /\ ds[h].up[j] = cs[h].up[j]
        BY <1>11, <2>2
      <4>2. m.nr = top + 1 /\ cs[h].up[j].nr <= top /\ cs[h].up[j].nr \in Nat
        BY <1>7, <1>9, <1>10, <3>3, <4>1
      <4> QED
        BY <4>1, <4>2
    <3> DEFINE x == ds[l].up[i]
    <3>4. x = m
      BY <2>2
    <3> HIDE DEF x
    <3>5. /\ x.nr <= next
          /\ x.nr > 0 <=> x.cmd \in {"SEND", "BROADCAST"}
          /\ x.nr > 0 =>
                /\ \A j \in 1 .. i - 1 : ds[l].up[j].nr < x.nr
                /\ \A h \in DOMAIN ds \ {l} : \A j \in DOMAIN ds[h].up : ds[h].up[j].nr # x.nr
      BY <3>1, <3>2, <3>3, <3>4
    <3> QED
      BY <3>5 DEF x
  <2>3. CASE i \in DOMAIN cs[l].up /\ ds[l].up[i] = cs[l].up[i] /\ (l = k => i < n + 1)
    <3> DEFINE x == cs[l].up[i]
    <3>1. /\ x.nr <= top /\ x.nr \in Nat
          /\ x.nr > 0 <=> x.cmd \in {"SEND", "BROADCAST"}
          /\ x.nr > 0 =>
                /\ \A j \in 1 .. i - 1 : cs[l].up[j].nr < x.nr
                /\ \A h \in DOMAIN cs \ {l} : \A j \in DOMAIN cs[h].up : cs[h].up[j].nr # x.nr
      BY <1>7, <1>9, <2>3 DEF Streams, NumberedIn
    <3> HIDE DEF x
    <3>2. ASSUME x.nr > 0, NEW j \in 1 .. i - 1 PROVE ds[l].up[j].nr < x.nr
      <4>1. j \in DOMAIN ds[l].up /\ ~ (l = k /\ j = n + 1)
        <5>1. CASE l = k
          <6>1. ds[l].up = v /\ i \in 1 .. n + 1 /\ i < n + 1
            BY <1>5, <1>7, <1>8, <2>3, <5>1
          <6>2. j \in 1 .. n + 1 /\ j # n + 1
            BY <1>4, <6>1
          <6> QED
            BY <1>5, <6>1, <6>2
        <5>2. CASE l # k
          <6>1. DOMAIN cs[l].up = 1 .. Len(cs[l].up) /\ Len(cs[l].up) \in Nat
            BY <1>1, <1>7, ConnectionFacts
          <6> QED
            BY <1>7, <1>8, <2>3, <5>2, <6>1
        <5> QED
          BY <5>1, <5>2
      <4>2. ds[l].up[j] = cs[l].up[j]
        BY <1>11, <4>1
      <4> QED
        BY <3>1, <3>2, <4>2
    <3>3. ASSUME x.nr > 0, NEW h \in DOMAIN ds \ {l}, NEW j \in DOMAIN ds[h].up
          PROVE  ds[h].up[j].nr # x.nr
      <4>1. CASE ds[h].up[j] = m
        <5>1. m.nr = top + 1 \/ m.nr = 0
          OBVIOUS
        <5> QED
          BY <3>1, <3>3, <4>1, <5>1
      <4>2. CASE j \in DOMAIN cs[h].up /\ ds[h].up[j] = cs[h].up[j]
        BY <1>7, <3>1, <3>3, <4>2
      <4> QED
        BY <1>11, <4>1, <4>2
    <3>4. x.nr <= next
      BY <3>1
    <3> QED
      BY <2>3, <3>1, <3>2, <3>3, <3>4 DEF x
  <2> QED
    BY <1>11, <2>2, <2>3
<1>13. RelayedIn(ds, next)
  <2>1. SUFFICES ASSUME NEW l \in DOMAIN ds, NEW i \in DOMAIN ds[l].down, ds[l].down[i].cmd # "REFRESH"
        PROVE  LET t == ds[l].down[i] IN
            /\ t.nr \in 1 .. next /\ t.via \in DOMAIN ds
            /\ \A j \in DOMAIN ds[t.via].up :
                 ds[t.via].up[j].nr > 0 => t.nr < ds[t.via].up[j].nr
    BY DEF RelayedIn
  <2> DEFINE t == ds[l].down[i]
  <2>2. /\ t.nr \in 1 .. top /\ t.via \in DOMAIN cs
        /\ \A j \in DOMAIN cs[t.via].up : cs[t.via].up[j].nr > 0 => t.nr < cs[t.via].up[j].nr
    <3>1. /\ RelayedIn(cs, top) /\ cs[l].down[i] = t /\ i \in DOMAIN cs[l].down /\ l \in DOMAIN cs
          /\ t.cmd # "REFRESH"
      BY <1>7, <1>8, <2>1 DEF Streams
    <3> HIDE DEF t
    <3> QED
      BY <3>1, RelayedText
  <2> HIDE DEF t
  <2>3. ASSUME NEW j \in DOMAIN ds[t.via].up, ds[t.via].up[j].nr > 0
        PROVE  t.nr < ds[t.via].up[j].nr
    <3>1. CASE ds[t.via].up[j] = m
      BY <2>2, <2>3, <3>1
    <3>2. CASE j \in DOMAIN cs[t.via].up /\ ds[t.via].up[j] = cs[t.via].up[j]
      BY <2>2, <2>3, <3>2
    <3> QED
      BY <1>7, <1>11, <2>2, <3>1, <3>2
  <2>4. t.nr \in 1 .. next
    BY <2>2
  <2> QED
    BY <1>7, <2>2, <2>3, <2>4 DEF t
<1>14. FaithfulIn(ds)
  <2>1. SUFFICES ASSUME NEW l \in DOMAIN ds, NEW i \in DOMAIN ds[l].down, ds[l].down[i].cmd # "REFRESH"
        PROVE  LET t == ds[l].down[i] IN
            /\ t.cmd = "SEND" => t.des = ds[l].peer
            /\ t.from \in {ds[t.via].peer, Nobody} \/ ds[t.via].tcp = "reset"
            /\ \A j \in 1 .. i - 1 :
                 LET x == ds[l].down[j] IN
                 x.cmd # "REFRESH" /\ x.via = t.via => x.nr < t.nr
    BY DEF FaithfulIn
  <2>2. ds[l].down[i].via \in DOMAIN cs
    BY <1>7, <2>1, <1>13 DEF RelayedIn
  <2> QED
    BY <1>7, <1>8, <2>1, <2>2 DEF Streams, FaithfulIn
<1>15. ASSUME NEW nr \in PendingIn(ds, next)
       PROVE  nr \in PendingIn(cs, top) \/ (nr = m.nr /\ nr # 0)
  <2>0. PICK l \in DOMAIN ds : \E i \in DOMAIN ds[l].up : ds[l].up[i].nr = nr /\ nr \in 1 .. next
    BY DEF PendingIn
  <2>1. PICK i \in DOMAIN ds[l].up : ds[l].up[i].nr = nr /\ nr \in 1 .. next
    BY <2>0
  <2>2. CASE ds[l].up[i] = m
    BY <2>1, <2>2
  <2>3. CASE i \in DOMAIN cs[l].up /\ ds[l].up[i] = cs[l].up[i]
    <3>1. nr \in 1 .. top
      BY <1>7, <1>10, <2>1, <2>3
    <3> QED
      BY <1>7, <2>1, <2>3, <3>1 DEF PendingIn
  <2> QED
    BY <1>11, <2>2, <2>3
<1>16. Opens(cs, top, ds, next, m.nr)
  BY <1>15 DEF Opens
<1> QED
  BY <1>7, <1>8, <1>12, <1>13, <1>14, <1>16 DEF Streams

\* A client connects.
LEMMA Connects ==
    ASSUME NEW cs, NEW top \in Nat, Streams(cs, top), NEW c \in Client,
           NEW ds, ds = Append(cs, NewConnection(c))
    PROVE  /\ Streams(ds, top) /\ PendingIn(ds, top) \subseteq PendingIn(cs, top)
           /\ DOMAIN ds = 1 .. Len(cs) + 1 /\ Len(ds) = Len(cs) + 1
           /\ \A l \in DOMAIN cs : ds[l] = cs[l]
           /\ ds[Len(cs) + 1].peer = c /\ ds[Len(cs) + 1].tcp = "open"
<1> DEFINE new == NewConnection(c)
           n == Len(cs)
<1>1. cs \in Seq(Connection) /\ DOMAIN cs = 1 .. n /\ n \in Nat
  BY LenProperties DEF Streams
<1>2. /\ new \in Connection /\ new.peer = c /\ new.tcp = "open" /\ new.fd = "backlog"
      /\ DOMAIN new.down = {} /\ DOMAIN new.up = 1 .. 2
      /\ \A i \in 1 .. 2 : new.up[i].nr = 0 /\ new.up[i].cmd \in {"LOGIN", "REFRESH"}
  <2>1. MaxCommands \in Nat
    BY ChatAssumption
  <2>2. Message("LOGIN", Nobody, 0) \in Request /\ Message("REFRESH", Nobody, 0) \in Request
    BY <2>1 DEF Message, Request, Command
  <2>3. new.up \in Seq(Request) /\ new.down \in Seq(Answer)
    BY <2>2 DEF NewConnection
  <2>4. new \in Connection
    BY <2>3 DEF NewConnection, Connection
  <2>5. DOMAIN new.down = {} /\ DOMAIN new.up = 1 .. 2
    BY DEF NewConnection
  <2>6. new.up[1] = Message("LOGIN", Nobody, 0) /\ new.up[2] = Message("REFRESH", Nobody, 0)
    BY DEF NewConnection
  <2>7. \A i \in 1 .. 2 : new.up[i].nr = 0 /\ new.up[i].cmd \in {"LOGIN", "REFRESH"}
    <3>1. \A i \in 1 .. 2 : i = 1 \/ i = 2
      OBVIOUS
    <3> HIDE DEF new
    <3> QED
      BY <2>6, <3>1 DEF Message
  <2> QED
    BY <2>4, <2>5, <2>7 DEF NewConnection
<1> HIDE DEF new, n
<1>3. /\ ds \in Seq(Connection) /\ DOMAIN ds = 1 .. n + 1 /\ Len(ds) = n + 1
      /\ \A l \in DOMAIN cs : ds[l] = cs[l]
      /\ ds[n + 1] = new
  <2>1. ds = Append(cs, new)
    BY DEF new
  <2>2. /\ ds \in Seq(Connection) /\ Len(ds) = n + 1
        /\ \A l \in 1 .. n : ds[l] = cs[l]
        /\ ds[n + 1] = new
    BY <1>1, <1>2, <2>1, AppendProperties DEF n
  <2>3. DOMAIN ds = 1 .. Len(ds)
    BY <2>2, LenProperties
  <2> QED
    BY <1>1, <2>2, <2>3
<1>4. \A l \in DOMAIN ds : l \in DOMAIN cs \/ l = n + 1
  BY <1>1, <1>3
<1>5. n + 1 \notin DOMAIN cs /\ DOMAIN cs \subseteq DOMAIN ds
  BY <1>1, <1>3
<1>6. \A l \in DOMAIN cs : \A i \in DOMAIN cs[l].up : cs[l].up[i].nr \in Nat
  BY <1>1, ConnectionFacts
<1>7. NumberedIn(ds, top)
  <2>1. SUFFICES ASSUME NEW l \in DOMAIN ds, NEW i \in DOMAIN ds[l].up
        PROVE  LET x == ds[l].up[i] IN
               /\ x.nr <= top
               /\ x.nr > 0 <=> x.cmd \in {"SEND", "BROADCAST"}
               /\ x.nr > 0 =>
                     /\ \A j \in 1 .. i - 1 : ds[l].up[j].nr < x.nr
                     /\ \A h \in DOMAIN ds \ {l} : \A j \in DOMAIN ds[h].up : ds[h].up[j].nr # x.nr
    BY DEF NumberedIn
  <2>2. CASE l = n + 1
    <3>1. ds[l].up[i].nr = 0 /\ ds[l].up[i].cmd \in {"LOGIN", "REFRESH"}
      BY <1>2, <1>3, <2>2
    <3> QED
      BY <3>1
  <2>3. CASE l \in DOMAIN cs
    <3> DEFINE x == ds[l].up[i]
    <3>1. /\ x.nr <= top /\ x.nr \in Nat
          /\ x.nr > 0 <=> x.cmd \in {"SEND", "BROADCAST"}
          /\ x.nr > 0 =>
                /\ \A j \in 1 .. i - 1 : ds[l].up[j].nr < x.nr
                /\ \A h \in DOMAIN cs \ {l} : \A j \in DOMAIN cs[h].up : cs[h].up[j].nr # x.nr
      BY <1>3, <1>6, <2>3 DEF Streams, NumberedIn
    <3> HIDE DEF x
    <3>2. ASSUME x.nr > 0, NEW h \in DOMAIN ds \ {l}, NEW j \in DOMAIN ds[h].up
          PROVE  ds[h].up[j].nr # x.nr
      <4>1. CASE h = n + 1
        <5>1. ds[h].up[j].nr = 0
          BY <1>2, <1>3, <4>1
        <5> QED
          BY <3>2, <5>1
      <4>2. CASE h \in DOMAIN cs
        BY <1>3, <3>1, <3>2, <4>2
      <4> QED
        BY <1>4, <4>1, <4>2
    <3> QED
      BY <3>1, <3>2 DEF x
  <2> QED
    BY <1>4, <2>2, <2>3
<1>8. ASSUME NEW l \in DOMAIN ds, NEW i \in DOMAIN ds[l].down
      PROVE  l \in DOMAIN cs /\ ds[l].down[i] = cs[l].down[i] /\ i \in DOMAIN cs[l].down
  BY <1>2, <1>3, <1>4
<1>9. RelayedIn(ds, top)
  <2>1. SUFFICES ASSUME NEW l \in DOMAIN ds, NEW i \in DOMAIN ds[l].down, ds[l].down[i].cmd # "REFRESH"
        PROVE  LET t == ds[l].down[i] IN
            /\ t.nr \in 1 .. top /\ t.via \in DOMAIN ds
            /\ \A j \in DOMAIN ds[t.via].up :
                 ds[t.via].up[j].nr > 0 => t.nr < ds[t.via].up[j].nr
    BY DEF RelayedIn
  <2> DEFINE t == ds[l].down[i]
  <2>2. /\ t.nr \in 1 .. top /\ t.via \in DOMAIN cs
        /\ \A j \in DOMAIN cs[t.via].up : cs[t.via].up[j].nr > 0 => t.nr < cs[t.via].up[j].nr
    <3>1. RelayedIn(cs, top) /\ cs[l].down[i] = t /\ i \in DOMAIN cs[l].down /\ l \in DOMAIN cs
      BY <1>8, <2>1 DEF Streams
    <3> QED
      BY <2>1, <3>1, RelayedText
  <2> HIDE DEF t
  <2>3. t.via \in DOMAIN ds /\ ds[t.via] = cs[t.via]
    BY <1>3, <1>5, <2>2
  <2> QED
    BY <2>2, <2>3 DEF t
<1>10. FaithfulIn(ds)
  <2>1. SUFFICES ASSUME NEW l \in DOMAIN ds, NEW i \in DOMAIN ds[l].down, ds[l].down[i].cmd # "REFRESH"
        PROVE  LET t == ds[l].down[i] IN
            /\ t.cmd = "SEND" => t.des = ds[l].peer
            /\ t.from \in {ds[t.via].peer, Nobody} \/ ds[t.via].tcp = "reset"
            /\ \A j \in 1 .. i - 1 :
                 LET x == ds[l].down[j] IN
                 x.cmd # "REFRESH" /\ x.via = t.via => x.nr < t.nr
    BY DEF FaithfulIn
  <2>2. l \in DOMAIN cs /\ ds[l] = cs[l] /\ i \in DOMAIN cs[l].down
    BY <1>3, <1>8
  <2>3. ds[l].down[i].via \in DOMAIN cs
    BY <2>1, <2>2 DEF Streams, RelayedIn
  <2> QED
    BY <1>3, <2>1, <2>2, <2>3 DEF Streams, FaithfulIn
<1>11. ASSUME NEW nr \in PendingIn(ds, top) PROVE nr \in PendingIn(cs, top)
  <2>1. PICK l \in DOMAIN ds : \E i \in DOMAIN ds[l].up : ds[l].up[i].nr = nr /\ nr \in 1 .. top
    BY DEF PendingIn
  <2>2. PICK i \in DOMAIN ds[l].up : ds[l].up[i].nr = nr /\ nr \in 1 .. top
    BY <2>1
  <2>3. l # n + 1
    BY <1>2, <1>3, <2>2
  <2> QED
    BY <1>3, <1>4, <2>2, <2>3 DEF PendingIn
<1> QED
  BY <1>2, <1>3, <1>7, <1>9, <1>10, <1>11 DEF Streams, n

\* The server has sent m to the connections ks.
Relays(cs, ks, late, m) ==
    [k \in DOMAIN cs |->
        CASE k \in ks /\ cs[k].tcp = "open" -> [cs[k] EXCEPT !.down = Append(@, m)]
          [] k \in ks \ late /\ cs[k].tcp = "fin" -> [cs[k] EXCEPT !.tcp = "reset"]
          [] OTHER -> cs[k]]

\* A text m that is about to be sent to the connections ks.
Relayable(cs, top, ks, m) ==
    /\ m.nr \in 1 .. top /\ m.via \in DOMAIN cs
    /\ \A j \in DOMAIN cs[m.via].up : cs[m.via].up[j].nr > 0 => m.nr < cs[m.via].up[j].nr
    /\ m.from \in {cs[m.via].peer, Nobody} \/ cs[m.via].tcp = "reset"
    /\ \A k \in ks : m.cmd = "SEND" /\ cs[k].tcp = "open" => m.des = cs[k].peer
    /\ \A k \in DOMAIN cs : \A i \in DOMAIN cs[k].down :
         LET u == cs[k].down[i] IN
         u.cmd # "REFRESH" /\ u.via = m.via => u.nr < m.nr

LEMMA RelayFacts ==
    ASSUME NEW cs, NEW top \in Nat, Streams(cs, top), NEW ks, NEW late, NEW m \in Answer,
           m.cmd # "REFRESH" => Relayable(cs, top, ks, m),
           NEW ds, ds = Relays(cs, ks, late, m)
    PROVE  /\ Streams(ds, top) /\ DOMAIN ds = DOMAIN cs /\ Len(ds) = Len(cs)
           /\ \A l \in DOMAIN cs : ds[l].peer = cs[l].peer /\ (cs[l].tcp = "open" => ds[l].tcp = "open")
           /\ PendingIn(ds, top) = PendingIn(cs, top)
<1>1. cs \in Seq(Connection) /\ DOMAIN cs = 1 .. Len(cs) /\ Len(cs) \in Nat
  BY LenProperties DEF Streams
<1>2. ASSUME NEW k \in DOMAIN cs
      PROVE  /\ ds[k] \in Connection
             /\ ds[k].peer = cs[k].peer /\ ds[k].fd = cs[k].fd /\ ds[k].up = cs[k].up
             /\ ds[k].tcp = "open" <=> cs[k].tcp = "open"
             /\ cs[k].tcp = "reset" => ds[k].tcp = "reset"
             /\ \/ ds[k].down = cs[k].down
                \/ k \in ks /\ cs[k].tcp = "open" /\ ds[k].down = Append(cs[k].down, m)
  <2>1. cs[k] \in Connection /\ cs[k].down \in Seq(Answer)
    BY <1>1, ConnectionFacts
  <2>2. CASE k \in ks /\ cs[k].tcp = "open"
    <3>1. ds[k] = [cs[k] EXCEPT !.down = Append(cs[k].down, m)]
      BY <2>2 DEF Relays
    <3>2. Append(cs[k].down, m) \in Seq(Answer)
      BY <2>1, AppendProperties
    <3> QED
      BY <2>1, <2>2, <3>1, <3>2 DEF Connection
  <2>3. CASE ~ (k \in ks /\ cs[k].tcp = "open") /\ k \in ks \ late /\ cs[k].tcp = "fin"
    <3>1. ds[k] = [cs[k] EXCEPT !.tcp = "reset"]
      BY <2>3 DEF Relays
    <3> QED
      BY <2>1, <2>3, <3>1 DEF Connection
  <2>4. CASE ~ (k \in ks /\ cs[k].tcp = "open") /\ ~ (k \in ks \ late /\ cs[k].tcp = "fin")
    <3>1. ds[k] = cs[k]
      BY <2>4 DEF Relays
    <3> QED
      BY <2>1, <3>1
  <2> QED
    BY <2>2, <2>3, <2>4
<1>3. DOMAIN ds = DOMAIN cs /\ Len(ds) = Len(cs) /\ ds \in Seq(Connection)
  <2>1. DOMAIN ds = DOMAIN cs
    BY DEF Relays
  <2>2. ds = [k \in 1 .. Len(cs) |-> ds[k]]
    BY <1>1, <2>1 DEF Relays
  <2>3. ds \in Seq(Connection)
    BY <1>1, <1>2, <2>2
  <2> QED
    BY <1>1, <2>1, <2>3, LenProperties
<1>4. ASSUME NEW k \in DOMAIN cs, NEW i \in DOMAIN ds[k].down
      PROVE  \/ /\ i \in DOMAIN cs[k].down /\ ds[k].down[i] = cs[k].down[i]
                /\ \A j \in 1 .. i - 1 : j \in DOMAIN cs[k].down /\ ds[k].down[j] = cs[k].down[j]
             \/ /\ ds[k].down[i] = m /\ k \in ks /\ cs[k].tcp = "open"
                /\ \A j \in 1 .. i - 1 : j \in DOMAIN cs[k].down /\ ds[k].down[j] = cs[k].down[j]
  <2> DEFINE d == cs[k].down
             n == Len(d)
  <2>1. d \in Seq(Answer) /\ n \in Nat /\ DOMAIN d = 1 .. n
    BY <1>1, ConnectionFacts
  <2>2. CASE ds[k].down = d
    <3>1. \A j \in 1 .. i - 1 : j \in DOMAIN d
      BY <2>1, <2>2
    <3> QED
      BY <2>2, <3>1
  <2>3. CASE k \in ks /\ cs[k].tcp = "open" /\ ds[k].down = Append(d, m)
    <3> HIDE DEF d
    <3>1. /\ Append(d, m) \in Seq(Answer) /\ Len(Append(d, m)) = n + 1
          /\ \A j \in 1 .. n : Append(d, m)[j] = d[j]
          /\ Append(d, m)[n + 1] = m
      BY <2>1, AppendProperties
    <3> DEFINE e == Append(d, m)
    <3>2. DOMAIN e = 1 .. n + 1
      BY <3>1, LenProperties
    <3> HIDE DEF e, n
    <3>3. i \in 1 .. n + 1 /\ e[n + 1] = m /\ \A j \in 1 .. n : e[j] = d[j]
      BY <2>3, <3>1, <3>2 DEF e
    <3>4. \A j \in 1 .. i - 1 : j \in DOMAIN d /\ e[j] = d[j]
      BY <2>1, <3>3
    <3>5. (i \in DOMAIN d /\ e[i] = d[i]) \/ e[i] = m
      BY <2>1, <3>3
    <3> QED
      BY <2>3, <3>4, <3>5 DEF d, e
  <2> QED
    BY <1>2, <2>2, <2>3
<1>5. NumberedIn(ds, top)
  <2>1. \A k \in DOMAIN cs : ds[k].up = cs[k].up
    BY <1>2
  <2> QED
    BY <1>3, <2>1 DEF Streams, NumberedIn
<1>6. RelayedIn(ds, top)
  <2>0. SUFFICES ASSUME NEW k \in DOMAIN ds, NEW i \in DOMAIN ds[k].down, ds[k].down[i].cmd # "REFRESH"
        PROVE  LET t == ds[k].down[i] IN
            /\ t.nr \in 1 .. top /\ t.via \in DOMAIN ds
            /\ \A j \in DOMAIN ds[t.via].up :
                 ds[t.via].up[j].nr > 0 => t.nr < ds[t.via].up[j].nr
    BY DEF RelayedIn
  <2>1. k \in DOMAIN cs /\ i \in DOMAIN ds[k].down /\ ds[k].down[i].cmd # "REFRESH"
    BY <1>3, <2>0
  <2> DEFINE t == ds[k].down[i]
  <2>2. /\ t.nr \in 1 .. top /\ t.via \in DOMAIN cs
        /\ \A j \in DOMAIN cs[t.via].up : cs[t.via].up[j].nr > 0 => t.nr < cs[t.via].up[j].nr
    <3>1. CASE i \in DOMAIN cs[k].down /\ t = cs[k].down[i]
      <4>1. RelayedIn(cs, top) /\ k \in DOMAIN cs /\ t.cmd # "REFRESH"
        BY <2>1 DEF Streams
      <4> HIDE DEF t
      <4> QED
        BY <3>1, <4>1, RelayedText
    <3>2. CASE t = m
      BY <2>1, <3>2 DEF Relayable
    <3>3. t = m \/ (i \in DOMAIN cs[k].down /\ t = cs[k].down[i])
      BY <1>4, <2>1
    <3> HIDE DEF t
    <3> QED
      BY <3>1, <3>2, <3>3
  <2> HIDE DEF t
  <2>3. t.via \in DOMAIN ds /\ ds[t.via].up = cs[t.via].up
    BY <1>2, <1>3, <2>2
  <2> QED
    BY <2>2, <2>3 DEF t
<1>7. FaithfulIn(ds)
  <2>1. SUFFICES ASSUME NEW k \in DOMAIN cs, NEW i \in DOMAIN ds[k].down, ds[k].down[i].cmd # "REFRESH"
        PROVE  LET t == ds[k].down[i] IN
            /\ t.cmd = "SEND" => t.des = ds[k].peer
            /\ t.from \in {ds[t.via].peer, Nobody} \/ ds[t.via].tcp = "reset"
            /\ \A j \in 1 .. i - 1 :
                 LET u == ds[k].down[j] IN
                 u.cmd # "REFRESH" /\ u.via = t.via => u.nr < t.nr
    BY <1>3 DEF FaithfulIn
  <2> DEFINE t == ds[k].down[i]
  <2>2. \A j \in 1 .. i - 1 : j \in DOMAIN cs[k].down /\ ds[k].down[j] = cs[k].down[j]
    BY <1>4
  <2>3. /\ t.cmd = "SEND" => t.des = cs[k].peer
        /\ t.from \in {cs[t.via].peer, Nobody} \/ cs[t.via].tcp = "reset"
        /\ \A j \in 1 .. i - 1 :
             LET u == cs[k].down[j] IN
             u.cmd # "REFRESH" /\ u.via = t.via => u.nr < t.nr
    <3>1. CASE i \in DOMAIN cs[k].down /\ t = cs[k].down[i]
      BY <2>1, <3>1 DEF Streams, FaithfulIn
    <3>2. CASE t = m /\ k \in ks /\ cs[k].tcp = "open"
      BY <2>1, <2>2, <3>2 DEF Relayable
    <3> QED
      BY <1>4, <3>1, <3>2
  <2>4. t.via \in DOMAIN cs
    BY <1>3, <1>6, <2>1 DEF RelayedIn
  <2> HIDE DEF t
  <2>5. ds[t.via].peer = cs[t.via].peer /\ (cs[t.via].tcp = "reset" => ds[t.via].tcp = "reset")
        /\ ds[k].peer = cs[k].peer
    BY <1>2, <2>4
  <2>6. /\ t.cmd = "SEND" => t.des = ds[k].peer
        /\ t.from \in {ds[t.via].peer, Nobody} \/ ds[t.via].tcp = "reset"
        /\ \A j \in 1 .. i - 1 :
             LET u == ds[k].down[j] IN
             u.cmd # "REFRESH" /\ u.via = t.via => u.nr < t.nr
    BY <2>2, <2>3, <2>5
  <2> QED
    BY <2>6 DEF t
<1>8. PendingIn(ds, top) = PendingIn(cs, top)
  <2>1. \A k \in DOMAIN cs : ds[k].up = cs[k].up
    BY <1>2
  <2> QED
    BY <1>3, <2>1 DEF PendingIn
<1> QED
  BY <1>2, <1>3, <1>5, <1>6, <1>7, <1>8 DEF Streams

-----------------------------------------------------------------------------
(* Counting *)

\* A client in the list.
Listed == [ip : Client, port : Client \cup {BadPort}, status : BOOLEAN, sent : Nat, rcv : Nat]

CreditsOf(l) == UNION { { <<i, nr>> : nr \in 1 .. l[i].sent } : i \in DOMAIN l }

\* CountedOnce, of list l and connections cs when top commands are typed.
CountedIn(l, cs, top) ==
    LET handled == top - Cardinality(PendingIn(cs, top)) IN
    /\ Cardinality(CreditsOf(l)) <= handled
    /\ \A i \in DOMAIN l : l[i].rcv <= handled

\* A function does not make a finite set larger.
LEMMA ImageFacts ==
    ASSUME NEW S, IsFiniteSet(S), NEW f, DOMAIN f = S,
           NEW T, T \subseteq { f[x] : x \in S }
    PROVE  IsFiniteSet(T) /\ Cardinality(T) <= Cardinality(S)
<1> DEFINE R == { f[x] : x \in S }
           g == [x \in S |-> f[x]]
<1>1. g \in Surjection(S, R)
  <2>1. g \in [S -> R]
    OBVIOUS
  <2>2. \A y \in R : \E x \in S : g[x] = y
    OBVIOUS
  <2> QED
    BY <2>1, <2>2 DEF Surjection
<1> HIDE DEF g, R
<1>2. IsFiniteSet(R) /\ Cardinality(R) <= Cardinality(S)
  BY <1>1, FS_Surjection
<1>3. IsFiniteSet(T) /\ Cardinality(T) <= Cardinality(R)
  <2>1. T \in SUBSET R
    BY DEF R
  <2> QED
    BY <1>2, <2>1, FS_Subset
<1>4. Cardinality(T) \in Nat /\ Cardinality(R) \in Nat /\ Cardinality(S) \in Nat
  BY <1>2, <1>3, FS_CardinalityType
<1>5. \A a, b, c \in Nat : a <= b /\ b <= c => a <= c
  BY ONLY TRUE
<1> QED
  BY <1>2, <1>3, <1>4, <1>5

LEMMA CreditsFinite ==
    ASSUME NEW l \in Seq(Listed)
    PROVE  IsFiniteSet(CreditsOf(l)) /\ Cardinality(CreditsOf(l)) \in Nat
<1> DEFINE Of(i) == { <<i, nr>> : nr \in 1 .. l[i].sent }
           f == [i \in DOMAIN l |-> Of(i)]
           S == { Of(i) : i \in DOMAIN l }
<1>1. DOMAIN l = 1 .. Len(l) /\ Len(l) \in Nat /\ \A i \in DOMAIN l : l[i].sent \in Nat
  <2>1. \A i \in DOMAIN l : l[i] \in Listed
    BY LenProperties
  <2> QED
    BY <2>1, LenProperties DEF Listed
<1>2. ASSUME NEW i \in DOMAIN l PROVE IsFiniteSet(Of(i))
  <2> DEFINE n == l[i].sent
             g == [nr \in 1 .. n |-> <<i, nr>>]
  <2>1. IsFiniteSet(1 .. n)
    <3>1. n \in Int /\ 1 \in Int
      BY <1>1
    <3> HIDE DEF n
    <3> QED
      BY <3>1, FS_Interval
  <2>2. DOMAIN g = 1 .. n /\ Of(i) \subseteq { g[x] : x \in 1 .. n }
    OBVIOUS
  <2> HIDE DEF g, Of
  <2> QED
    BY <2>1, <2>2, ImageFacts
<1>3. IsFiniteSet(S)
  <2>1. IsFiniteSet(DOMAIN l)
    BY <1>1, FS_Interval
  <2>2. DOMAIN f = DOMAIN l /\ S \subseteq { f[x] : x \in DOMAIN l }
    BY Zenon
  <2> HIDE DEF f, S
  <2> QED
    BY <2>1, <2>2, ImageFacts
<1>4. \A T \in S : IsFiniteSet(T)
  BY <1>2
<1>5. CreditsOf(l) = UNION S
  BY DEF CreditsOf
<1> HIDE DEF S
<1> QED
  BY <1>3, <1>4, <1>5, FS_UNION, FS_CardinalityType

\* When h takes entries of l to entries of t that have not sent more, and no
\* other entry of t has sent anything, t has not sent more than l.
LEMMA CreditsMoved ==
    ASSUME NEW l \in Seq(Listed), NEW t \in Seq(Listed), NEW h,
           \A j \in DOMAIN t :
               t[j].sent = 0 \/ \E i \in DOMAIN l : h[i] = j /\ t[j].sent <= l[i].sent
    PROVE  Cardinality(CreditsOf(t)) <= Cardinality(CreditsOf(l))
<1> DEFINE S == CreditsOf(l)
           f == [x \in S |-> <<h[x[1]], x[2]>>]
<1>1. IsFiniteSet(S) /\ DOMAIN f = S
  BY CreditsFinite
<1>2. ASSUME NEW y \in CreditsOf(t) PROVE y \in { f[x] : x \in S }
  <2>1. PICK j \in DOMAIN t : y \in { <<j, nr>> : nr \in 1 .. t[j].sent }
    BY DEF CreditsOf
  <2>2. PICK nr \in 1 .. t[j].sent : y = <<j, nr>>
    BY <2>1
  <2>3. t[j].sent \in Nat
    <3>1. t[j] \in Listed
      BY LenProperties
    <3> QED
      BY <3>1 DEF Listed
  <2>4. PICK i \in DOMAIN l : h[i] = j /\ t[j].sent <= l[i].sent
    BY <2>2, <2>3
  <2>5. l[i].sent \in Nat
    <3>1. l[i] \in Listed
      BY LenProperties
    <3> QED
      BY <3>1 DEF Listed
  <2>6. nr \in 1 .. l[i].sent
    BY <2>2, <2>3, <2>4, <2>5
  <2>7. <<i, nr>> \in S
    BY <2>6 DEF CreditsOf
  <2>8. f[<<i, nr>>] = y
    BY <2>2, <2>4, <2>7
  <2> QED
    BY <2>7, <2>8
<1> HIDE DEF f, S
<1> QED
  BY <1>1, <1>2, ImageFacts DEF S

\* A counter goes up by one.
LEMMA CountUpFacts ==
    ASSUME NEW s \in Seq(Listed), NEW I, NEW counter \in {"sent", "rcv"}
    PROVE  /\ CountUp(s, I, counter) \in Seq(Listed)
           /\ DOMAIN CountUp(s, I, counter) = DOMAIN s
           /\ Len(CountUp(s, I, counter)) = Len(s)
           /\ \A i \in DOMAIN s :
                LET r == CountUp(s, I, counter)[i] IN
                /\ r.port = s[i].port
                /\ r.sent \in {s[i].sent, s[i].sent + 1}
                /\ r.rcv \in {s[i].rcv, s[i].rcv + 1}
                /\ counter = "sent" => r.rcv = s[i].rcv
                /\ counter = "rcv" \/ i \notin I => r.sent = s[i].sent
<1> DEFINE t == CountUp(s, I, counter)
<1>1. DOMAIN s = 1 .. Len(s) /\ Len(s) \in Nat /\ \A i \in DOMAIN s : s[i] \in Listed
  BY LenProperties
<1>2. DOMAIN t = DOMAIN s
  BY DEF CountUp
<1>3. ASSUME NEW i \in DOMAIN s
      PROVE  /\ t[i] \in Listed
             /\ t[i].port = s[i].port
             /\ t[i].sent \in {s[i].sent, s[i].sent + 1}
             /\ t[i].rcv \in {s[i].rcv, s[i].rcv + 1}
             /\ counter = "sent" => t[i].rcv = s[i].rcv
             /\ counter = "rcv" \/ i \notin I => t[i].sent = s[i].sent
  <2>1. s[i] \in Listed
    BY <1>1
  <2>2. CASE ~ (i \in I /\ s[i].ip \in Counted)
    <3>1. t[i] = s[i]
      BY <2>2 DEF CountUp
    <3> QED
      BY <2>1, <3>1
  <2>3. CASE i \in I /\ s[i].ip \in Counted /\ counter = "sent"
    <3>1. t[i] = [s[i] EXCEPT !.sent = @ + 1]
      BY <2>3 DEF CountUp
    <3> HIDE DEF t
    <3>0. s[i].sent + 1 \in Nat
      BY <2>1 DEF Listed
    <3>2. t[i] \in Listed
      <4> DEFINE n == s[i].sent + 1
      <4>1. t[i] = [s[i] EXCEPT !.sent = n] /\ n \in Nat
        BY <3>0, <3>1
      <4> HIDE DEF n
      <4> QED
        BY <2>1, <4>1 DEF Listed
    <3>3. t[i].port = s[i].port /\ t[i].rcv = s[i].rcv /\ t[i].sent = s[i].sent + 1
      BY <2>1, <3>1 DEF Listed
    <3>4. counter = "sent" <=> ~ (counter = "rcv")
      OBVIOUS
    <3> QED
      BY <2>3, <3>2, <3>3, <3>4
  <2>4. CASE i \in I /\ s[i].ip \in Counted /\ counter = "rcv"
    <3>1. t[i] = [s[i] EXCEPT !.rcv = @ + 1]
      BY <2>4 DEF CountUp
    <3> HIDE DEF t
    <3>0. s[i].rcv + 1 \in Nat
      BY <2>1 DEF Listed
    <3>2. t[i] \in Listed
      <4> DEFINE n == s[i].rcv + 1
      <4>1. t[i] = [s[i] EXCEPT !.rcv = n] /\ n \in Nat
        BY <3>0, <3>1
      <4> HIDE DEF n
      <4> QED
        BY <2>1, <4>1 DEF Listed
    <3>3. t[i].port = s[i].port /\ t[i].sent = s[i].sent /\ t[i].rcv = s[i].rcv + 1
      BY <2>1, <3>1 DEF Listed
    <3>4. counter = "sent" <=> ~ (counter = "rcv")
      OBVIOUS
    <3> QED
      BY <2>4, <3>2, <3>3, <3>4
  <2> QED
    BY <2>2, <2>3, <2>4
<1>4. t \in Seq(Listed)
  <2>1. t = [i \in 1 .. Len(s) |-> t[i]]
    BY <1>1, <1>2 DEF CountUp
  <2> QED
    BY <1>1, <1>3, <2>1
<1>5. Len(t) = Len(s)
  BY <1>1, <1>2, <1>4, LenProperties
<1> QED
  BY <1>2, <1>3, <1>4, <1>5

\* Texts that are no longer pending have been handled.
LEMMA Handled ==
    ASSUME NEW top \in Nat, NEW P \in SUBSET (1 .. top), NEW next \in {top, top + 1},
           NEW Q \in SUBSET (P \cup {next}), next = top => Q \subseteq P
    PROVE  /\ top - Cardinality(P) \in Nat /\ next - Cardinality(Q) \in Nat
           /\ top - Cardinality(P) <= next - Cardinality(Q)
           /\ \A nr \in P \ Q : top - Cardinality(P) + 1 <= next - Cardinality(Q)
<1>1. IsFiniteSet(1 .. top) /\ Cardinality(1 .. top) = top
  BY FS_Interval
<1>2. IsFiniteSet(P) /\ Cardinality(P) \in Nat /\ Cardinality(P) <= top
  <2> DEFINE U == 1 .. top
  <2>1. P \in SUBSET U /\ IsFiniteSet(U) /\ Cardinality(U) = top
    BY <1>1
  <2> HIDE DEF U
  <2> QED
    BY <2>1, FS_Subset, FS_CardinalityType
<1> DEFINE R == IF next = top THEN P ELSE P \cup {next}
<1>3. IsFiniteSet(R) /\ Cardinality(R) \in Nat /\ Cardinality(R) = Cardinality(P) + (next - top)
  <2>1. CASE next = top
    <3>1. R = P
      BY <2>1
    <3> QED
      BY <1>2, <2>1, <3>1
  <2>2. CASE next = top + 1
    <3>1. R = P \cup {next} /\ next \notin P
      BY <2>2
    <3> QED
      BY <1>2, <2>2, <3>1, FS_AddElement
  <2> QED
    BY <2>1, <2>2
<1> HIDE DEF R
<1>4. IsFiniteSet(Q) /\ Cardinality(Q) \in Nat /\ Cardinality(Q) <= Cardinality(R)
  <2>1. Q \in SUBSET R
    BY DEF R
  <2> QED
    BY <1>3, <2>1, FS_Subset, FS_CardinalityType
<1>5. ASSUME NEW nr \in P \ Q PROVE Cardinality(Q) + 1 <= Cardinality(R)
  <2>1. Q \cup {nr} \in SUBSET R
    BY DEF R
  <2>2. Cardinality(Q \cup {nr}) = Cardinality(Q) + 1 /\ IsFiniteSet(Q \cup {nr})
    BY <1>4, FS_AddElement
  <2> QED
    BY <1>3, <2>1, <2>2, FS_Subset
<1> QED
  BY <1>2, <1>3, <1>4, <1>5

\* Texts may have been handled or typed, and no counter has gone up.
LEMMA CountsStay ==
    ASSUME NEW l \in Seq(Listed), NEW cs, NEW top \in Nat, CountedIn(l, cs, top),
           NEW t \in Seq(Listed), NEW ds, NEW next \in {top, top + 1},
           PendingIn(ds, next) \subseteq PendingIn(cs, top) \cup {next},
           next = top => PendingIn(ds, next) \subseteq PendingIn(cs, top),
           Cardinality(CreditsOf(t)) <= Cardinality(CreditsOf(l)),
           \A j \in DOMAIN t : t[j].rcv = 0 \/ \E i \in DOMAIN l : t[j].rcv = l[i].rcv
    PROVE  CountedIn(t, ds, next)
<1> DEFINE P == PendingIn(cs, top)
           Q == PendingIn(ds, next)
           a == top - Cardinality(P)
           b == next - Cardinality(Q)
<1>1. a \in Nat /\ b \in Nat /\ a <= b
  <2>1. P \in SUBSET (1 .. top)
    BY DEF PendingIn
  <2>2. Q \in SUBSET (P \cup {next}) /\ (next = top => Q \subseteq P)
    OBVIOUS
  <2> HIDE DEF P, Q
  <2> QED
    BY <2>1, <2>2, Handled
<1>2. Cardinality(CreditsOf(l)) <= a /\ \A i \in DOMAIN l : l[i].rcv <= a
  BY DEF CountedIn
<1>3. Cardinality(CreditsOf(l)) \in Nat /\ Cardinality(CreditsOf(t)) \in Nat
  BY CreditsFinite
<1>4. \A i \in DOMAIN l : l[i].rcv \in Nat
  <2>1. \A i \in DOMAIN l : l[i] \in Listed
    BY LenProperties
  <2> QED
    BY <2>1 DEF Listed
<1> HIDE DEF a
<1>5. Cardinality(CreditsOf(t)) <= b /\ \A i \in DOMAIN t : t[i].rcv <= b
  <2> HIDE DEF b
  <2>1. Cardinality(CreditsOf(t)) <= b
    BY <1>1, <1>2, <1>3
  <2>2. ASSUME NEW j \in DOMAIN t PROVE t[j].rcv <= b
    <3>1. CASE t[j].rcv = 0
      BY <1>1, <3>1
    <3>2. CASE \E i \in DOMAIN l : t[j].rcv = l[i].rcv
      BY <1>1, <1>2, <1>4, <3>2
    <3> QED
      BY <3>1, <3>2
  <2> QED
    BY <2>1, <2>2
<1> QED
  BY <1>5 DEF CountedIn

\* A text is handled: no counter has gone up by more than one.
LEMMA CountsOne ==
    ASSUME NEW l \in Seq(Listed), NEW cs, NEW top \in Nat, CountedIn(l, cs, top),
           NEW t \in Seq(Listed), NEW ds, NEW nr \in PendingIn(cs, top),
           PendingIn(ds, top) \subseteq PendingIn(cs, top) \ {nr},
           DOMAIN t = DOMAIN l,
           Cardinality(CreditsOf(t)) <= Cardinality(CreditsOf(l)) + 1,
           \A i \in DOMAIN l : t[i].rcv <= l[i].rcv + 1
    PROVE  CountedIn(t, ds, top)
<1> DEFINE P == PendingIn(cs, top)
           Q == PendingIn(ds, top)
           a == top - Cardinality(P)
           b == top - Cardinality(Q)
<1>1. a \in Nat /\ b \in Nat /\ a + 1 <= b
  <2>1. P \in SUBSET (1 .. top) /\ nr \in P \ Q
    BY DEF PendingIn
  <2>2. Q \in SUBSET (P \cup {top}) /\ Q \subseteq P
    OBVIOUS
  <2> HIDE DEF P, Q
  <2> QED
    BY <2>1, <2>2, Handled
<1>2. Cardinality(CreditsOf(l)) <= a /\ \A i \in DOMAIN l : l[i].rcv <= a
  BY DEF CountedIn
<1>3. Cardinality(CreditsOf(l)) \in Nat /\ Cardinality(CreditsOf(t)) \in Nat
  BY CreditsFinite
<1>4. \A i \in DOMAIN l : l[i].rcv \in Nat /\ t[i].rcv \in Nat
  <2>1. \A i \in DOMAIN l : l[i] \in Listed /\ t[i] \in Listed
    BY LenProperties
  <2> QED
    BY <2>1 DEF Listed
<1> HIDE DEF a
<1>5. Cardinality(CreditsOf(t)) <= b /\ \A i \in DOMAIN t : t[i].rcv <= b
  <2> HIDE DEF b
  <2>1. Cardinality(CreditsOf(t)) <= b
    BY <1>1, <1>2, <1>3
  <2>2. ASSUME NEW j \in DOMAIN l PROVE t[j].rcv <= b
    BY <1>1, <1>2, <1>4
  <2> QED
    BY <2>1, <2>2
<1> QED
  BY <1>5 DEF CountedIn

LEMMA OrderStays ==
    ASSUME NEW s \in Seq(Listed), NEW t \in Seq(Listed), InOrder(s), Len(t) = Len(s),
           \A i \in DOMAIN s : t[i].port = s[i].port
    PROVE  InOrder(t)
<1>1. DOMAIN s = 1 .. Len(s) /\ Len(s) \in Nat
  BY LenProperties
<1>2. ASSUME NEW i \in 2 .. Len(s) PROVE t[i - 1].port <= t[i].port
  <2>1. i \in DOMAIN s /\ i - 1 \in DOMAIN s
    BY <1>1
  <2> QED
    BY <2>1 DEF InOrder
<1> QED
  BY <1>2 DEF InOrder

\* The first entry of a client that is listed.
LEMMA FirstFacts ==
    ASSUME L \in Seq(Listed), NEW c, Entries(c) # {}
    PROVE  First(c) \in Entries(c) /\ First(c) \in DOMAIN L /\ First(c) \in 1 .. Len(L)
<1>1. DOMAIN L = 1 .. Len(L) /\ Len(L) \in Nat
  BY LenProperties
<1> DEFINE S == Entries(c)
           U == 1 .. Len(L)
<1>2. S \in SUBSET U /\ S \in SUBSET Nat /\ S # {}
  BY <1>1 DEF Entries
<1>3. IsFiniteSet(U)
  BY <1>1, FS_Interval
<1> HIDE DEF S, U
<1>4. Min(S) \in S
  <2>1. IsFiniteSet(S)
    BY <1>2, <1>3, FS_Subset
  <2> QED
    BY <1>2, <2>1, MinOf
<1> QED
  BY <1>1, <1>2, <1>4 DEF First, S, U

\* What Client_set_send, and then Client_set_recv or Client_set_recv_b, do.
LEMMA TextCounts ==
    ASSUME L \in Seq(Listed), InOrder(L), NEW c, NEW I, NEW t,
           t = Client_set_send(c) \/ t = CountUp(Client_set_send(c), I, "rcv")
    PROVE  /\ t \in Seq(Listed) /\ InOrder(t) /\ DOMAIN t = DOMAIN L
           /\ Cardinality(CreditsOf(t)) <= Cardinality(CreditsOf(L)) + 1
           /\ \A i \in DOMAIN L : t[i].rcv <= L[i].rcv + 1
<1> DEFINE J == { i \in Entries(c) : i = First(c) }
           s == CountUp(L, J, "sent")
<1>1. /\ s \in Seq(Listed) /\ DOMAIN s = DOMAIN L /\ Len(s) = Len(L)
      /\ \A i \in DOMAIN L :
           /\ s[i].port = L[i].port /\ s[i].rcv = L[i].rcv
           /\ s[i].sent \in {L[i].sent, L[i].sent + 1}
           /\ i \notin J => s[i].sent = L[i].sent
  BY CountUpFacts
<1>2. \A i \in DOMAIN L : L[i] \in Listed /\ L[i].rcv \in Nat /\ L[i].sent \in Nat
  <2>1. \A i \in DOMAIN L : L[i] \in Listed
    BY LenProperties
  <2> QED
    BY <2>1 DEF Listed
<1>3. s = Client_set_send(c)
  BY DEF Client_set_send
<1> HIDE DEF s
<1>4. Cardinality(CreditsOf(s)) <= Cardinality(CreditsOf(L)) + 1
  <2> DEFINE last == <<First(c), L[First(c)].sent + 1>>
  <2>1. ASSUME NEW x \in CreditsOf(s) PROVE x \in CreditsOf(L) \cup {last}
    <3>1. PICK i \in DOMAIN L : \E nr \in 1 .. s[i].sent : x = <<i, nr>>
      BY <1>1 DEF CreditsOf
    <3>2. PICK nr \in 1 .. s[i].sent : x = <<i, nr>>
      BY <3>1
    <3>3. CASE nr \in 1 .. L[i].sent
      BY <3>2, <3>3 DEF CreditsOf
    <3>4. CASE nr \notin 1 .. L[i].sent
      <4>1. s[i].sent = L[i].sent + 1 /\ nr = L[i].sent + 1
        <5>1. s[i].sent \in {L[i].sent, L[i].sent + 1} /\ L[i].sent \in Nat
          BY <1>1, <1>2
        <5> HIDE DEF J
        <5> QED
          BY SMTT(30), <3>2, <3>4, <5>1
      <4>2. i \in J
        BY <1>1, <1>2, <4>1
      <4> QED
        BY <3>2, <4>1, <4>2
    <3> QED
      BY <3>3, <3>4
  <2> DEFINE S == CreditsOf(L) \cup {last}
  <2>2. IsFiniteSet(S) /\ Cardinality(S) \in Nat /\ Cardinality(S) <= Cardinality(CreditsOf(L)) + 1
    <3> HIDE DEF last
    <3>1. IsFiniteSet(CreditsOf(L)) /\ Cardinality(CreditsOf(L)) \in Nat
      BY CreditsFinite
    <3>2. IsFiniteSet(S) /\ Cardinality(S) = IF last \in CreditsOf(L)
                                             THEN Cardinality(CreditsOf(L))
                                             ELSE Cardinality(CreditsOf(L)) + 1
      BY <3>1, FS_AddElement
    <3> QED
      BY <3>1, <3>2
  <2>3. CreditsOf(s) \in SUBSET S
    BY <2>1
  <2> HIDE DEF S
  <2>4. Cardinality(CreditsOf(s)) <= Cardinality(S)
    BY <2>2, <2>3, FS_Subset
  <2>5. Cardinality(CreditsOf(s)) \in Nat /\ Cardinality(CreditsOf(L)) \in Nat
    BY <1>1, CreditsFinite
  <2> QED
    BY <2>2, <2>4, <2>5
<1>5. CASE t = s
  <2>1. InOrder(s)
    BY <1>1, OrderStays
  <2>2. \A i \in DOMAIN L : s[i].rcv <= L[i].rcv + 1
    BY <1>1, <1>2
  <2> QED
    BY <1>1, <1>4, <1>5, <2>1, <2>2
<1>6. CASE t = CountUp(s, I, "rcv")
  <2>1. /\ t \in Seq(Listed) /\ DOMAIN t = DOMAIN L /\ Len(t) = Len(L)
        /\ \A i \in DOMAIN L :
             /\ t[i].port = s[i].port /\ t[i].sent = s[i].sent
             /\ t[i].rcv \in {s[i].rcv, s[i].rcv + 1}
    BY <1>1, <1>6, CountUpFacts
  <2>2. InOrder(t)
    BY <1>1, <2>1, OrderStays
  <2>3. \A i \in DOMAIN L : t[i].rcv <= L[i].rcv + 1
    BY <1>1, <1>2, <2>1
  <2>4. CreditsOf(t) = CreditsOf(s)
    BY SMTT(30), <1>1, <2>1 DEF CreditsOf
  <2> QED
    BY <1>4, <2>1, <2>2, <2>3, <2>4
<1> QED
  BY <1>3, <1>5, <1>6

-----------------------------------------------------------------------------
(* The parts of the invariant *)

\* An entry of Bs_head.
Blocked == [src : Client, des : Client \cup {Nobody}, port : Client \cup {Nobody, BadPort}]

LEMMA Parts ==
    ASSUME IInv
    PROVE  /\ serving \in BOOLEAN
           /\ L \in Seq(Listed) /\ InOrder(L)
           /\ Bs \in Seq(Blocked) /\ InOrder(Bs)
           /\ Streams(conn, spent) /\ CountedIn(L, conn, spent)
           /\ conn \in Seq(Connection) /\ DOMAIN conn = 1 .. Len(conn) /\ Len(conn) \in Nat
           /\ server \in [Client -> 0 .. Len(conn)] /\ Reads
           /\ L_head \in [Client -> SUBSET Client] /\ B_head \in [Client -> SUBSET Client]
           /\ spent \in 0 .. MaxCommands /\ spent \in Nat /\ MaxCommands \in Nat
<1>1. TypeOK
  BY DEF IInv
<1>2. MaxCommands \in Nat
  BY ChatAssumption
<1>3. Streams(conn, spent)
  <2>1. NumberedIn(conn, spent)
    BY DEF IInv, Numbered, NumberedIn, Conns
  <2>2. RelayedIn(conn, spent)
    BY DEF IInv, Relayed, RelayedIn, Conns
  <2>3. FaithfulIn(conn)
    BY DEF IInv, RelayedFaithfully, FaithfulIn, Conns, Named
  <2> QED
    BY <1>1, <2>1, <2>2, <2>3 DEF Streams, TypeOK
<1>4. CountedIn(L, conn, spent)
  <2>1. Pending = PendingIn(conn, spent) /\ Credits = CreditsOf(L)
    BY DEF Pending, PendingIn, Credits, CreditsOf, Conns
  <2> QED
    BY <2>1 DEF IInv, CountedOnce, CountedIn
<1>5. DOMAIN conn = 1 .. Len(conn) /\ Len(conn) \in Nat
  BY <1>1, LenProperties DEF TypeOK
<1>6. L \in Seq(Listed) /\ Bs \in Seq(Blocked)
  BY <1>1 DEF TypeOK, Listed, Blocked
<1>7. InOrder(L) /\ InOrder(Bs) /\ Reads
  BY DEF IInv, SortedByPort
<1>8. spent \in 0 .. MaxCommands /\ spent \in Nat
  BY <1>1, <1>2 DEF TypeOK
<1>9. /\ serving \in BOOLEAN /\ conn \in Seq(Connection)
      /\ server \in [Client -> 0 .. Len(conn)]
      /\ L_head \in [Client -> SUBSET Client] /\ B_head \in [Client -> SUBSET Client]
  BY <1>1 DEF TypeOK
<1> QED
  BY <1>2, <1>3, <1>4, <1>5, <1>6, <1>7, <1>8, <1>9

\* The same for the next state.
LEMMA Whole ==
    ASSUME serving' \in BOOLEAN,
           L' \in Seq(Listed), InOrder(L'),
           Bs' \in Seq(Blocked), InOrder(Bs'),
           Streams(conn', spent'), CountedIn(L', conn', spent'),
           server' \in [Client -> 0 .. Len(conn')], Reads',
           L_head' \in [Client -> SUBSET Client], B_head' \in [Client -> SUBSET Client],
           spent' \in 0 .. MaxCommands
    PROVE  IInv'
<1>1. TypeOK'
  BY DEF TypeOK, Listed, Blocked, Streams
<1>2. Numbered'
  BY DEF Streams, Numbered, NumberedIn, Conns
<1>3. Relayed'
  BY DEF Streams, Relayed, RelayedIn, Conns
<1>4. RelayedFaithfully'
  BY DEF Streams, RelayedFaithfully, FaithfulIn, Conns, Named
<1>5. CountedOnce'
  <2>1. Pending' = PendingIn(conn', spent') /\ Credits' = CreditsOf(L')
    BY DEF Pending, PendingIn, Credits, CreditsOf, Conns
  <2> QED
    BY <2>1 DEF CountedOnce, CountedIn
<1>6. SortedByPort'
  BY DEF SortedByPort
<1> QED
  BY <1>1, <1>2, <1>3, <1>4, <1>5, <1>6 DEF IInv

LEMMA IInvInit == Init => IInv
<1>1. SUFFICES ASSUME Init PROVE IInv
  OBVIOUS
<1>2. /\ serving \in BOOLEAN /\ L = <<>> /\ Bs = <<>> /\ conn = <<>>
      /\ DOMAIN conn = {} /\ DOMAIN L = {} /\ Len(conn) = 0
      /\ spent = 0 /\ MaxCommands \in Nat
  BY <1>1, ChatAssumption DEF Init
<1>3. TypeOK
  <2>1. /\ server \in [Client -> 0 .. Len(conn)]
        /\ L_head \in [Client -> SUBSET Client] /\ B_head \in [Client -> SUBSET Client]
    BY <1>1, <1>2 DEF Init
  <2> QED
    BY <1>2, <2>1 DEF TypeOK
<1>4. Reads
  BY <1>1 DEF Init, Reads, LoggedIn
<1>5. Numbered /\ Relayed /\ RelayedFaithfully
  BY <1>2 DEF Numbered, Relayed, RelayedFaithfully, Conns
<1>6. SortedByPort
  BY <1>2 DEF SortedByPort, InOrder
<1>7. CountedOnce
  <2>1. Pending = {} /\ Credits = {}
    BY <1>2 DEF Pending, Credits
  <2>2. Cardinality(Pending) = 0 /\ Cardinality(Credits) = 0
    BY <2>1, FS_EmptySet
  <2> QED
    BY <1>2, <2>2 DEF CountedOnce
<1> QED
  BY <1>3, <1>4, <1>5, <1>6, <1>7 DEF IInv

\* What the server does leaves the clients alone: it makes no connection, gives
\* none to another client and closes none that is open.
LEMMA ServerStep ==
    ASSUME IInv, UNCHANGED clientVars, serving' \in BOOLEAN,
           L' \in Seq(Listed), InOrder(L'), Bs' \in Seq(Blocked), InOrder(Bs'),
           Streams(conn', spent), CountedIn(L', conn', spent), Len(conn') = Len(conn),
           \A k \in Conns : conn'[k].peer = conn[k].peer
                            /\ (conn[k].tcp = "open" => conn'[k].tcp = "open")
    PROVE  IInv'
<1>1. server' = server /\ L_head' = L_head /\ B_head' = B_head /\ spent' = spent
  BY DEF clientVars
<1>2. /\ server \in [Client -> 0 .. Len(conn)] /\ Reads
      /\ L_head \in [Client -> SUBSET Client] /\ B_head \in [Client -> SUBSET Client]
      /\ spent \in 0 .. MaxCommands /\ DOMAIN conn = 1 .. Len(conn) /\ Len(conn) \in Nat
  BY Parts
<1>3. Reads'
  <2>1. SUFFICES ASSUME NEW c \in Client, server[c] # 0
        PROVE  conn'[server[c]].peer = c /\ conn'[server[c]].tcp = "open"
    BY <1>1 DEF Reads, LoggedIn
  <2>2. server[c] \in Conns
    BY <1>2, <2>1 DEF Conns
  <2>3. conn[server[c]].peer = c /\ conn[server[c]].tcp = "open"
    BY <1>2, <2>1 DEF Reads, LoggedIn
  <2> QED
    BY <2>2, <2>3
<1>4. server' \in [Client -> 0 .. Len(conn')]
  BY <1>1, <1>2
<1>5. /\ L_head' \in [Client -> SUBSET Client] /\ B_head' \in [Client -> SUBSET Client]
      /\ spent' \in 0 .. MaxCommands
      /\ Streams(conn', spent') /\ CountedIn(L', conn', spent')
  BY <1>1, <1>2
<1> QED
  BY <1>3, <1>4, <1>5, Whole

-----------------------------------------------------------------------------
(* The server *)

\* What recv leaves.
LEMMA RestFacts ==
    ASSUME IInv, NEW k \in Conns, NEW n \in 1 .. Len(conn[k].up)
    PROVE  /\ Streams(Rest(k, n), spent) /\ Len(Rest(k, n)) = Len(conn) /\ DOMAIN Rest(k, n) = Conns
           /\ PendingIn(Rest(k, n), spent) \subseteq PendingIn(conn, spent)
           /\ CountedIn(L, Rest(k, n), spent)
           /\ \A l \in Conns : /\ Rest(k, n)[l].peer = conn[l].peer /\ Rest(k, n)[l].tcp = conn[l].tcp
                               /\ Rest(k, n)[l].down = conn[l].down
                               /\ l # k => Rest(k, n)[l].up = conn[l].up
           /\ DOMAIN Rest(k, n)[k].up = 1 .. Len(conn[k].up) - n
           /\ \A i \in 1 .. Len(conn[k].up) - n : Rest(k, n)[k].up[i] = conn[k].up[i + n]
           /\ Head(conn[k].up) = conn[k].up[1] /\ conn[k].up[1] \in Request
<1>1. /\ conn \in Seq(Connection) /\ DOMAIN conn = 1 .. Len(conn) /\ Len(conn) \in Nat
      /\ Streams(conn, spent) /\ spent \in Nat /\ Conns = DOMAIN conn
      /\ L \in Seq(Listed) /\ CountedIn(L, conn, spent)
  BY Parts DEF Conns
<1> DEFINE u == conn[k].up
           z == Len(u)
           v == SubSeq(u, n + 1, z)
           c == [conn[k] EXCEPT !.up = v]
           ds == Rest(k, n)
<1>2. /\ conn[k] \in Connection /\ u \in Seq(Request) /\ z \in Nat /\ DOMAIN u = 1 .. z
      /\ \A i \in 1 .. z : u[i] \in Request
  BY <1>1, ConnectionFacts
<1>3. ds = [conn EXCEPT ![k] = c]
  BY <1>1 DEF Rest
<1> HIDE DEF u, z
<1>4. /\ v \in Seq(Request) /\ Len(v) = z - n /\ DOMAIN v = 1 .. z - n
      /\ \A i \in 1 .. z - n : v[i] = u[i + n]
  <2>1. n \in 1 .. z
    BY DEF u, z
  <2>2. n + 1 \in Int /\ z \in Int /\ \A i \in n + 1 .. z : u[i] \in Request
    BY <1>2, <2>1
  <2>3. /\ v \in Seq(Request) /\ Len(v) = IF n + 1 <= z THEN z - (n + 1) + 1 ELSE 0
        /\ \A i \in 1 .. z - (n + 1) + 1 : v[i] = u[(n + 1) + i - 1]
    BY <2>2, SubSeqProperties
  <2>4. DOMAIN v = 1 .. Len(v)
    BY <2>3, LenProperties
  <2> HIDE DEF v
  <2>5. Len(v) = z - n
    BY <1>2, <2>1, <2>3
  <2>6. \A i \in 1 .. z - n : i \in 1 .. z - (n + 1) + 1 /\ (n + 1) + i - 1 = i + n
    BY <1>2, <2>1
  <2> QED
    BY <2>3, <2>4, <2>5, <2>6
<1> HIDE DEF v
<1>5. c \in Connection /\ c.up = v /\ c.peer = conn[k].peer /\ c.tcp = conn[k].tcp
      /\ c.fd = conn[k].fd /\ c.down = conn[k].down
  BY <1>2, <1>4 DEF Connection
<1> HIDE DEF c
<1>6. ds \in Seq(Connection) /\ Len(ds) = Len(conn) /\ DOMAIN ds = DOMAIN conn
  <2>1. k \in 1 .. Len(conn)
    BY <1>1
  <2>2. [conn EXCEPT ![k] = c] \in Seq(Connection) /\ Len([conn EXCEPT ![k] = c]) = Len(conn)
    BY <1>1, <1>5, <2>1, ExceptSeq
  <2> QED
    BY <1>3, <2>2
<1>7. \A l \in Conns : ds[l] = IF l = k THEN c ELSE conn[l]
  BY <1>1, <1>3
<1> HIDE DEF ds
<1>8. Shrunk(conn, ds)
  <2>1. ASSUME NEW l \in 1 .. Len(conn)
        PROVE  Window(conn[l].up, ds[l].up) /\ Window(conn[l].down, ds[l].down)
    <3>1. l \in Conns /\ Len(conn[l].up) \in Nat /\ Len(conn[l].down) \in Nat
      BY <1>1, ConnectionFacts
    <3>2. ds[l].down = conn[l].down
      BY <1>5, <1>7, <3>1
    <3>3. Window(conn[l].down, conn[l].down)
      <4>1. 0 \in Nat /\ Len(conn[l].down) + 0 <= Len(conn[l].down)
            /\ \A i \in 1 .. Len(conn[l].down) : conn[l].down[i] = conn[l].down[i + 0]
        BY <3>1
      <4> QED
        BY <4>1 DEF Window
    <3>4. CASE l = k
      <4>1. ds[l].up = v /\ conn[l].up = u
        BY <1>5, <1>7, <3>1, <3>4 DEF u
      <4>2. n \in Nat /\ Len(v) + n <= z
        BY <1>2, <1>4 DEF z
      <4>3. Window(u, v)
        BY <1>4, <4>2 DEF Window, z
      <4> QED
        BY <3>2, <3>3, <4>1, <4>3
    <3>5. CASE l # k
      <4>1. ds[l].up = conn[l].up
        BY <1>7, <3>1, <3>5
      <4>2. 0 \in Nat /\ Len(conn[l].up) + 0 <= Len(conn[l].up)
            /\ \A i \in 1 .. Len(conn[l].up) : conn[l].up[i] = conn[l].up[i + 0]
        BY <3>1
      <4>3. Window(conn[l].up, conn[l].up)
        BY <4>2 DEF Window
      <4> QED
        BY <3>2, <3>3, <4>1, <4>3
    <3> QED
      BY <3>4, <3>5
  <2> QED
    BY <1>1, <1>5, <1>6, <1>7, <2>1 DEF Shrunk
<1>9. Streams(ds, spent) /\ PendingIn(ds, spent) \subseteq PendingIn(conn, spent)
  BY <1>1, <1>8, Shrinks
<1>10. CountedIn(L, ds, spent)
  <2>1. Cardinality(CreditsOf(L)) \in Nat
    BY <1>1, CreditsFinite
  <2>2. Cardinality(CreditsOf(L)) <= Cardinality(CreditsOf(L))
    BY <2>1
  <2>3. spent \in {spent, spent + 1} /\ PendingIn(ds, spent) \subseteq PendingIn(conn, spent) \cup {spent}
    BY <1>9
  <2>4. \A j \in DOMAIN L : L[j].rcv = 0 \/ \E i \in DOMAIN L : L[j].rcv = L[i].rcv
    OBVIOUS
  <2> QED
    BY <1>1, <1>9, <2>2, <2>3, <2>4, CountsStay
<1>11. \A l \in Conns : /\ ds[l].peer = conn[l].peer /\ ds[l].tcp = conn[l].tcp
                        /\ ds[l].down = conn[l].down
                        /\ l # k => ds[l].up = conn[l].up
  BY <1>5, <1>7
<1>12. ds[k].up = v
  BY <1>5, <1>7
<1>13. Head(u) = u[1] /\ u[1] \in Request
  BY <1>2 DEF z, u
<1> QED
  BY <1>1, <1>4, <1>6, <1>9, <1>10, <1>11, <1>12, <1>13 DEF u, z, ds

\* A text that the server takes has not been relayed before, and none that was
\* typed into that connection after it has.
LEMMA TextFacts ==
    ASSUME IInv, NEW k \in Conns, NEW n \in 1 .. Len(conn[k].up),
           NEW m, m = Head(conn[k].up), m.cmd \in {"SEND", "BROADCAST"},
           NEW from \in Source(k) \cup {Nobody}, NEW ks \in SUBSET Conns,
           m.cmd = "SEND" => \A l \in ks : conn[l].tcp = "open" => conn[l].peer = m.des
    PROVE  /\ Text(k, m, from) \in Answer
           /\ Relayable(Rest(k, n), spent, ks, Text(k, m, from))
           /\ m.nr \in PendingIn(conn, spent)
           /\ PendingIn(Rest(k, n), spent) \subseteq PendingIn(conn, spent) \ {m.nr}
<1> DEFINE ds == Rest(k, n)
           z == Len(conn[k].up)
           t == Text(k, m, from)
<1>1. /\ conn \in Seq(Connection) /\ DOMAIN conn = 1 .. Len(conn) /\ Len(conn) \in Nat
      /\ Streams(conn, spent) /\ spent \in Nat /\ spent \in 0 .. MaxCommands /\ MaxCommands \in Nat
      /\ Conns = DOMAIN conn
  BY Parts DEF Conns
<1>2. /\ z \in Nat /\ DOMAIN conn[k].up = 1 .. z
      /\ \A l \in Conns : \A i \in DOMAIN conn[l].up : conn[l].up[i].nr \in Nat
      /\ conn[k].peer \in Client
  BY <1>1, ConnectionFacts
<1>3. /\ m = conn[k].up[1] /\ m \in Request /\ 1 \in DOMAIN conn[k].up
      /\ DOMAIN ds = Conns
      /\ \A l \in Conns : /\ ds[l].peer = conn[l].peer /\ ds[l].tcp = conn[l].tcp
                          /\ ds[l].down = conn[l].down
                          /\ l # k => ds[l].up = conn[l].up
      /\ DOMAIN ds[k].up = 1 .. z - n
      /\ \A i \in 1 .. z - n : ds[k].up[i] = conn[k].up[i + n]
      /\ PendingIn(ds, spent) \subseteq PendingIn(conn, spent)
  BY SMTT(30), <1>2, RestFacts
<1> HIDE DEF ds
<1>4. m.nr > 0 /\ m.nr <= spent /\ m.nr \in Nat
  <2>1. m.nr <= spent /\ (m.nr > 0 <=> m.cmd \in {"SEND", "BROADCAST"})
    BY <1>1, <1>3 DEF Streams, NumberedIn
  <2> QED
    BY <1>2, <1>3, <2>1
<1>5. m.nr \in PendingIn(conn, spent)
  BY <1>1, <1>3, <1>4 DEF PendingIn
\* The rest of the connection was typed later.
<1>6. ASSUME NEW i \in DOMAIN ds[k].up, ds[k].up[i].nr > 0 PROVE m.nr < ds[k].up[i].nr
  <2>1. i + n \in DOMAIN conn[k].up /\ 1 \in 1 .. (i + n) - 1 /\ ds[k].up[i] = conn[k].up[i + n]
    BY SMTT(30), <1>2, <1>3
  <2>2. \A j \in 1 .. (i + n) - 1 : conn[k].up[j].nr < conn[k].up[i + n].nr
    BY <1>1, <1>6, <2>1 DEF Streams, NumberedIn
  <2> QED
    BY <1>3, <2>1, <2>2
<1>7. ASSUME NEW l \in Conns \ {k}, NEW i \in DOMAIN ds[l].up PROVE ds[l].up[i].nr # m.nr
  <2>1. i \in DOMAIN conn[l].up /\ ds[l].up[i] = conn[l].up[i]
    BY <1>3
  <2> QED
    BY <1>1, <1>3, <1>4, <2>1 DEF Streams, NumberedIn
<1>8. ASSUME m.nr \in PendingIn(ds, spent) PROVE FALSE
  <2>1. PICK l \in Conns : \E i \in DOMAIN ds[l].up : ds[l].up[i].nr = m.nr
    BY <1>3, <1>8 DEF PendingIn
  <2>2. PICK i \in DOMAIN ds[l].up : ds[l].up[i].nr = m.nr
    BY <2>1
  <2>3. CASE l = k
    BY <1>4, <1>6, <2>2, <2>3
  <2>4. CASE l # k
    BY <1>7, <2>2, <2>4
  <2> QED
    BY <2>3, <2>4
<1>9. t.cmd = m.cmd /\ t.from = from /\ t.via = k /\ t.des = m.des /\ t.nr = m.nr
  BY DEF Text
<1>10. from \in Client \cup {Nobody} /\ (from \in {conn[k].peer, Nobody} \/ conn[k].tcp = "reset")
  BY <1>2 DEF Source, Named
<1>11. t \in Answer
  <2>1. m.nr \in 0 .. MaxCommands /\ m.des \in Client \cup {Nobody} /\ k \in Nat
    BY <1>1, <1>3 DEF Request
  <2> QED
    BY <1>10, <2>1 DEF Text, Answer
<1>12. ASSUME NEW l \in Conns, NEW i \in DOMAIN conn[l].down,
              conn[l].down[i].cmd # "REFRESH", conn[l].down[i].via = k
       PROVE  conn[l].down[i].nr < m.nr
  <2> DEFINE x == conn[l].down[i]
  <2>1. \A j \in DOMAIN conn[x.via].up : conn[x.via].up[j].nr > 0 => x.nr < conn[x.via].up[j].nr
    BY <1>1, <1>12 DEF Streams, RelayedIn
  <2> QED
    BY <1>3, <1>4, <1>12, <2>1
<1>13. Relayable(ds, spent, ks, t)
  <2> HIDE DEF t
  <2>1. t.nr \in 1 .. spent /\ t.via \in DOMAIN ds
    BY <1>1, <1>3, <1>4, <1>9
  <2>2. \A j \in DOMAIN ds[t.via].up : ds[t.via].up[j].nr > 0 => t.nr < ds[t.via].up[j].nr
    BY <1>6, <1>9
  <2>3. t.from \in {ds[t.via].peer, Nobody} \/ ds[t.via].tcp = "reset"
    BY <1>3, <1>9, <1>10
  <2>4. \A l \in ks : t.cmd = "SEND" /\ ds[l].tcp = "open" => t.des = ds[l].peer
    BY <1>3, <1>9
  <2>5. \A l \in DOMAIN ds : \A i \in DOMAIN ds[l].down :
          LET x == ds[l].down[i] IN x.cmd # "REFRESH" /\ x.via = t.via => x.nr < t.nr
    BY <1>3, <1>9, <1>12
  <2> QED
    BY <2>1, <2>2, <2>3, <2>4, <2>5 DEF Relayable
<1> QED
  BY <1>3, <1>5, <1>8, <1>11, <1>13 DEF ds

\* A message is taken and nothing is sent.
LEMMA RestStep ==
    ASSUME IInv, NEW k \in Conns, NEW n \in 1 .. Len(conn[k].up),
           conn' = Rest(k, n), UNCHANGED <<serving, clientVars>>,
           L' \in Seq(Listed), InOrder(L'), Bs' \in Seq(Blocked), InOrder(Bs'),
           CountedIn(L', Rest(k, n), spent)
    PROVE  IInv'
<1>1. /\ Streams(conn', spent) /\ Len(conn') = Len(conn)
      /\ \A l \in Conns : conn'[l].peer = conn[l].peer /\ conn'[l].tcp = conn[l].tcp
  BY RestFacts
<1>2. serving' \in BOOLEAN /\ UNCHANGED clientVars
  BY Parts
<1> QED
  BY <1>1, <1>2, ServerStep

\* A message is taken and m is sent.
LEMMA RelayStep ==
    ASSUME IInv, NEW k \in Conns, NEW n \in 1 .. Len(conn[k].up),
           NEW ks \in SUBSET Conns, NEW m \in Answer,
           m.cmd # "REFRESH" => Relayable(Rest(k, n), spent, ks, m),
           NEW l \in Seq(Listed), InOrder(l), CountedIn(l, Rest(k, n), spent),
           Relay(Rest(k, n), ks, m, l), UNCHANGED <<Bs, clientVars>>
    PROVE  IInv'
<1> DEFINE cs == Rest(k, n)
<1>1. /\ Bs' = Bs /\ UNCHANGED clientVars
      /\ serving \in BOOLEAN /\ L \in Seq(Listed) /\ InOrder(L) /\ Bs \in Seq(Blocked) /\ InOrder(Bs)
      /\ Streams(conn, spent) /\ CountedIn(L, conn, spent) /\ spent \in Nat
  BY Parts
<1>2. /\ Streams(cs, spent) /\ Len(cs) = Len(conn) /\ DOMAIN cs = Conns
      /\ \A j \in Conns : cs[j].peer = conn[j].peer /\ cs[j].tcp = conn[j].tcp
  BY RestFacts
<1>3. CASE serving' = FALSE /\ UNCHANGED <<conn, L>>
  <2>1. conn' = conn /\ L' = L /\ serving' \in BOOLEAN
    BY <1>3
  <2> QED
    BY <1>1, <2>1, ServerStep
<1>4. CASE /\ \E late \in SUBSET { j \in ks : cs[j].tcp = "fin" } : conn' = Relays(cs, ks, late, m)
           /\ L' = l /\ UNCHANGED serving
  <2>1. PICK late \in SUBSET { j \in ks : cs[j].tcp = "fin" } : conn' = Relays(cs, ks, late, m)
    BY <1>4
  <2> HIDE DEF cs
  <2>2. /\ Streams(conn', spent) /\ Len(conn') = Len(cs) /\ DOMAIN conn' = DOMAIN cs
        /\ \A j \in DOMAIN cs : conn'[j].peer = cs[j].peer /\ (cs[j].tcp = "open" => conn'[j].tcp = "open")
        /\ PendingIn(conn', spent) = PendingIn(cs, spent)
    <3>1. m.cmd # "REFRESH" => Relayable(cs, spent, ks, m)
      BY DEF cs
    <3> QED
      BY <1>1, <1>2, <2>1, <3>1, RelayFacts
  <2>3. CountedIn(L', conn', spent)
    BY <1>4, <2>2 DEF CountedIn, cs
  <2>4. serving' \in BOOLEAN /\ L' \in Seq(Listed) /\ InOrder(L')
        /\ Bs' \in Seq(Blocked) /\ InOrder(Bs') /\ UNCHANGED clientVars
    BY <1>1, <1>4
  <2>5. /\ Len(conn') = Len(conn)
        /\ \A j \in Conns : conn'[j].peer = conn[j].peer
                            /\ (conn[j].tcp = "open" => conn'[j].tcp = "open")
    BY <1>2, <2>2
  <2> QED
    BY <2>2, <2>3, <2>4, <2>5, ServerStep
<1> QED
  BY <1>3, <1>4 DEF Relay, Relays

\* h takes the entries of l to those of t, with their counters; others have none.
Moved(l, t, h) ==
    \A j \in DOMAIN t : \/ t[j].sent = 0 /\ t[j].rcv = 0
                        \/ \E i \in DOMAIN l : h[i] = j /\ t[j].sent = l[i].sent /\ t[j].rcv = l[i].rcv

\* A list with the same counters, or with one entry more or less.
LEMMA SameCounts ==
    ASSUME IInv, NEW k \in Conns, NEW n \in 1 .. Len(conn[k].up),
           NEW t \in Seq(Listed), NEW h, Moved(L, t, h)
    PROVE  CountedIn(t, Rest(k, n), spent)
<1>1. L \in Seq(Listed) /\ spent \in Nat /\ CountedIn(L, Rest(k, n), spent)
  BY Parts, RestFacts
<1>2. Cardinality(CreditsOf(t)) <= Cardinality(CreditsOf(L))
  <2>1. \A i \in DOMAIN L : L[i].sent \in Nat
    <3>1. \A i \in DOMAIN L : L[i] \in Listed
      BY <1>1, LenProperties
    <3> QED
      BY <3>1 DEF Listed
  <2>2. \A j \in DOMAIN t :
          t[j].sent = 0 \/ \E i \in DOMAIN L : h[i] = j /\ t[j].sent <= L[i].sent
    BY <2>1 DEF Moved
  <2> QED
    BY <1>1, <2>2, CreditsMoved
<1>3. \A j \in DOMAIN t : t[j].rcv = 0 \/ \E i \in DOMAIN L : t[j].rcv = L[i].rcv
  BY DEF Moved
<1> DEFINE ds == Rest(k, n)
<1>4. spent \in {spent, spent + 1} /\ PendingIn(ds, spent) \subseteq PendingIn(ds, spent) \cup {spent}
      /\ PendingIn(ds, spent) \subseteq PendingIn(ds, spent)
  OBVIOUS
<1> HIDE DEF ds
<1> QED
  BY <1>1, <1>2, <1>3, <1>4, CountsStay DEF ds

LEMMA ListedPorts == (\A x \in Listed : x.port \in Nat) /\ (\A x \in Blocked : x.port \in Nat)
<1>1. BadPort \in Nat /\ Nobody \in Nat /\ \A x \in Client : x \in Nat
  BY BadPortType DEF Nobody
<1>2. \A x \in Listed : x.port \in Client \cup {BadPort}
  BY DEF Listed
<1>3. \A x \in Blocked : x.port \in Client \cup {Nobody, BadPort}
  BY DEF Blocked
<1> QED
  BY <1>1, <1>2, <1>3

\* An entry's status does not matter to the list's order and counters.
LEMMA StatusFacts ==
    ASSUME IInv, NEW c, Entries(c) # {}, NEW b \in BOOLEAN,
           NEW k \in Conns, NEW n \in 1 .. Len(conn[k].up),
           NEW t, t = [L EXCEPT ![First(c)].status = b]
    PROVE  t \in Seq(Listed) /\ InOrder(t) /\ CountedIn(t, Rest(k, n), spent)
<1>1. L \in Seq(Listed) /\ InOrder(L)
  BY Parts
<1>2. First(c) \in DOMAIN L /\ First(c) \in 1 .. Len(L) /\ L[First(c)] \in Listed
  BY <1>1, FirstFacts, LenProperties
<1> DEFINE p == First(c)
           e == [L[p] EXCEPT !.status = b]
<1>3. t = [L EXCEPT ![p] = e]
  BY <1>1, <1>2
<1> HIDE DEF p
<1>4. e \in Listed /\ e.port = L[p].port /\ e.sent = L[p].sent /\ e.rcv = L[p].rcv
  BY <1>2 DEF Listed, p
<1> HIDE DEF e
<1>5. t \in Seq(Listed) /\ Len(t) = Len(L)
  BY <1>1, <1>2, <1>3, <1>4, ExceptSeq DEF p
<1>6. DOMAIN t = DOMAIN L /\ \A i \in DOMAIN L : t[i] = IF i = p THEN e ELSE L[i]
  BY <1>3
<1>7. \A i \in DOMAIN L : t[i].port = L[i].port /\ t[i].sent = L[i].sent /\ t[i].rcv = L[i].rcv
  BY <1>4, <1>6
<1>8. InOrder(t)
  BY <1>1, <1>5, <1>7, OrderStays
<1> DEFINE h == [i \in DOMAIN L |-> i]
<1>9. Moved(L, t, h)
  BY <1>6, <1>7 DEF Moved
<1> HIDE DEF h
<1> QED
  BY <1>5, <1>8, <1>9, SameCounts

LEMMA HandleLOGINStep ==
    ASSUME IInv, NEW k \in Conns, NEW n \in 1 .. Len(conn[k].up), NEW m, HandleLOGIN(k, n, m)
    PROVE  IInv'
<1> DEFINE c == conn[k].peer
           e == [ip |-> c, port |-> IF n = 1 THEN c ELSE BadPort, status |-> TRUE, sent |-> 0, rcv |-> 0]
<1>1. /\ L \in Seq(Listed) /\ InOrder(L) /\ Bs \in Seq(Blocked) /\ InOrder(Bs)
      /\ conn' = Rest(k, n) /\ UNCHANGED <<serving, clientVars>> /\ Bs' = Bs
  BY Parts DEF HandleLOGIN
<1>2. CASE Entries(c) # {} /\ L' = [L EXCEPT ![First(c)].status = TRUE]
  <2>1. L' \in Seq(Listed) /\ InOrder(L') /\ CountedIn(L', Rest(k, n), spent)
    BY <1>2, StatusFacts
  <2> QED
    BY <1>1, <2>1, RestStep
<1>3. CASE L' = InsertByPort(L, e)
  <2>1. e \in Listed
    <3>1. c \in Client
      BY Parts, ConnectionFacts DEF Conns
    <3> HIDE DEF c
    <3> QED
      BY <3>1 DEF Listed
  <2>2. e.sent = 0 /\ e.rcv = 0
    OBVIOUS
  <2> HIDE DEF e
  <2>3. L' \in Seq(Listed) /\ Len(L') = Len(L) + 1 /\ InOrder(L')
    BY <1>1, <1>3, <2>1, ListedPorts, InsertFacts, InsertKeepsOrder
  <2>4. PICK p \in 1 .. Len(L) + 1 :
          \A i \in 1 .. Len(L) + 1 : L'[i] = IF i < p THEN L[i] ELSE IF i = p THEN e ELSE L[i - 1]
    <3>1. PICK p \in 1 .. Len(L) + 1 :
            /\ \A i \in 1 .. Len(L) + 1 :
                 InsertByPort(L, e)[i] = IF i < p THEN L[i] ELSE IF i = p THEN e ELSE L[i - 1]
            /\ \A i \in 1 .. p - 1 : L[i].port < e.port
            /\ p <= Len(L) => L[p].port >= e.port
      BY <1>1, <2>1, ListedPorts, InsertFacts
    <3> QED
      BY <1>3, <3>1
  <2> DEFINE h == [i \in DOMAIN L |-> IF i < p THEN i ELSE i + 1]
  <2>5. DOMAIN L = 1 .. Len(L) /\ Len(L) \in Nat /\ DOMAIN L' = 1 .. Len(L) + 1
    BY <1>1, <2>3, LenProperties
  <2>6. ASSUME NEW j \in DOMAIN L'
        PROVE  \/ L'[j].sent = 0 /\ L'[j].rcv = 0
               \/ \E i \in DOMAIN L : h[i] = j /\ L'[j].sent = L[i].sent /\ L'[j].rcv = L[i].rcv
    <3>1. CASE j < p
      <4>1. j \in DOMAIN L /\ h[j] = j /\ L'[j] = L[j]
        BY <2>4, <2>5, <3>1
      <4> QED
        BY <4>1
    <3>2. CASE j = p
      <4>1. L'[j] = e
        BY <2>4, <2>5, <3>2
      <4> QED
        BY <2>2, <4>1
    <3>3. CASE j > p
      <4>1. j - 1 \in DOMAIN L /\ h[j - 1] = j /\ L'[j] = L[j - 1]
        BY <2>4, <2>5, <3>3
      <4> QED
        BY <4>1
    <3> QED
      BY <2>4, <2>5, <3>1, <3>2, <3>3
  <2>7. Moved(L, L', h)
    <3> HIDE DEF h
    <3> QED
      BY <2>6 DEF Moved
  <2> HIDE DEF h
  <2>8. CountedIn(L', Rest(k, n), spent)
    BY <2>3, <2>7, SameCounts
  <2> QED
    BY <1>1, <2>3, <2>8, RestStep
<1> QED
  BY <1>2, <1>3 DEF HandleLOGIN

LEMMA HandleREFRESHStep ==
    ASSUME IInv, NEW k \in Conns, NEW n \in 1 .. Len(conn[k].up), NEW m, HandleREFRESH(k, n, m)
    PROVE  IInv'
<1>1. /\ L \in Seq(Listed) /\ InOrder(L) /\ Bs \in Seq(Blocked) /\ InOrder(Bs)
      /\ UNCHANGED <<Bs, clientVars>> /\ CountedIn(L, Rest(k, n), spent)
  BY Parts, RestFacts DEF HandleREFRESH
<1> DEFINE a == [cmd |-> "REFRESH", list |-> { L[i].ip : i \in { j \in DOMAIN L : L[j].status } }]
<1>2. CASE n = 1 /\ Relay(Rest(k, n), {k}, a, L)
  <2>1. a \in Answer
    <3>1. \A i \in DOMAIN L : L[i].ip \in Client
      <4>1. \A i \in DOMAIN L : L[i] \in Listed
        BY <1>1, LenProperties
      <4> QED
        BY <4>1 DEF Listed
    <3> QED
      BY <3>1 DEF Answer
  <2>2. a.cmd = "REFRESH" /\ {k} \in SUBSET Conns
    OBVIOUS
  <2> HIDE DEF a
  <2> QED
    BY <1>1, <1>2, <2>1, <2>2, RelayStep
<1>3. CASE conn' = Rest(k, n) /\ UNCHANGED <<serving, L>>
  BY <1>1, <1>3, RestStep
<1> QED
  BY <1>2, <1>3 DEF HandleREFRESH

\* A text is counted once it is taken.
LEMMA TextCounted ==
    ASSUME IInv, NEW k \in Conns, NEW n \in 1 .. Len(conn[k].up),
           NEW m, m = Head(conn[k].up), m.cmd \in {"SEND", "BROADCAST"},
           NEW c, NEW I, NEW t,
           t = Client_set_send(c) \/ t = CountUp(Client_set_send(c), I, "rcv")
    PROVE  t \in Seq(Listed) /\ InOrder(t) /\ CountedIn(t, Rest(k, n), spent)
<1>1. /\ L \in Seq(Listed) /\ InOrder(L) /\ CountedIn(L, conn, spent) /\ spent \in Nat
  BY Parts
<1>2. /\ m.nr \in PendingIn(conn, spent)
      /\ PendingIn(Rest(k, n), spent) \subseteq PendingIn(conn, spent) \ {m.nr}
  <2>1. Nobody \in Source(k) \cup {Nobody} /\ {} \in SUBSET Conns
        /\ (m.cmd = "SEND" => \A l \in {} : conn[l].tcp = "open" => conn[l].peer = m.des)
    OBVIOUS
  <2> QED
    BY <2>1, TextFacts
<1>3. /\ t \in Seq(Listed) /\ InOrder(t) /\ DOMAIN t = DOMAIN L
      /\ Cardinality(CreditsOf(t)) <= Cardinality(CreditsOf(L)) + 1
      /\ \A i \in DOMAIN L : t[i].rcv <= L[i].rcv + 1
  BY <1>1, TextCounts
<1> DEFINE nr == m.nr
           ds == Rest(k, n)
<1> HIDE DEF nr, ds
<1>4. nr \in PendingIn(conn, spent) /\ PendingIn(ds, spent) \subseteq PendingIn(conn, spent) \ {nr}
  BY <1>2 DEF nr, ds
<1>5. CountedIn(t, ds, spent)
  BY <1>1, <1>3, <1>4, CountsOne
<1> QED
  BY <1>3, <1>5 DEF ds

LEMMA HandleBROADCASTStep ==
    ASSUME IInv, NEW k \in Conns, NEW n \in 1 .. Len(conn[k].up),
           NEW m, m = Head(conn[k].up), HandleBROADCAST(k, n, m)
    PROVE  IInv'
<1>1. PICK from \in Source(k) : \E copy \in {from, Nobody} :
          Relay(Rest(k, n), Others(k), Text(k, m, from), Client_set_recv_b(Client_set_send(copy), copy))
  BY DEF HandleBROADCAST
<1>2. PICK copy \in {from, Nobody} :
          Relay(Rest(k, n), Others(k), Text(k, m, from), Client_set_recv_b(Client_set_send(copy), copy))
  BY <1>1
<1>3. m.cmd = "BROADCAST" /\ UNCHANGED <<Bs, clientVars>>
  BY DEF HandleBROADCAST
<1> DEFINE l == Client_set_recv_b(Client_set_send(copy), copy)
           I == DOMAIN Client_set_send(copy) \ Entries(copy)
<1>4. l = CountUp(Client_set_send(copy), I, "rcv")
  BY DEF Client_set_recv_b
<1> HIDE DEF l, I
<1>5. l \in Seq(Listed) /\ InOrder(l) /\ CountedIn(l, Rest(k, n), spent)
  BY <1>3, <1>4, TextCounted
<1>6. Others(k) \in SUBSET Conns
  BY DEF Others
<1>7. Text(k, m, from) \in Answer /\ Relayable(Rest(k, n), spent, Others(k), Text(k, m, from))
  BY <1>3, <1>6, TextFacts
<1>8. Relay(Rest(k, n), Others(k), Text(k, m, from), l)
  BY <1>2 DEF l
<1> QED
  BY <1>3, <1>5, <1>6, <1>7, <1>8, RelayStep

LEMMA HandleSENDStep ==
    ASSUME IInv, NEW k \in Conns, NEW n \in 1 .. Len(conn[k].up),
           NEW m, m = Head(conn[k].up), HandleSEND(k, n, m)
    PROVE  IInv'
<1>1. m.cmd = "SEND" /\ UNCHANGED <<Bs, clientVars>>
      /\ Bs \in Seq(Blocked) /\ InOrder(Bs)
  BY Parts DEF HandleSEND
<1>2. PICK from \in Source(k) \cup {Nobody} :
         IF Matches(m.des, from) = {}
         THEN \E ks \in Addressed(k, m.des) :
                 Relay(Rest(k, n), ks, Text(k, m, from), Client_set_recv(Client_set_send(from), m.des))
         ELSE /\ conn' = Rest(k, n) /\ UNCHANGED serving
              /\ L' = Client_set_send(from)
  BY DEF HandleSEND
<1>3. CASE Matches(m.des, from) = {}
  <2>1. PICK ks \in Addressed(k, m.des) :
          Relay(Rest(k, n), ks, Text(k, m, from), Client_set_recv(Client_set_send(from), m.des))
    BY <1>2, <1>3
  <2> DEFINE l == Client_set_recv(Client_set_send(from), m.des)
             I == { i \in Entries(m.des) : i = First(m.des) }
  <2>2. l = CountUp(Client_set_send(from), I, "rcv")
    BY DEF Client_set_recv
  <2>3. Relay(Rest(k, n), ks, Text(k, m, from), l)
    BY <2>1
  <2> HIDE DEF l, I
  <2>4. l \in Seq(Listed) /\ InOrder(l) /\ CountedIn(l, Rest(k, n), spent)
    BY <1>1, <2>2, TextCounted
  <2>5. ks \in SUBSET Conns /\ \A j \in ks : conn[j].tcp = "open" => conn[j].peer = m.des
    <3>1. PICK stale \in SUBSET { j \in Others(k) : ~Named(j) } :
            ks = { j \in Others(k) : Named(j) /\ conn[j].peer = m.des } \cup stale
      BY DEF Addressed
    <3>2. Others(k) \subseteq Conns
      BY DEF Others
    <3> QED
      BY <3>1, <3>2 DEF Named
  <2>6. Text(k, m, from) \in Answer /\ Relayable(Rest(k, n), spent, ks, Text(k, m, from))
    BY <1>1, <2>5, TextFacts
  <2> QED
    BY <1>1, <2>3, <2>4, <2>5, <2>6, RelayStep
<1>4. CASE Matches(m.des, from) # {}
  <2>1. conn' = Rest(k, n) /\ UNCHANGED serving /\ L' = Client_set_send(from)
    BY <1>2, <1>4
  <2>2. L' \in Seq(Listed) /\ InOrder(L') /\ CountedIn(L', Rest(k, n), spent)
    BY <1>1, <2>1, TextCounted
  <2>3. Bs' \in Seq(Blocked) /\ InOrder(Bs') /\ UNCHANGED <<serving, clientVars>>
    BY <1>1, <2>1
  <2> QED
    BY <2>1, <2>2, <2>3, RestStep
<1> QED
  BY <1>3, <1>4

LEMMA HandleBLOCKStep ==
    ASSUME IInv, NEW k \in Conns, NEW n \in 1 .. Len(conn[k].up),
           NEW m, m = Head(conn[k].up), HandleBLOCK(k, n, m)
    PROVE  IInv'
<1>1. /\ L \in Seq(Listed) /\ InOrder(L) /\ Bs \in Seq(Blocked) /\ InOrder(Bs)
      /\ conn' = Rest(k, n) /\ UNCHANGED <<serving, clientVars>> /\ L' = L
      /\ CountedIn(L, Rest(k, n), spent)
  BY Parts, RestFacts DEF HandleBLOCK
<1> DEFINE c == conn[k].peer
           d == IF n = 1 THEN m.des ELSE Nobody
<1>2. c \in Client /\ d \in Client \cup {Nobody}
  <2>1. m \in Request
    BY RestFacts
  <2>2. m.des \in Client \cup {Nobody}
    BY <2>1 DEF Request
  <2>3. c \in Client
    BY Parts, ConnectionFacts DEF Conns
  <2> QED
    BY <2>2, <2>3
<1>3. PICK e \in BlockEntries(c, d) : Bs' = InsertByPort(Bs, e)
  BY DEF HandleBLOCK
<1> HIDE DEF c, d
<1>4. e \in Blocked
  <2>1. CASE Entries(d) # {}
    <3>1. e = [src |-> c, des |-> d, port |-> L[First(d)].port]
      BY <1>3, <2>1 DEF BlockEntries
    <3>2. L[First(d)] \in Listed
      BY <1>1, <2>1, FirstFacts, LenProperties
    <3>3. L[First(d)].port \in Client \cup {BadPort}
      BY <3>2 DEF Listed
    <3> QED
      BY <1>2, <3>1, <3>3 DEF Blocked
  <2>2. CASE Entries(d) = {}
    <3>1. e \in [src : {c}, des : Client \cup {Nobody}, port : Client \cup {Nobody, BadPort}]
      BY <1>3, <2>2 DEF BlockEntries
    <3> QED
      BY <1>2, <3>1 DEF Blocked
  <2> QED
    BY <2>1, <2>2
<1>5. Bs' \in Seq(Blocked) /\ InOrder(Bs')
  BY <1>1, <1>3, <1>4, ListedPorts, InsertFacts, InsertKeepsOrder
<1> QED
  BY <1>1, <1>5, RestStep

LEMMA HandleUNBLOCKStep ==
    ASSUME IInv, NEW k \in Conns, NEW n \in 1 .. Len(conn[k].up), NEW m, HandleUNBLOCK(k, n, m)
    PROVE  IInv'
<1>1. /\ L \in Seq(Listed) /\ InOrder(L) /\ Bs \in Seq(Blocked) /\ InOrder(Bs)
      /\ conn' = Rest(k, n) /\ UNCHANGED <<serving, clientVars>> /\ L' = L
      /\ CountedIn(L, Rest(k, n), spent)
  BY Parts, RestFacts DEF HandleUNBLOCK
<1> DEFINE found == Matches(conn[k].peer, m.des)
<1>2. CASE Bs' = Bs
  BY <1>1, <1>2, RestStep
<1>3. CASE found # {} /\ Bs' = SubSeq(Bs, Min(found) + 1, Len(Bs))
  <2> DEFINE z == Len(Bs)
             p == Min(found)
             U == 1 .. z
  <2>1. z \in Nat /\ DOMAIN Bs = U /\ \A i \in U : Bs[i] \in Blocked
    BY <1>1, LenProperties
  <2>2. found \in SUBSET U /\ found \in SUBSET Nat
    BY <2>1 DEF Matches
  <2>3. p \in U
    <3>1. IsFiniteSet(U)
      BY <2>1, FS_Interval
    <3> HIDE DEF U, found
    <3>2. IsFiniteSet(found)
      BY <2>2, <3>1, FS_Subset
    <3> QED
      BY <1>3, <2>2, <3>2, MinOf
  <2>4. Bs' = SubSeq(Bs, p + 1, z)
    BY <1>3
  <2> HIDE DEF p, z
  <2>5. /\ Bs' \in Seq(Blocked) /\ Len(Bs') = z - p
        /\ \A i \in 1 .. z - p : Bs'[i] = Bs[i + p]
    <3>1. p + 1 \in Int /\ z \in Int /\ \A i \in p + 1 .. z : Bs[i] \in Blocked
      BY <2>1, <2>3
    <3>2. /\ SubSeq(Bs, p + 1, z) \in Seq(Blocked)
          /\ Len(SubSeq(Bs, p + 1, z)) = IF p + 1 <= z THEN z - (p + 1) + 1 ELSE 0
          /\ \A i \in 1 .. z - (p + 1) + 1 : SubSeq(Bs, p + 1, z)[i] = Bs[(p + 1) + i - 1]
      BY <3>1, SubSeqProperties
    <3>3. \A i \in 1 .. z - p : i \in 1 .. z - (p + 1) + 1 /\ (p + 1) + i - 1 = i + p
      BY <2>1, <2>3
    <3>4. z - p = IF p + 1 <= z THEN z - (p + 1) + 1 ELSE 0
      BY <2>1, <2>3
    <3> QED
      BY <2>4, <3>2, <3>3, <3>4
  <2>6. InOrder(Bs')
    <3>1. ASSUME NEW i \in 2 .. z - p PROVE Bs'[i - 1].port <= Bs'[i].port
      <4>1. /\ i + p \in 2 .. z /\ (i - 1) + p = (i + p) - 1
            /\ i \in 1 .. z - p /\ i - 1 \in 1 .. z - p
        BY <2>1, <2>3
      <4>2. Bs[(i + p) - 1].port <= Bs[i + p].port
        BY <1>1, <4>1 DEF InOrder, z
      <4> QED
        BY <2>5, <4>1, <4>2
    <3> QED
      BY <2>5, <3>1 DEF InOrder
  <2> QED
    BY <1>1, <2>5, <2>6, RestStep
<1> QED
  BY <1>2, <1>3 DEF HandleUNBLOCK

LEMMA HandleLOGOUTStep ==
    ASSUME IInv, NEW k \in Conns, NEW n \in 1 .. Len(conn[k].up), NEW m, HandleLOGOUT(k, n, m)
    PROVE  IInv'
<1> DEFINE c == conn[k].peer
<1>1. /\ L \in Seq(Listed) /\ InOrder(L) /\ Bs \in Seq(Blocked) /\ InOrder(Bs)
      /\ conn' = Rest(k, n) /\ UNCHANGED <<serving, clientVars>> /\ Bs' = Bs
      /\ CountedIn(L, Rest(k, n), spent)
      /\ L' = IF Entries(c) # {} THEN [L EXCEPT ![First(c)].status = FALSE] ELSE L
  BY Parts, RestFacts DEF HandleLOGOUT
<1>2. CASE Entries(c) # {}
  <2>1. L' \in Seq(Listed) /\ InOrder(L') /\ CountedIn(L', Rest(k, n), spent)
    BY <1>1, <1>2, StatusFacts
  <2> QED
    BY <1>1, <2>1, RestStep
<1>3. CASE Entries(c) = {}
  BY <1>1, <1>3, RestStep
<1> QED
  BY <1>2, <1>3

LEMMA HandleEXITStep ==
    ASSUME IInv, NEW k \in Conns, NEW n \in 1 .. Len(conn[k].up), NEW m, HandleEXIT(k, n, m)
    PROVE  IInv'
<1> DEFINE c == conn[k].peer
<1>1. /\ L \in Seq(Listed) /\ InOrder(L) /\ Bs \in Seq(Blocked) /\ InOrder(Bs)
      /\ conn' = Rest(k, n) /\ UNCHANGED <<serving, clientVars>> /\ Bs' = Bs
      /\ CountedIn(L, Rest(k, n), spent)
      /\ L' = IF Entries(c) # {} THEN RemoveAt(L, First(c)) ELSE L
  BY Parts, RestFacts DEF HandleEXIT
<1>2. CASE Entries(c) # {}
  <2> DEFINE p == First(c)
  <2>1. p \in 1 .. Len(L) /\ L' = RemoveAt(L, p)
    BY <1>1, <1>2, FirstFacts
  <2> HIDE DEF p
  <2>2. /\ L' \in Seq(Listed) /\ Len(L') = Len(L) - 1 /\ InOrder(L')
        /\ \A i \in 1 .. Len(L) - 1 : L'[i] = IF i < p THEN L[i] ELSE L[i + 1]
    BY <1>1, <2>1, ListedPorts, RemoveFacts, RemoveKeepsOrder
  <2>3. DOMAIN L = 1 .. Len(L) /\ Len(L) \in Nat /\ DOMAIN L' = 1 .. Len(L) - 1
    BY <1>1, <2>2, LenProperties
  <2> DEFINE h == [i \in DOMAIN L |-> IF i < p THEN i ELSE i - 1]
  <2>4. ASSUME NEW j \in DOMAIN L'
        PROVE  \E i \in DOMAIN L : h[i] = j /\ L'[j].sent = L[i].sent /\ L'[j].rcv = L[i].rcv
    <3>1. CASE j < p
      <4>1. j \in DOMAIN L /\ h[j] = j /\ L'[j] = L[j]
        BY <2>1, <2>2, <2>3, <3>1
      <4> QED
        BY <4>1
    <3>2. CASE j >= p
      <4>1. j + 1 \in DOMAIN L /\ ~ (j + 1 < p) /\ ~ (j < p) /\ (j + 1) - 1 = j
        BY <2>1, <2>3, <3>2
      <4>2. h[j + 1] = j /\ L'[j] = L[j + 1]
        BY <2>2, <2>3, <4>1
      <4> QED
        BY <4>1, <4>2
    <3> QED
      BY <2>1, <2>3, <3>1, <3>2
  <2>5. Moved(L, L', h)
    <3> HIDE DEF h
    <3> QED
      BY <2>4 DEF Moved
  <2> HIDE DEF h
  <2>6. CountedIn(L', Rest(k, n), spent)
    BY <2>2, <2>5, SameCounts
  <2> QED
    BY <1>1, <2>2, <2>6, RestStep
<1>3. CASE Entries(c) = {}
  BY <1>1, <1>3, RestStep
<1> QED
  BY <1>2, <1>3

\* The descriptor of a connection changes.
LEMMA DescriptorStep ==
    ASSUME IInv, NEW k \in Conns, NEW fd \in {"backlog", "open", "closed"},
           fd = "closed" => conn[k].tcp # "open",
           conn' = [conn EXCEPT ![k].fd = fd], UNCHANGED <<serverVars, clientVars>>
    PROVE  IInv'
<1>1. /\ conn \in Seq(Connection) /\ DOMAIN conn = 1 .. Len(conn) /\ Len(conn) \in Nat
      /\ Streams(conn, spent) /\ CountedIn(L, conn, spent) /\ spent \in Nat /\ Conns = DOMAIN conn
      /\ L \in Seq(Listed) /\ InOrder(L) /\ Bs \in Seq(Blocked) /\ InOrder(Bs) /\ serving \in BOOLEAN
  BY Parts DEF Conns
<1>2. serving' = serving /\ L' = L /\ Bs' = Bs /\ UNCHANGED clientVars
  BY DEF serverVars
<1> DEFINE c == [conn[k] EXCEPT !.fd = fd]
<1>3. conn[k] \in Connection
  BY <1>1, ConnectionFacts
<1>4. c \in Connection /\ c.peer = conn[k].peer /\ c.tcp = conn[k].tcp /\ c.fd = fd
      /\ c.up = conn[k].up /\ c.down = conn[k].down
  BY <1>3 DEF Connection
<1>5. conn' = [conn EXCEPT ![k] = c]
  BY <1>1
<1> HIDE DEF c
<1>6. conn' \in Seq(Connection) /\ DOMAIN conn' = DOMAIN conn /\ Len(conn') = Len(conn)
  <2>1. k \in 1 .. Len(conn)
    BY <1>1
  <2>2. [conn EXCEPT ![k] = c] \in Seq(Connection) /\ Len([conn EXCEPT ![k] = c]) = Len(conn)
    BY <1>1, <1>4, <2>1, ExceptSeq
  <2> QED
    BY <1>5, <2>2
<1>7. \A l \in Conns : /\ conn'[l].peer = conn[l].peer /\ conn'[l].tcp = conn[l].tcp
                       /\ conn'[l].up = conn[l].up /\ conn'[l].down = conn[l].down
                       /\ conn'[l].fd = IF l = k THEN fd ELSE conn[l].fd
  BY <1>1, <1>4, <1>5
<1>8. PendingIn(conn', spent) = PendingIn(conn, spent)
  BY <1>1, <1>6, <1>7 DEF PendingIn
<1>9. CountedIn(L', conn', spent)
  BY <1>1, <1>2, <1>8 DEF CountedIn
<1>10. Streams(conn', spent)
  <2>1. NumberedIn(conn', spent)
    BY <1>1, <1>6, <1>7 DEF Streams, NumberedIn
  <2>2. RelayedIn(conn', spent)
    <3> DEFINE ds == conn'
    <3>1. SUFFICES ASSUME NEW l \in DOMAIN ds, NEW i \in DOMAIN ds[l].down, ds[l].down[i].cmd # "REFRESH"
          PROVE  LET t == ds[l].down[i] IN
              /\ t.nr \in 1 .. spent /\ t.via \in DOMAIN ds
              /\ \A j \in DOMAIN ds[t.via].up :
                   ds[t.via].up[j].nr > 0 => t.nr < ds[t.via].up[j].nr
      <4> HIDE DEF ds
      <4>1. SUFFICES RelayedIn(ds, spent)
        BY DEF ds
      <4> QED
        BY DEF RelayedIn
    <3>2. l \in Conns /\ ds[l].down = conn[l].down
      BY <1>1, <1>6, <1>7
    <3> DEFINE t == ds[l].down[i]
    <3>3. /\ t.nr \in 1 .. spent /\ t.via \in Conns
          /\ \A j \in DOMAIN conn[t.via].up : conn[t.via].up[j].nr > 0 => t.nr < conn[t.via].up[j].nr
      <4>1. /\ RelayedIn(conn, spent) /\ l \in DOMAIN conn
            /\ conn[l].down[i] = t /\ i \in DOMAIN conn[l].down /\ t.cmd # "REFRESH"
        BY <1>1, <3>1, <3>2 DEF Streams, Conns
      <4> HIDE DEF t
      <4> QED
        BY <4>1, RelayedText DEF Conns
    <3>4. DOMAIN ds = Conns
      BY <1>1, <1>6
    <3> HIDE DEF t
    <3>5. ds[t.via].up = conn[t.via].up
      BY <1>7, <3>3
    <3> HIDE DEF ds
    <3> QED
      BY <3>3, <3>4, <3>5 DEF t
  <2>3. FaithfulIn(conn')
    <3>1. \A l \in Conns : \A i \in DOMAIN conn[l].down :
            conn[l].down[i].cmd # "REFRESH" => conn[l].down[i].via \in Conns
      BY <1>1 DEF Streams, RelayedIn
    <3> DEFINE ds == conn'
    <3>2. /\ FaithfulIn(conn) /\ DOMAIN ds = DOMAIN conn
          /\ \A l \in DOMAIN conn : ds[l].down = conn[l].down /\ ds[l].peer = conn[l].peer
                                    /\ (conn[l].tcp = "reset" => ds[l].tcp = "reset")
      BY <1>1, <1>6, <1>7 DEF Streams, Conns
    <3>3. \A l \in DOMAIN conn : \A i \in DOMAIN conn[l].down :
            conn[l].down[i].cmd # "REFRESH" => conn[l].down[i].via \in DOMAIN conn
      BY <3>1 DEF Conns
    <3> HIDE DEF ds
    <3>4. FaithfulIn(ds)
      BY <3>2, <3>3 DEF FaithfulIn
    <3> QED
      BY <3>4 DEF ds
  <2> QED
    BY <1>6, <2>1, <2>2, <2>3 DEF Streams
<1> QED
  BY <1>1, <1>2, <1>6, <1>7, <1>9, <1>10, ServerStep

LEMMA ServerNextStep ==
    ASSUME IInv, NEW k \in Conns, ServerNext(k)
    PROVE  IInv'
<1>1. CASE Accept(k)
  BY <1>1, DescriptorStep DEF Accept
<1>2. CASE HangUp(k)
  BY <1>2, DescriptorStep DEF HangUp, Ended
<1>3. CASE ServerRecv(k)
  <2> DEFINE m == Head(conn[k].up)
  <2>1. PICK n \in 1 .. Len(conn[k].up) :
         \/ HandleLOGIN(k, n, m) \/ HandleREFRESH(k, n, m)
         \/ HandleSEND(k, n, m) \/ HandleBROADCAST(k, n, m)
         \/ HandleBLOCK(k, n, m) \/ HandleUNBLOCK(k, n, m)
         \/ HandleLOGOUT(k, n, m) \/ HandleEXIT(k, n, m)
    BY <1>3 DEF ServerRecv
  <2> QED
    BY <2>1, HandleLOGINStep, HandleREFRESHStep, HandleSENDStep, HandleBROADCASTStep,
       HandleBLOCKStep, HandleUNBLOCKStep, HandleLOGOUTStep, HandleEXITStep
<1> QED
  BY <1>1, <1>2, <1>3 DEF ServerNext

-----------------------------------------------------------------------------
(* The clients *)

\* A whole stream is a part of itself, and so is nothing.
LEMMA WholeWindow ==
    ASSUME NEW s, Len(s) \in Nat
    PROVE  Window(s, s) /\ Window(s, <<>>)
<1>1. 0 \in Nat /\ Len(s) + 0 <= Len(s) /\ \A i \in 1 .. Len(s) : i + 0 = i
  OBVIOUS
<1>2. Len(<<>>) + 0 <= Len(s) /\ \A i \in 1 .. Len(<<>>) : FALSE
  OBVIOUS
<1>3. Window(s, s)
  <2>1. \A i \in 1 .. Len(s) : s[i] = s[i + 0]
    BY <1>1
  <2> QED
    BY <1>1, <2>1 DEF Window
<1>4. Window(s, <<>>)
  BY <1>1, <1>2 DEF Window
<1> QED
  BY <1>3, <1>4

\* What is left of connections that their client closes.
LEMMA CloseFacts ==
    ASSUME NEW cs, NEW top \in Nat, Streams(cs, top), NEW ks \in SUBSET DOMAIN cs,
           \A k \in ks : cs[k].tcp = "open", Close(cs, ks)
    PROVE  /\ Streams(conn', top) /\ Len(conn') = Len(cs)
           /\ PendingIn(conn', top) \subseteq PendingIn(cs, top)
           /\ \A l \in DOMAIN cs \ ks : conn'[l] = cs[l]
<1> DEFINE unread == { k \in ks : cs[k].down # <<>> }
           lens == { Len(cs[k].up) : k \in unread }
           M == Max({0} \cup lens)
<1>1. cs \in Seq(Connection) /\ DOMAIN cs = 1 .. Len(cs) /\ Len(cs) \in Nat
  BY LenProperties DEF Streams
<1>2. \A k \in DOMAIN cs : /\ cs[k] \in Connection
                           /\ cs[k].up \in Seq(Request) /\ Len(cs[k].up) \in Nat
                           /\ Len(cs[k].down) \in Nat
                           /\ \A i \in 1 .. Len(cs[k].up) : cs[k].up[i] \in Request
  BY <1>1, ConnectionFacts
<1>3. M \in Nat
  <2>1. IsFiniteSet(lens)
    <3>1. unread \in SUBSET DOMAIN cs /\ IsFiniteSet(DOMAIN cs)
      BY <1>1, FS_Interval
    <3> DEFINE f == [k \in unread |-> Len(cs[k].up)]
    <3>2. DOMAIN f = unread /\ lens \subseteq { f[x] : x \in unread }
      OBVIOUS
    <3> HIDE DEF unread, f, lens
    <3>3. IsFiniteSet(unread)
      BY <3>1, FS_Subset
    <3> QED
      BY <3>2, <3>3, ImageFacts
  <2>2. lens \in SUBSET Nat
    BY <1>2
  <2> DEFINE S == lens \cup {0}
  <2> HIDE DEF lens
  <2>3. IsFiniteSet(S) /\ S \in SUBSET Nat /\ S # {}
    BY <2>1, <2>2, FS_AddElement
  <2>4. S = {0} \cup lens
    OBVIOUS
  <2> HIDE DEF S
  <2>5. Max(S) \in Nat
    BY <2>3, MaxOf
  <2> QED
    BY <2>4, <2>5
<1>4. PICK n \in [unread -> 0 .. M] :
        /\ \A k \in unread : n[k] <= Len(cs[k].up)
        /\ conn' = [k \in DOMAIN cs |->
               CASE k \in unread -> [cs[k] EXCEPT !.tcp = "reset", !.up = SubSeq(@, 1, n[k]), !.down = <<>>]
                 [] k \in ks \ unread -> [cs[k] EXCEPT !.tcp = "fin"]
                 [] OTHER -> cs[k]]
  BY DEF Close
<1> HIDE DEF M, lens
<1>5. DOMAIN conn' = DOMAIN cs
  BY <1>4
<1>6. ASSUME NEW k \in DOMAIN cs
      PROVE  /\ conn'[k] \in Connection /\ conn'[k].peer = cs[k].peer
             /\ conn'[k].tcp = "open" => cs[k].tcp = "open"
             /\ cs[k].tcp = "reset" => conn'[k].tcp = "reset"
             /\ conn'[k].fd = "closed" => cs[k].fd = "closed" \/ conn'[k].tcp # "open"
             /\ Window(cs[k].up, conn'[k].up) /\ Window(cs[k].down, conn'[k].down)
             /\ k \notin ks => conn'[k] = cs[k]
  <2> DEFINE u == cs[k].up
             v == SubSeq(u, 1, n[k])
  <2>1. cs[k] \in Connection /\ Window(u, u) /\ Window(cs[k].down, cs[k].down)
        /\ Window(cs[k].down, <<>>)
    BY <1>2, WholeWindow
  <2>2. CASE k \in unread
    <3>1. conn'[k] = [cs[k] EXCEPT !.tcp = "reset", !.up = v, !.down = <<>>]
      BY <1>4, <2>2
    <3>2. n[k] \in Nat /\ n[k] <= Len(u)
      <4> HIDE DEF unread, v
      <4>1. n[k] \in 0 .. M
        BY <2>2
      <4>2. n[k] \in Nat
        BY <1>3, <4>1
      <4>3. n[k] <= Len(cs[k].up)
        BY <1>4, <2>2
      <4> QED
        BY <4>2, <4>3
    <3>3. v \in Seq(Request) /\ Len(v) = n[k] /\ \A i \in 1 .. n[k] : v[i] = u[i]
      <4>1. 1 \in Int /\ n[k] \in Int /\ \A i \in 1 .. n[k] : u[i] \in Request
        BY <1>2, <3>2
      <4> HIDE DEF u
      <4>2. /\ v \in Seq(Request) /\ Len(v) = IF 1 <= n[k] THEN n[k] - 1 + 1 ELSE 0
            /\ \A i \in 1 .. n[k] - 1 + 1 : v[i] = u[1 + i - 1]
        BY <4>1, SubSeqProperties
      <4> HIDE DEF v
      <4> QED
        BY <3>2, <4>2
    <3> HIDE DEF v
    <3>4. Window(u, v)
      <4>1. Len(v) + 0 <= Len(u) /\ 0 \in Nat /\ \A i \in 1 .. Len(v) : v[i] = u[i + 0]
        BY <3>2, <3>3
      <4> HIDE DEF u
      <4> QED
        BY <4>1 DEF Window
    <3>5. conn'[k] \in Connection /\ conn'[k].peer = cs[k].peer /\ conn'[k].tcp = "reset"
          /\ conn'[k].up = v /\ conn'[k].down = <<>>
      <4>1. <<>> \in Seq(Answer)
        OBVIOUS
      <4> HIDE DEF u
      <4> QED
        BY <2>1, <3>1, <3>3, <4>1 DEF Connection
    <3> QED
      BY <2>1, <2>2, <3>4, <3>5
  <2>3. CASE k \in ks \ unread
    <3>1. conn'[k] = [cs[k] EXCEPT !.tcp = "fin"]
      BY <1>4, <2>3
    <3>2. conn'[k] \in Connection /\ conn'[k].peer = cs[k].peer /\ conn'[k].tcp = "fin"
          /\ conn'[k].up = u /\ conn'[k].down = cs[k].down
      BY <2>1, <3>1 DEF Connection
    <3> QED
      BY <2>1, <2>3, <3>2
  <2>4. CASE k \notin ks
    <3>1. conn'[k] = cs[k]
      BY <1>4, <2>4
    <3> QED
      BY <2>1, <3>1
  <2> QED
    BY <2>2, <2>3, <2>4
<1>7. Shrunk(cs, conn')
  <2>1. conn' \in Seq(Connection)
    <3>1. conn' = [k \in 1 .. Len(cs) |-> conn'[k]]
      BY <1>1, <1>4
    <3>2. \A k \in 1 .. Len(cs) : conn'[k] \in Connection
      BY <1>1, <1>6
    <3> QED
      BY <1>1, <3>1, <3>2
  <2>2. Len(conn') = Len(cs)
    BY <1>1, <1>5, <2>1, LenProperties
  <2> QED
    BY <1>1, <1>6, <2>1, <2>2 DEF Shrunk
<1>8. Len(conn') = Len(cs)
  BY <1>7 DEF Shrunk
<1> QED
  BY <1>6, <1>7, <1>8, Shrinks

\* The clients' side of a step.
LEMMA ClientStep ==
    ASSUME IInv, UNCHANGED serverVars,
           spent' \in {spent, spent + 1}, spent' \in 0 .. MaxCommands,
           Streams(conn', spent'),
           PendingIn(conn', spent') \subseteq PendingIn(conn, spent) \cup {spent'},
           spent' = spent => PendingIn(conn', spent') \subseteq PendingIn(conn, spent),
           server' \in [Client -> 0 .. Len(conn')], Reads',
           L_head' \in [Client -> SUBSET Client], B_head' \in [Client -> SUBSET Client]
    PROVE  IInv'
<1>1. serving' = serving /\ L' = L /\ Bs' = Bs
  BY DEF serverVars
<1>2. /\ L \in Seq(Listed) /\ InOrder(L) /\ Bs \in Seq(Blocked) /\ InOrder(Bs) /\ serving \in BOOLEAN
      /\ CountedIn(L, conn, spent) /\ spent \in Nat
  BY Parts
<1>3. CountedIn(L', conn', spent')
  <2>1. Cardinality(CreditsOf(L)) <= Cardinality(CreditsOf(L))
    <3>1. Cardinality(CreditsOf(L)) \in Nat
      BY <1>2, CreditsFinite
    <3> QED
      BY <3>1
  <2>2. \A j \in DOMAIN L : L[j].rcv = 0 \/ \E i \in DOMAIN L : L[j].rcv = L[i].rcv
    OBVIOUS
  <2> DEFINE ds == conn'
             next == spent'
  <2>3. /\ next \in {spent, spent + 1}
        /\ PendingIn(ds, next) \subseteq PendingIn(conn, spent) \cup {next}
        /\ next = spent => PendingIn(ds, next) \subseteq PendingIn(conn, spent)
    OBVIOUS
  <2> HIDE DEF ds, next
  <2>4. CountedIn(L, ds, next)
    <3>1. CASE next = spent
      <4>1. /\ PendingIn(ds, spent) \subseteq PendingIn(conn, spent)
            /\ PendingIn(ds, spent) \subseteq PendingIn(conn, spent) \cup {spent}
            /\ spent \in {spent, spent + 1}
        BY <2>3, <3>1
      <4>2. CountedIn(L, ds, spent)
        BY <1>2, <2>1, <2>2, <4>1, CountsStay
      <4> QED
        BY <3>1, <4>2
    <3>2. CASE next = spent + 1
      <4>1. /\ PendingIn(ds, spent + 1) \subseteq PendingIn(conn, spent) \cup {spent + 1}
            /\ spent + 1 \in {spent, spent + 1} /\ spent + 1 # spent
        BY <1>2, <2>3, <3>2
      <4>2. CountedIn(L, ds, spent + 1)
        BY <1>2, <2>1, <2>2, <4>1, CountsStay
      <4> QED
        BY <3>2, <4>2
    <3> QED
      BY <2>3, <3>1, <3>2
  <2> QED
    BY <1>1, <2>4 DEF ds, next
<1> QED
  BY <1>1, <1>2, <1>3, Whole

\* Where the clients are.
LEMMA ReadFacts ==
    ASSUME IInv, NEW c \in Client, server[c] # 0
    PROVE  /\ server[c] \in Conns /\ conn[server[c]].peer = c /\ conn[server[c]].tcp = "open"
BY Parts DEF Reads, LoggedIn, Conns

LEMMA LOGINStep == ASSUME IInv, NEW c \in Client, LOGIN(c) PROVE IInv'
<1>1. /\ conn' = Append(conn, NewConnection(c)) /\ server' = [server EXCEPT ![c] = Len(conn) + 1]
      /\ UNCHANGED serverVars /\ L_head' = L_head /\ B_head' = B_head /\ spent' = spent
  BY DEF LOGIN
<1>2. /\ Streams(conn, spent) /\ spent \in Nat /\ spent \in 0 .. MaxCommands
      /\ DOMAIN conn = 1 .. Len(conn) /\ Len(conn) \in Nat
      /\ server \in [Client -> 0 .. Len(conn)]
      /\ L_head \in [Client -> SUBSET Client] /\ B_head \in [Client -> SUBSET Client]
  BY Parts
<1>3. /\ Streams(conn', spent) /\ PendingIn(conn', spent) \subseteq PendingIn(conn, spent)
      /\ Len(conn') = Len(conn) + 1
      /\ \A l \in DOMAIN conn : conn'[l] = conn[l]
      /\ conn'[Len(conn) + 1].peer = c /\ conn'[Len(conn) + 1].tcp = "open"
  <2> DEFINE ds == conn'
  <2>1. ds = Append(conn, NewConnection(c)) /\ Streams(conn, spent) /\ spent \in Nat
    BY <1>1, <1>2
  <2> HIDE DEF ds
  <2>2. /\ Streams(ds, spent) /\ PendingIn(ds, spent) \subseteq PendingIn(conn, spent)
        /\ Len(ds) = Len(conn) + 1
        /\ \A l \in DOMAIN conn : ds[l] = conn[l]
        /\ ds[Len(conn) + 1].peer = c /\ ds[Len(conn) + 1].tcp = "open"
    <3>1. Streams(ds, spent)
      BY <2>1, Connects
    <3>2. PendingIn(ds, spent) \subseteq PendingIn(conn, spent)
      BY <2>1, Connects
    <3>3. Len(ds) = Len(conn) + 1
      BY <2>1, Connects
    <3>4. \A l \in DOMAIN conn : ds[l] = conn[l]
      BY <2>1, Connects
    <3>5. ds[Len(conn) + 1].peer = c
      BY <2>1, Connects
    <3>6. ds[Len(conn) + 1].tcp = "open"
      BY <2>1, Connects
    <3> QED
      BY <3>1, <3>2, <3>3, <3>4, <3>5, <3>6
  <2> QED
    BY <2>2 DEF ds
<1>4. server' \in [Client -> 0 .. Len(conn')]
  BY <1>1, <1>2, <1>3
<1>5. Reads'
  <2>1. SUFFICES ASSUME NEW d \in Client, server'[d] # 0
        PROVE  conn'[server'[d]].peer = d /\ conn'[server'[d]].tcp = "open"
    BY DEF Reads, LoggedIn
  <2>2. CASE d = c
    <3>1. server'[d] = Len(conn) + 1
      BY <1>1, <1>2, <2>2
    <3> QED
      BY <1>3, <2>2, <3>1
  <2>3. CASE d # c
    <3>1. server'[d] = server[d]
      BY <1>1, <1>2, <2>3
    <3>2. server[d] \in DOMAIN conn /\ conn[server[d]].peer = d /\ conn[server[d]].tcp = "open"
      BY <2>1, <3>1, ReadFacts DEF Conns
    <3> QED
      BY <1>3, <3>1, <3>2
  <2> QED
    BY <2>2, <2>3
<1>6. /\ spent' \in {spent, spent + 1} /\ spent' \in 0 .. MaxCommands
      /\ L_head' \in [Client -> SUBSET Client] /\ B_head' \in [Client -> SUBSET Client]
      /\ Streams(conn', spent') /\ PendingIn(conn', spent') \subseteq PendingIn(conn, spent)
      /\ PendingIn(conn', spent') \subseteq PendingIn(conn, spent) \cup {spent'}
  BY <1>1, <1>2, <1>3
<1> QED
  BY <1>1, <1>4, <1>5, <1>6, ClientStep

\* What send does to the connection that the client reads.
LEMMA SentFacts ==
    ASSUME IInv, NEW c \in Client, LoggedIn(c), NEW m \in Request, NEW next \in {spent, spent + 1},
           m.nr = IF m.cmd \in {"SEND", "BROADCAST"} THEN spent + 1 ELSE 0, m.nr <= next
    PROVE  /\ Streams(Sent(c, m), next) /\ DOMAIN Sent(c, m) = Conns /\ Len(Sent(c, m)) = Len(conn)
           /\ \A l \in Conns : Sent(c, m)[l].peer = conn[l].peer /\ Sent(c, m)[l].tcp = conn[l].tcp
           /\ PendingIn(Sent(c, m), next) \subseteq PendingIn(conn, spent) \cup {spent + 1}
           /\ m.nr = 0 => PendingIn(Sent(c, m), next) \subseteq PendingIn(conn, spent)
<1>1. Streams(conn, spent) /\ spent \in Nat /\ DOMAIN conn = 1 .. Len(conn) /\ Len(conn) \in Nat
  BY Parts
<1>2. server[c] \in Conns
  BY ReadFacts DEF LoggedIn
<1> DEFINE ds == Sent(c, m)
           k == server[c]
<1>3. ds = [conn EXCEPT ![k].up = Append(@, m)] /\ k \in DOMAIN conn
  BY <1>2 DEF Sent, Conns
<1> HIDE DEF ds, k
<1>4. /\ Streams(ds, next) /\ DOMAIN ds = DOMAIN conn
      /\ \A l \in DOMAIN conn : ds[l].peer = conn[l].peer /\ ds[l].tcp = conn[l].tcp
      /\ PendingIn(ds, next) \subseteq PendingIn(conn, spent) \cup {spent + 1}
      /\ m.nr = 0 => PendingIn(ds, next) \subseteq PendingIn(conn, spent)
  <2>1. spent \in Nat /\ Streams(conn, spent) /\ ds = [conn EXCEPT ![k].up = Append(@, m)] /\ k \in DOMAIN conn
    BY <1>1, <1>3
  <2>2. Streams(ds, next) /\ Opens(conn, spent, ds, next, m.nr)
    <3>1. CASE next = spent
      <4>1. spent \in {spent, spent + 1} /\ m.nr <= spent
        BY <3>1
      <4>2. Streams(ds, spent)
        BY <2>1, <4>1, Writes
      <4>3. Opens(conn, spent, ds, spent, m.nr)
        BY <2>1, <4>1, Writes
      <4> QED
        BY <3>1, <4>2, <4>3
    <3>2. CASE next = spent + 1
      <4>1. spent + 1 \in {spent, spent + 1} /\ m.nr <= spent + 1
        BY <3>2
      <4>2. Streams(ds, spent + 1)
        BY <2>1, <4>1, Writes
      <4>3. Opens(conn, spent, ds, spent + 1, m.nr)
        BY <2>1, <4>1, Writes
      <4> QED
        BY <3>2, <4>2, <4>3
    <3> QED
      BY <3>1, <3>2
  <2>3. DOMAIN ds = DOMAIN conn
    BY <2>1, Writes
  <2>4. \A l \in DOMAIN conn : ds[l].peer = conn[l].peer /\ ds[l].tcp = conn[l].tcp
    BY <2>1, Writes
  <2> QED
    BY <2>2, <2>3, <2>4 DEF Opens
<1>5. Len(ds) = Len(conn)
  <2>1. ds \in Seq(Connection)
    BY <1>4 DEF Streams
  <2>2. DOMAIN ds = 1 .. Len(ds) /\ Len(ds) \in Nat
    BY <2>1, LenProperties
  <2> QED
    BY <1>1, <1>4, <2>2
<1> QED
  BY <1>4, <1>5 DEF ds, Conns

LEMMA TypeStep ==
    ASSUME IInv, NEW c \in Client, NEW cmd \in Command, NEW des \in Client \cup {Nobody},
           Type(c, cmd, des), B_head' \in [Client -> SUBSET Client]
    PROVE  IInv'
<1> DEFINE next == spent + 1
           m == Message(cmd, des, IF cmd \in {"SEND", "BROADCAST"} THEN next ELSE 0)
<1>1. /\ spent' = next /\ conn' = Sent(c, m) /\ LoggedIn(c) /\ spent < MaxCommands
      /\ UNCHANGED serverVars /\ server' = server /\ L_head' = L_head
  BY DEF Type
<1>2. /\ spent \in Nat /\ MaxCommands \in Nat /\ DOMAIN conn = 1 .. Len(conn)
      /\ server \in [Client -> 0 .. Len(conn)] /\ L_head \in [Client -> SUBSET Client]
  BY Parts
<1>3. /\ m \in Request /\ m.nr <= next
      /\ m.nr = IF m.cmd \in {"SEND", "BROADCAST"} THEN spent + 1 ELSE 0
  <2>1. m.cmd = cmd /\ m.des = des /\ m.nr = IF cmd \in {"SEND", "BROADCAST"} THEN next ELSE 0
    BY DEF Message
  <2>2. m.nr \in 0 .. MaxCommands /\ m.nr <= next
    BY <1>1, <1>2, <2>1
  <2>3. m \in Request
    BY <2>2 DEF Message, Request
  <2> QED
    BY <2>1, <2>2, <2>3
<1> HIDE DEF m
<1>4. /\ Streams(conn', next) /\ Len(conn') = Len(conn)
      /\ \A l \in Conns : conn'[l].peer = conn[l].peer /\ conn'[l].tcp = conn[l].tcp
      /\ PendingIn(conn', next) \subseteq PendingIn(conn, spent) \cup {next}
  BY <1>1, <1>3, SentFacts
<1>5. Reads'
  <2>1. SUFFICES ASSUME NEW d \in Client, server[d] # 0
        PROVE  conn'[server[d]].peer = d /\ conn'[server[d]].tcp = "open"
    BY <1>1 DEF Reads, LoggedIn
  <2> QED
    BY <1>4, <2>1, ReadFacts
<1>6. /\ spent' \in {spent, spent + 1} /\ spent' \in 0 .. MaxCommands /\ spent' # spent
      /\ server' \in [Client -> 0 .. Len(conn')] /\ L_head' \in [Client -> SUBSET Client]
  BY <1>1, <1>2, <1>4
<1> QED
  BY <1>1, <1>4, <1>5, <1>6, ClientStep

\* The client closes connections of its own, the one that it reads among them.
LEMMA CloseStep ==
    ASSUME IInv, NEW c \in Client, NEW cs, Streams(cs, spent), Len(cs) = Len(conn),
           \A l \in Conns : cs[l].peer = conn[l].peer /\ cs[l].tcp = conn[l].tcp,
           PendingIn(cs, spent) \subseteq PendingIn(conn, spent),
           NEW ks, ks \subseteq Held(c), Close(cs, ks),
           server' = [server EXCEPT ![c] = 0],
           UNCHANGED serverVars, spent' = spent,
           L_head' \in [Client -> SUBSET Client], B_head' \in [Client -> SUBSET Client]
    PROVE  IInv'
<1>1. /\ spent \in Nat /\ spent \in 0 .. MaxCommands /\ DOMAIN conn = 1 .. Len(conn) /\ Len(conn) \in Nat
      /\ server \in [Client -> 0 .. Len(conn)]
  BY Parts
<1>2. DOMAIN cs = Conns
  <2>1. cs \in Seq(Connection)
    BY DEF Streams
  <2>2. DOMAIN cs = 1 .. Len(cs)
    BY <2>1, LenProperties
  <2> QED
    BY <1>1, <2>2 DEF Conns
<1>3. ks \in SUBSET DOMAIN cs /\ \A k \in ks : cs[k].tcp = "open" /\ cs[k].peer = c
  BY <1>2 DEF Held
<1>4. /\ Streams(conn', spent) /\ Len(conn') = Len(cs)
      /\ PendingIn(conn', spent) \subseteq PendingIn(cs, spent)
      /\ \A l \in DOMAIN cs \ ks : conn'[l] = cs[l]
  BY <1>1, <1>3, CloseFacts
<1>5. Reads'
  <2>1. SUFFICES ASSUME NEW d \in Client, server'[d] # 0
        PROVE  conn'[server'[d]].peer = d /\ conn'[server'[d]].tcp = "open"
    BY DEF Reads, LoggedIn
  <2>2. d # c /\ server'[d] = server[d]
    BY <1>1, <2>1
  <2>3. server[d] \in Conns /\ conn[server[d]].peer = d /\ conn[server[d]].tcp = "open"
    BY <2>1, <2>2, ReadFacts
  <2>4. server[d] \in DOMAIN cs \ ks
    BY <1>2, <1>3, <2>2, <2>3
  <2> QED
    BY <1>4, <2>2, <2>3, <2>4
<1>6. /\ spent' \in {spent, spent + 1} /\ spent' \in 0 .. MaxCommands
      /\ Streams(conn', spent') /\ PendingIn(conn', spent') \subseteq PendingIn(conn, spent)
      /\ PendingIn(conn', spent') \subseteq PendingIn(conn, spent) \cup {spent'}
  BY <1>1, <1>4
<1>7. server' \in [Client -> 0 .. Len(conn')]
  BY <1>1, <1>4
<1> QED
  BY <1>5, <1>6, <1>7, ClientStep

\* LOGOUT and EXIT are sent as they are.
LEMMA Farewell ==
    ASSUME IInv, NEW c \in Client, LoggedIn(c), NEW cmd \in {"LOGOUT", "EXIT"},
           NEW cs, cs = Sent(c, Message(cmd, Nobody, 0))
    PROVE  /\ Streams(cs, spent) /\ Len(cs) = Len(conn)
           /\ \A l \in Conns : cs[l].peer = conn[l].peer /\ cs[l].tcp = conn[l].tcp
           /\ PendingIn(cs, spent) \subseteq PendingIn(conn, spent)
<1> DEFINE m == Message(cmd, Nobody, 0)
<1>1. spent \in Nat /\ MaxCommands \in Nat
  BY Parts
<1>2. /\ m \in Request /\ m.nr = 0 /\ m.nr <= spent /\ spent \in {spent, spent + 1}
      /\ m.nr = IF m.cmd \in {"SEND", "BROADCAST"} THEN spent + 1 ELSE 0
  BY <1>1 DEF Message, Request, Command
<1>3. cs = Sent(c, m)
  OBVIOUS
<1> HIDE DEF m
<1> QED
  BY <1>2, <1>3, SentFacts

LEMMA LOGOUTStep == ASSUME IInv, NEW c \in Client, LOGOUT(c) PROVE IInv'
<1> DEFINE cs == Sent(c, Message("LOGOUT", Nobody, 0))
<1>1. /\ LoggedIn(c) /\ Close(cs, {server[c]}) /\ server' = [server EXCEPT ![c] = 0]
      /\ UNCHANGED serverVars /\ spent' = spent /\ L_head' = L_head /\ B_head' = B_head
  BY DEF LOGOUT
<1>2. /\ Streams(cs, spent) /\ Len(cs) = Len(conn)
      /\ \A l \in Conns : cs[l].peer = conn[l].peer /\ cs[l].tcp = conn[l].tcp
      /\ PendingIn(cs, spent) \subseteq PendingIn(conn, spent)
  BY <1>1, Farewell
<1>3. {server[c]} \subseteq Held(c)
  BY <1>1, ReadFacts DEF Held, LoggedIn
<1>4. L_head' \in [Client -> SUBSET Client] /\ B_head' \in [Client -> SUBSET Client]
  BY <1>1, Parts
<1> HIDE DEF cs
<1> QED
  BY <1>1, <1>2, <1>3, <1>4, CloseStep

LEMMA QuitStep == ASSUME IInv, NEW c \in Client, Quit(c) PROVE IInv'
<1>1. /\ server' = [server EXCEPT ![c] = 0] /\ UNCHANGED serverVars /\ spent' = spent
      /\ L_head' = [L_head EXCEPT ![c] = {c}] /\ B_head' = [B_head EXCEPT ![c] = {}]
  BY DEF Quit
<1>2. /\ L_head \in [Client -> SUBSET Client] /\ B_head \in [Client -> SUBSET Client]
      /\ Streams(conn, spent) /\ spent \in Nat /\ spent \in 0 .. MaxCommands
      /\ server \in [Client -> 0 .. Len(conn)] /\ Len(conn) \in Nat
  BY Parts
<1>3. L_head' \in [Client -> SUBSET Client] /\ B_head' \in [Client -> SUBSET Client]
  BY <1>1, <1>2
<1> DEFINE cs == Sent(c, Message("EXIT", Nobody, 0))
<1>4. CASE LoggedIn(c) /\ Close(cs, Held(c))
  <2>1. /\ Streams(cs, spent) /\ Len(cs) = Len(conn)
        /\ \A l \in Conns : cs[l].peer = conn[l].peer /\ cs[l].tcp = conn[l].tcp
        /\ PendingIn(cs, spent) \subseteq PendingIn(conn, spent)
    BY <1>4, Farewell
  <2>2. Close(cs, Held(c)) /\ Held(c) \subseteq Held(c)
    BY <1>4
  <2> HIDE DEF cs
  <2> QED
    BY <1>1, <1>3, <2>1, <2>2, CloseStep
<1>5. CASE Close(conn, Held(c))
  <2>1. /\ \A l \in Conns : conn[l].peer = conn[l].peer /\ conn[l].tcp = conn[l].tcp
        /\ PendingIn(conn, spent) \subseteq PendingIn(conn, spent)
        /\ Len(conn) = Len(conn) /\ Held(c) \subseteq Held(c)
    OBVIOUS
  <2> QED
    BY <1>1, <1>2, <1>3, <1>5, <2>1, CloseStep
<1>6. CASE UNCHANGED conn
  <2>1. conn' = conn
    BY <1>6
  <2>2. Reads'
    <3>1. SUFFICES ASSUME NEW d \in Client, server'[d] # 0
          PROVE  conn'[server'[d]].peer = d /\ conn'[server'[d]].tcp = "open"
      BY DEF Reads, LoggedIn
    <3>2. server'[d] = server[d]
      BY <1>1, <1>2, <3>1
    <3> QED
      BY <2>1, <3>1, <3>2, ReadFacts
  <2>3. /\ server' \in [Client -> 0 .. Len(conn')]
        /\ spent' \in {spent, spent + 1} /\ spent' \in 0 .. MaxCommands
        /\ Streams(conn', spent') /\ PendingIn(conn', spent') \subseteq PendingIn(conn, spent)
        /\ PendingIn(conn', spent') \subseteq PendingIn(conn, spent) \cup {spent'}
    BY <1>1, <1>2, <2>1
  <2> QED
    BY <1>1, <1>3, <2>2, <2>3, ClientStep
<1> QED
  BY <1>4, <1>5, <1>6 DEF Quit

LEMMA ClientRecvStep == ASSUME IInv, NEW c \in Client, ClientRecv(c) PROVE IInv'
<1> DEFINE k == server[c]
           d == conn[k].down
           z == Len(d)
           m == Head(d)
<1>1. PICK n \in 1 .. z :
             /\ conn' = [conn EXCEPT ![k].down = SubSeq(@, n + 1, Len(@))]
             /\ L_head' = [L_head EXCEPT ![c] = IF m.cmd = "REFRESH" THEN m.list ELSE @]
  BY DEF ClientRecv
<1>2. LoggedIn(c) /\ UNCHANGED serverVars /\ server' = server /\ B_head' = B_head /\ spent' = spent
  BY DEF ClientRecv
<1>3. /\ conn \in Seq(Connection) /\ DOMAIN conn = 1 .. Len(conn) /\ Len(conn) \in Nat
      /\ Streams(conn, spent) /\ spent \in Nat /\ spent \in 0 .. MaxCommands
      /\ server \in [Client -> 0 .. Len(conn)]
      /\ L_head \in [Client -> SUBSET Client] /\ B_head \in [Client -> SUBSET Client]
  BY Parts
<1>4. k \in DOMAIN conn
  BY <1>2, ReadFacts DEF LoggedIn, Conns
<1> HIDE DEF k
<1>5. /\ conn[k] \in Connection /\ d \in Seq(Answer) /\ z \in Nat
      /\ \A i \in 1 .. z : d[i] \in Answer
  BY <1>3, <1>4, ConnectionFacts
<1>6. m \in Answer
  <2>1. m = d[1]
    BY <1>1, <1>5
  <2> QED
    BY <1>1, <1>5, <2>1
<1> HIDE DEF m
<1>7. L_head' \in [Client -> SUBSET Client]
  <2>1. m.cmd = "REFRESH" => m.list \in SUBSET Client
    BY <1>6 DEF Answer
  <2> QED
    BY <1>1, <1>3, <2>1
<1> DEFINE v == SubSeq(d, n + 1, z)
           w == [conn[k] EXCEPT !.down = v]
<1>8. conn' = [conn EXCEPT ![k] = w]
  BY <1>1, <1>4
<1> HIDE DEF d, z
<1>9. v \in Seq(Answer) /\ Len(v) = z - n /\ \A i \in 1 .. z - n : v[i] = d[i + n]
  <2>1. n + 1 \in Int /\ z \in Int /\ \A i \in n + 1 .. z : d[i] \in Answer
    BY <1>5
  <2>2. /\ v \in Seq(Answer) /\ Len(v) = IF n + 1 <= z THEN z - (n + 1) + 1 ELSE 0
        /\ \A i \in 1 .. z - (n + 1) + 1 : v[i] = d[(n + 1) + i - 1]
    BY <2>1, SubSeqProperties
  <2> HIDE DEF v
  <2>3. \A i \in 1 .. z - n : i \in 1 .. z - (n + 1) + 1 /\ (n + 1) + i - 1 = i + n
    BY <1>5
  <2>4. z - n = IF n + 1 <= z THEN z - (n + 1) + 1 ELSE 0
    BY <1>5
  <2> QED
    BY <2>2, <2>3, <2>4
<1> HIDE DEF v
<1>10. w \in Connection /\ w.peer = conn[k].peer /\ w.tcp = conn[k].tcp /\ w.fd = conn[k].fd
       /\ w.up = conn[k].up /\ w.down = v
  BY <1>5, <1>9 DEF Connection
<1> HIDE DEF w
<1>11. conn' \in Seq(Connection) /\ Len(conn') = Len(conn)
  <2>1. k \in 1 .. Len(conn)
    BY <1>3, <1>4
  <2>2. [conn EXCEPT ![k] = w] \in Seq(Connection) /\ Len([conn EXCEPT ![k] = w]) = Len(conn)
    BY <1>3, <1>10, <2>1, ExceptSeq
  <2> QED
    BY <1>8, <2>2
<1>12. ASSUME NEW l \in 1 .. Len(conn)
       PROVE  /\ conn'[l].peer = conn[l].peer /\ conn'[l].tcp = conn[l].tcp /\ conn'[l].fd = conn[l].fd
              /\ Window(conn[l].up, conn'[l].up) /\ Window(conn[l].down, conn'[l].down)
  <2>1. conn'[l] = IF l = k THEN w ELSE conn[l]
    BY <1>3, <1>4, <1>8
  <2>2. Window(conn[l].up, conn[l].up) /\ Window(conn[l].down, conn[l].down)
    BY <1>3, ConnectionFacts, WholeWindow
  <2>3. CASE l = k
    <3>1. Window(d, v)
      <4>1. n \in Nat /\ Len(v) + n <= Len(d)
        BY <1>5, <1>9 DEF z
      <4> QED
        BY <1>9, <4>1 DEF Window
    <3> QED
      BY <1>10, <2>1, <2>2, <2>3, <3>1 DEF d
  <2>4. CASE l # k
    BY <2>1, <2>2, <2>4
  <2> QED
    BY <2>3, <2>4
<1>13. Shrunk(conn, conn')
  BY <1>11, <1>12 DEF Shrunk
<1>14. Streams(conn', spent) /\ PendingIn(conn', spent) \subseteq PendingIn(conn, spent)
  BY <1>3, <1>13, Shrinks
<1>15. Reads'
  <2>1. SUFFICES ASSUME NEW b \in Client, server[b] # 0
        PROVE  conn'[server[b]].peer = b /\ conn'[server[b]].tcp = "open"
    BY <1>2 DEF Reads, LoggedIn
  <2>2. server[b] \in 1 .. Len(conn) /\ conn[server[b]].peer = b /\ conn[server[b]].tcp = "open"
    BY <1>3, <2>1, ReadFacts DEF Conns
  <2> QED
    BY <1>12, <2>2
<1>16. /\ server' \in [Client -> 0 .. Len(conn')] /\ B_head' \in [Client -> SUBSET Client]
       /\ spent' \in {spent, spent + 1} /\ spent' \in 0 .. MaxCommands
       /\ Streams(conn', spent') /\ PendingIn(conn', spent') \subseteq PendingIn(conn, spent)
       /\ PendingIn(conn', spent') \subseteq PendingIn(conn, spent) \cup {spent'}
  BY <1>2, <1>3, <1>11, <1>14
<1> QED
  BY <1>2, <1>7, <1>15, <1>16, ClientStep

LEMMA ClientNextStep == ASSUME IInv, NEW c \in Client, ClientNext(c) PROVE IInv'
<1>1. L_head \in [Client -> SUBSET Client] /\ B_head \in [Client -> SUBSET Client]
  BY Parts
<1>2. CASE LOGIN(c)
  BY <1>2, LOGINStep
<1>3. CASE REFRESH(c)
  BY <1>1, <1>3, TypeStep DEF REFRESH, Command
<1>4. CASE BROADCAST(c)
  BY <1>1, <1>4, TypeStep DEF BROADCAST, Command
<1>5. ASSUME NEW d \in L_head[c], SEND(c, d) \/ BLOCK(c, d) \/ UNBLOCK(c, d)
      PROVE  IInv'
  <2>1. d \in Client
    BY <1>1
  <2>2. CASE SEND(c, d)
    BY <1>1, <2>1, <2>2, TypeStep DEF SEND, Command
  <2>3. CASE BLOCK(c, d)
    <3>1. B_head' \in [Client -> SUBSET Client]
      BY <1>1, <2>1, <2>3 DEF BLOCK
    <3> QED
      BY <2>1, <2>3, <3>1, TypeStep DEF BLOCK, Command
  <2>4. CASE UNBLOCK(c, d)
    <3>1. B_head' \in [Client -> SUBSET Client]
      BY <1>1, <2>1, <2>4 DEF UNBLOCK
    <3> QED
      BY <2>1, <2>4, <3>1, TypeStep DEF UNBLOCK, Command
  <2> QED
    BY <1>5, <2>2, <2>3, <2>4
<1>6. CASE LOGOUT(c)
  BY <1>6, LOGOUTStep
<1>7. CASE Quit(c)
  BY <1>7, QuitStep
<1>8. CASE ClientRecv(c)
  BY <1>8, ClientRecvStep
<1> QED
  BY <1>2, <1>3, <1>4, <1>5, <1>6, <1>7, <1>8 DEF ClientNext

-----------------------------------------------------------------------------
(* The theorems *)

LEMMA IInvStep == IInv /\ [Next]_vars => IInv'
<1>1. SUFFICES ASSUME IInv, [Next]_vars PROVE IInv'
  OBVIOUS
<1>2. ASSUME NEW c \in Client, ClientNext(c) PROVE IInv'
  BY <1>1, <1>2, ClientNextStep
<1>3. ASSUME NEW k \in Conns, ServerNext(k) PROVE IInv'
  BY <1>1, <1>3, ServerNextStep
<1>4. CASE UNCHANGED vars
  <2>1. /\ serving' = serving /\ L' = L /\ Bs' = Bs /\ conn' = conn /\ server' = server
        /\ L_head' = L_head /\ B_head' = B_head /\ spent' = spent
    BY <1>4 DEF vars, serverVars, clientVars
  <2>2. Reads'
    BY <1>1, <2>1 DEF IInv, Reads, LoggedIn
  <2> QED
    BY <1>1, <2>1, <2>2, Parts, Whole
<1> QED
  BY <1>1, <1>2, <1>3, <1>4 DEF Next

\* The chat server and its clients keep the inductive invariant, however their
\* commands, reads, closed connections and restarts interleave.
THEOREM Invariance == Spec => []IInv
<1>1. Init => IInv
  BY IInvInit
<1>2. IInv /\ [Next]_vars => IInv'
  BY IInvStep
<1> QED
  BY <1>1, <1>2, PTL DEF Spec

\* Every variable has its type: no command that a client can type makes the
\* server build an entry or a message out of anything else.
THEOREM TypeCorrect == Spec => []TypeOK
<1>1. IInv => TypeOK
  BY DEF IInv
<1> QED
  BY <1>1, Invariance, PTL

\* The lists are sorted by port, whatever was logged in, blocked and removed.
THEOREM Sorted == Spec => []SortedByPort
<1>1. IInv => SortedByPort
  BY DEF IInv
<1> QED
  BY <1>1, Invariance, PTL

\* A text goes to the one it is addressed to, after those that were typed before
\* it, once, and names its sender or nobody unless that connection was reset.
THEOREM Faithful == Spec => []RelayedFaithfully
<1>1. IInv => RelayedFaithfully
  BY DEF IInv
<1> QED
  BY <1>1, Invariance, PTL

\* The statistics never count more texts than were typed and are no longer under
\* way; other commands that were typed leave the bound slack.
THEOREM CountedRight == Spec => []CountedOnce
<1>1. IInv => CountedOnce
  BY DEF IInv
<1> QED
  BY <1>1, Invariance, PTL
=============================================================================
