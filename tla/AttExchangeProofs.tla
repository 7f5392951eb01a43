--------------------------- MODULE AttExchangeProofs ---------------------------
(***************************************************************************)
(* Proofs about AttExchange and Discovery: types; one call and one         *)
(* indication at a time, and none that waits for nothing; remote calls     *)
(* implemented; discoveries faithful.                                      *)
(***************************************************************************)
EXTENDS AttExchange, FiniteSetTheorems, SequenceTheorems, WellFoundedInduction, TLAPS

(***************************************************************************)
(* Numbers and sequences.                                                  *)
(***************************************************************************)

\* A set of numbers that is not empty has a least one.
LEMMA Least ==
  ASSUME NEW T \in SUBSET Nat, T # {}
  PROVE  \E n \in T : \A m \in T : n <= m
<1>1. PICK n \in T : \A m \in T : <<m, n>> \notin OpToRel(<, Nat)
  BY WFMin, NatLessThanWellFounded, Zenon
<1>2. \A m \in T : ~ m < n
  BY <1>1, Zenon DEF OpToRel
<1> QED BY <1>2

\* Sequences laid end to end are a sequence.  The recursive function that lays
\* them exists, and is what it says, as shown by a least counterexample.
LEMMA FlattenType ==
  ASSUME NEW A, NEW s \in Seq(Seq(A)), s # <<>>
  PROVE  FlattenSeq(s) \in Seq(A)
<1> DEFINE N == Len(s)
           Steps(g, n) == \A i \in 1 .. n :
                            g[i] = IF i = 1 THEN s[i] ELSE g[i-1] \o s[i]
<1>0. N \in Nat \ {0}
  OBVIOUS
<1> HIDE DEF N
<1>1. \A n \in 1 .. N : \E g \in [1 .. n -> Seq(A)] : Steps(g, n)
  <2> DEFINE Bad == {n \in 1 .. N : ~ \E g \in [1 .. n -> Seq(A)] : Steps(g, n)}
  <2> SUFFICES ASSUME Bad # {} PROVE FALSE
    OBVIOUS
  <2>1. Bad \in SUBSET Nat
    BY <1>0
  <2>2. PICK n \in Bad : \A m \in Bad : n <= m
    <3> HIDE DEF Bad
    <3> QED BY <2>1, Least
  <2>a. n \in 1 .. N /\ s[n] \in Seq(A)
    BY <1>0 DEF N
  <2>3. CASE n = 1
    <3> DEFINE g == [i \in 1 .. 1 |-> s[1]]
    <3>1. g \in [1 .. n -> Seq(A)] /\ Steps(g, n)
      BY <2>3, <2>a
    <3> QED BY <3>1, <2>2
  <2>4. CASE n # 1
    <3>1. n - 1 \in 1 .. N /\ ~ n <= n - 1
      BY <2>4, <2>a, <1>0
    <3>b. n - 1 \notin Bad
      <4> HIDE DEF Bad
      <4> QED BY <3>1, <2>2
    <3>2. PICK h \in [1 .. n - 1 -> Seq(A)] : Steps(h, n - 1)
      BY <3>1, <3>b
    <3> DEFINE g == [i \in 1 .. n |-> IF i = n THEN h[n - 1] \o s[n] ELSE h[i]]
    <3>3. h[n - 1] \in Seq(A)
      BY <3>1, <3>2, <1>0
    <3>4. h[n - 1] \o s[n] \in Seq(A)
      BY <3>3, <2>a
    <3>5. g \in [1 .. n -> Seq(A)]
      BY <3>4, <3>2, <2>a
    <3>6. Steps(g, n)
      <4> SUFFICES ASSUME NEW i \in 1 .. n
                   PROVE  g[i] = IF i = 1 THEN s[i] ELSE g[i-1] \o s[i]
        OBVIOUS
      <4>1. CASE i = n
        <5>1. n - 1 \in 1 .. n /\ n - 1 # n
          BY <2>4, <2>a, <1>0
        <5> QED BY <4>1, <5>1, <2>4, <2>a
      <4>2. CASE i # n
        <5>1. i \in 1 .. n - 1 /\ (i # 1 => i - 1 \in 1 .. n /\ i - 1 # n)
          BY <4>2, <2>a, <1>0
        <5> QED BY <5>1, <3>2, <4>2
      <4> QED BY <4>1, <4>2
    <3> HIDE DEF g
    <3>7. n \notin Bad
      BY <3>5, <3>6
    <3> QED BY <3>7
  <2> QED BY <2>3, <2>4
<1>2. PICK g \in [1 .. N -> Seq(A)] : Steps(g, N)
  <2>1. N \in 1 .. N
    BY <1>0
  <2> QED BY <1>1, <2>1, Zenon
<1> DEFINE Eq(f) == f = [i \in 1 .. N |-> IF i = 1 THEN s[i] ELSE f[i-1] \o s[i]]
           F == CHOOSE f : Eq(f)
<1>3. Eq(g)
  <2>1. g = [i \in 1 .. N |-> g[i]]
    BY <1>2
  <2>2. \A i \in 1 .. N : g[i] = IF i = 1 THEN s[i] ELSE g[i-1] \o s[i]
    BY <1>2
  <2>3. [i \in 1 .. N |-> g[i]]
          = [i \in 1 .. N |-> IF i = 1 THEN s[i] ELSE g[i-1] \o s[i]]
    BY <2>2, Zenon
  <2> QED BY <2>1, <2>3, Zenon
<1>4. Eq(F)
  BY <1>3, Zenon
<1> HIDE DEF F
<1>5. \A i \in 1 .. N : F[i] = g[i]
  <2> DEFINE Bad == {i \in 1 .. N : F[i] # g[i]}
  <2> SUFFICES ASSUME Bad # {} PROVE FALSE
    OBVIOUS
  <2>1. Bad \in SUBSET Nat
    BY <1>0
  <2>2. PICK n \in Bad : \A m \in Bad : n <= m
    <3> HIDE DEF Bad
    <3> QED BY <2>1, Least
  <2>3. n \in 1 .. N /\ F[n] # g[n] /\ ~ n <= n - 1
    BY <1>0
  <2>4. n = 1 \/ (n - 1 \in 1 .. N /\ n - 1 \notin Bad)
    <3> HIDE DEF Bad
    <3> QED BY <2>2, <2>3, <1>0
  <2>5. n - 1 \in 1 .. N /\ n - 1 \notin Bad => F[n - 1] = g[n - 1]
    OBVIOUS
  <2> HIDE DEF Bad
  <2>6. F[n] = IF n = 1 THEN s[n] ELSE F[n-1] \o s[n]
    BY <2>3, <1>4
  <2> QED BY <2>3, <2>4, <2>5, <2>6, <1>2, <1>0
<1>6. F[N] \in Seq(A)
  BY <1>5, <1>2, <1>0
<1> QED BY <1>6, <1>0 DEF FlattenSeq, F, N

\* ... and a greatest one, if it is bounded.
LEMMA Greatest ==
  ASSUME NEW N \in Nat, NEW T \in SUBSET (0 .. N), T # {}
  PROVE  \E n \in T : \A m \in T : m <= n
<1> DEFINE U == {N - m : m \in T}
<1>1. U \in SUBSET Nat /\ U # {}
  <2>1. \A m \in T : m \in Nat /\ m <= N /\ N - m \in Nat
    OBVIOUS
  <2> QED BY <2>1
<1>2. PICK k \in U : \A l \in U : k <= l
  <2> HIDE DEF U
  <2> QED BY <1>1, Least
<1>3. PICK n \in T : k = N - n
  BY Zenon
<1>4. \A m \in T : N - m \in U
  BY Zenon
<1>5. \A m \in T : m \in Nat
  OBVIOUS
<1> HIDE DEF U
<1> QED BY <1>2, <1>3, <1>4, <1>5

\* Nth(S, i) is the number of S that i of S do not exceed.
LEMMA NthType ==
  ASSUME NEW N \in Nat, NEW S \in SUBSET (0 .. N), NEW i \in 1 .. Cardinality(S)
  PROVE  /\ Nth(S, i) \in S
         /\ Cardinality({y \in S : y <= Nth(S, i)}) = i
<1> DEFINE Below(x) == {y \in S : y <= x}
           T == {x \in S : Cardinality(Below(x)) >= i}
<1>1. IsFiniteSet(S) /\ Cardinality(S) \in Nat
  <2>1. IsFiniteSet(0 .. N)
    BY FS_Interval
  <2> QED BY <2>1, FS_Subset, FS_CardinalityType
<1>2. \A x : IsFiniteSet(Below(x)) /\ Cardinality(Below(x)) \in Nat
  <2> TAKE x
  <2>1. Below(x) \subseteq S
    OBVIOUS
  <2> QED BY <1>1, <2>1, FS_Subset, FS_CardinalityType
<1>3. T # {}
  <2>1. S # {}
    BY <1>1, FS_EmptySet
  <2>2. PICK m \in S : \A y \in S : y <= m
    BY <2>1, Greatest
  <2>3. Below(m) = S
    BY <2>2
  <2> QED BY <2>3, <1>1
<1>4. PICK x \in T : \A y \in T : x <= y
  <2>1. T \subseteq S /\ S \subseteq Nat
    OBVIOUS
  <2> HIDE DEF T
  <2> QED BY <2>1, <1>3, Least
<1>5. Cardinality(Below(x)) <= i
  <2> DEFINE Less == {y \in S : y < x}
  <2>0. x \in S /\ x \in Nat /\ \A y \in S : y \in Nat
    OBVIOUS
  <2>1. Below(x) = Less \cup {x} /\ x \notin Less
    <3>1. \A y \in S : y <= x <=> y < x \/ y = x
      BY <2>0
    <3>2. ~ x < x
      BY <2>0
    <3> QED BY <3>1, <3>2, <2>0, Zenon
  <2>2. IsFiniteSet(Less)
    BY <1>1, FS_Subset
  <2>3. Cardinality(Below(x)) = Cardinality(Less) + 1
    <3> HIDE DEF Less, Below
    <3> QED BY <2>1, <2>2, FS_AddElement
  <2>4. CASE Less = {}
    BY <2>3, <2>4, FS_EmptySet
  <2>5. CASE Less # {}
    <3>1. PICK z \in Less : \A y \in Less : y <= z
      <4>1. Less \in SUBSET (0 .. N)
        OBVIOUS
      <4> HIDE DEF Less
      <4> QED BY <4>1, <2>5, Greatest
    <3>2. Below(z) = Less /\ z \in S /\ ~ x <= z
      <4>1. z \in S /\ z < x
        OBVIOUS
      <4>2. \A y \in S : y <= z => y < x
        BY <4>1, <2>0
      <4>3. \A y \in S : y < x => y <= z
        BY <3>1
      <4>4. ~ x <= z
        BY <4>1, <2>0
      <4> QED BY <4>1, <4>2, <4>3, <4>4, Zenon
    <3>3. z \notin T
      <4> HIDE DEF T, Less, Below
      <4> QED BY <3>2, <1>4
    <3>4. Cardinality(Less) < i
      <4>1. ~ Cardinality(Below(z)) >= i
        BY <3>3, <3>2
      <4> HIDE DEF Less, Below
      <4> QED BY <4>1, <3>2, <1>2
    <3> HIDE DEF Less, Below
    <3> QED BY <2>3, <3>4, <1>2, <2>2, FS_CardinalityType
  <2> QED BY <2>4, <2>5
<1>6. x \in S /\ Cardinality(Below(x)) = i
  <2>1. x \in S /\ Cardinality(Below(x)) >= i
    OBVIOUS
  <2> HIDE DEF Below, T
  <2> QED BY <2>1, <1>5, <1>2
<1> QED BY <1>6 DEF Nth

-----------------------------------------------------------------------------
(***************************************************************************)
(* The table and what the server finds in it.                              *)
(***************************************************************************)

Attrs == {Table[h] : h \in 1 .. Len(Table)}

\* The table is a sequence.
LEMMA TableLen == Len(Table) \in Nat /\ Table \in Seq(Attrs)
<1> DEFINE A == [part : {"service", "characteristic", "value", "cccd"},
                 uuid : Uuids, wideType : BOOLEAN, wideValue : BOOLEAN]
<1>1. ASSUME NEW c, c \in [wide : BOOLEAN, cccd : BOOLEAN]
      PROVE  CharacteristicAttrs(c) \in Seq(A)
  <2>1. Declaration(c.wide) \in A /\ Value(c.wide) \in A /\ Cccd \in A
    BY <1>1 DEF Declaration, Value, Cccd, Attr, Uuids
  <2>2. <<Declaration(c.wide), Value(c.wide)>> \in Seq(A) /\ <<Cccd>> \in Seq(A)
    <3> HIDE DEF A
    <3> QED BY <2>1
  <2>3. (IF c.cccd THEN <<Cccd>> ELSE <<>>) \in Seq(A)
    <3> HIDE DEF A
    <3> QED BY <2>2
  <2> HIDE DEF A
  <2> QED BY <2>2, <2>3, ConcatProperties DEF CharacteristicAttrs
<1>2. ASSUME NEW i \in DOMAIN Services
      PROVE  ServiceAttrs(Services[i]) \in Seq(A)
  <2> DEFINE s == Services[i]
             t == [k \in DOMAIN s.chars |-> CharacteristicAttrs(s.chars[k])]
  <2>1. /\ s.uuid \in Uuids /\ s.wide \in BOOLEAN
        /\ s.chars \in Seq([wide : BOOLEAN, cccd : BOOLEAN])
    <3> DEFINE U == {Services[j].uuid : j \in DOMAIN Services}
               R == [uuid : U, wide : BOOLEAN,
                     chars : Seq([wide : BOOLEAN, cccd : BOOLEAN])]
    <3>1. s \in R
      <4>1. Services \in Seq(R)
        BY ServicesAssumption
      <4> HIDE DEF R
      <4> QED BY <4>1, ElementOfSeq
    <3>2. s.uuid \in U
      BY <3>1
    <3> QED BY <3>1, <3>2 DEF Uuids
  <2>2. <<Service(s.uuid, s.wide)>> \in Seq(A)
    BY <2>1 DEF Service, Attr
  <2>3. t \in Seq(Seq(A))
    <3>1. \A k \in DOMAIN s.chars : CharacteristicAttrs(s.chars[k]) \in Seq(A)
      <4> TAKE k \in DOMAIN s.chars
      <4>1. s.chars[k] \in [wide : BOOLEAN, cccd : BOOLEAN]
        <5> DEFINE R == [wide : BOOLEAN, cccd : BOOLEAN]
        <5>1. s.chars \in Seq(R)
          BY <2>1
        <5> HIDE DEF R
        <5>2. s.chars[k] \in R
          BY <5>1, ElementOfSeq
        <5> QED BY <5>2 DEF R
      <4> QED BY <4>1, <1>1
    <3>2. DOMAIN s.chars = 1 .. Len(s.chars) /\ Len(s.chars) \in Nat
      BY <2>1
    <3> HIDE DEF A
    <3> QED BY <3>1, <3>2
  <2>4. FlattenSeq(t) \in Seq(A)
    <3>1. CASE t = <<>>
      BY <3>1 DEF FlattenSeq
    <3>2. CASE t # <<>>
      BY <3>2, <2>3, FlattenType
    <3> QED BY <3>1, <3>2
  <2> QED BY <2>2, <2>4 DEF ServiceAttrs
<1>3. Fixed \in Seq(A)
  BY DEF Fixed, Service, Declaration, Value, Attr, Uuids
<1> DEFINE t == [i \in DOMAIN Services |-> ServiceAttrs(Services[i])]
<1>4. t \in Seq(Seq(A))
  <2>1. DOMAIN Services = 1 .. Len(Services) /\ Len(Services) \in Nat
    BY ServicesAssumption
  <2> HIDE DEF A
  <2> QED BY <2>1, <1>2
<1>5. FlattenSeq(t) \in Seq(A)
  <2>1. CASE t = <<>>
    BY <2>1 DEF FlattenSeq
  <2>2. CASE t # <<>>
    BY <2>2, <1>4, FlattenType
  <2> QED BY <2>1, <2>2
<1>6. Table \in Seq(A)
  BY <1>3, <1>5 DEF Table
<1> QED BY <1>6 DEF Attrs

\* The end of a service is a handle of the table.
LEMMA ServiceEndType ==
  ASSUME NEW h \in 1 .. Len(Table)
  PROVE  ServiceEnd(h) \in h .. Len(Table)
<1> DEFINE later == {g \in h + 1 .. Len(Table) : IsService(g)}
<1>1. CASE later = {}
  BY <1>1, TableLen DEF ServiceEnd
<1>2. CASE later # {}
  <2>1. later \in SUBSET Nat
    BY TableLen
  <2>2. \E g \in later : \A k \in later : g <= k
    <3> HIDE DEF later
    <3> QED BY <1>2, <2>1, Least
  <2> DEFINE g == CHOOSE g \in later : \A k \in later : g <= k
  <2>3. g \in later
    BY <2>2, Zenon
  <2>4. ServiceEnd(h) = g - 1
    BY <1>2 DEF ServiceEnd
  <2> HIDE DEF g
  <2> QED BY <2>3, <2>4, TableLen
<1> QED BY <1>1, <1>2

\* Entries are of the table.
LEMMA EntryType ==
  ASSUME NEW kind, NEW h \in 1 .. Len(Table)
  PROVE  Entry(kind, h) \in Entries /\ Entry(kind, h).handle = h
BY ServiceEndType, TableLen DEF Entry, Entries

\* A response that finds something has an entry at least.
LEMMA ResponseType ==
  ASSUME NEW ask \in Asks, NEW first \in AllWanted(ask)
  PROVE  Response(ask, first) \in Seq(Entries) \ {<<>>}
<1> DEFINE alike == Alike(ask, first)
           n == Cardinality(alike)
           room == Fitting(ask, first)
           m == IF room < n THEN room ELSE n
<1>1. alike \in SUBSET (1 .. Len(Table)) /\ first \in alike
  BY DEF Alike, AllWanted
<1>2. IsFiniteSet(alike) /\ n \in Nat /\ n # 0
  <2>1. IsFiniteSet(1 .. Len(Table))
    BY TableLen, FS_Interval
  <2> HIDE DEF alike
  <2> QED BY <2>1, <1>1, FS_Subset, FS_CardinalityType, FS_EmptySet
<1>3. room \in Nat \ {0}
  BY MtuAssumption DEF Fitting, HeaderLen, EntryLen, Asks, Discoveries
<1>4. m \in Nat \ {0} /\ m <= n
  BY <1>2, <1>3
<1>5. \A i \in 1 .. m : Nth(alike, i) \in 1 .. Len(Table)
  <2> TAKE i \in 1 .. m
  <2>1. i \in 1 .. Cardinality(alike) /\ alike \in SUBSET (0 .. Len(Table))
    BY <1>4, <1>2, <1>1, TableLen
  <2>2. Nth(alike, i) \in alike
    <3> HIDE DEF alike
    <3> QED BY <2>1, TableLen, NthType
  <2> QED BY <2>2, <1>1
<1>6. Response(ask, first) = [i \in 1 .. m |-> Entry(ask.kind, Nth(alike, i))]
  BY DEF Response
<1> HIDE DEF m
<1>7. \A i \in 1 .. m : Entry(ask.kind, Nth(alike, i)) \in Entries
  BY <1>5, EntryType
<1>8. Response(ask, first) \in [1 .. m -> Entries]
  BY <1>6, <1>7
<1> QED BY <1>8, <1>4

-----------------------------------------------------------------------------
(***************************************************************************)
(* Types.                                                                  *)
(***************************************************************************)

\* What a call at the client, and one at the server, is about to queue.
ClientTodo ==
    \A c \in Callers : pc[Client][c] \in {"set", "queue"} =>
        todo[Client][c] \in Pdus /\ todo[Client][c].op \in Requests
ServerTodo ==
    \A c \in Callers :
        /\ pc[Server][c] # "set"
        /\ pc[Server][c] = "queue" => todo[Server][c] = Plain("INDICATION")

\* A discovery in progress has a range of its own kind.
RangeInv == proc \in Discoveries => range \in Asks /\ range.kind = proc

TypeInv == TypeOK /\ ClientTodo /\ ServerTodo /\ RangeInv

USE DEF Node, Client, Server, None

LEMMA PlainType ==
  ASSUME NEW op \in Ops \ {"DISCOVER_REQ", "DISCOVER_RSP"}
  PROVE  Plain(op) \in Pdus
BY Zenon DEF Pdus, Plain, Pdu

LEMMA DiscoverReqType ==
  ASSUME NEW ask \in Asks
  PROVE  DiscoverReq(ask) \in Pdus /\ DiscoverReq(ask).op = "DISCOVER_REQ"
BY DEF Pdus, DiscoverReq, Pdu

LEMMA DiscoverRspType ==
  ASSUME NEW kind \in Discoveries, NEW entries \in Seq(Entries) \ {<<>>}
  PROVE  DiscoverRsp(kind, entries) \in Pdus
BY DEF Pdus, DiscoverRsp, Pdu

\* What PDUs carry.
LEMMA PduFields ==
  ASSUME NEW p \in Pdus
  PROVE  /\ p.op \in Ops
         /\ p.op = "DISCOVER_REQ" => p.ask \in Asks
         /\ p.op = "DISCOVER_RSP" =>
              p.ask.kind \in Discoveries /\ p.entries \in Seq(Entries) \ {<<>>}
         /\ p # NoPdu
BY DEF Pdus, Ops, Requests, Responses, Writes, CccdWrites, Values, NoPdu, Plain, Pdu,
       NoAsk

\* What the application asks for.
LEMMA AskedType ==
  ASSUME NEW pdu \in Asked
  PROVE  pdu \in Pdus /\ pdu.op \in Requests
<1>1. CASE pdu = Plain("READ_REQ")
  BY <1>1, PlainType DEF Ops, Requests, Plain, Pdu
<1>2. CASE \E w \in Writes : pdu = Plain(w)
  BY <1>2, PlainType DEF Ops, Requests, Writes, CccdWrites, Plain, Pdu
<1>3. CASE \E ask \in Discovered : pdu = DiscoverReq(ask)
  <2>1. PICK ask \in Discovered : pdu = DiscoverReq(ask)
    BY <1>3
  <2>2. ask \in Asks
    <3>1. \A r \in Ranges : r[1] \in Handles /\ r[2] \in Handles
      <4> SUFFICES ASSUME NEW r \in Ranges PROVE r[1] \in Handles /\ r[2] \in Handles
        OBVIOUS
      <4>1. CASE r = <<1, MaxHandle>>
        BY <4>1 DEF Handles, MaxHandle
      <4>2. CASE \E h \in 1 .. Len(Table) : r = <<h, ServiceEnd(h)>>
        <5>1. PICK h \in 1 .. Len(Table) : r = <<h, ServiceEnd(h)>>
          BY <4>2
        <5>2. ServiceEnd(h) \in h .. Len(Table)
          BY ServiceEndType
        <5>3. h \in Handles /\ ServiceEnd(h) \in Handles
          <6>1. Len(Table) \in Nat /\ Len(Table) <= MaxHandle
            BY TableLen, TableAssumption
          <6>2. h \in 1 .. MaxHandle /\ ServiceEnd(h) \in 1 .. MaxHandle
            <7>1. MaxHandle \in Nat
              BY DEF MaxHandle
            <7> QED BY <7>1, <5>2, <6>1
          <6> QED BY <6>2 DEF Handles
        <5> QED BY <5>1, <5>3
      <4> QED BY <4>1, <4>2 DEF Ranges
    <3>2. 1 \in Handles /\ MaxHandle \in Handles
      BY DEF Handles, MaxHandle
    <3> QED BY <3>1, <3>2 DEF Discovered, Ask, Asks, Discoveries, Uuids
  <2> QED BY <2>1, <2>2, DiscoverReqType DEF Requests
<1> QED BY <1>1, <1>2, <1>3 DEF Asked

\* What queueing does to the queues.
LEMMA QueueType ==
  ASSUME NEW n \in Node, NEW p \in Pdus, TypeOK, Queue(n, p), Len(queue[n]) < QueueDepth
  PROVE  /\ queue' \in [Node -> Seq(Pdus)]
         /\ \A m \in Node : Len(queue'[m]) <= QueueDepth
BY DepthAssumption DEF TypeOK, Queue

LEMMA InitTypeInv == Init => TypeInv
<1> SUFFICES ASSUME Init PROVE TypeInv
  OBVIOUS
<1>1. TypeOK
  <2>1. /\ queue \in [Node -> Seq(Pdus)] /\ air \in [Node -> Pdus \cup {NoPdu}]
        /\ \A n \in Node : Len(queue[n]) <= QueueDepth
    BY DepthAssumption DEF Init
  <2>2. /\ pc \in [Node -> [Callers -> {"idle", "set", "queue", "mark"}]]
        /\ todo \in [Node -> [Callers -> Pdus \cup {NoPdu}]]
        /\ preempted \in [Node -> 0 .. MaxPreempt]
    BY BoundAssumption DEF Init
  <2>3. found \in Seq(Entries)
    BY EmptySeq DEF Init
  <2>4. /\ calls \in 0 .. MaxCalls /\ commands \in 0 .. MaxCommands
        /\ values \in 0 .. MaxValues
    BY BoundAssumption DEF Init
  <2>5. lost \in [Node -> BOOLEAN]
    BY DEF Init
  <2> QED BY <2>1, <2>2, <2>3, <2>4, <2>5 DEF Init, TypeOK
<1> QED BY <1>1 DEF Init, TypeInv, ClientTodo, ServerTodo, RangeInv, Discoveries

LEMMA ProcedureOfType ==
  ASSUME NEW pdu \in Pdus, pdu.op \in Requests
  PROVE  /\ pdu.op = "READ_REQ" => ProcedureOf(pdu) = "READ"
         /\ pdu.op = "DISCOVER_REQ" => ProcedureOf(pdu) = pdu.ask.kind /\ pdu.ask \in Asks
         /\ pdu.op \in Writes => ProcedureOf(pdu) = "WRITE"
         /\ ProcedureOf(pdu) \in Procedures
         /\ ProcedureOf(pdu) \in Discoveries => pdu.op = "DISCOVER_REQ"
<1>1. pdu.op = "DISCOVER_REQ" => pdu.ask \in Asks /\ pdu.ask.kind \in Discoveries
  BY PduFields DEF Asks
<1> QED BY <1>1 DEF ProcedureOf, Procedures, Requests, Writes, CccdWrites, Discoveries

LEMMA ClientTestsType ==
  ASSUME TypeInv, NEW c \in Callers, NEW pdu \in Asked, ClientTests(c, pdu)
  PROVE  TypeInv'
BY AskedType, BoundAssumption
   DEF TypeInv, TypeOK, ClientTodo, ServerTodo, RangeInv, ClientTests, Enters, linkVars,
       clientVars, serverVars, eventVars, findVars

LEMMA ClientRecordsType ==
  ASSUME TypeInv, NEW c \in Callers, ClientRecords(c)
  PROVE  TypeInv'
<1>1. todo[Client][c] \in Pdus /\ todo[Client][c].op \in Requests
  BY DEF TypeInv, ClientTodo, ClientRecords
<1>2. proc' \in Procedures \cup {None} /\ RangeInv'
  BY <1>1, ProcedureOfType DEF ClientRecords, RangeInv, TypeInv, Discoveries, Asks
<1>3. /\ range' \in Asks \cup {NoAsk} /\ sought' \in Asks \cup {NoAsk}
      /\ found' \in Seq(Entries) /\ complete' \in BOOLEAN /\ cut' \in BOOLEAN
  <2>1. CASE todo[Client][c].op = "DISCOVER_REQ"
    <3>1. todo[Client][c].ask \in Asks
      BY <1>1, <2>1, PduFields
    <3>2. <<>> \in Seq(Entries)
      BY EmptySeq
    <3> QED BY <2>1, <3>1, <3>2 DEF ClientRecords
  <2>2. CASE todo[Client][c].op # "DISCOVER_REQ"
    BY <2>2 DEF ClientRecords, TypeInv, TypeOK, findVars
  <2> QED BY <2>1, <2>2
<1>4. /\ pc' \in [Node -> [Callers -> {"idle", "set", "queue", "mark"}]]
      /\ todo' \in [Node -> [Callers -> Pdus \cup {NoPdu}]] /\ UNCHANGED preempted
  BY <1>1 DEF ClientRecords, TypeInv, TypeOK, Enters
<1>5. ClientTodo' /\ ServerTodo'
  BY <1>1 DEF ClientRecords, TypeInv, TypeOK, ClientTodo, ServerTodo, Enters
<1> QED BY <1>2, <1>3, <1>4, <1>5
        DEF TypeInv, TypeOK, ClientRecords, linkVars, serverVars, boundVars

LEMMA ReturnsType ==
  ASSUME TypeInv, NEW n \in Node, NEW c \in Callers, Returns(n, c)
  PROVE  /\ pc' \in [Node -> [Callers -> {"idle", "set", "queue", "mark"}]]
         /\ todo' \in [Node -> [Callers -> Pdus \cup {NoPdu}]]
         /\ preempted' \in [Node -> 0 .. MaxPreempt]
         /\ ClientTodo' /\ ServerTodo'
<1>1. preempted' \in [Node -> 0 .. MaxPreempt]
  BY BoundAssumption DEF TypeInv, TypeOK, Returns
<1>2. \A d \in Callers, m \in Node :
        pc'[m][d] = (IF m = n /\ d = c THEN "idle" ELSE pc[m][d]) /\
        todo'[m][d] = (IF m = n /\ d = c THEN NoPdu ELSE todo[m][d])
  BY DEF TypeInv, TypeOK, Returns
<1>3. ClientTodo' /\ ServerTodo'
  BY <1>2 DEF TypeInv, ClientTodo, ServerTodo
<1> QED BY <1>1, <1>3 DEF TypeInv, TypeOK, Returns

LEMMA ClientQueuesType ==
  ASSUME TypeInv, NEW c \in Callers, ClientQueues(c)
  PROVE  TypeInv'
<1>1. todo[Client][c] \in Pdus /\ todo[Client][c].op \in Requests
  BY DEF TypeInv, ClientTodo, ClientQueues
<1>2. /\ queue' \in [Node -> Seq(Pdus)]
      /\ \A m \in Node : Len(queue'[m]) <= QueueDepth
  BY <1>1, QueueType DEF ClientQueues, TypeInv, TypeOK, Room
<1>3. /\ proc' \in Procedures \cup {None} /\ range' \in Asks \cup {NoAsk}
      /\ RangeInv'
  BY DEF ClientQueues, ClearProcedure, clientVars, TypeInv, TypeOK, RangeInv, Discoveries
<1>4. /\ pc' \in [Node -> [Callers -> {"idle", "set", "queue", "mark"}]]
      /\ todo' \in [Node -> [Callers -> Pdus \cup {NoPdu}]]
      /\ preempted' \in [Node -> 0 .. MaxPreempt]
      /\ ClientTodo' /\ ServerTodo'
  <2>1. CASE Returns(Client, c)
    BY <2>1, ReturnsType
  <2>2. CASE Enters(Client, c, "mark", todo[Client][c])
    BY <2>2, <1>1 DEF Enters, TypeInv, TypeOK, ClientTodo, ServerTodo
  <2> QED BY <2>1, <2>2 DEF ClientQueues
<1> QED BY <1>2, <1>3, <1>4
        DEF TypeInv, TypeOK, ClientQueues, serverVars, boundVars, eventVars, findVars

LEMMA ClientMarksType ==
  ASSUME TypeInv, NEW c \in Callers, ClientMarksCccd(c)
  PROVE  TypeInv'
<1>1. /\ pc' \in [Node -> [Callers -> {"idle", "set", "queue", "mark"}]]
      /\ todo' \in [Node -> [Callers -> Pdus \cup {NoPdu}]]
      /\ preempted' \in [Node -> 0 .. MaxPreempt]
      /\ ClientTodo' /\ ServerTodo'
  BY ReturnsType DEF ClientMarksCccd
<1>2. proc' \in Procedures /\ RangeInv'
  BY DEF ClientMarksCccd, Procedures, RangeInv, Discoveries
<1> QED BY <1>1, <1>2
        DEF TypeInv, TypeOK, ClientMarksCccd, linkVars, serverVars, boundVars, eventVars,
            findVars

LEMMA ServerTestsType ==
  ASSUME TypeInv, NEW c \in Callers, ServerTests(c)
  PROVE  TypeInv'
<1>1. Plain("INDICATION") \in Pdus
  BY PlainType DEF Ops, Values
<1>2. ClientTodo' /\ ServerTodo'
  BY <1>1 DEF ServerTests, Enters, TypeInv, TypeOK, ClientTodo, ServerTodo
<1>3. /\ pc' \in [Node -> [Callers -> {"idle", "set", "queue", "mark"}]]
      /\ todo' \in [Node -> [Callers -> Pdus \cup {NoPdu}]]
  BY <1>1 DEF ServerTests, Enters, TypeInv, TypeOK
<1> QED BY <1>2, <1>3, BoundAssumption
        DEF TypeInv, TypeOK, RangeInv, ServerTests, Enters, linkVars, clientVars,
            serverVars, eventVars, findVars

LEMMA ServerQueuesType ==
  ASSUME TypeInv, NEW c \in Callers, ServerQueues(c)
  PROVE  TypeInv'
<1>1. todo[Server][c] = Plain("INDICATION") /\ todo[Server][c] \in Pdus
  BY PlainType DEF TypeInv, ServerTodo, ServerQueues, Ops, Values
<1>2. /\ queue' \in [Node -> Seq(Pdus)]
      /\ \A m \in Node : Len(queue'[m]) <= QueueDepth
  BY <1>1, QueueType DEF ServerQueues, TypeInv, TypeOK, Room
<1>3. /\ pc' \in [Node -> [Callers -> {"idle", "set", "queue", "mark"}]]
      /\ todo' \in [Node -> [Callers -> Pdus \cup {NoPdu}]]
      /\ preempted' \in [Node -> 0 .. MaxPreempt]
      /\ ClientTodo' /\ ServerTodo'
  <2>1. CASE Returns(Server, c)
    BY <2>1, ReturnsType
  <2>2. CASE Enters(Server, c, "mark", NoPdu)
    BY <2>2 DEF Enters, TypeInv, TypeOK, ClientTodo, ServerTodo
  <2> QED BY <2>1, <2>2 DEF ServerQueues
<1> QED BY <1>2, <1>3
        DEF TypeInv, TypeOK, RangeInv, ServerQueues, clientVars, serverVars, boundVars,
            eventVars, findVars

LEMMA ServerMarksType ==
  ASSUME TypeInv, NEW c \in Callers, ServerMarks(c)
  PROVE  TypeInv'
<1>1. /\ pc' \in [Node -> [Callers -> {"idle", "set", "queue", "mark"}]]
      /\ todo' \in [Node -> [Callers -> Pdus \cup {NoPdu}]]
      /\ preempted' \in [Node -> 0 .. MaxPreempt]
      /\ ClientTodo' /\ ServerTodo'
  BY ReturnsType DEF ServerMarks
<1> QED BY <1>1
        DEF TypeInv, TypeOK, RangeInv, ServerMarks, linkVars, clientVars, boundVars,
            eventVars, findVars

LEMMA CommandNotifyType ==
  ASSUME TypeInv, ClientCommands \/ ServerNotifies
  PROVE  TypeInv'
<1>1. Plain("COMMAND") \in Pdus /\ Plain("NOTIFICATION") \in Pdus
  BY PlainType DEF Ops, Values
<1>2. /\ queue' \in [Node -> Seq(Pdus)]
      /\ \A m \in Node : Len(queue'[m]) <= QueueDepth
  BY <1>1, QueueType DEF ClientCommands, ServerNotifies, TypeInv, TypeOK, Room
<1>3. commands' \in 0 .. MaxCommands /\ values' \in 0 .. MaxValues
  <2>1. CASE ClientCommands
    BY <2>1, BoundAssumption DEF ClientCommands, TypeInv, TypeOK
  <2>2. CASE ServerNotifies
    BY <2>2, BoundAssumption DEF ServerNotifies, TypeInv, TypeOK
  <2> QED BY <2>1, <2>2
<1>4. UNCHANGED <<up, air, clientVars, serverVars, callVars, calls, eventVars>>
  BY DEF ClientCommands, ServerNotifies
<1> QED BY <1>2, <1>3, <1>4
        DEF TypeInv, TypeOK, ClientTodo, ServerTodo, RangeInv, clientVars, serverVars,
            callVars, eventVars, findVars

LEMMA HandlerRunsType ==
  ASSUME TypeInv, NEW n \in Node, HandlerRuns(n)
  PROVE  preempted' \in [Node -> 0 .. MaxPreempt]
<1>1. preempted \in [Node -> 0 .. MaxPreempt] /\ MaxPreempt \in Nat
  BY BoundAssumption DEF TypeInv, TypeOK
<1> QED BY <1>1 DEF HandlerRuns

LEMMA TransmitsType ==
  ASSUME TypeInv, NEW n \in Node, Transmits(n)
  PROVE  TypeInv'
<1>1. queue[n] \in Seq(Pdus) /\ queue[n] # <<>> /\ Len(queue[n]) <= QueueDepth
  BY DEF TypeInv, TypeOK, Transmits
<1>2. /\ Head(queue[n]) \in Pdus /\ Tail(queue[n]) \in Seq(Pdus)
      /\ Len(Tail(queue[n])) <= QueueDepth
  BY <1>1, HeadTailProperties, DepthAssumption
<1>3. air' \in [Node -> Pdus \cup {NoPdu}]
  BY <1>2 DEF TypeInv, TypeOK, Transmits
<1>4. /\ queue' \in [Node -> Seq(Pdus)]
      /\ \A m \in Node : Len(queue'[m]) <= QueueDepth
  BY <1>2 DEF TypeInv, TypeOK, Transmits
<1>5. preempted' \in [Node -> 0 .. MaxPreempt]
  BY HandlerRunsType DEF Transmits
<1> QED BY <1>3, <1>4, <1>5
        DEF TypeInv, TypeOK, ClientTodo, ServerTodo, RangeInv, Transmits, clientVars,
            serverVars, boundVars, eventVars, findVars

LEMMA DisconnectType ==
  ASSUME TypeInv, Disconnect
  PROVE  TypeInv'
<1>1. /\ queue' \in [Node -> Seq(Pdus)] /\ air' \in [Node -> Pdus \cup {NoPdu}]
      /\ \A n \in Node : Len(queue'[n]) <= QueueDepth
  BY DepthAssumption DEF Disconnect
<1> QED BY <1>1
   DEF TypeInv, TypeOK, ClientTodo, ServerTodo, RangeInv, Disconnect, ClearProcedure,
       Discoveries, callVars, boundVars, eventVars, findVars

LEMMA AnswersType ==
  ASSUME TypeInv, NEW n \in Node, NEW p \in Pdus, Answers(n, p)
  PROVE  /\ queue' \in [Node -> Seq(Pdus)]
         /\ \A m \in Node : Len(queue'[m]) <= QueueDepth
         /\ lost' \in [Node -> BOOLEAN]
<1>1. CASE Len(queue[n]) < QueueDepth
  <2>1. Queue(n, p) /\ UNCHANGED lost
    BY <1>1 DEF Answers
  <2> QED BY <1>1, <2>1, QueueType DEF TypeInv, TypeOK
<1>2. CASE ~ Len(queue[n]) < QueueDepth
  BY <1>2 DEF Answers, TypeInv, TypeOK
<1> QED BY <1>1, <1>2

\* The last entry of a response is of the table.
LEMMA LastType ==
  ASSUME NEW entries \in Seq(Entries) \ {<<>>}
  PROVE  /\ Last(entries) \in Entries
         /\ Last(entries).end \in 1 .. Len(Table)
         /\ Last(entries) = entries[Len(entries)]
<1>1. Last(entries) \in Entries /\ Last(entries) = entries[Len(entries)]
  BY DEF Last
<1> HIDE DEF Last
<1> QED BY <1>1 DEF Entries

LEMMA ClientDiscoversType ==
  ASSUME TypeInv, NEW p \in Pdus, p.op = "DISCOVER_RSP", proc = p.ask.kind,
         ClientDiscovers(p.entries)
  PROVE  /\ queue' \in [Node -> Seq(Pdus)]
         /\ \A m \in Node : Len(queue'[m]) <= QueueDepth
         /\ proc' \in Procedures \cup {None} /\ range' \in Asks \cup {NoAsk}
         /\ lost' \in [Node -> BOOLEAN] /\ cut' \in BOOLEAN
         /\ sought' \in Asks \cup {NoAsk} /\ found' \in Seq(Entries)
         /\ complete' \in BOOLEAN
         /\ RangeInv'
<1> DEFINE last == Last(p.entries)
           next == [range EXCEPT !.first = NextFirst(last)]
<1>1. /\ proc \in Discoveries /\ range \in Asks /\ range.kind = proc
      /\ p.entries \in Seq(Entries) \ {<<>>}
  BY PduFields DEF TypeInv, RangeInv
<1>2. found' \in Seq(Entries)
  BY <1>1, ConcatProperties DEF ClientDiscovers, TypeInv, TypeOK
<1>3. last.end \in 1 .. Len(Table)
  BY <1>1, LastType
<1>4. CASE last.end >= range.last
  BY <1>2, <1>4 DEF ClientDiscovers, ClearProcedure, TypeInv, TypeOK, RangeInv, Discoveries
<1>5. CASE ~ last.end >= range.last /\ Len(queue[Client]) < QueueDepth
  <2>1. NextFirst(last) \in Handles
    <3>1. range.last \in 1 .. MaxHandle
      BY <1>1 DEF Asks, Handles
    <3>0. MaxHandle \in Nat
      BY DEF MaxHandle
    <3>2. last.end + 1 \in 1 .. MaxHandle
      BY <1>3, <1>5, <3>0, <3>1, TableLen
    <3> QED BY <3>2 DEF NextFirst, Handles
  <2>2. next \in Asks /\ next.kind = proc
    BY <1>1, <2>1 DEF Asks
  <2>3. DiscoverReq(next) \in Pdus
    BY <2>2, DiscoverReqType
  <2>4. range' = next /\ Queue(Client, DiscoverReq(next)) /\ UNCHANGED <<proc, complete, cut>>
    BY <1>5 DEF ClientDiscovers
  <2>5. /\ queue' \in [Node -> Seq(Pdus)]
        /\ \A m \in Node : Len(queue'[m]) <= QueueDepth
    BY <1>5, <2>3, <2>4, QueueType DEF TypeInv
  <2> HIDE DEF next
  <2> QED BY <1>2, <2>2, <2>4, <2>5 DEF ClientDiscovers, TypeInv, TypeOK, RangeInv
<1>6. CASE ~ last.end >= range.last /\ ~ Len(queue[Client]) < QueueDepth
  BY <1>2, <1>6 DEF ClientDiscovers, ClearProcedure, TypeInv, TypeOK, RangeInv, Discoveries
<1> QED BY <1>4, <1>5, <1>6

LEMMA ClientProcessesType ==
  ASSUME TypeInv, NEW p \in Pdus, ClientProcesses(p)
  PROVE  /\ queue' \in [Node -> Seq(Pdus)]
         /\ \A m \in Node : Len(queue'[m]) <= QueueDepth
         /\ proc' \in Procedures \cup {None} /\ range' \in Asks \cup {NoAsk}
         /\ lost' \in [Node -> BOOLEAN] /\ cut' \in BOOLEAN
         /\ sought' \in Asks \cup {NoAsk} /\ found' \in Seq(Entries)
         /\ complete' \in BOOLEAN
         /\ RangeInv'
<1>1. CASE p.op = "DISCOVER_RSP" /\ proc = p.ask.kind /\ ClientDiscovers(p.entries)
  BY <1>1, ClientDiscoversType
<1>2. CASE ClearProcedure /\ UNCHANGED <<queue, eventVars>>
  BY <1>2 DEF ClearProcedure, TypeInv, TypeOK, RangeInv, Discoveries, eventVars, findVars
<1>3. CASE /\ ClearProcedure
           /\ complete' = (complete \/ proc \in Discoveries)
           /\ UNCHANGED <<queue, lost, cut, sought, found>>
  BY <1>3 DEF ClearProcedure, TypeInv, TypeOK, RangeInv, Discoveries
<1>4. CASE Answers(Client, Plain("CONFIRMATION")) /\ UNCHANGED <<clientVars, findVars>>
  <2>1. Plain("CONFIRMATION") \in Pdus
    BY PlainType DEF Ops
  <2> QED BY <1>4, <2>1, AnswersType DEF TypeInv, TypeOK, RangeInv, clientVars, findVars
<1>5. CASE UNCHANGED <<queue, clientVars, eventVars>>
  BY <1>5 DEF TypeInv, TypeOK, RangeInv, clientVars, eventVars, findVars
<1> QED BY <1>1, <1>2, <1>3, <1>4, <1>5 DEF ClientProcesses

LEMMA ServerProcessesType ==
  ASSUME TypeInv, NEW p \in Pdus, ServerProcesses(p)
  PROVE  /\ queue' \in [Node -> Seq(Pdus)]
         /\ \A m \in Node : Len(queue'[m]) <= QueueDepth
         /\ lost' \in [Node -> BOOLEAN]
         /\ subscribed' \in BOOLEAN /\ pending' \in BOOLEAN
<1> DEFINE Goal == /\ queue' \in [Node -> Seq(Pdus)]
                   /\ \A m \in Node : Len(queue'[m]) <= QueueDepth
                   /\ lost' \in [Node -> BOOLEAN]
<1>0. \A r \in Pdus : Answers(Server, r) => Goal
  BY AnswersType
<1>1. Plain("READ_RSP") \in Pdus /\ Plain("WRITE_RSP") \in Pdus /\ Error \in Pdus
  BY PlainType DEF Ops, Responses, Error
<1>2. CASE p.op = "READ_REQ"
  BY <1>0, <1>1, <1>2
     DEF ServerProcesses, TypeInv, TypeOK, serverVars, Writes, CccdWrites
<1>3. CASE p.op \in Writes
  <2>1. ServesWrite(p.op) /\ UNCHANGED pending
    BY <1>3 DEF ServerProcesses, Writes, CccdWrites
  <2>2. Goal
    BY <2>1, <1>0, <1>1 DEF ServesWrite
  <2>3. subscribed' \in BOOLEAN
    BY <2>1 DEF ServesWrite, TypeInv, TypeOK
  <2> QED BY <2>1, <2>2, <2>3 DEF TypeInv, TypeOK
<1>4. CASE p.op = "DISCOVER_REQ"
  <2>1. p.ask \in Asks
    BY <1>4, PduFields
  <2>2. PICK r \in Pdus : Answers(Server, r)
    <3>1. CASE Answers(Server, Error)
      BY <3>1, <1>1
    <3>2. CASE \E first \in AllWanted(p.ask) :
                 Answers(Server, DiscoverRsp(p.ask.kind, Response(p.ask, first)))
      <4>1. PICK first \in AllWanted(p.ask) :
                 Answers(Server, DiscoverRsp(p.ask.kind, Response(p.ask, first)))
        BY <3>2
      <4>2. DiscoverRsp(p.ask.kind, Response(p.ask, first)) \in Pdus
        BY <2>1, ResponseType, DiscoverRspType DEF Asks
      <4> QED BY <4>1, <4>2
    <3> QED BY <1>4, <3>1, <3>2 DEF ServerProcesses, Writes, CccdWrites
  <2>3. UNCHANGED serverVars
    BY <1>4 DEF ServerProcesses, Writes, CccdWrites
  <2> QED BY <1>0, <2>2, <2>3 DEF TypeInv, TypeOK, serverVars
<1>5. CASE p.op \in {"CONFIRMATION", "COMMAND"}
  BY <1>5 DEF ServerProcesses, TypeInv, TypeOK, serverVars, Writes, CccdWrites
<1> QED BY <1>2, <1>3, <1>4, <1>5 DEF ServerProcesses

LEMMA ProcessesType ==
  ASSUME TypeInv, NEW n \in Node, Processes(n)
  PROVE  TypeInv'
<1> DEFINE p == air[Other(n)]
<1>1. p \in Pdus
  BY DEF Processes, TypeInv, TypeOK, Other
<1>2. air' \in [Node -> Pdus \cup {NoPdu}]
  BY DEF Processes, TypeInv, TypeOK
<1>3. preempted' \in [Node -> 0 .. MaxPreempt]
  BY HandlerRunsType DEF Processes
<1>4. UNCHANGED <<up, pc, todo, boundVars>>
  BY DEF Processes
<1>5. ClientTodo' /\ ServerTodo'
  BY <1>4 DEF TypeInv, ClientTodo, ServerTodo
<1>6. CASE n = Client
  <2>1. ClientProcesses(p) /\ UNCHANGED serverVars
    BY <1>6 DEF Processes
  <2> HIDE DEF p
  <2>2. /\ queue' \in [Node -> Seq(Pdus)]
        /\ \A m \in Node : Len(queue'[m]) <= QueueDepth
        /\ proc' \in Procedures \cup {None} /\ range' \in Asks \cup {NoAsk}
        /\ lost' \in [Node -> BOOLEAN] /\ cut' \in BOOLEAN
        /\ sought' \in Asks \cup {NoAsk} /\ found' \in Seq(Entries)
        /\ complete' \in BOOLEAN
        /\ RangeInv'
    BY <1>1, <2>1, ClientProcessesType
  <2> QED BY <1>2, <1>3, <1>4, <1>5, <2>1, <2>2 DEF TypeInv, TypeOK, serverVars, boundVars
<1>7. CASE n = Server
  <2>1. ServerProcesses(p) /\ UNCHANGED <<clientVars, findVars>>
    BY <1>7 DEF Processes
  <2> HIDE DEF p
  <2>2. /\ queue' \in [Node -> Seq(Pdus)]
        /\ \A m \in Node : Len(queue'[m]) <= QueueDepth
        /\ lost' \in [Node -> BOOLEAN]
        /\ subscribed' \in BOOLEAN /\ pending' \in BOOLEAN
    BY <1>1, <2>1, ServerProcessesType
  <2> QED BY <1>2, <1>3, <1>4, <1>5, <2>1, <2>2
          DEF TypeInv, TypeOK, RangeInv, clientVars, findVars, boundVars
<1> QED BY <1>6, <1>7

LEMMA NextTypeInv == TypeInv /\ [Next]_vars => TypeInv'
<1> SUFFICES ASSUME TypeInv, [Next]_vars PROVE TypeInv'
  OBVIOUS
<1>1. CASE UNCHANGED vars
  BY <1>1 DEF TypeInv, TypeOK, ClientTodo, ServerTodo, RangeInv, vars, linkVars, clientVars,
              serverVars, callVars, boundVars, eventVars, findVars
<1>2. CASE \E c \in Callers, pdu \in Asked : ClientTests(c, pdu)
  BY <1>2, ClientTestsType
<1>3. CASE \E c \in Callers : ClientCalls(c) \/ ServerTests(c) \/ ServerCalls(c)
  BY <1>3, ClientRecordsType, ClientQueuesType, ClientMarksType, ServerTestsType,
     ServerQueuesType, ServerMarksType DEF ClientCalls, ServerCalls
<1>4. CASE ClientCommands \/ ServerNotifies
  BY <1>4, CommandNotifyType
<1>5. CASE \E n \in Node : Transmits(n) \/ Processes(n)
  BY <1>5, TransmitsType, ProcessesType
<1>6. CASE Disconnect
  BY <1>6, DisconnectType
<1> QED BY <1>1, <1>2, <1>3, <1>4, <1>5, <1>6 DEF Next

\* The state has its types, whatever the applications, the handlers and the
\* link do in whatever order: a discovery's range fits its procedure, so that
\* the client never asks on in a range it has forgotten.
THEOREM TypeCorrect == Spec => []TypeOK
<1>1. Spec => []TypeInv
  BY InitTypeInv, NextTypeInv, PTL DEF Spec
<1>2. TypeInv => TypeOK
  BY DEF TypeInv
<1> QED BY <1>1, <1>2, PTL

-----------------------------------------------------------------------------
(***************************************************************************)
(* The places of PDUs on their way, in a queue q behind what is on the air *)
(* a, and what the steps of the link do to them.                           *)
(***************************************************************************)

At(q, a, i) == IF i = 0 THEN a ELSE q[i]
Places(q, a, ops) == {i \in 0 .. Len(q) : At(q, a, i).op \in ops}
AtMostOne(S) == \A i, j \in S : i = j

\* From q and a to r and b the PDUs of ops have kept their number, if it was
\* one at most, and none is new.
Moved(q, a, r, b, ops) ==
    /\ Places(r, b, ops) = {} <=> Places(q, a, ops) = {}
    /\ AtMostOne(Places(q, a, ops)) => AtMostOne(Places(r, b, ops))
    /\ \A i \in Places(r, b, ops) :
           \E j \in Places(q, a, ops) : At(r, b, i) = At(q, a, j)

\* None of the kinds of PDU that matter is no PDU's.
LEMMA NoneIsNone ==
  /\ None \notin Requests /\ None \notin Responses
  /\ None \notin {"INDICATION"} /\ None \notin {"CONFIRMATION"}
BY DEF Requests, Responses, Writes, CccdWrites

\* What is at a place is a PDU.
LEMMA AtType ==
  ASSUME NEW q \in Seq(Pdus), NEW a \in Pdus \cup {NoPdu}, NEW ops, None \notin ops,
         NEW i \in Places(q, a, ops)
  PROVE  At(q, a, i) \in Pdus /\ At(q, a, i).op \in ops
<1>1. At(q, a, i) \in Pdus \cup {NoPdu} /\ At(q, a, i).op \in ops
  BY DEF Places, At
<1> QED BY <1>1 DEF NoPdu, Plain, Pdu

LEMMA MovedNot ==
  ASSUME NEW q, NEW a, NEW ops
  PROVE  Moved(q, a, q, a, ops)
BY DEF Moved

\* p is queued, and k is its place.
Appended(q, p, r, k) == q \in Seq(Pdus) /\ r = Append(q, p) /\ k = Len(q) + 1

LEMMA QueuedAt ==
  ASSUME NEW q, NEW a, NEW p, NEW r, NEW k, Appended(q, p, r, k)
  PROVE  \A i \in 0 .. Len(q) : At(r, a, i) = At(q, a, i)
<1>1. \A i \in 1 .. Len(q) : r[i] = q[i]
  BY DEF Appended
<1> QED BY <1>1 DEF At, Appended

LEMMA QueuedLast ==
  ASSUME NEW q, NEW a, NEW p, NEW r, NEW k, Appended(q, p, r, k)
  PROVE  At(r, a, k) = p /\ k # 0
BY DEF Appended, At

LEMMA QueuedPlaces ==
  ASSUME NEW q, NEW a, NEW p, NEW r, NEW k, Appended(q, p, r, k), NEW ops
  PROVE  \A i : i \in Places(r, a, ops)
                     <=> i \in Places(q, a, ops) \/ (p.op \in ops /\ i = k)
<1>1. 0 .. Len(r) = (0 .. Len(q)) \cup {k}
  BY DEF Appended
<1>2. Places(r, a, ops) = {i \in (0 .. Len(q)) \cup {k} : At(r, a, i).op \in ops}
  BY <1>1 DEF Places
<1>3. \A i \in 0 .. Len(q) : At(r, a, i) = At(q, a, i)
  BY QueuedAt, Zenon
<1> QED BY <1>2, <1>3, QueuedLast DEF Places

\* A PDU of another kind changes nothing, ...
LEMMA QueuedOther ==
  ASSUME NEW q, NEW a, NEW p, NEW r, NEW k, Appended(q, p, r, k), NEW ops, p.op \notin ops
  PROVE  Places(r, a, ops) = Places(q, a, ops) /\ Moved(q, a, r, a, ops)
<1>1. \A i : i \in Places(r, a, ops) <=> i \in Places(q, a, ops)
  BY QueuedPlaces
<1>2. Places(r, a, ops) = Places(q, a, ops)
  BY <1>1
<1>3. \A i \in 0 .. Len(q) : At(r, a, i) = At(q, a, i)
  BY QueuedAt, ZenonT(30)
<1>4. \A i \in Places(q, a, ops) : At(r, a, i) = At(q, a, i)
  BY <1>3 DEF Places
<1> QED BY <1>2, <1>4 DEF Moved

\* ... and the first of its kind is alone.
LEMMA QueuedFirst ==
  ASSUME NEW q, NEW a, NEW p, NEW r, NEW k, Appended(q, p, r, k), NEW ops, p.op \in ops,
         Places(q, a, ops) = {}
  PROVE  Places(r, a, ops) = {k}
<1>1. \A i : i \in Places(r, a, ops) <=> i = k
  BY QueuedPlaces
<1> QED BY <1>1

LEMMA PlacesStaged ==
  ASSUME NEW q \in Seq(Pdus), q # <<>>, NEW ops, None \notin ops
  PROVE  /\ 0 \notin Places(q, NoPdu, ops)
         /\ Moved(q, NoPdu, Tail(q), Head(q), ops)
<1> DEFINE r == Tail(q)
           b == Head(q)
           P == Places(q, NoPdu, ops)
           R == Places(r, b, ops)
<1>1. /\ Len(q) \in Nat \ {0} /\ Len(r) = Len(q) - 1
      /\ \A i \in 1 .. Len(r) : r[i] = q[i + 1]
      /\ b = q[1]
  OBVIOUS
<1>2. \A i \in 0 .. Len(r) : At(r, b, i) = At(q, NoPdu, i + 1)
  BY <1>1 DEF At
<1>3. 0 \notin P
  BY DEF Places, At, NoPdu, Plain, Pdu
<1>4. \A i \in R : i + 1 \in P /\ At(r, b, i) = At(q, NoPdu, i + 1) /\ i \in Nat
  BY <1>1, <1>2 DEF Places
<1>5. \A i \in P : i - 1 \in R /\ i \in Nat
  <2> TAKE i \in P
  <2>1. i \in 1 .. Len(q) /\ At(q, NoPdu, i).op \in ops
    BY <1>3, <1>1 DEF Places
  <2>2. i - 1 \in 0 .. Len(r) /\ (i - 1) + 1 = i
    BY <2>1, <1>1
  <2>3. At(r, b, i - 1) = At(q, NoPdu, i)
    BY <2>2, <1>2
  <2> QED BY <2>1, <2>2, <2>3 DEF Places
<1> HIDE DEF r, b, P, R
<1>6. R = {} <=> P = {}
  BY <1>4, <1>5
<1>7. ASSUME AtMostOne(P) PROVE AtMostOne(R)
  <2> SUFFICES ASSUME NEW i \in R, NEW j \in R PROVE i = j
    BY DEF AtMostOne
  <2>1. i + 1 = j + 1 /\ i \in Nat /\ j \in Nat
    BY <1>4, <1>7 DEF AtMostOne
  <2> QED BY <2>1
<1>8. \A i \in R : \E j \in P : At(r, b, i) = At(q, NoPdu, j)
  BY <1>4
<1> QED BY <1>3, <1>6, <1>7, <1>8 DEF Moved, P, R, r, b

LEMMA PlacesTaken ==
  ASSUME NEW q, NEW a, NEW ops, None \notin ops
  PROVE  /\ Places(q, NoPdu, ops) = Places(q, a, ops) \ {0}
         /\ \A i \in Places(q, NoPdu, ops) : At(q, NoPdu, i) = At(q, a, i)
BY DEF Places, At, NoPdu, Plain, Pdu

LEMMA MovedTaken ==
  ASSUME NEW q, NEW a, NEW ops, None \notin ops, a.op \notin ops
  PROVE  Moved(q, a, q, NoPdu, ops)
<1>1. 0 \notin Places(q, a, ops)
  BY DEF Places, At
<1>2. /\ Places(q, NoPdu, ops) = Places(q, a, ops)
      /\ \A i \in Places(q, NoPdu, ops) : At(q, NoPdu, i) = At(q, a, i)
  BY <1>1, PlacesTaken
<1> QED BY <1>2 DEF Moved

\* What is on the air has place 0.
LEMMA PlacesAir ==
  ASSUME NEW q \in Seq(Pdus), NEW a, NEW ops, a.op \in ops
  PROVE  0 \in Places(q, a, ops) /\ At(q, a, 0) = a
<1>1. 0 \in 0 .. Len(q)
  OBVIOUS
<1> QED BY <1>1 DEF Places, At

\* One that is alone there leaves none.
LEMMA TakenAlone ==
  ASSUME NEW q \in Seq(Pdus), NEW a, NEW ops, None \notin ops, a.op \in ops,
         AtMostOne(Places(q, a, ops))
  PROVE  Places(q, NoPdu, ops) = {}
BY PlacesAir, PlacesTaken DEF AtMostOne

LEMMA NoPlaces ==
  ASSUME NEW ops, None \notin ops
  PROVE  Places(<<>>, NoPdu, ops) = {}
BY DEF Places, At, NoPdu, Plain, Pdu

-----------------------------------------------------------------------------
(***************************************************************************)
(* One call at a time.                                                     *)
(***************************************************************************)

\* One context calls at each end.
SingleCaller == \A c, d \in Callers : c = d

RequestsOut == Places(queue[Client], air[Client], Requests)
ResponsesOut == Places(queue[Server], air[Server], Responses)
NoCall == RequestsOut = {} /\ ResponsesOut = {}

\* A request or response belongs to the procedure.
Fits(p, procedure) ==
    /\ p.op \in {"READ_REQ", "READ_RSP"} => procedure = "READ"
    /\ p.op \in Writes \cup {"WRITE_RSP"} => procedure \in {"WRITE", "CCCD"}
    /\ p.op \in {"DISCOVER_REQ", "DISCOVER_RSP"} => procedure = p.ask.kind

\* At most one request or response is under way, ...
OneCall ==
    /\ AtMostOne(RequestsOut) /\ AtMostOne(ResponsesOut)
    /\ RequestsOut = {} \/ ResponsesOut = {}

\* ... it belongs to the procedure in progress, ...
FitInv ==
    /\ \A i \in RequestsOut : Fits(At(queue[Client], air[Client], i), proc)
    /\ \A i \in ResponsesOut : Fits(At(queue[Server], air[Server], i), proc)

\* ... there is one, unless the answer was dropped, only while the client is
\* busy, ...
LostInv ==
    /\ ~NoCall => proc # None /\ ~lost[Server]
    /\ lost[Server] => proc # None

\* ... and until a call at the client has queued its request there is none.
StepInv ==
    \A c \in Callers :
        /\ pc[Client][c] = "set" => proc = None
        /\ pc[Client][c] = "queue" =>
             NoCall /\ ~lost[Server] /\ proc = ProcedureOf(todo[Client][c])
        /\ pc[Client][c] = "mark" => proc \in {None, "WRITE"}

CallInv == up => OneCall /\ FitInv /\ LostInv /\ StepInv

CallMoved ==
    /\ Moved(queue[Client], air[Client], queue'[Client], air'[Client], Requests)
    /\ Moved(queue[Server], air[Server], queue'[Server], air'[Server], Responses)

\* A step moves what is under way, and starts, advances and ends no call.
CallKept ==
    /\ CallMoved /\ up' = up /\ proc' = proc /\ lost'[Server] = lost[Server]
    /\ \A c \in Callers :
           pc'[Client][c] = pc[Client][c] /\ todo'[Client][c] = todo[Client][c]
    /\ \/ preempted'[Client] = preempted[Client] /\ RequestsOut' = RequestsOut
       \/ HandlerRuns(Client)

LEMMA KeptCall ==
  ASSUME CallInv, CallKept
  PROVE  CallInv'
<1> SUFFICES ASSUME up PROVE CallInv'
  BY DEF CallInv, CallKept
<1>1. NoCall' = NoCall /\ OneCall'
  BY DEF NoCall, OneCall, CallInv, CallKept, CallMoved, Moved, RequestsOut, ResponsesOut
<1>2. FitInv'
  BY DEF FitInv, CallInv, CallKept, CallMoved, Moved, RequestsOut, ResponsesOut
<1>3. LostInv' /\ StepInv'
  BY <1>1 DEF CallInv, LostInv, StepInv, ProcedureOf, CallKept
<1> QED BY <1>1, <1>2, <1>3 DEF CallInv

LEMMA MovedStill ==
  ASSUME UNCHANGED <<queue, air>>
  PROVE  CallMoved /\ RequestsOut' = RequestsOut /\ ResponsesOut' = ResponsesOut
         /\ NoCall' = NoCall
BY MovedNot DEF CallMoved, RequestsOut, ResponsesOut, NoCall

\* No call is under way when none was begun.
LEMMA NoCallInv ==
  ASSUME NoCall', up => ~lost'[Server],
         \A c \in Callers : pc'[Client][c] # "queue" /\ (pc'[Client][c] = "set" => proc' = None)
                            /\ (pc'[Client][c] = "mark" => proc' \in {None, "WRITE"}),
         up' => up
  PROVE  CallInv'
BY DEF CallInv, OneCall, FitInv, LostInv, StepInv, NoCall, AtMostOne

LEMMA ClientTestsCall ==
  ASSUME SingleCaller, TypeInv, CallInv, NEW c \in Callers, NEW pdu, ClientTests(c, pdu)
  PROVE  CallInv'
<1>1. up /\ up' /\ proc = None /\ proc' = None /\ UNCHANGED <<queue, air, lost>>
  BY DEF ClientTests, Busy, linkVars, clientVars, eventVars
<1>2. NoCall' /\ ~lost[Server]
  BY <1>1, MovedStill DEF CallInv, LostInv
<1>3. \A d \in Callers : pc'[Client][d] = "set"
  BY DEF ClientTests, Enters, TypeInv, TypeOK, SingleCaller
<1> QED BY <1>1, <1>2, <1>3, NoCallInv

LEMMA ClientRecordsCall ==
  ASSUME SingleCaller, TypeInv, CallInv, NEW c \in Callers, ClientRecords(c)
  PROVE  CallInv'
<1> SUFFICES ASSUME up PROVE CallInv'
  BY DEF ClientRecords, linkVars, CallInv
<1>1. proc = None /\ NoCall /\ ~lost[Server]
  BY DEF ClientRecords, CallInv, LostInv, StepInv
<1>2. NoCall' /\ ~lost'[Server]
  BY <1>1, MovedStill DEF ClientRecords, linkVars
<1>3. \A d \in Callers : pc'[Client][d] = "queue" /\ todo'[Client][d] = todo[Client][c]
  BY DEF ClientRecords, Enters, TypeInv, TypeOK, SingleCaller
<1>4. proc' = ProcedureOf(todo[Client][c])
  BY DEF ClientRecords
<1>5. proc' = ProcedureOf(todo[Client][c]) => \A d \in Callers : proc' = ProcedureOf(todo[Client][d])'
  BY <1>3 DEF ProcedureOf
<1> QED BY <1>2, <1>3, <1>4, <1>5 DEF CallInv, OneCall, FitInv, LostInv, StepInv, NoCall, AtMostOne

\* What is queued is behind what was.
LEMMA QueueAppends ==
  ASSUME TypeInv, NEW n \in Node, NEW p, Queue(n, p)
  PROVE  /\ \E k : Appended(queue[n], p, queue'[n], k)
         /\ \A m \in Node : m # n => queue'[m] = queue[m]
BY DEF TypeInv, TypeOK, Queue, Appended

LEMMA FirstQueued ==
  ASSUME TypeInv, NEW n \in Node, NEW p, Queue(n, p), air'[n] = air[n],
         NEW ops, p.op \in ops, Places(queue[n], air[n], ops) = {}
  PROVE  \E k : /\ Places(queue'[n], air'[n], ops) = {k} /\ k # 0
                /\ At(queue'[n], air'[n], k) = p
<1>1. PICK k : Appended(queue[n], p, queue'[n], k)
  BY QueueAppends
<1>2. Places(queue'[n], air[n], ops) = {k}
  BY <1>1, QueuedFirst
<1>3. At(queue'[n], air[n], k) = p /\ k # 0
  BY <1>1, QueuedLast
<1> QED BY <1>2, <1>3

LEMMA ClientQueuesCall ==
  ASSUME SingleCaller, TypeInv, CallInv, NEW c \in Callers, ClientQueues(c)
  PROVE  CallInv'
<1> SUFFICES ASSUME up PROVE CallInv'
  BY DEF ClientQueues, CallInv
<1> PICK pdu : pdu = todo[Client][c]
  OBVIOUS
<1>0. NoCall /\ ~lost[Server] /\ ~lost'[Server] /\ proc = ProcedureOf(pdu) /\ UNCHANGED air
  BY DEF ClientQueues, CallInv, StepInv, eventVars
<1>a. pdu \in Pdus /\ pdu.op \in Requests
  BY DEF ClientQueues, TypeInv, ClientTodo
<1>1. CASE Room(Client)
  <2>1. Queue(Client, pdu) /\ proc' = proc
    BY <1>1 DEF ClientQueues, clientVars
  <2>2. PICK k : /\ Places(queue'[Client], air'[Client], Requests) = {k} /\ k # 0
                 /\ At(queue'[Client], air'[Client], k) = pdu
    BY <2>1, <1>0, <1>a, FirstQueued DEF RequestsOut, NoCall
  <2>3. RequestsOut' = {k} /\ At(queue[Client], air[Client], k)' = pdu
    BY <2>2 DEF RequestsOut
  <2>b. ResponsesOut' = {}
    BY <2>1, <1>0, QueueAppends DEF ResponsesOut, NoCall
  <2>4. Fits(pdu, proc) /\ proc # None
    BY <1>0, <1>a, ProcedureOfType
       DEF Fits, Requests, Writes, CccdWrites, Asks, Discoveries, Procedures
  <2>5. \A d \in Callers : pc'[Client][d] \in {"idle", "mark"}
    BY <1>1 DEF ClientQueues, Enters, Returns, TypeInv, TypeOK, SingleCaller
  <2>6. \A d \in Callers : pc'[Client][d] = "mark" => proc = "WRITE"
    <3>1. \A d \in Callers : pc'[Client][d] = "mark" => pdu.op \in CccdWrites
      BY <1>1 DEF ClientQueues, Enters, Returns, TypeInv, TypeOK, SingleCaller
    <3> QED BY <3>1, <1>0, <1>a, ProcedureOfType DEF Writes
  <2>7. OneCall' /\ FitInv'
    BY <2>1, <2>3, <2>4, <2>b DEF OneCall, FitInv, AtMostOne
  <2>8. LostInv' /\ StepInv'
    BY <2>1, <2>4, <2>5, <2>6, <1>0 DEF LostInv, StepInv
  <2> QED BY <2>7, <2>8 DEF CallInv
<1>2. CASE ~Room(Client)
  <2>1. UNCHANGED queue /\ proc' = None
    BY <1>2 DEF ClientQueues, ClearProcedure
  <2>2. NoCall'
    BY <2>1, <1>0, MovedStill
  <2>3. \A d \in Callers : pc'[Client][d] = "idle"
    BY <1>2 DEF ClientQueues, Returns, TypeInv, TypeOK, SingleCaller
  <2> QED BY <2>1, <2>2, <2>3, <1>0, NoCallInv
<1> QED BY <1>1, <1>2

LEMMA ClientMarksCall ==
  ASSUME SingleCaller, TypeInv, CallInv, NEW c \in Callers, ClientMarksCccd(c)
  PROVE  CallInv'
<1> SUFFICES ASSUME up PROVE CallInv'
  BY DEF ClientMarksCccd, linkVars, CallInv
<1>1. proc \in {None, "WRITE"} /\ proc' = "CCCD"
  BY DEF ClientMarksCccd, CallInv, StepInv
<1>2. UNCHANGED <<queue, air, lost>>
  BY DEF ClientMarksCccd, linkVars, eventVars
<1>3. \A d \in Callers : pc'[Client][d] = "idle"
  BY DEF ClientMarksCccd, Returns, TypeInv, TypeOK, SingleCaller
<1>4. ASSUME NEW p \in Pdus, Fits(p, proc), proc # None PROVE Fits(p, "CCCD")
  BY <1>1, <1>4, PduFields DEF Fits, Discoveries, Asks
<1>a. \A n \in Node : queue[n] \in Seq(Pdus) /\ air[n] \in Pdus \cup {NoPdu}
  BY DEF TypeInv, TypeOK
<1>5. FitInv'
  <2>1. /\ \A i \in RequestsOut : At(queue[Client], air[Client], i) \in Pdus
        /\ \A i \in ResponsesOut : At(queue[Server], air[Server], i) \in Pdus
    BY <1>a, AtType, NoneIsNone DEF RequestsOut, ResponsesOut
  <2>2. ~NoCall => proc # None
    BY DEF CallInv, LostInv
  <2> QED BY <2>1, <2>2, <1>1, <1>2, <1>4, MovedStill DEF CallInv, FitInv, NoCall
<1>6. OneCall' /\ LostInv' /\ StepInv'
  BY <1>1, <1>2, <1>3, MovedStill DEF CallInv, OneCall, LostInv, StepInv
<1> QED BY <1>5, <1>6 DEF CallInv

\* What is neither request nor response may be queued at any time.
LEMMA OtherQueued ==
  ASSUME TypeInv, NEW n \in Node, NEW p, Queue(n, p), UNCHANGED air,
         p.op \notin Requests, p.op \notin Responses
  PROVE  CallMoved /\ RequestsOut' = RequestsOut
<1>1. PICK k : Appended(queue[n], p, queue'[n], k)
  BY QueueAppends
<1>2. \A m \in Node : m # n => queue'[m] = queue[m]
  BY QueueAppends
<1>3. CASE n = Client
  BY <1>1, <1>2, <1>3, QueuedOther, MovedNot DEF CallMoved, RequestsOut
<1>4. CASE n = Server
  BY <1>1, <1>2, <1>4, QueuedOther, MovedNot DEF CallMoved, RequestsOut
<1> QED BY <1>3, <1>4

LEMMA ServerCallsKept ==
  ASSUME TypeInv, NEW c \in Callers, ServerTests(c) \/ ServerCalls(c)
  PROVE  CallKept
<1>1. UNCHANGED <<up, air, proc, lost>>
  BY DEF ServerTests, ServerCalls, ServerQueues, ServerMarks, linkVars, clientVars, eventVars
<1>2. /\ preempted'[Client] = preempted[Client]
      /\ \A d \in Callers :
            pc'[Client][d] = pc[Client][d] /\ todo'[Client][d] = todo[Client][d]
  BY DEF ServerTests, ServerCalls, ServerQueues, ServerMarks, Enters, Returns, TypeInv, TypeOK
<1>3. CASE UNCHANGED queue
  BY <1>1, <1>2, <1>3, MovedStill DEF CallKept
<1>4. CASE Queue(Server, todo[Server][c]) /\ pc[Server][c] = "queue"
  <2> PICK p : p = todo[Server][c]
    OBVIOUS
  <2>1. Queue(Server, p) /\ p.op = "INDICATION"
    BY <1>4 DEF TypeInv, ServerTodo, Plain, Pdu
  <2>2. p.op \notin Requests /\ p.op \notin Responses
    BY <2>1 DEF Requests, Responses, Writes, CccdWrites
  <2>3. CallMoved /\ RequestsOut' = RequestsOut
    BY <2>1, <2>2, <1>1, OtherQueued
  <2> QED BY <2>3, <1>1, <1>2 DEF CallKept
<1> QED BY <1>3, <1>4 DEF ServerTests, ServerCalls, ServerQueues, ServerMarks, linkVars

LEMMA CommandNotifyKept ==
  ASSUME TypeInv, ClientCommands \/ ServerNotifies
  PROVE  CallKept
<1>1. UNCHANGED <<up, air, proc, lost, pc, todo, preempted>>
  BY DEF ClientCommands, ServerNotifies, clientVars, callVars, eventVars
<1> DEFINE Sent(n, p) == Queue(n, p) /\ p.op \notin Requests /\ p.op \notin Responses
<1>2. \E n \in Node : \E p : Sent(n, p)
  <2>1. \A op \in {"COMMAND", "NOTIFICATION"} :
           Plain(op).op \notin Requests /\ Plain(op).op \notin Responses
    BY DEF Plain, Pdu, Requests, Responses, Writes, CccdWrites
  <2>2. Queue(Client, Plain("COMMAND")) \/ Queue(Server, Plain("NOTIFICATION"))
    BY DEF ClientCommands, ServerNotifies
  <2> QED BY <2>1, <2>2
<1>3. PICK n \in Node : \E p : Sent(n, p)
  BY <1>2
<1>4. PICK p : Sent(n, p)
  BY <1>3
<1>5. CallMoved /\ RequestsOut' = RequestsOut
  BY <1>1, <1>4, OtherQueued
<1> QED BY <1>1, <1>5 DEF CallKept

\* Staging the head of a queue moves what is there.
LEMMA Staged ==
  ASSUME TypeInv, NEW n \in Node, Transmits(n), NEW ops, None \notin ops
  PROVE  /\ 0 \notin Places(queue[n], air[n], ops)
         /\ Moved(queue[n], air[n], queue'[n], air'[n], ops)
<1>1. /\ queue[n] \in Seq(Pdus) /\ queue[n] # <<>> /\ air[n] = NoPdu
      /\ queue'[n] = Tail(queue[n]) /\ air'[n] = Head(queue[n])
  BY DEF TypeInv, TypeOK, Transmits
<1> QED BY <1>1, PlacesStaged

\* A handler of one end leaves the calls of the other.
LEMMA HandlerElsewhere ==
  ASSUME TypeInv, NEW n \in Node, HandlerRuns(n), NEW m \in Node, m # n
  PROVE  preempted'[m] = preempted[m]
BY DEF HandlerRuns, TypeInv, TypeOK

LEMMA TransmitsKept ==
  ASSUME TypeInv, NEW n \in Node, Transmits(n)
  PROVE  CallKept
<1>1. UNCHANGED <<up, proc, lost, pc, todo>> /\ HandlerRuns(n)
  BY DEF Transmits, clientVars, eventVars
<1>2. \A m \in Node : m # n => queue'[m] = queue[m] /\ air'[m] = air[m]
  BY DEF Transmits, TypeInv, TypeOK
<1>3. CASE n = Client
  <2>1. CallMoved
    BY <1>3, <1>2, Staged, NoneIsNone, MovedNot DEF CallMoved
  <2> QED BY <2>1, <1>1, <1>3 DEF CallKept
<1>4. CASE n = Server
  <2>1. CallMoved
    BY <1>4, <1>2, Staged, NoneIsNone, MovedNot DEF CallMoved
  <2>2. RequestsOut' = RequestsOut
    BY <1>4, <1>2 DEF RequestsOut
  <2>3. preempted'[Client] = preempted[Client]
    BY <1>1, <1>4, HandlerElsewhere
  <2> QED BY <2>1, <2>2, <2>3, <1>1 DEF CallKept
<1> QED BY <1>3, <1>4

LEMMA DisconnectCall ==
  ASSUME Disconnect
  PROVE  CallInv'
BY DEF Disconnect, CallInv

\* A request, and a response, on the air is all there is of the call.
LEMMA RequestArrives ==
  ASSUME TypeInv, CallInv, up, air[Client].op \in Requests
  PROVE  /\ Places(queue[Client], NoPdu, Requests) = {} /\ ResponsesOut = {}
         /\ Fits(air[Client], proc) /\ proc # None /\ ~lost[Server]
         /\ \A c \in Callers : pc[Client][c] \notin {"set", "queue"}
<1>1. queue[Client] \in Seq(Pdus)
  BY DEF TypeInv, TypeOK
<1>2. 0 \in RequestsOut /\ At(queue[Client], air[Client], 0) = air[Client]
  BY <1>1, PlacesAir DEF RequestsOut
<1>3. Places(queue[Client], NoPdu, Requests) = {}
  BY <1>1, TakenAlone, NoneIsNone DEF CallInv, OneCall, RequestsOut
<1> QED BY <1>2, <1>3 DEF CallInv, OneCall, FitInv, LostInv, StepInv, NoCall

LEMMA ResponseArrives ==
  ASSUME TypeInv, CallInv, up, air[Server].op \in Responses
  PROVE  /\ Places(queue[Server], NoPdu, Responses) = {} /\ RequestsOut = {}
         /\ Fits(air[Server], proc) /\ proc # None /\ ~lost[Server]
         /\ \A c \in Callers : pc[Client][c] \notin {"set", "queue"}
<1>1. queue[Server] \in Seq(Pdus)
  BY DEF TypeInv, TypeOK
<1>2. 0 \in ResponsesOut /\ At(queue[Server], air[Server], 0) = air[Server]
  BY <1>1, PlacesAir DEF ResponsesOut
<1>3. Places(queue[Server], NoPdu, Responses) = {}
  BY <1>1, TakenAlone, NoneIsNone DEF CallInv, OneCall, ResponsesOut
<1> QED BY <1>2, <1>3 DEF CallInv, OneCall, FitInv, LostInv, StepInv, NoCall

\* What the client is not waiting for does not come.
LEMMA ResponseExpected ==
  ASSUME NEW p \in Pdus, p.op \in Responses, Fits(p, proc)
  PROVE  \/ p.op = "DISCOVER_RSP" /\ proc = p.ask.kind
         \/ Finishes(p.op)
         \/ p.op = "ERROR_RSP"
BY DEF Responses, Fits, Finishes

\* What processing takes, and leaves.
LEMMA Taken ==
  ASSUME TypeInv, NEW n \in Node, Processes(n)
  PROVE  /\ up /\ up' /\ UNCHANGED <<pc, todo>>
         /\ air[Other(n)] \in Pdus /\ air'[Other(n)] = NoPdu /\ air'[n] = air[n]
         /\ Other(n) \in Node /\ queue[n] \in Seq(Pdus) /\ queue[Other(n)] \in Seq(Pdus)
BY DEF Processes, TypeInv, TypeOK, Other

LEMMA Answered ==
  ASSUME TypeInv, NEW n \in Node, NEW p, Answers(n, p)
  PROVE  /\ \A m \in Node : m # n => queue'[m] = queue[m] /\ lost'[m] = lost[m]
         /\ \/ Queue(n, p) /\ UNCHANGED lost
            \/ UNCHANGED queue /\ lost'[n]
BY DEF Answers, Queue, TypeInv, TypeOK

\* The server answers a request with one response, or drops it, ...
LEMMA ServesCall ==
  ASSUME TypeInv, CallInv, Processes(Server), UNCHANGED proc,
         air[Client].op \in Requests,
         NEW r, Answers(Server, r), r.op \in Responses, Fits(r, proc)
  PROVE  CallInv'
<1>1. /\ up /\ up' /\ UNCHANGED <<pc, todo>>
      /\ air'[Client] = NoPdu /\ air'[Server] = air[Server]
  BY Taken DEF Other
<1>2. queue'[Client] = queue[Client]
  BY Answered
<1>3. /\ RequestsOut' = {} /\ ResponsesOut = {} /\ proc # None /\ ~lost[Server]
      /\ \A c \in Callers : pc[Client][c] \notin {"set", "queue"}
  BY <1>1, <1>2, RequestArrives DEF RequestsOut
<1>4. StepInv'
  BY <1>1, <1>3 DEF CallInv, StepInv
<1>5. CASE Queue(Server, r) /\ UNCHANGED lost
  <2>1. PICK k : /\ Places(queue'[Server], air'[Server], Responses) = {k} /\ k # 0
                 /\ At(queue'[Server], air'[Server], k) = r
    BY <1>1, <1>3, <1>5, FirstQueued DEF ResponsesOut
  <2>2. ResponsesOut' = {k} /\ At(queue[Server], air[Server], k)' = r
    BY <2>1 DEF ResponsesOut
  <2>3. OneCall' /\ FitInv' /\ LostInv'
    BY <2>2, <1>3, <1>5 DEF OneCall, FitInv, LostInv, NoCall, AtMostOne
  <2> QED BY <2>3, <1>4 DEF CallInv
<1>6. CASE UNCHANGED queue /\ lost'[Server]
  <2>1. ResponsesOut' = {}
    BY <1>1, <1>3, <1>6 DEF ResponsesOut
  <2>2. OneCall' /\ FitInv' /\ LostInv'
    BY <2>1, <1>3, <1>6 DEF OneCall, FitInv, LostInv, NoCall, AtMostOne
  <2> QED BY <2>2, <1>4 DEF CallInv
<1> QED BY <1>5, <1>6, Answered

\* ... of a kind that fits.
LEMMA ServerAnswers ==
  ASSUME TypeInv, NEW p \in Pdus, p.op \in Requests, ServerProcesses(p), Fits(p, proc)
  PROVE  \E r \in Pdus : Answers(Server, r) /\ r.op \in Responses /\ Fits(r, proc)
<1>1. \A op \in Responses \ {"DISCOVER_RSP"} : Plain(op) \in Pdus /\ Plain(op).op = op
  BY PlainType DEF Ops, Responses, Plain, Pdu
<1>2. /\ Error \in Pdus /\ Error.op = "ERROR_RSP"
      /\ Fits(Error, proc)
  BY <1>1 DEF Error, Responses, Fits, Writes, CccdWrites
<1>3. CASE p.op = "READ_REQ"
  <2>1. Fits(Plain("READ_RSP"), proc)
    BY <1>3, <1>1 DEF Fits, Responses, Writes, CccdWrites
  <2>2. Answers(Server, Plain("READ_RSP")) \/ Answers(Server, Error)
    BY <1>3 DEF ServerProcesses, Writes, CccdWrites
  <2> QED BY <1>1, <1>2, <2>1, <2>2 DEF Responses
<1>4. CASE p.op \in Writes
  <2>1. Fits(Plain("WRITE_RSP"), proc)
    BY <1>4, <1>1 DEF Fits, Responses, Writes, CccdWrites
  <2>2. Answers(Server, Plain("WRITE_RSP")) \/ Answers(Server, Error)
    BY <1>4 DEF ServerProcesses, ServesWrite, Writes, CccdWrites
  <2> QED BY <1>1, <1>2, <2>1, <2>2 DEF Responses
<1>5. CASE p.op = "DISCOVER_REQ"
  <2>1. p.ask \in Asks
    BY <1>5, PduFields
  <2>2. CASE Answers(Server, Error)
    BY <2>2, <1>2 DEF Responses
  <2>3. CASE \E first \in AllWanted(p.ask) :
               Answers(Server, DiscoverRsp(p.ask.kind, Response(p.ask, first)))
    <3>1. PICK first \in AllWanted(p.ask) :
               Answers(Server, DiscoverRsp(p.ask.kind, Response(p.ask, first)))
      BY <2>3
    <3> PICK r : r = DiscoverRsp(p.ask.kind, Response(p.ask, first))
      OBVIOUS
    <3>2. r \in Pdus
      BY <2>1, ResponseType, DiscoverRspType DEF Asks
    <3>3. r.op = "DISCOVER_RSP" /\ r.ask.kind = p.ask.kind
      BY DEF DiscoverRsp, Pdu, NoAsk
    <3>4. Fits(r, proc)
      BY <3>3, <1>5 DEF Fits, Writes, CccdWrites
    <3> QED BY <3>1, <3>2, <3>3, <3>4 DEF Responses
  <2> QED BY <1>5, <2>2, <2>3 DEF ServerProcesses, Writes, CccdWrites
<1> QED BY <1>3, <1>4, <1>5 DEF Requests

\* What is no request changes no call.
LEMMA ServerProcessesKept ==
  ASSUME TypeInv, Processes(Server), air[Client].op \notin Requests
  PROVE  CallKept
<1> PICK p : p = air[Client]
  OBVIOUS
<1>1. /\ up /\ up' /\ UNCHANGED <<pc, todo>> /\ air'[Client] = NoPdu
      /\ air'[Server] = air[Server]
  BY Taken DEF Other
<1>2. ServerProcesses(p) /\ UNCHANGED proc /\ HandlerRuns(Server)
  BY DEF Processes, Other, clientVars
<1>3. UNCHANGED <<queue, lost>> /\ preempted'[Client] = preempted[Client]
  BY <1>2, HandlerElsewhere DEF ServerProcesses, Requests, serverVars
<1>4. CallMoved
  BY <1>1, <1>3, MovedTaken, MovedNot, NoneIsNone DEF CallMoved
<1>5. RequestsOut' = RequestsOut
  <2>1. 0 \notin RequestsOut
    BY DEF RequestsOut, Places, At
  <2>2. Places(queue[Client], NoPdu, Requests) = RequestsOut \ {0}
    BY PlacesTaken, NoneIsNone DEF RequestsOut
  <2>3. RequestsOut' = RequestsOut \ {0}
    BY <2>2, <1>1, <1>3 DEF RequestsOut
  <2> QED BY <2>1, <2>3
<1> QED BY <1>1, <1>2, <1>3, <1>4, <1>5 DEF CallKept

LEMMA ServerProcessesCall ==
  ASSUME TypeInv, CallInv, Processes(Server)
  PROVE  CallInv'
<1>1. CASE air[Client].op \in Requests
  <2>1. up /\ air[Client] \in Pdus
    BY Taken DEF Other
  <2>2. ServerProcesses(air[Client]) /\ UNCHANGED proc
    BY DEF Processes, Other, clientVars
  <2>3. PICK r : Answers(Server, r) /\ r.op \in Responses /\ Fits(r, proc)
    BY <1>1, <2>1, <2>2, RequestArrives, ServerAnswers
  <2> QED BY <1>1, <2>2, <2>3, ServesCall
<1>2. CASE air[Client].op \notin Requests
  BY <1>2, ServerProcessesKept, KeptCall
<1> QED BY <1>1, <1>2

\* A discovery asks for the next part of what it discovers, or ends.
LEMMA DiscoversCall ==
  ASSUME TypeInv, CallInv, Processes(Client), air[Server].op = "DISCOVER_RSP",
         proc = air[Server].ask.kind, ClientDiscovers(air[Server].entries)
  PROVE  CallInv'
<1>1. /\ up /\ up' /\ UNCHANGED <<pc, todo>>
      /\ air'[Server] = NoPdu /\ air'[Client] = air[Client] /\ air[Server] \in Pdus
  BY Taken DEF Other
<1>2. UNCHANGED lost
  BY DEF ClientDiscovers
<1>3. /\ Places(queue[Server], NoPdu, Responses) = {} /\ RequestsOut = {} /\ proc # None
      /\ ~lost[Server] /\ \A c \in Callers : pc[Client][c] \notin {"set", "queue"}
  BY <1>1, ResponseArrives DEF Responses
<1>4. proc \in Discoveries /\ range.kind = proc
  BY <1>1, PduFields DEF TypeInv, RangeInv
<1>5. CASE UNCHANGED queue /\ ClearProcedure
  <2>1. NoCall'
    BY <1>1, <1>3, <1>5 DEF NoCall, RequestsOut, ResponsesOut
  <2> QED BY <2>1, <1>1, <1>2, <1>3, <1>5, NoCallInv DEF ClearProcedure
<1>6. ASSUME NEW next, next.kind = range.kind, Queue(Client, DiscoverReq(next)),
             UNCHANGED proc
      PROVE  CallInv'
  <2> PICK r : r = DiscoverReq(next)
    OBVIOUS
  <2>2. r.op = "DISCOVER_REQ" /\ r.ask.kind = proc /\ r.op \in Requests
    BY <1>4, <1>6 DEF DiscoverReq, Pdu, Requests
  <2>1. PICK k : /\ Places(queue'[Client], air'[Client], Requests) = {k} /\ k # 0
                 /\ At(queue'[Client], air'[Client], k) = r
    BY <1>1, <1>3, <1>6, <2>2, FirstQueued DEF RequestsOut
  <2>3. RequestsOut' = {k} /\ At(queue[Client], air[Client], k)' = r
    BY <2>1 DEF RequestsOut
  <2>4. queue'[Server] = queue[Server]
    BY <1>6, QueueAppends
  <2>5. ResponsesOut' = {}
    BY <2>4, <1>1, <1>3 DEF ResponsesOut
  <2>6. Fits(r, proc)
    BY <2>2 DEF Fits, Writes, CccdWrites
  <2>7. OneCall' /\ FitInv'
    BY <1>6, <2>3, <2>5, <2>6 DEF OneCall, FitInv, AtMostOne
  <2>8. LostInv' /\ StepInv'
    BY <1>1, <1>2, <1>3, <1>6 DEF CallInv, LostInv, StepInv
  <2> QED BY <2>7, <2>8 DEF CallInv
<1>7. \/ UNCHANGED queue /\ ClearProcedure
      \/ \E next : next.kind = range.kind /\ Queue(Client, DiscoverReq(next)) /\ UNCHANGED proc
  <2>1. range \in Asks
    BY <1>4 DEF TypeInv, RangeInv
  <2>2. \A x : [range EXCEPT !.first = x].kind = range.kind
    BY <2>1 DEF Asks
  <2> QED BY <2>2 DEF ClientDiscovers
<1> QED BY <1>5, <1>6, <1>7

\* A confirmation moves what is under way.
LEMMA ConfirmMoves ==
  ASSUME TypeInv, Answers(Client, Plain("CONFIRMATION")), air'[Server] = NoPdu,
         air'[Client] = air[Client], air[Server].op \notin Responses
  PROVE  CallMoved
<1>1. queue'[Server] = queue[Server]
  BY Answered
<1>2. Moved(queue[Server], air[Server], queue'[Server], air'[Server], Responses)
  BY <1>1, MovedTaken, NoneIsNone
<1>3. Moved(queue[Client], air[Client], queue'[Client], air'[Client], Requests)
  <2> PICK r : r = Plain("CONFIRMATION")
    OBVIOUS
  <2>1. r.op \notin Requests
    BY DEF Plain, Pdu, Requests, Writes, CccdWrites
  <2>2. CASE Queue(Client, r)
    <3>1. PICK k : Appended(queue[Client], r, queue'[Client], k)
      BY <2>2, QueueAppends
    <3> QED BY <3>1, <2>1, QueuedOther
  <2>3. CASE UNCHANGED queue
    BY <2>3, MovedNot
  <2> QED BY <2>2, <2>3, Answered
<1> QED BY <1>2, <1>3 DEF CallMoved

\* What is no response changes no call.
LEMMA ClientProcessesKept ==
  ASSUME TypeInv, Processes(Client), air[Server].op \notin Responses
  PROVE  CallKept
<1> PICK p : p = air[Server]
  OBVIOUS
<1>1. /\ up /\ up' /\ UNCHANGED <<pc, todo>>
      /\ air'[Server] = NoPdu /\ air'[Client] = air[Client]
  BY Taken DEF Other
<1>2. ClientProcesses(p) /\ HandlerRuns(Client)
  BY DEF Processes, Other
<1>3. UNCHANGED proc
  BY <1>2 DEF ClientProcesses, Responses, Finishes, clientVars
<1>4. CASE UNCHANGED <<queue, lost>>
  <2>1. CallMoved
    BY <1>1, <1>4, MovedTaken, MovedNot, NoneIsNone DEF CallMoved
  <2> QED BY <2>1, <1>1, <1>2, <1>3, <1>4 DEF CallKept
<1>5. CASE Answers(Client, Plain("CONFIRMATION"))
  <2>1. lost'[Server] = lost[Server]
    BY <1>5, Answered
  <2>2. CallMoved
    BY <1>1, <1>5, ConfirmMoves
  <2> QED BY <2>1, <2>2, <1>1, <1>2, <1>3 DEF CallKept
<1> QED BY <1>2, <1>4, <1>5 DEF ClientProcesses, Responses, Finishes, eventVars

LEMMA ClientProcessesCall ==
  ASSUME TypeInv, CallInv, Processes(Client)
  PROVE  CallInv'
<1> PICK p : p = air[Server]
  OBVIOUS
<1>1. /\ up /\ up' /\ UNCHANGED <<pc, todo>> /\ p \in Pdus
      /\ air'[Server] = NoPdu /\ air'[Client] = air[Client]
  BY Taken DEF Other
<1>2. ClientProcesses(p)
  BY DEF Processes, Other
<1>3. CASE p.op \in Responses
  <2>1. /\ Places(queue[Server], NoPdu, Responses) = {} /\ RequestsOut = {} /\ proc # None
        /\ Fits(p, proc)
        /\ ~lost[Server] /\ \A c \in Callers : pc[Client][c] \notin {"set", "queue"}
    BY <1>1, <1>3, ResponseArrives
  <2>2. ASSUME ClearProcedure, UNCHANGED <<queue, lost>> PROVE CallInv'
    <3>1. NoCall'
      BY <1>1, <2>1, <2>2 DEF NoCall, RequestsOut, ResponsesOut
    <3> QED BY <3>1, <1>1, <2>1, <2>2, NoCallInv DEF ClearProcedure
  <2>3. CASE p.op = "DISCOVER_RSP" /\ proc = p.ask.kind /\ ClientDiscovers(p.entries)
    BY <2>3, DiscoversCall
  <2>4. CASE ClearProcedure /\ UNCHANGED <<queue, eventVars>>
    BY <2>2, <2>4 DEF eventVars
  <2>5. CASE ClearProcedure /\ UNCHANGED <<queue, lost, cut, sought, found>>
    BY <2>2, <2>5
  <2> QED BY <1>1, <1>2, <1>3, <2>1, <2>3, <2>4, <2>5, ResponseExpected
          DEF ClientProcesses, Responses, Finishes
<1>4. CASE p.op \notin Responses
  BY <1>4, ClientProcessesKept, KeptCall
<1> QED BY <1>3, <1>4

\* One call at a time, whatever is done in whatever order.
LEMMA InitCall == Init => CallInv
<1> SUFFICES ASSUME Init PROVE CallInv
  OBVIOUS
<1>1. RequestsOut = {} /\ ResponsesOut = {}
  BY NoPlaces, NoneIsNone DEF Init, RequestsOut, ResponsesOut
<1> QED BY <1>1 DEF Init, CallInv, OneCall, FitInv, LostInv, StepInv, NoCall, AtMostOne

LEMMA StillKept ==
  ASSUME UNCHANGED vars
  PROVE  CallKept
BY MovedStill DEF CallKept, vars, linkVars, clientVars, callVars, eventVars

LEMMA NextCall ==
  ASSUME SingleCaller, TypeInv, CallInv, [Next]_vars
  PROVE  CallInv'
<1>1. CASE UNCHANGED vars
  BY <1>1, StillKept, KeptCall
<1>2. CASE \E c \in Callers, pdu \in Asked : ClientTests(c, pdu)
  BY <1>2, ClientTestsCall
<1>3. CASE \E c \in Callers : ClientCalls(c)
  BY <1>3, ClientRecordsCall, ClientQueuesCall, ClientMarksCall DEF ClientCalls
<1>4. CASE \E c \in Callers : ServerTests(c) \/ ServerCalls(c)
  BY <1>4, ServerCallsKept, KeptCall
<1>5. CASE ClientCommands \/ ServerNotifies
  BY <1>5, CommandNotifyKept, KeptCall
<1>6. CASE \E n \in Node : Transmits(n)
  BY <1>6, TransmitsKept, KeptCall
<1>7. CASE \E n \in Node : Processes(n)
  BY <1>7, ClientProcessesCall, ServerProcessesCall
<1>8. CASE Disconnect
  BY <1>8, DisconnectCall
<1> QED BY <1>1, <1>2, <1>3, <1>4, <1>5, <1>6, <1>7, <1>8 DEF Next

\* A link that is down has nothing under way.
QuietInv == ~up => \A n \in Node : queue[n] = <<>> /\ air[n] = NoPdu

LEMMA NextQuiet ==
  ASSUME TypeInv, QuietInv, [Next]_vars
  PROVE  QuietInv'
<1>1. CASE UNCHANGED <<up, queue, air>>
  BY <1>1 DEF QuietInv
<1>2. CASE up /\ up'
  BY <1>2 DEF QuietInv
<1>3. CASE Disconnect
  BY <1>3 DEF QuietInv, Disconnect
<1>4. CASE \E c \in Callers : \/ \E pdu \in Asked : ClientTests(c, pdu)
                              \/ ClientRecords(c) \/ ClientMarksCccd(c)
                              \/ ServerTests(c) \/ ServerMarks(c)
  <2>1. UNCHANGED <<up, queue, air>>
    BY <1>4 DEF ClientTests, ClientRecords, ClientMarksCccd, ServerTests, ServerMarks, linkVars
  <2> QED BY <2>1, <1>1
<1>5. CASE \E c \in Callers : ClientQueues(c) \/ ServerQueues(c)
  <2>1. UNCHANGED <<up, air>> /\ (UNCHANGED queue \/ up)
    BY <1>5 DEF ClientQueues, ServerQueues, Room
  <2> QED BY <2>1, <1>1, <1>2
<1>6. CASE ClientCommands \/ ServerNotifies
  <2>1. UNCHANGED <<up, air>> /\ up
    BY <1>6 DEF ClientCommands, ServerNotifies, Room
  <2> QED BY <2>1, <1>2
<1>7. CASE \E n \in Node : Transmits(n) \/ Processes(n)
  <2>1. UNCHANGED up /\ up
    BY <1>7 DEF Transmits, Processes
  <2> QED BY <2>1, <1>2
<1>8. CASE UNCHANGED vars
  BY <1>1, <1>8 DEF vars, linkVars
<1> QED BY <1>3, <1>4, <1>5, <1>6, <1>7, <1>8 DEF Next, ClientCalls, ServerCalls

-----------------------------------------------------------------------------
(***************************************************************************)
(* No procedure waits for nothing.                                         *)
(***************************************************************************)

\* While the client is busy its request or the response is under way, unless
\* the server dropped it; and a call that has yet to rename the procedure of its
\* write finds the request where it queued it, unless a handler ran since.
BusyInv ==
    up /\ ~lost[Server] =>
        /\ proc # None /\ (\A c \in Callers : pc[Client][c] # "queue") => ~NoCall
        /\ \A c \in Callers : pc[Client][c] = "mark" =>
               /\ ~NoCall
               /\ preempted[Client] = 0 => RequestsOut # {} /\ 0 \notin RequestsOut

\* While a call at n has yet to mark, a handler runs there once at most.
LEMMA HandlerOnce ==
  ASSUME MaxPreempt <= 1, TypeInv, NEW n \in Node, HandlerRuns(n),
         NEW c \in Callers, pc[n][c] = "mark"
  PROVE  preempted[n] = 0 /\ preempted'[n] = 1
<1>1. preempted[n] < MaxPreempt /\ preempted' = [preempted EXCEPT ![n] = @ + 1]
  BY DEF HandlerRuns, CallActive
<1>2. preempted[n] \in 0 .. MaxPreempt /\ preempted \in [Node -> 0 .. MaxPreempt]
  BY DEF TypeInv, TypeOK
<1> QED BY <1>1, <1>2, BoundAssumption

LEMMA KeptBusy ==
  ASSUME MaxPreempt <= 1, TypeInv, BusyInv, CallKept
  PROVE  BusyInv'
<1>1. NoCall' = NoCall
  BY DEF CallKept, CallMoved, Moved, NoCall, RequestsOut, ResponsesOut
<1>2. CASE preempted'[Client] = preempted[Client] /\ RequestsOut' = RequestsOut
  BY <1>1, <1>2 DEF BusyInv, CallKept
<1>3. CASE HandlerRuns(Client)
  <2>1. \A c \in Callers : pc[Client][c] = "mark" => preempted'[Client] # 0
    BY <1>3, HandlerOnce
  <2> QED BY <1>1, <2>1 DEF BusyInv, CallKept
<1> QED BY <1>2, <1>3 DEF CallKept

\* A call that is not one of those leaves it.
LEMMA BusyIdle ==
  ASSUME \A c \in Callers : pc'[Client][c] # "mark",
         up' /\ ~lost'[Server] /\ NoCall' =>
            proc' = None \/ \E c \in Callers : pc'[Client][c] = "queue"
  PROVE  BusyInv'
BY DEF BusyInv

LEMMA ClientCallsBusy ==
  ASSUME SingleCaller, TypeInv, CallInv, BusyInv, NEW c \in Callers,
         ClientCalls(c) \/ \E pdu \in Asked : ClientTests(c, pdu)
  PROVE  BusyInv'
<1>1. CASE \E pdu \in Asked : ClientTests(c, pdu)
  <2>1. proc' = None /\ \A d \in Callers : pc'[Client][d] = "set"
    BY <1>1 DEF ClientTests, Busy, clientVars, Enters, TypeInv, TypeOK, SingleCaller
  <2> QED BY <2>1, BusyIdle
<1>2. CASE ClientRecords(c)
  <2>1. \A d \in Callers : pc'[Client][d] = "queue"
    BY <1>2 DEF ClientRecords, Enters, TypeInv, TypeOK, SingleCaller
  <2> QED BY <2>1, BusyIdle
<1>3. CASE ClientQueues(c) /\ Room(Client)
  <2> PICK pdu : pdu = todo[Client][c]
    OBVIOUS
  <2>0. pdu.op \in Requests /\ UNCHANGED air /\ up
    BY <1>3 DEF ClientQueues, TypeInv, ClientTodo, Room
  <2>1. Queue(Client, pdu)
    BY <1>3 DEF ClientQueues
  <2>3. Places(queue[Client], air[Client], Requests) = {}
    BY <2>0, <1>3 DEF ClientQueues, CallInv, StepInv, NoCall, RequestsOut
  <2>4. \E k : Places(queue'[Client], air'[Client], Requests) = {k} /\ k # 0
    BY <2>0, <2>1, <2>3, FirstQueued
  <2>5. RequestsOut' # {} /\ 0 \notin RequestsOut'
    BY <2>4 DEF RequestsOut
  <2> QED BY <2>5 DEF BusyInv, NoCall
<1>4. CASE ClientQueues(c) /\ ~Room(Client)
  <2>1. proc' = None /\ \A d \in Callers : pc'[Client][d] = "idle"
    BY <1>4 DEF ClientQueues, ClearProcedure, Returns, TypeInv, TypeOK, SingleCaller
  <2> QED BY <2>1, BusyIdle
<1>5. CASE ClientMarksCccd(c)
  <2>1. \A d \in Callers : pc'[Client][d] = "idle"
    BY <1>5 DEF ClientMarksCccd, Returns, TypeInv, TypeOK, SingleCaller
  <2>2. UNCHANGED <<up, queue, air, lost>> /\ pc[Client][c] = "mark"
    BY <1>5 DEF ClientMarksCccd, linkVars, eventVars
  <2>3. up /\ ~lost[Server] => ~NoCall'
    BY <2>2, MovedStill DEF BusyInv
  <2> QED BY <2>1, <2>2, <2>3, BusyIdle
<1> QED BY <1>1, <1>2, <1>3, <1>4, <1>5 DEF ClientCalls

\* What the server makes of a request is a response, or it is lost.
LEMMA ServesBusy ==
  ASSUME TypeInv, CallInv, BusyInv, Processes(Server), air[Client].op \in Requests
  PROVE  BusyInv'
<1> PICK p : p = air[Client]
  OBVIOUS
<1>1. /\ up /\ up' /\ UNCHANGED <<pc, todo>> /\ p \in Pdus
      /\ air'[Server] = air[Server] /\ queue[Client] \in Seq(Pdus)
  BY Taken DEF Other
<1>2. ServerProcesses(p) /\ UNCHANGED proc /\ HandlerRuns(Server)
  BY DEF Processes, Other, clientVars
<1>3. preempted'[Client] = preempted[Client]
  BY <1>2, HandlerElsewhere
<1>4. PICK r : Answers(Server, r) /\ r.op \in Responses
  BY <1>1, <1>2, RequestArrives, ServerAnswers
<1>5. /\ 0 \in RequestsOut /\ ResponsesOut = {}
      /\ \A c \in Callers : pc[Client][c] \notin {"set", "queue"}
  BY <1>1, RequestArrives, PlacesAir DEF RequestsOut
<1>6. CASE lost'[Server]
  BY <1>6 DEF BusyInv
<1>7. CASE ~lost'[Server] /\ Queue(Server, r) /\ UNCHANGED lost
  <2>1. Places(queue[Server], air[Server], Responses) = {}
    BY <1>5 DEF ResponsesOut
  <2>2. \E k : Places(queue'[Server], air'[Server], Responses) = {k}
    BY <1>1, <1>4, <1>7, <2>1, FirstQueued
  <2>3. ~NoCall'
    BY <2>2 DEF NoCall, ResponsesOut
  <2> QED BY <2>3, <1>5, <1>7, <1>1, <1>3 DEF BusyInv
<1> QED BY <1>4, <1>6, <1>7, Answered

\* A response ends the procedure or asks on.
LEMMA ReturnsBusy ==
  ASSUME MaxPreempt <= 1, TypeInv, CallInv, BusyInv, Processes(Client),
         air[Server].op \in Responses
  PROVE  BusyInv'
<1> PICK p : p = air[Server]
  OBVIOUS
<1>1. /\ up /\ up' /\ UNCHANGED <<pc, todo>> /\ p \in Pdus
      /\ air'[Server] = NoPdu /\ air'[Client] = air[Client]
  BY Taken DEF Other
<1>2. ClientProcesses(p) /\ HandlerRuns(Client)
  BY DEF Processes, Other
<1>3. /\ RequestsOut = {} /\ Fits(p, proc) /\ ~lost[Server]
      /\ \A c \in Callers : pc[Client][c] \notin {"set", "queue"}
  BY <1>1, ResponseArrives
<1>4. \A c \in Callers : pc'[Client][c] # "mark"
  <2> SUFFICES ASSUME NEW c \in Callers, pc[Client][c] = "mark" PROVE FALSE
    BY <1>1
  <2>1. preempted[Client] = 0
    BY <1>2, HandlerOnce
  <2> QED BY <2>1, <1>1, <1>3 DEF BusyInv
<1>5. CASE ClearProcedure
  BY <1>4, <1>5, BusyIdle DEF ClearProcedure
<1>6. CASE \E next : Queue(Client, DiscoverReq(next))
  <2>1. PICK r : Queue(Client, r) /\ r.op \in Requests
    BY <1>6 DEF DiscoverReq, Pdu, Requests
  <2>2. Places(queue[Client], air[Client], Requests) = {}
    BY <1>3 DEF RequestsOut
  <2>3. \E k : Places(queue'[Client], air'[Client], Requests) = {k}
    BY <1>1, <2>1, <2>2, FirstQueued
  <2>4. ~NoCall'
    BY <2>3 DEF NoCall, RequestsOut
  <2> QED BY <2>4, <1>4, BusyIdle
<1>7. ClearProcedure \/ \E next : Queue(Client, DiscoverReq(next))
  BY <1>1, <1>2, <1>3, ResponseExpected
     DEF ClientProcesses, ClientDiscovers, Responses, Finishes
<1> QED BY <1>5, <1>6, <1>7

LEMMA NextBusy ==
  ASSUME SingleCaller, MaxPreempt <= 1, TypeInv, CallInv, BusyInv, [Next]_vars
  PROVE  BusyInv'
<1>0. ASSUME CallKept PROVE BusyInv'
  BY <1>0, KeptBusy
<1>1. CASE UNCHANGED vars
  BY <1>0, <1>1, StillKept
<1>2. CASE \E c \in Callers : ClientCalls(c) \/ \E pdu \in Asked : ClientTests(c, pdu)
  BY <1>2, ClientCallsBusy
<1>3. CASE \E c \in Callers : ServerTests(c) \/ ServerCalls(c)
  BY <1>0, <1>3, ServerCallsKept
<1>4. CASE ClientCommands \/ ServerNotifies
  BY <1>0, <1>4, CommandNotifyKept
<1>5. CASE \E n \in Node : Transmits(n)
  BY <1>0, <1>5, TransmitsKept
<1>6. CASE Processes(Client)
  BY <1>0, <1>6, ClientProcessesKept, ReturnsBusy
<1>7. CASE Processes(Server)
  BY <1>0, <1>7, ServerProcessesKept, ServesBusy
<1>8. CASE Disconnect
  BY <1>8 DEF Disconnect, BusyInv
<1> QED BY <1>1, <1>2, <1>3, <1>4, <1>5, <1>6, <1>7, <1>8 DEF Next

-----------------------------------------------------------------------------
(***************************************************************************)
(* The gate of indications.                                                *)
(***************************************************************************)

IndicationsOut == Places(queue[Server], air[Server], {"INDICATION"})
ConfirmationsOut == Places(queue[Client], air[Client], {"CONFIRMATION"})
NoIndication == IndicationsOut = {} /\ ConfirmationsOut = {}

\* One indication or its confirmation is under way at most, while the gate is
\* closed or about to be marked so; a call that is about to queue one has found
\* the gate open.
GateInv ==
    up =>
        /\ AtMostOne(IndicationsOut) /\ AtMostOne(ConfirmationsOut)
        /\ IndicationsOut = {} \/ ConfirmationsOut = {}
        /\ ~NoIndication => pending \/ \E c \in Callers : pc[Server][c] = "mark"
        /\ \A c \in Callers : pc[Server][c] = "queue" => ~pending

\* While the gate is closed one is under way, unless the confirmation was
\* dropped; a call that has yet to close it finds the indication where it queued
\* it, unless a handler ran since.
ClosedInv ==
    up /\ ~lost[Client] =>
        /\ pending => ~NoIndication
        /\ \A c \in Callers : pc[Server][c] = "mark" =>
               /\ ~NoIndication
               /\ preempted[Server] = 0 => IndicationsOut # {} /\ 0 \notin IndicationsOut

GateMoved ==
    /\ Moved(queue[Server], air[Server], queue'[Server], air'[Server], {"INDICATION"})
    /\ Moved(queue[Client], air[Client], queue'[Client], air'[Client], {"CONFIRMATION"})

\* A step moves what is under way and does not touch the gate.
GateKept ==
    /\ GateMoved /\ up' = up /\ pending' = pending /\ lost'[Client] = lost[Client]
    /\ \A c \in Callers : pc'[Server][c] = pc[Server][c]
    /\ \/ preempted'[Server] = preempted[Server] /\ IndicationsOut' = IndicationsOut
       \/ HandlerRuns(Server)

LEMMA KeptGate ==
  ASSUME GateInv, GateKept
  PROVE  GateInv'
<1>1. NoIndication' = NoIndication
  BY DEF GateKept, GateMoved, Moved, NoIndication, IndicationsOut, ConfirmationsOut
<1> QED BY <1>1 DEF GateInv, GateKept, GateMoved, Moved, IndicationsOut, ConfirmationsOut

LEMMA KeptClosed ==
  ASSUME MaxPreempt <= 1, TypeInv, ClosedInv, GateKept
  PROVE  ClosedInv'
<1>1. NoIndication' = NoIndication
  BY DEF GateKept, GateMoved, Moved, NoIndication, IndicationsOut, ConfirmationsOut
<1>2. CASE preempted'[Server] = preempted[Server] /\ IndicationsOut' = IndicationsOut
  BY <1>1, <1>2 DEF ClosedInv, GateKept
<1>3. CASE HandlerRuns(Server)
  <2>1. \A c \in Callers : pc[Server][c] = "mark" => preempted'[Server] # 0
    BY <1>3, HandlerOnce
  <2> QED BY <1>1, <2>1 DEF ClosedInv, GateKept
<1> QED BY <1>2, <1>3 DEF GateKept

LEMMA GateStill ==
  ASSUME UNCHANGED <<queue, air>>
  PROVE  /\ GateMoved /\ IndicationsOut' = IndicationsOut
         /\ ConfirmationsOut' = ConfirmationsOut /\ NoIndication' = NoIndication
BY MovedNot DEF GateMoved, IndicationsOut, ConfirmationsOut, NoIndication

\* What is neither indication nor confirmation may be queued at any time.
LEMMA GateQueued ==
  ASSUME TypeInv, NEW n \in Node, NEW p, Queue(n, p),
         p.op \notin {"INDICATION"}, p.op \notin {"CONFIRMATION"}
  PROVE  /\ Moved(queue[Server], air[Server], queue'[Server], air[Server], {"INDICATION"})
         /\ Moved(queue[Client], air[Client], queue'[Client], air[Client], {"CONFIRMATION"})
         /\ Places(queue'[Server], air[Server], {"INDICATION"}) = IndicationsOut
<1>1. PICK k : Appended(queue[n], p, queue'[n], k)
  BY QueueAppends
<1>2. \A m \in Node : m # n => queue'[m] = queue[m]
  BY QueueAppends
<1>3. CASE n = Client
  BY <1>1, <1>2, <1>3, QueuedOther, MovedNot DEF IndicationsOut
<1>4. CASE n = Server
  BY <1>1, <1>2, <1>4, QueuedOther, MovedNot DEF IndicationsOut
<1> QED BY <1>3, <1>4

LEMMA RequestsNoIndication ==
  \A op \in Requests \cup Responses \cup {"COMMAND", "NOTIFICATION"} :
      op \notin {"INDICATION"} /\ op \notin {"CONFIRMATION"}
BY DEF Requests, Responses, Writes, CccdWrites

LEMMA ClientCallsGate ==
  ASSUME TypeInv, NEW c \in Callers,
         ClientCalls(c) \/ \E pdu \in Asked : ClientTests(c, pdu)
  PROVE  GateKept
<1>1. UNCHANGED <<up, air, pending, lost>>
  BY DEF ClientTests, ClientCalls, ClientRecords, ClientQueues, ClientMarksCccd, linkVars,
         serverVars, eventVars
<1>2. /\ preempted'[Server] = preempted[Server]
      /\ \A d \in Callers : pc'[Server][d] = pc[Server][d]
  BY DEF ClientTests, ClientCalls, ClientRecords, ClientQueues, ClientMarksCccd, Enters,
         Returns, TypeInv, TypeOK
<1>3. CASE UNCHANGED queue
  BY <1>1, <1>2, <1>3, GateStill DEF GateKept
<1>4. CASE Queue(Client, todo[Client][c]) /\ pc[Client][c] = "queue"
  <2> PICK p : p = todo[Client][c]
    OBVIOUS
  <2>1. Queue(Client, p) /\ p.op \in Requests
    BY <1>4 DEF TypeInv, ClientTodo
  <2>2. GateMoved /\ IndicationsOut' = IndicationsOut
    BY <2>1, <1>1, GateQueued, RequestsNoIndication DEF GateMoved, IndicationsOut
  <2> QED BY <2>2, <1>1, <1>2 DEF GateKept
<1> QED BY <1>3, <1>4
        DEF ClientTests, ClientCalls, ClientRecords, ClientQueues, ClientMarksCccd, linkVars

LEMMA CommandNotifyGate ==
  ASSUME TypeInv, ClientCommands \/ ServerNotifies
  PROVE  GateKept
<1>1. UNCHANGED <<up, air, pending, lost, pc, preempted>>
  BY DEF ClientCommands, ServerNotifies, serverVars, callVars, eventVars
<1> DEFINE Sent(n, p) == Queue(n, p) /\ p.op \in {"COMMAND", "NOTIFICATION"}
<1>2. \E n \in Node : \E p : Sent(n, p)
  <2>1. \A op \in {"COMMAND", "NOTIFICATION"} : Plain(op).op = op
    BY DEF Plain, Pdu
  <2>2. Queue(Client, Plain("COMMAND")) \/ Queue(Server, Plain("NOTIFICATION"))
    BY DEF ClientCommands, ServerNotifies
  <2> QED BY <2>1, <2>2
<1>3. PICK n \in Node : \E p : Sent(n, p)
  BY <1>2
<1>4. PICK p : Sent(n, p)
  BY <1>3
<1>5. GateMoved /\ IndicationsOut' = IndicationsOut
  BY <1>1, <1>4, GateQueued, RequestsNoIndication DEF GateMoved, IndicationsOut
<1> QED BY <1>1, <1>5 DEF GateKept

LEMMA TransmitsGate ==
  ASSUME TypeInv, NEW n \in Node, Transmits(n)
  PROVE  GateKept
<1>1. UNCHANGED <<up, pending, lost, pc>> /\ HandlerRuns(n)
  BY DEF Transmits, serverVars, eventVars
<1>2. \A m \in Node : m # n => queue'[m] = queue[m] /\ air'[m] = air[m]
  BY DEF Transmits, TypeInv, TypeOK
<1>3. CASE n = Client
  <2>1. GateMoved
    BY <1>3, <1>2, Staged, NoneIsNone, MovedNot DEF GateMoved
  <2>2. IndicationsOut' = IndicationsOut
    BY <1>3, <1>2 DEF IndicationsOut
  <2>3. preempted'[Server] = preempted[Server]
    BY <1>1, <1>3, HandlerElsewhere
  <2> QED BY <2>1, <2>2, <2>3, <1>1 DEF GateKept
<1>4. CASE n = Server
  <2>1. GateMoved
    BY <1>4, <1>2, Staged, NoneIsNone, MovedNot DEF GateMoved
  <2> QED BY <2>1, <1>1, <1>4 DEF GateKept
<1> QED BY <1>3, <1>4

\* All but an indication that the client gets, ...
LEMMA ClientProcessesGate ==
  ASSUME TypeInv, Processes(Client), air[Server].op # "INDICATION"
  PROVE  GateKept
<1> PICK p : p = air[Server]
  OBVIOUS
<1>1. /\ UNCHANGED <<up, pc, todo>>
      /\ air'[Server] = NoPdu /\ air'[Client] = air[Client]
  BY Taken DEF Other
<1>2. ClientProcesses(p) /\ UNCHANGED serverVars /\ HandlerRuns(Client)
  BY DEF Processes, Other
<1>3. UNCHANGED lost /\ (UNCHANGED queue \/ \E next : Queue(Client, DiscoverReq(next)))
  BY <1>2 DEF ClientProcesses, ClientDiscovers, eventVars
<1>4. preempted'[Server] = preempted[Server]
  BY <1>2, HandlerElsewhere
<1>5. PICK r : r.op \in Requests /\ (UNCHANGED queue \/ Queue(Client, r))
  <2>1. \A next : DiscoverReq(next).op = "DISCOVER_REQ"
    BY DEF DiscoverReq, Pdu
  <2> QED BY <1>3, <2>1 DEF Requests
<1>6. queue'[Server] = queue[Server]
  BY <1>5, QueueAppends
<1>7. /\ Moved(queue[Client], air[Client], queue'[Client], air'[Client], {"CONFIRMATION"})
      /\ Moved(queue[Server], air[Server], queue'[Server], air'[Server], {"INDICATION"})
  <2>1. Moved(queue[Client], air[Client], queue'[Client], air'[Client], {"CONFIRMATION"})
    <3>1. CASE UNCHANGED queue
      BY <3>1, <1>1, MovedNot
    <3>2. CASE Queue(Client, r)
      BY <3>2, <1>1, <1>5, GateQueued, RequestsNoIndication
    <3> QED BY <3>1, <3>2, <1>5
  <2>2. Moved(queue[Server], air[Server], queue'[Server], air'[Server], {"INDICATION"})
    BY <1>1, <1>6, MovedTaken, NoneIsNone
  <2> QED BY <2>1, <2>2
<1>8. IndicationsOut' = IndicationsOut
  <2>1. 0 \notin IndicationsOut
    BY DEF IndicationsOut, Places, At
  <2>2. Places(queue[Server], NoPdu, {"INDICATION"}) = IndicationsOut \ {0}
    BY PlacesTaken, NoneIsNone DEF IndicationsOut
  <2>3. IndicationsOut' = IndicationsOut \ {0}
    BY <2>2, <1>1, <1>6 DEF IndicationsOut
  <2> QED BY <2>1, <2>3
<1> QED BY <1>1, <1>2, <1>3, <1>4, <1>7, <1>8 DEF GateKept, GateMoved, serverVars

\* ... and all but a confirmation that the server gets, leave the gate.
LEMMA ServerResponds ==
  ASSUME NEW p, ServerProcesses(p), p.op # "CONFIRMATION"
  PROVE  /\ UNCHANGED pending
         /\ \/ UNCHANGED <<queue, lost>>
            \/ \E r : r.op \in Responses /\ Answers(Server, r)
<1>1. \A op \in {"READ_RSP", "WRITE_RSP", "ERROR_RSP"} : Plain(op).op = op
  BY DEF Plain, Pdu
<1>2. \A kind, entries : DiscoverRsp(kind, entries).op = "DISCOVER_RSP"
  BY DEF DiscoverRsp, Pdu
<1>3. CASE p.op = "READ_REQ"
  <2>1. \E rsp \in {Plain("READ_RSP"), Error} : Answers(Server, rsp)
    BY <1>3 DEF ServerProcesses, Writes, CccdWrites
  <2>2. UNCHANGED serverVars
    BY <1>3 DEF ServerProcesses, Writes, CccdWrites
  <2>3. Plain("READ_RSP").op \in Responses /\ Error.op \in Responses
    BY <1>1 DEF Error, Responses
  <2> QED BY <2>1, <2>2, <2>3 DEF serverVars
<1>4. CASE p.op \in Writes
  <2>1. UNCHANGED pending /\ ServesWrite(p.op)
    BY <1>4 DEF ServerProcesses, Writes, CccdWrites
  <2>2. Answers(Server, Plain("WRITE_RSP")) \/ Answers(Server, Error)
    BY <2>1 DEF ServesWrite
  <2>3. Plain("WRITE_RSP").op \in Responses /\ Error.op \in Responses
    BY <1>1 DEF Error, Responses
  <2> QED BY <2>1, <2>2, <2>3
<1>5. CASE p.op = "DISCOVER_REQ"
  BY <1>1, <1>2, <1>5 DEF ServerProcesses, serverVars, Error, Responses, Writes, CccdWrites
<1>6. CASE p.op = "COMMAND"
  BY <1>6 DEF ServerProcesses, serverVars, Writes, CccdWrites
<1> QED BY <1>3, <1>4, <1>5, <1>6 DEF ServerProcesses

LEMMA ServerProcessesGate ==
  ASSUME TypeInv, Processes(Server), air[Client].op # "CONFIRMATION"
  PROVE  GateKept
<1> PICK p : p = air[Client]
  OBVIOUS
<1>1. /\ UNCHANGED <<up, pc, todo>>
      /\ air'[Client] = NoPdu /\ air'[Server] = air[Server]
  BY Taken DEF Other
<1>2. ServerProcesses(p) /\ HandlerRuns(Server)
  BY DEF Processes, Other
<1>3. /\ UNCHANGED pending
      /\ UNCHANGED <<queue, lost>> \/ \E r : r.op \in Responses /\ Answers(Server, r)
  BY <1>2, ServerResponds
<1>4. queue'[Client] = queue[Client] /\ lost'[Client] = lost[Client]
  BY <1>3, Answered
<1>5. Moved(queue[Client], air[Client], queue'[Client], air'[Client], {"CONFIRMATION"})
  BY <1>1, <1>4, MovedTaken, NoneIsNone
<1>6. Moved(queue[Server], air[Server], queue'[Server], air'[Server], {"INDICATION"})
  <2>1. CASE UNCHANGED queue
    BY <2>1, <1>1, MovedNot
  <2>2. CASE \E r : r.op \in Responses /\ Queue(Server, r)
    BY <2>2, <1>1, GateQueued, RequestsNoIndication
  <2> QED BY <2>1, <2>2, <1>3, Answered
<1> QED BY <1>1, <1>2, <1>3, <1>4, <1>5, <1>6 DEF GateKept, GateMoved

\* An indication that arrives is the one under way: its confirmation takes its
\* place, or is lost.
LEMMA Indicated ==
  ASSUME TypeInv, GateInv, Processes(Client), air[Server].op = "INDICATION"
  PROVE  GateInv' /\ (ClosedInv => ClosedInv')
<1>1. /\ up /\ up' /\ UNCHANGED <<pc, todo>>
      /\ air'[Server] = NoPdu /\ air'[Client] = air[Client] /\ queue[Server] \in Seq(Pdus)
  BY Taken DEF Other
<1>2. /\ Answers(Client, Plain("CONFIRMATION")) /\ UNCHANGED <<subscribed, pending>>
      /\ HandlerRuns(Client)
  BY DEF Processes, Other, ClientProcesses, Finishes, serverVars
<1>3. queue'[Server] = queue[Server] /\ preempted'[Server] = preempted[Server]
  BY <1>2, Answered, HandlerElsewhere
<1>4. 0 \in IndicationsOut /\ ConfirmationsOut = {}
  BY <1>1, PlacesAir DEF IndicationsOut, GateInv
<1>5. IndicationsOut' = {}
  <2>1. Places(queue[Server], NoPdu, {"INDICATION"}) = {}
    BY <1>1, TakenAlone, NoneIsNone DEF GateInv, IndicationsOut
  <2> QED BY <2>1, <1>1, <1>3 DEF IndicationsOut
<1>6. ~NoIndication
  BY <1>4 DEF NoIndication
<1>7. pending \/ \E c \in Callers : pc[Server][c] = "mark"
  BY <1>1, <1>6 DEF GateInv
<1>8. ClosedInv => \A c \in Callers :
        pc[Server][c] = "mark" /\ ~lost[Client] => preempted[Server] # 0
  BY <1>1, <1>4 DEF ClosedInv
<1>9. \/ \E k : ConfirmationsOut' = {k} /\ UNCHANGED lost
      \/ ConfirmationsOut' = {} /\ lost'[Client]
  <2> PICK r : r = Plain("CONFIRMATION")
    OBVIOUS
  <2>1. CASE Queue(Client, r) /\ UNCHANGED lost
    <3>0. PICK ops : ops = {"CONFIRMATION"}
      OBVIOUS
    <3>1. r.op \in ops
      BY <3>0 DEF Plain, Pdu
    <3>2. Places(queue[Client], air[Client], ops) = {}
      BY <1>4, <3>0 DEF ConfirmationsOut
    <3>3. \E k : Places(queue'[Client], air'[Client], ops) = {k}
      BY <2>1, <3>1, <3>2, <1>1, FirstQueued
    <3> QED BY <2>1, <3>0, <3>3 DEF ConfirmationsOut
  <2>2. CASE UNCHANGED queue /\ lost'[Client]
    BY <2>2, <1>1, <1>4 DEF ConfirmationsOut
  <2> QED BY <1>2, <2>1, <2>2, Answered
<1>10. GateInv'
  BY <1>1, <1>2, <1>5, <1>7, <1>9 DEF GateInv, AtMostOne, NoIndication
<1>11. ClosedInv => ClosedInv'
  BY <1>1, <1>2, <1>3, <1>8, <1>9 DEF ClosedInv, NoIndication
<1> QED BY <1>10, <1>11

\* A confirmation that arrives is that of the last indication, and opens the
\* gate; no call there is about to close it.
LEMMA ConfirmedGate ==
  ASSUME TypeInv, GateInv, Processes(Server), air[Client].op = "CONFIRMATION"
  PROVE  GateInv' /\ NoIndication' /\ ConfirmationsOut # {} /\ IndicationsOut = {}
         /\ pending' = FALSE /\ HandlerRuns(Server) /\ UNCHANGED <<up, pc, lost>> /\ up
<1>1. /\ up /\ up' /\ UNCHANGED <<pc, todo>>
      /\ air'[Client] = NoPdu /\ air'[Server] = air[Server] /\ queue[Client] \in Seq(Pdus)
  BY Taken DEF Other
<1>2. UNCHANGED <<queue, lost>> /\ pending' = FALSE /\ HandlerRuns(Server)
  BY DEF Processes, Other, ServerProcesses, Writes, CccdWrites
<1>3. 0 \in ConfirmationsOut /\ IndicationsOut = {}
  BY <1>1, PlacesAir DEF ConfirmationsOut, GateInv
<1>4. ConfirmationsOut' = {}
  <2>1. Places(queue[Client], NoPdu, {"CONFIRMATION"}) = {}
    BY <1>1, TakenAlone, NoneIsNone DEF GateInv, ConfirmationsOut
  <2> QED BY <2>1, <1>1, <1>2 DEF ConfirmationsOut
<1>5. IndicationsOut' = {}
  BY <1>1, <1>2, <1>3 DEF IndicationsOut
<1>6. GateInv'
  BY <1>2, <1>4, <1>5 DEF GateInv, AtMostOne, NoIndication
<1> QED BY <1>1, <1>2, <1>3, <1>4, <1>5, <1>6 DEF NoIndication

LEMMA ConfirmedClosed ==
  ASSUME MaxPreempt <= 1, TypeInv, GateInv, ClosedInv, Processes(Server),
         air[Client].op = "CONFIRMATION"
  PROVE  ClosedInv'
<1> SUFFICES ASSUME ~lost[Client], NEW c \in Callers, pc[Server][c] = "mark" PROVE FALSE
  BY ConfirmedGate DEF ClosedInv
<1>1. up /\ HandlerRuns(Server) /\ IndicationsOut = {}
  BY ConfirmedGate
<1>2. preempted[Server] = 0
  BY <1>1, HandlerOnce
<1> QED BY <1>1, <1>2 DEF ClosedInv

\* The calls that indicate.
LEMMA ServerCallsGate ==
  ASSUME SingleCaller, TypeInv, GateInv, NEW c \in Callers, ServerTests(c) \/ ServerCalls(c)
  PROVE  GateInv' /\ (ClosedInv => ClosedInv')
<1>1. CASE ServerTests(c)
  <2>1. UNCHANGED <<up, queue, air, lost, pending>> /\ ~pending /\ up
    BY <1>1 DEF ServerTests, MayIndicate, linkVars, serverVars, eventVars
  <2>2. \A d \in Callers : pc[Server][d] = "idle" /\ pc'[Server][d] = "queue"
    BY <1>1 DEF ServerTests, Enters, TypeInv, TypeOK, SingleCaller
  <2>3. NoIndication
    BY <2>1, <2>2 DEF GateInv
  <2>4. NoIndication'
    BY <2>1, <2>3, GateStill
  <2> QED BY <2>1, <2>2, <2>4 DEF GateInv, ClosedInv, NoIndication, AtMostOne
<1>2. CASE ServerQueues(c)
  <2>1. UNCHANGED <<up, air, lost, pending>> /\ pc[Server][c] = "queue"
    BY <1>2 DEF ServerQueues, serverVars, eventVars
  <2> SUFFICES ASSUME up PROVE GateInv' /\ ClosedInv'
    BY <2>1 DEF GateInv, ClosedInv
  <2>2. ~pending /\ \A d \in Callers : pc[Server][d] = "queue"
    BY <2>1 DEF GateInv, SingleCaller
  <2>3. NoIndication
    BY <2>2 DEF GateInv
  <2>4. CASE Room(Server)
    <3> PICK p : p = todo[Server][c]
      OBVIOUS
    <3>1. Queue(Server, p) /\ p.op \in {"INDICATION"}
      BY <1>2, <2>1, <2>4 DEF ServerQueues, TypeInv, ServerTodo, Plain, Pdu
    <3>2. \A d \in Callers : pc'[Server][d] = "mark"
      BY <1>2, <2>4 DEF ServerQueues, Enters, TypeInv, TypeOK, SingleCaller
    <3>3. Places(queue[Server], air[Server], {"INDICATION"}) = {}
      BY <2>3 DEF NoIndication, IndicationsOut
    <3>4. PICK k : Places(queue'[Server], air'[Server], {"INDICATION"}) = {k} /\ k # 0
      BY <2>1, <3>1, <3>3, FirstQueued
    <3>5. IndicationsOut' = {k} /\ k # 0
      BY <3>4 DEF IndicationsOut
    <3>6. queue'[Client] = queue[Client]
      BY <3>1, QueueAppends
    <3>7. ConfirmationsOut' = {}
      BY <3>6, <2>1, <2>3 DEF NoIndication, ConfirmationsOut
    <3>8. GateInv'
      BY <3>2, <3>5, <3>7 DEF GateInv, AtMostOne
    <3>9. ClosedInv'
      BY <3>2, <3>5, <2>1, <2>2 DEF ClosedInv, NoIndication
    <3> QED BY <3>8, <3>9
  <2>5. CASE ~Room(Server)
    <3>1. UNCHANGED queue /\ \A d \in Callers : pc'[Server][d] = "idle"
      BY <1>2, <2>5 DEF ServerQueues, Returns, TypeInv, TypeOK, SingleCaller
    <3>2. NoIndication'
      BY <3>1, <2>1, <2>3, GateStill
    <3> QED BY <3>1, <3>2, <2>1, <2>2 DEF GateInv, ClosedInv, NoIndication, AtMostOne
  <2> QED BY <2>4, <2>5
<1>3. CASE ServerMarks(c)
  <2>1. UNCHANGED <<up, queue, air, lost>> /\ pending' /\ pc[Server][c] = "mark"
    BY <1>3 DEF ServerMarks, linkVars, eventVars
  <2>2. \A d \in Callers : pc'[Server][d] = "idle"
    BY <1>3 DEF ServerMarks, Returns, TypeInv, TypeOK, SingleCaller
  <2>3. GateInv'
    BY <2>1, <2>2, GateStill DEF GateInv
  <2>4. ASSUME ClosedInv PROVE ClosedInv'
    BY <2>1, <2>2, <2>4, GateStill DEF ClosedInv
  <2> QED BY <2>3, <2>4
<1> QED BY <1>1, <1>2, <1>3 DEF ServerCalls

LEMMA NextGate ==
  ASSUME SingleCaller, TypeInv, GateInv, [Next]_vars
  PROVE  GateInv' /\ (MaxPreempt <= 1 /\ ClosedInv => ClosedInv')
<1>0. ASSUME GateKept PROVE GateInv' /\ (MaxPreempt <= 1 /\ ClosedInv => ClosedInv')
  BY <1>0, KeptGate, KeptClosed
<1>1. CASE UNCHANGED vars
  <2>1. UNCHANGED <<queue, air, up, pending, lost, pc, preempted>>
    BY <1>1 DEF vars, linkVars, serverVars, callVars, eventVars
  <2> QED BY <2>1, <1>0, GateStill DEF GateKept
<1>2. CASE \E c \in Callers : ClientCalls(c) \/ \E pdu \in Asked : ClientTests(c, pdu)
  BY <1>2, <1>0, ClientCallsGate
<1>3. CASE \E c \in Callers : ServerTests(c) \/ ServerCalls(c)
  BY <1>3, ServerCallsGate
<1>4. CASE ClientCommands \/ ServerNotifies
  BY <1>4, <1>0, CommandNotifyGate
<1>5. CASE \E n \in Node : Transmits(n)
  BY <1>5, <1>0, TransmitsGate
<1>6. CASE Processes(Client)
  <2>1. CASE air[Server].op = "INDICATION"
    BY <1>6, <2>1, Indicated
  <2>2. CASE air[Server].op # "INDICATION"
    BY <1>6, <2>2, <1>0, ClientProcessesGate
  <2> QED BY <2>1, <2>2
<1>7. CASE Processes(Server)
  <2>1. CASE air[Client].op = "CONFIRMATION"
    BY <1>7, <2>1, ConfirmedGate, ConfirmedClosed
  <2>2. CASE air[Client].op # "CONFIRMATION"
    BY <1>7, <2>2, <1>0, ServerProcessesGate
  <2> QED BY <2>1, <2>2
<1>8. CASE Disconnect
  BY <1>8 DEF Disconnect, GateInv, ClosedInv
<1> QED BY <1>1, <1>2, <1>3, <1>4, <1>5, <1>6, <1>7, <1>8 DEF Next

-----------------------------------------------------------------------------
(***************************************************************************)
(* Theorems.                                                               *)
(***************************************************************************)

\* The inductive invariants together.
LEMMA Invariants ==
  ASSUME SingleCaller
  PROVE  Spec => [](TypeInv /\ QuietInv /\ CallInv /\ GateInv)
<1> DEFINE Inv == TypeInv /\ QuietInv /\ CallInv /\ GateInv
<1>1. Init => Inv
  <2> SUFFICES ASSUME Init PROVE Inv
    OBVIOUS
  <2>1. IndicationsOut = {} /\ ConfirmationsOut = {}
    BY NoPlaces, NoneIsNone DEF Init, IndicationsOut, ConfirmationsOut
  <2>2. GateInv
    BY <2>1 DEF Init, GateInv, NoIndication, AtMostOne
  <2> QED BY <2>2, InitTypeInv, InitCall DEF Init, QuietInv
<1>2. Inv /\ [Next]_vars => Inv'
  BY NextTypeInv, NextQuiet, NextCall, NextGate
<1> QED BY <1>1, <1>2, PTL DEF Spec

LEMMA PreemptedInvariants ==
  ASSUME SingleCaller, MaxPreempt <= 1
  PROVE  Spec => [](TypeInv /\ QuietInv /\ CallInv /\ GateInv /\ BusyInv /\ ClosedInv)
<1> DEFINE Inv == TypeInv /\ QuietInv /\ CallInv /\ GateInv
<1>1. Init => BusyInv /\ ClosedInv
  BY DEF Init, BusyInv, ClosedInv
<1>2. Inv /\ BusyInv /\ ClosedInv /\ [Next]_vars => BusyInv' /\ ClosedInv'
  BY NextBusy, NextGate
<1>3. Spec => []Inv
  BY Invariants
<1> QED BY <1>1, <1>2, <1>3, PTL DEF Spec

\* What is one at most is none or one.
LEMMA CountOne ==
  ASSUME NEW S, AtMostOne(S)
  PROVE  Cardinality(S) = IF S = {} THEN 0 ELSE 1
<1>1. CASE S = {}
  BY <1>1, FS_EmptySet
<1>2. CASE S # {}
  <2>1. PICK x : x \in S
    BY <1>2
  <2>2. S = {x}
    BY <2>1 DEF AtMostOne
  <2> QED BY <1>2, <2>2, FS_Singleton
<1> QED BY <1>1, <1>2

LEMMA UnderPlaces ==
  ASSUME NEW n \in Node, NEW ops
  PROVE  /\ On(n, ops) = Places(queue[n], air[n], ops)
         /\ Under(n, ops) = Cardinality(Places(queue[n], air[n], ops))
BY DEF Under, On, PduAt, Places, At

\* The client is busy exactly while one request or its response is under way,
\* once its call has returned and unless the server had no room to answer.  The
\* premises are those under which the code promises it: one context calls at
\* each end (two may both find the client idle), and of the handlers of an end
\* one runs at most within a call there (a second may process the response
\* before the call has renamed the procedure of its write).
THEOREM ProcedureUnderWayHolds ==
  ASSUME SingleCaller, MaxPreempt <= 1
  PROVE  Spec => []ProcedureUnderWay
<1>1. ASSUME TypeInv, CallInv, BusyInv PROVE ProcedureUnderWay
  <2> SUFFICES ASSUME up, ~lost[Server], ~CallActive(Client)
               PROVE  RequestsUnder + ResponsesUnder = IF Busy THEN 1 ELSE 0
    BY DEF ProcedureUnderWay
  <2>1. OneCall /\ LostInv
    BY <1>1 DEF CallInv
  <2>2. Busy <=> ~NoCall
    BY <1>1, <2>1 DEF Busy, LostInv, BusyInv, CallActive
  <2>3. /\ RequestsUnder = IF RequestsOut = {} THEN 0 ELSE 1
        /\ ResponsesUnder = IF ResponsesOut = {} THEN 0 ELSE 1
    BY <2>1, UnderPlaces, CountOne
       DEF OneCall, RequestsUnder, ResponsesUnder, RequestsOut, ResponsesOut
  <2> QED BY <2>1, <2>2, <2>3 DEF OneCall, NoCall
<1>2. Spec => [](TypeInv /\ QuietInv /\ CallInv /\ GateInv /\ BusyInv /\ ClosedInv)
  BY PreemptedInvariants
<1> QED BY <1>1, <1>2, PTL

\* One indication or confirmation is under way at most, and the gate of
\* indications is closed exactly while one is.
THEOREM IndicationGateHolds ==
  ASSUME SingleCaller, MaxPreempt <= 1
  PROVE  Spec => []IndicationGate
<1>1. ASSUME TypeInv, QuietInv, GateInv, ClosedInv PROVE IndicationGate
  <2>1. ~up => NoIndication
    BY <1>1, NoPlaces, NoneIsNone
       DEF QuietInv, NoIndication, IndicationsOut, ConfirmationsOut
  <2>2. /\ AtMostOne(IndicationsOut) /\ AtMostOne(ConfirmationsOut)
        /\ IndicationsOut = {} \/ ConfirmationsOut = {}
    BY <1>1, <2>1 DEF GateInv, NoIndication, AtMostOne
  <2>3. /\ Under(Server, {"INDICATION"}) = Cardinality(IndicationsOut)
        /\ Under(Client, {"CONFIRMATION"}) = Cardinality(ConfirmationsOut)
    BY UnderPlaces DEF IndicationsOut, ConfirmationsOut
  <2>4. /\ Cardinality(IndicationsOut) = IF IndicationsOut = {} THEN 0 ELSE 1
        /\ Cardinality(ConfirmationsOut) = IF ConfirmationsOut = {} THEN 0 ELSE 1
    BY <2>2, CountOne
  <2>5. up /\ ~lost[Client] /\ ~CallActive(Server) => (pending <=> ~NoIndication)
    BY <1>1 DEF GateInv, ClosedInv, CallActive
  <2> QED BY <2>2, <2>3, <2>4, <2>5 DEF IndicationGate, Unconfirmed, NoIndication
<1>2. Spec => [](TypeInv /\ QuietInv /\ CallInv /\ GateInv /\ BusyInv /\ ClosedInv)
  BY PreemptedInvariants
<1> QED BY <1>1, <1>2, PTL

-----------------------------------------------------------------------------
(***************************************************************************)
(* Remote calls.                                                           *)
(***************************************************************************)

KindsIn(q, a, ops) ==
    [i \in 1 .. Cardinality(Places(q, a, ops)) |->
        Kind(At(q, a, Nth(Places(q, a, ops), i)).op)]

Called == KindsIn(queue[Client], air[Client], Requests)
Returned == KindsIn(queue[Server], air[Server], Responses)
Served == IF up /\ lost[Server] THEN <<"DROPPED">> \o Returned ELSE Returned

LEMMA KindsNone ==
  ASSUME NEW q, NEW a, NEW ops, Places(q, a, ops) = {}
  PROVE  KindsIn(q, a, ops) = <<>>
BY FS_EmptySet DEF KindsIn

LEMMA KindsOne ==
  ASSUME NEW q \in Seq(Pdus), NEW a, NEW ops, NEW k, Places(q, a, ops) = {k}
  PROVE  KindsIn(q, a, ops) = <<Kind(At(q, a, k).op)>>
<1> PICK S : S = Places(q, a, ops)
  OBVIOUS
<1>1. S \in SUBSET (0 .. Len(q)) /\ Len(q) \in Nat
  BY DEF Places
<1>2. S = {k} /\ Cardinality(S) = 1
  BY FS_Singleton
<1>3. Nth(S, 1) = k
  <2> PICK N : N = Len(q)
    OBVIOUS
  <2>1. N \in Nat /\ S \in SUBSET (0 .. N) /\ 1 \in 1 .. Cardinality(S)
    BY <1>1, <1>2
  <2>2. Nth(S, 1) \in S
    BY <2>1, NthType, Zenon
  <2> QED BY <2>2, <1>2
<1>4. KindsIn(q, a, ops) = [i \in 1 .. 1 |-> Kind(At(q, a, Nth(S, i)).op)]
  BY <1>2 DEF KindsIn
<1> QED BY <1>3, <1>4

LEMMA KindsMoved ==
  ASSUME NEW q \in Seq(Pdus), NEW a, NEW r \in Seq(Pdus), NEW b, NEW ops,
         Moved(q, a, r, b, ops), AtMostOne(Places(q, a, ops))
  PROVE  KindsIn(r, b, ops) = KindsIn(q, a, ops)
<1>1. CASE Places(q, a, ops) = {}
  <2>1. Places(r, b, ops) = {}
    BY <1>1 DEF Moved
  <2> QED BY <1>1, <2>1, KindsNone
<1>2. CASE Places(q, a, ops) # {}
  <2>1. PICK i : i \in Places(r, b, ops)
    BY <1>2 DEF Moved
  <2>2. PICK j \in Places(q, a, ops) : At(r, b, i) = At(q, a, j)
    BY <2>1 DEF Moved
  <2>3. Places(q, a, ops) = {j}
    BY DEF AtMostOne
  <2>4. Places(r, b, ops) = {i}
    BY <2>1 DEF Moved, AtMostOne
  <2>5. KindsIn(q, a, ops) = <<Kind(At(q, a, j).op)>>
    BY <2>3, KindsOne
  <2>6. KindsIn(r, b, ops) = <<Kind(At(r, b, i).op)>>
    BY <2>4, KindsOne
  <2> QED BY <2>2, <2>5, <2>6
<1> QED BY <1>1, <1>2

\* The mapping of the refinement.
LEMMA Mapping ==
  /\ KindsOn(Client, Requests) = Called
  /\ KindsOn(Server, Responses) = Returned
BY DEF KindsOn, Under, On, PduAt, Called, Returned, KindsIn, Places, At

\* What a step does to the calls.
NoStep == up' = up /\ Called' = Called /\ Served' = Served
BeginStep ==
    /\ Called = <<>> /\ Served = <<>>
    /\ \E k \in {"READ", "WRITE", "DISCOVER"} : Called' = <<k>>
    /\ Served' = Served
ServeStep ==
    /\ Called # <<>> /\ Called' = Tail(Called)
    /\ \E result \in {Head(Called), "ERROR", "DROPPED"} : Served' = <<result>>
AgainStep == Served = <<"DISCOVER">> /\ Called' = Served /\ Served' = <<>>
ReturnStep ==
    /\ Served \notin {<<>>, <<"DROPPED">>} /\ Served' = <<>>
    /\ Called' = Called
DownStep == up /\ up' = FALSE /\ Called' = <<>> /\ Served' = <<>>
CallStep ==
    NoStep \/ (up /\ up' = up /\ (BeginStep \/ ServeStep \/ AgainStep \/ ReturnStep)) \/ DownStep

LEMMA KeptSteps ==
  ASSUME TypeInv, TypeInv', QuietInv, CallInv, CallKept
  PROVE  NoStep
<1>1. AtMostOne(RequestsOut) /\ AtMostOne(ResponsesOut)
  <2>1. CASE up
    BY <2>1 DEF CallInv, OneCall
  <2>2. CASE ~up
    <3>1. RequestsOut = {} /\ ResponsesOut = {}
      BY <2>2, NoPlaces, NoneIsNone DEF QuietInv, RequestsOut, ResponsesOut
    <3> QED BY <3>1 DEF AtMostOne
  <2> QED BY <2>1, <2>2
<1>2. \A n \in Node : queue[n] \in Seq(Pdus) /\ queue'[n] \in Seq(Pdus)
  BY DEF TypeInv, TypeOK
<1>3. /\ KindsIn(queue'[Client], air'[Client], Requests) = Called
      /\ KindsIn(queue'[Server], air'[Server], Responses) = Returned
  BY <1>1, <1>2, KindsMoved
     DEF CallKept, CallMoved, RequestsOut, ResponsesOut, Called, Returned
<1>4. Called' = Called /\ Returned' = Returned
  BY <1>3 DEF Called, Returned
<1> QED BY <1>4 DEF NoStep, Served, CallKept

LEMMA StillSteps ==
  ASSUME UNCHANGED <<up, queue, air>>, lost'[Server] = lost[Server]
  PROVE  NoStep
BY DEF NoStep, Called, Served, Returned

LEMMA ClientCallsSteps ==
  ASSUME TypeInv, CallInv, NEW c \in Callers,
         ClientCalls(c) \/ \E pdu \in Asked : ClientTests(c, pdu)
  PROVE  CallStep
<1>1. UNCHANGED <<up, air, lost>>
  BY DEF ClientCalls, ClientTests, ClientRecords, ClientQueues, ClientMarksCccd, linkVars,
         eventVars
<1>2. CASE UNCHANGED queue
  BY <1>1, <1>2, StillSteps DEF CallStep
<1>3. CASE pc[Client][c] = "queue" /\ Room(Client) /\ Queue(Client, todo[Client][c])
  <2> PICK p : p = todo[Client][c]
    OBVIOUS
  <2>1. p.op \in Requests /\ up
    BY <1>3 DEF TypeInv, ClientTodo, Room
  <2>2. RequestsOut = {} /\ ResponsesOut = {} /\ ~lost[Server]
    BY <1>3, <2>1 DEF CallInv, StepInv, NoCall
  <2>3. Called = <<>> /\ Returned = <<>>
    BY <2>2, KindsNone DEF Called, Returned, RequestsOut, ResponsesOut
  <2>4. PICK k : /\ Places(queue'[Client], air'[Client], Requests) = {k}
                 /\ At(queue'[Client], air'[Client], k) = p
    BY <1>1, <1>3, <2>1, <2>2, FirstQueued DEF RequestsOut
  <2>5. queue'[Client] \in Seq(Pdus) /\ queue'[Server] = queue[Server]
    BY <1>3 DEF Queue, TypeInv, TypeOK, ClientTodo
  <2>6. KindsIn(queue'[Client], air'[Client], Requests) = <<Kind(p.op)>>
    BY <2>4, <2>5, KindsOne
  <2>7. Called' = <<Kind(p.op)>> /\ Returned' = Returned
    BY <1>1, <2>5, <2>6 DEF Called, Returned
  <2>8. Kind(p.op) \in {"READ", "WRITE", "DISCOVER"}
    BY <2>1 DEF Kind, Requests
  <2> QED BY <1>1, <2>1, <2>2, <2>3, <2>7, <2>8 DEF CallStep, BeginStep, Served
<1> QED BY <1>2, <1>3 DEF ClientCalls, ClientTests, ClientRecords, ClientQueues,
                          ClientMarksCccd, linkVars

\* The server serves the call that it gets with a result of its kind or an
\* error, or drops it.
LEMMA ServesSteps ==
  ASSUME TypeInv, TypeInv', CallInv, Processes(Server), air[Client].op \in Requests
  PROVE  ServeStep /\ up /\ up'
<1> PICK p : p = air[Client]
  OBVIOUS
<1>1. /\ up /\ up' /\ p \in Pdus /\ air'[Client] = NoPdu /\ air'[Server] = air[Server]
  BY Taken DEF Other
<1>2. ServerProcesses(p)
  BY DEF Processes, Other
<1>3. /\ Places(queue[Client], NoPdu, Requests) = {} /\ ResponsesOut = {} /\ Fits(p, proc)
      /\ ~lost[Server]
  BY <1>1, RequestArrives
<1>4. PICK r \in Pdus : Answers(Server, r) /\ r.op \in Responses /\ Fits(r, proc)
  BY <1>1, <1>2, <1>3, ServerAnswers
<1>5. Kind(r.op) \in {Kind(p.op), "ERROR"}
  <2>1. /\ r.op = "DISCOVER_RSP" => r.ask.kind \in Discoveries
        /\ p.op = "DISCOVER_REQ" => p.ask.kind \in Discoveries
    BY <1>1, PduFields DEF Asks
  <2> QED BY <1>3, <1>4, <2>1
          DEF Fits, Kind, Requests, Responses, Writes, CccdWrites, Discoveries
<1>a. /\ \A n \in Node : queue[n] \in Seq(Pdus) /\ queue'[n] \in Seq(Pdus)
      /\ queue'[Client] = queue[Client]
  BY <1>4, Answered DEF TypeInv, TypeOK
<1>6. Called = <<Kind(p.op)>>
  <2>1. Places(queue[Client], air[Client], Requests) = {0}
    <3>1. AtMostOne(Places(queue[Client], air[Client], Requests))
      BY <1>1 DEF CallInv, OneCall, RequestsOut
    <3> QED BY <3>1, <1>a, PlacesAir DEF AtMostOne
  <2>2. KindsIn(queue[Client], air[Client], Requests)
            = <<Kind(At(queue[Client], air[Client], 0).op)>>
    BY <2>1, <1>a, KindsOne
  <2> QED BY <2>2 DEF Called, At
<1>7. Called' = <<>>
  <2>1. KindsIn(queue'[Client], air'[Client], Requests) = <<>>
    BY <1>1, <1>3, <1>a, KindsNone
  <2> QED BY <2>1 DEF Called
<1>8. \E result \in {Kind(p.op), "ERROR", "DROPPED"} : Served' = <<result>>
  <2>0. Places(queue[Server], air[Server], Responses) = {}
    BY <1>3 DEF ResponsesOut
  <2>1. CASE Queue(Server, r) /\ UNCHANGED lost
    <3>1. PICK k : /\ Places(queue'[Server], air'[Server], Responses) = {k}
                   /\ At(queue'[Server], air'[Server], k) = r
      BY <1>1, <1>4, <2>0, <2>1, FirstQueued
    <3>2. KindsIn(queue'[Server], air'[Server], Responses) = <<Kind(r.op)>>
      BY <1>a, <3>1, KindsOne
    <3>3. Served' = <<Kind(r.op)>>
      BY <1>3, <2>1, <3>2 DEF Served, Returned
    <3> QED BY <3>3, <1>5
  <2>2. CASE UNCHANGED queue /\ lost'[Server]
    <3>1. KindsIn(queue'[Server], air'[Server], Responses) = <<>>
      BY <1>1, <2>0, <2>2, KindsNone
    <3>2. Served' = <<"DROPPED">> \o <<>>
      BY <1>1, <2>2, <3>1 DEF Served, Returned
    <3> QED BY <3>2
  <2> QED BY <1>4, <2>1, <2>2, Answered
<1> QED BY <1>1, <1>6, <1>7, <1>8 DEF ServeStep

\* A response returns the call, or a discovery calls again.
LEMMA ReturnsSteps ==
  ASSUME TypeInv, TypeInv', CallInv, Processes(Client), air[Server].op \in Responses
  PROVE  (AgainStep \/ ReturnStep) /\ up /\ up'
<1> PICK p : p = air[Server]
  OBVIOUS
<1>1. /\ up /\ up' /\ p \in Pdus /\ air'[Server] = NoPdu /\ air'[Client] = air[Client]
  BY Taken DEF Other
<1>2. ClientProcesses(p)
  BY DEF Processes, Other
<1>3. /\ Places(queue[Server], NoPdu, Responses) = {} /\ RequestsOut = {} /\ Fits(p, proc)
      /\ ~lost[Server]
  BY <1>1, ResponseArrives
<1>a. \A n \in Node : queue[n] \in Seq(Pdus) /\ queue'[n] \in Seq(Pdus)
  BY DEF TypeInv, TypeOK
<1>4. Served = <<Kind(p.op)>>
  <2>1. Places(queue[Server], air[Server], Responses) = {0}
    <3>1. AtMostOne(Places(queue[Server], air[Server], Responses))
      BY <1>1 DEF CallInv, OneCall, ResponsesOut
    <3> QED BY <3>1, <1>a, PlacesAir DEF AtMostOne
  <2>2. KindsIn(queue[Server], air[Server], Responses)
            = <<Kind(At(queue[Server], air[Server], 0).op)>>
    BY <2>1, <1>a, KindsOne
  <2> QED BY <2>2, <1>3 DEF Served, Returned, At
<1>5. Called = <<>>
  BY <1>3, KindsNone DEF Called, RequestsOut
<1>6. \/ UNCHANGED <<queue, lost>>
      \/ /\ p.op = "DISCOVER_RSP" /\ UNCHANGED lost
         /\ \E next : Queue(Client, DiscoverReq(next))
  BY <1>1, <1>2, <1>3, ResponseExpected
     DEF ClientProcesses, ClientDiscovers, Responses, Finishes, eventVars
<1>7. ASSUME queue'[Server] = queue[Server], UNCHANGED lost PROVE Served' = <<>>
  <2>1. KindsIn(queue'[Server], air'[Server], Responses) = <<>>
    BY <1>1, <1>3, <1>7, KindsNone
  <2> QED BY <2>1, <1>3, <1>7 DEF Served, Returned
<1>8. CASE UNCHANGED <<queue, lost>>
  <2>1. Called' = Called
    BY <1>1, <1>8 DEF Called
  <2>2. Kind(p.op) # "DROPPED"
    BY DEF Kind
  <2>3. Served \notin {<<>>, <<"DROPPED">>}
    BY <1>4, <2>2
  <2> QED BY <1>1, <1>7, <1>8, <2>1, <2>3 DEF ReturnStep
<1>9. CASE /\ p.op = "DISCOVER_RSP" /\ UNCHANGED lost
           /\ \E next : Queue(Client, DiscoverReq(next))
  <2>1. PICK r : Queue(Client, r) /\ r.op = "DISCOVER_REQ" /\ r.op \in Requests
    BY <1>9 DEF DiscoverReq, Pdu, Requests
  <2>2. PICK k : /\ Places(queue'[Client], air'[Client], Requests) = {k}
                 /\ At(queue'[Client], air'[Client], k) = r
    BY <1>1, <1>3, <2>1, FirstQueued DEF RequestsOut
  <2>3. KindsIn(queue'[Client], air'[Client], Requests) = <<Kind(r.op)>>
    BY <1>a, <2>2, KindsOne
  <2>4. Kind("DISCOVER_REQ") = "DISCOVER" /\ Kind("DISCOVER_RSP") = "DISCOVER"
    BY DEF Kind, Writes, CccdWrites
  <2>5. Called' = <<"DISCOVER">> /\ Served = <<"DISCOVER">>
    BY <1>4, <1>9, <2>1, <2>3, <2>4 DEF Called
  <2>6. queue'[Server] = queue[Server]
    BY <2>1, QueueAppends
  <2> QED BY <1>1, <1>7, <1>9, <2>5, <2>6 DEF AgainStep
<1> QED BY <1>6, <1>8, <1>9

LEMMA NextSteps ==
  ASSUME TypeInv, TypeInv', QuietInv, CallInv, [Next]_vars
  PROVE  CallStep
<1>0. ASSUME CallKept PROVE CallStep
  BY <1>0, KeptSteps DEF CallStep
<1>1. CASE UNCHANGED vars
  BY <1>0, <1>1, StillKept
<1>2. CASE \E c \in Callers : ClientCalls(c) \/ \E pdu \in Asked : ClientTests(c, pdu)
  BY <1>2, ClientCallsSteps
<1>3. CASE \E c \in Callers : ServerTests(c) \/ ServerCalls(c)
  BY <1>0, <1>3, ServerCallsKept
<1>4. CASE ClientCommands \/ ServerNotifies
  BY <1>0, <1>4, CommandNotifyKept
<1>5. CASE \E n \in Node : Transmits(n)
  BY <1>0, <1>5, TransmitsKept
<1>6. CASE Processes(Client)
  <2>1. CASE air[Server].op \in Responses
    <3>1. (AgainStep \/ ReturnStep) /\ up /\ up'
      BY <1>6, <2>1, ReturnsSteps
    <3>2. up' = up
      BY <3>1 DEF TypeInv, TypeOK
    <3> QED BY <3>1, <3>2 DEF CallStep
  <2>2. CASE air[Server].op \notin Responses
    BY <1>0, <1>6, <2>2, ClientProcessesKept
  <2> QED BY <2>1, <2>2
<1>7. CASE Processes(Server)
  <2>1. CASE air[Client].op \in Requests
    <3>1. ServeStep /\ up /\ up'
      BY <1>7, <2>1, ServesSteps
    <3>2. up' = up
      BY <3>1 DEF TypeInv, TypeOK
    <3> QED BY <3>1, <3>2 DEF CallStep
  <2>2. CASE air[Client].op \notin Requests
    BY <1>0, <1>7, <2>2, ServerProcessesKept
  <2> QED BY <2>1, <2>2
<1>8. CASE Disconnect
  <2>1. up /\ ~up' /\ up' = FALSE
    BY <1>8 DEF Disconnect
  <2>2. \A n \in Node : queue'[n] = <<>> /\ air'[n] = NoPdu
    BY <1>8 DEF Disconnect
  <2>3. /\ KindsIn(queue'[Client], air'[Client], Requests) = <<>>
        /\ KindsIn(queue'[Server], air'[Server], Responses) = <<>>
    BY <2>2, NoPlaces, NoneIsNone, KindsNone
  <2>4. Called' = <<>> /\ Served' = <<>>
    BY <2>1, <2>3 DEF Called, Served, Returned
  <2> QED BY <2>1, <2>4 DEF CallStep, DownStep
<1> QED BY <1>1, <1>2, <1>3, <1>4, <1>5, <1>6, <1>7, <1>8 DEF Next

\* Requests and responses implement remote calls made one at a time, each
\* answered by a response of its kind or an error, whatever the handlers do
\* within a call, if one context calls at each end.
THEOREM CallImplemented ==
  ASSUME SingleCaller
  PROVE  Spec => ImplementsCall
<1>1. Init => Call!Init
  <2> SUFFICES ASSUME Init PROVE Call!Init
    OBVIOUS
  <2>1. Called = <<>> /\ Returned = <<>>
    BY NoPlaces, NoneIsNone, KindsNone DEF Init, Called, Returned
  <2>2. KindsOn(Client, Requests) = <<>> /\ KindsOn(Server, Responses) = <<>>
    BY <2>1, Mapping
  <2> QED BY <2>2 DEF Call!Init, Init
<1>2. ASSUME TypeInv, TypeInv', QuietInv, CallInv, [Next]_vars
      PROVE  [Call!Next]_<<up, KindsOn(Client, Requests),
                           IF up /\ lost[Server]
                           THEN <<"DROPPED">> \o KindsOn(Server, Responses)
                           ELSE KindsOn(Server, Responses)>>
  <2>1. CallStep
    BY <1>2, NextSteps
  <2>2. KindsOn(Client, Requests) = Called /\ KindsOn(Client, Requests)' = Called'
    BY DEF KindsOn, Under, On, PduAt, Called, KindsIn, Places, At
  <2>3. KindsOn(Server, Responses) = Returned /\ KindsOn(Server, Responses)' = Returned'
    BY DEF KindsOn, Under, On, PduAt, Returned, KindsIn, Places, At
  <2> QED BY <2>1, <2>2, <2>3
          DEF CallStep, NoStep, BeginStep, ServeStep, AgainStep, ReturnStep, DownStep, Served,
              Call!Next, Call!Begin, Call!Serve, Call!CallAgain, Call!Return, Call!Kinds
<1>3. Spec => [](TypeInv /\ QuietInv /\ CallInv /\ GateInv)
  BY Invariants
<1> QED BY <1>1, <1>2, <1>3, PTL DEF Spec, ImplementsCall, Call!Spec

-----------------------------------------------------------------------------
(***************************************************************************)
(* What a discovery finds.                                                 *)
(***************************************************************************)

\* Entries are what ask is after, in the order of the table.
Sound(ask, entries) ==
    /\ \A i \in DOMAIN entries :
           /\ entries[i].handle \in AllWanted(ask)
           /\ entries[i] = Entry(ask.kind, entries[i].handle)
    /\ \A i, j \in DOMAIN entries : i < j => entries[i].handle < entries[j].handle

\* They lie before x, and are all there is before x.
Searched(ask, entries, x) ==
    /\ \A i \in DOMAIN entries : entries[i].handle < x
    /\ Grouped(ask) =>
           \A h \in AllWanted(ask) :
               h < x => \E i \in DOMAIN entries : entries[i].handle = h

\* r asks for what ask does, from another handle on.
GoesOn(r, ask) ==
    /\ ask \in Asks /\ r \in Asks /\ r = [ask EXCEPT !.first = r.first]
    /\ ask.first <= r.first

\* What has been reported is sound, and complete when it is said to be, ...
FoundInv ==
    sought # NoAsk =>
        /\ Sound(sought, found)
        /\ complete /\ ~cut => Reported(sought, found) \/ ~Grouped(sought)

\* ... a discovery in progress has searched what lies before its range, ...
SearchInv ==
    proc \in Discoveries =>
        ~complete /\ GoesOn(range, sought) /\ Searched(sought, found, range.first)

\* ... what answers a request for ask is what lies in its range, ...
Answer(ask, p) ==
    /\ p.op = "DISCOVER_RSP" =>
           \E first \in AllWanted(ask) :
               /\ \A h \in AllWanted(ask) : first <= h
               /\ p.entries = Response(ask, first)
    /\ p.op = "ERROR_RSP" => AllWanted(ask) = {}

\* ... and that is what it asks for and is answered.
PathInv ==
    up /\ proc \in Discoveries =>
        /\ \A i \in RequestsOut : At(queue[Client], air[Client], i).ask = range
        /\ \A i \in ResponsesOut : Answer(range, At(queue[Server], air[Server], i))
        /\ \A c \in Callers : pc[Client][c] = "queue" => todo[Client][c].ask = range

DiscoverInv == FoundInv /\ SearchInv /\ PathInv

-----------------------------------------------------------------------------
(***************************************************************************)
(* The order of what the server finds.                                     *)
(***************************************************************************)

\* Fewer numbers of S lie up to a smaller one of S.
LEMMA FewerBelow ==
  ASSUME NEW N \in Nat, NEW S \in SUBSET (0 .. N), NEW x \in S, NEW y \in S, x < y
  PROVE  /\ Cardinality({z \in S : z <= x}) \in 1 .. Cardinality(S)
         /\ Cardinality({z \in S : z <= x}) < Cardinality({z \in S : z <= y})
<1> DEFINE A == {z \in S : z <= x}
           B == {z \in S : z <= y}
<1>1. IsFiniteSet(S) /\ Cardinality(S) \in Nat
  <2>1. IsFiniteSet(0 .. N)
    BY FS_Interval
  <2> QED BY <2>1, FS_Subset, FS_CardinalityType
<1>2. x \in Nat /\ y \in Nat /\ \A z \in S : z \in Nat
  OBVIOUS
<1>3. A \subseteq B /\ B \subseteq S /\ A # B /\ x \in A
  <2>1. \A z \in S : z <= x => z <= y
    BY <1>2
  <2>2. x <= x /\ y <= y /\ ~ y <= x
    BY <1>2
  <2>3. x \in A /\ y \in B /\ y \notin A
    BY <2>2
  <2>4. A \subseteq B
    BY <2>1
  <2> HIDE DEF A
  <2> QED BY <2>3, <2>4
<1> HIDE DEF A, B
<1>4. IsFiniteSet(A) /\ IsFiniteSet(B)
  BY <1>1, <1>3, FS_Subset
<1>5. Cardinality(A) \in Nat /\ Cardinality(A) # 0 /\ Cardinality(B) \in Nat
  BY <1>3, <1>4, FS_CardinalityType, FS_EmptySet
<1>6. Cardinality(A) <= Cardinality(B) /\ Cardinality(A) # Cardinality(B)
  BY <1>3, <1>4, FS_Subset
<1>7. Cardinality(B) <= Cardinality(S)
  BY <1>1, <1>3, FS_Subset
<1>8. Cardinality(A) \in 1 .. Cardinality(S) /\ Cardinality(A) < Cardinality(B)
  BY <1>1, <1>5, <1>6, <1>7
<1> QED BY <1>8 DEF A, B

\* Nth goes through S in order, and misses none.
LEMMA NthOrder ==
  ASSUME NEW N \in Nat, NEW S \in SUBSET (0 .. N)
  PROVE  /\ \A i, j \in 1 .. Cardinality(S) : i < j => Nth(S, i) < Nth(S, j)
         /\ \A n \in 1 .. Cardinality(S), x \in S :
                x <= Nth(S, n) => \E i \in 1 .. n : Nth(S, i) = x
<1> DEFINE Below(x) == {z \in S : z <= x}
<1>0. \A x \in S : x \in Nat
  OBVIOUS
<1>1. \A i \in 1 .. Cardinality(S) : Nth(S, i) \in S /\ Cardinality(Below(Nth(S, i))) = i
  BY NthType
<1>2. \A x, y \in S : x < y => /\ Cardinality(Below(x)) \in 1 .. Cardinality(S)
                               /\ Cardinality(Below(x)) < Cardinality(Below(y))
  BY FewerBelow
<1>3. Cardinality(S) \in Nat
  <2>1. IsFiniteSet(0 .. N)
    BY FS_Interval
  <2> QED BY <2>1, FS_Subset, FS_CardinalityType
<1> HIDE DEF Below
<1>4. ASSUME NEW i \in 1 .. Cardinality(S), NEW j \in 1 .. Cardinality(S), i < j
      PROVE  Nth(S, i) < Nth(S, j)
  <2> PICK x \in S, y \in S : x = Nth(S, i) /\ y = Nth(S, j)
    BY <1>1
  <2>1. Cardinality(Below(x)) = i /\ Cardinality(Below(y)) = j
    BY <1>1
  <2>2. ~ y < x /\ x # y
    BY <2>1, <1>2, <1>3, <1>4
  <2> QED BY <2>2, <1>0
<1>5. ASSUME NEW n \in 1 .. Cardinality(S), NEW x \in S, x <= Nth(S, n)
      PROVE  \E i \in 1 .. n : Nth(S, i) = x
  <2> PICK y \in S : y = Nth(S, n)
    BY <1>1
  <2>1. Cardinality(Below(y)) = n
    BY <1>1
  <2>2. CASE x = y
    BY <2>2, <1>3
  <2>3. CASE x # y
    <3>1. x < y
      BY <2>3, <1>0, <1>5
    <3> PICK i : i = Cardinality(Below(x))
      OBVIOUS
    <3>2. i \in 1 .. Cardinality(S) /\ i < n
      BY <3>1, <2>1, <1>2
    <3> PICK z \in S : z = Nth(S, i)
      BY <3>2, <1>1
    <3>3. Cardinality(Below(z)) = i
      BY <3>2, <1>1
    <3>4. ~ z < x /\ ~ x < z
      BY <3>2, <3>3, <1>2, <1>3
    <3>5. z = x
      BY <3>4, <1>0
    <3>6. i \in 1 .. n
      BY <3>2, <1>3
    <3> QED BY <3>5, <3>6
  <2> QED BY <2>2, <2>3
<1> QED BY <1>4, <1>5

\* No service begins between a service and its end.
LEMMA ServiceEndLast ==
  ASSUME NEW h \in 1 .. Len(Table), NEW g \in 1 .. Len(Table), h < g, g <= ServiceEnd(h)
  PROVE  ~IsService(g)
<1> DEFINE later == {k \in h + 1 .. Len(Table) : IsService(k)}
<1> SUFFICES ASSUME IsService(g) PROVE FALSE
  OBVIOUS
<1>1. g \in later
  BY TableLen
<1>2. later \in SUBSET Nat
  BY TableLen
<1>3. \E f \in later : \A k \in later : f <= k
  <2> HIDE DEF later
  <2> QED BY <1>1, <1>2, Least
<1> DEFINE f == CHOOSE f \in later : \A k \in later : f <= k
<1>4. f \in later /\ f <= g
  <2>1. f \in later /\ \A k \in later : f <= k
    BY <1>3, Zenon
  <2> HIDE DEF f, later
  <2> QED BY <2>1, <1>1
<1>5. ServiceEnd(h) = f - 1
  BY <1>1 DEF ServiceEnd
<1> HIDE DEF f, later
<1> QED BY <1>2, <1>4, <1>5, TableLen

\* A response holds what lies in the range, from its beginning to the end of
\* the last entry, in order: all of it if no entry of another length lies
\* between.
LEMMA ResponseSearches ==
  ASSUME NEW ask \in Asks, NEW first \in AllWanted(ask),
         \A h \in AllWanted(ask) : first <= h,
         NEW entries, entries = Response(ask, first)
  PROVE  /\ Sound(ask, entries)
         /\ Searched(ask, entries, Last(entries).end + 1)
<1> DEFINE S == Alike(ask, first)
           m == Len(entries)
<1>1. entries \in Seq(Entries) /\ m \in Nat \ {0} /\ DOMAIN entries = 1 .. m
  BY ResponseType
<1>2. S \in SUBSET (1 .. Len(Table)) /\ S \subseteq AllWanted(ask)
  BY DEF Alike, AllWanted
<1>3. S \in SUBSET (0 .. Len(Table)) /\ Len(Table) \in Nat
  BY <1>2, TableLen
<1>4. IsFiniteSet(S) /\ Cardinality(S) \in Nat
  <2>1. IsFiniteSet(0 .. Len(Table))
    BY TableLen, FS_Interval
  <2> HIDE DEF S
  <2> QED BY <2>1, <1>3, FS_Subset, FS_CardinalityType
<1>5. m <= Cardinality(S) /\ \A i \in 1 .. m : entries[i] = Entry(ask.kind, Nth(S, i))
  <2> DEFINE room == Fitting(ask, first)
             k == IF room < Cardinality(S) THEN room ELSE Cardinality(S)
  <2>1. room \in Nat
    BY MtuAssumption DEF Fitting, HeaderLen, EntryLen, Asks, Discoveries
  <2>2. entries = [i \in 1 .. k |-> Entry(ask.kind, Nth(S, i))]
    BY DEF Response
  <2>3. k \in Nat /\ k <= Cardinality(S)
    BY <2>1, <1>4
  <2> HIDE DEF k, S
  <2>4. DOMAIN entries = 1 .. k /\ \A i \in 1 .. k : entries[i] = Entry(ask.kind, Nth(S, i))
    BY <2>2
  <2>5. m = k
    BY <2>3, <2>4, <1>1
  <2> QED BY <2>3, <2>4, <2>5
<1> HIDE DEF S
<1>6. \A i \in 1 .. m : /\ Nth(S, i) \in S
                        /\ entries[i].handle = Nth(S, i)
                        /\ entries[i] = Entry(ask.kind, entries[i].handle)
  <2> TAKE i \in 1 .. m
  <2>1. i \in 1 .. Cardinality(S)
    BY <1>1, <1>4, <1>5
  <2>2. Nth(S, i) \in S
    BY <2>1, <1>3, NthType
  <2>3. Nth(S, i) \in 1 .. Len(Table)
    BY <2>2, <1>2
  <2>4. Entry(ask.kind, Nth(S, i)).handle = Nth(S, i)
    BY <2>3, EntryType
  <2> QED BY <2>2, <2>4, <1>5
<1>7. ASSUME NEW i \in 1 .. m, NEW j \in 1 .. m, i < j
      PROVE  entries[i].handle < entries[j].handle
  <2>1. i \in 1 .. Cardinality(S) /\ j \in 1 .. Cardinality(S)
    BY <1>1, <1>4, <1>5
  <2>2. Nth(S, i) < Nth(S, j)
    BY <2>1, <1>3, <1>7, NthOrder
  <2> QED BY <2>2, <1>6
<1>8. Sound(ask, entries)
  BY <1>1, <1>2, <1>6, <1>7 DEF Sound
<1> DEFINE last == entries[m]
<1>9. /\ m \in 1 .. m /\ last = Last(entries)
      /\ last.handle \in S /\ last.handle = Nth(S, m) /\ last.handle \in 1 .. Len(Table)
      /\ last = Entry(ask.kind, last.handle)
  <2>1. m \in 1 .. m
    BY <1>1
  <2>2. last = Last(entries)
    BY DEF Last
  <2>3. last.handle \in 1 .. Len(Table)
    BY <2>1, <1>2, <1>6
  <2> QED BY <2>1, <2>2, <2>3, <1>6
<1>10. last.end \in last.handle .. Len(Table)
  BY <1>9, ServiceEndType DEF Entry
<1> HIDE DEF last
<1>a. \A i \in 1 .. m : entries[i].handle \in Nat
  <2> TAKE i \in 1 .. m
  <2>1. Nth(S, i) \in 1 .. Len(Table) /\ entries[i].handle = Nth(S, i)
    BY <1>2, <1>6
  <2> QED BY <2>1, <1>3
<1>11. \A i \in 1 .. m : entries[i].handle \in Nat /\ entries[i].handle <= last.handle
  <2> TAKE i \in 1 .. m
  <2>1. entries[i].handle \in Nat /\ last.handle \in Nat
    BY <1>a, <1>9, <1>3
  <2>2. CASE i = m
    BY <2>1, <2>2 DEF last
  <2>3. CASE i # m
    <3> PICK l : l = m
      OBVIOUS
    <3>0. l \in Nat \ {0} /\ i \in 1 .. l /\ i # l
      BY <2>3, <1>1
    <3>1. i < m /\ m \in 1 .. m
      <4>1. i < l /\ l \in 1 .. l
        BY <3>0
      <4> QED BY <4>1
    <3>2. entries[i].handle < entries[m].handle
      BY <3>1, <1>7
    <3>3. entries[i].handle < last.handle
      BY <3>2 DEF last
    <3> QED BY <2>1, <3>3
  <2> QED BY <2>2, <2>3
<1>12. \A i \in 1 .. m : entries[i].handle < last.end + 1
  BY <1>9, <1>10, <1>11
<1>13. ASSUME NEW h \in AllWanted(ask), h < last.end + 1 PROVE h <= last.handle
  <2>0. h \in 1 .. Len(Table) /\ last.handle \in AllWanted(ask)
    BY <1>2, <1>9 DEF AllWanted
  <2>1. CASE ask.kind \in {"services", "servicesByUuid"}
    <3>1. IsService(h)
      BY <2>0, <2>1 DEF AllWanted, Wanted
    <3>2. last.end = ServiceEnd(last.handle)
      BY <2>1, <1>9 DEF Entry
    <3>3. ~(last.handle < h /\ h <= ServiceEnd(last.handle))
      BY <2>0, <3>1, <1>9, ServiceEndLast
    <3> QED BY <2>0, <3>2, <3>3, <1>9, <1>10, <1>13
  <2>2. CASE ask.kind \notin {"services", "servicesByUuid"}
    <3>1. last.end = last.handle
      BY <2>2, <1>9 DEF Entry
    <3> QED BY <2>0, <3>1, <1>9, <1>13
  <2> QED BY <2>1, <2>2
<1>14. ASSUME Grouped(ask), NEW h \in AllWanted(ask), h <= last.handle
       PROVE  \E i \in 1 .. m : entries[i].handle = h
  <2>0. first <= h /\ h \in Nat /\ first \in Nat /\ last.handle \in Nat
    BY <1>9, TableLen DEF AllWanted
  <2>1. h \in S
    <3>1. last.handle \in AllWanted(ask) /\ Wide(ask.kind, last.handle) = Wide(ask.kind, first)
      BY <1>9 DEF S, Alike
    <3>2. CASE h = first \/ h = last.handle
      BY <3>1, <3>2 DEF S, Alike
    <3>3. CASE h # first /\ h # last.handle
      <4>1. first < h /\ h < last.handle
        BY <2>0, <3>3, <1>14
      <4>2. Wide(ask.kind, h) = Wide(ask.kind, first)
        BY <3>1, <4>1, <1>14 DEF Grouped
      <4> QED BY <4>2 DEF S, Alike
    <3> QED BY <3>2, <3>3
  <2>2. m \in 1 .. Cardinality(S)
    BY <1>1, <1>4, <1>5
  <2>3. \E i \in 1 .. m : Nth(S, i) = h
    <3>1. h <= Nth(S, m)
      BY <1>9, <1>14
    <3> PICK N : N = Len(Table)
      OBVIOUS
    <3>2. N \in Nat /\ S \in SUBSET (0 .. N)
      BY <1>3
    <3> QED BY <2>1, <2>2, <3>1, <3>2, NthOrder, Zenon
  <2> QED BY <2>3, <1>6
<1>15. Searched(ask, entries, last.end + 1)
  BY <1>1, <1>12, <1>13, <1>14 DEF Searched
<1> QED BY <1>8, <1>9, <1>15

\* A range begins and ends with a number.
LEMMA AskType ==
  ASSUME NEW ask \in Asks
  PROVE  /\ ask.kind \in Discoveries /\ ask.first \in Nat /\ ask.last \in Nat
         /\ \A x : /\ [ask EXCEPT !.first = x].kind = ask.kind
                  /\ [ask EXCEPT !.first = x].uuid = ask.uuid
                  /\ [ask EXCEPT !.first = x].first = x
                  /\ [ask EXCEPT !.first = x].last = ask.last
<1>1. ask.kind \in Discoveries /\ ask.first \in Handles /\ ask.last \in Handles
  BY DEF Asks
<1>2. Handles \subseteq Nat
  BY DEF Handles, MaxHandle
<1> PICK K, U, H : K = Discoveries /\ U = Uuids /\ H = Handles
  OBVIOUS
<1>3. ask \in [kind : K, uuid : U, first : H, last : H]
  BY DEF Asks
<1>4. \A x : /\ [ask EXCEPT !.first = x].kind = ask.kind
             /\ [ask EXCEPT !.first = x].uuid = ask.uuid
             /\ [ask EXCEPT !.first = x].first = x
             /\ [ask EXCEPT !.first = x].last = ask.last
  BY <1>3
<1> QED BY <1>1, <1>2, <1>4

\* What goes on asks for what is left.
LEMMA WantedLater ==
  ASSUME NEW ask, NEW r, GoesOn(r, ask)
  PROVE  /\ r.kind = ask.kind /\ r.last = ask.last
         /\ AllWanted(r) = {h \in AllWanted(ask) : r.first <= h}
         /\ Grouped(ask) => Grouped(r)
<1>1. /\ r.kind = ask.kind /\ r.uuid = ask.uuid /\ r.last = ask.last
      /\ ask.first \in Nat /\ r.first \in Nat /\ ask.first <= r.first
  <2>1. /\ ask \in Asks /\ r \in Asks /\ r = [ask EXCEPT !.first = r.first]
        /\ ask.first <= r.first
    BY DEF GoesOn
  <2>2. /\ [ask EXCEPT !.first = r.first].kind = ask.kind
        /\ [ask EXCEPT !.first = r.first].uuid = ask.uuid
        /\ [ask EXCEPT !.first = r.first].last = ask.last
    BY <2>1, AskType
  <2> QED BY <2>1, <2>2, AskType
<1>2. \A h \in 1 .. Len(Table) : Wanted(r, h) <=> Wanted(ask, h) /\ r.first <= h
  <2> TAKE h \in 1 .. Len(Table)
  <2>1. h \in Nat
    BY TableLen
  <2>2. r.first <= h => ask.first <= h
    BY <1>1, <2>1
  <2> QED BY <1>1, <2>2 DEF Wanted
<1>3. AllWanted(r) = {h \in AllWanted(ask) : r.first <= h}
  BY <1>2 DEF AllWanted
<1>4. Grouped(ask) => Grouped(r)
  BY <1>1, <1>3 DEF Grouped
<1> QED BY <1>1, <1>3, <1>4

\* A response goes on from what has been found.
LEMMA SearchExtends ==
  ASSUME NEW ask, NEW r, GoesOn(r, ask), NEW f \in Seq(Entries), NEW e \in Seq(Entries),
         Sound(ask, f), Searched(ask, f, r.first),
         NEW x \in Nat, r.first <= x, Sound(r, e), Searched(r, e, x)
  PROVE  Sound(ask, f \o e) /\ Searched(ask, f \o e, x)
<1> PICK g : g = f \o e
  OBVIOUS
<1> PICK l, m : l = Len(f) /\ m = Len(e)
  OBVIOUS
<1>1. /\ l \in Nat /\ m \in Nat
      /\ DOMAIN f = 1 .. l /\ DOMAIN e = 1 .. m /\ DOMAIN g = 1 .. l + m
  OBVIOUS
<1>2. /\ \A i \in 1 .. l : g[i] = f[i] /\ f[i] \in Entries
      /\ \A i \in 1 .. m : g[l + i] = e[i] /\ e[i] \in Entries
  OBVIOUS
<1>3. \A h \in AllWanted(ask) : h \in Nat
  BY TableLen DEF AllWanted
<1>4. r.first \in Nat
  BY AskType DEF GoesOn
<1>5. r.kind = ask.kind /\ AllWanted(r) = {h \in AllWanted(ask) : r.first <= h}
  BY WantedLater
<1>6. /\ \A i \in 1 .. l : /\ f[i].handle \in AllWanted(ask) /\ f[i].handle < r.first
                           /\ f[i] = Entry(ask.kind, f[i].handle)
      /\ \A i, j \in 1 .. l : i < j => f[i].handle < f[j].handle
  BY <1>1 DEF Sound, Searched
<1>7. /\ \A i \in 1 .. m : /\ e[i].handle \in AllWanted(ask) /\ r.first <= e[i].handle
                           /\ e[i].handle < x /\ e[i] = Entry(ask.kind, e[i].handle)
      /\ \A i, j \in 1 .. m : i < j => e[i].handle < e[j].handle
  BY <1>1, <1>5 DEF Sound, Searched
\* An entry is an old one or a new one, and old ones come first.
<1>8. \A i \in 1 .. l + m : i \in 1 .. l \/ (~ i <= l /\ i - l \in 1 .. m /\ l + (i - l) = i)
  BY <1>1
<1>9. \A i \in 1 .. l + m : /\ g[i].handle \in AllWanted(ask) /\ g[i].handle < x
                            /\ g[i] = Entry(ask.kind, g[i].handle)
  <2> TAKE i \in 1 .. l + m
  <2>1. CASE i \in 1 .. l
    <3>1. f[i].handle \in Nat /\ f[i].handle < r.first
      BY <2>1, <1>3, <1>6
    <3>2. f[i].handle < x
      BY <3>1, <1>4
    <3> QED BY <2>1, <3>2, <1>2, <1>6
  <2>2. CASE i - l \in 1 .. m /\ l + (i - l) = i
    <3>1. g[i] = e[i - l]
      BY <2>2, <1>2
    <3> QED BY <2>2, <3>1, <1>7
  <2> QED BY <2>1, <2>2, <1>8
<1>10. ASSUME NEW i \in 1 .. l + m, NEW j \in 1 .. l + m, i < j
       PROVE  g[i].handle < g[j].handle
  <2>1. CASE i \in 1 .. l /\ j \in 1 .. l
    BY <2>1, <1>2, <1>6, <1>10
  <2>2. CASE i \in 1 .. l /\ j - l \in 1 .. m /\ l + (j - l) = j
    <3>1. g[i] = f[i] /\ g[j] = e[j - l]
      BY <2>2, <1>2
    <3>2. /\ f[i].handle \in Nat /\ e[j - l].handle \in Nat
          /\ f[i].handle < r.first /\ r.first <= e[j - l].handle
      BY <2>2, <1>3, <1>6, <1>7
    <3>3. f[i].handle < e[j - l].handle
      <4> PICK a \in Nat, b \in Nat : a = f[i].handle /\ b = e[j - l].handle
        BY <3>2
      <4> QED BY <3>2, <1>4
    <3> QED BY <3>1, <3>3
  <2>3. CASE /\ i - l \in 1 .. m /\ l + (i - l) = i /\ j - l \in 1 .. m /\ l + (j - l) = j
    <3>1. g[i] = e[i - l] /\ g[j] = e[j - l]
      BY <2>3, <1>2
    <3>2. i - l < j - l
      BY <1>1, <1>10
    <3> QED BY <2>3, <3>1, <3>2, <1>7
  <2>4. j \in 1 .. l => i \in 1 .. l
    BY <1>1, <1>10
  <2> QED BY <2>1, <2>2, <2>3, <2>4, <1>8
<1>11. Sound(ask, g)
  BY <1>1, <1>9, <1>10 DEF Sound
<1>12. ASSUME Grouped(ask), NEW h \in AllWanted(ask), h < x
       PROVE  \E i \in 1 .. l + m : g[i].handle = h
  <2>1. CASE h < r.first
    <3>1. PICK i \in 1 .. l : f[i].handle = h
      BY <2>1, <1>1, <1>12 DEF Searched
    <3>2. i \in 1 .. l + m /\ g[i] = f[i]
      BY <1>1, <1>2
    <3> QED BY <3>1, <3>2
  <2>2. CASE r.first <= h
    <3>1. Grouped(r) /\ h \in AllWanted(r)
      BY <2>2, <1>5, <1>12, WantedLater
    <3>2. PICK i \in 1 .. m : e[i].handle = h
      BY <3>1, <1>1, <1>12 DEF Searched
    <3>3. l + i \in 1 .. l + m /\ g[l + i] = e[i]
      BY <1>1, <1>2
    <3> QED BY <3>2, <3>3
  <2>3. h < r.first \/ r.first <= h
    BY <1>3, <1>4
  <2> QED BY <2>1, <2>2, <2>3
<1>13. Searched(ask, g, x)
  BY <1>1, <1>9, <1>12 DEF Searched
<1> QED BY <1>11, <1>13

\* What has been searched to the end is reported.
LEMMA SearchedAll ==
  ASSUME NEW ask, NEW entries, NEW x, Searched(ask, entries, x),
         \A h \in AllWanted(ask) : h < x
  PROVE  Reported(ask, entries) \/ ~Grouped(ask)
BY DEF Searched, Reported

-----------------------------------------------------------------------------
(***************************************************************************)
(* Discoveries are faithful.                                               *)
(***************************************************************************)

\* Until something is found nothing before the range is searched for.
LEMMA BeginsSearch ==
  ASSUME NEW ask \in Asks
  PROVE  GoesOn(ask, ask) /\ Sound(ask, <<>>) /\ Searched(ask, <<>>, ask.first)
<1>1. ask.first \in Nat /\ ask = [ask EXCEPT !.first = ask.first]
  <2>1. ask = [ask EXCEPT !.first = ask.first]
    BY DEF Asks
  <2> QED BY <2>1, AskType
<1>2. \A h \in AllWanted(ask) : ~ h < ask.first
  <2> TAKE h \in AllWanted(ask)
  <2>1. h \in Nat /\ ask.first <= h
    BY TableLen DEF AllWanted, Wanted
  <2> QED BY <1>1, <2>1
<1>3. DOMAIN <<>> = {}
  OBVIOUS
<1>4. GoesOn(ask, ask)
  BY <1>1 DEF GoesOn
<1> QED BY <1>2, <1>3, <1>4 DEF Sound, Searched

\* A discovery is none of the other procedures.
LEMMA NoDiscovery == {None, "READ", "WRITE", "CCCD"} \cap Discoveries = {}
BY DEF Discoveries

\* No discovery in progress leaves its findings as they are.
LEMMA OtherDiscover ==
  ASSUME FoundInv, proc' \notin Discoveries, UNCHANGED <<cut, sought, found, complete>>
  PROVE  DiscoverInv'
<1>1. FoundInv'
  BY DEF FoundInv, Sound, Reported, Grouped, AllWanted, Wanted
<1> QED BY <1>1 DEF DiscoverInv, SearchInv, PathInv

\* A step that moves what is under way keeps it what it was.
LEMMA KeptDiscover ==
  ASSUME DiscoverInv, CallKept, UNCHANGED <<range, findVars>>
  PROVE  DiscoverInv'
<1>1. UNCHANGED <<range, cut, sought, found, complete, proc, up>>
  BY DEF CallKept, findVars
<1>2. FoundInv' /\ SearchInv'
  <2>1. CASE proc \in Discoveries
    BY <1>1 DEF DiscoverInv, FoundInv, SearchInv
  <2>2. CASE proc \notin Discoveries
    BY <1>1, <2>2, OtherDiscover DEF DiscoverInv
  <2> QED BY <2>1, <2>2
<1>3. PathInv'
  <2> SUFFICES ASSUME up, proc \in Discoveries PROVE PathInv'
    BY <1>1 DEF PathInv
  <2>1. /\ \A i \in RequestsOut' : At(queue'[Client], air'[Client], i).ask = range
        /\ \A i \in ResponsesOut' : Answer(range, At(queue'[Server], air'[Server], i))
    BY DEF DiscoverInv, PathInv, CallKept, CallMoved, Moved, RequestsOut, ResponsesOut
  <2>2. \A c \in Callers : pc'[Client][c] = "queue" => todo'[Client][c].ask = range
    BY DEF DiscoverInv, PathInv, CallKept
  <2> QED BY <1>1, <2>1, <2>2 DEF PathInv
<1> QED BY <1>2, <1>3 DEF DiscoverInv

LEMMA ClientTestsDiscover ==
  ASSUME DiscoverInv, NEW c \in Callers, NEW pdu, ClientTests(c, pdu)
  PROVE  DiscoverInv'
<1>1. proc' \notin Discoveries /\ UNCHANGED <<cut, sought, found, complete>>
  BY NoDiscovery DEF ClientTests, Busy, clientVars, eventVars, findVars
<1> QED BY <1>1, OtherDiscover DEF DiscoverInv

\* A discovery begins.
LEMMA ClientRecordsDiscover ==
  ASSUME SingleCaller, TypeInv, CallInv', DiscoverInv, NEW c \in Callers, ClientRecords(c)
  PROVE  DiscoverInv'
<1> PICK p : p = todo[Client][c]
  OBVIOUS
<1>1. p \in Pdus /\ p.op \in Requests /\ proc' = ProcedureOf(p)
  BY DEF ClientRecords, TypeInv, ClientTodo
<1>2. CASE p.op = "DISCOVER_REQ"
  <2>1. /\ p.ask \in Asks /\ range' = p.ask /\ sought' = p.ask /\ found' = <<>>
        /\ complete' = FALSE
    BY <1>1, <1>2, PduFields DEF ClientRecords
  <2>2. FoundInv' /\ SearchInv'
    BY <2>1, BeginsSearch DEF FoundInv, SearchInv
  <2>3. \A d \in Callers : pc'[Client][d] = "queue" /\ todo'[Client][d] = p
    BY DEF ClientRecords, Enters, TypeInv, TypeOK, SingleCaller
  <2>4. up' => RequestsOut' = {} /\ ResponsesOut' = {}
    BY <2>3 DEF CallInv, StepInv, NoCall
  <2>5. PathInv'
    BY <2>1, <2>3, <2>4 DEF PathInv
  <2> QED BY <2>2, <2>5 DEF DiscoverInv
<1>3. CASE p.op # "DISCOVER_REQ"
  <2>1. proc' \notin Discoveries
    BY <1>1, <1>3, NoDiscovery DEF ProcedureOf
  <2>2. UNCHANGED <<cut, sought, found, complete>>
    BY <1>3 DEF ClientRecords, findVars
  <2> QED BY <2>1, <2>2, OtherDiscover DEF DiscoverInv
<1> QED BY <1>2, <1>3

\* Its request asks for its range.
LEMMA ClientQueuesDiscover ==
  ASSUME SingleCaller, TypeInv, CallInv, DiscoverInv, NEW c \in Callers, ClientQueues(c)
  PROVE  DiscoverInv'
<1> PICK p : p = todo[Client][c]
  OBVIOUS
<1>1. UNCHANGED <<up, air, cut, sought, found, complete>>
  BY DEF ClientQueues, eventVars, findVars
<1>2. CASE ~(Room(Client) /\ proc \in Discoveries)
  <2>1. proc' \notin Discoveries
    BY <1>2, NoDiscovery DEF ClientQueues, ClearProcedure, clientVars
  <2> QED BY <1>1, <2>1, OtherDiscover DEF DiscoverInv
<1>3. CASE Room(Client) /\ proc \in Discoveries
  <2>1. /\ up /\ Queue(Client, p) /\ proc' = proc /\ range' = range
        /\ pc[Client][c] = "queue"
    BY <1>3 DEF ClientQueues, clientVars, Room
  <2>2. /\ p.op \in Requests /\ p.ask = range
        /\ RequestsOut = {} /\ ResponsesOut = {}
    BY <2>1, <1>3 DEF TypeInv, ClientTodo, DiscoverInv, PathInv, CallInv, StepInv, NoCall
  <2>3. PICK k : /\ Places(queue'[Client], air'[Client], Requests) = {k}
                 /\ At(queue'[Client], air'[Client], k) = p
    BY <2>1, <2>2, <1>1, FirstQueued DEF RequestsOut
  <2>4. ResponsesOut' = {}
    BY <1>1, <2>1, <2>2, QueueAppends DEF ResponsesOut
  <2>5. \A d \in Callers : pc'[Client][d] # "queue"
    BY <1>3 DEF ClientQueues, Enters, Returns, TypeInv, TypeOK, SingleCaller
  <2>6. PathInv'
    <3>1. \A i \in RequestsOut' : At(queue'[Client], air'[Client], i).ask = range
      BY <2>2, <2>3 DEF RequestsOut
    <3> QED BY <2>1, <2>4, <2>5, <3>1 DEF PathInv
  <2>7. FoundInv' /\ SearchInv'
    BY <1>1, <1>3, <2>1 DEF DiscoverInv, FoundInv, SearchInv
  <2> QED BY <2>6, <2>7 DEF DiscoverInv
<1> QED BY <1>2, <1>3

LEMMA ClientMarksDiscover ==
  ASSUME DiscoverInv, NEW c \in Callers, ClientMarksCccd(c)
  PROVE  DiscoverInv'
BY OtherDiscover, NoDiscovery DEF DiscoverInv, ClientMarksCccd, eventVars, findVars

\* What the server answers is what lies in the range, or that nothing does.
LEMMA DiscoveryAnswered ==
  ASSUME NEW p, p.op = "DISCOVER_REQ", ServerProcesses(p)
  PROVE  \E r : Answers(Server, r) /\ r.op \in Responses /\ Answer(p.ask, r)
<1>1. /\ Error.op = "ERROR_RSP" /\ Error.op \in Responses
  BY DEF Error, Plain, Pdu, Responses
<1>2. CASE AllWanted(p.ask) = {} /\ Answers(Server, Error)
  <2>1. Answer(p.ask, Error)
    BY <1>1, <1>2 DEF Answer
  <2> QED BY <1>1, <1>2, <2>1
<1>3. ASSUME NEW first \in AllWanted(p.ask),
             \A h \in AllWanted(p.ask) : first <= h,
             Answers(Server, DiscoverRsp(p.ask.kind, Response(p.ask, first)))
      PROVE  \E r : Answers(Server, r) /\ r.op \in Responses /\ Answer(p.ask, r)
  <2> PICK r : r = DiscoverRsp(p.ask.kind, Response(p.ask, first))
    OBVIOUS
  <2>1. /\ r.op = "DISCOVER_RSP" /\ r.entries = Response(p.ask, first)
        /\ r.op \in Responses
    BY DEF DiscoverRsp, Pdu, Responses
  <2>2. Answer(p.ask, r)
    BY <1>3, <2>1 DEF Answer
  <2> QED BY <1>3, <2>1, <2>2
<1> QED BY <1>2, <1>3 DEF ServerProcesses, Writes, CccdWrites

LEMMA ServerProcessesDiscover ==
  ASSUME TypeInv, CallInv, DiscoverInv, Processes(Server)
  PROVE  DiscoverInv'
<1> PICK p : p = air[Client]
  OBVIOUS
<1>1. /\ up /\ up' /\ UNCHANGED <<pc, todo>> /\ p \in Pdus
      /\ air'[Client] = NoPdu /\ air'[Server] = air[Server]
  BY Taken DEF Other
<1>2. ServerProcesses(p) /\ UNCHANGED <<proc, range, findVars>>
  BY DEF Processes, Other, clientVars
<1>3. CASE p.op \notin Requests
  BY <1>2, <1>3, ServerProcessesKept, KeptDiscover
<1>4. CASE p.op \in Requests /\ proc \notin Discoveries
  BY <1>2, <1>4, OtherDiscover DEF DiscoverInv, findVars
<1>5. CASE p.op \in Requests /\ proc \in Discoveries
  <2>1. /\ Places(queue[Client], NoPdu, Requests) = {} /\ ResponsesOut = {} /\ Fits(p, proc)
        /\ \A c \in Callers : pc[Client][c] \notin {"set", "queue"}
    BY <1>1, <1>5, RequestArrives
  <2>2. p.op = "DISCOVER_REQ"
    BY <1>5, <2>1, NoDiscovery DEF Fits, Requests, Writes, CccdWrites
  <2>3. p.ask = range
    <3>1. 0 \in RequestsOut /\ At(queue[Client], air[Client], 0) = p
      BY <1>1, <1>5, Taken, PlacesAir DEF RequestsOut, Other
    <3> QED BY <1>1, <1>5, <3>1 DEF DiscoverInv, PathInv
  <2>4. PICK r : Answers(Server, r) /\ r.op \in Responses /\ Answer(range, r)
    BY <1>2, <2>2, <2>3, DiscoveryAnswered
  <2>5. RequestsOut' = {}
    BY <1>1, <2>1, <2>4, Answered DEF RequestsOut
  <2>6. \A i \in ResponsesOut' : Answer(range, At(queue'[Server], air'[Server], i))
    <3>1. CASE Queue(Server, r)
      <4>1. PICK k : /\ Places(queue'[Server], air'[Server], Responses) = {k}
                     /\ At(queue'[Server], air'[Server], k) = r
        BY <1>1, <2>1, <2>4, <3>1, FirstQueued DEF ResponsesOut
      <4> QED BY <2>4, <4>1 DEF ResponsesOut
    <3>2. CASE UNCHANGED queue
      BY <1>1, <2>1, <3>2 DEF ResponsesOut
    <3> QED BY <2>4, <3>1, <3>2, Answered
  <2>7. PathInv'
    BY <1>1, <1>2, <2>1, <2>5, <2>6 DEF PathInv
  <2>8. FoundInv' /\ SearchInv'
    BY <1>2, <1>5 DEF DiscoverInv, FoundInv, SearchInv, findVars
  <2> QED BY <2>7, <2>8 DEF DiscoverInv
<1> QED BY <1>3, <1>4, <1>5

\* The entries of a response continue what has been found.
LEMMA DiscoversOn ==
  ASSUME TypeInv, SearchInv, FoundInv, proc \in Discoveries,
         NEW first \in AllWanted(range), \A h \in AllWanted(range) : first <= h,
         NEW entries, entries = Response(range, first)
  PROVE  LET x == Last(entries).end + 1
         IN  /\ Sound(sought, found \o entries) /\ Searched(sought, found \o entries, x)
             /\ x \in Nat /\ range.first <= x /\ GoesOn(range, sought)
             /\ x = Last(entries).end + 1 /\ Last(entries).end \in Nat
<1> DEFINE last == Last(entries)
<1>1. range \in Asks /\ GoesOn(range, sought) /\ Searched(sought, found, range.first)
      /\ found \in Seq(Entries)
  BY DEF TypeInv, TypeOK, RangeInv, SearchInv
<1>2. sought # NoAsk
  <2>1. NoAsk.kind \notin Discoveries /\ sought.kind \in Discoveries
    BY <1>1, AskType, NoDiscovery DEF GoesOn, NoAsk
  <2> QED BY <2>1
<1>3. Sound(sought, found)
  BY <1>2 DEF FoundInv
<1>4. entries \in Seq(Entries) \ {<<>>}
  BY <1>1, ResponseType
<1>5. Sound(range, entries) /\ Searched(range, entries, last.end + 1)
  BY <1>1, ResponseSearches
<1>6. /\ last.handle \in Nat /\ last.end \in Nat /\ range.first <= last.handle
      /\ last.handle < last.end + 1
  <2> PICK i \in DOMAIN entries : last = entries[i]
    BY <1>4 DEF Last
  <2>1. last \in Entries
    BY <1>4
  <2>2. last.handle \in AllWanted(range) /\ last.handle < last.end + 1
    BY <1>5 DEF Sound, Searched
  <2> QED BY <2>1, <2>2, TableLen DEF Entries, AllWanted, Wanted
<1>7. range.first \in Nat
  BY <1>1, AskType
<1>8. last.end + 1 \in Nat /\ range.first <= last.end + 1
  <2> PICK h \in Nat, e \in Nat : h = last.handle /\ e = last.end
    BY <1>6
  <2> QED BY <1>6, <1>7
<1> HIDE DEF last
<1>9. /\ Sound(sought, found \o entries)
      /\ Searched(sought, found \o entries, last.end + 1)
  BY <1>1, <1>3, <1>4, <1>5, <1>8, SearchExtends
<1> QED BY <1>1, <1>6, <1>8, <1>9 DEF last

\* A discovery asks on from there, or has reported what there is.
LEMMA DiscoversDiscover ==
  ASSUME TypeInv, TypeInv', CallInv, DiscoverInv, Processes(Client),
         air[Server].op = "DISCOVER_RSP", proc = air[Server].ask.kind,
         ClientDiscovers(air[Server].entries)
  PROVE  DiscoverInv'
<1> PICK p : p = air[Server]
  OBVIOUS
<1> PICK entries : entries = p.entries
  OBVIOUS
<1>1. /\ up /\ up' /\ UNCHANGED <<pc, todo>> /\ p \in Pdus
      /\ air'[Server] = NoPdu /\ air'[Client] = air[Client]
  BY Taken DEF Other
<1>2. /\ Places(queue[Server], NoPdu, Responses) = {} /\ RequestsOut = {}
      /\ \A c \in Callers : pc[Client][c] \notin {"set", "queue"}
  BY <1>1, ResponseArrives DEF Responses
<1>3. proc \in Discoveries
  BY <1>1, PduFields
<1>4. PICK first \in AllWanted(range) : /\ \A h \in AllWanted(range) : first <= h
                                        /\ entries = Response(range, first)
  <2>1. 0 \in ResponsesOut /\ At(queue[Server], air[Server], 0) = p
    BY <1>1, Taken, PlacesAir DEF ResponsesOut, Other, Responses
  <2>2. Answer(range, p)
    BY <1>1, <1>3, <2>1 DEF DiscoverInv, PathInv
  <2> QED BY <2>2 DEF Answer
<1> PICK end, x : end = Last(entries).end /\ x = end + 1
  OBVIOUS
<1>5. /\ Sound(sought, found \o entries) /\ Searched(sought, found \o entries, x)
      /\ x \in Nat /\ range.first <= x /\ GoesOn(range, sought) /\ end \in Nat
  BY <1>3, <1>4, DiscoversOn DEF DiscoverInv
<1>6. found' = found \o entries /\ sought' = sought
  BY DEF ClientDiscovers
<1>7. CASE ClearProcedure /\ cut'
  <2>1. FoundInv'
    BY <1>5, <1>6, <1>7 DEF FoundInv
  <2> QED BY <1>7, <2>1, NoDiscovery DEF DiscoverInv, SearchInv, PathInv, ClearProcedure
<1>8. CASE ClearProcedure /\ end >= range.last
  <2>1. \A h \in AllWanted(sought) : h < x
    <3> TAKE h \in AllWanted(sought)
    <3>1. h \in Nat /\ h <= sought.last
      BY TableLen DEF AllWanted, Wanted
    <3>2. sought.last = range.last /\ range.last \in Nat
      BY <1>5, WantedLater, AskType DEF GoesOn
    <3> QED BY <1>5, <1>8, <3>1, <3>2
  <2>2. FoundInv'
    BY <1>5, <1>6, <2>1, SearchedAll DEF FoundInv
  <2> QED BY <1>8, <2>2, NoDiscovery DEF DiscoverInv, SearchInv, PathInv, ClearProcedure
<1>9. CASE /\ range' = [range EXCEPT !.first = x] /\ Queue(Client, DiscoverReq(range'))
           /\ UNCHANGED <<proc, complete, cut>>
  <2>1. range \in Asks /\ range' \in Asks
    BY <1>3, <1>9 DEF TypeInv, RangeInv
  <2>2. range'.first = x
    BY <1>9, <2>1, AskType
  <2>3. GoesOn(range', sought)
    <3>1. sought \in Asks /\ range = [sought EXCEPT !.first = range.first]
          /\ sought.first <= range.first
      BY <1>5 DEF GoesOn
    <3>2. sought.first \in Nat /\ range.first \in Nat
      BY <2>1, <3>1, AskType
    <3>3. sought.first <= x
      BY <1>5, <3>1, <3>2
    <3>4. range' = [sought EXCEPT !.first = x]
      BY <1>9, <3>1 DEF Asks
    <3> QED BY <2>1, <2>2, <3>1, <3>3, <3>4 DEF GoesOn
  <2>4. FoundInv' /\ SearchInv'
    BY <1>3, <1>5, <1>6, <1>9, <2>2, <2>3 DEF DiscoverInv, FoundInv, SearchInv
  <2>5. PathInv'
    <3> PICK r : r = DiscoverReq(range')
      OBVIOUS
    <3>1. r.op \in Requests /\ r.ask = range'
      BY DEF DiscoverReq, Pdu, Requests
    <3>2. PICK k : /\ Places(queue'[Client], air'[Client], Requests) = {k}
                   /\ At(queue'[Client], air'[Client], k) = r
      BY <1>1, <1>2, <1>9, <3>1, FirstQueued DEF RequestsOut
    <3>3. \A i \in RequestsOut' : At(queue'[Client], air'[Client], i).ask = range'
      BY <3>1, <3>2 DEF RequestsOut
    <3>4. ResponsesOut' = {}
      BY <1>1, <1>2, <1>9, QueueAppends DEF ResponsesOut
    <3> QED BY <1>1, <1>2, <3>3, <3>4 DEF PathInv
  <2> QED BY <2>4, <2>5 DEF DiscoverInv
<1> QED BY <1>7, <1>8, <1>9 DEF ClientDiscovers, NextFirst

LEMMA ClientProcessesDiscover ==
  ASSUME TypeInv, TypeInv', CallInv, DiscoverInv, Processes(Client)
  PROVE  DiscoverInv'
<1> PICK p : p = air[Server]
  OBVIOUS
<1>1. /\ up /\ up' /\ UNCHANGED <<pc, todo>> /\ p \in Pdus
      /\ air'[Server] = NoPdu /\ air'[Client] = air[Client]
  BY Taken DEF Other
<1>2. ClientProcesses(p)
  BY DEF Processes, Other
<1>3. CASE p.op \notin Responses
  <2>1. UNCHANGED <<range, findVars>>
    BY <1>2, <1>3 DEF ClientProcesses, Responses, Finishes, clientVars, eventVars
  <2> QED BY <1>3, <2>1, ClientProcessesKept, KeptDiscover
<1>4. CASE p.op \in Responses
  <2>1. Fits(p, proc)
    BY <1>1, <1>4, ResponseArrives
  <2>2. CASE p.op = "DISCOVER_RSP" /\ proc = p.ask.kind /\ ClientDiscovers(p.entries)
    BY <2>2, DiscoversDiscover
  <2>3. CASE Finishes(p.op) /\ ClearProcedure /\ UNCHANGED <<queue, eventVars>>
    BY <2>3, OtherDiscover, NoDiscovery DEF DiscoverInv, ClearProcedure, eventVars, findVars
  <2>4. CASE /\ p.op = "ERROR_RSP" /\ ClearProcedure
             /\ complete' = (complete \/ proc \in Discoveries)
             /\ UNCHANGED <<queue, lost, cut, sought, found>>
    <3>1. CASE proc \notin Discoveries
      <4>1. complete' = complete
        BY <2>4, <3>1 DEF TypeInv, TypeOK
      <4> QED BY <2>4, <4>1, OtherDiscover, NoDiscovery DEF DiscoverInv, ClearProcedure
    <3>2. CASE proc \in Discoveries
      <4>1. AllWanted(range) = {}
        <5>1. 0 \in ResponsesOut /\ At(queue[Server], air[Server], 0) = p
          BY <1>1, <1>4, Taken, PlacesAir DEF ResponsesOut, Other
        <5>2. Answer(range, p)
          BY <1>1, <3>2, <5>1 DEF DiscoverInv, PathInv
        <5> QED BY <2>4, <5>2 DEF Answer
      <4>2. GoesOn(range, sought) /\ Searched(sought, found, range.first)
        BY <3>2 DEF DiscoverInv, SearchInv
      <4>3. \A h \in AllWanted(sought) : h < range.first
        <5> TAKE h \in AllWanted(sought)
        <5>1. ~ range.first <= h
          BY <4>1, <4>2, WantedLater
        <5>2. h \in Nat /\ range.first \in Nat
          BY <4>2, TableLen, AskType DEF AllWanted, GoesOn
        <5> QED BY <5>1, <5>2
      <4>4. Reported(sought, found) \/ ~Grouped(sought)
        BY <4>2, <4>3, SearchedAll
      <4>5. FoundInv'
        BY <2>4, <4>4 DEF DiscoverInv, FoundInv, Sound
      <4> QED BY <2>4, <4>5, NoDiscovery
              DEF DiscoverInv, SearchInv, PathInv, ClearProcedure
    <3> QED BY <3>1, <3>2
  <2> QED BY <1>1, <1>2, <1>4, <2>1, <2>2, <2>3, <2>4, ResponseExpected
          DEF ClientProcesses, Responses, Finishes
<1> QED BY <1>3, <1>4

LEMMA NextDiscover ==
  ASSUME SingleCaller, TypeInv, TypeInv', CallInv, CallInv', DiscoverInv, [Next]_vars
  PROVE  DiscoverInv'
<1>1. CASE UNCHANGED vars
  BY <1>1, StillKept, KeptDiscover DEF vars, clientVars, eventVars
<1>2. CASE \E c \in Callers : ClientCalls(c) \/ \E pdu \in Asked : ClientTests(c, pdu)
  BY <1>2, ClientTestsDiscover, ClientRecordsDiscover, ClientQueuesDiscover,
     ClientMarksDiscover DEF ClientCalls
<1>3. CASE \E c \in Callers : ServerTests(c) \/ ServerCalls(c)
  <2>1. UNCHANGED <<range, findVars>>
    BY <1>3 DEF ServerTests, ServerCalls, ServerQueues, ServerMarks, clientVars, eventVars
  <2> QED BY <1>3, <2>1, ServerCallsKept, KeptDiscover
<1>4. CASE ClientCommands \/ ServerNotifies
  <2>1. UNCHANGED <<range, findVars>>
    BY <1>4 DEF ClientCommands, ServerNotifies, clientVars, eventVars
  <2> QED BY <1>4, <2>1, CommandNotifyKept, KeptDiscover
<1>5. CASE \E n \in Node : Transmits(n)
  <2>1. UNCHANGED <<range, findVars>>
    BY <1>5 DEF Transmits, clientVars, eventVars
  <2> QED BY <1>5, <2>1, TransmitsKept, KeptDiscover
<1>6. CASE \E n \in Node : Processes(n)
  BY <1>6, ClientProcessesDiscover, ServerProcessesDiscover
<1>7. CASE Disconnect
  BY <1>7, OtherDiscover, NoDiscovery
     DEF DiscoverInv, Disconnect, ClearProcedure, eventVars, findVars
<1> QED BY <1>1, <1>2, <1>3, <1>4, <1>5, <1>6, <1>7 DEF Next

LEMMA InitDiscover == Init => DiscoverInv
BY NoDiscovery DEF Init, DiscoverInv, FoundInv, SearchInv, PathInv

\* For every table and MTU: a discovery reports what is there, in the order of
\* the table and each once, and all of it when it completes, unless its next
\* request found the queue full or an entry of another length lies among those
\* of a response, if one context calls at each end.
THEOREM DiscoveryIsFaithful ==
  ASSUME SingleCaller
  PROVE  Spec => []DiscoveryFaithful
<1>1. DiscoverInv => DiscoveryFaithful
  BY DEF DiscoverInv, FoundInv, Sound, DiscoveryFaithful
<1>2. TypeInv /\ CallInv /\ DiscoverInv /\ TypeInv' /\ CallInv' /\ [Next]_vars
        => DiscoverInv'
  BY NextDiscover
<1>3. Spec => [](TypeInv /\ QuietInv /\ CallInv /\ GateInv)
  BY Invariants
<1>4. Spec => []DiscoverInv
  BY <1>2, <1>3, InitDiscover, PTL DEF Spec
<1> QED BY <1>1, <1>4, PTL

=============================================================================
