---------------------------- MODULE RunnerProofs ----------------------------
(* Proofs about Turn, for any tools, extensions, limits, answers and numbers of turns, and
   about BundleLoad and BundlePlan, for any bundles. *)
EXTENDS Turn, BundlePlan, FiniteSetTheorems, SequenceTheorems, WellFoundedInduction, TLAPS

-----------------------------------------------------------------------------
(* Folds *)

LEMMA LeastNumber ==
  ASSUME NEW T \in SUBSET Nat, T # {}
  PROVE  \E x \in T : \A y \in T : ~(y < x)
<1> DEFINE R == {ss \in Nat \X Nat : ss[1] < ss[2]}
<1>1. IsWellFoundedOn(R, Nat)
  BY NatLessThanWellFounded DEF OpToRel
<1>2. \A x, y \in Nat : y < x => <<y, x>> \in R
  OBVIOUS
<1> HIDE DEF R
<1>3. PICK x \in T : \A y \in T : ~ (<<y, x>> \in R)
  BY <1>1, WFMin
<1> QED BY <1>2, <1>3

\* The last place of a set of places, as the folds take it.
Top(s) == CHOOSE x \in s : \A y \in s : x >= y

LEMMA TopIsLast ==
  ASSUME NEW n \in Nat, NEW s \in SUBSET (1..n), s # {}
  PROVE  Top(s) \in s /\ \A y \in s : Top(s) >= y
<1> DEFINE U == {m \in Nat : \A z \in s : m >= z}
<1>1. n \in U /\ U \in SUBSET Nat
  OBVIOUS
<1>2. PICK m \in U : \A j \in U : ~(j < m)
  <2> HIDE DEF U
  <2> QED BY <1>1, LeastNumber
<1>3. m \in Nat /\ \A z \in s : m >= z /\ z \in Nat /\ z >= 1
  BY <1>2
<1>4. m \in s
  <2> SUFFICES ASSUME m \notin s PROVE FALSE
    OBVIOUS
  <2>1. m # 0
    <3>1. PICK z \in s : TRUE
      OBVIOUS
    <3> QED BY <1>3, <3>1
  <2>2. m - 1 \in Nat /\ m - 1 < m /\ \A z \in s : m - 1 >= z
    BY <1>3, <2>1
  <2> QED BY <1>2, <2>2
<1> QED BY <1>3, <1>4 DEF Top

LEMMA TopOfFirst ==
  ASSUME NEW n \in Nat, NEW k \in 1..n
  PROVE  Top(1..k) = k /\ (1..k) \ {Top(1..k)} = 1..(k - 1) /\ 1..k # {} /\ 1..k \in SUBSET (1..n)
<1>1. 1..k \in SUBSET (1..k) /\ 1..k # {} /\ k \in Nat /\ k \in 1..k
  OBVIOUS
<1>2. Top(1..k) \in 1..k /\ \A y \in 1..k : Top(1..k) >= y
  BY <1>1, TopIsLast
<1>3. Top(1..k) = k
  BY <1>1, <1>2
<1>4. (1..k) \ {k} = 1..(k - 1) /\ 1..k \in SUBSET (1..n)
  OBVIOUS
<1> QED BY <1>1, <1>3, <1>4

\* h[s] is what the places in s make, f[i] being what place i does.
IsFold(h, V, f, base, n) ==
  /\ h \in [SUBSET (1..n) -> V]
  /\ \A s \in SUBSET (1..n) : h[s] = IF s = {} THEN base ELSE f[Top(s)][h[s \ {Top(s)}]]

\* If each place stays in V, the fold over any set of places exists.
LEMMA FoldExists ==
  ASSUME NEW V, NEW base \in V, NEW n \in Nat, NEW f \in [1..n -> [V -> V]]
  PROVE  \E h : IsFold(h, V, f, base, n)
<1> DEFINE Is(h, s) == h[s] = IF s = {} THEN base ELSE f[Top(s)][h[s \ {Top(s)}]]
           Ok(k) == \E h \in [SUBSET (1..k) -> V] : \A s \in SUBSET (1..k) : Is(h, s)
           T == {k \in 0..n : ~ Ok(k)}
<1> HIDE DEF Ok, Is
<1>0. SUFFICES T = {}
  <2>1. n \in 0..n
    OBVIOUS
  <2>2. T = {} => Ok(n)
    BY <2>1
  <2> QED BY <2>2 DEF Ok, Is, IsFold
<1> SUFFICES ASSUME T # {} PROVE FALSE
  BY <1>0
<1>1. T \in SUBSET Nat
  BY DEF T
<1> HIDE DEF T
<1>2. PICK k \in T : \A m \in T : ~(m < k)
  BY <1>1, LeastNumber
<1>3. k \in 0..n /\ k \in Nat /\ ~ Ok(k)
  BY <1>2 DEF T
<1>4. CASE k = 0
  <2> DEFINE h == [s \in SUBSET (1..k) |-> base]
  <2>1. \A s \in SUBSET (1..k) : s = {}
    BY <1>4
  <2>2. h \in [SUBSET (1..k) -> V] /\ \A s \in SUBSET (1..k) : Is(h, s)
    BY <2>1 DEF Is
  <2> QED BY <1>3, <2>2 DEF Ok
<1>5. CASE k # 0
  <2>1. k - 1 \in 0..n /\ k - 1 < k
    BY <1>3, <1>5
  <2>2. Ok(k - 1)
    BY <1>2, <2>1 DEF T
  <2>3. PICK g \in [SUBSET (1..(k - 1)) -> V] : \A s \in SUBSET (1..(k - 1)) : Is(g, s)
    BY <2>2 DEF Ok
  <2> DEFINE h == [s \in SUBSET (1..k) |-> IF s = {} THEN base ELSE f[Top(s)][g[s \ {Top(s)}]]]
  <2>4. ASSUME NEW s \in SUBSET (1..k), s # {}
        PROVE  s \ {Top(s)} \in SUBSET (1..(k - 1)) /\ Top(s) \in 1..n
    <3>1. Top(s) \in s /\ \A y \in s : Top(s) >= y
      BY <1>3, <2>4, TopIsLast
    <3>2. ASSUME NEW x \in s, x # Top(s) PROVE x \in 1..(k - 1)
      <4>1. x \in 1..k /\ Top(s) \in 1..k /\ Top(s) >= x
        BY <3>1
      <4> QED BY <1>3, <3>2, <4>1
    <3>3. Top(s) \in 1..k
      BY <3>1
    <3>4. Top(s) \in 1..n
      BY <1>3, <3>3
    <3>5. s \ {Top(s)} \in SUBSET (1..(k - 1))
      BY <3>2
    <3> QED BY <3>4, <3>5
  <2>5. h \in [SUBSET (1..k) -> V]
    <3> SUFFICES ASSUME NEW s \in SUBSET (1..k), s # {}
                 PROVE  f[Top(s)][g[s \ {Top(s)}]] \in V
      OBVIOUS
    <3>1. g[s \ {Top(s)}] \in V /\ f[Top(s)] \in [V -> V]
      BY <2>3, <2>4
    <3> QED BY <3>1
  <2>6. \A s \in SUBSET (1..(k - 1)) : h[s] = g[s]
    <3>1. SUBSET (1..(k - 1)) \subseteq SUBSET (1..k)
      BY <1>3
    <3> QED BY <2>3, <3>1 DEF Is
  <2>7. \A s \in SUBSET (1..k) : Is(h, s)
    <3> SUFFICES ASSUME NEW s \in SUBSET (1..k) PROVE Is(h, s)
      OBVIOUS
    <3>1. s # {} => h[s \ {Top(s)}] = g[s \ {Top(s)}]
      BY <2>4, <2>6
    <3> HIDE DEF h
    <3>2. h[s] = IF s = {} THEN base ELSE f[Top(s)][g[s \ {Top(s)}]]
      BY DEF h
    <3> QED BY <3>1, <3>2 DEF Is
  <2> HIDE DEF h
  <2>8. Ok(k)
    BY <2>5, <2>7 DEF Ok
  <2> QED BY <1>3, <2>8
<1> QED BY <1>3, <1>4, <1>5

\* p[k] is what the first k places make.
IsRun(p, V, f, base, n) ==
  p \in [0..n -> V] /\ p[0] = base /\ \A k \in 1..n : p[k] = f[k][p[k - 1]]

\* What satisfies the equation of a fold takes the places one by one, in order.
IsLocalFold(h, V, f, base, n) ==
  /\ h[{}] = base
  /\ \A s \in SUBSET (1..n) :
       s # {} /\ h[s \ {Top(s)}] \in V => h[s] = f[Top(s)][h[s \ {Top(s)}]]

LEMMA FoldRuns ==
  ASSUME NEW V, NEW base \in V, NEW n \in Nat, NEW f \in [1..n -> [V -> V]], NEW h,
         IsLocalFold(h, V, f, base, n)
  PROVE  \E p : IsRun(p, V, f, base, n) /\ p[n] = h[1..n]
<1> DEFINE p == [k \in 0..n |-> h[1..k]]
           T == {k \in 0..n : h[1..k] \notin V}
<1>0. 1..0 = {}
  OBVIOUS
<1>1. ASSUME NEW k \in 1..n, h[1..(k - 1)] \in V PROVE h[1..k] = f[k][h[1..(k - 1)]]
  BY <1>1, TopOfFirst DEF IsLocalFold
<1>2. T = {}
  <2> SUFFICES ASSUME T # {} PROVE FALSE
    OBVIOUS
  <2>1. T \in SUBSET Nat
    OBVIOUS
  <2> HIDE DEF T
  <2>2. PICK k \in T : \A m \in T : ~(m < k)
    BY <2>1, LeastNumber
  <2>3. k \in 0..n /\ h[1..k] \notin V
    BY <2>2 DEF T
  <2>4. k # 0
    BY <1>0, <2>3 DEF IsLocalFold
  <2>5. k \in 1..n /\ k - 1 \in 0..n /\ k - 1 < k
    BY <2>3, <2>4
  <2>6. h[1..(k - 1)] \in V
    BY <2>2, <2>5 DEF T
  <2>7. f[k] \in [V -> V]
    BY <2>5
  <2> QED BY <1>1, <2>3, <2>5, <2>6, <2>7
<1>3. \A k \in 0..n : h[1..k] \in V
  BY <1>2
<1>4. \A k \in 1..n : k - 1 \in 0..n /\ k \in 0..n
  OBVIOUS
<1>5. p \in [0..n -> V] /\ p[0] = base /\ p[n] = h[1..n]
  BY <1>0, <1>3 DEF IsLocalFold
<1>6. \A k \in 1..n : p[k] = f[k][p[k - 1]]
  BY <1>1, <1>3, <1>4
<1> HIDE DEF p
<1> QED BY <1>5, <1>6 DEF IsRun

-----------------------------------------------------------------------------
(* Lists, place by place *)

LEMMA Places ==
  ASSUME NEW S, NEW s \in Seq(S)
  PROVE  /\ DOMAIN s = 1..Len(s) /\ Len(s) \in Nat
         /\ ToSet(s) \subseteq S /\ \A i \in 1..Len(s) : s[i] \in ToSet(s) /\ s[i] \in S
BY LenProperties, ElementOfSeq DEF ToSet

LEMMA AppendPlaces ==
  ASSUME NEW S, NEW s \in Seq(S), NEW x \in S
  PROVE  /\ Append(s, x) \in Seq(S) /\ Len(Append(s, x)) = Len(s) + 1
         /\ \A i \in 1..Len(s) : Append(s, x)[i] = s[i]
         /\ Append(s, x)[Len(s) + 1] = x
         /\ ToSet(Append(s, x)) = ToSet(s) \cup {x}
<1>1. /\ Append(s, x) \in Seq(S) /\ Len(Append(s, x)) = Len(s) + 1
      /\ \A i \in 1..Len(s) : Append(s, x)[i] = s[i]
      /\ Append(s, x)[Len(s) + 1] = x
  BY AppendProperties
<1>2. DOMAIN s = 1..Len(s) /\ DOMAIN Append(s, x) = 1..Len(s) + 1 /\ Len(s) \in Nat
  BY <1>1, LenProperties
<1> QED BY <1>1, <1>2 DEF ToSet

\* Induction on the first places.
LEMMA PlaceByPlace ==
  ASSUME NEW n \in Nat, NEW G \in SUBSET (0..n), 0 \in G, \A k \in 1..n : k - 1 \in G => k \in G
  PROVE  \A k \in 0..n : k \in G
<1> DEFINE T == (0..n) \ G
<1> SUFFICES ASSUME T # {} PROVE FALSE
  OBVIOUS
<1>1. T \in SUBSET Nat
  OBVIOUS
<1> HIDE DEF T
<1>2. PICK k \in T : \A m \in T : ~(m < k)
  BY <1>1, LeastNumber
<1>3. k \in 0..n /\ k \notin G
  BY <1>2 DEF T
<1>4. k # 0
  BY <1>3
<1>5. k \in 1..n /\ k - 1 \in 0..n /\ k - 1 < k
  BY <1>3, <1>4
<1>6. k - 1 \in G
  BY <1>2, <1>5 DEF T
<1> QED BY <1>3, <1>5, <1>6

-----------------------------------------------------------------------------
(* Conversations and their messages *)

LEMMA MessageFields ==
  ASSUME NEW m \in Message
  PROVE  /\ m.kind \in Kinds /\ m.turn \in 0..MaxTurns /\ m.step \in 0..MaxSteps
         /\ m.tools \subseteq AllTools /\ m.text \in BOOLEAN /\ m.size \in Nat
BY DEF Message

\* What ToConversationTurns has kept of the first places.
LEMMA SentRuns ==
  ASSUME NEW c \in Seq(Message)
  PROVE  \E p \in [0..Len(c) -> Seq(Message)] :
           /\ p[0] = <<>> /\ p[Len(c)] = ToConversationTurns(c)
           /\ \A k \in 1..Len(c) : p[k] = IF Sendable(c[k]) THEN Append(p[k - 1], c[k]) ELSE p[k - 1]
<1> DEFINE V == Seq(Message)
           n == Len(c)
           Rule(h) == h = [s \in SUBSET (1..n) |->
                             IF s = {} THEN <<>>
                             ELSE IF Sendable(c[Top(s)]) THEN Append(h[s \ {Top(s)}], c[Top(s)])
                                  ELSE h[s \ {Top(s)}]]
           each == [i \in 1..n |-> [v \in V |-> IF Sendable(c[i]) THEN Append(v, c[i]) ELSE v]]
           run == CHOOSE h : Rule(h)
<1>1. DOMAIN c = 1..n /\ n \in Nat /\ <<>> \in V /\ \A i \in 1..n : c[i] \in Message
  BY Places, EmptySeq
<1>2. ToConversationTurns(c) = run[1..n]
  BY <1>1 DEF ToConversationTurns, FoldLeft, MapThenFoldSet, Max, Top
<1>3. PICK f \in [1..n -> [V -> V]] :
        \A i \in 1..n, v \in V : f[i][v] = IF Sendable(c[i]) THEN Append(v, c[i]) ELSE v
  <2>1. each \in [1..n -> [V -> V]]
    BY <1>1, AppendProperties
  <2>2. \A i \in 1..n, v \in V : each[i][v] = IF Sendable(c[i]) THEN Append(v, c[i]) ELSE v
    OBVIOUS
  <2> HIDE DEF each
  <2> QED BY <2>1, <2>2
<1> HIDE DEF V, n, each
<1>4. \E h : Rule(h)
  <2>1. PICK h : IsFold(h, V, f, <<>>, n)
    BY <1>1, FoldExists
  <2>2. ASSUME NEW s \in SUBSET (1..n), s # {}
        PROVE  f[Top(s)][h[s \ {Top(s)}]] =
                 IF Sendable(c[Top(s)]) THEN Append(h[s \ {Top(s)}], c[Top(s)])
                 ELSE h[s \ {Top(s)}]
    <3>1. Top(s) \in 1..n
      BY <1>1, <2>2, TopIsLast
    <3>2. h[s \ {Top(s)}] \in V
      BY <2>1 DEF IsFold
    <3> QED BY <1>3, <3>1, <3>2
  <2> QED BY <2>1, <2>2 DEF IsFold
<1>5. PICK h : Rule(h) /\ h = run
  <2> HIDE DEF Rule
  <2> QED BY <1>4
<1> HIDE DEF run
<1>6. h[{}] = <<>>
  BY <1>5
<1>7. IsLocalFold(h, V, f, <<>>, n)
  <2> SUFFICES ASSUME NEW s \in SUBSET (1..n), s # {}, h[s \ {Top(s)}] \in V
               PROVE  h[s] = f[Top(s)][h[s \ {Top(s)}]]
    BY <1>6 DEF IsLocalFold
  <2>1. Top(s) \in 1..n
    BY <1>1, TopIsLast
  <2> QED BY <1>3, <1>5, <2>1
<1> HIDE DEF Rule
<1>8. PICK p : IsRun(p, V, f, <<>>, n) /\ p[n] = h[1..n]
  <2>1. n \in Nat /\ <<>> \in V
    BY <1>1
  <2> QED BY <2>1, <1>7, FoldRuns
<1>9. p \in [0..n -> V] /\ p[0] = <<>> /\ \A k \in 1..n : p[k] = f[k][p[k - 1]]
  BY <1>8 DEF IsRun
<1>10. \A k \in 1..n : p[k - 1] \in V
  BY <1>1, <1>9
<1>11. \A k \in 1..n : p[k] = IF Sendable(c[k]) THEN Append(p[k - 1], c[k]) ELSE p[k - 1]
  BY <1>3, <1>9, <1>10
<1> QED BY <1>2, <1>5, <1>8, <1>9, <1>11 DEF V, n

\* What Without has kept of the first places.
WithoutRun(p, c, gone) ==
  /\ p \in [0..Len(c) -> Seq(Message)] /\ p[0] = <<>> /\ p[Len(c)] = Without(c, gone)
  /\ \A k \in 1..Len(c) :
       p[k] = IF k \in gone \/ HasDanglingToolResult(c[k], p[k - 1]) THEN p[k - 1]
              ELSE Append(p[k - 1], c[k])

LEMMA WithoutRuns ==
  ASSUME NEW c \in Seq(Message), NEW gone
  PROVE  \E p : WithoutRun(p, c, gone)
<1> DEFINE V == Seq(Message)
           n == Len(c)
           places == [i \in DOMAIN c |-> i]
           Rule(h) == h = [s \in SUBSET DOMAIN places |->
                             IF s = {} THEN <<>>
                             ELSE IF \/ places[Top(s)] \in gone
                                     \/ HasDanglingToolResult(c[places[Top(s)]], h[s \ {Top(s)}])
                                  THEN h[s \ {Top(s)}]
                                  ELSE Append(h[s \ {Top(s)}], c[places[Top(s)]])]
           each == [i \in 1..n |-> [v \in V |-> IF i \in gone \/ HasDanglingToolResult(c[i], v) THEN v ELSE Append(v, c[i])]]
           run == CHOOSE h : Rule(h)
<1>1. DOMAIN c = 1..n /\ n \in Nat /\ <<>> \in V /\ \A i \in 1..n : c[i] \in Message
  BY Places, EmptySeq
<1>a. DOMAIN places = 1..n /\ \A i \in 1..n : places[i] = i
  BY <1>1
<1>2. Without(c, gone) = run[1..n]
  <2>1. Without(c, gone) = run[DOMAIN places]
    BY DEF Without, FoldLeftDomain, FoldLeft, MapThenFoldSet, Max, Top
  <2> QED BY <2>1, <1>a
<1>3. PICK f \in [1..n -> [V -> V]] :
        \A i \in 1..n, v \in V : f[i][v] = IF i \in gone \/ HasDanglingToolResult(c[i], v) THEN v ELSE Append(v, c[i])
  <2>1. each \in [1..n -> [V -> V]]
    BY <1>1, AppendProperties
  <2>2. \A i \in 1..n, v \in V : each[i][v] = IF i \in gone \/ HasDanglingToolResult(c[i], v) THEN v ELSE Append(v, c[i])
    OBVIOUS
  <2> HIDE DEF each
  <2> QED BY <2>1, <2>2
<1> HIDE DEF V, n, each, places
<1>4. \E h : Rule(h)
  <2>1. PICK h : IsFold(h, V, f, <<>>, n)
    BY <1>1, FoldExists
  <2>2. ASSUME NEW s \in SUBSET (1..n), s # {}
        PROVE  f[Top(s)][h[s \ {Top(s)}]] = IF Top(s) \in gone \/ HasDanglingToolResult(c[Top(s)], h[s \ {Top(s)}]) THEN h[s \ {Top(s)}] ELSE Append(h[s \ {Top(s)}], c[Top(s)])
    <3>1. Top(s) \in 1..n
      BY <1>1, <2>2, TopIsLast
    <3>2. h[s \ {Top(s)}] \in V
      BY <2>1 DEF IsFold
    <3> QED BY <1>3, <3>1, <3>2
  <2>3. \A s \in SUBSET (1..n) : s # {} => places[Top(s)] = Top(s)
    BY <1>1, <1>a, TopIsLast
  <2>4. h = [s \in SUBSET (1..n) |-> h[s]]
    BY <2>1 DEF IsFold
  <2>5. ASSUME NEW s \in SUBSET (1..n)
        PROVE  h[s] = IF s = {} THEN <<>>
                      ELSE IF \/ places[Top(s)] \in gone
                              \/ HasDanglingToolResult(c[places[Top(s)]], h[s \ {Top(s)}])
                           THEN h[s \ {Top(s)}]
                           ELSE Append(h[s \ {Top(s)}], c[places[Top(s)]])
    <3>1. CASE s = {}
      BY <2>1, <3>1 DEF IsFold
    <3>2. CASE s # {}
      <4>1. h[s] = f[Top(s)][h[s \ {Top(s)}]]
        BY <2>1, <3>2 DEF IsFold
      <4>2. places[Top(s)] = Top(s)
        BY <2>3, <3>2
      <4> QED BY <2>2, <3>2, <4>1, <4>2
    <3> QED BY <3>1, <3>2
  <2>6. Rule(h)
    BY <1>a, <2>4, <2>5
  <2> QED BY <2>6
<1>5. PICK h : Rule(h) /\ h = run
  <2> HIDE DEF Rule
  <2> QED BY <1>4
<1> HIDE DEF run
<1>6. h[{}] = <<>>
  BY <1>5, <1>a
<1>7. IsLocalFold(h, V, f, <<>>, n)
  <2> SUFFICES ASSUME NEW s \in SUBSET (1..n), s # {}, h[s \ {Top(s)}] \in V
               PROVE  h[s] = f[Top(s)][h[s \ {Top(s)}]]
    BY <1>6 DEF IsLocalFold
  <2>1. Top(s) \in 1..n
    BY <1>1, TopIsLast
  <2>2. places[Top(s)] = Top(s)
    BY <1>a, <2>1
  <2>3. h[s] = IF Top(s) \in gone \/ HasDanglingToolResult(c[Top(s)], h[s \ {Top(s)}])
               THEN h[s \ {Top(s)}] ELSE Append(h[s \ {Top(s)}], c[Top(s)])
    <3>1. s \in SUBSET DOMAIN places /\ s # {}
      BY <1>a
    <3>2. h[s] = IF \/ places[Top(s)] \in gone
                    \/ HasDanglingToolResult(c[places[Top(s)]], h[s \ {Top(s)}])
                 THEN h[s \ {Top(s)}]
                 ELSE Append(h[s \ {Top(s)}], c[places[Top(s)]])
      BY <1>5, <3>1
    <3> QED BY <2>2, <3>2
  <2> QED BY <1>3, <2>1, <2>3
<1> HIDE DEF Rule
<1>8. PICK p : IsRun(p, V, f, <<>>, n) /\ p[n] = h[1..n]
  <2>1. n \in Nat /\ <<>> \in V
    BY <1>1
  <2> QED BY <2>1, <1>7, FoldRuns
<1>9. p \in [0..n -> V] /\ p[0] = <<>> /\ \A k \in 1..n : p[k] = f[k][p[k - 1]]
  BY <1>8 DEF IsRun
<1>10. \A k \in 1..n : p[k - 1] \in V
  BY <1>1, <1>9
<1>11. \A k \in 1..n : p[k] = IF k \in gone \/ HasDanglingToolResult(c[k], p[k - 1]) THEN p[k - 1] ELSE Append(p[k - 1], c[k])
  BY <1>3, <1>9, <1>10
<1> QED BY <1>2, <1>5, <1>8, <1>9, <1>11 DEF V, n, WithoutRun

\* The size of the first places.
LEMMA SizeRuns ==
  ASSUME NEW c \in Seq(Message)
  PROVE  \E p \in [0..Len(c) -> Nat] :
           /\ p[0] = 0 /\ p[Len(c)] = SizeOf(c)
           /\ \A k \in 1..Len(c) : p[k] = p[k - 1] + c[k].size
<1> DEFINE V == Nat
           n == Len(c)
           Rule(h) == h = [s \in SUBSET (1..n) |->
                             IF s = {} THEN 0 ELSE h[s \ {Top(s)}] + c[Top(s)].size]
           each == [i \in 1..n |-> [v \in V |-> v + c[i].size]]
           run == CHOOSE h : Rule(h)
<1>1. DOMAIN c = 1..n /\ n \in Nat /\ 0 \in V /\ \A i \in 1..n : c[i] \in Message
  BY Places
<1>2. SizeOf(c) = run[1..n]
  BY <1>1 DEF SizeOf, FoldLeft, MapThenFoldSet, Max, Top
<1>3. PICK f \in [1..n -> [V -> V]] :
        \A i \in 1..n, v \in V : f[i][v] = v + c[i].size
  <2>1. each \in [1..n -> [V -> V]]
    BY <1>1, MessageFields
  <2>2. \A i \in 1..n, v \in V : each[i][v] = v + c[i].size
    OBVIOUS
  <2> HIDE DEF each
  <2> QED BY <2>1, <2>2
<1> HIDE DEF V, n, each
<1>4. \E h : Rule(h)
  <2>1. PICK h : IsFold(h, V, f, 0, n)
    BY <1>1, FoldExists
  <2>2. ASSUME NEW s \in SUBSET (1..n), s # {}
        PROVE  f[Top(s)][h[s \ {Top(s)}]] = h[s \ {Top(s)}] + c[Top(s)].size
    <3>1. Top(s) \in 1..n
      BY <1>1, <2>2, TopIsLast
    <3>2. h[s \ {Top(s)}] \in V
      BY <2>1 DEF IsFold
    <3> QED BY <1>3, <3>1, <3>2
  <2> QED BY <2>1, <2>2 DEF IsFold
<1>5. PICK h : Rule(h) /\ h = run
  <2> HIDE DEF Rule
  <2> QED BY <1>4
<1> HIDE DEF run
<1>6. h[{}] = 0
  BY <1>5
<1>7. IsLocalFold(h, V, f, 0, n)
  <2> SUFFICES ASSUME NEW s \in SUBSET (1..n), s # {}, h[s \ {Top(s)}] \in V
               PROVE  h[s] = f[Top(s)][h[s \ {Top(s)}]]
    BY <1>6 DEF IsLocalFold
  <2>1. Top(s) \in 1..n
    BY <1>1, TopIsLast
  <2> QED BY <1>3, <1>5, <2>1
<1> HIDE DEF Rule
<1>8. PICK p : IsRun(p, V, f, 0, n) /\ p[n] = h[1..n]
  <2>1. n \in Nat /\ 0 \in V
    BY <1>1
  <2> QED BY <2>1, <1>7, FoldRuns
<1>9. p \in [0..n -> V] /\ p[0] = 0 /\ \A k \in 1..n : p[k] = f[k][p[k - 1]]
  BY <1>8 DEF IsRun
<1>10. \A k \in 1..n : p[k - 1] \in V
  BY <1>1, <1>9
<1>11. \A k \in 1..n : p[k] = p[k - 1] + c[k].size
  BY <1>3, <1>9, <1>10
<1> QED BY <1>2, <1>5, <1>8, <1>9, <1>11 DEF V, n

-----------------------------------------------------------------------------
(* Conversations whose calls and results match *)

IsCall(m) == m.kind = "assistant" /\ m.tools # {}
IsFor(r, m) == r.kind = "results" /\ r.step = m.step /\ r.tools = m.tools

\* Calls and results match, but for a call at the end.
Half(c) ==
  /\ c \in Seq(Message)
  /\ \A i \in 1..Len(c) : Results(c[i]) # {} => i > 1 /\ Answers(c[i], c[i - 1])
  /\ \A i \in 1..(Len(c) - 1) : IsCall(c[i]) => IsFor(c[i + 1], c[i])

Sound(c) == Half(c) /\ (c # <<>> => ~ IsCall(Last(c)))

\* Neither a call nor a result.
Plain(m) == m.kind \in {"assistant", "results"} => m.tools = {}

\* Message m may come after c.
Follows(m, c) ==
  /\ Results(m) # {} => c # <<>> /\ Answers(m, Last(c))
  /\ c # <<>> /\ IsCall(Last(c)) => IsFor(m, Last(c))

LEMMA LastIsPlace ==
  ASSUME NEW c \in Seq(Message)
  PROVE  c # <<>> => Len(c) \in Nat \ {0} /\ Last(c) = c[Len(c)] /\ Last(c) \in Message
<1>1. Len(c) \in Nat /\ (c # <<>> => Len(c) # 0)
  BY LenProperties, EmptySeq
<1> QED BY <1>1, ElementOfSeq DEF Last

LEMMA LastOfAppend ==
  ASSUME NEW c \in Seq(Message), NEW m \in Message
  PROVE  Append(c, m) # <<>> /\ Last(Append(c, m)) = m
<1>1. Len(Append(c, m)) = Len(c) + 1 /\ Append(c, m)[Len(c) + 1] = m /\ Len(c) \in Nat
  BY AppendPlaces, Places
<1>2. Append(c, m) # <<>>
  BY <1>1
<1> QED BY <1>1, <1>2 DEF Last

LEMMA AppendHalf ==
  ASSUME NEW c, Half(c), NEW m \in Message, Follows(m, c)
  PROVE  Half(Append(c, m))
<1> DEFINE d == Append(c, m)
           n == Len(c)
<1>1. c \in Seq(Message) /\ n \in Nat
  BY Places DEF Half
<1>2. /\ d \in Seq(Message) /\ Len(d) = n + 1 /\ d[n + 1] = m
      /\ \A i \in 1..n : d[i] = c[i]
  BY <1>1, AppendPlaces
<1>3. n # 0 => c # <<>> /\ Last(c) = c[n]
  BY <1>1, LastIsPlace
<1>4. c # <<>> => n # 0 /\ Last(c) = c[n]
  BY <1>1, LastIsPlace
<1> HIDE DEF d, n
<1>5. ASSUME NEW i \in 1..Len(d), Results(d[i]) # {} PROVE i > 1 /\ Answers(d[i], d[i - 1])
  <2>1. CASE i = n + 1
    <3>1. c # <<>> /\ Answers(m, Last(c))
      BY <1>2, <1>5, <2>1 DEF Follows
    <3>2. n \in 1..n /\ i > 1 /\ i - 1 = n /\ d[n] = Last(c)
      BY <1>1, <1>2, <1>4, <2>1, <3>1
    <3> QED BY <1>2, <2>1, <3>1, <3>2
  <2>2. CASE i # n + 1
    <3>1. i \in 1..n /\ d[i] = c[i]
      BY <1>1, <1>2, <2>2
    <3>2. i > 1 /\ Answers(c[i], c[i - 1])
      BY <1>5, <3>1 DEF Half, n
    <3>3. i - 1 \in 1..n
      BY <1>1, <3>1, <3>2
    <3> QED BY <1>2, <3>1, <3>2, <3>3
  <2> QED BY <2>1, <2>2
<1>7. ASSUME NEW i \in 1..(Len(d) - 1), IsCall(d[i]) PROVE IsFor(d[i + 1], d[i])
  <2>1. i \in 1..n /\ d[i] = c[i]
    BY <1>1, <1>2
  <2>2. CASE i = n
    BY <1>2, <1>3, <1>7, <2>1, <2>2 DEF Follows
  <2>3. CASE i # n
    <3>1. i \in 1..(n - 1) /\ i + 1 \in 1..n
      BY <1>1, <2>1, <2>3
    <3>2. IsFor(c[i + 1], c[i])
      BY <1>7, <2>1, <3>1 DEF Half, n
    <3> QED BY <1>2, <2>1, <3>1, <3>2
  <2> QED BY <2>2, <2>3
<1> QED BY <1>2, <1>5, <1>7 DEF Half, d

LEMMA AppendSound ==
  ASSUME NEW c, Sound(c), NEW m \in Message, Plain(m)
  PROVE  Sound(Append(c, m))
<1>1. Follows(m, c) /\ ~ IsCall(m)
  BY DEF Follows, Plain, Sound, Results, IsCall
<1>2. Half(Append(c, m))
  BY <1>1, AppendHalf DEF Sound
<1>3. c \in Seq(Message)
  BY DEF Sound, Half
<1> QED BY <1>1, <1>2, <1>3, LastOfAppend DEF Sound

\* A call and the results of all its tools.
LEMMA AppendResults ==
  ASSUME NEW c, Half(c), c # <<>>, NEW m \in Message, m.turn = Last(c).turn, IsFor(m, Last(c)),
         IsCall(Last(c))
  PROVE  Sound(Append(c, m))
<1>1. c \in Seq(Message) /\ Last(c) \in Message
  BY LastIsPlace DEF Half
<1>2. Follows(m, c) /\ ~ IsCall(m)
  BY <1>1 DEF Follows, IsFor, IsCall, Results, Answers, Calls
<1>3. Half(Append(c, m))
  BY <1>2, AppendHalf
<1> QED BY <1>1, <1>2, <1>3, LastOfAppend DEF Sound

LEMMA NothingIsSound == Sound(<<>>)
<1>1. <<>> \in Seq(Message) /\ Len(<<>>) = 0
  BY EmptySeq
<1> QED BY <1>1 DEF Sound, Half

-----------------------------------------------------------------------------
(* What is sent *)

\* ToConversationTurns leaves the messages that can be sent, and no others.
LEMMA SentMembers ==
  ASSUME NEW c \in Seq(Message)
  PROVE  /\ ToConversationTurns(c) \in Seq(Message)
         /\ ToSet(ToConversationTurns(c)) = {m \in ToSet(c) : Sendable(m)}
<1>1. PICK p \in [0..Len(c) -> Seq(Message)] :
        /\ p[0] = <<>> /\ p[Len(c)] = ToConversationTurns(c)
        /\ \A k \in 1..Len(c) : p[k] = IF Sendable(c[k]) THEN Append(p[k - 1], c[k]) ELSE p[k - 1]
  BY SentRuns
<1> DEFINE n == Len(c)
           G == {k \in 0..n : ToSet(p[k]) = {c[i] : i \in {j \in 1..k : Sendable(c[j])}}}
<1>2. n \in Nat /\ DOMAIN c = 1..n /\ \A i \in 1..n : c[i] \in Message
  BY Places
<1> HIDE DEF n
<1>3. 0 \in G
  <2>1. ToSet(p[0]) = {}
    BY <1>1 DEF ToSet
  <2>2. {c[i] : i \in {j \in 1..0 : Sendable(c[j])}} = {}
    OBVIOUS
  <2> QED BY <1>2, <2>1, <2>2
<1>4. ASSUME NEW k \in 1..n, k - 1 \in G PROVE k \in G
  <2>1. p[k - 1] \in Seq(Message) /\ c[k] \in Message /\ k \in 0..n
    BY <1>1, <1>2 DEF n
  <2>2. ToSet(p[k - 1]) = {c[i] : i \in {j \in 1..(k - 1) : Sendable(c[j])}}
    BY <1>4
  <2>3. 1..k = (1..(k - 1)) \cup {k}
    BY <1>2
  <2>4. CASE Sendable(c[k])
    <3>1. p[k] = Append(p[k - 1], c[k])
      BY <1>1, <2>4 DEF n
    <3>2. ToSet(p[k]) = ToSet(p[k - 1]) \cup {c[k]}
      BY <2>1, <3>1, AppendPlaces
    <3>3. {j \in 1..k : Sendable(c[j])} = {j \in 1..(k - 1) : Sendable(c[j])} \cup {k}
      BY <2>3, <2>4
    <3> QED BY <2>1, <2>2, <3>2, <3>3
  <2>5. CASE ~ Sendable(c[k])
    <3>1. p[k] = p[k - 1]
      BY <1>1, <2>5 DEF n
    <3>2. {j \in 1..k : Sendable(c[j])} = {j \in 1..(k - 1) : Sendable(c[j])}
      BY <2>3, <2>5
    <3> QED BY <2>1, <2>2, <3>1, <3>2
  <2> QED BY <2>4, <2>5
<1>5. \A k \in 0..n : k \in G
  <2>1. G \in SUBSET (0..n)
    OBVIOUS
  <2> HIDE DEF G
  <2> QED BY <1>2, <1>3, <1>4, <2>1, PlaceByPlace
<1>6. ToSet(p[n]) = {c[i] : i \in {j \in 1..n : Sendable(c[j])}}
  <2>1. n \in 0..n
    BY <1>2
  <2>2. n \in G
    BY <1>5, <2>1
  <2> QED BY <2>2
<1>7. ToSet(c) = {c[i] : i \in 1..n}
  BY <1>2 DEF ToSet
<1>8. ToSet(p[n]) = {m \in ToSet(c) : Sendable(m)}
  BY <1>6, <1>7
<1>9. p[n] \in Seq(Message)
  BY <1>1, <1>2
<1> QED BY <1>1, <1>8, <1>9 DEF n

\* What was sent is sent again as it is.
LEMMA SentAgain ==
  ASSUME NEW c \in Seq(Message), \A m \in ToSet(c) : Sendable(m)
  PROVE  ToConversationTurns(c) = c
<1>1. PICK p \in [0..Len(c) -> Seq(Message)] :
        /\ p[0] = <<>> /\ p[Len(c)] = ToConversationTurns(c)
        /\ \A k \in 1..Len(c) : p[k] = IF Sendable(c[k]) THEN Append(p[k - 1], c[k]) ELSE p[k - 1]
  BY SentRuns
<1> DEFINE n == Len(c)
           G == {k \in 0..n : Len(p[k]) = k /\ \A i \in 1..k : p[k][i] = c[i]}
<1>2. n \in Nat /\ \A i \in 1..n : c[i] \in Message /\ Sendable(c[i])
  BY Places
<1> HIDE DEF n
<1>3. 0 \in G
  BY <1>1, <1>2
<1>4. ASSUME NEW k \in 1..n, k - 1 \in G PROVE k \in G
  <2>1. p[k - 1] \in Seq(Message) /\ c[k] \in Message /\ k \in 0..n
    BY <1>1, <1>2 DEF n
  <2>2. p[k] = Append(p[k - 1], c[k])
    BY <1>1, <1>2 DEF n
  <2>3. Len(p[k - 1]) = k - 1 /\ \A i \in 1..(k - 1) : p[k - 1][i] = c[i]
    BY <1>4
  <2>4. /\ Len(p[k]) = (k - 1) + 1 /\ p[k][(k - 1) + 1] = c[k]
        /\ \A i \in 1..(k - 1) : p[k][i] = p[k - 1][i]
    BY <2>1, <2>2, <2>3, AppendPlaces
  <2>5. \A i \in 1..k : p[k][i] = c[i]
    <3>1. \A i \in 1..k : i \in 1..(k - 1) \/ i = (k - 1) + 1
      BY <1>2
    <3> QED BY <2>3, <2>4, <3>1
  <2> QED BY <2>1, <2>4, <2>5
<1>5. \A k \in 0..n : k \in G
  <2>1. G \in SUBSET (0..n)
    OBVIOUS
  <2> HIDE DEF G
  <2> QED BY <1>2, <1>3, <1>4, <2>1, PlaceByPlace
<1>6. p[n] \in Seq(Message) /\ Len(p[n]) = n /\ \A i \in 1..n : p[n][i] = c[i]
  <2>1. n \in 0..n
    BY <1>2
  <2>2. n \in G
    BY <1>5, <2>1
  <2> QED BY <1>1, <2>1, <2>2 DEF n
<1>7. p[n] = c
  BY <1>6, SeqEqual DEF n
<1> QED BY <1>1, <1>7 DEF n

\* What is left out of a conversation never stands between a call and its results.
LEMMA SentSound ==
  ASSUME NEW c, Sound(c)
  PROVE  Sound(ToConversationTurns(c))
<1>0. c \in Seq(Message)
  BY DEF Sound, Half
<1>1. PICK p \in [0..Len(c) -> Seq(Message)] :
        /\ p[0] = <<>> /\ p[Len(c)] = ToConversationTurns(c)
        /\ \A k \in 1..Len(c) : p[k] = IF Sendable(c[k]) THEN Append(p[k - 1], c[k]) ELSE p[k - 1]
  BY <1>0, SentRuns
<1> DEFINE n == Len(c)
           Keeps(k) == /\ Half(p[k])
                       /\ k > 0 /\ Sendable(c[k]) => p[k] # <<>> /\ Last(p[k]) = c[k]
                       /\ p[k] # <<>> /\ IsCall(Last(p[k])) => k > 0 /\ Last(p[k]) = c[k]
           G == {k \in 0..n : Keeps(k)}
<1>2. n \in Nat /\ \A i \in 1..n : c[i] \in Message
  BY <1>0, Places
<1>3. /\ \A i \in 1..n : Results(c[i]) # {} => i > 1 /\ Answers(c[i], c[i - 1])
      /\ \A i \in 1..(n - 1) : IsCall(c[i]) => IsFor(c[i + 1], c[i])
      /\ n > 0 => ~ IsCall(c[n])
  <2>1. n > 0 => c # <<>> /\ Last(c) = c[n]
    BY <1>0, LastIsPlace
  <2> QED BY <2>1 DEF Sound, Half
<1> HIDE DEF n
<1>4. 0 \in G
  BY <1>1, <1>2, NothingIsSound DEF Sound
<1>5. ASSUME NEW k \in 1..n, k - 1 \in G PROVE k \in G
  <2>1. p[k - 1] \in Seq(Message) /\ c[k] \in Message /\ k \in 0..n /\ k > 0
    BY <1>1, <1>2 DEF n
  <2>2. Keeps(k - 1)
    BY <1>5
  <2>3. ASSUME p[k - 1] # <<>>, IsCall(Last(p[k - 1])) PROVE IsFor(c[k], Last(p[k - 1]))
    <3>1. k - 1 > 0 /\ Last(p[k - 1]) = c[k - 1]
      BY <2>2, <2>3
    <3>2. k - 1 \in 1..(n - 1) /\ (k - 1) + 1 = k
      BY <1>2, <3>1
    <3> QED BY <1>3, <2>3, <3>1, <3>2
  <2>4. CASE Sendable(c[k])
    <3>1. p[k] = Append(p[k - 1], c[k])
      BY <1>1, <2>4 DEF n
    <3>2. p[k] # <<>> /\ Last(p[k]) = c[k]
      BY <2>1, <3>1, LastOfAppend
    <3>3. ASSUME Results(c[k]) # {} PROVE p[k - 1] # <<>> /\ Answers(c[k], Last(p[k - 1]))
      <4>1. k > 1 /\ Answers(c[k], c[k - 1])
        BY <1>3, <3>3
      <4>2. Calls(c[k - 1]) # {}
        BY <3>3, <4>1 DEF Answers
      <4>3. Sendable(c[k - 1])
        BY <4>2 DEF Calls, Sendable
      <4>4. k - 1 > 0
        BY <2>1, <4>1
      <4> QED BY <2>2, <4>1, <4>3, <4>4
    <3>4. Follows(c[k], p[k - 1])
      BY <1>3, <2>3, <3>3 DEF Follows
    <3>5. Half(p[k])
      BY <2>1, <2>2, <3>1, <3>4, AppendHalf
    <3> QED BY <2>1, <3>2, <3>5
  <2>5. CASE ~ Sendable(c[k])
    <3>1. p[k] = p[k - 1]
      BY <1>1, <2>5 DEF n
    <3>2. ~ (p[k] # <<>> /\ IsCall(Last(p[k])))
      BY <2>3, <2>5, <3>1 DEF IsFor, Sendable
    <3> QED BY <2>1, <2>2, <2>5, <3>1, <3>2
  <2> QED BY <2>4, <2>5
<1>6. \A k \in 0..n : k \in G
  <2>1. G \in SUBSET (0..n)
    OBVIOUS
  <2> HIDE DEF G
  <2> QED BY <1>2, <1>4, <1>5, <2>1, PlaceByPlace
<1>7. Keeps(n)
  <2>1. n \in 0..n
    BY <1>2
  <2> QED BY <1>6, <2>1
<1>8. Sound(p[n])
  BY <1>2, <1>3, <1>7 DEF Sound
<1> QED BY <1>1, <1>8 DEF n

-----------------------------------------------------------------------------
(* What the window and the compaction leave *)

From(c, j) == SubSeq(c, j, Len(c))

LEMMA FromPlaces ==
  ASSUME NEW S, NEW c \in Seq(S), NEW j \in 1..(Len(c) + 1)
  PROVE  /\ From(c, j) \in Seq(S) /\ Len(From(c, j)) = Len(c) - j + 1
         /\ \A i \in 1..(Len(c) - j + 1) : From(c, j)[i] = c[i + j - 1]
         /\ ToSet(From(c, j)) \subseteq ToSet(c)
<1>1. Len(c) \in Nat /\ DOMAIN c = 1..Len(c) /\ \A i \in 1..Len(c) : c[i] \in S
  BY Places
<1>2. \A i \in j..Len(c) : c[i] \in S
  BY <1>1
<1>3. From(c, j) \in Seq(S)
  BY <1>1, <1>2, SubSeqProperties DEF From
<1>4. Len(From(c, j)) = Len(c) - j + 1 /\ \A i \in 1..(Len(c) - j + 1) : From(c, j)[i] = c[i + j - 1]
  BY <1>1 DEF From
<1>5. DOMAIN From(c, j) = 1..(Len(c) - j + 1)
  BY <1>3, <1>4, Places
<1>6. \A i \in 1..(Len(c) - j + 1) : i + j - 1 \in 1..Len(c)
  BY <1>1
<1> QED BY <1>1, <1>3, <1>4, <1>5, <1>6 DEF ToSet

\* The tail of a sound conversation is sound when it does not begin with results.
LEMMA FromSound ==
  ASSUME NEW c, Sound(c), NEW j \in 1..(Len(c) + 1), j <= Len(c) => Results(c[j]) = {}
  PROVE  Sound(From(c, j))
<1> DEFINE d == From(c, j)
           n == Len(c)
           m == n - j + 1
<1>1. c \in Seq(Message)
  BY DEF Sound, Half
<1>2. /\ n \in Nat /\ m \in Nat /\ d \in Seq(Message) /\ Len(d) = m
      /\ \A i \in 1..m : d[i] = c[i + j - 1] /\ i + j - 1 \in 1..n
  BY <1>1, FromPlaces, Places
<1>3. /\ \A i \in 1..n : Results(c[i]) # {} => i > 1 /\ Answers(c[i], c[i - 1])
      /\ \A i \in 1..(n - 1) : IsCall(c[i]) => IsFor(c[i + 1], c[i])
      /\ n > 0 => ~ IsCall(c[n])
  <2>1. n > 0 => c # <<>> /\ Last(c) = c[n]
    BY <1>1, LastIsPlace
  <2> QED BY <2>1 DEF Sound, Half
<1>4. j \in 1..(n + 1) /\ (j <= n => Results(c[j]) = {})
  OBVIOUS
<1> HIDE DEF d, n
<1>5. ASSUME NEW i \in 1..Len(d), Results(d[i]) # {} PROVE i > 1 /\ Answers(d[i], d[i - 1])
  <2>1. i \in 1..m /\ d[i] = c[i + j - 1] /\ i + j - 1 \in 1..n
    BY <1>2
  <2>2. Answers(c[i + j - 1], c[(i + j - 1) - 1])
    BY <1>3, <1>5, <2>1
  <2>3. i # 1
    <3> SUFFICES ASSUME i = 1 PROVE FALSE
      OBVIOUS
    <3>1. i + j - 1 = j /\ j <= n
      BY <1>2, <1>4, <2>1
    <3>2. d[i] = c[j]
      BY <2>1, <3>1
    <3> QED BY <1>4, <1>5, <3>1, <3>2
  <2>4. i - 1 \in 1..m /\ (i - 1) + j - 1 = (i + j - 1) - 1 /\ i > 1
    BY <1>2, <1>4, <2>1, <2>3
  <2>5. d[i - 1] = c[(i + j - 1) - 1]
    BY <1>2, <2>4
  <2> QED BY <2>1, <2>2, <2>4, <2>5
<1>7. ASSUME NEW i \in 1..(Len(d) - 1), IsCall(d[i]) PROVE IsFor(d[i + 1], d[i])
  <2>0. Len(d) = n - j + 1 /\ n \in Nat /\ j \in Nat /\ j >= 1
    BY <1>2, <1>4
  <2>1. i \in 1..m /\ i + 1 \in 1..m /\ i + j - 1 \in 1..(n - 1) /\ (i + 1) + j - 1 = (i + j - 1) + 1
    BY <2>0
  <2>2. d[i] = c[i + j - 1]
    BY <1>2, <2>1
  <2>3. d[i + 1] = c[(i + 1) + j - 1]
    BY <1>2, <2>1
  <2>4. d[i + 1] = c[(i + j - 1) + 1]
    BY <2>1, <2>3
  <2>5. IsCall(c[i + j - 1])
    BY <1>7, <2>2
  <2> QED BY <1>3, <2>1, <2>2, <2>4, <2>5
<1>8. ASSUME d # <<>> PROVE ~ IsCall(Last(d))
  <2>1. m # 0 /\ Last(d) = d[m]
    BY <1>2, <1>8, LastIsPlace
  <2>2. m \in 1..m /\ m + j - 1 = n /\ n > 0
    BY <1>2, <1>4, <2>1
  <2> QED BY <1>2, <1>3, <2>1, <2>2
<1> QED BY <1>2, <1>5, <1>7, <1>8 DEF Sound, Half, d

\* Removing the first k messages removes one more when that would begin with results.
LEMMA WithoutFirst ==
  ASSUME NEW c, Sound(c), NEW k \in 0..Len(c)
  PROVE  \E j \in {k + 1, k + 2} :
           /\ j \in 1..(Len(c) + 1) /\ Without(c, 1..k) = From(c, j)
           /\ j <= Len(c) => Results(c[j]) = {}
           /\ j = k + 2 => k + 1 <= Len(c) /\ Results(c[k + 1]) # {}
<1> DEFINE n == Len(c)
           j == IF k + 1 <= n /\ Results(c[k + 1]) # {} THEN k + 2 ELSE k + 1
<1>1. c \in Seq(Message) /\ n \in Nat /\ k \in 0..n /\ \A i \in 1..n : c[i] \in Message
  BY Places DEF Sound, Half
<1>2. \A i \in 1..n : Results(c[i]) # {} => i > 1 /\ Answers(c[i], c[i - 1])
  BY DEF Sound, Half
<1>3. j \in {k + 1, k + 2} /\ j \in 1..(n + 1)
  BY <1>1
<1>4. ASSUME j <= n PROVE Results(c[j]) = {}
  <2> SUFFICES ASSUME Results(c[j]) # {} PROVE FALSE
    OBVIOUS
  <2>1. k + 1 <= n /\ Results(c[k + 1]) # {} /\ j = k + 2
    BY <1>4
  <2>2. Answers(c[j], c[k + 1])
    <3>1. j \in 1..n /\ j - 1 = k + 1
      BY <1>1, <1>3, <1>4, <2>1
    <3>2. Answers(c[j], c[j - 1])
      BY <1>2, <3>1
    <3> QED BY <3>1, <3>2
  <2>3. Calls(c[k + 1]) # {}
    BY <2>2 DEF Answers
  <2> QED BY <2>1, <2>3 DEF Calls, Results
<1>5. PICK p : WithoutRun(p, c, 1..k)
  BY <1>1, WithoutRuns
<1>5a. /\ p \in [0..n -> Seq(Message)] /\ p[0] = <<>> /\ p[n] = Without(c, 1..k)
       /\ \A i \in 1..n :
            p[i] = IF i \in 1..k \/ HasDanglingToolResult(c[i], p[i - 1]) THEN p[i - 1]
                   ELSE Append(p[i - 1], c[i])
  BY <1>5 DEF WithoutRun
<1> DEFINE G == {i \in 0..n : p[i] = SubSeq(c, j, i)}
<1>6. j = k + 2 => k + 1 <= n /\ Results(c[k + 1]) # {}
  BY <1>1
<1>7. j = k + 1 /\ k + 1 <= n => Results(c[k + 1]) = {}
  BY <1>1
<1> HIDE DEF n, j
<1>8. \A i \in 0..n : i < j => SubSeq(c, j, i) = <<>>
  BY <1>3, SubSeqEmpty
<1>9. 0 \in G
  BY <1>1, <1>3, <1>5a, <1>8
<1>10. ASSUME NEW i \in 1..n, i - 1 \in G PROVE i \in G
  <2>1. p[i - 1] = SubSeq(c, j, i - 1) /\ i \in 0..n /\ i - 1 \in 0..n /\ c[i] \in Message
    BY <1>1, <1>10
  <2>2. CASE i < j
    <3>1. p[i - 1] = <<>>
      <4>1. i - 1 < j
        BY <1>3, <2>2
      <4> QED BY <1>8, <2>1, <4>1
    <3>2. i \in 1..k \/ Results(c[i]) # {}
      <4>1. i \in 1..k \/ (i = k + 1 /\ j = k + 2)
        BY <1>1, <1>3, <2>2
      <4> QED BY <1>6, <4>1
    <3>3. i \in 1..k \/ HasDanglingToolResult(c[i], p[i - 1])
      BY <3>1, <3>2 DEF HasDanglingToolResult
    <3>4. p[i] = <<>>
      BY <1>5a, <3>1, <3>3
    <3> QED BY <1>8, <2>1, <2>2, <3>4
  <2>3. CASE i >= j
    <3>1. i \notin 1..k
      BY <1>1, <1>3, <2>3
    <3>2. ~ HasDanglingToolResult(c[i], p[i - 1])
      <4> SUFFICES ASSUME Results(c[i]) # {} PROVE p[i - 1] # <<>> /\ Answers(c[i], Last(p[i - 1]))
        BY DEF HasDanglingToolResult
      <4>1. i # j
        BY <1>4, <1>10
      <4>2. i - 1 \in j..n /\ i - 1 \in 1..n
        BY <1>1, <1>3, <2>3, <4>1
      <4>3. Len(p[i - 1]) = (i - 1) - j + 1 /\ p[i - 1][(i - 1) - j + 1] = c[i - 1]
        BY <1>1, <1>3, <2>1, <4>2 DEF n
      <4>4. p[i - 1] # <<>> /\ Last(p[i - 1]) = c[i - 1]
        BY <1>3, <4>2, <4>3 DEF Last
      <4> QED BY <1>2, <4>4
    <3>3. p[i] = Append(p[i - 1], c[i])
      BY <1>5a, <3>1, <3>2
    <3>4. SubSeq(c, j, i) = SubSeq(c, j, i - 1) \o <<c[i]>>
      <4>1. j \in 1..Len(c) /\ i \in j..Len(c)
        BY <1>1, <1>3, <2>3 DEF n
      <4> QED BY <1>1, <4>1, SubSeqRecursiveSecond
    <3>5. p[i - 1] \in Seq(Message)
      BY <1>5a, <2>1
    <3>6. SubSeq(c, j, i) = Append(SubSeq(c, j, i - 1), c[i])
      BY <2>1, <3>4, <3>5, AppendIsConcat
    <3> QED BY <2>1, <3>3, <3>6
  <2> QED BY <1>1, <1>3, <2>2, <2>3
<1>11. \A i \in 0..n : i \in G
  <2>1. G \in SUBSET (0..n)
    OBVIOUS
  <2> HIDE DEF G
  <2> QED BY <1>1, <1>9, <1>10, <2>1, PlaceByPlace
<1>12. n \in G
  BY <1>1, <1>11
<1>13. Without(c, 1..k) = From(c, j)
  BY <1>5a, <1>12 DEF From, n
<1> QED BY <1>3, <1>4, <1>6, <1>13 DEF n

LEMMA FromFrom ==
  ASSUME NEW c \in Seq(Message), NEW j \in 1..(Len(c) + 1), NEW i \in 1..(Len(c) - j + 2)
  PROVE  From(From(c, j), i) = From(c, i + j - 1)
<1> DEFINE d == From(c, j)
<1>1. /\ Len(c) \in Nat /\ d \in Seq(Message) /\ Len(d) = Len(c) - j + 1
      /\ \A m \in 1..(Len(c) - j + 1) : d[m] = c[m + j - 1]
  BY FromPlaces, Places
<1>2. i \in 1..(Len(d) + 1) /\ i + j - 1 \in 1..(Len(c) + 1)
  BY <1>1
<1> HIDE DEF d
<1>3. /\ From(d, i) \in Seq(Message) /\ Len(From(d, i)) = Len(d) - i + 1
      /\ \A m \in 1..(Len(d) - i + 1) : From(d, i)[m] = d[m + i - 1]
  BY <1>1, <1>2, FromPlaces
<1>4. /\ From(c, i + j - 1) \in Seq(Message) /\ Len(From(c, i + j - 1)) = Len(c) - (i + j - 1) + 1
      /\ \A m \in 1..(Len(c) - (i + j - 1) + 1) : From(c, i + j - 1)[m] = c[m + (i + j - 1) - 1]
  BY <1>2, FromPlaces
<1>5. Len(d) - i + 1 = Len(c) - (i + j - 1) + 1
  BY <1>1
<1>6. ASSUME NEW m \in 1..(Len(d) - i + 1) PROVE From(d, i)[m] = From(c, i + j - 1)[m]
  <2>1. m + i - 1 \in 1..(Len(c) - j + 1) /\ (m + i - 1) + j - 1 = m + (i + j - 1) - 1
    BY <1>1, <1>2
  <2>2. From(d, i)[m] = c[(m + i - 1) + j - 1]
    BY <1>1, <1>3, <2>1
  <2> QED BY <1>4, <1>5, <2>1, <2>2
<1>7. From(d, i) = From(c, i + j - 1)
  BY <1>3, <1>4, <1>5, <1>6, SeqEqual
<1> QED BY <1>7 DEF d

\* A shorter tail is no longer in total.
LEMMA TailIsSmaller ==
  ASSUME NEW c \in Seq(Message), NEW j \in 1..Len(c)
  PROVE  /\ SizeOf(From(c, j + 1)) \in Nat /\ SizeOf(From(c, j)) \in Nat
         /\ SizeOf(From(c, j + 1)) <= SizeOf(From(c, j))
<1> DEFINE d == From(c, j)
           e == From(c, j + 1)
           n == Len(e)
<1>1. /\ Len(c) \in Nat /\ j \in 1..(Len(c) + 1) /\ j + 1 \in 1..(Len(c) + 1)
      /\ \A i \in 1..Len(c) : c[i] \in Message /\ c[i].size \in Nat
  BY Places, MessageFields
<1>2. /\ d \in Seq(Message) /\ Len(d) = Len(c) - j + 1
      /\ \A i \in 1..(Len(c) - j + 1) : d[i] = c[i + j - 1]
  BY <1>1, FromPlaces
<1>3. /\ e \in Seq(Message) /\ Len(e) = Len(c) - (j + 1) + 1
      /\ \A i \in 1..(Len(c) - (j + 1) + 1) : e[i] = c[i + (j + 1) - 1]
  BY <1>1, FromPlaces
<1> HIDE DEF d, e
<1>4. PICK p \in [0..Len(d) -> Nat] :
        p[0] = 0 /\ p[Len(d)] = SizeOf(d) /\ \A k \in 1..Len(d) : p[k] = p[k - 1] + d[k].size
  BY <1>2, SizeRuns
<1>5. PICK q \in [0..Len(e) -> Nat] :
        q[0] = 0 /\ q[Len(e)] = SizeOf(e) /\ \A k \in 1..Len(e) : q[k] = q[k - 1] + e[k].size
  BY <1>3, SizeRuns
<1>6. n \in Nat /\ Len(d) = n + 1 /\ \A k \in 1..n : d[k + 1] = e[k] /\ e[k].size \in Nat
  <2>1. n \in Nat /\ Len(d) = n + 1
    BY <1>1, <1>2, <1>3
  <2>2. ASSUME NEW k \in 1..n PROVE d[k + 1] = e[k] /\ e[k].size \in Nat
    <3>1. k + 1 \in 1..(Len(c) - j + 1) /\ k \in 1..(Len(c) - (j + 1) + 1)
      BY <1>1, <1>3
    <3>2. (k + 1) + j - 1 = k + j /\ k + (j + 1) - 1 = k + j /\ k + j \in 1..Len(c)
      BY <1>1, <3>1
    <3>3. d[k + 1] = c[k + j]
      BY <1>2, <3>1, <3>2
    <3>4. e[k] = c[k + j]
      BY <1>3, <3>1, <3>2
    <3> QED BY <1>1, <3>2, <3>3, <3>4
  <2> QED BY <2>1, <2>2
<1> HIDE DEF n
<1> DEFINE G == {k \in 0..n : q[k] <= p[k + 1]}
<1>7. 0 \in G
  BY <1>4, <1>5, <1>6
<1>8. ASSUME NEW k \in 1..n, k - 1 \in G PROVE k \in G
  <2>1. q[k - 1] <= p[k] /\ k \in 0..n /\ k + 1 \in 1..Len(d)
    <3>1. k \in 0..n /\ k + 1 \in 1..Len(d) /\ (k - 1) + 1 = k
      BY <1>6
    <3>2. q[k - 1] <= p[(k - 1) + 1]
      BY <1>8
    <3> QED BY <3>1, <3>2
  <2>2. q[k] = q[k - 1] + e[k].size
    BY <1>5 DEF n
  <2>3. p[k + 1] = p[k] + e[k].size
    <3>1. p[k + 1] = p[(k + 1) - 1] + d[k + 1].size
      BY <1>4, <2>1
    <3> QED BY <1>6, <3>1
  <2>4. q[k - 1] \in Nat /\ p[k] \in Nat /\ e[k].size \in Nat
    <3>1. k - 1 \in 0..Len(e) /\ k \in 0..Len(d)
      BY <1>6 DEF n
    <3> QED BY <1>4, <1>5, <1>6, <3>1
  <2> QED BY <2>1, <2>2, <2>3, <2>4
<1>9. \A k \in 0..n : k \in G
  <2>1. G \in SUBSET (0..n)
    OBVIOUS
  <2> HIDE DEF G
  <2> QED BY <1>6, <1>7, <1>8, <2>1, PlaceByPlace
<1>10. n \in G
  BY <1>6, <1>9
<1>11. SizeOf(e) <= SizeOf(d)
  BY <1>4, <1>5, <1>6, <1>10 DEF n
<1>12. SizeOf(e) \in Nat /\ SizeOf(d) \in Nat
  <2>1. Len(e) \in 0..Len(e) /\ Len(d) \in 0..Len(d)
    BY <1>6 DEF n
  <2> QED BY <1>4, <1>5, <2>1
<1> QED BY <1>11, <1>12 DEF d, e

\* What is within the limits has no tail over them.
LEMMA LimitIsForTails ==
  ASSUME NEW c \in Seq(Message), NEW i \in 1..(Len(c) + 1), NEW j \in i..(Len(c) + 1),
         OverLimit(From(c, j))
  PROVE  OverLimit(From(c, i))
<1> DEFINE n == j - i
           G == {d \in 0..n : OverLimit(From(c, j - d))}
<1>1. n \in Nat /\ Len(c) \in Nat
  BY Places
<1> HIDE DEF n
<1>2. 0 \in G
  <2>1. j - 0 = j /\ 0 \in 0..n
    BY <1>1
  <2> QED BY <2>1
<1>3. ASSUME NEW d \in 1..n, d - 1 \in G PROVE d \in G
  <2>1. j - d \in 1..Len(c) /\ j - (d - 1) = (j - d) + 1 /\ d \in 0..n
    BY <1>1 DEF n
  <2> DEFINE m == j - d
  <2>2. m \in 1..Len(c) /\ OverLimit(From(c, m + 1))
    BY <1>3, <2>1
  <2> HIDE DEF m
  <2>3. Len(From(c, m + 1)) = Len(c) - (m + 1) + 1 /\ Len(From(c, m)) = Len(c) - m + 1
    <3>1. m + 1 \in 1..(Len(c) + 1) /\ m \in 1..(Len(c) + 1)
      BY <1>1, <2>2
    <3> QED BY <3>1, FromPlaces
  <2>4. /\ SizeOf(From(c, m + 1)) \in Nat /\ SizeOf(From(c, m)) \in Nat
        /\ SizeOf(From(c, m + 1)) <= SizeOf(From(c, m))
    BY <2>2, TailIsSmaller
  <2>5. CompactMessages \in Nat /\ CompactSize \in Nat
    BY TurnAssumption
  <2>6. OverLimit(From(c, m))
    BY <1>1, <2>2, <2>3, <2>4, <2>5 DEF OverLimit
  <2> QED BY <2>1, <2>6 DEF m
<1>4. \A d \in 0..n : d \in G
  <2>1. G \in SUBSET (0..n)
    OBVIOUS
  <2> HIDE DEF G
  <2> QED BY <1>1, <1>2, <1>3, <2>1, PlaceByPlace
<1>5. n \in G /\ j - n = i
  <2>1. n \in 0..n
    BY <1>1
  <2>2. j - n = i
    BY <1>1 DEF n
  <2> QED BY <1>4, <2>1, <2>2
<1> QED BY <1>5

\* The compaction removes the first so many messages.
LEMMA RemovableFirst ==
  ASSUME NEW c \in Seq(Message)
  PROVE  \E k \in 0..Len(c) :
           /\ Removable(c) = 1..k
           /\ k = 0 \/ k + RetainLast <= Len(c)
           /\ k + 1 + RetainLast <= Len(c) => ~ OverLimit(From(c, k + 1))
<1> DEFINE R == Removable(c)
           T == {m \in Nat : m + 1 \notin R}
<1>1. Len(c) \in Nat /\ DOMAIN c = 1..Len(c) /\ RetainLast \in Nat
  BY Places, TurnAssumption
<1>2. R = {i \in 1..Len(c) : i + RetainLast <= Len(c) /\ OverLimit(From(c, i))}
  BY <1>1 DEF Removable, From
<1> HIDE DEF R
<1>3. T \in SUBSET Nat /\ Len(c) \in T
  BY <1>1, <1>2
<1>4. PICK k \in T : \A m \in T : ~(m < k)
  <2> HIDE DEF T
  <2> QED BY <1>3, LeastNumber
<1>5. k \in 0..Len(c) /\ k + 1 \notin R
  BY <1>1, <1>3, <1>4
<1>6. \A i \in 1..k : i \in R
  <2> SUFFICES ASSUME NEW i \in 1..k PROVE i \in R
    OBVIOUS
  <2>1. i - 1 \in Nat /\ i - 1 < k /\ (i - 1) + 1 = i
    BY <1>5
  <2> QED BY <1>4, <2>1
<1>7. ASSUME NEW i \in R PROVE i \in 1..k
  <2> SUFFICES ASSUME i \notin 1..k PROVE FALSE
    OBVIOUS
  <2>1. i \in 1..Len(c) /\ i + RetainLast <= Len(c) /\ OverLimit(From(c, i))
    BY <1>2
  <2>2. k + 1 \in 1..Len(c) /\ i \in (k + 1)..(Len(c) + 1) /\ k + 1 \in 1..(Len(c) + 1)
        /\ (k + 1) + RetainLast <= Len(c)
    BY <1>1, <1>5, <2>1
  <2>3. OverLimit(From(c, k + 1))
    BY <2>1, <2>2, LimitIsForTails
  <2> QED BY <1>2, <1>5, <2>2, <2>3
<1>8. R = 1..k
  BY <1>6, <1>7
<1>9. k = 0 \/ k + RetainLast <= Len(c)
  BY <1>2, <1>5, <1>6
<1>10. k + 1 + RetainLast <= Len(c) => ~ OverLimit(From(c, k + 1))
  BY <1>1, <1>2, <1>5
<1> QED BY <1>5, <1>8, <1>9, <1>10 DEF R

-----------------------------------------------------------------------------
(* The extensions *)

LEMMA AddedMessages ==
  /\ Context \in Message /\ Plain(Context) /\ Summary \in Message /\ Plain(Summary)
  /\ Context.kind = "context" /\ Summary.kind = "summary"
<1>1. MaxTurns \in Nat /\ MaxSteps \in Nat
  BY TurnAssumption
<1>2. Context \in Message /\ Context.kind = "context"
  BY <1>1 DEF Context, Message, Kinds
<1>3. Summary \in Message /\ Summary.kind = "summary"
  BY <1>2 DEF Summary, Message, Kinds
<1> QED BY <1>2, <1>3 DEF Plain

\* The window leaves a sound tail, with the last message unless that is a result.
LEMMA WindowLeaves ==
  ASSUME NEW c, Sound(c)
  PROVE  \E j \in 1..(Len(c) + 1) :
           /\ Window(c) = From(c, j) /\ Sound(From(c, j))
           /\ c # <<>> /\ Results(Last(c)) = {} => j <= Len(c)
<1> DEFINE k == IF WindowSize <= Len(c) THEN Len(c) - WindowSize ELSE 0
<1>1. c \in Seq(Message) /\ Len(c) \in Nat /\ DOMAIN c = 1..Len(c)
  BY Places DEF Sound, Half
<1>0. WindowSize \in Nat /\ WindowSize > 0
  BY TurnAssumption
<1>2. k \in 0..Len(c) /\ (k = Len(c) => Len(c) = 0)
  <2>1. Len(c) \in Nat
    BY <1>1
  <2>2. CASE WindowSize <= Len(c)
    BY <1>0, <2>1, <2>2
  <2>3. CASE ~ (WindowSize <= Len(c))
    BY <1>0, <2>1, <2>3
  <2> QED BY <2>2, <2>3
<1>3. {i \in DOMAIN c : i + WindowSize <= Len(c)} = 1..k
  <2>1. \A i \in 1..Len(c) : i + WindowSize <= Len(c) <=> i \in 1..k
    BY <1>0, <1>1
  <2>2. 1..k \subseteq 1..Len(c)
    BY <1>1, <1>2
  <2> HIDE DEF k
  <2> QED BY <1>1, <2>1, <2>2
<1> HIDE DEF k
<1>4. PICK j \in {k + 1, k + 2} :
        /\ j \in 1..(Len(c) + 1) /\ Without(c, 1..k) = From(c, j)
        /\ j <= Len(c) => Results(c[j]) = {}
        /\ j = k + 2 => k + 1 <= Len(c) /\ Results(c[k + 1]) # {}
  BY <1>2, WithoutFirst
<1>5. Window(c) = From(c, j)
  BY <1>3, <1>4 DEF Window
<1>6. Sound(From(c, j))
  BY <1>4, FromSound
<1>7. ASSUME c # <<>>, Results(Last(c)) = {} PROVE j <= Len(c)
  <2>1. Len(c) # 0 /\ Last(c) = c[Len(c)]
    BY <1>1, <1>7, LastIsPlace
  <2>2. k + 1 <= Len(c)
    <3>1. Len(c) \in Nat /\ k \in 0..Len(c) /\ k # Len(c)
      BY <1>1, <1>2, <2>1
    <3> QED BY <3>1
  <2>3. j = k + 2 => k + 1 # Len(c)
    BY <1>4, <1>7, <2>1
  <2>4. Len(c) \in Nat /\ k \in 0..Len(c) /\ j \in {k + 1, k + 2}
    BY <1>1, <1>2
  <2> QED BY <2>2, <2>3, <2>4
<1> QED BY <1>4, <1>5, <1>6, <1>7

\* Where the messages begin that the compaction has to keep.
TailStart(c) == IF Len(c) > RetainLast THEN Len(c) - RetainLast + 1 ELSE 1

\* The compaction keeps the last message if what it has to keep is within the limits.
LEMMA CompactLeaves ==
  ASSUME NEW c, Sound(c)
  PROVE  /\ Sound(Compact(c))
         /\ /\ c # <<>> /\ Results(Last(c)) = {} /\ RetainLast # 0
            /\ ~ OverLimit(From(c, TailStart(c)))
            => Last(c) \in ToSet(Compact(c))
<1>1. c \in Seq(Message) /\ Len(c) \in Nat /\ RetainLast \in Nat
  BY Places, TurnAssumption DEF Sound, Half
<1>2. PICK k \in 0..Len(c) :
        /\ Removable(c) = 1..k
        /\ k = 0 \/ k + RetainLast <= Len(c)
        /\ k + 1 + RetainLast <= Len(c) => ~ OverLimit(From(c, k + 1))
  BY <1>1, RemovableFirst
<1>3. PICK j \in {k + 1, k + 2} :
        /\ j \in 1..(Len(c) + 1) /\ Without(c, 1..k) = From(c, j)
        /\ j <= Len(c) => Results(c[j]) = {}
        /\ j = k + 2 => k + 1 <= Len(c) /\ Results(c[k + 1]) # {}
  BY <1>2, WithoutFirst
<1>4. Sound(From(c, j)) /\ From(c, j) \in Seq(Message)
  BY <1>1, <1>3, FromSound, FromPlaces
<1>5. Compact(c) \in {c, <<Summary>>, Append(From(c, j), Summary)}
  BY <1>2, <1>3 DEF Compact
<1>6. Sound(<<Summary>>)
  <2>1. <<Summary>> = Append(<<>>, Summary)
    OBVIOUS
  <2> QED BY <2>1, NothingIsSound, AddedMessages, AppendSound
<1>7. Sound(Append(From(c, j), Summary))
  BY <1>4, AddedMessages, AppendSound
<1>8. Sound(Compact(c))
  BY <1>5, <1>6, <1>7
<1>9. ASSUME c # <<>>, Results(Last(c)) = {}, RetainLast # 0, ~ OverLimit(From(c, TailStart(c)))
      PROVE  Last(c) \in ToSet(Compact(c))
  <2>1. Len(c) # 0 /\ Last(c) = c[Len(c)] /\ Last(c) \in ToSet(c)
    BY <1>1, <1>9, LastIsPlace, Places
  <2>2. k + 1 <= Len(c)
    BY <1>1, <1>2, <1>9, <2>1
  <2>3. j <= Len(c)
    <3>1. j = k + 2 => k + 1 # Len(c)
      BY <1>3, <1>9, <2>1
    <3> QED BY <1>1, <1>2, <1>3, <2>2, <3>1
  <2>4. Last(c) \in ToSet(From(c, j))
    <3>1. Len(c) - j + 1 \in 1..(Len(c) - j + 1) /\ (Len(c) - j + 1) + j - 1 = Len(c)
      BY <1>1, <1>3, <2>3
    <3>2. /\ Len(From(c, j)) = Len(c) - j + 1
          /\ From(c, j)[Len(c) - j + 1] = c[(Len(c) - j + 1) + j - 1]
      BY <1>1, <1>3, <3>1, FromPlaces
    <3> QED BY <1>4, <2>1, <3>1, <3>2, Places
  <2>5. ~ OverLimit(From(c, j))
    <3> SUFFICES ASSUME OverLimit(From(c, j)) PROVE FALSE
      OBVIOUS
    <3>1. OverLimit(From(c, k + 1))
      <4>1. k + 1 \in 1..(Len(c) + 1) /\ j \in (k + 1)..(Len(c) + 1)
        BY <1>1, <1>2, <1>3
      <4> QED BY <1>1, <4>1, LimitIsForTails
    <3>2. Len(c) < k + 1 + RetainLast
      BY <1>1, <1>2, <3>1
    <3>3. TailStart(c) \in 1..(Len(c) + 1) /\ k + 1 \in TailStart(c)..(Len(c) + 1)
      BY <1>1, <1>2, <2>2, <3>2 DEF TailStart
    <3> QED BY <1>1, <1>9, <3>1, <3>3, LimitIsForTails
  <2>6. ToSet(Append(From(c, j), Summary)) = ToSet(From(c, j)) \cup {Summary}
    BY <1>4, AddedMessages, AppendPlaces
  <2>7. Compact(c) \in {c, Append(From(c, j), Summary)}
    BY <1>2, <1>3, <2>5 DEF Compact
  <2> QED BY <2>1, <2>4, <2>6, <2>7
<1> QED BY <1>8, <1>9

LEMMA AddContextAdds ==
  ASSUME NEW c, Sound(c)
  PROVE  Sound(AddContext(c)) /\ ToSet(c) \subseteq ToSet(AddContext(c))
<1>1. c \in Seq(Message)
  BY DEF Sound, Half
<1>2. Sound(Append(c, Context)) /\ ToSet(Append(c, Context)) = ToSet(c) \cup {Context}
  BY <1>1, AddedMessages, AppendSound, AppendPlaces
<1> QED BY <1>2 DEF AddContext

Extensions == {"window", "compaction", "context"}

LEMMA ApplySound ==
  ASSUME NEW c, Sound(c), NEW x \in Extensions
  PROVE  Sound(Apply(c, x))
BY WindowLeaves, CompactLeaves, AddContextAdds DEF Apply, Extensions

\* What the first extensions make of a conversation.
LEMMA ExtensionRuns ==
  ASSUME NEW c, Sound(c)
  PROVE  \E p \in [0..Len(TurnExtensions) -> {d \in Seq(Message) : Sound(d)}] :
           /\ p[0] = c /\ p[Len(TurnExtensions)] = FoldLeft(Apply, c, TurnExtensions)
           /\ \A k \in 1..Len(TurnExtensions) : p[k] = Apply(p[k - 1], TurnExtensions[k])
<1> DEFINE V == {d \in Seq(Message) : Sound(d)}
           n == Len(TurnExtensions)
           Rule(h) == h = [s \in SUBSET (1..n) |->
                             IF s = {} THEN c ELSE Apply(h[s \ {Top(s)}], TurnExtensions[Top(s)])]
           each == [i \in 1..n |-> [v \in V |-> Apply(v, TurnExtensions[i])]]
           run == CHOOSE h : Rule(h)
<1>1. DOMAIN TurnExtensions = 1..n /\ n \in Nat /\ c \in V /\ \A i \in 1..n : TurnExtensions[i] \in Extensions
  BY Places, TurnAssumption DEF Extensions, Sound, Half
<1>2. FoldLeft(Apply, c, TurnExtensions) = run[1..n]
  BY <1>1 DEF FoldLeft, MapThenFoldSet, Max, Top
<1>3. PICK f \in [1..n -> [V -> V]] :
        \A i \in 1..n, v \in V : f[i][v] = Apply(v, TurnExtensions[i])
  <2>1. each \in [1..n -> [V -> V]]
    BY <1>1, ApplySound DEF Sound, Half
  <2>2. \A i \in 1..n, v \in V : each[i][v] = Apply(v, TurnExtensions[i])
    OBVIOUS
  <2> HIDE DEF each
  <2> QED BY <2>1, <2>2
<1> HIDE DEF V, n, each
<1>4. \E h : Rule(h)
  <2>1. PICK h : IsFold(h, V, f, c, n)
    BY <1>1, FoldExists
  <2>2. ASSUME NEW s \in SUBSET (1..n), s # {}
        PROVE  f[Top(s)][h[s \ {Top(s)}]] = Apply(h[s \ {Top(s)}], TurnExtensions[Top(s)])
    <3>1. Top(s) \in 1..n
      BY <1>1, <2>2, TopIsLast
    <3>2. h[s \ {Top(s)}] \in V
      BY <2>1 DEF IsFold
    <3> QED BY <1>3, <3>1, <3>2
  <2> QED BY <2>1, <2>2 DEF IsFold
<1>5. PICK h : Rule(h) /\ h = run
  <2> HIDE DEF Rule
  <2> QED BY <1>4
<1> HIDE DEF run
<1>6. h[{}] = c
  BY <1>5
<1>7. IsLocalFold(h, V, f, c, n)
  <2> SUFFICES ASSUME NEW s \in SUBSET (1..n), s # {}, h[s \ {Top(s)}] \in V
               PROVE  h[s] = f[Top(s)][h[s \ {Top(s)}]]
    BY <1>6 DEF IsLocalFold
  <2>1. Top(s) \in 1..n
    BY <1>1, TopIsLast
  <2> QED BY <1>3, <1>5, <2>1
<1> HIDE DEF Rule
<1>8. PICK p : IsRun(p, V, f, c, n) /\ p[n] = h[1..n]
  <2>1. n \in Nat /\ c \in V
    BY <1>1
  <2> QED BY <2>1, <1>7, FoldRuns
<1>9. p \in [0..n -> V] /\ p[0] = c /\ \A k \in 1..n : p[k] = f[k][p[k - 1]]
  BY <1>8 DEF IsRun
<1>10. \A k \in 1..n : p[k - 1] \in V
  BY <1>1, <1>9
<1>11. \A k \in 1..n : p[k] = Apply(p[k - 1], TurnExtensions[k])
  BY <1>3, <1>9, <1>10
<1> QED BY <1>2, <1>5, <1>8, <1>9, <1>11 DEF V, n

-----------------------------------------------------------------------------
(* The conversation of a turn *)

\* Only windows come before a window or the compaction.
OrderKeepsInput ==
  \A i, j \in DOMAIN TurnExtensions :
    i < j /\ TurnExtensions[j] # "context" => TurnExtensions[i] = "window"

\* The extensions leave a sound conversation, and in that order its last message.
LEMMA ExtensionsLeave ==
  ASSUME NEW c, Sound(c)
  PROVE  /\ Sound(FoldLeft(Apply, c, TurnExtensions))
         /\ /\ OrderKeepsInput /\ RetainLast # 0
            /\ c # <<>> /\ Results(Last(c)) = {} /\ ~ OverLimit(From(c, TailStart(c)))
            => Last(c) \in ToSet(FoldLeft(Apply, c, TurnExtensions))
<1> DEFINE n == Len(TurnExtensions)
           x == TurnExtensions
           result == FoldLeft(Apply, c, TurnExtensions)
<1>1. PICK p \in [0..n -> {d \in Seq(Message) : Sound(d)}] :
        p[0] = c /\ p[n] = result /\ \A k \in 1..n : p[k] = Apply(p[k - 1], x[k])
  BY ExtensionRuns
<1>2. /\ n \in Nat /\ DOMAIN x = 1..n /\ \A k \in 1..n : x[k] \in Extensions
      /\ c \in Seq(Message) /\ Len(c) \in Nat /\ RetainLast \in Nat
  BY Places, TurnAssumption DEF Extensions, Sound, Half
<1> HIDE DEF n, x, result
<1>3. Sound(result)
  BY <1>1, <1>2
<1>4. ASSUME OrderKeepsInput, RetainLast # 0, c # <<>>, Results(Last(c)) = {},
             ~ OverLimit(From(c, TailStart(c)))
      PROVE  Last(c) \in ToSet(result)
  <2> DEFINE Tail0(k) == \E j \in 1..Len(c) : p[k] = From(c, j)
             G == {k \in 0..n : /\ Last(c) \in ToSet(p[k])
                                /\ (\A i \in 1..k : x[i] = "window") => Tail0(k)}
  <2>1. Len(c) > 0 /\ Last(c) = c[Len(c)] /\ Last(c) \in ToSet(c)
    BY <1>2, <1>4, LastIsPlace, Places
  <2>2. 0 \in G
    <3>1. From(c, 1) = c
      BY <1>2, SubSeqFull DEF From
    <3> QED BY <1>1, <1>2, <2>1, <3>1
  <2>3. ASSUME NEW k \in 1..n, k - 1 \in G PROVE k \in G
    <3> DEFINE d == p[k - 1]
    <3>1. /\ d \in Seq(Message) /\ Sound(d) /\ Last(c) \in ToSet(d)
          /\ p[k] = Apply(d, x[k]) /\ x[k] \in Extensions /\ k \in 0..n
          /\ (\A i \in 1..(k - 1) : x[i] = "window") => Tail0(k - 1)
      <4>1. k - 1 \in 0..n /\ k \in 0..n
        BY <1>2
      <4> QED BY <1>1, <1>2, <2>3, <4>1
    <3> HIDE DEF G
    <3>2. CASE x[k] = "context"
      <4>1. p[k] = AddContext(d)
        BY <3>1, <3>2 DEF Apply
      <4>2. Last(c) \in ToSet(p[k])
        BY <3>1, <4>1, AddContextAdds
      <4>3. ~ (\A i \in 1..k : x[i] = "window")
        BY <3>2
      <4> QED BY <3>1, <4>2, <4>3 DEF G
    <3>3. CASE x[k] # "context"
      <4>1. \A i \in 1..(k - 1) : x[i] = "window"
        <5> SUFFICES ASSUME NEW i \in 1..(k - 1) PROVE x[i] = "window"
          OBVIOUS
        <5>1. i \in 1..n /\ k \in 1..n /\ i < k
          BY <1>2
        <5> QED BY <1>2, <1>4, <3>3, <5>1 DEF OrderKeepsInput, x
      <4>2. PICK j \in 1..Len(c) : d = From(c, j)
        BY <3>1, <4>1
      <4>3. /\ d \in Seq(Message) /\ Len(d) = Len(c) - j + 1 /\ d # <<>> /\ Last(d) = Last(c)
        <5>1. j \in 1..(Len(c) + 1) /\ Len(c) - j + 1 \in 1..(Len(c) - j + 1)
              /\ (Len(c) - j + 1) + j - 1 = Len(c)
          BY <1>2
        <5>2. /\ From(c, j) \in Seq(Message) /\ Len(From(c, j)) = Len(c) - j + 1
              /\ From(c, j)[Len(c) - j + 1] = c[(Len(c) - j + 1) + j - 1]
          BY <1>2, <5>1, FromPlaces
        <5>3. Len(d) # 0
          BY <1>2, <4>2, <5>2
        <5>4. d # <<>>
          BY <5>3
        <5>5. Last(d) = c[Len(c)]
          BY <4>2, <5>1, <5>2 DEF Last
        <5> QED BY <2>1, <4>2, <5>2, <5>4, <5>5
      <4>4. CASE x[k] = "window"
        <5>1. p[k] = Window(d)
          BY <3>1, <4>4 DEF Apply
        <5>2. PICK i \in 1..(Len(d) + 1) : Window(d) = From(d, i) /\ i <= Len(d)
          BY <1>4, <3>1, <4>3, WindowLeaves
        <5>3. i \in 1..(Len(c) - j + 2) /\ i + j - 1 \in 1..Len(c) /\ j \in 1..(Len(c) + 1)
          BY <1>2, <4>3, <5>2
        <5>4. p[k] = From(c, i + j - 1)
          BY <1>2, <4>2, <5>1, <5>2, <5>3, FromFrom
        <5>5. Last(c) \in ToSet(p[k])
          <6>1. Len(d) \in Nat /\ Len(d) - i + 1 \in 1..(Len(d) - i + 1)
                /\ (Len(d) - i + 1) + i - 1 = Len(d)
            BY <1>2, <4>3, <5>2
          <6>2. /\ From(d, i) \in Seq(Message) /\ Len(From(d, i)) = Len(d) - i + 1
                /\ From(d, i)[Len(d) - i + 1] = d[(Len(d) - i + 1) + i - 1]
            BY <4>3, <5>2, <6>1, FromPlaces
          <6>3. From(d, i)[Len(d) - i + 1] = Last(c)
            BY <4>3, <6>1, <6>2 DEF Last
          <6>4. Last(c) \in ToSet(From(d, i))
            BY <6>1, <6>2, <6>3, Places
          <6> QED BY <5>1, <5>2, <6>4
        <5> QED BY <3>1, <5>3, <5>4, <5>5 DEF G
      <4>5. CASE x[k] = "compaction"
        <5>1. p[k] = Compact(d)
          BY <3>1, <4>5 DEF Apply
        <5>2. ~ OverLimit(From(d, TailStart(d)))
          <6> DEFINE t == TailStart(d)
          <6> SUFFICES ASSUME OverLimit(From(d, t)) PROVE FALSE
            OBVIOUS
          <6>1. t \in 1..(Len(c) - j + 2) /\ t + j - 1 \in 1..(Len(c) + 1)
                /\ TailStart(c) \in 1..(Len(c) + 1) /\ t + j - 1 \in TailStart(c)..(Len(c) + 1)
            BY <1>2, <4>3 DEF TailStart
          <6> HIDE DEF t
          <6>2. From(d, t) = From(c, t + j - 1)
            <7>1. j \in 1..(Len(c) + 1)
              BY <1>2
            <7> QED BY <1>2, <4>2, <6>1, <7>1, FromFrom
          <6> QED BY <1>2, <1>4, <6>1, <6>2, LimitIsForTails
        <5>3. Last(c) \in ToSet(p[k])
          BY <1>4, <3>1, <4>3, <5>1, <5>2, CompactLeaves
        <5>4. ~ (\A i \in 1..k : x[i] = "window")
          BY <4>5
        <5> QED BY <3>1, <5>3, <5>4 DEF G
      <4> QED BY <3>1, <3>3, <4>4, <4>5 DEF Extensions
    <3> QED BY <3>2, <3>3
  <2>4. \A k \in 0..n : k \in G
    <3>1. G \in SUBSET (0..n)
      OBVIOUS
    <3> HIDE DEF G
    <3> QED BY <1>2, <2>2, <2>3, <3>1, PlaceByPlace
  <2>5. n \in G
    <3>1. n \in 0..n
      BY <1>2
    <3> QED BY <2>4, <3>1
  <2> QED BY <1>1, <2>5
<1> QED BY <1>3, <1>4 DEF result

LEMMA MsgTyped ==
  ASSUME turn \in 0..MaxTurns, step \in 0..MaxSteps, NEW kind \in Kinds, NEW tools \in SUBSET AllTools,
         NEW text \in BOOLEAN
  PROVE  /\ Msg(kind, tools, text) \in Message
         /\ Msg(kind, tools, text).kind = kind /\ Msg(kind, tools, text).tools = tools
         /\ Msg(kind, tools, text).turn = turn /\ Msg(kind, tools, text).step = step
         /\ Msg(kind, tools, text).text = text
BY DEF Msg, Message

LEMMA FallbackTyped ==
  ASSUME turn \in 0..MaxTurns, step \in 0..MaxSteps
  PROVE  /\ Fallback \in Message /\ Plain(Fallback) /\ Fallback.kind = "assistant"
         /\ Fallback.turn = turn /\ Fallback.step = 0 /\ Fallback.text
<1> DEFINE m == Msg("assistant", {}, TRUE)
<1>1. /\ m \in Message /\ m.kind = "assistant" /\ m.tools = {} /\ m.turn = turn /\ m.text = TRUE
  <2>1. "assistant" \in Kinds /\ {} \in SUBSET AllTools /\ TRUE \in BOOLEAN
    BY DEF Kinds
  <2>2. m = [kind |-> "assistant", turn |-> turn, step |-> step, tools |-> {}, text |-> TRUE, size |-> 1]
    BY DEF Msg
  <2> HIDE DEF m
  <2>3. m \in Message
    BY <2>1, <2>2 DEF Message
  <2>4. m.kind = "assistant" /\ m.tools = {} /\ m.turn = turn /\ m.text = TRUE
    BY <2>2
  <2> QED BY <2>3, <2>4
<1>2. Fallback = [m EXCEPT !.step = 0] /\ 0 \in 0..MaxSteps
  BY TurnAssumption DEF Fallback
<1> HIDE DEF m
<1>3. Fallback \in Message /\ Fallback.tools = {} /\ Fallback.kind = "assistant"
      /\ Fallback.turn = turn /\ Fallback.step = 0 /\ Fallback.text = TRUE
  BY <1>1, <1>2 DEF Message
<1> QED BY <1>3 DEF Plain

\* Answers may come after any sound conversation.
LEMMA FlushedSound ==
  ASSUME turn \in 0..MaxTurns, step \in 0..MaxSteps, inbox \in Nat, Sound(conv)
  PROVE  Sound(Flushed) /\ ToSet(conv) \subseteq ToSet(Flushed)
<1> DEFINE m == Msg("answer", {}, TRUE)
           a == [i \in 1..inbox |-> m]
           d == Flushed
           n == Len(conv)
<1>1. m \in Message /\ m.kind = "answer"
  <2>1. "answer" \in Kinds /\ {} \in SUBSET AllTools /\ TRUE \in BOOLEAN
    BY DEF Kinds
  <2> QED BY <2>1, MsgTyped
<1>2. conv \in Seq(Message) /\ n \in Nat
  BY Places DEF Sound, Half
<1> HIDE DEF m
<1>3. a \in Seq(Message) /\ Len(a) = inbox /\ \A i \in 1..inbox : a[i] = m
  BY <1>1
<1>4. d = conv \o a
  BY DEF Flushed, m
<1> HIDE DEF a, d, n
<1>5. /\ d \in Seq(Message) /\ Len(d) = n + inbox
      /\ \A i \in 1..n : d[i] = conv[i]
      /\ \A i \in 1..Len(d) : i \in 1..n \/ d[i] = m
  <2>1. /\ conv \o a \in Seq(Message) /\ Len(conv \o a) = Len(conv) + Len(a)
        /\ \A i \in 1..Len(conv) + Len(a) :
             (conv \o a)[i] = IF i <= Len(conv) THEN conv[i] ELSE a[i - Len(conv)]
    BY <1>2, <1>3, ConcatProperties
  <2>2. ASSUME NEW i \in 1..(n + inbox) PROVE d[i] = IF i <= n THEN conv[i] ELSE m
    <3>1. ~ (i <= n) => i - n \in 1..inbox
      BY <1>2
    <3> QED BY <1>3, <1>4, <2>1, <3>1 DEF n
  <2>3. Len(d) = n + inbox
    BY <1>3, <1>4, <2>1 DEF n
  <2>4. \A i \in 1..n : i \in 1..(n + inbox) /\ i <= n
    BY <1>2
  <2>5. d \in Seq(Message)
    BY <1>4, <2>1
  <2>6. \A i \in 1..n : d[i] = conv[i]
    BY <2>2, <2>4
  <2>7. \A i \in 1..(n + inbox) : i \in 1..n \/ ~ (i <= n)
    BY <1>2
  <2>8. \A i \in 1..(n + inbox) : i \in 1..n \/ d[i] = m
    BY <2>2, <2>7
  <2> QED BY <2>3, <2>5, <2>6, <2>8
<1>6. /\ \A i \in 1..n : Results(conv[i]) # {} => i > 1 /\ Answers(conv[i], conv[i - 1])
      /\ \A i \in 1..(n - 1) : IsCall(conv[i]) => IsFor(conv[i + 1], conv[i])
      /\ n > 0 => ~ IsCall(conv[n])
  <2>1. n > 0 => conv # <<>> /\ Last(conv) = conv[n]
    BY <1>2, LastIsPlace DEF n
  <2> QED BY <2>1 DEF Sound, Half, n
<1>7. Results(m) = {} /\ ~ IsCall(m)
  BY <1>1 DEF Results, IsCall
<1>8. ASSUME NEW i \in 1..Len(d), Results(d[i]) # {} PROVE i > 1 /\ Answers(d[i], d[i - 1])
  <2>1. i \in 1..n /\ d[i] = conv[i]
    BY <1>5, <1>7, <1>8
  <2>2. i > 1 /\ Answers(conv[i], conv[i - 1])
    BY <1>6, <1>8, <2>1
  <2>3. i - 1 \in 1..n
    BY <1>2, <2>1, <2>2
  <2> QED BY <1>5, <2>1, <2>2, <2>3
<1>10. ASSUME NEW i \in 1..Len(d), IsCall(d[i]) PROVE i \in 1..(n - 1)
  <2>1. i \in 1..n /\ IsCall(conv[i])
    BY <1>5, <1>7, <1>10
  <2> QED BY <1>2, <1>6, <2>1
<1>11. ASSUME NEW i \in 1..(Len(d) - 1), IsCall(d[i]) PROVE IsFor(d[i + 1], d[i])
  <2>1. i \in 1..Len(d)
    BY <1>2, <1>5
  <2>2. i \in 1..(n - 1)
    BY <1>10, <1>11, <2>1
  <2>3. i \in 1..n /\ i + 1 \in 1..n
    BY <1>2, <2>2
  <2> QED BY <1>5, <1>6, <1>11, <2>2, <2>3
<1>12. ASSUME d # <<>> PROVE ~ IsCall(Last(d))
  <2>1. Len(d) # 0 /\ Last(d) = d[Len(d)] /\ Len(d) \in 1..Len(d)
    BY <1>5, <1>12, LastIsPlace
  <2>2. Len(d) \notin 1..(n - 1)
    BY <1>2, <1>5
  <2> QED BY <1>10, <2>1, <2>2
<1>13. Sound(d)
  BY <1>5, <1>8, <1>11, <1>12 DEF Sound, Half
<1>14. ToSet(conv) \subseteq ToSet(d)
  <2>1. DOMAIN conv = 1..n /\ DOMAIN d = 1..Len(d) /\ 1..n \subseteq 1..Len(d)
    <3>1. DOMAIN conv = 1..n /\ DOMAIN d = 1..Len(d)
      BY <1>2, <1>5, Places DEF n
    <3> QED BY <1>2, <1>5, <3>1
  <2> QED BY <1>5, <2>1 DEF ToSet
<1> QED BY <1>13, <1>14 DEF d

\* Making a text of an answer changes nothing else.
LEMMA FormattedSound ==
  ASSUME NEW c, Sound(c)
  PROVE  /\ Sound(Formatted(c)) /\ \A m \in ToSet(Formatted(c)) : ~ Unformatted(m)
         /\ \A m \in ToSet(c) : ~ Unformatted(m) => m \in ToSet(Formatted(c))
<1> DEFINE d == Formatted(c)
           n == Len(c)
<1>1. c \in Seq(Message) /\ n \in Nat /\ DOMAIN c = 1..n /\ \A i \in 1..n : c[i] \in Message
  BY Places DEF Sound, Half
<1>2. ASSUME NEW m \in Message
      PROVE  /\ [m EXCEPT !.kind = "formatted"] \in Message
             /\ [m EXCEPT !.kind = "formatted"].kind = "formatted"
  BY DEF Message, Kinds
<1>3. /\ DOMAIN d = 1..n
      /\ \A i \in 1..n : d[i] = IF Unformatted(c[i]) THEN [c[i] EXCEPT !.kind = "formatted"] ELSE c[i]
  BY <1>1 DEF Formatted
<1>4. \A i \in 1..n : d[i] \in Message
  <2> SUFFICES ASSUME NEW i \in 1..n PROVE d[i] \in Message
    OBVIOUS
  <2> HIDE DEF d, n
  <2> QED BY <1>1, <1>2, <1>3
<1>5. d \in Seq(Message) /\ Len(d) = n
  <2>1. d = [i \in 1..n |-> d[i]]
    BY <1>1 DEF Formatted
  <2> HIDE DEF d, n
  <2> QED BY <1>1, <1>4, <2>1
<1> HIDE DEF d, n
<1>6. ASSUME NEW i \in 1..n
      PROVE  /\ ~ Unformatted(c[i]) => d[i] = c[i]
             /\ Unformatted(c[i]) => d[i].kind = "formatted"
             /\ ~ Unformatted(d[i])
             /\ Results(d[i]) # {} \/ IsCall(d[i]) \/ d[i].kind \in {"results"} => d[i] = c[i]
  <2>1. CASE Unformatted(c[i])
    <3>1. d[i].kind = "formatted"
      BY <1>1, <1>2, <1>3, <2>1
    <3> QED BY <2>1, <3>1 DEF Unformatted, Results, IsCall
  <2>2. CASE ~ Unformatted(c[i])
    BY <1>3, <2>2
  <2> QED BY <2>1, <2>2
<1>7. /\ \A i \in 1..n : Results(c[i]) # {} => i > 1 /\ Answers(c[i], c[i - 1])
      /\ \A i \in 1..(n - 1) : IsCall(c[i]) => IsFor(c[i + 1], c[i])
      /\ n > 0 => ~ IsCall(c[n])
  <2>1. n > 0 => c # <<>> /\ Last(c) = c[n]
    BY <1>1, LastIsPlace DEF n
  <2> QED BY <2>1 DEF Sound, Half, n
<1>8. ASSUME NEW i \in 1..n, Results(d[i]) # {} PROVE i > 1 /\ Answers(d[i], d[i - 1])
  <2>1. d[i] = c[i]
    BY <1>6, <1>8
  <2>2. i > 1 /\ Answers(c[i], c[i - 1])
    BY <1>7, <1>8, <2>1
  <2>3. i - 1 \in 1..n
    BY <1>1, <2>2
  <2>4. Calls(c[i - 1]) # {}
    BY <1>8, <2>1, <2>2 DEF Answers
  <2>5. d[i - 1] = c[i - 1]
    BY <1>6, <2>3, <2>4 DEF Calls, Unformatted
  <2> QED BY <2>1, <2>2, <2>5
<1>10. ASSUME NEW i \in 1..(n - 1), IsCall(d[i]) PROVE IsFor(d[i + 1], d[i])
  <2>1. i \in 1..n /\ i + 1 \in 1..n
    BY <1>1
  <2>2. d[i] = c[i]
    BY <1>6, <1>10, <2>1
  <2>3. IsFor(c[i + 1], c[i])
    BY <1>7, <1>10, <2>2
  <2>4. d[i + 1] = c[i + 1]
    BY <1>6, <2>1, <2>3 DEF IsFor, Unformatted
  <2> QED BY <2>2, <2>3, <2>4
<1>11. ASSUME d # <<>> PROVE ~ IsCall(Last(d))
  <2>1. n # 0 /\ Last(d) = d[n] /\ n \in 1..n
    BY <1>5, <1>11, LastIsPlace
  <2> QED BY <1>1, <1>6, <1>7, <2>1
<1>12. Sound(d)
  BY <1>5, <1>8, <1>10, <1>11 DEF Sound, Half
<1> QED BY <1>1, <1>3, <1>6, <1>12 DEF ToSet, d

-----------------------------------------------------------------------------
(* The invariant *)

Running == {"loop", "model", "tools", "guard", "after"}
Ended == {"save", "persist"}

\* All of the type but the sequences, which Sound types.
RestTyped ==
  /\ savedSelection \subseteq AllTools /\ selection \subseteq AllTools /\ offered \subseteq AllTools
  /\ pc \in {"idle", "failed"} \cup Running \cup Ended
  /\ turn \in 0..MaxTurns /\ step \in 0..MaxSteps /\ lastText \in 0..MaxSteps
  /\ todo \subseteq AllTools /\ results \subseteq AllTools
  /\ called \subseteq AllTools /\ noted \subseteq called
  /\ verdict \in {"none", "go on", "stop", "retry:empty", "retry:malformed"}
  /\ retries \in [{"retry:empty", "retry:malformed"} -> 0..MaxRetries + 1]
  /\ inbox \in 0..MaxAnswers
  /\ ending \in {"none", "text", "max_steps", "gave_up", "error"}
  /\ input \in Message

\* While the tools of a step run, their call is the end of the conversation.
CallIsLast ==
  /\ Half(conv) /\ conv # <<>> /\ IsCall(Last(conv))
  /\ Last(conv).turn = turn /\ Last(conv).step = step /\ Last(conv).tools = todo \cup results

TalkOK ==
  /\ Sound(stored) /\ \A m \in ToSet(stored) : Sendable(m)
  /\ Sound(sent) /\ \A m \in ToSet(sent) : ~ Unformatted(m)
  /\ pc # "tools" => Sound(conv)
  /\ pc = "tools" => CallIsLast
  /\ pc = "model" => results = {} /\ sent = ToConversationTurns(conv)
  /\ Plain(input) /\ Results(input) = {}
  /\ pc \in Running => input.kind = "inbound"

\* A text of step t of the turn.
Spoken(c, t) ==
  \E m \in ToSet(c) : m.kind \in {"assistant", "malformed"} /\ m.text /\ m.turn = turn /\ m.step = t

\* The last text stays in the conversation until the turn is stored.
SpokenOK ==
  /\ pc \in Running /\ lastText # 0 => Spoken(conv, lastText)
  /\ pc = "idle" => lastText = 0
  /\ ending \in {"text", "max_steps"} => pc \in Ended /\ Spoken(conv, lastText)

GuardOK ==
  /\ (pc = "after" /\ verdict = "stop") \/ ending = "text" => Required = {} \/ called \cap Required # {}
  /\ pc \notin Ended => ending = "none" /\ \A k \in DOMAIN retries : retries[k] <= MaxRetries

\* The end of what the turn begins with, which the compaction keeps.
TailFits ==
  LET h == Append(stored, input) IN ~ OverLimit(From(h, TailStart(h)))

HeardOK ==
  OrderKeepsInput /\ RetainLast # 0 /\ TailFits /\ pc \in Running => input \in ToSet(conv)

Inv == RestTyped /\ TalkOK /\ SpokenOK /\ GuardOK /\ HeardOK

\* What a step of a turn leaves in the conversation.
Stays == \A m \in ToSet(conv) : ~ Unformatted(m) => m \in ToSet(conv')

LEMMA Limits ==
  /\ MaxSteps \in Nat /\ MaxRetries \in Nat /\ MaxTurns \in Nat /\ MaxAnswers \in Nat
  /\ MaxSteps > 0 /\ Sizes \subseteq Nat /\ Required \subseteq AllTools
BY TurnAssumption DEF AllTools

LEMMA OneMore ==
  ASSUME NEW n \in Nat, NEW k \in 0..n
  PROVE  k + 1 \in 0..n + 1 /\ (k < n => k + 1 \in 0..n) /\ 0 \in 0..n /\ 0 \in 0..n + 1
OBVIOUS

LEMMA InitInv == Init => Inv
<1> SUFFICES ASSUME Init PROVE Inv
  OBVIOUS
<1> USE DEF Init
<1>1. RestTyped
  BY AddedMessages, Limits DEF RestTyped, NoRetries, Running, Ended
<1>2. ToSet(<<>>) = {}
  BY DEF ToSet
<1>3. TalkOK
  BY <1>2, NothingIsSound, AddedMessages DEF TalkOK, Running, Results
<1>4. SpokenOK
  BY DEF SpokenOK, Running
<1>5. GuardOK
  BY Limits DEF GuardOK, NoRetries, Ended
<1>6. HeardOK
  BY DEF HeardOK, Running
<1> QED BY <1>1, <1>3, <1>4, <1>5, <1>6 DEF Inv

LEMMA RestTypedKept ==
  ASSUME RestTyped, GuardOK, Next
  PROVE  RestTyped'
<1>0. 0 \in 0..MaxSteps /\ 0 \in 0..MaxAnswers /\ 0 \in 0..MaxRetries + 1
  BY Limits
<1>1. 0 \in 0..MaxSteps /\ 0 \in 0..MaxAnswers /\ NoRetries \in [{"retry:empty", "retry:malformed"} -> 0..MaxRetries + 1]
  BY <1>0 DEF NoRetries
<1> USE DEF RestTyped, Running, Ended
<1>2. CASE ModelFails
  BY <1>2 DEF ModelFails, turnVars, stepVars, guardVars
<1>3. ASSUME NEW r \in Responses, ModelAnswers(r) PROVE RestTyped'
  <2>1. r.tools \subseteq AllTools
    BY ResponsesAssumption DEF Response
  <2>2. /\ verdict' \in {"go on", "stop", "retry:empty", "retry:malformed"}
        /\ lastText' \in 0..MaxSteps /\ todo' \subseteq AllTools /\ pc' \in {"tools", "guard"}
    BY <1>3, <2>1 DEF ModelAnswers, ClassifyModelStepRetryKind
  <2>3. UNCHANGED <<savedSelection, selection, step, retries, inbox, ending, turn, input, offered, results, called, noted>>
    BY <1>3 DEF ModelAnswers, turnVars, guardVars
  <2> QED BY <2>2, <2>3
<1>4. ASSUME NEW t \in AllTools, NEW o \in Outcomes, RunTool(t, o) PROVE RestTyped'
  <2>1. /\ todo' \subseteq AllTools /\ results' \subseteq AllTools /\ called' \subseteq AllTools /\ noted' \subseteq called'
    BY <1>4 DEF RunTool, Execute
  <2>2. selection' \subseteq AllTools
    BY <1>4 DEF RunTool, Execute, Search, SearchSnapshot
  <2>3. UNCHANGED <<savedSelection, pc, step, verdict, retries, lastText, inbox, ending, turn, input, offered>>
    BY <1>4 DEF RunTool, turnVars
  <2> QED BY <2>1, <2>2, <2>3
<1>5. CASE StepLimit
  BY <1>1, <1>5 DEF StepLimit, End, turnVars, stepVars, guardVars
<1>6. CASE BeginStep
  <2>1. step + 1 \in 0..MaxSteps
    BY <1>6, Limits, OneMore DEF BeginStep
  <2>2. offered' \subseteq AllTools /\ step' \in 0..MaxSteps /\ pc' = "model" /\ inbox' = 0 /\ todo' = {} /\ results' = {}
        /\ verdict' = "none"
    BY <1>6, <2>1 DEF BeginStep, Filtered
  <2>3. UNCHANGED <<savedSelection, selection, retries, lastText, ending, turn, input, called, noted>>
    BY <1>6 DEF BeginStep, turnVars, guardVars
  <2> QED BY <1>1, <2>2, <2>3
<1>7. CASE ToolsDone
  BY <1>7 DEF ToolsDone, turnVars, guardVars
<1>8. CASE GuardSatisfied
  BY <1>8 DEF GuardSatisfied, turnVars, stepVars
<1>9. CASE GuardDemands
  BY <1>9 DEF GuardDemands, turnVars, stepVars, guardVars
<1>10. CASE Retry
  <2>1. verdict \in {"retry:empty", "retry:malformed"} /\ retries[verdict] \in 0..MaxRetries
    <3>1. verdict \in {"retry:empty", "retry:malformed"} /\ retries[verdict] \in 0..MaxRetries + 1
          /\ retries[verdict] <= MaxRetries
      BY <1>10 DEF Retry, GuardOK
    <3> HIDE DEF RestTyped
    <3> QED BY <3>1, Limits
  <2>2. retries' \in [{"retry:empty", "retry:malformed"} -> 0..MaxRetries + 1]
    <3>1. retries[verdict] + 1 \in 0..MaxRetries + 1
      BY <2>1, Limits, OneMore
    <3> QED BY <1>1, <1>10, <2>1, <3>1 DEF Retry
  <2>3. pc' \in {"save", "loop"} /\ ending' \in {ending, "gave_up"}
    BY <1>10 DEF Retry, End
  <2>4. UNCHANGED <<savedSelection, selection, step, verdict, lastText, inbox, turn, input, todo, results, offered, called, noted>>
    BY <1>10 DEF Retry, turnVars, stepVars, guardVars
  <2> QED BY <2>2, <2>3, <2>4
<1>11. CASE GoOn
  BY <1>1, <1>11 DEF GoOn, turnVars, stepVars, guardVars
<1>12. CASE Finish
  BY <1>1, <1>12 DEF Finish, End, turnVars, stepVars, guardVars
<1>13. CASE Failed
  BY <1>13 DEF Failed, End, turnVars, stepVars, guardVars
<1>14. CASE SaveExtensions
  BY <1>14 DEF SaveExtensions, turnVars, stepVars, guardVars
<1>15. CASE Persist
  BY <1>1, <1>15, AddedMessages DEF Persist, Forgotten
<1>16. CASE Crash
  BY <1>1, <1>16, AddedMessages DEF Crash, Forgotten
<1>17. CASE AnswerArrives
  <2>1. inbox + 1 \in 0..MaxAnswers
    BY <1>17, Limits, OneMore DEF AnswerArrives
  <2> QED BY <1>17, <2>1 DEF AnswerArrives, turnVars, stepVars, guardVars
<1>18. ASSUME NEW size \in Sizes, Begin(size) PROVE RestTyped'
  <2>1. turn + 1 \in 0..MaxTurns
    BY <1>18, Limits, OneMore DEF Begin
  <2>2. Inbound(turn + 1, size) \in Message
    <3>1. size \in Nat /\ "inbound" \in Kinds
      BY Limits DEF Kinds
    <3> QED BY <1>1, <2>1, <3>1 DEF Inbound, Context, Message
  <2> QED BY <1>18, <2>1, <2>2 DEF Begin, stepVars, guardVars
<1> QED
  BY <1>2, <1>3, <1>4, <1>5, <1>6, <1>7, <1>8, <1>9, <1>10, <1>11, <1>12, <1>13, <1>14, <1>15,
     <1>16, <1>17, <1>18 DEF Next, Model, Tools, Runtime, Environment

-----------------------------------------------------------------------------
(* Every step keeps it *)

\* A plain message may come at any time, and what was there stays.
LEMMA AppendPlain ==
  ASSUME NEW c, Sound(c), NEW m \in Message, Plain(m)
  PROVE  Sound(Append(c, m)) /\ ToSet(c) \subseteq ToSet(Append(c, m)) /\ m \in ToSet(Append(c, m))
<1>1. c \in Seq(Message)
  BY DEF Sound, Half
<1> QED BY <1>1, AppendSound, AppendPlaces

LEMMA AppendKeeps ==
  ASSUME NEW c \in Seq(Message), NEW m \in Message
  PROVE  ToSet(c) \subseteq ToSet(Append(c, m))
BY AppendPlaces

LEMMA SoundIsTyped ==
  ASSUME NEW c, Half(c)
  PROVE  c \in Seq(Message) /\ ToSet(c) \subseteq Message
BY Places DEF Half

\* The note of a retry or of the guard is plain.
LEMMA NoteIsPlain ==
  ASSUME RestTyped, NEW tools \in SUBSET AllTools
  PROVE  Msg("note", tools, TRUE) \in Message /\ Plain(Msg("note", tools, TRUE))
<1>1. turn \in 0..MaxTurns /\ step \in 0..MaxSteps /\ "note" \in Kinds /\ TRUE \in BOOLEAN
  BY DEF RestTyped, Kinds
<1>2. Msg("note", tools, TRUE) \in Message /\ Msg("note", tools, TRUE).kind = "note"
  BY <1>1, MsgTyped
<1> QED BY <1>2 DEF Plain

LEMMA FallbackOK ==
  ASSUME RestTyped
  PROVE  /\ Fallback \in Message /\ Plain(Fallback) /\ ~ Unformatted(Fallback)
         /\ Fallback.kind \in {"assistant", "malformed"} /\ Fallback.text
         /\ Fallback.turn = turn /\ Fallback.step = 0
<1>1. turn \in 0..MaxTurns /\ step \in 0..MaxSteps
  BY DEF RestTyped
<1> QED BY <1>1, FallbackTyped DEF Unformatted

\* What the model said is plain, or it is the call of the tools that run next.
LEMMA AnswerKept ==
  ASSUME RestTyped, TalkOK, NEW r \in Responses, ModelAnswers(r)
  PROVE  TalkOK' /\ Stays /\ (r.text = "text" => Spoken(conv', step))
<1> DEFINE kind == IF r.fault = "bad call" THEN "malformed" ELSE "assistant"
           m == Msg(kind, r.tools, r.text = "text")
<1>1. r.tools \in SUBSET AllTools /\ r.text \in {"none", "blank", "text"} /\ r.fault \in {"none", "bad call", "no call"}
  BY ResponsesAssumption DEF Response
<1>2. Sound(conv) /\ results = {} /\ conv \in Seq(Message)
  BY SoundIsTyped DEF TalkOK, ModelAnswers, Sound
<1>3. m \in Message /\ m.kind = kind /\ m.tools = r.tools /\ m.turn = turn /\ m.step = step
  <2>1. turn \in 0..MaxTurns /\ step \in 0..MaxSteps /\ kind \in Kinds
    BY DEF RestTyped, Kinds
  <2> HIDE DEF kind
  <2>2. CASE r.text = "text"
    <3>1. m = Msg(kind, r.tools, TRUE) /\ TRUE \in BOOLEAN
      BY <2>2 DEF Msg
    <3> QED BY <1>1, <2>1, <3>1, MsgTyped
  <2>3. CASE r.text # "text"
    <3>1. m = Msg(kind, r.tools, FALSE) /\ FALSE \in BOOLEAN
      BY <2>3 DEF Msg
    <3> QED BY <1>1, <2>1, <3>1, MsgTyped
  <2> QED BY <2>2, <2>3
<1>4. r.text = "text" => m.text
  BY DEF Msg
<1>5. Said(r) = IF Content(r) THEN Append(conv, m) ELSE conv
  BY DEF Said
<1>7. r.fault = "no call" => r.tools = {}
  BY DEF ModelAnswers, MayAnswer
<1>8. kind \in {"malformed", "assistant"} /\ (r.fault = "none" => kind = "assistant")
      /\ (r.fault = "bad call" => kind = "malformed")
  OBVIOUS
<1> HIDE DEF m, kind
<1>6. /\ Append(conv, m) \in Seq(Message) /\ ToSet(Append(conv, m)) = ToSet(conv) \cup {m}
      /\ Append(conv, m) # <<>> /\ Last(Append(conv, m)) = m
  BY <1>2, <1>3, AppendPlaces, LastOfAppend
<1>9. r.tools = {} \/ r.fault # "none" => Sound(Said(r))
  <2>1. r.tools = {} \/ r.fault # "none" => Plain(m)
    BY <1>1, <1>3, <1>7, <1>8 DEF Plain
  <2> QED BY <1>2, <1>3, <1>5, <2>1, AppendSound
<1>10. ToSet(conv) \subseteq ToSet(Said(r)) /\ (r.text = "text" => m \in ToSet(Said(r)))
  BY <1>5, <1>6 DEF Content
<1>11. /\ stored' = stored /\ sent' = <<>> /\ input' = input /\ turn' = turn /\ step' = step /\ results' = results
       /\ verdict' = ClassifyModelStepRetryKind(r)
       /\ pc' = IF verdict' = "go on" THEN "tools" ELSE "guard"
       /\ todo' = IF verdict' = "go on" THEN r.tools ELSE {}
       /\ pc = "model"
  BY DEF ModelAnswers, turnVars
<1>12. conv' = IF verdict' \in {"retry:empty", "retry:malformed"} THEN Append(Said(r), Msg("note", {}, TRUE)) ELSE Said(r)
  BY DEF ModelAnswers, RestTyped
<1>13. ToSet(<<>>) = {}
  BY DEF ToSet
<1>14. /\ Sound(stored') /\ \A x \in ToSet(stored') : Sendable(x)
       /\ Sound(sent') /\ \A x \in ToSet(sent') : ~ Unformatted(x)
       /\ Plain(input') /\ Results(input') = {} /\ input'.kind = "inbound"
  BY <1>11, <1>13, NothingIsSound DEF TalkOK, Running
<1>15. ASSUME verdict' = "go on" PROVE TalkOK'
  <2>1. r.fault = "none" /\ r.tools # {}
    BY <1>11, <1>15 DEF ClassifyModelStepRetryKind
  <2>2. conv' = Append(conv, m)
    BY <1>5, <1>12, <1>15, <2>1 DEF Content
  <2>3. Half(conv')
    <3>1. conv # <<>> => ~ IsCall(Last(conv))
      BY <1>2 DEF Sound
    <3>2. Follows(m, conv)
      BY <1>3, <1>8, <2>1, <3>1 DEF Follows, Results
    <3> QED BY <1>2, <1>3, <2>2, <3>2, AppendHalf DEF Sound
  <2>4. CallIsLast'
    <3>1. IsCall(m) /\ m.turn = turn' /\ m.step = step' /\ m.tools = todo' \cup results'
      BY <1>2, <1>3, <1>8, <1>11, <1>15, <2>1 DEF IsCall
    <3>2. conv' # <<>> /\ Last(conv') = m
      BY <1>6, <2>2
    <3> QED BY <2>3, <3>1, <3>2 DEF CallIsLast
  <2>5. pc' = "tools"
    BY <1>11, <1>15
  <2> QED BY <1>14, <2>4, <2>5 DEF TalkOK
<1>16. ASSUME verdict' # "go on" PROVE TalkOK'
  <2>2. r.tools = {} \/ r.fault # "none"
    BY <1>11, <1>16 DEF ClassifyModelStepRetryKind, Content
  <2>3. Sound(Said(r))
    BY <1>9, <2>2
  <2>4. Sound(conv')
    BY <1>12, <2>3, NoteIsPlain, AppendPlain
  <2>5. pc' = "guard"
    BY <1>11, <1>16
  <2> QED BY <1>14, <2>4, <2>5 DEF TalkOK
<1>17. ToSet(Said(r)) \subseteq ToSet(conv')
  <2>1. Said(r) \in Seq(Message)
    BY <1>2, <1>5, <1>6
  <2>2. Msg("note", {}, TRUE) \in Message
    BY NoteIsPlain
  <2>3. ToSet(Said(r)) \subseteq ToSet(Append(Said(r), Msg("note", {}, TRUE)))
    BY <2>1, <2>2, AppendKeeps
  <2> QED BY <1>12, <2>3
<1>18. r.text = "text" => Spoken(conv', step)
  BY <1>3, <1>4, <1>8, <1>10, <1>17 DEF Spoken
<1>19. Stays
  BY <1>10, <1>17 DEF Stays
<1> QED BY <1>15, <1>16, <1>18, <1>19

LEMMA TurnNumbers ==
  ASSUME RestTyped
  PROVE  turn \in 0..MaxTurns /\ step \in 0..MaxSteps /\ inbox \in Nat
<1>1. inbox \in 0..MaxAnswers /\ turn \in 0..MaxTurns /\ step \in 0..MaxSteps
  BY DEF RestTyped
<1> QED BY <1>1, Limits

\* The steps of a turn but the answer of the model.
Working ==
  \/ StepLimit \/ BeginStep \/ ToolsDone \/ GuardSatisfied \/ GuardDemands \/ Retry \/ GoOn \/ Finish
  \/ AnswerArrives \/ Tools

\* A step that leaves the conversation, or appends plain messages.
LEMMA PlainStep ==
  ASSUME TalkOK, pc \in Running \ {"tools"}, UNCHANGED <<stored, input>>, sent' = sent,
         pc' \notin {"tools", "model"}, Sound(conv')
  PROVE  TalkOK'
BY DEF TalkOK, Running

LEMMA WorkingKept ==
  ASSUME RestTyped, TalkOK, Working
  PROVE  TalkOK' /\ Stays
<1>1. CASE StepLimit
  <2>1. turn \in 0..MaxTurns /\ step \in 0..MaxSteps /\ inbox \in Nat /\ Sound(conv)
    BY <1>1, TurnNumbers DEF TalkOK, StepLimit
  <2>2. Sound(Flushed) /\ ToSet(conv) \subseteq ToSet(Flushed)
    BY <2>1, FlushedSound
  <2>3. Sound(Append(Flushed, Fallback)) /\ ToSet(Flushed) \subseteq ToSet(Append(Flushed, Fallback))
    BY <2>2, FallbackOK, AppendPlain
  <2>4. conv' = IF lastText = 0 THEN Append(Flushed, Fallback) ELSE Flushed
    BY <1>1 DEF StepLimit, End, WithReply
  <2>5. Sound(conv') /\ Stays
    BY <2>2, <2>3, <2>4 DEF Stays
  <2>6. pc = "loop" /\ pc' = "save" /\ UNCHANGED <<stored, input>> /\ sent' = sent
    BY <1>1 DEF StepLimit, End, turnVars
  <2> QED BY <2>5, <2>6, PlainStep DEF Running
<1>2. CASE BeginStep
  <2>1. turn \in 0..MaxTurns /\ step \in 0..MaxSteps /\ inbox \in Nat /\ Sound(conv)
    BY <1>2, TurnNumbers DEF TalkOK, BeginStep
  <2>2. Sound(Flushed) /\ ToSet(conv) \subseteq ToSet(Flushed)
    BY <2>1, FlushedSound
  <2>3. /\ Sound(Formatted(Flushed)) /\ \A m \in ToSet(Formatted(Flushed)) : ~ Unformatted(m)
        /\ \A m \in ToSet(Flushed) : ~ Unformatted(m) => m \in ToSet(Formatted(Flushed))
    BY <2>2, FormattedSound
  <2>4. conv' = Formatted(Flushed) /\ sent' = ToConversationTurns(conv') /\ pc' = "model" /\ results' = {}
        /\ pc = "loop" /\ UNCHANGED <<stored, input>>
    BY <1>2 DEF BeginStep, turnVars
  <2>5. Sound(sent')
    BY <2>3, <2>4, SentSound
  <2>6. conv' \in Seq(Message)
    BY <2>3, <2>4, SoundIsTyped DEF Sound
  <2>7. \A m \in ToSet(sent') : ~ Unformatted(m)
    BY <2>3, <2>4, <2>6, SentMembers
  <2> QED BY <2>2, <2>3, <2>4, <2>5, <2>7 DEF TalkOK, Running, Stays
<1>3. CASE ToolsDone
  <2> DEFINE m == Msg("results", results, FALSE)
  <2>1. CallIsLast /\ todo = {}
    BY <1>3 DEF TalkOK, ToolsDone
  <2>2. m \in Message /\ m.kind = "results" /\ m.tools = results /\ m.turn = turn /\ m.step = step
    <3>1. /\ turn \in 0..MaxTurns /\ step \in 0..MaxSteps /\ "results" \in Kinds /\ FALSE \in BOOLEAN
          /\ results \in SUBSET AllTools
      BY DEF RestTyped, Kinds
    <3> QED BY <3>1, MsgTyped
  <2>3. conv' = Append(conv, m) /\ pc = "tools" /\ pc' = "guard" /\ UNCHANGED <<stored, input, sent>>
    BY <1>3 DEF ToolsDone, turnVars
  <2> HIDE DEF m
  <2>4. Sound(conv')
    <3>1. m.turn = Last(conv).turn /\ IsFor(m, Last(conv)) /\ IsCall(Last(conv))
      BY <2>1, <2>2 DEF CallIsLast, IsFor
    <3> QED BY <2>1, <2>2, <2>3, <3>1, AppendResults DEF CallIsLast
  <2>5. Stays
    BY <2>1, <2>2, <2>3, SoundIsTyped, AppendKeeps DEF CallIsLast, Stays
  <2> QED BY <2>3, <2>4, <2>5 DEF TalkOK, Running
<1>4. CASE GuardSatisfied
  <2>1. /\ pc = "guard" /\ pc' = "after" /\ UNCHANGED <<stored, input, conv>> /\ sent' = sent
    BY <1>4 DEF GuardSatisfied, turnVars
  <2> QED BY <2>1, PlainStep DEF TalkOK, Running, Stays
<1>5. CASE GuardDemands
  <2>1. /\ pc = "guard" /\ pc' = "after" /\ UNCHANGED <<stored, input>> /\ sent' = sent
        /\ conv' = Append(conv, Msg("note", Required, TRUE))
    BY <1>5 DEF GuardDemands, turnVars
  <2>2. Sound(conv)
    BY <2>1 DEF TalkOK
  <2>3. Sound(conv') /\ ToSet(conv) \subseteq ToSet(conv')
    BY <2>1, <2>2, Limits, NoteIsPlain, AppendPlain
  <2> QED BY <2>1, <2>3, PlainStep DEF Running, Stays
<1>6. CASE Retry
  <2>1. /\ pc = "after" /\ pc' \in {"save", "loop"} /\ UNCHANGED <<stored, input>> /\ sent' = sent
        /\ conv' \in {conv, Append(conv, Fallback)}
    BY <1>6 DEF Retry, End, turnVars
  <2>2. Sound(conv)
    BY <2>1 DEF TalkOK
  <2>3. Sound(conv') /\ ToSet(conv) \subseteq ToSet(conv')
    BY <2>1, <2>2, FallbackOK, AppendPlain
  <2> QED BY <2>1, <2>3, PlainStep DEF Running, Stays
<1>7. CASE GoOn
  <2>1. /\ pc = "after" /\ pc' = "loop" /\ UNCHANGED <<stored, input, conv>> /\ sent' = sent
    BY <1>7 DEF GoOn, turnVars
  <2> QED BY <2>1, PlainStep DEF TalkOK, Running, Stays
<1>8. CASE Finish
  <2>1. /\ pc = "after" /\ pc' = "save" /\ UNCHANGED <<stored, input>> /\ sent' = sent
        /\ conv' \in {conv, Append(conv, Fallback)}
    BY <1>8 DEF Finish, End, WithReply, turnVars
  <2>2. Sound(conv)
    BY <2>1 DEF TalkOK
  <2>3. Sound(conv') /\ ToSet(conv) \subseteq ToSet(conv')
    BY <2>1, <2>2, FallbackOK, AppendPlain
  <2> QED BY <2>1, <2>3, PlainStep DEF Running, Stays
<1>9. CASE AnswerArrives
  <2>1. UNCHANGED <<stored, sent, conv, pc, turn, step, input, todo, results>>
    BY <1>9 DEF AnswerArrives, turnVars, stepVars
  <2> QED BY <2>1 DEF TalkOK, CallIsLast, Stays
<1>10. ASSUME NEW t \in AllTools, NEW o \in Outcomes, RunTool(t, o) PROVE TalkOK' /\ Stays
  <2>1. /\ UNCHANGED <<stored, sent, conv, pc, turn, step, input>> /\ pc = "tools"
        /\ todo' \cup results' = todo \cup results
    BY <1>10 DEF RunTool, Execute, turnVars
  <2> QED BY <2>1 DEF TalkOK, CallIsLast, Stays
<1> QED BY <1>1, <1>2, <1>3, <1>4, <1>5, <1>6, <1>7, <1>8, <1>9, <1>10 DEF Working, Tools

\* A turn begins with its input at the end of what is stored.
LEMMA BeginKept ==
  ASSUME RestTyped, TalkOK, NEW size \in Sizes, Begin(size)
  PROVE  TalkOK' /\ HeardOK'
<1> DEFINE h == Append(stored, input')
<1>1. RestTyped' /\ input'.kind = "inbound"
  <2>1. turn + 1 \in 0..MaxTurns
    BY Limits, OneMore DEF Begin, RestTyped
  <2>2. 0 \in 0..MaxSteps /\ size \in Nat /\ "inbound" \in Kinds
    BY Limits DEF Kinds
  <2>3. input' \in Message /\ input'.kind = "inbound"
    BY <2>1, <2>2 DEF Begin, Inbound, Context, Message
  <2> QED BY <2>1, <2>3 DEF Begin, RestTyped, Running, stepVars, guardVars
<1>2. input' \in Message /\ Plain(input') /\ Results(input') = {}
  BY <1>1 DEF RestTyped, Plain, Results
<1>3. /\ Sound(stored) /\ UNCHANGED <<stored, sent>> /\ pc' = "loop"
      /\ conv' = FoldLeft(Apply, h, TurnExtensions)
  BY DEF TalkOK, Begin
<1>4. stored \in Seq(Message)
  BY <1>3, SoundIsTyped DEF Sound
<1>5. Sound(h) /\ h # <<>> /\ Last(h) = input'
  BY <1>2, <1>3, <1>4, AppendSound, LastOfAppend
<1>6. h = Append(stored, input)'
  BY <1>3
<1>7. TailFits' <=> ~ OverLimit(From(h, TailStart(h)))
  BY <1>6 DEF TailFits
<1> HIDE DEF h
<1>8. /\ Sound(conv')
      /\ OrderKeepsInput /\ RetainLast # 0 /\ ~ OverLimit(From(h, TailStart(h))) => input' \in ToSet(conv')
  BY <1>2, <1>3, <1>5, ExtensionsLeave
<1>9. TalkOK'
  BY <1>1, <1>2, <1>3, <1>8 DEF TalkOK, Running
<1>10. HeardOK'
  BY <1>7, <1>8 DEF HeardOK
<1> QED BY <1>9, <1>10

\* The end of a turn, whichever.
LEMMA EndKept ==
  ASSUME RestTyped, TalkOK, ModelFails \/ Failed \/ SaveExtensions \/ Persist \/ Crash
  PROVE  TalkOK'
<1>1. ToSet(<<>>) = {}
  BY DEF ToSet
<1>2. /\ Sound(<<>>) /\ Plain(Context) /\ Results(Context) = {}
  BY NothingIsSound, AddedMessages DEF Results
<1>3. CASE ModelFails
  BY <1>1, <1>2, <1>3 DEF ModelFails, TalkOK, Running, turnVars
<1>4. CASE Failed
  <2>1. Sound(stored) /\ stored \in Seq(Message) /\ input \in Message /\ Plain(input)
    BY SoundIsTyped DEF TalkOK, Sound, RestTyped
  <2>2. Sound(Append(Append(stored, input), Fallback))
    BY <2>1, FallbackOK, AppendPlain
  <2>3. Fallback \in Message
    BY FallbackOK
  <2> DEFINE f == Fallback
  <2>4. conv' = stored \o <<input, f>> /\ pc' = "save" /\ UNCHANGED <<stored, input>> /\ sent' = sent
    BY <1>4 DEF Failed, End, turnVars
  <2> HIDE DEF f
  <2>5. stored \o <<input, f>> = Append(Append(stored, input), f)
    BY <2>1, <2>3 DEF f
  <2>6. Sound(conv')
    BY <2>2, <2>4, <2>5 DEF f
  <2> QED BY <2>4, <2>6 DEF TalkOK, Running
<1>5. CASE SaveExtensions
  BY <1>5 DEF SaveExtensions, TalkOK, Running, turnVars
<1>6. CASE Persist
  <2>1. /\ stored' = ToConversationTurns(conv) /\ pc = "persist" /\ pc' = "idle" /\ conv' = <<>> /\ sent' = <<>>
        /\ input' = Context
    BY <1>6 DEF Persist, Forgotten
  <2>2. Sound(conv) /\ conv \in Seq(Message)
    BY <2>1, SoundIsTyped DEF TalkOK, Sound
  <2>3. Sound(stored') /\ \A m \in ToSet(stored') : Sendable(m)
    BY <2>1, <2>2, SentSound, SentMembers
  <2> QED BY <1>1, <1>2, <2>1, <2>3 DEF TalkOK, Running
<1>7. CASE Crash
  <2>1. stored' = stored /\ pc' = "idle" /\ conv' = <<>> /\ sent' = <<>> /\ input' = Context
    BY <1>7 DEF Crash, Forgotten
  <2> QED BY <1>1, <1>2, <2>1 DEF TalkOK, Running
<1> QED BY <1>3, <1>4, <1>5, <1>6, <1>7

\* What the turn has said stays, as its messages are not answers of others.
LEMMA SpokenStays ==
  ASSUME NEW t, Spoken(conv, t), Stays, turn' = turn
  PROVE  Spoken(conv', t)
BY DEF Spoken, Stays, Unformatted

LEMMA SpokenKept ==
  ASSUME RestTyped, TalkOK, SpokenOK, GuardOK, Next
  PROVE  SpokenOK'
<1>1. CASE ModelFails
  BY <1>1 DEF ModelFails, SpokenOK, GuardOK, Running, Ended
<1>2. ASSUME NEW r \in Responses, ModelAnswers(r) PROVE SpokenOK'
  <2>1. Stays /\ (r.text = "text" => Spoken(conv', step))
    BY <1>2, AnswerKept
  <2>2. /\ pc = "model" /\ pc' \in {"tools", "guard"} /\ turn' = turn /\ ending' = ending
        /\ lastText' = IF r.text = "text" THEN step ELSE lastText
    BY <1>2 DEF ModelAnswers, turnVars
  <2>3. ending = "none"
    BY <2>2 DEF GuardOK, Ended
  <2>4. lastText' # 0 => Spoken(conv', lastText')
    BY <2>1, <2>2, SpokenStays DEF SpokenOK, Running
  <2>5. Spoken(conv', lastText') => Spoken(conv, lastText)'
    BY <2>2 DEF Spoken
  <2> QED BY <2>2, <2>3, <2>4, <2>5 DEF SpokenOK, Running
<1>3. ASSUME Working PROVE SpokenOK'
  <2>1. Stays
    BY <1>3, WorkingKept
  <2>2. pc \in Running /\ pc' \in Running \cup Ended /\ turn' = turn /\ lastText' = lastText
    BY <1>3 DEF Working, StepLimit, BeginStep, ToolsDone, GuardSatisfied, GuardDemands, Retry, GoOn, Finish,
                AnswerArrives, Tools, RunTool, End, Running, Ended, turnVars
  <2>3. ending = "none" /\ (lastText # 0 => Spoken(conv, lastText))
    BY <2>2 DEF GuardOK, SpokenOK, Running, Ended
  <2>4. lastText # 0 => Spoken(conv', lastText)
    BY <2>1, <2>2, <2>3, SpokenStays
  <2>5. Spoken(conv', lastText) <=> Spoken(conv, lastText)'
    BY <2>2 DEF Spoken
  <2>6. ending' \in {"text", "max_steps"} => pc' \in Ended /\ Spoken(conv', lastText)
    <3>1. ASSUME NEW c \in Seq(Message), lastText = 0 PROVE Spoken(WithReply(c), lastText)
      <4>1. Fallback \in ToSet(WithReply(c))
        BY <3>1, FallbackOK, AppendPlaces DEF WithReply
      <4> QED BY <3>1, <4>1, FallbackOK DEF Spoken
    <3>2. CASE StepLimit
      <4>1. conv' = WithReply(Flushed) /\ pc' = "save"
        BY <3>2 DEF StepLimit, End
      <4>2. Flushed \in Seq(Message)
        <5>1. Sound(conv)
          BY <3>2 DEF TalkOK, StepLimit
        <5> QED BY <5>1, TurnNumbers, FlushedSound, SoundIsTyped DEF Sound
      <4> QED BY <2>4, <3>1, <4>1, <4>2 DEF Ended
    <3>3. CASE Finish
      <4>1. conv' = WithReply(conv) /\ pc' = "save" /\ pc = "after"
        BY <3>3 DEF Finish, End
      <4>2. conv \in Seq(Message)
        BY <4>1, SoundIsTyped DEF TalkOK, Sound
      <4> QED BY <2>4, <3>1, <4>1, <4>2 DEF Ended
    <3>4. CASE ~ StepLimit /\ ~ Finish
      BY <1>3, <2>3, <3>4 DEF Working, BeginStep, ToolsDone, GuardSatisfied, GuardDemands, Retry, GoOn,
                         AnswerArrives, Tools, RunTool, End
    <3> QED BY <3>2, <3>3, <3>4
  <2> QED BY <2>2, <2>4, <2>5, <2>6 DEF SpokenOK, Running, Ended
<1>4. CASE Failed
  BY <1>4 DEF Failed, End, SpokenOK, Running, Ended
<1>5. CASE SaveExtensions
  BY <1>5 DEF SaveExtensions, SpokenOK, Spoken, Running, Ended, turnVars
<1>6. CASE Persist \/ Crash
  BY <1>6 DEF Persist, Crash, Forgotten, SpokenOK, Running
<1>7. ASSUME NEW size \in Sizes, Begin(size) PROVE SpokenOK'
  <2>1. pc = "idle" /\ pc' = "loop" /\ lastText' = lastText /\ ending' = ending
    BY <1>7 DEF Begin
  <2>2. lastText = 0 /\ ending = "none"
    BY <2>1 DEF SpokenOK, GuardOK, Ended
  <2> QED BY <2>1, <2>2 DEF SpokenOK
<1> QED BY <1>1, <1>2, <1>3, <1>4, <1>5, <1>6, <1>7 DEF Next, Model, Tools, Runtime, Environment, Working

LEMMA GuardKept ==
  ASSUME RestTyped, GuardOK, Next
  PROVE  GuardOK'
<1>0. \A k \in DOMAIN NoRetries : NoRetries[k] <= MaxRetries
  BY Limits DEF NoRetries
<1> USE DEF GuardOK, Ended
<1>1. CASE ModelFails
  BY <1>1 DEF ModelFails, guardVars
<1>2. ASSUME NEW r \in Responses, ModelAnswers(r) PROVE GuardOK'
  BY <1>2 DEF ModelAnswers, guardVars
<1>3. ASSUME NEW t \in AllTools, NEW o \in Outcomes, RunTool(t, o) PROVE GuardOK'
  BY <1>3 DEF RunTool
<1>4. CASE StepLimit
  BY <1>4 DEF StepLimit, End, guardVars
<1>5. CASE BeginStep
  BY <1>5 DEF BeginStep, guardVars
<1>6. CASE ToolsDone
  BY <1>6 DEF ToolsDone, guardVars
<1>7. CASE GuardSatisfied
  <2>1. verdict = "stop" => Required = {} \/ called \cap Required # {}
    BY <1>7 DEF GuardSatisfied, Satisfied, RestTyped
  <2> QED BY <1>7, <2>1 DEF GuardSatisfied
<1>8. CASE GuardDemands
  BY <1>8 DEF GuardDemands, guardVars
<1>9. CASE Retry
  <2>1. /\ ending = "none" /\ verdict \in {"retry:empty", "retry:malformed"}
        /\ retries' = [NoRetries EXCEPT ![verdict] = retries[verdict] + 1]
        /\ IF retries'[verdict] > MaxRetries THEN pc' = "save" /\ ending' = "gave_up" ELSE pc' = "loop" /\ ending' = ending
    BY <1>9 DEF Retry, End, RestTyped
  <2>2. ~ (retries'[verdict] > MaxRetries) => \A k \in DOMAIN retries' : retries'[k] <= MaxRetries
    <3>1. \A k \in DOMAIN retries' : k # verdict => retries'[k] = 0
      BY <2>1 DEF NoRetries
    <3>2. retries'[verdict] \in Nat
      <4>1. retries[verdict] \in 0..MaxRetries + 1
        BY <2>1 DEF RestTyped
      <4>2. retries'[verdict] = retries[verdict] + 1
        BY <2>1 DEF NoRetries
      <4> QED BY <4>1, <4>2, Limits
    <3> QED BY <3>1, <3>2, Limits
  <2> QED BY <2>1, <2>2
<1>10. CASE GoOn
  BY <1>0, <1>10 DEF GoOn, guardVars
<1>11. CASE Finish
  BY <1>11 DEF Finish, End, guardVars
<1>12. CASE Failed
  BY <1>12 DEF Failed, End, guardVars
<1>13. CASE SaveExtensions
  BY <1>13 DEF SaveExtensions, guardVars
<1>14. CASE Persist \/ Crash
  BY <1>14, Limits DEF Persist, Crash, Forgotten, NoRetries
<1>15. CASE AnswerArrives
  BY <1>15 DEF AnswerArrives, guardVars
<1>16. ASSUME NEW size \in Sizes, Begin(size) PROVE GuardOK'
  BY <1>16 DEF Begin, guardVars
<1> QED
  BY <1>1, <1>2, <1>3, <1>4, <1>5, <1>6, <1>7, <1>8, <1>9, <1>10, <1>11, <1>12, <1>13, <1>14, <1>15,
     <1>16 DEF Next, Model, Tools, Runtime, Environment

LEMMA HeardKept ==
  ASSUME RestTyped, TalkOK, HeardOK, Next
  PROVE  HeardOK'
<1>1. CASE \/ Working \/ \E r \in Responses : ModelAnswers(r)
  <2>1. Stays
    BY <1>1, WorkingKept, AnswerKept
  <2>2. pc \in Running /\ UNCHANGED <<stored, input>>
    BY <1>1 DEF Working, StepLimit, BeginStep, ToolsDone, GuardSatisfied, GuardDemands, Retry, GoOn, Finish,
                AnswerArrives, Tools, RunTool, ModelAnswers, Running, turnVars
  <2>3. TailFits' <=> TailFits
    BY <2>2 DEF TailFits
  <2>4. ~ Unformatted(input)
    BY <2>2 DEF TalkOK, Unformatted
  <2> QED BY <2>1, <2>2, <2>3, <2>4 DEF HeardOK, Stays
<1>2. CASE ModelFails \/ Failed \/ SaveExtensions \/ Persist \/ Crash
  <2>1. pc' \in {"idle", "failed", "save", "persist"}
    BY <1>2 DEF ModelFails, Failed, End, SaveExtensions, Persist, Crash
  <2> QED BY <2>1 DEF HeardOK, Running
<1>3. ASSUME NEW size \in Sizes, Begin(size) PROVE HeardOK'
  BY <1>3, BeginKept
<1> QED BY <1>1, <1>2, <1>3 DEF Next, Model, Tools, Runtime, Environment, Working

LEMMA InvKept == Inv /\ [Next]_vars => Inv'
<1>1. ASSUME Inv, Next PROVE Inv'
  <2>1. RestTyped'
    BY <1>1, RestTypedKept DEF Inv
  <2>2. TalkOK'
    BY <1>1, AnswerKept, WorkingKept, BeginKept, EndKept
    DEF Inv, Next, Model, Tools, Runtime, Environment, Working
  <2>3. SpokenOK'
    BY <1>1, SpokenKept DEF Inv
  <2>4. GuardOK'
    BY <1>1, GuardKept DEF Inv
  <2>5. HeardOK'
    BY <1>1, HeardKept DEF Inv
  <2> QED BY <2>1, <2>2, <2>3, <2>4, <2>5 DEF Inv
<1>2. ASSUME Inv, UNCHANGED vars PROVE Inv'
  <2> USE DEF vars, turnVars, stepVars, guardVars
  <2>1. RestTyped'
    BY <1>2 DEF Inv, RestTyped
  <2>2. TalkOK'
    BY <1>2 DEF Inv, TalkOK, CallIsLast
  <2>3. SpokenOK'
    BY <1>2 DEF Inv, SpokenOK, Spoken
  <2>4. GuardOK'
    BY <1>2 DEF Inv, GuardOK
  <2>5. HeardOK'
    BY <1>2 DEF Inv, HeardOK, TailFits
  <2> QED BY <2>1, <2>2, <2>3, <2>4, <2>5 DEF Inv
<1> QED BY <1>1, <1>2

\* The invariant holds in every state a turn can reach.
THEOREM TurnsKeepInv == Spec => []Inv
<1>1. Init => Inv
  BY InitInv
<1> QED BY <1>1, InvKept, PTL DEF Spec

-----------------------------------------------------------------------------
(* What it shows *)

\* A sound conversation is one whose results follow their calls, and whose calls
\* have all their results right after them.
LEMMA SoundMeans ==
  ASSUME NEW c, Sound(c)
  PROVE  /\ c \in Seq(Message)
         /\ \A i \in DOMAIN c : Results(c[i]) # {} => i > 1 /\ Answers(c[i], c[i-1])
         /\ \A i \in DOMAIN c : c[i].kind = "assistant" /\ c[i].tools # {} =>
              i < Len(c) /\ c[i+1].kind = "results" /\ c[i+1].step = c[i].step /\ c[i+1].tools = c[i].tools
<1>1. c \in Seq(Message) /\ DOMAIN c = 1..Len(c) /\ Len(c) \in Nat
  BY Places DEF Sound, Half
<1>2. ASSUME NEW i \in DOMAIN c, IsCall(c[i]) PROVE i < Len(c) /\ IsFor(c[i + 1], c[i])
  <2>1. i # Len(c)
    BY <1>1, <1>2, LastIsPlace DEF Sound
  <2>2. i \in 1..(Len(c) - 1)
    BY <1>1, <2>1
  <2> QED BY <1>1, <1>2, <2>2 DEF Sound, Half
<1> QED BY <1>1, <1>2 DEF Sound, Half, IsCall, IsFor

\* Whatever the extensions remove from a conversation, and whenever an answer, a
\* failure or a crash comes, what runAgentTurn sends to the model or stores has no
\* result without its call, no call without its result but those of an answer with a
\* malformed call, which is retried, and the answers of other agents as texts.
THEOREM RequestsStaySound == Spec => []RequestsAreSound
<1>1. ASSUME Inv PROVE RequestsAreSound
  <2>1. Sound(stored) /\ Sound(sent) /\ Half(conv)
    BY <1>1 DEF Inv, TalkOK, CallIsLast, Sound
  <2>2. stored \in Seq(Message) /\ sent \in Seq(Message) /\ conv \in Seq(Message)
    BY <2>1, SoundMeans, SoundIsTyped
  <2>3. stored = ToConversationTurns(stored)
    BY <1>1, <2>2, SentAgain DEF Inv, TalkOK
  <2>4. TypeOK
    BY <1>1, <2>2, <2>3 DEF Inv, RestTyped, TypeOK, Running, Ended
  <2>5. ResultsFollowCalls
    BY <2>1, SoundMeans DEF ResultsFollowCalls
  <2>6. CallsAreAnswered
    BY <2>1, SoundMeans DEF CallsAreAnswered
  <2>7. AnswersAreTexts
    BY <1>1 DEF Inv, TalkOK, AnswersAreTexts
  <2> QED BY <2>4, <2>5, <2>6, <2>7 DEF RequestsAreSound
<1> QED BY <1>1, TurnsKeepInv, PTL

\* Only the step limit and the retry limits end a turn without a required tool
\* that has succeeded in it.
THEOREM RequiredToolIsCalled == Spec => []RequiredToolWasCalled
<1>1. ASSUME Inv PROVE RequiredToolWasCalled
  BY <1>1 DEF Inv, GuardOK, RequiredToolWasCalled
<1> QED BY <1>1, TurnsKeepInv, PTL

\* What a turn returns is in the conversation it stores.
THEOREM ReplyStays == Spec => ReplyIsRemembered
<1>1. ASSUME Inv, Persist, ending \in {"text", "max_steps"}
      PROVE  \E m \in ToSet(stored') : /\ m.kind \in {"assistant", "malformed"} /\ m.text
                                       /\ m.turn = turn /\ m.step = lastText
  <2>1. PICK m \in ToSet(conv) : m.kind \in {"assistant", "malformed"} /\ m.text /\ m.turn = turn /\ m.step = lastText
    BY <1>1 DEF Inv, SpokenOK, Spoken
  <2>2. stored' = ToConversationTurns(conv) /\ Sound(conv)
    BY <1>1 DEF Persist, Inv, TalkOK
  <2>3. m \in ToSet(stored')
    BY <2>1, <2>2, SentMembers, SoundMeans DEF Sendable
  <2> QED BY <2>1, <2>3
<1>2. Inv /\ [Next]_vars =>
        [Persist /\ ending \in {"text", "max_steps"} =>
           \E m \in ToSet(stored') : /\ m.kind \in {"assistant", "malformed"} /\ m.text
                                     /\ m.turn = turn /\ m.step = lastText]_vars
  BY <1>1
<1> QED BY <1>2, TurnsKeepInv, PTL DEF Spec, ReplyIsRemembered

\* The input of a turn is in every request of the turn, when the message window
\* comes before every other extension that removes messages or adds some, and the
\* compaction keeps at least one message.
THEOREM InputIsHeard ==
  ASSUME OrderKeepsInput, RetainLast # 0
  PROVE  Spec => []InputReachesModel
<1>1. ASSUME Inv PROVE InputReachesModel
  <2> SUFFICES ASSUME pc = "model", TailFits PROVE input \in ToSet(sent)
    BY DEF InputReachesModel, TailFits, TailStart, From
  <2>1. input \in ToSet(conv) /\ sent = ToConversationTurns(conv) /\ Sound(conv) /\ input.kind = "inbound"
    BY <1>1 DEF Inv, HeardOK, TalkOK, Running
  <2> QED BY <2>1, SentMembers, SoundMeans DEF Sendable
<1> QED BY <1>1, TurnsKeepInv, PTL

-----------------------------------------------------------------------------
(* Lists of lists *)

LEMMA SeqIsFunction ==
  ASSUME NEW S, NEW n \in Nat, NEW f \in [1..n -> S]
  PROVE  f \in Seq(S) /\ Len(f) = n
BY IsASeq, LenProperties

LEMMA Joined ==
  ASSUME NEW S, NEW s \in Seq(S), NEW t \in Seq(S)
  PROVE  /\ s \o t \in Seq(S) /\ Len(s \o t) = Len(s) + Len(t)
         /\ \A i \in 1..Len(s) : (s \o t)[i] = s[i]
         /\ \A j \in 1..Len(t) : Len(s) + j \in 1..Len(s \o t) /\ (s \o t)[Len(s) + j] = t[j]
         /\ ToSet(s \o t) = ToSet(s) \cup ToSet(t)
<1>1. s \o t \in Seq(S) /\ Len(s \o t) = Len(s) + Len(t) /\ Len(s) \in Nat /\ Len(t) \in Nat
  BY ConcatProperties, LenProperties
<1>2. \A i \in 1..Len(s) + Len(t) : (s \o t)[i] = IF i <= Len(s) THEN s[i] ELSE t[i - Len(s)]
  BY ConcatProperties
<1>3. DOMAIN s = 1..Len(s) /\ DOMAIN t = 1..Len(t) /\ DOMAIN (s \o t) = 1..Len(s) + Len(t)
  BY <1>1, LenProperties
<1>4. \A i \in 1..Len(s) : (s \o t)[i] = s[i]
  BY <1>1, <1>2
<1>5. ASSUME NEW j \in 1..Len(t)
      PROVE  Len(s) + j \in 1..Len(s \o t) /\ (s \o t)[Len(s) + j] = t[j]
  <2>1. Len(s) + j \in 1..Len(s) + Len(t) /\ ~(Len(s) + j <= Len(s)) /\ Len(s) + j - Len(s) = j
    BY <1>1
  <2> QED BY <1>1, <1>2, <2>1
<1>6. ASSUME NEW i \in 1..Len(s) + Len(t), ~(i <= Len(s)) PROVE i - Len(s) \in 1..Len(t)
  BY <1>1, <1>6
<1>7. ToSet(s \o t) \subseteq ToSet(s) \cup ToSet(t)
  <2> SUFFICES ASSUME NEW i \in 1..Len(s) + Len(t) PROVE (s \o t)[i] \in ToSet(s) \cup ToSet(t)
    BY <1>3 DEF ToSet
  <2>1. CASE i <= Len(s)
    <3>1. i \in 1..Len(s)
      BY <1>1, <2>1
    <3> QED BY <1>3, <1>4, <3>1 DEF ToSet
  <2>2. CASE ~(i <= Len(s))
    BY <1>2, <1>3, <1>6, <2>2 DEF ToSet
  <2> QED BY <2>1, <2>2
<1>8. ToSet(s) \subseteq ToSet(s \o t)
  <2> SUFFICES ASSUME NEW i \in 1..Len(s) PROVE s[i] \in ToSet(s \o t)
    BY <1>3 DEF ToSet
  <2>1. i \in 1..Len(s) + Len(t)
    BY <1>1
  <2> QED BY <1>3, <1>4, <2>1 DEF ToSet
<1>9. ToSet(t) \subseteq ToSet(s \o t)
  <2> SUFFICES ASSUME NEW j \in 1..Len(t) PROVE t[j] \in ToSet(s \o t)
    BY <1>3 DEF ToSet
  <2> QED BY <1>1, <1>3, <1>5 DEF ToSet
<1> QED BY <1>1, <1>4, <1>5, <1>7, <1>8, <1>9

\* What FlattenSeq has joined of the first lists.
IsJoining(p, ss, S) ==
  /\ p \in [1..Len(ss) -> Seq(S)]
  /\ \A i \in 1..Len(ss) : p[i] = IF i = 1 THEN ss[i] ELSE p[i - 1] \o ss[i]

LEMMA JoiningExists ==
  ASSUME NEW S, NEW ss \in Seq(Seq(S))
  PROVE  \E p : IsJoining(p, ss, S)
<1> DEFINE n == Len(ss)
           V == Seq(S)
           f == [i \in 1..n |-> [v \in V |-> v \o ss[i]]]
<1>1. n \in Nat /\ <<>> \in V /\ \A i \in 1..n : ss[i] \in Seq(S)
  BY Places, EmptySeq
<1>2. f \in [1..n -> [V -> V]]
  BY <1>1, ConcatProperties
<1>3. PICK h : IsFold(h, V, f, <<>>, n)
  <2> HIDE DEF f, V, n
  <2> QED BY <1>1, <1>2, FoldExists
<1>4. IsLocalFold(h, V, f, <<>>, n)
  <2>1. \A s \in SUBSET (1..n) : h[s] = IF s = {} THEN <<>> ELSE f[Top(s)][h[s \ {Top(s)}]]
    BY <1>3 DEF IsFold
  <2> HIDE DEF f
  <2> QED BY <2>1 DEF IsLocalFold
<1>5. PICK p : IsRun(p, V, f, <<>>, n)
  <2> HIDE DEF f, V, n
  <2> QED BY <1>1, <1>2, <1>4, FoldRuns
<1>6. p \in [0..n -> V] /\ p[0] = <<>> /\ \A k \in 1..n : p[k] = f[k][p[k - 1]]
  BY <1>5 DEF IsRun
<1>7. \A k \in 1..n : p[k - 1] \in V /\ p[k] = p[k - 1] \o ss[k]
  <2> TAKE k \in 1..n
  <2> HIDE DEF n, V
  <2>1. k - 1 \in 0..n
    BY <1>1
  <2>2. p[k - 1] \in V
    BY <1>6, <2>1
  <2> USE DEF n, V
  <2> QED BY <1>6, <2>2
<1> DEFINE q == [i \in 1..n |-> p[i]]
<1>8. q \in [1..n -> V]
  BY <1>1, <1>6
<1>9. \A i \in 1..n : q[i] = IF i = 1 THEN ss[i] ELSE q[i - 1] \o ss[i]
  <2> TAKE i \in 1..n
  <2>1. CASE i = 1
    <3>1. p[1] = <<>> \o ss[1]
      <4>1. p[i] = p[i - 1] \o ss[i]
        BY <1>7
      <4>2. i - 1 = 0
        BY <2>1
      <4> QED BY <1>6, <2>1, <4>1, <4>2
    <3> QED BY <1>1, <2>1, <3>1, ConcatEmptySeq
  <2>2. CASE i # 1
    <3>1. i - 1 \in 1..n
      BY <1>1, <2>2
    <3> QED BY <1>7, <2>2, <3>1
  <2> QED BY <2>1, <2>2
<1> HIDE DEF q
<1> QED BY <1>8, <1>9 DEF IsJoining

LEMMA FlattenJoins ==
  ASSUME NEW S, NEW ss \in Seq(Seq(S)), Len(ss) # 0
  PROVE  \E p : IsJoining(p, ss, S) /\ FlattenSeq(ss) = p[Len(ss)]
<1> DEFINE Rule(h) == h = [i \in 1..Len(ss) |-> IF i = 1 THEN ss[i] ELSE h[i - 1] \o ss[i]]
           all == CHOOSE h : Rule(h)
<1>1. FlattenSeq(ss) = all[Len(ss)]
  BY DEF FlattenSeq
<1>2. PICK p : IsJoining(p, ss, S)
  BY JoiningExists
<1>3. Rule(p)
  BY <1>2 DEF IsJoining
<1>4. Rule(all)
  <2> HIDE DEF Rule
  <2> QED BY <1>3
<1> DEFINE T == {i \in 1..Len(ss) : all[i] # p[i]}
<1>5. Len(ss) \in Nat
  BY Places
<1>6. T = {}
  <2> SUFFICES ASSUME T # {} PROVE FALSE
    OBVIOUS
  <2> HIDE DEF all
  <2>1. T \in SUBSET Nat
    BY <1>5
  <2> HIDE DEF T
  <2>2. PICK k \in T : \A m \in T : ~(m < k)
    BY <2>1, LeastNumber
  <2>3. k \in 1..Len(ss) /\ all[k] # p[k]
    BY <2>2 DEF T
  <2>4. all[k] = IF k = 1 THEN ss[k] ELSE all[k - 1] \o ss[k]
    BY <1>4, <2>3
  <2>5. p[k] = IF k = 1 THEN ss[k] ELSE p[k - 1] \o ss[k]
    BY <1>3, <2>3
  <2>6. CASE k # 1
    <3>1. k - 1 \in 1..Len(ss) /\ k - 1 < k
      BY <1>5, <2>3, <2>6
    <3> QED BY <2>2, <2>3, <2>4, <2>5, <3>1 DEF T
  <2> QED BY <2>3, <2>4, <2>5, <2>6
<1>7. Len(ss) \in 1..Len(ss)
  BY <1>5
<1> QED BY <1>1, <1>2, <1>6, <1>7

\* A list of lists is joined into a list of what is in any of them.
LEMMA FlattenPlaces ==
  ASSUME NEW S, NEW ss \in Seq(Seq(S))
  PROVE  /\ FlattenSeq(ss) \in Seq(S)
         /\ \A x : x \in ToSet(FlattenSeq(ss)) <=> \E i \in 1..Len(ss) : x \in ToSet(ss[i])
<1>1. Len(ss) \in Nat /\ \A i \in 1..Len(ss) : ss[i] \in Seq(S)
  BY Places
<1>2. CASE Len(ss) = 0
  <2>1. ss = <<>>
    BY <1>2, EmptySeq
  <2>2. FlattenSeq(ss) = <<>>
    BY <1>2, <2>1 DEF FlattenSeq
  <2>3. ToSet(<<>>) = {}
    BY DEF ToSet
  <2> QED BY <1>2, <2>2, <2>3, EmptySeq
<1>3. CASE Len(ss) # 0
  <2>1. PICK p : IsJoining(p, ss, S) /\ FlattenSeq(ss) = p[Len(ss)]
    BY <1>3, FlattenJoins
  <2>2. p \in [1..Len(ss) -> Seq(S)]
    BY <2>1 DEF IsJoining
  <2> DEFINE Joins(k) == ToSet(p[k]) = UNION {ToSet(ss[i]) : i \in 1..k}
             T == {k \in 1..Len(ss) : ~ Joins(k)}
  <2>3. T = {}
    <3> SUFFICES ASSUME T # {} PROVE FALSE
      OBVIOUS
    <3>1. T \in SUBSET Nat
      OBVIOUS
    <3> HIDE DEF T
    <3>2. PICK k \in T : \A m \in T : ~(m < k)
      BY <3>1, LeastNumber
    <3>3. k \in 1..Len(ss) /\ ~ Joins(k)
      BY <3>2 DEF T
    <3>4. p[k] = IF k = 1 THEN ss[k] ELSE p[k - 1] \o ss[k]
      BY <2>1, <3>3 DEF IsJoining
    <3>5. CASE k = 1
      <4>1. 1..1 = {1}
        OBVIOUS
      <4> QED BY <3>3, <3>4, <3>5, <4>1
    <3>6. CASE k # 1
      <4>1. k - 1 \in 1..Len(ss) /\ k - 1 < k /\ 1..k = (1..(k - 1)) \cup {k}
        BY <1>1, <3>3, <3>6
      <4>2. Joins(k - 1)
        BY <3>2, <4>1 DEF T
      <4>3. ToSet(p[k]) = ToSet(p[k - 1]) \cup ToSet(ss[k])
        BY <1>1, <2>2, <3>3, <3>4, <3>6, <4>1, Joined
      <4>4. UNION {ToSet(ss[i]) : i \in 1..k} = (UNION {ToSet(ss[i]) : i \in 1..(k - 1)}) \cup ToSet(ss[k])
        BY <4>1
      <4> QED BY <3>3, <4>2, <4>3, <4>4
    <3> QED BY <3>5, <3>6
  <2>4. Len(ss) \in 1..Len(ss)
    BY <1>1, <1>3
  <2>5. Joins(Len(ss))
    BY <2>3, <2>4
  <2> QED BY <2>1, <2>2, <2>4, <2>5
<1> QED BY <1>2, <1>3

-----------------------------------------------------------------------------
(* Files and what is read of them *)

LEMMA ListPlaces ==
  ASSUME NEW s, IsList(s)
  PROVE  /\ s \in Seq(ToSet(s)) /\ DOMAIN s = 1..Len(s) /\ Len(s) \in Nat
         /\ \A i \in 1..Len(s) : s[i] \in ToSet(s)
         /\ \A x \in ToSet(s) : \E i \in 1..Len(s) : x = s[i]
<1>1. s \in Seq(ToSet(s))
  BY DEF IsList
<1>2. DOMAIN s = 1..Len(s) /\ Len(s) \in Nat
  BY <1>1, LenProperties
<1> QED BY <1>1, <1>2 DEF ToSet

LEMMA MinIsLeast ==
  ASSUME NEW T \in SUBSET Nat, T # {}
  PROVE  Min(T) \in T /\ \A y \in T : Min(T) <= y
<1>1. PICK x \in T : \A y \in T : ~(y < x)
  BY LeastNumber
<1>2. \A y \in T : x <= y
  BY <1>1
<1> QED BY <1>1, <1>2 DEF Min

LEMMA ResourceFields ==
  ASSUME NEW doc, NEW path, NEW i, NEW pkg, NEW r, r = Resource(doc, path, i, pkg)
  PROVE  /\ r.pkg = pkg /\ r.name = doc.name /\ r.spec = doc.spec
         /\ r.kind = IF doc.kind \in KnownKinds THEN doc.kind ELSE "Model"
BY DEF Resource

\* A file that is read is taken whole, and any other is an error.
LEMMA FileReads ==
  ASSUME NEW f, IsFile(f), NEW pkg
  PROVE  /\ FromFile(f, pkg).resources \in Seq(ResourcesIn(f, pkg))
         /\ f.state = "ok" => /\ FromFile(f, pkg).errors = {}
                              /\ ToSet(FromFile(f, pkg).resources) = ResourcesIn(f, pkg)
         /\ f.state # "ok" => FromFile(f, pkg).errors # {}
<1> DEFINE S == ResourcesIn(f, pkg)
           kept == [i \in DOMAIN f.docs |-> IF ~IsResource(f.docs[i]) THEN <<>>
                                            ELSE <<Resource(f.docs[i], f.path, i, pkg)>>]
<1>1. DOMAIN f.docs = 1..Len(f.docs) /\ Len(f.docs) \in Nat /\ f.state \in {"ok", "large", "many", "broken"}
  BY ListPlaces DEF IsFile
<1>2. \A i \in 1..Len(f.docs) : IsResource(f.docs[i]) => Resource(f.docs[i], f.path, i, pkg) \in S
  BY <1>1 DEF ResourcesIn
<1>3. \A i \in 1..Len(f.docs) : kept[i] \in Seq(S)
  BY <1>1, <1>2
<1>4. kept \in Seq(Seq(S)) /\ Len(kept) = Len(f.docs)
  <2>1. kept \in [1..Len(f.docs) -> Seq(S)]
    BY <1>1, <1>3
  <2> HIDE DEF kept, S
  <2> QED BY <1>1, <2>1, SeqIsFunction
<1>5. \A i \in 1..Len(f.docs) :
        ToSet(kept[i]) = IF ~IsResource(f.docs[i]) THEN {} ELSE {Resource(f.docs[i], f.path, i, pkg)}
  <2> TAKE i \in 1..Len(f.docs)
  <2>1. CASE ~IsResource(f.docs[i])
    <3>1. kept[i] = <<>> /\ ToSet(<<>>) = {}
      BY <1>1, <2>1 DEF ToSet
    <3> QED BY <2>1, <3>1
  <2>2. CASE IsResource(f.docs[i])
    <3>1. PICK r : r = Resource(f.docs[i], f.path, i, pkg)
      OBVIOUS
    <3>2. kept[i] = <<r>>
      BY <1>1, <2>2, <3>1
    <3>3. ToSet(<<r>>) = {r}
      BY DEF ToSet
    <3> QED BY <2>2, <3>1, <3>2, <3>3
  <2> QED BY <2>1, <2>2
<1> HIDE DEF kept
<1>6. /\ FlattenSeq(kept) \in Seq(S)
      /\ \A x : x \in ToSet(FlattenSeq(kept)) <=> \E i \in 1..Len(f.docs) : x \in ToSet(kept[i])
  <2> HIDE DEF S
  <2> QED BY <1>4, FlattenPlaces
<1>7. ToSet(FlattenSeq(kept)) = S
  <2>1. S = {Resource(f.docs[i], f.path, i, pkg) : i \in {j \in 1..Len(f.docs) : IsResource(f.docs[j])}}
    BY <1>1 DEF ResourcesIn
  <2>2. \A x : x \in S <=> \E i \in 1..Len(f.docs) : IsResource(f.docs[i]) /\ x = Resource(f.docs[i], f.path, i, pkg)
    BY <2>1
  <2> HIDE DEF S
  <2>3. \A x : x \in ToSet(FlattenSeq(kept)) <=> x \in S
    <3> TAKE x
    <3>1. \A i \in 1..Len(f.docs) :
            x \in ToSet(kept[i]) <=> IsResource(f.docs[i]) /\ x = Resource(f.docs[i], f.path, i, pkg)
      BY <1>5
    <3>2. x \in ToSet(FlattenSeq(kept)) <=> \E i \in 1..Len(f.docs) : x \in ToSet(kept[i])
      BY <1>6
    <3>3. x \in S <=> \E i \in 1..Len(f.docs) : IsResource(f.docs[i]) /\ x = Resource(f.docs[i], f.path, i, pkg)
      BY <2>2
    <3> QED BY ONLY <3>1, <3>2, <3>3
  <2> QED BY <2>3
<1>8. PICK all : all = FlattenSeq(kept)
  OBVIOUS
<1>9. f.state = "ok" => FromFile(f, pkg) = [resources |-> all, errors |-> {}]
  BY <1>8 DEF FromFile, kept
<1>10. f.state # "ok" =>
         \E e : e # {} /\ FromFile(f, pkg) = [resources |-> <<>>, errors |-> e]
  <2>1. f.state = "large" => FromFile(f, pkg) = [resources |-> <<>>, errors |-> {"FILE_TOO_LARGE"}]
    BY DEF FromFile
  <2>2. f.state = "many" => FromFile(f, pkg) = [resources |-> <<>>, errors |-> {"TOO_MANY_DOCUMENTS"}]
    BY DEF FromFile
  <2>3. f.state = "broken" => FromFile(f, pkg) = [resources |-> <<>>, errors |-> {"PARSE_ERROR"}]
    BY DEF FromFile
  <2> QED BY <1>1, <2>1, <2>2, <2>3
<1>11. CASE f.state = "ok"
  <2>1. FromFile(f, pkg).resources = all /\ FromFile(f, pkg).errors = {}
    BY <1>9, <1>11
  <2> QED BY <1>6, <1>7, <1>8, <1>11, <2>1
<1>12. CASE f.state # "ok"
  <2>1. FromFile(f, pkg).resources = <<>> /\ FromFile(f, pkg).errors # {}
    BY <1>10, <1>12
  <2> QED BY <1>12, <2>1, EmptySeq
<1> QED BY <1>11, <1>12

\* What the bundle holds, as BundleAssumption gives it.
LEMMA BundleHolds ==
  ASSUME bundle \in Bundles
  PROVE  /\ DOMAIN bundle.files = 1..Len(bundle.files) /\ Len(bundle.files) \in Nat
         /\ \A i \in 1..Len(bundle.files) : bundle.files[i] \in FilesOf(bundle)
         /\ \A f \in FilesOf(bundle) : IsFile(f)
         /\ \A id \in DOMAIN bundle.installed :
              bundle.installed[id] # None => bundle.installed[id] \in FilesOf(bundle)
         /\ None \notin ResourcesOf(bundle)
<1>1. IsList(bundle.files) /\ (\A f \in FilesOf(bundle) : IsFile(f)) /\ None \notin ResourcesOf(bundle)
  BY BundleAssumption
<1>2. /\ DOMAIN bundle.files = 1..Len(bundle.files) /\ Len(bundle.files) \in Nat
      /\ \A i \in 1..Len(bundle.files) : bundle.files[i] \in ToSet(bundle.files)
  BY <1>1, ListPlaces
<1> QED BY <1>1, <1>2 DEF FilesOf

LEMMA ResourcesAreAll ==
  ASSUME NEW f \in FilesOf(bundle), NEW pkg \in PackagesOf(bundle)
  PROVE  ResourcesIn(f, pkg) \subseteq ResourcesOf(bundle) /\ \A r \in ResourcesIn(f, pkg) : r.pkg = pkg
<1>1. ResourcesIn(f, pkg) \subseteq ResourcesOf(bundle)
  BY DEF ResourcesOf
<1>2. \A r \in ResourcesIn(f, pkg) : r.pkg = pkg
  BY ResourceFields DEF ResourcesIn
<1> QED BY <1>1, <1>2

LEMMA ManifestIsFile ==
  ASSUME bundle \in Bundles
  PROVE  \/ ManifestDocs = <<>>
         \/ \E i \in 1..Len(bundle.files) : ManifestDocs = bundle.files[i].docs
<1> DEFINE I == {i \in 1..Len(bundle.files) : bundle.files[i].path = "goondan.yaml"}
<1>1. SelectInSeq(bundle.files, LAMBDA f : f.path = "goondan.yaml") = IF I # {} THEN Min(I) ELSE 0
  BY DEF SelectInSeq
<1>2. I # {} => Min(I) \in 1..Len(bundle.files)
  <2>1. I \in SUBSET Nat /\ I \subseteq 1..Len(bundle.files)
    BY BundleHolds
  <2> HIDE DEF I
  <2> QED BY <2>1, MinIsLeast
<1> HIDE DEF I
<1>3. Manifest = None \/ \E i \in 1..Len(bundle.files) : Manifest = bundle.files[i]
  BY <1>1, <1>2 DEF Manifest
<1> QED BY <1>3 DEF ManifestDocs

LEMMA PackageNameIsKnown ==
  ASSUME bundle \in Bundles
  PROVE  PackageName(ManifestDocs) \in PackagesOf(bundle)
<1>1. PackageName(<<>>) = None
  BY DEF PackageName, IsPackage
<1>2. \A i \in 1..Len(bundle.files) : PackageName(bundle.files[i].docs) \in PackagesOf(bundle)
  BY BundleHolds DEF PackagesOf
<1>3. None \in PackagesOf(bundle)
  BY DEF PackagesOf
<1> QED BY <1>1, <1>2, <1>3, ManifestIsFile

LEMMA DependenciesAreListed ==
  ASSUME NEW f, IsFile(f)
  PROVE  IsList(Dependencies(f.docs)) /\ \A dep \in ToSet(Dependencies(f.docs)) : dep.name # None
<1>1. CASE IsPackage(f.docs)
  <2>1. f.docs[1] \in ToSet(f.docs)
    <3>1. f.docs \in Seq(ToSet(f.docs)) /\ f.docs # <<>>
      BY <1>1 DEF IsPackage, IsFile, IsList
    <3>2. Len(f.docs) \in Nat /\ Len(f.docs) # 0
      BY <3>1, EmptySeq, LenProperties
    <3> QED BY <3>2, ListPlaces DEF IsFile
  <2>2. f.docs[1] # None /\ f.docs[1].kind = "Package"
    BY <1>1 DEF IsPackage
  <2>3. IsDocument(f.docs[1])
    BY <2>1, <2>2 DEF IsFile
  <2> QED BY <1>1, <2>2, <2>3 DEF IsDocument, Dependencies
<1>2. CASE ~ IsPackage(f.docs)
  <2>1. Dependencies(f.docs) = <<>> /\ ToSet(<<>>) = {}
    BY <1>2 DEF Dependencies, ToSet
  <2> QED BY <2>1, EmptySeq DEF IsList
<1> QED BY <1>1, <1>2

\* The local files are of the local package.
LEMMA LocalReads ==
  ASSUME bundle \in Bundles
  PROVE  /\ LocalFiles.resources \in Seq(ResourcesOf(bundle))
         /\ \A r \in ToSet(LocalFiles.resources) : r.pkg = PackageName(ManifestDocs)
<1>0. PICK pkg : pkg = PackageName(ManifestDocs)
  OBVIOUS
<1>1. pkg \in PackagesOf(bundle)
  BY <1>0, PackageNameIsKnown
<1> DEFINE n == Len(bundle.files)
           files == bundle.files
           loaded == [i \in 1..n |-> FromFile(files[i], pkg)]
           lists == [i \in 1..n |-> loaded[i].resources]
<1>2. n \in Nat /\ DOMAIN files = 1..n /\ \A i \in 1..n : IsFile(files[i]) /\ files[i] \in FilesOf(bundle)
  BY BundleHolds
<1>3. \A i \in 1..n : /\ ResourcesIn(files[i], pkg) \subseteq ResourcesOf(bundle)
                      /\ \A r \in ResourcesIn(files[i], pkg) : r.pkg = pkg
  BY <1>1, <1>2, ResourcesAreAll
<1>4. ASSUME NEW i \in 1..n
      PROVE  lists[i] \in Seq(ResourcesIn(files[i], pkg))
  BY <1>2, FileReads
<1>5. LocalFiles = [resources |-> FlattenSeq(lists), errors |-> UNION {loaded[i].errors : i \in 1..n}]
  BY <1>0, <1>2 DEF LocalFiles
<1> HIDE DEF lists
<1>6. PICK all : all = FlattenSeq(lists) /\ \E errors : LocalFiles = [resources |-> all, errors |-> errors]
  BY <1>5
<1>7. LocalFiles.resources = all
  BY <1>6
<1>8. \A i \in 1..n : lists[i] \in Seq(ResourcesOf(bundle))
  <2> TAKE i \in 1..n
  <2> QED BY <1>3, <1>4, Places, SeqIsFunction
<1>9. lists \in Seq(Seq(ResourcesOf(bundle))) /\ Len(lists) = n
  <2>1. lists \in [1..n -> Seq(ResourcesOf(bundle))]
    BY <1>8 DEF lists
  <2> QED BY <1>2, <2>1, SeqIsFunction
<1>10. all \in Seq(ResourcesOf(bundle)) /\ \A x : x \in ToSet(all) <=> \E i \in 1..n : x \in ToSet(lists[i])
  BY <1>6, <1>9, FlattenPlaces
<1>11. \A r \in ToSet(all) : r.pkg = pkg
  <2> TAKE r \in ToSet(all)
  <2>1. PICK i \in 1..n : r \in ToSet(lists[i])
    BY <1>10
  <2>2. r \in ResourcesIn(files[i], pkg)
    BY <1>4, <2>1, Places
  <2> QED BY <1>3, <2>2
<1> QED BY <1>0, <1>7, <1>10, <1>11

-----------------------------------------------------------------------------
(* What holds of a load *)

DemandsOf(b) == UNION {ToSet(Dependencies(f.docs)) : f \in FilesOf(b)}

IsLoad(l) ==
  l = [pc |-> l.pc, queue |-> l.queue, visited |-> l.visited, resources |-> l.resources, errors |-> l.errors]

LoadTypes ==
  /\ bundle \in Bundles
  /\ IsLoad(load)
  /\ load.pc \in {"start", "deps", "loaded", "failed"}
  /\ load.queue \in Seq(DemandsOf(bundle))
  /\ load.resources \in Seq(ResourcesOf(bundle))
  /\ load.pc = "start" => load = Idle

\* Without an error so far, every package visited is there and was read.
VisitedAreRead ==
  load.errors = {} =>
    \A id \in load.visited :
      /\ id[1] # None /\ id \in DOMAIN bundle.installed
      /\ bundle.installed[id] # None /\ bundle.installed[id].state = "ok"

\* Each has a Package document of its own among the resources, under its name.
PackagesArePlaced ==
  load.errors = {} =>
    \E at \in [load.visited -> 1..Len(load.resources)] :
      /\ \A v, w \in load.visited : at[v] = at[w] => v = w
      /\ \A v \in load.visited : Scope(load.resources[at[v]]) = <<v[1], "Package", v[1]>>

Wanted(b, docs, visited) ==
  ToSet(Dependencies(docs)) \cup UNION {ToSet(Dependencies(b.installed[id].docs)) : id \in visited}
IsMet(dep, visited) == \E id \in visited : id[1] = dep.name /\ dep.version \in {id[2], Loose}

WantedIsQueued ==
  load.pc \in {"deps", "loaded"} /\ load.errors = {} =>
    \A dep \in Wanted(bundle, ManifestDocs, load.visited) : dep \in ToSet(load.queue) \/ IsMet(dep, load.visited)

\* Before the local files only packages with a name are loaded, and none where
\* the bundle asks for nothing.
OnlyPackages ==
  load.pc = "deps" =>
    /\ \A r \in ToSet(load.resources) : r.pkg # None
    /\ Dependencies(ManifestDocs) = <<>> => load.queue = <<>> /\ load.resources = <<>>

OneSort(rs) == (\A r \in ToSet(rs) : r.pkg # None) \/ (\A r \in ToSet(rs) : r.pkg = None)

IsValidated ==
  load.pc = "loaded" =>
    /\ load.queue = <<>>
    /\ Errors(load.resources) \subseteq load.errors
    /\ load.errors = {} /\ LocalIsApart => OneSort(load.resources)

LoadInv ==
  LoadTypes /\ VisitedAreRead /\ PackagesArePlaced /\ WantedIsQueued /\ OnlyPackages /\ IsValidated

LEMMA ErrorsMean ==
  ASSUME NEW rs, Errors(rs) = {}
  PROVE  /\ ~ (Cardinality({Scope(r) : r \in ToSet(rs)}) < Len(rs))
         /\ \A r \in ToSet(rs) : r.name # "" /\ KindIsSound(r)
         /\ \A r \in ToSet(rs) : \A ref \in RefsOf(r) : Denoted(ref, r) \in {Scope(x) : x \in ToSet(rs)}
<1>1. ~ (Cardinality({Scope(r) : r \in ToSet(rs)}) < Len(rs))
  BY DEF Errors, When
<1>2. ~ \E r \in ToSet(rs) : r.name = ""
  BY DEF Errors, When
<1>4. ~ \E r \in ToSet(rs) : ~KindIsSound(r)
  BY DEF Errors, When
<1>3. ~ \E r \in ToSet(rs) : \E ref \in RefsOf(r) : Denoted(ref, r) \notin {Scope(x) : x \in ToSet(rs)}
  BY DEF Errors, When
<1> QED BY <1>1, <1>2, <1>3, <1>4

\* In a list without errors no two resources have the same scope.
LEMMA ScopesDiffer ==
  ASSUME NEW S, NEW rs \in Seq(S), Errors(rs) = {}
  PROVE  \A i, j \in 1..Len(rs) : Scope(rs[i]) = Scope(rs[j]) => i = j
<1> DEFINE n == Len(rs)
           has == {Scope(r) : r \in ToSet(rs)}
           f == [i \in 1..n |-> Scope(rs[i])]
<1>1. DOMAIN rs = 1..n /\ n \in Nat
  BY Places
<1>2. has = {f[i] : i \in 1..n}
  BY <1>1 DEF ToSet
<1>3. f \in [1..n -> has]
  BY <1>2
<1>4. f \in Surjection(1..n, has)
  BY <1>2, <1>3 DEF Surjection
<1>5. IsFiniteSet(1..n) /\ Cardinality(1..n) = n
  BY <1>1, FS_Interval
<1>6. ~ (Cardinality(has) < n)
  BY ErrorsMean
<1> HIDE DEF f, has
<1>7. /\ IsFiniteSet(has) /\ Cardinality(has) <= n
      /\ Cardinality(has) = n <=> f \in Injection(1..n, has)
  BY <1>4, <1>5, FS_Surjection
<1>8. Cardinality(has) \in Nat
  BY <1>7, FS_CardinalityType
<1>9. f \in Injection(1..n, has)
  BY <1>1, <1>6, <1>7, <1>8
<1>10. \A i, j \in 1..n : f[i] = f[j] => i = j
  BY <1>9 DEF Injection, IsInjective
<1> QED BY <1>10 DEF f

LEMMA InitIsLoad == PlanInit => LoadInv
<1> SUFFICES ASSUME PlanInit PROVE LoadInv
  OBVIOUS
<1>1. bundle \in Bundles /\ load = Idle
  BY DEF PlanInit
<1>2. PICK l : l = load
  OBVIOUS
<1>3. /\ l.pc = "start" /\ l.queue = <<>> /\ l.visited = {} /\ l.resources = <<>> /\ l.errors = {}
      /\ IsLoad(l)
  BY <1>1, <1>2 DEF Idle, IsLoad
<1>4. LoadTypes
  BY <1>1, <1>2, <1>3, EmptySeq DEF LoadTypes
<1>5. VisitedAreRead /\ WantedIsQueued /\ OnlyPackages /\ IsValidated
  BY <1>2, <1>3 DEF VisitedAreRead, WantedIsQueued, OnlyPackages, IsValidated
<1>6. PackagesArePlaced
  <2> DEFINE at == [v \in {} |-> 0]
  <2>1. at \in [{} -> 1..Len(load.resources)]
    OBVIOUS
  <2> QED BY <1>2, <1>3, <2>1 DEF PackagesArePlaced
<1> QED BY <1>4, <1>5, <1>6 DEF LoadInv

\* A step that leaves the bundle leaves what is read of it.
LEMMA ManifestStays ==
  ASSUME UNCHANGED bundle
  PROVE  ManifestDocs' = ManifestDocs
BY DEF ManifestDocs, Manifest, SelectInSeq, Min

LEMMA ReadKeepsLoad ==
  ASSUME LoadInv, ReadManifest
  PROVE  LoadInv'
<1>1. PICK l, m : l = load /\ m = load'
  OBVIOUS
<1>2. /\ l.pc = "start" /\ l.queue = <<>> /\ l.visited = {} /\ l.resources = <<>> /\ l.errors = {}
      /\ l = Idle
  BY <1>1 DEF ReadManifest, LoadInv, LoadTypes, Idle
<1>3. PICK deps : deps = Dependencies(ManifestDocs)
  OBVIOUS
<1>4. PICK stage, es :
        /\ stage = IF deps # <<>> /\ bundle.lock = None THEN "failed" ELSE "deps"
        /\ es = IF Manifest # None /\ Manifest.state = "broken" THEN {"PARSE_ERROR"} ELSE {}
  OBVIOUS
<1>a. m = [l EXCEPT !.pc = stage, !.queue = deps, !.errors = es]
  BY <1>1, <1>3, <1>4, Zenon DEF ReadManifest
<1>b. stage \in {"failed", "deps"}
  BY <1>4
<1>5. m = [pc |-> stage, queue |-> deps, visited |-> {}, resources |-> <<>>, errors |-> es]
  BY <1>2, <1>a DEF Idle
<1>6. /\ m.pc = stage /\ m.queue = deps /\ m.visited = {} /\ m.resources = <<>> /\ m.errors = es
      /\ IsLoad(m)
  BY <1>5 DEF IsLoad
<1>7. bundle' = bundle /\ bundle \in Bundles /\ ManifestDocs' = ManifestDocs
  BY ManifestStays DEF ReadManifest, LoadInv, LoadTypes
<1>8. deps \in Seq(DemandsOf(bundle))
  <2>1. CASE ManifestDocs = <<>>
    <3>1. Dependencies(<<>>) = <<>>
      BY DEF Dependencies, IsPackage
    <3> QED BY <1>3, <2>1, <3>1, EmptySeq
  <2>2. CASE ManifestDocs # <<>>
    <3>1. PICK f \in FilesOf(bundle) : ManifestDocs = f.docs
      BY <1>7, <2>2, ManifestIsFile, BundleHolds
    <3>2. IsList(deps) /\ ToSet(deps) \subseteq DemandsOf(bundle)
      BY <1>3, <1>7, <3>1, BundleHolds, DependenciesAreListed DEF DemandsOf
    <3> QED BY <3>2, ListPlaces, SeqIsFunction
  <2> QED BY <2>1, <2>2
<1>9. LoadTypes'
  <2>1. DemandsOf(bundle)' = DemandsOf(bundle) /\ ResourcesOf(bundle)' = ResourcesOf(bundle)
    BY <1>7
  <2>2. IsLoad(load') /\ load'.pc \in {"failed", "deps"}
    BY <1>1, <1>b, <1>6
  <2>3. load'.queue \in Seq(DemandsOf(bundle)) /\ load'.resources \in Seq(ResourcesOf(bundle))
    BY <1>1, <1>6, <1>8, EmptySeq
  <2> QED BY <1>7, <2>1, <2>2, <2>3 DEF LoadTypes
<1>10. VisitedAreRead' /\ IsValidated'
  <2>1. load'.visited = {} /\ load'.pc # "loaded"
    BY <1>1, <1>b, <1>6
  <2> QED BY <2>1 DEF VisitedAreRead, IsValidated
<1>11. WantedIsQueued'
  BY <1>1, <1>3, <1>6, <1>7 DEF WantedIsQueued, Wanted
<1>12. OnlyPackages'
  <2>1. ToSet(<<>>) = {}
    BY DEF ToSet
  <2> QED BY <1>1, <1>3, <1>6, <1>7, <2>1 DEF OnlyPackages
<1>13. PackagesArePlaced'
  <2> DEFINE at == [v \in {} |-> 0]
  <2>1. at \in [{} -> 1..Len(load'.resources)]
    OBVIOUS
  <2> QED BY <1>1, <1>6, <2>1 DEF PackagesArePlaced
<1> QED BY <1>9, <1>10, <1>11, <1>12, <1>13 DEF LoadInv

\* What one round of the loop over the queue does to a load.
Missed(l, m) == m.errors # {} /\ m.resources = l.resources
Known(l, m, dep, id) ==
  /\ id[2] # None /\ id \in l.visited
  /\ m.visited = l.visited /\ m.resources = l.resources /\ m.errors = l.errors
HasRead(l, m, id, file) ==
  LET loaded == FromFile(file, id[1])
      children == IF file.state = "broken" THEN <<>> ELSE Dependencies(file.docs)
  IN /\ id[2] # None /\ id \notin l.visited
     /\ m.queue = Tail(l.queue) \o children
     /\ m.visited = l.visited \cup {id}
     /\ m.resources = l.resources \o loaded.resources /\ m.errors = l.errors \cup loaded.errors

LEMMA TakeCases ==
  ASSUME NEW l, IsLoad(l), l = load, NEW m, m = load', TakeDependency
  PROVE  \E dep, id :
           /\ l.pc = "deps" /\ l.queue # <<>> /\ dep = Head(l.queue)
           /\ id = <<dep.name, Resolved(dep)>>
           /\ IsLoad(m) /\ m.pc = l.pc
           /\ \/ m.queue = Tail(l.queue) /\ Missed(l, m)
              \/ m.queue = Tail(l.queue) /\ Known(l, m, dep, id)
              \/ /\ id \in DOMAIN bundle.installed /\ bundle.installed[id] # None
                 /\ HasRead(l, m, id, bundle.installed[id])
<1>1. PICK dep, id : dep = Head(l.queue) /\ id = <<dep.name, Resolved(dep)>>
  OBVIOUS
<1>2. l.pc = "deps" /\ l.queue # <<>>
  BY DEF TakeDependency
<1>3. \/ id[2] = None /\ Misses("LOCK_MISSING", {})
      \/ id[2] # None /\ Visited(id) /\ load' = [load EXCEPT !.queue = Tail(@)]
      \/ /\ id[2] # None /\ ~Visited(id)
         /\ \/ id \notin DOMAIN bundle.installed /\ Misses("NOT_INSTALLED", {id})
            \/ id \in DOMAIN bundle.installed /\ bundle.installed[id] = None /\ Misses("MANIFEST_MISSING", {id})
            \/ id \in DOMAIN bundle.installed /\ bundle.installed[id] # None /\ Visit(id)
  BY <1>1, Zenon DEF TakeDependency
<1>4. ASSUME NEW code, NEW found, Misses(code, found)
      PROVE  IsLoad(m) /\ m.pc = l.pc /\ m.queue = Tail(l.queue) /\ Missed(l, m)
  <2>1. m = [l EXCEPT !.queue = Tail(@), !.visited = @ \cup found, !.errors = @ \cup {code}]
    BY <1>4, Zenon DEF Misses
  <2>2. m = [pc |-> l.pc, queue |-> Tail(l.queue), visited |-> l.visited \cup found,
             resources |-> l.resources, errors |-> l.errors \cup {code}]
    BY <2>1 DEF IsLoad
  <2> QED BY <2>2 DEF IsLoad, Missed
<1>5. CASE id[2] # None /\ Visited(id) /\ load' = [load EXCEPT !.queue = Tail(@)]
  <2>1. m = [pc |-> l.pc, queue |-> Tail(l.queue), visited |-> l.visited, resources |-> l.resources,
             errors |-> l.errors]
    BY <1>5 DEF IsLoad
  <2>2. IsLoad(m) /\ m.pc = l.pc /\ m.queue = Tail(l.queue) /\ Known(l, m, dep, id)
    BY <1>5, <2>1 DEF IsLoad, Known, Visited
  <2> QED BY <1>1, <1>2, <2>2
<1>6. CASE /\ id[2] # None /\ ~Visited(id)
           /\ id \in DOMAIN bundle.installed /\ bundle.installed[id] # None /\ Visit(id)
  <2>1. PICK file : file = bundle.installed[id]
    OBVIOUS
  <2>2. PICK loaded, children : /\ loaded = FromFile(file, id[1])
                                /\ children = IF file.state = "broken" THEN <<>> ELSE Dependencies(file.docs)
    OBVIOUS
  <2>3. m = [l EXCEPT !.queue = Tail(@) \o children, !.visited = @ \cup {id},
                      !.resources = @ \o loaded.resources, !.errors = @ \cup loaded.errors]
    BY <1>6, <2>1, <2>2, Zenon DEF Visit
  <2>4. /\ IsLoad(m) /\ m.pc = l.pc
        /\ m.queue = Tail(l.queue) \o children /\ m.visited = l.visited \cup {id}
        /\ m.resources = l.resources \o loaded.resources /\ m.errors = l.errors \cup loaded.errors
    <3>1. m = [pc |-> l.pc, queue |-> Tail(l.queue) \o children, visited |-> l.visited \cup {id},
               resources |-> l.resources \o loaded.resources, errors |-> l.errors \cup loaded.errors]
      BY <2>3 DEF IsLoad
    <3> QED BY <3>1 DEF IsLoad
  <2>5. HasRead(l, m, id, file)
    BY <1>6, <2>2, <2>4 DEF HasRead, Visited
  <2> QED BY <1>1, <1>2, <1>6, <2>1, <2>4, <2>5
<1>7. CASE \E code, found : Misses(code, found)
  <2>1. IsLoad(m) /\ m.pc = l.pc /\ m.queue = Tail(l.queue) /\ Missed(l, m)
    BY <1>4, <1>7
  <2> QED BY <1>1, <1>2, <2>1
<1> QED BY <1>3, <1>5, <1>6, <1>7

LEMMA HeadAndTail ==
  ASSUME NEW S, NEW s \in Seq(S), s # <<>>
  PROVE  Head(s) \in S /\ Tail(s) \in Seq(S) /\ ToSet(s) \subseteq {Head(s)} \cup ToSet(Tail(s))
<1>1. /\ Tail(s) \in Seq(S) /\ Head(s) = s[1] /\ Len(Tail(s)) = Len(s) - 1
      /\ \A i \in 1..Len(Tail(s)) : Tail(s)[i] = s[i + 1]
  BY HeadTailProperties
<1>2. Len(s) \in Nat /\ Len(s) # 0 /\ DOMAIN s = 1..Len(s) /\ \A i \in 1..Len(s) : s[i] \in S
  BY Places, EmptySeq
<1>3. DOMAIN Tail(s) = 1..Len(Tail(s))
  BY <1>1, Places
<1>4. ASSUME NEW i \in 1..Len(s), i # 1 PROVE s[i] \in ToSet(Tail(s))
  <2>1. i - 1 \in 1..Len(Tail(s)) /\ (i - 1) + 1 = i
    BY <1>1, <1>2, <1>4
  <2>2. Tail(s)[i - 1] = s[i]
    BY <1>1, <2>1
  <2> QED BY <1>3, <2>1, <2>2 DEF ToSet
<1>5. ToSet(s) \subseteq {Head(s)} \cup ToSet(Tail(s))
  BY <1>1, <1>2, <1>4 DEF ToSet
<1> QED BY <1>1, <1>2, <1>5

LEMMA ResolvedFits ==
  ASSUME NEW dep, Resolved(dep) # None
  PROVE  dep.version \in {Resolved(dep), Loose}
BY DEF Resolved

\* A manifest that is read yields the Package document it begins with.
LEMMA PackageIsThere ==
  ASSUME NEW file, IsFile(file), NEW pkg, pkg # None, PackageName(file.docs) = pkg, file.state = "ok"
  PROVE  \E r \in ToSet(FromFile(file, pkg).resources) : Scope(r) = <<pkg, "Package", pkg>>
<1>1. IsPackage(file.docs) /\ file.docs[1].name = pkg
  BY DEF PackageName
<1>2. file.docs # <<>> /\ file.docs[1] # None /\ file.docs[1].kind = "Package"
  BY <1>1 DEF IsPackage
<1>3. file.docs \in Seq(ToSet(file.docs)) /\ DOMAIN file.docs = 1..Len(file.docs) /\ Len(file.docs) \in Nat
  BY ListPlaces DEF IsFile
<1>4. 1 \in DOMAIN file.docs
  <2>1. Len(file.docs) # 0
    BY <1>2, <1>3, EmptySeq
  <2> QED BY <1>3, <2>1
<1>5. PICK r : r = Resource(file.docs[1], file.path, 1, pkg)
  OBVIOUS
<1>6. r \in ResourcesIn(file, pkg)
  BY <1>1, <1>2, <1>4, <1>5 DEF ResourcesIn, IsResource
<1>7. r.pkg = pkg /\ r.name = pkg /\ r.kind = "Package"
  BY <1>1, <1>2, <1>5, ResourceFields DEF KnownKinds
<1> QED BY <1>6, <1>7, FileReads DEF Scope

LEMMA DemandsHaveNames ==
  ASSUME bundle \in Bundles, NEW dep \in DemandsOf(bundle)
  PROVE  dep.name # None
<1>1. PICK f \in FilesOf(bundle) : dep \in ToSet(Dependencies(f.docs))
  BY DEF DemandsOf
<1> QED BY <1>1, BundleHolds, DependenciesAreListed

LEMMA TakeKeepsLoad ==
  ASSUME LoadInv, TakeDependency
  PROVE  LoadInv'
<1>1. PICK l, m : l = load /\ m = load'
  OBVIOUS
<1>2. /\ bundle' = bundle /\ bundle \in Bundles /\ ManifestDocs' = ManifestDocs
      /\ IsLoad(l) /\ l.queue \in Seq(DemandsOf(bundle)) /\ l.resources \in Seq(ResourcesOf(bundle))
  BY <1>1, ManifestStays DEF TakeDependency, LoadInv, LoadTypes
<1>3. PICK dep, id :
        /\ l.pc = "deps" /\ l.queue # <<>> /\ dep = Head(l.queue)
        /\ id = <<dep.name, Resolved(dep)>>
        /\ IsLoad(m) /\ m.pc = l.pc
        /\ \/ m.queue = Tail(l.queue) /\ Missed(l, m)
           \/ m.queue = Tail(l.queue) /\ Known(l, m, dep, id)
           \/ /\ id \in DOMAIN bundle.installed /\ bundle.installed[id] # None
              /\ HasRead(l, m, id, bundle.installed[id])
  <2> HIDE DEF IsLoad, Missed, Known, HasRead
  <2> QED BY <1>1, <1>2, TakeCases
<1>4. PICK tail : tail = Tail(l.queue)
  OBVIOUS
<1>5. /\ dep \in DemandsOf(bundle) /\ tail \in Seq(DemandsOf(bundle))
      /\ ToSet(l.queue) \subseteq {dep} \cup ToSet(tail)
  BY <1>2, <1>3, <1>4, HeadAndTail
<1>6. dep.name # None /\ id[1] = dep.name /\ id[2] = Resolved(dep)
  BY <1>2, <1>3, <1>5, DemandsHaveNames
<1>7. id[2] # None => dep.version \in {id[2], Loose}
  BY <1>6, ResolvedFits
<1>8. DemandsOf(bundle)' = DemandsOf(bundle) /\ ResourcesOf(bundle)' = ResourcesOf(bundle)
  BY <1>2
<1>9. IsValidated'
  <2>1. load'.pc # "loaded"
    BY <1>1, <1>3
  <2> QED BY <2>1 DEF IsValidated
<1>10. Dependencies(ManifestDocs) # <<>> /\ \A r \in ToSet(l.resources) : r.pkg # None
  BY <1>1, <1>3 DEF LoadInv, OnlyPackages
<1>11. ASSUME m.queue \in Seq(DemandsOf(bundle)), m.resources \in Seq(ResourcesOf(bundle)) PROVE LoadTypes'
  <2>1. IsLoad(load') /\ load'.pc = "deps"
    BY <1>1, <1>3
  <2> QED BY <1>1, <1>2, <1>8, <1>11, <2>1 DEF LoadTypes
<1>12. CASE m.queue = Tail(l.queue) /\ Missed(l, m)
  <2>1. m.errors # {} /\ m.resources = l.resources /\ m.queue = tail
    BY <1>4, <1>12 DEF Missed
  <2>2. LoadTypes'
    BY <1>2, <1>5, <1>11, <2>1
  <2>3. VisitedAreRead' /\ PackagesArePlaced' /\ WantedIsQueued'
    BY <1>1, <2>1 DEF VisitedAreRead, PackagesArePlaced, WantedIsQueued
  <2>4. OnlyPackages'
    BY <1>1, <1>2, <1>10, <2>1 DEF OnlyPackages
  <2> QED BY <1>9, <2>2, <2>3, <2>4 DEF LoadInv
<1>13. CASE m.queue = Tail(l.queue) /\ Known(l, m, dep, id)
  <2>1. /\ m.queue = tail /\ id[2] # None /\ id \in l.visited
        /\ m.visited = l.visited /\ m.resources = l.resources /\ m.errors = l.errors
    BY <1>4, <1>13 DEF Known
  <2>2. LoadTypes'
    BY <1>2, <1>5, <1>11, <2>1
  <2>3. VisitedAreRead'
    BY <1>1, <1>2, <2>1 DEF LoadInv, VisitedAreRead
  <2>4. PackagesArePlaced'
    BY <1>1, <2>1 DEF LoadInv, PackagesArePlaced
  <2>5. IsMet(dep, m.visited)
    BY <1>6, <1>7, <2>1 DEF IsMet
  <2>6. WantedIsQueued'
    <3> SUFFICES ASSUME m.errors = {}, NEW w \in Wanted(bundle, ManifestDocs, l.visited)
                 PROVE  w \in ToSet(m.queue) \/ IsMet(w, m.visited)
      BY <1>1, <1>2, <2>1 DEF WantedIsQueued
    <3>1. w \in ToSet(l.queue) \/ IsMet(w, l.visited)
      BY <1>1, <1>3, <2>1 DEF LoadInv, WantedIsQueued
    <3> QED BY <1>5, <2>1, <2>5, <3>1
  <2>7. OnlyPackages'
    BY <1>1, <1>2, <1>10, <2>1 DEF OnlyPackages
  <2> QED BY <1>9, <2>2, <2>3, <2>4, <2>6, <2>7 DEF LoadInv
<1>14. CASE /\ id \in DOMAIN bundle.installed /\ bundle.installed[id] # None
            /\ HasRead(l, m, id, bundle.installed[id])
  <2>1. PICK file : file = bundle.installed[id]
    OBVIOUS
  <2>2. PICK children, found, errors :
          /\ children = IF file.state = "broken" THEN <<>> ELSE Dependencies(file.docs)
          /\ found = FromFile(file, id[1]).resources /\ errors = FromFile(file, id[1]).errors
    OBVIOUS
  <2>3. /\ id[2] # None /\ id \notin l.visited
        /\ m.queue = tail \o children /\ m.visited = l.visited \cup {id}
        /\ m.resources = l.resources \o found /\ m.errors = l.errors \cup errors
    BY <1>4, <1>14, <2>1, <2>2 DEF HasRead
  <2>4. file \in FilesOf(bundle) /\ IsFile(file) /\ id[1] \in PackagesOf(bundle)
    BY <1>2, <1>14, <2>1, BundleHolds DEF PackagesOf
  <2>5. /\ found \in Seq(ResourcesIn(file, id[1]))
        /\ file.state = "ok" => ToSet(found) = ResourcesIn(file, id[1])
        /\ file.state # "ok" => errors # {}
    BY <2>2, <2>4, FileReads
  <2>6. ResourcesIn(file, id[1]) \subseteq ResourcesOf(bundle) /\ \A r \in ResourcesIn(file, id[1]) : r.pkg = id[1]
    BY <2>4, ResourcesAreAll
  <2>7. found \in Seq(ResourcesOf(bundle)) /\ \A r \in ToSet(found) : r.pkg = id[1]
    BY <2>5, <2>6, Places, SeqIsFunction
  <2>8. children \in Seq(DemandsOf(bundle))
    <3>1. IsList(Dependencies(file.docs)) /\ ToSet(Dependencies(file.docs)) \subseteq DemandsOf(bundle)
      BY <2>4, DependenciesAreListed DEF DemandsOf
    <3>2. Dependencies(file.docs) \in Seq(DemandsOf(bundle))
      BY <3>1, ListPlaces, SeqIsFunction
    <3> QED BY <2>2, <3>2, EmptySeq
  <2>9. /\ m.queue \in Seq(DemandsOf(bundle)) /\ m.resources \in Seq(ResourcesOf(bundle))
        /\ ToSet(m.queue) = ToSet(tail) \cup ToSet(children)
        /\ ToSet(m.resources) = ToSet(l.resources) \cup ToSet(found)
        /\ \A i \in 1..Len(l.resources) : m.resources[i] = l.resources[i] /\ i \in 1..Len(m.resources)
        /\ \A i \in 1..Len(found) : /\ Len(l.resources) + i \in 1..Len(m.resources)
                                    /\ m.resources[Len(l.resources) + i] = found[i]
    <3>1. Len(l.resources) \in Nat /\ Len(found) \in Nat /\ Len(m.resources) = Len(l.resources) + Len(found)
      BY <1>2, <2>3, <2>7, Joined, Places
    <3>2. \A i \in 1..Len(l.resources) : i \in 1..Len(m.resources)
      BY <3>1
    <3> QED BY <1>2, <1>5, <2>3, <2>7, <2>8, <3>2, Joined
  <2>10. LoadTypes'
    BY <1>11, <2>9
  <2>11. m.errors = {} => l.errors = {} /\ file.state = "ok" /\ children = Dependencies(file.docs)
    BY <2>2, <2>3, <2>5
  <2>12. VisitedAreRead'
    <3>1. ASSUME m.errors = {}, NEW v \in m.visited
          PROVE  /\ v[1] # None /\ v \in DOMAIN bundle.installed
                 /\ bundle.installed[v] # None /\ bundle.installed[v].state = "ok"
      BY <1>1, <1>6, <1>14, <2>1, <2>3, <2>11, <3>1 DEF LoadInv, VisitedAreRead
    <3> QED BY <1>1, <1>2, <3>1 DEF VisitedAreRead
  <2>13. PackagesArePlaced'
    <3> SUFFICES ASSUME m.errors = {}
                 PROVE  \E at \in [m.visited -> 1..Len(m.resources)] :
                          /\ \A v, w \in m.visited : at[v] = at[w] => v = w
                          /\ \A v \in m.visited : Scope(m.resources[at[v]]) = <<v[1], "Package", v[1]>>
      BY <1>1 DEF PackagesArePlaced
    <3>1. PICK at \in [l.visited -> 1..Len(l.resources)] :
            /\ \A v, w \in l.visited : at[v] = at[w] => v = w
            /\ \A v \in l.visited : Scope(l.resources[at[v]]) = <<v[1], "Package", v[1]>>
      BY <1>1, <2>11 DEF LoadInv, PackagesArePlaced
    <3>2. PackageName(file.docs) = id[1]
      BY <1>2, <1>14, <2>1, <2>11, BundleAssumption
    <3>3. PICK r \in ToSet(found) : Scope(r) = <<id[1], "Package", id[1]>>
      BY <1>6, <2>2, <2>4, <2>11, <3>2, PackageIsThere
    <3>4. PICK k \in 1..Len(found) : found[k] = r
      BY <2>7, <3>3, Places DEF ToSet
    <3> DEFINE new == [v \in m.visited |-> IF v = id THEN Len(l.resources) + k ELSE at[v]]
    <3>5. new[id] = Len(l.resources) + k /\ \A v \in l.visited : new[v] = at[v]
      BY <2>3
    <3>6. \A v \in m.visited : v \in l.visited \/ v = id
      BY <2>3
    <3>7. new \in [m.visited -> 1..Len(m.resources)]
      BY <2>9, <3>1, <3>4, <3>6
    <3> HIDE DEF new
    <3>8. Scope(m.resources[new[id]]) = <<id[1], "Package", id[1]>>
      BY <2>9, <3>3, <3>4, <3>5
    <3>9. ASSUME NEW v \in l.visited PROVE Scope(m.resources[new[v]]) = <<v[1], "Package", v[1]>>
      <4>1. new[v] = at[v] /\ at[v] \in 1..Len(l.resources)
        BY <3>1, <3>5
      <4>2. m.resources[at[v]] = l.resources[at[v]]
        BY <2>9, <4>1
      <4> QED BY <3>1, <4>1, <4>2
    <3>10. ASSUME NEW v \in l.visited PROVE new[v] # new[id]
      <4>1. new[v] \in 1..Len(l.resources) /\ Len(l.resources) \in Nat
        BY <1>2, <3>1, <3>5, Places
      <4> QED BY <3>5, <4>1
    <3>11. \A v, w \in m.visited : new[v] = new[w] => v = w
      BY <3>1, <3>5, <3>6, <3>10
    <3> QED BY <3>6, <3>7, <3>8, <3>9, <3>11
  <2>14. IsMet(dep, m.visited) /\ \A w : IsMet(w, l.visited) => IsMet(w, m.visited)
    BY <1>6, <1>7, <2>3 DEF IsMet
  <2>15. WantedIsQueued'
    <3> SUFFICES ASSUME m.errors = {}, NEW w \in Wanted(bundle, ManifestDocs, m.visited)
                 PROVE  w \in ToSet(m.queue) \/ IsMet(w, m.visited)
      BY <1>1, <1>2 DEF WantedIsQueued
    <3>1. CASE w \in Wanted(bundle, ManifestDocs, l.visited)
      <4>1. w \in ToSet(l.queue) \/ IsMet(w, l.visited)
        BY <1>1, <1>3, <2>11, <3>1 DEF LoadInv, WantedIsQueued
      <4> QED BY <1>5, <2>9, <2>14, <4>1
    <3>2. CASE w \in ToSet(Dependencies(bundle.installed[id].docs))
      BY <2>1, <2>9, <2>11, <3>2
    <3> QED BY <2>3, <3>1, <3>2 DEF Wanted
  <2>16. OnlyPackages'
    BY <1>1, <1>2, <1>6, <1>10, <2>7, <2>9 DEF OnlyPackages
  <2> QED BY <1>9, <2>10, <2>12, <2>13, <2>15, <2>16 DEF LoadInv
<1> QED BY <1>3, <1>12, <1>13, <1>14

LEMMA LocalKeepsLoad ==
  ASSUME LoadInv, LoadLocal
  PROVE  LoadInv'
<1>1. PICK l, m : l = load /\ m = load'
  OBVIOUS
<1>2. /\ bundle' = bundle /\ bundle \in Bundles /\ ManifestDocs' = ManifestDocs
      /\ IsLoad(l) /\ l.queue = <<>> /\ l.pc = "deps" /\ l.resources \in Seq(ResourcesOf(bundle))
  BY <1>1, ManifestStays DEF LoadLocal, LoadInv, LoadTypes
<1>3. PICK all, errors : /\ all = l.resources \o LocalFiles.resources
                         /\ errors = l.errors \cup LocalFiles.errors \cup Errors(all) \cup EntryErrors(all)
  OBVIOUS
<1>4. m = [l EXCEPT !.pc = "loaded", !.resources = all, !.errors = errors]
  BY <1>1, <1>3, Zenon DEF LoadLocal
<1>5. m = [pc |-> "loaded", queue |-> l.queue, visited |-> l.visited, resources |-> all, errors |-> errors]
  BY <1>2, <1>4 DEF IsLoad
<1>6. /\ IsLoad(m) /\ m.pc = "loaded" /\ m.queue = <<>> /\ m.visited = l.visited
      /\ m.resources = all /\ m.errors = errors
  BY <1>2, <1>5 DEF IsLoad
<1>7. errors = {} => l.errors = {} /\ LocalFiles.errors = {} /\ Errors(all) = {}
  BY <1>3
<1>8. PICK own, pkg : own = LocalFiles.resources /\ pkg = PackageName(ManifestDocs)
  OBVIOUS
<1>9. /\ own \in Seq(ResourcesOf(bundle)) /\ \A r \in ToSet(own) : r.pkg = pkg
  BY <1>2, <1>8, LocalReads
<1>10. /\ all \in Seq(ResourcesOf(bundle)) /\ ToSet(all) = ToSet(l.resources) \cup ToSet(own)
       /\ \A i \in 1..Len(l.resources) : all[i] = l.resources[i] /\ i \in 1..Len(all)
  <2>1. Len(l.resources) \in Nat /\ Len(own) \in Nat /\ Len(all) = Len(l.resources) + Len(own)
    BY <1>2, <1>3, <1>8, <1>9, Joined, Places
  <2>2. \A i \in 1..Len(l.resources) : i \in 1..Len(all)
    BY <2>1
  <2>3. /\ all \in Seq(ResourcesOf(bundle)) /\ ToSet(all) = ToSet(l.resources) \cup ToSet(own)
        /\ \A i \in 1..Len(l.resources) : all[i] = l.resources[i]
    <3>1. all = l.resources \o own
      BY <1>3, <1>8
    <3> QED BY <1>2, <1>9, <3>1, Joined
  <2> QED BY <2>2, <2>3
<1>11. LoadTypes'
  <2>1. ResourcesOf(bundle)' = ResourcesOf(bundle)
    BY <1>2
  <2>2. IsLoad(load') /\ load'.pc = "loaded" /\ load'.queue \in Seq(DemandsOf(bundle)')
    BY <1>1, <1>6, EmptySeq
  <2> QED BY <1>1, <1>2, <1>6, <1>10, <2>1, <2>2 DEF LoadTypes
<1>12. VisitedAreRead'
  BY <1>1, <1>2, <1>6, <1>7 DEF LoadInv, VisitedAreRead
<1>13. PackagesArePlaced'
  <2> SUFFICES ASSUME errors = {}
               PROVE  \E at \in [l.visited -> 1..Len(all)] :
                        /\ \A v, w \in l.visited : at[v] = at[w] => v = w
                        /\ \A v \in l.visited : Scope(all[at[v]]) = <<v[1], "Package", v[1]>>
    BY <1>1, <1>6 DEF PackagesArePlaced
  <2>1. PICK at \in [l.visited -> 1..Len(l.resources)] :
          /\ \A v, w \in l.visited : at[v] = at[w] => v = w
          /\ \A v \in l.visited : Scope(l.resources[at[v]]) = <<v[1], "Package", v[1]>>
    BY <1>1, <1>7 DEF LoadInv, PackagesArePlaced
  <2>2. at \in [l.visited -> 1..Len(all)]
    BY <1>10, <2>1
  <2>3. ASSUME NEW v \in l.visited PROVE Scope(all[at[v]]) = <<v[1], "Package", v[1]>>
    <3>1. at[v] \in 1..Len(l.resources)
      BY <2>1
    <3>2. all[at[v]] = l.resources[at[v]]
      BY <1>10, <3>1
    <3> QED BY <2>1, <3>2
  <2> QED BY <2>1, <2>2, <2>3
<1>14. WantedIsQueued'
  <2> SUFFICES ASSUME errors = {}, NEW w \in Wanted(bundle, ManifestDocs, l.visited)
               PROVE  w \in ToSet(l.queue) \/ IsMet(w, l.visited)
    BY <1>1, <1>2, <1>6 DEF WantedIsQueued
  <2> QED BY <1>1, <1>2, <1>7 DEF LoadInv, WantedIsQueued
<1>15. OnlyPackages'
  <2>1. load'.pc # "deps"
    BY <1>1, <1>6
  <2> QED BY <2>1 DEF OnlyPackages
<1>16. ASSUME LocalIsApart PROVE OneSort(all)
  <2>1. \A r \in ToSet(l.resources) : r.pkg # None
    BY <1>1, <1>2 DEF LoadInv, OnlyPackages
  <2>2. CASE pkg # None
    BY <1>9, <1>10, <2>1, <2>2 DEF OneSort
  <2>3. CASE pkg = None
    <3>1. l.resources = <<>>
      BY <1>1, <1>2, <1>8, <1>16, <2>3 DEF LoadInv, OnlyPackages, LocalIsApart
    <3>2. ToSet(l.resources) = {}
      BY <3>1 DEF ToSet
    <3> QED BY <1>9, <1>10, <2>3, <3>2 DEF OneSort
  <2> QED BY <2>2, <2>3
<1>17. IsValidated'
  <2>1. LocalIsApart' = LocalIsApart
    BY <1>2 DEF LocalIsApart
  <2> QED BY <1>1, <1>3, <1>6, <1>16, <2>1 DEF IsValidated
<1> QED BY <1>11, <1>12, <1>13, <1>14, <1>15, <1>17 DEF LoadInv

LEMMA LoadStays ==
  ASSUME LoadInv, UNCHANGED <<bundle, load>>
  PROVE  LoadInv'
<1>1. bundle' = bundle /\ load' = load /\ ManifestDocs' = ManifestDocs
  BY ManifestStays
<1>2. LoadTypes' /\ VisitedAreRead' /\ PackagesArePlaced'
  BY <1>1 DEF LoadInv, LoadTypes, VisitedAreRead, PackagesArePlaced
<1>3. WantedIsQueued' /\ OnlyPackages' /\ IsValidated'
  BY <1>1 DEF LoadInv, WantedIsQueued, OnlyPackages, IsValidated, LocalIsApart
<1> QED BY <1>2, <1>3 DEF LoadInv

LEMMA LoadIsKept == LoadInv /\ [PlanNext]_planVars => LoadInv'
<1> SUFFICES ASSUME LoadInv, [PlanNext]_planVars PROVE LoadInv'
  OBVIOUS
<1>1. CASE Load
  <2>1. ReadManifest \/ TakeDependency \/ LoadLocal
    BY <1>1 DEF Load, LoadNext
  <2> QED BY <2>1, ReadKeepsLoad, TakeKeepsLoad, LocalKeepsLoad
<1>2. ASSUME NEW name, BuildRunner \/ BuildProcess(name) PROVE UNCHANGED <<bundle, load>>
  BY <1>2 DEF BuildRunner, BuildProcess
<1>3. ASSUME NEW connector, NEW event, Receive(connector, event) PROVE UNCHANGED <<bundle, load>>
  BY <1>3 DEF Receive
<1>4. CASE UNCHANGED planVars
  <2>1. UNCHANGED <<bundle, load>>
    BY <1>4 DEF planVars
  <2> QED BY <2>1, LoadStays
<1> QED BY <1>1, <1>2, <1>3, <1>4, LoadStays DEF PlanNext

\* A load without errors is closed: it has what its packages ask for, each
\* package in one version.
LEMMA LoadInvIsClosed == LoadInv => LoadIsClosed
<1> SUFFICES ASSUME LoadInv, load.pc = "loaded", load.errors = {}
             PROVE  /\ \A dep \in Wanted(bundle, ManifestDocs, load.visited) : IsMet(dep, load.visited)
                    /\ \A v, w \in load.visited : v[1] = w[1] => v = w
  BY DEF LoadIsClosed, Wanted, IsMet
<1>1. load.queue = <<>> /\ Errors(load.resources) = {} /\ load.resources \in Seq(ResourcesOf(bundle))
  BY DEF LoadInv, LoadTypes, IsValidated
<1>2. \A dep \in Wanted(bundle, ManifestDocs, load.visited) : IsMet(dep, load.visited)
  <2>1. ToSet(load.queue) = {}
    BY <1>1 DEF ToSet
  <2> QED BY <2>1 DEF LoadInv, WantedIsQueued
<1>3. PICK at \in [load.visited -> 1..Len(load.resources)] :
        /\ \A v, w \in load.visited : at[v] = at[w] => v = w
        /\ \A v \in load.visited : Scope(load.resources[at[v]]) = <<v[1], "Package", v[1]>>
  BY DEF LoadInv, PackagesArePlaced
<1>4. ASSUME NEW v \in load.visited, NEW w \in load.visited, v[1] = w[1] PROVE v = w
  <2>1. at[v] \in 1..Len(load.resources) /\ at[w] \in 1..Len(load.resources)
    BY <1>3
  <2>2. Scope(load.resources[at[v]]) = Scope(load.resources[at[w]])
    BY <1>3, <1>4
  <2>3. at[v] = at[w]
    BY <1>1, <2>1, <2>2, ScopesDiffer
  <2> QED BY <1>3, <2>3
<1> QED BY <1>2, <1>4

\* What a load has read, queued and checked: the inductive invariant of bundle-loader.ts.
THEOREM LoadInvariant == PlanSpec => []LoadInv
<1> QED BY InitIsLoad, LoadIsKept, PTL DEF PlanSpec

\* A load without errors has every dependency that its packages ask for, and each
\* package in one version.
THEOREM LoadsAreClosed == PlanSpec => []LoadIsClosed
<1> QED BY LoadInvariant, LoadInvIsClosed, PTL

-----------------------------------------------------------------------------
(* What a reference is taken for *)

LEMMA FirstIsThere ==
  ASSUME NEW n \in Nat, NEW s, NEW places \in SUBSET (1..n), places # {}
  PROVE  \E i \in places : FirstOf(s, places) = s[i]
<1>1. Min(places) \in places
  BY MinIsLeast
<1> QED BY <1>1 DEF FirstOf

\* Places that all hold what a reference denotes.
Fit(rs, places, scope) ==
  places \in SUBSET (1..Len(rs)) /\ places # {} /\ \A i \in places : Scope(rs[i]) = scope

LEMMA FitIsTaken ==
  ASSUME NEW S, None \notin S, NEW rs \in Seq(S), NEW places, NEW scope, Fit(rs, places, scope)
  PROVE  FirstOf(rs, places) # None /\ Scope(FirstOf(rs, places)) = scope
<1>0. Len(rs) \in Nat /\ places \in SUBSET (1..Len(rs)) /\ places # {}
  BY Places DEF Fit
<1>1. PICK i \in places : FirstOf(rs, places) = rs[i]
  BY <1>0, FirstIsThere
<1>2. rs[i] \in S /\ Scope(rs[i]) = scope
  BY <1>1, Places DEF Fit
<1> QED BY <1>1, <1>2

LEMMA WithinFits ==
  ASSUME NEW S, NEW rs \in Seq(S), NEW kind, NEW name, NEW pkg, pkg # None,
         NEW i \in 1..Len(rs), Scope(rs[i]) = <<pkg, kind, name>>
  PROVE  Fit(rs, Within(rs, Named(rs, kind, name), pkg), <<pkg, kind, name>>)
<1>1. DOMAIN rs = 1..Len(rs)
  BY Places
<1>2. rs[i].pkg = pkg /\ rs[i].kind = kind /\ rs[i].name = name
  BY DEF Scope
<1>3. i \in Within(rs, Named(rs, kind, name), pkg)
  BY <1>1, <1>2 DEF Within, Named
<1>4. \A j \in Within(rs, Named(rs, kind, name), pkg) :
        j \in 1..Len(rs) /\ rs[j].pkg = pkg /\ rs[j].kind = kind /\ rs[j].name = name
  BY <1>1 DEF Within, Named
<1> QED BY <1>3, <1>4 DEF Fit, Scope

\* Where no resource has a package, the named ones are only one.
LEMMA OnlyFits ==
  ASSUME NEW S, NEW rs \in Seq(S), \A r \in ToSet(rs) : r.pkg = None,
         \A i, j \in 1..Len(rs) : Scope(rs[i]) = Scope(rs[j]) => i = j,
         NEW kind, NEW name, NEW i \in 1..Len(rs), Scope(rs[i]) = <<None, kind, name>>
  PROVE  /\ Fit(rs, Named(rs, kind, name), <<None, kind, name>>)
         /\ Cardinality(Named(rs, kind, name)) = 1
         /\ \A pkg : Within(rs, Named(rs, kind, name), pkg) = {}
<1>1. DOMAIN rs = 1..Len(rs) /\ \A j \in 1..Len(rs) : rs[j].pkg = None
  BY Places
<1>2. rs[i].kind = kind /\ rs[i].name = name
  BY DEF Scope
<1>3. \A j \in Named(rs, kind, name) : j \in 1..Len(rs) /\ Scope(rs[j]) = <<None, kind, name>>
  BY <1>1 DEF Named, Scope
<1>4. Named(rs, kind, name) = {i}
  <2>1. i \in Named(rs, kind, name)
    BY <1>1, <1>2 DEF Named
  <2>2. \A j \in Named(rs, kind, name) : j = i
    BY <1>3
  <2> QED BY <2>1, <2>2
<1>5. \A pkg : Within(rs, Named(rs, kind, name), pkg) = {}
  BY <1>1, <1>3 DEF Within
<1>6. Cardinality({i}) = 1
  BY FS_Singleton
<1> QED BY <1>3, <1>4, <1>5, <1>6 DEF Fit

LEMMA RunnerTakesDenoted ==
  ASSUME NEW S, None \notin S, NEW rs \in Seq(S), Errors(rs) = {}, OneSort(rs),
         NEW r \in ToSet(rs), NEW ref \in RefsOf(r), NEW swarmPkg,
         NEW taken, taken = RunnerSelect(rs, ref, ref.kind, r.pkg, swarmPkg)
  PROVE  taken # None /\ Scope(taken) = Denoted(ref, r)
<1> DEFINE named == Named(rs, ref.kind, ref.name)
           pkg == IF ref.pkg = None THEN r.pkg ELSE ref.pkg
           only == IF Cardinality(named) = 1 THEN named ELSE {}
           places == IF ref.pkg # None THEN Within(rs, named, ref.pkg)
                     ELSE FirstFilled(Within(rs, named, r.pkg), Within(rs, named, swarmPkg), only)
<1>1. PICK i \in 1..Len(rs) : Scope(rs[i]) = Denoted(ref, r)
  <2>1. PICK x \in ToSet(rs) : Scope(x) = Denoted(ref, r)
    BY ErrorsMean
  <2> QED BY <2>1, Places DEF ToSet
<1>2. Denoted(ref, r) = <<pkg, ref.kind, ref.name>>
  BY DEF Denoted
<1>3. taken = FirstOf(rs, places)
  BY DEF RunnerSelect
<1> HIDE DEF named
<1>4. CASE pkg # None
  <2>1. Fit(rs, Within(rs, named, pkg), Denoted(ref, r))
    BY <1>1, <1>2, <1>4, WithinFits DEF named
  <2>2. Within(rs, named, pkg) # {}
    BY <2>1 DEF Fit
  <2>3. places = Within(rs, named, pkg)
    BY <2>2 DEF FirstFilled
  <2> QED BY <1>3, <2>1, <2>3, FitIsTaken
<1>5. CASE pkg = None
  <2>1. \A x \in ToSet(rs) : x.pkg = None
    BY <1>5 DEF OneSort
  <2>2. /\ Fit(rs, named, Denoted(ref, r)) /\ Cardinality(named) = 1
        /\ \A p : Within(rs, named, p) = {}
    <3>1. Scope(rs[i]) = <<None, ref.kind, ref.name>>
      BY <1>1, <1>2, <1>5
    <3>2. \A k, m \in 1..Len(rs) : Scope(rs[k]) = Scope(rs[m]) => k = m
      BY ScopesDiffer
    <3> QED BY <1>2, <1>5, <2>1, <3>1, <3>2, OnlyFits DEF named
  <2>3. places = named
    BY <1>5, <2>2 DEF FirstFilled
  <2> QED BY <1>3, <2>2, <2>3, FitIsTaken
<1> QED BY <1>4, <1>5

LEMMA ProcessTakesDenoted ==
  ASSUME NEW S, None \notin S, NEW rs \in Seq(S), Errors(rs) = {}, OneSort(rs),
         NEW r \in ToSet(rs), NEW ref \in RefsOf(r),
         NEW taken, taken = ProcessSelect(rs, ref, ref.kind, r.pkg, None)
  PROVE  taken # None /\ Scope(taken) = Denoted(ref, r)
<1> DEFINE named == Named(rs, ref.kind, ref.name)
           pkg == IF ref.pkg = None THEN r.pkg ELSE ref.pkg
           fitting == IF ref.pkg = None THEN named ELSE Within(rs, named, ref.pkg)
           places == FirstFilled(Within(rs, fitting, r.pkg), Within(rs, fitting, None), fitting)
<1>1. PICK i \in 1..Len(rs) : Scope(rs[i]) = Denoted(ref, r)
  <2>1. PICK x \in ToSet(rs) : Scope(x) = Denoted(ref, r)
    BY ErrorsMean
  <2> QED BY <2>1, Places DEF ToSet
<1>2. Denoted(ref, r) = <<pkg, ref.kind, ref.name>>
  BY DEF Denoted
<1>3. taken = FirstOf(rs, places)
  BY DEF ProcessSelect
<1>0. Within(rs, fitting, None) = {}
  BY DEF Within
<1> HIDE DEF named
<1>4. CASE pkg # None
  <2>1. Fit(rs, Within(rs, named, pkg), Denoted(ref, r))
    BY <1>1, <1>2, <1>4, WithinFits DEF named
  <2>2. CASE ref.pkg = None
    <3>1. places = Within(rs, named, pkg)
      BY <2>1, <2>2 DEF FirstFilled, Fit
    <3> QED BY <1>3, <2>1, <3>1, FitIsTaken
  <2>3. CASE ref.pkg # None
    <3>1. fitting = Within(rs, named, pkg)
      BY <2>3
    <3>2. places # {} /\ places \subseteq fitting
      BY <1>0, <2>1, <3>1 DEF FirstFilled, Within, Fit
    <3>3. Fit(rs, places, Denoted(ref, r))
      BY <2>1, <3>1, <3>2 DEF Fit
    <3> QED BY <1>3, <3>3, FitIsTaken
  <2> QED BY <2>2, <2>3
<1>5. CASE pkg = None
  <2>1. \A x \in ToSet(rs) : x.pkg = None
    BY <1>5 DEF OneSort
  <2>2. /\ Fit(rs, named, Denoted(ref, r)) /\ \A p : Within(rs, named, p) = {}
    <3>1. Scope(rs[i]) = <<None, ref.kind, ref.name>>
      BY <1>1, <1>2, <1>5
    <3>2. \A k, m \in 1..Len(rs) : Scope(rs[k]) = Scope(rs[m]) => k = m
      BY ScopesDiffer
    <3> QED BY <1>2, <1>5, <2>1, <3>1, <3>2, OnlyFits DEF named
  <2>3. places = named
    BY <1>5, <2>2 DEF FirstFilled
  <2> QED BY <1>3, <2>2, <2>3, FitIsTaken
<1> QED BY <1>4, <1>5

-----------------------------------------------------------------------------
(* Catalogs and registries *)

FunctionsOf(N, R) == UNION {[D -> R] : D \in SUBSET N}
CatalogsOf(S) == FunctionsOf(UNION {ToolNames(t) : t \in S}, {Scope(t) : t \in S})

LEMMA CompletedFits ==
  ASSUME NEW N, NEW R, NEW f \in FunctionsOf(N, R), NEW g \in FunctionsOf(N, R)
  PROVE  Completed(f, g) \in FunctionsOf(N, R)
<1>1. PICK D \in SUBSET N : f \in [D -> R]
  BY DEF FunctionsOf
<1>2. PICK E \in SUBSET N : g \in [E -> R]
  BY DEF FunctionsOf
<1>3. Completed(f, g) = [x \in D \cup E |-> IF x \in D THEN f[x] ELSE g[x]]
  BY <1>1, <1>2 DEF Completed
<1>4. Completed(f, g) \in [D \cup E -> R]
  BY <1>1, <1>2, <1>3
<1> QED BY <1>1, <1>2, <1>4 DEF FunctionsOf

LEMMA NoToolsIsCatalog ==
  ASSUME NEW N, NEW R
  PROVE  NoTools \in FunctionsOf(N, R)
<1>1. NoTools \in [{} -> R]
  BY DEF NoTools
<1> QED BY <1>1 DEF FunctionsOf

LEMMA EntriesAreCatalog ==
  ASSUME NEW S, NEW t \in S
  PROVE  /\ ToolEntries(t) \in CatalogsOf(S) /\ DOMAIN ToolEntries(t) = ToolNames(t)
         /\ \A x \in ToolNames(t) : ToolEntries(t)[x] = Scope(t)
<1>1. ToolEntries(t) \in [ToolNames(t) -> {Scope(x) : x \in S}]
  BY DEF ToolEntries
<1>2. ToolNames(t) \in SUBSET UNION {ToolNames(x) : x \in S}
  OBVIOUS
<1> QED BY <1>1, <1>2 DEF ToolEntries, CatalogsOf, FunctionsOf

LEMMA CatalogGrows ==
  ASSUME NEW S, NEW t \in S, NEW cat \in CatalogsOf(S)
  PROVE  /\ Completed(cat, ToolEntries(t)) \in CatalogsOf(S)
         /\ DOMAIN Completed(cat, ToolEntries(t)) = DOMAIN cat \cup ToolNames(t)
         /\ \A x \in DOMAIN cat : Completed(cat, ToolEntries(t))[x] = cat[x]
         /\ \A x \in ToolNames(t) : x \notin DOMAIN cat => Completed(cat, ToolEntries(t))[x] = Scope(t)
<1>1. ToolEntries(t) \in CatalogsOf(S)
  BY EntriesAreCatalog
<1>2. Completed(cat, ToolEntries(t)) \in CatalogsOf(S)
  BY <1>1, CompletedFits DEF CatalogsOf
<1>3. PICK g : g = ToolEntries(t)
  OBVIOUS
<1>4. DOMAIN g = ToolNames(t) /\ \A x \in ToolNames(t) : g[x] = Scope(t)
  BY <1>3, EntriesAreCatalog
<1>5. PICK new : new = Completed(cat, g)
  OBVIOUS
<1>6. /\ DOMAIN new = DOMAIN cat \cup DOMAIN g
      /\ \A x \in DOMAIN cat : new[x] = cat[x]
      /\ \A x \in DOMAIN g : x \notin DOMAIN cat => new[x] = g[x]
  BY <1>5 DEF Completed
<1> QED BY <1>2, <1>3, <1>4, <1>5, <1>6

RegistriesOf(S) == {None} \cup CatalogsOf(S)

\* A registry takes all names of a tool or none of them.
LEMMA RegisterMeans ==
  ASSUME NEW S, NEW t \in S, NEW reg \in RegistriesOf(S)
  PROVE  /\ Register(reg, t) \in RegistriesOf(S)
         /\ Register(reg, t) # None =>
              /\ reg # None /\ reg \in CatalogsOf(S) /\ Register(reg, t) \in CatalogsOf(S)
              /\ DOMAIN Register(reg, t) = DOMAIN reg \cup ToolNames(t)
              /\ \A x \in DOMAIN reg : Register(reg, t)[x] = reg[x]
              /\ \A x \in ToolNames(t) : Register(reg, t)[x] = Scope(t)
<1>1. CASE reg = None \/ ToolNames(t) \cap DOMAIN reg # {}
  <2>1. Register(reg, t) = None
    BY <1>1 DEF Register
  <2> QED BY <2>1 DEF RegistriesOf
<1>2. CASE ~ (reg = None \/ ToolNames(t) \cap DOMAIN reg # {})
  <2>1. Register(reg, t) = Completed(reg, ToolEntries(t))
    BY <1>2 DEF Register
  <2>2. reg \in CatalogsOf(S)
    BY <1>2 DEF RegistriesOf
  <2>3. PICK new : new = Completed(reg, ToolEntries(t))
    OBVIOUS
  <2>4. /\ new \in CatalogsOf(S) /\ DOMAIN new = DOMAIN reg \cup ToolNames(t)
        /\ \A x \in DOMAIN reg : new[x] = reg[x]
        /\ \A x \in ToolNames(t) : x \notin DOMAIN reg => new[x] = Scope(t)
    BY <2>2, <2>3, CatalogGrows
  <2>5. \A x \in ToolNames(t) : new[x] = Scope(t)
    BY <1>2, <2>4
  <2> QED BY <1>2, <2>1, <2>2, <2>3, <2>4, <2>5 DEF RegistriesOf
<1> QED BY <1>1, <1>2

LEMMA RegisterOnceMeans ==
  ASSUME NEW S, NEW t \in S, NEW reg \in RegistriesOf(S)
  PROVE  RegisterOnce(reg, t) \in RegistriesOf(S)
BY RegisterMeans DEF RegisterOnce

\* The catalog that the first tools make.
LEMMA CatalogRuns ==
  ASSUME NEW S, NEW ts \in Seq(S)
  PROVE  \E p \in [0..Len(ts) -> CatalogsOf(S)] :
           /\ p[0] = NoTools /\ p[Len(ts)] = Catalog(ts)
           /\ \A k \in 1..Len(ts) : p[k] = Completed(p[k - 1], ToolEntries(ts[k]))
<1> DEFINE V == CatalogsOf(S)
           n == Len(ts)
           Rule(h) == h = [s \in SUBSET (1..n) |->
                             IF s = {} THEN NoTools
                             ELSE Completed(h[s \ {Top(s)}], ToolEntries(ts[Top(s)]))]
           each == [i \in 1..n |-> [v \in V |-> Completed(v, ToolEntries(ts[i]))]]
           run == CHOOSE h : Rule(h)
<1>1. DOMAIN ts = 1..n /\ n \in Nat /\ NoTools \in V /\ \A i \in 1..n : ts[i] \in S
  BY Places, NoToolsIsCatalog DEF CatalogsOf
<1>2. Catalog(ts) = run[1..n]
  BY <1>1 DEF Catalog, FoldLeft, MapThenFoldSet, Max, Top
<1>3. PICK f \in [1..n -> [V -> V]] :
        \A i \in 1..n, v \in V : f[i][v] = Completed(v, ToolEntries(ts[i]))
  <2>1. each \in [1..n -> [V -> V]]
    BY <1>1, CatalogGrows
  <2>2. \A i \in 1..n, v \in V : each[i][v] = Completed(v, ToolEntries(ts[i]))
    OBVIOUS
  <2> HIDE DEF each
  <2> QED BY <2>1, <2>2
<1> HIDE DEF V, n, each
<1>4. \E h : Rule(h)
  <2>1. PICK h : IsFold(h, V, f, NoTools, n)
    BY <1>1, FoldExists
  <2>2. ASSUME NEW s \in SUBSET (1..n), s # {}
        PROVE  f[Top(s)][h[s \ {Top(s)}]] = Completed(h[s \ {Top(s)}], ToolEntries(ts[Top(s)]))
    <3>1. Top(s) \in 1..n
      BY <1>1, <2>2, TopIsLast
    <3>2. h[s \ {Top(s)}] \in V
      BY <2>1 DEF IsFold
    <3> QED BY <1>3, <3>1, <3>2
  <2>3. \A s \in SUBSET (1..n) : h[s] = IF s = {} THEN NoTools ELSE Completed(h[s \ {Top(s)}], ToolEntries(ts[Top(s)]))
    BY <2>1, <2>2 DEF IsFold
  <2>4. Rule(h)
    BY <2>1, <2>3 DEF IsFold
  <2> QED BY <2>4
<1>5. PICK h : Rule(h) /\ h = run
  <2> HIDE DEF Rule
  <2> QED BY <1>4
<1> HIDE DEF run
<1>6. h[{}] = NoTools
  BY <1>5
<1>7. IsLocalFold(h, V, f, NoTools, n)
  <2> SUFFICES ASSUME NEW s \in SUBSET (1..n), s # {}, h[s \ {Top(s)}] \in V
               PROVE  h[s] = f[Top(s)][h[s \ {Top(s)}]]
    BY <1>6 DEF IsLocalFold
  <2>1. Top(s) \in 1..n
    BY <1>1, TopIsLast
  <2> QED BY <1>3, <1>5, <2>1
<1> HIDE DEF Rule
<1>8. PICK p : IsRun(p, V, f, NoTools, n) /\ p[n] = h[1..n]
  BY <1>1, <1>7, FoldRuns
<1>9. p \in [0..n -> V] /\ p[0] = NoTools /\ \A k \in 1..n : p[k] = f[k][p[k - 1]]
  BY <1>8 DEF IsRun
<1>10. \A k \in 1..n : k - 1 \in 0..n
  BY <1>1
<1>11. \A k \in 1..n : p[k] = Completed(p[k - 1], ToolEntries(ts[k]))
  <2> TAKE k \in 1..n
  <2>1. p[k - 1] \in V
    BY <1>9, <1>10
  <2> QED BY <1>3, <1>9, <2>1
<1> QED BY <1>2, <1>5, <1>8, <1>9, <1>11 DEF V, n

\* The registry after the first tools, in an agent process.
LEMMA RegisterRuns ==
  ASSUME NEW S, NEW ts \in Seq(S)
  PROVE  \E p \in [0..Len(ts) -> RegistriesOf(S)] :
           /\ p[0] = NoTools /\ p[Len(ts)] = FoldLeft(Register, NoTools, ts)
           /\ \A k \in 1..Len(ts) : p[k] = Register(p[k - 1], ts[k])
<1> DEFINE V == RegistriesOf(S)
           n == Len(ts)
           Rule(h) == h = [s \in SUBSET (1..n) |->
                             IF s = {} THEN NoTools
                             ELSE Register(h[s \ {Top(s)}], ts[Top(s)])]
           each == [i \in 1..n |-> [v \in V |-> Register(v, ts[i])]]
           run == CHOOSE h : Rule(h)
<1>1. DOMAIN ts = 1..n /\ n \in Nat /\ NoTools \in V /\ \A i \in 1..n : ts[i] \in S
  BY Places, NoToolsIsCatalog DEF RegistriesOf, CatalogsOf
<1>2. FoldLeft(Register, NoTools, ts) = run[1..n]
  BY <1>1 DEF FoldLeft, MapThenFoldSet, Max, Top
<1>3. PICK f \in [1..n -> [V -> V]] :
        \A i \in 1..n, v \in V : f[i][v] = Register(v, ts[i])
  <2>1. each \in [1..n -> [V -> V]]
    BY <1>1, RegisterMeans
  <2>2. \A i \in 1..n, v \in V : each[i][v] = Register(v, ts[i])
    OBVIOUS
  <2> HIDE DEF each
  <2> QED BY <2>1, <2>2
<1> HIDE DEF V, n, each
<1>4. \E h : Rule(h)
  <2>1. PICK h : IsFold(h, V, f, NoTools, n)
    BY <1>1, FoldExists
  <2>2. ASSUME NEW s \in SUBSET (1..n), s # {}
        PROVE  f[Top(s)][h[s \ {Top(s)}]] = Register(h[s \ {Top(s)}], ts[Top(s)])
    <3>1. Top(s) \in 1..n
      BY <1>1, <2>2, TopIsLast
    <3>2. h[s \ {Top(s)}] \in V
      BY <2>1 DEF IsFold
    <3> QED BY <1>3, <3>1, <3>2
  <2>3. \A s \in SUBSET (1..n) : h[s] = IF s = {} THEN NoTools ELSE Register(h[s \ {Top(s)}], ts[Top(s)])
    BY <2>1, <2>2 DEF IsFold
  <2>4. Rule(h)
    BY <2>1, <2>3 DEF IsFold
  <2> QED BY <2>4
<1>5. PICK h : Rule(h) /\ h = run
  <2> HIDE DEF Rule
  <2> QED BY <1>4
<1> HIDE DEF run
<1>6. h[{}] = NoTools
  BY <1>5
<1>7. IsLocalFold(h, V, f, NoTools, n)
  <2> SUFFICES ASSUME NEW s \in SUBSET (1..n), s # {}, h[s \ {Top(s)}] \in V
               PROVE  h[s] = f[Top(s)][h[s \ {Top(s)}]]
    BY <1>6 DEF IsLocalFold
  <2>1. Top(s) \in 1..n
    BY <1>1, TopIsLast
  <2> QED BY <1>3, <1>5, <2>1
<1> HIDE DEF Rule
<1>8. PICK p : IsRun(p, V, f, NoTools, n) /\ p[n] = h[1..n]
  BY <1>1, <1>7, FoldRuns
<1>9. p \in [0..n -> V] /\ p[0] = NoTools /\ \A k \in 1..n : p[k] = f[k][p[k - 1]]
  BY <1>8 DEF IsRun
<1>10. \A k \in 1..n : k - 1 \in 0..n
  BY <1>1
<1>11. \A k \in 1..n : p[k] = Register(p[k - 1], ts[k])
  <2> TAKE k \in 1..n
  <2>1. p[k - 1] \in V
    BY <1>9, <1>10
  <2> QED BY <1>3, <1>9, <2>1
<1> QED BY <1>2, <1>5, <1>8, <1>9, <1>11 DEF V, n

\* The registry after the first tools, in the runner.
LEMMA RegisterOnceRuns ==
  ASSUME NEW S, NEW ts \in Seq(S)
  PROVE  \E p \in [0..Len(ts) -> RegistriesOf(S)] :
           /\ p[0] = NoTools /\ p[Len(ts)] = FoldLeft(RegisterOnce, NoTools, ts)
           /\ \A k \in 1..Len(ts) : p[k] = RegisterOnce(p[k - 1], ts[k])
<1> DEFINE V == RegistriesOf(S)
           n == Len(ts)
           Rule(h) == h = [s \in SUBSET (1..n) |->
                             IF s = {} THEN NoTools
                             ELSE RegisterOnce(h[s \ {Top(s)}], ts[Top(s)])]
           each == [i \in 1..n |-> [v \in V |-> RegisterOnce(v, ts[i])]]
           run == CHOOSE h : Rule(h)
<1>1. DOMAIN ts = 1..n /\ n \in Nat /\ NoTools \in V /\ \A i \in 1..n : ts[i] \in S
  BY Places, NoToolsIsCatalog DEF RegistriesOf, CatalogsOf
<1>2. FoldLeft(RegisterOnce, NoTools, ts) = run[1..n]
  BY <1>1 DEF FoldLeft, MapThenFoldSet, Max, Top
<1>3. PICK f \in [1..n -> [V -> V]] :
        \A i \in 1..n, v \in V : f[i][v] = RegisterOnce(v, ts[i])
  <2>1. each \in [1..n -> [V -> V]]
    BY <1>1, RegisterOnceMeans
  <2>2. \A i \in 1..n, v \in V : each[i][v] = RegisterOnce(v, ts[i])
    OBVIOUS
  <2> HIDE DEF each
  <2> QED BY <2>1, <2>2
<1> HIDE DEF V, n, each
<1>4. \E h : Rule(h)
  <2>1. PICK h : IsFold(h, V, f, NoTools, n)
    BY <1>1, FoldExists
  <2>2. ASSUME NEW s \in SUBSET (1..n), s # {}
        PROVE  f[Top(s)][h[s \ {Top(s)}]] = RegisterOnce(h[s \ {Top(s)}], ts[Top(s)])
    <3>1. Top(s) \in 1..n
      BY <1>1, <2>2, TopIsLast
    <3>2. h[s \ {Top(s)}] \in V
      BY <2>1 DEF IsFold
    <3> QED BY <1>3, <3>1, <3>2
  <2>3. \A s \in SUBSET (1..n) : h[s] = IF s = {} THEN NoTools ELSE RegisterOnce(h[s \ {Top(s)}], ts[Top(s)])
    BY <2>1, <2>2 DEF IsFold
  <2>4. Rule(h)
    BY <2>1, <2>3 DEF IsFold
  <2> QED BY <2>4
<1>5. PICK h : Rule(h) /\ h = run
  <2> HIDE DEF Rule
  <2> QED BY <1>4
<1> HIDE DEF run
<1>6. h[{}] = NoTools
  BY <1>5
<1>7. IsLocalFold(h, V, f, NoTools, n)
  <2> SUFFICES ASSUME NEW s \in SUBSET (1..n), s # {}, h[s \ {Top(s)}] \in V
               PROVE  h[s] = f[Top(s)][h[s \ {Top(s)}]]
    BY <1>6 DEF IsLocalFold
  <2>1. Top(s) \in 1..n
    BY <1>1, TopIsLast
  <2> QED BY <1>3, <1>5, <2>1
<1> HIDE DEF Rule
<1>8. PICK p : IsRun(p, V, f, NoTools, n) /\ p[n] = h[1..n]
  BY <1>1, <1>7, FoldRuns
<1>9. p \in [0..n -> V] /\ p[0] = NoTools /\ \A k \in 1..n : p[k] = f[k][p[k - 1]]
  BY <1>8 DEF IsRun
<1>10. \A k \in 1..n : k - 1 \in 0..n
  BY <1>1
<1>11. \A k \in 1..n : p[k] = RegisterOnce(p[k - 1], ts[k])
  <2> TAKE k \in 1..n
  <2>1. p[k - 1] \in V
    BY <1>9, <1>10
  <2> QED BY <1>3, <1>9, <2>1
<1> QED BY <1>2, <1>5, <1>8, <1>9, <1>11 DEF V, n

\* What a catalog names is a tool of the list.
LEMMA CatalogIsOfTools ==
  ASSUME NEW S, NEW ts \in Seq(S), NEW x \in DOMAIN Catalog(ts)
  PROVE  \E t \in ToSet(ts) : x \in ToolNames(t) /\ Catalog(ts)[x] = Scope(t)
<1>1. PICK p \in [0..Len(ts) -> CatalogsOf(S)] :
        /\ p[0] = NoTools /\ p[Len(ts)] = Catalog(ts)
        /\ \A k \in 1..Len(ts) : p[k] = Completed(p[k - 1], ToolEntries(ts[k]))
  BY CatalogRuns
<1> DEFINE n == Len(ts)
           Listed(cat) == \A y \in DOMAIN cat : \E t \in ToSet(ts) : y \in ToolNames(t) /\ cat[y] = Scope(t)
           G == {k \in 0..n : Listed(p[k])}
<1>2. n \in Nat /\ \A k \in 1..n : ts[k] \in S /\ ts[k] \in ToSet(ts)
  BY Places
<1>3. Listed(NoTools)
  BY DEF NoTools
<1>4. ASSUME NEW k \in 1..n, Listed(p[k - 1]) PROVE Listed(p[k])
  <2>1. PICK old, new, t : old = p[k - 1] /\ new = p[k] /\ t = ts[k]
    OBVIOUS
  <2>2. new = Completed(old, ToolEntries(t))
    BY <1>1, <2>1
  <2>3. k - 1 \in 0..n
    BY <1>2
  <2>4. old \in CatalogsOf(S) /\ t \in S /\ t \in ToSet(ts)
    BY <1>1, <1>2, <2>1, <2>3
  <2>5. /\ DOMAIN new = DOMAIN old \cup ToolNames(t)
        /\ \A y \in DOMAIN old : new[y] = old[y]
        /\ \A y \in ToolNames(t) : y \notin DOMAIN old => new[y] = Scope(t)
    BY <2>2, <2>4, CatalogGrows
  <2>6. Listed(old)
    BY <1>4, <2>1
  <2>7. ASSUME NEW y \in DOMAIN new PROVE \E u \in ToSet(ts) : y \in ToolNames(u) /\ new[y] = Scope(u)
    <3>1. CASE y \in DOMAIN old
      BY <2>5, <2>6, <3>1
    <3>2. CASE y \notin DOMAIN old
      BY <2>4, <2>5, <3>2
    <3> QED BY <3>1, <3>2
  <2> QED BY <2>1, <2>7
<1> HIDE DEF Listed, n
<1>5. 0 \in G /\ \A k \in 1..n : k - 1 \in G => k \in G
  BY <1>1, <1>2, <1>3, <1>4
<1>6. G \in SUBSET (0..n)
  OBVIOUS
<1>7. n \in 0..n
  BY <1>2
<1>8. n \in G
  <2> HIDE DEF G
  <2> QED BY <1>2, <1>5, <1>6, <1>7, PlaceByPlace
<1>9. Listed(Catalog(ts))
  BY <1>1, <1>8 DEF n
<1> QED BY <1>9 DEF Listed

\* A registry has every name of some tools, each for its tool.
HasAll(reg, T) == \A t \in T : \A x \in ToolNames(t) : x \in DOMAIN reg /\ reg[x] = Scope(t)
HasOnly(reg, T) == \A x \in DOMAIN reg : \E t \in T : reg[x] = Scope(t)
FirstTools(ts, k) == {ts[i] : i \in 1..k}

LEMMA ToolsTakenInTurn ==
  ASSUME NEW S, NEW ts \in Seq(S)
  PROVE  /\ FirstTools(ts, 0) = {} /\ FirstTools(ts, Len(ts)) = ToSet(ts)
         /\ \A k \in 1..Len(ts) : /\ FirstTools(ts, k) = FirstTools(ts, k - 1) \cup {ts[k]}
                                  /\ FirstTools(ts, k) \subseteq ToSet(ts) /\ ts[k] \in S
<1>1. DOMAIN ts = 1..Len(ts) /\ Len(ts) \in Nat /\ \A i \in 1..Len(ts) : ts[i] \in S
  BY Places
<1>2. \A k \in 1..Len(ts) : 1..k = (1..(k - 1)) \cup {k} /\ 1..k \subseteq 1..Len(ts)
  BY <1>1
<1>3. 1..0 = {}
  OBVIOUS
<1> QED BY <1>1, <1>2, <1>3 DEF FirstTools, ToSet

LEMMA RegisteredInTurn ==
  ASSUME NEW S, NEW t \in S, NEW reg \in RegistriesOf(S), Register(reg, t) # None, NEW T,
         HasAll(reg, T), HasOnly(reg, T)
  PROVE  HasAll(Register(reg, t), T \cup {t}) /\ HasOnly(Register(reg, t), T \cup {t})
<1>1. PICK new : new = Register(reg, t)
  OBVIOUS
<1>2. /\ DOMAIN new = DOMAIN reg \cup ToolNames(t)
      /\ \A x \in DOMAIN reg : new[x] = reg[x]
      /\ \A x \in ToolNames(t) : new[x] = Scope(t)
  <2>1. new = Completed(reg, ToolEntries(t)) /\ ToolNames(t) \cap DOMAIN reg = {}
    BY <1>1 DEF Register
  <2>2. PICK g : g = ToolEntries(t)
    OBVIOUS
  <2>3. DOMAIN g = ToolNames(t) /\ \A x \in ToolNames(t) : g[x] = Scope(t)
    BY <2>2, EntriesAreCatalog
  <2> QED BY <2>1, <2>2, <2>3 DEF Completed
<1>3. HasAll(new, T \cup {t})
  BY <1>2 DEF HasAll
<1>4. HasOnly(new, T \cup {t})
  BY <1>2 DEF HasOnly
<1> QED BY <1>1, <1>3, <1>4

\* An agent process registers every reference.
LEMMA ProcessRegistryHasAll ==
  ASSUME NEW S, NEW ts \in Seq(S), FoldLeft(Register, NoTools, ts) # None
  PROVE  HasAll(FoldLeft(Register, NoTools, ts), ToSet(ts))
<1>1. PICK p \in [0..Len(ts) -> RegistriesOf(S)] :
        /\ p[0] = NoTools /\ p[Len(ts)] = FoldLeft(Register, NoTools, ts)
        /\ \A k \in 1..Len(ts) : p[k] = Register(p[k - 1], ts[k])
  BY RegisterRuns
<1> DEFINE n == Len(ts)
           Fits(reg, T) == reg # None => HasAll(reg, T) /\ HasOnly(reg, T)
           G == {k \in 0..n : Fits(p[k], FirstTools(ts, k))}
<1>2. n \in Nat
  BY Places
<1>3. HasAll(NoTools, {}) /\ HasOnly(NoTools, {})
  BY DEF HasAll, HasOnly, NoTools
<1>4. 0 \in G
  <2>1. FirstTools(ts, 0) = {}
    BY ToolsTakenInTurn
  <2>2. Fits(p[0], {}) /\ 0 \in 0..n
    BY <1>1, <1>2, <1>3
  <2> QED BY <2>1, <2>2
<1>5. ASSUME NEW k \in 1..n, k - 1 \in G PROVE k \in G
  <2>1. PICK reg, t : reg = p[k - 1] /\ t = ts[k]
    OBVIOUS
  <2>2. k - 1 \in 0..n /\ k \in 0..n
    BY <1>2
  <2>3. reg \in RegistriesOf(S) /\ t \in S /\ FirstTools(ts, k) = FirstTools(ts, k - 1) \cup {t}
    BY <1>1, <2>1, <2>2, ToolsTakenInTurn
  <2>4. p[k] = Register(reg, t)
    BY <1>1, <2>1
  <2>5. Fits(reg, FirstTools(ts, k - 1))
    BY <1>5, <2>1
  <2>6. ASSUME p[k] # None PROVE HasAll(p[k], FirstTools(ts, k)) /\ HasOnly(p[k], FirstTools(ts, k))
    <3>1. reg # None
      BY <2>3, <2>4, <2>6, RegisterMeans
    <3>2. HasAll(reg, FirstTools(ts, k - 1)) /\ HasOnly(reg, FirstTools(ts, k - 1))
      BY <2>5, <3>1
    <3> QED BY <2>3, <2>4, <2>6, <3>2, RegisteredInTurn
  <2> QED BY <2>2, <2>6
<1> HIDE DEF n, Fits
<1>6. G \in SUBSET (0..n) /\ n \in 0..n
  BY <1>2
<1>7. n \in G
  <2> HIDE DEF G
  <2> QED BY <1>2, <1>4, <1>5, <1>6, PlaceByPlace
<1>8. Fits(p[n], FirstTools(ts, n))
  BY <1>7
<1> QED BY <1>1, <1>8, ToolsTakenInTurn DEF n, Fits

\* The runner leaves out what it has met before, and no two tools have one scope.
LEMMA RunnerRegistryHasAll ==
  ASSUME NEW S, NEW ts \in Seq(S), FoldLeft(RegisterOnce, NoTools, ts) # None,
         \A t, u \in S : Scope(t) = Scope(u) => t = u
  PROVE  HasAll(FoldLeft(RegisterOnce, NoTools, ts), ToSet(ts))
<1>1. PICK p \in [0..Len(ts) -> RegistriesOf(S)] :
        /\ p[0] = NoTools /\ p[Len(ts)] = FoldLeft(RegisterOnce, NoTools, ts)
        /\ \A k \in 1..Len(ts) : p[k] = RegisterOnce(p[k - 1], ts[k])
  BY RegisterOnceRuns
<1> DEFINE n == Len(ts)
           Fits(reg, T) == reg # None => HasAll(reg, T) /\ HasOnly(reg, T)
           G == {k \in 0..n : Fits(p[k], FirstTools(ts, k))}
<1>2. n \in Nat /\ ToSet(ts) \subseteq S
  BY Places
<1>3. HasAll(NoTools, {}) /\ HasOnly(NoTools, {})
  BY DEF HasAll, HasOnly, NoTools
<1>4. 0 \in G
  <2>1. FirstTools(ts, 0) = {}
    BY ToolsTakenInTurn
  <2>2. Fits(p[0], {}) /\ 0 \in 0..n
    BY <1>1, <1>2, <1>3
  <2> QED BY <2>1, <2>2
<1>5. ASSUME NEW k \in 1..n, k - 1 \in G PROVE k \in G
  <2>1. PICK reg, t, T : reg = p[k - 1] /\ t = ts[k] /\ T = FirstTools(ts, k - 1)
    OBVIOUS
  <2>2. k - 1 \in 0..n /\ k \in 0..n
    BY <1>2
  <2>3. reg \in RegistriesOf(S) /\ t \in S /\ FirstTools(ts, k) = T \cup {t} /\ T \subseteq S
    BY <1>1, <1>2, <2>1, <2>2, ToolsTakenInTurn
  <2>4. p[k] = RegisterOnce(reg, t)
    BY <1>1, <2>1
  <2>5. Fits(reg, T)
    BY <1>5, <2>1
  <2>6. CASE reg # None /\ Scope(t) \in {reg[x] : x \in DOMAIN reg}
    <3>1. p[k] = reg
      BY <2>4, <2>6 DEF RegisterOnce
    <3>2. HasAll(reg, T) /\ HasOnly(reg, T)
      BY <2>5, <2>6
    <3>3. PICK x \in DOMAIN reg : reg[x] = Scope(t)
      BY <2>6
    <3>4. PICK u \in T : reg[x] = Scope(u)
      BY <3>2 DEF HasOnly
    <3>5. t = u
      BY <2>3, <3>3, <3>4
    <3>6. T \cup {t} = T
      BY <3>5
    <3> QED BY <2>2, <2>3, <3>1, <3>2, <3>6
  <2>7. CASE ~ (reg # None /\ Scope(t) \in {reg[x] : x \in DOMAIN reg})
    <3>1. p[k] = Register(reg, t)
      BY <2>4, <2>7 DEF RegisterOnce
    <3>2. ASSUME p[k] # None PROVE HasAll(p[k], FirstTools(ts, k)) /\ HasOnly(p[k], FirstTools(ts, k))
      <4>1. reg # None
        BY <2>3, <3>1, <3>2, RegisterMeans
      <4>2. HasAll(reg, T) /\ HasOnly(reg, T)
        BY <2>5, <4>1
      <4> QED BY <2>3, <3>1, <3>2, <4>2, RegisteredInTurn
    <3> QED BY <2>2, <3>2
  <2> QED BY <2>6, <2>7
<1> HIDE DEF n, Fits
<1>6. G \in SUBSET (0..n) /\ n \in 0..n
  BY <1>2
<1>7. n \in G
  <2> HIDE DEF G
  <2> QED BY <1>2, <1>4, <1>5, <1>6, PlaceByPlace
<1>8. Fits(p[n], FirstTools(ts, n))
  BY <1>7
<1> QED BY <1>1, <1>8, ToolsTakenInTurn DEF n, Fits

-----------------------------------------------------------------------------
(* The plans of the agents *)

PlansOf(S, swarm) == FunctionsOf({a.name : a \in S}, {RunnerAgentPlan(a, swarm) : a \in S})

LEMMA PlansGrow ==
  ASSUME NEW S, NEW swarm, NEW a \in S, NEW plans \in PlansOf(S, swarm)
  PROVE  Completed(PlanEntry(a, swarm), plans) \in PlansOf(S, swarm)
<1> DEFINE N == {x.name : x \in S}
           R == {RunnerAgentPlan(x, swarm) : x \in S}
<1>1. PlanEntry(a, swarm) \in [{a.name} -> R] /\ {a.name} \in SUBSET N
  BY DEF PlanEntry
<1> HIDE DEF N, R
<1>2. PlanEntry(a, swarm) \in FunctionsOf(N, R)
  BY <1>1 DEF FunctionsOf
<1>3. PlansOf(S, swarm) = FunctionsOf(N, R)
  BY DEF PlansOf, N, R
<1> QED BY <1>2, <1>3, CompletedFits

\* The plans of the first agents.
LEMMA PlansRun ==
  ASSUME NEW S, NEW ags \in Seq(S), NEW swarm, ags = RunnerAgents(swarm)
  PROVE  \E p \in [0..Len(ags) -> PlansOf(S, swarm)] :
           /\ p[0] = NoTools /\ p[Len(ags)] = RunnerAgentPlans(swarm)
           /\ \A k \in 1..Len(ags) : p[k] = Completed(PlanEntry(ags[k], swarm), p[k - 1])
<1> DEFINE V == PlansOf(S, swarm)
           n == Len(ags)
           Rule(h) == h = [s \in SUBSET (1..n) |->
                             IF s = {} THEN NoTools
                             ELSE Completed(PlanEntry(ags[Top(s)], swarm), h[s \ {Top(s)}])]
           each == [i \in 1..n |-> [v \in V |-> Completed(PlanEntry(ags[i], swarm), v)]]
           run == CHOOSE h : Rule(h)
<1>1. DOMAIN ags = 1..n /\ n \in Nat /\ NoTools \in V /\ \A i \in 1..n : ags[i] \in S
  BY Places, NoToolsIsCatalog DEF PlansOf
<1>2. RunnerAgentPlans(swarm) = run[1..n]
  BY <1>1 DEF RunnerAgentPlans, FoldLeft, MapThenFoldSet, Max, Top
<1>3. PICK f \in [1..n -> [V -> V]] :
        \A i \in 1..n, v \in V : f[i][v] = Completed(PlanEntry(ags[i], swarm), v)
  <2>1. each \in [1..n -> [V -> V]]
    BY <1>1, PlansGrow
  <2>2. \A i \in 1..n, v \in V : each[i][v] = Completed(PlanEntry(ags[i], swarm), v)
    OBVIOUS
  <2> HIDE DEF each
  <2> QED BY <2>1, <2>2
<1> HIDE DEF V, n, each
<1>4. \E h : Rule(h)
  <2>1. PICK h : IsFold(h, V, f, NoTools, n)
    BY <1>1, FoldExists
  <2>2. ASSUME NEW s \in SUBSET (1..n), s # {}
        PROVE  f[Top(s)][h[s \ {Top(s)}]] = Completed(PlanEntry(ags[Top(s)], swarm), h[s \ {Top(s)}])
    <3>1. Top(s) \in 1..n
      BY <1>1, <2>2, TopIsLast
    <3>2. h[s \ {Top(s)}] \in V
      BY <2>1 DEF IsFold
    <3> QED BY <1>3, <3>1, <3>2
  <2>3. \A s \in SUBSET (1..n) : h[s] = IF s = {} THEN NoTools ELSE Completed(PlanEntry(ags[Top(s)], swarm), h[s \ {Top(s)}])
    BY <2>1, <2>2 DEF IsFold
  <2>4. Rule(h)
    BY <2>1, <2>3 DEF IsFold
  <2> QED BY <2>4
<1>5. PICK h : Rule(h) /\ h = run
  <2> HIDE DEF Rule
  <2> QED BY <1>4
<1> HIDE DEF run
<1>6. h[{}] = NoTools
  BY <1>5
<1>7. IsLocalFold(h, V, f, NoTools, n)
  <2> SUFFICES ASSUME NEW s \in SUBSET (1..n), s # {}, h[s \ {Top(s)}] \in V
               PROVE  h[s] = f[Top(s)][h[s \ {Top(s)}]]
    BY <1>6 DEF IsLocalFold
  <2>1. Top(s) \in 1..n
    BY <1>1, TopIsLast
  <2> QED BY <1>3, <1>5, <2>1
<1> HIDE DEF Rule
<1>8. PICK p : IsRun(p, V, f, NoTools, n) /\ p[n] = h[1..n]
  BY <1>1, <1>7, FoldRuns
<1>9. p \in [0..n -> V] /\ p[0] = NoTools /\ \A k \in 1..n : p[k] = f[k][p[k - 1]]
  BY <1>8 DEF IsRun
<1>10. \A k \in 1..n : k - 1 \in 0..n
  BY <1>1
<1>11. \A k \in 1..n : p[k] = Completed(PlanEntry(ags[k], swarm), p[k - 1])
  <2> TAKE k \in 1..n
  <2>1. p[k - 1] \in V
    BY <1>9, <1>10
  <2> QED BY <1>3, <1>9, <2>1
<1> QED BY <1>2, <1>5, <1>8, <1>9, <1>11 DEF V, n

\* Every agent has a plan under its name, and every plan is that of an agent.
LEMMA PlansAreOfAgents ==
  ASSUME NEW S, NEW ags \in Seq(S), NEW swarm, ags = RunnerAgents(swarm),
         NEW plans, plans = RunnerAgentPlans(swarm)
  PROVE  /\ \A a \in ToSet(ags) : a.name \in DOMAIN plans
         /\ \A x \in DOMAIN plans : \E a \in ToSet(ags) : plans[x] = RunnerAgentPlan(a, swarm)
<1>1. PICK p \in [0..Len(ags) -> PlansOf(S, swarm)] :
        /\ p[0] = NoTools /\ p[Len(ags)] = RunnerAgentPlans(swarm)
        /\ \A k \in 1..Len(ags) :
             p[k] = Completed(PlanEntry(ags[k], swarm), p[k - 1])
  BY PlansRun
<1> DEFINE n == Len(ags)
           Fits(q, k) == /\ \A i \in 1..k : ags[i].name \in DOMAIN q
                         /\ \A x \in DOMAIN q : \E a \in ToSet(ags) : q[x] = RunnerAgentPlan(a, swarm)
           G == {k \in 0..n : Fits(p[k], k)}
<1>2. n \in Nat /\ DOMAIN ags = 1..n /\ \A k \in 1..n : ags[k] \in S /\ ags[k] \in ToSet(ags)
  BY Places
<1>3. 0 \in G
  <2>1. 1..0 = {} /\ 0 \in 0..n
    BY <1>2
  <2>2. Fits(NoTools, 0)
    BY <2>1 DEF NoTools
  <2> QED BY <1>1, <2>1, <2>2
<1>4. ASSUME NEW k \in 1..n, k - 1 \in G PROVE k \in G
  <2>1. PICK old, new, a : old = p[k - 1] /\ new = p[k] /\ a = ags[k]
    OBVIOUS
  <2>2. new = Completed(PlanEntry(a, swarm), old)
    BY <1>1, <2>1
  <2>3. PICK e : e = PlanEntry(a, swarm)
    OBVIOUS
  <2>4. DOMAIN e = {a.name} /\ e[a.name] = RunnerAgentPlan(a, swarm)
    BY <2>3 DEF PlanEntry
  <2>5. /\ DOMAIN new = {a.name} \cup DOMAIN old
        /\ new[a.name] = RunnerAgentPlan(a, swarm)
        /\ \A x \in DOMAIN old : x # a.name => new[x] = old[x]
    BY <2>2, <2>3, <2>4 DEF Completed
  <2>6. Fits(old, k - 1) /\ 1..k = (1..(k - 1)) \cup {k} /\ k \in 0..n
    BY <1>2, <1>4, <2>1
  <2>7. \A i \in 1..k : ags[i].name \in DOMAIN new
    BY <2>1, <2>5, <2>6
  <2>8. ASSUME NEW x \in DOMAIN new PROVE \E u \in ToSet(ags) : new[x] = RunnerAgentPlan(u, swarm)
    <3>1. a \in ToSet(ags)
      BY <1>2, <2>1
    <3>2. CASE x = a.name
      BY <2>5, <3>1, <3>2
    <3>3. CASE x # a.name
      BY <2>5, <2>6, <3>3
    <3> QED BY <3>2, <3>3
  <2> QED BY <2>1, <2>6, <2>7, <2>8
<1> HIDE DEF n, Fits
<1>5. G \in SUBSET (0..n) /\ n \in 0..n
  BY <1>2
<1>6. n \in G
  <2> HIDE DEF G
  <2> QED BY <1>2, <1>3, <1>4, <1>5, PlaceByPlace
<1>7. Fits(plans, n)
  BY <1>1, <1>6 DEF n
<1>8. \A a \in ToSet(ags) : \E i \in 1..n : a = ags[i]
  BY <1>2 DEF ToSet
<1> QED BY <1>7, <1>8 DEF Fits

-----------------------------------------------------------------------------
(* What a plan is made of *)

LEMMA ResourceIsDocument ==
  ASSUME bundle \in Bundles, NEW r \in ResourcesOf(bundle)
  PROVE  /\ r.kind = "Swarm" => IsList(r.spec.agents)
         /\ r.kind = "Agent" => IsList(r.spec.tools) /\ IsList(r.spec.exts)
         /\ r.kind = "Connection" => IsList(r.spec.rules)
<1>1. PICK f \in FilesOf(bundle), pkg \in PackagesOf(bundle) : r \in ResourcesIn(f, pkg)
  BY DEF ResourcesOf
<1>2. PICK i \in DOMAIN f.docs : IsResource(f.docs[i]) /\ r = Resource(f.docs[i], f.path, i, pkg)
  BY <1>1 DEF ResourcesIn
<1>3. PICK d : d = f.docs[i]
  OBVIOUS
<1>4. d \in ToSet(f.docs) \ {None}
  BY <1>2, <1>3 DEF IsResource, ToSet
<1>5. IsDocument(d)
  BY <1>4, BundleHolds DEF IsFile
<1>6. r.spec = d.spec /\ (r.kind \in {"Swarm", "Agent", "Connection"} => d.kind = r.kind)
  BY <1>2, <1>3, ResourceFields
<1> QED BY <1>5, <1>6 DEF IsDocument

LEMMA FirstOfThese ==
  ASSUME NEW n \in Nat, NEW s, NEW places \in SUBSET (1..n)
  PROVE  FirstOf(s, places) = None \/ \E i \in places : FirstOf(s, places) = s[i]
<1>1. CASE places = {}
  BY <1>1 DEF FirstOf
<1>2. CASE places # {}
  BY <1>2, FirstIsThere
<1> QED BY <1>1, <1>2

\* What a reference is taken for is of the kind and has the name.
LEMMA SelectedIsNamed ==
  ASSUME NEW S, NEW rs \in Seq(S), NEW ref, NEW kind, NEW owner, NEW pkg, NEW taken,
         \/ taken = RunnerSelect(rs, ref, kind, owner, pkg)
         \/ taken = ProcessSelect(rs, ref, kind, owner, pkg)
  PROVE  taken = None \/ (taken \in ToSet(rs) /\ taken.kind = kind /\ taken.name = ref.name)
<1> DEFINE named == Named(rs, kind, ref.name)
<1>1. named \in SUBSET (1..Len(rs)) /\ Len(rs) \in Nat /\ \A i \in named : rs[i] \in ToSet(rs)
  BY Places DEF Named
<1>2. \A i \in named : rs[i].kind = kind /\ rs[i].name = ref.name
  BY DEF Named
<1> HIDE DEF named
<1>3. \E places \in SUBSET named : taken = None \/ taken = FirstOf(rs, places)
  <2>1. \A p \in SUBSET named : \A x : Within(rs, p, x) \in SUBSET named
    BY DEF Within
  <2>2. \A p, q, u \in SUBSET named : FirstFilled(p, q, u) \in SUBSET named
    BY DEF FirstFilled
  <2>3. CASE taken = RunnerSelect(rs, ref, kind, owner, pkg)
    <3> DEFINE only == IF Cardinality(named) = 1 THEN named ELSE {}
               places == IF ref.pkg # None THEN Within(rs, named, ref.pkg)
                         ELSE FirstFilled(Within(rs, named, owner), Within(rs, named, pkg), only)
    <3>1. taken = None \/ taken = FirstOf(rs, places)
      BY <2>3 DEF RunnerSelect, named
    <3>2. only \in SUBSET named
      OBVIOUS
    <3> HIDE DEF only
    <3>3. places \in SUBSET named
      BY <2>1, <2>2, <3>2
    <3> QED BY <3>1, <3>3
  <2>4. CASE taken = ProcessSelect(rs, ref, kind, owner, pkg)
    <3> DEFINE fitting == IF ref.pkg = None THEN named ELSE Within(rs, named, ref.pkg)
               places == FirstFilled(Within(rs, fitting, owner), Within(rs, fitting, pkg), fitting)
    <3>1. taken = FirstOf(rs, places)
      BY <2>4 DEF ProcessSelect, named
    <3>2. fitting \in SUBSET named
      BY <2>1
    <3> HIDE DEF fitting
    <3>3. places \in SUBSET named
      BY <2>1, <2>2, <3>2
    <3> QED BY <3>1, <3>3
  <2> QED BY <2>3, <2>4
<1>4. PICK places \in SUBSET named : taken = None \/ taken = FirstOf(rs, places)
  BY <1>3
<1>5. FirstOf(rs, places) = None \/ \E i \in places : FirstOf(rs, places) = rs[i]
  BY <1>1, FirstOfThese
<1> QED BY <1>1, <1>2, <1>4, <1>5

LEMMA SwarmIsLoaded ==
  ASSUME NEW S, Loaded \in Seq(S), NEW swarm, swarm = RunnerSwarm \/ swarm = ProcessSwarm, swarm # None
  PROVE  swarm \in ToSet(Loaded) /\ swarm.kind = "Swarm"
<1>1. Len(Loaded) \in Nat /\ DOMAIN Loaded = 1..Len(Loaded) /\ \A i \in 1..Len(Loaded) : Loaded[i] \in ToSet(Loaded)
  BY Places
<1>2. \E places \in SUBSET Swarms : swarm = FirstOf(Loaded, places)
  <2>1. \A name : Named(Loaded, "Swarm", name) \in SUBSET Swarms
    BY DEF Named, Swarms
  <2>2. \A name : \E places \in SUBSET Swarms : SwarmNamed(name) = FirstOf(Loaded, places)
    BY <2>1 DEF SwarmNamed
  <2>3. OnlySwarm = None \/ OnlySwarm = FirstOf(Loaded, Swarms)
    BY DEF OnlySwarm
  <2>4. \/ \E name : swarm = SwarmNamed(name)
        \/ swarm = OnlySwarm
    BY DEF RunnerSwarm, ProcessSwarm
  <2> QED BY <2>2, <2>3, <2>4
<1>3. PICK places \in SUBSET Swarms : swarm = FirstOf(Loaded, places)
  BY <1>2
<1>4. places \in SUBSET (1..Len(Loaded))
  BY <1>1 DEF Swarms
<1>5. PICK i \in places : swarm = Loaded[i]
  BY <1>1, <1>3, <1>4, FirstOfThese
<1> QED BY <1>1, <1>4, <1>5 DEF Swarms

\* The tools an agent uses, when none is missing.
LEMMA ToolsAreFound ==
  ASSUME NEW T, NEW agent, IsList(agent.spec.tools), NEW found, NEW guard,
         \A x \in References(agent) : found[x] \in T \cup {None},
         NEW uses, uses = Uses(agent, found, guard), None \notin ToSet(uses.tools)
  PROVE  uses.tools \in Seq(T)
<1> DEFINE refs == agent.spec.tools
           each == [i \in DOMAIN refs |-> IF refs[i] = None THEN None ELSE found[<<"Tool", refs[i]>>]]
<1>1. uses.tools = each
  BY DEF Uses
<1>2. DOMAIN refs = 1..Len(refs) /\ Len(refs) \in Nat /\ \A i \in 1..Len(refs) : refs[i] \in ToSet(refs)
  BY ListPlaces
<1>3. ASSUME NEW i \in 1..Len(refs) PROVE each[i] \in T
  <2>1. each[i] \in T \cup {None}
    <3>1. CASE refs[i] = None
      BY <1>2, <3>1
    <3>2. CASE refs[i] # None
      <4>1. <<"Tool", refs[i]>> \in References(agent)
        BY <1>2, <3>2 DEF References
      <4>2. found[<<"Tool", refs[i]>>] \in T \cup {None}
        BY <4>1
      <4> QED BY <1>2, <3>2, <4>2
    <3> QED BY <3>1, <3>2
  <2>2. each[i] # None
    BY <1>1, <1>2 DEF ToSet
  <2> QED BY <2>1, <2>2
<1>4. each \in [1..Len(refs) -> T]
  BY <1>2, <1>3
<1> HIDE DEF each
<1> QED BY <1>1, <1>2, <1>4, SeqIsFunction

-----------------------------------------------------------------------------
(* What holds of the plans *)

Handled(catalog, registry) == \A n \in DOMAIN catalog : n \in DOMAIN registry /\ registry[n] = catalog[n]

IsRouted(c, agents) ==
  /\ c.default \in agents /\ IsList(c.rules)
  /\ \A rule \in ToSet(c.rules) : rule.agent # None => rule.agent.name \in agents

IsSoundPlan(p) ==
  /\ \A a \in DOMAIN p.agents : Handled(p.agents[a].catalog, p.registry)
  /\ \A c \in p.connectors : IsRouted(c, DOMAIN p.agents)

PlanInv ==
  /\ plan \notin {Unbuilt, None} => IsSoundPlan(plan)
  /\ process \notin {Unbuilt, None} => Handled(process.agent.catalog, process.registry)
  /\ routed # Unbuilt => plan \notin {Unbuilt, None} /\ routed.agent \in DOMAIN plan.agents

\* A catalog of tools is handled by a registry that has them all.
LEMMA CatalogIsHandled ==
  ASSUME NEW S, NEW ts \in Seq(S), NEW T, ToSet(ts) \subseteq T, NEW reg, HasAll(reg, T)
  PROVE  Handled(Catalog(ts), reg)
<1>1. PICK cat : cat = Catalog(ts)
  OBVIOUS
<1>2. \A x \in DOMAIN cat : \E t \in ToSet(ts) : x \in ToolNames(t) /\ cat[x] = Scope(t)
  BY <1>1, CatalogIsOfTools
<1>3. Handled(cat, reg)
  BY <1>2 DEF Handled, HasAll
<1> QED BY <1>1, <1>3

LEMMA LoadedIsSound ==
  ASSUME LoadInv, load.pc = "loaded", load.errors = {}
  PROVE  /\ Loaded \in Seq(ResourcesOf(bundle)) /\ bundle \in Bundles
         /\ ToSet(Loaded) \subseteq ResourcesOf(bundle) /\ None \notin ToSet(Loaded)
         /\ \A t, u \in ToSet(Loaded) : Scope(t) = Scope(u) => t = u
<1>1. /\ Loaded \in Seq(ResourcesOf(bundle)) /\ bundle \in Bundles /\ Errors(Loaded) = {}
  BY DEF LoadInv, LoadTypes, IsValidated, Loaded
<1>2. DOMAIN Loaded = 1..Len(Loaded) /\ ToSet(Loaded) \subseteq ResourcesOf(bundle)
  BY <1>1, Places
<1>3. \A i, j \in 1..Len(Loaded) : Scope(Loaded[i]) = Scope(Loaded[j]) => i = j
  BY <1>1, ScopesDiffer
<1>4. \A t, u \in ToSet(Loaded) : Scope(t) = Scope(u) => t = u
  BY <1>2, <1>3 DEF ToSet
<1> QED BY <1>1, <1>2, <1>4, BundleHolds

\* The tools that CanRun has checked are loaded resources.
LEMMA RunnerToolsAreLoaded ==
  ASSUME NEW S, Loaded \in Seq(S), NEW swarm, NEW agent, IsList(agent.spec.tools),
         CanRun(agent, RunnerUses(agent, swarm))
  PROVE  RunnerUses(agent, swarm).tools \in Seq(ToSet(Loaded))
<1> DEFINE pick(kind, ref) == RunnerSelect(Loaded, ref, kind, agent.pkg, swarm.pkg)
           found == [r \in References(agent) |-> pick(r[1], r[2])]
           guard == pick("Extension", GuardRef)
<1>1. \A x \in References(agent) : found[x] \in ToSet(Loaded) \cup {None}
  <2> TAKE x \in References(agent)
  <2>1. PICK kind, ref, owner, pkg : kind = x[1] /\ ref = x[2] /\ owner = agent.pkg /\ pkg = swarm.pkg
    OBVIOUS
  <2>2. PICK taken : taken = RunnerSelect(Loaded, ref, kind, owner, pkg)
    OBVIOUS
  <2>3. taken = None \/ taken \in ToSet(Loaded)
    BY <2>2, SelectedIsNamed
  <2> QED BY <2>1, <2>2, <2>3
<1>2. PICK uses : uses = RunnerUses(agent, swarm)
  OBVIOUS
<1>3. uses = Uses(agent, found, guard)
  BY <1>2 DEF RunnerUses
<1>4. None \notin ToSet(uses.tools)
  BY <1>2 DEF CanRun
<1> HIDE DEF found, guard
<1>5. uses.tools \in Seq(ToSet(Loaded))
  BY <1>1, <1>3, <1>4, ToolsAreFound
<1> QED BY <1>2, <1>5

LEMMA ProcessToolsAreLoaded ==
  ASSUME NEW S, Loaded \in Seq(S), NEW agent, IsList(agent.spec.tools),
         CanRun(agent, ProcessUses(agent))
  PROVE  ProcessUses(agent).tools \in Seq(ToSet(Loaded))
<1> DEFINE found == [r \in References(agent) |-> ProcessSelect(Loaded, r[2], r[1], agent.pkg, None)]
           guard == ProcessSelect(Loaded, GuardRef, "Extension", agent.pkg, ProcessSwarm.pkg)
<1>1. \A x \in References(agent) : found[x] \in ToSet(Loaded) \cup {None}
  <2> TAKE x \in References(agent)
  <2>1. PICK kind, ref : kind = x[1] /\ ref = x[2]
    OBVIOUS
  <2>2. PICK taken : taken = ProcessSelect(Loaded, ref, kind, agent.pkg, None)
    OBVIOUS
  <2>3. taken = None \/ taken \in ToSet(Loaded)
    BY <2>2, SelectedIsNamed
  <2> QED BY <2>1, <2>2, <2>3
<1>2. PICK uses : uses = ProcessUses(agent)
  OBVIOUS
<1>3. uses = Uses(agent, found, guard)
  BY <1>2 DEF ProcessUses
<1>4. None \notin ToSet(uses.tools)
  BY <1>2 DEF CanRun
<1> HIDE DEF found, guard
<1>5. uses.tools \in Seq(ToSet(Loaded))
  BY <1>1, <1>3, <1>4, ToolsAreFound
<1> QED BY <1>2, <1>5

\* The agents of a swarm that has them all, each under the name of its reference.
LEMMA AgentsAreLoaded ==
  ASSUME NEW S, Loaded \in Seq(S), NEW swarm, IsList(swarm.spec.agents),
         NEW ags, ags = RunnerAgents(swarm), None \notin ToSet(ags)
  PROVE  /\ ags \in Seq(ToSet(Loaded))
         /\ \A a \in ToSet(ags) : a.kind = "Agent"
         /\ \A ref \in ToSet(AgentsOf(swarm)) : \E a \in ToSet(ags) : a.name = ref.name
         /\ swarm.spec.entry \in ToSet(AgentsOf(swarm))
         /\ \A a \in ToSet(ags) : \E ref \in ToSet(AgentsOf(swarm)) : a = RunnerAgent(ref, swarm)
         /\ \A ref \in ToSet(AgentsOf(swarm)) :
              \/ ref \in ToSet(swarm.spec.agents)
              \/ ref = swarm.spec.entry /\ ref \notin ToSet(swarm.spec.agents)
<1>1. PICK refs, entry, given :
        refs = AgentsOf(swarm) /\ entry = swarm.spec.entry /\ given = swarm.spec.agents
  OBVIOUS
<1>2. given \in Seq(ToSet(given) \cup {entry})
  <2>1. given \in Seq(ToSet(given))
    BY <1>1 DEF IsList
  <2> HIDE DEF ToSet
  <2> QED BY <2>1, Places, SeqIsFunction
<1>3. /\ refs \in Seq(ToSet(given) \cup {entry}) /\ entry \in ToSet(refs)
      /\ \A ref \in ToSet(refs) : ref \in ToSet(given) \/ (ref = entry /\ ref \notin ToSet(given))
  <2>1. CASE entry \in ToSet(given)
    BY <1>1, <1>2, <2>1 DEF AgentsOf
  <2>2. CASE entry \notin ToSet(given)
    <3>1. refs = Append(given, entry)
      BY <1>1, <2>2 DEF AgentsOf
    <3> QED BY <1>2, <3>1, AppendPlaces
  <2> QED BY <2>1, <2>2
<1>4. DOMAIN refs = 1..Len(refs) /\ Len(refs) \in Nat
  BY <1>3, Places
<1>5. ags = [i \in 1..Len(refs) |-> RunnerAgent(refs[i], swarm)]
  BY <1>1, <1>4 DEF RunnerAgents
<1>6. ASSUME NEW i \in 1..Len(refs)
      PROVE  ags[i] \in ToSet(Loaded) /\ ags[i].kind = "Agent" /\ ags[i].name = refs[i].name /\ ags[i] \in ToSet(ags)
  <2>1. PICK a, ref : a = ags[i] /\ ref = refs[i]
    OBVIOUS
  <2>2. a = RunnerSelect(Loaded, ref, "Agent", swarm.pkg, swarm.pkg)
    BY <1>5, <2>1 DEF RunnerAgent
  <2>3. a = None \/ (a \in ToSet(Loaded) /\ a.kind = "Agent" /\ a.name = ref.name)
    BY <2>2, SelectedIsNamed
  <2>4. a \in ToSet(ags)
    BY <1>5, <2>1 DEF ToSet
  <2> QED BY <2>1, <2>3, <2>4
<1>7. ags \in [1..Len(refs) -> ToSet(Loaded)]
  BY <1>5, <1>6
<1>8. ags \in Seq(ToSet(Loaded)) /\ DOMAIN ags = 1..Len(refs)
  BY <1>4, <1>7, SeqIsFunction
<1>9. \A a \in ToSet(ags) : a.kind = "Agent"
  BY <1>6, <1>8 DEF ToSet
<1>10. \A ref \in ToSet(refs) : \E a \in ToSet(ags) : a.name = ref.name
  BY <1>4, <1>6 DEF ToSet
<1>11. \A a \in ToSet(ags) : \E ref \in ToSet(refs) : a = RunnerAgent(ref, swarm)
  BY <1>4, <1>5, <1>8 DEF ToSet
<1> QED BY <1>1, <1>3, <1>8, <1>9, <1>10, <1>11

\* One registry for the tools of all agents: an agent's catalog is handled by it.
LEMMA RunnerPlanHandles ==
  ASSUME LoadInv, load.pc = "loaded", load.errors = {}, NEW swarm, swarm = RunnerSwarm, RunnerCan(swarm),
         NEW plans, plans = RunnerAgentPlans(swarm), NEW x \in DOMAIN plans
  PROVE  Handled(plans[x].catalog, RunnerRegistry(swarm))
<1>1. PICK S : S = ToSet(Loaded)
  OBVIOUS
<1>2. /\ Loaded \in Seq(ResourcesOf(bundle)) /\ bundle \in Bundles /\ S \subseteq ResourcesOf(bundle)
      /\ \A t, u \in S : Scope(t) = Scope(u) => t = u
  BY <1>1, LoadedIsSound
<1>3. swarm # None /\ None \notin ToSet(RunnerAgents(swarm)) /\ RunnerRegistry(swarm) # None
  BY DEF RunnerCan
<1>4. IsList(swarm.spec.agents)
  BY <1>1, <1>2, <1>3, SwarmIsLoaded, ResourceIsDocument
<1>5. PICK ags : ags = RunnerAgents(swarm)
  OBVIOUS
<1>6. ags \in Seq(S) /\ \A a \in ToSet(ags) : a.kind = "Agent"
  BY <1>1, <1>2, <1>3, <1>4, <1>5, AgentsAreLoaded
<1>7. DOMAIN ags = 1..Len(ags) /\ Len(ags) \in Nat /\ \A i \in 1..Len(ags) : ags[i] \in ToSet(ags) /\ ags[i] \in S
  BY <1>6, Places
<1>8. ASSUME NEW a \in ToSet(ags)
      PROVE  RunnerUses(a, swarm).tools \in Seq(S)
  <2>1. CanRun(a, RunnerUses(a, swarm))
    BY <1>5, <1>8 DEF RunnerCan
  <2>2. a \in S
    BY <1>6, <1>8, Places
  <2>3. IsList(a.spec.tools)
    BY <1>2, <1>6, <1>8, <2>2, ResourceIsDocument
  <2> QED BY <1>1, <1>2, <2>1, <2>3, RunnerToolsAreLoaded
<1> DEFINE n == Len(ags)
           lists == [i \in 1..n |-> RunnerUses(ags[i], swarm).tools]
<1>9. RunnerRegistry(swarm) = FoldLeft(RegisterOnce, NoTools, FlattenSeq(lists))
  BY <1>5, <1>7 DEF RunnerRegistry
<1>10. lists \in Seq(Seq(S)) /\ Len(lists) = n
  <2>1. lists \in [1..n -> Seq(S)]
    BY <1>7, <1>8
  <2> HIDE DEF lists
  <2> QED BY <1>7, <2>1, SeqIsFunction
<1>11. PICK a \in ToSet(ags) : plans[x] = RunnerAgentPlan(a, swarm)
  BY <1>5, <1>6, PlansAreOfAgents
<1>12. PICK ts : ts = RunnerUses(a, swarm).tools
  OBVIOUS
<1>13. PICK i \in 1..n : ts = lists[i]
  <2>1. PICK i \in 1..n : a = ags[i]
    BY <1>7 DEF ToSet
  <2> QED BY <1>12, <2>1
<1> HIDE DEF lists
<1>14. PICK all : all = FlattenSeq(lists)
  OBVIOUS
<1>15. all \in Seq(S) /\ \A t : t \in ToSet(all) <=> \E j \in 1..n : t \in ToSet(lists[j])
  BY <1>10, <1>14, FlattenPlaces
<1>16. ToSet(ts) \subseteq ToSet(all)
  BY <1>13, <1>15
<1>17. PICK reg : reg = RunnerRegistry(swarm)
  OBVIOUS
<1>18. reg = FoldLeft(RegisterOnce, NoTools, all) /\ reg # None
  BY <1>3, <1>9, <1>14, <1>17
<1>19. HasAll(reg, ToSet(all))
  BY <1>2, <1>15, <1>18, RunnerRegistryHasAll
<1>20. ts \in Seq(S)
  BY <1>8, <1>12
<1>21. Handled(Catalog(ts), reg)
  BY <1>16, <1>19, <1>20, CatalogIsHandled
<1>22. plans[x].catalog = Catalog(ts)
  BY <1>11, <1>12 DEF RunnerAgentPlan, AgentPlan
<1> QED BY <1>17, <1>21, <1>22

\* A connector leads to agents that have a plan.
LEMMA RunnerPlanRoutes ==
  ASSUME LoadInv, load.pc = "loaded", load.errors = {}, NEW swarm, swarm = RunnerSwarm, RunnerCan(swarm),
         NEW plans, plans = RunnerAgentPlans(swarm),
         NEW c \in Connections(swarm), NEW p, p = ConnectorPlan(c, swarm)
  PROVE  IsRouted(p, DOMAIN plans)
<1>1. PICK S : S = ToSet(Loaded)
  OBVIOUS
<1>2. Loaded \in Seq(ResourcesOf(bundle)) /\ bundle \in Bundles /\ S \subseteq ResourcesOf(bundle)
  BY <1>1, LoadedIsSound
<1>3. swarm # None /\ None \notin ToSet(RunnerAgents(swarm)) /\ CanConnect(c, swarm)
  BY DEF RunnerCan
<1>4. IsList(swarm.spec.agents)
  BY <1>1, <1>2, <1>3, SwarmIsLoaded, ResourceIsDocument
<1>5. PICK ags : ags = RunnerAgents(swarm)
  OBVIOUS
<1>6. /\ ags \in Seq(S)
      /\ \A ref \in ToSet(AgentsOf(swarm)) : \E a \in ToSet(ags) : a.name = ref.name
      /\ swarm.spec.entry \in ToSet(AgentsOf(swarm))
  BY <1>1, <1>2, <1>3, <1>4, <1>5, AgentsAreLoaded
<1>7. \A a \in ToSet(ags) : a.name \in DOMAIN plans
  BY <1>5, <1>6, PlansAreOfAgents
<1>8. \A ref \in ToSet(AgentsOf(swarm)) : ref.name \in DOMAIN plans
  BY <1>6, <1>7
<1>9. p.default = swarm.spec.entry.name /\ p.rules = c.spec.rules
  BY DEF ConnectorPlan
<1>10. IsList(c.spec.rules)
  BY <1>1, <1>2, ResourceIsDocument DEF Connections
<1>11. ASSUME NEW rule \in ToSet(c.spec.rules), rule.agent # None PROVE rule.agent.name \in DOMAIN plans
  <2>1. RuleIsSound(rule, AgentsOf(swarm))
    BY <1>3 DEF CanConnect
  <2> QED BY <1>8, <1>11, <2>1 DEF RuleIsSound
<1> QED BY <1>6, <1>8, <1>9, <1>10, <1>11 DEF IsRouted

LEMMA RunnerPlanIsSound ==
  ASSUME LoadInv, load.pc = "loaded", NEW p, p = RunnerPlan, p # None
  PROVE  IsSoundPlan(p)
<1>1. PICK swarm : swarm = RunnerSwarm
  OBVIOUS
<1>2. load.errors = {} /\ RunnerCan(swarm)
  BY <1>1 DEF RunnerPlan
<1>3. PICK plans : plans = RunnerAgentPlans(swarm)
  OBVIOUS
<1>4. p = [swarm |-> swarm.name, agents |-> plans, registry |-> RunnerRegistry(swarm),
           connectors |-> {ConnectorPlan(c, swarm) : c \in Connections(swarm)}]
  BY <1>1, <1>3 DEF RunnerPlan
<1>5. /\ p.agents = plans /\ p.registry = RunnerRegistry(swarm)
      /\ p.connectors = {ConnectorPlan(c, swarm) : c \in Connections(swarm)}
  BY <1>4
<1>6. \A x \in DOMAIN plans : Handled(plans[x].catalog, RunnerRegistry(swarm))
  BY <1>1, <1>2, <1>3, RunnerPlanHandles
<1>7. \A c \in Connections(swarm) : IsRouted(ConnectorPlan(c, swarm), DOMAIN plans)
  BY <1>1, <1>2, <1>3, RunnerPlanRoutes
<1> QED BY <1>5, <1>6, <1>7 DEF IsSoundPlan

LEMMA ProcessPlanHandles ==
  ASSUME LoadInv, load.pc = "loaded", NEW name, NEW q, q = ProcessPlan(name), q # None
  PROVE  Handled(q.agent.catalog, q.registry)
<1>1. PICK agent, swarm : agent = ProcessAgent(name, ProcessSwarm) /\ swarm = ProcessSwarm
  OBVIOUS
<1>2. load.errors = {} /\ ProcessCan(swarm, agent)
  BY <1>1 DEF ProcessPlan
<1>3. PICK uses : uses = ProcessUses(agent)
  OBVIOUS
<1>4. /\ swarm # None /\ agent # None /\ CanRun(agent, uses)
      /\ FoldLeft(Register, NoTools, uses.tools) # None
  BY <1>2, <1>3 DEF ProcessCan
<1>5. /\ q.agent = AgentPlan(agent, uses, ProcessSteps(swarm))
      /\ q.registry = FoldLeft(Register, NoTools, uses.tools)
  BY <1>1, <1>2, <1>3 DEF ProcessPlan
<1>6. Loaded \in Seq(ResourcesOf(bundle)) /\ bundle \in Bundles /\ ToSet(Loaded) \subseteq ResourcesOf(bundle)
  BY <1>2, LoadedIsSound
<1>7. IsList(agent.spec.tools)
  <2>1. PICK ref, kind, pkg : ref = Ref("Agent", name, None) /\ kind = "Agent" /\ pkg = swarm.pkg
    OBVIOUS
  <2>2. agent = ProcessSelect(Loaded, ref, kind, pkg, None)
    BY <1>1, <1>4, <2>1 DEF ProcessAgent
  <2>3. PICK S, rs : S = ResourcesOf(bundle) /\ rs = Loaded
    OBVIOUS
  <2>4. rs \in Seq(S) /\ agent = ProcessSelect(rs, ref, kind, pkg, None)
    BY <1>6, <2>2, <2>3
  <2>5. agent = None \/ (agent \in ToSet(rs) /\ agent.kind = kind /\ agent.name = ref.name)
    BY <2>4, SelectedIsNamed
  <2> QED BY <1>4, <1>6, <2>1, <2>3, <2>5, ResourceIsDocument
<1>8. PICK ts, reg : ts = uses.tools /\ reg = FoldLeft(Register, NoTools, uses.tools)
  OBVIOUS
<1>9. ts \in Seq(ToSet(Loaded))
  BY <1>3, <1>4, <1>6, <1>7, <1>8, ProcessToolsAreLoaded
<1>10. HasAll(reg, ToSet(ts))
  BY <1>4, <1>8, <1>9, ProcessRegistryHasAll
<1>11. Handled(Catalog(ts), reg)
  BY <1>9, <1>10, CatalogIsHandled
<1>12. q.agent.catalog = Catalog(ts) /\ q.registry = reg
  BY <1>5, <1>8 DEF AgentPlan
<1> QED BY <1>11, <1>12

LEMMA InitPlans == PlanInit => PlanInv
BY DEF PlanInit, PlanInv

\* The target of an event is an agent with a plan.
LEMMA TargetIsPlanned ==
  ASSUME NEW c, NEW agents, IsRouted(c, agents), NEW event, NEW rule, rule = MatchingRule(c.rules, event)
  PROVE  TargetAgent(rule, c) \in agents
<1>1. DOMAIN c.rules = 1..Len(c.rules) /\ Len(c.rules) \in Nat /\ \A i \in 1..Len(c.rules) : c.rules[i] \in ToSet(c.rules)
  BY ListPlaces DEF IsRouted
<1> DEFINE fits == {i \in DOMAIN c.rules : RuleFits(c.rules[i], event)}
<1>2. fits \in SUBSET (1..Len(c.rules)) /\ rule = FirstOf(c.rules, fits)
  BY <1>1 DEF MatchingRule
<1> HIDE DEF fits
<1>3. rule = None \/ \E i \in fits : rule = c.rules[i]
  BY <1>1, <1>2, FirstOfThese
<1>4. rule = None \/ rule \in ToSet(c.rules)
  BY <1>1, <1>2, <1>3
<1> QED BY <1>4 DEF TargetAgent, IsRouted

LEMMA PlansAreKept == LoadInv /\ PlanInv /\ [PlanNext]_planVars => PlanInv'
<1> SUFFICES ASSUME LoadInv, PlanInv, [PlanNext]_planVars PROVE PlanInv'
  OBVIOUS
<1>1. CASE UNCHANGED <<plan, process, routed>>
  BY <1>1 DEF PlanInv
<1>2. CASE BuildRunner
  <2>1. PICK p : p = RunnerPlan
    OBVIOUS
  <2>2. /\ plan = Unbuilt /\ (plan' = None \/ (load.pc = "loaded" /\ plan' = p))
        /\ UNCHANGED <<process, routed>>
    BY <1>2, <2>1 DEF BuildRunner, LoadIsOver
  <2>3. routed = Unbuilt
    BY <2>2 DEF PlanInv
  <2>4. plan' \notin {Unbuilt, None} => IsSoundPlan(plan')
    BY <2>1, <2>2, RunnerPlanIsSound
  <2> QED BY <2>2, <2>3, <2>4 DEF PlanInv
<1>3. ASSUME NEW name, BuildProcess(name) PROVE PlanInv'
  <2>1. PICK q : q = ProcessPlan(name)
    OBVIOUS
  <2>2. (process' = None \/ (load.pc = "loaded" /\ process' = q)) /\ UNCHANGED <<plan, routed>>
    BY <1>3, <2>1 DEF BuildProcess, LoadIsOver
  <2>3. process' \notin {Unbuilt, None} => Handled(process'.agent.catalog, process'.registry)
    BY <2>1, <2>2, ProcessPlanHandles
  <2> QED BY <2>2, <2>3 DEF PlanInv
<1>4. ASSUME plan \notin {Unbuilt, None}, NEW connector \in plan.connectors, NEW event, Receive(connector, event)
      PROVE  PlanInv'
  <2>1. PICK rule, target : rule = MatchingRule(connector.rules, event) /\ target = TargetAgent(rule, connector)
    OBVIOUS
  <2>2. routed'.agent = target /\ UNCHANGED <<plan, process>>
    BY <1>4, <2>1 DEF Receive
  <2>3. IsRouted(connector, DOMAIN plan.agents)
    BY <1>4 DEF PlanInv, IsSoundPlan
  <2>4. target \in DOMAIN plan.agents
    BY <2>1, <2>3, TargetIsPlanned
  <2> QED BY <1>4, <2>2, <2>4 DEF PlanInv
<1>5. CASE Load
  BY <1>1, <1>5 DEF Load
<1>6. CASE UNCHANGED planVars
  BY <1>1, <1>6 DEF planVars
<1> QED BY <1>2, <1>3, <1>4, <1>5, <1>6 DEF PlanNext

\* The inductive invariant of the load and of the plans made of it.
THEOREM PlanInvariant == PlanSpec => [](LoadInv /\ PlanInv)
<1>1. PlanInit => LoadInv /\ PlanInv
  BY InitIsLoad, InitPlans
<1>2. LoadInv /\ PlanInv /\ [PlanNext]_planVars => (LoadInv /\ PlanInv)'
  BY LoadIsKept, PlansAreKept
<1> QED BY <1>1, <1>2, PTL DEF PlanSpec

\* A tool that an agent is shown is handled by the resource that the agent refers to:
\* in the registry that all agents of the runner share, and in that of an agent process.
THEOREM ToolsRunAsDeclared == PlanSpec => []ToolRunsAsDeclared
<1>1. PlanInv => ToolRunsAsDeclared
  BY DEF PlanInv, IsSoundPlan, Handled, ToolRunsAsDeclared
<1> QED BY <1>1, PlanInvariant, PTL

\* An event of a connector is given to an agent that the runner has a plan for.
THEOREM EventsReachPlannedAgents == PlanSpec => []RoutedIsPlanned
<1>1. PlanInv => RoutedIsPlanned
  BY DEF PlanInv, RoutedIsPlanned
<1> QED BY <1>1, PlanInvariant, PTL

-----------------------------------------------------------------------------
(* What the plans mean *)

\* A resource that a builder has taken for a reference of a loaded resource.
LEMMA TakenIsDenoted ==
  ASSUME LoadInv, load.pc = "loaded", load.errors = {}, LocalIsApart,
         NEW r \in ToSet(Loaded), NEW ref \in RefsOf(r), NEW kind, NEW pkg, NEW taken, taken # None,
         \/ taken = RunnerSelect(Loaded, ref, kind, r.pkg, pkg)
         \/ taken = ProcessSelect(Loaded, ref, kind, r.pkg, None) /\ ref.kind = kind
  PROVE  Scope(taken) = Denoted(ref, r)
<1>1. /\ Loaded \in Seq(ResourcesOf(bundle)) /\ None \notin ResourcesOf(bundle)
      /\ Errors(Loaded) = {} /\ OneSort(Loaded)
  BY BundleHolds DEF LoadInv, LoadTypes, IsValidated, Loaded
<1>2. PICK rs : rs = Loaded
  OBVIOUS
<1>3. CASE taken = RunnerSelect(Loaded, ref, kind, r.pkg, pkg)
  <2>1. ref.kind = kind
    BY <1>3 DEF RunnerSelect
  <2> QED BY <1>1, <1>2, <1>3, <2>1, RunnerTakesDenoted
<1>4. CASE taken = ProcessSelect(Loaded, ref, kind, r.pkg, None) /\ ref.kind = kind
  BY <1>1, <1>2, <1>4, ProcessTakesDenoted
<1> QED BY <1>3, <1>4

\* The guard changes what an extension requires, and comes after the others.
LEMMA GuardedKeepsIds ==
  ASSUME NEW exts, IsList(exts), NEW required, NEW guard, NEW i \in 1..Len(exts),
         \A e \in ToSet(exts) : \E x, c : e = [id |-> x, requires |-> c]
  PROVE  Guarded(exts, required, guard)[i].id = exts[i].id
<1>1. /\ exts \in Seq(ToSet(exts)) /\ DOMAIN exts = 1..Len(exts) /\ Len(exts) \in Nat
      /\ exts[i] \in ToSet(exts)
  BY ListPlaces
<1>2. PICK last : last = Extension(guard, None)
  OBVIOUS
<1>3. PICK all : all = IF GuardAt(exts) # 0 THEN exts ELSE Append(exts, last)
  OBVIOUS
<1>4. i \in DOMAIN all /\ all[i] = exts[i]
  <2>1. CASE all = exts
    BY <1>1, <2>1
  <2>2. CASE all = Append(exts, last)
    <3>1. PICK S : S = ToSet(exts) \cup {last}
      OBVIOUS
    <3>2. exts \in [1..Len(exts) -> S]
      BY <1>1, <3>1, Places
    <3>3. exts \in Seq(S)
      BY <1>1, <3>2, SeqIsFunction
    <3> QED BY <1>1, <2>2, <3>1, <3>3, AppendPlaces, Places
  <2> QED BY <1>3, <2>1, <2>2
<1>5. PICK x, c : exts[i] = [id |-> x, requires |-> c]
  BY <1>1
<1>6. WithRequired(all, required)[i].id = exts[i].id
  BY <1>4, <1>5 DEF WithRequired
<1>7. Guarded(exts, required, guard) \in {exts, WithRequired(all, required)}
  BY <1>2, <1>3 DEF Guarded
<1> QED BY <1>6, <1>7

\* A plan made of what the references of an agent denote.
LEMMA AgentPlanMeans ==
  ASSUME NEW T, NEW agent, IsList(agent.spec.tools), IsList(agent.spec.exts), NEW found, NEW guard,
         \A x \in References(agent) :
           /\ found[x] \in T \cup {None}
           /\ found[x] # None => Scope(found[x]) = Denoted(x[2], agent),
         NEW uses, uses = Uses(agent, found, guard), CanRun(agent, uses), NEW steps,
         NEW p, p = AgentPlan(agent, uses, steps)
  PROVE  IsMadeOf(p, agent)
<1>1. uses.model # None /\ None \notin ToSet(uses.tools) /\ None \notin ToSet(uses.exts)
  BY DEF CanRun
<1>2. p.model = Denoted(agent.spec.model, agent)
  <2>1. PICK x : x = <<"Model", agent.spec.model>>
    OBVIOUS
  <2>2. x \in References(agent) /\ x[2] = agent.spec.model
    BY <2>1 DEF References
  <2>3. uses.model = found[x]
    BY <2>1 DEF Uses
  <2>4. p.model = Scope(uses.model)
    BY DEF AgentPlan
  <2> QED BY <1>1, <2>2, <2>3, <2>4
<1>3. ASSUME NEW n \in DOMAIN p.catalog
      PROVE  \E ref \in ToSet(agent.spec.tools) : p.catalog[n] = Denoted(ref, agent)
  <2>1. PICK ts, refs : ts = uses.tools /\ refs = agent.spec.tools
    OBVIOUS
  <2>2. ts \in Seq(T)
    BY <1>1, <2>1, ToolsAreFound
  <2>3. p.catalog = Catalog(ts)
    BY <2>1 DEF AgentPlan
  <2>4. PICK t \in ToSet(ts) : p.catalog[n] = Scope(t)
    BY <1>3, <2>2, <2>3, CatalogIsOfTools
  <2>5. ts = [i \in DOMAIN refs |-> IF refs[i] = None THEN None ELSE found[<<"Tool", refs[i]>>]]
    BY <2>1 DEF Uses
  <2>6. PICK i \in DOMAIN refs : t = IF refs[i] = None THEN None ELSE found[<<"Tool", refs[i]>>]
    BY <2>4, <2>5 DEF ToSet
  <2>7. PICK ref : ref = refs[i]
    OBVIOUS
  <2>8. t # None /\ ref # None /\ t = found[<<"Tool", ref>>]
    BY <1>1, <2>1, <2>4, <2>6, <2>7
  <2>9. ref \in ToSet(refs)
    BY <2>7, ListPlaces DEF ToSet
  <2>10. PICK x : x = <<"Tool", ref>>
    OBVIOUS
  <2>11. x \in References(agent) /\ x[2] = ref
    BY <2>1, <2>8, <2>9, <2>10 DEF References
  <2> QED BY <2>1, <2>4, <2>8, <2>9, <2>10, <2>11
<1>4. ASSUME NEW i \in DOMAIN agent.spec.exts
      PROVE  p.exts[i].id = Denoted(agent.spec.exts[i].ref, agent)
  <2>1. PICK given, taken : given = agent.spec.exts /\ taken = uses.exts
    OBVIOUS
  <2>2. DOMAIN given = 1..Len(given) /\ Len(given) \in Nat /\ given[i] \in ToSet(given)
    BY <1>4, <2>1, ListPlaces
  <2>3. taken = [k \in DOMAIN given |-> IF given[k].ref = None THEN None
                                        ELSE found[<<"Extension", given[k].ref>>]]
    BY <2>1 DEF Uses
  <2>4. PICK exts : exts = [k \in DOMAIN taken |-> Extension(taken[k], given[k].config)]
    OBVIOUS
  <2>5. p.exts = Guarded(exts, agent.spec.required, uses.guard)
    BY <2>1, <2>4 DEF AgentPlan
  <2>6. /\ DOMAIN exts = 1..Len(given)
        /\ \A k \in 1..Len(given) : exts[k] = Extension(taken[k], given[k].config) /\ exts[k] \in ToSet(exts)
    BY <2>2, <2>3, <2>4 DEF ToSet
  <2>7. IsList(exts) /\ Len(exts) = Len(given)
    <3>1. exts \in [1..Len(given) -> ToSet(exts)]
      BY <2>4, <2>6
    <3> HIDE DEF ToSet
    <3> QED BY <2>2, <3>1, SeqIsFunction DEF IsList
  <2>8. \A e \in ToSet(exts) : \E x, c : e = [id |-> x, requires |-> c]
    <3>1. \A k \in 1..Len(given) : \E x, c : exts[k] = [id |-> x, requires |-> c]
      BY <2>6 DEF Extension
    <3> QED BY <2>6, <3>1 DEF ToSet
  <2>9. p.exts[i].id = exts[i].id /\ exts[i].id = Scope(taken[i])
    <3>1. i \in 1..Len(exts)
      BY <1>4, <2>1, <2>2, <2>7
    <3>2. exts[i].id = Scope(taken[i])
      BY <2>6, <2>7, <3>1 DEF Extension
    <3> QED BY <2>5, <2>7, <2>8, <3>1, <3>2, GuardedKeepsIds
  <2>10. PICK ref : ref = given[i].ref
    OBVIOUS
  <2>11. taken[i] # None
    BY <1>1, <1>4, <2>1, <2>3 DEF ToSet
  <2>12. ref # None /\ taken[i] = found[<<"Extension", ref>>]
    BY <1>4, <2>1, <2>3, <2>10, <2>11
  <2>13. PICK x : x = <<"Extension", ref>>
    OBVIOUS
  <2>14. x \in References(agent) /\ x[2] = ref
    BY <2>1, <2>2, <2>10, <2>12, <2>13 DEF References
  <2> QED BY <2>1, <2>9, <2>10, <2>11, <2>12, <2>13, <2>14
<1>5. p.id = Scope(agent)
  BY DEF AgentPlan
<1> QED BY <1>2, <1>3, <1>4, <1>5 DEF IsMadeOf

\* The references a plan is made of are among those that were validated.
LEMMA ReferencesAreChecked ==
  ASSUME Errors(Loaded) = {}, NEW agent \in ToSet(Loaded), agent.kind = "Agent", NEW x \in References(agent)
  PROVE  x[2] \in RefsOf(agent)
<1>1. agent.spec.model # None
  BY ErrorsMean DEF KindIsSound, AgentIsSound
<1>2. RefsOf(agent) = ({agent.spec.model} \cup ToSet(agent.spec.tools)
                        \cup {e.ref : e \in ToSet(agent.spec.exts)}) \ {None}
  BY DEF RefsOf
<1> QED BY <1>1, <1>2 DEF References

\* What holds of the runner's plan, and of an agent process's.
RunnerMeans(p, swarm) ==
  /\ \A n \in DOMAIN p.agents :
       /\ IsOfSwarm(p.agents[n], swarm)
       /\ \E agent \in ToSet(Loaded) : IsMadeOf(p.agents[n], agent)
  /\ \A k \in p.connectors : \E c \in Connections(swarm) :
       k.name = c.name /\ k.connector = Denoted(c.spec.connector, c)

ProcessMeans(q) ==
  \E agent \in ToSet(Loaded) :
    q.agent.id = Scope(agent) /\ (IsWrittenByKind(agent) => IsMadeOf(q.agent, agent))

LEMMA RunnerAgentMeans ==
  ASSUME LoadInv, load.pc = "loaded", load.errors = {}, LocalIsApart, NEW swarm,
         NEW agent \in ToSet(Loaded), agent.kind = "Agent", CanRun(agent, RunnerUses(agent, swarm)),
         NEW p, p = RunnerAgentPlan(agent, swarm)
  PROVE  IsMadeOf(p, agent)
<1> DEFINE pick(kind, ref) == RunnerSelect(Loaded, ref, kind, agent.pkg, swarm.pkg)
           found == [r \in References(agent) |-> pick(r[1], r[2])]
           guard == pick("Extension", GuardRef)
<1>1. /\ Loaded \in Seq(ResourcesOf(bundle)) /\ bundle \in Bundles
      /\ ToSet(Loaded) \subseteq ResourcesOf(bundle) /\ Errors(Loaded) = {}
  BY LoadedIsSound DEF LoadInv, IsValidated, Loaded
<1>2. ASSUME NEW x \in References(agent)
      PROVE  /\ found[x] \in ToSet(Loaded) \cup {None}
             /\ found[x] # None => Scope(found[x]) = Denoted(x[2], agent)
  <2>1. PICK kind, ref, owner, pkg : kind = x[1] /\ ref = x[2] /\ owner = agent.pkg /\ pkg = swarm.pkg
    OBVIOUS
  <2>2. PICK taken : taken = RunnerSelect(Loaded, ref, kind, owner, pkg)
    OBVIOUS
  <2>3. taken = None \/ taken \in ToSet(Loaded)
    BY <1>1, <2>2, SelectedIsNamed
  <2>4. ref \in RefsOf(agent)
    BY <1>1, <2>1, ReferencesAreChecked
  <2>5. taken # None => Scope(taken) = Denoted(ref, agent)
    BY <2>1, <2>2, <2>4, TakenIsDenoted
  <2> QED BY <2>1, <2>2, <2>3, <2>5
<1>3. PICK uses : uses = RunnerUses(agent, swarm)
  OBVIOUS
<1>4. uses = Uses(agent, found, guard) /\ p = AgentPlan(agent, uses, RunnerSteps(swarm))
  BY <1>3 DEF RunnerUses, RunnerAgentPlan
<1>5. IsList(agent.spec.tools) /\ IsList(agent.spec.exts)
  BY <1>1, ResourceIsDocument
<1> HIDE DEF found, guard
<1> QED BY <1>2, <1>3, <1>4, <1>5, AgentPlanMeans

LEMMA ProcessAgentMeans ==
  ASSUME LoadInv, load.pc = "loaded", load.errors = {}, LocalIsApart,
         NEW agent \in ToSet(Loaded), agent.kind = "Agent", CanRun(agent, ProcessUses(agent)),
         IsWrittenByKind(agent), NEW steps, NEW p, p = AgentPlan(agent, ProcessUses(agent), steps)
  PROVE  IsMadeOf(p, agent)
<1> DEFINE found == [r \in References(agent) |-> ProcessSelect(Loaded, r[2], r[1], agent.pkg, None)]
           guard == ProcessSelect(Loaded, GuardRef, "Extension", agent.pkg, ProcessSwarm.pkg)
<1>1. /\ Loaded \in Seq(ResourcesOf(bundle)) /\ bundle \in Bundles
      /\ ToSet(Loaded) \subseteq ResourcesOf(bundle) /\ Errors(Loaded) = {}
  BY LoadedIsSound DEF LoadInv, IsValidated, Loaded
<1>2. ASSUME NEW x \in References(agent)
      PROVE  /\ found[x] \in ToSet(Loaded) \cup {None}
             /\ found[x] # None => Scope(found[x]) = Denoted(x[2], agent)
  <2>1. PICK kind, ref, owner : kind = x[1] /\ ref = x[2] /\ owner = agent.pkg
    OBVIOUS
  <2>2. PICK taken : taken = ProcessSelect(Loaded, ref, kind, owner, None)
    OBVIOUS
  <2>3. taken = None \/ taken \in ToSet(Loaded)
    BY <1>1, <2>2, SelectedIsNamed
  <2>4. ref \in RefsOf(agent) /\ ref.kind = kind
    BY <1>1, <2>1, ReferencesAreChecked DEF IsWrittenByKind
  <2>5. taken # None => Scope(taken) = Denoted(ref, agent)
    BY <2>1, <2>2, <2>4, TakenIsDenoted
  <2> QED BY <2>1, <2>2, <2>3, <2>5
<1>3. PICK uses : uses = ProcessUses(agent)
  OBVIOUS
<1>4. uses = Uses(agent, found, guard) /\ p = AgentPlan(agent, uses, steps)
  BY <1>3 DEF ProcessUses
<1>5. IsList(agent.spec.tools) /\ IsList(agent.spec.exts)
  BY <1>1, ResourceIsDocument
<1> HIDE DEF found, guard
<1> QED BY <1>2, <1>3, <1>4, <1>5, AgentPlanMeans

LEMMA RunnerPlanMeans ==
  ASSUME LoadInv, load.pc = "loaded", LocalIsApart, NEW p, p = RunnerPlan, p # None,
         NEW swarm, swarm = RunnerSwarm
  PROVE  RunnerMeans(p, swarm)
<1>1. load.errors = {} /\ RunnerCan(swarm)
  BY DEF RunnerPlan
<1>2. /\ Loaded \in Seq(ResourcesOf(bundle)) /\ bundle \in Bundles
      /\ ToSet(Loaded) \subseteq ResourcesOf(bundle) /\ Errors(Loaded) = {}
  BY <1>1, LoadedIsSound DEF LoadInv, IsValidated, Loaded
<1>3. swarm # None /\ None \notin ToSet(RunnerAgents(swarm))
  BY <1>1 DEF RunnerCan
<1>4. swarm \in ToSet(Loaded) /\ swarm.kind = "Swarm"
  BY <1>2, <1>3, SwarmIsLoaded
<1>5. IsList(swarm.spec.agents)
  BY <1>2, <1>4, ResourceIsDocument
<1>6. None \notin ToSet(swarm.spec.agents)
  BY <1>2, <1>4, ErrorsMean DEF KindIsSound, SwarmIsSound
<1>7. PICK ags, plans : ags = RunnerAgents(swarm) /\ plans = RunnerAgentPlans(swarm)
  OBVIOUS
<1>8. /\ ags \in Seq(ToSet(Loaded)) /\ ToSet(ags) \subseteq ToSet(Loaded)
      /\ \A a \in ToSet(ags) : a.kind = "Agent"
      /\ \A a \in ToSet(ags) : \E ref \in ToSet(AgentsOf(swarm)) : a = RunnerAgent(ref, swarm)
      /\ \A ref \in ToSet(AgentsOf(swarm)) :
           ref \in ToSet(swarm.spec.agents) \/ (ref = swarm.spec.entry /\ ref \notin ToSet(swarm.spec.agents))
  BY <1>2, <1>3, <1>5, <1>7, AgentsAreLoaded, Places
<1>9. /\ p.agents = plans
      /\ p.connectors = {ConnectorPlan(c, swarm) : c \in Connections(swarm)}
  BY <1>7 DEF RunnerPlan
<1>10. ASSUME NEW x \in DOMAIN plans
       PROVE  IsOfSwarm(plans[x], swarm) /\ \E agent \in ToSet(Loaded) : IsMadeOf(plans[x], agent)
  <2>1. PICK a \in ToSet(ags) : plans[x] = RunnerAgentPlan(a, swarm)
    BY <1>7, <1>8, PlansAreOfAgents
  <2>2. a \in ToSet(Loaded) /\ a.kind = "Agent" /\ a # None
    BY <1>3, <1>7, <1>8
  <2>3. CanRun(a, RunnerUses(a, swarm))
    BY <1>1, <1>7 DEF RunnerCan
  <2>4. IsMadeOf(plans[x], a)
    BY <1>1, <2>1, <2>2, <2>3, RunnerAgentMeans
  <2>5. plans[x].id = Scope(a)
    BY <2>4 DEF IsMadeOf
  <2>6. PICK ref \in ToSet(AgentsOf(swarm)) : a = RunnerAgent(ref, swarm)
    BY <1>8
  <2>7. CASE ref \in ToSet(swarm.spec.agents)
    <3>1. ref \in RefsOf(swarm)
      BY <1>4, <1>6, <2>7 DEF RefsOf
    <3>2. a = RunnerSelect(Loaded, ref, "Agent", swarm.pkg, swarm.pkg)
      BY <2>6 DEF RunnerAgent
    <3>3. Scope(a) = Denoted(ref, swarm)
      BY <1>1, <1>4, <2>2, <3>1, <3>2, TakenIsDenoted
    <3> QED BY <2>2, <2>4, <2>5, <2>7, <3>3 DEF IsOfSwarm
  <2>8. CASE ref = swarm.spec.entry /\ ref \notin ToSet(swarm.spec.agents)
    <3>1. PICK pkg : pkg = swarm.pkg
      OBVIOUS
    <3>2. a = RunnerSelect(Loaded, ref, "Agent", pkg, pkg)
      BY <2>6, <3>1 DEF RunnerAgent
    <3>3. a.name = ref.name
      BY <1>2, <2>2, <3>2, SelectedIsNamed
    <3>4. plans[x].id[3] = swarm.spec.entry.name
      BY <2>5, <2>8, <3>3 DEF Scope
    <3> QED BY <2>2, <2>4, <2>8, <3>4 DEF IsOfSwarm
  <2> QED BY <1>8, <2>7, <2>8
<1>11. ASSUME NEW c \in Connections(swarm), NEW k, k = ConnectorPlan(c, swarm)
       PROVE  k.name = c.name /\ k.connector = Denoted(c.spec.connector, c)
  <2>1. c \in ToSet(Loaded) /\ c.kind = "Connection"
    BY DEF Connections
  <2>2. PICK ref, taken, pkg : ref = c.spec.connector /\ taken = ConnectorOf(c, swarm) /\ pkg = swarm.pkg
    OBVIOUS
  <2>3. taken # None
    BY <1>1, <2>2 DEF RunnerCan, CanConnect
  <2>4. ref # None
    BY <1>2, <2>1, <2>2, ErrorsMean DEF KindIsSound
  <2>5. ref \in RefsOf(c)
    BY <2>1, <2>2, <2>4 DEF RefsOf
  <2>6. taken = RunnerSelect(Loaded, ref, "Connector", c.pkg, pkg)
    BY <2>2 DEF ConnectorOf
  <2>7. Scope(taken) = Denoted(ref, c)
    BY <1>1, <2>1, <2>3, <2>5, <2>6, TakenIsDenoted
  <2>8. k.name = c.name /\ k.connector = Scope(taken)
    BY <1>11, <2>2 DEF ConnectorPlan
  <2> QED BY <2>2, <2>7, <2>8
<1> QED BY <1>9, <1>10, <1>11 DEF RunnerMeans

LEMMA ProcessPlanMeans ==
  ASSUME LoadInv, load.pc = "loaded", LocalIsApart, NEW name, NEW q, q = ProcessPlan(name), q # None
  PROVE  ProcessMeans(q)
<1>1. PICK agent, swarm : agent = ProcessAgent(name, ProcessSwarm) /\ swarm = ProcessSwarm
  OBVIOUS
<1>2. load.errors = {} /\ ProcessCan(swarm, agent)
  BY <1>1 DEF ProcessPlan
<1>3. swarm # None /\ agent # None /\ CanRun(agent, ProcessUses(agent))
  BY <1>2 DEF ProcessCan
<1>4. q.agent = AgentPlan(agent, ProcessUses(agent), ProcessSteps(swarm))
  BY <1>1, <1>2 DEF ProcessPlan
<1>5. Loaded \in Seq(ResourcesOf(bundle))
  BY <1>2, LoadedIsSound
<1>6. agent \in ToSet(Loaded) /\ agent.kind = "Agent"
  <2>1. PICK ref, kind, pkg, S, rs : ref = Ref("Agent", name, None) /\ kind = "Agent" /\ pkg = swarm.pkg
                                       /\ S = ResourcesOf(bundle) /\ rs = Loaded
    OBVIOUS
  <2>2. rs \in Seq(S) /\ agent = ProcessSelect(rs, ref, kind, pkg, None)
    BY <1>1, <1>3, <1>5, <2>1 DEF ProcessAgent
  <2>3. agent = None \/ (agent \in ToSet(rs) /\ agent.kind = kind /\ agent.name = ref.name)
    BY <2>2, SelectedIsNamed
  <2> QED BY <1>3, <2>1, <2>3
<1>7. IsWrittenByKind(agent) => IsMadeOf(q.agent, agent)
  BY <1>2, <1>3, <1>4, <1>6, ProcessAgentMeans
<1>8. q.agent.id = Scope(agent)
  BY <1>4 DEF AgentPlan
<1> QED BY <1>6, <1>7, <1>8 DEF ProcessMeans

\* A plan is made when the load is over, and what is loaded stays.
MeantInv ==
  /\ plan # Unbuilt \/ process # Unbuilt => LoadIsOver
  /\ RefsMeanWhatWasChecked

LEMMA MeaningIsKept == LoadInv /\ MeantInv /\ [PlanNext]_planVars => MeantInv'
<1> SUFFICES ASSUME LoadInv, MeantInv, [PlanNext]_planVars PROVE MeantInv'
  OBVIOUS
<1>1. CASE Load
  <2>1. ~ LoadIsOver
    BY <1>1 DEF Load, LoadNext, ReadManifest, TakeDependency, LoadLocal, LoadIsOver
  <2>2. plan' = Unbuilt /\ process' = Unbuilt
    BY <1>1, <2>1 DEF MeantInv, Load
  <2> QED BY <2>2 DEF MeantInv, RefsMeanWhatWasChecked
<1>2. ASSUME UNCHANGED <<bundle, load>>,
             plan' \in {plan, None} \/ (load.pc = "loaded" /\ plan' = RunnerPlan),
             \/ process' \in {process, None}
             \/ load.pc = "loaded" /\ \E name : process' = ProcessPlan(name),
             plan' # plan \/ process' # process => LoadIsOver
      PROVE  MeantInv'
  <2>1. PICK swarm, rs : swarm = RunnerSwarm /\ rs = Loaded
    OBVIOUS
  <2>2. Loaded' = rs /\ (LocalIsApart)' = LocalIsApart /\ (LoadIsOver)' = LoadIsOver
    BY <1>2, <2>1, ManifestStays DEF Loaded, LocalIsApart, LoadIsOver
  <2>3. RunnerSwarm' = swarm
    BY <1>2, <2>1 DEF RunnerSwarm, SwarmNamed, OnlySwarm, Swarms, Loaded
  <2>4. PICK cs : cs = Connections(swarm) /\ cs = {r \in ToSet(rs) : r.kind = "Connection" /\ IsMatchingSwarm(r, swarm)}
    BY <2>1 DEF Connections
  <2>5. Connections(RunnerSwarm)' = cs
    BY <2>2, <2>3, <2>4 DEF Connections
  <2>6. PICK p, q : p = plan' /\ q = process'
    OBVIOUS
  <2>7. ASSUME LocalIsApart, p \notin {Unbuilt, None}
        PROVE  /\ \A n \in DOMAIN p.agents :
                    IsOfSwarm(p.agents[n], swarm) /\ \E agent \in ToSet(rs) : IsMadeOf(p.agents[n], agent)
               /\ \A k \in p.connectors : \E c \in cs :
                    k.name = c.name /\ k.connector = Denoted(c.spec.connector, c)
    <3>1. CASE p = plan
      BY <2>1, <2>4, <2>7, <3>1 DEF MeantInv, RefsMeanWhatWasChecked
    <3>2. CASE load.pc = "loaded" /\ p = RunnerPlan
      <4>1. RunnerMeans(p, swarm)
        BY <2>1, <2>7, <3>2, RunnerPlanMeans
      <4>2. rs = Loaded /\ cs = Connections(swarm)
        BY <2>1, <2>4
      <4> QED BY <4>1, <4>2 DEF RunnerMeans
    <3> QED BY <1>2, <2>6, <2>7, <3>1, <3>2
  <2>8. ASSUME LocalIsApart, q \notin {Unbuilt, None}
        PROVE  \E agent \in ToSet(rs) :
                 q.agent.id = Scope(agent) /\ (IsWrittenByKind(agent) => IsMadeOf(q.agent, agent))
    <3>1. CASE q = process
      BY <2>1, <2>8, <3>1 DEF MeantInv, RefsMeanWhatWasChecked
    <3>2. CASE load.pc = "loaded" /\ \E name : q = ProcessPlan(name)
      BY <2>1, <2>8, <3>2, ProcessPlanMeans DEF ProcessMeans
    <3> QED BY <1>2, <2>6, <2>8, <3>1, <3>2
  <2>9. RefsMeanWhatWasChecked'
    BY <2>2, <2>3, <2>5, <2>6, <2>7, <2>8 DEF RefsMeanWhatWasChecked
  <2>10. plan' # Unbuilt \/ process' # Unbuilt => LoadIsOver
    BY <1>2 DEF MeantInv
  <2> QED BY <2>2, <2>9, <2>10 DEF MeantInv
<1>3. CASE BuildRunner
  BY <1>2, <1>3 DEF BuildRunner, LoadIsOver
<1>4. ASSUME NEW name, BuildProcess(name) PROVE MeantInv'
  BY <1>2, <1>4 DEF BuildProcess, LoadIsOver
<1>5. ASSUME NEW connector, NEW event, Receive(connector, event) PROVE MeantInv'
  BY <1>2, <1>5 DEF Receive
<1>6. CASE UNCHANGED planVars
  BY <1>2, <1>6 DEF planVars
<1> QED BY <1>1, <1>3, <1>4, <1>5, <1>6 DEF PlanNext

\* In a bundle without errors the plans of the runner and of an agent process are made
\* of the resources whose existence validateResources has checked.
THEOREM RefsMeanChecked == PlanSpec => []RefsMeanWhatWasChecked
<1>1. PlanInit => MeantInv
  BY DEF PlanInit, MeantInv, RefsMeanWhatWasChecked
<1>2. LoadInv /\ MeantInv /\ [PlanNext]_planVars => MeantInv'
  BY MeaningIsKept
<1>3. MeantInv => RefsMeanWhatWasChecked
  BY DEF MeantInv
<1> QED BY <1>1, <1>2, <1>3, LoadInvariant, PTL DEF PlanSpec
=============================================================================
