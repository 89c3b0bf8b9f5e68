---------------------------- MODULE StorageProofs ----------------------------
(* Proofs about what is kept on disk: the files of an instance, for any       *)
(* messages, extensions, states, events and kills (InstanceFiles); and the    *)
(* packages, for any registry, publishes, requests and commands (Registry,    *)
(* PackageInstall).                                                           *)
EXTENDS InstanceFiles, PackageInstall, FiniteSetTheorems, SequenceTheorems, WellFoundedInduction, TLAPS

-----------------------------------------------------------------------------
(* Folding events *)

LEMMA LeastNumber ==
  ASSUME NEW T \in SUBSET Nat, T # {}
  PROVE  \E x \in T : \A y \in T : ~(y < x)
<1> DEFINE R == {ss \in Nat \X Nat : ss[1] < ss[2]}
<1>1. IsWellFoundedOn(R, Nat)
  BY NatLessThanWellFounded DEF OpToRel
<1>2. \A x, y \in Nat : y < x => <<y, x>> \in R
  OBVIOUS
<1> HIDE DEF R
<1>3. PICK x \in T : \A y \in T : ~ (<<y, x>> \in R)
  BY <1>1, WFMin
<1> QED BY <1>2, <1>3

\* The last place of a set of places, as the fold takes it.
Top(s) == CHOOSE x \in s : \A y \in s : x >= y

\* What the fold makes of every set of places.
FoldOf(h, messages, es, n) ==
  h = [s \in SUBSET (1..n) |->
         IF s = {} THEN messages ELSE ApplyEvent(h[s \ {Top(s)}], es[Top(s)])]

LEMMA TopIsLast ==
  ASSUME NEW n \in Nat, n # 0
  PROVE  Top(1..n) = n /\ (1..n) \ {Top(1..n)} = 1..(n - 1) /\ 1..n # {}
<1>1. n \in 1..n /\ \A y \in 1..n : n >= y
  OBVIOUS
<1>2. Top(1..n) \in 1..n /\ \A y \in 1..n : Top(1..n) >= y
  BY <1>1 DEF Top
<1>3. Top(1..n) = n
  BY <1>1, <1>2
<1>4. (1..n) \ {n} = 1..(n - 1) /\ 1..n # {}
  OBVIOUS
<1> QED BY <1>3, <1>4

LEMMA FoldIsChosen ==
  ASSUME NEW messages, NEW S, NEW es \in Seq(S)
  PROVE  ApplyEvents(messages, es) = (CHOOSE h : FoldOf(h, messages, es, Len(es)))[1..Len(es)]
<1>1. DOMAIN es = 1..Len(es)
  BY LenProperties
<1>2. ApplyEvents(messages, es) =
        (CHOOSE h : h = [s \in SUBSET (DOMAIN es) |->
            IF s = {} THEN messages ELSE ApplyEvent(h[s \ {Top(s)}], es[Top(s)])])[DOMAIN es]
  BY DEF ApplyEvents, FoldLeft, MapThenFoldSet, Max, Top
<1> QED BY <1>1, <1>2 DEF FoldOf

LEMMA FoldExists ==
  ASSUME NEW messages, NEW es, NEW n \in Nat
  PROVE  \E h : FoldOf(h, messages, es, n)
<1> DEFINE T == {k \in Nat : ~ \E h : FoldOf(h, messages, es, k)}
<1> SUFFICES ASSUME T # {} PROVE FALSE
  OBVIOUS
<1>1. T \in SUBSET Nat
  OBVIOUS
<1> HIDE DEF T
<1>2. PICK k \in T : \A m \in T : ~(m < k)
  BY <1>1, LeastNumber
<1>3. k \in Nat /\ ~ \E h : FoldOf(h, messages, es, k)
  BY <1>2 DEF T
<1>4. CASE k = 0
  <2> DEFINE h == [s \in {{}} |-> messages]
  <2>1. SUBSET (1..0) = {{}}
    OBVIOUS
  <2>2. h = [s \in SUBSET (1..0) |->
              IF s = {} THEN messages ELSE ApplyEvent(h[s \ {Top(s)}], es[Top(s)])]
    BY <2>1
  <2> QED BY <1>3, <1>4, <2>2 DEF FoldOf
<1>5. CASE k # 0
  <2>1. k - 1 \in Nat /\ k - 1 < k
    BY <1>3, <1>5
  <2>2. PICK f : FoldOf(f, messages, es, k - 1)
    BY <1>2, <2>1 DEF T
  <2> DEFINE Rest(h, s) == IF s = {} THEN messages ELSE ApplyEvent(h[s \ {Top(s)}], es[Top(s)])
             g == [s \in SUBSET (1..k) |-> Rest(f, s)]
  <2>3. \A s \in SUBSET (1..(k - 1)) : f[s] = Rest(f, s)
    BY <2>2 DEF FoldOf
  <2>4. SUBSET (1..(k - 1)) \subseteq SUBSET (1..k)
    BY <1>3
  <2>5. \A s \in SUBSET (1..(k - 1)) : g[s] = f[s]
    BY <2>3, <2>4
  <2>6. \A s \in SUBSET (1..k) : s # {} => s \ {Top(s)} \in SUBSET (1..(k - 1))
    <3> SUFFICES ASSUME NEW s \in SUBSET (1..k), s # {}, NEW x \in s, x # Top(s)
                 PROVE  x \in 1..(k - 1)
      OBVIOUS
    <3>1. \E y \in s : \A z \in s : y >= z
      <4> DEFINE U == {m \in Nat : \A z \in s : m >= z}
      <4>1. k \in U
        BY <1>3
      <4>2. U \in SUBSET Nat /\ U # {}
        BY <4>1
      <4>3. PICK m \in U : \A j \in U : ~(j < m)
        BY <4>2, LeastNumber
      <4>4. m \in Nat /\ \A z \in s : m >= z /\ z \in Nat /\ z >= 1
        BY <4>3
      <4>5. m \in s
        <5> SUFFICES ASSUME m \notin s PROVE FALSE
          OBVIOUS
        <5>1. m # 0
          BY <4>4
        <5>2. m - 1 \in Nat /\ m - 1 < m /\ \A z \in s : m - 1 >= z
          BY <4>4, <5>1
        <5> QED BY <4>3, <5>2
      <4> QED BY <4>4, <4>5
    <3>2. Top(s) \in s /\ \A z \in s : Top(s) >= z
      BY <3>1 DEF Top
    <3>3. x \in 1..k /\ Top(s) \in 1..k /\ Top(s) >= x
      BY <3>2
    <3> QED BY <1>3, <3>3
  <2>7. \A s \in SUBSET (1..k) : Rest(g, s) = Rest(f, s)
    BY <2>5, <2>6
  <2>8. FoldOf(g, messages, es, k)
    BY <2>7 DEF FoldOf
  <2> QED BY <1>3, <2>8
<1> QED BY <1>4, <1>5

\* A fold of the first n events is one of all of them.
LEMMA FoldsAgree ==
  ASSUME NEW messages, NEW es, NEW fs, NEW n \in Nat, NEW m \in Nat, NEW g, NEW h,
         FoldOf(g, messages, es, n), FoldOf(h, messages, fs, m), n <= m,
         \A i \in 1..n : es[i] = fs[i]
  PROVE  g[1..n] = h[1..n]
<1> DEFINE T == {k \in 0..n : g[1..k] # h[1..k]}
<1> SUFFICES ASSUME T # {} PROVE FALSE
  OBVIOUS
<1>1. T \in SUBSET Nat
  OBVIOUS
<1> HIDE DEF T
<1>2. PICK k \in T : \A j \in T : ~(j < k)
  BY <1>1, LeastNumber
<1>3. k \in 0..n /\ k \in Nat /\ g[1..k] # h[1..k]
  BY <1>2 DEF T
<1>4. 1..k \in SUBSET (1..n) /\ 1..k \in SUBSET (1..m)
  BY <1>3
<1>5. /\ g[1..k] = IF 1..k = {} THEN messages ELSE ApplyEvent(g[(1..k) \ {Top(1..k)}], es[Top(1..k)])
      /\ h[1..k] = IF 1..k = {} THEN messages ELSE ApplyEvent(h[(1..k) \ {Top(1..k)}], fs[Top(1..k)])
  BY <1>4 DEF FoldOf
<1>6. k # 0
  BY <1>3, <1>5
<1>7. Top(1..k) = k /\ (1..k) \ {Top(1..k)} = 1..(k - 1) /\ 1..k # {}
  BY <1>3, <1>6, TopIsLast
<1>8. g[1..(k - 1)] = h[1..(k - 1)]
  <2>1. k - 1 \in 0..n /\ k - 1 < k
    BY <1>3, <1>6
  <2> QED BY <1>2, <2>1 DEF T
<1>9. k \in 1..n /\ es[k] = fs[k]
  BY <1>3, <1>6
<1>10. g[1..k] = ApplyEvent(g[1..(k - 1)], es[k]) /\ h[1..k] = ApplyEvent(h[1..(k - 1)], fs[k])
  BY <1>5, <1>7
<1> QED BY <1>3, <1>8, <1>9, <1>10

LEMMA ApplyNone ==
  ASSUME NEW messages
  PROVE  ApplyEvents(messages, <<>>) = messages
<1> DEFINE h == CHOOSE h : FoldOf(h, messages, <<>>, 0)
<1>1. <<>> \in Seq({}) /\ Len(<<>>) = 0
  BY EmptySeq
<1>2. ApplyEvents(messages, <<>>) = h[1..0]
  BY <1>1, FoldIsChosen
<1>3. FoldOf(h, messages, <<>>, 0)
  BY FoldExists
<1> HIDE DEF h
<1>4. h[1..0] = messages
  BY <1>3 DEF FoldOf
<1> QED BY <1>2, <1>4

LEMMA ApplyMore ==
  ASSUME NEW messages, NEW S, NEW es \in Seq(S), NEW e \in S
  PROVE  ApplyEvents(messages, Append(es, e)) = ApplyEvent(ApplyEvents(messages, es), e)
<1> DEFINE n == Len(es)
           fs == Append(es, e)
           g == CHOOSE h : FoldOf(h, messages, es, n)
           h == CHOOSE h : FoldOf(h, messages, fs, n + 1)
<1>1. /\ fs \in Seq(S) /\ Len(fs) = n + 1 /\ n \in Nat /\ fs[n + 1] = e
      /\ \A i \in 1..n : es[i] = fs[i]
  BY AppendProperties, LenProperties
<1>2. ApplyEvents(messages, es) = g[1..n] /\ ApplyEvents(messages, fs) = h[1..(n + 1)]
  <2> HIDE DEF fs
  <2> QED BY <1>1, FoldIsChosen
<1>3. FoldOf(g, messages, es, n) /\ FoldOf(h, messages, fs, n + 1)
  <2> HIDE DEF fs, n
  <2>1. n + 1 \in Nat
    BY <1>1
  <2>2. (\E x : FoldOf(x, messages, es, n)) /\ \E x : FoldOf(x, messages, fs, n + 1)
    BY <1>1, <2>1, FoldExists
  <2> QED BY <2>2
<1> HIDE DEF g, h, fs, n
<1>4. g[1..n] = h[1..n]
  BY <1>1, <1>3, FoldsAgree
<1>5. Top(1..(n + 1)) = n + 1 /\ (1..(n + 1)) \ {Top(1..(n + 1))} = 1..n /\ 1..(n + 1) # {}
  BY <1>1, TopIsLast
<1>6. h[1..(n + 1)] = ApplyEvent(h[1..n], fs[n + 1])
  BY <1>3, <1>5 DEF FoldOf
<1> QED BY <1>1, <1>2, <1>4, <1>6 DEF fs

\* The events one by one.
LEMMA ApplyPrefix ==
  ASSUME NEW messages, NEW S, NEW es \in Seq(S)
  PROVE  /\ ApplyEvents(messages, SubSeq(es, 1, 0)) = messages
         /\ SubSeq(es, 1, Len(es)) = es
         /\ \A n \in 0..(Len(es) - 1) :
              ApplyEvents(messages, SubSeq(es, 1, n + 1)) =
                ApplyEvent(ApplyEvents(messages, SubSeq(es, 1, n)), es[n + 1])
<1>1. Len(es) \in Nat /\ DOMAIN es = 1..Len(es)
  BY LenProperties
<1>2. ApplyEvents(messages, SubSeq(es, 1, 0)) = messages
  <2>1. 1 \in Int /\ 0 \in Int /\ 0 < 1
    OBVIOUS
  <2>2. SubSeq(es, 1, 0) = <<>>
    BY <2>1, SubSeqEmpty
  <2> QED BY <2>2, ApplyNone
<1>3. ASSUME NEW n \in 0..(Len(es) - 1)
      PROVE  ApplyEvents(messages, SubSeq(es, 1, n + 1)) =
               ApplyEvent(ApplyEvents(messages, SubSeq(es, 1, n)), es[n + 1])
  <2>1. /\ 1 \in 1..Len(es) /\ n + 1 \in 1..Len(es) /\ (n + 1) - 1 = n /\ n \in Int
        /\ \A i \in 1..n : es[i] \in S
    BY <1>1, ElementOfSeq
  <2>2. SubSeq(es, 1, n) \in Seq(S) /\ es[n + 1] \in S
    BY <2>1, SubSeqProperties, ElementOfSeq
  <2>3. SubSeq(es, 1, n + 1) = SubSeq(es, 1, n) \o <<es[n + 1]>>
    BY <2>1, SubSeqRecursiveSecond
  <2>4. SubSeq(es, 1, n + 1) = Append(SubSeq(es, 1, n), es[n + 1])
    BY <2>2, <2>3, AppendIsConcat
  <2>5. ApplyEvents(messages, Append(SubSeq(es, 1, n), es[n + 1])) =
          ApplyEvent(ApplyEvents(messages, SubSeq(es, 1, n)), es[n + 1])
    BY <2>2, ApplyMore
  <2> QED BY <2>4, <2>5
<1> QED BY <1>2, <1>3, SubSeqFull

-----------------------------------------------------------------------------
(* One event *)

Distinct(s) == \A i, j \in DOMAIN s : i # j => s[i] # s[j]

LEMMA Places ==
  ASSUME NEW S, NEW s \in Seq(S)
  PROVE  /\ DOMAIN s = 1..Len(s) /\ Len(s) \in Nat
         /\ ToSet(s) \subseteq S /\ \A i \in 1..Len(s) : s[i] \in ToSet(s)
BY LenProperties, ElementOfSeq DEF ToSet

LEMMA AppendPlaces ==
  ASSUME NEW S, NEW s \in Seq(S), NEW x \in S
  PROVE  /\ Append(s, x) \in Seq(S) /\ Len(Append(s, x)) = Len(s) + 1
         /\ \A i \in 1..Len(s) : Append(s, x)[i] = s[i]
         /\ Append(s, x)[Len(s) + 1] = x
         /\ ToSet(Append(s, x)) = ToSet(s) \cup {x}
         /\ Distinct(s) /\ x \notin ToSet(s) => Distinct(Append(s, x))
<1>1. /\ Append(s, x) \in Seq(S) /\ Len(Append(s, x)) = Len(s) + 1
      /\ \A i \in 1..Len(s) : Append(s, x)[i] = s[i]
      /\ Append(s, x)[Len(s) + 1] = x
  BY AppendProperties
<1>2. DOMAIN s = 1..Len(s) /\ DOMAIN Append(s, x) = 1..Len(s) + 1 /\ Len(s) \in Nat
  BY <1>1, LenProperties
<1> QED BY <1>1, <1>2 DEF ToSet, Distinct

LEMMA NothingPlaces == ToSet(<<>>) = {} /\ Distinct(<<>>) /\ \A S : <<>> \in Seq(S)
BY EmptySeq DEF ToSet, Distinct

\* Where the first message with an id is.
Found(s, x) == SelectInSeq(s, LAMBDA m : m = x)

LEMMA FirstPlace ==
  ASSUME NEW S, NEW s \in Seq(S), NEW x
  PROVE  /\ x \notin ToSet(s) => Found(s, x) = 0
         /\ x \in ToSet(s) => Found(s, x) \in 1..Len(s) /\ s[Found(s, x)] = x
<1> DEFINE I == {i \in 1..Len(s) : s[i] = x}
<1>1. DOMAIN s = 1..Len(s)
  BY LenProperties
<1>2. Found(s, x) = IF I # {} THEN CHOOSE i \in I : \A j \in I : i =< j ELSE 0
  BY DEF Found, SelectInSeq, Min
<1>3. CASE I = {}
  BY <1>1, <1>2, <1>3 DEF ToSet
<1>4. CASE I # {}
  <2>1. I \in SUBSET Nat
    OBVIOUS
  <2>2. x \in ToSet(s)
    BY <1>1, <1>4 DEF ToSet
  <2>3. \A i \in I : i \in 1..Len(s) /\ s[i] = x
    OBVIOUS
  <2> HIDE DEF I
  <2>4. \E i \in I : \A j \in I : ~(j < i)
    BY <1>4, <2>1, LeastNumber
  <2>5. \E i \in I : \A j \in I : i =< j
    BY <2>1, <2>4
  <2>6. Found(s, x) \in I
    BY <1>2, <1>4, <2>5
  <2> QED BY <2>2, <2>3, <2>6
<1> QED BY <1>3, <1>4

LEMMA Removed ==
  ASSUME NEW S, NEW s \in Seq(S), NEW k \in 1..Len(s)
  PROVE  LET r == RemoveAt(s, k) IN
         /\ r \in Seq(S) /\ ToSet(r) \subseteq ToSet(s)
         /\ \A x \in ToSet(s) : x # s[k] => x \in ToSet(r)
         /\ Distinct(s) => Distinct(r) /\ s[k] \notin ToSet(r)
<1> DEFINE r == RemoveAt(s, k)
           u == SubSeq(s, 1, k - 1)
           v == SubSeq(s, k + 1, Len(s))
<1>1. DOMAIN s = 1..Len(s) /\ Len(s) \in Nat /\ \A i \in 1..Len(s) : s[i] \in S
  BY LenProperties, ElementOfSeq
<1>2. u \in Seq(S) /\ Len(u) = k - 1 /\ \A i \in 1..(k - 1) : u[i] = s[i]
  <2>1. 1 \in Int /\ k - 1 \in Int /\ \A i \in 1..(k - 1) : s[i] \in S
    BY <1>1
  <2>2. /\ u \in Seq(S) /\ Len(u) = IF 1 <= k - 1 THEN (k - 1) - 1 + 1 ELSE 0
        /\ \A i \in 1..((k - 1) - 1 + 1) : u[i] = s[1 + i - 1]
    BY <2>1, SubSeqProperties
  <2> HIDE DEF u
  <2> QED BY <1>1, <2>2
<1>3. v \in Seq(S) /\ Len(v) = Len(s) - k /\ \A i \in 1..(Len(s) - k) : v[i] = s[k + i]
  <2>1. k + 1 \in Int /\ Len(s) \in Int /\ \A i \in (k + 1)..Len(s) : s[i] \in S
    BY <1>1
  <2>2. /\ v \in Seq(S) /\ Len(v) = IF k + 1 <= Len(s) THEN Len(s) - (k + 1) + 1 ELSE 0
        /\ \A i \in 1..(Len(s) - (k + 1) + 1) : v[i] = s[(k + 1) + i - 1]
    BY <2>1, SubSeqProperties
  <2> HIDE DEF v
  <2>3. \A i \in 1..(Len(s) - k) : i \in 1..(Len(s) - (k + 1) + 1) /\ (k + 1) + i - 1 = k + i
    BY <1>1
  <2>4. \A i \in 1..(Len(s) - k) : v[i] = s[k + i]
    BY <2>2, <2>3
  <2>5. Len(v) = Len(s) - k
    <3>1. Len(v) = IF k + 1 <= Len(s) THEN Len(s) - (k + 1) + 1 ELSE 0
      BY <2>2
    <3>2. k \in Nat /\ k <= Len(s) /\ Len(s) \in Nat
      BY <1>1
    <3>3. CASE k + 1 <= Len(s)
      BY <3>1, <3>2, <3>3
    <3>4. CASE ~(k + 1 <= Len(s))
      BY <3>1, <3>2, <3>4
    <3> QED BY <3>3, <3>4
  <2> QED BY <2>2, <2>4, <2>5
<1>4. r = u \o v
  BY DEF RemoveAt
<1> HIDE DEF u, v, r
<1>5. /\ r \in Seq(S) /\ Len(r) = Len(s) - 1
      /\ \A i \in 1..(Len(s) - 1) : r[i] = IF i <= k - 1 THEN u[i] ELSE v[i - (k - 1)]
  <2>1. /\ r \in Seq(S) /\ Len(r) = Len(u) + Len(v)
        /\ \A i \in 1..(Len(u) + Len(v)) : r[i] = IF i <= Len(u) THEN u[i] ELSE v[i - Len(u)]
    BY <1>2, <1>3, <1>4, ConcatProperties
  <2>2. Len(u) + Len(v) = Len(s) - 1
    BY <1>1, <1>2, <1>3
  <2> QED BY <1>2, <2>1, <2>2
<1>6. DOMAIN r = 1..(Len(s) - 1)
  BY <1>5, LenProperties
<1>7. \A i \in DOMAIN r : /\ i < k => i \in DOMAIN s /\ r[i] = s[i]
                          /\ i >= k => i + 1 \in DOMAIN s /\ r[i] = s[i + 1]
  <2> TAKE i \in DOMAIN r
  <2>1. i < k => i \in 1..(k - 1) /\ i <= k - 1
    BY <1>1, <1>6
  <2>2. i >= k => i - (k - 1) \in 1..(Len(s) - k) /\ ~(i <= k - 1) /\ k + (i - (k - 1)) = i + 1
    BY <1>1, <1>6
  <2>3. i < k => i \in DOMAIN s /\ r[i] = s[i]
    BY <1>1, <1>2, <1>5, <1>6, <2>1
  <2>4. ASSUME i >= k PROVE i + 1 \in DOMAIN s /\ r[i] = s[i + 1]
    <3>1. r[i] = v[i - (k - 1)]
      BY <1>5, <1>6, <2>2, <2>4
    <3>2. v[i - (k - 1)] = s[i + 1]
      BY <1>3, <2>2, <2>4
    <3> QED BY <1>1, <1>6, <3>1, <3>2
  <2> QED BY <2>3, <2>4
<1>8. \A j \in DOMAIN s : j # k => \E i \in DOMAIN r : r[i] = s[j]
  <2> TAKE j \in DOMAIN s
  <2> HAVE j # k
  <2>1. CASE j < k
    <3>1. j \in DOMAIN r
      BY <1>1, <1>6, <2>1
    <3> QED BY <1>7, <2>1, <3>1
  <2>2. CASE j > k
    <3>1. j - 1 \in DOMAIN r /\ j - 1 >= k /\ (j - 1) + 1 = j
      BY <1>1, <1>6, <2>2
    <3> QED BY <1>7, <3>1
  <2> QED BY <1>1, <2>1, <2>2
<1>9. ToSet(r) \subseteq ToSet(s)
  BY <1>1, <1>6, <1>7 DEF ToSet
<1>10. \A x \in ToSet(s) : x # s[k] => x \in ToSet(r)
  BY <1>8 DEF ToSet
<1>11. ASSUME Distinct(s) PROVE Distinct(r) /\ s[k] \notin ToSet(r)
  <2> DEFINE at(i) == IF i < k THEN i ELSE i + 1
  <2>1. \A i \in DOMAIN r : at(i) \in DOMAIN s /\ r[i] = s[at(i)] /\ at(i) # k /\ i \in Nat
    BY <1>1, <1>6, <1>7
  <2>2. \A i, j \in DOMAIN r : i # j => at(i) # at(j)
    BY <1>1, <1>6
  <2> HIDE DEF at
  <2>3. Distinct(r)
    BY <1>11, <2>1, <2>2 DEF Distinct
  <2>4. s[k] \notin ToSet(r)
    BY <1>1, <1>11, <2>1 DEF Distinct, ToSet
  <2> QED BY <2>3, <2>4
<1> QED BY <1>5, <1>9, <1>10, <1>11 DEF r

LEMMA Replaced ==
  ASSUME NEW S, NEW s \in Seq(S), NEW k \in 1..Len(s), NEW x \in S
  PROVE  LET r == [s EXCEPT ![k] = x] IN
         /\ r \in Seq(S) /\ ToSet(r) \subseteq ToSet(s) \cup {x}
         /\ \A y \in ToSet(s) : y # s[k] \/ x = s[k] => y \in ToSet(r)
         /\ Distinct(s) /\ x \notin ToSet(s) \ {s[k]} =>
              Distinct(r) /\ (x # s[k] => s[k] \notin ToSet(r))
<1> DEFINE r == [s EXCEPT ![k] = x]
<1>1. DOMAIN s = 1..Len(s)
  BY LenProperties
<1>2. r \in Seq(S) /\ Len(r) = Len(s) /\ \A i \in 1..Len(s) : r[i] = IF i = k THEN x ELSE s[i]
  BY ExceptSeq
<1> HIDE DEF r
<1>3. DOMAIN r = 1..Len(s)
  BY <1>2, LenProperties
<1> QED BY <1>1, <1>2, <1>3 DEF ToSet, Distinct, r

-----------------------------------------------------------------------------
(* What an event leaves of a conversation *)

\* The event takes no message out of s.
Spares(e, s) ==
  /\ e.type # "truncate"
  /\ e.type = "remove" => e.target \notin ToSet(s)
  /\ e.type = "replace" => e.target = e.message \/ e.target \notin ToSet(s)

\* The messages the event brings.
Brings(e) == IF e.type \in {"append", "replace"} THEN {e.message} ELSE {}

LEMMA EventKinds ==
  ASSUME NEW e \in Events
  PROVE  /\ e.type \in {"append", "replace", "remove", "truncate"}
         /\ e.type \in {"append", "replace"} => e.message \in Messages
         /\ Brings(e) \subseteq Messages
BY DEF Events, Brings

LEMMA ApplyOne ==
  ASSUME NEW s \in Seq(Messages), NEW e \in Events
  PROVE  LET r == ApplyEvent(s, e) IN
         /\ r \in Seq(Messages) /\ ToSet(r) \subseteq ToSet(s) \cup Brings(e)
         /\ e.type = "truncate" => r = <<>>
         /\ e.type = "append" => r = Append(s, e.message)
         /\ Spares(e, s) => ToSet(s) \subseteq ToSet(r)
         /\ \A m \in ToSet(s) : Spares(e, <<m>>) => m \in ToSet(r)
         /\ e.type \in {"remove", "replace"} /\ e.target \notin ToSet(s) => r = s
         /\ Distinct(s) /\ Brings(e) \cap ToSet(s) \subseteq (IF e.type = "replace" THEN {e.target} ELSE {})
              => Distinct(r) /\ (e.type # "truncate" => Spares(e, r))
<1> DEFINE r == ApplyEvent(s, e)
<1>1. CASE e.type = "append"
  <2>1. r = Append(s, e.message) /\ e.message \in Messages /\ Brings(e) = {e.message}
    BY <1>1, EventKinds DEF ApplyEvent, Brings
  <2> HIDE DEF r
  <2> QED BY <1>1, <2>1, AppendPlaces DEF Spares, r
<1>2. CASE e.type = "truncate"
  <2>1. r = <<>>
    BY <1>2 DEF ApplyEvent
  <2> QED BY <1>2, <2>1, NothingPlaces DEF Spares
<1>3. ToSet(<<>>) = {} /\ \A m : ToSet(<<m>>) = {m}
  BY DEF ToSet
<1>4. CASE e.type = "remove"
  <2> DEFINE k == Found(s, e.target)
  <2>1. r = IF k = 0 THEN s ELSE RemoveAt(s, k)
    BY <1>4 DEF ApplyEvent, Found
  <2>2. /\ e.target \notin ToSet(s) => k = 0
        /\ e.target \in ToSet(s) => k \in 1..Len(s) /\ s[k] = e.target
    BY FirstPlace
  <2>3. Brings(e) = {}
    BY <1>4 DEF Brings
  <2> HIDE DEF k, r
  <2>4. CASE e.target \notin ToSet(s)
    BY <1>3, <1>4, <2>1, <2>2, <2>3, <2>4 DEF Spares, r
  <2>5. CASE e.target \in ToSet(s)
    <3>1. r = RemoveAt(s, k) /\ k \in 1..Len(s) /\ s[k] = e.target
      BY <2>1, <2>2, <2>5
    <3>2. /\ r \in Seq(Messages) /\ ToSet(r) \subseteq ToSet(s)
          /\ \A x \in ToSet(s) : x # e.target => x \in ToSet(r)
          /\ Distinct(s) => Distinct(r) /\ e.target \notin ToSet(r)
      BY <3>1, Removed
    <3> QED BY <1>3, <1>4, <2>3, <2>5, <3>2 DEF Spares, r
  <2> QED BY <2>4, <2>5
<1>5. CASE e.type = "replace"
  <2> DEFINE k == Found(s, e.target)
  <2>1. r = IF k = 0 THEN s ELSE [s EXCEPT ![k] = e.message]
    BY <1>5 DEF ApplyEvent, Found
  <2>2. /\ e.target \notin ToSet(s) => k = 0
        /\ e.target \in ToSet(s) => k \in 1..Len(s) /\ s[k] = e.target
    BY FirstPlace
  <2>3. Brings(e) = {e.message} /\ e.message \in Messages
    BY <1>5, EventKinds DEF Brings
  <2> HIDE DEF k, r
  <2>4. CASE e.target \notin ToSet(s)
    BY <1>3, <1>5, <2>1, <2>2, <2>3, <2>4 DEF Spares, r
  <2>5. CASE e.target \in ToSet(s)
    <3>1. r = [s EXCEPT ![k] = e.message] /\ k \in 1..Len(s) /\ s[k] = e.target
      BY <2>1, <2>2, <2>5
    <3>2. /\ r \in Seq(Messages) /\ ToSet(r) \subseteq ToSet(s) \cup {e.message}
          /\ \A y \in ToSet(s) : y # e.target \/ e.message = e.target => y \in ToSet(r)
          /\ Distinct(s) /\ e.message \notin ToSet(s) \ {e.target} =>
               Distinct(r) /\ (e.message # e.target => e.target \notin ToSet(r))
      <4> DEFINE x == e.message
                 q == [s EXCEPT ![k] = x]
      <4>1. k \in 1..Len(s) /\ x \in Messages /\ r = q
        BY <2>3, <3>1
      <4> HIDE DEF x
      <4>2. /\ q \in Seq(Messages) /\ ToSet(q) \subseteq ToSet(s) \cup {x}
            /\ \A y \in ToSet(s) : y # s[k] \/ x = s[k] => y \in ToSet(q)
            /\ Distinct(s) /\ x \notin ToSet(s) \ {s[k]} =>
                 Distinct(q) /\ (x # s[k] => s[k] \notin ToSet(q))
        BY <4>1, Replaced
      <4> HIDE DEF q
      <4> QED BY <3>1, <4>1, <4>2 DEF x
    <3> QED BY <1>3, <1>5, <2>3, <2>5, <3>2 DEF Spares, r
  <2> QED BY <2>4, <2>5
<1> QED BY <1>1, <1>2, <1>4, <1>5, EventKinds

-----------------------------------------------------------------------------
(* What all events leave of a conversation *)

Prefix(es, n) == SubSeq(es, 1, n)

LEMMA LoadedIsTyped ==
  ASSUME NEW b \in Seq(Messages), NEW es \in Seq(Events)
  PROVE  /\ ApplyEvents(b, es) \in Seq(Messages)
         /\ ToSet(ApplyEvents(b, es)) \subseteq ToSet(b) \cup UNION {Brings(e) : e \in ToSet(es)}
<1> DEFINE F(n) == ApplyEvents(b, Prefix(es, n))
           Good(n) == /\ F(n) \in Seq(Messages)
                      /\ ToSet(F(n)) \subseteq ToSet(b) \cup UNION {Brings(e) : e \in ToSet(es)}
           T == {n \in 0..Len(es) : ~Good(n)}
<1>1. /\ Len(es) \in Nat /\ F(0) = b /\ F(Len(es)) = ApplyEvents(b, es)
      /\ \A n \in 0..(Len(es) - 1) : F(n + 1) = ApplyEvent(F(n), es[n + 1])
  BY ApplyPrefix, LenProperties DEF Prefix
<1>2. \A n \in 1..Len(es) : es[n] \in Events /\ es[n] \in ToSet(es)
  BY Places
<1> HIDE DEF F
<1> SUFFICES ASSUME T # {} PROVE FALSE
  BY <1>1
<1>3. T \in SUBSET Nat
  BY <1>1
<1> HIDE DEF T
<1>4. PICK n \in T : \A m \in T : ~(m < n)
  BY <1>3, LeastNumber
<1>5. n \in 0..Len(es) /\ ~Good(n)
  BY <1>4 DEF T
<1>6. n # 0
  BY <1>1, <1>5
<1>7. n - 1 \in 0..(Len(es) - 1) /\ n - 1 \in 0..Len(es) /\ n - 1 < n /\ (n - 1) + 1 = n /\ n \in 1..Len(es)
  BY <1>1, <1>5, <1>6
<1>8. Good(n - 1)
  BY <1>4, <1>7 DEF T
<1>9. F(n) = ApplyEvent(F(n - 1), es[n])
  BY <1>1, <1>7
<1>10. F(n) \in Seq(Messages) /\ ToSet(F(n)) \subseteq ToSet(F(n - 1)) \cup Brings(es[n])
  BY <1>2, <1>7, <1>8, <1>9, ApplyOne
<1>11. Brings(es[n]) \subseteq UNION {Brings(e) : e \in ToSet(es)}
  BY <1>2, <1>7
<1> QED BY <1>5, <1>8, <1>10, <1>11

\* Only messages are added: those that were there keep their places.
LEMMA AppendsOnly ==
  ASSUME NEW b \in Seq(Messages), NEW es \in Seq(Events), \A e \in ToSet(es) : e.type = "append"
  PROVE  LET r == ApplyEvents(b, es) IN
         /\ Len(r) = Len(b) + Len(es)
         /\ \A i \in 1..Len(b) : r[i] = b[i]
<1> DEFINE F(n) == ApplyEvents(b, Prefix(es, n))
           Good(n) == /\ F(n) \in Seq(Messages) /\ Len(F(n)) = Len(b) + n
                      /\ \A i \in 1..Len(b) : F(n)[i] = b[i]
           T == {n \in 0..Len(es) : ~Good(n)}
<1>1. /\ Len(es) \in Nat /\ F(0) = b /\ F(Len(es)) = ApplyEvents(b, es)
      /\ \A n \in 0..(Len(es) - 1) : F(n + 1) = ApplyEvent(F(n), es[n + 1])
      /\ Len(b) \in Nat
  BY ApplyPrefix, LenProperties DEF Prefix
<1>2. \A n \in 1..Len(es) : es[n] \in Events /\ es[n] \in ToSet(es)
  BY Places
<1> HIDE DEF F
<1> SUFFICES ASSUME T # {} PROVE FALSE
  BY <1>1
<1>3. T \in SUBSET Nat
  BY <1>1
<1> HIDE DEF T
<1>4. PICK n \in T : \A m \in T : ~(m < n)
  BY <1>3, LeastNumber
<1>5. n \in 0..Len(es) /\ ~Good(n)
  BY <1>4 DEF T
<1>6. n # 0
  BY <1>1, <1>5
<1>7. n - 1 \in 0..(Len(es) - 1) /\ n - 1 \in 0..Len(es) /\ n - 1 < n /\ (n - 1) + 1 = n /\ n \in 1..Len(es)
  BY <1>1, <1>5, <1>6
<1>8. Good(n - 1)
  BY <1>4, <1>7 DEF T
<1>9. F(n) = ApplyEvent(F(n - 1), es[n])
  BY <1>1, <1>7
<1>10. F(n) = Append(F(n - 1), es[n].message) /\ es[n].message \in Messages
  BY <1>2, <1>7, <1>8, <1>9, ApplyOne, EventKinds
<1>11. /\ F(n) \in Seq(Messages) /\ Len(F(n)) = Len(F(n - 1)) + 1
       /\ \A i \in 1..Len(F(n - 1)) : F(n)[i] = F(n - 1)[i]
  BY <1>8, <1>10, AppendPlaces
<1>12. Len(F(n)) = Len(b) + n /\ \A i \in 1..Len(b) : i \in 1..Len(F(n - 1))
  BY <1>1, <1>7, <1>8, <1>11
<1> QED BY <1>5, <1>8, <1>11, <1>12

\* Events that are applied again to what they have made take nothing from it.
LEMMA AppliedAgain ==
  ASSUME NEW b \in Seq(Messages), NEW es \in Seq(Events), NEW s \in Seq(Messages),
         s = ApplyEvents(b, es),
         \A i \in DOMAIN es : es[i].type = "truncate" \/ Spares(es[i], s)
  PROVE  ToSet(s) \subseteq ToSet(ApplyEvents(s, es))
<1> DEFINE F(n) == ApplyEvents(b, Prefix(es, n))
           D(n) == ApplyEvents(s, Prefix(es, n))
           Good(n) == F(n) \in Seq(Messages) /\ D(n) \in Seq(Messages) /\ (D(n) = F(n) \/ ToSet(s) \subseteq ToSet(D(n)))
           T == {n \in 0..Len(es) : ~Good(n)}
<1>1. /\ Len(es) \in Nat /\ F(0) = b /\ F(Len(es)) = s
      /\ \A n \in 0..(Len(es) - 1) : F(n + 1) = ApplyEvent(F(n), es[n + 1])
      /\ D(0) = s /\ D(Len(es)) = ApplyEvents(s, es)
      /\ \A n \in 0..(Len(es) - 1) : D(n + 1) = ApplyEvent(D(n), es[n + 1])
  <2>1. /\ F(0) = b /\ F(Len(es)) = s
        /\ \A n \in 0..(Len(es) - 1) : F(n + 1) = ApplyEvent(F(n), es[n + 1])
    BY ApplyPrefix DEF Prefix
  <2>2. /\ D(0) = s /\ D(Len(es)) = ApplyEvents(s, es)
        /\ \A n \in 0..(Len(es) - 1) : D(n + 1) = ApplyEvent(D(n), es[n + 1])
    <3>1. /\ ApplyEvents(s, SubSeq(es, 1, 0)) = s /\ SubSeq(es, 1, Len(es)) = es
          /\ \A n \in 0..(Len(es) - 1) :
               ApplyEvents(s, SubSeq(es, 1, n + 1)) = ApplyEvent(ApplyEvents(s, SubSeq(es, 1, n)), es[n + 1])
      <4>1. ASSUME NEW x
            PROVE  /\ ApplyEvents(x, SubSeq(es, 1, 0)) = x /\ SubSeq(es, 1, Len(es)) = es
                   /\ \A n \in 0..(Len(es) - 1) :
                        ApplyEvents(x, SubSeq(es, 1, n + 1)) = ApplyEvent(ApplyEvents(x, SubSeq(es, 1, n)), es[n + 1])
        BY ApplyPrefix
      <4> QED BY <4>1
    <3> QED BY <3>1 DEF Prefix
  <2>3. Len(es) \in Nat
    BY LenProperties
  <2> HIDE DEF F, D
  <2> QED BY <2>1, <2>2, <2>3
<1>2. \A n \in 1..Len(es) : es[n] \in Events /\ (es[n].type = "truncate" \/ Spares(es[n], s))
  BY Places
<1> HIDE DEF F, D
<1> SUFFICES ASSUME T # {} PROVE FALSE
  BY <1>1
<1>3. T \in SUBSET Nat
  BY <1>1
<1> HIDE DEF T
<1>4. PICK n \in T : \A m \in T : ~(m < n)
  BY <1>3, LeastNumber
<1>5. n \in 0..Len(es) /\ ~Good(n)
  BY <1>4 DEF T
<1>6. n # 0
  BY <1>1, <1>5
<1>7. n - 1 \in 0..(Len(es) - 1) /\ n - 1 \in 0..Len(es) /\ n - 1 < n /\ (n - 1) + 1 = n /\ n \in 1..Len(es)
  BY <1>1, <1>5, <1>6
<1>8. Good(n - 1)
  BY <1>4, <1>7 DEF T
<1>9. F(n) = ApplyEvent(F(n - 1), es[n]) /\ D(n) = ApplyEvent(D(n - 1), es[n])
  BY <1>1, <1>7
<1>10. /\ F(n) \in Seq(Messages) /\ D(n) \in Seq(Messages)
       /\ es[n].type = "truncate" => F(n) = <<>> /\ D(n) = <<>>
       /\ \A m \in ToSet(D(n - 1)) : Spares(es[n], <<m>>) => m \in ToSet(D(n))
  BY <1>2, <1>7, <1>8, <1>9, ApplyOne
<1>11. CASE es[n].type = "truncate" \/ D(n - 1) = F(n - 1)
  BY <1>5, <1>9, <1>10, <1>11
<1>12. CASE es[n].type # "truncate" /\ ToSet(s) \subseteq ToSet(D(n - 1))
  <2>1. \A m \in ToSet(s) : Spares(es[n], <<m>>)
    <3>1. \A m : ToSet(<<m>>) = {m}
      BY DEF ToSet
    <3>2. Spares(es[n], s)
      BY <1>2, <1>7, <1>12
    <3> QED BY <3>1, <3>2 DEF Spares
  <2> QED BY <1>5, <1>10, <1>12, <2>1
<1> QED BY <1>8, <1>11, <1>12
-----------------------------------------------------------------------------
(* The conversation a load finds *)

FilesTyped ==
  /\ owner \in {"runner", "agent", "library"}
  /\ up \in BOOLEAN /\ folded \in BOOLEAN /\ twice \in BOOLEAN
  /\ base \in Seq(Messages) /\ stored \in Seq(Messages) /\ events \in Seq(Events)
  /\ call \in [at : {"idle", "append", "empty", "write", "rename", "clear"},
               new : Seq(Messages), delta : Seq(Messages)]

\* What the call under way will write is the conversation that is stored.
CallWrites ==
  /\ ~up => call = Idle
  /\ call.at = "append" => owner = "library" /\ base \o call.delta = stored
  /\ call.at \in {"append", "empty", "write", "rename"} =>
       /\ ~folded
       /\ owner = "library" => call.new = stored
       /\ ~twice => Distinct(call.new)
  /\ call.at = "rename" => temp = call.new
  /\ call.at = "clear" => base = stored

\* The base and the events: either they stand for the conversation together, or
\* the base alone does and the events are those that have made it.
FilesStand ==
  /\ owner # "library" => events = <<>>
  /\ folded => owner = "library"
  /\ call.at = "idle" /\ up => ~folded
  /\ ~folded => Loaded = stored
  /\ folded => base = stored /\ \E b \in Seq(Messages) : ApplyEvents(b, events) = stored

\* As long as no event has been applied twice, the events still in the file take
\* no message out of what they have made.
EventsSpare ==
  ~twice => /\ Distinct(stored)
            /\ \A i \in DOMAIN events : events[i].type = "truncate" \/ Spares(events[i], stored)

Files == FilesTyped /\ CallWrites /\ FilesStand /\ EventsSpare

LEMMA TargetsAreNamed ==
  ASSUME NEW i \in DOMAIN events, events \in Seq(Events)
  PROVE  /\ events[i].type \in {"remove", "replace"} => events[i].target \in Named
         /\ events[i].type \in {"append", "replace"} => events[i].message \in Named
         /\ events[i] \in Events
<1> DEFINE e == events[i]
<1>1. e \in Events /\ e \in ToSet(events)
  BY Places
<1> HIDE DEF e
<1>2. e.type \in {"remove", "replace"} => "target" \in DOMAIN e \ {"type"}
  BY <1>1 DEF Events
<1>3. e.type \in {"append", "replace"} => "message" \in DOMAIN e \ {"type"}
  BY <1>1 DEF Events
<1>4. \A f \in DOMAIN e \ {"type"} : e[f] \in Named
  BY <1>1 DEF Named
<1>5. e.type \in {"remove", "replace"} => e["target"] \in Named
  BY <1>2, <1>4
<1>6. e.type \in {"append", "replace"} => e["message"] \in Named
  BY <1>3, <1>4
<1> QED BY <1>1, <1>5, <1>6 DEF e

LEMMA LoadedIsNamed ==
  ASSUME base \in Seq(Messages), events \in Seq(Events)
  PROVE  Loaded \in Seq(Messages) /\ ToSet(Loaded) \subseteq Named
<1>1. Loaded \in Seq(Messages) /\ ToSet(Loaded) \subseteq ToSet(base) \cup UNION {Brings(e) : e \in ToSet(events)}
  BY LoadedIsTyped DEF Loaded
<1>2. \A e \in ToSet(events) : Brings(e) \subseteq Named
  <2> TAKE e \in ToSet(events)
  <2>1. PICK i \in DOMAIN events : events[i] = e
    BY DEF ToSet
  <2> QED BY <2>1, TargetsAreNamed DEF Brings
<1>3. ToSet(base) \subseteq Named
  BY DEF Named
<1> QED BY <1>1, <1>2, <1>3

LEMMA FilesInit == Init => Files
<1> SUFFICES ASSUME Init PROVE Files
  OBVIOUS
<1>1. Loaded = <<>>
  BY ApplyNone DEF Init, Loaded
<1>2. DOMAIN events = {}
  BY DEF Init
<1> QED BY <1>1, <1>2, NothingPlaces DEF Init, Files, FilesTyped, CallWrites, FilesStand, EventsSpare, Idle

LEMMA AppendEventKeepsFiles ==
  ASSUME Files, NEW e \in Events, AppendEvent(e)
  PROVE  Files'
<1>1. FilesTyped /\ up /\ owner = "library" /\ call = Idle /\ ~folded /\ Loaded = stored
  BY DEF Files, FilesStand, AppendEvent, Idle
<1>2. /\ events' = Append(events, e) /\ stored' = ApplyEvent(stored, e)
      /\ UNCHANGED <<owner, up, base, temp, call, folded, twice>>
  BY DEF AppendEvent
<1>3. /\ e.type = "append" => e.message \notin Named
      /\ e.type = "replace" => e.message \notin Named \ {e.target}
  BY DEF AppendEvent
<1>4. stored \in Seq(Messages) /\ events \in Seq(Events) /\ ToSet(stored) \subseteq Named
  BY <1>1, LoadedIsNamed DEF FilesTyped
<1>5. Loaded' = stored'
  BY <1>1, <1>2, <1>4, ApplyMore DEF Loaded
<1>6. events' \in Seq(Events) /\ Len(events') = Len(events) + 1 /\ Len(events) \in Nat
      /\ (\A i \in 1..Len(events) : events'[i] = events[i]) /\ events'[Len(events) + 1] = e
  BY <1>2, <1>4, AppendPlaces, LenProperties
<1>7. stored' \in Seq(Messages)
  BY <1>2, <1>4, ApplyOne
<1>8. FilesTyped' /\ CallWrites' /\ FilesStand'
  BY <1>1, <1>2, <1>5, <1>6, <1>7 DEF FilesTyped, CallWrites, FilesStand, Idle, Loaded, Files
<1>9. ASSUME ~twice
      PROVE  /\ Distinct(stored')
             /\ \A i \in DOMAIN events' : events'[i].type = "truncate" \/ Spares(events'[i], stored')
  <2>1. Distinct(stored) /\ \A i \in DOMAIN events : events[i].type = "truncate" \/ Spares(events[i], stored)
    BY <1>9 DEF Files, EventsSpare
  <2>2. Brings(e) \cap ToSet(stored) \subseteq (IF e.type = "replace" THEN {e.target} ELSE {})
    BY <1>3, <1>4 DEF Brings
  <2>3. Distinct(stored') /\ (e.type # "truncate" => Spares(e, stored'))
    BY <1>2, <1>4, <2>1, <2>2, ApplyOne
  <2>4. /\ ToSet(stored') \subseteq ToSet(stored) \cup Brings(e)
        /\ e.type \in {"remove", "replace"} /\ e.target \notin ToSet(stored) => stored' = stored
    BY <1>2, <1>4, ApplyOne
  <2>5. ASSUME NEW i \in DOMAIN events
        PROVE  events[i].type = "truncate" \/ Spares(events[i], stored')
    <3>1. events[i].type \in {"remove", "replace"} => events[i].target \in Named
      BY <1>4, TargetsAreNamed
    <3>2. CASE events[i].type = "truncate"
      BY <3>2
    <3>3. CASE Spares(events[i], stored)
      <4> SUFFICES ASSUME events[i].type \in {"remove", "replace"}, events[i].target \notin ToSet(stored),
                          events[i].target \in ToSet(stored')
                   PROVE  FALSE
        BY <3>3 DEF Spares
      <4>1. events[i].target \in Brings(e) /\ events[i].target \in Named
        BY <2>4, <3>1
      <4>2. e.type = "replace" /\ events[i].target = e.target
        BY <1>3, <4>1 DEF Brings
      <4> QED BY <2>4, <4>2
    <3> QED BY <2>1, <3>2, <3>3
  <2>6. DOMAIN events = 1..Len(events) /\ DOMAIN events' = 1..(Len(events) + 1)
    BY <1>4, <1>6, LenProperties
  <2> QED BY <1>6, <2>3, <2>5, <2>6
<1> QED BY <1>2, <1>8, <1>9 DEF Files, EventsSpare

\* The messages at the end are those the events have added.
LEMMA DeltaIsNew ==
  ASSUME NEW b \in Seq(Messages), NEW es \in Seq(Events), CanDeltaAppend(ApplyEvents(b, es), b, es)
  PROVE  LET r == ApplyEvents(b, es)
             delta == SubSeq(r, Len(r) - Len(es) + 1, Len(r))
         IN  delta \in Seq(Messages) /\ b \o delta = r
<1> DEFINE s == ApplyEvents(b, es)
<1>1. PICK r \in Seq(Messages) : r = s
  BY LoadedIsTyped
<1>2. \A e \in ToSet(es) : e.type = "append"
  BY DEF CanDeltaAppend
<1>3. Len(s) = Len(b) + Len(es) /\ \A i \in 1..Len(b) : s[i] = b[i]
  BY <1>2, AppendsOnly
<1> HIDE DEF s
<1>4. Len(r) = Len(b) + Len(es) /\ \A i \in 1..Len(b) : r[i] = b[i]
  BY <1>1, <1>3
<1>5. Len(b) \in Nat /\ Len(es) \in Nat /\ Len(r) \in Nat
  BY LenProperties
<1> DEFINE d == SubSeq(r, Len(b) + 1, Len(r))
           h == SubSeq(r, 1, Len(b))
<1>6. Len(r) - Len(es) + 1 = Len(b) + 1
  BY <1>4, <1>5
<1>7. 1 \in 1..(Len(r) + 1) /\ Len(b) \in 1 - 1 .. Len(r) /\ Len(r) \in Len(b)..Len(r)
  BY <1>4, <1>5
<1>8. h \o d = SubSeq(r, 1, Len(r))
  BY <1>7, ConcatAdjacentSubSeq
<1>9. SubSeq(r, 1, Len(r)) = r
  BY SubSeqFull
<1>10. \A i \in 1..Len(r) : r[i] \in Messages
  BY ElementOfSeq
<1>11. d \in Seq(Messages)
  <2>1. Len(b) + 1 \in Int /\ Len(r) \in Int /\ \A i \in (Len(b) + 1)..Len(r) : r[i] \in Messages
    BY <1>5, <1>10
  <2> QED BY <2>1, SubSeqProperties
<1>12. h = b
  <2>1. 1 \in Int /\ Len(b) \in Int /\ \A i \in 1..Len(b) : r[i] \in Messages
    BY <1>4, <1>5, <1>10
  <2>2. /\ h \in Seq(Messages) /\ Len(h) = (IF 1 <= Len(b) THEN Len(b) - 1 + 1 ELSE 0)
        /\ \A i \in 1..(Len(b) - 1 + 1) : h[i] = r[1 + i - 1]
    BY <2>1, SubSeqProperties
  <2> HIDE DEF h
  <2>3. Len(h) = Len(b) /\ \A i \in 1..Len(h) : h[i] = b[i]
    BY <1>4, <1>5, <2>2
  <2> QED BY <2>2, <2>3, SeqEqual
<1> HIDE DEF d, h
<1>13. d \in Seq(Messages) /\ b \o d = r
  BY <1>8, <1>9, <1>11, <1>12
<1> QED BY <1>1, <1>6, <1>13 DEF d, s

LEMMA StartFoldKeepsFiles ==
  ASSUME Files, StartFold
  PROVE  Files'
<1>1. /\ FilesTyped /\ up /\ owner = "library" /\ call = Idle /\ ~folded /\ Loaded = stored
      /\ ~twice => Distinct(stored)
  BY DEF Files, FilesStand, EventsSpare, StartFold, Idle
<1>2. UNCHANGED <<owner, up, base, temp, events, stored, folded, twice>>
  BY DEF StartFold
<1>3. base \in Seq(Messages) /\ events \in Seq(Events) /\ Loaded = ApplyEvents(base, events) /\ stored \in Seq(Messages)
  BY <1>1 DEF FilesTyped, Loaded
<1>4. CASE CanDeltaAppend(Loaded, base, events)
  <2>1. PICK d : d = SubSeq(Loaded, Len(Loaded) - Len(events) + 1, Len(Loaded))
    OBVIOUS
  <2>2. call' = [at |-> "append", new |-> Loaded, delta |-> d]
    BY <1>4, <2>1 DEF StartFold
  <2>3. d \in Seq(Messages) /\ base \o d = Loaded
    BY <1>3, <1>4, <2>1, DeltaIsNew
  <2>4. FilesTyped' /\ CallWrites'
    BY <1>1, <1>2, <1>3, <2>2, <2>3 DEF FilesTyped, CallWrites
  <2> QED BY <1>1, <1>2, <2>2, <2>4 DEF Files, FilesStand, EventsSpare, Loaded
<1>5. CASE ~CanDeltaAppend(Loaded, base, events)
  <2>1. call' = [at |-> "empty", new |-> Loaded, delta |-> <<>>]
    BY <1>5 DEF StartFold
  <2>2. FilesTyped' /\ CallWrites'
    BY <1>1, <1>2, <1>3, <2>1, NothingPlaces DEF FilesTyped, CallWrites
  <2> QED BY <1>1, <1>2, <2>1, <2>2 DEF Files, FilesStand, EventsSpare, Loaded
<1> QED BY <1>4, <1>5

LEMMA PersistKeepsFiles ==
  ASSUME Files, NEW new \in Conversations, Persist(new)
  PROVE  Files'
<1>1. /\ FilesTyped /\ up /\ owner # "library" /\ call = Idle /\ ~folded
  BY DEF Files, FilesStand, Persist, Idle
<1>2. /\ UNCHANGED <<owner, up, base, temp, events, stored, folded, twice>>
      /\ call' = [at |-> "empty", new |-> new, delta |-> <<>>]
  BY DEF Persist
<1>3. new \in Seq(Messages) /\ Distinct(new)
  <2>1. Cardinality(Messages) \in Nat
    BY ValuesAssumption, FS_CardinalityType
  <2>2. PICK n \in 0..Cardinality(Messages) : new \in [1..n -> Messages] /\ IsInjective(new)
    BY DEF Conversations
  <2>3. n \in Nat
    BY <2>1
  <2> QED BY <2>2, <2>3, SeqDef DEF Distinct, IsInjective
<1>4. FilesTyped' /\ CallWrites'
  BY <1>1, <1>2, <1>3, NothingPlaces DEF FilesTyped, CallWrites
<1> QED BY <1>1, <1>2, <1>4 DEF Files, FilesStand, EventsSpare, Loaded

\* The steps of a call: the events that made the base stay in their file until
\* the base holds what they say.
LEMMA WritesKeepFiles ==
  ASSUME Files, DeltaAppend \/ EmptyTemp \/ WriteTemp \/ Rename \/ ClearEvents
  PROVE  Files'
<1> USE DEF Files
<1>1. CASE DeltaAppend
  <2>1. /\ base' = base \o call.delta /\ folded' = TRUE /\ call' = [call EXCEPT !.at = "clear"]
        /\ UNCHANGED <<owner, up, temp, events, stored, twice>> /\ call.at = "append"
    BY <1>1 DEF DeltaAppend
  <2>2. /\ owner = "library" /\ base \o call.delta = stored /\ ~folded /\ up
    BY <2>1 DEF CallWrites, Idle
  <2>3. base' = stored /\ ApplyEvents(base, events) = stored /\ base \in Seq(Messages)
    BY <2>1, <2>2 DEF FilesStand, FilesTyped, Loaded
  <2>4. FilesTyped' /\ CallWrites'
    BY <2>1, <2>2, <2>3 DEF FilesTyped, CallWrites
  <2>5. FilesStand'
    BY <2>1, <2>2, <2>3 DEF FilesStand, FilesTyped
  <2> QED BY <2>1, <2>4, <2>5 DEF EventsSpare
<1>2. CASE EmptyTemp
  BY <1>2 DEF EmptyTemp, FilesTyped, CallWrites, FilesStand, EventsSpare, Loaded, Idle
<1>3. CASE WriteTemp
  BY <1>3 DEF WriteTemp, FilesTyped, CallWrites, FilesStand, EventsSpare, Loaded, Idle
<1>4. CASE Rename
  <2>1. /\ call.at = "rename" /\ base' = temp /\ stored' = call.new /\ folded' = (owner = "library")
        /\ call' = (IF owner = "agent" THEN Idle ELSE [call EXCEPT !.at = "clear"])
        /\ UNCHANGED <<owner, up, events, twice>>
    BY <1>4 DEF Rename
  <2>2. /\ base' = call.new /\ ~folded /\ up /\ (owner = "library" => call.new = stored)
        /\ ~twice => Distinct(call.new)
    BY <2>1 DEF CallWrites, Idle
  <2>3. /\ call.new \in Seq(Messages) /\ base \in Seq(Messages) /\ Loaded = stored
        /\ owner \in {"runner", "agent", "library"} /\ call' = [call' EXCEPT !.at = call'.at]
    BY <2>1, <2>2, NothingPlaces DEF FilesTyped, FilesStand, Idle
  <2>4. FilesTyped'
    BY <2>1, <2>2, <2>3, NothingPlaces DEF FilesTyped, Idle
  <2>5. CallWrites'
    BY <2>1, <2>2, <2>3, <2>4 DEF CallWrites, Idle, FilesTyped
  <2>6. CASE owner = "library"
    <3>1. folded' /\ stored' = stored /\ ApplyEvents(base, events') = stored'
      BY <2>1, <2>2, <2>3, <2>6 DEF Loaded
    <3> QED BY <2>1, <2>2, <2>3, <2>4, <2>5, <2>6, <3>1 DEF FilesStand, EventsSpare, FilesTyped
  <2>7. CASE owner # "library"
    <3>1. ~folded' /\ events = <<>> /\ events' = <<>>
      BY <2>1, <2>7 DEF FilesStand
    <3>2. Loaded' = stored'
      BY <2>1, <2>2, <3>1, ApplyNone DEF Loaded
    <3>3. EventsSpare'
      BY <2>1, <2>2, <3>1 DEF EventsSpare
    <3> QED BY <2>1, <2>4, <2>5, <2>7, <3>1, <3>2, <3>3 DEF FilesStand
  <2> QED BY <2>6, <2>7
<1>5. CASE ClearEvents
  <2>1. /\ call.at = "clear" /\ events' = <<>> /\ folded' = FALSE /\ call' = Idle
        /\ UNCHANGED <<owner, up, base, temp, stored, twice>>
    BY <1>5 DEF ClearEvents
  <2>2. base = stored
    BY <2>1 DEF CallWrites
  <2>3. Loaded' = stored'
    BY <2>1, <2>2, ApplyNone DEF Loaded
  <2>4. FilesTyped' /\ CallWrites' /\ FilesStand'
    BY <2>1, <2>3, NothingPlaces DEF FilesTyped, CallWrites, FilesStand, Idle
  <2> QED BY <2>1, <2>4 DEF EventsSpare
<1> QED BY <1>1, <1>2, <1>3, <1>4, <1>5

LEMMA ProcessKeepsFiles ==
  ASSUME Files, Kill \/ Start
  PROVE  Files'
<1> USE DEF Files
<1>1. CASE Kill
  <2>1. /\ up' = FALSE /\ call' = Idle /\ UNCHANGED <<owner, base, temp, events, stored, folded, twice>>
    BY <1>1 DEF Kill
  <2> QED BY <2>1, NothingPlaces DEF FilesTyped, CallWrites, FilesStand, EventsSpare, Loaded, Idle
<1>2. CASE Start
  <2>1. /\ up' = TRUE /\ stored' = Loaded /\ folded' = FALSE /\ twice' = (twice \/ folded)
        /\ UNCHANGED <<owner, base, temp, events, call>> /\ ~up
    BY <1>2 DEF Start
  <2>2. Loaded' = stored' /\ Loaded \in Seq(Messages)
    BY <2>1, LoadedIsNamed DEF Loaded, FilesTyped
  <2>3. call = Idle
    BY <2>1 DEF CallWrites
  <2>4. FilesTyped' /\ CallWrites' /\ FilesStand'
    BY <2>1, <2>2, <2>3 DEF FilesTyped, CallWrites, FilesStand, Idle
  <2>5. ~twice' => stored' = stored /\ ~twice
    BY <2>1 DEF FilesStand, FilesTyped
  <2> QED BY <2>1, <2>4, <2>5 DEF EventsSpare
<1> QED BY <1>1, <1>2

LEMMA StatesKeepFiles ==
  ASSUME Files, UNCHANGED <<owner, up, conversation>>
  PROVE  Files'
BY DEF Files, FilesTyped, CallWrites, FilesStand, EventsSpare, Loaded, conversation

LEMMA FilesStep == Files /\ [Next]_vars => Files'
<1> SUFFICES ASSUME Files, [Next]_vars PROVE Files'
  OBVIOUS
<1>1. CASE \E e \in Events : AppendEvent(e)
  BY <1>1, AppendEventKeepsFiles
<1>2. CASE StartFold
  BY <1>2, StartFoldKeepsFiles
<1>3. CASE \E new \in Conversations : Persist(new)
  BY <1>3, PersistKeepsFiles
<1>4. CASE DeltaAppend \/ EmptyTemp \/ WriteTemp \/ Rename \/ ClearEvents
  BY <1>4, WritesKeepFiles
<1>5. CASE Kill \/ Start
  BY <1>5, ProcessKeepsFiles
<1>6. CASE \E x \in Extensions, v \in Objects \cup {Text} : SetState(x, v)
  BY <1>6, StatesKeepFiles DEF SetState
<1>7. CASE TakeDirty \/ Refuse \/ EmptyState \/ WriteState \/ FinishSave
  BY <1>7, StatesKeepFiles DEF TakeDirty, Refuse, EmptyState, WriteState, FinishSave
<1>8. CASE UNCHANGED vars
  BY <1>8, StatesKeepFiles DEF vars
<1> QED BY <1>1, <1>2, <1>3, <1>4, <1>5, <1>6, <1>7, <1>8 DEF Next

LEMMA FilesAlways == Spec => []Files
BY FilesInit, FilesStep, PTL DEF Spec

LEMMA FilesFind == Files => RestartFindsConversation
<1> SUFFICES ASSUME Files PROVE RestartFindsConversation
  OBVIOUS
<1>1. CASE ~folded
  BY <1>1 DEF Files, FilesStand, RestartFindsConversation
<1>2. CASE folded /\ ~twice
  <2>1. PICK b \in Seq(Messages) : ApplyEvents(b, events) = stored
    BY <1>2 DEF Files, FilesStand
  <2>2. /\ base = stored /\ events \in Seq(Events) /\ stored \in Seq(Messages)
        /\ \A i \in DOMAIN events : events[i].type = "truncate" \/ Spares(events[i], stored)
    BY <1>2 DEF Files, FilesStand, FilesTyped, EventsSpare
  <2>3. ToSet(stored) \subseteq ToSet(ApplyEvents(stored, events))
    BY <2>1, <2>2, AppliedAgain
  <2> QED BY <1>2, <2>2, <2>3 DEF RestartFindsConversation, Loaded
<1> QED BY <1>1, <1>2 DEF RestartFindsConversation

\* Wherever the process is killed between two writes of a fold or of a turn's
\* conversation, the next load finds what its owner was told is stored; between
\* the write of the base and the clearing of the events no message is missing
\* the first time: writeBaseMessages and foldEventsToBase of storage.ts.
THEOREM RestartsFindConversations == Spec => []RestartFindsConversation
BY FilesAlways, FilesFind, PTL

-----------------------------------------------------------------------------
(* The states of the extensions *)

SavesTyped ==
  /\ up \in BOOLEAN
  /\ stateFile \in [Extensions -> Objects \cup {None, Cut}]
  /\ states \in [Extensions -> Objects \cup {Text, None}]
  /\ dirty \in Seq(Extensions)
  /\ save \in [at : {"none", "next", "empty", "write"}, value : Objects \cup {None}, index : Nat]

\* A name that saveAll has taken and nobody has set since is on disk, or about
\* to be, if it is the one that is being written.
TakenIsSaved ==
  \A i \in 1..save.index : dirty[i] \notin overtaken =>
    IF i = save.index /\ save.at \in {"empty", "write"} THEN states[dirty[i]] = save.value
    ELSE states[dirty[i]] = Readable(stateFile[dirty[i]])

SaveWalks ==
  /\ Distinct(dirty) /\ save.index <= Len(dirty)
  /\ save.at = "none" => save = Unsaved
  /\ ~up => save = Unsaved /\ dirty = <<>>
  /\ save.at \in {"empty", "write"} => save.index > 0

Saves == SavesTyped /\ SaveWalks /\ TakenIsSaved /\ UnsavedIsDirty

LEMMA SavesInit == Init => Saves
<1> SUFFICES ASSUME Init PROVE Saves
  OBVIOUS
<1>1. /\ up = TRUE /\ dirty = <<>> /\ save = Unsaved /\ states = stateFile
      /\ stateFile = [x \in Extensions |-> None] /\ overtaken = {}
  BY DEF Init
<1>2. SavesTyped /\ SaveWalks
  BY <1>1, NothingPlaces, EmptySeq DEF SavesTyped, SaveWalks, Unsaved
<1>3. TakenIsSaved
  BY <1>1 DEF TakenIsSaved, Unsaved
<1>4. UnsavedIsDirty
  BY <1>1, ValuesAssumption DEF UnsavedIsDirty, Readable
<1> QED BY <1>2, <1>3, <1>4 DEF Saves

LEMMA SetStateKeepsSaves ==
  ASSUME Saves, NEW x \in Extensions, NEW v \in Objects \cup {Text}, SetState(x, v)
  PROVE  Saves'
<1>1. /\ states' = [states EXCEPT ![x] = v]
      /\ dirty' = (IF x \in ToSet(dirty) THEN dirty ELSE Append(dirty, x))
      /\ overtaken' = (IF save # Unsaved /\ x \in ToSet(SubSeq(dirty, 1, save.index))
                       THEN overtaken \cup {x} ELSE overtaken \ {x})
      /\ up /\ UNCHANGED <<up, stateFile, save>>
  BY DEF SetState
<1>2. SavesTyped /\ SaveWalks /\ TakenIsSaved /\ UnsavedIsDirty
  BY DEF Saves
<1>3. /\ dirty \in Seq(Extensions) /\ save.index \in Nat /\ save.index <= Len(dirty)
      /\ Len(dirty) \in Nat /\ DOMAIN dirty = 1..Len(dirty)
      /\ \A i \in 1..Len(dirty) : dirty[i] \in Extensions
  BY <1>2, Places, ElementOfSeq DEF SavesTyped, SaveWalks
<1>4. /\ dirty' \in Seq(Extensions) /\ Len(dirty') >= Len(dirty) /\ Len(dirty') \in Nat /\ Distinct(dirty')
      /\ ToSet(dirty') = ToSet(dirty) \cup {x}
      /\ \A i \in 1..Len(dirty) : dirty'[i] = dirty[i]
  <2>1. CASE x \in ToSet(dirty)
    BY <1>1, <1>2, <1>3, <2>1 DEF SaveWalks
  <2>2. CASE x \notin ToSet(dirty)
    <3>1. dirty' = Append(dirty, x)
      BY <1>1, <2>2
    <3> QED BY <1>2, <1>3, <2>2, <3>1, AppendPlaces DEF SaveWalks
  <2> QED BY <2>1, <2>2
<1>5. SavesTyped' /\ SaveWalks'
  BY <1>1, <1>2, <1>3, <1>4 DEF SavesTyped, SaveWalks
<1>6. \A i \in 1..save.index : i \in 1..Len(dirty) /\ dirty'[i] = dirty[i] /\ dirty[i] \in Extensions
  BY <1>3, <1>4
<1>7. \A i \in 1..save.index : dirty[i] = x => x \in overtaken'
  <2> TAKE i \in 1..save.index
  <2> HAVE dirty[i] = x
  <2>1. save # Unsaved
    BY DEF Unsaved
  <2>2. x \in ToSet(SubSeq(dirty, 1, save.index))
    <3>1. 1 \in Int /\ save.index \in Int /\ \A j \in 1..save.index : dirty[j] \in Extensions
      BY <1>3, <1>6
    <3> DEFINE u == SubSeq(dirty, 1, save.index)
    <3>2. /\ u \in Seq(Extensions) /\ Len(u) = (IF 1 <= save.index THEN save.index - 1 + 1 ELSE 0)
          /\ \A j \in 1..(save.index - 1 + 1) : u[j] = dirty[1 + j - 1]
      BY <3>1, SubSeqProperties
    <3> HIDE DEF u
    <3>3. i \in 1..Len(u) /\ u[i] = dirty[i]
      BY <1>3, <3>2
    <3>4. u[i] \in ToSet(u)
      BY <3>2, <3>3, Places
    <3> QED BY <3>3, <3>4 DEF u
  <2> QED BY <1>1, <2>1, <2>2
<1>8. TakenIsSaved'
  <2> SUFFICES ASSUME NEW i \in 1..save.index, dirty'[i] \notin overtaken'
               PROVE  IF i = save.index /\ save.at \in {"empty", "write"} THEN states'[dirty'[i]] = save.value
                      ELSE states'[dirty'[i]] = Readable(stateFile[dirty'[i]])
    BY <1>1 DEF TakenIsSaved, Readable
  <2>1. dirty'[i] = dirty[i] /\ dirty[i] \in Extensions /\ dirty[i] # x /\ dirty[i] \notin overtaken
    BY <1>1, <1>6, <1>7
  <2>2. states'[dirty[i]] = states[dirty[i]]
    BY <1>1, <1>2, <2>1 DEF SavesTyped
  <2> QED BY <1>2, <2>1, <2>2 DEF TakenIsSaved
<1>9. UnsavedIsDirty'
  BY <1>1, <1>2, <1>4 DEF UnsavedIsDirty, SavesTyped, Readable
<1> QED BY <1>5, <1>8, <1>9 DEF Saves

LEMMA TakeDirtyKeepsSaves ==
  ASSUME Saves, TakeDirty
  PROVE  Saves'
<1> DEFINE n == save.index + 1
           x == dirty[n]
<1>1. /\ up /\ save.at \in {"none", "next"} /\ save.index < Len(dirty) /\ states[x] # Text
      /\ save' = [at |-> IF Readable(stateFile[x]) = states[x] THEN "next" ELSE "empty",
                  value |-> states[x], index |-> n]
      /\ UNCHANGED <<up, stateFile, states, dirty, overtaken>>
  BY DEF TakeDirty, CanTake
<1>2. SavesTyped /\ SaveWalks /\ TakenIsSaved /\ UnsavedIsDirty
  BY DEF Saves
<1>3. save.index \in Nat /\ Len(dirty) \in Nat /\ dirty \in Seq(Extensions)
  BY <1>2, LenProperties DEF SavesTyped
<1>4. n \in 1..Len(dirty) /\ n \in Nat
  BY <1>1, <1>3
<1>5. x \in Extensions
  BY <1>3, <1>4, ElementOfSeq
<1> HIDE DEF x, n
<1>6. states[x] \in Objects \cup {None}
  BY <1>1, <1>2, <1>5 DEF SavesTyped
<1>7. /\ save'.index = n /\ save'.value = states[x]
      /\ save'.at = (IF Readable(stateFile[x]) = states[x] THEN "next" ELSE "empty")
      /\ save' \in [at : {"none", "next", "empty", "write"}, value : Objects \cup {None}, index : Nat]
  BY <1>1, <1>4, <1>6
<1>8. SavesTyped'
  BY <1>1, <1>2, <1>7 DEF SavesTyped
<1>9. SaveWalks'
  BY <1>1, <1>2, <1>4, <1>7 DEF SaveWalks
<1>10. TakenIsSaved'
  <2> SUFFICES ASSUME NEW i \in 1..n, dirty[i] \notin overtaken
               PROVE  IF i = n /\ save'.at \in {"empty", "write"} THEN states[dirty[i]] = save'.value
                      ELSE states[dirty[i]] = Readable(stateFile[dirty[i]])
    BY <1>1, <1>7 DEF TakenIsSaved, Readable
  <2>1. CASE i = n
    BY <1>7, <2>1 DEF x
  <2>2. CASE i # n
    <3>1. i \in 1..save.index
      BY <1>3, <2>2 DEF n
    <3> QED BY <1>1, <1>2, <2>2, <3>1 DEF TakenIsSaved
  <2> QED BY <2>1, <2>2
<1>11. UnsavedIsDirty'
  BY <1>1, <1>2 DEF UnsavedIsDirty, Readable
<1> QED BY <1>8, <1>9, <1>10, <1>11 DEF Saves

\* The file of the name that was taken last; the others of the names taken are
\* other names.
LEMMA WriteStateKeepsSaves ==
  ASSUME Saves, EmptyState \/ WriteState
  PROVE  Saves'
<1> DEFINE x == dirty[save.index]
<1>1. SavesTyped /\ SaveWalks /\ TakenIsSaved /\ UnsavedIsDirty
  BY DEF Saves
<1>2. /\ save.at \in {"empty", "write"} /\ UNCHANGED <<up, states, dirty, overtaken>>
      /\ save'.index = save.index /\ save'.value = save.value
      /\ save' \in [at : {"none", "next", "empty", "write"}, value : Objects \cup {None}, index : Nat]
      /\ \/ save.at = "empty" /\ stateFile' = [stateFile EXCEPT ![x] = Cut] /\ save'.at = "write"
         \/ save.at = "write" /\ stateFile' = [stateFile EXCEPT ![x] = save.value] /\ save'.at = "next"
  BY <1>1 DEF EmptyState, WriteState, SavesTyped
<1>3. save.index \in 1..Len(dirty) /\ dirty \in Seq(Extensions) /\ Len(dirty) \in Nat /\ DOMAIN dirty = 1..Len(dirty)
  BY <1>1, <1>2, LenProperties DEF SavesTyped, SaveWalks
<1>4. x \in Extensions /\ x \in ToSet(dirty)
  BY <1>3, ElementOfSeq, Places
<1>5. \A i \in 1..save.index : i # save.index => dirty[i] # x /\ dirty[i] \in Extensions
  BY <1>1, <1>3, ElementOfSeq DEF SaveWalks, Distinct
<1>6. save.value \in Objects \cup {None} /\ save.value # Cut
  BY <1>1, ValuesAssumption DEF SavesTyped
<1> HIDE DEF x
<1>7. \A y \in Extensions : y # x => stateFile'[y] = stateFile[y]
  BY <1>1, <1>2 DEF SavesTyped
<1>8. SavesTyped'
  BY <1>1, <1>2, <1>6 DEF SavesTyped
<1>9. SaveWalks'
  BY <1>1, <1>2, <1>3 DEF SaveWalks
<1>10. TakenIsSaved'
  <2> SUFFICES ASSUME NEW i \in 1..save.index, dirty[i] \notin overtaken
               PROVE  IF i = save.index /\ save'.at \in {"empty", "write"} THEN states[dirty[i]] = save.value
                      ELSE states[dirty[i]] = Readable(stateFile'[dirty[i]])
    BY <1>2 DEF TakenIsSaved, Readable
  <2>1. CASE i = save.index
    <3>1. states[x] = save.value /\ dirty[i] = x
      BY <1>1, <1>2, <2>1 DEF TakenIsSaved, x
    <3>2. save.at = "write" => stateFile'[x] = save.value
      BY <1>1, <1>2, <1>4 DEF SavesTyped
    <3> QED BY <1>2, <1>6, <2>1, <3>1, <3>2 DEF Readable
  <2>2. CASE i # save.index
    <3>1. states[dirty[i]] = Readable(stateFile[dirty[i]]) /\ stateFile'[dirty[i]] = stateFile[dirty[i]]
      BY <1>1, <1>5, <1>7, <2>2 DEF TakenIsSaved
    <3> QED BY <2>2, <3>1
  <2> QED BY <2>1, <2>2
<1>11. UnsavedIsDirty'
  <2> SUFFICES ASSUME up, NEW y \in Extensions \ overtaken, states[y] # Readable(stateFile'[y])
               PROVE  y \in ToSet(dirty)
    BY <1>2 DEF UnsavedIsDirty, Readable
  <2> QED BY <1>1, <1>4, <1>7 DEF UnsavedIsDirty
<1> QED BY <1>8, <1>9, <1>10, <1>11 DEF Saves

LEMMA SaveEndKeepsSaves ==
  ASSUME Saves, Refuse \/ FinishSave
  PROVE  Saves'
<1>1. SavesTyped /\ SaveWalks /\ TakenIsSaved /\ UnsavedIsDirty
  BY DEF Saves
<1>2. UNCHANGED <<up, stateFile, states, overtaken>> /\ save' = Unsaved /\ up
      /\ dirty' \in {dirty, <<>>}
  <2>1. CASE Refuse
    <3>1. up /\ UNCHANGED <<up, stateFile, states, overtaken>> /\ save' = Unsaved /\ dirty' = dirty
      BY <2>1 DEF Refuse, CanTake
    <3> QED BY <3>1
  <2>2. CASE FinishSave
    <3>1. up
      BY <1>1, <2>2 DEF FinishSave, SaveWalks, Unsaved, SavesTyped
    <3>2. UNCHANGED <<up, stateFile, states, overtaken>> /\ save' = Unsaved /\ dirty' = <<>>
      BY <2>2 DEF FinishSave
    <3> QED BY <2>2, <3>1, <3>2
  <2> QED BY <2>1, <2>2
<1>3. save'.index = 0 /\ save'.at = "none" /\ save'.value = None
  BY <1>2 DEF Unsaved
<1>4. dirty' \in Seq(Extensions) /\ Distinct(dirty') /\ Len(dirty') \in Nat
  BY <1>1, <1>2, NothingPlaces, LenProperties DEF SavesTyped, SaveWalks
<1>5. SavesTyped' /\ SaveWalks'
  BY <1>1, <1>2, <1>3, <1>4 DEF SavesTyped, SaveWalks, Unsaved
<1>6. TakenIsSaved'
  BY <1>3 DEF TakenIsSaved
<1>7. CASE Refuse
  <2>1. dirty' = dirty
    BY <1>7 DEF Refuse
  <2>2. UnsavedIsDirty'
    BY <1>1, <1>2, <2>1 DEF UnsavedIsDirty, Readable
  <2> QED BY <1>5, <1>6, <2>2 DEF Saves
<1>8. CASE FinishSave
  <2>1. save.at = "next" /\ save.index = Len(dirty)
    BY <1>8 DEF FinishSave
  <2>2. DOMAIN dirty = 1..Len(dirty)
    BY <1>1, LenProperties DEF SavesTyped
  <2>3. \A y \in ToSet(dirty) \ overtaken : states[y] = Readable(stateFile[y])
    BY <1>1, <2>1, <2>2 DEF ToSet, TakenIsSaved
  <2>4. UnsavedIsDirty'
    BY <1>1, <1>2, <2>3 DEF UnsavedIsDirty, Readable
  <2> QED BY <1>5, <1>6, <2>4 DEF Saves
<1> QED BY <1>7, <1>8

LEMMA ProcessKeepsSaves ==
  ASSUME Saves, Kill \/ Start
  PROVE  Saves'
<1>1. SavesTyped /\ SaveWalks
  BY DEF Saves
<1>2. CASE Kill
  <2>1. /\ up' = FALSE /\ save' = Unsaved /\ dirty' = <<>> /\ stateFile' = stateFile
        /\ states' = [x \in Extensions |-> None]
    BY <1>2 DEF Kill
  <2>2. Unsaved \in [at : {"none", "next", "empty", "write"}, value : Objects \cup {None}, index : Nat]
    BY DEF Unsaved
  <2>3. dirty' \in Seq(Extensions) /\ Distinct(dirty') /\ Len(dirty') = 0
    BY <2>1, NothingPlaces, EmptySeq
  <2>4. SavesTyped'
    BY <1>1, <2>1, <2>2, <2>3 DEF SavesTyped
  <2>5. SaveWalks'
    BY <2>1, <2>3 DEF SaveWalks, Unsaved
  <2> QED BY <2>1, <2>4, <2>5 DEF Saves, TakenIsSaved, UnsavedIsDirty, Unsaved
<1>3. CASE Start
  <2>1. /\ up' = TRUE /\ ~up /\ UNCHANGED <<stateFile, save, dirty>>
        /\ states' = [x \in Extensions |-> Readable(stateFile[x])] /\ overtaken' = {}
    BY <1>3 DEF Start
  <2>2. save = Unsaved
    BY <1>1, <2>1 DEF SaveWalks
  <2>3. SavesTyped' /\ SaveWalks'
    BY <1>1, <2>1, <2>2 DEF SavesTyped, SaveWalks, Readable
  <2>4. UnsavedIsDirty'
    BY <2>1 DEF UnsavedIsDirty, Readable
  <2> QED BY <2>1, <2>2, <2>3, <2>4 DEF Saves, TakenIsSaved, Unsaved
<1> QED BY <1>2, <1>3

LEMMA CallsKeepSaves ==
  ASSUME Saves, UNCHANGED <<up, extensions>>
  PROVE  Saves'
BY DEF Saves, SavesTyped, SaveWalks, TakenIsSaved, UnsavedIsDirty, Readable, extensions

LEMMA SavesStep == Saves /\ [Next]_vars => Saves'
<1> SUFFICES ASSUME Saves, [Next]_vars PROVE Saves'
  OBVIOUS
<1>1. CASE \E x \in Extensions, v \in Objects \cup {Text} : SetState(x, v)
  BY <1>1, SetStateKeepsSaves
<1>2. CASE TakeDirty
  BY <1>2, TakeDirtyKeepsSaves
<1>3. CASE EmptyState \/ WriteState
  BY <1>3, WriteStateKeepsSaves
<1>4. CASE Refuse \/ FinishSave
  BY <1>4, SaveEndKeepsSaves
<1>5. CASE Kill \/ Start
  BY <1>5, ProcessKeepsSaves
<1>6. CASE \/ \E e \in Events : AppendEvent(e)
           \/ StartFold
           \/ \E new \in Conversations : Persist(new)
  BY <1>6, CallsKeepSaves DEF AppendEvent, StartFold, Persist
<1>7. CASE DeltaAppend \/ EmptyTemp \/ WriteTemp \/ Rename \/ ClearEvents
  BY <1>7, CallsKeepSaves DEF DeltaAppend, EmptyTemp, WriteTemp, Rename, ClearEvents
<1>8. CASE UNCHANGED vars
  BY <1>8, CallsKeepSaves DEF vars
<1> QED BY <1>1, <1>2, <1>3, <1>4, <1>5, <1>6, <1>7, <1>8 DEF Next

\* A state that differs from its file is among the dirty names that saveAll goes
\* through, after any failure of saveAll and any restart, unless its extension set
\* it anew while saveAll wrote it: set and saveAll of state-manager.ts.
THEOREM UnsavedStatesAreDirty == Spec => []UnsavedIsDirty
<1>1. Spec => []Saves
  BY SavesInit, SavesStep, PTL DEF Spec
<1>2. Saves => UnsavedIsDirty
  BY DEF Saves
<1> QED BY <1>1, <1>2, PTL

-----------------------------------------------------------------------------
(* The order of versions *)

\* Numbers before words, each by value: the order of the numbers themselves.
LEMMA IdentifiersAreOrdered ==
  \A i, j \in Nat : IdentifierLess(i, j) <=> i < j
BY AlphaAssumption DEF IdentifierLess

LEMMA CoreIsTotal ==
  ASSUME NEW v \in Version, NEW w \in Version, v.core # w.core
  PROVE  CoreLess(v, w) \/ CoreLess(w, v)
<1>1. v.core \in [1..3 -> Nat] /\ w.core \in [1..3 -> Nat]
  BY DEF Version
<1>2. v.core[1] \in Nat /\ v.core[2] \in Nat /\ v.core[3] \in Nat
      /\ w.core[1] \in Nat /\ w.core[2] \in Nat /\ w.core[3] \in Nat
  BY <1>1
<1>3. v.core[1] # w.core[1] \/ v.core[2] # w.core[2] \/ v.core[3] # w.core[3]
  BY <1>1
<1>4. 1 \in 1..3 /\ 2 \in 1..3 /\ 3 \in 1..3
      /\ (\A j \in 1..(1 - 1) : FALSE) /\ (\A j \in 1..(2 - 1) : j = 1)
      /\ (\A j \in 1..(3 - 1) : j = 1 \/ j = 2)
  OBVIOUS
<1> QED BY <1>2, <1>3, <1>4 DEF CoreLess

LEMMA CoreIsTransitive ==
  ASSUME NEW u \in Version, NEW v \in Version, NEW w \in Version, CoreLess(u, v), CoreLess(v, w)
  PROVE  CoreLess(u, w)
<1>1. \A i \in 1..3 : u.core[i] \in Nat /\ v.core[i] \in Nat /\ w.core[i] \in Nat
  BY DEF Version
<1>2. PICK i \in 1..3 : u.core[i] < v.core[i] /\ \A j \in 1..(i - 1) : u.core[j] = v.core[j]
  BY DEF CoreLess
<1>3. PICK k \in 1..3 : v.core[k] < w.core[k] /\ \A j \in 1..(k - 1) : v.core[j] = w.core[j]
  BY DEF CoreLess
<1>4. PICK m \in 1..3 : m <= i /\ m <= k /\ (m = i \/ m = k)
  OBVIOUS
<1>5. u.core[m] < w.core[m]
  <2>1. u.core[m] \in Nat /\ v.core[m] \in Nat /\ w.core[m] \in Nat
    BY <1>1
  <2>2. m < i => u.core[m] = v.core[m]
    BY <1>2, <1>4
  <2>3. m < k => v.core[m] = w.core[m]
    BY <1>3, <1>4
  <2> QED BY <2>1, <2>2, <2>3, <1>2, <1>3, <1>4
<1>6. \A j \in 1..(m - 1) : u.core[j] = w.core[j]
  <2> TAKE j \in 1..(m - 1)
  <2>1. j \in 1..(i - 1) /\ j \in 1..(k - 1)
    BY <1>4
  <2> QED BY <2>1, <1>2, <1>3
<1> QED BY <1>5, <1>6 DEF CoreLess

LEMMA PrereleaseIsTotal ==
  ASSUME NEW p \in Seq(Nat), NEW q \in Seq(Nat), p # q
  PROVE  PrereleaseLess(p, q) \/ PrereleaseLess(q, p)
<1>1. CASE p = <<>> \/ q = <<>>
  BY <1>1 DEF PrereleaseLess
<1>2. CASE p # <<>> /\ q # <<>>
  <2> DEFINE D == {i \in Nat : i >= 1 /\ ~(i <= Len(p) /\ i <= Len(q) /\ p[i] = q[i])}
  <2>1. Len(p) \in Nat /\ Len(q) \in Nat
    OBVIOUS
  <2>2. Len(p) + 1 \in D /\ D \in SUBSET Nat
    BY <2>1
  <2>3. PICK i \in D : \A j \in D : ~(j < i)
    <3> HIDE DEF D
    <3> QED BY <2>2, LeastNumber
  <2>4. i \in Nat /\ i >= 1 /\ ~(i <= Len(p) /\ i <= Len(q) /\ p[i] = q[i])
    BY <2>3
  <2>5. \A j \in 1..(i - 1) : j <= Len(p) /\ j <= Len(q) /\ p[j] = q[j]
    <3> TAKE j \in 1..(i - 1)
    <3>1. j \in Nat /\ j >= 1 /\ j < i
      BY <2>4
    <3> QED BY <3>1, <2>3
  <2>6. i - 1 <= Len(p) /\ i - 1 <= Len(q)
    <3>1. i = 1 \/ i - 1 \in 1..(i - 1)
      BY <2>4
    <3> QED BY <3>1, <2>1, <2>5
  <2>7. CASE i <= Len(p) /\ i <= Len(q)
    <3>1. p[i] \in Nat /\ q[i] \in Nat /\ p[i] # q[i]
      BY <2>4, <2>7
    <3>2. IdentifierLess(p[i], q[i]) \/ IdentifierLess(q[i], p[i])
      BY <3>1, IdentifiersAreOrdered
    <3>3. i \in 1..Len(p) /\ i \in 1..Len(q)
      BY <2>1, <2>4, <2>7
    <3> QED BY <3>2, <3>3, <2>5, <2>6, <1>2 DEF PrereleaseLess
  <2>8. CASE i > Len(p) /\ i <= Len(q)
    <3>1. i \in 1..Len(q) /\ ~(i <= Len(p))
      BY <2>1, <2>4, <2>8
    <3> QED BY <3>1, <2>5, <2>6, <1>2 DEF PrereleaseLess
  <2>9. CASE i <= Len(p) /\ i > Len(q)
    <3>1. i \in 1..Len(p) /\ ~(i <= Len(q))
      BY <2>1, <2>4, <2>9
    <3> QED BY <3>1, <2>5, <2>6, <1>2 DEF PrereleaseLess
  <2>10. CASE i > Len(p) /\ i > Len(q)
    <3>1. Len(p) = i - 1 /\ Len(q) = i - 1
      BY <2>1, <2>4, <2>6, <2>10
    <3>2. p = q
      BY <3>1, <2>5
    <3> QED BY <3>2
  <2> QED BY <2>1, <2>4, <2>7, <2>8, <2>9, <2>10
<1> QED BY <1>1, <1>2

LEMMA PrereleaseIsTransitive ==
  ASSUME NEW p \in Seq(Nat), NEW q \in Seq(Nat), NEW r \in Seq(Nat),
         PrereleaseLess(p, q), PrereleaseLess(q, r)
  PROVE  PrereleaseLess(p, r)
<1>1. p # <<>> /\ q # <<>>
  BY DEF PrereleaseLess
<1>2. CASE r = <<>>
  BY <1>1, <1>2 DEF PrereleaseLess
<1>3. CASE r # <<>>
  <2>1. PICK i \in 1..Len(q) : i - 1 <= Len(p) /\ (\A j \in 1..(i - 1) : p[j] = q[j])
                               /\ (i <= Len(p) => IdentifierLess(p[i], q[i]))
    BY <1>1 DEF PrereleaseLess
  <2>2. PICK k \in 1..Len(r) : k - 1 <= Len(q) /\ (\A j \in 1..(k - 1) : q[j] = r[j])
                               /\ (k <= Len(q) => IdentifierLess(q[k], r[k]))
    BY <1>1, <1>3 DEF PrereleaseLess
  <2>3. Len(p) \in Nat /\ Len(q) \in Nat /\ Len(r) \in Nat
    OBVIOUS
  <2>4. PICK m \in Nat : m <= i /\ m <= k /\ (m = i \/ m = k)
    <3>1. i \in Nat /\ k \in Nat
      BY <2>1, <2>2, <2>3
    <3>2. CASE i <= k
      <4>1. i <= i /\ i <= k /\ (i = i \/ i = k)
        BY <3>1, <3>2
      <4> QED BY <3>1, <4>1
    <3>3. CASE k <= i
      <4>1. k <= i /\ k <= k /\ (k = i \/ k = k)
        BY <3>1, <3>3
      <4> QED BY <3>1, <4>1
    <3> QED BY <3>1, <3>2, <3>3
  <2>5. m \in 1..Len(r) /\ m - 1 <= Len(p)
    BY <2>1, <2>2, <2>3, <2>4
  <2>6. \A j \in 1..(m - 1) : p[j] = r[j]
    <3> TAKE j \in 1..(m - 1)
    <3>1. j \in 1..(i - 1) /\ j \in 1..(k - 1)
      BY <2>1, <2>2, <2>3, <2>4
    <3> QED BY <3>1, <2>1, <2>2
  <2>7. ASSUME m <= Len(p) PROVE IdentifierLess(p[m], r[m])
    <3>1. m <= Len(q) /\ m >= 1
      BY <2>1, <2>2, <2>3, <2>4
    <3>2. p[m] \in Nat /\ q[m] \in Nat /\ r[m] \in Nat
      <4>1. m \in 1..Len(p) /\ m \in 1..Len(q) /\ m \in 1..Len(r)
        BY <2>3, <2>4, <2>5, <2>7, <3>1
      <4> QED BY <4>1, ElementOfSeq
    <3>3. m < i => m \in 1..(i - 1)
      BY <2>1, <2>3, <3>1
    <3>4. m < k => m \in 1..(k - 1)
      BY <2>2, <2>3, <3>1
    <3>5. m < i => p[m] = q[m]
      BY <3>3, <2>1
    <3>6. m < k => q[m] = r[m]
      BY <3>4, <2>2
    <3>7. m = i => p[m] < q[m]
      BY <2>1, <2>7, <3>2, IdentifiersAreOrdered
    <3>8. m = k => q[m] < r[m]
      BY <2>2, <3>1, <3>2, IdentifiersAreOrdered
    <3>9. p[m] < r[m]
      BY <3>2, <3>5, <3>6, <3>7, <3>8, <2>1, <2>2, <2>3, <2>4
    <3> QED BY <3>2, <3>9, IdentifiersAreOrdered
  <2> QED BY <1>1, <1>3, <2>5, <2>6, <2>7 DEF PrereleaseLess
<1> QED BY <1>2, <1>3

\* compareSemver is a total order of versions.
LEMMA VersionsAreTotal ==
  ASSUME NEW v \in Version, NEW w \in Version, v # w
  PROVE  SemverLess(v, w) \/ SemverLess(w, v)
<1>1. v.pre \in Seq(Nat) /\ w.pre \in Seq(Nat)
  BY DEF Version
<1>2. v.core # w.core \/ v.pre # w.pre
  BY DEF Version
<1>3. CASE v.core # w.core
  BY <1>3, CoreIsTotal DEF SemverLess
<1>4. CASE v.core = w.core
  BY <1>1, <1>2, <1>4, PrereleaseIsTotal DEF SemverLess
<1> QED BY <1>3, <1>4

LEMMA VersionsAreTransitive ==
  ASSUME NEW u \in Version, NEW v \in Version, NEW w \in Version, SemverLess(u, v), SemverLess(v, w)
  PROVE  SemverLess(u, w)
<1>1. u.pre \in Seq(Nat) /\ v.pre \in Seq(Nat) /\ w.pre \in Seq(Nat)
  BY DEF Version
<1>2. CASE CoreLess(u, v) /\ CoreLess(v, w)
  BY <1>2, CoreIsTransitive DEF SemverLess
<1>3. CASE u.core = v.core /\ v.core = w.core /\ PrereleaseLess(u.pre, v.pre) /\ PrereleaseLess(v.pre, w.pre)
  BY <1>1, <1>3, PrereleaseIsTransitive DEF SemverLess
<1>4. CASE CoreLess(u, v) /\ v.core = w.core
  BY <1>4 DEF SemverLess, CoreLess
<1>5. CASE u.core = v.core /\ CoreLess(v, w)
  BY <1>5 DEF SemverLess, CoreLess
<1> QED BY <1>2, <1>3, <1>4, <1>5 DEF SemverLess

Greatest(v, S) == \A w \in S \ {v} : SemverLess(w, v)

\* Of finitely many versions one is the latest.
LEMMA LatestIsListed ==
  ASSUME NEW S \in SUBSET Version, IsFiniteSet(S), S # {}
  PROVE  Latest(S) \in S
<1> DEFINE Bad == {T \in SUBSET S : T # {} /\ \A v \in T : ~Greatest(v, T)}
           Sizes == {Cardinality(T) : T \in Bad}
<1>1. \A T \in SUBSET S : IsFiniteSet(T) /\ Cardinality(T) \in Nat
  BY FS_Subset, FS_CardinalityType
<1>2. Bad = {}
  <2> SUFFICES ASSUME Bad # {} PROVE FALSE
    OBVIOUS
  <2>1. Sizes \in SUBSET Nat /\ Sizes # {}
    BY <1>1
  <2>2. PICK k \in Sizes : \A j \in Sizes : ~(j < k)
    <3> HIDE DEF Sizes
    <3> QED BY <2>1, LeastNumber
  <2>3. PICK T \in Bad : k = Cardinality(T)
    BY <2>2
  <2>4. T \in SUBSET S /\ T # {} /\ \A v \in T : ~Greatest(v, T)
    BY <2>3
  <2>5. PICK u \in T : TRUE
    BY <2>4
  <2>6. IsFiniteSet(T) /\ Cardinality(T) \in Nat
    BY <1>1, <2>4
  <2> DEFINE U == T \ {u}
  <2>7. Cardinality(U) = Cardinality(T) - 1
    BY <2>5, <2>6, FS_RemoveElement
  <2>8. U # {}
    <3> SUFFICES ASSUME U = {} PROVE FALSE
      OBVIOUS
    <3>1. Greatest(u, T)
      BY DEF Greatest
    <3> QED BY <3>1, <2>4, <2>5
  <2>9. U \notin Bad
    <3> SUFFICES ASSUME U \in Bad PROVE FALSE
      OBVIOUS
    <3>1. Cardinality(U) \in Sizes
      OBVIOUS
    <3>2. Cardinality(T) - 1 < Cardinality(T)
      BY <2>6
    <3> HIDE DEF Sizes, Bad, U
    <3> QED BY <3>1, <3>2, <2>2, <2>3, <2>7
  <2>10. PICK v \in U : Greatest(v, U)
    <3>1. U \in SUBSET S
      BY <2>4
    <3> QED BY <3>1, <2>8, <2>9
  <2>11. u \in Version /\ v \in Version /\ u # v /\ v \in T /\ T \in SUBSET Version
    BY <2>4, <2>5, <2>10
  <2>12. CASE SemverLess(u, v)
    <3>1. Greatest(v, T)
      BY <2>10, <2>12 DEF Greatest
    <3> QED BY <3>1, <2>4, <2>11
  <2>13. CASE SemverLess(v, u)
    <3>1. ASSUME NEW w \in T \ {u} PROVE SemverLess(w, u)
      <4>1. w = v \/ SemverLess(w, v)
        BY <2>10 DEF Greatest
      <4>2. w \in Version
        BY <2>11
      <4> QED BY <4>1, <4>2, <2>11, <2>13, VersionsAreTransitive
    <3>2. Greatest(u, T)
      BY <3>1 DEF Greatest
    <3> QED BY <3>2, <2>4, <2>5
  <2> QED BY <2>11, <2>12, <2>13, VersionsAreTotal
<1>3. \E v \in S : Greatest(v, S)
  BY <1>2
<1>4. \E v \in S : \A w \in S \ {v} : SemverLess(w, v)
  BY <1>3 DEF Greatest
<1> QED BY <1>4 DEF Latest

-----------------------------------------------------------------------------
(* The invariant of the registry *)

Entries == [digest : Bytes, deps : Dependencies, deprecated : BOOLEAN]

IsListing(vs) ==
  /\ DOMAIN vs \in SUBSET Versions /\ IsFiniteSet(DOMAIN vs)
  /\ \A v \in DOMAIN vs : vs[v] \in Entries

IsTagging(n, tags, vs) ==
  /\ DOMAIN tags \in SUBSET Tags /\ "latest" \in DOMAIN tags
  /\ \A t \in DOMAIN tags : tags[t] \in DOMAIN vs \cup Foreign(n, t)

\* A document of package n that a client can read: its tags name versions that it
\* lists, or what a publish of another version asked for.
IsSound(n, d) ==
  \/ d = Absent
  \/ /\ d = [found |-> "yes", versions |-> d.versions, tags |-> d.tags]
     /\ IsListing(d.versions)
     /\ IsTagging(n, d.tags, d.versions)

\* The request works on the document that it read.
HasRead(r, k) ==
  r.pc \in {"save", "write"} \/ (r.pc = "tarball" /\ ~(r.op = "publish" /\ k = "worker"))

IsRequest(r) ==
  r = [op |-> r.op, pc |-> r.pc, name |-> r.name, ver |-> r.ver, bytes |-> r.bytes,
       tags |-> r.tags, deps |-> r.deps, seen |-> r.seen, todo |-> r.todo]

\* What a request that is under way asks for.
Asks(r) ==
  /\ r.name \in Names
  /\ r.op \in {"publish", "unpublish", "deprecate", "delete"}
  /\ r.op # "delete" => r.ver \in Versions
  /\ r.op = "publish" =>
       /\ Entry(r) \in Entries /\ DOMAIN r.tags \in SUBSET Tags
       /\ \A t \in DOMAIN r.tags : r.tags[t] \in {r.ver} \cup Foreign(r.name, t)

\* What it knows after its read, and where it is.
Knows(r, k) ==
  /\ r.pc \in {"read", "tarball", "save", "write"}
  /\ r.op = "deprecate" => r.pc # "tarball"
  /\ r.pc = "write" => k = "file"
  /\ HasRead(r, k) =>
       /\ IsSound(r.name, r.seen)
       /\ r.op \in {"unpublish", "deprecate"} => r.ver \in DOMAIN r.seen.versions
       /\ r.op = "publish" /\ k = "file" => r.ver \notin DOMAIN r.seen.versions
       /\ r.op = "delete" => r.todo \in SUBSET DOMAIN r.seen.versions
       /\ r.op = "delete" /\ r.pc # "tarball" => k = "worker" /\ r.todo = {}

RequestOK(r, k) == IsRequest(r) /\ (r.pc # "idle" => Asks(r) /\ Knows(r, k))

RegistryOK ==
  /\ kind \in Kinds /\ count \in 0..MaxRequests /\ raced \in SUBSET Names
  /\ DOMAIN meta = Names /\ DOMAIN tar = Names /\ DOMAIN req = Slots
  /\ \A n \in Names : (meta[n] = Torn \/ IsSound(n, meta[n])) /\ DOMAIN tar[n] \in SUBSET Versions
  /\ \A c \in Slots : RequestOK(req[c], kind)

Digests(d) == [v \in DOMAIN d.versions |-> d.versions[v].digest]

\* The tarballs of a package, from those that its document names, midway through r.
Tarballs(r, k, f) ==
  CASE r.op = "publish" ->
         IF r.pc \in (IF k = "file" THEN {"save", "write"} ELSE {"read", "save"})
         THEN With(f, r.ver, r.bytes) ELSE f
    [] r.op = "unpublish" -> IF r.pc \in {"save", "write"} THEN Without(f, r.ver) ELSE f
    [] r.op = "delete" -> IF k = "worker" /\ r.pc \in {"tarball", "save"} THEN Restrict(f, r.todo) ELSE f
    [] OTHER -> f

InStep(m, t) == m # Torn /\ t = Digests(m)

\* The two stores while r alone is under way.
Midway(r, k, m, t) ==
  /\ IF r.pc = "write" THEN m = Torn ELSE m # Torn /\ (HasRead(r, k) => m = r.seen)
  /\ t = Tarballs(r, k, Digests(IF HasRead(r, k) THEN r.seen ELSE m))

Busy(r, n) == r.pc # "idle" /\ r.name = n

Agrees(n) ==
  /\ \A c, d \in Slots : Busy(req[c], n) /\ Busy(req[d], n) => c = d
  /\ (\A c \in Slots : ~Busy(req[c], n)) => InStep(meta[n], tar[n])
  /\ \A c \in Slots : Busy(req[c], n) => Midway(req[c], kind, meta[n], tar[n])

RegistryInv == RegistryOK /\ \A n \in Names \ raced : Agrees(n)

-----------------------------------------------------------------------------
(* The invariant of the install *)

Walks == {"resolve", "entry", "fetch", "wipe", "extract", "next"}
Wanted == [name : Names, range : Ranges]

IsCommand(u) ==
  u = [pc |-> u.pc, frozen |-> u.frozen, exact |-> u.exact, ask |-> u.ask, queue |-> u.queue,
       chosen |-> u.chosen, records |-> u.records, entry |-> u.entry, bytes |-> u.bytes]

\* The entry of a version, as a lockfile records it.
IsRecord(e) == e.digest \in Bytes /\ e.deps \in Dependencies

\* What is recorded is of the version chosen, and nothing of another.
RecordsOK(records, chosen) ==
  /\ DOMAIN records \in SUBSET (Names \X Versions)
  /\ \A p \in DOMAIN records :
       p[1] \in DOMAIN chosen /\ p[2] = chosen[p[1]] /\ IsRecord(records[p])

\* What is recorded is on disk.
OnDisk(records, files) == \A p \in DOMAIN records : p \in DOMAIN files /\ files[p] = records[p].digest

\* What is recorded has its dependencies recorded too, or still in the queue.
Pending(records, queue) ==
  \A p \in DOMAIN records : \A n \in DOMAIN records[p].deps :
    \/ \E q \in DOMAIN records : q[1] = n
    \/ \E i \in DOMAIN queue : queue[i].name = n

ChosenOK(chosen) == DOMAIN chosen \in SUBSET Names /\ \A n \in DOMAIN chosen : chosen[n] \in Versions

\* The package that the walk is at.
AtHead(u) ==
  LET n == Head(u.queue).name IN
  /\ u.pc \in {"entry", "fetch", "wipe", "extract", "next"} => n \in DOMAIN u.chosen
  /\ u.pc \in {"entry", "fetch", "wipe", "extract"} => <<n, u.chosen[n]>> \notin DOMAIN u.records
  /\ u.pc \in {"fetch", "wipe", "extract"} => IsRecord(u.entry)
  /\ u.pc \in {"wipe", "extract"} => u.bytes = u.entry.digest
  /\ u.pc = "next" => <<n, u.chosen[n]>> \in DOMAIN u.records

CommandOK(u) ==
  /\ IsCommand(u)
  /\ u.pc \in {"idle", "update", "lock"} \cup Walks
  /\ u.queue \in Seq(Wanted)
  /\ u.pc \in {"idle", "update"} => u.queue = <<>> /\ DOMAIN u.records = {}
  /\ u.pc = "update" => u.chosen \in Dependencies
  /\ u.pc = "lock" => u.queue = <<>>
  /\ u.pc \in Walks => u.queue # <<>> /\ AtHead(u)
  /\ u.pc \in Walks \cup {"lock"} => ChosenOK(u.chosen) /\ RecordsOK(u.records, u.chosen)
  /\ Pending(u.records, u.queue)

\* A lockfile of one version per package, with all that each depends on.
LockOK ==
  /\ DOMAIN lock \in SUBSET (Names \X Versions)
  /\ LockIsClosed

InstallOK ==
  /\ manifest \in Dependencies /\ DOMAIN disk \in SUBSET (Names \X Versions)
  /\ ran \in 0..MaxCommands
  /\ CommandOK(cmd) /\ OnDisk(cmd.records, disk)
  /\ LockOK

PackageInv == RegistryInv /\ InstallOK

-----------------------------------------------------------------------------
(* Documents *)

LEMMA NothingIsEmpty == DOMAIN <<>> = {}
OBVIOUS

LEMMA AbsentIsSound ==
  /\ \A n : IsSound(n, Absent)
  /\ Absent # Torn /\ DOMAIN Absent.versions = {} /\ DOMAIN Absent.tags = {}
BY NothingIsEmpty DEF IsSound, Absent, Torn

\* What a sound document lists.
LEMMA SoundListing ==
  ASSUME NEW n, NEW d, IsSound(n, d)
  PROVE  /\ d # Torn /\ IsListing(d.versions) /\ DOMAIN d.tags \in SUBSET Tags
         /\ \A t \in DOMAIN d.tags : d.tags[t] \in DOMAIN d.versions \cup Foreign(n, t)
<1>1. CASE d = Absent
  <2>1. IsListing(Absent.versions)
    BY AbsentIsSound, FS_EmptySet DEF IsListing
  <2> QED BY <1>1, <2>1, AbsentIsSound
<1>2. CASE d # Absent
  <2>1. d.found = "yes" /\ IsListing(d.versions) /\ IsTagging(n, d.tags, d.versions)
    BY <1>2 DEF IsSound
  <2> QED BY <2>1 DEF IsTagging, Torn
<1> QED BY <1>1, <1>2

LEMMA ListedWith ==
  ASSUME NEW vs, IsListing(vs), NEW v \in Versions, NEW e \in Entries
  PROVE  IsListing(With(vs, v, e)) /\ DOMAIN With(vs, v, e) = DOMAIN vs \cup {v}
<1>1. DOMAIN With(vs, v, e) = DOMAIN vs \cup {v}
  BY DEF With
<1>2. IsFiniteSet(DOMAIN vs \cup {v})
  BY FS_AddElement DEF IsListing
<1>3. \A z \in DOMAIN vs \cup {v} : With(vs, v, e)[z] \in Entries
  BY DEF With, IsListing
<1>4. DOMAIN vs \cup {v} \in SUBSET Versions
  BY DEF IsListing
<1> QED BY <1>1, <1>2, <1>3, <1>4 DEF IsListing

LEMMA ListedWithout ==
  ASSUME NEW vs, IsListing(vs), NEW v
  PROVE  IsListing(Without(vs, v)) /\ DOMAIN Without(vs, v) = DOMAIN vs \ {v}
<1>1. DOMAIN Without(vs, v) = DOMAIN vs \ {v}
  BY DEF Without, Restrict
<1>2. IsFiniteSet(DOMAIN vs \ {v})
  BY FS_RemoveElement DEF IsListing
<1>3. \A z \in DOMAIN vs \ {v} : Without(vs, v)[z] \in Entries
  BY DEF Without, Restrict, IsListing
<1>4. DOMAIN vs \ {v} \in SUBSET Versions
  BY DEF IsListing
<1> QED BY <1>1, <1>2, <1>3, <1>4 DEF IsListing

\* The tags of a publish name the version that is published, one listed before, or
\* what the request asks for.
LEMMA NewTagsAreSound ==
  ASSUME NEW n, NEW tags, NEW vs, NEW v, NEW asked, NEW ws,
         DOMAIN tags \in SUBSET Tags, \A t \in DOMAIN tags : tags[t] \in DOMAIN vs \cup Foreign(n, t),
         DOMAIN asked \in SUBSET Tags, \A t \in DOMAIN asked : asked[t] \in {v} \cup Foreign(n, t),
         DOMAIN ws = DOMAIN vs \cup {v}
  PROVE  IsTagging(n, NewTags(tags, v, asked), ws)
<1> DEFINE May(t, x) == x \in DOMAIN ws \cup Foreign(n, t)
<1>1. "latest" \in Tags
  BY DEF Tags
<1>2. ASSUME NEW tt, DOMAIN tt \in SUBSET Tags, \A t \in DOMAIN tt : May(t, tt[t])
      PROVE  IsTagging(n, With(tt, "latest", v), ws)
  BY <1>1, <1>2 DEF With, IsTagging
<1>3. \A t \in DOMAIN tags : May(t, tags[t])
  OBVIOUS
<1> DEFINE merged == Merged(tags, asked)
<1>4. DOMAIN merged \in SUBSET Tags /\ \A t \in DOMAIN merged : May(t, merged[t])
  BY <1>3 DEF Merged
<1>5. NewTags(tags, v, asked) =
        IF DOMAIN asked = {}
        THEN IF "latest" \notin DOMAIN tags \/ SemverLess(tags["latest"], v)
             THEN With(tags, "latest", v) ELSE tags
        ELSE IF "latest" \in DOMAIN merged THEN merged ELSE With(merged, "latest", v)
  BY DEF NewTags
<1> HIDE DEF merged
<1>6. CASE NewTags(tags, v, asked) = With(tags, "latest", v)
  BY <1>2, <1>3, <1>6
<1>7. CASE NewTags(tags, v, asked) = With(merged, "latest", v)
  BY <1>2, <1>4, <1>7
<1>8. CASE NewTags(tags, v, asked) = tags /\ "latest" \in DOMAIN tags
  BY <1>3, <1>8 DEF IsTagging
<1>9. CASE NewTags(tags, v, asked) = merged /\ "latest" \in DOMAIN merged
  BY <1>4, <1>9 DEF IsTagging
<1> QED BY <1>5, <1>6, <1>7, <1>8, <1>9

LEMMA UpdatedIsSound ==
  ASSUME NEW d, NEW r, IsSound(r.name, d), Asks(r), r.op = "publish"
  PROVE  /\ IsSound(r.name, Updated(d, r)) /\ IsDocument(Updated(d, r))
         /\ Digests(Updated(d, r)) = With(Digests(d), r.ver, r.bytes)
<1>1. /\ r.ver \in Versions /\ Entry(r) \in Entries /\ DOMAIN r.tags \in SUBSET Tags
      /\ \A t \in DOMAIN r.tags : r.tags[t] \in {r.ver} \cup Foreign(r.name, t)
  BY DEF Asks
<1>2. /\ IsListing(d.versions) /\ DOMAIN d.tags \in SUBSET Tags
      /\ \A t \in DOMAIN d.tags : d.tags[t] \in DOMAIN d.versions \cup Foreign(r.name, t)
  BY SoundListing
<1> DEFINE vs == With(d.versions, r.ver, Entry(r))
           tags == NewTags(d.tags, r.ver, r.tags)
<1>3. IsListing(vs) /\ DOMAIN vs = DOMAIN d.versions \cup {r.ver}
  BY <1>1, <1>2, ListedWith
<1>4. IsTagging(r.name, tags, vs)
  <2> HIDE DEF vs
  <2> QED BY <1>1, <1>2, <1>3, NewTagsAreSound
<1>5. Updated(d, r) = [found |-> "yes", versions |-> vs, tags |-> tags]
  BY DEF Updated
<1>6. \A z \in DOMAIN vs : vs[z].digest = IF z = r.ver THEN r.bytes ELSE d.versions[z].digest
  BY <1>3 DEF With, Entry
<1> HIDE DEF vs, tags
<1>7. IsSound(r.name, Updated(d, r)) /\ IsDocument(Updated(d, r))
  BY <1>3, <1>4, <1>5 DEF IsSound, IsDocument
<1>8. Digests(Updated(d, r)) = [z \in DOMAIN vs |-> vs[z].digest]
  BY <1>5 DEF Digests
<1>9. With(Digests(d), r.ver, r.bytes) = [z \in DOMAIN vs |-> vs[z].digest]
  BY <1>3, <1>6 DEF With, Digests
<1> QED BY <1>7, <1>8, <1>9

LEMMA UnlistedIsSound ==
  ASSUME NEW n, NEW d, IsSound(n, d), NEW v \in DOMAIN d.versions
  PROVE  /\ IsSound(n, Unlisted(d, v))
         /\ Digests(Unlisted(d, v)) = Without(Digests(d), v)
<1>1. /\ IsListing(d.versions) /\ DOMAIN d.tags \in SUBSET Tags
      /\ \A t \in DOMAIN d.tags : d.tags[t] \in DOMAIN d.versions \cup Foreign(n, t)
  BY SoundListing
<1> DEFINE vs == Without(d.versions, v)
           kept == Restrict(d.tags, {t \in DOMAIN d.tags : d.tags[t] # v})
           tags == IF "latest" \in DOMAIN kept THEN kept ELSE With(kept, "latest", Latest(DOMAIN vs))
<1>2. IsListing(vs) /\ DOMAIN vs = DOMAIN d.versions \ {v}
  BY <1>1, ListedWithout
<1>3. Unlisted(d, v) = IF DOMAIN vs = {} THEN Absent ELSE [found |-> "yes", versions |-> vs, tags |-> tags]
  BY DEF Unlisted
<1>4. DOMAIN kept \in SUBSET Tags /\ \A t \in DOMAIN kept : kept[t] \in DOMAIN vs \cup Foreign(n, t)
  BY <1>1, <1>2 DEF Restrict
<1>5. \A z \in DOMAIN vs : vs[z] = d.versions[z]
  BY <1>2 DEF Without, Restrict
<1>6. Without(Digests(d), v) = [z \in DOMAIN vs |-> vs[z].digest]
  BY <1>2, <1>5 DEF Without, Restrict, Digests
<1>7. "latest" \in Tags
  BY DEF Tags
<1>8. CASE DOMAIN vs = {}
  <2>1. Unlisted(d, v) = Absent
    BY <1>3, <1>8
  <2>2. Digests(Absent) = [z \in DOMAIN vs |-> vs[z].digest]
    BY <1>8, AbsentIsSound DEF Digests
  <2> QED BY <2>1, <2>2, <1>6, AbsentIsSound
<1>9. CASE DOMAIN vs # {}
  <2>1. Latest(DOMAIN vs) \in DOMAIN vs
    <3>1. DOMAIN vs \in SUBSET Version /\ IsFiniteSet(DOMAIN vs)
      BY <1>2, RegistryAssumption DEF IsListing
    <3> QED BY <3>1, <1>9, LatestIsListed
  <2> HIDE DEF vs, kept
  <2>2. IsTagging(n, tags, vs)
    <3>1. CASE "latest" \in DOMAIN kept
      BY <3>1, <1>4 DEF IsTagging
    <3>2. CASE "latest" \notin DOMAIN kept
      BY <3>2, <1>4, <1>7, <2>1 DEF IsTagging, With
    <3> QED BY <3>1, <3>2
  <2> HIDE DEF tags
  <2>3. Unlisted(d, v) = [found |-> "yes", versions |-> vs, tags |-> tags]
    BY <1>3, <1>9
  <2>4. IsSound(n, Unlisted(d, v))
    BY <2>2, <2>3, <1>2 DEF IsSound
  <2>5. Digests(Unlisted(d, v)) = [z \in DOMAIN vs |-> vs[z].digest]
    BY <2>3 DEF Digests
  <2> QED BY <2>4, <2>5, <1>6
<1> QED BY <1>8, <1>9

LEMMA DeprecatedIsSound ==
  ASSUME NEW n, NEW d, IsSound(n, d), NEW v \in DOMAIN d.versions
  PROVE  /\ IsSound(n, Deprecated(d, v))  /\ IsDocument(Deprecated(d, v))
         /\ Digests(Deprecated(d, v)) = Digests(d)
<1>1. /\ d = [found |-> "yes", versions |-> d.versions, tags |-> d.tags]
      /\ IsListing(d.versions) /\ IsTagging(n, d.tags, d.versions)
  BY AbsentIsSound DEF IsSound
<1> DEFINE vs == [d.versions EXCEPT ![v].deprecated = TRUE]
<1>2. Deprecated(d, v) = [found |-> "yes", versions |-> vs, tags |-> d.tags]
  <2>1. PICK ws, tg : ws = d.versions /\ tg = d.tags
    OBVIOUS
  <2>2. d = [found |-> "yes", versions |-> ws, tags |-> tg]
    BY <1>1, <2>1
  <2>3. PICK us : us = [d.versions EXCEPT ![v].deprecated = TRUE]
    OBVIOUS
  <2>4. Deprecated(d, v) = [d EXCEPT !.versions = us]
    BY <2>3, Zenon DEF Deprecated
  <2>5. [d EXCEPT !.versions = us] = [found |-> "yes", versions |-> us, tags |-> tg]
    BY <2>2
  <2> QED BY <2>1, <2>3, <2>4, <2>5
<1>3. DOMAIN vs = DOMAIN d.versions
  OBVIOUS
<1>4. \A z \in DOMAIN d.versions : d.versions[z] \in Entries
  BY <1>1 DEF IsListing
<1>5. \A z \in DOMAIN d.versions : vs[z] \in Entries /\ vs[z].digest = d.versions[z].digest
  BY <1>4 DEF Entries
<1> HIDE DEF vs
<1>6. IsListing(vs)
  BY <1>1, <1>3, <1>5 DEF IsListing
<1>7. IsTagging(n, d.tags, vs)
  BY <1>1, <1>3 DEF IsTagging
<1>8. IsSound(n, Deprecated(d, v)) /\ IsDocument(Deprecated(d, v))
  BY <1>2, <1>6, <1>7 DEF IsSound, IsDocument
<1>9. Digests(Deprecated(d, v)) = Digests(d)
  BY <1>2, <1>3, <1>5 DEF Digests
<1> QED BY <1>8, <1>9

-----------------------------------------------------------------------------
(* Requests *)

SameAsked(s, r) ==
  s.op = r.op /\ s.name = r.name /\ s.ver = r.ver /\ s.bytes = r.bytes /\ s.tags = r.tags /\ s.deps = r.deps

LEMMA SameAsks ==
  ASSUME NEW s, NEW r, SameAsked(s, r), Asks(r)
  PROVE  Asks(s)
BY DEF SameAsked, Asks, Entry

\* A request that goes on to pc.
LEMMA RequestMoves ==
  ASSUME NEW r, IsRequest(r), NEW pc, NEW s, s = [r EXCEPT !.pc = pc]
  PROVE  IsRequest(s) /\ SameAsked(s, r) /\ s.pc = pc /\ s.seen = r.seen /\ s.todo = r.todo
BY DEF IsRequest, SameAsked

\* A request that has read d.
LEMMA RequestReads ==
  ASSUME NEW r, IsRequest(r), NEW pc, NEW d, NEW todo, NEW s,
         s = [r EXCEPT !.pc = pc, !.seen = d, !.todo = todo]
  PROVE  IsRequest(s) /\ SameAsked(s, r) /\ s.pc = pc /\ s.seen = d /\ s.todo = todo
BY DEF IsRequest, SameAsked

LEMMA RequestRemoves ==
  ASSUME NEW r, IsRequest(r), NEW todo, NEW s, s = [r EXCEPT !.todo = todo]
  PROVE  IsRequest(s) /\ SameAsked(s, r) /\ s.pc = r.pc /\ s.seen = r.seen /\ s.todo = todo
BY DEF IsRequest, SameAsked

LEMMA NoRequestIsOne ==
  NoRequest.pc = "idle" /\ \A k : RequestOK(NoRequest, k)
<1>1. NoRequest.pc = "idle" /\ IsRequest(NoRequest)
  BY DEF NoRequest, IsRequest
<1> QED BY <1>1 DEF RequestOK

\* The document that a request writes.
Written(r) ==
  CASE r.op = "publish" -> Updated(r.seen, r)
    [] r.op = "unpublish" -> Unlisted(r.seen, r.ver)
    [] r.op = "deprecate" -> Deprecated(r.seen, r.ver)
    [] OTHER -> Absent

LEMMA DocumentIsWritten == \A c : Document(c) = Written(req[c])
BY DEF Document, Written

LEMMA SameWritten ==
  ASSUME NEW s, NEW r, SameAsked(s, r), s.seen = r.seen
  PROVE  Written(s) = Written(r)
BY DEF SameAsked, Written, Updated, Entry

\* What is written is sound, whatever became of the store meanwhile; and with the
\* tarballs that the request leaves it is in step.
LEMMA WrittenIsSound ==
  ASSUME NEW r, NEW k \in {"file", "worker"}, RequestOK(r, k), r.pc \in {"save", "write"}
  PROVE  /\ IsSound(r.name, Written(r))
         /\ \A m, t : Midway(r, k, m, t) => t = Digests(Written(r))
<1>1. Asks(r) /\ Knows(r, k) /\ HasRead(r, k)
  BY DEF RequestOK, HasRead
<1>2. IsSound(r.name, r.seen)
  BY <1>1 DEF Knows
<1>3. \A m, t : Midway(r, k, m, t) => t = Tarballs(r, k, Digests(r.seen))
  BY <1>1 DEF Midway
<1>4. CASE r.op = "publish"
  <2>1. Written(r) = Updated(r.seen, r)
    BY <1>4 DEF Written
  <2>2. IsSound(r.name, Written(r)) /\ Digests(Written(r)) = With(Digests(r.seen), r.ver, r.bytes)
    BY <2>1, <1>1, <1>2, <1>4, UpdatedIsSound
  <2>3. r.pc \in (IF k = "file" THEN {"save", "write"} ELSE {"read", "save"})
    BY <1>1 DEF Knows
  <2>4. Tarballs(r, k, Digests(r.seen)) = With(Digests(r.seen), r.ver, r.bytes)
    BY <1>4, <2>3 DEF Tarballs
  <2> QED BY <2>2, <2>4, <1>3
<1>5. CASE r.op = "unpublish"
  <2>1. Written(r) = Unlisted(r.seen, r.ver)
    BY <1>5 DEF Written
  <2>2. r.ver \in DOMAIN r.seen.versions
    BY <1>1, <1>5 DEF Knows
  <2>3. IsSound(r.name, Written(r)) /\ Digests(Written(r)) = Without(Digests(r.seen), r.ver)
    BY <2>1, <2>2, <1>2, UnlistedIsSound
  <2>4. Tarballs(r, k, Digests(r.seen)) = Without(Digests(r.seen), r.ver)
    BY <1>5 DEF Tarballs
  <2> QED BY <2>3, <2>4, <1>3
<1>6. CASE r.op = "deprecate"
  <2>1. Written(r) = Deprecated(r.seen, r.ver)
    BY <1>6 DEF Written
  <2>2. r.ver \in DOMAIN r.seen.versions
    BY <1>1, <1>6 DEF Knows
  <2>3. IsSound(r.name, Written(r)) /\ Digests(Written(r)) = Digests(r.seen)
    BY <2>1, <2>2, <1>2, DeprecatedIsSound
  <2>4. Tarballs(r, k, Digests(r.seen)) = Digests(r.seen)
    BY <1>6 DEF Tarballs
  <2> QED BY <2>3, <2>4, <1>3
<1>7. CASE r.op = "delete"
  <2>1. Written(r) = Absent
    BY <1>7 DEF Written
  <2>2. r.todo = {} /\ k = "worker" /\ r.pc = "save"
    BY <1>1, <1>7 DEF Knows
  <2>3. Tarballs(r, k, Digests(r.seen)) = Restrict(Digests(r.seen), {})
    BY <1>7, <2>2 DEF Tarballs
  <2>4. Restrict(Digests(r.seen), {}) = Digests(Absent)
    BY AbsentIsSound DEF Restrict, Digests
  <2> QED BY <2>1, <2>3, <2>4, <1>3, AbsentIsSound
<1> QED BY <1>1, <1>4, <1>5, <1>6, <1>7 DEF Asks

\* A step of one request is a step of nothing else.
LEMMA StepKeeps ==
  ASSUME RegistryInv, NEW c \in Slots, NEW s, req[c].pc # "idle",
         req' = [req EXCEPT ![c] = s], UNCHANGED <<kind, count, raced>>,
         DOMAIN meta' = Names, DOMAIN tar' = Names,
         \A n \in Names : n # req[c].name => meta'[n] = meta[n] /\ tar'[n] = tar[n],
         RequestOK(s, kind), s.pc # "idle" => s.name = req[c].name,
         \/ meta'[req[c].name] = Torn
         \/ IsSound(req[c].name, meta'[req[c].name]),
         DOMAIN tar'[req[c].name] \in SUBSET Versions,
         Midway(req[c], kind, meta[req[c].name], tar[req[c].name]) =>
           IF s.pc = "idle" THEN InStep(meta'[req[c].name], tar'[req[c].name])
           ELSE Midway(s, kind, meta'[req[c].name], tar'[req[c].name])
  PROVE  RegistryInv'
<1> DEFINE at == req[c].name
<1>1. RegistryOK /\ \A n \in Names \ raced : Agrees(n)
  BY DEF RegistryInv
<1>2. DOMAIN req' = Slots /\ req'[c] = s /\ \A d \in Slots : d # c => req'[d] = req[d]
  BY <1>1 DEF RegistryOK
<1>3. RegistryOK'
  <2>1. \A d \in Slots : RequestOK(req'[d], kind)
    BY <1>1, <1>2 DEF RegistryOK
  <2>2. \A d \in Slots : RequestOK(req[d], kind)'
    BY <2>1
  <2>3. \A n \in Names : (meta'[n] = Torn \/ IsSound(n, meta'[n])) /\ DOMAIN tar'[n] \in SUBSET Versions
    BY <1>1 DEF RegistryOK
  <2> QED BY <1>1, <1>2, <2>2, <2>3 DEF RegistryOK
<1>4. \A d \in Slots : \A n : Busy(req'[d], n) => Busy(req[d], n)
  BY <1>2 DEF Busy
<1>5. ASSUME NEW n \in Names \ raced PROVE Agrees(n)'
  <2>1. Agrees(n)
    BY <1>1
  <2>2. \A d, e \in Slots : Busy(req'[d], n) /\ Busy(req'[e], n) => d = e
    BY <2>1, <1>4 DEF Agrees
  <2>3. CASE n # at
    <3>1. meta'[n] = meta[n] /\ tar'[n] = tar[n]
      BY <2>3
    <3>2. \A d \in Slots : Busy(req'[d], n) <=> Busy(req[d], n)
      BY <1>2, <2>3 DEF Busy
    <3>3. \A d \in Slots : Busy(req[d], n) => req'[d] = req[d]
      BY <1>2, <2>3 DEF Busy
    <3>4. (\A d \in Slots : ~Busy(req'[d], n)) => InStep(meta'[n], tar'[n])
      BY <2>1, <3>1, <3>2 DEF Agrees
    <3>5. \A d \in Slots : Busy(req'[d], n) => Midway(req'[d], kind', meta'[n], tar'[n])
      BY <2>1, <3>1, <3>2, <3>3 DEF Agrees
    <3> QED BY <2>2, <3>4, <3>5 DEF Agrees
  <2>4. CASE n = at
    <3>1. Busy(req[c], n)
      BY <2>4 DEF Busy
    <3>2. Midway(req[c], kind, meta[at], tar[at]) /\ \A d \in Slots : Busy(req[d], n) => d = c
      BY <2>1, <2>4, <3>1 DEF Agrees
    <3>3. \A d \in Slots : Busy(req'[d], n) => d = c
      BY <3>2, <1>4
    <3>4. CASE s.pc = "idle"
      <4>1. \A d \in Slots : ~Busy(req'[d], n)
        BY <1>2, <3>3, <3>4 DEF Busy
      <4>2. InStep(meta'[n], tar'[n])
        BY <2>4, <3>2, <3>4
      <4> QED BY <2>2, <4>1, <4>2 DEF Agrees
    <3>5. CASE s.pc # "idle"
      <4>1. Busy(req'[c], n)
        BY <1>2, <2>4, <3>5 DEF Busy
      <4>2. Midway(req'[c], kind', meta'[n], tar'[n])
        BY <1>2, <2>4, <3>2, <3>5
      <4> QED BY <2>2, <3>3, <4>1, <4>2 DEF Agrees
    <3> QED BY <3>4, <3>5
  <2> QED BY <2>3, <2>4
<1> QED BY <1>3, <1>5 DEF RegistryInv

LEMMA AskKeeps ==
  ASSUME RegistryInv, NEW c \in Slots, NEW r, Ask(c, r), r.pc # "idle", RequestOK(r, kind),
         \A m, t : InStep(m, t) => Midway(r, kind, m, t)
  PROVE  RegistryInv'
<1>1. RegistryOK /\ \A n \in Names \ raced : Agrees(n)
  BY DEF RegistryInv
<1>2. /\ req[c].pc = "idle" /\ req' = [req EXCEPT ![c] = r]
      /\ UNCHANGED <<kind, meta, tar>>
      /\ count < MaxRequests /\ count' = count + 1
      /\ raced' = IF \E d \in Slots : Busy(req[d], r.name) THEN raced \cup {r.name} ELSE raced
  BY DEF Ask, Busy
<1>3. DOMAIN req' = Slots /\ req'[c] = r /\ \A d \in Slots : d # c => req'[d] = req[d]
  BY <1>1, <1>2 DEF RegistryOK
<1>4. r.name \in Names
  BY DEF RequestOK, Asks
<1>5. RegistryOK'
  <2>1. \A d \in Slots : RequestOK(req'[d], kind)
    BY <1>1, <1>3 DEF RegistryOK
  <2>2. \A d \in Slots : RequestOK(req[d], kind)'
    BY <2>1, <1>2
  <2>3. raced' \in SUBSET Names
    BY <1>1, <1>2, <1>4 DEF RegistryOK
  <2>4. count' \in 0..MaxRequests
    BY <1>1, <1>2, RegistryAssumption DEF RegistryOK
  <2>5. /\ kind' \in Kinds /\ DOMAIN meta' = Names /\ DOMAIN tar' = Names
        /\ \A n \in Names : (meta'[n] = Torn \/ IsSound(n, meta'[n])) /\ DOMAIN tar'[n] \in SUBSET Versions
    BY <1>1, <1>2 DEF RegistryOK
  <2> QED BY <1>3, <2>2, <2>3, <2>4, <2>5 DEF RegistryOK
<1>6. ASSUME NEW n \in Names \ raced' PROVE Agrees(n)'
  <2>1. n \notin raced /\ (n = r.name => \A d \in Slots : ~Busy(req[d], n))
    BY <1>2, <1>6
  <2>2. Agrees(n)
    BY <1>1, <2>1
  <2>3. CASE n = r.name
    <3>1. \A d \in Slots : Busy(req'[d], n) => d = c
      BY <1>3, <2>1, <2>3
    <3>2. Busy(req'[c], n)
      BY <1>3, <2>3 DEF Busy
    <3>3. InStep(meta[n], tar[n])
      BY <2>1, <2>2, <2>3 DEF Agrees
    <3>4. Midway(req'[c], kind', meta'[n], tar'[n])
      BY <3>3, <1>2, <1>3
    <3> QED BY <3>1, <3>2, <3>4 DEF Agrees
  <2>4. CASE n # r.name
    <3>1. \A d \in Slots : Busy(req'[d], n) <=> Busy(req[d], n)
      BY <1>2, <1>3, <2>4 DEF Busy
    <3>2. \A d \in Slots : Busy(req[d], n) => req'[d] = req[d]
      BY <1>2, <1>3 DEF Busy
    <3>3. \A d, e \in Slots : Busy(req'[d], n) /\ Busy(req'[e], n) => d = e
      BY <2>2, <3>1 DEF Agrees
    <3>4. (\A d \in Slots : ~Busy(req'[d], n)) => InStep(meta'[n], tar'[n])
      BY <1>2, <2>2, <3>1 DEF Agrees
    <3>5. \A d \in Slots : Busy(req'[d], n) => Midway(req'[d], kind', meta'[n], tar'[n])
      BY <1>2, <2>2, <3>1, <3>2 DEF Agrees
    <3> QED BY <3>3, <3>4, <3>5 DEF Agrees
  <2> QED BY <2>3, <2>4
<1> QED BY <1>5, <1>6 DEF RegistryInv

LEMMA AskPublishKeeps ==
  ASSUME RegistryInv, NEW c \in Slots, NEW p \in Publishes, AskPublish(c, p)
  PROVE  RegistryInv'
<1>1. p \in [name : Names, ver : Versions, bytes : Bytes, tags : UNION {[S -> Versions] : S \in SUBSET Tags},
              deps : Dependencies]
  BY InstallAssumption
<1>2. kind \in {"file", "worker"}
  BY RegistryAssumption DEF RegistryInv, RegistryOK
<1>3. PICK r : r = [NoRequest EXCEPT !.op = "publish", !.name = p.name, !.ver = p.ver, !.bytes = p.bytes,
                      !.tags = p.tags, !.deps = p.deps,
                      !.pc = IF kind = "worker" THEN "tarball" ELSE "read"]
  OBVIOUS
<1>4. Ask(c, r)
  BY <1>3 DEF AskPublish
<1>5. /\ IsRequest(r) /\ r.op = "publish" /\ r.name = p.name /\ r.ver = p.ver /\ r.bytes = p.bytes
      /\ r.tags = p.tags /\ r.deps = p.deps /\ r.pc = IF kind = "worker" THEN "tarball" ELSE "read"
  BY <1>3 DEF NoRequest, IsRequest
<1>6. Asks(r)
  <2>1. DOMAIN p.tags \in SUBSET Tags
    BY <1>1
  <2>2. \A t \in DOMAIN p.tags : p.tags[t] \in {p.ver} \cup Foreign(p.name, t)
    BY DEF Foreign
  <2>3. Entry(r) \in Entries
    BY <1>1, <1>5 DEF Entry, Entries
  <2> QED BY <1>1, <1>5, <2>1, <2>2, <2>3 DEF Asks
<1>7. ~HasRead(r, kind)
  BY <1>5 DEF HasRead
<1>8. Knows(r, kind)
  BY <1>5, <1>7 DEF Knows
<1>9. ASSUME NEW m, NEW t, InStep(m, t) PROVE Midway(r, kind, m, t)
  <2>1. r.pc \notin (IF kind = "file" THEN {"save", "write"} ELSE {"read", "save"})
    BY <1>2, <1>5
  <2>2. Tarballs(r, kind, Digests(m)) = Digests(m)
    BY <2>1, <1>5 DEF Tarballs
  <2> QED BY <2>2, <1>5, <1>7, <1>9 DEF Midway, InStep
<1>10. r.pc # "idle" /\ RequestOK(r, kind)
  BY <1>5, <1>6, <1>8 DEF RequestOK
<1> QED BY <1>4, <1>9, <1>10, AskKeeps

\* An unpublish, a deprecation and a deletion read first.
LEMMA AskReadKeeps ==
  ASSUME RegistryInv, NEW c \in Slots, NEW r, Ask(c, r), IsRequest(r), Asks(r),
         r.pc = "read", r.op # "publish"
  PROVE  RegistryInv'
<1>1. ~HasRead(r, kind)
  BY DEF HasRead
<1>2. Knows(r, kind)
  BY <1>1 DEF Knows
<1>3. ASSUME NEW m, NEW t, InStep(m, t) PROVE Midway(r, kind, m, t)
  <2>1. Tarballs(r, kind, Digests(m)) = Digests(m)
    BY DEF Tarballs
  <2> QED BY <2>1, <1>1, <1>3 DEF Midway, InStep
<1>4. r.pc # "idle" /\ RequestOK(r, kind)
  BY <1>2 DEF RequestOK
<1> QED BY <1>3, <1>4, AskKeeps

LEMMA AskUnpublishKeeps ==
  ASSUME RegistryInv, NEW c \in Slots, NEW n \in Names, NEW v \in Versions, AskUnpublish(c, n, v)
  PROVE  RegistryInv'
<1>1. PICK r : r = [NoRequest EXCEPT !.op = "unpublish", !.name = n, !.ver = v, !.pc = "read"]
  OBVIOUS
<1>2. Ask(c, r)
  BY <1>1 DEF AskUnpublish
<1>3. IsRequest(r) /\ r.op = "unpublish" /\ r.name = n /\ r.ver = v /\ r.pc = "read"
  BY <1>1 DEF NoRequest, IsRequest
<1>4. Asks(r)
  BY <1>3 DEF Asks
<1> QED BY <1>2, <1>3, <1>4, AskReadKeeps

LEMMA AskDeprecateKeeps ==
  ASSUME RegistryInv, NEW c \in Slots, NEW n \in Names, NEW v \in Versions, AskDeprecate(c, n, v)
  PROVE  RegistryInv'
<1>1. PICK r : r = [NoRequest EXCEPT !.op = "deprecate", !.name = n, !.ver = v, !.pc = "read"]
  OBVIOUS
<1>2. Ask(c, r)
  BY <1>1 DEF AskDeprecate
<1>3. IsRequest(r) /\ r.op = "deprecate" /\ r.name = n /\ r.ver = v /\ r.pc = "read"
  BY <1>1 DEF NoRequest, IsRequest
<1>4. Asks(r)
  BY <1>3 DEF Asks
<1> QED BY <1>2, <1>3, <1>4, AskReadKeeps

LEMMA AskDeleteKeeps ==
  ASSUME RegistryInv, NEW c \in Slots, NEW n \in Names, AskDelete(c, n)
  PROVE  RegistryInv'
<1>1. PICK r : r = [NoRequest EXCEPT !.op = "delete", !.name = n, !.pc = "read"]
  OBVIOUS
<1>2. Ask(c, r)
  BY <1>1 DEF AskDelete
<1>3. IsRequest(r) /\ r.op = "delete" /\ r.name = n /\ r.pc = "read"
  BY <1>1 DEF NoRequest, IsRequest
<1>4. Asks(r)
  BY <1>3 DEF Asks
<1> QED BY <1>2, <1>3, <1>4, AskReadKeeps

\* Requests that are cut off leave what they did, and their packages to the raced.
LEMMA CutOffKeeps ==
  ASSUME RegistryInv, CutOff
  PROVE  RegistryInv'
<1>1. RegistryOK /\ \A n \in Names \ raced : Agrees(n)
  BY DEF RegistryInv
<1>2. /\ req' = [c \in Slots |-> NoRequest] /\ UNCHANGED <<kind, meta, tar, count>>
      /\ raced' = raced \cup {req[c].name : c \in {d \in Slots : req[d].pc # "idle"}}
  BY DEF CutOff
<1>3. RegistryOK'
  <2>1. \A c \in Slots : RequestOK(req'[c], kind')
    BY <1>2, NoRequestIsOne
  <2>2. \A c \in Slots : req[c].pc # "idle" => req[c].name \in Names
    BY <1>1 DEF RegistryOK, RequestOK, Asks
  <2>3. raced' \in SUBSET Names
    BY <1>1, <1>2, <2>2 DEF RegistryOK
  <2>4. \A c \in Slots : RequestOK(req[c], kind)'
    BY <2>1
  <2>5. /\ kind' \in Kinds /\ count' \in 0..MaxRequests /\ DOMAIN meta' = Names /\ DOMAIN tar' = Names
        /\ \A n \in Names : (meta'[n] = Torn \/ IsSound(n, meta'[n])) /\ DOMAIN tar'[n] \in SUBSET Versions
    BY <1>1, <1>2 DEF RegistryOK
  <2>6. DOMAIN req' = Slots
    BY <1>2
  <2> QED BY <2>3, <2>4, <2>5, <2>6 DEF RegistryOK
<1>4. ASSUME NEW n \in Names \ raced' PROVE Agrees(n)'
  <2>1. n \notin raced /\ \A c \in Slots : ~Busy(req[c], n)
    BY <1>2 DEF Busy
  <2>2. InStep(meta[n], tar[n])
    BY <1>1, <2>1 DEF Agrees
  <2>3. \A c \in Slots : ~Busy(req'[c], n)
    BY <1>2, NoRequestIsOne DEF Busy
  <2> QED BY <1>2, <2>2, <2>3 DEF Agrees
<1> QED BY <1>3, <1>4 DEF RegistryInv

\* What is known of a request that is under way.
LEMMA UnderWay ==
  ASSUME RegistryInv, NEW c \in Slots, req[c].pc # "idle"
  PROVE  /\ IsRequest(req[c]) /\ Asks(req[c]) /\ Knows(req[c], kind)
         /\ RequestOK(req[c], kind) /\ req[c].name \in Names
         /\ DOMAIN meta = Names /\ DOMAIN tar = Names /\ DOMAIN req = Slots
         /\ kind \in {"file", "worker"}
         /\ \A n \in Names : (meta[n] = Torn \/ IsSound(n, meta[n])) /\ DOMAIN tar[n] \in SUBSET Versions
BY RegistryAssumption DEF RegistryInv, RegistryOK, RequestOK, Asks

LEMMA ReadKeeps ==
  ASSUME RegistryInv, NEW c \in Slots, Read(c)
  PROVE  RegistryInv'
<1>1. PICK r : r = req[c]
  OBVIOUS
<1>2. PICK d : d = meta[r.name]
  OBVIOUS
<1>3. /\ r.pc = "read" /\ d # Torn
      /\ IF Refuses(c, d) THEN Answer(c)
         ELSE req' = [req EXCEPT ![c].pc = AfterRead(c), ![c].seen = d, ![c].todo = DOMAIN d.versions]
      /\ UNCHANGED <<kind, meta, tar, count, raced>>
  BY <1>1, <1>2 DEF Read
<1>4. /\ IsRequest(r) /\ Asks(r) /\ Knows(r, kind) /\ r.name \in Names
      /\ DOMAIN meta = Names /\ DOMAIN tar = Names /\ DOMAIN req = Slots /\ kind \in {"file", "worker"}
      /\ IsSound(r.name, d) /\ DOMAIN tar[r.name] \in SUBSET Versions
  BY <1>1, <1>2, <1>3, UnderWay
<1>5. \A n \in Names : meta'[n] = meta[n] /\ tar'[n] = tar[n]
  BY <1>3
<1>6. ~HasRead(r, kind)
  BY <1>3 DEF HasRead
<1>7. CASE Refuses(c, d)
  <2>1. req' = [req EXCEPT ![c] = NoRequest]
    BY <1>3, <1>7 DEF Answer
  <2>2. ~(r.op = "publish" /\ kind = "worker")
    BY <1>1, <1>7 DEF Refuses
  <2>3. ASSUME Midway(r, kind, d, tar[r.name]) PROVE InStep(d, tar[r.name])
    <3>1. Tarballs(r, kind, Digests(d)) = Digests(d)
      <4>1. CASE r.op = "publish"
        <5>1. r.pc \notin (IF kind = "file" THEN {"save", "write"} ELSE {"read", "save"})
          BY <1>3, <1>4, <2>2, <4>1
        <5> QED BY <4>1, <5>1 DEF Tarballs
      <4>2. CASE r.op # "publish"
        BY <4>2, <1>3 DEF Tarballs
      <4> QED BY <4>1, <4>2
    <3> QED BY <3>1, <2>3, <1>3, <1>6 DEF Midway, InStep
  <2> QED BY <1>1, <1>2, <1>3, <1>4, <1>5, <2>1, <2>3, NoRequestIsOne, StepKeeps
<1>8. CASE ~Refuses(c, d)
  <2>1. PICK s : s = [r EXCEPT !.pc = AfterRead(c), !.seen = d, !.todo = DOMAIN d.versions]
    OBVIOUS
  <2>2. req' = [req EXCEPT ![c] = s]
    BY <1>1, <1>3, <1>4, <1>8, <2>1
  <2>3. /\ IsRequest(s) /\ SameAsked(s, r) /\ s.seen = d /\ s.todo = DOMAIN d.versions
        /\ s.pc = AfterRead(c)
    <3>1. PICK pc : pc = AfterRead(c)
      OBVIOUS
    <3>2. PICK all : all = DOMAIN d.versions
      OBVIOUS
    <3>3. s = [r EXCEPT !.pc = pc, !.seen = d, !.todo = all]
      BY <2>1, <3>1, <3>2, Zenon
    <3>4. IsRequest(r)
      BY <1>4
    <3>5. IsRequest(s) /\ SameAsked(s, r) /\ s.pc = pc /\ s.seen = d /\ s.todo = all
      BY ONLY <3>3, <3>4 DEF IsRequest, SameAsked
    <3> QED BY <3>1, <3>2, <3>5
  <2>4. /\ s.op = r.op /\ s.name = r.name /\ s.ver = r.ver /\ s.bytes = r.bytes
        /\ r.op \in {"publish", "unpublish", "deprecate", "delete"} /\ r.pc = "read"
        /\ kind \in {"file", "worker"}
    BY <1>3, <1>4, <2>3 DEF SameAsked, Asks
  <2>5. s.pc = CASE r.op = "publish" -> IF kind = "file" THEN "tarball" ELSE "save"
                 [] r.op = "deprecate" -> "save"
                 [] OTHER -> "tarball"
    BY <1>1, <2>3 DEF AfterRead
  <2>6. /\ r.op = "publish" /\ kind = "file" => s.pc = "tarball"
        /\ r.op = "publish" /\ kind = "worker" => s.pc = "save"
        /\ r.op = "deprecate" => s.pc = "save"
        /\ r.op \in {"unpublish", "delete"} => s.pc = "tarball"
        /\ s.pc \in {"tarball", "save"}
    BY <2>4, <2>5
  <2>7. /\ r.op = "publish" /\ kind = "file" => r.ver \notin DOMAIN d.versions
        /\ r.op \in {"unpublish", "deprecate"} => r.ver \in DOMAIN d.versions
    BY <1>1, <1>8 DEF Refuses
  <2>8. HasRead(s, kind)
    BY <2>4, <2>6 DEF HasRead
  <2>9. Knows(s, kind)
    BY <1>4, <2>3, <2>4, <2>6, <2>7 DEF Knows
  <2>10. RequestOK(s, kind) /\ s.pc # "idle"
    BY <1>4, <2>3, <2>6, <2>9, SameAsks DEF RequestOK
  <2>11. ASSUME Midway(r, kind, d, tar[r.name]) PROVE Midway(s, kind, d, tar[r.name])
    <3>1. tar[r.name] = Tarballs(r, kind, Digests(d))
      BY <1>6, <2>11 DEF Midway
    <3> DEFINE f == Digests(d)
    <3>2. Restrict(f, DOMAIN d.versions) = f
      BY DEF Restrict, Digests
    <3> HIDE DEF f
    <3>3. Tarballs(s, kind, f) = Tarballs(r, kind, f)
      <4>1. CASE r.op = "publish" /\ kind = "file"
        BY <4>1, <2>4, <2>6 DEF Tarballs
      <4>2. CASE r.op = "publish" /\ kind = "worker"
        BY <4>2, <2>4, <2>6 DEF Tarballs
      <4>3. CASE r.op = "unpublish"
        BY <4>3, <2>4, <2>6 DEF Tarballs
      <4>4. CASE r.op = "deprecate"
        BY <4>4, <2>4 DEF Tarballs
      <4>5. CASE r.op = "delete"
        BY <4>5, <2>3, <2>4, <2>6, <3>2 DEF Tarballs
      <4> QED BY <2>4, <4>1, <4>2, <4>3, <4>4, <4>5
    <3>4. s.pc # "write"
      BY <2>6
    <3> QED BY <1>3, <2>3, <2>8, <3>1, <3>3, <3>4 DEF Midway, f
  <2> QED BY <1>1, <1>2, <1>3, <1>4, <1>5, <2>2, <2>4, <2>10, <2>11, StepKeeps
<1> QED BY <1>7, <1>8

LEMMA PutTarballKeeps ==
  ASSUME RegistryInv, NEW c \in Slots, PutTarball(c)
  PROVE  RegistryInv'
<1>1. PICK r : r = req[c]
  OBVIOUS
<1>2. PICK s : s = [r EXCEPT !.pc = IF kind = "file" THEN "save" ELSE "read"]
  OBVIOUS
<1>3. /\ r.pc = "tarball" /\ r.op = "publish"
      /\ tar' = [tar EXCEPT ![r.name] = With(tar[r.name], r.ver, r.bytes)]
      /\ UNCHANGED <<kind, meta, count, raced>>
  BY <1>1 DEF PutTarball
<1>4. /\ IsRequest(r) /\ Asks(r) /\ Knows(r, kind) /\ r.name \in Names
      /\ DOMAIN meta = Names /\ DOMAIN tar = Names /\ DOMAIN req = Slots /\ kind \in {"file", "worker"}
      /\ (meta[r.name] = Torn \/ IsSound(r.name, meta[r.name])) /\ DOMAIN tar[r.name] \in SUBSET Versions
  BY <1>1, <1>3, UnderWay
<1>5. req' = [req EXCEPT ![c] = s]
  BY <1>1, <1>2, <1>4 DEF PutTarball, Goto
<1>6. /\ IsRequest(s) /\ SameAsked(s, r) /\ s.seen = r.seen
      /\ s.pc = IF kind = "file" THEN "save" ELSE "read"
  BY <1>2, <1>4, RequestMoves
<1>7. s.op = "publish" /\ s.ver = r.ver /\ s.bytes = r.bytes /\ s.name = r.name
  BY <1>3, <1>6 DEF SameAsked
<1>8. HasRead(s, kind) <=> HasRead(r, kind)
  BY <1>3, <1>4, <1>6 DEF HasRead
<1>9. Knows(s, kind)
  BY <1>3, <1>4, <1>6, <1>7, <1>8 DEF Knows
<1>10. RequestOK(s, kind) /\ s.pc # "idle"
  BY <1>4, <1>6, <1>9, SameAsks DEF RequestOK
<1>11. /\ meta'[r.name] = meta[r.name] /\ tar'[r.name] = With(tar[r.name], r.ver, r.bytes)
       /\ \A n \in Names : n # r.name => meta'[n] = meta[n] /\ tar'[n] = tar[n]
       /\ DOMAIN tar' = Names /\ DOMAIN meta' = Names
  BY <1>3, <1>4
<1>12. DOMAIN tar'[r.name] \in SUBSET Versions
  BY <1>3, <1>4, <1>11 DEF With, Asks
<1>13. ASSUME Midway(r, kind, meta[r.name], tar[r.name])
       PROVE  Midway(s, kind, meta'[r.name], tar'[r.name])
  <2> DEFINE f == Digests(IF HasRead(r, kind) THEN r.seen ELSE meta[r.name])
  <2>1. tar[r.name] = Tarballs(r, kind, f)
    BY <1>13 DEF Midway
  <2> HIDE DEF f
  <2>2. r.pc \notin (IF kind = "file" THEN {"save", "write"} ELSE {"read", "save"})
    BY <1>3, <1>4
  <2>3. Tarballs(r, kind, f) = f
    BY <1>3, <2>2 DEF Tarballs
  <2>4. s.pc \in (IF kind = "file" THEN {"save", "write"} ELSE {"read", "save"})
    BY <1>4, <1>6
  <2>5. Tarballs(s, kind, f) = With(f, r.ver, r.bytes)
    BY <1>7, <2>4 DEF Tarballs
  <2>6. tar'[r.name] = Tarballs(s, kind, f)
    BY <1>11, <2>1, <2>3, <2>5
  <2>7. s.pc # "write" /\ r.pc # "write"
    BY <1>3, <1>6
  <2> QED BY <1>6, <1>8, <1>11, <1>13, <2>6, <2>7 DEF Midway, f
<1> QED BY <1>1, <1>3, <1>4, <1>5, <1>7, <1>10, <1>11, <1>12, <1>13, StepKeeps

LEMMA RemoveTarballKeeps ==
  ASSUME RegistryInv, NEW c \in Slots, RemoveTarball(c)
  PROVE  RegistryInv'
<1>1. PICK r : r = req[c]
  OBVIOUS
<1>2. PICK s : s = [r EXCEPT !.pc = "save"]
  OBVIOUS
<1>3. /\ r.pc = "tarball" /\ r.op = "unpublish"
      /\ tar' = [tar EXCEPT ![r.name] = Without(tar[r.name], r.ver)]
      /\ UNCHANGED <<kind, meta, count, raced>>
  BY <1>1 DEF RemoveTarball
<1>4. /\ IsRequest(r) /\ Asks(r) /\ Knows(r, kind) /\ r.name \in Names
      /\ DOMAIN meta = Names /\ DOMAIN tar = Names /\ DOMAIN req = Slots /\ kind \in {"file", "worker"}
      /\ (meta[r.name] = Torn \/ IsSound(r.name, meta[r.name])) /\ DOMAIN tar[r.name] \in SUBSET Versions
  BY <1>1, <1>3, UnderWay
<1>5. req' = [req EXCEPT ![c] = s]
  BY <1>1, <1>2, <1>4 DEF RemoveTarball, Goto
<1>6. IsRequest(s) /\ SameAsked(s, r) /\ s.seen = r.seen /\ s.pc = "save"
  BY <1>2, <1>4, RequestMoves
<1>7. s.op = "unpublish" /\ s.ver = r.ver /\ s.name = r.name
  BY <1>3, <1>6 DEF SameAsked
<1>8. HasRead(s, kind) /\ HasRead(r, kind)
  BY <1>3, <1>6 DEF HasRead
<1>9. Knows(s, kind)
  BY <1>3, <1>4, <1>6, <1>7, <1>8 DEF Knows
<1>10. RequestOK(s, kind) /\ s.pc # "idle"
  BY <1>4, <1>6, <1>9, SameAsks DEF RequestOK
<1>11. /\ meta'[r.name] = meta[r.name] /\ tar'[r.name] = Without(tar[r.name], r.ver)
       /\ \A n \in Names : n # r.name => meta'[n] = meta[n] /\ tar'[n] = tar[n]
       /\ DOMAIN tar' = Names /\ DOMAIN meta' = Names
  BY <1>3, <1>4
<1>12. DOMAIN tar'[r.name] \in SUBSET Versions
  BY <1>4, <1>11 DEF Without, Restrict
<1>13. ASSUME Midway(r, kind, meta[r.name], tar[r.name])
       PROVE  Midway(s, kind, meta'[r.name], tar'[r.name])
  <2>1. tar[r.name] = Digests(r.seen)
    BY <1>3, <1>8, <1>13 DEF Midway, Tarballs
  <2>2. Tarballs(s, kind, Digests(r.seen)) = Without(Digests(r.seen), r.ver)
    BY <1>6, <1>7 DEF Tarballs
  <2>3. tar'[r.name] = Tarballs(s, kind, Digests(s.seen))
    BY <1>6, <1>11, <2>1, <2>2
  <2> QED BY <1>3, <1>6, <1>8, <1>11, <1>13, <2>3 DEF Midway
<1> QED BY <1>1, <1>3, <1>4, <1>5, <1>7, <1>10, <1>11, <1>12, <1>13, StepKeeps

LEMMA RemoveDirectoryKeeps ==
  ASSUME RegistryInv, NEW c \in Slots, RemoveDirectory(c)
  PROVE  RegistryInv'
<1>1. PICK r : r = req[c]
  OBVIOUS
<1>2. /\ r.pc = "tarball" /\ req' = [req EXCEPT ![c] = NoRequest]
      /\ tar' = [tar EXCEPT ![r.name] = <<>>] /\ meta' = [meta EXCEPT ![r.name] = Absent]
      /\ UNCHANGED <<kind, count, raced>>
  BY <1>1 DEF RemoveDirectory, Answer
<1>3. r.name \in Names /\ DOMAIN meta = Names /\ DOMAIN tar = Names
  BY <1>1, <1>2, UnderWay
<1>4. /\ meta'[r.name] = Absent /\ tar'[r.name] = <<>>
      /\ \A n \in Names : n # r.name => meta'[n] = meta[n] /\ tar'[n] = tar[n]
      /\ DOMAIN tar' = Names /\ DOMAIN meta' = Names
  BY <1>2, <1>3
<1>5. <<>> = Digests(Absent)
  BY AbsentIsSound DEF Digests
<1>6. /\ InStep(meta'[r.name], tar'[r.name]) /\ IsSound(r.name, meta'[r.name])
      /\ DOMAIN tar'[r.name] \in SUBSET Versions
  BY <1>4, <1>5, AbsentIsSound, NothingIsEmpty DEF InStep
<1> QED BY <1>1, <1>2, <1>4, <1>6, NoRequestIsOne, StepKeeps

LEMMA RemoveEachKeeps ==
  ASSUME RegistryInv, NEW c \in Slots, RemoveEach(c)
  PROVE  RegistryInv'
<1>1. PICK r : r = req[c]
  OBVIOUS
<1>2. /\ r.pc = "tarball" /\ r.op = "delete" /\ kind = "worker"
      /\ UNCHANGED <<kind, meta, count, raced>>
  BY <1>1 DEF RemoveEach
<1>3. /\ IsRequest(r) /\ Asks(r) /\ Knows(r, kind) /\ r.name \in Names
      /\ DOMAIN meta = Names /\ DOMAIN tar = Names /\ DOMAIN req = Slots
      /\ (meta[r.name] = Torn \/ IsSound(r.name, meta[r.name])) /\ DOMAIN tar[r.name] \in SUBSET Versions
  BY <1>1, <1>2, UnderWay
<1>4. HasRead(r, kind)
  BY <1>2 DEF HasRead
<1>5. IsSound(r.name, r.seen) /\ r.todo \in SUBSET DOMAIN r.seen.versions
  BY <1>2, <1>3, <1>4 DEF Knows
<1>6. ASSUME Midway(r, kind, meta[r.name], tar[r.name])
      PROVE  tar[r.name] = Restrict(Digests(r.seen), r.todo) /\ meta[r.name] # Torn /\ meta[r.name] = r.seen
  BY <1>2, <1>4, <1>6 DEF Midway, Tarballs
<1>7. ASSUME NEW v \in r.todo,
             tar' = [tar EXCEPT ![r.name] = Without(tar[r.name], v)],
             req' = [req EXCEPT ![c].todo = r.todo \ {v}]
      PROVE  RegistryInv'
  <2>1. PICK s : s = [r EXCEPT !.todo = r.todo \ {v}]
    OBVIOUS
  <2>2. req' = [req EXCEPT ![c] = s]
    BY <1>1, <1>3, <1>7, <2>1
  <2>3. IsRequest(s) /\ SameAsked(s, r) /\ s.pc = r.pc /\ s.seen = r.seen /\ s.todo = r.todo \ {v}
    BY <1>3, <2>1, RequestRemoves
  <2>4. s.op = "delete" /\ s.name = r.name
    BY <1>2, <2>3 DEF SameAsked
  <2>5. HasRead(s, kind)
    BY <1>2, <2>3, <2>4 DEF HasRead
  <2>6. Knows(s, kind)
    BY <1>2, <1>5, <2>3, <2>4 DEF Knows
  <2>7. RequestOK(s, kind) /\ s.pc # "idle"
    BY <1>2, <1>3, <2>3, <2>6, SameAsks DEF RequestOK
  <2>8. /\ meta'[r.name] = meta[r.name] /\ tar'[r.name] = Without(tar[r.name], v)
        /\ \A n \in Names : n # r.name => meta'[n] = meta[n] /\ tar'[n] = tar[n]
        /\ DOMAIN tar' = Names /\ DOMAIN meta' = Names
    BY <1>2, <1>3, <1>7
  <2>9. DOMAIN tar'[r.name] \in SUBSET Versions
    BY <1>3, <2>8 DEF Without, Restrict
  <2>10. ASSUME Midway(r, kind, meta[r.name], tar[r.name])
         PROVE  Midway(s, kind, meta'[r.name], tar'[r.name])
    <3>1. tar'[r.name] = Without(Restrict(Digests(r.seen), r.todo), v)
      BY <1>6, <2>8, <2>10
    <3>2. Without(Restrict(Digests(r.seen), r.todo), v) = Restrict(Digests(r.seen), r.todo \ {v})
      BY DEF Without, Restrict
    <3>3. Tarballs(s, kind, Digests(r.seen)) = Restrict(Digests(r.seen), r.todo \ {v})
      BY <1>2, <2>3, <2>4 DEF Tarballs
    <3> QED BY <1>2, <1>6, <2>3, <2>5, <2>8, <2>10, <3>1, <3>2, <3>3 DEF Midway
  <2> QED BY <1>1, <1>2, <1>3, <2>2, <2>4, <2>7, <2>8, <2>9, <2>10, StepKeeps
<1>8. ASSUME r.todo = {}, Goto(c, "save"), UNCHANGED tar PROVE RegistryInv'
  <2>1. PICK s : s = [r EXCEPT !.pc = "save"]
    OBVIOUS
  <2>2. req' = [req EXCEPT ![c] = s]
    BY <1>1, <1>3, <1>8, <2>1 DEF Goto
  <2>3. IsRequest(s) /\ SameAsked(s, r) /\ s.pc = "save" /\ s.seen = r.seen /\ s.todo = {}
    BY <1>3, <1>8, <2>1, RequestMoves
  <2>4. s.op = "delete" /\ s.name = r.name
    BY <1>2, <2>3 DEF SameAsked
  <2>5. HasRead(s, kind)
    BY <2>3 DEF HasRead
  <2>6. Knows(s, kind)
    BY <1>2, <1>5, <2>3, <2>4 DEF Knows
  <2>7. RequestOK(s, kind) /\ s.pc # "idle"
    BY <1>3, <2>3, <2>6, SameAsks DEF RequestOK
  <2>8. \A n \in Names : meta'[n] = meta[n] /\ tar'[n] = tar[n]
    BY <1>2, <1>8
  <2>9. ASSUME Midway(r, kind, meta[r.name], tar[r.name])
        PROVE  Midway(s, kind, meta'[r.name], tar'[r.name])
    <3>1. Tarballs(s, kind, Digests(r.seen)) = Restrict(Digests(r.seen), {})
      BY <1>2, <2>3, <2>4 DEF Tarballs
    <3> QED BY <1>3, <1>6, <1>8, <2>3, <2>5, <2>8, <2>9, <3>1 DEF Midway
  <2> QED BY <1>1, <1>2, <1>3, <1>8, <2>2, <2>4, <2>7, <2>8, <2>9, StepKeeps
<1> QED BY <1>1, <1>7, <1>8 DEF RemoveEach

LEMMA TearKeeps ==
  ASSUME RegistryInv, NEW c \in Slots, Tear(c)
  PROVE  RegistryInv'
<1>1. PICK r : r = req[c]
  OBVIOUS
<1>2. PICK s : s = [r EXCEPT !.pc = "write"]
  OBVIOUS
<1>3. /\ r.pc = "save" /\ kind = "file" /\ meta' = [meta EXCEPT ![r.name] = Torn]
      /\ UNCHANGED <<kind, tar, count, raced>>
  BY <1>1 DEF Tear
<1>4. /\ IsRequest(r) /\ Asks(r) /\ Knows(r, kind) /\ r.name \in Names
      /\ DOMAIN meta = Names /\ DOMAIN tar = Names /\ DOMAIN req = Slots
      /\ DOMAIN tar[r.name] \in SUBSET Versions
  BY <1>1, <1>3, UnderWay
<1>5. req' = [req EXCEPT ![c] = s]
  BY <1>1, <1>2, <1>4 DEF Tear, Goto
<1>6. IsRequest(s) /\ SameAsked(s, r) /\ s.seen = r.seen /\ s.pc = "write" /\ s.todo = r.todo
  BY <1>2, <1>4, RequestMoves
<1>7. s.op = r.op /\ s.ver = r.ver /\ s.bytes = r.bytes /\ s.name = r.name
  BY <1>6 DEF SameAsked
<1>8. HasRead(s, kind) /\ HasRead(r, kind)
  BY <1>3, <1>6 DEF HasRead
<1>9. Knows(s, kind)
  BY <1>3, <1>4, <1>6, <1>7, <1>8 DEF Knows
<1>10. RequestOK(s, kind) /\ s.pc # "idle"
  BY <1>4, <1>6, <1>9, SameAsks DEF RequestOK
<1>11. /\ meta'[r.name] = Torn /\ tar'[r.name] = tar[r.name]
       /\ \A n \in Names : n # r.name => meta'[n] = meta[n] /\ tar'[n] = tar[n]
       /\ DOMAIN tar' = Names /\ DOMAIN meta' = Names
  BY <1>3, <1>4
<1>12. ASSUME Midway(r, kind, meta[r.name], tar[r.name])
       PROVE  Midway(s, kind, meta'[r.name], tar'[r.name])
  <2>1. tar[r.name] = Tarballs(r, kind, Digests(r.seen))
    BY <1>8, <1>12 DEF Midway
  <2>2. Tarballs(s, kind, Digests(r.seen)) = Tarballs(r, kind, Digests(r.seen))
    BY <1>3, <1>6, <1>7 DEF Tarballs
  <2> QED BY <1>6, <1>8, <1>11, <2>1, <2>2 DEF Midway
<1> QED BY <1>1, <1>3, <1>4, <1>5, <1>7, <1>10, <1>11, <1>12, StepKeeps

LEMMA SaveKeeps ==
  ASSUME RegistryInv, NEW c \in Slots, Save(c)
  PROVE  RegistryInv'
<1>1. PICK r : r = req[c]
  OBVIOUS
<1>2. PICK d : d = Document(c)
  OBVIOUS
<1>3. /\ r.pc \in {"save", "write"} /\ req' = [req EXCEPT ![c] = NoRequest]
      /\ meta' = [meta EXCEPT ![r.name] = d]
      /\ tar' = IF kind = "file" /\ ~IsDocument(d) THEN [tar EXCEPT ![r.name] = <<>>] ELSE tar
      /\ UNCHANGED <<kind, count, raced>>
  BY <1>1, <1>2 DEF Save, Answer
<1>4. /\ RequestOK(r, kind) /\ r.name \in Names /\ kind \in {"file", "worker"}
      /\ DOMAIN meta = Names /\ DOMAIN tar = Names /\ DOMAIN req = Slots
      /\ DOMAIN tar[r.name] \in SUBSET Versions
  BY <1>1, <1>3, UnderWay
<1>5. IsSound(r.name, d) /\ \A m, t : Midway(r, kind, m, t) => t = Digests(d)
  BY <1>1, <1>2, <1>3, <1>4, DocumentIsWritten, WrittenIsSound
<1>6. /\ meta'[r.name] = d
      /\ tar'[r.name] = (IF kind = "file" /\ ~IsDocument(d) THEN <<>> ELSE tar[r.name])
      /\ \A n \in Names : n # r.name => meta'[n] = meta[n] /\ tar'[n] = tar[n]
      /\ DOMAIN tar' = Names /\ DOMAIN meta' = Names
  BY <1>3, <1>4
<1>7. DOMAIN tar'[r.name] \in SUBSET Versions
  BY <1>4, <1>6, NothingIsEmpty
<1>8. ~IsDocument(d) => <<>> = Digests(d)
  <2>1. ~IsDocument(d) => d = Absent
    BY <1>5 DEF IsSound, IsDocument
  <2>2. <<>> = Digests(Absent)
    BY AbsentIsSound DEF Digests
  <2> QED BY <2>1, <2>2
<1>9. ASSUME Midway(r, kind, meta[r.name], tar[r.name]) PROVE InStep(meta'[r.name], tar'[r.name])
  <2>1. d # Torn
    BY <1>5, SoundListing
  <2> QED BY <1>5, <1>6, <1>8, <1>9, <2>1 DEF InStep
<1> QED BY <1>1, <1>3, <1>4, <1>5, <1>6, <1>7, <1>9, NoRequestIsOne, StepKeeps

LEMMA RegistryStarts == RegistryInit => RegistryInv
<1> SUFFICES ASSUME RegistryInit PROVE RegistryInv
  OBVIOUS
<1>1. /\ kind \in Kinds /\ meta = [n \in Names |-> Absent] /\ tar = [n \in Names |-> <<>>]
      /\ req = [c \in Slots |-> NoRequest] /\ count = 0 /\ raced = {}
  BY DEF RegistryInit
<1>2. \A c \in Slots : req[c].pc = "idle" /\ RequestOK(req[c], kind)
  BY <1>1, NoRequestIsOne
<1>3. \A n \in Names : IsSound(n, meta[n]) /\ DOMAIN tar[n] \in SUBSET Versions /\ InStep(meta[n], tar[n])
  <2> TAKE n \in Names
  <2>1. meta[n] = Absent /\ tar[n] = <<>>
    BY <1>1
  <2>2. <<>> = Digests(Absent)
    BY AbsentIsSound DEF Digests
  <2> QED BY <2>1, <2>2, AbsentIsSound, NothingIsEmpty DEF InStep
<1>4. RegistryOK
  <2>1. count \in 0..MaxRequests
    BY <1>1, RegistryAssumption
  <2> QED BY <1>1, <1>2, <1>3, <2>1 DEF RegistryOK
<1>5. \A n \in Names : Agrees(n)
  BY <1>2, <1>3 DEF Agrees, Busy
<1> QED BY <1>4, <1>5 DEF RegistryInv

LEMMA RegistryRests ==
  ASSUME RegistryInv, UNCHANGED registryVars
  PROVE  RegistryInv'
<1>1. kind' = kind /\ meta' = meta /\ tar' = tar /\ req' = req /\ count' = count /\ raced' = raced
  BY DEF registryVars
<1>2. RegistryOK'
  <2>1. RegistryOK
    BY DEF RegistryInv
  <2> QED BY <1>1, <2>1 DEF RegistryOK
<1>3. \A n \in Names \ raced : Agrees(n)'
  <2>1. \A n \in Names \ raced : Agrees(n)
    BY DEF RegistryInv
  <2> QED BY <1>1, <2>1 DEF Agrees
<1> QED BY <1>1, <1>2, <1>3 DEF RegistryInv

LEMMA RegistryGoesOn ==
  ASSUME RegistryInv, RegistryNext
  PROVE  RegistryInv'
<1>1. ASSUME NEW c \in Slots, NEW p \in Publishes, AskPublish(c, p) PROVE RegistryInv'
  BY <1>1, AskPublishKeeps
<1>2. ASSUME NEW c \in Slots, NEW n \in Names, NEW v \in Versions, AskUnpublish(c, n, v) PROVE RegistryInv'
  BY <1>2, AskUnpublishKeeps
<1>3. ASSUME NEW c \in Slots, NEW n \in Names, NEW v \in Versions, AskDeprecate(c, n, v) PROVE RegistryInv'
  BY <1>3, AskDeprecateKeeps
<1>4. ASSUME NEW c \in Slots, NEW n \in Names, AskDelete(c, n) PROVE RegistryInv'
  BY <1>4, AskDeleteKeeps
<1>5. ASSUME NEW c \in Slots, Read(c) PROVE RegistryInv'
  BY <1>5, ReadKeeps
<1>6. ASSUME NEW c \in Slots, PutTarball(c) PROVE RegistryInv'
  BY <1>6, PutTarballKeeps
<1>7. ASSUME NEW c \in Slots, RemoveTarball(c) PROVE RegistryInv'
  BY <1>7, RemoveTarballKeeps
<1>8. ASSUME NEW c \in Slots, RemoveDirectory(c) PROVE RegistryInv'
  BY <1>8, RemoveDirectoryKeeps
<1>9. ASSUME NEW c \in Slots, RemoveEach(c) PROVE RegistryInv'
  BY <1>9, RemoveEachKeeps
<1>10. ASSUME NEW c \in Slots, Tear(c) PROVE RegistryInv'
  BY <1>10, TearKeeps
<1>11. ASSUME NEW c \in Slots, Save(c) PROVE RegistryInv'
  BY <1>11, SaveKeeps
<1>12. ASSUME NEW c \in Slots, ReadsTorn(c) PROVE RegistryInv'
  BY <1>12, CutOffKeeps DEF ReadsTorn
<1>13. ASSUME ServerStops PROVE RegistryInv'
  BY <1>13, CutOffKeeps DEF ServerStops
<1> QED BY <1>1, <1>2, <1>3, <1>4, <1>5, <1>6, <1>7, <1>8, <1>9, <1>10, <1>11, <1>12, <1>13
        DEF RegistryNext

LEMMA RegistryFitsTogether == RegistryInv => TagsAreSound /\ StoresAgree
<1> SUFFICES ASSUME RegistryInv PROVE TagsAreSound /\ StoresAgree
  OBVIOUS
<1>1. RegistryOK /\ \A n \in Names \ raced : Agrees(n)
  BY DEF RegistryInv
<1>2. ASSUME NEW n \in Names, IsDocument(meta[n])
      PROVE  "latest" \in DOMAIN meta[n].tags /\ \A t \in DOMAIN meta[n].tags : meta[n].tags[t] \in Listed(n) \cup Foreign(n, t)
  <2>1. meta[n] # Torn /\ meta[n] # Absent
    BY <1>2 DEF IsDocument, Torn, Absent
  <2>2. IsTagging(n, meta[n].tags, meta[n].versions)
    BY <1>1, <2>1 DEF RegistryOK, IsSound
  <2> QED BY <2>2 DEF IsTagging, Listed
<1>3. ASSUME NEW n \in Names \ raced, \A c \in Slots : req[c].name # n
      PROVE  tar[n] = [v \in Listed(n) |-> meta[n].versions[v].digest]
  <2>1. \A c \in Slots : ~Busy(req[c], n)
    BY <1>3 DEF Busy
  <2>2. tar[n] = Digests(meta[n])
    BY <1>1, <2>1 DEF Agrees, InStep
  <2> QED BY <2>2 DEF Digests, Listed
<1> QED BY <1>2, <1>3 DEF TagsAreSound, StoresAgree

\* What becomes of the tarballs of the file server in one step: some go, and one
\* may come of a version that the document does not list.
LEMMA FileKeepsPublished ==
  ASSUME RegistryInv, RegistryNext, kind = "file"
  PROVE  KeepsPublished
<1> SUFFICES ASSUME NEW n \in Names \ raced', NEW v \in Listed(n) \cap DOMAIN tar[n] \cap DOMAIN tar'[n]
             PROVE  tar'[n][v] = tar[n][v]
  BY DEF KeepsPublished
<1>1. ASSUME UNCHANGED tar PROVE tar'[n][v] = tar[n][v]
  BY <1>1
<1>2. DOMAIN tar = Names
  BY DEF RegistryInv, RegistryOK
<1>3. ASSUME NEW c \in Slots, PutTarball(c) PROVE tar'[n][v] = tar[n][v]
  <2>1. PICK r : r = req[c]
    OBVIOUS
  <2>2. /\ r.pc = "tarball" /\ r.op = "publish" /\ raced' = raced
        /\ tar' = [tar EXCEPT ![r.name] = With(tar[r.name], r.ver, r.bytes)]
    BY <1>3, <2>1 DEF PutTarball
  <2>3. CASE n = r.name
    <3>1. Busy(r, n) /\ HasRead(r, kind)
      BY <2>2, <2>3 DEF Busy, HasRead
    <3>2. Midway(r, kind, meta[n], tar[n])
      BY <2>1, <2>2, <3>1 DEF RegistryInv, Agrees
    <3>3. meta[n] = r.seen
      BY <2>2, <3>1, <3>2 DEF Midway
    <3>4. Knows(r, kind)
      BY <2>1, <2>2, UnderWay
    <3>5. v # r.ver
      BY <2>2, <3>1, <3>3, <3>4 DEF Knows, Listed
    <3>6. tar'[n] = With(tar[n], r.ver, r.bytes)
      BY <1>2, <2>2, <2>3
    <3> QED BY <3>5, <3>6 DEF With
  <2>4. CASE n # r.name
    BY <1>2, <2>2, <2>4
  <2> QED BY <2>3, <2>4
<1>4. ASSUME NEW c \in Slots, RemoveTarball(c) PROVE tar'[n][v] = tar[n][v]
  <2>1. tar' = [tar EXCEPT ![req[c].name] = Without(tar[req[c].name], req[c].ver)]
    BY <1>4 DEF RemoveTarball
  <2>2. tar'[n] = tar[n] \/ tar'[n] = Without(tar[n], req[c].ver)
    BY <1>2, <2>1
  <2> QED BY <2>2 DEF Without, Restrict
<1>5. ASSUME NEW c \in Slots, RemoveDirectory(c) PROVE tar'[n][v] = tar[n][v]
  <2>1. tar' = [tar EXCEPT ![req[c].name] = <<>>]
    BY <1>5 DEF RemoveDirectory
  <2>2. tar'[n] = tar[n] \/ DOMAIN tar'[n] = {}
    BY <1>2, <2>1, NothingIsEmpty
  <2> QED BY <2>2
<1>6. ASSUME NEW c \in Slots, Save(c) PROVE tar'[n][v] = tar[n][v]
  <2>1. tar' = tar \/ tar' = [tar EXCEPT ![req[c].name] = <<>>]
    BY <1>6 DEF Save
  <2>2. tar'[n] = tar[n] \/ DOMAIN tar'[n] = {}
    BY <1>2, <2>1, NothingIsEmpty
  <2> QED BY <2>2
<1>7. \A c \in Slots : ~RemoveEach(c)
  BY DEF RemoveEach
<1>8. \A c \in Slots : \A r : Ask(c, r) => UNCHANGED tar
  BY DEF Ask
<1>9. ASSUME NEW c \in Slots, Read(c) \/ Tear(c) \/ ReadsTorn(c) PROVE UNCHANGED tar
  BY <1>9 DEF Read, Tear, ReadsTorn, CutOff
<1>10. ServerStops => UNCHANGED tar
  BY DEF ServerStops, CutOff
<1>11. ASSUME NEW c \in Slots,
              \/ \E p \in Publishes : AskPublish(c, p)
              \/ \E m \in Names, w \in Versions : AskUnpublish(c, m, w) \/ AskDeprecate(c, m, w)
              \/ \E m \in Names : AskDelete(c, m)
       PROVE UNCHANGED tar
  BY <1>8, <1>11 DEF AskPublish, AskUnpublish, AskDeprecate, AskDelete
<1> QED BY <1>1, <1>3, <1>4, <1>5, <1>6, <1>7, <1>9, <1>10, <1>11 DEF RegistryNext

-----------------------------------------------------------------------------
(* The queue *)

LEMMA DemandsAreFinite ==
  ASSUME NEW deps \in Dependencies
  PROVE  /\ DOMAIN deps \in SUBSET Names /\ IsFiniteSet(DOMAIN deps)
         /\ \A n \in DOMAIN deps : deps[n] \in Ranges
         /\ Demands(deps) \in SUBSET Wanted /\ IsFiniteSet(Demands(deps))
<1>1. PICK S \in {T \in SUBSET Names : IsFiniteSet(T)} : deps \in [S -> Ranges]
  BY DEF Dependencies
<1>2. /\ DOMAIN deps \in SUBSET Names /\ IsFiniteSet(DOMAIN deps)
      /\ \A n \in DOMAIN deps : deps[n] \in Ranges
  BY <1>1
<1>3. Demands(deps) \in SUBSET Wanted
  BY <1>2 DEF Demands, Wanted
<1>4. ExistsSurjection(DOMAIN deps, Demands(deps))
  <2> DEFINE f == [n \in DOMAIN deps |-> [name |-> n, range |-> deps[n]]]
  <2>1. f \in [DOMAIN deps -> Demands(deps)] /\ \A d \in Demands(deps) : \E n \in DOMAIN deps : f[n] = d
    BY DEF Demands
  <2> QED BY <2>1 DEF ExistsSurjection, Surjection
<1>5. IsFiniteSet(Demands(deps))
  <2> PICK all, asked : all = DOMAIN deps /\ asked = Demands(deps)
    OBVIOUS
  <2>1. IsFiniteSet(all) /\ Surjection(all, asked) # {}
    BY <1>2, <1>4 DEF ExistsSurjection
  <2>2. IsFiniteSet(asked)
    BY <2>1, FS_Surjection
  <2> QED BY <2>2
<1> QED BY <1>2, <1>3, <1>5

\* All that is declared is asked for.
LEMMA OrderAsksForAll ==
  ASSUME NEW deps \in Dependencies
  PROVE  /\ AnOrder(Demands(deps)) \in Seq(Wanted)
         /\ \A n \in DOMAIN deps : \E i \in DOMAIN AnOrder(Demands(deps)) : AnOrder(Demands(deps))[i].name = n
<1> DEFINE D == Demands(deps)
           F == [1..Cardinality(D) -> D]
           All(s) == \A x \in D : \E i \in DOMAIN s : s[i] = x
<1>1. D \in SUBSET Wanted /\ IsFiniteSet(D)
  BY DemandsAreFinite
<1>2. Cardinality(D) \in Nat /\ ExistsBijection(1..Cardinality(D), D)
  BY <1>1, FS_CardinalityType
<1>3. PICK f : f \in F /\ \A x \in D : \E i \in 1..Cardinality(D) : f[i] = x
  BY <1>2 DEF ExistsBijection, Bijection, Surjection
<1>4. \E s \in F : All(s)
  BY <1>3
<1>5. PICK s : s = AnOrder(D)
  OBVIOUS
<1>6. s \in F /\ All(s)
  <2> HIDE DEF D
  <2> QED BY <1>4, <1>5 DEF AnOrder
<1>7. s \in Seq(Wanted)
  <2> HIDE DEF D
  <2>1. s \in [1..Cardinality(D) -> Wanted]
    BY <1>1, <1>6
  <2> PICK k : k = Cardinality(D)
    OBVIOUS
  <2>2. k \in Nat /\ s \in [1..k -> Wanted]
    BY <2>1, <1>2
  <2> QED BY <2>2
<1>8. ASSUME NEW n \in DOMAIN deps PROVE \E i \in DOMAIN s : s[i].name = n
  <2>1. [name |-> n, range |-> deps[n]] \in D
    BY DEF Demands
  <2>2. PICK i \in DOMAIN s : s[i] = [name |-> n, range |-> deps[n]]
    BY <2>1, <1>6
  <2> QED BY <2>2
<1> QED BY <1>5, <1>7, <1>8

-----------------------------------------------------------------------------
(* Commands *)

LEMMA NoCommandIsOne ==
  CommandOK(NoCommand) /\ DOMAIN NoCommand.records = {} /\ NoCommand.pc = "idle"
<1>1. IsCommand(NoCommand)
  BY DEF NoCommand, IsCommand
<1>2. NoCommand.pc = "idle" /\ NoCommand.queue = <<>> /\ NoCommand.records = <<>>
  BY DEF NoCommand
<1>3. NoCommand.queue \in Seq(Wanted) /\ DOMAIN NoCommand.records = {}
  BY <1>2, NothingIsEmpty
<1>4. Pending(NoCommand.records, NoCommand.queue)
  BY <1>3 DEF Pending
<1> QED BY <1>1, <1>2, <1>3, <1>4 DEF CommandOK, Walks

LEMMA InstallingIsOne ==
  ASSUME NEW deps \in Dependencies, NEW frozen
  PROVE  CommandOK(Installing(deps, frozen)) /\ DOMAIN Installing(deps, frozen).records = {}
<1>1. CASE DOMAIN deps = {}
  <2>1. Installing(deps, frozen) = NoCommand
    BY <1>1 DEF Installing
  <2> QED BY <2>1, NoCommandIsOne
<1>2. CASE DOMAIN deps # {}
  <2>1. PICK s : s = AnOrder(Demands(deps))
    OBVIOUS
  <2>2. s \in Seq(Wanted) /\ \A n \in DOMAIN deps : \E i \in DOMAIN s : s[i].name = n
    BY <2>1, OrderAsksForAll
  <2>3. s # <<>>
    BY <1>2, <2>2, NothingIsEmpty
  <2>4. PICK u : u = [NoCommand EXCEPT !.pc = "resolve", !.frozen = frozen, !.queue = s]
    OBVIOUS
  <2>5. Installing(deps, frozen) = u
    BY <1>2, <2>1, <2>4 DEF Installing
  <2>6. /\ IsCommand(u) /\ u.pc = "resolve" /\ u.queue = s /\ u.records = <<>> /\ u.chosen = <<>>
    BY <2>4 DEF NoCommand, IsCommand
  <2>7. DOMAIN u.records = {} /\ DOMAIN u.chosen = {}
    BY <2>6, NothingIsEmpty
  <2>8. /\ Pending(u.records, u.queue) /\ ChosenOK(u.chosen) /\ RecordsOK(u.records, u.chosen)
        /\ AtHead(u)
    BY <2>6, <2>7 DEF Pending, ChosenOK, RecordsOK, AtHead
  <2>9. CommandOK(u)
    BY <2>2, <2>3, <2>6, <2>8 DEF CommandOK, Walks
  <2> QED BY <2>5, <2>7, <2>9
<1> QED BY <1>1, <1>2

\* The parts of the invariant that a command may break.
LEMMA CommandKeeps ==
  ASSUME InstallOK, CommandOK(cmd'), OnDisk(cmd'.records, disk'), manifest' \in Dependencies,
         DOMAIN disk' \in SUBSET (Names \X Versions), ran' \in 0..MaxCommands, LockOK'
  PROVE  InstallOK'
BY DEF InstallOK

LEMMA LockStays == ASSUME LockOK, lock' = lock PROVE LockOK'
BY DEF LockOK, LockIsClosed

\* A command that begins, or ends with nothing recorded.
LEMMA CommandBegins ==
  ASSUME InstallOK, CommandOK(cmd'), DOMAIN cmd'.records = {}, manifest' \in Dependencies,
         UNCHANGED <<disk, lock>>, ran' \in 0..MaxCommands
  PROVE  InstallOK'
<1>1. OnDisk(cmd'.records, disk')
  BY DEF OnDisk
<1>2. LockOK'
  BY LockStays DEF InstallOK
<1>3. DOMAIN disk' \in SUBSET (Names \X Versions)
  BY DEF InstallOK
<1> QED BY <1>1, <1>2, <1>3, CommandKeeps

LEMMA BeginCounts ==
  ASSUME InstallOK, Begin
  PROVE  ran' \in 0..MaxCommands
BY InstallAssumption DEF InstallOK, Begin

LEMMA PublishedHasLatest ==
  ASSUME RegistryInv, NEW n \in Names, IsPublished(n)
  PROVE  LatestOf(n) \in Versions
<1>1. meta[n] # Torn /\ meta[n] # Absent
  BY DEF IsPublished, IsDocument, Torn, Absent
<1>2. IsListing(meta[n].versions) /\ IsTagging(n, meta[n].tags, meta[n].versions)
  BY <1>1 DEF RegistryInv, RegistryOK, IsSound
<1>3. \A p \in Publishes : \A t \in DOMAIN p.tags : p.tags[t] \in Versions
  BY InstallAssumption
<1>4. Foreign(n, "latest") \subseteq Versions
  BY <1>3 DEF Foreign
<1> QED BY <1>2, <1>4 DEF LatestOf, IsListing, IsTagging

LEMMA ListedHasEntry ==
  ASSUME RegistryInv, NEW n \in Names, NEW v \in DOMAIN meta[n].versions
  PROVE  meta[n].versions[v] \in Entries
<1>1. meta[n] # Torn
  BY NothingIsEmpty DEF Torn
<1>2. IsListing(meta[n].versions)
  BY <1>1, SoundListing DEF RegistryInv, RegistryOK
<1> QED BY <1>2 DEF IsListing

LEMMA DeclaresOneMore ==
  ASSUME NEW deps \in Dependencies, NEW n \in Names, NEW r \in Ranges
  PROVE  With(deps, n, r) \in Dependencies
<1>1. DOMAIN deps \in SUBSET Names /\ IsFiniteSet(DOMAIN deps) /\ \A m \in DOMAIN deps : deps[m] \in Ranges
  BY DemandsAreFinite
<1>2. IsFiniteSet(DOMAIN deps \cup {n})
  BY <1>1, FS_AddElement
<1>3. With(deps, n, r) \in [DOMAIN deps \cup {n} -> Ranges]
  BY <1>1 DEF With
<1> QED BY <1>1, <1>2, <1>3 DEF Dependencies

LEMMA InstallKeeps ==
  ASSUME InstallOK, NEW frozen, Install(frozen)
  PROVE  InstallOK'
<1>1. manifest \in Dependencies
  BY DEF InstallOK
<1>2. Begin /\ cmd' = Installing(manifest, frozen) /\ UNCHANGED <<manifest, disk, lock>>
  BY DEF Install
<1> QED BY <1>1, <1>2, BeginCounts, InstallingIsOne, CommandBegins

LEMMA AddKeeps ==
  ASSUME RegistryInv, InstallOK, NEW n \in Names, NEW exact, Add(n, exact)
  PROVE  InstallOK'
<1>1. manifest \in Dependencies
  BY DEF InstallOK
<1>2. Begin /\ UNCHANGED <<disk, lock>>
  BY DEF Add
<1>3. CASE IsPublished(n)
  <2>1. PICK r : r = [op |-> IF exact THEN "exact" ELSE "caret", ver |-> LatestOf(n)]
    OBVIOUS
  <2>2. r \in Ranges
    BY <1>3, <2>1, PublishedHasLatest DEF Ranges
  <2>3. manifest' = IF n \in DOMAIN manifest THEN manifest ELSE With(manifest, n, r)
    BY <1>3, <2>1 DEF Add
  <2>4. manifest' \in Dependencies
    BY <1>1, <2>2, <2>3, DeclaresOneMore
  <2>5. cmd' = Installing(manifest', FALSE)
    BY <1>3 DEF Add
  <2> QED BY <1>2, <2>4, <2>5, BeginCounts, InstallingIsOne, CommandBegins
<1>4. CASE ~IsPublished(n)
  <2>1. cmd' = NoCommand /\ manifest' = manifest
    BY <1>4 DEF Add, Fails
  <2> QED BY <1>1, <1>2, <2>1, BeginCounts, NoCommandIsOne, CommandBegins
<1> QED BY <1>3, <1>4

LEMMA AddVersionKeeps ==
  ASSUME InstallOK, NEW n \in Names, NEW v \in Versions, AddVersion(n, v)
  PROVE  InstallOK'
<1>1. manifest \in Dependencies
  BY DEF InstallOK
<1>2. Begin /\ UNCHANGED <<disk, lock>> /\ cmd' = Installing(manifest', FALSE)
  BY DEF AddVersion
<1>3. PICK r : r = [op |-> "exact", ver |-> v]
  OBVIOUS
<1>4. r \in Ranges
  BY <1>3 DEF Ranges
<1>5. manifest' = IF n \in DOMAIN manifest THEN manifest ELSE With(manifest, n, r)
  BY <1>3 DEF AddVersion
<1>6. manifest' \in Dependencies
  BY <1>1, <1>4, <1>5, DeclaresOneMore
<1> QED BY <1>2, <1>6, BeginCounts, InstallingIsOne, CommandBegins

LEMMA UpdateKeeps ==
  ASSUME InstallOK, NEW exact, Update(exact)
  PROVE  InstallOK'
<1>1. PICK deps : deps = manifest
  OBVIOUS
<1>2. deps \in Dependencies /\ ran' \in 0..MaxCommands
  BY <1>1, BeginCounts DEF InstallOK, Update
<1>3. PICK all : all = DOMAIN deps
  OBVIOUS
<1>4. PICK u : u = [NoCommand EXCEPT !.pc = "update", !.exact = exact, !.ask = all, !.chosen = deps]
  OBVIOUS
<1>5. cmd' = u /\ UNCHANGED <<manifest, disk, lock>>
  BY <1>1, <1>3, <1>4 DEF Update
<1>6. /\ IsCommand(u) /\ u.pc = "update" /\ u.queue = <<>> /\ u.records = <<>> /\ u.chosen = deps
  BY <1>4 DEF NoCommand, IsCommand
<1>7. u.queue \in Seq(Wanted) /\ DOMAIN u.records = {} /\ Pending(u.records, u.queue)
  BY <1>6, NothingIsEmpty DEF Pending
<1>8. CommandOK(u)
  BY <1>2, <1>6, <1>7 DEF CommandOK, Walks
<1> QED BY <1>1, <1>2, <1>5, <1>7, <1>8, CommandBegins

LEMMA UpdateOneKeeps ==
  ASSUME RegistryInv, InstallOK, NEW n \in Names, UpdateOne(n)
  PROVE  InstallOK'
<1>1. PICK old : old = cmd.chosen
  OBVIOUS
<1>2. /\ IsCommand(cmd) /\ cmd.pc = "update" /\ cmd.queue = <<>> /\ DOMAIN cmd.records = {}
      /\ old \in Dependencies /\ CommandOK(cmd)
      /\ UNCHANGED <<manifest, disk, lock, ran>>
  BY <1>1 DEF InstallOK, CommandOK, UpdateOne
<1>3. PICK new : new = [old EXCEPT ![n] = IF IsPublished(n) THEN Newer(old[n], LatestOf(n)) ELSE old[n]]
  OBVIOUS
<1>4. PICK ask : ask = cmd.ask \ {n}
  OBVIOUS
<1>5. PICK u : u = [cmd EXCEPT !.ask = ask, !.chosen = new]
  OBVIOUS
<1>6. cmd' = u
  BY <1>1, <1>2, <1>3, <1>4, <1>5 DEF UpdateOne, IsCommand
<1>7. new \in Dependencies
  <2>1. PICK S \in {T \in SUBSET Names : IsFiniteSet(T)} : old \in [S -> Ranges]
    BY <1>2 DEF Dependencies
  <2>2. n \in S => old[n] \in Ranges
    BY <2>1
  <2>3. n \in S /\ IsPublished(n) => Newer(old[n], LatestOf(n)) \in Ranges
    BY <2>2, PublishedHasLatest DEF Newer, Ranges
  <2>4. new \in [S -> Ranges]
    BY <1>3, <2>1, <2>2, <2>3
  <2> QED BY <2>1, <2>4 DEF Dependencies
<1>8. IsCommand(u) /\ u.pc = "update" /\ u.queue = <<>> /\ u.records = cmd.records /\ u.chosen = new
  BY <1>2, <1>5 DEF IsCommand
<1>9. u.queue \in Seq(Wanted) /\ DOMAIN u.records = {} /\ Pending(u.records, u.queue)
  BY <1>2, <1>8 DEF Pending
<1>10. CommandOK(u)
  BY <1>7, <1>8, <1>9 DEF CommandOK, Walks
<1>11. manifest' \in Dependencies /\ ran' \in 0..MaxCommands
  BY <1>2 DEF InstallOK
<1> QED BY <1>2, <1>6, <1>9, <1>10, <1>11, CommandBegins

LEMMA UpdateWritesKeeps ==
  ASSUME InstallOK, UpdateWrites
  PROVE  InstallOK'
<1>1. cmd.chosen \in Dependencies /\ ran' \in 0..MaxCommands
  BY DEF InstallOK, CommandOK, UpdateWrites
<1>2. manifest' = cmd.chosen /\ cmd' = Installing(cmd.chosen, FALSE) /\ UNCHANGED <<disk, lock>>
  BY DEF UpdateWrites
<1> QED BY <1>1, <1>2, InstallingIsOne, CommandBegins

-----------------------------------------------------------------------------
(* The walk *)

\* What is known of the command while it walks.
LEMMA Walking ==
  ASSUME InstallOK, cmd.pc \in Walks
  PROVE  /\ IsCommand(cmd) /\ AtHead(cmd) /\ ChosenOK(cmd.chosen) /\ RecordsOK(cmd.records, cmd.chosen)
         /\ cmd.queue \in Seq(Wanted) /\ cmd.queue # <<>> /\ Pending(cmd.records, cmd.queue)
         /\ OnDisk(cmd.records, disk) /\ Demand \in Wanted
         /\ manifest \in Dependencies /\ DOMAIN disk \in SUBSET (Names \X Versions)
         /\ ran \in 0..MaxCommands /\ LockOK
<1>1. CommandOK(cmd)
  BY DEF InstallOK
<1>2. cmd.queue \in Seq(Wanted) /\ cmd.queue # <<>>
  BY <1>1 DEF CommandOK
<1>3. Demand \in Wanted
  BY <1>2 DEF Demand
<1> QED BY <1>1, <1>2, <1>3 DEF CommandOK, InstallOK

\* A step of the walk that leaves the disk and the lockfile.
LEMMA WalkKeeps ==
  ASSUME InstallOK, CommandOK(cmd'), cmd'.records = cmd.records, UNCHANGED <<manifest, disk, lock, ran>>
  PROVE  InstallOK'
<1>1. OnDisk(cmd'.records, disk')
  BY DEF InstallOK, OnDisk
<1>2. LockOK'
  BY LockStays DEF InstallOK
<1> QED BY <1>1, <1>2, CommandKeeps DEF InstallOK

LEMMA FailKeeps ==
  ASSUME InstallOK, Fails, UNCHANGED <<manifest, disk, lock, ran>>
  PROVE  InstallOK'
BY NoCommandIsOne, CommandBegins DEF Fails, InstallOK

LEMMA ResolvedKeeps ==
  ASSUME InstallOK, cmd.pc = "resolve", NEW v \in Versions, Resolved(v),
         UNCHANGED <<manifest, disk, lock, ran>>
  PROVE  InstallOK'
<1>1. PICK n : n = Demand.name
  OBVIOUS
<1>2. PICK old, records : old = cmd.chosen /\ records = cmd.records
  OBVIOUS
<1>3. /\ IsCommand(cmd) /\ ChosenOK(old) /\ RecordsOK(records, old) /\ Pending(records, cmd.queue)
      /\ cmd.queue \in Seq(Wanted) /\ cmd.queue # <<>> /\ n \in Names
  BY <1>1, <1>2, Walking DEF Walks, Wanted
<1>4. CASE n \in DOMAIN old /\ old[n] # v
  BY <1>1, <1>2, <1>4, FailKeeps DEF Resolved
<1>5. CASE n \in DOMAIN old => old[n] = v
  <2>1. PICK new : new = With(old, n, v)
    OBVIOUS
  <2>2. PICK pc : pc = IF <<n, v>> \in DOMAIN records THEN "next" ELSE "entry"
    OBVIOUS
  <2>3. PICK u : u = [cmd EXCEPT !.chosen = new, !.pc = pc]
    OBVIOUS
  <2>4. cmd' = u
    BY <1>1, <1>2, <1>5, <2>1, <2>2, <2>3 DEF Resolved
  <2>5. /\ IsCommand(u) /\ u.pc = pc /\ u.queue = cmd.queue /\ u.records = records /\ u.chosen = new
    BY <1>2, <1>3, <2>3 DEF IsCommand
  <2>6. DOMAIN new = DOMAIN old \cup {n} /\ new[n] = v /\ \A m \in DOMAIN old : new[m] = old[m]
    BY <1>5, <2>1 DEF With
  <2>7. ChosenOK(new)
    BY <1>3, <2>6 DEF ChosenOK
  <2>8. RecordsOK(records, new)
    BY <1>3, <2>6 DEF RecordsOK
  <2>9. Head(u.queue).name = n
    BY <1>1, <2>5 DEF Demand
  <2>10. AtHead(u)
    BY <2>2, <2>5, <2>6, <2>9 DEF AtHead
  <2>11. pc \in Walks
    BY <2>2 DEF Walks
  <2>12. CommandOK(u)
    BY <1>3, <2>5, <2>7, <2>8, <2>10, <2>11 DEF CommandOK, Walks
  <2> QED BY <1>2, <2>4, <2>5, <2>12, WalkKeeps
<1> QED BY <1>4, <1>5

LEMMA ResolveKeeps ==
  ASSUME RegistryInv, InstallOK, Resolve
  PROVE  InstallOK'
<1>1. cmd.pc = "resolve" /\ UNCHANGED <<manifest, disk, lock, ran>>
  BY DEF Resolve
<1>2. Demand.name \in Names /\ Demand.range.ver \in Versions
  BY <1>1, Walking DEF Walks, Wanted, Ranges
<1>3. CASE Demand.range.op = "exact"
  BY <1>1, <1>2, <1>3, ResolvedKeeps DEF Resolve
<1>4. CASE Demand.range.op # "exact" /\ IsPublished(Demand.name)
  BY <1>1, <1>2, <1>4, PublishedHasLatest, ResolvedKeeps DEF Resolve
<1>5. CASE Demand.range.op # "exact" /\ ~IsPublished(Demand.name)
  BY <1>1, <1>5, FailKeeps DEF Resolve
<1> QED BY <1>3, <1>4, <1>5

LEMMA GetEntryKeeps ==
  ASSUME RegistryInv, InstallOK, GetEntry
  PROVE  InstallOK'
<1>1. PICK n, v, vs : n = Demand.name /\ v = cmd.chosen[n] /\ vs = meta[n].versions
  OBVIOUS
<1>2. cmd.pc = "entry" /\ UNCHANGED <<manifest, disk, lock, ran>>
  BY DEF GetEntry
<1>3. /\ IsCommand(cmd) /\ AtHead(cmd) /\ ChosenOK(cmd.chosen) /\ RecordsOK(cmd.records, cmd.chosen)
      /\ Pending(cmd.records, cmd.queue) /\ cmd.queue \in Seq(Wanted) /\ cmd.queue # <<>> /\ n \in Names
  BY <1>1, <1>2, Walking DEF Walks, Wanted
<1>4. CASE v \notin DOMAIN vs
  BY <1>1, <1>2, <1>4, FailKeeps DEF GetEntry
<1>5. CASE v \in DOMAIN vs
  <2>1. vs[v] \in Entries
    BY <1>1, <1>3, <1>5, ListedHasEntry
  <2>2. PICK e : e = [digest |-> vs[v].digest, deps |-> vs[v].deps]
    OBVIOUS
  <2>3. IsRecord(e)
    BY <2>1, <2>2 DEF IsRecord, Entries
  <2>4. PICK u : u = [cmd EXCEPT !.pc = "fetch", !.entry = e]
    OBVIOUS
  <2>5. cmd' = u
    BY <1>1, <1>5, <2>2, <2>4 DEF GetEntry
  <2>6. /\ IsCommand(u) /\ u.pc = "fetch" /\ u.queue = cmd.queue /\ u.records = cmd.records
        /\ u.chosen = cmd.chosen /\ u.entry = e
    BY <1>3, <2>4 DEF IsCommand
  <2>7. AtHead(u)
    BY <1>2, <1>3, <2>3, <2>6 DEF AtHead
  <2>8. CommandOK(u)
    BY <1>3, <2>6, <2>7 DEF CommandOK, Walks
  <2> QED BY <1>2, <2>5, <2>6, <2>8, WalkKeeps
<1> QED BY <1>4, <1>5

LEMMA FetchKeeps ==
  ASSUME InstallOK, Fetch
  PROVE  InstallOK'
<1>1. PICK v, served : v = cmd.chosen[Demand.name] /\ served = Served(Demand.name)
  OBVIOUS
<1>2. cmd.pc = "fetch" /\ UNCHANGED <<manifest, disk, lock, ran>>
  BY DEF Fetch
<1>3. /\ IsCommand(cmd) /\ AtHead(cmd) /\ ChosenOK(cmd.chosen) /\ RecordsOK(cmd.records, cmd.chosen)
      /\ Pending(cmd.records, cmd.queue) /\ cmd.queue \in Seq(Wanted) /\ cmd.queue # <<>>
  BY <1>2, Walking DEF Walks
<1>4. CASE ~(v \in DOMAIN served /\ served[v] = cmd.entry.digest)
  BY <1>1, <1>2, <1>4, FailKeeps DEF Fetch
<1>5. CASE v \in DOMAIN served /\ served[v] = cmd.entry.digest
  <2>1. PICK bytes : bytes = cmd.entry.digest
    OBVIOUS
  <2>2. PICK u : u = [cmd EXCEPT !.pc = "wipe", !.bytes = bytes]
    OBVIOUS
  <2>3. cmd' = u
    BY <1>1, <1>5, <2>1, <2>2 DEF Fetch
  <2>4. /\ IsCommand(u) /\ u.pc = "wipe" /\ u.queue = cmd.queue /\ u.records = cmd.records
        /\ u.chosen = cmd.chosen /\ u.entry = cmd.entry /\ u.bytes = cmd.entry.digest
    BY <1>3, <2>1, <2>2 DEF IsCommand
  <2>5. AtHead(u)
    BY <1>2, <1>3, <2>4 DEF AtHead
  <2>6. CommandOK(u)
    BY <1>3, <2>4, <2>5 DEF CommandOK, Walks
  <2> QED BY <1>2, <2>3, <2>4, <2>6, WalkKeeps
<1> QED BY <1>4, <1>5

\* Of the package at the head nothing is recorded before it is unpacked.
LEMMA WipeKeeps ==
  ASSUME InstallOK, Wipe
  PROVE  InstallOK'
<1>1. PICK p : p = This
  OBVIOUS
<1>2. /\ cmd.pc = "wipe" /\ disk' = With(disk, p, "empty") /\ UNCHANGED <<manifest, lock, ran>>
  BY <1>1 DEF Wipe
<1>3. /\ IsCommand(cmd) /\ AtHead(cmd) /\ ChosenOK(cmd.chosen) /\ RecordsOK(cmd.records, cmd.chosen)
      /\ Pending(cmd.records, cmd.queue) /\ cmd.queue \in Seq(Wanted) /\ cmd.queue # <<>>
      /\ OnDisk(cmd.records, disk) /\ LockOK /\ DOMAIN disk \in SUBSET (Names \X Versions)
      /\ manifest \in Dependencies /\ ran \in 0..MaxCommands
  BY <1>2, Walking DEF Walks
<1>4. PICK u : u = [cmd EXCEPT !.pc = "extract"]
  OBVIOUS
<1>5. cmd' = u
  BY <1>4 DEF Wipe
<1>6. /\ IsCommand(u) /\ u.pc = "extract" /\ u.queue = cmd.queue /\ u.records = cmd.records
      /\ u.chosen = cmd.chosen /\ u.entry = cmd.entry /\ u.bytes = cmd.bytes
  BY <1>3, <1>4 DEF IsCommand
<1>7. AtHead(u)
  BY <1>2, <1>3, <1>6 DEF AtHead
<1>8. CommandOK(u)
  BY <1>3, <1>6, <1>7 DEF CommandOK, Walks
<1>9. p \notin DOMAIN cmd.records /\ p \in Names \X Versions
  BY <1>1, <1>2, <1>3 DEF AtHead, This, Demand, ChosenOK
<1>10. OnDisk(u.records, disk')
  BY <1>2, <1>3, <1>6, <1>9 DEF OnDisk, With
<1>11. DOMAIN disk' \in SUBSET (Names \X Versions)
  BY <1>2, <1>3, <1>9 DEF With
<1> QED BY <1>2, <1>3, <1>5, <1>8, <1>10, <1>11, LockStays, CommandKeeps

LEMMA ExtractKeeps ==
  ASSUME InstallOK, Extract
  PROVE  InstallOK'
<1>1. PICK p, e, records, queue, chosen :
        p = This /\ e = cmd.entry /\ records = cmd.records /\ queue = cmd.queue /\ chosen = cmd.chosen
  OBVIOUS
<1>2. /\ cmd.pc = "extract" /\ disk' = With(disk, p, cmd.bytes) /\ UNCHANGED <<manifest, lock, ran>>
      /\ cmd' = Record
  BY <1>1 DEF Extract
<1>3. /\ IsCommand(cmd) /\ AtHead(cmd) /\ ChosenOK(chosen) /\ RecordsOK(records, chosen)
      /\ Pending(records, queue) /\ queue \in Seq(Wanted) /\ queue # <<>>
      /\ OnDisk(records, disk) /\ LockOK /\ DOMAIN disk \in SUBSET (Names \X Versions)
      /\ manifest \in Dependencies /\ ran \in 0..MaxCommands
  BY <1>1, <1>2, Walking DEF Walks
<1>4. /\ p = <<p[1], p[2]>> /\ p[1] = Head(queue).name /\ p[1] \in DOMAIN chosen /\ p[2] = chosen[p[1]]
      /\ p \notin DOMAIN records /\ IsRecord(e) /\ cmd.bytes = e.digest
  BY <1>1, <1>2, <1>3 DEF AtHead, This, Demand
<1>5. p \in Names \X Versions
  BY <1>3, <1>4 DEF ChosenOK
<1>6. PICK new, s : new = With(records, p, e) /\ s = AnOrder(Demands(e.deps))
  OBVIOUS
<1>7. s \in Seq(Wanted) /\ \A n \in DOMAIN e.deps : \E i \in DOMAIN s : s[i].name = n
  BY <1>4, <1>6, OrderAsksForAll DEF IsRecord
<1>8. PICK longer : longer = queue \o s
  OBVIOUS
<1>9. PICK u : u = [cmd EXCEPT !.pc = "next", !.records = new, !.queue = longer]
  OBVIOUS
<1>10. cmd' = u
  BY <1>1, <1>2, <1>6, <1>8, <1>9 DEF Record
<1>11. /\ IsCommand(u) /\ u.pc = "next" /\ u.queue = longer /\ u.records = new /\ u.chosen = chosen
  BY <1>1, <1>3, <1>9 DEF IsCommand
<1>12. DOMAIN new = DOMAIN records \cup {p} /\ new[p] = e /\ \A q \in DOMAIN records : new[q] = records[q]
  BY <1>4, <1>6 DEF With
<1>13. /\ longer \in Seq(Wanted) /\ longer # <<>> /\ Head(longer) = Head(queue)
       /\ \A i \in DOMAIN queue : i \in DOMAIN longer /\ longer[i] = queue[i]
       /\ \A i \in DOMAIN s : Len(queue) + i \in DOMAIN longer /\ longer[Len(queue) + i] = s[i]
  BY <1>3, <1>7, <1>8
<1>14. RecordsOK(new, chosen)
  BY <1>3, <1>4, <1>5, <1>12 DEF RecordsOK
<1>15. Pending(new, longer)
  <2> SUFFICES ASSUME NEW q \in DOMAIN new, NEW n \in DOMAIN new[q].deps
               PROVE  (\E r \in DOMAIN new : r[1] = n) \/ (\E i \in DOMAIN longer : longer[i].name = n)
    BY DEF Pending
  <2>1. CASE q = p
    <3>1. PICK i \in DOMAIN s : s[i].name = n
      BY <1>7, <1>12, <2>1
    <3> QED BY <3>1, <1>13
  <2>2. CASE q # p
    <3>1. q \in DOMAIN records /\ n \in DOMAIN records[q].deps
      BY <1>12, <2>2
    <3>2. (\E r \in DOMAIN records : r[1] = n) \/ (\E i \in DOMAIN queue : queue[i].name = n)
      BY <1>3, <3>1 DEF Pending
    <3> QED BY <3>2, <1>12, <1>13
  <2> QED BY <2>1, <2>2
<1>16. AtHead(u)
  <2>1. <<p[1], chosen[p[1]]>> \in DOMAIN new
    BY <1>4, <1>12
  <2> QED BY <1>4, <1>11, <1>13, <2>1 DEF AtHead
<1>17. CommandOK(u)
  BY <1>3, <1>11, <1>13, <1>14, <1>15, <1>16 DEF CommandOK, Walks
<1>18. OnDisk(u.records, disk')
  BY <1>2, <1>3, <1>4, <1>11, <1>12 DEF OnDisk, With
<1>19. DOMAIN disk' \in SUBSET (Names \X Versions)
  BY <1>2, <1>3, <1>5 DEF With
<1> QED BY <1>2, <1>3, <1>10, <1>17, <1>18, <1>19, LockStays, CommandKeeps

LEMMA NextDemandKeeps ==
  ASSUME InstallOK, NextDemand
  PROVE  InstallOK'
<1>1. PICK queue : queue = cmd.queue
  OBVIOUS
<1>2. /\ cmd.pc = "next" /\ UNCHANGED <<manifest, disk, lock, ran>>
      /\ cmd' = [cmd EXCEPT !.queue = Tail(queue), !.entry = NoCommand.entry, !.bytes = "",
                            !.pc = IF Len(queue) = 1 THEN "lock" ELSE "resolve"]
  BY <1>1 DEF NextDemand
<1>3. /\ IsCommand(cmd) /\ AtHead(cmd) /\ ChosenOK(cmd.chosen) /\ RecordsOK(cmd.records, cmd.chosen)
      /\ Pending(cmd.records, queue) /\ queue \in Seq(Wanted) /\ queue # <<>>
  BY <1>1, <1>2, Walking DEF Walks
<1>4. PICK rest, e, pc : rest = Tail(queue) /\ e = NoCommand.entry
                         /\ pc = IF Len(queue) = 1 THEN "lock" ELSE "resolve"
  OBVIOUS
<1>5. PICK u : u = [cmd EXCEPT !.queue = rest, !.entry = e, !.bytes = "", !.pc = pc]
  OBVIOUS
<1>6. cmd' = u
  BY <1>2, <1>4, <1>5
<1>7. /\ IsCommand(u) /\ u.pc = pc /\ u.queue = rest /\ u.records = cmd.records /\ u.chosen = cmd.chosen
  BY <1>3, <1>5 DEF IsCommand
<1>8. /\ rest \in Seq(Wanted) /\ (pc = "lock" => rest = <<>>) /\ (pc = "resolve" => rest # <<>>)
      /\ pc \in {"lock", "resolve"}
      /\ \A i \in DOMAIN queue : i = 1 \/ (i - 1 \in DOMAIN rest /\ rest[i - 1] = queue[i])
  <2>1. Len(queue) \in Nat /\ Len(queue) >= 1 /\ Len(rest) = Len(queue) - 1 /\ rest \in Seq(Wanted)
    BY <1>3, <1>4
  <2>2. \A i \in DOMAIN queue : i = 1 \/ (i - 1 \in DOMAIN rest /\ rest[i - 1] = queue[i])
    BY <1>3, <1>4, <2>1
  <2>3. Len(rest) = 0 <=> rest = <<>>
    BY <2>1
  <2> QED BY <1>4, <2>1, <2>2, <2>3
<1>9. Pending(u.records, u.queue)
  <2> SUFFICES ASSUME NEW q \in DOMAIN cmd.records, NEW n \in DOMAIN cmd.records[q].deps
               PROVE  (\E r \in DOMAIN cmd.records : r[1] = n) \/ (\E i \in DOMAIN rest : rest[i].name = n)
    BY <1>7 DEF Pending
  <2>1. CASE \E r \in DOMAIN cmd.records : r[1] = n
    BY <2>1
  <2>2. CASE \E i \in DOMAIN queue : queue[i].name = n
    <3>1. PICK i \in DOMAIN queue : queue[i].name = n
      BY <2>2
    <3>2. CASE i = 1
      <4>1. Head(queue).name = n
        BY <1>3, <3>1, <3>2
      <4>2. <<n, cmd.chosen[n]>> \in DOMAIN cmd.records
        BY <1>1, <1>2, <1>3, <4>1 DEF AtHead
      <4> QED BY <4>2
    <3>3. CASE i # 1
      BY <1>8, <3>1, <3>3
    <3> QED BY <3>2, <3>3
  <2> QED BY <1>3, <2>1, <2>2 DEF Pending
<1>10. pc = "resolve" => AtHead(u)
  BY <1>7 DEF AtHead
<1>11. CommandOK(u)
  BY <1>3, <1>7, <1>8, <1>9, <1>10 DEF CommandOK, Walks
<1> QED BY <1>2, <1>6, <1>7, <1>11, WalkKeeps

LEMMA AtTheLock ==
  ASSUME InstallOK, cmd.pc = "lock"
  PROVE  /\ RecordsOK(cmd.records, cmd.chosen) /\ Pending(cmd.records, <<>>) /\ OnDisk(cmd.records, disk)
         /\ LockOK
BY DEF InstallOK, CommandOK

LEMMA WriteLockKeeps ==
  ASSUME InstallOK, WriteLock
  PROVE  InstallOK'
<1>1. PICK records, chosen : records = cmd.records /\ chosen = cmd.chosen
  OBVIOUS
<1>2. /\ cmd.pc = "lock" /\ cmd' = NoCommand /\ UNCHANGED <<manifest, disk, ran>>
      /\ (lock' = lock \/ lock' = records)
  BY <1>1 DEF WriteLock
<1>3. RecordsOK(records, chosen) /\ Pending(records, <<>>) /\ LockOK
  BY <1>1, <1>2, AtTheLock
<1>4. lock' = records => LockOK'
  <2> SUFFICES ASSUME lock' = records PROVE LockOK'
    OBVIOUS
  <2>1. DOMAIN records \in SUBSET (Names \X Versions)
    BY <1>3 DEF RecordsOK
  <2>2. \A p, q \in DOMAIN records : p[1] = q[1] => p = q
    <3> TAKE p, q \in DOMAIN records
    <3>1. p[1] = q[1] => p[2] = q[2]
      BY <1>3 DEF RecordsOK
    <3>2. p = <<p[1], p[2]>> /\ q = <<q[1], q[2]>>
      BY <2>1
    <3> QED BY <3>1, <3>2
  <2>3. \A p \in DOMAIN records : \A n \in DOMAIN records[p].deps : \E q \in DOMAIN records : q[1] = n
    BY <1>3, NothingIsEmpty DEF Pending
  <2> QED BY <2>1, <2>2, <2>3 DEF LockOK, LockIsClosed
<1>5. LockOK'
  BY <1>2, <1>3, <1>4, LockStays
<1>6. OnDisk(NoCommand.records, disk')
  BY NoCommandIsOne DEF OnDisk
<1> QED BY <1>2, <1>5, <1>6, NoCommandIsOne, CommandKeeps DEF InstallOK

LEMMA InstallStarts == InstallInit => InstallOK
<1> SUFFICES ASSUME InstallInit PROVE InstallOK
  OBVIOUS
<1>1. manifest = Declared /\ disk = <<>> /\ lock = <<>> /\ cmd = NoCommand /\ ran = 0
  BY DEF InstallInit
<1>2. DOMAIN disk = {} /\ DOMAIN lock = {}
  BY <1>1, NothingIsEmpty
<1>3. CommandOK(cmd) /\ OnDisk(cmd.records, disk)
  BY <1>1, NoCommandIsOne DEF OnDisk
<1>4. LockOK
  BY <1>2 DEF LockOK, LockIsClosed
<1>5. ran \in 0..MaxCommands /\ manifest \in Dependencies
  BY <1>1, InstallAssumption
<1> QED BY <1>2, <1>3, <1>4, <1>5 DEF InstallOK

LEMMA InstallRests ==
  ASSUME InstallOK, UNCHANGED installVars
  PROVE  InstallOK'
<1>1. manifest' = manifest /\ disk' = disk /\ lock' = lock /\ cmd' = cmd /\ ran' = ran
  BY DEF installVars
<1>2. LockOK'
  BY <1>1, LockStays DEF InstallOK
<1> QED BY <1>1, <1>2 DEF InstallOK

LEMMA InterruptKeeps ==
  ASSUME InstallOK, Interrupt
  PROVE  InstallOK'
BY FailKeeps DEF Interrupt

\* The registry goes on, or the command does.
LEMMA OneOfTheTwo ==
  ASSUME InstallNext
  PROVE  \/ RegistryNext /\ UNCHANGED installVars
         \/ UNCHANGED registryVars
<1>1. ASSUME NEW b \in BOOLEAN, Install(b) \/ Update(b) \/ \E n \in Names : Add(n, b)
      PROVE  UNCHANGED registryVars
  BY <1>1 DEF Install, Update, Add
<1>2. ASSUME NEW n \in Names, NEW v \in Versions, AddVersion(n, v) PROVE UNCHANGED registryVars
  BY <1>2 DEF AddVersion
<1>3. Steps => UNCHANGED registryVars
  BY DEF Steps, UpdateOne, UpdateWrites, Resolve, GetEntry, Fetch, Wipe, Extract, NextDemand, WriteLock
<1>4. Interrupt => UNCHANGED registryVars
  BY DEF Interrupt
<1> QED BY <1>1, <1>2, <1>3, <1>4 DEF InstallNext

LEMMA CommandsKeep ==
  ASSUME RegistryInv, InstallOK, InstallNext
  PROVE  InstallOK'
<1>1. ASSUME UNCHANGED installVars PROVE InstallOK'
  BY <1>1, InstallRests
<1>2. ASSUME NEW b \in BOOLEAN, Install(b) PROVE InstallOK'
  BY <1>2, InstallKeeps
<1>3. ASSUME NEW b \in BOOLEAN, Update(b) PROVE InstallOK'
  BY <1>3, UpdateKeeps
<1>4. ASSUME NEW b \in BOOLEAN, NEW n \in Names, Add(n, b) PROVE InstallOK'
  BY <1>4, AddKeeps
<1>5. ASSUME NEW n \in Names, NEW v \in Versions, AddVersion(n, v) PROVE InstallOK'
  BY <1>5, AddVersionKeeps
<1>6. ASSUME NEW n \in Names, UpdateOne(n) PROVE InstallOK'
  BY <1>6, UpdateOneKeeps
<1>7. ASSUME Steps PROVE InstallOK'
  BY <1>6, <1>7, UpdateWritesKeeps, ResolveKeeps, GetEntryKeeps, FetchKeeps, WipeKeeps, ExtractKeeps,
     NextDemandKeeps, WriteLockKeeps DEF Steps
<1>8. ASSUME Interrupt PROVE InstallOK'
  BY <1>8, InterruptKeeps
<1> QED BY <1>1, <1>2, <1>3, <1>4, <1>5, <1>7, <1>8 DEF InstallNext

-----------------------------------------------------------------------------
(* The theorems *)

\* The registry's two stores are in step wherever requests did not overlap, every
\* document is sound though they did, and what the command under way has recorded is
\* on disk and waits for nothing that is not in its queue.
THEOREM PackageInvariant == InstallSpec => []PackageInv
<1>1. InstallInit => PackageInv
  BY RegistryStarts, InstallStarts DEF InstallInit, PackageInv
<1>2. PackageInv /\ [InstallNext]_packageVars => PackageInv'
  <2> SUFFICES ASSUME PackageInv, [InstallNext]_packageVars PROVE PackageInv'
    OBVIOUS
  <2>1. RegistryInv /\ InstallOK
    BY DEF PackageInv
  <2>2. ASSUME InstallNext PROVE PackageInv'
    <3>1. RegistryInv'
      BY <2>1, <2>2, OneOfTheTwo, RegistryGoesOn, RegistryRests
    <3>2. InstallOK'
      BY <2>1, <2>2, CommandsKeep
    <3> QED BY <3>1, <3>2 DEF PackageInv
  <2>3. ASSUME UNCHANGED packageVars PROVE PackageInv'
    <3>1. UNCHANGED registryVars /\ UNCHANGED installVars
      BY <2>3 DEF packageVars
    <3> QED BY <2>1, <3>1, RegistryRests, InstallRests DEF PackageInv
  <2> QED BY <2>2, <2>3
<1> QED BY <1>1, <1>2, PTL DEF InstallSpec

LEMMA PackagesAreTyped == PackageInv => TypeOK
<1> SUFFICES ASSUME PackageInv PROVE TypeOK
  OBVIOUS
<1>1. RegistryOK /\ InstallOK
  BY DEF PackageInv, RegistryInv
<1>2. \A n \in Names :
        /\ Listed(n) \subseteq Versions /\ DOMAIN meta[n].tags \subseteq Tags
        /\ \A v \in Listed(n) : meta[n].versions[v].digest \in Bytes /\ meta[n].versions[v].deps \in Dependencies
        /\ DOMAIN tar[n] \subseteq Versions
  <2> TAKE n \in Names
  <2>1. DOMAIN tar[n] \subseteq Versions /\ (meta[n] = Torn \/ IsSound(n, meta[n]))
    BY <1>1 DEF RegistryOK
  <2>2. CASE meta[n] = Torn
    <3>1. DOMAIN meta[n].versions = {} /\ DOMAIN meta[n].tags = {}
      BY <2>2, NothingIsEmpty DEF Torn
    <3> QED BY <2>1, <3>1 DEF Listed
  <2>3. CASE IsSound(n, meta[n])
    <3>1. IsListing(meta[n].versions) /\ DOMAIN meta[n].tags \in SUBSET Tags
      BY <2>3, SoundListing
    <3> QED BY <2>1, <3>1 DEF IsListing, Listed, Entries
  <2> QED BY <2>1, <2>2, <2>3
<1>3. \A c \in Slots : req[c].pc \in {"idle", "read", "tarball", "save", "write"}
  BY <1>1 DEF RegistryOK, RequestOK, Knows
<1>4. kind \in Kinds /\ count \in 0..MaxRequests /\ raced \subseteq Names \cup {""}
  BY <1>1 DEF RegistryOK
<1>5. /\ manifest \in Dependencies /\ DOMAIN disk \subseteq Names \X Versions
      /\ DOMAIN lock \subseteq Names \X Versions /\ ran \in 0..MaxCommands
  BY <1>1 DEF InstallOK, LockOK
<1>6. /\ cmd.pc \in {"idle", "update", "resolve", "entry", "fetch", "wipe", "extract", "next", "lock"}
      /\ cmd.queue \in Seq([name : Names, range : Ranges])
  BY <1>1 DEF InstallOK, CommandOK, Walks, Wanted
<1> QED BY <1>2, <1>3, <1>4, <1>5, <1>6 DEF TypeOK

\* Whatever was interrupted before, the lockfile has one version of a package and,
\* with a package, all that it depends on.
THEOREM LockfileIsSound == InstallSpec => []LockIsSound
<1>1. PackageInv => LockIsSound
  BY PackagesAreTyped DEF PackageInv, InstallOK, LockOK, LockIsSound
<1> QED BY <1>1, PackageInvariant, PTL

\* When an install writes its lockfile, what it lists is on disk with the bytes of the
\* digest that it lists, whatever the registry replaced between two of its requests.
THEOREM LockfileMatchesDisk == InstallSpec => LockMatchesDisk
<1>1. PackageInv /\ [InstallNext]_packageVars =>
        [cmd.pc = "lock" /\ lock' # lock =>
           \A p \in DOMAIN lock' : p \in DOMAIN disk /\ disk[p] = lock'[p].digest]_packageVars
  <2> SUFFICES ASSUME PackageInv, InstallNext, cmd.pc = "lock", lock' # lock
               PROVE  \A p \in DOMAIN lock' : p \in DOMAIN disk /\ disk[p] = lock'[p].digest
    BY DEF packageVars, installVars
  <2>1. WriteLock
    BY DEF InstallNext, Steps, installVars, Install, Update, Add, AddVersion, UpdateOne, UpdateWrites,
           Resolve, GetEntry, Fetch, Wipe, Extract, NextDemand, Interrupt
  <2>2. lock' = cmd.records
    BY <2>1 DEF WriteLock
  <2>3. OnDisk(cmd.records, disk)
    BY DEF PackageInv, InstallOK
  <2> QED BY <2>2, <2>3 DEF OnDisk
<1> QED BY <1>1, PackageInvariant, PTL DEF InstallSpec, LockMatchesDisk

\* Over requests that interleave and servers that end, what can be read of a package
\* fits together; one after the other, requests leave the two stores in step, and the
\* file server's leave the bytes of a version that is listed.
THEOREM RegistryStaysSound == InstallSpec => RegistryIsSound
<1>1. PackageInv => TagsAreSound /\ StoresAgree
  BY RegistryFitsTogether DEF PackageInv
<1>2. PackageInv /\ [InstallNext]_packageVars => [kind = "file" => KeepsPublished]_registryVars
  <2> SUFFICES ASSUME PackageInv, [InstallNext]_packageVars, kind = "file", ~UNCHANGED registryVars
               PROVE  KeepsPublished
    OBVIOUS
  <2>1. RegistryNext
    BY OneOfTheTwo DEF packageVars
  <2> QED BY <2>1, FileKeepsPublished DEF PackageInv
<1> QED BY <1>1, <1>2, PackageInvariant, PTL DEF InstallSpec, RegistryIsSound, FilePublishedIsFinal
=============================================================================
