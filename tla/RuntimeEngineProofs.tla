------------------------ MODULE RuntimeEngineProofs -------------------------
(* Proofs about RuntimeEngine, for any keys, turns, steps, inboxes and exits. *)
EXTENDS RuntimeEngine, SequenceTheorems, WellFoundedInduction, TLAPS

-----------------------------------------------------------------------------
(* Sequences *)

Elements(s) == {s[i] : i \in DOMAIN s}
Distinct(s) == \A i, j \in DOMAIN s : i # j => s[i] # s[j]
Increasing(s) == \A i, j \in DOMAIN s : i < j => s[i] < s[j]

\* Each message once, and the inputs in the order of their turns.
Orderly(s) ==
  \A i, j \in DOMAIN s :
    i < j => /\ s[i] # s[j]
             /\ (s[i].kind = "input" /\ s[j].kind = "input") => s[i].id < s[j].id

LEMMA EmptyFacts ==
  /\ Elements(<<>>) = {} /\ Distinct(<<>>) /\ Increasing(<<>>) /\ Orderly(<<>>)
  /\ \A S : <<>> \in Seq(S)
BY EmptySeq DEF Elements, Distinct, Increasing, Orderly

LEMMA Places ==
  ASSUME NEW S, NEW s \in Seq(S), NEW x \in S
  PROVE  /\ DOMAIN s = 1..Len(s) /\ Len(s) \in Nat
         /\ Append(s, x) \in Seq(S) /\ Len(Append(s, x)) = Len(s) + 1
         /\ DOMAIN Append(s, x) = 1..Len(s) + 1
         /\ \A i \in 1..Len(s) : Append(s, x)[i] = s[i]
         /\ Append(s, x)[Len(s) + 1] = x
         /\ Elements(Append(s, x)) = Elements(s) \cup {x}
<1>1. /\ Append(s, x) \in Seq(S) /\ Len(Append(s, x)) = Len(s) + 1
      /\ \A i \in 1..Len(s) : Append(s, x)[i] = s[i]
      /\ Append(s, x)[Len(s) + 1] = x
  BY AppendProperties
<1>2. DOMAIN s = 1..Len(s) /\ DOMAIN Append(s, x) = 1..Len(s) + 1 /\ Len(s) \in Nat
  BY <1>1, LenProperties
<1> QED BY <1>1, <1>2 DEF Elements

LEMMA ElementsAreMembers ==
  ASSUME NEW S, NEW s \in Seq(S)
  PROVE  Elements(s) \subseteq S
BY LenProperties, ElementOfSeq DEF Elements

LEMMA IncreasingAppend ==
  ASSUME NEW s \in Seq(Nat), Increasing(s), NEW x \in Nat, \A y \in Elements(s) : y < x
  PROVE  Increasing(Append(s, x))
<1>1. /\ DOMAIN s = 1..Len(s) /\ Len(s) \in Nat /\ DOMAIN Append(s, x) = 1..Len(s) + 1
      /\ \A i \in 1..Len(s) : Append(s, x)[i] = s[i]
      /\ Append(s, x)[Len(s) + 1] = x
  BY Places
<1> QED BY <1>1 DEF Increasing, Elements

LEMMA IncreasingTail ==
  ASSUME NEW S \in SUBSET Nat, NEW s \in Seq(S), Increasing(s), s # <<>>
  PROVE  /\ Tail(s) \in Seq(S) /\ Increasing(Tail(s)) /\ Head(s) = s[1] /\ Head(s) \in Elements(s)
         /\ Elements(Tail(s)) = Elements(s) \ {Head(s)}
         /\ \A y \in Elements(Tail(s)) : Head(s) < y
<1>1. /\ Tail(s) \in Seq(S) /\ Len(Tail(s)) = Len(s) - 1
      /\ \A i \in 1..Len(Tail(s)) : Tail(s)[i] = s[i + 1]
  BY HeadTailProperties
<1>2. DOMAIN s = 1..Len(s) /\ DOMAIN Tail(s) = 1..Len(s) - 1 /\ Len(s) \in Nat \ {0}
  BY <1>1, LenProperties, EmptySeq
<1>3. Head(s) = s[1] /\ 1 \in DOMAIN s
  BY <1>2
<1>4. \A i \in DOMAIN s : s[i] \in Nat
  BY <1>2, ElementOfSeq
<1>5. \A i \in DOMAIN Tail(s) : i + 1 \in DOMAIN s /\ 1 < i + 1 /\ Tail(s)[i] = s[i + 1]
  BY <1>1, <1>2
<1>6. Increasing(Tail(s))
  BY <1>2, <1>5 DEF Increasing
<1>7. \A y \in Elements(Tail(s)) : Head(s) < y /\ y \in Elements(s) /\ y \in Nat
  BY <1>3, <1>4, <1>5 DEF Increasing, Elements
<1>8. \A i \in DOMAIN s : i # 1 => s[i] \in Elements(Tail(s))
  <2> SUFFICES ASSUME NEW i \in DOMAIN s, i # 1 PROVE s[i] \in Elements(Tail(s))
    OBVIOUS
  <2>1. i - 1 \in DOMAIN Tail(s) /\ Tail(s)[i - 1] = s[i]
    BY <1>1, <1>2
  <2> QED BY <2>1 DEF Elements
<1>9. Head(s) \in Nat
  BY <1>3, <1>4
<1>10. Elements(Tail(s)) = Elements(s) \ {Head(s)}
  BY <1>3, <1>7, <1>8, <1>9 DEF Elements
<1>11. Head(s) \in Elements(s)
  BY <1>3 DEF Elements
<1> QED BY <1>1, <1>3, <1>6, <1>7, <1>10, <1>11

LEMMA DistinctAppend ==
  ASSUME NEW S, NEW s \in Seq(S), Distinct(s), NEW x \in S, x \notin Elements(s)
  PROVE  Distinct(Append(s, x))
<1>1. /\ DOMAIN s = 1..Len(s) /\ Len(s) \in Nat /\ DOMAIN Append(s, x) = 1..Len(s) + 1
      /\ \A i \in 1..Len(s) : Append(s, x)[i] = s[i]
      /\ Append(s, x)[Len(s) + 1] = x
  BY Places
<1> QED BY <1>1 DEF Distinct, Elements

\* The inbox keeps the newest.
LEMMA LastOf ==
  ASSUME NEW S, NEW s \in Seq(S), Distinct(s), NEW n \in Nat
  PROVE  /\ Last(s, n) \in Seq(S) /\ Distinct(Last(s, n)) /\ Len(Last(s, n)) <= n
         /\ Elements(Last(s, n)) \subseteq Elements(s)
<1>1. DOMAIN s = 1..Len(s) /\ Len(s) \in Nat
  BY LenProperties
<1>2. CASE Len(s) > n
  <2> DEFINE m == Len(s) - n + 1
             u == SubSeq(s, m, Len(s))
  <2>1. m \in Nat \ {0} /\ m <= Len(s) + 1 /\ Len(s) - m + 1 = n
    BY <1>1, <1>2
  <2>2. \A i \in m..Len(s) : s[i] \in S
    BY <1>1, <2>1, ElementOfSeq
  <2>3. u \in Seq(S) /\ Len(u) = n /\ \A i \in 1..n : u[i] = s[m + i - 1]
    <3>1. /\ u \in Seq(S) /\ Len(u) = IF m <= Len(s) THEN Len(s) - m + 1 ELSE 0
          /\ \A i \in 1..(Len(s) - m + 1) : u[i] = s[m + i - 1]
      BY <1>1, <2>1, SubSeqProperties
    <3> QED BY <1>1, <2>1, <3>1
  <2>4. DOMAIN u = 1..n
    BY <2>3, LenProperties
  <2>5. \A i \in DOMAIN u : m + i - 1 \in DOMAIN s /\ u[i] = s[m + i - 1]
    BY <1>1, <2>1, <2>3, <2>4
  <2>6. Last(s, n) = u
    BY <1>2 DEF Last
  <2> HIDE DEF m, u
  <2>7. Distinct(u)
    BY <2>1, <2>4, <2>5 DEF Distinct
  <2> QED BY <2>3, <2>5, <2>6, <2>7 DEF Elements
<1>3. CASE ~(Len(s) > n)
  BY <1>1, <1>3 DEF Last
<1> QED BY <1>2, <1>3

LEMMA OrderlyAppend ==
  ASSUME NEW s \in Seq(Message), Orderly(s), NEW m \in Message, m \notin Elements(s),
         \A x \in Elements(s) : x.kind = "input" => x.id < m.id
  PROVE  Orderly(Append(s, m))
<1>1. /\ DOMAIN s = 1..Len(s) /\ Len(s) \in Nat /\ DOMAIN Append(s, m) = 1..Len(s) + 1
      /\ \A i \in 1..Len(s) : Append(s, m)[i] = s[i]
      /\ Append(s, m)[Len(s) + 1] = m
  BY Places
<1> QED BY <1>1 DEF Orderly, Elements

\* What the inbox adds to a conversation.
LEMMA AnswersOf ==
  ASSUME NEW s \in Seq(Message), Orderly(s), NEW b \in Seq(Ids), Distinct(b),
         \A x \in Elements(s) : x.kind = "answer" => x.id \notin Elements(b)
  PROVE  /\ s \o Answers(b) \in Seq(Message) /\ Orderly(s \o Answers(b))
         /\ Elements(s) \subseteq Elements(s \o Answers(b))
         /\ \A x \in Elements(s \o Answers(b)) :
              x \in Elements(s) \/ (x.kind = "answer" /\ x.id \in Elements(b))
<1> DEFINE u == Answers(b)
           c == s \o u
<1>1. DOMAIN s = 1..Len(s) /\ Len(s) \in Nat /\ DOMAIN b = 1..Len(b) /\ Len(b) \in Nat
  BY LenProperties
<1>2. u \in Seq(Message) /\ Len(u) = Len(b) /\ \A i \in 1..Len(b) : u[i] = [kind |-> "answer", id |-> b[i]]
  <2>1. \A i \in 1..Len(b) : [kind |-> "answer", id |-> b[i]] \in Message
    BY ElementOfSeq DEF Message
  <2>2. u = [i \in 1..Len(b) |-> [kind |-> "answer", id |-> b[i]]]
    BY <1>1 DEF Answers
  <2>3. u \in [1..Len(b) -> Message]
    BY <2>1, <2>2
  <2>4. u \in Seq(Message) /\ Len(u) = Len(b)
    BY <1>1, <2>3, SeqDef, LenProperties
  <2> QED BY <2>2, <2>4
<1> HIDE DEF u
<1>3. /\ c \in Seq(Message) /\ Len(c) = Len(s) + Len(b) /\ DOMAIN c = 1..(Len(s) + Len(b))
      /\ \A i \in 1..Len(s) : c[i] = s[i]
      /\ \A i \in 1..Len(b) : c[Len(s) + i] = u[i]
  <2>1. /\ c \in Seq(Message) /\ Len(c) = Len(s) + Len(u)
        /\ \A i \in 1..(Len(s) + Len(u)) : c[i] = IF i <= Len(s) THEN s[i] ELSE u[i - Len(s)]
    BY <1>2, ConcatProperties
  <2>2. DOMAIN c = 1..Len(c)
    BY <2>1, LenProperties
  <2> HIDE DEF c
  <2>3. \A i \in 1..Len(b) : c[Len(s) + i] = u[i]
    <3> SUFFICES ASSUME NEW i \in 1..Len(b) PROVE c[Len(s) + i] = u[i]
      OBVIOUS
    <3>1. Len(s) + i \in 1..(Len(s) + Len(u)) /\ ~(Len(s) + i <= Len(s)) /\ (Len(s) + i) - Len(s) = i
      BY <1>1, <1>2
    <3> QED BY <2>1, <3>1
  <2> QED BY <1>1, <1>2, <2>1, <2>2, <2>3
<1>4. \A j \in DOMAIN c : j \notin 1..Len(s) =>
        /\ j - Len(s) \in DOMAIN b /\ c[j] = [kind |-> "answer", id |-> b[j - Len(s)]]
  <2> SUFFICES ASSUME NEW j \in DOMAIN c, j \notin 1..Len(s)
               PROVE  j - Len(s) \in 1..Len(b) /\ c[j] = u[j - Len(s)]
    BY <1>1, <1>2
  <2>1. j - Len(s) \in 1..Len(b) /\ j = Len(s) + (j - Len(s))
    BY <1>1, <1>3
  <2> QED BY <1>3, <2>1
<1> HIDE DEF c
<1>5. Elements(s) \subseteq Elements(c)
  BY <1>1, <1>3 DEF Elements
<1>6. ASSUME NEW x \in Elements(c) PROVE x \in Elements(s) \/ (x.kind = "answer" /\ x.id \in Elements(b))
  BY <1>1, <1>3, <1>4 DEF Elements
<1>7. ASSUME NEW i \in DOMAIN c, NEW j \in DOMAIN c, i < j
      PROVE  /\ c[i] # c[j]
             /\ (c[i].kind = "input" /\ c[j].kind = "input") => c[i].id < c[j].id
  <2>1. CASE j \in 1..Len(s)
    <3>1. i \in 1..Len(s)
      BY <1>1, <1>3, <1>7, <2>1
    <3> QED BY <1>1, <1>3, <1>7, <2>1, <3>1 DEF Orderly
  <2>2. CASE j \notin 1..Len(s) /\ i \in 1..Len(s)
    <3>1. c[i] \in Elements(s) /\ c[j].kind = "answer" /\ c[j].id \in Elements(b)
      BY <1>1, <1>3, <1>4, <2>2 DEF Elements
    <3> QED BY <3>1
  <2>3. CASE j \notin 1..Len(s) /\ i \notin 1..Len(s)
    <3>1. i - Len(s) # j - Len(s)
      BY <1>1, <1>3, <1>7
    <3>2. b[i - Len(s)] # b[j - Len(s)]
      BY <1>4, <2>3, <3>1 DEF Distinct
    <3> QED BY <1>4, <2>3, <3>2
  <2> QED BY <2>1, <2>2, <2>3
<1>8. Orderly(c)
  BY <1>7 DEF Orderly
<1> QED BY <1>3, <1>5, <1>6, <1>8 DEF c, u

-----------------------------------------------------------------------------
(* What a step does to the turns *)

LEMMA TurnsAreTurns ==
  ASSUME TypeOK
  PROVE  /\ Len(turns) \in Nat /\ Known \subseteq Ids /\ DOMAIN turns = Known
         /\ \A t \in Known : turns[t] \in Turn /\ t \in Ids /\ t \in Nat \ {0}
BY LenProperties, ElementOfSeq, BoundsAssumption DEF TypeOK, Known, Ids

\* One turn changes.
LEMMA OneMoves ==
  ASSUME TypeOK, NEW t \in Known, NEW r \in Turn, turns' = [turns EXCEPT ![t] = r]
  PROVE  /\ turns' \in Seq(Turn) /\ Len(turns') = Len(turns) /\ Known' = Known
         /\ turns'[t] = r /\ \A s \in Known : s # t => turns'[s] = turns[s]
<1>1. /\ turns' \in Seq(Turn) /\ Len(turns') = Len(turns)
      /\ \A s \in 1..Len(turns) : turns'[s] = IF s = t THEN r ELSE turns[s]
  BY ExceptSeq DEF TypeOK, Known
<1> QED BY <1>1 DEF Known

\* A turn is queued.
LEMMA OneComes ==
  ASSUME TypeOK, NEW ts \in Seq(Turn), Len(ts) = Len(turns), NEW r \in Turn, turns' = Append(ts, r)
  PROVE  /\ turns' \in Seq(Turn) /\ Len(turns') = Len(turns) + 1
         /\ Known' = Known \cup {Len(turns) + 1} /\ Len(turns) + 1 \notin Known
         /\ turns'[Len(turns) + 1] = r /\ \A s \in Known : turns'[s] = ts[s]
<1>1. /\ turns' \in Seq(Turn) /\ Len(turns') = Len(turns) + 1
      /\ \A s \in 1..Len(turns) : turns'[s] = ts[s]
      /\ turns'[Len(turns) + 1] = r
  BY AppendProperties
<1>2. Len(turns) \in Nat
  BY TurnsAreTurns
<1> QED BY <1>1, <1>2 DEF Known

LEMMA NewTurnIsTurn ==
  ASSUME NEW k \in Keys, NEW t \in 0..MaxTurns, NEW reply \in {"none", "sync", "async"},
         NEW middleware \in BOOLEAN, NEW stack \in SUBSET Keys
  PROVE  NewTurn(k, t, reply, middleware, stack) \in Turn
<1>1. 0 \in 0..MaxTurns /\ 0 \in 0..MaxSteps
  BY BoundsAssumption
<1>2. (reply # "none") \in BOOLEAN
  OBVIOUS
<1> QED BY <1>1, <1>2, EmptyFacts DEF NewTurn, Turn

\* The fields of a turn that nothing in a call's life changes.
Lasting(x, y) ==
  /\ y.key = x.key /\ y.by = x.by /\ y.asked = x.asked /\ y.viaMiddleware = x.viaMiddleware
  /\ y.stack = x.stack /\ y.phase = x.phase /\ y.talk = x.talk

LEMMA WithWaits ==
  ASSUME NEW x \in Turn, NEW n \in 0..MaxTurns, NEW y, y = [x EXCEPT !.waits = n]
  PROVE  y \in Turn /\ Lasting(x, y) /\ y.waits = n /\ y.reply = x.reply /\ y.inbox = x.inbox
BY DEF Turn, Lasting

LEMMA WithReply ==
  ASSUME NEW x \in Turn, NEW n \in {"none", "sync", "async"}, NEW y, y = [x EXCEPT !.reply = n]
  PROVE  y \in Turn /\ Lasting(x, y) /\ y.waits = x.waits /\ y.reply = n /\ y.inbox = x.inbox
BY DEF Turn, Lasting

LEMMA WithInbox ==
  ASSUME NEW x \in Turn, NEW n \in Seq(Ids), NEW y, y = [x EXCEPT !.inbox = n]
  PROVE  y \in Turn /\ Lasting(x, y) /\ y.waits = x.waits /\ y.reply = x.reply /\ y.inbox = n
BY DEF Turn, Lasting

\* The answer of t goes to whoever asked for it, at most once.
LEMMA DeliverFacts ==
  ASSUME NEW ts \in Seq(Turn), NEW t \in 1..Len(ts), ts[t].by \in 0..(t - 1),
         ts[t].reply # "none" => ts[t].by # 0, Len(ts) <= MaxTurns,
         \A s \in 1..Len(ts) : Distinct(ts[s].inbox),
         ts[t].reply # "none" => \A s \in 1..Len(ts) : t \notin Elements(ts[s].inbox)
  PROVE  /\ Deliver(ts, t) \in Seq(Turn) /\ Len(Deliver(ts, t)) = Len(ts)
         /\ Deliver(ts, t)[t].reply = "none"
         /\ \A s \in 1..Len(ts) :
              /\ Lasting(ts[s], Deliver(ts, t)[s])
              /\ s # t => Deliver(ts, t)[s].reply = ts[s].reply
              /\ Deliver(ts, t)[s].waits = IF ts[t].reply = "sync" /\ s = ts[t].by THEN 0 ELSE ts[s].waits
              /\ \/ Deliver(ts, t)[s].inbox = ts[s].inbox
                 \/ /\ ts[t].reply = "async" /\ s = ts[t].by /\ Distinct(Deliver(ts, t)[s].inbox)
                    /\ Len(Deliver(ts, t)[s].inbox) <= MaxInbox
                    /\ Elements(Deliver(ts, t)[s].inbox) \subseteq Elements(ts[s].inbox) \cup {t}
<1> DEFINE c == ts[t].by
           Told(x) == IF ts[t].reply = "sync" THEN [x EXCEPT !.waits = 0]
                      ELSE [x EXCEPT !.inbox = Last(Append(@, t), MaxInbox)]
<1>1. Len(ts) \in Nat /\ \A s \in 1..Len(ts) : ts[s] \in Turn
  BY LenProperties, ElementOfSeq
<1>2. ts[t].reply # "none" => c \in 1..Len(ts) /\ c # t
  BY <1>1
<1>3. ts[t].reply \in {"none", "sync", "async"}
  BY <1>1 DEF Turn
<1>4. CASE ts[t].reply = "none"
  <2>1. Deliver(ts, t) = ts
    BY <1>4 DEF Deliver
  <2> QED BY <1>1, <1>4, <2>1 DEF Lasting
<1>5. CASE ts[t].reply # "none"
  <2> DEFINE r == Told(ts[c])
             us == [ts EXCEPT ![c] = r]
             q == [ts[t] EXCEPT !.reply = "none"]
             vs == [us EXCEPT ![t] = q]
  <2>1. ts[c] \in Turn /\ c \in 1..Len(ts) /\ c # t
    BY <1>1, <1>2, <1>5
  <2>2. Deliver(ts, t) = [us EXCEPT ![t].reply = "none"]
    BY <1>3, <1>5, <2>1 DEF Deliver, Told
  <2>3. /\ r \in Turn /\ Lasting(ts[c], r) /\ r.reply = ts[c].reply
        /\ r.waits = IF ts[t].reply = "sync" THEN 0 ELSE ts[c].waits
        /\ \/ r.inbox = ts[c].inbox
           \/ /\ ts[t].reply = "async" /\ Distinct(r.inbox) /\ Len(r.inbox) <= MaxInbox
              /\ Elements(r.inbox) \subseteq Elements(ts[c].inbox) \cup {t}
    <3>1. CASE ts[t].reply = "sync"
      <4>1. r = [ts[c] EXCEPT !.waits = 0] /\ 0 \in 0..MaxTurns
        BY <3>1, BoundsAssumption
      <4> HIDE DEF r, c
      <4> QED BY <2>1, <3>1, <4>1, WithWaits
    <3>2. CASE ts[t].reply = "async"
      <4> DEFINE b == Last(Append(ts[c].inbox, t), MaxInbox)
      <4>1. ts[c].inbox \in Seq(Ids) /\ t \in Ids
        <5> HIDE DEF c
        <5>1. ts[c].inbox \in Seq(Ids)
          BY <2>1 DEF Turn
        <5> QED BY <1>1, <5>1, BoundsAssumption DEF Ids
      <4>2. Distinct(ts[c].inbox) /\ t \notin Elements(ts[c].inbox)
        BY <1>5, <2>1
      <4>3. r = [ts[c] EXCEPT !.inbox = b]
        BY <3>2
      <4> HIDE DEF r, c
      <4>4. /\ Append(ts[c].inbox, t) \in Seq(Ids) /\ Distinct(Append(ts[c].inbox, t))
            /\ Elements(Append(ts[c].inbox, t)) = Elements(ts[c].inbox) \cup {t}
        BY <4>1, <4>2, Places, DistinctAppend
      <4>5. b \in Seq(Ids) /\ Distinct(b) /\ Len(b) <= MaxInbox /\ Elements(b) \subseteq Elements(ts[c].inbox) \cup {t}
        BY <4>4, LastOf, BoundsAssumption
      <4> HIDE DEF b
      <4>6. r \in Turn /\ Lasting(ts[c], r) /\ r.waits = ts[c].waits /\ r.reply = ts[c].reply /\ r.inbox = b
        BY <2>1, <4>3, <4>5, WithInbox
      <4> QED BY <3>2, <4>5, <4>6
    <3> QED BY <1>3, <1>5, <3>1, <3>2
  <2> HIDE DEF r, c
  <2>4. us \in Seq(Turn) /\ Len(us) = Len(ts) /\ \A s \in 1..Len(ts) : us[s] = IF s = c THEN r ELSE ts[s]
    BY <2>1, <2>3, ExceptSeq
  <2>5. Deliver(ts, t) = vs
    <3>1. us[t] = ts[t]
      BY <2>1, <2>4
    <3> HIDE DEF us
    <3> QED BY <2>2, <3>1
  <2>6. q \in Turn /\ Lasting(ts[t], q) /\ q.waits = ts[t].waits /\ q.reply = "none" /\ q.inbox = ts[t].inbox
    BY <1>1, WithReply
  <2> HIDE DEF us, q
  <2>7. vs \in Seq(Turn) /\ Len(vs) = Len(ts) /\ \A s \in 1..Len(ts) : vs[s] = IF s = t THEN q ELSE us[s]
    BY <2>4, ExceptSeq, <2>6
  <2> HIDE DEF vs
  <2>8. \A s \in 1..Len(ts) : vs[s] = IF s = t THEN q ELSE IF s = c THEN r ELSE ts[s]
    BY <2>4, <2>7
  <2>9. \A x : Lasting(x, x)
    BY DEF Lasting
  <2> QED BY <2>1, <2>3, <2>5, <2>6, <2>7, <2>8, <2>9 DEF c
<1> QED BY <1>4, <1>5

LEMMA EndedFacts ==
  ASSUME NEW x \in Turn, NEW phase \in {"done", "failed", "lost"}, NEW y, y = Ended(x, phase)
  PROVE  /\ y \in Turn /\ y.key = x.key /\ y.by = x.by /\ y.asked = x.asked
         /\ y.viaMiddleware = x.viaMiddleware /\ y.reply = x.reply /\ y.phase = phase
         /\ y.waits = 0 /\ y.talk = <<>> /\ y.stack = {} /\ y.inbox = <<>>
<1>1. 0 \in 0..MaxTurns /\ 0 \in 0..MaxSteps /\ {} \in SUBSET Keys
  BY BoundsAssumption
<1> QED BY <1>1, EmptyFacts DEF Turn, Ended

-----------------------------------------------------------------------------
(* The queues *)

Started(t) == turns[t].phase \in {"running", "ended", "stored"}

\* executionQueue holds what is not over, in order; only the first has begun.
QueueOK ==
  /\ \A k \in Keys : /\ Increasing(queue[k])
                     /\ Elements(queue[k]) = {t \in Known : turns[t].key = k /\ ~Over(t)}
  /\ \A t \in Known : Started(t) => t = Head(queue[turns[t].key])
  /\ \A s, t \in Known : turns[s].key = turns[t].key /\ Over(s) /\ ~Over(t) => s < t

LEMMA QueueKept ==
  ASSUME QueueOK, Known' = Known, queue' = queue,
         \A s \in Known : /\ turns'[s].key = turns[s].key /\ (Over(s)' <=> Over(s))
                          /\ Started(s)' => Started(s) \/ s = Head(queue[turns[s].key])
  PROVE  QueueOK'
<1>1. \A s \in Known : Over(s)' <=> Over(s)
  OBVIOUS
<1>2. \A k \in Keys : {t \in Known : turns'[t].key = k /\ ~Over(t)'} = {t \in Known : turns[t].key = k /\ ~Over(t)}
  OBVIOUS
<1> QED BY <1>1, <1>2 DEF QueueOK

LEMMA QueueAdded ==
  ASSUME TypeOK, QueueOK, NEW k \in Keys, Chain(k), Len(turns) + 1 \in Ids,
         Known' = Known \cup {Len(turns) + 1},
         turns'[Len(turns) + 1].key = k, turns'[Len(turns) + 1].phase = "queued",
         \A s \in Known : turns'[s].key = turns[s].key /\ turns'[s].phase = turns[s].phase
  PROVE  QueueOK' /\ queue' \in [Keys -> Seq(Ids)]
<1>0. PICK n \in Ids : n = Len(turns) + 1
  OBVIOUS
<1>1. /\ Len(turns) \in Nat /\ n \notin Known /\ Known \subseteq Ids /\ Ids \subseteq Nat
      /\ \A s \in Known : s < n /\ s \in Nat /\ turns[s].key \in Keys
  BY <1>0, TurnsAreTurns DEF Known, Ids, Turn
<1>2. queue[k] \in Seq(Ids) /\ queue[k] \in Seq(Nat) /\ queue \in [Keys -> Seq(Ids)]
  <2>1. queue[k] \in Seq(Ids) /\ queue \in [Keys -> Seq(Ids)]
    BY DEF TypeOK
  <2>2. queue[k] \in Seq(Nat)
    BY <1>1, <2>1, SeqMonotonic
  <2> QED BY <2>1, <2>2
<1>3. queue' = [queue EXCEPT ![k] = Append(@, n)]
  BY <1>0 DEF Chain
<1>4. /\ Append(queue[k], n) \in Seq(Ids) /\ Elements(Append(queue[k], n)) = Elements(queue[k]) \cup {n}
      /\ Len(queue[k]) \in Nat /\ DOMAIN queue[k] = 1..Len(queue[k])
      /\ \A i \in 1..Len(queue[k]) : Append(queue[k], n)[i] = queue[k][i]
  BY <1>2, Places
<1>5. /\ queue' \in [Keys -> Seq(Ids)] /\ queue'[k] = Append(queue[k], n)
      /\ \A j \in Keys : j # k => queue'[j] = queue[j]
  BY <1>2, <1>3, <1>4
<1>6. Increasing(queue'[k])
  <2>1. \A y \in Elements(queue[k]) : y < n
    BY <1>1 DEF QueueOK
  <2>2. n \in Nat
    BY <1>1
  <2> QED BY <1>2, <1>5, <2>1, <2>2, IncreasingAppend DEF QueueOK
<1>7. \A s \in Known : Over(s)' <=> Over(s)
  BY DEF Over
<1>8. ~Over(n)' /\ ~Started(n)' /\ turns'[n].key = k /\ Known' = Known \cup {n}
  BY <1>0 DEF Over, Started
<1>9. \A j \in Keys : Elements(queue'[j]) = {t \in Known' : turns'[t].key = j /\ ~Over(t)'}
  <2> TAKE j \in Keys
  <2>1. Elements(queue[j]) = {t \in Known : turns[t].key = j /\ ~Over(t)}
    BY DEF QueueOK
  <2>2. {t \in Known' : turns'[t].key = j /\ ~Over(t)'}
          = {t \in Known : turns[t].key = j /\ ~Over(t)} \cup IF j = k THEN {n} ELSE {}
    BY <1>1, <1>7, <1>8
  <2> QED BY <1>4, <1>5, <2>1, <2>2
<1>10. ASSUME NEW t \in Known, Started(t)
       PROVE  t = Head(queue'[turns[t].key])
  <2>1. t = Head(queue[turns[t].key]) /\ t \in Elements(queue[turns[t].key])
    BY <1>1, <1>10 DEF QueueOK, Over, Started
  <2>2. CASE turns[t].key = k
    <3>1. 1 \in 1..Len(queue[k])
      BY <1>4, <2>1, <2>2 DEF Elements
    <3>2. Head(queue[k]) = queue[k][1] /\ Head(queue'[k]) = queue'[k][1]
      OBVIOUS
    <3> QED BY <1>4, <1>5, <2>1, <2>2, <3>1, <3>2
  <2>3. CASE turns[t].key # k
    BY <1>1, <1>5, <2>1, <2>3
  <2> QED BY <2>2, <2>3
<1>11. \A t \in Known' : Started(t)' => t = Head(queue'[turns'[t].key])
  <2>1. \A t \in Known : Started(t)' <=> Started(t)
    BY DEF Started
  <2> QED BY <1>8, <1>10, <2>1
<1>12. \A s, t \in Known' : turns'[s].key = turns'[t].key /\ Over(s)' /\ ~Over(t)' => s < t
  BY <1>1, <1>7, <1>8 DEF QueueOK
<1> QED BY <1>5, <1>6, <1>9, <1>11, <1>12 DEF QueueOK

\* The end of the first turn of a queue.
LEMMA QueueSettled ==
  ASSUME TypeOK, QueueOK, NEW t \in Known, ~Over(t), t = Head(queue[turns[t].key]),
         queue' = [queue EXCEPT ![turns[t].key] = Tail(@)], Known' = Known, Over(t)',
         ~Started(t)',
         \A s \in Known : /\ turns'[s].key = turns[s].key
                          /\ s # t => turns'[s].phase = turns[s].phase
  PROVE  QueueOK' /\ queue' \in [Keys -> Seq(Ids)]
<1> DEFINE k == turns[t].key
<1>1. /\ Known \subseteq Ids /\ Ids \subseteq Nat /\ \A s \in Known : turns[s].key \in Keys
  BY TurnsAreTurns DEF Known, Ids, Turn
<1>2. k \in Keys /\ queue \in [Keys -> Seq(Ids)] /\ queue[k] \in Seq(Ids) /\ Increasing(queue[k])
      /\ t \in Elements(queue[k])
  BY <1>1 DEF TypeOK, QueueOK
<1>3. queue[k] # <<>>
  BY <1>2, EmptyFacts
<1> HIDE DEF k
<1>4. /\ Tail(queue[k]) \in Seq(Ids) /\ Increasing(Tail(queue[k]))
      /\ Elements(Tail(queue[k])) = Elements(queue[k]) \ {t}
      /\ \A y \in Elements(Tail(queue[k])) : t < y
  BY <1>1, <1>2, <1>3, IncreasingTail DEF k
<1>5. /\ queue' \in [Keys -> Seq(Ids)] /\ queue'[k] = Tail(queue[k])
      /\ \A j \in Keys : j # k => queue'[j] = queue[j]
  BY <1>2, <1>4 DEF k
<1>6. \A s \in Known : s # t => (Over(s)' <=> Over(s)) /\ (Started(s)' <=> Started(s))
  BY DEF Over, Started
<1>7. \A j \in Keys : Elements(queue'[j]) = {s \in Known : turns'[s].key = j /\ ~Over(s)'}
  BY <1>4, <1>5, <1>6 DEF QueueOK, k
<1>8. \A s \in Known : Started(s)' => s = Head(queue'[turns'[s].key])
  BY <1>1, <1>5, <1>6 DEF QueueOK, k
<1>9. \A s, u \in Known : turns'[s].key = turns'[u].key /\ Over(s)' /\ ~Over(u)' => s < u
  <2> SUFFICES ASSUME NEW s \in Known, NEW u \in Known, turns[s].key = turns[u].key, Over(s)', ~Over(u)'
               PROVE  s < u
    OBVIOUS
  <2>1. u # t /\ ~Over(u)
    BY <1>6
  <2>2. CASE s = t
    BY <1>1, <1>4, <2>1, <2>2 DEF QueueOK, k
  <2>3. CASE s # t
    BY <1>6, <2>1, <2>3 DEF QueueOK
  <2> QED BY <2>2, <2>3
<1> QED BY <1>4, <1>5, <1>7, <1>8, <1>9 DEF QueueOK

-----------------------------------------------------------------------------
(* Calls and conversations *)

\* Who waits, waits for one of its own that can still answer; an answer in an inbox
\* is given.
CallOK ==
  \A t \in Known :
    /\ turns[t].by < t
    /\ turns[t].reply # "none" => turns[t].by # 0
    /\ Distinct(turns[t].inbox)
    /\ \A x \in Elements(turns[t].inbox) : x \in Known /\ turns[x].by = t /\ turns[x].reply = "none"
    /\ turns[t].waits # 0 =>
         \E w \in Known : /\ w = turns[t].waits /\ turns[w].by = t
                          /\ turns[w].reply = "sync" /\ ~Over(w)
    /\ Over(t) => turns[t].waits = 0

Told(t) == {m \in Message : /\ m.kind = "answer" /\ m.id \in Known /\ turns[m.id].by = t
                            /\ turns[m.id].reply = "none" /\ m.id \notin Elements(turns[t].inbox)}

\* What a turn under way adds to the stored conversation: its input and the answers
\* of its own calls that it has taken from its inbox.
Talks(t) ==
  IF turns[t].phase \in {"running", "ended"}
  THEN /\ Orderly(turns[t].talk) /\ Asked(t) \in Elements(turns[t].talk)
       /\ Elements(stored[turns[t].key]) \subseteq Elements(turns[t].talk)
       /\ Elements(turns[t].talk) \subseteq Elements(stored[turns[t].key]) \cup {Asked(t)} \cup Told(t)
  ELSE turns[t].talk = <<>>

TalkOK == \A t \in Known : Talks(t)

Written(t) == turns[t].phase \in {"stored", "done", "failed", "lost"}

\* A stored conversation is of turns that have been written, and has each of them.
StoredOK ==
  /\ \A k \in Keys :
       /\ Orderly(stored[k])
       /\ \A m \in Elements(stored[k]) :
            /\ m.id \in Known
            /\ m.kind = "input" => turns[m.id].key = k /\ Written(m.id)
            /\ m.kind = "answer" => turns[m.id].by # 0 /\ Written(turns[m.id].by)
  /\ \A t \in Known : turns[t].phase \in {"stored", "done"} =>
                        Asked(t) \in Elements(stored[turns[t].key])
  /\ restart # 0 => restart \in Known /\ Asked(restart) \in Elements(stored[turns[restart].key])

LEMMA CallKept ==
  ASSUME CallOK, Known' = Known,
         \A s \in Known :
           /\ turns'[s].by = turns[s].by /\ turns'[s].reply \in {turns[s].reply, "none"}
           /\ Distinct(turns'[s].inbox)
           /\ \A x \in Elements(turns'[s].inbox) :
                x \in Elements(turns[s].inbox) \/ (x \in Known /\ turns[x].by = s /\ turns'[x].reply = "none")
           /\ turns'[s].waits # 0 =>
                /\ turns'[s].waits = turns[s].waits /\ (Over(s)' => Over(s))
                /\ \A w \in Known : w = turns[s].waits =>
                     (Over(w)' => Over(w)) /\ turns'[w].reply = turns[w].reply
  PROVE  CallOK'
<1> SUFFICES ASSUME NEW t \in Known
             PROVE  /\ turns'[t].by < t
                    /\ turns'[t].reply # "none" => turns'[t].by # 0
                    /\ Distinct(turns'[t].inbox)
                    /\ \A x \in Elements(turns'[t].inbox) :
                         x \in Known /\ turns'[x].by = t /\ turns'[x].reply = "none"
                    /\ turns'[t].waits # 0 =>
                         \E w \in Known : /\ w = turns'[t].waits /\ turns'[w].by = t
                                          /\ turns'[w].reply = "sync" /\ ~Over(w)'
                    /\ Over(t)' => turns'[t].waits = 0
  BY DEF CallOK
<1>1. turns'[t].by < t /\ (turns'[t].reply # "none" => turns'[t].by # 0) /\ Distinct(turns'[t].inbox)
  BY DEF CallOK
<1>2. \A x \in Elements(turns'[t].inbox) : x \in Known /\ turns'[x].by = t /\ turns'[x].reply = "none"
  BY DEF CallOK
<1>3. ASSUME turns'[t].waits # 0
      PROVE  \E w \in Known : /\ w = turns'[t].waits /\ turns'[w].by = t
                              /\ turns'[w].reply = "sync" /\ ~Over(w)'
  <2>1. turns'[t].waits = turns[t].waits
    BY <1>3
  <2>2. PICK w \in Known : w = turns[t].waits /\ turns[w].by = t /\ turns[w].reply = "sync" /\ ~Over(w)
    BY <1>3, <2>1 DEF CallOK
  <2>3. (Over(w)' => Over(w)) /\ turns'[w].reply = turns[w].reply
    BY <1>3, <2>2
  <2> QED BY <2>1, <2>2, <2>3
<1>4. Over(t)' => turns'[t].waits = 0
  BY DEF CallOK
<1> QED BY <1>1, <1>2, <1>3, <1>4

LEMMA CallAdded ==
  ASSUME TypeOK, CallOK, NEW n, n = Len(turns) + 1, Known' = Known \cup {n},
         \A s \in Known :
           /\ turns'[s].by = turns[s].by /\ turns'[s].reply = turns[s].reply
           /\ turns'[s].inbox = turns[s].inbox /\ turns'[s].phase = turns[s].phase
           /\ turns'[s].waits = turns[s].waits
                \/ (~Over(s) /\ turns'[s].waits = n /\ turns'[n].by = s /\ turns'[n].reply = "sync"),
         turns'[n].by \in Known \cup {0}, turns'[n].reply # "none" => turns'[n].by # 0,
         turns'[n].inbox = <<>>, turns'[n].waits = 0, turns'[n].phase = "queued"
  PROVE  CallOK'
<1>1. Len(turns) \in Nat /\ n \notin Known /\ \A s \in Known : s \in Nat \ {0} /\ s < n /\ s # 0
  BY TurnsAreTurns DEF Known
<1>2. \A s \in Known : Over(s)' <=> Over(s)
  BY DEF Over
<1>3. ~Over(n)'
  BY DEF Over
<1>4. ASSUME NEW t \in Known
      PROVE  /\ turns'[t].by < t
             /\ turns'[t].reply # "none" => turns'[t].by # 0
             /\ Distinct(turns'[t].inbox)
             /\ \A x \in Elements(turns'[t].inbox) :
                  x \in Known' /\ turns'[x].by = t /\ turns'[x].reply = "none"
             /\ turns'[t].waits # 0 =>
                  \E w \in Known' : /\ w = turns'[t].waits /\ turns'[w].by = t
                                    /\ turns'[w].reply = "sync" /\ ~Over(w)'
             /\ Over(t)' => turns'[t].waits = 0
  <2>1. /\ turns'[t].by < t /\ (turns'[t].reply # "none" => turns'[t].by # 0)
        /\ Distinct(turns'[t].inbox)
        /\ \A x \in Elements(turns'[t].inbox) :
             x \in Known' /\ turns'[x].by = t /\ turns'[x].reply = "none"
    BY DEF CallOK
  <2>2. ASSUME turns'[t].waits # 0
        PROVE  \E w \in Known' : /\ w = turns'[t].waits /\ turns'[w].by = t
                                 /\ turns'[w].reply = "sync" /\ ~Over(w)'
    <3>1. CASE turns'[t].waits = turns[t].waits
      <4>1. PICK w \in Known : w = turns[t].waits /\ turns[w].by = t /\ turns[w].reply = "sync" /\ ~Over(w)
        BY <2>2, <3>1 DEF CallOK
      <4> QED BY <1>2, <3>1, <4>1
    <3>2. CASE turns'[t].waits # turns[t].waits
      BY <1>3, <3>2
    <3> QED BY <3>1, <3>2
  <2>3. Over(t)' => turns'[t].waits = 0
    BY <1>2 DEF CallOK
  <2> QED BY <2>1, <2>2, <2>3
<1>5. turns'[n].by < n
  BY <1>1
<1> QED BY <1>4, <1>5, EmptyFacts DEF CallOK

LEMMA TalksKept ==
  ASSUME NEW s \in Known, Talks(s), Known \subseteq Known',
         turns'[s].key = turns[s].key, stored'[turns[s].key] = stored[turns[s].key],
         turns'[s].phase \in {"running", "ended"} =>
           /\ turns[s].phase \in {"running", "ended"} /\ turns'[s].talk = turns[s].talk
           /\ \A x \in Elements(turns'[s].inbox) :
                x \in Elements(turns[s].inbox) \/ turns[x].reply # "none",
         turns'[s].phase \notin {"running", "ended"} => turns'[s].talk = <<>>,
         \A x \in Known : turns'[x].by = turns[x].by /\ turns'[x].reply \in {turns[x].reply, "none"}
  PROVE  Talks(s)'
<1>1. CASE turns'[s].phase \in {"running", "ended"}
  <2>1. Told(s) \subseteq Told(s)'
    BY <1>1 DEF Told
  <2>2. Asked(s)' = Asked(s)
    BY DEF Asked
  <2> QED BY <1>1, <2>1, <2>2 DEF Talks
<1>2. CASE turns'[s].phase \notin {"running", "ended"}
  BY <1>2 DEF Talks
<1> QED BY <1>1, <1>2

LEMMA StoredKept ==
  ASSUME TypeOK, CallOK, StoredOK, Known \subseteq Known', stored' = stored, restart' \in {restart, 0},
         \A s \in Known :
           /\ turns'[s].key = turns[s].key /\ turns'[s].by = turns[s].by
           /\ Written(s) => Written(s)'
           /\ turns'[s].phase \in {"stored", "done"} => turns[s].phase \in {"stored", "done"},
         \A s \in Known' \ Known : turns'[s].phase = "queued"
  PROVE  StoredOK'
<1>1. ASSUME NEW k \in Keys, NEW m \in Elements(stored[k])
      PROVE  /\ m.id \in Known'
             /\ m.kind = "input" => turns'[m.id].key = k /\ (Written(m.id))'
             /\ m.kind = "answer" => turns'[m.id].by # 0 /\ (Written(turns[m.id].by))'
  <2>1. m.id \in Known /\ turns'[m.id].by = turns[m.id].by
    BY DEF StoredOK
  <2>2. m.kind = "input" => turns[m.id].key = k /\ Written(m.id)
    BY DEF StoredOK
  <2>3. m.kind = "answer" => turns[m.id].by \in Known /\ Written(turns[m.id].by)
    <3>1. turns[m.id].by < m.id /\ turns[m.id].by \in 0..MaxTurns /\ m.id \in 1..Len(turns) /\ Len(turns) \in Nat
      BY <2>1, TurnsAreTurns DEF CallOK, Turn, Known
    <3> QED BY <3>1 DEF StoredOK, Known
  <2> QED BY <2>1, <2>2, <2>3 DEF Written, StoredOK
<1> QED BY <1>1 DEF StoredOK, Asked

-----------------------------------------------------------------------------
(* A turn goes on *)

\* What the steps of a turn leave of it.
Same(x, y) ==
  /\ y.key = x.key /\ y.by = x.by /\ y.asked = x.asked /\ y.viaMiddleware = x.viaMiddleware
  /\ y.stack = x.stack /\ y.reply = x.reply /\ y.waits = x.waits

LEMMA WithEnd ==
  ASSUME NEW x \in Turn, NEW y, y = [x EXCEPT !.phase = "ended"]
  PROVE  y \in Turn /\ Same(x, y) /\ y.phase = "ended" /\ y.talk = x.talk /\ y.inbox = x.inbox
BY DEF Turn, Same

\* What a call is, no step changes; a turn under way keeps the stack it came with,
\* and hands it on: a request is of no key that is in the stack it carries.
Steady ==
  /\ Known \subseteq Known'
  /\ \A s \in Known :
       /\ turns'[s].key = turns[s].key /\ turns'[s].by = turns[s].by
       /\ turns'[s].asked = turns[s].asked /\ turns'[s].viaMiddleware = turns[s].viaMiddleware
       /\ ~Over(s)' => ~Over(s) /\ turns'[s].stack = turns[s].stack
  /\ \A n \in Known' \ Known :
       /\ turns'[n].asked => turns'[n].key \notin turns'[n].stack
       /\ turns'[n].by # 0 =>
            /\ turns'[n].by \in Known /\ ~Over(turns'[n].by)
            /\ StackOf(turns'[n].by, turns'[n].viaMiddleware) \subseteq turns'[n].stack

\* What the answers rest on; for chains of calls see ChainOK.
Engine == TypeOK /\ QueueOK /\ CallOK /\ TalkOK /\ StoredOK

\* t takes its input, or what its inbox holds, or goes on as it is: what it says is
\* still the stored conversation and what is its own.
LEMMA TalkFacts ==
  ASSUME Engine, NEW t \in Known, NEW c,
         \/ turns[t].phase \in {"queued", "running"} /\ c = Append(stored[turns[t].key], Asked(t))
         \/ turns[t].phase = "running" /\ c = turns[t].talk \o Answers(turns[t].inbox)
         \/ turns[t].phase = "running" /\ c = turns[t].talk
  PROVE  /\ c \in Seq(Message) /\ Orderly(c) /\ Asked(t) \in Elements(c)
         /\ Elements(stored[turns[t].key]) \subseteq Elements(c)
         /\ Elements(c) \subseteq Elements(stored[turns[t].key]) \cup {Asked(t)} \cup Told(t)
                                \cup {m \in Message : m.kind = "answer" /\ m.id \in Elements(turns[t].inbox)}
         /\ c = turns[t].talk =>
              Elements(c) \subseteq Elements(stored[turns[t].key]) \cup {Asked(t)} \cup Told(t)
         /\ c = Append(stored[turns[t].key], Asked(t)) =>
              Elements(c) \subseteq Elements(stored[turns[t].key]) \cup {Asked(t)}
<1> DEFINE k == turns[t].key
           b == turns[t].inbox
<1>1. /\ turns[t] \in Turn /\ k \in Keys /\ stored[k] \in Seq(Message) /\ Orderly(stored[k])
      /\ b \in Seq(Ids) /\ Distinct(b) /\ turns[t].talk \in Seq(Message) /\ t \in Ids
  BY TurnsAreTurns DEF Engine, TypeOK, Turn, StoredOK, CallOK
<1>2. Asked(t) \in Message /\ Asked(t).kind = "input" /\ Asked(t).id = t
  BY <1>1 DEF Asked, Message
<1>3. CASE turns[t].phase \in {"queued", "running"} /\ c = Append(stored[k], Asked(t))
  <2>1. ASSUME NEW m \in Elements(stored[k]), m.kind = "input"
        PROVE  m.id < t
    <3>1. m.id \in Known /\ turns[m.id].key = k /\ Written(m.id)
      BY <1>1, <2>1 DEF Engine, StoredOK
    <3>2. CASE Over(m.id)
      <4>1. ~Over(t)
        BY <1>3 DEF Over
      <4> QED BY <3>1, <3>2, <4>1 DEF Engine, QueueOK
    <3>3. CASE turns[m.id].phase = "stored"
      <4>1. m.id = Head(queue[k]) /\ ~Over(m.id)
        BY <3>1, <3>3 DEF Engine, QueueOK, Started, Over
      <4>2. t \in Elements(queue[k]) /\ queue[k] \in Seq(Ids) /\ Increasing(queue[k])
        BY <1>1, <1>3 DEF Engine, QueueOK, Over, TypeOK
      <4>3. queue[k] # <<>> /\ Ids \subseteq Nat
        BY <4>2, EmptyFacts DEF Ids
      <4>4. t \in Elements(Tail(queue[k])) \/ t = Head(queue[k])
        BY <4>2, <4>3, IncreasingTail
      <4>5. t # m.id
        BY <1>3, <3>3
      <4> QED BY <4>1, <4>2, <4>3, <4>4, <4>5, IncreasingTail
    <3> QED BY <3>1, <3>2, <3>3 DEF Written, Over
  <2>2. Asked(t) \notin Elements(stored[k])
    BY <1>2, <1>1, <2>1 DEF Ids
  <2>3. /\ c \in Seq(Message) /\ Orderly(c) /\ Elements(c) = Elements(stored[k]) \cup {Asked(t)}
    BY <1>1, <1>2, <1>3, <2>1, <2>2, OrderlyAppend, Places
  <2> QED BY <1>3, <2>3
<1>4. CASE turns[t].phase = "running" /\ c = turns[t].talk
  <2>1. c = Append(stored[k], Asked(t)) => Elements(c) \subseteq Elements(stored[k]) \cup {Asked(t)}
    BY <1>1, <1>2, Places
  <2> QED BY <1>1, <1>4, <2>1 DEF Engine, TalkOK, Talks
<1>5. CASE turns[t].phase = "running" /\ c = turns[t].talk \o Answers(b)
  <2>1. /\ Orderly(turns[t].talk) /\ Asked(t) \in Elements(turns[t].talk)
        /\ Elements(stored[k]) \subseteq Elements(turns[t].talk)
        /\ Elements(turns[t].talk) \subseteq Elements(stored[k]) \cup {Asked(t)} \cup Told(t)
    BY <1>5 DEF Engine, TalkOK, Talks
  <2>2. ASSUME NEW x \in Elements(turns[t].talk), x.kind = "answer" PROVE x.id \notin Elements(b)
    <3>1. CASE x \in Elements(stored[k])
      <4>1. Written(turns[x.id].by)
        BY <1>1, <2>2, <3>1 DEF Engine, StoredOK
      <4>2. ~Written(t)
        BY <1>5 DEF Written
      <4> QED BY <4>1, <4>2 DEF Engine, CallOK
    <3>2. CASE x \in Told(t)
      BY <3>2 DEF Told
    <3>3. CASE x = Asked(t)
      BY <1>2, <2>2, <3>3
    <3> QED BY <2>1, <3>1, <3>2, <3>3
  <2>3. /\ c \in Seq(Message) /\ Orderly(c) /\ Elements(turns[t].talk) \subseteq Elements(c)
        /\ \A x \in Elements(c) :
              x \in Elements(turns[t].talk) \/ (x.kind = "answer" /\ x.id \in Elements(b))
    <3> HIDE DEF b
    <3> QED BY <1>1, <1>5, <2>1, <2>2, AnswersOf
  <2>4. Elements(c) \subseteq Message
    BY <2>3, ElementsAreMembers
  <2>5. /\ c # turns[t].talk \/ c = turns[t].talk
    OBVIOUS
  <2>6. c = Append(stored[k], Asked(t)) => Elements(c) \subseteq Elements(stored[k]) \cup {Asked(t)}
    BY <1>1, <1>2, Places
  <2> QED BY <2>1, <2>3, <2>4, <2>6
<1> QED BY <1>3, <1>4, <1>5

\* One turn goes on, in its place in the queue: what it has said since is its own.
LEMMA ProgressKeeps ==
  ASSUME Engine, NEW t \in Known, ~Over(t), NEW r \in Turn, turns' = [turns EXCEPT ![t] = r],
         Same(turns[t], r), ~(r.phase \in {"done", "failed", "lost"}),
         r.inbox \in {turns[t].inbox, <<>>},
         t = Head(queue[turns[t].key]) \/ r.phase = turns[t].phase,
         UNCHANGED queue
  PROVE  /\ Known' = Known /\ QueueOK' /\ CallOK' /\ Steady
         /\ turns' \in Seq(Turn) /\ Len(turns') = Len(turns)
         /\ \A s \in Known : Len(turns'[s].inbox) <= MaxInbox
         /\ turns'[t] = r /\ \A s \in Known : s # t => turns'[s] = turns[s]
<1>1. /\ turns' \in Seq(Turn) /\ Len(turns') = Len(turns) /\ Known' = Known
      /\ turns'[t] = r /\ \A s \in Known : s # t => turns'[s] = turns[s]
  BY OneMoves DEF Engine
<1>2. /\ r.key = turns[t].key /\ r.by = turns[t].by /\ r.reply = turns[t].reply
      /\ r.waits = turns[t].waits
  BY DEF Same
<1>3. \A s \in Known : Over(s)' <=> Over(s)
  BY <1>1 DEF Over
<1>4. QueueOK'
  <2>1. \A s \in Known : /\ turns'[s].key = turns[s].key
                         /\ Started(s)' => Started(s) \/ s = Head(queue[turns[s].key])
    BY <1>1, <1>2 DEF Started
  <2> QED BY <1>1, <1>3, <2>1, QueueKept DEF Engine
<1>5. CallOK'
  <2>1. Distinct(r.inbox) /\ Elements(r.inbox) \subseteq Elements(turns[t].inbox)
    BY EmptyFacts DEF Engine, CallOK
  <2>2. ASSUME NEW s \in Known
        PROVE  /\ turns'[s].by = turns[s].by /\ turns'[s].reply \in {turns[s].reply, "none"}
               /\ Distinct(turns'[s].inbox)
               /\ \A x \in Elements(turns'[s].inbox) : x \in Elements(turns[s].inbox)
               /\ turns'[s].waits # 0 =>
                    /\ turns'[s].waits = turns[s].waits /\ (Over(s)' => Over(s))
                    /\ \A w \in Known : w = turns[s].waits =>
                         (Over(w)' => Over(w)) /\ turns'[w].reply = turns[w].reply
    <3>1. Distinct(turns[s].inbox)
      BY DEF Engine, CallOK
    <3> QED BY <1>1, <1>2, <1>3, <2>1, <3>1
  <2> QED BY <1>1, <2>2, CallKept DEF Engine
<1>6. \A s \in Known : Len(turns'[s].inbox) <= MaxInbox
  <2>1. Len(<<>>) = 0 /\ 0 <= MaxInbox
    BY BoundsAssumption
  <2> QED BY <1>1, <2>1 DEF Engine, TypeOK
<1>7. Steady
  <2>1. \A s \in Known : turns'[s].stack = turns[s].stack /\ turns'[s].asked = turns[s].asked
                         /\ turns'[s].viaMiddleware = turns[s].viaMiddleware
    BY <1>1 DEF Same
  <2> QED BY <1>1, <1>2, <1>3, <2>1 DEF Steady
<1> QED BY <1>1, <1>4, <1>5, <1>6, <1>7

LEMMA SpeaksKeeps ==
  ASSUME Engine, NEW t \in Known, ~Over(t), turns[t].phase # "stored", NEW r \in Turn,
         turns' = [turns EXCEPT ![t] = r],
         Same(turns[t], r), r.phase \in {"running", "ended"},
         r.inbox \in {turns[t].inbox, <<>>},
         t = Head(queue[turns[t].key]) \/ r.phase = turns[t].phase,
         Orderly(r.talk), Asked(t) \in Elements(r.talk),
         Elements(stored[turns[t].key]) \subseteq Elements(r.talk),
         Elements(r.talk) \subseteq Elements(stored[turns[t].key]) \cup {Asked(t)} \cup Told(t)
                                      \cup {m \in Message : m.kind = "answer" /\ m.id \in Elements(turns[t].inbox)},
         r.inbox = <<>> \/ Elements(r.talk) \subseteq Elements(stored[turns[t].key]) \cup {Asked(t)} \cup Told(t),
         UNCHANGED <<queue, stored, restart, exits>>
  PROVE  Engine' /\ Steady
<1>1. /\ Known' = Known /\ QueueOK' /\ CallOK' /\ Steady
      /\ turns' \in Seq(Turn) /\ Len(turns') = Len(turns)
      /\ \A s \in Known : Len(turns'[s].inbox) <= MaxInbox
      /\ turns'[t] = r /\ \A s \in Known : s # t => turns'[s] = turns[s]
  BY ProgressKeeps
<1>2. TypeOK'
  BY <1>1 DEF Engine, TypeOK
<1>3. r.key = turns[t].key /\ r.by = turns[t].by /\ r.reply = turns[t].reply
  BY DEF Same
<1>4. \A x \in Known : turns'[x].by = turns[x].by /\ turns'[x].reply = turns[x].reply
                       /\ turns'[x].key = turns[x].key
  BY <1>1, <1>3
<1>5. Talks(t)'
  <2>1. Told(t)' = {m \in Message : /\ m.kind = "answer" /\ m.id \in Known /\ turns[m.id].by = t
                                    /\ turns[m.id].reply = "none" /\ m.id \notin Elements(r.inbox)}
    BY <1>1, <1>4 DEF Told
  <2>2. \A x \in Elements(turns[t].inbox) : x \in Known /\ turns[x].by = t /\ turns[x].reply = "none"
    BY DEF Engine, CallOK
  <2>3. Elements(r.talk) \subseteq Elements(stored[turns[t].key]) \cup {Asked(t)} \cup Told(t)'
    <3>1. CASE r.inbox = <<>>
      BY <2>1, <2>2, <3>1, EmptyFacts DEF Told
    <3>2. CASE r.inbox # <<>>
      BY <2>1, <3>2 DEF Told
    <3> QED BY <3>1, <3>2
  <2>4. turns'[t] = r /\ Asked(t)' = Asked(t)
    BY <1>1 DEF Asked
  <2> QED BY <1>3, <2>3, <2>4 DEF Talks
<1>6. ASSUME NEW s \in Known, s # t PROVE Talks(s)'
  <2>1. turns'[s] = turns[s] /\ Talks(s)
    BY <1>1, <1>6 DEF Engine, TalkOK
  <2>2. turns[s].phase \notin {"running", "ended"} => turns[s].talk = <<>>
    BY <2>1 DEF Talks
  <2> QED BY <1>1, <1>4, <2>1, <2>2, TalksKept
<1>7. TalkOK'
  BY <1>1, <1>5, <1>6 DEF TalkOK
<1>8. StoredOK'
  <2>1. \A s \in Known :
           /\ Written(s) => Written(s)'
           /\ turns'[s].phase \in {"stored", "done"} => turns[s].phase \in {"stored", "done"}
    BY <1>1 DEF Written, Over
  <2> QED BY <1>1, <1>4, <2>1, StoredKept DEF Engine
<1> QED BY <1>1, <1>2, <1>7, <1>8 DEF Engine

LEMMA BeginKeeps ==
  ASSUME Engine, NEW t \in Known, Begin(t)
  PROVE  Engine' /\ Steady
<1> DEFINE c == Append(stored[turns[t].key], Asked(t))
           r == [turns[t] EXCEPT !.phase = "running", !.talk = c]
<1>1. /\ turns[t].phase = "queued" /\ t = Head(queue[turns[t].key]) /\ turns' = [turns EXCEPT ![t] = r]
      /\ UNCHANGED <<queue, stored, restart, exits>> /\ turns[t] \in Turn
  BY TurnsAreTurns DEF Begin, Engine
<1>2. /\ c \in Seq(Message) /\ Orderly(c) /\ Asked(t) \in Elements(c)
      /\ Elements(stored[turns[t].key]) \subseteq Elements(c)
      /\ Elements(c) \subseteq Elements(stored[turns[t].key]) \cup {Asked(t)}
  BY <1>1, TalkFacts
<1> HIDE DEF c
<1>4. r = [turns[t] EXCEPT !.phase = "running", !.talk = c]
  OBVIOUS
<1> HIDE DEF r
<1>3. r \in Turn /\ Same(turns[t], r) /\ r.phase = "running" /\ r.talk = c /\ r.inbox = turns[t].inbox
  BY <1>1, <1>2, <1>4 DEF Turn, Same
<1> QED BY <1>1, <1>2, <1>3, SpeaksKeeps DEF Over

LEMMA StepKeeps ==
  ASSUME Engine, NEW t \in Known, NEW restarts \in BOOLEAN, Step(t, restarts)
  PROVE  Engine' /\ Steady
<1> DEFINE c == turns[t].talk \o Answers(turns[t].inbox)
           r == [turns[t] EXCEPT !.talk = c, !.inbox = <<>>, !.steps = @ + 1, !.restarts = @ \/ restarts]
<1>1. /\ turns[t].phase = "running" /\ turns' = [turns EXCEPT ![t] = r] /\ turns[t].steps < MaxSteps
      /\ UNCHANGED <<queue, stored, restart, exits>> /\ turns[t] \in Turn
  BY TurnsAreTurns DEF Step, Idle, Engine
<1>2. /\ c \in Seq(Message) /\ Orderly(c) /\ Asked(t) \in Elements(c)
      /\ Elements(stored[turns[t].key]) \subseteq Elements(c)
      /\ Elements(c) \subseteq Elements(stored[turns[t].key]) \cup {Asked(t)} \cup Told(t)
                                \cup {m \in Message : m.kind = "answer" /\ m.id \in Elements(turns[t].inbox)}
  BY <1>1, TalkFacts
<1> HIDE DEF c
<1> DEFINE n == turns[t].steps + 1
           b == turns[t].restarts \/ restarts
<1>4. r = [turns[t] EXCEPT !.talk = c, !.inbox = <<>>, !.steps = n, !.restarts = b]
  OBVIOUS
<1> HIDE DEF r
<1>3. r \in Turn /\ Same(turns[t], r) /\ r.phase = turns[t].phase /\ r.talk = c /\ r.inbox = <<>>
  <2>1. n \in 0..MaxSteps /\ b \in BOOLEAN
    BY <1>1, BoundsAssumption DEF Turn
  <2> HIDE DEF n, b
  <2> QED BY <1>1, <1>2, <1>4, <2>1, EmptyFacts DEF Turn, Same
<1> QED BY <1>1, <1>2, <1>3, SpeaksKeeps DEF Over

LEMMA EndKeeps ==
  ASSUME Engine, NEW t \in Known, End(t)
  PROVE  Engine' /\ Steady
<1>1. /\ turns[t].phase = "running" /\ t = Head(queue[turns[t].key])
      /\ UNCHANGED <<queue, stored, restart, exits>> /\ turns[t] \in Turn
  BY TurnsAreTurns DEF End, Idle, Engine, QueueOK, Started
<1>2. CASE turns' = [turns EXCEPT ![t].phase = "ended"]
  <2> DEFINE r == [turns[t] EXCEPT !.phase = "ended"]
             c == turns[t].talk
  <2>1. turns' = [turns EXCEPT ![t] = r]
    BY <1>2
  <2>2. /\ c \in Seq(Message) /\ Orderly(c) /\ Asked(t) \in Elements(c)
        /\ Elements(stored[turns[t].key]) \subseteq Elements(c)
        /\ Elements(c) \subseteq Elements(stored[turns[t].key]) \cup {Asked(t)} \cup Told(t)
    BY <1>1, TalkFacts
  <2>3. r \in Turn /\ Same(turns[t], r) /\ r.phase = "ended" /\ r.talk = c /\ r.inbox = turns[t].inbox
    BY <1>1, WithEnd
  <2> HIDE DEF c, r
  <2> QED BY <1>1, <2>1, <2>2, <2>3, SpeaksKeeps DEF Over
<1>3. CASE turns' = [turns EXCEPT ![t].phase = "ended", ![t].inbox = <<>>,
                                  ![t].talk = @ \o Answers(turns[t].inbox)]
  <2> DEFINE c == turns[t].talk \o Answers(turns[t].inbox)
             r == [turns[t] EXCEPT !.phase = "ended", !.inbox = <<>>, !.talk = c]
  <2>1. turns' = [turns EXCEPT ![t] = r]
    BY <1>3
  <2>2. /\ c \in Seq(Message) /\ Orderly(c) /\ Asked(t) \in Elements(c)
        /\ Elements(stored[turns[t].key]) \subseteq Elements(c)
        /\ Elements(c) \subseteq Elements(stored[turns[t].key]) \cup {Asked(t)} \cup Told(t)
                                \cup {m \in Message : m.kind = "answer" /\ m.id \in Elements(turns[t].inbox)}
    BY <1>1, TalkFacts
  <2> HIDE DEF c
  <2>4. r = [turns[t] EXCEPT !.phase = "ended", !.inbox = <<>>, !.talk = c]
    OBVIOUS
  <2> HIDE DEF r
  <2>3. r \in Turn /\ Same(turns[t], r) /\ r.phase = "ended" /\ r.talk = c /\ r.inbox = <<>>
    BY <1>1, <2>2, <2>4, EmptyFacts DEF Turn, Same
  <2> QED BY <1>1, <2>1, <2>2, <2>3, SpeaksKeeps DEF Over
<1> QED BY <1>2, <1>3 DEF End

LEMMA FailKeeps ==
  ASSUME Engine, NEW t \in Known, Fail(t)
  PROVE  Engine' /\ Steady
<1> DEFINE c == Append(stored[turns[t].key], Asked(t))
           r == [turns[t] EXCEPT !.phase = "ended", !.restarts = FALSE, !.talk = c]
<1>1. /\ turns[t].phase = "running" /\ t = Head(queue[turns[t].key]) /\ turns' = [turns EXCEPT ![t] = r]
      /\ UNCHANGED <<queue, stored, restart, exits>> /\ turns[t] \in Turn
  BY TurnsAreTurns DEF Fail, Idle, Engine, QueueOK, Started
<1>2. /\ c \in Seq(Message) /\ Orderly(c) /\ Asked(t) \in Elements(c)
      /\ Elements(stored[turns[t].key]) \subseteq Elements(c)
      /\ Elements(c) \subseteq Elements(stored[turns[t].key]) \cup {Asked(t)}
  BY <1>1, TalkFacts
<1> HIDE DEF c
<1>4. r = [turns[t] EXCEPT !.phase = "ended", !.restarts = FALSE, !.talk = c]
  OBVIOUS
<1> HIDE DEF r
<1>3. r \in Turn /\ Same(turns[t], r) /\ r.phase = "ended" /\ r.talk = c /\ r.inbox = turns[t].inbox
  BY <1>1, <1>2, <1>4 DEF Turn, Same
<1> QED BY <1>1, <1>2, <1>3, SpeaksKeeps DEF Over

\* persistConversationToStorage: what was stored is part of what takes its place.
LEMMA PersistKeeps ==
  ASSUME Engine, NEW t \in Known, Persist(t)
  PROVE  Engine' /\ Steady
<1> DEFINE r == [turns[t] EXCEPT !.phase = "stored", !.talk = <<>>]
           k == turns[t].key
<1>1. /\ turns[t].phase = "ended" /\ turns' = [turns EXCEPT ![t] = r]
      /\ stored' = [stored EXCEPT ![k] = turns[t].talk]
      /\ UNCHANGED <<queue, restart, exits>> /\ turns[t] \in Turn /\ ~Over(t)
      /\ t = Head(queue[k]) /\ k \in Keys
  BY TurnsAreTurns DEF Persist, Engine, QueueOK, Started, Over, Turn
<1>2. /\ turns[t].talk \in Seq(Message)
      /\ Orderly(turns[t].talk) /\ Asked(t) \in Elements(turns[t].talk)
      /\ Elements(stored[k]) \subseteq Elements(turns[t].talk)
      /\ Elements(turns[t].talk) \subseteq Elements(stored[k]) \cup {Asked(t)} \cup Told(t)
  BY <1>1 DEF Engine, TalkOK, Talks, Turn
<1>3. r = [turns[t] EXCEPT !.phase = "stored", !.talk = <<>>]
  OBVIOUS
<1> HIDE DEF r
<1>4. r \in Turn /\ Same(turns[t], r) /\ r.phase = "stored" /\ r.talk = <<>> /\ r.inbox = turns[t].inbox
  BY <1>1, <1>3, EmptyFacts DEF Turn, Same
<1>5. /\ Known' = Known /\ QueueOK' /\ CallOK' /\ Steady
      /\ turns' \in Seq(Turn) /\ Len(turns') = Len(turns)
      /\ \A s \in Known : Len(turns'[s].inbox) <= MaxInbox
      /\ turns'[t] = r /\ \A s \in Known : s # t => turns'[s] = turns[s]
  BY <1>1, <1>4, ProgressKeeps
<1>6. /\ stored' \in [Keys -> Seq(Message)] /\ stored'[k] = turns[t].talk
      /\ \A j \in Keys : j # k => stored'[j] = stored[j]
  BY <1>1, <1>2 DEF Engine, TypeOK
<1>7. \A x \in Known : turns'[x].by = turns[x].by /\ turns'[x].reply = turns[x].reply
                       /\ turns'[x].key = turns[x].key
  BY <1>4, <1>5 DEF Same
<1>8. TypeOK'
  BY <1>1, <1>5, <1>6 DEF Engine, TypeOK
<1>9. TalkOK'
  <2>1. Talks(t)'
    BY <1>4, <1>5 DEF Talks
  <2>2. ASSUME NEW s \in Known, s # t PROVE Talks(s)'
    <3>1. turns'[s] = turns[s] /\ Talks(s) /\ turns[s].key \in Keys
      BY <1>5, <2>2, TurnsAreTurns DEF Engine, TalkOK, Turn
    <3>2. CASE turns[s].phase \in {"running", "ended"}
      <4>1. turns[s].key # k
        BY <1>1, <2>2, <3>2 DEF Engine, QueueOK, Started
      <4> QED BY <1>5, <1>6, <1>7, <3>1, <3>2, <4>1, TalksKept
    <3>3. CASE turns[s].phase \notin {"running", "ended"}
      BY <3>1, <3>3 DEF Talks
    <3> QED BY <3>2, <3>3
  <2> QED BY <1>5, <2>1, <2>2 DEF TalkOK
<1>10. StoredOK'
  <2>1. \A x \in Known : Written(x) => (Written(x))'
    BY <1>4, <1>5 DEF Written
  <2>2. Written(t)'
    BY <1>4, <1>5 DEF Written
  <2>3. ASSUME NEW j \in Keys, NEW m \in Elements(stored[j])
        PROVE  /\ m.id \in Known
               /\ m.kind = "input" => turns'[m.id].key = j /\ (Written(m.id))'
               /\ m.kind = "answer" => turns'[m.id].by # 0 /\ (Written(turns[m.id].by))'
    <3>1. m.id \in Known /\ turns'[m.id].by = turns[m.id].by /\ turns'[m.id].key = turns[m.id].key
      BY <1>7 DEF Engine, StoredOK
    <3>2. m.kind = "input" => turns[m.id].key = j /\ Written(m.id)
      BY DEF Engine, StoredOK
    <3>3. m.kind = "answer" => turns[m.id].by \in Known /\ Written(turns[m.id].by) /\ turns[m.id].by # 0
      <4>1. turns[m.id].by < m.id /\ turns[m.id].by \in 0..MaxTurns /\ m.id \in 1..Len(turns) /\ Len(turns) \in Nat
        BY <3>1, TurnsAreTurns DEF Engine, CallOK, Turn, Known
      <4> QED BY <4>1 DEF Engine, StoredOK, Known
    <3> QED BY <2>1, <3>1, <3>2, <3>3 DEF Written
  <2>4. ASSUME NEW j \in Keys, NEW m \in Elements(stored'[j])
        PROVE  /\ m.id \in Known
               /\ m.kind = "input" => turns'[m.id].key = j /\ (Written(m.id))'
               /\ m.kind = "answer" => turns'[m.id].by # 0 /\ (Written(turns[m.id].by))'
    <3>1. CASE m \in Elements(stored[j])
      BY <2>3, <3>1
    <3>2. CASE j = k /\ m = Asked(t)
      <4>1. m.kind = "input" /\ m.id = t
        BY <3>2 DEF Asked
      <4> QED BY <1>7, <2>2, <3>2, <4>1
    <3>3. CASE j = k /\ m \in Told(t)
      <4>1. m.kind = "answer" /\ m.id \in Known /\ turns[m.id].by = t
        BY <3>3 DEF Told
      <4>2. turns'[m.id].by = t
        BY <1>7, <4>1
      <4>3. t # 0
        BY TurnsAreTurns DEF Engine
      <4> QED BY <2>2, <4>1, <4>2, <4>3 DEF Written
    <3> QED BY <1>2, <1>6, <3>1, <3>2, <3>3
  <2>5. \A j \in Keys : Orderly(stored'[j]) /\ Elements(stored[j]) \subseteq Elements(stored'[j])
    BY <1>2, <1>6 DEF Engine, StoredOK
  <2>6. ASSUME NEW x \in Known, turns'[x].phase \in {"stored", "done"}
        PROVE  Asked(x) \in Elements(stored'[turns[x].key])
    <3>1. CASE x = t
      BY <1>2, <1>6, <3>1
    <3>2. CASE x # t
      <4>1. turns[x].phase \in {"stored", "done"} /\ turns[x].key \in Keys
        BY <1>5, <2>6, <3>2, TurnsAreTurns DEF Engine, Turn
      <4> QED BY <2>5, <4>1 DEF Engine, StoredOK
    <3> QED BY <3>1, <3>2
  <2>7. restart # 0 => restart \in Known /\ Asked(restart) \in Elements(stored'[turns[restart].key])
    BY <2>5, TurnsAreTurns DEF Engine, StoredOK, Turn
  <2> QED BY <1>1, <1>5, <1>7, <2>4, <2>5, <2>6, <2>7 DEF StoredOK, Asked
<1> QED BY <1>5, <1>8, <1>9, <1>10 DEF Engine

LEMMA RequestRestartKeeps ==
  ASSUME Engine, NEW t \in Known, RequestRestart(t)
  PROVE  Engine' /\ Steady
<1>1. turns[t].phase = "stored" /\ restart' = t /\ UNCHANGED <<turns, queue, stored, exits>>
  BY DEF RequestRestart, MayRestart
<1>2. Known' = Known /\ t \in 0..MaxTurns /\ t # 0
  BY <1>1, TurnsAreTurns DEF Engine, Known, Ids
<1>3. TypeOK'
  BY <1>1, <1>2 DEF Engine, TypeOK
<1>4. /\ QueueOK' /\ CallOK'
      /\ \A s \in Known : Talks(s)'
  <2>1. QueueOK'
    BY <1>1, <1>2, QueueKept DEF Engine, Started, Over
  <2>2. CallOK'
    BY <1>1, <1>2 DEF Engine, CallOK, Over
  <2>3. ASSUME NEW s \in Known PROVE Talks(s)'
    BY <1>1, <1>2 DEF Engine, TalkOK, Talks, Told, Asked
  <2> QED BY <2>1, <2>2, <2>3
<1>5. StoredOK'
  <2>1. restart' \in Known /\ Asked(t) \in Elements(stored[turns[t].key])
    BY <1>1 DEF Engine, StoredOK
  <2> QED BY <1>1, <1>2, <2>1 DEF Engine, StoredOK, Written, Asked
<1>6. Steady
  BY <1>1, <1>2 DEF Steady, Over
<1> QED BY <1>2, <1>3, <1>4, <1>5, <1>6 DEF Engine, TalkOK

-----------------------------------------------------------------------------
(* An answer is given *)

\* Whoever asked for t has its answer, or the refusal of its timer; t is over, or
\* goes on unheard.
LEMMA DeliveryKeeps ==
  ASSUME Engine, NEW t \in Known, ~Over(t), NEW ts \in Seq(Turn), Len(ts) = Len(turns),
         turns' = Deliver(ts, t),
         \A s \in Known : s # t => ts[s] = turns[s],
         ts[t].key = turns[t].key, ts[t].by = turns[t].by, ts[t].reply = turns[t].reply,
         \/ ts[t] = turns[t]
         \/ /\ ts[t].phase \in {"done", "failed"} /\ ts[t].waits = 0 /\ ts[t].inbox = <<>>
            /\ ts[t].talk = <<>>
  PROVE  /\ Known' = Known /\ turns' \in Seq(Turn) /\ Len(turns') = Len(turns)
         /\ CallOK' /\ \A s \in Known : Len(turns'[s].inbox) <= MaxInbox
         /\ \A s \in Known :
              /\ turns'[s].key = turns[s].key /\ turns'[s].by = turns[s].by
              /\ turns'[s].reply \in {turns[s].reply, "none"}
              /\ turns'[s].phase = ts[s].phase /\ turns'[s].talk = ts[s].talk
              /\ Lasting(ts[s], turns'[s])
              /\ \A x \in Elements(turns'[s].inbox) :
                   x \in Elements(turns[s].inbox) \/ turns[x].reply # "none"
<1>1. /\ Len(turns) \in Nat /\ Len(turns) <= MaxTurns /\ Known = 1..Len(turns) /\ Known = 1..Len(ts)
      /\ t \in Nat \ {0} /\ turns[t] \in Turn
  BY TurnsAreTurns DEF Engine, TypeOK, Known
<1>2. ts[t].by \in 0..(t - 1) /\ (ts[t].reply # "none" => ts[t].by # 0)
  <2>1. turns[t].by < t /\ turns[t].by \in 0..MaxTurns /\ MaxTurns \in Nat
    BY <1>1, BoundsAssumption DEF Engine, CallOK, Turn
  <2>2. turns[t].reply # "none" => turns[t].by # 0
    BY DEF Engine, CallOK
  <2> QED BY <1>1, <2>1, <2>2
<1>3. \A s \in Known : Distinct(ts[s].inbox) /\ Elements(ts[s].inbox) \subseteq Elements(turns[s].inbox)
                       /\ Len(ts[s].inbox) <= MaxInbox
  <2>1. \A s \in Known : Distinct(turns[s].inbox) /\ Len(turns[s].inbox) <= MaxInbox
    BY DEF Engine, CallOK, TypeOK
  <2>2. Len(<<>>) = 0 /\ 0 <= MaxInbox
    BY BoundsAssumption
  <2> QED BY <2>1, <2>2, EmptyFacts
<1>4. ts[t].reply # "none" => \A s \in Known : t \notin Elements(ts[s].inbox)
  BY <1>3 DEF Engine, CallOK
<1>5. /\ turns' \in Seq(Turn) /\ Len(turns') = Len(ts) /\ turns'[t].reply = "none"
      /\ \A s \in Known :
           /\ Lasting(ts[s], turns'[s])
           /\ s # t => turns'[s].reply = ts[s].reply
           /\ turns'[s].waits = IF ts[t].reply = "sync" /\ s = ts[t].by THEN 0 ELSE ts[s].waits
           /\ \/ turns'[s].inbox = ts[s].inbox
              \/ /\ ts[t].reply = "async" /\ s = ts[t].by /\ Distinct(turns'[s].inbox)
                 /\ Len(turns'[s].inbox) <= MaxInbox
                 /\ Elements(turns'[s].inbox) \subseteq Elements(ts[s].inbox) \cup {t}
  <2>1. /\ t \in 1..Len(ts) /\ Len(ts) <= MaxTurns
        /\ \A s \in 1..Len(ts) : Distinct(ts[s].inbox)
        /\ ts[t].reply # "none" => \A s \in 1..Len(ts) : t \notin Elements(ts[s].inbox)
    BY <1>1, <1>3, <1>4
  <2> DEFINE vs == Deliver(ts, t)
  <2>2. /\ vs \in Seq(Turn) /\ Len(vs) = Len(ts) /\ vs[t].reply = "none"
        /\ \A s \in 1..Len(ts) :
             /\ Lasting(ts[s], vs[s])
             /\ s # t => vs[s].reply = ts[s].reply
             /\ vs[s].waits = IF ts[t].reply = "sync" /\ s = ts[t].by THEN 0 ELSE ts[s].waits
             /\ \/ vs[s].inbox = ts[s].inbox
                \/ /\ ts[t].reply = "async" /\ s = ts[t].by /\ Distinct(vs[s].inbox)
                   /\ Len(vs[s].inbox) <= MaxInbox
                   /\ Elements(vs[s].inbox) \subseteq Elements(ts[s].inbox) \cup {t}
    BY <1>2, <2>1, DeliverFacts
  <2>3. turns' = vs
    OBVIOUS
  <2> HIDE DEF vs
  <2> QED BY <1>1, <2>2, <2>3
<1>6. Known' = Known
  BY <1>5 DEF Known
<1>7. \A s \in Known :
        /\ ts[s].key = turns[s].key /\ ts[s].by = turns[s].by /\ ts[s].reply = turns[s].reply
        /\ ts[s].waits = turns[s].waits \/ ts[s].waits = 0
        /\ s # t => ts[s].phase = turns[s].phase
  OBVIOUS
<1>8. \A s \in Known :
        /\ turns'[s].key = turns[s].key /\ turns'[s].by = turns[s].by
        /\ turns'[s].reply \in {turns[s].reply, "none"}
        /\ turns'[s].phase = ts[s].phase /\ turns'[s].talk = ts[s].talk
        /\ s # t => turns'[s].reply = turns[s].reply /\ turns'[s].phase = turns[s].phase
  BY <1>5, <1>7 DEF Lasting
<1>9. \A s \in Known : \A x \in Elements(turns'[s].inbox) :
        \/ x \in Elements(turns[s].inbox)
        \/ x = t /\ turns[t].by = s /\ turns[t].reply = "async"
  BY <1>3, <1>5, <1>7
<1>10. \A s \in Known : Distinct(turns'[s].inbox) /\ Len(turns'[s].inbox) <= MaxInbox
  BY <1>3, <1>5
<1>11. ASSUME NEW s \in Known, turns'[s].waits # 0
       PROVE  /\ turns'[s].waits = turns[s].waits /\ (Over(s)' => Over(s))
              /\ \A w \in Known : w = turns[s].waits =>
                   (Over(w)' => Over(w)) /\ turns'[w].reply = turns[w].reply
  <2>1. turns'[s].waits = turns[s].waits /\ ~(turns[t].reply = "sync" /\ s = turns[t].by)
    BY <1>5, <1>7, <1>11
  <2>2. turns[s].waits # t
    BY <1>11, <2>1 DEF Engine, CallOK
  <2>3. ASSUME NEW w \in Known, w # t PROVE (Over(w)' => Over(w)) /\ turns'[w].reply = turns[w].reply
    BY <1>8, <2>3 DEF Over
  <2>4. Over(s)' => Over(s)
    BY <1>5, <1>8, <1>11 DEF Over
  <2> QED BY <2>1, <2>2, <2>3, <2>4
<1>12. CallOK'
  <2>1. \A s \in Known : \A x \in Elements(turns'[s].inbox) :
          x \in Elements(turns[s].inbox) \/ (x \in Known /\ turns[x].by = s /\ turns'[x].reply = "none")
    BY <1>5, <1>9
  <2> QED BY <1>6, <1>8, <1>10, <1>11, <2>1, CallKept DEF Engine
<1> QED BY <1>5, <1>6, <1>8, <1>9, <1>10, <1>12

LEMMA SettleKeeps ==
  ASSUME Engine, NEW t \in Known, NEW phase \in {"done", "failed"}, Settle(t, phase), ~Over(t),
         t = Head(queue[turns[t].key]), phase = "done" => turns[t].phase = "stored",
         UNCHANGED <<stored, restart, exits>>
  PROVE  Engine' /\ Steady
<1> DEFINE r == Ended(turns[t], phase)
           ts == [turns EXCEPT ![t] = r]
<1>1. turns' = Deliver(ts, t) /\ queue' = [queue EXCEPT ![turns[t].key] = Tail(@)] /\ turns[t] \in Turn
  BY TurnsAreTurns DEF Settle, Engine
<1>2. /\ r \in Turn /\ r.key = turns[t].key /\ r.by = turns[t].by /\ r.reply = turns[t].reply
      /\ r.phase = phase /\ r.waits = 0 /\ r.talk = <<>> /\ r.inbox = <<>>
      /\ r.asked = turns[t].asked /\ r.viaMiddleware = turns[t].viaMiddleware
  BY <1>1, EndedFacts
<1> HIDE DEF r
<1>3. /\ ts \in Seq(Turn) /\ Len(ts) = Len(turns) /\ ts[t] = r
      /\ \A s \in Known : s # t => ts[s] = turns[s]
  BY <1>2, ExceptSeq DEF Engine, TypeOK, Known
<1> HIDE DEF ts
<1>4. /\ Known' = Known /\ turns' \in Seq(Turn) /\ Len(turns') = Len(turns)
      /\ CallOK' /\ \A s \in Known : Len(turns'[s].inbox) <= MaxInbox
      /\ \A s \in Known :
           /\ turns'[s].key = turns[s].key /\ turns'[s].by = turns[s].by
           /\ turns'[s].reply \in {turns[s].reply, "none"}
           /\ turns'[s].phase = ts[s].phase /\ turns'[s].talk = ts[s].talk
           /\ Lasting(ts[s], turns'[s])
           /\ \A x \in Elements(turns'[s].inbox) :
                x \in Elements(turns[s].inbox) \/ turns[x].reply # "none"
  BY <1>1, <1>2, <1>3, DeliveryKeeps
<1>5. /\ turns'[t].phase = phase /\ turns'[t].talk = <<>>
      /\ \A s \in Known : s # t => turns'[s].phase = turns[s].phase /\ turns'[s].talk = turns[s].talk
  BY <1>2, <1>3, <1>4
<1>6. Over(t)' /\ ~Started(t)'
  BY <1>5 DEF Over, Started
<1>7. QueueOK' /\ queue' \in [Keys -> Seq(Ids)]
  BY <1>1, <1>4, <1>5, <1>6, QueueSettled DEF Engine
<1>8. TypeOK'
  BY <1>4, <1>7 DEF Engine, TypeOK
<1>9. TalkOK'
  <2>1. ASSUME NEW s \in Known PROVE Talks(s)'
    <3>1. Talks(s) /\ turns[s].key \in Keys
      BY TurnsAreTurns DEF Engine, TalkOK, Turn
    <3>2. turns'[s].phase \notin {"running", "ended"} => turns'[s].talk = <<>>
      BY <1>5, <3>1 DEF Talks
    <3> QED BY <1>4, <1>5, <3>1, <3>2, TalksKept
  <2> QED BY <1>4, <2>1 DEF TalkOK
<1>10. StoredOK'
  <2>1. \A s \in Known : /\ Written(s) => Written(s)'
                         /\ turns'[s].phase \in {"stored", "done"} => turns[s].phase \in {"stored", "done"}
    BY <1>5 DEF Written
  <2> QED BY <1>4, <2>1, StoredKept DEF Engine
<1>11. Steady
  <2>1. \A s \in Known : turns'[s].asked = turns[s].asked /\ turns'[s].viaMiddleware = turns[s].viaMiddleware
    BY <1>2, <1>3, <1>4 DEF Lasting
  <2>2. \A s \in Known : ~Over(s)' => ~Over(s) /\ turns'[s].stack = turns[s].stack
    BY <1>3, <1>4, <1>5, <1>6 DEF Lasting, Over
  <2> QED BY <1>4, <2>1, <2>2 DEF Steady
<1> QED BY <1>4, <1>7, <1>8, <1>9, <1>10, <1>11 DEF Engine

LEMMA FinishKeeps ==
  ASSUME Engine, NEW t \in Known, Finish(t)
  PROVE  Engine' /\ Steady
<1>1. turns[t].phase = "stored" /\ Settle(t, "done") /\ UNCHANGED <<stored, restart, exits>>
  BY DEF Finish
<1>2. ~Over(t) /\ t = Head(queue[turns[t].key])
  BY <1>1 DEF Over, Engine, QueueOK, Started
<1> QED BY <1>1, <1>2, SettleKeeps

LEMMA RejectKeeps ==
  ASSUME Engine, NEW t \in Known, Reject(t)
  PROVE  Engine' /\ Steady
<1>1. /\ ~Over(t) /\ t = Head(queue[turns[t].key]) /\ Settle(t, "failed")
      /\ UNCHANGED <<stored, restart, exits>>
  BY DEF Reject, Over
<1> QED BY <1>1, SettleKeeps

LEMMA TimeoutKeeps ==
  ASSUME Engine, NEW t \in Known, Timeout(t)
  PROVE  Engine' /\ Steady
<1>1. /\ ~Over(t) /\ turns' = Deliver(turns, t) /\ UNCHANGED <<queue, stored, restart, exits>>
      /\ turns \in Seq(Turn)
  BY DEF Timeout, Engine, TypeOK
<1>2. /\ Known' = Known /\ turns' \in Seq(Turn) /\ Len(turns') = Len(turns)
      /\ CallOK' /\ \A s \in Known : Len(turns'[s].inbox) <= MaxInbox
      /\ \A s \in Known :
           /\ turns'[s].key = turns[s].key /\ turns'[s].by = turns[s].by
           /\ turns'[s].reply \in {turns[s].reply, "none"}
           /\ turns'[s].phase = turns[s].phase /\ turns'[s].talk = turns[s].talk
           /\ Lasting(turns[s], turns'[s])
           /\ \A x \in Elements(turns'[s].inbox) :
                x \in Elements(turns[s].inbox) \/ turns[x].reply # "none"
  BY <1>1, DeliveryKeeps
<1>3. QueueOK'
  <2>1. \A s \in Known : (Over(s)' <=> Over(s)) /\ (Started(s)' => Started(s))
    BY <1>2 DEF Over, Started
  <2> QED BY <1>1, <1>2, <2>1, QueueKept DEF Engine
<1>4. TypeOK'
  BY <1>1, <1>2 DEF Engine, TypeOK
<1>5. TalkOK'
  <2>1. ASSUME NEW s \in Known PROVE Talks(s)'
    <3>1. Talks(s)
      BY DEF Engine, TalkOK
    <3>2. turns'[s].phase \notin {"running", "ended"} => turns'[s].talk = <<>>
      BY <1>2, <3>1 DEF Talks
    <3> QED BY <1>1, <1>2, <3>1, <3>2, TalksKept
  <2> QED BY <1>2, <2>1 DEF TalkOK
<1>6. StoredOK'
  <2>1. \A s \in Known : /\ Written(s) => Written(s)'
                         /\ turns'[s].phase \in {"stored", "done"} => turns[s].phase \in {"stored", "done"}
    BY <1>2 DEF Written
  <2> QED BY <1>1, <1>2, <2>1, StoredKept DEF Engine
<1>7. Steady
  BY <1>2 DEF Steady, Lasting, Over
<1> QED BY <1>3, <1>2, <1>4, <1>5, <1>6, <1>7 DEF Engine

-----------------------------------------------------------------------------
(* A turn is queued; the process ends *)

LEMMA ComesKeeps ==
  ASSUME Engine, Len(turns) < MaxTurns, NEW k \in Keys, NEW c \in Known \cup {0},
         NEW reply \in {"none", "sync", "async"}, NEW middleware \in BOOLEAN,
         NEW stack \in SUBSET Keys, reply # "none" => c # 0 /\ k \notin stack,
         c # 0 => ~Over(c) /\ StackOf(c, middleware) \subseteq stack,
         NEW ts \in Seq(Turn), Len(ts) = Len(turns),
         turns' = Append(ts, NewTurn(k, c, reply, middleware, stack)),
         \A s \in Known :
           /\ Lasting(turns[s], ts[s]) /\ ts[s].reply = turns[s].reply /\ ts[s].inbox = turns[s].inbox
           /\ ts[s].waits = turns[s].waits
                \/ (~Over(s) /\ ts[s].waits = Len(turns) + 1 /\ s = c /\ reply = "sync"),
         Chain(k), UNCHANGED <<stored, restart, exits>>
  PROVE  Engine' /\ Steady
<1> DEFINE r == NewTurn(k, c, reply, middleware, stack)
<1>1. /\ Len(turns) \in Nat /\ Len(turns) + 1 \in Ids /\ Len(turns) + 1 <= MaxTurns /\ c \in 0..MaxTurns
  BY TurnsAreTurns, BoundsAssumption DEF Engine, Ids
<1>2. PICK n \in Ids : n = Len(turns) + 1
  BY <1>1
<1>3. /\ r \in Turn /\ r.key = k /\ r.by = c /\ r.reply = reply /\ r.inbox = <<>> /\ r.waits = 0
      /\ r.phase = "queued" /\ r.talk = <<>>
      /\ r.asked = (reply # "none") /\ r.viaMiddleware = middleware /\ r.stack = stack
  <2>1. r \in Turn
    BY <1>1, NewTurnIsTurn
  <2> QED BY <2>1 DEF NewTurn
<1> HIDE DEF r
<1>4. /\ turns' \in Seq(Turn) /\ Len(turns') = Len(turns) + 1
      /\ Known' = Known \cup {n} /\ n \notin Known
      /\ turns'[n] = r /\ \A s \in Known : turns'[s] = ts[s]
  <2>1. turns' = Append(ts, r)
    BY DEF r
  <2> QED BY <1>2, <1>3, <2>1, OneComes DEF Engine
<1>5. \A s \in Known :
        /\ turns'[s].key = turns[s].key /\ turns'[s].by = turns[s].by
        /\ turns'[s].reply = turns[s].reply /\ turns'[s].inbox = turns[s].inbox
        /\ turns'[s].phase = turns[s].phase /\ turns'[s].talk = turns[s].talk
        /\ turns'[s].waits = turns[s].waits
             \/ (~Over(s) /\ turns'[s].waits = n /\ turns'[n].by = s /\ turns'[n].reply = "sync")
  <2>1. \A s \in Known : turns'[s] = ts[s] /\ Lasting(turns[s], ts[s])
    BY <1>4
  <2>2. turns'[n].by = c /\ turns'[n].reply = reply
    BY <1>3, <1>4
  <2> QED BY <1>2, <2>1, <2>2 DEF Lasting
<1>6. QueueOK' /\ queue' \in [Keys -> Seq(Ids)]
  <2>1. Known' = Known \cup {Len(turns) + 1} /\ turns'[Len(turns) + 1].key = k
        /\ turns'[Len(turns) + 1].phase = "queued"
    BY <1>2, <1>3, <1>4
  <2> QED BY <1>1, <1>5, <2>1, QueueAdded DEF Engine
<1>7. CallOK'
  <2>1. /\ turns'[n].by \in Known \cup {0} /\ (turns'[n].reply # "none" => turns'[n].by # 0)
        /\ turns'[n].inbox = <<>> /\ turns'[n].waits = 0 /\ turns'[n].phase = "queued"
    BY <1>3, <1>4
  <2> QED BY <1>2, <1>4, <1>5, <2>1, CallAdded DEF Engine
<1>8. \A s \in Known' : Len(turns'[s].inbox) <= MaxInbox
  <2>1. Len(<<>>) = 0 /\ 0 <= MaxInbox
    BY BoundsAssumption
  <2>2. Len(turns'[n].inbox) <= MaxInbox
    BY <1>3, <1>4, <2>1
  <2>3. \A s \in Known : Len(turns'[s].inbox) <= MaxInbox
    BY <1>5 DEF Engine, TypeOK
  <2> QED BY <1>4, <2>2, <2>3
<1>9. TypeOK'
  BY <1>1, <1>4, <1>6, <1>8 DEF Engine, TypeOK
<1>10. TalkOK'
  <2>1. ASSUME NEW s \in Known PROVE Talks(s)'
    <3>1. Talks(s)
      BY DEF Engine, TalkOK
    <3>2. turns'[s].phase \notin {"running", "ended"} => turns'[s].talk = <<>>
      BY <1>5, <3>1 DEF Talks
    <3>3. Known \subseteq Known'
      BY <1>4
    <3> QED BY <1>5, <3>1, <3>2, <3>3, TalksKept
  <2>2. Talks(n)'
    BY <1>3, <1>4 DEF Talks
  <2> QED BY <1>4, <2>1, <2>2 DEF TalkOK
<1>11. StoredOK'
  <2>1. \A s \in Known : /\ Written(s) => Written(s)'
                         /\ turns'[s].phase \in {"stored", "done"} => turns[s].phase \in {"stored", "done"}
    BY <1>5 DEF Written
  <2>2. Known \subseteq Known' /\ \A s \in Known' \ Known : turns'[s].phase = "queued"
    BY <1>3, <1>4
  <2> QED BY <1>5, <2>1, <2>2, StoredKept DEF Engine
<1>12. Steady
  <2>1. ASSUME NEW s \in Known
        PROVE  /\ turns'[s].asked = turns[s].asked /\ turns'[s].viaMiddleware = turns[s].viaMiddleware
               /\ turns'[s].stack = turns[s].stack /\ (Over(s)' <=> Over(s))
    BY <1>4, <1>5 DEF Lasting, Over
  <2>2. /\ turns'[n].asked => turns'[n].key \notin turns'[n].stack
        /\ turns'[n].by # 0 =>
             /\ turns'[n].by \in Known /\ ~Over(turns'[n].by)
             /\ StackOf(turns'[n].by, turns'[n].viaMiddleware) \subseteq turns'[n].stack
    BY <1>3, <1>4
  <2> QED BY <1>4, <1>5, <2>1, <2>2 DEF Steady
<1> QED BY <1>6, <1>7, <1>9, <1>10, <1>11, <1>12 DEF Engine

LEMMA InboundKeeps ==
  ASSUME Engine, NEW k \in Keys, Inbound(k)
  PROVE  Engine' /\ Steady
<1>1. /\ Len(turns) < MaxTurns /\ turns' = Append(turns, NewTurn(k, 0, "none", FALSE, {})) /\ Chain(k)
      /\ UNCHANGED <<stored, restart, exits>> /\ turns \in Seq(Turn)
  BY DEF Inbound, Engine, TypeOK
<1>2. {} \in SUBSET Keys /\ FALSE \in BOOLEAN /\ 0 \in Known \cup {0}
  OBVIOUS
<1>3. \A s \in Known : Lasting(turns[s], turns[s])
  BY DEF Lasting
<1> QED BY <1>1, <1>2, <1>3, ComesKeeps

LEMMA SendEventKeeps ==
  ASSUME Engine, NEW t \in Known, NEW k \in Keys, NEW middleware \in BOOLEAN, SendEvent(t, k, middleware)
  PROVE  Engine' /\ Steady
<1> DEFINE stack == StackOf(t, middleware)
<1>1. /\ Len(turns) < MaxTurns /\ turns' = Append(turns, NewTurn(k, t, "none", middleware, stack)) /\ Chain(k)
      /\ UNCHANGED <<stored, restart, exits>> /\ turns \in Seq(Turn) /\ ~Over(t)
      /\ StackOf(t, middleware) \subseteq stack
  BY DEF SendEvent, Engine, TypeOK, Idle, Over
<1>2. stack \in SUBSET Keys
  BY TurnsAreTurns DEF Engine, Turn, StackOf
<1>3. \A s \in Known : Lasting(turns[s], turns[s])
  BY DEF Lasting
<1> HIDE DEF stack
<1> QED BY <1>1, <1>2, <1>3, ComesKeeps

LEMMA RequestKeeps ==
  ASSUME Engine, NEW t \in Known, NEW k \in Keys, NEW async \in BOOLEAN, NEW middleware \in BOOLEAN,
         Request(t, k, async, middleware)
  PROVE  Engine' /\ Steady
<1> DEFINE stack == StackOf(t, middleware)
           reply == IF async THEN "async" ELSE "sync"
           n == IF async THEN 0 ELSE Len(turns) + 1
           r == [turns[t] EXCEPT !.waits = n]
           ts == [turns EXCEPT ![t] = r]
<1>1. /\ Len(turns) < MaxTurns /\ turns' = Append(ts, NewTurn(k, t, reply, middleware, stack)) /\ Chain(k)
      /\ UNCHANGED <<stored, restart, exits>> /\ turns \in Seq(Turn) /\ turns[t] \in Turn
      /\ turns[t].waits = 0 /\ ~Over(t) /\ k \notin stack /\ StackOf(t, middleware) \subseteq stack
  BY TurnsAreTurns DEF Request, Engine, TypeOK, Idle, Over
<1>2. stack \in SUBSET Keys
  BY TurnsAreTurns DEF Engine, Turn, StackOf
<1>3. n \in 0..MaxTurns /\ reply \in {"none", "sync", "async"} /\ reply # "none"
  <2>1. Len(turns) \in Nat /\ MaxTurns \in Nat
    BY TurnsAreTurns, BoundsAssumption DEF Engine
  <2> QED BY <1>1, <2>1
<1>4. n = 0 \/ (n = Len(turns) + 1 /\ reply = "sync")
  OBVIOUS
<1> HIDE DEF stack, reply, n
<1>5. r \in Turn /\ Lasting(turns[t], r) /\ r.waits = n /\ r.reply = turns[t].reply /\ r.inbox = turns[t].inbox
  BY <1>1, <1>3, WithWaits
<1> HIDE DEF r
<1>6. /\ ts \in Seq(Turn) /\ Len(ts) = Len(turns)
      /\ \A s \in Known : ts[s] = IF s = t THEN r ELSE turns[s]
  BY <1>1, <1>5, ExceptSeq DEF Known
<1> HIDE DEF ts
<1>7. \A s \in Known :
        /\ Lasting(turns[s], ts[s]) /\ ts[s].reply = turns[s].reply /\ ts[s].inbox = turns[s].inbox
        /\ ts[s].waits = turns[s].waits
             \/ (~Over(s) /\ ts[s].waits = Len(turns) + 1 /\ s = t /\ reply = "sync")
  <2>1. \A x : Lasting(x, x)
    BY DEF Lasting
  <2> QED BY <1>1, <1>4, <1>5, <1>6, <2>1
<1>8. t # 0
  BY TurnsAreTurns DEF Engine
<1> QED BY <1>1, <1>2, <1>3, <1>6, <1>7, <1>8, ComesKeeps

\* What is under way is lost; what is stored stays.
LEMMA ExitKeeps ==
  ASSUME Engine, Exit
  PROVE  Engine' /\ Steady
<1> DEFINE r(t) == [Ended(turns[t], "lost") EXCEPT !.reply = "none"]
<1>1. /\ turns' = [t \in Known |-> IF Over(t) THEN turns[t] ELSE r(t)]
      /\ queue' = [k \in Keys |-> <<>>] /\ restart' = 0 /\ stored' = stored
      /\ exits' = exits + 1 /\ exits < MaxExits
  BY DEF Exit
<1>2. ASSUME NEW t \in Known
      PROVE  /\ r(t) \in Turn /\ r(t).key = turns[t].key /\ r(t).by = turns[t].by /\ r(t).reply = "none"
             /\ r(t).phase = "lost" /\ r(t).waits = 0 /\ r(t).talk = <<>> /\ r(t).inbox = <<>>
             /\ r(t).asked = turns[t].asked /\ r(t).viaMiddleware = turns[t].viaMiddleware
  <2> DEFINE e == Ended(turns[t], "lost")
             y == r(t)
  <2>1. turns[t] \in Turn
    BY TurnsAreTurns DEF Engine
  <2>2. /\ e \in Turn /\ e.key = turns[t].key /\ e.by = turns[t].by
        /\ e.phase = "lost" /\ e.waits = 0 /\ e.talk = <<>> /\ e.inbox = <<>>
        /\ e.asked = turns[t].asked /\ e.viaMiddleware = turns[t].viaMiddleware
    BY <2>1, EndedFacts
  <2>3. y = [e EXCEPT !.reply = "none"]
    OBVIOUS
  <2> HIDE DEF e, r
  <2>4. y \in Turn /\ Lasting(e, y) /\ y.waits = e.waits /\ y.reply = "none" /\ y.inbox = e.inbox
    BY <2>2, <2>3, WithReply
  <2> QED BY <2>2, <2>4 DEF Lasting
<1> HIDE DEF r
<1>3. Len(turns) \in Nat /\ Known = 1..Len(turns) /\ \A t \in Known : turns[t] \in Turn
  BY TurnsAreTurns DEF Engine, Known
<1>4. /\ turns' \in Seq(Turn) /\ Len(turns') = Len(turns) /\ Known' = Known
      /\ \A t \in Known : turns'[t] = IF Over(t) THEN turns[t] ELSE r(t)
  <2>1. turns' \in [1..Len(turns) -> Turn]
    BY <1>1, <1>2, <1>3
  <2>2. turns' \in Seq(Turn) /\ Len(turns') = Len(turns)
    BY <1>3, <2>1, SeqDef, LenProperties
  <2> QED BY <1>1, <2>2 DEF Known
<1>5. \A t \in Known :
        /\ turns'[t].key = turns[t].key /\ turns'[t].by = turns[t].by
        /\ turns'[t].reply \in {turns[t].reply, "none"}
        /\ turns'[t].phase = IF Over(t) THEN turns[t].phase ELSE "lost"
        /\ turns'[t].inbox \in {turns[t].inbox, <<>>}
        /\ turns'[t].talk \in {turns[t].talk, <<>>} /\ (~Over(t) => turns'[t].talk = <<>>)
        /\ turns'[t].waits = 0
  BY <1>2, <1>4 DEF Engine, CallOK
<1>6. \A t \in Known : Over(t)' /\ ~Started(t)'
  BY <1>5 DEF Over, Started
<1>7. QueueOK' /\ queue' \in [Keys -> Seq(Ids)]
  BY <1>1, <1>4, <1>6, EmptyFacts DEF QueueOK
<1>8. \A t \in Known : Len(turns'[t].inbox) <= MaxInbox
  <2>1. Len(<<>>) = 0 /\ 0 <= MaxInbox
    BY BoundsAssumption
  <2> QED BY <1>5, <2>1 DEF Engine, TypeOK
<1>9. TypeOK'
  <2>1. exits' \in 0..MaxExits /\ restart' \in 0..MaxTurns
    BY <1>1, BoundsAssumption DEF Engine, TypeOK
  <2> QED BY <1>1, <1>4, <1>7, <1>8, <2>1 DEF Engine, TypeOK
<1>10. CallOK'
  <2>1. \A s \in Known : /\ Distinct(turns'[s].inbox)
                         /\ Elements(turns'[s].inbox) \subseteq Elements(turns[s].inbox)
    BY <1>5, EmptyFacts DEF Engine, CallOK
  <2> QED BY <1>4, <1>5, <2>1, CallKept DEF Engine
<1>11. TalkOK'
  <2>1. \A s \in Known : turns'[s].talk = <<>> /\ turns'[s].phase \notin {"running", "ended"}
    BY <1>5 DEF Engine, TalkOK, Talks, Over
  <2> QED BY <1>4, <2>1 DEF TalkOK, Talks
<1>12. StoredOK'
  <2>1. \A s \in Known : /\ Written(s) => Written(s)'
                         /\ turns'[s].phase \in {"stored", "done"} => turns[s].phase \in {"stored", "done"}
    BY <1>5 DEF Written, Over
  <2> QED BY <1>1, <1>4, <1>5, <2>1, StoredKept DEF Engine
<1>13. Steady
  <2>1. \A t \in Known : turns'[t].asked = turns[t].asked /\ turns'[t].viaMiddleware = turns[t].viaMiddleware
    BY <1>2, <1>4
  <2> QED BY <1>4, <1>5, <1>6, <2>1 DEF Steady
<1> QED BY <1>7, <1>9, <1>10, <1>11, <1>12, <1>13 DEF Engine

LEMMA EngineStarts == Init => Engine
<1> SUFFICES ASSUME Init PROVE Engine
  OBVIOUS
<1>1. turns = <<>> /\ queue = [k \in Keys |-> <<>>] /\ stored = [k \in Keys |-> <<>>] /\ restart = 0 /\ exits = 0
  BY DEF Init
<1>2. turns \in Seq(Turn) /\ Len(turns) = 0 /\ Known = {}
  BY <1>1, EmptyFacts DEF Known
<1>3. TypeOK
  BY <1>1, <1>2, BoundsAssumption, EmptyFacts DEF TypeOK
<1>4. QueueOK
  BY <1>1, <1>2, EmptyFacts DEF QueueOK
<1>5. CallOK /\ TalkOK
  BY <1>2 DEF CallOK, TalkOK
<1>6. StoredOK
  BY <1>1, <1>2, EmptyFacts DEF StoredOK
<1> QED BY <1>3, <1>4, <1>5, <1>6 DEF Engine

LEMMA EngineSteps == Engine /\ [Next]_vars => Engine' /\ Steady
<1> SUFFICES ASSUME Engine, [Next]_vars PROVE Engine' /\ Steady
  OBVIOUS
<1>1. CASE UNCHANGED vars
  <2>1. /\ turns' = turns /\ queue' = queue /\ stored' = stored /\ restart' = restart /\ exits' = exits
    BY <1>1 DEF vars
  <2>2. Known' = Known /\ TypeOK'
    BY <2>1 DEF Known, Engine, TypeOK
  <2>3. QueueOK'
    BY <2>1, <2>2, QueueKept DEF Engine, Over, Started
  <2>4. CallOK'
    BY <2>1, <2>2 DEF Engine, CallOK, Over
  <2>5. \A s \in Known : Talks(s)'
    BY <2>1, <2>2 DEF Engine, TalkOK, Talks, Told, Asked
  <2>6. StoredOK'
    BY <2>1, <2>2 DEF Engine, StoredOK, Written, Asked
  <2>7. Steady
    BY <2>1, <2>2 DEF Steady, Over
  <2> QED BY <2>2, <2>3, <2>4, <2>5, <2>6, <2>7 DEF Engine, TalkOK
<1>2. CASE \E k \in Keys : Inbound(k)
  BY <1>2, InboundKeeps
<1>3. CASE \E t \in Known, k \in Keys, async, middleware \in BOOLEAN : Request(t, k, async, middleware)
  BY <1>3, RequestKeeps
<1>4. CASE \E t \in Known, k \in Keys, middleware \in BOOLEAN : SendEvent(t, k, middleware)
  BY <1>4, SendEventKeeps
<1>5. CASE \E t \in Known : Begin(t) \/ End(t) \/ Fail(t) \/ Persist(t)
                              \/ RequestRestart(t) \/ Finish(t) \/ Reject(t) \/ Timeout(t)
  BY <1>5, BeginKeeps, EndKeeps, FailKeeps, PersistKeeps, RequestRestartKeeps, FinishKeeps,
     RejectKeeps, TimeoutKeeps
<1>6. CASE \E t \in Known, restarts \in BOOLEAN : Step(t, restarts)
  BY <1>6, StepKeeps
<1>7. CASE Exit
  BY <1>7, ExitKeeps
<1> QED BY <1>1, <1>2, <1>3, <1>4, <1>5, <1>6, <1>7 DEF Next

LEMMA EngineAlways == Spec => []Engine
<1>1. Engine /\ [Next]_vars => Engine'
  BY EngineSteps
<1> QED BY <1>1, EngineStarts, PTL DEF Spec

-----------------------------------------------------------------------------
(* What is kept *)

LEMMA EngineKeepsConversations == Engine => ConversationsAreKept
<1> SUFFICES ASSUME Engine PROVE StoredInOrder /\ RestartAfterStore
  BY DEF ConversationsAreKept, Engine
<1>1. \A k \in Keys : \A t : Asked(t) \in Elements(stored[k]) => t \in Inputs(k)
  BY DEF Inputs, Asked, Elements
<1>2. \A t \in Known : turns[t].key \in Keys
  BY TurnsAreTurns DEF Engine, Turn
<1>3. StoredInOrder
  <2> SUFFICES ASSUME NEW k \in Keys
               PROVE  /\ \A i, j \in DOMAIN stored[k] :
                           i < j => /\ stored[k][i] # stored[k][j]
                                    /\ (stored[k][i].kind = "input" /\ stored[k][j].kind = "input")
                                         => stored[k][i].id < stored[k][j].id
                      /\ {t \in Known : turns[t].key = k /\ turns[t].phase \in {"stored", "done"}} \subseteq Inputs(k)
    BY DEF StoredInOrder
  <2>1. Orderly(stored[k])
    BY DEF Engine, StoredOK
  <2>2. \A t \in Known : turns[t].phase \in {"stored", "done"} => Asked(t) \in Elements(stored[turns[t].key])
    BY DEF Engine, StoredOK
  <2> QED BY <1>1, <2>1, <2>2 DEF Orderly
<1>4. RestartAfterStore
  BY <1>1, <1>2 DEF RestartAfterStore, Engine, StoredOK
<1> QED BY <1>3, <1>4

LEMMA EngineGivesOwnAnswers == Engine => AnswersAreOwn
<1> SUFFICES ASSUME Engine, NEW t \in Known
             PROVE  LET told == turns[t].inbox
                                  \o [i \in 1..Len(turns[t].talk) |->
                                        IF turns[t].talk[i].kind = "answer" THEN turns[t].talk[i].id ELSE 0]
                    IN /\ \A i \in DOMAIN turns[t].inbox : turns[turns[t].inbox[i]].by = t
                       /\ \A i, j \in DOMAIN told : i # j /\ told[i] # 0 => told[i] # told[j]
                       /\ turns[t].waits # 0 =>
                            LET c == turns[turns[t].waits] IN
                            c.by = t /\ c.reply = "sync" /\ c.phase \notin {"done", "failed", "lost"}
  BY DEF AnswersAreOwn
<1> DEFINE b == turns[t].inbox
           u == turns[t].talk
           f == [i \in 1..Len(u) |-> IF u[i].kind = "answer" THEN u[i].id ELSE 0]
           told == b \o f
<1>1. /\ turns[t] \in Turn /\ b \in Seq(Ids) /\ u \in Seq(Message) /\ Distinct(b)
  BY TurnsAreTurns DEF Engine, Turn, CallOK
<1>2. /\ \A i \in DOMAIN b : b[i] \in Elements(b)
      /\ \A x \in Elements(b) : x \in Known /\ turns[x].by = t
  BY DEF Engine, CallOK, Elements
<1>3. turns[t].waits # 0 =>
        /\ turns[turns[t].waits].by = t /\ turns[turns[t].waits].reply = "sync"
        /\ turns[turns[t].waits].phase \notin {"done", "failed", "lost"}
  BY DEF Engine, CallOK, Over
<1>4. Orderly(u)
  BY EmptyFacts DEF Engine, TalkOK, Talks
<1>5. ASSUME NEW m \in Elements(u), m.kind = "answer" PROVE m.id \notin Elements(b)
  <2>1. /\ turns[t].phase \in {"running", "ended"}
        /\ Elements(u) \subseteq Elements(stored[turns[t].key]) \cup {Asked(t)} \cup Told(t)
    BY <1>5, EmptyFacts DEF Engine, TalkOK, Talks
  <2>2. CASE m \in Elements(stored[turns[t].key])
    <3>1. Written(turns[m.id].by)
      BY <1>1, <1>5, <2>2 DEF Engine, StoredOK, Turn
    <3>2. ~Written(t)
      BY <2>1 DEF Written
    <3> QED BY <1>2, <3>1, <3>2
  <2>3. CASE m \in Told(t)
    BY <2>3 DEF Told
  <2>4. CASE m = Asked(t)
    BY <1>5, <2>4 DEF Asked
  <2> QED BY <2>1, <2>2, <2>3, <2>4
<1>6. /\ DOMAIN u = 1..Len(u) /\ Len(u) \in Nat /\ DOMAIN b = 1..Len(b) /\ Len(b) \in Nat
      /\ \A i \in 1..Len(u) : u[i] \in Message /\ u[i] \in Elements(u)
  BY <1>1, LenProperties, ElementOfSeq DEF Elements
<1>7. \A i, j \in 1..Len(u) : i # j => u[i] # u[j]
  BY <1>4, <1>6 DEF Orderly
<1>8. f \in Seq(Nat) /\ Len(f) = Len(u)
  <2>1. \A i \in 1..Len(u) : f[i] \in Nat
    BY <1>6 DEF Message, Ids
  <2>2. f \in [1..Len(u) -> Nat]
    BY <2>1
  <2> QED BY <1>6, <2>2, SeqDef, LenProperties
<1>9. \A i \in 1..Len(u) : f[i] = IF u[i].kind = "answer" THEN u[i].id ELSE 0
  OBVIOUS
<1>10. \A i, j \in 1..Len(u) : i # j /\ f[i] # 0 => f[i] # f[j]
  <2> SUFFICES ASSUME NEW i \in 1..Len(u), NEW j \in 1..Len(u), i # j, f[i] # 0, f[i] = f[j] PROVE FALSE
    OBVIOUS
  <2>1. u[i].kind = "answer" /\ u[j].kind = "answer" /\ u[i].id = u[j].id
    BY <1>9
  <2>2. u[i] = u[j]
    BY <1>6, <2>1 DEF Message
  <2> QED BY <1>7, <2>2
<1>11. \A i \in 1..Len(b), j \in 1..Len(u) : b[i] # f[j]
  <2> SUFFICES ASSUME NEW i \in 1..Len(b), NEW j \in 1..Len(u), b[i] = f[j] PROVE FALSE
    OBVIOUS
  <2>1. b[i] \in Elements(b) /\ b[i] # 0
    <3>1. b[i] \in Elements(b)
      BY <1>2, <1>6
    <3>2. Elements(b) \subseteq Ids
      BY <1>1, ElementsAreMembers
    <3>3. \A x \in Ids : x # 0
      BY BoundsAssumption DEF Ids
    <3> QED BY <3>1, <3>2, <3>3
  <2>2. u[j].kind = "answer" /\ u[j].id = b[i]
    BY <1>9, <2>1
  <2> QED BY <1>5, <1>6, <2>1, <2>2
<1>12. \A i, j \in 1..Len(b) : i # j => b[i] # b[j]
  BY <1>1, <1>6 DEF Distinct
<1>13. b \in Seq(Nat)
  <2>1. Ids \subseteq Nat
    BY BoundsAssumption DEF Ids
  <2> QED BY <1>1, <2>1, SeqMonotonic
<1>14. /\ DOMAIN told = 1..(Len(b) + Len(u))
       /\ \A i \in 1..(Len(b) + Len(u)) : told[i] = IF i <= Len(b) THEN b[i] ELSE f[i - Len(b)]
  <2> HIDE DEF b, f, u
  <2>1. /\ told \in Seq(Nat) /\ Len(told) = Len(b) + Len(f)
        /\ \A i \in 1..(Len(b) + Len(f)) : told[i] = IF i <= Len(b) THEN b[i] ELSE f[i - Len(b)]
    BY <1>8, <1>13, ConcatProperties
  <2>2. DOMAIN told = 1..Len(told)
    BY <2>1, LenProperties
  <2> QED BY <1>8, <2>1, <2>2
<1> DEFINE n == Len(b)
           m == Len(u)
<1>15. \A i, j \in DOMAIN told : i # j /\ told[i] # 0 => told[i] # told[j]
  <2>1. n \in Nat /\ m \in Nat /\ DOMAIN told = 1..(n + m)
    BY <1>6, <1>14
  <2>2. \A i \in DOMAIN told : \/ i \in 1..n /\ told[i] = b[i]
                               \/ i \notin 1..n /\ i - n \in 1..m /\ told[i] = f[i - n]
    BY <2>1, <1>14
  <2> HIDE DEF told, b, f, u, n, m
  <2> TAKE i, j \in DOMAIN told
  <2> HAVE i # j /\ told[i] # 0
  <2>3. CASE i \in 1..n /\ j \in 1..n
    BY <1>12, <2>2, <2>3 DEF n
  <2>4. CASE i \in 1..n /\ j \notin 1..n
    BY <1>11, <2>2, <2>4 DEF n, m
  <2>5. CASE i \notin 1..n /\ j \in 1..n
    BY <1>11, <2>2, <2>5 DEF n, m
  <2>6. CASE i \notin 1..n /\ j \notin 1..n
    <3>1. i - n # j - n
      BY <2>1
    <3> QED BY <1>10, <2>2, <2>6, <3>1 DEF m
  <2> QED BY <2>3, <2>4, <2>5, <2>6
<1> QED BY <1>2, <1>3, <1>15

-----------------------------------------------------------------------------
(* Chains of calls *)

LEMMA LeastNumber ==
  ASSUME NEW T \in SUBSET Nat, T # {}
  PROVE  \E x \in T : \A y \in T : ~(y < x)
<1> DEFINE R == {ss \in Nat \X Nat : ss[1] < ss[2]}
<1>1. IsWellFoundedOn(R, Nat)
  BY NatLessThanWellFounded DEF OpToRel
<1>2. \A x, y \in Nat : y < x => <<y, x>> \in R
  OBVIOUS
<1> HIDE DEF R
<1>3. PICK x \in T : \A y \in T : ~ (<<y, x>> \in R)
  BY <1>1, WFMin
<1> QED BY <1>2, <1>3

\* One step of the recursion: who asked for t is known before t.
CalledBy(f, t) ==
  IF turns[t].by = 0 THEN {}
  ELSE {turns[turns[t].by].key} \cup (IF turns[t].viaMiddleware THEN f[turns[t].by] ELSE {})

CallersOK == Callers = [t \in Known |-> CalledBy(Callers, t)]

LEMMA CallersAre == Engine => CallersOK
<1> SUFFICES ASSUME Engine PROVE CallersOK
  OBVIOUS
<1> DEFINE Solves(f, n) == f = [t \in 1..n |-> CalledBy(f, t)]
           T == {n \in 0..Len(turns) : ~ \E f : Solves(f, n)}
<1>1. /\ Len(turns) \in Nat /\ Known = 1..Len(turns)
      /\ \A t \in Known : turns[t].by \in Nat /\ turns[t].by < t
  BY TurnsAreTurns DEF Engine, Known, CallOK, Turn
<1>2. T = {}
  <2> SUFFICES ASSUME T # {} PROVE FALSE
    OBVIOUS
  <2>1. T \in SUBSET Nat
    BY <1>1
  <2> HIDE DEF T
  <2>2. PICK n \in T : \A m \in T : ~(m < n)
    BY <2>1, LeastNumber
  <2>3. n \in 0..Len(turns) /\ n \in Nat /\ ~ \E f : Solves(f, n)
    BY <2>1, <2>2 DEF T
  <2>4. n # 0
    <3> SUFFICES ASSUME n = 0 PROVE FALSE
      OBVIOUS
    <3> DEFINE e == [t \in {} |-> {}]
    <3>1. e = [t \in {} |-> CalledBy(e, t)]
      OBVIOUS
    <3>2. 1..n = {}
      OBVIOUS
    <3>3. Solves(e, n)
      BY <3>1, <3>2
    <3> QED BY <2>3, <3>3
  <2>5. n - 1 \in 0..Len(turns) /\ n - 1 \in Nat /\ n - 1 < n /\ n - 1 \notin T
    BY <1>1, <2>2, <2>3, <2>4
  <2>6. PICK f : Solves(f, n - 1)
    BY <2>5 DEF T
  <2> DEFINE g == [t \in 1..n |-> CalledBy(f, t)]
  <2>7. \A t \in 1..(n - 1) : f[t] = CalledBy(f, t)
    BY <2>6
  <2>8. \A t \in 1..(n - 1) : g[t] = f[t]
    BY <2>3, <2>7
  <2>9. \A t \in 1..n : CalledBy(g, t) = CalledBy(f, t)
    <3> SUFFICES ASSUME NEW t \in 1..n PROVE CalledBy(g, t) = CalledBy(f, t)
      OBVIOUS
    <3>1. turns[t].by = 0 \/ turns[t].by \in 1..(n - 1)
      <4>1. t \in Known
        BY <1>1, <2>3
      <4> QED BY <1>1, <2>3, <4>1
    <3> HIDE DEF g
    <3> QED BY <2>8, <3>1 DEF CalledBy
  <2>10. Solves(g, n)
    BY <2>9
  <2> QED BY <2>3, <2>10
<1>3. \E f : Solves(f, Len(turns))
  BY <1>1, <1>2
<1>4. Callers = CHOOSE f : f = [t \in Known |-> CalledBy(f, t)]
  BY DEF Callers, CalledBy
<1> QED BY <1>1, <1>3, <1>4 DEF CallersOK

\* What the circular-call test relies on: the stack of a turn under way has every
\* key that its middlewares' chain passed.
ChainOK ==
  \A t \in Known :
    /\ ~Over(t) => Callers[t] \subseteq turns[t].stack
    /\ turns[t].asked => turns[t].key \notin Callers[t]

\* Who asked for a turn stays who asked for it.
LEMMA CallersStay ==
  ASSUME Engine, Engine', Steady, CallersOK, CallersOK'
  PROVE  \A t \in Known : Callers'[t] = Callers[t]
<1> DEFINE T == {t \in Known : Callers'[t] # Callers[t]}
<1>1. /\ Known \subseteq Nat \ {0}
      /\ \A t \in Known : turns[t].by \in Nat /\ turns[t].by < t /\ (turns[t].by = 0 \/ turns[t].by \in Known)
  <2>1. /\ Len(turns) \in Nat /\ Known = 1..Len(turns)
        /\ \A t \in Known : turns[t].by \in Nat /\ turns[t].by < t
    BY TurnsAreTurns DEF Engine, Known, CallOK, Turn
  <2> QED BY <2>1
<1>2. \A t \in Known : /\ Callers[t] = CalledBy(Callers, t)
                       /\ Callers'[t] = IF turns'[t].by = 0 THEN {}
                                        ELSE {turns'[turns'[t].by].key}
                                               \cup (IF turns'[t].viaMiddleware THEN Callers'[turns'[t].by] ELSE {})
  BY DEF CallersOK, CalledBy, Steady
<1>3. \A t \in Known : turns'[t].by = turns[t].by /\ turns'[t].key = turns[t].key
                       /\ turns'[t].viaMiddleware = turns[t].viaMiddleware
  BY DEF Steady
<1> SUFFICES ASSUME T # {} PROVE FALSE
  OBVIOUS
<1>4. T \in SUBSET Nat
  BY <1>1
<1> HIDE DEF T
<1>5. PICK t \in T : \A x \in T : ~(x < t)
  BY <1>4, LeastNumber
<1>6. t \in Known /\ Callers'[t] # Callers[t]
  BY <1>5 DEF T
<1>7. turns[t].by # 0 => Callers'[turns[t].by] = Callers[turns[t].by]
  BY <1>1, <1>5, <1>6 DEF T
<1>8. CASE turns[t].by = 0
  BY <1>2, <1>3, <1>6, <1>8 DEF CalledBy
<1>9. CASE turns[t].by # 0
  <2> DEFINE c == turns[t].by
  <2>1. c \in Known /\ turns'[c].key = turns[c].key /\ Callers'[c] = Callers[c] /\ turns'[t].by = c
    BY <1>1, <1>3, <1>6, <1>7, <1>9
  <2>2. Callers[t] = {turns[c].key} \cup (IF turns[t].viaMiddleware THEN Callers[c] ELSE {})
    BY <1>2, <1>6, <1>9 DEF CalledBy
  <2>3. Callers'[t] = {turns'[c].key} \cup (IF turns[t].viaMiddleware THEN Callers'[c] ELSE {})
    BY <1>2, <1>3, <1>6, <1>9, <2>1
  <2> QED BY <1>6, <2>1, <2>2, <2>3
<1> QED BY <1>8, <1>9

LEMMA ChainSteps ==
  ASSUME Engine, Engine', Steady, CallersOK, CallersOK', ChainOK
  PROVE  ChainOK'
<1>1. \A t \in Known : Callers'[t] = Callers[t]
  BY CallersStay
<1>2. ASSUME NEW t \in Known
      PROVE  /\ ~Over(t)' => Callers'[t] \subseteq turns'[t].stack
             /\ turns'[t].asked => turns'[t].key \notin Callers'[t]
  BY <1>1 DEF Steady, ChainOK
<1>3. ASSUME NEW t \in Known' \ Known
      PROVE  /\ Callers'[t] \subseteq turns'[t].stack
             /\ turns'[t].asked => turns'[t].key \notin Callers'[t]
  <2>1. Callers'[t] = IF turns'[t].by = 0 THEN {}
                      ELSE {turns'[turns'[t].by].key}
                             \cup (IF turns'[t].viaMiddleware THEN Callers'[turns'[t].by] ELSE {})
    BY DEF CallersOK, CalledBy
  <2>2. turns'[t].asked => turns'[t].key \notin turns'[t].stack
    BY DEF Steady
  <2>3. CASE turns'[t].by = 0
    BY <2>1, <2>3
  <2>4. CASE turns'[t].by # 0
    <3> DEFINE c == turns'[t].by
    <3>1. c \in Known /\ ~Over(c) /\ StackOf(c, turns'[t].viaMiddleware) \subseteq turns'[t].stack
      BY <2>4 DEF Steady
    <3>2. turns'[c].key = turns[c].key /\ Callers'[c] = Callers[c] /\ Callers[c] \subseteq turns[c].stack
      BY <1>1, <3>1 DEF Steady, ChainOK
    <3>3. Callers'[t] \subseteq StackOf(c, turns'[t].viaMiddleware)
      BY <2>1, <2>4, <3>2 DEF StackOf
    <3> QED BY <2>2, <3>1, <3>3
  <2> QED BY <2>3, <2>4
<1> QED BY <1>2, <1>3 DEF ChainOK

LEMMA ChainAlways == Spec => [](Engine /\ CallersOK /\ ChainOK)
<1>1. Init => ChainOK
  <2> SUFFICES ASSUME Init PROVE Known = {}
    BY DEF ChainOK
  <2> QED BY EmptyFacts DEF Init, Known
<1>2. Engine /\ Engine' /\ CallersOK /\ CallersOK' /\ Steady /\ ChainOK => ChainOK'
  BY ChainSteps
<1>3. Engine /\ [Next]_vars => Steady
  BY EngineSteps
<1>4. Engine => CallersOK
  BY CallersAre
<1> QED BY <1>1, <1>2, <1>3, <1>4, EngineAlways, PTL DEF Spec

-----------------------------------------------------------------------------
(* The theorems *)

\* A conversation that a turn of the engine has stored keeps every message once and
\* its inputs in the order in which they came, has the input of every turn that was
\* stored, and holds the turn that asked for a restart (queueAgentEvent,
\* executeInboundTurn, persistConversationToStorage), whatever turns time out, fail,
\* are rejected or are lost with the process.
THEOREM TurnsKeepConversations == Spec => []ConversationsAreKept
BY EngineAlways, EngineKeepsConversations, PTL

\* An answer reaches the turn that asked for it, and once, and a turn blocks only on
\* one that can still answer it (createAgentToolRuntime, withOptionalTimeout), over
\* timeouts, late answers, rejected turns and the end of the process.
THEOREM AnswersStayOwn == Spec => []AnswersAreOwn
BY EngineAlways, EngineGivesOwnAnswers, PTL

\* The stack that middlewares' calls inherit keeps a request from coming back to any
\* key of its chain, however long (createMiddlewareAgentMetadata, the circular-call
\* test of request); calls of agents__request are outside of it.
THEOREM MiddlewareChainsStaySimple == Spec => []MiddlewareChainsAreSimple
<1>1. ChainOK => MiddlewareChainsAreSimple
  BY DEF ChainOK, MiddlewareChainsAreSimple
<1> QED BY <1>1, ChainAlways, PTL
=============================================================================
