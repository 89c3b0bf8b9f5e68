------------------------ MODULE RequestBrokerProofs -------------------------
(* Proofs about RequestBroker, for any agents, instances, requests and events. *)
EXTENDS RequestBroker, SequenceTheorems, WellFoundedInduction, TLAPS

-----------------------------------------------------------------------------
(* Sequences *)

LEMMA ElementsOfEmpty == Elements(<<>>) = {}
BY DEF Elements

LEMMA ElementsOfAppend ==
  ASSUME NEW S, NEW s \in Seq(S), NEW x \in S
  PROVE  /\ Append(s, x) \in Seq(S)
         /\ Elements(Append(s, x)) = Elements(s) \cup {x}
<1>1. /\ Append(s, x) \in Seq(S) /\ Len(Append(s, x)) = Len(s) + 1
      /\ \A k \in 1..Len(s) : Append(s, x)[k] = s[k]
      /\ Append(s, x)[Len(s) + 1] = x
  BY AppendProperties
<1>2. DOMAIN s = 1..Len(s) /\ DOMAIN Append(s, x) = 1..Len(s) + 1 /\ Len(s) \in Nat
  BY <1>1, LenProperties
<1> QED BY <1>1, <1>2 DEF Elements

LEMMA ElementsOfTail ==
  ASSUME NEW S, NEW s \in Seq(S), s # <<>>
  PROVE  /\ Head(s) \in S /\ Tail(s) \in Seq(S)
         /\ Elements(s) = {Head(s)} \cup Elements(Tail(s))
<1>1. /\ Head(s) \in S /\ Tail(s) \in Seq(S) /\ Len(Tail(s)) = Len(s) - 1
      /\ \A k \in 1..Len(Tail(s)) : Tail(s)[k] = s[k + 1]
  BY HeadTailProperties
<1>2. DOMAIN s = 1..Len(s) /\ DOMAIN Tail(s) = 1..Len(s) - 1 /\ Len(s) \in Nat \ {0}
  BY <1>1, LenProperties, EmptySeq
<1>3. Head(s) = s[1]
  OBVIOUS
<1>4. Elements(s) \subseteq {Head(s)} \cup Elements(Tail(s))
  <2> SUFFICES ASSUME NEW k \in 1..Len(s), k # 1 PROVE s[k] \in Elements(Tail(s))
    BY <1>2, <1>3 DEF Elements
  <2>1. k - 1 \in 1..Len(Tail(s)) /\ Tail(s)[k - 1] = s[k]
    BY <1>1, <1>2
  <2> QED BY <2>1, <1>1, <1>2 DEF Elements
<1>5. Elements(Tail(s)) \subseteq Elements(s)
  BY <1>1, <1>2 DEF Elements
<1>6. Head(s) \in Elements(s)
  BY <1>2, <1>3 DEF Elements
<1> QED BY <1>1, <1>4, <1>5, <1>6

\* x is in s at one place at most.
Once(s, x) == \A j, k \in DOMAIN s : s[j] = x /\ s[k] = x => j = k

LEMMA OnceInAppend ==
  ASSUME NEW S, NEW s \in Seq(S), NEW x \in S, NEW y, Once(s, y), x # y \/ y \notin Elements(s)
  PROVE  Once(Append(s, x), y)
<1>1. /\ Len(Append(s, x)) = Len(s) + 1
      /\ \A k \in 1..Len(s) : Append(s, x)[k] = s[k]
      /\ Append(s, x)[Len(s) + 1] = x
  BY AppendProperties
<1>2. DOMAIN s = 1..Len(s) /\ DOMAIN Append(s, x) = 1..Len(s) + 1 /\ Len(s) \in Nat
  BY <1>1, LenProperties, AppendProperties
<1> QED BY <1>1, <1>2 DEF Elements, Once

LEMMA OnceInTail ==
  ASSUME NEW S, NEW s \in Seq(S), s # <<>>, NEW y, Once(s, y)
  PROVE  Once(Tail(s), y) /\ (y = Head(s) => y \notin Elements(Tail(s)))
<1>1. /\ Tail(s) \in Seq(S) /\ Len(Tail(s)) = Len(s) - 1
      /\ \A k \in 1..Len(Tail(s)) : Tail(s)[k] = s[k + 1]
  BY HeadTailProperties
<1>2. DOMAIN s = 1..Len(s) /\ DOMAIN Tail(s) = 1..Len(s) - 1 /\ Len(s) \in Nat \ {0}
  BY <1>1, LenProperties, EmptySeq
<1>3. Head(s) = s[1]
  OBVIOUS
<1>4. \A k \in DOMAIN Tail(s) : k + 1 \in DOMAIN s /\ k + 1 # 1 /\ Tail(s)[k] = s[k + 1]
  BY <1>1, <1>2
<1>5. Once(Tail(s), y)
  <2> SUFFICES ASSUME NEW j \in DOMAIN Tail(s), NEW k \in DOMAIN Tail(s),
                      Tail(s)[j] = y, Tail(s)[k] = y
               PROVE  j = k
    BY DEF Once
  <2>1. j + 1 = k + 1
    BY <1>4 DEF Once
  <2> QED BY <2>1, <1>2
<1>6. y = Head(s) => y \notin Elements(Tail(s))
  <2> SUFFICES ASSUME y = Head(s), NEW k \in DOMAIN Tail(s), Tail(s)[k] = y PROVE FALSE
    BY DEF Elements
  <2> QED BY <1>2, <1>3, <1>4 DEF Once
<1> QED BY <1>5, <1>6

\* A set of numbers has a least.
LEMMA LeastNumber ==
  ASSUME NEW T \in SUBSET Nat, T # {}
  PROVE  \E x \in T : \A y \in T : ~(y < x)
<1> DEFINE R == {ss \in Nat \X Nat : ss[1] < ss[2]}
<1>1. IsWellFoundedOn(R, Nat)
  BY NatLessThanWellFounded DEF OpToRel
<1>2. \A x, y \in Nat : y < x => <<y, x>> \in R
  OBVIOUS
<1> HIDE DEF R
<1>3. PICK x \in T : \A y \in T : ~ (<<y, x>> \in R)
  BY <1>1, WFMin
<1> QED BY <1>2, <1>3
-----------------------------------------------------------------------------
(* Types and places *)

RequestOf(c) == [type |-> "request", id |-> c]

\* What does not run holds nothing, and what does not listen is in no turn; a
\* request on its way up is one that its sender made, and the broker knows by name
\* one who made it.
Placed ==
  /\ \A i \in Instances :
       /\ running[i] = "no" => down[i] = <<>>
       /\ running[i] # "yes" => queue[i] = <<>> /\ turn[i] = Nobody /\ open[i] = {}
       /\ running[i] # "no" \/ up[i] # <<>> => i \in Elements(slots)
  /\ \A i \in Instances, c \in Corrs :
       RequestOf(c) \in Elements(up[i]) => call[c] # Nobody /\ call[c].by = i
  /\ \A c \in Corrs :
       pending[c] # Nobody => /\ call[c] # Nobody /\ call[c].by \in Elements(slots)
                              /\ pending[c] = AgentOf(call[c].by)

Typed == TypeOK /\ Placed

LEMMA ElementsAreMembers ==
  ASSUME NEW S, NEW s \in Seq(S)
  PROVE  Elements(s) \subseteq S
BY LenProperties, ElementOfSeq DEF Elements

\* The oldest instance of an agent that has a slot.
LEMMA InstanceIsFound ==
  ASSUME NEW i \in Elements(slots), slots \in Seq(Instances)
  PROVE  /\ FindInstance(AgentOf(i)) \in Elements(slots)
         /\ AgentOf(FindInstance(AgentOf(i))) = AgentOf(i)
<1> DEFINE a == AgentOf(i)
           T == {k \in 1..Len(slots) : AgentOf(slots[k]) = a}
           First(k) == AgentOf(slots[k]) = a /\ \A j \in 1..(k - 1) : AgentOf(slots[j]) # a
<1>1. DOMAIN slots = 1..Len(slots) /\ Len(slots) \in Nat
  BY LenProperties
<1>2. T # {} /\ T \in SUBSET Nat
  BY <1>1 DEF Elements
<1>3. PICK k \in T : \A j \in T : ~(j < k)
  <2> HIDE DEF T
  <2> QED BY <1>2, LeastNumber
<1>4. k \in DOMAIN slots /\ First(k)
  BY <1>1, <1>3
<1>5. \E n \in DOMAIN slots : First(n)
  BY <1>4
<1> DEFINE n == CHOOSE n \in DOMAIN slots : First(n)
<1>6. n \in DOMAIN slots /\ First(n)
  BY <1>5
<1>7. FindInstance(a) = slots[n]
  BY DEF FindInstance
<1> QED BY <1>6, <1>7 DEF Elements

\* spawn(target) and handle.send(message).
LEMMA SpawnSends ==
  ASSUME Typed, NEW i \in Instances, NEW m \in Downward, SpawnAndSend(i, m)
  PROVE  /\ slots' \in Seq(Instances) /\ Elements(slots') = Elements(slots) \cup {i}
         /\ running' \in [Instances -> {"no", "booting", "yes"}] /\ running'[i] # "no"
         /\ \A j \in Instances : /\ running'[j] = "yes" <=> running[j] = "yes"
                                 /\ j # i => running'[j] = running[j]
         /\ down' \in [Instances -> Seq(Downward)]
         /\ down'[i] = Append(down[i], m) /\ \A j \in Instances : j # i => down'[j] = down[j]
<1> USE DEF Typed, TypeOK, SpawnAndSend, Spawned
<1>1. slots' \in Seq(Instances) /\ Elements(slots') = Elements(slots) \cup {i}
  BY ElementsOfAppend
<1>2. Append(down[i], m) \in Seq(Downward)
  BY ElementsOfAppend
<1> QED BY <1>1, <1>2

\* handle.send alone, to an instance that has a slot.
LEMMA SendSends ==
  ASSUME Typed, NEW i \in Instances, NEW m \in Downward, SendIfRunning(i, m)
  PROVE  /\ slots' = slots /\ running' = running
         /\ down' \in [Instances -> Seq(Downward)]
         /\ down'[i] = IF running[i] = "no" THEN down[i] ELSE Append(down[i], m)
         /\ \A j \in Instances : j # i => down'[j] = down[j]
<1> USE DEF Typed, TypeOK, SendIfRunning
<1>1. Append(down[i], m) \in Seq(Downward)
  BY ElementsOfAppend
<1> QED BY <1>1

\* processQueue: the head of the queue becomes the turn.
LEMMA NextStarts ==
  ASSUME Typed, NEW i \in Instances, NEW q \in Seq(Job), StartNext(i, q)
  PROVE  /\ queue' \in [Instances -> Seq(Job)] /\ turn' \in [Instances -> Turn \cup {Nobody}]
         /\ runs' \in [Corrs -> Nat]
         /\ \A j \in Instances : j # i => queue'[j] = queue[j] /\ turn'[j] = turn[j]
         /\ q = <<>> => queue'[i] = q /\ turn'[i] = Nobody /\ runs' = runs
         /\ q # <<>> => /\ queue'[i] = Tail(q) /\ turn'[i] = [job |-> Head(q), waits |-> {}]
                        /\ runs' = IF Head(q).kind # "request" THEN runs
                                   ELSE [runs EXCEPT ![Head(q).id] = @ + 1]
<1> USE DEF Typed, TypeOK, StartNext
<1>1. q # <<>> => Head(q) \in Job /\ Tail(q) \in Seq(Job)
  BY ElementsOfTail
<1>2. q # <<>> => [job |-> Head(q), waits |-> {}] \in Turn
  BY <1>1 DEF Turn
<1>3. CASE q = <<>>
  BY <1>3
<1>4. CASE q # <<>>
  <2> DEFINE h == Head(q)
             t == Tail(q)
             r == IF h.kind # "request" THEN runs ELSE [runs EXCEPT ![h.id] = @ + 1]
  <2>1. /\ queue' = [queue EXCEPT ![i] = t] /\ runs' = r
        /\ turn' = [turn EXCEPT ![i] = [job |-> h, waits |-> {}]]
    BY <1>4
  <2>2. h \in Job /\ t \in Seq(Job) /\ [job |-> h, waits |-> {}] \in Turn
    BY <1>1, <1>2, <1>4
  <2> HIDE DEF h, t
  <2>3. h.kind = "request" => h.id \in Corrs
    BY <2>2 DEF Job
  <2>4. r \in [Corrs -> Nat]
    BY <2>3
  <2>5. /\ queue' \in [Instances -> Seq(Job)] /\ turn' \in [Instances -> Turn \cup {Nobody}]
        /\ queue'[i] = t /\ turn'[i] = [job |-> h, waits |-> {}]
        /\ \A j \in Instances : j # i => queue'[j] = queue[j] /\ turn'[j] = turn[j]
    BY <2>1, <2>2
  <2> QED BY <1>4, <2>1, <2>4, <2>5 DEF h, t
<1> QED BY <1>3, <1>4

\* A job that comes is run at once, or waits.
LEMMA JobIsQueued ==
  ASSUME Typed, NEW i \in Instances, NEW job \in Job, Enqueue(i, job)
  PROVE  /\ queue' \in [Instances -> Seq(Job)] /\ turn' \in [Instances -> Turn \cup {Nobody}]
         /\ runs' \in [Corrs -> Nat]
         /\ \A j \in Instances : j # i => queue'[j] = queue[j] /\ turn'[j] = turn[j]
         /\ turn[i] # Nobody =>
              queue'[i] = Append(queue[i], job) /\ turn'[i] = turn[i] /\ runs' = runs
         /\ turn[i] = Nobody =>
              /\ queue'[i] = <<>> /\ turn'[i] = [job |-> job, waits |-> {}]
              /\ runs' = IF job.kind # "request" THEN runs ELSE [runs EXCEPT ![job.id] = @ + 1]
<1>1. CASE turn[i] # Nobody
  <2>1. Append(queue[i], job) \in Seq(Job)
    BY ElementsOfAppend DEF Typed, TypeOK
  <2> QED BY <1>1, <2>1 DEF Enqueue, Typed, TypeOK
<1>2. CASE turn[i] = Nobody
  <2> DEFINE q == <<job>>
  <2>1. q \in Seq(Job) /\ q # <<>> /\ Head(q) = job /\ Tail(q) = <<>>
    OBVIOUS
  <2>2. StartNext(i, q)
    BY <1>2 DEF Enqueue
  <2> HIDE DEF q
  <2> QED BY <1>2, <2>1, <2>2, NextStarts
<1> QED BY <1>1, <1>2

LEMMA TypedInit == Init => Typed
<1> SUFFICES ASSUME Init PROVE Typed
  OBVIOUS
<1>1. \A S : <<>> \in Seq(S)
  BY EmptySeq
<1>2. TypeOK
  BY <1>1 DEF Init, TypeOK
<1> QED BY <1>2, ElementsOfEmpty DEF Init, Typed, Placed

\* The orchestrator takes a message of i from its channel.
LEMMA Taken ==
  ASSUME Typed, NEW i \in Instances, NEW type, Take(i, type)
  PROVE  /\ up[i] # <<>> /\ up' \in [Instances -> Seq(Upward)]
         /\ up'[i] = Tail(up[i]) /\ \A j \in Instances : j # i => up'[j] = up[j]
         /\ Head(up[i]) \in Upward /\ Head(up[i]).type = type /\ Head(up[i]).id \in Corrs
         /\ Head(up[i]) = [type |-> type, id |-> Head(up[i]).id]
         /\ Elements(up[i]) = {Head(up[i])} \cup Elements(up'[i])
         /\ \A j \in Instances : up'[j] # <<>> => up[j] # <<>>
         /\ \A j \in Instances : Elements(up'[j]) \subseteq Elements(up[j])
         /\ i \in Elements(slots)
<1>1. up[i] \in Seq(Upward) /\ up[i] # <<>>
  BY DEF Typed, TypeOK, Take
<1>2. Head(up[i]) \in Upward /\ Tail(up[i]) \in Seq(Upward)
  BY <1>1, ElementsOfTail
<1>4. Elements(up[i]) = {Head(up[i])} \cup Elements(Tail(up[i]))
  BY <1>1, ElementsOfTail
<1>3. Head(up[i]).id \in Corrs /\ Head(up[i]) = [type |-> type, id |-> Head(up[i]).id]
  <2> DEFINE h == Head(up[i])
  <2>1. h \in Upward /\ h.type = type
    BY <1>2 DEF Take
  <2> HIDE DEF h
  <2>2. h.id \in Corrs /\ h = [type |-> type, id |-> h.id]
    BY <2>1 DEF Upward
  <2> QED BY <2>2 DEF h
<1>5. up' = [up EXCEPT ![i] = Tail(@)] /\ Head(up[i]).type = type /\ i \in Elements(slots)
  BY <1>1 DEF Take, Typed, Placed
<1>6. /\ up' \in [Instances -> Seq(Upward)]
      /\ up'[i] = Tail(up[i]) /\ \A j \in Instances : j # i => up'[j] = up[j]
  BY <1>2, <1>5 DEF Typed, TypeOK
<1> QED BY <1>1, <1>2, <1>3, <1>4, <1>5, <1>6

LEMMA TypedOrchestrator ==
  ASSUME Typed, NEW i \in Instances, OrchestratorNext(i)
  PROVE  Typed'
<1>1. ASSUME NEW e \in Events, Arrive(e, i) PROVE Typed'
  <2>1. [type |-> "event", id |-> e] \in Downward
    BY DEF Downward
  <2> QED BY <1>1, <2>1, SpawnSends DEF Arrive, Typed, TypeOK, Placed, workVars
<1>2. CASE RouteRequest(i)
  <2> DEFINE c == Head(up[i]).id
  <2>1. Take(i, "request")
    BY <1>2 DEF RouteRequest
  <2>2. /\ c \in Corrs /\ i \in Elements(slots) /\ up' \in [Instances -> Seq(Upward)]
        /\ \A j \in Instances : up'[j] # <<>> => up[j] # <<>>
        /\ \A j \in Instances : Elements(up'[j]) \subseteq Elements(up[j])
        /\ RequestOf(c) \in Elements(up[i])
    BY <2>1, Taken DEF RequestOf
  <2>3. UNCHANGED <<call, queue, turn, runs, finished, open, arrived, outcome>>
    BY <2>1 DEF Take, workVars
  <2>4. call[c] \in Call /\ call[c].by = i
    BY <2>2 DEF Typed, TypeOK, Placed
  <2>5. CASE SendErrorResponse(i, c) /\ UNCHANGED pending
    <3>1. FindInstance(AgentOf(i)) \in Instances
      BY <2>2, InstanceIsFound, ElementsAreMembers DEF Typed, TypeOK
    <3>2. [type |-> "error", id |-> c] \in Downward
      BY <2>2 DEF Downward
    <3> HIDE DEF c
    <3>3. SendIfRunning(FindInstance(AgentOf(i)), [type |-> "error", id |-> c])
      BY <2>5 DEF SendErrorResponse
    <3>4. /\ slots' = slots /\ running' = running
          /\ down' \in [Instances -> Seq(Downward)]
          /\ \A j \in Instances : running[j] = "no" => down'[j] = down[j]
      BY <3>1, <3>2, <3>3, SendSends
    <3>5. TypeOK'
      BY <2>2, <2>3, <2>5, <3>4 DEF Typed, TypeOK
    <3>6. Placed'
      BY <2>2, <2>3, <2>5, <3>4 DEF Typed, Placed
    <3> QED BY <3>5, <3>6 DEF Typed
  <2>6. CASE /\ pending' = [pending EXCEPT ![c] = AgentOf(i)]
             /\ SpawnAndSend(call[c].to, RequestOf(c))
    <3> HIDE DEF c
    <3>1. call[c].to \in Instances /\ AgentOf(i) \in Agents /\ RequestOf(c) \in Downward
      BY <2>2, <2>4 DEF Call, Downward, RequestOf, Instances, AgentOf
    <3>2. pending' \in [Corrs -> Agents \cup {Nobody}]
      BY <2>6, <3>1 DEF Typed, TypeOK
    <3>3. /\ slots' \in Seq(Instances) /\ Elements(slots) \subseteq Elements(slots')
          /\ running' \in [Instances -> {"no", "booting", "yes"}]
          /\ \A j \in Instances :
               /\ running'[j] = "yes" <=> running[j] = "yes"
               /\ running'[j] = "no" => running[j] = "no" /\ down'[j] = down[j]
               /\ running'[j] # "no" => running[j] # "no" \/ j \in Elements(slots')
          /\ down' \in [Instances -> Seq(Downward)]
      BY <2>6, <3>1, SpawnSends
    <3>4. TypeOK'
      BY <2>2, <2>3, <3>2, <3>3 DEF Typed, TypeOK
    <3>5. \A d \in Corrs : pending'[d] # Nobody =>
            /\ call[d] # Nobody /\ call[d].by \in Elements(slots) /\ pending'[d] = AgentOf(call[d].by)
      BY <2>2, <2>4, <2>6, DistinctAssumption DEF Typed, TypeOK, Placed
    <3> QED BY <2>2, <2>3, <3>3, <3>4, <3>5 DEF Typed, Placed
  <2> QED BY <1>2, <2>5, <2>6 DEF RouteRequest, RequestOf
<1>3. CASE RouteResponse(i)
  <2> DEFINE c == Head(up[i]).id
  <2>1. Take(i, "response")
    BY <1>3 DEF RouteResponse
  <2>2. /\ c \in Corrs /\ i \in Elements(slots) /\ up' \in [Instances -> Seq(Upward)]
        /\ \A j \in Instances : up'[j] # <<>> => up[j] # <<>>
        /\ \A j \in Instances : Elements(up'[j]) \subseteq Elements(up[j])
    BY <2>1, Taken
  <2>3. UNCHANGED <<call, queue, turn, runs, finished, open, arrived, outcome>>
    BY <2>1 DEF Take, workVars
  <2>4. CASE UNCHANGED <<slots, running, pending, down>>
    BY <2>2, <2>3, <2>4 DEF Typed, TypeOK, Placed
  <2>5. CASE /\ pending[c] # Nobody /\ pending' = [pending EXCEPT ![c] = Nobody]
             /\ SpawnAndSend(FindInstance(pending[c]), [type |-> "response", id |-> c])
    <3> HIDE DEF c
    <3>0. call[c].by \in Elements(slots) /\ pending[c] = AgentOf(call[c].by) /\ slots \in Seq(Instances)
      BY <2>2, <2>5 DEF Typed, TypeOK, Placed
    <3>1. FindInstance(pending[c]) \in Instances
      BY <3>0, InstanceIsFound, ElementsAreMembers
    <3>2. [type |-> "response", id |-> c] \in Downward
      BY <2>2 DEF Downward
    <3>3. /\ slots' \in Seq(Instances) /\ Elements(slots) \subseteq Elements(slots')
          /\ running' \in [Instances -> {"no", "booting", "yes"}]
          /\ \A j \in Instances :
               /\ running'[j] = "yes" <=> running[j] = "yes"
               /\ running'[j] = "no" => running[j] = "no" /\ down'[j] = down[j]
               /\ running'[j] # "no" => running[j] # "no" \/ j \in Elements(slots')
          /\ down' \in [Instances -> Seq(Downward)]
      BY <2>5, <3>1, <3>2, SpawnSends
    <3>4. TypeOK'
      BY <2>2, <2>3, <2>5, <3>3 DEF Typed, TypeOK
    <3>5. \A d \in Corrs : pending'[d] # Nobody => pending[d] # Nobody /\ pending'[d] = pending[d]
      BY <2>5 DEF Typed, TypeOK
    <3> QED BY <2>2, <2>3, <3>3, <3>4, <3>5 DEF Typed, Placed
  <2> QED BY <1>3, <2>4, <2>5 DEF RouteResponse
<1>4. CASE Respawn(i)
  BY <1>4, ElementsOfAppend DEF Respawn, Spawned, workVars, Typed, TypeOK, Placed
<1> QED BY <1>1, <1>2, <1>3, <1>4 DEF OrchestratorNext

\* A process takes a message from its channel.
LEMMA Received ==
  ASSUME Typed, NEW i \in Instances, Receive(i)
  PROVE  /\ down[i] # <<>> /\ running[i] # "no" /\ Head(down[i]) \in Downward
         /\ down' \in [Instances -> Seq(Downward)]
         /\ down'[i] = Tail(down[i]) /\ \A j \in Instances : j # i => down'[j] = down[j]
         /\ Head(down[i]).type # "event" => Head(down[i]).id \in Corrs
<1>1. down[i] \in Seq(Downward) /\ down[i] # <<>>
  BY DEF Typed, TypeOK, Receive
<1>2. Head(down[i]) \in Downward /\ Tail(down[i]) \in Seq(Downward)
  BY <1>1, ElementsOfTail
<1>3. Head(down[i]).type # "event" => Head(down[i]).id \in Corrs
  <2> DEFINE h == Head(down[i])
  <2>1. h \in Downward
    BY <1>2
  <2> HIDE DEF h
  <2>2. h.type # "event" => h.id \in Corrs
    BY <2>1 DEF Downward
  <2> QED BY <2>2 DEF h
<1> QED BY <1>1, <1>2, <1>3 DEF Typed, TypeOK, Placed, Receive

\* An answer or the timer ends the wait for c, if i still waits.
LEMMA SettleSettles ==
  ASSUME Typed, NEW i \in Instances, NEW c \in Corrs, NEW how \in {"ok", "error", "timeout"},
         Settle(i, c, how)
  PROVE  /\ open' \in [Instances -> SUBSET Corrs] /\ \A j \in Instances : open'[j] \subseteq open[j]
         /\ open'[i] = open[i] \ {c} /\ \A j \in Instances : j # i => open'[j] = open[j]
         /\ outcome' \in [Corrs -> {"none", "ok", "error", "timeout"}]
         /\ c \in open[i] => outcome' = [outcome EXCEPT ![c] = how]
         /\ c \notin open[i] => outcome' = outcome
<1>1. CASE c \in open[i]
  <2>1. open' = [open EXCEPT ![i] = @ \ {c}] /\ outcome' = [outcome EXCEPT ![c] = how]
    BY <1>1 DEF Settle
  <2>2. open \in [Instances -> SUBSET Corrs] /\ outcome \in [Corrs -> {"none", "ok", "error", "timeout"}]
    BY DEF Typed, TypeOK
  <2>3. open' \in [Instances -> SUBSET Corrs] /\ open'[i] = open[i] \ {c}
        /\ \A j \in Instances : j # i => open'[j] = open[j]
    BY <2>1, <2>2
  <2>4. outcome' \in [Corrs -> {"none", "ok", "error", "timeout"}]
    BY <2>1, <2>2
  <2> QED BY <1>1, <2>1, <2>3, <2>4
<1>2. CASE c \notin open[i]
  BY <1>2 DEF Settle, Typed, TypeOK
<1> QED BY <1>1, <1>2

LEMMA TypedProcess ==
  ASSUME Typed, NEW i \in Instances, ProcessNext(i)
  PROVE  Typed'
<1>1. CASE Boot(i)
  BY <1>1 DEF Boot, Typed, TypeOK, Placed, workVars
<1>2. CASE Die(i)
  <2>1. \A S : <<>> \in Seq(S)
    BY EmptySeq
  <2> QED BY <1>2, <2>1 DEF Die, Typed, TypeOK, Placed, workVars
<1>3. CASE ReceiveEarly(i)
  BY <1>3, Received DEF ReceiveEarly, Receive, Typed, TypeOK, Placed, brokerVars
<1>4. CASE ReceiveJob(i)
  <2> DEFINE m == Head(down[i])
             job == [kind |-> m.type, id |-> m.id]
  <2>1. Receive(i) /\ running[i] = "yes" /\ m.type \in {"event", "request"} /\ Enqueue(i, job)
        /\ UNCHANGED <<open, outcome>>
    BY <1>4 DEF ReceiveJob
  <2>2. m \in Downward
    BY <2>1, Received
  <2>3. UNCHANGED <<brokerVars, call, up, finished, arrived>>
    BY <2>1 DEF Receive
  <2>4. down' \in [Instances -> Seq(Downward)] /\ \A j \in Instances : j # i => down'[j] = down[j]
    BY <2>1, Received
  <2> HIDE DEF m
  <2>5. job \in Job
    BY <2>1, <2>2 DEF Downward, Job
  <2> HIDE DEF job
  <2>6. /\ queue' \in [Instances -> Seq(Job)] /\ turn' \in [Instances -> Turn \cup {Nobody}]
        /\ runs' \in [Corrs -> Nat]
        /\ \A j \in Instances : j # i => queue'[j] = queue[j] /\ turn'[j] = turn[j]
    BY <2>1, <2>5, JobIsQueued
  <2>7. TypeOK'
    BY <2>1, <2>3, <2>4, <2>6 DEF Typed, TypeOK, brokerVars
  <2> QED BY <2>1, <2>3, <2>4, <2>6, <2>7 DEF Typed, Placed, brokerVars
<1>5. CASE ReceiveAnswer(i)
  <2> DEFINE m == Head(down[i])
             job == [kind |-> "answer", id |-> m.id]
             how == IF m.type = "response" THEN "ok" ELSE "error"
  <2>1. Receive(i) /\ running[i] = "yes" /\ m.type \in {"response", "error"} /\ Enqueue(i, job)
        /\ Settle(i, m.id, how)
    BY <1>5 DEF ReceiveAnswer
  <2>2. m.id \in Corrs
    BY <2>1, Received
  <2>3. UNCHANGED <<brokerVars, call, up, finished, arrived>>
    BY <2>1 DEF Receive
  <2>4. down' \in [Instances -> Seq(Downward)] /\ \A j \in Instances : j # i => down'[j] = down[j]
    BY <2>1, Received
  <2> HIDE DEF m
  <2>5. job \in Job
    BY <2>2 DEF Job
  <2>6. /\ open' \in [Instances -> SUBSET Corrs] /\ \A j \in Instances : open'[j] \subseteq open[j]
        /\ outcome' \in [Corrs -> {"none", "ok", "error", "timeout"}]
    BY <2>1, <2>2, SettleSettles
  <2> HIDE DEF job
  <2>7. /\ queue' \in [Instances -> Seq(Job)] /\ turn' \in [Instances -> Turn \cup {Nobody}]
        /\ runs' \in [Corrs -> Nat]
        /\ \A j \in Instances : j # i => queue'[j] = queue[j] /\ turn'[j] = turn[j]
    BY <2>1, <2>5, JobIsQueued
  <2>8. TypeOK'
    BY <2>3, <2>4, <2>6, <2>7 DEF Typed, TypeOK, brokerVars
  <2> QED BY <2>1, <2>3, <2>4, <2>6, <2>7, <2>8 DEF Typed, Placed, brokerVars
<1>6. CASE EndTurn(i) \/ FailTurn(i)
  <2>1. turn[i] # Nobody /\ turn[i] \in Turn /\ StartNext(i, queue[i]) /\ queue[i] \in Seq(Job)
        /\ UNCHANGED <<brokerVars, call, down, open, arrived, outcome>>
    BY <1>6 DEF EndTurn, FailTurn, Typed, TypeOK
  <2> DEFINE job == turn[i].job
             m == [type |-> "response", id |-> job.id]
  <2>2. job.kind = "request" => job.id \in Corrs
    BY <2>1 DEF Turn, Job
  <2>3. \/ UNCHANGED <<up, finished>>
        \/ /\ job.kind = "request" /\ up' = [up EXCEPT ![i] = Append(@, m)]
           /\ finished' = finished \cup {job.id}
    BY <1>6 DEF EndTurn, FailTurn
  <2>4. running[i] = "yes" /\ i \in Elements(slots)
    BY <2>1 DEF Typed, TypeOK, Placed
  <2> HIDE DEF job
  <2>5. job.kind = "request" => /\ Append(up[i], m) \in Seq(Upward)
                                /\ Elements(Append(up[i], m)) = Elements(up[i]) \cup {m}
    <3> SUFFICES ASSUME job.kind = "request" PROVE m \in Upward
      BY ElementsOfAppend DEF Typed, TypeOK
    <3> QED BY <2>2 DEF Upward
  <2>6. /\ up' \in [Instances -> Seq(Upward)] /\ finished' \subseteq Corrs
        /\ \A j \in Instances : up'[j] # <<>> => up[j] # <<>> \/ j = i
        /\ \A j \in Instances, c \in Corrs : RequestOf(c) \in Elements(up'[j]) => RequestOf(c) \in Elements(up[j])
    <3>1. \A c \in Corrs : RequestOf(c) # m
      BY DEF RequestOf
    <3>2. CASE UNCHANGED <<up, finished>>
      BY <3>2 DEF Typed, TypeOK
    <3>3. CASE job.kind = "request" /\ up' = [up EXCEPT ![i] = Append(@, m)]
               /\ finished' = finished \cup {job.id}
      <4> HIDE DEF m
      <4> QED BY <2>2, <2>5, <3>1, <3>3 DEF Typed, TypeOK
    <3> QED BY <2>3, <3>2, <3>3
  <2>7. /\ queue' \in [Instances -> Seq(Job)] /\ turn' \in [Instances -> Turn \cup {Nobody}]
        /\ runs' \in [Corrs -> Nat]
        /\ \A j \in Instances : j # i => queue'[j] = queue[j] /\ turn'[j] = turn[j]
    BY <2>1, NextStarts
  <2>8. TypeOK'
    BY <2>1, <2>6, <2>7 DEF Typed, TypeOK, brokerVars
  <2> QED BY <2>1, <2>4, <2>6, <2>7, <2>8 DEF Typed, Placed, brokerVars
<1>7. ASSUME NEW c \in Corrs, RequestTimeout(i, c) PROVE Typed'
  <2>1. Settle(i, c, "timeout") /\ UNCHANGED <<brokerVars, call, up, down, workVars, arrived>>
    BY <1>7 DEF RequestTimeout
  <2>2. /\ open' \in [Instances -> SUBSET Corrs] /\ \A j \in Instances : open'[j] \subseteq open[j]
        /\ outcome' \in [Corrs -> {"none", "ok", "error", "timeout"}]
    BY <2>1, SettleSettles
  <2> QED BY <2>1, <2>2 DEF Typed, TypeOK, Placed, brokerVars, workVars
<1>8. ASSUME NEW c \in Corrs, NEW to \in Instances, NEW blocks \in BOOLEAN, Request(i, c, to, blocks)
      PROVE  Typed'
  <2> DEFINE m == RequestOf(c)
  <2>1. Append(up[i], m) \in Seq(Upward) /\ Elements(Append(up[i], m)) = Elements(up[i]) \cup {m}
    <3>1. m \in Upward
      BY DEF Upward, RequestOf
    <3> QED BY <3>1, ElementsOfAppend DEF Typed, TypeOK
  <2>2. up' = [up EXCEPT ![i] = Append(@, m)] /\ call' = [call EXCEPT ![c] = [by |-> i, to |-> to]]
        /\ call[c] = Nobody /\ turn[i] # Nobody /\ open' = [open EXCEPT ![i] = @ \cup {c}]
        /\ UNCHANGED <<brokerVars, down, queue, arrived, runs, finished, outcome>>
    BY <1>8 DEF Request, RequestOf
  <2>3. running[i] = "yes" /\ i \in Elements(slots)
    BY <2>2 DEF Typed, TypeOK, Placed
  <2>4. turn' \in [Instances -> Turn \cup {Nobody}] /\ \A j \in Instances : j # i => turn'[j] = turn[j]
    <3>1. [turn[i] EXCEPT !.waits = @ \cup {c}] \in Turn
      BY <2>2 DEF Typed, TypeOK, Turn
    <3> QED BY <1>8, <3>1 DEF Request, Typed, TypeOK
  <2>5. [by |-> i, to |-> to] \in Call /\ [by |-> i, to |-> to] # Nobody
    BY DistinctAssumption DEF Call
  <2>6. up' \in [Instances -> Seq(Upward)] /\ call' \in [Corrs -> Call \cup {Nobody}]
    BY <2>1, <2>2, <2>5 DEF Typed, TypeOK
  <2>7. \A j \in Instances, d \in Corrs :
          RequestOf(d) \in Elements(up'[j]) => RequestOf(d) \in Elements(up[j]) \/ (j = i /\ d = c)
    BY <2>1, <2>2 DEF Typed, TypeOK, RequestOf
  <2> QED BY <2>2, <2>3, <2>4, <2>5, <2>6, <2>7 DEF Typed, TypeOK, Placed, brokerVars
<1> QED BY <1>1, <1>2, <1>3, <1>4, <1>5, <1>6, <1>7, <1>8 DEF ProcessNext

\* The shapes of the state, and what a process without a listener holds.
LEMMA TypedAlways == Spec => []Typed
<1>1. Typed /\ [Next]_vars => Typed'
  <2> SUFFICES ASSUME Typed, [Next]_vars PROVE Typed'
    OBVIOUS
  <2>1. CASE UNCHANGED vars
    BY <2>1 DEF vars, Typed, TypeOK, Placed
  <2> QED BY <2>1, TypedProcess, TypedOrchestrator DEF Next
<1> QED BY <1>1, TypedInit, PTL DEF Spec

-----------------------------------------------------------------------------
(* Where a request is *)

JobOf(c) == [kind |-> "request", id |-> c]
ResponseTo(c) == [type |-> "response", id |-> c]

OnUp(c, i) == RequestOf(c) \in Elements(up[i])
OnDown(c, i) == RequestOf(c) \in Elements(down[i])
Queued(c, i) == JobOf(c) \in Elements(queue[i])
Runs(c, i) == turn[i] # Nobody /\ turn[i].job = JobOf(c)
Awaits(c, i) == c \in open[i] \/ (turn[i] # Nobody /\ c \in turn[i].waits)

\* A request that was made is in one channel or in one queue, once, until a turn
\* runs it; it never reaches the agent that made it.
InOnePlace(c) ==
  /\ \A i \in Instances :
       Once(up[i], RequestOf(c)) /\ Once(down[i], RequestOf(c)) /\ Once(queue[i], JobOf(c))
  /\ \A i, j \in Instances : OnUp(c, i) => ~OnDown(c, j) /\ ~Queued(c, j)
  /\ \A i, j \in Instances : OnDown(c, i) => ~Queued(c, j)
  /\ \A i \in Instances : OnUp(c, i) => runs[c] = 0
  /\ \A i \in Instances : OnDown(c, i) \/ Queued(c, i) =>
       /\ call[c] # Nobody /\ call[c].to = i /\ AgentOf(i) # AgentOf(call[c].by)
       /\ runs[c] = 0

\* It is run once at most, answered when its turn has ended, and its requester is
\* told one outcome while it waits.
DecidedOnce(c) ==
  /\ runs[c] \in {0, 1}
  /\ call[c] = Nobody => runs[c] = 0 /\ outcome[c] = "none"
  /\ \A i \in Instances :
       /\ Runs(c, i) => runs[c] = 1
       /\ ResponseTo(c) \in Elements(up[i]) \cup Elements(down[i]) => c \in finished
       /\ Awaits(c, i) => call[c] # Nobody /\ call[c].by = i
       /\ c \in open[i] => outcome[c] = "none"

Carried(c) == InOnePlace(c) /\ DecidedOnce(c)

LEMMA CarriedInit == ASSUME Init, NEW c \in Corrs PROVE Carried(c)
BY ElementsOfEmpty DEF Init, Carried, InOnePlace, DecidedOnce, Once, OnUp, OnDown, Queued, Runs, Awaits

\* What a step may do to the channels, to the work and to the wait of a request
\* without moving it.
ChannelsKeep(c) ==
  \A i \in Instances :
    /\ OnUp(c, i)' => OnUp(c, i)
    /\ OnDown(c, i)' => OnDown(c, i)
    /\ Once(up[i], RequestOf(c)) => Once(up'[i], RequestOf(c))
    /\ Once(down[i], RequestOf(c)) => Once(down'[i], RequestOf(c))

WorkKeeps(c) ==
  /\ runs'[c] = runs[c]
  /\ \A i \in Instances :
       /\ Queued(c, i)' => Queued(c, i)
       /\ Once(queue[i], JobOf(c)) => Once(queue'[i], JobOf(c))
       /\ Runs(c, i)' => Runs(c, i)

AnswersKeep(c) ==
  /\ call'[c] = call[c] /\ finished \subseteq finished'
  /\ \A i \in Instances :
       /\ ResponseTo(c) \in Elements(up'[i]) \cup Elements(down'[i]) =>
            c \in finished' \/ \E j \in Instances : ResponseTo(c) \in Elements(up[j]) \cup Elements(down[j])
       /\ Awaits(c, i)' => Awaits(c, i)
       /\ c \in open'[i] => c \in open[i] /\ outcome'[c] = outcome[c]

LEMMA KeptIsCarried ==
  ASSUME NEW c \in Corrs, Carried(c), ChannelsKeep(c), WorkKeeps(c), AnswersKeep(c),
         call[c] = Nobody => outcome'[c] = outcome[c]
  PROVE  Carried(c)'
<1>1. InOnePlace(c)'
  BY DEF Carried, InOnePlace, ChannelsKeep, WorkKeeps, AnswersKeep
<1>2. DecidedOnce(c)'
  BY DEF Carried, DecidedOnce, WorkKeeps, AnswersKeep
<1> QED BY <1>1, <1>2 DEF Carried

\* A message that is taken from a channel is no longer there.
LEMMA TakenIsGone ==
  ASSUME Typed, NEW i \in Instances, NEW type, Take(i, type)
  PROVE  /\ \A j \in Instances : \A y : Once(up[j], y) => Once(up'[j], y)
         /\ \A y : Once(up[i], y) /\ y = Head(up[i]) => y \notin Elements(up'[i])
<1>1. /\ up[i] # <<>> /\ up[i] \in Seq(Upward) /\ up'[i] = Tail(up[i])
      /\ \A j \in Instances : j # i => up'[j] = up[j]
  BY Taken DEF Typed, TypeOK
<1> QED BY <1>1, OnceInTail

LEMMA ReceivedIsGone ==
  ASSUME Typed, NEW i \in Instances, Receive(i)
  PROVE  /\ \A j \in Instances : Elements(down'[j]) \subseteq Elements(down[j])
         /\ \A j \in Instances : \A y : Once(down[j], y) => Once(down'[j], y)
         /\ Elements(down[i]) = {Head(down[i])} \cup Elements(down'[i])
         /\ \A y : Once(down[i], y) /\ y = Head(down[i]) => y \notin Elements(down'[i])
<1>1. /\ down[i] # <<>> /\ down[i] \in Seq(Downward) /\ down'[i] = Tail(down[i])
      /\ \A j \in Instances : j # i => down'[j] = down[j]
  BY Received DEF Typed, TypeOK
<1> QED BY <1>1, OnceInTail, ElementsOfTail

\* A message that is sent is on one channel more.
LEMMA SentIsThere ==
  ASSUME Typed, NEW i \in Instances, NEW m \in Downward,
         down'[i] = Append(down[i], m), \A j \in Instances : j # i => down'[j] = down[j]
  PROVE  /\ Elements(down'[i]) = Elements(down[i]) \cup {m}
         /\ \A j \in Instances : \A y :
              Once(down[j], y) /\ (y # m \/ y \notin Elements(down[j])) => Once(down'[j], y)
<1>1. down[i] \in Seq(Downward)
  BY DEF Typed, TypeOK
<1>2. Elements(down'[i]) = Elements(down[i]) \cup {m}
  BY <1>1, ElementsOfAppend
<1>3. ASSUME NEW y, Once(down[i], y), y # m \/ y \notin Elements(down[i])
      PROVE  Once(down'[i], y)
  BY <1>1, <1>3, OnceInAppend
<1> QED BY <1>2, <1>3

\* A turn that starts a request takes it from its queue.
WorkStarts(c) ==
  /\ runs[c] = 0 /\ runs'[c] = 1
  /\ \A i \in Instances : ~OnUp(c, i) /\ ~Queued(c, i)' /\ Once(queue'[i], JobOf(c)) /\ ~Runs(c, i)
  /\ call[c] # Nobody

StartsOne == \A c, d \in Corrs : WorkStarts(c) /\ WorkStarts(d) => c = d

AwaitsNoMore ==
  \A i \in Instances, c \in Corrs :
    turn'[i] # Nobody /\ c \in turn'[i].waits => turn[i] # Nobody /\ c \in turn[i].waits

LEMMA StartedIsCarried ==
  ASSUME NEW c \in Corrs, Carried(c), WorkStarts(c), AnswersKeep(c),
         \A i \in Instances : /\ ~OnUp(c, i)' /\ ~OnDown(c, i)'
                             /\ Once(up'[i], RequestOf(c)) /\ Once(down'[i], RequestOf(c))
  PROVE  Carried(c)'
<1>1. InOnePlace(c)'
  BY DEF InOnePlace, WorkStarts
<1>2. DecidedOnce(c)'
  BY DEF Carried, DecidedOnce, WorkStarts, AnswersKeep
<1> QED BY <1>1, <1>2 DEF Carried

LEMMA NextStartsWork ==
  ASSUME Typed, \A c \in Corrs : Carried(c), NEW i \in Instances, StartNext(i, queue[i])
  PROVE  /\ \A c \in Corrs : WorkKeeps(c) \/ (WorkStarts(c) /\ Queued(c, i))
         /\ StartsOne /\ AwaitsNoMore
<1> DEFINE q == queue[i]
           h == Head(q)
<1>1. q \in Seq(Job)
  BY DEF Typed, TypeOK
<1>2. CASE q = <<>>
  <2> HIDE DEF q
  <2>0. queue'[i] = q /\ turn'[i] = Nobody /\ runs' = runs
        /\ \A j \in Instances : j # i => queue'[j] = queue[j] /\ turn'[j] = turn[j]
    <3>1. StartNext(i, q)
      BY DEF q
    <3> QED BY <1>1, <1>2, <3>1, NextStarts
  <2>1. /\ turn'[i] = Nobody /\ runs' = runs
        /\ \A j \in Instances : queue'[j] = queue[j] /\ (j # i => turn'[j] = turn[j])
    BY <2>0 DEF q
  <2>2. \A c \in Corrs : WorkKeeps(c)
    BY <2>1 DEF WorkKeeps, Queued, Runs
  <2>3. \A c \in Corrs : ~WorkStarts(c)
    BY <2>1 DEF WorkStarts
  <2> QED BY <2>1, <2>2, <2>3 DEF StartsOne, AwaitsNoMore
<1>3. CASE q # <<>>
  <2>1. /\ queue'[i] = Tail(q) /\ turn'[i] = [job |-> h, waits |-> {}]
        /\ runs' = IF h.kind # "request" THEN runs ELSE [runs EXCEPT ![h.id] = @ + 1]
        /\ \A j \in Instances : j # i => queue'[j] = queue[j] /\ turn'[j] = turn[j]
    BY <1>1, <1>3, NextStarts
  <2>2. h \in Job /\ Elements(q) = {h} \cup Elements(queue'[i])
    BY <1>1, <1>3, <2>1, ElementsOfTail
  <2>3. \A y : Once(q, y) => Once(queue'[i], y) /\ (y = h => y \notin Elements(queue'[i]))
    BY <1>1, <1>3, <2>1, OnceInTail
  <2>4. \A c \in Corrs : Once(q, JobOf(c)) /\ runs[c] \in {0, 1} /\ (Queued(c, i) => runs[c] = 0)
    BY DEF Carried, InOnePlace, DecidedOnce
  <2> HIDE DEF h
  <2>5. ASSUME NEW c \in Corrs, h # JobOf(c) PROVE WorkKeeps(c) /\ ~WorkStarts(c)
    <3>1. runs'[c] = runs[c]
      <4>1. h.kind = "request" => h.id \in Corrs /\ h = JobOf(h.id)
        BY <2>2 DEF Job, JobOf
      <4> QED BY <2>1, <2>5, <4>1 DEF Typed, TypeOK
    <3>2. turn'[i].job # JobOf(c)
      BY <2>1, <2>5
    <3>3. /\ JobOf(c) \in Elements(queue'[i]) => JobOf(c) \in Elements(q)
          /\ Once(q, JobOf(c)) => Once(queue'[i], JobOf(c))
      BY <2>2, <2>3
    <3> QED BY <2>1, <3>1, <3>2, <3>3 DEF WorkKeeps, Queued, Runs, WorkStarts
  <2>6. ASSUME NEW c \in Corrs, h = JobOf(c) PROVE WorkStarts(c) /\ Queued(c, i)
    <3>1. h.kind = "request" /\ h.id = c
      BY <2>6 DEF JobOf
    <3>2. Queued(c, i) /\ runs[c] = 0 /\ call[c] # Nobody
      BY <2>2, <2>6 DEF Carried, InOnePlace, Queued
    <3>3. runs'[c] = 1
      BY <2>1, <3>1, <3>2 DEF Typed, TypeOK
    <3>4. \A j \in Instances : ~OnUp(c, j) /\ ~Runs(c, j)
      BY <3>2 DEF Carried, InOnePlace, DecidedOnce
    <3>5. \A j \in Instances : j # i => ~Queued(c, j)
      BY <3>2 DEF Carried, InOnePlace
    <3>6. \A j \in Instances : ~Queued(c, j)' /\ Once(queue'[j], JobOf(c))
      BY <2>1, <2>3, <2>4, <2>6, <3>5 DEF Queued, Carried, InOnePlace
    <3> QED BY <3>2, <3>3, <3>4, <3>6 DEF WorkStarts
  <2>7. StartsOne
    BY <2>5, <2>6 DEF StartsOne, JobOf
  <2>8. AwaitsNoMore
    BY <2>1 DEF AwaitsNoMore
  <2> QED BY <2>5, <2>6, <2>7, <2>8
<1> QED BY <1>2, <1>3

\* A job that is queued starts, or waits behind the turn.
LEMMA JobIsWork ==
  ASSUME Typed, NEW i \in Instances, NEW job \in Job, Enqueue(i, job)
  PROVE  /\ AwaitsNoMore
         /\ \A c \in Corrs : job # JobOf(c) => WorkKeeps(c)
         /\ \A c \in Corrs : job = JobOf(c) =>
              \/ /\ runs'[c] = runs[c]
                 /\ \A j \in Instances :
                      /\ Runs(c, j)' => Runs(c, j)
                      /\ Queued(c, j)' => Queued(c, j) \/ j = i
                      /\ Once(queue[j], job) /\ ~Queued(c, j) => Once(queue'[j], job)
              \/ /\ runs'[c] = runs[c] + 1
                 /\ \A j \in Instances :
                      /\ Queued(c, j)' => Queued(c, j)
                      /\ Once(queue[j], job) => Once(queue'[j], job)
<1>1. /\ \A j \in Instances : j # i => queue'[j] = queue[j] /\ turn'[j] = turn[j]
      /\ turn[i] # Nobody =>
           queue'[i] = Append(queue[i], job) /\ turn'[i] = turn[i] /\ runs' = runs
      /\ turn[i] = Nobody =>
           /\ queue'[i] = <<>> /\ turn'[i] = [job |-> job, waits |-> {}]
           /\ runs' = IF job.kind # "request" THEN runs ELSE [runs EXCEPT ![job.id] = @ + 1]
  BY JobIsQueued
<1>2. queue[i] \in Seq(Job)
  BY DEF Typed, TypeOK
<1>3. AwaitsNoMore
  BY <1>1 DEF AwaitsNoMore
<1>4. CASE turn[i] # Nobody
  <2>1. Elements(queue'[i]) = Elements(queue[i]) \cup {job}
    <3>1. Elements(Append(queue[i], job)) = Elements(queue[i]) \cup {job}
      BY <1>2, ElementsOfAppend
    <3> QED BY <1>1, <1>4, <3>1
  <2>2. \A y : Once(queue[i], y) /\ (job # y \/ y \notin Elements(queue[i])) => Once(queue'[i], y)
    BY <1>1, <1>2, <1>4, OnceInAppend
  <2>3. runs' = runs /\ \A j \in Instances : turn'[j] = turn[j]
    BY <1>1, <1>4
  <2> QED BY <1>1, <1>3, <2>1, <2>2, <2>3 DEF WorkKeeps, Queued, Runs
<1>5. CASE turn[i] = Nobody
  <2>1. Elements(queue'[i]) = {} /\ \A y : Once(queue'[i], y)
    BY <1>1, <1>5, ElementsOfEmpty DEF Once
  <2>2. ASSUME NEW c \in Corrs, job # JobOf(c) PROVE runs'[c] = runs[c]
    <3>1. job.kind = "request" => job.id \in Corrs /\ job = JobOf(job.id)
      BY DEF Job, JobOf
    <3> QED BY <1>1, <1>5, <2>2, <3>1 DEF Typed, TypeOK
  <2>3. ASSUME NEW c \in Corrs, job # JobOf(c) PROVE WorkKeeps(c)
    <3>1. turn'[i].job # JobOf(c)
      BY <1>1, <1>5, <2>3
    <3> QED BY <1>1, <2>1, <2>2, <2>3, <3>1 DEF WorkKeeps, Queued, Runs
  <2>4. ASSUME NEW c \in Corrs, job = JobOf(c)
        PROVE  /\ runs'[c] = runs[c] + 1
               /\ \A j \in Instances : /\ Queued(c, j)' => Queued(c, j)
                                       /\ Once(queue[j], job) => Once(queue'[j], job)
    <3>1. job.kind = "request" /\ job.id = c
      BY <2>4 DEF JobOf
    <3> QED BY <1>1, <1>5, <2>1, <3>1 DEF Queued, Typed, TypeOK
  <2> QED BY <1>3, <2>3, <2>4
<1> QED BY <1>4, <1>5

-----------------------------------------------------------------------------
(* Every step carries every request, and is a step of AgentCalls or none. *)

AllCarried == \A c \in Corrs : Carried(c)

\* Nothing that AgentCalls speaks of changes.
Unnoticed == UNCHANGED <<call, runs, finished, outcome>>

LEMMA UnnoticedStutters == Unnoticed => UNCHANGED Abstract!vars
BY DEF Unnoticed, Abstract!vars

LEMMA ArriveCarries ==
  ASSUME Typed, AllCarried, NEW i \in Instances, NEW e \in Events, Arrive(e, i)
  PROVE  AllCarried' /\ Unnoticed
<1> DEFINE m == [type |-> "event", id |-> e]
<1>1. m \in Downward /\ \A c \in Corrs : m # RequestOf(c) /\ m # ResponseTo(c)
  BY DEF Downward, RequestOf, ResponseTo
<1> HIDE DEF m
<1>2. SpawnAndSend(i, m) /\ UNCHANGED <<pending, call, up, workVars, open, outcome>>
  BY DEF Arrive, m
<1>3. /\ Elements(down'[i]) = Elements(down[i]) \cup {m}
      /\ \A j \in Instances : j # i => down'[j] = down[j]
      /\ \A j \in Instances : \A y : Once(down[j], y) /\ y # m => Once(down'[j], y)
  <2>1. down'[i] = Append(down[i], m) /\ \A j \in Instances : j # i => down'[j] = down[j]
    BY <1>1, <1>2, SpawnSends
  <2> QED BY <1>1, <2>1, SentIsThere
<1>4. ASSUME NEW c \in Corrs PROVE Carried(c)'
  <2>1. ChannelsKeep(c)
    BY <1>1, <1>2, <1>3 DEF ChannelsKeep, OnUp, OnDown
  <2>2. WorkKeeps(c)
    BY <1>2 DEF WorkKeeps, Queued, Runs, workVars
  <2>3. AnswersKeep(c)
    BY <1>1, <1>2, <1>3 DEF AnswersKeep, Awaits, workVars
  <2> QED BY <1>2, <2>1, <2>2, <2>3, KeptIsCarried DEF AllCarried
<1> QED BY <1>2, <1>4 DEF AllCarried, Unnoticed, workVars

LEMMA RouteRequestCarries ==
  ASSUME Typed, AllCarried, NEW i \in Instances, RouteRequest(i)
  PROVE  AllCarried' /\ Unnoticed
<1>1. Take(i, "request")
  BY DEF RouteRequest
<1>0. PICK c \in Corrs : c = Head(up[i]).id
  BY <1>1, Taken
<1>2. /\ c \in Corrs /\ i \in Elements(slots) /\ Head(up[i]) = RequestOf(c) /\ OnUp(c, i)
      /\ \A j \in Instances : Elements(up'[j]) \subseteq Elements(up[j])
      /\ \A j \in Instances : j # i => up'[j] = up[j]
  BY <1>0, <1>1, Taken DEF RequestOf, OnUp
<1>3. UNCHANGED <<call, queue, turn, runs, finished, open, outcome>>
  BY <1>1 DEF Take, workVars
<1>4. /\ \A j \in Instances : \A y : Once(up[j], y) => Once(up'[j], y)
      /\ Once(up[i], RequestOf(c)) => RequestOf(c) \notin Elements(up'[i])
  BY <1>1, <1>2, TakenIsGone
<1>5. call[c] \in Call /\ call[c].by = i
  BY <1>2 DEF Typed, TypeOK, Placed, OnUp
<1>6. \A d \in Corrs : WorkKeeps(d)
  BY <1>3 DEF WorkKeeps, Queued, Runs
<1>7. CASE SendErrorResponse(i, c)
  <2> DEFINE to == FindInstance(AgentOf(i))
             m == [type |-> "error", id |-> c]
  <2>1. to \in Instances
    BY <1>2, InstanceIsFound, ElementsAreMembers DEF Typed, TypeOK
  <2>2. m \in Downward /\ \A d \in Corrs : m # RequestOf(d) /\ m # ResponseTo(d)
    BY <1>2 DEF Downward, RequestOf, ResponseTo
  <2> HIDE DEF to, m
  <2>3. SendIfRunning(to, m)
    BY <1>7 DEF SendErrorResponse, to, m
  <2>4. /\ down'[to] = IF running[to] = "no" THEN down[to] ELSE Append(down[to], m)
        /\ \A j \in Instances : j # to => down'[j] = down[j]
    BY <2>1, <2>2, <2>3, SendSends
  <2>5. /\ \A j \in Instances : Elements(down'[j]) \subseteq Elements(down[j]) \cup {m}
        /\ \A j \in Instances : \A y : Once(down[j], y) /\ y # m => Once(down'[j], y)
    <3>1. CASE running[to] = "no"
      BY <2>4, <3>1
    <3>2. CASE running[to] # "no"
      <4>1. down'[to] = Append(down[to], m)
        BY <2>4, <3>2
      <4> QED BY <2>1, <2>2, <2>4, <4>1, SentIsThere
    <3> QED BY <3>1, <3>2
  <2>6. ASSUME NEW d \in Corrs PROVE Carried(d)'
    <3>1. ChannelsKeep(d)
      BY <1>2, <1>4, <2>2, <2>5 DEF ChannelsKeep, OnUp, OnDown
    <3>2. AnswersKeep(d)
      BY <1>2, <1>3, <2>2, <2>5 DEF AnswersKeep, Awaits
    <3> QED BY <1>3, <1>6, <3>1, <3>2, KeptIsCarried DEF AllCarried
  <2> QED BY <1>3, <2>6 DEF AllCarried, Unnoticed
<1>8. CASE AgentOf(call[c].to) # AgentOf(i) /\ SpawnAndSend(call[c].to, RequestOf(c))
  <2> DEFINE to == call[c].to
             m == RequestOf(c)
  <2>1. to \in Instances /\ m \in Downward
        /\ \A d \in Corrs : (d # c => m # RequestOf(d)) /\ m # ResponseTo(d)
    BY <1>2, <1>5 DEF Downward, RequestOf, ResponseTo, Call
  <2>2. ~OnDown(c, to) /\ \A j \in Instances : ~OnDown(c, j) /\ ~Queued(c, j)
    BY <1>2, <2>1 DEF AllCarried, Carried, InOnePlace
  <2> HIDE DEF m
  <2>3. /\ Elements(down'[to]) = Elements(down[to]) \cup {m}
        /\ \A j \in Instances : j # to => down'[j] = down[j]
        /\ \A j \in Instances : \A y :
             Once(down[j], y) /\ (y # m \/ y \notin Elements(down[j])) => Once(down'[j], y)
    <3>1. down'[to] = Append(down[to], m) /\ \A j \in Instances : j # to => down'[j] = down[j]
      BY <1>8, <2>1, SpawnSends DEF m
    <3> QED BY <2>1, <3>1, SentIsThere
  <2>4. ASSUME NEW d \in Corrs PROVE AnswersKeep(d)
    BY <1>2, <1>3, <2>1, <2>3 DEF AnswersKeep, Awaits
  <2>5. ASSUME NEW d \in Corrs, d # c PROVE Carried(d)'
    <3>1. ChannelsKeep(d)
      BY <1>2, <1>4, <2>1, <2>3, <2>5 DEF ChannelsKeep, OnUp, OnDown
    <3> QED BY <1>3, <1>6, <2>4, <3>1, KeptIsCarried DEF AllCarried
  <2>6. Carried(c)'
    <3>1. Carried(c)
      BY <1>2 DEF AllCarried
    <3>2. \A j \in Instances : ~OnUp(c, j)'
      <4>1. ~OnUp(c, i)'
        BY <1>4, <3>1 DEF Carried, InOnePlace, OnUp
      <4>2. \A j \in Instances : j # i => ~OnUp(c, j)
        BY <1>2, <1>5 DEF Typed, Placed, OnUp
      <4> QED BY <1>2, <4>1, <4>2 DEF OnUp
    <3>3. \A j \in Instances : OnDown(c, j)' => j = to
      BY <2>2, <2>3 DEF OnDown
    <3>4. \A j \in Instances : Once(down'[j], RequestOf(c)) /\ Once(up'[j], RequestOf(c))
      BY <1>4, <2>2, <2>3, <3>1 DEF Carried, InOnePlace, OnDown, m
    <3>5. \A j \in Instances : ~Queued(c, j)' /\ Once(queue'[j], JobOf(c))
      BY <1>3, <2>2, <3>1 DEF Queued, Carried, InOnePlace
    <3>6. runs'[c] = 0 /\ call'[c] # Nobody /\ call' = call
      BY <1>2, <1>3, <3>1 DEF Carried, InOnePlace, Typed, Placed, OnUp
    <3>7. InOnePlace(c)'
      BY <1>5, <1>8, <3>2, <3>3, <3>4, <3>5, <3>6 DEF InOnePlace
    <3>8. DecidedOnce(c)'
      BY <1>2, <1>3, <1>6, <2>4, <3>1 DEF Carried, DecidedOnce, WorkKeeps, AnswersKeep
    <3> QED BY <3>7, <3>8 DEF Carried
  <2> QED BY <1>3, <2>5, <2>6 DEF AllCarried, Unnoticed
<1> QED BY <1>0, <1>7, <1>8 DEF RouteRequest, CallChain, RequestOf

LEMMA RouteResponseCarries ==
  ASSUME Typed, AllCarried, NEW i \in Instances, RouteResponse(i)
  PROVE  AllCarried' /\ Unnoticed
<1> DEFINE c == Head(up[i]).id
           m == ResponseTo(c)
<1>1. Take(i, "response")
  BY DEF RouteResponse
<1>2. /\ c \in Corrs /\ m \in Elements(up[i])
      /\ \A j \in Instances : Elements(up'[j]) \subseteq Elements(up[j])
  BY <1>1, Taken DEF ResponseTo
<1>3. UNCHANGED <<call, queue, turn, runs, finished, open, outcome>>
  BY <1>1 DEF Take, workVars
<1>4. \A j \in Instances : \A y : Once(up[j], y) => Once(up'[j], y)
  BY <1>1, TakenIsGone
<1> HIDE DEF c
<1>5. m \in Downward /\ \A d \in Corrs : m # RequestOf(d) /\ (d # c => m # ResponseTo(d))
  BY <1>2 DEF Downward, RequestOf, ResponseTo
<1>6. /\ \A j \in Instances : Elements(down'[j]) \subseteq Elements(down[j]) \cup {m}
      /\ \A j \in Instances : \A y : Once(down[j], y) /\ y # m => Once(down'[j], y)
  <2>1. CASE down' = down
    BY <2>1
  <2>2. CASE pending[c] # Nobody /\ SpawnAndSend(FindInstance(pending[c]), m)
    <3> DEFINE to == FindInstance(pending[c])
    <3>1. to \in Instances
      <4>1. call[c].by \in Elements(slots) /\ pending[c] = AgentOf(call[c].by) /\ slots \in Seq(Instances)
        BY <1>2, <2>2 DEF Typed, TypeOK, Placed
      <4> QED BY <4>1, InstanceIsFound, ElementsAreMembers
    <3> HIDE DEF to, m
    <3>2. down'[to] = Append(down[to], m) /\ \A j \in Instances : j # to => down'[j] = down[j]
      BY <1>5, <2>2, <3>1, SpawnSends DEF to
    <3> QED BY <1>5, <3>1, <3>2, SentIsThere
  <2> QED BY <2>1, <2>2 DEF RouteResponse, ResponseTo, c
<1> HIDE DEF m
<1>7. ASSUME NEW d \in Corrs PROVE Carried(d)'
  <2>1. ChannelsKeep(d)
    BY <1>2, <1>4, <1>5, <1>6 DEF ChannelsKeep, OnUp, OnDown
  <2>2. WorkKeeps(d)
    BY <1>3 DEF WorkKeeps, Queued, Runs
  <2>3. AnswersKeep(d)
    BY <1>2, <1>3, <1>5, <1>6 DEF AnswersKeep, Awaits, m
  <2> QED BY <1>3, <2>1, <2>2, <2>3, KeptIsCarried DEF AllCarried
<1> QED BY <1>3, <1>7 DEF AllCarried, Unnoticed

LEMMA RespawnCarries ==
  ASSUME AllCarried, NEW i \in Instances, Respawn(i) \/ Boot(i)
  PROVE  AllCarried' /\ Unnoticed
<1>1. UNCHANGED <<call, up, down, queue, turn, runs, finished, open, outcome>>
  BY DEF Respawn, Boot, workVars
<1> QED BY <1>1 DEF AllCarried, Carried, InOnePlace, DecidedOnce, Once, OnUp, OnDown, Queued, Runs,
                    Awaits, Unnoticed

\* What dies takes its part of the channels, of the work and of the waits with it.
LEMMA DieCarries ==
  ASSUME Typed, AllCarried, NEW i \in Instances, Die(i)
  PROVE  AllCarried' /\ Unnoticed
<1>1. /\ UNCHANGED <<call, up, runs, finished, outcome>>
      /\ down'[i] = <<>> /\ queue'[i] = <<>> /\ turn'[i] = Nobody /\ open'[i] = {}
      /\ \A j \in Instances : j # i =>
           /\ down'[j] = down[j] /\ queue'[j] = queue[j]
           /\ turn'[j] = turn[j] /\ open'[j] = open[j]
  BY DEF Die, Typed, TypeOK
<1>2. Elements(<<>>) = {} /\ \A y : Once(<<>>, y)
  BY ElementsOfEmpty DEF Once
<1>3. ASSUME NEW c \in Corrs PROVE Carried(c)'
  <2>1. ChannelsKeep(c)
    BY <1>1, <1>2 DEF ChannelsKeep, OnUp, OnDown
  <2>2. WorkKeeps(c)
    BY <1>1, <1>2 DEF WorkKeeps, Queued, Runs
  <2>3. AnswersKeep(c)
    BY <1>1, <1>2 DEF AnswersKeep, Awaits
  <2> QED BY <1>1, <2>1, <2>2, <2>3, KeptIsCarried DEF AllCarried
<1> QED BY <1>1, <1>3 DEF AllCarried, Unnoticed

LEMMA ReceiveEarlyCarries ==
  ASSUME Typed, AllCarried, NEW i \in Instances, ReceiveEarly(i)
  PROVE  AllCarried' /\ Unnoticed
<1>1. Receive(i) /\ UNCHANGED <<call, up, queue, turn, runs, finished, open, outcome>>
  BY DEF ReceiveEarly, Receive
<1>2. /\ \A j \in Instances : Elements(down'[j]) \subseteq Elements(down[j])
      /\ \A j \in Instances : \A y : Once(down[j], y) => Once(down'[j], y)
  BY <1>1, ReceivedIsGone
<1>3. ASSUME NEW c \in Corrs PROVE Carried(c)'
  <2>1. ChannelsKeep(c)
    BY <1>1, <1>2 DEF ChannelsKeep, OnUp, OnDown
  <2>2. WorkKeeps(c)
    BY <1>1 DEF WorkKeeps, Queued, Runs
  <2>3. AnswersKeep(c)
    BY <1>1, <1>2 DEF AnswersKeep, Awaits
  <2> QED BY <1>1, <2>1, <2>2, <2>3, KeptIsCarried DEF AllCarried
<1> QED BY <1>1, <1>3 DEF AllCarried, Unnoticed

\* The timer of a request.
LEMMA RequestTimeoutCarries ==
  ASSUME Typed, AllCarried, NEW i \in Instances, NEW c \in Corrs, RequestTimeout(i, c)
  PROVE  AllCarried' /\ Abstract!Next
<1>1. /\ c \in open[i] /\ Settle(i, c, "timeout")
      /\ UNCHANGED <<call, up, down, queue, turn, runs, finished>>
  BY DEF RequestTimeout, workVars
<1>2. /\ open'[i] = open[i] \ {c} /\ \A j \in Instances : j # i => open'[j] = open[j]
      /\ outcome' = [outcome EXCEPT ![c] = "timeout"]
  BY <1>1, SettleSettles
<1>3. call[c] # Nobody /\ outcome[c] = "none" /\ \A j \in Instances : c \in open[j] => j = i
  BY <1>1 DEF AllCarried, Carried, DecidedOnce, Awaits
<1>4. \A d \in Corrs : d # c => outcome'[d] = outcome[d]
  BY <1>2 DEF Typed, TypeOK
<1>5. ASSUME NEW d \in Corrs PROVE Carried(d)'
  <2>1. ChannelsKeep(d)
    BY <1>1 DEF ChannelsKeep, OnUp, OnDown
  <2>2. WorkKeeps(d)
    BY <1>1 DEF WorkKeeps, Queued, Runs
  <2>3. AnswersKeep(d)
    BY <1>1, <1>2, <1>3, <1>4 DEF AnswersKeep, Awaits
  <2> QED BY <1>3, <1>4, <2>1, <2>2, <2>3, KeptIsCarried DEF AllCarried
<1>6. Abstract!Decide(c, "timeout")
  BY <1>1, <1>2, <1>3 DEF Abstract!Decide
<1> QED BY <1>5, <1>6 DEF AllCarried, Abstract!Next

\* An answer: the wait ends, and the inbox gets a job that is no request.
LEMMA ReceiveAnswerCarries ==
  ASSUME Typed, AllCarried, NEW i \in Instances, ReceiveAnswer(i)
  PROVE  AllCarried' /\ [Abstract!Next]_Abstract!vars
<1>1. /\ Receive(i) /\ Head(down[i]).type \in {"response", "error"}
      /\ Settle(i, Head(down[i]).id, IF Head(down[i]).type = "response" THEN "ok" ELSE "error")
      /\ Enqueue(i, [kind |-> "answer", id |-> Head(down[i]).id])
  BY DEF ReceiveAnswer
<1>2. Head(down[i]) \in Downward /\ Head(down[i]).id \in Corrs
  BY <1>1, Received
<1>3. PICK c \in Corrs, how \in {"ok", "error"} :
        /\ Settle(i, c, how) /\ Enqueue(i, [kind |-> "answer", id |-> c])
        /\ how = "ok" => ResponseTo(c) = Head(down[i])
  <2> DEFINE m == Head(down[i])
  <2>1. m \in Downward /\ m.id \in Corrs /\ m.type \in {"response", "error"}
        /\ Settle(i, m.id, IF m.type = "response" THEN "ok" ELSE "error")
        /\ Enqueue(i, [kind |-> "answer", id |-> m.id])
    BY <1>1, <1>2
  <2> HIDE DEF m
  <2>2. m.type = "response" => ResponseTo(m.id) = m
    BY <2>1 DEF Downward, ResponseTo
  <2>3. CASE m.type = "response"
    BY <2>1, <2>2, <2>3 DEF m
  <2>4. CASE m.type = "error"
    BY <2>1, <2>4
  <2> QED BY <2>1, <2>3, <2>4
<1>4. UNCHANGED <<call, up, finished>>
  BY <1>1 DEF Receive
<1>5. /\ open'[i] = open[i] \ {c} /\ \A j \in Instances : j # i => open'[j] = open[j]
      /\ c \in open[i] => outcome' = [outcome EXCEPT ![c] = how]
      /\ c \notin open[i] => outcome' = outcome
  BY <1>3, SettleSettles
<1>6. AwaitsNoMore /\ \A d \in Corrs : WorkKeeps(d)
  <2>1. [kind |-> "answer", id |-> c] \in Job
        /\ \A d \in Corrs : [kind |-> "answer", id |-> c] # JobOf(d)
    BY DEF Job, JobOf
  <2> QED BY <1>3, <2>1, JobIsWork
<1>7. /\ \A j \in Instances : Elements(down'[j]) \subseteq Elements(down[j])
      /\ \A j \in Instances : \A y : Once(down[j], y) => Once(down'[j], y)
      /\ how = "ok" => ResponseTo(c) \in Elements(down[i])
  BY <1>1, <1>3, ReceivedIsGone
<1>8. c \in open[i] => /\ call[c] # Nobody /\ outcome[c] = "none"
                       /\ \A j \in Instances : c \in open[j] => j = i
  BY DEF AllCarried, Carried, DecidedOnce, Awaits
<1>9. /\ \A d \in Corrs : d # c => outcome'[d] = outcome[d]
      /\ c \notin open[i] => outcome' = outcome
  BY <1>5 DEF Typed, TypeOK
<1>10. ASSUME NEW d \in Corrs PROVE Carried(d)'
  <2>1. ChannelsKeep(d)
    BY <1>4, <1>7 DEF ChannelsKeep, OnUp, OnDown
  <2>2. AnswersKeep(d)
    BY <1>4, <1>5, <1>6, <1>7, <1>8, <1>9 DEF AnswersKeep, Awaits, AwaitsNoMore
  <2> QED BY <1>6, <1>8, <1>9, <2>1, <2>2, KeptIsCarried DEF AllCarried
<1>11. runs' = runs
  <2>1. runs' \in [Corrs -> Nat] /\ runs \in [Corrs -> Nat]
    <3>1. [kind |-> "answer", id |-> c] \in Job
      BY DEF Job
    <3> QED BY <1>3, <3>1, JobIsQueued DEF Typed, TypeOK
  <2> QED BY <1>6, <2>1 DEF WorkKeeps
<1>12. [Abstract!Next]_Abstract!vars
  <2>1. CASE c \in open[i]
    <3>1. how = "ok" => c \in finished
      BY <1>7 DEF AllCarried, Carried, DecidedOnce
    <3>2. Abstract!Decide(c, how)
      BY <1>4, <1>5, <1>8, <1>11, <2>1, <3>1 DEF Abstract!Decide
    <3> QED BY <3>2 DEF Abstract!Next
  <2>2. CASE c \notin open[i]
    BY <1>4, <1>9, <1>11, <2>2 DEF Abstract!vars
  <2> QED BY <2>1, <2>2
<1> QED BY <1>10, <1>12 DEF AllCarried

\* An event or a request comes off the channel and starts, or waits in the queue.
LEMMA ReceiveJobCarries ==
  ASSUME Typed, AllCarried, NEW i \in Instances, ReceiveJob(i)
  PROVE  AllCarried' /\ [Abstract!Next]_Abstract!vars
<1> DEFINE m == Head(down[i])
           job == [kind |-> m.type, id |-> m.id]
<1>1. /\ Receive(i) /\ m.type \in {"event", "request"} /\ Enqueue(i, job)
      /\ UNCHANGED <<call, up, open, outcome, finished>>
  BY DEF ReceiveJob, Receive
<1>2. m \in Downward
  BY <1>1, Received
<1>3. /\ \A j \in Instances : Elements(down'[j]) \subseteq Elements(down[j])
      /\ \A j \in Instances : \A y : Once(down[j], y) => Once(down'[j], y)
      /\ m \in Elements(down[i])
      /\ Once(down[i], m) => m \notin Elements(down'[i])
  BY <1>1, ReceivedIsGone
<1> HIDE DEF m
<1>4. job \in Job /\ \A c \in Corrs : job = JobOf(c) => m = RequestOf(c)
  BY <1>1, <1>2 DEF Downward, Job, JobOf, RequestOf
<1> HIDE DEF job
<1>5. /\ AwaitsNoMore
      /\ \A c \in Corrs : job # JobOf(c) => WorkKeeps(c)
  BY <1>1, <1>4, JobIsWork
<1>6. ASSUME NEW c \in Corrs PROVE ChannelsKeep(c) /\ AnswersKeep(c)
  <2>1. ChannelsKeep(c)
    BY <1>1, <1>3 DEF ChannelsKeep, OnUp, OnDown
  <2>2. AnswersKeep(c)
    BY <1>1, <1>3, <1>5 DEF AnswersKeep, Awaits, AwaitsNoMore
  <2> QED BY <2>1, <2>2
<1>7. ASSUME NEW c \in Corrs, job # JobOf(c) PROVE Carried(c)'
  BY <1>1, <1>5, <1>6, <1>7, KeptIsCarried DEF AllCarried
<1>8. ASSUME NEW c \in Corrs, job = JobOf(c)
      PROVE  /\ Carried(c)' /\ call[c] # Nobody /\ runs[c] = 0
             /\ runs'[c] = runs[c] \/ runs'[c] = 1
  <2>1. OnDown(c, i) /\ m = RequestOf(c) /\ Carried(c)
    BY <1>3, <1>4, <1>8 DEF OnDown, AllCarried
  <2>2. /\ runs[c] = 0 /\ call[c] # Nobody /\ call[c].to = i /\ AgentOf(i) # AgentOf(call[c].by)
        /\ \A j \in Instances : /\ ~OnUp(c, j) /\ ~Queued(c, j) /\ ~Runs(c, j) /\ (OnDown(c, j) => j = i)
                                /\ Once(up[j], RequestOf(c)) /\ Once(down[j], RequestOf(c))
                                /\ Once(queue[j], JobOf(c))
    BY <2>1 DEF Carried, InOnePlace, DecidedOnce
  <2>3. \A j \in Instances : /\ ~OnUp(c, j)' /\ ~OnDown(c, j)'
                             /\ Once(up'[j], RequestOf(c)) /\ Once(down'[j], RequestOf(c))
    BY <1>3, <1>6, <2>1, <2>2 DEF ChannelsKeep, OnDown
  <2>4. CASE /\ runs'[c] = runs[c]
             /\ \A j \in Instances :
                  /\ Runs(c, j)' => Runs(c, j)
                  /\ Queued(c, j)' => Queued(c, j) \/ j = i
                  /\ Once(queue[j], job) /\ ~Queued(c, j) => Once(queue'[j], job)
    <3>1. \A j \in Instances : (Queued(c, j)' => j = i) /\ ~Runs(c, j)' /\ Once(queue'[j], JobOf(c))
      BY <1>8, <2>2, <2>4
    <3>2. call' = call
      BY <1>1
    <3>3. InOnePlace(c)'
      BY <2>2, <2>3, <2>4, <3>1, <3>2 DEF InOnePlace
    <3>4. DecidedOnce(c)'
      BY <1>1, <1>6, <2>1, <2>4, <3>1 DEF Carried, DecidedOnce, AnswersKeep
    <3> QED BY <2>2, <2>4, <3>3, <3>4 DEF Carried
  <2>5. CASE /\ runs'[c] = runs[c] + 1
             /\ \A j \in Instances :
                  /\ Queued(c, j)' => Queued(c, j)
                  /\ Once(queue[j], job) => Once(queue'[j], job)
    <3>1. WorkStarts(c)
      BY <1>8, <2>2, <2>5 DEF WorkStarts
    <3>2. Carried(c)'
      BY <1>6, <2>1, <2>3, <3>1, StartedIsCarried
    <3> QED BY <2>2, <3>1, <3>2 DEF WorkStarts
  <2> QED BY <1>1, <1>4, <1>8, <2>4, <2>5, JobIsWork
<1>9. [Abstract!Next]_Abstract!vars
  <2>1. runs \in [Corrs -> Nat] /\ runs' \in [Corrs -> Nat]
    BY <1>1, <1>4, JobIsQueued DEF Typed, TypeOK
  <2>2. CASE runs' = runs
    BY <1>1, <2>2 DEF Abstract!vars
  <2>3. CASE runs' # runs
    <3>1. PICK c \in Corrs : runs'[c] # runs[c]
      BY <2>1, <2>3
    <3>2. job = JobOf(c)
      BY <1>5, <3>1 DEF WorkKeeps
    <3>3. \A d \in Corrs : d # c => runs'[d] = runs[d]
      BY <1>5, <3>2 DEF WorkKeeps, JobOf
    <3>4. call[c] # Nobody /\ runs[c] = 0 /\ runs' = [runs EXCEPT ![c] = 1]
      BY <1>8, <2>1, <3>1, <3>2, <3>3
    <3>5. Abstract!Run(c)
      BY <1>1, <3>4 DEF Abstract!Run
    <3> QED BY <3>5 DEF Abstract!Next
  <2> QED BY <2>2, <2>3
<1> QED BY <1>7, <1>8, <1>9 DEF AllCarried

\* A new request goes on its way, and its process waits for it.
LEMMA RequestCarries ==
  ASSUME Typed, AllCarried, NEW i \in Instances, NEW c \in Corrs, NEW to \in Instances,
         NEW blocks \in BOOLEAN, Request(i, c, to, blocks)
  PROVE  AllCarried' /\ Abstract!Next
<1> DEFINE m == RequestOf(c)
<1>1. /\ turn[i] # Nobody /\ call[c] = Nobody
      /\ call' = [call EXCEPT ![c] = [by |-> i, to |-> to]]
      /\ open' = [open EXCEPT ![i] = @ \cup {c}]
      /\ turn' = IF blocks THEN [turn EXCEPT ![i].waits = @ \cup {c}] ELSE turn
      /\ up' = [up EXCEPT ![i] = Append(@, m)]
      /\ UNCHANGED <<down, queue, runs, finished, outcome>>
  BY DEF Request, RequestOf
<1>2. m \in Upward /\ \A d \in Corrs : (d # c => m # RequestOf(d)) /\ m # ResponseTo(d)
  BY DEF Upward, RequestOf, ResponseTo
<1>3. call'[c] # Nobody /\ call'[c].by = i /\ \A d \in Corrs : d # c => call'[d] = call[d]
  <2>1. [by |-> i, to |-> to] # Nobody
    BY DistinctAssumption DEF Call
  <2> QED BY <1>1, <2>1 DEF Typed, TypeOK
<1>4. /\ Elements(up'[i]) = Elements(up[i]) \cup {m}
      /\ \A y : Once(up[i], y) /\ (m # y \/ y \notin Elements(up[i])) => Once(up'[i], y)
      /\ \A j \in Instances : j # i => up'[j] = up[j]
  <2>1. up[i] \in Seq(Upward) /\ up'[i] = Append(up[i], m)
    BY <1>1 DEF Typed, TypeOK
  <2> HIDE DEF m
  <2>2. \A y : Once(up[i], y) /\ (m # y \/ y \notin Elements(up[i])) => Once(Append(up[i], m), y)
    BY <1>2, <2>1, OnceInAppend
  <2>3. Elements(Append(up[i], m)) = Elements(up[i]) \cup {m}
    BY <1>2, <2>1, ElementsOfAppend
  <2>4. \A j \in Instances : j # i => up'[j] = up[j]
    BY <1>1 DEF Typed, TypeOK
  <2> QED BY <2>1, <2>2, <2>3, <2>4
<1>5. \A j \in Instances :
        /\ turn'[j] # Nobody => turn[j] # Nobody /\ turn'[j].job = turn[j].job
        /\ turn'[j] # Nobody => turn'[j].waits \subseteq turn[j].waits \cup IF j = i THEN {c} ELSE {}
        /\ open'[j] \subseteq open[j] \cup IF j = i THEN {c} ELSE {}
  <2>1. \A j \in Instances : open'[j] \subseteq open[j] \cup IF j = i THEN {c} ELSE {}
    BY <1>1 DEF Typed, TypeOK
  <2>2. turn' = turn \/ turn' = [turn EXCEPT ![i] = [turn[i] EXCEPT !.waits = @ \cup {c}]]
    BY <1>1
  <2>3. turn[i] \in Turn
    BY <1>1 DEF Typed, TypeOK
  <2>4. /\ [turn[i] EXCEPT !.waits = @ \cup {c}].job = turn[i].job
        /\ [turn[i] EXCEPT !.waits = @ \cup {c}].waits = turn[i].waits \cup {c}
    BY <2>3 DEF Turn
  <2>5. /\ turn'[i] = turn[i] \/ turn'[i] = [turn[i] EXCEPT !.waits = @ \cup {c}]
        /\ \A j \in Instances : j # i => turn'[j] = turn[j]
    BY <2>2 DEF Typed, TypeOK
  <2> QED BY <1>1, <2>1, <2>4, <2>5
<1>6. ASSUME NEW d \in Corrs PROVE WorkKeeps(d)
  BY <1>1, <1>5 DEF WorkKeeps, Queued, Runs
<1>7. ASSUME NEW d \in Corrs, d # c PROVE Carried(d)'
  <2>1. ChannelsKeep(d)
    BY <1>1, <1>2, <1>4, <1>7 DEF ChannelsKeep, OnUp, OnDown
  <2>2. AnswersKeep(d)
    BY <1>1, <1>2, <1>3, <1>4, <1>5, <1>7 DEF AnswersKeep, Awaits
  <2> QED BY <1>1, <1>6, <2>1, <2>2, KeptIsCarried DEF AllCarried
<1>8. Carried(c)'
  <2>1. /\ Carried(c) /\ runs[c] = 0 /\ outcome[c] = "none"
        /\ \A j \in Instances : /\ ~OnUp(c, j) /\ ~OnDown(c, j) /\ ~Queued(c, j)
                                /\ ~Runs(c, j) /\ ~Awaits(c, j)
    BY <1>1 DEF AllCarried, Carried, InOnePlace, DecidedOnce, Typed, Placed, OnUp
  <2>2. \A j \in Instances : /\ ~OnDown(c, j)' /\ ~Queued(c, j)' /\ ~Runs(c, j)'
                             /\ Once(up'[j], RequestOf(c)) /\ Once(down'[j], RequestOf(c))
                             /\ Once(queue'[j], JobOf(c))
    BY <1>1, <1>4, <1>5, <2>1 DEF Carried, InOnePlace, OnUp, OnDown, Queued, Runs
  <2>3. \A j \in Instances :
          /\ Awaits(c, j)' => j = i
          /\ ResponseTo(c) \in Elements(up'[j]) \cup Elements(down'[j]) => c \in finished'
    BY <1>1, <1>2, <1>4, <1>5, <2>1 DEF Awaits, Carried, DecidedOnce
  <2>4. InOnePlace(c)'
    BY <1>1, <2>1, <2>2 DEF InOnePlace
  <2>5. DecidedOnce(c)'
    BY <1>1, <1>3, <2>1, <2>2, <2>3 DEF DecidedOnce
  <2> QED BY <2>4, <2>5 DEF Carried
<1>9. Abstract!Ask(c)
  BY <1>1, <1>3 DEF Abstract!Ask, Typed, TypeOK
<1> QED BY <1>7, <1>8, <1>9 DEF AllCarried, Abstract!Next

\* The end of a turn, answered or not, and the start of the next.
LEMMA EndTurnCarries ==
  ASSUME Typed, AllCarried, NEW i \in Instances, EndTurn(i) \/ FailTurn(i)
  PROVE  AllCarried' /\ [Abstract!Next]_Abstract!vars
<1> DEFINE job == turn[i].job
           b == job.id
<1>1. /\ turn[i] # Nobody /\ turn[i] \in Turn /\ StartNext(i, queue[i])
      /\ UNCHANGED <<call, down, open, outcome>>
  BY DEF EndTurn, FailTurn, Typed, TypeOK
<1>2. \/ UNCHANGED <<up, finished>>
      \/ \E c \in Corrs : /\ Runs(c, i) /\ up' = [up EXCEPT ![i] = Append(@, ResponseTo(c))]
                          /\ finished' = finished \cup {c}
  <2>1. CASE UNCHANGED <<up, finished>>
    BY <2>1
  <2>2. CASE /\ job.kind = "request"
             /\ up' = [up EXCEPT ![i] = Append(@, [type |-> "response", id |-> b])]
             /\ finished' = finished \cup {b}
    <3>1. job \in Job /\ turn[i].job = job
      BY <1>1 DEF Turn
    <3> HIDE DEF job
    <3>2. b \in Corrs /\ job = JobOf(b)
      BY <2>2, <3>1 DEF Job, JobOf
    <3>3. Runs(b, i)
      BY <1>1, <3>1, <3>2 DEF Runs
    <3> QED BY <2>2, <3>2, <3>3 DEF ResponseTo
  <2> QED BY <2>1, <2>2 DEF EndTurn, FailTurn
<1>3. /\ \A c \in Corrs : WorkKeeps(c) \/ (WorkStarts(c) /\ Queued(c, i))
      /\ StartsOne /\ AwaitsNoMore
  BY <1>1, NextStartsWork DEF AllCarried
<1>4. ASSUME NEW c \in Corrs PROVE ChannelsKeep(c) /\ AnswersKeep(c)
  <2>1. CASE UNCHANGED <<up, finished>>
    BY <1>1, <1>3, <2>1 DEF ChannelsKeep, AnswersKeep, OnUp, OnDown, Awaits, AwaitsNoMore
  <2>2. ASSUME NEW d \in Corrs, up' = [up EXCEPT ![i] = Append(@, ResponseTo(d))],
               finished' = finished \cup {d}
        PROVE  ChannelsKeep(c) /\ AnswersKeep(c)
    <3> DEFINE m == ResponseTo(d)
    <3>1. m \in Upward /\ m # RequestOf(c) /\ (d # c => m # ResponseTo(c))
      BY DEF Upward, RequestOf, ResponseTo
    <3>2. up[i] \in Seq(Upward) /\ up'[i] = Append(up[i], m) /\ \A j \in Instances : j # i => up'[j] = up[j]
      BY <2>2 DEF Typed, TypeOK
    <3> HIDE DEF m
    <3>3. /\ Elements(Append(up[i], m)) = Elements(up[i]) \cup {m}
          /\ Once(up[i], RequestOf(c)) => Once(Append(up[i], m), RequestOf(c))
      BY <3>1, <3>2, ElementsOfAppend, OnceInAppend
    <3>4. ChannelsKeep(c)
      BY <1>1, <3>1, <3>2, <3>3 DEF ChannelsKeep, OnUp, OnDown
    <3>5. AnswersKeep(c)
      BY <1>1, <1>3, <2>2, <3>1, <3>2, <3>3 DEF AnswersKeep, Awaits, AwaitsNoMore
    <3> QED BY <3>4, <3>5
  <2> QED BY <1>2, <2>1, <2>2
<1>5. ASSUME NEW c \in Corrs PROVE Carried(c)'
  <2>1. CASE WorkKeeps(c)
    BY <1>1, <1>4, <2>1, KeptIsCarried DEF AllCarried
  <2>2. CASE WorkStarts(c) /\ Queued(c, i)
    <3>1. \A j \in Instances : /\ ~OnUp(c, j) /\ ~OnDown(c, j)
                               /\ Once(up[j], RequestOf(c)) /\ Once(down[j], RequestOf(c))
      BY <2>2 DEF AllCarried, Carried, InOnePlace
    <3>2. \A j \in Instances : /\ ~OnUp(c, j)' /\ ~OnDown(c, j)'
                               /\ Once(up'[j], RequestOf(c)) /\ Once(down'[j], RequestOf(c))
      BY <1>4, <3>1 DEF ChannelsKeep
    <3> QED BY <1>4, <2>2, <3>2, StartedIsCarried DEF AllCarried
  <2> QED BY <1>3, <2>1, <2>2
<1>6. runs \in [Corrs -> Nat] /\ runs' \in [Corrs -> Nat]
  <2>1. queue[i] \in Seq(Job)
    BY DEF Typed, TypeOK
  <2> QED BY <1>1, <2>1, NextStarts DEF Typed, TypeOK
<1>7. \/ runs' = runs
      \/ \E d \in Corrs : call[d] # Nobody /\ runs[d] = 0 /\ runs' = [runs EXCEPT ![d] = 1]
  <2>1. CASE \A c \in Corrs : WorkKeeps(c)
    BY <1>6, <2>1 DEF WorkKeeps
  <2>2. ASSUME NEW d \in Corrs, WorkStarts(d)
        PROVE  call[d] # Nobody /\ runs[d] = 0 /\ runs' = [runs EXCEPT ![d] = 1]
    <3>1. \A c \in Corrs : c # d => runs'[c] = runs[c]
      BY <1>3, <2>2 DEF StartsOne, WorkKeeps
    <3> QED BY <1>6, <2>2, <3>1 DEF WorkStarts
  <2> QED BY <1>3, <2>1, <2>2
<1>8. \/ UNCHANGED finished
      \/ \E c \in Corrs : runs[c] = 1 /\ finished' = finished \cup {c}
  BY <1>2 DEF AllCarried, Carried, DecidedOnce
<1>9. [Abstract!Next]_Abstract!vars
  <2>1. CASE runs' = runs /\ UNCHANGED finished
    BY <1>1, <2>1 DEF Abstract!vars
  <2>2. ASSUME NEW c \in Corrs, runs[c] = 1, finished' = finished \cup {c}, runs' = runs
        PROVE  Abstract!Next
    BY <1>1, <2>2 DEF Abstract!Next, Abstract!Finish
  <2>3. ASSUME NEW d \in Corrs, call[d] # Nobody, runs[d] = 0, runs' = [runs EXCEPT ![d] = 1],
               UNCHANGED finished
        PROVE  Abstract!Next
    BY <1>1, <2>3 DEF Abstract!Next, Abstract!Run
  <2>4. ASSUME NEW c \in Corrs, runs[c] = 1, finished' = finished \cup {c},
               NEW d \in Corrs, call[d] # Nobody, runs[d] = 0, runs' = [runs EXCEPT ![d] = 1]
        PROVE  Abstract!Next
    <3>1. Abstract!FinishAndRun(c, d)
      BY <1>1, <2>4 DEF Abstract!FinishAndRun
    <3> QED BY <3>1 DEF Abstract!Next
  <2> QED BY <1>7, <1>8, <2>1, <2>2, <2>3, <2>4
<1> QED BY <1>5, <1>9 DEF AllCarried

LEMMA StepCarries ==
  ASSUME Typed, AllCarried, [Next]_vars
  PROVE  AllCarried' /\ [Abstract!Next]_Abstract!vars
<1>1. CASE UNCHANGED vars
  BY <1>1 DEF vars, AllCarried, Carried, InOnePlace, DecidedOnce, Once, OnUp, OnDown, Queued, Runs,
              Awaits, Abstract!vars
<1>2. ASSUME NEW i \in Instances, ProcessNext(i) PROVE AllCarried' /\ [Abstract!Next]_Abstract!vars
  BY <1>2, RespawnCarries, DieCarries, ReceiveEarlyCarries, ReceiveJobCarries, ReceiveAnswerCarries,
     EndTurnCarries, RequestTimeoutCarries, RequestCarries, UnnoticedStutters DEF ProcessNext
<1>3. ASSUME NEW i \in Instances, OrchestratorNext(i) PROVE AllCarried' /\ [Abstract!Next]_Abstract!vars
  BY <1>3, RouteRequestCarries, RouteResponseCarries, RespawnCarries, ArriveCarries, UnnoticedStutters
     DEF OrchestratorNext
<1> QED BY <1>1, <1>2, <1>3 DEF Next

LEMMA CarriedAlways == Spec => []AllCarried
<1>1. Init => AllCarried
  BY CarriedInit DEF AllCarried
<1> QED BY <1>1, StepCarries, TypedAlways, PTL DEF Spec

\* Requests between agents keep the promise of AgentCalls over crashes, respawns,
\* lost messages and late answers: route() and the processes run a request once at
\* most, and tell its requester one outcome at most, "ok" only of a turn that ended.
THEOREM CallsKept == Spec => CallsAreKept
<1>1. Init => Abstract!Init
  BY DEF Init, Abstract!Init
<1>2. Typed /\ AllCarried /\ [Next]_vars => [Abstract!Next]_Abstract!vars
  BY StepCarries
<1> QED BY <1>1, <1>2, TypedAlways, CarriedAlways, PTL DEF Spec, CallsAreKept, Abstract!Spec

\* The refusal of circular calls in route() keeps a request out of the agent that
\* made it, so no turn blocks on a request that stands behind it in its own queue.
THEOREM NoTurnBlocksItself == Spec => []NoSelfDeadlock
<1>1. Typed /\ AllCarried => NoSelfDeadlock
  <2> SUFFICES ASSUME Typed, AllCarried, NEW i \in Instances, turn[i] # Nobody,
                      NEW c \in turn[i].waits, JobOf(c) \in Elements(queue[i])
               PROVE  FALSE
    BY DEF NoSelfDeadlock, JobOf
  <2>1. c \in Corrs
    BY DEF Typed, TypeOK, Turn
  <2> QED BY <2>1 DEF AllCarried, Carried, InOnePlace, DecidedOnce, Queued, Awaits
<1> QED BY <1>1, TypedAlways, CarriedAlways, PTL

-----------------------------------------------------------------------------
(* The broker does not forget a request that a process waits for. *)

AnswerTo(c, type) == [type |-> type, id |-> c]

\* The first of an agent in a list of instances is the one that is chosen.
LEMMA FirstIsChosen ==
  ASSUME NEW s \in Seq(Instances), NEW n \in DOMAIN s,
         \A j \in 1..(n - 1) : AgentOf(s[j]) # AgentOf(s[n])
  PROVE  n = CHOOSE k \in DOMAIN s :
               AgentOf(s[k]) = AgentOf(s[n]) /\ \A j \in 1..(k - 1) : AgentOf(s[j]) # AgentOf(s[n])
<1> DEFINE First(k) == AgentOf(s[k]) = AgentOf(s[n]) /\ \A j \in 1..(k - 1) : AgentOf(s[j]) # AgentOf(s[n])
<1>1. DOMAIN s = 1..Len(s) /\ Len(s) \in Nat
  BY LenProperties
<1>2. ASSUME NEW k \in DOMAIN s, First(k) PROVE k = n
  <2>1. ~(k < n) /\ ~(n < k)
    BY <1>1, <1>2
  <2> QED BY <1>1, <2>1
<1>3. First(n)
  OBVIOUS
<1> HIDE DEF First
<1>4. n = CHOOSE k \in DOMAIN s : First(k)
  BY <1>2, <1>3
<1> QED BY <1>4 DEF First

\* A slot that is added stands behind the others: the oldest instance of an agent
\* that has one stays the oldest.
LEMMA FoundStays ==
  ASSUME slots \in Seq(Instances), NEW i \in Elements(slots), NEW x \in Instances,
         slots' = slots \/ slots' = Append(slots, x), IsFound(i)'
  PROVE  IsFound(i)
<1> DEFINE a == AgentOf(i)
           T == {k \in 1..Len(slots) : AgentOf(slots[k]) = a}
<1>1. DOMAIN slots = 1..Len(slots) /\ Len(slots) \in Nat
  BY LenProperties
<1>2. T # {} /\ T \in SUBSET Nat
  BY <1>1 DEF Elements
<1>3. PICK n \in T : \A j \in T : ~(j < n)
  <2> HIDE DEF T
  <2> QED BY <1>2, LeastNumber
<1>4. n \in DOMAIN slots /\ AgentOf(slots[n]) = a /\ \A j \in 1..(n - 1) : AgentOf(slots[j]) # AgentOf(slots[n])
  BY <1>1, <1>3
<1>5. FindInstance(a) = slots[n]
  BY <1>4, FirstIsChosen DEF FindInstance
<1>6. /\ slots' \in Seq(Instances) /\ n \in DOMAIN slots'
      /\ \A j \in 1..n : slots'[j] = slots[j]
  <2>1. CASE slots' = slots
    BY <1>1, <1>4, <2>1
  <2>2. CASE slots' = Append(slots, x)
    <3>1. /\ Append(slots, x) \in Seq(Instances) /\ Len(Append(slots, x)) = Len(slots) + 1
          /\ \A j \in 1..Len(slots) : Append(slots, x)[j] = slots[j]
      BY AppendProperties
    <3>2. DOMAIN slots' = 1..Len(slots) + 1
      BY <2>2, <3>1, LenProperties
    <3> QED BY <1>1, <1>4, <2>2, <3>1, <3>2
  <2> QED BY <2>1, <2>2
<1>7. AgentOf(slots'[n]) = a /\ \A j \in 1..(n - 1) : AgentOf(slots'[j]) # AgentOf(slots'[n])
  BY <1>1, <1>4, <1>6
<1>8. FindInstance(a)' = slots'[n]
  BY <1>6, <1>7, FirstIsChosen DEF FindInstance
<1> QED BY <1>1, <1>4, <1>5, <1>6, <1>8 DEF IsFound

LEMMA SlotsGrow ==
  ASSUME NEW i \in Instances, Typed, OrchestratorNext(i)
  PROVE  \E x \in Instances : slots' = slots \/ slots' = Append(slots, x)
<1>1. ASSUME NEW x \in Instances, Spawned(x) PROVE slots' = slots \/ slots' = Append(slots, x)
  BY <1>1 DEF Spawned
<1>2. CASE Respawn(i)
  BY <1>1, <1>2 DEF Respawn
<1>3. ASSUME NEW e \in Events, Arrive(e, i) PROVE \E x \in Instances : slots' = slots \/ slots' = Append(slots, x)
  BY <1>1, <1>3 DEF Arrive, SpawnAndSend
<1>4. CASE RouteRequest(i)
  <2>1. PICK d \in Corrs : d = Head(up[i]).id
    BY <1>4, Taken DEF RouteRequest
  <2>2. call[d] \in Call
    BY <1>4, <2>1, Taken DEF RouteRequest, RequestOf, Typed, TypeOK, Placed
  <2>3. call[d].to \in Instances
    BY <2>2 DEF Call
  <2> QED BY <1>1, <1>4, <2>1, <2>3 DEF RouteRequest, SpawnAndSend, SendErrorResponse, SendIfRunning
<1>5. CASE RouteResponse(i)
  <2>1. PICK d \in Corrs : d = Head(up[i]).id
    BY <1>5, Taken DEF RouteResponse
  <2>2. pending[d] # Nobody => FindInstance(pending[d]) \in Instances
    BY InstanceIsFound, ElementsAreMembers DEF Typed, TypeOK, Placed
  <2> QED BY <1>1, <1>5, <2>1, <2>2 DEF RouteResponse, SpawnAndSend
<1> QED BY <1>2, <1>3, <1>4, <1>5 DEF OrchestratorNext

LEMMA OrchestratorTracks ==
  ASSUME Typed, AllCarried, OpenIsTracked, NEW i \in Instances, OrchestratorNext(i)
  PROVE  OpenIsTracked'
<1> SUFFICES ASSUME NEW j \in Instances, NEW c \in open'[j], IsFound(j)' PROVE Tracked(c, j)'
  BY DEF OpenIsTracked
<1>1. UNCHANGED <<call, open>>
  BY DEF OrchestratorNext, RouteRequest, RouteResponse, Respawn, Arrive, Take
<1>2. c \in Corrs /\ c \in open[j] /\ call[c] \in Call /\ call[c].by = j /\ running[j] = "yes"
  BY <1>1 DEF Typed, TypeOK, Placed, AllCarried, Carried, DecidedOnce, Awaits
<1>4. FindInstance(AgentOf(j)) = j
  <2>1. j \in Elements(slots) /\ slots \in Seq(Instances)
    BY <1>2 DEF Typed, TypeOK, Placed
  <2> QED BY <2>1, SlotsGrow, FoundStays DEF IsFound
<1>3. Tracked(c, j)
  BY <1>2, <1>4 DEF OpenIsTracked, IsFound
<1>5. ASSUME NEW e \in Events, Arrive(e, i) PROVE Tracked(c, j)'
  <2>1. UNCHANGED <<up, pending>>
    BY <1>5 DEF Arrive
  <2>2. Elements(down[j]) \subseteq Elements(down'[j])
    <3> DEFINE m == [type |-> "event", id |-> e]
    <3>1. m \in Downward
      BY DEF Downward
    <3>2. SpawnAndSend(i, m)
      BY <1>5 DEF Arrive
    <3> HIDE DEF m
    <3>3. down'[i] = Append(down[i], m) /\ \A k \in Instances : k # i => down'[k] = down[k]
      BY <3>1, <3>2, SpawnSends
    <3>4. Elements(down'[i]) = Elements(down[i]) \cup {m}
      BY <3>1, <3>3, SentIsThere
    <3> QED BY <3>3, <3>4
  <2> QED BY <1>3, <2>1, <2>2 DEF Tracked, RequestOf, AnswerTo
<1>6. CASE Respawn(i)
  BY <1>3, <1>6 DEF Respawn, Tracked
<1>7. CASE RouteRequest(i)
  <2>1. Take(i, "request")
    BY <1>7 DEF RouteRequest
  <2>2. PICK d \in Corrs : d = Head(up[i]).id
    BY <2>1, Taken
  <2>3. /\ i \in Elements(slots) /\ Head(up[i]) = RequestOf(d)
        /\ Elements(up[i]) = {RequestOf(d)} \cup Elements(up'[i])
        /\ \A k \in Instances : k # i => up'[k] = up[k]
    BY <2>1, <2>2, Taken DEF RequestOf
  <2>4. call[d] \in Call /\ call[d].by = i
    BY <2>3 DEF Typed, TypeOK, Placed
  <2>5. c # d => (RequestOf(c) \in Elements(up[j]) => RequestOf(c) \in Elements(up'[j]))
    BY <2>3 DEF RequestOf
  <2>6. CASE SendErrorResponse(i, d) /\ UNCHANGED pending
    <3> DEFINE to == FindInstance(AgentOf(i))
               m == AnswerTo(d, "error")
    <3>1. to \in Instances /\ (i = j => to = i)
      BY <1>4, <2>3, InstanceIsFound, ElementsAreMembers DEF Typed, TypeOK
    <3>2. m \in Downward
      BY DEF Downward, AnswerTo
    <3>3. SendIfRunning(to, m)
      BY <2>6 DEF SendErrorResponse, AnswerTo
    <3> HIDE DEF to, m
    <3>4. /\ down'[to] = IF running[to] = "no" THEN down[to] ELSE Append(down[to], m)
          /\ \A k \in Instances : k # to => down'[k] = down[k]
      BY <3>1, <3>2, <3>3, SendSends
    <3>5. running[to] # "no" => Elements(down'[to]) = Elements(down[to]) \cup {m}
      <4> SUFFICES ASSUME running[to] # "no" PROVE Elements(down'[to]) = Elements(down[to]) \cup {m}
        OBVIOUS
      <4>1. down'[to] = Append(down[to], m)
        BY <3>4
      <4> QED BY <3>1, <3>2, <3>4, <4>1, SentIsThere
    <3>6. Elements(down[j]) \subseteq Elements(down'[j])
      BY <3>4, <3>5
    <3>7. CASE c = d
      <4>1. i = j /\ m \in Elements(down'[j])
        BY <1>2, <2>4, <3>1, <3>5, <3>7
      <4> QED BY <3>7, <4>1 DEF Tracked, RequestOf, AnswerTo, m
    <3>8. CASE c # d
      BY <1>3, <2>5, <2>6, <3>6, <3>8 DEF Tracked, RequestOf, AnswerTo
    <3> QED BY <3>7, <3>8
  <2>7. CASE /\ pending' = [pending EXCEPT ![d] = AgentOf(i)]
             /\ SpawnAndSend(call[d].to, RequestOf(d))
    <3>1. /\ pending'[d] # Nobody /\ \A e \in Corrs : e # d => pending'[e] = pending[e]
      <4>1. AgentOf(i) # Nobody
        BY DistinctAssumption DEF Instances, AgentOf
      <4> QED BY <2>7, <4>1 DEF Typed, TypeOK
    <3>2. Elements(down[j]) \subseteq Elements(down'[j])
      <4> DEFINE to == call[d].to
                 m == RequestOf(d)
      <4>1. to \in Instances /\ m \in Downward /\ SpawnAndSend(to, m)
        BY <2>4, <2>7 DEF Call, Downward, RequestOf
      <4> HIDE DEF m, to
      <4>2. down'[to] = Append(down[to], m) /\ \A k \in Instances : k # to => down'[k] = down[k]
        BY <4>1, SpawnSends
      <4>3. Elements(down'[to]) = Elements(down[to]) \cup {m}
        BY <4>1, <4>2, SentIsThere
      <4> QED BY <4>2, <4>3
    <3> QED BY <1>2, <1>3, <2>5, <3>1, <3>2 DEF Tracked, RequestOf, AnswerTo
  <2> QED BY <1>7, <2>2, <2>6, <2>7 DEF RouteRequest, RequestOf
<1>8. CASE RouteResponse(i)
  <2>1. Take(i, "response")
    BY <1>8 DEF RouteResponse
  <2>2. PICK d \in Corrs : d = Head(up[i]).id
    BY <2>1, Taken
  <2>3. RequestOf(c) \in Elements(up[j]) => RequestOf(c) \in Elements(up'[j])
    <3>1. /\ Elements(up[i]) = {AnswerTo(d, "response")} \cup Elements(up'[i])
          /\ \A k \in Instances : k # i => up'[k] = up[k]
      BY <2>1, <2>2, Taken DEF AnswerTo
    <3> QED BY <3>1 DEF RequestOf, AnswerTo
  <2>4. CASE UNCHANGED <<slots, running, pending, down>>
    BY <1>3, <2>3, <2>4 DEF Tracked, RequestOf, AnswerTo
  <2>5. CASE /\ pending[d] # Nobody /\ pending' = [pending EXCEPT ![d] = Nobody]
             /\ SpawnAndSend(FindInstance(pending[d]), AnswerTo(d, "response"))
    <3> DEFINE to == FindInstance(pending[d])
               m == AnswerTo(d, "response")
    <3>1. call[d].by \in Elements(slots) /\ pending[d] = AgentOf(call[d].by)
      BY <2>5 DEF Typed, Placed
    <3>2. to \in Instances /\ m \in Downward /\ (c = d => to = j)
      <4>1. to \in Elements(slots) /\ Elements(slots) \subseteq Instances
        BY <3>1, InstanceIsFound, ElementsAreMembers DEF Typed, TypeOK
      <4>2. m \in Downward
        BY DEF Downward, AnswerTo
      <4> QED BY <1>2, <1>4, <3>1, <4>1, <4>2
    <3> HIDE DEF to, m
    <3>3. /\ Elements(down'[to]) = Elements(down[to]) \cup {m}
          /\ \A k \in Instances : k # to => down'[k] = down[k]
      <4>1. down'[to] = Append(down[to], m) /\ \A k \in Instances : k # to => down'[k] = down[k]
        BY <2>5, <3>2, SpawnSends DEF to, m
      <4> QED BY <3>2, <4>1, SentIsThere
    <3>4. CASE c = d
      BY <3>2, <3>3, <3>4 DEF Tracked, RequestOf, AnswerTo, m
    <3>5. CASE c # d
      BY <1>2, <1>3, <2>3, <2>5, <3>3, <3>5 DEF Tracked, RequestOf, AnswerTo, Typed, TypeOK
    <3> QED BY <3>4, <3>5
  <2> QED BY <1>8, <2>2, <2>4, <2>5 DEF RouteResponse, AnswerTo
<1> QED BY <1>5, <1>6, <1>7, <1>8 DEF OrchestratorNext

LEMMA ProcessTracks ==
  ASSUME Typed, OpenIsTracked, NEW i \in Instances, ProcessNext(i)
  PROVE  OpenIsTracked'
<1> SUFFICES ASSUME NEW j \in Instances, NEW c \in open'[j], IsFound(j)' PROVE Tracked(c, j)'
  BY DEF OpenIsTracked
<1>0. slots' = slots
  BY DEF ProcessNext, Boot, Die, ReceiveEarly, ReceiveJob, ReceiveAnswer, Receive, EndTurn, FailTurn,
         RequestTimeout, Request, brokerVars
<1>1. c \in open[j] => Tracked(c, j)
  BY <1>0 DEF OpenIsTracked, IsFound, FindInstance
<1>2. CASE Boot(i)
  BY <1>1, <1>2 DEF Boot, Tracked
<1>3. CASE Die(i)
  BY <1>1, <1>3 DEF Die, Tracked, Typed, TypeOK
<1>4. CASE ReceiveEarly(i)
  <2>1. /\ open' = open /\ open[i] = {} /\ UNCHANGED <<up, pending>>
        /\ \A k \in Instances : k # i => down'[k] = down[k]
    BY <1>4, Received DEF ReceiveEarly, Receive, brokerVars, Typed, Placed
  <2> QED BY <1>1, <2>1 DEF Tracked, RequestOf, AnswerTo
<1>5. CASE ReceiveJob(i)
  <2>1. /\ Receive(i) /\ Head(down[i]).type \in {"event", "request"}
        /\ UNCHANGED <<open, up, pending>>
    BY <1>5 DEF ReceiveJob, Receive, brokerVars
  <2>2. /\ Elements(down[i]) = {Head(down[i])} \cup Elements(down'[i])
        /\ \A k \in Instances : k # i => down'[k] = down[k]
    BY <2>1, Received, ReceivedIsGone
  <2>3. \A type \in {"response", "error"} : AnswerTo(c, type) # Head(down[i])
    BY <2>1 DEF AnswerTo
  <2> QED BY <1>1, <2>1, <2>2, <2>3 DEF Tracked, RequestOf, AnswerTo
<1>6. CASE ReceiveAnswer(i)
  <2> DEFINE m == Head(down[i])
  <2>1. /\ Receive(i) /\ Settle(i, m.id, IF m.type = "response" THEN "ok" ELSE "error")
        /\ m.type \in {"response", "error"} /\ UNCHANGED <<up, pending>>
    BY <1>6 DEF ReceiveAnswer, Receive, brokerVars
  <2>2. /\ Elements(down[i]) = {m} \cup Elements(down'[i]) /\ m.id \in Corrs
        /\ \A k \in Instances : k # i => down'[k] = down[k]
    BY <2>1, Received, ReceivedIsGone
  <2> HIDE DEF m
  <2>3. open'[i] = open[i] \ {m.id} /\ \A k \in Instances : k # i => open'[k] = open[k]
    BY <2>1, <2>2, SettleSettles
  <2>4. j = i => \A type \in {"response", "error"} : AnswerTo(c, type) # m
    BY <2>3 DEF AnswerTo
  <2> QED BY <1>1, <2>1, <2>2, <2>3, <2>4 DEF Tracked, RequestOf, AnswerTo
<1>7. CASE EndTurn(i) \/ FailTurn(i)
  <2>1. UNCHANGED <<open, down, pending>> /\ turn[i] # Nobody
    BY <1>7 DEF EndTurn, FailTurn, brokerVars
  <2>2. Elements(up[j]) \subseteq Elements(up'[j])
    <3>1. CASE up' = up
      BY <3>1
    <3>2. CASE /\ turn[i].job.kind = "request"
               /\ up' = [up EXCEPT ![i] = Append(@, [type |-> "response", id |-> turn[i].job.id])]
      <4> DEFINE job == turn[i].job
                 m == [type |-> "response", id |-> job.id]
      <4>1. job \in Job
        BY <2>1 DEF Typed, TypeOK, Turn
      <4>2. m \in Upward
        BY <3>2, <4>1 DEF Job, Upward
      <4> HIDE DEF m
      <4>3. Elements(Append(up[i], m)) = Elements(up[i]) \cup {m}
        BY <4>2, ElementsOfAppend DEF Typed, TypeOK
      <4>4. up' = [up EXCEPT ![i] = Append(@, m)]
        BY <3>2 DEF m
      <4> QED BY <4>3, <4>4 DEF Typed, TypeOK
    <3> QED BY <1>7, <3>1, <3>2 DEF EndTurn, FailTurn
  <2> QED BY <1>1, <2>1, <2>2 DEF Tracked, RequestOf, AnswerTo
<1>8. ASSUME NEW d \in Corrs, RequestTimeout(i, d) PROVE Tracked(c, j)'
  <2>1. UNCHANGED <<up, down, pending>> /\ Settle(i, d, "timeout")
    BY <1>8 DEF RequestTimeout, brokerVars
  <2>2. open'[j] \subseteq open[j]
    BY <2>1, SettleSettles
  <2> QED BY <1>1, <2>1, <2>2 DEF Tracked, RequestOf, AnswerTo
<1>9. ASSUME NEW d \in Corrs, NEW to \in Instances, NEW blocks \in BOOLEAN, Request(i, d, to, blocks)
      PROVE  Tracked(c, j)'
  <2> DEFINE m == RequestOf(d)
  <2>1. /\ UNCHANGED <<down, pending>> /\ up' = [up EXCEPT ![i] = Append(@, m)]
        /\ open' = [open EXCEPT ![i] = @ \cup {d}]
    BY <1>9 DEF Request, RequestOf, brokerVars
  <2>2. m \in Upward
    BY DEF Upward, RequestOf
  <2>3. Elements(Append(up[i], m)) = Elements(up[i]) \cup {m}
    BY <2>2, ElementsOfAppend DEF Typed, TypeOK
  <2>4. Elements(up[j]) \subseteq Elements(up'[j]) /\ (j = i => m \in Elements(up'[j]))
    <3> HIDE DEF m
    <3> QED BY <2>1, <2>3 DEF Typed, TypeOK
  <2>5. c \in open[j] \/ (j = i /\ c = d)
    BY <2>1 DEF Typed, TypeOK
  <2> QED BY <1>1, <2>1, <2>4, <2>5 DEF Tracked, RequestOf, AnswerTo
<1> QED BY <1>2, <1>3, <1>4, <1>5, <1>6, <1>7, <1>8, <1>9 DEF ProcessNext

\* With any number of instances of an agent, every request that the oldest of them
\* waits for is on its way, in pendingRequests, or answered in the channel back to it,
\* and no turn stands in the way of its own answer: only then can route() settle it.
THEOREM AnswersStayPossible == Spec => []RequestsCanBeAnswered
<1>1. Init => OpenIsTracked
  BY DEF Init, OpenIsTracked
<1>2. Typed /\ AllCarried /\ OpenIsTracked /\ [Next]_vars => OpenIsTracked'
  <2> SUFFICES ASSUME Typed, AllCarried, OpenIsTracked, [Next]_vars PROVE OpenIsTracked'
    OBVIOUS
  <2>1. CASE UNCHANGED vars
    BY <2>1 DEF vars, OpenIsTracked, IsFound, FindInstance, Tracked
  <2> QED BY <2>1, OrchestratorTracks, ProcessTracks DEF Next
<1>3. Typed /\ OpenIsTracked /\ NoSelfDeadlock => RequestsCanBeAnswered
  BY DEF Typed, RequestsCanBeAnswered
<1> QED BY <1>1, <1>2, <1>3, TypedAlways, CarriedAlways, NoTurnBlocksItself, PTL DEF Spec
=============================================================================
