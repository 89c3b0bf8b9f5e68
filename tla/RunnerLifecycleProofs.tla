------------------------ MODULE RunnerLifecycleProofs ------------------------
(* Proofs about RunnerLifecycle, for any connectors, numbers of events, runs  *)
(* and faults.                                                                *)
EXTENDS RunnerLifecycle, SequenceTheorems, TLAPS

-----------------------------------------------------------------------------
(* Updates and lines *)

polled == <<run, offset, batch, confirmed, emitted>>

PolledTypes ==
  /\ run \in 1..MaxRuns
  /\ offset \in [Connectors -> 1..MaxEvents + 1]
  /\ batch \in [Connectors -> Seq(Updates)]
  /\ confirmed \in [Connectors -> 0..MaxEvents]
  /\ emitted \in [Connectors -> [Updates -> Nat]]

\* A batch is a run of updates, of which the first is the one the poller wants
\* next: the one at its offset, or the first that is not confirmed.
BatchIsRun(c) ==
  /\ \A i \in 1..Len(batch[c]) - 1 : batch[c][i + 1] = batch[c][i] + 1
  /\ batch[c] # <<>> => /\ batch[c][1] >= offset[c]
                        /\ batch[c][1] = offset[c] \/ batch[c][1] = confirmed[c] + 1

\* What is before the offset, or confirmed by an earlier runner, was emitted.
PassedWasEmitted(c) ==
  c \in Pollers =>
    \A u \in Updates \ Ignored : u < offset[c] \/ u <= confirmed[c] => emitted[c][u] > 0

\* What is at the offset or after it was not emitted in this run.
EmittedBefore(c) ==
  \A u \in Updates : /\ emitted[c][u] <= run
                     /\ u >= offset[c] => emitted[c][u] <= run - 1

PollersFetch == \A c \in Connectors \ Pollers : batch[c] = <<>>

PolledOK ==
  /\ PolledTypes /\ PollersFetch
  /\ \A c \in Connectors : BatchIsRun(c) /\ PassedWasEmitted(c) /\ EmittedBefore(c)

\* Only these steps read or write updates.
LEMMA PolledFrame ==
  ASSUME Next
  PROVE  \/ UNCHANGED polled
         \/ Restart
         \/ \E c \in Connectors : ReadLine(c) \/ Poll(c) \/ PollFails(c) \/ Take(c)
<1>1. ASSUME NEW c \in Connectors, Child(c)
      PROVE  UNCHANGED polled \/ ReadLine(c) \/ Poll(c) \/ PollFails(c) \/ Take(c)
  BY <1>1 DEF Child, Import, Probe, Fail, Resolve, PollTimesOut, Obey, polled, serverVars
<1>2. ASSUME NEW c \in Connectors, Parent(c) \/ HearError(c) \/ Turns(c) \/ OrphanEnds(c)
      PROVE  UNCHANGED polled
  BY <1>2 DEF Parent, HearError, Turns, OrphanEnds, Start, StartupTimeout, Hear, HearExit, EventsSettled,
       Kill, AbortStart, ConnectorEnds, ConnectorFails, Stop, Handled, polled, serverVars, childVars
<1>3. ASSUME Main \/ Signal \/ Die PROVE UNCHANGED polled
  BY <1>3 DEF Main, AbortOthers, Ready, Stopped, Exit, Signal, Stop, Die, polled, serverVars, childVars
<1> QED BY <1>1, <1>2, <1>3 DEF Next

LEMMA PolledInit == Init => PolledOK
<1> SUFFICES ASSUME Init PROVE PolledOK
  OBVIOUS
<1>1. PolledTypes
  BY LifecycleAssumption, EmptySeq DEF Init, Each, PolledTypes, Updates
<1> QED BY <1>1, LifecycleAssumption
     DEF Init, Each, PolledOK, PollersFetch, BatchIsRun, PassedWasEmitted, EmittedBefore, PolledTypes, Updates

\* emit() counts one event, unless the update gives none.
LEMMA EmitCounts ==
  ASSUME emitted \in [Connectors -> [Updates -> Nat]],
         NEW c \in Connectors, NEW u \in Updates, Emit(c, u)
  PROVE  /\ emitted' \in [Connectors -> [Updates -> Nat]]
         /\ u \notin Ignored => emitted'[c][u] = emitted[c][u] + 1
         /\ u \in Ignored => emitted'[c][u] = emitted[c][u]
         /\ \A b \in Connectors : \A v \in Updates :
              b # c \/ v # u => emitted'[b][v] = emitted[b][v]
<1>1. CASE u \in Ignored
  BY <1>1 DEF Emit
<1>2. CASE u \notin Ignored
  <2> DEFINE f == [emitted[c] EXCEPT ![u] = emitted[c][u] + 1]
  <2>1. emitted' = [emitted EXCEPT ![c] = f]
    BY <1>2 DEF Emit
  <2>2. /\ f \in [Updates -> Nat] /\ f[u] = emitted[c][u] + 1
        /\ \A v \in Updates : v # u => f[v] = emitted[c][v]
    OBVIOUS
  <2> HIDE DEF f
  <2> QED BY <1>2, <2>1, <2>2
<1> QED BY <1>1, <1>2

\* A step of c that leaves the updates of the others alone keeps what is said of them.
LEMMA OthersPolled ==
  ASSUME PolledOK, PolledTypes', PollersFetch', NEW c \in Connectors, run' = run,
         \A b \in Connectors : b # c =>
           /\ offset'[b] = offset[b] /\ batch'[b] = batch[b] /\ confirmed'[b] = confirmed[b]
           /\ \A v \in Updates : emitted'[b][v] = emitted[b][v],
         (BatchIsRun(c) /\ PassedWasEmitted(c) /\ EmittedBefore(c))'
  PROVE  PolledOK'
<1>1. ASSUME NEW b \in Connectors, b # c
      PROVE  (BatchIsRun(b) /\ PassedWasEmitted(b) /\ EmittedBefore(b))'
  BY <1>1 DEF PolledOK, BatchIsRun, PassedWasEmitted, EmittedBefore
<1> QED BY <1>1 DEF PolledOK

LEMMA PolledTake ==
  ASSUME PolledOK, NEW c \in Connectors, Take(c)
  PROVE  PolledOK'
<1> DEFINE s == batch[c]
           u == Head(batch[c])
<1>1. s \in Seq(Updates) /\ s # <<>> /\ c \in Pollers /\ Updates \subseteq Nat
  BY DEF PolledOK, PolledTypes, Take, Updates
<1>2. /\ u \in Updates /\ Tail(s) \in Seq(Updates)
      /\ Len(s) \in Nat /\ Len(Tail(s)) = Len(s) - 1
      /\ \A i \in 1..Len(s) - 1 : Tail(s)[i] = s[i + 1]
  <2> HIDE DEF s
  <2>1. Head(s) \in Updates /\ Tail(s) \in Seq(Updates) /\ Len(Tail(s)) = Len(s) - 1
        /\ \A i \in 1..Len(Tail(s)) : Tail(s)[i] = s[i + 1]
    BY <1>1, HeadTailProperties
  <2>2. Len(s) \in Nat
    BY <1>1, LenProperties
  <2> QED BY <2>1, <2>2 DEF s
<1>3. u = s[1]
  BY <1>1
<1>4. u \in Nat /\ u >= offset[c] /\ (u = offset[c] \/ u = confirmed[c] + 1)
  BY <1>1, <1>2, <1>3 DEF PolledOK, BatchIsRun
<1>5. /\ offset' = [offset EXCEPT ![c] = u + 1]
      /\ batch' = [batch EXCEPT ![c] = Tail(s)]
      /\ confirmed' = confirmed /\ run' = run
      /\ Emit(c, u)
  BY <1>4 DEF Take
<1>6. \A i \in 1..Len(s) - 1 : s[i + 1] = s[i] + 1
  BY DEF PolledOK, BatchIsRun
<1> HIDE DEF s, u
<1>7. /\ emitted' \in [Connectors -> [Updates -> Nat]]
      /\ u \notin Ignored => emitted'[c][u] = emitted[c][u] + 1
      /\ u \in Ignored => emitted'[c][u] = emitted[c][u]
      /\ \A b \in Connectors : \A v \in Updates :
           b # c \/ v # u => emitted'[b][v] = emitted[b][v]
  <2>1. emitted \in [Connectors -> [Updates -> Nat]]
    BY DEF PolledOK, PolledTypes
  <2> QED BY <1>2, <1>5, <2>1, EmitCounts
<1>8. offset'[c] = u + 1 /\ batch'[c] = Tail(s) /\ u + 1 \in 1..MaxEvents + 1
  BY <1>2, <1>5, LifecycleAssumption DEF PolledOK, PolledTypes, Updates
<1>9. PolledTypes'
  BY <1>2, <1>5, <1>7, <1>8 DEF PolledOK, PolledTypes
<1>10. BatchIsRun(c)'
  <2>1. \A i \in 1..Len(Tail(s)) - 1 : Tail(s)[i + 1] = Tail(s)[i] + 1
    BY <1>2, <1>6
  <2>2. ASSUME Tail(s) # <<>> PROVE Tail(s)[1] = u + 1
    <3>1. Len(s) - 1 >= 1
      BY <1>2, <2>2, EmptySeq
    <3> QED BY <1>2, <1>3, <1>6, <3>1
  <2> QED BY <1>4, <1>8, <2>1, <2>2 DEF BatchIsRun
<1>11. PassedWasEmitted(c)'
  <2> SUFFICES ASSUME NEW v \in Updates \ Ignored, v < u + 1 \/ v <= confirmed[c]
               PROVE  emitted'[c][v] > 0
    BY <1>5, <1>8 DEF PassedWasEmitted
  <2>1. emitted[c][v] \in Nat /\ v \in Nat
    BY <1>1 DEF PolledOK, PolledTypes
  <2>2. v # u => v < offset[c] \/ v <= confirmed[c]
    BY <1>4, <2>1 DEF PolledOK, PolledTypes
  <2>3. v # u => emitted[c][v] > 0
    BY <1>1, <2>2 DEF PolledOK, PassedWasEmitted
  <2> QED BY <1>7, <2>1, <2>3
<1>12. EmittedBefore(c)'
  <2> SUFFICES ASSUME NEW v \in Updates
               PROVE  emitted'[c][v] <= run /\ (v >= u + 1 => emitted'[c][v] <= run - 1)
    BY <1>5, <1>8 DEF EmittedBefore
  <2>1. emitted[c][v] \in Nat /\ v \in Nat /\ run \in Nat /\ offset[c] \in Nat
    BY <1>1, LifecycleAssumption DEF PolledOK, PolledTypes
  <2>2. emitted[c][v] <= run /\ (v >= offset[c] => emitted[c][v] <= run - 1)
    BY DEF PolledOK, EmittedBefore
  <2> QED BY <1>4, <1>7, <2>1, <2>2
<1>13. PollersFetch'
  BY <1>1, <1>5 DEF PolledOK, PolledTypes, PollersFetch
<1> QED BY <1>5, <1>7, <1>9, <1>10, <1>11, <1>12, <1>13, OthersPolled DEF PolledOK, PolledTypes

LEMMA PolledLine ==
  ASSUME PolledOK, NEW c \in Connectors, ReadLine(c)
  PROVE  PolledOK'
<1> DEFINE u == offset[c]
<1>1. /\ c \notin Pollers /\ u \in Updates /\ u \in Nat /\ u + 1 \in 1..MaxEvents + 1
      /\ offset' = [offset EXCEPT ![c] = u + 1]
      /\ batch' = batch /\ confirmed' = confirmed /\ run' = run
      /\ Emit(c, u)
  BY LifecycleAssumption DEF ReadLine, PolledOK, PolledTypes, Updates
<1>2. /\ emitted' \in [Connectors -> [Updates -> Nat]]
      /\ u \notin Ignored => emitted'[c][u] = emitted[c][u] + 1
      /\ u \in Ignored => emitted'[c][u] = emitted[c][u]
      /\ \A b \in Connectors : \A v \in Updates :
           b # c \/ v # u => emitted'[b][v] = emitted[b][v]
  <2>1. emitted \in [Connectors -> [Updates -> Nat]]
    BY DEF PolledOK, PolledTypes
  <2> QED BY <1>1, <2>1, EmitCounts
<1>3. PolledTypes' /\ offset'[c] = u + 1
  BY <1>1, <1>2 DEF PolledOK, PolledTypes
<1>4. PassedWasEmitted(c)'
  BY <1>1 DEF PassedWasEmitted
<1>5. BatchIsRun(c)'
  <2>1. batch[c] = <<>>
    BY <1>1 DEF PolledOK, PollersFetch
  <2> QED BY <1>1, <2>1, EmptySeq DEF BatchIsRun
<1>6. EmittedBefore(c)'
  <2> SUFFICES ASSUME NEW v \in Updates
               PROVE  emitted'[c][v] <= run /\ (v >= u + 1 => emitted'[c][v] <= run - 1)
    BY <1>1, <1>3 DEF EmittedBefore
  <2>1. emitted[c][v] \in Nat /\ v \in Nat /\ run \in Nat
    BY LifecycleAssumption DEF PolledOK, PolledTypes, Updates
  <2>2. emitted[c][v] <= run /\ (v >= u => emitted[c][v] <= run - 1)
    BY DEF PolledOK, EmittedBefore
  <2> QED BY <1>1, <1>2, <2>1, <2>2
<1>7. PollersFetch'
  BY <1>1 DEF PolledOK, PollersFetch
<1> QED BY <1>1, <1>2, <1>3, <1>4, <1>5, <1>6, <1>7, OthersPolled DEF PolledOK, PolledTypes

\* A request confirms what is before the offset; what it fetches comes next.
LEMMA PolledPoll ==
  ASSUME PolledOK, NEW c \in Connectors, Poll(c) \/ PollFails(c)
  PROVE  PolledOK'
<1> DEFINE k == IF offset[c] > confirmed[c] + 1 THEN offset[c] - 1 ELSE confirmed[c]
<1>1. /\ c \in Pollers /\ batch[c] = <<>>
      /\ confirmed' = [confirmed EXCEPT ![c] = k]
      /\ offset' = offset /\ emitted' = emitted /\ run' = run
  BY DEF Poll, PollFails, Asks, serverVars, PolledOK, PolledTypes
<1>2. /\ offset[c] \in 1..MaxEvents + 1 /\ confirmed[c] \in 0..MaxEvents
      /\ MaxEvents \in Nat
  BY LifecycleAssumption DEF PolledOK, PolledTypes
<1>3. k \in 0..MaxEvents /\ k >= confirmed[c] /\ k + 1 >= offset[c]
  BY <1>2
<1>4. confirmed'[c] = k
  BY <1>1 DEF PolledOK, PolledTypes
<1>5. \E s \in Seq(Updates) :
        /\ batch' = [batch EXCEPT ![c] = s]
        /\ \A i \in 1..Len(s) - 1 : s[i + 1] = s[i] + 1
        /\ s # <<>> => s[1] = k + 1
  <2>1. CASE Poll(c)
    <3> HIDE DEF k
    <3>1. PICK n \in k..MaxEvents : batch' = [batch EXCEPT ![c] = [i \in 1..n - k |-> k + i]]
      <4>1. \E n \in confirmed'[c]..MaxEvents :
              batch' = [batch EXCEPT ![c] = [i \in 1..n - confirmed'[c] |-> confirmed'[c] + i]]
        BY <2>1 DEF Poll
      <4> QED BY <1>4, <4>1
    <3> DEFINE m == n - k
               s == [i \in 1..m |-> k + i]
    <3>2. m \in Nat /\ \A i \in 1..m : k + i \in Updates
      BY <1>2, <1>3 DEF Updates
    <3>3. s \in Seq(Updates) /\ Len(s) = m
      BY <3>2
    <3>4. \A i \in 1..m - 1 : s[i + 1] = s[i] + 1
      BY <1>3, <3>2
    <3>5. s # <<>> => s[1] = k + 1
      BY <1>3, <3>2, <3>3, EmptySeq
    <3> QED BY <3>1, <3>3, <3>4, <3>5
  <2>2. CASE PollFails(c)
    <3>1. batch[c] \in Seq(Updates) /\ batch' = [batch EXCEPT ![c] = batch[c]]
      <4>1. batch' = batch /\ batch \in [Connectors -> Seq(Updates)]
        BY <2>2 DEF PollFails, PolledOK, PolledTypes
      <4>2. [batch EXCEPT ![c] = batch[c]] = batch
        BY <4>1, Zenon
      <4> QED BY <4>1, <4>2
    <3>2. Len(batch[c]) = 0
      BY <1>1, EmptySeq
    <3>3. /\ \A i \in 1..Len(batch[c]) - 1 : batch[c][i + 1] = batch[c][i] + 1
          /\ batch[c] # <<>> => batch[c][1] = k + 1
      BY <1>1, <3>2
    <3> HIDE DEF k
    <3> QED BY <3>1, <3>3, Zenon
  <2> QED BY <2>1, <2>2
<1>6. PICK s \in Seq(Updates) :
        /\ batch' = [batch EXCEPT ![c] = s]
        /\ \A i \in 1..Len(s) - 1 : s[i + 1] = s[i] + 1
        /\ s # <<>> => s[1] = k + 1
  BY <1>5
<1> HIDE DEF k
<1>7. PolledTypes' /\ PollersFetch' /\ batch'[c] = s
  BY <1>1, <1>3, <1>6 DEF PolledOK, PolledTypes, PollersFetch
<1>8. BatchIsRun(c)'
  BY <1>1, <1>3, <1>4, <1>6, <1>7 DEF BatchIsRun
<1>9. PassedWasEmitted(c)'
  <2> SUFFICES ASSUME NEW v \in Updates \ Ignored, v < offset[c] \/ v <= k
               PROVE  emitted[c][v] > 0
    BY <1>1, <1>4 DEF PassedWasEmitted
  <2>1. v < offset[c] \/ v <= confirmed[c]
    BY <1>2 DEF k, Updates
  <2> QED BY <1>1, <2>1 DEF PolledOK, PassedWasEmitted
<1>10. EmittedBefore(c)'
  BY <1>1 DEF PolledOK, EmittedBefore
<1> QED BY <1>1, <1>6, <1>7, <1>8, <1>9, <1>10, OthersPolled DEF PolledOK, PolledTypes

\* A new runner polls from the first update that is not confirmed.
LEMMA PolledRestart ==
  ASSUME PolledOK, Restart
  PROVE  PolledOK'
<1>1. /\ run' = run + 1 /\ run + 1 \in 1..MaxRuns
      /\ offset' = [c \in Connectors |-> IF c \in Pollers THEN 1 ELSE offset[c]]
      /\ batch' = [c \in Connectors |-> <<>>]
      /\ confirmed' = confirmed /\ emitted' = emitted
  BY LifecycleAssumption DEF PolledOK, PolledTypes, Restart, Each, serverVars
<1>2. PolledTypes' /\ PollersFetch'
  BY <1>1, LifecycleAssumption, EmptySeq DEF PolledOK, PolledTypes, PollersFetch
<1>3. ASSUME NEW c \in Connectors
      PROVE  (BatchIsRun(c) /\ PassedWasEmitted(c) /\ EmittedBefore(c))'
  <2>1. BatchIsRun(c)'
    BY <1>1, EmptySeq DEF BatchIsRun
  <2>2. PassedWasEmitted(c)'
    BY <1>1 DEF PolledOK, PassedWasEmitted, Updates
  <2>3. EmittedBefore(c)'
    <3> SUFFICES ASSUME NEW v \in Updates
                 PROVE  emitted[c][v] <= run + 1 /\ emitted[c][v] <= run
      BY <1>1, LifecycleAssumption DEF EmittedBefore, PolledOK, PolledTypes
    <3> QED BY LifecycleAssumption DEF PolledOK, PolledTypes, EmittedBefore
  <2> QED BY <2>1, <2>2, <2>3
<1> QED BY <1>2, <1>3 DEF PolledOK

LEMMA PolledNext ==
  ASSUME PolledOK, [Next]_vars
  PROVE  PolledOK'
<1>1. CASE UNCHANGED polled
  BY <1>1 DEF polled, PolledOK, PolledTypes, PollersFetch, BatchIsRun, PassedWasEmitted, EmittedBefore
<1>2. CASE Restart
  BY <1>2, PolledRestart
<1>3. ASSUME NEW c \in Connectors, ReadLine(c) \/ Poll(c) \/ PollFails(c) \/ Take(c)
      PROVE  PolledOK'
  BY <1>3, PolledLine, PolledPoll, PolledTake
<1>4. CASE UNCHANGED vars
  BY <1>1, <1>4 DEF vars, polled, childVars, serverVars
<1> QED BY <1>1, <1>2, <1>3, <1>4, PolledFrame

-----------------------------------------------------------------------------
(* Processes *)

processes == <<main, why, child, signalled, chan, startup, exit, expected, inflight>>

ProcessTypes ==
  /\ main \in {"starting", "aborting", "running", "stopping", "shutdown", "exited", "dead"}
  /\ why \in Reason
  /\ child \in [Connectors -> {"none", "forked", "probing", "running", "gone"}]
  /\ signalled \subseteq Connectors
  /\ chan \in [Connectors -> Seq(Message)]
  /\ startup \in [Connectors -> {"none", "pending", "ok", "failed"}]
  /\ exit \in [Connectors -> {"pending", "waiting", "ok", "failed", "unsure"}]
  /\ expected \subseteq Connectors
  /\ inflight \in [Connectors -> SUBSET Updates]

\* What a connector process says while it lives.
Talk == {m \in Message : m.type \notin {"exit0", "exit1"}}

\* The runner and the process of c agree on what has become of it.
ProcessOK(c) ==
  /\ startup[c] = "none" <=> child[c] = "none"
  /\ exit[c] \notin {"pending", "unsure"} => child[c] = "gone" /\ chan[c] = <<>>
  /\ child[c] # "gone" => chan[c] \in Seq(Talk)
  /\ c \in signalled => child[c] # "none"
  /\ exit[c] = "ok" /\ c \notin expected => inflight[c] = {}

\* What main() has seen to when it gets there.
MainOK(c) ==
  /\ main \in {"starting", "running"} => c \notin expected
  /\ main = "running" => startup[c] = "ok"
  /\ main = "aborting" => startup[c] \in {"none", "ok"} \/ c \in expected
  /\ main = "stopping" => child[c] = "none" \/ c \in expected
  /\ main \in {"shutdown", "exited"} => (Lives(c) => exit[c] = "unsure")

\* A connector is started when those before it have.
StartedInOrder ==
  \A b, c \in Connectors : b < c /\ startup[c] # "none" => startup[b] = "ok"

EndedOK ==
  why.by = "ended" => why.of \in Connectors /\ exit[why.of] = "ok" /\ inflight[why.of] = {}

ProcessesOK ==
  /\ ProcessTypes /\ StartedInOrder /\ EndedOK
  /\ \A c \in Connectors : ProcessOK(c) /\ MainOK(c)

\* An exit is not talk.
LEMMA ExitIsNoTalk == \A s \in Exits : s \notin Seq(Talk)
<1> SUFFICES ASSUME NEW s \in Seq(Talk), s \in Exits PROVE FALSE
  OBVIOUS
<1>1. Len(s) = 1 /\ s[1].type \in {"exit0", "exit1"}
  BY DEF Exits, Plain
<1>2. s[1] \in Talk
  BY <1>1, ElementOfSeq
<1> QED BY <1>1, <1>2 DEF Talk

LEMMA ProcessesInit == Init => ProcessesOK
<1> SUFFICES ASSUME Init PROVE ProcessesOK
  OBVIOUS
<1>1. <<>> \in Seq(Message) /\ <<>> \in Seq(Talk)
  BY EmptySeq
<1>2. ProcessTypes
  BY <1>1, LifecycleAssumption DEF Init, Each, ProcessTypes, Because, Reason
<1>3. StartedInOrder /\ EndedOK
  BY DEF Init, Each, StartedInOrder, EndedOK, Because
<1>4. ASSUME NEW c \in Connectors PROVE ProcessOK(c) /\ MainOK(c)
  BY <1>1 DEF Init, Each, ProcessOK, MainOK
<1> QED BY <1>2, <1>3, <1>4 DEF ProcessesOK

LEMMA ProcessesFrame ==
  ASSUME ProcessesOK, UNCHANGED processes PROVE ProcessesOK'
BY DEF processes, ProcessesOK, ProcessTypes, StartedInOrder, EndedOK, ProcessOK, MainOK, Lives

\* A process that lives goes on, and may say something.
LEMMA TalkKeeps ==
  ASSUME ProcessesOK, NEW c \in Connectors, Lives(c), NEW st \in {"forked", "probing", "running"},
         NEW said \in Seq(Talk),
         child' = [child EXCEPT ![c] = st], chan' = [chan EXCEPT ![c] = said],
         UNCHANGED <<main, why, signalled, startup, exit, expected, inflight>>
  PROVE  ProcessesOK'
<1>1. said \in Seq(Message)
  BY SeqMonotonic DEF Talk
<1>2. ProcessTypes'
  BY <1>1 DEF ProcessesOK, ProcessTypes
<1>3. StartedInOrder' /\ EndedOK'
  BY DEF ProcessesOK, StartedInOrder, EndedOK
<1>4. ASSUME NEW b \in Connectors PROVE ProcessOK(b)' /\ MainOK(b)'
  BY DEF ProcessesOK, ProcessTypes, ProcessOK, MainOK, Lives
<1> QED BY <1>2, <1>3, <1>4 DEF ProcessesOK

\* A process ends.
LEMMA QuitKeeps ==
  ASSUME ProcessesOK, NEW c \in Connectors, Lives(c), NEW last \in Seq(Message), Quit(c, last),
         UNCHANGED <<main, why, signalled, startup, exit, expected, inflight>>
  PROVE  ProcessesOK'
<1>1. chan[c] \o last \in Seq(Message)
  BY ConcatProperties DEF ProcessesOK, ProcessTypes
<1>2. ProcessTypes'
  BY <1>1 DEF ProcessesOK, ProcessTypes, Quit
<1>3. StartedInOrder' /\ EndedOK'
  BY DEF ProcessesOK, StartedInOrder, EndedOK
<1>4. ASSUME NEW b \in Connectors PROVE ProcessOK(b)' /\ MainOK(b)'
  BY DEF ProcessesOK, ProcessTypes, ProcessOK, MainOK, Lives, Quit
<1> QED BY <1>2, <1>3, <1>4 DEF ProcessesOK

\* What a connector process does.
LEMMA ChildKeeps ==
  ASSUME ProcessesOK, PolledOK, NEW c \in Connectors, Child(c) \/ Kill(c)
  PROVE  ProcessesOK'
<1>1. Plain("exit0") \in Message /\ Plain("exit1") \in Message /\ Plain("error") \in Message
  BY LifecycleAssumption DEF Plain, Message
<1>2. Plain("started") \in Talk /\ \A u \in Updates : Event(u) \in Talk
  BY LifecycleAssumption DEF Plain, Event, Talk, Message, Updates
<1>3. <<Plain("exit0")>> \in Seq(Message) /\ <<Plain("exit1")>> \in Seq(Message)
      /\ <<Plain("error"), Plain("exit1")>> \in Seq(Message)
  BY <1>1
<1>4. Lives(c) => chan[c] \in Seq(Talk) /\ \A m \in Talk : Append(chan[c], m) \in Seq(Talk)
  BY AppendProperties DEF ProcessesOK, ProcessOK, Lives
<1>5. child \in [Connectors -> {"none", "forked", "probing", "running", "gone"}]
      /\ chan \in [Connectors -> Seq(Message)]
  BY DEF ProcessesOK, ProcessTypes
<1>6. [chan EXCEPT ![c] = chan[c]] = chan /\ [child EXCEPT ![c] = child[c]] = child
  BY <1>5
<1>7. CASE Import(c)
  BY <1>4, <1>6, <1>7, TalkKeeps DEF Import, upVars, Lives
<1>8. CASE Probe(c)
  <2>1. chan' = [chan EXCEPT ![c] = Append(chan[c], Plain("started"))]
    BY <1>8 DEF Probe
  <2> QED BY <1>2, <1>4, <1>8, <2>1, TalkKeeps DEF Probe, upVars, Lives
<1>9. ASSUME NEW u \in Updates, child[c] \in {"probing", "running"}, Emit(c, u), child' = child,
             UNCHANGED <<main, why, signalled, startup, exit, expected, inflight>>
      PROVE  ProcessesOK'
  <2>1. CASE u \in Ignored
    BY <1>4, <1>6, <1>9, <2>1, TalkKeeps DEF Emit, Lives
  <2>2. CASE u \notin Ignored
    <3>1. chan' = [chan EXCEPT ![c] = Append(chan[c], Event(u))]
      BY <1>9, <2>2 DEF Emit
    <3> QED BY <1>2, <1>4, <1>6, <1>9, <3>1, TalkKeeps DEF Lives
  <2> QED BY <2>1, <2>2
<1>10. CASE ReadLine(c)
  <2>1. offset[c] \in Updates
    BY <1>10, LifecycleAssumption DEF ReadLine, PolledOK, PolledTypes, Updates
  <2> QED BY <1>9, <1>10, <2>1 DEF ReadLine, upVars
<1>11. CASE Take(c)
  <2>1. Head(batch[c]) \in Updates
    BY <1>11, HeadTailProperties DEF Take, PolledOK, PolledTypes
  <2> QED BY <1>9, <1>11, <2>1 DEF Take, upVars
<1>12. CASE Poll(c) \/ PollFails(c)
  BY <1>12, ProcessesFrame DEF Poll, PollFails, Asks, upVars, processes
<1>13. CASE Fail(c)
  BY <1>3, <1>13, QuitKeeps DEF Fail, upVars
<1>14. CASE Resolve(c) \/ PollTimesOut(c)
  BY <1>3, <1>14, QuitKeeps DEF Resolve, PollTimesOut, End, upVars, Lives
<1>15. CASE Obey(c)
  BY <1>3, <1>15, QuitKeeps DEF Obey, upVars
<1>16. CASE Kill(c)
  BY <1>3, <1>16, QuitKeeps DEF Kill, upVars
<1> QED BY <1>7, <1>8, <1>10, <1>11, <1>12, <1>13, <1>14, <1>15, <1>16 DEF Child

\* What startConnector() does with a connector.
LEMMA ConnectorKeeps ==
  ASSUME ProcessesOK, NEW c \in Connectors,
         Start(c) \/ StartupTimeout(c) \/ Hear(c) \/ HearExit(c) \/ HearError(c) \/ EventsSettled(c) \/ Turns(c)
  PROVE  ProcessesOK'
<1> USE DEF ProcessesOK, ProcessTypes
<1>1. CASE Start(c)
  <2>1. ProcessTypes'
    BY <1>1 DEF Start, serverVars
  <2>2. StartedInOrder'
    BY <1>1 DEF Start, StartedInOrder, Connectors
  <2>3. EndedOK'
    BY <1>1 DEF Start, EndedOK
  <2>4. ASSUME NEW b \in Connectors PROVE ProcessOK(b)' /\ MainOK(b)'
    BY <1>1 DEF Start, ProcessOK, MainOK, Lives
  <2> QED BY <2>1, <2>2, <2>3, <2>4
<1>2. CASE StartupTimeout(c)
  <2>1. ProcessTypes'
    BY <1>2 DEF StartupTimeout, childVars
  <2>2. StartedInOrder'
    BY <1>2 DEF StartupTimeout, StartedInOrder
  <2>3. EndedOK'
    BY <1>2 DEF StartupTimeout, EndedOK
  <2>4. ASSUME NEW b \in Connectors PROVE ProcessOK(b)' /\ MainOK(b)'
    BY <1>2 DEF StartupTimeout, childVars, ProcessOK, MainOK, Lives
  <2> QED BY <2>1, <2>2, <2>3, <2>4
<1>3. CASE Hear(c)
  <2> DEFINE s == chan[c]
  <2>1. s \in Seq(Message) /\ s # <<>> /\ chan' = [chan EXCEPT ![c] = Tail(s)]
    BY <1>3 DEF Hear
  <2>2. Tail(s) \in Seq(Message) /\ Head(s) \in Message
    BY <2>1, HeadTailProperties
  <2>3. child[c] # "gone" => Tail(s) \in Seq(Talk)
    BY <2>1, HeadTailProperties DEF ProcessOK
  <2>4. exit[c] = "pending"
    BY <1>3, <2>1 DEF ProcessOK, Hear, Settled
  <2> HIDE DEF s
  <2>5. /\ UNCHANGED <<main, why, child, signalled, exit, expected>>
        /\ \/ /\ Head(s).type = "event" /\ startup' = startup
              /\ inflight' = [inflight EXCEPT ![c] = @ \cup {Head(s).event}]
           \/ /\ inflight' = inflight
              /\ \/ startup' = [startup EXCEPT ![c] = startup[c]]
                 \/ startup[c] = "pending" /\ startup' = [startup EXCEPT ![c] = "ok"]
                 \/ startup[c] = "pending" /\ startup' = [startup EXCEPT ![c] = "failed"]
    BY <1>3 DEF Hear, childVars, s
  <2>6. Head(s).type = "event" => Head(s).event \in Updates
    BY <2>2 DEF Message
  <2>7. ProcessTypes'
    <3>1. startup' \in [Connectors -> {"none", "pending", "ok", "failed"}]
      BY <2>5
    <3>2. inflight' \in [Connectors -> SUBSET Updates]
      <4>1. inflight \in [Connectors -> SUBSET Updates]
        OBVIOUS
      <4>2. CASE inflight' = inflight
        BY <4>1, <4>2
      <4>3. CASE Head(s).type = "event" /\ inflight' = [inflight EXCEPT ![c] = @ \cup {Head(s).event}]
        <5>1. inflight[c] \cup {Head(s).event} \in SUBSET Updates
          BY <2>6, <4>1, <4>3
        <5> HIDE DEF ProcessesOK, ProcessTypes
        <5> QED BY <4>1, <4>3, <5>1
      <4> QED BY <2>5, <4>2, <4>3
    <3> QED BY <2>1, <2>2, <2>5, <3>1, <3>2
  <2>8. StartedInOrder'
    BY <2>5 DEF StartedInOrder
  <2>9. EndedOK'
    BY <2>4, <2>5 DEF EndedOK
  <2>10. ASSUME NEW b \in Connectors PROVE ProcessOK(b)' /\ MainOK(b)'
    BY <2>1, <2>3, <2>4, <2>5 DEF ProcessOK, MainOK, Lives
  <2> QED BY <2>7, <2>8, <2>9, <2>10
<1>4. CASE HearExit(c)
  <2>1. child[c] = "gone" /\ exit[c] = "pending"
    <3>1. chan[c] \in Exits
      BY <1>4 DEF HearExit
    <3>2. ProcessOK(c)
      OBVIOUS
    <3> HIDE DEF ProcessesOK, ProcessTypes
    <3>3. chan[c] # <<>>
      <4>1. Len(chan[c]) = 1
        BY <3>1 DEF Exits
      <4>2. Len(<<>>) = 0
        OBVIOUS
      <4>3. Len(chan[c]) # Len(<<>>)
        BY <4>1, <4>2
      <4> QED BY <4>3, Zenon
    <3>4. ~ Settled(c) /\ exit[c] \in {"pending", "waiting", "ok", "failed", "unsure"}
      BY <1>4 DEF HearExit, ProcessesOK, ProcessTypes
    <3>5. exit[c] \in {"pending", "waiting"}
      BY <3>4 DEF Settled
    <3> QED BY <3>1, <3>2, <3>3, <3>5, ExitIsNoTalk, Zenon DEF ProcessOK
  <2>2. /\ chan' = [chan EXCEPT ![c] = <<>>]
        /\ UNCHANGED <<why, child, signalled, expected, inflight>>
        /\ main' = main \/ main' = "dead"
    BY <1>4 DEF HearExit, childVars
  <2>3. /\ \/ exit' = [exit EXCEPT ![c] = "ok"] /\ c \in expected
           \/ exit' = [exit EXCEPT ![c] = "waiting"]
           \/ exit' = [exit EXCEPT ![c] = "failed"]
        /\ \/ startup' = [startup EXCEPT ![c] = startup[c]]
           \/ startup[c] = "pending" /\ startup' = [startup EXCEPT ![c] = "failed"]
    <3> HIDE DEF ProcessesOK, ProcessTypes
    <3> QED BY <1>4 DEF HearExit
  <2>4. ProcessTypes'
    BY <2>2, <2>3, EmptySeq
  <2>5. StartedInOrder'
    BY <2>3 DEF StartedInOrder
  <2>6. EndedOK'
    BY <2>1, <2>2, <2>3 DEF EndedOK
  <2>7. ASSUME NEW b \in Connectors PROVE ProcessOK(b)' /\ MainOK(b)'
    BY <2>1, <2>2, <2>3 DEF ProcessOK, MainOK, Lives
  <2> QED BY <2>4, <2>5, <2>6, <2>7
<1>5. CASE EventsSettled(c)
  <2>1. ProcessTypes' /\ StartedInOrder' /\ EndedOK'
    BY <1>5 DEF EventsSettled, childVars, StartedInOrder, EndedOK
  <2>2. ASSUME NEW b \in Connectors PROVE ProcessOK(b)' /\ MainOK(b)'
    BY <1>5 DEF EventsSettled, childVars, ProcessOK, MainOK, Lives
  <2> QED BY <2>1, <2>2
<1>6. CASE Turns(c)
  <2>1. ProcessTypes' /\ StartedInOrder' /\ EndedOK'
    BY <1>6 DEF Turns, Handled, childVars, StartedInOrder, EndedOK
  <2>2. ASSUME NEW b \in Connectors PROVE ProcessOK(b)' /\ MainOK(b)'
    BY <1>6 DEF Turns, Handled, childVars, ProcessOK, MainOK, Lives
  <2> QED BY <2>1, <2>2
<1>7. CASE HearError(c)
  <2>1. exit[c] \in {"pending", "waiting"} /\ exit' = [exit EXCEPT ![c] = "unsure"]
    BY <1>7 DEF HearError, Settled
  <2>2. /\ UNCHANGED <<main, why, child, signalled, chan, expected, inflight>>
        /\ c \in expected \/ (main = "starting" /\ startup[c] = "pending")
        /\ \/ startup' = [startup EXCEPT ![c] = startup[c]]
           \/ startup[c] = "pending" /\ startup' = [startup EXCEPT ![c] = "failed"]
    BY <1>7 DEF HearError, childVars
  <2>3. ProcessTypes'
    BY <2>1, <2>2
  <2>4. StartedInOrder'
    BY <2>2 DEF StartedInOrder
  <2>5. EndedOK'
    BY <2>1, <2>2 DEF EndedOK
  <2>6. ASSUME NEW b \in Connectors PROVE ProcessOK(b)' /\ MainOK(b)'
    BY <2>1, <2>2 DEF ProcessOK, MainOK, Lives
  <2> QED BY <2>3, <2>4, <2>5, <2>6
<1> QED BY <1>1, <1>2, <1>3, <1>4, <1>5, <1>6, <1>7

\* main() stops all connectors.
LEMMA StopKeeps ==
  ASSUME ProcessesOK, NEW reason \in Reason, Stop(reason),
         reason.by = "ended" => reason.of \in Connectors /\ exit[reason.of] = "ok"
  PROVE  ProcessesOK'
<1> USE DEF ProcessesOK, ProcessTypes
<1>1. ProcessTypes' /\ StartedInOrder'
  BY DEF Stop, Terminate, StartedInOrder
<1>2. EndedOK'
  BY DEF Stop, EndedOK, ProcessOK, MainOK
<1>3. ASSUME NEW b \in Connectors PROVE ProcessOK(b)' /\ MainOK(b)'
  BY DEF Stop, Terminate, ProcessOK, MainOK, Lives
<1> QED BY <1>1, <1>2, <1>3

\* main() stops because of a connector.
LEMMA EndKeeps ==
  ASSUME ProcessesOK, NEW c \in Connectors,
         AbortStart(c) \/ ConnectorEnds(c) \/ ConnectorFails(c)
  PROVE  ProcessesOK'
<1>1. CASE AbortStart(c)
  <2> USE DEF ProcessesOK, ProcessTypes
  <2>1. \A b \in Connectors : b # c => startup[b] \in {"none", "ok"}
    BY <1>1 DEF AbortStart, StartedInOrder, Connectors
  <2>2. ProcessTypes' /\ StartedInOrder'
    BY <1>1 DEF AbortStart, Terminate, Because, Reason, Connectors, StartedInOrder
  <2>3. EndedOK'
    BY <1>1 DEF AbortStart, EndedOK, Because
  <2>4. ASSUME NEW b \in Connectors PROVE ProcessOK(b)' /\ MainOK(b)'
    BY <1>1, <2>1 DEF AbortStart, Terminate, ProcessOK, MainOK, Lives
  <2> QED BY <2>2, <2>3, <2>4
<1>2. Because("ended", c) \in Reason /\ Because("failed", c) \in Reason
  BY LifecycleAssumption DEF Because, Reason, Connectors
<1>3. CASE ConnectorEnds(c) \/ ConnectorFails(c)
  BY <1>2, <1>3, StopKeeps DEF ConnectorEnds, ConnectorFails, Because
<1> QED BY <1>1, <1>3

LEMMA MainKeeps ==
  ASSUME ProcessesOK, Main \/ Die \/ Restart
  PROVE  ProcessesOK'
<1> USE DEF ProcessesOK, ProcessTypes
<1>1. CASE AbortOthers
  <2>1. ProcessTypes' /\ StartedInOrder' /\ EndedOK'
    BY <1>1 DEF AbortOthers, Terminate, StartedInOrder, EndedOK
  <2>2. ASSUME NEW b \in Connectors PROVE ProcessOK(b)' /\ MainOK(b)'
    BY <1>1 DEF AbortOthers, Terminate, ProcessOK, MainOK, Lives
  <2> QED BY <2>1, <2>2
<1>2. CASE Ready \/ Stopped \/ Exit \/ Die
  <2>1. ProcessTypes' /\ StartedInOrder' /\ EndedOK'
    BY <1>2 DEF Ready, Stopped, Exit, Die, childVars, upVars, StartedInOrder, EndedOK
  <2>2. ASSUME NEW b \in Connectors PROVE ProcessOK(b)' /\ MainOK(b)'
    BY <1>2 DEF Ready, Stopped, Exit, Die, childVars, upVars, ProcessOK, MainOK, Lives, Settled
  <2> QED BY <2>1, <2>2
<1>3. CASE Restart
  <2>1. <<>> \in Seq(Message) /\ <<>> \in Seq(Talk)
    BY EmptySeq
  <2>2. ProcessTypes'
    BY <1>3, <2>1, LifecycleAssumption DEF Restart, Each, Because, Reason
  <2>3. StartedInOrder' /\ EndedOK'
    BY <1>3 DEF Restart, Each, Because, StartedInOrder, EndedOK
  <2>4. ASSUME NEW b \in Connectors PROVE ProcessOK(b)' /\ MainOK(b)'
    BY <1>3, <2>1 DEF Restart, Each, ProcessOK, MainOK, Lives
  <2> QED BY <2>2, <2>3, <2>4
<1> QED BY <1>1, <1>2, <1>3 DEF Main

LEMMA ProcessesNext ==
  ASSUME ProcessesOK, PolledOK, [Next]_vars
  PROVE  ProcessesOK'
<1>1. ASSUME NEW c \in Connectors, OrphanEnds(c) PROVE UNCHANGED processes
  BY <1>1 DEF OrphanEnds, childVars, upVars, processes
<1>2. UNCHANGED vars => UNCHANGED processes
  BY DEF vars, childVars, upVars, processes
<1>3. CASE Signal
  BY <1>3, LifecycleAssumption, StopKeeps DEF Signal, Because, Reason
<1> QED BY <1>1, <1>2, <1>3, ProcessesFrame, ChildKeeps, ConnectorKeeps, EndKeeps, MainKeeps
     DEF Next, Parent

-----------------------------------------------------------------------------
(* The theorems *)

RestOK == faults \in 0..MaxFaults /\ orphans \subseteq Connectors

LEMMA RestNext ==
  ASSUME RestOK, [Next]_vars
  PROVE  RestOK'
<1>1. \A n \in 0..MaxFaults : n < MaxFaults => n + 1 \in 0..MaxFaults
  BY LifecycleAssumption
<1>2. Fault => faults' \in 0..MaxFaults
  BY <1>1 DEF Fault, RestOK
<1>3. ASSUME NEW c \in Connectors, Child(c) PROVE RestOK'
  BY <1>2, <1>3 DEF Child, Import, Probe, Fail, Resolve, PollTimesOut, Obey, ReadLine, Poll, PollFails,
       Asks, Take, RestOK
<1>4. ASSUME NEW c \in Connectors, Parent(c) \/ HearError(c) PROVE RestOK'
  BY <1>2, <1>4 DEF Parent, HearError, Start, StartupTimeout, Hear, HearExit, EventsSettled, Kill, AbortStart,
       ConnectorEnds, ConnectorFails, Stop, RestOK
<1>5. ASSUME NEW c \in Connectors, Turns(c) \/ OrphanEnds(c) PROVE RestOK'
  BY <1>5 DEF Turns, Handled, OrphanEnds, RestOK
<1>6. ASSUME Main \/ Signal \/ Die \/ Restart \/ UNCHANGED vars PROVE RestOK'
  BY <1>2, <1>6 DEF Main, AbortOthers, Ready, Stopped, Exit, Signal, Stop, Die, Restart, vars, RestOK
<1> QED BY <1>3, <1>4, <1>5, <1>6 DEF Next

\* What is true in every state: of updates, of processes, and of the counters.
IInv == PolledOK /\ ProcessesOK /\ RestOK

LEMMA Invariant == Spec => []IInv
<1>1. Init => IInv
  <2>1. Init => RestOK
    BY LifecycleAssumption DEF Init, RestOK
  <2> QED BY <2>1, PolledInit, ProcessesInit DEF IInv
<1>2. IInv /\ [Next]_vars => IInv'
  BY PolledNext, ProcessesNext, RestNext DEF IInv
<1> QED BY <1>1, <1>2, PTL DEF Spec

\* In every reachable state the variables have their types, for any number of
\* connectors and events (runtime-runner.ts, main and startConnector).
THEOREM TypeCorrect == Spec => []TypeOK
<1>1. IInv => TypeOK
  <2> SUFFICES ASSUME IInv PROVE TypeOK
    OBVIOUS
  <2>1. \A c \in Connectors : c \in signalled => child[c] # "none"
    BY DEF IInv, ProcessesOK, ProcessOK
  <2>2. emitted \in [Connectors -> [Updates -> 0..MaxRuns]]
    <3>1. \A c \in Connectors : \A u \in Updates : emitted[c][u] \in 0..MaxRuns
      <4> SUFFICES ASSUME NEW c \in Connectors, NEW u \in Updates PROVE emitted[c][u] \in 0..MaxRuns
        OBVIOUS
      <4>1. emitted[c][u] \in Nat /\ run \in 1..MaxRuns /\ emitted[c][u] <= run
        BY DEF IInv, PolledOK, PolledTypes, EmittedBefore
      <4> QED BY <4>1, LifecycleAssumption
    <3> QED BY <3>1 DEF IInv, PolledOK, PolledTypes
  <2> QED BY <2>1, <2>2 DEF IInv, PolledOK, PolledTypes, ProcessesOK, ProcessTypes, RestOK, TypeOK
<1> QED BY <1>1, Invariant, PTL

\* A runner that exits by itself leaves no connector process, whatever failed,
\* hung or was signalled before (stopConnectors, startConnectors), but for one
\* that it could not write to or signal (onError).
THEOREM NoChildIsLeft == Spec => []ExitLeavesNoChild
<1>1. IInv => ExitLeavesNoChild
  BY DEF IInv, ProcessesOK, MainOK, ExitLeavesNoChild
<1> QED BY <1>1, Invariant, PTL

\* A runner that stops because the input of a connector ended has handled all of
\* its events (onExit, inflightEvents).
THEOREM EndedWasHandled == Spec => []EndedIsHandled
<1>1. IInv => EndedIsHandled
  BY DEF IInv, ProcessesOK, EndedOK, EndedIsHandled
<1> QED BY <1>1, Invariant, PTL

\* Telegram is told that an update was received only when its event was emitted,
\* and no runner gets an update twice, over any failures and restarts.
THEOREM UpdatesWereEmitted == Spec => []UpdatesAreEmitted
<1>1. IInv => ConfirmedWasEmitted
  <2> SUFFICES ASSUME IInv, NEW c \in Pollers, NEW u \in Updates \ Ignored, u <= confirmed[c]
               PROVE  emitted[c][u] > 0
    BY DEF ConfirmedWasEmitted
  <2>1. c \in Connectors
    BY LifecycleAssumption DEF Connectors
  <2> QED BY <2>1 DEF IInv, PolledOK, PassedWasEmitted
<1>2. IInv => EmittedOncePerRun
  BY DEF IInv, PolledOK, EmittedBefore, EmittedOncePerRun
<1> QED BY <1>1, <1>2, Invariant, TypeCorrect, PTL DEF UpdatesAreEmitted

=============================================================================
