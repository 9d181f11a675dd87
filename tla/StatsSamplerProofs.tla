-------------------------- MODULE StatsSamplerProofs --------------------------
(***************************************************************************)
(* Proofs about the stats sampler for any number of subscribers, request   *)
(* threads and samples, and any limits: its types, that the thread runs    *)
(* exactly while it should, how subscriptions end, that a sample is sent   *)
(* once, and that the newest one arrives.                                  *)
(***************************************************************************)
EXTENDS StatsSampler, FiniteSetTheorems, TLAPS

-----------------------------------------------------------------------------
(* Types *)

\* A full queue stays within its limit when a sample is added.
LEMMA EnqueuedFits ==
  ASSUME NEW queue \in Seq(Sample \cup {End}), Len(queue) <= QueueLimit,
         NEW sample \in Sample \cup {End}
  PROVE  /\ Enqueued(queue, sample) \in Seq(Sample \cup {End})
         /\ Len(Enqueued(queue, sample)) <= QueueLimit
<1>1. CASE Len(queue) < QueueLimit
  BY <1>1, SamplerAssumption DEF Enqueued
<1>2. CASE ~(Len(queue) < QueueLimit)
  <2>1. queue # <<>> /\ Len(queue) = QueueLimit
    BY <1>2, SamplerAssumption
  <2>2. Tail(queue) \in Seq(Sample \cup {End}) /\ Len(Tail(queue)) = QueueLimit - 1
    BY <2>1
  <2> QED BY <1>2, <2>2, SamplerAssumption DEF Enqueued
<1> QED BY <1>1, <1>2

\* What a recording thread still has to publish is a sample.
LEMMA JobType ==
  ASSUME NEW n \in Sample \cup {End}, NEW to \in SUBSET Sub
  PROVE  Job(n, to) \in [sample : Sample \cup {End}, to : SUBSET Sub]
BY DEF Job

\* The thread that starts is one that had ended.
LEMMA StartLockedType ==
  ASSUME TypeOK, OneSampler, StartLocked
  PROVE  /\ stop' = FALSE /\ thread' \in Thread
         /\ pc' \in [Thread -> {"dead", "loop", "look", "stats", "publish", "final"}]
         /\ \A t \in Thread : pc'[t] # "dead" => thread' = t
<1>1. CASE thread # None
  BY <1>1 DEF TypeOK, OneSampler, StartLocked
<1>2. CASE thread = None
  <2> DEFINE t == CHOOSE t \in Thread : pc[t] = "dead"
  <2>1. \E q \in Thread : pc[q] = "dead"
    BY <1>2, SamplerAssumption DEF OneSampler
  <2>2. t \in Thread
    BY <2>1
  <2>3. stop' = FALSE /\ thread' = t /\ pc' = [pc EXCEPT ![t] = "loop"]
    BY <1>2 DEF StartLocked
  <2>4. \A q \in Thread : pc[q] = "dead"
    BY <1>2, SamplerAssumption DEF OneSampler
  <2> HIDE DEF t
  <2> QED BY <2>2, <2>3, <2>4 DEF TypeOK
<1> QED BY <1>1, <1>2

\* The state that the steps of the thread, and of those who subscribe, share
SamplerInv == TypeOK /\ OneSampler /\ (closed => subs = {})

\* A sampler thread goes on.
LEMMA ThreadStep ==
  ASSUME SamplerInv, NEW t \in Thread,
         Loop(t) \/ Look(t) \/ TakeSample(t) \/ Waited(t) \/ Final(t)
  PROVE  SamplerInv'
<1> USE DEF SamplerInv
<1>1. CASE Loop(t)
  BY <1>1 DEF Loop, Goto, Delivery, TypeOK, OneSampler
<1>2. CASE Look(t)
  BY <1>2 DEF Look, Goto, Delivery, TypeOK, OneSampler
<1>3. CASE TakeSample(t)
  <2>1. sequence' \in Sample /\ latest' \in Sample
    BY <1>3, SamplerAssumption DEF TakeSample, Recorded, TypeOK, Sample
  <2>2. sequence' \in 0..MaxSample /\ latest' \in 0..MaxSample
    BY <2>1, SamplerAssumption DEF Sample
  <2>3. job' \in [Recorder -> [sample : Sample \cup {End}, to : SUBSET Sub]]
    BY <1>3, <2>1, JobType DEF TakeSample, Recorded, TypeOK
  <2> QED BY <1>3, <2>2, <2>3 DEF TakeSample, Recorded, Goto, Delivery, TypeOK, OneSampler
<1>4. CASE Waited(t)
  BY <1>4 DEF Waited, Goto, Delivery, TypeOK, OneSampler
<1>5. CASE Final(t)
  BY <1>5 DEF Final, Goto, Delivery, TypeOK, OneSampler
<1> QED BY <1>1, <1>2, <1>3, <1>4, <1>5

\* A recording thread, the sampler's or a request's, records and publishes.
LEMMA RecorderStep ==
  ASSUME SamplerInv, NEW r \in Recorder, RequestSample(r) \/ Publish(r) \/ Discard(r)
  PROVE  SamplerInv'
<1> USE DEF SamplerInv
<1>1. CASE RequestSample(r)
  <2>1. sequence' \in Sample /\ latest' \in Sample
    BY <1>1, SamplerAssumption DEF RequestSample, Recorded, TypeOK, Sample
  <2>2. sequence' \in 0..MaxSample /\ latest' \in 0..MaxSample
    BY <2>1, SamplerAssumption DEF Sample
  <2>3. job' \in [Recorder -> [sample : Sample \cup {End}, to : SUBSET Sub]]
    BY <1>1, <2>1, JobType DEF RequestSample, Recorded, TypeOK
  <2> QED BY <1>1, <2>2, <2>3 DEF RequestSample, Recorded, Delivery, TypeOK, OneSampler
<1>2. job[r].sample \in Sample \cup {End} /\ job[r].to \in SUBSET Sub
  BY DEF TypeOK
<1>3. CASE Publish(r)
  <2>1. PICK s \in job[r].to :
          /\ ready' = [ready EXCEPT ![s] = Append(@, job[r].sample)]
          /\ job' = [job EXCEPT ![r] = Job(@.sample, @.to \ {s})]
    BY <1>3 DEF Publish
  <2>2. job' \in [Recorder -> [sample : Sample \cup {End}, to : SUBSET Sub]]
    BY <1>2, <2>1, JobType DEF TypeOK
  <2>3. ready' \in [Sub -> Seq(Sample \cup {End})]
    BY <1>2, <2>1 DEF TypeOK
  <2> QED BY <1>3, <2>2, <2>3 DEF Publish, Delivery, TypeOK, OneSampler
<1>4. CASE Discard(r)
  <2>1. PICK s \in job[r].to :
          /\ job' = [job EXCEPT ![r] = Job(@.sample, @.to \ {s})]
          /\ subs' = subs \ {s} /\ stop' = (stop \/ subs' = {})
          /\ shut' = [shut EXCEPT ![s] = TRUE]
    BY <1>4 DEF Discard
  <2>2. job' \in [Recorder -> [sample : Sample \cup {End}, to : SUBSET Sub]]
    BY <1>2, <2>1, JobType DEF TypeOK
  <2> QED BY <1>2, <1>4, <2>1, <2>2 DEF Discard, TypeOK, OneSampler
<1> QED BY <1>1, <1>3, <1>4

\* Subscriptions come and go.
LEMMA SubscriptionStep ==
  ASSUME SamplerInv,
         \/ \E s \in Sub : Subscribe(s) \/ Unsubscribe(s) \/ CloseSubscriber(s)
         \/ Start \/ Close \/ ResetHistory
  PROVE  SamplerInv'
<1> USE DEF SamplerInv
<1>0. 0 \in 0..MaxSample /\ \A n \in 0..MaxSample : n # 0 => n \in Sample
  BY SamplerAssumption DEF Sample
<1>1. ASSUME NEW s \in Sub, Subscribe(s)
      PROVE  SamplerInv'
  <2>1. /\ stop' = FALSE /\ thread' \in Thread
        /\ pc' \in [Thread -> {"dead", "loop", "look", "stats", "publish", "final"}]
        /\ \A t \in Thread : pc'[t] # "dead" => thread' = t
    BY <1>1, StartLockedType DEF Subscribe
  <2> DEFINE first == IF latest # 0 THEN <<latest>> ELSE <<>>
  <2>2. first \in Seq(Sample \cup {End}) /\ Len(first) <= QueueLimit
    <3>1. CASE latest = 0
      <4>1. first = <<>> /\ Len(first) = 0
        BY <3>1
      <4> QED BY <4>1, SamplerAssumption
    <3>2. CASE latest # 0
      <4>1. latest \in Sample \cup {End}
        BY <1>0, <3>2 DEF TypeOK
      <4>2. first = <<latest>> /\ Len(first) = 1
        BY <3>2
      <4> HIDE DEF first
      <4> QED BY <4>1, <4>2, SamplerAssumption
    <3> QED BY <3>1, <3>2
  <2>3. events' = [events EXCEPT ![s] = first]
    BY <1>1 DEF Subscribe
  <2> HIDE DEF first
  <2>4. /\ events' \in [Sub -> Seq(Sample \cup {End})]
        /\ \A q \in Sub : Len(events'[q]) <= QueueLimit
    BY <2>2, <2>3 DEF TypeOK
  <2> QED BY <1>1, <2>1, <2>4, SamplerAssumption DEF Subscribe, TypeOK, OneSampler
<1>2. ASSUME NEW s \in Sub, Unsubscribe(s)
      PROVE  SamplerInv'
  <2>1. <<End>> \in Seq(Sample \cup {End}) /\ Len(<<End>>) <= QueueLimit
    BY SamplerAssumption
  <2>2. events' = [events EXCEPT ![s] = <<End>>]
    BY <1>2 DEF Unsubscribe
  <2>3. /\ events' \in [Sub -> Seq(Sample \cup {End})]
        /\ \A q \in Sub : Len(events'[q]) <= QueueLimit
    BY <2>1, <2>2 DEF TypeOK
  <2> QED BY <1>2, <2>3 DEF Unsubscribe, TypeOK, OneSampler
<1>3. ASSUME NEW s \in Sub, CloseSubscriber(s)
      PROVE  SamplerInv'
  <2>1. ready' \in [Sub -> Seq(Sample \cup {End})]
    BY <1>3 DEF CloseSubscriber, TypeOK
  <2> QED BY <1>3, <2>1 DEF CloseSubscriber, TypeOK, OneSampler
<1>4. CASE Start
  <2>1. /\ stop' = FALSE /\ thread' \in Thread
        /\ pc' \in [Thread -> {"dead", "loop", "look", "stats", "publish", "final"}]
        /\ \A t \in Thread : pc'[t] # "dead" => thread' = t
    BY <1>4, StartLockedType DEF Start
  <2> QED BY <1>4, <2>1, SamplerAssumption DEF Start, Delivery, TypeOK, OneSampler
<1>5. CASE Close
  BY <1>5 DEF Close, Delivery, TypeOK, OneSampler
<1>6. CASE ResetHistory
  BY <1>0, <1>6 DEF ResetHistory, Delivery, TypeOK, OneSampler
<1> QED BY <1>1, <1>2, <1>3, <1>4, <1>5, <1>6

\* The event loop turns.
LEMMA LoopStep ==
  ASSUME SamplerInv, (\E s \in Sub : RunCall(s) \/ Anext(s) \/ Heartbeat(s)) \/ LoopCloses
  PROVE  SamplerInv'
<1> USE DEF SamplerInv
<1>1. ASSUME NEW s \in Sub, RunCall(s)
      PROVE  SamplerInv'
  <2>1. ready[s] \in Seq(Sample \cup {End}) /\ ready[s] # <<>> /\ events[s] \in Seq(Sample \cup {End})
    BY <1>1 DEF RunCall, TypeOK
  <2>2. Head(ready[s]) \in Sample \cup {End} /\ Tail(ready[s]) \in Seq(Sample \cup {End})
    BY <2>1
  <2> DEFINE queue == IF Head(ready[s]) = End THEN <<End>>
                      ELSE IF shut[s] THEN events[s] ELSE Enqueued(events[s], Head(ready[s]))
  <2>3. queue \in Seq(Sample \cup {End}) /\ Len(queue) <= QueueLimit
    <3>1. <<End>> \in Seq(Sample \cup {End}) /\ Len(<<End>>) <= QueueLimit
      BY SamplerAssumption
    <3> QED BY <2>1, <2>2, <3>1, EnqueuedFits DEF TypeOK
  <2>4. events' = [events EXCEPT ![s] = queue] /\ ready' = [ready EXCEPT ![s] = Tail(ready[s])]
    BY <1>1 DEF RunCall
  <2> HIDE DEF queue
  <2>5. /\ events' \in [Sub -> Seq(Sample \cup {End})]
        /\ \A q \in Sub : Len(events'[q]) <= QueueLimit
        /\ ready' \in [Sub -> Seq(Sample \cup {End})]
    BY <2>2, <2>3, <2>4 DEF TypeOK
  <2> QED BY <1>1, <2>5 DEF RunCall, Upstream, TypeOK, OneSampler
<1>2. ASSUME NEW s \in Sub, Anext(s)
      PROVE  SamplerInv'
  <2>1. CASE Ends(s)
    <3>1. <<>> \in Seq(Sample \cup {End}) /\ Len(<<>>) <= QueueLimit
      BY SamplerAssumption
    <3>2. /\ events' \in [Sub -> Seq(Sample \cup {End})]
          /\ \A q \in Sub : Len(events'[q]) <= QueueLimit
      BY <2>1, <3>1 DEF Ends, TypeOK
    <3> QED BY <1>2, <2>1, <3>2 DEF Anext, Ends, Upstream, TypeOK, OneSampler
  <2>2. CASE events[s] # <<>> /\ Head(events[s]) # End /\ Sends(s)
    <3>1. events[s] \in Seq(Sample \cup {End}) /\ Len(events[s]) <= QueueLimit
      BY DEF TypeOK
    <3>2. Head(events[s]) \in Sample
      BY <2>2, <3>1
    <3>3. Tail(events[s]) \in Seq(Sample \cup {End}) /\ Len(Tail(events[s])) <= QueueLimit
      BY <2>2, <3>1, SamplerAssumption
    <3>4. /\ events' \in [Sub -> Seq(Sample \cup {End})]
          /\ \A q \in Sub : Len(events'[q]) <= QueueLimit
      BY <2>2, <3>3 DEF Sends, TypeOK
    <3> QED BY <1>2, <2>2, <3>2, <3>4 DEF Anext, Sends, Upstream, TypeOK, OneSampler
  <2>3. CASE UNCHANGED <<events, got>> /\ consumer' = [consumer EXCEPT ![s] = "blocked"]
    BY <1>2, <2>3 DEF Anext, Upstream, TypeOK, OneSampler
  <2> QED BY <1>2, <2>1, <2>2, <2>3 DEF Anext
<1>3. ASSUME NEW s \in Sub, Heartbeat(s)
      PROVE  SamplerInv'
  BY <1>3 DEF Heartbeat, Upstream, TypeOK, OneSampler
<1>4. CASE LoopCloses
  <2>1. <<>> \in Seq(Sample \cup {End}) /\ Len(<<>>) <= QueueLimit
    BY SamplerAssumption
  <2>2. /\ events' \in [Sub -> Seq(Sample \cup {End})]
        /\ \A q \in Sub : Len(events'[q]) <= QueueLimit
        /\ ready' \in [Sub -> Seq(Sample \cup {End})]
    BY <1>4, <2>1 DEF LoopCloses
  <2> QED BY <1>4, <2>2 DEF LoopCloses, TypeOK, OneSampler
<1> QED BY <1>1, <1>2, <1>3, <1>4

\* The steps there are, sorted by who takes them
LEMMA NextCases ==
  ASSUME Next
  PROVE  \/ \E t \in Thread : Loop(t) \/ Look(t) \/ TakeSample(t) \/ Waited(t) \/ Final(t)
         \/ \E r \in Recorder : RequestSample(r) \/ Publish(r) \/ Discard(r)
         \/ \E s \in Sub : Subscribe(s) \/ Unsubscribe(s) \/ CloseSubscriber(s)
         \/ Start \/ Close \/ ResetHistory
         \/ \E s \in Sub : RunCall(s) \/ Anext(s) \/ Heartbeat(s)
         \/ LoopCloses
BY DEF Next, Steps, Recorder

\* The inductive invariant of the sampler
LEMMA Invariant == Spec => []SamplerInv
<1>1. Init => SamplerInv
  <2> SUFFICES ASSUME Init PROVE SamplerInv
    OBVIOUS
  <2>1. <<>> \in Seq(Sample \cup {End}) /\ Len(<<>>) <= QueueLimit /\ 0 \in 0..MaxSample
    BY SamplerAssumption
  <2>2. NoJob \in [sample : Sample \cup {End}, to : SUBSET Sub]
    BY JobType DEF NoJob
  <2> QED BY <2>1, <2>2 DEF Init, SamplerInv, TypeOK, OneSampler
<1>2. SamplerInv /\ [Next]_vars => SamplerInv'
  <2> SUFFICES ASSUME SamplerInv, [Next]_vars PROVE SamplerInv'
    OBVIOUS
  <2>1. CASE Next
    BY <2>1, NextCases, ThreadStep, RecorderStep, SubscriptionStep, LoopStep
  <2>2. CASE UNCHANGED vars
    BY <2>2 DEF vars, SamplerInv, TypeOK, OneSampler
  <2> QED BY <2>1, <2>2
<1> QED BY <1>1, <1>2, PTL DEF Spec

\* The sampler's state keeps its types, and no queue outgrows its limit.
THEOREM SamplerTyped == Spec => []TypeOK
<1>1. SamplerInv => TypeOK
  BY DEF SamplerInv
<1> QED BY <1>1, Invariant, PTL

\* However subscribers come and go while the thread is ending, it runs for whoever is there,
\* and never twice (_run's finally clause, _start_locked, unsubscribe).
THEOREM SamplerRuns == Spec => []OneSampler
<1>1. SamplerInv => OneSampler
  BY DEF SamplerInv
<1> QED BY <1>1, Invariant, PTL

-----------------------------------------------------------------------------
(* How subscriptions end *)

\* Only the loop that takes an event for a stream adds to what the stream was sent.
THEOREM ClosedStaysSilent == Spec => ClosedIsSilent
<1>1. SamplerInv /\ [Next]_vars => [\A s \in Sub : shut[s] => got'[s] \subseteq got[s]]_vars
  <2> SUFFICES ASSUME SamplerInv, Next, NEW s \in Sub, shut[s]
               PROVE  got'[s] \subseteq got[s]
    BY DEF vars
  <2>0. got \in [Sub -> SUBSET Sample]
    BY DEF SamplerInv, TypeOK
  <2>1. CASE UNCHANGED got
    BY <2>1
  <2>2. ASSUME NEW q \in Sub, Anext(q)
        PROVE  got'[s] \subseteq got[s]
    <3>1. CASE Ends(q)
      BY <2>0, <3>1 DEF Ends
    <3>2. CASE q # s /\ Sends(q)
      BY <2>0, <3>2 DEF Sends
    <3> QED BY <2>1, <2>2, <3>1, <3>2 DEF Anext
  <2>3. CASE LoopCloses
    BY <2>0, <2>3 DEF LoopCloses
  <2>4. ASSUME NEW q \in Sub,
               \/ Subscribe(q) \/ Unsubscribe(q) \/ CloseSubscriber(q) \/ RunCall(q) \/ Heartbeat(q)
        PROVE  UNCHANGED got
    BY <2>4 DEF Subscribe, Unsubscribe, CloseSubscriber, RunCall, Heartbeat, Upstream
  <2>5. ASSUME NEW t \in Thread, Loop(t) \/ Look(t) \/ TakeSample(t) \/ Waited(t) \/ Final(t)
        PROVE  UNCHANGED got
    BY <2>5 DEF Loop, Look, TakeSample, Waited, Final, Delivery
  <2>6. ASSUME NEW r \in Recorder, RequestSample(r) \/ Publish(r) \/ Discard(r)
        PROVE  UNCHANGED got
    BY <2>6 DEF RequestSample, Publish, Discard, Delivery
  <2>7. ASSUME Start \/ Close \/ ResetHistory
        PROVE  UNCHANGED got
    BY <2>7 DEF Start, Close, ResetHistory, Delivery
  <2> QED BY <2>1, <2>2, <2>3, <2>4, <2>5, <2>6, <2>7, NextCases
<1> QED BY <1>1, Invariant, PTL DEF Spec, ClosedIsSilent

\* A call that is queued is still queued when another one comes behind it.
LEMMA AppendKeeps ==
  ASSUME NEW queue \in Seq(Sample \cup {End}), NEW x \in Sample \cup {End}
  PROVE  (x = End \/ \E i \in DOMAIN queue : queue[i] = End)
         => \E i \in DOMAIN Append(queue, x) : Append(queue, x)[i] = End
<1>1. /\ Len(queue) \in Nat /\ DOMAIN queue = 1..Len(queue)
      /\ DOMAIN Append(queue, x) = 1..(Len(queue) + 1)
  OBVIOUS
<1>2. \A i \in 1..Len(queue) : Append(queue, x)[i] = queue[i]
  OBVIOUS
<1>3. Append(queue, x)[Len(queue) + 1] = x
  OBVIOUS
<1> DEFINE longer == Append(queue, x)
<1>4. ASSUME x = End
      PROVE  \E i \in DOMAIN longer : longer[i] = End
  <2>1. Len(queue) + 1 \in DOMAIN longer
    BY <1>1
  <2> QED BY <1>3, <1>4, <2>1
<1>5. ASSUME NEW i \in DOMAIN queue, queue[i] = End
      PROVE  \E j \in DOMAIN longer : longer[j] = End
  <2>1. i \in DOMAIN longer /\ longer[i] = End
    BY <1>1, <1>2, <1>5
  <2> QED BY <2>1
<1> QED BY <1>4, <1>5

\* It is still queued when one before it has been run.
LEMMA TailKeeps ==
  ASSUME NEW queue \in Seq(Sample \cup {End}), queue # <<>>, Head(queue) # End,
         \E i \in DOMAIN queue : queue[i] = End
  PROVE  \E i \in DOMAIN Tail(queue) : Tail(queue)[i] = End
<1>1. PICK i \in 1..Len(queue) : queue[i] = End
  OBVIOUS
<1>2. i # 1
  BY <1>1
<1>3. i - 1 \in 1..Len(Tail(queue)) /\ Tail(queue)[i - 1] = queue[i]
  BY <1>1, <1>2
<1>4. DOMAIN Tail(queue) = 1..Len(Tail(queue))
  OBVIOUS
<1> DEFINE shorter == Tail(queue)
<1>5. i - 1 \in DOMAIN shorter /\ shorter[i - 1] = End
  BY <1>1, <1>3, <1>4
<1> HIDE DEF shorter
<1>6. \E j \in DOMAIN shorter : shorter[j] = End
  BY <1>5
<1> QED BY <1>6 DEF shorter

\* Who closes a subscription wakes its stream, or leaves the call that will on the event loop,
\* where only its being run removes it (_close_subscriber, _signal_closed).
THEOREM ClosedIsWoken == Spec => []ClosedWakes
<1>1. Init => ClosedWakes
  BY DEF Init, ClosedWakes
<1>2. SamplerInv /\ ClosedWakes /\ [Next]_vars => ClosedWakes'
  <2> SUFFICES ASSUME SamplerInv, ClosedWakes, [Next]_vars, NEW s \in Sub,
                      open', shut'[s], consumer'[s] = "blocked"
               PROVE  events'[s] # <<>> \/ \E i \in DOMAIN ready'[s] : ready'[s][i] = End
    BY DEF ClosedWakes
  <2>0. /\ ready[s] \in Seq(Sample \cup {End}) /\ ready \in [Sub -> Seq(Sample \cup {End})]
        /\ shut \in [Sub -> BOOLEAN] /\ consumer \in [Sub -> {"new", "next", "blocked", "done"}]
        /\ events \in [Sub -> Seq(Sample \cup {End})]
    BY DEF SamplerInv, TypeOK
  <2>w. open /\ shut[s] /\ consumer[s] = "blocked"
        => events[s] # <<>> \/ \E i \in DOMAIN ready[s] : ready[s][i] = End
    BY DEF ClosedWakes
  <2>1. CASE UNCHANGED <<open, shut, consumer, events, ready>>
    BY <2>1, <2>w
  <2>2. ASSUME NEW t \in Thread, Loop(t) \/ Look(t) \/ TakeSample(t) \/ Waited(t) \/ Final(t)
        PROVE  UNCHANGED <<open, shut, consumer, events, ready>>
    BY <2>2 DEF Loop, Look, TakeSample, Waited, Final, Delivery
  <2>3. ASSUME NEW r \in Recorder, RequestSample(r)
        PROVE  UNCHANGED <<open, shut, consumer, events, ready>>
    BY <2>3 DEF RequestSample, Delivery
  <2>4. ASSUME Start \/ Close \/ ResetHistory
        PROVE  UNCHANGED <<open, shut, consumer, events, ready>>
    BY <2>4 DEF Start, Close, ResetHistory, Delivery
  <2>5. ASSUME NEW r \in Recorder, Publish(r)
        PROVE  events'[s] # <<>> \/ \E i \in DOMAIN ready'[s] : ready'[s][i] = End
    <3>1. UNCHANGED <<open, shut, consumer, events>>
      BY <2>5 DEF Publish, Delivery
    <3>2. PICK q \in job[r].to : ready' = [ready EXCEPT ![q] = Append(@, job[r].sample)]
      BY <2>5 DEF Publish
    <3>3. job[r].sample \in Sample \cup {End}
      BY DEF SamplerInv, TypeOK
    <3>4. ready'[s] = ready[s] \/ ready'[s] = Append(ready[s], job[r].sample)
      BY <2>0, <3>2
    <3> QED BY <2>0, <2>w, <3>1, <3>3, <3>4, AppendKeeps
  <2>6. ASSUME NEW r \in Recorder, Discard(r)
        PROVE  FALSE
    BY <2>6 DEF Discard
  <2>7. ASSUME NEW q \in Sub, Subscribe(q)
        PROVE  events'[s] # <<>> \/ \E i \in DOMAIN ready'[s] : ready'[s][i] = End
    <3>1. q # s
      BY <2>0, <2>7 DEF Subscribe
    <3> QED BY <2>0, <2>w, <2>7, <3>1 DEF Subscribe
  <2>8. ASSUME NEW q \in Sub, Unsubscribe(q)
        PROVE  events'[s] # <<>> \/ \E i \in DOMAIN ready'[s] : ready'[s][i] = End
    BY <2>0, <2>w, <2>8 DEF Unsubscribe
  <2>9. ASSUME NEW q \in Sub, CloseSubscriber(q)
        PROVE  events'[s] # <<>> \/ \E i \in DOMAIN ready'[s] : ready'[s][i] = End
    <3>1. CASE q # s \/ shut[q]
      BY <2>0, <2>w, <2>9, <3>1 DEF CloseSubscriber
    <3>2. CASE q = s /\ ~shut[s]
      <4>1. ready'[s] = Append(ready[s], End)
        BY <2>0, <2>9, <3>2 DEF CloseSubscriber
      <4>2. End \in Sample \cup {End} /\ End = End
        OBVIOUS
      <4>3. \E i \in DOMAIN Append(ready[s], End) : Append(ready[s], End)[i] = End
        BY <2>0, <4>2, AppendKeeps
      <4> QED BY <4>1, <4>3
    <3> QED BY <3>1, <3>2
  <2>10. ASSUME NEW q \in Sub, RunCall(q)
         PROVE  events'[s] # <<>> \/ \E i \in DOMAIN ready'[s] : ready'[s][i] = End
    <3>1. UNCHANGED <<open, shut, consumer>>
      BY <2>10 DEF RunCall, Upstream
    <3>2. CASE q # s
      BY <2>0, <2>w, <2>10, <3>1, <3>2 DEF RunCall
    <3>3. CASE q = s /\ Head(ready[s]) = End
      BY <2>0, <2>10, <3>3 DEF RunCall
    <3>4. CASE q = s /\ Head(ready[s]) # End
      <4>1. events'[s] = events[s] /\ ready'[s] = Tail(ready[s]) /\ ready[s] # <<>>
        BY <2>0, <2>10, <3>1, <3>4 DEF RunCall
      <4> QED BY <2>0, <2>w, <3>1, <3>4, <4>1, TailKeeps
    <3> QED BY <3>2, <3>3, <3>4
  <2>11. ASSUME NEW q \in Sub, Anext(q) \/ Heartbeat(q)
         PROVE  events'[s] # <<>> \/ \E i \in DOMAIN ready'[s] : ready'[s][i] = End
    <3>1. UNCHANGED <<open, shut, ready>>
      BY <2>11 DEF Anext, Heartbeat, Upstream
    <3>2. CASE q # s
      BY <2>0, <2>w, <2>11, <3>1, <3>2 DEF Anext, Heartbeat, Ends, Sends
    <3>3. CASE q = s
      BY <2>0, <2>11, <3>1, <3>3 DEF Anext, Heartbeat, Ends, Sends
    <3> QED BY <3>2, <3>3
  <2>12. CASE LoopCloses
    BY <2>12 DEF LoopCloses
  <2>13. CASE UNCHANGED vars
    BY <2>1, <2>13 DEF vars
  <2> QED BY <2>1, <2>2, <2>3, <2>4, <2>5, <2>6, <2>7, <2>8, <2>9, <2>10, <2>11, <2>12, <2>13,
             NextCases
<1> QED BY <1>1, <1>2, Invariant, PTL DEF Spec
-----------------------------------------------------------------------------
(* What is on its way to a subscription *)

\* What is in a queue; a call that closes the subscription may be in it twice, a sample not.
Members(queue)  == {queue[i] : i \in DOMAIN queue}
Distinct(queue) == \A i, j \in DOMAIN queue : i # j /\ queue[i] # End => queue[i] # queue[j]

\* A sample is in one place on its way to a subscription, and was not sent before.
Once(s) ==
  /\ consumer[s] = "new" => /\ s \notin subs \cup leaving
                            /\ ready[s] = <<>> /\ events[s] = <<>> /\ got[s] = {}
                            /\ \A r \in Recorder : s \notin job[r].to
  /\ got[s] \cup Members(events[s]) \cup Members(ready[s]) \subseteq 0..sequence
  /\ \A r, q \in Recorder : r # q /\ s \in job[r].to /\ s \in job[q].to
                            => job[r].sample # job[q].sample
  /\ \A r \in Recorder : s \in job[r].to
                         => job[r].sample \notin got[s] \cup Members(events[s])
                                                 \cup Members(ready[s])
  /\ Members(ready[s]) \cap (got[s] \cup Members(events[s])) \subseteq {End}
  /\ got[s] \cap Members(events[s]) \subseteq {End}
  /\ Distinct(ready[s]) /\ Distinct(events[s])

OnceInv ==
  /\ latest <= sequence
  /\ \A r \in Recorder : job[r].to # {} => job[r].sample \in 1..sequence
  /\ \A s \in Sub : Once(s)

\* A call behind the others
LEMMA AppendParts ==
  ASSUME NEW queue \in Seq(Sample \cup {End}), NEW x \in Sample \cup {End}
  PROVE  /\ Append(queue, x) \in Seq(Sample \cup {End})
         /\ Len(queue) \in Nat /\ Len(Append(queue, x)) = Len(queue) + 1
         /\ \A i \in DOMAIN queue : i \in DOMAIN Append(queue, x) /\ Append(queue, x)[i] = queue[i]
         /\ Len(queue) + 1 \in DOMAIN Append(queue, x) /\ Append(queue, x)[Len(queue) + 1] = x
         /\ Members(Append(queue, x)) = Members(queue) \cup {x}
         /\ (x = End \/ x \notin Members(queue)) /\ Distinct(queue) => Distinct(Append(queue, x))
<1> DEFINE longer == Append(queue, x)
<1>1. /\ Len(queue) \in Nat /\ DOMAIN queue = 1..Len(queue)
      /\ Len(longer) = Len(queue) + 1 /\ DOMAIN longer = 1..(Len(queue) + 1)
      /\ longer \in Seq(Sample \cup {End})
  OBVIOUS
<1>2. \A i \in 1..Len(queue) : longer[i] = queue[i]
  OBVIOUS
<1>3. longer[Len(queue) + 1] = x
  OBVIOUS
<1> HIDE DEF longer
<1>4. \A i \in DOMAIN queue : i \in DOMAIN longer /\ longer[i] = queue[i]
  BY <1>1, <1>2
<1>5. Len(queue) + 1 \in DOMAIN longer
  BY <1>1
<1>6. \A i \in DOMAIN longer : i \in DOMAIN queue \/ i = Len(queue) + 1
  BY <1>1
<1>7. Members(longer) = Members(queue) \cup {x}
  BY <1>3, <1>4, <1>5, <1>6 DEF Members
<1>8. ASSUME x = End \/ x \notin Members(queue), Distinct(queue)
      PROVE  Distinct(longer)
  BY <1>3, <1>4, <1>6, <1>8 DEF Members, Distinct
<1> QED BY <1>1, <1>3, <1>4, <1>5, <1>7, <1>8 DEF longer

\* A queue without its first call
LEMMA TailParts ==
  ASSUME NEW queue \in Seq(Sample \cup {End}), queue # <<>>
  PROVE  /\ Tail(queue) \in Seq(Sample \cup {End}) /\ Head(queue) \in Sample \cup {End}
         /\ Len(queue) \in Nat /\ Len(Tail(queue)) = Len(queue) - 1
         /\ 1 \in DOMAIN queue /\ Head(queue) = queue[1]
         /\ \A i \in DOMAIN queue : i # 1 => i - 1 \in DOMAIN Tail(queue)
                                            /\ Tail(queue)[i - 1] = queue[i]
         /\ Members(Tail(queue)) \subseteq Members(queue) /\ Head(queue) \in Members(queue)
         /\ Distinct(queue) => /\ Distinct(Tail(queue))
                               /\ Head(queue) # End => Head(queue) \notin Members(Tail(queue))
<1> DEFINE shorter == Tail(queue)
<1>1. /\ Len(queue) \in Nat \ {0} /\ DOMAIN queue = 1..Len(queue)
      /\ Len(shorter) = Len(queue) - 1 /\ DOMAIN shorter = 1..(Len(queue) - 1)
      /\ shorter \in Seq(Sample \cup {End}) /\ Head(queue) \in Sample \cup {End}
  OBVIOUS
<1>2. \A i \in 1..(Len(queue) - 1) : shorter[i] = queue[i + 1]
  OBVIOUS
<1>3. Head(queue) = queue[1]
  OBVIOUS
<1> HIDE DEF shorter
<1>4. \A i \in DOMAIN queue : i # 1 => i - 1 \in DOMAIN shorter /\ shorter[i - 1] = queue[i]
  BY <1>1, <1>2
<1>5. \A i \in DOMAIN shorter : i + 1 \in DOMAIN queue /\ shorter[i] = queue[i + 1]
                                /\ i + 1 # 1 /\ i \in Nat
  BY <1>1, <1>2
<1>6. 1 \in DOMAIN queue
  BY <1>1
<1>7. Members(shorter) \subseteq Members(queue) /\ Head(queue) \in Members(queue)
  BY <1>3, <1>5, <1>6 DEF Members
<1>8. ASSUME Distinct(queue)
      PROVE  Distinct(shorter) /\ (Head(queue) # End => Head(queue) \notin Members(shorter))
  <2>1. Distinct(shorter)
    <3> SUFFICES ASSUME NEW i \in DOMAIN shorter, NEW j \in DOMAIN shorter, i # j,
                        shorter[i] # End
                 PROVE  shorter[i] # shorter[j]
      BY DEF Distinct
    <3>1. i + 1 # j + 1
      BY <1>5
    <3> QED BY <1>5, <1>8, <3>1 DEF Distinct
  <2>2. ASSUME Head(queue) # End, NEW i \in DOMAIN shorter
        PROVE  shorter[i] # Head(queue)
    BY <1>3, <1>5, <1>6, <1>8, <2>2 DEF Distinct
  <2> QED BY <2>1, <2>2 DEF Members
<1> QED BY <1>1, <1>3, <1>4, <1>6, <1>7, <1>8 DEF shorter

\* What changes nothing for a subscription but how far the samples are numbered
LEMMA OnceStays ==
  ASSUME NEW s \in Sub, Once(s), sequence \in Nat, sequence' \in Nat, sequence <= sequence',
         s \in subs' \cup leaving' => s \in subs \cup leaving,
         consumer'[s] = "new" => consumer[s] = "new",
         ready'[s] = ready[s], events'[s] = events[s], got'[s] = got[s],
         \A r \in Recorder : s \in job'[r].to => s \in job[r].to /\ job'[r].sample = job[r].sample
  PROVE  Once(s)'
<1>1. 0..sequence \subseteq 0..sequence'
  OBVIOUS
<1>2. got'[s] \cup Members(events[s])' \cup Members(ready[s])' \subseteq 0..sequence'
  BY <1>1 DEF Once, Members
<1>3. Members(events[s])' = Members(events[s]) /\ Members(ready[s])' = Members(ready[s])
      /\ (Distinct(ready[s]) /\ Distinct(events[s]))' = (Distinct(ready[s]) /\ Distinct(events[s]))
  BY DEF Members, Distinct
<1> QED BY <1>2, <1>3 DEF Once

\* A recording thread numbers a sample that nobody has.
LEMMA OnceRecorded ==
  ASSUME SamplerInv, OnceInv, NEW r \in Recorder, Recorded(r), Delivery,
         UNCHANGED <<subs, leaving, ready>>
  PROVE  OnceInv'
<1>0. /\ job \in [Recorder -> [sample : Sample \cup {End}, to : SUBSET Sub]]
      /\ sequence \in Nat /\ sequence' \in Nat /\ sequence' = sequence + 1 /\ latest' = sequence'
      /\ sequence' # End /\ UNCHANGED <<events, got, consumer>>
  BY SamplerAssumption DEF SamplerInv, TypeOK, Recorded, Delivery, End
<1>1. /\ job'[r].to = subs /\ (subs # {} => job'[r].sample = sequence')
      /\ \A q \in Recorder : q # r => job'[q] = job[q]
  BY <1>0 DEF Recorded, Job
<1>2. latest' <= sequence'
  BY <1>0
<1>3. \A q \in Recorder : job'[q].to # {} => job'[q].sample \in 1..sequence'
  BY <1>0, <1>1 DEF OnceInv
<1>4. ASSUME NEW s \in Sub
      PROVE  Once(s)'
  <2>1. Once(s)
    BY DEF OnceInv
  <2>2. CASE s \notin subs
    BY <1>0, <1>1, <2>1, <2>2, OnceStays
  <2>3. CASE s \in subs
    <3>1. \A q \in Recorder : s \in job'[q].to =>
             (q = r /\ job'[q].sample = sequence + 1)
             \/ (q # r /\ s \in job[q].to /\ job'[q].sample = job[q].sample
                 /\ job[q].sample \in 1..sequence)
      BY <1>0, <1>1, <2>3 DEF OnceInv
    <3>2. sequence + 1 \notin 0..sequence
      BY <1>0
    <3>3. got[s] \cup Members(events[s]) \cup Members(ready[s]) \subseteq 0..sequence
      BY <2>1 DEF Once
    <3>4. 0..sequence \subseteq 0..sequence'
      BY <1>0
    <3>5. consumer'[s] # "new"
      BY <1>0, <2>1, <2>3 DEF Once
    <3>6. /\ Members(events[s])' = Members(events[s]) /\ Members(ready[s])' = Members(ready[s])
          /\ (Distinct(ready[s]) /\ Distinct(events[s]))'
             = (Distinct(ready[s]) /\ Distinct(events[s]))
      BY <1>0 DEF Members, Distinct
    <3>7. \A q, p \in Recorder : q # p /\ s \in job'[q].to /\ s \in job'[p].to
                                 => job'[q].sample # job'[p].sample
      <4> SUFFICES ASSUME NEW q \in Recorder, NEW p \in Recorder, q # p, s \in job'[q].to,
                          s \in job'[p].to
                   PROVE  job'[q].sample # job'[p].sample
        OBVIOUS
      <4>1. CASE q = r \/ p = r
        BY <3>1, <3>2, <4>1, <1>0
      <4>2. CASE q # r /\ p # r
        BY <2>1, <3>1, <4>2 DEF Once
      <4> QED BY <4>1, <4>2
    <3>8. \A q \in Recorder : s \in job'[q].to
                 => job'[q].sample \notin got[s] \cup Members(events[s]) \cup Members(ready[s])
      BY <2>1, <3>1, <3>2, <3>3 DEF Once
    <3> QED BY <1>0, <2>1, <3>3, <3>4, <3>5, <3>6, <3>7, <3>8 DEF Once
  <2> QED BY <2>2, <2>3
<1> QED BY <1>2, <1>3, <1>4 DEF OnceInv

\* A recording thread hands its sample over, or drops it.
LEMMA OncePublished ==
  ASSUME SamplerInv, OnceInv, NEW r \in Recorder, Publish(r) \/ Discard(r)
  PROVE  OnceInv'
<1>0. /\ job \in [Recorder -> [sample : Sample \cup {End}, to : SUBSET Sub]]
      /\ ready \in [Sub -> Seq(Sample \cup {End})] /\ sequence \in Nat
      /\ UNCHANGED <<sequence, latest, leaving, events, got, consumer>>
  BY SamplerAssumption DEF SamplerInv, TypeOK, Publish, Discard, Delivery
<1>1. PICK p \in job[r].to : /\ job' = [job EXCEPT ![r] = Job(@.sample, @.to \ {p})]
                             /\ subs' \subseteq subs
                             /\ \/ ready' = ready
                                \/ ready' = [ready EXCEPT ![p] = Append(@, job[r].sample)]
  BY DEF Publish, Discard
<1>2. p \in Sub /\ job[r].sample \in 1..sequence /\ job[r].sample \in Sample
  <2>1. p \in Sub /\ job[r].sample \in 1..sequence /\ job[r].sample \in Sample \cup {End}
    BY <1>0, <1>1 DEF OnceInv
  <2> QED BY <2>1 DEF End
<1>3. /\ job'[r].to = job[r].to \ {p} /\ (job'[r].to # {} => job'[r].sample = job[r].sample)
      /\ \A q \in Recorder : q # r => job'[q] = job[q]
  BY <1>0, <1>1 DEF Job
<1>4. \A q \in Recorder : job'[q].to # {} => job'[q].sample \in 1..sequence
  BY <1>0, <1>2, <1>3 DEF OnceInv
<1>5. ASSUME NEW s \in Sub
      PROVE  Once(s)'
  <2>1. Once(s)
    BY DEF OnceInv
  <2>2. \A q \in Recorder : s \in job'[q].to => s \in job[q].to /\ job'[q].sample = job[q].sample
                                               /\ (q = r => s # p)
    BY <1>3
  <2>3. CASE ready'[s] = ready[s]
    <3>1. sequence' \in Nat /\ sequence <= sequence'
          /\ (s \in subs' \cup leaving' => s \in subs \cup leaving)
      BY <1>0, <1>1
    <3> QED BY <1>0, <2>1, <2>2, <2>3, <3>1, OnceStays
  <2>4. CASE s = p /\ ready'[s] = Append(ready[s], job[r].sample)
    <3>1. /\ Members(ready'[s]) = Members(ready[s]) \cup {job[r].sample}
          /\ Distinct(ready'[s])
      <4>1. ready[s] \in Seq(Sample \cup {End}) /\ job[r].sample \in Sample \cup {End}
        BY <1>0, <1>2
      <4>2. job[r].sample \notin Members(ready[s]) /\ Distinct(ready[s])
        BY <1>1, <2>1, <2>4 DEF Once
      <4> QED BY <2>4, <4>1, <4>2, AppendParts
    <3>2. consumer[s] # "new"
      BY <1>1, <2>1, <2>4 DEF Once
    <3>3. \A q \in Recorder : s \in job'[q].to => job[q].sample # job[r].sample
      BY <1>1, <2>1, <2>2, <2>4 DEF Once
    <3>4. job[r].sample \notin got[s] \cup Members(events[s]) /\ job[r].sample \in 0..sequence
      BY <1>1, <1>2, <2>1, <2>4 DEF Once
    <3>5. Members(events[s])' = Members(events[s]) /\ Members(ready[s])' = Members(ready'[s])
          /\ Distinct(events[s])' = Distinct(events[s]) /\ Distinct(ready[s])' = Distinct(ready'[s])
      BY <1>0 DEF Members, Distinct
    <3>6. \A q, t \in Recorder : q # t /\ s \in job'[q].to /\ s \in job'[t].to
                                 => job'[q].sample # job'[t].sample
      BY <2>1, <2>2 DEF Once
    <3>7. \A q \in Recorder : s \in job'[q].to
               => job'[q].sample \notin got[s] \cup Members(events[s]) \cup Members(ready'[s])
      BY <2>1, <2>2, <3>1, <3>3 DEF Once
    <3> QED BY <1>0, <2>1, <3>1, <3>2, <3>4, <3>5, <3>6, <3>7 DEF Once
  <2> QED BY <1>0, <1>1, <2>3, <2>4
<1> QED BY <1>0, <1>4, <1>5 DEF OnceInv

\* Subscriptions come and go.
LEMMA OnceSubscribed ==
  ASSUME SamplerInv, OnceInv, NEW q \in Sub, Subscribe(q) \/ Unsubscribe(q) \/ CloseSubscriber(q)
  PROVE  OnceInv'
<1>0. /\ ready \in [Sub -> Seq(Sample \cup {End})] /\ events \in [Sub -> Seq(Sample \cup {End})]
      /\ consumer \in [Sub -> {"new", "next", "blocked", "done"}] /\ sequence \in Nat
      /\ latest \in 0..sequence
      /\ UNCHANGED <<sequence, latest, job, got>>
  BY SamplerAssumption
  DEF SamplerInv, OnceInv, TypeOK, Subscribe, Unsubscribe, CloseSubscriber
<1>1. ASSUME NEW s, NEW r \in Recorder, s \in job[r].to
      PROVE  job[r].sample # End
  <2>1. job[r].to # {}
    BY <1>1
  <2> QED BY <1>0, <2>1 DEF OnceInv, End
<1>2. ASSUME NEW s \in Sub
      PROVE  Once(s)'
  <2>1. Once(s) /\ sequence' \in Nat /\ sequence <= sequence'
    BY <1>0 DEF OnceInv
  <2>2. ASSUME s # q
        PROVE  /\ s \in subs' \cup leaving' => s \in subs \cup leaving
               /\ consumer'[s] = consumer[s] /\ ready'[s] = ready[s] /\ events'[s] = events[s]
    BY <1>0, <2>2 DEF Subscribe, Unsubscribe, CloseSubscriber
  <2>3. CASE s # q
    BY <1>0, <2>1, <2>2, <2>3, OnceStays
  <2>4. CASE s = q /\ Subscribe(s)
    <3> DEFINE first == IF latest # 0 THEN <<latest>> ELSE <<>>
    <3>1. /\ ready[s] = <<>> /\ got[s] = {} /\ \A r \in Recorder : s \notin job[r].to
          /\ consumer'[s] = "next" /\ ready' = ready /\ events'[s] = first
      BY <1>0, <2>1, <2>4 DEF Subscribe, Once
    <3>2. Members(first) \subseteq 0..sequence /\ Distinct(first)
      BY <1>0 DEF Members, Distinct
    <3>3. Members(<<>>) = {} /\ Distinct(<<>>)
      BY DEF Members, Distinct
    <3>4. Members(events[s])' = Members(first) /\ Members(ready[s])' = {}
          /\ Distinct(events[s])' /\ Distinct(ready[s])'
      BY <3>1, <3>2, <3>3 DEF Members, Distinct
    <3> HIDE DEF first
    <3> QED BY <1>0, <3>1, <3>2, <3>4 DEF Once
  <2>5. CASE s = q /\ Unsubscribe(s)
    <3>1. consumer'[s] # "new" /\ events'[s] = <<End>> /\ ready' = ready
      BY <1>0, <2>5 DEF Unsubscribe
    <3>2. Members(<<End>>) = {End} /\ Distinct(<<End>>) /\ End \in 0..sequence
      BY <1>0 DEF Members, Distinct, End
    <3>3. Members(events[s])' = {End} /\ Members(ready[s])' = Members(ready[s])
          /\ Distinct(events[s])' /\ Distinct(ready[s])' = Distinct(ready[s])
      BY <3>1, <3>2 DEF Members, Distinct
    <3> QED BY <1>0, <2>1, <3>1, <1>1, <3>2, <3>3 DEF Once
  <2>6. CASE s = q /\ CloseSubscriber(s)
    <3>1. CASE ready'[s] = ready[s]
      <4>1. /\ consumer' = consumer /\ events' = events /\ got' = got /\ job' = job
            /\ s \in subs' \cup leaving' => s \in subs \cup leaving
        BY <1>0, <2>6 DEF CloseSubscriber
      <4> QED BY <1>0, <2>1, <3>1, <4>1, OnceStays
    <3>2. CASE ready'[s] = Append(ready[s], End)
      <4>0. ready[s] \in Seq(Sample \cup {End}) /\ End \in Sample \cup {End}
        BY <1>0
      <4>1. UNCHANGED <<consumer, events, subs>> /\ s \in leaving
        BY <2>6 DEF CloseSubscriber
      <4>2. Members(ready'[s]) = Members(ready[s]) \cup {End} /\ Distinct(ready'[s])
        BY <2>1, <3>2, <4>0, AppendParts DEF Once
      <4>3. Members(events[s])' = Members(events[s]) /\ Members(ready[s])' = Members(ready'[s])
            /\ Distinct(events[s])' = Distinct(events[s])
            /\ Distinct(ready[s])' = Distinct(ready'[s])
        BY <4>1 DEF Members, Distinct
      <4>4. End \in 0..sequence
        BY <1>0 DEF End
      <4>5. consumer[s] # "new"
        BY <2>1, <4>1 DEF Once
      <4> QED BY <1>0, <2>1, <4>1, <4>2, <4>3, <1>1, <4>4, <4>5 DEF Once
    <3> QED BY <1>0, <2>6, <3>1, <3>2 DEF CloseSubscriber
  <2> QED BY <2>3, <2>4, <2>5, <2>6
<1> QED BY <1>0, <1>2 DEF OnceInv

\* The event loop turns, or ends.
LEMMA OnceTurned ==
  ASSUME SamplerInv, OnceInv,
         (\E q \in Sub : RunCall(q) \/ Anext(q) \/ Heartbeat(q)) \/ LoopCloses
  PROVE  OnceInv'
<1>0. /\ ready \in [Sub -> Seq(Sample \cup {End})] /\ events \in [Sub -> Seq(Sample \cup {End})]
      /\ consumer \in [Sub -> {"new", "next", "blocked", "done"}] /\ sequence \in Nat
      /\ got \in [Sub -> SUBSET Sample]
      /\ UNCHANGED <<sequence, latest, job, subs, leaving>>
  BY SamplerAssumption
  DEF SamplerInv, TypeOK, RunCall, Anext, Heartbeat, LoopCloses, Upstream
<1>e. Members(<<>>) = {} /\ Distinct(<<>>) /\ Members(<<End>>) = {End} /\ Distinct(<<End>>)
      /\ End \in 0..sequence
  BY <1>0 DEF Members, Distinct, End
<1>1. ASSUME NEW s, NEW r \in Recorder, s \in job[r].to
      PROVE  job[r].sample # End
  <2>1. job[r].to # {}
    BY <1>1
  <2> QED BY <1>0, <2>1 DEF OnceInv, End
\* A queue that was taken from, or given up, holds nothing twice.
<1>t. ASSUME NEW s \in Sub, consumer'[s] # "new",
             Members(ready'[s]) \subseteq Members(ready[s]), Distinct(ready'[s]),
             Members(events'[s]) \subseteq Members(events[s]) \cup {End}, Distinct(events'[s]),
             got'[s] \subseteq got[s]
      PROVE  Once(s)'
  <2>1. Once(s)
    BY DEF OnceInv
  <2>2. /\ Members(events[s])' = Members(events'[s]) /\ Members(ready[s])' = Members(ready'[s])
        /\ Distinct(events[s])' = Distinct(events'[s]) /\ Distinct(ready[s])' = Distinct(ready'[s])
    BY DEF Members, Distinct
  <2> QED BY <1>0, <1>e, <1>1, <1>t, <2>1, <2>2 DEF Once
<1>2. ASSUME NEW q \in Sub, RunCall(q), NEW s \in Sub
      PROVE  Once(s)'
  <2>1. Once(s) /\ sequence' \in Nat /\ sequence <= sequence' /\ consumer' = consumer
        /\ got' = got
    BY <1>0, <1>2 DEF OnceInv, RunCall
  <2>2. CASE s # q
    BY <1>0, <1>2, <2>1, <2>2, OnceStays DEF RunCall
  <2>3. CASE s = q
    <3> DEFINE call == Head(ready[s])
    <3>1. /\ ready[s] # <<>> /\ ready'[s] = Tail(ready[s])
          /\ events'[s] = IF call = End THEN <<End>>
                          ELSE IF shut[s] THEN events[s] ELSE Enqueued(events[s], call)
      BY <1>0, <1>2, <2>3 DEF RunCall
    <3>2. /\ Members(ready'[s]) \subseteq Members(ready[s]) /\ Distinct(ready'[s])
          /\ call \in Members(ready[s]) /\ call \in Sample \cup {End}
          /\ call # End => call \notin Members(ready'[s])
      BY <1>0, <2>1, <3>1, TailParts DEF Once
    <3>3. consumer'[s] # "new"
      BY <2>1, <3>1 DEF Once
    <3>4. CASE call = End \/ shut[s]
      BY <1>e, <1>t, <2>1, <3>1, <3>2, <3>3, <3>4 DEF Once
    <3>5. CASE call # End /\ ~shut[s]
      <4>1. PICK kept \in Seq(Sample \cup {End}) :
              /\ Members(kept) \subseteq Members(events[s]) /\ Distinct(kept)
              /\ events'[s] = Append(kept, call)
        <5>1. CASE Len(events[s]) < QueueLimit
          BY <1>0, <2>1, <3>1, <3>5, <5>1 DEF Enqueued, Once
        <5>2. CASE ~(Len(events[s]) < QueueLimit)
          <6>1. events[s] # <<>>
            BY <1>0, <5>2, SamplerAssumption
          <6> QED BY <1>0, <2>1, <3>1, <3>5, <5>2, <6>1, TailParts DEF Enqueued, Once
        <5> QED BY <5>1, <5>2
      <4>2. call \notin Members(events[s]) \cup got[s]
        BY <2>1, <3>2, <3>5 DEF Once
      <4>3. Members(events'[s]) = Members(kept) \cup {call} /\ Distinct(events'[s])
        BY <3>2, <4>1, <4>2, AppendParts
      <4>4. /\ Members(events[s])' = Members(events'[s]) /\ Members(ready[s])' = Members(ready'[s])
            /\ Distinct(events[s])' = Distinct(events'[s])
            /\ Distinct(ready[s])' = Distinct(ready'[s])
        BY DEF Members, Distinct
      <4> HIDE DEF call
      <4> QED BY <1>0, <2>1, <3>2, <3>3, <3>5, <4>1, <4>2, <4>3, <4>4 DEF Once
    <3> QED BY <3>4, <3>5
  <2> QED BY <2>2, <2>3
<1>3. ASSUME NEW q \in Sub, Anext(q), NEW s \in Sub
      PROVE  Once(s)'
  <2>1. Once(s) /\ sequence' \in Nat /\ sequence <= sequence' /\ ready' = ready
    BY <1>0, <1>3 DEF OnceInv, Anext
  <2>2. CASE s # q
    BY <1>0, <1>3, <2>1, <2>2, OnceStays DEF Anext, Ends, Sends
  <2>3. CASE s = q /\ Ends(s)
    <3>1. consumer'[s] # "new" /\ events'[s] = <<>> /\ got'[s] = {}
      BY <1>0, <2>3 DEF Ends
    <3> QED BY <1>e, <1>t, <2>1, <3>1 DEF Once
  <2>4. CASE s = q /\ events[s] # <<>> /\ Head(events[s]) # End /\ Sends(s)
    <3>1. /\ consumer'[s] # "new" /\ events'[s] = Tail(events[s])
          /\ got'[s] = got[s] \cup {Head(events[s])}
      BY <1>0, <2>4 DEF Sends
    <3>2. /\ Members(events'[s]) \subseteq Members(events[s]) /\ Distinct(events'[s])
          /\ Head(events[s]) \in Members(events[s])
          /\ Head(events[s]) \notin Members(events'[s])
      BY <1>0, <2>1, <2>4, <3>1, TailParts DEF Once
    <3>3. /\ Members(events[s])' = Members(events'[s]) /\ Members(ready[s])' = Members(ready[s])
          /\ Distinct(events[s])' = Distinct(events'[s]) /\ Distinct(ready[s])' = Distinct(ready[s])
      BY <2>1 DEF Members, Distinct
    <3> QED BY <1>0, <2>1, <2>4, <3>1, <3>2, <3>3 DEF Once
  <2>5. CASE s = q /\ events' = events /\ got' = got
             /\ consumer' = [consumer EXCEPT ![s] = "blocked"]
    <3>1. consumer'[s] # "new"
      BY <1>0, <2>5
    <3> QED BY <1>0, <2>1, <2>5, <3>1, OnceStays
  <2> QED BY <1>3, <2>2, <2>3, <2>4, <2>5 DEF Anext
<1>4. ASSUME NEW q \in Sub, Heartbeat(q), NEW s \in Sub
      PROVE  Once(s)'
  <2>1. Once(s) /\ sequence' \in Nat /\ sequence <= sequence'
    BY <1>0 DEF OnceInv
  <2>2. /\ consumer'[s] = "new" => consumer[s] = "new"
        /\ ready' = ready /\ events' = events /\ got' = got
    BY <1>0, <1>4 DEF Heartbeat
  <2> QED BY <1>0, <2>1, <2>2, OnceStays
<1>5. ASSUME LoopCloses, NEW s \in Sub
      PROVE  Once(s)'
  <2>1. ready'[s] = <<>> /\ events'[s] = <<>> /\ got'[s] = {} /\ consumer'[s] = "done"
    BY <1>5 DEF LoopCloses
  <2> QED BY <1>e, <1>t, <2>1
<1> QED BY <1>0, <1>2, <1>3, <1>4, <1>5 DEF OnceInv

\* A sample reaches a subscription from one side, once.
LEMMA OnceAlways == Spec => []OnceInv
<1>1. Init => OnceInv
  <2> SUFFICES ASSUME Init
               PROVE  OnceInv
    OBVIOUS
  <2>1. latest <= sequence /\ \A r \in Recorder : job[r].to = {}
    BY DEF Init, NoJob, Job
  <2>2. ASSUME NEW s \in Sub
        PROVE  Once(s)
    <3>1. /\ subs = {} /\ leaving = {} /\ ready[s] = <<>> /\ got[s] = {} /\ events[s] = <<>>
      BY DEF Init
    <3> QED BY <2>1, <3>1 DEF Once, Members, Distinct
  <2> QED BY <2>1, <2>2 DEF OnceInv
<1>2. SamplerInv /\ OnceInv /\ [Next]_vars => OnceInv'
  <2> SUFFICES ASSUME SamplerInv, OnceInv, [Next]_vars
               PROVE  OnceInv'
    OBVIOUS
  <2>0. sequence \in Nat /\ Thread \subseteq Recorder
    BY SamplerAssumption DEF SamplerInv, TypeOK, Recorder
  <2>s. ASSUME UNCHANGED <<sequence, job, ready, events, got, consumer>>, latest' \in {0, latest},
               subs' \cup leaving' \subseteq subs \cup leaving
        PROVE  OnceInv'
    <3>1. ASSUME NEW s \in Sub
          PROVE  Once(s)'
      BY <2>0, <2>s, OnceStays DEF OnceInv
    <3> QED BY <2>0, <2>s, <3>1 DEF OnceInv
  <2>1. ASSUME NEW t \in Thread, Loop(t) \/ Look(t) \/ TakeSample(t) \/ Waited(t) \/ Final(t)
        PROVE  OnceInv'
    <3>1. CASE TakeSample(t)
      BY <2>0, <3>1, OnceRecorded DEF TakeSample
    <3> QED BY <2>1, <2>s, <3>1 DEF Loop, Look, Waited, Final, Delivery
  <2>2. ASSUME NEW r \in Recorder, RequestSample(r) \/ Publish(r) \/ Discard(r)
        PROVE  OnceInv'
    BY <2>2, OnceRecorded, OncePublished DEF RequestSample
  <2>3. CASE Start \/ Close \/ ResetHistory
    BY <2>3, <2>s DEF Start, Close, ResetHistory, Delivery
  <2>4. CASE UNCHANGED vars
    BY <2>4, <2>s DEF vars
  <2> QED BY <2>1, <2>2, <2>3, <2>4, OnceSubscribed, OnceTurned, NextCases
<1> QED BY <1>1, <1>2, Invariant, PTL DEF Spec

\* A sample does not reach a subscription from both sides, the latest of subscribe and a call of
\* record_result, or twice.
THEOREM SamplesSentOnce == Spec => SentOnce
<1>1. SamplerInv /\ SamplerInv' /\ OnceInv /\ [Next]_vars
      => [\A s \in Sub : consumer'[s] = "next" /\ Len(events'[s]) < Len(events[s])
                         => Head(events[s]) \notin got[s]]_vars
  <2> SUFFICES ASSUME SamplerInv, SamplerInv', OnceInv, NEW s \in Sub,
                      Len(events'[s]) < Len(events[s]), Next
               PROVE  Head(events[s]) \notin got[s]
    BY DEF vars
  <2>0. events[s] \in Seq(Sample \cup {End}) /\ got[s] \subseteq Sample /\ End \notin Sample
        /\ events'[s] \in Seq(Sample \cup {End})
    <3>1. End \notin Sample
      BY SamplerAssumption DEF Sample, End
    <3> QED BY <3>1 DEF SamplerInv, TypeOK
  <2>1. events[s] # <<>>
    BY <2>0
  <2>2. Head(events[s]) \in Members(events[s])
    BY <2>0, <2>1, TailParts
  <2>3. got[s] \cap Members(events[s]) \subseteq {End}
    BY DEF OnceInv, Once
  <2> QED BY <2>0, <2>2, <2>3
<1> QED BY <1>1, Invariant, OnceAlways, PTL DEF Spec, SentOnce

-----------------------------------------------------------------------------
(* The newest sample *)

\* A subscription that is not closed has no call that closes it.
LiveInv ==
  /\ \A t \in Thread : pc[t] # "publish" => job[t].to = {}
  /\ leaving # {} => closed
  /\ \A s \in Sub : consumer[s] = "new" => ~shut[s]
  /\ open => \A s \in subs : /\ ~shut[s] /\ consumer[s] # "done"
                             /\ End \notin Members(ready[s]) \cup Members(events[s])

\* A queue that takes a sample holds it, and what it held but the first.
LEMMA EnqueuedParts ==
  ASSUME NEW queue \in Seq(Sample \cup {End}), Len(queue) <= QueueLimit,
         NEW sample \in Sample \cup {End}
  PROVE  /\ Members(Enqueued(queue, sample)) \subseteq Members(queue) \cup {sample}
         /\ Len(Enqueued(queue, sample)) \in DOMAIN Enqueued(queue, sample)
         /\ Enqueued(queue, sample)[Len(Enqueued(queue, sample))] = sample
         /\ Len(queue) \in Nat
         /\ \A i \in DOMAIN queue :
              \/ /\ i \in DOMAIN Enqueued(queue, sample)
                 /\ Enqueued(queue, sample)[i] = queue[i]
                 /\ Len(Enqueued(queue, sample)) = Len(queue) + 1
              \/ /\ i # 1 /\ i - 1 \in DOMAIN Enqueued(queue, sample)
                 /\ Enqueued(queue, sample)[i - 1] = queue[i]
                 /\ Len(Enqueued(queue, sample)) = Len(queue)
              \/ i = 1 /\ Len(queue) = QueueLimit
<1>1. CASE Len(queue) < QueueLimit
  <2>1. Enqueued(queue, sample) = Append(queue, sample)
    BY <1>1 DEF Enqueued
  <2> QED BY <2>1, AppendParts
<1>2. CASE ~(Len(queue) < QueueLimit)
  <2> DEFINE kept == Tail(queue)
  <2>1. Enqueued(queue, sample) = Append(kept, sample)
    BY <1>2 DEF Enqueued
  <2>2. queue # <<>> /\ Len(queue) = QueueLimit /\ Len(queue) \in Nat
    BY <1>2, SamplerAssumption
  <2>3. /\ kept \in Seq(Sample \cup {End}) /\ Len(kept) = Len(queue) - 1
        /\ \A i \in DOMAIN queue : i # 1 => i - 1 \in DOMAIN kept /\ kept[i - 1] = queue[i]
        /\ Members(kept) \subseteq Members(queue)
    BY <2>2, TailParts
  <2> HIDE DEF kept
  <2>4. /\ Len(Append(kept, sample)) = Len(kept) + 1
        /\ \A i \in DOMAIN kept : /\ i \in DOMAIN Append(kept, sample)
                                  /\ Append(kept, sample)[i] = kept[i]
        /\ Len(kept) + 1 \in DOMAIN Append(kept, sample)
        /\ Append(kept, sample)[Len(kept) + 1] = sample
        /\ Members(Append(kept, sample)) = Members(kept) \cup {sample}
    BY <2>3, AppendParts
  <2> QED BY <2>1, <2>2, <2>3, <2>4
<1> QED BY <1>1, <1>2

\* Closing calls are made for subscriptions that were taken out before.
LEMMA LiveKept ==
  ASSUME SamplerInv, OnceInv, LiveInv, [Next]_vars
  PROVE  LiveInv'
<1>0. /\ ready \in [Sub -> Seq(Sample \cup {End})] /\ events \in [Sub -> Seq(Sample \cup {End})]
      /\ consumer \in [Sub -> {"new", "next", "blocked", "done"}]
      /\ job \in [Recorder -> [sample : Sample \cup {End}, to : SUBSET Sub]]
      /\ shut \in [Sub -> BOOLEAN] /\ subs \subseteq Sub /\ leaving \subseteq Sub
      /\ \A s \in Sub : Len(events[s]) <= QueueLimit
      /\ pc \in [Thread -> {"dead", "loop", "look", "stats", "publish", "final"}]
      /\ Thread \subseteq Recorder /\ Request \cap Thread = {}
  BY SamplerAssumption DEF SamplerInv, TypeOK, Recorder
\* What leaves the queues alone
<1>k. ASSUME UNCHANGED <<ready, events, consumer, open>>, subs' \subseteq subs,
             \A s \in Sub : shut'[s] = shut[s] \/ (consumer[s] # "new" /\ s \notin subs'),
             leaving' # {} => closed',
             \A t \in Thread : pc'[t] # "publish" => job'[t].to = {}
      PROVE  LiveInv'
  BY <1>0, <1>k DEF LiveInv, Members
\* The threads
<1>1. ASSUME NEW t \in Thread, Loop(t) \/ Look(t) \/ TakeSample(t) \/ Waited(t) \/ Final(t)
      PROVE  LiveInv'
  <2>1. /\ UNCHANGED <<ready, events, consumer, open, subs, shut, leaving, closed>>
    BY <1>1 DEF Loop, Look, TakeSample, Waited, Final, Delivery
  <2>2. \A q \in Thread : pc'[q] # "publish" => job'[q].to = {}
    <3>1. CASE TakeSample(t)
      BY <1>0, <3>1 DEF TakeSample, Recorded, Goto, LiveInv
    <3>2. CASE Waited(t)
      BY <1>0, <3>2 DEF Waited, Goto, LiveInv
    <3>3. CASE Loop(t) \/ Look(t) \/ Final(t)
      BY <1>0, <3>3 DEF Loop, Look, Final, Goto, LiveInv
    <3> QED BY <1>1, <3>1, <3>2, <3>3
  <2> QED BY <1>k, <2>1, <2>2 DEF LiveInv
<1>2. ASSUME NEW r \in Request, RequestSample(r)
      PROVE  LiveInv'
  <2>1. \A q \in Thread : job'[q] = job[q]
    BY <1>0, <1>2 DEF RequestSample, Recorded
  <2> QED BY <1>0, <1>2, <1>k, <2>1 DEF RequestSample, Delivery, LiveInv
<1>3. ASSUME NEW r \in Recorder, Publish(r) \/ Discard(r)
      PROVE  LiveInv'
  <2>1. PICK p \in job[r].to : /\ job' = [job EXCEPT ![r] = Job(@.sample, @.to \ {p})]
                               /\ subs' \subseteq subs
                               /\ Discard(r) => subs' = subs \ {p}
                                                /\ shut' = [shut EXCEPT ![p] = TRUE]
                               /\ Publish(r) => /\ ready' = [ready EXCEPT ![p] =
                                                               Append(@, job[r].sample)]
                                                /\ subs' = subs
    BY <1>3 DEF Publish, Discard
  <2>2. \A q \in Thread : pc'[q] # "publish" => job'[q].to = {}
    <3>1. pc' = pc /\ \A q \in Recorder : job'[q].to \subseteq job[q].to
      BY <1>0, <1>3, <2>1 DEF Publish, Discard, Job
    <3> QED BY <1>0, <3>1 DEF LiveInv
  <2>3. p \in Sub /\ consumer[p] # "new" /\ job[r].sample # End
        /\ job[r].sample \in Sample \cup {End}
    <3>1. p \in Sub /\ job[r].to # {} /\ job[r].sample \in Sample \cup {End}
      BY <1>0, <2>1
    <3>2. consumer[p] # "new"
      BY <2>1, <3>1 DEF OnceInv, Once
    <3>3. job[r].sample # End
      BY <3>1 DEF OnceInv, End
    <3> QED BY <3>1, <3>2, <3>3
  <2>4. CASE Discard(r)
    <3>1. UNCHANGED <<ready, events, consumer, open, leaving, closed>>
      BY <2>4 DEF Discard
    <3>2. subs' = subs \ {p} /\ shut' = [shut EXCEPT ![p] = TRUE]
      BY <2>1, <2>4
    <3>3. \A s \in Sub : shut'[s] = shut[s] \/ (consumer[s] # "new" /\ s \notin subs')
      BY <1>0, <2>3, <3>2
    <3>4. leaving' # {} => closed'
      BY <3>1 DEF LiveInv
    <3> QED BY <1>k, <2>1, <2>2, <3>1, <3>3, <3>4
  <2>5. CASE Publish(r)
    <3>1. UNCHANGED <<subs, shut, events, open, consumer, closed, leaving>>
      BY <2>5 DEF Publish, Delivery
    <3>2. \A s \in subs : ready'[s] = ready[s]
                          \/ ready'[s] = Append(ready[s], job[r].sample)
      BY <1>0, <2>1, <2>5
    <3>3. ASSUME NEW s \in subs, End \notin Members(ready[s])
          PROVE  End \notin Members(ready'[s])
      <4>1. ready[s] \in Seq(Sample \cup {End})
        BY <1>0
      <4>2. Members(Append(ready[s], job[r].sample)) = Members(ready[s]) \cup {job[r].sample}
        BY <2>3, <4>1, AppendParts
      <4> QED BY <2>3, <3>2, <3>3, <4>2
    <3>4. \A s \in subs : Members(ready[s])' = Members(ready'[s])
                          /\ Members(events[s])' = Members(events[s])
      BY <3>1 DEF Members
    <3> QED BY <2>2, <3>1, <3>3, <3>4 DEF LiveInv
  <2> QED BY <1>3, <2>4, <2>5
\* Those who subscribe
<1>4. ASSUME StartLocked, job' = job
      PROVE  \A q \in Thread : pc'[q] # "publish" => job'[q].to = {}
  <2>1. \A q \in Thread : pc[q] = "publish" => thread # None
    BY SamplerAssumption DEF SamplerInv, OneSampler
  <2>2. CASE thread # None
    BY <1>4, <2>2 DEF StartLocked, LiveInv
  <2>3. CASE thread = None
    <3>1. \A q \in Thread : job[q].to = {}
      BY <2>1, <2>3 DEF LiveInv
    <3> QED BY <1>4, <3>1
  <2> QED BY <2>2, <2>3
<1>5. ASSUME NEW q \in Sub, Subscribe(q)
      PROVE  LiveInv'
  <2>1. /\ UNCHANGED <<shut, ready, open, closed, leaving, job>> /\ subs' = subs \cup {q}
        /\ consumer'[q] = "next" /\ consumer[q] = "new"
        /\ \A s \in Sub : s # q => consumer'[s] = consumer[s] /\ events'[s] = events[s]
        /\ events'[q] = IF latest # 0 THEN <<latest>> ELSE <<>>
    BY <1>0, <1>5 DEF Subscribe
  <2>2. ready[q] = <<>> /\ ~shut[q]
    BY <2>1 DEF OnceInv, Once, LiveInv
  <2>3. End \notin Members(ready[q]) \cup Members(events'[q])
    BY <2>1, <2>2 DEF Members, End
  <2>4. \A s \in Sub : Members(ready[s])' = Members(ready[s])
                       /\ Members(events[s])' = Members(events'[s])
    BY <2>1 DEF Members
  <2>5. \A t \in Thread : pc'[t] # "publish" => job'[t].to = {}
    BY <1>4, <1>5, <2>1 DEF Subscribe
  <2> QED BY <1>0, <2>1, <2>2, <2>3, <2>4, <2>5 DEF LiveInv
<1>6. ASSUME NEW q \in Sub, Unsubscribe(q)
      PROVE  LiveInv'
  <2>1. /\ UNCHANGED <<ready, open, closed, leaving, job, pc, consumer>> /\ subs' = subs \ {q}
        /\ \A s \in Sub : s # q => events'[s] = events[s] /\ shut'[s] = shut[s]
        /\ consumer[q] # "new"
    BY <1>0, <1>6 DEF Unsubscribe
  <2>2. \A s \in Sub : Members(ready[s])' = Members(ready[s])
                       /\ (s # q => Members(events[s])' = Members(events[s]))
    BY <2>1 DEF Members
  <2> QED BY <1>0, <2>1, <2>2 DEF LiveInv
<1>7. ASSUME NEW q \in Sub, CloseSubscriber(q)
      PROVE  LiveInv'
  <2>1. subs = {} /\ closed /\ consumer[q] # "new"
    BY <1>7 DEF CloseSubscriber, LiveInv, SamplerInv, OnceInv, Once
  <2>2. /\ UNCHANGED <<subs, closed, job, pc, consumer>> /\ leaving' \subseteq leaving
        /\ \A s \in Sub : s # q => shut'[s] = shut[s]
    BY <1>0, <1>7 DEF CloseSubscriber
  <2> QED BY <2>1, <2>2 DEF LiveInv
<1>8. CASE Start
  BY <1>0, <1>4, <1>8, <1>k DEF Start, Delivery, LiveInv
<1>9. CASE Close \/ ResetHistory
  BY <1>0, <1>9, <1>k DEF Close, ResetHistory, Delivery, LiveInv
\* The event loop
<1>10. ASSUME NEW q \in Sub, RunCall(q)
       PROVE  LiveInv'
  <2>1. /\ UNCHANGED <<closed, pc, subs, job, leaving, shut, open, consumer>> /\ open
        /\ ready[q] # <<>> /\ ready'[q] = Tail(ready[q])
        /\ events'[q] = IF Head(ready[q]) = End THEN <<End>>
                        ELSE IF shut[q] THEN events[q] ELSE Enqueued(events[q], Head(ready[q]))
        /\ \A s \in Sub : s # q => ready'[s] = ready[s] /\ events'[s] = events[s]
    BY <1>0, <1>10 DEF RunCall, Upstream
  <2>2. ASSUME q \in subs
        PROVE  End \notin Members(ready'[q]) \cup Members(events'[q])
    <3>1. ~shut[q] /\ End \notin Members(ready[q]) \cup Members(events[q])
      BY <2>1, <2>2 DEF LiveInv
    <3>2. Head(ready[q]) \in Members(ready[q]) /\ Members(ready'[q]) \subseteq Members(ready[q])
          /\ Head(ready[q]) \in Sample \cup {End}
      BY <1>0, <2>1, TailParts
    <3>3. Members(Enqueued(events[q], Head(ready[q])))
            \subseteq Members(events[q]) \cup {Head(ready[q])}
      BY <1>0, <3>2, EnqueuedParts
    <3> QED BY <2>1, <3>1, <3>2, <3>3
  <2>3. \A s \in Sub : Members(ready[s])' = Members(ready'[s])
                       /\ Members(events[s])' = Members(events'[s])
    BY DEF Members
  <2> QED BY <1>0, <2>1, <2>2, <2>3 DEF LiveInv
<1>11. ASSUME NEW q \in Sub, Anext(q) \/ Heartbeat(q)
       PROVE  LiveInv'
  <2>1. /\ UNCHANGED <<closed, pc, subs, job, leaving, shut, open, ready>> /\ open
        /\ \A s \in Sub : s # q => consumer'[s] = consumer[s] /\ events'[s] = events[s]
        /\ consumer[q] # "new" /\ consumer'[q] # "new"
    BY <1>0, <1>11 DEF Anext, Heartbeat, Upstream, Ends, Sends
  <2>2. ASSUME q \in subs
        PROVE  consumer'[q] # "done" /\ End \notin Members(events'[q])
    <3>1. ~shut[q] /\ End \notin Members(events[q])
      BY <2>1, <2>2 DEF LiveInv
    <3>2. events[q] # <<>> => /\ Head(events[q]) # End
                              /\ Members(Tail(events[q])) \subseteq Members(events[q])
      BY <1>0, <3>1, TailParts
    <3>3. CASE events' = events /\ consumer'[q] # "done"
      BY <3>1, <3>3
    <3>4. CASE events[q] # <<>> /\ Sends(q)
      BY <1>0, <3>1, <3>2, <3>4 DEF Sends
    <3> QED BY <1>0, <1>11, <3>1, <3>2, <3>3, <3>4 DEF Anext, Heartbeat
  <2>3. \A s \in Sub : Members(ready[s])' = Members(ready[s])
                       /\ Members(events[s])' = Members(events'[s])
    BY <2>1 DEF Members
  <2> QED BY <1>0, <2>1, <2>2, <2>3 DEF LiveInv
<1>12. CASE LoopCloses
  BY <1>0, <1>12 DEF LoopCloses, LiveInv
<1>13. CASE UNCHANGED vars
  BY <1>13 DEF vars, LiveInv, Members
<1> QED BY <1>1, <1>2, <1>3, <1>5, <1>6, <1>7, <1>8, <1>9, <1>10, <1>11, <1>12, <1>13
        DEF Next, Steps, Recorder

\* The threads that have a sample for a subscription.  Only one sampler thread has, and requests.
Late(s) == {r \in Recorder : s \in job[r].to}

LEMMA FewLate ==
  ASSUME SamplerInv, LiveInv, NEW s, IsFiniteSet(Request)
  PROVE  /\ IsFiniteSet(Late(s)) /\ Cardinality(Late(s)) \in Nat /\ Cardinality(Request) \in Nat
         /\ Cardinality(Late(s)) <= Cardinality(Request) + 1
<1>1. Late(s) \subseteq Request \cup {thread}
  <2>1. ASSUME NEW t \in Thread, s \in job[t].to
        PROVE  t = thread
    <3>1. pc[t] = "publish"
      BY <2>1 DEF LiveInv
    <3> QED BY <3>1 DEF SamplerInv, OneSampler
  <2> QED BY <2>1 DEF Late, Recorder
<1>2. Cardinality(Request) \in Nat
  BY FS_CardinalityType
<1>3. /\ IsFiniteSet(Request \cup {thread})
      /\ Cardinality(Request \cup {thread}) \in {Cardinality(Request), Cardinality(Request) + 1}
  BY FS_AddElement
<1>4. /\ IsFiniteSet(Late(s))
      /\ Cardinality(Late(s)) <= Cardinality(Request \cup {thread})
  BY <1>1, <1>3, FS_Subset
<1>5. Cardinality(Late(s)) \in Nat
  BY <1>4, FS_CardinalityType
<1> QED BY <1>2, <1>3, <1>4, <1>5

\* The newest sample of a subscription was sent, or is on its way with less behind it than would
\* push it out of the queue.
Newest(s) ==
  \/ latest \in got[s]
  \/ \E r \in Recorder : s \in job[r].to /\ job[r].sample = latest
  \/ \E i \in DOMAIN ready[s] :
       /\ ready[s][i] = latest
       /\ Len(ready[s]) - i + Cardinality(Late(s)) < QueueLimit
  \/ \E i \in DOMAIN events[s] :
       /\ events[s][i] = latest
       /\ Len(events[s]) - i + Len(ready[s]) + Cardinality(Late(s)) < QueueLimit

NewestInv == open /\ latest # 0 => \A s \in subs : Newest(s)

\* What changes nothing for a subscription
LEMMA NewestStays ==
  ASSUME NEW s, Newest(s), latest' = latest, ready'[s] = ready[s], events'[s] = events[s],
         got'[s] = got[s],
         \A r \in Recorder : /\ s \in job'[r].to <=> s \in job[r].to
                             /\ s \in job[r].to => job'[r].sample = job[r].sample
  PROVE  Newest(s)'
<1>1. Late(s)' = Late(s)
  BY DEF Late
<1>2. (\E r \in Recorder : s \in job[r].to /\ job[r].sample = latest)
      => \E r \in Recorder : s \in job'[r].to /\ job'[r].sample = latest
  OBVIOUS
<1> QED BY <1>1, <1>2 DEF Newest

\* Handing a sample over moves it behind the others and leaves one less that is late.
LEMMA NewestPublished ==
  ASSUME SamplerInv, OnceInv, LiveInv, IsFiniteSet(Request), Cardinality(Request) < QueueLimit,
         NEW s \in Sub, Newest(s), NEW r \in Recorder, s \in job[r].to, latest' = latest,
         got' = got, events' = events, ready'[s] = Append(ready[s], job[r].sample),
         job' = [job EXCEPT ![r] = Job(@.sample, @.to \ {s})]
  PROVE  Newest(s)'
<1>0. /\ ready[s] \in Seq(Sample \cup {End}) /\ events[s] \in Seq(Sample \cup {End})
      /\ job \in [Recorder -> [sample : Sample \cup {End}, to : SUBSET Sub]]
      /\ QueueLimit \in Nat
  BY SamplerAssumption DEF SamplerInv, TypeOK
<1>1. \A q \in Recorder : q # r => job'[q] = job[q]
  BY <1>0
<1>2. s \notin job'[r].to
  BY <1>0 DEF Job
<1>3. Late(s)' = Late(s) \ {r} /\ r \in Late(s)
  BY <1>1, <1>2 DEF Late
<1>4. /\ Cardinality(Late(s)') = Cardinality(Late(s)) - 1
      /\ Cardinality(Late(s)) \in Nat /\ Cardinality(Late(s)) - 1 < QueueLimit
  <2>1. /\ IsFiniteSet(Late(s)) /\ Cardinality(Late(s)) \in Nat /\ Cardinality(Request) \in Nat
        /\ Cardinality(Late(s)) <= Cardinality(Request) + 1
    BY FewLate
  <2>2. Cardinality(Late(s) \ {r}) = Cardinality(Late(s)) - 1
    BY <1>3, <2>1, FS_RemoveElement
  <2>3. Cardinality(Late(s)) - 1 < QueueLimit
    BY <1>0, <2>1
  <2> QED BY <1>3, <2>1, <2>2, <2>3
<1> DEFINE longer == Append(ready[s], job[r].sample)
<1>5. /\ Len(ready[s]) \in Nat /\ Len(longer) = Len(ready[s]) + 1
      /\ \A i \in DOMAIN ready[s] : i \in DOMAIN longer /\ longer[i] = ready[s][i]
      /\ Len(longer) \in DOMAIN longer /\ longer[Len(longer)] = job[r].sample
  <2>1. job[r].sample \in Sample \cup {End}
    BY <1>0
  <2> HIDE DEF longer
  <2>2. /\ Len(ready[s]) \in Nat /\ Len(longer) = Len(ready[s]) + 1
        /\ \A i \in DOMAIN ready[s] : i \in DOMAIN longer /\ longer[i] = ready[s][i]
        /\ Len(ready[s]) + 1 \in DOMAIN longer /\ longer[Len(ready[s]) + 1] = job[r].sample
    BY <1>0, <2>1, AppendParts DEF longer
  <2> QED BY <2>2
<1>d. DOMAIN ready[s] \subseteq Nat /\ DOMAIN events[s] \subseteq Nat /\ Len(events[s]) \in Nat
  BY <1>0
<1> HIDE DEF longer
<1>n. ready'[s] = longer
  BY DEF longer
<1>6. CASE latest \in got[s]
  BY <1>6 DEF Newest
<1>7. ASSUME NEW q \in Recorder, s \in job[q].to, job[q].sample = latest
      PROVE  Newest(s)'
  <2>1. CASE q = r
    <3>1. Len(longer) - Len(longer) = 0
      BY <1>5
    <3>2. Len(longer) - Len(longer) + Cardinality(Late(s)') < QueueLimit
      BY <1>0, <1>4, <3>1
    <3> QED BY <1>5, <1>7, <1>n, <2>1, <3>2 DEF Newest
  <2>2. CASE q # r
    BY <1>1, <1>7, <2>2 DEF Newest
  <2> QED BY <2>1, <2>2
<1>8. ASSUME NEW i \in DOMAIN ready[s], ready[s][i] = latest,
             Len(ready[s]) - i + Cardinality(Late(s)) < QueueLimit
      PROVE  Newest(s)'
  <2>1. Len(longer) - i + Cardinality(Late(s)') < QueueLimit
    <3> DEFINE m == Len(ready[s])
               late == Cardinality(Late(s))
    <3>1. Len(longer) = m + 1 /\ Cardinality(Late(s)') = late - 1
      BY <1>4, <1>5
    <3>2. /\ i \in Nat /\ m \in Nat /\ late \in Nat /\ QueueLimit \in Nat
          /\ m - i + late < QueueLimit
      BY <1>0, <1>4, <1>5, <1>8, <1>d
    <3> HIDE DEF m, late
    <3>3. (m + 1) - i + (late - 1) < QueueLimit
      BY <3>2
    <3> QED BY <3>1, <3>3
  <2> QED BY <1>5, <1>8, <1>n, <2>1 DEF Newest
<1>9. ASSUME NEW i \in DOMAIN events[s], events[s][i] = latest,
             Len(events[s]) - i + Len(ready[s]) + Cardinality(Late(s)) < QueueLimit
      PROVE  Newest(s)'
  <2>1. Len(events[s]) - i + Len(longer) + Cardinality(Late(s)') < QueueLimit
    <3> DEFINE m == Len(ready[s])
               e == Len(events[s])
               late == Cardinality(Late(s))
    <3>1. Len(longer) = m + 1 /\ Cardinality(Late(s)') = late - 1
      BY <1>4, <1>5
    <3>2. /\ i \in Nat /\ m \in Nat /\ e \in Nat /\ late \in Nat /\ QueueLimit \in Nat
          /\ e - i + m + late < QueueLimit
      BY <1>0, <1>4, <1>5, <1>9, <1>d
    <3> HIDE DEF m, e, late
    <3>3. e - i + (m + 1) + (late - 1) < QueueLimit
      BY <3>2
    <3> QED BY <3>1, <3>3 DEF e
  <2> QED BY <1>9, <1>n, <2>1 DEF Newest
<1> QED BY <1>6, <1>7, <1>8, <1>9 DEF Newest

\* A full queue loses its oldest sample, which has too much behind it to be the newest.
LEMMA NewestCalled ==
  ASSUME SamplerInv, LiveInv, IsFiniteSet(Request), open,
         NEW s \in Sub, s \in subs, Newest(s), RunCall(s)
  PROVE  Newest(s)'
<1>0. /\ ready[s] \in Seq(Sample \cup {End}) /\ events[s] \in Seq(Sample \cup {End})
      /\ ready \in [Sub -> Seq(Sample \cup {End})] /\ events \in [Sub -> Seq(Sample \cup {End})]
      /\ QueueLimit \in Nat /\ Len(events[s]) <= QueueLimit
      /\ DOMAIN ready[s] \subseteq Nat /\ DOMAIN events[s] \subseteq Nat /\ Len(events[s]) \in Nat
      /\ UNCHANGED <<latest, got, job>>
  BY SamplerAssumption DEF SamplerInv, TypeOK, RunCall, Upstream
<1>1. ready[s] # <<>> /\ ready'[s] = Tail(ready[s])
  BY <1>0 DEF RunCall
<1>2. /\ Len(ready[s]) \in Nat \ {0} /\ Len(ready'[s]) = Len(ready[s]) - 1
      /\ 1 \in DOMAIN ready[s] /\ Head(ready[s]) = ready[s][1]
      /\ \A i \in DOMAIN ready[s] : i # 1 => i - 1 \in DOMAIN ready'[s]
                                             /\ ready'[s][i - 1] = ready[s][i]
      /\ Head(ready[s]) \in Sample \cup {End} /\ Head(ready[s]) \in Members(ready[s])
  BY <1>0, <1>1, TailParts
<1>3. events'[s] = Enqueued(events[s], Head(ready[s]))
  BY <1>0, <1>2 DEF LiveInv, RunCall
<1> DEFINE queue == events'[s]
           call  == Head(ready[s])
<1>4. /\ Len(queue) \in DOMAIN queue /\ queue[Len(queue)] = call
      /\ \A i \in DOMAIN events[s] :
           \/ i \in DOMAIN queue /\ queue[i] = events[s][i] /\ Len(queue) = Len(events[s]) + 1
           \/ /\ i # 1 /\ i - 1 \in DOMAIN queue /\ queue[i - 1] = events[s][i]
              /\ Len(queue) = Len(events[s])
           \/ i = 1 /\ Len(events[s]) = QueueLimit
  BY <1>0, <1>2, <1>3, EnqueuedParts
<1>5. Late(s)' = Late(s) /\ Cardinality(Late(s)) \in Nat
  BY <1>0, FewLate DEF Late
<1>6. CASE latest \in got[s] \/ \E r \in Recorder : s \in job[r].to /\ job[r].sample = latest
  BY <1>0, <1>6 DEF Newest
<1>l. Len(queue) \in Nat
  BY <1>3, <1>0, <1>2, EnqueuedFits
<1> DEFINE m == Len(ready[s])
           e == Len(events[s])
           q == Len(queue)
           late == Cardinality(Late(s))
<1>m. /\ m \in Nat \ {0} /\ e \in Nat /\ q \in Nat /\ late \in Nat /\ QueueLimit \in Nat
      /\ e <= QueueLimit
      /\ Len(ready'[s]) = m - 1 /\ Cardinality(Late(s)') = late
  BY <1>0, <1>2, <1>5, <1>l
<1> HIDE DEF queue, call, m, e, q, late
<1>7. ASSUME NEW i \in DOMAIN ready[s], ready[s][i] = latest,
             Len(ready[s]) - i + Cardinality(Late(s)) < QueueLimit
      PROVE  Newest(s)'
  <2>1. CASE i = 1
    <3>0. m - 1 + late < QueueLimit
      BY <1>7, <2>1 DEF m, late
    <3>1. q - q + (m - 1) + late < QueueLimit
      BY <1>m, <3>0
    <3>2. queue[Len(queue)] = latest
      BY <1>2, <1>4, <1>7, <2>1 DEF call
    <3> QED BY <1>0, <1>4, <1>m, <3>1, <3>2 DEF Newest, queue, q
  <2>2. CASE i # 1
    <3>0. m - i + late < QueueLimit /\ i \in Nat
      BY <1>0, <1>7 DEF m, late
    <3>1. (m - 1) - (i - 1) + late < QueueLimit
      BY <1>m, <3>0
    <3> QED BY <1>0, <1>2, <1>m, <1>7, <2>2, <3>1 DEF Newest
  <2> QED BY <2>1, <2>2
<1>8. ASSUME NEW i \in DOMAIN events[s], events[s][i] = latest,
             Len(events[s]) - i + Len(ready[s]) + Cardinality(Late(s)) < QueueLimit
      PROVE  Newest(s)'
  <2>0. e - i + m + late < QueueLimit /\ i \in Nat
    BY <1>0, <1>8 DEF e, m, late
  <2>1. CASE i \in DOMAIN queue /\ queue[i] = events[s][i] /\ Len(queue) = Len(events[s]) + 1
    <3>0. q = e + 1
      BY <2>1 DEF q, e
    <3>1. q - i + (m - 1) + late < QueueLimit
      BY <1>m, <2>0, <3>0
    <3> QED BY <1>0, <1>m, <1>8, <2>1, <3>1 DEF Newest, queue, q
  <2>2. CASE /\ i # 1 /\ i - 1 \in DOMAIN queue /\ queue[i - 1] = events[s][i]
             /\ Len(queue) = Len(events[s])
    <3>0. q = e
      BY <2>2 DEF q, e
    <3>1. q - (i - 1) + (m - 1) + late < QueueLimit
      BY <1>m, <2>0, <3>0
    <3> QED BY <1>0, <1>m, <1>8, <2>2, <3>1 DEF Newest, queue, q
  <2>3. ~(i = 1 /\ Len(events[s]) = QueueLimit)
    BY <1>m, <2>0 DEF e
  <2> QED BY <1>4, <2>1, <2>2, <2>3
<1> QED BY <1>6, <1>7, <1>8 DEF Newest

\* The stream takes the newest sample, or one before it.
LEMMA NewestTaken ==
  ASSUME SamplerInv, LiveInv, IsFiniteSet(Request), open,
         NEW s \in Sub, s \in subs, Newest(s), Anext(s)
  PROVE  Newest(s)'
<1>0. /\ ready[s] \in Seq(Sample \cup {End}) /\ events[s] \in Seq(Sample \cup {End})
      /\ events \in [Sub -> Seq(Sample \cup {End})] /\ got \in [Sub -> SUBSET Sample]
      /\ QueueLimit \in Nat /\ DOMAIN events[s] \subseteq Nat /\ Len(events[s]) \in Nat
      /\ Len(ready[s]) \in Nat
      /\ UNCHANGED <<latest, ready, job>>
  BY SamplerAssumption DEF SamplerInv, TypeOK, Anext, Upstream
<1>1. Late(s)' = Late(s) /\ Cardinality(Late(s)) \in Nat
  BY <1>0, FewLate DEF Late
<1>2. ~shut[s] /\ End \notin Members(events[s])
  BY DEF LiveInv
<1>3. CASE events' = events /\ got' = got
  BY <1>0, <1>3, NewestStays
<1>4. CASE events[s] # <<>> /\ Sends(s)
  <2>1. events'[s] = Tail(events[s]) /\ got'[s] = got[s] \cup {Head(events[s])}
    BY <1>0, <1>4 DEF Sends
  <2>2. /\ Len(events'[s]) = Len(events[s]) - 1 /\ Head(events[s]) = events[s][1]
        /\ \A i \in DOMAIN events[s] : i # 1 => i - 1 \in DOMAIN events'[s]
                                                /\ events'[s][i - 1] = events[s][i]
    BY <1>0, <1>4, <2>1, TailParts
  <2>3. ASSUME NEW i \in DOMAIN events[s], events[s][i] = latest,
               Len(events[s]) - i + Len(ready[s]) + Cardinality(Late(s)) < QueueLimit
        PROVE  Newest(s)'
    <3>1. CASE i = 1
      BY <1>0, <2>1, <2>2, <2>3, <3>1 DEF Newest
    <3>2. CASE i # 1
      <4> DEFINE e == Len(events[s])
                 m == Len(ready[s])
                 late == Cardinality(Late(s))
      <4>1. /\ i \in Nat /\ e \in Nat /\ m \in Nat /\ late \in Nat /\ QueueLimit \in Nat
            /\ e - i + m + late < QueueLimit
        BY <1>0, <1>1, <2>3
      <4>2. Len(events'[s]) = e - 1 /\ Len(ready'[s]) = m /\ Cardinality(Late(s)') = late
        BY <1>0, <1>1, <2>2
      <4> HIDE DEF e, m, late
      <4>3. (e - 1) - (i - 1) + m + late < QueueLimit
        BY <4>1
      <4> QED BY <1>0, <2>2, <2>3, <3>2, <4>2, <4>3 DEF Newest
    <3> QED BY <3>1, <3>2
  <2>4. latest \in got[s] => Newest(s)'
    BY <1>0, <2>1 DEF Newest
  <2>5. (\E r \in Recorder : s \in job[r].to /\ job[r].sample = latest) => Newest(s)'
    BY <1>0 DEF Newest
  <2>6. (\E i \in DOMAIN ready[s] :
           /\ ready[s][i] = latest /\ Len(ready[s]) - i + Cardinality(Late(s)) < QueueLimit)
        => Newest(s)'
    BY <1>0, <1>1 DEF Newest
  <2> QED BY <2>3, <2>4, <2>5, <2>6 DEF Newest
<1>5. events[s] # <<>> => Head(events[s]) # End
  BY <1>0, <1>2, TailParts
<1> QED BY <1>2, <1>3, <1>4, <1>5 DEF Anext

\* The newest sample is not lost while fewer are late than a queue holds.
LEMMA NewestKept ==
  ASSUME SamplerInv, OnceInv, LiveInv, NewestInv, IsFiniteSet(Request),
         Cardinality(Request) < QueueLimit, [Next]_vars
  PROVE  NewestInv'
<1>0. /\ ready \in [Sub -> Seq(Sample \cup {End})] /\ events \in [Sub -> Seq(Sample \cup {End})]
      /\ job \in [Recorder -> [sample : Sample \cup {End}, to : SUBSET Sub]]
      /\ subs \subseteq Sub /\ Thread \subseteq Recorder
      /\ QueueLimit \in Nat \ {0}
  BY SamplerAssumption DEF SamplerInv, TypeOK, Recorder
\* What leaves the samples alone
<1>k. ASSUME UNCHANGED <<ready, events, got, job, open>>, subs' \subseteq subs,
             latest' \in {0, latest}
      PROVE  NewestInv'
  <2> SUFFICES ASSUME open, latest' # 0, NEW s \in subs'
               PROVE  Newest(s)'
    BY <1>k DEF NewestInv
  <2>1. Newest(s) /\ latest' = latest
    BY <1>k DEF NewestInv
  <2> QED BY <1>k, <2>1, NewestStays
\* A new sample is late for every subscription.
<1>r. ASSUME NEW r \in Recorder, Recorded(r), subs' = subs
      PROVE  NewestInv'
  <2>1. ASSUME NEW s \in subs
        PROVE  s \in job'[r].to /\ job'[r].sample = latest'
    BY <1>0, <1>r DEF Recorded, Job
  <2> QED BY <1>r, <2>1 DEF NewestInv, Newest
<1>1. ASSUME NEW t \in Thread, Loop(t) \/ Look(t) \/ TakeSample(t) \/ Waited(t) \/ Final(t)
      PROVE  NewestInv'
  <2>1. CASE TakeSample(t)
    BY <1>0, <1>r, <2>1 DEF TakeSample
  <2> QED BY <1>1, <1>k, <2>1 DEF Loop, Look, Waited, Final, Delivery
<1>2. ASSUME NEW r \in Recorder, RequestSample(r)
      PROVE  NewestInv'
  BY <1>2, <1>r DEF RequestSample
<1>3. ASSUME NEW r \in Recorder, Publish(r)
      PROVE  NewestInv'
  <2>1. PICK p \in job[r].to :
          /\ ready' = [ready EXCEPT ![p] = Append(@, job[r].sample)]
          /\ job' = [job EXCEPT ![r] = Job(@.sample, @.to \ {p})]
    BY <1>3 DEF Publish
  <2>2. UNCHANGED <<events, got, latest, subs, open>> /\ p \in Sub
    BY <1>0, <1>3, <2>1 DEF Publish, Delivery
  <2>3. ASSUME open, latest # 0, NEW s \in subs
        PROVE  Newest(s)'
    <3>1. Newest(s) /\ s \in Sub
      BY <1>0, <2>3 DEF NewestInv
    <3>2. CASE s = p
      <4>1. ready'[s] = Append(ready[s], job[r].sample)
        BY <1>0, <2>1, <3>1, <3>2
      <4> QED BY <2>1, <2>2, <3>1, <3>2, <4>1, NewestPublished
    <3>3. CASE s # p
      <4>1. ready'[s] = ready[s]
        BY <1>0, <2>1, <3>1, <3>3
      <4>2. ASSUME NEW q \in Recorder
            PROVE  /\ s \in job'[q].to <=> s \in job[q].to
                   /\ s \in job[q].to => job'[q].sample = job[q].sample
        <5>1. CASE q = r
          BY <1>0, <2>1, <3>3, <5>1 DEF Job
        <5>2. CASE q # r
          BY <1>0, <2>1, <5>2
        <5> QED BY <5>1, <5>2
      <4> QED BY <2>2, <3>1, <4>1, <4>2, NewestStays
    <3> QED BY <3>2, <3>3
  <2> QED BY <2>2, <2>3 DEF NewestInv
<1>4. ASSUME NEW r \in Recorder, Discard(r)
      PROVE  NewestInv'
  BY <1>4 DEF Discard, NewestInv
\* The latest sample is the first event.
<1>5. ASSUME NEW q \in Sub, Subscribe(q)
      PROVE  NewestInv'
  <2>1. /\ UNCHANGED <<ready, got, job, latest, open>> /\ subs' = subs \cup {q}
        /\ \A s \in Sub : s # q => events'[s] = events[s]
        /\ latest # 0 => events'[q] = <<latest>>
    BY <1>0, <1>5 DEF Subscribe
  <2>2. ASSUME latest # 0
        PROVE  Newest(q)'
    <3>1. ready[q] = <<>> /\ Late(q)' = {}
      BY <1>5, <2>1 DEF Subscribe, OnceInv, Once, Late
    <3>2. Cardinality(Late(q)') = 0
      BY <3>1, FS_EmptySet
    <3>e. events'[q] = <<latest>> /\ ready'[q] = <<>> /\ latest' = latest
      BY <2>1, <2>2, <3>1
    <3>3. 1 \in DOMAIN events'[q] /\ events'[q][1] = latest' /\ Len(events'[q]) = 1
          /\ Len(ready'[q]) = 0
      <4>1. 1 \in DOMAIN <<latest>> /\ <<latest>>[1] = latest /\ Len(<<latest>>) = 1
            /\ Len(<<>>) = 0
        OBVIOUS
      <4> QED BY <3>e, <4>1
    <3>4. Len(events'[q]) - 1 + Len(ready'[q]) + Cardinality(Late(q)') < QueueLimit
      BY <1>0, <3>2, <3>3
    <3> QED BY <3>3, <3>4 DEF Newest
  <2>3. ASSUME open, latest # 0, NEW s \in subs, s # q
        PROVE  Newest(s)'
    BY <1>0, <2>1, <2>3, NewestStays DEF NewestInv
  <2> QED BY <2>1, <2>2, <2>3 DEF NewestInv
<1>6. ASSUME NEW q \in Sub, Unsubscribe(q)
      PROVE  NewestInv'
  <2>1. /\ UNCHANGED <<ready, got, job, latest, open>> /\ subs' = subs \ {q}
        /\ \A s \in Sub : s # q => events'[s] = events[s]
    BY <1>0, <1>6 DEF Unsubscribe
  <2> QED BY <1>0, <2>1, NewestStays DEF NewestInv
<1>7. ASSUME NEW q \in Sub, CloseSubscriber(q)
      PROVE  NewestInv'
  BY <1>7 DEF CloseSubscriber, LiveInv, SamplerInv, NewestInv
<1>8. CASE Start \/ Close \/ ResetHistory
  BY <1>8, <1>k DEF Start, Close, ResetHistory, Delivery
\* The event loop
<1>9. ASSUME NEW q \in Sub, RunCall(q) \/ Anext(q) \/ Heartbeat(q)
      PROVE  NewestInv'
  <2>1. UNCHANGED <<job, latest, open, subs>>
    BY <1>9 DEF RunCall, Anext, Heartbeat, Upstream
  <2>2. ASSUME open, latest # 0, NEW s \in subs
        PROVE  Newest(s)'
    <3>1. Newest(s) /\ s \in Sub
      BY <1>0, <2>2 DEF NewestInv
    <3>2. CASE s = q /\ ~Heartbeat(q)
      BY <1>9, <2>2, <3>1, <3>2, NewestCalled, NewestTaken
    <3>3. CASE s # q \/ Heartbeat(q)
      <4>1. ready'[s] = ready[s] /\ events'[s] = events[s] /\ got'[s] = got[s]
        <5>1. CASE Heartbeat(q)
          BY <5>1 DEF Heartbeat, Upstream
        <5>2. CASE s # q /\ RunCall(q)
          BY <1>0, <3>1, <5>2 DEF RunCall
        <5>3. CASE s # q /\ Anext(q)
          <6>1. got \in [Sub -> SUBSET Sample]
            BY DEF SamplerInv, TypeOK
          <6> QED BY <1>0, <3>1, <5>3, <6>1 DEF Anext, Ends, Sends
        <5> QED BY <1>9, <3>3, <5>1, <5>2, <5>3
      <4> QED BY <2>1, <3>1, <4>1, NewestStays
    <3> QED BY <3>2, <3>3
  <2> QED BY <2>1, <2>2 DEF NewestInv
<1>10. CASE LoopCloses
  BY <1>10 DEF LoopCloses, NewestInv
<1>11. CASE UNCHANGED vars
  BY <1>11, <1>k DEF vars
<1> QED BY <1>1, <1>2, <1>3, <1>4, <1>5, <1>6, <1>7, <1>8, <1>9, <1>10, <1>11, NextCases

\* The newest sample arrives, or is on its way, if fewer request threads record samples beside
\* the sampler's than a queue holds: a slow subscription loses old samples (_enqueue), and one
\* that comes while a sample is recorded has it from subscribe or from record_result.
THEOREM NewestReaches ==
  ASSUME IsFiniteSet(Request), Cardinality(Request) < QueueLimit
  PROVE  Spec => []NewestArrives
<1>1. Init => LiveInv /\ NewestInv
  <2> SUFFICES ASSUME Init
               PROVE  LiveInv /\ NewestInv
    OBVIOUS
  <2>1. /\ subs = {} /\ leaving = {} /\ latest = 0
        /\ \A s \in Sub : ~shut[s]
        /\ \A t \in Thread : job[t].to = {}
    BY DEF Init, NoJob, Job, Recorder
  <2> QED BY <2>1 DEF LiveInv, NewestInv
<1>2. SamplerInv /\ OnceInv /\ LiveInv /\ NewestInv /\ [Next]_vars => LiveInv' /\ NewestInv'
  BY LiveKept, NewestKept
<1>3. NewestInv => NewestArrives
  <2> SUFFICES ASSUME NewestInv, NEW s \in subs, open, latest # 0
               PROVE  latest \in got[s] \cup OnTheWay(s)
    BY DEF NewestArrives
  <2>1. Newest(s)
    BY DEF NewestInv
  <2> QED BY <2>1 DEF Newest, OnTheWay
<1> QED BY <1>1, <1>2, <1>3, Invariant, OnceAlways, PTL DEF Spec
=============================================================================
