------------------------------ MODULE StatsSampler ------------------------------
(***************************************************************************)
(* The stats sampler (apps/api/app/trex/stats_sampler.py): a thread that   *)
(* runs while there are subscribers, requests that record samples of their *)
(* own beside it, and the event loop on which every subscriber has a       *)
(* bounded queue and a consumer, the server-sent event stream.  One action *)
(* is what a thread does under the state lock, or one turn of the loop.    *)
(***************************************************************************)
EXTENDS Naturals, FiniteSets, Sequences

CONSTANTS
  Sub,              \* subscriptions, each used once
  Request,          \* request threads that record a sample (record_result)
  Thread,           \* identities of sampler threads
  None,             \* no thread
  QueueLimit,       \* STATS_SUBSCRIBER_QUEUE_LIMIT
  MaxSubscribers,   \* max_subscribers
  MaxSample         \* bound: samples recorded

ASSUME SamplerAssumption ==
  /\ Thread # {} /\ None \notin Thread /\ Request \cap Thread = {}
  /\ QueueLimit \in Nat \ {0} /\ MaxSubscribers \in Nat \ {0} /\ MaxSample \in Nat

VARIABLES
  closed,     \* _closed
  stop,       \* _stop_event
  thread,     \* _thread, None when it has ended
  pc,         \* where each sampler thread is
  subs,       \* _subscribers
  sequence,   \* _sequence
  latest,     \* _latest, 0 for none
  job,        \* per recording thread: the sample it publishes, and to whom still
  leaving,    \* subscriptions taken out of _subscribers and not yet closed
  shut,       \* closed of each subscription
  events,     \* events of each subscription
  ready,      \* the event loop: what other threads called it for, per subscription in order
  open,       \* the event loop runs
  consumer,   \* the stream of each subscription
  got         \* history: the samples that a stream was sent, until it ended

vars == <<closed, stop, thread, pc, subs, sequence, latest, job, leaving, shut, events,
          ready, open, consumer, got>>

Sample == 1..MaxSample
End    == 0      \* _SUBSCRIPTION_CLOSED, and the call that puts it there
Recorder == Thread \cup Request
Job(n, to) == [sample |-> IF to = {} THEN End ELSE n, to |-> to]
NoJob      == Job(End, {})

TypeOK ==
  /\ closed \in BOOLEAN /\ stop \in BOOLEAN /\ open \in BOOLEAN
  /\ thread \in Thread \cup {None}
  /\ pc \in [Thread -> {"dead", "loop", "look", "stats", "publish", "final"}]
  /\ subs \in SUBSET Sub /\ leaving \in SUBSET Sub
  /\ sequence \in 0..MaxSample /\ latest \in 0..MaxSample
  /\ job \in [Recorder -> [sample : Sample \cup {End}, to : SUBSET Sub]]
  /\ shut \in [Sub -> BOOLEAN]
  /\ events \in [Sub -> Seq(Sample \cup {End})]
  /\ \A s \in Sub : Len(events[s]) <= QueueLimit
  /\ ready \in [Sub -> Seq(Sample \cup {End})]
  /\ consumer \in [Sub -> {"new", "next", "blocked", "done"}]
  /\ got \in [Sub -> SUBSET Sample]

Init ==
  /\ closed = FALSE /\ stop = FALSE /\ open = TRUE /\ thread = None
  /\ pc = [t \in Thread |-> "dead"]
  /\ subs = {} /\ leaving = {} /\ sequence = 0 /\ latest = 0
  /\ job = [r \in Recorder |-> NoJob]
  /\ shut = [s \in Sub |-> FALSE] /\ events = [s \in Sub |-> <<>>]
  /\ ready = [s \in Sub |-> <<>>] /\ consumer = [s \in Sub |-> "new"]
  /\ got = [s \in Sub |-> {}]

-----------------------------------------------------------------------------
(* The thread *)

\* (mutant of StartLocked: a thread that still runs does not keep another from starting)
StartAnother ==
  /\ stop' = FALSE
  /\ \E t \in Thread : pc[t] = "dead" /\ thread' = t /\ pc' = [pc EXCEPT ![t] = "loop"]

StartLocked ==
  /\ stop' = FALSE
  /\ IF thread # None THEN UNCHANGED <<thread, pc>>
     ELSE LET t == CHOOSE t \in Thread : pc[t] = "dead"
          IN thread' = t /\ pc' = [pc EXCEPT ![t] = "loop"]

Goto(t, where) == pc' = [pc EXCEPT ![t] = where]
Delivery == UNCHANGED <<shut, events, open, consumer, got>>

Loop(t) ==
  /\ pc[t] = "loop"
  /\ Goto(t, IF stop THEN "final" ELSE "look")
  /\ UNCHANGED <<closed, stop, thread, subs, sequence, latest, job, leaving, ready>>
  /\ Delivery

Look(t) ==
  /\ pc[t] = "look"
  /\ Goto(t, IF closed \/ subs = {} THEN "final" ELSE "stats")
  /\ UNCHANGED <<closed, stop, thread, subs, sequence, latest, job, leaving, ready>>
  /\ Delivery

\* (mutant of Recorded: the subscribers are read after the lock was released)
RecordedForAll(r) ==
  /\ sequence < MaxSample
  /\ sequence' = sequence + 1 /\ latest' = sequence'
  /\ job' = [job EXCEPT ![r] = Job(sequence', Sub)]

\* record_result: number the sample, and remember who is there
Recorded(r) ==
  /\ sequence < MaxSample
  /\ sequence' = sequence + 1 /\ latest' = sequence'
  /\ job' = [job EXCEPT ![r] = Job(sequence', subs)]

TakeSample(t) ==
  /\ pc[t] = "stats"
  /\ Recorded(t) /\ Goto(t, "publish")
  /\ UNCHANGED <<closed, stop, thread, subs, leaving, ready>> /\ Delivery

RequestSample(r) ==
  /\ job[r].to = {} /\ Recorded(r)
  /\ UNCHANGED <<closed, stop, thread, pc, subs, leaving, ready>> /\ Delivery

\* _publish to one subscriber, on the event loop
Publish(r) ==
  /\ open
  /\ \E s \in job[r].to :
       /\ ready' = [ready EXCEPT ![s] = Append(@, job[r].sample)]
       /\ job' = [job EXCEPT ![r] = Job(@.sample, @.to \ {s})]
  /\ UNCHANGED <<closed, stop, thread, pc, subs, sequence, latest, leaving>> /\ Delivery

\* The loop is closed: _discard_subscriber
Discard(r) ==
  /\ ~open
  /\ \E s \in job[r].to :
       /\ job' = [job EXCEPT ![r] = Job(@.sample, @.to \ {s})]
       /\ subs' = subs \ {s} /\ stop' = (stop \/ subs' = {})
       /\ shut' = [shut EXCEPT ![s] = TRUE]
  /\ UNCHANGED <<closed, thread, pc, sequence, latest, leaving, events, ready, open,
                 consumer, got>>

\* The sample is published, and the interval over or the stop event set.
Waited(t) ==
  /\ pc[t] = "publish" /\ job[t].to = {} /\ Goto(t, "loop")
  /\ UNCHANGED <<closed, stop, thread, subs, sequence, latest, job, leaving, ready>>
  /\ Delivery

\* (mutant of Final: the thread ends, whoever came meanwhile)
FinalForGood(t) ==
  /\ pc[t] = "final"
  /\ thread' = IF thread = t THEN None ELSE thread
  /\ Goto(t, "dead")
  /\ UNCHANGED <<closed, stop, subs, sequence, latest, job, leaving, ready>> /\ Delivery

\* The finally clause: a subscriber that came while the thread was ending gets a new one, for
\* which the model uses the identity of the old.
Final(t) ==
  /\ pc[t] = "final"
  /\ LET kept  == IF thread = t THEN None ELSE thread
         again == ~closed /\ subs # {}
     IN /\ stop' = (stop /\ ~again)
        /\ thread' = IF again /\ kept = None THEN t ELSE kept
        /\ Goto(t, IF again /\ kept = None THEN "loop" ELSE "dead")
  /\ UNCHANGED <<closed, subs, sequence, latest, job, leaving, ready>> /\ Delivery

-----------------------------------------------------------------------------
(* Subscriptions *)

\* start
Start ==
  /\ ~closed /\ StartLocked
  /\ UNCHANGED <<closed, subs, sequence, latest, job, leaving, ready>> /\ Delivery

\* subscribe, on the event loop; the latest sample is the first event
Subscribe(s) ==
  /\ open /\ consumer[s] = "new" /\ ~closed /\ Cardinality(subs) < MaxSubscribers
  /\ subs' = subs \cup {s}
  /\ events' = [events EXCEPT ![s] = IF latest # 0 THEN <<latest>> ELSE <<>>]
  /\ consumer' = [consumer EXCEPT ![s] = "next"]
  /\ StartLocked
  /\ UNCHANGED <<closed, sequence, latest, job, leaving, shut, ready, open, got>>

\* unsubscribe, which the stream and its handler call on the event loop; a second call finds
\* nothing to do
Unsubscribe(s) ==
  /\ open /\ consumer[s] # "new" /\ ~shut[s]
  /\ subs' = subs \ {s} /\ stop' = (stop \/ subs' = {})
  /\ shut' = [shut EXCEPT ![s] = TRUE] /\ events' = [events EXCEPT ![s] = <<End>>]
  /\ UNCHANGED <<closed, thread, pc, sequence, latest, job, leaving, ready, open, consumer,
                 got>>

\* close, on a request thread: the subscriptions are closed one by one after the lock is released
Close ==
  /\ ~closed
  /\ closed' = TRUE /\ stop' = TRUE
  /\ leaving' = subs /\ subs' = {}
  /\ UNCHANGED <<thread, pc, sequence, latest, job, ready>> /\ Delivery

\* (mutant of CloseSubscriber: a subscription closed from another thread is not signalled)
CloseSilently(s) ==
  /\ s \in leaving /\ leaving' = leaving \ {s}
  /\ shut' = [shut EXCEPT ![s] = TRUE]
  /\ UNCHANGED <<closed, stop, thread, pc, subs, sequence, latest, job, events, ready, open,
                 consumer, got>>

\* _close_subscriber on that thread
CloseSubscriber(s) ==
  /\ s \in leaving /\ leaving' = leaving \ {s}
  /\ shut' = [shut EXCEPT ![s] = TRUE]
  /\ ready' = IF shut[s] \/ ~open THEN ready ELSE [ready EXCEPT ![s] = Append(@, End)]
  /\ UNCHANGED <<closed, stop, thread, pc, subs, sequence, latest, job, events, open,
                 consumer, got>>

ResetHistory ==
  /\ latest' = 0
  /\ UNCHANGED <<closed, stop, thread, pc, subs, sequence, job, leaving, ready>> /\ Delivery

-----------------------------------------------------------------------------
(* The event loop *)

Upstream == UNCHANGED <<closed, stop, thread, pc, subs, sequence, latest, job, leaving, shut,
                        open>>

\* (mutant of Enqueued: a full queue refuses the new sample)
EnqueuedIfRoom(queue, sample) ==
  IF Len(queue) < QueueLimit THEN Append(queue, sample) ELSE queue
\* (mutant of Enqueued: the queue has no limit)
EnqueuedAlways(queue, sample) == Append(queue, sample)
\* _enqueue: a full queue loses its oldest sample
Enqueued(queue, sample) ==
  Append(IF Len(queue) < QueueLimit THEN queue ELSE Tail(queue), sample)

\* The loop runs the next call that another thread made.
RunCall(s) ==
  /\ open /\ ready[s] # <<>>
  /\ events' = [events EXCEPT ![s] = IF Head(ready[s]) = End THEN <<End>>
                                     ELSE IF shut[s] THEN @ ELSE Enqueued(@, Head(ready[s]))]
  /\ ready' = [ready EXCEPT ![s] = Tail(@)]
  /\ Upstream /\ UNCHANGED <<consumer, got>>

\* The stream ends; what is queued for it is dropped with it.
Ends(s) == /\ consumer' = [consumer EXCEPT ![s] = "done"]
           /\ events' = [events EXCEPT ![s] = <<>>] /\ got' = [got EXCEPT ![s] = {}]
Sends(s) == /\ consumer' = [consumer EXCEPT ![s] = "next"]
            /\ events' = [events EXCEPT ![s] = Tail(@)]
            /\ got' = [got EXCEPT ![s] = @ \cup {Head(events[s])}]

\* (mutant of Anext: what is queued is still sent after the subscription was closed)
AnextQueued(s) ==
  /\ open /\ consumer[s] \in {"next", "blocked"}
  /\ \/ /\ consumer[s] = "next" /\ events[s] = <<>>
        /\ consumer' = [consumer EXCEPT ![s] = "blocked"] /\ UNCHANGED <<events, got>>
     \/ events[s] # <<>> /\ IF Head(events[s]) = End THEN Ends(s) ELSE Sends(s)
  /\ Upstream /\ UNCHANGED ready

\* __anext__: the stream ends if its subscription is closed, waits on an empty queue, or sends
\* an event.
Anext(s) ==
  /\ open /\ consumer[s] \in {"next", "blocked"}
  /\ \/ consumer[s] = "next" /\ shut[s] /\ Ends(s)
     \/ /\ consumer[s] = "next" /\ ~shut[s] /\ events[s] = <<>>
        /\ consumer' = [consumer EXCEPT ![s] = "blocked"] /\ UNCHANGED <<events, got>>
     \/ /\ events[s] # <<>>
        /\ IF shut[s] \/ Head(events[s]) = End THEN Ends(s) ELSE Sends(s)
  /\ Upstream /\ UNCHANGED ready

\* stats_sse_events gives up waiting, sends a heartbeat and waits again.
Heartbeat(s) ==
  /\ open /\ consumer[s] = "blocked" /\ events[s] = <<>>
  /\ consumer' = [consumer EXCEPT ![s] = "next"]
  /\ Upstream /\ UNCHANGED <<events, ready, got>>

\* The server ends, and the streams with it; daemon threads run on.
LoopCloses ==
  /\ open /\ open' = FALSE /\ ready' = [s \in Sub |-> <<>>]
  /\ consumer' = [s \in Sub |-> "done"] /\ events' = [s \in Sub |-> <<>>]
  /\ got' = [s \in Sub |-> {}]
  /\ UNCHANGED <<closed, stop, thread, pc, subs, sequence, latest, job, leaving, shut>>

-----------------------------------------------------------------------------
Steps(t) == \/ Loop(t) \/ Look(t) \/ TakeSample(t) \/ Waited(t) \/ Final(t)
            \/ Publish(t) \/ Discard(t)

Next ==
  \/ \E t \in Thread : Steps(t)
  \/ \E r \in Request : RequestSample(r) \/ Publish(r) \/ Discard(r)
  \/ \E s \in Sub : Subscribe(s) \/ Unsubscribe(s) \/ CloseSubscriber(s) \/ Anext(s)
                    \/ Heartbeat(s) \/ RunCall(s)
  \/ Start \/ Close \/ ResetHistory \/ LoopCloses

Spec == Init /\ [][Next]_vars

-----------------------------------------------------------------------------
(* Properties *)

\* No wakeup is lost: subscribers come and go while the thread is ending, yet there is never a
\* second one, and while there are subscribers there is one that nothing tells to stop
\* (_start_locked, the finally clause of _run, unsubscribe).
OneSampler ==
  /\ \A t \in Thread : pc[t] # "dead" => thread = t
  /\ subs # {} => thread # None /\ ~stop

\* The samples that are on their way to a subscription
OnTheWay(s) == {job[r].sample : r \in {q \in Recorder : s \in job[q].to}}
               \cup {ready[s][i] : i \in DOMAIN ready[s]}
               \cup {events[s][i] : i \in DOMAIN events[s]}

\* A subscriber that is too slow loses old samples, never the newest (_enqueue), and one that
\* came while a sample was recorded has it from one side or the other (subscribe).
NewestArrives ==
  \A s \in subs : open /\ latest # 0 /\ consumer[s] # "done"
                  => latest \in got[s] \cup OnTheWay(s)

\* A sample does not reach a subscription from both sides, or twice (subscribe, record_result).
SentOnce ==
  [][\A s \in Sub : consumer'[s] = "next" /\ Len(events'[s]) < Len(events[s])
                    => Head(events[s]) \notin got[s]]_vars

\* A stream says nothing more once its subscription was closed, whatever is queued for it.
ClosedIsSilent == [][\A s \in Sub : shut[s] => got'[s] \subseteq got[s]]_vars

\* A stream that waits is woken when its subscription is closed, whoever closes it, even if no
\* sample ever comes again (_close_subscriber, _signal_closed).
ClosedWakes ==
  \A s \in Sub :
    open /\ shut[s] /\ consumer[s] = "blocked"
    => events[s] # <<>> \/ \E i \in DOMAIN ready[s] : ready[s][i] = End
=============================================================================
