---------------------------- MODULE QuickValidation ----------------------------
(***************************************************************************)
(* Guided Quick Validation (apps/api/app/trex/quick_validation.py): one    *)
(* durable run document, advanced only by requests.  A start takes a       *)
(* preflight, persists the run, starts the guided group under a watchdog   *)
(* lease and promotes the run; status polls sample it, stop it at its      *)
(* deadline, certify the cleanup and give the verdict.  Every write may    *)
(* fail, the API may crash between any two steps, and other windows of the *)
(* operator use the same traffic authority between requests.               *)
(***************************************************************************)
EXTENDS TrafficService

CONSTANTS
  MaxRun,   \* bound: guided runs
  Window,   \* duration_seconds
  Margin    \* from the normal deadline to the watchdog

ASSUME RunAssumption == MaxRun \in Nat /\ Window \in Nat \ {0} /\ Margin \in Nat \ {0}

VARIABLES
  process,   \* the API process that runs (its process_instance_id)
  doc,       \* durable: the run of the state document
  op,        \* the request under way
  launched   \* history: the traffic run each guided run tried to start, 0 for none

vars == <<service, process, doc, op, launched>>

Terminal == {"pass", "fail", "cancelled"}
Verdict  == {"none", "clean", "lossy", "missing"}

\* at, verdict: the last packet sample, when it was taken and what it says
NoDoc == [id |-> 0, proc |-> 0, phase |-> "fail", created |-> 0, started |-> 0,
          deadline |-> 0, watchdog |-> 0, tsid |-> 0, trun |-> 0, at |-> 0,
          verdict |-> "none", pending |-> "none", recovery |-> FALSE, mode |-> "none",
          ended |-> 0]

Doc == [id : 0..MaxRun, proc : Nat, phase : {"preflight", "running", "stopping"} \cup Terminal,
        created : Nat, started : Nat, deadline : Nat, watchdog : Nat, tsid : Nonce0,
        trun : Nonce0, at : Nat, verdict : Verdict, pending : {"none"} \cup Terminal,
        recovery : BOOLEAN, mode : {"none", "not_started", "operator_stop", "hard_stop"},
        ended : Nat]

\* then: where to go after a snapshot;  seen: what it said of the guided ports, "blind" without
\* a live sample, "fail" without an answer;  pend, recover: what _enter_stopping is called with.
Idle == [pc |-> "idle", then |-> "idle", seen |-> "busy", pend |-> "fail", recover |-> FALSE]

Step == {"idle", "snapshot", "preflight", "launch", "promote", "advance", "inspect", "sample",
         "elapsed", "cancel", "enter", "drive", "attributed", "wait", "certify", "final",
         "failpending", "finish"}
Op == [pc : Step, then : Step, seen : {"idle", "busy", "blind", "fail"}, pend : Terminal,
       recover : BOOLEAN]

TypeOK ==
  /\ ServiceType
  /\ process \in Nat /\ doc \in Doc /\ op \in Op
  /\ launched \in [1..MaxRun -> Nonce0]

Init ==
  /\ ServiceInit
  /\ process = 1 /\ doc = NoDoc /\ op = Idle
  /\ launched = [i \in 1..MaxRun |-> 0]

Busy      == doc.id # 0 /\ doc.phase \notin Terminal
Goto(pc)  == [op EXCEPT !.pc = pc]
Look(pc)  == [op EXCEPT !.pc = "snapshot", !.then = pc]
Stop(pending, recovery) ==
  [op EXCEPT !.pc = "enter", !.pend = pending, !.recover = recovery]

\* A step that leaves the traffic authority alone
Local == UNCHANGED <<now, traffic, process, launched>>

\* A write that fails, before or after its effect, ends the request: the handler raises, or
\* finds that its revision is stale when it writes again.
Save(new, next) ==
  \/ doc' = new /\ op' = next /\ UNCHANGED faults
  \/ Fault("disk") /\ doc' \in {doc, new} /\ op' = Idle

\* A write whose failure the handler takes for bad evidence
SaveOr(new, next, failed) ==
  \/ doc' = new /\ op' = next /\ UNCHANGED faults
  \/ Fault("disk") /\ \/ doc' = doc /\ op' = failed
                      \/ doc' = new /\ op' = Idle

Request(pc) == /\ op.pc = "idle"
               /\ op' = Look(pc) /\ UNCHANGED <<doc, faults>> /\ Local

Seen(seen) == op' = [op EXCEPT !.pc = op.then, !.seen = seen]
Sight(l)   == IF l["guided"] = 0 THEN "idle" ELSE "busy"

\* traffic_runtime_snapshot.  If a recovery fails the ports are shown as they were before it.
Snapshot ==
  /\ op.pc = "snapshot"
  /\ \/ ~NearLease /\ Sampled /\ Seen(Sight(live')) /\ UNCHANGED faults
     \/ ~NearLease /\ Fault("rpc") /\ RecoveryFails /\ Seen(Sight(live))
     \/ NearLease /\ Seen("blind") /\ UNCHANGED <<faults, traffic>>
     \/ Fault("rpc") /\ (Seen("blind") \/ Seen("fail")) /\ UNCHANGED traffic
  /\ UNCHANGED <<now, process, doc, launched>>

-----------------------------------------------------------------------------
(* Evidence *)

GuidedIdle == op.seen = "idle"

\* The first record of the session that may be the guided run: its lease is the watchdog, or
\* was cleared when it stopped.
Matching(runs) ==
  {n \in runs : rec[n].grp = "guided" /\ rec[n].lease \in {doc.watchdog, 0}}
Candidate ==
  LET first(runs) == IF runs = {} THEN 0 ELSE CHOOSE n \in runs : \A m \in runs : n <= m
  IN IF Matching(sess.groups) # {} THEN first(Matching(sess.groups))
     ELSE first(Matching(sess.completed))

\* (mutant of Validated: any record of the guided group will do, however old)
ValidatedAnyAge ==
  LET n == Candidate IN
  /\ n # 0
  /\ doc.tsid \in {0, sess.id} /\ doc.trun \in {0, n}
  /\ rec[n].at <= doc.watchdog
  /\ (rec[n].st = "stopped") <=> ~SessionActive
  /\ rec[n].st = "active" => rec[n].lease = doc.watchdog

\* _validated_started_session
Validated ==
  LET n == Candidate IN
  /\ n # 0
  /\ doc.tsid \in {0, sess.id} /\ doc.trun \in {0, n}
  /\ doc.created <= rec[n].at /\ rec[n].at <= doc.watchdog
  /\ (rec[n].st = "stopped") <=> ~SessionActive
  /\ rec[n].st = "active" => rec[n].lease = doc.watchdog

\* _validated_cleanup
Certified ==
  /\ GuidedIdle /\ wal.op = "none"
  /\ sess.id = doc.tsid /\ ~SessionActive /\ Validated
  /\ rec[doc.trun].how \in {"operator_stop", "hard_stop"} /\ rec[doc.trun].exact

Bound(d) == [d EXCEPT !.tsid = sess.id, !.trun = Candidate, !.started = rec[Candidate].at,
                      !.deadline = rec[Candidate].at + Window]

-----------------------------------------------------------------------------
(* Requests *)

\* (mutant of Restarted: a settled run is marked too)
RestartedAny == doc.id # 0 /\ doc.proc # process /\ ~(doc.phase = "stopping" /\ doc.recovery)
\* _mark_restart_recovery
Restarted == Busy /\ doc.proc # process /\ ~(doc.phase = "stopping" /\ doc.recovery)
Marked == [doc EXCEPT !.phase = "stopping", !.pending = "fail", !.recovery = TRUE]

\* Timestamps have microseconds: a traffic run of before was started before.
StartRun ==
  /\ ~Busy /\ doc.id < MaxRun
  /\ \A n \in 1..nonce : rec[n].at < now
  /\ Request("preflight")

Poll ==
  /\ Busy /\ ~Restarted
  /\ op.pc = "idle" /\ op' = Goto("advance")
  /\ UNCHANGED <<doc, faults>> /\ Local

Mark ==
  /\ op.pc = "idle" /\ Restarted
  /\ Save(Marked, Goto("advance"))
  /\ Local

\* A start or a cancel that has to mark the run first is refused: the run is active, or its
\* revision is no longer the one that the request names.
MarkOnly ==
  /\ op.pc = "idle" /\ Restarted
  /\ Save(Marked, Idle)
  /\ Local

Cancel ==
  /\ Busy /\ ~Restarted
  /\ op.pc = "idle" /\ op' = Goto("cancel")
  /\ UNCHANGED <<doc, faults>> /\ Local

-----------------------------------------------------------------------------
(* start *)

Preflight ==
  /\ op.pc = "preflight"
  /\ IF /\ GuidedIdle /\ wal.op = "none" /\ ~SessionActive
        /\ now + Window + Margin <= MaxTime   \* bound: the clock reaches the watchdog
     THEN Save([NoDoc EXCEPT !.id = doc.id + 1, !.proc = process, !.phase = "preflight",
                             !.created = now, !.deadline = now + Window,
                             !.watchdog = now + Window + Margin],
               Goto("launch"))
     ELSE op' = Idle /\ UNCHANGED <<doc, faults>>
  /\ Local

\* start_traffic_group with the watchdog as its lease
Launch ==
  /\ op.pc = "launch"
  /\ wal.op = "none" /\ ~SessionActive /\ live["guided"] = 0 /\ Baseline /\ nonce < MaxNonce
  /\ now < doc.watchdog
  /\ nonce' = nonce + 1
  /\ launched' = [launched EXCEPT ![doc.id] = nonce']
  /\ \/ /\ live' = [live EXCEPT !["guided"] = nonce']
        /\ rec' = [rec EXCEPT ![nonce'] = Opened("guided", doc.watchdog)]
        /\ sess' = SessionWith(nonce', "guided")
        /\ op' = Goto("promote")
        /\ UNCHANGED <<faults, wal, process>>
     \/ /\ wal' \in [op : {"start"}, n : {nonce'}, lease : {doc.watchdog},
                     phase : {"prepared", "cleanup_required"}, sent : BOOLEAN,
                     other : {live["other"] # 0}]
        /\ live' \in {live} \cup IF wal'.sent THEN {[live EXCEPT !["guided"] = nonce']} ELSE {}
        /\ \/ Fault("rpc") /\ op' = Stop("fail", TRUE) /\ UNCHANGED process
           \/ /\ Fault("crash") /\ wal'.phase = "prepared"
              /\ op' = Idle /\ process' = process + 1
        /\ UNCHANGED <<rec, sess>>
  /\ UNCHANGED <<now, doc, reaped>>

LaunchRefused ==
  /\ op.pc = "launch"
  /\ op' = Stop("fail", TRUE)
  /\ UNCHANGED <<doc, faults>> /\ Local

\* (mutant of Promoted: the window is not compared with the watchdog)
PromotedAlways == [Bound(doc) EXCEPT !.phase = "running"]
\* _promote_running: too little is left of the watchdog for the whole window, or the run is on.
Promoted ==
  IF rec[Candidate].at + Window < doc.watchdog
  THEN [Bound(doc) EXCEPT !.phase = "running"]
  ELSE [Bound(doc) EXCEPT !.phase = "stopping", !.pending = "fail"]

Promote ==
  /\ op.pc = "promote"
  /\ IF Validated
     THEN SaveOr(Promoted, Goto("advance"), Stop("fail", TRUE))
     ELSE op' = Stop("fail", TRUE) /\ UNCHANGED <<doc, faults>>
  /\ Local

-----------------------------------------------------------------------------
(* _advance *)

\* (mutant of Advance: a run left in preflight is nobody's business)
AdvanceForgetsPreflight ==
  /\ op.pc = "advance"
  /\ op' = CASE doc.phase = "preflight" -> Idle
             [] doc.phase = "running"   -> Look("inspect")
             [] doc.phase = "stopping"  -> Look("drive")
  /\ UNCHANGED <<doc, faults>> /\ Local

Advance ==
  /\ op.pc = "advance"
  /\ op' = CASE doc.phase = "preflight" -> Stop("fail", TRUE)
             [] doc.phase = "running"   -> Look("inspect")
             [] doc.phase = "stopping"  -> Look("drive")
  /\ UNCHANGED <<doc, faults>> /\ Local

Inspect ==
  /\ op.pc = "inspect"
  /\ op' = IF op.seen = "fail" \/ ~Validated THEN Stop("fail", TRUE)
           ELSE IF SessionActive THEN Goto("sample")
           ELSE IF rec[Candidate].ended >= doc.deadline THEN Stop("pass", FALSE)
           ELSE Stop("fail", FALSE)
  /\ UNCHANGED <<doc, faults>> /\ Local

\* _append_sample.  A sample fails when TRex does not answer, or its counters were reset.
TakesSample(next, failed) ==
  \/ \E verdict \in Verdict \ {"none"} :
       SaveOr([doc EXCEPT !.at = now, !.verdict = verdict], next, failed)
  \/ Fault("rpc") /\ op' = failed /\ UNCHANGED doc

Sample ==
  /\ op.pc = "sample"
  /\ TakesSample(Goto("elapsed"), Stop("fail", FALSE))
  /\ Local

Elapsed ==
  /\ op.pc = "elapsed"
  /\ op' = IF now < doc.deadline THEN Idle ELSE Stop("pass", FALSE)
  /\ UNCHANGED <<doc, faults>> /\ Local

\* cancel: a last sample if there is one to be had, then the stop
CancelRun ==
  /\ op.pc = "cancel"
  /\ CASE doc.phase = "running" ->
            TakesSample(Stop("cancelled", FALSE), Stop("cancelled", FALSE))
       [] doc.phase = "preflight" ->
            op' = Stop("cancelled", FALSE) /\ UNCHANGED <<doc, faults>>
       [] doc.phase = "stopping" -> Save([doc EXCEPT !.pending = "cancelled"], Look("drive"))
  /\ Local

\* _enter_stopping
EnterStopping ==
  /\ op.pc = "enter"
  /\ IF doc.phase = "stopping" THEN op' = Look("drive") /\ UNCHANGED <<doc, faults>>
     ELSE Save([doc EXCEPT !.phase = "stopping", !.pending = op.pend,
                           !.recovery = op.recover], Look("drive"))
  /\ Local

-----------------------------------------------------------------------------
(* _drive_stopping *)

\* (mutant of Waits: a pass stays pending)
WaitsHopeful == Save([doc EXCEPT !.recovery = TRUE], Idle)

\* _set_recovery_detail: the run waits for the next request, and can no longer pass.
Waits == Save([doc EXCEPT !.recovery = TRUE,
                          !.pending = IF @ = "pass" THEN "fail" ELSE @], Idle)

\* _finish
Verdicted(d, how, ended) ==
  IF d.pending # "pass" THEN d.pending
  ELSE IF how # "hard_stop" /\ ended >= d.deadline /\ d.at >= d.deadline
          /\ d.verdict = "clean"
       THEN "pass" ELSE "fail"

\* (mutant of Finished: the pending verdict is cleared before it is read)
FinishedCleared(d, verdict, how, ended) ==
  [d EXCEPT !.pending = "none", !.recovery = FALSE, !.mode = how, !.ended = ended,
            !.phase = IF verdict = d.pending THEN "none" ELSE verdict]

Finished(d, verdict, how, ended) ==
  [d EXCEPT !.phase = verdict, !.pending = "none", !.recovery = FALSE, !.mode = how,
            !.ended = ended]

\* (mutant of Drive: idle ports are proof enough, whatever intent is pending)
DriveEarly ==
  /\ op.pc = "drive"
  /\ IF doc.tsid = 0 /\ ~Validated /\ GuidedIdle
     THEN Save(Finished(doc, "fail", "not_started", now), Idle)
     ELSE IF op.seen = "fail" \/ wal.op # "none" THEN Waits
     ELSE IF doc.tsid # 0 THEN op' = Goto("attributed") /\ UNCHANGED <<doc, faults>>
     ELSE IF Validated THEN Save(Bound(doc), Goto("attributed"))
     ELSE Waits
  /\ Local

Drive ==
  /\ op.pc = "drive"
  /\ IF op.seen = "fail" \/ wal.op # "none" THEN Waits
     ELSE IF doc.tsid # 0 THEN op' = Goto("attributed") /\ UNCHANGED <<doc, faults>>
     ELSE IF Validated THEN Save(Bound(doc), Goto("attributed"))
     ELSE IF GuidedIdle THEN Save(Finished(doc, "fail", "not_started", now), Idle)
     ELSE Waits
  /\ Local

\* The session is the run's own: it is stopped already, or it is stopped now.
Attributed ==
  /\ op.pc = "attributed"
  /\ sess.id # doc.tsid \/ ~SessionActive
  /\ IF sess.id # doc.tsid THEN Waits
     ELSE op' = Goto("certify") /\ UNCHANGED <<doc, faults>>
  /\ Local

\* traffic_action("stop") on the guided ports; a run that ended keeps its evidence.
StopTraffic ==
  /\ op.pc = "attributed"
  /\ sess.id = doc.tsid /\ SessionActive /\ Baseline
  /\ live' = [live EXCEPT !["guided"] = 0]
  /\ rec' = [n \in Nonce |-> IF n \in ActiveRuns /\ rec[n].grp = "guided"
                             THEN Ended(rec[n], "operator_stop", TRUE) ELSE rec[n]]
  /\ op' = Look("certify")
  /\ UNCHANGED <<now, faults, sess, wal, nonce, reaped, process, doc, launched>>

\* The stop is refused, or its outcome is not known and its intent stays.
StopFails ==
  /\ op.pc = "attributed"
  /\ sess.id = doc.tsid /\ SessionActive
  /\ \/ ~Baseline /\ UNCHANGED <<live, wal, faults>>
     \/ Fault("rpc") /\ UNCHANGED <<live, wal>>
     \/ /\ Fault("rpc") /\ Baseline
        /\ \E n \in ActiveRuns :
             /\ rec[n].grp = "guided"
             /\ live' \in {live, [live EXCEPT !["guided"] = 0]}
             /\ wal' = [NoWal EXCEPT !.op = "stop", !.n = n, !.other = live["other"] # 0]
  /\ op' = Goto("wait")
  /\ UNCHANGED <<now, rec, sess, nonce, reaped, process, doc, launched>>

Wait ==
  /\ op.pc = "wait"
  /\ Waits
  /\ Local

\* (mutant of Certify: a pass needs no sample after the stop)
CertifyWithoutSample ==
  /\ op.pc = "certify"
  /\ IF ~Certified THEN Waits
     ELSE op' = Goto("finish") /\ UNCHANGED <<doc, faults>>
  /\ Local

Certify ==
  /\ op.pc = "certify"
  /\ IF ~Certified THEN Waits
     ELSE op' = Goto(IF doc.pending = "pass" THEN "final" ELSE "finish")
          /\ UNCHANGED <<doc, faults>>
  /\ Local

\* The last sample of a candidate for a pass; without it the run fails.
FinalSample ==
  /\ op.pc = "final"
  /\ TakesSample(Goto("finish"), Goto("failpending"))
  /\ Local

FailPending ==
  /\ op.pc = "failpending"
  /\ Save([doc EXCEPT !.pending = "fail", !.recovery = FALSE], Goto("finish"))
  /\ Local

Finish ==
  /\ op.pc = "finish"
  /\ LET r == rec[doc.trun]
     IN Save(Finished(doc, Verdicted(doc, r.how, r.ended), r.how, r.ended), Idle)
  /\ Local

-----------------------------------------------------------------------------
Crash ==
  /\ Fault("crash")
  /\ process' = process + 1 /\ op' = Idle
  /\ UNCHANGED <<now, traffic, doc, launched>>

Quiet == op.pc = "idle"   \* no request holds the lock
Aside == UNCHANGED <<process, doc, op, launched>>

Requests == StartRun \/ Poll \/ Mark \/ MarkOnly \/ Cancel
Execute ==
  \/ Snapshot \/ Preflight \/ Launch \/ LaunchRefused \/ Promote \/ Advance \/ Inspect
  \/ Sample \/ Elapsed \/ CancelRun \/ EnterStopping \/ Drive \/ Attributed \/ StopTraffic
  \/ StopFails \/ Wait \/ Certify \/ FinalSample \/ FailPending \/ Finish
Others ==
  \/ Quiet /\ Read /\ Aside
  \/ \E g \in Group : Quiet /\ ClientStart(g) /\ Aside
  \/ \E stopped \in SUBSET Nonce : Quiet /\ ClientStop(stopped) /\ Aside
  \/ Quiet /\ Reap /\ Aside
  \/ TrexExit /\ Aside
  \/ Controller /\ Aside
  \/ Tick /\ Aside

Next == Requests \/ Execute \/ Others \/ Crash
Spec == Init /\ [][Next]_vars

\* The thread of a request runs on, the reaper gets the lock between two requests, and time
\* passes.  That anybody polls is not assumed.
FairSpec == Spec /\ WF_vars(Execute) /\ SF_vars(Quiet /\ Reap /\ Aside)
                 /\ WF_vars(Tick /\ Aside)

-----------------------------------------------------------------------------
(* Properties *)

Own == IF doc.id = 0 THEN 0 ELSE launched[doc.id]   \* what the current run tried to start

\* A run passes only with the traffic it started itself, which transmitted for the whole
\* window, was ended by a commanded stop of exactly its ports, and was sampled after that
\* (start, _validated_cleanup, the final _append_sample and _finish together).
PassIsEarned ==
  doc.id # 0 /\ doc.phase = "pass" =>
    LET r == rec[Own] IN
    /\ doc.trun = Own /\ Own # 0
    /\ r.how = "operator_stop" /\ r.exact
    /\ r.ended >= r.at + Window
    /\ doc.at >= r.ended

\* Once anything went wrong a run cannot pass: after a restart of the API, a cleanup that had
\* to wait, or a verdict that is not a pass, whatever later requests do.
FailClosed ==
  [][Busy /\ doc' # doc
       /\ (doc.recovery \/ doc.proc # process \/ doc.pending \in {"fail", "cancelled"})
     => doc'.phase # "pass" /\ doc'.pending # "pass"]_vars

\* A settled run is evidence: nothing changes it, and only a new start replaces it.
SettledOnce ==
  [][doc.id # 0 /\ ~Busy
     => (doc' = doc \/ (doc'.id = doc.id + 1 /\ doc'.phase = "preflight"))]_vars

\* A settled run has no traffic left, and no intent that could still start some
\* (_ports_are_idle, _validated_cleanup, the WAL checks of _drive_stopping).
SettledIsQuiet ==
  \A i \in 1..MaxRun :
    launched[i] # 0 /\ (i < doc.id \/ (i = doc.id /\ ~Busy))
    => live["guided"] # launched[i] /\ ~(wal.op = "start" /\ wal.n = launched[i])

\* Where nobody else starts traffic, a settled run names the traffic it started, or says that
\* it started none (_bind_recovered_session, _finish_without_start).
EvidenceIsOwn ==
  doc.id # 0 /\ ~Busy =>
    /\ doc.trun = IF Own # 0 /\ rec[Own].st # "none" THEN Own ELSE 0
    /\ doc.mode = "not_started" <=> doc.trun = 0

\* No write is refused by the validator of the document, which would leave the run stuck
\* (QuickValidationRunState.phase_evidence_must_be_consistent).
DocumentValid ==
  doc.id # 0 =>
    /\ doc.deadline = (IF doc.started = 0 THEN doc.created ELSE doc.started) + Window
    /\ doc.phase \in {"running", "pass"} \/ doc.pending = "pass" => doc.watchdog > doc.deadline
    /\ doc.tsid # 0 <=> doc.trun # 0
    /\ doc.phase = "running" => doc.tsid # 0 /\ doc.started # 0
    /\ doc.phase = "preflight" => doc.tsid = 0 /\ doc.started = 0
    /\ doc.phase = "stopping" <=> doc.pending # "none"
    /\ doc.phase \in Terminal <=> doc.mode # "none" /\ doc.ended # 0
    /\ doc.phase \in Terminal => ~doc.recovery
    /\ doc.phase = "pass" => doc.tsid # 0 /\ doc.mode # "not_started"

\* If somebody polls, every run is settled: no failure of a write or an RPC and no crash
\* leaves it active for good.
RunsEnd == WF_vars(Poll \/ Mark) => (Busy ~> ~Busy)

\* The safety authority: traffic of a guided run ends even if nobody polls again.
TrafficEnds ==
  \A i \in 1..MaxRun : LET runs == live["guided"] # 0 /\ live["guided"] = launched[i]
                       IN runs ~> ~runs

\* docs/DEVELOPMENT.md: when the hard-stop lease fires, the guided result is fail-closed.
WatchdogNeverPasses == doc.id # 0 /\ doc.phase = "pass" => doc.trun \notin reaped
=============================================================================
