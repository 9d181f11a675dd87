------------------------- MODULE QuickValidationProofs -------------------------
(***************************************************************************)
(* Proofs about the guided quick validation, for every number of runs and   *)
(* starts, every window and margin, and every budget of faults: its types,  *)
(* that a settled run is never touched again, that a run in which anything  *)
(* went wrong cannot pass, that a pass is earned, that the evidence names   *)
(* the traffic of the run, that a settled run has no traffic left, and that *)
(* its document stays valid.                                                *)
(***************************************************************************)
EXTENDS QuickValidation, WellFoundedInduction, TLAPS

-----------------------------------------------------------------------------
(* Types of the traffic authority *)

\* What a run looks like when it opens and when it ends.
LEMMA RecTypes ==
  ASSUME ServiceType
  PROVE  /\ \A g \in Group, lease \in Nat : Opened(g, lease) \in Rec
         /\ \A r \in Rec, exact \in BOOLEAN :
              \A how \in {"operator_stop", "hard_stop", "observed"} : Ended(r, how, exact) \in Rec
BY DEF ServiceType, Opened, Ended, Rec

\* Reconciling keeps a record for every run.
LEMMA ReconciledType ==
  ASSUME ServiceType, NEW r \in [Nonce -> Rec], NEW s, NEW l
  PROVE  Reconciled(r, s, l) \in [Nonce -> Rec]
BY RecTypes DEF Reconciled

\* A start gives a session.
LEMMA SessionType ==
  ASSUME ServiceType, NEW n \in Nonce, NEW g
  PROVE  SessionWith(n, g) \in Sess
<1>1. n \in Nonce0
  BY ServiceAssumption DEF Nonce, Nonce0
<1> QED BY <1>1 DEF ServiceType, SessionWith, Sess

\* The snapshot keeps the types of what it settles.
LEMMA SampledType ==
  ASSUME ServiceType, Sampled, UNCHANGED <<now, faults>>
  PROVE  ServiceType'
<1>1. NoWal \in Wal /\ Nonce \subseteq Nonce0 /\ 0 \in Nonce0
  BY ServiceAssumption DEF Wal, Nonce, Nonce0
<1>2. ASSUME NEW l \in [Group -> Nonce0 \cup {Foreign}], NEW r \in [Nonce -> Rec],
             NEW s \in Sess, NEW w \in Wal, Settled(l, r, s, w)
      PROVE  ServiceType'
  <2>1. Reconciled(r, s, l) \in [Nonce -> Rec]
    BY ReconciledType
  <2> QED BY <2>1, <1>2 DEF ServiceType, Settled, Sampled
<1>3. ASSUME wal.op # "none"
      PROVE  wal.n \in Nonce /\ wal.lease \in Nat
  BY <1>3 DEF ServiceType, Wal, NoWal
<1>4. CASE LeavesIntent
  <2>1. CASE UNCHANGED <<live, rec, sess, wal>>
    BY <2>1 DEF Sampled, ServiceType
  <2>2. CASE Settled(live, rec, sess, wal)
    BY <1>2, <2>2 DEF ServiceType
  <2> QED BY <1>4, <2>1, <2>2 DEF LeavesIntent, KeepsIntent
<1>5. CASE RollsStartBack
  <2>1. [live EXCEPT !["guided"] = 0] \in [Group -> Nonce0 \cup {Foreign}]
    BY <1>1 DEF ServiceType
  <2> QED BY <1>1, <1>2, <1>5, <2>1 DEF RollsStartBack, ServiceType
<1>6. CASE RecoversStart
  <2>1. wal.n \in Nonce /\ wal.lease \in Nat
    BY <1>3, <1>6 DEF RecoversStart
  <2>2. [live EXCEPT !["guided"] = wal.n] \in [Group -> Nonce0 \cup {Foreign}]
    BY <1>1, <2>1 DEF ServiceType
  <2>3. Opened("guided", wal.lease) \in Rec
    BY <2>1, RecTypes DEF Group
  <2>4. [rec EXCEPT ![wal.n] = Opened("guided", wal.lease)] \in [Nonce -> Rec]
    BY <2>1, <2>3 DEF ServiceType
  <2> QED BY <1>1, <1>2, <1>6, <2>1, <2>2, <2>4, SessionType DEF RecoversStart
<1>7. CASE RecoversStop
  <2>1. wal.n \in Nonce
    BY <1>3, <1>7 DEF RecoversStop
  <2>2. Ended(rec[wal.n], "operator_stop", TRUE) \in Rec
    BY <2>1, RecTypes DEF ServiceType
  <2>3. [rec EXCEPT ![wal.n] = Ended(@, "operator_stop", TRUE)] \in [Nonce -> Rec]
    BY <2>2 DEF ServiceType
  <2> QED BY <1>1, <1>2, <1>7, <2>3 DEF RecoversStop, ServiceType
<1> QED BY <1>4, <1>5, <1>6, <1>7 DEF Sampled

\* So does a recovery that fails, whatever it did.
LEMMA RecoveryFailsType ==
  ASSUME ServiceType, RecoveryFails, now' = now, faults' \in Nat
  PROVE  ServiceType'
<1>1. wal.n \in Nonce0 /\ [wal EXCEPT !.sent = TRUE] \in Wal
  <2>1. wal \in [op : {"start", "stop"}, n : Nonce, lease : Nat,
                 phase : {"prepared", "cleanup_required"}, sent : BOOLEAN, other : BOOLEAN]
    BY DEF ServiceType, RecoveryFails, Wal, NoWal
  <2>2. [wal EXCEPT !.sent = TRUE]
          \in [op : {"start", "stop"}, n : Nonce, lease : Nat,
               phase : {"prepared", "cleanup_required"}, sent : BOOLEAN, other : BOOLEAN]
    BY <2>1
  <2>3. wal.n \in Nonce
    BY <2>1
  <2> QED BY <2>2, <2>3, ServiceAssumption DEF Wal, Nonce, Nonce0
<1>2. ASSUME NEW n \in Nonce0
      PROVE  [live EXCEPT !["guided"] = n] \in [Group -> Nonce0 \cup {Foreign}]
  BY DEF ServiceType
<1>3. 0 \in Nonce0
  BY ServiceAssumption DEF Nonce0
<1> QED BY <1>1, <1>2, <1>3 DEF ServiceType, RecoveryFails

\* The steps of the other actors keep the types.
LEMMA OthersType ==
  ASSUME ServiceType, Others
  PROVE  ServiceType'
<1>0. 0 \in Nonce0 /\ Foreign \in Nonce0 \cup {Foreign} /\ NoWal \in Wal
      /\ Nonce \subseteq Nonce0
  BY ServiceAssumption DEF Nonce, Nonce0, Wal
<1>1. CASE Read
  <2>1. faults' \in Nat
    BY <1>1 DEF Read, Fault, ServiceType
  <2> QED BY <1>1, <2>1, SampledType, RecoveryFailsType DEF Read
<1>2. ASSUME NEW g \in Group, ClientStart(g)
      PROVE  ServiceType'
  <2>1. nonce' \in Nonce
    BY <1>2, ServiceAssumption DEF ClientStart, ServiceType, Nonce, Nonce0
  <2>2. Opened(g, 0) \in Rec
    BY RecTypes
  <2>3. SessionWith(nonce', g) \in Sess
    BY <2>1, SessionType
  <2> QED BY <1>0, <1>2, <2>1, <2>2, <2>3 DEF ClientStart, ServiceType
<1>3. ASSUME NEW stopped \in SUBSET Nonce, ClientStop(stopped)
      PROVE  ServiceType'
  <2>1. \A n \in Nonce, exact \in BOOLEAN : Ended(rec[n], "operator_stop", exact) \in Rec
    BY RecTypes DEF ServiceType
  <2>2. rec' \in [Nonce -> Rec]
    <3>1. PICK exact \in BOOLEAN :
            rec' = [n \in Nonce |-> IF n \in stopped THEN Ended(rec[n], "operator_stop", exact)
                                    ELSE rec[n]]
      BY <1>3 DEF ClientStop
    <3> QED BY <2>1, <3>1 DEF ServiceType
  <2>3. live' \in [Group -> Nonce0 \cup {Foreign}]
    BY <1>0, <1>3 DEF ClientStop, ServiceType
  <2> QED BY <1>3, <2>2, <2>3 DEF ClientStop, ServiceType
<1>4. CASE ReapLease
  <2>1. \A n \in Nonce, exact \in BOOLEAN : Ended(rec[n], "operator_stop", exact) \in Rec
    BY RecTypes DEF ServiceType
  <2>2. rec' \in [Nonce -> Rec]
    BY <1>4, <2>1 DEF ReapLease, ServiceType
  <2>3. live' \in [Group -> Nonce0 \cup {Foreign}]
    BY <1>0, <1>4 DEF ReapLease, ServiceType
  <2>4. Expired \subseteq Nonce
    BY DEF Expired, Leased, ActiveRuns, ServiceType, Sess
  <2> QED BY <1>4, <2>2, <2>3, <2>4 DEF ReapLease, ServiceType
<1>5. CASE ReapOverStop
  <2>1. wal.n \in Nonce
    BY <1>5 DEF ReapOverStop, ServiceType, Wal, NoWal
  <2>2. Ended(rec[wal.n], "hard_stop", TRUE) \in Rec
    BY <2>1, RecTypes DEF ServiceType
  <2> QED BY <1>0, <1>5, <2>1, <2>2 DEF ReapOverStop, ServiceType
<1>6. CASE ReapIntent
  BY <1>6, SampledType DEF ReapIntent
<1>7. CASE TrexExit
  <2>1. live' \in [Group -> Nonce0 \cup {Foreign}]
    BY <1>0, <1>7 DEF TrexExit
  <2> QED BY <1>7, <2>1 DEF TrexExit, Fault, ServiceType
<1>8. CASE Controller
  <2>1. live' \in [Group -> Nonce0 \cup {Foreign}]
    BY <1>0, <1>8 DEF Controller, ServiceType
  <2> QED BY <1>8, <2>1 DEF Controller, Fault, ServiceType
<1>9. CASE Tick
  BY <1>9 DEF Tick, traffic, ServiceType
<1> QED BY <1>1, <1>2, <1>3, <1>4, <1>5, <1>6, <1>7, <1>8, <1>9 DEF Others, Reap

-----------------------------------------------------------------------------
(* Types of the guided run *)

Less == {pair \in Nat \X Nat : pair[1] < pair[2]}

\* Every set of runs has a first one.
LEMMA LessWellFounded == IsWellFoundedOn(Less, Nat)
BY NatLessThanWellFounded DEF OpToRel, Less

\* The run of the session that may be the guided one is one that was started.
LEMMA CandidateType ==
  ASSUME ServiceType
  PROVE  Candidate \in Nonce0
<1> DEFINE first(runs) == IF runs = {} THEN 0 ELSE CHOOSE n \in runs : \A m \in runs : n <= m
<1>0. Nonce \subseteq Nonce0
  BY ServiceAssumption DEF Nonce, Nonce0
<1>1. ASSUME NEW runs \in SUBSET Nonce
      PROVE  first(runs) \in Nonce0
  <2>1. CASE runs = {}
    BY <2>1, ServiceAssumption DEF Nonce0
  <2>2. CASE runs # {}
    <3>1. runs \subseteq Nat
      BY DEF Nonce
    <3>2. PICK n \in runs : \A m \in runs : ~ (<<m, n>> \in Less)
      BY <2>2, <3>1, WFMin, LessWellFounded
    <3>3. \A m \in runs : n <= m
      <4>1. ASSUME NEW m \in runs, m < n
            PROVE  FALSE
        <5>1. <<m, n>> \in Nat \X Nat /\ <<m, n>>[1] < <<m, n>>[2]
          BY <3>1, <4>1
        <5> QED BY <3>2, <5>1 DEF Less
      <4> QED BY <3>1, <4>1
    <3>4. first(runs) \in runs
      BY <2>2, <3>3
    <3> HIDE DEF first
    <3> QED BY <1>0, <1>1, <3>4
  <2> QED BY <2>1, <2>2
<1>2. Matching(sess.groups) \in SUBSET Nonce /\ Matching(sess.completed) \in SUBSET Nonce
  BY DEF Matching, ServiceType, Sess
<1> QED BY <1>1, <1>2 DEF Candidate

\* Where a request can go.
LEMMA OpTypes ==
  ASSUME op \in Op
  PROVE  /\ Idle \in Op
         /\ \A pc \in Step : Goto(pc) \in Op /\ Look(pc) \in Op
         /\ \A pending \in Terminal, recovery \in BOOLEAN : Stop(pending, recovery) \in Op
<1>1. Idle \in Op
  BY DEF Idle, Op, Step, Terminal
<1>2. \A pc \in Step : Goto(pc) \in Op /\ Look(pc) \in Op
  BY ZenonT(40) DEF Goto, Look, Op, Step
<1>3. \A pending \in Terminal, recovery \in BOOLEAN : Stop(pending, recovery) \in Op
  BY DEF Stop, Op, Step
<1> QED BY <1>1, <1>2, <1>3

\* What a request writes.
LEMMA DocTypes ==
  ASSUME TypeOK
  PROVE  /\ Validated => Bound(doc) \in Doc /\ Promoted \in Doc
         /\ Marked \in Doc
         /\ \A how \in {"not_started", "operator_stop", "hard_stop", "none"}, ended \in Nat,
               verdict \in Terminal : Finished(doc, verdict, how, ended) \in Doc
<1> USE DEF TypeOK
<1>1. ASSUME Validated
      PROVE  Bound(doc) \in Doc
  <2>1. Candidate \in Nonce
    BY <1>1, CandidateType, ServiceAssumption DEF Validated, Nonce, Nonce0
  <2>2. rec[Candidate].at \in Nat /\ rec[Candidate].at + Window \in Nat
    BY <2>1, RunAssumption DEF ServiceType, Rec
  <2>3. sess.id \in Nonce0
    BY DEF ServiceType, Sess
  <2> QED BY <2>2, <2>3, CandidateType DEF Bound, Doc
<1>2. ASSUME Validated
      PROVE  Promoted \in Doc
  BY <1>1, <1>2 DEF Promoted, Doc, Terminal
<1>3. Marked \in Doc
  BY DEF Marked, Doc, Terminal
<1>4. ASSUME NEW how \in {"not_started", "operator_stop", "hard_stop", "none"},
             NEW ended \in Nat, NEW verdict \in Terminal
      PROVE  Finished(doc, verdict, how, ended) \in Doc
  BY <1>4 DEF Finished, Doc
<1> QED BY <1>1, <1>2, <1>3, <1>4

\* A write leaves a document and a request, whether it fails or not.
LEMMA SaveTypes ==
  ASSUME TypeOK, NEW new \in Doc, NEW next \in Op, NEW failed \in Op,
         Save(new, next) \/ SaveOr(new, next, failed)
  PROVE  doc' \in Doc /\ op' \in Op /\ faults' \in Nat
BY OpTypes DEF Save, SaveOr, Fault, TypeOK, ServiceType

\* A sample leaves a document and a request, whether it is taken or not.
LEMMA SampleTypes ==
  ASSUME TypeOK, NEW next \in Op, NEW failed \in Op, TakesSample(next, failed)
  PROVE  doc' \in Doc /\ op' \in Op /\ faults' \in Nat
<1>1. \A verdict \in Verdict : [doc EXCEPT !.at = now, !.verdict = verdict] \in Doc
  BY DEF TypeOK, ServiceType, Doc
<1>2. CASE Fault("rpc") /\ op' = failed /\ UNCHANGED doc
  BY <1>2 DEF Fault, TypeOK, ServiceType
<1>3. CASE \E verdict \in Verdict \ {"none"} :
             SaveOr([doc EXCEPT !.at = now, !.verdict = verdict], next, failed)
  BY <1>1, <1>3, SaveTypes
<1> QED BY <1>2, <1>3 DEF TakesSample

\* A step that leaves the authority alone is well typed if what it writes is.
LEMMA LocalType ==
  ASSUME TypeOK, Local, doc' \in Doc, op' \in Op, faults' \in Nat
  PROVE  TypeOK'
BY DEF TypeOK, ServiceType, Local, traffic

\* The requests keep the types.
LEMMA RequestsType ==
  ASSUME TypeOK, Requests
  PROVE  TypeOK'
<1>0. doc \in Doc /\ op \in Op /\ faults \in Nat
  BY DEF TypeOK, ServiceType
<1>1. CASE StartRun
  BY <1>0, <1>1, LocalType, OpTypes DEF StartRun, Request, Step
<1>2. CASE Poll \/ Cancel
  BY <1>0, <1>2, LocalType, OpTypes DEF Poll, Cancel, Step
<1>3. CASE Mark \/ MarkOnly
  <2>1. Goto("advance") \in Op /\ Idle \in Op
    BY <1>0, OpTypes DEF Step
  <2> QED BY <1>0, <1>3, <2>1, DocTypes, SaveTypes, LocalType DEF Mark, MarkOnly
<1> QED BY <1>1, <1>2, <1>3 DEF Requests

-----------------------------------------------------------------------------
(* The request under way and the document *)

\* A request that has to find the run settled, and one that works on a run.
Starting  == op.pc = "preflight" \/ (op.pc = "snapshot" /\ op.then = "preflight")
OnRun     == op.pc # "idle" /\ ~Starting
Stopping  == {"drive", "attributed", "wait", "certify", "final", "failpending", "finish"}
InStop    == op.pc \in Stopping \/ (op.pc = "snapshot" /\ op.then \in Stopping)

\* The traffic of the run was stopped, and how is on record.
Ending == doc.trun \in Nonce /\ rec[doc.trun].how \in {"operator_stop", "hard_stop"}

\* Where a request is, the document agrees: it was marked if another process wrote it, and
\* what is certified is known.
RequestInv ==
  /\ op.pc = "snapshot" => op.then \in {"preflight", "inspect", "drive", "certify"}
  /\ Starting => ~Busy /\ doc.id < MaxRun
  /\ OnRun => Busy
  /\ OnRun /\ doc.proc # process => doc.phase = "stopping" /\ doc.recovery
  /\ InStop => doc.phase = "stopping"
  /\ op.pc \in {"launch", "promote"} => doc.phase = "preflight"
  /\ op.pc = "enter" /\ op.recover => op.pend # "pass"
  /\ op.pc \in {"final", "failpending"} => doc.pending = "pass"
  /\ (\/ op.pc \in {"attributed", "certify"}
      \/ op.pc = "snapshot" /\ op.then = "certify") => doc.trun # 0
  /\ op.pc \in {"final", "failpending", "finish"} => Ending

\* A verdict is pending exactly while the run is stopped, and no pass in a run that had to wait;
\* a session is bound together with its run.
PendingInv ==
  /\ doc.phase = "stopping" <=> doc.pending # "none"
  /\ doc.recovery => doc.phase = "stopping" /\ doc.pending # "pass"
  /\ doc.tsid # 0 => doc.trun # 0

IInv == TypeOK /\ RequestInv /\ PendingInv

\* A start that takes effect, or that the reply was lost of, keeps the types.
LEMMA LaunchType ==
  ASSUME TypeOK, Launch
  PROVE  TypeOK'
<1>1. nonce' \in Nonce /\ nonce' \in Nonce0 /\ Nonce0 \subseteq Nonce0 \cup {Foreign}
  BY ServiceAssumption DEF Launch, TypeOK, ServiceType, Nonce, Nonce0
<1>2. doc.watchdog \in Nat /\ doc.id \in Nat /\ op \in Op /\ faults \in Nat /\ process \in Nat
  BY DEF TypeOK, ServiceType, Doc
<1>3. op' \in Op
  BY <1>2, OpTypes DEF Launch, Step, Terminal
<1>4. launched' \in [1..MaxRun -> Nonce0]
  BY <1>1 DEF Launch, TypeOK
<1>5. live' \in [Group -> Nonce0 \cup {Foreign}]
  BY <1>1 DEF Launch, TypeOK, ServiceType
<1>6. faults' \in Nat /\ process' \in Nat
  <2>1. \/ UNCHANGED <<faults, process>>
        \/ Fault("rpc") /\ UNCHANGED process
        \/ Fault("crash") /\ process' = process + 1
    BY DEF Launch
  <2> QED BY <1>2, <2>1 DEF Fault
<1>7. rec' \in [Nonce -> Rec] /\ sess' \in Sess /\ wal' \in Wal
  <2>1. CASE UNCHANGED <<faults, wal, process>> /\ sess' = SessionWith(nonce', "guided")
             /\ rec' = [rec EXCEPT ![nonce'] = Opened("guided", doc.watchdog)]
    <3>1. Opened("guided", doc.watchdog) \in Rec
      BY <1>2, RecTypes DEF TypeOK, Group
    <3>2. SessionWith(nonce', "guided") \in Sess
      BY <1>1, SessionType DEF TypeOK
    <3> QED BY <2>1, <3>1, <3>2 DEF TypeOK, ServiceType
  <2>2. CASE /\ UNCHANGED <<rec, sess>>
             /\ wal' \in [op : {"start"}, n : {nonce'}, lease : {doc.watchdog},
                          phase : {"prepared", "cleanup_required"}, sent : BOOLEAN,
                          other : {live["other"] # 0}]
    <3>1. wal' \in Wal
      BY <1>1, <1>2, <2>2 DEF Wal
    <3> QED BY <2>2, <3>1 DEF TypeOK, ServiceType
  <2> QED BY <2>1, <2>2 DEF Launch
<1> QED BY <1>1, <1>3, <1>4, <1>5, <1>6, <1>7 DEF Launch, TypeOK, ServiceType

\* The stop, and a stop that fails, keep the types.
LEMMA StopTrafficType ==
  ASSUME TypeOK, StopTraffic \/ StopFails
  PROVE  TypeOK'
<1>1. op' \in Op
  BY OpTypes DEF StopTraffic, StopFails, TypeOK, Step
<1>2. [live EXCEPT !["guided"] = 0] \in [Group -> Nonce0 \cup {Foreign}]
  <2>1. 0 \in Nonce0
    BY ServiceAssumption DEF Nonce0
  <2> QED BY <2>1 DEF TypeOK, ServiceType
<1>3. CASE StopTraffic
  <2>1. \A n \in Nonce : Ended(rec[n], "operator_stop", TRUE) \in Rec
    BY RecTypes DEF TypeOK, ServiceType
  <2>2. rec' \in [Nonce -> Rec]
    BY <1>3, <2>1 DEF StopTraffic, TypeOK, ServiceType
  <2> QED BY <1>1, <1>2, <1>3, <2>2 DEF StopTraffic, TypeOK, ServiceType
<1>4. CASE StopFails
  <2>1. \A n \in ActiveRuns : [NoWal EXCEPT !.op = "stop", !.n = n, !.other = live["other"] # 0]
          \in Wal
    BY DEF TypeOK, ServiceType, ActiveRuns, Sess, NoWal, Wal
  <2>2. wal' \in Wal /\ live' \in [Group -> Nonce0 \cup {Foreign}] /\ faults' \in Nat
    <3>1. CASE UNCHANGED <<live, wal>> /\ (UNCHANGED faults \/ Fault("rpc"))
      BY <3>1 DEF Fault, TypeOK, ServiceType
    <3>2. ASSUME NEW n \in ActiveRuns, Fault("rpc"),
                 live' \in {live, [live EXCEPT !["guided"] = 0]},
                 wal' = [NoWal EXCEPT !.op = "stop", !.n = n, !.other = live["other"] # 0]
          PROVE  wal' \in Wal /\ live' \in [Group -> Nonce0 \cup {Foreign}] /\ faults' \in Nat
      <4>1. wal' \in Wal
        BY <2>1, <3>2, Zenon
      <4>2. faults' \in Nat
        BY <3>2 DEF Fault, TypeOK, ServiceType
      <4> QED BY <1>2, <3>2, <4>1, <4>2 DEF TypeOK, ServiceType
    <3> QED BY <1>4, <3>1, <3>2 DEF StopFails
  <2> QED BY <1>1, <1>4, <2>2 DEF StopFails, TypeOK, ServiceType
<1> QED BY <1>3, <1>4

\* The snapshot, the start and the first half of a request keep the types.
LEMMA FrontType ==
  ASSUME TypeOK, RequestInv,
         \/ Snapshot \/ Preflight \/ Launch \/ LaunchRefused \/ Promote \/ Advance \/ Inspect
         \/ Sample \/ Elapsed \/ CancelRun \/ EnterStopping
  PROVE  TypeOK'
<1>0. doc \in Doc /\ op \in Op /\ faults \in Nat /\ op.pend \in Terminal
      /\ op.recover \in BOOLEAN
  BY DEF TypeOK, ServiceType, Op
<1>a. \A pending \in {"fail", "pass", "cancelled"} : pending \in Terminal
  BY DEF Terminal
<1>c. op.pc \in {"advance", "cancel"} => doc.phase \in {"preflight", "running", "stopping"}
  BY <1>0 DEF RequestInv, OnRun, Starting, Busy, Doc
<1>b. \A pc \in {"launch", "advance", "inspect", "drive", "sample", "elapsed"} :
        Goto(pc) \in Op /\ Look(pc) \in Op
  BY <1>0, OpTypes DEF Step
<1>1. CASE Snapshot
  <2>1. op' \in Op
    BY <1>0, <1>1 DEF Snapshot, Seen, Sight, Op
  <2>2. ServiceType'
    <3>1. CASE Sampled /\ UNCHANGED <<now, faults>>
      BY <3>1, SampledType DEF TypeOK
    <3>2. CASE Fault("rpc") /\ RecoveryFails /\ now' = now
      BY <1>0, <3>2, RecoveryFailsType DEF Fault, TypeOK
    <3>3. CASE UNCHANGED <<now, traffic>> /\ faults' \in Nat
      BY <3>3 DEF TypeOK, ServiceType, traffic
    <3> QED BY <1>0, <1>1, <3>1, <3>2, <3>3 DEF Snapshot, Fault
  <2> QED BY <1>1, <2>1, <2>2 DEF Snapshot, TypeOK
<1>2. CASE Preflight
  <2>1. now \in Nat /\ process \in Nat
    BY DEF TypeOK, ServiceType
  <2>2. CASE op' = Idle /\ UNCHANGED <<doc, faults>>
    BY <1>0, <1>2, <2>2, OpTypes, LocalType DEF Preflight
  <2>3. [NoDoc EXCEPT !.id = doc.id + 1, !.proc = process, !.phase = "preflight",
                      !.created = now, !.deadline = now + Window,
                      !.watchdog = now + Window + Margin] \in Doc
    <3>1. doc.id < MaxRun
      BY <1>2 DEF Preflight, RequestInv, Starting
    <3>2. doc.id + 1 \in 0..MaxRun /\ 0 \in Nonce0
      BY <1>0, <3>1, RunAssumption, ServiceAssumption DEF Doc, Nonce0
    <3>3. now + Window \in Nat /\ now + Window + Margin \in Nat
      BY <2>1, RunAssumption
    <3> QED BY <2>1, <3>2, <3>3 DEF NoDoc, Doc, Terminal, Verdict
  <2> QED BY <1>0, <1>b, <1>2, <2>2, <2>3, SaveTypes, LocalType DEF Preflight
<1>3. CASE Launch
  BY <1>3, LaunchType
<1>4. CASE LaunchRefused
  BY <1>0, <1>a, <1>4, OpTypes, LocalType DEF LaunchRefused
<1>5. CASE Promote
  <2>1. Stop("fail", TRUE) \in Op
    BY <1>0, <1>a, OpTypes
  <2> QED BY <1>0, <1>b, <1>5, <2>1, DocTypes, SaveTypes, LocalType DEF Promote
<1>6. CASE Advance
  <2>1. Stop("fail", TRUE) \in Op
    BY <1>0, <1>a, OpTypes
  <2> QED BY <1>0, <1>b, <1>c, <1>6, <2>1, LocalType DEF Advance
<1>7. CASE Inspect
  BY <1>0, <1>a, <1>b, <1>7, OpTypes, LocalType DEF Inspect
<1>8. CASE Sample
  <2>1. Stop("fail", FALSE) \in Op
    BY <1>0, <1>a, OpTypes
  <2> QED BY <1>b, <1>8, <2>1, SampleTypes, LocalType DEF Sample
<1>9. CASE Elapsed
  BY <1>0, <1>a, <1>9, OpTypes, LocalType DEF Elapsed
<1>10. CASE CancelRun
  <2>1. Stop("cancelled", FALSE) \in Op
    BY <1>0, <1>a, OpTypes
  <2>2. [doc EXCEPT !.pending = "cancelled"] \in Doc
    BY <1>0 DEF Doc, Terminal
  <2>3. CASE TakesSample(Stop("cancelled", FALSE), Stop("cancelled", FALSE))
    BY <1>10, <2>1, <2>3, SampleTypes, LocalType DEF CancelRun
  <2>4. CASE op' = Stop("cancelled", FALSE) /\ UNCHANGED <<doc, faults>>
    BY <1>0, <1>10, <2>1, <2>4, LocalType DEF CancelRun
  <2>5. CASE Save([doc EXCEPT !.pending = "cancelled"], Look("drive"))
    BY <1>b, <1>10, <2>2, <2>5, SaveTypes, LocalType DEF CancelRun
  <2> QED BY <1>c, <1>10, <2>3, <2>4, <2>5 DEF CancelRun
<1>11. CASE EnterStopping
  <2>1. [doc EXCEPT !.phase = "stopping", !.pending = op.pend, !.recovery = op.recover] \in Doc
    BY <1>0 DEF Doc
  <2> QED BY <1>0, <1>b, <1>11, <2>1, SaveTypes, LocalType DEF EnterStopping
<1> QED BY <1>1, <1>2, <1>3, <1>4, <1>5, <1>6, <1>7, <1>8, <1>9, <1>10, <1>11

\* The second half of a request, which stops the traffic and settles the run, keeps the types.
LEMMA BackType ==
  ASSUME IInv,
         \/ Drive \/ Attributed \/ StopTraffic \/ StopFails \/ Wait \/ Certify \/ FinalSample
         \/ FailPending \/ Finish
  PROVE  TypeOK'
<1>0. TypeOK /\ doc \in Doc /\ op \in Op /\ faults \in Nat /\ now \in Nat
  BY DEF IInv, TypeOK, ServiceType
<1>b. Idle \in Op /\ \A pc \in {"attributed", "certify", "wait", "final", "finish", "failpending"} :
        Goto(pc) \in Op /\ Look(pc) \in Op
  BY <1>0, OpTypes DEF Step
<1>w. ASSUME Waits, Local
      PROVE  TypeOK'
  <2>1. [doc EXCEPT !.recovery = TRUE, !.pending = IF @ = "pass" THEN "fail" ELSE @] \in Doc
    BY <1>0 DEF Doc, Terminal
  <2> QED BY <1>0, <1>b, <1>w, <2>1, SaveTypes, LocalType DEF Waits
<1>1. CASE Drive
  <2>1. CASE op' = Goto("attributed") /\ UNCHANGED <<doc, faults>>
    BY <1>0, <1>b, <1>1, <2>1, LocalType DEF Drive
  <2>2. CASE Validated /\ Save(Bound(doc), Goto("attributed"))
    BY <1>0, <1>b, <1>1, <2>2, DocTypes, SaveTypes, LocalType DEF Drive
  <2>3. CASE Save(Finished(doc, "fail", "not_started", now), Idle)
    <3>1. Finished(doc, "fail", "not_started", now) \in Doc
      BY <1>0, DocTypes DEF Terminal
    <3> QED BY <1>0, <1>b, <1>1, <2>3, <3>1, SaveTypes, LocalType DEF Drive
  <2> QED BY <1>w, <1>1, <2>1, <2>2, <2>3 DEF Drive
<1>2. CASE Attributed
  BY <1>0, <1>b, <1>w, <1>2, LocalType DEF Attributed
<1>3. CASE StopTraffic \/ StopFails
  BY <1>0, <1>3, StopTrafficType
<1>4. CASE Wait
  BY <1>w, <1>4 DEF Wait
<1>5. CASE Certify
  BY <1>0, <1>b, <1>w, <1>5, LocalType DEF Certify
<1>6. CASE FinalSample
  BY <1>0, <1>b, <1>6, SampleTypes, LocalType DEF FinalSample
<1>7. CASE FailPending
  <2>1. [doc EXCEPT !.pending = "fail", !.recovery = FALSE] \in Doc
    BY <1>0 DEF Doc, Terminal
  <2> QED BY <1>0, <1>b, <1>7, <2>1, SaveTypes, LocalType DEF FailPending
<1>8. CASE Finish
  <2> DEFINE r == rec[doc.trun]
  <2>1. r.how \in {"operator_stop", "hard_stop"} /\ r.ended \in Nat
    BY <1>0, <1>8 DEF Finish, IInv, RequestInv, Ending, TypeOK, ServiceType, Rec
  <2>2. doc.pending \in Terminal
    BY <1>0, <1>8 DEF Finish, IInv, RequestInv, PendingInv, InStop, Stopping, Doc
  <2>3. Verdicted(doc, r.how, r.ended) \in Terminal
    BY <2>2 DEF Verdicted, Terminal
  <2>4. Finished(doc, Verdicted(doc, r.how, r.ended), r.how, r.ended) \in Doc
    BY <1>0, <2>1, <2>3, DocTypes
  <2> QED BY <1>0, <1>b, <1>8, <2>4, SaveTypes, LocalType DEF Finish
<1> QED BY <1>1, <1>2, <1>3, <1>4, <1>5, <1>6, <1>7, <1>8

\* Every step keeps the types.
LEMMA TypeStep ==
  ASSUME IInv, [Next]_vars
  PROVE  TypeOK'
<1>0. TypeOK /\ RequestInv
  BY DEF IInv
<1>1. CASE Requests
  BY <1>0, <1>1, RequestsType
<1>2. CASE Execute
  BY <1>0, <1>2, FrontType, BackType DEF Execute
<1>3. CASE Others
  <2>1. ServiceType'
    BY <1>0, <1>3, OthersType DEF TypeOK
  <2>2. Aside
    BY <1>3 DEF Others
  <2> QED BY <1>0, <2>1, <2>2 DEF TypeOK, Aside
<1>4. CASE Crash
  <2>1. Idle \in Op
    BY <1>0, OpTypes DEF TypeOK
  <2> QED BY <1>0, <1>4, <2>1 DEF Crash, Fault, traffic, TypeOK, ServiceType
<1>5. CASE UNCHANGED vars
  BY <1>0, <1>5 DEF vars, service, traffic, TypeOK, ServiceType
<1> QED BY <1>1, <1>2, <1>3, <1>4, <1>5 DEF Next

-----------------------------------------------------------------------------
(* The invariant of a request *)

\* A request that ends promises nothing of the document.
LEMMA RequestEnds ==
  ASSUME op' = Idle
  PROVE  RequestInv'
BY DEF RequestInv, Idle, Starting, OnRun, InStop, Stopping

\* Verdicts are pending where they should, whatever a request writes.
LEMMA PendingWritten ==
  ASSUME IInv
  PROVE  /\ doc' = doc => PendingInv'
         /\ doc' = Marked => PendingInv'
         /\ \A verdict \in Terminal : \A how, ended :
              doc' = Finished(doc, verdict, how, ended) => PendingInv'
         /\ Validated /\ doc' = Bound(doc) => PendingInv'
         /\ Validated /\ doc.phase = "preflight" /\ doc' = Promoted => PendingInv'
         /\ \A at, verdict :
              doc' = [doc EXCEPT !.at = at, !.verdict = verdict] => PendingInv'
         /\ doc.phase = "stopping" /\ doc' = [doc EXCEPT !.pending = "cancelled"] => PendingInv'
         /\ doc.phase = "stopping" /\ doc' = [doc EXCEPT !.pending = "fail", !.recovery = FALSE]
            => PendingInv'
         /\ doc.phase = "stopping"
            /\ doc' = [doc EXCEPT !.recovery = TRUE,
                                  !.pending = IF @ = "pass" THEN "fail" ELSE @] => PendingInv'
         /\ \A pending \in Terminal, recovery \in BOOLEAN :
              (recovery => pending # "pass")
              /\ doc' = [doc EXCEPT !.phase = "stopping", !.pending = pending,
                                    !.recovery = recovery] => PendingInv'
<1>0. doc \in Doc /\ PendingInv
  BY DEF IInv, TypeOK
<1>1. doc' = doc => PendingInv'
  BY <1>0 DEF PendingInv
<1>2. doc' = Marked => PendingInv'
  BY <1>0 DEF PendingInv, Marked, Doc
<1>3. ASSUME NEW verdict \in Terminal, NEW how, NEW ended,
             doc' = Finished(doc, verdict, how, ended)
      PROVE  PendingInv'
  BY <1>0, <1>3 DEF PendingInv, Finished, Doc, Terminal
<1>4. Validated /\ doc' = Bound(doc) => PendingInv'
  BY <1>0 DEF PendingInv, Bound, Doc, Validated
<1>5. Validated /\ doc.phase = "preflight" /\ doc' = Promoted => PendingInv'
  BY <1>0 DEF PendingInv, Promoted, Bound, Doc, Validated
<1>6. ASSUME NEW at, NEW verdict, doc' = [doc EXCEPT !.at = at, !.verdict = verdict]
      PROVE  PendingInv'
  BY <1>0, <1>6 DEF PendingInv, Doc
<1>7. doc.phase = "stopping" /\ doc' = [doc EXCEPT !.pending = "cancelled"] => PendingInv'
  BY <1>0 DEF PendingInv, Doc
<1>8. doc.phase = "stopping" /\ doc' = [doc EXCEPT !.pending = "fail", !.recovery = FALSE]
      => PendingInv'
  BY <1>0 DEF PendingInv, Doc
<1>9. doc.phase = "stopping"
      /\ doc' = [doc EXCEPT !.recovery = TRUE,
                            !.pending = IF @ = "pass" THEN "fail" ELSE @] => PendingInv'
  BY <1>0 DEF PendingInv, Doc
<1>10. ASSUME NEW pending \in Terminal, NEW recovery \in BOOLEAN, recovery => pending # "pass",
              doc' = [doc EXCEPT !.phase = "stopping", !.pending = pending,
                                 !.recovery = recovery]
       PROVE  PendingInv'
  BY <1>0, <1>10 DEF PendingInv, Doc, Terminal
<1> QED BY <1>1, <1>2, <1>3, <1>4, <1>5, <1>6, <1>7, <1>8, <1>9, <1>10

\* The requests start where the document allows it.
LEMMA RequestsInv ==
  ASSUME IInv, Requests
  PROVE  RequestInv' /\ PendingInv'
<1>0. TypeOK /\ doc \in Doc /\ op \in Op /\ PendingInv /\ process' = process
  BY DEF IInv, TypeOK, Requests, StartRun, Request, Poll, Mark, MarkOnly, Cancel, Local
<1> USE DEF RequestInv, Starting, OnRun, InStop, Stopping, Busy
<1>1. CASE StartRun
  BY <1>0, <1>1, PendingWritten DEF StartRun, Request, Look, Op, Terminal
<1>2. CASE Poll \/ Cancel
  BY <1>0, <1>2, PendingWritten DEF Poll, Cancel, Goto, Op, Restarted, Doc
<1>3. CASE Mark \/ MarkOnly
  <2>1. CASE op' = Idle /\ doc' \in {doc, Marked}
    BY <2>1, RequestEnds, PendingWritten
  <2>2. CASE op' = Goto("advance") /\ doc' = Marked
    <3>1. Busy
      BY <1>3 DEF Mark, MarkOnly, Restarted
    <3>2. doc'.id = doc.id /\ doc'.phase = "stopping" /\ doc'.recovery
      BY <1>0, <2>2 DEF Marked, Doc
    <3> QED BY <1>0, <2>2, <3>1, <3>2, PendingWritten DEF Goto, Op, Terminal
  <2> QED BY <1>3, <2>1, <2>2 DEF Mark, MarkOnly, Save
<1> QED BY <1>1, <1>2, <1>3 DEF Requests

\* What becomes of a write.
LEMMA SaveCases ==
  ASSUME NEW new, NEW next, NEW failed, Save(new, next) \/ SaveOr(new, next, failed)
  PROVE  \/ op' = Idle /\ doc' \in {doc, new}
         \/ op' = next /\ doc' = new
         \/ SaveOr(new, next, failed) /\ op' = failed /\ doc' = doc
BY DEF Save, SaveOr

\* What becomes of a sample.
LEMMA SampleCases ==
  ASSUME NEW next, NEW failed, TakesSample(next, failed)
  PROVE  \/ op' = failed /\ doc' = doc
         \/ \E verdict \in Verdict : /\ doc' = [doc EXCEPT !.at = now, !.verdict = verdict]
                                     /\ op' \in {next, Idle}
BY DEF TakesSample, SaveOr

\* A request that goes on with a run, outside the cleanup.
LEMMA OnRunInv ==
  ASSUME IInv, op.pc # "idle", ~Starting, process' = process, rec' = rec,
         doc'.id = doc.id, doc'.phase = doc.phase, doc'.proc = doc.proc,
         doc'.recovery = doc.recovery,
         \/ op' = Look("inspect") \/ \E pc \in {"advance", "sample", "elapsed"} : op' = Goto(pc)
         \/ \E p \in Terminal, r \in BOOLEAN : op' = Stop(p, r) /\ (r => p # "pass")
         \/ doc.phase = "stopping" /\ op' = Look("drive")
  PROVE  RequestInv'
<1>0. doc \in Doc /\ op \in Op /\ RequestInv
  BY DEF IInv, TypeOK
<1>1. Busy' /\ (doc'.proc # process' => doc'.phase = "stopping" /\ doc'.recovery)
  BY <1>0 DEF RequestInv, OnRun, Busy
<1>2. CASE op' = Look("inspect") \/ \E pc \in {"advance", "sample", "elapsed"} : op' = Goto(pc)
  BY <1>0, <1>1, <1>2, ZenonT(40)
  DEF RequestInv, Starting, OnRun, InStop, Stopping, Goto, Look, Op
<1>3. CASE \E p \in Terminal, r \in BOOLEAN : op' = Stop(p, r) /\ (r => p # "pass")
  BY <1>0, <1>1, <1>3 DEF RequestInv, Starting, OnRun, InStop, Stopping, Stop, Op
<1>4. CASE doc.phase = "stopping" /\ op' = Look("drive")
  BY <1>0, <1>1, <1>4 DEF RequestInv, Starting, OnRun, InStop, Stopping, Look, Op
<1> QED BY <1>2, <1>3, <1>4

\* The snapshot, the start and the first half of a request keep the invariant.
LEMMA FrontInv ==
  ASSUME IInv,
         \/ Snapshot \/ Preflight \/ Launch \/ LaunchRefused \/ Promote \/ Advance \/ Inspect
         \/ Sample \/ Elapsed \/ CancelRun \/ EnterStopping
  PROVE  RequestInv' /\ PendingInv'
<1>0. TypeOK /\ doc \in Doc /\ op \in Op /\ RequestInv /\ PendingInv
  BY DEF IInv, TypeOK
<1>f. /\ \A p \in {"fail", "cancelled"}, r \in BOOLEAN : p \in Terminal /\ (r => p # "pass")
      /\ "pass" \in Terminal /\ FALSE \in BOOLEAN
  BY DEF Terminal
<1>1. CASE Snapshot
  <2>1. doc' = doc /\ process' = process /\ op'.pc = op.then /\ op'.recover = op.recover
        /\ op'.pend = op.pend /\ op'.then = op.then
    BY <1>0, <1>1 DEF Snapshot, Seen, Op
  <2>2. op.then \in {"preflight", "inspect", "drive", "certify"}
    BY <1>0, <1>1 DEF Snapshot, RequestInv
  <2> QED BY <1>0, <1>1, <2>1, <2>2, PendingWritten
          DEF Snapshot, RequestInv, Starting, OnRun, InStop, Stopping, Busy
<1>2. CASE Preflight
  <2> DEFINE new == [NoDoc EXCEPT !.id = doc.id + 1, !.proc = process, !.phase = "preflight",
                                  !.created = now, !.deadline = now + Window,
                                  !.watchdog = now + Window + Margin]
  <2>1. /\ new.phase = "preflight" /\ new.proc = process /\ new.id = doc.id + 1
        /\ new.pending = "none" /\ ~new.recovery /\ new.phase \notin Terminal /\ new.tsid = 0
    BY DEF NoDoc, Terminal
  <2>2. doc.id \in Nat /\ process' = process
    BY <1>0, <1>2, RunAssumption DEF Doc, Preflight, Local
  <2> HIDE DEF new
  <2>3. CASE op' = Idle /\ doc' \in {doc, new}
    <3>1. PendingInv'
      BY <2>1, <2>3, PendingWritten DEF PendingInv
    <3> QED BY <2>3, <3>1, RequestEnds
  <2>4. CASE op' = Goto("launch") /\ doc' = new
    <3>1. Busy' /\ doc'.proc = process'
      BY <2>1, <2>2, <2>4 DEF Busy
    <3> QED BY <1>0, <2>1, <2>4, <3>1
            DEF Goto, Op, RequestInv, PendingInv, Starting, OnRun, InStop, Stopping
  <2>5. \/ op' = Idle /\ UNCHANGED doc
        \/ Save(new, Goto("launch"))
    BY <1>2 DEF Preflight, new
  <2> QED BY <2>3, <2>4, <2>5 DEF Save
<1>3. CASE Launch
  <2>1. doc' = doc
    BY <1>3 DEF Launch
  <2>2. CASE op' = Idle
    BY <2>1, <2>2, RequestEnds, PendingWritten
  <2>3. CASE op' \in {Goto("promote"), Stop("fail", TRUE)} /\ process' = process
    BY <1>0, <1>3, <2>1, <2>3, PendingWritten, ZenonT(40)
    DEF Launch, Goto, Stop, Op, RequestInv, Starting, OnRun, InStop, Stopping, Busy
  <2> QED BY <1>3, <2>2, <2>3 DEF Launch
<1>4. CASE LaunchRefused
  BY <1>0, <1>f, <1>4, OnRunInv, PendingWritten DEF LaunchRefused, Local, traffic, Starting
<1>5. CASE Promote
  <2>1. process' = process /\ rec' = rec /\ op.pc # "idle" /\ ~Starting /\ doc.phase = "preflight"
    BY <1>0, <1>5 DEF Promote, Local, traffic, Starting, RequestInv
  <2>2. CASE op' = Stop("fail", TRUE) /\ doc' = doc
    BY <1>f, <2>1, <2>2, OnRunInv, PendingWritten
  <2>3. CASE Validated /\ op' = Idle /\ doc' \in {doc, Promoted}
    BY <2>1, <2>3, RequestEnds, PendingWritten
  <2>4. CASE Validated /\ op' = Goto("advance") /\ doc' = Promoted
    <3>1. /\ doc'.id = doc.id /\ doc'.proc = doc.proc
          /\ doc'.phase \in {"running", "stopping"}
      BY <1>0, <2>4 DEF Promoted, Bound, Doc
    <3>2. doc.proc = process /\ Busy
      BY <1>0, <2>1, <1>5 DEF Promote, RequestInv, OnRun, Starting
    <3>3. Busy'
      BY <3>1, <3>2 DEF Busy, Terminal
    <3> QED BY <1>0, <2>1, <2>4, <3>1, <3>2, <3>3, PendingWritten
            DEF Goto, Op, RequestInv, Starting, OnRun, InStop, Stopping
  <2> QED BY <1>5, <2>2, <2>3, <2>4 DEF Promote, SaveOr
<1>6. CASE Advance
  <2>1. doc.phase \in {"preflight", "running", "stopping"}
    BY <1>0, <1>6 DEF Advance, RequestInv, OnRun, Starting, Busy, Doc
  <2> QED BY <1>f, <1>6, <2>1, OnRunInv, PendingWritten DEF Advance, Local, traffic, Starting
<1>7. CASE Inspect
  BY <1>f, <1>7, OnRunInv, PendingWritten DEF Inspect, Local, traffic, Starting
<1>t. ASSUME NEW next, NEW failed, TakesSample(next, failed), process' = process, rec' = rec,
             op.pc # "idle", ~Starting,
             failed \in {Stop("fail", FALSE), Stop("cancelled", FALSE)},
             next \in {Goto("elapsed"), failed}
      PROVE  RequestInv' /\ PendingInv'
  <2>1. CASE op' = failed /\ doc' = doc
    BY <1>f, <1>t, <2>1, OnRunInv, PendingWritten
  <2>2. ASSUME NEW verdict \in Verdict, op' \in {next, Idle},
               doc' = [doc EXCEPT !.at = now, !.verdict = verdict]
        PROVE  RequestInv' /\ PendingInv'
    <3>1. /\ doc'.id = doc.id /\ doc'.phase = doc.phase /\ doc'.proc = doc.proc
          /\ doc'.recovery = doc.recovery
      BY <1>0, <2>2 DEF Doc
    <3>2. PendingInv'
      BY <2>2, PendingWritten
    <3>3. CASE op' = Idle
      BY <3>2, <3>3, RequestEnds
    <3>4. CASE op' \in {Goto("elapsed"), failed}
      BY <1>f, <1>t, <3>1, <3>2, <3>4, OnRunInv
    <3> QED BY <1>t, <2>2, <3>3, <3>4
  <2> QED BY <1>t, <2>1, <2>2, SampleCases
<1>8. CASE Sample
  BY <1>t, <1>8 DEF Sample, Local, traffic, Starting
<1>9. CASE Elapsed
  <2>1. CASE op' = Idle
    BY <1>9, <2>1, RequestEnds, PendingWritten DEF Elapsed
  <2>2. CASE op' = Stop("pass", FALSE)
    BY <1>f, <1>9, <2>2, OnRunInv, PendingWritten DEF Elapsed, Local, traffic, Starting
  <2> QED BY <1>9, <2>1, <2>2 DEF Elapsed
<1>10. CASE CancelRun
  <2>1. process' = process /\ rec' = rec /\ op.pc # "idle" /\ ~Starting
    BY <1>10 DEF CancelRun, Local, traffic, Starting
  <2>2. doc.phase \in {"preflight", "running", "stopping"}
    BY <1>0, <1>10 DEF CancelRun, RequestInv, OnRun, Starting, Busy, Doc
  <2>3. CASE TakesSample(Stop("cancelled", FALSE), Stop("cancelled", FALSE))
    BY <1>t, <2>1, <2>3
  <2>4. CASE op' = Stop("cancelled", FALSE) /\ doc' = doc
    BY <1>f, <2>1, <2>4, OnRunInv, PendingWritten
  <2>5. CASE doc.phase = "stopping" /\ Save([doc EXCEPT !.pending = "cancelled"], Look("drive"))
    <3>1. CASE op' = Idle /\ doc' \in {doc, [doc EXCEPT !.pending = "cancelled"]}
      BY <2>5, <3>1, RequestEnds, PendingWritten
    <3>2. CASE op' = Look("drive") /\ doc' = [doc EXCEPT !.pending = "cancelled"]
      <4>1. /\ doc'.id = doc.id /\ doc'.phase = doc.phase /\ doc'.proc = doc.proc
            /\ doc'.recovery = doc.recovery
        BY <1>0, <3>2 DEF Doc
      <4> QED BY <2>1, <2>5, <3>2, <4>1, OnRunInv, PendingWritten
    <3> QED BY <2>5, <3>1, <3>2 DEF Save
  <2> QED BY <1>10, <2>2, <2>3, <2>4, <2>5 DEF CancelRun
<1>11. CASE EnterStopping
  <2> DEFINE new == [doc EXCEPT !.phase = "stopping", !.pending = op.pend,
                                !.recovery = op.recover]
  <2>1. process' = process /\ rec' = rec /\ op.pc # "idle" /\ ~Starting /\ op.pend \in Terminal
        /\ op.recover \in BOOLEAN /\ (op.recover => op.pend # "pass")
    BY <1>0, <1>11 DEF EnterStopping, Local, traffic, Starting, RequestInv, Op
  <2>2. CASE doc.phase = "stopping"
    BY <1>11, <2>1, <2>2, OnRunInv, PendingWritten DEF EnterStopping
  <2>3. CASE doc.phase # "stopping" /\ Save(new, Look("drive"))
    <3>1. doc' \in {doc, new} => PendingInv'
      BY <2>1, PendingWritten
    <3>2. CASE op' = Idle /\ doc' \in {doc, new}
      BY <3>1, <3>2, RequestEnds
    <3>3. CASE op' = Look("drive") /\ doc' = new
      <4>1. doc.proc = process /\ Busy
        BY <1>0, <2>1, <2>3 DEF RequestInv, OnRun
      <4>2. doc'.id = doc.id /\ doc'.phase = "stopping" /\ doc'.proc = doc.proc
        BY <1>0, <3>3 DEF Doc
      <4>3. Busy' /\ doc'.proc = process'
        BY <2>1, <4>1, <4>2 DEF Busy, Terminal
      <4> QED BY <1>0, <3>1, <3>3, <4>2, <4>3
              DEF Look, Op, RequestInv, Starting, OnRun, InStop, Stopping
    <3> QED BY <2>3, <3>2, <3>3 DEF Save
  <2> QED BY <1>11, <2>2, <2>3 DEF EnterStopping
<1> QED BY <1>1, <1>2, <1>3, <1>4, <1>5, <1>6, <1>7, <1>8, <1>9, <1>10, <1>11

\* The second half of a request keeps the invariant.
LEMMA BackInv ==
  ASSUME IInv,
         \/ Drive \/ Attributed \/ StopTraffic \/ StopFails \/ Wait \/ Certify \/ FinalSample
         \/ FailPending \/ Finish
  PROVE  RequestInv' /\ PendingInv'
<1>0. TypeOK /\ doc \in Doc /\ op \in Op /\ RequestInv /\ PendingInv /\ process' = process
  BY DEF IInv, TypeOK, Drive, Attributed, StopTraffic, StopFails, Wait, Certify, FinalSample,
         FailPending, Finish, Local
<1>s. /\ op.pc \in Stopping /\ op.pc # "idle" /\ ~Starting /\ doc.phase = "stopping" /\ Busy
      /\ doc.proc # process => doc.recovery
  BY <1>0 DEF Drive, Attributed, StopTraffic, StopFails, Wait, Certify, FinalSample,
              FailPending, Finish, RequestInv, InStop, OnRun, Starting, Stopping
\* Within the cleanup nothing but the recovery flag of a wait, and the verdict, changes.
<1>n. ASSUME doc'.id = doc.id, doc'.phase = doc.phase, doc'.proc = doc.proc,
             doc'.recovery = doc.recovery,
             \/ op' = Goto("wait")
             \/ op' \in {Goto("attributed"), Goto("certify"), Look("certify")} /\ doc'.trun # 0
             \/ op' = Goto("final") /\ doc'.pending = "pass" /\ Ending'
             \/ op' = Goto("finish") /\ Ending'
             \/ op' = Goto("failpending") /\ doc'.pending = "pass" /\ Ending'
      PROVE  RequestInv'
  BY <1>0, <1>s, <1>n, ZenonT(40)
  DEF Goto, Look, Op, RequestInv, Starting, OnRun, InStop, Stopping, Busy, Terminal, Ending
<1>w. ASSUME Waits
      PROVE  RequestInv' /\ PendingInv'
  BY <1>s, <1>w, RequestEnds, PendingWritten DEF Waits, Save
<1>1. CASE Drive
  <2>1. CASE doc.tsid # 0 /\ op' = Goto("attributed") /\ doc' = doc
    BY <1>0, <1>n, <2>1, PendingWritten DEF PendingInv
  <2>2. CASE Validated /\ Save(Bound(doc), Goto("attributed"))
    <3>1. CASE op' = Idle /\ doc' \in {doc, Bound(doc)}
      BY <2>2, <3>1, RequestEnds, PendingWritten
    <3>2. CASE op' = Goto("attributed") /\ doc' = Bound(doc)
      <4>1. /\ doc'.id = doc.id /\ doc'.phase = doc.phase /\ doc'.proc = doc.proc
            /\ doc'.recovery = doc.recovery /\ doc'.trun # 0
        BY <1>0, <2>2, <3>2 DEF Bound, Doc, Validated
      <4> QED BY <1>n, <2>2, <3>2, <4>1, PendingWritten
    <3> QED BY <2>2, <3>1, <3>2 DEF Save
  <2>3. CASE Save(Finished(doc, "fail", "not_started", now), Idle)
    <3>1. "fail" \in Terminal
      BY DEF Terminal
    <3> QED BY <2>3, <3>1, RequestEnds, PendingWritten DEF Save
  <2> QED BY <1>w, <1>1, <2>1, <2>2, <2>3 DEF Drive
<1>2. CASE Attributed
  BY <1>0, <1>n, <1>w, <1>2, PendingWritten DEF Attributed, RequestInv
<1>3. CASE StopTraffic \/ StopFails
  BY <1>0, <1>n, <1>3, PendingWritten DEF StopTraffic, StopFails, RequestInv
<1>4. CASE Wait
  BY <1>w, <1>4 DEF Wait
<1>5. CASE Certify
  <2>1. CASE Certified /\ op' = Goto(IF doc.pending = "pass" THEN "final" ELSE "finish")
             /\ doc' = doc
    <3>1. Ending'
      <4>1. doc.trun \in Nonce
        BY <1>0, <1>5, ServiceAssumption DEF Certify, RequestInv, Doc, Nonce, Nonce0
      <4> QED BY <1>5, <2>1, <4>1 DEF Ending, Certify, Certified, Local, traffic
    <3> QED BY <1>n, <2>1, <3>1, PendingWritten
  <2> QED BY <1>w, <1>5, <2>1 DEF Certify
<1>6. CASE FinalSample
  <2>1. Ending /\ doc.pending = "pass" /\ rec' = rec
    BY <1>0, <1>6 DEF FinalSample, RequestInv, Ending, Local, traffic
  <2>2. CASE op' = Goto("failpending") /\ doc' = doc
    BY <1>n, <2>1, <2>2, PendingWritten DEF Ending
  <2>3. ASSUME NEW verdict \in Verdict, op' \in {Goto("finish"), Idle},
               doc' = [doc EXCEPT !.at = now, !.verdict = verdict]
        PROVE  RequestInv' /\ PendingInv'
    <3>1. /\ doc'.id = doc.id /\ doc'.phase = doc.phase /\ doc'.proc = doc.proc
          /\ doc'.recovery = doc.recovery /\ Ending'
      BY <1>0, <2>1, <2>3 DEF Doc, Ending
    <3> QED BY <1>n, <2>3, <3>1, RequestEnds, PendingWritten
  <2> QED BY <1>6, <2>2, <2>3, SampleCases DEF FinalSample
<1>7. CASE FailPending
  <2> DEFINE new == [doc EXCEPT !.pending = "fail", !.recovery = FALSE]
  <2>1. Ending /\ doc.pending = "pass" /\ rec' = rec /\ ~doc.recovery
    BY <1>0, <1>7 DEF FailPending, RequestInv, PendingInv, Ending, Local, traffic
  <2>2. CASE op' = Idle /\ doc' \in {doc, new}
    BY <1>s, <2>2, RequestEnds, PendingWritten
  <2>3. CASE op' = Goto("finish") /\ doc' = new
    <3>1. /\ doc'.id = doc.id /\ doc'.phase = doc.phase /\ doc'.proc = doc.proc
          /\ doc'.recovery = doc.recovery /\ Ending'
      BY <1>0, <2>1, <2>3 DEF Doc, Ending
    <3> QED BY <1>n, <1>s, <2>3, <3>1, PendingWritten
  <2> QED BY <1>7, <2>2, <2>3 DEF FailPending, Save
<1>8. CASE Finish
  <2> DEFINE r == rec[doc.trun]
  <2>1. Verdicted(doc, r.how, r.ended) \in Terminal
    BY <1>0, <1>s DEF Verdicted, PendingInv, Doc, Terminal
  <2> QED BY <1>8, <2>1, RequestEnds, PendingWritten DEF Finish, Save
<1> QED BY <1>1, <1>2, <1>3, <1>4, <1>5, <1>6, <1>7, <1>8

-----------------------------------------------------------------------------
(* The theorems *)

\* The other actors work between the requests; TRex, its other controllers and the clock, which
\* do not wait for one, change no record of a run.
LEMMA OthersInv ==
  ASSUME IInv, Others
  PROVE  RequestInv' /\ PendingInv'
<1>1. UNCHANGED <<process, doc, op>> /\ (op.pc = "idle" \/ rec' = rec)
  BY DEF Others, Aside, Quiet, TrexExit, Controller, Tick, traffic
<1> QED BY <1>1 DEF IInv, RequestInv, PendingInv, Starting, OnRun, InStop, Stopping, Busy, Ending

\* The invariant of every state: types, and the agreement of request and document.
LEMMA Invariant == Spec => []IInv
<1>1. Init => IInv
  <2> SUFFICES ASSUME Init
               PROVE  IInv
    OBVIOUS
  <2>1. NoDoc \in Doc /\ Idle \in Op /\ NoWal \in Wal /\ 0 \in Nonce0 /\ NoRec \in Rec
    BY RunAssumption, ServiceAssumption
    DEF NoDoc, Doc, Terminal, Verdict, Nonce0, Idle, Op, Step, Wal, NoRec, Rec, Group
  <2>2. NoSess \in Sess
    BY <2>1 DEF NoSess, Sess
  <2>3. ServiceType
    BY <2>1, <2>2 DEF Init, ServiceInit, ServiceType
  <2>4. TypeOK
    BY <2>1, <2>3 DEF Init, TypeOK
  <2>5. RequestInv /\ PendingInv
    BY DEF Init, RequestInv, PendingInv, Idle, NoDoc, Starting, OnRun, InStop, Stopping, Busy
  <2> QED BY <2>4, <2>5 DEF IInv
<1>2. IInv /\ [Next]_vars => IInv'
  <2> SUFFICES ASSUME IInv, [Next]_vars
               PROVE  IInv'
    OBVIOUS
  <2>1. TypeOK'
    BY TypeStep
  <2>2. RequestInv' /\ PendingInv'
    <3>1. CASE Requests
      BY <3>1, RequestsInv
    <3>2. CASE Execute
      BY <3>2, FrontInv, BackInv DEF Execute
    <3>3. CASE Others
      BY <3>3, OthersInv
    <3>4. CASE Crash
      BY <3>4, RequestEnds, PendingWritten DEF Crash
    <3>5. CASE UNCHANGED vars
      BY <3>5 DEF vars, service, traffic, IInv, RequestInv, PendingInv, Starting, OnRun, InStop,
                  Stopping, Busy, Ending
    <3> QED BY <3>1, <3>2, <3>3, <3>4, <3>5 DEF Next
  <2> QED BY <2>1, <2>2 DEF IInv
<1> QED BY <1>1, <1>2, PTL DEF Spec

\* Every reachable state is well typed; in particular a settled document always has a verdict.
THEOREM DocumentTyped == Spec => []TypeOK
<1>1. IInv => TypeOK
  BY DEF IInv
<1> QED BY <1>1, Invariant, PTL

\* Only a start writes a document whose run is settled.
LEMMA Writers ==
  ASSUME IInv, [Next]_vars, doc' # doc
  PROVE  Preflight \/ Busy
<1>1. CASE Requests
  BY <1>1 DEF Requests, StartRun, Request, Poll, Cancel, Mark, MarkOnly, Restarted
<1>2. CASE Execute
  <2>1. ~Snapshot
    BY DEF Snapshot
  <2>2. Preflight \/ OnRun
    BY <1>2, <2>1
    DEF Execute, Launch, LaunchRefused, Promote, Advance, Inspect, Sample, Elapsed, CancelRun,
        EnterStopping, Drive, Attributed, StopTraffic, StopFails, Wait, Certify, FinalSample,
        FailPending, Finish, OnRun, Starting
  <2> QED BY <2>2 DEF IInv, RequestInv
<1>3. ~Others /\ ~Crash /\ ~UNCHANGED vars
  BY DEF Others, Aside, Crash, vars
<1> QED BY <1>1, <1>2, <1>3 DEF Next

\* A settled run is evidence: nothing changes it, and only a new start replaces it.
THEOREM RunsSettleOnce == Spec => SettledOnce
<1>1. IInv /\ [Next]_vars =>
        [doc.id # 0 /\ ~Busy
         => (doc' = doc \/ (doc'.id = doc.id + 1 /\ doc'.phase = "preflight"))]_vars
  <2>1. ASSUME IInv, [Next]_vars, doc.id # 0, ~Busy, doc' # doc
        PROVE  doc'.id = doc.id + 1 /\ doc'.phase = "preflight"
    <3>1. Preflight
      BY <2>1, Writers
    <3> QED BY <2>1, <3>1 DEF Preflight, Save, NoDoc
  <2> QED BY <2>1
<1> QED BY <1>1, Invariant, PTL DEF Spec, SettledOnce

\* What a request writes of a run in which something went wrong is no pass.
LEMMA NoPassWritten ==
  ASSUME IInv, [Next]_vars, Busy, doc' # doc,
         doc.recovery \/ doc.proc # process \/ doc.pending \in {"fail", "cancelled"}
  PROVE  doc'.phase # "pass" /\ doc'.pending # "pass"
<1>0. doc \in Doc /\ RequestInv /\ PendingInv /\ doc.phase \in {"preflight", "running", "stopping"}
  BY DEF IInv, TypeOK, Busy, Doc
<1>1. CASE Requests
  BY <1>0, <1>1 DEF Requests, StartRun, Request, Poll, Cancel, Mark, MarkOnly, Save, Marked, Doc
<1>2. CASE Execute
  <2>1. ~Snapshot /\ ~Preflight
    BY <1>0 DEF Snapshot, Preflight, RequestInv, Starting
  <2>2. OnRun
    BY <1>2, <2>1
    DEF Execute, Launch, LaunchRefused, Promote, Advance, Inspect, Sample, Elapsed, CancelRun,
        EnterStopping, Drive, Attributed, StopTraffic, StopFails, Wait, Certify, FinalSample,
        FailPending, Finish, OnRun, Starting
  <2>3. doc.phase = "stopping" /\ doc.pending # "pass" /\ doc.pending \in Terminal
    BY <1>0, <2>2 DEF RequestInv, PendingInv, Doc, Terminal
  <2>4. CASE Promote
    BY <1>0, <2>3, <2>4 DEF Promote, RequestInv
  <2>5. ASSUME NEW next, NEW failed, TakesSample(next, failed)
        PROVE  doc'.phase # "pass" /\ doc'.pending # "pass"
    BY <1>0, <2>3, <2>5, SampleCases DEF Doc
  <2>6. CASE CancelRun
    BY <1>0, <2>3, <2>6 DEF CancelRun, Save, Doc
  <2>7. CASE Waits
    BY <1>0, <2>3, <2>7 DEF Waits, Save, Doc
  <2>8. CASE Drive
    <3>1. CASE Save(Bound(doc), Goto("attributed"))
      BY <1>0, <2>3, <3>1 DEF Save, Bound, Doc
    <3>2. CASE Save(Finished(doc, "fail", "not_started", now), Idle)
      BY <1>0, <2>3, <3>2 DEF Save, Finished, Doc
    <3> QED BY <2>7, <2>8, <3>1, <3>2 DEF Drive
  <2>9. CASE FailPending
    BY <1>0, <2>3, <2>9 DEF FailPending, Save, Doc
  <2>10. CASE Finish
    BY <1>0, <2>3, <2>10 DEF Finish, Save, Finished, Verdicted, Doc
  <2> QED BY <1>2, <2>1, <2>3, <2>4, <2>5, <2>6, <2>7, <2>8, <2>9, <2>10
          DEF Execute, Launch, LaunchRefused, Advance, Inspect, Sample, Elapsed, EnterStopping,
              Attributed, StopTraffic, StopFails, Wait, Certify, FinalSample
<1>3. ~Others /\ ~Crash /\ ~UNCHANGED vars
  BY DEF Others, Aside, Crash, vars
<1> QED BY <1>1, <1>2, <1>3 DEF Next

\* Once anything went wrong a run cannot pass: after a restart of the API, a cleanup that had
\* to wait, or a verdict that is not a pass, whatever later requests do.
THEOREM RunsFailClosed == Spec => FailClosed
<1>1. IInv /\ [Next]_vars =>
        [Busy /\ doc' # doc
           /\ (doc.recovery \/ doc.proc # process \/ doc.pending \in {"fail", "cancelled"})
         => doc'.phase # "pass" /\ doc'.pending # "pass"]_vars
  BY NoPassWritten
<1> QED BY <1>1, Invariant, PTL DEF Spec, FailClosed

-----------------------------------------------------------------------------
(* Steps of the traffic authority *)

How == {"operator_stop", "hard_stop", "observed"}

\* Runs that are active may end, and nothing else happens to records.
Aged(r, r2) == r2 = r \/ (r.st = "active" /\ \E how \in How, exact \in BOOLEAN :
                            r2 = Ended(r, how, exact))

\* Something goes on beside the records: traffic starts of a pending start, or goes.
Beside ==
  /\ UNCHANGED <<rec, sess, nonce, launched>>
  /\ wal'.op = wal.op /\ wal'.n = wal.n /\ wal'.lease = wal.lease
  /\ live'["guided"] \in {live["guided"], 0, Foreign}
                         \cup (IF wal.op = "start" THEN {wal.n} ELSE {})
  /\ wal.op = "none" /\ live'["guided"] # live["guided"] =>
       live["guided"] \in {0, Foreign} \/ live'["guided"] = 0

\* Runs end, and no intent stays.
RunsOver ==
  /\ UNCHANGED <<sess, nonce, launched>> /\ wal'.op = "none"
  /\ \A n \in Nonce : Aged(rec[n], rec'[n])
  /\ live'["guided"] \in {live["guided"], 0}

\* A pending start is found in effect, or replayed.
Recovers ==
  /\ wal.op = "start" /\ ~ToRollBack /\ wal'.op = "none"
  /\ live'["guided"] = wal.n
  /\ rec'[wal.n] = Opened("guided", wal.lease)
  /\ \A n \in Nonce \ {wal.n} : Aged(rec[n], rec'[n])
  /\ sess' = SessionWith(wal.n, "guided")
  /\ UNCHANGED <<nonce, launched>>

\* A run starts.
Opens(g, lease) ==
  /\ wal.op = "none" /\ wal' = wal
  /\ nonce' = nonce + 1 /\ nonce' \in Nonce
  /\ rec' = [rec EXCEPT ![nonce'] = Opened(g, lease)] /\ sess' = SessionWith(nonce', g)
  /\ live'["guided"] \in {live["guided"], nonce'}

\* A start of the run is left pending.
Drafts ==
  /\ wal.op = "none" /\ ~SessionActive
  /\ nonce' = nonce + 1 /\ nonce' \in Nonce
  /\ wal'.op = "start" /\ wal'.n = nonce' /\ wal'.lease = doc.watchdog
  /\ live'["guided"] \in {live["guided"], nonce'}
  /\ UNCHANGED <<rec, sess>>

\* A stop is left pending.
StopPends ==
  /\ wal.op = "none" /\ UNCHANGED <<rec, sess, nonce, launched>>
  /\ wal'.op = "stop" /\ wal'.n \in Nonce /\ rec[wal'.n].st = "active"
  /\ live'["guided"] \in {live["guided"], 0}

\* Runs are opened once, under a number that was drawn; the run of a pending start is not open
\* yet and no other is under way, the run of a pending stop is not over.
RecordInv ==
  /\ \A n \in Nonce : /\ n > nonce => rec[n].st = "none"
                      /\ rec[n].st # "none" => rec[n].at # 0 /\ rec[n].at <= now
                      /\ rec[n].st = "stopped" => rec[n].ended # 0 /\ rec[n].ended <= now
  /\ \A n \in sess.groups \cup sess.completed : rec[n].st # "none" /\ sess.id # 0
  /\ wal.op # "none" => wal.n <= nonce
  /\ wal.op = "start" => rec[wal.n].st = "none" /\ ~SessionActive
  /\ wal.op = "stop" => rec[wal.n].st = "active"
  /\ \A i \in 1..MaxRun : launched[i] <= nonce /\ (i > doc.id => launched[i] = 0)

\* What a reconciliation does to the records.
LEMMA ReconciledAges ==
  ASSUME ServiceType, NEW r \in [Nonce -> Rec], NEW s, NEW l, NEW n \in Nonce
  PROVE  Aged(r[n], Reconciled(r, s, l)[n])
BY DEF Reconciled, Aged, How

\* What the snapshot does: nothing, the end of runs, or the recovery of a start.
LEMMA SampledSteps ==
  ASSUME TypeOK, RecordInv, Sampled, launched' = launched
  PROVE  Beside \/ RunsOver \/ Recovers
<1>0. ServiceType /\ nonce' = nonce /\ rec \in [Nonce -> Rec]
  BY DEF TypeOK, ServiceType, Sampled
<1>1. ASSUME NEW l, NEW r \in [Nonce -> Rec], Settled(l, r, sess, wal'),
             wal'.op = "none", l["guided"] \in {live["guided"], 0},
             \A n \in Nonce : Aged(rec[n], r[n]) /\ (r[n] # rec[n] => r[n].st = "stopped")
      PROVE  RunsOver
  <2>1. ASSUME NEW n \in Nonce
        PROVE  Aged(rec[n], rec'[n])
    <3>1. rec'[n] = r[n] \/ (r[n].st = "active" /\ rec'[n] = Ended(r[n], "observed", FALSE))
      BY <1>1 DEF Settled, Reconciled
    <3>2. CASE rec'[n] = r[n]
      BY <1>1, <3>2
    <3>3. CASE r[n].st = "active" /\ rec'[n] = Ended(r[n], "observed", FALSE)
      BY <1>1, <3>3 DEF Aged, How
    <3> QED BY <3>1, <3>2, <3>3
  <2> QED BY <1>0, <1>1, <2>1 DEF RunsOver, Settled
<1>s. \A n \in Nonce : Aged(rec[n], rec[n])
  BY DEF Aged
<1>2. CASE LeavesIntent
  <2>1. CASE wal.op = "none"
    BY <1>0, <1>1, <1>2, <1>s, <2>1 DEF LeavesIntent, KeepsIntent, Settled
  <2>2. CASE wal.op # "none"
    BY <1>0, <1>2, <2>2 DEF LeavesIntent, KeepsIntent, Beside
  <2> QED BY <2>1, <2>2
<1>3. CASE RollsStartBack
  <2>1. [live EXCEPT !["guided"] = 0]["guided"] = 0
    BY <1>0 DEF ServiceType, Group
  <2> QED BY <1>0, <1>1, <1>3, <1>s, <2>1 DEF RollsStartBack, Settled, NoWal
<1>4. CASE RecoversStart
  <2> DEFINE r == [rec EXCEPT ![wal.n] = Opened("guided", wal.lease)]
             l == [live EXCEPT !["guided"] = wal.n]
             s == SessionWith(wal.n, "guided")
  <2>0. wal.n \in Nonce /\ wal.lease \in Nat
    BY <1>0, <1>4 DEF RecoversStart, ServiceType, Wal, NoWal
  <2>1. r \in [Nonce -> Rec]
    BY <1>0, <2>0, RecTypes DEF Group
  <2>2. l["guided"] = wal.n /\ wal.n # 0
    BY <1>0, <2>0 DEF ServiceType, Group, Nonce
  <2>3. Settled(l, r, s, NoWal)
    BY <1>4 DEF RecoversStart
  <2>4. r[wal.n] = Opened("guided", wal.lease) /\ r[wal.n].grp = "guided"
        /\ \A n \in Nonce \ {wal.n} : r[n] = rec[n]
    BY <1>0, <2>0 DEF Opened
  <2> HIDE DEF r, l, s
  <2>5. rec'[wal.n] = Opened("guided", wal.lease)
    BY <2>0, <2>2, <2>3, <2>4 DEF Settled, Reconciled
  <2>6. \A n \in Nonce \ {wal.n} : Aged(rec[n], rec'[n])
    BY <1>0, <2>1, <2>3, <2>4, ReconciledAges DEF Settled
  <2>7. live' = l /\ sess' = s /\ wal' = NoWal
    BY <2>3 DEF Settled
  <2>8. s = SessionWith(wal.n, "guided")
    BY DEF s
  <2>9. wal.op = "start" /\ ~ToRollBack /\ wal'.op = "none"
    BY <1>4, <2>7 DEF RecoversStart, NoWal
  <2> QED BY <1>0, <2>2, <2>5, <2>6, <2>7, <2>8, <2>9 DEF Recovers
<1>5. CASE RecoversStop
  <2> DEFINE r == IF live["guided"] = 0
                  THEN [rec EXCEPT ![wal.n] = Ended(@, "operator_stop", TRUE)] ELSE rec
  <2>0. wal.n \in Nonce
    BY <1>0, <1>5 DEF RecoversStop, ServiceType, Wal, NoWal
  <2>1. r \in [Nonce -> Rec]
    BY <1>0, <2>0, RecTypes
  <2>2. \A n \in Nonce : Aged(rec[n], r[n]) /\ (r[n] # rec[n] => r[n].st = "stopped")
    <3>1. rec[wal.n].st = "active"
      BY <1>5 DEF RecordInv, RecoversStop
    <3>2. Ended(rec[wal.n], "operator_stop", TRUE).st = "stopped"
      BY <1>0, <2>0 DEF Ended, Rec
    <3> QED BY <1>0, <2>0, <3>1, <3>2 DEF Aged, How
  <2>3. Settled(live, r, sess, NoWal)
    BY <1>5 DEF RecoversStop
  <2> HIDE DEF r
  <2> QED BY <1>1, <2>1, <2>2, <2>3 DEF Settled, NoWal
<1> QED BY <1>2, <1>3, <1>4, <1>5 DEF Sampled

\* A recovery that fails leaves the records as they are.
LEMMA RecoveryFailsBeside ==
  ASSUME TypeOK, RecoveryFails, launched' = launched
  PROVE  Beside
<1>0. live \in [Group -> Nonce0 \cup {Foreign}] /\ "guided" \in Group /\ wal.op # "none"
  BY DEF TypeOK, ServiceType, Group, RecoveryFails
<1>1. wal \in [op : {"start", "stop"}, n : Nonce, lease : Nat,
               phase : {"prepared", "cleanup_required"}, sent : BOOLEAN, other : BOOLEAN]
  BY <1>0 DEF TypeOK, ServiceType, Wal, NoWal
<1> QED BY <1>0, <1>1 DEF RecoveryFails, Beside

\* What each step does to the traffic authority.
LEMMA TrafficSteps ==
  ASSUME IInv, RecordInv, op.pc = "attributed" => wal.op = "none", [Next]_vars
  PROVE  \/ Beside
         \/ RunsOver /\ doc' = doc /\ op.pc \in {"idle", "snapshot", "attributed"}
         \/ Recovers /\ doc' = doc /\ op.pc \in {"idle", "snapshot"}
         \/ /\ "start" \in Clients /\ op.pc = "idle" /\ op' = op /\ doc' = doc
            /\ launched' = launched /\ \E g \in Group : Opens(g, 0)
         \/ Launch /\ Opens("guided", doc.watchdog) /\ op' = Goto("promote")
         \/ Launch /\ Drafts /\ op' \in {Idle, Stop("fail", TRUE)}
         \/ StopPends /\ doc' = doc /\ op.pc = "attributed" /\ op' = Goto("wait")
<1>0. /\ TypeOK /\ ServiceType /\ live \in [Group -> Nonce0 \cup {Foreign}]
      /\ Group = {"guided", "other"} /\ rec \in [Nonce -> Rec] /\ nonce \in Nat
  BY ServiceAssumption DEF IInv, TypeOK, ServiceType, Group, Nonce0
<1>s. \A n \in Nonce : Aged(rec[n], rec[n])
  BY DEF Aged
<1>1. CASE traffic' = traffic /\ launched' = launched
  BY <1>1 DEF Beside, traffic
<1>2. CASE Snapshot
  <2>1. launched' = launched /\ doc' = doc /\ op.pc = "snapshot"
    BY <1>2 DEF Snapshot
  <2>2. CASE Sampled
    BY <1>0, <2>1, <2>2, SampledSteps
  <2>3. CASE RecoveryFails
    BY <1>0, <2>1, <2>3, RecoveryFailsBeside
  <2> QED BY <1>1, <1>2, <2>1, <2>2, <2>3 DEF Snapshot
<1>3. CASE Launch
  <2>1. wal.op = "none" /\ ~SessionActive /\ nonce' = nonce + 1 /\ nonce' \in Nonce
    BY <1>0, <1>3, ServiceAssumption DEF Launch, Nonce, TypeOK, ServiceType, Nonce0
  <2>2. [live EXCEPT !["guided"] = nonce']["guided"] = nonce'
    BY <1>0
  <2>3. CASE op' = Goto("promote") /\ wal' = wal /\ live' = [live EXCEPT !["guided"] = nonce']
             /\ rec' = [rec EXCEPT ![nonce'] = Opened("guided", doc.watchdog)]
             /\ sess' = SessionWith(nonce', "guided")
    BY <1>3, <2>1, <2>2, <2>3 DEF Opens
  <2>4. CASE /\ wal' \in [op : {"start"}, n : {nonce'}, lease : {doc.watchdog},
                     phase : {"prepared", "cleanup_required"}, sent : BOOLEAN,
                     other : {live["other"] # 0}]
             /\ live' \in {live} \cup IF wal'.sent THEN {[live EXCEPT !["guided"] = nonce']} ELSE {}
             /\ UNCHANGED <<rec, sess>> /\ op' \in {Idle, Stop("fail", TRUE)}
    <3>1. wal'.op = "start" /\ wal'.n = nonce' /\ wal'.lease = doc.watchdog
      BY <2>4
    <3>2. live'["guided"] \in {live["guided"], nonce'}
      BY <2>2, <2>4
    <3> QED BY <1>3, <2>1, <2>4, <3>1, <3>2 DEF Drafts
  <2> QED BY <1>3, <2>3, <2>4 DEF Launch
<1>4. CASE StopTraffic
  <2>1. \A n \in Nonce : Aged(rec[n], rec'[n])
    BY <1>0, <1>4, <1>s DEF StopTraffic, Aged, How, ActiveRuns
  <2> QED BY <1>0, <1>4, <2>1 DEF StopTraffic, RunsOver
<1>5. CASE StopFails
  <2>1. wal.op = "none" /\ doc' = doc /\ op.pc = "attributed" /\ op' = Goto("wait")
        /\ UNCHANGED <<rec, sess, nonce, launched>>
    BY <1>5 DEF StopFails
  <2>2. CASE UNCHANGED <<live, wal>>
    BY <2>1, <2>2 DEF Beside
  <2>3. ASSUME NEW n \in ActiveRuns, live' \in {live, [live EXCEPT !["guided"] = 0]},
               wal' = [NoWal EXCEPT !.op = "stop", !.n = n, !.other = live["other"] # 0]
        PROVE  StopPends
    <3>1. n \in Nonce /\ rec[n].st = "active"
      BY <1>0 DEF ActiveRuns, ServiceType, Sess
    <3> QED BY <1>0, <2>1, <2>3, <3>1 DEF StopPends, NoWal
  <2> QED BY <1>5, <2>1, <2>2, <2>3 DEF StopFails
<1>6. CASE Execute /\ ~Snapshot /\ ~Launch /\ ~StopTraffic /\ ~StopFails
  BY <1>1, <1>6
  DEF Execute, Preflight, LaunchRefused, Promote, Advance, Inspect, Sample, Elapsed, CancelRun,
      EnterStopping, Drive, Attributed, Wait, Certify, FinalSample, FailPending, Finish, Local
<1>7. CASE Requests \/ Crash \/ UNCHANGED vars
  BY <1>1, <1>7
  DEF Requests, StartRun, Request, Poll, Mark, MarkOnly, Cancel, Local, Crash, vars, service
<1>8. CASE Others
  <2>1. UNCHANGED <<process, doc, op, launched>>
    BY <1>8 DEF Others, Aside
  <2>2. CASE Quiet /\ Read
    BY <1>0, <2>1, <2>2, SampledSteps, RecoveryFailsBeside DEF Read, Quiet
  <2>3. ASSUME NEW g \in Group, ClientStart(g), Quiet
        PROVE  /\ "start" \in Clients /\ op.pc = "idle" /\ Opens(g, 0)
    <3>1. nonce' \in Nonce
      BY <1>0, <2>3, ServiceAssumption DEF ClientStart, Nonce, ServiceType, Nonce0
    <3>2. live'["guided"] \in {live["guided"], nonce'}
      BY <1>0, <2>3 DEF ClientStart
    <3> QED BY <2>3, <3>1, <3>2 DEF ClientStart, Quiet, Opens
  <2>4. ASSUME NEW stopped \in SUBSET Nonce, ClientStop(stopped), Quiet
        PROVE  RunsOver /\ op.pc = "idle"
    <3>1. PICK exact \in BOOLEAN :
            rec' = [n \in Nonce |-> IF n \in stopped THEN Ended(rec[n], "operator_stop", exact)
                                    ELSE rec[n]]
      BY <2>4 DEF ClientStop
    <3>2. \A n \in Nonce : Aged(rec[n], rec'[n])
      BY <2>4, <3>1 DEF ClientStop, ActiveRuns, Aged, How
    <3> QED BY <1>0, <2>1, <2>4, <3>2 DEF ClientStop, RunsOver, Quiet
  <2>5. CASE Quiet /\ Reap
    <3>1. CASE ReapLease
      <4>1. \A n \in Nonce : Aged(rec[n], rec'[n])
        <5>1. Expired \subseteq ActiveRuns
          BY DEF Expired, Leased
        <5> QED BY <3>1, <5>1 DEF ReapLease, ActiveRuns, Aged, How
      <4> QED BY <1>0, <2>1, <2>5, <3>1, <4>1 DEF ReapLease, RunsOver, Quiet
    <3>2. CASE ReapOverStop
      <4>1. wal.n \in Nonce /\ rec[wal.n].st = "active"
        BY <1>0, <3>2 DEF ReapOverStop, ServiceType, Wal, NoWal, RecordInv
      <4>2. \A n \in Nonce : Aged(rec[n], rec'[n])
        BY <1>0, <3>2, <4>1 DEF ReapOverStop, Aged, How
      <4> QED BY <1>0, <2>1, <2>5, <3>2, <4>2 DEF ReapOverStop, RunsOver, Quiet, NoWal
    <3>3. CASE ReapIntent
      BY <1>0, <2>1, <2>5, <3>3, SampledSteps DEF ReapIntent, Quiet
    <3> QED BY <2>5, <3>1, <3>2, <3>3 DEF Reap
  <2>6. CASE TrexExit
    BY <1>0, <2>1, <2>6 DEF TrexExit, Beside
  <2>7. CASE Controller
    BY <1>0, <2>1, <2>7 DEF Controller, Beside
  <2>8. CASE Tick
    BY <1>1, <2>1, <2>8 DEF Tick
  <2> QED BY <1>8, <2>1, <2>2, <2>3, <2>4, <2>5, <2>6, <2>7, <2>8 DEF Others
<1> QED BY <1>1, <1>2, <1>3, <1>4, <1>5, <1>6, <1>7, <1>8 DEF Next

\* Time does not go back.
LEMMA TimePasses ==
  ASSUME IInv, [Next]_vars
  PROVE  now' \in {now, now + 1} /\ now \in Nat /\ now # 0
<1>1. now \in Nat /\ now # 0
  BY DEF IInv, TypeOK, ServiceType
<1>2. now' \in {now, now + 1}
  BY DEF Next, Requests, StartRun, Request, Poll, Mark, MarkOnly, Cancel, Execute, Snapshot,
         Preflight, Launch, LaunchRefused, Promote, Advance, Inspect, Sample, Elapsed, CancelRun,
         EnterStopping, Drive, Attributed, StopTraffic, StopFails, Wait, Certify, FinalSample,
         FailPending, Finish, Local, Others, Read, ClientStart, ClientStop, Reap, ReapLease,
         ReapOverStop, ReapIntent, TrexExit, Controller, Tick, Crash, vars, service
<1> QED BY <1>1, <1>2

-----------------------------------------------------------------------------
(* What requests write *)

Fresh == [NoDoc EXCEPT !.id = doc.id + 1, !.proc = process, !.phase = "preflight",
                       !.created = now, !.deadline = now + Window,
                       !.watchdog = now + Window + Margin]

Waiting == [doc EXCEPT !.recovery = TRUE, !.pending = IF @ = "pass" THEN "fail" ELSE @]

\* The writes, each with the step that makes it and where the request goes on.
Begins == /\ Preflight /\ doc' = Fresh /\ op' \in {Idle, Goto("launch")}
          /\ GuidedIdle /\ wal.op = "none" /\ ~SessionActive
Marks == Restarted /\ doc' = Marked /\ op' \in {Idle, Goto("advance")}
Promotes == Promote /\ Validated /\ doc' = Promoted /\ op' \in {Idle, Goto("advance")}
Samples ==
  /\ Sample \/ CancelRun \/ FinalSample
  /\ \E verdict \in Verdict : doc' = [doc EXCEPT !.at = now, !.verdict = verdict]
  /\ FinalSample => op' \in {Idle, Goto("finish")}
  /\ Sample => op' \in {Idle, Goto("elapsed")}
  /\ CancelRun => op' \in {Idle, Stop("cancelled", FALSE)}
Cancels == /\ CancelRun /\ doc.phase = "stopping" /\ op' \in {Idle, Look("drive")}
           /\ doc' = [doc EXCEPT !.pending = "cancelled"]
Enters == /\ EnterStopping /\ doc.phase # "stopping" /\ op' \in {Idle, Look("drive")}
          /\ doc' = [doc EXCEPT !.phase = "stopping", !.pending = op.pend, !.recovery = op.recover]
GivesUp == op.pc \in Stopping /\ doc' = Waiting /\ op' = Idle
Binds == /\ Drive /\ doc.tsid = 0 /\ wal.op = "none" /\ Validated
         /\ doc' = Bound(doc) /\ op' \in {Idle, Goto("attributed")}
Absolves == /\ Drive /\ doc.tsid = 0 /\ wal.op = "none" /\ ~Validated /\ GuidedIdle
            /\ doc' = Finished(doc, "fail", "not_started", now) /\ op' = Idle
Fails == /\ FailPending /\ doc' = [doc EXCEPT !.pending = "fail", !.recovery = FALSE]
         /\ op' \in {Idle, Goto("finish")}
Finishes == /\ Finish /\ op' = Idle
            /\ LET r == rec[doc.trun]
               IN doc' = Finished(doc, Verdicted(doc, r.how, r.ended), r.how, r.ended)

Writes ==
  /\ UNCHANGED <<now, traffic, process, launched>>
  /\ \/ Begins \/ Marks \/ Promotes \/ Samples \/ Cancels \/ Enters \/ GivesUp \/ Binds
     \/ Absolves \/ Fails \/ Finishes

\* What each step writes of the document.
LEMMA DocumentSteps ==
  ASSUME IInv, [Next]_vars
  PROVE  doc' = doc \/ Writes
<1> SUFFICES ASSUME doc' # doc
             PROVE  Writes
  OBVIOUS
<1> USE DEF Writes
<1>0. doc \in Doc /\ op \in Op /\ RequestInv
  BY DEF IInv, TypeOK
<1>w. ASSUME NEW new, NEW next, Save(new, next)
      PROVE  doc' = new /\ op' \in {Idle, next}
  BY <1>w DEF Save
<1>v. ASSUME NEW new, NEW next, NEW failed, SaveOr(new, next, failed)
      PROVE  doc' = new /\ op' \in {Idle, next}
  BY <1>v DEF SaveOr
<1>t. ASSUME NEW next, NEW failed, TakesSample(next, failed)
      PROVE  /\ \E verdict \in Verdict : doc' = [doc EXCEPT !.at = now, !.verdict = verdict]
             /\ op' \in {Idle, next}
  BY <1>t DEF TakesSample, SaveOr
<1>1. CASE Requests
  <2>1. Restarted /\ Local /\ (Save(Marked, Idle) \/ Save(Marked, Goto("advance")))
    BY <1>1 DEF Requests, StartRun, Request, Poll, Cancel, Mark, MarkOnly
  <2> QED BY <1>w, <2>1 DEF Local, Marks
<1>2. CASE Preflight
  BY <1>w, <1>2 DEF Preflight, Local, Fresh, Begins
<1>3. CASE Promote
  BY <1>v, <1>3 DEF Promote, Local, Promotes
<1>4. CASE Sample \/ CancelRun \/ FinalSample
  <2>1. UNCHANGED <<now, traffic, process, launched>>
    BY <1>4 DEF Sample, CancelRun, FinalSample, Local
  <2>2. CASE Sample
    <3>1. ~CancelRun /\ ~FinalSample /\ TakesSample(Goto("elapsed"), Stop("fail", FALSE))
      BY <2>2 DEF Sample, CancelRun, FinalSample
    <3> QED BY <1>t, <2>1, <2>2, <3>1 DEF Samples
  <2>3. CASE FinalSample
    <3>1. ~CancelRun /\ ~Sample /\ TakesSample(Goto("finish"), Goto("failpending"))
      BY <2>3 DEF Sample, CancelRun, FinalSample
    <3> QED BY <1>t, <2>1, <2>3, <3>1 DEF Samples
  <2>4. CASE CancelRun
    <3>1. ~FinalSample /\ ~Sample
      BY <2>4 DEF Sample, CancelRun, FinalSample
    <3>2. doc.phase \in {"preflight", "running", "stopping"}
      BY <1>0, <2>4 DEF CancelRun, RequestInv, OnRun, Starting, Busy, Doc
    <3>3. CASE doc.phase = "running"
      <4>1. TakesSample(Stop("cancelled", FALSE), Stop("cancelled", FALSE))
        BY <2>4, <3>3 DEF CancelRun
      <4> QED BY <1>t, <2>1, <2>4, <3>1, <4>1 DEF Samples
    <3>4. CASE doc.phase = "stopping"
      <4>1. Save([doc EXCEPT !.pending = "cancelled"], Look("drive"))
        BY <2>4, <3>4 DEF CancelRun
      <4> QED BY <1>w, <2>1, <2>4, <3>4, <4>1 DEF Cancels
    <3>5. doc.phase # "preflight"
      BY <2>4 DEF CancelRun
    <3> QED BY <3>2, <3>3, <3>4, <3>5
  <2> QED BY <1>4, <2>2, <2>3, <2>4
<1>5. CASE EnterStopping
  BY <1>w, <1>5 DEF EnterStopping, Local, Enters
<1>6. ASSUME Waits, op.pc \in Stopping, Local
      PROVE  GivesUp
  BY <1>w, <1>6 DEF Waits, Waiting, GivesUp
<1>7. CASE Drive
  <2>1. Local /\ op.pc \in Stopping
    BY <1>7 DEF Drive, Stopping
  <2>2. CASE Waits
    BY <1>6, <2>1, <2>2 DEF Local
  <2>3. CASE doc.tsid = 0 /\ wal.op = "none" /\ Validated /\ Save(Bound(doc), Goto("attributed"))
    BY <1>w, <1>7, <2>1, <2>3 DEF Local, Binds
  <2>4. CASE /\ doc.tsid = 0 /\ wal.op = "none" /\ ~Validated /\ GuidedIdle
             /\ Save(Finished(doc, "fail", "not_started", now), Idle)
    BY <1>w, <1>7, <2>1, <2>4 DEF Local, Absolves
  <2> QED BY <1>7, <2>2, <2>3, <2>4 DEF Drive
<1>8. CASE Attributed \/ Wait \/ Certify
  <2>1. Local /\ op.pc \in Stopping /\ Waits
    BY <1>8 DEF Attributed, Wait, Certify, Stopping
  <2> QED BY <1>6, <2>1 DEF Local
<1>9. CASE FailPending
  BY <1>w, <1>9 DEF FailPending, Local, Fails
<1>10. CASE Finish
  BY <1>w, <1>10 DEF Finish, Local, Finishes
<1>11. ~Snapshot /\ ~Launch /\ ~LaunchRefused /\ ~Advance /\ ~Inspect /\ ~Elapsed /\ ~StopTraffic
       /\ ~StopFails /\ ~Others /\ ~Crash /\ ~UNCHANGED vars
  BY DEF Snapshot, Launch, LaunchRefused, Advance, Inspect, Elapsed, StopTraffic, StopFails,
         Others, Aside, Crash, vars
<1> QED BY <1>1, <1>2, <1>3, <1>4, <1>5, <1>7, <1>8, <1>9, <1>10, <1>11 DEF Next, Execute

-----------------------------------------------------------------------------
(* The records of runs *)

\* A run that goes on, or ends, stays the run it was; one that was over stays as it is.
LEMMA AgedFields ==
  ASSUME NEW r \in Rec, NEW r2, Aged(r, r2)
  PROVE  /\ r2.grp = r.grp /\ r2.at = r.at
         /\ r2.st = "none" <=> r.st = "none"
         /\ r.st = "stopped" \/ r2.st = "active" => r2 = r
         /\ r2.st = "stopped" /\ r.st # "stopped" => r2.ended = now /\ r2.lease = 0
BY DEF Aged, Rec, Ended

\* How a run opens.
LEMMA OpenedFields ==
  ASSUME NEW g, NEW lease
  PROVE  /\ Opened(g, lease).grp = g /\ Opened(g, lease).at = now
         /\ Opened(g, lease).lease = lease /\ Opened(g, lease).st = "active"
BY DEF Opened

\* The session of a start: its own, unless it joins one.
LEMMA SessionFields ==
  ASSUME ServiceType, NEW n \in Nonce, NEW g
  PROVE  /\ SessionWith(n, g).groups \cup SessionWith(n, g).completed
              \subseteq {n} \cup sess.groups \cup sess.completed
         /\ ~SessionActive => SessionWith(n, g) = [id |-> n, groups |-> {n}, completed |-> {}]
         /\ SessionActive => SessionWith(n, g).id = sess.id /\ sess.groups # {}
<1>1. sess \in Sess
  BY DEF ServiceType
<1> QED BY <1>1 DEF SessionWith, Sess, SessionActive, ActiveRuns

\* Each step keeps what is known of the records.
LEMMA RecordsKept ==
  ASSUME IInv, RecordInv, op.pc = "attributed" => wal.op = "none", [Next]_vars
  PROVE  RecordInv'
<1>0. /\ TypeOK /\ ServiceType /\ rec \in [Nonce -> Rec] /\ nonce \in Nat /\ now \in Nat
      /\ doc \in Doc /\ launched \in [1..MaxRun -> Nonce0] /\ sess \in Sess
      /\ Nonce = 1..MaxNonce /\ Nonce0 = 0..MaxNonce /\ MaxNonce \in Nat
      /\ sess.groups \subseteq Nonce /\ sess.completed \subseteq Nonce
  BY ServiceAssumption DEF IInv, TypeOK, ServiceType, Nonce0, Nonce, Sess
<1>a. TypeOK' /\ ServiceType' /\ nonce' \in Nat
  <2>1. TypeOK' /\ ServiceType'
    BY TypeStep DEF TypeOK
  <2> QED BY <1>0, <2>1 DEF ServiceType
<1>b. wal.op # "none" => wal.n \in Nonce
  BY <1>0 DEF ServiceType, Wal, NoWal
<1>c. now' \in {now, now + 1} /\ now # 0 /\ now' \in Nat
  BY <1>0, TimePasses
<1>i. doc'.id \in Nat /\ doc.id \in Nat /\ doc.id <= doc'.id
  <2>1. CASE doc' = doc
    BY <1>0, <2>1 DEF Doc
  <2>2. CASE Begins
    BY <1>0, <2>2 DEF Begins, Fresh, NoDoc, Doc
  <2>3. CASE Marks \/ Promotes \/ Samples \/ Cancels \/ Enters \/ GivesUp
    <3>1. doc'.id = doc.id
      BY <1>0, <2>3 DEF Marks, Promotes, Samples, Cancels, Enters, GivesUp, Marked, Promoted, Bound,
                        Waiting, Doc
    <3> QED BY <1>0, <3>1 DEF Doc
  <2>4. CASE Binds \/ Absolves \/ Fails \/ Finishes
    <3>1. doc'.id = doc.id
      BY <1>0, <2>4 DEF Binds, Absolves, Fails, Finishes, Bound, Finished, Doc
    <3> QED BY <1>0, <3>1 DEF Doc
  <2> QED BY <2>1, <2>2, <2>3, <2>4, DocumentSteps DEF Writes
<1> DEFINE Known(n) ==
      /\ n > nonce' => rec'[n].st = "none"
      /\ rec'[n].st # "none" => rec'[n].at # 0 /\ rec'[n].at <= now'
      /\ rec'[n].st = "stopped" => rec'[n].ended # 0 /\ rec'[n].ended <= now'
\* A run that ages is known when it was.
<1>k. ASSUME NEW n \in Nonce, Aged(rec[n], rec'[n]), nonce' >= nonce
      PROVE  Known(n) /\ (rec[n].st # "none" => rec'[n].st # "none")
  <2>1. rec[n] \in Rec /\ n \in Nat /\ rec[n].at \in Nat /\ rec[n].ended \in Nat
    BY <1>0 DEF Rec
  <2> QED BY <1>0, <1>a, <1>c, <1>k, <2>1, AgedFields DEF RecordInv
\* So is one that opens.
<1>o. ASSUME NEW n \in Nonce, NEW g, NEW lease, rec'[n] = Opened(g, lease), n <= nonce'
      PROVE  Known(n) /\ rec'[n].st = "active"
  <2>1. n \in Nat
    BY <1>0
  <2> QED BY <1>0, <1>a, <1>c, <1>o, <2>1, OpenedFields
<1>d. ASSUME nonce' >= nonce, launched' = launched
      PROVE  \A i \in 1..MaxRun : launched'[i] <= nonce' /\ (i > doc'.id => launched'[i] = 0)
  BY <1>0, <1>a, <1>d, <1>i DEF RecordInv
<1> HIDE DEF Known
<1>s. ASSUME \A n \in Nonce : Known(n),
             \A n \in sess'.groups \cup sess'.completed : rec'[n].st # "none" /\ sess'.id # 0,
             wal'.op # "none" => wal'.n <= nonce',
             wal'.op = "start" => rec'[wal'.n].st = "none" /\ ~SessionActive',
             wal'.op = "stop" => rec'[wal'.n].st = "active",
             \A i \in 1..MaxRun : launched'[i] <= nonce' /\ (i > doc'.id => launched'[i] = 0)
      PROVE  RecordInv'
  BY <1>s DEF RecordInv, Known
<1>1. CASE Beside
  <2>1. \A n \in Nonce : Aged(rec[n], rec'[n])
    BY <1>1 DEF Beside, Aged
  <2>2. SessionActive' = SessionActive
    BY <1>1 DEF Beside, SessionActive, ActiveRuns
  <2> QED BY <1>0, <1>1, <1>k, <1>d, <1>s, <2>1, <2>2 DEF Beside, RecordInv
<1>2. CASE RunsOver
  BY <1>0, <1>2, <1>k, <1>d, <1>s DEF RunsOver, RecordInv
<1>3. CASE Recovers
  <2>1. wal.n \in Nonce /\ wal.n <= nonce' /\ nonce' = nonce /\ launched' = launched
    BY <1>b, <1>3 DEF Recovers, RecordInv
  <2>2. Known(wal.n) /\ rec'[wal.n].st = "active"
    BY <1>3, <1>o, <2>1 DEF Recovers
  <2>3. \A n \in Nonce : Known(n) /\ (rec[n].st # "none" => rec'[n].st # "none")
    BY <1>0, <1>3, <1>k, <2>1, <2>2 DEF Recovers
  <2>4. sess' = [id |-> wal.n, groups |-> {wal.n}, completed |-> {}] /\ wal.n # 0
    <3>1. ~SessionActive /\ sess' = SessionWith(wal.n, "guided") /\ wal.n # 0
      BY <1>0, <1>3, <2>1 DEF Recovers, RecordInv
    <3> QED BY <1>0, <2>1, <3>1, SessionFields
  <2> QED BY <1>0, <1>3, <1>d, <1>s, <2>1, <2>2, <2>3, <2>4 DEF Recovers
<1>4. ASSUME NEW g \in Group, NEW lease, Opens(g, lease),
             \A i \in 1..MaxRun : launched'[i] <= nonce' /\ (i > doc'.id => launched'[i] = 0)
      PROVE  RecordInv'
  <2>1. nonce' \in Nonce /\ nonce' >= nonce /\ rec'[nonce'] = Opened(g, lease)
        /\ \A n \in Nonce \ {nonce'} : rec'[n] = rec[n]
    BY <1>0, <1>4 DEF Opens
  <2>2. \A n \in Nonce : Known(n) /\ (rec[n].st # "none" => rec'[n].st # "none")
    <3>1. Known(nonce') /\ rec'[nonce'].st = "active"
      BY <1>a, <1>o, <2>1
    <3>2. \A n \in Nonce \ {nonce'} : Aged(rec[n], rec'[n])
      BY <2>1 DEF Aged
    <3> QED BY <1>k, <2>1, <3>1, <3>2
  <2>3. rec'[nonce'].st # "none" /\ nonce' # 0
    BY <1>0, <2>1, OpenedFields
  <2>4. \A n \in sess'.groups \cup sess'.completed : rec'[n].st # "none" /\ sess'.id # 0
    BY <1>0, <1>4, <2>1, <2>2, <2>3, SessionFields DEF Opens, RecordInv
  <2> QED BY <1>4, <1>s, <2>2, <2>4 DEF Opens
<1>5. CASE Launch
  <2>1. op.pc = "launch" /\ launched' = [launched EXCEPT ![doc.id] = nonce'] /\ doc' = doc
        /\ nonce' = nonce + 1
    BY <1>5 DEF Launch
  <2>2. doc.id \in 1..MaxRun
    BY <1>0, <2>1, RunAssumption DEF IInv, RequestInv, OnRun, Starting, Busy, Doc
  <2>3. \A i \in 1..MaxRun : launched'[i] <= nonce' /\ (i > doc'.id => launched'[i] = 0)
    BY <1>0, <2>1, <2>2 DEF RecordInv
  <2>4. CASE Opens("guided", doc.watchdog)
    BY <1>4, <2>3, <2>4 DEF Group
  <2>5. CASE Drafts
    <3>1. \A n \in Nonce : Aged(rec[n], rec'[n])
      BY <2>5 DEF Drafts, Aged
    <3>2. SessionActive' = SessionActive
      BY <2>5 DEF Drafts, SessionActive, ActiveRuns
    <3>3. rec'[nonce'].st = "none" /\ nonce' >= nonce
      BY <1>0, <2>1, <2>5 DEF Drafts, RecordInv
    <3> QED BY <1>0, <1>a, <1>k, <1>s, <2>3, <2>5, <3>1, <3>2, <3>3 DEF Drafts, RecordInv
  <2>6. ~Beside /\ ~RunsOver /\ ~Recovers /\ ~StopPends
    BY <1>0, <2>1 DEF Beside, RunsOver, Recovers, StopPends
  <2> QED BY <1>0, <2>1, <2>4, <2>5, <2>6, TrafficSteps
<1>6. CASE StopPends
  <2>1. \A n \in Nonce : Aged(rec[n], rec'[n])
    BY <1>6 DEF StopPends, Aged
  <2>2. wal'.n <= nonce'
    BY <1>0, <1>6 DEF StopPends, RecordInv
  <2> QED BY <1>0, <1>6, <1>k, <1>d, <1>s, <2>1, <2>2 DEF StopPends, RecordInv
<1>7. ASSUME launched' = launched, NEW g \in Group, Opens(g, 0)
      PROVE  RecordInv'
  <2>1. nonce' >= nonce
    BY <1>0, <1>7 DEF Opens
  <2>2. \A i \in 1..MaxRun : launched'[i] <= nonce' /\ (i > doc'.id => launched'[i] = 0)
    BY <1>7, <1>d, <2>1
  <2> QED BY <1>4, <1>7, <2>2
<1> QED BY <1>0, <1>1, <1>2, <1>3, <1>5, <1>6, <1>7, TrafficSteps

\* A run that was opened is aged by every step, not opened again.
LEMMA OpenedStays ==
  ASSUME IInv, RecordInv, op.pc = "attributed" => wal.op = "none", [Next]_vars,
         NEW n \in Nonce, rec[n].st # "none"
  PROVE  Aged(rec[n], rec'[n])
<1>0. rec \in [Nonce -> Rec] /\ nonce \in Nat /\ Nonce \subseteq Nat
  BY ServiceAssumption DEF IInv, TypeOK, ServiceType, Nonce, Nonce0
<1>1. CASE Recovers
  BY <1>1 DEF Recovers, RecordInv
<1>2. ASSUME NEW g, NEW lease, Opens(g, lease)
      PROVE  Aged(rec[n], rec'[n])
  <2>1. n # nonce'
    BY <1>0, <1>2 DEF Opens, RecordInv
  <2> QED BY <1>0, <1>2, <2>1 DEF Opens, Aged
<1>3. CASE Beside \/ RunsOver \/ Drafts \/ StopPends
  BY <1>3 DEF Beside, RunsOver, Drafts, StopPends, Aged
<1> QED BY <1>1, <1>2, <1>3, TrafficSteps

-----------------------------------------------------------------------------
(* What a run is worth *)

\* The group a launch started is the only one of the session, and under the watchdog.
Launched ==
  /\ Own # 0 /\ sess = [id |-> Own, groups |-> {Own}, completed |-> {}]
  /\ rec[Own].grp = "guided" /\ rec[Own].lease = doc.watchdog /\ rec[Own].st = "active"

\* Nothing of the API transmits on the guided ports.
Silent == live["guided"] \in {0, Foreign}

\* What a request found out and relies on at a later step.
Judging == {"final", "failpending", "finish"}
OnRunning == \/ op.pc \in {"inspect", "sample", "elapsed"}
             \/ op.pc = "snapshot" /\ op.then = "inspect"
             \/ op.pc = "enter" /\ op.pend = "pass"
StepInv ==
  /\ op.pc = "launch" => Own = 0
  /\ op.pc = "promote" => Launched
  /\ OnRunning => doc.phase = "running"
  /\ op.pc = "attributed" => wal.op = "none"
  /\ op.pc \in {"preflight", "drive", "attributed", "certify"} /\ op.seen = "idle"
       /\ wal.op = "none" => Silent
  /\ op.pc \in Judging =>
       wal.op = "none" /\ Silent /\ rec[doc.trun].st = "stopped" /\ rec[doc.trun].exact
  /\ op.pc = "finish" /\ doc.pending = "pass" => doc.at >= rec[doc.trun].ended

\* A run that may still pass is bound to the traffic it started.
OwnInv ==
  doc.id # 0 /\ (doc.phase \in {"running", "pass"} \/ doc.pending = "pass") =>
    /\ Own # 0 /\ doc.trun = Own /\ rec[Own].st # "none"
    /\ doc.deadline = rec[Own].at + Window /\ doc.deadline < doc.watchdog

\* A pass has its evidence.
EarnedInv ==
  doc.id # 0 /\ doc.phase = "pass" =>
    /\ rec[Own].st = "stopped" /\ rec[Own].how = "operator_stop" /\ rec[Own].exact
    /\ rec[Own].ended >= doc.deadline /\ doc.at >= rec[Own].ended

\* The numbers of the document.
NumbersInv ==
  doc.id # 0 =>
    /\ doc.created # 0 /\ doc.created <= now
    /\ doc.deadline = (IF doc.started = 0 THEN doc.created ELSE doc.started) + Window
    /\ doc.tsid # 0 <=> doc.trun # 0
    /\ doc.trun # 0 <=> doc.started # 0
    /\ doc.phase = "preflight" => doc.trun = 0
    /\ doc.phase \notin Terminal => doc.mode = "none"
    /\ doc.phase \in Terminal => doc.mode # "none" /\ doc.ended # 0
    /\ doc.phase = "pass" => doc.mode # "not_started"

EvidenceInv == IInv /\ RecordInv /\ StepInv /\ OwnInv /\ EarnedInv /\ NumbersInv /\ SettledIsQuiet

\* A request that ended relies on nothing.
LEMMA StepEnds ==
  ASSUME op'.pc \in {"idle", "advance", "cancel", "wait"}
  PROVE  StepInv'
BY DEF StepInv, OnRunning, Judging

\* A request that goes to look at the ports, or on to stop the run, relies on little.
LEMMA StepMoves ==
  ASSUME op \in Op
  PROVE  /\ op' = Idle => StepInv'
         /\ \A pc \in {"advance", "cancel", "wait"} : op' = Goto(pc) => StepInv'
         /\ \A pc \in {"preflight", "drive", "certify"} : op' = Look(pc) => StepInv'
         /\ \A p \in Terminal, r \in BOOLEAN :
              op' = Stop(p, r) /\ (p = "pass" => doc'.phase = "running") => StepInv'
         /\ op' = Look("inspect") /\ doc'.phase = "running" => StepInv'
         /\ \A pc \in {"sample", "elapsed"} :
              op' = Goto(pc) /\ doc'.phase = "running" => StepInv'
<1>1. op' = Idle => StepInv'
  BY StepEnds DEF Idle
<1>2. \A pc \in {"advance", "cancel", "wait"} : op' = Goto(pc) => StepInv'
  BY StepEnds DEF Goto, Op
<1>3. \A pc \in {"preflight", "drive", "certify"} : op' = Look(pc) => StepInv'
  BY DEF Look, Op, StepInv, OnRunning, Judging
<1>4. \A p \in Terminal, r \in BOOLEAN :
              op' = Stop(p, r) /\ (p = "pass" => doc'.phase = "running") => StepInv'
  BY DEF Stop, Op, StepInv, OnRunning, Judging
<1>5. op' = Look("inspect") /\ doc'.phase = "running" => StepInv'
  BY DEF Look, Op, StepInv, OnRunning, Judging
<1>6. \A pc \in {"sample", "elapsed"} :
              op' = Goto(pc) /\ doc'.phase = "running" => StepInv'
  BY DEF Goto, Op, StepInv, OnRunning, Judging
<1> QED BY <1>1, <1>2, <1>3, <1>4, <1>5, <1>6

\* The record of a launched group is what the launch is validated by.
LEMMA LaunchedCandidate ==
  ASSUME TypeOK, Launched, Validated
  PROVE  Candidate = Own
<1>0. sess \in Sess /\ Own \in Nat
  BY ServiceAssumption DEF TypeOK, ServiceType, Own, Nonce0, Doc
<1>1. Matching(sess.groups) \subseteq {Own}
  BY <1>0 DEF Matching, Launched
<1>2. Own \in Matching(sess.groups)
  BY <1>0 DEF Matching, Launched
<1>3. Matching(sess.groups) = {Own}
  BY <1>1, <1>2
<1>4. Candidate = CHOOSE n \in {Own} : \A m \in {Own} : n <= m
  BY <1>3 DEF Candidate
<1> QED BY <1>0, <1>4

\* What a request relies on at a step, the step before has found out.
LEMMA StepKept ==
  ASSUME EvidenceInv, [Next]_vars
  PROVE  StepInv'
<1>0. /\ IInv /\ TypeOK /\ doc \in Doc /\ op \in Op /\ RequestInv /\ PendingInv /\ StepInv
      /\ RecordInv /\ launched \in [1..MaxRun -> Nonce0]
      /\ live \in [Group -> Nonce0 \cup {Foreign}] /\ "guided" \in Group /\ 0 \in Nonce0
      /\ now \in Nat
  BY ServiceAssumption DEF EvidenceInv, IInv, TypeOK, ServiceType, Group, Nonce0
<1>i. Busy => doc.id \in 1..MaxRun
  BY <1>0, RunAssumption DEF Busy, Doc
<1>p. {"fail", "cancelled", "pass"} \subseteq Terminal
  BY DEF Terminal
<1>m. /\ op' = Idle => StepInv'
      /\ \A r \in BOOLEAN : op' = Stop("fail", r) \/ op' = Stop("cancelled", r) => StepInv'
      /\ op' = Stop("pass", FALSE) /\ doc'.phase = "running" => StepInv'
  BY <1>0, <1>p, StepMoves
<1>1. CASE Requests
  BY <1>0, <1>1, StepMoves DEF Requests, StartRun, Request, Poll, Mark, MarkOnly, Cancel, Save
<1>2. CASE Snapshot
  <2>1. doc' = doc /\ op'.pc = op.then /\ op'.seen \in {"idle", "busy", "blind", "fail"}
        /\ launched' = launched
        /\ op.then \in {"preflight", "inspect", "drive", "certify"}
        /\ (op'.seen = "idle" => live'["guided"] = 0 \/ wal'.op # "none")
    <3>1. CASE Seen(Sight(live'))
      BY <1>0, <1>2, <3>1 DEF Snapshot, Seen, Sight, Op, RequestInv
    <3>2. CASE Seen(Sight(live)) /\ RecoveryFails
      <4>1. wal'.op # "none"
        BY <1>0, <3>2, RecoveryFailsBeside, <1>2 DEF Beside, Snapshot, RecoveryFails
      <4> QED BY <1>0, <1>2, <3>2, <4>1 DEF Snapshot, Seen, Sight, Op, RequestInv
    <3>3. CASE Seen("blind") \/ Seen("fail")
      BY <1>0, <1>2, <3>3 DEF Snapshot, Seen, Op, RequestInv
    <3> QED BY <1>2, <3>1, <3>2, <3>3 DEF Snapshot
  <2>2. op.then = "inspect" => doc.phase = "running"
    BY <1>0, <1>2 DEF Snapshot, StepInv, OnRunning
  <2> QED BY <2>1, <2>2 DEF StepInv, OnRunning, Judging, Silent
<1>3. CASE Preflight
  <2>1. CASE op' = Goto("launch") /\ doc' = Fresh
    <3>1. doc.id + 1 \in 1..MaxRun /\ doc.id \in Nat
      BY <1>0, <1>3, RunAssumption DEF Preflight, RequestInv, Starting, Doc
    <3>2. doc'.id = doc.id + 1 /\ launched' = launched
      BY <1>3, <2>1 DEF Fresh, NoDoc, Preflight, Local
    <3>3. Own' = 0
      BY <1>0, <3>1, <3>2 DEF RecordInv, Own
    <3> QED BY <1>0, <2>1, <3>3 DEF Goto, Op, StepInv, OnRunning, Judging
  <2>2. op' = Idle \/ (op' = Goto("launch") /\ doc' = Fresh)
    BY <1>3 DEF Preflight, Save, Fresh
  <2> QED BY <1>m, <2>1, <2>2
<1>4. CASE Launch
  <2>1. doc' = doc /\ op.pc = "launch" /\ Busy /\ launched' = [launched EXCEPT ![doc.id] = nonce']
    BY <1>0, <1>4 DEF Launch, RequestInv, OnRun, Starting
  <2>2. CASE /\ rec' = [rec EXCEPT ![nonce'] = Opened("guided", doc.watchdog)]
             /\ sess' = SessionWith(nonce', "guided")
             /\ op' = Goto("promote")
    <3>1. Own' = nonce' /\ nonce' # 0 /\ nonce' \in Nonce
      BY <1>0, <1>4, <1>i, <2>1, ServiceAssumption
      DEF Launch, Own, TypeOK, ServiceType, Nonce, Nonce0
    <3>2. sess' = [id |-> nonce', groups |-> {nonce'}, completed |-> {}]
      BY <1>0, <1>4, <2>2, <3>1, SessionFields DEF Launch, TypeOK
    <3>3. rec'[nonce'] = Opened("guided", doc.watchdog)
      BY <1>0, <2>2, <3>1 DEF TypeOK, ServiceType
    <3>4. Launched'
      BY <2>1, <3>1, <3>2, <3>3, OpenedFields DEF Launched
    <3> QED BY <1>0, <2>2, <3>4 DEF Goto, Op, StepInv, OnRunning, Judging
  <2>3. CASE op' = Idle \/ op' = Stop("fail", TRUE)
    BY <1>m, <2>3
  <2> QED BY <1>4, <2>2, <2>3 DEF Launch
<1>5. CASE LaunchRefused
  BY <1>m, <1>5 DEF LaunchRefused
<1>6. CASE Promote
  BY <1>0, <1>m, <1>6, StepMoves DEF Promote, SaveOr
<1>7. CASE Advance
  <2>1. doc.phase \in {"preflight", "running", "stopping"} /\ doc' = doc
    BY <1>0, <1>7 DEF Advance, RequestInv, OnRun, Starting, Busy, Doc
  <2> QED BY <1>0, <1>m, <1>7, <2>1, StepMoves DEF Advance
<1>8. CASE Inspect
  <2>1. doc'.phase = "running"
    BY <1>0, <1>8 DEF Inspect, StepInv, OnRunning
  <2> QED BY <1>0, <1>m, <1>8, <2>1, StepMoves DEF Inspect
<1>9. CASE Sample
  <2>1. doc.phase = "running" /\ TakesSample(Goto("elapsed"), Stop("fail", FALSE))
    BY <1>0, <1>9 DEF Sample, StepInv, OnRunning
  <2>2. doc'.phase = "running"
    BY <1>0, <2>1, SampleCases DEF Doc
  <2>3. op' \in {Idle, Goto("elapsed"), Stop("fail", FALSE)}
    BY <2>1, SampleCases
  <2> QED BY <1>0, <1>m, <2>2, <2>3, StepMoves
<1>10. CASE Elapsed
  <2>1. doc'.phase = "running"
    BY <1>0, <1>10 DEF Elapsed, StepInv, OnRunning
  <2> QED BY <1>0, <1>m, <1>10, <2>1 DEF Elapsed
<1>11. CASE CancelRun
  <2>1. doc.phase \in {"preflight", "running", "stopping"}
    BY <1>0, <1>11 DEF CancelRun, RequestInv, OnRun, Starting, Busy, Doc
  <2>2. CASE TakesSample(Stop("cancelled", FALSE), Stop("cancelled", FALSE))
    BY <1>m, <2>2, SampleCases
  <2>3. CASE op' = Stop("cancelled", FALSE) \/ op' = Idle \/ op' = Look("drive")
    BY <1>0, <1>m, <2>3, StepMoves
  <2> QED BY <1>11, <2>1, <2>2, <2>3 DEF CancelRun, Save
<1>12. CASE EnterStopping
  BY <1>0, <1>m, <1>12, StepMoves DEF EnterStopping, Save
<1>13. CASE Drive
  <2>1. CASE op' = Goto("attributed") /\ wal.op = "none"
    <3>1. op.pc = "drive" /\ live' = live /\ wal' = wal /\ (op.seen = "idle" => Silent)
      BY <1>0, <1>13, <2>1 DEF Drive, Local, traffic, StepInv
    <3> QED BY <1>0, <2>1, <3>1 DEF Goto, Op, StepInv, OnRunning, Judging, Silent
  <2>2. CASE op' = Idle
    BY <1>m, <2>2
  <2> QED BY <1>13, <2>1, <2>2 DEF Drive, Waits, Save
<1>14. CASE Attributed
  <2>1. CASE op' = Goto("certify")
    <3>1. op.pc = "attributed" /\ live' = live /\ wal' = wal
      BY <1>14 DEF Attributed, Local, traffic
    <3> QED BY <1>0, <2>1, <3>1 DEF Goto, Op, StepInv, OnRunning, Judging, Silent
  <2> QED BY <1>14, <1>m, <2>1 DEF Attributed, Waits, Save
<1>15. CASE StopTraffic \/ StopFails
  BY <1>0, <1>15, StepMoves DEF StopTraffic, StopFails
<1>16. CASE Wait
  BY <1>m, <1>16 DEF Wait, Waits, Save
<1>17. CASE Certify
  <2>1. CASE Certified /\ doc' = doc
             /\ op' = Goto(IF doc.pending = "pass" THEN "final" ELSE "finish")
    <3>1. Silent /\ wal.op = "none" /\ UNCHANGED <<live, wal, rec>>
      BY <1>0, <1>17, <2>1 DEF Certify, Certified, GuidedIdle, StepInv, Local, traffic
    <3>2. doc.trun = Candidate
      BY <1>0, <1>17, <2>1 DEF Certify, Certified, Validated, RequestInv
    <3>3. rec[doc.trun].st = "stopped" /\ rec[doc.trun].exact
      BY <2>1, <3>2 DEF Certified, Validated
    <3> QED BY <1>0, <2>1, <3>1, <3>3 DEF Goto, Op, StepInv, OnRunning, Judging, Silent
  <2> QED BY <1>17, <1>m, <2>1 DEF Certify, Waits, Save
<1>18. CASE FinalSample
  <2>1. /\ wal.op = "none" /\ Silent /\ rec[doc.trun].st = "stopped" /\ rec[doc.trun].exact
        /\ UNCHANGED <<live, wal, rec>> /\ doc.trun \in Nonce
    BY <1>0, <1>18 DEF FinalSample, StepInv, Judging, RequestInv, Ending, Local, traffic
  <2>2. rec[doc.trun].ended <= now
    BY <1>0, <2>1 DEF RecordInv
  <2>3. CASE op' = Goto("failpending") /\ doc' = doc
    BY <1>0, <2>1, <2>3 DEF Goto, Op, StepInv, OnRunning, Judging, Silent
  <2>4. ASSUME NEW verdict \in Verdict, doc' = [doc EXCEPT !.at = now, !.verdict = verdict],
               op' = Goto("finish")
        PROVE  StepInv'
    <3>1. doc'.trun = doc.trun /\ doc'.at >= rec[doc.trun].ended
      BY <1>0, <2>2, <2>4 DEF Doc
    <3> QED BY <1>0, <2>1, <2>4, <3>1 DEF Goto, Op, StepInv, OnRunning, Judging, Silent
  <2>5. TakesSample(Goto("finish"), Goto("failpending"))
    BY <1>18 DEF FinalSample
  <2>6. \/ op' = Goto("failpending") /\ doc' = doc
        \/ \E verdict \in Verdict : /\ doc' = [doc EXCEPT !.at = now, !.verdict = verdict]
                                    /\ op' \in {Goto("finish"), Idle}
    BY <2>5, SampleCases
  <2> QED BY <1>m, <2>3, <2>4, <2>6
<1>19. CASE FailPending
  <2>1. /\ wal.op = "none" /\ Silent /\ rec[doc.trun].st = "stopped" /\ rec[doc.trun].exact
        /\ UNCHANGED <<live, wal, rec>>
    BY <1>0, <1>19 DEF FailPending, StepInv, Judging, Local, traffic
  <2>2. CASE doc' = [doc EXCEPT !.pending = "fail", !.recovery = FALSE] /\ op' = Goto("finish")
    <3>1. doc'.trun = doc.trun /\ doc'.pending = "fail"
      BY <1>0, <2>2 DEF Doc
    <3> QED BY <1>0, <2>1, <2>2, <3>1 DEF Goto, Op, StepInv, OnRunning, Judging, Silent
  <2> QED BY <1>19, <1>m, <2>2 DEF FailPending, Save
<1>20. CASE Finish
  BY <1>20, <1>m DEF Finish, Save
<1>21. CASE Others
  <2>1. CASE op.pc = "idle"
    BY <1>21, <2>1, StepEnds DEF Others, Aside
  <2>2. CASE TrexExit \/ Controller \/ Tick
    <3>1. UNCHANGED <<doc, op, launched, rec, sess, wal>> /\ (Silent => Silent')
      BY <1>0, <1>21, <2>2 DEF Others, Aside, TrexExit, Controller, Tick, traffic, Silent
    <3> QED BY <1>0, <3>1 DEF StepInv, OnRunning, Judging, Launched, Own
  <2> QED BY <1>21, <2>1, <2>2 DEF Others, Quiet
<1>22. CASE Crash
  BY <1>22, <1>m DEF Crash
<1>23. CASE UNCHANGED vars
  BY <1>0, <1>23 DEF vars, service, traffic, StepInv, OnRunning, Judging, Launched, Own, Silent
<1> QED BY <1>1, <1>2, <1>3, <1>4, <1>5, <1>6, <1>7, <1>8, <1>9, <1>10, <1>11, <1>12, <1>13, <1>14,
           <1>15, <1>16, <1>17, <1>18, <1>19, <1>20, <1>21, <1>22, <1>23 DEF Next, Execute

\* A validated run has a record, and a session.
LEMMA ValidatedRun ==
  ASSUME TypeOK, RecordInv, Validated
  PROVE  /\ Candidate \in Nonce /\ sess.id \in Nonce /\ rec[Candidate].st # "none"
         /\ rec[Candidate].at \in Nat /\ rec[Candidate].at # 0
<1>0. ServiceType /\ sess \in Sess /\ sess.id \in Nonce0 /\ rec \in [Nonce -> Rec]
  BY DEF TypeOK, ServiceType, Sess
<1>1. Candidate \in Nonce
  BY <1>0, CandidateType, ServiceAssumption DEF Validated, Nonce, Nonce0
<1>2. Candidate \in sess.groups \cup sess.completed
  <2> DEFINE first(runs) == IF runs = {} THEN 0 ELSE CHOOSE n \in runs : \A m \in runs : n <= m
  <2>1. ASSUME NEW runs \in SUBSET Nonce, first(runs) # 0
        PROVE  first(runs) \in runs
    <3>1. runs # {} /\ runs \subseteq Nat
      BY <2>1 DEF Nonce
    <3>2. PICK n \in runs : \A m \in runs : ~ (<<m, n>> \in Less)
      BY <3>1, WFMin, LessWellFounded
    <3>3. \A m \in runs : n <= m
      <4>1. ASSUME NEW m \in runs, m < n
            PROVE  FALSE
        <5>1. <<m, n>> \in Nat \X Nat /\ <<m, n>>[1] < <<m, n>>[2]
          BY <3>1, <4>1
        <5> QED BY <3>2, <5>1 DEF Less
      <4> QED BY <3>1, <4>1
    <3> QED BY <3>1, <3>3
  <2>2. Matching(sess.groups) \in SUBSET Nonce /\ Matching(sess.completed) \in SUBSET Nonce
        /\ Matching(sess.groups) \subseteq sess.groups
        /\ Matching(sess.completed) \subseteq sess.completed
    BY <1>0 DEF Matching, Sess
  <2>3. Candidate # 0 /\ (\/ Candidate = first(Matching(sess.groups))
                          \/ Candidate = first(Matching(sess.completed)))
    BY DEF Candidate, Validated
  <2> HIDE DEF first
  <2> QED BY <2>1, <2>2, <2>3
<1>3. rec[Candidate].st # "none" /\ sess.id # 0
  BY <1>2 DEF RecordInv
<1>4. rec[Candidate].at \in Nat
  BY <1>0, <1>1 DEF Rec
<1> QED BY <1>0, <1>1, <1>3, <1>4, ServiceAssumption DEF RecordInv, Nonce, Nonce0

\* A step that leaves the document alone leaves the run its record.
LEMMA OwnRecordKept ==
  ASSUME EvidenceInv, [Next]_vars, doc' = doc, Own # 0, rec[Own].st # "none"
  PROVE  Own' = Own /\ Own \in Nonce /\ rec[Own] \in Rec /\ Aged(rec[Own], rec'[Own])
<1>0. /\ IInv /\ TypeOK /\ doc \in Doc /\ RequestInv /\ StepInv /\ RecordInv
      /\ launched \in [1..MaxRun -> Nonce0] /\ doc.id \in 0..MaxRun /\ rec \in [Nonce -> Rec]
  BY DEF EvidenceInv, IInv, TypeOK, ServiceType, Doc
<1>1. Own \in Nonce
  BY <1>0, RunAssumption, ServiceAssumption DEF Own, Nonce, Nonce0
<1>2. ~Launch
  BY <1>0 DEF Launch, StepInv
<1>3. launched' = launched
  BY <1>0, <1>2, TrafficSteps DEF StepInv, Beside, RunsOver, Recovers, StopPends
<1>4. Own' = Own
  BY <1>3 DEF Own
<1> QED BY <1>0, <1>1, <1>4, OpenedStays DEF StepInv

\* A run that may pass is bound to its traffic, step by step.
LEMMA OwnKept ==
  ASSUME EvidenceInv, [Next]_vars
  PROVE  OwnInv'
<1>0. /\ IInv /\ TypeOK /\ doc \in Doc /\ op \in Op /\ RequestInv /\ PendingInv /\ StepInv
      /\ RecordInv /\ OwnInv /\ NumbersInv
  BY DEF EvidenceInv, IInv, TypeOK
<1>1. CASE doc' = doc
  <2> SUFFICES ASSUME doc.id # 0, doc.phase \in {"running", "pass"} \/ doc.pending = "pass"
               PROVE  /\ Own' # 0 /\ doc.trun = Own' /\ rec'[Own'].st # "none"
                      /\ doc.deadline = rec'[Own'].at + Window /\ doc.deadline < doc.watchdog
    BY <1>1 DEF OwnInv
  <2>1. /\ Own # 0 /\ doc.trun = Own /\ rec[Own].st # "none"
        /\ doc.deadline = rec[Own].at + Window /\ doc.deadline < doc.watchdog
    BY <1>0 DEF OwnInv
  <2> QED BY <1>1, <2>1, OwnRecordKept, AgedFields
<1>2. CASE Writes
  <2>0. UNCHANGED <<now, traffic, process, launched>> /\ rec' = rec
    BY <1>2 DEF Writes, traffic
  <2>k. ASSUME doc'.id = doc.id, doc'.trun = doc.trun, doc'.deadline = doc.deadline,
               doc'.watchdog = doc.watchdog,
               doc'.phase \in {"running", "pass"} \/ doc'.pending = "pass"
               => doc.phase \in {"running", "pass"} \/ doc.pending = "pass"
        PROVE  OwnInv'
    <3>1. Own' = Own
      BY <2>0, <2>k DEF Own
    <3> QED BY <1>0, <2>0, <2>k, <3>1 DEF OwnInv
  <2>n. doc'.phase \notin {"running", "pass"} /\ doc'.pending # "pass" => OwnInv'
    BY DEF OwnInv
  <2>1. CASE Begins \/ Marks \/ Cancels \/ GivesUp \/ Fails
    <3>1. CASE Begins
      BY <2>n, <3>1 DEF Begins, Fresh, NoDoc
    <3>2. CASE Marks
      BY <1>0, <2>n, <3>2 DEF Marks, Marked, Doc
    <3>3. CASE Cancels
      BY <1>0, <2>n, <3>3 DEF Cancels, Doc
    <3>4. CASE GivesUp
      <4>1. doc.phase = "stopping"
        BY <1>0, <3>4 DEF GivesUp, RequestInv, InStop
      <4> QED BY <1>0, <2>n, <3>4, <4>1 DEF GivesUp, Waiting, Doc
    <3>5. CASE Fails
      <4>1. doc.phase = "stopping"
        BY <1>0, <3>5 DEF Fails, FailPending, RequestInv, InStop, Stopping
      <4> QED BY <1>0, <2>n, <3>5, <4>1 DEF Fails, Doc
    <3> QED BY <2>1, <3>1, <3>2, <3>3, <3>4, <3>5
  <2>2. CASE Promotes
    <3>1. Launched /\ doc.phase = "preflight" /\ doc.pending = "none"
      BY <1>0, <2>2 DEF Promotes, Promote, StepInv, RequestInv, PendingInv
    <3>2. Candidate = Own /\ Own # 0 /\ rec[Own].st # "none"
      BY <1>0, <2>2, <3>1, LaunchedCandidate DEF Promotes, Launched
    <3>3. CASE rec[Candidate].at + Window < doc.watchdog
      <4>1. /\ doc'.id = doc.id /\ doc'.trun = Own /\ doc'.deadline = rec[Own].at + Window
            /\ doc'.watchdog = doc.watchdog
        BY <1>0, <2>2, <3>2, <3>3 DEF Promotes, Promoted, Bound, Doc
      <4>2. Own' = Own
        BY <2>0, <4>1 DEF Own
      <4> QED BY <2>0, <3>2, <3>3, <4>1, <4>2 DEF OwnInv
    <3>4. CASE ~(rec[Candidate].at + Window < doc.watchdog)
      BY <1>0, <2>2, <2>n, <3>4 DEF Promotes, Promoted, Bound, Doc
    <3> QED BY <3>3, <3>4
  <2>3. CASE Samples
    BY <1>0, <2>3, <2>k DEF Samples, Doc
  <2>4. CASE Enters
    <3>1. op.pend = "pass" => doc.phase = "running"
      BY <1>0, <2>4 DEF Enters, EnterStopping, StepInv, OnRunning
    <3>2. doc.phase # "pass"
      BY <1>0, <2>4 DEF Enters, EnterStopping, RequestInv, OnRun, Starting, Busy, Terminal
    <3> QED BY <1>0, <2>4, <2>k, <3>1, <3>2 DEF Enters, Doc
  <2>5. CASE Binds
    <3>1. doc.phase = "stopping" /\ doc.tsid = 0 /\ doc.id # 0
      BY <1>0, <2>5 DEF Binds, Drive, RequestInv, InStop, Stopping, OnRun, Starting, Busy
    <3>2. doc.pending # "pass"
      BY <1>0, <3>1 DEF OwnInv, NumbersInv
    <3> QED BY <1>0, <2>5, <2>n, <3>1, <3>2 DEF Binds, Bound, Doc
  <2>6. CASE Absolves
    BY <1>0, <2>6, <2>n DEF Absolves, Finished, Doc
  <2>7. CASE Finishes
    <3> DEFINE r == rec[doc.trun]
               verdict == Verdicted(doc, r.how, r.ended)
    <3>1. verdict = "pass" => doc.pending = "pass"
      BY DEF Verdicted
    <3>2. doc.phase = "stopping" /\ doc.pending # "none" /\ doc.pending \in Terminal
      BY <1>0, <2>7 DEF Finishes, Finish, RequestInv, InStop, Stopping, PendingInv, Doc
    <3>3. verdict \in Terminal
      BY <3>2 DEF Verdicted, Terminal
    <3>4. doc' = Finished(doc, verdict, r.how, r.ended)
      BY <2>7 DEF Finishes
    <3> HIDE DEF verdict, r
    <3> QED BY <1>0, <2>k, <3>1, <3>3, <3>4 DEF Finished, Doc, Terminal
  <2> QED BY <1>2, <2>1, <2>2, <2>3, <2>4, <2>5, <2>6, <2>7 DEF Writes
<1> QED BY <1>0, <1>1, <1>2, DocumentSteps

\* The step that passes a run has the evidence in hand, and no step touches it later.
LEMMA EarnedKept ==
  ASSUME EvidenceInv, [Next]_vars
  PROVE  EarnedInv'
<1>0. /\ IInv /\ TypeOK /\ doc \in Doc /\ op \in Op /\ RequestInv /\ PendingInv /\ StepInv
      /\ RecordInv /\ OwnInv /\ NumbersInv /\ EarnedInv
  BY DEF EvidenceInv, IInv, TypeOK
<1>1. CASE doc' = doc
  <2> SUFFICES ASSUME doc.id # 0, doc.phase = "pass"
               PROVE  /\ rec'[Own'].st = "stopped" /\ rec'[Own'].how = "operator_stop"
                      /\ rec'[Own'].exact /\ rec'[Own'].ended >= doc.deadline
                      /\ doc.at >= rec'[Own'].ended
    BY <1>1 DEF EarnedInv
  <2>1. Own # 0 /\ rec[Own].st = "stopped"
    BY <1>0 DEF OwnInv, EarnedInv
  <2>2. Own' = Own /\ rec'[Own] = rec[Own]
    BY <1>1, <2>1, OwnRecordKept, AgedFields
  <2> QED BY <1>0, <2>2 DEF EarnedInv
<1>2. CASE Writes
  <2>0. UNCHANGED <<now, traffic, process, launched>> /\ rec' = rec
    BY <1>2 DEF Writes, traffic
  <2>1. CASE Finishes
    <3> DEFINE r == rec[doc.trun]
               verdict == Verdicted(doc, r.how, r.ended)
    <3>0. doc' = Finished(doc, verdict, r.how, r.ended)
      BY <2>1 DEF Finishes
    <3>1. CASE verdict = "pass"
      <4>1. doc.id # 0 /\ op.pc = "finish" /\ doc.pending = "pass"
        BY <1>0, <2>1, <3>1 DEF Finishes, Finish, RequestInv, OnRun, Starting, Busy, Verdicted
      <4>2. doc.trun = Own
        BY <1>0, <4>1 DEF OwnInv
      <4>3. /\ r.st = "stopped" /\ r.exact /\ doc.at >= r.ended
            /\ r.how \in {"operator_stop", "hard_stop"}
        BY <1>0, <4>1 DEF StepInv, Judging, RequestInv, Ending
      <4>4. r.how # "hard_stop" /\ r.ended >= doc.deadline
        BY <3>1, <4>1 DEF Verdicted
      <4>5. doc'.id = doc.id /\ doc'.deadline = doc.deadline /\ doc'.at = doc.at
        BY <1>0, <3>0 DEF Finished, Doc
      <4>6. Own' = Own
        BY <2>0, <4>5 DEF Own
      <4> QED BY <2>0, <4>2, <4>3, <4>4, <4>5, <4>6 DEF EarnedInv
    <3>2. CASE verdict # "pass"
      <4> HIDE DEF verdict, r
      <4>1. doc'.phase # "pass"
        BY <1>0, <3>0, <3>2 DEF Finished, Doc
      <4> QED BY <4>1 DEF EarnedInv
    <3> QED BY <3>1, <3>2
  <2>n. doc'.phase # "pass" => EarnedInv'
    BY DEF EarnedInv
  <2>2. CASE Begins \/ Marks
    BY <1>0, <2>2, <2>n DEF Begins, Fresh, NoDoc, Marks, Marked, Doc
  <2>3. CASE Promotes
    BY <1>0, <2>3, <2>n DEF Promotes, Promoted, Bound, Doc
  <2>4. CASE Samples \/ Cancels \/ GivesUp \/ Binds \/ Fails
    <3>1. doc.phase # "pass"
      BY <1>0, <2>4
      DEF Samples, Cancels, GivesUp, Binds, Fails, Sample, CancelRun, FinalSample, Drive,
          FailPending, RequestInv, OnRun, Starting, Busy, Terminal, Stopping
    <3>2. doc'.phase = doc.phase
      BY <1>0, <2>4 DEF Samples, Cancels, GivesUp, Waiting, Binds, Bound, Fails, Doc
    <3> QED BY <2>n, <3>1, <3>2
  <2>5. CASE Enters
    BY <1>0, <2>5, <2>n DEF Enters, Doc
  <2>6. CASE Absolves
    BY <1>0, <2>6, <2>n DEF Absolves, Finished, Doc
  <2> QED BY <1>2, <2>1, <2>2, <2>3, <2>4, <2>5, <2>6 DEF Writes
<1> QED BY <1>0, <1>1, <1>2, DocumentSteps

\* The numbers and evidence of the document fit its phase.
LEMMA NumbersKept ==
  ASSUME EvidenceInv, [Next]_vars
  PROVE  NumbersInv'
<1>0. /\ IInv /\ TypeOK /\ doc \in Doc /\ op \in Op /\ RequestInv /\ PendingInv /\ StepInv
      /\ RecordInv /\ OwnInv /\ NumbersInv
  BY DEF EvidenceInv, IInv, TypeOK
<1>n. now \in Nat /\ now # 0 /\ now' \in {now, now + 1}
  BY <1>0, TimePasses
<1>1. CASE doc' = doc
  BY <1>0, <1>1, <1>n DEF NumbersInv, Doc
<1>2. CASE Writes
  <2>0. now' = now /\ rec' = rec
    BY <1>2 DEF Writes, traffic
  <2>1. CASE Begins
    BY <1>0, <1>n, <2>0, <2>1 DEF Begins, Fresh, NoDoc, NumbersInv, Terminal
  <2>s. ASSUME doc.id # 0, doc'.created = doc.created, doc'.deadline = doc.deadline,
               doc'.started = doc.started, doc'.tsid = doc.tsid, doc'.trun = doc.trun,
               \/ doc'.phase = doc.phase /\ doc'.mode = doc.mode /\ doc'.ended = doc.ended
               \/ doc'.phase = "stopping" /\ doc'.mode = doc.mode /\ doc.phase \notin Terminal
               \/ /\ doc'.phase \in Terminal /\ doc'.mode # "none" /\ doc'.ended # 0
                  /\ doc'.phase = "pass" => doc'.mode # "not_started"
        PROVE  NumbersInv'
    BY <1>0, <2>0, <2>s DEF NumbersInv, Terminal
  <2>r. Marks \/ Samples \/ Cancels \/ Enters \/ GivesUp \/ Fails \/ Promotes \/ Binds
        \/ Absolves \/ Finishes => Busy
    BY <1>0
    DEF Marks, Restarted, Samples, Cancels, Enters, GivesUp, Fails, Promotes, Binds, Absolves,
        Finishes, Sample, CancelRun, FinalSample, EnterStopping, FailPending, Promote, Drive,
        Finish, RequestInv, OnRun, Starting, Stopping
  <2>b. Busy => doc.id # 0 /\ doc.phase \notin Terminal
    BY DEF Busy
  <2>2. CASE Marks \/ Enters
    <3>1. doc.id # 0 /\ doc.phase \notin Terminal
      BY <2>r, <2>b, <2>2
    <3>2. /\ doc'.created = doc.created /\ doc'.deadline = doc.deadline
          /\ doc'.started = doc.started /\ doc'.tsid = doc.tsid /\ doc'.trun = doc.trun
          /\ doc'.mode = doc.mode
          /\ doc'.phase = "stopping" \/ (doc'.phase = doc.phase /\ doc'.ended = doc.ended)
      <4>1. CASE Marks
        BY <1>0, <4>1 DEF Marks, Marked, Doc
      <4>2. CASE Enters
        BY <1>0, <4>2 DEF Enters, Doc
      <4> QED BY <2>2, <4>1, <4>2
    <3> QED BY <2>s, <3>1, <3>2
  <2>3. CASE Samples \/ Cancels \/ GivesUp \/ Fails
    <3>1. doc.id # 0 /\ doc.phase \notin Terminal
      BY <2>r, <2>b, <2>3
    <3>2. /\ doc'.created = doc.created /\ doc'.deadline = doc.deadline
          /\ doc'.started = doc.started /\ doc'.tsid = doc.tsid /\ doc'.trun = doc.trun
          /\ doc'.mode = doc.mode /\ doc'.phase = doc.phase /\ doc'.ended = doc.ended
      BY <1>0, <2>3 DEF Samples, Cancels, GivesUp, Waiting, Fails, Doc
    <3> QED BY <2>s, <3>1, <3>2
  <2>4. CASE Promotes \/ Binds
    <3>1. Validated /\ doc.id # 0 /\ doc.phase \notin Terminal
      BY <2>r, <2>b, <2>4 DEF Promotes, Binds
    <3>2. /\ Candidate \in Nonce /\ sess.id \in Nonce /\ rec[Candidate].at \in Nat
          /\ rec[Candidate].at # 0
      BY <1>0, <3>1, ValidatedRun
    <3>3. Candidate # 0 /\ sess.id # 0
      BY <3>2 DEF Nonce
    <3>4. /\ doc'.created = doc.created /\ doc'.deadline = doc'.started + Window
          /\ doc'.started # 0 /\ doc'.tsid # 0 /\ doc'.trun # 0 /\ doc'.mode = doc.mode
          /\ doc'.phase \in {"running", "stopping"}
      <4>1. CASE Promotes
        BY <1>0, <3>2, <3>3, <4>1 DEF Promotes, Promoted, Bound, Doc
      <4>2. CASE Binds
        <5>1. doc.phase = "stopping"
          BY <1>0, <4>2 DEF Binds, Drive, RequestInv, InStop, Stopping
        <5> QED BY <1>0, <3>2, <3>3, <4>2, <5>1 DEF Binds, Bound, Doc
      <4> QED BY <2>4, <4>1, <4>2
    <3> QED BY <1>0, <2>0, <3>1, <3>4 DEF NumbersInv, Terminal
  <2>5. CASE Absolves
    BY <1>0, <1>n, <2>s, <2>r, <2>b, <2>5 DEF Absolves, Finished, Doc, Terminal
  <2>6. CASE Finishes
    <3> DEFINE r == rec[doc.trun]
               verdict == Verdicted(doc, r.how, r.ended)
    <3>1. /\ r.st = "stopped" /\ r.how \in {"operator_stop", "hard_stop"} /\ doc.trun \in Nonce
          /\ doc.phase = "stopping"
      BY <1>0, <2>6
      DEF Finishes, Finish, StepInv, Judging, RequestInv, Ending, InStop, Stopping
    <3>2. r.ended # 0
      BY <1>0, <3>1 DEF RecordInv
    <3>3. verdict \in Terminal
      BY <1>0, <3>1 DEF Verdicted, PendingInv, Doc, Terminal
    <3>4. doc' = Finished(doc, verdict, r.how, r.ended)
      BY <2>6 DEF Finishes
    <3>5. doc.id # 0
      BY <2>r, <2>b, <2>6
    <3>6. /\ doc'.phase \in Terminal /\ doc'.mode # "none" /\ doc'.ended # 0
          /\ doc'.mode # "not_started"
      <4> HIDE DEF verdict
      <4> QED BY <1>0, <3>1, <3>2, <3>3, <3>4 DEF Finished, Doc
    <3> HIDE DEF verdict, r
    <3> QED BY <1>0, <2>s, <3>4, <3>5, <3>6 DEF Finished, Doc
  <2> QED BY <1>2, <2>1, <2>2, <2>3, <2>4, <2>5, <2>6 DEF Writes
<1> QED BY <1>0, <1>1, <1>2, DocumentSteps

\* A step that starts traffic starts that of a pending start or of a new number.
LEMMA QuietKept ==
  ASSUME EvidenceInv, [Next]_vars
  PROVE  SettledIsQuiet'
<1>0. /\ IInv /\ TypeOK /\ doc \in Doc /\ op \in Op /\ RequestInv /\ StepInv /\ RecordInv
      /\ SettledIsQuiet /\ launched \in [1..MaxRun -> Nonce0] /\ nonce \in Nat
      /\ Nonce0 = 0..MaxNonce /\ MaxNonce \in Nat /\ Foreign = MaxNonce + 1
      /\ Foreign \notin Nonce0
      /\ doc.id \in Nat /\ Nonce = 1..MaxNonce
  <2>1. /\ Nonce0 = 0..MaxNonce /\ MaxNonce \in Nat /\ Foreign = MaxNonce + 1
        /\ Foreign \notin Nonce0 /\ Nonce = 1..MaxNonce
    BY ServiceAssumption DEF Nonce0, Nonce, Foreign
  <2>2. /\ IInv /\ TypeOK /\ doc \in Doc /\ op \in Op /\ RequestInv /\ StepInv /\ RecordInv
        /\ SettledIsQuiet /\ launched \in [1..MaxRun -> Nonce0]
    BY DEF EvidenceInv, IInv, TypeOK
  <2>3. nonce \in Nat
    BY <2>1, <2>2 DEF TypeOK, ServiceType
  <2>4. doc.id \in Nat
    BY <2>2, RunAssumption DEF Doc
  <2> QED BY <2>1, <2>2, <2>3, <2>4
<1> DEFINE Over(i) == i < doc.id \/ (i = doc.id /\ ~Busy)
           Still(i) == live["guided"] # launched[i] /\ ~(wal.op = "start" /\ wal.n = launched[i])
<1>q. SettledIsQuiet = \A i \in 1..MaxRun : launched[i] # 0 /\ Over(i) => Still(i)
  BY DEF SettledIsQuiet
<1>1. CASE doc' = doc
  <2> SUFFICES ASSUME NEW i \in 1..MaxRun, launched'[i] # 0, Over(i)
               PROVE  /\ live'["guided"] # launched'[i]
                      /\ ~(wal'.op = "start" /\ wal'.n = launched'[i])
    BY <1>1 DEF SettledIsQuiet, Busy
  <2>1. launched'[i] = launched[i] /\ launched[i] \in Nonce0 /\ launched[i] <= nonce
    <3>1. CASE launched' = launched
      BY <1>0, <3>1 DEF RecordInv
    <3>2. CASE Launch
      <4>1. Busy /\ launched' = [launched EXCEPT ![doc.id] = nonce']
        BY <1>0, <3>2 DEF Launch, RequestInv, OnRun, Starting
      <4>2. i # doc.id
        BY <1>0, <4>1
      <4> QED BY <1>0, <4>1, <4>2 DEF RecordInv
    <3> QED BY <1>0, <3>1, <3>2, TrafficSteps DEF StepInv, Beside, RunsOver, Recovers, StopPends
  <2>2. launched[i] # 0 /\ Still(i) /\ launched[i] # Foreign
    BY <1>0, <1>q, <2>1
  <2>3. CASE Beside
    BY <2>1, <2>2, <2>3 DEF Beside
  <2>4. CASE RunsOver \/ Recovers \/ StopPends
    BY <2>1, <2>2, <2>4 DEF RunsOver, Recovers, StopPends
  <2>5. ASSUME NEW g, NEW lease, Opens(g, lease)
        PROVE  /\ live'["guided"] # launched'[i]
               /\ ~(wal'.op = "start" /\ wal'.n = launched'[i])
    <3>1. nonce' # launched[i]
      BY <1>0, <2>1, <2>5 DEF Opens
    <3> QED BY <2>1, <2>2, <2>5, <3>1 DEF Opens
  <2>6. CASE Drafts
    <3>1. nonce' # launched[i]
      BY <1>0, <2>1, <2>6 DEF Drafts
    <3> QED BY <2>1, <2>2, <2>6, <3>1 DEF Drafts
  <2> QED BY <1>0, <2>3, <2>4, <2>5, <2>6, TrafficSteps DEF StepInv
<1>2. CASE Writes
  <2>0. launched' = launched /\ live' = live /\ wal' = wal
    BY <1>2 DEF Writes, traffic
  <2>1. CASE Begins
    <3>1. ~Busy /\ doc'.id = doc.id + 1 /\ doc'.phase = "preflight"
      BY <1>0, <2>1 DEF Begins, Preflight, Fresh, NoDoc, RequestInv, Starting
    <3>2. Busy' /\ \A i \in 1..MaxRun : i < doc'.id => Over(i)
      BY <1>0, <3>1 DEF Busy, Terminal
    <3> QED BY <1>0, <1>q, <2>0, <3>1, <3>2 DEF SettledIsQuiet
  <2>s. ASSUME Silent, wal.op = "none", doc'.id = doc.id
        PROVE  SettledIsQuiet'
    <3> SUFFICES ASSUME NEW i \in 1..MaxRun, launched[i] # 0
                 PROVE  live["guided"] # launched[i]
      BY <2>0, <2>s DEF SettledIsQuiet
    <3> QED BY <1>0, <2>s DEF Silent
  <2>2. CASE Absolves
    <3>1. Silent /\ wal.op = "none"
      BY <1>0, <2>2 DEF Absolves, Drive, GuidedIdle, StepInv
    <3> QED BY <1>0, <2>s, <2>2, <3>1 DEF Absolves, Finished, Doc
  <2>3. CASE Finishes
    <3>1. Silent /\ wal.op = "none"
      BY <1>0, <2>3 DEF Finishes, Finish, StepInv, Judging
    <3> QED BY <1>0, <2>s, <2>3, <3>1 DEF Finishes, Finished, Doc
  <2>b. ASSUME doc'.id = doc.id, doc'.phase \notin Terminal
        PROVE  SettledIsQuiet'
    <3>1. \A i \in 1..MaxRun : i < doc'.id \/ (i = doc'.id /\ ~Busy') => Over(i)
      BY <1>0, <2>b DEF Busy
    <3> QED BY <1>0, <1>q, <2>0, <3>1 DEF SettledIsQuiet
  <2>4. CASE Marks \/ Enters \/ Promotes
    <3>1. doc'.id = doc.id /\ doc'.phase \in {"running", "stopping"}
      BY <1>0, <2>4 DEF Marks, Marked, Enters, Promotes, Promoted, Bound, Doc
    <3> QED BY <2>b, <3>1 DEF Terminal
  <2>5. CASE Samples \/ Cancels \/ GivesUp \/ Binds \/ Fails
    <3>1. doc'.id = doc.id /\ doc'.phase = doc.phase
      BY <1>0, <2>5 DEF Samples, Cancels, GivesUp, Waiting, Binds, Bound, Fails, Doc
    <3>2. doc.phase \notin Terminal
      BY <1>0, <2>5
      DEF Samples, Cancels, GivesUp, Binds, Fails, Sample, CancelRun, FinalSample, Drive,
          FailPending, RequestInv, OnRun, Starting, Busy, Stopping
    <3> QED BY <2>b, <3>1, <3>2
  <2> QED BY <1>2, <2>1, <2>2, <2>3, <2>4, <2>5 DEF Writes
<1> QED BY <1>0, <1>1, <1>2, DocumentSteps

\* The evidence holds up in every reachable state.
LEMMA EvidenceAlways == Spec => []EvidenceInv
<1>1. Init /\ IInv => EvidenceInv
  <2> SUFFICES ASSUME Init, IInv
               PROVE  EvidenceInv
    OBVIOUS
  <2>1. RecordInv
    BY ServiceAssumption, RunAssumption
    DEF Init, ServiceInit, RecordInv, NoRec, NoSess, NoWal, NoDoc, Nonce
  <2>2. StepInv
    BY DEF Init, Idle, StepInv, OnRunning, Judging
  <2>3. OwnInv /\ EarnedInv /\ NumbersInv
    BY DEF Init, NoDoc, OwnInv, EarnedInv, NumbersInv
  <2>4. SettledIsQuiet
    BY DEF Init, NoDoc, SettledIsQuiet
  <2> QED BY <2>1, <2>2, <2>3, <2>4 DEF EvidenceInv
<1>2. EvidenceInv /\ IInv' /\ [Next]_vars => EvidenceInv'
  <2> SUFFICES ASSUME EvidenceInv, IInv', [Next]_vars
               PROVE  EvidenceInv'
    OBVIOUS
  <2>1. RecordInv'
    BY RecordsKept DEF EvidenceInv, StepInv
  <2> QED BY <2>1, StepKept, OwnKept, EarnedKept, NumbersKept, QuietKept DEF EvidenceInv
<1> QED BY <1>1, <1>2, Invariant, PTL DEF Spec

\* A run passes only with the traffic it started itself, which transmitted for the whole
\* window, was ended by a commanded stop of exactly its ports, and was sampled after that,
\* whoever else uses the traffic authority and whatever fails or crashes.
THEOREM PassesAreEarned == Spec => []PassIsEarned
<1>1. EvidenceInv => PassIsEarned
  <2> SUFFICES ASSUME EvidenceInv, doc.id # 0, doc.phase = "pass"
               PROVE  /\ doc.trun = Own /\ Own # 0
                      /\ rec[Own].how = "operator_stop" /\ rec[Own].exact
                      /\ rec[Own].ended >= rec[Own].at + Window
                      /\ doc.at >= rec[Own].ended
    BY DEF PassIsEarned
  <2> QED BY DEF EvidenceInv, OwnInv, EarnedInv
<1> QED BY <1>1, EvidenceAlways, PTL

\* The document always passes its validator (phase_evidence_must_be_consistent), so that no
\* write is refused that would settle a run.
THEOREM DocumentStaysValid == Spec => []DocumentValid
<1>1. EvidenceInv => DocumentValid
  <2> SUFFICES ASSUME EvidenceInv, doc.id # 0
               PROVE  DocumentValid
    BY DEF DocumentValid
  <2>0. /\ doc \in Doc /\ PendingInv /\ NumbersInv /\ OwnInv
    BY DEF EvidenceInv, IInv, TypeOK
  <2>1. doc.phase \in {"running", "pass"} \/ doc.pending = "pass"
        => doc.watchdog > doc.deadline /\ doc.trun # 0
    BY <2>0 DEF OwnInv, Doc
  <2>2. doc.mode \in {"none", "not_started", "operator_stop", "hard_stop"}
        /\ doc.phase \in {"preflight", "running", "stopping"} \cup Terminal
    BY <2>0 DEF Doc
  <2> QED BY <2>0, <2>1, <2>2 DEF NumbersInv, PendingInv, DocumentValid, Terminal
<1> QED BY <1>1, EvidenceAlways, PTL

\* A settled run has no traffic left, and no intent that could still start some, for good.
THEOREM SettledStaysQuiet == Spec => []SettledIsQuiet
<1>1. EvidenceInv => SettledIsQuiet
  BY DEF EvidenceInv
<1> QED BY <1>1, EvidenceAlways, PTL

-----------------------------------------------------------------------------
(* Whose the evidence is, where nobody else starts traffic *)

\* The session of the run, if its start took effect, is the only one: what was there before is
\* older than the run.
AloneInv ==
  /\ Starting => \A n \in Nonce : rec[n].st # "none" => rec[n].at < now
  /\ wal.op = "start" => Busy /\ wal.n = Own /\ wal.lease = doc.watchdog
  /\ doc.id # 0 =>
       /\ doc.watchdog # 0
       /\ \A n \in Nonce \ {Own} : rec[n].st # "none" => rec[n].at < doc.created
       /\ doc.trun # 0 => doc.trun = Own /\ rec[Own].st # "none" /\ doc.tsid = Own
  /\ Own # 0 /\ rec[Own].st # "none" =>
       /\ sess = [id |-> Own, groups |-> {Own}, completed |-> {}]
       /\ rec[Own].grp = "guided"
       /\ doc.created <= rec[Own].at /\ rec[Own].at <= doc.watchdog
       /\ rec[Own].lease = IF rec[Own].st = "active" THEN doc.watchdog ELSE 0

\* The run the document is about finds its own record, if there is one.
LEMMA OwnValidated ==
  ASSUME TypeOK, AloneInv, Own # 0, rec[Own].st # "none", doc.trun \in {0, Own},
         doc.tsid \in {0, Own}
  PROVE  Validated
<1>0. /\ sess = [id |-> Own, groups |-> {Own}, completed |-> {}] /\ rec[Own].grp = "guided"
      /\ doc.created <= rec[Own].at /\ rec[Own].at <= doc.watchdog
      /\ rec[Own].lease = IF rec[Own].st = "active" THEN doc.watchdog ELSE 0
  BY DEF AloneInv
<1>1. Own \in Nonce
  BY RunAssumption, ServiceAssumption DEF TypeOK, ServiceType, Own, Nonce, Nonce0, Doc
<1>2. rec[Own].st \in {"active", "stopped"}
  BY <1>1 DEF TypeOK, ServiceType, Rec
<1>3. Matching(sess.groups) = {Own}
  BY <1>0 DEF Matching
<1>4. Candidate = CHOOSE n \in {Own} : \A m \in {Own} : n <= m
  BY <1>3 DEF Candidate
<1>5. Candidate = Own
  BY <1>1, <1>4 DEF Nonce
<1>6. SessionActive <=> rec[Own].st = "active"
  BY <1>0 DEF SessionActive, ActiveRuns
<1> QED BY <1>0, <1>1, <1>2, <1>5, <1>6 DEF Validated, Nonce

\* What a run is bound to is its own.
LEMMA BoundOwn ==
  ASSUME TypeOK, RecordInv, AloneInv, doc.id # 0, Validated
  PROVE  Candidate = Own /\ rec[Own].st # "none" /\ sess.id = Own
<1>0. Candidate \in Nonce /\ rec[Candidate].st # "none" /\ rec[Candidate].at \in Nat
  BY ValidatedRun
<1>1. doc.created <= rec[Candidate].at /\ doc.created \in Nat
  BY DEF Validated, TypeOK, Doc
<1>2. Candidate = Own
  BY <1>0, <1>1 DEF AloneInv
<1> QED BY <1>0, <1>2 DEF AloneInv, Nonce

\* Only a start goes to look for a settled run.
LEMMA StartingSteps ==
  ASSUME IInv, IInv', [Next]_vars, Starting'
  PROVE  doc' = doc /\ (Starting \/ StartRun)
<1>0. op \in Op /\ doc \in Doc /\ RequestInv /\ RequestInv'
  BY DEF IInv, TypeOK
<1>1. doc' = doc
  <2> SUFFICES ASSUME doc' # doc
               PROVE  FALSE
    OBVIOUS
  <2>1. \/ op' \in {Idle, Look("drive")} \/ ~Starting'
        \/ \E p \in {"advance", "launch", "finish", "attributed"} : op' = Goto(p)
    <3>1. CASE Samples
      <4>1. OnRun /\ Busy
        BY <1>0, <3>1 DEF Samples, Sample, CancelRun, FinalSample, RequestInv, OnRun, Starting
      <4>2. Busy'
        BY <1>0, <3>1, <4>1 DEF Samples, Busy, Doc
      <4> QED BY <1>0, <4>2 DEF RequestInv
    <3> QED BY <3>1, DocumentSteps
        DEF Writes, Begins, Marks, Promotes, Cancels, Enters, GivesUp, Binds, Absolves, Fails,
            Finishes
  <2>2. op' # Idle
    BY DEF Idle, Starting
  <2>3. ASSUME op' = Look("drive")
        PROVE  FALSE
    BY <1>0, <2>3 DEF Look, Op, Starting
  <2>4. ASSUME NEW p \in {"advance", "launch", "finish", "attributed"}, op' = Goto(p)
        PROVE  FALSE
    BY <1>0, <2>4 DEF Goto, Op, Starting
  <2> QED BY <2>1, <2>2, <2>3, <2>4
<1>2. CASE op.pc # "idle"
  BY <1>0, <1>1, <1>2 DEF RequestInv, OnRun, Busy
<1>3. CASE op.pc = "idle"
  <2>1. ~Execute
    BY <1>3
    DEF Execute, Snapshot, Preflight, Launch, LaunchRefused, Promote, Advance, Inspect, Sample,
        Elapsed, CancelRun, EnterStopping, Drive, Attributed, StopTraffic, StopFails, Wait, Certify,
        FinalSample, FailPending, Finish
  <2>2. op' = op => Starting
    BY DEF Starting
  <2>3. op' # Idle /\ op' # Goto("advance") /\ op' # Goto("cancel")
    BY <1>0 DEF Idle, Goto, Op, Starting
  <2>4. ~Crash /\ ~Poll /\ ~Cancel /\ ~Mark /\ ~MarkOnly
    BY <2>3 DEF Crash, Poll, Cancel, Mark, MarkOnly, Save
  <2>5. Others \/ UNCHANGED vars => op' = op
    BY DEF Others, Aside, vars
  <2> QED BY <1>1, <2>1, <2>2, <2>4, <2>5 DEF Next, Requests
<1> QED BY <1>1, <1>2, <1>3

\* Steps that leave the document alone keep it: only a launch, or its recovery, starts traffic.
LEMMA AloneTraffic ==
  ASSUME EvidenceInv, IInv', AloneInv, EvidenceIsOwn, [Next]_vars, "start" \notin Clients,
         doc' = doc
  PROVE  AloneInv' /\ EvidenceIsOwn'
<1>0. /\ IInv /\ IInv' /\ RequestInv' /\ TypeOK /\ doc \in Doc /\ op \in Op /\ RequestInv
      /\ StepInv /\ RecordInv
      /\ NumbersInv /\ launched \in [1..MaxRun -> Nonce0] /\ rec \in [Nonce -> Rec]
      /\ sess \in Sess /\ Nonce \subseteq Nat \ {0}
  BY DEF EvidenceInv, IInv, TypeOK, ServiceType, Nonce
<1>n. now \in Nat /\ now' \in Nat /\ now <= now'
  BY <1>0, TimePasses
<1>d. \A n \in Nonce : rec[n] \in Rec /\ rec[n].at \in Nat
  BY <1>0 DEF Rec
<1>i. Busy => doc.id \in 1..MaxRun
  BY <1>0, RunAssumption DEF Busy, Doc
\* The start of a request finds the runs older than itself, and nothing opens one meanwhile.
<1>s. ASSUME Starting', wal.op = "start" => Busy
      PROVE  \A n \in Nonce : rec'[n].st # "none" => rec'[n].at < now'
  <2>1. CASE StartRun
    <3>1. rec' = rec /\ now' = now /\ \A n \in 1..nonce : rec[n].at < now
      BY <2>1 DEF StartRun, Request, Local, traffic
    <3>2. \A n \in Nonce : rec[n].st # "none" => n \in 1..nonce
      BY <1>0 DEF RecordInv, TypeOK, ServiceType, Nonce, Nonce0
    <3> QED BY <3>1, <3>2
  <2>2. CASE Starting
    <3>1. ~Busy /\ op.pc # "launch" /\ wal.op # "start"
      BY <1>0, <1>s, <2>2 DEF RequestInv, Starting
    <3>2. ~Recovers /\ ~Launch
      BY <3>1 DEF Recovers, Launch
    <3>3. \A n \in Nonce : Aged(rec[n], rec'[n])
      BY <1>0, <3>2, TrafficSteps DEF StepInv, Beside, RunsOver, StopPends, Aged
    <3> QED BY <1>0, <1>n, <1>d, <2>2, <3>3, AgedFields DEF AloneInv
  <2>3. StartRun \/ Starting
    BY <1>0, <1>s, StartingSteps
  <2> QED BY <2>1, <2>2, <2>3
\* Without a new record the run keeps what it had.
<1>k. ASSUME launched' = launched, sess' = sess, \A n \in Nonce : Aged(rec[n], rec'[n]),
             wal'.op = "start" => wal.op = "start" /\ wal'.n = wal.n /\ wal'.lease = wal.lease
      PROVE  AloneInv' /\ EvidenceIsOwn'
  <2>1. Own' = Own /\ Busy' = Busy
    BY <1>k DEF Own, Busy
  <2>2. Own # 0 => Own \in Nonce
    BY <1>0, RunAssumption, ServiceAssumption DEF Own, Doc, Nonce, Nonce0
  <2>3. EvidenceIsOwn'
    <3>1. Own # 0 => (rec'[Own].st # "none" <=> rec[Own].st # "none")
      BY <1>d, <1>k, <2>2, AgedFields
    <3> QED BY <2>1, <3>1 DEF EvidenceIsOwn
  <2>4. Own # 0 /\ rec'[Own].st # "none" =>
          /\ sess' = [id |-> Own, groups |-> {Own}, completed |-> {}] /\ rec'[Own].grp = "guided"
          /\ doc.created <= rec'[Own].at /\ rec'[Own].at <= doc.watchdog
          /\ rec'[Own].lease = IF rec'[Own].st = "active" THEN doc.watchdog ELSE 0
    <3> SUFFICES ASSUME Own # 0, rec'[Own].st # "none"
                 PROVE  /\ sess' = [id |-> Own, groups |-> {Own}, completed |-> {}]
                        /\ rec'[Own].grp = "guided"
                        /\ doc.created <= rec'[Own].at /\ rec'[Own].at <= doc.watchdog
                        /\ rec'[Own].lease = IF rec'[Own].st = "active" THEN doc.watchdog ELSE 0
      OBVIOUS
    <3>1. Aged(rec[Own], rec'[Own]) /\ rec[Own] \in Rec
      BY <1>0, <1>k, <2>2
    <3>2. rec[Own].st # "none" /\ (rec[Own].st = "stopped" \/ rec[Own].st = "active")
      BY <3>1, AgedFields DEF Rec
    <3>3. rec'[Own].st = "active" \/ (rec'[Own].st = "stopped" /\ rec[Own].st = "active")
          \/ rec'[Own] = rec[Own]
      BY <3>1 DEF Aged, Ended, Rec
    <3> QED BY <1>k, <3>1, <3>2, <3>3, AgedFields DEF AloneInv
  <2>5. doc.id # 0 =>
          /\ \A n \in Nonce \ {Own} : rec'[n].st # "none" => rec'[n].at < doc.created
          /\ doc.trun # 0 => doc.trun = Own /\ rec'[Own].st # "none" /\ doc.tsid = Own
    <3>1. \A n \in Nonce : rec'[n].at = rec[n].at /\ (rec'[n].st # "none" <=> rec[n].st # "none")
      BY <1>0, <1>k, AgedFields
    <3> QED BY <2>2, <3>1 DEF AloneInv
  <2>6. Starting' => \A n \in Nonce : rec'[n].st # "none" => rec'[n].at < now'
    BY <1>s DEF AloneInv
  <2> QED BY <1>k, <2>1, <2>3, <2>4, <2>5, <2>6 DEF AloneInv
<1>1. CASE Beside \/ RunsOver \/ StopPends
  BY <1>k, <1>1 DEF Beside, RunsOver, StopPends, Aged
\* A record opens under the number of the run.
<1>o. ASSUME NEW n \in Nonce, Own' = n, Busy, rec'[n] = Opened("guided", doc.watchdog),
             \A m \in Nonce \ {n} : Aged(rec[m], rec'[m]), rec[n].st = "none", Own \in {0, n},
             sess' = [id |-> n, groups |-> {n}, completed |-> {}], wal'.op = "none",
             now' = now, now <= doc.watchdog, ~Starting'
      PROVE  AloneInv' /\ EvidenceIsOwn'
  <2>1. doc.id # 0 /\ Busy' /\ n # 0 /\ doc.created <= now
    BY <1>0, <1>1, <1>o DEF Busy, NumbersInv
  <2>2. doc.trun = 0
    BY <1>o, <2>1 DEF AloneInv
  <2>3. \A m \in Nonce \ {n} : rec'[m].st # "none" => rec'[m].at < doc.created
    <3>1. \A m \in Nonce \ {n} : rec'[m].at = rec[m].at
                                 /\ (rec'[m].st # "none" <=> rec[m].st # "none")
      BY <1>0, <1>o, AgedFields
    <3> QED BY <1>0, <1>o, <2>1, <3>1 DEF AloneInv
  <2>4. /\ rec'[n].grp = "guided" /\ rec'[n].at = now /\ rec'[n].lease = doc.watchdog
        /\ rec'[n].st = "active"
    BY <1>o, OpenedFields
  <2> QED BY <1>o, <2>1, <2>2, <2>3, <2>4 DEF AloneInv, EvidenceIsOwn
<1>2. CASE Recovers
  <2>1. /\ wal.n \in Nonce /\ wal.n = Own /\ Busy /\ wal.lease = doc.watchdog
        /\ rec[wal.n].st = "none" /\ ~SessionActive
    BY <1>0, <1>2 DEF Recovers, AloneInv, RecordInv, TypeOK, ServiceType, Wal, NoWal
  <2>2. launched' = launched /\ Own' = Own
    BY <1>2 DEF Recovers, Own
  <2>3. sess' = [id |-> Own, groups |-> {Own}, completed |-> {}]
    BY <1>0, <1>2, <2>1, SessionFields DEF Recovers, TypeOK
  <2>4. now < doc.watchdog
    <3>1. doc.watchdog # 0 /\ doc.watchdog \in Nat
      BY <1>0, <2>1 DEF AloneInv, Busy, Doc
    <3> QED BY <1>2, <1>n, <2>1, <3>1 DEF Recovers, ToRollBack
  <2>5. now' = now /\ ~Starting'
    <3>1. wal' # wal
      BY <1>2, <2>1 DEF Recovers, AloneInv, TypeOK, ServiceType, Wal, NoWal
    <3>2. ~Starting'
      <4>1. ~StartRun
        BY <3>1 DEF StartRun, Request, Local, traffic
      <4>2. ~Starting
        BY <1>0, <2>1 DEF RequestInv
      <4> QED BY <1>0, <4>1, <4>2, StartingSteps
    <3>3. ~Tick
      BY <3>1 DEF Tick, traffic
    <3>4. now' = now
      BY <3>1, <3>3
      DEF Next, Requests, StartRun, Request, Poll, Mark, MarkOnly, Cancel, Execute, Snapshot,
          Preflight, Launch, LaunchRefused, Promote, Advance, Inspect, Sample, Elapsed, CancelRun,
          EnterStopping, Drive, Attributed, StopTraffic, StopFails, Wait, Certify, FinalSample,
          FailPending, Finish, Local, Others, Read, ClientStart, ClientStop, Reap, ReapLease,
          ReapOverStop, ReapIntent, TrexExit, Controller, Crash, vars, service, traffic
    <3> QED BY <3>2, <3>4
  <2>6. doc.watchdog \in Nat
    BY <1>0 DEF Doc
  <2> QED BY <1>2, <1>n, <1>o, <2>1, <2>2, <2>3, <2>4, <2>5, <2>6 DEF Recovers
<1>3. CASE Launch
  <2>1. /\ op.pc = "launch" /\ Busy /\ Own = 0 /\ launched' = [launched EXCEPT ![doc.id] = nonce']
        /\ now' = now /\ now < doc.watchdog /\ ~SessionActive
    BY <1>0, <1>3 DEF Launch, RequestInv, OnRun, Starting, StepInv
  <2>2. Own' = nonce'
    BY <1>0, <1>i, <2>1 DEF Own, Busy
  <2>3. CASE Opens("guided", doc.watchdog) /\ op' = Goto("promote")
    <3>1. /\ nonce' \in Nonce /\ rec'[nonce'] = Opened("guided", doc.watchdog)
          /\ \A m \in Nonce \ {nonce'} : rec'[m] = rec[m]
      BY <1>0, <2>3 DEF Opens
    <3>2. rec[nonce'].st = "none"
      BY <1>0, <2>3, <3>1 DEF Opens, RecordInv, TypeOK, ServiceType, Nonce0
    <3>3. sess' = [id |-> nonce', groups |-> {nonce'}, completed |-> {}]
      BY <1>0, <2>1, <2>3, <3>1, SessionFields DEF Opens, TypeOK
    <3>4. ~Starting'
      BY <1>0, <2>3 DEF Goto, Op, Starting
    <3>5. wal'.op = "none" /\ doc.watchdog \in Nat
      BY <1>0, <2>3 DEF Opens, Doc
    <3>6. \A m \in Nonce \ {nonce'} : Aged(rec[m], rec'[m])
      BY <3>1 DEF Aged
    <3> QED BY <1>n, <1>o, <2>1, <2>2, <3>1, <3>2, <3>3, <3>4, <3>5, <3>6
  <2>4. CASE Drafts /\ op' \in {Idle, Stop("fail", TRUE)}
    <3>1. rec' = rec /\ sess' = sess /\ nonce' \in Nonce /\ rec[nonce'].st = "none"
      BY <1>0, <2>4 DEF Drafts, RecordInv, TypeOK, ServiceType, Nonce0
    <3>2. doc.id # 0 /\ doc.trun = 0 /\ Busy' /\ ~Starting'
      <4>1. doc.phase = "preflight" /\ Busy'
        BY <1>0, <2>1 DEF Busy, RequestInv
      <4>2. ~Starting'
        BY <4>1, <1>0 DEF RequestInv
      <4> QED BY <1>0, <2>1, <4>1, <4>2 DEF Busy, NumbersInv
    <3>3. wal'.op = "start" /\ wal'.n = nonce' /\ wal'.lease = doc.watchdog
      BY <2>4 DEF Drafts
    <3> QED BY <1>0, <2>1, <2>2, <3>1, <3>2, <3>3 DEF AloneInv, EvidenceIsOwn
  <2>5. ~Beside /\ ~RunsOver /\ ~Recovers /\ ~StopPends
    BY <1>0, <1>3, <2>1 DEF Launch, Beside, RunsOver, Recovers, StopPends, TypeOK, ServiceType,
                            Nonce0
  <2> QED BY <1>0, <2>1, <2>3, <2>4, <2>5, TrafficSteps DEF StepInv
<1> QED BY <1>0, <1>1, <1>2, <1>3, TrafficSteps DEF StepInv

\* A write names the traffic of the run, or that there is none.
LEMMA AloneWrites ==
  ASSUME EvidenceInv, IInv', AloneInv, EvidenceIsOwn, [Next]_vars, Writes, doc' # doc
  PROVE  AloneInv' /\ EvidenceIsOwn'
<1>0. /\ IInv /\ TypeOK /\ doc \in Doc /\ op \in Op /\ RequestInv /\ PendingInv /\ StepInv
      /\ RecordInv /\ NumbersInv /\ launched \in [1..MaxRun -> Nonce0] /\ Nonce \subseteq Nat \ {0}
  BY DEF EvidenceInv, IInv, TypeOK, Nonce
<1>1. UNCHANGED <<now, rec, sess, wal, launched>>
  BY DEF Writes, traffic
<1>2. ~Starting'
  BY <1>0, StartingSteps
\* A write that keeps what the run is bound to.
<1>k. ASSUME doc.id # 0, doc'.id = doc.id, doc'.created = doc.created,
             doc'.watchdog = doc.watchdog, wal.op = "start" => Busy',
             \/ doc'.trun = doc.trun /\ doc'.tsid = doc.tsid
             \/ doc'.trun = Own /\ doc'.tsid = Own /\ rec[Own].st # "none"
      PROVE  AloneInv'
  <2>1. Own' = Own
    BY <1>1, <1>k DEF Own
  <2> QED BY <1>1, <1>2, <1>k, <2>1 DEF AloneInv
<1>b. ASSUME Busy, doc'.id = doc.id, doc'.created = doc.created, doc'.watchdog = doc.watchdog,
             doc'.phase \notin Terminal,
             \/ doc'.trun = doc.trun /\ doc'.tsid = doc.tsid
             \/ doc'.trun = Own /\ doc'.tsid = Own /\ rec[Own].st # "none"
      PROVE  AloneInv' /\ EvidenceIsOwn'
  <2>1. Busy' /\ doc.id # 0
    BY <1>b DEF Busy
  <2> QED BY <1>b, <1>k, <2>1 DEF EvidenceIsOwn
<1>3. CASE Begins
  <2>1. /\ Starting /\ wal.op = "none" /\ doc'.id = doc.id + 1 /\ doc.id < MaxRun /\ doc.id \in Nat
        /\ doc'.phase = "preflight" /\ doc'.created = now /\ doc'.trun = 0 /\ doc'.watchdog # 0
    BY <1>0, <1>3, RunAssumption
    DEF Begins, Preflight, Fresh, NoDoc, Starting, RequestInv, Doc, TypeOK, ServiceType
  <2>2. Own' = 0
    BY <1>0, <1>1, <2>1, RunAssumption DEF Own, RecordInv
  <2>3. \A n \in Nonce : rec[n].st # "none" => rec[n].at < now
    BY <2>1 DEF AloneInv
  <2>4. Busy'
    BY <2>1 DEF Busy, Terminal
  <2> QED BY <1>1, <1>2, <2>1, <2>2, <2>3, <2>4 DEF AloneInv, EvidenceIsOwn
<1>r. Marks \/ Samples \/ Cancels \/ Enters \/ GivesUp \/ Fails \/ Promotes \/ Binds
      \/ Absolves \/ Finishes => Busy
  BY <1>0
  DEF Marks, Restarted, Samples, Cancels, Enters, GivesUp, Fails, Promotes, Binds, Absolves,
      Finishes, Sample, CancelRun, FinalSample, EnterStopping, FailPending, Promote, Drive,
      Finish, RequestInv, OnRun, Starting, Stopping
<1>4. CASE Marks \/ Samples \/ Cancels \/ Enters \/ GivesUp \/ Fails
  <2>1. doc'.phase \notin Terminal
    <3>1. doc.phase \notin Terminal
      BY <1>r, <1>4 DEF Busy
    <3>2. doc'.phase \in {doc.phase, "stopping"}
      BY <1>0, <1>4 DEF Marks, Marked, Samples, Cancels, Enters, GivesUp, Waiting, Fails, Doc
    <3> QED BY <3>1, <3>2 DEF Terminal
  <2>2. /\ doc'.id = doc.id /\ doc'.created = doc.created /\ doc'.watchdog = doc.watchdog
        /\ doc'.trun = doc.trun /\ doc'.tsid = doc.tsid
    BY <1>0, <1>4 DEF Marks, Marked, Samples, Cancels, Enters, GivesUp, Waiting, Fails, Doc
  <2> QED BY <1>b, <1>r, <1>4, <2>1, <2>2
<1>5. CASE Promotes \/ Binds
  <2>1. Validated /\ Busy /\ doc.id # 0 /\ doc.phase \notin Terminal
    BY <1>r, <1>5 DEF Promotes, Binds, Busy
  <2>2. Candidate = Own /\ rec[Own].st # "none" /\ sess.id = Own
    BY <1>0, <2>1, BoundOwn
  <2>3. /\ doc'.id = doc.id /\ doc'.created = doc.created /\ doc'.watchdog = doc.watchdog
        /\ doc'.trun = Candidate /\ doc'.tsid = sess.id /\ doc'.phase \notin Terminal
    <3>1. CASE Promotes
      BY <1>0, <3>1 DEF Promotes, Promoted, Bound, Doc, Terminal
    <3>2. CASE Binds
      BY <1>0, <2>1, <3>2 DEF Binds, Bound, Doc
    <3> QED BY <1>5, <3>1, <3>2
  <2> QED BY <1>b, <2>1, <2>2, <2>3
<1>6. CASE Absolves
  <2>1. Busy /\ doc.id # 0 /\ wal.op = "none" /\ doc.tsid = 0 /\ ~Validated
    BY <1>r, <1>6 DEF Absolves, Busy
  <2>2. doc.trun = 0
    BY <1>0, <2>1 DEF NumbersInv
  <2>3. /\ doc'.id = doc.id /\ doc'.created = doc.created /\ doc'.watchdog = doc.watchdog
        /\ doc'.trun = 0 /\ doc'.tsid = 0 /\ doc'.mode = "not_started"
    BY <1>0, <1>6, <2>1, <2>2 DEF Absolves, Finished, Doc
  <2>4. ~(Own # 0 /\ rec[Own].st # "none")
    BY <1>0, <2>1, <2>2, OwnValidated
  <2>5. Own' = Own
    BY <1>1, <2>3 DEF Own
  <2> QED BY <1>1, <1>k, <2>1, <2>2, <2>3, <2>4, <2>5 DEF EvidenceIsOwn
<1>7. CASE Finishes
  <2> DEFINE r == rec[doc.trun]
             verdict == Verdicted(doc, r.how, r.ended)
  <2>1. /\ r.how \in {"operator_stop", "hard_stop"} /\ doc.trun \in Nonce /\ wal.op = "none"
        /\ doc.id # 0
    BY <1>0, <1>r, <1>7 DEF Finishes, Finish, StepInv, Judging, RequestInv, Ending, Busy
  <2>2. doc' = Finished(doc, verdict, r.how, r.ended)
    BY <1>7 DEF Finishes
  <2> HIDE DEF verdict, r
  <2>3. /\ doc'.id = doc.id /\ doc'.created = doc.created /\ doc'.watchdog = doc.watchdog
        /\ doc'.trun = doc.trun /\ doc'.tsid = doc.tsid /\ doc'.mode = r.how
    BY <1>0, <2>2 DEF Finished, Doc
  <2>4. doc.trun = Own /\ rec[Own].st # "none" /\ Own # 0
    BY <1>0, <2>1 DEF AloneInv
  <2>5. Own' = Own
    BY <1>1, <2>3 DEF Own
  <2> QED BY <1>1, <1>k, <2>1, <2>3, <2>4, <2>5 DEF EvidenceIsOwn
<1> QED BY <1>3, <1>4, <1>5, <1>6, <1>7 DEF Writes

\* Where nobody else starts traffic, a settled run names the traffic it started, or says that it
\* started none, whoever stops it and whatever fails, crashes or answers too late
\* (_bind_recovered_session, _finish_without_start).
THEOREM EvidenceStaysOwn ==
  ASSUME "start" \notin Clients
  PROVE  Spec => []EvidenceIsOwn
<1>1. Init => AloneInv /\ EvidenceIsOwn
  BY RunAssumption, ServiceAssumption
  DEF Init, ServiceInit, NoDoc, Idle, NoWal, NoRec, Starting, Own, AloneInv, EvidenceIsOwn, Nonce
<1>2. /\ EvidenceInv /\ IInv' /\ [Next]_vars /\ AloneInv /\ EvidenceIsOwn
      => AloneInv' /\ EvidenceIsOwn'
  BY AloneTraffic, AloneWrites, DocumentSteps DEF EvidenceInv
<1>3. AloneInv /\ EvidenceIsOwn => EvidenceIsOwn
  OBVIOUS
<1> QED BY <1>1, <1>2, Invariant, EvidenceAlways, PTL DEF Spec

=============================================================================
