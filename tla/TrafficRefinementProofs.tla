------------------------ MODULE TrafficRefinementProofs ------------------------
(***************************************************************************)
(* The traffic runtime keeps the ledger of TrafficLedger, and what follows *)
(* from that: no traffic of the API is unaccounted for, a run that is over *)
(* stays over, and a lease outlives the traffic it bounds.  All for any    *)
(* ports, bounds, requests and faults, with or without other controllers.  *)
(*                                                                         *)
(* The invariant has a part for everything a step relies on when it writes *)
(* that traffic has stopped: the sample a recovery reconciles with, the    *)
(* TRex process its RPCs reach, the outcome of a stop before it is         *)
(* promoted, and the document that was written when the traffic started.   *)
(***************************************************************************)
EXTENDS TrafficRuntimeProofs, FiniteSetTheorems

StartPath   == Hooks \cup {"preflight", "remove", "add", "start"}
Sending     == StartPath \cup {"guard", "acquire", "command", "release"}
Controlling == {"control", "rollback", "streams", "restore", "verify"}

\* What the step of an operation says of its locals and of its intent.
TaskFits ==
  /\ task.pc \in {"idle", "retire"} => task.mode = "direct"
  /\ task.mode = "direct" => task.goal = "none"
  /\ task.pc \in Controlling \cup {"recover", "rollover", "reconcile"} => task.mode = "recovery"
  /\ task.pc \in Sending =>
       /\ task.goal \in {"none", "normalize"}
       /\ task.ports \subseteq intent.ports
       /\ task.mode = "direct" \/ intent.op = "start" => task.ports = intent.ports
  /\ task.pc \in {"recover", "rollover"} => task.goal = "none"
  /\ task.goal = "normalize" => task.ports = intent.ports
  /\ task.pc \in StartPath => intent.op = "start"
  /\ task.pc \in {"guard", "command"} => intent.op # "start"
  /\ task.goal \in {"normalize", "rollback", "verify"} => intent.op = "start"
  /\ intent.n # 0 /\ task.goal \in {"clear", "retain"} => intent.op # "start"
  /\ task.pc \in {"control", "restore"} => task.goal # "none"
  /\ task.pc = "rollback" => task.goal = "rollback"
  /\ task.pc = "streams" => task.goal \in {"rollback", "normalize"}
  /\ task.pc = "verify" => \/ task.goal \in {"rollback", "verify"}
                           \/ task.goal = "none" /\ intent.op \in {"stop", "pause", "resume"}
  /\ task.pc = "promote" /\ task.mode = "recovery" => task.goal \in {"promote", "verify"}
  /\ task.pc = "clear" => intent.op # "start" \/ task.goal = "rollback"

\* The numbers on disk were drawn, and that of the pending intent is not used yet.
GroupsDrawn ==
  /\ session.id <= nonce
  /\ session.id # 0 => session.id # intent.n
  /\ \A n \in session.groups \cup session.completed : n <= nonce /\ n # intent.n
  /\ intent.n # 0 /\ intent.op # "start" => intent.expected # 0
  /\ intent.op = "start" => \A p \in intent.ports : intent.base[p] = "stopped"

AllStopped(r) == \A p \in r.ports : r.st[p] = "stopped"

\* A group is closed exactly when it is recorded as stopped, and then has no lease.
GroupsClosed ==
  /\ \A n \in session.groups : AllStopped(runs[n]) <=> runs[n].done # "none"
  /\ \A n \in Nonce : /\ \A p \in Ports \ runs[n].ports : runs[n].st[p] = "stopped"
                      /\ runs[n].done # "none" => runs[n].lease = "none"

TrafficLive == \A p \in Ports : by[p] # 0 => run[p] # "stopped"

\* The traffic of the API is that of a group that is not recorded as stopped, or of the
\* start that is pending.
TrafficRecorded ==
  \A p \in Ports : by[p] # 0 =>
    \/ by[p] \in session.groups /\ p \in runs[by[p]].ports /\ runs[by[p]].st[p] # "stopped"
    \/ by[p] = intent.n /\ intent.op = "start" /\ p \in intent.ports

\* A recovery may still rely on its sample: it did not replay a start after it.
Fresh ==
  /\ task.mode = "recovery"
  /\ \/ task.pc \in {"recover", "reconcile", "promote", "clear", "rollover"}
     \/ intent.op # "start"
     \/ task.goal \in {"promote", "rollback"}

SampleHolds == Fresh => \A p \in Ports : task.live[p] = "stopped" => by[p] = 0

\* The authority of an operation: that of its sample and of its intent, which are current
\* for as long as the operation is linked to the TRex process.
TaskAuthority ==
  /\ intent.auth <= authority
  /\ task.mode = "recovery" => task.auth <= authority
  /\ task.pc = "recover" => intent.auth <= task.auth
  /\ task.pc = "rollover" => Supervisor = "systemd" /\ intent.auth < authority
  /\ task.mode = "recovery" /\ task.linked => task.auth = authority
  /\ task.pc \in Sending \cup Controlling /\ task.linked => intent.auth = authority

\* ... and the traffic of the API has it too.
TrafficAuthority ==
  Supervisor = "systemd" => \A p \in Ports : by[p] # 0 =>
    /\ by[p] = intent.n => intent.auth = authority
    /\ by[p] \in session.groups => session.auth = authority

\* The stop that is promoted next took effect.
StopDone ==
  \/ task.mode = "direct" /\ (task.pc = "promote" \/ (task.pc = "release" /\ task.ok))
  \/ task.mode = "recovery" /\ task.goal = "promote"

\* What is written down as over transmits no more.
EndsQuiet ==
  /\ task.pc = "retire" => \A p \in Ports : by[p] = 0
  /\ task.pc = "clear" /\ intent.op = "start" => \A p \in Ports : by[p] # intent.n
  /\ intent.op = "stop" /\ StopDone => \A p \in intent.ports : by[p] = 0

LedgerInv ==
  /\ TaskFits /\ GroupsDrawn /\ GroupsClosed /\ TrafficLive /\ TrafficRecorded
  /\ SampleHolds /\ TaskAuthority /\ TrafficAuthority /\ EndsQuiet

\* Everything the proofs start from.
Known == TypeOK /\ OperationPending /\ StartInv

-----------------------------------------------------------------------------
(* The recorded states of ports, groups and sessions *)

\* Of the states of ports or groups, the aggregate is "stopped" when no other state occurs.
LEMMA AggregateStopped ==
  ASSUME NEW states \in SUBSET (PortState \cup {"mixed"})
  PROVE  Aggregate(states) = "stopped" <=> states \subseteq {"stopped"}
<1>0. IsFiniteSet(states)
  <2>1. IsFiniteSet({"stopped", "running", "paused"}) /\ IsFiniteSet({"unknown", "mixed"})
    <3>1. IsFiniteSet({"stopped"}) /\ IsFiniteSet({"unknown"})
      BY FS_Singleton
    <3>2. IsFiniteSet({"stopped"} \cup {"running"}) /\ IsFiniteSet({"unknown"} \cup {"mixed"})
      BY <3>1, FS_AddElement
    <3>3. IsFiniteSet(({"stopped"} \cup {"running"}) \cup {"paused"})
      BY <3>2, FS_AddElement
    <3>4. /\ ({"stopped"} \cup {"running"}) \cup {"paused"} = {"stopped", "running", "paused"}
          /\ {"unknown"} \cup {"mixed"} = {"unknown", "mixed"}
      OBVIOUS
    <3> QED BY <3>2, <3>3, <3>4
  <2>2. PortState \cup {"mixed"} = {"stopped", "running", "paused"} \cup {"unknown", "mixed"}
    BY DEF PortState, LiveState
  <2>3. IsFiniteSet(PortState \cup {"mixed"})
    BY <2>1, <2>2, FS_Union
  <2> QED BY <2>3, FS_Subset
<1>1. CASE states = {}
  BY <1>1 DEF Aggregate
<1>2. CASE states = {"stopped"}
  <2>1. Cardinality(states) = 1
    BY <1>2, FS_Singleton
  <2>2. (CHOOSE s \in states : TRUE) = "stopped"
    BY <1>2
  <2> QED BY <1>2, <2>1, <2>2 DEF Aggregate
<1>3. CASE ~(states \subseteq {"stopped"})
  <2>1. SUFFICES ASSUME Aggregate(states) = "stopped" PROVE FALSE
    BY <1>3
  <2>2. "unknown" \notin states /\ Cardinality(states) = 1 /\ states # {}
        /\ (CHOOSE s \in states : TRUE) = "stopped"
    BY <1>3, <2>1 DEF Aggregate
  <2>3. PICK x : states = {x}
    BY <1>0, <2>2, FS_Singleton
  <2> QED BY <1>3, <2>2, <2>3
<1> QED BY <1>1, <1>2, <1>3

\* A group is stopped when each of its ports is.
LEMMA GroupStopped ==
  ASSUME NEW r, r.st \in [Ports -> PortState], r.ports \in SUBSET Ports
  PROVE  /\ GroupState(r) = "stopped" <=> AllStopped(r)
         /\ GroupState(r) \in PortState \cup {"mixed"}
<1> DEFINE states == {r.st[p] : p \in r.ports}
<1>1. states \in SUBSET PortState
  OBVIOUS
<1>2. GroupState(r) = "stopped" <=> states \subseteq {"stopped"}
  BY <1>1, AggregateStopped DEF GroupState
<1>3. Aggregate(states) \in PortState \cup {"mixed"}
  <2>1. CASE states = {}
    BY <2>1 DEF Aggregate, PortState, LiveState
  <2>2. CASE states # {}
    <3>1. (CHOOSE s \in states : TRUE) \in states
      BY <2>2
    <3> HIDE DEF states
    <3> QED BY <1>1, <2>2, <3>1 DEF Aggregate, PortState
  <2> QED BY <2>1, <2>2
<1>4. states \subseteq {"stopped"} <=> AllStopped(r)
  BY DEF AllStopped
<1> QED BY <1>2, <1>3, <1>4 DEF GroupState

\* A session is stopped when each of its groups is.
LEMMA SessionStopped ==
  ASSUME NEW s \in Session, NEW rs \in [Nonce -> Run]
  PROVE  SessionState(s, rs) = "stopped" <=> \A n \in s.groups : AllStopped(rs[n])
<1> DEFINE states == {GroupState(rs[n]) : n \in s.groups}
<1>1. ASSUME NEW n \in s.groups
      PROVE  /\ GroupState(rs[n]) = "stopped" <=> AllStopped(rs[n])
             /\ GroupState(rs[n]) \in PortState \cup {"mixed"}
  <2>1. rs[n] \in Run
    BY DEF Session
  <2>2. rs[n].st \in [Ports -> PortState] /\ rs[n].ports \in SUBSET Ports
    BY <2>1 DEF Run
  <2> QED BY <2>2, GroupStopped
<1>2. states \in SUBSET (PortState \cup {"mixed"})
  BY <1>1
<1>3. SessionState(s, rs) = "stopped" <=> states \subseteq {"stopped"}
  BY <1>2, AggregateStopped DEF SessionState
<1> QED BY <1>1, <1>3

-----------------------------------------------------------------------------
(* The locals, the intent and the documents, step by step *)

\* u and t differ in the step, the outcome so far and the ports taken at most.
SameLocals(u, t) ==
  /\ u.mode = t.mode /\ u.goal = t.goal /\ u.ports = t.ports
  /\ u.linked = t.linked /\ u.live = t.live /\ u.auth = t.auth

\* The intent as it was, but for its phase, its stage, its streams and its lease.
SameIntent ==
  /\ intent'.n = intent.n /\ intent'.op = intent.op /\ intent'.ports = intent.ports
  /\ intent'.auth = intent.auth /\ intent'.base = intent.base
  /\ intent'.expected = intent.expected /\ intent'.acquired = intent.acquired

\* What the updates of the intent leave as it is.
LEMMA IntentFields ==
  ASSUME TypeOK,
         \/ intent' = intent
         \/ \E phase : intent' = [intent EXCEPT !.phase = phase]
         \/ \E lease : intent' = [intent EXCEPT !.lease = lease]
         \/ \E stage : intent' = Advanced(intent, stage)
  PROVE  SameIntent
<1>0. intent \in Intent
  BY DEF TypeOK, DiskType
<1>1. CASE intent' = intent
  BY <1>1 DEF SameIntent
<1>2. CASE \E phase : intent' = [intent EXCEPT !.phase = phase]
  BY <1>0, <1>2 DEF SameIntent, Intent
<1>3. CASE \E lease : intent' = [intent EXCEPT !.lease = lease]
  BY <1>0, <1>3 DEF SameIntent, Intent
<1>4. CASE \E stage : intent' = Advanced(intent, stage)
  BY <1>0, <1>4 DEF SameIntent, Intent, Advanced
<1> QED BY <1>1, <1>2, <1>3, <1>4

SameDocuments == session' = session /\ runs' = runs

\* The write-ahead stages.
LEMMA StageTask ==
  ASSUME TypeOK, GuardPasses \/ GuardExpires \/ AdvanceStage \/ StageFails
  PROVE  /\ SameIntent /\ SameLocals(task', task) /\ SameDocuments
         /\ UNCHANGED <<server, authority, nonce, starts>>
         /\ \/ task.pc = "guard" /\ task'.pc \in {"acquire", "clear"}
            \/ task.pc \in Hooks /\ task'.pc = AfterHook
            \/ /\ task.pc \in Hooks /\ task'.pc \in {"release", "retain", "unresolved"}
               /\ task'.pc = "release" => ~task'.ok
<1>0. task \in Task
  BY DEF TypeOK, MemoryType
<1> USE DEF disk, history, SameDocuments
<1>1. ASSUME NEW pc, Goto(pc)
      PROVE  SameLocals(task', task) /\ task'.pc = pc
  BY <1>0, <1>1, TaskFields DEF Goto, Task, SameLocals
<1>2. CASE GuardPasses
  BY <1>1, <1>2, IntentFields DEF GuardPasses
<1>3. CASE GuardExpires
  BY <1>1, <1>3, IntentFields DEF GuardExpires
<1>4. CASE AdvanceStage
  BY <1>1, <1>4, IntentFields DEF AdvanceStage
<1>5. CASE StageFails
  <2>1. SameIntent
    BY <1>5, IntentFields DEF StageFails
  <2>2. /\ SameLocals(task', task)
        /\ task'.pc \in {"release", "retain", "unresolved"}
        /\ task'.pc = "release" => ~task'.ok
    <3>1. \/ task' = [task EXCEPT !.pc = Failed]
          \/ task' = [task EXCEPT !.pc = "release", !.ok = FALSE]
      BY <1>5 DEF StageFails
    <3>2. CASE task' = [task EXCEPT !.pc = Failed]
      <4>1. SameLocals(task', task) /\ task'.pc = Failed
        BY <1>0, <3>2 DEF Task, SameLocals
      <4> QED BY <4>1, AfterSteps
    <3>3. CASE task' = [task EXCEPT !.pc = "release", !.ok = FALSE]
      <4>1. SameLocals(task', task) /\ task'.pc = "release" /\ ~task'.ok
        BY <1>0, <3>3 DEF Task, SameLocals
      <4> QED BY <4>1
    <3> QED BY <3>1, <3>2, <3>3
  <2> QED BY <1>5, <2>1, <2>2 DEF StageFails
<1> QED BY <1>2, <1>3, <1>4, <1>5

\* The RPCs of a mutation up to its release.
LEMMA RpcTask ==
  ASSUME TypeOK, Acquire \/ Preflight \/ RemoveStreams \/ AddProfile \/ StartTraffic \/ Command
  PROVE  /\ intent' = intent /\ SameLocals(task', task) /\ SameDocuments
         /\ UNCHANGED <<authority, nonce>>
         /\ \/ task.pc = "acquire" /\ task'.pc = (IF intent.op = "start" THEN "acquired"
                                                  ELSE "command")
            \/ task.pc = "acquire" /\ task'.pc \in {"retain", "unresolved"}
            \/ /\ task.pc = "preflight"
               /\ task'.pc \in {"streams_remove_intent", "profile_add_intent", "release"}
            \/ task.pc = "remove" /\ task'.pc \in {"streams_removed", "release"}
            \/ task.pc = "add" /\ task'.pc \in {"profile_added", "release"}
            \/ task.pc = "start" /\ task'.pc \in {"start_returned", "release"}
            \/ task.pc = "command" /\ task'.pc = "release"
<1>0. task \in Task
  BY DEF TypeOK, MemoryType
<1> USE DEF disk, history, SameDocuments
<1>1. ASSUME NEW pc, NEW ok, Under(ok, pc)
      PROVE  SameLocals(task', task) /\ task'.pc \in {pc, "release"}
  BY <1>0, <1>1, TaskFields DEF Under, Task, SameLocals
<1>2. CASE Acquire
  <2> DEFINE missing == {p \in task.ports : own[p] # "api"}
             pc == IF intent.op = "start" THEN "acquired" ELSE "command"
  <2>1. PICK o \in Outcomes(missing) :
          task' = IF o.ok THEN [task EXCEPT !.pc = pc, !.took = missing]
                  ELSE [task EXCEPT !.pc = Failed]
    BY <1>2 DEF Acquire
  <2> HIDE DEF missing, pc
  <2>2. SameLocals(task', task) /\ task'.pc \in {pc, Failed}
    BY <1>0, <2>1, TaskFields DEF Task, SameLocals
  <2> QED BY <1>2, <2>2, AfterSteps DEF Acquire, pc
<1>3. CASE Preflight
  <2> DEFINE pc == IF intent.clear THEN "streams_remove_intent" ELSE "profile_add_intent"
  <2>1. PICK ok : Under(ok, pc)
    BY <1>3 DEF Preflight
  <2>2. SameLocals(task', task) /\ task'.pc \in {pc, "release"}
    BY <1>1, <2>1
  <2> QED BY <1>3, <2>2 DEF Preflight
<1>4. CASE RemoveStreams
  <2>1. PICK o : Under(o.ok, "streams_removed")
    BY <1>4 DEF RemoveStreams
  <2> QED BY <1>1, <1>4, <2>1 DEF RemoveStreams
<1>5. CASE AddProfile
  <2>1. PICK o : Under(o.ok, "profile_added")
    BY <1>5 DEF AddProfile
  <2> QED BY <1>1, <1>5, <2>1 DEF AddProfile
<1>6. CASE StartTraffic
  <2>1. PICK o : Under(o.ok, "start_returned")
    BY <1>6 DEF StartTraffic
  <2> QED BY <1>1, <1>6, <2>1 DEF StartTraffic
<1>7. CASE Command
  <2>1. PICK ok : task' = [task EXCEPT !.pc = "release", !.ok = ok]
    BY <1>7 DEF Command
  <2>2. SameLocals(task', task) /\ task'.pc = "release"
    BY <1>0, <2>1, TaskFields DEF Task, SameLocals
  <2> QED BY <1>7, <2>2 DEF Command
<1> QED BY <1>2, <1>3, <1>4, <1>5, <1>6, <1>7

\* The release of the ports, where a mutation leaves the path of its RPCs.
LEMMA ReleaseTask ==
  ASSUME TypeOK, Release
  PROVE  /\ intent' = intent /\ SameDocuments /\ UNCHANGED <<run, by, prog, authority, nonce>>
         /\ task.pc = "release"
         /\ task'.mode = task.mode /\ task'.ports = task.ports /\ task'.linked = task.linked
         /\ task'.live = task.live /\ task'.auth = task.auth
         /\ \/ task'.pc \in {"retain", "unresolved"} /\ task'.goal = task.goal
            \/ /\ task.ok /\ task.mode = "direct"
               /\ task'.pc = "promote" /\ task'.goal = task.goal
            \/ /\ task.mode # "direct" /\ intent.op = "start"
               /\ task'.pc = "control" /\ task'.goal = "verify"
            \/ /\ task.mode # "direct" /\ intent.op = "update"
               /\ task'.pc = "control" /\ task'.goal = "promote"
            \/ /\ task.mode # "direct" /\ intent.op \notin {"start", "update"}
               /\ task'.pc = "verify" /\ task'.goal = "none"
<1>0. task \in Task
  BY DEF TypeOK, MemoryType
<1> USE DEF disk, history, SameDocuments, Release
<1>1. CASE task' = [task EXCEPT !.pc = Failed]
  BY <1>0, <1>1, AfterSteps DEF Task
<1>2. CASE task' = AfterOperation /\ task.ok
  <2>1. CASE task.mode = "direct"
    BY <1>0, <1>2, <2>1 DEF Task, AfterOperation
  <2>2. CASE task.mode # "direct" /\ intent.op = "start"
    BY <1>0, <1>2, <2>2 DEF Task, AfterOperation
  <2>3. CASE task.mode # "direct" /\ intent.op = "update"
    BY <1>0, <1>2, <2>3 DEF Task, AfterOperation
  <2>4. CASE task.mode # "direct" /\ intent.op \notin {"start", "update"}
    BY <1>0, <1>2, <2>4 DEF Task, AfterOperation
  <2> QED BY <2>1, <2>2, <2>3, <2>4
<1> QED BY <1>1, <1>2

\* The RPCs under control of the ports.
LEMMA ControlTask ==
  ASSUME TypeOK, Control \/ RollbackTraffic \/ RestoreStreams \/ RestoreAcquisition
  PROVE  /\ intent' = intent /\ SameLocals(task', task) /\ SameDocuments
         /\ UNCHANGED <<authority, nonce, starts>>
         /\ \/ task.pc \in {"control", "restore"} /\ task'.pc \in {"retain", "unresolved"}
            \/ /\ task.pc = "control"
               /\ task'.pc = CASE task.goal = "rollback"  -> "rollback"
                               [] task.goal = "normalize" -> "streams"
                               [] OTHER                   -> "restore"
            \/ task.pc = "rollback" /\ task'.pc \in {"streams", "restore"}
            \/ task.pc = "streams" /\ task'.pc = "restore"
            \/ task.pc = "restore" /\ task'.pc = AfterControl
<1>0. task \in Task
  BY DEF TypeOK, MemoryType
<1> USE DEF disk, history, SameDocuments
<1>1. ASSUME NEW ok, ThenRestore(ok)
      PROVE  SameLocals(task', task) /\ task'.pc = "restore"
  BY <1>0, <1>1, TaskFields DEF ThenRestore, Task, SameLocals
<1>2. ASSUME NEW pc, Goto(pc)
      PROVE  SameLocals(task', task) /\ task'.pc = pc
  BY <1>0, <1>2, TaskFields DEF Goto, Task, SameLocals
<1>3. CASE Control
  <2> DEFINE pc == CASE task.goal = "rollback"  -> "rollback"
                     [] task.goal = "normalize" -> "streams"
                     [] OTHER                   -> "restore"
  <2>1. PICK ok : task' = IF ~ok THEN [task EXCEPT !.pc = Failed]
                          ELSE [task EXCEPT !.ok = TRUE, !.pc = pc]
    BY <1>3 DEF Control
  <2> HIDE DEF pc
  <2>2. SameLocals(task', task) /\ task'.pc \in {pc, Failed}
    BY <1>0, <2>1, TaskFields DEF Task, SameLocals
  <2> QED BY <1>3, <2>2, AfterSteps DEF Control, pc
<1>4. CASE RollbackTraffic
  <2>1. Goto("streams") \/ ThenRestore(FALSE)
    BY <1>4 DEF RollbackTraffic
  <2> QED BY <1>1, <1>2, <1>4, <2>1 DEF RollbackTraffic
<1>5. CASE RestoreStreams
  <2>1. PICK ok : ThenRestore(ok)
    BY <1>5 DEF RestoreStreams
  <2> QED BY <1>1, <1>5, <2>1 DEF RestoreStreams
<1>6. CASE RestoreAcquisition
  <2>1. PICK pc \in {AfterControl, Failed} : Goto(pc)
    BY <1>6 DEF RestoreAcquisition
  <2>2. SameLocals(task', task) /\ task'.pc = pc
    BY <1>2, <2>1
  <2> QED BY <1>6, <2>2, AfterSteps DEF RestoreAcquisition
<1> QED BY <1>3, <1>4, <1>5, <1>6

\* The fresh sample, which the rest of the recovery relies on.
LEMMA VerifyTask ==
  ASSUME TypeOK, Verify
  PROVE  /\ intent' = intent /\ SameDocuments /\ UNCHANGED <<server, authority, nonce, starts>>
         /\ task.pc = "verify"
         /\ task'.mode = task.mode /\ task'.linked = task.linked /\ task'.auth = task.auth
         /\ \/ task'.pc = "unresolved" /\ task'.goal = task.goal /\ task'.live = task.live
            \/ /\ task'.live = run
               /\ \A p \in Ports :
                    run[p] = IF task.goal # "rollback" /\ p \in intent.ports
                             THEN Desired(intent, p) ELSE intent.base[p]
               /\ task'.pc = CASE task.goal = "rollback" -> "clear"
                               [] task.goal = "verify"   -> "promote"
                               [] OTHER                  -> "control"
               /\ task'.goal = IF task.goal = "none" THEN "promote" ELSE task.goal
<1>0. task \in Task
  BY DEF TypeOK, MemoryType
<1> USE DEF disk, history, SameDocuments
<1>1. CASE Goto("unresolved")
  BY <1>0, <1>1 DEF Goto, Task, Verify
<1>2. CASE ~Goto("unresolved")
  <2> DEFINE pc == CASE task.goal = "rollback" -> "clear"
                     [] task.goal = "verify"   -> "promote"
                     [] OTHER                  -> "control"
             goal == IF task.goal = "none" THEN "promote" ELSE task.goal
  <2>1. task' = [task EXCEPT !.live = run, !.pc = pc, !.goal = goal]
    BY <1>0, <1>2 DEF Verify, Task
  <2>2. \A p \in Ports :
          run[p] = IF task.goal # "rollback" /\ p \in intent.ports
                   THEN Desired(intent, p) ELSE intent.base[p]
    BY <1>2 DEF Verify
  <2>3. intent' = intent /\ SameDocuments /\ UNCHANGED <<server, authority, nonce, starts>>
        /\ task.pc = "verify"
    BY DEF Verify
  <2> HIDE DEF pc, goal
  <2>4. /\ task'.mode = task.mode /\ task'.linked = task.linked /\ task'.auth = task.auth
        /\ task'.live = run /\ task'.pc = pc /\ task'.goal = goal
    BY <1>0, <2>1 DEF Task
  <2> QED BY <2>2, <2>3, <2>4 DEF pc, goal
<1> QED BY <1>1, <1>2

\* A snapshot samples the ports and the authority.
LEMMA SnapshotTask ==
  ASSUME Snapshot
  PROVE  /\ intent' = intent /\ SameDocuments /\ UNCHANGED <<server, authority, nonce, starts>>
         /\ task.pc = "idle"
         /\ task'.mode = "recovery" /\ task'.goal = "none" /\ task'.linked
         /\ task'.live = run /\ task'.auth = authority
         /\ task'.pc = IF intent.n = 0 THEN "reconcile" ELSE "recover"
  BY DEF Snapshot, Idle, disk, history, SameDocuments

\* The decision of a recovery: it gives up, or goes on under the authority it sampled.
LEMMA RecoverTask ==
  ASSUME TypeOK,
         \/ RecoverForeign \/ RecoverYields \/ RecoverUnsafe
         \/ RollBackStart \/ AdoptStart \/ ReplayStart \/ AbandonStart
         \/ RecoverUpdate \/ AdoptAction \/ ClearAction \/ RetryAction
  PROVE  /\ intent' = intent /\ SameDocuments /\ UNCHANGED <<server, authority, nonce, starts>>
         /\ task.pc = "recover"
         /\ \/ task' = Idle
            \/ /\ SameLocals(task', task) /\ task'.pc = "rollover"
               /\ Supervisor = "systemd" /\ intent.auth # task.auth
            \/ SameLocals(task', task) /\ task'.pc = "unresolved"
            \/ /\ intent.auth = task.auth
               /\ task'.mode = task.mode /\ task'.linked = task.linked
               /\ task'.live = task.live /\ task'.auth = task.auth
               /\ \/ /\ task'.pc = "control" /\ task'.goal = "rollback" /\ intent.op = "start"
                  \/ /\ task'.pc = "control" /\ task'.goal = "promote" /\ AtGoal
                     /\ intent.op \in {"start", "stop", "pause", "resume"}
                  \/ /\ task'.pc = "control" /\ task'.goal \in {"clear", "retain"}
                     /\ intent.op # "start"
                  \/ /\ task'.pc = "control" /\ task'.goal = "normalize"
                     /\ intent.op = "start" /\ task'.ports = intent.ports
                  \/ /\ task'.pc = "acquire_intent" /\ task'.goal = task.goal
                     /\ intent.op = "start" /\ task'.ports = intent.ports
                  \/ /\ task'.pc = "acquire" /\ task'.goal = task.goal
                     /\ intent.op # "start" /\ task'.ports \subseteq intent.ports
<1>0. task \in Task
  BY DEF TypeOK, MemoryType
<1> USE DEF disk, history, SameDocuments
<1>1. ASSUME NEW pc, Goto(pc)
      PROVE  SameLocals(task', task) /\ task'.pc = pc
  BY <1>0, <1>1, TaskFields DEF Goto, Task, SameLocals
<1>2. ASSUME NEW goal, Controlled(goal)
      PROVE  /\ task'.mode = task.mode /\ task'.linked = task.linked
             /\ task'.live = task.live /\ task'.auth = task.auth
             /\ task'.pc = "control" /\ task'.goal = goal
  BY <1>0, <1>2 DEF Controlled, Task
<1>3. ASSUME NEW op, Recovering(op)
      PROVE  /\ intent' = intent /\ SameDocuments
             /\ UNCHANGED <<server, authority, nonce, starts>>
             /\ task.pc = "recover" /\ intent.auth = task.auth /\ intent.op \in op
  BY <1>3 DEF Recovering, Recoverable
<1>4. CASE RecoverForeign
  <2>1. CASE Supervisor = "systemd"
    BY <1>1, <1>4, <2>1 DEF RecoverForeign
  <2>2. CASE Supervisor # "systemd"
    BY <1>1, <1>4, <2>2 DEF RecoverForeign
  <2> QED BY <2>1, <2>2
<1>5. CASE RecoverYields
  BY <1>5 DEF RecoverYields
<1>6. CASE RecoverUnsafe
  BY <1>1, <1>6 DEF RecoverUnsafe
<1>7. CASE RollBackStart
  BY <1>2, <1>3, <1>7 DEF RollBackStart
<1>8. CASE AdoptStart
  BY <1>1, <1>2, <1>3, <1>8 DEF AdoptStart
<1>9. CASE AbandonStart
  BY <1>1, <1>3, <1>9 DEF AbandonStart
<1>10. CASE ReplayStart
  <2> DEFINE replay == [task EXCEPT !.ports = intent.ports]
  <2>1. \/ task' = [replay EXCEPT !.pc = "acquire_intent"]
        \/ task' = [replay EXCEPT !.pc = "control", !.goal = "normalize"]
    BY <1>10 DEF ReplayStart
  <2>2. CASE task' = [replay EXCEPT !.pc = "acquire_intent"]
    <3>1. /\ task'.mode = task.mode /\ task'.linked = task.linked
          /\ task'.live = task.live /\ task'.auth = task.auth /\ task'.goal = task.goal
          /\ task'.ports = intent.ports /\ task'.pc = "acquire_intent"
      BY <1>0, <2>2 DEF Task
    <3> QED BY <1>3, <1>10, <3>1 DEF ReplayStart
  <2>3. CASE task' = [replay EXCEPT !.pc = "control", !.goal = "normalize"]
    <3>1. /\ task'.mode = task.mode /\ task'.linked = task.linked
          /\ task'.live = task.live /\ task'.auth = task.auth
          /\ task'.ports = intent.ports /\ task'.pc = "control" /\ task'.goal = "normalize"
      BY <1>0, <2>3 DEF Task
    <3> QED BY <1>3, <1>10, <3>1 DEF ReplayStart
  <2> QED BY <2>1, <2>2, <2>3
<1>11. ASSUME NEW T, T \subseteq intent.ports, intent.op # "start", Recovering({intent.op}),
              task' = [task EXCEPT !.pc = "acquire", !.ports = T]
       PROVE  /\ task'.mode = task.mode /\ task'.linked = task.linked
              /\ task'.live = task.live /\ task'.auth = task.auth /\ task'.goal = task.goal
              /\ task'.ports = T /\ task'.pc = "acquire"
  BY <1>0, <1>11 DEF Task
<1>12. CASE RecoverUpdate
  <2>1. Recovering({"update"}) /\ intent.op = "update"
    BY <1>12 DEF RecoverUpdate, Recovering
  <2>2. \/ Goto("unresolved") \/ Controlled("retain")
        \/ task' = [task EXCEPT !.pc = "acquire", !.ports = intent.ports]
    BY <1>12 DEF RecoverUpdate
  <2> QED BY <1>1, <1>2, <1>3, <1>11, <2>1, <2>2
<1>13. CASE AdoptAction
  BY <1>2, <1>3, <1>13 DEF AdoptAction
<1>14. CASE ClearAction
  BY <1>2, <1>3, <1>14 DEF ClearAction
<1>15. CASE RetryAction
  <2> DEFINE rest == {p \in intent.ports : task.live[p] # Desired(intent, p)}
  <2>1. /\ Recovering({"stop", "pause", "resume"}) /\ intent.op \in {"stop", "pause", "resume"}
        /\ Recovering({intent.op}) /\ rest \subseteq intent.ports
    BY <1>15 DEF RetryAction, Recovering
  <2>2. \/ Goto("unresolved") \/ Controlled("retain")
        \/ task' = [task EXCEPT !.pc = "acquire", !.ports = rest]
    BY <1>15 DEF RetryAction
  <2> HIDE DEF rest
  <2>3. CASE Goto("unresolved")
    BY <1>1, <1>3, <2>1, <2>3
  <2>4. CASE Controlled("retain")
    BY <1>2, <1>3, <2>1, <2>4
  <2>5. CASE task' = [task EXCEPT !.pc = "acquire", !.ports = rest]
    BY <1>3, <1>11, <2>1, <2>5
  <2> QED BY <2>2, <2>3, <2>4, <2>5
<1> QED BY <1>4, <1>5, <1>6, <1>7, <1>8, <1>9, <1>10, <1>12, <1>13, <1>14, <1>15

\* The ends of an operation that write nothing but the phase of the intent.
LEMMA GivenUpTask ==
  ASSUME TypeOK, PromotionRefused \/ Retain
  PROVE  /\ SameIntent /\ SameDocuments /\ UNCHANGED <<server, authority, nonce, starts>>
         /\ \/ task' = Idle
            \/ SameLocals(task', task) /\ task'.pc = "retain" /\ task.mode = "direct"
<1>0. task \in Task
  BY DEF TypeOK, MemoryType
<1> USE DEF disk, history, SameDocuments
<1>1. CASE PromotionRefused
  BY <1>0, <1>1, IntentFields DEF PromotionRefused, Unwritten, Task, SameLocals
<1>2. CASE Retain
  <2>1. SameIntent
    BY <1>2, IntentFields DEF Retain
  <2> QED BY <1>2, <2>1 DEF Retain
<1> QED BY <1>1, <1>2

\* The steps that write the document: it is written, or it is as it was.
LEMMA WriteTask ==
  ASSUME TypeOK,
         Promote \/ Clear \/ RetireAfterRollover \/ RetireAfterTermination \/ Reconcile
  PROVE  /\ UNCHANGED <<server, authority, nonce, starts>>
         /\ (SameDocuments /\ intent' = intent) \/ intent' = NoIntent \/ Reconcile
         /\ \/ task' = Idle
            \/ /\ SameLocals(task', task) /\ task'.pc = "reconcile" /\ intent' = NoIntent
               /\ task.pc \in {"promote", "clear", "rollover"}
               /\ task.pc \in {"promote", "clear"} => task.mode # "direct"
            \/ /\ SameLocals(task', task) /\ task'.pc = "retain" /\ task.mode = "direct"
               /\ task.pc = "promote"
<1>0. task \in Task
  BY DEF TypeOK, MemoryType
<1> USE DEF disk, history, SameDocuments
<1>1. ASSUME NEW pc, task' = [task EXCEPT !.pc = pc]
      PROVE  SameLocals(task', task) /\ task'.pc = pc
  BY <1>0, <1>1 DEF Task, SameLocals
<1>2. ASSUME NEW saved, NEW s, NEW rs, NEW i, Persist(saved, s, rs, i)
      PROVE  /\ (SameDocuments /\ intent' = intent) \/ intent' = i
             /\ saved = "yes" => intent' = i
  BY <1>2 DEF Persist
<1>3. ASSUME NEW saved, \/ task' = Idle
                        \/ saved = "yes" /\ task' = Written
                        \/ saved # "yes" /\ task' = Unwritten
      PROVE  \/ task' = Idle
             \/ /\ SameLocals(task', task) /\ task'.pc = "reconcile" /\ saved = "yes"
                /\ task.mode # "direct"
             \/ SameLocals(task', task) /\ task'.pc = "retain" /\ task.mode = "direct"
  BY <1>1, <1>3 DEF Written, Unwritten
<1>4. CASE Promote
  <2>1. CASE task' = Idle /\ UNCHANGED <<disk, owned>>
    BY <1>4, <2>1 DEF Promote
  <2>2. CASE ~(task' = Idle /\ UNCHANGED <<disk, owned>>)
    <3>1. PICK saved \in Saved :
            /\ Persist(saved, PromotedSession(intent), PromotedRuns(intent), NoIntent)
            /\ task' = IF saved = "yes" THEN Written ELSE Unwritten
      BY <1>4, <2>2 DEF Promote
    <3>2. /\ UNCHANGED <<server, authority, nonce, starts>> /\ task.pc = "promote"
      BY <1>4 DEF Promote
    <3> QED BY <1>2, <1>3, <3>1, <3>2
  <2> QED BY <2>1, <2>2
<1>5. CASE Clear
  <2>1. PICK saved \in Saved :
          /\ Persist(saved, session, runs, NoIntent)
          /\ task' = IF saved = "yes" THEN Written ELSE Idle
    BY <1>5 DEF Clear
  <2>2. UNCHANGED <<server, authority, nonce, starts>> /\ task.pc = "clear"
    BY <1>5 DEF Clear
  <2>3. task' = Idle \/ (SameLocals(task', task) /\ task'.pc = "reconcile" /\ saved = "yes"
                         /\ task.mode # "direct")
    BY <1>1, <2>1 DEF Written
  <2> QED BY <1>2, <2>1, <2>2, <2>3
<1>6. CASE RetireAfterRollover
  <2>1. PICK saved \in Saved :
          /\ Persist(saved, session,
                     IF session.auth = intent.auth THEN Closed(session, runs) ELSE runs,
                     NoIntent)
          /\ task' = IF saved = "yes" THEN [task EXCEPT !.pc = "reconcile"] ELSE Idle
    BY <1>6 DEF RetireAfterRollover
  <2>2. UNCHANGED <<server, authority, nonce, starts>> /\ task.pc = "rollover"
    BY <1>6 DEF RetireAfterRollover
  <2> QED BY <1>1, <1>2, <2>1, <2>2
<1>7. CASE RetireAfterTermination
  <2>1. PICK saved \in Saved : Persist(saved, session, Closed(session, runs), NoIntent)
    BY <1>7 DEF RetireAfterTermination
  <2> QED BY <1>2, <1>7, <2>1 DEF RetireAfterTermination
<1>8. CASE Reconcile
  BY <1>8 DEF Reconcile
<1> QED BY <1>4, <1>5, <1>6, <1>7, <1>8

\* A reconciliation keeps the intent, as it keeps the session but for its groups.
LEMMA ReconcileTask ==
  ASSUME TypeOK, Reconcile
  PROVE  /\ intent' = intent /\ session' = session /\ task.pc = "reconcile"
         /\ \/ runs' = runs
            \/ \E vouches \in BOOLEAN :
                 runs' = [n \in Nonce |-> IF n \in session.groups
                                          THEN ReconciledRun(runs[n], vouches) ELSE runs[n]]
<1> USE DEF disk
<1> DEFINE adopted == IF Adoptable THEN session.id ELSE owned
           owner == IF session.auth = task.auth THEN adopted ELSE 0
           vouches == session.auth = task.auth /\ owner = session.id
           rs == [n \in Nonce |-> IF n \in session.groups THEN ReconciledRun(runs[n], vouches)
                                  ELSE runs[n]]
<1>1. CASE session.id = 0
  BY <1>1 DEF Reconcile
<1>2. CASE session.id # 0
  <2>1. PICK saved \in Saved : Persist(saved, session, rs, intent)
    BY <1>2 DEF Reconcile
  <2>2. vouches \in BOOLEAN /\ task.pc = "reconcile"
    BY DEF Reconcile
  <2>3. intent' = intent /\ session' = session /\ (runs' = runs \/ runs' = rs)
    <3> HIDE DEF rs
    <3> QED BY <2>1 DEF Persist
  <2> QED BY <2>2, <2>3
<1> QED BY <1>1, <1>2

\* What happens around the API: the process or TRex is gone, or the operation goes on.
LEMMA EnvironmentTask ==
  ASSUME TypeOK, StopTrex \/ Environment
  PROVE  /\ SameIntent /\ session' = session /\ UNCHANGED <<nonce, starts>>
         /\ runs' = runs \/ \E n \in session.groups : /\ runs[n].lease \in {"armed", "near"}
                                   /\ runs' = [runs EXCEPT ![n].lease = Later(@)]
         /\ \/ /\ task' = Idle /\ by' = by /\ run' = run
               /\ authority' = authority \/ (Supervisor = "external" /\ authority' = authority + 1)
            \/ /\ SameLocals(task', task) /\ task.pc = "idle" /\ task'.pc = "retire"
               /\ authority' = authority /\ by' = [p \in Ports |-> 0]
            \/ /\ authority' \in {authority, authority + 1} /\ by' = [p \in Ports |-> 0]
               /\ task' = task /\ task.pc = "idle"
            \/ /\ authority' \in {authority, authority + 1} /\ by' = [p \in Ports |-> 0]
               /\ task' = [task EXCEPT !.linked = FALSE] /\ task.pc # "idle"
            \/ task' = task /\ authority' = authority
<1>0. task \in Task /\ authority \in Nat
  BY DEF TypeOK, MemoryType, ServerType
<1> USE DEF disk, history, memory
<1>1. CASE StopTrex
  <2>1. SameLocals(task', task) /\ task'.pc = "retire"
    BY <1>0, <1>1 DEF StopTrex, Goto, Task, SameLocals
  <2> QED BY <1>1, <2>1, IntentFields DEF StopTrex, HardwareReset
<1>2. CASE Crash
  BY <1>2, IntentFields DEF Crash
<1>3. CASE TrexExit
  <2>1. authority' \in {authority, authority + 1}
    BY <1>3 DEF TrexExit
  <2> QED BY <1>3, <2>1, IntentFields DEF TrexExit, HardwareReset
<1>4. ASSUME NEW p \in Ports,
             \/ TrafficEnds(p) \/ HandlerExpires(p) \/ ExternalTraffic(p)
             \/ ExternalRelease(p) \/ OperatorAcquires(p) \/ OperatorReleases(p)
      PROVE  /\ intent' = intent /\ session' = session /\ UNCHANGED <<nonce, starts>>
             /\ runs' = runs /\ task' = task /\ authority' = authority
  BY <1>4 DEF TrafficEnds, HandlerExpires, ExternalTraffic, ExternalRelease, OperatorAcquires,
              OperatorReleases
<1>5. ASSUME NEW n \in Nonce, LeaseTick(n)
      PROVE  /\ SameIntent /\ session' = session /\ UNCHANGED <<nonce, starts>>
             /\ task' = task /\ authority' = authority
             /\ runs' = runs \/ /\ n \in session.groups /\ runs[n].lease \in {"armed", "near"}
                                /\ runs' = [runs EXCEPT ![n].lease = Later(@)]
  <2>1. \/ intent' = intent
        \/ intent' = [intent EXCEPT !.lease = Later(intent.lease)]
    BY <1>5 DEF LeaseTick
  <2>2. SameIntent
    BY <2>1, IntentFields
  <2> QED BY <1>5, <2>2 DEF LeaseTick
<1> QED BY <1>1, <1>2, <1>3, <1>4, <1>5, IntentFields DEF Environment

\* A new mutation, of the next number and under the authority that is current.
LEMMA BeginTask ==
  ASSUME TypeOK, Begin
  PROVE  /\ SameDocuments /\ UNCHANGED <<server, authority, starts>>
         /\ task.pc = "idle" /\ intent.n = 0
         /\ nonce \in Nat /\ nonce + 1 \in Nonce /\ nonce' = nonce + 1
         /\ intent'.n = nonce + 1 /\ intent'.auth = authority /\ intent'.base = run
         /\ intent'.op = "start" =>
              /\ \A p \in intent'.ports : run[p] = "stopped"
              /\ \A n \in session.groups :
                   runs[n].ports \cap intent'.ports # {} => GroupState(runs[n]) = "stopped"
         /\ intent'.op # "start" => intent'.expected # 0
         /\ intent'.ports # {}
         /\ \/ task' = Idle
            \/ /\ task' = [Idle EXCEPT !.pc = IF intent'.op = "start" THEN "acquire_intent"
                                              ELSE "guard",
                                       !.ports = intent'.ports]
<1> USE DEF disk, history, SameDocuments
<1>0. task.pc = "idle" /\ intent.n = 0 /\ nonce \in Nat /\ nonce + 1 \in Nonce
  <2>1. Ready
    BY DEF Begin, PrepareStart, PrepareMutation
  <2> QED BY <2>1, BoundsAssumption DEF Ready, TypeOK, HistoryType, Nonce0, Nonce
<1>1. ASSUME NEW i, NEW pc, Prepare(i, pc)
      PROVE  /\ SameDocuments /\ UNCHANGED <<server, authority, starts>>
             /\ nonce' = nonce + 1 /\ intent' = i
             /\ \/ task' = Idle
                \/ task' = [Idle EXCEPT !.pc = pc, !.ports = i.ports]
  BY <1>1 DEF Prepare, Persist, Saved
<1>2. ASSUME NEW T \in Targets, NEW e, NEW c, NEW l, PrepareStart(T, e, c, l)
      PROVE  \E i : /\ Prepare(i, "acquire_intent")
                    /\ i.n = nonce + 1 /\ i.auth = authority /\ i.base = run
                    /\ i.op = "start" /\ i.ports = T
                    /\ \A p \in T : run[p] = "stopped"
                    /\ \A n \in session.groups :
                         runs[n].ports \cap T # {} => GroupState(runs[n]) = "stopped"
  <2> DEFINE i == [NewIntent("start", T) EXCEPT !.expected = e, !.clear = c, !.lease = l]
  <2>1. /\ i.n = nonce + 1 /\ i.auth = authority /\ i.base = run
        /\ i.op = "start" /\ i.ports = T
    BY DEF NewIntent, NoIntent
  <2>2. /\ Prepare(i, "acquire_intent") /\ \A p \in T : run[p] = "stopped"
        /\ \A n \in session.groups :
             runs[n].ports \cap T # {} => GroupState(runs[n]) = "stopped"
    BY <1>2 DEF PrepareStart
  <2> HIDE DEF i
  <2> QED BY <2>1, <2>2
<1>3. ASSUME NEW op \in Commands, NEW T \in Targets, NEW r, PrepareMutation(op, T, r)
      PROVE  \E i : /\ Prepare(i, "guard")
                    /\ i.n = nonce + 1 /\ i.auth = authority /\ i.base = run
                    /\ i.op # "start" /\ i.expected # 0 /\ i.ports = T
  <2> DEFINE i == [NewIntent(op, T) EXCEPT !.expected = session.id, !.relative = r]
  <2>1. /\ i.n = nonce + 1 /\ i.auth = authority /\ i.base = run
        /\ i.op = op /\ i.expected = session.id /\ i.ports = T
    BY DEF NewIntent, NoIntent
  <2>2. Prepare(i, "guard") /\ session.id # 0
    BY <1>3 DEF PrepareMutation
  <2>3. op # "start"
    BY RequestsAssumption
  <2> HIDE DEF i
  <2> QED BY <2>1, <2>2, <2>3
<1>4. \A T \in Targets : T # {}
  BY RequestsAssumption
<1>5. ASSUME NEW T \in Targets, NEW e, NEW c, NEW l, PrepareStart(T, e, c, l)
      PROVE  \E i : /\ Prepare(i, "acquire_intent")
                    /\ i.n = nonce + 1 /\ i.auth = authority /\ i.base = run
                    /\ i.op = "start" /\ i.ports # {}
                    /\ \A p \in i.ports : run[p] = "stopped"
                    /\ \A n \in session.groups :
                         runs[n].ports \cap i.ports # {} => GroupState(runs[n]) = "stopped"
  BY <1>2, <1>4, <1>5
<1>6. ASSUME NEW op \in Commands, NEW T \in Targets, NEW r, PrepareMutation(op, T, r)
      PROVE  \E i : /\ Prepare(i, "guard")
                    /\ i.n = nonce + 1 /\ i.auth = authority /\ i.base = run
                    /\ i.op # "start" /\ i.expected # 0 /\ i.ports # {}
  BY <1>3, <1>4, <1>6
<1>7. CASE \E T \in Targets, clear \in BOOLEAN, lease \in LeaseChoices, expect \in {0, session.id} :
             PrepareStart(T, expect, clear, lease)
  <2>1. PICK i : /\ Prepare(i, "acquire_intent")
                 /\ i.n = nonce + 1 /\ i.auth = authority /\ i.base = run
                 /\ i.op = "start" /\ i.ports # {}
                 /\ \A p \in i.ports : run[p] = "stopped"
                 /\ \A n \in session.groups :
                      runs[n].ports \cap i.ports # {} => GroupState(runs[n]) = "stopped"
    BY <1>5, <1>7
  <2>2. /\ SameDocuments /\ UNCHANGED <<server, authority, starts>>
        /\ nonce' = nonce + 1 /\ intent' = i
    BY <1>1, <2>1
  <2>3. task' = Idle \/ task' = [Idle EXCEPT !.pc = "acquire_intent", !.ports = i.ports]
    BY <1>1, <2>1
  <2>4. (IF intent'.op = "start" THEN "acquire_intent" ELSE "guard") = "acquire_intent"
    BY <2>1, <2>2
  <2> QED BY <1>0, <2>1, <2>2, <2>3, <2>4
<1>8. CASE \E op \in Commands, T \in Targets, relative \in BOOLEAN :
             (relative => op = "update") /\ PrepareMutation(op, T, relative)
  <2>1. PICK i : /\ Prepare(i, "guard")
                 /\ i.n = nonce + 1 /\ i.auth = authority /\ i.base = run
                 /\ i.op # "start" /\ i.expected # 0 /\ i.ports # {}
    BY <1>6, <1>8
  <2>2. /\ SameDocuments /\ UNCHANGED <<server, authority, starts>>
        /\ nonce' = nonce + 1 /\ intent' = i
    BY <1>1, <2>1
  <2>3. task' = Idle \/ task' = [Idle EXCEPT !.pc = "guard", !.ports = i.ports]
    BY <1>1, <2>1
  <2>4. (IF intent'.op = "start" THEN "acquire_intent" ELSE "guard") = "guard"
    BY <2>1, <2>2
  <2> QED BY <1>0, <2>1, <2>2, <2>3, <2>4
<1> QED BY <1>7, <1>8 DEF Begin

-----------------------------------------------------------------------------
(* What each step keeps: the locals and the numbers *)

\* The step of an operation goes on fitting its locals and its intent.
LEMMA FitsKept ==
  ASSUME TypeOK, OperationPending, TaskFits, [Next]_vars
  PROVE  TaskFits'
<1> USE DEF StartPath, Sending, Controlling, Hooks
<1>0. ASSUME task' = Idle PROVE TaskFits'
  <2>1. task'.pc = "idle" /\ task'.mode = "direct" /\ task'.goal = "none"
    BY <1>0 DEF Idle
  <2> QED BY <2>1 DEF TaskFits
<1>t. task.mode \in {"direct", "recovery"} /\ task.goal \in Goal /\ intent.op \in Operation
  BY DEF TypeOK, MemoryType, DiskType, Task, Intent
<1>1. NoIntent.op = "start" /\ NoIntent.n = 0
  BY DEF NoIntent
<1>2. CASE Begin
  <2>1. CASE task' = Idle
    BY <1>0, <2>1
  <2>2. CASE task' # Idle
    <3>1. /\ task'.pc = IF intent'.op = "start" THEN "acquire_intent" ELSE "guard"
          /\ task'.mode = "direct" /\ task'.goal = "none" /\ task'.ports = intent'.ports
      BY <1>2, <2>2, BeginTask DEF Idle
    <3> QED BY <3>1 DEF TaskFits
  <2> QED BY <2>1, <2>2
<1>3. CASE Snapshot
  BY <1>3, SnapshotTask DEF TaskFits
<1>4. CASE StopTrex \/ Environment
  <2>1. SameIntent
    BY <1>4, EnvironmentTask
  <2>2. CASE task' = Idle
    BY <1>0, <2>2
  <2>3. CASE SameLocals(task', task) /\ task.pc = "idle" /\ task'.pc = "retire"
    BY <2>1, <2>3 DEF TaskFits, SameIntent, SameLocals
  <2>4. CASE task' = task \/ task' = [task EXCEPT !.linked = FALSE]
    <3>1. /\ task'.mode = task.mode /\ task'.goal = task.goal
          /\ task'.ports = task.ports /\ task'.pc = task.pc
      BY <2>4 DEF TypeOK, MemoryType, Task
    <3> QED BY <2>1, <3>1 DEF TaskFits, SameIntent
  <2> QED BY <1>4, <2>2, <2>3, <2>4, EnvironmentTask
<1>5. CASE GuardPasses \/ GuardExpires \/ AdvanceStage \/ StageFails
  <2>1. AfterHook \in {"acquire", "preflight", "remove", "profile_add_intent", "add",
                       "start_intent", "start", "release"}
        \/ task.pc \notin Hooks
    BY DEF AfterHook
  <2> QED BY <1>5, <2>1, StageTask DEF TaskFits, SameIntent, SameLocals
<1>6. CASE Acquire \/ Preflight \/ RemoveStreams \/ AddProfile \/ StartTraffic \/ Command
  BY <1>6, RpcTask DEF TaskFits, SameLocals
<1>7. CASE Release
  BY <1>t, <1>7, ReleaseTask DEF TaskFits, Operation
<1>8. CASE Control \/ RollbackTraffic \/ RestoreStreams \/ RestoreAcquisition
  <2>1. \/ task.goal = "rollback" /\ AfterControl = "verify"
        \/ task.goal = "verify" /\ AfterControl = "verify"
        \/ task.goal = "normalize" /\ AfterControl = "acquire_intent"
        \/ task.goal = "promote" /\ AfterControl = "promote"
        \/ task.goal = "clear" /\ AfterControl = "clear"
        \/ task.goal \in {"none", "retain"} /\ AfterControl = "unresolved"
    BY <1>t DEF AfterControl, Goal
  <2>2. CASE task.pc = "restore" /\ task'.pc = AfterControl
    <3>1. intent.n # 0
      BY <2>2 DEF OperationPending
    <3> QED BY <1>8, <2>1, <2>2, <3>1, ControlTask DEF TaskFits, SameLocals
  <2>3. CASE ~(task.pc = "restore" /\ task'.pc = AfterControl)
    BY <1>8, <2>3, ControlTask DEF TaskFits, SameLocals
  <2> QED BY <2>2, <2>3
<1>9. CASE Verify
  BY <1>9, VerifyTask DEF TaskFits
<1>10. CASE PromotionRefused \/ Retain
  BY <1>0, <1>10, GivenUpTask DEF TaskFits, SameIntent, SameLocals
<1>11. CASE Promote \/ Clear \/ RetireAfterRollover \/ RetireAfterTermination \/ Reconcile
  <2>1. CASE task' = Idle
    BY <1>0, <2>1
  <2>2. CASE task' # Idle
    BY <1>t, <1>1, <1>11, <2>2, WriteTask DEF TaskFits, SameLocals
  <2> QED BY <2>1, <2>2
<1>12. CASE \/ RecoverForeign \/ RecoverYields \/ RecoverUnsafe
            \/ RollBackStart \/ AdoptStart \/ ReplayStart \/ AbandonStart
            \/ RecoverUpdate \/ AdoptAction \/ ClearAction \/ RetryAction
  <2>1. CASE task' = Idle
    BY <1>0, <2>1
  <2>2. CASE task' # Idle
    BY <1>12, <2>2, RecoverTask DEF TaskFits, SameLocals
  <2> QED BY <2>1, <2>2
<1>13. CASE UNCHANGED vars
  BY <1>13 DEF vars, disk, memory, TaskFits
<1> QED BY <1>2, <1>3, <1>4, <1>5, <1>6, <1>7, <1>8, <1>9, <1>10, <1>11, <1>12, <1>13
        DEF Next, Execute

-----------------------------------------------------------------------------
(* The documents that are written *)

\* A group that is given the states st, and closed by who when they are stopped.
Restate(r, st, how, who) ==
  LET stopped == GroupState([r EXCEPT !.st = st]) = "stopped"
  IN [r EXCEPT !.st = st,
               !.lease = IF stopped THEN "none" ELSE @,
               !.done = IF stopped /\ @ = "none" THEN how ELSE @,
               !.stopper = IF stopped /\ r.done = "none" THEN who ELSE @]

\* It has no lease when it is closed, and is otherwise closed as it was before.
LEMMA Restated ==
  ASSUME NEW r \in Run, NEW st \in [Ports -> PortState], NEW how, NEW who, how # "none"
  PROVE  LET q == Restate(r, st, how, who) IN
         /\ q.ports = r.ports /\ q.st = st
         /\ AllStopped(q) => /\ q.lease = "none" /\ q.done # "none"
                             /\ r.done # "none" => q.done = r.done /\ q.stopper = r.stopper
         /\ ~AllStopped(q) => q.lease = r.lease /\ q.done = r.done
<1> DEFINE q == Restate(r, st, how, who)
<1> DEFINE s == [r EXCEPT !.st = st]
           stopped == GroupState(s) = "stopped"
<1>1. s.st = st /\ s.ports = r.ports
  BY DEF Run
<1>2. r.ports \in SUBSET Ports
  BY DEF Run
<1>3. stopped <=> AllStopped(s)
  <2> HIDE DEF s
  <2> QED BY <1>1, <1>2, GroupStopped DEF stopped
<1>4. AllStopped(s) <=> \A p \in r.ports : st[p] = "stopped"
  <2> HIDE DEF s
  <2> QED BY <1>1 DEF AllStopped
<1>5. q = [r EXCEPT !.st = st,
                    !.lease = IF stopped THEN "none" ELSE @,
                    !.done = IF stopped /\ @ = "none" THEN how ELSE @,
                    !.stopper = IF stopped /\ r.done = "none" THEN who ELSE @]
  BY DEF Restate
<1> HIDE DEF s, stopped, q
<1>6. /\ q.ports = r.ports /\ q.st = st
      /\ q.lease = IF stopped THEN "none" ELSE r.lease
      /\ q.done = IF stopped /\ r.done = "none" THEN how ELSE r.done
      /\ q.stopper = IF stopped /\ r.done = "none" THEN who ELSE r.stopper
  BY <1>5 DEF Run
<1>7. stopped <=> AllStopped(q)
  BY <1>3, <1>4, <1>6 DEF AllStopped
<1> QED BY <1>6, <1>7 DEF q

\* What a promoted mutation makes of a group.
LEMMA MutatedFields ==
  ASSUME NEW i \in Intent, NEW r \in Run
  PROVE  /\ MutatedRun(i, r).ports = r.ports
         /\ \A p \in Ports : MutatedRun(i, r).st[p] =
              IF p \in r.ports \cap i.ports THEN Desired(i, p) ELSE r.st[p]
         /\ AllStopped(MutatedRun(i, r)) =>
              /\ MutatedRun(i, r).lease = "none" /\ MutatedRun(i, r).done # "none"
              /\ r.done # "none" => /\ MutatedRun(i, r).done = r.done
                                    /\ MutatedRun(i, r).stopper = r.stopper
         /\ ~AllStopped(MutatedRun(i, r)) =>
              MutatedRun(i, r).lease = r.lease /\ MutatedRun(i, r).done = r.done
<1> DEFINE st == [p \in Ports |-> IF p \in r.ports \cap i.ports THEN Desired(i, p) ELSE r.st[p]]
<1>1. st \in [Ports -> PortState]
  <2>1. \A p \in Ports : Desired(i, p) \in PortState
    BY DEF Desired, Intent, Operation, PortState, LiveState
  <2> QED BY <2>1 DEF Run
<1>2. MutatedRun(i, r) = Restate(r, st, "operator_stop", i.n)
  BY DEF MutatedRun, Restate
<1>3. \A p \in Ports : st[p] = IF p \in r.ports \cap i.ports THEN Desired(i, p) ELSE r.st[p]
  OBVIOUS
<1> HIDE DEF st
<1> QED BY <1>1, <1>2, <1>3, Restated

\* What a reconciliation makes of a group.
LEMMA ReconciledFields ==
  ASSUME TypeOK, NEW vouches \in BOOLEAN, NEW r \in Run
  PROVE  /\ ReconciledRun(r, vouches).ports = r.ports
         /\ \A p \in Ports : ReconciledRun(r, vouches).st[p] =
              IF p \notin r.ports \/ r.done # "none" \/ task.live[p] = "stopped" THEN "stopped"
              ELSE IF vouches THEN task.live[p] ELSE "unknown"
         /\ AllStopped(ReconciledRun(r, vouches)) =>
              /\ ReconciledRun(r, vouches).lease = "none" /\ ReconciledRun(r, vouches).done # "none"
              /\ r.done # "none" => /\ ReconciledRun(r, vouches).done = r.done
         /\ ~AllStopped(ReconciledRun(r, vouches)) =>
              /\ ReconciledRun(r, vouches).lease = r.lease
              /\ ReconciledRun(r, vouches).done = r.done
         /\ ReconciledRun(r, vouches).stopper = r.stopper
<1> DEFINE seen(p) == IF p \notin r.ports \/ r.done # "none" \/ task.live[p] = "stopped"
                      THEN "stopped"
                      ELSE IF vouches THEN task.live[p] ELSE "unknown"
           st == [p \in Ports |-> seen(p)]
           stopped == GroupState([r EXCEPT !.st = st]) = "stopped"
           q == ReconciledRun(r, vouches)
<1>1. st \in [Ports -> PortState]
  BY DEF TypeOK, MemoryType, Task, PortState, LiveState
<1>2. q = [r EXCEPT !.st = st,
                    !.lease = IF stopped THEN "none" ELSE @,
                    !.done = IF stopped /\ @ = "none" THEN "observed" ELSE @]
  BY DEF ReconciledRun
<1>3. \A p \in Ports : st[p] = seen(p)
  OBVIOUS
<1> HIDE DEF st, stopped, q
<1>4. q = Restate(r, st, "observed", r.stopper)
  BY <1>2 DEF Run, Restate, stopped
<1>5. q.stopper = r.stopper
  BY <1>2 DEF Run
<1> QED BY <1>1, <1>3, <1>4, <1>5, Restated DEF q

\* A promotion writes the whole document, or leaves it and the intent as they are.
LEMMA Promotion ==
  ASSUME Promote
  PROVE  \/ SameDocuments /\ intent' = intent
         \/ /\ Promotable(intent) /\ Authorised(intent) /\ intent' = NoIntent
            /\ ValidDocument(session', runs')
            /\ session' = PromotedSession(intent) /\ runs' = PromotedRuns(intent)
<1> USE DEF disk, SameDocuments
<1>1. CASE ValidDocument(PromotedSession(intent), PromotedRuns(intent))
  <2>1. PICK saved \in Saved :
          Persist(saved, PromotedSession(intent), PromotedRuns(intent), NoIntent)
    BY <1>1 DEF Promote
  <2>2. Promotable(intent) /\ Authorised(intent)
    BY DEF Promote
  <2>3. CASE saved = "no"
    BY <2>1, <2>3 DEF Persist
  <2>4. CASE saved # "no"
    <3>1. /\ session' = PromotedSession(intent) /\ runs' = PromotedRuns(intent)
          /\ intent' = NoIntent
      BY <2>1, <2>4 DEF Persist
    <3> HIDE DEF disk
    <3> QED BY <1>1, <2>2, <3>1
  <2> QED BY <2>3, <2>4
<1>2. CASE ~ValidDocument(PromotedSession(intent), PromotedRuns(intent))
  BY <1>2 DEF Promote
<1> QED BY <1>1, <1>2

\* The groups that a start replaces: they hold some of its ports.
Replaced == {n \in session.groups : runs[n].ports \cap intent.ports # {}}

\* What the document of a promoted start says.
LEMMA StartedFields ==
  ASSUME TypeOK, intent.n \in Nonce
  PROVE  LET s == StartedSession(intent) IN
         /\ intent.expected = 0 => /\ s.id = intent.n /\ s.auth = intent.auth
                                   /\ s.groups = {intent.n} /\ s.completed = {}
         /\ intent.expected # 0 => /\ s.id = session.id /\ s.auth = session.auth
                                   /\ s.groups = (session.groups \ Replaced) \cup {intent.n}
                                   /\ s.completed = session.completed \cup Replaced
         /\ LET r == StartedRuns(intent)[intent.n] IN
            /\ r.ports = intent.ports /\ r.done = "none"
            /\ \A p \in Ports : r.st[p] = IF p \in intent.ports THEN "running" ELSE "stopped"
         /\ \A n \in Nonce \ {intent.n} :
              StartedRuns(intent)[n] = IF intent.expected # 0 THEN runs[n] ELSE NoRun
<1>0. session \in Session /\ intent \in Intent
  BY DEF TypeOK, DiskType
<1>1. CASE intent.expected = 0
  BY <1>0, <1>1 DEF StartedSession, StartedRuns, NoSession, NoRun
<1>2. CASE intent.expected # 0
  <2>1. LET s == StartedSession(intent) IN
        /\ s.id = session.id /\ s.auth = session.auth
        /\ s.groups = (session.groups \ Replaced) \cup {intent.n}
        /\ s.completed = session.completed \cup Replaced
    BY <1>0, <1>2 DEF StartedSession, Session, Replaced
  <2>2. LET r == StartedRuns(intent)[intent.n] IN
        /\ r.ports = intent.ports /\ r.done = "none"
        /\ \A p \in Ports : r.st[p] = IF p \in intent.ports THEN "running" ELSE "stopped"
    BY <1>0, <1>2 DEF StartedRuns, NoRun
  <2>3. \A n \in Nonce \ {intent.n} : StartedRuns(intent)[n] = runs[n]
    BY <1>0, <1>2 DEF StartedRuns
  <2> QED BY <1>2, <2>1, <2>2, <2>3
<1> QED BY <1>1, <1>2

\* A promoted mutation, a reconciliation and the end of every run keep the groups.
LEMMA MutatedDocument ==
  ASSUME TypeOK
  PROVE  /\ LET s == MutatedSession(intent) IN
            /\ s.id = session.id /\ s.auth = session.auth
            /\ s.groups = session.groups /\ s.completed = session.completed
         /\ \A n \in Nonce : MutatedRuns(intent)[n] =
              IF intent.op # "update" /\ n \in session.groups THEN MutatedRun(intent, runs[n])
              ELSE runs[n]
  BY DEF TypeOK, DiskType, MutatedSession, MutatedRuns, Session

\* What is left of a group whose traffic is over.
LEMMA ClosedFields ==
  ASSUME TypeOK, NEW n \in Nonce
  PROVE  LET q == Closed(session, runs)[n] IN
         /\ n \notin session.groups => q = runs[n]
         /\ n \in session.groups =>
              /\ q.ports = runs[n].ports /\ q.lease = "none" /\ q.done # "none"
              /\ q.st = [p \in Ports |-> "stopped"] /\ AllStopped(q)
              /\ q.stopper = runs[n].stopper
              /\ runs[n].done # "none" => q.done = runs[n].done
<1>1. runs[n] \in Run /\ NoRun.st = [p \in Ports |-> "stopped"]
  BY DEF TypeOK, DiskType, NoRun
<1>2. CASE n \notin session.groups
  BY <1>2 DEF Closed
<1>3. CASE n \in session.groups
  <2>1. Closed(session, runs)[n] =
          [runs[n] EXCEPT !.st = NoRun.st, !.lease = "none",
                          !.done = IF @ = "none" THEN "observed" ELSE @]
    BY <1>3 DEF Closed
  <2>2. LET q == Closed(session, runs)[n] IN
        /\ q.ports = runs[n].ports /\ q.lease = "none" /\ q.done # "none"
        /\ q.st = [p \in Ports |-> "stopped"] /\ q.stopper = runs[n].stopper
        /\ runs[n].done # "none" => q.done = runs[n].done
    BY <1>1, <2>1 DEF Run
  <2>3. runs[n].ports \in SUBSET Ports
    BY <1>1 DEF Run
  <2> QED BY <1>3, <2>2, <2>3 DEF AllStopped
<1> QED BY <1>2, <1>3

\* The ways in which a step writes the document.
Promoting == /\ task.pc = "promote" /\ intent' = NoIntent
             /\ Promotable(intent) /\ Authorised(intent) /\ ValidDocument(session', runs')
             /\ session' = PromotedSession(intent) /\ runs' = PromotedRuns(intent)
             /\ UNCHANGED <<server, authority, nonce, starts>>
Clearing == /\ task.pc = "clear" /\ intent' = NoIntent /\ SameDocuments
            /\ UNCHANGED <<server, authority, nonce, starts>>
Reconciling == /\ task.pc = "reconcile" /\ intent' = intent /\ session' = session
               /\ \E vouches \in BOOLEAN :
                    runs' = [n \in Nonce |-> IF n \in session.groups
                                             THEN ReconciledRun(runs[n], vouches) ELSE runs[n]]
               /\ UNCHANGED <<server, authority, nonce, starts>>
Closing == /\ intent' = NoIntent /\ session' = session
           /\ \/ task.pc = "rollover" /\ session.auth # intent.auth /\ runs' = runs
              \/ task.pc = "rollover" /\ session.auth = intent.auth /\ runs' = Closed(session, runs)
              \/ task.pc = "retire" /\ runs' = Closed(session, runs)
           /\ UNCHANGED <<server, authority, nonce, starts>>
Ticking == /\ session' = session /\ SameIntent
           /\ \E n \in session.groups : /\ runs[n].lease \in {"armed", "near"}
                                        /\ runs' = [runs EXCEPT ![n].lease = Later(@)]
           /\ UNCHANGED <<server, authority, memory, nonce, starts>>

\* A step writes the document in one of these ways, or leaves it as it is.
LEMMA Documents ==
  ASSUME TypeOK, [Next]_vars
  PROVE  \/ SameDocuments /\ SameIntent
         \/ SameDocuments /\ Begin
         \/ Promoting \/ Clearing \/ Reconciling \/ Closing \/ Ticking
<1> USE DEF disk, history, SameDocuments
<1>1. CASE Snapshot
  BY <1>1, SnapshotTask, IntentFields
<1>2. CASE StopTrex \/ Environment
  <2>1. CASE \E n \in Nonce : LeaseTick(n)
    <3>1. PICK n \in Nonce : LeaseTick(n)
      BY <2>1
    <3>2. CASE /\ n \in session.groups /\ runs[n].lease \in {"armed", "near"}
               /\ runs' = [runs EXCEPT ![n].lease = Later(@)]
               /\ UNCHANGED <<server, authority, session, intent, memory, history>>
      BY <3>2, IntentFields DEF Ticking
    <3>3. CASE /\ n = intent.n /\ intent.lease \in {"armed", "near"}
               /\ intent' = [intent EXCEPT !.lease = Later(@)]
               /\ UNCHANGED <<server, authority, session, runs, memory, history>>
      BY <1>2, <3>3, EnvironmentTask
    <3> QED BY <3>1, <3>2, <3>3 DEF LeaseTick
  <2>2. CASE ~\E n \in Nonce : LeaseTick(n)
    <3>1. intent' = intent /\ session' = session /\ runs' = runs
      BY <1>2, <2>2 DEF StopTrex, Environment, Crash, TrexExit, TrafficEnds, HandlerExpires,
           ExternalTraffic, ExternalRelease, OperatorAcquires, OperatorReleases
    <3> QED BY <3>1, IntentFields
  <2> QED BY <2>1, <2>2
<1>3. CASE \/ GuardPasses \/ GuardExpires \/ AdvanceStage \/ StageFails
           \/ Acquire \/ Preflight \/ RemoveStreams \/ AddProfile \/ StartTraffic \/ Command
           \/ Release \/ Control \/ RollbackTraffic \/ RestoreStreams \/ RestoreAcquisition
           \/ Verify \/ PromotionRefused \/ Retain
  <2>1. ASSUME intent' = intent, SameDocuments PROVE SameDocuments /\ SameIntent
    BY <2>1, IntentFields
  <2> QED BY <1>3, <2>1, StageTask, RpcTask, ReleaseTask, ControlTask, VerifyTask, GivenUpTask
<1>4. CASE \/ RecoverForeign \/ RecoverYields \/ RecoverUnsafe
           \/ RollBackStart \/ AdoptStart \/ ReplayStart \/ AbandonStart
           \/ RecoverUpdate \/ AdoptAction \/ ClearAction \/ RetryAction
  BY <1>4, RecoverTask, IntentFields
<1>5. CASE Promote
  <2>1. UNCHANGED <<server, authority, nonce, starts>> /\ task.pc = "promote"
    BY <1>5 DEF Promote
  <2>2. CASE SameDocuments /\ intent' = intent
    BY <2>2, IntentFields
  <2>3. CASE ~(SameDocuments /\ intent' = intent)
    BY <1>5, <2>1, <2>3, Promotion DEF Promoting
  <2> QED BY <2>2, <2>3
<1>6. CASE Clear
  <2>1. UNCHANGED <<server, authority, nonce, starts>> /\ task.pc = "clear"
        /\ (intent' = intent \/ intent' = NoIntent) /\ SameDocuments
    BY <1>6 DEF Clear, Persist
  <2> QED BY <2>1, IntentFields DEF Clearing
<1>7. CASE RetireAfterRollover
  <2>1. /\ UNCHANGED <<server, authority, nonce, starts>> /\ task.pc = "rollover"
        /\ \/ SameDocuments /\ intent' = intent
           \/ /\ intent' = NoIntent /\ session' = session
              /\ runs' = IF session.auth = intent.auth THEN Closed(session, runs) ELSE runs
    BY <1>7 DEF RetireAfterRollover, Persist
  <2> QED BY <2>1, IntentFields DEF Closing
<1>8. CASE RetireAfterTermination
  <2>1. /\ UNCHANGED <<server, authority, nonce, starts>> /\ task.pc = "retire"
        /\ \/ SameDocuments /\ intent' = intent
           \/ intent' = NoIntent /\ session' = session /\ runs' = Closed(session, runs)
    BY <1>8 DEF RetireAfterTermination, Persist
  <2> QED BY <2>1, IntentFields DEF Closing
<1>9. CASE Reconcile
  <2>1. UNCHANGED <<server, authority, nonce, starts>>
    BY <1>9 DEF Reconcile
  <2>2. CASE runs' = runs
    BY <1>9, <2>2, ReconcileTask, IntentFields
  <2>3. CASE runs' # runs
    BY <1>9, <2>1, <2>3, ReconcileTask DEF Reconciling
  <2> QED BY <2>2, <2>3
<1>10. CASE Begin
  BY <1>10, BeginTask
<1>11. CASE UNCHANGED vars
  BY <1>11, IntentFields DEF vars
<1> QED BY <1>1, <1>2, <1>3, <1>4, <1>5, <1>6, <1>7, <1>8, <1>9, <1>10, <1>11 DEF Next, Execute

\* The number of a mutation is above those on disk, and becomes one of them once.
LEMMA DrawnKept ==
  ASSUME TypeOK, OperationPending, StartInv, TaskFits, GroupsDrawn, [Next]_vars
  PROVE  GroupsDrawn'
<1>0. /\ session.id \in Nonce0 /\ nonce \in Nonce0 /\ intent.n \in Nonce0 /\ intent.n <= nonce
      /\ session.groups \subseteq Nonce /\ session.completed \subseteq Nonce
      /\ \A n \in Nonce : n \in Nat /\ n # 0
      /\ Nonce0 \subseteq Nat
  BY BoundsAssumption DEF TypeOK, DiskType, HistoryType, Session, Intent, StartInv, Nonce0, Nonce
<1>1. NoIntent.n = 0 /\ NoIntent.op = "start" /\ NoIntent.ports = {}
  BY DEF NoIntent
<1>2. ASSUME session'.id = session.id, session'.groups = session.groups,
             session'.completed = session.completed, nonce' = nonce,
             SameIntent \/ intent' = NoIntent
      PROVE  GroupsDrawn'
  <2>1. CASE SameIntent
    BY <1>2, <2>1 DEF GroupsDrawn, SameIntent
  <2>2. CASE intent' = NoIntent
    BY <1>0, <1>1, <1>2, <2>2 DEF GroupsDrawn
  <2> QED BY <1>2, <2>1, <2>2
<1>3. nonce' = nonce \/ Begin
  BY BeginTask, SnapshotTask, EnvironmentTask, StageTask, RpcTask, ReleaseTask, ControlTask,
     VerifyTask, GivenUpTask, RecoverTask, WriteTask DEF Next, Execute, vars, history
<1>4. CASE Begin
  <2>1. /\ SameDocuments /\ nonce' = nonce + 1 /\ intent'.n = nonce + 1
        /\ intent'.op # "start" => intent'.expected # 0
        /\ intent'.op = "start" => \A p \in intent'.ports : intent'.base[p] = "stopped"
    BY <1>4, BeginTask
  <2>2. \A n \in Nonce0 : n <= nonce => n <= nonce + 1 /\ n # nonce + 1
    BY <1>0
  <2>3. /\ session'.id <= nonce' /\ session'.id # intent'.n
        /\ \A n \in session'.groups \cup session'.completed : n <= nonce' /\ n # intent'.n
    BY <1>0, <2>1, <2>2 DEF GroupsDrawn, SameDocuments, Nonce, Nonce0
  <2> QED BY <2>1, <2>3 DEF GroupsDrawn
<1>5. CASE Promoting
  <2>0. intent.n \in Nonce /\ nonce' = nonce
    BY <1>0, <1>5 DEF OperationPending, Promoting, Nonce, Nonce0
  <2>1. CASE intent.op = "start"
    <3>1. /\ session'.id <= nonce
          /\ session'.groups \subseteq session.groups \cup {intent.n}
          /\ session'.completed \subseteq session.completed \cup session.groups
      BY <1>0, <1>5, <2>0, <2>1, StartedFields
         DEF Promoting, PromotedSession, GroupsDrawn, Replaced
    <3>2. \A n \in session'.groups \cup session'.completed : n <= nonce /\ n # 0
      BY <1>0, <2>0, <3>1 DEF GroupsDrawn
    <3> QED BY <1>1, <1>5, <2>0, <3>1, <3>2 DEF Promoting, GroupsDrawn
  <2>2. CASE intent.op # "start"
    BY <1>2, <1>5, <2>0, <2>2, MutatedDocument DEF Promoting, PromotedSession
  <2> QED BY <2>1, <2>2
<1>6. CASE ~Begin /\ ~Promoting
  <2>1. session' = session /\ (SameIntent \/ intent' = NoIntent)
    BY <1>6, Documents, IntentFields DEF SameDocuments, Clearing, Reconciling, Closing, Ticking
  <2> QED BY <1>2, <1>3, <1>6, <2>1
<1> QED BY <1>4, <1>5, <1>6


\* The document that a promotion writes is of a session, whose groups are closed as they
\* should be, or it would not be written.
LEMMA PromotedDocument ==
  ASSUME TypeOK, TypeOK', OperationPending, GroupsDrawn, Promoting
  PROVE  /\ intent.n \in Nonce /\ intent'.n = 0 /\ session'.id # 0
         /\ \A n \in session'.groups : AllStopped(runs'[n]) <=> runs'[n].done # "none"
         /\ \A n \in session'.completed : AllStopped(runs'[n])
<1>1. intent.n \in Nonce /\ intent'.n = 0
  BY BoundsAssumption DEF OperationPending, Promoting, TypeOK, DiskType, Intent, Nonce, Nonce0, NoIntent
<1>2. intent.n # 0
  BY <1>1 DEF Nonce
<1>3. session'.id # 0
  <2>1. CASE intent.op = "start"
    <3>1. intent.expected # 0 => session.id = intent.expected
      BY <2>1 DEF Promoting, Promotable, StartPromotable
    <3> QED BY <1>1, <1>2, <2>1, <3>1, StartedFields DEF Promoting, PromotedSession
  <2>2. CASE intent.op # "start"
    BY <1>2, <2>2, MutatedDocument DEF Promoting, PromotedSession, Promotable, GroupsDrawn
  <2> QED BY <2>1, <2>2
<1>4. \A n \in Nonce : GroupState(runs'[n]) = "stopped" <=> AllStopped(runs'[n])
  <2> TAKE n \in Nonce
  <2>1. runs'[n].st \in [Ports -> PortState] /\ runs'[n].ports \in SUBSET Ports
    BY DEF TypeOK, DiskType, Run
  <2> QED BY <2>1, GroupStopped
<1>5. session'.groups \subseteq Nonce /\ session'.completed \subseteq Nonce
  BY DEF TypeOK, DiskType, Session
<1>6. ValidDocument(session', runs')
  BY DEF Promoting
<1> QED BY <1>1, <1>3, <1>4, <1>5, <1>6 DEF ValidDocument

\* The record of each group is well kept by every step that writes it.
LEMMA ClosedKept ==
  ASSUME TypeOK, TypeOK', OperationPending, GroupsDrawn, GroupsClosed, [Next]_vars
  PROVE  GroupsClosed'
<1> DEFINE Tidy(r) == /\ \A p \in Ports \ r.ports : r.st[p] = "stopped"
                      /\ r.done # "none" => r.lease = "none"
<1>0. /\ session.groups \subseteq Nonce
      /\ \A n \in Nonce : runs[n] \in Run /\ Tidy(runs[n])
  BY DEF TypeOK, DiskType, Session, GroupsClosed
<1>1. Tidy(NoRun)
  BY DEF NoRun
<1>2. CASE SameDocuments
  BY <1>2 DEF SameDocuments, GroupsClosed
<1>3. CASE Promoting
  <2>1. \A n \in Nonce : Tidy(runs'[n])
    <3> TAKE n \in Nonce
    <3>1. CASE intent.op = "start"
      <4>1. runs' = StartedRuns(intent)
        BY <1>3, <3>1 DEF Promoting, PromotedRuns
      <4>2. CASE n = intent.n
        BY <4>1, <4>2, StartedFields
      <4>3. CASE n # intent.n
        <5>1. runs'[n] \in {runs[n], NoRun}
          BY <1>3, <4>1, <4>3, StartedFields, PromotedDocument
        <5> QED BY <1>0, <1>1, <5>1
      <4> QED BY <4>2, <4>3
    <3>2. CASE intent.op # "start"
      <4>1. runs'[n] \in {runs[n], MutatedRun(intent, runs[n])}
        BY <1>3, <3>2, MutatedDocument DEF Promoting, PromotedRuns
      <4>2. Tidy(MutatedRun(intent, runs[n]))
        <5> DEFINE q == MutatedRun(intent, runs[n])
        <5>1. intent \in Intent /\ runs[n] \in Run /\ Tidy(runs[n])
          BY <1>0 DEF TypeOK, DiskType
        <5>2. \A p \in Ports \ q.ports : q.st[p] = "stopped"
          BY <5>1, MutatedFields
        <5>3. q.done # "none" => q.lease = "none"
          <6>1. CASE AllStopped(q)
            BY <5>1, <6>1, MutatedFields
          <6>2. CASE ~AllStopped(q)
            BY <5>1, <6>2, MutatedFields
          <6> QED BY <6>1, <6>2
        <5> HIDE DEF q
        <5>4. Tidy(q)
          BY <5>2, <5>3
        <5> QED BY <5>4 DEF q
      <4> QED BY <1>0, <4>1, <4>2
    <3> QED BY <3>1, <3>2
  <2>2. \A n \in session'.groups : AllStopped(runs'[n]) <=> runs'[n].done # "none"
    BY <1>3, PromotedDocument
  <2> QED BY <2>1, <2>2 DEF GroupsClosed
<1>4. CASE Reconciling
  <2>1. PICK vouches \in BOOLEAN :
          runs' = [n \in Nonce |-> IF n \in session.groups
                                   THEN ReconciledRun(runs[n], vouches) ELSE runs[n]]
    BY <1>4 DEF Reconciling
  <2>2. ASSUME NEW n \in session.groups
        PROVE  /\ Tidy(ReconciledRun(runs[n], vouches))
               /\ AllStopped(ReconciledRun(runs[n], vouches))
                    <=> ReconciledRun(runs[n], vouches).done # "none"
    <3>1. CASE runs[n].done # "none"
      <4>1. AllStopped(ReconciledRun(runs[n], vouches))
        <5>1. runs[n].ports \in SUBSET Ports
          BY <1>0 DEF Run
        <5> QED BY <1>0, <3>1, <5>1, ReconciledFields DEF AllStopped
      <4> QED BY <1>0, <4>1, ReconciledFields
    <3>2. CASE runs[n].done = "none"
      BY <1>0, <3>2, ReconciledFields
    <3> QED BY <3>1, <3>2
  <2> QED BY <1>0, <1>4, <2>1, <2>2 DEF Reconciling, GroupsClosed
<1>5. CASE Closing
  <2>1. CASE runs' = runs
    BY <1>5, <2>1 DEF Closing, GroupsClosed
  <2>2. CASE runs' = Closed(session, runs)
    <3>1. \A n \in Nonce : /\ Tidy(runs'[n])
                           /\ n \in session.groups => AllStopped(runs'[n]) /\ runs'[n].done # "none"
      BY <1>0, <2>2, ClosedFields
    <3> QED BY <1>0, <1>5, <3>1 DEF Closing, GroupsClosed
  <2> QED BY <1>5, <2>1, <2>2 DEF Closing
<1>6. CASE Ticking
  <2>1. PICK m \in session.groups : /\ runs[m].lease \in {"armed", "near"}
                                    /\ runs' = [runs EXCEPT ![m].lease = Later(@)]
    BY <1>6 DEF Ticking
  <2>2. \A n \in Nonce : /\ runs'[n].ports = runs[n].ports /\ runs'[n].st = runs[n].st
                         /\ runs'[n].done = runs[n].done
                         /\ n # m => runs'[n] = runs[n]
    BY <1>0, <2>1 DEF Run, TypeOK, DiskType
  <2>3. m \in Nonce /\ runs[m].done = "none"
    BY <1>0, <2>1
  <2>4. \A n \in Nonce : AllStopped(runs'[n]) <=> AllStopped(runs[n])
    BY <2>2 DEF AllStopped
  <2>5. session'.groups = session.groups
    BY <1>6 DEF Ticking
  <2> QED BY <1>0, <2>2, <2>3, <2>4, <2>5 DEF GroupsClosed
<1> QED BY <1>2, <1>3, <1>4, <1>5, <1>6, Documents DEF Clearing

-----------------------------------------------------------------------------
(* The traffic on the ports *)

\* TRex starts the pending run, on the ports it was sent for.
Starting ==
  /\ task.pc = "start" /\ intent' = intent /\ SameDocuments /\ UNCHANGED <<authority, nonce>>
  /\ SameLocals(task', task) /\ task'.pc \in {"start_returned", "release"}
  /\ \E T \in SUBSET task.ports :
       /\ T # {} => task.linked
       /\ \A p \in T : run[p] = "stopped"
       /\ run' = [p \in Ports |-> IF p \in T THEN "running" ELSE run[p]]
       /\ by' = [p \in Ports |-> IF p \in T THEN intent.n ELSE by[p]]
       /\ starts' = [starts EXCEPT ![intent.n] = IF T = {} THEN @ ELSE @ + 1]

\* Traffic is paused, resumed, or started by another controller.
Carrying == /\ by' = by /\ starts' = starts
            /\ \A p \in Ports : run'[p] = "stopped" => run[p] = "stopped"

\* A step starts the pending run, stops traffic, or does neither.
LEMMA ServerSteps ==
  ASSUME TypeOK, [Next]_vars
  PROVE  \/ Starting
         \/ Carrying
         \/ starts' = starts /\ \E T \in SUBSET Ports : Stopped(T)
<1> USE DEF disk, history, server
<1>0. run \in [Ports -> LiveState] /\ by \in [Ports -> Nonce0] /\ task.ports \in SUBSET Ports
      /\ intent \in Intent
  BY DEF TypeOK, ServerType, MemoryType, Task, DiskType
<1>1. ASSUME run' = run, by' = by, starts' = starts PROVE Carrying
  BY <1>1 DEF Carrying
<1>2. CASE StartTraffic
  <2>1. PICK o \in Outcomes(task.ports) :
       /\ \A p \in o.done : run[p] = "stopped"
       /\ run' = [p \in Ports |-> IF p \in o.done THEN "running" ELSE run[p]]
       /\ by' = [p \in Ports |-> IF p \in o.done THEN intent.n ELSE by[p]]
       /\ starts' = [starts EXCEPT ![intent.n] = IF o.done = {} THEN @ ELSE @ + 1]
       /\ Under(o.ok, "start_returned")
    BY <1>2 DEF StartTraffic
  <2>2. o.done \in SUBSET task.ports /\ (o.done # {} => task.linked)
    BY <1>0, <2>1, OutcomeType DEF Outcomes
  <2>3. /\ task.pc = "start" /\ intent' = intent /\ SameDocuments /\ UNCHANGED <<authority, nonce>>
    BY <1>2 DEF StartTraffic, SameDocuments
  <2>4. SameLocals(task', task) /\ task'.pc \in {"start_returned", "release"}
    BY <1>2, <2>3, RpcTask
  <2> QED BY <2>1, <2>2, <2>3, <2>4 DEF Starting
<1>3. CASE Command
  <2>1. PICK o \in Outcomes(task.ports) :
          CASE intent.op = "stop"   -> Stopped(o.done)
            [] intent.op = "update" -> UNCHANGED <<run, by>>
            [] OTHER -> /\ run' = [p \in Ports |-> IF p \in o.done THEN Desired(intent, p)
                                                   ELSE run[p]]
                        /\ UNCHANGED by
    BY <1>3 DEF Command
  <2>2. o.done \in SUBSET Ports /\ starts' = starts
    BY <1>0, <1>3, <2>1, OutcomeType DEF Command
  <2>3. CASE intent.op = "stop"
    BY <2>1, <2>2, <2>3
  <2>4. CASE intent.op = "update"
    BY <1>1, <2>1, <2>2, <2>4
  <2>5. CASE intent.op \in {"pause", "resume", "start"}
    <3>1. \A p \in Ports : Desired(intent, p) # "stopped"
      BY <2>5 DEF Desired
    <3> QED BY <2>1, <2>2, <2>5, <3>1 DEF Carrying
  <2> QED BY <1>0, <2>3, <2>4, <2>5 DEF Intent, Operation
<1>4. CASE RollbackTraffic
  <2>1. PICK o \in Outcomes({p \in intent.ports : run[p] # "stopped"}) : Stopped(o.done)
    BY <1>4 DEF RollbackTraffic
  <2>2. o.done \in SUBSET Ports /\ starts' = starts
    BY <1>0, <1>4, <2>1 DEF RollbackTraffic, Outcomes, Intent
  <2> QED BY <2>1, <2>2
<1>5. CASE StopTrex \/ TrexExit
  <2>1. Stopped(Ports) /\ starts' = starts
    BY <1>5 DEF StopTrex, TrexExit, HardwareReset, Stopped
  <2> QED BY <2>1
<1>6. ASSUME NEW p \in Ports, TrafficEnds(p) \/ ExternalRelease(p)
      PROVE  starts' = starts /\ \E T \in SUBSET Ports : Stopped(T)
  <2>1. Stopped({p}) /\ starts' = starts
    BY <1>6 DEF TrafficEnds, ExternalRelease
  <2> QED BY <2>1
<1>7. ASSUME NEW p \in Ports, ExternalTraffic(p) PROVE Carrying
  BY <1>0, <1>7 DEF ExternalTraffic, Carrying
<1>8. CASE ~\/ StartTraffic \/ Command \/ RollbackTraffic \/ StopTrex \/ TrexExit
            \/ \E p \in Ports : TrafficEnds(p) \/ ExternalRelease(p) \/ ExternalTraffic(p)
  <2>1. CASE Begin \/ Snapshot \/ UNCHANGED vars
    BY <1>1, <2>1, BeginTask, SnapshotTask DEF vars
  <2>2. CASE \/ GuardPasses \/ GuardExpires \/ AdvanceStage \/ StageFails
             \/ Release \/ Verify \/ PromotionRefused \/ Retain
             \/ Promote \/ Clear \/ RetireAfterRollover \/ RetireAfterTermination \/ Reconcile
    <3>1. Release => starts' = starts
      BY DEF Release
    <3> QED BY <1>1, <2>2, <3>1, StageTask, ReleaseTask, VerifyTask, GivenUpTask, WriteTask
  <2>3. CASE \/ RecoverForeign \/ RecoverYields \/ RecoverUnsafe
             \/ RollBackStart \/ AdoptStart \/ ReplayStart \/ AbandonStart
             \/ RecoverUpdate \/ AdoptAction \/ ClearAction \/ RetryAction
    BY <1>1, <2>3, RecoverTask
  <2>4. CASE \/ Acquire \/ Preflight \/ RemoveStreams \/ AddProfile
             \/ Control \/ RestoreStreams \/ RestoreAcquisition
    <3>1. run' = run /\ by' = by /\ starts' = starts
      BY <2>4 DEF Acquire, Preflight, RemoveStreams, AddProfile, Control, RestoreStreams,
                  RestoreAcquisition
    <3> QED BY <1>1, <3>1
  <2>5. CASE Environment
    <3>1. run' = run /\ by' = by /\ starts' = starts
      BY <1>8, <2>5 DEF Environment, Crash, HandlerExpires, OperatorAcquires, OperatorReleases,
                        LeaseTick
    <3> QED BY <1>1, <3>1
  <2> QED BY <1>8, <2>1, <2>2, <2>3, <2>4, <2>5 DEF Next, Execute
<1> QED BY <1>2, <1>3, <1>4, <1>5, <1>6, <1>7, <1>8

\* A port with traffic of the API transmits.
LEMMA LiveKept ==
  ASSUME TypeOK, TrafficLive, [Next]_vars
  PROVE  TrafficLive'
<1>0. run \in [Ports -> LiveState] /\ by \in [Ports -> Nonce0]
  BY DEF TypeOK, ServerType
<1>1. CASE Starting
  BY <1>0, <1>1 DEF Starting, TrafficLive
<1>2. CASE Carrying
  BY <1>2 DEF Carrying, TrafficLive
<1>3. CASE \E T \in SUBSET Ports : Stopped(T)
  BY <1>0, <1>3 DEF Stopped, TrafficLive
<1> QED BY <1>1, <1>2, <1>3, ServerSteps

\* Traffic that goes on was there before the step.
LEMMA GoesOn ==
  ASSUME TypeOK, [Next]_vars, NEW p \in Ports, by'[p] # 0
  PROVE  \/ by'[p] = by[p]
         \/ Starting /\ p \in task.ports /\ by'[p] = intent.n /\ task.linked
<1>0. by \in [Ports -> Nonce0]
  BY DEF TypeOK, ServerType
<1>1. CASE Starting
  BY <1>0, <1>1 DEF Starting
<1>2. CASE Carrying
  BY <1>2 DEF Carrying
<1>3. CASE \E T \in SUBSET Ports : Stopped(T)
  BY <1>3 DEF Stopped
<1> QED BY <1>1, <1>2, <1>3, ServerSteps

\* The traffic of a group that the session does not record as stopped.
OfGroup(p) == by[p] \in session.groups /\ p \in runs[by[p]].ports /\ runs[by[p]].st[p] # "stopped"

\* A promotion accounts for the traffic of its start, and writes off none.
LEMMA PromotionRecords ==
  ASSUME TypeOK, OperationPending, TaskFits, GroupsDrawn, GroupsClosed, TrafficRecorded,
         EndsQuiet, Promoting, NEW p \in Ports, by[p] # 0
  PROVE  by[p] \in session'.groups /\ p \in runs'[by[p]].ports /\ runs'[by[p]].st[p] # "stopped"
<1>0. /\ intent.n \in Nonce /\ session.groups \subseteq Nonce /\ intent \in Intent
      /\ session \in Session /\ runs \in [Nonce -> Run]
      /\ \A n \in Nonce : runs[n] \in Run /\ runs[n].ports \in SUBSET Ports
                          /\ runs[n].st \in [Ports -> PortState]
  <2>1. /\ intent \in Intent /\ session \in Session /\ runs \in [Nonce -> Run]
        /\ intent.n # 0
    BY DEF OperationPending, Promoting, TypeOK, DiskType
  <2>2. intent.n \in Nonce
    BY <2>1, BoundsAssumption DEF Intent, Nonce, Nonce0
  <2>3. session.groups \subseteq Nonce
    BY <2>1 DEF Session
  <2>4. \A n \in Nonce : runs[n] \in Run /\ runs[n].ports \in SUBSET Ports
                          /\ runs[n].st \in [Ports -> PortState]
    BY <2>1 DEF Run
  <2> QED BY <2>1, <2>2, <2>3, <2>4
<1>1. CASE intent.op = "start"
  <2>0. /\ session' = StartedSession(intent) /\ runs' = StartedRuns(intent)
        /\ StartPromotable(intent)
    BY <1>1 DEF Promoting, PromotedSession, PromotedRuns, Promotable
  <2>1. CASE by[p] = intent.n /\ p \in intent.ports
    BY <1>0, <2>0, <2>1, StartedFields
  <2>2. CASE OfGroup(p)
    <3>1. by[p] \in Nonce /\ by[p] # intent.n
      BY <1>0, <2>2 DEF OfGroup, GroupsDrawn
    <3>2. ~AllStopped(runs[by[p]])
      BY <2>2 DEF OfGroup, AllStopped
    <3>3. intent.expected # 0
      BY <1>0, <2>0, <2>2, <3>2, SessionStopped DEF StartPromotable, OfGroup
    <3>4. by[p] \notin Replaced
      <4>1. GroupState(runs[by[p]]) # "stopped"
        BY <1>0, <3>1, <3>2, GroupStopped
      <4> QED BY <2>0, <3>3, <4>1 DEF StartPromotable, Replaced
    <3> QED BY <1>0, <2>0, <2>2, <3>1, <3>3, <3>4, StartedFields DEF OfGroup
  <2> QED BY <2>1, <2>2 DEF TrafficRecorded, OfGroup
<1>2. CASE intent.op # "start"
  <2>0. session'.groups = session.groups /\ runs' = MutatedRuns(intent)
    BY <1>2, MutatedDocument DEF Promoting, PromotedSession, PromotedRuns
  <2>1. OfGroup(p) /\ by[p] \in Nonce
    BY <1>0, <1>2 DEF TrafficRecorded, OfGroup
  <2>2. CASE intent.op = "update"
    BY <2>0, <2>1, <2>2, MutatedDocument DEF OfGroup
  <2>3. CASE intent.op # "update"
    <3>1. runs'[by[p]] = MutatedRun(intent, runs[by[p]])
      BY <2>0, <2>1, <2>3, MutatedDocument DEF OfGroup
    <3>2. p \in intent.ports => Desired(intent, p) # "stopped"
      <4>1. CASE intent.op = "stop"
        <5>1. StopDone
          BY <1>2 DEF StopDone, Promoting, TaskFits, TypeOK, MemoryType, Task
        <5> QED BY <4>1, <5>1 DEF EndsQuiet
      <4>2. CASE intent.op # "stop"
        <5>1. intent.op \in {"pause", "resume"}
          BY <1>0, <1>2, <2>3, <4>2 DEF Intent, Operation
        <5> QED BY <5>1 DEF Desired
      <4> QED BY <4>1, <4>2
    <3> QED BY <1>0, <2>0, <2>1, <3>1, <3>2, MutatedFields DEF OfGroup
  <2> QED BY <2>2, <2>3
<1> QED BY <1>1, <1>2

\* A reconciliation writes off no traffic, as its sample showed it.
LEMMA ReconciliationRecords ==
  ASSUME TypeOK, TaskFits, GroupsClosed, SampleHolds, Reconciling,
         NEW p \in Ports, by[p] # 0, OfGroup(p)
  PROVE  p \in runs'[by[p]].ports /\ runs'[by[p]].st[p] # "stopped"
<1>0. /\ session.groups \subseteq Nonce /\ \A n \in Nonce : runs[n] \in Run
  BY DEF TypeOK, DiskType, Session
<1>1. PICK vouches \in BOOLEAN :
        runs' = [n \in Nonce |-> IF n \in session.groups
                                 THEN ReconciledRun(runs[n], vouches) ELSE runs[n]]
  BY DEF Reconciling
<1>2. runs'[by[p]] = ReconciledRun(runs[by[p]], vouches) /\ runs[by[p]] \in Run
  BY <1>0, <1>1 DEF OfGroup
<1>3. task.live[p] # "stopped"
  BY DEF SampleHolds, Fresh, Reconciling, TaskFits
<1>4. runs[by[p]].done = "none" /\ p \in runs[by[p]].ports
  BY <1>0 DEF OfGroup, GroupsClosed, AllStopped
<1> QED BY <1>2, <1>3, <1>4, ReconciledFields

\* All traffic of the API stays accounted for.
LEMMA RecordedKept ==
  ASSUME TypeOK, OperationPending, StartInv, LedgerInv, [Next]_vars
  PROVE  TrafficRecorded'
<1> USE DEF LedgerInv
<1> SUFFICES ASSUME NEW p \in Ports, by'[p] # 0
             PROVE  \/ by'[p] \in session'.groups /\ p \in runs'[by'[p]].ports
                       /\ runs'[by'[p]].st[p] # "stopped"
                    \/ by'[p] = intent'.n /\ intent'.op = "start" /\ p \in intent'.ports
  BY DEF TrafficRecorded
<1>1. CASE Starting /\ p \in task.ports /\ by'[p] = intent.n
  BY <1>1 DEF Starting, TaskFits, StartPath, Sending
<1>2. CASE by'[p] = by[p]
  <2>0. \/ OfGroup(p)
        \/ by[p] = intent.n /\ intent.op = "start" /\ p \in intent.ports
    BY <1>2 DEF TrafficRecorded, OfGroup
  <2>1. CASE SameDocuments /\ SameIntent
    BY <1>2, <2>0, <2>1 DEF SameDocuments, SameIntent, OfGroup
  <2>2. CASE SameDocuments /\ Begin
    BY <1>2, <2>0, <2>2, BeginTask DEF SameDocuments, OfGroup
  <2>3. CASE Promoting
    BY <1>2, <2>3, PromotionRecords
  <2>4. CASE Clearing
    BY <1>2, <2>0, <2>4 DEF Clearing, SameDocuments, OfGroup, EndsQuiet
  <2>5. CASE Reconciling
    BY <1>2, <2>0, <2>5, ReconciliationRecords DEF Reconciling, OfGroup
  <2>6. CASE Closing
    <3>1. CASE task.pc = "retire"
      BY <1>2, <3>1 DEF EndsQuiet
    <3>2. CASE task.pc = "rollover"
      <4>1. /\ Supervisor = "systemd" /\ intent.auth # authority
            /\ by[p] = intent.n => intent.auth = authority
            /\ by[p] \in session.groups => session.auth = authority
        BY <1>2, <3>2 DEF TaskAuthority, TrafficAuthority, TypeOK, ServerType, DiskType, Intent
      <4> QED BY <1>2, <2>0, <2>6, <3>2, <4>1 DEF Closing, OfGroup
    <3> QED BY <2>6, <3>1, <3>2 DEF Closing
  <2>7. CASE Ticking
    <3>1. PICK m \in session.groups : runs' = [runs EXCEPT ![m].lease = Later(@)]
      BY <2>7 DEF Ticking
    <3>2. \A n \in Nonce : runs'[n].ports = runs[n].ports /\ runs'[n].st = runs[n].st
      BY <3>1 DEF TypeOK, DiskType, Run
    <3> QED BY <1>2, <2>0, <2>7, <3>2
            DEF Ticking, OfGroup, SameIntent, TypeOK, DiskType, Session
  <2> QED BY <2>1, <2>2, <2>3, <2>4, <2>5, <2>6, <2>7, Documents
<1> QED BY <1>1, <1>2, GoesOn

-----------------------------------------------------------------------------
(* What an operation relies on *)

\* A step other than the start RPC keeps the sample that it relies on afterwards, or takes it.
LEMMA SampleSteps ==
  ASSUME TypeOK, OperationPending, TaskFits, [Next]_vars, ~Starting, Fresh'
  PROVE  \/ Fresh /\ task'.live = task.live
         \/ task'.live = run /\ by' = by
<1> USE DEF StartPath, Sending, Controlling, Hooks
<1>0. task.mode \in {"direct", "recovery"} /\ task.goal \in Goal /\ intent.op \in Operation
      /\ task \in Task
  BY DEF TypeOK, MemoryType, DiskType, Task, Intent
<1>1. Idle.mode = "direct" /\ task'.mode = "recovery"
  BY DEF Idle, Fresh
<1>2. CASE Begin
  <2>1. task' = Idle \/ task'.mode = "direct"
    <3>1. ASSUME task' # Idle
          PROVE  task' = [Idle EXCEPT !.pc = IF intent'.op = "start" THEN "acquire_intent"
                                             ELSE "guard",
                                      !.ports = intent'.ports]
      BY <1>2, <3>1, BeginTask
    <3> QED BY <3>1 DEF Idle
  <2> QED BY <1>1, <2>1
<1>3. CASE Snapshot
  BY <1>3, SnapshotTask DEF server
<1>4. CASE StopTrex \/ Environment
  <2>1. CASE SameLocals(task', task) /\ task.pc = "idle" /\ task'.pc = "retire"
    BY <1>1, <2>1 DEF TaskFits, SameLocals
  <2>2. CASE task' = task \/ task' = [task EXCEPT !.linked = FALSE]
    <3>1. /\ task'.mode = task.mode /\ task'.goal = task.goal
          /\ task'.pc = task.pc /\ task'.live = task.live
      BY <1>0, <2>2 DEF Task
    <3> QED BY <1>4, <3>1, EnvironmentTask DEF Fresh, SameIntent
  <2> QED BY <1>1, <1>4, <2>1, <2>2, EnvironmentTask
<1>5. CASE GuardPasses \/ GuardExpires \/ AdvanceStage \/ StageFails
  <2>1. AfterHook \in {"acquire", "preflight", "remove", "profile_add_intent", "add",
                       "start_intent", "start", "release"}
        \/ task.pc \notin Hooks
    BY DEF AfterHook
  <2> QED BY <1>5, <2>1, StageTask DEF Fresh, TaskFits, SameIntent, SameLocals
<1>6. CASE Acquire \/ Preflight \/ RemoveStreams \/ AddProfile \/ StartTraffic \/ Command
  BY <1>6, RpcTask DEF Fresh, SameLocals
<1>7. CASE Release
  BY <1>0, <1>7, ReleaseTask DEF Fresh, TaskFits
<1>8. CASE Control \/ RollbackTraffic \/ RestoreStreams \/ RestoreAcquisition
  <2>1. \/ task.goal \in {"rollback", "verify"} /\ AfterControl = "verify"
        \/ task.goal = "normalize" /\ AfterControl = "acquire_intent"
        \/ task.goal = "promote" /\ AfterControl = "promote"
        \/ task.goal = "clear" /\ AfterControl = "clear"
        \/ task.goal \in {"none", "retain"} /\ AfterControl = "unresolved"
    BY <1>0 DEF AfterControl, Goal
  <2>2. CASE task.pc = "restore" /\ task'.pc = AfterControl
    <3>1. intent.n # 0
      BY <2>2 DEF OperationPending
    <3> QED BY <1>8, <2>1, <2>2, <3>1, ControlTask DEF Fresh, TaskFits, SameLocals
  <2>3. CASE ~(task.pc = "restore" /\ task'.pc = AfterControl)
    BY <1>8, <2>3, ControlTask DEF Fresh, SameLocals
  <2> QED BY <2>2, <2>3
<1>9. CASE Verify
  BY <1>9, VerifyTask DEF Fresh, server
<1>10. CASE PromotionRefused \/ Retain
  BY <1>1, <1>10, GivenUpTask DEF SameLocals
<1>11. CASE Promote \/ Clear \/ RetireAfterRollover \/ RetireAfterTermination \/ Reconcile
  BY <1>1, <1>11, WriteTask DEF Fresh, SameLocals
<1>12. CASE \/ RecoverForeign \/ RecoverYields \/ RecoverUnsafe
            \/ RollBackStart \/ AdoptStart \/ ReplayStart \/ AbandonStart
            \/ RecoverUpdate \/ AdoptAction \/ ClearAction \/ RetryAction
  <2>1. task'.mode = task.mode /\ task'.live = task.live /\ task.pc = "recover"
    BY <1>1, <1>12, RecoverTask DEF SameLocals
  <2> QED BY <1>1, <2>1 DEF Fresh
<1>13. CASE UNCHANGED vars
  BY <1>13 DEF vars, disk, memory, Fresh
<1> QED BY <1>2, <1>3, <1>4, <1>5, <1>6, <1>7, <1>8, <1>9, <1>10, <1>11, <1>12, <1>13
        DEF Next, Execute

\* A port that the sample shows stopped has no traffic of the API.
LEMMA SampleKept ==
  ASSUME TypeOK, OperationPending, TaskFits, TrafficLive, SampleHolds, [Next]_vars
  PROVE  SampleHolds'
<1>1. CASE Starting
  BY <1>1 DEF Starting, SampleHolds, Fresh, TaskFits, StartPath, Sending, SameLocals
<1>2. CASE ~Starting
  <2> SUFFICES ASSUME Fresh', NEW p \in Ports, task'.live[p] = "stopped", by'[p] # 0 PROVE FALSE
    BY DEF SampleHolds
  <2>1. by'[p] = by[p]
    BY <1>2, GoesOn
  <2> QED BY <1>2, <2>1, SampleSteps DEF SampleHolds, TrafficLive
<1> QED BY <1>1, <1>2

\* An operation stays linked to the TRex process of its sample and its intent, or to none.
LEMMA TaskAuthorityKept ==
  ASSUME TypeOK, TypeOK', TaskFits, TaskAuthority, [Next]_vars
  PROVE  TaskAuthority'
<1> USE DEF StartPath, Sending, Controlling, Hooks
<1>0. /\ task.mode \in {"direct", "recovery"} /\ task.goal \in Goal /\ task \in Task
      /\ authority \in Nat /\ authority' \in Nat /\ intent.auth \in Nat /\ task.auth \in Nat
  BY DEF TypeOK, MemoryType, DiskType, ServerType, Task, Intent
<1>1. NoIntent.auth = 0 /\ Idle.mode = "direct" /\ Idle.pc = "idle"
  BY DEF NoIntent, Idle
<1>2. ASSUME task' = Idle, authority' >= authority, SameIntent \/ intent' = NoIntent
      PROVE  TaskAuthority'
  BY <1>0, <1>1, <1>2 DEF TaskAuthority, SameIntent
<1>3. CASE Begin
  <2>1. CASE task' = Idle
    BY <1>0, <1>1, <1>3, <2>1, BeginTask DEF TaskAuthority
  <2>2. CASE task' # Idle
    <3>1. /\ task' = [Idle EXCEPT !.pc = IF intent'.op = "start" THEN "acquire_intent" ELSE "guard",
                                  !.ports = intent'.ports]
          /\ intent'.auth = authority /\ authority' = authority
      BY <1>3, <2>2, BeginTask
    <3>2. task'.mode = "direct" /\ task'.pc \in {"acquire_intent", "guard"}
      BY <3>1 DEF Idle
    <3> QED BY <1>0, <3>1, <3>2 DEF TaskAuthority
  <2> QED BY <2>1, <2>2
<1>4. CASE Snapshot
  BY <1>0, <1>4, SnapshotTask DEF TaskAuthority
<1>5. CASE StopTrex \/ Environment
  <2>0. SameIntent
    BY <1>5, EnvironmentTask
  <2>1. CASE task' = Idle
    <3>1. authority' >= authority
      BY <1>0, <1>1, <1>5, <2>1, EnvironmentTask
    <3> QED BY <1>2, <2>0, <2>1, <3>1
  <2>2. CASE SameLocals(task', task) /\ task'.pc = "retire" /\ task.pc = "idle" /\ authority' = authority
    BY <2>0, <2>2 DEF TaskAuthority, TaskFits, SameLocals, SameIntent
  <2>3. CASE authority' \in {authority, authority + 1} /\ task' = task /\ task.pc = "idle"
    BY <1>0, <2>0, <2>3 DEF TaskAuthority, TaskFits, SameIntent
  <2>4. CASE authority' \in {authority, authority + 1} /\ task' = [task EXCEPT !.linked = FALSE]
    <3>1. /\ task'.mode = task.mode /\ task'.pc = task.pc /\ task'.auth = task.auth
          /\ ~task'.linked
      BY <1>0, <2>4 DEF Task
    <3> QED BY <1>0, <2>0, <2>4, <3>1 DEF TaskAuthority, SameIntent
  <2>5. CASE task' = task /\ authority' = authority
    BY <2>0, <2>5 DEF TaskAuthority, SameIntent
  <2> QED BY <1>5, <2>1, <2>2, <2>3, <2>4, <2>5, EnvironmentTask
<1>6. CASE GuardPasses \/ GuardExpires \/ AdvanceStage \/ StageFails
  <2>1. AfterHook \in {"acquire", "preflight", "remove", "profile_add_intent", "add",
                       "start_intent", "start", "release"}
        \/ task.pc \notin Hooks
    BY DEF AfterHook
  <2> QED BY <1>6, <2>1, StageTask DEF TaskAuthority, SameIntent, SameLocals
<1>7. CASE Acquire \/ Preflight \/ RemoveStreams \/ AddProfile \/ StartTraffic \/ Command
  BY <1>7, RpcTask DEF TaskAuthority, SameLocals
<1>8. CASE Release
  BY <1>8, ReleaseTask DEF TaskAuthority
<1>9. CASE Control \/ RollbackTraffic \/ RestoreStreams \/ RestoreAcquisition
  <2>1. AfterControl \in {"verify", "acquire_intent", "promote", "clear", "unresolved"}
    BY <1>0 DEF AfterControl, Goal
  <2> QED BY <1>9, <2>1, ControlTask DEF TaskAuthority, SameLocals
<1>10. CASE Verify
  BY <1>10, VerifyTask DEF TaskAuthority
<1>11. CASE PromotionRefused \/ Retain
  BY <1>0, <1>2, <1>11, GivenUpTask DEF TaskAuthority, SameLocals, SameIntent, server
<1>12. CASE Promote \/ Clear \/ RetireAfterRollover \/ RetireAfterTermination \/ Reconcile
  <2>1. authority' = authority /\ (SameIntent \/ intent' = NoIntent)
    BY <1>12, WriteTask, ReconcileTask, IntentFields
  <2>2. CASE task' = Idle
    BY <1>0, <1>2, <2>1, <2>2
  <2>3. CASE task' # Idle
    BY <1>0, <1>1, <1>12, <2>1, <2>3, WriteTask DEF TaskAuthority, SameLocals, SameIntent
  <2> QED BY <2>2, <2>3
<1>13. CASE \/ RecoverForeign \/ RecoverYields \/ RecoverUnsafe
            \/ RollBackStart \/ AdoptStart \/ ReplayStart \/ AbandonStart
            \/ RecoverUpdate \/ AdoptAction \/ ClearAction \/ RetryAction
  <2>1. intent' = intent /\ authority' = authority /\ task.pc = "recover"
    BY <1>13, RecoverTask
  <2>2. CASE task' = Idle
    BY <1>0, <1>2, <2>1, <2>2, IntentFields
  <2>3. CASE task' # Idle
    <3>1. task.mode = "recovery"
      BY <2>1 DEF TaskFits
    <3> QED BY <1>0, <1>13, <2>1, <2>3, <3>1, RecoverTask DEF TaskAuthority, SameLocals
  <2> QED BY <2>2, <2>3
<1>14. CASE UNCHANGED vars
  BY <1>14 DEF vars, disk, memory, TaskAuthority
<1> QED BY <1>3, <1>4, <1>5, <1>6, <1>7, <1>8, <1>9, <1>10, <1>11, <1>12, <1>13, <1>14
        DEF Next, Execute

\* Traffic starts under the authority of its intent, and none of it outlives a generation.
LEMMA TrafficAuthorityKept ==
  ASSUME TypeOK, TypeOK', OperationPending, TaskFits, GroupsDrawn, TrafficRecorded,
         TaskAuthority, TrafficAuthority, [Next]_vars
  PROVE  TrafficAuthority'
<1> SUFFICES ASSUME Supervisor = "systemd", NEW p \in Ports, by'[p] # 0
             PROVE  /\ by'[p] = intent'.n => intent'.auth = authority'
                    /\ by'[p] \in session'.groups => session'.auth = authority'
  BY DEF TrafficAuthority
<1>0. NoIntent.n = 0
  BY DEF NoIntent
<1>1. CASE Starting /\ p \in task.ports /\ by'[p] = intent.n /\ task.linked
  <2>1. intent.auth = authority
    BY <1>1 DEF TaskAuthority, Starting, Sending, StartPath
  <2> QED BY <1>1, <2>1 DEF Starting, SameDocuments, GroupsDrawn
<1>2. CASE by'[p] = by[p]
  <2>0. /\ by[p] = intent.n => intent.auth = authority
        /\ by[p] \in session.groups => session.auth = authority
    BY <1>2 DEF TrafficAuthority
  <2>1. authority' = authority
    <3>1. CASE StopTrex \/ Environment
      BY <1>2, <3>1, EnvironmentTask
    <3> QED BY <3>1, BeginTask, SnapshotTask, StageTask, RpcTask, ReleaseTask, ControlTask,
               VerifyTask, GivenUpTask, RecoverTask, WriteTask DEF Next, Execute, vars
  <2>2. CASE SameDocuments /\ SameIntent
    BY <1>2, <2>0, <2>1, <2>2 DEF SameDocuments, SameIntent
  <2>3. CASE SameDocuments /\ Begin
    <3>1. by[p] \in session.groups
      BY <1>2, <2>3, BeginTask DEF TrafficRecorded
    <3>2. by[p] <= nonce /\ nonce \in Nat /\ intent'.n = nonce + 1
      BY <2>3, <3>1, BeginTask DEF GroupsDrawn
    <3>3. by[p] # intent'.n
      BY <3>2 DEF TypeOK, ServerType, Nonce0
    <3> QED BY <1>2, <2>0, <2>1, <2>3, <3>3 DEF SameDocuments
  <2>4. CASE Promoting
    <3>0. intent.n \in Nonce
      BY <2>4, BoundsAssumption DEF OperationPending, Promoting, TypeOK, DiskType, Intent,
                                    Nonce, Nonce0
    <3>1. CASE intent.op = "start"
      <4>1. /\ session' = StartedSession(intent) /\ StartPromotable(intent) /\ intent' = NoIntent
        BY <2>4, <3>1 DEF Promoting, PromotedSession, Promotable
      <4> QED BY <1>0, <1>2, <2>0, <2>1, <3>0, <4>1, StartedFields DEF StartPromotable
    <3>2. CASE intent.op # "start"
      BY <1>0, <1>2, <2>0, <2>1, <2>4, <3>2, MutatedDocument DEF Promoting, PromotedSession
    <3> QED BY <3>1, <3>2
  <2>5. CASE Clearing \/ Reconciling \/ Closing \/ Ticking
    <3>1. session' = session /\ (SameIntent \/ intent' = NoIntent)
      BY <2>5, IntentFields DEF Clearing, Reconciling, Closing, Ticking, SameDocuments
    <3> QED BY <1>0, <1>2, <2>0, <2>1, <3>1 DEF SameIntent
  <2> QED BY <2>2, <2>3, <2>4, <2>5, Documents
<1> QED BY <1>1, <1>2, GoesOn

\* What a stop or a rollback did before its end is written.
LEMMA StopEffects ==
  ASSUME TypeOK, OperationPending, LedgerInv, [Next]_vars, intent'.op = "stop", SameIntent,
         StopDone', ~StopDone, NEW p \in intent.ports
  PROVE  by'[p] = 0
<1> USE DEF StartPath, Sending, Controlling, Hooks, StopDone, LedgerInv
<1>0. /\ task.mode \in {"direct", "recovery"} /\ task.goal \in Goal /\ task \in Task
      /\ intent.ports \subseteq Ports /\ intent.op = "stop"
  BY DEF TypeOK, MemoryType, DiskType, Task, Intent, SameIntent
<1>1. Idle.mode = "direct" /\ Idle.pc = "idle"
  BY DEF Idle
<1>2. task' # Idle
  BY <1>1
<1>3. CASE Begin
  <2>1. task' = [Idle EXCEPT !.pc = IF intent'.op = "start" THEN "acquire_intent" ELSE "guard",
                             !.ports = intent'.ports]
    BY <1>2, <1>3, BeginTask
  <2>2. task'.mode = "direct" /\ task'.pc \in {"acquire_intent", "guard"}
    BY <2>1 DEF Idle
  <2> QED BY <2>2
<1>4. CASE Snapshot
  BY <1>4, SnapshotTask
<1>5. CASE StopTrex \/ Environment
  <2>1. CASE task' = task \/ task' = [task EXCEPT !.linked = FALSE]
    BY <1>0, <2>1 DEF Task
  <2> QED BY <1>2, <1>5, <2>1, EnvironmentTask DEF TaskFits, SameLocals
<1>6. CASE GuardPasses \/ GuardExpires \/ AdvanceStage \/ StageFails
  BY <1>0, <1>6, StageTask DEF TaskFits, SameLocals
<1>7. CASE Acquire \/ Preflight \/ RemoveStreams \/ AddProfile \/ StartTraffic
  <2>1. task.pc # "command"
    BY <1>7 DEF Acquire, Preflight, RemoveStreams, AddProfile, StartTraffic
  <2> QED BY <1>0, <1>7, <2>1, RpcTask DEF TaskFits, SameLocals
<1>8. CASE Command
  <2>1. PICK o \in Outcomes(task.ports) :
          /\ Stopped(o.done) /\ task' = [task EXCEPT !.pc = "release", !.ok = o.ok]
    BY <1>0, <1>8 DEF Command
  <2>2. /\ task'.ok = o.ok /\ task'.mode = task.mode /\ task'.goal = task.goal
        /\ task'.pc = "release" /\ task.pc = "command"
    BY <1>0, <1>8, <2>1 DEF Task, Command
  <2>3. o.ok => o.done = task.ports
    BY DEF Outcomes
  <2>4. task.mode = "direct" /\ o.ok
    <3>1. o.ok \in BOOLEAN
      BY DEF Outcomes
    <3>2. task'.mode = "direct" /\ task'.ok
      BY <2>2
    <3> QED BY <2>2, <3>1, <3>2
  <2>5. task.ports = intent.ports
    BY <2>2, <2>4 DEF TaskFits
  <2> QED BY <1>0, <2>1, <2>3, <2>4, <2>5 DEF Stopped
<1>9. CASE Release
  BY <1>0, <1>9, ReleaseTask DEF TaskFits
<1>10. CASE Control \/ RollbackTraffic \/ RestoreStreams \/ RestoreAcquisition
  <2>1. task.mode = "recovery"
    BY <1>10 DEF TaskFits, Control, RollbackTraffic, RestoreStreams, RestoreAcquisition
  <2> QED BY <1>10, <2>1, ControlTask DEF SameLocals
<1>11. CASE Verify
  <2>1. task.goal = "none" /\ task'.live = run /\ by' = by
    BY <1>0, <1>11, VerifyTask DEF TaskFits, server
  <2>2. run[p] = Desired(intent, p)
    BY <1>0, <1>11, <2>1, VerifyTask DEF StopDone
  <2> QED BY <1>0, <2>1, <2>2 DEF Desired, TrafficLive
<1>12. CASE PromotionRefused \/ Retain
  BY <1>2, <1>12, GivenUpTask DEF SameLocals
<1>13. CASE Promote \/ Clear \/ RetireAfterRollover \/ RetireAfterTermination \/ Reconcile
  <2>1. NoIntent.op # "stop"
    BY DEF NoIntent
  <2> QED BY <1>2, <1>13, <2>1, WriteTask DEF SameLocals
<1>14. CASE \/ RecoverForeign \/ RecoverYields \/ RecoverUnsafe
            \/ RollBackStart \/ AdoptStart \/ ReplayStart \/ AbandonStart
            \/ RecoverUpdate \/ AdoptAction \/ ClearAction \/ RetryAction
  <2>1. task.mode = "recovery" /\ task.pc = "recover" /\ task.goal = "none" /\ by' = by
    BY <1>14, RecoverTask DEF TaskFits, server
  <2>2. AtGoal
    BY <1>0, <1>2, <1>14, <2>1, RecoverTask DEF SameLocals
  <2>3. task.live[p] = "stopped"
    BY <1>0, <2>2 DEF AtGoal, Desired
  <2> QED BY <1>0, <2>1, <2>3 DEF SampleHolds, Fresh
<1>15. CASE UNCHANGED vars
  BY <1>15 DEF vars, memory
<1> QED BY <1>3, <1>4, <1>5, <1>6, <1>7, <1>8, <1>9, <1>10, <1>11, <1>12, <1>13, <1>14, <1>15
        DEF Next, Execute

\* A step of a rollback that goes on to clear the intent leaves no traffic of its start.
LEMMA RollbackEffects ==
  ASSUME TypeOK, OperationPending, LedgerInv, [Next]_vars, SameIntent,
         intent.op = "start", task'.pc = "clear", task.pc # "clear", NEW p \in Ports
  PROVE  by[p] # intent.n /\ by' = by
<1> USE DEF StartPath, Sending, Controlling, Hooks, LedgerInv
<1>0. /\ task.mode \in {"direct", "recovery"} /\ task.goal \in Goal /\ task \in Task
  BY DEF TypeOK, MemoryType, DiskType, Task, Intent, SameIntent
<1>1. Idle.pc = "idle"
  BY DEF Idle
<1>2. task' # Idle
  BY <1>1
<1>3. CASE Verify
  <2>1. task.goal = "rollback" /\ by' = by /\ \A q \in Ports : run[q] = intent.base[q]
    <3>1. task.pc = "verify"
      BY <1>3, VerifyTask
    <3> QED BY <1>0, <1>3, <3>1, VerifyTask DEF TaskFits, server
  <2>2. intent.n # 0
    BY <1>3 DEF OperationPending, Verify
  <2>3. ASSUME by[p] = intent.n PROVE FALSE
    <3>1. p \in intent.ports
      BY <2>2, <2>3 DEF TrafficRecorded, GroupsDrawn
    <3>2. run[p] = "stopped"
      BY <2>1, <3>1 DEF GroupsDrawn
    <3> QED BY <2>2, <2>3, <3>2 DEF TrafficLive
  <2> QED BY <2>1, <2>3
<1>4. CASE Begin
  <2>1. task' = [Idle EXCEPT !.pc = IF intent'.op = "start" THEN "acquire_intent" ELSE "guard",
                             !.ports = intent'.ports]
    BY <1>2, <1>4, BeginTask
  <2> QED BY <2>1 DEF Idle
<1>5. CASE Snapshot
  BY <1>5, SnapshotTask
<1>6. CASE StopTrex \/ Environment
  <2>1. CASE task' = task \/ task' = [task EXCEPT !.linked = FALSE]
    BY <1>0, <2>1 DEF Task
  <2> QED BY <1>2, <1>6, <2>1, EnvironmentTask
<1>7. CASE GuardPasses \/ GuardExpires \/ AdvanceStage \/ StageFails
  <2>1. AfterHook # "clear" \/ task.pc \notin Hooks
    BY DEF AfterHook
  <2> QED BY <1>7, <2>1, StageTask DEF TaskFits
<1>8. CASE Acquire \/ Preflight \/ RemoveStreams \/ AddProfile \/ StartTraffic \/ Command
  BY <1>8, RpcTask
<1>9. CASE Release
  BY <1>9, ReleaseTask
<1>10. CASE Control \/ RollbackTraffic \/ RestoreStreams \/ RestoreAcquisition
  <2>1. task.pc = "restore" /\ AfterControl = "clear"
    BY <1>10, ControlTask
  <2>2. task.goal = "clear" /\ intent.n # 0
    BY <1>0, <2>1 DEF AfterControl, Goal, OperationPending
  <2> QED BY <2>2 DEF TaskFits
<1>11. CASE PromotionRefused \/ Retain
  BY <1>2, <1>11, GivenUpTask
<1>12. CASE Promote \/ Clear \/ RetireAfterRollover \/ RetireAfterTermination \/ Reconcile
  BY <1>2, <1>12, WriteTask
<1>13. CASE \/ RecoverForeign \/ RecoverYields \/ RecoverUnsafe
            \/ RollBackStart \/ AdoptStart \/ ReplayStart \/ AbandonStart
            \/ RecoverUpdate \/ AdoptAction \/ ClearAction \/ RetryAction
  BY <1>2, <1>13, RecoverTask
<1>14. CASE UNCHANGED vars
  BY <1>14 DEF vars, memory
<1> QED BY <1>3, <1>4, <1>5, <1>6, <1>7, <1>8, <1>9, <1>10, <1>11, <1>12, <1>13, <1>14
        DEF Next, Execute

\* Only the API's own stop of TRex retires the intent and the session with it.
LEMMA Retiring ==
  ASSUME TypeOK, [Next]_vars, task'.pc = "retire"
  PROVE  StopTrex \/ task.pc = "retire"
<1>0. task.goal \in Goal /\ task \in Task
  BY DEF TypeOK, MemoryType, Task
<1>1. task' # Idle
  BY DEF Idle
<1>2. CASE Begin
  <2>1. task' = [Idle EXCEPT !.pc = IF intent'.op = "start" THEN "acquire_intent" ELSE "guard",
                             !.ports = intent'.ports]
    BY <1>1, <1>2, BeginTask
  <2> QED BY <2>1 DEF Idle
<1>3. CASE Environment
  <2>1. CASE task' = task \/ task' = [task EXCEPT !.linked = FALSE]
    BY <1>0, <2>1 DEF Task
  <2>2. task' = Idle \/ task' = task \/ task' = [task EXCEPT !.linked = FALSE]
    BY <1>3 DEF Environment, Crash, TrexExit, TrafficEnds, HandlerExpires, ExternalTraffic,
                ExternalRelease, OperatorAcquires, OperatorReleases, LeaseTick, memory
  <2> QED BY <1>1, <2>1, <2>2
<1>4. CASE GuardPasses \/ GuardExpires \/ AdvanceStage \/ StageFails
  <2>1. AfterHook # "retire" \/ task.pc \notin Hooks
    BY DEF AfterHook, Hooks
  <2> QED BY <1>4, <2>1, StageTask
<1>5. CASE Control \/ RollbackTraffic \/ RestoreStreams \/ RestoreAcquisition
  <2>1. AfterControl # "retire"
    BY <1>0 DEF AfterControl, Goal
  <2> QED BY <1>5, <2>1, ControlTask
<1>6. CASE \/ Acquire \/ Preflight \/ RemoveStreams \/ AddProfile \/ StartTraffic \/ Command
           \/ Release \/ Snapshot \/ Verify
  BY <1>6, RpcTask, ReleaseTask, SnapshotTask, VerifyTask
<1>7. CASE \/ PromotionRefused \/ Retain
           \/ Promote \/ Clear \/ RetireAfterRollover \/ RetireAfterTermination \/ Reconcile
  BY <1>1, <1>7, GivenUpTask, WriteTask
<1>8. CASE \/ RecoverForeign \/ RecoverYields \/ RecoverUnsafe
           \/ RollBackStart \/ AdoptStart \/ ReplayStart \/ AbandonStart
           \/ RecoverUpdate \/ AdoptAction \/ ClearAction \/ RetryAction
  BY <1>1, <1>8, RecoverTask
<1>9. CASE UNCHANGED vars
  BY <1>9 DEF vars, memory
<1> QED BY <1>2, <1>3, <1>4, <1>5, <1>6, <1>7, <1>8, <1>9 DEF Next, Execute

\* What is written down as over transmits no more.
LEMMA QuietKept ==
  ASSUME TypeOK, OperationPending, LedgerInv, [Next]_vars
  PROVE  EndsQuiet'
<1>0. /\ NoIntent.op = "start" /\ NoIntent.n = 0 /\ intent.ports \subseteq Ports
      /\ task.mode \in {"direct", "recovery"}
  BY DEF NoIntent, TypeOK, DiskType, Intent, MemoryType, Task
<1>1. CASE Starting
  <2>1. task.goal \in {"none", "normalize"} /\ intent.op = "start"
    BY <1>1 DEF Starting, LedgerInv, TaskFits, StartPath, Sending
  <2> QED BY <1>1, <2>1 DEF Starting, EndsQuiet
<1>2. CASE ~Starting
  <2>1. ASSUME NEW p \in Ports, by[p] = 0 PROVE by'[p] = 0
    BY <1>2, <2>1, GoesOn
  <2>2. ASSUME NEW p \in Ports, by'[p] # 0 PROVE by'[p] = by[p]
    BY <1>2, <2>2, GoesOn
  <2>3. SameIntent \/ Begin \/ intent' = NoIntent
    BY Documents, IntentFields DEF Promoting, Clearing, Reconciling, Closing, Ticking
  <2>4. ASSUME Begin PROVE task'.pc \in {"idle", "acquire_intent", "guard"} /\ task'.mode = "direct"
    <3>1. CASE task' = Idle
      BY <3>1 DEF Idle
    <3>2. CASE task' # Idle
      <4>1. task' = [Idle EXCEPT !.pc = IF intent'.op = "start" THEN "acquire_intent" ELSE "guard",
                                 !.ports = intent'.ports]
        BY <2>4, <3>2, BeginTask
      <4> QED BY <4>1 DEF Idle
    <3> QED BY <3>1, <3>2
  <2>5. ASSUME task'.pc = "retire", NEW p \in Ports PROVE by'[p] = 0
    <3>1. CASE StopTrex
      BY <3>1 DEF StopTrex, HardwareReset
    <3>2. CASE task.pc = "retire"
      BY <2>1, <3>2 DEF LedgerInv, EndsQuiet
    <3> QED BY <2>5, <3>1, <3>2, Retiring
  <2>6. ASSUME task'.pc = "clear", intent'.op = "start", NEW p \in Ports PROVE by'[p] # intent'.n
    <3>1. intent'.n # 0
      BY <2>6, PendingKept DEF OperationPending
    <3>2. SameIntent
      BY <1>0, <2>3, <2>4, <2>6, <3>1
    <3>3. by[p] # intent.n
      <4>1. CASE task.pc = "clear"
        BY <2>6, <3>2, <4>1 DEF LedgerInv, EndsQuiet, SameIntent
      <4>2. CASE task.pc # "clear"
        BY <2>6, <3>2, <4>2, RollbackEffects DEF SameIntent
      <4> QED BY <4>1, <4>2
    <3> QED BY <2>2, <3>1, <3>2, <3>3 DEF SameIntent
  <2>7. ASSUME intent'.op = "stop", StopDone', NEW p \in intent'.ports PROVE by'[p] = 0
    <3>1. SameIntent
      BY <1>0, <2>3, <2>4, <2>7 DEF StopDone
    <3>2. p \in intent.ports /\ p \in Ports /\ intent.op = "stop"
      BY <1>0, <2>7, <3>1 DEF SameIntent
    <3>3. CASE StopDone
      BY <2>1, <3>2, <3>3 DEF LedgerInv, EndsQuiet
    <3>4. CASE ~StopDone
      BY <2>7, <3>1, <3>2, <3>4, StopEffects
    <3> QED BY <3>3, <3>4
  <2> QED BY <2>5, <2>6, <2>7 DEF EndsQuiet
<1> QED BY <1>1, <1>2

-----------------------------------------------------------------------------
(* The invariant *)

Ledgered == TypeOK /\ OperationPending /\ StartInv /\ LedgerInv

\* At first nothing is recorded and nothing transmits.
LEMMA InitLedger == Init => Ledgered
<1> SUFFICES ASSUME Init PROVE Ledgered
  OBVIOUS
<1> USE DEF Init, NoSession, NoIntent, NoRun, Idle, LedgerInv
<1>1. TypeOK /\ OperationPending /\ StartInv
  BY InitType, InitStart DEF OperationPending
<1>2. TaskFits /\ GroupsDrawn /\ GroupsClosed
  BY BoundsAssumption DEF TaskFits, GroupsDrawn, GroupsClosed, Sending, StartPath, Hooks, Controlling
<1>3. TrafficLive /\ TrafficRecorded /\ SampleHolds
  BY DEF TrafficLive, TrafficRecorded, SampleHolds
<1>4. TaskAuthority /\ TrafficAuthority /\ EndsQuiet
  BY DEF TaskAuthority, TrafficAuthority, EndsQuiet, Sending, StartPath, Hooks, Controlling
<1> QED BY <1>1, <1>2, <1>3, <1>4 DEF Ledgered

\* Every step of the runtime keeps the invariant.
LEMMA LedgeredKept == Ledgered /\ [Next]_vars => Ledgered'
<1> SUFFICES ASSUME Ledgered, [Next]_vars PROVE Ledgered'
  OBVIOUS
<1> USE DEF Ledgered
<1>1. TypeOK' /\ OperationPending'
  BY NextType, PendingKept
<1>2. StartInv'
  <2>1. CASE Execute
    BY <2>1, StageStart, RpcStart, ControlStart, PersistStart, RecoverStart DEF Execute
  <2>2. CASE UNCHANGED vars
    BY <2>2 DEF vars, disk, memory, history, StartInv, Unsent, BeforeStart, Reached
  <2> QED BY <2>1, <2>2, BeginStart, RecoverStart, EnvironmentStart DEF Next
<1>3. TaskFits' /\ GroupsDrawn' /\ GroupsClosed'
  BY <1>1, FitsKept, DrawnKept, ClosedKept DEF LedgerInv
<1>4. TrafficLive' /\ TrafficRecorded' /\ SampleHolds'
  BY LiveKept, RecordedKept, SampleKept DEF LedgerInv
<1>5. TaskAuthority' /\ TrafficAuthority' /\ EndsQuiet'
  BY <1>1, TaskAuthorityKept, TrafficAuthorityKept, QuietKept DEF LedgerInv
<1> QED BY <1>1, <1>2, <1>3, <1>4, <1>5 DEF LedgerInv

\* The invariant holds in every reachable state.
LEMMA LedgeredAlways == Spec => []Ledgered
  BY InitLedger, LedgeredKept, PTL DEF Spec

\* Traffic the API started is always accounted for on disk, by a group that is not recorded
\* as stopped or by the pending start, whoever else uses the server (what the WAL of
\* traffic_runtime.py is written ahead for).
THEOREM TrafficIsRecorded == Spec => []NoOrphanTraffic
<1>1. Ledgered => NoOrphanTraffic
  BY DEF Ledgered, LedgerInv, TrafficRecorded, NoOrphanTraffic
<1> QED BY <1>1, LedgeredAlways, PTL

-----------------------------------------------------------------------------
(* The refinement of the ledger *)

\* A number is new until it is drawn, and over when it is neither pending nor live.
LEMMA Phases ==
  ASSUME Ledgered, NEW n \in Nonce
  PROVE  /\ Phase(n) \in {"new", "pending", "live", "over"}
         /\ Phase(n) = "new" <=> n > nonce
         /\ Phase(n) = "pending" <=> intent.n = n /\ intent.op = "start"
         /\ Phase(n) = "live" <=> n \in session.groups /\ runs[n].done = "none"
<1>0. /\ n \in Nat /\ nonce \in Nat /\ intent.n \in Nat /\ intent.n <= nonce
      /\ n \in session.groups => n <= nonce /\ n # intent.n
  BY BoundsAssumption DEF Ledgered, TypeOK, HistoryType, DiskType, Intent, StartInv, Nonce, Nonce0,
                          LedgerInv, GroupsDrawn
<1> QED BY <1>0 DEF Phase

\* ... after a step as before it.
LEMMA PhasesAfter ==
  ASSUME Ledgered', NEW n \in Nonce
  PROVE  /\ Phase(n)' \in {"new", "pending", "live", "over"}
         /\ Phase(n)' = "new" <=> n > nonce'
         /\ Phase(n)' = "pending" <=> intent'.n = n /\ intent'.op = "start"
         /\ Phase(n)' = "live" <=> n \in session'.groups /\ runs'[n].done = "none"
<1>0. /\ n \in Nat /\ nonce' \in Nat /\ intent'.n \in Nat /\ intent'.n <= nonce'
      /\ n \in session'.groups => n <= nonce' /\ n # intent'.n
  BY BoundsAssumption DEF Ledgered, TypeOK, HistoryType, DiskType, Intent, StartInv, Nonce, Nonce0,
                          LedgerInv, GroupsDrawn
<1> QED BY <1>0 DEF Phase

\* A run for which a port transmits after the step is then pending or live.
LEMMA OverIsSilent ==
  ASSUME Ledgered', NEW n \in Nonce, NEW p \in Ports, by'[p] = n
  PROVE  Phase(n)' \in {"pending", "live"}
<1>0. by'[p] # 0
  BY DEF Nonce
<1>1. CASE n \in session'.groups /\ p \in runs'[n].ports /\ runs'[n].st[p] # "stopped"
  <2>1. runs'[n].done = "none"
    BY <1>1 DEF Ledgered, LedgerInv, GroupsClosed, AllStopped
  <2> QED BY <1>1, <2>1, PhasesAfter
<1>2. CASE n = intent'.n /\ intent'.op = "start"
  BY <1>2, PhasesAfter
<1> QED BY <1>0, <1>1, <1>2 DEF Ledgered, LedgerInv, TrafficRecorded

\* The ledger begins empty.
LEMMA LedgerInit == Init => Ledger!Init
  BY BoundsAssumption
     DEF Init, NoSession, NoIntent, Phase, Nonce, Ledger!Init, Ledger!Run

\* Runs that end in a step transmit no more.
LEMMA LedgerEnd ==
  ASSUME Ledgered, Ledgered', starts' = starts, by' = by,
         \A n \in Nonce : \/ Phase(n)' = Phase(n)
                          \/ Phase(n) \in {"pending", "live"} /\ Phase(n)' = "over"
  PROVE  Ledger!Next
<1> DEFINE S == {n \in Nonce : Phase(n)' # Phase(n)}
<1>1. Ledger!Run = Nonce
  BY DEF Ledger!Run, Nonce
<1>2. \A n \in S : Phase(n) \in {"pending", "live"} /\ Phase(n)' = "over"
  OBVIOUS
<1>3. ASSUME NEW n \in S PROVE \A p \in Ports : by[p] # n
  <2> SUFFICES ASSUME NEW p \in Ports, by[p] = n PROVE FALSE
    OBVIOUS
  <2>1. by'[p] = n /\ n \in Nonce
    OBVIOUS
  <2>2. Phase(n)' \in {"pending", "live"}
    BY <2>1, OverIsSilent
  <2> QED BY <1>2, <2>2
<1>4. [n \in Nonce |-> Phase(n)'] = [n \in Nonce |-> IF n \in S THEN "over" ELSE Phase(n)]
  BY <1>2
<1>5. S \in SUBSET Nonce
  OBVIOUS
<1> HIDE DEF S
<1>6. Ledger!End(S)
  BY <1>1, <1>2, <1>3, <1>4, <1>5 DEF Ledger!End, Ledger!Silent
<1> QED BY <1>1, <1>5, <1>6 DEF Ledger!Next

\* A number is drawn by a new mutation only.
LEMMA Numbers == ASSUME TypeOK, [Next]_vars PROVE nonce' = nonce \/ Begin
  BY BeginTask, SnapshotTask, EnvironmentTask, StageTask, RpcTask, ReleaseTask, ControlTask,
     VerifyTask, GivenUpTask, RecoverTask, WriteTask DEF Next, Execute, vars, history

\* What a promotion, a recovery or a retirement writes ends runs, or takes the pending one
\* into the session.
LEMMA LedgerWrites ==
  ASSUME Ledgered, Ledgered', Promoting \/ Clearing \/ Reconciling \/ Closing \/ Ticking
  PROVE  Ledger!Next
<1>0. /\ starts' = starts /\ by' = by /\ nonce' = nonce /\ NoIntent.n = 0
      /\ \A n \in Nonce : n # 0
      /\ session \in Session /\ runs \in [Nonce -> Run] /\ intent \in Intent
      /\ \A n \in Nonce : runs[n] \in Run /\ runs[n].ports \in SUBSET Ports
                          /\ runs[n].st \in [Ports -> PortState]
      /\ session.groups \subseteq Nonce
  BY DEF Promoting, Clearing, Reconciling, Closing, Ticking, server, NoIntent, Nonce,
         Ledgered, TypeOK, DiskType, Session, Run
<1>1. CASE Promoting /\ intent.op = "start"
  <2>0. /\ session' = StartedSession(intent) /\ runs' = StartedRuns(intent)
        /\ StartPromotable(intent) /\ intent' = NoIntent
        /\ intent.n \in Nonce
    BY <1>1, PromotedDocument
       DEF Promoting, PromotedSession, PromotedRuns, Promotable, Ledgered, LedgerInv
  <2>1. PICK m \in Nonce : m = intent.n
    BY <2>0
  <2>2. Phase(m) = "pending" /\ Phase(m)' = "live"
    <3>1. m \in session'.groups /\ runs'[m].done = "none"
      BY <2>0, <2>1, StartedFields DEF Ledgered
    <3> QED BY <1>1, <2>1, <3>1, Phases, PhasesAfter
  <2>3. ASSUME NEW n \in Nonce, n # m
        PROVE  Phase(n)' = Phase(n)
    <3>1. Phase(n) # "pending" /\ Phase(n)' # "pending"
      BY <1>0, <2>0, <2>1, <2>3, Phases, PhasesAfter
    <3>2. Phase(n) = "new" <=> Phase(n)' = "new"
      BY <1>0, Phases, PhasesAfter
    <3>3. Phase(n) = "live" <=> Phase(n)' = "live"
      <4>1. CASE intent.expected = 0
        <5>1. n \in session.groups => runs[n].done # "none"
          BY <1>0, <2>0, <4>1, SessionStopped
             DEF StartPromotable, Ledgered, LedgerInv, GroupsClosed
        <5>2. n \notin session'.groups
          BY <2>0, <2>1, <2>3, <4>1, StartedFields DEF Ledgered
        <5> QED BY <5>1, <5>2, Phases, PhasesAfter
      <4>2. CASE intent.expected # 0
        <5>1. n \in Replaced => runs[n].done # "none"
          <6>1. n \in Replaced => n \in session.groups /\ GroupState(runs[n]) = "stopped"
            BY <2>0, <4>2 DEF Replaced, StartPromotable
          <6>2. GroupState(runs[n]) = "stopped" <=> AllStopped(runs[n])
            BY <1>0, GroupStopped
          <6> QED BY <6>1, <6>2 DEF Ledgered, LedgerInv, GroupsClosed
        <5>2. /\ runs'[n] = runs[n]
              /\ n \in session'.groups <=> n \in session.groups /\ n \notin Replaced
          BY <2>0, <2>1, <2>3, <4>2, StartedFields DEF Ledgered
        <5> QED BY <5>1, <5>2, Phases, PhasesAfter
      <4> QED BY <4>1, <4>2
    <3> QED BY <3>1, <3>2, <3>3, Phases, PhasesAfter
  <2>4. [n \in Nonce |-> Phase(n)'] = [[n \in Nonce |-> Phase(n)] EXCEPT ![m] = "live"]
    BY <2>2, <2>3
  <2>5. Ledger!Promote(m)
    BY <1>0, <2>2, <2>4 DEF Ledger!Promote
  <2> QED BY <2>5 DEF Ledger!Next, Ledger!Run, Nonce
<1>2. CASE ~(Promoting /\ intent.op = "start")
  <2>1. intent'.n = 0 \/ SameIntent
    BY <1>0, <1>2, IntentFields DEF Promoting, Clearing, Reconciling, Closing, Ticking, Ledgered
  <2>2. \A n \in Nonce : /\ Phase(n)' = "pending" => Phase(n) = "pending"
                         /\ Phase(n)' = "new" <=> Phase(n) = "new"
    BY <1>0, <2>1, Phases, PhasesAfter DEF SameIntent
  <2>3. session'.groups = session.groups
    BY <1>2, MutatedDocument DEF Promoting, PromotedSession, Clearing, SameDocuments, Reconciling,
                                 Closing, Ticking, Ledgered
  <2>4. ASSUME NEW n \in session.groups, runs'[n].done = "none" PROVE runs[n].done = "none"
    <3>0. n \in Nonce
      BY <1>0
    <3>1. CASE Promoting
      <4>1. runs'[n] \in {runs[n], MutatedRun(intent, runs[n])}
        BY <1>2, <3>0, <3>1, MutatedDocument DEF Promoting, PromotedRuns, Ledgered
      <4> QED BY <1>0, <2>4, <3>0, <4>1, MutatedFields
    <3>2. CASE Clearing
      BY <2>4, <3>2 DEF Clearing, SameDocuments
    <3>3. CASE Reconciling
      <4>1. PICK vouches \in BOOLEAN : runs'[n] = ReconciledRun(runs[n], vouches)
        BY <3>0, <3>3 DEF Reconciling
      <4> QED BY <1>0, <2>4, <3>0, <4>1, ReconciledFields DEF Ledgered
    <3>4. CASE Closing
      BY <2>4, <3>0, <3>4, ClosedFields DEF Closing, Ledgered
    <3>5. CASE Ticking
      <4>1. PICK m \in session.groups : runs' = [runs EXCEPT ![m].lease = Later(@)]
        BY <3>5 DEF Ticking
      <4> QED BY <1>0, <2>4, <3>0, <4>1 DEF Run
    <3> QED BY <1>2, <3>1, <3>2, <3>3, <3>4, <3>5
  <2>5. \A n \in Nonce : Phase(n)' = "live" => Phase(n) = "live"
    BY <2>3, <2>4, Phases, PhasesAfter
  <2>6. \A n \in Nonce : \/ Phase(n)' = Phase(n)
                         \/ Phase(n) \in {"pending", "live"} /\ Phase(n)' = "over"
    BY <2>2, <2>5, Phases, PhasesAfter
  <2> QED BY <1>0, <2>6, LedgerEnd
<1> QED BY <1>1, <1>2

\* Every step of the runtime is a step of the ledger, or leaves the ledger as it is.
LEMMA LedgerStep ==
  ASSUME Ledgered, Ledgered', [Next]_vars
  PROVE  [Ledger!Next]_Ledger!vars
<1>0. /\ by \in [Ports -> Nonce0] /\ starts \in [Nonce -> Nat] /\ nonce \in Nat
      /\ Ledger!Run = Nonce /\ \A n \in Nonce : n \in Nat /\ n # 0
      /\ task.ports \in SUBSET Ports
  <2>1. /\ by \in [Ports -> Nonce0] /\ starts \in [Nonce -> Nat] /\ nonce \in Nonce0
        /\ task \in Task
    BY DEF Ledgered, TypeOK, ServerType, HistoryType, MemoryType
  <2>2. Ledger!Run = Nonce /\ \A n \in Nonce : n \in Nat /\ n # 0
    BY BoundsAssumption DEF Nonce, Ledger!Run
  <2>3. nonce \in Nat
    BY <2>1, BoundsAssumption DEF Nonce0
  <2>4. task.ports \in SUBSET Ports
    BY <2>1 DEF Task
  <2> QED BY <2>1, <2>2, <2>3, <2>4
<1>1. CASE Begin
  <2>0. /\ SameDocuments /\ by' = by /\ starts' = starts /\ nonce' = nonce + 1
        /\ intent.n = 0 /\ intent'.n = nonce + 1 /\ nonce + 1 \in Nonce
    BY <1>1, BeginTask DEF Ledgered, server
  <2>1. PICK m \in Nonce : m = nonce + 1
    BY <2>0
  <2>2. Phase(m) = "new" /\ Phase(m)' \in {"pending", "over"}
    <3>1. m > nonce /\ ~(m > nonce')
      BY <1>0, <2>0, <2>1
    <3>2. Phase(m) = "new"
      BY <3>1, Phases
    <3>3. Phase(m) # "live" /\ (Phase(m)' = "live" <=> Phase(m) = "live")
      BY <2>0, <3>2, Phases, PhasesAfter DEF SameDocuments
    <3> QED BY <3>1, <3>2, <3>3, PhasesAfter
  <2>3. ASSUME NEW n \in Nonce, n # m
        PROVE  Phase(n)' = Phase(n)
    <3>1. n > nonce <=> n > nonce'
      BY <1>0, <2>0, <2>1, <2>3
    <3>2. Phase(n) # "pending" /\ Phase(n)' # "pending"
      BY <1>0, <2>0, <2>1, <2>3, Phases, PhasesAfter
    <3>3. Phase(n) = "live" <=> Phase(n)' = "live"
      BY <2>0, Phases, PhasesAfter DEF SameDocuments
    <3> QED BY <3>1, <3>2, <3>3, Phases, PhasesAfter
  <2>4. \A n \in Nonce : Phase(n) # "pending"
    BY <1>0, <2>0, Phases
  <2>5. [n \in Nonce |-> Phase(n)'] = [[n \in Nonce |-> Phase(n)] EXCEPT ![m] = Phase(m)']
    BY <2>3
  <2>6. Ledger!Draw(m)
    BY <1>0, <2>0, <2>2, <2>4, <2>5 DEF Ledger!Draw
  <2> QED BY <1>0, <2>6 DEF Ledger!Next
<1>2. CASE SameDocuments /\ SameIntent /\ ~Begin
  <2>1. nonce' = nonce
    BY <1>2, Numbers DEF Ledgered
  <2>2. \A n \in Nonce : Phase(n)' = Phase(n)
    BY <1>2, <2>1 DEF Phase, SameDocuments, SameIntent
  <2>3. [n \in Nonce |-> Phase(n)'] = [n \in Nonce |-> Phase(n)]
    BY <2>2
  <2>4. CASE Starting
    <3>1. PICK T \in SUBSET task.ports :
            /\ by' = [p \in Ports |-> IF p \in T THEN intent.n ELSE by[p]]
            /\ starts' = [starts EXCEPT ![intent.n] = IF T = {} THEN @ ELSE @ + 1]
      BY <2>4 DEF Starting
    <3>2. PICK m \in Nonce : m = intent.n
      BY <2>4, BoundsAssumption DEF Starting, Ledgered, OperationPending, TypeOK, DiskType, Intent,
                                    Nonce, Nonce0
    <3>3. starts[m] = 0 /\ Phase(m) = "pending"
      BY <2>4, <3>2, Phases DEF Starting, Ledgered, StartInv
    <3>4. CASE T = {}
      <4>1. by' = by /\ starts' = starts
        BY <1>0, <3>1, <3>4
      <4> QED BY <2>3, <4>1 DEF Ledger!vars
    <3>5. CASE T # {}
      <4>1. {n \in Nonce : starts'[n] # 0} = {n \in Nonce : starts[n] # 0} \cup {m}
        BY <1>0, <3>1, <3>2, <3>3, <3>5
      <4>2. Ledger!Send(m, T)
        BY <2>3, <3>1, <3>2, <3>3, <4>1 DEF Ledger!Send
      <4>3. T \in SUBSET Ports
        BY <1>0
      <4> QED BY <1>0, <4>2, <4>3 DEF Ledger!Next
    <3> QED BY <3>4, <3>5
  <2>5. CASE Carrying
    BY <2>3, <2>5 DEF Carrying, Ledger!vars
  <2>6. CASE starts' = starts /\ \E T \in SUBSET Ports : Stopped(T)
    <3>1. PICK T \in SUBSET Ports : Stopped(T)
      BY <2>6
    <3>2. Ledger!Quiet(T)
      BY <2>3, <2>6, <3>1 DEF Stopped, Ledger!Quiet
    <3> QED BY <3>2 DEF Ledger!Next
  <2> QED BY <2>4, <2>5, <2>6, ServerSteps DEF Ledgered
<1> QED BY <1>1, <1>2, LedgerWrites, Documents DEF Ledgered

\* The traffic runtime implements the ledger: a run is pending, live and then over for good,
\* its start takes effect once, and no port transmits for it when it is over, whatever
\* crashes, failures and recoveries lie in between.
THEOREM RuntimeKeepsLedger == Spec => LedgerKept
<1>1. Ledgered /\ Ledgered' /\ [Next]_vars => [Ledger!Next]_Ledger!vars
  BY LedgerStep
<1> QED BY <1>1, LedgerInit, LedgeredAlways, PTL DEF Spec, LedgerKept, Ledger!Spec

-----------------------------------------------------------------------------
(* Runs that are closed, and leases *)

\* A record is the group it was when it says the same.
LEMMA SameRecord ==
  ASSUME NEW q \in Run, NEW r \in Run, q.ports = r.ports, \A p \in Ports : q.st[p] = r.st[p],
         q.lease = r.lease, q.done = r.done, q.stopper = r.stopper
  PROVE  q = r
<1>1. q.st = r.st
  BY DEF Run
<1> QED BY <1>1 DEF Run

\* The step of a closed group.
LEMMA ClosedStays ==
  ASSUME Ledgered, Ledgered', [Next]_vars, session'.id = session.id,
         NEW n \in session.groups \cup session.completed, runs[n].done # "none"
  PROVE  runs'[n] = runs[n] /\ n \in session'.groups \cup session'.completed
<1>0. /\ n \in Nonce /\ runs[n] \in Run /\ runs'[n] \in Run /\ runs[n].ports \in SUBSET Ports
      /\ runs[n].lease = "none" /\ intent \in Intent /\ runs \in [Nonce -> Run]
  BY DEF Ledgered, LedgerInv, GroupsClosed, TypeOK, DiskType, Session, Run
<1>1. n \in session.groups => \A p \in Ports : runs[n].st[p] = "stopped"
  BY <1>0 DEF Ledgered, LedgerInv, GroupsClosed, AllStopped
<1>2. CASE SameDocuments
  BY <1>2 DEF SameDocuments
<1>3. CASE Promoting
  <2>0. intent.n \in Nonce
    BY <1>3, PromotedDocument DEF Ledgered, LedgerInv
  <2>1. CASE intent.op = "start"
    <3>1. session' = StartedSession(intent) /\ runs' = StartedRuns(intent)
      BY <1>3, <2>1 DEF Promoting, PromotedSession, PromotedRuns
    <3>2. intent.expected # 0
      <4>1. session.id # intent.n
        BY <2>0 DEF Ledgered, LedgerInv, GroupsDrawn, Nonce
      <4> QED BY <2>0, <3>1, <4>1, StartedFields DEF Ledgered
    <3>3. n # intent.n
      BY DEF Ledgered, LedgerInv, GroupsDrawn
    <3> QED BY <1>0, <2>0, <3>1, <3>2, <3>3, StartedFields DEF Ledgered
  <2>2. CASE intent.op # "start"
    <3>1. session'.groups = session.groups /\ session'.completed = session.completed
      BY <1>3, <2>2, MutatedDocument DEF Promoting, PromotedSession, Ledgered
    <3>2. CASE runs'[n] = runs[n]
      BY <3>1, <3>2
    <3>3. CASE n \in session.groups /\ runs'[n] = MutatedRun(intent, runs[n])
      <4>1. AllStopped(runs'[n])
        <5>1. AllStopped(runs'[n]) <=> runs'[n].done # "none"
          BY <1>3, <3>1, <3>3, PromotedDocument DEF Ledgered, LedgerInv
        <5> QED BY <1>0, <3>3, <5>1, MutatedFields
      <4>2. \A p \in Ports : runs'[n].st[p] = "stopped"
        BY <1>0, <1>1, <3>3, <4>1, MutatedFields DEF AllStopped
      <4>3. /\ runs'[n].ports = runs[n].ports /\ runs'[n].lease = "none"
            /\ runs'[n].done = runs[n].done /\ runs'[n].stopper = runs[n].stopper
        BY <1>0, <3>3, <4>1, MutatedFields
      <4>4. runs'[n] = runs[n]
        BY <1>0, <1>1, <3>3, <4>2, <4>3, SameRecord
      <4> QED BY <3>1, <4>4
    <3> QED BY <1>0, <1>3, <2>2, <3>2, <3>3, MutatedDocument DEF Promoting, PromotedRuns, Ledgered
  <2> QED BY <2>1, <2>2
<1>4. CASE Reconciling
  <2>1. PICK vouches \in BOOLEAN :
          runs' = [m \in Nonce |-> IF m \in session.groups
                                   THEN ReconciledRun(runs[m], vouches) ELSE runs[m]]
    BY <1>4 DEF Reconciling
  <2>2. CASE n \in session.groups
    <3>0. runs'[n] = ReconciledRun(runs[n], vouches)
      BY <1>0, <2>1, <2>2
    <3>1. runs'[n].ports = runs[n].ports /\ \A p \in Ports : runs'[n].st[p] = "stopped"
      BY <1>0, <3>0, ReconciledFields DEF Ledgered
    <3>2. AllStopped(runs'[n])
      BY <1>0, <3>1 DEF AllStopped
    <3>3. /\ runs'[n].lease = "none" /\ runs'[n].done = runs[n].done
          /\ runs'[n].stopper = runs[n].stopper
      BY <1>0, <3>0, <3>2, ReconciledFields DEF Ledgered
    <3>4. runs'[n] = runs[n]
      BY <1>0, <1>1, <2>2, <3>1, <3>3, SameRecord
    <3> QED BY <1>4, <3>4 DEF Reconciling
  <2>3. CASE n \notin session.groups
    BY <1>0, <1>4, <2>1, <2>3 DEF Reconciling
  <2> QED BY <2>2, <2>3
<1>5. CASE Closing
  <2>1. CASE runs'[n] = runs[n]
    BY <1>5, <2>1 DEF Closing
  <2>2. CASE runs' = Closed(session, runs) /\ n \in session.groups
    <3>1. /\ runs'[n].ports = runs[n].ports /\ \A p \in Ports : runs'[n].st[p] = "stopped"
          /\ runs'[n].lease = "none" /\ runs'[n].done = runs[n].done
          /\ runs'[n].stopper = runs[n].stopper
      BY <1>0, <2>2, ClosedFields DEF Ledgered
    <3>2. runs'[n] = runs[n]
      BY <1>0, <1>1, <2>2, <3>1, SameRecord
    <3> QED BY <1>5, <3>2 DEF Closing
  <2> QED BY <1>0, <1>5, <2>1, <2>2, ClosedFields DEF Closing, Ledgered
<1>6. CASE Ticking
  <2>1. PICK m \in session.groups : /\ runs[m].lease \in {"armed", "near"}
                                    /\ runs' = [runs EXCEPT ![m].lease = Later(@)]
    BY <1>6 DEF Ticking
  <2>2. n # m
    BY <1>0, <2>1
  <2> QED BY <1>0, <1>6, <2>1, <2>2 DEF Ticking
<1> QED BY <1>2, <1>3, <1>4, <1>5, <1>6, Documents DEF Ledgered, Clearing

\* A run that was closed stays as it was, for as long as its session is on disk: no
\* promotion, reconciliation or retirement writes it again.
THEOREM ClosedRunsStay == Spec => ClosedRunsTerminal
<1>1. Ledgered /\ Ledgered' /\ [Next]_vars =>
        [session'.id = session.id =>
           \A n \in session.groups \cup session.completed : runs[n].done # "none" =>
             /\ runs'[n] = runs[n]
             /\ n \in session'.groups \cup session'.completed]_vars
  BY ClosedStays
<1> QED BY <1>1, LedgeredAlways, PTL DEF Spec, ClosedRunsTerminal

\* The step that drops the lease of a group.
LEMMA LeaseDropped ==
  ASSUME Ledgered, Ledgered', [Next]_vars, NEW n \in session.groups,
         runs[n].lease # "none", runs'[n].lease = "none", NEW p \in runs[n].ports
  PROVE  by[p] # n
<1> SUFFICES ASSUME by[p] = n PROVE FALSE
  OBVIOUS
<1>0. /\ n \in Nonce /\ n # 0 /\ n # intent.n /\ runs[n] \in Run /\ intent \in Intent
      /\ p \in Ports /\ runs \in [Nonce -> Run]
  BY DEF Ledgered, LedgerInv, GroupsDrawn, TypeOK, DiskType, Session, Run, Nonce
<1>1. ~SameDocuments
  BY DEF SameDocuments
<1>2. /\ Promoting \/ Reconciling \/ Closing \/ Ticking
      /\ by' = by /\ n # intent'.n
  <2>1. Promoting \/ Reconciling \/ Closing \/ Ticking
    BY <1>1, Documents DEF Ledgered, Clearing
  <2> QED BY <1>0, <2>1 DEF Promoting, Reconciling, Closing, Ticking, SameIntent, NoIntent, server
<1>3. n \in session'.groups /\ ~AllStopped(runs'[n]) /\ runs'[n].done = "none"
  BY <1>0, <1>2 DEF Ledgered, LedgerInv, TrafficRecorded, GroupsClosed, AllStopped
<1>4. CASE Promoting /\ intent.op = "start"
  <2>1. intent.n \in Nonce /\ session' = StartedSession(intent) /\ runs' = StartedRuns(intent)
    BY <1>4, PromotedDocument
       DEF Promoting, PromotedSession, PromotedRuns, Ledgered, LedgerInv
  <2> QED BY <1>0, <1>3, <2>1, StartedFields DEF Ledgered
<1>5. CASE Promoting /\ intent.op # "start"
  <2>1. runs'[n] \in {runs[n], MutatedRun(intent, runs[n])}
    BY <1>0, <1>5, MutatedDocument DEF Promoting, PromotedRuns, Ledgered
  <2> QED BY <1>0, <1>3, <2>1, MutatedFields
<1>6. CASE Reconciling
  <2>1. PICK vouches \in BOOLEAN : runs'[n] = ReconciledRun(runs[n], vouches)
    BY <1>0, <1>6 DEF Reconciling
  <2> QED BY <1>0, <1>3, <2>1, ReconciledFields DEF Ledgered
<1>7. CASE Closing
  BY <1>0, <1>3, <1>7, ClosedFields DEF Closing, Ledgered
<1>8. CASE Ticking
  <2>1. PICK m \in session.groups : /\ runs[m].lease \in {"armed", "near"}
                                    /\ runs' = [runs EXCEPT ![m].lease = Later(@)]
    BY <1>8 DEF Ticking
  <2>2. Later(runs[m].lease) # "none"
    BY <2>1 DEF Later
  <2> QED BY <1>0, <2>1, <2>2 DEF Run
<1> QED BY <1>2, <1>4, <1>5, <1>6, <1>7, <1>8

\* A lease is dropped only when the traffic it bounds is gone, so that the hard stop
\* forgets no group that still transmits.
THEOREM LeasesOutlive == Spec => LeaseOutlivesTraffic
<1>1. Ledgered /\ Ledgered' /\ [Next]_vars =>
        [\A n \in session.groups : runs[n].lease # "none" /\ runs'[n].lease = "none" =>
           \A p \in runs[n].ports : by[p] # n]_vars
  BY LeaseDropped
<1> QED BY <1>1, LedgeredAlways, PTL DEF Spec, LeaseOutlivesTraffic
=============================================================================
