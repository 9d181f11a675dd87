-------------------------- MODULE TrafficRuntimeProofs --------------------------
(* Theorems of TrafficRuntime, for any ports, bounds, requests and faults: *)
(* its types, and what takes effect at most once.                          *)
EXTENDS TrafficRuntime, TLAPS

-----------------------------------------------------------------------------
(* Type correctness, action by action *)

\* The bounds make 0 a nonce, the one of no intent and of traffic that is not the API's.
LEMMA ZeroIsNonce == 0 \in Nonce0 /\ Nonce \subseteq Nonce0
  BY BoundsAssumption DEF Nonce0, Nonce

\* The empty records and the idle operation have their types.
LEMMA RecordTypes ==
  /\ NoSession \in Session
  /\ NoRun \in Run
  /\ NoIntent \in Intent
  /\ Idle \in Task
<1>1. NoSession \in Session
  BY ZeroIsNonce DEF NoSession, Session
<1>2. NoRun \in Run
  BY ZeroIsNonce DEF NoRun, Run, Lease, PortState, LiveState
<1>3. NoIntent \in Intent
  BY ZeroIsNonce DEF NoIntent, Intent, Operation, Stage, Lease, LiveState
<1>4. Idle \in Task
  BY DEF Idle, Task, Step, OtherSteps, Goal, LiveState
<1> QED BY <1>1, <1>2, <1>3, <1>4

\* The program starts type correct.
LEMMA InitType == Init => TypeOK
  BY RecordTypes, ZeroIsNonce DEF Init, TypeOK, ServerType, DiskType, MemoryType, HistoryType, LiveState

\* Writing the intent of a mutation ahead keeps the types.
LEMMA PrepareType ==
  ASSUME TypeOK, Ready, NEW i \in Intent, NEW pc \in Step, Prepare(i, pc)
  PROVE  TypeOK'
<1>1. [Idle EXCEPT !.pc = pc, !.ports = i.ports] \in Task /\ Idle \in Task
  BY RecordTypes DEF Task, Intent
<1>2. nonce + 1 \in Nonce0
  BY BoundsAssumption DEF Ready, TypeOK, HistoryType, Nonce0
<1> QED 
  BY <1>1, <1>2 DEF Prepare, Persist, Saved, TypeOK, ServerType, DiskType, MemoryType, HistoryType, server, disk

\* The values an operation's locals are updated with keep their types.
LEMMA TaskUpdates ==
  ASSUME NEW t \in Task
  PROVE  /\ \A pc \in Step : [t EXCEPT !.pc = pc] \in Task
         /\ \A pc \in Step, ok \in BOOLEAN :
              /\ [t EXCEPT !.pc = pc, !.ok = ok] \in Task
              /\ [t EXCEPT !.ok = ok, !.pc = pc] \in Task
         /\ \A pc \in Step, goal \in Goal : [t EXCEPT !.pc = pc, !.goal = goal] \in Task
         /\ \A pc \in Step, T \in SUBSET Ports :
              /\ [t EXCEPT !.pc = pc, !.took = T] \in Task
              /\ [t EXCEPT !.pc = pc, !.ports = T] \in Task
              /\ [[t EXCEPT !.ports = T] EXCEPT !.pc = pc] \in Task
              /\ \A goal \in Goal : [[t EXCEPT !.ports = T] EXCEPT !.pc = pc, !.goal = goal] \in Task
         /\ \A ok \in BOOLEAN : [t EXCEPT !.linked = ok] \in Task
  BY DEF Task

\* The steps and goals the operations name.
LEMMA Steps ==
  /\ Failed \in Step /\ AfterControl \in Step
  /\ Hooks \subseteq Step /\ RpcSteps \subseteq Step /\ OtherSteps \subseteq Step
  /\ {"acquire_intent", "acquired", "streams_remove_intent", "streams_removed",
      "profile_add_intent", "profile_added", "start_intent", "start_returned"} \subseteq Step
  /\ {"acquire", "preflight", "remove", "add", "start", "command", "release", "control",
      "rollback", "streams", "restore", "verify"} \subseteq Step
  /\ {"idle", "guard", "recover", "promote", "retain", "unresolved", "clear", "rollover",
      "reconcile", "retire"} \subseteq Step
  /\ {"none", "rollback", "normalize", "promote", "clear", "retain", "verify"} \subseteq Goal
  BY DEF Failed, AfterControl, Step, Goal, Hooks, RpcSteps, OtherSteps

\* An RPC takes effect on some of its ports, and on all of them when it succeeds.
LEMMA OutcomeType ==
  ASSUME NEW T \in SUBSET Ports, NEW o \in Outcomes(T)
  PROVE  /\ o.done \in SUBSET Ports /\ o.done \subseteq T /\ o.ok \in BOOLEAN
         /\ o.ok => o.done = T
  BY DEF Outcomes

\* What an RPC writes on some ports has the type of the state of a port.
LEMMA PortUpdates ==
  ASSUME TypeOK, NEW T \in SUBSET Ports
  PROVE  /\ \A w \in {"free", "api", "stale", "other"} :
              [p \in Ports |-> IF p \in T THEN w ELSE own[p]]
                \in [Ports -> {"free", "api", "stale", "other"}]
         /\ \A v \in LiveState :
              [p \in Ports |-> IF p \in T THEN v ELSE run[p]] \in [Ports -> LiveState]
         /\ \A n \in Nonce0 : [p \in Ports |-> IF p \in T THEN n ELSE by[p]] \in [Ports -> Nonce0]
  BY DEF TypeOK, ServerType

\* Stopping ports keeps the types of the state of the server.
LEMMA StoppedType ==
  ASSUME TypeOK, NEW T \in SUBSET Ports, Stopped(T)
  PROVE  run' \in [Ports -> LiveState] /\ by' \in [Ports -> Nonce0]
  BY ZeroIsNonce DEF TypeOK, ServerType, Stopped, LiveState

\* A history counter stays a number, counted or not.
LEMMA Counters ==
  ASSUME NEW f \in [Nonce -> Nat], NEW n, NEW b \in BOOLEAN
  PROVE  /\ [f EXCEPT ![n] = IF b THEN @ ELSE @ + 1] \in [Nonce -> Nat]
         /\ [f EXCEPT ![n] = IF b THEN @ + 1 ELSE @] \in [Nonce -> Nat]
<1>1. CASE n \in Nonce
  <2>1. f[n] + 1 \in Nat /\ f[n] \in Nat
    BY <1>1
  <2>2. (IF b THEN f[n] ELSE f[n] + 1) \in Nat /\ (IF b THEN f[n] + 1 ELSE f[n]) \in Nat
    BY <2>1
  <2> QED BY <2>2
<1>2. CASE n \notin Nonce
  BY <1>2
<1> QED BY <1>1, <1>2

\* The RPCs of a mutation keep the types.
LEMMA RpcType ==
  ASSUME TypeOK,
         Acquire \/ Preflight \/ RemoveStreams \/ AddProfile \/ StartTraffic \/ Command \/ Release
  PROVE  TypeOK'
<1> USE DEF TypeOK, DiskType, MemoryType, HistoryType, disk, history
<1>0. task.ports \in SUBSET Ports /\ task.took \in SUBSET Ports
  BY DEF Task
<1>1. CASE Acquire
  <2> DEFINE missing == {p \in task.ports : own[p] # "api"}
             pc == IF intent.op = "start" THEN "acquired" ELSE "command"
  <2>1. PICK o \in Outcomes(missing) :
          /\ Grant(o.done, "api")
          /\ task' = IF o.ok THEN [task EXCEPT !.pc = pc, !.took = missing]
                    ELSE [task EXCEPT !.pc = Failed]
    BY <1>1 DEF Acquire
  <2>2. o.done \in SUBSET Ports /\ missing \in SUBSET Ports /\ pc \in Step /\ Failed \in Step
    BY <1>0, OutcomeType, Steps
  <2>3. own' \in [Ports -> {"free", "api", "stale", "other"}]
    BY <2>1, <2>2, PortUpdates DEF Grant
  <2> HIDE DEF pc, missing
  <2>4. task' \in Task
    <3>1. [task EXCEPT !.pc = pc, !.took = missing] \in Task
      BY <2>2, TaskUpdates
    <3>2. [task EXCEPT !.pc = Failed] \in Task
      BY <2>2, TaskUpdates
    <3>3. CASE o.ok
      BY <2>1, <3>1, <3>3
    <3>4. CASE ~o.ok
      BY <2>1, <3>2, <3>4
    <3> QED BY <3>3, <3>4
  <2> QED BY <1>1, <2>3, <2>4 DEF Acquire, ServerType
<1>2. CASE Preflight
  <2> DEFINE pc == IF intent.clear THEN "streams_remove_intent" ELSE "profile_add_intent"
  <2>1. PICK ok \in BOOLEAN : Under(ok, pc)
    BY <1>2 DEF Preflight
  <2>2. pc \in Step /\ "release" \in Step
    BY Steps
  <2> HIDE DEF pc
  <2>3. task' \in Task
    BY <2>1, <2>2, TaskUpdates DEF Under
  <2> QED BY <1>2, <2>3 DEF Preflight, ServerType, server
<1>3. CASE RemoveStreams
  <2>1. task' \in Task
    <3>1. PICK o \in Outcomes(task.ports) : Under(o.ok, "streams_removed")
      BY <1>3 DEF RemoveStreams
    <3> QED BY <3>1, TaskUpdates, Steps DEF Under
  <2>2. prog' \in [Ports -> SUBSET Nonce0]
    BY <1>3 DEF RemoveStreams, ServerType
  <2> QED BY <1>3, <2>1, <2>2 DEF RemoveStreams, ServerType
<1>4. CASE AddProfile
  <2>1. task' \in Task
    <3>1. PICK o \in Outcomes(task.ports) : Under(o.ok, "profile_added")
      BY <1>4 DEF AddProfile
    <3> QED BY <3>1, TaskUpdates, Steps DEF Under
  <2>2. prog' \in [Ports -> SUBSET Nonce0]
    BY <1>4 DEF AddProfile, ServerType, Intent
  <2> QED BY <1>4, <2>1, <2>2 DEF AddProfile, ServerType
<1>5. CASE StartTraffic
  <2>1. PICK o \in Outcomes(task.ports) :
          /\ run' = [p \in Ports |-> IF p \in o.done THEN "running" ELSE run[p]]
          /\ by' = [p \in Ports |-> IF p \in o.done THEN intent.n ELSE by[p]]
          /\ starts' = [starts EXCEPT ![intent.n] = IF o.done = {} THEN @ ELSE @ + 1]
          /\ Under(o.ok, "start_returned")
    BY <1>5 DEF StartTraffic
  <2>2. o.done \in SUBSET Ports /\ o.ok \in BOOLEAN /\ intent.n \in Nonce0
    BY <1>0, OutcomeType DEF Intent
  <2>3. task' \in Task
    BY <2>1, <2>2, TaskUpdates, Steps DEF Under
  <2>4. run' \in [Ports -> LiveState] /\ by' \in [Ports -> Nonce0]
    BY <2>1, <2>2, PortUpdates DEF LiveState
  <2>5. starts' \in [Nonce -> Nat]
    BY <2>1, Counters
  <2> QED BY <1>5, <2>3, <2>4, <2>5 DEF StartTraffic, ServerType
<1>6. CASE Command
  <2>1. PICK o \in Outcomes(task.ports) :
          /\ CASE intent.op = "stop"   -> Stopped(o.done)
               [] intent.op = "update" -> UNCHANGED <<run, by>>
               [] OTHER -> /\ run' = [p \in Ports |-> IF p \in o.done THEN Desired(intent, p)
                                                      ELSE run[p]]
                           /\ UNCHANGED by
          /\ deltas' = [deltas EXCEPT ![intent.n] =
                          IF intent.relative /\ o.done # {} THEN @ + 1 ELSE @]
          /\ task' = [task EXCEPT !.pc = "release", !.ok = o.ok]
    BY <1>6 DEF Command
  <2>2. o.done \in SUBSET Ports /\ o.ok \in BOOLEAN
    BY <1>0, OutcomeType
  <2>3. task' \in Task
    BY <2>1, <2>2, TaskUpdates, Steps
  <2>4. \A p \in Ports : Desired(intent, p) \in LiveState
    BY DEF Desired, Intent, Operation, LiveState
  <2>5. run' \in [Ports -> LiveState] /\ by' \in [Ports -> Nonce0]
    <3>1. CASE intent.op = "stop"
      BY <2>1, <2>2, <3>1, StoppedType
    <3>2. CASE intent.op = "update"
      BY <2>1, <3>2 DEF ServerType
    <3>3. CASE intent.op \notin {"stop", "update"}
      <4>1. /\ run' = [p \in Ports |-> IF p \in o.done THEN Desired(intent, p) ELSE run[p]]
            /\ by' = by
        BY <2>1, <3>3
      <4> QED BY <4>1, <2>4 DEF ServerType
    <3> QED BY <3>1, <3>2, <3>3
  <2>6. deltas' \in [Nonce -> Nat]
    BY <2>1, Counters
  <2> QED BY <1>6, <2>3, <2>5, <2>6 DEF Command, ServerType
<1>7. CASE Release
  <2>1. PICK o \in Outcomes(task.took) :
          /\ Grant({p \in o.done : own[p] = "api"}, "free")
          /\ task' = IF o.ok /\ task.ok THEN AfterOperation ELSE [task EXCEPT !.pc = Failed]
    BY <1>7 DEF Release
  <2>2. {p \in o.done : own[p] = "api"} \in SUBSET Ports
    BY <1>0, OutcomeType
  <2>3. own' \in [Ports -> {"free", "api", "stale", "other"}]
    BY <2>1, <2>2, PortUpdates DEF Grant
  <2>4. AfterOperation \in Task
    BY TaskUpdates, Steps DEF AfterOperation
  <2>5. task' \in Task
    BY <2>1, <2>4, TaskUpdates, Steps
  <2> QED BY <1>7, <2>3, <2>5 DEF Release, ServerType
<1> QED BY <1>1, <1>2, <1>3, <1>4, <1>5, <1>6, <1>7

\* The guard and the write-ahead stages keep the types.
LEMMA StageType ==
  ASSUME TypeOK, GuardPasses \/ GuardExpires \/ AdvanceStage \/ StageFails
  PROVE  TypeOK'
<1> USE DEF TypeOK, DiskType, MemoryType, HistoryType, server, history
<1>1. \A stage \in Stage : Advanced(intent, stage) \in Intent
  <2> SUFFICES ASSUME NEW stage \in Stage PROVE Advanced(intent, stage) \in Intent
    OBVIOUS
  <2>1. [p \in Ports |-> IF p \in intent.ports THEN prog[p] ELSE {}] \in [Ports -> SUBSET Nonce0]
    BY DEF ServerType
  <2>2. \A f \in [Ports -> SUBSET Nonce0] :
          /\ [intent EXCEPT !.stage = stage] \in Intent
          /\ [intent EXCEPT !.stage = stage, !.streams = f] \in Intent
    BY DEF Intent
  <2> QED BY <2>1, <2>2 DEF Advanced
<1>2. Hooks \subseteq Stage
  BY DEF Hooks, Stage
<1>3. ASSUME task.pc \in Hooks PROVE AfterHook \in Step
  BY <1>3, Steps DEF Hooks, AfterHook
<1>4. CASE GuardPasses
  <2>1. task' \in Task
    BY <1>4, TaskUpdates, Steps DEF GuardPasses, Goto
  <2> QED BY <1>4, <2>1 DEF GuardPasses, ServerType, disk
<1>5. CASE GuardExpires
  <2>1. task' \in Task
    BY <1>5, TaskUpdates, Steps DEF GuardExpires, Goto
  <2>2. intent' \in Intent
    BY <1>5 DEF GuardExpires, Intent
  <2> QED BY <1>5, <2>1, <2>2 DEF GuardExpires, ServerType
<1>6. CASE AdvanceStage
  <2>1. task' \in Task
    <3>1. task' = [task EXCEPT !.pc = AfterHook] /\ AfterHook \in Step
      BY <1>6, <1>3 DEF AdvanceStage, Goto
    <3> QED BY <3>1, TaskUpdates
  <2>2. intent' \in Intent
    BY <1>6, <1>1, <1>2 DEF AdvanceStage
  <2> QED BY <1>6, <2>1, <2>2 DEF AdvanceStage, ServerType
<1>7. CASE StageFails
  <2>1. task' \in Task
    BY <1>7, TaskUpdates, Steps DEF StageFails
  <2>2. intent' \in Intent
    BY <1>7, <1>1, <1>2 DEF StageFails
  <2> QED BY <1>7, <2>1, <2>2 DEF StageFails, ServerType
<1> QED BY <1>4, <1>5, <1>6, <1>7

\* The RPCs of a recovery under control of its ports keep the types.
LEMMA ControlType ==
  ASSUME TypeOK,
         Control \/ RollbackTraffic \/ RestoreStreams \/ RestoreAcquisition \/ Verify
  PROVE  TypeOK'
<1> USE DEF TypeOK, DiskType, MemoryType, HistoryType, disk, history
<1>0. intent.ports \in SUBSET Ports /\ intent.streams \in [Ports -> SUBSET Nonce0]
  BY DEF Intent
<1>1. CASE Control
  <2> DEFINE missing == {p \in intent.ports : own[p] # "api"}
             pc == CASE task.goal = "rollback"  -> "rollback"
                     [] task.goal = "normalize" -> "streams"
                     [] OTHER                   -> "restore"
  <2>1. PICK o \in Outcomes(missing) :
          /\ Grant(o.done, "api")
          /\ task' = IF ~o.ok THEN [task EXCEPT !.pc = Failed]
                     ELSE [task EXCEPT !.ok = TRUE, !.pc = pc]
    BY <1>1 DEF Control
  <2>2. o.done \in SUBSET Ports /\ pc \in Step
    BY <1>0, OutcomeType, Steps
  <2>3. own' \in [Ports -> {"free", "api", "stale", "other"}]
    BY <2>1, <2>2, PortUpdates DEF Grant
  <2> HIDE DEF missing, pc
  <2>4. task' \in Task
    BY <2>1, <2>2, TaskUpdates, Steps
  <2> QED BY <1>1, <2>3, <2>4 DEF Control, ServerType
<1>2. CASE RollbackTraffic
  <2>1. PICK o \in Outcomes({p \in intent.ports : run[p] # "stopped"}) :
          Stopped(o.done) /\ (Goto("streams") \/ ThenRestore(FALSE))
    BY <1>2 DEF RollbackTraffic
  <2>2. o.done \in SUBSET Ports
    BY <1>0, OutcomeType
  <2>3. task' \in Task
    <3>1. "streams" \in Step /\ "restore" \in Step
      BY Steps
    <3>2. CASE Goto("streams")
      BY <3>1, <3>2, TaskUpdates DEF Goto
    <3>3. CASE ThenRestore(FALSE)
      BY <3>1, <3>3, TaskUpdates DEF ThenRestore
    <3> HIDE DEF TypeOK
    <3> QED BY <2>1, <3>2, <3>3
  <2> QED BY <1>2, <2>1, <2>2, <2>3, StoppedType DEF RollbackTraffic, ServerType
<1>3. CASE RestoreStreams
  <2>1. PICK done :
          prog' = [p \in Ports |-> IF p \in done THEN intent.streams[p] ELSE prog[p]]
    BY <1>3 DEF RestoreStreams
  <2>2. PICK ok \in BOOLEAN : ThenRestore(ok)
    BY <1>3 DEF RestoreStreams
  <2>3. task' \in Task
    BY <2>2, TaskUpdates, Steps DEF ThenRestore
  <2>4. prog' \in [Ports -> SUBSET Nonce0]
    BY <2>1, <1>0 DEF ServerType
  <2> QED BY <1>3, <2>3, <2>4 DEF RestoreStreams, ServerType
<1>4. CASE RestoreAcquisition
  <2>1. PICK o \in Outcomes({p \in intent.ports \ intent.acquired : own[p] = "api"}) :
          Grant(o.done, "free")
    BY <1>4 DEF RestoreAcquisition
  <2>2. PICK b \in BOOLEAN : Goto(IF b THEN AfterControl ELSE Failed)
    BY <1>4 DEF RestoreAcquisition
  <2>3. own' \in [Ports -> {"free", "api", "stale", "other"}]
    <3>1. o.done \in SUBSET Ports
      BY <1>0, OutcomeType
    <3> QED BY <2>1, <3>1, PortUpdates DEF Grant
  <2>4. task' \in Task
    BY <2>2, TaskUpdates, Steps DEF Goto
  <2> QED BY <1>4, <2>3, <2>4 DEF RestoreAcquisition, ServerType
<1>5. CASE Verify
  <2>1. task' \in Task
    <3>1. \A pc \in Step, goal \in Goal :
            [task EXCEPT !.live = run, !.pc = pc, !.goal = goal] \in Task
      BY DEF Task, ServerType
    <3>2. \/ Goto("unresolved")
          \/ \E pc \in {"clear", "promote", "control"}, goal \in {task.goal, "promote"} :
               task' = [task EXCEPT !.live = run, !.pc = pc, !.goal = goal]
      BY <1>5 DEF Verify
    <3>3. /\ task.goal \in Goal /\ "promote" \in Goal
          /\ {"unresolved", "clear", "promote", "control"} \subseteq Step
      BY Steps DEF Task
    <3>4. CASE Goto("unresolved")
      BY <3>3, <3>4, TaskUpdates DEF Goto
    <3>5. CASE \E pc \in {"clear", "promote", "control"}, goal \in {task.goal, "promote"} :
                 task' = [task EXCEPT !.live = run, !.pc = pc, !.goal = goal]
      <4>1. PICK pc \in {"clear", "promote", "control"}, goal \in {task.goal, "promote"} :
                 task' = [task EXCEPT !.live = run, !.pc = pc, !.goal = goal]
        BY <3>5
      <4>2. pc \in Step /\ goal \in Goal
        BY <3>3
      <4> QED BY <3>1, <4>1, <4>2
    <3> QED BY <3>2, <3>4, <3>5
  <2> QED BY <1>5, <2>1 DEF Verify, ServerType, server
<1> QED BY <1>1, <1>2, <1>3, <1>4, <1>5

\* What a persisted document may be is typed, whether or not the write took place.
LEMMA PersistType ==
  ASSUME TypeOK, NEW saved, NEW s \in Session, NEW rs \in [Nonce -> Run], NEW i \in Intent,
         Persist(saved, s, rs, i)
  PROVE  DiskType'
  BY DEF Persist, TypeOK, DiskType, disk

\* What the steps that end an operation read, and where they go, has its type.
LEMMA IdSessionType ==
  ASSUME TypeOK
  PROVE  /\ session.id \in Nonce0 /\ intent.n \in Nonce0 /\ intent.ports \in SUBSET Ports
         /\ session.groups \in SUBSET Nonce /\ session.completed \in SUBSET Nonce
         /\ Written \in Task /\ Unwritten \in Task /\ Idle \in Task
         /\ NoIntent \in Intent
<1>1. Written \in Task /\ Unwritten \in Task
  BY RecordTypes, TaskUpdates, Steps DEF Written, Unwritten, TypeOK, MemoryType
<1> QED BY <1>1, RecordTypes DEF TypeOK, DiskType, Session, Intent

\* The records a promotion writes.
LEMMA PromotedType ==
  ASSUME TypeOK, intent.n # 0
  PROVE  PromotedSession(intent) \in Session /\ PromotedRuns(intent) \in [Nonce -> Run]
<1>0. /\ intent.n \in Nonce /\ intent.auth \in Nat /\ intent.ports \in SUBSET Ports
      /\ intent.lease \in Lease /\ intent.base \in [Ports -> LiveState]
      /\ intent.op \in Operation
  BY DEF TypeOK, DiskType, Intent, Nonce0, Nonce
<1>1. StartedSession(intent) \in Session
  <2> DEFINE replaced == {n \in session.groups : runs[n].ports \cap intent.ports # {}}
  <2>1. replaced \in SUBSET Nonce
    BY DEF TypeOK, DiskType, Session
  <2>2. [NoSession EXCEPT !.id = intent.n, !.auth = intent.auth, !.groups = {intent.n},
                          !.evidence[intent.n] = "start"] \in Session
    BY <1>0, ZeroIsNonce DEF NoSession, Session
  <2>3. [session EXCEPT !.groups = (@ \ replaced) \cup {intent.n},
                        !.completed = @ \cup replaced, !.evidence[intent.n] = "start"]
          \in Session
    BY <1>0, <2>1 DEF TypeOK, DiskType, Session
  <2> QED BY <2>2, <2>3 DEF StartedSession
<1>2. MutatedSession(intent) \in Session
  BY <1>0 DEF MutatedSession, TypeOK, DiskType, Session
<1>3. StartedRuns(intent) \in [Nonce -> Run]
  <2>1. [NoRun EXCEPT !.ports = intent.ports, !.lease = intent.lease,
                      !.st = [p \in Ports |-> IF p \in intent.ports THEN "running"
                                              ELSE "stopped"]] \in Run
    BY <1>0, ZeroIsNonce DEF NoRun, Run, PortState, LiveState
  <2> QED BY <2>1, RecordTypes DEF StartedRuns, TypeOK, DiskType
<1>4. ASSUME NEW r \in Run PROVE MutatedRun(intent, r) \in Run
  <2>1. \A p \in Ports : Desired(intent, p) \in LiveState
    BY <1>0 DEF Desired, Operation, LiveState
  <2> DEFINE st == [p \in Ports |-> IF p \in r.ports \cap intent.ports THEN Desired(intent, p)
                                    ELSE r.st[p]]
             stopped == GroupState([r EXCEPT !.st = st]) = "stopped"
  <2>2. st \in [Ports -> PortState]
    BY <2>1 DEF Run, PortState
  <2> HIDE DEF st
  <2>3. \A b \in BOOLEAN :
          [r EXCEPT !.st = st,
                    !.lease = IF b THEN "none" ELSE @,
                    !.done = IF b /\ @ = "none" THEN "operator_stop" ELSE @,
                    !.stopper = IF b /\ r.done = "none" THEN intent.n ELSE @] \in Run
    BY <2>2, <1>0, ZeroIsNonce DEF Run, Lease
  <2>4. stopped \in BOOLEAN
    OBVIOUS
  <2> QED BY <2>3, <2>4 DEF MutatedRun, st
<1>5. MutatedRuns(intent) \in [Nonce -> Run]
  BY <1>4 DEF MutatedRuns, TypeOK, DiskType
<1> QED BY <1>1, <1>2, <1>3, <1>5 DEF PromotedSession, PromotedRuns

\* A session that is closed leaves groups of the type of a group.
LEMMA ClosedType ==
  ASSUME TypeOK PROVE Closed(session, runs) \in [Nonce -> Run]
<1>1. ASSUME NEW r \in Run
      PROVE  [r EXCEPT !.st = NoRun.st, !.lease = "none",
                       !.done = IF @ = "none" THEN "observed" ELSE @] \in Run
  BY DEF Run, NoRun, Lease, PortState, LiveState
<1> QED BY <1>1 DEF Closed, TypeOK, DiskType

\* A group that is reconciled with the live ports keeps its type.
LEMMA ReconciledType ==
  ASSUME TypeOK, NEW r \in Run, NEW vouches \in BOOLEAN
  PROVE  ReconciledRun(r, vouches) \in Run
<1> DEFINE seen(p) == IF p \notin r.ports \/ r.done # "none" \/ task.live[p] = "stopped"
                      THEN "stopped"
                      ELSE IF vouches THEN task.live[p] ELSE "unknown"
           st == [p \in Ports |-> seen(p)]
           stopped == GroupState([r EXCEPT !.st = st]) = "stopped"
<1>1. st \in [Ports -> PortState]
  BY DEF TypeOK, MemoryType, Task, PortState, LiveState
<1> HIDE DEF st
<1>2. \A b \in BOOLEAN : [r EXCEPT !.st = st, !.lease = IF b THEN "none" ELSE @,
                          !.done = IF b /\ @ = "none" THEN "observed" ELSE @] \in Run
  BY <1>1 DEF Run, Lease
<1>3. stopped \in BOOLEAN
  OBVIOUS
<1> QED BY <1>2, <1>3 DEF ReconciledRun, st

\* Outside the steps that follow the last write of an operation, its intent is pending.
OperationPending ==
  task.pc \notin {"idle", "reconcile", "retire", "retain", "unresolved"} => intent.n # 0

\* The steps that persist the outcome of an operation keep the types.
LEMMA PersistingType ==
  ASSUME TypeOK, OperationPending,
         \/ Promote \/ PromotionRefused \/ Retain \/ Clear
         \/ RetireAfterRollover \/ RetireAfterTermination \/ Reconcile
  PROVE  TypeOK'
<1>0. /\ session \in Session /\ runs \in [Nonce -> Run] /\ intent \in Intent
      /\ owned \in Nonce0 /\ task \in Task /\ 0 \in Nonce0
  BY ZeroIsNonce DEF TypeOK, DiskType, MemoryType
<1>1. CASE Promote
  <2> DEFINE s == PromotedSession(intent)
             rs == PromotedRuns(intent)
  <2>1. s \in Session /\ rs \in [Nonce -> Run] /\ s.id \in Nonce0
    BY <1>1, PromotedType DEF Promote, OperationPending, Session
  <2> HIDE DEF s, rs
  <2>2. CASE task' = Idle /\ UNCHANGED <<disk, owned>>
    BY <1>1, <2>2, RecordTypes
       DEF Promote, TypeOK, ServerType, DiskType, MemoryType, HistoryType, server, disk, history
  <2>3. CASE \E saved \in Saved :
               /\ Persist(saved, s, rs, NoIntent)
               /\ owned' \in {owned, 0, s.id}
               /\ task' \in {Written, Unwritten}
    <3>1. DiskType'
      BY <2>1, <2>3, PersistType, RecordTypes
    <3>2. MemoryType'
      BY <1>0, <2>1, <2>3, IdSessionType DEF MemoryType
    <3> QED BY <1>1, <3>1, <3>2 DEF Promote, TypeOK, ServerType, HistoryType, server, history
  <2> QED BY <1>1, <2>2, <2>3 DEF Promote, s, rs
<1>2. CASE PromotionRefused
  BY <1>2, IdSessionType
     DEF PromotionRefused, TypeOK, ServerType, DiskType, MemoryType, HistoryType, server, disk,
         history
<1>3. CASE Retain
  <2>1. intent' \in Intent
    BY <1>0, <1>3 DEF Retain, Intent
  <2> QED BY <1>0, <1>3, <2>1, RecordTypes
          DEF Retain, TypeOK, ServerType, DiskType, MemoryType, HistoryType, server, history
<1>4. CASE Clear
  <2>1. DiskType'
    BY <1>0, <1>4, PersistType, RecordTypes DEF Clear
  <2>2. MemoryType'
    BY <1>0, <1>4, IdSessionType DEF Clear, MemoryType
  <2> QED BY <1>4, <2>1, <2>2 DEF Clear, TypeOK, ServerType, HistoryType, server, history
<1>5. CASE RetireAfterRollover
  <2>1. DiskType'
    BY <1>0, <1>5, PersistType, ClosedType, RecordTypes DEF RetireAfterRollover
  <2>2. MemoryType'
    <3>1. [task EXCEPT !.pc = "reconcile"] \in Task
      BY <1>0, TaskUpdates, Steps
    <3> QED BY <1>0, <1>5, <3>1, RecordTypes DEF RetireAfterRollover, MemoryType
  <2> QED BY <1>5, <2>1, <2>2 DEF RetireAfterRollover, TypeOK, ServerType, HistoryType, server, history
<1>6. CASE RetireAfterTermination
  <2>1. DiskType'
    BY <1>0, <1>6, PersistType, ClosedType, RecordTypes DEF RetireAfterTermination
  <2>2. MemoryType'
    BY <1>0, <1>6, RecordTypes DEF RetireAfterTermination, MemoryType
  <2> QED BY <1>6, <2>1, <2>2
          DEF RetireAfterTermination, TypeOK, ServerType, HistoryType, server, history
<1>7. CASE Reconcile
  <2>1. PICK owner \in {session.id, owned, 0}, vouches \in BOOLEAN :
          \/ UNCHANGED <<disk, owned>>
          \/ /\ \E saved \in Saved :
                  Persist(saved, session,
                          [n \in Nonce |-> IF n \in session.groups
                                           THEN ReconciledRun(runs[n], vouches) ELSE runs[n]],
                          intent)
             /\ owned' \in {0, owner}
    BY <1>7 DEF Reconcile
  <2>2. [n \in Nonce |-> IF n \in session.groups THEN ReconciledRun(runs[n], vouches)
                         ELSE runs[n]] \in [Nonce -> Run]
    BY <1>0, ReconciledType
  <2>3. DiskType'
    BY <1>0, <2>1, <2>2, PersistType DEF DiskType, disk
  <2>4. MemoryType'
    BY <1>0, <1>7, <2>1, IdSessionType DEF Reconcile, MemoryType
  <2> QED BY <1>7, <2>3, <2>4 DEF Reconcile, TypeOK, ServerType, HistoryType, server, history
<1> QED BY <1>1, <1>2, <1>3, <1>4, <1>5, <1>6, <1>7

\* The branches of a recovery keep the types.
LEMMA RecoverType ==
  ASSUME TypeOK,
         \/ Snapshot \/ RecoverForeign \/ RecoverYields \/ RecoverUnsafe
         \/ RollBackStart \/ AdoptStart \/ ReplayStart \/ AbandonStart
         \/ RecoverUpdate \/ AdoptAction \/ ClearAction \/ RetryAction
  PROVE  TypeOK'
<1> USE DEF server, disk, history
<1>0. /\ task \in Task /\ owned \in Nonce0 /\ session.id \in Nonce0
      /\ intent.ports \in SUBSET Ports /\ Idle \in Task
      /\ run \in [Ports -> LiveState] /\ authority \in Nat
  BY RecordTypes, IdSessionType DEF TypeOK, ServerType, MemoryType
<1>1. SUFFICES UNCHANGED <<server, authority, disk, history>> /\ owned' \in Nonce0 /\ task' \in Task
  BY DEF TypeOK, ServerType, DiskType, MemoryType, HistoryType
<1>2. UNCHANGED <<server, authority, disk, history>> /\ owned' \in Nonce0
  <2>1. CASE Snapshot \/ RecoverForeign \/ RecoverYields \/ RecoverUnsafe
    BY <1>0, <2>1 DEF Snapshot, RecoverForeign, RecoverYields, RecoverUnsafe
  <2>2. CASE \E op : Recovering(op)
    BY <1>0, <2>2 DEF Recovering
  <2>3. CASE RollBackStart \/ AdoptStart \/ ReplayStart \/ AbandonStart
    BY <2>2, <2>3 DEF RollBackStart, AdoptStart, ReplayStart, AbandonStart
  <2>4. CASE RecoverUpdate \/ AdoptAction \/ ClearAction \/ RetryAction
    BY <2>2, <2>4 DEF RecoverUpdate, AdoptAction, ClearAction, RetryAction
  <2> QED BY <2>1, <2>3, <2>4
<1>3. /\ \A pc \in {"rollover", "unresolved"} : Goto(pc) => task' \in Task
      /\ \A goal \in {"rollback", "promote", "clear", "retain"} : Controlled(goal) => task' \in Task
  <2>1. "control" \in Step /\ {"rollover", "unresolved"} \subseteq Step
        /\ {"rollback", "promote", "clear", "retain"} \subseteq Goal
    BY Steps
  <2>2. ASSUME NEW pc \in {"rollover", "unresolved"}, Goto(pc) PROVE task' \in Task
    BY <1>0, <2>1, <2>2, TaskUpdates DEF Goto
  <2>3. ASSUME NEW goal \in {"rollback", "promote", "clear", "retain"}, Controlled(goal)
        PROVE  task' \in Task
    <3>1. [task EXCEPT !.pc = "control", !.goal = goal] \in Task
      BY <1>0, <2>1, TaskUpdates
    <3> QED BY <2>3, <3>1 DEF Controlled
  <2> QED BY <2>2, <2>3
<1>4. CASE Snapshot
  <2>1. \A pc \in Step : [Idle EXCEPT !.pc = pc, !.mode = "recovery", !.live = run,
                                      !.auth = authority] \in Task
    BY <1>0 DEF Task
  <2> QED BY <1>4, <2>1, <1>2, Steps DEF Snapshot
<1>5. CASE RecoverForeign \/ RecoverYields \/ RecoverUnsafe
  BY <1>0, <1>2, <1>3, <1>5 DEF RecoverForeign, RecoverYields, RecoverUnsafe
<1>6. CASE RollBackStart \/ AdoptStart \/ AbandonStart
  BY <1>2, <1>3, <1>6 DEF RollBackStart, AdoptStart, AbandonStart
<1>7. CASE ReplayStart
  <2>1. "acquire_intent" \in Step /\ "control" \in Step /\ "normalize" \in Goal
    BY Steps
  <2> DEFINE replay == [task EXCEPT !.ports = intent.ports]
  <2>2. [replay EXCEPT !.pc = "acquire_intent"] \in Task
    BY <1>0, <2>1, TaskUpdates
  <2>3. [replay EXCEPT !.pc = "control", !.goal = "normalize"] \in Task
    BY <1>0, <2>1, TaskUpdates
  <2> QED BY <1>2, <1>7, <2>2, <2>3 DEF ReplayStart
<1>8. CASE RecoverUpdate \/ AdoptAction \/ ClearAction \/ RetryAction
  <2>1. \A T \in SUBSET Ports : [task EXCEPT !.pc = "acquire", !.ports = T] \in Task
    <3>1. "acquire" \in Step
      BY Steps
    <3> QED BY <1>0, <3>1, TaskUpdates
  <2>2. {p \in intent.ports : task.live[p] # Desired(intent, p)} \in SUBSET Ports
    BY <1>0
  <2> QED BY <1>0, <1>2, <1>3, <1>8, <2>1, <2>2
          DEF RecoverUpdate, AdoptAction, ClearAction, RetryAction
<1> QED BY <1>4, <1>5, <1>6, <1>7, <1>8

\* Crashes, exits, other controllers, the operator and the clock keep the types.
LEMMA EnvironmentType ==
  ASSUME TypeOK, StopTrex \/ Environment
  PROVE  TypeOK'
<1> USE DEF server, disk, history
<1>0. /\ task \in Task /\ owned \in Nonce0 /\ Idle \in Task /\ 0 \in Nonce0
      /\ run \in [Ports -> LiveState] /\ by \in [Ports -> Nonce0]
      /\ prog \in [Ports -> SUBSET Nonce0] /\ authority \in Nat
      /\ own \in [Ports -> {"free", "api", "stale", "other"}]
      /\ session \in Session /\ runs \in [Nonce -> Run] /\ intent \in Intent
      /\ nonce \in Nonce0 /\ starts \in [Nonce -> Nat] /\ deltas \in [Nonce -> Nat]
      /\ held \in SUBSET Ports
  BY RecordTypes, ZeroIsNonce DEF TypeOK, ServerType, DiskType, MemoryType, HistoryType
<1>1. ASSUME /\ run' \in [Ports -> LiveState] /\ by' \in [Ports -> Nonce0]
             /\ prog' \in [Ports -> SUBSET Nonce0] /\ authority' \in Nat
             /\ own' \in [Ports -> {"free", "api", "stale", "other"}]
             /\ session' \in Session /\ runs' \in [Nonce -> Run] /\ intent' \in Intent
             /\ owned' \in Nonce0 /\ task' \in Task
             /\ nonce' \in Nonce0 /\ starts' \in [Nonce -> Nat] /\ deltas' \in [Nonce -> Nat]
             /\ held' \in SUBSET Ports
      PROVE  TypeOK'
  BY <1>1 DEF TypeOK, ServerType, DiskType, MemoryType, HistoryType
<1>2. ASSUME HardwareReset
      PROVE  /\ run' \in [Ports -> LiveState] /\ by' \in [Ports -> Nonce0]
             /\ prog' \in [Ports -> SUBSET Nonce0] /\ held' \in SUBSET Ports
             /\ own' \in [Ports -> {"free", "api", "stale", "other"}]
  BY <1>0, <1>2 DEF HardwareReset, LiveState
<1>3. CASE StopTrex
  <2>1. task' \in Task
    BY <1>0, <1>3, TaskUpdates, Steps DEF StopTrex, Goto
  <2> QED BY <1>0, <1>1, <1>2, <1>3, <2>1 DEF StopTrex
<1>4. CASE Crash
  BY <1>0, <1>1, <1>4 DEF Crash
<1>5. CASE TrexExit
  <2>1. task' \in Task
    BY <1>0, <1>5, TaskUpdates DEF TrexExit
  <2>2. authority' \in Nat
    BY <1>0, <1>5 DEF TrexExit
  <2> QED BY <1>0, <1>1, <1>2, <1>5, <2>1, <2>2 DEF TrexExit
<1>6. ASSUME NEW p \in Ports,
             \/ TrafficEnds(p) \/ HandlerExpires(p) \/ ExternalTraffic(p) \/ ExternalRelease(p)
             \/ OperatorAcquires(p) \/ OperatorReleases(p)
      PROVE  TypeOK'
  <2>1. ASSUME NEW who \in {"free", "api", "other"}, Grant({p}, who)
        PROVE  own' \in [Ports -> {"free", "api", "stale", "other"}]
    BY <1>0, <2>1 DEF Grant
  <2>2. ASSUME Stopped({p}) PROVE run' \in [Ports -> LiveState] /\ by' \in [Ports -> Nonce0]
    BY <2>2, StoppedType
  <2>3. CASE TrafficEnds(p)
    BY <1>0, <1>1, <2>2, <2>3 DEF TrafficEnds, memory
  <2>4. CASE HandlerExpires(p)
    BY <1>0, <1>1, <2>1, <2>4 DEF HandlerExpires, memory
  <2>5. CASE ExternalTraffic(p)
    <3>1. run' \in [Ports -> LiveState]
      BY <1>0, <2>5 DEF ExternalTraffic, LiveState
    <3> QED BY <1>0, <1>1, <2>1, <2>5, <3>1 DEF ExternalTraffic, memory
  <2>6. CASE ExternalRelease(p)
    BY <1>0, <1>1, <2>1, <2>2, <2>6 DEF ExternalRelease, memory
  <2>7. CASE OperatorAcquires(p)
    BY <1>0, <1>1, <2>1, <2>7 DEF OperatorAcquires, memory
  <2>8. CASE OperatorReleases(p)
    BY <1>0, <1>1, <2>1, <2>8 DEF OperatorReleases, memory
  <2> QED BY <1>6, <2>3, <2>4, <2>5, <2>6, <2>7, <2>8
<1>7. ASSUME NEW n \in Nonce, LeaseTick(n) PROVE TypeOK'
  <2>1. \A lease \in Lease : Later(lease) \in Lease
    BY DEF Later, Lease
  <2>2. \A r \in Run : [r EXCEPT !.lease = Later(@)] \in Run
    BY <2>1 DEF Run
  <2>3. [runs EXCEPT ![n].lease = Later(@)] \in [Nonce -> Run]
    BY <1>0, <2>2
  <2>4. [intent EXCEPT !.lease = Later(@)] \in Intent
    BY <1>0, <2>1 DEF Intent
  <2> QED BY <1>0, <1>1, <1>7, <2>3, <2>4 DEF LeaseTick, memory
<1> QED BY <1>3, <1>4, <1>5, <1>6, <1>7 DEF Environment

\* The mutations a client may ask for keep the types.
LEMMA BeginType ==
  ASSUME TypeOK, Begin
  PROVE  TypeOK'
<1>1. Ready
  BY DEF Begin, PrepareStart, PrepareMutation
<1>2. ASSUME NEW op \in Operation, NEW T \in SUBSET Ports
      PROVE  NewIntent(op, T) \in Intent
  <2>1. nonce + 1 \in Nonce0 /\ 0 \in Nonce0
    BY <1>1, BoundsAssumption, ZeroIsNonce DEF Ready, TypeOK, HistoryType, Nonce0
  <2>2. run \in [Ports -> LiveState] /\ authority \in Nat /\ {p \in T : own[p] = "api"} \in SUBSET Ports
    BY DEF TypeOK, ServerType
  <2> QED BY <2>1, <2>2, RecordTypes DEF NewIntent, NoIntent, Intent
<1>3. session.id \in Nonce0 /\ 0 \in Nonce0
  BY IdSessionType, ZeroIsNonce
<1>6. "start" \in Operation /\ Commands \subseteq Operation
  BY RequestsAssumption DEF Operation
<1>4. ASSUME NEW T \in Targets, NEW clear \in BOOLEAN, NEW lease \in LeaseChoices,
             NEW expect \in {0, session.id}, PrepareStart(T, expect, clear, lease)
      PROVE  TypeOK'
  <2>1. [NewIntent("start", T) EXCEPT !.expected = expect, !.clear = clear, !.lease = lease]
          \in Intent
    <3>1. NewIntent("start", T) \in Intent /\ lease \in Lease
      BY <1>2, <1>6, RequestsAssumption DEF Lease
    <3> QED BY <1>3, <3>1 DEF Intent
  <2> QED BY <1>1, <1>4, <2>1, PrepareType, Steps DEF PrepareStart
<1>5. ASSUME NEW op \in Commands, NEW T \in Targets, NEW relative \in BOOLEAN,
             PrepareMutation(op, T, relative)
      PROVE  TypeOK'
  <2>1. [NewIntent(op, T) EXCEPT !.expected = session.id, !.relative = relative] \in Intent
    <3>1. NewIntent(op, T) \in Intent
      BY <1>2, <1>6, RequestsAssumption
    <3> QED BY <1>3, <3>1 DEF Intent
  <2> QED BY <1>1, <1>5, <2>1, PrepareType, Steps DEF PrepareMutation
<1> QED BY <1>4, <1>5 DEF Begin

\* Every step of an operation under way keeps the types.
LEMMA ExecuteType ==
  ASSUME TypeOK, OperationPending, Execute
  PROVE  TypeOK'
  BY StageType, RpcType, ControlType, PersistingType, RecoverType DEF Execute

\* Every step keeps the types, given that an operation under way has its intent on disk.
LEMMA NextType ==
  ASSUME TypeOK, OperationPending, [Next]_vars
  PROVE  TypeOK'
<1>1. CASE Next
  BY <1>1, BeginType, RecoverType, EnvironmentType, ExecuteType DEF Next
<1>2. CASE UNCHANGED vars
  BY <1>2 DEF vars, server, disk, memory, history, TypeOK, ServerType, DiskType, MemoryType,
              HistoryType
<1> QED BY <1>1, <1>2

-----------------------------------------------------------------------------
(* The pending intent *)

\* The steps that may replace the intent or leave the steps of an operation.
Replacing == \/ Begin \/ Promote \/ Clear \/ RetireAfterRollover \/ RetireAfterTermination

\* Every other step keeps the identity of the intent.
LEMMA IntentKept ==
  ASSUME TypeOK, Next, ~Replacing
  PROVE  intent'.n = intent.n
<1> USE DEF disk
<1>0. intent \in Intent
  BY DEF TypeOK, DiskType
<1>1. CASE Snapshot \/ StopTrex
  BY <1>1 DEF Snapshot, StopTrex
<1>2. CASE GuardPasses \/ GuardExpires \/ AdvanceStage \/ StageFails
  <2>1. \A stage : Advanced(intent, stage).n = intent.n
    BY <1>0 DEF Advanced, Intent
  <2>2. [intent EXCEPT !.phase = "cleanup_required"].n = intent.n
    BY <1>0 DEF Intent
  <2> QED BY <1>2, <2>1, <2>2 DEF GuardPasses, GuardExpires, AdvanceStage, StageFails
<1>3. CASE \/ Acquire \/ Preflight \/ RemoveStreams \/ AddProfile \/ StartTraffic \/ Command
           \/ Release
  BY <1>3 DEF Acquire, Preflight, RemoveStreams, AddProfile, StartTraffic, Command, Release
<1>4. CASE Control \/ RollbackTraffic \/ RestoreStreams \/ RestoreAcquisition \/ Verify
  BY <1>4 DEF Control, RollbackTraffic, RestoreStreams, RestoreAcquisition, Verify
<1>5. CASE PromotionRefused \/ Retain \/ Reconcile
  <2>1. CASE PromotionRefused
    BY <2>1 DEF PromotionRefused
  <2>2. CASE Retain
    <3>1. \A phase : [intent EXCEPT !.phase = phase].n = intent.n
      BY <1>0 DEF Intent
    <3> QED BY <2>2, <3>1 DEF Retain
  <2>3. CASE Reconcile
    BY <2>3 DEF Reconcile, Persist
  <2> QED BY <1>5, <2>1, <2>2, <2>3
<1>6. CASE RecoverForeign \/ RecoverYields \/ RecoverUnsafe
  BY <1>6 DEF RecoverForeign, RecoverYields, RecoverUnsafe
<1>7. CASE \/ RollBackStart \/ AdoptStart \/ ReplayStart \/ AbandonStart
           \/ RecoverUpdate \/ AdoptAction \/ ClearAction \/ RetryAction
  BY <1>7 DEF RollBackStart, AdoptStart, ReplayStart, AbandonStart, RecoverUpdate, AdoptAction,
              ClearAction, RetryAction, Recovering
<1>8. CASE Environment
  <2>1. ASSUME NEW n \in Nonce, LeaseTick(n) PROVE intent'.n = intent.n
    <3>1. \A lease : [intent EXCEPT !.lease = lease].n = intent.n
      BY <1>0 DEF Intent
    <3> QED BY <2>1, <3>1 DEF LeaseTick
  <2>2. CASE ~\E n \in Nonce : LeaseTick(n)
    BY <1>8, <2>2 DEF Environment, Crash, TrexExit, TrafficEnds, HandlerExpires, ExternalTraffic,
                      ExternalRelease, OperatorAcquires, OperatorReleases
  <2> QED BY <2>1, <2>2
<1> QED BY <1>1, <1>2, <1>3, <1>4, <1>5, <1>6, <1>7, <1>8 DEF Next, Execute, Replacing

\* An operation under way has its intent on disk, until the steps that end it.
LEMMA PendingKept ==
  ASSUME TypeOK, OperationPending, [Next]_vars
  PROVE  OperationPending'
<1> DEFINE Exempt == {"idle", "reconcile", "retire", "retain", "unresolved"}
<1>0. task \in Task /\ Idle \in Task /\ intent \in Intent
  BY RecordTypes DEF TypeOK, MemoryType, DiskType
<1>1. ASSUME task'.pc \in Exempt PROVE OperationPending'
  BY <1>1 DEF OperationPending
<1>2. ASSUME task.pc \notin Exempt, intent'.n = intent.n PROVE OperationPending'
  BY <1>2 DEF OperationPending
<1>3. ASSUME task'.pc = task.pc, intent'.n = intent.n PROVE OperationPending'
  BY <1>3 DEF OperationPending
<1>4. /\ Idle.pc \in Exempt /\ Written.pc \in Exempt /\ Unwritten.pc \in Exempt
      /\ [task EXCEPT !.pc = "reconcile"].pc \in Exempt
  BY <1>0 DEF Idle, Written, Unwritten, Task
<1>5. CASE Promote
  <2>1. task' \in {Idle, Written, Unwritten}
    BY <1>5 DEF Promote
  <2> QED BY <1>1, <1>4, <2>1
<1>6. CASE Clear \/ RetireAfterRollover \/ RetireAfterTermination
  BY <1>1, <1>4, <1>6 DEF Clear, RetireAfterRollover, RetireAfterTermination
<1>7. CASE Begin
  <2>1. PICK i, pc : i.n = nonce + 1 /\ nonce \in Nat /\ Prepare(i, pc)
    <3>1. nonce \in Nat
      BY BoundsAssumption DEF TypeOK, HistoryType, Nonce0
    <3>2. ASSUME NEW T, NEW e, NEW c, NEW l, PrepareStart(T, e, c, l)
          PROVE  \E i, pc : i.n = nonce + 1 /\ Prepare(i, pc)
      <4> DEFINE i == [NewIntent("start", T) EXCEPT !.expected = e, !.clear = c, !.lease = l]
      <4>1. i.n = nonce + 1
        BY DEF NewIntent, NoIntent
      <4>2. Prepare(i, "acquire_intent")
        BY <3>2 DEF PrepareStart
      <4> QED BY <4>1, <4>2
    <3>3. ASSUME NEW op, NEW T, NEW r, PrepareMutation(op, T, r)
          PROVE  \E i, pc : i.n = nonce + 1 /\ Prepare(i, pc)
      <4> DEFINE i == [NewIntent(op, T) EXCEPT !.expected = session.id, !.relative = r]
      <4>1. i.n = nonce + 1
        BY DEF NewIntent, NoIntent
      <4>2. Prepare(i, "guard")
        BY <3>3 DEF PrepareMutation
      <4> QED BY <4>1, <4>2
    <3>4. \E i, pc : i.n = nonce + 1 /\ Prepare(i, pc)
      BY <1>7, <3>2, <3>3 DEF Begin
    <3> QED BY <3>1, <3>4
  <2>2. intent' = i \/ task' = Idle
    BY <2>1 DEF Prepare, Persist, Saved
  <2> QED BY <1>1, <1>4, <2>1, <2>2 DEF OperationPending
<1>8. CASE Next /\ ~Replacing
  <2>1. intent'.n = intent.n
    BY <1>8, IntentKept
  <2>2. CASE task.pc \notin Exempt
    BY <1>2, <2>1, <2>2
  <2>3. CASE Snapshot
    <3>1. CASE intent.n = 0
      <4>1. task'.pc = "reconcile"
        BY <2>3, <3>1 DEF Snapshot, Idle
      <4> QED BY <1>1, <4>1
    <3>2. CASE intent.n # 0
      BY <2>1, <3>2 DEF OperationPending
    <3> QED BY <3>1, <3>2
  <2>4. CASE StopTrex
    <3>1. task'.pc = "retire"
      BY <1>0, <2>4 DEF StopTrex, Goto, Task
    <3> QED BY <1>1, <3>1
  <2>5. CASE Retain \/ Reconcile \/ Crash
    BY <1>1, <1>4, <2>5 DEF Retain, Reconcile, Crash
  <2>6. CASE Environment /\ ~Crash
    <3>1. [task EXCEPT !.linked = FALSE].pc = task.pc
      BY <1>0 DEF Task
    <3>2. CASE TrexExit
      BY <1>3, <2>1, <3>1, <3>2 DEF TrexExit
    <3>3. CASE ~TrexExit
      BY <1>3, <2>1, <2>6, <3>3
         DEF Environment, TrafficEnds, HandlerExpires, ExternalTraffic, ExternalRelease,
             OperatorAcquires, OperatorReleases, LeaseTick, memory
    <3> QED BY <3>2, <3>3
  <2>7. CASE /\ task.pc \in Exempt
             /\ ~(Snapshot \/ StopTrex \/ Retain \/ Reconcile \/ Environment)
    <3>1. Execute /\ ~Promote /\ ~Clear /\ ~RetireAfterRollover /\ ~RetireAfterTermination
      BY <1>8, <2>7 DEF Next, Replacing
    <3>2. Exempt \cap Hooks = {}
      BY DEF Hooks
    <3> QED BY <2>7, <3>1, <3>2
            DEF Execute, GuardPasses, GuardExpires, AdvanceStage, StageFails, Acquire, Preflight,
                RemoveStreams, AddProfile, StartTraffic, Command, Release, Control,
                RollbackTraffic, RestoreStreams, RestoreAcquisition, Verify, PromotionRefused,
                RecoverForeign, RecoverYields, RecoverUnsafe, RollBackStart, AdoptStart,
                ReplayStart, AbandonStart, RecoverUpdate, AdoptAction, ClearAction, RetryAction,
                Recovering
  <2> QED BY <2>2, <2>3, <2>4, <2>5, <2>6, <2>7
<1>9. CASE UNCHANGED vars
  BY <1>9 DEF vars, disk, memory, OperationPending
<1> QED BY <1>5, <1>6, <1>7, <1>8, <1>9 DEF Replacing

\* The state and the persisted document keep their types: an intent samples known port
\* states only, and every record refers to nonces that were drawn.
THEOREM TypeCorrect == Spec => []TypeOK
<1>1. Init => TypeOK /\ OperationPending
  BY InitType DEF Init, OperationPending, Idle
<1>2. TypeOK /\ OperationPending /\ [Next]_vars => TypeOK' /\ OperationPending'
  BY NextType, PendingKept
<1>3. TypeOK /\ OperationPending => TypeOK
  OBVIOUS
<1> QED BY <1>1, <1>2, <1>3, PTL DEF Spec

-----------------------------------------------------------------------------
(***************************************************************************)
(* However often an operation is retried or recovered, what it asks of TRex *)
(* takes effect once: the proofs of AtMostOnceStart and RelativeUpdateOnce, *)
(* for any ports, bounds, requests and faults.                              *)
(*                                                                         *)
(* For a start, the write-ahead stage "start_intent" is what makes it so.   *)
(* Before an intent records it, its RPC was not sent; the steps that lead   *)
(* to the RPC run only from an intent that has not recorded it; and the RPC *)
(* follows the record at once, so that no recovery takes that path again.   *)
(*                                                                         *)
(* Nothing on the ports tells whether a relative update was applied, and no *)
(* stage is recorded for it.  What protects it is that a recovery never     *)
(* goes back before its RPC: the steps that lead there are taken once, by   *)
(* the mutation itself, and a recovery takes them for other intents only.   *)
(***************************************************************************)

\* The pending start has not recorded that it may have sent its RPC.
Unsent == intent.op = "start" /\ ~Reached(intent, "start_intent")

\* The steps that lead to the start RPC.
BeforeStart ==
  \/ task.pc \in {"acquire_intent", "acquired", "preflight", "streams_remove_intent", "remove",
                  "streams_removed", "profile_add_intent", "add", "profile_added",
                  "start_intent"}
  \/ task.pc = "acquire" /\ intent.op = "start"
  \/ task.goal = "normalize" /\ task.pc \in {"control", "rollback", "streams", "restore", "verify"}

StartInv ==
  /\ intent.n <= nonce
  /\ \A n \in Nonce : n > nonce => starts[n] = 0
  /\ \A n \in Nonce : starts[n] <= 1
  /\ intent.n # 0 /\ Unsent => starts[intent.n] = 0
  /\ BeforeStart => Unsent
  /\ task.pc = "start" => intent.op = "start" /\ ~Unsent /\ starts[intent.n] = 0
  /\ task.pc = "guard" => intent.op # "start"

\* Only the last two stages of a start come at or after the intent to send its RPC.
LEMMA StageOrder ==
  /\ \A stage \in Stage : Order(stage) \in Nat
  /\ "start_intent" \in Stage
  /\ \A stage \in Stage : Order(stage) >= Order("start_intent")
                           <=> stage \in {"start_intent", "start_returned"}
  BY DEF Order, Stage

\* Before the first operation nothing was sent.
LEMMA InitStart == Init => StartInv
  BY BoundsAssumption
     DEF Init, StartInv, NoIntent, Idle, BeforeStart, Nonce, Unsent, Reached, Order

\* A step that leaves the start where it is.
LEMMA StartFrame ==
  ASSUME StartInv,
         intent'.n = intent.n, intent'.op = intent.op, intent'.stage = intent.stage,
         nonce' = nonce, starts' = starts,
         BeforeStart' => Unsent, task'.pc # "start", task'.pc = "guard" => task.pc = "guard"
  PROVE  StartInv'
<1>1. Unsent' <=> Unsent
  BY DEF Unsent, Reached
<1> QED BY <1>1 DEF StartInv

\* What the updates of the locals leave in the program counter and the goal.
LEMMA TaskFields ==
  ASSUME NEW t \in Task
  PROVE  /\ \A pc : [t EXCEPT !.pc = pc].pc = pc /\ [t EXCEPT !.pc = pc].goal = t.goal
         /\ \A pc, ok : /\ [t EXCEPT !.pc = pc, !.ok = ok].pc = pc
                        /\ [t EXCEPT !.ok = ok, !.pc = pc].pc = pc
                        /\ [t EXCEPT !.pc = pc, !.ok = ok].goal = t.goal
                        /\ [t EXCEPT !.ok = ok, !.pc = pc].goal = t.goal
         /\ \A pc, goal : /\ [t EXCEPT !.pc = pc, !.goal = goal].pc = pc
                          /\ [t EXCEPT !.pc = pc, !.goal = goal].goal = goal
         /\ \A pc, T : /\ [t EXCEPT !.pc = pc, !.ports = T].pc = pc
                       /\ [t EXCEPT !.pc = pc, !.took = T].pc = pc
                       /\ [t EXCEPT !.pc = pc, !.took = T].goal = t.goal
         /\ \A ok : [t EXCEPT !.linked = ok].pc = t.pc /\ [t EXCEPT !.linked = ok].goal = t.goal
  BY DEF Task

\* The steps after an operation, or a failure of it, are not on the way to the RPC.
LEMMA AfterSteps ==
  ASSUME TypeOK
  PROVE  /\ Failed \in {"retain", "unresolved"}
         /\ Written.pc \in {"idle", "reconcile"}
         /\ Unwritten.pc \in {"idle", "retain"}
         /\ Idle.pc = "idle"
         /\ AfterOperation.pc \in {"promote", "control", "verify"}
         /\ AfterOperation.goal = "normalize" => AfterOperation.pc = "promote"
  BY TaskFields DEF Failed, Written, Unwritten, Idle, AfterOperation, TypeOK, MemoryType

\* The write-ahead stages: an intent passes "start_intent" only in the step before the RPC.
LEMMA StageStart ==
  ASSUME TypeOK, OperationPending, StartInv,
         GuardPasses \/ GuardExpires \/ AdvanceStage \/ StageFails
  PROVE  StartInv'
<1>0. task \in Task /\ intent \in Intent
  BY DEF TypeOK, MemoryType, DiskType
<1>1. CASE GuardPasses
  <2>1. task'.pc = "acquire" /\ intent' = intent /\ nonce' = nonce /\ starts' = starts
    BY <1>0, <1>1, TaskFields DEF GuardPasses, Goto, disk, history
  <2>2. intent.op # "start"
    BY <1>1 DEF GuardPasses, StartInv
  <2> QED BY <2>1, <2>2, StartFrame DEF BeforeStart
<1>2. CASE GuardExpires
  <2>1. /\ task'.pc = "clear" /\ nonce' = nonce /\ starts' = starts
        /\ intent'.n = intent.n /\ intent'.op = intent.op /\ intent'.stage = intent.stage
    BY <1>0, <1>2, TaskFields DEF GuardExpires, Goto, history, Intent
  <2> QED BY <2>1, StartFrame DEF BeforeStart
<1>3. ASSUME NEW stage \in Stage
      PROVE  /\ Advanced(intent, stage).n = intent.n /\ Advanced(intent, stage).op = intent.op
             /\ \/ Advanced(intent, stage).stage = intent.stage
                \/ Advanced(intent, stage).stage = stage /\ Order(stage) >= Order(intent.stage)
  <2>1. Order(stage) \in Nat /\ Order(intent.stage) \in Nat
    BY <1>0, StageOrder DEF Intent
  <2> QED BY <1>0, <2>1 DEF Advanced, Intent
<1>4. ASSUME NEW stage \in Stage, intent' = Advanced(intent, stage)
      PROVE  Unsent' => Unsent
  <2>1. /\ Order(stage) \in Nat /\ Order(intent.stage) \in Nat
        /\ Order("start_intent") \in Nat
    BY <1>0, StageOrder DEF Intent
  <2> QED BY <1>3, <1>4, <2>1 DEF Unsent, Reached
<1>5. task.pc \in Hooks => task.pc \in Stage
  BY DEF Hooks, Stage
<1>6. CASE AdvanceStage
  <2>1. /\ task.pc \in Hooks /\ intent' = Advanced(intent, task.pc)
        /\ task'.pc = AfterHook /\ task'.goal = task.goal
        /\ nonce' = nonce /\ starts' = starts
        /\ intent'.n = intent.n /\ intent'.op = intent.op
    BY <1>0, <1>3, <1>5, <1>6, TaskFields DEF AdvanceStage, Goto, history
  <2>2. Unsent' => Unsent
    BY <1>4, <1>5, <2>1
  <2>3. CASE task.pc = "start_intent"
    <3>1. task'.pc = "start" /\ Unsent
      BY <2>1, <2>3 DEF AfterHook, StartInv, BeforeStart
    <3>2. intent'.stage = "start_intent"
      BY <1>0, <2>1, <2>3, <3>1 DEF Advanced, Order, Unsent, Reached, Intent, Stage
    <3>3. ~Unsent' /\ intent.n # 0
      BY <2>1, <2>3, <3>2 DEF Unsent, Reached, Order, OperationPending
    <3> QED BY <2>1, <3>1, <3>2, <3>3 DEF StartInv, BeforeStart, Unsent
  <2>4. CASE task.pc = "start_returned"
    <3>1. task'.pc = "release"
      BY <2>1, <2>4 DEF AfterHook
    <3> QED BY <2>1, <2>2, <3>1 DEF StartInv, BeforeStart
  <2>5. CASE task.pc \notin {"start_intent", "start_returned"}
    <3>1. Unsent
      BY <2>1, <2>5 DEF Hooks, StartInv, BeforeStart
    <3>2. intent'.stage = intent.stage \/ intent'.stage = task.pc
      BY <1>3, <1>5, <2>1
    <3>3. Unsent'
      <4>1. intent'.stage \in Stage \ {"start_intent", "start_returned"}
        BY <1>0, <1>5, <2>1, <2>5, <3>1, <3>2, StageOrder DEF Unsent, Reached, Intent
      <4> QED BY <2>1, <3>1, <4>1, StageOrder DEF Unsent, Reached
    <3>4. task'.pc \notin {"start", "guard"}
      BY <2>1, <2>5 DEF AfterHook, Hooks
    <3> QED BY <2>1, <3>1, <3>3, <3>4 DEF StartInv
  <2> QED BY <2>3, <2>4, <2>5
<1>7. CASE StageFails
  <2>1. /\ task.pc \in Hooks /\ intent' \in {intent, Advanced(intent, task.pc)}
        /\ nonce' = nonce /\ starts' = starts
        /\ task'.pc \in {"retain", "unresolved", "release"}
    BY <1>0, <1>7, TaskFields, AfterSteps DEF StageFails, history
  <2>2. intent'.n = intent.n /\ intent'.op = intent.op /\ (Unsent' => Unsent)
    BY <1>3, <1>4, <1>5, <2>1 DEF Unsent, Reached
  <2> QED BY <2>1, <2>2 DEF StartInv, BeforeStart
<1> QED BY <1>1, <1>2, <1>6, <1>7

\* The RPCs: the start RPC runs once, from an intent that recorded it, and an intent that
\* recorded it never gets back before it.
LEMMA RpcStart ==
  ASSUME TypeOK, OperationPending, StartInv,
         Acquire \/ Preflight \/ RemoveStreams \/ AddProfile \/ StartTraffic \/ Command \/ Release
  PROVE  StartInv'
<1>0. task \in Task /\ intent \in Intent /\ starts \in [Nonce -> Nat]
  BY DEF TypeOK, MemoryType, DiskType, HistoryType
<1> USE DEF disk, history
<1>1. CASE Acquire
  <2>1. /\ intent' = intent /\ nonce' = nonce /\ starts' = starts
        /\ task'.pc \in {"acquired", "command", "retain", "unresolved"}
        /\ task'.pc = "acquired" => intent.op = "start"
    <3> DEFINE missing == {p \in task.ports : own[p] # "api"}
               pc == IF intent.op = "start" THEN "acquired" ELSE "command"
    <3>1. PICK o \in Outcomes(missing) :
            task' = IF o.ok THEN [task EXCEPT !.pc = pc, !.took = missing]
                    ELSE [task EXCEPT !.pc = Failed]
      BY <1>1 DEF Acquire
    <3> HIDE DEF missing, pc
    <3>2. task'.pc \in {pc, Failed}
      BY <1>0, <3>1, TaskFields
    <3> QED BY <1>1, <3>2, AfterSteps DEF Acquire, pc
  <2>2. intent.op = "start" => Unsent
    BY <1>1 DEF Acquire, StartInv, BeforeStart
  <2> QED BY <2>1, <2>2, StartFrame DEF BeforeStart
<1>2. CASE Preflight \/ RemoveStreams \/ AddProfile
  <2>1. /\ intent' = intent /\ nonce' = nonce /\ starts' = starts
        /\ task'.pc \in {"streams_remove_intent", "profile_add_intent", "streams_removed",
                         "profile_added", "release"}
    <3>1. ASSUME NEW ok, NEW pc, Under(ok, pc) PROVE task'.pc \in {pc, "release"}
      BY <1>0, <3>1, TaskFields DEF Under
    <3>2. CASE Preflight
      <4> DEFINE pc == IF intent.clear THEN "streams_remove_intent" ELSE "profile_add_intent"
      <4>1. PICK ok : Under(ok, pc)
        BY <3>2 DEF Preflight
      <4>2. task'.pc \in {pc, "release"}
        BY <3>1, <4>1
      <4> QED BY <3>2, <4>2 DEF Preflight
    <3>3. CASE RemoveStreams
      <4>1. PICK o : Under(o.ok, "streams_removed")
        BY <3>3 DEF RemoveStreams
      <4> QED BY <3>1, <3>3, <4>1 DEF RemoveStreams
    <3>4. CASE AddProfile
      <4>1. PICK o : Under(o.ok, "profile_added")
        BY <3>4 DEF AddProfile
      <4> QED BY <3>1, <3>4, <4>1 DEF AddProfile
    <3> QED BY <1>2, <3>2, <3>3, <3>4
  <2>2. Unsent
    BY <1>2 DEF Preflight, RemoveStreams, AddProfile, StartInv, BeforeStart
  <2> QED BY <2>1, <2>2, StartFrame
<1>3. CASE StartTraffic
  <2>1. /\ intent' = intent /\ nonce' = nonce
        /\ task'.pc \in {"start_returned", "release"}
        /\ \/ starts' = starts
           \/ starts' = [starts EXCEPT ![intent.n] = starts[intent.n] + 1]
    <3>1. PICK o \in Outcomes(task.ports) :
            /\ starts' = [starts EXCEPT ![intent.n] = IF o.done = {} THEN @ ELSE @ + 1]
            /\ Under(o.ok, "start_returned")
      BY <1>3 DEF StartTraffic
    <3>2. task'.pc \in {"start_returned", "release"}
      BY <1>0, <3>1, TaskFields DEF Under
    <3>3. \/ starts' = [starts EXCEPT ![intent.n] = starts[intent.n]]
          \/ starts' = [starts EXCEPT ![intent.n] = starts[intent.n] + 1]
      BY <3>1
    <3> QED BY <1>0, <1>3, <3>2, <3>3 DEF StartTraffic
  <2>2. /\ intent.n \in Nonce /\ starts[intent.n] = 0 /\ ~Unsent
    BY <1>0, <1>3 DEF StartTraffic, OperationPending, StartInv, Intent, Nonce, Nonce0
  <2>3. \A n \in Nonce : starts'[n] = starts[n] \/ (n = intent.n /\ starts'[n] = 1)
    BY <1>0, <2>1, <2>2
  <2>4. nonce \in Nat /\ intent.n \in Nat
    BY <1>0, BoundsAssumption DEF TypeOK, HistoryType, Nonce0, Intent
  <2>5. ~Unsent' /\ ~BeforeStart'
    BY <2>1, <2>2 DEF Unsent, BeforeStart
  <2> QED BY <1>0, <2>1, <2>2, <2>3, <2>4, <2>5 DEF StartInv, Nonce
<1>4. CASE Command
  <2>1. intent' = intent /\ nonce' = nonce /\ starts' = starts /\ task'.pc = "release"
    <3>1. PICK ok : task' = [task EXCEPT !.pc = "release", !.ok = ok]
      BY <1>4 DEF Command
    <3>2. task'.pc = "release"
      BY <1>0, <3>1, TaskFields
    <3> QED BY <1>4, <3>2 DEF Command
  <2> QED BY <2>1, StartFrame DEF BeforeStart
<1>5. CASE Release
  <2>1. /\ intent' = intent /\ nonce' = nonce /\ starts' = starts
        /\ \/ task' = AfterOperation
           \/ task'.pc \in {"retain", "unresolved"}
    <3>1. task' = AfterOperation \/ task' = [task EXCEPT !.pc = Failed]
      BY <1>5 DEF Release
    <3>2. [task EXCEPT !.pc = Failed].pc = Failed
      BY <1>0, TaskFields
    <3>3. UNCHANGED <<intent, nonce, starts>>
      BY <1>5 DEF Release
    <3>4. CASE task' = AfterOperation
      BY <3>3, <3>4
    <3>5. CASE task' = [task EXCEPT !.pc = Failed]
      <4>1. task'.pc = Failed
        BY <3>2, <3>5
      <4> QED BY <3>3, <4>1, AfterSteps
    <3> QED BY <3>1, <3>4, <3>5
  <2> QED BY <2>1, AfterSteps, StartFrame DEF BeforeStart
<1> QED BY <1>1, <1>2, <1>3, <1>4, <1>5

\* The normalisation of a replay is on the way to the RPC; the other goals are not.
LEMMA ControlStart ==
  ASSUME TypeOK, OperationPending, StartInv,
         Control \/ RollbackTraffic \/ RestoreStreams \/ RestoreAcquisition \/ Verify
  PROVE  StartInv'
<1>0. task \in Task
  BY DEF TypeOK, MemoryType
<1> USE DEF disk, history
<1>1. UNCHANGED <<intent, nonce, starts>>
  BY DEF Control, RollbackTraffic, RestoreStreams, RestoreAcquisition, Verify
<1>2. task.goal = "normalize" => Unsent
  BY DEF Control, RollbackTraffic, RestoreStreams, RestoreAcquisition, Verify, StartInv, BeforeStart
<1>3. CASE Control
  <2>1. /\ task'.goal = task.goal
        /\ task'.pc \in {"retain", "unresolved", "rollback", "streams", "restore"}
    <3> DEFINE pc == CASE task.goal = "rollback"  -> "rollback"
                       [] task.goal = "normalize" -> "streams"
                       [] OTHER                   -> "restore"
    <3>1. PICK ok : task' = IF ~ok THEN [task EXCEPT !.pc = Failed]
                            ELSE [task EXCEPT !.ok = TRUE, !.pc = pc]
      BY <1>3 DEF Control
    <3>2. pc \in {"rollback", "streams", "restore"}
      OBVIOUS
    <3> HIDE DEF pc
    <3>3. task'.goal = task.goal /\ task'.pc \in {pc, Failed}
      BY <1>0, <3>1, TaskFields
    <3> QED BY <3>2, <3>3, AfterSteps
  <2> QED BY <1>1, <1>2, <2>1, StartFrame DEF BeforeStart
<1>4. CASE RollbackTraffic \/ RestoreStreams
  <2>1. task'.goal = task.goal /\ task'.pc \in {"streams", "restore"}
    <3>1. Goto("streams") \/ \E ok : ThenRestore(ok)
      BY <1>4 DEF RollbackTraffic, RestoreStreams
    <3>2. CASE Goto("streams")
      BY <1>0, <3>2, TaskFields DEF Goto
    <3>3. ASSUME NEW ok, ThenRestore(ok) PROVE task'.goal = task.goal /\ task'.pc = "restore"
      BY <1>0, <3>3, TaskFields DEF ThenRestore
    <3> QED BY <3>1, <3>2, <3>3
  <2> QED BY <1>1, <1>2, <2>1, StartFrame DEF BeforeStart
<1>5. CASE RestoreAcquisition
  <2>1. task'.goal = task.goal /\ task'.pc \in {AfterControl, Failed}
    <3>1. PICK pc \in {AfterControl, Failed} : task' = [task EXCEPT !.pc = pc]
      BY <1>5 DEF RestoreAcquisition, Goto
    <3> QED BY <1>0, <3>1, TaskFields
  <2>2. /\ task'.pc \in {"verify", "acquire_intent", "promote", "clear", "unresolved", "retain"}
        /\ task'.pc = "acquire_intent" => task.goal = "normalize"
    BY <2>1, AfterSteps DEF AfterControl
  <2> QED BY <1>1, <1>2, <2>1, <2>2, StartFrame DEF BeforeStart
<1>6. CASE Verify
  <2>1. /\ task'.pc \in {"unresolved", "clear", "promote", "control"}
        /\ task'.goal = "normalize" => task.goal = "normalize"
    <3>1. \A pc, goal : /\ [task EXCEPT !.live = run, !.pc = pc, !.goal = goal].pc = pc
                        /\ [task EXCEPT !.live = run, !.pc = pc, !.goal = goal].goal = goal
      BY <1>0 DEF Task
    <3>2. \/ Goto("unresolved")
          \/ \E pc \in {"clear", "promote", "control"}, goal \in {task.goal, "promote"} :
               task' = [task EXCEPT !.live = run, !.pc = pc, !.goal = goal]
      BY <1>6 DEF Verify
    <3>3. CASE Goto("unresolved")
      BY <1>0, <3>3, TaskFields DEF Goto
    <3>4. ASSUME NEW pc \in {"clear", "promote", "control"}, NEW goal \in {task.goal, "promote"},
                 task' = [task EXCEPT !.live = run, !.pc = pc, !.goal = goal]
          PROVE  task'.pc = pc /\ task'.goal = goal
      BY <3>1, <3>4
    <3> QED BY <3>2, <3>3, <3>4
  <2> QED BY <1>1, <1>2, <2>1, StartFrame DEF BeforeStart
<1> QED BY <1>3, <1>4, <1>5, <1>6

\* What an operation persists and where it ends does not lead to the RPC.
LEMMA PersistStart ==
  ASSUME TypeOK, OperationPending, StartInv,
         \/ Promote \/ PromotionRefused \/ Retain \/ Clear
         \/ RetireAfterRollover \/ RetireAfterTermination \/ Reconcile
  PROVE  StartInv'
<1> DEFINE Ends == {"idle", "reconcile", "retain"}
<1>0. task \in Task /\ intent \in Intent /\ nonce \in Nat /\ Idle.pc = "idle"
  BY BoundsAssumption DEF TypeOK, MemoryType, DiskType, HistoryType, Nonce0, Idle
<1>1. ASSUME intent' = NoIntent, nonce' = nonce, starts' = starts, task'.pc \in Ends
      PROVE  StartInv'
  BY <1>0, <1>1 DEF StartInv, NoIntent, BeforeStart
<1>2. ASSUME intent'.n = intent.n, intent'.op = intent.op, intent'.stage = intent.stage,
             nonce' = nonce, starts' = starts, task'.pc \in Ends
      PROVE  StartInv'
  BY <1>2, StartFrame DEF BeforeStart
<1>3. ASSUME NEW saved, NEW s, NEW rs, NEW i \in {NoIntent, intent}, Persist(saved, s, rs, i)
      PROVE  intent' \in {NoIntent, intent}
  BY <1>3 DEF Persist, disk
<1>4. nonce' = nonce /\ starts' = starts
  BY DEF Promote, PromotionRefused, Retain, Clear, RetireAfterRollover, RetireAfterTermination,
         Reconcile, history
<1>5. task'.pc \in Ends
  <2>1. \/ task' \in {Idle, Written, Unwritten} \/ task' = [task EXCEPT !.pc = "reconcile"]
    BY DEF Promote, PromotionRefused, Retain, Clear, RetireAfterRollover, RetireAfterTermination,
           Reconcile
  <2>2. [task EXCEPT !.pc = "reconcile"].pc = "reconcile"
    BY <1>0, TaskFields
  <2> QED BY <1>0, <2>1, <2>2, AfterSteps
<1>6. CASE Retain
  <2>1. \A phase : [intent EXCEPT !.phase = phase].n = intent.n
                   /\ [intent EXCEPT !.phase = phase].op = intent.op
                   /\ [intent EXCEPT !.phase = phase].stage = intent.stage
    BY <1>0 DEF Intent
  <2> QED BY <1>2, <1>4, <1>5, <1>6, <2>1 DEF Retain
<1>7. CASE \/ Promote \/ PromotionRefused \/ Clear
           \/ RetireAfterRollover \/ RetireAfterTermination \/ Reconcile
  <2>1. intent' \in {NoIntent, intent}
    BY <1>3, <1>7 DEF Promote, PromotionRefused, Clear, RetireAfterRollover,
                      RetireAfterTermination, Reconcile, disk
  <2> QED BY <1>1, <1>2, <1>4, <1>5, <2>1
<1> QED BY <1>6, <1>7

\* A recovery takes the way to the RPC only for an intent that did not record it.
LEMMA RecoverStart ==
  ASSUME TypeOK, OperationPending, StartInv,
         \/ Snapshot \/ RecoverForeign \/ RecoverYields \/ RecoverUnsafe
         \/ RollBackStart \/ AdoptStart \/ ReplayStart \/ AbandonStart
         \/ RecoverUpdate \/ AdoptAction \/ ClearAction \/ RetryAction
  PROVE  StartInv'
<1> USE DEF disk, history
<1>0. task \in Task /\ Idle.pc = "idle"
  BY DEF TypeOK, MemoryType, Idle
<1>1. UNCHANGED <<intent, nonce, starts>>
  <2>1. CASE \E op : Recovering(op)
    BY <2>1 DEF Recovering
  <2>2. CASE Snapshot \/ RecoverForeign \/ RecoverYields \/ RecoverUnsafe
    BY <2>2 DEF Snapshot, RecoverForeign, RecoverYields, RecoverUnsafe
  <2>3. CASE RollBackStart \/ AdoptStart \/ ReplayStart \/ AbandonStart
    BY <2>1, <2>3 DEF RollBackStart, AdoptStart, ReplayStart, AbandonStart
  <2>4. CASE RecoverUpdate \/ AdoptAction \/ ClearAction \/ RetryAction
    BY <2>1, <2>4 DEF RecoverUpdate, AdoptAction, ClearAction, RetryAction
  <2> QED BY <2>2, <2>3, <2>4
<1>2. ASSUME NEW pc \in {"rollover", "unresolved"}, Goto(pc) PROVE StartInv'
  <2>1. task'.pc = pc
    BY <1>0, <1>2, TaskFields DEF Goto
  <2> QED BY <1>1, <2>1, StartFrame DEF BeforeStart
<1>3. ASSUME NEW goal \in {"rollback", "promote", "clear", "retain"}, Controlled(goal)
      PROVE  StartInv'
  <2>1. task'.pc = "control" /\ task'.goal = goal
    BY <1>0, <1>3, TaskFields DEF Controlled
  <2> QED BY <1>1, <2>1, StartFrame DEF BeforeStart
<1>4. ASSUME NEW T, task' = [task EXCEPT !.pc = "acquire", !.ports = T], intent.op # "start"
      PROVE  StartInv'
  <2>1. task'.pc = "acquire"
    BY <1>0, <1>4, TaskFields
  <2> QED BY <1>1, <1>4, <2>1, StartFrame DEF BeforeStart
<1>5. CASE Snapshot
  <2>1. task'.pc \in {"reconcile", "recover"}
    BY <1>5 DEF Snapshot, Idle
  <2> QED BY <1>1, <2>1, StartFrame DEF BeforeStart
<1>6. CASE RecoverForeign \/ RecoverUnsafe \/ AbandonStart
  BY <1>2, <1>6 DEF RecoverForeign, RecoverUnsafe, AbandonStart
<1>7. CASE RecoverYields
  <2>1. task'.pc = "idle"
    BY <1>0, <1>7 DEF RecoverYields
  <2> QED BY <1>1, <2>1, StartFrame DEF BeforeStart
<1>8. CASE RollBackStart \/ AdoptStart \/ AdoptAction \/ ClearAction
  BY <1>2, <1>3, <1>8 DEF RollBackStart, AdoptStart, AdoptAction, ClearAction
<1>9. CASE ReplayStart
  <2>1. Unsent
    BY <1>9 DEF ReplayStart, Recovering, Unsent
  <2> DEFINE replay == [task EXCEPT !.ports = intent.ports]
  <2>2. /\ [replay EXCEPT !.pc = "acquire_intent"].pc = "acquire_intent"
        /\ [replay EXCEPT !.pc = "control", !.goal = "normalize"].pc = "control"
    BY <1>0 DEF Task
  <2>3. task'.pc \in {"acquire_intent", "control"}
    BY <1>9, <2>2 DEF ReplayStart
  <2> QED BY <1>1, <2>1, <2>3, StartFrame
<1>10. CASE RecoverUpdate \/ RetryAction
  <2>1. intent.op # "start"
    BY <1>10 DEF RecoverUpdate, RetryAction, Recovering
  <2> QED BY <1>2, <1>3, <1>4, <1>10, <2>1 DEF RecoverUpdate, RetryAction
<1> QED BY <1>5, <1>6, <1>7, <1>8, <1>9, <1>10

\* Nothing outside the API leads to the RPC.
LEMMA EnvironmentStart ==
  ASSUME TypeOK, OperationPending, StartInv, StopTrex \/ Environment
  PROVE  StartInv'
<1>0. task \in Task /\ intent \in Intent /\ Idle.pc = "idle"
  BY DEF TypeOK, MemoryType, DiskType, Idle
<1>1. /\ nonce' = nonce /\ starts' = starts
      /\ intent'.n = intent.n /\ intent'.op = intent.op /\ intent'.stage = intent.stage
  <2>1. CASE StopTrex \/ Crash \/ TrexExit
    BY <2>1 DEF StopTrex, Crash, TrexExit, disk, history
  <2>2. ASSUME NEW n, LeaseTick(n)
        PROVE  /\ nonce' = nonce /\ starts' = starts
               /\ intent'.n = intent.n /\ intent'.op = intent.op /\ intent'.stage = intent.stage
    BY <1>0, <2>2 DEF LeaseTick, history, Intent
  <2>3. ASSUME NEW p, \/ TrafficEnds(p) \/ HandlerExpires(p) \/ ExternalTraffic(p)
                      \/ ExternalRelease(p) \/ OperatorAcquires(p) \/ OperatorReleases(p)
        PROVE  UNCHANGED <<intent, nonce, starts>>
    BY <2>3 DEF TrafficEnds, HandlerExpires, ExternalTraffic, ExternalRelease, OperatorAcquires,
                OperatorReleases, disk, history
  <2> QED BY <2>1, <2>2, <2>3 DEF Environment
<1>2. task'.pc \in {"idle", "retire"} \/ (task'.pc = task.pc /\ task'.goal = task.goal)
  <2>1. CASE StopTrex
    BY <1>0, <2>1, TaskFields DEF StopTrex, Goto
  <2>2. CASE Crash
    BY <1>0, <2>2 DEF Crash
  <2>3. CASE TrexExit
    BY <1>0, <2>3, TaskFields DEF TrexExit
  <2>4. CASE Environment /\ ~Crash /\ ~TrexExit
    BY <2>4 DEF Environment, TrafficEnds, HandlerExpires, ExternalTraffic, ExternalRelease,
                OperatorAcquires, OperatorReleases, LeaseTick, memory
  <2> QED BY <2>1, <2>2, <2>3, <2>4
<1>3. Unsent' <=> Unsent
  BY <1>1 DEF Unsent, Reached
<1> QED BY <1>1, <1>2, <1>3 DEF StartInv, BeforeStart

\* A new intent has a nonce that was never sent.
LEMMA BeginStart ==
  ASSUME TypeOK, OperationPending, StartInv, Begin
  PROVE  StartInv'
<1>0. nonce \in Nat /\ nonce + 1 \in Nonce /\ Idle.pc = "idle" /\ starts \in [Nonce -> Nat]
  <2>1. Ready
    BY DEF Begin, PrepareStart, PrepareMutation
  <2>2. nonce \in Nat /\ nonce < MaxNonce /\ starts \in [Nonce -> Nat]
    BY <2>1, BoundsAssumption DEF Ready, TypeOK, HistoryType, Nonce0
  <2>3. Idle.pc = "idle"
    BY DEF Idle
  <2> QED BY <2>2, <2>3, BoundsAssumption DEF Nonce
<1>1. ASSUME NEW i, NEW pc, i.n = nonce + 1, i.stage = "prepared", Prepare(i, pc),
             pc = IF i.op = "start" THEN "acquire_intent" ELSE "guard"
      PROVE  StartInv'
  <2>1. /\ nonce' = nonce + 1 /\ starts' = starts /\ intent' = i
        /\ \/ task'.pc = pc
           \/ task'.pc = "idle"
    <3>1. [Idle EXCEPT !.pc = pc, !.ports = i.ports].pc = pc
      BY DEF Idle
    <3> QED BY <1>0, <1>1, <3>1 DEF Prepare, Persist, Saved
  <2>2. i.op = "start" => Unsent'
    BY <1>1, <2>1, StageOrder DEF Unsent, Reached, Stage
  <2>3. starts[nonce + 1] = 0 /\ \A n \in Nonce : n > nonce + 1 => n > nonce
    BY <1>0 DEF StartInv, Nonce
  <2> QED BY <1>0, <1>1, <2>1, <2>2, <2>3 DEF StartInv, BeforeStart, Nonce
<1>2. ASSUME NEW T, NEW e, NEW c, NEW l, PrepareStart(T, e, c, l) PROVE StartInv'
  <2> DEFINE i == [NewIntent("start", T) EXCEPT !.expected = e, !.clear = c, !.lease = l]
  <2>1. i.n = nonce + 1 /\ i.stage = "prepared" /\ i.op = "start"
    BY DEF NewIntent, NoIntent
  <2>2. Prepare(i, "acquire_intent")
    BY <1>2 DEF PrepareStart
  <2> HIDE DEF i
  <2> QED BY <1>1, <2>1, <2>2
<1>3. ASSUME NEW op \in Commands, NEW T, NEW r, PrepareMutation(op, T, r) PROVE StartInv'
  <2> DEFINE i == [NewIntent(op, T) EXCEPT !.expected = session.id, !.relative = r]
  <2>1. i.n = nonce + 1 /\ i.stage = "prepared" /\ i.op = op /\ op # "start"
    BY RequestsAssumption DEF NewIntent, NoIntent
  <2>2. Prepare(i, "guard")
    BY <1>3 DEF PrepareMutation
  <2> HIDE DEF i
  <2> QED BY <1>1, <2>1, <2>2
<1> QED BY <1>2, <1>3 DEF Begin

\* However often a start is recovered, its start RPC takes effect at most once
\* (the replay of _recover_traffic_mutation_intent is barred by the stage "start_intent").
THEOREM StartsAtMostOnce == Spec => []AtMostOnceStart
<1>1. Init => TypeOK /\ OperationPending /\ StartInv
  BY InitType, InitStart DEF Init, OperationPending, Idle
<1>2. TypeOK /\ OperationPending /\ StartInv /\ [Next]_vars
        => TypeOK' /\ OperationPending' /\ StartInv'
  <2> SUFFICES ASSUME TypeOK, OperationPending, StartInv, [Next]_vars
               PROVE  StartInv'
    BY NextType, PendingKept
  <2>1. CASE Execute
    BY <2>1, StageStart, RpcStart, ControlStart, PersistStart, RecoverStart DEF Execute
  <2>2. CASE UNCHANGED vars
    BY <2>2 DEF vars, disk, memory, history, StartInv, Unsent, BeforeStart, Reached
  <2> QED BY <2>1, <2>2, BeginStart, RecoverStart, EnvironmentStart DEF Next
<1>3. TypeOK /\ OperationPending /\ StartInv => AtMostOnceStart
  BY DEF StartInv, AtMostOnceStart
<1> QED BY <1>1, <1>2, <1>3, PTL DEF Spec

-----------------------------------------------------------------------------
(* Relative updates *)

\* The steps that lead to the RPC of a mutation that is not a start, and the RPC.
BeforeCommand == task.pc \in {"guard", "acquire", "command"}

\* An intent that can still send a relative update has not had an effect.
UpdateInv ==
  /\ \A n \in Nonce : n > nonce => deltas[n] = 0
  /\ \A n \in Nonce : deltas[n] <= 1
  /\ intent.relative => intent.op = "update"
  /\ BeforeCommand /\ intent.relative => deltas[intent.n] = 0

\* Before the first operation no update was sent.
LEMMA InitUpdate == Init => UpdateInv
  BY BoundsAssumption DEF Init, UpdateInv, NoIntent, Idle, BeforeCommand, Nonce

\* A step that leaves the history of updates and the kind of the intent as they are.
LEMMA UpdateFrame ==
  ASSUME UpdateInv,
         intent'.n = intent.n, intent'.op = intent.op, intent'.relative = intent.relative,
         nonce' = nonce, deltas' = deltas,
         BeforeCommand' => BeforeCommand \/ ~intent.relative
  PROVE  UpdateInv'
  BY DEF UpdateInv

\* The write-ahead stages are those of a start, which is not relative.
LEMMA StageUpdate ==
  ASSUME TypeOK, OperationPending, StartInv, UpdateInv,
         GuardPasses \/ GuardExpires \/ AdvanceStage \/ StageFails
  PROVE  UpdateInv'
<1>0. task \in Task /\ intent \in Intent
  BY DEF TypeOK, MemoryType, DiskType
<1>1. CASE GuardPasses
  BY <1>1, UpdateFrame DEF GuardPasses, BeforeCommand, disk, history
<1>2. CASE GuardExpires
  <2>1. /\ task'.pc = "clear" /\ nonce' = nonce /\ deltas' = deltas
        /\ intent'.n = intent.n /\ intent'.op = intent.op /\ intent'.relative = intent.relative
    BY <1>0, <1>2, TaskFields DEF GuardExpires, Goto, history, Intent
  <2> QED BY <2>1, UpdateFrame DEF BeforeCommand
<1>3. ASSUME NEW stage
      PROVE  /\ Advanced(intent, stage).n = intent.n /\ Advanced(intent, stage).op = intent.op
             /\ Advanced(intent, stage).relative = intent.relative
  BY <1>0 DEF Advanced, Intent
<1>4. CASE AdvanceStage
  <2>1. /\ task.pc \in Hooks /\ intent' = Advanced(intent, task.pc) /\ task'.pc = AfterHook
        /\ nonce' = nonce /\ deltas' = deltas
    BY <1>0, <1>4, TaskFields DEF AdvanceStage, Goto, history
  <2>2. AfterHook = "acquire" => task.pc = "acquire_intent"
    BY <2>1 DEF AfterHook, Hooks
  <2>3. task.pc = "acquire_intent" => intent.op = "start"
    BY DEF StartInv, BeforeStart, Unsent
  <2>4. AfterHook \notin {"guard", "command"}
    BY <2>1 DEF AfterHook, Hooks
  <2>5. BeforeCommand' => ~intent.relative
    BY <2>1, <2>2, <2>3, <2>4 DEF BeforeCommand, UpdateInv
  <2> QED BY <1>3, <2>1, <2>5, UpdateFrame
<1>5. CASE StageFails
  <2>1. /\ intent' \in {intent, Advanced(intent, task.pc)}
        /\ nonce' = nonce /\ deltas' = deltas
        /\ task'.pc \in {"retain", "unresolved", "release"}
    BY <1>0, <1>5, TaskFields, AfterSteps DEF StageFails, history
  <2> QED BY <1>3, <2>1, UpdateFrame DEF BeforeCommand
<1> QED BY <1>1, <1>2, <1>4, <1>5

\* The RPCs: only Command applies an update, and the step after it is the release.
LEMMA RpcUpdate ==
  ASSUME TypeOK, OperationPending, StartInv, UpdateInv,
         Acquire \/ Preflight \/ RemoveStreams \/ AddProfile \/ StartTraffic \/ Command \/ Release
  PROVE  UpdateInv'
<1>0. task \in Task /\ intent \in Intent /\ deltas \in [Nonce -> Nat]
  BY DEF TypeOK, MemoryType, DiskType, HistoryType
<1> USE DEF disk, history
<1>1. CASE Acquire
  BY <1>1, UpdateFrame DEF Acquire, BeforeCommand
<1>2. CASE Preflight \/ RemoveStreams \/ AddProfile \/ StartTraffic
  <2>1. ASSUME NEW ok, NEW pc, Under(ok, pc) PROVE task'.pc \in {pc, "release"}
    BY <1>0, <2>1, TaskFields DEF Under
  <2>2. task'.pc \in {"streams_remove_intent", "profile_add_intent", "streams_removed",
                      "profile_added", "start_returned", "release"}
    <3>1. CASE Preflight
      <4> DEFINE pc == IF intent.clear THEN "streams_remove_intent" ELSE "profile_add_intent"
      <4>1. PICK ok : Under(ok, pc)
        BY <3>1 DEF Preflight
      <4>2. task'.pc \in {pc, "release"}
        BY <2>1, <4>1
      <4> QED BY <4>2
    <3>2. CASE RemoveStreams
      <4>1. PICK o : Under(o.ok, "streams_removed")
        BY <3>2 DEF RemoveStreams
      <4> QED BY <2>1, <4>1
    <3>3. CASE AddProfile
      <4>1. PICK o : Under(o.ok, "profile_added")
        BY <3>3 DEF AddProfile
      <4> QED BY <2>1, <4>1
    <3>4. CASE StartTraffic
      <4>1. PICK o : Under(o.ok, "start_returned")
        BY <3>4 DEF StartTraffic
      <4> QED BY <2>1, <4>1
    <3> QED BY <1>2, <3>1, <3>2, <3>3, <3>4
  <2>3. intent' = intent /\ nonce' = nonce /\ deltas' = deltas
    BY <1>2 DEF Preflight, RemoveStreams, AddProfile, StartTraffic
  <2> QED BY <2>2, <2>3, UpdateFrame DEF BeforeCommand
<1>3. CASE Command
  <2>1. intent' = intent /\ nonce' = nonce /\ task.pc = "command" /\ intent.n \in Nonce
    <3>1. UNCHANGED <<intent, nonce>> /\ task.pc = "command"
      BY <1>3 DEF Command
    <3>2. intent.n # 0
      BY <3>1 DEF OperationPending
    <3>3. intent.n \in Nonce
      BY <1>0, <3>2, BoundsAssumption DEF Intent, Nonce, Nonce0
    <3> QED BY <3>1, <3>3
  <2>2. PICK o : /\ deltas' = [deltas EXCEPT ![intent.n] =
                                 IF intent.relative /\ o.done # {} THEN @ + 1 ELSE @]
                 /\ task' = [task EXCEPT !.pc = "release", !.ok = o.ok]
    BY <1>3 DEF Command
  <2>3. task'.pc = "release"
    BY <1>0, <2>2, TaskFields
  <2>4. intent.relative => deltas[intent.n] = 0
    BY <2>1 DEF UpdateInv, BeforeCommand
  <2>5. \A n \in Nonce : deltas'[n] = deltas[n] \/ (n = intent.n /\ deltas'[n] = 1)
    BY <1>0, <2>1, <2>2, <2>4
  <2>6. nonce \in Nat /\ intent.n \in Nat /\ intent.n <= nonce
    BY <1>0, BoundsAssumption DEF TypeOK, HistoryType, Nonce0, Intent, StartInv
  <2> QED BY <2>1, <2>3, <2>5, <2>6 DEF UpdateInv, BeforeCommand, Nonce
<1>4. CASE Release
  <2>1. task' = AfterOperation \/ task' = [task EXCEPT !.pc = Failed]
    BY <1>4 DEF Release
  <2>2. [task EXCEPT !.pc = Failed].pc = Failed
    BY <1>0, TaskFields
  <2>3. task'.pc \notin {"guard", "acquire", "command"}
    BY <2>1, <2>2, AfterSteps
  <2>4. UNCHANGED <<intent, nonce, deltas>>
    BY <1>4 DEF Release
  <2> QED BY <2>3, <2>4, UpdateFrame DEF BeforeCommand
<1> QED BY <1>1, <1>2, <1>3, <1>4

\* The RPCs under control of the ports lead to the end of a recovery, or to a replay.
LEMMA ControlUpdate ==
  ASSUME TypeOK, UpdateInv,
         Control \/ RollbackTraffic \/ RestoreStreams \/ RestoreAcquisition \/ Verify
  PROVE  UpdateInv'
<1>0. task \in Task
  BY DEF TypeOK, MemoryType
<1> USE DEF disk, history
<1>1. UNCHANGED <<intent, nonce, deltas>>
  BY DEF Control, RollbackTraffic, RestoreStreams, RestoreAcquisition, Verify
<1>2. CASE Control
  <2> DEFINE pc == CASE task.goal = "rollback"  -> "rollback"
                     [] task.goal = "normalize" -> "streams"
                     [] OTHER                   -> "restore"
  <2>1. PICK ok : task' = IF ~ok THEN [task EXCEPT !.pc = Failed]
                          ELSE [task EXCEPT !.ok = TRUE, !.pc = pc]
    BY <1>2 DEF Control
  <2>2. pc \in {"rollback", "streams", "restore"}
    OBVIOUS
  <2> HIDE DEF pc
  <2>3. task'.pc \in {pc, Failed}
    BY <1>0, <2>1, TaskFields
  <2> QED BY <1>1, <2>2, <2>3, AfterSteps, UpdateFrame DEF BeforeCommand
<1>3. CASE RollbackTraffic \/ RestoreStreams
  <2>1. Goto("streams") \/ \E ok : ThenRestore(ok)
    BY <1>3 DEF RollbackTraffic, RestoreStreams
  <2>2. ASSUME NEW ok, ThenRestore(ok) PROVE task'.pc = "restore"
    BY <1>0, <2>2, TaskFields DEF ThenRestore
  <2>3. ASSUME Goto("streams") PROVE task'.pc = "streams"
    BY <1>0, <2>3, TaskFields DEF Goto
  <2>4. task'.pc \in {"streams", "restore"}
    BY <2>1, <2>2, <2>3
  <2> QED BY <1>1, <2>4, UpdateFrame DEF BeforeCommand
<1>4. CASE RestoreAcquisition
  <2>1. PICK pc \in {AfterControl, Failed} : task' = [task EXCEPT !.pc = pc]
    BY <1>4 DEF RestoreAcquisition, Goto
  <2>2. task'.pc = pc
    BY <1>0, <2>1, TaskFields
  <2>3. task'.pc \notin {"guard", "acquire", "command"}
    BY <2>1, <2>2, AfterSteps DEF AfterControl
  <2> QED BY <1>1, <2>3, UpdateFrame DEF BeforeCommand
<1>5. CASE Verify
  <2>1. \A pc, goal : [task EXCEPT !.live = run, !.pc = pc, !.goal = goal].pc = pc
    BY <1>0 DEF Task
  <2>2. \/ Goto("unresolved")
        \/ \E pc \in {"clear", "promote", "control"}, goal \in {task.goal, "promote"} :
             task' = [task EXCEPT !.live = run, !.pc = pc, !.goal = goal]
    BY <1>5 DEF Verify
  <2>3. CASE Goto("unresolved")
    <3>1. task'.pc = "unresolved"
      BY <1>0, <2>3, TaskFields DEF Goto
    <3> QED BY <1>1, <3>1, UpdateFrame DEF BeforeCommand
  <2>4. ASSUME NEW pc \in {"clear", "promote", "control"}, NEW goal \in {task.goal, "promote"},
               task' = [task EXCEPT !.live = run, !.pc = pc, !.goal = goal]
        PROVE  UpdateInv'
    BY <1>1, <2>1, <2>4, UpdateFrame DEF BeforeCommand
  <2> QED BY <2>2, <2>3, <2>4
<1> QED BY <1>2, <1>3, <1>4, <1>5

\* What an operation persists keeps its intent or clears it, and the operation is over.
LEMMA PersistUpdate ==
  ASSUME TypeOK, UpdateInv,
         \/ Promote \/ PromotionRefused \/ Retain \/ Clear
         \/ RetireAfterRollover \/ RetireAfterTermination \/ Reconcile
  PROVE  UpdateInv'
<1> DEFINE Ends == {"idle", "reconcile", "retain"}
<1>0. task \in Task /\ intent \in Intent /\ Idle.pc = "idle"
  BY DEF TypeOK, MemoryType, DiskType, Idle
<1>1. nonce' = nonce /\ deltas' = deltas
  BY DEF Promote, PromotionRefused, Retain, Clear, RetireAfterRollover, RetireAfterTermination,
         Reconcile, history
<1>2. task'.pc \in Ends
  <2>1. \/ task' \in {Idle, Written, Unwritten} \/ task' = [task EXCEPT !.pc = "reconcile"]
    BY DEF Promote, PromotionRefused, Retain, Clear, RetireAfterRollover, RetireAfterTermination,
           Reconcile
  <2>2. [task EXCEPT !.pc = "reconcile"].pc = "reconcile"
    BY <1>0, TaskFields
  <2> QED BY <1>0, <2>1, <2>2, AfterSteps
<1>3. ~BeforeCommand'
  BY <1>2 DEF BeforeCommand
<1>4. ASSUME intent' = NoIntent
      PROVE  UpdateInv'
  BY <1>1, <1>3, <1>4 DEF UpdateInv, NoIntent
<1>5. CASE Retain
  <2>1. \A phase : /\ [intent EXCEPT !.phase = phase].n = intent.n
                   /\ [intent EXCEPT !.phase = phase].op = intent.op
                   /\ [intent EXCEPT !.phase = phase].relative = intent.relative
    BY <1>0 DEF Intent
  <2>2. /\ intent'.n = intent.n /\ intent'.op = intent.op
        /\ intent'.relative = intent.relative
    BY <1>5, <2>1 DEF Retain
  <2> QED BY <1>1, <1>3, <2>2, UpdateFrame
<1>6. CASE \/ Promote \/ PromotionRefused \/ Clear
           \/ RetireAfterRollover \/ RetireAfterTermination \/ Reconcile
  <2>1. ASSUME NEW saved, NEW s, NEW rs, NEW i \in {NoIntent, intent}, Persist(saved, s, rs, i)
        PROVE  intent' \in {NoIntent, intent}
    BY <2>1 DEF Persist, disk
  <2>2. intent' \in {NoIntent, intent}
    BY <2>1, <1>6 DEF Promote, PromotionRefused, Clear, RetireAfterRollover,
                      RetireAfterTermination, Reconcile, disk
  <2> QED BY <1>1, <1>3, <1>4, <2>2, UpdateFrame
<1> QED BY <1>5, <1>6

\* A recovery goes back before the RPC of an absolute update, a stop, a pause or a resume.
LEMMA RecoverUpdateKept ==
  ASSUME TypeOK, UpdateInv,
         \/ Snapshot \/ RecoverForeign \/ RecoverYields \/ RecoverUnsafe
         \/ RollBackStart \/ AdoptStart \/ ReplayStart \/ AbandonStart
         \/ RecoverUpdate \/ AdoptAction \/ ClearAction \/ RetryAction
  PROVE  UpdateInv'
<1> USE DEF disk, history
<1>0. task \in Task /\ Idle.pc = "idle"
  BY DEF TypeOK, MemoryType, Idle
<1>1. UNCHANGED <<intent, nonce, deltas>>
  <2>1. CASE \E op : Recovering(op)
    BY <2>1 DEF Recovering
  <2>2. CASE Snapshot \/ RecoverForeign \/ RecoverYields \/ RecoverUnsafe
    BY <2>2 DEF Snapshot, RecoverForeign, RecoverYields, RecoverUnsafe
  <2>3. CASE RollBackStart \/ AdoptStart \/ ReplayStart \/ AbandonStart
    BY <2>1, <2>3 DEF RollBackStart, AdoptStart, ReplayStart, AbandonStart
  <2>4. CASE RecoverUpdate \/ AdoptAction \/ ClearAction \/ RetryAction
    BY <2>1, <2>4 DEF RecoverUpdate, AdoptAction, ClearAction, RetryAction
  <2> QED BY <2>2, <2>3, <2>4
<1>2. ASSUME NEW pc \in {"rollover", "unresolved"}, Goto(pc) PROVE UpdateInv'
  <2>1. task'.pc = pc
    BY <1>0, <1>2, TaskFields DEF Goto
  <2> QED BY <1>1, <2>1, UpdateFrame DEF BeforeCommand
<1>3. ASSUME NEW goal, Controlled(goal) PROVE UpdateInv'
  <2>1. task'.pc = "control"
    BY <1>0, <1>3, TaskFields DEF Controlled
  <2> QED BY <1>1, <2>1, UpdateFrame DEF BeforeCommand
<1>4. CASE ~intent.relative
  BY <1>1, <1>4, UpdateFrame
<1>5. CASE Snapshot
  <2>1. task'.pc \in {"reconcile", "recover"}
    BY <1>5 DEF Snapshot, Idle
  <2> QED BY <1>1, <2>1, UpdateFrame DEF BeforeCommand
<1>6. CASE RecoverForeign \/ RecoverUnsafe
  BY <1>2, <1>6 DEF RecoverForeign, RecoverUnsafe
<1>7. CASE RecoverYields
  <2>1. task'.pc = "idle"
    BY <1>0, <1>7 DEF RecoverYields
  <2> QED BY <1>1, <2>1, UpdateFrame DEF BeforeCommand
<1>8. CASE \/ RollBackStart \/ AdoptStart \/ ReplayStart \/ AbandonStart
           \/ AdoptAction \/ ClearAction \/ RetryAction
  <2>1. intent.op # "update"
    BY <1>8 DEF RollBackStart, AdoptStart, ReplayStart, AbandonStart, AdoptAction, ClearAction,
                RetryAction, Recovering
  <2> QED BY <1>4, <2>1 DEF UpdateInv
<1>9. CASE RecoverUpdate /\ intent.relative
  BY <1>2, <1>3, <1>9 DEF RecoverUpdate
<1> QED BY <1>4, <1>5, <1>6, <1>7, <1>8, <1>9

\* Nothing outside the API leads to the RPC of an update.
LEMMA EnvironmentUpdate ==
  ASSUME TypeOK, UpdateInv, StopTrex \/ Environment
  PROVE  UpdateInv'
<1>0. task \in Task /\ intent \in Intent /\ Idle.pc = "idle"
  BY DEF TypeOK, MemoryType, DiskType, Idle
<1>1. /\ nonce' = nonce /\ deltas' = deltas
      /\ intent'.n = intent.n /\ intent'.op = intent.op /\ intent'.relative = intent.relative
  <2>1. CASE StopTrex \/ Crash \/ TrexExit
    BY <2>1 DEF StopTrex, Crash, TrexExit, disk, history
  <2>2. ASSUME NEW n, LeaseTick(n)
        PROVE  /\ nonce' = nonce /\ deltas' = deltas /\ intent'.n = intent.n
               /\ intent'.op = intent.op /\ intent'.relative = intent.relative
    BY <1>0, <2>2 DEF LeaseTick, history, Intent
  <2>3. ASSUME NEW p, \/ TrafficEnds(p) \/ HandlerExpires(p) \/ ExternalTraffic(p)
                      \/ ExternalRelease(p) \/ OperatorAcquires(p) \/ OperatorReleases(p)
        PROVE  UNCHANGED <<intent, nonce, deltas>>
    BY <2>3 DEF TrafficEnds, HandlerExpires, ExternalTraffic, ExternalRelease, OperatorAcquires,
                OperatorReleases, disk, history
  <2> QED BY <2>1, <2>2, <2>3 DEF Environment
<1>2. task'.pc \in {"idle", "retire", task.pc}
  <2>1. CASE StopTrex
    BY <1>0, <2>1, TaskFields DEF StopTrex, Goto
  <2>2. CASE Crash
    BY <1>0, <2>2 DEF Crash
  <2>3. CASE TrexExit
    BY <1>0, <2>3, TaskFields DEF TrexExit
  <2>4. CASE Environment /\ ~Crash /\ ~TrexExit
    BY <2>4 DEF Environment, TrafficEnds, HandlerExpires, ExternalTraffic, ExternalRelease,
                OperatorAcquires, OperatorReleases, LeaseTick, memory
  <2> QED BY <2>1, <2>2, <2>3, <2>4
<1> QED BY <1>1, <1>2, UpdateFrame DEF BeforeCommand

\* A new intent has a nonce under which no update was sent.
LEMMA BeginUpdate ==
  ASSUME TypeOK, UpdateInv, Begin
  PROVE  UpdateInv'
<1>0. nonce \in Nat /\ nonce + 1 \in Nonce
  <2>1. Ready
    BY DEF Begin, PrepareStart, PrepareMutation
  <2> QED BY <2>1, BoundsAssumption DEF Ready, TypeOK, HistoryType, Nonce0, Nonce
<1>1. ASSUME NEW i, NEW pc, i.n = nonce + 1, i.relative => i.op = "update", Prepare(i, pc)
      PROVE  UpdateInv'
  <2>1. nonce' = nonce + 1 /\ deltas' = deltas /\ intent' = i
    BY <1>1 DEF Prepare, Persist, Saved
  <2>2. deltas[nonce + 1] = 0 /\ \A n \in Nonce : n > nonce + 1 => n > nonce
    BY <1>0 DEF UpdateInv, Nonce
  <2> QED BY <1>0, <1>1, <2>1, <2>2 DEF UpdateInv
<1>2. ASSUME NEW T, NEW e, NEW c, NEW l, PrepareStart(T, e, c, l) PROVE UpdateInv'
  <2> DEFINE i == [NewIntent("start", T) EXCEPT !.expected = e, !.clear = c, !.lease = l]
  <2>1. i.n = nonce + 1 /\ i.relative = FALSE
    BY DEF NewIntent, NoIntent
  <2>2. Prepare(i, "acquire_intent")
    BY <1>2 DEF PrepareStart
  <2> HIDE DEF i
  <2> QED BY <1>1, <2>1, <2>2
<1>3. ASSUME NEW op, NEW T, NEW r, r => op = "update", PrepareMutation(op, T, r)
      PROVE  UpdateInv'
  <2> DEFINE i == [NewIntent(op, T) EXCEPT !.expected = session.id, !.relative = r]
  <2>1. i.n = nonce + 1 /\ i.op = op /\ i.relative = r
    BY DEF NewIntent, NoIntent
  <2>2. Prepare(i, "guard")
    BY <1>3 DEF PrepareMutation
  <2> HIDE DEF i
  <2>3. i.relative => i.op = "update"
    BY <1>3, <2>1
  <2> QED BY <1>1, <2>1, <2>2, <2>3
<1> QED BY <1>2, <1>3 DEF Begin

\* A relative change of rate takes effect at most once, however its mutation fails and is
\* recovered (the update branch of _recover_traffic_mutation_intent retains a relative one).
THEOREM UpdatesOnce == Spec => []RelativeUpdateOnce
<1>1. Init => TypeOK /\ OperationPending /\ StartInv /\ UpdateInv
  BY InitType, InitStart, InitUpdate DEF Init, OperationPending, Idle
<1>2. TypeOK /\ OperationPending /\ StartInv /\ UpdateInv /\ [Next]_vars
        => TypeOK' /\ OperationPending' /\ StartInv' /\ UpdateInv'
  <2> SUFFICES ASSUME TypeOK, OperationPending, StartInv, UpdateInv, [Next]_vars
               PROVE  StartInv' /\ UpdateInv'
    BY NextType, PendingKept
  <2>1. CASE Execute
    <3>1. StartInv'
      BY <2>1, StageStart, RpcStart, ControlStart, PersistStart, RecoverStart DEF Execute
    <3>2. UpdateInv'
      BY <2>1, StageUpdate, RpcUpdate, ControlUpdate, PersistUpdate, RecoverUpdateKept
         DEF Execute
    <3> QED BY <3>1, <3>2
  <2>2. CASE UNCHANGED vars
    BY <2>2 DEF vars, disk, memory, history, StartInv, Unsent, BeforeStart, Reached, UpdateInv,
                BeforeCommand
  <2>3. CASE Begin \/ Snapshot \/ StopTrex \/ Environment
    <3>1. StartInv'
      BY <2>3, BeginStart, RecoverStart, EnvironmentStart
    <3>2. UpdateInv'
      BY <2>3, BeginUpdate, RecoverUpdateKept, EnvironmentUpdate
    <3> QED BY <3>1, <3>2
  <2> QED BY <2>1, <2>2, <2>3 DEF Next
<1>3. UpdateInv => RelativeUpdateOnce
  BY DEF UpdateInv, RelativeUpdateOnce
<1> QED BY <1>1, <1>2, <1>3, PTL DEF Spec
=============================================================================
