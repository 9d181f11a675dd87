-------------------------- MODULE TrafficSessionProofs --------------------------
(***************************************************************************)
(* What operations leave behind: a session frozen under a pending intent,   *)
(* the session the process owns, the ports it holds, no streams of a start  *)
(* that was given up, and documents that are valid and tell what was done.  *)
(***************************************************************************)
EXTENDS TrafficRefinementProofs

\* The steps that neither write the session nor learn which session is owned.
LEMMA SessionUntouched ==
  ASSUME \/ GuardPasses \/ GuardExpires \/ AdvanceStage \/ StageFails
         \/ Acquire \/ Preflight \/ RemoveStreams \/ AddProfile \/ StartTraffic \/ Command
         \/ Release \/ Control \/ RollbackTraffic \/ RestoreStreams \/ RestoreAcquisition
         \/ Verify \/ PromotionRefused \/ RecoverForeign \/ RecoverYields \/ RecoverUnsafe
         \/ Snapshot \/ StopTrex
  PROVE  UNCHANGED <<session, runs, owned>>
<1>1. CASE \/ GuardPasses \/ GuardExpires \/ AdvanceStage \/ StageFails
           \/ RecoverForeign \/ RecoverYields \/ RecoverUnsafe \/ PromotionRefused
           \/ Snapshot \/ StopTrex
  BY <1>1 DEF GuardPasses, GuardExpires, AdvanceStage, StageFails, RecoverForeign,
              RecoverYields, RecoverUnsafe, PromotionRefused, Snapshot, StopTrex, disk
<1>2. CASE \/ Acquire \/ Preflight \/ RemoveStreams \/ AddProfile \/ StartTraffic \/ Command
           \/ Release
  BY <1>2 DEF Acquire, Preflight, RemoveStreams, AddProfile, StartTraffic, Command, Release, disk
<1>3. CASE Control \/ RollbackTraffic \/ RestoreStreams \/ RestoreAcquisition \/ Verify
  BY <1>3 DEF Control, RollbackTraffic, RestoreStreams, RestoreAcquisition, Verify, disk
<1> QED BY <1>1, <1>2, <1>3

\* The decisions of a recovery read the documents and write none.
LEMMA RecoveringUntouched ==
  ASSUME \/ RollBackStart \/ AdoptStart \/ ReplayStart \/ AbandonStart
         \/ RecoverUpdate \/ AdoptAction \/ ClearAction \/ RetryAction
  PROVE  UNCHANGED <<session, runs>> /\ owned' \in {owned, session.id}
<1>1. PICK op : Recovering(op)
  BY DEF RollBackStart, AdoptStart, ReplayStart, AbandonStart, RecoverUpdate, AdoptAction,
         ClearAction, RetryAction
<1> QED BY <1>1 DEF Recovering, disk

-----------------------------------------------------------------------------
(* The session under a pending intent *)

\* A snapshot reconciles the session only when no intent is pending (any more).
ReconcilesClean == task.pc = "reconcile" => intent.n = 0

\* No other step of an operation than those that write the document goes on to reconcile.
LEMMA StepsWithoutReconcile ==
  ASSUME TypeOK, Execute,
         ~(Promote \/ Clear \/ RetireAfterRollover \/ RetireAfterTermination)
  PROVE  task'.pc # "reconcile"
<1>0. task \in Task /\ Idle.pc = "idle" /\ Failed # "reconcile" /\ AfterControl # "reconcile"
  BY DEF TypeOK, MemoryType, Idle, Failed, AfterControl
<1>1. ASSUME NEW pc, pc # "reconcile", \/ Goto(pc) \/ \E ok : Under(ok, pc)
                                       \/ \E ok : task' = [task EXCEPT !.pc = pc, !.ok = ok]
                                       \/ \E T : task' = [task EXCEPT !.pc = pc, !.took = T]
                                       \/ \E T : task' = [task EXCEPT !.pc = pc, !.ports = T]
                                       \/ task' = [task EXCEPT !.ok = TRUE, !.pc = pc]
      PROVE  task'.pc # "reconcile"
  <2>1. CASE Goto(pc)
    BY <1>0, <1>1, <2>1 DEF Goto, Task
  <2>2. CASE \E ok : Under(ok, pc)
    BY <1>0, <1>1, <2>2 DEF Under, Task
  <2>3. CASE ~Goto(pc) /\ ~\E ok : Under(ok, pc)
    BY <1>0, <1>1, <2>3 DEF Task
  <2> QED BY <2>1, <2>2, <2>3
<1>2. CASE GuardPasses \/ GuardExpires \/ AdvanceStage
  <2>1. task.pc \in Hooks => AfterHook # "reconcile"
    BY DEF AfterHook, Hooks
  <2> QED BY <1>1, <1>2, <2>1 DEF GuardPasses, GuardExpires, AdvanceStage
<1>3. CASE StageFails
  <2>1. task' = [task EXCEPT !.pc = Failed] \/ task' = [task EXCEPT !.pc = "release", !.ok = FALSE]
    BY <1>3 DEF StageFails
  <2> QED BY <1>0, <1>1, <2>1 DEF Goto
<1>4. CASE Acquire
  <2> DEFINE missing == {p \in task.ports : own[p] # "api"}
             pc == IF intent.op = "start" THEN "acquired" ELSE "command"
  <2>1. \/ task' = [task EXCEPT !.pc = pc, !.took = missing]
        \/ task' = [task EXCEPT !.pc = Failed]
    BY <1>4 DEF Acquire
  <2>2. pc # "reconcile"
    OBVIOUS
  <2> HIDE DEF pc, missing
  <2> QED BY <1>0, <1>1, <2>1, <2>2 DEF Goto
<1>5. CASE Preflight
  <2> DEFINE pc == IF intent.clear THEN "streams_remove_intent" ELSE "profile_add_intent"
  <2>1. pc # "reconcile" /\ \E ok : Under(ok, pc)
    BY <1>5 DEF Preflight
  <2> HIDE DEF pc
  <2> QED BY <1>1, <2>1
<1>6. CASE RemoveStreams \/ AddProfile \/ StartTraffic
  <2>1. \E ok : \/ Under(ok, "streams_removed") \/ Under(ok, "profile_added")
                \/ Under(ok, "start_returned")
    BY <1>6 DEF RemoveStreams, AddProfile, StartTraffic
  <2> QED BY <1>1, <2>1
<1>7. CASE Command
  <2>1. \E ok : task' = [task EXCEPT !.pc = "release", !.ok = ok]
    BY <1>7 DEF Command
  <2> QED BY <1>1, <2>1
<1>8. CASE Release
  <2>1. task' = AfterOperation \/ task' = [task EXCEPT !.pc = Failed]
    BY <1>8 DEF Release
  <2>2. AfterOperation.pc # "reconcile"
    BY <1>0 DEF AfterOperation, Task
  <2> QED BY <1>0, <1>1, <2>1, <2>2 DEF Goto
<1>9. CASE Control
  <2> DEFINE pc == CASE task.goal = "rollback"  -> "rollback"
                     [] task.goal = "normalize" -> "streams"
                     [] OTHER                   -> "restore"
  <2>1. \/ task' = [task EXCEPT !.pc = Failed]
        \/ task' = [task EXCEPT !.ok = TRUE, !.pc = pc]
    BY <1>9 DEF Control
  <2>2. pc # "reconcile"
    OBVIOUS
  <2> HIDE DEF pc
  <2> QED BY <1>0, <1>1, <2>1, <2>2 DEF Goto
<1>10. CASE RollbackTraffic \/ RestoreStreams
  <2>1. Goto("streams") \/ \E ok : task' = [task EXCEPT !.pc = "restore", !.ok = ok]
    BY <1>10 DEF RollbackTraffic, RestoreStreams, ThenRestore
  <2> QED BY <1>1, <2>1
<1>11. CASE RestoreAcquisition
  <2>1. Goto(AfterControl) \/ Goto(Failed)
    BY <1>11 DEF RestoreAcquisition
  <2> QED BY <1>0, <1>1, <2>1
<1>12. CASE Verify
  <2>1. \/ Goto("unresolved")
        \/ \E pc \in {"clear", "promote", "control"}, goal \in {task.goal, "promote"} :
             task' = [task EXCEPT !.live = run, !.pc = pc, !.goal = goal]
    BY <1>12 DEF Verify
  <2>2. ASSUME NEW pc \in {"clear", "promote", "control"}, NEW goal,
               task' = [task EXCEPT !.live = run, !.pc = pc, !.goal = goal]
        PROVE  task'.pc # "reconcile"
    BY <1>0, <2>2 DEF Task
  <2>3. CASE Goto("unresolved")
    BY <1>1, <2>3
  <2> QED BY <2>1, <2>2, <2>3
<1>13. CASE PromotionRefused
  <2>1. Unwritten.pc # "reconcile"
    BY <1>0 DEF Unwritten, Task
  <2> QED BY <1>13, <2>1 DEF PromotionRefused
<1>14. CASE Retain \/ Reconcile \/ RecoverYields
  BY <1>0, <1>14 DEF Retain, Reconcile, RecoverYields
<1>15. CASE RecoverForeign \/ RecoverUnsafe \/ AbandonStart
  <2>1. Goto("rollover") \/ Goto("unresolved")
    BY <1>15 DEF RecoverForeign, RecoverUnsafe, AbandonStart
  <2> QED BY <1>1, <2>1
<1>16. CASE RollBackStart \/ AdoptStart \/ AdoptAction \/ ClearAction \/ RecoverUpdate \/ RetryAction
  <2>1. \/ Goto("unresolved")
        \/ \E goal : Controlled(goal)
        \/ \E T : task' = [task EXCEPT !.pc = "acquire", !.ports = T]
    BY <1>16 DEF RollBackStart, AdoptStart, AdoptAction, ClearAction, RecoverUpdate, RetryAction
  <2>2. ASSUME NEW goal, Controlled(goal) PROVE task'.pc = "control"
    BY <1>0, <2>2 DEF Controlled, Task
  <2> QED BY <1>1, <2>1, <2>2
<1>17. CASE ReplayStart
  <2> DEFINE replay == [task EXCEPT !.ports = intent.ports]
  <2>1. /\ [replay EXCEPT !.pc = "acquire_intent"].pc = "acquire_intent"
        /\ [replay EXCEPT !.pc = "control", !.goal = "normalize"].pc = "control"
    BY <1>0 DEF Task
  <2> QED BY <1>17, <2>1 DEF ReplayStart
<1> QED BY <1>2, <1>3, <1>4, <1>5, <1>6, <1>7, <1>8, <1>9, <1>10, <1>11, <1>12, <1>13, <1>14,
           <1>15, <1>16, <1>17 DEF Execute

\* A reconciliation under way finds no pending intent, whatever step is taken.
LEMMA ReconcilesCleanKept ==
  ASSUME TypeOK, OperationPending, ReconcilesClean, [Next]_vars
  PROVE  ReconcilesClean'
<1>0. task \in Task /\ intent \in Intent /\ NoIntent.n = 0 /\ Idle.pc = "idle"
  BY DEF TypeOK, MemoryType, DiskType, NoIntent, Idle
<1>1. CASE Promote \/ Clear \/ RetireAfterRollover \/ RetireAfterTermination
  <2>1. \/ task' \in {Idle, Unwritten}
        \/ intent' = NoIntent
    BY <1>1 DEF Promote, Clear, RetireAfterRollover, RetireAfterTermination, Persist
  <2>2. Unwritten.pc # "reconcile"
    BY <1>0 DEF Unwritten, Task
  <2> QED BY <1>0, <2>1, <2>2 DEF ReconcilesClean
<1>2. CASE Begin
  <2>1. PICK i, pc : Prepare(i, pc) /\ pc \in {"acquire_intent", "guard"}
    BY <1>2 DEF Begin, PrepareStart, PrepareMutation
  <2>2. task' = Idle \/ task' = [Idle EXCEPT !.pc = pc, !.ports = i.ports]
    BY <2>1 DEF Prepare
  <2>3. [Idle EXCEPT !.pc = pc, !.ports = i.ports].pc = pc
    BY DEF Idle
  <2>4. task'.pc # "reconcile"
    BY <1>0, <2>1, <2>2, <2>3
  <2> QED BY <2>4 DEF ReconcilesClean
<1>3. CASE Next /\ ~Replacing
  <2>1. intent'.n = intent.n
    BY <1>3, IntentKept
  <2>2. CASE intent.n = 0
    BY <2>1, <2>2 DEF ReconcilesClean
  <2>3. CASE intent.n # 0
    <3>1. task.pc # "reconcile"
      BY <2>3 DEF ReconcilesClean
    <3>2. \A pc : [task EXCEPT !.pc = pc].pc = pc /\ [task EXCEPT !.linked = FALSE].pc = task.pc
      BY <1>0 DEF Task
    <3>3. CASE Environment
      <4>1. task' \in {task, Idle, [task EXCEPT !.linked = FALSE]}
        BY <3>3 DEF Environment, Crash, TrexExit, TrafficEnds, HandlerExpires, ExternalTraffic,
                    ExternalRelease, OperatorAcquires, OperatorReleases, LeaseTick, memory
      <4>2. task'.pc # "reconcile"
        BY <1>0, <3>1, <3>2, <4>1
      <4> QED BY <4>2 DEF ReconcilesClean
    <3>4. CASE StopTrex \/ Snapshot
      <4>1. task'.pc \in {"retire", "recover"}
        BY <1>0, <2>3, <3>2, <3>4 DEF StopTrex, Goto, Snapshot, Idle
      <4> QED BY <4>1 DEF ReconcilesClean
    <3>5. CASE Execute
      <4>1. task'.pc # "reconcile"
        BY <1>3, <3>1, <3>5, StepsWithoutReconcile DEF Replacing
      <4> QED BY <4>1 DEF ReconcilesClean
    <3> QED BY <1>3, <3>3, <3>4, <3>5 DEF Next, Replacing
  <2> QED BY <2>2, <2>3
<1>4. CASE UNCHANGED vars
  BY <1>4 DEF vars, disk, memory, ReconcilesClean
<1> QED BY <1>1, <1>2, <1>3, <1>4 DEF Replacing

\* The session and its runs change under a pending intent only in the step that ends it
\* (promote, clear, retire), but for the time that passes on the leases.
THEOREM SessionIsFrozen == Spec => SessionFrozen
<1> DEFINE Frozen ==
      intent.n # 0 /\ intent'.n = intent.n =>
        /\ session' = session
        /\ \A n \in Nonce : [runs'[n] EXCEPT !.lease = "none"] = [runs[n] EXCEPT !.lease = "none"]
<1>1. Init => TypeOK /\ OperationPending /\ ReconcilesClean
  BY InitType DEF Init, OperationPending, ReconcilesClean, Idle
<1>2. TypeOK /\ OperationPending /\ ReconcilesClean /\ [Next]_vars
        => TypeOK' /\ OperationPending' /\ ReconcilesClean'
  BY NextType, PendingKept, ReconcilesCleanKept
<1>3. TypeOK /\ ReconcilesClean /\ [Next]_vars => [Frozen]_vars
  <2> SUFFICES ASSUME TypeOK, ReconcilesClean, Next, intent.n # 0, intent'.n = intent.n
               PROVE  \/ UNCHANGED <<session, runs>>
                      \/ /\ session' = session
                         /\ \A n \in Nonce : [runs'[n] EXCEPT !.lease = "none"]
                                               = [runs[n] EXCEPT !.lease = "none"]
    BY DEF vars, disk
  <2>0. NoIntent.n = 0
    BY DEF NoIntent
  <2>1. ASSUME NEW saved, NEW s, NEW rs, Persist(saved, s, rs, NoIntent)
        PROVE  UNCHANGED <<session, runs>>
    BY <2>0, <2>1 DEF Persist, disk
  <2>2. CASE Promote \/ Clear \/ RetireAfterRollover \/ RetireAfterTermination
    BY <2>1, <2>2 DEF Promote, Clear, RetireAfterRollover, RetireAfterTermination, disk
  <2>3. CASE Begin
    BY <2>3 DEF Begin, PrepareStart, PrepareMutation, Ready
  <2>4. CASE Reconcile
    BY <2>4 DEF Reconcile, ReconcilesClean
  <2>5. CASE Environment
    <3>1. ASSUME NEW n \in Nonce, LeaseTick(n)
          PROVE  session' = session /\ \A m \in Nonce : [runs'[m] EXCEPT !.lease = "none"]
                                                         = [runs[m] EXCEPT !.lease = "none"]
      <4>1. CASE runs' = [runs EXCEPT ![n].lease = Later(@)]
        <5>1. \A r \in Run : \A lease :
               [[r EXCEPT !.lease = lease] EXCEPT !.lease = "none"] = [r EXCEPT !.lease = "none"]
          BY DEF Run
        <5>2. runs \in [Nonce -> Run]
          BY DEF TypeOK, DiskType
        <5>3. ASSUME NEW m \in Nonce
              PROVE  runs'[m] = runs[m] \/ runs'[m] = [runs[m] EXCEPT !.lease = Later(runs[m].lease)]
          BY <4>1, <5>2
        <5>4. ASSUME NEW m \in Nonce
              PROVE  [runs'[m] EXCEPT !.lease = "none"] = [runs[m] EXCEPT !.lease = "none"]
          <6>1. runs[m] \in Run
            BY <5>2
          <6>2. CASE runs'[m] = runs[m]
            BY <6>2
          <6>3. CASE runs'[m] = [runs[m] EXCEPT !.lease = Later(runs[m].lease)]
            <7>1. [[runs[m] EXCEPT !.lease = Later(runs[m].lease)] EXCEPT !.lease = "none"]
                    = [runs[m] EXCEPT !.lease = "none"]
              BY <5>1, <6>1
            <7> QED BY <6>3, <7>1
          <6> QED BY <5>3, <6>2, <6>3
        <5> QED BY <3>1, <5>4 DEF LeaseTick
      <4>2. CASE runs' = runs
        BY <3>1, <4>2 DEF LeaseTick
      <4> QED BY <3>1, <4>1, <4>2 DEF LeaseTick
    <3> QED BY <2>5, <3>1
            DEF Environment, Crash, TrexExit, TrafficEnds, HandlerExpires, ExternalTraffic,
                ExternalRelease, OperatorAcquires, OperatorReleases, disk
  <2>6. CASE Retain
    BY <2>6 DEF Retain
  <2> QED BY <2>2, <2>3, <2>4, <2>5, <2>6, SessionUntouched, RecoveringUntouched DEF Next, Execute
<1> QED BY <1>1, <1>2, <1>3, PTL DEF Spec, SessionFrozen

-----------------------------------------------------------------------------
(* The session the process believes to own *)

\* As long as a failed write of the document is a write that did not happen, the process
\* owns no session other than the durable one (_owned_session_id against the document).
THEOREM OwnedCurrent ==
  ASSUME "unsure" \notin DiskFaults
  PROVE  Spec => []OwnedIsCurrent
<1>1. Init => OwnedIsCurrent
  BY DEF Init, OwnedIsCurrent
<1>2. OwnedIsCurrent /\ [Next]_vars => OwnedIsCurrent'
  <2> SUFFICES ASSUME OwnedIsCurrent, [Next]_vars PROVE OwnedIsCurrent'
    OBVIOUS
  <2>0. \A saved \in Saved : saved = "yes" \/ saved = "no"
    BY RequestsAssumption DEF Saved
  <2>1. ASSUME session'.id = session.id, owned' \in {0, owned, session.id} PROVE OwnedIsCurrent'
    BY <2>1 DEF OwnedIsCurrent
  <2>2. CASE Promote
    <3> DEFINE s == PromotedSession(intent)
               rs == PromotedRuns(intent)
    <3>1. CASE UNCHANGED <<disk, owned>>
      BY <2>1, <3>1 DEF disk
    <3>2. CASE \E saved \in Saved :
                 /\ Persist(saved, s, rs, NoIntent)
                 /\ owned' = IF saved # "yes" THEN owned
                             ELSE IF SessionState(s, rs) = "stopped" THEN 0 ELSE s.id
      <4> HIDE DEF s, rs
      <4>1. CASE /\ Persist("yes", s, rs, NoIntent) /\ owned' \in {0, s.id}
        BY <4>1 DEF Persist, OwnedIsCurrent
      <4>2. CASE Persist("no", s, rs, NoIntent) /\ owned' = owned
        BY <2>1, <4>2 DEF Persist, disk
      <4> QED BY <2>0, <3>2, <4>1, <4>2
    <3> HIDE DEF s, rs
    <3> QED BY <2>2, <3>1, <3>2 DEF Promote, s, rs
  <2>3. CASE Clear \/ RetireAfterRollover \/ RetireAfterTermination
    <3>1. ASSUME NEW saved, NEW rs, NEW i, Persist(saved, session, rs, i) PROVE session' = session
      BY <3>1 DEF Persist, disk
    <3> QED BY <2>1, <2>3, <3>1 DEF Clear, RetireAfterRollover, RetireAfterTermination
  <2>4. CASE Reconcile
    BY <2>1, <2>4 DEF Reconcile, Persist, disk
  <2>5. CASE Begin
    BY <2>1, <2>5, ZenonT(40) DEF Begin, PrepareStart, PrepareMutation, Prepare, Persist, disk
  <2>6. CASE Environment
    BY <2>1, <2>6 DEF Environment, Crash, TrexExit, TrafficEnds, HandlerExpires, ExternalTraffic,
                      ExternalRelease, OperatorAcquires, OperatorReleases, LeaseTick, disk, memory
  <2>7. CASE Retain
    BY <2>1, <2>7 DEF Retain
  <2>8. CASE UNCHANGED vars
    BY <2>1, <2>8 DEF vars, disk, memory
  <2> QED BY <2>1, <2>2, <2>3, <2>4, <2>5, <2>6, <2>7, <2>8, SessionUntouched, RecoveringUntouched
          DEF Next, Execute
<1> QED BY <1>1, <1>2, PTL DEF Spec

-----------------------------------------------------------------------------
(* The ports the API holds *)

Api == {p \in Ports : own[p] = "api"}

\* Where an operation has not acquired ports for its intent yet, or has put them back; and
\* with another authority it never acquires any.
Unheld ==
  \/ intent.n = 0 \/ intent.auth # authority
  \/ task.pc \in {"guard", "promote", "clear", "retire"}
  \/ task.pc = "verify" /\ task.goal # "none"
  \/ task.mode = "direct" /\ task.pc \in {"acquire_intent", "acquire"}

\* The API holds what the operator acquired, what a mutation took for its RPCs, and what a
\* recovery controls and will put back, which is among the ports of the intent.
PortsInv ==
  /\ intent.acquired \subseteq held
  /\ Api \subseteq held \cup intent.ports
  /\ Unheld => Api \subseteq held
  /\ task.mode = "direct" /\ task.pc \in Sending => Api \subseteq held \cup task.took

\* What an operation took changes when it acquires.
LEMMA TookKept ==
  ASSUME TypeOK,
         \/ GuardPasses \/ GuardExpires \/ AdvanceStage \/ StageFails
         \/ Preflight \/ RemoveStreams \/ AddProfile \/ StartTraffic \/ Command
  PROVE  task'.took = task.took
<1>0. task \in Task
  BY DEF TypeOK, MemoryType
<1>1. \A pc : [task EXCEPT !.pc = pc].took = task.took
  BY <1>0 DEF Task
<1>2. \A pc, ok : [task EXCEPT !.pc = pc, !.ok = ok].took = task.took
  BY <1>0 DEF Task
<1>g. ASSUME NEW pc, Goto(pc)
      PROVE  task'.took = task.took
  BY <1>1, <1>g DEF Goto
<1>3. CASE GuardPasses \/ GuardExpires \/ AdvanceStage
  BY <1>g, <1>3 DEF GuardPasses, GuardExpires, AdvanceStage
<1>4. CASE StageFails
  BY <1>1, <1>2, <1>4 DEF StageFails
<1>5. ASSUME NEW ok, NEW pc, Under(ok, pc)
      PROVE  task'.took = task.took
  BY <1>1, <1>2, <1>5 DEF Under
<1>6. CASE Preflight
  BY <1>5, <1>6 DEF Preflight
<1>7. CASE RemoveStreams \/ AddProfile \/ StartTraffic
  BY <1>5, <1>7 DEF RemoveStreams, AddProfile, StartTraffic
<1>8. CASE Command
  <2>1. \E ok : task' = [task EXCEPT !.pc = "release", !.ok = ok]
    BY <1>8 DEF Command
  <2> QED BY <1>2, <2>1
<1> QED BY <1>3, <1>4, <1>6, <1>7, <1>8

\* Who holds the ports changes with an RPC of an operation, at the operator's wish, or when
\* the API loses all of them.
LEMMA OwnSteps ==
  ASSUME TypeOK, [Next]_vars
  PROVE  \/ Acquire \/ Release \/ Control \/ RestoreAcquisition
         \/ own' = own /\ held' = held /\ ~(StopTrex \/ Environment)
         \/ Api' = {} /\ SameIntent /\ held' \in {held, held \cap intent.acquired}
         \/ /\ task' = task /\ authority' = authority /\ SameIntent
            /\ Api' \ held' \subseteq Api \ held
            /\ intent.acquired \cap held \subseteq held'
<1> USE DEF disk, server, history, memory
<1> DEFINE Unmoved == own' = own /\ held' = held
<1>0. own \in [Ports -> {"free", "api", "stale", "other"}]
  BY DEF TypeOK, ServerType
<1>1. ASSUME Begin
      PROVE  Unmoved
  BY <1>1, BeginTask DEF Begin, PrepareStart, PrepareMutation, Prepare
<1>2. ASSUME Snapshot
      PROVE  Unmoved
  BY <1>2 DEF Snapshot
<1>3. CASE StopTrex \/ TrexExit
  <2>1. SameIntent
    BY <1>3, EnvironmentTask DEF Environment
  <2>2. own' = [p \in Ports |-> "free"] /\ held' = held \cap intent.acquired
    BY <1>3 DEF StopTrex, TrexExit, HardwareReset
  <2> QED BY <2>1, <2>2 DEF Api
<1>4. CASE Crash
  <2>1. SameIntent
    BY <1>4, EnvironmentTask DEF Environment
  <2>2. own' = [p \in Ports |-> IF own[p] = "api" THEN "stale" ELSE own[p]] /\ held' = held
    BY <1>4 DEF Crash
  <2> QED BY <2>1, <2>2 DEF Api
<1>5. ASSUME NEW p \in Ports,
             \/ TrafficEnds(p) \/ HandlerExpires(p) \/ ExternalTraffic(p) \/ ExternalRelease(p)
             \/ OperatorAcquires(p) \/ OperatorReleases(p)
      PROVE  /\ task' = task /\ authority' = authority /\ SameIntent
             /\ Api' \ held' \subseteq Api \ held
             /\ intent.acquired \cap held \subseteq held'
  <2>0. /\ task' = task /\ authority' = authority /\ intent' = intent /\ SameIntent
    BY <1>5, IntentFields DEF TrafficEnds, HandlerExpires, ExternalTraffic, ExternalRelease,
                              OperatorAcquires, OperatorReleases
  <2>1. CASE TrafficEnds(p)
    BY <2>0, <2>1 DEF TrafficEnds, Api
  <2>2. CASE HandlerExpires(p) \/ ExternalRelease(p)
    BY <1>0, <2>0, <2>2 DEF HandlerExpires, ExternalRelease, Grant, Api
  <2>3. CASE ExternalTraffic(p)
    BY <1>0, <2>0, <2>3 DEF ExternalTraffic, Grant, Api
  <2>4. CASE OperatorAcquires(p)
    BY <1>0, <2>0, <2>4 DEF OperatorAcquires, Grant, Api
  <2>5. CASE OperatorReleases(p)
    BY <1>0, <2>0, <2>5 DEF OperatorReleases, Grant, Api
  <2> QED BY <1>5, <2>1, <2>2, <2>3, <2>4, <2>5
<1>6. ASSUME NEW n \in Nonce, LeaseTick(n)
      PROVE  own' = own /\ held' = held /\ task' = task /\ authority' = authority /\ SameIntent
  <2>1. SameIntent
    BY <1>6, EnvironmentTask DEF Environment
  <2> QED BY <1>6, <2>1 DEF LeaseTick
<1>7. ASSUME GuardPasses \/ GuardExpires \/ AdvanceStage \/ StageFails
      PROVE  Unmoved
  BY <1>7 DEF GuardPasses, GuardExpires, AdvanceStage, StageFails
<1>8. ASSUME Preflight \/ RemoveStreams \/ AddProfile \/ StartTraffic \/ Command
      PROVE  Unmoved
  BY <1>8 DEF Preflight, RemoveStreams, AddProfile, StartTraffic, Command
<1>9. ASSUME RollbackTraffic \/ RestoreStreams \/ Verify
      PROVE  Unmoved
  BY <1>9 DEF RollbackTraffic, RestoreStreams, Verify
<1>10. ASSUME \/ Promote \/ PromotionRefused \/ Retain \/ Clear
              \/ RetireAfterRollover \/ RetireAfterTermination \/ Reconcile
      PROVE  Unmoved
  BY <1>10 DEF Promote, PromotionRefused, Retain, Clear, RetireAfterRollover,
               RetireAfterTermination, Reconcile
<1>11. ASSUME \/ RecoverForeign \/ RecoverYields \/ RecoverUnsafe \/ \E op : Recovering(op)
      PROVE  Unmoved
  BY <1>11 DEF RecoverForeign, RecoverYields, RecoverUnsafe, Recovering
<1>12. ASSUME \/ RollBackStart \/ AdoptStart \/ ReplayStart \/ AbandonStart
              \/ RecoverUpdate \/ AdoptAction \/ ClearAction \/ RetryAction
      PROVE  Unmoved
  BY <1>11, <1>12 DEF RollBackStart, AdoptStart, ReplayStart, AbandonStart, RecoverUpdate,
                      AdoptAction, ClearAction, RetryAction
<1>13. ASSUME UNCHANGED vars
      PROVE  Unmoved
  BY <1>13 DEF vars
<1>14. CASE StopTrex \/ Environment
  <2>1. ASSUME NEW n \in Nonce, LeaseTick(n)
        PROVE  /\ task' = task /\ authority' = authority /\ SameIntent
               /\ Api' \ held' \subseteq Api \ held
               /\ intent.acquired \cap held \subseteq held'
    BY <1>6, <2>1 DEF Api
  <2> QED BY <1>3, <1>4, <1>5, <1>14, <2>1 DEF Environment
<1> QED BY <1>1, <1>2, <1>7, <1>8, <1>9, <1>10, <1>11, <1>12, <1>13, <1>14 DEF Next, Execute

\* An operation that has left its TRex process acquires nothing for its intent.
LEMMA AcquiredOwn ==
  ASSUME TypeOK, NEW T \in SUBSET Ports, NEW o \in Outcomes({p \in T : own[p] # "api"}),
         Grant(o.done, "api")
  PROVE  /\ Api' \subseteq Api \cup T
         /\ ~task.linked => Api' = Api
         /\ o.ok => Api' \subseteq Api \cup {p \in T : own[p] # "api"}
<1>1. own \in [Ports -> {"free", "api", "stale", "other"}]
  BY DEF TypeOK, ServerType
<1>2. o.done \subseteq {p \in T : own[p] # "api"}
  BY DEF Outcomes
<1>3. Api' = Api \cup o.done
  BY <1>1, <1>2 DEF Grant, Api
<1>4. ~task.linked => o.done = {}
  BY <1>2 DEF Outcomes
<1> QED BY <1>2, <1>3, <1>4

\* The steps that change who holds the ports.
LEMMA AcquiringKept ==
  ASSUME TypeOK, OperationPending, TaskFits, TaskAuthority, PortsInv,
         Acquire \/ Release \/ Control \/ RestoreAcquisition
  PROVE  PortsInv'
<1> USE DEF StartPath, Sending, Controlling, Hooks
<1>0. /\ own \in [Ports -> {"free", "api", "stale", "other"}]
      /\ intent.ports \in SUBSET Ports /\ task.ports \in SUBSET Ports /\ task.took \in SUBSET Ports
      /\ task \in Task /\ task.mode \in {"direct", "recovery"}
      /\ intent.n # 0
  BY DEF TypeOK, ServerType, DiskType, MemoryType, Intent, Task, Acquire, Release, Control,
         RestoreAcquisition, OperationPending
<1>1. intent' = intent /\ held' = held /\ authority' = authority
  BY DEF Acquire, Release, Control, RestoreAcquisition, disk, history
<1>2. CASE Acquire
  <2> DEFINE missing == {p \in task.ports : own[p] # "api"}
             pc == IF intent.op = "start" THEN "acquired" ELSE "command"
  <2>1. PICK o \in Outcomes(missing) :
          /\ Grant(o.done, "api")
          /\ task' = IF o.ok THEN [task EXCEPT !.pc = pc, !.took = missing]
                     ELSE [task EXCEPT !.pc = Failed]
    BY <1>2 DEF Acquire
  <2>2. /\ Api' \subseteq Api \cup task.ports
        /\ ~task.linked => Api' = Api
        /\ o.ok => Api' \subseteq Api \cup missing
    BY <1>0, <2>1, AcquiredOwn
  <2>3. task.pc = "acquire" /\ task.ports \subseteq intent.ports
    BY <1>2 DEF Acquire, TaskFits
  <2>4. \/ o.ok /\ task'.pc \in {"acquired", "command"} /\ task'.took = missing
           /\ task'.mode = task.mode
        \/ task'.pc \in {"retain", "unresolved"}
    <3>1. pc \in {"acquired", "command"} /\ Failed \in {"retain", "unresolved"}
      BY AfterSteps
    <3> HIDE DEF pc, missing
    <3> QED BY <1>0, <2>1, <3>1 DEF Task
  <2>5. intent.auth = authority \/ Api' = Api
    BY <2>2, <2>3 DEF TaskAuthority
  <2> HIDE DEF missing, pc
  <2>6. Unheld' => Api' \subseteq held
    BY <1>0, <1>1, <2>4, <2>5 DEF Unheld, PortsInv
  <2>7. task.mode = "direct" => Api \subseteq held
    BY <2>3 DEF PortsInv, Unheld
  <2> QED BY <1>1, <2>2, <2>3, <2>4, <2>6, <2>7 DEF PortsInv
<1>3. CASE Control
  <2>1. PICK o \in Outcomes({p \in intent.ports : own[p] # "api"}) : Grant(o.done, "api")
    BY <1>3 DEF Control
  <2>2. Api' \subseteq Api \cup intent.ports /\ (~task.linked => Api' = Api)
    BY <1>0, <2>1, AcquiredOwn
  <2>3. /\ task.pc = "control" /\ task.mode = "recovery" /\ task'.mode = task.mode
        /\ task'.pc \in {"retain", "unresolved", "rollback", "streams", "restore"}
    BY <1>3, ControlTask DEF Control, TaskFits, SameLocals
  <2>4. intent.auth = authority \/ Api' = Api
    BY <2>2, <2>3 DEF TaskAuthority
  <2>5. Unheld' => Api' \subseteq held
    BY <1>0, <1>1, <2>3, <2>4 DEF Unheld, PortsInv
  <2> QED BY <1>1, <2>2, <2>3, <2>5 DEF PortsInv
<1>4. CASE Release
  <2>1. PICK o \in Outcomes(task.took) :
          /\ Grant({p \in o.done : own[p] = "api"}, "free")
          /\ task' = IF o.ok /\ task.ok THEN AfterOperation ELSE [task EXCEPT !.pc = Failed]
    BY <1>4 DEF Release
  <2>2. o.done \subseteq task.took /\ (o.ok => o.done = task.took)
    BY DEF Outcomes
  <2>3. Api' = Api \ o.done
    BY <1>0, <2>1, <2>2 DEF Grant, Api
  <2>4. /\ task.pc = "release" /\ task'.mode = task.mode
        /\ \/ task'.pc \in {"retain", "unresolved"}
           \/ task'.pc = "promote" /\ task.mode = "direct"
           \/ task'.pc = "control"
           \/ task'.pc = "verify" /\ task'.goal = "none"
    BY <1>4, ReleaseTask
  <2>5. task'.pc = "promote" => o.ok
    <3>1. [task EXCEPT !.pc = Failed].pc # "promote"
      BY <1>0, AfterSteps, TaskFields
    <3> QED BY <2>1, <3>1
  <2>6. task.mode = "direct" => Api \subseteq held \cup task.took
    BY <2>4 DEF PortsInv
  <2>7. Unheld' => Api' \subseteq held
    BY <1>0, <1>1, <2>2, <2>3, <2>4, <2>5, <2>6 DEF Unheld, PortsInv
  <2> QED BY <1>1, <2>3, <2>4, <2>7 DEF PortsInv
<1>5. CASE RestoreAcquisition
  <2> DEFINE kept == {p \in intent.ports : own'[p] = "api"}
  <2>1. PICK o \in Outcomes({p \in intent.ports \ intent.acquired : own[p] = "api"}) :
          /\ Grant(o.done, "free")
          /\ Goto(IF o.ok /\ task.ok /\ kept = intent.acquired THEN AfterControl ELSE Failed)
    BY <1>5 DEF RestoreAcquisition
  <2>2. Api' \subseteq Api /\ kept = Api' \cap intent.ports
    BY <1>0, <2>1 DEF Grant, Api
  <2>3. task.pc = "restore" /\ task.mode = "recovery" /\ task'.mode = task.mode
    BY <1>5, ControlTask DEF RestoreAcquisition, TaskFits, SameLocals
  <2> HIDE DEF kept
  <2>4. kept = intent.acquired \/ task'.pc \in {"retain", "unresolved"}
    BY <1>0, <2>1, AfterSteps, TaskFields DEF Goto
  <2>5. kept = intent.acquired => Api' \subseteq held
    BY <2>2 DEF PortsInv
  <2>6. Unheld' => Api' \subseteq held
    BY <1>0, <1>1, <2>2, <2>4, <2>5 DEF Unheld, PortsInv
  <2>7. task'.mode # "direct"
    BY <2>3
  <2> QED BY <1>1, <2>2, <2>6, <2>7 DEF PortsInv
<1> QED BY <1>2, <1>3, <1>4, <1>5


\* The other steps of an operation go where nothing is held for the intent only from where it
\* was so before, and keep what it took.
LEMMA HoldingSteps ==
  ASSUME TypeOK, TaskFits, TaskAuthority, [Next]_vars,
         ~Begin, ~StopTrex, ~Environment, ~(Acquire \/ Release \/ Control \/ RestoreAcquisition)
  PROVE  /\ Unheld' => Unheld
         /\ (intent' = NoIntent /\ Unheld) \/ SameIntent
         /\ task'.mode = "direct" /\ task'.pc \in Sending =>
              /\ task.mode = "direct" /\ task.pc \in Sending
              /\ Unheld \/ task'.took = task.took
<1> USE DEF StartPath, Sending, Controlling, Hooks
<1>0. /\ task.mode \in {"direct", "recovery"} /\ task.goal \in Goal /\ task \in Task
      /\ NoIntent.n = 0 /\ Idle.mode = "direct" /\ Idle.pc = "idle"
  BY DEF TypeOK, MemoryType, Task, NoIntent, Idle
<1>1. ASSUME SameIntent, authority' = authority, task' = Idle
      PROVE  (Unheld' => Unheld) /\ task'.pc \notin Sending
  BY <1>0, <1>1 DEF Unheld, SameIntent
<1>2. CASE Snapshot
  BY <1>0, <1>2, SnapshotTask, IntentFields DEF Unheld, SameIntent
<1>3. CASE GuardPasses \/ GuardExpires \/ AdvanceStage \/ StageFails
  <2>1. AfterHook \in {"acquire", "preflight", "remove", "profile_add_intent", "add",
                       "start_intent", "start", "release"}
        \/ task.pc \notin Hooks
    BY DEF AfterHook
  <2>2. AfterHook = "acquire" => task.pc = "acquire_intent" \/ task.pc \notin Hooks
    BY DEF AfterHook
  <2> QED BY <1>0, <1>3, <2>1, <2>2, StageTask, TookKept DEF Unheld, SameIntent, SameLocals
<1>4. CASE Preflight \/ RemoveStreams \/ AddProfile \/ StartTraffic \/ Command
  <2>1. task.pc \in {"preflight", "remove", "add", "start", "command"}
    BY <1>4 DEF Preflight, RemoveStreams, AddProfile, StartTraffic, Command
  <2> QED BY <1>0, <1>4, <2>1, RpcTask, TookKept, IntentFields DEF Unheld, SameIntent, SameLocals
<1>5. CASE RollbackTraffic \/ RestoreStreams
  <2>1. task.pc \in {"rollback", "streams"}
    BY <1>5 DEF RollbackTraffic, RestoreStreams
  <2> QED BY <1>0, <1>5, <2>1, ControlTask, IntentFields
          DEF Unheld, SameIntent, SameLocals, TaskFits
<1>6. CASE Verify
  BY <1>0, <1>6, VerifyTask, IntentFields DEF Unheld, SameIntent, TaskFits
<1>7. CASE PromotionRefused \/ Retain
  BY <1>0, <1>1, <1>7, GivenUpTask DEF Unheld, SameLocals, SameIntent, server
<1>8. CASE Promote \/ Clear \/ RetireAfterRollover \/ RetireAfterTermination \/ Reconcile
  <2>1. authority' = authority /\ (SameIntent \/ (intent' = NoIntent /\ ~Reconcile))
    BY <1>8, WriteTask, ReconcileTask, IntentFields
  <2>2. ~Reconcile => Unheld
    <3>1. ~Reconcile => task.pc \in {"promote", "clear", "rollover", "retire"}
      BY <1>8 DEF Promote, Clear, RetireAfterRollover, RetireAfterTermination
    <3>2. task.pc = "rollover" => intent.auth # authority
      BY DEF TaskAuthority, TypeOK, DiskType, ServerType, Intent
    <3> QED BY <3>1, <3>2 DEF Unheld
  <2>3. task'.pc \in {"idle", "reconcile", "retain"}
    BY <1>0, <1>8, WriteTask
  <2>4. Unheld' => Unheld
    BY <2>1, <2>2, <2>3 DEF Unheld, SameIntent
  <2> QED BY <2>1, <2>2, <2>3, <2>4
<1>9. CASE \/ RecoverForeign \/ RecoverYields \/ RecoverUnsafe
           \/ RollBackStart \/ AdoptStart \/ ReplayStart \/ AbandonStart
           \/ RecoverUpdate \/ AdoptAction \/ ClearAction \/ RetryAction
  <2>1. /\ SameIntent /\ authority' = authority
        /\ task' = Idle \/ task'.mode = task.mode
        /\ task' = Idle \/ task'.pc \in {"rollover", "unresolved", "control", "acquire_intent",
                                         "acquire"}
        /\ task.pc = "recover"
    BY <1>9, RecoverTask, IntentFields DEF SameLocals
  <2>2. task.mode = "recovery"
    BY <2>1 DEF TaskFits
  <2> QED BY <1>0, <1>1, <2>1, <2>2 DEF Unheld, SameIntent
<1>10. CASE UNCHANGED vars
  BY <1>10, IntentFields DEF vars, disk, memory, Unheld, SameIntent
<1> QED BY <1>2, <1>3, <1>4, <1>5, <1>6, <1>7, <1>8, <1>9, <1>10 DEF Next, Execute

\* What a new mutation finds acquired, the operator acquired.
LEMMA BeginPorts ==
  ASSUME TypeOK, Begin
  PROVE  intent'.acquired \subseteq Api
<1>1. ASSUME NEW i, NEW pc, Prepare(i, pc)
      PROVE  intent' = i
  BY <1>1 DEF Prepare, Persist, Saved
<1>2. ASSUME NEW T \in Targets, NEW e, NEW c, NEW l, PrepareStart(T, e, c, l)
      PROVE  intent'.acquired \subseteq Api
  <2> DEFINE i == [NewIntent("start", T) EXCEPT !.expected = e, !.clear = c, !.lease = l]
  <2>1. i.acquired = {p \in T : own[p] = "api"} /\ T \subseteq Ports
    BY RequestsAssumption DEF NewIntent, NoIntent
  <2>2. Prepare(i, "acquire_intent")
    BY <1>2 DEF PrepareStart
  <2> HIDE DEF i
  <2> QED BY <1>1, <2>1, <2>2 DEF Api
<1>3. ASSUME NEW op \in Commands, NEW T \in Targets, NEW r, PrepareMutation(op, T, r)
      PROVE  intent'.acquired \subseteq Api
  <2> DEFINE i == [NewIntent(op, T) EXCEPT !.expected = session.id, !.relative = r]
  <2>1. i.acquired = {p \in T : own[p] = "api"} /\ T \subseteq Ports
    BY RequestsAssumption DEF NewIntent, NoIntent
  <2>2. Prepare(i, "guard")
    BY <1>3 DEF PrepareMutation
  <2> HIDE DEF i
  <2> QED BY <1>1, <2>1, <2>2 DEF Api
<1> QED BY <1>2, <1>3 DEF Begin

\* Every step leaves the ports with the API that it can answer for.
LEMMA PortsKept ==
  ASSUME TypeOK, OperationPending, TaskFits, TaskAuthority, PortsInv, [Next]_vars
  PROVE  PortsInv'
<1>1. CASE Acquire \/ Release \/ Control \/ RestoreAcquisition
  BY <1>1, AcquiringKept
<1>2. CASE Begin
  <2>1. /\ Api' = Api /\ held' = held
    BY <1>2, BeginTask DEF server, Api, Begin, PrepareStart, PrepareMutation, Prepare
  <2>2. Api \subseteq held
    BY <1>2, BeginTask DEF PortsInv, Unheld
  <2> QED BY <1>2, <2>1, <2>2, BeginPorts DEF PortsInv
<1>3. CASE Api' = {} /\ SameIntent /\ held' \in {held, held \cap intent.acquired}
  BY <1>3 DEF PortsInv, SameIntent
<1>4. CASE /\ task' = task /\ authority' = authority /\ SameIntent
           /\ Api' \ held' \subseteq Api \ held
           /\ intent.acquired \cap held \subseteq held'
  BY <1>4 DEF PortsInv, SameIntent, Unheld
<1>5. CASE /\ own' = own /\ held' = held /\ ~Begin /\ ~StopTrex /\ ~Environment
           /\ ~(Acquire \/ Release \/ Control \/ RestoreAcquisition)
  <2>1. Api' = Api /\ held' = held
    BY <1>5 DEF Api
  <2>2. /\ Unheld' => Unheld
        /\ (intent' = NoIntent /\ Unheld) \/ SameIntent
        /\ task'.mode = "direct" /\ task'.pc \in Sending =>
             /\ task.mode = "direct" /\ task.pc \in Sending
             /\ Unheld \/ task'.took = task.took
    BY <1>5, HoldingSteps
  <2>3. NoIntent.acquired = {}
    BY DEF NoIntent
  <2> QED BY <2>1, <2>2, <2>3 DEF PortsInv, SameIntent
<1> QED BY <1>1, <1>2, <1>3, <1>4, <1>5, OwnSteps

\* Between operations, with nothing to recover, the API holds the ports the operator acquired
\* and no other, whatever failed on the way: the "finally" of a mutation and
\* _with_mutation_ports_controlled put back all they acquired, or keep the intent.
THEOREM PortsReturned == Spec => []NoPortLeak
<1>1. Init => PortsInv
  BY DEF Init, PortsInv, Api, NoIntent, Idle
<1>2. Ledgered /\ PortsInv /\ [Next]_vars => PortsInv'
  BY PortsKept DEF Ledgered, LedgerInv
<1>3. PortsInv => NoPortLeak
  BY DEF PortsInv, Unheld, Api, NoPortLeak
<1> QED BY <1>1, <1>2, <1>3, LedgeredAlways, PTL DEF Spec

-----------------------------------------------------------------------------
(* The streams of a start that is given up *)

\* A start may have added its profile once its intent says that it will.
MayHaveAdded == Reached(intent, "profile_add_intent")

\* A rollback past the removal of the streams.
Cleaned ==
  /\ task.goal = "rollback"
  /\ task.pc \in {"verify", "clear"} \/ (task.pc = "restore" /\ task.ok)

\* The streams on the ports and those an intent recorded are of mutations that were drawn; those
\* of the pending one are not among what it recorded, and are on its ports at most, until it has
\* removed them or TRex is another process than the one it was prepared for.
ProgInv ==
  /\ \A p \in Ports : \A n \in prog[p] \cup intent.streams[p] : n <= nonce
  /\ task.pc = "add" => MayHaveAdded
  /\ task.pc = "retire" => \A p \in Ports : prog[p] = {}
  /\ intent.n # 0 =>
     /\ \A p \in Ports : /\ intent.n \notin intent.streams[p]
                         /\ intent.n \in prog[p] => p \in intent.ports /\ MayHaveAdded
     /\ Cleaned => \A p \in Ports : intent.n \notin prog[p]
     /\ Supervisor = "systemd" /\ intent.auth # authority
          => \A p \in Ports : intent.n \notin prog[p]

\* A step that adds no streams and records none.
LEMMA ProgFrame ==
  ASSUME ProgInv, SameIntent, intent'.streams = intent.streams, MayHaveAdded => MayHaveAdded',
         nonce' = nonce, authority' = authority \/ Supervisor # "systemd",
         \A p \in Ports : prog'[p] \subseteq prog[p],
         task'.pc = "add" => MayHaveAdded',
         task'.pc = "retire" => \A p \in Ports : prog'[p] = {},
         intent.n # 0 /\ Cleaned' => \A p \in Ports : intent.n \notin prog'[p]
  PROVE  ProgInv'
  BY DEF ProgInv, SameIntent

\* Once nothing is pending, or no streams are left, nothing is left to remove.
LEMMA NothingAdded ==
  ASSUME TypeOK, ProgInv, nonce' = nonce,
         \/ intent' = NoIntent /\ prog' = prog /\ task'.pc \notin {"add", "retire"}
         \/ /\ SameIntent /\ intent'.streams = intent.streams
            /\ MayHaveAdded => MayHaveAdded'
            /\ task'.pc = "add" => task.pc = "add"
            /\ \A p \in Ports : prog'[p] = {}
  PROVE  ProgInv'
<1>1. NoIntent.n = 0 /\ \A p \in Ports : NoIntent.streams[p] = {}
  BY DEF NoIntent
<1> QED BY <1>1 DEF ProgInv, SameIntent

\* What the updates of the intent leave as it is, besides.
LEMMA IntentStreams ==
  ASSUME TypeOK,
         \/ intent' = intent
         \/ \E phase : intent' = [intent EXCEPT !.phase = phase]
         \/ \E lease : intent' = [intent EXCEPT !.lease = lease]
  PROVE  /\ SameIntent /\ intent'.streams = intent.streams
         /\ MayHaveAdded' <=> MayHaveAdded
<1>1. intent \in Intent
  BY DEF TypeOK, DiskType
<1>2. intent'.streams = intent.streams /\ intent'.stage = intent.stage
  BY <1>1 DEF Intent
<1> QED BY <1>2, IntentFields DEF MayHaveAdded, Reached

\* A stage records the streams on the ports before anything is added to them.
LEMMA StageStreams ==
  ASSUME TypeOK, OperationPending, StartInv, ProgInv, prog' = prog, nonce' = nonce,
         authority' = authority, task.pc \in Hooks, intent' = Advanced(intent, task.pc),
         task'.pc = "add" => task.pc = "profile_add_intent",
         task'.pc # "retire", ~Cleaned'
  PROVE  ProgInv'
<1>0. /\ intent \in Intent /\ intent.stage \in Stage /\ task.pc \in Stage
      /\ intent.n # 0
  BY DEF TypeOK, DiskType, Intent, Hooks, Stage, OperationPending
<1>1. \A stage \in Stage : Order(stage) \in Nat
  BY StageOrder
<1>2. /\ Order("acquired") = 2 /\ Order("profile_add_intent") = 5
  BY DEF Order
<1>3. SameIntent
  BY IntentFields
<1>4. \/ intent' = intent /\ Order(task.pc) < Order(intent.stage)
      \/ /\ intent'.stage = task.pc /\ intent'.streams = intent.streams
         /\ Order(task.pc) >= Order(intent.stage)
      \/ /\ intent'.stage = task.pc /\ task.pc = "acquired"
         /\ intent'.streams = [p \in Ports |-> IF p \in intent.ports THEN prog[p] ELSE {}]
         /\ Order(task.pc) >= Order(intent.stage)
  BY <1>0, <1>1 DEF Advanced, Intent
<1>5. MayHaveAdded => MayHaveAdded'
  BY <1>0, <1>1, <1>2, <1>4 DEF MayHaveAdded, Reached
<1>6. task'.pc = "add" => MayHaveAdded'
  BY <1>0, <1>1, <1>2, <1>4 DEF MayHaveAdded, Reached
<1>7. CASE intent'.streams = intent.streams
  BY <1>3, <1>5, <1>6, <1>7, ProgFrame
<1>8. CASE /\ task.pc = "acquired" /\ Order(task.pc) >= Order(intent.stage)
           /\ intent'.streams = [p \in Ports |-> IF p \in intent.ports THEN prog[p] ELSE {}]
  <2>1. ~MayHaveAdded
    BY <1>0, <1>1, <1>2, <1>8 DEF MayHaveAdded, Reached
  <2>2. \A p \in Ports : intent.n \notin prog[p] /\ intent'.streams[p] \subseteq prog[p]
    BY <1>0, <1>8, <2>1 DEF ProgInv
  <2>3. \A p \in Ports : \A n \in prog[p] : n <= nonce
    BY DEF ProgInv
  <2> QED BY <1>3, <1>6, <2>2, <2>3 DEF ProgInv, SameIntent
<1> QED BY <1>4, <1>7, <1>8

\* The profile of the pending start is added on its ports.
LEMMA AddingKept ==
  ASSUME TypeOK, OperationPending, StartInv, TaskFits, TaskAuthority, ProgInv, AddProfile
  PROVE  ProgInv'
<1>1. PICK o \in Outcomes(task.ports) :
         prog' = [p \in Ports |-> IF p \in o.done THEN prog[p] \cup {intent.n} ELSE prog[p]]
  BY DEF AddProfile
<1>2. o.done \subseteq task.ports /\ (~task.linked => o.done = {})
  BY DEF Outcomes
<1>3. task.pc = "add" /\ intent' = intent /\ nonce' = nonce /\ authority' = authority
  BY DEF AddProfile, disk, history
<1>4. /\ MayHaveAdded /\ task.ports \subseteq intent.ports /\ intent.n <= nonce /\ intent.n # 0
      /\ task.linked => intent.auth = authority
  BY <1>3 DEF ProgInv, TaskFits, Sending, StartPath, TaskAuthority, StartInv, OperationPending
<1>5. task'.pc \in {"profile_added", "release"}
  BY <1>3, RpcTask
<1>6. MayHaveAdded' /\ ~Cleaned'
  BY <1>3, <1>4, <1>5 DEF MayHaveAdded, Cleaned
<1>7. intent.auth # authority => prog' = prog
  <2>1. prog \in [Ports -> SUBSET Nonce0]
    BY DEF TypeOK, ServerType
  <2> QED BY <1>1, <1>2, <1>4, <2>1
<1> QED BY <1>1, <1>2, <1>3, <1>4, <1>5, <1>6, <1>7 DEF ProgInv

\* A rollback that says it restored the streams has removed its own.
LEMMA RestoringKept ==
  ASSUME TypeOK, OperationPending, ProgInv, RestoreStreams
  PROVE  ProgInv'
<1> DEFINE touched == Reached(intent, "streams_remove_intent")
           changed == {p \in intent.ports : prog[p] # intent.streams[p]}
           restorable ==
             IF ~touched THEN Reached(intent, "acquired") => changed = {}
             ELSE IF intent.clear THEN \A p \in intent.ports : intent.streams[p] = {}
             ELSE \A p \in intent.ports : intent.streams[p] \subseteq prog[p]
           dirty == IF touched /\ restorable THEN changed ELSE {}
<1>1. PICK o \in Outcomes(dirty) :
        /\ prog' = [p \in Ports |-> IF p \in o.done THEN intent.streams[p] ELSE prog[p]]
        /\ \E ok \in BOOLEAN : (ok => o.ok /\ restorable) /\ ThenRestore(ok)
  BY DEF RestoreStreams
<1>2. o.done \subseteq dirty /\ (o.ok => o.done = dirty)
  BY DEF Outcomes
<1>3. /\ intent' = intent /\ nonce' = nonce /\ authority' = authority /\ intent.n # 0
      /\ intent \in Intent /\ intent.ports \subseteq Ports /\ intent.stage \in Stage
      /\ prog \in [Ports -> SUBSET Nonce0]
  BY DEF RestoreStreams, disk, history, OperationPending, TypeOK, DiskType, Intent, ServerType
<1>4. /\ task'.pc = "restore"
      /\ task'.ok => o.ok /\ restorable
  <2>1. PICK ok \in BOOLEAN : (ok => o.ok /\ restorable) /\ ThenRestore(ok)
    BY <1>1
  <2>2. task \in Task
    BY DEF TypeOK, MemoryType
  <2> HIDE DEF restorable
  <2>3. task'.pc = "restore" /\ task'.ok = ok
    BY <2>1, <2>2 DEF ThenRestore, Task
  <2> QED BY <2>1, <2>3
<1>5. MayHaveAdded => touched
  <2>1. Order("streams_remove_intent") = 3 /\ Order("profile_add_intent") = 5
    BY DEF Order
  <2>2. Order(intent.stage) \in Nat
    BY <1>3, StageOrder
  <2> QED BY <2>1, <2>2 DEF MayHaveAdded, Reached
<1>6. ASSUME task'.ok, NEW p \in Ports
      PROVE  intent.n \notin prog'[p]
  <2>1. intent.n \notin intent.streams[p]
    BY <1>3 DEF ProgInv
  <2>2. CASE touched /\ p \in intent.ports
    <3>1. o.done = changed
      BY <1>2, <1>4, <1>6, <2>2
    <3>2. prog'[p] = intent.streams[p]
      BY <1>1, <1>3, <2>2, <3>1
    <3> QED BY <2>1, <3>2
  <2>3. CASE ~(touched /\ p \in intent.ports)
    <3>1. intent.n \notin prog[p]
      BY <1>3, <1>5, <2>3 DEF ProgInv
    <3> QED BY <1>1, <2>1, <3>1
  <2> QED BY <2>2, <2>3
<1>7. \A p \in Ports : prog'[p] = prog[p] \/ prog'[p] = intent.streams[p]
  BY <1>1
<1>8. MayHaveAdded' <=> MayHaveAdded
  BY <1>3 DEF MayHaveAdded
<1> HIDE DEF touched, changed, restorable, dirty
<1>9. Cleaned' => task'.ok
  BY <1>4 DEF Cleaned
<1> QED BY <1>3, <1>4, <1>6, <1>7, <1>8, <1>9 DEF ProgInv

\* The other steps of an operation leave the streams alone.
LEMMA ProgSteps ==
  ASSUME TypeOK, TaskFits, ProgInv,
         \/ Snapshot \/ GuardPasses \/ GuardExpires
         \/ Acquire \/ Preflight \/ StartTraffic \/ Command \/ Release
         \/ Control \/ RollbackTraffic \/ RestoreAcquisition \/ Verify
         \/ PromotionRefused \/ Retain
         \/ RecoverForeign \/ RecoverYields \/ RecoverUnsafe
         \/ RollBackStart \/ AdoptStart \/ ReplayStart \/ AbandonStart
         \/ RecoverUpdate \/ AdoptAction \/ ClearAction \/ RetryAction
  PROVE  ProgInv'
<1>0. /\ task \in Task /\ task.goal \in Goal
      /\ Idle.pc = "idle" /\ Idle.goal = "none"
  BY DEF TypeOK, MemoryType, Task, Idle
<1>1. prog' = prog /\ nonce' = nonce /\ authority' = authority
  <2>1. CASE \/ Snapshot \/ GuardPasses \/ GuardExpires
             \/ Acquire \/ Preflight \/ StartTraffic \/ Command \/ Release
    BY <2>1 DEF Snapshot, GuardPasses, GuardExpires, Acquire, Preflight, StartTraffic, Command,
                Release, server, history
  <2>2. CASE \/ Control \/ RollbackTraffic \/ RestoreAcquisition \/ Verify
             \/ PromotionRefused \/ Retain
    BY <2>2 DEF Control, RollbackTraffic, RestoreAcquisition, Verify, PromotionRefused, Retain,
                server, history
  <2>3. CASE \/ RecoverForeign \/ RecoverYields \/ RecoverUnsafe
             \/ RollBackStart \/ AdoptStart \/ ReplayStart \/ AbandonStart
             \/ RecoverUpdate \/ AdoptAction \/ ClearAction \/ RetryAction
    BY <2>3, RecoverTask DEF server
  <2> QED BY <2>1, <2>2, <2>3
<1>2. \/ intent' = intent
      \/ intent' = [intent EXCEPT !.phase = "cleanup_required"]
  <2>1. CASE Snapshot
    BY <2>1, SnapshotTask
  <2>2. CASE GuardPasses \/ GuardExpires
    BY <2>2 DEF GuardPasses, GuardExpires, disk
  <2>3. CASE Acquire \/ Preflight \/ StartTraffic \/ Command
    BY <2>3, RpcTask
  <2>4. CASE Release \/ Verify
    BY <2>4, ReleaseTask, VerifyTask
  <2>5. CASE Control \/ RollbackTraffic \/ RestoreAcquisition
    BY <2>5, ControlTask
  <2>6. CASE PromotionRefused \/ Retain
    <3>1. intent \in Intent
      BY DEF TypeOK, DiskType
    <3>2. intent = [intent EXCEPT !.phase = intent.phase]
      BY <3>1 DEF Intent
    <3> QED BY <2>6, <3>2 DEF PromotionRefused, Retain, disk
  <2>7. CASE \/ RecoverForeign \/ RecoverYields \/ RecoverUnsafe
             \/ RollBackStart \/ AdoptStart \/ ReplayStart \/ AbandonStart
             \/ RecoverUpdate \/ AdoptAction \/ ClearAction \/ RetryAction
    BY <2>7, RecoverTask
  <2> QED BY <2>1, <2>2, <2>3, <2>4, <2>5, <2>6, <2>7
<1>3. /\ SameIntent /\ intent'.streams = intent.streams /\ (MayHaveAdded' <=> MayHaveAdded)
  BY <1>2, IntentStreams
<1>4. task'.pc \notin {"add", "retire"} /\ (Cleaned' => Cleaned)
  <2>1. CASE Snapshot
    BY <2>1, SnapshotTask DEF Cleaned
  <2>2. CASE GuardPasses \/ GuardExpires
    <3>1. task.pc = "guard"
      BY <2>2 DEF GuardPasses, GuardExpires
    <3>2. task.goal # "rollback"
      BY <3>1 DEF TaskFits, Sending
    <3> QED BY <2>2, <3>1, <3>2, StageTask DEF Cleaned, SameLocals, Hooks
  <2>3. CASE Acquire \/ Preflight \/ StartTraffic \/ Command
    <3>1. task'.pc \notin {"add", "retire", "verify", "clear", "restore"}
      BY <2>3, RpcTask
    <3> QED BY <3>1 DEF Cleaned
  <2>4. CASE Release
    BY <2>4, ReleaseTask DEF Cleaned
  <2>5. CASE Control
    <3>1. CASE task.goal \in {"rollback", "normalize"}
      <4>1. task'.pc \notin {"add", "retire", "verify", "clear", "restore"}
        BY <2>5, <3>1, ControlTask DEF Control
      <4> QED BY <4>1 DEF Cleaned
    <3>2. CASE task.goal \notin {"rollback", "normalize"}
      BY <2>5, <3>2, ControlTask DEF Cleaned, SameLocals, Control
    <3> QED BY <3>1, <3>2
  <2>6. CASE RollbackTraffic
    <3>1. \/ Goto("streams") \/ ThenRestore(FALSE)
      BY <2>6 DEF RollbackTraffic
    <3>2. task'.pc = "streams" \/ (task'.pc = "restore" /\ ~task'.ok)
      BY <1>0, <3>1 DEF Goto, ThenRestore, Task
    <3> QED BY <3>2 DEF Cleaned
  <2>7. CASE RestoreAcquisition
    <3>1. \/ (task.ok /\ Goto(AfterControl)) \/ Goto(Failed)
      BY <2>7 DEF RestoreAcquisition
    <3>2. /\ task.pc = "restore" /\ task'.goal = task.goal
          /\ task'.pc \in {"retain", "unresolved"} \/ (task.ok /\ task'.pc = AfterControl)
      BY <1>0, <2>7, <3>1, AfterSteps, TaskFields DEF Goto, RestoreAcquisition
    <3>3. AfterControl \in {"verify", "acquire_intent", "promote", "clear", "unresolved"}
      BY <1>0 DEF AfterControl, Goal
    <3> QED BY <3>2, <3>3 DEF Cleaned
  <2>8. CASE Verify
    BY <2>8, VerifyTask DEF Cleaned
  <2>9. CASE PromotionRefused \/ Retain
    BY <1>0, <2>9, GivenUpTask DEF Cleaned
  <2>10. CASE \/ RecoverForeign \/ RecoverYields \/ RecoverUnsafe
              \/ RollBackStart \/ AdoptStart \/ ReplayStart \/ AbandonStart
              \/ RecoverUpdate \/ AdoptAction \/ ClearAction \/ RetryAction
    <3>1. task'.pc \in {"idle", "rollover", "unresolved", "control", "acquire_intent", "acquire"}
      BY <1>0, <2>10, RecoverTask
    <3> QED BY <3>1 DEF Cleaned
  <2> QED BY <2>1, <2>2, <2>3, <2>4, <2>5, <2>6, <2>7, <2>8, <2>9, <2>10
<1>5. intent.n # 0 /\ Cleaned' => \A p \in Ports : intent.n \notin prog'[p]
  BY <1>1, <1>4 DEF ProgInv
<1> QED BY <1>1, <1>3, <1>4, <1>5, ProgFrame

\* A new mutation has recorded no streams.
LEMMA BeginStreams ==
  ASSUME TypeOK, Begin
  PROVE  \A p \in Ports : intent'.streams[p] = {}
<1>1. ASSUME NEW i, NEW pc, Prepare(i, pc)
      PROVE  intent' = i
  BY <1>1 DEF Prepare, Persist, Saved
<1>2. ASSUME NEW T, NEW e, NEW c, NEW l, PrepareStart(T, e, c, l)
      PROVE  \A p \in Ports : intent'.streams[p] = {}
  <2> DEFINE i == [NewIntent("start", T) EXCEPT !.expected = e, !.clear = c, !.lease = l]
  <2>1. \A p \in Ports : i.streams[p] = {}
    BY DEF NewIntent, NoIntent
  <2>2. Prepare(i, "acquire_intent")
    BY <1>2 DEF PrepareStart
  <2> HIDE DEF i
  <2> QED BY <1>1, <2>1, <2>2
<1>3. ASSUME NEW op, NEW T, NEW r, PrepareMutation(op, T, r)
      PROVE  \A p \in Ports : intent'.streams[p] = {}
  <2> DEFINE i == [NewIntent(op, T) EXCEPT !.expected = session.id, !.relative = r]
  <2>1. \A p \in Ports : i.streams[p] = {}
    BY DEF NewIntent, NoIntent
  <2>2. Prepare(i, "guard")
    BY <1>3 DEF PrepareMutation
  <2> HIDE DEF i
  <2> QED BY <1>1, <2>1, <2>2
<1> QED BY <1>2, <1>3 DEF Begin

\* Every step keeps track of the streams of the pending start.
LEMMA ProgKept ==
  ASSUME TypeOK, OperationPending, StartInv, TaskFits, TaskAuthority, ProgInv, [Next]_vars
  PROVE  ProgInv'
<1>0. /\ task \in Task /\ nonce \in Nat /\ intent \in Intent
      /\ Idle.pc = "idle" /\ Idle.goal = "none"
  BY BoundsAssumption DEF TypeOK, MemoryType, HistoryType, DiskType, Nonce0, Idle
<1>1. CASE Begin
  <2>1. /\ nonce' = nonce + 1 /\ intent'.n = nonce + 1 /\ intent'.auth = authority'
        /\ prog' = prog /\ task'.pc \notin {"add", "retire", "verify", "clear", "restore"}
    <3>1. /\ nonce' = nonce + 1 /\ intent'.n = nonce + 1 /\ intent'.auth = authority
          /\ authority' = authority /\ prog' = prog
      BY <1>1, BeginTask DEF server
    <3>2. \/ task' = Idle
          \/ \E pc \in {"acquire_intent", "guard"} :
               \E T : task' = [Idle EXCEPT !.pc = pc, !.ports = T]
      BY <1>1, BeginTask
    <3>3. \A pc, T : [Idle EXCEPT !.pc = pc, !.ports = T].pc = pc
      BY DEF Idle
    <3>4. task'.pc \in {"idle", "acquire_intent", "guard"}
      <4>1. CASE task' = Idle
        BY <1>0, <4>1
      <4>2. ASSUME NEW pc \in {"acquire_intent", "guard"}, NEW T,
                   task' = [Idle EXCEPT !.pc = pc, !.ports = T]
            PROVE  task'.pc = pc
        BY <3>3, <4>2
      <4> QED BY <3>2, <4>1, <4>2
    <3> QED BY <3>1, <3>4
  <2>2. \A p \in Ports : intent'.streams[p] = {}
    BY <1>1, BeginStreams
  <2>3. \A p \in Ports : \A n \in prog[p] : n <= nonce /\ n \in Nat
    BY DEF ProgInv, TypeOK, ServerType, Nonce0
  <2>4. ~Cleaned'
    BY <2>1 DEF Cleaned
  <2> QED BY <1>0, <2>1, <2>2, <2>3, <2>4 DEF ProgInv
<1>2. CASE StopTrex \/ Environment
  <2>0. nonce' = nonce
    BY <1>2, EnvironmentTask
  <2>1. CASE StopTrex \/ TrexExit
    <3>1. /\ intent' = intent /\ \A p \in Ports : prog'[p] = {}
      BY <2>1 DEF StopTrex, TrexExit, HardwareReset, disk
    <3>2. task'.pc = "add" => task.pc = "add"
      <4>1. \/ Goto("retire") \/ task' = task \/ task' = [task EXCEPT !.linked = FALSE]
        BY <2>1 DEF StopTrex, TrexExit
      <4> QED BY <1>0, <4>1 DEF Goto, Task
    <3> QED BY <2>0, <3>1, <3>2, IntentStreams, NothingAdded
  <2>2. CASE Crash
    <3>1. /\ intent' = intent /\ prog' = prog /\ task'.pc = "idle"
          /\ authority' = authority \/ Supervisor # "systemd"
      BY <1>0, <2>2 DEF Crash, disk
    <3>2. ~Cleaned'
      BY <3>1 DEF Cleaned
    <3> QED BY <2>0, <3>1, <3>2, IntentStreams, ProgFrame
  <2>3. ASSUME /\ \/ intent' = intent
                  \/ \E lease : intent' = [intent EXCEPT !.lease = lease]
               /\ prog' = prog /\ task' = task /\ authority' = authority
        PROVE  ProgInv'
    <3>1. /\ SameIntent /\ intent'.streams = intent.streams /\ (MayHaveAdded' <=> MayHaveAdded)
      BY <2>3, IntentStreams
    <3>2. Cleaned' <=> Cleaned
      BY <2>3 DEF Cleaned
    <3>3. task.pc = "add" => MayHaveAdded
      BY DEF ProgInv
    <3>4. task.pc = "retire" => \A p \in Ports : prog[p] = {}
      BY DEF ProgInv
    <3>5. intent.n # 0 /\ Cleaned => \A p \in Ports : intent.n \notin prog[p]
      BY DEF ProgInv
    <3> QED BY <2>0, <2>3, <3>1, <3>2, <3>3, <3>4, <3>5, ProgFrame
  <2>4. ASSUME NEW p \in Ports,
               \/ TrafficEnds(p) \/ HandlerExpires(p) \/ ExternalTraffic(p) \/ ExternalRelease(p)
               \/ OperatorAcquires(p) \/ OperatorReleases(p)
        PROVE  ProgInv'
    BY <2>3, <2>4 DEF TrafficEnds, HandlerExpires, ExternalTraffic, ExternalRelease,
                      OperatorAcquires, OperatorReleases, disk, memory
  <2>5. ASSUME NEW n \in Nonce, LeaseTick(n)
        PROVE  ProgInv'
    BY <2>3, <2>5 DEF LeaseTick, server, memory
  <2> QED BY <1>2, <2>1, <2>2, <2>4, <2>5 DEF Environment
<1>3. CASE AdvanceStage \/ StageFails
  <2>1. /\ prog' = prog /\ nonce' = nonce /\ authority' = authority /\ task.pc \in Hooks
        /\ intent' \in {intent, Advanced(intent, task.pc)}
    BY <1>3 DEF AdvanceStage, StageFails, server, history
  <2>2. /\ task'.pc \notin {"retire", "verify", "clear", "restore"}
        /\ task'.pc = "add" => AdvanceStage /\ task.pc = "profile_add_intent"
    <3>1. /\ AfterHook \notin {"retire", "verify", "clear", "restore"} \/ task.pc \notin Hooks
          /\ AfterHook = "add" => task.pc = "profile_add_intent" \/ task.pc \notin Hooks
      BY DEF AfterHook, Hooks
    <3>2. CASE AdvanceStage
      BY <1>0, <2>1, <3>1, <3>2, TaskFields DEF AdvanceStage, Goto
    <3>3. CASE StageFails
      <4>1. \/ task' = [task EXCEPT !.pc = Failed]
            \/ task' = [task EXCEPT !.pc = "release", !.ok = FALSE]
        BY <3>3 DEF StageFails
      <4>2. task'.pc \in {"retain", "unresolved", "release"}
        BY <1>0, <4>1, AfterSteps DEF Task
      <4> QED BY <4>2
    <3> QED BY <1>3, <3>2, <3>3
  <2>3. ~Cleaned'
    BY <2>2 DEF Cleaned
  <2>4. CASE intent' = Advanced(intent, task.pc)
    BY <2>1, <2>2, <2>3, <2>4, StageStreams
  <2>5. CASE intent' = intent /\ ~AdvanceStage
    BY <2>1, <2>2, <2>3, <2>5, IntentStreams, ProgFrame
  <2>6. AdvanceStage => intent' = Advanced(intent, task.pc)
    BY DEF AdvanceStage
  <2> QED BY <2>1, <2>4, <2>5, <2>6
<1>4. CASE RemoveStreams
  <2>1. /\ intent' = intent /\ nonce' = nonce /\ authority' = authority
        /\ task'.pc \in {"streams_removed", "release"}
    BY <1>4, RpcTask DEF RemoveStreams
  <2>2. \A p \in Ports : prog'[p] \subseteq prog[p]
    BY <1>4 DEF RemoveStreams
  <2>3. ~Cleaned'
    BY <2>1 DEF Cleaned
  <2> QED BY <2>1, <2>2, <2>3, IntentStreams, ProgFrame
<1>5. CASE AddProfile
  BY <1>5, AddingKept
<1>6. CASE RestoreStreams
  BY <1>6, RestoringKept
<1>7. CASE Promote \/ Clear \/ RetireAfterRollover \/ RetireAfterTermination \/ Reconcile
  <2>1. /\ prog' = prog /\ nonce' = nonce /\ authority' = authority
        /\ intent' = intent \/ intent' = NoIntent
        /\ task'.pc \in {"idle", "reconcile", "retain"}
    BY <1>0, <1>7, WriteTask, ReconcileTask DEF server
  <2>2. ~Cleaned'
    BY <2>1 DEF Cleaned
  <2>3. CASE intent' = intent
    BY <2>1, <2>2, <2>3, IntentStreams, ProgFrame
  <2>4. CASE intent' = NoIntent
    BY <2>1, <2>4, NothingAdded
  <2> QED BY <2>1, <2>3, <2>4
<1>8. CASE UNCHANGED vars
  BY <1>8 DEF vars, server, disk, memory, history, ProgInv, Cleaned, MayHaveAdded
<1> QED BY <1>1, <1>2, <1>3, <1>4, <1>5, <1>6, <1>7, <1>8, ProgSteps DEF Next, Execute

\* A start that is given up leaves nothing on TRex, neither traffic nor streams: it was rolled
\* back (_rollback_failed_start), or the TRex process it ran in is gone.
THEOREM GivenUpStartsLeaveNothing == Spec => NothingLeftBehind
<1>1. Init => ProgInv
  <2> SUFFICES ASSUME Init
               PROVE  ProgInv
    OBVIOUS
  <2>1. /\ intent.n = 0 /\ \A p \in Ports : intent.streams[p] = {}
        /\ task.pc = "idle" /\ nonce = 0
    BY DEF Init, NoIntent, Idle
  <2>2. \A p \in Ports : \A n \in prog[p] : n = 0
    BY DEF Init
  <2> QED BY <2>1, <2>2 DEF ProgInv
<1>2. Ledgered /\ ProgInv /\ [Next]_vars => ProgInv'
  BY ProgKept DEF Ledgered, LedgerInv
<1>3. ASSUME Ledgered, ProgInv, [Next]_vars,
             intent.n # 0, intent'.n = 0, intent.op = "start", intent.n \notin session'.groups,
             NEW p \in Ports
      PROVE  by[p] # intent.n /\ intent.n \notin prog[p]
  <2>0. /\ TypeOK /\ TaskFits /\ TaskAuthority /\ TrafficAuthority /\ EndsQuiet
        /\ intent.n \in Nonce
    BY <1>3 DEF Ledgered, LedgerInv, TypeOK, DiskType, Intent, Nonce0, Nonce
  <2>1. CASE Promoting
    <3>1. session' = StartedSession(intent)
      BY <1>3, <2>1 DEF Promoting, PromotedSession
    <3> QED BY <1>3, <2>0, <3>1, StartedFields
  <2>2. CASE Clearing
    <3>1. task.goal = "rollback"
      BY <1>3, <2>0, <2>2 DEF Clearing, TaskFits
    <3> QED BY <1>3, <2>0, <2>2, <3>1 DEF Clearing, ProgInv, Cleaned, EndsQuiet
  <2>3. CASE Closing
    <3>1. CASE task.pc = "retire"
      BY <1>3, <2>0, <3>1 DEF ProgInv, EndsQuiet
    <3>2. CASE task.pc = "rollover"
      <4>1. Supervisor = "systemd" /\ intent.auth # authority
        BY <2>0, <3>2 DEF TaskAuthority, TypeOK, DiskType, ServerType, Intent
      <4> QED BY <1>3, <2>0, <4>1 DEF ProgInv, TrafficAuthority
    <3> QED BY <2>3, <3>1, <3>2 DEF Closing
  <2>4. ~Reconciling /\ ~Ticking /\ ~SameIntent /\ ~Begin
    BY <1>3, <2>0, BeginTask DEF Reconciling, Ticking, SameIntent
  <2> QED BY <1>3, <2>0, <2>1, <2>2, <2>3, <2>4, Documents
<1>4. Ledgered /\ ProgInv /\ [Next]_vars =>
        (intent.n # 0 /\ intent'.n = 0 /\ intent.op = "start" /\ intent.n \notin session'.groups
           => \A p \in Ports : by[p] # intent.n /\ intent.n \notin prog[p])
  BY <1>3
<1> QED BY <1>1, <1>2, <1>4, LedgeredAlways, PTL DEF Spec, NothingLeftBehind

-----------------------------------------------------------------------------
(* The documents that are written are those the validator accepts *)

\* What the validator of the document asks, and where the evidence of a run comes from.
DocumentInv ==
  /\ \A m, n \in session.groups : m # n => runs[m].ports \cap runs[n].ports = {}
  /\ \A n \in session.completed : AllStopped(runs[n]) /\ runs[n].done # "none"
  /\ \A n \in session.groups \cup session.completed :
       runs[n].done = "operator_stop" => session.evidence[runs[n].stopper] = "stop"
  /\ \A n \in Nonce : /\ runs[n].done = "operator_stop" => runs[n].stopper # 0
                      /\ runs[n].done # "hard_stop"
  /\ {n \in Nonce : session.evidence[n] = "start"} = session.groups \cup session.completed
  /\ session.id # 0 => session.evidence[session.id] = "start"
  /\ \A n \in Nonce : session.evidence[n] # "none" => n <= nonce /\ n # intent.n

\* How the writes of a document close a run: a stop names itself, what is observed nobody.
LEMMA ClosingRuns ==
  ASSUME TypeOK, NEW n \in Nonce
  PROVE  /\ LET q == MutatedRun(intent, runs[n]) IN
            \/ q.done = runs[n].done /\ q.stopper = runs[n].stopper
            \/ runs[n].done = "none" /\ q.done = "operator_stop" /\ q.stopper = intent.n
         /\ \A vouches \in BOOLEAN :
              ReconciledRun(runs[n], vouches).done \in {runs[n].done, "observed"}
         /\ Closed(session, runs)[n].done \in {runs[n].done, "observed"}
<1>0. runs[n] \in Run
  BY DEF TypeOK, DiskType
<1>1. ASSUME NEW r \in Run, NEW st, NEW how, NEW who
      PROVE  LET q == Restate(r, st, how, who) IN
             \/ q.done = r.done /\ q.stopper = r.stopper
             \/ r.done = "none" /\ q.done = how /\ q.stopper = who
  <2> DEFINE stopped == GroupState([r EXCEPT !.st = st]) = "stopped"
             q == Restate(r, st, how, who)
  <2>1. q = [r EXCEPT !.st = st,
                      !.lease = IF stopped THEN "none" ELSE @,
                      !.done = IF stopped /\ @ = "none" THEN how ELSE @,
                      !.stopper = IF stopped /\ r.done = "none" THEN who ELSE @]
    BY DEF Restate
  <2> HIDE DEF stopped, q
  <2>2. /\ q.done = IF stopped /\ r.done = "none" THEN how ELSE r.done
        /\ q.stopper = IF stopped /\ r.done = "none" THEN who ELSE r.stopper
    BY <2>1 DEF Run
  <2> QED BY <2>2 DEF q
<1>2. LET q == MutatedRun(intent, runs[n]) IN
      \/ q.done = runs[n].done /\ q.stopper = runs[n].stopper
      \/ runs[n].done = "none" /\ q.done = "operator_stop" /\ q.stopper = intent.n
  <2> DEFINE st == [p \in Ports |-> IF p \in runs[n].ports \cap intent.ports
                                    THEN Desired(intent, p) ELSE runs[n].st[p]]
  <2>1. MutatedRun(intent, runs[n]) = Restate(runs[n], st, "operator_stop", intent.n)
    BY DEF MutatedRun, Restate
  <2> HIDE DEF st
  <2> QED BY <1>0, <1>1, <2>1
<1>3. ASSUME NEW vouches \in BOOLEAN
      PROVE  ReconciledRun(runs[n], vouches).done \in {runs[n].done, "observed"}
  <2> DEFINE r == runs[n]
             seen(p) == IF p \notin r.ports \/ r.done # "none" \/ task.live[p] = "stopped"
                        THEN "stopped"
                        ELSE IF vouches THEN task.live[p] ELSE "unknown"
             st == [p \in Ports |-> seen(p)]
             stopped == GroupState([r EXCEPT !.st = st]) = "stopped"
  <2>1. ReconciledRun(r, vouches) =
          [r EXCEPT !.st = st,
                    !.lease = IF stopped THEN "none" ELSE @,
                    !.done = IF stopped /\ @ = "none" THEN "observed" ELSE @]
    BY DEF ReconciledRun
  <2> HIDE DEF stopped, st
  <2> QED BY <1>0, <2>1 DEF Run
<1>4. Closed(session, runs)[n].done \in {runs[n].done, "observed"}
  BY <1>0 DEF Closed, Run
<1> QED BY <1>2, <1>3, <1>4

\* A promotion records its own mutation as evidence, and no other.
LEMMA PromotedEvidence ==
  ASSUME TypeOK, intent.n \in Nonce
  PROVE  LET e == PromotedSession(intent).evidence IN
         /\ e[intent.n] = CASE intent.op = "start" -> "start"
                            [] intent.op = "stop"  -> "stop"
                            [] OTHER               -> "other"
         /\ \A n \in Nonce \ {intent.n} :
              e[n] = IF intent.op = "start" /\ intent.expected = 0 THEN "none"
                     ELSE session.evidence[n]
<1>0. session \in Session
  BY DEF TypeOK, DiskType
<1>1. CASE intent.op = "start" /\ intent.expected = 0
  BY <1>1 DEF PromotedSession, StartedSession, NoSession
<1>2. CASE intent.op = "start" /\ intent.expected # 0
  BY <1>0, <1>2 DEF PromotedSession, StartedSession, Session
<1>3. CASE intent.op # "start"
  BY <1>0, <1>3 DEF PromotedSession, MutatedSession, Session
<1> QED BY <1>1, <1>2, <1>3

\* Every step that writes the document keeps it so.
LEMMA DocumentInvKept ==
  ASSUME TypeOK, TypeOK', OperationPending, StartInv, GroupsDrawn, DocumentInv, [Next]_vars
  PROVE  DocumentInv'
<1>0. /\ session.groups \subseteq Nonce /\ session.completed \subseteq Nonce
      /\ \A n \in Nonce : runs[n] \in Run /\ n \in Nat /\ n # 0
      /\ intent.n \in Nonce0 /\ nonce \in Nat /\ intent.n <= nonce
      /\ NoIntent.n = 0 /\ NoRun.done = "none"
  BY BoundsAssumption
     DEF TypeOK, DiskType, HistoryType, Session, Intent, Nonce, Nonce0, NoIntent, NoRun, StartInv
<1>1. ASSUME session' = session, nonce' = nonce, intent'.n \in {0, intent.n},
             \A n \in Nonce : /\ runs'[n].ports = runs[n].ports /\ runs'[n].stopper = runs[n].stopper
                              /\ runs'[n].done \in {runs[n].done, "observed"},
             \A n \in session.completed : AllStopped(runs'[n]) /\ runs'[n].done # "none"
      PROVE  DocumentInv'
  <2>1. \A n \in Nonce : runs'[n].done = "operator_stop" => runs[n].done = "operator_stop"
    BY <1>1
  <2>2. \A n \in Nonce : runs'[n].done # "hard_stop"
    BY <1>1 DEF DocumentInv
  <2>3. \A m, n \in session.groups : m # n => runs'[m].ports \cap runs'[n].ports = {}
    BY <1>0, <1>1 DEF DocumentInv
  <2>4. \A n \in session.groups \cup session.completed :
          runs'[n].done = "operator_stop" => session.evidence[runs'[n].stopper] = "stop"
    BY <1>0, <1>1, <2>1 DEF DocumentInv
  <2>5. \A n \in Nonce : session.evidence[n] # "none" => n <= nonce /\ n # intent'.n
    BY <1>0, <1>1 DEF DocumentInv
  <2> QED BY <1>1, <2>1, <2>2, <2>3, <2>4, <2>5 DEF DocumentInv
<1>2. CASE SameDocuments /\ ~Begin
  <2>1. nonce' = nonce /\ intent'.n \in {0, intent.n}
    <3>1. SameIntent \/ intent' = NoIntent
      BY <1>2, Documents, IntentFields DEF Promoting, Clearing, Reconciling, Closing, Ticking
    <3> QED BY <1>0, <1>2, <3>1, Numbers DEF SameIntent
  <2> QED BY <1>1, <1>2, <2>1 DEF SameDocuments, DocumentInv
<1>3. CASE Begin
  <2>1. SameDocuments /\ nonce' = nonce + 1 /\ intent'.n = nonce + 1
    BY <1>3, BeginTask
  <2>2. \A n \in Nonce : session.evidence[n] # "none" => n <= nonce' /\ n # intent'.n
    BY <1>0, <2>1 DEF DocumentInv
  <2> QED BY <2>1, <2>2 DEF DocumentInv, SameDocuments
<1>4. CASE Promoting
  <2> DEFINE s == session'
  <2>0. /\ intent.n \in Nonce /\ intent'.n = 0 /\ s.id # 0 /\ ValidDocument(s, runs')
        /\ nonce' = nonce
        /\ \A n \in s.completed : AllStopped(runs'[n])
    BY <1>4, PromotedDocument DEF Promoting
  <2>1. /\ \A m, n \in s.groups : m # n => runs'[m].ports \cap runs'[n].ports = {}
        /\ \A n \in s.completed : runs'[n].done # "none"
        /\ \A n \in s.groups \cup s.completed :
             runs'[n].done = "operator_stop" => s.evidence[runs'[n].stopper] = "stop"
        /\ {n \in Nonce : s.evidence[n] = "start"} = s.groups \cup s.completed
        /\ s.evidence[s.id] = "start"
    BY <2>0 DEF ValidDocument
  <2>2. \A n \in Nonce : /\ runs'[n].done = "operator_stop" => runs'[n].stopper # 0
                         /\ runs'[n].done # "hard_stop"
    <3> TAKE n \in Nonce
    <3>1. CASE intent.op = "start"
      <4>1. \/ n # intent.n /\ runs'[n] \in {runs[n], NoRun}
            \/ n = intent.n /\ runs'[n].done = "none"
        BY <1>4, <2>0, <3>1, StartedFields DEF Promoting, PromotedRuns
      <4> QED BY <1>0, <4>1 DEF DocumentInv
    <3>2. CASE intent.op # "start"
      <4>1. runs'[n] \in {runs[n], MutatedRun(intent, runs[n])}
        BY <1>4, <3>2, MutatedDocument DEF Promoting, PromotedRuns
      <4> QED BY <1>0, <2>0, <4>1, ClosingRuns DEF DocumentInv
    <3> QED BY <3>1, <3>2
  <2>3. \A n \in Nonce : s.evidence[n] # "none" => n <= nonce /\ n # 0
    BY <1>0, <1>4, <2>0, PromotedEvidence DEF Promoting, DocumentInv
  <2> QED BY <2>0, <2>1, <2>2, <2>3 DEF DocumentInv
<1>5. CASE Reconciling
  <2>1. PICK vouches \in BOOLEAN :
          runs' = [n \in Nonce |-> IF n \in session.groups
                                   THEN ReconciledRun(runs[n], vouches) ELSE runs[n]]
    BY <1>5 DEF Reconciling
  <2>2. \A n \in Nonce : /\ runs'[n].ports = runs[n].ports /\ runs'[n].stopper = runs[n].stopper
                         /\ runs'[n].done \in {runs[n].done, "observed"}
    BY <1>0, <2>1, ReconciledFields, ClosingRuns
  <2>3. \A n \in session.completed : AllStopped(runs'[n]) /\ runs'[n].done # "none"
    <3> TAKE n \in session.completed
    <3>1. AllStopped(runs[n]) /\ runs[n].done # "none" /\ n \in Nonce
      BY <1>0 DEF DocumentInv
    <3>2. CASE n \in session.groups
      <4>1. runs'[n] = ReconciledRun(runs[n], vouches) /\ runs[n] \in Run
        BY <1>0, <2>1, <3>2
      <4>2. AllStopped(runs'[n])
        <5>1. runs[n].ports \in SUBSET Ports
          BY <4>1 DEF Run
        <5> QED BY <3>1, <4>1, <5>1, ReconciledFields DEF AllStopped
      <4> QED BY <4>1, <4>2, ReconciledFields
    <3>3. CASE n \notin session.groups
      BY <1>0, <2>1, <3>1, <3>3
    <3> QED BY <3>2, <3>3
  <2> QED BY <1>1, <1>5, <2>2, <2>3 DEF Reconciling
<1>6. CASE Closing
  <2>1. CASE runs' = runs
    BY <1>0, <1>1, <1>6, <2>1 DEF Closing, DocumentInv
  <2>2. CASE runs' = Closed(session, runs)
    <3>1. \A n \in Nonce : /\ runs'[n].ports = runs[n].ports /\ runs'[n].stopper = runs[n].stopper
                           /\ runs'[n].done \in {runs[n].done, "observed"}
      BY <1>0, <2>2, ClosedFields, ClosingRuns
    <3>2. \A n \in session.completed : AllStopped(runs'[n]) /\ runs'[n].done # "none"
      BY <1>0, <2>2, ClosedFields DEF DocumentInv
    <3> QED BY <1>0, <1>1, <1>6, <3>1, <3>2 DEF Closing
  <2> QED BY <1>6, <2>1, <2>2 DEF Closing
<1>7. CASE Ticking
  <2>1. PICK m \in session.groups : runs' = [runs EXCEPT ![m].lease = Later(@)]
    BY <1>7 DEF Ticking
  <2>2. \A n \in Nonce : /\ runs'[n].ports = runs[n].ports /\ runs'[n].st = runs[n].st
                         /\ runs'[n].done = runs[n].done /\ runs'[n].stopper = runs[n].stopper
    BY <1>0, <2>1 DEF TypeOK, DiskType, Run
  <2>3. \A n \in session.completed : AllStopped(runs'[n]) /\ runs'[n].done # "none"
    BY <1>0, <2>2 DEF DocumentInv, AllStopped
  <2> QED BY <1>1, <1>7, <2>2, <2>3 DEF Ticking, SameIntent
<1> QED BY <1>2, <1>3, <1>4, <1>5, <1>6, <1>7, Documents DEF Clearing

-----------------------------------------------------------------------------
(* The runs on record were started: with no other controller on the same TRex, a port *)
(* that transmits does so for the API                                                 *)

\* All that transmits was started by the API, with an RPC that is on record.
SoleController == \A p \in Ports : run[p] # "stopped" => by[p] # 0
TrafficSent    == \A p \in Ports : by[p] # 0 => starts[by[p]] # 0

\* A pending start has ports, and they are those of no group that is not stopped.
StartClear ==
  intent.n # 0 /\ intent.op = "start" =>
    /\ intent.ports # {}
    /\ \A n \in session.groups : runs[n].ports \cap intent.ports # {} => AllStopped(runs[n])

\* What the promotion of the pending intent will say of a port was so: its start was sent, or
\* the mutation found the port transmitting.
Accounted(p) ==
  IF intent.op = "start" THEN starts[intent.n] # 0
  ELSE \A n \in session.groups : p \in runs[n].ports => runs[n].st[p] # "stopped"

SampleAccounted ==
  intent.n # 0 /\ task.mode = "recovery" =>
    \A p \in intent.ports : task.live[p] # "stopped" => Accounted(p)

\* The operation is past what it does to the traffic: a promotion follows, if nothing fails.
Succeeded ==
  \/ StopDone
  \/ task.pc = "start_returned"
  \/ /\ task.mode = "recovery"
     /\ task.goal = "verify" \/ (intent.op = "start" /\ task.pc = "release" /\ task.ok)

Effective ==
  intent.n # 0 /\ intent.op \in {"start", "pause", "resume"} /\ Succeeded =>
    \A p \in intent.ports : Accounted(p)

StartedInv ==
  SoleController /\ TrafficSent /\ StartClear /\ SampleAccounted /\ Effective /\ RunsWereStarted

\* A port begins to transmit when the API starts it, if nobody else does.
LEMMA SoleKept ==
  ASSUME TypeOK, OperationPending, TaskFits, ~OtherControllers, SoleController, [Next]_vars
  PROVE  SoleController'
<1> USE DEF disk, history, server
<1>0. run \in [Ports -> LiveState] /\ by \in [Ports -> Nonce0] /\ intent.op \in Operation
  BY DEF TypeOK, ServerType, DiskType, Intent
<1>1. CASE StartTraffic
  <2>1. PICK T :
          /\ run' = [p \in Ports |-> IF p \in T THEN "running" ELSE run[p]]
          /\ by' = [p \in Ports |-> IF p \in T THEN intent.n ELSE by[p]]
    BY <1>1 DEF StartTraffic
  <2>2. intent.n # 0
    BY <1>1 DEF StartTraffic, OperationPending
  <2> QED BY <2>1, <2>2 DEF SoleController
<1>2. CASE \E T \in SUBSET Ports : Stopped(T)
  BY <1>2 DEF Stopped, SoleController
<1>3. CASE Command
  <2>1. PICK o \in Outcomes(task.ports) :
          /\ \A q \in o.done : run[q] \in Accepts(intent.op)
          /\ CASE intent.op = "stop"   -> Stopped(o.done)
               [] intent.op = "update" -> UNCHANGED <<run, by>>
               [] OTHER -> /\ run' = [q \in Ports |-> IF q \in o.done THEN Desired(intent, q)
                                                      ELSE run[q]]
                           /\ UNCHANGED by
    BY <1>3 DEF Command
  <2>2. CASE intent.op = "stop"
    BY <2>1, <2>2 DEF Stopped, SoleController
  <2>3. CASE intent.op = "update"
    BY <2>1, <2>3 DEF SoleController
  <2>4. CASE intent.op \in {"pause", "resume"}
    <3>1. by' = by /\ \A q \in Ports : run'[q] # "stopped" => run[q] # "stopped"
      BY <2>1, <2>4 DEF Accepts
    <3> QED BY <3>1 DEF SoleController
  <2>5. CASE intent.op = "start"
    BY <1>3, <2>5 DEF Command, TaskFits
  <2> QED BY <1>0, <2>2, <2>3, <2>4, <2>5 DEF Operation
<1>4. ASSUME run' = run, by' = by PROVE SoleController'
  BY <1>4 DEF SoleController
<1>5. CASE Begin \/ Snapshot \/ UNCHANGED vars
  BY <1>4, <1>5, BeginTask, SnapshotTask DEF vars
<1>6. CASE \/ GuardPasses \/ GuardExpires \/ AdvanceStage \/ StageFails
           \/ Release \/ Verify \/ PromotionRefused \/ Retain
           \/ Promote \/ Clear \/ RetireAfterRollover \/ RetireAfterTermination \/ Reconcile
  BY <1>4, <1>6, StageTask, ReleaseTask, VerifyTask, GivenUpTask, WriteTask
<1>7. CASE \/ RecoverForeign \/ RecoverYields \/ RecoverUnsafe
           \/ RollBackStart \/ AdoptStart \/ ReplayStart \/ AbandonStart
           \/ RecoverUpdate \/ AdoptAction \/ ClearAction \/ RetryAction
  BY <1>4, <1>7, RecoverTask
<1>8. CASE \/ Acquire \/ Preflight \/ RemoveStreams \/ AddProfile
           \/ Control \/ RestoreStreams \/ RestoreAcquisition
  BY <1>4, <1>8 DEF Acquire, Preflight, RemoveStreams, AddProfile, Control, RestoreStreams,
                    RestoreAcquisition
<1>9. CASE RollbackTraffic
  <2>1. \E T : Stopped(T)
    BY <1>9 DEF RollbackTraffic
  <2> QED BY <1>0, <2>1 DEF Stopped, SoleController
<1>10. CASE StopTrex \/ TrexExit
  <2>1. Stopped(Ports)
    BY <1>10 DEF StopTrex, TrexExit, HardwareReset, Stopped
  <2> QED BY <1>2, <2>1
<1>11. CASE Environment /\ ~TrexExit
  <2>1. CASE \E p \in Ports : TrafficEnds(p) \/ ExternalRelease(p)
    <3>1. \E p \in Ports : Stopped({p})
      BY <2>1 DEF TrafficEnds, ExternalRelease
    <3> QED BY <1>2, <3>1
  <2>2. CASE ~\E p \in Ports : TrafficEnds(p) \/ ExternalRelease(p)
    <3>1. run' = run /\ by' = by
      BY <1>11, <2>2 DEF Environment, Crash, HandlerExpires, ExternalTraffic, OperatorAcquires,
                         OperatorReleases, LeaseTick
    <3> QED BY <1>4, <3>1
  <2> QED BY <2>1, <2>2
<1> QED BY <1>1, <1>3, <1>5, <1>6, <1>7, <1>8, <1>9, <1>10, <1>11 DEF Next, Execute

\* Starts that were sent stay on record.
LEMMA StartsGrow ==
  ASSUME TypeOK, [Next]_vars, NEW n \in Nonce, starts[n] # 0
  PROVE  starts'[n] # 0
<1>1. starts \in [Nonce -> Nat]
  BY DEF TypeOK, HistoryType
<1>2. CASE Starting
  BY <1>1, <1>2 DEF Starting
<1>3. CASE starts' = starts
  BY <1>3
<1> QED BY <1>2, <1>3, ServerSteps DEF Carrying

\* The traffic of the API has its start RPC on record.
LEMMA SentKept ==
  ASSUME TypeOK, OperationPending, TrafficSent, [Next]_vars
  PROVE  TrafficSent'
<1>0. /\ by \in [Ports -> Nonce0] /\ starts \in [Nonce -> Nat] /\ intent.n \in Nonce0
      /\ \A n \in Nonce0 : n = 0 \/ n \in Nonce
  BY BoundsAssumption DEF TypeOK, ServerType, HistoryType, DiskType, Intent, Nonce, Nonce0
<1> SUFFICES ASSUME NEW p \in Ports, by'[p] # 0 PROVE starts'[by'[p]] # 0
  BY DEF TrafficSent
<1>1. CASE Starting
  <2>1. PICK T \in SUBSET task.ports :
          /\ by' = [q \in Ports |-> IF q \in T THEN intent.n ELSE by[q]]
          /\ starts' = [starts EXCEPT ![intent.n] = IF T = {} THEN @ ELSE @ + 1]
    BY <1>1 DEF Starting
  <2>2. intent.n \in Nonce
    BY <1>0, <1>1 DEF Starting, OperationPending
  <2>3. CASE p \in T
    BY <1>0, <2>1, <2>2, <2>3
  <2>4. CASE p \notin T
    BY <1>0, <2>1, <2>4, StartsGrow DEF TrafficSent
  <2> QED BY <2>3, <2>4
<1>2. CASE ~Starting
  <2>1. by'[p] = by[p]
    BY <1>2, GoesOn
  <2> QED BY <1>0, <2>1, StartsGrow DEF TrafficSent
<1> QED BY <1>1, <1>2

\* A port of the pending intent that transmits is accounted for.
LEMMA TransmittingAccounted ==
  ASSUME TypeOK, TrafficRecorded, SoleController, TrafficSent, StartClear, DocumentInv,
         intent.n # 0, NEW p \in intent.ports, run[p] # "stopped"
  PROVE  Accounted(p)
<1>0. p \in Ports /\ by[p] # 0 /\ session.groups \subseteq Nonce
  BY DEF TypeOK, DiskType, Intent, Session, SoleController
<1>1. CASE by[p] = intent.n /\ intent.op = "start"
  BY <1>0, <1>1 DEF TrafficSent, Accounted
<1>2. CASE by[p] \in session.groups /\ p \in runs[by[p]].ports /\ runs[by[p]].st[p] # "stopped"
  <2>1. intent.op # "start"
    BY <1>0, <1>2 DEF StartClear, AllStopped
  <2>2. \A n \in session.groups : p \in runs[n].ports => n = by[p]
    BY <1>2 DEF DocumentInv
  <2> QED BY <1>2, <2>1, <2>2 DEF Accounted
<1> QED BY <1>0, <1>1, <1>2 DEF TrafficRecorded

\* As long as an intent is pending the session stays as it is, but for its leases.
LEMMA FrozenStep ==
  ASSUME TypeOK, ReconcilesClean, [Next]_vars, intent.n # 0, intent'.n # 0
  PROVE  /\ SameIntent /\ session' = session
         /\ \A n \in session.groups : runs'[n].ports = runs[n].ports /\ runs'[n].st = runs[n].st
<1>0. NoIntent.n = 0 /\ session.groups \subseteq Nonce /\ runs \in [Nonce -> Run]
  BY DEF NoIntent, TypeOK, DiskType, Session
<1>1. CASE SameDocuments /\ SameIntent
  BY <1>1 DEF SameDocuments
<1>2. CASE Ticking
  <2>1. PICK m \in session.groups : runs' = [runs EXCEPT ![m].lease = Later(@)]
    BY <1>2 DEF Ticking
  <2>2. \A n \in Nonce : runs'[n].ports = runs[n].ports /\ runs'[n].st = runs[n].st
    BY <1>0, <2>1 DEF Run
  <2> QED BY <1>0, <1>2, <2>2 DEF Ticking
<1>3. CASE Begin
  BY <1>3, BeginTask
<1>4. CASE Reconciling
  BY <1>4 DEF Reconciling, ReconcilesClean
<1>5. CASE Promoting \/ Clearing \/ Closing
  BY <1>0, <1>5 DEF Promoting, Clearing, Closing
<1> QED BY <1>1, <1>2, <1>3, <1>4, <1>5, Documents

\* What is accounted for stays so, as the session is frozen under the intent.
LEMMA AccountedStays ==
  ASSUME TypeOK, ReconcilesClean, [Next]_vars, intent.n # 0, intent'.n # 0, NEW p, Accounted(p)
  PROVE  Accounted(p)'
<1>0. intent.n \in Nonce
  BY BoundsAssumption DEF TypeOK, DiskType, Intent, Nonce, Nonce0
<1>1. SameIntent /\ session' = session
      /\ \A n \in session.groups : runs'[n].ports = runs[n].ports /\ runs'[n].st = runs[n].st
  BY FrozenStep
<1>2. CASE intent.op = "start"
  BY <1>0, <1>1, <1>2, StartsGrow DEF Accounted, SameIntent
<1>3. CASE intent.op # "start"
  BY <1>1, <1>3 DEF Accounted, SameIntent
<1> QED BY <1>2, <1>3

\* A pending start has its ports, and no group that is not stopped has any of them.
LEMMA ClearKept ==
  ASSUME TypeOK, ReconcilesClean, StartClear, [Next]_vars
  PROVE  StartClear'
<1>0. /\ session.groups \subseteq Nonce
      /\ \A n \in Nonce : runs[n].st \in [Ports -> PortState] /\ runs[n].ports \in SUBSET Ports
  BY DEF TypeOK, DiskType, Session, Run
<1> SUFFICES ASSUME intent'.n # 0 PROVE StartClear'
  BY DEF StartClear
<1>1. CASE intent.n # 0
  <2>1. /\ SameIntent /\ session' = session
        /\ \A n \in session.groups : runs'[n].ports = runs[n].ports /\ runs'[n].st = runs[n].st
    BY <1>1, FrozenStep
  <2> QED BY <1>1, <2>1 DEF StartClear, SameIntent, AllStopped
<1>2. CASE Begin
  <2>1. /\ SameDocuments /\ intent'.ports # {}
        /\ intent'.op = "start" => \A n \in session.groups :
             runs[n].ports \cap intent'.ports # {} => GroupState(runs[n]) = "stopped"
    BY <1>2, BeginTask
  <2>2. \A n \in session.groups : GroupState(runs[n]) = "stopped" => AllStopped(runs[n])
    BY <1>0, GroupStopped
  <2> QED BY <2>1, <2>2 DEF StartClear, SameDocuments
<1>3. CASE intent.n = 0 /\ ~Begin
  <2>1. SameIntent \/ intent' = NoIntent
    BY <1>3, Documents, IntentFields DEF Promoting, Clearing, Reconciling, Closing, Ticking
  <2> QED BY <1>3, <2>1 DEF SameIntent, NoIntent
<1> QED BY <1>1, <1>2, <1>3

\* A recovery goes on with the sample it has, or takes one of the ports as they are.
LEMMA LiveSteps ==
  ASSUME TypeOK, TaskFits, [Next]_vars, task'.mode = "recovery"
  PROVE  /\ ~Begin
         /\ \/ task.mode = "recovery" /\ task'.live = task.live
            \/ task'.live = run
<1>0. task.mode \in {"direct", "recovery"} /\ task \in Task
  BY DEF TypeOK, MemoryType, Task
<1>1. Idle.mode = "direct"
  BY DEF Idle
<1>2. ~Begin
  <2> SUFFICES ASSUME Begin PROVE FALSE
    OBVIOUS
  <2>1. task' # Idle
    BY <1>1
  <2>2. task' = [Idle EXCEPT !.pc = IF intent'.op = "start" THEN "acquire_intent" ELSE "guard",
                             !.ports = intent'.ports]
    BY <2>1, BeginTask
  <2> QED BY <2>2 DEF Idle
<1> SUFFICES \/ task.mode = "recovery" /\ task'.live = task.live
             \/ task'.live = run
  BY <1>2
<1>3. CASE Snapshot \/ Verify
  BY <1>0, <1>3, SnapshotTask, VerifyTask DEF TaskFits
<1>4. CASE StopTrex \/ Environment
  <2>1. task' # Idle
    BY <1>1
  <2>2. CASE task' = task \/ task' = [task EXCEPT !.linked = FALSE]
    BY <1>0, <2>2 DEF Task
  <2> QED BY <1>4, <2>1, <2>2, EnvironmentTask DEF SameLocals
<1>5. CASE \/ GuardPasses \/ GuardExpires \/ AdvanceStage \/ StageFails
           \/ Acquire \/ Preflight \/ RemoveStreams \/ AddProfile \/ StartTraffic \/ Command
           \/ Control \/ RollbackTraffic \/ RestoreStreams \/ RestoreAcquisition
  BY <1>5, StageTask, RpcTask, ControlTask DEF SameLocals
<1>6. CASE Release
  BY <1>6, ReleaseTask
<1>7. CASE \/ PromotionRefused \/ Retain
           \/ Promote \/ Clear \/ RetireAfterRollover \/ RetireAfterTermination \/ Reconcile
  BY <1>1, <1>7, GivenUpTask, WriteTask DEF SameLocals
<1>8. CASE \/ RecoverForeign \/ RecoverYields \/ RecoverUnsafe
           \/ RollBackStart \/ AdoptStart \/ ReplayStart \/ AbandonStart
           \/ RecoverUpdate \/ AdoptAction \/ ClearAction \/ RetryAction
  BY <1>1, <1>8, RecoverTask DEF SameLocals
<1>9. CASE UNCHANGED vars
  BY <1>9 DEF vars, memory
<1> QED BY <1>2, <1>3, <1>4, <1>5, <1>6, <1>7, <1>8, <1>9 DEF Next, Execute

\* A pending intent is the one that was pending before, unless its operation begins.
LEMMA PendingBefore ==
  ASSUME TypeOK, [Next]_vars, intent'.n # 0, ~Begin
  PROVE  intent.n # 0
<1>1. SameIntent \/ intent' = NoIntent
  BY Documents, IntentFields DEF Promoting, Clearing, Reconciling, Closing, Ticking
<1> QED BY <1>1 DEF SameIntent, NoIntent

\* A port that the sample of a recovery shows transmitting is accounted for.
LEMMA SampleAccountedKept ==
  ASSUME TypeOK, TaskFits, TrafficRecorded, DocumentInv, ReconcilesClean,
         SoleController, TrafficSent, StartClear, SampleAccounted, [Next]_vars
  PROVE  SampleAccounted'
<1> SUFFICES ASSUME intent'.n # 0, task'.mode = "recovery",
                    NEW p \in intent'.ports, task'.live[p] # "stopped"
             PROVE  Accounted(p)'
  BY DEF SampleAccounted
<1>1. /\ intent.n # 0
      /\ \/ task.mode = "recovery" /\ task'.live = task.live
         \/ task'.live = run
  BY LiveSteps, PendingBefore
<1>2. p \in intent.ports
  BY <1>1, FrozenStep DEF SameIntent
<1>3. Accounted(p)
  <2>1. CASE task.mode = "recovery" /\ task'.live = task.live
    BY <1>1, <1>2, <2>1 DEF SampleAccounted
  <2>2. CASE task'.live = run
    BY <1>1, <1>2, <2>2, TransmittingAccounted
  <2> QED BY <1>1, <2>1, <2>2
<1> QED BY <1>1, <1>3, AccountedStays

\* A step of an operation that goes on as if it took effect: it did.
LEMMA EffectSteps ==
  ASSUME TypeOK, OperationPending, LedgerInv, DocumentInv, ReconcilesClean,
         SoleController, TrafficSent, StartClear, SampleAccounted, [Next]_vars,
         intent.n # 0, intent'.n # 0, intent.op \in {"start", "pause", "resume"},
         Succeeded', ~Succeeded, NEW p \in intent.ports
  PROVE  Accounted(p)'
<1> USE DEF StartPath, Sending, Controlling, Hooks, StopDone, Succeeded, LedgerInv
<1>0. /\ task.mode \in {"direct", "recovery"} /\ task.goal \in Goal /\ task \in Task
      /\ intent.ports \subseteq Ports /\ intent.n \in Nonce /\ starts \in [Nonce -> Nat]
  BY BoundsAssumption DEF TypeOK, MemoryType, DiskType, HistoryType, Task, Intent, Nonce, Nonce0
<1>1. Idle.mode = "direct" /\ Idle.pc = "idle"
  BY DEF Idle
<1>2. task' # Idle
  BY <1>1
<1>3. SameIntent
  BY FrozenStep
<1>4. \A q \in intent.ports : Desired(intent, q) # "stopped"
  BY DEF Desired
<1>5. CASE Begin
  BY <1>5, BeginTask
<1>6. CASE Snapshot
  BY <1>6, SnapshotTask
<1>7. CASE StopTrex \/ Environment
  <2>1. CASE task' = task \/ task' = [task EXCEPT !.linked = FALSE]
    BY <1>0, <1>3, <2>1 DEF Task, SameIntent
  <2> QED BY <1>2, <1>7, <2>1, EnvironmentTask DEF TaskFits, SameLocals
<1>8. CASE GuardPasses \/ GuardExpires \/ AdvanceStage \/ StageFails
  <2>1. /\ AfterHook = "release" => task.pc = "start_returned"
        /\ AfterHook \notin {"promote", "start_returned"}
        \/ task.pc \notin Hooks
    BY DEF AfterHook
  <2> QED BY <1>0, <1>3, <1>8, <2>1, StageTask DEF TaskFits, SameLocals, SameIntent
<1>9. CASE StartTraffic
  <2>1. PICK o \in Outcomes(task.ports) :
          /\ starts' = [starts EXCEPT ![intent.n] = IF o.done = {} THEN @ ELSE @ + 1]
          /\ Under(o.ok, "start_returned")
    BY <1>9 DEF StartTraffic
  <2>2. o.ok \in BOOLEAN /\ (o.ok => o.done = task.ports)
    BY DEF Outcomes
  <2>3. intent.op = "start" /\ task.ports = intent.ports
    BY <1>9 DEF StartTraffic, TaskFits
  <2>4. CASE o.ok
    BY <1>0, <1>3, <2>1, <2>2, <2>3, <2>4 DEF StartClear, Accounted, SameIntent
  <2>5. CASE ~o.ok
    <3>1. task' = [task EXCEPT !.pc = "release", !.ok = FALSE]
      BY <2>1, <2>5 DEF Under
    <3>2. task'.pc = "release" /\ ~task'.ok /\ task'.mode = task.mode /\ task'.goal = task.goal
      BY <1>0, <3>1 DEF Task
    <3> QED BY <1>0, <3>2
  <2> QED BY <2>2, <2>4, <2>5
<1>10. CASE Acquire \/ Preflight \/ RemoveStreams \/ AddProfile
  <2>1. task'.pc = "release" => ~task'.ok
    <3>1. ASSUME NEW ok, NEW pc, pc # "release", Under(ok, pc) PROVE task'.pc = "release" => ~task'.ok
      BY <1>0, <3>1 DEF Under, Task
    <3>2. Acquire => task'.pc # "release"
      BY RpcTask DEF Acquire
    <3>3. ASSUME Preflight
          PROVE  \E ok : \E pc \in {"streams_remove_intent", "profile_add_intent"} : Under(ok, pc)
      BY <3>3 DEF Preflight
    <3>4. RemoveStreams \/ AddProfile => \E ok : \E pc \in {"streams_removed", "profile_added"} :
                                           Under(ok, pc)
      BY DEF RemoveStreams, AddProfile
    <3> QED BY <1>10, <3>1, <3>2, <3>3, <3>4
  <2>2. /\ SameLocals(task', task)
        /\ task'.pc \notin {"promote", "start_returned"}
        /\ task.pc \notin {"command", "start"}
    BY <1>10, RpcTask DEF Acquire, Preflight, RemoveStreams, AddProfile
  <2> QED BY <1>0, <2>1, <2>2 DEF SameLocals
<1>11. CASE Command
  <2>1. PICK o \in Outcomes(task.ports) :
          /\ \A q \in o.done : run[q] \in Accepts(intent.op)
          /\ task' = [task EXCEPT !.pc = "release", !.ok = o.ok]
    BY <1>11 DEF Command
  <2>2. intent.op \in {"pause", "resume"} /\ task.pc = "command"
    BY <1>11 DEF Command, TaskFits
  <2>3. task'.mode = task.mode /\ task'.goal = task.goal /\ task'.ok = o.ok /\ task'.pc = "release"
    BY <1>0, <2>1 DEF Task
  <2>4. task.mode = "direct" /\ o.ok
    BY <1>0, <1>3, <2>2, <2>3 DEF SameIntent
  <2>5. o.done = intent.ports
    BY <2>2, <2>4 DEF Outcomes, TaskFits
  <2>6. run[p] # "stopped"
    BY <2>1, <2>2, <2>5 DEF Accepts
  <2> QED BY <2>6, TransmittingAccounted, AccountedStays
<1>12. CASE Release
  <2>1. PICK ok : task' = IF ok /\ task.ok THEN AfterOperation ELSE [task EXCEPT !.pc = Failed]
    BY <1>12 DEF Release
  <2>2. CASE task.ok
    BY <1>0, <1>3, <1>12, <2>2, ReleaseTask DEF TaskFits, SameIntent
  <2>3. CASE ~task.ok
    <3>1. task'.pc = Failed /\ task'.mode = task.mode /\ task'.goal = task.goal
      BY <1>0, <2>1, <2>3 DEF Task
    <3> QED BY <1>0, <3>1, AfterSteps DEF Failed
  <2> QED BY <2>2, <2>3
<1>13. CASE Control \/ RollbackTraffic \/ RestoreStreams \/ RestoreAcquisition
  <2>1. task.mode = "recovery"
    BY <1>13 DEF TaskFits, Control, RollbackTraffic, RestoreStreams, RestoreAcquisition
  <2>2. AfterControl \notin {"release", "start_returned"}
    BY <1>0 DEF AfterControl, Goal
  <2> QED BY <1>13, <2>1, <2>2, ControlTask DEF SameLocals
<1>14. CASE Verify
  <2>1. task.mode = "recovery" /\ task'.live = run
    BY <1>0, <1>14, VerifyTask DEF TaskFits
  <2>2. run[p] = Desired(intent, p)
    BY <1>0, <1>14, <2>1, VerifyTask DEF TaskFits
  <2> QED BY <1>4, <2>2, TransmittingAccounted, AccountedStays
<1>15. CASE PromotionRefused \/ Retain
  BY <1>2, <1>15, GivenUpTask DEF SameLocals
<1>16. CASE Promote \/ Clear \/ RetireAfterRollover \/ RetireAfterTermination \/ Reconcile
  <2>1. NoIntent.n = 0
    BY DEF NoIntent
  <2> QED BY <1>2, <1>16, <2>1, WriteTask DEF SameLocals
<1>17. CASE \/ RecoverForeign \/ RecoverYields \/ RecoverUnsafe
            \/ RollBackStart \/ AdoptStart \/ ReplayStart \/ AbandonStart
            \/ RecoverUpdate \/ AdoptAction \/ ClearAction \/ RetryAction
  <2>1. task.mode = "recovery" /\ task.pc = "recover" /\ task.goal = "none"
    BY <1>17, RecoverTask DEF TaskFits
  <2>2. AtGoal
    BY <1>0, <1>2, <1>17, <2>1, RecoverTask DEF SameLocals
  <2>3. task.live[p] # "stopped"
    BY <1>4, <2>2 DEF AtGoal
  <2> QED BY <2>1, <2>3, AccountedStays DEF SampleAccounted
<1>18. CASE UNCHANGED vars
  BY <1>18 DEF vars, disk, memory
<1> QED BY <1>5, <1>6, <1>7, <1>8, <1>9, <1>10, <1>11, <1>12, <1>13, <1>14, <1>15, <1>16, <1>17,
           <1>18 DEF Next, Execute

\* What a promotion will say of the ports of its intent is so.
LEMMA EffectiveKept ==
  ASSUME TypeOK, OperationPending, LedgerInv, DocumentInv, ReconcilesClean,
         SoleController, TrafficSent, StartClear, SampleAccounted, Effective, [Next]_vars
  PROVE  Effective'
<1> SUFFICES ASSUME intent'.n # 0, intent'.op \in {"start", "pause", "resume"}, Succeeded',
                    NEW p \in intent'.ports
             PROVE  Accounted(p)'
  BY DEF Effective
<1>1. ~Begin
  <2> SUFFICES ASSUME Begin PROVE FALSE
    OBVIOUS
  <2>1. \/ task' = Idle
        \/ task' = [Idle EXCEPT !.pc = IF intent'.op = "start" THEN "acquire_intent" ELSE "guard",
                                !.ports = intent'.ports]
    BY BeginTask
  <2>2. task'.mode = "direct" /\ task'.pc \in {"idle", "acquire_intent", "guard"}
    <3>1. CASE task' = Idle
      BY <3>1 DEF Idle
    <3>2. CASE task' # Idle
      <4>1. task' = [Idle EXCEPT !.pc = IF intent'.op = "start" THEN "acquire_intent" ELSE "guard",
                                 !.ports = intent'.ports]
        BY <2>1, <3>2
      <4> QED BY <4>1 DEF Idle
    <3> QED BY <3>1, <3>2
  <2> QED BY <2>2 DEF Succeeded, StopDone
<1>2. intent.n # 0 /\ SameIntent
  BY <1>1, PendingBefore, FrozenStep
<1>3. intent.op \in {"start", "pause", "resume"} /\ p \in intent.ports
  BY <1>2 DEF SameIntent
<1>4. CASE Succeeded
  <2>1. Accounted(p)
    BY <1>2, <1>3, <1>4 DEF Effective
  <2> QED BY <1>2, <2>1, AccountedStays
<1>5. CASE ~Succeeded
  BY <1>2, <1>3, <1>5, EffectSteps
<1> QED BY <1>4, <1>5

\* A promotion follows an operation that took effect.
LEMMA PromotionsSucceed ==
  ASSUME TypeOK, TaskFits, task.pc = "promote"
  PROVE  Succeeded
  BY DEF TypeOK, MemoryType, Task, TaskFits, Succeeded, StopDone

\* Only a start that was sent becomes a run of the session.
LEMMA RunsStartedKept ==
  ASSUME TypeOK, OperationPending, TaskFits, StartClear, Effective, RunsWereStarted, [Next]_vars
  PROVE  RunsWereStarted'
<1>0. session.groups \subseteq Nonce /\ session.completed \subseteq Nonce
  BY DEF TypeOK, DiskType, Session
<1>1. CASE session' = session
  BY <1>0, <1>1, StartsGrow DEF RunsWereStarted
<1>2. CASE Promoting
  <2>1. intent.n \in Nonce /\ intent.n # 0
    <3>1. intent.n # 0 /\ intent.n \in Nonce0
      BY <1>2 DEF OperationPending, Promoting, TypeOK, DiskType, Intent
    <3> QED BY <3>1, BoundsAssumption DEF Nonce, Nonce0
  <2>2. CASE intent.op = "start"
    <3>1. starts[intent.n] # 0
      BY <1>2, <2>1, <2>2, PromotionsSucceed DEF Promoting, Effective, StartClear, Accounted
    <3>2. session'.groups \cup session'.completed
            \subseteq session.groups \cup session.completed \cup {intent.n}
      BY <1>2, <2>1, <2>2, StartedFields DEF Promoting, PromotedSession, Replaced
    <3> QED BY <1>0, <2>1, <3>1, <3>2, StartsGrow DEF RunsWereStarted
  <2>3. CASE intent.op # "start"
    BY <1>0, <1>2, <2>3, MutatedDocument, StartsGrow
       DEF Promoting, PromotedSession, RunsWereStarted
  <2> QED BY <2>2, <2>3
<1> QED BY <1>1, <1>2, Documents
        DEF SameDocuments, Clearing, Reconciling, Closing, Ticking

\* A mutation gives each port of a group a state that can be recorded.
LEMMA MutatedStates ==
  ASSUME NEW i \in Intent, NEW r \in Run
  PROVE  MutatedRun(i, r).st \in [Ports -> PortState]
<1> DEFINE st == [p \in Ports |-> IF p \in r.ports \cap i.ports THEN Desired(i, p) ELSE r.st[p]]
<1>1. st \in [Ports -> PortState]
  BY DEF Desired, Intent, Operation, PortState, LiveState, Run
<1>2. MutatedRun(i, r) = Restate(r, st, "operator_stop", i.n)
  BY DEF MutatedRun, Restate
<1> HIDE DEF st
<1> QED BY <1>1, <1>2, Restated

\* The document a promotion is about to write is one the validator accepts.
LEMMA PromotionIsAccepted ==
  ASSUME TypeOK, OperationPending, LedgerInv, DocumentInv, StartClear, Effective,
         task.pc = "promote", Promotable(intent)
  PROVE  ValidDocument(PromotedSession(intent), PromotedRuns(intent))
<1> DEFINE s == PromotedSession(intent)
           rs == PromotedRuns(intent)
<1> SUFFICES ValidDocument(s, rs)
  OBVIOUS
<1>0. /\ session.groups \subseteq Nonce /\ session.completed \subseteq Nonce
      /\ \A n \in Nonce : runs[n] \in Run /\ runs[n].stopper \in Nonce0
      /\ \A n \in Nonce : GroupState(runs[n]) = "stopped" <=> AllStopped(runs[n])
      /\ intent \in Intent /\ intent.op \in Operation /\ intent.ports \subseteq Ports
      /\ \A n \in Nonce0 : n = 0 \/ n \in Nonce
  <2>1. ASSUME NEW n \in Nonce
        PROVE  /\ runs[n].st \in [Ports -> PortState] /\ runs[n].ports \in SUBSET Ports
               /\ runs[n] \in Run /\ runs[n].stopper \in Nonce0
    BY DEF TypeOK, DiskType, Run
  <2>2. \A n \in Nonce : GroupState(runs[n]) = "stopped" <=> AllStopped(runs[n])
    BY <2>1, GroupStopped
  <2> QED BY <2>1, <2>2, BoundsAssumption
          DEF TypeOK, DiskType, Session, Intent, Nonce, Nonce0
<1>1. intent.n \in Nonce /\ intent.n # 0
  BY <1>0 DEF OperationPending, Intent
<1>2. \A p \in intent.ports : intent.op \in {"start", "pause", "resume"} => Accounted(p)
  BY <1>1, PromotionsSucceed DEF Effective, LedgerInv
<1>3. \A n \in session.groups \cup session.completed :
        /\ n # intent.n
        /\ runs[n].done = "operator_stop" => /\ runs[n].stopper \in Nonce \ {intent.n}
                                             /\ session.evidence[runs[n].stopper] = "stop"
  <2> TAKE n \in session.groups \cup session.completed
  <2>1. n \in Nonce /\ n # intent.n
    BY <1>0 DEF LedgerInv, GroupsDrawn
  <2>2. ASSUME runs[n].done = "operator_stop"
        PROVE  runs[n].stopper \in Nonce /\ session.evidence[runs[n].stopper] = "stop"
    BY <1>0, <2>1, <2>2 DEF DocumentInv
  <2> QED BY <2>1, <2>2 DEF DocumentInv
<1>4. CASE intent.op = "start"
  <2>0. s = StartedSession(intent) /\ rs = StartedRuns(intent) /\ StartPromotable(intent)
    BY <1>4 DEF PromotedSession, PromotedRuns, Promotable
  <2> HIDE DEF s, rs
  <2>1. /\ rs[intent.n].ports = intent.ports /\ rs[intent.n].done = "none"
        /\ GroupState(rs[intent.n]) # "stopped"
    <3>1. /\ rs[intent.n].ports = intent.ports /\ rs[intent.n].done = "none"
          /\ \A p \in Ports : rs[intent.n].st[p] = IF p \in intent.ports THEN "running"
                                                   ELSE "stopped"
      BY <1>1, <2>0, StartedFields
    <3>2. rs[intent.n].st \in [Ports -> PortState]
      BY <1>1, <2>0 DEF StartedRuns, NoRun, PortState, LiveState
    <3>3. ~AllStopped(rs[intent.n])
      BY <1>0, <1>1, <1>4, <3>1 DEF StartClear, AllStopped
    <3> QED BY <1>0, <3>1, <3>2, <3>3, GroupStopped
  <2>2. CASE intent.expected = 0
    <3>1. /\ s.id = intent.n /\ s.groups = {intent.n} /\ s.completed = {}
          /\ s.evidence[intent.n] = "start"
          /\ \A n \in Nonce \ {intent.n} : s.evidence[n] = "none"
      BY <1>1, <1>4, <2>0, <2>2, StartedFields, PromotedEvidence DEF s
    <3> QED BY <1>1, <2>1, <3>1 DEF ValidDocument
  <2>3. CASE intent.expected # 0
    <3>1. /\ s.id = session.id
          /\ s.groups = (session.groups \ Replaced) \cup {intent.n}
          /\ s.completed = session.completed \cup Replaced
          /\ s.evidence[intent.n] = "start"
          /\ \A n \in Nonce \ {intent.n} : s.evidence[n] = session.evidence[n]
          /\ \A n \in Nonce \ {intent.n} : rs[n] = runs[n]
      BY <1>1, <1>4, <2>0, <2>3, StartedFields, PromotedEvidence DEF s
    <3>2. \A n \in Replaced : GroupState(runs[n]) = "stopped" /\ n \in session.groups
      BY <2>0, <2>3 DEF StartPromotable, Replaced
    <3>3. \A m, n \in s.groups : m # n => rs[m].ports \cap rs[n].ports = {}
      <4>1. \A n \in session.groups \ Replaced : /\ rs[n] = runs[n]
                                                 /\ runs[n].ports \cap intent.ports = {}
        BY <1>0, <1>3, <3>1 DEF Replaced
      <4>2. \A m, n \in session.groups \ Replaced : m # n => rs[m].ports \cap rs[n].ports = {}
        BY <4>1 DEF DocumentInv
      <4> QED BY <2>1, <3>1, <4>1, <4>2
    <3>4. \A n \in s.groups : (GroupState(rs[n]) = "stopped") <=> (rs[n].done # "none")
      BY <1>0, <1>3, <2>1, <3>1 DEF LedgerInv, GroupsClosed
    <3>5. \A n \in s.completed : GroupState(rs[n]) = "stopped" /\ rs[n].done # "none"
      BY <1>0, <1>3, <3>1, <3>2 DEF LedgerInv, GroupsClosed, DocumentInv
    <3>6. \A n \in s.groups \cup s.completed :
            /\ rs[n].done = "operator_stop" => s.evidence[rs[n].stopper] = "stop"
            /\ rs[n].done # "hard_stop"
      BY <1>0, <1>3, <2>1, <3>1, <3>2 DEF DocumentInv
    <3>7. {n \in Nonce : s.evidence[n] = "start"} = s.groups \cup s.completed
      BY <1>0, <1>1, <3>1, <3>2 DEF DocumentInv
    <3>8. s.id # 0 => s.evidence[s.id] = "start"
      <4>1. session.id # 0 => session.id \in Nonce \ {intent.n}
        BY <1>0 DEF TypeOK, DiskType, Session, LedgerInv, GroupsDrawn
      <4> QED BY <3>1, <4>1 DEF DocumentInv
    <3> QED BY <3>3, <3>4, <3>5, <3>6, <3>7, <3>8 DEF ValidDocument
  <2> QED BY <2>2, <2>3
<1>5. CASE intent.op # "start"
  <2>0. s = MutatedSession(intent) /\ rs = MutatedRuns(intent)
    BY <1>5 DEF PromotedSession, PromotedRuns
  <2>1. /\ s.id = session.id /\ s.groups = session.groups /\ s.completed = session.completed
        /\ s.evidence[intent.n] = IF intent.op = "stop" THEN "stop" ELSE "other"
        /\ \A n \in Nonce \ {intent.n} : s.evidence[n] = session.evidence[n]
        /\ \A n \in Nonce : rs[n] = IF intent.op # "update" /\ n \in session.groups
                                    THEN MutatedRun(intent, runs[n]) ELSE runs[n]
    BY <1>1, <1>5, <2>0, MutatedDocument, PromotedEvidence DEF s
  <2> HIDE DEF s, rs
  <2>2. ASSUME NEW n \in Nonce
        PROVE  /\ rs[n].ports = runs[n].ports
               /\ GroupState(rs[n]) = "stopped" <=> AllStopped(rs[n])
    <3>1. CASE rs[n] = runs[n]
      BY <1>0, <3>1
    <3>2. CASE rs[n] = MutatedRun(intent, runs[n])
      <4>1. rs[n].ports = runs[n].ports /\ runs[n].ports \in SUBSET Ports
        BY <1>0, <3>2, MutatedFields DEF Run
      <4>2. rs[n].st \in [Ports -> PortState]
        BY <1>0, <3>2, MutatedStates
      <4> QED BY <4>1, <4>2, GroupStopped
    <3> QED BY <2>1, <3>1, <3>2
  <2>3. ASSUME NEW n \in session.groups, runs[n].done # "none"
        PROVE  AllStopped(rs[n])
    <3>1. AllStopped(runs[n]) /\ n \in Nonce /\ runs[n].ports \in SUBSET Ports
      BY <1>0, <2>3 DEF LedgerInv, GroupsClosed, Run
    <3>2. CASE intent.op = "update"
      BY <2>1, <3>1, <3>2
    <3>3. CASE intent.op = "stop"
      <4>1. \A p \in runs[n].ports : MutatedRun(intent, runs[n]).st[p] = "stopped"
        BY <1>0, <3>1, <3>3, MutatedFields DEF AllStopped, Desired
      <4> QED BY <2>1, <2>2, <3>1, <3>3, <4>1 DEF AllStopped
    <3>4. CASE intent.op \in {"pause", "resume"}
      <4>1. \A p \in runs[n].ports : p \notin intent.ports
        BY <1>2, <3>1, <3>4 DEF Accounted, AllStopped
      <4>2. \A p \in runs[n].ports : MutatedRun(intent, runs[n]).st[p] = "stopped"
        BY <1>0, <3>1, <4>1, MutatedFields DEF AllStopped
      <4> QED BY <2>1, <2>2, <3>1, <3>4, <4>2 DEF AllStopped
    <3> QED BY <1>0, <1>5, <3>2, <3>3, <3>4 DEF Operation
  <2>4. \A n \in s.groups : (GroupState(rs[n]) = "stopped") <=> (rs[n].done # "none")
    <3> SUFFICES ASSUME NEW n \in session.groups
                 PROVE  AllStopped(rs[n]) <=> rs[n].done # "none"
      BY <1>0, <2>1, <2>2
    <3>1. CASE rs[n] = runs[n]
      BY <3>1 DEF LedgerInv, GroupsClosed
    <3>2. CASE rs[n] = MutatedRun(intent, runs[n])
      BY <1>0, <2>3, <3>2, MutatedFields
    <3> QED BY <1>0, <2>1, <3>1, <3>2
  <2>5. \A n \in s.completed : GroupState(rs[n]) = "stopped" /\ rs[n].done # "none"
    <3> TAKE n \in s.completed
    <3>1. n \in session.completed /\ n \in Nonce /\ AllStopped(runs[n]) /\ runs[n].done # "none"
      BY <1>0, <2>1 DEF DocumentInv
    <3>2. CASE n \in session.groups
      BY <2>1, <2>2, <2>3, <2>4, <3>1, <3>2
    <3>3. CASE n \notin session.groups
      BY <1>0, <2>1, <3>1, <3>3
    <3> QED BY <3>2, <3>3
  <2>6. \A n \in s.groups \cup s.completed :
          /\ rs[n].done = "operator_stop" => s.evidence[rs[n].stopper] = "stop"
          /\ rs[n].done # "hard_stop"
    <3> TAKE n \in s.groups \cup s.completed
    <3>1. n \in session.groups \cup session.completed /\ n \in Nonce
      BY <1>0, <2>1
    <3>2. CASE rs[n].done = runs[n].done /\ rs[n].stopper = runs[n].stopper
      BY <1>3, <2>1, <3>1, <3>2 DEF DocumentInv
    <3>3. CASE ~(rs[n].done = runs[n].done /\ rs[n].stopper = runs[n].stopper)
      <4>1. /\ rs[n] = MutatedRun(intent, runs[n]) /\ intent.op # "update" /\ n \in session.groups
            /\ runs[n].done = "none" /\ rs[n].done = "operator_stop" /\ rs[n].stopper = intent.n
        BY <2>1, <3>1, <3>3, ClosingRuns
      <4>2. AllStopped(rs[n]) /\ ~AllStopped(runs[n])
        BY <1>0, <3>1, <4>1, MutatedFields DEF LedgerInv, GroupsClosed
      <4>3. PICK p \in runs[n].ports : runs[n].st[p] # "stopped" /\ rs[n].st[p] = "stopped"
        BY <2>2, <3>1, <4>2 DEF AllStopped
      <4>4. p \in Ports
        BY <1>0, <3>1 DEF Run
      <4>5. p \in intent.ports /\ Desired(intent, p) = "stopped"
        BY <1>0, <3>1, <4>1, <4>3, <4>4, MutatedFields
      <4>6. intent.op = "stop"
        BY <1>0, <1>5, <4>1, <4>5 DEF Desired, Operation
      <4> QED BY <2>1, <4>1, <4>6
    <3> QED BY <3>2, <3>3
  <2>7. {n \in Nonce : s.evidence[n] = "start"} = s.groups \cup s.completed
    BY <1>1, <1>3, <2>1 DEF DocumentInv
  <2>8. s.id # 0 => s.evidence[s.id] = "start"
    <3>1. session.id # 0 => session.id \in Nonce \ {intent.n}
      BY <1>0 DEF TypeOK, DiskType, Session, LedgerInv, GroupsDrawn
    <3> QED BY <2>1, <3>1 DEF DocumentInv
  <2>9. \A m, n \in s.groups : m # n => rs[m].ports \cap rs[n].ports = {}
    BY <1>0, <2>1, <2>2 DEF DocumentInv
  <2> QED BY <2>4, <2>5, <2>6, <2>7, <2>8, <2>9 DEF ValidDocument
<1> QED BY <1>4, <1>5

\* Whatever is done and fails, on a TRex that no other controller uses.
LEMMA StartedKept ==
  ASSUME Ledgered, ReconcilesClean, DocumentInv, ~OtherControllers, StartedInv, [Next]_vars
  PROVE  StartedInv'
<1> USE DEF Ledgered, LedgerInv
<1>1. SoleController' /\ TrafficSent' /\ StartClear'
  BY SoleKept, SentKept, ClearKept DEF StartedInv
<1>2. SampleAccounted' /\ Effective'
  BY SampleAccountedKept, EffectiveKept DEF StartedInv
<1>3. RunsWereStarted'
  BY RunsStartedKept DEF StartedInv
<1> QED BY <1>1, <1>2, <1>3 DEF StartedInv

\* What holds where no other controller uses the TRex server.
StartedState == Ledgered /\ ReconcilesClean /\ DocumentInv /\ StartedInv

LEMMA StartedAlways ==
  ASSUME ~OtherControllers
  PROVE  Spec => []StartedState
<1>1. Init => StartedState
  <2> SUFFICES ASSUME Init PROVE StartedState
    OBVIOUS
  <2>1. Ledgered
    BY InitLedger
  <2>2. ReconcilesClean /\ DocumentInv
    BY DEF Init, Idle, ReconcilesClean, DocumentInv, NoSession, NoRun
  <2>3. StartedInv
    BY DEF Init, NoSession, NoIntent, StartedInv, SoleController, TrafficSent, StartClear,
           SampleAccounted, Effective, RunsWereStarted
  <2> QED BY <2>1, <2>2, <2>3 DEF StartedState
<1>2. StartedState /\ [Next]_vars => StartedState'
  <2> SUFFICES ASSUME StartedState, [Next]_vars PROVE StartedState'
    OBVIOUS
  <2>1. Ledgered'
    BY LedgeredKept DEF StartedState
  <2>2. ReconcilesClean' /\ DocumentInv'
    BY <2>1, ReconcilesCleanKept, DocumentInvKept DEF StartedState, Ledgered, LedgerInv
  <2>3. StartedInv'
    BY StartedKept DEF StartedState
  <2> QED BY <2>1, <2>2, <2>3 DEF StartedState
<1> QED BY <1>1, <1>2, PTL DEF Spec

\* A run is recorded only if TRex started it: a promotion follows the RPC, or a recovery that
\* saw its effect, and with no other controller what it saw was that (AdoptStart).
THEOREM RunsAreStarted ==
  ASSUME ~OtherControllers
  PROVE  Spec => []RunsWereStarted
<1>1. StartedState => RunsWereStarted
  BY DEF StartedState, StartedInv
<1> QED BY <1>1, StartedAlways, PTL

\* No promotion is refused by the validator of the document, after all that was done for it
\* and with its intent left pending (_promote_traffic_mutation_intent).
THEOREM PromotionsAccepted ==
  ASSUME ~OtherControllers
  PROVE  Spec => []PromotionAccepted
<1>1. StartedState => PromotionAccepted
  BY PromotionIsAccepted DEF StartedState, StartedInv, Ledgered, PromotionAccepted
<1> QED BY <1>1, StartedAlways, PTL
=============================================================================
