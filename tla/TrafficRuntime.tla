---------------------------- MODULE TrafficRuntime ----------------------------
(***************************************************************************)
(* The traffic authority of the API (apps/api/app/trex/traffic_runtime.py).*)
(* Every mutation of live traffic is written ahead as a durable intent     *)
(* (the WAL), carried out on the TRex server one RPC at a time, and then    *)
(* promoted into the durable traffic session.  The API process may crash   *)
(* between any two steps, an RPC may fail with or without its effect, the  *)
(* TRex process may exit, and another controller may use a free port; a    *)
(* later GET of the traffic runtime recovers what an intent left behind.   *)
(*                                                                         *)
(* One lock (runtime_mutation_fence) serialises the API's operations, so   *)
(* at most one is under way: "task" is its program counter and locals.     *)
(***************************************************************************)
EXTENDS Naturals, FiniteSets

CONSTANTS
  Ports,         \* the configured ports of the TRex server
  Supervisor,    \* "systemd": authority is the daemon generation; "external": the API process
  MaxNonce,      \* bound: mutation nonces the API draws
  MaxAuthority,  \* bound: daemon generations ("systemd") or API processes ("external")
  Targets,       \* the port sets the requests name
  Commands,      \* the session mutations the requests use
  LeaseChoices,  \* hard-stop leases a start may ask for
  OtherControllers, \* whether other controllers start traffic on free ports
  OperatorHolds, \* whether the operator acquires ports through the API
  DiskFaults     \* how a write of the document may fail: before ("no") or after ("unsure")
                 \* the new document replaced the old one

ASSUME SupervisorAssumption == Supervisor \in {"systemd", "external"}
ASSUME BoundsAssumption == MaxNonce \in Nat /\ MaxAuthority \in Nat
ASSUME RequestsAssumption ==
  /\ Targets \subseteq (SUBSET Ports) \ {{}}
  /\ Commands \subseteq {"stop", "pause", "resume", "update"}
  /\ LeaseChoices \subseteq {"none", "armed"}
  /\ OtherControllers \in BOOLEAN
  /\ OperatorHolds \in BOOLEAN
  /\ DiskFaults \subseteq {"no", "unsure"}

VARIABLES
  run,       \* TRex server: live run state of each port
  by,        \* the start nonce whose RPC set the port transmitting, 0 for anyone else
  prog,      \* the stream definitions on each port, by the nonce that added them (0: not the API)
  own,       \* who holds the port
  authority, \* RuntimeAuthorityProvider.current()
  session,   \* durable: traffic_session
  runs,      \* durable: the group records of the session, by run id
  intent,    \* durable: traffic_mutation_intent
  owned,     \* memory: _owned_session_id, 0 for None
  task,      \* memory: the operation that holds the lock
  nonce,     \* the last nonce drawn
  starts,    \* history: how often a start RPC took effect for each nonce
  deltas,    \* history: how often a relative update took effect for each nonce
  held       \* history: the ports an operator acquired and still holds, and those that the
             \* pending intent found acquired and puts back

server == <<run, by, prog, own>>
disk   == <<session, runs, intent>>
memory == <<owned, task>>
history == <<nonce, starts, deltas, held>>
vars == <<server, authority, disk, memory, history>>

Nonce  == 1..MaxNonce
Nonce0 == 0..MaxNonce

LiveState == {"stopped", "running", "paused"}
PortState == LiveState \cup {"unknown"}
Lease     == {"none", "armed", "near", "due"}
Operation == {"start", "stop", "pause", "resume", "update"}

\* _START_STAGE_ORDER: the stages of a start, in the order they are reached
Stage == {"prepared", "acquire_intent", "acquired", "streams_remove_intent",
          "streams_removed", "profile_add_intent", "profile_added", "start_intent",
          "start_returned"}

Order(stage) ==
  CASE stage = "prepared"              -> 0
    [] stage = "acquire_intent"        -> 1
    [] stage = "acquired"              -> 2
    [] stage = "streams_remove_intent" -> 3
    [] stage = "streams_removed"       -> 4
    [] stage = "profile_add_intent"    -> 5
    [] stage = "profile_added"         -> 6
    [] stage = "start_intent"          -> 7
    [] stage = "start_returned"        -> 8

-----------------------------------------------------------------------------
(* Durable records *)

NoRun == [ports |-> {}, st |-> [p \in Ports |-> "stopped"], lease |-> "none",
          done |-> "none", stopper |-> 0]

Run == [ports : SUBSET Ports, st : [Ports -> PortState], lease : Lease,
        done : {"none", "observed", "operator_stop", "hard_stop"}, stopper : Nonce0]

NoSession == [id |-> 0, auth |-> 0, groups |-> {}, completed |-> {},
              evidence |-> [n \in Nonce |-> "none"]]

Session == [id : Nonce0, auth : Nat, groups : SUBSET Nonce, completed : SUBSET Nonce,
            evidence : [Nonce -> {"none", "start", "stop", "hard_stop", "other"}]]

NoIntent == [n |-> 0, op |-> "start", phase |-> "prepared", stage |-> "prepared",
             auth |-> 0, expected |-> 0, ports |-> {}, base |-> [p \in Ports |-> "stopped"],
             lease |-> "none", clear |-> FALSE, streams |-> [p \in Ports |-> {}],
             acquired |-> {}, relative |-> FALSE]

Intent == [n : Nonce0, op : Operation, phase : {"prepared", "cleanup_required"},
           stage : Stage, auth : Nat, expected : Nonce0, ports : SUBSET Ports,
           base : [Ports -> LiveState], lease : Lease, clear : BOOLEAN,
           streams : [Ports -> SUBSET Nonce0], acquired : SUBSET Ports, relative : BOOLEAN]

\* _aggregate_port_states and _aggregate_state
Aggregate(states) ==
  IF states = {} THEN "stopped"
  ELSE IF "unknown" \in states THEN "unknown"
  ELSE IF Cardinality(states) = 1 THEN CHOOSE s \in states : TRUE
  ELSE "mixed"

GroupState(r)      == Aggregate({r.st[p] : p \in r.ports})
SessionState(s, rs) == Aggregate({GroupState(rs[n]) : n \in s.groups})

Active(s, rs) == SessionState(s, rs) \in {"running", "paused", "mixed"}

\* the hard_stop_at deadlines of the groups that are not stopped
SessionLeases(s, rs) ==
  {rs[n].lease : n \in {m \in s.groups : GroupState(rs[m]) # "stopped"}} \ {"none"}

\* _session_baseline_failure
BaselineMatches(s, rs, live) ==
  \A n \in s.groups : \A p \in rs[n].ports : live[p] = rs[n].st[p]

\* The state an intent wants on one of its target ports
Desired(i, p) ==
  CASE i.op = "start"  -> "running"
    [] i.op = "resume" -> "running"
    [] i.op = "stop"   -> "stopped"
    [] i.op = "pause"  -> "paused"
    [] i.op = "update" -> i.base[p]

\* _start_stage_at_least
Reached(i, stage) == Order(i.stage) >= Order(stage)

\* The validator of the persisted document: a document it rejects is never written.
ValidDocument(s, rs) ==
  s.id # 0 =>
    /\ \A m, n \in s.groups : m # n => rs[m].ports \cap rs[n].ports = {}
    /\ \A n \in s.groups : (GroupState(rs[n]) = "stopped") <=> (rs[n].done # "none")
    /\ \A n \in s.completed : GroupState(rs[n]) = "stopped" /\ rs[n].done # "none"
    /\ \A n \in s.groups \cup s.completed :
         /\ rs[n].done = "operator_stop" => s.evidence[rs[n].stopper] = "stop"
         /\ rs[n].done = "hard_stop" /\ rs[n].stopper # 0
              => s.evidence[rs[n].stopper] = "hard_stop"
    /\ {n \in Nonce : s.evidence[n] = "start"} = s.groups \cup s.completed
    /\ s.evidence[s.id] = "start"

-----------------------------------------------------------------------------
(* The operation under way *)

\* mode: a new mutation, or the recovery of the intent an earlier one left behind;
\* goal: what the RPCs done under control of the target ports are for;
\* took: the ports this operation acquired;  ok: no step of it failed so far;
\* linked: the client is connected to the TRex process that is up;
\* live, auth: the port states and the authority the snapshot sampled.
Idle == [pc |-> "idle", mode |-> "direct", goal |-> "none", ok |-> TRUE, ports |-> {},
         took |-> {}, linked |-> TRUE, live |-> [p \in Ports |-> "stopped"], auth |-> 0]

Hooks == {"acquire_intent", "acquired", "streams_remove_intent", "streams_removed",
          "profile_add_intent", "profile_added", "start_intent", "start_returned"}
RpcSteps == {"acquire", "preflight", "remove", "add", "start", "command", "release",
             "control", "rollback", "streams", "restore", "verify"}
OtherSteps == {"idle", "guard", "recover", "promote", "retain", "unresolved", "clear",
               "rollover", "reconcile", "retire"}

Step == Hooks \cup RpcSteps \cup OtherSteps
Goal == {"none", "rollback", "normalize", "promote", "clear", "retain", "verify"}

Task == [pc : Step, mode : {"direct", "recovery"}, goal : Goal, ok : BOOLEAN,
         ports : SUBSET Ports, took : SUBSET Ports, linked : BOOLEAN,
         live : [Ports -> LiveState], auth : Nat]

ServerType ==
  /\ run \in [Ports -> LiveState]
  /\ by \in [Ports -> Nonce0]
  /\ prog \in [Ports -> SUBSET Nonce0]
  /\ own \in [Ports -> {"free", "api", "stale", "other"}]
  /\ authority \in Nat
DiskType    == session \in Session /\ runs \in [Nonce -> Run] /\ intent \in Intent
MemoryType  == owned \in Nonce0 /\ task \in Task
HistoryType == /\ nonce \in Nonce0 /\ held \in SUBSET Ports
               /\ starts \in [Nonce -> Nat] /\ deltas \in [Nonce -> Nat]

TypeOK == ServerType /\ DiskType /\ MemoryType /\ HistoryType

Init ==
  /\ run = [p \in Ports |-> "stopped"]
  /\ by = [p \in Ports |-> 0]
  /\ prog \in [Ports -> {{}, {0}}]
  /\ own = [p \in Ports |-> "free"]
  /\ authority = 1
  /\ session = NoSession
  /\ runs = [n \in Nonce |-> NoRun]
  /\ intent = NoIntent
  /\ owned = 0
  /\ task = Idle
  /\ nonce = 0
  /\ starts = [n \in Nonce |-> 0]
  /\ deltas = [n \in Nonce |-> 0]
  /\ held = {}

Goto(pc) == task' = [task EXCEPT !.pc = pc]

\* (mutant of Failed: a failed mutation takes its intent back)
FailedForgets == IF task.mode = "direct" THEN "clear" ELSE "unresolved"

\* Where an operation ends that failed: a mutation keeps its intent for cleanup,
\* a recovery also gives up the session.
Failed == IF task.mode = "direct" THEN "retain" ELSE "unresolved"

\* RuntimeStateStore.update: the document is replaced; or it raises before the rename,
\* or after it (the fsync of the directory fails).
Saved == {"yes"} \cup DiskFaults

Persist(saved, s, rs, i) ==
  IF saved = "no" THEN UNCHANGED disk ELSE session' = s /\ runs' = rs /\ intent' = i

\* An RPC on the ports T succeeds on all of them, or fails with its effect on some.
\* It has no effect on a TRex process other than the one the client is connected to,
\* and it is not sent for no ports.
Outcomes(T) ==
  {o \in [done : SUBSET T, ok : BOOLEAN] :
     /\ o.ok => o.done = T
     /\ T = {} => o.ok
     /\ T # {} /\ ~task.linked => o.done = {} /\ ~o.ok}

-----------------------------------------------------------------------------
(* Preparing a mutation: the guards, and the write-ahead intent *)

Prepare(i, pc) ==
  /\ nonce' = nonce + 1
  /\ \E saved \in Saved \ {"no"} :
       /\ Persist(saved, session, runs, i)
       /\ task' = IF saved = "yes" THEN [Idle EXCEPT !.pc = pc, !.ports = i.ports] ELSE Idle
  /\ UNCHANGED <<server, authority, owned, starts, deltas, held>>

Ready == task.pc = "idle" /\ intent.n = 0 /\ nonce < MaxNonce

\* (mutant of NewIntent: a baseline with ports that could not be sampled)
UnsampledIntent(op, T) ==
  [NoIntent EXCEPT !.n = nonce + 1, !.op = op, !.auth = authority, !.ports = T,
                   !.base = [p \in Ports |-> "unknown"],
                   !.acquired = {p \in T : own[p] = "api"}]

NewIntent(op, T) ==
  [NoIntent EXCEPT !.n = nonce + 1, !.op = op, !.auth = authority, !.ports = T,
                   !.base = run, !.acquired = {p \in T : own[p] = "api"}]

\* A start that opens a session (expect = 0) or joins the active one.
PrepareStart(T, expect, clear, lease) ==
  /\ Ready
  /\ IF expect = 0 THEN SessionState(session, runs) = "stopped"
     ELSE /\ session.id = expect /\ owned = expect /\ session.auth = authority
          /\ Active(session, runs)
          /\ BaselineMatches(session, runs, run)
  /\ \A n \in session.groups : runs[n].ports \cap T # {} => GroupState(runs[n]) = "stopped"
  /\ SessionLeases(session, runs) \subseteq {"armed"}
  /\ \A p \in T : run[p] = "stopped"
  /\ Prepare([NewIntent("start", T) EXCEPT !.expected = expect, !.clear = clear,
                                           !.lease = lease],
             "acquire_intent")

\* The leases whose ports a stop of T does not wholly cover, and every lease for
\* another mutation: its deadline must leave time for the RPCs.
GuardedLeases(op, T) ==
  LET active(n) == {p \in runs[n].ports : runs[n].st[p] \in {"running", "paused"}}
      leased == {n \in session.groups : GroupState(runs[n]) # "stopped"}
      guarded == {n \in leased : op = "stop" => ~(active(n) \subseteq T)}
  IN {runs[n].lease : n \in guarded} \ {"none"}

\* Stop, pause, resume and update of ports of the managed session.
PrepareMutation(op, T, relative) ==
  /\ Ready
  /\ session.id # 0 /\ session.auth = authority /\ owned = session.id
  /\ Active(session, runs)
  /\ T \subseteq UNION {runs[n].ports : n \in session.groups}
  /\ op = "update" => \A n \in session.groups :
                        runs[n].ports \cap T = {} \/ runs[n].ports \subseteq T
  /\ GuardedLeases(op, T) \subseteq {"armed"}
  /\ BaselineMatches(session, runs, run)
  /\ Prepare([NewIntent(op, T) EXCEPT !.expected = session.id, !.relative = relative],
             "guard")

\* The lease budget is read once more between the intent and the RPC.
GuardPasses ==
  /\ task.pc = "guard"
  /\ "due" \notin GuardedLeases(intent.op, intent.ports)
  /\ Goto("acquire")
  /\ UNCHANGED <<server, authority, disk, owned, history>>

GuardExpires ==
  /\ task.pc = "guard"
  /\ GuardedLeases(intent.op, intent.ports) \cap {"near", "due"} # {}
  /\ intent' \in {intent, [intent EXCEPT !.phase = "cleanup_required"]}
  /\ Goto("clear")
  /\ UNCHANGED <<server, authority, session, runs, owned, history>>

-----------------------------------------------------------------------------
(* The durable stages of a start, each persisted by a hook before or after an RPC *)

Budgeted == {"acquire_intent", "acquired", "streams_remove_intent", "profile_add_intent",
             "start_intent"}

Deadlines == SessionLeases(session, runs) \cup ({intent.lease} \ {"none"})

\* A stage is never taken back: a replay passes the stages its intent has reached.
Advanced(i, stage) ==
  IF Order(stage) < Order(i.stage) THEN i
  ELSE IF stage # "acquired" THEN [i EXCEPT !.stage = stage]
  ELSE [i EXCEPT !.stage = stage,
                 !.streams = [p \in Ports |-> IF p \in i.ports THEN prog[p] ELSE {}]]

AfterHook ==
  CASE task.pc = "acquire_intent"        -> "acquire"
    [] task.pc = "acquired"              -> "preflight"
    [] task.pc = "streams_remove_intent" -> "remove"
    [] task.pc = "streams_removed"       -> "profile_add_intent"
    [] task.pc = "profile_add_intent"    -> "add"
    [] task.pc = "profile_added"         -> "start_intent"
    [] task.pc = "start_intent"          -> "start"
    [] task.pc = "start_returned"        -> "release"

\* _advance_start_intent_stage
AdvanceStage ==
  /\ task.pc \in Hooks
  /\ task.pc \in Budgeted /\ (task.pc = "acquired" \/ ~Reached(intent, task.pc))
       => "due" \notin Deadlines
  /\ task.pc = "acquired" => task.linked
  /\ intent' = Advanced(intent, task.pc)
  /\ Goto(AfterHook)
  /\ UNCHANGED <<server, authority, session, runs, owned, history>>

\* The lease budget is short, the streams cannot be sampled or the write fails.
StageFails ==
  /\ task.pc \in Hooks
  /\ intent' \in {intent, Advanced(intent, task.pc)}
  /\ task' = IF task.pc = "acquire_intent" THEN [task EXCEPT !.pc = Failed]
             ELSE [task EXCEPT !.pc = "release", !.ok = FALSE]
  /\ UNCHANGED <<server, authority, session, runs, owned, history>>

-----------------------------------------------------------------------------
(* The RPCs of a mutation: acquire, the operation itself, release (finally) *)

Grant(T, who) == own' = [p \in Ports |-> IF p \in T THEN who ELSE own[p]]

\* After an RPC under the "finally": the next step, or the release of the ports.
Under(ok, pc) == task' = IF ok THEN [task EXCEPT !.pc = pc]
                         ELSE [task EXCEPT !.pc = "release", !.ok = FALSE]

\* Not forced: a port another client holds fails the RPC, and the ports it did
\* acquire stay acquired.
Acquire ==
  /\ task.pc = "acquire"
  /\ LET missing == {p \in task.ports : own[p] # "api"} IN
     \E o \in Outcomes(missing) :
       /\ \A p \in o.done : own[p] = "free"
       /\ Grant(o.done, "api")
       /\ task' = IF o.ok THEN [task EXCEPT !.pc = IF intent.op = "start" THEN "acquired"
                                                   ELSE "command",
                                            !.took = missing]
                  ELSE [task EXCEPT !.pc = Failed]
  /\ UNCHANGED <<run, by, prog, authority, disk, owned, history>>

Preflight ==
  /\ task.pc = "preflight"
  /\ \E ok \in BOOLEAN :
       /\ ok => task.linked /\ \A p \in task.ports : run[p] = "stopped"
       /\ Under(ok, IF intent.clear THEN "streams_remove_intent" ELSE "profile_add_intent")
  /\ UNCHANGED <<server, authority, disk, owned, history>>

RemoveStreams ==
  /\ task.pc = "remove"
  /\ \E o \in Outcomes(task.ports) :
       /\ prog' = [p \in Ports |-> IF p \in o.done THEN {} ELSE prog[p]]
       /\ Under(o.ok, "streams_removed")
  /\ UNCHANGED <<run, by, own, authority, disk, owned, history>>

AddProfile ==
  /\ task.pc = "add"
  /\ \E o \in Outcomes(task.ports) :
       /\ prog' = [p \in Ports |-> IF p \in o.done THEN prog[p] \cup {intent.n} ELSE prog[p]]
       /\ Under(o.ok, "profile_added")
  /\ UNCHANGED <<run, by, own, authority, disk, owned, history>>

\* TRex refuses to start a port that is not stopped.
StartTraffic ==
  /\ task.pc = "start"
  /\ \E o \in Outcomes(task.ports) :
       /\ \A p \in o.done : run[p] = "stopped"
       /\ run' = [p \in Ports |-> IF p \in o.done THEN "running" ELSE run[p]]
       /\ by' = [p \in Ports |-> IF p \in o.done THEN intent.n ELSE by[p]]
       /\ starts' = [starts EXCEPT ![intent.n] = IF o.done = {} THEN @ ELSE @ + 1]
       /\ Under(o.ok, "start_returned")
  /\ UNCHANGED <<prog, own, authority, disk, owned, nonce, deltas, held>>

\* TRex stops a port in any state, pauses a running one, resumes a paused one and
\* changes the rate of a running one.
Accepts(op) ==
  CASE op = "stop"   -> LiveState
    [] op = "pause"  -> {"running"}
    [] op = "resume" -> {"paused"}
    [] op = "update" -> {"running"}

Stopped(T) ==
  /\ run' = [p \in Ports |-> IF p \in T THEN "stopped" ELSE run[p]]
  /\ by' = [p \in Ports |-> IF p \in T THEN 0 ELSE by[p]]

Command ==
  /\ task.pc = "command"
  /\ \E o \in Outcomes(task.ports) :
       /\ \A p \in o.done : run[p] \in Accepts(intent.op)
       /\ CASE intent.op = "stop"   -> Stopped(o.done)
            [] intent.op = "update" -> UNCHANGED <<run, by>>
            [] OTHER -> /\ run' = [p \in Ports |-> IF p \in o.done THEN Desired(intent, p)
                                                   ELSE run[p]]
                        /\ UNCHANGED by
       /\ deltas' = [deltas EXCEPT ![intent.n] =
                       IF intent.relative /\ o.done # {} THEN @ + 1 ELSE @]
       /\ task' = [task EXCEPT !.pc = "release", !.ok = o.ok]
  /\ UNCHANGED <<prog, own, authority, disk, owned, nonce, starts, held>>

\* A new mutation is promoted next; a recovery restores the acquisition baseline
\* first, and verifies a retried action before that.
AfterOperation ==
  IF task.mode = "direct" THEN [task EXCEPT !.pc = "promote"]
  ELSE CASE intent.op = "start"  -> [task EXCEPT !.pc = "control", !.goal = "verify"]
         [] intent.op = "update" -> [task EXCEPT !.pc = "control", !.goal = "promote"]
         [] OTHER                -> [task EXCEPT !.pc = "verify", !.goal = "none"]

\* (mutant of Release: the outcome of the operation is lost in the "finally")
ReleaseForgets ==
  /\ task.pc = "release"
  /\ \E o \in Outcomes(task.took) :
       /\ Grant({p \in o.done : own[p] = "api"}, "free")
       /\ task' = IF o.ok THEN AfterOperation ELSE [task EXCEPT !.pc = Failed]
  /\ UNCHANGED <<run, by, prog, authority, disk, owned, history>>

Release ==
  /\ task.pc = "release"
  /\ \E o \in Outcomes(task.took) :
       /\ Grant({p \in o.done : own[p] = "api"}, "free")
       /\ task' = IF o.ok /\ task.ok THEN AfterOperation ELSE [task EXCEPT !.pc = Failed]
  /\ UNCHANGED <<run, by, prog, authority, disk, owned, history>>

-----------------------------------------------------------------------------
(* _with_mutation_ports_controlled: acquire what is missing, act, and put back the *)
(* acquisition the intent found                                                    *)

Control ==
  /\ task.pc = "control"
  /\ \E o \in Outcomes({p \in intent.ports : own[p] # "api"}) :
       /\ \A p \in o.done : own[p] = "free"
       /\ Grant(o.done, "api")
       /\ task' = IF ~o.ok THEN [task EXCEPT !.pc = Failed]
                  ELSE [task EXCEPT !.ok = TRUE,
                                    !.pc = CASE task.goal = "rollback"  -> "rollback"
                                             [] task.goal = "normalize" -> "streams"
                                             [] OTHER                   -> "restore"]
  /\ UNCHANGED <<run, by, prog, authority, disk, owned, history>>

ThenRestore(ok) == task' = [task EXCEPT !.pc = "restore", !.ok = ok]

\* _rollback_failed_start: stop what is active on the target ports ...
RollbackTraffic ==
  /\ task.pc = "rollback"
  /\ \E o \in Outcomes({p \in intent.ports : run[p] # "stopped"}) :
       /\ Stopped(o.done)
       /\ \/ /\ o.ok /\ task.linked
             /\ \A p \in intent.ports : run'[p] = intent.base[p]
             /\ Goto("streams")
          \/ ThenRestore(FALSE)
  /\ UNCHANGED <<prog, own, authority, disk, owned, history>>

\* (mutant of RestoreStreams: the profile is left on the ports)
StreamsLeft ==
  /\ task.pc = "streams"
  /\ ThenRestore(TRUE)
  /\ UNCHANGED <<run, by, prog, own, authority, disk, owned, history>>

\* ... and its streams are those the intent recorded; what it removed cannot be rebuilt.
RestoreStreams ==
  LET T == intent.ports
      touched == Reached(intent, "streams_remove_intent")
      changed == {p \in T : prog[p] # intent.streams[p]}
      restorable ==
        IF ~touched THEN Reached(intent, "acquired") => changed = {}
        ELSE IF intent.clear THEN \A p \in T : intent.streams[p] = {}
        ELSE \A p \in T : intent.streams[p] \subseteq prog[p]
      dirty == IF touched /\ restorable THEN changed ELSE {}
  IN /\ task.pc = "streams"
     /\ \E o \in Outcomes(dirty) :
          /\ prog' = [p \in Ports |-> IF p \in o.done THEN intent.streams[p] ELSE prog[p]]
          /\ \E ok \in BOOLEAN :
               /\ ok => o.ok /\ restorable /\ task.linked
               /\ ThenRestore(ok)
     /\ UNCHANGED <<run, by, own, authority, disk, owned, history>>

\* (mutant of AfterControl: a rollback starts over instead of being verified)
AfterControlLoops ==
  CASE task.goal = "rollback"  -> "control"
    [] task.goal = "verify"    -> "verify"
    [] task.goal = "normalize" -> "acquire_intent"
    [] task.goal = "promote"   -> "promote"
    [] task.goal = "clear"     -> "clear"
    [] OTHER                   -> "unresolved"

AfterControl ==
  CASE task.goal = "rollback"  -> "verify"
    [] task.goal = "verify"    -> "verify"
    [] task.goal = "normalize" -> "acquire_intent"
    [] task.goal = "promote"   -> "promote"
    [] task.goal = "clear"     -> "clear"
    [] OTHER                   -> "unresolved"

\* (mutant of RestoreAcquisition: the recovery keeps the ports)
AcquisitionKept ==
  /\ task.pc = "restore"
  /\ Goto(IF task.ok THEN AfterControl ELSE Failed)
  /\ UNCHANGED <<server, authority, disk, owned, history>>

RestoreAcquisition ==
  /\ task.pc = "restore"
  /\ \E o \in Outcomes({p \in intent.ports \ intent.acquired : own[p] = "api"}) :
       /\ Grant(o.done, "free")
       /\ LET kept == {p \in intent.ports : own'[p] = "api"} IN
          Goto(IF o.ok /\ task.ok /\ kept = intent.acquired THEN AfterControl ELSE Failed)
  /\ UNCHANGED <<run, by, prog, authority, disk, owned, history>>

\* A fresh sample of every configured port, which may be unavailable.
Verify ==
  /\ task.pc = "verify"
  /\ LET wanted(p) == IF task.goal # "rollback" /\ p \in intent.ports THEN Desired(intent, p)
                      ELSE intent.base[p]
     IN \/ /\ task.linked
           /\ \A p \in Ports : run[p] = wanted(p)
           /\ task' = [task EXCEPT !.live = run,
                         !.pc = CASE task.goal = "rollback" -> "clear"
                                  [] task.goal = "verify"   -> "promote"
                                  [] OTHER                  -> "control",
                         !.goal = IF @ = "none" THEN "promote" ELSE @]
        \/ Goto("unresolved")
  /\ UNCHANGED <<server, authority, disk, owned, history>>

-----------------------------------------------------------------------------
(* The ends of an operation: what they persist *)

\* _promote_traffic_mutation_intent, for a start
StartedRuns(i) ==
  [n \in Nonce |-> IF n = i.n
                   THEN [NoRun EXCEPT !.ports = i.ports, !.lease = i.lease,
                           !.st = [p \in Ports |-> IF p \in i.ports THEN "running"
                                                   ELSE "stopped"]]
                   ELSE IF i.expected # 0 THEN runs[n] ELSE NoRun]

\* (mutant of StartedSession: the replaced groups are not kept as completed)
StartedSessionForgets(i) ==
  IF i.expected = 0
  THEN [NoSession EXCEPT !.id = i.n, !.auth = i.auth, !.groups = {i.n},
                         !.evidence[i.n] = "start"]
  ELSE LET replaced == {n \in session.groups : runs[n].ports \cap i.ports # {}} IN
       [session EXCEPT !.groups = (@ \ replaced) \cup {i.n},
                       !.evidence = [n \in Nonce |-> IF n \in replaced THEN "none"
                                                     ELSE IF n = i.n THEN "start" ELSE @[n]]]

StartedSession(i) ==
  LET replaced == {n \in session.groups : runs[n].ports \cap i.ports # {}} IN
  IF i.expected = 0
  THEN [NoSession EXCEPT !.id = i.n, !.auth = i.auth, !.groups = {i.n},
                         !.evidence[i.n] = "start"]
  ELSE [session EXCEPT !.groups = (@ \ replaced) \cup {i.n},
                       !.completed = @ \cup replaced, !.evidence[i.n] = "start"]

StartPromotable(i) ==
  IF i.expected = 0 THEN SessionState(session, runs) = "stopped"
  ELSE /\ session.id = i.expected /\ owned = session.id /\ session.auth = i.auth
       /\ Active(session, runs)
       /\ \A n \in session.groups :
            runs[n].ports \cap i.ports # {} => GroupState(runs[n]) = "stopped"

\* ... and for the other mutations: a group that ends up stopped is closed.
\* (mutant of MutatedRun: a group that ends up stopped is not closed)
UnclosedRun(i, r) ==
  LET st == [p \in Ports |-> IF p \in r.ports \cap i.ports THEN Desired(i, p) ELSE r.st[p]]
  IN [r EXCEPT !.st = st]

\* (mutant of MutatedRun: any stop or pause drops the lease)
UnleasedRun(i, r) ==
  LET st == [p \in Ports |-> IF p \in r.ports \cap i.ports THEN Desired(i, p) ELSE r.st[p]]
      stopped == GroupState([r EXCEPT !.st = st]) = "stopped"
  IN [r EXCEPT !.st = st,
               !.lease = IF i.op \in {"stop", "pause"} THEN "none" ELSE @,
               !.done = IF stopped /\ @ = "none" THEN "operator_stop" ELSE @,
               !.stopper = IF stopped /\ r.done = "none" THEN i.n ELSE @]

MutatedRun(i, r) ==
  LET st == [p \in Ports |-> IF p \in r.ports \cap i.ports THEN Desired(i, p) ELSE r.st[p]]
      stopped == GroupState([r EXCEPT !.st = st]) = "stopped"
  IN [r EXCEPT !.st = st,
               !.lease = IF stopped THEN "none" ELSE @,
               !.done = IF stopped /\ @ = "none" THEN "operator_stop" ELSE @,
               !.stopper = IF stopped /\ r.done = "none" THEN i.n ELSE @]

MutatedRuns(i) ==
  IF i.op = "update" THEN runs
  ELSE [n \in Nonce |-> IF n \in session.groups THEN MutatedRun(i, runs[n]) ELSE runs[n]]

MutatedSession(i) ==
  [session EXCEPT !.evidence[i.n] = IF i.op = "stop" THEN "stop" ELSE "other"]

Promotable(i) ==
  IF i.op = "start" THEN StartPromotable(i)
  ELSE session.id = i.expected /\ owned = session.id /\ session.auth = i.auth

PromotedRuns(i)    == IF i.op = "start" THEN StartedRuns(i) ELSE MutatedRuns(i)
PromotedSession(i) == IF i.op = "start" THEN StartedSession(i) ELSE MutatedSession(i)

\* Where an operation that wrote the document goes on, and one that could not.
Written   == IF task.mode = "direct" THEN Idle ELSE [task EXCEPT !.pc = "reconcile"]
Unwritten == IF task.mode = "direct" THEN [task EXCEPT !.pc = "retain"] ELSE Idle

\* A new mutation also requires the authority it was prepared under.
Authorised(i) == task.mode = "direct" => authority = i.auth

\* (mutant of Promote: the process does not learn which session it owns)
PromoteForgets ==
  LET s == PromotedSession(intent)
      rs == PromotedRuns(intent)
  IN /\ task.pc = "promote"
     /\ Authorised(intent) /\ Promotable(intent) /\ ValidDocument(s, rs)
     /\ session' = s /\ runs' = rs /\ intent' = NoIntent
     /\ task' = Written
     /\ UNCHANGED <<server, authority, owned, history>>

\* A document the validator rejects is not written, and the error passes the handler
\* that would keep the intent for cleanup.
Promote ==
  LET s == PromotedSession(intent)
      rs == PromotedRuns(intent)
  IN /\ task.pc = "promote"
     /\ Authorised(intent) /\ Promotable(intent)
     /\ IF ~ValidDocument(s, rs) THEN task' = Idle /\ UNCHANGED <<disk, owned>>
        ELSE \E saved \in Saved :
               /\ Persist(saved, s, rs, NoIntent)
               /\ owned' = IF saved # "yes" THEN owned
                           ELSE IF SessionState(s, rs) = "stopped" THEN 0 ELSE s.id
               /\ task' = IF saved = "yes" THEN Written ELSE Unwritten
     /\ UNCHANGED <<server, authority, history>>

PromotionRefused ==
  /\ task.pc = "promote"
  /\ ~Authorised(intent) \/ ~Promotable(intent)
  /\ task' = Unwritten
  /\ UNCHANGED <<server, authority, disk, owned, history>>

\* _retain_failed_mutation_intent, best effort; unresolved() also disowns the session.
Retain ==
  /\ task.pc \in {"retain", "unresolved"}
  /\ intent' \in {intent, [intent EXCEPT !.phase = IF intent.n = 0 THEN @
                                                  ELSE "cleanup_required"]}
  /\ owned' = IF task.pc = "unresolved" THEN 0 ELSE owned
  /\ task' = Idle
  /\ UNCHANGED <<server, authority, session, runs, history>>

\* _clear_traffic_mutation_intent
Clear ==
  /\ task.pc = "clear"
  /\ \E saved \in Saved :
       /\ Persist(saved, session, runs, NoIntent)
       /\ task' = IF saved = "yes" THEN Written ELSE Idle
  /\ UNCHANGED <<server, authority, owned, history>>

\* Every group of the session ends stopped, as observed when nothing closed it before.
Closed(s, rs) ==
  [n \in Nonce |-> IF n \in s.groups
                   THEN [rs[n] EXCEPT !.st = NoRun.st, !.lease = "none",
                                      !.done = IF @ = "none" THEN "observed" ELSE @]
                   ELSE rs[n]]

\* _retire_mutation_intent_after_generation_rollover
RetireAfterRollover ==
  /\ task.pc = "rollover"
  /\ \E saved \in Saved :
       /\ Persist(saved, session,
                  IF session.auth = intent.auth THEN Closed(session, runs) ELSE runs,
                  NoIntent)
       /\ owned' = IF saved = "yes" THEN 0 ELSE owned
       /\ task' = IF saved = "yes" THEN [task EXCEPT !.pc = "reconcile"] ELSE Idle
  /\ UNCHANGED <<server, authority, history>>

-----------------------------------------------------------------------------
(* snapshot(): sample, recover the pending intent, then adopt and reconcile *)

\* (mutant of Snapshot: the session is reconciled while an intent is pending)
SnapshotReconciles ==
  /\ task.pc = "idle"
  /\ session.id # 0 \/ intent.n # 0
  /\ task' = [Idle EXCEPT !.pc = "reconcile", !.mode = "recovery", !.live = run,
                          !.auth = authority]
  /\ UNCHANGED <<server, authority, disk, owned, history>>

Snapshot ==
  /\ task.pc = "idle"
  /\ session.id # 0 \/ intent.n # 0
  /\ task' = [Idle EXCEPT !.pc = IF intent.n = 0 THEN "reconcile" ELSE "recover",
                          !.mode = "recovery", !.live = run, !.auth = authority]
  /\ UNCHANGED <<server, authority, disk, owned, history>>

\* _adopt_managed_session: only a live state that agrees with every group is adopted.
Adoptable ==
  /\ owned = 0 /\ Supervisor = "systemd" /\ session.auth = task.auth
  /\ \A n \in session.groups :
       /\ \A p \in runs[n].ports : runs[n].st[p] # "unknown"
  /\ BaselineMatches(session, runs, task.live)
  /\ \E n \in session.groups : \E p \in runs[n].ports : runs[n].st[p] # "stopped"

\* (mutant of ReconciledRun: traffic that cannot be attributed counts as stopped)
RunWrittenOff(r, vouches) ==
  LET st == [p \in Ports |-> IF vouches /\ p \in r.ports THEN task.live[p] ELSE "stopped"]
      stopped == GroupState([r EXCEPT !.st = st]) = "stopped"
  IN [r EXCEPT !.st = st,
               !.lease = IF stopped THEN "none" ELSE @,
               !.done = IF stopped /\ @ = "none" THEN "observed" ELSE @]

\* _reconcile_session: a closed run is terminal; the API vouches for the state of a
\* session it owns, and otherwise only for ports that are stopped.
ReconciledRun(r, vouches) ==
  LET seen(p) == IF p \notin r.ports \/ r.done # "none" \/ task.live[p] = "stopped"
                 THEN "stopped"
                 ELSE IF vouches THEN task.live[p] ELSE "unknown"
      st == [p \in Ports |-> seen(p)]
      stopped == GroupState([r EXCEPT !.st = st]) = "stopped"
  IN [r EXCEPT !.st = st,
               !.lease = IF stopped THEN "none" ELSE @,
               !.done = IF stopped /\ @ = "none" THEN "observed" ELSE @]

Reconcile ==
  LET adopted == IF Adoptable THEN session.id ELSE owned
      owner == IF session.auth = task.auth THEN adopted ELSE 0
      vouches == session.auth = task.auth /\ owner = session.id
      rs == [n \in Nonce |-> IF n \in session.groups THEN ReconciledRun(runs[n], vouches)
                             ELSE runs[n]]
  IN /\ task.pc = "reconcile"
     /\ IF session.id = 0 THEN UNCHANGED <<disk, owned>>
        ELSE \E saved \in Saved :
               /\ Persist(saved, session, rs, intent)
               /\ owned' = IF saved = "yes" /\ SessionState(session, rs) = "stopped" THEN 0
                          ELSE owner
     /\ task' = Idle
     /\ UNCHANGED <<server, authority, history>>

-----------------------------------------------------------------------------
(* _recover_traffic_mutation_intent, for the sample in task.live *)

AtBase == \A p \in intent.ports : task.live[p] = intent.base[p]
AtGoal == \A p \in intent.ports : task.live[p] = Desired(intent, p)
Attributable == \A p \in intent.ports : task.live[p] \in {intent.base[p], Desired(intent, p)}

Undisturbed == \A p \in Ports \ intent.ports : task.live[p] = intent.base[p]
SessionRecoverable == intent.expected # 0 =>
  session.id = intent.expected /\ session.auth = task.auth /\ Active(session, runs)

Recoverable == /\ intent.auth = task.auth
               /\ "due" \notin SessionLeases(session, runs)
               /\ Undisturbed /\ SessionRecoverable

Recovering(op) ==
  /\ task.pc = "recover" /\ Recoverable /\ intent.op \in op
  /\ owned' = IF intent.expected # 0 THEN session.id ELSE owned
  /\ UNCHANGED <<server, authority, disk, history>>

Controlled(goal) == task' = [task EXCEPT !.pc = "control", !.goal = goal]

\* (mutant of RecoverForeign: a new API process counts as a new daemon)
RecoverForeignRetires ==
  /\ task.pc = "recover" /\ intent.auth # task.auth
  /\ Goto("rollover")
  /\ UNCHANGED <<server, authority, disk, owned, history>>

RecoverForeign ==
  /\ task.pc = "recover" /\ intent.auth # task.auth
  /\ Goto(IF Supervisor = "systemd" THEN "rollover" ELSE "unresolved")
  /\ UNCHANGED <<server, authority, disk, owned, history>>

\* A due lease has priority: only the reaper may act before the pending intent.
RecoverYields ==
  /\ task.pc = "recover" /\ intent.auth = task.auth
  /\ "due" \in SessionLeases(session, runs)
  /\ task' = Idle
  /\ UNCHANGED <<server, authority, disk, owned, history>>

RecoverUnsafe ==
  /\ task.pc = "recover" /\ intent.auth = task.auth
  /\ "due" \notin SessionLeases(session, runs)
  /\ ~(Undisturbed /\ SessionRecoverable)
  /\ Goto("unresolved")
  /\ UNCHANGED <<server, authority, disk, owned, history>>

ToRollBack == intent.phase = "cleanup_required" \/ intent.lease = "due"

RollBackStart ==
  /\ Recovering({"start"}) /\ ToRollBack
  /\ Controlled("rollback")

AdoptStart ==
  /\ Recovering({"start"}) /\ ~ToRollBack /\ AtGoal
  /\ IF Reached(intent, "start_intent") THEN Controlled("promote") ELSE Goto("unresolved")

\* (mutant of ReplayStart: the start RPC may have been sent)
ReplayAnyStart ==
  /\ Recovering({"start"}) /\ ~ToRollBack /\ AtBase
  /\ LET replay == [task EXCEPT !.ports = intent.ports] IN
     IF intent.clear \/ ~Reached(intent, "profile_add_intent")
     THEN task' = [replay EXCEPT !.pc = "acquire_intent"]
     ELSE task' = [replay EXCEPT !.pc = "control", !.goal = "normalize"]

\* Once the start RPC may have been sent, stopped ports may be a run that is over.
ReplayStart ==
  /\ Recovering({"start"}) /\ ~ToRollBack /\ AtBase
  /\ ~Reached(intent, "start_intent")
  /\ LET replay == [task EXCEPT !.ports = intent.ports] IN
     IF intent.clear \/ ~Reached(intent, "profile_add_intent")
     THEN task' = [replay EXCEPT !.pc = "acquire_intent"]
     ELSE task' = [replay EXCEPT !.pc = "control", !.goal = "normalize"]

\* ... nor is a start replayed whose profile changed.
AbandonStart ==
  /\ Recovering({"start"}) /\ ~ToRollBack /\ ~AtGoal
  /\ Goto("unresolved")

\* (mutant of RecoverUpdate: a relative update is sent again)
ReplayAnyUpdate ==
  /\ Recovering({"update"})
  /\ IF ~AtBase THEN Goto("unresolved")
     ELSE IF intent.phase = "cleanup_required" THEN Controlled("retain")
     ELSE task' = [task EXCEPT !.pc = "acquire", !.ports = intent.ports]

RecoverUpdate ==
  /\ Recovering({"update"})
  /\ IF ~AtBase THEN Goto("unresolved")
     ELSE IF intent.phase = "cleanup_required" \/ intent.relative THEN Controlled("retain")
     ELSE task' = [task EXCEPT !.pc = "acquire", !.ports = intent.ports]

AdoptAction ==
  /\ Recovering({"stop", "pause", "resume"}) /\ AtGoal
  /\ Controlled("promote")

ClearAction ==
  /\ Recovering({"stop", "pause", "resume"}) /\ ~AtGoal /\ AtBase
  /\ Controlled("clear")

RetryAction ==
  /\ Recovering({"stop", "pause", "resume"}) /\ ~AtGoal /\ ~AtBase
  /\ IF ~Attributable THEN Goto("unresolved")
     ELSE IF intent.phase = "cleanup_required" THEN Controlled("retain")
     ELSE LET rest == {p \in intent.ports : task.live[p] # Desired(intent, p)} IN
          task' = [task EXCEPT !.pc = "acquire", !.ports = rest]

-----------------------------------------------------------------------------
(* Stopping TRex through the API *)

\* The TRex process is gone: no port transmits, holds streams or has an owner.
HardwareReset ==
  /\ run' = [p \in Ports |-> "stopped"]
  /\ by' = [p \in Ports |-> 0]
  /\ prog' = [p \in Ports |-> {}]
  /\ own' = [p \in Ports |-> "free"]
  /\ held' = held \cap intent.acquired

StopTrex ==
  /\ task.pc = "idle"
  /\ HardwareReset
  /\ Goto("retire")
  /\ UNCHANGED <<authority, disk, owned, nonce, starts, deltas>>

\* retire_after_trex_termination
RetireAfterTermination ==
  /\ task.pc = "retire"
  /\ \E saved \in Saved :
       /\ Persist(saved, session, Closed(session, runs), NoIntent)
       /\ owned' = IF saved = "yes" THEN 0 ELSE owned
  /\ task' = Idle
  /\ UNCHANGED <<server, authority, history>>

-----------------------------------------------------------------------------
(* What happens around the API *)

Crash ==
  /\ Supervisor = "external" => authority < MaxAuthority
  /\ authority' = IF Supervisor = "external" THEN authority + 1 ELSE authority
  /\ own' = [p \in Ports |-> IF own[p] = "api" THEN "stale" ELSE own[p]]
  /\ owned' = 0
  /\ task' = Idle
  /\ UNCHANGED <<run, by, prog, disk, history>>

\* TRex exits, with its daemon or alone.
TrexExit ==
  /\ authority' \in IF Supervisor = "systemd" /\ authority < MaxAuthority
                    THEN {authority, authority + 1} ELSE {authority}
  /\ HardwareReset
  /\ task' = IF task.pc = "idle" THEN task ELSE [task EXCEPT !.linked = FALSE]
  /\ UNCHANGED <<disk, owned, nonce, starts, deltas>>

\* A run of finite duration is over.
TrafficEnds(p) ==
  /\ run[p] = "running"
  /\ Stopped({p})
  /\ UNCHANGED <<prog, own, authority, disk, memory, history>>

\* TRex drops the handler of an API process that is gone.
HandlerExpires(p) ==
  /\ own[p] = "stale"
  /\ Grant({p}, "free")
  /\ UNCHANGED <<run, by, prog, authority, disk, memory, history>>

\* Another controller takes a port and sends its own traffic, and gives it back.
ExternalTraffic(p) ==
  /\ OtherControllers /\ own[p] = "free" /\ run[p] = "stopped"
  /\ Grant({p}, "other")
  /\ run' = [run EXCEPT ![p] = "running"]
  /\ UNCHANGED <<by, prog, authority, disk, memory, history>>

ExternalRelease(p) ==
  /\ own[p] = "other"
  /\ Grant({p}, "free")
  /\ Stopped({p})
  /\ UNCHANGED <<prog, authority, disk, memory, history>>

\* The operator acquires a port through the API, and releases it.
OperatorAcquires(p) ==
  /\ OperatorHolds /\ task.pc = "idle" /\ own[p] = "free"
  /\ Grant({p}, "api")
  /\ held' = held \cup {p}
  /\ UNCHANGED <<run, by, prog, authority, disk, memory, nonce, starts, deltas>>

\* A release does not look at the pending intent, which restores the port it found.
OperatorReleases(p) ==
  /\ OperatorHolds /\ task.pc = "idle" /\ own[p] = "api"
  /\ Grant({p}, "free")
  /\ held' = IF p \in intent.acquired THEN held ELSE held \ {p}
  /\ UNCHANGED <<run, by, prog, authority, disk, memory, nonce, starts, deltas>>

Later(lease) == IF lease = "armed" THEN "near" ELSE IF lease = "near" THEN "due" ELSE lease

\* Time passes for the lease of a group, or of the start that is pending.
LeaseTick(n) ==
  \/ /\ n \in session.groups /\ runs[n].lease \in {"armed", "near"}
     /\ runs' = [runs EXCEPT ![n].lease = Later(@)]
     /\ UNCHANGED <<server, authority, session, intent, memory, history>>
  \/ /\ n = intent.n /\ intent.lease \in {"armed", "near"}
     /\ intent' = [intent EXCEPT !.lease = Later(@)]
     /\ UNCHANGED <<server, authority, session, runs, memory, history>>

-----------------------------------------------------------------------------
Begin ==
  \/ \E T \in Targets, clear \in BOOLEAN, lease \in LeaseChoices, expect \in {0, session.id} :
       PrepareStart(T, expect, clear, lease)
  \/ \E op \in Commands, T \in Targets, relative \in BOOLEAN :
       (relative => op = "update") /\ PrepareMutation(op, T, relative)

Execute ==
  \/ GuardPasses \/ GuardExpires \/ AdvanceStage \/ StageFails
  \/ Acquire \/ Preflight \/ RemoveStreams \/ AddProfile \/ StartTraffic \/ Command \/ Release
  \/ Control \/ RollbackTraffic \/ RestoreStreams \/ RestoreAcquisition \/ Verify
  \/ Promote \/ PromotionRefused \/ Retain \/ Clear
  \/ RetireAfterRollover \/ RetireAfterTermination \/ Reconcile
  \/ RecoverForeign \/ RecoverYields \/ RecoverUnsafe
  \/ RollBackStart \/ AdoptStart \/ ReplayStart \/ AbandonStart
  \/ RecoverUpdate \/ AdoptAction \/ ClearAction \/ RetryAction

Environment ==
  \/ Crash \/ TrexExit
  \/ \E p \in Ports : \/ TrafficEnds(p) \/ HandlerExpires(p)
                      \/ ExternalTraffic(p) \/ ExternalRelease(p)
                      \/ OperatorAcquires(p) \/ OperatorReleases(p)
  \/ \E n \in Nonce : LeaseTick(n)

Next == Begin \/ Snapshot \/ StopTrex \/ Execute \/ Environment

Spec == Init /\ [][Next]_vars

\* The lock is released by whoever holds it: an operation under way goes on.
FairSpec == Spec /\ WF_vars(Execute)

-----------------------------------------------------------------------------
(* Properties *)

\* Traffic the API started is always accounted for on disk: the port belongs to a
\* group of the session that is not recorded as stopped, or to the pending start.
NoOrphanTraffic ==
  \A p \in Ports : run[p] # "stopped" /\ by[p] # 0 =>
    \/ by[p] \in session.groups /\ p \in runs[by[p]].ports /\ runs[by[p]].st[p] # "stopped"
    \/ intent.n = by[p] /\ p \in intent.ports

\* However often a start is recovered, its start RPC takes effect once.
AtMostOnceStart == \A n \in Nonce : starts[n] <= 1

\* A relative update is applied once.
RelativeUpdateOnce == \A n \in Nonce : deltas[n] <= 1

\* A run is recorded only if TRex started it.
RunsWereStarted == \A n \in session.groups \cup session.completed : starts[n] # 0

\* Between operations, with nothing to recover, the API holds the ports the operator
\* acquired and no other: no path loses what it acquired on the way.
NoPortLeak == task.pc = "idle" /\ intent.n = 0 => \A p \in Ports : own[p] = "api" => p \in held

\* The session the process believes to own is the one on disk.
OwnedIsCurrent == owned \in {0, session.id}

\* The document a promotion writes is one the validator accepts.
PromotionAccepted ==
  task.pc = "promote" /\ Authorised(intent) /\ Promotable(intent)
    => ValidDocument(PromotedSession(intent), PromotedRuns(intent))

\* The session and its runs do not change under a pending intent (but for the time).
SessionFrozen ==
  [][intent.n # 0 /\ intent'.n = intent.n =>
       /\ session' = session
       /\ \A n \in Nonce : [runs'[n] EXCEPT !.lease = "none"] = [runs[n] EXCEPT !.lease = "none"]]_vars

\* A start that is given up leaves nothing on TRex: neither traffic nor streams.
NothingLeftBehind ==
  [][intent.n # 0 /\ intent'.n = 0 /\ intent.op = "start" /\ intent.n \notin session'.groups
       => \A p \in Ports : by[p] # intent.n /\ intent.n \notin prog[p]]_vars

\* A run that was closed stays as it was, for as long as its session is on disk.
ClosedRunsTerminal ==
  [][session'.id = session.id =>
       \A n \in session.groups \cup session.completed : runs[n].done # "none" =>
         /\ runs'[n] = runs[n]
         /\ n \in session'.groups \cup session'.completed]_vars

\* A lease is dropped only when the traffic it bounds is gone.
LeaseOutlivesTraffic ==
  [][\A n \in session.groups : runs[n].lease # "none" /\ runs'[n].lease = "none" =>
       \A p \in runs[n].ports : by[p] # n]_vars

\* The runtime keeps the ledger of TrafficLedger: a start nonce is a run, which is pending
\* in the intent, live in the session until it is closed, and then over.
Phase(n) ==
  IF n > nonce THEN "new"
  ELSE IF intent.n = n /\ intent.op = "start" THEN "pending"
  ELSE IF n \in session.groups /\ runs[n].done = "none" THEN "live"
  ELSE "over"

Ledger == INSTANCE TrafficLedger WITH
            phase <- [n \in Nonce |-> Phase(n)], sent <- {n \in Nonce : starts[n] # 0}, on <- by

LedgerKept == Ledger!Spec

\* Every operation ends.
OperationsEnd == task.pc # "idle" ~> task.pc = "idle"

=============================================================================
