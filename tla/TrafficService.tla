---------------------------- MODULE TrafficService ----------------------------
(***************************************************************************)
(* The traffic authority as the guided quick validation sees it: live      *)
(* traffic on two groups of ports, the managed session on disk, the write- *)
(* ahead intent of a mutation whose outcome is not settled, the snapshot   *)
(* that settles it, and the reaper of hard-stop leases.  TrafficRuntime    *)
(* models the same code step by step; here an operation is one action,     *)
(* because every user of it holds runtime_mutation_fence throughout.       *)
(***************************************************************************)
EXTENDS Naturals, FiniteSets

CONSTANTS
  MaxNonce,   \* bound: starts of managed traffic
  MaxTime,    \* bound of the clock
  MaxFaults,  \* bound: faults of every kind together
  Faults,     \* the kinds of fault: "disk", "rpc", "trex", "crash", "controller"
  Clients     \* what other windows of the operator do: "start", "stop"

ASSUME ServiceAssumption ==
  /\ MaxNonce \in Nat /\ MaxTime \in Nat /\ MaxFaults \in Nat
  /\ Faults \subseteq {"disk", "rpc", "trex", "crash", "controller"}
  /\ Clients \subseteq {"start", "stop"}

VARIABLES
  now,      \* the clock, from 1
  faults,   \* faults so far
  live,     \* TRex: the start that transmits on a group's ports, 0 for idle, Foreign
  rec,      \* group records by run id; those of past sessions are history
  sess,     \* durable: traffic_session
  wal,      \* durable: traffic_mutation_intent
  nonce,    \* the last run id drawn
  reaped    \* history: the runs that the reaper stopped

traffic == <<live, rec, sess, wal, nonce, reaped>>
service == <<now, faults, traffic>>

Group   == {"guided", "other"}   \* two saved groups with disjoint ports
Nonce   == 1..MaxNonce
Nonce0  == 0..MaxNonce
Foreign == MaxNonce + 1          \* another controller holds the ports and transmits

\* lease: hard_stop_at, 0 for none.  how: cleanup_evidence.completion.  exact: the stop
\* that ended the run named the ports of its group and no others.
NoRec == [grp |-> "other", at |-> 0, lease |-> 0, st |-> "none", ended |-> 0,
          how |-> "none", exact |-> FALSE]
Rec == [grp : Group, at : Nat, lease : Nat, st : {"none", "active", "stopped"},
        ended : Nat, how : {"none", "operator_stop", "hard_stop", "observed"}, exact : BOOLEAN]

NoSess == [id |-> 0, groups |-> {}, completed |-> {}]
Sess   == [id : Nonce0, groups : SUBSET Nonce, completed : SUBSET Nonce]

\* The intents other clients leave are settled within their actions, so a pending intent is
\* a start or a stop of the guided group.  sent: the stage is start_intent or later.
\* other: baseline_port_states of the other group, whether it transmits.
NoWal == [op |-> "none", n |-> 0, lease |-> 0, phase |-> "prepared", sent |-> FALSE,
          other |-> FALSE]
Wal   == {NoWal} \cup
         [op : {"start", "stop"}, n : Nonce, lease : Nat,
          phase : {"prepared", "cleanup_required"}, sent : BOOLEAN, other : BOOLEAN]

ServiceType ==
  /\ now \in Nat \ {0} /\ faults \in Nat
  /\ live \in [Group -> Nonce0 \cup {Foreign}]
  /\ rec \in [Nonce -> Rec] /\ sess \in Sess /\ wal \in Wal
  /\ nonce \in Nonce0 /\ reaped \in SUBSET Nonce

ServiceInit ==
  /\ now = 1 /\ faults = 0
  /\ live = [g \in Group |-> 0]
  /\ rec = [n \in Nonce |-> NoRec] /\ sess = NoSess /\ wal = NoWal
  /\ nonce = 0 /\ reaped = {}

Fault(kind) == kind \in Faults /\ faults < MaxFaults /\ faults' = faults + 1

ActiveRuns    == {n \in sess.groups : rec[n].st = "active"}
SessionActive == ActiveRuns # {}
Leased        == {n \in ActiveRuns : rec[n].lease # 0}
Expired       == {n \in Leased : now >= rec[n].lease}

\* _session_baseline_failure: what is live is what the session says.
Baseline == \A n \in sess.groups :
  live[rec[n].grp] = IF rec[n].st = "active" THEN n ELSE 0

\* (mutant of Opened: the promotion of a start forgets its lease)
OpenedUnleased(g, lease) ==
  [grp |-> g, at |-> now, lease |-> 0, st |-> "active", ended |-> 0,
   how |-> "none", exact |-> FALSE]
Opened(g, lease) == [grp |-> g, at |-> now, lease |-> lease, st |-> "active", ended |-> 0,
                     how |-> "none", exact |-> FALSE]
\* A run that ends loses its lease and gets its cleanup evidence, once.
Ended(r, how, exact) ==
  [r EXCEPT !.st = "stopped", !.lease = 0, !.ended = now, !.how = how, !.exact = exact]

\* A start while a session is active joins it, and replaces a stopped run of the group.
SessionWith(n, g) ==
  IF SessionActive
  THEN LET replaced == {m \in sess.groups : rec[m].grp = g}
       IN [sess EXCEPT !.groups = (@ \ replaced) \cup {n}, !.completed = @ \cup replaced]
  ELSE [id |-> n, groups |-> {n}, completed |-> {}]

\* _reconcile_session: an active run whose ports are idle was observed to stop.
Reconciled(r, s, l) ==
  [n \in Nonce |-> IF n \in s.groups /\ r[n].st = "active" /\ l[r[n].grp] = 0
                   THEN Ended(r[n], "observed", FALSE) ELSE r[n]]

\* _recover_traffic_mutation_intent, followed by the reconciliation
Settled(l, r, s, w) ==
  /\ live' = l /\ rec' = Reconciled(r, s, l) /\ sess' = s /\ wal' = w

\* Nothing is settled; the session is reconciled only when no intent is pending.
KeepsIntent == IF wal.op = "none" THEN Settled(live, rec, sess, wal)
               ELSE UNCHANGED <<live, rec, sess, wal>>

\* The intent cannot be settled: its ports are not under control, ports beside it changed,
\* or a lease of the session expired, which makes it the reaper's.
Unsettled == live["guided"] = Foreign \/ (live["other"] # 0) # wal.other \/ Expired # {}

ToRollBack == wal.phase = "cleanup_required" \/ (wal.lease # 0 /\ now >= wal.lease)

RollsStartBack ==
  /\ wal.op = "start" /\ ~Unsettled /\ ToRollBack
  /\ Settled([live EXCEPT !["guided"] = 0], rec, sess, NoWal)

\* The start is found in effect, or is replayed if it was never sent.
RecoversStart ==
  /\ wal.op = "start" /\ ~Unsettled /\ ~ToRollBack
  /\ live["guided"] = wal.n \/ ~wal.sent
  /\ Settled([live EXCEPT !["guided"] = wal.n],
             [rec EXCEPT ![wal.n] = Opened("guided", wal.lease)],
             SessionWith(wal.n, "guided"), NoWal)

\* A stop that took effect is recorded; one that did not is forgotten.
RecoversStop ==
  /\ wal.op = "stop" /\ ~Unsettled
  /\ Settled(live, IF live["guided"] = 0
                    THEN [rec EXCEPT ![wal.n] = Ended(@, "operator_stop", TRUE)] ELSE rec,
             sess, NoWal)

\* Nothing pending, or nothing done about it: traffic of a start that was sent and is gone
\* may have been a finite run, and is not started a second time.
LeavesIntent ==
  /\ \/ wal.op = "none" \/ Unsettled
     \/ wal.op = "start" /\ ~ToRollBack /\ live["guided"] # wal.n /\ wal.sent
  /\ KeepsIntent

\* TrafficRuntimeAuthority.snapshot with a live sample
Sampled ==
  /\ LeavesIntent \/ RollsStartBack \/ RecoversStart \/ RecoversStop
  /\ UNCHANGED <<nonce, reaped>>

\* An RPC or a write of the recovery fails: the intent stays, with what was done of it.
RecoveryFails ==
  /\ wal.op # "none" /\ ~Unsettled
  /\ \/ UNCHANGED <<live, wal>>
     \/ wal.op = "start" /\ ToRollBack /\ live' = [live EXCEPT !["guided"] = 0] /\ wal' = wal
     \/ /\ wal.op = "start" /\ ~ToRollBack /\ ~wal.sent
        /\ wal' = [wal EXCEPT !.sent = TRUE]
        /\ live' \in {live, [live EXCEPT !["guided"] = wal.n]}
  /\ UNCHANGED <<rec, sess, nonce, reaped>>

\* Near the end of a lease a snapshot answers from disk and leaves TRex to the reaper.
NearLease ==
  \/ \E n \in Leased : now + 1 >= rec[n].lease
  \/ wal.op = "start" /\ wal.lease # 0 /\ now + 1 >= wal.lease

-----------------------------------------------------------------------------
(* Actors other than the quick validation *)

\* Another window reads the traffic runtime.
Read ==
  /\ ~NearLease
  /\ \/ Sampled /\ UNCHANGED faults
     \/ Fault("rpc") /\ RecoveryFails
  /\ UNCHANGED now

ClientStart(g) ==
  /\ "start" \in Clients /\ ~NearLease
  /\ wal.op = "none" /\ live[g] = 0 /\ nonce < MaxNonce
  /\ Baseline
  /\ nonce' = nonce + 1
  /\ live' = [live EXCEPT ![g] = nonce']
  /\ rec' = [rec EXCEPT ![nonce'] = Opened(g, 0)]
  /\ sess' = SessionWith(nonce', g)
  /\ UNCHANGED <<now, faults, wal, reaped>>

\* Another window stops runs of the session, at one go or a few ports at a time; near the end
\* of a lease only what is leased.
ClientStop(stopped) ==
  /\ "stop" \in Clients
  /\ wal.op = "none" /\ stopped # {} /\ stopped \subseteq ActiveRuns
  /\ Baseline /\ (NearLease => Leased \subseteq stopped)
  /\ live' = [g \in Group |-> IF \E n \in stopped : rec[n].grp = g THEN 0 ELSE live[g]]
  /\ \E exact \in IF Cardinality(stopped) = 1 THEN BOOLEAN ELSE {FALSE} :
       rec' = [n \in Nonce |-> IF n \in stopped THEN Ended(rec[n], "operator_stop", exact)
                               ELSE rec[n]]
  /\ UNCHANGED <<now, faults, sess, wal, nonce, reaped>>

\* reap_expired_hard_stops with no intent pending: an ordinary stop, and evidence of one
ReapLease ==
  /\ wal.op = "none" /\ Expired # {}
  /\ \A n \in Expired : live[rec[n].grp] = n
  /\ live' = [g \in Group |-> IF \E n \in Expired : rec[n].grp = g THEN 0 ELSE live[g]]
  /\ rec' = [n \in Nonce |->
               IF n \in Expired
               THEN Ended(rec[n], "operator_stop", Cardinality(Expired) = 1) ELSE rec[n]]
  /\ reaped' = reaped \cup Expired
  /\ UNCHANGED <<now, faults, sess, wal, nonce>>

\* reap_expired_hard_stops over a pending stop, which it supersedes
ReapOverStop ==
  /\ wal.op = "stop" /\ Expired # {} /\ live["guided"] # Foreign
  /\ (live["other"] # 0) = wal.other
  /\ live' = [live EXCEPT !["guided"] = 0]
  /\ rec' = [rec EXCEPT ![wal.n] = Ended(@, "hard_stop", TRUE)]
  /\ wal' = NoWal
  /\ reaped' = reaped \cup {wal.n}
  /\ UNCHANGED <<now, faults, sess, nonce>>

\* reap_expired_hard_stops of an expired start intent, or of a lease whose traffic ended
ReapIntent ==
  /\ \/ wal.op = "start" /\ wal.lease # 0 /\ now >= wal.lease
     \/ wal.op = "none" /\ \E n \in Expired : live[rec[n].grp] = 0
  /\ Sampled
  /\ UNCHANGED <<now, faults>>

Reap == ReapLease \/ ReapOverStop \/ ReapIntent

TrexExit ==
  /\ Fault("trex")
  /\ \E g \in Group : live[g] # 0
  /\ live' = [g \in Group |-> 0]
  /\ UNCHANGED <<now, rec, sess, wal, nonce, reaped>>

\* Another controller takes or leaves idle ports.
Controller ==
  \/ /\ Fault("controller")
     /\ \E g \in Group : live[g] = 0 /\ live' = [live EXCEPT ![g] = Foreign]
     /\ UNCHANGED <<now, rec, sess, wal, nonce, reaped>>
  \/ /\ \E g \in Group : live[g] = Foreign /\ live' = [live EXCEPT ![g] = 0]
     /\ UNCHANGED <<now, faults, rec, sess, wal, nonce, reaped>>

Tick ==
  /\ now < MaxTime
  /\ now' = now + 1
  /\ UNCHANGED <<faults, traffic>>

=============================================================================
