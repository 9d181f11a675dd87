----------------------------- MODULE TrafficLedger -----------------------------
(***************************************************************************)
(* What the traffic authority promises of every run it starts, whatever    *)
(* crashes, retries and recoveries lie in between: a run is pending, then  *)
(* live, then over for good; TRex is told at most once to start it; and it *)
(* is over only when none of its ports transmits any more.                 *)
(***************************************************************************)
EXTENDS Naturals

CONSTANTS Ports, MaxNonce

VARIABLES
  phase,  \* of each run: "new", "pending", "live", "over"
  sent,   \* the runs whose start RPC took effect
  on      \* the run each port transmits for, 0 for none of the ledger

vars == <<phase, sent, on>>

Run == 1..MaxNonce

TypeOK ==
  /\ phase \in [Run -> {"new", "pending", "live", "over"}]
  /\ sent \in SUBSET Run
  /\ on \in [Ports -> Run \cup {0}]

Init ==
  /\ phase = [n \in Run |-> "new"]
  /\ sent = {}
  /\ on = [p \in Ports |-> 0]

Silent(n) == \A p \in Ports : on[p] # n

\* One mutation at a time: a number is drawn while none is pending, for a start or not.
Draw(n) ==
  /\ phase[n] = "new" /\ \A m \in Run : phase[m] # "pending"
  /\ \E to \in {"pending", "over"} : phase' = [phase EXCEPT ![n] = to]
  /\ UNCHANGED <<sent, on>>

Send(n, T) ==
  /\ phase[n] = "pending" /\ n \notin sent
  /\ sent' = sent \cup {n}
  /\ on' = [p \in Ports |-> IF p \in T THEN n ELSE on[p]]
  /\ UNCHANGED phase

Quiet(T) ==
  /\ on' = [p \in Ports |-> IF p \in T THEN 0 ELSE on[p]]
  /\ UNCHANGED <<phase, sent>>

Promote(n) ==
  /\ phase[n] = "pending"
  /\ phase' = [phase EXCEPT ![n] = "live"]
  /\ UNCHANGED <<sent, on>>

End(S) ==
  /\ \A n \in S : phase[n] \in {"pending", "live"} /\ Silent(n)
  /\ phase' = [n \in Run |-> IF n \in S THEN "over" ELSE phase[n]]
  /\ UNCHANGED <<sent, on>>

Next ==
  \/ \E T \in SUBSET Ports : Quiet(T)
  \/ \E n \in Run : Draw(n) \/ Promote(n)
  \/ \E n \in Run, T \in SUBSET Ports : Send(n, T)
  \/ \E S \in SUBSET Run : End(S)

Spec == Init /\ [][Next]_vars

\* A port transmits for a run only while the run is pending or live.
Accounted == \A p \in Ports : on[p] # 0 => phase[on[p]] \in {"pending", "live"} /\ on[p] \in sent
=============================================================================
