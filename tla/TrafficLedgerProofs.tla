--------------------------- MODULE TrafficLedgerProofs ---------------------------
(* What the ledger implies: no port transmits for a run that is over. *)
EXTENDS TrafficLedger, TLAPS

\* Traffic on a port is accounted for: it is of a run that was sent and is pending or live
\* (what the WAL and the group records of traffic_runtime.py are kept for).
THEOREM TrafficAccounted ==
  ASSUME MaxNonce \in Nat
  PROVE  Spec => [](TypeOK /\ Accounted)
<1>1. Init => TypeOK /\ Accounted
  BY DEF Init, TypeOK, Accounted
<1>2. TypeOK /\ Accounted /\ [Next]_vars => (TypeOK /\ Accounted)'
  <2> SUFFICES ASSUME TypeOK, Accounted, [Next]_vars PROVE (TypeOK /\ Accounted)'
    OBVIOUS
  <2> USE DEF TypeOK, Accounted
  <2>0. \A n \in Run : n # 0
    BY DEF Run
  <2>1. ASSUME NEW n \in Run, Draw(n) PROVE (TypeOK /\ Accounted)'
    BY <2>1 DEF Draw
  <2>2. ASSUME NEW n \in Run, Promote(n) PROVE (TypeOK /\ Accounted)'
    BY <2>2 DEF Promote
  <2>3. ASSUME NEW n \in Run, NEW T \in SUBSET Ports, Send(n, T) PROVE (TypeOK /\ Accounted)'
    BY <2>3 DEF Send
  <2>4. ASSUME NEW T \in SUBSET Ports, Quiet(T) PROVE (TypeOK /\ Accounted)'
    BY <2>4 DEF Quiet
  <2>5. ASSUME NEW S \in SUBSET Run, End(S) PROVE (TypeOK /\ Accounted)'
    BY <2>5 DEF End, Silent
  <2>6. CASE UNCHANGED vars
    BY <2>6 DEF vars
  <2> QED BY <2>1, <2>2, <2>3, <2>4, <2>5, <2>6 DEF Next
<1> QED BY <1>1, <1>2, PTL DEF Spec
=============================================================================
