----------------------------- MODULE SerialTxns -----------------------------
(***************************************************************************)
(* What the CDC promises its clients about concurrent transactions, taken  *)
(* from the comment that opens CDCDB.cpp: transactions that lock a         *)
(* directory in common run one at a time and in the order of their ids;    *)
(* all the others may run together.  No queue and no sentinel appears      *)
(* here: whether a transaction may start is said in terms of the           *)
(* conflicts between the transactions that are still alive.                *)
(***************************************************************************)
EXTENDS Naturals, CDCRequests

CONSTANTS Reqs, NoReq, MaxTxns

VARIABLES live,    \* txn id -> its request, NoReq before it arrives and after it ends
          running  \* the txns that have started and not ended

serialVars == <<live, running>>

Txns == 1..MaxTxns

Conflict(t, u) ==
  directoriesNeedingLock(live[t]) \cap directoriesNeedingLock(live[u]) # {}

MayRun(t) ==
  /\ live[t] # NoReq
  /\ \A u \in Txns : u < t /\ live[u] # NoReq => ~Conflict(t, u)

Init == live = [t \in Txns |-> NoReq] /\ running = {}

\* A request gets an id greater than that of every live transaction.
Submit(t, r) ==
  /\ live[t] = NoReq
  /\ \A u \in Txns : live[u] # NoReq => u < t
  /\ live' = [live EXCEPT ![t] = r]
  /\ UNCHANGED running

Start(t) ==
  /\ t \notin running
  /\ MayRun(t)
  /\ running' = running \cup {t}
  /\ UNCHANGED live

Finish(t) ==
  /\ t \in running
  /\ running' = running \ {t}
  /\ live' = [live EXCEPT ![t] = NoReq]

\* A transaction that fails its first checks ends as it starts.
Reject(t) ==
  /\ t \notin running
  /\ MayRun(t)
  /\ live' = [live EXCEPT ![t] = NoReq]
  /\ UNCHANGED running

Next == \E t \in Txns :
          \/ \E r \in Reqs : Submit(t, r)
          \/ Start(t) \/ Finish(t) \/ Reject(t)

Spec == Init /\ [][Next]_serialVars
=============================================================================
