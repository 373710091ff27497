------------------------------ MODULE CDCQueue ------------------------------
(***************************************************************************)
(* The scheduler of CDC transactions (CDCDBImpl in CDCDB.cpp): which of    *)
(* the enqueued transactions run.  The transactions themselves are         *)
(* abstracted to "is running" and "finishes".                              *)
(*                                                                         *)
(* update() applies one log entry under _processLock and in one RocksDB    *)
(* transaction: it enqueues the entry's requests, advances transactions    *)
(* with the entry's shard responses, then visits every transaction that    *)
(* might have become ready.  The actions below are the iterations of these *)
(* three loops and `phase' is the loop update() is in.  The worklist       *)
(* txnIds is kept as the number of times each id still occurs in it: the   *)
(* order of the visits is left open.                                       *)
(***************************************************************************)
EXTENDS Naturals, FiniteSets, CDCRequests

CONSTANTS Reqs,     \* the requests clients may send
          NoReq,    \* stands for "no such key"
          MaxTxns   \* bound: ids given out in a behaviour

ASSUME QueueAssumption == /\ Reqs \subseteq CDCReqs
                          /\ NoReq \notin CDCReqs
                          /\ MaxTxns \in Nat

VARIABLES lastTxn,    \* LAST_TXN_KEY
          enqueued,   \* _enqueuedCf: txn id -> request
          executing,  \* the keys of _executingCf
          dirsToTxns, \* the (dir, txn) keys of _dirsToTxnsCf
          sentinel,   \* its sentinel keys, 0 where there is none
          txnIds,     \* txn id -> occurrences in the worklist of _startExecuting
          phase       \* the loop update() is in

queueVars == <<lastTxn, enqueued, executing, dirsToTxns, sentinel, txnIds, phase>>

Txns == 1..MaxTxns

Init ==
  /\ lastTxn = 0
  /\ enqueued = [t \in Txns |-> NoReq]
  /\ executing = {}
  /\ dirsToTxns = [d \in Lockable |-> {}]
  /\ sentinel = [d \in Lockable |-> 0]
  /\ txnIds = [t \in Txns |-> 0]
  /\ phase = "idle"

Needs(t) == directoriesNeedingLock(enqueued[t])

\* Mutant: one lock is enough.
isReadyToGoWithOne(t) == \E d \in Needs(t) : sentinel[d] = t

isReadyToGo(t) == \A d \in Needs(t) : sentinel[d] = t

\* The next key after (d, t) in d's queue.
Later(d, t) == {u \in dirsToTxns[d] : u > t}

\* Mutant: the last in the queue instead of the next.
LastInLine(d, t) ==
  IF Later(d, t) = {} THEN 0
  ELSE CHOOSE u \in Later(d, t) : \A v \in Later(d, t) : u >= v

NextInLine(d, t) ==
  IF Later(d, t) = {} THEN 0
  ELSE CHOOSE u \in Later(d, t) : \A v \in Later(d, t) : u <= v

-----------------------------------------------------------------------------
\* Mutant: the sentinel is written whether or not there is one.
EnqueueReqTakesOver(r) ==
  LET t == lastTxn + 1 IN
  /\ phase \in {"idle", "enqueueing"}
  /\ t \in Txns
  /\ lastTxn' = t
  /\ enqueued' = [enqueued EXCEPT ![t] = r]
  /\ dirsToTxns' = [d \in Lockable |->
       IF d \in directoriesNeedingLock(r) THEN dirsToTxns[d] \cup {t} ELSE dirsToTxns[d]]
  /\ sentinel' = [d \in Lockable |-> IF d \in directoriesNeedingLock(r) THEN t ELSE sentinel[d]]
  /\ txnIds' = [txnIds EXCEPT ![t] = @ + 1]
  /\ phase' = "enqueueing"
  /\ UNCHANGED executing

(***************************************************************************)
(* One iteration of _enqueueCDCReqs: a fresh id, the request, and an entry *)
(* in the queue of each directory to lock, with a sentinel if it is first. *)
(***************************************************************************)
EnqueueReq(r) ==
  LET t == lastTxn + 1 IN
  /\ phase \in {"idle", "enqueueing"}
  /\ t \in Txns
  /\ lastTxn' = t
  /\ enqueued' = [enqueued EXCEPT ![t] = r]
  /\ dirsToTxns' = [d \in Lockable |->
       IF d \in directoriesNeedingLock(r) THEN dirsToTxns[d] \cup {t} ELSE dirsToTxns[d]]
  /\ sentinel' = [d \in Lockable |->
       IF d \in directoriesNeedingLock(r) /\ sentinel[d] = 0 THEN t ELSE sentinel[d]]
  /\ txnIds' = [txnIds EXCEPT ![t] = @ + 1]
  /\ phase' = "enqueueing"
  /\ UNCHANGED executing

\* Mutant: the ids next in line are not appended to the worklist.
finishExecutingQuietly(t, list) ==
  /\ enqueued' = [enqueued EXCEPT ![t] = NoReq]
  /\ executing' = executing \ {t}
  /\ dirsToTxns' = [d \in Lockable |->
       IF d \in Needs(t) THEN dirsToTxns[d] \ {t} ELSE dirsToTxns[d]]
  /\ sentinel' = [d \in Lockable |->
       IF d \in Needs(t) THEN NextInLine(d, t) ELSE sentinel[d]]
  /\ txnIds' = list
  /\ UNCHANGED lastTxn

(***************************************************************************)
(* _finishExecuting(t) with _removeFromDirsToTxns, on the worklist `list': *)
(* the ids next in line are appended, once per directory.                  *)
(***************************************************************************)
finishExecuting(t, list) ==
  /\ enqueued' = [enqueued EXCEPT ![t] = NoReq]
  /\ executing' = executing \ {t}
  /\ dirsToTxns' = [d \in Lockable |->
       IF d \in Needs(t) THEN dirsToTxns[d] \ {t} ELSE dirsToTxns[d]]
  /\ sentinel' = [d \in Lockable |->
       IF d \in Needs(t) THEN NextInLine(d, t) ELSE sentinel[d]]
  /\ txnIds' = [u \in Txns |->
       list[u] + Cardinality({d \in Needs(t) : NextInLine(d, t) = u})]
  /\ UNCHANGED lastTxn

(***************************************************************************)
(* _advanceWithResp for a response that ends the transaction.  One that    *)
(* does not end it changes nothing here.                                   *)
(***************************************************************************)
AdvanceFinishes(t) ==
  /\ phase \in {"idle", "enqueueing", "advancing"}
  /\ t \in executing
  /\ finishExecuting(t, txnIds)
  /\ phase' = "advancing"

-----------------------------------------------------------------------------
\* What _startExecuting does with the id t of the worklist.
Visited(t) == [txnIds EXCEPT ![t] = @ - 1]

Visit(t) ==
  /\ phase \in {"enqueueing", "advancing", "starting"}
  /\ txnIds[t] > 0

\* Nothing to start: t runs already, or another transaction is before it.
SkipTxn(t) ==
  /\ Visit(t)
  /\ enqueued[t] # NoReq
  /\ t \in executing \/ ~isReadyToGo(t)
  /\ txnIds' = Visited(t)
  /\ phase' = "starting"
  /\ UNCHANGED <<lastTxn, enqueued, executing, dirsToTxns, sentinel>>

\* t starts, and its first step asks some shard.
StartTxn(t) ==
  /\ Visit(t)
  /\ enqueued[t] # NoReq
  /\ t \notin executing /\ isReadyToGo(t)
  /\ ~finishesAtStart(enqueued[t])
  /\ executing' = executing \cup {t}
  /\ txnIds' = Visited(t)
  /\ phase' = "starting"
  /\ UNCHANGED <<lastTxn, enqueued, dirsToTxns, sentinel>>

\* Mutant: the ids freed by a transaction that start() ends are not visited.
StartAndFinishLast(t) ==
  /\ Visit(t)
  /\ enqueued[t] # NoReq
  /\ t \notin executing /\ isReadyToGo(t)
  /\ finishesAtStart(enqueued[t])
  /\ finishExecutingQuietly(t, Visited(t))
  /\ phase' = "starting"

\* t starts and its start() ends it.
StartAndFinish(t) ==
  /\ Visit(t)
  /\ enqueued[t] # NoReq
  /\ t \notin executing /\ isReadyToGo(t)
  /\ finishesAtStart(enqueued[t])
  /\ finishExecuting(t, Visited(t))
  /\ phase' = "starting"

\* The checked Get of t's request finds no such key: the CDC goes down.
VisitMissing(t) ==
  /\ Visit(t)
  /\ enqueued[t] = NoReq
  /\ phase' = "crashed"
  /\ UNCHANGED <<lastTxn, enqueued, executing, dirsToTxns, sentinel, txnIds>>

\* The worklist is through and update() commits.
Commit ==
  /\ phase \in {"enqueueing", "advancing", "starting"}
  /\ \A t \in Txns : txnIds[t] = 0
  /\ phase' = "idle"
  /\ UNCHANGED <<lastTxn, enqueued, executing, dirsToTxns, sentinel, txnIds>>

-----------------------------------------------------------------------------
Next ==
  \/ \E r \in Reqs : EnqueueReq(r)
  \/ \E t \in Txns : \/ AdvanceFinishes(t)
                     \/ SkipTxn(t)
                     \/ StartTxn(t)
                     \/ StartAndFinish(t)
                     \/ VisitMissing(t)
  \/ Commit

Spec == Init /\ [][Next]_queueVars

(***************************************************************************)
(* update() always runs to its end, and a running transaction ends: the    *)
(* CDC asks the shard again until it gets an answer (InFlightShardRequests *)
(* in CDC.cpp time out and the state machines repeat the request).         *)
(***************************************************************************)
Fairness ==
  /\ \A t \in Txns : /\ WF_queueVars(AdvanceFinishes(t))
                     /\ WF_queueVars(SkipTxn(t))
                     /\ WF_queueVars(StartTxn(t))
                     /\ WF_queueVars(StartAndFinish(t))
                     /\ WF_queueVars(VisitMissing(t))
  /\ WF_queueVars(Commit)

FairSpec == Spec /\ Fairness

-----------------------------------------------------------------------------
TypeOK ==
  /\ lastTxn \in 0..MaxTxns
  /\ enqueued \in [Txns -> Reqs \cup {NoReq}]
  /\ executing \subseteq Txns
  /\ dirsToTxns \in [Lockable -> SUBSET Txns]
  /\ sentinel \in [Lockable -> 0..MaxTxns]
  /\ txnIds \in [Txns -> Nat]
  /\ phase \in {"idle", "enqueueing", "advancing", "starting", "crashed"}

-----------------------------------------------------------------------------
(* The parts of the inductive invariant. *)

\* Ids not given out yet are unused.
FreshIds == \A t \in Txns : t > lastTxn => enqueued[t] = NoReq /\ txnIds[t] = 0

\* The queue of a directory holds exactly the live transactions that lock it.
QueuesMatch ==
  \A d \in Lockable :
    dirsToTxns[d] = {t \in Txns : enqueued[t] # NoReq /\ d \in Needs(t)}

\* The sentinel of a directory is the first id of its queue.
SentinelIsFirst ==
  \A d \in Lockable :
    IF dirsToTxns[d] = {} THEN sentinel[d] = 0
    ELSE sentinel[d] \in dirsToTxns[d] /\ \A u \in dirsToTxns[d] : sentinel[d] <= u

\* A running transaction is at the head of all its queues.
ExecutingIsFirst == \A t \in executing : enqueued[t] # NoReq /\ isReadyToGo(t)

\* While update() runs, a transaction that became ready is still to be visited.
ReadyIsVisited ==
  phase # "crashed" =>
    \A t \in Txns : enqueued[t] # NoReq /\ t \notin executing /\ isReadyToGo(t)
                   => txnIds[t] > 0

IdleIsDone == phase = "idle" => \A t \in Txns : txnIds[t] = 0

\* With requests that start() does not refuse, the worklist holds only live
\* transactions, and before the visits begin none that runs.
WorklistIsLive ==
  /\ \A t \in Txns : txnIds[t] > 0 => enqueued[t] # NoReq
  /\ phase \in {"idle", "enqueueing", "advancing"} => \A t \in executing : txnIds[t] = 0
  /\ phase # "crashed"

\* The state of the queue between any two iterations of update()'s loops.
QueueInv == /\ TypeOK
            /\ FreshIds
            /\ QueuesMatch
            /\ SentinelIsFirst
            /\ ExecutingIsFirst
            /\ ReadyIsVisited
            /\ IdleIsDone

-----------------------------------------------------------------------------
\* Two transactions that run at the same time never lock edges of the same
\* directory, nor are two directories ever moved at the same time.
NoSharedDirectory ==
  \A t, u \in executing : t # u => Needs(t) \cap Needs(u) = {}

\* No transaction is forgotten in the queue: once update() is done with a log
\* entry, a transaction that waits has an earlier one, still alive, in front of it
\* in the queue of some directory (_removeFromDirsToTxns returned every id that
\* might be ready, and _startExecuting started the ones that are).
NoForgottenTxn ==
  phase = "idle" =>
    \A t \in Txns : enqueued[t] # NoReq /\ t \notin executing =>
      \E u \in Txns : /\ u < t
                      /\ enqueued[u] # NoReq
                      /\ Needs(u) \cap Needs(t) # {}

\* _startExecuting never looks for the request of a transaction that is gone
\* (ROCKS_DB_CHECKED(dbTxn.Get({}, _enqueuedCf, ...)) would take the CDC down).
NeverVisitsMissing == phase # "crashed"

\* Every transaction given an id ends ("no transaction can ever be starved"), as long as
\* the CDC does not go down on a lookup of one that is gone.
EveryTxnEnds ==
  \A t \in Txns : (enqueued[t] # NoReq) ~> (enqueued[t] = NoReq \/ phase = "crashed")

\* The queue implements the serial order of conflicting transactions.
Serial == INSTANCE SerialTxns WITH live <- enqueued, running <- executing

RefinesSerialTxns == Serial!Spec
=============================================================================
