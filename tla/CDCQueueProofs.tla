--------------------------- MODULE CDCQueueProofs ---------------------------
(***************************************************************************)
(* Proofs about the scheduler of CDC transactions, for any set of          *)
(* directories, any set of requests and any number of transactions.        *)
(***************************************************************************)
EXTENDS CDCQueue, FiniteSetTheorems, WellFoundedInduction, TLAPS

(***************************************************************************)
(* A non-empty set of naturals has a least element.  The initial segments  *)
(* 0..n of its members are finite sets, one of which is minimal for        *)
(* inclusion.                                                              *)
(***************************************************************************)
LEMMA LeastNat ==
  ASSUME NEW S \in SUBSET Nat, S # {}
  PROVE  \E u \in S : \A v \in S : u <= v
<1> DEFINE R == StrictSubsetOrdering(Nat)
           Segments == {0..n : n \in S}
<1>1. IsWellFoundedOn(R, FiniteSubsetsOf(Nat))
  BY FS_StrictSubsetOrderingWellFounded, Zenon
<1>2. Segments \subseteq FiniteSubsetsOf(Nat)
  <2>1. ASSUME NEW n \in S PROVE 0..n \in FiniteSubsetsOf(Nat)
    <3>1. IsFiniteSet(0..n)
      BY FS_Interval
    <3> QED
      BY <3>1 DEF FiniteSubsetsOf
  <2> QED
    BY <2>1, Zenon
<1>3. Segments # {}
  BY Zenon
<1> HIDE DEF R
<1>4. PICK x \in Segments : \A y \in Segments : ~(<<y, x>> \in R)
  <2> HIDE DEF Segments
  <2> QED BY <1>1, <1>2, <1>3, WFMin, Zenon
<1>5. PICK u \in S : x = 0..u
  BY Zenon
<1>6. ASSUME NEW v \in S, v < u PROVE FALSE
  <2>1. 0..v \in Segments /\ v \in Nat /\ u \in Nat
    BY Zenon
  <2>2. 0..v \subseteq 0..u /\ u \in 0..u /\ u \notin 0..v
    BY <1>6, <2>1
  <2>3. <<0..v, 0..u>> \in R
    BY <2>1, <2>2 DEF R, StrictSubsetOrdering
  <2> QED
    BY <2>1, <2>3, <1>4, <1>5, Zenon
<1>7. \A v \in S : v \in Nat /\ u \in Nat
  BY Zenon
<1> QED
  BY <1>6, <1>7

-----------------------------------------------------------------------------
\* A request locks some directory, and finitely many.
LEMMA NeedsSome ==
  ASSUME NEW r \in CDCReqs
  PROVE  /\ directoriesNeedingLock(r) \subseteq Lockable
         /\ directoriesNeedingLock(r) # {}
         /\ IsFiniteSet(directoriesNeedingLock(r))
<1>1. directoriesNeedingLock(r) \subseteq {r.dir1, r.dir2, MOVE_DIRECTORY_LOCK}
  BY Zenon DEF directoriesNeedingLock
<1>2. IsFiniteSet({r.dir1, r.dir2, MOVE_DIRECTORY_LOCK})
  <2>1. IsFiniteSet({r.dir1})
    BY FS_Singleton, Zenon
  <2>2. IsFiniteSet({r.dir1} \cup {r.dir2})
    BY <2>1, FS_AddElement, Zenon
  <2>3. IsFiniteSet(({r.dir1} \cup {r.dir2}) \cup {MOVE_DIRECTORY_LOCK})
    BY <2>2, FS_AddElement, Zenon
  <2>4. ({r.dir1} \cup {r.dir2}) \cup {MOVE_DIRECTORY_LOCK}
          = {r.dir1, r.dir2, MOVE_DIRECTORY_LOCK}
    BY Zenon
  <2> QED
    BY <2>3, <2>4, Zenon
<1>3. IsFiniteSet(directoriesNeedingLock(r))
  BY <1>1, <1>2, FS_Subset, Zenon
<1>4. directoriesNeedingLock(r) \subseteq Lockable /\ directoriesNeedingLock(r) # {}
  BY Zenon DEF directoriesNeedingLock, CDCReqs, Lockable
<1> QED
  BY <1>3, <1>4, Zenon

\* The directories of a live transaction.
LEMMA LiveNeeds ==
  ASSUME TypeOK, NEW t \in Txns, enqueued[t] # NoReq
  PROVE  /\ enqueued[t] \in CDCReqs
         /\ Needs(t) \subseteq Lockable
         /\ Needs(t) # {}
         /\ IsFiniteSet(Needs(t))
<1>1. enqueued[t] \in CDCReqs
  BY QueueAssumption, Zenon DEF TypeOK
<1> QED
  BY <1>1, NeedsSome, Zenon DEF Needs

\* What the iterator in _removeFromDirsToTxns finds behind (d, t).
LEMMA NextInLineIsLeast ==
  ASSUME TypeOK, NEW d \in Lockable, NEW t \in Txns
  PROVE  /\ Later(d, t) = {} => NextInLine(d, t) = 0
         /\ Later(d, t) # {} => /\ NextInLine(d, t) \in Later(d, t)
                                /\ \A v \in Later(d, t) : NextInLine(d, t) <= v
         /\ NextInLine(d, t) \in 0..MaxTxns
<1>1. CASE Later(d, t) = {}
  BY <1>1, QueueAssumption DEF NextInLine
<1>2. CASE Later(d, t) # {}
  <2>1. Later(d, t) \subseteq Txns /\ Txns \subseteq Nat
    BY QueueAssumption DEF Later, TypeOK, Txns
  <2>2. \E u \in Later(d, t) : \A v \in Later(d, t) : u <= v
    BY <1>2, <2>1, LeastNat, Zenon
  <2>3. /\ NextInLine(d, t) \in Later(d, t)
        /\ \A v \in Later(d, t) : NextInLine(d, t) <= v
    BY <1>2, <2>2, Zenon DEF NextInLine
  <2> QED
    BY <1>2, <2>1, <2>3, QueueAssumption DEF Txns
<1> QED
  BY <1>1, <1>2, Zenon

-----------------------------------------------------------------------------
(***************************************************************************)
(* The initial queue satisfies the invariant.                              *)
(***************************************************************************)
LEMMA InitInv == Init => QueueInv
<1> SUFFICES ASSUME Init PROVE QueueInv
  BY Zenon
<1>1. TypeOK
  BY QueueAssumption DEF Init, TypeOK
<1> QED
  BY <1>1, Zenon DEF Init, QueueInv, FreshIds, QueuesMatch, SentinelIsFirst, ExecutingIsFirst,
              ReadyIsVisited, IdleIsDone, Txns

(***************************************************************************)
(* _finishExecuting keeps the invariant when the transaction is at the     *)
(* head of all its queues.  `list' is the worklist it appends to: at most  *)
(* the visit of t itself has been taken off it.                            *)
(***************************************************************************)
LEMMA FinishKeepsInv ==
  ASSUME QueueInv, NEW t \in Txns, NEW list \in [Txns -> Nat],
         enqueued[t] # NoReq, isReadyToGo(t), finishExecuting(t, list),
         \A u \in Txns \ {t} : list[u] = txnIds[u],
         phase # "crashed", phase' \in {"advancing", "starting"}
  PROVE  QueueInv'
<1> USE DEF QueueInv
<1>1. /\ Needs(t) \subseteq Lockable
      /\ IsFiniteSet(Needs(t))
      /\ t \in Nat /\ Txns \subseteq Nat /\ 0 \notin Txns
  BY LiveNeeds, QueueAssumption DEF Txns
<1> DEFINE Behind(u) == {d \in Needs(t) : NextInLine(d, t) = u}
<1>2. \A u : IsFiniteSet(Behind(u)) /\ Cardinality(Behind(u)) \in Nat
  <2> SUFFICES ASSUME NEW u PROVE IsFiniteSet(Behind(u)) /\ Cardinality(Behind(u)) \in Nat
    BY Zenon
  <2>1. Behind(u) \subseteq Needs(t)
    BY Zenon
  <2> HIDE DEF Behind
  <2> QED
    BY <1>1, <2>1, FS_Subset, FS_CardinalityType, Zenon
<1>3. \A u : u \in Txns => (Cardinality(Behind(u)) = 0 <=> Behind(u) = {})
  <2> HIDE DEF Behind
  <2> QED
    BY <1>2, FS_EmptySet, Zenon
<1>4. txnIds' = [u \in Txns |-> list[u] + Cardinality(Behind(u))]
  BY Zenon DEF finishExecuting
<1> HIDE DEF Behind
<1>5. \A u \in Txns \ {t} : enqueued'[u] = enqueued[u] /\ Needs(u)' = Needs(u)
  BY Zenon DEF finishExecuting, Needs, TypeOK
<1>6. enqueued'[t] = NoReq
  BY Zenon DEF finishExecuting, TypeOK
<1>7. \A d \in Needs(t) : /\ sentinel[d] = t /\ t \in dirsToTxns[d]
                          /\ Later(d, t) = dirsToTxns[d] \ {t}
  <2> SUFFICES ASSUME NEW d \in Needs(t)
               PROVE  /\ sentinel[d] = t /\ t \in dirsToTxns[d]
                      /\ Later(d, t) = dirsToTxns[d] \ {t}
    BY Zenon
  <2>1. sentinel[d] = t /\ d \in Lockable
    BY <1>1, Zenon DEF isReadyToGo
  <2>2. t \in dirsToTxns[d]
    BY <2>1, Zenon DEF QueuesMatch
  <2>3. dirsToTxns[d] \subseteq Txns /\ \A u \in dirsToTxns[d] : t <= u
    BY <2>1, <2>2, Zenon DEF SentinelIsFirst, TypeOK
  <2>4. ASSUME NEW u \in dirsToTxns[d] PROVE u > t <=> u # t
    <3>1. u \in Nat /\ t \in Nat /\ t <= u
      BY <1>1, <2>3, Zenon
    <3> QED
      BY <3>1
  <2>5. Later(d, t) = dirsToTxns[d] \ {t}
    BY <2>4, Zenon DEF Later
  <2> QED
    BY <2>1, <2>2, <2>5, Zenon
<1>8. \A d \in Lockable :
        /\ d \in Needs(t) => /\ dirsToTxns'[d] = dirsToTxns[d] \ {t}
                             /\ sentinel'[d] = NextInLine(d, t)
        /\ d \notin Needs(t) => dirsToTxns'[d] = dirsToTxns[d] /\ sentinel'[d] = sentinel[d]
  BY Zenon DEF finishExecuting
<1>9. \A d \in Needs(t) : /\ NextInLine(d, t) \in 0..MaxTxns
                          /\ NextInLine(d, t) # 0 =>
                               NextInLine(d, t) \in dirsToTxns[d] \ {t}
  BY <1>1, <1>7, NextInLineIsLeast
<1>10. TypeOK'
  <2>1. txnIds' \in [Txns -> Nat]
    BY <1>2, <1>4
  <2>2. sentinel' \in [Lockable -> 0..MaxTxns]
    BY <1>9, Zenon DEF finishExecuting, TypeOK
  <2>3. dirsToTxns' \in [Lockable -> SUBSET Txns]
    BY Zenon DEF finishExecuting, TypeOK
  <2>4. enqueued' \in [Txns -> Reqs \cup {NoReq}] /\ executing' \subseteq Txns
    BY Zenon DEF finishExecuting, TypeOK
  <2> QED
    BY <2>1, <2>2, <2>3, <2>4, Zenon DEF finishExecuting, TypeOK
<1>11. FreshIds'
  <2> SUFFICES ASSUME NEW u \in Txns, u > lastTxn
               PROVE  enqueued'[u] = NoReq /\ txnIds'[u] = 0
    BY Zenon DEF FreshIds, finishExecuting
  <2>1. u # t /\ enqueued[u] = NoReq /\ txnIds[u] = 0
    BY Zenon DEF FreshIds
  <2>2. Behind(u) = {}
    BY <1>1, <1>9, <2>1 DEF Behind, QueuesMatch
  <2> QED
    BY <1>2, <1>3, <1>4, <1>5, <2>1, <2>2
<1>12. QueuesMatch'
  <2> SUFFICES ASSUME NEW d \in Lockable
               PROVE  dirsToTxns'[d] = {u \in Txns : enqueued'[u] # NoReq /\ d \in Needs(u)'}
    BY Zenon DEF QueuesMatch
  <2> QED
    BY <1>5, <1>6, <1>8 DEF QueuesMatch
<1>13. SentinelIsFirst'
  <2> SUFFICES ASSUME NEW d \in Lockable
               PROVE  IF dirsToTxns'[d] = {} THEN sentinel'[d] = 0
                      ELSE /\ sentinel'[d] \in dirsToTxns'[d]
                           /\ \A u \in dirsToTxns'[d] : sentinel'[d] <= u
    BY Zenon DEF SentinelIsFirst
  <2>1. CASE d \in Needs(t)
    BY <1>7, <1>8, <2>1, NextInLineIsLeast
  <2>2. CASE d \notin Needs(t)
    BY <1>8, <2>2, Zenon DEF SentinelIsFirst
  <2> QED
    BY <2>1, <2>2, Zenon
<1>14. ExecutingIsFirst'
  <2> SUFFICES ASSUME NEW u \in executing \ {t}
               PROVE  enqueued'[u] # NoReq /\ \A d \in Needs(u)' : sentinel'[d] = u
    BY Zenon DEF ExecutingIsFirst, isReadyToGo, finishExecuting
  <2>1. u \in Txns \ {t} /\ enqueued[u] # NoReq /\ isReadyToGo(u)
    BY Zenon DEF ExecutingIsFirst, TypeOK
  <2>2. \A d \in Needs(u) : d \in Lockable /\ sentinel[d] = u /\ d \notin Needs(t)
    BY <1>7, <2>1, LiveNeeds, Zenon DEF isReadyToGo
  <2> QED
    BY <1>5, <1>8, <2>1, <2>2, Zenon
<1>15. ReadyIsVisited'
  <2> SUFFICES ASSUME NEW u \in Txns, enqueued'[u] # NoReq, u \notin executing',
                      \A d \in Needs(u)' : sentinel'[d] = u
               PROVE  txnIds'[u] > 0
    BY Zenon DEF ReadyIsVisited, isReadyToGo
  <2>1. u # t /\ enqueued[u] # NoReq /\ u \notin executing /\ list[u] = txnIds[u]
    BY <1>5, <1>6, Zenon DEF finishExecuting
  <2>2. txnIds'[u] = txnIds[u] + Cardinality(Behind(u)) /\ txnIds[u] \in Nat
    BY <1>4, <2>1, Zenon DEF TypeOK
  <2>3. CASE isReadyToGo(u)
    <3>1. txnIds[u] > 0
      BY <2>1, <2>3, Zenon DEF ReadyIsVisited
    <3> QED
      BY <1>2, <2>2, <3>1
  <2>4. CASE ~isReadyToGo(u)
    <3>1. PICK d \in Needs(u) : sentinel[d] # u
      BY <2>4, Zenon DEF isReadyToGo
    <3>2. d \in Lockable /\ sentinel'[d] = u
      BY <1>5, <2>1, <3>1, LiveNeeds, Zenon
    <3>3. d \in Behind(u)
      BY <1>8, <3>1, <3>2, Zenon DEF Behind
    <3> QED
      BY <1>2, <1>3, <2>2, <3>3
  <2> QED
    BY <2>3, <2>4, Zenon
<1>16. IdleIsDone'
  BY Zenon DEF IdleIsDone
<1> QED
  BY <1>10, <1>11, <1>12, <1>13, <1>14, <1>15, <1>16, Zenon

(***************************************************************************)
(* An enqueued request keeps the invariant: its id is greater than any in  *)
(* the queues, and it is on the worklist.                                  *)
(***************************************************************************)
LEMMA EnqueueKeepsInv ==
  ASSUME QueueInv, NEW r \in Reqs, EnqueueReq(r)
  PROVE  QueueInv'
<1> USE DEF QueueInv
<1>0. PICK t \in Txns : t = lastTxn + 1
  BY Zenon DEF EnqueueReq
<1>1. /\ t \in Nat /\ lastTxn \in Nat /\ t > lastTxn
      /\ Txns \subseteq Nat /\ 0 \notin Txns /\ t \in 0..MaxTxns
  BY <1>0, QueueAssumption DEF TypeOK, Txns
<1>2. /\ lastTxn' = t
      /\ enqueued' = [enqueued EXCEPT ![t] = r]
      /\ dirsToTxns' = [d \in Lockable |->
           IF d \in directoriesNeedingLock(r) THEN dirsToTxns[d] \cup {t} ELSE dirsToTxns[d]]
      /\ sentinel' = [d \in Lockable |->
           IF d \in directoriesNeedingLock(r) /\ sentinel[d] = 0 THEN t ELSE sentinel[d]]
      /\ txnIds' = [txnIds EXCEPT ![t] = @ + 1]
      /\ phase' = "enqueueing" /\ phase # "crashed"
      /\ executing' = executing
  BY <1>0, Zenon DEF EnqueueReq
<1>3. r # NoReq /\ directoriesNeedingLock(r) \subseteq Lockable
  BY QueueAssumption, NeedsSome, Zenon
<1>4. enqueued[t] = NoReq /\ enqueued'[t] = r /\ Needs(t)' = directoriesNeedingLock(r)
  BY <1>1, <1>2, Zenon DEF FreshIds, Needs, TypeOK
<1>5. \A u \in Txns \ {t} : /\ enqueued'[u] = enqueued[u]
                            /\ Needs(u)' = Needs(u)
                            /\ txnIds'[u] = txnIds[u]
  BY <1>1, <1>2, Zenon DEF Needs, TypeOK
<1>6. txnIds'[t] = txnIds[t] + 1 /\ txnIds[t] \in Nat
  BY <1>1, <1>2, Zenon DEF TypeOK
<1>7. \A d \in Lockable : \A u \in dirsToTxns[d] : u \in Txns /\ u # t /\ u < t
  <2> SUFFICES ASSUME NEW d \in Lockable, NEW u \in dirsToTxns[d]
               PROVE  u \in Txns /\ u # t /\ u < t
    BY Zenon
  <2>1. u \in Txns /\ enqueued[u] # NoReq
    BY Zenon DEF QueuesMatch
  <2>2. u \in Nat /\ ~(u > lastTxn)
    BY <1>1, <2>1, Zenon DEF FreshIds
  <2> QED
    BY <1>0, <1>1, <2>1, <2>2
<1>8. TypeOK'
  BY <1>1, <1>2 DEF TypeOK
<1>9. FreshIds'
  <2> SUFFICES ASSUME NEW u \in Txns, u > t
               PROVE  enqueued'[u] = NoReq /\ txnIds'[u] = 0
    BY <1>2, Zenon DEF FreshIds
  <2>1. u # t /\ u > lastTxn
    BY <1>1
  <2> QED
    BY <1>5, <2>1, Zenon DEF FreshIds
<1>10. QueuesMatch'
  <2> SUFFICES ASSUME NEW d \in Lockable
               PROVE  dirsToTxns'[d] = {u \in Txns : enqueued'[u] # NoReq /\ d \in Needs(u)'}
    BY Zenon DEF QueuesMatch
  <2>1. dirsToTxns[d] = {u \in Txns : enqueued[u] # NoReq /\ d \in Needs(u)}
    BY Zenon DEF QueuesMatch
  <2>2. CASE d \in directoriesNeedingLock(r)
    <3>1. dirsToTxns'[d] = dirsToTxns[d] \cup {t}
      BY <1>2, <2>2, Zenon
    <3> QED
      BY <1>3, <1>4, <1>5, <2>1, <2>2, <3>1, Zenon
  <2>3. CASE d \notin directoriesNeedingLock(r)
    <3>1. dirsToTxns'[d] = dirsToTxns[d]
      BY <1>2, <2>3, Zenon
    <3> QED
      BY <1>4, <1>5, <2>1, <2>3, <3>1, Zenon
  <2> QED
    BY <2>2, <2>3, Zenon
<1>11. SentinelIsFirst'
  <2> SUFFICES ASSUME NEW d \in Lockable
               PROVE  IF dirsToTxns'[d] = {} THEN sentinel'[d] = 0
                      ELSE /\ sentinel'[d] \in dirsToTxns'[d]
                           /\ \A u \in dirsToTxns'[d] : sentinel'[d] <= u
    BY Zenon DEF SentinelIsFirst
  <2>1. sentinel[d] = 0 <=> dirsToTxns[d] = {}
    BY <1>1, <1>7, Zenon DEF SentinelIsFirst
  <2>2. CASE d \in directoriesNeedingLock(r) /\ sentinel[d] = 0
    BY <1>1, <1>2, <2>1, <2>2
  <2>3. CASE d \in directoriesNeedingLock(r) /\ sentinel[d] # 0
    <3>1. dirsToTxns'[d] = dirsToTxns[d] \cup {t} /\ sentinel'[d] = sentinel[d]
      BY <1>2, <2>3, Zenon
    <3>2. sentinel[d] \in dirsToTxns[d] /\ \A u \in dirsToTxns[d] : sentinel[d] <= u
      BY <2>1, <2>3, Zenon DEF SentinelIsFirst
    <3>3. sentinel[d] \in Nat /\ sentinel[d] < t
      BY <1>1, <1>7, <3>2, Zenon
    <3> QED
      BY <1>1, <3>1, <3>2, <3>3
  <2>4. CASE d \notin directoriesNeedingLock(r)
    BY <1>2, <2>4, Zenon DEF SentinelIsFirst
  <2> QED
    BY <2>2, <2>3, <2>4, Zenon
<1>12. ASSUME NEW u \in Txns \ {t}, enqueued[u] # NoReq
       PROVE  \A d \in Needs(u) : sentinel'[d] = sentinel[d]
  <2> SUFFICES ASSUME NEW d \in Needs(u) PROVE sentinel'[d] = sentinel[d]
    BY Zenon
  <2>1. d \in Lockable /\ u \in dirsToTxns[d]
    BY <1>12, LiveNeeds, Zenon DEF QueuesMatch
  <2>2. sentinel[d] # 0
    BY <1>1, <1>7, <2>1, Zenon DEF SentinelIsFirst
  <2> QED
    BY <1>2, <2>1, <2>2, Zenon
<1>13. ExecutingIsFirst'
  <2> SUFFICES ASSUME NEW u \in executing
               PROVE  enqueued'[u] # NoReq /\ \A d \in Needs(u)' : sentinel'[d] = u
    BY <1>2, Zenon DEF ExecutingIsFirst, isReadyToGo
  <2>1. u \in Txns \ {t} /\ enqueued[u] # NoReq /\ isReadyToGo(u)
    BY <1>4, Zenon DEF ExecutingIsFirst, TypeOK
  <2> QED
    BY <1>5, <1>12, <2>1, ZenonT(60) DEF isReadyToGo
<1>14. ReadyIsVisited'
  <2> SUFFICES ASSUME NEW u \in Txns, enqueued'[u] # NoReq, u \notin executing,
                      \A d \in Needs(u)' : sentinel'[d] = u
               PROVE  txnIds'[u] > 0
    BY <1>2, Zenon DEF ReadyIsVisited, isReadyToGo
  <2>1. CASE u = t
    BY <1>6, <2>1
  <2>2. CASE u # t
    <3>1. isReadyToGo(u) /\ enqueued[u] # NoReq
      BY <1>5, <1>12, <2>2, Zenon DEF isReadyToGo
    <3> QED
      BY <1>2, <1>5, <2>2, <3>1, Zenon DEF ReadyIsVisited
  <2> QED
    BY <2>1, <2>2, Zenon
<1>15. IdleIsDone'
  BY <1>2, Zenon DEF IdleIsDone
<1> QED
  BY <1>8, <1>9, <1>10, <1>11, <1>13, <1>14, <1>15, Zenon

(***************************************************************************)
(* Every step keeps the invariant.  A finishing transaction is at the head *)
(* of its queues: ExecutingIsFirst says so of one that runs, isReadyToGo   *)
(* of one that is being started.                                           *)
(***************************************************************************)
LEMMA StepInv == QueueInv /\ [Next]_queueVars => QueueInv'
<1> SUFFICES ASSUME QueueInv, [Next]_queueVars PROVE QueueInv'
  BY Zenon
<1> USE DEF QueueInv
<1>1. ASSUME NEW r \in Reqs, EnqueueReq(r) PROVE QueueInv'
  BY <1>1, EnqueueKeepsInv, Zenon
<1>2. ASSUME NEW t \in Txns, AdvanceFinishes(t) PROVE QueueInv'
  <2>1. enqueued[t] # NoReq /\ isReadyToGo(t) /\ txnIds \in [Txns -> Nat]
    BY <1>2, Zenon DEF AdvanceFinishes, ExecutingIsFirst, TypeOK
  <2> QED
    BY <1>2, <2>1, FinishKeepsInv, Zenon DEF AdvanceFinishes
<1>3. ASSUME NEW t \in Txns, Visit(t)
      PROVE  /\ Visited(t) \in [Txns -> Nat]
             /\ \A u \in Txns \ {t} : Visited(t)[u] = txnIds[u]
             /\ Visited(t)[t] = txnIds[t] - 1
             /\ t <= lastTxn
  <2>1. txnIds \in [Txns -> Nat] /\ txnIds[t] > 0 /\ lastTxn \in Nat /\ t \in Nat
    BY <1>3, QueueAssumption DEF Visit, TypeOK, Txns
  <2>2. t <= lastTxn
    BY <2>1 DEF FreshIds
  <2> QED
    BY <2>1, <2>2 DEF Visited
<1>4. ASSUME NEW t \in Txns, StartAndFinish(t) PROVE QueueInv'
  BY <1>3, <1>4, FinishKeepsInv, Zenon DEF StartAndFinish, Visit
<1>5. ASSUME NEW t \in Txns, SkipTxn(t) PROVE QueueInv'
  <2> USE <1>5 DEF SkipTxn
  <2>1. Visit(t) /\ phase # "crashed"
    BY Zenon DEF Visit
  <2>2. \A u \in Txns : Needs(u)' = Needs(u) /\ isReadyToGo(u)' = isReadyToGo(u)
    BY Zenon DEF Needs, isReadyToGo
  <2>3. TypeOK' /\ FreshIds'
    BY <1>3, <2>1, QueueAssumption, Zenon DEF TypeOK, FreshIds, Txns
  <2>4. QueuesMatch' /\ SentinelIsFirst' /\ ExecutingIsFirst'
    BY <2>2 DEF QueuesMatch, SentinelIsFirst, ExecutingIsFirst, TypeOK
  <2>5. ReadyIsVisited' /\ IdleIsDone'
    BY <1>3, <2>1, <2>2, Zenon DEF ReadyIsVisited, IdleIsDone
  <2> QED
    BY <2>3, <2>4, <2>5, Zenon
<1>6. ASSUME NEW t \in Txns, StartTxn(t) PROVE QueueInv'
  <2> USE <1>6 DEF StartTxn
  <2>1. Visit(t) /\ phase # "crashed"
    BY Zenon DEF Visit
  <2>2. \A u \in Txns : Needs(u)' = Needs(u) /\ isReadyToGo(u)' = isReadyToGo(u)
    BY Zenon DEF Needs, isReadyToGo
  <2>3. TypeOK' /\ FreshIds'
    BY <1>3, <2>1, QueueAssumption, Zenon DEF TypeOK, FreshIds, Txns
  <2>4. QueuesMatch' /\ SentinelIsFirst' /\ ExecutingIsFirst'
    BY <2>2 DEF QueuesMatch, SentinelIsFirst, ExecutingIsFirst, TypeOK
  <2>5. ReadyIsVisited' /\ IdleIsDone'
    BY <1>3, <2>1, <2>2, Zenon DEF ReadyIsVisited, IdleIsDone
  <2> QED
    BY <2>3, <2>4, <2>5, Zenon
<1>7. ASSUME UNCHANGED <<lastTxn, enqueued, executing, dirsToTxns, sentinel, txnIds>>,
             \/ UNCHANGED phase
             \/ phase' = "crashed"
             \/ phase # "crashed" /\ phase' = "idle" /\ \A u \in Txns : txnIds[u] = 0
      PROVE  QueueInv'
  <2> USE <1>7
  <2>1. \A u \in Txns : Needs(u)' = Needs(u) /\ isReadyToGo(u)' = isReadyToGo(u)
    BY Zenon DEF Needs, isReadyToGo
  <2>2. TypeOK' /\ FreshIds' /\ IdleIsDone'
    BY Zenon DEF TypeOK, FreshIds, IdleIsDone
  <2>3. QueuesMatch' /\ SentinelIsFirst' /\ ExecutingIsFirst'
    BY <2>1 DEF QueuesMatch, SentinelIsFirst, ExecutingIsFirst, TypeOK
  <2>4. ReadyIsVisited'
    BY <2>1, Zenon DEF ReadyIsVisited
  <2> QED
    BY <2>2, <2>3, <2>4, Zenon
<1>8. ASSUME NEW t \in Txns, VisitMissing(t) PROVE QueueInv'
  BY <1>7, <1>8, Zenon DEF VisitMissing
<1>9. ASSUME Commit PROVE QueueInv'
  BY <1>7, <1>9, Zenon DEF Commit
<1>10. ASSUME UNCHANGED queueVars PROVE QueueInv'
  BY <1>7, <1>10, Zenon DEF queueVars
<1> QED
  BY <1>1, <1>2, <1>4, <1>5, <1>6, <1>8, <1>9, <1>10, Zenon DEF Next

(***************************************************************************)
(* Whatever the requests and however the entries of the log are grouped,   *)
(* the queues of CDCDB.cpp (_enqueuedCf, _dirsToTxnsCf, _executingCf)      *)
(* agree with each other after every iteration of update()'s loops.        *)
(***************************************************************************)
THEOREM QueueInvariant == Spec => []QueueInv
<1> QED
  BY InitInv, StepInv, PTL DEF Spec

-----------------------------------------------------------------------------
(***************************************************************************)
(* The locks of CDC transactions are exclusive: two that run share none of *)
(* the directories of directoriesNeedingLock.  If they did, the sentinel   *)
(* of that directory would be both.                                        *)
(***************************************************************************)
THEOREM LocksAreExclusive == Spec => []NoSharedDirectory
<1>1. QueueInv => NoSharedDirectory
  BY Zenon DEF QueueInv, ExecutingIsFirst, isReadyToGo, NoSharedDirectory
<1> QED
  BY <1>1, QueueInvariant, PTL

(***************************************************************************)
(* A transaction that waits when update() is through has an earlier one    *)
(* alive in front of it: since the worklist is empty, ReadyIsVisited says  *)
(* it is not ready, and the sentinel it waits for is the id in front.      *)
(***************************************************************************)
THEOREM NothingForgotten == Spec => []NoForgottenTxn
<1>1. QueueInv => NoForgottenTxn
  <2> SUFFICES ASSUME QueueInv, phase = "idle",
                      NEW t \in Txns, enqueued[t] # NoReq, t \notin executing
               PROVE  \E u \in Txns : /\ u < t
                                      /\ enqueued[u] # NoReq
                                      /\ Needs(u) \cap Needs(t) # {}
    BY Zenon DEF NoForgottenTxn
  <2>1. txnIds[t] = 0 /\ ~(txnIds[t] > 0)
    BY DEF QueueInv, IdleIsDone
  <2>2. PICK d \in Needs(t) : sentinel[d] # t
    BY <2>1, Zenon DEF QueueInv, ReadyIsVisited, isReadyToGo
  <2>3. d \in Lockable /\ t \in dirsToTxns[d]
    BY LiveNeeds, Zenon DEF QueueInv, QueuesMatch
  <2>4. sentinel[d] \in dirsToTxns[d] /\ sentinel[d] <= t
    BY <2>3, Zenon DEF QueueInv, SentinelIsFirst
  <2>5. sentinel[d] \in Txns /\ enqueued[sentinel[d]] # NoReq /\ d \in Needs(sentinel[d])
    BY <2>3, <2>4 DEF QueueInv, QueuesMatch
  <2>6. sentinel[d] < t
    BY <2>2, <2>4, <2>5, QueueAssumption DEF Txns
  <2> QED
    BY <2>5, <2>6, Zenon
<1> QED
  BY <1>1, QueueInvariant, PTL

-----------------------------------------------------------------------------
(***************************************************************************)
(* A transaction that isReadyToGo conflicts with no earlier live one: the  *)
(* sentinel of a directory they share would be at most the earlier id.     *)
(***************************************************************************)
LEMMA ReadyMayRun ==
  ASSUME QueueInv, NEW t \in Txns, enqueued[t] # NoReq, isReadyToGo(t)
  PROVE  Serial!MayRun(t)
<1>1. ASSUME NEW u \in Txns, u < t, enqueued[u] # NoReq,
             NEW d \in Needs(t) \cap Needs(u)
      PROVE  FALSE
  <2>1. d \in Lockable /\ sentinel[d] = t /\ u \in dirsToTxns[d]
    BY <1>1, LiveNeeds, Zenon DEF QueueInv, QueuesMatch, isReadyToGo
  <2>2. t <= u
    BY <2>1, Zenon DEF QueueInv, SentinelIsFirst
  <2> QED
    BY <1>1, <2>2, QueueAssumption DEF Txns
<1>2. \A u \in Txns : u < t /\ enqueued[u] # NoReq => ~Serial!Conflict(t, u)
  <2>1. \A r : Serial!directoriesNeedingLock(r) = directoriesNeedingLock(r)
    BY Zenon DEF Serial!directoriesNeedingLock, directoriesNeedingLock
  <2> QED
    BY <1>1, <2>1, Zenon DEF Serial!Conflict, Needs
<1> QED
  BY <1>2, Zenon DEF Serial!MayRun, Serial!Txns, Txns

\* A step of the queue is a step of the serial order, or none.
LEMMA StepRefines ==
  ASSUME QueueInv, [Next]_queueVars
  PROVE  [Serial!Next]_(Serial!serialVars)
<1> USE DEF Serial!Txns, Txns
<1>1. ASSUME NEW r \in Reqs, EnqueueReq(r) PROVE Serial!Next
  <2>1. PICK t \in Txns : t = lastTxn + 1
    BY <1>1, Zenon DEF EnqueueReq
  <2>2. ASSUME NEW u \in Txns, enqueued[u] # NoReq PROVE u < t
    <3>1. ~(u > lastTxn) /\ u \in Nat /\ lastTxn \in Nat
      BY <2>2, QueueAssumption DEF QueueInv, FreshIds, TypeOK
    <3> QED
      BY <2>1, <3>1
  <2>3. enqueued[t] = NoReq
    BY <2>1, QueueAssumption DEF QueueInv, FreshIds, TypeOK
  <2>4. Serial!Submit(t, r)
    BY <1>1, <2>1, <2>2, <2>3, Zenon DEF EnqueueReq, Serial!Submit
  <2> QED
    BY <2>4, Zenon DEF Serial!Next
<1>2. ASSUME NEW t \in Txns, AdvanceFinishes(t) PROVE Serial!Next
  <2>1. Serial!Finish(t)
    BY <1>2, Zenon DEF AdvanceFinishes, finishExecuting, Serial!Finish
  <2> QED
    BY <2>1, Zenon DEF Serial!Next
<1>3. ASSUME NEW t \in Txns, StartTxn(t) PROVE Serial!Next
  <2>1. Serial!Start(t)
    BY <1>3, ReadyMayRun, Zenon DEF StartTxn, Serial!Start
  <2> QED
    BY <2>1, Zenon DEF Serial!Next
<1>4. ASSUME NEW t \in Txns, StartAndFinish(t) PROVE Serial!Next
  <2>1. Serial!MayRun(t) /\ t \notin executing
    BY <1>4, ReadyMayRun, Zenon DEF StartAndFinish
  <2>2. enqueued' = [enqueued EXCEPT ![t] = NoReq] /\ executing' = executing
    BY <1>4, <2>1, Zenon DEF StartAndFinish, finishExecuting
  <2>3. Serial!Reject(t)
    BY <2>1, <2>2, Zenon DEF Serial!Reject
  <2> QED
    BY <2>3, Zenon DEF Serial!Next
<1>5. ASSUME \/ \E t \in Txns : SkipTxn(t) \/ VisitMissing(t)
             \/ Commit
             \/ UNCHANGED queueVars
      PROVE  UNCHANGED Serial!serialVars
  BY <1>5, Zenon DEF SkipTxn, VisitMissing, Commit, queueVars, Serial!serialVars
<1> QED
  BY <1>1, <1>2, <1>3, <1>4, <1>5, Zenon DEF Next

(***************************************************************************)
(* CDCDB.cpp's queues implement the serial order promised by the comment   *)
(* that opens the file: a transaction runs only when no earlier live one   *)
(* locks a directory in common with it.                                    *)
(***************************************************************************)
THEOREM QueueRefinesSerial == Spec => RefinesSerialTxns
<1>1. Init => Serial!Init
  BY Zenon DEF Init, Serial!Init, Serial!Txns, Txns
<1>2. QueueInv /\ [Next]_queueVars => [Serial!Next]_(Serial!serialVars)
  BY StepRefines, Zenon
<1> QED
  BY <1>1, <1>2, QueueInvariant, PTL DEF Spec, RefinesSerialTxns, Serial!Spec

-----------------------------------------------------------------------------
(***************************************************************************)
(* _startExecuting never misses the request of an id on its worklist as    *)
(* long as clients send no request that start() refuses: only a            *)
(* transaction that ends while the worklist is being visited can be on it  *)
(* and be gone.                                                            *)
(***************************************************************************)
THEOREM NoMissWithoutRefusal ==
  ASSUME \A r \in Reqs : ~finishesAtStart(r)
  PROVE  Spec => []NeverVisitsMissing
<1>1. Init => WorklistIsLive
  BY DEF Init, WorklistIsLive
<1>2. QueueInv /\ WorklistIsLive /\ [Next]_queueVars => WorklistIsLive'
  <2> SUFFICES ASSUME QueueInv, WorklistIsLive, [Next]_queueVars PROVE WorklistIsLive'
    BY Zenon
  <2> USE DEF WorklistIsLive
  <2>1. /\ TypeOK
        /\ \A t \in Txns : t \in Nat /\ t # 0 /\ txnIds[t] \in Nat
        /\ txnIds \in [Txns -> Nat] /\ enqueued \in [Txns -> Reqs \cup {NoReq}]
        /\ executing \subseteq Txns
        /\ \A t \in executing : enqueued[t] # NoReq
    BY QueueAssumption, SMTT(60) DEF QueueInv, TypeOK, ExecutingIsFirst, Txns
  <2>2. ASSUME NEW r \in Reqs, EnqueueReq(r) PROVE WorklistIsLive'
    <3>1. PICK t \in Txns : t = lastTxn + 1
      BY <2>2, Zenon DEF EnqueueReq
    <3>2. enqueued[t] = NoReq /\ r # NoReq /\ t \notin executing
      BY <2>1, <3>1, QueueAssumption DEF QueueInv, FreshIds, TypeOK
    <3>3. /\ enqueued' = [enqueued EXCEPT ![t] = r]
          /\ txnIds' = [txnIds EXCEPT ![t] = @ + 1]
          /\ executing' = executing /\ phase' = "enqueueing"
          /\ phase \in {"idle", "enqueueing"}
      BY <2>2, <3>1, Zenon DEF EnqueueReq
    <3> QED
      BY <2>1, <3>2, <3>3, Zenon
  <2>3. ASSUME NEW t \in Txns, AdvanceFinishes(t) PROVE WorklistIsLive'
    <3>1. /\ phase' = "advancing" /\ executing' = executing \ {t}
          /\ enqueued' = [enqueued EXCEPT ![t] = NoReq]
          /\ txnIds[t] = 0 /\ enqueued[t] # NoReq /\ isReadyToGo(t)
          /\ \A u \in executing : txnIds[u] = 0
      BY <2>3, Zenon DEF AdvanceFinishes, finishExecuting, QueueInv, ExecutingIsFirst
    <3> DEFINE Behind(u) == {d \in Needs(t) : NextInLine(d, t) = u}
    <3>2. txnIds' = [u \in Txns |-> txnIds[u] + Cardinality(Behind(u))]
      BY <2>3, Zenon DEF AdvanceFinishes, finishExecuting
    <3> HIDE DEF Behind
    <3>3. ASSUME NEW u \in Txns, Behind(u) # {}
          PROVE  u # t /\ enqueued[u] # NoReq /\ u \notin executing
      <4>1. PICK d \in Needs(t) : NextInLine(d, t) = u
        BY <3>3, Zenon DEF Behind
      <4>2. d \in Lockable /\ sentinel[d] = t
        BY <2>1, <3>1, LiveNeeds, Zenon DEF isReadyToGo
      <4>3. u \in Later(d, t)
        BY <2>1, <4>1, <4>2, NextInLineIsLeast, Zenon
      <4>4. u \in dirsToTxns[d] /\ u # t
        BY <2>1, <4>3 DEF Later
      <4>5. enqueued[u] # NoReq /\ d \in Needs(u)
        BY <4>2, <4>4, Zenon DEF QueueInv, QueuesMatch
      <4>6. u \notin executing
        BY <4>2, <4>4, <4>5, Zenon DEF QueueInv, ExecutingIsFirst, isReadyToGo
      <4> QED
        BY <4>4, <4>5, <4>6, Zenon
    <3>4. ASSUME NEW u \in Txns, Behind(u) = {} PROVE txnIds'[u] = txnIds[u]
      <4>1. Cardinality(Behind(u)) = 0
        BY <3>4, FS_EmptySet, Zenon
      <4> QED
        BY <2>1, <3>2, <4>1
    <3> QED
      BY <2>1, <3>1, <3>3, <3>4
  <2>4. ASSUME NEW t \in Txns, SkipTxn(t) \/ StartTxn(t) PROVE WorklistIsLive'
    <3>1. /\ txnIds' = [txnIds EXCEPT ![t] = @ - 1] /\ enqueued' = enqueued
          /\ phase' = "starting" /\ enqueued[t] # NoReq
      BY <2>4, Zenon DEF SkipTxn, StartTxn, Visited
    <3>2. \A u \in Txns : txnIds'[u] > 0 => txnIds[u] > 0
      BY <2>1, <3>1
    <3> QED
      BY <3>1, <3>2, Zenon
  <2>5. ASSUME NEW t \in Txns, StartAndFinish(t) PROVE WorklistIsLive'
    BY <2>1, <2>5, Zenon DEF StartAndFinish
  <2>6. ASSUME NEW t \in Txns, VisitMissing(t) PROVE WorklistIsLive'
    BY <2>6, Zenon DEF VisitMissing, Visit
  <2>7. ASSUME Commit PROVE WorklistIsLive'
    BY <2>1, <2>7, Zenon DEF Commit
  <2>8. ASSUME UNCHANGED queueVars PROVE WorklistIsLive'
    BY <2>8, Zenon DEF queueVars
  <2> QED
    BY <2>2, <2>3, <2>4, <2>5, <2>6, <2>7, <2>8, Zenon DEF Next
<1>3. WorklistIsLive => NeverVisitsMissing
  BY Zenon DEF WorklistIsLive, NeverVisitsMissing
<1> QED
  BY <1>1, <1>2, <1>3, QueueInvariant, PTL DEF Spec
=============================================================================
