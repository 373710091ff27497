------------------------------ MODULE NFSReplayFacts ------------------------
(***************************************************************************)
(* Facts about the operators of NFSReplayState: the shape of records, what *)
(* sequence ids and newer order, which record is the newest, and which steps*)
(* can concern one compound.                                               *)
(***************************************************************************)
EXTENDS NFSReplayInv, TLAPS

(* Records.                                                                  *)
LEMMA Bounds ==
  SeqIds \in Nat /\ MaxReqs \in Nat /\ MaxOps \in Nat /\ MaxReqs < SeqIds \div 2
  BY ReplayAssumption, Zenon

\* A payload is told from no payload by its operation number.
LEMMA PayFacts ==
  /\ \A p \in Pays \cup {NoPay} : p.op \in Nat /\ (p = NoPay <=> p.op = 0) /\ (p # NoPay => p \in Pays)
  /\ NoPay \in Pays \cup {NoPay} /\ NoPay.op = 0
  BY DEF Pays, NoPay

\* The fields of a thread that runs nothing.
LEMMA IdleShape ==
  /\ Idle \in Threads /\ Idle.pc = "idle" /\ Idle.rid = 0 /\ Idle.op = 0 /\ Idle.mutated = FALSE
  /\ Idle.intentOp = 0 /\ Idle.replay = NoPay /\ Idle.pending = FALSE /\ Idle.status = "OK"
  BY Zenon DEF Idle, Threads, PCs, Statuses

\* The fields of a slot that was never used.
LEMMA EmptyShape ==
  /\ EmptySlot \in SlotRecs /\ EmptySlot.seq = 0 /\ EmptySlot.occupied = FALSE
  /\ EmptySlot.inUse = FALSE /\ EmptySlot.restored = FALSE /\ EmptySlot.rid = 0
  /\ EmptySlot.reply = "nil" /\ EmptySlot.intent = NoPay
  BY Zenon DEF EmptySlot, SlotRecs

\* The operation a compound is at is one of its request.
LEMMA OpShape ==
  ASSUME Base, NEW s \in Slots, Running(s)
  PROVE  /\ th[s] \in Threads /\ th[s].rid \in Rids /\ reqs[th[s].rid] \in Requests
         /\ Op(s) \in Operations /\ Op(s).k \in OpKinds /\ Op(s).from \in Names /\ Op(s).to \in Names
         /\ (Final(s) <=> th[s].op = Len(reqs[th[s].rid].ops))
         /\ Len(reqs[th[s].rid].ops) \in Nat
<1>1. th[s] \in Threads /\ slots[s].occupied /\ th[s].rid = slots[s].rid /\ th[s].op \in Ops(th[s].rid)
  BY Zenon DEF Base, Shape, ShapeMem, SlotInv
<1>2. th[s].rid \in Rids
  BY <1>1, Zenon DEF Base, OwnInv, Of
<1>3. reqs[th[s].rid] \in Requests
  BY <1>2 DEF Base, Shape, ShapePeer, Rids
<1>4. reqs[th[s].rid].ops \in Seq(Operations)
  BY <1>3, Zenon DEF Requests
<1>5. Op(s) \in Operations
  BY <1>1, <1>4 DEF Op, Ops
<1> QED BY <1>1, <1>2, <1>3, <1>4, <1>5 DEF Operations, Final

(* Sequence ids are compared as numbers as long as they do not wrap.         *)
LEMMA ModFacts ==
  ASSUME NEW k \in Nat, k > 0, NEW d \in Int
  PROVE  /\ d \in 0..(k - 1) => d % k = d
         /\ d \in (1 - k)..(-1) => d % k = d + k
  OBVIOUS

\* Before half the sequence ids are used, int32(a-b) > 0 is a > b.
LEMMA SeqAfterIs ==
  ASSUME NEW a \in 0..MaxReqs, NEW b \in 0..MaxReqs
  PROVE  SeqAfter(a, b) <=> a > b
<1>1. MaxReqs \in Nat /\ SeqIds \in Nat /\ MaxReqs < SeqIds \div 2
  BY Bounds, Zenon
<1>2. SeqIds \div 2 \in Nat /\ 2 * (SeqIds \div 2) <= SeqIds
  BY <1>1
<1> DEFINE h == SeqIds \div 2
<1>3. h \in Nat /\ 2 * h <= SeqIds /\ MaxReqs < h
  BY <1>1, <1>2, Zenon
<1> HIDE DEF h
<1>4. SeqIds > 0 /\ a - b \in (1 - SeqIds)..(SeqIds - 1)
  BY <1>1, <1>3
<1>5. CASE a > b
  <2>1. (a - b) % SeqIds = a - b
    BY <1>1, <1>4, <1>5, ModFacts
  <2> QED BY <1>1, <1>3, <1>5, <2>1 DEF SeqAfter, h
<1>6. CASE a = b
  <2>1. (a - b) % SeqIds = 0
    BY <1>1, <1>4, <1>6, ModFacts
  <2> QED BY <1>6, <2>1 DEF SeqAfter
<1>7. CASE a < b
  <2>1. (a - b) % SeqIds = (a - b) + SeqIds
    <3>1. a - b \in (1 - SeqIds)..(-1)
      BY <1>1, <1>4, <1>7
    <3> QED BY <1>1, <1>4, <3>1, ModFacts
  <2>2. (a - b) + SeqIds >= h
    BY <1>1, <1>3
  <2> QED BY <1>1, <1>7, <2>1, <2>2 DEF SeqAfter, h
<1> QED BY <1>1, <1>5, <1>6, <1>7

\* A compound runs on an occupied slot, for the request of that slot.
LEMMA RunningFacts ==
  ASSUME Base, NEW s \in Slots, Running(s)
  PROVE  /\ th \in [Slots -> Threads] /\ th[s] \in Threads /\ th[s].rid \in Rids
         /\ th[s].op \in Nat /\ th[s].rid \in Nat /\ th[s].intentOp \in Nat
         /\ slots[s] \in SlotRecs /\ slots[s].occupied /\ slots[s].inUse /\ ~slots[s].restored
         /\ Of(s, th[s].rid, slots[s].seq) /\ th[s].rid = slots[s].rid
         /\ sess \in {"up", "retired"} /\ file # "none"
         /\ th[s].op \in Ops(th[s].rid) /\ th[s].op \in 1..MaxOps /\ th[s].rid \in 1..MaxReqs
<1>1. th \in [Slots -> Threads] /\ slots \in [Slots -> SlotRecs] /\ Running(s) /\ SlotInv(s)
  BY Zenon DEF Base, Shape, ShapeMem
<1>2. /\ th[s] \in Threads /\ slots[s] \in SlotRecs
      /\ slots[s].occupied /\ slots[s].inUse /\ ~slots[s].restored
      /\ th[s].rid = slots[s].rid /\ th[s].op \in Ops(th[s].rid) /\ sess \in {"up", "retired"}
  BY <1>1, Zenon DEF SlotInv
<1>3. Of(s, th[s].rid, slots[s].seq)
  BY <1>2, Zenon DEF Base, OwnInv
<1>4. th[s].rid \in Rids /\ Len(reqs[th[s].rid].ops) \in 1..MaxOps
  BY <1>3, Zenon DEF Of, Base, RequestsInv
<1>5. th[s].op \in Nat /\ th[s].rid \in Nat /\ th[s].intentOp \in Nat
  BY <1>2, Zenon DEF Threads
<1>6. file # "none"
  BY <1>2, Zenon DEF Base, FileInv
<1>7. th[s].op \in 1..MaxOps
  BY <1>2, <1>4, Bounds, SMTT(60) DEF Ops
<1>8. th[s].rid \in 1..MaxReqs
  BY <1>4, Bounds DEF Rids, Base, Shape, ShapePeer
<1> QED BY <1>1, <1>2, <1>3, <1>4, <1>5, <1>6, <1>7, <1>8, Zenon

\* What finish saves is a status.
LEMMA SavedShape ==
  ASSUME Base, NEW s \in Slots, Running(s)
  PROVE  Saved(s) \in Statuses
<1>1. th[s] \in Threads
  BY RunningFacts, Zenon
<1> QED BY <1>1, Zenon DEF Saved, Statuses, Threads

\* The sequence id of a request is at most its number.
LEMMA SeqRange ==
  ASSUME Base, NEW s, NEW r, NEW q, Of(s, r, q)
  PROVE  q \in 1..MaxReqs /\ q \in 0..MaxReqs /\ q <= r /\ r \in 1..MaxReqs
<1>1. r \in Rids /\ reqs[r].seq = q /\ Len(reqs) <= MaxReqs /\ Len(reqs) \in Nat
  BY DEF Of, Base, Shape, ShapePeer
<1>2. q \in 1..r
  BY <1>1, Zenon DEF Base, RequestsInv
<1> QED BY <1>1, <1>2, Bounds DEF Rids

\* Sequence ids do not wrap around within the bound.
LEMMA NextSeq ==
  ASSUME NEW q \in 0..MaxReqs
  PROVE  (q + 1) % SeqIds = q + 1
<1>1. MaxReqs \in Nat /\ SeqIds \in Nat /\ MaxReqs < SeqIds \div 2
  BY Bounds, Zenon
<1>2. SeqIds \div 2 \in Nat /\ 2 * (SeqIds \div 2) <= SeqIds
  BY <1>1
<1>3. q + 1 \in 0..(SeqIds - 1) /\ SeqIds > 0 /\ q + 1 \in Int
  BY <1>1, <1>2
<1> QED BY <1>1, <1>3, ModFacts, Zenon

(* Requests of a slot are told apart by their sequence ids. *)
LEMMA SameSeq ==
  ASSUME Base, NEW s, NEW r, NEW p, NEW q, Of(s, r, q), Of(s, p, q)
  PROVE  r = p
<1>1. r \in Rids /\ p \in Rids /\ reqs[r].slot = reqs[p].slot /\ reqs[r].seq = q /\ reqs[p].seq = q
  BY Zenon DEF Of
<1>2. r \in Int /\ p \in Int /\ q \in Int
  BY SeqRange
<1>3. ~(r < p) /\ ~(p < r)
  BY <1>1, <1>2 DEF Base, RequestsInv
<1> QED BY <1>2, <1>3

(* Admission, the sequence ids being compared as numbers. *)
LEMMA AdmissionFacts ==
  ASSUME Base, NEW m \in net
  PROVE  /\ m.slot \in Slots /\ Of(m.slot, m.rid, m.seq) /\ m.seq \in 1..MaxReqs
         /\ slots[m.slot].seq \in 0..MaxReqs
         /\ sess # "up" => Admission(m) = "BADSESSION"
         /\ Admission(m) = "replay" =>
              /\ sess = "up" /\ slots[m.slot].occupied /\ m.seq = slots[m.slot].seq
              /\ ~slots[m.slot].inUse
              /\ slots[m.slot].rid = m.rid /\ slots[m.slot].reply # "nil"
         /\ Admission(m) = "rerun" =>
              /\ sess = "up" /\ slots[m.slot].occupied /\ m.seq = slots[m.slot].seq
              /\ ~slots[m.slot].inUse
              /\ slots[m.slot].rid = m.rid /\ slots[m.slot].reply = "nil" /\ slots[m.slot].restored
         /\ Admission(m) = "new" =>
              /\ sess = "up" /\ ~slots[m.slot].inUse /\ slots[m.slot].seq < m.seq
              /\ slots[m.slot].restored \/ m.seq = slots[m.slot].seq + 1
         /\ sess = "up" /\ ~slots[m.slot].inUse
              /\ Admission(m) \notin {"new", "rerun", "replay"} =>
              /\ slots[m.slot].restored => m.seq < slots[m.slot].seq
              /\ ~slots[m.slot].restored => m.seq # slots[m.slot].seq + 1
         /\ Admission(m) \in Statuses \cup {"new", "rerun", "replay", "DELAY"} /\ Admission(m) # "OK"
<1> DEFINE sl == slots[m.slot]
<1>1. m.slot \in Slots /\ Of(m.slot, m.rid, m.seq)
  BY Zenon DEF Base, Shape, ShapePeer, Messages, NetInv
<1>2. m.seq \in 1..MaxReqs /\ m.seq \in 0..MaxReqs
  BY <1>1, SeqRange, Zenon
<1>3. sl.seq \in 0..MaxReqs /\ (~sl.occupied => sl.seq = 0)
      /\ (sl.occupied => Of(m.slot, sl.rid, sl.seq))
  <2>1. CASE sl.occupied
    <3>1. Of(m.slot, sl.rid, sl.seq)
      BY <1>1, <2>1, Zenon DEF Base, OwnInv
    <3> QED BY <2>1, <3>1, SeqRange, Zenon
  <2>2. CASE ~sl.occupied
    BY <1>1, <2>2, Bounds DEF Base, SlotInv
  <2> QED BY <2>1, <2>2, Zenon
<1>4. SeqAfter(m.seq, sl.seq) <=> m.seq > sl.seq
  BY <1>2, <1>3, SeqAfterIs, Zenon
<1>5. (sl.seq + 1) % SeqIds = sl.seq + 1
  BY <1>3, NextSeq, Zenon
<1>6. sl.occupied /\ m.seq = sl.seq => sl.rid = m.rid
  BY <1>1, <1>3, SameSeq, Zenon
<1> HIDE DEF sl
<1>7. Admission(m) =
      IF sess # "up" THEN "BADSESSION"
      ELSE IF sl.occupied /\ m.seq = sl.seq
      THEN IF sl.inUse THEN "DELAY"
           ELSE IF sl.reply # "nil" THEN "replay"
           ELSE IF sl.restored THEN "rerun" ELSE "BADSESSION"
      ELSE IF ~sl.inUse /\ \/ sl.occupied /\ m.seq = sl.seq + 1
                           \/ ~sl.occupied /\ m.seq = 1
                           \/ sl.restored /\ m.seq > sl.seq
           THEN "new" ELSE "SEQ_MISORDERED"
  <2>1. Admission(m) =
        IF sess # "up" THEN "BADSESSION"
        ELSE IF sl.occupied /\ m.seq = sl.seq
        THEN IF sl.inUse THEN "DELAY"
             ELSE IF sl.rid # m.rid THEN "SEQ_FALSE_RETRY"
             ELSE IF sl.reply # "nil" THEN "replay"
             ELSE IF sl.restored THEN "rerun" ELSE "BADSESSION"
        ELSE IF ~sl.inUse /\ \/ sl.occupied /\ m.seq = (sl.seq + 1) % SeqIds
                             \/ ~sl.occupied /\ m.seq = 1
                             \/ sl.restored /\ SeqAfter(m.seq, sl.seq)
             THEN "new" ELSE "SEQ_MISORDERED"
    BY Zenon DEF Admission, sl
  <2> QED BY <1>4, <1>5, <1>6, <2>1, Zenon
<1>8. {"BADSESSION", "SEQ_MISORDERED"} \subseteq Statuses
  BY Zenon DEF Statuses
<1>9. sl.rid = m.rid \/ ~(sl.occupied /\ m.seq = sl.seq)
  BY <1>6, Zenon
<1> USE Bounds
<1>10. Admission(m) \in Statuses \cup {"new", "rerun", "replay", "DELAY"} /\ Admission(m) # "OK"
  BY <1>7, <1>8, Zenon
<1>11. sess # "up" => Admission(m) = "BADSESSION"
  BY <1>7, Zenon
<1>12. Admission(m) = "replay" =>
              /\ sess = "up" /\ sl.occupied /\ m.seq = sl.seq
              /\ ~sl.inUse
              /\ sl.rid = m.rid /\ sl.reply # "nil"
  BY <1>7, <1>9, Zenon
<1>13. Admission(m) = "rerun" =>
              /\ sess = "up" /\ sl.occupied /\ m.seq = sl.seq
              /\ ~sl.inUse
              /\ sl.rid = m.rid /\ sl.reply = "nil" /\ sl.restored
  BY <1>7, <1>9, Zenon
<1>14. Admission(m) = "new" =>
              /\ sess = "up" /\ ~sl.inUse /\ sl.seq < m.seq
              /\ sl.restored \/ m.seq = sl.seq + 1
  BY <1>2, <1>3, <1>7
<1>15. sess = "up" /\ ~sl.inUse /\ Admission(m) \notin {"new", "rerun", "replay"} =>
              /\ sl.restored => m.seq < sl.seq
              /\ ~sl.restored => m.seq # sl.seq + 1
  BY <1>2, <1>3, <1>7
<1> QED BY <1>1, <1>2, <1>3, <1>10, <1>11, <1>12, <1>13, <1>14, <1>15, Zenon DEF sl

\* The three kinds of record and their fields.
LEMMA RecShape ==
  /\ \A rec \in DiskRecs :
        /\ rec.kind \in {"NONE", "INTENT", "SLOT"} /\ rec.seq \in Nat
        /\ rec.kind = "NONE" => rec = NoRec
        /\ rec.kind = "INTENT" => rec.rid \in Nat /\ rec.val \in Pays /\ rec \in Intents
        /\ rec.kind = "SLOT" => rec.rid \in Nat /\ rec.val \in Statuses /\ rec \in Replies
  /\ NoRec \in DiskRecs /\ NoRec.kind = "NONE" /\ NoRec.seq = 0
<1>1. NoRec \in DiskRecs /\ NoRec.kind = "NONE" /\ NoRec.seq = 0
  BY Zenon DEF DiskRecs, NoRec
<1>2. ASSUME NEW rec \in Intents
      PROVE  rec.kind = "INTENT" /\ rec.seq \in Nat /\ rec.rid \in Nat /\ rec.val \in Pays
  BY Zenon DEF Intents
<1>3. ASSUME NEW rec \in Replies
      PROVE  rec.kind = "SLOT" /\ rec.seq \in Nat /\ rec.rid \in Nat /\ rec.val \in Statuses
  BY Zenon DEF Replies
<1> QED BY <1>1, <1>2, <1>3 DEF DiskRecs

\* NewestArea is an area with a record, or 0 when both are empty.
LEMMA NewestIs ==
  ASSUME Base, NEW s \in Slots
  PROVE  /\ NewestArea(s) \in 0..2
         /\ NewestArea(s) # 0 => disk.area[s][NewestArea(s)].kind # "NONE"
         /\ NewestArea(s) = 0 => \A a \in 1..2 : disk.area[s][a].kind = "NONE"
<1>1. disk.area[s] \in [1..2 -> DiskRecs]
  BY Zenon DEF Base, Shape, ShapeDisk
<1> QED BY <1>1, SMTT(60) DEF NewestArea

(* The session file.                                                         *)
LEMMA DiskWrite ==
  ASSUME ShapeDisk, NEW s \in Slots, NEW rec \in DiskRecs,
         disk' = [disk EXCEPT !.area[s][Target(s)] = rec]
  PROVE  /\ disk' \in [there : BOOLEAN, area : [Slots -> [1..2 -> DiskRecs]]]
         /\ Target(s) \in 1..2
         /\ disk'.there = disk.there
         /\ disk'.area[s][Target(s)] = rec
         /\ \A a \in 1..2 : a # Target(s) => disk'.area[s][a] = disk.area[s][a]
         /\ \A o \in Slots : o # s => disk'.area[o] = disk.area[o]
<1>1. cur[s] \in 0..2 /\ disk.area \in [Slots -> [1..2 -> DiskRecs]] /\ disk.there \in BOOLEAN
  BY Zenon DEF ShapeDisk
<1>2. Target(s) \in 1..2
  BY <1>1 DEF Target
<1> DEFINE b == [disk.area EXCEPT ![s] = [disk.area[s] EXCEPT ![Target(s)] = rec]]
<1>3. disk' = [disk EXCEPT !.area = b]
  BY <1>1, Zenon DEF ShapeDisk
<1>4. b \in [Slots -> [1..2 -> DiskRecs]]
  BY <1>1, <1>2, Zenon
<1>5. /\ b[s][Target(s)] = rec
      /\ \A a \in 1..2 : a # Target(s) => b[s][a] = disk.area[s][a]
      /\ \A o \in Slots : o # s => b[o] = disk.area[o]
  BY <1>1, <1>2, Zenon
<1> HIDE DEF b
<1>6. disk' \in [there : BOOLEAN, area : [Slots -> [1..2 -> DiskRecs]]] /\ disk'.area = b
  BY <1>3, <1>4, Zenon DEF ShapeDisk
<1>7. disk'.there = disk.there
  BY <1>3, <1>4, Zenon DEF ShapeDisk
<1> QED BY <1>2, <1>5, <1>6, <1>7, ZenonT(60)

\* Unlinking the file leaves the records in it alone.
LEMMA DiskGone ==
  ASSUME ShapeDisk, disk' = [disk EXCEPT !.there = FALSE]
  PROVE  /\ disk' \in [there : BOOLEAN, area : [Slots -> [1..2 -> DiskRecs]]]
         /\ ~disk'.there /\ disk'.area = disk.area
  BY Zenon DEF ShapeDisk

\* The intent a compound writes carries its slot's sequence id.
LEMMA IntentShape ==
  ASSUME Base, NEW s \in Slots, th[s].pc = "iwrite"
  PROVE  /\ IntentOf(s) \in Intents /\ Of(s, IntentOf(s).rid, IntentOf(s).seq)
         /\ IntentOf(s).kind = "INTENT" /\ IntentOf(s).seq = slots[s].seq
         /\ IntentOf(s).rid = th[s].rid /\ IntentOf(s).val = th[s].pay
<1>1. Running(s) /\ th[s].pc \in Paid
  BY Zenon DEF Running, Paid
<1>2. /\ th[s] \in Threads /\ slots[s] \in SlotRecs /\ Of(s, th[s].rid, slots[s].seq)
      /\ th[s].pay \in Pays /\ slots[s].seq \in Nat /\ th[s].rid \in Nat
  BY <1>1, RunningFacts, Zenon DEF Base, SlotInv, PaysFor, SlotRecs
<1> QED BY <1>2, Zenon DEF IntentOf, Intents

\* A submitted call is an operation of a request of its slot.
LEMMA CallRange ==
  ASSUME Base, CallsInv, NEW c \in calls
  PROVE  /\ c \in CallRecs /\ c.rid \in 1..MaxReqs /\ c.pay.op \in 1..MaxOps /\ c.slot \in Slots
         /\ c.pay \in Pays /\ c.life \in Nat /\ c.rid \in Rids
<1>1. c \in CallRecs
  BY Zenon DEF Base, Shape, ShapeFs
<1>2. c.slot \in Slots /\ c.pay \in Pays /\ c.life \in Nat
  BY <1>1, Zenon DEF CallRecs
<1>3. c.rid \in Rids /\ c.pay.op \in Ops(c.rid)
  BY Zenon DEF CallsInv
<1>4. c.rid \in 1..MaxReqs
  BY <1>3, Bounds DEF Rids, Base, Shape, ShapePeer
<1>5. Len(reqs[c.rid].ops) \in 1..MaxOps
  BY <1>3, Zenon DEF Base, RequestsInv
<1>6. c.pay.op \in 1..MaxOps
  BY <1>3, <1>5, Bounds, SMTT(60) DEF Ops
<1> QED BY <1>1, <1>2, <1>3, <1>4, <1>6, Zenon

\* A natural number has a successor.
LEMMA OneMore == \A n \in Nat : n + 1 \in Nat
  OBVIOUS

\* Counting one effect changes that count alone.
LEMMA DoneStep ==
  ASSUME done \in [1..MaxReqs -> [1..MaxOps -> Nat]], NEW r \in 1..MaxReqs, NEW i \in 1..MaxOps,
         done' = [done EXCEPT ![r][i] = @ + 1]
  PROVE  /\ done' \in [1..MaxReqs -> [1..MaxOps -> Nat]]
         /\ done'[r][i] = done[r][i] + 1
         /\ \A q \in 1..MaxReqs : \A j \in 1..MaxOps : q # r \/ j # i => done'[q][j] = done[q][j]
<1> DEFINE n == done[r][i] + 1
           y == [done[r] EXCEPT ![i] = n]
<1>1. n \in Nat
  <2>1. done[r] \in [1..MaxOps -> Nat]
    BY Zenon
  <2>2. done[r][i] \in Nat
    BY <2>1, Zenon
  <2> QED BY <2>2, OneMore, Zenon
<1>2. done' = [done EXCEPT ![r] = y]
  <2>1. done' = [done EXCEPT ![r] = [done[r] EXCEPT ![i] = done[r][i] + 1]]
    BY Zenon
  <2> QED BY <2>1, Zenon
<1> HIDE DEF n
<1>3. y \in [1..MaxOps -> Nat] /\ y[i] = n /\ \A j \in 1..MaxOps : j # i => y[j] = done[r][j]
  BY <1>1, Zenon
<1> HIDE DEF y
<1>4. done'[r] = y /\ \A q \in 1..MaxReqs : q # r => done'[q] = done[q]
  BY <1>2, Zenon
<1>5. done' \in [1..MaxReqs -> [1..MaxOps -> Nat]]
  BY <1>2, <1>3, Zenon
<1> QED BY <1>3, <1>4, <1>5, Zenon DEF n

\* The client's sequence id and request are in range.
LEMMA ClientRange ==
  ASSUME Base, NEW s \in Slots
  PROVE  /\ client[s].seq \in 0..MaxReqs /\ client[s].rid \in 0..Len(reqs) /\ client[s].seq <= client[s].rid
         /\ client[s] \in ClientRecs
<1>1. client[s] \in ClientRecs
  BY Zenon DEF Base, Shape, ShapePeer
<1>2. CASE client[s].rid = 0 /\ client[s].seq = 0
  BY <1>1, <1>2, Bounds DEF Base, Shape, ShapePeer
<1>3. CASE Of(s, client[s].rid, client[s].seq)
  BY <1>1, <1>3, SeqRange DEF Of, Rids
<1> QED BY <1>2, <1>3, Zenon DEF Base, ClientsInv

\* The reply record a compound writes carries its slot's sequence id.
LEMMA SlotRecShape ==
  ASSUME Base, NEW s \in Slots, Running(s)
  PROVE  /\ SlotOf(s) \in Replies /\ Of(s, SlotOf(s).rid, SlotOf(s).seq)
         /\ SlotOf(s).kind = "SLOT" /\ SlotOf(s).seq = slots[s].seq
         /\ SlotOf(s).rid = th[s].rid /\ SlotOf(s).val = Saved(s)
<1>1. /\ slots[s] \in SlotRecs /\ Of(s, th[s].rid, slots[s].seq) /\ slots[s].seq \in Nat /\ th[s].rid \in Nat
  BY RunningFacts, Zenon DEF SlotRecs
<1> QED BY <1>1, SavedShape, Zenon DEF SlotOf, Replies

\* A step that only moves a running thread is an inner step.
LEMMA InnerMoves ==
  ASSUME NEW s \in Slots, Running(s), Moves(s), UNCHANGED <<slots, sess, peer>>
  PROVE  Inner
  BY Zenon DEF Inner, Moves, Running

\* The steps of a compound and of TernFS leave slots, session and peer alone.
LEMMA InnerSteps ==
  ASSUME Base, CallsInv
  PROVE  /\ \A s \in Slots : \/ GatesStep(s) \/ DecideStep(s) \/ LookStep(s) \/ PersistStep(s)
                             \/ IWrittenStep(s) \/ SubmitStep(s) \/ NoAnswerStep(s)
                             => Inner
         /\ \A c \in calls : LandsStep(c) => Inner
         /\ OtherStep => Inner
<1>1. ASSUME NEW s \in Slots, GatesStep(s) PROVE Inner
  <2>1. Running(s) /\ Moves(s) /\ UNCHANGED <<slots, sess, peer>>
    BY <1>1, Zenon DEF GatesStep, Running
  <2> QED BY <2>1, InnerMoves, Zenon
<1>2. ASSUME NEW s \in Slots, DecideStep(s) PROVE Inner
  <2>1. Running(s) /\ Moves(s) /\ UNCHANGED <<slots, sess, peer>>
    BY <1>2, Zenon DEF DecideStep, Running
  <2> QED BY <2>1, InnerMoves, Zenon
<1>3. ASSUME NEW s \in Slots, LookStep(s) PROVE Inner
  <2>1. Running(s) /\ Moves(s) /\ UNCHANGED <<slots, sess, peer>>
    BY <1>3, Zenon DEF LookStep, Running
  <2> QED BY <2>1, InnerMoves, Zenon
<1>4. ASSUME NEW s \in Slots, PersistStep(s) PROVE Inner
  <2>1. Running(s) /\ Moves(s) /\ UNCHANGED <<slots, sess, peer>>
    BY <1>4, Zenon DEF PersistStep, Running
  <2> QED BY <2>1, InnerMoves, Zenon
<1>5. ASSUME NEW s \in Slots, IWrittenStep(s) PROVE Inner
  <2>1. Running(s) /\ Moves(s) /\ UNCHANGED <<slots, sess, peer>>
    BY <1>5, Zenon DEF IWrittenStep, Running
  <2> QED BY <2>1, InnerMoves, Zenon
<1>6. ASSUME NEW s \in Slots, SubmitStep(s) PROVE Inner
  <2>1. Running(s) /\ Moves(s) /\ UNCHANGED <<slots, sess, peer>>
    BY <1>6, Zenon DEF SubmitStep, Running
  <2> QED BY <2>1, InnerMoves, Zenon
<1>7. ASSUME NEW s \in Slots, NoAnswerStep(s) PROVE Inner
  <2>1. Running(s) /\ Moves(s) /\ UNCHANGED <<slots, sess, peer>>
    BY <1>7, Zenon DEF NoAnswerStep, Running
  <2> QED BY <2>1, InnerMoves, Zenon
<1>8. ASSUME NEW c \in calls, LandsStep(c) PROVE Inner
  <2>1. LandStep(c) /\ UNCHANGED <<slots, sess, peer>> /\ c.slot \in Slots
    BY <1>8, Zenon DEF LandsStep, LandStep
  <2>2. CASE Hears(c)
    <3>1. Running(c.slot) /\ Moves(c.slot)
      BY <2>1, <2>2, Zenon DEF Hears, LandStep, Running
    <3> QED BY <2>1, <3>1, InnerMoves, Zenon
  <2>3. CASE ~Hears(c)
    <3>1. th' = th
      BY <2>1, <2>3, Zenon DEF LandStep
    <3> QED BY <2>1, <3>1, Zenon DEF Inner, Running
  <2> QED BY <2>2, <2>3, Zenon
<1>9. ASSUME OtherStep PROVE Inner
  BY <1>9, Zenon DEF OtherStep, mem, Inner, Running
<1> QED BY <1>1, <1>2, <1>3, <1>4, <1>5, <1>6, <1>7, <1>8, <1>9, Zenon

\* A record carries a sequence id within the bound.
LEMMA SeqOfRec ==
  ASSUME Base, NEW s \in Slots, NEW a \in 1..2
  PROVE  /\ disk.area[s][a] \in DiskRecs /\ disk.area[s][a].seq \in 0..MaxReqs
         /\ disk.area[s][a].kind \in {"NONE", "INTENT", "SLOT"}
<1>1. disk.area[s][a] \in DiskRecs
  BY DEF Base, Shape, ShapeDisk
<1>2. CASE disk.area[s][a].kind = "NONE"
  BY <1>1, <1>2, RecShape, Bounds
<1>3. CASE disk.area[s][a].kind # "NONE"
  BY <1>1, <1>3, RecShape, SeqRange, Zenon DEF Base, AreaInv
<1> QED BY <1>2, <1>3, Zenon

\* newer is later by sequence id, or the reply after the intent.
LEMMA NewerIs ==
  ASSUME Base, NEW s \in Slots, NEW a \in 1..2, NEW b \in 1..2
  PROVE  newer(disk.area[s][a], disk.area[s][b]) <=>
            \/ disk.area[s][a].seq > disk.area[s][b].seq
            \/ /\ disk.area[s][a].seq = disk.area[s][b].seq
               /\ disk.area[s][a].kind = "SLOT" /\ disk.area[s][b].kind = "INTENT"
  BY SeqOfRec, SeqAfterIs, Zenon DEF newer

\* The newest record belongs to a request of its slot and no record is newer.
LEMMA NewestFacts ==
  ASSUME Base, NEW s \in Slots
  PROVE  /\ NewestArea(s) \in 0..2
         /\ NewestArea(s) = 0 => \A a \in 1..2 : disk.area[s][a].kind = "NONE"
         /\ NewestArea(s) # 0 =>
              /\ NewestArea(s) \in 1..2 /\ Newest(s) \in DiskRecs /\ Newest(s).kind \in {"INTENT", "SLOT"}
              /\ Newest(s).seq \in 1..MaxReqs /\ Of(s, Newest(s).rid, Newest(s).seq)
              /\ \A a \in 1..2 : disk.area[s][a].kind # "NONE" =>
                    /\ disk.area[s][a].seq <= Newest(s).seq
                    /\ disk.area[s][a].seq = Newest(s).seq /\ disk.area[s][a].kind = "SLOT"
                          => Newest(s).kind = "SLOT"
<1>1. /\ NewestArea(s) \in 0..2 /\ (NewestArea(s) = 0 => \A a \in 1..2 : disk.area[s][a].kind = "NONE")
      /\ NewestArea(s) # 0 => Newest(s).kind # "NONE"
  BY NewestIs, Zenon DEF Newest
<1> SUFFICES ASSUME NewestArea(s) # 0
             PROVE  /\ NewestArea(s) \in 1..2 /\ Newest(s) \in DiskRecs /\ Newest(s).kind \in {"INTENT", "SLOT"}
                    /\ Newest(s).seq \in 1..MaxReqs /\ Of(s, Newest(s).rid, Newest(s).seq)
                    /\ \A a \in 1..2 : disk.area[s][a].kind # "NONE" =>
                          /\ disk.area[s][a].seq <= Newest(s).seq
                          /\ disk.area[s][a].seq = Newest(s).seq /\ disk.area[s][a].kind = "SLOT"
                                => Newest(s).kind = "SLOT"
  BY <1>1, Zenon
<1>2. NewestArea(s) \in 1..2
  BY <1>1
<1>3. Newest(s) \in DiskRecs /\ Newest(s).kind \in {"INTENT", "SLOT"} /\ Newest(s).seq \in 0..MaxReqs
  BY <1>1, <1>2, SeqOfRec, Zenon DEF Newest
<1>4. Of(s, Newest(s).rid, Newest(s).seq)
  BY <1>1, <1>2, Zenon DEF Base, AreaInv, Newest
<1>5. Newest(s).seq \in 1..MaxReqs
  BY <1>4, SeqRange, Zenon
<1>6. ASSUME NEW a \in 1..2, disk.area[s][a].kind # "NONE"
      PROVE  /\ disk.area[s][a].seq <= Newest(s).seq
             /\ disk.area[s][a].seq = Newest(s).seq /\ disk.area[s][a].kind = "SLOT" => Newest(s).kind = "SLOT"
  <2>1. /\ disk.area[s][1].seq \in 0..MaxReqs /\ disk.area[s][2].seq \in 0..MaxReqs
        /\ disk.area[s][1].kind \in {"NONE", "INTENT", "SLOT"} /\ disk.area[s][2].kind \in {"NONE", "INTENT", "SLOT"}
    BY SeqOfRec
  <2>2. CASE NewestArea(s) = 1
    <3>1. a = 2 => ~newer(disk.area[s][2], disk.area[s][1])
      BY <1>6, <2>2 DEF NewestArea
    <3> QED BY <1>3, <2>1, <2>2, <3>1, NewerIs, Bounds, SMTT(60) DEF Newest
  <2>3. CASE NewestArea(s) = 2
    <3>1. a = 1 => newer(disk.area[s][2], disk.area[s][1])
      BY <1>6, <2>3, SMTT(60) DEF NewestArea
    <3> QED BY <1>3, <2>1, <2>3, <3>1, NewerIs, Bounds, SMTT(60) DEF Newest
  <2> QED BY <1>2, <2>2, <2>3
<1> QED BY <1>2, <1>3, <1>4, <1>5, <1>6, Zenon

\* Records that do not change keep the newest one.
LEMMA NewestSame ==
  ASSUME NEW s \in Slots, disk'.area[s] = disk.area[s]
  PROVE  NewestArea(s)' = NewestArea(s) /\ Newest(s)' = Newest(s)
  BY Zenon DEF NewestArea, newer, Newest

\* Invalidating the file does not change its records.
LEMMA InvalidatedRows ==
  ASSUME Base, Invalidated \/ disk' = disk
  PROVE  disk'.area = disk.area /\ (disk'.there => disk.there)
  BY DiskGone, Zenon DEF Invalidated, Base, Shape

(* What a step does to the records of the slots it is not about. *)
LEMMA DiskStep ==
  ASSUME Base, NEW s \in Slots,
         \/ BeginWrite(s) /\ cur' = cur
         \/ Invalidated /\ cur' = cur
         \/ disk' = disk /\ cur' = cur
         \/ th[s].pc = "iwrite" /\ EndWrite(s, IntentOf(s))
         \/ th[s].pc = "fwrite" /\ EndWrite(s, SlotOf(s))
  PROVE  /\ disk'.there => disk.there
         /\ \A o \in Slots : o # s => disk'.area[o] = disk.area[o] /\ cur'[o] = cur[o]
<1>1. CASE BeginWrite(s) /\ cur' = cur
  BY <1>1, RecShape, DiskWrite, ZenonT(60) DEF BeginWrite, Base, Shape
<1>2. CASE (Invalidated \/ disk' = disk) /\ cur' = cur
  BY <1>2, InvalidatedRows, Zenon
<1>3. ASSUME NEW rec \in DiskRecs, EndWrite(s, rec)
      PROVE  /\ disk'.there => disk.there
             /\ \A o \in Slots : o # s => disk'.area[o] = disk.area[o] /\ cur'[o] = cur[o]
  BY <1>3, DiskWrite, Zenon DEF EndWrite, Base, Shape, ShapeDisk
<1>4. th[s].pc = "iwrite" => IntentOf(s) \in DiskRecs
  BY IntentShape, Zenon DEF DiskRecs
<1>5. th[s].pc = "fwrite" => SlotOf(s) \in DiskRecs
  BY SlotRecShape, Zenon DEF DiskRecs, Running
<1> QED BY <1>1, <1>2, <1>3, <1>4, <1>5, Zenon

(* Requests are only added. *)
LEMMA RequestsKept ==
  ASSUME Base, CallsInv, Step
  PROVE  Rids \subseteq Rids' /\ \A r \in Rids : reqs'[r] = reqs[r]
<1>1. ASSUME NEW s \in Slots, SendStep(s)
      PROVE  Rids \subseteq Rids' /\ \A r \in Rids : reqs'[r] = reqs[r]
  BY <1>1, Zenon DEF SendStep
<1>2. CASE reqs' = reqs
  BY <1>2, Zenon DEF Rids
<1>3. ASSUME NEW s \in Slots, \/ RetransmitStep(s) \/ GatesStep(s) \/ DecideStep(s) \/ SubmitStep(s)
                              \/ LookStep(s) \/ PersistStep(s) \/ IWrittenStep(s)
                              \/ NoAnswerStep(s)
      PROVE  reqs' = reqs
  BY <1>3, Zenon DEF RetransmitStep, GatesStep, DecideStep, LookStep, PersistStep, IWrittenStep, SubmitStep,
              NoAnswerStep, peer
<1>4. ASSUME NEW s \in Slots, FinishStep(s) \/ SWrittenStep(s)
      PROVE  reqs' = reqs
  BY <1>4, Zenon DEF FinishStep, SWrittenStep, Leaves
<1>5. ASSUME NEW m \in net, StartStep(m) \/ ServeStep(m)
      PROVE  reqs' = reqs
  BY <1>5, Zenon DEF StartStep, ServeStep, peer
<1>6. ASSUME NEW c \in calls, LandsStep(c)
      PROVE  reqs' = reqs
  BY <1>6, Zenon DEF LandsStep, LandStep, peer
<1>7. CASE RetireStep \/ CloseStep \/ KillStep \/ RestoreStep \/ OtherStep \/ UNCHANGED vars
  BY <1>2, <1>7, Zenon DEF RetireStep, CloseStep, KillStep, RestoreStep, OtherStep, vars, peer
<1> QED BY <1>1, <1>2, <1>3, <1>4, <1>5, <1>6, <1>7, Zenon DEF Step

(* A file that is gone does not come back. *)
LEMMA DiskShrinks ==
  ASSUME Base, CallsInv, Step, disk'.there
  PROVE  disk.there
<1>1. ASSUME NEW s \in Slots, Running(s),
             \/ BeginWrite(s) /\ cur' = cur
             \/ Invalidated /\ cur' = cur
             \/ disk' = disk /\ cur' = cur
             \/ th[s].pc = "iwrite" /\ EndWrite(s, IntentOf(s))
             \/ th[s].pc = "fwrite" /\ EndWrite(s, SlotOf(s))
      PROVE  disk.there
  BY <1>1, DiskStep, Zenon
<1>2. ASSUME NEW s \in Slots, \/ GatesStep(s) \/ PersistStep(s) \/ IWrittenStep(s)
                              \/ FinishStep(s) \/ SWrittenStep(s)
      PROVE  disk.there
  <2>1. Running(s)
    BY <1>2, Zenon DEF GatesStep, PersistStep, IWrittenStep, FinishStep, SWrittenStep, Running
  <2> QED BY <1>1, <1>2, <2>1, Zenon DEF GatesStep, PersistStep, IWrittenStep, FinishStep, SWrittenStep
<1>3. ASSUME NEW s \in Slots, \/ SendStep(s) \/ RetransmitStep(s) \/ DecideStep(s)
                              \/ LookStep(s) \/ SubmitStep(s) \/ NoAnswerStep(s)
      PROVE  disk.there
  BY <1>3, Zenon DEF SendStep, RetransmitStep, DecideStep, LookStep, SubmitStep, NoAnswerStep
<1>4. ASSUME NEW m \in net, StartStep(m) \/ ServeStep(m)
      PROVE  disk.there
  BY <1>4, Zenon DEF StartStep, ServeStep
<1>5. ASSUME NEW c \in calls, LandsStep(c)
      PROVE  disk.there
  BY <1>5, Zenon DEF LandsStep, LandStep
<1>6. CASE RetireStep \/ CloseStep \/ KillStep \/ RestoreStep \/ OtherStep \/ UNCHANGED vars
  BY <1>6, Zenon DEF RetireStep, CloseStep, KillStep, RestoreStep, OtherStep, vars
<1> QED BY <1>2, <1>3, <1>4, <1>5, <1>6, Zenon DEF Step

\* What a step of the system can be for the compound of one slot.
LEMMA ThreadSteps ==
  ASSUME Base, CallsInv, Step, NEW s \in Slots
  PROVE  ThreadStep(s)
<1>1. ASSUME NEW o \in Slots, \/ GatesStep(o) \/ DecideStep(o) \/ LookStep(o) \/ PersistStep(o)
                              \/ IWrittenStep(o) \/ SubmitStep(o) \/ NoAnswerStep(o)
      PROVE  ThreadStep(s)
  <2>1. Moves(o)
    BY <1>1, Zenon DEF GatesStep, DecideStep, LookStep, PersistStep, IWrittenStep, SubmitStep, NoAnswerStep
  <2> QED BY <1>1, <2>1, Zenon DEF Moves, ThreadStep
<1>2. ASSUME NEW o \in Slots, FinishStep(o) \/ SWrittenStep(o)
      PROVE  ThreadStep(s)
  <2>1. CASE Leaves(o)
    BY <2>1, IdleShape, Zenon DEF Leaves, ThreadStep, Running
  <2>2. CASE ~Leaves(o)
    <3>1. FinishStep(o) /\ Moves(o) /\ Same(o) /\ th'[o].pc = "fwrite" /\ th'[o].op = th[o].op
          /\ th'[o].status = th[o].status /\ slots'[o].reply = Saved(o)
      BY <1>2, <2>2, Zenon DEF FinishStep, SWrittenStep
    <3> QED BY <3>1, Zenon DEF Moves, ThreadStep
  <2> QED BY <2>1, <2>2, Zenon
<1>3. ASSUME NEW m \in net, StartStep(m)
      PROVE  ThreadStep(s)
  <2>1. m.slot # s => th'[s] = th[s]
    BY <1>3, Zenon DEF StartStep
  <2> QED BY <1>3, <2>1, Zenon DEF ThreadStep
<1>4. CASE th' = th
  BY <1>4, Zenon DEF ThreadStep
<1>5. ASSUME NEW o \in Slots, SendStep(o) \/ RetransmitStep(o)
      PROVE  ThreadStep(s)
  BY <1>4, <1>5, Zenon DEF SendStep, RetransmitStep, mem
<1>6. ASSUME NEW m \in net, ServeStep(m)
      PROVE  ThreadStep(s)
  BY <1>4, <1>6, Zenon DEF ServeStep, mem
<1>7. ASSUME NEW c \in calls, LandsStep(c)
      PROVE  ThreadStep(s)
  <2>1. LandStep(c)
    BY <1>7, Zenon DEF LandsStep
  <2>2. CASE Hears(c) /\ c.slot = s
    BY <1>7, <2>2, Zenon DEF ThreadStep
  <2>3. CASE Hears(c) /\ c.slot # s
    BY <2>1, <2>3, Zenon DEF LandStep, Moves, ThreadStep
  <2>4. CASE ~Hears(c)
    BY <1>4, <2>1, <2>4, Zenon DEF LandStep
  <2> QED BY <2>2, <2>3, <2>4, Zenon
<1>8. CASE KillStep
  BY <1>8, Zenon DEF KillStep, ThreadStep, Running
<1>9. CASE RetireStep \/ CloseStep \/ RestoreStep \/ OtherStep \/ UNCHANGED vars
  BY <1>4, <1>9, Zenon DEF RetireStep, CloseStep, RestoreStep, OtherStep, vars, mem
<1> QED BY <1>1, <1>2, <1>3, <1>5, <1>6, <1>7, <1>8, <1>9, Zenon DEF Step

\* Calls are submitted by compounds; only a kill ends a life.
LEMMA LifeStep ==
  ASSUME Base, CallsInv, Step
  PROVE  \/ KillStep
         \/ /\ used'["kills"] = used["kills"] /\ (sess' = "down" => sess = "down")
            /\ calls' \subseteq calls \/ \E s \in Slots : SubmitStep(s)
<1> DEFINE Kept == /\ used'["kills"] = used["kills"] /\ (sess' = "down" => sess = "down")
                   /\ calls' \subseteq calls \/ \E s \in Slots : SubmitStep(s)
<1>1. ASSUME NEW s \in Slots, \/ SendStep(s) \/ RetransmitStep(s) \/ DecideStep(s)
                              \/ LookStep(s) \/ PersistStep(s) \/ NoAnswerStep(s)
      PROVE  Kept
  BY <1>1, Zenon DEF SendStep, RetransmitStep, DecideStep, LookStep, PersistStep, NoAnswerStep, fsys, mem
<1>2. ASSUME NEW s \in Slots, SubmitStep(s)
      PROVE  Kept
  BY <1>2, Zenon DEF SubmitStep
<1>3. ASSUME NEW s \in Slots, GatesStep(s) \/ IWrittenStep(s)
      PROVE  Kept
  BY <1>3, Zenon DEF GatesStep, IWrittenStep, Invalidated, EndWrite, fsys
<1>4. ASSUME NEW s \in Slots, FinishStep(s) \/ SWrittenStep(s)
      PROVE  Kept
  BY <1>4, Zenon DEF FinishStep, SWrittenStep, Invalidated, EndWrite, fsys
<1>5. ASSUME NEW m \in net, StartStep(m) \/ ServeStep(m)
      PROVE  Kept
  BY <1>5, Zenon DEF StartStep, ServeStep, fsys, mem
<1>6. ASSUME NEW c \in calls, LandsStep(c)
      PROVE  Kept
  BY <1>6, Zenon DEF LandsStep, LandStep
<1>7. CASE RetireStep \/ CloseStep \/ RestoreStep \/ OtherStep \/ UNCHANGED vars
  BY <1>7, Zenon DEF RetireStep, CloseStep, RestoreStep, OtherStep, vars, fsys, mem
<1> QED BY <1>1, <1>2, <1>3, <1>4, <1>5, <1>6, <1>7, Zenon DEF Step, Kept

(* A call that was not there before is the one its compound submits. *)
LEMMA NewCall ==
  ASSUME Base, CallsInv, Step, NEW c \in calls', c \notin calls
  PROVE  \E s \in Slots : /\ SubmitStep(s) /\ c = CallOf(s) /\ Running(s) /\ c.rid = th[s].rid
                          /\ c.slot = s /\ c.pay = th[s].pay
<1>1. ~KillStep
  BY Zenon DEF KillStep, fsys
<1>2. PICK s \in Slots : SubmitStep(s)
  BY <1>1, LifeStep, Zenon
<1>3. c = CallOf(s) /\ Running(s)
  BY <1>2, Zenon DEF SubmitStep, Running
<1>4. c.rid = th[s].rid /\ c.slot = s /\ c.pay = th[s].pay
  BY <1>3, Zenon DEF CallOf
<1> QED BY <1>2, <1>3, <1>4, Zenon

(* The call the compound hears of is the only one of its own. *)
LEMMA HeardCall ==
  ASSUME Base, CallsInv, LivesInv, NEW c \in calls, Hears(c), NEW d \in calls, d.rid = c.rid
  PROVE  /\ d = c \/ Old(d)
         /\ c.pay = th[c.slot].pay
<1>1. c.slot \in Slots /\ c \in CallRecs /\ d \in CallRecs /\ d.life \in Nat /\ c.life \in Nat
  BY CallRange, Zenon
<1>2. th[c.slot].pc = "wait" /\ th[c.slot].rid = c.rid /\ c.life = used["kills"]
  BY Zenon DEF Hears
<1>3. used["kills"] \in Nat
  BY Zenon DEF Base, Shape, ShapeFs, Troubles
<1>4. c.pay = th[c.slot].pay
  BY <1>1, <1>2, <1>3 DEF LivesInv, Lives, Old
<1>5. Old(d) \/ d.pay = c.pay
  BY <1>1, <1>2, <1>4, Zenon DEF LivesInv, Lives
<1>6. d.slot = c.slot /\ d.life <= used["kills"]
  BY Zenon DEF CallsInv
<1>7. ~Old(d) => d.life = c.life
  BY <1>1, <1>2, <1>3, <1>6 DEF Old
<1>8. ~Old(d) => d = c
  BY <1>1, <1>5, <1>6, <1>7 DEF CallRecs
<1> QED BY <1>4, <1>8, Zenon

\* Only the request its client waits for is taken up.
LEMMA StartsWaiting ==
  ASSUME Base, WireInv, NEW m \in net, StartStep(m)
  PROVE  /\ m.rid = client[m.slot].rid /\ client[m.slot].waiting
         /\ m.seq = client[m.slot].seq
<1> DEFINE s == m.slot
<1>1. /\ s \in Slots /\ Of(s, m.rid, m.seq) /\ sess = "up" /\ sess' = sess /\ net' = net /\ client' = client
      /\ Wire(s) /\ slots[s].seq \in Nat /\ m.seq \in Nat
  BY SeqRange, Zenon DEF StartStep, peer, WireInv, Base, Shape, ShapeMem, SlotRecs
<1>2. ~Stale(m, s)
  BY <1>1, SMTT(60) DEF StartStep, Wire
<1>3. m.rid = client[s].rid /\ client[s].waiting
  BY <1>2, Zenon DEF Stale
<1>4. m.seq = client[s].seq
  BY <1>1, <1>3, ZenonT(60) DEF Base, ClientsInv, Of
<1> QED BY <1>3, <1>4, Zenon
=============================================================================
