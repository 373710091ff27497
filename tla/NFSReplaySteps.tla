------------------------------ MODULE NFSReplaySteps ------------------------
(***************************************************************************)
(* Every step of NFSReplay keeps the shape of the state and is a step that *)
(* Step of NFSReplayInv describes.  The descriptions come first, each shown*)
(* to keep the shape; then each action is shown to meet its description.   *)
(***************************************************************************)
EXTENDS NFSReplay, NFSReplayFacts

(* Base is inductive.  The steps of a compound come first.                   *)
GoodPc(s) ==
    /\ th'[s].pc \notin {"idle", "fwrite"}
    /\ th'[s].op \in Ops(th[s].rid)
    /\ th'[s].pc = "iwrite" => file' = "live"
    /\ th'[s].pc \in Inside => Protected(Op(s)) /\ th'[s].mutated /\ th'[s].op = th[s].op
    /\ th'[s].pc \in Paid => /\ th'[s].pay \in Pays /\ th'[s].pay.op = th[s].op
                             /\ th'[s].pay.k = Op(s).k /\ th'[s].pay.from = Op(s).from
                             /\ th'[s].pay.to = Op(s).to
                             /\ th'[s].pay.k # "CREATE" => th'[s].pay.edge # NoEdge

OfNext(s, r, q) == r \in Rids' /\ reqs'[r].slot = s /\ reqs'[r].seq = q

\* An invalidated file is gone or poisoned, with the same records.
LEMMA InvalidatedFacts ==
  ASSUME Base, Invalidated, file # "none", sess' \in {"up", "retired"}, sess \in {"up", "retired"}, cur' = cur
  PROVE  /\ ShapeDisk' /\ disk'.area = disk.area /\ FileInv' /\ used' \in [Troubles -> Nat]
         /\ disk'.there => disk.there
         /\ file' # "none" /\ file' # "live"
<1>1. ShapeDisk /\ FileInv
  BY Zenon DEF Base, Shape
<1>2. CASE file # "live" /\ file' = file /\ disk' = disk
  BY <1>1, <1>2, Zenon DEF ShapeDisk, FileInv, Invalidated
<1>3. CASE file = "live" /\ file' = "gone" /\ disk' = [disk EXCEPT !.there = FALSE]
  BY <1>1, <1>3, DiskGone, Zenon DEF ShapeDisk, FileInv, Invalidated
<1>4. CASE file = "live" /\ file' = "poisoned" /\ disk' = disk
  BY <1>1, <1>4, Zenon DEF ShapeDisk, FileInv, Invalidated
<1> QED BY <1>2, <1>3, <1>4, Zenon DEF Invalidated

\* Records that do not change still belong to their requests.
LEMMA AreaKept ==
  ASSUME AreaInv, disk'.area = disk.area, UNCHANGED reqs
  PROVE  AreaInv'
  BY SMTT(60) DEF AreaInv, Of, Rids

\* A write that begins empties one area of its slot.
LEMMA BeginFacts ==
  ASSUME Base, NEW s \in Slots, BeginWrite(s), UNCHANGED <<sess, file, cur, reqs>>
  PROVE  ShapeDisk' /\ FileInv' /\ AreaInv'
<1>1. ShapeDisk /\ FileInv /\ AreaInv
  BY Zenon DEF Base, Shape
<1>2. /\ disk' \in [there : BOOLEAN, area : [Slots -> [1..2 -> DiskRecs]]]
      /\ Target(s) \in 1..2
      /\ disk'.there = disk.there
      /\ disk'.area[s][Target(s)] = NoRec
      /\ \A a \in 1..2 : a # Target(s) => disk'.area[s][a] = disk.area[s][a]
      /\ \A o \in Slots : o # s => disk'.area[o] = disk.area[o]
  BY <1>1, RecShape, DiskWrite, Zenon DEF BeginWrite
<1>3. ShapeDisk' /\ FileInv'
  BY <1>1, <1>2, Zenon DEF ShapeDisk, FileInv
<1>4. ASSUME NEW o \in Slots, NEW a \in 1..2, disk'.area[o][a].kind # "NONE"
      PROVE  Of(o, disk'.area[o][a].rid, disk'.area[o][a].seq)
  <2>1. disk'.area[o][a] = disk.area[o][a]
    BY <1>2, <1>4, RecShape, Zenon
  <2> QED BY <1>1, <1>4, <2>1, Zenon DEF AreaInv
<1> QED BY <1>3, <1>4, SMTT(60) DEF AreaInv, Of, Rids

\* A write that ends fills one area of its slot.
LEMMA EndFacts ==
  ASSUME Base, NEW s \in Slots, NEW rec \in Intents \cup Replies, EndWrite(s, rec),
         Of(s, rec.rid, rec.seq), UNCHANGED <<sess, reqs>>
  PROVE  ShapeDisk' /\ FileInv' /\ AreaInv'
<1>1. ShapeDisk /\ FileInv /\ AreaInv
  BY Zenon DEF Base, Shape
<1>2. /\ disk' \in [there : BOOLEAN, area : [Slots -> [1..2 -> DiskRecs]]]
      /\ Target(s) \in 1..2
      /\ disk'.there = disk.there
      /\ disk'.area[s][Target(s)] = rec
      /\ \A a \in 1..2 : a # Target(s) => disk'.area[s][a] = disk.area[s][a]
      /\ \A o \in Slots : o # s => disk'.area[o] = disk.area[o]
  <2>1. rec \in DiskRecs
    BY Zenon DEF DiskRecs
  <2> QED BY <1>1, <2>1, DiskWrite, Zenon DEF EndWrite
<1>5. cur' = [cur EXCEPT ![s] = Target(s)] /\ file' = file
  BY Zenon DEF EndWrite
<1>6. cur' \in [Slots -> 0..2]
  BY <1>1, <1>2, <1>5 DEF ShapeDisk
<1>3. ShapeDisk' /\ FileInv'
  BY <1>1, <1>2, <1>5, <1>6, Zenon DEF ShapeDisk, FileInv
<1>4. ASSUME NEW o \in Slots, NEW a \in 1..2, disk'.area[o][a].kind # "NONE"
      PROVE  Of(o, disk'.area[o][a].rid, disk'.area[o][a].seq)
  <2>1. CASE o = s /\ a = Target(s)
    BY <1>2, <2>1, Zenon
  <2>2. CASE ~(o = s /\ a = Target(s))
    <3>1. disk'.area[o][a] = disk.area[o][a]
      BY <1>2, <2>2, Zenon
    <3> QED BY <1>1, <1>4, <3>1, Zenon DEF AreaInv
  <2> QED BY <2>1, <2>2, Zenon
<1> QED BY <1>3, <1>4, Zenon DEF AreaInv, Of, Rids

\* A compound that stops or goes on is at a place it may be at.
LEMMA StopGoGood ==
  ASSUME Base, NEW s \in Slots, Running(s), Stops(s) \/ Goes(s)
  PROVE  GoodPc(s)
<1>1. th[s].op \in Ops(th[s].rid) /\ (Final(s) <=> th[s].op = Len(reqs[th[s].rid].ops))
      /\ Len(reqs[th[s].rid].ops) \in Nat
  BY RunningFacts, OpShape, Zenon
<1>2. th'[s].pc \in {"op", "finish"} /\ th'[s].op \in Ops(th[s].rid)
  BY <1>1 DEF Stops, Goes, Ops
<1> QED BY <1>2, Zenon DEF GoodPc, Inside, Paid

\* The shape survives a step that moves one compound.
LEMMA BaseThread ==
  ASSUME Base, NEW s \in Slots, Running(s), th[s].pc # "fwrite", Moves(s), GoodPc(s),
         UNCHANGED <<slots, sess, peer>>,
         ShapeFs', ShapeDisk', AreaInv', FileInv',
         \A o \in Slots : o # s /\ th[o].pc \in {"iwrite", "fwrite"} => file' = "live"
  PROVE  Base'
<1>1. Shape'
  BY Zenon DEF Base, Shape, ShapeMem, ShapePeer, Moves, peer
<1>2. RequestsInv' /\ ClientsInv' /\ NetInv' /\ OwnInv'
  BY Zenon DEF Base, RequestsInv, ClientsInv, NetInv, OwnInv, Of, Rids, peer
<1>3. ASSUME NEW o \in Slots, o # s
      PROVE  SlotInv(o)'
  <2>1. th'[o] = th[o] /\ slots' = slots /\ sess' = sess /\ reqs' = reqs
    BY <1>3, Zenon DEF Moves, peer
  <2>2. SlotInv(o)
    BY Zenon DEF Base
  <2>3. th[o].pc \in {"iwrite", "fwrite"} => file' = "live"
    BY <1>3, Zenon
  <2> QED BY <2>1, <2>2, <2>3, ZenonT(60) DEF SlotInv, Running, Ops, Op, PaysFor
<1>4. SlotInv(s)'
  <2>1. slots' = slots /\ sess' = sess /\ reqs' = reqs /\ th'[s].rid = th[s].rid
    BY Zenon DEF Moves, peer
  <2>2. SlotInv(s)
    BY Zenon DEF Base
  <2>3. th'[s].op = th[s].op => Op(s)' = Op(s)
    BY <2>1, Zenon DEF Op
  <2>4. th'[s].pc \in Inside => Protected(Op(s)') /\ th'[s].mutated
    BY <2>3, Zenon DEF GoodPc
  <2>5. th'[s].pc \in Paid => PaysFor(s)'
    <3>1. Paid \subseteq Inside
      BY Zenon DEF Paid, Inside
    <3> QED BY <2>3, <3>1, Zenon DEF GoodPc, PaysFor
  <2> QED BY <2>1, <2>2, <2>4, <2>5, Zenon DEF SlotInv, Running, Ops, GoodPc
<1> QED BY <1>1, <1>2, <1>3, <1>4, Zenon DEF Base

\* A step that leaves TernFS alone keeps its shape.
LEMMA FsKept ==
  ASSUME Base, UNCHANGED <<fsys, used>>
  PROVE  ShapeFs'
  BY Zenon DEF Base, Shape, ShapeFs, fsys

\* A step that leaves file and session alone keeps their shape.
LEMMA DiskKept ==
  ASSUME Base, UNCHANGED <<disk, sess, file, cur, reqs>>
  PROVE  ShapeDisk' /\ AreaInv' /\ FileInv'
<1>1. ShapeDisk /\ AreaInv /\ FileInv
  BY Zenon DEF Base, Shape
<1>2. AreaInv'
  BY <1>1, AreaKept, Zenon
<1> QED BY <1>1, <1>2, Zenon DEF ShapeDisk, FileInv

\* A record is only written to a live file.
LEMMA WritersLive ==
  ASSUME Base
  PROVE  \A o \in Slots : th[o].pc \in {"iwrite", "fwrite"} => file = "live"
  BY Zenon DEF Base, SlotInv, Running

\* The shape of the state survives the gates before an operation.
LEMMA BaseGates ==
  ASSUME Base, NEW s \in Slots, GatesStep(s)
  PROVE  Base'
<1>1. /\ th[s].pc = "op" /\ Running(s) /\ Moves(s) /\ UNCHANGED <<fsys, sess, cur, slots, peer>>
      /\ reqs' = reqs
  BY Zenon DEF GatesStep, Running, peer
<1>2. GoodPc(s)
  <2>1. CASE Stops(s) \/ Goes(s)
    BY <1>1, <2>1, StopGoGood, Zenon
  <2>2. CASE Protected(Op(s)) /\ th'[s].pc = "decide" /\ th'[s].op = th[s].op /\ th'[s].mutated
    BY <1>1, <2>2, RunningFacts, Zenon DEF GoodPc, Inside, Paid
  <2> QED BY <2>1, <2>2, Zenon DEF GatesStep
<1>3. sess \in {"up", "retired"} /\ file # "none"
  BY <1>1, RunningFacts, Zenon
<1>4. CASE Invalidated /\ ~Writing
  <2>1. ShapeDisk' /\ disk'.area = disk.area /\ FileInv' /\ used' \in [Troubles -> Nat]
    BY <1>1, <1>3, <1>4, InvalidatedFacts, Zenon
  <2>2. AreaInv'
    BY <1>1, <2>1, AreaKept, Zenon DEF Base
  <2>3. ShapeFs'
    BY <1>1, <2>1, Zenon DEF Base, Shape, ShapeFs, fsys
  <2> QED BY <1>1, <1>2, <1>4, <2>1, <2>2, <2>3, BaseThread, Zenon DEF Writing
<1>5. CASE UNCHANGED <<file, disk, used>>
  BY <1>1, <1>2, <1>5, FsKept, DiskKept, WritersLive, BaseThread, Zenon
<1> QED BY <1>4, <1>5, Zenon DEF GatesStep

\* The shape of the state survives the decision about a restored intent.
LEMMA BaseDecide ==
  ASSUME Base, NEW s \in Slots, DecideStep(s)
  PROVE  Base'
<1>1. /\ th[s].pc = "decide" /\ Running(s) /\ Moves(s)
      /\ UNCHANGED <<fsys, disk, sess, file, cur, slots, peer, used>> /\ reqs' = reqs
  BY Zenon DEF DecideStep, Running, peer
<1>2. GoodPc(s)
  <2>1. CASE Stops(s) \/ Goes(s)
    BY <1>1, <2>1, StopGoGood, Zenon
  <2>2. CASE th'[s].pc = "look" /\ th'[s].op = th[s].op
    <3>1. Protected(Op(s)) /\ th[s].mutated
      BY <1>1, Zenon DEF Base, SlotInv, Inside
    <3> QED BY <1>1, <2>2, <3>1, RunningFacts, Zenon DEF GoodPc, Inside, Paid, DecideStep
  <2> QED BY <2>1, <2>2, Zenon DEF DecideStep
<1> QED BY <1>1, <1>2, FsKept, DiskKept, WritersLive, BaseThread, Zenon

\* The shape of the state survives the lookup of the edge.
LEMMA BaseLook ==
  ASSUME Base, NEW s \in Slots, LookStep(s)
  PROVE  Base'
<1>1. /\ th[s].pc = "look" /\ Running(s) /\ Moves(s) /\ Same(s)
      /\ UNCHANGED <<fsys, disk, sess, file, cur, slots, peer, used>> /\ reqs' = reqs
  BY Zenon DEF LookStep, Running, peer
<1>2. GoodPc(s)
  <2>1. CASE Stops(s)
    BY <1>1, <2>1, StopGoGood, Zenon
  <2>2. CASE ~Stops(s)
    <3>1. Protected(Op(s)) /\ th[s].mutated
      BY <1>1, Zenon DEF Base, SlotInv, Inside
    <3> QED BY <1>1, <2>2, <3>1, RunningFacts, Zenon DEF GoodPc, Inside, Paid, LookStep, Same
  <2> QED BY <2>1, <2>2, Zenon
<1> QED BY <1>1, <1>2, FsKept, DiskKept, WritersLive, BaseThread, Zenon

(* The payload stays from the lookup to the answer. *)
LEMMA PayKept ==
  ASSUME Base, NEW s \in Slots, th[s].pc \in Paid, th'[s].pc \in Paid, th'[s].op = th[s].op,
         th'[s].pay = th[s].pay, th'[s].mutated = th[s].mutated, th'[s].pc = "iwrite" => file' = "live"
  PROVE  GoodPc(s)
<1>1. Running(s) /\ th[s].pc \in Inside
  BY Zenon DEF Running, Paid, Inside
<1>2. Protected(Op(s)) /\ th[s].mutated /\ PaysFor(s)
  BY <1>1, Zenon DEF Base, SlotInv
<1> QED BY <1>1, <1>2, RunningFacts, Zenon DEF GoodPc, Paid, PaysFor

\* Noting what an operation means keeps the shape.
LEMMA MeansShape ==
  ASSUME Base, NEW s \in Slots, th[s].pc \in Paid, Means(s) \/ meant' = meant,
         UNCHANGED <<edges, clock, calls, done, used>>
  PROVE  ShapeFs'
<1>1. CASE meant' = meant
  BY <1>1, Zenon DEF Base, Shape, ShapeFs
<1>2. CASE Means(s)
  <2>1. PaysFor(s) /\ Running(s)
    BY Zenon DEF Base, SlotInv, Running, Paid
  <2>2. th[s].pay \in Pays \cup {NoPay} /\ th[s].rid \in 1..MaxReqs /\ th[s].op \in 1..MaxOps
    BY <2>1, RunningFacts, Zenon DEF PaysFor
  <2>3. meant' \in [1..MaxReqs -> [1..MaxOps -> Pays \cup {NoPay}]]
    BY <1>2, <2>2, Zenon DEF Means, Base, Shape, ShapeFs
  <2> QED BY <2>3, Zenon DEF Base, Shape, ShapeFs
<1> QED BY <1>1, <1>2, Zenon

\* The shape of the state survives persistIntent.
LEMMA BasePersist ==
  ASSUME Base, NEW s \in Slots, PersistStep(s)
  PROVE  Base'
<1>1. /\ th[s].pc = "intent" /\ Running(s) /\ Moves(s) /\ th'[s].mutated = th[s].mutated
      /\ UNCHANGED <<edges, clock, calls, done, linked, sess, file, cur, slots, peer, used>>
      /\ reqs' = reqs /\ th[s].pc \in Paid
  BY Zenon DEF PersistStep, Running, peer, Paid
<1>2. ShapeFs'
  <2>1. Means(s) \/ meant' = meant
    BY Zenon DEF PersistStep
  <2> QED BY <1>1, <2>1, MeansShape, Zenon
<1>3. GoodPc(s)
  <2>1. CASE Stops(s)
    BY <1>1, <2>1, StopGoGood, Zenon
  <2>2. CASE ~Stops(s)
    <3>1. /\ th'[s].pc \in Paid /\ th'[s].op = th[s].op /\ th'[s].pay = th[s].pay
          /\ th'[s].pc = "iwrite" => file' = "live"
      BY <1>1, <2>2, Zenon DEF PersistStep, Paid
    <3> QED BY <1>1, <3>1, PayKept, Zenon
  <2> QED BY <2>1, <2>2, Zenon
<1>4. ShapeDisk' /\ AreaInv' /\ FileInv'
  <2>1. CASE disk' = disk
    BY <1>1, <2>1, DiskKept, Zenon
  <2>2. CASE BeginWrite(s)
    BY <1>1, <2>2, BeginFacts, Zenon
  <2> QED BY <2>1, <2>2, Zenon DEF PersistStep
<1> QED BY <1>1, <1>2, <1>3, <1>4, WritersLive, BaseThread, Zenon

\* The shape of the state survives the end of the intent write.
LEMMA BaseIWritten ==
  ASSUME Base, NEW s \in Slots, IWrittenStep(s)
  PROVE  Base'
<1>1. /\ th[s].pc = "iwrite" /\ Running(s) /\ Moves(s) /\ th'[s].mutated = th[s].mutated
      /\ UNCHANGED <<fsys, sess, slots, peer>> /\ reqs' = reqs /\ th[s].pc \in Paid /\ file = "live"
  BY Zenon DEF IWrittenStep, Running, peer, Paid
<1>3. GoodPc(s)
  <2>1. CASE Stops(s)
    BY <1>1, <2>1, StopGoGood, Zenon
  <2>2. CASE ~Stops(s)
    <3>1. th'[s].pc = "submit" /\ th'[s].op = th[s].op /\ th'[s].pay = th[s].pay
      BY <2>2, Zenon DEF IWrittenStep
    <3> QED BY <1>1, <3>1, PayKept, Zenon DEF Paid
  <2> QED BY <2>1, <2>2, Zenon
<1>4. CASE EndWrite(s, IntentOf(s))
  <2>1. ShapeDisk' /\ AreaInv' /\ FileInv'
    BY <1>1, <1>4, IntentShape, EndFacts, Zenon
  <2>2. ShapeFs' /\ file' = file
    BY <1>1, <1>4, FsKept, Zenon DEF EndWrite
  <2> QED BY <1>1, <1>3, <2>1, <2>2, BaseThread, Zenon
<1>5. CASE Alone(s) /\ Invalidated /\ cur' = cur
  <2>1. sess \in {"up", "retired"}
    BY <1>1, RunningFacts, Zenon
  <2>2. ShapeDisk' /\ disk'.area = disk.area /\ FileInv' /\ used' \in [Troubles -> Nat]
    BY <1>1, <1>5, <2>1, InvalidatedFacts, Zenon
  <2>3. AreaInv'
    BY <1>1, <2>2, AreaKept, Zenon DEF Base
  <2>4. ShapeFs'
    BY <1>1, <2>2, Zenon DEF Base, Shape, ShapeFs, fsys
  <2>5. \A o \in Slots : o # s /\ th[o].pc \in {"iwrite", "fwrite"} => file' = "live"
    BY <1>5, Zenon DEF Alone
  <2> QED BY <1>1, <1>3, <2>2, <2>3, <2>4, <2>5, BaseThread, Zenon
<1> QED BY <1>4, <1>5, Zenon DEF IWrittenStep

\* The shape of the state survives the submission of the call.
LEMMA BaseSubmit ==
  ASSUME Base, NEW s \in Slots, SubmitStep(s)
  PROVE  Base'
<1>1. /\ th[s].pc = "submit" /\ Running(s) /\ Moves(s) /\ Same(s) /\ th'[s].pc = "wait"
      /\ th'[s].op = th[s].op /\ th'[s].pay = th[s].pay
      /\ UNCHANGED <<edges, clock, done, meant, linked, disk, sess, file, cur, slots, peer, used>>
      /\ reqs' = reqs /\ th[s].pc \in Paid /\ th'[s].pc \in Paid /\ calls' = calls \cup {CallOf(s)}
  BY Zenon DEF SubmitStep, Running, peer, Paid
<1>2. GoodPc(s)
  BY <1>1, PayKept, Zenon DEF Same
<1>3. CallOf(s) \in CallRecs
  <2>1. th[s].rid \in Nat /\ th[s].pay \in Pays /\ used["kills"] \in Nat
    BY <1>1, RunningFacts, Zenon DEF Base, SlotInv, PaysFor, Shape, ShapeFs, Troubles
  <2> QED BY <2>1, Zenon DEF CallOf, CallRecs
<1>4. ShapeFs'
  BY <1>1, <1>3, Zenon DEF Base, Shape, ShapeFs
<1> QED BY <1>1, <1>2, <1>4, DiskKept, WritersLive, BaseThread, Zenon

\* The shape of the state survives a call without an answer.
LEMMA BaseNoAnswer ==
  ASSUME Base, NEW s \in Slots, NoAnswerStep(s)
  PROVE  Base'
<1>1. /\ th[s].pc = "wait" /\ Running(s) /\ Moves(s) /\ Stops(s) /\ used' \in [Troubles -> Nat]
      /\ UNCHANGED <<fsys, disk, sess, file, cur, slots, peer>> /\ reqs' = reqs
  BY Zenon DEF NoAnswerStep, Running, peer
<1>2. GoodPc(s)
  BY <1>1, StopGoGood, Zenon
<1>3. ShapeFs'
  BY <1>1, Zenon DEF Base, Shape, ShapeFs, fsys
<1> QED BY <1>1, <1>2, <1>3, DiskKept, WritersLive, BaseThread, Zenon

(* A step that leaves sessions, slots and requests alone. *)
LEMMA BaseFrame ==
  ASSUME Base, ShapeFs', UNCHANGED <<disk, mem, peer>>
  PROVE  Base'
<1>1. /\ disk' = disk /\ sess' = sess /\ file' = file /\ cur' = cur /\ slots' = slots /\ th' = th
      /\ client' = client /\ net' = net /\ reqs' = reqs /\ got' = got
  BY Zenon DEF mem, peer
<1>2. Shape'
  BY <1>1, Zenon DEF Base, Shape, ShapeDisk, ShapeMem, ShapePeer
<1>3. RequestsInv' /\ ClientsInv' /\ NetInv' /\ OwnInv' /\ AreaInv' /\ FileInv'
  <2>1. RequestsInv' /\ ClientsInv'
    BY <1>1, Zenon DEF Base, RequestsInv, ClientsInv, Of, Rids
  <2>2. NetInv' /\ OwnInv'
    BY <1>1, Zenon DEF Base, NetInv, OwnInv, Of, Rids
  <2> QED BY <1>1, <2>1, <2>2, DiskKept, Zenon
<1>4. ASSUME NEW o \in Slots
      PROVE  SlotInv(o)'
  <2>1. SlotInv(o)
    BY Zenon DEF Base
  <2> QED BY <1>1, <2>1, Zenon DEF SlotInv, Running, Ops, Op, PaysFor, Rids
<1> QED BY <1>2, <1>3, <1>4, Zenon DEF Base

-----------------------------------------------------------------------------
(* The client's steps.                                                       *)
LEMMA BaseAnswer ==
  ASSUME Base, NEW s \in Slots, NEW r \in 1..MaxReqs, NEW st \in Statuses, Answered(s, r, st),
         UNCHANGED <<net, reqs>>
  PROVE  ShapePeer' /\ ClientsInv' /\ RequestsInv' /\ NetInv'
<1>1. got' \in [1..MaxReqs -> Statuses \cup {"none"}]
  BY Zenon DEF Answered, Base, Shape, ShapePeer
<1>2. ShapePeer'
  BY <1>1, Zenon DEF Answered, Base, Shape, ShapePeer
<1>3. ASSUME NEW o \in Slots
      PROVE  /\ client'[o].rid = client[o].rid /\ client'[o].seq = client[o].seq
             /\ client'[o].waiting => client[o].waiting
  BY Zenon DEF Answered
<1>4. ClientsInv'
  BY <1>3 DEF Base, ClientsInv, Of, Rids
<1>5. RequestsInv' /\ NetInv'
  BY Zenon DEF Base, RequestsInv, NetInv, Of, Rids
<1> QED BY <1>2, <1>4, <1>5, Zenon

\* The shape survives a step of the client.
LEMMA BasePeer ==
  ASSUME Base, ShapePeer', ClientsInv', RequestsInv', NetInv', UNCHANGED <<fsys, disk, mem, used>>,
         Rids \subseteq Rids', \A r \in Rids : reqs'[r] = reqs[r]
  PROVE  Base'
<1>1. /\ disk' = disk /\ sess' = sess /\ file' = file /\ cur' = cur /\ slots' = slots /\ th' = th
  BY Zenon DEF mem
<1>2. ShapeDisk' /\ ShapeMem' /\ FileInv'
  BY <1>1, Zenon DEF Base, Shape, ShapeDisk, ShapeMem, FileInv
<1>3. ShapeFs'
  BY FsKept, Zenon
<1>4. \A s, r, q : Of(s, r, q) => Of(s, r, q)'
  BY Zenon DEF Of
<1>5. OwnInv' /\ AreaInv'
  BY <1>1, <1>4, Zenon DEF Base, OwnInv, AreaInv
<1>6. ASSUME NEW o \in Slots
      PROVE  SlotInv(o)'
  <2>1. SlotInv(o)
    BY Zenon DEF Base
  <2>2. CASE ~Running(o)
    BY <1>1, <2>1, <2>2, Zenon DEF SlotInv, Running
  <2>3. CASE Running(o)
    <3>1. th[o].rid \in Rids
      BY <2>3, RunningFacts, Zenon
    <3>2. reqs'[th[o].rid] = reqs[th[o].rid]
      BY <3>1, Zenon
    <3> QED BY <1>1, <2>1, <2>3, <3>2, Zenon DEF SlotInv, Running, Ops, Op, PaysFor
  <2> QED BY <2>2, <2>3, Zenon
<1> QED BY <1>2, <1>3, <1>5, <1>6, Zenon DEF Base, Shape

\* A step that leaves the client alone keeps its shape.
LEMMA PeerKept ==
  ASSUME Base, UNCHANGED peer
  PROVE  ShapePeer' /\ RequestsInv' /\ ClientsInv' /\ NetInv'
<1>1. ShapePeer'
  BY Zenon DEF Base, Shape, ShapePeer, peer
<1>2. RequestsInv' /\ ClientsInv' /\ NetInv'
  BY Zenon DEF Base, RequestsInv, ClientsInv, NetInv, Of, Rids, peer
<1> QED BY <1>1, <1>2, Zenon

\* The shape of the state survives startSequence.
LEMMA BaseStart ==
  ASSUME Base, NEW m \in net, StartStep(m)
  PROVE  Base'
<1>1. /\ UNCHANGED <<fsys, disk, sess, file, cur, peer, used>> /\ reqs' = reqs /\ sess = "up"
      /\ m.slot \in Slots /\ Of(m.slot, m.rid, m.seq)
  BY Zenon DEF StartStep, peer
<1>2. ShapeFs' /\ ShapeDisk' /\ AreaInv' /\ FileInv'
  BY <1>1, FsKept, DiskKept, Zenon
<1>3. ShapePeer' /\ RequestsInv' /\ ClientsInv' /\ NetInv'
  BY <1>1, PeerKept, Zenon
<1>4. ShapeMem'
  BY Zenon DEF StartStep, ShapeMem
<1>5. OwnInv'
  <2>1. ASSUME NEW o \in Slots, slots'[o].occupied
        PROVE  Of(o, slots'[o].rid, slots'[o].seq)
    BY <1>1, <2>1, Zenon DEF StartStep, Base, OwnInv
  <2> QED BY <1>1, <2>1, Zenon DEF OwnInv, Of, Rids
<1>6. ASSUME NEW o \in Slots
      PROVE  SlotInv(o)'
  <2>1. CASE o # m.slot
    <3>1. th'[o] = th[o] /\ slots'[o] = slots[o] /\ sess' = sess /\ file' = file /\ SlotInv(o)
      BY <1>1, <2>1, Zenon DEF StartStep, Base
    <3> QED BY <1>1, <3>1, ZenonT(60) DEF SlotInv, Running, Ops, Op, PaysFor, Rids
  <2>2. CASE o = m.slot
    <3>1. 1 \in Ops(m.rid)
      BY <1>1 DEF Base, RequestsInv, Of, Ops
    <3>2. /\ slots'[o].occupied /\ slots'[o].inUse /\ ~slots'[o].restored /\ slots'[o].reply = "nil"
          /\ th'[o].pc = "op" /\ th'[o].rid = slots'[o].rid /\ th'[o].rid = m.rid /\ th'[o].op = 1
      BY <2>2, Zenon DEF StartStep
    <3> QED BY <1>1, <3>1, <3>2, Zenon DEF SlotInv, Running, Ops, Inside, Paid
  <2> QED BY <2>1, <2>2, Zenon
<1> QED BY <1>2, <1>3, <1>4, <1>5, <1>6, Zenon DEF Base, Shape

\* A slot that keeps its ids still belongs to its request.
LEMMA OwnKept ==
  ASSUME Base, KeepIds, UNCHANGED reqs
  PROVE  OwnInv'
<1>1. ASSUME NEW o \in Slots, slots'[o].occupied
      PROVE  Of(o, slots'[o].rid, slots'[o].seq)
  BY <1>1, Zenon DEF KeepIds, Base, OwnInv
<1> QED BY <1>1, Zenon DEF OwnInv, Of, Rids

(* A slot whose compound was not the one that moved. *)
LEMMA SlotKept ==
  ASSUME Base, KeepIds, UNCHANGED reqs, NEW o \in Slots, th'[o] = th[o],
         slots'[o].inUse <=> slots[o].inUse, slots'[o].reply = slots[o].reply \/ slots'[o].reply = "nil",
         sess' = sess \/ (sess' = "retired" /\ sess = "up"),
         th[o].pc \in {"iwrite", "fwrite"} => file' = "live"
  PROVE  SlotInv(o)'
<1>1. SlotInv(o) /\ sess \in {"up", "retired", "unknown", "down"}
  BY Zenon DEF Base, Shape, ShapeDisk
<1>2. /\ slots'[o].seq = slots[o].seq /\ slots'[o].rid = slots[o].rid
      /\ slots'[o].intent = slots[o].intent
      /\ slots'[o].occupied <=> slots[o].occupied
      /\ slots'[o].restored <=> slots[o].restored
  BY Zenon DEF KeepIds
<1>3. CASE Running(o)
  <2>1. Op(o)' = Op(o) /\ th'[o].op \in 1..Len(reqs'[th'[o].rid].ops)
    BY <1>1, <1>3, Zenon DEF Op, Ops, SlotInv
  <2> QED BY <1>1, <1>2, <1>3, <2>1, ZenonT(60) DEF SlotInv, Running, Ops, PaysFor
<1>4. CASE ~Running(o)
  BY <1>1, <1>2, <1>4, Zenon DEF SlotInv, Running
<1> QED BY <1>3, <1>4, Zenon

(* The slot whose compound ended. *)
LEMMA SlotLeft ==
  ASSUME Base, KeepIds, NEW s \in Slots, Running(s), th'[s] = Idle, sess' = "up" => ~slots'[s].inUse
  PROVE  SlotInv(s)'
<1>1. SlotInv(s) /\ slots[s].occupied /\ ~slots[s].restored
  BY RunningFacts DEF Base
<1>2. slots'[s].occupied /\ ~slots'[s].restored
  BY <1>1, Zenon DEF KeepIds
<1> QED BY <1>2, IdleShape, Zenon DEF SlotInv, Running

\* The shape survives the end of a compound.
LEMMA BaseLeaves ==
  ASSUME Base, NEW s \in Slots, Running(s), Leaves(s), SlotsKept(s), UNCHANGED fsys,
         used' \in [Troubles -> Nat], ShapeDisk', AreaInv', FileInv',
         sess' = "up" => ~slots'[s].inUse,
         sess' = sess \/ (sess' = "retired" /\ sess = "up"),
         \A o \in Slots : o # s /\ th[o].pc \in {"iwrite", "fwrite"} => file' = "live"
  PROVE  Base'
<1>1. /\ KeepIds /\ net' = net /\ reqs' = reqs /\ th' \in [Slots -> Threads]
      /\ Answered(s, th[s].rid, th[s].status)
  BY Zenon DEF SlotsKept, Leaves
<1>2. th[s].rid \in 1..MaxReqs /\ th[s].status \in Statuses
  BY RunningFacts, Zenon DEF Threads
<1>3. ShapePeer' /\ ClientsInv' /\ RequestsInv' /\ NetInv'
  BY <1>1, <1>2, BaseAnswer, Zenon
<1>4. ShapeFs' /\ ShapeMem'
  BY <1>1, Zenon DEF Base, Shape, ShapeFs, ShapeMem, KeepIds, fsys
<1>5. OwnInv'
  BY <1>1, OwnKept, Zenon
<1>6. ASSUME NEW o \in Slots
      PROVE  SlotInv(o)'
  <2>1. CASE o = s
    BY <1>1, <2>1, SlotLeft, Zenon DEF Leaves
  <2>2. CASE o # s
    <3>1. th'[o] = th[o] /\ (slots'[o].inUse <=> slots[o].inUse)
          /\ (slots'[o].reply = slots[o].reply \/ slots'[o].reply = "nil")
      BY <2>2, Zenon DEF Leaves, SlotsKept
    <3> QED BY <1>1, <2>2, <3>1, SlotKept, Zenon
  <2> QED BY <2>1, <2>2, Zenon
<1> QED BY <1>3, <1>4, <1>5, <1>6, Zenon DEF Base, Shape

\* The shape of the state survives finish.
LEMMA BaseFinish ==
  ASSUME Base, NEW s \in Slots, FinishStep(s)
  PROVE  Base'
<1>1. /\ th[s].pc = "finish" /\ Running(s) /\ SlotsKept(s) /\ KeepIds /\ file' = file /\ cur' = cur
      /\ UNCHANGED <<fsys, used>>
  BY Zenon DEF FinishStep, SlotsKept, Running
<1>2. used' \in [Troubles -> Nat] /\ sess \in {"up", "retired"} /\ ShapeFs'
  BY <1>1, RunningFacts, FsKept, Zenon DEF Base, Shape, ShapeFs
<1>3. CASE Leaves(s) /\ disk' = disk /\ file # "none" /\ (sess' = "up" => sess = "up" /\ ~slots'[s].inUse)
           /\ sess' \in {"up", "retired"}
  <2>1. sess' = sess \/ (sess' = "retired" /\ sess = "up")
    BY <1>2, <1>3, Zenon
  <2>2. ShapeDisk' /\ AreaInv' /\ FileInv'
    <3>1. reqs' = reqs
      BY <1>3, Zenon DEF Leaves
    <3>2. AreaInv'
      BY <1>3, <3>1, AreaKept, Zenon DEF Base
    <3>3. ShapeDisk' /\ FileInv'
      BY <1>1, <1>3, Zenon DEF Base, Shape, ShapeDisk, FileInv
    <3> QED BY <3>2, <3>3, Zenon
  <2> QED BY <1>1, <1>2, <1>3, <2>1, <2>2, WritersLive, BaseLeaves, Zenon
<1>4. CASE /\ sess = "up" /\ file = "live" /\ BeginWrite(s)
           /\ slots'[s].inUse <=> slots[s].inUse
           /\ Moves(s) /\ th'[s].pc = "fwrite" /\ th'[s].op = th[s].op
           /\ UNCHANGED <<sess, client, net, reqs, got>>
  <2>1. ShapeDisk' /\ AreaInv' /\ FileInv'
    BY <1>1, <1>4, BeginFacts, Zenon
  <2>2. ShapePeer' /\ RequestsInv' /\ ClientsInv' /\ NetInv'
    BY <1>4, PeerKept, Zenon DEF peer
  <2>3. ShapeMem' /\ OwnInv'
    BY <1>1, <1>4, OwnKept, Zenon DEF ShapeMem, Moves, KeepIds
  <2>4. ASSUME NEW o \in Slots
        PROVE  SlotInv(o)'
    <3>1. CASE o # s
      <4>1. th'[o] = th[o] /\ (slots'[o].inUse <=> slots[o].inUse)
            /\ (slots'[o].reply = slots[o].reply \/ slots'[o].reply = "nil")
        BY <1>1, <1>4, <3>1, Zenon DEF Moves, SlotsKept
      <4> QED BY <1>1, <1>4, <4>1, WritersLive, SlotKept, Zenon
    <3>2. CASE o = s
      <4>1. SlotInv(s) /\ slots[s].occupied /\ slots[s].inUse /\ ~slots[s].restored
            /\ th[s].rid = slots[s].rid /\ th[s].op \in Ops(th[s].rid)
        BY <1>1, RunningFacts, Zenon DEF Base
      <4>2. slots'[s].occupied /\ slots'[s].inUse /\ ~slots'[s].restored /\ slots'[s].rid = slots[s].rid
        BY <1>1, <1>4, <4>1, Zenon DEF KeepIds
      <4>3. th'[s].rid = th[s].rid /\ th'[s].op \in 1..Len(reqs'[th'[s].rid].ops)
        BY <1>4, <4>1, Zenon DEF Moves, Ops
      <4> QED BY <1>1, <1>4, <3>2, <4>1, <4>2, <4>3, Zenon DEF SlotInv, Running, Inside, Paid, Ops
    <3> QED BY <3>1, <3>2, Zenon
  <2> QED BY <1>2, <2>1, <2>2, <2>3, <2>4, Zenon DEF Base, Shape
<1> QED BY <1>3, <1>4, Zenon DEF FinishStep

\* The shape of the state survives the end of the reply write.
LEMMA BaseSWritten ==
  ASSUME Base, NEW s \in Slots, SWrittenStep(s)
  PROVE  Base'
<1>1. /\ th[s].pc = "fwrite" /\ Running(s) /\ SlotsKept(s) /\ Leaves(s) /\ UNCHANGED fsys /\ reqs' = reqs
      /\ ~slots'[s].inUse /\ file = "live"
  BY Zenon DEF SWrittenStep, Leaves, Running
<1>2. sess \in {"up", "retired"}
  BY <1>1, RunningFacts, Zenon
<1>3. CASE EndWrite(s, SlotOf(s)) /\ sess' = sess
  <2>1. ShapeDisk' /\ AreaInv' /\ FileInv'
    BY <1>1, <1>3, SlotRecShape, EndFacts, Zenon
  <2>2. used' \in [Troubles -> Nat] /\ file' = file
    BY <1>3, Zenon DEF EndWrite, Base, Shape, ShapeFs
  <2> QED BY <1>1, <1>3, <2>1, <2>2, BaseLeaves, Zenon
<1>4. CASE Alone(s) /\ Invalidated /\ cur' = cur /\ (sess' = sess \/ sess' = "retired")
  <2>1. sess' \in {"up", "retired"} /\ (sess' = sess \/ (sess' = "retired" /\ sess = "up"))
    BY <1>2, <1>4, Zenon
  <2>2. ShapeDisk' /\ disk'.area = disk.area /\ FileInv' /\ used' \in [Troubles -> Nat]
    BY <1>1, <1>2, <1>4, <2>1, InvalidatedFacts, Zenon
  <2>3. AreaInv'
    BY <1>1, <2>2, AreaKept, Zenon DEF Base
  <2>4. \A o \in Slots : o # s /\ th[o].pc \in {"iwrite", "fwrite"} => file' = "live"
    BY <1>4, Zenon DEF Alone
  <2> QED BY <1>1, <2>1, <2>2, <2>3, <2>4, BaseLeaves, Zenon
<1> QED BY <1>3, <1>4, Zenon DEF SWrittenStep

-----------------------------------------------------------------------------
(* Every step of the specification is one of these, and keeps Base.          *)
LEMMA CallsKept ==
  ASSUME Base, CallsInv, calls' \subseteq calls, Rids \subseteq Rids', \A r \in Rids : reqs'[r] = reqs[r],
         used'["kills"] \in Nat, used'["kills"] >= used["kills"]
  PROVE  CallsInv'
<1> SUFFICES ASSUME NEW c \in calls'
             PROVE  /\ c.rid \in Rids' /\ reqs'[c.rid].slot = c.slot /\ c.life <= used'["kills"]
                    /\ c.pay.op \in 1..Len(reqs'[c.rid].ops) /\ c.pay.k = reqs'[c.rid].ops[c.pay.op].k
                    /\ c.pay.from = reqs'[c.rid].ops[c.pay.op].from
                    /\ c.pay.to = reqs'[c.rid].ops[c.pay.op].to
                    /\ c.pay.k # "CREATE" => c.pay.edge # NoEdge
  BY Zenon DEF CallsInv, Ops
<1>1. c \in calls /\ c.rid \in Rids /\ c.life \in Nat /\ c.life <= used["kills"] /\ reqs'[c.rid] = reqs[c.rid]
  BY CallRange, Zenon DEF CallsInv
<1>2. used["kills"] \in Nat
  BY Zenon DEF Base, Shape, ShapeFs, Troubles
<1>3. c.life <= used'["kills"]
  BY <1>1, <1>2
<1> QED BY <1>1, <1>3, Zenon DEF CallsInv, Ops

\* A call that is submitted is an operation of its request.
LEMMA CallsSubmit ==
  ASSUME Base, CallsInv, NEW s \in Slots, SubmitStep(s)
  PROVE  CallsInv'
<1>1. /\ Running(s) /\ calls' = calls \cup {CallOf(s)} /\ reqs' = reqs /\ used' = used
  BY Zenon DEF SubmitStep, peer, Running
<1>2. used["kills"] \in Nat /\ PaysFor(s) /\ SlotInv(s)
  BY <1>1, Zenon DEF Base, SlotInv, Paid, SubmitStep, Shape, ShapeFs, Troubles
<1>3. ASSUME NEW c \in calls'
      PROVE  /\ c.rid \in Rids /\ reqs[c.rid].slot = c.slot /\ c.life <= used["kills"]
             /\ c.pay.op \in Ops(c.rid) /\ c.pay.k = reqs[c.rid].ops[c.pay.op].k
             /\ c.pay.from = reqs[c.rid].ops[c.pay.op].from /\ c.pay.to = reqs[c.rid].ops[c.pay.op].to
             /\ c.pay.k # "CREATE" => c.pay.edge # NoEdge
  <2>1. CASE c \in calls
    BY <2>1, Zenon DEF CallsInv
  <2>2. CASE c = CallOf(s)
    <3>1. c.rid = th[s].rid /\ c.slot = s /\ c.life = used["kills"] /\ c.pay = th[s].pay
      BY <2>2, Zenon DEF CallOf
    <3>2. th[s].rid \in Rids /\ reqs[th[s].rid].slot = s /\ th[s].op \in Ops(th[s].rid)
      BY <1>1, RunningFacts, Zenon DEF Of
    <3>3. c.pay.op = th[s].op /\ Op(s) = reqs[c.rid].ops[c.pay.op]
      BY <1>2, <3>1, Zenon DEF PaysFor, Op
    <3>4. /\ th[s].pay.k = Op(s).k /\ th[s].pay.from = Op(s).from /\ th[s].pay.to = Op(s).to
          /\ th[s].pay.k # "CREATE" => th[s].pay.edge # NoEdge
      BY <1>2, Zenon DEF PaysFor
    <3>5. c.life <= used["kills"]
      BY <1>2, <3>1
    <3> QED BY <3>1, <3>2, <3>3, <3>4, <3>5, Zenon
  <2> QED BY <1>1, <2>1, <2>2, Zenon
<1> QED BY <1>1, <1>3, Zenon DEF CallsInv, Rids, Ops

\* The calls of a step that submits none.
LEMMA CallsSame ==
  ASSUME Base, CallsInv, calls' = calls, reqs' = reqs, used'["kills"] = used["kills"]
  PROVE  CallsInv'
<1>1. used["kills"] \in Nat
  BY Zenon DEF Base, Shape, ShapeFs, Troubles
<1> QED BY <1>1, CallsKept DEF Rids

(* After: the compound ends here, or goes on with its next operation.        *)
LEMMA AfterFacts ==
  ASSUME NEW s \in Slots, NEW t \in Threads, NEW st \in Statuses
  PROVE  LET y == After(t, s, st) IN
         /\ y \in Threads
         /\ y.rid = t.rid /\ y.mutated = t.mutated /\ y.intentOp = t.intentOp
         /\ y.replay = t.replay /\ y.pending = t.pending
         /\ \/ y.pc = "finish" /\ y.status = st /\ y.op = t.op /\ y.pay = t.pay /\ (st # "OK" \/ Final(s))
            \/ y.pc = "op" /\ y.op = t.op + 1 /\ st = "OK" /\ ~Final(s)
<1>1. CASE st = "OK" /\ ~Final(s)
  <2> DEFINE n == t.op + 1
             y == [t EXCEPT !.op = n, !.pc = "op", !.pay = NoPay]
  <2>0. n \in Nat
    BY DEF Threads
  <2>1. After(t, s, st) = y
    BY <1>1, Zenon DEF After
  <2>2. y \in Threads
    <3> HIDE DEF n
    <3> QED BY <2>0, Zenon DEF Threads, PCs
  <2>3. /\ y.pc = "op" /\ y.op = t.op + 1 /\ y.rid = t.rid /\ y.mutated = t.mutated
        /\ y.intentOp = t.intentOp /\ y.replay = t.replay /\ y.pending = t.pending
    BY Zenon DEF Threads
  <2> HIDE DEF y
  <2> QED BY <1>1, <2>1, <2>2, <2>3, Zenon
<1>2. CASE ~(st = "OK" /\ ~Final(s))
  <2>1. After(t, s, st) = [t EXCEPT !.pc = "finish", !.status = st]
    BY <1>2, Zenon DEF After
  <2> QED BY <1>2, <2>1, Zenon DEF Threads, PCs
<1> QED BY <1>1, <1>2, Zenon

\* Replacing one thread leaves the others alone.
LEMMA ThExcept ==
  ASSUME th \in [Slots -> Threads], NEW s \in Slots, NEW y \in Threads, th' = [th EXCEPT ![s] = y]
  PROVE  th' \in [Slots -> Threads] /\ th'[s] = y /\ \A o \in Slots : o # s => th'[o] = th[o]
  BY Zenon

\* After: the compound stops on an error and goes on after success.
LEMMA AfterStep ==
  ASSUME th \in [Slots -> Threads], NEW s \in Slots, NEW st \in Statuses, NEW t \in Threads,
         t.rid = th[s].rid, t.replay = th[s].replay, t.op = th[s].op,
         th' = [th EXCEPT ![s] = After(t, s, st)]
  PROVE  /\ Moves(s) /\ (st # "OK" => Stops(s)) /\ (st = "OK" => Goes(s))
         /\ th'[s].mutated = t.mutated /\ th'[s].intentOp = t.intentOp
         /\ th'[s].pending = t.pending
<1>1. After(t, s, st) \in Threads
  BY AfterFacts, Zenon
<1>2. th' \in [Slots -> Threads] /\ th'[s] = After(t, s, st) /\ \A o \in Slots : o # s => th'[o] = th[o]
  BY <1>1, ThExcept
<1>3. /\ th'[s].rid = t.rid /\ th'[s].mutated = t.mutated /\ th'[s].intentOp = t.intentOp
      /\ th'[s].replay = t.replay /\ th'[s].pending = t.pending
      /\ \/ th'[s].pc = "finish" /\ th'[s].status = st /\ th'[s].op = t.op /\ (st # "OK" \/ Final(s))
         \/ th'[s].pc = "op" /\ th'[s].op = t.op + 1 /\ st = "OK" /\ ~Final(s)
  BY <1>2, AfterFacts
<1> QED BY <1>2, <1>3, Zenon DEF Moves, Stops, Goes

\* Spending a budget counts kills only for a kill.
LEMMA SpendFacts ==
  ASSUME ShapeFs, NEW n \in Nat, NEW max
  PROVE  /\ Spend("faults", n, max) \/ Spend("timeouts", n, max) \/ Spend("others", n, max) =>
              /\ used' \in [Troubles -> Nat]
              /\ used'["kills"] = used["kills"]
         /\ Spend("kills", n, max) =>
              /\ used' \in [Troubles -> Nat]
              /\ used'["kills"] = used["kills"] + n
<1> USE DEF ShapeFs
<1>1. Spend("faults", n, max) => /\ used' \in [Troubles -> Nat]
                                 /\ used'["kills"] = used["kills"]
  BY DEF Spend, Troubles
<1>2. Spend("timeouts", n, max) => /\ used' \in [Troubles -> Nat]
                                   /\ used'["kills"] = used["kills"]
  BY DEF Spend, Troubles
<1>3. Spend("others", n, max) => /\ used' \in [Troubles -> Nat]
                                 /\ used'["kills"] = used["kills"]
  BY DEF Spend, Troubles
<1>4. Spend("kills", n, max) => /\ used' \in [Troubles -> Nat]
                                /\ used'["kills"] = used["kills"] + n
  BY DEF Spend, Troubles
<1> QED BY <1>1, <1>2, <1>3, <1>4, Zenon

\* invalidate does what its description says.
LEMMA InvalidateFacts ==
  ASSUME ShapeFs, NEW n \in {0, 1}, invalidate(n)
  PROVE  Invalidated
<1>1. CASE file = "live" /\ Fault(n) /\ file' = "gone" /\ disk' = [disk EXCEPT !.there = FALSE]
  BY <1>1, SpendFacts, Zenon DEF Fault, Invalidated
<1>2. CASE file = "live" /\ Fault(n + 1) /\ file' = "poisoned" /\ UNCHANGED disk
  <2>1. n + 1 \in Nat
    OBVIOUS
  <2> QED BY <1>2, <2>1, SpendFacts, Zenon DEF Fault, Invalidated
<1>3. CASE file # "live" /\ UNCHANGED <<file, disk, used>>
  BY <1>3, Zenon DEF Invalidated, ShapeFs
<1> QED BY <1>1, <1>2, <1>3, Zenon DEF invalidate

\* Enter: into a protected operation, or past another one.
LEMMA EnterFacts ==
  ASSUME Base, NEW s \in Slots, th[s].pc = "op", th' = [th EXCEPT ![s] = Enter(th[s], s)]
  PROVE  /\ Moves(s) /\ th'[s].intentOp = th[s].intentOp /\ th'[s].pending = th[s].pending
         /\ \/ /\ Protected(Op(s)) /\ th'[s].pc = "decide" /\ th'[s].op = th[s].op
               /\ th'[s].mutated
            \/ /\ ~Protected(Op(s)) /\ Goes(s)
               /\ (th'[s].mutated <=> th[s].mutated \/ recoveryEffect(Op(s)))
<1>1. th \in [Slots -> Threads] /\ th[s] \in Threads
  BY RunningFacts, Zenon DEF Running
<1>2. CASE Protected(Op(s))
  <2> DEFINE y == [th[s] EXCEPT !.pc = "decide", !.mutated = TRUE]
  <2>1. y \in Threads
    BY <1>1, Zenon DEF Threads, PCs
  <2>2. /\ y.pc = "decide" /\ y.op = th[s].op /\ y.mutated /\ y.rid = th[s].rid
        /\ y.replay = th[s].replay /\ y.intentOp = th[s].intentOp /\ y.pending = th[s].pending
    BY <1>1, Zenon DEF Threads
  <2>3. th' = [th EXCEPT ![s] = y]
    BY <1>2, Zenon DEF Enter
  <2> HIDE DEF y
  <2>4. th' \in [Slots -> Threads] /\ th'[s] = y /\ \A o \in Slots : o # s => th'[o] = th[o]
    BY <1>1, <2>1, <2>3, ThExcept, Zenon
  <2> QED BY <1>2, <2>2, <2>4, Zenon DEF Moves
<1>3. CASE ~Protected(Op(s))
  <2> DEFINE b == th[s].mutated \/ recoveryEffect(Op(s))
             u == [th[s] EXCEPT !.mutated = b]
  <2>0. b \in BOOLEAN
    BY <1>1, Zenon DEF Threads, recoveryEffect
  <2>1. th' = [th EXCEPT ![s] = After(u, s, "OK")]
    BY <1>3, Zenon DEF Enter
  <2> HIDE DEF b
  <2>2. u \in Threads /\ u.rid = th[s].rid /\ u.replay = th[s].replay /\ u.op = th[s].op
        /\ u.intentOp = th[s].intentOp /\ u.pending = th[s].pending
    BY <1>1, <2>0, Zenon DEF Threads
  <2>7. u.mutated = b
    BY <1>1, <2>0, Zenon DEF Threads
  <2> HIDE DEF u
  <2>3. "OK" \in Statuses
    BY Zenon DEF Statuses
  <2>4. /\ Moves(s) /\ Goes(s) /\ th'[s].mutated = u.mutated /\ th'[s].intentOp = u.intentOp
        /\ th'[s].pending = u.pending
    <3>1. u.rid = th[s].rid /\ u.replay = th[s].replay /\ u.op = th[s].op /\ u \in Threads
      BY <2>2, Zenon
    <3>2. Goes(s)
      BY <1>1, <2>1, <3>1, <2>3, AfterStep, Zenon
    <3>3. Moves(s)
      BY <1>1, <2>1, <3>1, <2>3, AfterStep, Zenon
    <3>4. th'[s].mutated = u.mutated
      BY <1>1, <2>1, <3>1, <2>3, AfterStep, Zenon
    <3>5. th'[s].intentOp = u.intentOp
      BY <1>1, <2>1, <3>1, <2>3, AfterStep, ZenonT(60)
    <3>6. th'[s].pending = u.pending
      BY <1>1, <2>1, <3>1, <2>3, AfterStep, ZenonT(60)
    <3> QED BY <3>2, <3>3, <3>4, <3>5, <3>6, Zenon
  <2>5. th'[s].mutated <=> th[s].mutated \/ recoveryEffect(Op(s))
    BY <2>7, <2>4, Zenon DEF b
  <2>6. th'[s].intentOp = th[s].intentOp /\ th'[s].pending = th[s].pending
    BY <2>2, <2>4, Zenon
  <2> QED BY <1>3, <2>4, <2>5, <2>6, Zenon
<1> QED BY <1>2, <1>3, Zenon

\* The action of the gates before an operation does what its description in Step says.
LEMMA GatesFacts ==
  ASSUME Base, NEW s \in Slots, Gates(s)
  PROVE  GatesStep(s)
<1>1. th[s].pc = "op" /\ UNCHANGED <<fsys, sess, cur, slots, peer>>
  BY Zenon DEF Gates
<1>2. th \in [Slots -> Threads] /\ th[s] \in Threads /\ file # "none"
  BY <1>1, RunningFacts, Zenon DEF Running
<1>3. {"SERVERFAULT", "DEADSESSION"} \subseteq Statuses \ {"OK"}
  BY Zenon DEF Statuses
<1>4. replayGate(s) \in {"OK", "DEADSESSION"}
  BY Zenon DEF replayGate
<1>5. CASE replayGate(s) # "OK"
  <2>1. th' = [th EXCEPT ![s] = After(th[s], s, replayGate(s))] /\ UNCHANGED <<file, disk, used>>
    BY <1>5, Zenon DEF Gates
  <2>2. replayGate(s) \in Statuses \ {"OK"}
    BY <1>3, <1>4, <1>5, Zenon
  <2>3. Moves(s) /\ Stops(s) /\ th'[s].mutated = th[s].mutated /\ th'[s].intentOp = th[s].intentOp
        /\ th'[s].pending = th[s].pending
    BY <1>2, <2>1, <2>2, AfterStep, ZenonT(60)
  <2> QED BY <1>1, <2>1, <2>3, Zenon DEF GatesStep
<1>6. CASE replayGate(s) = "OK" /\ recoveryEffect(Op(s)) /\ th[s].mutated
  <2>1. /\ ~Writing /\ invalidate(0)
        /\ th' = [th EXCEPT ![s] = IF file' = "poisoned" THEN After(th[s], s, "SERVERFAULT")
                                   ELSE Enter(th[s], s)]
    BY <1>6, Zenon DEF Gates
  <2>2. Invalidated
    BY <2>1, InvalidateFacts, Zenon DEF Base, Shape
  <2>3. CASE file' = "poisoned"
    <3>1. th' = [th EXCEPT ![s] = After(th[s], s, "SERVERFAULT")]
      BY <2>1, <2>3, Zenon
    <3>2. Moves(s) /\ Stops(s) /\ th'[s].mutated = th[s].mutated /\ th'[s].intentOp = th[s].intentOp
          /\ th'[s].pending = th[s].pending
      BY <1>2, <1>3, <3>1, AfterStep, ZenonT(60)
    <3> QED BY <1>1, <2>1, <2>2, <3>2, Zenon DEF GatesStep
  <2>4. CASE file' # "poisoned"
    <3>1. th' = [th EXCEPT ![s] = Enter(th[s], s)]
      BY <2>1, <2>4, Zenon
    <3>2. file' # "live"
      BY <2>2, Zenon DEF Invalidated
    <3> QED BY <1>1, <1>6, <2>1, <2>2, <2>4, <3>1, <3>2, EnterFacts, Zenon DEF GatesStep
  <2> QED BY <2>3, <2>4, Zenon
<1>7. CASE replayGate(s) = "OK" /\ ~(recoveryEffect(Op(s)) /\ th[s].mutated)
  <2>1. th' = [th EXCEPT ![s] = Enter(th[s], s)] /\ UNCHANGED <<file, disk, used>>
    BY <1>7, Zenon DEF Gates
  <2> QED BY <1>1, <1>7, <2>1, EnterFacts, Zenon DEF GatesStep
<1> QED BY <1>5, <1>6, <1>7, Zenon

\* After with nothing else changed in the thread.
LEMMA AfterSame ==
  ASSUME th \in [Slots -> Threads], NEW s \in Slots, NEW st \in Statuses,
         th' = [th EXCEPT ![s] = After(th[s], s, st)]
  PROVE  Moves(s) /\ (st # "OK" => Stops(s)) /\ (st = "OK" => Goes(s)) /\ Same(s)
<1>1. th[s] \in Threads
  BY Zenon
<1> QED BY <1>1, AfterStep, Zenon DEF Same

(* A step that moves pc on within the operation. *)
LEMMA PcOnly ==
  ASSUME th \in [Slots -> Threads], NEW s \in Slots, NEW p \in PCs, th' = [th EXCEPT ![s].pc = p]
  PROVE  /\ Moves(s) /\ th'[s].pc = p /\ th'[s].op = th[s].op /\ th'[s].pay = th[s].pay /\ Same(s)
<1>1. th[s] \in Threads
  BY Zenon
<1> DEFINE y == [th[s] EXCEPT !.pc = p]
<1>2. y \in Threads
  BY <1>1, Zenon DEF Threads
<1>3. /\ y.pc = p /\ y.op = th[s].op /\ y.intentOp = th[s].intentOp /\ y.pay = th[s].pay
      /\ y.mutated = th[s].mutated /\ y.pending = th[s].pending /\ y.rid = th[s].rid
      /\ y.replay = th[s].replay
  BY <1>1, Zenon DEF Threads
<1>4. th' = [th EXCEPT ![s] = y]
  BY Zenon
<1> HIDE DEF y
<1>5. th' \in [Slots -> Threads] /\ th'[s] = y /\ \A o \in Slots : o # s => th'[o] = th[o]
  BY <1>2, <1>4, ThExcept, Zenon
<1> QED BY <1>3, <1>5, Zenon DEF Moves, Same

\* The action of the decision about a restored intent does what its description in Step says.
LEMMA DecideFacts ==
  ASSUME Base, NEW s \in Slots, Decide(s)
  PROVE  DecideStep(s)
<1> DEFINE n == IF Found(s) THEN th[s].op ELSE th[s].intentOp
           b == th[s].pending /\ th[s].replay.op # th[s].op
           u == [th[s] EXCEPT !.intentOp = n, !.pending = b]
<1>1. th[s].pc = "decide" /\ UNCHANGED <<fsys, disk, sess, file, cur, slots, peer, used>>
  BY Zenon DEF Decide
<1>2. th \in [Slots -> Threads] /\ th[s] \in Threads
  BY <1>1, RunningFacts, Zenon DEF Running
<1>3. n \in Nat /\ b \in BOOLEAN
  BY <1>2, Zenon DEF Threads
<1>4. th' = [th EXCEPT ![s] =
               IF Decision(s) = "none" THEN [u EXCEPT !.pc = "look"]
               ELSE After(u, s, IF Decision(s) = "applied" THEN "OK" ELSE "DEADSESSION")]
  BY Zenon DEF Decide, Found
<1>5. /\ Found(s) => n = th[s].op /\ ~b
      /\ ~Found(s) => n = th[s].intentOp /\ b = th[s].pending
  <2>1. Found(s) => n = th[s].op /\ ~b
    BY Zenon DEF Found
  <2>2. ~Found(s) => n = th[s].intentOp
    BY Zenon
  <2>3. th[s].pending \in BOOLEAN
    BY <1>2, Zenon DEF Threads
  <2>4. ~Found(s) => b = th[s].pending
    BY <2>3, Zenon DEF Found
  <2> QED BY <2>1, <2>2, <2>4, Zenon
<1> HIDE DEF n, b
<1>6. u \in Threads /\ u.rid = th[s].rid /\ u.replay = th[s].replay /\ u.op = th[s].op
  BY <1>2, <1>3, Zenon DEF Threads
<1>7. u.mutated = th[s].mutated
  BY <1>2, <1>3, Zenon DEF Threads
<1>8. u.intentOp = n
  BY <1>2, <1>3, Zenon DEF Threads
<1>9. u.pending = b
  BY <1>2, <1>3, Zenon DEF Threads
<1> HIDE DEF u
<1>10. CASE Decision(s) = "none"
  <2> DEFINE y == [u EXCEPT !.pc = "look"]
  <2>1. th' = [th EXCEPT ![s] = y]
    BY <1>4, <1>10, Zenon
  <2>2. y \in Threads
    BY <1>6, Zenon DEF Threads, PCs
  <2>3. y.pc = "look" /\ y.rid = u.rid /\ y.replay = u.replay /\ y.op = u.op /\ y.intentOp = u.intentOp
    BY <1>6, Zenon DEF Threads
  <2>4. y.mutated = u.mutated
    BY <1>6, Zenon DEF Threads
  <2>5. y.pending = u.pending
    BY <1>6, Zenon DEF Threads
  <2> HIDE DEF y
  <2>6. th' \in [Slots -> Threads] /\ th'[s] = y /\ \A o \in Slots : o # s => th'[o] = th[o]
    BY <1>2, <2>1, <2>2, ThExcept, Zenon
  <2>7. Moves(s) /\ th'[s].pc = "look" /\ th'[s].op = th[s].op
    BY <1>6, <2>3, <2>6, Zenon DEF Moves
  <2>8. th'[s].mutated = th[s].mutated /\ th'[s].pending = b /\ th'[s].intentOp = n
    BY <1>7, <1>8, <1>9, <2>3, <2>4, <2>5, <2>6, Zenon
  <2> QED BY <1>1, <1>5, <1>10, <2>7, <2>8, Zenon DEF DecideStep
<1>11. ASSUME NEW st \in Statuses, th' = [th EXCEPT ![s] = After(u, s, st)]
       PROVE  /\ Moves(s) /\ (st # "OK" => Stops(s)) /\ (st = "OK" => Goes(s))
              /\ th'[s].mutated = th[s].mutated /\ th'[s].pending = b /\ th'[s].intentOp = n
  <2>1. Moves(s) /\ (st # "OK" => Stops(s)) /\ (st = "OK" => Goes(s))
    BY <1>2, <1>6, <1>11, AfterStep, Zenon
  <2>2. th'[s].mutated = u.mutated
    BY <1>2, <1>6, <1>11, AfterStep, Zenon
  <2>3. th'[s].pending = u.pending
    BY <1>2, <1>6, <1>11, AfterStep, Zenon
  <2>4. th'[s].intentOp = u.intentOp
    BY <1>2, <1>6, <1>11, AfterStep, Zenon
  <2> QED BY <1>7, <1>8, <1>9, <2>1, <2>2, <2>3, <2>4, Zenon
<1>12. "OK" \in Statuses /\ "DEADSESSION" \in Statuses /\ "DEADSESSION" # "OK" /\ "applied" # "none"
  BY Zenon DEF Statuses
<1>13. CASE Decision(s) = "applied"
  <2>1. th' = [th EXCEPT ![s] = After(u, s, "OK")]
    BY <1>4, <1>12, <1>13, Zenon
  <2> QED BY <1>1, <1>5, <1>11, <1>12, <1>13, <2>1, Zenon DEF DecideStep
<1>14. CASE Decision(s) \notin {"none", "applied"}
  <2>1. th' = [th EXCEPT ![s] = After(u, s, "DEADSESSION")]
    BY <1>4, <1>14, Zenon
  <2> QED BY <1>1, <1>5, <1>11, <1>12, <1>14, <2>1, Zenon DEF DecideStep
<1> QED BY <1>10, <1>13, <1>14, Zenon

\* The action of the lookup of the edge does what its description in Step says.
LEMMA LookFacts ==
  ASSUME Base, NEW s \in Slots, LookupEdge(s)
  PROVE  LookStep(s)
<1> DEFINE op == Op(s)
           pay == [op |-> th[s].op, k |-> op.k, from |-> op.from, to |-> op.to,
                   edge |-> edges[op.from], dst |-> edges[op.to].id]
<1>1. th[s].pc = "look" /\ UNCHANGED <<fsys, disk, sess, file, cur, slots, peer, used>>
  BY Zenon DEF LookupEdge
<1>2. th \in [Slots -> Threads] /\ th[s] \in Threads /\ th[s].op \in Nat \ {0}
  BY <1>1, RunningFacts DEF Running
<1>3. op.from \in Names /\ op.to \in Names /\ op.k \in {"REMOVE", "RENAME", "CREATE"}
  <2>1. Protected(op)
    BY <1>1, Zenon DEF Base, SlotInv, Inside, Running
  <2> QED BY <1>1, <2>1, OpShape, Zenon DEF Running, Protected
<1>4. edges[op.from] \in EdgeRecs /\ edges[op.to].id \in Nat
  BY <1>3, Zenon DEF Base, Shape, ShapeFs, EdgeRecs
<1>5. pay \in Pays
  <2> HIDE DEF op
  <2> QED BY <1>2, <1>3, <1>4, Zenon DEF Pays
<1>6. /\ pay.op = th[s].op /\ pay.k = op.k /\ pay.from = op.from /\ pay.to = op.to
      /\ pay.edge = edges[op.from]
  BY Zenon
<1>7. {"EXIST", "NOENT"} \subseteq Statuses /\ "EXIST" # "OK" /\ "NOENT" # "OK" /\ "intent" \in PCs
  BY Zenon DEF Statuses, PCs
<1>8. \/ th' = [th EXCEPT ![s] = After(th[s], s, "EXIST")]
      \/ th' = [th EXCEPT ![s] = After(th[s], s, "NOENT")]
      \/ /\ (op.k = "CREATE") = (edges[op.from] = NoEdge)
         /\ th' = [th EXCEPT ![s].pc = "intent", ![s].pay = pay]
  BY Zenon DEF LookupEdge
<1>9. CASE th' = [th EXCEPT ![s] = After(th[s], s, "EXIST")]
  BY <1>1, <1>2, <1>7, <1>9, AfterSame, Zenon DEF LookStep
<1>10. CASE th' = [th EXCEPT ![s] = After(th[s], s, "NOENT")]
  BY <1>1, <1>2, <1>7, <1>10, AfterSame, Zenon DEF LookStep
<1>11. CASE /\ (op.k = "CREATE") = (edges[op.from] = NoEdge)
            /\ th' = [th EXCEPT ![s].pc = "intent", ![s].pay = pay]
  <2> HIDE DEF pay
  <2>1. op.k # "CREATE" => edges[op.from] # NoEdge
    BY <1>11, Zenon
  <2> DEFINE y == [th[s] EXCEPT !.pc = "intent", !.pay = pay]
  <2>2. th' = [th EXCEPT ![s] = y]
    BY <1>2, <1>11, Zenon
  <2>3. y \in Threads
    BY <1>2, <1>5, <1>7, Zenon DEF Threads
  <2>4. /\ y.pc = "intent" /\ y.op = th[s].op /\ y.intentOp = th[s].intentOp /\ y.pay = pay
        /\ y.mutated = th[s].mutated /\ y.pending = th[s].pending /\ y.rid = th[s].rid
        /\ y.replay = th[s].replay
    BY <1>2, <1>5, Zenon DEF Threads
  <2> HIDE DEF y
  <2>5. th' \in [Slots -> Threads] /\ th'[s] = y /\ \A o \in Slots : o # s => th'[o] = th[o]
    BY <1>2, <2>2, <2>3, ThExcept, Zenon
  <2>6. Moves(s) /\ Same(s) /\ th'[s].pc = "intent" /\ th'[s].op = th[s].op /\ th'[s].pay = pay
    BY <2>4, <2>5, Zenon DEF Moves, Same
  <2> QED BY <1>1, <1>5, <1>6, <2>1, <2>6, Zenon DEF LookStep
<1> QED BY <1>8, <1>9, <1>10, <1>11, Zenon

\* A thread that may submit has noted its operation.
LEMMA SubmitPc ==
  ASSUME th \in [Slots -> Threads], NEW s \in Slots,
         th' = [th EXCEPT ![s] = [th[s] EXCEPT !.pc = "submit", !.intentOp = th[s].op]]
  PROVE  /\ Moves(s) /\ th'[s].pc = "submit" /\ th'[s].op = th[s].op /\ th'[s].intentOp = th[s].op
         /\ th'[s].pay = th[s].pay /\ th'[s].mutated = th[s].mutated /\ th'[s].pending = th[s].pending
<1> DEFINE y == [th[s] EXCEPT !.pc = "submit", !.intentOp = th[s].op]
<1>1. th[s] \in Threads
  BY Zenon
<1>2. y \in Threads
  BY <1>1, Zenon DEF Threads, PCs
<1>3. /\ y.pc = "submit" /\ y.op = th[s].op /\ y.intentOp = th[s].op /\ y.pay = th[s].pay
      /\ y.mutated = th[s].mutated /\ y.pending = th[s].pending /\ y.rid = th[s].rid
      /\ y.replay = th[s].replay
  BY <1>1, Zenon DEF Threads
<1>4. th' = [th EXCEPT ![s] = y]
  BY Zenon
<1> HIDE DEF y
<1>5. th' \in [Slots -> Threads] /\ th'[s] = y /\ \A o \in Slots : o # s => th'[o] = th[o]
  BY <1>2, <1>4, ThExcept, Zenon
<1> QED BY <1>3, <1>5, Zenon DEF Moves

\* The action of persistIntent does what its description in Step says.
LEMMA PersistFacts ==
  ASSUME Base, NEW s \in Slots, persistIntent(s)
  PROVE  PersistStep(s)
<1> USE DEF PersistStep
<1>1. /\ th[s].pc = "intent"
      /\ UNCHANGED <<edges, clock, calls, done, linked, sess, file, cur, slots, peer, used>>
  BY Zenon DEF persistIntent
<1>2. th \in [Slots -> Threads] /\ th[s] \in Threads /\ file # "none"
  BY <1>1, RunningFacts, Zenon DEF Running
<1>3. {"SERVERFAULT", "DEADSESSION"} \subseteq Statuses /\ "SERVERFAULT" # "OK"
      /\ "DEADSESSION" # "OK" /\ {"submit", "iwrite"} \subseteq PCs
  BY Zenon DEF Statuses, PCs
<1>4. CASE /\ th[s].intentOp = th[s].op
           /\ th' = [th EXCEPT ![s] =
                        IF th[s].pay # th[s].replay THEN After(th[s], s, "DEADSESSION")
                        ELSE IF file = "poisoned" THEN After(th[s], s, "SERVERFAULT")
                        ELSE [th[s] EXCEPT !.pc = "submit"]]
           /\ UNCHANGED <<disk, meant>>
  <2>1. \/ th' = [th EXCEPT ![s] = After(th[s], s, "DEADSESSION")]
        \/ th' = [th EXCEPT ![s] = After(th[s], s, "SERVERFAULT")]
        \/ th[s].pay = th[s].replay /\ file # "poisoned" /\ th' = [th EXCEPT ![s].pc = "submit"]
    BY <1>2, <1>4, Zenon
  <2>2. CASE \/ th' = [th EXCEPT ![s] = After(th[s], s, "DEADSESSION")]
             \/ th' = [th EXCEPT ![s] = After(th[s], s, "SERVERFAULT")]
    <3>1. Moves(s) /\ Stops(s) /\ Same(s)
      BY <1>2, <1>3, <2>2, AfterSame, Zenon
    <3> QED BY <1>1, <1>4, <3>1, Zenon DEF Same
  <2>3. CASE th[s].pay = th[s].replay /\ file # "poisoned" /\ th' = [th EXCEPT ![s].pc = "submit"]
    <3>1. Moves(s) /\ th'[s].pc = "submit" /\ th'[s].op = th[s].op /\ th'[s].pay = th[s].pay /\ Same(s)
      BY <1>2, <1>3, <2>3, PcOnly, Zenon
    <3> QED BY <1>1, <1>4, <2>3, <3>1, Zenon DEF Same
  <2> QED BY <2>1, <2>2, <2>3, Zenon
<1>5. CASE /\ th[s].intentOp # th[s].op /\ file = "live"
           /\ BeginWrite(s)
           /\ th' = [th EXCEPT ![s].pc = "iwrite"]
           /\ meant' = [meant EXCEPT ![th[s].rid][th[s].op] = th[s].pay]
  <2>1. Moves(s) /\ th'[s].pc = "iwrite" /\ th'[s].op = th[s].op /\ th'[s].pay = th[s].pay /\ Same(s)
    BY <1>2, <1>3, <1>5, PcOnly, Zenon
  <2> QED BY <1>1, <1>5, <2>1, Zenon DEF Same, Means
<1>6. CASE /\ th[s].intentOp # th[s].op /\ file # "live"
           /\ th' = [th EXCEPT ![s] = IF file = "poisoned" THEN After(th[s], s, "SERVERFAULT")
                                      ELSE [th[s] EXCEPT !.pc = "submit", !.intentOp = th[s].op]]
           /\ meant' = [meant EXCEPT ![th[s].rid][th[s].op] = th[s].pay]
           /\ UNCHANGED disk
  <2>1. CASE file = "poisoned"
    <3>1. th' = [th EXCEPT ![s] = After(th[s], s, "SERVERFAULT")]
      BY <1>6, <2>1, Zenon
    <3>2. Moves(s) /\ Stops(s) /\ Same(s)
      BY <1>2, <1>3, <3>1, AfterSame, Zenon
    <3> QED BY <1>1, <1>6, <3>2, Zenon DEF Same, Means
  <2>2. CASE file # "poisoned"
    <3>1. th' = [th EXCEPT ![s] = [th[s] EXCEPT !.pc = "submit", !.intentOp = th[s].op]]
      BY <1>6, <2>2, Zenon
    <3>2. file = "gone"
      BY <1>2, <1>6, <2>2, Zenon DEF Base, Shape, ShapeDisk
    <3> QED BY <1>1, <1>2, <1>6, <3>1, <3>2, SubmitPc, Zenon DEF Means
  <2> QED BY <2>1, <2>2, Zenon
<1> QED BY <1>4, <1>5, <1>6, Zenon DEF persistIntent

\* The action of the end of the intent write does what its description in Step says.
LEMMA IWrittenFacts ==
  ASSUME Base, NEW s \in Slots, IntentWritten(s)
  PROVE  IWrittenStep(s)
<1> USE DEF IWrittenStep
<1>1. th[s].pc = "iwrite" /\ UNCHANGED <<fsys, sess, slots, peer>>
  BY Zenon DEF IntentWritten
<1>2. th \in [Slots -> Threads] /\ th[s] \in Threads
  BY <1>1, RunningFacts, Zenon DEF Running
<1>3. "SERVERFAULT" \in Statuses /\ "SERVERFAULT" # "OK"
  BY Zenon DEF Statuses
<1>9. file = "live"
  BY <1>1, Zenon DEF Base, SlotInv, Running
<1>4. CASE /\ EndWrite(s, IntentOf(s))
           /\ th' = [th EXCEPT ![s].pc = "submit", ![s].intentOp = th[s].op]
  <2>1. th' = [th EXCEPT ![s] = [th[s] EXCEPT !.pc = "submit", !.intentOp = th[s].op]]
    BY <1>2, <1>4, Zenon
  <2>2. file' # "poisoned"
    BY <1>4, <1>9, Zenon DEF EndWrite
  <2> QED BY <1>1, <1>2, <1>4, <1>9, <2>1, <2>2, SubmitPc, Zenon
<1>5. CASE /\ Alone(s) /\ invalidate(1) /\ cur' = cur
           /\ th' = [th EXCEPT ![s] = IF file' = "poisoned" THEN After(th[s], s, "SERVERFAULT")
                                      ELSE [th[s] EXCEPT !.pc = "submit", !.intentOp = th[s].op]]
  <2>1. Invalidated
    BY <1>5, InvalidateFacts, Zenon DEF Base, Shape
  <2>2. CASE file' = "poisoned"
    <3>1. th' = [th EXCEPT ![s] = After(th[s], s, "SERVERFAULT")]
      BY <1>5, <2>2, Zenon
    <3>2. Moves(s) /\ Stops(s) /\ Same(s)
      BY <1>2, <1>3, <3>1, AfterSame, Zenon
    <3> QED BY <1>1, <1>5, <1>9, <2>1, <2>2, <3>2, Zenon DEF Same
  <2>3. CASE file' # "poisoned"
    <3>1. th' = [th EXCEPT ![s] = [th[s] EXCEPT !.pc = "submit", !.intentOp = th[s].op]]
      BY <1>5, <2>3, Zenon
    <3> QED BY <1>1, <1>2, <1>5, <1>9, <2>1, <2>3, <3>1, SubmitPc, Zenon
  <2> QED BY <2>2, <2>3, Zenon
<1> QED BY <1>4, <1>5, Zenon DEF IntentWritten, Alone, IntentOf

\* The action of the submission of the call does what its description in Step says.
LEMMA SubmitFacts ==
  ASSUME Base, NEW s \in Slots, Submit(s)
  PROVE  SubmitStep(s)
<1>1. th[s].pc = "submit" /\ th' = [th EXCEPT ![s].pc = "wait"]
  BY Zenon DEF Submit
<1>2. th \in [Slots -> Threads] /\ "wait" \in PCs
  BY <1>1, RunningFacts, Zenon DEF Running, PCs
<1>3. Moves(s) /\ th'[s].pc = "wait" /\ th'[s].op = th[s].op /\ th'[s].pay = th[s].pay /\ Same(s)
  BY <1>1, <1>2, PcOnly, Zenon
<1> QED BY <1>1, <1>3, Zenon DEF Submit, SubmitStep, CallOf

\* The action of a call without an answer does what its description in Step says.
LEMMA NoAnswerFacts ==
  ASSUME Base, NEW s \in Slots, NoAnswer(s)
  PROVE  NoAnswerStep(s)
<1>1. /\ th[s].pc = "wait" /\ th' = [th EXCEPT ![s] = After(th[s], s, "IO")]
      /\ Spend("timeouts", 1, MaxTimeouts)
      /\ UNCHANGED <<fsys, disk, sess, file, cur, slots, peer>>
  BY Zenon DEF NoAnswer
<1>2. th \in [Slots -> Threads] /\ "IO" \in Statuses /\ "IO" # "OK"
  BY <1>1, RunningFacts, Zenon DEF Running, Statuses
<1>3. Moves(s) /\ Same(s) /\ Stops(s)
  BY <1>1, <1>2, AfterSame, Zenon
<1>4. used' \in [Troubles -> Nat] /\ used'["kills"] = used["kills"]
  BY <1>1, SpendFacts, Zenon DEF Base, Shape
<1> QED BY <1>1, <1>3, <1>4, Zenon DEF NoAnswerStep

\* The action of a call that TernFS carries out or refuses does what its description in Step says.
LEMMA LandFacts ==
  ASSUME Base, NEW c \in calls, Land(c)
  PROVE  LandStep(c)
<1>1. c \in CallRecs
  BY Zenon DEF Base, Shape, ShapeFs
<1>2. c.slot \in Slots /\ c.pay \in Pays
  BY <1>1, Zenon DEF CallRecs
<1>3. /\ calls' = calls \ {c} /\ UNCHANGED <<meant, disk, sess, file, cur, slots, peer, used>>
      /\ ~Lands(c) => UNCHANGED <<edges, clock, done, linked>>
      /\ Lands(c) => done' = [done EXCEPT ![c.rid][c.pay.op] = @ + 1]
  BY Zenon DEF Land, Lands
<1>4. ~Hears(c) => th' = th
  BY Zenon DEF Land, Hears
<1>5. ASSUME Hears(c)
      PROVE  /\ Moves(c.slot) /\ Same(c.slot)
             /\ Lands(c) => Goes(c.slot)
             /\ ~Lands(c) => Stops(c.slot)
  <2> DEFINE st == IF Lands(c) THEN "OK" ELSE IF c.pay.k = "REMOVE" THEN "NOENT" ELSE "IO"
  <2>1. th' = [th EXCEPT ![c.slot] = After(th[c.slot], c.slot, st)]
    BY <1>5, Zenon DEF Land, Hears, Lands
  <2>2. st \in Statuses /\ (Lands(c) <=> st = "OK")
    BY Zenon DEF Statuses
  <2>3. th \in [Slots -> Threads]
    BY Zenon DEF Base, Shape, ShapeMem
  <2> HIDE DEF st
  <2> QED BY <1>2, <2>1, <2>2, <2>3, AfterSame, Zenon
<1> QED BY <1>2, <1>3, <1>4, <1>5, Zenon DEF LandStep

(* The reply and the use of slot s become a and u. *)
LEMMA SlotUpdate ==
  ASSUME slots \in [Slots -> SlotRecs], NEW s \in Slots, NEW a \in Statuses \cup {"nil"},
         NEW u \in BOOLEAN, slots' = [slots EXCEPT ![s] = [slots[s] EXCEPT !.reply = a, !.inUse = u]]
  PROVE  /\ KeepIds /\ (\A o \in Slots : o # s => slots'[o] = slots[o])
         /\ slots'[s].reply = a /\ (slots'[s].inUse <=> u)
<1> DEFINE y == [slots[s] EXCEPT !.reply = a, !.inUse = u]
<1>1. slots[s] \in SlotRecs
  BY Zenon
<1>2. y \in SlotRecs
  BY <1>1, Zenon DEF SlotRecs
<1>3. y.seq = slots[s].seq /\ y.rid = slots[s].rid /\ y.intent = slots[s].intent /\ y.reply = a
  BY <1>1, Zenon DEF SlotRecs
<1>4. y.occupied = slots[s].occupied
  BY <1>1, Zenon DEF SlotRecs
<1>5. y.restored = slots[s].restored
  BY <1>1, Zenon DEF SlotRecs
<1>6. y.inUse = u
  BY <1>1, Zenon DEF SlotRecs
<1> HIDE DEF y
<1>7. slots' \in [Slots -> SlotRecs] /\ slots'[s] = y /\ \A o \in Slots : o # s => slots'[o] = slots[o]
  BY <1>2, Zenon DEF y
<1>8. ASSUME NEW o \in Slots
      PROVE  /\ slots'[o].seq = slots[o].seq /\ slots'[o].rid = slots[o].rid
             /\ slots'[o].intent = slots[o].intent
             /\ slots'[o].occupied <=> slots[o].occupied
             /\ slots'[o].restored <=> slots[o].restored
  <2>1. CASE o = s
    BY <1>3, <1>4, <1>5, <1>7, <2>1, Zenon
  <2>2. CASE o # s
    BY <1>7, <2>2, Zenon
  <2> QED BY <2>1, <2>2, Zenon
<1> QED BY <1>3, <1>6, <1>7, <1>8, Zenon DEF KeepIds

(* Drain: the replies go, in every slot. *)
LEMMA DrainFacts ==
  ASSUME slots \in [Slots -> SlotRecs]
  PROVE  /\ Drain \in [Slots -> SlotRecs]
         /\ \A o \in Slots : /\ Drain[o].seq = slots[o].seq /\ Drain[o].rid = slots[o].rid
                             /\ Drain[o].intent = slots[o].intent /\ Drain[o].reply = "nil"
                             /\ Drain[o].occupied = slots[o].occupied
                             /\ Drain[o].restored = slots[o].restored
                             /\ Drain[o].inUse = slots[o].inUse
<1>1. ASSUME NEW o \in Slots
      PROVE  LET y == [slots[o] EXCEPT !.reply = "nil"]
             IN  y \in SlotRecs /\ y.seq = slots[o].seq /\ y.rid = slots[o].rid /\ y.reply = "nil"
                 /\ y.intent = slots[o].intent /\ y.occupied = slots[o].occupied
                 /\ y.restored = slots[o].restored /\ y.inUse = slots[o].inUse
  <2>1. slots[o] \in SlotRecs
    BY Zenon
  <2> QED BY <2>1, Zenon DEF SlotRecs
<1>2. \A o \in Slots : Drain[o] = [slots[o] EXCEPT !.reply = "nil"]
  BY Zenon DEF Drain
<1>3. Drain \in [Slots -> SlotRecs]
  BY <1>1, Zenon DEF Drain
<1> QED BY <1>1, <1>2, <1>3, ZenonT(60)

\* Answer reaches the client that still waits for this request.
LEMMA AnswerFacts ==
  ASSUME ShapePeer, NEW s \in Slots, NEW r, NEW st, Answer(s, r, st)
  PROVE  Answered(s, r, st)
<1>1. client \in [Slots -> ClientRecs] /\ client[s] \in ClientRecs
  BY Zenon DEF ShapePeer
<1>2. CASE UNCHANGED <<client, got>>
  BY <1>1, <1>2, Zenon DEF Answered
<1>3. CASE /\ client[s].waiting /\ client[s].rid = r
           /\ client' = [client EXCEPT ![s].waiting = FALSE] /\ got' = [got EXCEPT ![r] = st]
  <2> DEFINE y == [client[s] EXCEPT !.waiting = FALSE]
  <2>1. y \in ClientRecs /\ y.rid = client[s].rid /\ y.seq = client[s].seq /\ y.waiting = FALSE
    BY <1>1, Zenon DEF ClientRecs
  <2>2. client' = [client EXCEPT ![s] = y]
    BY <1>1, <1>3, Zenon
  <2> HIDE DEF y
  <2>3. client' \in [Slots -> ClientRecs] /\ client'[s] = y /\ \A o \in Slots : o # s => client'[o] = client[o]
    BY <1>1, <2>1, <2>2, Zenon
  <2> QED BY <1>3, <2>1, <2>3, Zenon DEF Answered
<1> QED BY <1>2, <1>3, Zenon DEF Answer

\* Reply ends the compound and answers its request.
LEMMA LeavesFacts ==
  ASSUME Base, NEW s \in Slots, Reply(s)
  PROVE  Leaves(s)
<1>1. th \in [Slots -> Threads] /\ ShapePeer /\ Idle \in Threads
  BY IdleShape, Zenon DEF Base, Shape, ShapeMem
<1>2. th' = [th EXCEPT ![s] = Idle] /\ Answer(s, th[s].rid, th[s].status) /\ UNCHANGED <<net, reqs>>
  BY Zenon DEF Reply
<1> QED BY <1>1, <1>2, ThExcept, AnswerFacts, Zenon DEF Leaves

\* The action of finish does what its description in Step says.
LEMMA FinishFacts ==
  ASSUME Base, NEW s \in Slots, finish(s)
  PROVE  FinishStep(s)
<1>1. th[s].pc = "finish" /\ UNCHANGED <<fsys, file, cur, used>>
  BY Zenon DEF finish
<1>2. /\ th \in [Slots -> Threads] /\ th[s] \in Threads /\ slots \in [Slots -> SlotRecs]
      /\ slots[s] \in SlotRecs /\ file # "none" /\ file \in {"none", "live", "gone", "poisoned"}
      /\ slots[s].reply = "nil" /\ slots[s].inUse \in BOOLEAN
  BY <1>1, RunningFacts, Zenon DEF Running, Base, Shape, ShapeMem, ShapeDisk, SlotInv, SlotRecs
<1>3. Saved(s) \in Statuses
  BY <1>1, SavedShape, Zenon DEF Running
<1>4. slots[s].reply = "nil"
  BY <1>2, Zenon
<1>5. CASE /\ sess = "up" /\ file = "live"
           /\ BeginWrite(s)
           /\ slots' = [slots EXCEPT ![s].reply = Saved(s)]
           /\ th' = [th EXCEPT ![s].pc = "fwrite"]
           /\ UNCHANGED <<sess, client, net, reqs, got>>
  <2>1. slots' = [slots EXCEPT ![s] = [slots[s] EXCEPT !.reply = Saved(s), !.inUse = slots[s].inUse]]
    BY <1>2, <1>3, <1>5, Zenon DEF SlotRecs
  <2>2. /\ KeepIds /\ (\A o \in Slots : o # s => slots'[o] = slots[o])
        /\ slots'[s].reply = Saved(s) /\ (slots'[s].inUse <=> slots[s].inUse)
    BY <1>2, <1>3, <2>1, SlotUpdate, Zenon
  <2> DEFINE y == [th[s] EXCEPT !.pc = "fwrite"]
  <2>3. y \in Threads
    BY <1>2, Zenon DEF Threads, PCs
  <2>4. y.status = th[s].status
    BY <1>2, Zenon DEF Threads
  <2>5. th'[s] = y
    BY <1>2, <1>5, Zenon
  <2> HIDE DEF y
  <2>6. th'[s].status = th[s].status /\ "fwrite" \in PCs
    BY <2>4, <2>5, Zenon DEF PCs
  <2>7. Moves(s) /\ Same(s) /\ th'[s].pc = "fwrite" /\ th'[s].op = th[s].op
    BY <1>2, <1>5, <2>6, PcOnly, Zenon
  <2>8. SlotsKept(s)
    BY <2>2, Zenon DEF SlotsKept
  <2> QED BY <1>1, <1>5, <2>2, <2>6, <2>7, <2>8, Zenon DEF FinishStep
<1>6. CASE sess = "up" /\ file = "poisoned" /\ sess' = "retired" /\ slots' = Drain /\ Reply(s) /\ UNCHANGED disk
  <2>1. SlotsKept(s) /\ slots'[s].reply = "nil"
    BY <1>2, <1>6, DrainFacts, Zenon DEF SlotsKept, KeepIds
  <2> QED BY <1>1, <1>2, <1>6, <2>1, LeavesFacts, Zenon DEF FinishStep
<1>7. CASE /\ sess = "up" /\ file \notin {"live", "poisoned"} /\ sess' = sess /\ Reply(s) /\ UNCHANGED disk
           /\ slots' = [slots EXCEPT ![s].inUse = FALSE, ![s].reply = Saved(s)]
  <2>1. slots' = [slots EXCEPT ![s] = [slots[s] EXCEPT !.reply = Saved(s), !.inUse = FALSE]]
    BY <1>2, <1>3, <1>7, Zenon DEF SlotRecs
  <2>2. /\ KeepIds /\ (\A o \in Slots : o # s => slots'[o] = slots[o])
        /\ slots'[s].reply = Saved(s) /\ (slots'[s].inUse <=> FALSE)
    BY <1>2, <1>3, <2>1, SlotUpdate, Zenon
  <2>3. SlotsKept(s) /\ file = "gone"
    BY <1>2, <1>7, <2>2 DEF SlotsKept
  <2> QED BY <1>1, <1>2, <1>7, <2>2, <2>3, LeavesFacts, Zenon DEF FinishStep
<1>8. CASE /\ sess = "retired" /\ sess' = sess /\ Reply(s) /\ UNCHANGED disk
           /\ slots' = [slots EXCEPT ![s].inUse = FALSE]
  <2>1. slots' = [slots EXCEPT ![s] = [slots[s] EXCEPT !.reply = "nil", !.inUse = FALSE]]
    BY <1>2, <1>8, Zenon DEF SlotRecs
  <2>2. /\ KeepIds /\ (\A o \in Slots : o # s => slots'[o] = slots[o])
        /\ slots'[s].reply = "nil" /\ (slots'[s].inUse <=> FALSE)
    BY <1>2, <2>1, SlotUpdate, Zenon
  <2>3. SlotsKept(s)
    BY <1>2, <1>8, <2>2, Zenon DEF SlotsKept
  <2> QED BY <1>1, <1>2, <1>8, <2>2, <2>3, LeavesFacts, Zenon DEF FinishStep
<1> QED BY <1>5, <1>6, <1>7, <1>8, Zenon DEF finish

\* The action of the end of the reply write does what its description in Step says.
LEMMA SWrittenFacts ==
  ASSUME Base, NEW s \in Slots, SlotWritten(s)
  PROVE  SWrittenStep(s)
<1>1. th[s].pc = "fwrite" /\ UNCHANGED fsys /\ Reply(s)
  BY Zenon DEF SlotWritten
<1>2. /\ slots \in [Slots -> SlotRecs] /\ slots[s] \in SlotRecs /\ file = "live"
      /\ slots[s].reply \in Statuses \cup {"nil"}
  BY <1>1, Zenon DEF Running, Base, Shape, ShapeMem, SlotInv, SlotRecs
<1>3. ASSUME slots' = [slots EXCEPT ![s].inUse = FALSE]
      PROVE  SlotsKept(s) /\ ~slots'[s].inUse /\ slots'[s].reply = slots[s].reply
  <2>1. slots' = [slots EXCEPT ![s] = [slots[s] EXCEPT !.reply = slots[s].reply, !.inUse = FALSE]]
    BY <1>2, <1>3, Zenon DEF SlotRecs
  <2>2. /\ KeepIds /\ (\A o \in Slots : o # s => slots'[o] = slots[o])
        /\ slots'[s].reply = slots[s].reply /\ (slots'[s].inUse <=> FALSE)
    BY <1>2, <2>1, SlotUpdate, Zenon
  <2> QED BY <2>2, Zenon DEF SlotsKept
<1>4. CASE EndWrite(s, SlotOf(s)) /\ slots' = [slots EXCEPT ![s].inUse = FALSE] /\ UNCHANGED sess
  BY <1>1, <1>2, <1>3, <1>4, LeavesFacts, Zenon DEF SWrittenStep
<1>5. CASE /\ Alone(s) /\ invalidate(1)
           /\ IF file' = "poisoned" THEN sess' = "retired" /\ slots' = [Drain EXCEPT ![s].inUse = FALSE]
              ELSE slots' = [slots EXCEPT ![s].inUse = FALSE] /\ UNCHANGED sess
           /\ UNCHANGED cur
  <2>1. Invalidated
    BY <1>5, InvalidateFacts, Zenon DEF Base, Shape
  <2>2. CASE file' = "poisoned"
    <3> DEFINE y == [Drain[s] EXCEPT !.inUse = FALSE]
    <3>1. slots' = [Drain EXCEPT ![s] = y]
      BY <1>2, <1>5, <2>2, DrainFacts, Zenon
    <3>2. Drain[s] \in SlotRecs
      BY <1>2, DrainFacts, Zenon
    <3>3. y \in SlotRecs /\ y.inUse = FALSE
      BY <3>2, Zenon DEF SlotRecs
    <3>4. y.seq = Drain[s].seq /\ y.rid = Drain[s].rid /\ y.intent = Drain[s].intent
          /\ y.reply = Drain[s].reply
      BY <3>2, Zenon DEF SlotRecs
    <3>5. y.occupied = Drain[s].occupied
      BY <3>2, Zenon DEF SlotRecs
    <3>6. y.restored = Drain[s].restored
      BY <3>2, Zenon DEF SlotRecs
    <3> HIDE DEF y
    <3>7. slots' \in [Slots -> SlotRecs] /\ slots'[s] = y /\ \A o \in Slots : o # s => slots'[o] = Drain[o]
      BY <1>2, <3>1, <3>3, DrainFacts, Zenon
    <3>8. ASSUME NEW o \in Slots
          PROVE  /\ slots'[o].seq = slots[o].seq /\ slots'[o].rid = slots[o].rid
                 /\ slots'[o].intent = slots[o].intent /\ slots'[o].reply = "nil"
                 /\ slots'[o].occupied = slots[o].occupied
                 /\ slots'[o].restored = slots[o].restored
                 /\ o # s => slots'[o].inUse = slots[o].inUse
      <4>1. CASE o = s
        BY <1>2, <3>4, <3>5, <3>6, <3>7, <4>1, DrainFacts, Zenon
      <4>2. CASE o # s
        BY <1>2, <3>7, <4>2, DrainFacts, ZenonT(60)
      <4> QED BY <4>1, <4>2, Zenon
    <3>9. SlotsKept(s) /\ slots'[s].reply = "nil"
      <4>1. KeepIds
        BY <3>7, <3>8, Zenon DEF KeepIds
      <4>2. sess' = "retired"
        BY <1>5, <2>2, Zenon
      <4> QED BY <3>8, <4>1, <4>2, Zenon DEF SlotsKept
    <3>10. ~slots'[s].inUse
      BY <3>3, <3>7, Zenon
    <3> QED BY <1>1, <1>2, <1>5, <2>1, <2>2, <3>9, <3>10, LeavesFacts, Zenon DEF SWrittenStep
  <2>3. CASE file' # "poisoned"
    <3>1. slots' = [slots EXCEPT ![s].inUse = FALSE] /\ sess' = sess /\ file' = "gone"
      BY <1>2, <1>5, <2>1, <2>3, Zenon DEF Invalidated
    <3>2. SlotsKept(s) /\ ~slots'[s].inUse /\ slots'[s].reply = slots[s].reply
      BY <1>3, <3>1, Zenon
    <3>3. Leaves(s)
      BY <1>1, LeavesFacts, Zenon
    <3>4. Alone(s) /\ cur' = cur
      BY <1>5, Zenon
    <3> QED BY <1>1, <1>2, <2>1, <3>1, <3>2, <3>3, <3>4, Zenon DEF SWrittenStep
  <2> QED BY <2>2, <2>3, Zenon
<1> QED BY <1>4, <1>5, Zenon DEF SlotWritten, SlotOf, Alone

\* The action of startSequence does what its description in Step says.
LEMMA StartFacts ==
  ASSUME Base, NEW m \in net, startSequence(m)
  PROVE  StartStep(m)
<1> DEFINE s  == m.slot
           in == IF Admission(m) = "rerun" THEN slots[s].intent ELSE NoPay
           x  == [EmptySlot EXCEPT !.seq = m.seq, !.occupied = TRUE, !.inUse = TRUE, !.rid = m.rid]
           b  == in # NoPay
           y  == [Idle EXCEPT !.pc = "op", !.rid = m.rid, !.op = 1, !.replay = in, !.pending = b]
<1>1. /\ th[s].pc = "idle" /\ Admission(m) \in {"new", "rerun"}
      /\ slots' = [slots EXCEPT ![s] = x] /\ th' = [th EXCEPT ![s] = y]
      /\ UNCHANGED <<fsys, disk, sess, file, cur, peer, used>>
  BY Zenon DEF startSequence
<1>2. s \in Slots /\ Of(s, m.rid, m.seq) /\ m.seq \in Nat /\ m.rid \in Nat
  BY AdmissionFacts, Zenon DEF Base, Shape, ShapePeer, Messages
<1>3. th \in [Slots -> Threads] /\ slots \in [Slots -> SlotRecs]
  BY Zenon DEF Base, Shape, ShapeMem
<1>4. in \in Pays \cup {NoPay} /\ b \in BOOLEAN
  BY <1>2, <1>3, Zenon DEF SlotRecs
<1>5. /\ sess = "up" /\ ~slots[s].inUse
      /\ \/ /\ slots[s].occupied /\ slots[s].seq = m.seq /\ slots[s].rid = m.rid
            /\ slots[s].reply = "nil" /\ slots[s].restored /\ in = slots[s].intent
         \/ /\ in = NoPay /\ slots[s].seq < m.seq
            /\ slots[s].restored \/ m.seq = slots[s].seq + 1
  BY <1>1, AdmissionFacts, Zenon
<1>6. b <=> in # NoPay
  BY Zenon
<1> HIDE DEF in, b
<1>7. /\ x \in SlotRecs /\ x.seq = m.seq /\ x.rid = m.rid /\ x.occupied /\ x.inUse
      /\ ~x.restored /\ x.reply = "nil" /\ x.intent = NoPay
  BY <1>2, Zenon DEF EmptySlot, SlotRecs
<1>8. y \in Threads
  BY <1>2, <1>4, IdleShape, Zenon DEF Threads, PCs
<1>9. y.pc = "op" /\ y.rid = m.rid /\ y.op = 1 /\ y.intentOp = 0 /\ y.replay = in
  BY <1>2, <1>4, IdleShape, Zenon DEF Threads
<1>10. y.pending = b /\ y.mutated = FALSE
  BY <1>2, <1>4, IdleShape, Zenon DEF Threads
<1> HIDE DEF x, y
<1>11. slots' \in [Slots -> SlotRecs] /\ slots'[s] = x /\ \A o \in Slots : o # s => slots'[o] = slots[o]
  BY <1>1, <1>2, <1>3, <1>7, Zenon
<1>12. th' \in [Slots -> Threads] /\ th'[s] = y /\ \A o \in Slots : o # s => th'[o] = th[o]
  BY <1>1, <1>2, <1>3, <1>8, ThExcept, Zenon
<1>13. th'[s].pending <=> th'[s].replay # NoPay
  BY <1>6, <1>9, <1>10, <1>12, Zenon
<1>14. ~th'[s].mutated
  BY <1>10, <1>12, Zenon
<1> QED BY <1>1, <1>2, <1>5, <1>7, <1>9, <1>11, <1>12, <1>13, <1>14, Zenon DEF StartStep

\* The restored slot says what the newest record says.
LEMMA RestoredFacts ==
  ASSUME Base, NEW s \in Slots, slots'[s] = RestoredSlot(s)
  PROVE  Restored(s)
<1> DEFINE a == NewestArea(s)
           rec == disk.area[s][a]
<1>1. a \in 0..2 /\ (a # 0 => rec.kind # "NONE")
  BY NewestIs, Zenon
<1>2. CASE a = 0
  <2>1. slots'[s] = [EmptySlot EXCEPT !.restored = TRUE]
    BY <1>2, Zenon DEF RestoredSlot
  <2>2. /\ slots'[s] \in SlotRecs /\ slots'[s].restored /\ ~slots'[s].inUse
        /\ ~slots'[s].occupied /\ slots'[s].seq = 0 /\ slots'[s].rid = 0
        /\ slots'[s].reply = "nil" /\ slots'[s].intent = NoPay
    <3> HIDE DEF a, rec
    <3> QED BY <2>1, EmptyShape, Zenon DEF SlotRecs
  <2> QED BY <1>2, <2>2, Zenon DEF Restored
<1>3. CASE a # 0
  <2>1. a \in 1..2
    BY <1>1, <1>3
  <2>2. rec \in DiskRecs
    BY <2>1 DEF Base, Shape, ShapeDisk
  <2> DEFINE rep == IF rec.kind = "SLOT" THEN rec.val ELSE "nil"
             int == IF rec.kind = "INTENT" THEN rec.val ELSE NoPay
  <2>3. slots'[s] = [EmptySlot EXCEPT !.restored = TRUE, !.seq = rec.seq, !.occupied = TRUE,
                                      !.rid = rec.rid, !.reply = rep, !.intent = int]
    BY <1>3, Zenon DEF RestoredSlot
  <2>4. rec.kind \in {"INTENT", "SLOT"} /\ rec.seq \in Nat /\ rec.rid \in Nat
        /\ (rec.kind = "INTENT" => rec.val \in Pays) /\ (rec.kind = "SLOT" => rec.val \in Statuses)
    BY <1>1, <1>3, <2>2, RecShape, Zenon
  <2> HIDE DEF rec
  <2>5. rep \in Statuses \cup {"nil"} /\ int \in Pays \cup {NoPay}
    BY <2>4, Zenon
  <2> HIDE DEF rep, int
  <2>6. /\ slots'[s] \in SlotRecs /\ slots'[s].restored /\ ~slots'[s].inUse /\ slots'[s].occupied
        /\ slots'[s].seq = rec.seq /\ slots'[s].rid = rec.rid
        /\ slots'[s].reply = rep /\ slots'[s].intent = int
    BY <2>3, <2>4, <2>5, Zenon DEF EmptySlot, SlotRecs
  <2>7. /\ rec.kind = "SLOT" => rep = rec.val /\ int = NoPay
        /\ rec.kind = "INTENT" => rep = "nil" /\ int = rec.val
    BY Zenon DEF rep, int
  <2> HIDE DEF a
  <2>8. /\ rec.kind = "SLOT" => slots'[s].reply = rec.val /\ slots'[s].intent = NoPay
                                /\ slots'[s].reply \in Statuses
        /\ rec.kind = "INTENT" => slots'[s].reply = "nil" /\ slots'[s].intent = rec.val
                                  /\ slots'[s].intent \in Pays
        /\ rec.kind # "NONE"
    BY <2>4, <2>6, <2>7, Zenon
  <2> QED BY <1>1, <2>1, <2>6, <2>8, Zenon DEF Restored, a, rec
<1> QED BY <1>2, <1>3, Zenon

\* A call that lands changes edges as TernFS does, and links what it moves.
LEMMA LandEdges ==
  ASSUME Base, CallsInv, NEW c \in calls, Land(c), Lands(c), c.pay \in Pays
  PROVE  /\ EdgesStep
         /\ c.pay.k = "RENAME" => <<c.pay.to, c.pay.edge.id>> \in linked'
<1> DEFINE p  == c.pay
           id == IF p.k = "CREATE" THEN clock + 1 ELSE p.edge.id
           at == IF p.k = "CREATE" THEN p.from ELSE p.to
           e  == [id |-> id, ct |-> clock + 1]
<1>1. /\ edges \in [Names -> EdgeRecs] /\ clock \in Nat /\ p.from \in Names /\ p.to \in Names
      /\ p.edge \in EdgeRecs /\ p.k \in {"REMOVE", "RENAME", "CREATE"}
  BY Zenon DEF Base, Shape, ShapeFs, Pays
<1>2. NoEdge \in EdgeRecs
  BY Zenon DEF NoEdge, EdgeRecs
<1>3. at \in Names /\ e \in EdgeRecs /\ e.ct = clock + 1 /\ e.id = id
  BY <1>1 DEF EdgeRecs
<1>4. clock' = clock + 1
  BY Zenon DEF Land, Lands
<1>5. CASE p.k = "REMOVE"
  <2>1. edges' = [edges EXCEPT ![p.from] = NoEdge] /\ linked' = linked
    BY <1>5, Zenon DEF Land, Lands
  <2> QED BY <1>1, <1>2, <1>4, <1>5, <2>1 DEF EdgesStep
<1>6. CASE p.k # "REMOVE"
  <2>1. edges' = [[edges EXCEPT ![p.from] = NoEdge] EXCEPT ![at] = e] /\ linked' = linked \cup {<<at, id>>}
    BY <1>6, Zenon DEF Land, Lands
  <2>2. p.k = "CREATE" \/ (edges[p.from] = p.edge /\ id = p.edge.id /\ at = p.to /\ p.edge # NoEdge)
    BY Zenon DEF Lands, CallsInv
  <2>3. id = clock + 1 \/ \E o \in Names : edges[o] # NoEdge /\ id = edges[o].id
    BY <1>1, <2>2, Zenon
  <2>4. p.k # "CREATE" => <<p.to, p.edge.id>> \in linked'
    BY <2>1, Zenon
  <2> HIDE DEF id, at, e
  <2>5. /\ edges' \in [Names -> EdgeRecs] /\ edges'[at] = e
        /\ \A n \in Names : n # at => edges'[n] = edges[n] \/ edges'[n] = NoEdge
    BY <1>1, <1>2, <1>3, <2>1, Zenon
  <2> QED BY <1>1, <1>3, <1>4, <2>1, <2>3, <2>4, <2>5 DEF EdgesStep
<1> QED BY <1>5, <1>6, Zenon

\* The shape of the state survives a call that TernFS carries out or refuses.
LEMMA BaseLand ==
  ASSUME Base, CallsInv, NEW c \in calls, Land(c), LandStep(c)
  PROVE  Base'
<1>1. /\ c.rid \in 1..MaxReqs /\ c.pay.op \in 1..MaxOps /\ c.slot \in Slots /\ c.pay \in Pays
  BY CallRange, Zenon
<1>2. UNCHANGED <<meant, disk, sess, file, cur, slots, peer, used>> /\ reqs' = reqs /\ calls' \subseteq calls
  BY Zenon DEF LandStep, peer
<1>3. ShapeFs'
  <2>1. CASE ~Lands(c)
    BY <1>2, <2>1, Zenon DEF LandStep, Base, Shape, ShapeFs
  <2>2. CASE Lands(c)
    <3>1. done' = [done EXCEPT ![c.rid][c.pay.op] = @ + 1] /\ done \in [1..MaxReqs -> [1..MaxOps -> Nat]]
      BY <2>2, Zenon DEF LandStep, Base, Shape, ShapeFs
    <3>2. done' \in [1..MaxReqs -> [1..MaxOps -> Nat]]
      BY <1>1, <3>1, DoneStep, Zenon
    <3> QED BY <1>1, <1>2, <2>2, <3>2, LandEdges, Zenon DEF EdgesStep, Base, Shape, ShapeFs
  <2> QED BY <2>1, <2>2, Zenon
<1>4. ShapeDisk' /\ AreaInv' /\ FileInv'
  BY <1>2, DiskKept, Zenon
<1>5. CASE Hears(c)
  <2>1. Running(c.slot) /\ Moves(c.slot) /\ th[c.slot].pc # "fwrite"
    BY <1>5, Zenon DEF LandStep, Hears, Running
  <2>2. Stops(c.slot) \/ Goes(c.slot)
    BY <1>5, Zenon DEF LandStep
  <2>3. GoodPc(c.slot)
    BY <1>1, <2>1, <2>2, StopGoGood, Zenon
  <2> QED BY <1>1, <1>2, <1>3, <1>4, <2>1, <2>3, WritersLive, BaseThread, Zenon
<1>6. CASE ~Hears(c)
  <2>1. th' = th
    BY <1>6, Zenon DEF LandStep
  <2> QED BY <1>2, <1>3, <2>1, BaseFrame, Zenon DEF mem
<1> QED BY <1>5, <1>6, Zenon

\* Another host changes only edges.
LEMMA OtherEdges ==
  ASSUME Base, OtherHost
  PROVE  /\ EdgesStep /\ used' \in [Troubles -> Nat] /\ used'["kills"] = used["kills"]
         /\ UNCHANGED <<calls, done, meant, disk, mem, peer>>
<1>1. /\ edges \in [Names -> EdgeRecs] /\ clock \in Nat /\ NoEdge \in EdgeRecs
  BY Zenon DEF Base, Shape, ShapeFs, NoEdge, EdgeRecs
<1>2. /\ used' \in [Troubles -> Nat] /\ used'["kills"] = used["kills"]
      /\ UNCHANGED <<calls, done, meant, disk, mem, peer>>
  BY SpendFacts, Zenon DEF OtherHost, Base, Shape
<1>3. clock' = clock + 1 /\ clock + 1 \in Nat
  BY <1>1 DEF OtherHost
<1>4. PICK n \in Names :
         \/ /\ edges[n] # NoEdge
            /\ edges' = [edges EXCEPT ![n] = NoEdge] /\ UNCHANGED linked
         \/ /\ edges' = [edges EXCEPT ![n] = [id |-> clock + 1, ct |-> clock + 1]]
            /\ linked' = linked \cup {<<n, clock + 1>>}
         \/ \E m \in Names \ {n} :
              /\ edges[n] # NoEdge
              /\ edges' = [edges EXCEPT ![m] = [id |-> edges[n].id, ct |-> clock + 1], ![n] = NoEdge]
              /\ linked' = linked \cup {<<m, edges[n].id>>}
  BY Zenon DEF OtherHost
<1>5. CASE edges' = [edges EXCEPT ![n] = NoEdge] /\ UNCHANGED linked
  <2>1. edges' \in [Names -> EdgeRecs] /\ edges'[n] = NoEdge
        /\ \A o \in Names : o # n => edges'[o] = edges[o]
    BY <1>1, <1>5, Zenon
  <2>2. clock' \in Nat /\ clock' >= clock /\ linked \subseteq linked'
    BY <1>1, <1>3, <1>5
  <2> QED BY <1>2, <2>1, <2>2, Zenon DEF EdgesStep
<1>6. CASE /\ edges' = [edges EXCEPT ![n] = [id |-> clock + 1, ct |-> clock + 1]]
           /\ linked' = linked \cup {<<n, clock + 1>>}
  <2> DEFINE e == [id |-> clock + 1, ct |-> clock + 1]
  <2>1. e \in EdgeRecs /\ e.id = clock + 1 /\ e.ct = clock + 1
    BY <1>3, Zenon DEF EdgeRecs
  <2>2. edges' = [edges EXCEPT ![n] = e]
    BY <1>6, Zenon
  <2> HIDE DEF e
  <2>3. edges' \in [Names -> EdgeRecs] /\ edges'[n] = e
        /\ \A o \in Names : o # n => edges'[o] = edges[o]
    BY <1>1, <2>1, <2>2, Zenon
  <2>4. clock' \in Nat /\ clock' >= clock /\ linked \subseteq linked'
    BY <1>1, <1>3, <1>6
  <2>5. <<n, edges'[n].id>> \in linked'
    BY <1>6, <2>1, <2>3, Zenon
  <2> QED BY <1>2, <1>3, <2>1, <2>3, <2>4, <2>5, Zenon DEF EdgesStep
<1>7. ASSUME NEW m \in Names \ {n}, edges[n] # NoEdge,
             edges' = [edges EXCEPT ![m] = [id |-> edges[n].id, ct |-> clock + 1], ![n] = NoEdge],
             linked' = linked \cup {<<m, edges[n].id>>}
      PROVE  EdgesStep
  <2> DEFINE e == [id |-> edges[n].id, ct |-> clock + 1]
  <2>1. e \in EdgeRecs /\ e.id = edges[n].id /\ e.ct = clock + 1
    <3>1. edges[n].id \in Nat
      BY <1>1, Zenon DEF EdgeRecs
    <3> QED BY <1>3, <3>1, Zenon DEF EdgeRecs
  <2>2. edges' = [edges EXCEPT ![m] = e, ![n] = NoEdge]
    BY <1>7, Zenon
  <2> HIDE DEF e
  <2>3. edges' \in [Names -> EdgeRecs] /\ edges'[m] = e /\ edges'[n] = NoEdge
        /\ \A o \in Names : o # m /\ o # n => edges'[o] = edges[o]
    BY <1>1, <2>1, <2>2, Zenon
  <2> QED BY <1>1, <1>3, <1>7, <2>1, <2>3 DEF EdgesStep
<1> QED BY <1>2, <1>4, <1>5, <1>6, <1>7, Zenon

\* The shape of the state survives a change by another host.
LEMMA BaseOther ==
  ASSUME Base, OtherHost
  PROVE  Base'
<1>1. ShapeFs'
  BY OtherEdges, Zenon DEF EdgesStep, Base, Shape, ShapeFs
<1> QED BY <1>1, OtherEdges, BaseFrame, Zenon

\* An answer without a run is the kept reply or a refusal, and changes nothing else.
LEMMA BaseServe ==
  ASSUME Base, NEW m \in net, ServeReplay(m) \/ Refuse(m)
  PROVE  /\ Base' /\ UNCHANGED <<fsys, disk, mem, net, reqs, used>>
         /\ \E st \in Statuses : /\ Answered(m.slot, m.rid, st)
                                 /\ \/ Admission(m) = "replay" /\ st = slots[m.slot].reply
                                    \/ Admission(m) \notin {"new", "rerun", "replay", "DELAY"} /\ st # "OK"
<1>1. UNCHANGED <<fsys, disk, mem, net, reqs, used>>
  BY Zenon DEF ServeReplay, Refuse
<1>2. m.slot \in Slots /\ m.rid \in 1..MaxReqs /\ ShapePeer
  BY AdmissionFacts, SeqRange, Zenon DEF Base, Shape
<1>3. slots[m.slot].reply \in Statuses \cup {"nil"}
  BY <1>2, Zenon DEF Base, Shape, ShapeMem, SlotRecs
<1>4. \E st \in Statuses : /\ Answered(m.slot, m.rid, st)
                           /\ \/ Admission(m) = "replay" /\ st = slots[m.slot].reply
                              \/ Admission(m) \notin {"new", "rerun", "replay", "DELAY"} /\ st # "OK"
  <2>1. CASE ServeReplay(m)
    <3>1. Admission(m) = "replay" /\ Answer(m.slot, m.rid, slots[m.slot].reply)
      BY <2>1, Zenon DEF ServeReplay
    <3>2. slots[m.slot].reply \in Statuses
      BY <1>3, <3>1, AdmissionFacts, Zenon
    <3> QED BY <1>2, <3>1, <3>2, AnswerFacts, Zenon
  <2>2. CASE Refuse(m)
    <3>1. /\ Admission(m) \notin {"new", "rerun", "replay", "DELAY"}
          /\ Answer(m.slot, m.rid, Admission(m))
      BY <2>2, Zenon DEF Refuse
    <3>2. Admission(m) \in Statuses /\ Admission(m) # "OK"
      BY <3>1, AdmissionFacts, Zenon
    <3> QED BY <1>2, <3>1, <3>2, AnswerFacts, Zenon
  <2> QED BY <2>1, <2>2, Zenon
<1>5. ShapePeer' /\ ClientsInv' /\ RequestsInv' /\ NetInv'
  BY <1>1, <1>2, <1>4, BaseAnswer, Zenon
<1>6. Base'
  BY <1>1, <1>5, BasePeer, Zenon DEF Rids
<1> QED BY <1>1, <1>4, <1>6, Zenon

\* A new request keeps the shape and is the SendStep of the description.
LEMMA BaseSend ==
  ASSUME Base, NEW s \in Slots, SendRequest(s)
  PROVE  SendStep(s) /\ Base'
<1> DEFINE r == Len(reqs) + 1
           q == (client[s].seq + 1) % SeqIds
<1>1. PICK c \in Compounds :
          /\ reqs' = Append(reqs, [ops |-> c.ops, cache |-> c.cache, slot |-> s, seq |-> q])
          /\ client' = [client EXCEPT ![s] = [rid |-> r, seq |-> q, waiting |-> TRUE]]
          /\ net' = net \cup {[slot |-> s, seq |-> q, rid |-> r]}
  BY Zenon DEF SendRequest
<1>2. ~client[s].waiting /\ Len(reqs) < MaxReqs /\ UNCHANGED <<fsys, disk, mem, got, used>>
  BY Zenon DEF SendRequest
<1>3. /\ client[s].seq \in 0..MaxReqs /\ client[s].rid \in 0..Len(reqs) /\ client[s].seq <= client[s].rid
      /\ reqs \in Seq(Requests) /\ Len(reqs) \in Nat /\ client \in [Slots -> ClientRecs]
      /\ net \subseteq Messages /\ MaxReqs \in Nat /\ MaxOps \in Nat
  BY ClientRange, ReplayAssumption DEF Base, Shape, ShapePeer
<1>4. q = client[s].seq + 1
  BY <1>3, NextSeq, Zenon
<1>5. c.ops \in Seq(Operations) /\ Len(c.ops) \in 1..MaxOps /\ c.cache \in BOOLEAN
  BY ReplayAssumption, Zenon
<1> DEFINE e == [ops |-> c.ops, cache |-> c.cache, slot |-> s, seq |-> q]
           k == [rid |-> r, seq |-> q, waiting |-> TRUE]
           m == [slot |-> s, seq |-> q, rid |-> r]
<1>6. q \in Nat /\ r \in Nat
  BY <1>3, <1>4
<1> HIDE DEF q
<1>7. e \in Requests /\ e.slot = s /\ e.seq = q /\ e.ops = c.ops
  BY <1>5, <1>6, Zenon DEF Requests
<1> HIDE DEF r
<1>8. k \in ClientRecs /\ k.rid = r /\ k.seq = q /\ k.waiting
  BY <1>6, Zenon DEF ClientRecs
<1>9. m \in Messages /\ m.slot = s /\ m.rid = r /\ m.seq = q
  BY <1>6, Zenon DEF Messages
<1>10. reqs' = Append(reqs, e) /\ client' = [client EXCEPT ![s] = k] /\ net' = net \cup {m}
  BY <1>1, Zenon
<1> HIDE DEF e, k, m
<1>11. /\ reqs' \in Seq(Requests) /\ Len(reqs') = Len(reqs) + 1 /\ reqs'[Len(reqs) + 1] = e
       /\ \A i \in 1..Len(reqs) : reqs'[i] = reqs[i]
  BY <1>3, <1>7, <1>10
<1>12. /\ Rids \subseteq Rids' /\ (\A i \in Rids : reqs'[i] = reqs[i]) /\ reqs'[r] = e
       /\ Rids' = Rids \cup {r} /\ r \notin Rids
  BY <1>3, <1>11 DEF Rids, r
<1>13. client' \in [Slots -> ClientRecs] /\ client'[s] = k /\ \A o \in Slots : o # s => client'[o] = client[o]
  BY <1>3, <1>8, <1>10, Zenon
<1>14. SendStep(s)
  BY <1>2, <1>4, <1>7, <1>8, <1>10, <1>11, <1>12, <1>13, Zenon DEF SendStep, r, m
<1>15. ShapePeer'
  <2>1. Len(reqs') <= MaxReqs /\ net' \subseteq Messages /\ got' = got
    BY <1>2, <1>3, <1>9, <1>10, <1>11
  <2> QED BY <1>11, <1>13, <2>1, Zenon DEF Base, Shape, ShapePeer
<1>16. \A i \in Rids : reqs[i].slot = s => reqs[i].seq < q
  <2>1. SUFFICES ASSUME NEW i \in Rids, reqs[i].slot = s PROVE reqs[i].seq < q
    BY Zenon
  <2>2. i <= client[s].rid /\ i \in Nat /\ i > 0
    BY <1>3, <2>1 DEF Base, ClientsInv, Rids
  <2>3. client[s].rid \in Rids /\ reqs[client[s].rid].slot = s /\ reqs[client[s].rid].seq = client[s].seq
    BY <1>3, <2>2, SMTT(60) DEF Base, ClientsInv, Of
  <2>4. reqs[i].seq <= client[s].seq
    <3>1. CASE i = client[s].rid
      BY <1>3, <2>3, <3>1
    <3>2. CASE i < client[s].rid
      <4>1. reqs[i].seq < reqs[client[s].rid].seq
        BY <2>1, <2>3, <3>2, Zenon DEF Base, RequestsInv
      <4>2. reqs[i].seq \in Nat
        BY <2>1, <2>2 DEF Base, RequestsInv
      <4> QED BY <1>3, <2>3, <4>1, <4>2
    <3> QED BY <1>3, <2>2, <3>1, <3>2
  <2>5. reqs[i].seq \in Nat
    BY <2>1, <2>2 DEF Base, RequestsInv
  <2> QED BY <1>3, <1>4, <2>4, <2>5
<1>17. RequestsInv'
  <2>1. ASSUME NEW i \in Rids'
        PROVE  Len(reqs'[i].ops) \in 1..MaxOps /\ reqs'[i].seq \in 1..i
    <3>1. CASE i \in Rids
      BY <1>12, <3>1, Zenon DEF Base, RequestsInv
    <3>2. CASE i = r
      BY <1>3, <1>4, <1>5, <1>7, <1>12, <3>2, SMTT(60) DEF r
    <3> QED BY <1>12, <3>1, <3>2, Zenon
  <2>2. ASSUME NEW i \in Rids', NEW j \in Rids', i < j, reqs'[i].slot = reqs'[j].slot
        PROVE  reqs'[i].seq < reqs'[j].seq
    <3>1. i \in Rids
      BY <1>3, <1>12, <2>2 DEF Rids, r
    <3>2. CASE j \in Rids
      BY <1>12, <2>2, <3>1, <3>2, Zenon DEF Base, RequestsInv
    <3>3. CASE j = r
      BY <1>7, <1>12, <1>16, <2>2, <3>1, <3>3, Zenon
    <3> QED BY <1>12, <3>2, <3>3, Zenon
  <2> QED BY <2>1, <2>2, Zenon DEF RequestsInv
<1>18. \A o, i, p : Of(o, i, p) => OfNext(o, i, p)
  BY <1>12, Zenon DEF Of, OfNext
<1>19. OfNext(s, r, q)
  BY <1>7, <1>12, Zenon DEF OfNext
<1>20. ClientsInv'
  <2>1. SUFFICES ASSUME NEW o \in Slots
                 PROVE  /\ \A i \in Rids' : reqs'[i].slot = o => i <= client'[o].rid
                        /\ \/ client'[o].rid = 0 /\ client'[o].seq = 0 /\ ~client'[o].waiting
                           \/ OfNext(o, client'[o].rid, client'[o].seq)
    BY Zenon DEF ClientsInv, Of, OfNext
  <2>2. CASE o = s
    <3>1. \A i \in Rids' : i <= r
      BY <1>3, <1>12, SMTT(60) DEF Rids, r
    <3> QED BY <1>8, <1>13, <1>19, <2>2, <3>1, Zenon
  <2>3. CASE o # s
    <3>1. client'[o] = client[o]
      BY <1>13, <2>3, Zenon
    <3>2. ASSUME NEW i \in Rids', reqs'[i].slot = o
          PROVE  i <= client[o].rid
      <4>1. i \in Rids /\ reqs[i].slot = o
        BY <1>7, <1>12, <2>3, <3>2, Zenon
      <4> QED BY <4>1, Zenon DEF Base, ClientsInv
    <3>3. \/ client[o].rid = 0 /\ client[o].seq = 0 /\ ~client[o].waiting
          \/ Of(o, client[o].rid, client[o].seq)
      BY Zenon DEF Base, ClientsInv
    <3> QED BY <1>18, <3>1, <3>2, <3>3, Zenon
  <2> QED BY <2>2, <2>3, Zenon
<1>21. NetInv'
  <2>1. \A n \in net' : OfNext(n.slot, n.rid, n.seq)
    BY <1>9, <1>10, <1>18, <1>19, Zenon DEF Base, NetInv
  <2> QED BY <2>1, Zenon DEF NetInv, Of, OfNext
<1>22. Base'
  BY <1>2, <1>12, <1>15, <1>17, <1>20, <1>21, BasePeer, Zenon
<1> QED BY <1>14, <1>22, Zenon

\* A retransmission keeps the shape and is the RetransmitStep of the description.
LEMMA BaseRetransmit ==
  ASSUME Base, NEW s \in Slots, Retransmit(s)
  PROVE  RetransmitStep(s) /\ Base'
<1> DEFINE m == [slot |-> s, seq |-> client[s].seq, rid |-> client[s].rid]
<1>1. client[s].waiting /\ net' = net \cup {m} /\ UNCHANGED <<fsys, disk, mem, client, reqs, got, used>>
  BY Zenon DEF Retransmit
<1>2. Of(s, client[s].rid, client[s].seq)
  BY <1>1, Zenon DEF Base, ClientsInv
<1>3. m \in Messages /\ m.slot = s /\ m.rid = client[s].rid /\ m.seq = client[s].seq
  BY ClientRange, Zenon DEF ClientRecs, Messages
<1>4. RetransmitStep(s)
  BY <1>1, <1>2, Zenon DEF RetransmitStep
<1> HIDE DEF m
<1>5. ShapePeer'
  BY <1>1, <1>3, Zenon DEF Base, Shape, ShapePeer
<1>6. RequestsInv' /\ ClientsInv'
  BY <1>1, ZenonT(60) DEF Base, RequestsInv, ClientsInv, Of, Rids
<1>7. NetInv'
  <2>1. \A n \in net' : Of(n.slot, n.rid, n.seq)
    BY <1>1, <1>2, <1>3, Zenon DEF Base, NetInv
  <2> QED BY <1>1, <2>1, Zenon DEF NetInv, Of, Rids
<1> QED BY <1>1, <1>4, <1>5, <1>6, <1>7, BasePeer, Zenon DEF Rids

\* Retiring the session keeps the shape and is the RetireStep of the description.
LEMMA BaseRetire ==
  ASSUME Base, retireSession
  PROVE  RetireStep /\ Base'
<1>1. slots \in [Slots -> SlotRecs] /\ ShapeDisk /\ FileInv
  BY Zenon DEF Base, Shape, ShapeMem
<1>2. KeepIds /\ \A o \in Slots : slots'[o].reply = "nil" /\ (slots'[o].inUse <=> slots[o].inUse)
  <2>1. slots' = Drain
    BY Zenon DEF retireSession
  <2> QED BY <1>1, <2>1, DrainFacts, Zenon DEF KeepIds
<1>3. RetireStep
  BY <1>2, Zenon DEF RetireStep, retireSession
<1>4. /\ sess = "up" /\ sess' = "retired" /\ disk' = disk /\ file' = file /\ cur' = cur /\ th' = th
      /\ reqs' = reqs /\ UNCHANGED <<fsys, used>> /\ UNCHANGED peer
  BY <1>3, Zenon DEF RetireStep, peer
<1>5. ShapeDisk' /\ FileInv'
  BY <1>1, <1>4, Zenon DEF ShapeDisk, FileInv
<1>6. AreaInv' /\ OwnInv'
  BY <1>2, <1>4, AreaKept, OwnKept, Zenon DEF Base
<1>7. ShapeMem'
  BY <1>2, <1>4, Zenon DEF Base, Shape, ShapeMem, KeepIds
<1>8. ASSUME NEW o \in Slots
      PROVE  SlotInv(o)'
  BY <1>2, <1>4, WritersLive, SlotKept, Zenon
<1> QED BY <1>3, <1>4, <1>5, <1>6, <1>7, <1>8, FsKept, PeerKept, Zenon DEF Base, Shape

\* Closing the file keeps the shape and is the CloseStep of the description.
LEMMA BaseClose ==
  ASSUME Base, CloseFile
  PROVE  CloseStep /\ Base'
<1>1. /\ sess = "retired" /\ sess' = "unknown" /\ file' = "none" /\ (\A s \in Slots : th[s].pc = "idle")
      /\ UNCHANGED <<fsys, cur, slots, th, peer>> /\ reqs' = reqs
  BY Zenon DEF CloseFile, peer
<1>2. /\ disk'.area = disk.area /\ (disk'.there => disk.there) /\ ShapeDisk'
      /\ used' \in [Troubles -> Nat] /\ used'["kills"] = used["kills"]
  <2>1. CASE disk' = [disk EXCEPT !.there = FALSE] /\ UNCHANGED used
    BY <1>1, <2>1, DiskGone, Zenon DEF Base, Shape, ShapeDisk, ShapeFs
  <2>2. CASE Fault(1) /\ UNCHANGED disk
    BY <1>1, <2>2, SpendFacts, Zenon DEF Base, Shape, ShapeDisk, Fault
  <2> QED BY <2>1, <2>2, Zenon DEF CloseFile
<1>3. CloseStep
  BY <1>1, <1>2, Zenon DEF CloseStep
<1>4. FileInv' /\ AreaInv'
  BY <1>1, <1>2, AreaKept, Zenon DEF FileInv, Base
<1>5. ShapeFs' /\ ShapeMem' /\ OwnInv'
  BY <1>1, <1>2, Zenon DEF Base, Shape, ShapeFs, ShapeMem, OwnInv, fsys, Of, Rids
<1>6. ASSUME NEW o \in Slots
      PROVE  SlotInv(o)'
  BY <1>1, ZenonT(60) DEF Base, SlotInv, Running
<1> QED BY <1>1, <1>2, <1>3, <1>4, <1>5, <1>6, PeerKept, Zenon DEF Base, Shape

\* A kill keeps the shape and is the KillStep of the description.
LEMMA BaseKill ==
  ASSUME Base, Kill
  PROVE  KillStep /\ Base'
<1>1. /\ sess' = "down" /\ file' = "none" /\ cur' = [s \in Slots |-> 0]
      /\ slots' = [s \in Slots |-> EmptySlot] /\ th' = [s \in Slots |-> Idle] /\ net' = {}
      /\ Spend("kills", 1, MaxKills) /\ UNCHANGED <<fsys, disk, client, reqs, got>>
  BY Zenon DEF Kill
<1>2. used' \in [Troubles -> Nat] /\ used'["kills"] = used["kills"] + 1
  BY <1>1, SpendFacts, Zenon DEF Base, Shape
<1>3. \A s \in Slots : slots'[s] = EmptySlot /\ th'[s] = Idle
  BY <1>1, Zenon
<1>4. KillStep
  BY <1>1, <1>2, <1>3, EmptyShape, IdleShape, Zenon DEF KillStep
<1>5. ShapeFs' /\ ShapeDisk' /\ ShapeMem' /\ ShapePeer'
  <2>1. ShapeFs' /\ ShapeDisk'
    BY <1>1, <1>2 DEF Base, Shape, ShapeFs, ShapeDisk, fsys
  <2>2. ShapeMem'
    BY <1>1, EmptyShape, IdleShape, Zenon DEF ShapeMem
  <2> QED BY <1>1, <2>1, <2>2, Zenon DEF Base, Shape, ShapePeer
<1>6. RequestsInv' /\ ClientsInv' /\ NetInv'
  BY <1>1, ZenonT(60) DEF Base, RequestsInv, ClientsInv, NetInv, Of, Rids
<1>7. OwnInv' /\ AreaInv' /\ FileInv'
  BY <1>1, <1>3, EmptyShape, AreaKept, Zenon DEF Base, OwnInv, FileInv
<1>8. ASSUME NEW o \in Slots
      PROVE  SlotInv(o)'
  BY <1>1, <1>3, EmptyShape, IdleShape, Zenon DEF SlotInv, Running
<1> QED BY <1>4, <1>5, <1>6, <1>7, <1>8, Zenon DEF Base, Shape

\* A restart keeps the shape and is the RestoreStep of the description.
LEMMA BaseRestore ==
  ASSUME Base, restoreSessions
  PROVE  RestoreStep /\ Base'
<1>1. sess = "down" /\ UNCHANGED <<fsys, th, peer, used>> /\ reqs' = reqs /\ th' = th
  BY Zenon DEF restoreSessions, peer
<1>2. \A o \in Slots : th[o].pc = "idle" /\ SlotInv(o) /\ th'[o] = Idle
  BY <1>1, ZenonT(60) DEF Base, SlotInv, Running
<1>3. ShapeFs' /\ ShapePeer' /\ RequestsInv' /\ ClientsInv' /\ NetInv' /\ ShapeDisk /\ AreaInv
  BY <1>1, FsKept, PeerKept, Zenon DEF Base, Shape
<1>4. CASE /\ disk.there /\ sess' = "up" /\ file' = "live" /\ disk' = disk
           /\ cur' = [s \in Slots |-> NewestArea(s)] /\ slots' = [s \in Slots |-> RestoredSlot(s)]
  <2>1. \A s \in Slots : cur'[s] = NewestArea(s) /\ Restored(s)
    BY <1>4, RestoredFacts, Zenon
  <2>2. ShapeMem'
    BY <1>1, <1>4, <2>1, Zenon DEF Base, Shape, ShapeMem, Restored
  <2>3. ShapeDisk' /\ FileInv' /\ AreaInv'
    <3>1. cur' \in [Slots -> 0..2]
      BY <1>4, NewestIs, Zenon
    <3> QED BY <1>1, <1>3, <1>4, <3>1, AreaKept, Zenon DEF ShapeDisk, FileInv
  <2>4. OwnInv'
    <3>1. ASSUME NEW o \in Slots, slots'[o].occupied
          PROVE  Of(o, slots'[o].rid, slots'[o].seq)
      BY <1>3, <2>1, <3>1, Zenon DEF Restored, AreaInv
    <3> QED BY <1>1, <3>1, Zenon DEF OwnInv, Of, Rids
  <2>5. ASSUME NEW o \in Slots
        PROVE  SlotInv(o)'
    BY <1>2, <2>1, IdleShape, Zenon DEF SlotInv, Running, Restored
  <2> QED BY <1>1, <1>3, <1>4, <2>1, <2>2, <2>3, <2>4, <2>5, Zenon DEF Base, Shape, RestoreStep
<1>5. CASE /\ sess' = "unknown" /\ file' = "none" /\ disk' = [disk EXCEPT !.there = FALSE]
           /\ UNCHANGED <<cur, slots>>
  <2>1. ~disk'.there /\ disk'.area = disk.area /\ ShapeDisk'
    BY <1>3, <1>5, DiskGone, Zenon DEF ShapeDisk
  <2>2. AreaInv' /\ FileInv' /\ ShapeMem' /\ OwnInv'
    BY <1>1, <1>3, <1>5, <2>1, AreaKept, Zenon DEF FileInv, Base, Shape, ShapeMem, OwnInv, Of, Rids
  <2>3. ASSUME NEW o \in Slots
        PROVE  SlotInv(o)'
    BY <1>1, <1>2, <1>5, Zenon DEF SlotInv, Running
  <2> QED BY <1>1, <1>3, <1>5, <2>1, <2>2, <2>3, Zenon DEF Base, Shape, RestoreStep
<1> QED BY <1>4, <1>5, Zenon DEF restoreSessions

\* A call that lands leaves the edge it named.
LEMMA LandLeaves ==
  ASSUME Base, CallsInv, NEW c \in calls, Land(c), Lands(c), c.pay \in Pays
  PROVE  LandMoves(c)
<1>1. EdgesStep /\ (c.pay.k = "RENAME" => <<c.pay.to, c.pay.edge.id>> \in linked')
  BY LandEdges, Zenon
<1> DEFINE e == [id |-> IF c.pay.k = "CREATE" THEN clock + 1 ELSE c.pay.edge.id, ct |-> clock + 1]
           at == IF c.pay.k = "CREATE" THEN c.pay.from ELSE c.pay.to
<1>2. /\ clock' = clock + 1
      /\ \/ c.pay.k = "REMOVE" /\ edges' = [edges EXCEPT ![c.pay.from] = NoEdge]
         \/ edges' = [[edges EXCEPT ![c.pay.from] = NoEdge] EXCEPT ![at] = e]
  BY Zenon DEF Land, Lands
<1>3. e.ct = clock + 1
  BY Zenon
<1>4. edges \in [Names -> EdgeRecs] /\ c.pay.from \in Names
  BY Zenon DEF Base, Shape, ShapeFs, Pays
<1>5. edges'[c.pay.from] = NoEdge \/ edges'[c.pay.from] = e
  <2> HIDE DEF e, at
  <2> QED BY <1>2, <1>4, Zenon
<1> QED BY <1>1, <1>2, <1>3, <1>5, Zenon DEF LandMoves

\* Every step of the model keeps the shape and is one that Step describes.
LEMMA StepNext ==
  ASSUME Base, CallsInv, [Next]_vars
  PROVE  Base' /\ CallsInv' /\ Step
<1>0. used["kills"] \in Nat
  BY Zenon DEF Base, Shape, ShapeFs, Troubles
<1>1. ASSUME NEW s \in Slots, SendRequest(s)
      PROVE  Base' /\ CallsInv' /\ SendStep(s)
  <2>1. SendStep(s) /\ Base'
    BY <1>1, BaseSend, Zenon
  <2>2. calls' = calls /\ Rids \subseteq Rids' /\ (\A r \in Rids : reqs'[r] = reqs[r]) /\ used' = used
    BY <2>1, Zenon DEF SendStep, fsys
  <2> QED BY <1>0, <2>1, <2>2, CallsKept
<1>2. ASSUME NEW s \in Slots, Retransmit(s)
      PROVE  Base' /\ CallsInv' /\ RetransmitStep(s)
  <2>1. RetransmitStep(s) /\ Base'
    BY <1>2, BaseRetransmit, Zenon
  <2>2. calls' = calls /\ reqs' = reqs /\ used'["kills"] = used["kills"]
    BY <2>1, Zenon DEF RetransmitStep, fsys, peer
  <2> QED BY <2>1, <2>2, CallsSame, Zenon
<1>3. ASSUME NEW s \in Slots, Gates(s)
      PROVE  Base' /\ CallsInv' /\ GatesStep(s)
  <2>1. GatesStep(s)
    BY <1>3, GatesFacts, Zenon
  <2>2. calls' = calls /\ reqs' = reqs /\ used'["kills"] = used["kills"]
    BY <2>1, Zenon DEF GatesStep, fsys, peer, Invalidated
  <2> QED BY <2>1, BaseGates, <2>2, CallsSame, Zenon
<1>4. ASSUME NEW s \in Slots, Decide(s)
      PROVE  Base' /\ CallsInv' /\ DecideStep(s)
  <2>1. DecideStep(s)
    BY <1>4, DecideFacts, Zenon
  <2>2. calls' = calls /\ reqs' = reqs /\ used'["kills"] = used["kills"]
    BY <2>1, Zenon DEF DecideStep, fsys, peer
  <2> QED BY <2>1, BaseDecide, <2>2, CallsSame, Zenon
<1>5. ASSUME NEW s \in Slots, LookupEdge(s)
      PROVE  Base' /\ CallsInv' /\ LookStep(s)
  <2>1. LookStep(s)
    BY <1>5, LookFacts, Zenon
  <2>2. calls' = calls /\ reqs' = reqs /\ used'["kills"] = used["kills"]
    BY <2>1, Zenon DEF LookStep, fsys, peer
  <2> QED BY <2>1, BaseLook, <2>2, CallsSame, Zenon
<1>6. ASSUME NEW s \in Slots, persistIntent(s)
      PROVE  Base' /\ CallsInv' /\ PersistStep(s)
  <2>1. PersistStep(s)
    BY <1>6, PersistFacts, Zenon
  <2>2. calls' = calls /\ reqs' = reqs /\ used'["kills"] = used["kills"]
    BY <2>1, Zenon DEF PersistStep, fsys, peer
  <2> QED BY <2>1, BasePersist, <2>2, CallsSame, Zenon
<1>7. ASSUME NEW s \in Slots, IntentWritten(s)
      PROVE  Base' /\ CallsInv' /\ IWrittenStep(s)
  <2>1. IWrittenStep(s)
    BY <1>7, IWrittenFacts, Zenon
  <2>2. calls' = calls /\ reqs' = reqs /\ used'["kills"] = used["kills"]
    BY <2>1, Zenon DEF IWrittenStep, fsys, peer, Invalidated, EndWrite
  <2> QED BY <2>1, BaseIWritten, <2>2, CallsSame, Zenon
<1>8. ASSUME NEW s \in Slots, Submit(s)
      PROVE  Base' /\ CallsInv' /\ SubmitStep(s)
  <2>1. SubmitStep(s)
    BY <1>8, SubmitFacts, Zenon
  <2> QED BY <2>1, BaseSubmit, CallsSubmit, Zenon
<1>9. ASSUME NEW s \in Slots, NoAnswer(s)
      PROVE  Base' /\ CallsInv' /\ NoAnswerStep(s)
  <2>1. NoAnswerStep(s)
    BY <1>9, NoAnswerFacts, Zenon
  <2>2. calls' = calls /\ reqs' = reqs /\ used'["kills"] = used["kills"]
    BY <2>1, Zenon DEF NoAnswerStep, fsys, peer
  <2> QED BY <2>1, BaseNoAnswer, <2>2, CallsSame, Zenon
<1>10. ASSUME NEW s \in Slots, finish(s)
      PROVE  Base' /\ CallsInv' /\ FinishStep(s)
  <2>1. FinishStep(s)
    BY <1>10, FinishFacts, Zenon
  <2>2. calls' = calls /\ reqs' = reqs /\ used'["kills"] = used["kills"]
    BY <2>1, Zenon DEF FinishStep, fsys, peer, Leaves, peer
  <2> QED BY <2>1, BaseFinish, <2>2, CallsSame, Zenon
<1>11. ASSUME NEW s \in Slots, SlotWritten(s)
      PROVE  Base' /\ CallsInv' /\ SWrittenStep(s)
  <2>1. SWrittenStep(s)
    BY <1>11, SWrittenFacts, Zenon
  <2>2. calls' = calls /\ reqs' = reqs /\ used'["kills"] = used["kills"]
    BY <2>1, Zenon DEF SWrittenStep, fsys, peer, Invalidated, EndWrite, Leaves
  <2> QED BY <2>1, BaseSWritten, <2>2, CallsSame, Zenon
<1>12. ASSUME NEW m \in net, startSequence(m)
       PROVE  Base' /\ CallsInv' /\ StartStep(m)
  <2>1. StartStep(m)
    BY <1>12, StartFacts, Zenon
  <2>2. calls' = calls /\ reqs' = reqs /\ used' = used
    BY <2>1, Zenon DEF StartStep, fsys, peer
  <2> QED BY <2>1, <2>2, BaseStart, CallsSame, Zenon
<1>13. ASSUME NEW m \in net, ServeReplay(m) \/ Refuse(m)
       PROVE  Base' /\ CallsInv' /\ ServeStep(m)
  <2>1. m.slot \in Slots
    BY AdmissionFacts, Zenon
  <2>4. sess # "down"
    <3>1. ServeReplay(m) => Admission(m) = "replay"
      BY Zenon DEF ServeReplay
    <3>2. Refuse(m) => sess # "down"
      BY Zenon DEF Refuse
    <3> QED BY <1>13, <3>1, <3>2, AdmissionFacts, Zenon
  <2>2. Base' /\ ServeStep(m)
    BY <1>13, <2>1, <2>4, BaseServe, Zenon DEF ServeStep
  <2>3. calls' = calls /\ reqs' = reqs /\ used' = used
    BY <2>2, Zenon DEF ServeStep, fsys
  <2> QED BY <2>2, <2>3, CallsSame, Zenon
<1>14. ASSUME NEW c \in calls, Land(c)
       PROVE  Base' /\ CallsInv' /\ LandsStep(c)
  <2>1. LandStep(c)
    BY <1>14, LandFacts, Zenon
  <2>2. LandsStep(c)
    BY <1>14, <2>1, LandLeaves, Zenon DEF LandsStep, LandStep
  <2>3. calls' \subseteq calls /\ reqs' = reqs /\ used' = used
    BY <2>1, Zenon DEF LandStep, peer
  <2>4. CallsInv'
    BY <1>0, <2>3, CallsKept DEF Rids
  <2> QED BY <1>14, <2>1, <2>2, <2>4, BaseLand, Zenon
<1>15. ASSUME retireSession
       PROVE  Base' /\ CallsInv' /\ RetireStep
  <2>1. RetireStep /\ Base'
    BY <1>15, BaseRetire, Zenon
  <2>2. calls' = calls /\ reqs' = reqs /\ used' = used
    BY <2>1, Zenon DEF RetireStep, fsys, peer
  <2> QED BY <2>1, <2>2, CallsSame, Zenon
<1>16. ASSUME CloseFile
       PROVE  Base' /\ CallsInv' /\ CloseStep
  <2>1. CloseStep /\ Base'
    BY <1>16, BaseClose, Zenon
  <2>2. calls' = calls /\ reqs' = reqs /\ used'["kills"] = used["kills"]
    BY <2>1, Zenon DEF CloseStep, fsys, peer
  <2> QED BY <2>1, <2>2, CallsSame, Zenon
<1>17. ASSUME Kill
       PROVE  Base' /\ CallsInv' /\ KillStep
  <2>1. KillStep /\ Base'
    BY <1>17, BaseKill, Zenon
  <2>2. calls' = calls /\ reqs' = reqs /\ used'["kills"] = used["kills"] + 1
    BY <2>1, Zenon DEF KillStep, fsys
  <2>3. CallsInv'
    BY <1>0, <2>2, CallsKept DEF Rids
  <2> QED BY <2>1, <2>3, Zenon
<1>18. ASSUME restoreSessions
       PROVE  Base' /\ CallsInv' /\ RestoreStep
  <2>1. RestoreStep /\ Base'
    BY <1>18, BaseRestore, Zenon
  <2>2. calls' = calls /\ reqs' = reqs /\ used' = used
    BY <2>1, Zenon DEF RestoreStep, fsys, peer
  <2> QED BY <2>1, <2>2, CallsSame, Zenon
<1>19. ASSUME OtherHost
       PROVE  Base' /\ CallsInv' /\ OtherStep
  <2>1. OtherStep
    BY <1>19, OtherEdges, Zenon DEF OtherStep
  <2>2. calls' = calls /\ reqs' = reqs /\ used'["kills"] = used["kills"]
    BY <2>1, Zenon DEF OtherStep, peer
  <2> QED BY <1>19, <2>1, <2>2, BaseOther, CallsSame, Zenon
<1>20. ASSUME UNCHANGED vars
       PROVE  Base' /\ CallsInv'
  <2>1. ShapeFs' /\ UNCHANGED <<disk, mem, peer>> /\ UNCHANGED <<calls, reqs, used>>
    BY <1>20, FsKept, Zenon DEF vars, fsys, peer
  <2> QED BY <2>1, BaseFrame, CallsSame, Zenon
<1> QED
  BY <1>1, <1>2, <1>3, <1>4, <1>5, <1>6, <1>7, <1>8, <1>9, <1>10, <1>11, <1>12, <1>13, <1>14, <1>15, <1>16, <1>17, <1>18, <1>19, <1>20, Zenon DEF Next, Step
=============================================================================
