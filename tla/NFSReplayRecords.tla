----------------------------- MODULE NFSReplayRecords -----------------------
(***************************************************************************)
(* Messages, compounds and the records of the session file: which request a*)
(* slot can take up, which record is the newest, that it never goes back,  *)
(* and that what has been submitted or done is accounted for on disk, in the*)
(* slot and in the compound that runs again.                               *)
(***************************************************************************)
EXTENDS NFSReplayFacts

-----------------------------------------------------------------------------
\* Messages of a slot whose state does not change.
LEMMA WireKept ==
  ASSUME NEW s \in Slots, Wire(s), sess' = sess, net' = net, client'[s] = client[s],
         slots'[s].seq = slots[s].seq, slots'[s].restored <=> slots[s].restored,
         slots[s].restored => slots'[s].reply = slots[s].reply,
         Running(s)' => Running(s) /\ th'[s].rid = th[s].rid
  PROVE  Wire(s)'
  BY Zenon DEF Wire, Stale

\* The inner steps do not change what is known of the messages.
LEMMA WireInner ==
  ASSUME WireInv, Inner
  PROVE  WireInv'
<1> SUFFICES ASSUME NEW s \in Slots PROVE Wire(s)'
  BY Zenon DEF WireInv
<1> QED BY WireKept, Zenon DEF WireInv, Inner, peer

\* What is known of the messages survives a new request.
LEMMA WireSend ==
  ASSUME Base, WireInv, NEW s \in Slots, SendStep(s)
  PROVE  WireInv'
<1>1. sess' = sess /\ slots' = slots /\ th' = th
  BY Zenon DEF SendStep, mem
<1>2. ASSUME NEW o \in Slots
      PROVE  Wire(o)'
  <2>0. Wire(o)
    BY Zenon DEF WireInv
  <2>1. ASSUME NEW m \in net', m.slot = o
        PROVE  m \in net \/ (o = s /\ m.rid = client'[s].rid /\ client'[s].waiting)
    BY <2>1 DEF SendStep
  <2>2. CASE o # s
    <3>1. client'[o] = client[o]
      BY <2>2, Zenon DEF SendStep
    <3>2. \A m \in net' : m.slot = o => m \in net
      BY <2>1, <2>2, Zenon
    <3> QED BY <1>1, <2>0, <3>1, <3>2, Zenon DEF Wire, Stale, Running
  <2>3. CASE o = s
    <3>1. /\ ~client[s].waiting /\ client'[s].waiting /\ client'[s].seq = client[s].seq + 1
          /\ client[s].seq \in Nat /\ slots[s].seq \in Nat
      BY ClientRange DEF SendStep, Base, Shape, ShapeMem, SlotRecs
    <3>2. \A m \in net' : Stale(m, s)' => m \in net /\ Stale(m, s)
      BY <2>1, <2>3, <3>1, Zenon DEF Stale
    <3>3. ~Running(s)' \/ sess # "up"
      BY <1>1, <2>0, <2>3, <3>1, Zenon DEF Wire, Running
    <3>4. sess = "up" /\ ~slots[s].restored => client'[s].seq <= slots[s].seq + 1
      BY <2>0, <2>3, <3>1 DEF Wire
    <3> QED BY <1>1, <2>0, <2>3, <3>1, <3>2, <3>3, <3>4, Zenon DEF Wire
  <2> QED BY <2>2, <2>3, Zenon
<1> QED BY <1>2, Zenon DEF WireInv

\* What is known of the messages survives a retransmission.
LEMMA WireRetransmit ==
  ASSUME WireInv, NEW s \in Slots, RetransmitStep(s)
  PROVE  WireInv'
<1>1. sess' = sess /\ slots' = slots /\ th' = th /\ client' = client
  BY Zenon DEF RetransmitStep, mem
<1>2. ASSUME NEW o \in Slots
      PROVE  Wire(o)'
  <2>1. \A m \in net' : Stale(m, o)' => m \in net /\ Stale(m, o)
    BY <1>1 DEF RetransmitStep, Stale
  <2> QED BY <1>1, <2>1, Zenon DEF WireInv, Wire, Running
<1> QED BY <1>2, Zenon DEF WireInv

\* What is known of the messages survives startSequence.
LEMMA WireStart ==
  ASSUME Base, WireInv, NEW m \in net, StartStep(m)
  PROVE  /\ WireInv' /\ m.rid = client[m.slot].rid /\ client[m.slot].waiting
         /\ m.seq = client[m.slot].seq
<1> DEFINE s == m.slot
<1>1. /\ s \in Slots /\ Of(s, m.rid, m.seq) /\ sess = "up" /\ sess' = sess /\ net' = net /\ client' = client
      /\ Wire(s) /\ slots[s].seq \in Nat /\ m.seq \in Nat
  BY SeqRange, Zenon DEF StartStep, peer, WireInv, Base, Shape, ShapeMem, SlotRecs
<1>3. m.rid = client[s].rid /\ client[s].waiting /\ m.seq = client[s].seq
  BY StartsWaiting, Zenon
<1>5. slots'[s].seq = m.seq /\ slots[s].seq <= m.seq /\ ~slots'[s].restored /\ th'[s].rid = m.rid
  BY <1>1 DEF StartStep
<1>6. ASSUME NEW k \in net, Stale(k, s)
      PROVE  k.seq <= m.seq
  <2>1. k.seq <= slots[s].seq /\ k.seq \in Nat
    BY <1>1, <1>6, SeqRange DEF Wire, Base, NetInv
  <2> QED BY <1>1, <1>5, <2>1
<1>7. Wire(s)'
  BY <1>1, <1>3, <1>5, <1>6 DEF Wire, Stale
<1>8. ASSUME NEW o \in Slots, o # s
      PROVE  Wire(o)'
  <2>1. slots'[o] = slots[o] /\ th'[o] = th[o] /\ client'[o] = client[o]
    BY <1>1, <1>8, Zenon DEF StartStep
  <2> QED BY <1>1, <2>1, WireKept, Zenon DEF WireInv, Running
<1> QED BY <1>3, <1>7, <1>8, Zenon DEF WireInv

\* What is known of the messages survives an answer to the client.
LEMMA WireAnswered ==
  ASSUME Base, WireInv, NEW s \in Slots, NEW r \in Rids, NEW st, Answered(s, r, st), reqs[r].slot = s,
         UNCHANGED <<net, reqs>>, sess' = "up", sess = "up", KeepIds,
         \A o \in Slots : o # s => th'[o] = th[o] /\ slots'[o].reply = slots[o].reply,
         ~Running(s)', slots[s].restored => slots'[s].reply = slots[s].reply,
         client[s].waiting /\ client[s].rid = r => reqs[r].seq <= slots[s].seq,
         slots[s].restored /\ reqs[r].seq = slots[s].seq => slots[s].reply # "nil"
  PROVE  WireInv'
<1>1. ASSUME NEW o \in Slots, o # s
      PROVE  Wire(o)'
  <2>1. client'[o] = client[o] /\ slots'[o].seq = slots[o].seq /\ (slots'[o].restored <=> slots[o].restored)
    BY <1>1, Zenon DEF Answered, KeepIds
  <2> QED BY <1>1, <2>1, WireKept, Zenon DEF WireInv, Running
<1>2. CASE client' = client
  <2>1. Wire(s)'
    BY <1>2, WireKept, Zenon DEF WireInv, KeepIds
  <2> QED BY <1>1, <2>1, Zenon DEF WireInv
<1>3. CASE client[s].waiting /\ client[s].rid = r /\ ~client'[s].waiting
  <2>1. client'[s].rid = r /\ client'[s].seq = client[s].seq /\ client[s].seq = reqs[r].seq
    BY <1>3, ZenonT(60) DEF Answered, Base, ClientsInv, Of
  <2>2. Wire(s) /\ slots'[s].seq = slots[s].seq /\ (slots'[s].restored <=> slots[s].restored)
    BY Zenon DEF WireInv, KeepIds
  <2>3. client[s].seq \in Nat /\ slots[s].seq \in Nat
    BY ClientRange DEF Base, Shape, ShapeMem, SlotRecs
  <2>4. ASSUME NEW k \in net, k.slot = s
        PROVE  /\ k.seq <= slots[s].seq
               /\ slots[s].restored /\ k.seq = slots[s].seq => slots[s].reply # "nil"
    <3>1. Of(s, k.rid, k.seq)
      BY <2>4, Zenon DEF Base, NetInv
    <3>2. CASE k.rid = r
      <4>1. k.seq = reqs[r].seq
        BY <3>1, <3>2, Zenon DEF Of
      <4> QED BY <1>3, <4>1, Zenon
    <3>3. CASE k.rid # r
      <4>1. Stale(k, s)
        BY <1>3, <2>4, <3>3, Zenon DEF Stale
      <4> QED BY <2>2, <4>1, Zenon DEF Wire
    <3> QED BY <3>2, <3>3, Zenon
  <2>5. client'[s].seq <= slots'[s].seq /\ client'[s].seq <= slots'[s].seq + 1
    BY <1>3, <2>1, <2>2, <2>3
  <2>6. slots[s].restored => slots'[s].reply = slots[s].reply
    BY Zenon
  <2>7. Wire(s)'
    BY <2>2, <2>4, <2>5, <2>6, ZenonT(60) DEF Wire, Stale
  <2> QED BY <1>1, <2>7, Zenon DEF WireInv
<1> QED BY <1>2, <1>3, Zenon DEF Answered

\* What is known of the messages survives an answer without a run.
LEMMA WireServe ==
  ASSUME Base, WireInv, NEW m \in net, ServeStep(m)
  PROVE  WireInv'
<1> DEFINE s == m.slot
           r == m.rid
<1>1. /\ s \in Slots /\ Of(s, r, m.seq) /\ r \in Rids /\ reqs[r].slot = s /\ reqs[r].seq = m.seq /\ m.seq \in Nat
      /\ slots[s].seq \in Nat /\ Wire(s)
  BY AdmissionFacts DEF Of, WireInv
<1>2. PICK st \in Statuses : Answered(s, r, st)
  BY Zenon DEF ServeStep
<1>3. sess' = sess /\ slots' = slots /\ th' = th /\ net' = net /\ reqs' = reqs
  BY Zenon DEF ServeStep, mem
<1>4. CASE sess # "up" /\ sess # "down"
  BY <1>3, <1>4, Zenon DEF WireInv, Wire
<1>5. CASE sess = "up" /\ client' = client
  BY <1>3, <1>5, WireKept, Zenon DEF WireInv, Running
<1>6. CASE sess = "up" /\ client[s].waiting /\ client[s].rid = r
  <2>1. client[s].seq = m.seq
    BY <1>1, <1>6, ZenonT(60) DEF Base, ClientsInv, Of
  <2>2. ~Running(s) /\ ~slots[s].inUse
    <3>1. CASE Running(s)
      <4>1. slots[s].occupied /\ slots[s].inUse /\ Of(s, th[s].rid, slots[s].seq) /\ th[s].rid = r
        BY <1>1, <1>6, <3>1, RunningFacts, Zenon DEF Wire
      <4>2. slots[s].seq = m.seq
        BY <1>1, <4>1, Zenon DEF Of
      <4>3. Admission(m) = "DELAY"
        BY <1>6, <4>1, <4>2, Zenon DEF Admission
      <4> QED BY <4>3, Zenon DEF ServeStep
    <3>2. ~Running(s) => ~slots[s].inUse
      BY <1>1, <1>6, Zenon DEF Base, SlotInv
    <3> QED BY <3>1, <3>2, Zenon
  <2>3. m.seq <= slots[s].seq /\ (slots[s].restored /\ m.seq = slots[s].seq => slots[s].reply # "nil")
    <3>1. CASE Admission(m) = "replay"
      BY <1>1, <3>1, AdmissionFacts
    <3>2. CASE Admission(m) \notin {"new", "rerun", "replay"}
      <4>1. CASE slots[s].restored
        <5>1. m.seq < slots[s].seq
          BY <1>6, <2>2, <3>2, <4>1, AdmissionFacts, Zenon
        <5> QED BY <1>1, <5>1
      <4>2. CASE ~slots[s].restored
        <5>1. m.seq # slots[s].seq + 1
          BY <1>6, <2>2, <3>2, <4>2, AdmissionFacts, Zenon
        <5> QED BY <1>1, <1>6, <2>1, <4>2, <5>1 DEF Wire
      <4> QED BY <4>1, <4>2, Zenon
    <3> QED BY <3>1, <3>2, Zenon DEF ServeStep
  <2>4. KeepIds /\ ~Running(s)'
    BY <1>3, <2>2, Zenon DEF KeepIds, Base, Shape, ShapeMem, Running
  <2> QED BY <1>1, <1>2, <1>3, <1>6, <2>3, <2>4, WireAnswered, Zenon
<1> QED BY <1>2, <1>4, <1>5, <1>6, Zenon DEF Answered, ServeStep

(* The compound's slot is free again. *)
LEMMA WireLeaves ==
  ASSUME Base, WireInv, NEW s \in Slots, Running(s), Leaves(s), SlotsKept(s), sess' = "up", sess = "up"
  PROVE  WireInv'
<1>1. /\ th[s].rid \in Rids /\ reqs[th[s].rid].slot = s /\ reqs[th[s].rid].seq = slots[s].seq
      /\ ~slots[s].restored /\ slots[s].seq \in Nat
  BY RunningFacts, Zenon DEF Of, SlotRecs
<1>2. /\ Answered(s, th[s].rid, th[s].status) /\ UNCHANGED <<net, reqs>> /\ KeepIds /\ ~Running(s)'
      /\ \A o \in Slots : o # s => th'[o] = th[o] /\ slots'[o].reply = slots[o].reply
  BY IdleShape, Zenon DEF Leaves, SlotsKept, Running
<1>3. reqs[th[s].rid].seq <= slots[s].seq
  BY <1>1
<1> QED BY <1>1, <1>2, <1>3, WireAnswered, Zenon

\* What is known of the messages survives finish.
LEMMA WireFinish ==
  ASSUME Base, WireInv, NEW s \in Slots, FinishStep(s)
  PROVE  WireInv'
<1>1. Running(s) /\ SlotsKept(s)
  BY Zenon DEF FinishStep, Running
<1>2. CASE Leaves(s) /\ sess' \in {"up", "retired"} /\ (sess' = "up" => sess = "up")
  <2>1. CASE sess' = "up"
    BY <1>1, <1>2, <2>1, WireLeaves, Zenon
  <2>2. CASE sess' = "retired"
    BY <2>2, Zenon DEF WireInv, Wire
  <2> QED BY <1>2, <2>1, <2>2, Zenon
<1>3. CASE Moves(s) /\ sess = "up" /\ UNCHANGED <<sess, client, net, reqs, got>>
  <2>1. ~slots[s].restored
    BY <1>1, RunningFacts, Zenon
  <2>2. ASSUME NEW o \in Slots
        PROVE  Wire(o)'
    <3>1. /\ slots'[o].seq = slots[o].seq /\ (slots'[o].restored <=> slots[o].restored)
          /\ o # s => slots'[o].reply = slots[o].reply
      BY <1>1, <1>3, Zenon DEF SlotsKept, KeepIds
    <3>2. Running(o)' => Running(o) /\ th'[o].rid = th[o].rid
      BY <1>1, <1>3, Zenon DEF Moves, Running
    <3> QED BY <1>3, <2>1, <3>1, <3>2, WireKept, Zenon DEF WireInv
  <2> QED BY <2>2, Zenon DEF WireInv
<1> QED BY <1>2, <1>3, Zenon DEF FinishStep

\* What is known of the messages survives the end of the reply write.
LEMMA WireSWritten ==
  ASSUME Base, WireInv, NEW s \in Slots, SWrittenStep(s)
  PROVE  WireInv'
<1>1. Running(s) /\ SlotsKept(s) /\ Leaves(s) /\ (sess' = sess \/ sess' = "retired")
  BY Zenon DEF SWrittenStep, Running
<1>2. sess \in {"up", "retired"}
  BY <1>1, RunningFacts, Zenon
<1>3. CASE sess' = "up"
  BY <1>1, <1>3, WireLeaves, Zenon
<1>4. CASE sess' = "retired"
  BY <1>4, Zenon DEF WireInv, Wire
<1> QED BY <1>1, <1>2, <1>3, <1>4, Zenon

\* What is known of the messages survives a restart.
LEMMA WireRestore ==
  ASSUME Base, WireInv, RestoreStep
  PROVE  WireInv'
<1>1. sess = "down" /\ th' = th /\ client' = client /\ net' = net
  BY Zenon DEF RestoreStep, peer
<1>2. ASSUME NEW s \in Slots
      PROVE  Wire(s)'
  <2>1. ~Running(s) /\ \A m \in net : ~Stale(m, s)
    BY <1>1, Zenon DEF Base, SlotInv, WireInv, Wire
  <2>2. sess' = "up" => slots'[s].restored
    BY Zenon DEF RestoreStep, Restored
  <2>3. sess' # "down"
    BY Zenon DEF RestoreStep
  <2> QED BY <1>1, <2>1, <2>2, <2>3, Zenon DEF Wire, Stale, Running
<1> QED BY <1>2, Zenon DEF WireInv

\* Every step keeps what is known of the messages.
LEMMA WireStep ==
  ASSUME Base, CallsInv, WireInv, Step
  PROVE  WireInv'
<1>1. CASE RetireStep
  BY <1>1, Zenon DEF RetireStep, WireInv, Wire
<1>2. CASE CloseStep
  BY <1>2, Zenon DEF CloseStep, WireInv, Wire
<1>3. CASE KillStep
  BY <1>3, Zenon DEF KillStep, WireInv, Wire
<1>4. CASE UNCHANGED vars
  <2>1. Inner
    BY <1>4, Zenon DEF vars, mem, Inner, Running
  <2> QED BY <2>1, WireInner, Zenon
<1>5. ASSUME NEW s \in Slots, \/ GatesStep(s) \/ DecideStep(s) \/ LookStep(s) \/ PersistStep(s)
                              \/ IWrittenStep(s) \/ SubmitStep(s) \/ NoAnswerStep(s)
      PROVE  WireInv'
  BY <1>5, InnerSteps, WireInner, Zenon
<1>6. ASSUME NEW c \in calls, LandsStep(c)
      PROVE  WireInv'
  BY <1>6, InnerSteps, WireInner, Zenon
<1>7. CASE OtherStep
  BY <1>7, InnerSteps, WireInner, Zenon
<1> QED BY <1>1, <1>2, <1>3, <1>4, <1>5, <1>6, <1>7, WireSend, WireRetransmit, WireStart, WireServe,
           WireFinish, WireSWritten, WireRestore, Zenon DEF Step

-----------------------------------------------------------------------------
\* A compound that does not move.
LEMMA CompoundSame ==
  ASSUME NEW s \in Slots, Compound(s), th'[s] = th[s], Running(s) => reqs'[th[s].rid] = reqs[th[s].rid]
  PROVE  Compound(s)'
<1>1. Running(s) => Op(s)' = Op(s)
  BY Zenon DEF Op
<1> QED BY <1>1, Zenon DEF Compound, Running

\* A thread that runs nothing.
LEMMA CompoundIdle ==
  ASSUME NEW s \in Slots, th'[s] = Idle
  PROVE  Compound(s)'
  BY IdleShape, Zenon DEF Compound

\* A compound that stops.
LEMMA CompoundStops ==
  ASSUME NEW s \in Slots, Compound(s), th'[s].pc = "finish", th'[s].replay = th[s].replay,
         th'[s].pending => th[s].pending
  PROVE  Compound(s)'
  BY Zenon DEF Compound

\* What is known of the running compound survives the gates before an operation.
LEMMA CompoundGates ==
  ASSUME Base, NEW s \in Slots, Compound(s), GatesStep(s)
  PROVE  Compound(s)'
<1>1. /\ th[s].pc = "op" /\ Running(s) /\ th'[s].replay = th[s].replay /\ th'[s].rid = th[s].rid
      /\ th'[s].intentOp = th[s].intentOp /\ reqs' = reqs
  BY Zenon DEF GatesStep, Moves, Running, peer
<1>2. th'[s].pending <=> th[s].pending
  BY Zenon DEF GatesStep
<1>3. /\ th[s].op \in Nat /\ th[s].op > 0 /\ th[s].intentOp \in Nat /\ th[s].replay.op \in Nat
      /\ Op(s).k \in OpKinds
  BY <1>1, RunningFacts, OpShape, PayFacts DEF Threads
<1>4. CASE Stops(s)
  BY <1>1, <1>2, <1>4, CompoundStops, Zenon DEF Stops
<1>5. ASSUME replayGate(s) = "OK", th[s].pending
      PROVE  \/ th[s].op = th[s].replay.op /\ Op(s).k = th[s].replay.k /\ Protected(Op(s))
             \/ th[s].op # th[s].replay.op /\ ~recoveryEffect(Op(s))
  <2>1. th[s].replay \in Pays
    BY <1>1, <1>5, RunningFacts, PayFacts, Zenon DEF Compound, Threads
  <2>2. th[s].replay.k \in {"REMOVE", "RENAME", "CREATE"}
    BY <2>1, Zenon DEF Pays
  <2> QED BY <1>5, <2>2, Zenon DEF replayGate, Protected
<1>6. CASE /\ replayGate(s) = "OK" /\ Protected(Op(s)) /\ th'[s].pc = "decide" /\ th'[s].op = th[s].op
  <2>1. recoveryEffect(Op(s))
    BY <1>6, Zenon DEF Protected, recoveryEffect
  <2>2. th[s].pending => th[s].replay.op = th[s].op
    BY <1>5, <1>6, <2>1, Zenon
  <2> QED BY <1>1, <1>2, <1>3, <1>6, <2>2, Zenon DEF Compound
<1>7. CASE /\ replayGate(s) = "OK" /\ ~Protected(Op(s)) /\ Goes(s)
           /\ (th'[s].mutated <=> th[s].mutated \/ recoveryEffect(Op(s)))
  <2>1. th[s].pending => ~th'[s].mutated /\ th[s].op < th[s].replay.op
    BY <1>1, <1>3, <1>5, <1>7 DEF Compound
  <2>2. CASE th'[s].pc = "finish"
    BY <1>1, <1>2, <2>2, CompoundStops, Zenon
  <2>3. CASE th'[s].pc = "op" /\ th'[s].op = th[s].op + 1
    BY <1>1, <1>2, <1>3, <2>1, <2>3 DEF Compound
  <2> QED BY <1>7, <2>2, <2>3, Zenon DEF Goes
<1> QED BY <1>4, <1>6, <1>7, Zenon DEF GatesStep

\* What is known of the running compound survives the decision about a restored intent.
LEMMA CompoundDecide ==
  ASSUME Base, NEW s \in Slots, Compound(s), DecideStep(s)
  PROVE  Compound(s)'
<1>1. /\ th[s].pc = "decide" /\ Running(s) /\ th'[s].replay = th[s].replay /\ th'[s].rid = th[s].rid
      /\ reqs' = reqs
  BY Zenon DEF DecideStep, Moves, Running, peer
<1>2. th[s].op \in Nat /\ th[s].op > 0 /\ th[s].intentOp \in Nat /\ th[s].replay.op \in Nat
  BY <1>1, RunningFacts, PayFacts, SMTT(60) DEF Threads
<1>3. ~th'[s].pending
  <2>1. CASE Found(s)
    BY <2>1, Zenon DEF DecideStep
  <2>2. CASE ~Found(s)
    <3>1. ~th[s].pending
      BY <1>1, <2>2, Zenon DEF Compound, Found
    <3>2. th'[s].pending = th[s].pending
      BY <2>2, Zenon DEF DecideStep
    <3> QED BY <3>1, <3>2, Zenon
  <2> QED BY <2>1, <2>2, Zenon
<1>4. /\ th[s].replay.op = th[s].op => th'[s].intentOp = th[s].op /\ Found(s)
      /\ th[s].replay.op # th[s].op => th'[s].intentOp = th[s].intentOp /\ th[s].replay.op < th[s].op
      /\ th[s].intentOp < th[s].op
  <2>1. Found(s) <=> th[s].replay.op = th[s].op
    BY <1>1, <1>2 DEF Compound, Found
  <2>2. (Found(s) => th'[s].intentOp = th[s].op) /\ (~Found(s) => th'[s].intentOp = th[s].intentOp)
    BY Zenon DEF DecideStep
  <2> QED BY <1>1, <1>2, <2>1, <2>2, Zenon DEF Compound, Found
<1>5. CASE Stops(s)
  BY <1>1, <1>3, <1>5, CompoundStops, Zenon DEF Stops
<1>6. CASE Decision(s) = "none" /\ th'[s].pc = "look" /\ th'[s].op = th[s].op
  <2>1. Op(s)' = Op(s)
    BY <1>1, <1>6, Zenon DEF Op
  <2>2. Found(s) => Op(s).k # "CREATE"
    BY <1>6, Zenon DEF Decision, Found
  <2> QED BY <1>1, <1>2, <1>3, <1>4, <1>6, <2>1, <2>2 DEF Compound
<1>7. CASE Goes(s)
  <2>1. CASE th'[s].pc = "finish"
    BY <1>1, <1>3, <2>1, CompoundStops, Zenon
  <2>2. CASE th'[s].pc = "op" /\ th'[s].op = th[s].op + 1
    <3>1. th'[s].intentOp < th'[s].op /\ th'[s].replay.op < th'[s].op
      BY <1>1, <1>2, <1>4, <2>2
    <3> QED BY <1>3, <2>2, <3>1, Zenon DEF Compound
  <2> QED BY <1>7, <2>1, <2>2, Zenon DEF Goes
<1> QED BY <1>5, <1>6, <1>7, Zenon DEF DecideStep

(* From the lookup to the answer nothing is pending. *)
LEMMA CompoundInside ==
  ASSUME NEW s \in Slots, Compound(s), th[s].pc \in {"look", "intent", "iwrite", "submit", "wait"},
         th'[s].pending = th[s].pending
  PROVE  ~th[s].pending /\ ~th'[s].pending
<1>1. ~th[s].pending
  BY Zenon DEF Compound
<1> QED BY <1>1, Zenon

\* What is known of the running compound survives the lookup of the edge.
LEMMA CompoundLook ==
  ASSUME Base, NEW s \in Slots, Compound(s), LookStep(s)
  PROVE  Compound(s)'
<1>1. /\ th[s].pc = "look" /\ Running(s) /\ th'[s].replay = th[s].replay /\ th'[s].rid = th[s].rid
      /\ reqs' = reqs /\ th'[s].intentOp = th[s].intentOp
  BY Zenon DEF LookStep, Moves, Running, peer, Same
<1>2. ~th'[s].pending
  BY <1>1, CompoundInside, Zenon DEF LookStep, Same
<1>3. CASE Stops(s)
  BY <1>1, <1>2, <1>3, CompoundStops, Zenon DEF Stops
<1>4. CASE th'[s].pc = "intent" /\ th'[s].op = th[s].op
  <2>1. Op(s)' = Op(s)
    BY <1>1, <1>4, Zenon DEF Op
  <2> QED BY <1>1, <1>2, <1>4, <2>1, Zenon DEF Compound
<1> QED BY <1>3, <1>4, Zenon DEF LookStep

\* What is known of the running compound survives persistIntent.
LEMMA CompoundPersist ==
  ASSUME Base, NEW s \in Slots, Compound(s), PersistStep(s)
  PROVE  Compound(s)'
<1>1. /\ th[s].pc = "intent" /\ Running(s) /\ th'[s].replay = th[s].replay /\ th'[s].rid = th[s].rid
      /\ reqs' = reqs
  BY Zenon DEF PersistStep, Moves, Running, peer
<1>2. ~th'[s].pending
  BY <1>1, CompoundInside, Zenon DEF PersistStep
<1>3. CASE Stops(s)
  BY <1>1, <1>2, <1>3, CompoundStops, Zenon DEF Stops
<1>4. CASE ~Stops(s)
  <2>1. /\ th'[s].op = th[s].op
        /\ \/ th'[s].pc = "submit" /\ th'[s].intentOp = th[s].op
           \/ th'[s].pc = "iwrite" /\ th'[s].intentOp = th[s].intentOp /\ th[s].intentOp # th[s].op
    BY <1>4, Zenon DEF PersistStep
  <2>2. Op(s)' = Op(s)
    BY <1>1, <2>1, Zenon DEF Op
  <2> QED BY <1>1, <1>2, <2>1, <2>2, Zenon DEF Compound
<1> QED BY <1>3, <1>4, Zenon

\* What is known of the running compound survives the end of the intent write.
LEMMA CompoundIWritten ==
  ASSUME Base, NEW s \in Slots, Compound(s), IWrittenStep(s)
  PROVE  Compound(s)'
<1>1. /\ th[s].pc = "iwrite" /\ Running(s) /\ th'[s].replay = th[s].replay /\ th'[s].rid = th[s].rid
      /\ reqs' = reqs
  BY Zenon DEF IWrittenStep, Moves, Running, peer
<1>2. ~th'[s].pending
  BY <1>1, CompoundInside, Zenon DEF IWrittenStep
<1>3. CASE Stops(s)
  BY <1>1, <1>2, <1>3, CompoundStops, Zenon DEF Stops
<1>4. CASE th'[s].pc = "submit" /\ th'[s].intentOp = th[s].op /\ th'[s].op = th[s].op
  BY <1>1, <1>2, <1>4, Zenon DEF Compound
<1> QED BY <1>3, <1>4, Zenon DEF IWrittenStep

\* What is known of the running compound survives the submission of the call.
LEMMA CompoundSubmit ==
  ASSUME Base, NEW s \in Slots, Compound(s), SubmitStep(s)
  PROVE  Compound(s)'
<1>1. /\ th[s].pc = "submit" /\ th'[s].replay = th[s].replay
      /\ th'[s].intentOp = th[s].intentOp /\ th'[s].pc = "wait" /\ th'[s].op = th[s].op
  BY Zenon DEF SubmitStep, Moves, Same
<1>2. ~th'[s].pending
  BY <1>1, CompoundInside, Zenon DEF SubmitStep, Same
<1> QED BY <1>1, <1>2, Zenon DEF Compound

\* What is known of the running compound survives the answer to its call.
LEMMA CompoundAnswer ==
  ASSUME Base, NEW s \in Slots, Compound(s), th[s].pc = "wait", Moves(s), Same(s), Stops(s) \/ Goes(s)
  PROVE  Compound(s)'
<1>1. /\ Running(s) /\ th'[s].replay = th[s].replay /\ th'[s].intentOp = th[s].intentOp
  BY Zenon DEF Moves, Same, Running
<1>2. ~th'[s].pending
  BY CompoundInside, Zenon DEF Same
<1>3. th[s].op \in Nat /\ th[s].intentOp \in Nat /\ th[s].replay.op \in Nat
  BY <1>1, RunningFacts, PayFacts, Zenon DEF Threads
<1>4. CASE th'[s].pc = "finish"
  BY <1>1, <1>2, <1>4, CompoundStops, Zenon
<1>5. CASE th'[s].pc = "op" /\ th'[s].op = th[s].op + 1
  BY <1>1, <1>2, <1>3, <1>5 DEF Compound
<1> QED BY <1>4, <1>5, Zenon DEF Stops, Goes

\* What is known of the running compound survives finish.
LEMMA CompoundFinish ==
  ASSUME NEW s \in Slots, Compound(s), th[s].pc = "finish", th'[s].pc = "fwrite", Moves(s), Same(s)
  PROVE  Compound(s)'
<1>1. th'[s].pending => th[s].pending
  BY Zenon DEF Same
<1> QED BY <1>1, Zenon DEF Compound, Moves

\* What is known of the running compound survives startSequence.
LEMMA CompoundStart ==
  ASSUME Base, NEW m \in net, StartStep(m)
  PROVE  Compound(m.slot)'
<1>1. /\ th'[m.slot] \in Threads /\ th'[m.slot].pc = "op" /\ th'[m.slot].op = 1
      /\ ~th'[m.slot].mutated /\ th'[m.slot].intentOp = 0
      /\ th'[m.slot].pending <=> th'[m.slot].replay # NoPay
  BY Zenon DEF StartStep
<1>2. th'[m.slot].replay.op \in Nat /\ (th'[m.slot].replay = NoPay <=> th'[m.slot].replay.op = 0)
  BY <1>1, PayFacts, Zenon DEF Threads
<1> QED BY <1>1, <1>2 DEF Compound

\* The compounds of the other slots.
LEMMA CompoundRest ==
  ASSUME CompoundInv, NEW s \in Slots, Compound(s)', \A o \in Slots : o # s => th'[o] = th[o], reqs' = reqs
  PROVE  CompoundInv'
<1> SUFFICES ASSUME NEW o \in Slots, o # s PROVE Compound(o)'
  BY Zenon DEF CompoundInv
<1> QED BY CompoundSame, Zenon DEF CompoundInv

\* Every step keeps what is known of the running compounds.
LEMMA CompoundStep ==
  ASSUME Base, Base', CompoundInv, Step
  PROVE  CompoundInv'
<1>1. ASSUME NEW s \in Slots, \/ GatesStep(s) \/ DecideStep(s) \/ LookStep(s) \/ PersistStep(s)
                              \/ IWrittenStep(s) \/ SubmitStep(s) \/ NoAnswerStep(s)
      PROVE  CompoundInv'
  <2>1. Compound(s)'
    <3>1. NoAnswerStep(s) => th[s].pc = "wait" /\ Moves(s) /\ Same(s) /\ Stops(s)
      BY Zenon DEF NoAnswerStep
    <3> QED BY <1>1, <3>1, CompoundGates, CompoundDecide, CompoundLook, CompoundPersist, CompoundIWritten,
               CompoundSubmit, CompoundAnswer, Zenon DEF CompoundInv
  <2>2. Moves(s) /\ UNCHANGED peer
    BY <1>1, Zenon DEF GatesStep, DecideStep, LookStep, PersistStep, IWrittenStep, SubmitStep, NoAnswerStep
  <2> QED BY <2>1, <2>2, CompoundRest, Zenon DEF Moves, peer
<1>2. ASSUME NEW c \in calls, LandsStep(c)
      PROVE  CompoundInv'
  <2>1. c.slot \in Slots /\ LandStep(c) /\ reqs' = reqs
    BY <1>2, Zenon DEF LandsStep, LandStep, peer
  <2>2. CASE Hears(c)
    <3>1. Moves(c.slot) /\ Same(c.slot) /\ (Goes(c.slot) \/ Stops(c.slot)) /\ th[c.slot].pc = "wait"
      BY <2>1, <2>2, Zenon DEF LandStep, Hears
    <3>2. Compound(c.slot)'
      BY <2>1, <3>1, CompoundAnswer, Zenon DEF CompoundInv
    <3> QED BY <2>1, <3>1, <3>2, CompoundRest, Zenon DEF Moves
  <2>3. CASE ~Hears(c)
    BY <2>1, <2>3, CompoundSame, Zenon DEF LandStep, CompoundInv
  <2> QED BY <2>2, <2>3, Zenon
<1>3. ASSUME NEW s \in Slots, SendStep(s) \/ RetransmitStep(s)
      PROVE  CompoundInv'
  <2>1. th' = th /\ \A r \in Rids : reqs'[r] = reqs[r]
    BY <1>3, Zenon DEF SendStep, RetransmitStep, mem
  <2>2. \A o \in Slots : Running(o) => th[o].rid \in Rids
    BY RunningFacts, Zenon
  <2> QED BY <2>1, <2>2, CompoundSame, Zenon DEF CompoundInv
<1>4. ASSUME NEW m \in net, StartStep(m)
      PROVE  CompoundInv'
  <2>1. m.slot \in Slots /\ reqs' = reqs /\ \A o \in Slots : o # m.slot => th'[o] = th[o]
    BY <1>4, Zenon DEF StartStep, peer
  <2> QED BY <1>4, <2>1, CompoundStart, CompoundRest, Zenon
<1>5. ASSUME NEW s \in Slots, FinishStep(s) \/ SWrittenStep(s)
      PROVE  CompoundInv'
  <2>1. CASE Leaves(s)
    BY <2>1, CompoundIdle, CompoundRest, Zenon DEF Leaves
  <2>2. CASE ~Leaves(s)
    <3>1. th[s].pc = "finish" /\ th'[s].pc = "fwrite" /\ Moves(s) /\ Same(s) /\ reqs' = reqs
      BY <1>5, <2>2, Zenon DEF FinishStep, SWrittenStep
    <3> QED BY <3>1, CompoundFinish, CompoundRest, Zenon DEF CompoundInv, Moves
  <2> QED BY <2>1, <2>2, Zenon
<1>6. CASE KillStep
  BY <1>6, CompoundIdle, Zenon DEF KillStep, Base, SlotInv, Running, CompoundInv
<1>7. ASSUME th' = th, reqs' = reqs
      PROVE  CompoundInv'
  BY <1>7, CompoundSame, Zenon DEF CompoundInv
<1>8. ASSUME NEW m \in net, ServeStep(m)
      PROVE  CompoundInv'
  BY <1>7, <1>8, Zenon DEF ServeStep, mem
<1>9. CASE RetireStep \/ CloseStep \/ RestoreStep \/ OtherStep \/ UNCHANGED vars
  BY <1>7, <1>9, Zenon DEF RetireStep, CloseStep, RestoreStep, OtherStep, vars, mem, peer
<1> QED BY <1>1, <1>2, <1>3, <1>4, <1>5, <1>6, <1>8, <1>9, Zenon DEF Step

-----------------------------------------------------------------------------
(* A write to the area that is not the newest tears nothing anybody needs.   *)
LEMMA NewestBegin ==
  ASSUME Base, NEW s \in Slots, BeginWrite(s), cur[s] = NewestArea(s)
  PROVE  /\ NewestArea(s)' = NewestArea(s) /\ (NewestArea(s) # 0 => Newest(s)' = Newest(s))
         /\ disk'.there = disk.there /\ disk'.area[s][Target(s)] = NoRec
         /\ \A a \in 1..2 : disk'.area[s][a] = disk.area[s][a] \/ disk'.area[s][a] = NoRec
         /\ \A o \in Slots : o # s => disk'.area[o] = disk.area[o]
<1>1. /\ Target(s) \in 1..2 /\ disk'.there = disk.there /\ disk'.area[s][Target(s)] = NoRec
      /\ \A a \in 1..2 : a # Target(s) => disk'.area[s][a] = disk.area[s][a]
      /\ \A o \in Slots : o # s => disk'.area[o] = disk.area[o]
  BY RecShape, DiskWrite, ZenonT(60) DEF BeginWrite, Base, Shape
<1>2. NoRec.kind = "NONE"
  BY RecShape, Zenon
<1>3. CASE NewestArea(s) = 0
  <2>1. \A a \in 1..2 : disk'.area[s][a].kind = "NONE"
    BY <1>1, <1>2, <1>3, NewestIs
  <2> QED BY <1>1, <1>3, <2>1, SMTT(60) DEF NewestArea
<1>4. CASE NewestArea(s) \in 1..2
  <2>1. Target(s) = 3 - NewestArea(s)
    BY <1>4 DEF Target
  <2>2. disk.area[s][NewestArea(s)].kind # "NONE"
    BY <1>4, NewestIs
  <2>3. CASE NewestArea(s) = 1
    <3>1. disk'.area[s][2] = NoRec /\ disk'.area[s][1] = disk.area[s][1]
      BY <1>1, <2>1, <2>3
    <3>2. NewestArea(s)' = 1
      BY <1>2, <2>2, <2>3, <3>1, Zenon DEF NewestArea
    <3> QED BY <1>1, <2>3, <3>1, <3>2, Zenon DEF Newest
  <2>4. CASE NewestArea(s) = 2
    <3>1. disk'.area[s][1] = NoRec /\ disk'.area[s][2] = disk.area[s][2]
      BY <1>1, <2>1, <2>4
    <3>2. NewestArea(s)' = 2
      BY <1>2, <2>2, <2>4, <3>1, Zenon DEF NewestArea
    <3> QED BY <1>1, <2>4, <3>1, <3>2, Zenon DEF Newest
  <2> QED BY <1>4, <2>3, <2>4
<1> QED BY <1>3, <1>4, NewestIs

(* A later record, once it is written, is the newest. *)
LEMMA NewestEnd ==
  ASSUME Base, NEW s \in Slots, NEW rec \in Intents \cup Replies, rec.seq \in 1..MaxReqs,
         EndWrite(s, rec), cur[s] = NewestArea(s),
         NewestArea(s) # 0 => \/ Newest(s).seq < rec.seq
                              \/ Newest(s).seq = rec.seq /\ rec.kind = "SLOT" /\ Newest(s).kind = "INTENT"
  PROVE  /\ NewestArea(s)' = Target(s) /\ NewestArea(s)' \in 1..2 /\ Newest(s)' = rec
         /\ NewestArea(s) # 0 => newer(rec, Newest(s))
         /\ disk'.there = disk.there /\ cur'[s] = NewestArea(s)'
         /\ \A a \in 1..2 : disk'.area[s][a] = disk.area[s][a] \/ disk'.area[s][a] = rec
         /\ \A o \in Slots : o # s => disk'.area[o] = disk.area[o] /\ cur'[o] = cur[o]
<1>0. rec \in DiskRecs /\ rec.kind \in {"INTENT", "SLOT"}
  BY RecShape, Zenon DEF DiskRecs, Intents, Replies
<1>1. /\ Target(s) \in 1..2 /\ disk'.there = disk.there /\ disk'.area[s][Target(s)] = rec
      /\ \A a \in 1..2 : a # Target(s) => disk'.area[s][a] = disk.area[s][a]
      /\ \A o \in Slots : o # s => disk'.area[o] = disk.area[o]
  BY <1>0, DiskWrite, Zenon DEF EndWrite, Base, Shape
<1>2. cur'[s] = Target(s) /\ \A o \in Slots : o # s => cur'[o] = cur[o]
  BY Zenon DEF EndWrite, Base, Shape, ShapeDisk
<1>3. NewestArea(s)' = Target(s) /\ (NewestArea(s) # 0 => newer(rec, Newest(s)))
  <2>1. CASE NewestArea(s) = 0
    <3>1. disk.area[s][2].kind = "NONE" /\ Target(s) = 1
      BY <2>1, NewestFacts DEF Target
    <3>2. disk'.area[s][1] = rec /\ disk'.area[s][2].kind = "NONE"
      BY <1>1, <3>1
    <3> QED BY <1>0, <2>1, <3>1, <3>2, Zenon DEF NewestArea
  <2>2. CASE NewestArea(s) # 0
    <3>1. /\ NewestArea(s) \in 1..2 /\ Newest(s).seq \in 1..MaxReqs /\ Newest(s).kind \in {"INTENT", "SLOT"}
          /\ Newest(s) = disk.area[s][NewestArea(s)]
      BY <2>2, NewestFacts, Zenon DEF Newest
    <3>2. (SeqAfter(rec.seq, Newest(s).seq) <=> rec.seq > Newest(s).seq)
          /\ (SeqAfter(Newest(s).seq, rec.seq) <=> Newest(s).seq > rec.seq)
      BY <3>1, SeqAfterIs, Bounds
    <3>3. newer(rec, Newest(s)) /\ ~newer(Newest(s), rec)
      BY <1>0, <2>2, <3>1, <3>2, Bounds, SMTT(60) DEF newer
    <3>4. CASE NewestArea(s) = 1
      <4>1. Target(s) = 2 /\ disk'.area[s][2] = rec /\ disk'.area[s][1] = Newest(s)
        BY <1>1, <3>1, <3>4 DEF Target
      <4>2. NewestArea(s)' = 2
        BY <1>0, <3>1, <3>3, <4>1, Zenon DEF NewestArea, newer
      <4> QED BY <3>3, <4>1, <4>2, Zenon
    <3>5. CASE NewestArea(s) = 2
      <4>1. Target(s) = 1 /\ disk'.area[s][1] = rec /\ disk'.area[s][2] = Newest(s)
        BY <1>1, <3>1, <3>5 DEF Target
      <4>2. NewestArea(s)' = 1
        BY <1>0, <3>1, <3>3, <4>1, Zenon DEF NewestArea, newer
      <4> QED BY <3>3, <4>1, <4>2, Zenon
    <3> QED BY <3>1, <3>4, <3>5
  <2> QED BY <2>1, <2>2, Zenon
<1>4. Newest(s)' = rec
  BY <1>1, <1>3, Zenon DEF Newest
<1> QED BY <1>1, <1>2, <1>3, <1>4, Zenon

-----------------------------------------------------------------------------
(* A step that leaves a slot's records, and what it says of them, alone. *)
RowsKept(s) ==
    /\ disk'.there => disk.there
    /\ disk'.area[s] = disk.area[s] /\ cur'[s] = cur[s]
    /\ slots'[s].seq = slots[s].seq /\ slots'[s].rid = slots[s].rid /\ slots'[s].intent = slots[s].intent
    /\ slots'[s].occupied <=> slots[s].occupied
    /\ slots'[s].restored <=> slots[s].restored
    /\ slots'[s].reply = slots[s].reply \/ sess' # "up" \/ ~slots[s].restored
    /\ sess' = "up" => sess = "up"
    /\ sess' \in {"up", "retired"} => sess \in {"up", "retired"}

\* Records of a slot that neither the file nor the slot change.
LEMMA RowsSame ==
  ASSUME NEW s \in Slots, Rows(s), RowsKept(s)
  PROVE  /\ Rows(s)' /\ Newest(s)' = Newest(s) /\ NewestArea(s)' = NewestArea(s)
         /\ Current(s)' <=> Current(s)
<1>1. NewestArea(s)' = NewestArea(s) /\ Newest(s)' = Newest(s)
  BY NewestSame, Zenon DEF RowsKept
<1>2. Current(s)' <=> Current(s)
  BY <1>1, Zenon DEF RowsKept, Current
<1> QED BY <1>1, <1>2, Zenon DEF Rows, RowsKept

\* The same for the records of the running request.
LEMMA RecordsSame ==
  ASSUME NEW s \in Slots, Rows(s), Held(s), RowsKept(s), th'[s] = th[s] \/ th'[s].pc = "idle"
  PROVE  Rows(s)' /\ Held(s)'
<1>1. Target(s)' = Target(s)
  BY Zenon DEF Target, RowsKept
<1>2. CASE th'[s] = th[s]
  BY <1>1, <1>2, RowsSame, Zenon DEF Held, RowsKept, Running
<1>3. CASE th'[s].pc = "idle"
  BY <1>3, RowsSame, Zenon DEF Held, Running
<1> QED BY <1>2, <1>3, Zenon

\* The slot's records still fit it after the gates before an operation.
LEMMA RecordsGates ==
  ASSUME Base, Base', NEW s \in Slots, Compound(s), Rows(s), Held(s), GatesStep(s)
  PROVE  Rows(s)' /\ Held(s)'
<1>1. /\ th[s].pc = "op" /\ Running(s) /\ th'[s].replay = th[s].replay
      /\ slots' = slots /\ cur' = cur /\ sess' = sess
  BY Zenon DEF GatesStep, Moves, Running
<1>2. disk'.area = disk.area /\ (disk'.there => disk.there)
  BY InvalidatedRows, Zenon DEF GatesStep
<1>3. RowsKept(s)
  BY <1>1, <1>2, Zenon DEF RowsKept
<1>4. Rows(s)' /\ Newest(s)' = Newest(s) /\ (Current(s)' <=> Current(s))
  BY <1>3, RowsSame, Zenon
<1>5. th'[s].pc \in {"op", "decide", "finish"}
  BY Zenon DEF GatesStep, Stops, Goes
<1>6. th'[s].pending <=> th[s].pending
  BY Zenon DEF GatesStep
<1>7. ASSUME disk'.there, Current(s), th'[s].pc = "op", ~th'[s].mutated
      PROVE  th[s].pending /\ th[s].replay = Newest(s).val
  <2>1. ~th[s].mutated
    BY <1>7, Zenon DEF GatesStep, Stops
  <2> QED BY <1>1, <1>2, <1>7, <2>1, Zenon DEF Held
<1>8. ASSUME disk'.there, Current(s), th'[s].pc = "decide"
      PROVE  th[s].pending /\ th[s].replay = Newest(s).val
  <2>1. /\ Protected(Op(s))
        /\ th[s].mutated /\ recoveryEffect(Op(s)) => file' # "live" /\ file' # "poisoned"
    BY <1>8, Zenon DEF GatesStep, Stops, Goes
  <2>2. recoveryEffect(Op(s))
    BY <2>1, Zenon DEF recoveryEffect, Protected
  <2>3. file' \in {"none", "live", "gone", "poisoned"} /\ (file' = "gone" => ~disk'.there)
        /\ (file' = "none" <=> sess' \in {"unknown", "down"})
    BY Zenon DEF Base, Shape, ShapeDisk, FileInv
  <2>4. sess \in {"up", "retired"}
    BY <1>1, RunningFacts, Zenon
  <2>5. ~th[s].mutated
    BY <1>1, <1>8, <2>1, <2>2, <2>3, <2>4, Zenon
  <2> QED BY <1>1, <1>2, <1>8, <2>5, Zenon DEF Held
<1>9. disk'.there /\ Current(s) => Newest(s).kind = "INTENT"
  BY <1>1, <1>2, Zenon DEF Held
<1>10. disk'.there /\ th[s].replay # NoPay => Current(s)
  BY <1>1, <1>2, Zenon DEF Held
<1> QED BY <1>1, <1>4, <1>5, <1>6, <1>7, <1>8, <1>9, <1>10, Zenon DEF Held

\* The slot's records still fit it after the decision about a restored intent.
LEMMA RecordsDecide ==
  ASSUME Base, NEW s \in Slots, Compound(s), Rows(s), Held(s), DecideStep(s)
  PROVE  Rows(s)' /\ Held(s)'
<1>1. /\ th[s].pc = "decide" /\ Running(s) /\ th'[s].replay = th[s].replay /\ disk' = disk
      /\ slots' = slots /\ cur' = cur /\ sess' = sess
  BY Zenon DEF DecideStep, Moves, Running
<1>2. RowsKept(s)
  BY <1>1, Zenon DEF RowsKept
<1>3. Rows(s)' /\ Newest(s)' = Newest(s) /\ (Current(s)' <=> Current(s))
  BY <1>2, RowsSame, Zenon
<1>4. th[s].mutated
  BY <1>1, Zenon DEF Base, SlotInv, Inside
<1>5. th'[s].mutated
  BY <1>4, Zenon DEF DecideStep
<1>6. \/ th'[s].pc = "look" /\ th'[s].op = th[s].op
      \/ th'[s].pc \in {"op", "finish"}
  BY Zenon DEF DecideStep, Stops, Goes
<1>7. disk.there /\ Current(s) => /\ Newest(s).kind = "INTENT" /\ th[s].pending
                                  /\ th[s].replay = Newest(s).val
  BY <1>1, Zenon DEF Held
<1>8. th[s].pending => th'[s].intentOp = th[s].op
  BY <1>1, Zenon DEF DecideStep, Found, Compound
<1>9. disk.there /\ th[s].replay # NoPay => Current(s)
  BY <1>1, Zenon DEF Held
<1> QED BY <1>1, <1>3, <1>5, <1>6, <1>7, <1>8, <1>9, Zenon DEF Held

\* The slot's records still fit it after the lookup of the edge.
LEMMA RecordsLook ==
  ASSUME Base, NEW s \in Slots, Rows(s), Held(s), LookStep(s)
  PROVE  Rows(s)' /\ Held(s)'
<1>1. /\ th[s].pc = "look" /\ Running(s) /\ th'[s].replay = th[s].replay /\ disk' = disk
      /\ slots' = slots /\ cur' = cur /\ sess' = sess /\ th'[s].intentOp = th[s].intentOp
  BY Zenon DEF LookStep, Moves, Same, Running
<1>2. RowsKept(s)
  BY <1>1, Zenon DEF RowsKept
<1>3. Rows(s)' /\ Newest(s)' = Newest(s) /\ (Current(s)' <=> Current(s))
  BY <1>2, RowsSame, Zenon
<1>4. \/ th'[s].pc = "intent" /\ th'[s].op = th[s].op
      \/ th'[s].pc = "finish"
  BY Zenon DEF LookStep, Stops
<1>5. disk.there /\ Current(s) => /\ Newest(s).kind = "INTENT" /\ th[s].intentOp = th[s].op
                                  /\ th[s].replay = Newest(s).val
  BY <1>1, Zenon DEF Held
<1>6. disk.there /\ th[s].replay # NoPay => Current(s)
  BY <1>1, Zenon DEF Held
<1> QED BY <1>1, <1>3, <1>4, <1>5, <1>6, Zenon DEF Held

(* An area is written only if the slot's newest record is an earlier one's.  *)
LEMMA RecordsBegin ==
  ASSUME Base, NEW s \in Slots, Rows(s), disk.there, sess \in {"up", "retired"}, BeginWrite(s),
         slots'[s].seq = slots[s].seq, slots'[s].occupied <=> slots[s].occupied,
         ~slots'[s].restored, cur'[s] = cur[s]
  PROVE  /\ Rows(s)' /\ NewestArea(s)' = NewestArea(s) /\ (NewestArea(s) # 0 => Newest(s)' = Newest(s))
         /\ Current(s)' <=> Current(s)
         /\ disk'.area[s][Target(s)'] = NoRec /\ disk'.there
<1>1. cur[s] = NewestArea(s)
  BY Zenon DEF Rows
<1>2. /\ NewestArea(s)' = NewestArea(s) /\ (NewestArea(s) # 0 => Newest(s)' = Newest(s))
      /\ disk'.there = disk.there /\ disk'.area[s][Target(s)] = NoRec
      /\ \A a \in 1..2 : disk'.area[s][a] = disk.area[s][a] \/ disk'.area[s][a] = NoRec
  BY <1>1, NewestBegin, Zenon
<1>3. Target(s)' = Target(s)
  BY Zenon DEF Target
<1>4. Rows(s)'
  BY <1>1, <1>2, RecShape, Zenon DEF Rows
<1>5. Current(s)' <=> Current(s)
  BY <1>2, Zenon DEF Current
<1> QED BY <1>2, <1>3, <1>4, <1>5, Zenon

\* The slot's records still fit it after persistIntent.
LEMMA RecordsPersist ==
  ASSUME Base, NEW s \in Slots, Rows(s), Held(s), PersistStep(s)
  PROVE  Rows(s)' /\ Held(s)'
<1>1. /\ th[s].pc = "intent" /\ Running(s) /\ th'[s].replay = th[s].replay
      /\ slots' = slots /\ cur' = cur /\ sess' = sess
  BY Zenon DEF PersistStep, Moves, Running
<1>2. sess \in {"up", "retired"} /\ ~slots[s].restored /\ th[s].pay \in Pays
  BY <1>1, RunningFacts, Zenon DEF Base, SlotInv, PaysFor, Paid
<1>3. disk.there /\ Current(s) => /\ Newest(s).kind = "INTENT" /\ th[s].intentOp = th[s].op
                                  /\ th[s].replay = Newest(s).val
  BY <1>1, Zenon DEF Held
<1>4. disk.there /\ th[s].replay # NoPay => Current(s)
  BY <1>1, Zenon DEF Held
<1>5. CASE th[s].intentOp # th[s].op /\ file = "live" /\ BeginWrite(s) /\ th'[s].pc = "iwrite"
  <2>1. disk.there
    BY <1>5, Zenon DEF Base, FileInv
  <2>2. /\ Rows(s)' /\ (Current(s)' <=> Current(s)) /\ disk'.area[s][Target(s)'] = NoRec /\ disk'.there
    BY <1>1, <1>2, <1>5, <2>1, RecordsBegin, Zenon
  <2>3. ~Current(s)' /\ th'[s].replay = NoPay
    BY <1>1, <1>3, <1>4, <1>5, <2>1, <2>2, Zenon
  <2> QED BY <1>5, <2>2, <2>3, Zenon DEF Held
<1>6. CASE disk' = disk
  <2>1. RowsKept(s)
    BY <1>1, <1>6, Zenon DEF RowsKept
  <2>2. Rows(s)' /\ Newest(s)' = Newest(s) /\ (Current(s)' <=> Current(s))
    BY <2>1, RowsSame, Zenon
  <2>3. CASE th'[s].pc = "finish"
    BY <1>1, <1>3, <1>4, <1>6, <2>2, <2>3, Zenon DEF Held
  <2>4. CASE th[s].pay = th[s].replay /\ th'[s].pc = "submit" /\ th'[s].pay = th[s].pay
    <3>1. th[s].replay # NoPay
      BY <1>2, <2>4 DEF Pays, NoPay
    <3> QED BY <1>1, <1>3, <1>4, <1>6, <2>2, <2>4, <3>1, Zenon DEF Held
  <2>5. CASE file = "gone"
    BY <1>6, <2>2, <2>5, Zenon DEF Held, Base, FileInv
  <2>6. \/ th'[s].pc = "finish" \/ file = "gone" \/ th'[s].pc = "iwrite"
        \/ th[s].pay = th[s].replay /\ th'[s].pc = "submit" /\ th'[s].pay = th[s].pay
    BY Zenon DEF PersistStep, Stops
  <2>7. CASE th'[s].pc = "iwrite"
    BY <1>5, <2>7, Zenon DEF PersistStep, Stops
  <2> QED BY <2>3, <2>4, <2>5, <2>6, <2>7, Zenon
<1> QED BY <1>5, <1>6, Zenon DEF PersistStep

\* The slot's records still fit it after the end of the intent write.
LEMMA RecordsIWritten ==
  ASSUME Base, Base', NEW s \in Slots, Rows(s), Held(s), IWrittenStep(s)
  PROVE  Rows(s)' /\ Held(s)'
<1>1. /\ th[s].pc = "iwrite" /\ Running(s) /\ th'[s].replay = th[s].replay /\ file = "live"
      /\ slots' = slots /\ sess' = sess
  BY Zenon DEF IWrittenStep, Moves, Running
<1>2. /\ sess \in {"up", "retired"} /\ ~slots[s].restored /\ slots[s].occupied
      /\ Of(s, th[s].rid, slots[s].seq) /\ disk.there
  BY <1>1, RunningFacts, Zenon DEF Base, FileInv
<1>3. ~Current(s) /\ th[s].replay = NoPay
  BY <1>1, <1>2, Zenon DEF Held
<1>4. /\ IntentOf(s) \in Intents /\ IntentOf(s).kind = "INTENT" /\ IntentOf(s).seq = slots[s].seq
      /\ IntentOf(s).val = th[s].pay
  BY <1>1, IntentShape, Zenon
<1>5. slots[s].seq \in 1..MaxReqs
  BY <1>2, SeqRange, Zenon
<1>6. CASE EndWrite(s, IntentOf(s))
  <2>1. cur[s] = NewestArea(s) /\ (NewestArea(s) # 0 => Newest(s).seq < IntentOf(s).seq)
    <3>1. cur[s] = NewestArea(s) /\ (NewestArea(s) # 0 => Newest(s).seq <= slots[s].seq)
      BY <1>2, NewestFacts, Zenon DEF Rows, Newest
    <3>2. NewestArea(s) # 0 => Newest(s).seq # slots[s].seq /\ Newest(s).seq \in 1..MaxReqs
      BY <1>3, NewestFacts, Zenon DEF Current
    <3> QED BY <1>4, <1>5, <3>1, <3>2, Bounds
  <2>2. /\ NewestArea(s)' = Target(s) /\ NewestArea(s)' \in 1..2 /\ Newest(s)' = IntentOf(s)
        /\ cur'[s] = NewestArea(s)'
        /\ \A a \in 1..2 : disk'.area[s][a] = disk.area[s][a] \/ disk'.area[s][a] = IntentOf(s)
    BY <1>4, <1>5, <1>6, <2>1, NewestEnd, Zenon
  <2>3. Rows(s)'
    BY <1>1, <1>2, <1>4, <1>5, <2>2, Bounds, SMTT(60) DEF Rows
  <2>4. Current(s)'
    BY <1>1, <1>4, <2>2 DEF Current
  <2>5. file' = "live"
    BY <1>1, <1>6, Zenon DEF EndWrite
  <2>6. th'[s].pc = "submit" /\ th'[s].pay = th[s].pay
    BY <2>5, Zenon DEF IWrittenStep
  <2> QED BY <1>4, <2>2, <2>3, <2>4, <2>6, Zenon DEF Held
<1>7. CASE Invalidated /\ cur' = cur
  <2>1. disk'.area = disk.area /\ (disk'.there => disk.there)
    BY <1>7, InvalidatedRows, Zenon
  <2>2. RowsKept(s)
    BY <1>1, <1>7, <2>1, Zenon DEF RowsKept
  <2>3. Rows(s)' /\ (Current(s)' <=> Current(s))
    BY <2>2, RowsSame, Zenon
  <2>4. CASE th'[s].pc = "finish"
    BY <1>1, <1>3, <2>3, <2>4, Zenon DEF Held
  <2>5. CASE file' # "poisoned"
    <3>1. file' = "gone"
      BY <1>1, <1>7, <2>5, Zenon DEF Invalidated
    <3> QED BY <2>3, <3>1, Zenon DEF Held, Base, FileInv
  <2> QED BY <2>4, <2>5, Zenon DEF IWrittenStep, Stops
<1> QED BY <1>6, <1>7, Zenon DEF IWrittenStep

(* Submit, and an answer or none. *)
LEMMA RecordsWait ==
  ASSUME Base, NEW s \in Slots, Rows(s), Held(s), Moves(s), UNCHANGED <<disk, sess, cur, slots>>,
         th'[s].mutated = th[s].mutated,
         \/ th[s].pc = "submit" /\ th'[s].pc = "wait" /\ th'[s].pay = th[s].pay
         \/ th[s].pc = "wait" /\ th'[s].pc \in {"op", "finish"}
  PROVE  Rows(s)' /\ Held(s)'
<1>1. RowsKept(s) /\ Running(s) /\ th'[s].replay = th[s].replay
  BY Zenon DEF RowsKept, Moves, Running
<1>2. Rows(s)' /\ Newest(s)' = Newest(s) /\ (Current(s)' <=> Current(s))
  BY <1>1, RowsSame, Zenon
<1>3. th[s].mutated
  BY SMTT(60) DEF Base, SlotInv, Inside, Running
<1>4. th'[s].mutated
  BY <1>3, Zenon
<1>5. disk.there => Current(s) /\ Newest(s).kind = "INTENT" /\ th[s].pay = Newest(s).val
  BY <1>1, SMTT(60) DEF Held
<1> QED BY <1>1, <1>2, <1>4, <1>5, Zenon DEF Held

\* The slot's records still fit it after finish.
LEMMA RecordsFinish ==
  ASSUME Base, NEW s \in Slots, Rows(s), Held(s), FinishStep(s)
  PROVE  Rows(s)' /\ Held(s)'
<1>1. /\ th[s].pc = "finish" /\ Running(s) /\ cur' = cur
      /\ slots'[s].seq = slots[s].seq /\ slots'[s].rid = slots[s].rid /\ slots'[s].intent = slots[s].intent
      /\ slots'[s].occupied <=> slots[s].occupied
      /\ slots'[s].restored <=> slots[s].restored
  BY Zenon DEF FinishStep, SlotsKept, KeepIds, Running
<1>2. sess \in {"up", "retired"} /\ ~slots[s].restored
  BY <1>1, RunningFacts, Zenon
<1>3. CASE Leaves(s) /\ disk' = disk
  <2>1. th'[s].pc = "idle"
    BY <1>3, IdleShape, Zenon DEF Leaves
  <2>2. sess' = "up" => sess = "up"
    BY Zenon DEF FinishStep
  <2>3. RowsKept(s)
    BY <1>1, <1>2, <1>3, <2>2, Zenon DEF RowsKept
  <2> QED BY <2>1, <2>3, RecordsSame, Zenon
<1>4. CASE file = "live" /\ BeginWrite(s) /\ Moves(s) /\ th'[s].pc = "fwrite"
  <2>1. disk.there
    BY <1>4, Zenon DEF Base, FileInv
  <2>2. /\ Rows(s)' /\ NewestArea(s)' = NewestArea(s) /\ (NewestArea(s) # 0 => Newest(s)' = Newest(s))
        /\ Current(s)' <=> Current(s)
        /\ disk'.area[s][Target(s)'] = NoRec /\ disk'.there
    BY <1>1, <1>2, <1>4, <2>1, RecordsBegin, Zenon
  <2>3. Current(s) => Newest(s).kind = "INTENT"
    BY <1>1, <2>1, Zenon DEF Held
  <2>4. Current(s)' => Newest(s).kind' = "INTENT"
    BY <2>2, <2>3, Zenon DEF Current
  <2>5. th'[s].replay # NoPay => Current(s)
    BY <1>1, <1>4, <2>1, Zenon DEF Held, Moves
  <2> QED BY <1>4, <2>2, <2>4, <2>5, SMTT(60) DEF Held
<1> QED BY <1>3, <1>4, Zenon DEF FinishStep

\* The slot's records still fit it after the end of the reply write.
LEMMA RecordsSWritten ==
  ASSUME Base, NEW s \in Slots, Rows(s), Held(s), SWrittenStep(s)
  PROVE  Rows(s)' /\ Held(s)'
<1>1. /\ th[s].pc = "fwrite" /\ Running(s)
      /\ slots'[s].seq = slots[s].seq /\ slots'[s].rid = slots[s].rid /\ slots'[s].intent = slots[s].intent
      /\ slots'[s].occupied <=> slots[s].occupied
      /\ slots'[s].restored <=> slots[s].restored
  BY Zenon DEF SWrittenStep, SlotsKept, KeepIds, Running
<1>2. sess \in {"up", "retired"} /\ ~slots[s].restored /\ slots[s].occupied /\ disk.there
      /\ Of(s, th[s].rid, slots[s].seq)
  BY <1>1, RunningFacts, Zenon DEF SWrittenStep, Base, FileInv
<1>3. th'[s].pc = "idle"
  BY IdleShape, Zenon DEF SWrittenStep, Leaves
<1>4. CASE Invalidated /\ cur' = cur
  <2>1. disk'.area = disk.area /\ (disk'.there => disk.there)
    BY <1>4, InvalidatedRows, Zenon
  <2>2. sess' = "up" => sess = "up"
    BY Zenon DEF SWrittenStep
  <2>3. RowsKept(s)
    BY <1>1, <1>2, <1>4, <2>1, <2>2, Zenon DEF RowsKept
  <2> QED BY <1>3, <2>3, RecordsSame, Zenon
<1>5. CASE EndWrite(s, SlotOf(s)) /\ sess' = sess
  <2>1. /\ SlotOf(s) \in Replies /\ SlotOf(s).kind = "SLOT" /\ SlotOf(s).seq = slots[s].seq
        /\ slots[s].seq \in 1..MaxReqs
    BY <1>1, <1>2, SlotRecShape, SeqRange, Zenon
  <2>2. /\ cur[s] = NewestArea(s)
        /\ NewestArea(s) # 0 => \/ Newest(s).seq < SlotOf(s).seq
                                \/ Newest(s).seq = SlotOf(s).seq /\ Newest(s).kind = "INTENT"
    <3>1. cur[s] = NewestArea(s) /\ (NewestArea(s) # 0 => Newest(s).seq <= slots[s].seq)
      BY <1>2, NewestFacts, Zenon DEF Rows, Newest
    <3>2. NewestArea(s) # 0 /\ Newest(s).seq = slots[s].seq => Newest(s).kind = "INTENT"
      BY <1>1, <1>2, Zenon DEF Held, Current
    <3>3. NewestArea(s) # 0 => Newest(s).seq \in 1..MaxReqs
      BY NewestFacts, Zenon
    <3> QED BY <2>1, <3>1, <3>2, <3>3, Bounds
  <2>3. /\ NewestArea(s)' = Target(s) /\ NewestArea(s)' \in 1..2 /\ Newest(s)' = SlotOf(s)
        /\ cur'[s] = NewestArea(s)'
        /\ \A a \in 1..2 : disk'.area[s][a] = disk.area[s][a] \/ disk'.area[s][a] = SlotOf(s)
    BY <1>5, <2>1, <2>2, NewestEnd, Zenon
  <2>4. Rows(s)'
    BY <1>1, <1>2, <1>5, <2>1, <2>3, Bounds, SMTT(60) DEF Rows
  <2> QED BY <1>3, <2>4, Zenon DEF Held, Running
<1> QED BY <1>4, <1>5, Zenon DEF SWrittenStep

\* The slot's records still fit it after startSequence.
LEMMA RecordsStart ==
  ASSUME Base, Base', NEW m \in net, StartStep(m), Rows(m.slot)
  PROVE  Rows(m.slot)' /\ Held(m.slot)'
<1> DEFINE s == m.slot
<1>1. /\ s \in Slots /\ sess = "up" /\ sess' = "up" /\ disk' = disk /\ cur' = cur /\ Of(s, m.rid, m.seq)
      /\ slots'[s].seq = m.seq /\ slots'[s].occupied /\ ~slots'[s].restored
      /\ th'[s].pc = "op" /\ (th'[s].pending <=> th'[s].replay # NoPay)
  BY Zenon DEF StartStep
<1> HIDE DEF s
<1>2. NewestArea(s)' = NewestArea(s) /\ Newest(s)' = Newest(s)
  BY <1>1, NewestSame, Zenon
<1>3. m.seq \in 1..MaxReqs /\ slots[s].seq \in Nat
  BY <1>1, SeqRange, Zenon DEF Base, Shape, ShapeMem, SlotRecs
<1>4. CASE /\ slots[s].occupied /\ slots[s].seq = m.seq /\ slots[s].rid = m.rid
           /\ slots[s].reply = "nil" /\ slots[s].restored /\ th'[s].replay = slots[s].intent
  <2>1. Rows(s)'
    BY <1>1, <1>2, <1>4, Zenon DEF Rows, s
  <2>2. disk.there => /\ NewestArea(s) # 0 /\ Newest(s).seq = m.seq /\ Newest(s).kind = "INTENT"
                      /\ th'[s].replay = Newest(s).val /\ Newest(s).val \in Pays
    <3>1. SUFFICES ASSUME disk.there PROVE
                      /\ NewestArea(s) # 0 /\ Newest(s).seq = m.seq /\ Newest(s).kind = "INTENT"
                      /\ th'[s].replay = Newest(s).val /\ Newest(s).val \in Pays
      BY Zenon
    <3>2. NewestArea(s) # 0 /\ Newest(s).seq = m.seq
      BY <1>1, <1>4, <3>1, Zenon DEF Rows, s
    <3>3. Newest(s) \in DiskRecs /\ Newest(s).kind \in {"INTENT", "SLOT"}
      BY <1>1, <3>2, NewestFacts, Zenon
    <3>4. Newest(s).kind # "SLOT"
      <4>1. Newest(s).kind = "SLOT" => slots[s].reply = Newest(s).val /\ Newest(s).val \in Statuses
        BY <1>1, <1>4, <3>1, <3>2, <3>3, RecShape, Zenon DEF Rows, s
      <4> QED BY <1>4, <4>1, Zenon DEF Statuses
    <3> QED BY <1>1, <1>4, <3>1, <3>2, <3>3, <3>4, RecShape, Zenon DEF Rows, s
  <2>3. disk.there => th'[s].pending
    BY <1>1, <2>2 DEF Pays, NoPay
  <2>4. disk.there => Current(s)'
    BY <1>1, <1>2, <2>2, Zenon DEF Current
  <2> QED BY <1>1, <1>2, <2>1, <2>2, <2>3, <2>4, Zenon DEF Held, s
<1>5. CASE th'[s].replay = NoPay /\ slots[s].seq < m.seq
  <2>1. Rows(s)'
    <3>1. ASSUME disk.there, NEW a \in 1..2, disk.area[s][a].kind # "NONE"
          PROVE  disk.area[s][a].seq <= m.seq
      <4>1. disk.area[s][a].seq <= slots[s].seq /\ disk.area[s][a].seq \in 0..MaxReqs
        BY <1>1, <3>1, SeqOfRec, Zenon DEF Rows, s
      <4> QED BY <1>3, <1>5, <4>1, Bounds
    <3>2. disk.there => cur[s] = NewestArea(s)
      BY <1>1, Zenon DEF Rows, s
    <3> QED BY <1>1, <1>2, <3>1, <3>2, Zenon DEF Rows
  <2>2. disk.there => ~Current(s)'
    <3>1. disk.there /\ NewestArea(s) # 0 => Newest(s).seq <= slots[s].seq /\ Newest(s).seq \in 1..MaxReqs
      BY <1>1, NewestFacts, Zenon DEF Rows, Newest, s
    <3> QED BY <1>1, <1>2, <1>3, <1>5, <3>1, Bounds DEF Current
  <2> QED BY <1>1, <1>5, <2>1, <2>2, Zenon DEF Held, s
<1> QED BY <1>4, <1>5, Zenon DEF StartStep, s

\* The slot's records still fit it after a restart.
LEMMA RecordsRestore ==
  ASSUME Base, Base', RestoreStep, NEW s \in Slots
  PROVE  Rows(s)' /\ Held(s)'
<1>1. ~Running(s)'
  BY Zenon DEF RestoreStep, Base, SlotInv, Running
<1>2. CASE ~disk'.there
  BY <1>2, Zenon DEF Rows, Held
<1>3. CASE sess' = "up" /\ disk' = disk /\ cur'[s] = NewestArea(s) /\ Restored(s)
  <2>1. NewestArea(s)' = NewestArea(s) /\ Newest(s)' = Newest(s)
    BY <1>3, NewestSame, Zenon
  <2>2. CASE NewestArea(s) = 0
    <3>1. \A a \in 1..2 : disk.area[s][a].kind = "NONE"
      BY <2>2, NewestFacts, Zenon
    <3> QED BY <1>1, <1>3, <2>1, <2>2, <3>1, Zenon DEF Rows, Held, Restored
  <2>3. CASE NewestArea(s) # 0
    <3>1. /\ slots'[s].occupied /\ slots'[s].seq = Newest(s).seq /\ slots'[s].rid = Newest(s).rid
          /\ Newest(s).kind = "SLOT" => slots'[s].reply = Newest(s).val
          /\ Newest(s).kind = "INTENT" => slots'[s].reply = "nil" /\ slots'[s].intent = Newest(s).val
      BY <1>3, <2>3, Zenon DEF Restored, Newest
    <3>2. \A a \in 1..2 : disk.area[s][a].kind # "NONE" => disk.area[s][a].seq <= Newest(s).seq
      BY <2>3, NewestFacts, Zenon
    <3> QED BY <1>1, <1>3, <2>1, <2>3, <3>1, <3>2, Zenon DEF Rows, Held
  <2> QED BY <2>2, <2>3, Zenon
<1> QED BY <1>2, <1>3, Zenon DEF RestoreStep

\* The records of the other slots.
LEMMA RecordsRest ==
  ASSUME RecordsInv, NEW s \in Slots, Rows(s)' /\ Held(s)',
         \A o \in Slots : o # s => RowsKept(o) /\ th'[o] = th[o]
  PROVE  RecordsInv'
<1> SUFFICES ASSUME NEW o \in Slots, o # s PROVE Rows(o)' /\ Held(o)'
  BY Zenon DEF RecordsInv
<1> QED BY RecordsSame, Zenon DEF RecordsInv

\* A step of one compound keeps the records of all slots.
LEMMA RecordsMoves ==
  ASSUME Base, RecordsInv, NEW s \in Slots, Rows(s)' /\ Held(s)', Moves(s), UNCHANGED <<slots, sess>>,
         \/ BeginWrite(s) /\ cur' = cur
         \/ Invalidated /\ cur' = cur
         \/ disk' = disk /\ cur' = cur
         \/ th[s].pc = "iwrite" /\ EndWrite(s, IntentOf(s))
  PROVE  RecordsInv'
<1>1. /\ disk'.there => disk.there
      /\ \A o \in Slots : o # s => disk'.area[o] = disk.area[o] /\ cur'[o] = cur[o]
  BY DiskStep, Zenon
<1>2. \A o \in Slots : o # s => RowsKept(o) /\ th'[o] = th[o]
  BY <1>1, Zenon DEF RowsKept, Moves
<1> QED BY <1>2, RecordsRest, Zenon

\* Every step keeps the records and the slots in agreement.
LEMMA RecordsStep ==
  ASSUME Base, Base', CompoundInv, RecordsInv, Step
  PROVE  RecordsInv'
<1>1. ASSUME NEW s \in Slots, GatesStep(s) PROVE RecordsInv'
  <2>1. Rows(s)' /\ Held(s)'
    BY <1>1, RecordsGates, Zenon DEF CompoundInv, RecordsInv
  <2>2. Moves(s) /\ UNCHANGED <<slots, sess>> /\ cur' = cur /\ (Invalidated \/ disk' = disk)
    BY <1>1, Zenon DEF GatesStep
  <2> QED BY <2>1, <2>2, RecordsMoves, Zenon
<1>2. ASSUME NEW s \in Slots, DecideStep(s) PROVE RecordsInv'
  <2>1. Rows(s)' /\ Held(s)'
    BY <1>2, RecordsDecide, Zenon DEF CompoundInv, RecordsInv
  <2>2. Moves(s) /\ UNCHANGED <<slots, sess>> /\ cur' = cur /\ disk' = disk
    BY <1>2, Zenon DEF DecideStep
  <2> QED BY <2>1, <2>2, RecordsMoves, Zenon
<1>3. ASSUME NEW s \in Slots, LookStep(s) PROVE RecordsInv'
  <2>1. Rows(s)' /\ Held(s)'
    BY <1>3, RecordsLook, Zenon DEF RecordsInv
  <2>2. Moves(s) /\ UNCHANGED <<slots, sess>> /\ cur' = cur /\ disk' = disk
    BY <1>3, Zenon DEF LookStep
  <2> QED BY <2>1, <2>2, RecordsMoves, Zenon
<1>4. ASSUME NEW s \in Slots, PersistStep(s) PROVE RecordsInv'
  <2>1. Rows(s)' /\ Held(s)'
    BY <1>4, RecordsPersist, Zenon DEF RecordsInv
  <2>2. Moves(s) /\ UNCHANGED <<slots, sess>> /\ cur' = cur /\ (BeginWrite(s) \/ disk' = disk)
    BY <1>4, Zenon DEF PersistStep
  <2> QED BY <2>1, <2>2, RecordsMoves, Zenon
<1>5. ASSUME NEW s \in Slots, IWrittenStep(s) PROVE RecordsInv'
  <2>1. Rows(s)' /\ Held(s)'
    BY <1>5, RecordsIWritten, Zenon DEF RecordsInv
  <2>2. /\ Moves(s) /\ UNCHANGED <<slots, sess>> /\ th[s].pc = "iwrite"
        /\ EndWrite(s, IntentOf(s)) \/ (Invalidated /\ cur' = cur)
    BY <1>5, Zenon DEF IWrittenStep
  <2> QED BY <2>1, <2>2, RecordsMoves, Zenon
<1>6. ASSUME NEW s \in Slots, SubmitStep(s) \/ NoAnswerStep(s) PROVE RecordsInv'
  <2>1. /\ Moves(s) /\ UNCHANGED <<disk, sess, cur, slots>> /\ th'[s].mutated = th[s].mutated
    BY <1>6, Zenon DEF SubmitStep, NoAnswerStep, Same
  <2>2. \/ th[s].pc = "submit" /\ th'[s].pc = "wait" /\ th'[s].pay = th[s].pay
        \/ th[s].pc = "wait" /\ th'[s].pc \in {"op", "finish"}
    BY <1>6, Zenon DEF SubmitStep, NoAnswerStep, Stops
  <2>3. Rows(s)' /\ Held(s)'
    BY <2>1, <2>2, RecordsWait, Zenon DEF RecordsInv
  <2> QED BY <2>1, <2>3, RecordsMoves, Zenon
<1>7. ASSUME \A o \in Slots : RowsKept(o) /\ (th'[o] = th[o] \/ th'[o].pc = "idle") PROVE RecordsInv'
  BY <1>7, RecordsSame, Zenon DEF RecordsInv
<1>8. ASSUME UNCHANGED <<disk, mem>> PROVE RecordsInv'
  BY <1>7, <1>8, Zenon DEF mem, RowsKept
<1>9. ASSUME NEW c \in calls, LandsStep(c) PROVE RecordsInv'
  <2>1. c.slot \in Slots /\ UNCHANGED <<disk, sess, file, cur, slots>> /\ LandStep(c)
    BY <1>9, Zenon DEF LandsStep, LandStep
  <2>2. CASE Hears(c)
    <3>1. Moves(c.slot) /\ th'[c.slot].mutated = th[c.slot].mutated
      BY <2>1, <2>2, Zenon DEF LandStep, Same
    <3>2. th[c.slot].pc = "wait" /\ th'[c.slot].pc \in {"op", "finish"}
      BY <2>1, <2>2, Zenon DEF LandStep, Hears, Goes, Stops
    <3>3. Rows(c.slot)' /\ Held(c.slot)'
      BY <2>1, <3>1, <3>2, RecordsWait, Zenon DEF RecordsInv
    <3> QED BY <2>1, <3>1, <3>3, RecordsMoves, Zenon
  <2>3. CASE ~Hears(c)
    BY <1>8, <2>1, <2>3, Zenon DEF LandStep, mem
  <2> QED BY <2>2, <2>3, Zenon
<1>10. ASSUME NEW s \in Slots, SendStep(s) \/ RetransmitStep(s) PROVE RecordsInv'
  BY <1>8, <1>10, Zenon DEF SendStep, RetransmitStep
<1>11. ASSUME NEW m \in net, StartStep(m) PROVE RecordsInv'
  <2>1. m.slot \in Slots
    BY <1>11, Zenon DEF StartStep
  <2>2. Rows(m.slot)' /\ Held(m.slot)'
    BY <1>11, <2>1, RecordsStart, Zenon DEF RecordsInv
  <2>3. \A o \in Slots : o # m.slot => RowsKept(o) /\ th'[o] = th[o]
    BY <1>11, Zenon DEF StartStep, RowsKept
  <2> QED BY <2>1, <2>2, <2>3, RecordsRest, Zenon
<1>12. ASSUME NEW s \in Slots, FinishStep(s) \/ SWrittenStep(s) PROVE RecordsInv'
  <2>1. Rows(s)' /\ Held(s)'
    BY <1>12, RecordsFinish, RecordsSWritten, Zenon DEF RecordsInv
  <2>2. Moves(s) \/ Leaves(s)
    BY <1>12, Zenon DEF FinishStep, SWrittenStep
  <2>3. SlotsKept(s) /\ (sess' = "up" => sess = "up") /\ Running(s)
    BY <1>12, Zenon DEF FinishStep, SWrittenStep, Running
  <2>4. /\ disk'.there => disk.there
        /\ \A o \in Slots : o # s => disk'.area[o] = disk.area[o] /\ cur'[o] = cur[o]
    BY <1>12, DiskStep, Zenon DEF FinishStep, SWrittenStep
  <2>5. sess \in {"up", "retired"}
    BY <2>3, RunningFacts, Zenon
  <2>6. ASSUME NEW o \in Slots, o # s PROVE RowsKept(o) /\ th'[o] = th[o]
    <3>1. th'[o] = th[o]
      BY <2>2, <2>6, Zenon DEF Moves, Leaves
    <3>2. /\ slots'[o].seq = slots[o].seq /\ slots'[o].rid = slots[o].rid
          /\ slots'[o].intent = slots[o].intent
          /\ slots'[o].occupied <=> slots[o].occupied
          /\ slots'[o].restored <=> slots[o].restored
          /\ slots'[o].reply = slots[o].reply \/ sess' = "retired"
      BY <2>3, <2>6, Zenon DEF SlotsKept, KeepIds
    <3> QED BY <2>3, <2>4, <2>5, <2>6, <3>1, <3>2, Zenon DEF RowsKept
  <2> QED BY <2>1, <2>6, RecordsRest, Zenon
<1>13. CASE RetireStep
  BY <1>7, <1>13, Zenon DEF RetireStep, KeepIds, RowsKept
<1>14. CASE CloseStep
  BY <1>7, <1>14, Zenon DEF CloseStep, RowsKept
<1>15. CASE KillStep
  <2>1. \A s \in Slots : ~Running(s)' /\ sess' = "down"
    BY <1>15, Zenon DEF KillStep, Running
  <2> QED BY <2>1, Zenon DEF RecordsInv, Rows, Held
<1>16. CASE RestoreStep
  BY <1>16, RecordsRestore, Zenon DEF RecordsInv
<1>17. ASSUME NEW m \in net, ServeStep(m) PROVE RecordsInv'
  BY <1>8, <1>17, Zenon DEF ServeStep
<1>18. CASE OtherStep \/ UNCHANGED vars
  BY <1>8, <1>18, Zenon DEF OtherStep, vars
<1> QED BY <1>1, <1>2, <1>3, <1>4, <1>5, <1>6, <1>9, <1>10, <1>11, <1>12, <1>13, <1>14, <1>15, <1>16,
           <1>17, <1>18, Zenon DEF Step

\* A record that is written becomes the newest of its slot.
LEMMA WriteFits ==
  ASSUME Base, NEW s \in Slots, Rows(s), Held(s), disk.there, NEW rec \in Intents \cup Replies,
         rec.seq = slots[s].seq, rec.rid = th[s].rid,
         \/ th[s].pc = "iwrite"
         \/ th[s].pc = "fwrite" /\ rec.kind = "SLOT",
         EndWrite(s, rec)
  PROVE  Advances(s) /\ NewestArea(s)' # 0 /\ Newest(s)' = rec
<1>1. Running(s)
  BY Zenon DEF Running
<1>2. sess \in {"up", "retired"} /\ Of(s, th[s].rid, slots[s].seq) /\ slots[s].occupied
  BY <1>1, RunningFacts, Zenon
<1>3. slots[s].seq \in 1..MaxReqs
  BY <1>2, SeqRange, Zenon
<1>4. cur[s] = NewestArea(s) /\ (NewestArea(s) # 0 => Newest(s).seq <= slots[s].seq)
  BY <1>2, NewestFacts, Zenon DEF Rows, Newest
<1>5. NewestArea(s) # 0 /\ Newest(s).seq = slots[s].seq => Newest(s).kind = "INTENT" /\ th[s].pc # "iwrite"
  BY <1>1, Zenon DEF Held, Current
<1>6. NewestArea(s) # 0 => Newest(s).seq \in 1..MaxReqs /\ Of(s, Newest(s).rid, Newest(s).seq)
  BY NewestFacts, Zenon
<1>7. NewestArea(s) # 0 => \/ Newest(s).seq < rec.seq
                           \/ Newest(s).seq = rec.seq /\ rec.kind = "SLOT" /\ Newest(s).kind = "INTENT"
  BY <1>3, <1>4, <1>5, <1>6, Bounds
<1>8. /\ NewestArea(s)' \in 1..2 /\ Newest(s)' = rec
      /\ NewestArea(s) # 0 => newer(rec, Newest(s))
      /\ disk'.there = disk.there
  BY <1>3, <1>4, <1>7, NewestEnd, Zenon
<1>9. NewestArea(s) # 0 /\ Newest(s).seq = rec.seq => Newest(s).rid = rec.rid
  BY <1>2, <1>6, SameSeq, Zenon
<1> QED BY <1>3, <1>6, <1>7, <1>8, <1>9, Bounds, SMTT(60) DEF Advances

\* Records that do not change do not go back.
LEMMA AdvancesSame ==
  ASSUME Base, NEW s \in Slots, disk'.area[s] = disk.area[s], disk'.there => disk.there
  PROVE  Advances(s)
  BY NewestSame, Zenon DEF Advances

\* In no step does the newest record of a slot go back.
LEMMA AdvancesStep ==
  ASSUME Base, RecordsInv, Step
  PROVE  \A s \in Slots : Advances(s)
<1>1. ASSUME NEW s \in Slots, Running(s),
             \/ BeginWrite(s) /\ cur' = cur /\ file = "live"
             \/ Invalidated /\ cur' = cur
             \/ disk' = disk /\ cur' = cur
             \/ th[s].pc = "iwrite" /\ EndWrite(s, IntentOf(s)) /\ file = "live"
             \/ th[s].pc = "fwrite" /\ EndWrite(s, SlotOf(s)) /\ file = "live"
      PROVE  \A o \in Slots : Advances(o)
  <2>1. \A o \in Slots : o # s => Advances(o)
    BY <1>1, DiskStep, AdvancesSame, Zenon
  <2>2. Rows(s) /\ Held(s) /\ (file = "live" => disk.there) /\ sess \in {"up", "retired"}
    BY <1>1, RunningFacts, Zenon DEF RecordsInv, Base, FileInv
  <2>3. ASSUME BeginWrite(s), file = "live" PROVE Advances(s)
    BY <2>2, <2>3, NewestBegin, Zenon DEF Rows, Advances
  <2>4. ASSUME Invalidated \/ disk' = disk PROVE Advances(s)
    BY <2>4, InvalidatedRows, AdvancesSame, Zenon
  <2>5. ASSUME th[s].pc = "iwrite", EndWrite(s, IntentOf(s)), file = "live" PROVE Advances(s)
    BY <2>2, <2>5, IntentShape, WriteFits, Zenon
  <2>6. ASSUME th[s].pc = "fwrite", EndWrite(s, SlotOf(s)), file = "live" PROVE Advances(s)
    BY <1>1, <2>2, <2>6, SlotRecShape, WriteFits, Zenon
  <2>7. Advances(s)
    BY <1>1, <2>3, <2>4, <2>5, <2>6, Zenon
  <2> QED BY <2>1, <2>7, Zenon
<1>2. ASSUME NEW s \in Slots, \/ GatesStep(s) \/ PersistStep(s) \/ IWrittenStep(s)
                              \/ FinishStep(s) \/ SWrittenStep(s)
      PROVE  \A o \in Slots : Advances(o)
  <2>1. Running(s)
    BY <1>2, Zenon DEF GatesStep, PersistStep, IWrittenStep, FinishStep, SWrittenStep, Running
  <2>2. \/ BeginWrite(s) /\ cur' = cur /\ file = "live"
        \/ Invalidated /\ cur' = cur
        \/ disk' = disk /\ cur' = cur
        \/ th[s].pc = "iwrite" /\ EndWrite(s, IntentOf(s)) /\ file = "live"
        \/ th[s].pc = "fwrite" /\ EndWrite(s, SlotOf(s)) /\ file = "live"
    BY <1>2, Zenon DEF GatesStep, PersistStep, IWrittenStep, FinishStep, SWrittenStep
  <2> QED BY <1>1, <2>1, <2>2, Zenon
<1>3. ASSUME disk'.area = disk.area, disk'.there => disk.there
      PROVE  \A o \in Slots : Advances(o)
  BY <1>3, AdvancesSame, Zenon
<1>4. ASSUME NEW s \in Slots, \/ SendStep(s) \/ RetransmitStep(s) \/ DecideStep(s)
                              \/ LookStep(s) \/ SubmitStep(s) \/ NoAnswerStep(s)
      PROVE  \A o \in Slots : Advances(o)
  BY <1>3, <1>4, Zenon DEF SendStep, RetransmitStep, DecideStep, LookStep, SubmitStep, NoAnswerStep
<1>5. ASSUME NEW m \in net, StartStep(m) \/ ServeStep(m)
      PROVE  \A o \in Slots : Advances(o)
  BY <1>3, <1>5, Zenon DEF StartStep, ServeStep
<1>6. ASSUME NEW c \in calls, LandsStep(c)
      PROVE  \A o \in Slots : Advances(o)
  BY <1>3, <1>6, Zenon DEF LandsStep, LandStep
<1>7. CASE RetireStep \/ CloseStep \/ KillStep \/ OtherStep \/ UNCHANGED vars
  BY <1>3, <1>7, Zenon DEF RetireStep, CloseStep, KillStep, OtherStep, vars
<1>8. CASE RestoreStep
  BY <1>3, <1>8, Zenon DEF RestoreStep
<1> QED BY <1>2, <1>4, <1>5, <1>6, <1>7, <1>8, Zenon DEF Step

-----------------------------------------------------------------------------
TouchedInv ==
    \A r \in 1..MaxReqs : \A i \in 1..MaxOps : Touched(r, i) => r \in Rids /\ i \in Ops(r)

(* Only a Submit touches an operation that was not touched before. *)
Touches(s, r, i) == SubmitStep(s) /\ r = th[s].rid /\ i = th[s].op

\* An operation is touched only by the compound that submits it.
LEMMA TouchedStep ==
  ASSUME Base, CallsInv, Step, NEW r \in 1..MaxReqs, NEW i \in 1..MaxOps, Touched(r, i)'
  PROVE  Touched(r, i) \/ \E s \in Slots : Touches(s, r, i)
<1>1. CASE calls' = calls /\ done' = done
  BY <1>1, Zenon DEF Touched
<1>2. ASSUME NEW s \in Slots, SubmitStep(s)
      PROVE  Touched(r, i) \/ \E o \in Slots : Touches(o, r, i)
  <2>1. calls' = calls \cup {CallOf(s)} /\ done' = done
    BY <1>2, Zenon DEF SubmitStep
  <2>2. CallOf(s).rid = th[s].rid /\ CallOf(s).pay = th[s].pay
    BY Zenon DEF CallOf
  <2>3. th[s].pay.op = th[s].op
    BY <1>2, Zenon DEF SubmitStep, Base, SlotInv, Running, Paid, PaysFor
  <2> QED BY <1>2, <2>1, <2>2, <2>3, Zenon DEF Touched, Touches
<1>3. ASSUME NEW c \in calls, LandsStep(c)
      PROVE  Touched(r, i)
  <2>1. /\ calls' = calls \ {c}
        /\ Lands(c) => done' = [done EXCEPT ![c.rid][c.pay.op] = @ + 1]
        /\ ~Lands(c) => done' = done
    BY <1>3, Zenon DEF LandsStep, LandStep
  <2>2. CASE c.rid = r /\ c.pay.op = i
    BY <2>2, Zenon DEF Touched
  <2>3. CASE ~(c.rid = r /\ c.pay.op = i)
    <3>1. done'[r][i] = done[r][i]
      <4>1. c.rid \in 1..MaxReqs /\ c.pay.op \in 1..MaxOps
        BY CallRange, Zenon
      <4>2. done \in [1..MaxReqs -> [1..MaxOps -> Nat]]
        BY Zenon DEF Base, Shape, ShapeFs
      <4>3. CASE Lands(c)
        BY <2>1, <2>3, <4>1, <4>2, <4>3, DoneStep, SMTT(60)
      <4> QED BY <2>1, <4>3, Zenon
    <3> QED BY <2>1, <3>1, Zenon DEF Touched
  <2> QED BY <2>2, <2>3, Zenon
<1>4. ASSUME NEW s \in Slots, \/ SendStep(s) \/ RetransmitStep(s) \/ GatesStep(s) \/ DecideStep(s)
                              \/ LookStep(s) \/ PersistStep(s) \/ IWrittenStep(s)
                              \/ NoAnswerStep(s) \/ FinishStep(s) \/ SWrittenStep(s)
      PROVE  calls' = calls /\ done' = done
  BY <1>4, Zenon DEF SendStep, RetransmitStep, GatesStep, DecideStep, LookStep, PersistStep, IWrittenStep,
              NoAnswerStep, FinishStep, SWrittenStep, fsys
<1>5. ASSUME NEW m \in net, StartStep(m) \/ ServeStep(m)
      PROVE  calls' = calls /\ done' = done
  BY <1>5, Zenon DEF StartStep, ServeStep, fsys
<1>6. CASE RetireStep \/ CloseStep \/ KillStep \/ RestoreStep \/ OtherStep \/ UNCHANGED vars
  BY <1>1, <1>6, Zenon DEF RetireStep, CloseStep, KillStep, RestoreStep, OtherStep, vars, fsys
<1> QED BY <1>1, <1>2, <1>3, <1>4, <1>5, <1>6, Zenon DEF Step

\* Only operations of requests that were sent are touched.
LEMMA TouchedKept ==
  ASSUME Base, CallsInv, TouchedInv, Step
  PROVE  TouchedInv'
<1> SUFFICES ASSUME NEW r \in 1..MaxReqs, NEW i \in 1..MaxOps, Touched(r, i)'
             PROVE  (r \in Rids /\ i \in Ops(r))'
  BY Zenon DEF TouchedInv
<1>1. r \in Rids /\ i \in Ops(r)
  <2>1. CASE Touched(r, i)
    BY <2>1, Zenon DEF TouchedInv
  <2>2. ASSUME NEW s \in Slots, Touches(s, r, i)
        PROVE  r \in Rids /\ i \in Ops(r)
    <3>1. Running(s) /\ r = th[s].rid /\ i = th[s].op
      BY <2>2, Zenon DEF Touches, SubmitStep, Running
    <3> QED BY <3>1, RunningFacts, Zenon
  <2> QED BY <2>1, <2>2, TouchedStep, Zenon
<1> QED BY <1>1, RequestsKept, Zenon DEF Ops

-----------------------------------------------------------------------------
(* The file covers what was touched. *)
Covers(s, r, i) ==
    /\ NewestArea(s) # 0
    /\ \/ Newest(s).seq > reqs[r].seq
       \/ Newest(s).rid = r /\ (Newest(s).kind = "SLOT" \/ Newest(s).val.op = i)

Cover(s) ==
    disk.there => \A r \in 1..MaxReqs : \A i \in 1..MaxOps :
                     Touched(r, i) /\ reqs[r].slot = s => Covers(s, r, i)

CoverInv == \A s \in Slots : Cover(s)

\* A record that accounts for an effect stays, or a later one does.
LEMMA CoversKept ==
  ASSUME Base, Base', NEW s \in Slots, NEW r \in Rids, NEW i \in 1..MaxOps, Covers(s, r, i), Advances(s),
         disk'.there, reqs'[r] = reqs[r], SeqsIn'
  PROVE  Covers(s, r, i)'
<1>1. NewestArea(s) # 0 /\ NewestArea(s)' # 0
  BY Zenon DEF Covers, Advances
<1>2. Newest(s).seq \in 1..MaxReqs /\ Of(s, Newest(s).rid, Newest(s).seq)
  BY <1>1, NewestFacts, Zenon
<1>3. Newest(s).seq' \in 1..MaxReqs
  BY <1>1, Zenon DEF SeqsIn
<1>4. reqs[r].seq \in Nat
  BY DEF Base, RequestsInv
<1>5. Newest(s).rid = r => Newest(s).seq = reqs[r].seq
  BY <1>2, Zenon DEF Of
<1>6. CASE Newest(s)' = Newest(s)
  BY <1>1, <1>6, Zenon DEF Covers
<1>7. CASE Newest(s).seq' > Newest(s).seq
  BY <1>1, <1>2, <1>3, <1>4, <1>5, <1>7, Bounds DEF Covers
<1>8. CASE Newest(s).seq' = Newest(s).seq /\ Newest(s).rid' = Newest(s).rid /\ Newest(s).kind' = "SLOT"
  BY <1>1, <1>8, Zenon DEF Covers
<1> QED BY <1>1, <1>6, <1>7, <1>8, Zenon DEF Advances

\* Every step keeps a record on disk of each effect.
LEMMA CoverStep ==
  ASSUME Base, Base', CallsInv, TouchedInv, RecordsInv, CoverInv, Step, SeqsIn',
         \A s \in Slots : Advances(s)
  PROVE  CoverInv'
<1> SUFFICES ASSUME NEW s \in Slots, NEW r \in 1..MaxReqs, NEW i \in 1..MaxOps,
                    disk'.there, Touched(r, i)', reqs'[r].slot = s
             PROVE  Covers(s, r, i)'
  BY Zenon DEF CoverInv, Cover
<1>1. Advances(s)
  BY Zenon
<1>2. CASE Touched(r, i)
  <2>1. r \in Rids /\ reqs'[r] = reqs[r]
    BY <1>2, RequestsKept, Zenon DEF TouchedInv
  <2>2. disk.there => Covers(s, r, i)
    BY <1>2, <2>1, Zenon DEF CoverInv, Cover
  <2>3. disk.there
    BY DiskShrinks, Zenon
  <2> QED BY <1>1, <2>1, <2>2, <2>3, CoversKept, Zenon
<1>3. ASSUME NEW o \in Slots, Touches(o, r, i)
      PROVE  Covers(s, r, i)'
  <2>1. /\ th[o].pc = "submit" /\ Running(o) /\ r = th[o].rid /\ i = th[o].op /\ disk' = disk
        /\ reqs' = reqs /\ slots' = slots
    BY <1>3, Zenon DEF Touches, SubmitStep, Running, peer
  <2>2. Of(o, th[o].rid, slots[o].seq) /\ o = s
    BY <2>1, RunningFacts, Zenon DEF Of
  <2>3. Current(s) /\ th[s].pay = Newest(s).val
    BY <2>1, <2>2, ZenonT(60) DEF RecordsInv, Held
  <2>4. th[s].pay.op = th[s].op
    <3>1. th[s].pc \in Paid
      BY <2>1, <2>2, Zenon DEF Paid
    <3>2. SlotInv(s)
      BY Zenon DEF Base
    <3> QED BY <2>1, <2>2, <3>1, <3>2, Zenon DEF SlotInv, PaysFor
  <2>5. Of(s, Newest(s).rid, Newest(s).seq) /\ NewestArea(s) # 0 /\ Newest(s).seq = slots[s].seq
    BY <2>3, NewestFacts, Zenon DEF Current
  <2>6. Newest(s).rid = r
    BY <2>1, <2>2, <2>5, SameSeq, SMTT(60)
  <2>7. NewestArea(s)' = NewestArea(s) /\ Newest(s)' = Newest(s)
    BY <2>1, NewestSame, Zenon
  <2> QED BY <2>1, <2>2, <2>3, <2>4, <2>5, <2>6, <2>7, SMTT(60) DEF Covers
<1> QED BY <1>2, <1>3, TouchedStep, Zenon

-----------------------------------------------------------------------------
(* A process that has the session knows of what was touched. *)
Knows(s, r, i) ==
    /\ slots[s].occupied
    /\ \/ slots[s].seq > reqs[r].seq
       \/ slots[s].rid = r /\ (slots[s].restored => slots[s].reply # "nil" \/ slots[s].intent.op = i)

Memory(s) ==
    sess = "up" => \A r \in 1..MaxReqs : \A i \in 1..MaxOps :
                      Touched(r, i) /\ reqs[r].slot = s => Knows(s, r, i)

MemoryInv == \A s \in Slots : Memory(s)

(* The steps keep a slot, take it up, or restore it. *)
SlotStep(s) ==
    \/ sess' # "up"
    \/ /\ sess = "up" /\ slots'[s].seq = slots[s].seq /\ slots'[s].rid = slots[s].rid
       /\ slots'[s].intent = slots[s].intent
       /\ slots'[s].occupied <=> slots[s].occupied
       /\ slots'[s].restored <=> slots[s].restored
       /\ slots[s].restored => slots'[s].reply = slots[s].reply
    \/ /\ sess = "up" /\ \E m \in net : StartStep(m) /\ m.slot = s
    \/ RestoreStep /\ disk.there /\ Restored(s)

\* What a step of the system can be for one slot.
LEMMA SlotSteps ==
  ASSUME Base, CallsInv, Step, NEW s \in Slots
  PROVE  SlotStep(s)
<1>1. CASE slots' = slots /\ sess' = sess
  BY <1>1, Zenon DEF SlotStep
<1>2. ASSUME NEW o \in Slots, FinishStep(o) \/ SWrittenStep(o)
      PROVE  SlotStep(s)
  <2>1. SlotsKept(o) /\ (sess' = "up" => sess = "up") /\ Running(o)
    BY <1>2, Zenon DEF FinishStep, SWrittenStep, Running
  <2>2. ~slots[o].restored
    BY <2>1, RunningFacts, Zenon
  <2> QED BY <2>1, <2>2, Zenon DEF SlotsKept, KeepIds, SlotStep
<1>3. ASSUME NEW m \in net, StartStep(m)
      PROVE  SlotStep(s)
  <2>1. m.slot # s => slots'[s] = slots[s]
    BY <1>3, Zenon DEF StartStep
  <2>2. sess = "up"
    BY <1>3, Zenon DEF StartStep
  <2> QED BY <1>3, <2>1, <2>2, Zenon DEF SlotStep
<1>4. ASSUME NEW o \in Slots, \/ GatesStep(o) \/ DecideStep(o) \/ LookStep(o) \/ PersistStep(o)
                              \/ IWrittenStep(o) \/ SubmitStep(o) \/ NoAnswerStep(o)
      PROVE  SlotStep(s)
  BY <1>1, <1>4, InnerSteps, Zenon DEF Inner
<1>5. ASSUME NEW o \in Slots, SendStep(o) \/ RetransmitStep(o)
      PROVE  SlotStep(s)
  BY <1>1, <1>5, Zenon DEF SendStep, RetransmitStep, mem
<1>6. ASSUME NEW m \in net, ServeStep(m)
      PROVE  SlotStep(s)
  BY <1>1, <1>6, Zenon DEF ServeStep, mem
<1>7. ASSUME NEW c \in calls, LandsStep(c)
      PROVE  SlotStep(s)
  BY <1>1, <1>7, Zenon DEF LandsStep, LandStep
<1>8. CASE RetireStep \/ CloseStep \/ KillStep
  BY <1>8, Zenon DEF RetireStep, CloseStep, KillStep, SlotStep
<1>9. CASE RestoreStep
  BY <1>9, Zenon DEF RestoreStep, SlotStep
<1>10. CASE OtherStep \/ UNCHANGED vars
  BY <1>1, <1>10, Zenon DEF OtherStep, vars, mem
<1> QED BY <1>2, <1>3, <1>4, <1>5, <1>6, <1>7, <1>8, <1>9, <1>10, Zenon DEF Step

\* A compound that starts again has the intent of what was touched.
LEMMA KnowsStart ==
  ASSUME Base, NEW m \in net, StartStep(m), NEW r \in Rids, NEW i \in 1..MaxOps, Knows(m.slot, r, i),
         reqs[r].slot = m.slot
  PROVE  /\ Knows(m.slot, r, i)'
         /\ r = m.rid => /\ slots[m.slot].restored /\ slots[m.slot].intent.op = i
                         /\ th'[m.slot].replay = slots[m.slot].intent
<1>1. /\ m.slot \in Slots /\ Of(m.slot, m.rid, m.seq) /\ reqs' = reqs
      /\ slots'[m.slot].seq = m.seq /\ slots'[m.slot].rid = m.rid /\ slots'[m.slot].occupied
      /\ ~slots'[m.slot].restored
  BY Zenon DEF StartStep, peer
<1>2. slots[m.slot].occupied /\ Of(m.slot, slots[m.slot].rid, slots[m.slot].seq)
  BY <1>1, Zenon DEF Knows, Base, OwnInv
<1>3. m.seq \in 1..MaxReqs /\ slots[m.slot].seq \in 1..MaxReqs /\ reqs[r].seq \in Nat
  BY <1>1, <1>2, SeqRange, SMTT(60) DEF Base, RequestsInv
<1>4. slots[m.slot].rid = r => slots[m.slot].seq = reqs[r].seq
  BY <1>2, Zenon DEF Of
<1>5. r = m.rid => reqs[r].seq = m.seq
  BY <1>1, Zenon DEF Of
<1>6. CASE /\ slots[m.slot].seq = m.seq /\ slots[m.slot].rid = m.rid
           /\ slots[m.slot].reply = "nil" /\ slots[m.slot].restored
           /\ th'[m.slot].replay = slots[m.slot].intent
  BY <1>1, <1>3, <1>5, <1>6, Bounds DEF Knows
<1>7. CASE slots[m.slot].seq < m.seq
  BY <1>1, <1>3, <1>4, <1>5, <1>7, Bounds DEF Knows
<1> QED BY <1>6, <1>7, Zenon DEF StartStep

\* Every step keeps the slot aware of what its request has touched.
LEMMA MemoryStep ==
  ASSUME Base, Base', CallsInv, TouchedInv, CoverInv, MemoryInv, Step
  PROVE  MemoryInv'
<1> SUFFICES ASSUME NEW s \in Slots, NEW r \in 1..MaxReqs, NEW i \in 1..MaxOps,
                    sess' = "up", Touched(r, i)', reqs'[r].slot = s
             PROVE  Knows(s, r, i)'
  BY Zenon DEF MemoryInv, Memory
<1>1. CASE Touched(r, i)
  <2>1. r \in Rids /\ reqs'[r] = reqs[r] /\ reqs[r].slot = s
    BY <1>1, RequestsKept, Zenon DEF TouchedInv
  <2>2. sess = "up" => Knows(s, r, i)
    BY <1>1, <2>1, Zenon DEF MemoryInv, Memory
  <2>3. CASE /\ sess = "up" /\ slots'[s].seq = slots[s].seq /\ slots'[s].rid = slots[s].rid
             /\ slots'[s].intent = slots[s].intent
             /\ slots'[s].occupied <=> slots[s].occupied
             /\ slots'[s].restored <=> slots[s].restored
             /\ slots[s].restored => slots'[s].reply = slots[s].reply
    BY <2>1, <2>2, <2>3, Zenon DEF Knows
  <2>4. ASSUME NEW m \in net, StartStep(m), m.slot = s, sess = "up"
        PROVE  Knows(s, r, i)'
    BY <2>1, <2>2, <2>4, KnowsStart, Zenon
  <2>5. CASE disk.there /\ Restored(s)
    <3>1. Covers(s, r, i)
      BY <1>1, <2>1, <2>5, Zenon DEF CoverInv, Cover
    <3>2. NewestArea(s) # 0 /\ Newest(s).kind \in {"INTENT", "SLOT"}
      BY <3>1, NewestFacts, Zenon DEF Covers
    <3>3. /\ slots'[s].occupied /\ slots'[s].seq = Newest(s).seq /\ slots'[s].rid = Newest(s).rid
          /\ Newest(s).kind = "SLOT" => slots'[s].reply \in Statuses
          /\ Newest(s).kind = "INTENT" => slots'[s].intent = Newest(s).val
      BY <2>5, <3>2, Zenon DEF Restored, Newest
    <3>4. "nil" \notin Statuses
      BY Zenon DEF Statuses
    <3> QED BY <2>1, <3>1, <3>2, <3>3, <3>4, Zenon DEF Covers, Knows
  <2> QED BY <2>3, <2>4, <2>5, SlotSteps, Zenon DEF SlotStep
<1>2. ASSUME NEW o \in Slots, Touches(o, r, i)
      PROVE  Knows(s, r, i)'
  <2>1. Running(o) /\ r = th[o].rid /\ reqs' = reqs /\ slots' = slots
    BY <1>2, Zenon DEF Touches, SubmitStep, Running, peer
  <2>2. Of(o, th[o].rid, slots[o].seq) /\ slots[o].occupied /\ ~slots[o].restored /\ slots[o].rid = th[o].rid
    BY <2>1, RunningFacts, Zenon
  <2>3. o = s
    BY <2>1, <2>2, Zenon DEF Of
  <2> QED BY <2>1, <2>2, <2>3, Zenon DEF Knows
<1> QED BY <1>1, <1>2, TouchedStep, Zenon

-----------------------------------------------------------------------------
(* What the compound's own request touched. *)
LEMMA TouchedOwn ==
  ASSUME Base, CallsInv, Step, NEW s \in Slots, Running(s), NEW r \in 1..MaxReqs, r = th[s].rid,
         NEW i \in 1..MaxOps, Touched(r, i)'
  PROVE  Touched(r, i) \/ (SubmitStep(s) /\ i = th[s].op)
<1>1. Of(s, th[s].rid, slots[s].seq)
  BY RunningFacts, Zenon
<1>2. ASSUME NEW o \in Slots, Touches(o, r, i)
      PROVE  o = s
  <2>1. Running(o) /\ th[o].rid = th[s].rid
    BY <1>2, Zenon DEF Touches, SubmitStep, Running
  <2>2. Of(o, th[o].rid, slots[o].seq)
    BY <2>1, RunningFacts, Zenon
  <2> QED BY <1>1, <2>1, <2>2, Zenon DEF Of
<1> QED BY <1>2, TouchedStep DEF Touches

\* A compound that starts finds what was touched only through its intent.
LEMMA AheadStart ==
  ASSUME Base, CallsInv, TouchedInv, MemoryInv, NEW m \in net, StartStep(m), Step
  PROVE  Ahead(m.slot)'
<1>1. /\ m.slot \in Slots /\ Of(m.slot, m.rid, m.seq) /\ reqs' = reqs /\ sess = "up"
      /\ th'[m.slot].pc = "op" /\ th'[m.slot].rid = m.rid /\ calls' = calls /\ done' = done
      /\ th'[m.slot].pending <=> th'[m.slot].replay # NoPay
  BY Zenon DEF StartStep, peer, fsys
<1> SUFFICES ASSUME NEW r \in 1..MaxReqs, NEW i \in 1..MaxOps, r = m.rid, Touched(r, i)
             PROVE  th'[m.slot].pending /\ th'[m.slot].replay.op = i
  BY <1>1, ZenonT(60) DEF Ahead, Touched, Late
<1>2. r \in Rids /\ reqs[r].slot = m.slot
  BY <1>1, Zenon DEF Of
<1>3. Knows(m.slot, r, i)
  BY <1>1, <1>2, Zenon DEF MemoryInv, Memory
<1>4. th'[m.slot].replay = slots[m.slot].intent /\ slots[m.slot].intent.op = i
  BY <1>2, <1>3, KnowsStart, Zenon
<1>5. slots[m.slot].intent # NoPay
  BY <1>4, PayFacts, Bounds
<1> QED BY <1>1, <1>4, <1>5, Zenon

\* Every step keeps what was touched behind the compound, or in its intent.
LEMMA AheadStep ==
  ASSUME Base, Base', CallsInv, TouchedInv, CompoundInv, MemoryInv, AheadInv, Step
  PROVE  AheadInv'
<1> SUFFICES ASSUME NEW s \in Slots
             PROVE  Ahead(s)'
  BY Zenon DEF AheadInv
<1>1. ASSUME NEW m \in net, StartStep(m), m.slot = s
      PROVE  Ahead(s)'
  BY <1>1, AheadStart, Zenon
<1>2. CASE ~Running(s)'
  BY <1>2, Zenon DEF Ahead
<1>3. ASSUME Running(s), th'[s].rid = th[s].rid,
             \A r \in 1..MaxReqs : \A i \in 1..MaxOps :
                r = th[s].rid /\ (Touched(r, i) \/ (SubmitStep(s) /\ i = th[s].op)) =>
                /\ th'[s].pc \in {"op", "decide"} /\ th'[s].op <= i => th'[s].pending /\ th'[s].replay.op = i
                /\ th'[s].pc \in Late /\ th'[s].op <= i => i = th'[s].op /\ th'[s].replay.op = i
                /\ th'[s].pc = "wait" => i <= th'[s].op
      PROVE  Ahead(s)'
  BY <1>3, TouchedOwn, Zenon DEF Ahead
<1>4. CASE th'[s] = th[s] /\ Running(s)
  <2>1. ~SubmitStep(s)
    BY <1>4, Zenon DEF SubmitStep
  <2> QED BY <1>3, <1>4, <2>1, SMTT(60) DEF Ahead, AheadInv
<1>5. ASSUME Running(s)
      PROVE  /\ th[s].op \in Nat /\ th[s].rid \in 1..MaxReqs
             /\ \A r \in 1..MaxReqs : \A i \in 1..MaxOps : r = th[s].rid /\ Touched(r, i) =>
                  /\ i \in Nat
                  /\ th[s].pc \in {"op", "decide"} /\ th[s].op <= i => th[s].pending /\ th[s].replay.op = i
                  /\ th[s].pc \in Late /\ th[s].op <= i => i = th[s].op /\ th[s].replay.op = i
                  /\ th[s].pc = "wait" => i <= th[s].op
  BY <1>5, RunningFacts, Bounds, SMTT(60) DEF AheadInv, Ahead
<1>6. ASSUME Moves(s), th'[s].pc \in {"finish", "fwrite"}, Running(s), ~SubmitStep(s)
      PROVE  Ahead(s)'
  BY <1>3, <1>6, Zenon DEF Moves, Late
<1>7. CASE GatesStep(s)
  <2>1. th[s].pc = "op" /\ Running(s) /\ Moves(s) /\ th'[s].replay = th[s].replay /\ ~SubmitStep(s)
    BY <1>7, Zenon DEF GatesStep, Running, Moves, SubmitStep
  <2>2. th'[s].pending <=> th[s].pending
    BY <1>7, Zenon DEF GatesStep
  <2>3. CASE th'[s].pc = "finish"
    BY <1>6, <2>1, <2>3, Zenon
  <2>4. CASE th'[s].pc \in {"op", "decide"} /\ th'[s].op \in {th[s].op, th[s].op + 1}
    BY <1>3, <1>5, <2>1, <2>2, <2>4, Bounds, SMTT(60) DEF Moves, Late
  <2>5. \/ th'[s].pc = "finish"
        \/ th'[s].pc \in {"op", "decide"} /\ th'[s].op \in {th[s].op, th[s].op + 1}
    BY <1>7, Zenon DEF GatesStep, Stops, Goes
  <2> QED BY <2>3, <2>4, <2>5, Zenon
<1>8. CASE DecideStep(s)
  <2>1. th[s].pc = "decide" /\ Running(s) /\ Moves(s) /\ th'[s].replay = th[s].replay /\ ~SubmitStep(s)
    BY <1>8, Zenon DEF DecideStep, Running, Moves, SubmitStep
  <2>2. th[s].pending => th[s].replay.op = th[s].op
    BY <2>1, Zenon DEF CompoundInv, Compound
  <2>3. CASE th'[s].pc = "finish"
    BY <1>6, <2>1, <2>3, Zenon
  <2>4. CASE th'[s].pc = "look" /\ th'[s].op = th[s].op
    BY <1>3, <1>5, <2>1, <2>2, <2>4, Bounds, Zenon DEF Moves, Late
  <2>5. CASE th'[s].pc = "op" /\ th'[s].op = th[s].op + 1
    BY <1>3, <1>5, <2>1, <2>2, <2>5, Bounds, SMTT(60) DEF Moves, Late
  <2> QED BY <1>8, <2>3, <2>4, <2>5, Zenon DEF DecideStep, Stops, Goes
<1>9. CASE LookStep(s) \/ PersistStep(s) \/ IWrittenStep(s)
  <2>1. th[s].pc \in Late /\ Running(s) /\ Moves(s) /\ th'[s].replay = th[s].replay /\ ~SubmitStep(s)
    BY <1>9, Zenon DEF LookStep, PersistStep, IWrittenStep, Running, Moves, SubmitStep, Late
  <2>2. CASE th'[s].pc = "finish"
    BY <1>6, <2>1, <2>2, Zenon
  <2>3. CASE th'[s].pc \in Late /\ th'[s].op = th[s].op
    BY <1>3, <1>5, <2>1, <2>3, Bounds, Zenon DEF Moves, Late
  <2>4. th'[s].pc = "finish" \/ (th'[s].pc \in Late /\ th'[s].op = th[s].op)
    BY <1>9, Zenon DEF LookStep, PersistStep, IWrittenStep, Stops, Late
  <2> QED BY <2>2, <2>3, <2>4, Zenon
<1>10. CASE SubmitStep(s)
  <2>1. th[s].pc = "submit" /\ Running(s) /\ Moves(s) /\ th'[s].pc = "wait" /\ th'[s].op = th[s].op
    BY <1>10, Zenon DEF SubmitStep, Running
  <2> QED BY <1>3, <1>5, <2>1, Bounds, SMTT(60) DEF Moves, Late
<1>11. CASE NoAnswerStep(s)
  BY <1>6, <1>11, Zenon DEF NoAnswerStep, Stops, Running, SubmitStep
<1>12. ASSUME NEW c \in calls, LandsStep(c), Hears(c), c.slot = s
       PROVE  Ahead(s)'
  <2>1. th[s].pc = "wait" /\ Running(s) /\ Moves(s) /\ ~SubmitStep(s)
    BY <1>12, Zenon DEF LandsStep, LandStep, Hears, Running, SubmitStep
  <2>2. CASE th'[s].pc = "finish"
    BY <1>6, <2>1, <2>2, Zenon
  <2>3. CASE th'[s].pc = "op" /\ th'[s].op = th[s].op + 1
    BY <1>3, <1>5, <2>1, <2>3, Bounds, SMTT(60) DEF Moves, Late
  <2> QED BY <1>12, <2>2, <2>3, Zenon DEF LandsStep, LandStep, Goes, Stops
<1>13. CASE FinishStep(s) /\ Moves(s) /\ th'[s].pc = "fwrite"
  BY <1>6, <1>13, Zenon DEF FinishStep, Running, SubmitStep
<1>14. CASE th'[s] = th[s] /\ ~Running(s)
  BY <1>2, <1>14, Zenon DEF Running
<1> QED BY <1>1, <1>2, <1>4, <1>7, <1>8, <1>9, <1>10, <1>11, <1>12, <1>13, <1>14, ThreadSteps, Zenon DEF ThreadStep

-----------------------------------------------------------------------------
\* After a kill every call is of a process that died.
LEMMA LivesKilled ==
  ASSUME Base, CallsInv, NEW s \in Slots, KillStep
  PROVE  Lives(s)'
<1>1. /\ calls' = calls /\ used'["kills"] = used["kills"] + 1 /\ sess' = "down" /\ th'[s].pc = "idle"
  BY Zenon DEF KillStep, fsys
<1>2. used["kills"] \in Nat
  BY Zenon DEF Base, Shape, ShapeFs, Troubles
<1>3. \A c \in calls : c.life \in Nat /\ c.life <= used["kills"]
  BY CallRange, Zenon DEF CallsInv
<1> QED BY <1>1, <1>2, <1>3 DEF Lives, Old, Early, Late

(* Calls of the request that runs, if it is not the one that submits. *)
LEMMA OwnCalls ==
  ASSUME Base, CallsInv, Step, NEW s \in Slots, Running(s), ~SubmitStep(s), NEW c \in calls', c.rid = th[s].rid
  PROVE  c \in calls
<1> SUFFICES ASSUME c \notin calls PROVE FALSE
  BY Zenon
<1>1. PICK o \in Slots : SubmitStep(o) /\ Running(o) /\ c.rid = th[o].rid
  BY NewCall, Zenon
<1>2. Of(s, th[s].rid, slots[s].seq) /\ Of(o, th[o].rid, slots[o].seq)
  BY <1>1, RunningFacts, Zenon
<1> QED BY <1>1, <1>2, Zenon DEF Of

\* No process hears of a call of an earlier one.
LEMMA LivesRest ==
  ASSUME Base, Base', CallsInv, LivesInv, Step, NEW s \in Slots, ~KillStep
  PROVE  /\ sess' = "down" => \A c \in calls' : Old(c)'
         /\ sess' = "up" /\ slots'[s].restored => \A c \in calls' : c.slot = s => Old(c)'
<1>1. used'["kills"] = used["kills"] /\ (sess' = "down" => sess = "down")
  BY LifeStep, Zenon
<1>2. \A c \in calls : Old(c) => c.life < used'["kills"]
  BY <1>1, Zenon DEF Old
<1>3. ASSUME NEW c \in calls', c \notin calls
      PROVE  sess # "down" /\ ~slots[c.slot].restored /\ Running(c.slot) /\ c.slot \in Slots
             /\ sess' = sess /\ slots' = slots
  <2>1. PICK o \in Slots : SubmitStep(o) /\ Running(o) /\ c.slot = o
    BY <1>3, NewCall, Zenon
  <2> QED BY <2>1, RunningFacts, Zenon DEF SubmitStep
<1>4. ASSUME sess' = "down", NEW c \in calls'
      PROVE  c.life < used'["kills"]
  <2>1. c \in calls /\ sess = "down"
    BY <1>1, <1>3, <1>4, Zenon
  <2> QED BY <1>2, <2>1, Zenon DEF LivesInv, Lives
<1>5. ASSUME sess' = "up", slots'[s].restored, NEW c \in calls', c.slot = s
      PROVE  c.life < used'["kills"]
  <2>1. c \in calls
    BY <1>3, <1>5, Zenon
  <2>2. CASE sess = "up" /\ slots[s].restored
    BY <1>2, <1>5, <2>1, <2>2, Zenon DEF LivesInv, Lives
  <2>3. CASE RestoreStep
    BY <1>2, <2>1, <2>3, Zenon DEF RestoreStep, LivesInv, Lives
  <2>4. ASSUME NEW m \in net, StartStep(m), m.slot = s
        PROVE  FALSE
    BY <1>5, <2>4, Zenon DEF StartStep
  <2> QED BY <1>5, <2>2, <2>3, <2>4, SlotSteps, Zenon DEF SlotStep
<1> QED BY <1>4, <1>5, Zenon DEF Old

\* A request that starts has no call of this process.
LEMMA LivesStart ==
  ASSUME Base, CallsInv, TouchedInv, MemoryInv, LivesInv, NEW m \in net, StartStep(m), NEW c \in calls,
         c.rid = m.rid
  PROVE  Old(c)
<1>1. /\ m.slot \in Slots /\ Of(m.slot, m.rid, m.seq) /\ sess = "up"
  BY Zenon DEF StartStep
<1>2. c.rid \in 1..MaxReqs /\ c.pay.op \in 1..MaxOps /\ c.rid \in Rids /\ reqs[c.rid].slot = c.slot
  BY CallRange, Zenon DEF CallsInv
<1>3. c.slot = m.slot
  BY <1>1, <1>2, Zenon DEF Of
<1>4. Touched(c.rid, c.pay.op)
  BY Zenon DEF Touched
<1>5. Knows(m.slot, c.rid, c.pay.op)
  BY <1>1, <1>2, <1>3, <1>4, Zenon DEF MemoryInv, Memory
<1>6. slots[m.slot].restored
  BY <1>2, <1>3, <1>5, KnowsStart, Zenon
<1> QED BY <1>1, <1>3, <1>6, Zenon DEF LivesInv, Lives

\* Every step keeps a process apart from its predecessors' calls.
LEMMA LivesStep ==
  ASSUME Base, Base', CallsInv, TouchedInv, MemoryInv, LivesInv, Step
  PROVE  LivesInv'
<1> SUFFICES ASSUME NEW s \in Slots
             PROVE  Lives(s)'
  BY Zenon DEF LivesInv
<1>1. CASE KillStep
  BY <1>1, LivesKilled, Zenon
<1>2. CASE ~KillStep
  <2> DEFINE Own == /\ th'[s].pc \in Early => \A c \in calls' : c.rid = th'[s].rid => Old(c)'
                    /\ th'[s].pc = "wait" => \A c \in calls' : c.rid = th'[s].rid => Old(c)' \/ c.pay = th'[s].pay
  <2>1. SUFFICES Own
    BY <1>2, LivesRest, Zenon DEF Lives
  <2>2. used'["kills"] = used["kills"]
    BY <1>2, LifeStep, Zenon
  <2>3. \A c \in calls : Old(c) => Old(c)'
    BY <2>2, Zenon DEF Old
  <2>4. CASE th'[s].pc \notin Early \cup {"wait"}
    BY <2>4, Zenon
  <2>5. ASSUME Running(s), ~SubmitStep(s), th'[s].rid = th[s].rid,
               \/ th[s].pc \in Early /\ th'[s].pc \in Early
               \/ th'[s] = th[s]
        PROVE  Own
    <3>1. \A c \in calls' : c.rid = th'[s].rid => c \in calls
      BY <2>5, OwnCalls, Zenon
    <3> QED BY <2>3, <2>5, <3>1, Zenon DEF LivesInv, Lives
  <2>6. CASE th'[s] = th[s]
    <3>1. CASE Running(s)
      <4>1. ~SubmitStep(s)
        BY <2>6, Zenon DEF SubmitStep
      <4> QED BY <2>5, <2>6, <3>1, <4>1, Zenon
    <3>2. CASE ~Running(s)
      BY <2>4, <2>6, <3>2, Zenon DEF Running, Early, Late
    <3> QED BY <3>1, <3>2, Zenon
  <2>7. CASE ~Running(s)'
    BY <2>4, <2>7, Zenon DEF Running, Early, Late
  <2>8. CASE GatesStep(s) \/ DecideStep(s) \/ LookStep(s) \/ PersistStep(s) \/ IWrittenStep(s)
    <3>1. Running(s) /\ ~SubmitStep(s) /\ Moves(s) /\ th[s].pc \in Early
      BY <2>8, Zenon DEF GatesStep, DecideStep, LookStep, PersistStep, IWrittenStep, SubmitStep, Running, Early, Late
    <3>2. th'[s].pc \in Early \/ th'[s].pc = "finish"
      BY <2>8, Zenon DEF GatesStep, DecideStep, LookStep, PersistStep, IWrittenStep, Stops, Goes, Early, Late
    <3>3. CASE th'[s].pc = "finish"
      BY <2>4, <3>3, Zenon DEF Early, Late
    <3> QED BY <2>5, <3>1, <3>2, <3>3, Zenon DEF Moves
  <2>9. CASE SubmitStep(s)
    <3>1. /\ th[s].pc = "submit" /\ th'[s].pc = "wait" /\ th'[s].rid = th[s].rid /\ th'[s].pay = th[s].pay
          /\ calls' = calls \cup {CallOf(s)} /\ CallOf(s).pay = th[s].pay
      BY <2>9, Zenon DEF SubmitStep, Moves, CallOf
    <3> QED BY <2>3, <3>1, Zenon DEF LivesInv, Lives, Early, Late
  <2>10. CASE NoAnswerStep(s) \/ (FinishStep(s) /\ th'[s].pc = "fwrite")
    BY <2>4, <2>10, Zenon DEF NoAnswerStep, Stops, Early, Late
  <2>11. ASSUME NEW c \in calls, LandsStep(c), Hears(c), c.slot = s
         PROVE  Own
    <3>1. /\ th'[s].pc \in {"op", "finish"} /\ th'[s].rid = c.rid /\ calls' = calls \ {c}
      BY <2>11, Zenon DEF LandsStep, LandStep, Moves, Hears, Goes, Stops
    <3>2. \A d \in calls' : d.rid = c.rid => Old(d)
      BY <2>11, <3>1, HeardCall, Zenon
    <3> QED BY <2>3, <3>1, <3>2, Zenon DEF Early, Late
  <2>12. ASSUME NEW m \in net, StartStep(m), m.slot = s
         PROVE  Own
    <3>1. th'[s].pc = "op" /\ th'[s].rid = m.rid /\ calls' = calls
      BY <2>12, Zenon DEF StartStep, fsys
    <3>2. \A c \in calls : c.rid = m.rid => Old(c)
      BY <2>12, LivesStart, Zenon
    <3> QED BY <2>3, <3>1, <3>2, Zenon DEF Early, Late
  <2> QED BY <2>6, <2>7, <2>8, <2>9, <2>10, <2>11, <2>12, ThreadSteps, Zenon DEF ThreadStep
<1> QED BY <1>1, <1>2, Zenon
=============================================================================
