------------------------------ MODULE NFSReplayProofs -----------------------
(***************************************************************************)
(* The invariant of NFSReplay is inductive, and implies what the session   *)
(* promises its client: effects happen at most once, an OK is true, what an*)
(* unanswered request did is on disk, and the newest record never goes back.*)
(***************************************************************************)
EXTENDS NFSReplaySteps, NFSReplayRecords, NFSReplayTruth

\* The initial state has its shape.
LEMMA BaseInit == Init => Base
<1> SUFFICES ASSUME Init PROVE Base
  BY Zenon
<1> USE ReplayAssumption
<1>1. Cardinality(Names) \in Nat
  BY Zenon
<1>2. ShapeFs
  <2>1. edges \in [Names -> EdgeRecs]
    BY <1>1, SMTT(60) DEF Init, EdgeRecs
  <2>2. clock \in Nat /\ calls \subseteq CallRecs /\ used \in [Troubles -> Nat]
    BY <1>1, Zenon DEF Init
  <2>3. done \in [1..MaxReqs -> [1..MaxOps -> Nat]]
    BY Zenon DEF Init
  <2>4. meant \in [1..MaxReqs -> [1..MaxOps -> Pays \cup {NoPay}]]
    BY Zenon DEF Init
  <2> QED BY <2>1, <2>2, <2>3, <2>4, ZenonT(60) DEF ShapeFs
<1>3. ShapeDisk
  BY RecShape, SMTT(60) DEF Init, ShapeDisk
<1>4. ShapeMem
  BY IdleShape, EmptyShape, ZenonT(60) DEF Init, ShapeMem
<1>5. ShapePeer
  BY SMTT(60) DEF Init, ShapePeer, ClientRecs
<1>6. Rids = {}
  BY SMTT(60) DEF Init, Rids
<1>7. RequestsInv /\ ClientsInv /\ NetInv
  BY <1>6, ZenonT(60) DEF RequestsInv, ClientsInv, NetInv, Init
<1>8. OwnInv /\ AreaInv /\ FileInv
  BY EmptyShape, RecShape, ZenonT(60) DEF OwnInv, AreaInv, FileInv, Init
<1>9. \A s \in Slots : SlotInv(s)
  BY EmptyShape, IdleShape, ZenonT(60) DEF SlotInv, Init, Running
<1> QED BY <1>2, <1>3, <1>4, <1>5, <1>7, <1>8, <1>9, ZenonT(60) DEF Base, Shape

\* Initially no call is submitted.
LEMMA CallsInit == Init => CallsInv
  BY ZenonT(60) DEF Init, CallsInv

\* Initially no message travels.
LEMMA WireInit == Init => WireInv
  BY EmptyShape, IdleShape, SMTT(60) DEF Init, WireInv, Wire, Running

\* Initially no compound runs.
LEMMA CompoundInit == Init => CompoundInv
  BY IdleShape, SMTT(60) DEF Init, CompoundInv, Compound, NoPay

\* Initially there is no record.
LEMMA RecordsInit == Init => RecordsInv
<1> SUFFICES ASSUME Init, NEW s \in Slots PROVE Rows(s) /\ Held(s)
  BY Zenon DEF RecordsInv
<1>1. th[s] = Idle /\ cur[s] = 0 /\ slots[s] = EmptySlot /\ disk.area[s] = [a \in 1..2 |-> NoRec]
  BY ZenonT(60) DEF Init
<1>2. ~Running(s)
  BY <1>1, IdleShape, ZenonT(60) DEF Running
<1>3. \A a \in 1..2 : disk.area[s][a].kind = "NONE"
  BY <1>1, RecShape, Zenon
<1>4. NewestArea(s) = 0
  BY <1>3, SMTT(60) DEF NewestArea
<1> QED BY <1>1, <1>2, <1>3, <1>4, EmptyShape, ZenonT(60) DEF Rows, Held

\* Initially nothing was touched.
LEMMA StartCovered == Init => TouchedInv /\ CoverInv /\ MemoryInv /\ AheadInv /\ LivesInv
<1> SUFFICES ASSUME Init PROVE TouchedInv /\ CoverInv /\ MemoryInv /\ AheadInv /\ LivesInv
  BY ZenonT(60)
<1>1. /\ calls = {} /\ sess = "up" /\ \A r \in 1..MaxReqs : \A i \in 1..MaxOps : ~(done[r][i] > 0)
  BY SMTT(60) DEF Init
<1>2. \A r \in 1..MaxReqs : \A i \in 1..MaxOps : ~Touched(r, i)
  BY <1>1, Zenon DEF Touched
<1>3. TouchedInv /\ CoverInv /\ MemoryInv
  BY <1>2, ZenonT(60) DEF TouchedInv, CoverInv, Cover, MemoryInv, Memory
<1>4. AheadInv /\ LivesInv
  BY <1>1, <1>2, ZenonT(60) DEF AheadInv, Ahead, LivesInv, Lives
<1> QED BY <1>3, <1>4, Zenon

\* Initially every edge is as old as the clock says, and linked.
LEMMA EdgesStart == Init => EdgesInv
<1> SUFFICES ASSUME Init, NEW n \in Names
             PROVE  /\ edges[n].ct <= clock
                    /\ edges[n] # NoEdge => edges[n].id # 0 /\ <<n, edges[n].id>> \in linked
  BY Zenon DEF EdgesInv
<1>1. edges[n] = [id |-> Start[n], ct |-> Start[n]] /\ clock = Cardinality(Names) /\ <<n, Start[n]>> \in linked
  BY Zenon DEF Init
<1>2. Start[n] \in 0..Cardinality(Names) /\ Cardinality(Names) \in Nat
  BY ReplayAssumption, Zenon
<1>3. edges[n].id = Start[n] /\ edges[n].ct = Start[n]
  BY <1>1, SMTT(60)
<1>4. edges[n] # NoEdge => Start[n] # 0
  BY <1>1, Zenon DEF NoEdge
<1> QED BY <1>1, <1>2, <1>3, <1>4

\* Initially no operation means anything yet.
LEMMA NotesStart ==
  ASSUME Init
  PROVE  MeantInv /\ PaidInv /\ NotesInv
<1>1. MeantInv
  BY SMTT(60) DEF Init, MeantInv
<1>2. PaidInv
  BY Zenon DEF Init, PaidInv
<1>3. ASSUME NEW s \in Slots
      PROVE  Notes(s)
  BY ZenonT(60) DEF Init, Notes, Idle, EmptySlot, NoRec, Running
<1> QED BY <1>1, <1>2, <1>3, Zenon DEF NotesInv

\* Initially there is no answer.
LEMMA TruthStart ==
  ASSUME Init
  PROVE  TruthInv
<1>1. GotInv
  BY Zenon DEF Init, GotInv
<1>2. ASSUME NEW s \in Slots
      PROVE  Known(s) /\ Earned(s) /\ Kept(s)
  BY ZenonT(60) DEF Init, Known, Earned, Kept, Idle, EmptySlot, NoRec, Running
<1> QED BY <1>1, <1>2, Zenon DEF TruthInv

\* A record of each effect is what IntentCoversEffect asks.
LEMMA CoverGives ==
  ASSUME Base, CoverInv
  PROVE  IntentCoversEffect
<1> SUFFICES ASSUME NEW s \in Slots, NEW i \in 1..MaxOps, client[s].waiting, disk.there,
                    Touched(client[s].rid, i)
             PROVE  /\ NewestArea(s) # 0 /\ Newest(s).rid = client[s].rid
                    /\ Newest(s).kind = "SLOT" \/ Newest(s).val.op = i
  BY ZenonT(60) DEF IntentCoversEffect, Touched, Newest
<1>1. Of(s, client[s].rid, client[s].seq)
  BY ZenonT(60) DEF Base, ClientsInv
<1>2. client[s].rid \in 1..MaxReqs /\ reqs[client[s].rid].slot = s
  BY <1>1, SeqRange, Zenon DEF Of
<1>3. Covers(s, client[s].rid, i)
  BY <1>2, Zenon DEF CoverInv, Cover
<1>4. Of(s, Newest(s).rid, Newest(s).seq)
  BY <1>3, NewestFacts, ZenonT(60) DEF Covers
<1>5. ~(Newest(s).seq > reqs[client[s].rid].seq)
  <2>1. Newest(s).rid \in Rids /\ client[s].rid \in Rids /\ Newest(s).rid <= client[s].rid
    BY <1>1, <1>4, ZenonT(60) DEF Of, Base, ClientsInv
  <2>2. Newest(s).seq \in Int /\ client[s].seq \in Int /\ Newest(s).rid \in Int /\ client[s].rid \in Int
    BY <1>1, <1>4, SeqRange, SMTT(60)
  <2>3. CASE Newest(s).rid = client[s].rid
    BY <1>1, <1>4, <2>2, <2>3, SMTT(60) DEF Of
  <2>4. CASE Newest(s).rid < client[s].rid
    BY <1>1, <1>4, <2>1, <2>2, <2>4, SMTT(60) DEF Of, Base, RequestsInv
  <2> QED BY <2>1, <2>2, <2>3, <2>4, SMTT(60)
<1> QED BY <1>3, <1>5, Zenon DEF Covers

\* The truth of the OKs the client holds is what SuccessIsTrue asks.
LEMMA TruthGives ==
  ASSUME Base, TruthInv
  PROVE  SuccessIsTrue
<1> SUFFICES ASSUME NEW r \in DOMAIN reqs, got[r] = "OK", NEW i \in DOMAIN reqs[r].ops
             PROVE  /\ reqs[r].ops[i].k \in {"REMOVE", "RENAME"} =>
                         meant[r][i] # NoPay /\ edges[reqs[r].ops[i].from] # meant[r][i].edge
                    /\ reqs[r].ops[i].k = "RENAME" => <<reqs[r].ops[i].to, meant[r][i].edge.id>> \in linked
                    /\ reqs[r].ops[i].k = "CREATE" => done[r][i] = 1
  BY Zenon DEF SuccessIsTrue
<1>1. r \in Rids /\ r \in 1..MaxReqs
  BY ReplayAssumption, SMTT(60) DEF Base, Shape, ShapePeer, Rids
<1>2. i \in Ops(r)
  <2>1. reqs \in Seq(Requests)
    BY ZenonT(60) DEF Base, Shape, ShapePeer
  <2>2. reqs[r] \in Requests
    BY <1>1, <2>1, SMTT(60) DEF Rids
  <2>3. reqs[r].ops \in Seq(Operations)
    BY <2>2, Zenon DEF Requests
  <2> QED BY <2>3, SMTT(60) DEF Ops
<1>3. AllHappened(r)
  BY <1>1, ZenonT(60) DEF TruthInv, GotInv
<1> QED BY <1>2, <1>3, Zenon DEF AllHappened, Happened

\* The newest record carries a sequence id the client has used.
LEMMA NewestSeq == Base => SeqsIn
  BY NewestFacts, ZenonT(60) DEF SeqsIn

\* The same in the next state.
LEMMA NewestSeqNext == (Base => SeqsIn)'
  BY NewestSeq, PTL

-----------------------------------------------------------------------------
(* The inductive invariant: the shape of the state, then what travels, what  *)
(* a compound has done, what the records say, and what is true of the names. *)
FileInvs  == WireInv /\ CompoundInv /\ RecordsInv
CoverInvs == TouchedInv /\ CoverInv /\ MemoryInv /\ AheadInv /\ LivesInv
NameInvs  == EdgesInv /\ MeantInv /\ PaidInv /\ NotesInv /\ TruthInv
ReplayInv == Base /\ CallsInv /\ FileInvs /\ CoverInvs /\ NameInvs

\* The initial state satisfies the invariant.
LEMMA ReplayStart == Init => ReplayInv
<1> SUFFICES ASSUME Init PROVE ReplayInv
  BY ZenonT(60)
<1>1. Base /\ CallsInv
  BY BaseInit, CallsInit, Zenon
<1>2. FileInvs
  BY WireInit, CompoundInit, RecordsInit, ZenonT(60) DEF FileInvs
<1>3. CoverInvs
  BY StartCovered, ZenonT(60) DEF CoverInvs
<1>4. NameInvs
  BY EdgesStart, NotesStart, TruthStart, Zenon DEF NameInvs
<1> QED BY <1>1, <1>2, <1>3, <1>4, Zenon DEF ReplayInv

\* Every step of the model keeps the invariant.
LEMMA ReplayKeep ==
  ASSUME ReplayInv, [Next]_vars
  PROVE  ReplayInv'
<1>1. Base /\ CallsInv /\ Base' /\ CallsInv' /\ Step
  BY StepNext, Zenon DEF ReplayInv
<1>2. WireInv /\ CompoundInv /\ RecordsInv
  BY Zenon DEF ReplayInv, FileInvs
<1>3. TouchedInv /\ CoverInv /\ MemoryInv /\ AheadInv /\ LivesInv
  BY ZenonT(60) DEF ReplayInv, CoverInvs
<1>4. EdgesInv /\ MeantInv /\ PaidInv /\ NotesInv /\ TruthInv
  BY Zenon DEF ReplayInv, NameInvs
<1>5. FileInvs'
  BY <1>1, <1>2, WireStep, CompoundStep, RecordsStep, ZenonT(60) DEF FileInvs
<1>6. CoverInvs'
  <2>1. TouchedInv'
    BY <1>1, <1>3, TouchedKept, Zenon
  <2>2. \A s \in Slots : Advances(s)
    BY <1>1, <1>2, AdvancesStep, Zenon
  <2>3. SeqsIn'
    BY <1>1, NewestSeqNext, Zenon
  <2>4. CoverInv'
    BY <1>1, <1>2, <1>3, <2>2, <2>3, CoverStep, Zenon
  <2>5. MemoryInv' /\ AheadInv' /\ LivesInv'
    BY <1>1, <1>2, <1>3, MemoryStep, AheadStep, LivesStep, Zenon
  <2> QED BY <2>1, <2>4, <2>5, Zenon DEF CoverInvs
<1>7. NameInvs'
  <2>1. EdgesInv'
    BY <1>1, <1>4, EdgesKeep, Zenon
  <2>2. MeantInv' /\ PaidInv' /\ NotesInv'
    BY <1>1, <1>2, <1>3, <1>4, MeantKeep, PaidKeep, NotesKeep, Zenon
  <2>3. TruthInv'
    BY <1>1, <1>2, <1>3, <1>4, TruthKeep, ZenonT(60)
  <2> QED BY <2>1, <2>2, <2>3, Zenon DEF NameInvs
<1> QED BY <1>1, <1>5, <1>6, <1>7, Zenon DEF ReplayInv

\* The inductive invariant holds in every reachable state.
THEOREM ReplayInvariant == Spec => []ReplayInv
<1>1. ReplayInv /\ [Next]_vars => ReplayInv'
  BY ReplayKeep, ZenonT(60)
<1> QED BY <1>1, ReplayStart, PTL DEF Spec

\* An operation that took effect did so once.
LEMMA OnceGives ==
  ASSUME Base, MeantInv
  PROVE  AtMostOnce
<1> SUFFICES ASSUME NEW r \in 1..MaxReqs, NEW i \in 1..MaxOps PROVE done[r][i] <= 1
  BY Zenon DEF AtMostOnce
<1>1. done[r][i] \in Nat
  BY ZenonT(60) DEF Base, Shape, ShapeFs
<1>2. done[r][i] > 0 => done[r][i] = 1
  BY Zenon DEF MeantInv
<1> QED BY <1>1, <1>2

\* The shape implies the type invariant.
LEMMA TypeGives ==
  ASSUME Base
  PROVE  TypeOK
<1>1. sess \in {"up", "retired", "unknown", "down"} /\ file \in {"none", "live", "gone", "poisoned"}
  BY ZenonT(60) DEF Base, Shape, ShapeDisk
<1>2. ASSUME NEW s \in Slots
      PROVE  cur[s] \in 0..2
  BY ZenonT(60) DEF Base, Shape, ShapeDisk
<1>3. ASSUME NEW s \in Slots
      PROVE  slots[s].seq \in 0..SeqIds - 1
  <2>1. ~slots[s].occupied => slots[s].seq = 0
    BY ZenonT(60) DEF Base, SlotInv
  <2>2. ASSUME slots[s].occupied
        PROVE  slots[s].seq \in 1..slots[s].rid /\ slots[s].rid \in 1..Len(reqs)
    BY <2>2, ZenonT(60) DEF Base, OwnInv, Of, RequestsInv, Rids
  <2>3. Len(reqs) \in Nat /\ Len(reqs) <= MaxReqs
    BY SMTT(60) DEF Base, Shape, ShapePeer
  <2>4. SeqIds \in Nat /\ MaxReqs \in Nat /\ MaxReqs < SeqIds
    BY Bounds, SMTT(60)
  <2>5. CASE slots[s].occupied
    BY <2>2, <2>3, <2>4, <2>5, SMTT(60)
  <2>6. CASE ~slots[s].occupied
    BY <2>1, <2>4, <2>6, SMTT(60)
  <2> QED BY <2>5, <2>6, Zenon
<1>4. file = "gone" => ~disk.there
  BY ZenonT(60) DEF Base, FileInv
<1> QED BY <1>1, <1>2, <1>3, <1>4, Zenon DEF TypeOK

\* However often a request is retransmitted, its process killed and the
\* request run again from its intent, each of its operations takes effect in
\* TernFS at most once: replayGate and Decision never repeat what was done.
THEOREM AppliedOnce == Spec => []AtMostOnce
<1>1. ReplayInv => AtMostOnce
  BY OnceGives, Zenon DEF ReplayInv, NameInvs
<1> QED BY <1>1, ReplayInvariant, PTL

\* An OK the client holds is true of the names, whoever gave it: the compound
\* that ran, the reply kept in the slot or restored from disk, or a rerun that
\* found its intent carried out.
THEOREM OkIsTrue == Spec => []SuccessIsTrue
<1>1. ReplayInv => SuccessIsTrue
  BY TruthGives, Zenon DEF ReplayInv, NameInvs
<1> QED BY <1>1, ReplayInvariant, PTL

\* At every instant a kill could come, what an unanswered request did or has
\* submitted is accounted for: the session file is gone, or the newest record
\* of the slot is this request's reply or the intent of that operation.
THEOREM EffectsAccounted == Spec => []IntentCoversEffect
<1>1. ReplayInv => IntentCoversEffect
  BY CoverGives, Zenon DEF ReplayInv, CoverInvs
<1> QED BY <1>1, ReplayInvariant, PTL

\* The session, its file, the areas and the sequence ids keep their types.
THEOREM WellTyped == Spec => []TypeOK
<1>1. ReplayInv => TypeOK
  BY TypeGives, Zenon DEF ReplayInv
<1> QED BY <1>1, ReplayInvariant, PTL

\* No step makes the newest record of a slot an older one: a write goes to the
\* other area and is newer than what it leaves.
THEOREM NewestAdvances == Spec => RecordsAdvance
<1> DEFINE Forward == \A s \in Slots :
          disk'.there /\ NewestArea(s) # 0 =>
             /\ NewestArea(s)' # 0
             /\ LET old == disk.area[s][NewestArea(s)]
                    new == disk'.area[s][NewestArea(s)']
                IN  new = old \/ newer(new, old)
<1>1. ReplayInv /\ [Next]_vars => Forward
  <2> SUFFICES ASSUME ReplayInv, [Next]_vars PROVE Forward
    BY Zenon
  <2>1. \A s \in Slots : Advances(s)
    BY StepNext, AdvancesStep, Zenon DEF ReplayInv, FileInvs
  <2> QED BY <2>1, Zenon DEF Advances, Newest
<1> QED BY <1>1, ReplayInvariant, PTL DEF Spec, RecordsAdvance
=============================================================================
