------------------------------ MODULE NFSReplayTruth ------------------------
(***************************************************************************)
(* What an operation means and whether it happened: an edge that is gone   *)
(* never returns, an operation is given a new payload only while nothing was*)
(* submitted for it, so all its calls, intents and reruns carry one payload,*)
(* of which at most one call can land; and an OK, wherever it is held, is of*)
(* a request all of whose operations have happened.                        *)
(***************************************************************************)
EXTENDS NFSReplayFacts

(* TernFS: what is current is not younger than the clock, and was linked. *)
EdgesInv ==
    \A n \in Names : /\ edges[n].ct <= clock
                     /\ edges[n] # NoEdge => edges[n].id # 0 /\ <<n, edges[n].id>> \in linked

\* A step changes edges as TernFS does, or not at all.
LEMMA EdgesMove ==
  ASSUME Base, CallsInv, Step
  PROVE  \/ EdgesStep
         \/ edges' = edges /\ clock' = clock /\ linked' = linked
<1>1. ASSUME NEW s \in Slots, \/ SendStep(s) \/ RetransmitStep(s) \/ GatesStep(s) \/ DecideStep(s)
                              \/ LookStep(s) \/ PersistStep(s) \/ IWrittenStep(s) \/ SubmitStep(s)
                              \/ NoAnswerStep(s) \/ FinishStep(s) \/ SWrittenStep(s)
      PROVE  edges' = edges /\ clock' = clock /\ linked' = linked
  BY <1>1, Zenon DEF SendStep, RetransmitStep, GatesStep, DecideStep, LookStep, PersistStep, IWrittenStep,
              SubmitStep, NoAnswerStep, FinishStep, SWrittenStep, fsys
<1>2. ASSUME NEW m \in net, StartStep(m) \/ ServeStep(m)
      PROVE  edges' = edges /\ clock' = clock /\ linked' = linked
  BY <1>2, Zenon DEF StartStep, ServeStep, fsys
<1>3. ASSUME NEW c \in calls, LandsStep(c)
      PROVE  EdgesStep \/ (edges' = edges /\ clock' = clock /\ linked' = linked)
  BY <1>3, Zenon DEF LandsStep, LandStep, LandMoves
<1>4. CASE RetireStep \/ CloseStep \/ KillStep \/ RestoreStep \/ UNCHANGED vars
  BY <1>4, Zenon DEF RetireStep, CloseStep, KillStep, RestoreStep, vars, fsys
<1>5. CASE OtherStep
  BY <1>5, Zenon DEF OtherStep
<1> QED BY <1>1, <1>2, <1>3, <1>4, <1>5, Zenon DEF Step

\* An edge that is no longer current never becomes current again.
LEMMA EdgesKeep ==
  ASSUME Base, CallsInv, EdgesInv, Step
  PROVE  /\ EdgesInv' /\ clock \in Nat /\ clock' \in Nat /\ clock' >= clock /\ linked \subseteq linked'
         /\ \A n \in Names : \A e \in EdgeRecs :
               e # NoEdge /\ e.ct <= clock /\ edges[n] # e => edges'[n] # e
<1>1. clock \in Nat /\ edges \in [Names -> EdgeRecs] /\ NoEdge.ct = 0 /\ \A e \in EdgeRecs : e.ct \in Nat
  BY Zenon DEF Base, Shape, ShapeFs, EdgeRecs, NoEdge
<1>2. CASE edges' = edges /\ clock' = clock /\ linked' = linked
  BY <1>1, <1>2 DEF EdgesInv
<1>3. CASE EdgesStep
  <2>1. clock' \in Nat /\ clock' >= clock /\ linked \subseteq linked'
    BY <1>3, Zenon DEF EdgesStep
  <2>2. ASSUME NEW n \in Names
        PROVE  /\ edges'[n].ct <= clock'
               /\ edges'[n] # NoEdge => edges'[n].id # 0 /\ <<n, edges'[n].id>> \in linked'
    <3>1. CASE edges'[n] = edges[n]
      BY <1>1, <2>1, <3>1 DEF EdgesInv
    <3>2. CASE edges'[n] = NoEdge
      BY <1>1, <2>1, <3>2
    <3>3. CASE /\ edges'[n].ct = clock + 1 /\ clock' = clock + 1
               /\ <<n, edges'[n].id>> \in linked'
               /\ \/ edges'[n].id = clock + 1
                  \/ \E o \in Names : edges[o] # NoEdge /\ edges'[n].id = edges[o].id
      <4>1. \A o \in Names : edges[o] # NoEdge => edges[o].id # 0
        BY Zenon DEF EdgesInv
      <4>2. edges'[n].id # 0
        BY <1>1, <3>3, <4>1
      <4>3. edges'[n].ct <= clock'
        BY <1>1, <3>3
      <4> QED BY <3>3, <4>2, <4>3, Zenon
    <3> QED BY <1>3, <3>1, <3>2, <3>3, Zenon DEF EdgesStep
  <2>3. ASSUME NEW n \in Names, NEW e \in EdgeRecs, e # NoEdge, e.ct <= clock, edges[n] # e
        PROVE  edges'[n] # e
    <3>1. edges'[n] = edges[n] \/ edges'[n] = NoEdge \/ edges'[n].ct = clock + 1
      BY <1>3, Zenon DEF EdgesStep
    <3>2. e.ct \in Nat /\ e.ct # clock + 1
      BY <1>1, <2>3
    <3> QED BY <2>3, <3>1, <3>2, Zenon
  <2> QED BY <1>1, <2>1, <2>2, <2>3, Zenon DEF EdgesInv
<1> QED BY <1>2, <1>3, EdgesMove, Zenon

-----------------------------------------------------------------------------
(* An intent is given up for another one only if nothing came of it: the     *)
(* operation has not been submitted and no record is the request's.          *)
Rewrites(s) == PersistStep(s) /\ th[s].intentOp # th[s].op

\* An operation gets a new payload only while nothing was submitted for it.
LEMMA Unused ==
  ASSUME Base, CompoundInv, RecordsInv, AheadInv, NEW s \in Slots, Rewrites(s)
  PROVE  /\ Running(s) /\ th[s].pc = "intent" /\ th[s].replay.op # th[s].op
         /\ ~Touched(th[s].rid, th[s].op)
         /\ disk.there => \A o \in Slots : \A a \in 1..2 :
               disk.area[o][a].kind # "NONE" => disk.area[o][a].rid # th[s].rid
<1>1. Running(s) /\ th[s].pc = "intent" /\ th[s].intentOp # th[s].op
  BY Zenon DEF Rewrites, PersistStep, Running
<1>2. th[s].replay.op # th[s].op
  BY <1>1, Zenon DEF CompoundInv, Compound
<1>3. th[s].op \in 1..MaxOps /\ th[s].rid \in 1..MaxReqs /\ Of(s, th[s].rid, slots[s].seq)
      /\ sess \in {"up", "retired"}
  BY <1>1, RunningFacts, Zenon
<1>4. ~Touched(th[s].rid, th[s].op)
  BY <1>1, <1>2, <1>3, Bounds DEF AheadInv, Ahead, Late
<1>5. ASSUME disk.there, NEW o \in Slots, NEW a \in 1..2, disk.area[o][a].kind # "NONE",
             disk.area[o][a].rid = th[s].rid
      PROVE  FALSE
  <2>1. Of(o, disk.area[o][a].rid, disk.area[o][a].seq)
    BY <1>5, Zenon DEF Base, AreaInv
  <2>2. o = s /\ disk.area[s][a].seq = slots[s].seq
    BY <1>3, <1>5, <2>1, Zenon DEF Of
  <2>3. NewestArea(s) # 0
    BY <1>5, <2>2, NewestFacts, Zenon
  <2>4. disk.area[s][a].seq <= Newest(s).seq /\ NewestArea(s) \in 1..2
        /\ Newest(s).kind # "NONE" /\ Newest(s).seq \in 1..MaxReqs
    BY <1>5, <2>2, <2>3, NewestFacts, Zenon
  <2>5. Newest(s).seq <= slots[s].seq
    BY <1>3, <1>5, <2>4, Zenon DEF RecordsInv, Rows, Newest
  <2>6. slots[s].seq \in 1..MaxReqs
    BY <1>3, SeqRange, Zenon
  <2>7. Current(s)
    BY <2>2, <2>3, <2>4, <2>5, <2>6, Bounds DEF Current
  <2> QED BY <1>1, <1>5, <2>7, Zenon DEF RecordsInv, Held
<1> QED BY <1>1, <1>2, <1>4, <1>5, Zenon

\* Noting one payload leaves the others alone.
LEMMA MeantWrite ==
  ASSUME meant \in [1..MaxReqs -> [1..MaxOps -> Pays \cup {NoPay}]], NEW r \in 1..MaxReqs, NEW i \in 1..MaxOps,
         NEW p, meant' = [meant EXCEPT ![r][i] = p]
  PROVE  /\ meant'[r][i] = p
         /\ \A q \in 1..MaxReqs : \A j \in 1..MaxOps : q # r \/ j # i => meant'[q][j] = meant[q][j]
<1> DEFINE y == [meant[r] EXCEPT ![i] = p]
<1>1. meant' = [meant EXCEPT ![r] = y]
  BY Zenon
<1>2. y[i] = p /\ \A j \in 1..MaxOps : j # i => y[j] = meant[r][j]
  BY Zenon
<1> HIDE DEF y
<1>3. meant'[r] = y /\ \A q \in 1..MaxReqs : q # r => meant'[q] = meant[q]
  BY <1>1, Zenon
<1> QED BY <1>2, <1>3, Zenon

\* Only persistIntent changes what an operation means.
LEMMA MeantMove ==
  ASSUME Base, CallsInv, Step, NEW r \in 1..MaxReqs, NEW i \in 1..MaxOps
  PROVE  \/ meant'[r][i] = meant[r][i]
         \/ \E s \in Slots : Rewrites(s) /\ r = th[s].rid /\ i = th[s].op /\ meant'[r][i] = th[s].pay
<1>1. ASSUME NEW s \in Slots, PersistStep(s)
      PROVE  \/ meant'[r][i] = meant[r][i]
             \/ Rewrites(s) /\ r = th[s].rid /\ i = th[s].op /\ meant'[r][i] = th[s].pay
  <2>1. meant' = meant \/ (Rewrites(s) /\ Means(s))
    BY <1>1, Zenon DEF PersistStep, Rewrites
  <2>2. Running(s)
    BY <1>1, Zenon DEF PersistStep, Running
  <2>3. th[s].rid \in 1..MaxReqs /\ th[s].op \in 1..MaxOps
    BY <2>2, RunningFacts, Zenon
  <2>4. meant \in [1..MaxReqs -> [1..MaxOps -> Pays \cup {NoPay}]]
    BY Zenon DEF Base, Shape, ShapeFs
  <2>5. CASE Rewrites(s) /\ Means(s)
    BY <2>3, <2>4, <2>5, MeantWrite, SMTT(60) DEF Means
  <2> QED BY <2>1, <2>5, Zenon
<1>2. ASSUME NEW s \in Slots, \/ SendStep(s) \/ RetransmitStep(s) \/ GatesStep(s) \/ DecideStep(s)
                              \/ LookStep(s) \/ IWrittenStep(s) \/ SubmitStep(s)
                              \/ NoAnswerStep(s) \/ FinishStep(s) \/ SWrittenStep(s)
      PROVE  meant' = meant
  BY <1>2, Zenon DEF SendStep, RetransmitStep, GatesStep, DecideStep, LookStep, IWrittenStep,
              SubmitStep, NoAnswerStep, FinishStep, SWrittenStep, fsys
<1>3. ASSUME NEW m \in net, StartStep(m) \/ ServeStep(m)
      PROVE  meant' = meant
  BY <1>3, Zenon DEF StartStep, ServeStep, fsys
<1>4. ASSUME NEW c \in calls, LandsStep(c)
      PROVE  meant' = meant
  BY <1>4, Zenon DEF LandsStep, LandStep
<1>5. CASE RetireStep \/ CloseStep \/ KillStep \/ RestoreStep \/ OtherStep \/ UNCHANGED vars
  BY <1>5, Zenon DEF RetireStep, CloseStep, KillStep, RestoreStep, OtherStep, vars, fsys
<1> QED BY <1>1, <1>2, <1>3, <1>4, <1>5, Zenon DEF Step

\* An operation takes effect only by a call that lands.
LEMMA DoneMove ==
  ASSUME Base, CallsInv, Step, NEW r \in 1..MaxReqs, NEW i \in 1..MaxOps
  PROVE  \/ done'[r][i] = done[r][i]
         \/ \E c \in calls : /\ LandsStep(c) /\ Lands(c) /\ c.rid = r /\ c.pay.op = i
                             /\ done'[r][i] = done[r][i] + 1
<1>1. ASSUME NEW c \in calls, LandsStep(c)
      PROVE  \/ done'[r][i] = done[r][i]
             \/ Lands(c) /\ c.rid = r /\ c.pay.op = i /\ done'[r][i] = done[r][i] + 1
  <2>1. /\ Lands(c) => done' = [done EXCEPT ![c.rid][c.pay.op] = @ + 1]
        /\ ~Lands(c) => done' = done
    BY <1>1, Zenon DEF LandsStep, LandStep
  <2>2. c.rid \in 1..MaxReqs /\ c.pay.op \in 1..MaxOps
    BY CallRange, Zenon
  <2>3. done \in [1..MaxReqs -> [1..MaxOps -> Nat]]
    BY Zenon DEF Base, Shape, ShapeFs
  <2>4. CASE Lands(c)
    BY <2>1, <2>2, <2>3, <2>4, DoneStep, SMTT(60)
  <2> QED BY <2>1, <2>4, Zenon
<1>2. ASSUME NEW s \in Slots, \/ SendStep(s) \/ RetransmitStep(s) \/ GatesStep(s) \/ DecideStep(s)
                              \/ LookStep(s) \/ PersistStep(s) \/ IWrittenStep(s) \/ SubmitStep(s)
                              \/ NoAnswerStep(s) \/ FinishStep(s) \/ SWrittenStep(s)
      PROVE  done' = done
  BY <1>2, Zenon DEF SendStep, RetransmitStep, GatesStep, DecideStep, LookStep, PersistStep, IWrittenStep,
              SubmitStep, NoAnswerStep, FinishStep, SWrittenStep, fsys
<1>3. ASSUME NEW m \in net, StartStep(m) \/ ServeStep(m)
      PROVE  done' = done
  BY <1>3, Zenon DEF StartStep, ServeStep, fsys
<1>4. CASE RetireStep \/ CloseStep \/ KillStep \/ RestoreStep \/ OtherStep \/ UNCHANGED vars
  BY <1>4, Zenon DEF RetireStep, CloseStep, KillStep, RestoreStep, OtherStep, vars, fsys
<1> QED BY <1>1, <1>2, <1>3, <1>4, Zenon DEF Step

(* What an operation meant, and what came of it. *)
Dated(p) == p.edge.ct <= clock /\ (p.k # "CREATE" => p.edge.id # 0)

Suits(r, i, p) ==
    /\ r \in Rids /\ i \in Ops(r) /\ p \in Pays /\ p.op = i
    /\ p.k = reqs[r].ops[i].k /\ p.from = reqs[r].ops[i].from /\ p.to = reqs[r].ops[i].to
    /\ Dated(p)

MeantInv ==
    \A r \in 1..MaxReqs : \A i \in 1..MaxOps :
        /\ meant[r][i] # NoPay => Suits(r, i, meant[r][i])
        /\ done[r][i] > 0 =>
             /\ meant[r][i] # NoPay /\ done[r][i] = 1
             /\ meant[r][i].k # "CREATE" => edges[meant[r][i].from] # meant[r][i].edge

PaidInv ==
    \A c \in calls :
        /\ c.pay = meant[c.rid][c.pay.op]
        /\ c.pay.k = "CREATE" =>
             /\ ~(done[c.rid][c.pay.op] > 0)
             /\ \A d \in calls : d.rid = c.rid /\ d.pay.op = c.pay.op => d = c

Notes(s) ==
    /\ Running(s) => slots[s].intent = NoPay
    /\ slots[s].intent # NoPay => /\ slots[s].intent.op \in 1..MaxOps
                                  /\ slots[s].intent = meant[slots[s].rid][slots[s].intent.op]
    /\ disk.there => \A a \in 1..2 : disk.area[s][a].kind = "INTENT" =>
         /\ disk.area[s][a].val.op \in 1..MaxOps
         /\ disk.area[s][a].val = meant[disk.area[s][a].rid][disk.area[s][a].val.op]
    /\ Running(s) /\ th[s].replay # NoPay => /\ th[s].replay.op \in 1..MaxOps
                                             /\ th[s].replay = meant[th[s].rid][th[s].replay.op]
    /\ th[s].pc = "intent" => Dated(th[s].pay)
    /\ th[s].pc \in {"iwrite", "submit", "wait"} => th[s].pay = meant[th[s].rid][th[s].op]

NotesInv == \A s \in Slots : Notes(s)

\* The fields of a payload and of no edge.
LEMMA EdgeFacts ==
  /\ NoEdge.id = 0 /\ NoEdge.ct = 0
  /\ \A p \in Pays : p.edge \in EdgeRecs /\ p.edge.ct \in Nat /\ p.from \in Names /\ p.to \in Names
                     /\ p.k \in {"REMOVE", "RENAME", "CREATE"} /\ p # NoPay
  BY DEF NoEdge, Pays, EdgeRecs, NoPay

\* A payload goes on suiting its operation.
LEMMA SuitsKeep ==
  ASSUME Base, CallsInv, EdgesInv, Step, NEW r \in 1..MaxReqs, NEW i \in 1..MaxOps, NEW p, Suits(r, i, p)
  PROVE  Suits(r, i, p)'
<1>1. clock \in Nat /\ clock' \in Nat /\ clock' >= clock /\ p.edge.ct \in Nat
  BY EdgesKeep, EdgeFacts, Zenon DEF Suits
<1>2. r \in Rids /\ r \in Rids' /\ reqs'[r] = reqs[r]
  BY RequestsKept, Zenon DEF Suits
<1> QED BY <1>1, <1>2 DEF Suits, Dated, Ops

\* A call that lands is the first of its operation to do so.
LEMMA LandsOnce ==
  ASSUME Base, CallsInv, EdgesInv, MeantInv, PaidInv, NEW c \in calls, LandsStep(c), Lands(c)
  PROVE  /\ ~(done[c.rid][c.pay.op] > 0) /\ c.pay = meant[c.rid][c.pay.op]
         /\ Suits(c.rid, c.pay.op, c.pay)
         /\ c.pay.k # "CREATE" => edges'[c.pay.from] # c.pay.edge
         /\ c.pay.k = "RENAME" => <<c.pay.to, c.pay.edge.id>> \in linked'
<1>1. c.rid \in 1..MaxReqs /\ c.pay.op \in 1..MaxOps /\ c.pay \in Pays
  BY CallRange, Zenon
<1>2. c.pay = meant[c.rid][c.pay.op]
  BY Zenon DEF PaidInv
<1>3. Suits(c.rid, c.pay.op, c.pay)
  BY <1>1, <1>2, EdgeFacts, Zenon DEF MeantInv
<1>4. ~(done[c.rid][c.pay.op] > 0)
  <2>1. CASE c.pay.k = "CREATE"
    BY <2>1, Zenon DEF PaidInv
  <2>2. CASE c.pay.k # "CREATE"
    <3>1. edges[c.pay.from] = c.pay.edge
      BY <2>2, Zenon DEF Lands
    <3> QED BY <1>1, <1>2, <2>2, <3>1, ZenonT(60) DEF MeantInv
  <2> QED BY <2>1, <2>2, Zenon
<1>5. LandMoves(c)
  BY Zenon DEF LandsStep
<1>6. c.pay.k # "CREATE" => edges'[c.pay.from] # c.pay.edge
  <2> SUFFICES ASSUME c.pay.k # "CREATE" PROVE edges'[c.pay.from] # c.pay.edge
    BY Zenon
  <2>1. edges'[c.pay.from] = NoEdge \/ edges'[c.pay.from].ct = clock + 1
    BY <1>5, Zenon DEF LandMoves
  <2>2. c.pay.edge.id # 0 /\ c.pay.edge.ct <= clock /\ c.pay.edge.ct \in Nat /\ clock \in Nat
    BY <1>1, <1>3, EdgeFacts, Zenon DEF Suits, Dated, Base, Shape, ShapeFs
  <2>3. c.pay.edge.ct # clock + 1
    BY <2>2
  <2> QED BY <2>1, <2>2, <2>3, EdgeFacts, Zenon
<1> QED BY <1>2, <1>3, <1>4, <1>5, <1>6, Zenon DEF LandMoves

\* Every step keeps what is known of the payloads that took effect.
LEMMA MeantKeep ==
  ASSUME Base, Base', CallsInv, CompoundInv, RecordsInv, AheadInv, EdgesInv, MeantInv, PaidInv, NotesInv, Step
  PROVE  MeantInv'
<1> SUFFICES ASSUME NEW r \in 1..MaxReqs, NEW i \in 1..MaxOps
             PROVE  /\ meant'[r][i] # NoPay => Suits(r, i, meant[r][i])'
                    /\ done'[r][i] > 0 =>
                         /\ meant'[r][i] # NoPay /\ done'[r][i] = 1
                         /\ meant'[r][i].k # "CREATE" => edges'[meant'[r][i].from] # meant'[r][i].edge
  BY Zenon DEF MeantInv
<1>1. ASSUME meant'[r][i] = meant[r][i]
      PROVE  /\ meant'[r][i] # NoPay => Suits(r, i, meant[r][i])'
             /\ done'[r][i] > 0 =>
                  /\ meant'[r][i] # NoPay /\ done'[r][i] = 1
                  /\ meant'[r][i].k # "CREATE" => edges'[meant'[r][i].from] # meant'[r][i].edge
  <2>1. meant[r][i] # NoPay => Suits(r, i, meant[r][i])
    BY Zenon DEF MeantInv
  <2>2. ASSUME meant[r][i] # NoPay
        PROVE  Suits(r, i, meant[r][i])'
    <3>1. ASSUME NEW p, p = meant[r][i]
          PROVE  (Suits(r, i, p))'
      BY <2>1, <2>2, <3>1, SuitsKeep, Zenon
    <3>2. PICK p : p = meant[r][i]
      BY Zenon
    <3>3. Suits(r, i, p)'
      BY <3>1, <3>2, Zenon
    <3> QED BY <1>1, <3>2, <3>3, Zenon DEF Suits, Dated
  <2>3. CASE done'[r][i] = done[r][i]
    <3>1. ASSUME done[r][i] > 0
          PROVE  /\ meant[r][i] # NoPay /\ done[r][i] = 1
                 /\ meant[r][i].k # "CREATE" => edges'[meant[r][i].from] # meant[r][i].edge
      <4>1. /\ meant[r][i] # NoPay /\ done[r][i] = 1
            /\ meant[r][i].k # "CREATE" => edges[meant[r][i].from] # meant[r][i].edge
        BY <3>1, Zenon DEF MeantInv
      <4>2. /\ meant[r][i] \in Pays /\ meant[r][i].edge.ct <= clock
            /\ meant[r][i].k # "CREATE" => meant[r][i].edge.id # 0
        BY <2>1, <4>1, Zenon DEF Suits, Dated
      <4>3. meant[r][i].from \in Names /\ meant[r][i].edge \in EdgeRecs
        BY <4>2, EdgeFacts, Zenon
      <4>4. meant[r][i].k # "CREATE" => meant[r][i].edge # NoEdge
        BY <4>2, EdgeFacts, Zenon
      <4> QED BY <4>1, <4>2, <4>3, <4>4, EdgesKeep, Zenon
    <3> QED BY <1>1, <2>2, <2>3, <3>1, Zenon
  <2>4. ASSUME NEW c \in calls, LandsStep(c), Lands(c), c.rid = r, c.pay.op = i,
               done'[r][i] = done[r][i] + 1
        PROVE  /\ meant'[r][i] # NoPay /\ done'[r][i] = 1
               /\ meant'[r][i].k # "CREATE" => edges'[meant'[r][i].from] # meant'[r][i].edge
    <3>1. /\ ~(done[r][i] > 0) /\ c.pay = meant[r][i] /\ c.pay \in Pays
          /\ c.pay.k # "CREATE" => edges'[c.pay.from] # c.pay.edge
      BY <2>4, LandsOnce, CallRange, Zenon
    <3>2. done[r][i] \in Nat
      BY ZenonT(60) DEF Base, Shape, ShapeFs
    <3>3. done'[r][i] = 1
      BY <2>4, <3>1, <3>2
    <3> QED BY <1>1, <3>1, <3>3, EdgeFacts, Zenon
  <2> QED BY <1>1, <2>2, <2>3, <2>4, DoneMove
<1>2. ASSUME NEW s \in Slots, Rewrites(s), r = th[s].rid, i = th[s].op, meant'[r][i] = th[s].pay
      PROVE  meant'[r][i] # NoPay /\ Suits(r, i, meant[r][i])' /\ ~(done'[r][i] > 0)
  <2>1. Running(s) /\ th[s].pc = "intent" /\ ~Touched(r, i)
    BY <1>2, Unused, Zenon
  <2>2. PaysFor(s) /\ Dated(th[s].pay)
    BY <2>1, Zenon DEF Base, SlotInv, Paid, NotesInv, Notes
  <2>3. r \in Rids /\ i \in Ops(r) /\ reqs' = reqs /\ clock' = clock /\ done' = done
    BY <1>2, <2>1, RunningFacts, Zenon DEF Rewrites, PersistStep, peer
  <2>4. ~(done[r][i] > 0)
    BY <2>1, Zenon DEF Touched
  <2>5. th[s].pay # NoPay /\ Suits(r, i, th[s].pay)
    BY <1>2, <2>2, <2>3, EdgeFacts, Zenon DEF PaysFor, Suits, Op
  <2>6. Rids' = Rids /\ Ops(r)' = Ops(r)
    BY <2>3, Zenon DEF Rids, Ops
  <2> QED BY <1>2, <2>3, <2>4, <2>5, <2>6, Zenon DEF Suits, Dated
<1> QED BY <1>1, <1>2, MeantMove, Zenon

\* Every call carries the payload its operation means.
LEMMA PaidKeep ==
  ASSUME Base, Base', CallsInv, CompoundInv, RecordsInv, AheadInv, PaidInv, NotesInv, Step
  PROVE  PaidInv'
<1>1. ASSUME NEW s \in Slots, th[s].pc = "submit", Op(s).k = "CREATE"
      PROVE  ~Touched(th[s].rid, th[s].op) /\ Running(s)
  <2>1. Running(s)
    BY <1>1, Zenon DEF Running
  <2>2. th[s].rid \in 1..MaxReqs /\ th[s].op \in 1..MaxOps /\ th[s].op \in Nat
    BY <2>1, RunningFacts, Zenon
  <2>3. th[s].replay.op # th[s].op
    BY <1>1, <2>1, Zenon DEF CompoundInv, Compound
  <2> QED BY <1>1, <2>1, <2>2, <2>3 DEF AheadInv, Ahead, Late
<1>2. ASSUME NEW c \in calls, c \in calls'
      PROVE  /\ c.pay = meant'[c.rid][c.pay.op]
             /\ c.pay.k = "CREATE" =>
                  /\ ~(done'[c.rid][c.pay.op] > 0)
                  /\ \A d \in calls' : d.rid = c.rid /\ d.pay.op = c.pay.op => d = c
  <2>1. c.rid \in 1..MaxReqs /\ c.pay.op \in 1..MaxOps /\ Touched(c.rid, c.pay.op)
    BY CallRange, Zenon DEF Touched
  <2>2. meant'[c.rid][c.pay.op] = meant[c.rid][c.pay.op]
    BY <2>1, MeantMove, Unused, Zenon
  <2>3. ASSUME c.pay.k = "CREATE"
        PROVE  ~(done'[c.rid][c.pay.op] > 0)
    <3>1. ASSUME NEW d \in calls, LandsStep(d), d.rid = c.rid, d.pay.op = c.pay.op
          PROVE  FALSE
      <4>1. d = c
        BY <2>3, <3>1, Zenon DEF PaidInv
      <4> QED BY <1>2, <3>1, <4>1, Zenon DEF LandsStep, LandStep
    <3>2. done'[c.rid][c.pay.op] = done[c.rid][c.pay.op]
      BY <2>1, <3>1, DoneMove
    <3> QED BY <2>3, <3>2, Zenon DEF PaidInv
  <2>4. ASSUME c.pay.k = "CREATE", NEW d \in calls', d.rid = c.rid, d.pay.op = c.pay.op
        PROVE  d = c
    <3>1. CASE d \in calls
      BY <2>4, <3>1, Zenon DEF PaidInv
    <3>2. CASE d \notin calls
      <4>1. PICK s \in Slots : SubmitStep(s) /\ Running(s) /\ d.rid = th[s].rid /\ d.pay = th[s].pay
        BY <3>2, NewCall, Zenon
      <4>2. th[s].pc = "submit" /\ th[s].pay.op = th[s].op
        BY <4>1, Zenon DEF SubmitStep, Base, SlotInv, Paid, PaysFor
      <4>3. Op(s).k = c.pay.k /\ Touched(th[s].rid, th[s].op)
        BY <2>1, <2>4, <4>1, <4>2, Zenon DEF CallsInv, Op
      <4> QED BY <1>1, <2>4, <4>2, <4>3, Zenon
    <3> QED BY <3>1, <3>2, Zenon
  <2> QED BY <2>2, <2>3, <2>4, Zenon DEF PaidInv
<1>3. ASSUME NEW c \in calls', c \notin calls
      PROVE  /\ c.pay = meant'[c.rid][c.pay.op]
             /\ c.pay.k = "CREATE" =>
                  /\ ~(done'[c.rid][c.pay.op] > 0)
                  /\ \A d \in calls' : d.rid = c.rid /\ d.pay.op = c.pay.op => d = c
  <2>1. PICK s \in Slots : /\ SubmitStep(s) /\ c = CallOf(s) /\ Running(s) /\ c.rid = th[s].rid
                           /\ c.pay = th[s].pay
    BY <1>3, NewCall, Zenon
  <2>2. /\ th[s].pc = "submit" /\ th[s].pay.op = th[s].op /\ th[s].pay.k = Op(s).k
        /\ meant' = meant /\ done' = done /\ calls' = calls \cup {CallOf(s)}
    BY <2>1, ZenonT(60) DEF SubmitStep, Base, SlotInv, Paid, PaysFor
  <2>3. c.pay = meant[c.rid][c.pay.op]
    BY <2>1, <2>2, ZenonT(60) DEF NotesInv, Notes
  <2>4. c.pay.k = "CREATE" => ~Touched(c.rid, c.pay.op)
    BY <1>1, <2>1, <2>2, Zenon
  <2>5. c.pay.k = "CREATE" => ~(done[c.rid][c.pay.op] > 0)
                              /\ \A d \in calls : ~(d.rid = c.rid /\ d.pay.op = c.pay.op)
    BY <2>4, Zenon DEF Touched
  <2> QED BY <2>1, <2>2, <2>3, <2>5, Zenon
<1> QED BY <1>2, <1>3, Zenon DEF PaidInv

(* What a step may change of what was meant by a slot's requests. *)
LEMMA MeantSlot ==
  ASSUME Base, CallsInv, Step, NEW s \in Slots, NEW r \in 1..MaxReqs, NEW q, Of(s, r, q), NEW i \in 1..MaxOps
  PROVE  \/ meant'[r][i] = meant[r][i]
         \/ Rewrites(s) /\ r = th[s].rid /\ i = th[s].op /\ meant'[r][i] = th[s].pay
<1>1. ASSUME NEW o \in Slots, Rewrites(o), r = th[o].rid
      PROVE  o = s
  <2>1. Running(o)
    BY <1>1, Zenon DEF Rewrites, PersistStep, Running
  <2>2. Of(o, th[o].rid, slots[o].seq)
    BY <2>1, RunningFacts, Zenon
  <2> QED BY <1>1, <2>2, Zenon DEF Of
<1> QED BY <1>1, MeantMove

(* What a step may put in an area. *)
LEMMA AreaStep ==
  ASSUME Base, CallsInv, Step, NEW s \in Slots, NEW a \in 1..2
  PROVE  \/ disk'.area[s][a] = disk.area[s][a]
         \/ disk'.area[s][a] = NoRec
         \/ IWrittenStep(s) /\ disk'.area[s][a] = IntentOf(s)
         \/ SWrittenStep(s) /\ disk'.area[s][a] = SlotOf(s)
<1>1. ASSUME NEW o \in Slots, NEW rec \in DiskRecs, disk' = [disk EXCEPT !.area[o][Target(o)] = rec]
      PROVE  disk'.area[s][a] = disk.area[s][a] \/ (o = s /\ disk'.area[s][a] = rec)
  BY <1>1, DiskWrite DEF Base, Shape
<1>2. CASE disk'.area = disk.area
  BY <1>2, Zenon
<1>3. ASSUME NEW o \in Slots, GatesStep(o)
      PROVE  disk'.area = disk.area
  BY <1>3, InvalidatedRows, Zenon DEF GatesStep
<1>4. ASSUME NEW o \in Slots, PersistStep(o) \/ FinishStep(o)
      PROVE  disk'.area[s][a] = disk.area[s][a] \/ disk'.area[s][a] = NoRec
  <2>1. disk' = disk \/ BeginWrite(o)
    BY <1>4, Zenon DEF PersistStep, FinishStep
  <2> QED BY <1>1, <2>1, RecShape, Zenon DEF BeginWrite
<1>5. ASSUME NEW o \in Slots, IWrittenStep(o)
      PROVE  disk'.area[s][a] = disk.area[s][a] \/ (o = s /\ disk'.area[s][a] = IntentOf(o))
  <2>1. IntentOf(o) \in DiskRecs
    BY <1>5, IntentShape, Zenon DEF IWrittenStep, DiskRecs
  <2> QED BY <1>1, <1>5, <2>1, InvalidatedRows, Zenon DEF IWrittenStep, EndWrite
<1>6. ASSUME NEW o \in Slots, SWrittenStep(o)
      PROVE  disk'.area[s][a] = disk.area[s][a] \/ (o = s /\ disk'.area[s][a] = SlotOf(o))
  <2>1. SlotOf(o) \in DiskRecs
    BY <1>6, SlotRecShape, Zenon DEF SWrittenStep, DiskRecs, Running
  <2> QED BY <1>1, <1>6, <2>1, InvalidatedRows, Zenon DEF SWrittenStep, EndWrite
<1>7. ASSUME NEW o \in Slots, \/ SendStep(o) \/ RetransmitStep(o) \/ DecideStep(o)
                              \/ LookStep(o) \/ SubmitStep(o) \/ NoAnswerStep(o)
      PROVE  disk'.area = disk.area
  BY <1>7, Zenon DEF SendStep, RetransmitStep, DecideStep, LookStep, SubmitStep, NoAnswerStep
<1>8. ASSUME NEW m \in net, StartStep(m) \/ ServeStep(m)
      PROVE  disk'.area = disk.area
  BY <1>8, Zenon DEF StartStep, ServeStep
<1>9. ASSUME NEW c \in calls, LandsStep(c)
      PROVE  disk'.area = disk.area
  BY <1>9, Zenon DEF LandsStep, LandStep
<1>10. CASE RetireStep \/ CloseStep \/ KillStep \/ RestoreStep \/ OtherStep \/ UNCHANGED vars
  <2>1. disk'.area = disk.area
    BY <1>10, Zenon DEF RetireStep, CloseStep, KillStep, RestoreStep, OtherStep, vars
  <2> QED BY <1>2, <2>1, Zenon
<1> QED BY <1>2, <1>3, <1>4, <1>5, <1>6, <1>7, <1>8, <1>9, <1>10, Zenon DEF Step

\* A slot loses its intent, keeps it, or has it restored from disk.
LEMMA IntentSteps ==
  ASSUME Base, Base', CallsInv, Step, NEW s \in Slots
  PROVE  \/ slots'[s].intent = NoPay
         \/ /\ slots'[s].intent = slots[s].intent /\ slots'[s].rid = slots[s].rid
            /\ Running(s)' => Running(s)
         \/ disk.there /\ Restored(s) /\ ~Running(s)'
<1> DEFINE Kept == /\ slots'[s].intent = slots[s].intent /\ slots'[s].rid = slots[s].rid
                   /\ Running(s)' => Running(s)
<1>1. ASSUME NEW o \in Slots, FinishStep(o) \/ SWrittenStep(o)
      PROVE  Kept
  <2>1. SlotsKept(o) /\ (Moves(o) \/ Leaves(o)) /\ Running(o)
    BY <1>1, Zenon DEF FinishStep, SWrittenStep, Running
  <2> QED BY <2>1, Zenon DEF SlotsKept, KeepIds, Moves, Leaves, Running
<1>2. ASSUME NEW m \in net, StartStep(m)
      PROVE  slots'[s].intent = NoPay \/ Kept
  BY <1>2, Zenon DEF StartStep, Running
<1>3. ASSUME NEW o \in Slots, \/ GatesStep(o) \/ DecideStep(o) \/ LookStep(o) \/ PersistStep(o)
                              \/ IWrittenStep(o) \/ SubmitStep(o) \/ NoAnswerStep(o)
      PROVE  Kept
  BY <1>3, InnerSteps, Zenon DEF Inner
<1>4. ASSUME NEW o \in Slots, SendStep(o) \/ RetransmitStep(o)
      PROVE  Kept
  BY <1>4, Zenon DEF SendStep, RetransmitStep, mem, Running
<1>5. ASSUME NEW m \in net, ServeStep(m)
      PROVE  Kept
  BY <1>5, Zenon DEF ServeStep, mem, Running
<1>6. ASSUME NEW c \in calls, LandsStep(c)
      PROVE  Kept
  BY <1>6, InnerSteps, Zenon DEF Inner
<1>7. CASE KillStep
  BY <1>7, Zenon DEF KillStep
<1>8. CASE RetireStep \/ CloseStep \/ OtherStep \/ UNCHANGED vars
  BY <1>8, Zenon DEF RetireStep, CloseStep, OtherStep, KeepIds, vars, mem, Running
<1>9. CASE RestoreStep
  BY <1>9, Zenon DEF RestoreStep, Base, SlotInv, Running
<1> QED BY <1>1, <1>2, <1>3, <1>4, <1>5, <1>6, <1>7, <1>8, <1>9, Zenon DEF Step, Kept

\* A slot's intent is what its operation means.
LEMMA NotesSlot ==
  ASSUME Base, Base', CallsInv, NotesInv, Step, NEW s \in Slots
  PROVE  /\ Running(s)' => slots'[s].intent = NoPay
         /\ slots'[s].intent # NoPay => /\ slots'[s].intent.op \in 1..MaxOps
                                        /\ slots'[s].intent = meant'[slots'[s].rid][slots'[s].intent.op]
<1>1. Notes(s)
  BY Zenon DEF NotesInv
<1>2. CASE slots'[s].intent = NoPay
  BY <1>2, Zenon
<1>3. CASE /\ slots'[s].intent = slots[s].intent /\ slots'[s].rid = slots[s].rid
           /\ Running(s)' => Running(s)
  <2>1. Running(s)' => slots'[s].intent = NoPay
    BY <1>1, <1>3, Zenon DEF Notes
  <2>2. ASSUME slots[s].intent # NoPay
        PROVE  /\ slots[s].intent.op \in 1..MaxOps
               /\ slots[s].intent = meant'[slots[s].rid][slots[s].intent.op]
    <3>1. Of(s, slots[s].rid, slots[s].seq)
      BY <2>2, Zenon DEF Base, SlotInv, OwnInv
    <3>2. slots[s].rid \in 1..MaxReqs
      BY <3>1, SeqRange, Zenon
    <3>3. ~Rewrites(s)
      BY <1>1, <2>2, Zenon DEF Notes, Rewrites, PersistStep, Running
    <3>4. slots[s].intent.op \in 1..MaxOps /\ slots[s].intent = meant[slots[s].rid][slots[s].intent.op]
      BY <1>1, <2>2, Zenon DEF Notes
    <3> QED BY <3>1, <3>2, <3>3, <3>4, MeantSlot, Zenon
  <2> QED BY <1>3, <2>1, <2>2, Zenon
<1>4. CASE disk.there /\ Restored(s) /\ ~Running(s)'
  <2>1. CASE NewestArea(s) # 0 /\ disk.area[s][NewestArea(s)].kind = "INTENT"
    <3>1. /\ slots'[s].rid = Newest(s).rid /\ slots'[s].intent = Newest(s).val
          /\ NewestArea(s) \in 1..2 /\ Newest(s) = disk.area[s][NewestArea(s)]
      BY <1>4, <2>1, Zenon DEF Restored, Newest
    <3>2. Newest(s).val.op \in 1..MaxOps /\ Newest(s).val = meant[Newest(s).rid][Newest(s).val.op]
      BY <1>1, <1>4, <2>1, <3>1, Zenon DEF Notes
    <3>3. Of(s, Newest(s).rid, Newest(s).seq)
      BY <2>1, NewestFacts, Zenon
    <3>4. Newest(s).rid \in 1..MaxReqs
      BY <3>3, SeqRange, Zenon
    <3>5. ~Rewrites(s)
      <4>1. slots[s].inUse => ~slots'[s].inUse
        BY <1>4, Zenon DEF Restored
      <4>2. Rewrites(s) => Running(s) /\ slots' = slots
        BY Zenon DEF Rewrites, PersistStep, Running
      <4> QED BY <4>1, <4>2, RunningFacts, Zenon
    <3>6. ASSUME NEW r \in 1..MaxReqs, NEW q, Of(s, r, q), NEW i \in 1..MaxOps
          PROVE  meant'[r][i] = meant[r][i]
      BY <3>5, <3>6, MeantSlot, Zenon
    <3>7. meant'[Newest(s).rid][Newest(s).val.op] = meant[Newest(s).rid][Newest(s).val.op]
      BY <3>2, <3>3, <3>4, <3>6, Zenon
    <3> QED BY <1>4, <3>1, <3>2, <3>7, Zenon
  <2>2. CASE ~(NewestArea(s) # 0 /\ disk.area[s][NewestArea(s)].kind = "INTENT")
    <3>1. NewestArea(s) # 0 => Newest(s).kind \in {"INTENT", "SLOT"}
      BY NewestFacts, Zenon
    <3>2. slots'[s].intent = NoPay
      BY <1>4, <2>2, <3>1, SMTT(60) DEF Restored, Newest
    <3> QED BY <3>2, Zenon
  <2> QED BY <2>1, <2>2, Zenon
<1> QED BY <1>2, <1>3, <1>4, IntentSteps, Zenon

\* An intent on disk is what its operation means.
LEMMA NotesArea ==
  ASSUME Base, Base', CallsInv, CompoundInv, RecordsInv, AheadInv, NotesInv, Step, NEW s \in Slots,
         NEW a \in 1..2, disk'.there, disk'.area[s][a].kind = "INTENT"
  PROVE  /\ disk'.area[s][a].val.op \in 1..MaxOps
         /\ disk'.area[s][a].val = meant'[disk'.area[s][a].rid][disk'.area[s][a].val.op]
<1>1. Notes(s) /\ disk.there
  BY DiskShrinks, Zenon DEF NotesInv
<1>2. CASE disk'.area[s][a] = disk.area[s][a]
  <2> DEFINE rec == disk.area[s][a]
  <2>1. rec.val.op \in 1..MaxOps /\ rec.val = meant[rec.rid][rec.val.op]
    BY <1>1, <1>2, Zenon DEF Notes
  <2>2. Of(s, rec.rid, rec.seq)
    BY <1>2, Zenon DEF Base, AreaInv
  <2>3. rec.rid \in 1..MaxReqs
    BY <2>2, SeqRange, Zenon
  <2>4. ~(Rewrites(s) /\ rec.rid = th[s].rid)
    BY <1>1, <1>2, Unused, Zenon
  <2> HIDE DEF rec
  <2>5. rec.val = meant'[rec.rid][rec.val.op]
    BY <2>1, <2>2, <2>3, <2>4, MeantSlot, ZenonT(60)
  <2> QED BY <1>2, <2>1, <2>5, Zenon DEF rec
<1>3. CASE IWrittenStep(s) /\ disk'.area[s][a] = IntentOf(s)
  <2>1. th[s].pc = "iwrite" /\ meant' = meant /\ Running(s)
    BY <1>3, Zenon DEF IWrittenStep, fsys, Running
  <2>2. th[s].pay = meant[th[s].rid][th[s].op] /\ th[s].pay.op = th[s].op /\ th[s].op \in 1..MaxOps
    BY <1>1, <2>1, RunningFacts, Zenon DEF Notes, Base, SlotInv, Paid, PaysFor
  <2> QED BY <1>3, <2>1, <2>2, IntentShape, ZenonT(60)
<1>4. CASE SWrittenStep(s) /\ disk'.area[s][a] = SlotOf(s)
  <2>1. disk'.area[s][a].kind = "SLOT"
    BY <1>4 DEF SlotOf
  <2> QED BY <2>1, Zenon
<1>5. CASE disk'.area[s][a] = NoRec
  BY <1>5, RecShape, Zenon
<1> QED BY <1>2, <1>3, <1>4, <1>5, AreaStep, Zenon

\* The intent a compound runs with still says what its operation means.
LEMMA ReplayKept ==
  ASSUME Base, CallsInv, CompoundInv, RecordsInv, AheadInv, NotesInv, Step, NEW s \in Slots, Running(s),
         th[s].replay # NoPay
  PROVE  /\ th[s].replay.op \in 1..MaxOps
         /\ th[s].replay = meant'[th[s].rid][th[s].replay.op]
<1>1. th[s].replay.op \in 1..MaxOps /\ th[s].replay = meant[th[s].rid][th[s].replay.op]
  BY Zenon DEF NotesInv, Notes
<1>2. Of(s, th[s].rid, slots[s].seq) /\ th[s].rid \in 1..MaxReqs
  BY RunningFacts, Zenon
<1>3. ~(Rewrites(s) /\ th[s].replay.op = th[s].op)
  BY Unused, Zenon
<1> QED BY <1>1, <1>2, <1>3, MeantSlot, Zenon

\* An edge in a payload stays older than the clock.
LEMMA DatedKept ==
  ASSUME Base, CallsInv, EdgesInv, Step, NEW p \in Pays, Dated(p)
  PROVE  Dated(p)'
<1>1. clock \in Nat /\ clock' \in Nat /\ clock' >= clock /\ p.edge.ct \in Nat
  BY EdgesKeep, EdgeFacts, Zenon
<1> QED BY <1>1 DEF Dated

Promised(s) ==
    /\ th[s].pc = "intent" => Dated(th[s].pay)
    /\ th[s].pc \in {"iwrite", "submit", "wait"} => th[s].pay = meant[th[s].rid][th[s].op]

\* What a compound that does not move is about to submit.
LEMMA PromisedKept ==
  ASSUME Base, CallsInv, EdgesInv, NotesInv, Step, NEW s \in Slots, Running(s), th'[s] = th[s]
  PROVE  Promised(s)'
<1>1. Promised(s)
  BY Zenon DEF NotesInv, Notes, Promised
<1>2. ASSUME th[s].pc = "intent"
      PROVE  Dated(th[s].pay)'
  <2>1. th[s].pay \in Pays /\ Dated(th[s].pay)
    BY <1>1, <1>2, Zenon DEF Promised, Base, SlotInv, Paid, PaysFor
  <2>2. PICK p \in Pays : p = th[s].pay
    BY <2>1, Zenon
  <2>3. Dated(p)'
    BY <2>1, <2>2, DatedKept, Zenon
  <2> QED BY <2>2, <2>3, Zenon DEF Dated
<1>3. ASSUME th[s].pc \in {"iwrite", "submit", "wait"}
      PROVE  th[s].pay = meant'[th[s].rid][th[s].op]
  <2>1. Of(s, th[s].rid, slots[s].seq) /\ th[s].rid \in 1..MaxReqs /\ th[s].op \in 1..MaxOps
    BY RunningFacts, Zenon
  <2>2. ~Rewrites(s)
    BY <1>3, Zenon DEF Rewrites, PersistStep
  <2>3. th[s].pay = meant[th[s].rid][th[s].op]
    BY <1>1, <1>3, Zenon DEF Promised
  <2> QED BY <2>1, <2>2, <2>3, MeantSlot, Zenon
<1> QED BY <1>2, <1>3, Zenon DEF Promised, Dated

\* What a compound has found is about an edge that was current.
LEMMA PromisedLook ==
  ASSUME Base, EdgesInv, NEW s \in Slots, LookStep(s)
  PROVE  Promised(s)'
<1>1. CASE Stops(s)
  BY <1>1, Zenon DEF Stops, Promised
<1>2. CASE ~Stops(s)
  <2>1. /\ th'[s].pc = "intent" /\ th'[s].pay.edge = edges[Op(s).from] /\ clock' = clock
        /\ th'[s].pay.k = Op(s).k /\ (Op(s).k # "CREATE" => edges[Op(s).from] # NoEdge)
        /\ th'[s].pay \in Pays /\ th'[s].pay.from = Op(s).from
    BY <1>2, Zenon DEF LookStep, fsys
  <2>2. Op(s).from \in Names
    BY <2>1, EdgeFacts, Zenon
  <2>3. edges[Op(s).from].ct <= clock /\ (edges[Op(s).from] # NoEdge => edges[Op(s).from].id # 0)
    BY <2>2, Zenon DEF EdgesInv
  <2> QED BY <2>1, <2>3, Zenon DEF Promised, Dated
<1> QED BY <1>1, <1>2, Zenon

\* What a compound has noted is what its operation means.
LEMMA PromisedPersist ==
  ASSUME Base, NotesInv, NEW s \in Slots, PersistStep(s)
  PROVE  Promised(s)'
<1>1. CASE Stops(s)
  BY <1>1, Zenon DEF Stops, Promised
<1>2. CASE ~Stops(s)
  <2>1. /\ th'[s].pc \in {"iwrite", "submit"} /\ th'[s].op = th[s].op /\ th'[s].pay = th[s].pay
        /\ th'[s].rid = th[s].rid /\ th[s].pc = "intent"
        /\ Means(s) \/ (th[s].pay = th[s].replay /\ meant' = meant)
    BY <1>2, Zenon DEF PersistStep, Moves
  <2>2. Running(s) /\ th[s].pay \in Pays /\ th[s].pay.op = th[s].op
    BY <2>1, Zenon DEF Base, SlotInv, Paid, PaysFor, Running
  <2>3. th[s].rid \in 1..MaxReqs /\ th[s].op \in 1..MaxOps
    BY <2>2, RunningFacts, Zenon
  <2>4. th[s].pay = meant'[th[s].rid][th[s].op]
    <3>1. CASE Means(s)
      <4>1. meant \in [1..MaxReqs -> [1..MaxOps -> Pays \cup {NoPay}]]
        BY Zenon DEF Base, Shape, ShapeFs
      <4>2. meant' = [meant EXCEPT ![th[s].rid][th[s].op] = th[s].pay]
        BY <3>1, Zenon DEF Means
      <4>3. PICK r \in 1..MaxReqs, i \in 1..MaxOps, p \in Pays : r = th[s].rid /\ i = th[s].op /\ p = th[s].pay
        BY <2>2, <2>3, Zenon
      <4>4. meant' = [meant EXCEPT ![r][i] = p]
        BY <4>2, <4>3, Zenon
      <4>5. meant'[r][i] = p
        BY <4>1, <4>4, MeantWrite, ZenonT(60)
      <4> QED BY <4>3, <4>5, Zenon
    <3>2. CASE th[s].pay = th[s].replay /\ meant' = meant
      <4>1. th[s].replay # NoPay /\ th[s].replay.op = th[s].op
        BY <2>2, <3>2, EdgeFacts, Zenon
      <4>2. th[s].replay = meant[th[s].rid][th[s].replay.op]
        BY <2>2, <4>1, Zenon DEF NotesInv, Notes
      <4> QED BY <3>2, <4>1, <4>2, Zenon
    <3> QED BY <2>1, <3>1, <3>2, Zenon
  <2> QED BY <2>1, <2>4, Zenon DEF Promised
<1> QED BY <1>1, <1>2, Zenon

\* Every step keeps what a compound is about to submit in order.
LEMMA PromisedStep ==
  ASSUME Base, CallsInv, EdgesInv, NotesInv, Step, NEW s \in Slots, Running(s)'
  PROVE  Promised(s)'
<1>1. Promised(s)
  BY Zenon DEF NotesInv, Notes, Promised
<1>2. CASE th'[s] = th[s]
  <2>1. Running(s)
    BY <1>2, Zenon DEF Running
  <2> QED BY <1>2, <2>1, PromisedKept, Zenon
<1>3. ASSUME th'[s].pc \in {"op", "decide", "look", "finish", "fwrite"}
      PROVE  Promised(s)'
  BY <1>3, Zenon DEF Promised
<1>4. CASE GatesStep(s) \/ DecideStep(s) \/ NoAnswerStep(s)
  BY <1>3, <1>4, Zenon DEF GatesStep, DecideStep, NoAnswerStep, Stops, Goes
<1>5. CASE IWrittenStep(s)
  <2>1. CASE Stops(s)
    BY <1>3, <2>1, Zenon DEF Stops
  <2>2. CASE ~Stops(s)
    BY <1>1, <1>5, <2>2, Zenon DEF IWrittenStep, Moves, fsys, Promised
  <2> QED BY <2>1, <2>2, Zenon
<1>6. CASE SubmitStep(s)
  BY <1>1, <1>6, Zenon DEF SubmitStep, Moves, Promised
<1>7. ASSUME NEW c \in calls, LandsStep(c), Hears(c), c.slot = s
      PROVE  Promised(s)'
  BY <1>3, <1>7, Zenon DEF LandsStep, LandStep, Goes, Stops
<1>8. ASSUME NEW m \in net, StartStep(m), m.slot = s
      PROVE  Promised(s)'
  BY <1>3, <1>8, Zenon DEF StartStep
<1>9. ASSUME th'[s].pc = "fwrite"
      PROVE  Promised(s)'
  BY <1>3, <1>9, Zenon
<1> QED BY <1>2, <1>4, <1>5, <1>6, <1>7, <1>8, <1>9, ThreadSteps, PromisedLook, PromisedPersist, Zenon DEF ThreadStep

\* The intent a compound runs with is what its operation means.
LEMMA ReplayStep ==
  ASSUME Base, Base', CallsInv, CompoundInv, RecordsInv, AheadInv, NotesInv, Step, NEW s \in Slots,
         Running(s)', th'[s].replay # NoPay
  PROVE  /\ th'[s].replay.op \in 1..MaxOps
         /\ th'[s].replay = meant'[th'[s].rid][th'[s].replay.op]
<1>1. ASSUME Running(s), th'[s].rid = th[s].rid, th'[s].replay = th[s].replay
      PROVE  /\ th'[s].replay.op \in 1..MaxOps
             /\ th'[s].replay = meant'[th'[s].rid][th'[s].replay.op]
  BY <1>1, ReplayKept, Zenon
<1>2. ASSUME NEW m \in net, StartStep(m), m.slot = s
      PROVE  /\ th'[s].replay.op \in 1..MaxOps
             /\ th'[s].replay = meant'[th'[s].rid][th'[s].replay.op]
  <2>1. th'[s].replay = slots[s].intent /\ th'[s].rid = slots[s].rid /\ meant' = meant
    BY <1>2, Zenon DEF StartStep, fsys
  <2> QED BY <2>1, Zenon DEF NotesInv, Notes
<1>3. CASE th'[s] = th[s]
  BY <1>1, <1>3, Zenon DEF Running
<1>4. CASE \/ GatesStep(s) \/ DecideStep(s) \/ LookStep(s) \/ PersistStep(s) \/ IWrittenStep(s)
           \/ SubmitStep(s) \/ NoAnswerStep(s) \/ (FinishStep(s) /\ Moves(s))
  <2>1. Moves(s) /\ Running(s)
    BY <1>4, Zenon DEF GatesStep, DecideStep, LookStep, PersistStep, IWrittenStep, SubmitStep, NoAnswerStep,
                FinishStep, Running
  <2> QED BY <1>1, <2>1, Zenon DEF Moves
<1>5. ASSUME NEW c \in calls, LandsStep(c), Hears(c), c.slot = s
      PROVE  /\ th'[s].replay.op \in 1..MaxOps
             /\ th'[s].replay = meant'[th'[s].rid][th'[s].replay.op]
  BY <1>1, <1>5, Zenon DEF LandsStep, LandStep, Moves, Hears, Running
<1> QED BY <1>2, <1>3, <1>4, <1>5, ThreadSteps, Zenon DEF ThreadStep

\* Every step keeps all notes of an operation the same.
LEMMA NotesKeep ==
  ASSUME Base, Base', CallsInv, CompoundInv, RecordsInv, AheadInv, EdgesInv, NotesInv, Step
  PROVE  NotesInv'
<1> SUFFICES ASSUME NEW s \in Slots PROVE Notes(s)'
  BY Zenon DEF NotesInv
<1>1. /\ Running(s)' => slots'[s].intent = NoPay
      /\ slots'[s].intent # NoPay => /\ slots'[s].intent.op \in 1..MaxOps
                                     /\ slots'[s].intent = meant'[slots'[s].rid][slots'[s].intent.op]
  BY NotesSlot, Zenon
<1>2. disk'.there => \A a \in 1..2 : disk'.area[s][a].kind = "INTENT" =>
        /\ disk'.area[s][a].val.op \in 1..MaxOps
        /\ disk'.area[s][a].val = meant'[disk'.area[s][a].rid][disk'.area[s][a].val.op]
  BY NotesArea, Zenon
<1>3. Running(s)' /\ th'[s].replay # NoPay => /\ th'[s].replay.op \in 1..MaxOps
                                              /\ th'[s].replay = meant'[th'[s].rid][th'[s].replay.op]
  BY ReplayStep, Zenon
<1>4. Running(s)' => Promised(s)'
  BY PromisedStep, Zenon
<1>5. th'[s].pc \in {"intent", "iwrite", "submit", "wait"} => Running(s)'
  BY Zenon DEF Running
<1>6. /\ th'[s].pc = "intent" => Dated(th[s].pay)'
      /\ th'[s].pc \in {"iwrite", "submit", "wait"} => th'[s].pay = meant'[th'[s].rid][th'[s].op]
  BY <1>4, <1>5, Zenon DEF Promised
<1> QED BY <1>1, <1>2, <1>3, <1>6, Zenon DEF Notes

-----------------------------------------------------------------------------
(* What an OK says.                                                          *)
Happened(r, i) ==
    /\ reqs[r].ops[i].k \in {"REMOVE", "RENAME"} =>
         meant[r][i] # NoPay /\ edges[reqs[r].ops[i].from] # meant[r][i].edge
    /\ reqs[r].ops[i].k = "RENAME" => <<reqs[r].ops[i].to, meant[r][i].edge.id>> \in linked
    /\ reqs[r].ops[i].k = "CREATE" => done[r][i] = 1

AllHappened(r) == \A i \in Ops(r) : Happened(r, i)

\* The operations of a request are within the bounds.
LEMMA OpsRange ==
  ASSUME Base, NEW r \in Rids, NEW i \in Ops(r)
  PROVE  r \in 1..MaxReqs /\ i \in 1..MaxOps
<1>1. Len(reqs[r].ops) \in 1..MaxOps
  BY Zenon DEF Base, RequestsInv
<1> QED BY <1>1, Bounds DEF Rids, Ops, Base, Shape, ShapePeer

\* What has happened stays so while its meaning stands.
LEMMA HappenedKept ==
  ASSUME Base, CallsInv, EdgesInv, MeantInv, PaidInv, Step, NEW r \in Rids, NEW i \in Ops(r), Happened(r, i),
         meant'[r][i] = meant[r][i]
  PROVE  Happened(r, i)'
<1>1. r \in 1..MaxReqs /\ i \in 1..MaxOps
  BY OpsRange, Zenon
<1>3. reqs'[r] = reqs[r]
  BY RequestsKept, Zenon
<1> DEFINE op == reqs[r].ops[i]
           p  == meant[r][i]
<1>4. ASSUME op.k \in {"REMOVE", "RENAME"}
      PROVE  p # NoPay /\ edges'[op.from] # p.edge
  <2>1. p # NoPay /\ edges[op.from] # p.edge
    BY <1>4, Zenon DEF Happened
  <2>2. Suits(r, i, p)
    BY <1>1, <2>1, Zenon DEF MeantInv
  <2>3. p \in Pays /\ p.from = op.from /\ p.edge.ct <= clock /\ p.edge.id # 0
    BY <1>4, <2>2, Zenon DEF Suits, Dated
  <2> HIDE DEF op, p
  <2>4. p.edge \in EdgeRecs /\ p.edge # NoEdge /\ op.from \in Names
    BY <2>3, EdgeFacts, Zenon
  <2> QED BY <2>1, <2>3, <2>4, EdgesKeep, Zenon
<1>5. ASSUME op.k = "RENAME"
      PROVE  <<op.to, p.edge.id>> \in linked'
  BY <1>5, EdgesKeep, Zenon DEF Happened
<1>6. ASSUME op.k = "CREATE"
      PROVE  done'[r][i] = 1
  <2>1. done[r][i] = 1
    BY <1>6, Zenon DEF Happened
  <2>2. ASSUME NEW c \in calls, LandsStep(c), Lands(c), c.rid = r, c.pay.op = i
        PROVE  FALSE
    <3>1. ~(done[c.rid][c.pay.op] > 0)
      BY <2>2, LandsOnce, Zenon
    <3> QED BY <2>1, <2>2, <3>1
  <2> QED BY <1>1, <2>1, <2>2, DoneMove
<1> QED BY <1>3, <1>4, <1>5, <1>6, Zenon DEF Happened

\* The same for all operations of a request.
LEMMA AllKept ==
  ASSUME Base, CallsInv, EdgesInv, MeantInv, PaidInv, Step, NEW r \in Rids, AllHappened(r),
         \A i \in Ops(r) : meant'[r][i] = meant[r][i]
  PROVE  AllHappened(r)'
<1>1. Ops(r)' = Ops(r)
  BY RequestsKept, Zenon DEF Ops
<1>2. ASSUME NEW i \in Ops(r)
      PROVE  Happened(r, i)'
  BY HappenedKept, Zenon DEF AllHappened
<1> QED BY <1>1, <1>2, Zenon DEF AllHappened

\* An operation that touches no name has nothing to make true.
LEMMA PassedGate ==
  ASSUME Base, NEW s \in Slots, GatesStep(s), Goes(s), NEW r, NEW i, r = th[s].rid, i = th[s].op
  PROVE  Happened(r, i)'
<1>1. ~Protected(Op(s)) /\ reqs' = reqs
  <2>1. th'[s].pc \in {"finish", "op"} /\ ~Stops(s)
    BY Zenon DEF Goes, Stops
  <2> QED BY <2>1, Zenon DEF GatesStep, peer
<1>2. Op(s) = reqs[r].ops[i]
  BY Zenon DEF Op
<1> QED BY <1>1, <1>2, Zenon DEF Happened, Protected

\* An operation decided as applied has taken effect.
LEMMA AppliedBefore ==
  ASSUME Base, CompoundInv, EdgesInv, MeantInv, NotesInv, NEW s \in Slots, DecideStep(s), Goes(s),
         NEW r, NEW i, r = th[s].rid, i = th[s].op
  PROVE  Happened(r, i)'
<1>1. Running(s) /\ Decision(s) = "applied"
  <2>1. th'[s].pc \in {"finish", "op"} /\ ~Stops(s)
    BY Zenon DEF Goes, Stops
  <2> QED BY <2>1, Zenon DEF DecideStep, Running
<1>2. r \in 1..MaxReqs /\ i \in 1..MaxOps /\ Op(s) = reqs[r].ops[i] /\ Op(s).to \in Names
  BY <1>1, RunningFacts, OpShape, Zenon DEF Op
<1> DEFINE p == th[s].replay
<1>3. /\ th[s].pending /\ p.op = i /\ Op(s).k # "CREATE" /\ edges[Op(s).from] # p.edge
      /\ Op(s).k = "REMOVE" \/ edges[Op(s).to].id = p.edge.id
  BY <1>1, Zenon DEF Decision
<1>4. p # NoPay
  BY <1>1, <1>3, PayFacts, Zenon DEF CompoundInv, Compound
<1>5. p = meant[r][i]
  BY <1>1, <1>3, <1>4, Zenon DEF NotesInv, Notes
<1>6. Suits(r, i, p)
  BY <1>2, <1>4, <1>5, Zenon DEF MeantInv
<1>7. p.edge.id # 0
  BY <1>2, <1>3, <1>6, Zenon DEF Suits, Dated
<1> HIDE DEF p
<1>8. Op(s).k = "RENAME" => <<Op(s).to, p.edge.id>> \in linked
  <2>1. Op(s).k = "RENAME" => edges[Op(s).to].id = p.edge.id /\ edges[Op(s).to] # NoEdge
    BY <1>3, <1>7, EdgeFacts, Zenon
  <2> QED BY <1>2, <2>1, Zenon DEF EdgesInv
<1>9. /\ reqs' = reqs /\ meant' = meant /\ edges' = edges /\ linked' = linked /\ done' = done
  BY Zenon DEF DecideStep, fsys, peer
<1> QED BY <1>2, <1>3, <1>4, <1>5, <1>8, <1>9, Zenon DEF Happened

\* An operation whose call succeeds has taken effect.
LEMMA LandedNow ==
  ASSUME Base, Base', CallsInv, LivesInv, EdgesInv, MeantInv, PaidInv, NEW c \in calls, LandsStep(c), Hears(c),
         Goes(c.slot), NEW r, NEW i, r = th[c.slot].rid, i = th[c.slot].op
  PROVE  Happened(r, i)'
<1> DEFINE s == c.slot
<1>1. s \in Slots /\ c \in CallRecs /\ c.rid \in 1..MaxReqs /\ c.pay.op \in 1..MaxOps
  BY CallRange, Zenon
<1>2. th[s].pc = "wait" /\ Running(s) /\ r = c.rid
  BY Zenon DEF Hears, Running
<1>3. c.pay = th[s].pay
  BY HeardCall, Zenon
<1>4. th[s].pay.op = i /\ th[s].pay.k = Op(s).k /\ th[s].pay.from = Op(s).from /\ th[s].pay.to = Op(s).to
  BY <1>1, <1>2, ZenonT(60) DEF Base, SlotInv, Paid, PaysFor
<1>5. Op(s) = reqs[r].ops[i] /\ r \in 1..MaxReqs /\ i \in 1..MaxOps
  BY <1>1, <1>2, RunningFacts, Zenon DEF Op
<1> HIDE DEF s
<1>6. Lands(c)
  BY Zenon DEF LandsStep, LandStep, Goes, Stops
<1>7. /\ ~(done[c.rid][c.pay.op] > 0) /\ c.pay = meant[c.rid][c.pay.op]
      /\ c.pay.k # "CREATE" => edges'[c.pay.from] # c.pay.edge
      /\ c.pay.k = "RENAME" => <<c.pay.to, c.pay.edge.id>> \in linked'
      /\ Suits(c.rid, c.pay.op, c.pay)
  BY <1>6, LandsOnce, Zenon
<1>8. c.pay = meant'[r][i] /\ reqs' = reqs /\ c.pay # NoPay
  BY <1>2, <1>3, <1>4, <1>7, EdgeFacts, Zenon DEF LandsStep, LandStep, peer, Suits
<1>9. done'[r][i] = 1
  <2>1. done \in [1..MaxReqs -> [1..MaxOps -> Nat]] /\ done' = [done EXCEPT ![c.rid][c.pay.op] = @ + 1]
    BY <1>6, Zenon DEF Base, Shape, ShapeFs, LandsStep, LandStep
  <2>2. done'[c.rid][c.pay.op] = done[c.rid][c.pay.op] + 1
    BY <1>1, <2>1, DoneStep, Zenon
  <2>3. done[c.rid][c.pay.op] \in Nat
    BY <1>1, <2>1, Zenon
  <2>4. r = c.rid /\ i = c.pay.op
    BY <1>2, <1>3, <1>4, Zenon
  <2>5. done[c.rid][c.pay.op] = 0
    BY <1>7, <2>3
  <2> QED BY <2>2, <2>4, <2>5
<1> QED BY <1>3, <1>4, <1>5, <1>7, <1>8, <1>9, Zenon DEF Happened

\* A request no compound rewrites keeps its meaning.
LEMMA NotRewritten ==
  ASSUME Base, CallsInv, Step, NEW r \in Rids, \A s \in Slots : Rewrites(s) => r # th[s].rid
  PROVE  \A i \in Ops(r) : meant'[r][i] = meant[r][i]
<1> SUFFICES ASSUME NEW i \in Ops(r) PROVE meant'[r][i] = meant[r][i]
  BY Zenon
<1>1. r \in 1..MaxReqs /\ i \in 1..MaxOps
  BY OpsRange, Zenon
<1> QED BY <1>1, MeantMove, Zenon

\* A compound that runs after a step ran before it or was started by it.
LEMMA RunsOn ==
  ASSUME Base, CallsInv, Step, NEW s \in Slots, Running(s)'
  PROVE  \/ Running(s) /\ th'[s].rid = th[s].rid
         \/ \E m \in net : StartStep(m) /\ m.slot = s
<1>1. CASE th'[s] = th[s]
  BY <1>1, Zenon DEF Running
<1>2. CASE \/ GatesStep(s) \/ DecideStep(s) \/ LookStep(s) \/ PersistStep(s) \/ IWrittenStep(s)
           \/ SubmitStep(s) \/ NoAnswerStep(s) \/ (FinishStep(s) /\ Moves(s))
  <2>1. Moves(s) /\ Running(s)
    BY <1>2, Zenon DEF GatesStep, DecideStep, LookStep, PersistStep, IWrittenStep, SubmitStep, NoAnswerStep,
                FinishStep, Running
  <2> QED BY <2>1, Zenon DEF Moves
<1>3. ASSUME NEW c \in calls, LandsStep(c), Hears(c), c.slot = s
      PROVE  Running(s) /\ th'[s].rid = th[s].rid
  BY <1>3, Zenon DEF LandsStep, LandStep, Moves, Hears, Running
<1> QED BY <1>1, <1>2, <1>3, ThreadSteps, Zenon DEF ThreadStep

(* The client is answered by its compound, or by the slot's saved reply. *)
Answering(s) ==
    /\ client[s].waiting /\ ~client'[s].waiting /\ (\A o \in Slots : o # s => client'[o] = client[o])
    /\ meant' = meant
    /\ \E st : /\ got' = [got EXCEPT ![client[s].rid] = st]
               /\ st = "OK" =>
                    \/ /\ Running(s) /\ ~Running(s)' /\ th[s].rid = client[s].rid
                       /\ th[s].pc \in {"finish", "fwrite"} /\ th[s].status = "OK"
                    \/ /\ ~Running(s) /\ slots[s].occupied /\ slots[s].rid = client[s].rid
                       /\ slots[s].reply = "OK"

\* The client hears an answer, sends a request, or is left alone.
LEMMA GotMoves ==
  ASSUME Base, CallsInv, Step
  PROVE  \/ got' = got /\ client' = client
         \/ got' = got /\ \E s \in Slots : SendStep(s)
         \/ \E s \in Slots : Answering(s)
<1>1. ASSUME NEW s \in Slots, FinishStep(s) \/ SWrittenStep(s)
      PROVE  (got' = got /\ client' = client) \/ Answering(s)
  <2>1. meant' = meant /\ Running(s) /\ th[s].pc \in {"finish", "fwrite"}
    BY <1>1, Zenon DEF FinishStep, SWrittenStep, fsys, Running
  <2>2. CASE Leaves(s)
    <3>1. Answered(s, th[s].rid, th[s].status) /\ ~Running(s)'
      BY <2>2, IdleShape, Zenon DEF Leaves, Running
    <3>2. CASE ~(client' = client /\ got' = got)
      <4>1. /\ client[s].waiting /\ client[s].rid = th[s].rid /\ ~client'[s].waiting
            /\ got' = [got EXCEPT ![client[s].rid] = th[s].status]
            /\ \A o \in Slots : o # s => client'[o] = client[o]
        BY <3>1, <3>2, Zenon DEF Answered
      <4> QED BY <2>1, <3>1, <4>1, Zenon DEF Answering
    <3> QED BY <3>2, Zenon
  <2>3. CASE ~Leaves(s)
    BY <1>1, <2>3, Zenon DEF FinishStep, SWrittenStep
  <2> QED BY <2>2, <2>3, Zenon
<1>2. ASSUME NEW m \in net, ServeStep(m)
      PROVE  (got' = got /\ client' = client) \/ (m.slot \in Slots /\ Answering(m.slot))
  <2>1. PICK st \in Statuses : /\ Answered(m.slot, m.rid, st)
                               /\ \/ Admission(m) = "replay" /\ st = slots[m.slot].reply
                                  \/ Admission(m) \notin {"new", "rerun", "replay", "DELAY"} /\ st # "OK"
    BY <1>2, Zenon DEF ServeStep
  <2>2. m.slot \in Slots /\ meant' = meant
    BY <1>2, Zenon DEF ServeStep, fsys
  <2>3. CASE ~(client' = client /\ got' = got)
    <3>1. /\ client[m.slot].waiting /\ client[m.slot].rid = m.rid /\ ~client'[m.slot].waiting
          /\ got' = [got EXCEPT ![client[m.slot].rid] = st]
          /\ \A o \in Slots : o # m.slot => client'[o] = client[o]
      BY <2>1, <2>3, Zenon DEF Answered
    <3>2. ASSUME st = "OK"
          PROVE  /\ ~Running(m.slot) /\ slots[m.slot].occupied /\ slots[m.slot].rid = m.rid
                 /\ slots[m.slot].reply = "OK"
      <4>1. Admission(m) = "replay" /\ slots[m.slot].reply = "OK"
        BY <2>1, <3>2, Zenon
      <4>2. slots[m.slot].occupied /\ ~slots[m.slot].inUse /\ slots[m.slot].rid = m.rid
        BY <4>1, AdmissionFacts, Zenon
      <4> QED BY <2>2, <4>1, <4>2, RunningFacts, Zenon
    <3> QED BY <2>2, <3>1, <3>2, Zenon DEF Answering
  <2> QED BY <2>2, <2>3, Zenon
<1>3. ASSUME NEW s \in Slots, \/ RetransmitStep(s) \/ GatesStep(s) \/ DecideStep(s)
                              \/ LookStep(s) \/ PersistStep(s) \/ IWrittenStep(s) \/ SubmitStep(s)
                              \/ NoAnswerStep(s)
      PROVE  got' = got /\ client' = client
  BY <1>3, Zenon DEF RetransmitStep, GatesStep, DecideStep, LookStep, PersistStep, IWrittenStep,
              SubmitStep, NoAnswerStep, peer
<1>4. ASSUME NEW s \in Slots, SendStep(s)
      PROVE  got' = got
  BY <1>4, Zenon DEF SendStep
<1>5. ASSUME NEW m \in net, StartStep(m)
      PROVE  got' = got /\ client' = client
  BY <1>5, Zenon DEF StartStep, peer
<1>6. ASSUME NEW c \in calls, LandsStep(c)
      PROVE  got' = got /\ client' = client
  BY <1>6, Zenon DEF LandsStep, LandStep, peer
<1>7. CASE RetireStep \/ CloseStep \/ KillStep \/ RestoreStep \/ OtherStep \/ UNCHANGED vars
  BY <1>7, Zenon DEF RetireStep, CloseStep, KillStep, RestoreStep, OtherStep, vars, peer
<1> QED BY <1>1, <1>2, <1>3, <1>4, <1>5, <1>6, <1>7, Zenon DEF Step

(* An OK is true of the names: the one the client holds, the one a compound  *)
(* has earned so far, the saved one and the recorded one.                    *)
Known(s) ==
    /\ client[s].waiting => client[s].rid \in 1..MaxReqs /\ got[client[s].rid] = "none"
    /\ Running(s) => got[th[s].rid] # "OK"

Earned(s) ==
    /\ Running(s) => \A r \in 1..MaxReqs : \A i \in 1..MaxOps :
         r = th[s].rid /\ i < th[s].op => Happened(r, i)
    /\ th[s].pc \in {"finish", "fwrite"} /\ th[s].status = "OK" =>
         \A r \in 1..MaxReqs : r = th[s].rid => AllHappened(r)

Kept(s) ==
    /\ slots[s].occupied /\ slots[s].reply = "OK" =>
         \A r \in 1..MaxReqs : r = slots[s].rid => AllHappened(r)
    /\ disk.there => \A a \in 1..2 : disk.area[s][a].kind = "SLOT" /\ disk.area[s][a].val = "OK" =>
         \A r \in 1..MaxReqs : r = disk.area[s][a].rid => AllHappened(r)

GotInv ==
    \A r \in 1..MaxReqs :
        /\ got[r] = "OK" => r \in Rids /\ AllHappened(r)
        /\ r \notin Rids => got[r] = "none"

TruthInv == GotInv /\ \A s \in Slots : Known(s) /\ Earned(s) /\ Kept(s)

\* A client that waits does so for a request it sent on that slot.
LEMMA WaitsFor ==
  ASSUME Base, NEW s \in Slots, client[s].waiting
  PROVE  Of(s, client[s].rid, client[s].seq) /\ client[s].rid \in 1..MaxReqs /\ client[s].rid \in Rids
<1>1. Of(s, client[s].rid, client[s].seq)
  BY Zenon DEF Base, ClientsInv
<1> QED BY <1>1, SeqRange, Zenon DEF Of

\* An OK the client hears comes from its compound or from the kept reply.
LEMMA GotAt ==
  ASSUME Base, NEW s \in Slots, Answering(s), NEW r \in 1..MaxReqs
  PROVE  \/ got'[r] = got[r]
         \/ /\ r = client[s].rid
            /\ got'[r] = "OK" =>
                 \/ /\ Running(s) /\ ~Running(s)' /\ th[s].rid = r
                    /\ th[s].pc \in {"finish", "fwrite"} /\ th[s].status = "OK"
                 \/ ~Running(s) /\ slots[s].occupied /\ slots[s].rid = r /\ slots[s].reply = "OK"
<1>1. PICK st : /\ got' = [got EXCEPT ![client[s].rid] = st]
                /\ st = "OK" =>
                     \/ /\ Running(s) /\ ~Running(s)' /\ th[s].rid = client[s].rid
                        /\ th[s].pc \in {"finish", "fwrite"} /\ th[s].status = "OK"
                     \/ /\ ~Running(s) /\ slots[s].occupied /\ slots[s].rid = client[s].rid
                        /\ slots[s].reply = "OK"
  BY Zenon DEF Answering
<1>2. got \in [1..MaxReqs -> Statuses \cup {"none"}]
  BY Zenon DEF Base, Shape, ShapePeer
<1>3. r = client[s].rid => got'[r] = st
  BY <1>1, <1>2, Zenon
<1>4. r # client[s].rid => got'[r] = got[r]
  BY <1>1, <1>2, Zenon
<1> QED BY <1>1, <1>3, <1>4, Zenon

\* Every step keeps the OKs the client holds true.
LEMMA GotKeep ==
  ASSUME Base, Base', CallsInv, EdgesInv, MeantInv, PaidInv, TruthInv, Step
  PROVE  GotInv'
<1> SUFFICES ASSUME NEW r \in 1..MaxReqs
             PROVE  /\ got'[r] = "OK" => r \in Rids' /\ AllHappened(r)'
                    /\ r \notin Rids' => got'[r] = "none"
  BY Zenon DEF GotInv
<1>1. Rids \subseteq Rids'
  BY RequestsKept, Zenon
<1>2. CASE got'[r] = got[r]
  <2>1. r \notin Rids' => got'[r] = "none"
    BY <1>1, <1>2, Zenon DEF TruthInv, GotInv
  <2>2. ASSUME got[r] = "OK"
        PROVE  r \in Rids /\ AllHappened(r)'
    <3>1. r \in Rids /\ AllHappened(r)
      BY <2>2, Zenon DEF TruthInv, GotInv
    <3>2. ASSUME NEW s \in Slots, Rewrites(s)
          PROVE  r # th[s].rid
      <4>1. Running(s)
        BY <3>2, Zenon DEF Rewrites, PersistStep, Running
      <4> QED BY <2>2, <4>1, Zenon DEF TruthInv, Known
    <3>3. \A i \in Ops(r) : meant'[r][i] = meant[r][i]
      BY <3>1, <3>2, NotRewritten, Zenon
    <3> QED BY <3>1, <3>3, AllKept, Zenon
  <2> QED BY <1>1, <1>2, <2>1, <2>2, Zenon
<1>3. CASE got'[r] # got[r]
  <2>1. PICK s \in Slots : Answering(s)
    BY <1>3, GotMoves, Zenon
  <2>2. /\ r = client[s].rid
        /\ got'[r] = "OK" =>
             \/ th[s].rid = r /\ th[s].pc \in {"finish", "fwrite"} /\ th[s].status = "OK"
             \/ slots[s].occupied /\ slots[s].rid = r /\ slots[s].reply = "OK"
    BY <1>3, <2>1, GotAt, Zenon
  <2>3. r \in Rids
    BY <2>1, <2>2, WaitsFor, Zenon DEF Answering
  <2>4. ASSUME got'[r] = "OK"
        PROVE  AllHappened(r)'
    <3>1. AllHappened(r)
      BY <2>2, <2>4, Zenon DEF TruthInv, Earned, Kept
    <3>2. \A i \in Ops(r) : meant'[r][i] = meant[r][i]
      BY <2>1, Zenon DEF Answering
    <3> QED BY <2>3, <3>1, <3>2, AllKept, Zenon
  <2> QED BY <1>1, <2>3, <2>4, Zenon
<1> QED BY <1>2, <1>3, Zenon

\* Every step keeps a request that runs without an answer.
LEMMA KnownKeep ==
  ASSUME Base, Base', CallsInv, WireInv, TruthInv, Step, NEW s \in Slots
  PROVE  Known(s)'
<1>1. Known(s)
  BY Zenon DEF TruthInv
<1>2. ASSUME client'[s].waiting
      PROVE  client'[s].rid \in 1..MaxReqs /\ got'[client'[s].rid] = "none"
  <2>1. ASSUME got' = got, client'[s] = client[s]
        PROVE  client'[s].rid \in 1..MaxReqs /\ got'[client'[s].rid] = "none"
    BY <1>1, <1>2, <2>1, Zenon DEF Known
  <2>2. ASSUME got' = got, NEW o \in Slots, SendStep(o)
        PROVE  client'[s].rid \in 1..MaxReqs /\ got'[client'[s].rid] = "none"
    <3>1. CASE o # s
      BY <2>1, <2>2, <3>1, Zenon DEF SendStep
    <3>2. CASE o = s
      <4>1. client'[s].rid = Len(reqs) + 1 /\ Len(reqs') = Len(reqs) + 1
        BY <2>2, <3>2, Zenon DEF SendStep
      <4>2. Len(reqs) \in Nat /\ Len(reqs') <= MaxReqs
        BY DEF Base, Shape, ShapePeer
      <4>3. client'[s].rid \in 1..MaxReqs /\ client'[s].rid \notin Rids
        BY <4>1, <4>2, Bounds DEF Rids
      <4> QED BY <2>2, <4>3, Zenon DEF TruthInv, GotInv
    <3> QED BY <3>1, <3>2, Zenon
  <2>3. ASSUME NEW o \in Slots, Answering(o)
        PROVE  client'[s].rid \in 1..MaxReqs /\ got'[client'[s].rid] = "none"
    <3>1. o # s /\ client'[s] = client[s] /\ client[o].waiting
      BY <1>2, <2>3, Zenon DEF Answering
    <3>2. Of(s, client[s].rid, client[s].seq) /\ Of(o, client[o].rid, client[o].seq)
          /\ client[s].rid \in 1..MaxReqs
      BY <1>2, <3>1, WaitsFor, Zenon
    <3>3. client[s].rid # client[o].rid
      BY <3>1, <3>2, Zenon DEF Of
    <3>4. got'[client[s].rid] = got[client[s].rid]
      BY <2>3, <3>2, <3>3, GotAt, Zenon
    <3> QED BY <1>1, <1>2, <3>1, <3>2, <3>4, Zenon DEF Known
  <2> QED BY <2>1, <2>2, <2>3, GotMoves, Zenon
<1>3. ASSUME Running(s)'
      PROVE  got'[th'[s].rid] # "OK"
  <2>1. ASSUME NEW m \in net, StartStep(m), m.slot = s
        PROVE  got'[th'[s].rid] # "OK"
    <3>1. m.rid = client[s].rid /\ client[s].waiting
      BY <2>1, StartsWaiting, Zenon
    <3>2. got' = got /\ th'[s].rid = m.rid
      BY <2>1, Zenon DEF StartStep, peer
    <3>3. got[client[s].rid] = "none"
      BY <1>1, <3>1, Zenon DEF Known
    <3> QED BY <3>1, <3>2, <3>3, Zenon
  <2>2. ASSUME Running(s), th'[s].rid = th[s].rid
        PROVE  got'[th'[s].rid] # "OK"
    <3>1. got[th[s].rid] # "OK" /\ th[s].rid \in 1..MaxReqs /\ Of(s, th[s].rid, slots[s].seq)
      BY <1>1, <2>2, RunningFacts, Zenon DEF Known
    <3>2. ASSUME NEW o \in Slots, Answering(o), got'[th[s].rid] = "OK"
          PROVE  FALSE
      <4>1. /\ th[s].rid = client[o].rid
            /\ \/ Running(o) /\ ~Running(o)'
               \/ ~Running(o)
        BY <3>1, <3>2, GotAt, Zenon
      <4>2. Of(o, client[o].rid, client[o].seq)
        BY <3>2, WaitsFor, Zenon DEF Answering
      <4>3. o = s
        BY <3>1, <4>1, <4>2, Zenon DEF Of
      <4> QED BY <1>3, <2>2, <4>1, <4>3, Zenon
    <3> QED BY <2>2, <3>1, <3>2, GotMoves, Zenon
  <2> QED BY <1>3, <2>1, <2>2, RunsOn, Zenon
<1> QED BY <1>2, <1>3, Zenon DEF Known

\* A compound goes past an operation only when that has happened.
LEMMA Progress ==
  ASSUME Base, Base', CallsInv, CompoundInv, LivesInv, EdgesInv, MeantInv, PaidInv, NotesInv, Step,
         NEW s \in Slots, Running(s)'
  PROVE  \/ \E m \in net : StartStep(m) /\ m.slot = s
         \/ /\ Running(s) /\ th'[s].rid = th[s].rid
            /\ \/ /\ th'[s].op = th[s].op
                  /\ th'[s].pc \in {"finish", "fwrite"} /\ th'[s].status = "OK" =>
                       th[s].pc \in {"finish", "fwrite"} /\ th[s].status = "OK"
               \/ Goes(s) /\ \A r, i : r = th[s].rid /\ i = th[s].op => Happened(r, i)'
<1> DEFINE Waits == /\ th'[s].op = th[s].op
                    /\ th'[s].pc \in {"finish", "fwrite"} /\ th'[s].status = "OK" =>
                         th[s].pc \in {"finish", "fwrite"} /\ th[s].status = "OK"
           Does  == Goes(s) /\ \A r, i : r = th[s].rid /\ i = th[s].op => Happened(r, i)'
<1>1. Stops(s) => Waits
  BY Zenon DEF Stops
<1>2. ASSUME th'[s] = th[s]
      PROVE  Waits \/ Does
  BY <1>2, Zenon
<1>3. ASSUME GatesStep(s)
      PROVE  Waits \/ Does
  <2>1. CASE Goes(s)
    BY <1>3, <2>1, PassedGate, Zenon
  <2>2. CASE ~Goes(s)
    <3>1. Stops(s) \/ (th'[s].pc = "decide" /\ th'[s].op = th[s].op)
      BY <1>3, <2>2, Zenon DEF GatesStep
    <3> QED BY <1>1, <3>1, Zenon
  <2> QED BY <2>1, <2>2, Zenon
<1>4. ASSUME DecideStep(s)
      PROVE  Waits \/ Does
  <2>1. CASE Goes(s)
    BY <1>4, <2>1, AppliedBefore, Zenon
  <2>2. CASE ~Goes(s)
    <3>1. Stops(s) \/ (th'[s].pc = "look" /\ th'[s].op = th[s].op)
      BY <1>4, <2>2, Zenon DEF DecideStep
    <3> QED BY <1>1, <3>1, Zenon
  <2> QED BY <2>1, <2>2, Zenon
<1>5. ASSUME LookStep(s) \/ PersistStep(s) \/ IWrittenStep(s) \/ SubmitStep(s) \/ NoAnswerStep(s)
      PROVE  Waits \/ Does
  <2>1. Stops(s) \/ (th'[s].pc \in {"intent", "iwrite", "submit", "wait"} /\ th'[s].op = th[s].op)
    BY <1>5, Zenon DEF LookStep, PersistStep, IWrittenStep, SubmitStep, NoAnswerStep
  <2> QED BY <1>1, <2>1, Zenon
<1>6. ASSUME FinishStep(s) /\ th'[s].op = th[s].op /\ th'[s].status = th[s].status
      PROVE  Waits \/ Does
  BY <1>6, Zenon DEF FinishStep
<1>7. ASSUME NEW c \in calls, LandsStep(c), Hears(c), c.slot = s
      PROVE  Waits \/ Does
  <2>1. CASE Goes(s)
    BY <1>7, <2>1, LandedNow, Zenon
  <2>2. CASE ~Goes(s)
    <3>1. Stops(s)
      BY <1>7, <2>2, Zenon DEF LandsStep, LandStep
    <3> QED BY <1>1, <3>1, Zenon
  <2> QED BY <2>1, <2>2, Zenon
<1>8. CASE \E m \in net : StartStep(m) /\ m.slot = s
  BY <1>8, Zenon
<1>9. CASE ~\E m \in net : StartStep(m) /\ m.slot = s
  <2>1. Waits \/ Does
    BY <1>2, <1>3, <1>4, <1>5, <1>6, <1>7, <1>9, ThreadSteps, Zenon DEF ThreadStep
  <2>2. Running(s) /\ th'[s].rid = th[s].rid
    BY <1>9, RunsOn, Zenon
  <2> QED BY <2>1, <2>2, Zenon
<1> QED BY <1>8, <1>9, Zenon

\* Every step keeps the operations a compound has passed true.
LEMMA EarnedKeep ==
  ASSUME Base, Base', CallsInv, CompoundInv, LivesInv, EdgesInv, MeantInv, PaidInv, NotesInv, TruthInv, Step,
         NEW s \in Slots
  PROVE  Earned(s)'
<1>1. Earned(s)
  BY Zenon DEF TruthInv
<1> SUFFICES ASSUME Running(s)', NEW r \in 1..MaxReqs, r = th'[s].rid
             PROVE  /\ \A i \in 1..MaxOps : i < th'[s].op => Happened(r, i)'
                    /\ th'[s].pc \in {"finish", "fwrite"} /\ th'[s].status = "OK" => AllHappened(r)'
  <2>1. th'[s].pc \in {"finish", "fwrite"} => Running(s)'
    BY Zenon DEF Running
  <2> QED BY <2>1, Zenon DEF Earned
<1>2. ASSUME NEW m \in net, StartStep(m), m.slot = s
      PROVE  /\ \A i \in 1..MaxOps : i < th'[s].op => Happened(r, i)'
             /\ th'[s].pc \in {"finish", "fwrite"} /\ th'[s].status = "OK" => AllHappened(r)'
  <2>1. th'[s].op = 1 /\ th'[s].pc = "op"
    BY <1>2, Zenon DEF StartStep
  <2> QED BY <2>1, Bounds
<1>3. ASSUME Running(s), r = th[s].rid
      PROVE  \A i \in 1..MaxOps : i < th[s].op => Happened(r, i)'
  <2> SUFFICES ASSUME NEW i \in 1..MaxOps, i < th[s].op PROVE Happened(r, i)'
    BY Zenon
  <2>1. /\ r \in Rids /\ th[s].op \in Ops(r) /\ Of(s, r, slots[s].seq) /\ th[s].op \in 1..MaxOps
    BY <1>3, RunningFacts, Zenon
  <2>2. i \in Ops(r)
    <3>1. MaxOps \in Nat /\ th[s].op \in 1..Len(reqs[r].ops)
      BY <2>1, Bounds, Zenon DEF Ops
    <3> QED BY <2>1, <3>1, SMTT(60) DEF Ops
  <2>3. i # th[s].op
    BY <2>1, Bounds
  <2>4. meant'[r][i] = meant[r][i]
    BY <2>1, <2>3, MeantSlot, ZenonT(60)
  <2>5. Happened(r, i)
    BY <1>1, <1>3, Zenon DEF Earned
  <2> QED BY <2>1, <2>2, <2>4, <2>5, HappenedKept, Zenon
<1>4. ASSUME Running(s), r = th[s].rid, th'[s].op = th[s].op,
             th'[s].pc \in {"finish", "fwrite"} /\ th'[s].status = "OK" =>
               th[s].pc \in {"finish", "fwrite"} /\ th[s].status = "OK"
      PROVE  /\ \A i \in 1..MaxOps : i < th'[s].op => Happened(r, i)'
             /\ th'[s].pc \in {"finish", "fwrite"} /\ th'[s].status = "OK" => AllHappened(r)'
  <2>1. ASSUME th[s].pc \in {"finish", "fwrite"}, th[s].status = "OK"
        PROVE  AllHappened(r)'
    <3>1. AllHappened(r)
      BY <1>1, <1>4, <2>1, Zenon DEF Earned
    <3>2. r \in Rids /\ Of(s, r, slots[s].seq)
      BY <1>4, RunningFacts, Zenon
    <3>3. ASSUME NEW o \in Slots, Rewrites(o)
          PROVE  r # th[o].rid
      <4>1. Running(o) /\ th[o].pc = "intent"
        BY <3>3, Zenon DEF Rewrites, PersistStep, Running
      <4>2. Of(o, th[o].rid, slots[o].seq)
        BY <4>1, RunningFacts, Zenon
      <4> QED BY <2>1, <3>2, <4>1, <4>2, Zenon DEF Of
    <3>4. \A i \in Ops(r) : meant'[r][i] = meant[r][i]
      BY <3>2, <3>3, NotRewritten, Zenon
    <3> QED BY <3>1, <3>2, <3>4, AllKept, Zenon
  <2> QED BY <1>3, <1>4, <2>1, Zenon
<1>5. ASSUME Running(s), r = th[s].rid, Goes(s), \A q, i : q = th[s].rid /\ i = th[s].op => Happened(q, i)'
      PROVE  /\ \A i \in 1..MaxOps : i < th'[s].op => Happened(r, i)'
             /\ th'[s].pc \in {"finish", "fwrite"} /\ th'[s].status = "OK" => AllHappened(r)'
  <2>1. /\ r \in Rids /\ th[s].op \in Ops(r) /\ th[s].op \in 1..MaxOps
    BY <1>5, RunningFacts, Zenon
  <2>2. ASSUME NEW i \in 1..MaxOps, i <= th[s].op
        PROVE  Happened(r, i)'
    <3>1. i < th[s].op \/ i = th[s].op
      BY <2>1, <2>2, Bounds
    <3> QED BY <1>3, <1>5, <3>1, Zenon
  <2>3. CASE th'[s].pc = "op" /\ th'[s].op = th[s].op + 1
    <3>1. ASSUME NEW i \in 1..MaxOps, i < th'[s].op
          PROVE  i <= th[s].op
      BY <2>1, <2>3, <3>1, Bounds
    <3> QED BY <2>2, <2>3, <3>1, Zenon
  <2>4. CASE th'[s].pc = "finish" /\ th'[s].op = th[s].op /\ Final(s)
    <3>1. th[s].op = Len(reqs[r].ops) /\ Len(reqs[r].ops) \in Nat
      BY <1>5, <2>4, OpShape, Zenon
    <3>2. ASSUME NEW i \in Ops(r)
          PROVE  Happened(r, i)'
      <4>1. i \in 1..MaxOps /\ i <= th[s].op
        BY <2>1, <3>1, OpsRange DEF Ops
      <4> QED BY <2>2, <4>1, Zenon
    <3>3. Ops(r)' = Ops(r)
      BY <2>1, RequestsKept, Zenon DEF Ops
    <3>4. AllHappened(r)'
      BY <3>2, <3>3, Zenon DEF AllHappened
    <3> QED BY <1>3, <1>5, <2>4, <3>4, Zenon
  <2> QED BY <1>5, <2>3, <2>4, Zenon DEF Goes
<1> QED BY <1>2, <1>4, <1>5, Progress, Zenon

\* A kept OK is from before, from finish, or restored from disk.
LEMMA ReplySteps ==
  ASSUME Base, CallsInv, Step, NEW s \in Slots, slots'[s].occupied, slots'[s].reply = "OK"
  PROVE  \/ slots[s].occupied /\ slots[s].reply = "OK" /\ slots'[s].rid = slots[s].rid
         \/ FinishStep(s) /\ Saved(s) = "OK" /\ slots'[s].rid = slots[s].rid
         \/ disk.there /\ Restored(s) /\ meant' = meant
<1> DEFINE Same_ == slots[s].occupied /\ slots[s].reply = "OK" /\ slots'[s].rid = slots[s].rid
<1>1. ASSUME NEW o \in Slots, FinishStep(o) \/ SWrittenStep(o)
      PROVE  Same_ \/ (FinishStep(s) /\ Saved(s) = "OK" /\ slots'[s].rid = slots[s].rid)
  <2>1. SlotsKept(o)
    BY <1>1, Zenon DEF FinishStep, SWrittenStep
  <2>2. slots'[s].rid = slots[s].rid /\ slots[s].occupied
    BY <2>1, Zenon DEF SlotsKept, KeepIds
  <2>3. CASE o # s
    BY <2>1, <2>2, <2>3, Zenon DEF SlotsKept
  <2>4. CASE o = s
    BY <1>1, <2>2, <2>4, Zenon DEF FinishStep, SWrittenStep
  <2> QED BY <2>3, <2>4, Zenon
<1>2. ASSUME NEW m \in net, StartStep(m)
      PROVE  Same_
  BY <1>2, Zenon DEF StartStep
<1>3. CASE slots' = slots
  BY <1>3, Zenon
<1>4. ASSUME NEW o \in Slots, \/ GatesStep(o) \/ DecideStep(o) \/ LookStep(o) \/ PersistStep(o)
                              \/ IWrittenStep(o) \/ SubmitStep(o) \/ NoAnswerStep(o)
                              \/ SendStep(o) \/ RetransmitStep(o)
      PROVE  slots' = slots
  BY <1>4, InnerSteps, Zenon DEF Inner, SendStep, RetransmitStep, mem
<1>5. ASSUME NEW m \in net, ServeStep(m)
      PROVE  slots' = slots
  BY <1>5, Zenon DEF ServeStep, mem
<1>6. ASSUME NEW c \in calls, LandsStep(c)
      PROVE  slots' = slots
  BY <1>6, Zenon DEF LandsStep, LandStep
<1>7. CASE KillStep \/ RetireStep
  BY <1>7, Zenon DEF KillStep, RetireStep
<1>8. CASE CloseStep \/ OtherStep \/ UNCHANGED vars
  BY <1>3, <1>8, Zenon DEF CloseStep, OtherStep, vars, mem
<1>9. CASE RestoreStep
  BY <1>3, <1>9, Zenon DEF RestoreStep, fsys
<1> QED BY <1>1, <1>2, <1>3, <1>4, <1>5, <1>6, <1>7, <1>8, <1>9, Zenon DEF Step

\* What finish saves as OK has happened.
LEMMA SavedOk ==
  ASSUME TruthInv, NEW s \in Slots, th[s].pc \in {"finish", "fwrite"}, Saved(s) = "OK",
         NEW r \in 1..MaxReqs, r = th[s].rid
  PROVE  AllHappened(r)
<1>1. th[s].status = "OK"
  BY Zenon DEF Saved
<1> QED BY <1>1, Zenon DEF TruthInv, Earned

\* Every step keeps the OKs in slots and on disk true.
LEMMA KeptKeep ==
  ASSUME Base, Base', CallsInv, CompoundInv, RecordsInv, AheadInv, EdgesInv, MeantInv, PaidInv, TruthInv, Step,
         NEW s \in Slots
  PROVE  Kept(s)'
<1>1. Kept(s)
  BY Zenon DEF TruthInv
<1>2. ASSUME NEW r \in Rids, AllHappened(r), meant' = meant
      PROVE  AllHappened(r)'
  BY <1>2, AllKept, Zenon
<1>3. ASSUME slots'[s].occupied, slots'[s].reply = "OK", NEW r \in 1..MaxReqs, r = slots'[s].rid
      PROVE  AllHappened(r)'
  <2>1. CASE slots[s].occupied /\ slots[s].reply = "OK" /\ slots'[s].rid = slots[s].rid
    <3>1. AllHappened(r)
      BY <1>1, <1>3, <2>1, Zenon DEF Kept
    <3>2. Of(s, r, slots[s].seq) /\ r \in Rids
      BY <1>3, <2>1, ZenonT(60) DEF Base, OwnInv, Of
    <3>3. ASSUME NEW o \in Slots, Rewrites(o)
          PROVE  r # th[o].rid
      <4>1. Running(o) /\ th[o].pc = "intent"
        BY <3>3, Zenon DEF Rewrites, PersistStep, Running
      <4>2. Of(o, th[o].rid, slots[o].seq) /\ slots[o].reply = "nil"
        BY <4>1, RunningFacts, Zenon DEF Base, SlotInv
      <4> QED BY <2>1, <3>2, <4>2, Zenon DEF Of
    <3>4. \A i \in Ops(r) : meant'[r][i] = meant[r][i]
      BY <3>2, <3>3, NotRewritten, Zenon
    <3> QED BY <3>1, <3>2, <3>4, AllKept, Zenon
  <2>2. CASE FinishStep(s) /\ Saved(s) = "OK" /\ slots'[s].rid = slots[s].rid
    <3>1. th[s].pc = "finish" /\ meant' = meant /\ Running(s)
      BY <2>2, Zenon DEF FinishStep, fsys, Running
    <3>2. r = th[s].rid /\ r \in Rids
      BY <1>3, <2>2, <3>1, RunningFacts, Zenon
    <3>3. AllHappened(r)
      BY <2>2, <3>1, <3>2, SavedOk, Zenon
    <3> QED BY <1>2, <3>1, <3>2, <3>3, Zenon
  <2>3. CASE disk.there /\ Restored(s) /\ meant' = meant
    <3>1. /\ NewestArea(s) \in 1..2 /\ disk.area[s][NewestArea(s)].kind # "NONE"
          /\ slots'[s].rid = disk.area[s][NewestArea(s)].rid
          /\ disk.area[s][NewestArea(s)].kind = "INTENT" => slots'[s].reply = "nil"
          /\ disk.area[s][NewestArea(s)].kind = "SLOT" => slots'[s].reply = disk.area[s][NewestArea(s)].val
      BY <1>3, <2>3, Zenon DEF Restored
    <3>2. PICK a \in 1..2 : a = NewestArea(s)
      BY <3>1, Zenon
    <3>3. disk.area[s][a] \in DiskRecs
      BY DEF Base, Shape, ShapeDisk
    <3>4. disk.area[s][a].kind \in {"INTENT", "SLOT"}
      BY <3>1, <3>2, <3>3, RecShape, Zenon
    <3>5. disk.area[s][a].kind = "SLOT" /\ disk.area[s][a].val = "OK" /\ r = disk.area[s][a].rid
      BY <1>3, <3>1, <3>2, <3>4, Zenon
    <3>6. AllHappened(r)
      BY <1>1, <2>3, <3>5, Zenon DEF Kept
    <3>7. r \in Rids
      BY <3>5, Zenon DEF Base, AreaInv, Of
    <3> QED BY <1>2, <2>3, <3>6, <3>7, Zenon
  <2> QED BY <1>3, <2>1, <2>2, <2>3, ReplySteps, Zenon
<1>4. ASSUME disk'.there, NEW a \in 1..2, disk'.area[s][a].kind = "SLOT", disk'.area[s][a].val = "OK",
             NEW r \in 1..MaxReqs, r = disk'.area[s][a].rid
      PROVE  AllHappened(r)'
  <2>1. disk.there
    BY <1>4, DiskShrinks, Zenon
  <2>2. CASE disk'.area[s][a] = disk.area[s][a]
    <3>1. AllHappened(r)
      BY <1>1, <1>4, <2>1, <2>2, Zenon DEF Kept
    <3>2. r \in Rids
      BY <1>4, <2>2, Zenon DEF Base, AreaInv, Of
    <3>3. ASSUME NEW o \in Slots, Rewrites(o)
          PROVE  r # th[o].rid
      <4>1. disk.area[s][a].kind # "NONE"
        BY <1>4, <2>2, Zenon
      <4> QED BY <1>4, <2>1, <2>2, <3>3, <4>1, Unused, ZenonT(60)
    <3>4. \A i \in Ops(r) : meant'[r][i] = meant[r][i]
      BY <3>2, <3>3, NotRewritten, Zenon
    <3> QED BY <3>1, <3>2, <3>4, AllKept, Zenon
  <2>3. CASE SWrittenStep(s) /\ disk'.area[s][a] = SlotOf(s)
    <3>1. th[s].pc = "fwrite" /\ meant' = meant /\ Running(s)
      BY <2>3, Zenon DEF SWrittenStep, fsys, Running
    <3>2. r = th[s].rid /\ Saved(s) = "OK" /\ r \in Rids
      BY <1>4, <2>3, <3>1, SlotRecShape, RunningFacts, ZenonT(60)
    <3>3. AllHappened(r)
      BY <3>1, <3>2, SavedOk, Zenon
    <3> QED BY <1>2, <3>1, <3>2, <3>3, Zenon
  <2>4. CASE IWrittenStep(s) /\ disk'.area[s][a] = IntentOf(s)
    BY <1>4, <2>4, IntentShape, Zenon DEF IWrittenStep
  <2>5. CASE disk'.area[s][a] = NoRec
    BY <1>4, <2>5, RecShape, Zenon
  <2> QED BY <2>2, <2>3, <2>4, <2>5, AreaStep, Zenon
<1> QED BY <1>3, <1>4, Zenon DEF Kept

\* Every step keeps every OK true, wherever it is held.
LEMMA TruthKeep ==
  ASSUME Base, Base', CallsInv, WireInv, CompoundInv, RecordsInv, AheadInv, LivesInv, EdgesInv, MeantInv,
         PaidInv, NotesInv, TruthInv, Step
  PROVE  TruthInv'
  BY GotKeep, KnownKeep, EarnedKeep, KeptKeep, Zenon DEF TruthInv
=============================================================================
