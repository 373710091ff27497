-------------------------- MODULE NFSClientsProofs --------------------------
(***************************************************************************)
(* A CREATE_SESSION is executed once for each sequence number of a wire    *)
(* clientid: for any number of workers, clients' calls, incarnations,      *)
(* sessions, restarts and failing writes.                                  *)
(***************************************************************************)
EXTENDS NFSClients, TLAPS

PCs == {"idle", "decide", "remove", "retirewire", "retiresess", "retirestate", "register",
        "registered", "addwire", "claim", "islive", "confirm", "close", "principal", "write",
        "replaced", "drop", "purge", "commit", "use", "gate", "run", "status", "open", "finish",
        "release", "destroy", "expire", "unrecord", "staging", "records", "groups", "visit", "retire",
        "swept"}
Returns == {"none", "close", "registered", "retire", "swept"}

(* Who a registration, or a call about one, comes from. *)
Callers == Boots \cup {NoBoot} \cup {[NoBoot EXCEPT !.p = p] : p \in Principals}

JobRecs  == [pc : PCs, wire : Nat, seq : Nat, inc : Nat, old : Nat, sid : Nat,
             boot : Callers, ret : Returns, res : {"none", "yes", "no", "err"}, state : BOOLEAN]
WireRecs == [inc : Nat, boot : Callers, confirmed : BOOLEAN, adopted : BOOLEAN,
             retired : BOOLEAN, csSeq : Nat, cached : {"none", "OK", "CLID_INUSE"}, busy : Nat]
SessRecs == [inc : Nat, att : BOOLEAN, users : Int, from : Nat \X Nat]

Shape ==
    /\ record \in Nat
    /\ next \in [inc : Nat, wire : Nat \ {0}, sid : Nat \ {0}]
    /\ wires \in [Wires -> WireRecs]
    /\ sess \in [SIds -> SessRecs]
    /\ job \in [All -> JobRecs]

(* decideExpired is under way. *)
Deciding(x) == x.pc \in {"decide", "remove", "retirewire", "retiresess", "retirestate"}

(* The program counters of a creation that has claimed its slot. *)
PastClaim(x) ==
    \/ x.pc \in {"islive", "confirm", "close", "principal", "write", "replaced", "drop", "purge", "commit"}
    \/ Deciding(x) /\ x.ret = "close"

(* A creation that has a slot and a session id. *)
Owner(x) == x.wire # 0 /\ x.sid # 0

(* A creation on its way to claim the slot of a wire record. *)
Claims(x, bound) == x.wire \in Wires /\ x.wire < bound /\ x.seq # 0 /\ x.sid = 0

JobsInv ==
    \A j \in All :
        /\ Deciding(job[j]) => job[j].ret \in {"close", "registered", "retire", "swept"}
        /\ PastClaim(job[j]) => Owner(job[j])
        /\ job[j].pc = "claim" => Claims(job[j], next.wire)

(* The slot of an owner is busy with its sequence number, the next one, and  *)
(* its session id is its own.                                                *)
OwnersInv ==
    \A j \in All : Owner(job[j]) =>
        /\ job[j].wire \in Wires /\ job[j].wire < next.wire
        /\ job[j].sid \in SIds /\ job[j].sid < next.sid
        /\ wires[job[j].wire].busy = job[j].seq
        /\ job[j].seq = wires[job[j].wire].csSeq + 1
        /\ sess[job[j].sid].from = <<0, 0>>
ApartInv ==
    \A j, k \in All : Owner(job[j]) /\ Owner(job[k]) /\ j # k =>
        job[j].wire # job[k].wire /\ job[j].sid # job[k].sid

(* A sequence number that made a session is past, or its wire record is.     *)
PastInv ==
    /\ \A s \in SIds : next.sid <= s => sess[s].from = <<0, 0>>
    /\ \A s \in SIds : sess[s].from # <<0, 0>> =>
          /\ sess[s].from[1] \in Wires /\ sess[s].from[1] < next.wire
          /\ wires[sess[s].from[1]].retired \/ sess[s].from[2] <= wires[sess[s].from[1]].csSeq
    /\ \A w \in Wires : next.wire <= w => wires[w].retired

CreationInv == Shape /\ JobsInv /\ OwnersInv /\ ApartInv /\ PastInv /\ CreationOnce

-----------------------------------------------------------------------------
(* What a step does to wire records that are not new: the slot stays as it   *)
(* is, and a record that was retired stays retired.                          *)
SlotsKept ==
    /\ wires' \in [Wires -> WireRecs]
    /\ \A w \in Wires : w < next.wire =>
          /\ wires'[w].busy = wires[w].busy
          /\ wires'[w].csSeq = wires[w].csSeq
          /\ wires[w].retired => wires'[w].retired

OriginsKept == sess' \in [SIds -> SessRecs] /\ \A s \in SIds : sess'[s].from = sess[s].from

(* What a worker may become without touching a slot: it goes on with its     *)
(* creation, or it has none.                                                 *)
Calm(x, y) ==
    /\ y \in JobRecs
    /\ Deciding(y) => y.ret \in {"close", "registered", "retire", "swept"}
    /\ PastClaim(y) => Owner(y)
    /\ y.pc = "claim" => Claims(y, next.wire)
    /\ \/ y.wire = x.wire /\ y.seq = x.seq /\ y.sid = x.sid
       \/ ~Owner(y)

\* Whoever a request comes from is a caller.
LEMMA AllCallers == NoBoot \in Callers /\ (\A b \in Boots : b \in Callers)
                    /\ \A p \in Principals : [NoBoot EXCEPT !.p = p] \in Callers
  BY Zenon DEF Callers

\* A worker without a request holds no slot, whatever it did before.
LEMMA IdleIsCalm == Idle \in JobRecs /\ ~Owner(Idle) /\ \A x : Calm(x, Idle)
<1> DEFINE b0 == NoBoot
<1>1. b0 \in Callers
  BY AllCallers, Zenon
<1>2. Idle = [pc |-> "idle", wire |-> 0, seq |-> 0, inc |-> 0, old |-> 0, sid |-> 0,
              boot |-> b0, ret |-> "none", res |-> "none", state |-> FALSE]
  BY Zenon DEF Idle, none
<1> HIDE DEF b0
<1>3. Idle \in JobRecs /\ ~Owner(Idle) /\ Idle.pc = "idle"
  BY <1>1, <1>2, Zenon DEF JobRecs, PCs, Returns, Owner
<1>4. ~Deciding(Idle) /\ ~PastClaim(Idle)
  BY <1>3, Zenon DEF Deciding, PastClaim
<1> QED
  BY <1>3, <1>4, Zenon DEF Calm

\* The fields of a worker without a request.
LEMMA IdleFields ==
  Idle \in JobRecs /\ Idle.wire = 0 /\ Idle.sid = 0 /\ Idle.seq = 0 /\ Idle.ret = "none"
<1> DEFINE b0 == NoBoot
<1>1. Idle = [pc |-> "idle", wire |-> 0, seq |-> 0, inc |-> 0, old |-> 0, sid |-> 0,
              boot |-> b0, ret |-> "none", res |-> "none", state |-> FALSE]
  BY Zenon DEF Idle, none
<1> HIDE DEF b0
<1> QED
  BY <1>1, IdleIsCalm, Zenon

\* A wire record that was never issued: retired, its slot free.
LEMMA NoWireShape == NoWire \in WireRecs /\ NoWire.retired /\ NoWire.busy = 0 /\ NoWire.csSeq = 0
<1> DEFINE b0 == NoBoot
<1>1. b0 \in Callers
  BY AllCallers, Zenon
<1>2. NoWire = [inc |-> 0, boot |-> b0, confirmed |-> FALSE, adopted |-> FALSE,
                retired |-> TRUE, csSeq |-> 0, cached |-> "none", busy |-> 0]
  BY Zenon DEF NoWire, none
<1> HIDE DEF b0
<1> QED
  BY <1>1, <1>2, Zenon DEF WireRecs

(* A step of one worker that touches no slot and makes no session.           *)
LEMMA CalmStep ==
  ASSUME CreationInv, NEW j \in All,
         record' \in Nat, next' \in [inc : Nat, wire : Nat \ {0}, sid : Nat \ {0}],
         next'.sid = next.sid, next.wire <= next'.wire,
         SlotsKept, \A w \in Wires : next'.wire <= w => wires'[w].retired,
         OriginsKept,
         job' = [job EXCEPT ![j] = job'[j]], Calm(job[j], job'[j])
  PROVE  CreationInv'
<1> USE DEF CreationInv
<1>0. /\ \A k \in All : k # j => job'[k] = job[k]
      /\ job' \in [All -> JobRecs]
      /\ next.wire \in Nat /\ next'.wire \in Nat /\ next.sid \in Nat /\ \A w \in Wires : w \in Nat
      /\ \A s \in SIds : s \in Nat
  BY DEF Shape, Calm, Wires, SIds
<1>1. Shape'
  BY <1>0, Zenon DEF Shape, SlotsKept, OriginsKept
<1>2. JobsInv'
  <2> SUFFICES ASSUME NEW k \in All
               PROVE  /\ Deciding(job'[k]) => job'[k].ret \in {"close", "registered", "retire", "swept"}
                      /\ PastClaim(job'[k]) => Owner(job'[k])
                      /\ job'[k].pc = "claim" => Claims(job'[k], next'.wire)
    BY Zenon DEF JobsInv
  <2>1. CASE k = j
    BY <1>0, <2>1 DEF Calm, Claims
  <2>2. CASE k # j
    BY <1>0, <2>2 DEF JobsInv, Claims
  <2> QED BY <2>1, <2>2, Zenon
<1>3. \A k \in All : Owner(job'[k]) =>
        /\ Owner(job[k])
        /\ job'[k].wire = job[k].wire /\ job'[k].seq = job[k].seq /\ job'[k].sid = job[k].sid
  BY <1>0, Zenon DEF Calm, Owner
<1>4. OwnersInv'
  <2> SUFFICES ASSUME NEW k \in All, Owner(job'[k])
               PROVE  /\ job'[k].wire \in Wires /\ job'[k].wire < next'.wire
                      /\ job'[k].sid \in SIds /\ job'[k].sid < next'.sid
                      /\ wires'[job'[k].wire].busy = job'[k].seq
                      /\ job'[k].seq = wires'[job'[k].wire].csSeq + 1
                      /\ sess'[job'[k].sid].from = <<0, 0>>
    BY Zenon DEF OwnersInv
  <2>1. /\ job[k].wire \in Wires /\ job[k].wire < next.wire
        /\ job[k].sid \in SIds /\ job[k].sid < next.sid
        /\ wires[job[k].wire].busy = job[k].seq
        /\ job[k].seq = wires[job[k].wire].csSeq + 1
        /\ sess[job[k].sid].from = <<0, 0>>
    BY <1>3, Zenon DEF OwnersInv
  <2> QED
    BY <1>0, <1>3, <2>1 DEF SlotsKept, OriginsKept
<1>5. ApartInv'
  BY <1>3 DEF ApartInv
<1>6. PastInv'
  <2>1. ASSUME NEW s \in SIds, next'.sid <= s PROVE sess'[s].from = <<0, 0>>
    BY <2>1, Zenon DEF PastInv, OriginsKept
  <2>2. ASSUME NEW s \in SIds, sess'[s].from # <<0, 0>>
        PROVE  /\ sess'[s].from[1] \in Wires /\ sess'[s].from[1] < next'.wire
               /\ \/ wires'[sess'[s].from[1]].retired
                  \/ sess'[s].from[2] <= wires'[sess'[s].from[1]].csSeq
    <3> DEFINE w == sess[s].from[1]
    <3>1. /\ w \in Wires /\ w < next.wire
          /\ wires[w].retired \/ sess[s].from[2] <= wires[w].csSeq
      BY <2>2, Zenon DEF PastInv, OriginsKept
    <3>2. /\ wires'[w].csSeq = wires[w].csSeq
          /\ wires[w].retired => wires'[w].retired
      BY <3>1, Zenon DEF SlotsKept
    <3>3. sess'[s].from = sess[s].from
      BY Zenon DEF OriginsKept
    <3> QED
      BY <1>0, <3>1, <3>2, <3>3
  <2> QED
    BY <2>1, <2>2, Zenon DEF PastInv
<1>7. CreationOnce'
  BY DEF CreationOnce, OriginsKept
<1> QED
  BY <1>1, <1>2, <1>4, <1>5, <1>6, <1>7, Zenon

(* A creation that has a slot ends, with or without a session: its slot may  *)
(* be free or answered, those of the others stay as they are.                *)
LEMMA OwnerEnds ==
  ASSUME CreationInv, NEW j \in All, Owner(job[j]),
         record' \in Nat, next' = next, wires' \in [Wires -> WireRecs],
         job' = [job EXCEPT ![j] = Idle], sess' \in [SIds -> SessRecs],
         \A w \in Wires : /\ wires[w].retired => wires'[w].retired
                          /\ wires[w].csSeq <= wires'[w].csSeq
                          /\ w # job[j].wire => /\ wires'[w].busy = wires[w].busy
                                                /\ wires'[w].csSeq = wires[w].csSeq,
         \A s \in SIds : s # job[j].sid => sess'[s].from = sess[s].from,
         \/ sess'[job[j].sid].from = sess[job[j].sid].from
         \/ /\ ~wires[job[j].wire].retired
            /\ wires'[job[j].wire].csSeq = job[j].seq
            /\ sess'[job[j].sid].from = <<job[j].wire, job[j].seq>>
  PROVE  CreationInv'
<1> USE DEF CreationInv
<1> DEFINE v == job[j].wire
           z == job[j].sid
           q == job[j].seq
<1>0. /\ \A k \in All : k # j => job'[k] = job[k]
      /\ job'[j] = Idle
      /\ job' \in [All -> JobRecs]
      /\ next.wire \in Nat /\ next.sid \in Nat /\ \A w \in Wires : w \in Nat /\ w # 0
      /\ \A s \in SIds : s \in Nat
      /\ \A w \in Wires : wires[w].csSeq \in Nat /\ wires'[w].csSeq \in Nat
      /\ \A s \in SIds : sess[s].from \in Nat \X Nat /\ sess'[s].from \in Nat \X Nat
  <2>1. job \in [All -> JobRecs]
    BY Zenon DEF Shape
  <2>2. job'[j] = Idle /\ job' \in [All -> JobRecs] /\ \A k \in All : k # j => job'[k] = job[k]
    BY <2>1, IdleIsCalm, Zenon
  <2>3. /\ next.wire \in Nat /\ next.sid \in Nat /\ \A w \in Wires : w \in Nat /\ w # 0
        /\ \A s \in SIds : s \in Nat
    BY ClientsAssumption DEF Shape, Wires, SIds
  <2>4. \A w \in Wires : wires[w].csSeq \in Nat /\ wires'[w].csSeq \in Nat
    BY Zenon DEF Shape, WireRecs
  <2>5. \A s \in SIds : sess[s].from \in Nat \X Nat /\ sess'[s].from \in Nat \X Nat
    BY Zenon DEF Shape, SessRecs
  <2> QED
    BY <2>2, <2>3, <2>4, <2>5, Zenon
<1>1. /\ v \in Wires /\ v < next.wire /\ z \in SIds /\ z < next.sid
      /\ q = wires[v].csSeq + 1 /\ sess[z].from = <<0, 0>>
  BY Zenon DEF OwnersInv
<1>2. Shape'
  BY <1>0, Zenon DEF Shape
<1>3. JobsInv'
  <2> SUFFICES ASSUME NEW k \in All
               PROVE  /\ Deciding(job'[k]) => job'[k].ret \in {"close", "registered", "retire", "swept"}
                      /\ PastClaim(job'[k]) => Owner(job'[k])
                      /\ job'[k].pc = "claim" => Claims(job'[k], next'.wire)
    BY Zenon DEF JobsInv
  <2>1. CASE k = j
    BY <1>0, <2>1, IdleIsCalm, Zenon DEF Calm, Claims, Owner
  <2>2. CASE k # j
    BY <1>0, <2>2, Zenon DEF JobsInv
  <2> QED BY <2>1, <2>2, Zenon
<1>4. \A k \in All : Owner(job'[k]) => k # j /\ job'[k] = job[k] /\ Owner(job[k]) /\ job[k].wire # v /\ job[k].sid # z
  BY <1>0, IdleIsCalm DEF ApartInv
<1>5. OwnersInv'
  <2> SUFFICES ASSUME NEW k \in All, Owner(job'[k])
               PROVE  /\ job'[k].wire \in Wires /\ job'[k].wire < next'.wire
                      /\ job'[k].sid \in SIds /\ job'[k].sid < next'.sid
                      /\ wires'[job'[k].wire].busy = job'[k].seq
                      /\ job'[k].seq = wires'[job'[k].wire].csSeq + 1
                      /\ sess'[job'[k].sid].from = <<0, 0>>
    BY Zenon DEF OwnersInv
  <2>1. /\ job[k].wire \in Wires /\ job[k].wire < next.wire
        /\ job[k].sid \in SIds /\ job[k].sid < next.sid
        /\ wires[job[k].wire].busy = job[k].seq
        /\ job[k].seq = wires[job[k].wire].csSeq + 1
        /\ sess[job[k].sid].from = <<0, 0>>
    BY <1>4, Zenon DEF OwnersInv
  <2> QED
    BY <1>4, <2>1, SMTT(60)
<1>6. ApartInv'
  BY <1>4 DEF ApartInv
<1>7. \A s \in SIds : \/ sess'[s].from = sess[s].from
                      \/ /\ s = z /\ sess'[s].from = <<v, q>> /\ ~wires[v].retired /\ wires'[v].csSeq = q
  BY Zenon
<1>8. PastInv'
  <2>1. ASSUME NEW s \in SIds, next'.sid <= s PROVE sess'[s].from = <<0, 0>>
    <3>1. s # z
      BY <1>0, <1>1, <2>1, SMTT(60)
    <3> QED
      BY <2>1, <3>1, Zenon DEF PastInv
  <2>2. ASSUME NEW s \in SIds, sess'[s].from # <<0, 0>>
        PROVE  /\ sess'[s].from[1] \in Wires /\ sess'[s].from[1] < next'.wire
               /\ \/ wires'[sess'[s].from[1]].retired
                  \/ sess'[s].from[2] <= wires'[sess'[s].from[1]].csSeq
    <3>1. CASE sess'[s].from = sess[s].from
      <4> DEFINE w == sess[s].from[1]
      <4>1. /\ w \in Wires /\ w < next.wire
            /\ wires[w].retired \/ sess[s].from[2] <= wires[w].csSeq
        BY <2>2, <3>1, Zenon DEF PastInv
      <4>2. /\ wires[w].csSeq <= wires'[w].csSeq
            /\ wires[w].retired => wires'[w].retired
            /\ sess[s].from[2] \in Nat /\ wires[w].csSeq \in Nat /\ wires'[w].csSeq \in Nat
        BY <1>0, <4>1, Zenon
      <4> QED
        BY <3>1, <4>1, <4>2, SMTT(60)
    <3>2. CASE sess'[s].from = <<v, q>> /\ wires'[v].csSeq = q
      BY <1>0, <1>1, <3>2, SMTT(60)
    <3> QED
      BY <1>7, <3>1, <3>2, Zenon
  <2>3. \A w \in Wires : next'.wire <= w => wires'[w].retired
    BY Zenon DEF PastInv
  <2> QED
    BY <2>1, <2>2, <2>3, Zenon DEF PastInv
<1>9. CreationOnce'
  <2>1. \A s \in SIds : sess[s].from = <<v, q>> => wires[v].retired
    <3> SUFFICES ASSUME NEW s \in SIds, sess[s].from = <<v, q>> PROVE wires[v].retired
      BY Zenon
    <3>1. sess[s].from # <<0, 0>> /\ sess[s].from[1] = v /\ sess[s].from[2] = q
      BY <1>0, <1>1, SMTT(60)
    <3>2. wires[v].retired \/ q <= wires[v].csSeq
      BY <3>1, Zenon DEF PastInv
    <3> QED
      BY <1>0, <1>1, <3>2, SMTT(60)
  <2>2. ASSUME NEW s \in SIds, NEW t \in SIds, sess'[s].from # <<0, 0>>, sess'[s].from = sess'[t].from
        PROVE  s = t
    BY <1>7, <2>1, <2>2, SMTT(60) DEF CreationOnce
  <2> QED
    BY <2>2, Zenon DEF CreationOnce
<1> QED
  BY <1>2, <1>3, <1>5, <1>6, <1>8, <1>9, Zenon

(* ClaimSlot's success: the slot was free and expected this number.          *)
LEMMA OwnerBegins ==
  ASSUME CreationInv, NEW j \in All, NEW pc \in {"islive", "confirm"},
         job[j].pc = "claim", ~SlotAnswers(wires[job[j].wire], job[j].seq), next.sid <= MaxSess,
         wires' = [wires EXCEPT ![job[j].wire].busy = job[j].seq],
         next' = [next EXCEPT !.sid = @ + 1],
         job' = [job EXCEPT ![j].sid = next.sid, ![j].pc = pc],
         record' = record, sess' = sess
  PROVE  CreationInv'
<1> USE DEF CreationInv
<1> DEFINE v == job[j].wire
           z == next.sid
           q == job[j].seq
<1>1. /\ v \in Wires /\ v < next.wire /\ q # 0 /\ q \in Nat
      /\ wires[v].busy = 0 /\ q = wires[v].csSeq + 1
      /\ z \in SIds /\ sess[z].from = <<0, 0>>
  <2>1. v \in Wires /\ v < next.wire /\ q # 0
    BY Zenon DEF JobsInv, Claims
  <2>2. z \in SIds
    BY ClientsAssumption DEF Shape, SIds
  <2>3. sess[z].from = <<0, 0>>
    BY <2>2 DEF PastInv, Shape
  <2>4. q \in Nat
    BY Zenon DEF Shape, JobRecs
  <2> QED
    BY <2>1, <2>2, <2>3, <2>4, Zenon DEF SlotAnswers
<1>2. /\ \A k \in All : k # j => job'[k] = job[k]
      /\ job'[j] = [job[j] EXCEPT !.sid = z, !.pc = pc]
      /\ job' \in [All -> JobRecs]
  <2>1. job[j] \in JobRecs /\ job \in [All -> JobRecs]
    BY Zenon DEF Shape
  <2>2. z \in Nat
    BY Zenon DEF Shape
  <2>3. [job[j] EXCEPT !.sid = z, !.pc = pc] \in JobRecs
    BY <2>1, <2>2, Zenon DEF JobRecs, PCs
  <2> QED
    BY <2>1, <2>3, Zenon
<1>3. job'[j].wire = v /\ job'[j].seq = q /\ job'[j].sid = z /\ job'[j].pc = pc
  BY <1>2 DEF Shape, JobRecs
<1>4. /\ wires' \in [Wires -> WireRecs]
      /\ \A w \in Wires : /\ wires'[w].csSeq = wires[w].csSeq /\ wires'[w].retired = wires[w].retired
                          /\ w # v => wires'[w].busy = wires[w].busy
      /\ wires'[v].busy = q
  BY <1>1, SMTT(60) DEF Shape, WireRecs
<1>5. /\ next' \in [inc : Nat, wire : Nat \ {0}, sid : Nat \ {0}]
      /\ next'.sid = z + 1 /\ next'.wire = next.wire /\ z \in Nat /\ z # 0 /\ next.wire \in Nat
  BY DEF Shape
<1>6. Shape'
  BY <1>2, <1>4, <1>5, Zenon DEF Shape
<1>7. \A k \in All : k # j /\ Owner(job[k]) => job[k].wire # v /\ job[k].sid < z /\ job[k].sid # z
  BY <1>1, <1>5 DEF OwnersInv, Shape, JobRecs
<1>8. Owner(job'[j]) /\ ~Deciding(job'[j])
  BY <1>1, <1>3, <1>5 DEF Owner, Deciding, Wires
<1>9. JobsInv'
  <2> SUFFICES ASSUME NEW k \in All
               PROVE  /\ Deciding(job'[k]) => job'[k].ret \in {"close", "registered", "retire", "swept"}
                      /\ PastClaim(job'[k]) => Owner(job'[k])
                      /\ job'[k].pc = "claim" => Claims(job'[k], next'.wire)
    BY Zenon DEF JobsInv
  <2>1. CASE k = j
    BY <1>3, <1>8, <2>1, Zenon
  <2>2. CASE k # j
    BY <1>2, <1>5, <2>2, Zenon DEF JobsInv
  <2> QED BY <2>1, <2>2, Zenon
<1>10. OwnersInv'
  <2> SUFFICES ASSUME NEW k \in All, Owner(job'[k])
               PROVE  /\ job'[k].wire \in Wires /\ job'[k].wire < next'.wire
                      /\ job'[k].sid \in SIds /\ job'[k].sid < next'.sid
                      /\ wires'[job'[k].wire].busy = job'[k].seq
                      /\ job'[k].seq = wires'[job'[k].wire].csSeq + 1
                      /\ sess'[job'[k].sid].from = <<0, 0>>
    BY Zenon DEF OwnersInv
  <2>1. CASE k = j
    <3>1. job'[k].wire = v /\ job'[k].sid = z /\ job'[k].seq = q
      BY <1>3, <2>1, Zenon
    <3>2. wires'[v].busy = q /\ q = wires'[v].csSeq + 1 /\ sess'[z].from = <<0, 0>>
      BY <1>1, <1>4, Zenon
    <3>3. v < next'.wire /\ z < next'.sid
      BY <1>1, <1>5
    <3> HIDE DEF v, z, q
    <3> QED
      BY <1>1, <3>1, <3>2, <3>3, Zenon
  <2>2. CASE k # j
    <3>1. job'[k] = job[k] /\ Owner(job[k]) /\ job[k].wire # v /\ job[k].sid < z
      BY <1>2, <1>7, <2>2, Zenon
    <3>2. /\ job[k].wire \in Wires /\ job[k].wire < next.wire
          /\ job[k].sid \in SIds
          /\ wires[job[k].wire].busy = job[k].seq
          /\ job[k].seq = wires[job[k].wire].csSeq + 1
          /\ sess[job[k].sid].from = <<0, 0>>
      BY <3>1, Zenon DEF OwnersInv
    <3>3. job[k].sid < next'.sid
      <4>1. job[k].sid \in Nat
        BY Zenon DEF Shape, JobRecs
      <4> HIDE DEF z
      <4> QED BY <1>5, <3>1, <4>1
    <3>4. wires'[job[k].wire].busy = wires[job[k].wire].busy /\ wires'[job[k].wire].csSeq = wires[job[k].wire].csSeq
      BY <1>4, <3>1, <3>2, Zenon
    <3>5. job[k].wire < next'.wire
      BY <1>5, <3>2, Zenon
    <3> QED
      BY <3>1, <3>2, <3>3, <3>4, <3>5, Zenon
  <2> QED BY <2>1, <2>2, Zenon
<1>11. ApartInv'
  <2> SUFFICES ASSUME NEW k \in All, NEW l \in All, Owner(job'[k]), Owner(job'[l]), k # l
               PROVE  job'[k].wire # job'[l].wire /\ job'[k].sid # job'[l].sid
    BY Zenon DEF ApartInv
  <2>1. CASE k = j
    BY <1>2, <1>3, <1>7, <2>1
  <2>2. CASE l = j
    BY <1>2, <1>3, <1>7, <2>2, ZenonT(60)
  <2>3. CASE k # j /\ l # j
    BY <1>2, <2>3, Zenon DEF ApartInv
  <2> QED BY <2>1, <2>2, <2>3, Zenon
<1>12. PastInv'
  <2>1. \A s \in SIds : next'.sid <= s => sess'[s].from = <<0, 0>>
    BY <1>5 DEF PastInv, SIds
  <2>2. \A s \in SIds : sess'[s].from # <<0, 0>> =>
          /\ sess'[s].from[1] \in Wires /\ sess'[s].from[1] < next'.wire
          /\ wires'[sess'[s].from[1]].retired \/ sess'[s].from[2] <= wires'[sess'[s].from[1]].csSeq
    BY <1>4, <1>5, SMTT(60) DEF PastInv
  <2>3. \A w \in Wires : next'.wire <= w => wires'[w].retired
    BY <1>4, <1>5, ZenonT(60) DEF PastInv
  <2> QED BY <2>1, <2>2, <2>3, Zenon DEF PastInv
<1>13. CreationOnce'
  BY Zenon DEF CreationOnce
<1> QED
  BY <1>6, <1>9, <1>10, <1>11, <1>12, <1>13, Zenon

-----------------------------------------------------------------------------
(* The session store's operators: slots and origins stay.                    *)
LEMMA RetiredKeeps ==
  ASSUME NEW W \in [Wires -> WireRecs], NEW v
  PROVE  /\ RetiredWires(W, v) \in [Wires -> WireRecs]
         /\ \A w \in Wires : /\ RetiredWires(W, v)[w].busy = W[w].busy
                             /\ RetiredWires(W, v)[w].csSeq = W[w].csSeq
                             /\ W[w].retired => RetiredWires(W, v)[w].retired
<1>1. CASE v = 0 \/ v \notin Wires
  <2>1. RetiredWires(W, v) = W
    BY <1>1, Zenon DEF RetiredWires
  <2> QED BY <2>1, Zenon
<1>2. CASE v # 0 /\ v \in Wires
  <2>1. RetiredWires(W, v) = [W EXCEPT ![v] = [W[v] EXCEPT !.retired = TRUE]]
    BY <1>2, Zenon DEF RetiredWires
  <2>2. [W[v] EXCEPT !.retired = TRUE] \in WireRecs
    BY <1>2, Zenon DEF WireRecs
  <2>3. [W[v] EXCEPT !.retired = TRUE].busy = W[v].busy /\ [W[v] EXCEPT !.retired = TRUE].csSeq = W[v].csSeq
        /\ [W[v] EXCEPT !.retired = TRUE].retired
    BY <1>2, Zenon DEF WireRecs
  <2> QED BY <2>1, <2>2, <2>3, Zenon
<1> QED BY <1>1, <1>2, Zenon

\* Counting a user of a session keeps its origin.
LEMMA UsersKeep ==
  ASSUME sess \in [SIds -> SessRecs], NEW s, NEW n \in {-1, 1}, NEW a \in BOOLEAN,
         \/ sess' = [sess EXCEPT ![s].users = @ + n]
         \/ sess' = [sess EXCEPT ![s].att = a, ![s].users = @ + n]
  PROVE  OriginsKept
<1>1. CASE s \notin SIds
  BY <1>1, Zenon DEF OriginsKept
<1>2. CASE s \in SIds
  BY <1>2, SMTT(60) DEF OriginsKept, SessRecs
<1> QED BY <1>1, <1>2, Zenon

\* Freeing a session nobody uses keeps the origins.
LEMMA UnusedKeeps ==
  ASSUME sess \in [SIds -> SessRecs], NEW s, sess' = Unused(s)
  PROVE  OriginsKept
<1>1. CASE s \notin SIds
  BY <1>1, Zenon DEF OriginsKept, Unused
<1>2. CASE s \in SIds
  BY <1>2 DEF OriginsKept, SessRecs, Unused
<1> QED BY <1>1, <1>2, Zenon

\* The same for a change of one session.
LEMMA SessionChanged ==
  ASSUME NEW x \in SessRecs, NEW a \in BOOLEAN, NEW n \in Int
  PROVE  /\ [x EXCEPT !.att = a, !.users = n] \in SessRecs
         /\ [x EXCEPT !.att = a, !.users = n].from = x.from
  BY Zenon DEF SessRecs

\* Detaching sessions keeps the origins and the wires' slots.
LEMMA DetachedKeeps ==
  ASSUME sess \in [SIds -> SessRecs], NEW i, sess' = Detached(sess, i)
  PROVE  OriginsKept
<1>1. \A x \in SessRecs : /\ [x EXCEPT !.att = FALSE, !.users = @ - 1] \in SessRecs
                          /\ [x EXCEPT !.att = FALSE, !.users = @ - 1].from = x.from
  <2> SUFFICES ASSUME NEW x \in SessRecs
               PROVE  /\ [x EXCEPT !.att = FALSE, !.users = x.users - 1] \in SessRecs
                      /\ [x EXCEPT !.att = FALSE, !.users = x.users - 1].from = x.from
    BY Zenon
  <2>1. x.users - 1 \in Int
    BY DEF SessRecs
  <2>2. FALSE \in BOOLEAN
    BY Zenon
  <2> QED
    BY <2>1, <2>2, SessionChanged, Zenon
<1>2. \A s \in SIds : sess[s] \in SessRecs
  BY Zenon
<1>3. \A s \in SIds : \/ sess'[s] = sess[s]
                      \/ sess'[s] = [sess[s] EXCEPT !.att = FALSE, !.users = @ - 1]
  BY Zenon DEF Detached
<1>4. \A s \in SIds : sess'[s] \in SessRecs /\ sess'[s].from = sess[s].from
  BY <1>1, <1>2, <1>3, ZenonT(60)
<1>5. sess' = [s \in SIds |-> sess'[s]]
  BY Zenon DEF Detached
<1> QED
  BY <1>4, <1>5, Zenon DEF OriginsKept

(* CalmStep when no wire record is new and at most one is retired.           *)
LEMMA QuietStep ==
  ASSUME CreationInv, NEW j \in All, record' \in Nat, next' = next,
         NEW v, wires' = RetiredWires(wires, v), OriginsKept,
         job' = [job EXCEPT ![j] = job'[j]], Calm(job[j], job'[j])
  PROVE  CreationInv'
<1>1. SlotsKept /\ \A w \in Wires : wires[w].retired => wires'[w].retired
  BY RetiredKeeps DEF SlotsKept, CreationInv, Shape
<1>2. \A w \in Wires : next'.wire <= w => wires'[w].retired
  BY <1>1, Zenon DEF CreationInv, PastInv
<1>3. next' \in [inc : Nat, wire : Nat \ {0}, sid : Nat \ {0}] /\ next'.sid = next.sid /\ next.wire <= next'.wire
  BY DEF CreationInv, Shape
<1> QED
  BY <1>1, <1>2, <1>3, CalmStep, Zenon

\* A worker without a slot that gets none.
LEMMA StillCalm ==
  ASSUME CreationInv, NEW j \in All
  PROVE  Calm(job[j], job[j])
  BY Zenon DEF CreationInv, Shape, JobsInv, Calm

(* The ways a worker goes on.                                                *)
LEMMA GoCalm ==
  ASSUME CreationInv, NEW j \in All, NEW pc \in PCs \ {"claim"},
         pc \in {"decide", "remove", "retirewire", "retiresess", "retirestate"} => Deciding(job[j]),
         pc \in {"islive", "confirm", "close", "principal", "write", "replaced", "drop", "purge", "commit"}
           => PastClaim(job[j]),
         Go(j, pc)
  PROVE  job' = [job EXCEPT ![j] = job'[j]] /\ Calm(job[j], job'[j])
<1>1. job[j] \in JobRecs /\ job \in [All -> JobRecs]
  BY Zenon DEF CreationInv, Shape
<1> DEFINE y == [job[j] EXCEPT !.pc = pc]
<1>2. job'[j] = y /\ job' = [job EXCEPT ![j] = y]
  BY <1>1, Zenon DEF Go
<1>3. y \in JobRecs /\ y.pc = pc /\ y.wire = job[j].wire /\ y.seq = job[j].seq /\ y.sid = job[j].sid /\ y.ret = job[j].ret
  BY <1>1, Zenon DEF JobRecs
<1>4. /\ Deciding(job[j]) => job[j].ret \in {"close", "registered", "retire", "swept"}
      /\ PastClaim(job[j]) => Owner(job[j])
  BY Zenon DEF CreationInv, JobsInv
<1> HIDE DEF y
<1>5. Deciding(y) => Deciding(job[j])
  BY <1>3, Zenon DEF Deciding
<1>6. PastClaim(y) => PastClaim(job[j])
  BY <1>3, <1>5, Zenon DEF PastClaim
<1>7. Owner(job[j]) => Owner(y)
  BY <1>3, Zenon DEF Owner
<1> QED
  BY <1>2, <1>3, <1>4, <1>5, <1>6, <1>7, Zenon DEF Calm

\* A worker without a slot that ends its request.
LEMMA EndCalm ==
  ASSUME CreationInv, NEW j \in All, End(j)
  PROVE  job' = [job EXCEPT ![j] = job'[j]] /\ Calm(job[j], job'[j])
<1>1. job \in [All -> JobRecs]
  BY Zenon DEF CreationInv, Shape
<1>2. job'[j] = Idle /\ job' = [job EXCEPT ![j] = Idle]
  BY <1>1, Zenon DEF End
<1> QED
  BY <1>2, IdleIsCalm, Zenon

\* A worker without a slot that returns from decideExpired.
LEMMA ReturnCalm ==
  ASSUME CreationInv, NEW j \in All, NEW res \in {"yes", "no", "err"}, Deciding(job[j]), Return(j, res)
  PROVE  job' = [job EXCEPT ![j] = job'[j]] /\ Calm(job[j], job'[j])
<1>1. job[j] \in JobRecs /\ job \in [All -> JobRecs]
  BY Zenon DEF CreationInv, Shape
<1>2. job[j].ret \in {"close", "registered", "retire", "swept"} /\ (PastClaim(job[j]) => Owner(job[j]))
  BY Zenon DEF CreationInv, JobsInv
<1> DEFINE y == [job[j] EXCEPT !.pc = job[j].ret, !.res = res]
<1>3. job'[j] = y /\ job' = [job EXCEPT ![j] = y]
  BY <1>1, Zenon DEF Return
<1>4. y \in JobRecs /\ y.pc = job[j].ret /\ y.wire = job[j].wire /\ y.seq = job[j].seq /\ y.sid = job[j].sid
  BY <1>1, <1>2, ZenonT(60) DEF JobRecs, PCs
<1> HIDE DEF y
<1>5. ~Deciding(y) /\ y.pc # "claim"
  BY <1>2, <1>4, Zenon DEF Deciding
<1>6. PastClaim(y) => PastClaim(job[j])
  BY <1>2, <1>4, <1>5, Zenon DEF PastClaim
<1>7. Owner(job[j]) => Owner(y)
  BY <1>4, Zenon DEF Owner
<1> QED
  BY <1>2, <1>3, <1>4, <1>5, <1>6, <1>7, Zenon DEF Calm

\* A step that leaves the records alone.
LEMMA Unchanged ==
  ASSUME CreationInv
  PROVE  /\ record \in Nat
         /\ wires' = wires => wires' = RetiredWires(wires, 0)
         /\ sess' = sess => OriginsKept
  BY Zenon DEF CreationInv, Shape, RetiredWires, OriginsKept

(* A goroutine's steps that leave slots and origins alone, by what they do to *)
(* the worker.                                                               *)
LEMMA JobStep ==
  ASSUME CreationInv, NEW j \in All, record' \in Nat, next' = next, wires' = wires, sess' = sess,
         job' = [job EXCEPT ![j] = job'[j]], Calm(job[j], job'[j])
  PROVE  CreationInv'
  BY Unchanged, QuietStep, Zenon

\* decideExpired: the expiry decision, step by step.
LEMMA DecideSteps ==
  ASSUME CreationInv, NEW j \in All, decideExpired(j)
  PROVE  CreationInv'
<1>1. CASE DecideGate(j)
  <2>1. /\ Deciding(job[j]) /\ record' \in Nat /\ next' = next /\ wires' = wires /\ sess' = sess
        /\ Go(j, "retirewire") \/ Return(j, "no") \/ Go(j, "remove")
    BY <1>1, Unchanged, Zenon DEF DecideGate, durable, Deciding
  <2>2. job' = [job EXCEPT ![j] = job'[j]] /\ Calm(job[j], job'[j])
    BY <2>1, GoCalm, ReturnCalm, Zenon DEF PCs
  <2> QED BY <2>1, <2>2, JobStep, Zenon
<1>2. CASE DecideRemove(j)
  <2>1. /\ Deciding(job[j]) /\ record' \in Nat /\ next' = next /\ wires' = wires /\ sess' = sess
        /\ Go(j, "retirewire") \/ Return(j, "err")
    BY <1>2, Unchanged DEF DecideRemove, Deciding
  <2>2. job' = [job EXCEPT ![j] = job'[j]] /\ Calm(job[j], job'[j])
    BY <2>1, GoCalm, ReturnCalm, Zenon DEF PCs
  <2> QED BY <2>1, <2>2, JobStep, Zenon
<1>3. CASE DecideWire(j)
  <2> DEFINE w == IF groups[job[j].inc].there THEN groups[job[j].inc].wire ELSE 0
  <2>1. /\ Deciding(job[j]) /\ record' \in Nat /\ next' = next /\ OriginsKept
        /\ wires' = RetiredWires(wires, w) /\ Go(j, "retiresess")
    BY <1>3, Unchanged, Zenon DEF DecideWire, durable, Deciding
  <2>2. job' = [job EXCEPT ![j] = job'[j]] /\ Calm(job[j], job'[j])
    BY <2>1, GoCalm, Zenon DEF PCs
  <2> HIDE DEF w
  <2> QED BY <2>1, <2>2, QuietStep, Zenon
<1>4. CASE DecideSessions(j)
  <2>1. /\ Deciding(job[j]) /\ record' \in Nat /\ next' = next /\ wires' = RetiredWires(wires, 0)
        /\ sess' = Detached(sess, job[j].inc) /\ Go(j, "retirestate")
    BY <1>4, Unchanged, Zenon DEF DecideSessions, Deciding
  <2>2. job' = [job EXCEPT ![j] = job'[j]] /\ Calm(job[j], job'[j])
    BY <2>1, GoCalm, Zenon DEF PCs
  <2>3. OriginsKept
    BY <2>1, DetachedKeeps, Zenon DEF CreationInv, Shape
  <2> QED BY <2>1, <2>2, <2>3, QuietStep, Zenon
<1>5. CASE DecideState(j)
  <2>1. /\ Deciding(job[j]) /\ record' \in Nat /\ next' = next /\ wires' = wires /\ sess' = sess
        /\ Return(j, "yes")
    BY <1>5, Unchanged, Zenon DEF DecideState, Deciding
  <2>2. job' = [job EXCEPT ![j] = job'[j]] /\ Calm(job[j], job'[j])
    BY <2>1, ReturnCalm, Zenon
  <2> QED BY <2>1, <2>2, JobStep, Zenon
<1> QED
  BY <1>1, <1>2, <1>3, <1>4, <1>5, Zenon DEF decideExpired

(* A worker that begins a request has no slot. *)
LEMMA FreshCalm ==
  ASSUME CreationInv, NEW j \in All, NEW y \in JobRecs, job' = [job EXCEPT ![j] = y],
         y.pc \in {"register", "use", "destroy"}, y.wire = 0 \/ y.sid = 0
  PROVE  job' = [job EXCEPT ![j] = job'[j]] /\ Calm(job[j], job'[j])
<1>1. job \in [All -> JobRecs]
  BY Zenon DEF CreationInv, Shape
<1>2. job'[j] = y /\ job' = [job EXCEPT ![j] = job'[j]]
  BY <1>1, Zenon
<1>3. ~Owner(y) /\ ~Deciding(y) /\ y.pc # "claim"
  BY Zenon DEF Owner, Deciding
<1>4. ~PastClaim(y)
  BY <1>3, Zenon DEF PastClaim
<1> QED
  BY <1>2, <1>3, <1>4, Zenon DEF Calm

\* EXCHANGE_ID up to the registration.
LEMMA RegisterSteps ==
  ASSUME CreationInv, NEW j \in All, ExchangeID(j) \/ Register(j) \/ Registered(j)
  PROVE  CreationInv'
<1>1. CASE ExchangeID(j)
  <2>0. PICK b \in Boots :
             /\ \E w : wires' = RetiredWires(wires, w)
             /\ job' = [job EXCEPT ![j] = [Idle EXCEPT !.pc = "register", !.boot = b]]
    BY <1>1, Zenon DEF ExchangeID
  <2>1. PICK w : wires' = RetiredWires(wires, w)
    BY <2>0, Zenon
  <2>2. record' \in Nat /\ next' = next /\ OriginsKept
    BY <1>1, Unchanged, Zenon DEF ExchangeID, durable
  <2> DEFINE y == [Idle EXCEPT !.pc = "register", !.boot = b]
  <2>3. y \in JobRecs /\ y.pc = "register" /\ y.wire = 0
    BY IdleFields, AllCallers, Zenon DEF JobRecs, PCs
  <2> HIDE DEF y
  <2>4. job' = [job EXCEPT ![j] = job'[j]] /\ Calm(job[j], job'[j])
    BY <2>0, <2>3, FreshCalm, Zenon DEF y
  <2> QED BY <2>1, <2>2, <2>4, QuietStep, Zenon
<1>2. CASE Register(j)
  <2>1. record' = record /\ record' \in Nat /\ next' = next /\ wires' = wires /\ sess' = sess
    BY <1>2, Unchanged, Zenon DEF Register, durable
  <2>2. job[j] \in JobRecs /\ job \in [All -> JobRecs] /\ job[j].pc = "register"
    BY <1>2, Zenon DEF Register, CreationInv, Shape
  <2> DEFINE y == [job[j] EXCEPT !.pc = "decide", !.inc = record, !.old = record,
                                 !.state = FALSE, !.ret = "registered"]
             z == [job[j] EXCEPT !.pc = "addwire", !.inc = 0]
  <2>3. job' = [job EXCEPT ![j] = y] \/ job' = [job EXCEPT ![j] = z]
    BY <1>2, <2>2, Zenon DEF Register
  <2>4. /\ y \in JobRecs /\ y.pc = "decide" /\ y.ret = "registered"
        /\ y.wire = job[j].wire /\ y.seq = job[j].seq /\ y.sid = job[j].sid
    BY <2>1, <2>2, Zenon DEF JobRecs, PCs, Returns
  <2>5. /\ z \in JobRecs /\ z.pc = "addwire"
        /\ z.wire = job[j].wire /\ z.seq = job[j].seq /\ z.sid = job[j].sid
    BY <2>2, Zenon DEF JobRecs, PCs
  <2> HIDE DEF y, z
  <2>6. ~PastClaim(y) /\ ~PastClaim(z) /\ ~Deciding(z)
    BY <2>4, <2>5, Zenon DEF PastClaim, Deciding
  <2>7. Calm(job[j], y) /\ Calm(job[j], z)
    BY <2>4, <2>5, <2>6, Zenon DEF Calm
  <2>8. job' = [job EXCEPT ![j] = job'[j]] /\ Calm(job[j], job'[j])
    BY <2>2, <2>3, <2>7, Zenon
  <2> QED BY <2>1, <2>8, JobStep, Zenon
<1>3. CASE Registered(j)
  <2>1. record' \in Nat /\ next' = next /\ wires' = wires /\ sess' = sess
    BY <1>3, Unchanged, Zenon DEF Registered, durable
  <2>2. job[j] \in JobRecs /\ job \in [All -> JobRecs]
    BY Zenon DEF CreationInv, Shape
  <2>3. \/ End(j)
        \/ job' = [job EXCEPT ![j].pc = "addwire", ![j].inc = job[j].old]
        \/ job' = [job EXCEPT ![j].pc = "addwire", ![j].inc = 0]
    BY <1>3, Zenon DEF Registered
  <2>4. CASE End(j)
    BY <2>1, <2>4, EndCalm, JobStep, Zenon
  <2>5. ASSUME NEW i \in Nat, job' = [job EXCEPT ![j].pc = "addwire", ![j].inc = i]
        PROVE  CreationInv'
    <3> DEFINE z == [job[j] EXCEPT !.pc = "addwire", !.inc = i]
    <3>1. job' = [job EXCEPT ![j] = z]
      BY <2>2, <2>5, Zenon
    <3>2. /\ z \in JobRecs /\ z.pc = "addwire"
          /\ z.wire = job[j].wire /\ z.seq = job[j].seq /\ z.sid = job[j].sid
      BY <2>2, Zenon DEF JobRecs, PCs
    <3> HIDE DEF z
    <3>3. ~PastClaim(z) /\ ~Deciding(z)
      BY <3>2, Zenon DEF PastClaim, Deciding
    <3>4. Calm(job[j], z)
      BY <3>2, <3>3, Zenon DEF Calm
    <3>5. job' = [job EXCEPT ![j] = job'[j]] /\ Calm(job[j], job'[j])
      BY <2>2, <3>1, <3>4, Zenon
    <3> QED BY <2>1, <3>5, JobStep, Zenon
  <2>6. job[j].old \in Nat /\ 0 \in Nat
    BY <2>2, Zenon DEF JobRecs
  <2> QED BY <2>3, <2>4, <2>5, <2>6, Zenon
<1> QED BY <1>1, <1>2, <1>3, Zenon

\* The new incarnation gets a wire clientid that nobody holds yet.
LEMMA AddWireStep ==
  ASSUME CreationInv, NEW j \in All, AddWire(j)
  PROVE  CreationInv'
<1>1. /\ record' \in Nat /\ OriginsKept /\ End(j)
      /\ job' = [job EXCEPT ![j] = job'[j]] /\ Calm(job[j], job'[j])
  BY Unchanged, EndCalm, Zenon DEF AddWire, durable
<1>2. CASE UNCHANGED <<wires, next>>
  BY <1>1, <1>2, Unchanged, QuietStep, Zenon
<1>3. CASE ~UNCHANGED <<wires, next>>
  <2> DEFINE adopted == job[j].inc # 0
             W1 == RetiredWires(wires, own.unconfirmed)
             w  == next.wire
             i  == IF adopted THEN job[j].inc ELSE next.inc
             v  == RetiredGroups(groups, sess, wires, own.unconfirmed)[i].wire
             m  == IF adopted THEN next.inc ELSE next.inc + 1
  <2>1. /\ wires' = [RetiredWires(W1, v) EXCEPT
                          ![w] = [NoWire EXCEPT !.inc = i, !.boot = job[j].boot,
                                                !.adopted = adopted, !.retired = FALSE]]
        /\ next' = [next EXCEPT !.wire = @ + 1, !.inc = IF adopted THEN @ ELSE @ + 1]
    BY <1>3, Zenon DEF AddWire
  <2>0. i \in Nat /\ m \in Nat
    BY DEF CreationInv, Shape, JobRecs
  <2>00. next' = [next EXCEPT !.wire = @ + 1, !.inc = m]
    BY <2>1, Zenon
  <2> HIDE DEF v, i, m
  <2>2. /\ RetiredWires(W1, v) \in [Wires -> WireRecs]
        /\ \A u \in Wires : /\ RetiredWires(W1, v)[u].busy = wires[u].busy
                            /\ RetiredWires(W1, v)[u].csSeq = wires[u].csSeq
                            /\ wires[u].retired => RetiredWires(W1, v)[u].retired
    <3>1. /\ W1 \in [Wires -> WireRecs]
          /\ \A u \in Wires : /\ W1[u].busy = wires[u].busy /\ W1[u].csSeq = wires[u].csSeq
                              /\ wires[u].retired => W1[u].retired
      BY RetiredKeeps DEF CreationInv, Shape
    <3> HIDE DEF W1
    <3> QED BY <3>1, RetiredKeeps, ZenonT(60)
  <2> DEFINE W2 == RetiredWires(W1, v)
             n  == [NoWire EXCEPT !.inc = i, !.boot = job[j].boot, !.adopted = adopted, !.retired = FALSE]
  <2>3. n \in WireRecs
    <3>1. job[j].boot \in Callers /\ adopted \in BOOLEAN
      BY Zenon DEF CreationInv, Shape, JobRecs
    <3> HIDE DEF adopted
    <3> QED BY <2>0, <3>1, NoWireShape, Zenon DEF WireRecs
  <2>4. wires' = [W2 EXCEPT ![w] = n]
    BY <2>1, Zenon
  <2>5. /\ next' \in [inc : Nat, wire : Nat \ {0}, sid : Nat \ {0}]
        /\ next'.wire = next.wire + 1 /\ next'.sid = next.sid /\ next.wire \in Nat
    <3>1. next \in [inc : Nat, wire : Nat \ {0}, sid : Nat \ {0}]
      BY Zenon DEF CreationInv, Shape
    <3>2. next.wire \in Nat /\ next.wire + 1 \in Nat \ {0}
      BY <3>1
    <3>3. next'.wire = next.wire + 1 /\ next'.sid = next.sid
      BY <2>00, <3>1, Zenon
    <3> HIDE DEF W1, W2, n, adopted
    <3>4. next' \in [inc : Nat, wire : Nat \ {0}, sid : Nat \ {0}]
      BY <2>0, <2>00, <3>1, <3>2, Zenon
    <3> QED BY <3>2, <3>3, <3>4, Zenon
  <2> HIDE DEF W2, n
  <2>6. SlotsKept
    <3>1. W2 \in [Wires -> WireRecs]
      BY <2>2, Zenon DEF W2
    <3>2. wires' \in [Wires -> WireRecs]
      BY <2>3, <2>4, <3>1, Zenon
    <3>3. ASSUME NEW u \in Wires, u < next.wire PROVE wires'[u] = W2[u]
      <4>1. u # w
        BY <2>5, <3>3 DEF Wires
      <4> QED BY <2>4, <3>1, <4>1, Zenon
    <3> QED
      BY <2>2, <3>2, <3>3, Zenon DEF SlotsKept, W2
  <2>7. \A u \in Wires : next'.wire <= u => wires'[u].retired
    <3> SUFFICES ASSUME NEW u \in Wires, next'.wire <= u PROVE wires'[u].retired
      BY Zenon
    <3>1. u \in Nat /\ u # w /\ next.wire <= u
      BY <2>5 DEF Wires
    <3>2. wires[u].retired
      BY <3>1, Zenon DEF CreationInv, PastInv
    <3> QED BY <2>2, <2>4, <3>1, <3>2, Zenon DEF W2
  <2> QED
    BY <1>1, <2>5, <2>6, <2>7, CalmStep
<1> QED BY <1>2, <1>3, Zenon

\* CREATE_SESSION begins: a worker that will claim a slot.
LEMMA BeginStep ==
  ASSUME CreationInv, NEW j \in All, beginCreate(j)
  PROVE  CreationInv'
<1>1. PICK w \in Wires, q \in 1..MaxSess + 1, p \in Principals :
         /\ ~wires[w].retired
         /\ job' = [job EXCEPT ![j] = [Idle EXCEPT !.pc = "claim", !.wire = w, !.seq = q,
                                                   !.boot = [NoBoot EXCEPT !.p = p]]]
  BY ZenonT(60) DEF beginCreate
<1>2. record' \in Nat /\ next' = next /\ wires' = wires /\ sess' = sess
  BY Unchanged, Zenon DEF beginCreate, durable
<1>3. w \in Nat /\ w < next.wire /\ q \in Nat /\ q # 0
  BY <1>1, ClientsAssumption DEF CreationInv, PastInv, Shape, Wires
<1> DEFINE b == [NoBoot EXCEPT !.p = p]
           y == [Idle EXCEPT !.pc = "claim", !.wire = w, !.seq = q, !.boot = b]
<1>0. b \in Callers /\ job' = [job EXCEPT ![j] = y]
  BY <1>1, AllCallers, Zenon
<1> HIDE DEF b
<1>4. y \in JobRecs /\ y.pc = "claim" /\ y.wire = w /\ y.seq = q /\ y.sid = 0
  BY <1>0, <1>3, IdleFields, Zenon DEF JobRecs, PCs
<1> HIDE DEF y
<1>5. ~Owner(y) /\ ~Deciding(y) /\ Claims(y, next.wire)
  BY <1>3, <1>4, Zenon DEF Owner, Deciding, Claims
<1>6. ~PastClaim(y)
  BY <1>4, <1>5, Zenon DEF PastClaim
<1>7. Calm(job[j], y)
  BY <1>4, <1>5, <1>6, Zenon DEF Calm
<1>8. job \in [All -> JobRecs] /\ job' = [job EXCEPT ![j] = y]
  BY <1>0, Zenon DEF CreationInv, Shape
<1>9. job' = [job EXCEPT ![j] = job'[j]] /\ Calm(job[j], job'[j])
  BY <1>7, <1>8, Zenon
<1> QED BY <1>2, <1>9, JobStep, Zenon

(* EndCreate by the owner of a slot, without a session.  W is what became of *)
(* the wire records before the slot was let go.                              *)
Touched(W, v) ==
    /\ W \in [Wires -> WireRecs]
    /\ \A w \in Wires : /\ wires[w].retired => W[w].retired
                        /\ wires[w].csSeq <= W[w].csSeq
                        /\ w # v => W[w].busy = wires[w].busy /\ W[w].csSeq = wires[w].csSeq

\* A slot that is let go of is free, with the answer or without.
LEMMA LetGo ==
  ASSUME NEW v \in Wires, NEW n \in Nat, NEW W, Touched(W, v), wires' = [W EXCEPT ![v].busy = n]
  PROVE  Touched(wires', v)
<1>1. W[v] \in WireRecs /\ W \in [Wires -> WireRecs]
  BY Zenon DEF Touched
<1> DEFINE x == [W[v] EXCEPT !.busy = n]
<1>2. x \in WireRecs /\ x.retired = W[v].retired /\ x.csSeq = W[v].csSeq
  BY <1>1, Zenon DEF WireRecs
<1>3. wires' = [W EXCEPT ![v] = x]
  BY <1>1, Zenon
<1> HIDE DEF x
<1>4. \A w \in Wires : w # v => wires'[w] = W[w]
  BY <1>1, <1>3, Zenon
<1>5. wires'[v] = x /\ wires' \in [Wires -> WireRecs]
  BY <1>1, <1>2, <1>3, Zenon
<1>6. \A w \in Wires : wires'[w].retired = W[w].retired /\ wires'[w].csSeq = W[w].csSeq
  BY <1>2, <1>4, <1>5, Zenon
<1> QED
  BY <1>4, <1>5, <1>6, Zenon DEF Touched

\* An owner that ends its request with its slot freed.
LEMMA EndsOwner ==
  ASSUME CreationInv, NEW j \in All, Owner(job[j]), record' \in Nat, next' = next,
         NEW W, NEW G, NEW F, Touched(W, job[j].wire), EndCreate(j, W, G, sess, F)
  PROVE  CreationInv'
<1> DEFINE v == job[j].wire
           n == IF W[v].busy = job[j].seq /\ job[j].sid # 0 THEN 0 ELSE W[v].busy
<1>1. v \in Wires /\ job[j].sid \in SIds
  BY Zenon DEF CreationInv, OwnersInv
<1>2. wires' = [W EXCEPT ![v].busy = n]
  BY Zenon DEF EndCreate
<1>3. sess' = sess /\ job' = [job EXCEPT ![j] = Idle]
  BY Zenon DEF EndCreate, End
<1>4. n \in Nat
  BY <1>1, Zenon DEF Touched, WireRecs
<1> HIDE DEF n
<1>5. Touched(wires', v)
  BY <1>1, <1>2, <1>4, LetGo, Zenon
<1>6. sess' \in [SIds -> SessRecs]
  BY <1>3, Zenon DEF CreationInv, Shape
<1> QED
  BY <1>3, <1>5, <1>6, OwnerEnds, Zenon DEF Touched

\* Retiring an owner's record, or caching its refusal, touches that record only.
LEMMA TouchedWires ==
  ASSUME CreationInv, NEW v \in Wires
  PROVE  /\ Touched(wires, v) /\ Touched(RetiredWires(wires, v), v)
         /\ \A q \in Nat : wires[v].csSeq <= q => Touched(Cache(wires, v, q, "CLID_INUSE"), v)
<1>1. wires \in [Wires -> WireRecs] /\ \A w \in Wires : wires[w].csSeq \in Nat
  BY Zenon DEF CreationInv, Shape, WireRecs
<1>2. Touched(wires, v)
  BY <1>1 DEF Touched
<1>3. Touched(RetiredWires(wires, v), v)
  BY <1>1, RetiredKeeps DEF Touched
<1>4. ASSUME NEW q \in Nat, wires[v].csSeq <= q PROVE Touched(Cache(wires, v, q, "CLID_INUSE"), v)
  <2> DEFINE x == [wires[v] EXCEPT !.csSeq = q, !.cached = "CLID_INUSE", !.busy = 0]
             W == [wires EXCEPT ![v] = x]
  <2>1. x \in WireRecs /\ x.retired = wires[v].retired /\ x.csSeq = q
    BY <1>1, Zenon DEF WireRecs
  <2>2. Cache(wires, v, q, "CLID_INUSE") = W
    BY <1>1, Zenon DEF Cache
  <2> HIDE DEF x
  <2>3. W \in [Wires -> WireRecs] /\ W[v] = x /\ \A w \in Wires : w # v => W[w] = wires[w]
    BY <1>1, <2>1, Zenon
  <2> HIDE DEF W
  <2>4. Touched(W, v)
    BY <1>1, <1>4, <2>1, <2>3 DEF Touched
  <2> QED BY <2>2, <2>4, Zenon
<1> QED BY <1>2, <1>3, <1>4, Zenon

(* An owner's wire, number and session id, as the following steps use them.  *)
LEMMA OwnerFacts ==
  ASSUME CreationInv, NEW j \in All, PastClaim(job[j])
  PROVE  /\ Owner(job[j]) /\ job[j].wire \in Wires /\ job[j].seq \in Nat
         /\ wires[job[j].wire].csSeq <= job[j].seq /\ wires[job[j].wire].inc \in Nat
<1>1. Owner(job[j])
  BY Zenon DEF CreationInv, JobsInv
<1>2. job[j].wire \in Wires /\ job[j].seq = wires[job[j].wire].csSeq + 1
  BY <1>1, Zenon DEF CreationInv, OwnersInv
<1>3. job[j].seq \in Nat /\ wires[job[j].wire].csSeq \in Nat /\ wires[job[j].wire].inc \in Nat
  BY <1>2, Zenon DEF CreationInv, Shape, JobRecs, WireRecs
<1> QED BY <1>1, <1>2, <1>3

\* A creation that fails gives its slot back and makes no session.
LEMMA FailOwner ==
  ASSUME CreationInv, NEW j \in All, PastClaim(job[j]), record' \in Nat, next' = next,
         NEW G, NEW F,
         \/ EndCreate(j, wires, G, sess, F)
         \/ EndCreate(j, RetiredWires(wires, job[j].wire), G, sess, F)
         \/ EndCreate(j, Cache(wires, job[j].wire, job[j].seq, "CLID_INUSE"), G, sess, F)
  PROVE  CreationInv'
<1>1. Owner(job[j]) /\ job[j].wire \in Wires /\ job[j].seq \in Nat /\ wires[job[j].wire].csSeq <= job[j].seq
  BY OwnerFacts, Zenon
<1>2. /\ Touched(wires, job[j].wire) /\ Touched(RetiredWires(wires, job[j].wire), job[j].wire)
      /\ Touched(Cache(wires, job[j].wire, job[j].seq, "CLID_INUSE"), job[j].wire)
  BY <1>1, TouchedWires, Zenon
<1> QED BY <1>1, <1>2, EndsOwner, Zenon

(* An owner goes on to another step of its creation.                         *)
LEMMA OwnerGoes ==
  ASSUME CreationInv, NEW j \in All, PastClaim(job[j]), NEW pc \in {"write", "drop", "purge", "commit", "replaced"},
         Go(j, pc), record' \in Nat, next' = next
  PROVE  /\ wires' = wires /\ sess' = sess => CreationInv'
         /\ \A v : wires' = RetiredWires(wires, v) /\ OriginsKept => CreationInv'
<1>1. job' = [job EXCEPT ![j] = job'[j]] /\ Calm(job[j], job'[j])
  <2>1. pc \in PCs \ {"claim"} /\ pc \notin {"decide", "remove", "retirewire", "retiresess", "retirestate"}
    BY Zenon DEF PCs
  <2> QED BY <2>1, GoCalm, Zenon
<1> QED BY <1>1, JobStep, QuietStep, Zenon

\* ClaimSlot: the slot is claimed, or the request answered or refused.
LEMMA ClaimStep ==
  ASSUME CreationInv, NEW j \in All, ClaimSlot(j)
  PROVE  CreationInv'
<1> DEFINE w == job[j].wire
           c == wires[w]
<1>1. job[j].pc = "claim" /\ record' = record /\ record' \in Nat
  BY Unchanged, Zenon DEF ClaimSlot
<1>2. CASE c.retired \/ SlotAnswers(c, job[j].seq) \/ next.sid > MaxSess
  <2>1. FailCreate(j) /\ next' = next
    BY <1>2, Zenon DEF ClaimSlot
  <2>2. job[j].sid = 0 /\ w \in Wires
    BY <1>1, Zenon DEF CreationInv, JobsInv, Claims
  <2>3. wires' = wires
    <3>1. wires' = [wires EXCEPT ![w].busy = wires[w].busy]
      BY <2>1, <2>2, Zenon DEF FailCreate, EndCreate
    <3>2. wires \in [Wires -> WireRecs] /\ wires[w] \in WireRecs
      BY <2>2, Zenon DEF CreationInv, Shape
    <3>3. [wires[w] EXCEPT !.busy = wires[w].busy] = wires[w]
      BY <3>2, Zenon DEF WireRecs
    <3> QED BY <3>1, <3>2, <3>3, Zenon
  <2>4. sess' = sess /\ End(j)
    BY <2>1, Zenon DEF FailCreate, EndCreate
  <2> QED BY <1>1, <2>1, <2>3, <2>4, EndCalm, JobStep, Zenon
<1>3. CASE ~(c.retired \/ SlotAnswers(c, job[j].seq) \/ next.sid > MaxSess)
  <2> DEFINE pc == IF c.confirmed \/ c.adopted THEN "islive" ELSE "confirm"
  <2>1. /\ wires' = [wires EXCEPT ![job[j].wire].busy = job[j].seq]
        /\ next' = [next EXCEPT !.sid = @ + 1]
        /\ job' = [job EXCEPT ![j].sid = next.sid, ![j].pc = pc]
        /\ sess' = sess
    BY <1>3, Zenon DEF ClaimSlot
  <2>2. pc \in {"islive", "confirm"}
    BY Zenon
  <2>3. next.sid <= MaxSess
    BY <1>3, ClientsAssumption DEF CreationInv, Shape
  <2>4. ~SlotAnswers(wires[job[j].wire], job[j].seq)
    BY <1>3, Zenon
  <2> HIDE DEF pc, c, w
  <2> QED BY <1>1, <2>1, <2>2, <2>3, <2>4, OwnerBegins, Zenon
<1> QED BY <1>2, <1>3, Zenon

\* The checks of a creation between ClaimSlot and the write of its record.
LEMMA CheckSteps ==
  ASSUME CreationInv, NEW j \in All,
         CheckLive(j) \/ confirmPending(j) \/ ClosePrevious(j) \/ CheckPrincipal(j)
  PROVE  CreationInv'
<1>0. record' = record /\ record' \in Nat /\ next' = next /\ PastClaim(job[j])
  BY Unchanged, Zenon DEF CheckLive, confirmPending, ClosePrevious, CheckPrincipal, PastClaim
<1>1. CASE CheckLive(j)
  <2>1. \/ EndCreate(j, Cache(wires, job[j].wire, job[j].seq, "CLID_INUSE"), groups, sess, files)
        \/ EndCreate(j, RetiredWires(wires, job[j].wire), RetiredGroups(groups, sess, wires, job[j].wire), sess, files)
        \/ Go(j, "commit") /\ wires' = wires /\ sess' = sess
    BY <1>1, Zenon DEF CheckLive
  <2> QED BY <1>0, <2>1, FailOwner, OwnerGoes, Zenon
<1>2. CASE confirmPending(j)
  <2>1. \/ EndCreate(j, Cache(wires, job[j].wire, job[j].seq, "CLID_INUSE"), groups, sess, files)
        \/ EndCreate(j, wires, groups, sess, files)
        \/ Call(j, record, TRUE, "close") /\ wires' = wires /\ sess' = sess
        \/ Go(j, "write") /\ wires' = wires /\ sess' = sess
    BY <1>2, Zenon DEF confirmPending, FailCreate
  <2>2. CASE Call(j, record, TRUE, "close") /\ wires' = wires /\ sess' = sess
    <3> DEFINE y == [job[j] EXCEPT !.pc = "decide", !.inc = record, !.state = TRUE, !.ret = "close"]
    <3>1. job[j] \in JobRecs /\ job \in [All -> JobRecs]
      BY Zenon DEF CreationInv, Shape
    <3>2. job' = [job EXCEPT ![j] = y]
      BY <2>2, <3>1, Zenon DEF Call
    <3>3. /\ y \in JobRecs /\ y.pc = "decide" /\ y.ret = "close"
          /\ y.wire = job[j].wire /\ y.seq = job[j].seq /\ y.sid = job[j].sid
      BY <1>0, <3>1, ZenonT(60) DEF JobRecs, PCs, Returns
    <3> HIDE DEF y
    <3>4. Owner(job[j])
      BY <1>0, OwnerFacts, Zenon
    <3>5. Owner(y)
      BY <3>3, <3>4, Zenon DEF Owner
    <3>6. Calm(job[j], y)
      BY <3>3, <3>5, Zenon DEF Calm
    <3>7. job' = [job EXCEPT ![j] = job'[j]] /\ Calm(job[j], job'[j])
      BY <3>1, <3>2, <3>6, Zenon
    <3> QED BY <1>0, <2>2, <3>7, JobStep, Zenon
  <2> QED BY <1>0, <2>1, <2>2, FailOwner, OwnerGoes, Zenon
<1>3. CASE ClosePrevious(j)
  <2>1. \/ EndCreate(j, wires, groups, sess, files)
        \/ Go(j, "write") /\ wires' = wires /\ sess' = sess
        \/ job' = [job EXCEPT ![j].pc = "principal", ![j].old = record] /\ wires' = wires /\ sess' = sess
    BY <1>3, Zenon DEF ClosePrevious, FailCreate
  <2>2. CASE job' = [job EXCEPT ![j].pc = "principal", ![j].old = record] /\ wires' = wires /\ sess' = sess
    <3> DEFINE y == [job[j] EXCEPT !.pc = "principal", !.old = record]
    <3>1. job[j] \in JobRecs /\ job \in [All -> JobRecs]
      BY Zenon DEF CreationInv, Shape
    <3>2. job' = [job EXCEPT ![j] = y]
      BY <2>2, <3>1, Zenon
    <3>3. /\ y \in JobRecs /\ y.pc = "principal"
          /\ y.wire = job[j].wire /\ y.seq = job[j].seq /\ y.sid = job[j].sid
      BY <1>0, <3>1, Zenon DEF JobRecs, PCs
    <3> HIDE DEF y
    <3>4. Owner(job[j])
      BY <1>0, OwnerFacts, Zenon
    <3>5. Owner(y) /\ ~Deciding(y)
      BY <3>3, <3>4, Zenon DEF Owner, Deciding
    <3>6. Calm(job[j], y)
      BY <3>3, <3>5, Zenon DEF Calm
    <3>7. job' = [job EXCEPT ![j] = job'[j]] /\ Calm(job[j], job'[j])
      BY <3>1, <3>2, <3>6, Zenon
    <3> QED BY <1>0, <2>2, <3>7, JobStep, Zenon
  <2> QED BY <1>0, <2>1, <2>2, FailOwner, OwnerGoes, Zenon
<1>4. CASE CheckPrincipal(j)
  <2>1. \/ EndCreate(j, Cache(wires, job[j].wire, job[j].seq, "CLID_INUSE"), Reopened(job[j].old), sess, files)
        \/ Go(j, "write") /\ wires' = wires /\ sess' = sess
    BY <1>4, Zenon DEF CheckPrincipal
  <2> QED BY <1>0, <2>1, FailOwner, OwnerGoes, Zenon
<1> QED BY <1>1, <1>2, <1>3, <1>4, Zenon

\* Dropping the sessions of the incarnation that is replaced keeps origins.
LEMMA DropKeeps ==
  ASSUME CreationInv, NEW j, NEW p, dropClient(j, p)
  PROVE  \E v : wires' = RetiredWires(wires, v) /\ OriginsKept
<1>1. CASE ~groups[p].there
  BY <1>1, Unchanged, Zenon DEF dropClient
<1>2. CASE groups[p].there
  <2>1. sess' = Detached(sess, p) /\ wires' = RetiredWires(wires, groups[p].wire)
    BY <1>2, Zenon DEF dropClient
  <2>2. OriginsKept
    BY <2>1, DetachedKeeps, Zenon DEF CreationInv, Shape
  <2> QED BY <2>1, <2>2, Zenon
<1> QED BY <1>1, <1>2, Zenon

\* The record is written, the old incarnation dropped.
LEMMA ConfirmSteps ==
  ASSUME CreationInv, NEW j \in All,
         Confirm(j) \/ Replaced(j) \/ DropReplaced(j) \/ PurgeState(j)
  PROVE  CreationInv'
<1>0. next' = next /\ PastClaim(job[j]) /\ record \in Nat /\ wires[job[j].wire].inc \in Nat
  <2>1. next' = next /\ PastClaim(job[j]) /\ record \in Nat
    BY Unchanged, Zenon DEF Confirm, Replaced, DropReplaced, PurgeState, PastClaim
  <2> QED BY <2>1, OwnerFacts, Zenon
<1>1. CASE Confirm(j)
  <2>1. /\ record' \in Nat
        /\ \/ EndCreate(j, wires, Reopened(job[j].old), sess, files)
           \/ Go(j, "commit") /\ wires' = wires /\ sess' = sess
           \/ Go(j, "replaced") /\ wires' = wires /\ sess' = sess
    BY <1>0, <1>1, Zenon DEF Confirm
  <2> QED BY <1>0, <2>1, FailOwner, OwnerGoes, Zenon
<1>2. CASE Replaced(j)
  BY <1>0, <1>2, OwnerGoes, Zenon DEF Replaced, durable
<1>3. CASE DropReplaced(j)
  <2>1. Go(j, "purge") /\ record' \in Nat /\ dropClient(j, job[j].old)
    BY <1>0, <1>3, Zenon DEF DropReplaced
  <2> QED BY <1>0, <2>1, DropKeeps, OwnerGoes, Zenon
<1>4. CASE PurgeState(j)
  BY <1>0, <1>4, OwnerGoes, Zenon DEF PurgeState
<1> QED BY <1>1, <1>2, <1>3, <1>4, Zenon

(* commitLocked: the one step that gives a session its origin.               *)
LEMMA CommitStep ==
  ASSUME CreationInv, NEW j \in All, Commit(j)
  PROVE  CreationInv'
<1> DEFINE w == job[j].wire
           q == job[j].seq
           z == job[j].sid
           i == wires[w].inc
<1>0. record' \in Nat /\ next' = next /\ PastClaim(job[j])
  BY Unchanged, Zenon DEF Commit, PastClaim
<1>1. CASE wires[w].retired \/ expired(i)
  <2>1. EndCreate(j, wires, groups, sess, files)
    BY <1>1, Zenon DEF Commit, FailCreate
  <2> QED BY <1>0, <2>1, FailOwner, Zenon
<1>2. CASE ~wires[w].retired /\ ~expired(i)
  <2>0. Owner(job[j]) /\ w \in Wires /\ q \in Nat /\ wires[w].csSeq <= q /\ i \in Nat /\ z \in SIds /\ z # 0
    <3>1. Owner(job[j])
      BY <1>0, OwnerFacts, Zenon
    <3>2. z \in SIds /\ z # 0
      BY <3>1, Zenon DEF CreationInv, OwnersInv, Owner
    <3> QED BY <1>0, <3>1, <3>2, OwnerFacts, Zenon
  <2> DEFINE W == [Cache(wires, w, q, "OK") EXCEPT ![w].confirmed = TRUE]
             G == [groups EXCEPT ![i].dropped = FALSE, ![i].quiet = TRUE]
             n == [inc |-> i, att |-> TRUE, users |-> 1, from |-> <<w, q>>]
             S == [sess EXCEPT ![z] = n]
             x == [wires[w] EXCEPT !.csSeq = q, !.cached = "OK", !.busy = 0, !.confirmed = TRUE]
  <2>1. EndCreate(j, W, G, S, files)
    BY <1>2, Zenon DEF Commit
  <2>2. /\ wires \in [Wires -> WireRecs] /\ wires[w] \in WireRecs /\ sess \in [SIds -> SessRecs]
        /\ \A u \in Wires : wires[u].csSeq \in Nat
        /\ w \in Nat
    BY <2>0, SMTT(60) DEF CreationInv, Shape, WireRecs, Wires
  <2>3. W = [wires EXCEPT ![w] = x]
    BY <2>0, <2>2, Zenon DEF Cache
  <2>4. x \in WireRecs /\ x.retired = wires[w].retired /\ x.csSeq = q /\ x.busy = 0
    BY <2>0, <2>2, Zenon DEF WireRecs
  <2>5. n \in SessRecs /\ n.from = <<w, q>>
    BY <2>0, <2>2 DEF SessRecs
  <2> DEFINE m == IF W[w].busy = q /\ z # 0 THEN 0 ELSE W[w].busy
  <2>6. wires' = [W EXCEPT ![w].busy = m] /\ sess' = S /\ job' = [job EXCEPT ![j] = Idle]
    BY <2>1, Zenon DEF EndCreate, End
  <2> HIDE DEF x, n, G
  <2>7. W \in [Wires -> WireRecs] /\ W[w] = x /\ \A u \in Wires : u # w => W[u] = wires[u]
    BY <2>0, <2>2, <2>3, <2>4, Zenon
  <2> HIDE DEF W
  <2>8. m = 0
    BY <2>4, <2>7, Zenon
  <2> HIDE DEF m
  <2>9. Touched(W, w)
    BY <2>0, <2>2, <2>4, <2>7 DEF Touched
  <2>10. Touched(wires', w)
    BY <2>0, <2>6, <2>8, <2>9, LetGo, Zenon
  <2>11. wires'[w].csSeq = q
    <3>1. W[w] \in WireRecs /\ W[w].csSeq = q /\ W \in [Wires -> WireRecs]
      BY <2>4, <2>7, Zenon
    <3>2. wires'[w] = [W[w] EXCEPT !.busy = 0]
      BY <2>0, <2>6, <2>8, <3>1, Zenon
    <3> QED BY <3>1, <3>2, Zenon DEF WireRecs
  <2>12. /\ sess' \in [SIds -> SessRecs] /\ sess'[z].from = <<w, q>>
         /\ \A s \in SIds : s # z => sess'[s].from = sess[s].from
    BY <2>0, <2>2, <2>5, <2>6, Zenon
  <2>13. job' = [job EXCEPT ![j] = Idle]
    BY <2>6, Zenon
  <2> QED
    BY <1>0, <1>2, <2>0, <2>10, <2>11, <2>12, <2>13, OwnerEnds, Zenon DEF Touched
<1> QED BY <1>1, <1>2, Zenon

\* The steps of CREATE_SESSION.
LEMMA CreateSteps ==
  ASSUME CreationInv, NEW j \in All, createSession(j)
  PROVE  CreationInv'
  BY ClaimStep, CheckSteps, ConfirmSteps, CommitStep, Zenon DEF createSession

-----------------------------------------------------------------------------
(* Requests, DESTROY_SESSION and DESTROY_CLIENTID touch no slot.             *)
LEMMA FreeGoes ==
  ASSUME CreationInv, NEW j \in All,
         NEW pc \in {"gate", "run", "open", "finish", "release", "expire", "unrecord"},
         Go(j, pc), record' \in Nat, next' = next
  PROVE  /\ wires' = wires /\ OriginsKept => CreationInv'
         /\ \A v : wires' = RetiredWires(wires, v) /\ OriginsKept => CreationInv'
<1>1. job' = [job EXCEPT ![j] = job'[j]] /\ Calm(job[j], job'[j])
  <2>1. /\ pc \in PCs \ {"claim"} /\ pc \notin {"decide", "remove", "retirewire", "retiresess", "retirestate"}
        /\ pc \notin {"islive", "confirm", "close", "principal", "write", "replaced", "drop", "purge", "commit"}
    BY Zenon DEF PCs
  <2> QED BY <2>1, GoCalm, Zenon
<1> QED BY <1>1, Unchanged, QuietStep, Zenon

\* A worker without a slot that ends and leaves sessions to others.
LEMMA FreeEnds ==
  ASSUME CreationInv, NEW j \in All, End(j), record' \in Nat, next' = next, wires' = wires, OriginsKept
  PROVE  CreationInv'
  BY EndCalm, Unchanged, QuietStep, Zenon

\* SEQUENCE: a session is used, the lease gate passed, the request run.
LEMMA RequestSteps ==
  ASSUME CreationInv, NEW j \in All, request(j)
  PROVE  CreationInv'
<1>0. /\ record' \in Nat /\ next' = next /\ wires' = wires
      /\ sess' = sess => OriginsKept
      /\ sess \in [SIds -> SessRecs]
  <2>1. record' = record /\ next' = next /\ wires' = wires
    BY Zenon DEF request, useSession, activate, RunRequest, OpenStatus, RegisterOpen, FinishRequest, releaseHold, durable
  <2> QED BY <2>1, Unchanged, Zenon DEF CreationInv, Shape
<1>1. CASE useSession(j)
  <2>1. \/ sess' = [sess EXCEPT ![job[j].sid].users = @ + 1] /\ Go(j, "gate")
        \/ sess' = sess /\ End(j)
    BY <1>1, Zenon DEF useSession
  <2>2. sess' = [sess EXCEPT ![job[j].sid].users = @ + 1] => OriginsKept
    BY <1>0, UsersKeep, Zenon
  <2> QED BY <1>0, <2>1, <2>2, FreeGoes, FreeEnds, Zenon
<1>2. CASE activate(j)
  <2>1. \/ sess' = sess /\ Go(j, "run")
        \/ sess' = Unused(job[j].sid) /\ End(j)
    BY <1>2, Zenon DEF activate
  <2> QED BY <1>0, <2>1, UnusedKeeps, FreeGoes, FreeEnds, Zenon
<1>3. CASE RunRequest(j)
  <2>1. /\ sess' = sess
        /\ \/ Go(j, "finish")
           \/ job' = [job EXCEPT ![j].pc = "status", ![j].state = job[j].inc \notin staged]
    BY <1>3, Zenon DEF RunRequest
  <2>2. CASE job' = [job EXCEPT ![j].pc = "status", ![j].state = job[j].inc \notin staged]
    <3> DEFINE b == job[j].inc \notin staged
               y == [job[j] EXCEPT !.pc = "status", !.state = b]
    <3>0. b \in BOOLEAN
      BY Zenon
    <3> HIDE DEF b
    <3>1. job[j] \in JobRecs /\ job \in [All -> JobRecs]
      BY Zenon DEF CreationInv, Shape
    <3>2. job' = [job EXCEPT ![j] = y]
      BY <2>2, <3>1, Zenon DEF b
    <3>3. /\ y \in JobRecs /\ y.pc = "status"
          /\ y.wire = job[j].wire /\ y.seq = job[j].seq /\ y.sid = job[j].sid
      BY <3>0, <3>1, Zenon DEF JobRecs, PCs
    <3> HIDE DEF y
    <3>4. ~Deciding(y) /\ ~PastClaim(y)
      BY <3>3, Zenon DEF Deciding, PastClaim
    <3>5. Calm(job[j], y)
      BY <3>3, <3>4, Zenon DEF Calm
    <3>6. job' = [job EXCEPT ![j] = job'[j]] /\ Calm(job[j], job'[j])
      BY <3>1, <3>2, <3>5, Zenon
    <3> QED BY <1>0, <2>1, <3>6, JobStep, Zenon
  <2> QED BY <1>0, <2>1, <2>2, FreeGoes, Zenon
<1>4. CASE OpenStatus(j)
  <2>1. sess' = sess /\ (Go(j, "open") \/ Go(j, "finish"))
    BY <1>4, Zenon DEF OpenStatus
  <2> QED BY <1>0, <2>1, FreeGoes, Zenon
<1>5. CASE RegisterOpen(j)
  BY <1>0, <1>5, FreeGoes, Zenon DEF RegisterOpen
<1>6. CASE FinishRequest(j)
  BY <1>0, <1>6, UnusedKeeps, FreeGoes, Zenon DEF FinishRequest
<1>7. CASE releaseHold(j)
  BY <1>0, <1>7, FreeEnds, Zenon DEF releaseHold
<1> QED BY <1>1, <1>2, <1>3, <1>4, <1>5, <1>6, <1>7, Zenon DEF request

\* holdRequest: a request takes a session.
LEMMA HoldStep ==
  ASSUME CreationInv, NEW j \in All, holdRequest(j) \/ DestroyClientID(j)
  PROVE  CreationInv'
<1>1. record' \in Nat /\ next' = next /\ wires' = wires /\ sess' = sess
  BY Unchanged, Zenon DEF holdRequest, DestroyClientID, durable
<1>2. CASE holdRequest(j)
  <2>1. PICK s \in SIds : job' = [job EXCEPT ![j] = [Idle EXCEPT !.pc = "use", !.sid = s, !.inc = sess[s].inc]]
    BY <1>2, Zenon DEF holdRequest
  <2> DEFINE y == [Idle EXCEPT !.pc = "use", !.sid = s, !.inc = sess[s].inc]
  <2>2. s \in Nat /\ sess[s].inc \in Nat
    BY ClientsAssumption DEF SIds, CreationInv, Shape, SessRecs
  <2>3. y \in JobRecs /\ y.pc = "use" /\ y.wire = 0
    BY <2>2, IdleFields, Zenon DEF JobRecs, PCs
  <2> HIDE DEF y
  <2>4. job' = [job EXCEPT ![j] = job'[j]] /\ Calm(job[j], job'[j])
    BY <2>1, <2>3, FreshCalm, Zenon DEF y
  <2> QED BY <1>1, <2>4, JobStep, Zenon
<1>3. CASE DestroyClientID(j)
  <2>1. PICK w \in Wires : job' = [job EXCEPT ![j] = [Idle EXCEPT !.pc = "destroy", !.wire = w, !.inc = wires[w].inc]]
    BY <1>3, Zenon DEF DestroyClientID
  <2> DEFINE y == [Idle EXCEPT !.pc = "destroy", !.wire = w, !.inc = wires[w].inc]
  <2>2. w \in Nat /\ wires[w].inc \in Nat
    BY ClientsAssumption DEF Wires, CreationInv, Shape, WireRecs
  <2>3. y \in JobRecs /\ y.pc = "destroy" /\ y.sid = 0
    BY <2>2, IdleFields, Zenon DEF JobRecs, PCs
  <2> HIDE DEF y
  <2>4. job' = [job EXCEPT ![j] = job'[j]] /\ Calm(job[j], job'[j])
    BY <2>1, <2>3, FreshCalm, Zenon DEF y
  <2> QED BY <1>1, <2>4, JobStep, Zenon
<1> QED BY <1>2, <1>3, Zenon

(* A step in which no worker moves.                                          *)
LEMMA NobodyMoves ==
  ASSUME CreationInv, job' = job, record' = record, next' = next, wires' = wires, OriginsKept
  PROVE  CreationInv'
<1>1. sweeper \in All
  BY Zenon DEF All
<1>2. job' = [job EXCEPT ![sweeper] = job'[sweeper]] /\ Calm(job[sweeper], job'[sweeper])
  BY <1>1, StillCalm, Zenon DEF CreationInv, Shape
<1> QED BY <1>1, <1>2, Unchanged, QuietStep, Zenon

\* DESTROY_SESSION and DESTROY_CLIENTID.
LEMMA DestroySteps ==
  ASSUME CreationInv, NEW j \in All, destroySession(j) \/ destroyClient(j)
  PROVE  CreationInv'
<1>0. record \in Nat /\ next' = next /\ (sess' = sess => OriginsKept) /\ sess \in [SIds -> SessRecs]
  <2>1. next' = next
    BY Zenon DEF destroySession, destroyClient, destroyClientRecord, DestroyState, DestroyRecord
  <2> QED BY <2>1, Unchanged, Zenon DEF CreationInv, Shape
<1>1. CASE destroySession(j)
  <2>1. PICK s \in SIds : sess' = [sess EXCEPT ![s].att = FALSE, ![s].users = @ - 1]
    BY <1>1, Zenon DEF destroySession
  <2>2. OriginsKept
    <3>1. sess[s] \in SessRecs /\ sess[s].users - 1 \in Int /\ FALSE \in BOOLEAN
      BY <1>0 DEF SessRecs
    <3> DEFINE x == [sess[s] EXCEPT !.att = FALSE, !.users = sess[s].users - 1]
    <3>2. x \in SessRecs /\ x.from = sess[s].from
      BY <3>1, SessionChanged, Zenon
    <3>3. sess' = [sess EXCEPT ![s] = x]
      BY <1>0, <2>1, Zenon
    <3> HIDE DEF x
    <3> QED BY <1>0, <3>2, <3>3, Zenon DEF OriginsKept
  <2>3. job' = job /\ record' = record /\ wires' = wires
    BY <1>1, Zenon DEF destroySession
  <2> QED BY <1>0, <2>2, <2>3, NobodyMoves, Zenon
<1>2. CASE destroyClientRecord(j)
  <2>1. /\ record' \in Nat
        /\ \/ End(j) /\ wires' = wires /\ sess' = sess
           \/ dropClient(j, wires[job[j].wire].inc) /\ Go(j, "expire")
    BY <1>0, <1>2, Zenon DEF destroyClientRecord
  <2> QED BY <1>0, <2>1, DropKeeps, FreeGoes, FreeEnds, Zenon
<1>3. CASE DestroyState(j)
  BY <1>0, <1>3, FreeGoes, Zenon DEF DestroyState
<1>4. CASE DestroyRecord(j)
  <2>1. record' \in Nat /\ End(j) /\ wires' = wires /\ sess' = sess
    BY <1>0, <1>4 DEF DestroyRecord
  <2> QED BY <1>0, <2>1, FreeEnds, Zenon
<1> QED BY <1>1, <1>2, <1>3, <1>4, Zenon DEF destroyClient

-----------------------------------------------------------------------------
(* The sweeper and time.                                                     *)
\* The sweeper between two visits: it has no creation.
LEMMA TurnKeeps ==
  ASSUME CreationInv, NEW pc \in {"idle", "staging", "records", "groups", "visit"}, NEW S,
         Turn(pc, S), record' \in Nat, next' = next, wires' = wires, sess' = sess
  PROVE  CreationInv'
<1> DEFINE y == [Idle EXCEPT !.pc = pc]
<1>1. sweeper \in All /\ job \in [All -> JobRecs] /\ job' = [job EXCEPT ![sweeper] = y]
  BY Zenon DEF All, CreationInv, Shape, Turn
<1>2. y \in JobRecs /\ y.pc = pc /\ y.wire = 0
  BY IdleFields, Zenon DEF JobRecs, PCs
<1> HIDE DEF y
<1>3. ~Owner(y) /\ ~Deciding(y) /\ y.pc # "claim"
  BY <1>2, Zenon DEF Owner, Deciding
<1>4. ~PastClaim(y)
  BY <1>2, <1>3, Zenon DEF PastClaim
<1>5. Calm(job[sweeper], y)
  BY <1>2, <1>3, <1>4, Zenon DEF Calm
<1>6. job' = [job EXCEPT ![sweeper] = job'[sweeper]] /\ Calm(job[sweeper], job'[sweeper])
  BY <1>1, <1>5, Zenon
<1> QED BY <1>1, <1>6, JobStep, Zenon

\* The tick of the sweeper.
LEMMA SweepSteps ==
  ASSUME CreationInv, runLeaseSweep
  PROVE  CreationInv'
<1>0. record' = record /\ record' \in Nat /\ next' = next /\ wires' = wires /\ sess' = sess /\ OriginsKept
      /\ sweeper \in All
  BY Unchanged, Zenon DEF runLeaseSweep, ListStaged, ListClients, Sweep, Swept, Prune, durable, All
<1>1. CASE ListStaged
  BY <1>0, <1>1, TurnKeeps, Zenon DEF ListStaged
<1>2. CASE ListClients
  BY <1>0, <1>2, TurnKeeps, Zenon DEF ListClients
<1>3. ASSUME NEW i \in Incs, Sweep(i) PROVE CreationInv'
  <2>1. \/ Call(sweeper, i, TRUE, "retire") \/ Call(sweeper, i, TRUE, "swept")
        \/ \E pc \in {"staging", "visit"} : Turn(pc, todo \ {i})
    BY <1>3, Zenon DEF Sweep
  <2>2. ASSUME NEW r \in {"retire", "swept"}, Call(sweeper, i, TRUE, r) PROVE CreationInv'
    <3> DEFINE y == [job[sweeper] EXCEPT !.pc = "decide", !.inc = i, !.state = TRUE, !.ret = r]
    <3>1. job[sweeper] \in JobRecs /\ job \in [All -> JobRecs]
      BY <1>0, Zenon DEF CreationInv, Shape
    <3>2. job' = [job EXCEPT ![sweeper] = y]
      BY <2>2, <3>1, Zenon DEF Call
    <3>3. i \in Nat
      BY ClientsAssumption DEF Incs
    <3>4. /\ y \in JobRecs /\ y.pc = "decide" /\ y.ret = r
          /\ y.wire = job[sweeper].wire /\ y.seq = job[sweeper].seq /\ y.sid = job[sweeper].sid
      BY <3>1, <3>3, ZenonT(60) DEF JobRecs, PCs, Returns
    <3> HIDE DEF y
    <3>5. ~PastClaim(y)
      BY <3>4, Zenon DEF PastClaim
    <3>6. Calm(job[sweeper], y)
      BY <3>4, <3>5, Zenon DEF Calm
    <3>7. job' = [job EXCEPT ![sweeper] = job'[sweeper]] /\ Calm(job[sweeper], job'[sweeper])
      BY <1>0, <3>1, <3>2, <3>6, Zenon
    <3> QED BY <1>0, <3>7, JobStep, Zenon
  <2> QED BY <1>0, <2>1, <2>2, TurnKeeps, Zenon
<1>4. CASE Swept
  BY <1>0, <1>4, TurnKeeps, Zenon DEF Swept
<1>5. CASE Prune
  BY <1>0, <1>5, TurnKeeps, Zenon DEF Prune
<1> QED BY <1>1, <1>2, <1>3, <1>4, <1>5, Zenon DEF runLeaseSweep

\* Time.
LEMMA TimeSteps ==
  ASSUME CreationInv, (\E i \in Incs : QuietEnds(i)) \/ StartupEnds
  PROVE  CreationInv'
<1>1. record' \in Nat /\ next' = next /\ wires' = wires /\ sess' = sess /\ job' = job /\ record' = record
      /\ OriginsKept
  BY Unchanged, Zenon DEF QuietEnds, StartupEnds, durable
<1> QED BY <1>1, NobodyMoves, Zenon

(* A restart forgets every wire record and every creation; the sessions it    *)
(* restores keep their origins.                                              *)
LEMMA RestartStep ==
  ASSUME CreationInv, Restart
  PROVE  CreationInv'
<1> DEFINE back == {s \in files \cap served : sess[s].inc = record}
<1>1. /\ record' = record /\ next' = next
      /\ wires' = [w \in Wires |-> NoWire]
      /\ job' = [j \in All |-> Idle]
      /\ sess' = [s \in SIds |-> [sess[s] EXCEPT !.att = s \in back, !.users = IF s \in back THEN 1 ELSE 0]]
  BY Zenon DEF Restart
<1> HIDE DEF back
<1>2. OriginsKept
  <2>1. sess \in [SIds -> SessRecs]
    BY Zenon DEF CreationInv, Shape
  <2>2. ASSUME NEW s \in SIds
        PROVE  /\ [sess[s] EXCEPT !.att = s \in back, !.users = IF s \in back THEN 1 ELSE 0] \in SessRecs
               /\ [sess[s] EXCEPT !.att = s \in back, !.users = IF s \in back THEN 1 ELSE 0].from = sess[s].from
    <3> DEFINE b == s \in back
               n == IF s \in back THEN 1 ELSE 0
    <3>1. b \in BOOLEAN /\ n \in Int /\ sess[s] \in SessRecs
      BY <2>1
    <3> HIDE DEF b, n
    <3>2. /\ [sess[s] EXCEPT !.att = b, !.users = n] \in SessRecs
          /\ [sess[s] EXCEPT !.att = b, !.users = n].from = sess[s].from
      BY <3>1, SessionChanged, Zenon
    <3> QED BY <3>2, Zenon DEF b, n
  <2> QED BY <1>1, <2>2, Zenon DEF OriginsKept
<1>3. Shape'
  BY <1>1, <1>2, IdleIsCalm, NoWireShape, Zenon DEF CreationInv, Shape, OriginsKept
<1>4. \A j \in All : job'[j] = Idle /\ ~Owner(job'[j]) /\ ~Deciding(job'[j]) /\ ~PastClaim(job'[j]) /\ job'[j].pc # "claim"
  <2>1. Idle.pc = "idle"
    BY Zenon DEF Idle
  <2>2. ~Deciding(Idle) /\ ~PastClaim(Idle) /\ Idle.pc # "claim"
    BY <2>1, Zenon DEF Deciding, PastClaim
  <2> QED BY <1>1, <2>2, IdleIsCalm, Zenon
<1>5. JobsInv' /\ OwnersInv' /\ ApartInv'
  BY <1>4, Zenon DEF JobsInv, OwnersInv, ApartInv
<1>6. PastInv'
  <2>1. \A w \in Wires : wires'[w].retired
    BY <1>1, NoWireShape, Zenon
  <2> QED BY <1>1, <1>2, <2>1, Zenon DEF CreationInv, PastInv, OriginsKept
<1>7. CreationOnce'
  BY <1>2, Zenon DEF CreationInv, CreationOnce, OriginsKept
<1> QED BY <1>3, <1>5, <1>6, <1>7, Zenon DEF CreationInv

\* A server that starts on an empty store.
LEMMA CreationInit == Init => CreationInv
<1> SUFFICES ASSUME Init PROVE CreationInv
  BY Zenon
<1>1. /\ record = 0 /\ next = [inc |-> 1, wire |-> 1, sid |-> 1]
      /\ wires = [w \in Wires |-> NoWire] /\ sess = [s \in SIds |-> NoSess]
      /\ job = [j \in All |-> Idle]
  BY Zenon DEF Init
<1>2. NoSess \in SessRecs /\ NoSess.from = <<0, 0>>
  BY DEF NoSess, SessRecs
<1>3. Shape
  BY <1>1, <1>2, IdleIsCalm, NoWireShape DEF Shape
<1>4. \A j \in All : ~Owner(job[j]) /\ ~Deciding(job[j]) /\ ~PastClaim(job[j]) /\ job[j].pc # "claim"
  <2>1. Idle.pc = "idle"
    BY Zenon DEF Idle
  <2>2. ~Deciding(Idle) /\ ~PastClaim(Idle) /\ Idle.pc # "claim"
    BY <2>1, Zenon DEF Deciding, PastClaim
  <2> QED BY <1>1, <2>2, IdleIsCalm, Zenon
<1>5. JobsInv /\ OwnersInv /\ ApartInv
  BY <1>4, Zenon DEF JobsInv, OwnersInv, ApartInv
<1>6. PastInv /\ CreationOnce
  BY <1>1, <1>2, NoWireShape, Zenon DEF PastInv, CreationOnce
<1> QED BY <1>3, <1>5, <1>6, Zenon DEF CreationInv

\* Every step keeps the invariant.
LEMMA CreationNext == CreationInv /\ [Next]_vars => CreationInv'
<1> SUFFICES ASSUME CreationInv, [Next]_vars PROVE CreationInv'
  BY Zenon
<1>1. ASSUME NEW j \in Workers,
             ExchangeID(j) \/ beginCreate(j) \/ holdRequest(j) \/ destroySession(j) \/ DestroyClientID(j)
      PROVE  CreationInv'
  <2>1. j \in All
    BY Zenon DEF All
  <2> QED BY <1>1, <2>1, RegisterSteps, BeginStep, HoldStep, DestroySteps, Zenon
<1>2. ASSUME NEW j \in All, Steps(j) PROVE CreationInv'
  BY <1>2, DecideSteps, RegisterSteps, AddWireStep, CreateSteps, RequestSteps, DestroySteps, Zenon DEF Steps
<1>3. CASE runLeaseSweep \/ (\E i \in Incs : QuietEnds(i)) \/ StartupEnds
  BY <1>3, SweepSteps, TimeSteps, Zenon
<1>4. CASE Restart
  BY <1>4, RestartStep, Zenon
<1>5. CASE UNCHANGED vars
  <2>1. job' = job /\ record' = record /\ next' = next /\ wires' = wires /\ sess' = sess
    BY <1>5, Zenon DEF vars
  <2> QED BY <2>1, Unchanged, NobodyMoves, Zenon
<1> QED BY <1>1, <1>2, <1>3, <1>4, <1>5, Zenon DEF Next

(* creation.go: however a CREATE_SESSION is retransmitted, and however many   *)
(* workers, failing writes and restarts there are, no two sessions come from *)
(* one sequence number of a wire clientid.                                   *)
THEOREM CreatesOnce == Spec => []CreationOnce
<1>1. Spec => []CreationInv
  BY CreationInit, CreationNext, PTL DEF Spec
<1>2. CreationInv => CreationOnce
  BY Zenon DEF CreationInv
<1> QED BY <1>1, <1>2, PTL
=============================================================================
