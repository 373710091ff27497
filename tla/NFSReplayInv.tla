------------------------------- MODULE NFSReplayInv -------------------------
(***************************************************************************)
(* The inductive invariant of NFSReplay, in layers, and Step, a description*)
(* of the steps that hides how NFSReplay writes them: what each does to a  *)
(* slot, its compound, the records and TernFS.  The layers are proved from *)
(* Step (NFSReplayRecords, NFSReplayTruth); that the model's steps are of  *)
(* this kind is proved in NFSReplaySteps.                                  *)
(*                                                                         *)
(*   Base      the shape of the state: who owns slot, thread and record    *)
(*   Wire      only the request its client waits for can be taken up       *)
(*   Compound  where a running compound is, relative to its intent         *)
(*   Rows,     the newest record of a slot is what the process thinks it   *)
(*   Held        is, and the intent the compound runs with                 *)
(*   Ahead     what was touched lies behind the compound, or in its intent *)
(*   Lives     a process hears only of calls it has submitted itself       *)
(***************************************************************************)
EXTENDS NFSReplayState

Statuses == {"OK", "EXIST", "NOENT", "IO", "SERVERFAULT", "DEADSESSION", "RETRY_UNCACHED_REP",
             "BADSESSION", "SEQ_FALSE_RETRY", "SEQ_MISORDERED"}

PCs == {"idle", "op", "decide", "look", "intent", "iwrite", "submit", "wait", "finish", "fwrite"}
EdgeRecs   == [id : Nat, ct : Nat]
Pays       == [op : Nat \ {0}, k : {"REMOVE", "RENAME", "CREATE"}, from : Names, to : Names, edge : EdgeRecs, dst : Nat]
Intents    == [kind : {"INTENT"}, seq : Nat, rid : Nat, val : Pays]
Replies    == [kind : {"SLOT"}, seq : Nat, rid : Nat, val : Statuses]
DiskRecs   == {NoRec} \cup Intents \cup Replies
Requests   == [ops : Seq(Operations), cache : BOOLEAN, slot : Slots, seq : Nat]

SlotRecs   == [seq : Nat, occupied : BOOLEAN, inUse : BOOLEAN, restored : BOOLEAN, rid : Nat,
               reply : Statuses \cup {"nil"}, intent : Pays \cup {NoPay}]

Threads    == [pc : PCs, rid : Nat, op : Nat, mutated : BOOLEAN, intentOp : Nat,
               replay : Pays \cup {NoPay}, pending : BOOLEAN, pay : Pays \cup {NoPay},
               status : Statuses]

ClientRecs == [rid : Nat, seq : Nat, waiting : BOOLEAN]
Messages   == [slot : Slots, seq : Nat, rid : Nat]
CallRecs   == [rid : Nat, slot : Slots, life : Nat, pay : Pays]

ShapeFs ==
    /\ edges \in [Names -> EdgeRecs] /\ clock \in Nat
    /\ calls \subseteq CallRecs
    /\ done \in [1..MaxReqs -> [1..MaxOps -> Nat]]
    /\ meant \in [1..MaxReqs -> [1..MaxOps -> Pays \cup {NoPay}]]
    /\ used \in [Troubles -> Nat]

ShapeDisk ==
    /\ disk \in [there : BOOLEAN, area : [Slots -> [1..2 -> DiskRecs]]]
    /\ sess \in {"up", "retired", "unknown", "down"}
    /\ file \in {"none", "live", "gone", "poisoned"}
    /\ cur \in [Slots -> 0..2]

ShapeMem ==
    /\ slots \in [Slots -> SlotRecs]
    /\ th \in [Slots -> Threads]

ShapePeer ==
    /\ client \in [Slots -> ClientRecs]
    /\ net \subseteq Messages
    /\ reqs \in Seq(Requests) /\ Len(reqs) <= MaxReqs
    /\ got \in [1..MaxReqs -> Statuses \cup {"none"}]

Shape == ShapeFs /\ ShapeDisk /\ ShapeMem /\ ShapePeer
Rids       == 1..Len(reqs)
Ops(r)     == 1..Len(reqs[r].ops)
Running(s) == th[s].pc # "idle"

-----------------------------------------------------------------------------
(* A slot's sequence ids grow, and the client is at the last of them.        *)
Of(s, r, q) == r \in Rids /\ reqs[r].slot = s /\ reqs[r].seq = q

RequestsInv ==
    /\ \A r \in Rids : Len(reqs[r].ops) \in 1..MaxOps /\ reqs[r].seq \in 1..r
    /\ \A r, q \in Rids : r < q /\ reqs[r].slot = reqs[q].slot => reqs[r].seq < reqs[q].seq

ClientsInv ==
    \A s \in Slots :
        /\ \A r \in Rids : reqs[r].slot = s => r <= client[s].rid
        /\ \/ client[s].rid = 0 /\ client[s].seq = 0 /\ ~client[s].waiting
           \/ Of(s, client[s].rid, client[s].seq)

NetInv  == \A m \in net : Of(m.slot, m.rid, m.seq)
OwnInv  == \A s \in Slots : slots[s].occupied => Of(s, slots[s].rid, slots[s].seq)

AreaInv == \A s \in Slots : \A a \in 1..2 :
              disk.area[s][a].kind # "NONE" => Of(s, disk.area[s][a].rid, disk.area[s][a].seq)

(* A compound runs on a slot that is in use by its request.                  *)
Inside     == {"decide", "look", "intent", "iwrite", "submit", "wait"}

Paid       == {"intent", "iwrite", "submit", "wait"}

PaysFor(s) == /\ th[s].pay \in Pays /\ th[s].pay.op = th[s].op /\ th[s].pay.k = Op(s).k
              /\ th[s].pay.from = Op(s).from /\ th[s].pay.to = Op(s).to
              /\ th[s].pay.k # "CREATE" => th[s].pay.edge # NoEdge

SlotInv(s) ==
    /\ ~slots[s].occupied => /\ slots[s].seq = 0 /\ slots[s].rid = 0 /\ ~slots[s].inUse
                             /\ slots[s].reply = "nil" /\ slots[s].intent = NoPay
    /\ sess = "up" /\ ~Running(s) => ~slots[s].inUse
    /\ ~Running(s) => th[s] = Idle
    /\ Running(s) =>
          /\ sess \in {"up", "retired"}
          /\ slots[s].occupied /\ slots[s].inUse /\ ~slots[s].restored
          /\ th[s].rid = slots[s].rid /\ th[s].op \in Ops(th[s].rid)
          /\ th[s].pc # "fwrite" => slots[s].reply = "nil"
          /\ th[s].pc \in {"iwrite", "fwrite"} => file = "live"
          /\ th[s].pc \in Inside => Protected(Op(s)) /\ th[s].mutated
          /\ th[s].pc \in Paid => PaysFor(s)
    /\ slots[s].restored => ~slots[s].inUse

FileInv ==
    /\ file = "none" <=> sess \in {"unknown", "down"}
    /\ file = "live" => disk.there
    /\ file = "gone" => ~disk.there

Base == Shape /\ RequestsInv /\ ClientsInv /\ NetInv /\ OwnInv /\ AreaInv /\ FileInv
        /\ \A s \in Slots : SlotInv(s)

-----------------------------------------------------------------------------
(* What the steps of a compound do to its thread.                            *)
Moves(s) == /\ th' \in [Slots -> Threads] /\ (\A o \in Slots : o # s => th'[o] = th[o])
            /\ th'[s].rid = th[s].rid /\ th'[s].replay = th[s].replay

Stops(s) == th'[s].pc = "finish" /\ th'[s].status # "OK" /\ th'[s].op = th[s].op

Goes(s)  == \/ th'[s].pc = "finish" /\ th'[s].status = "OK" /\ th'[s].op = th[s].op /\ Final(s)
            \/ th'[s].pc = "op" /\ th'[s].op = th[s].op + 1 /\ ~Final(s)

Same(s)  == th'[s].mutated = th[s].mutated /\ th'[s].intentOp = th[s].intentOp
            /\ th'[s].pending = th[s].pending

(* invalidate: the file goes, stays behind poisoned, or was not live.        *)
Invalidated ==
    /\ \/ file # "live" /\ file' = file /\ disk' = disk
       \/ file = "live" /\ file' = "gone" /\ disk' = [disk EXCEPT !.there = FALSE]
       \/ file = "live" /\ file' = "poisoned" /\ disk' = disk
    /\ used' \in [Troubles -> Nat]
    /\ used'["kills"] = used["kills"]

(* Gates: refused, into the operation, or past one that touches no name; a   *)
(* compound that has changed something goes on only without its file.        *)
GatesStep(s) ==
    /\ th[s].pc = "op" /\ Moves(s)
    /\ th'[s].intentOp = th[s].intentOp /\ th'[s].pending = th[s].pending
    /\ \/ Stops(s) /\ th'[s].mutated = th[s].mutated
       \/ /\ replayGate(s) = "OK"
          /\ th[s].mutated /\ recoveryEffect(Op(s)) => file' # "live" /\ file' # "poisoned"
          /\ \/ /\ Protected(Op(s)) /\ th'[s].pc = "decide" /\ th'[s].op = th[s].op
                /\ th'[s].mutated
             \/ /\ ~Protected(Op(s)) /\ Goes(s)
                /\ (th'[s].mutated <=> th[s].mutated \/ recoveryEffect(Op(s)))
    /\ \/ Invalidated /\ ~Writing
       \/ UNCHANGED <<file, disk, used>>
    /\ UNCHANGED <<fsys, sess, cur, slots, peer>>

(* Decide: a restored intent of this operation is taken. *)
Found(s) == th[s].pending /\ th[s].replay.op = th[s].op

DecideStep(s) ==
    /\ th[s].pc = "decide" /\ Moves(s)
    /\ th'[s].mutated = th[s].mutated
    /\ Found(s) => th'[s].intentOp = th[s].op /\ ~th'[s].pending
    /\ ~Found(s) => th'[s].intentOp = th[s].intentOp /\ th'[s].pending = th[s].pending
    /\ \/ Decision(s) = "none" /\ th'[s].pc = "look" /\ th'[s].op = th[s].op
       \/ Decision(s) = "applied" /\ Goes(s)
       \/ Stops(s)
    /\ UNCHANGED <<fsys, disk, sess, file, cur, slots, peer, used>>

(* LookupEdge: the operation fails, or has its payload. *)
LookStep(s) ==
    /\ th[s].pc = "look" /\ Moves(s) /\ Same(s)
    /\ \/ Stops(s)
       \/ /\ th'[s].pc = "intent" /\ th'[s].op = th[s].op
          /\ th'[s].pay \in Pays
          /\ th'[s].pay.op = th[s].op /\ th'[s].pay.k = Op(s).k
          /\ th'[s].pay.from = Op(s).from /\ th'[s].pay.to = Op(s).to
          /\ th'[s].pay.edge = edges[Op(s).from]
          /\ Op(s).k # "CREATE" => edges[Op(s).from] # NoEdge
    /\ UNCHANGED <<fsys, disk, sess, file, cur, slots, peer, used>>

(* persistIntent: refused; the restored intent stands; written; or not       *)
(* needed, the session having no file.                                       *)
Means(s) == meant' = [meant EXCEPT ![th[s].rid][th[s].op] = th[s].pay]

PersistStep(s) ==
    /\ th[s].pc = "intent" /\ Moves(s)
    /\ th'[s].mutated = th[s].mutated /\ th'[s].pending = th[s].pending
    /\ \/ /\ Stops(s) /\ th'[s].intentOp = th[s].intentOp /\ disk' = disk
          /\ meant' = meant \/ (th[s].intentOp # th[s].op /\ Means(s))
       \/ /\ th[s].intentOp = th[s].op /\ th[s].pay = th[s].replay
          /\ th'[s].pc = "submit" /\ th'[s].intentOp = th[s].op
          /\ th'[s].op = th[s].op /\ th'[s].pay = th[s].pay
          /\ disk' = disk /\ meant' = meant /\ file # "poisoned"
       \/ /\ th[s].intentOp # th[s].op /\ file = "live" /\ BeginWrite(s) /\ Means(s)
          /\ th'[s].pc = "iwrite" /\ th'[s].intentOp = th[s].intentOp
          /\ th'[s].op = th[s].op /\ th'[s].pay = th[s].pay
       \/ /\ th[s].intentOp # th[s].op /\ file = "gone" /\ disk' = disk /\ Means(s)
          /\ th'[s].pc = "submit" /\ th'[s].intentOp = th[s].op
          /\ th'[s].op = th[s].op /\ th'[s].pay = th[s].pay
    /\ UNCHANGED <<edges, clock, calls, done, linked, sess, file, cur, slots, peer, used>>

(* IntentWritten: written; or not, and the file goes or stays poisoned. *)
Alone(s) == \A o \in Slots \ {s} : th[o].pc \notin {"iwrite", "fwrite"}

IntentOf(s) == [kind |-> "INTENT", seq |-> slots[s].seq, rid |-> th[s].rid, val |-> th[s].pay]

IWrittenStep(s) ==
    /\ th[s].pc = "iwrite" /\ Moves(s) /\ file = "live"
    /\ th'[s].mutated = th[s].mutated /\ th'[s].pending = th[s].pending
    /\ \/ EndWrite(s, IntentOf(s))
       \/ Alone(s) /\ Invalidated /\ cur' = cur
    /\ \/ /\ th'[s].pc = "submit" /\ th'[s].intentOp = th[s].op /\ file' # "poisoned"
          /\ th'[s].op = th[s].op /\ th'[s].pay = th[s].pay
       \/ Stops(s) /\ th'[s].intentOp = th[s].intentOp /\ file' = "poisoned"
    /\ UNCHANGED <<fsys, sess, slots, peer>>

CallOf(s) == [rid |-> th[s].rid, slot |-> s, life |-> used["kills"], pay |-> th[s].pay]

SubmitStep(s) ==
    /\ th[s].pc = "submit" /\ Moves(s) /\ Same(s)
    /\ th'[s].pc = "wait" /\ th'[s].op = th[s].op /\ th'[s].pay = th[s].pay
    /\ calls' = calls \cup {CallOf(s)}
    /\ UNCHANGED <<edges, clock, done, meant, linked, disk, sess, file, cur, slots, peer, used>>

NoAnswerStep(s) ==
    /\ th[s].pc = "wait" /\ Moves(s) /\ Same(s) /\ Stops(s)
    /\ used' \in [Troubles -> Nat] /\ used'["kills"] = used["kills"]
    /\ UNCHANGED <<fsys, disk, sess, file, cur, slots, peer>>

(* Land: carried out or refused, and heard of or not. *)
Lands(c) == IF c.pay.k = "CREATE" THEN edges[c.pay.from] = NoEdge ELSE edges[c.pay.from] = c.pay.edge

Hears(c) == c.life = used["kills"] /\ th[c.slot].pc = "wait" /\ th[c.slot].rid = c.rid

LandStep(c) ==
    /\ c \in calls /\ c.slot \in Slots /\ c.pay \in Pays /\ calls' = calls \ {c}
    /\ ~Lands(c) => UNCHANGED <<edges, clock, done, linked>>
    /\ Lands(c) => done' = [done EXCEPT ![c.rid][c.pay.op] = @ + 1]
    /\ ~Hears(c) => th' = th
    /\ Hears(c) => /\ Moves(c.slot) /\ Same(c.slot)
                   /\ Lands(c) => Goes(c.slot)
                   /\ ~Lands(c) => Stops(c.slot)
    /\ UNCHANGED <<meant, disk, sess, file, cur, slots, peer, used>>

-----------------------------------------------------------------------------
(* What the other steps do to a slot.                                        *)
KeepIds ==
    /\ slots' \in [Slots -> SlotRecs]
    /\ \A o \in Slots :
          /\ slots'[o].seq = slots[o].seq /\ slots'[o].rid = slots[o].rid
          /\ slots'[o].intent = slots[o].intent
          /\ slots'[o].occupied <=> slots[o].occupied
          /\ slots'[o].restored <=> slots[o].restored

(* Answer: the client hears, if it still waits for this request. *)
Answered(s, r, st) ==
    /\ client' \in [Slots -> ClientRecs]
    /\ \A o \in Slots : client'[o].rid = client[o].rid /\ client'[o].seq = client[o].seq
                        /\ (o # s => client'[o] = client[o])
    /\ \/ client' = client /\ got' = got
       \/ /\ client[s].waiting /\ client[s].rid = r /\ ~client'[s].waiting
          /\ got' = [got EXCEPT ![r] = st]

(* The compound is over and its worker has sent the reply. *)
Leaves(s) ==
    /\ th' \in [Slots -> Threads] /\ th'[s] = Idle /\ (\A o \in Slots : o # s => th'[o] = th[o])
    /\ Answered(s, th[s].rid, th[s].status)
    /\ UNCHANGED <<net, reqs>>

(* The other slots keep their replies, unless the session is retired. *)
SlotsKept(s) ==
    /\ KeepIds
    /\ \A o \in Slots : o # s => (slots'[o].inUse <=> slots[o].inUse)
    /\ \A o \in Slots : o # s => slots'[o].reply = slots[o].reply
                                 \/ (sess' = "retired" /\ slots'[o].reply = "nil")

FinishStep(s) ==
    /\ th[s].pc = "finish" /\ SlotsKept(s)
    /\ slots'[s].reply = Saved(s) \/ (sess' = "retired" /\ slots'[s].reply = "nil")
    /\ \/ /\ sess = "up" /\ file = "live" /\ BeginWrite(s) /\ slots'[s].reply = Saved(s)
          /\ slots'[s].inUse <=> slots[s].inUse
          /\ Moves(s) /\ Same(s) /\ th'[s].pc = "fwrite" /\ th'[s].op = th[s].op
          /\ th'[s].status = th[s].status
          /\ UNCHANGED <<sess, client, net, reqs, got>>
       \/ /\ Leaves(s) /\ disk' = disk /\ file # "none"
          /\ sess' = "up" => sess = "up" /\ ~slots'[s].inUse /\ file = "gone"
          /\ sess' \in {"up", "retired"}
    /\ UNCHANGED <<fsys, file, cur, used>>

SlotOf(s) == [kind |-> "SLOT", seq |-> slots[s].seq, rid |-> th[s].rid, val |-> Saved(s)]

SWrittenStep(s) ==
    /\ th[s].pc = "fwrite" /\ SlotsKept(s) /\ ~slots'[s].inUse /\ Leaves(s) /\ file = "live"
    /\ slots'[s].reply = slots[s].reply \/ (sess' = "retired" /\ slots'[s].reply = "nil")
    /\ \/ EndWrite(s, SlotOf(s)) /\ sess' = sess
       \/ /\ Alone(s) /\ Invalidated /\ cur' = cur
          /\ \/ file' = "gone" /\ sess' = sess
             \/ file' = "poisoned" /\ sess' = "retired"
    /\ UNCHANGED fsys

(* startSequence: a restored request is run again, or a later one is new. *)
StartStep(m) ==
    /\ m.slot \in Slots /\ Of(m.slot, m.rid, m.seq) /\ th[m.slot].pc = "idle"
    /\ sess = "up" /\ ~slots[m.slot].inUse
    /\ slots' \in [Slots -> SlotRecs] /\ (\A o \in Slots : o # m.slot => slots'[o] = slots[o])
    /\ slots'[m.slot].seq = m.seq /\ slots'[m.slot].rid = m.rid /\ slots'[m.slot].occupied
    /\ slots'[m.slot].inUse /\ ~slots'[m.slot].restored /\ slots'[m.slot].reply = "nil"
    /\ slots'[m.slot].intent = NoPay
    /\ th' \in [Slots -> Threads] /\ (\A o \in Slots : o # m.slot => th'[o] = th[o])
    /\ th'[m.slot].pc = "op" /\ th'[m.slot].rid = m.rid /\ th'[m.slot].op = 1
    /\ ~th'[m.slot].mutated /\ th'[m.slot].intentOp = 0
    /\ th'[m.slot].pending <=> th'[m.slot].replay # NoPay
    /\ \/ /\ slots[m.slot].occupied /\ slots[m.slot].seq = m.seq /\ slots[m.slot].rid = m.rid
          /\ slots[m.slot].reply = "nil" /\ slots[m.slot].restored
          /\ th'[m.slot].replay = slots[m.slot].intent
       \/ /\ th'[m.slot].replay = NoPay /\ slots[m.slot].seq < m.seq
          /\ slots[m.slot].restored \/ m.seq = slots[m.slot].seq + 1
    /\ UNCHANGED <<fsys, disk, sess, file, cur, peer, used>>

(* What a load makes of the newest record. *)
Restored(s) ==
    /\ slots'[s] \in SlotRecs /\ slots'[s].restored /\ ~slots'[s].inUse
    /\ \/ /\ NewestArea(s) = 0 /\ ~slots'[s].occupied /\ slots'[s].seq = 0 /\ slots'[s].rid = 0
          /\ slots'[s].reply = "nil" /\ slots'[s].intent = NoPay
       \/ /\ NewestArea(s) \in 1..2
          /\ disk.area[s][NewestArea(s)].kind # "NONE"
          /\ slots'[s].occupied
          /\ slots'[s].seq = disk.area[s][NewestArea(s)].seq
          /\ slots'[s].rid = disk.area[s][NewestArea(s)].rid
          /\ disk.area[s][NewestArea(s)].kind = "SLOT" =>
               slots'[s].reply = disk.area[s][NewestArea(s)].val /\ slots'[s].intent = NoPay
               /\ slots'[s].reply \in Statuses
          /\ disk.area[s][NewestArea(s)].kind = "INTENT" =>
               slots'[s].reply = "nil" /\ slots'[s].intent = disk.area[s][NewestArea(s)].val
               /\ slots'[s].intent \in Pays

-----------------------------------------------------------------------------
(* A call is an operation of a request that was sent on its slot.            *)
CallsInv ==
    \A c \in calls :
        /\ c.rid \in Rids /\ reqs[c.rid].slot = c.slot /\ c.life <= used["kills"]
        /\ c.pay.op \in Ops(c.rid) /\ c.pay.k = reqs[c.rid].ops[c.pay.op].k
        /\ c.pay.from = reqs[c.rid].ops[c.pay.op].from /\ c.pay.to = reqs[c.rid].ops[c.pay.op].to
        /\ c.pay.k # "CREATE" => c.pay.edge # NoEdge

(* The edges after a step of TernFS: a name keeps its edge, loses it, or has *)
(* a younger one, and what is current has been linked.                       *)
EdgesStep ==
    /\ edges' \in [Names -> EdgeRecs] /\ clock' \in Nat /\ clock' >= clock /\ linked \subseteq linked'
    /\ \A n \in Names : \/ edges'[n] = edges[n]
                        \/ edges'[n] = NoEdge
                        \/ /\ edges'[n].ct = clock + 1 /\ clock' = clock + 1
                           /\ <<n, edges'[n].id>> \in linked'
                           /\ \/ edges'[n].id = clock + 1
                              \/ \E o \in Names : edges[o] # NoEdge /\ edges'[n].id = edges[o].id

SendStep(s) ==
    /\ Len(reqs') = Len(reqs) + 1 /\ Rids \subseteq Rids' /\ (\A r \in Rids : reqs'[r] = reqs[r])
    /\ ~client[s].waiting /\ client' \in [Slots -> ClientRecs]
    /\ \A o \in Slots : o # s => client'[o] = client[o]
    /\ client'[s].rid = Len(reqs) + 1 /\ client'[s].seq = client[s].seq + 1 /\ client'[s].waiting
    /\ reqs'[Len(reqs) + 1].slot = s /\ reqs'[Len(reqs) + 1].seq = client[s].seq + 1
    /\ net' = net \cup {[slot |-> s, seq |-> client[s].seq + 1, rid |-> Len(reqs) + 1]}
    /\ UNCHANGED <<fsys, disk, mem, got, used>>

RetransmitStep(s) ==
    /\ client[s].waiting /\ Of(s, client[s].rid, client[s].seq)
    /\ net' = net \cup {[slot |-> s, seq |-> client[s].seq, rid |-> client[s].rid]}
    /\ UNCHANGED <<fsys, disk, mem, client, reqs, got, used>>

RetireStep ==
    /\ sess = "up" /\ sess' = "retired" /\ KeepIds
    /\ \A o \in Slots : th[o].pc # "fwrite" /\ slots'[o].reply = "nil"
                        /\ (slots'[o].inUse <=> slots[o].inUse)
    /\ UNCHANGED <<fsys, disk, file, cur, th, peer, used>>

CloseStep ==
    /\ sess = "retired" /\ sess' = "unknown" /\ file' = "none" /\ (\A s \in Slots : th[s].pc = "idle")
    /\ disk'.area = disk.area /\ (disk'.there => disk.there) /\ ShapeDisk'
    /\ used' \in [Troubles -> Nat] /\ used'["kills"] = used["kills"]
    /\ UNCHANGED <<fsys, cur, slots, th, peer>>

KillStep ==
    /\ sess' = "down" /\ file' = "none" /\ net' = {}
    /\ \A s \in Slots : /\ ~slots'[s].occupied /\ slots'[s].intent = NoPay /\ slots'[s].reply = "nil"
                        /\ th'[s].pc = "idle" /\ ~slots'[s].restored
    /\ used'["kills"] = used["kills"] + 1
    /\ UNCHANGED <<fsys, disk, client, reqs, got>>

RestoreStep ==
    /\ sess = "down" /\ th' = th /\ UNCHANGED <<fsys, peer, used>>
    /\ \/ /\ disk.there /\ sess' = "up" /\ file' = "live" /\ disk' = disk
          /\ \A s \in Slots : cur'[s] = NewestArea(s) /\ Restored(s)
       \/ /\ sess' = "unknown" /\ file' = "none" /\ ~disk'.there /\ disk'.area = disk.area
          /\ UNCHANGED <<cur, slots>>

(* A call that lands leaves the edge it named, for good.                     *)
LandMoves(c) ==
    /\ EdgesStep /\ clock' = clock + 1
    /\ c.pay.k = "RENAME" => <<c.pay.to, c.pay.edge.id>> \in linked'
    /\ c.pay.k # "CREATE" => edges'[c.pay.from] = NoEdge \/ edges'[c.pay.from].ct = clock + 1

LandsStep(c) == LandStep(c) /\ (Lands(c) => LandMoves(c))

OtherStep ==
    /\ EdgesStep /\ used' \in [Troubles -> Nat] /\ used'["kills"] = used["kills"]
    /\ UNCHANGED <<calls, done, meant, disk, mem, peer>>

ServeStep(m) ==
    /\ m.slot \in Slots /\ sess # "down"
    /\ UNCHANGED <<fsys, disk, mem, net, reqs, used>>
    /\ \E st \in Statuses : /\ Answered(m.slot, m.rid, st)
                            /\ \/ Admission(m) = "replay" /\ st = slots[m.slot].reply
                               \/ Admission(m) \notin {"new", "rerun", "replay", "DELAY"} /\ st # "OK"

Step ==
    \/ \E s \in Slots : \/ SendStep(s) \/ RetransmitStep(s) \/ GatesStep(s) \/ DecideStep(s)
                        \/ LookStep(s) \/ PersistStep(s) \/ IWrittenStep(s) \/ SubmitStep(s)
                        \/ NoAnswerStep(s) \/ FinishStep(s) \/ SWrittenStep(s)
    \/ \E m \in net : StartStep(m) \/ ServeStep(m)
    \/ \E c \in calls : LandsStep(c)
    \/ RetireStep \/ CloseStep \/ KillStep \/ RestoreStep \/ OtherStep
    \/ UNCHANGED vars

(* Messages.  Only the request its client waits for can be taken up.         *)
Stale(m, s) == m.slot = s /\ (m.rid # client[s].rid \/ ~client[s].waiting)

Wire(s) ==
    /\ sess = "up" =>
         /\ ~slots[s].restored => /\ client[s].seq <= slots[s].seq + 1
                                  /\ ~client[s].waiting => client[s].seq <= slots[s].seq
         /\ Running(s) => th[s].rid = client[s].rid /\ client[s].waiting
         /\ \A m \in net : Stale(m, s) =>
              /\ m.seq <= slots[s].seq
              /\ slots[s].restored /\ m.seq = slots[s].seq => slots[s].reply # "nil"
    /\ sess = "down" => \A m \in net : ~Stale(m, s)

WireInv == \A s \in Slots : Wire(s)

(* The steps that run a compound or change TernFS. *)
Inner ==
    /\ UNCHANGED <<slots, sess, peer>>
    /\ \A o \in Slots : th'[o].rid = th[o].rid /\ (Running(o)' => Running(o))

(* A compound: the intent it was rerun with is taken at its operation, or    *)
(* refuses everything before it that has an effect.                          *)
Compound(s) ==
    /\ th[s].pending => th[s].replay.op # 0 /\ th[s].pc \in {"op", "decide", "finish", "fwrite"}
    /\ th[s].pc \in {"op", "decide"} => th[s].intentOp < th[s].op
    /\ th[s].pc = "op" /\ th[s].pending => ~th[s].mutated /\ th[s].op <= th[s].replay.op
    /\ th[s].pc = "decide" /\ th[s].pending => th[s].replay.op = th[s].op
    /\ th[s].pc \in {"op", "decide"} /\ ~th[s].pending => th[s].replay.op < th[s].op
    /\ th[s].pc \in {"look", "intent", "iwrite", "submit"} /\ th[s].replay.op = th[s].op =>
          th[s].intentOp = th[s].op /\ th[s].pc # "iwrite" /\ Op(s).k # "CREATE"
    /\ th[s].pc \in {"look", "intent", "iwrite"} /\ th[s].replay.op # th[s].op =>
          th[s].intentOp < th[s].op
    /\ th[s].pc \in {"look", "intent", "iwrite", "submit", "wait"} => th[s].replay.op <= th[s].op
    /\ th[s].pc \in {"submit", "wait"} => th[s].intentOp = th[s].op

CompoundInv == \A s \in Slots : Compound(s)

(* Records.  The newest of a slot is what its sequence ids say it is.        *)
Newest(s) == disk.area[s][NewestArea(s)]

(* The newest record of a slot carries a sequence id the client has used. *)
SeqsIn == \A s \in Slots : NewestArea(s) # 0 => Newest(s).seq \in 1..MaxReqs

(* The records of a slot, as the process knows them: it writes to the other  *)
(* area than the newest one's; nothing on disk is later than the slot; and a *)
(* restored slot says what its newest record says.                           *)
Current(s) == NewestArea(s) # 0 /\ Newest(s).seq = slots[s].seq

Rows(s) ==
    disk.there =>
    /\ sess \in {"up", "retired"} =>
         /\ cur[s] = NewestArea(s)
         /\ \A a \in 1..2 : disk.area[s][a].kind # "NONE" =>
              slots[s].occupied /\ disk.area[s][a].seq <= slots[s].seq
    /\ sess = "up" /\ slots[s].restored =>
         /\ slots[s].occupied => /\ NewestArea(s) # 0
                                 /\ slots[s].seq = Newest(s).seq /\ slots[s].rid = Newest(s).rid
         /\ NewestArea(s) # 0 /\ Newest(s).kind = "SLOT" => slots[s].reply = Newest(s).val
         /\ NewestArea(s) # 0 /\ Newest(s).kind = "INTENT" =>
              slots[s].reply = "nil" /\ slots[s].intent = Newest(s).val

(* A record of the request that runs is the intent it runs with.             *)
Held(s) ==
    disk.there /\ Running(s) =>
    /\ th[s].pc \in {"iwrite", "fwrite"} => disk.area[s][Target(s)] = NoRec
    /\ Current(s) =>
         /\ Newest(s).kind = "INTENT" /\ th[s].pc # "iwrite"
         /\ th[s].pc = "op" /\ ~th[s].mutated => th[s].pending /\ th[s].replay = Newest(s).val
         /\ th[s].pc = "decide" => th[s].pending /\ th[s].replay = Newest(s).val
         /\ th[s].pc \in {"look", "intent"} => th[s].intentOp = th[s].op /\ th[s].replay = Newest(s).val
         /\ th[s].pc \in {"submit", "wait"} => th[s].pay = Newest(s).val
    /\ th[s].pc \in {"submit", "wait"} \/ th[s].replay # NoPay => Current(s)

RecordsInv == \A s \in Slots : Rows(s) /\ Held(s)

(* The newest record stays, or a later one takes its place. *)
Advances(s) ==
    disk'.there /\ NewestArea(s) # 0 =>
       /\ disk.there /\ NewestArea(s)' # 0
       /\ Newest(s)' = Newest(s) \/ newer(Newest(s)', Newest(s))
       /\ \/ Newest(s)' = Newest(s)
          \/ Newest(s).seq' > Newest(s).seq
          \/ Newest(s).seq' = Newest(s).seq /\ Newest(s).rid' = Newest(s).rid /\ Newest(s).kind' = "SLOT"

(* Operation i of request r has been carried out or submitted. *)
Touched(r, i) == done[r][i] > 0 \/ \E c \in calls : c.rid = r /\ c.pay.op = i

(* A compound finds what was touched before it only through its intent. *)
ThreadStep(s) ==
    \/ th'[s] = th[s]
    \/ ~Running(s)'
    \/ GatesStep(s) \/ DecideStep(s) \/ LookStep(s) \/ PersistStep(s) \/ IWrittenStep(s)
    \/ SubmitStep(s) \/ NoAnswerStep(s)
    \/ \E c \in calls : LandsStep(c) /\ Hears(c) /\ c.slot = s
    \/ \E m \in net : StartStep(m) /\ m.slot = s
    \/ FinishStep(s) /\ Moves(s) /\ Same(s) /\ th'[s].pc = "fwrite" /\ th'[s].op = th[s].op
         /\ th'[s].status = th[s].status /\ slots'[s].reply = Saved(s)

Late == {"look", "intent", "iwrite", "submit"}

Ahead(s) ==
    Running(s) => \A r \in 1..MaxReqs : \A i \in 1..MaxOps : r = th[s].rid /\ Touched(r, i) =>
        /\ th[s].pc \in {"op", "decide"} /\ th[s].op <= i => th[s].pending /\ th[s].replay.op = i
        /\ th[s].pc \in Late /\ th[s].op <= i => i = th[s].op /\ th[s].replay.op = i
        /\ th[s].pc = "wait" => i <= th[s].op

AheadInv == \A s \in Slots : Ahead(s)

(* A process hears only of the call its compound waits for: what it has not  *)
(* submitted itself was submitted by a process that has been killed.         *)
Early == {"op", "decide"} \cup Late

Old(c) == c.life < used["kills"]

Lives(s) ==
    /\ sess = "down" => \A c \in calls : Old(c)
    /\ sess = "up" /\ slots[s].restored => \A c \in calls : c.slot = s => Old(c)
    /\ th[s].pc \in Early => \A c \in calls : c.rid = th[s].rid => Old(c)
    /\ th[s].pc = "wait" => \A c \in calls : c.rid = th[s].rid => Old(c) \/ c.pay = th[s].pay

LivesInv == \A s \in Slots : Lives(s)
=============================================================================
