--------------------------------- MODULE NFSReplay --------------------------
(***************************************************************************)
(* The persistent sessions of the NFSv4.1 gateway (go/nfsd): the slot      *)
(* table SEQUENCE admits requests to, the session file that outlives the   *)
(* process, the intents RENAME, REMOVE and CREATE write before their       *)
(* effect, and the decision a restarted process takes about a request its  *)
(* predecessor may have carried out.                                       *)
(*                                                                         *)
(* One session of one client.  The client runs one request at a time on    *)
(* each slot and retransmits what was not answered; the process may be     *)
(* killed between any two steps; TernFS carries out what was submitted to  *)
(* it, also after the submitter died; other hosts change the same names.   *)
(***************************************************************************)
EXTENDS NFSReplayState

OpNames(op)        == {op.from, op.to}

Spend(kind, n, max) ==
    /\ used[kind] + n <= max
    /\ used["kills"] + used["faults"] + used["timeouts"] + used["others"] + n <= MaxTrouble
    /\ used' = [used EXCEPT ![kind] = @ + n]

Init ==
    /\ edges = [n \in Names |-> [id |-> Start[n], ct |-> Start[n]]]
    /\ clock = Cardinality(Names)
    /\ calls = {}
    /\ disk  = [there |-> TRUE, area |-> [s \in Slots |-> [a \in 1..2 |-> NoRec]]]
    /\ sess  = "up" /\ file = "live"
    /\ cur   = [s \in Slots |-> 0]
    /\ slots = [s \in Slots |-> EmptySlot]
    /\ th    = [s \in Slots |-> Idle]
    /\ client = [s \in Slots |-> [rid |-> 0, seq |-> 0, waiting |-> FALSE]]
    /\ net   = {}
    /\ reqs  = <<>>
    /\ meant = [r \in 1..MaxReqs |-> [i \in 1..MaxOps |-> NoPay]]
    /\ done  = [r \in 1..MaxReqs |-> [i \in 1..MaxOps |-> 0]]
    /\ linked = {<<n, Start[n]>> : n \in Names}
    /\ got   = [r \in 1..MaxReqs |-> "none"]
    /\ used  = [k \in Troubles |-> 0]

-----------------------------------------------------------------------------
(* The client. *)

(* A new request goes on a slot that has none outstanding. *)
SendRequest(s) ==
    /\ ~client[s].waiting
    /\ Len(reqs) < MaxReqs
    /\ \E c \in Compounds :
          LET r == Len(reqs) + 1
              q == (client[s].seq + 1) % SeqIds
          IN  /\ reqs' = Append(reqs, [ops |-> c.ops, cache |-> c.cache, slot |-> s, seq |-> q])
              /\ client' = [client EXCEPT ![s] = [rid |-> r, seq |-> q, waiting |-> TRUE]]
              /\ net' = net \cup {[slot |-> s, seq |-> q, rid |-> r]}
    /\ UNCHANGED <<fsys, disk, mem, got, used>>

(* The connection went with the process; the request is sent again. *)
Retransmit(s) ==
    /\ client[s].waiting
    /\ LET m == [slot |-> s, seq |-> client[s].seq, rid |-> client[s].rid]
       IN  m \notin net /\ net' = net \cup {m}
    /\ UNCHANGED <<fsys, disk, mem, client, reqs, got, used>>

(* The reply to request r reaches the client, or is lost on the way. *)
Answer(s, r, status) ==
    \/ /\ client[s].waiting /\ client[s].rid = r
       /\ client' = [client EXCEPT ![s].waiting = FALSE]
       /\ got' = [got EXCEPT ![r] = status]
    \/ UNCHANGED <<client, got>>

-----------------------------------------------------------------------------
(* The session file. *)

Fault(n) == Spend("faults", n, MaxFaults)

(* invalidate of a live file, the caller having met n faults already: the   *)
(* unlink succeeds, or fails and poisons the file.                          *)
invalidate(n) ==
    \/ /\ file = "live" /\ Fault(n)
       /\ file' = "gone" /\ disk' = [disk EXCEPT !.there = FALSE]
    \/ /\ file = "live" /\ Fault(n + 1)
       /\ file' = "poisoned" /\ UNCHANGED disk
    \/ /\ file # "live"
       /\ UNCHANGED <<file, disk, used>>

-----------------------------------------------------------------------------
(* SEQUENCE. *)

(* The slot is claimed; a rerun carries the intent the slot was restored with. *)
startSequence(m) ==
    LET s == m.slot
        intent == IF Admission(m) = "rerun" THEN slots[s].intent ELSE NoPay
    IN  /\ m \in net /\ th[s].pc = "idle"
        /\ Admission(m) \in {"new", "rerun"}
        /\ slots' = [slots EXCEPT ![s] = [EmptySlot EXCEPT !.seq = m.seq, !.occupied = TRUE,
                                                            !.inUse = TRUE, !.rid = m.rid]]
        /\ th' = [th EXCEPT ![s] = [Idle EXCEPT !.pc = "op", !.rid = m.rid, !.op = 1,
                                                 !.replay = intent, !.pending = intent # NoPay]]
        /\ UNCHANGED <<fsys, disk, sess, file, cur, peer, used>>

(* The recorded reply is sent again. *)
ServeReplay(m) ==
    /\ m \in net /\ Admission(m) = "replay"
    /\ Answer(m.slot, m.rid, slots[m.slot].reply)
    /\ UNCHANGED <<fsys, disk, mem, net, reqs, used>>

(* Every other status leaves the slot as it was.  Told to wait, the client  *)
(* sends again; any other status ends the session on its side.              *)
Refuse(m) ==
    /\ m \in net /\ sess # "down"
    /\ Admission(m) \notin {"new", "rerun", "replay", "DELAY"}
    /\ Answer(m.slot, m.rid, Admission(m))
    /\ UNCHANGED <<fsys, disk, mem, net, reqs, used>>

-----------------------------------------------------------------------------
(* Running a compound. *)

(* Locks on names: an operation keeps them until it ends, and the operation *)
(* that ends the compound until its reply is recorded.                      *)
Holds(s) == IF /\ th[s].pc \in {"look", "intent", "iwrite", "submit", "wait", "finish", "fwrite"}
               /\ Protected(Op(s))
            THEN OpNames(Op(s)) ELSE {}

(* The operation ends: the compound goes on only after OK. *)
After(t, s, status) ==
    IF status = "OK" /\ ~Final(s)
    THEN [t EXCEPT !.op = @ + 1, !.pc = "op", !.pay = NoPay]
    ELSE [t EXCEPT !.pc = "finish", !.status = status]

(* An operation that stands for OPEN, WRITE, CLOSE and SETATTR, and one for  *)
(* COMMIT, touch no name here: past the gates they are done.                 *)
Enter(t, s) == IF Protected(Op(s)) THEN [t EXCEPT !.pc = "decide", !.mutated = TRUE]
               ELSE After([t EXCEPT !.mutated = @ \/ recoveryEffect(Op(s))], s, "OK")

(* Mutant: the file stays for the second mutating operation. *)
Gates_kept(s) ==
    /\ th[s].pc = "op"
    /\ th' = [th EXCEPT ![s] = IF replayGate(s) # "OK" THEN After(@, s, replayGate(s))
                               ELSE Enter(@, s)]
    /\ UNCHANGED <<fsys, disk, sess, file, cur, slots, peer, used>>

(* replayGate, then mutationGate: the session file goes before the second   *)
(* mutating operation of a compound.                                        *)
Gates(s) ==
    /\ th[s].pc = "op"
    /\ IF replayGate(s) # "OK"
       THEN /\ th' = [th EXCEPT ![s] = After(@, s, replayGate(s))]
            /\ UNCHANGED <<file, disk, used>>
       ELSE IF recoveryEffect(Op(s)) /\ th[s].mutated
       THEN /\ ~Writing
            /\ invalidate(0)
            /\ th' = [th EXCEPT ![s] = IF file' = "poisoned" THEN After(@, s, "SERVERFAULT")
                                       ELSE Enter(@, s)]
       ELSE /\ th' = [th EXCEPT ![s] = Enter(@, s)]
            /\ UNCHANGED <<file, disk, used>>
    /\ UNCHANGED <<fsys, sess, cur, slots, peer>>

(* The names are locked and a restored intent is taken and decided. *)
Decide(s) ==
    LET t == [th[s] EXCEPT !.intentOp = IF th[s].pending /\ th[s].replay.op = th[s].op
                                        THEN th[s].op ELSE @,
                           !.pending  = @ /\ th[s].replay.op # th[s].op]
    IN  /\ th[s].pc = "decide"
        /\ \A o \in Slots \ {s} : Holds(o) \cap OpNames(Op(s)) = {}
        /\ th' = [th EXCEPT ![s] =
                    IF Decision(s) = "none" THEN [t EXCEPT !.pc = "look"]
                    ELSE After(t, s, IF Decision(s) = "applied" THEN "OK" ELSE "DEADSESSION")]
        /\ UNCHANGED <<fsys, disk, sess, file, cur, slots, peer, used>>

(* The edges the operation is about, looked up for its intent. *)
LookupEdge(s) ==
    LET op == Op(s)
        pay == [op |-> th[s].op, k |-> op.k, from |-> op.from, to |-> op.to,
                edge |-> edges[op.from], dst |-> edges[op.to].id]
    IN  /\ th[s].pc = "look"
        /\ \/ /\ op.k = "CREATE" /\ edges[op.from] # NoEdge
              /\ th' = [th EXCEPT ![s] = After(@, s, "EXIST")]
           \/ /\ op.k # "CREATE" /\ edges[op.from] = NoEdge
              /\ th' = [th EXCEPT ![s] = After(@, s, "NOENT")]
           \/ /\ (op.k = "CREATE") = (edges[op.from] = NoEdge)
              /\ th' = [th EXCEPT ![s].pc = "intent", ![s].pay = pay]
        /\ UNCHANGED <<fsys, disk, sess, file, cur, slots, peer, used>>

(* persistIntent: reuse the restored intent if it is still the same one,    *)
(* else write one, which a session without a file goes without.             *)
persistIntent(s) ==
    LET t == th[s] IN
    /\ t.pc = "intent"
    /\ \/ /\ t.intentOp = t.op
          /\ th' = [th EXCEPT ![s] = IF t.pay # t.replay THEN After(@, s, "DEADSESSION")
                                     ELSE IF file = "poisoned" THEN After(@, s, "SERVERFAULT")
                                     ELSE [@ EXCEPT !.pc = "submit"]]
          /\ UNCHANGED <<disk, meant>>
       \/ /\ t.intentOp # t.op /\ file = "live"
          /\ BeginWrite(s)
          /\ th' = [th EXCEPT ![s].pc = "iwrite"]
          /\ meant' = [meant EXCEPT ![t.rid][t.op] = t.pay]
       \/ /\ t.intentOp # t.op /\ file # "live"
          /\ th' = [th EXCEPT ![s] = IF file = "poisoned" THEN After(@, s, "SERVERFAULT")
                                     ELSE [@ EXCEPT !.pc = "submit", !.intentOp = t.op]]
          /\ meant' = [meant EXCEPT ![t.rid][t.op] = t.pay]
          /\ UNCHANGED disk
    /\ UNCHANGED <<edges, clock, calls, done, linked, sess, file, cur, slots, peer, used>>

(* writeRecord returns: written, or failed and the file invalidated. *)
IntentWritten(s) ==
    LET t == th[s] IN
    /\ t.pc = "iwrite"
    /\ \/ /\ EndWrite(s, [kind |-> "INTENT", seq |-> slots[s].seq, rid |-> t.rid, val |-> t.pay])
          /\ th' = [th EXCEPT ![s].pc = "submit", ![s].intentOp = t.op]
       \/ /\ \A o \in Slots \ {s} : th[o].pc \notin {"iwrite", "fwrite"}
          /\ invalidate(1)
          /\ th' = [th EXCEPT ![s] = IF file' = "poisoned" THEN After(@, s, "SERVERFAULT")
                                     ELSE [@ EXCEPT !.pc = "submit", !.intentOp = t.op]]
          /\ UNCHANGED cur
    /\ UNCHANGED <<fsys, sess, slots, peer>>

(* RemoveEdge, RenameEdge or Mkdir goes out, naming the edge looked up. *)
Submit(s) ==
    /\ th[s].pc = "submit"
    /\ calls' = calls \cup {[rid |-> th[s].rid, slot |-> s, life |-> used["kills"], pay |-> th[s].pay]}
    /\ th' = [th EXCEPT ![s].pc = "wait"]
    /\ UNCHANGED <<edges, clock, done, meant, linked, disk, sess, file, cur, slots, peer, used>>

(* TernFS carries a call out, or refuses it because the edge it names is    *)
(* not the current one; the process that sent it hears, if it still runs.   *)
Land(c) ==
    LET p  == c.pay
        ok == IF p.k = "CREATE" THEN edges[p.from] = NoEdge ELSE edges[p.from] = p.edge
        id == IF p.k = "CREATE" THEN clock + 1 ELSE p.edge.id
        at == IF p.k = "CREATE" THEN p.from ELSE p.to
        s  == c.slot
    IN  /\ c \in calls
        /\ calls' = calls \ {c}
        /\ IF ~ok THEN UNCHANGED <<edges, clock, done, linked>>
           ELSE /\ done' = [done EXCEPT ![c.rid][p.op] = @ + 1]
                /\ clock' = clock + 1
                /\ IF p.k = "REMOVE"
                   THEN edges' = [edges EXCEPT ![p.from] = NoEdge] /\ UNCHANGED linked
                   ELSE /\ edges' = [[edges EXCEPT ![p.from] = NoEdge]
                                       EXCEPT ![at] = [id |-> id, ct |-> clock + 1]]
                        /\ linked' = linked \cup {<<at, id>>}
        /\ IF c.life = used["kills"] /\ th[s].pc = "wait" /\ th[s].rid = c.rid
           THEN th' = [th EXCEPT ![s] = After(@, s, IF ok THEN "OK"
                                                    ELSE IF p.k = "REMOVE" THEN "NOENT" ELSE "IO")]
           ELSE UNCHANGED th
        /\ UNCHANGED <<meant, disk, sess, file, cur, slots, peer, used>>

(* The backend does not answer: the outcome is unknown to this process and  *)
(* the call may still be carried out.                                       *)
NoAnswer(s) ==
    /\ th[s].pc = "wait" /\ Spend("timeouts", 1, MaxTimeouts)
    /\ th' = [th EXCEPT ![s] = After(@, s, "IO")]
    /\ UNCHANGED <<fsys, disk, sess, file, cur, slots, peer>>

-----------------------------------------------------------------------------
(* finish. *)

(* The request's worker is done with its reply. *)
Reply(s) == /\ th' = [th EXCEPT ![s] = Idle]
            /\ Answer(s, th[s].rid, th[s].status)
            /\ UNCHANGED <<net, reqs>>

Drain == [s \in Slots |-> [slots[s] EXCEPT !.reply = "nil"]]

(* The reply becomes the slot's; its record is written next, if the session *)
(* has a file.  A retired session records nothing.                          *)
finish(s) ==
    LET kept == [slots EXCEPT ![s].inUse = FALSE, ![s].reply = Saved(s)]
    IN  /\ th[s].pc = "finish"
        /\ \/ /\ sess = "up" /\ file = "live"
              /\ BeginWrite(s)
              /\ slots' = [slots EXCEPT ![s].reply = Saved(s)]  \* under slot.mu still
              /\ th' = [th EXCEPT ![s].pc = "fwrite"]
              /\ UNCHANGED <<sess, client, net, reqs, got>>
           \/ /\ sess = "up" /\ file # "live"
              /\ IF file = "poisoned" THEN sess' = "retired" /\ slots' = Drain
                 ELSE slots' = kept /\ UNCHANGED sess
              /\ Reply(s) /\ UNCHANGED disk
           \/ /\ sess = "retired"
              /\ slots' = [slots EXCEPT ![s].inUse = FALSE]
              /\ Reply(s) /\ UNCHANGED <<sess, disk>>
        /\ UNCHANGED <<fsys, file, cur, used>>

(* persistSlot returns.  A file that stays on disk out of date retires the  *)
(* session.                                                                 *)
SlotWritten(s) ==
    LET rec == [kind |-> "SLOT", seq |-> slots[s].seq, rid |-> th[s].rid, val |-> Saved(s)]
    IN  /\ th[s].pc = "fwrite"
        /\ \/ /\ EndWrite(s, rec)
              /\ slots' = [slots EXCEPT ![s].inUse = FALSE] /\ UNCHANGED sess
           \/ /\ \A o \in Slots \ {s} : th[o].pc \notin {"iwrite", "fwrite"}
              /\ invalidate(1)
              /\ IF file' = "poisoned" THEN sess' = "retired" /\ slots' = [Drain EXCEPT ![s].inUse = FALSE]
                 ELSE slots' = [slots EXCEPT ![s].inUse = FALSE] /\ UNCHANGED sess
              /\ UNCHANGED cur
        /\ Reply(s)
        /\ UNCHANGED fsys

(* retireSession: DESTROY_SESSION, expiry or replacement of the client. *)
retireSession ==
    /\ sess = "up" /\ \A s \in Slots : th[s].pc # "fwrite"
    /\ sess' = "retired"
    /\ slots' = Drain
    /\ UNCHANGED <<fsys, disk, file, cur, th, peer, used>>

(* releaseSessionUse: the last use closes the file, which unlinks it. *)
CloseFile ==
    /\ sess = "retired" /\ file \in {"live", "poisoned"}
    /\ \A s \in Slots : th[s].pc = "idle"
    /\ \/ /\ disk' = [disk EXCEPT !.there = FALSE] /\ UNCHANGED used
       \/ Fault(1) /\ UNCHANGED disk
    /\ file' = "none" /\ sess' = "unknown"
    /\ UNCHANGED <<fsys, cur, slots, th, peer>>

-----------------------------------------------------------------------------
(* The process dies; its connections go with it, its calls do not. *)
Kill ==
    /\ sess # "down" /\ Spend("kills", 1, MaxKills)
    /\ sess' = "down" /\ file' = "none"
    /\ cur' = [s \in Slots |-> 0]
    /\ slots' = [s \in Slots |-> EmptySlot]
    /\ th' = [s \in Slots |-> Idle]
    /\ net' = {}
    /\ UNCHANGED <<fsys, disk, client, reqs, got>>

RestoredSlot(s) ==
    LET a   == NewestArea(s)
        rec == disk.area[s][a]
    IN  IF a = 0 THEN [EmptySlot EXCEPT !.restored = TRUE]
        ELSE [EmptySlot EXCEPT !.restored = TRUE, !.seq = rec.seq, !.occupied = TRUE, !.rid = rec.rid,
                               !.reply  = IF rec.kind = "SLOT" THEN rec.val ELSE "nil",
                               !.intent = IF rec.kind = "INTENT" THEN rec.val ELSE NoPay]

(* restoreSessions: the session comes back if its file recorded a request,  *)
(* and otherwise its file is removed.                                       *)
restoreSessions ==
    /\ sess = "down"
    /\ IF disk.there /\ \E s \in Slots : NewestArea(s) # 0
       THEN /\ sess' = "up" /\ file' = "live"
            /\ cur' = [s \in Slots |-> NewestArea(s)]
            /\ slots' = [s \in Slots |-> RestoredSlot(s)]
            /\ UNCHANGED disk
       ELSE /\ sess' = "unknown" /\ file' = "none"
            /\ disk' = [disk EXCEPT !.there = FALSE]
            /\ UNCHANGED <<cur, slots>>
    /\ UNCHANGED <<fsys, th, peer, used>>

(* Another host, through its own gateway or mount: unlinks, replaces or     *)
(* renames.                                                                 *)
OtherHost ==
    /\ Spend("others", 1, MaxOthers)
    /\ clock' = clock + 1
    /\ \E n \in Names :
         \/ /\ edges[n] # NoEdge
            /\ edges' = [edges EXCEPT ![n] = NoEdge] /\ UNCHANGED linked
         \/ /\ edges' = [edges EXCEPT ![n] = [id |-> clock + 1, ct |-> clock + 1]]
            /\ linked' = linked \cup {<<n, clock + 1>>}
         \/ \E m \in Names \ {n} :
              /\ edges[n] # NoEdge
              /\ edges' = [edges EXCEPT ![m] = [id |-> edges[n].id, ct |-> clock + 1], ![n] = NoEdge]
              /\ linked' = linked \cup {<<m, edges[n].id>>}
    /\ UNCHANGED <<calls, done, meant, disk, mem, peer>>

Next ==
    \/ \E s \in Slots :
         \/ SendRequest(s)   \/ Retransmit(s)
         \/ Gates(s)         \/ Decide(s)       \/ LookupEdge(s)
         \/ persistIntent(s) \/ IntentWritten(s)
         \/ Submit(s)        \/ NoAnswer(s)
         \/ finish(s)        \/ SlotWritten(s)
    \/ \E m \in net : startSequence(m) \/ ServeReplay(m) \/ Refuse(m)
    \/ \E c \in calls : Land(c)
    \/ retireSession \/ CloseFile
    \/ Kill \/ restoreSessions
    \/ OtherHost

Spec == Init /\ [][Next]_vars

-----------------------------------------------------------------------------
(* A session that gave its file up (sessionFile.invalidate) leaves none on   *)
(* disk; a slot's newest area and its sequence id are in range.              *)
TypeOK ==
    /\ sess \in {"up", "retired", "unknown", "down"}
    /\ file \in {"none", "live", "gone", "poisoned"}
    /\ \A s \in Slots : cur[s] \in 0..2 /\ slots[s].seq \in 0..SeqIds - 1
    /\ file = "gone" => ~disk.there

(* A request's operation takes effect in TernFS at most once, however often  *)
(* the request is sent, the process killed and the request run again: a      *)
(* RENAME, REMOVE or CREATE found with an intent is decided, not repeated.   *)
AtMostOnce == \A r \in 1..MaxReqs : \A i \in 1..MaxOps : done[r][i] <= 1

(* An OK the client holds is true of the names.  The edge a REMOVE or RENAME *)
(* was about is no longer current and never comes back; the file a RENAME    *)
(* moved was put at the destination; a CREATE was carried out, once.         *)
SuccessIsTrue ==
    \A r \in DOMAIN reqs : got[r] = "OK" =>
        \A i \in DOMAIN reqs[r].ops :
            LET op == reqs[r].ops[i]
                p  == meant[r][i]
            IN  /\ op.k \in {"REMOVE", "RENAME"} => p # NoPay /\ edges[op.from] # p.edge
                /\ op.k = "RENAME" => <<op.to, p.edge.id>> \in linked
                /\ op.k = "CREATE" => done[r][i] = 1

(* What an unanswered request did, or has submitted, is accounted for on     *)
(* disk at every instant a kill could come: the session file is gone, or the *)
(* newest valid record of the slot is this request's, its reply or the       *)
(* intent of exactly that operation.                                         *)
IntentCoversEffect ==
    \A s \in Slots : \A i \in 1..MaxOps :
        LET r == client[s].rid
            w == NewestArea(s)
        IN  /\ client[s].waiting /\ disk.there
            /\ done[r][i] > 0 \/ \E c \in calls : c.rid = r /\ c.pay.op = i
            => /\ w # 0 /\ disk.area[s][w].rid = r
               /\ disk.area[s][w].kind = "SLOT" \/ disk.area[s][w].val.op = i

(* The newest record a load would find for a slot never goes back to an      *)
(* earlier request, nor from a completion to its intent, while the file is   *)
(* on disk: a torn write costs only a record the slot no longer needs.       *)
RecordsAdvance ==
    [][\A s \in Slots :
          disk'.there /\ NewestArea(s) # 0 =>
             /\ NewestArea(s)' # 0
             /\ LET old == disk.area[s][NewestArea(s)]
                    new == disk'.area[s][NewestArea(s)']
                IN  new = old \/ newer(new, old)]_vars
=============================================================================
