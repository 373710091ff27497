------------------------------ MODULE NFSReplayState ------------------------
(***************************************************************************)
(* The state of a persistent NFSv4.1 session (go/nfsd) and what is computed*)
(* from it: the admission of a SEQUENCE to a slot, the order of the records*)
(* in the session file, the gate and the decision a compound passes before *)
(* an operation.  NFSReplay has the steps, NFSReplayInv their invariant.   *)
(***************************************************************************)
EXTENDS Integers, Sequences, FiniteSets

CONSTANTS
    Slots,       \* the session's slots
    Names,       \* names of the one directory modelled
    Compounds,   \* what a client may send: [ops |-> sequence of operations, cache |-> BOOLEAN]
    MaxOps,      \* bound: operations of a compound
    Start,       \* the inode of each name at the start, 0 for none
    SeqIds,      \* sequence ids count modulo this (2^32 in the code)
    MaxReqs,     \* bound: requests the client sends
    MaxKills,    \* bound: times the process dies
    MaxFaults,   \* bound: failed writes and unlinks of the session file
    MaxTimeouts, \* bound: backend calls that get no answer
    MaxOthers,   \* bound: changes by other hosts
    MaxTrouble   \* bound: all four together

OpKinds    == {"REMOVE", "RENAME", "CREATE", "WRITE", "COMMIT"}
Operations == [k : OpKinds, from : Names, to : Names]

(* A session does not live through half the sequence ids: 2^31 requests.    *)
ASSUME ReplayAssumption ==
    /\ {SeqIds, MaxReqs, MaxOps} \subseteq Nat /\ MaxReqs < SeqIds \div 2
    /\ \A c \in Compounds :
          c.ops \in Seq(Operations) /\ Len(c.ops) \in 1..MaxOps /\ c.cache \in BOOLEAN
    /\ IsFiniteSet(Names) /\ Cardinality(Names) \in Nat
    /\ \A n \in Names : Start[n] \in 0..Cardinality(Names)

VARIABLES
    edges,    \* TernFS: the current edge of each name
    clock,    \* TernFS: the last inode id and creation time handed out
    calls,    \* TernFS: calls submitted and not carried out yet
    disk,     \* the session file: is it there, two record areas per slot
    sess,     \* this process's session: up, retired, unknown, or down (no process)
    file,     \* sessionFile.state
    cur,      \* per slot the area of the newest record (File.slots[].area), 0 if none
    slots,    \* session.slots
    th,       \* the compound running on each slot
    client,   \* the client's side of each slot
    net,      \* messages that may still reach this process
    reqs,     \* history: the compound of each request, its slot and sequence id
    done,     \* history: how often each operation of each request took effect
    meant,    \* history: the intent each operation last had
    linked,   \* history: every <<name, inode>> that was ever current
    got,      \* history: the answer the client received to each request
    used      \* the budgets consumed

fsys == <<edges, clock, calls, done, meant, linked>>
mem  == <<sess, file, cur, slots, th>>
peer == <<client, net, reqs, got>>
vars == <<fsys, disk, mem, peer, used>>
NoEdge == [id |-> 0, ct |-> 0]
NoRec  == [kind |-> "NONE", seq |-> 0]
NoPay  == [op |-> 0]

(* int32(a-b) > 0, for sequence ids of SeqIds values. *)
SeqAfter(a, b) == LET d == (a - b) % SeqIds IN 0 < d /\ d < SeqIds \div 2

recoveryEffect(op) == op.k # "COMMIT"
Protected(op)      == op.k \in {"REMOVE", "RENAME", "CREATE"}

EmptySlot == [seq |-> 0, occupied |-> FALSE, inUse |-> FALSE, restored |-> FALSE,
              rid |-> 0, reply |-> "nil", intent |-> NoPay]

(* One more of a bounded kind of trouble. *)
Troubles == {"kills", "faults", "timeouts", "others"}

Idle == [pc |-> "idle", rid |-> 0, op |-> 0, mutated |-> FALSE, intentOp |-> 0,
         replay |-> NoPay, pending |-> FALSE, pay |-> NoPay, status |-> "OK"]

(* Mutant: a completion does not beat the intent of the same request. *)
newer_bySeq(a, b) == SeqAfter(a.seq, b.seq)

newer(a, b) ==
    \/ SeqAfter(a.seq, b.seq)
    \/ a.seq = b.seq /\ a.kind = "SLOT" /\ b.kind = "INTENT"

(* What a load finds in a slot: the newest of its valid areas, 0 if none. *)
NewestArea(s) ==
    LET a == disk.area[s]
    IN  IF a[1].kind = "NONE" /\ a[2].kind = "NONE" THEN 0
        ELSE IF a[1].kind = "NONE" THEN 2
        ELSE IF a[2].kind = "NONE" THEN 1
        ELSE IF newer(a[2], a[1]) THEN 2 ELSE 1

Target(s) == IF cur[s] = 0 THEN 1 ELSE 3 - cur[s]

(* WriteAt has begun: what the area held is lost, the record not there yet. *)
BeginWrite(s) == disk' = [disk EXCEPT !.area[s][Target(s)] = NoRec]

EndWrite(s, rec) ==
    /\ disk' = [disk EXCEPT !.area[s][Target(s)] = rec]
    /\ cur'  = [cur EXCEPT ![s] = Target(s)]
    /\ UNCHANGED <<file, used>>

(* A write holds the file's lock shared, an unlink holds it alone. *)
Writing == \E s \in Slots : th[s].pc \in {"iwrite", "fwrite"}

(* What startSequence makes of a message: how it runs, or the status it gets. *)
Admission(m) ==
    LET sl == slots[m.slot] IN
    IF sess # "up" THEN "BADSESSION"
    ELSE IF sl.occupied /\ m.seq = sl.seq
    THEN IF sl.inUse THEN "DELAY"
         ELSE IF sl.rid # m.rid THEN "SEQ_FALSE_RETRY"
         ELSE IF sl.reply # "nil" THEN "replay"
         ELSE IF sl.restored THEN "rerun" ELSE "BADSESSION"
    ELSE IF ~sl.inUse /\ \/ sl.occupied /\ m.seq = (sl.seq + 1) % SeqIds
                         \/ ~sl.occupied /\ m.seq = 1
                         \/ sl.restored /\ SeqAfter(m.seq, sl.seq)
         THEN "new" ELSE "SEQ_MISORDERED"

Op(s)   == reqs[th[s].rid].ops[th[s].op]
Final(s) == th[s].op = Len(reqs[th[s].rid].ops)

(* replayGate: an intent not yet taken refuses what it does not account for. *)
replayGate(s) ==
    LET t == th[s] IN
    IF ~t.pending THEN "OK"
    ELSE IF t.op = t.replay.op
         THEN IF Op(s).k = t.replay.k THEN "OK" ELSE "DEADSESSION"
         ELSE IF recoveryEffect(Op(s)) THEN "DEADSESSION" ELSE "OK"

(* Mutants: a CREATE found with an intent is run again; is taken as done. *)
Decision_rerun(s) ==
    LET in == th[s].replay
        op == Op(s)
    IN  IF ~(th[s].pending /\ in.op = th[s].op) THEN "none"
        ELSE IF in.from # op.from \/ in.to # op.to THEN "DEADSESSION"
        ELSE IF op.k = "CREATE" \/ edges[op.from] = in.edge THEN "none"
        ELSE IF op.k = "REMOVE" \/ edges[op.to].id = in.edge.id THEN "applied"
        ELSE "DEADSESSION"

Decision_applied(s) ==
    IF th[s].pending /\ th[s].replay.op = th[s].op /\ Op(s).k = "CREATE"
    THEN "applied" ELSE Decision_rerun(s)

(* decideRenameReplay, decideRemoveReplay, decideCreateReplay. *)
Decision(s) ==
    LET in == th[s].replay
        op == Op(s)
    IN  IF ~(th[s].pending /\ in.op = th[s].op) THEN "none"
        ELSE IF op.k = "CREATE" \/ in.from # op.from \/ in.to # op.to THEN "DEADSESSION"
        ELSE IF edges[op.from] = in.edge THEN "none"
        ELSE IF op.k = "REMOVE" \/ edges[op.to].id = in.edge.id THEN "applied"
        ELSE "DEADSESSION"

(* What a retransmission will be given. *)
Saved(s) == IF reqs[th[s].rid].cache THEN th[s].status ELSE "RETRY_UNCACHED_REP"
=============================================================================
