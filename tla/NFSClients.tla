----------------------------- MODULE NFSClients -----------------------------
(***************************************************************************)
(* Clients, their sessions and the logical lease of the NFSv4.1 gateway    *)
(* (go/nfsd): EXCHANGE_ID, CREATE_SESSION with its creation slot and the    *)
(* confirmation of a new incarnation, SEQUENCE's hold on the lease, expiry  *)
(* by the sweeper, DESTROY_CLIENTID, and a restart from what is on disk:    *)
(* the client record, the session files and the staged writers.            *)
(*                                                                         *)
(* One client owner, registered by several boots and principals in turn.   *)
(* Every request runs in a worker of its own, one lock section or one write *)
(* at a time; the sweeper is one more worker.                               *)
(***************************************************************************)
EXTENDS Integers, FiniteSets

CONSTANTS
    Workers,     \* goroutines that run client requests
    Boots,       \* registrations: [v |-> boot verifier, p |-> principal]
    MaxInc,      \* bound: incarnations
    MaxWire,     \* bound: wire clientids
    MaxSess,     \* bound: sessions
    MaxCalls,    \* bound: operations the clients send
    MaxKills,    \* bound: restarts
    MaxFaults,   \* bound: client record writes and removals that fail
    MaxTrouble   \* bound: restarts and faults together

ASSUME ClientsAssumption == MaxInc \in Nat /\ MaxWire \in Nat /\ MaxSess \in Nat

Incs  == 1..MaxInc
Wires == 1..MaxWire
SIds  == 1..MaxSess
sweeper == "sweeper"
All == Workers \cup {sweeper}

VARIABLES
    record,   \* disk: the incarnation the owner's client record confirms, 0 if none
    staged,   \* disk: incarnations with a staged writer that is not retired
    files,    \* disk: sessions whose file exists
    served,   \* disk: those of them that recorded a request
    boot,     \* the boot each incarnation was registered by
    startup,  \* the first lease after the start still runs
    wires,    \* sessionClient records, by wire clientid
    own,      \* wireOwner: the confirmed and the unconfirmed wire record
    groups,   \* clientGroup of each incarnation
    sess,     \* sessions of this process
    opens,    \* incarnations with a write open in this process
    olock,    \* the worker holding the owner's lock, or none
    job,      \* what each worker is doing
    todo,     \* the clients the sweeper has listed and not visited yet
    next,     \* the next incarnation, wire clientid and session id
    used      \* the budgets consumed

durable == <<record, staged, files, served>>
vars == <<record, staged, files, served, boot, startup, wires, own, groups, sess, opens,
          olock, job, todo, next, used>>

none == "none"
Principals == {b.p : b \in Boots}
NoBoot  == [v |-> none, p |-> none]
NoGroup == [there |-> FALSE, wire |-> 0, prov |-> 0, act |-> 0, creating |-> 0, state |-> "open",
            quiet |-> FALSE, lease |-> "live", dropped |-> FALSE]
NoWire  == [inc |-> 0, boot |-> NoBoot, confirmed |-> FALSE, adopted |-> FALSE,
            retired |-> TRUE, csSeq |-> 0, cached |-> none, busy |-> 0]
NoSess  == [inc |-> 0, att |-> FALSE, users |-> 0, from |-> <<0, 0>>]
Idle    == [pc |-> "idle", wire |-> 0, seq |-> 0, inc |-> 0, old |-> 0, sid |-> 0,
            boot |-> NoBoot, ret |-> none, res |-> none, state |-> FALSE]

Init ==
    /\ record = 0 /\ staged = {} /\ files = {} /\ served = {}
    /\ boot   = [i \in Incs |-> NoBoot]
    /\ startup = TRUE
    /\ wires  = [w \in Wires |-> NoWire]
    /\ own    = [confirmed |-> 0, unconfirmed |-> 0]
    /\ groups = [i \in Incs |-> NoGroup]
    /\ sess   = [s \in SIds |-> NoSess]
    /\ opens  = {}
    /\ olock  = none
    /\ job    = [j \in All |-> Idle]
    /\ todo   = {}
    /\ next   = [inc |-> 1, wire |-> 1, sid |-> 1]
    /\ used   = [calls |-> 0, kills |-> 0, faults |-> 0]

-----------------------------------------------------------------------------
(* The session store, under its mutex.  Each operator takes the groups,     *)
(* wires or sessions as they are and returns them changed.                  *)

Members(S, i) == {s \in SIds : S[s].inc = i /\ S[s].att}
busy(g) == g.prov + g.act + g.creating > 0

(* groupLocked: an incarnation's group, made on demand. *)
Grouped(G, i) == [G EXCEPT ![i].there = TRUE]

(* releaseGroupLocked: a group nothing refers to is forgotten, gate and all. *)
Released(G, S, i) ==
    IF /\ G[i].there /\ G[i].wire = 0 /\ Members(S, i) = {} /\ ~busy(G[i])
       /\ G[i].state # "closing" /\ G[i].lease # "checking"
       /\ G[i].dropped \/ ~G[i].quiet
    THEN [G EXCEPT ![i] = NoGroup] ELSE G

(* retireWireLocked: the wire record w, its owner's and its group's reference. *)
RetiredWires(W, w) == IF w = 0 THEN W ELSE [W EXCEPT ![w].retired = TRUE]
RetiredOwn(O, w) ==
    [confirmed   |-> IF O.confirmed = w THEN 0 ELSE O.confirmed,
     unconfirmed |-> IF O.unconfirmed = w THEN 0 ELSE O.unconfirmed]
RetiredGroups(G, S, W, w) ==
    IF w = 0 \/ W[w].retired \/ G[W[w].inc].wire # w THEN G
    ELSE Released([G EXCEPT ![W[w].inc].wire = 0], S, W[w].inc)

(* detachSessionLocked, drain and releaseSessionUse of an incarnation's     *)
(* sessions: with its last use a session's file goes.                       *)
Detached(S, i) == [s \in SIds |-> IF s \in Members(S, i)
                                  THEN [S[s] EXCEPT !.att = FALSE, !.users = @ - 1] ELSE S[s]]
Closed(S, T) == {s \in SIds : S[s].users > 0 /\ T[s].users = 0}

expired(i) == groups[i].there /\ groups[i].lease = "expired"
holdsWriteState(i) == i \in opens \cup staged
clientLive(i) == record = i /\ ~expired(i)

(* expireClientState: the open goes and its staged writer is retired. *)
expireClientState(i) ==
    /\ opens' = opens \ {i}
    /\ staged' = IF i \in opens THEN staged \ {i} ELSE staged

Issue == used.calls < MaxCalls /\ used' = [used EXCEPT !.calls = @ + 1]
Trouble == used.kills + used.faults < MaxTrouble
Fault == used.faults < MaxFaults /\ Trouble /\ used' = [used EXCEPT !.faults = @ + 1]

Go(j, pc) == job' = [job EXCEPT ![j].pc = pc]
End(j)    == job' = [job EXCEPT ![j] = Idle]
Unlock(j) == olock' = IF olock = j THEN none ELSE olock

-----------------------------------------------------------------------------
(* decideExpired, called by EXCHANGE_ID, CREATE_SESSION and the sweeper for  *)
(* incarnation job.inc; it returns to job.ret with job.res.                  *)

Return(j, res) == job' = [job EXCEPT ![j].pc = job[j].ret, ![j].res = res]
Call(j, i, state, ret) ==
    job' = [job EXCEPT ![j].pc = "decide", ![j].inc = i, ![j].state = state, ![j].ret = ret]

(* Mutant: a creation under way does not keep the lease. *)
held_notCreating(i) ==
    LET w == groups[i].wire IN
    \/ groups[i].lease = "checking" \/ groups[i].prov > 0 \/ groups[i].act > 0 \/ groups[i].quiet
    \/ startup /\ record = i
    \/ w # 0 /\ ~wires[w].confirmed /\ ~wires[w].adopted

(* The gate, under the mutex: held, being decided, or closed to new work. *)
held(i) ==
    LET w == groups[i].wire IN
    \/ groups[i].lease = "checking" \/ groups[i].prov > 0 \/ groups[i].act > 0 \/ groups[i].quiet
    \/ groups[i].creating > 0
    \/ startup /\ record = i
    \/ w # 0 /\ ~wires[w].confirmed /\ ~wires[w].adopted

DecideGate(j) ==
    LET i == job[j].inc IN
    /\ job[j].pc = "decide"
    /\ CASE expired(i) -> Go(j, "retirewire") /\ UNCHANGED groups
         [] ~expired(i) /\ held(i) -> groups' = Released(groups, sess, i) /\ Return(j, "no")
         [] OTHER -> /\ groups' = [groups EXCEPT ![i].there = TRUE, ![i].lease = "checking"]
                     /\ Go(j, "remove")
    /\ UNCHANGED <<durable, boot, startup, wires, own, sess, opens, olock, todo, next, used>>

(* removeRecord returns; a record that confirms another incarnation stays. *)
DecideRemove(j) ==
    LET i == job[j].inc IN
    /\ job[j].pc = "remove"
    /\ \/ /\ record' = IF record = i THEN 0 ELSE record
          /\ groups' = [groups EXCEPT ![i].lease = "expired"]
          /\ Go(j, "retirewire") /\ UNCHANGED used
       \/ /\ record = i /\ Fault
          /\ groups' = Released([groups EXCEPT ![i].lease = "live"], sess, i)
          /\ Return(j, "err") /\ UNCHANGED record
    /\ UNCHANGED <<staged, files, served, boot, startup, wires, own, sess, opens, olock, todo, next>>

(* retireWireOf. *)
DecideWire(j) ==
    LET i == job[j].inc
        w == IF groups[i].there THEN groups[i].wire ELSE 0
    IN  /\ job[j].pc = "retirewire"
        /\ wires' = RetiredWires(wires, w)
        /\ own' = IF w = 0 THEN own ELSE RetiredOwn(own, w)
        /\ groups' = RetiredGroups(groups, sess, wires, w)
        /\ Go(j, "retiresess")
        /\ UNCHANGED <<durable, boot, startup, sess, opens, olock, todo, next, used>>

(* retireIncarnationSessions. *)
DecideSessions(j) ==
    LET i == job[j].inc
        T == Detached(sess, i)
    IN  /\ job[j].pc = "retiresess"
        /\ sess' = T
        /\ files' = files \ Closed(sess, T)
        /\ groups' = Released(groups, T, i)
        /\ Go(j, "retirestate")
        /\ UNCHANGED <<record, staged, served, boot, startup, wires, own, opens, olock, todo, next, used>>

DecideState(j) ==
    LET i == job[j].inc IN
    /\ job[j].pc = "retirestate"
    /\ IF job[j].state THEN expireClientState(i) ELSE UNCHANGED <<opens, staged>>
    /\ groups' = Released(groups, sess, i)
    /\ Return(j, "yes")
    /\ UNCHANGED <<record, files, served, boot, startup, wires, own, sess, olock, todo, next, used>>

decideExpired(j) == DecideGate(j) \/ DecideRemove(j) \/ DecideWire(j) \/ DecideSessions(j) \/ DecideState(j)

-----------------------------------------------------------------------------
(* EXCHANGE_ID, under the owner's lock. *)

(* Case 2, the confirmed record answering a boot it belongs to, changes      *)
(* nothing.  A confirmed record this process expired is retired first.       *)
ExchangeID(j) ==
    LET c == own.confirmed IN
    \E b \in Boots :
      /\ job[j].pc = "idle" /\ olock = none /\ next.wire <= MaxWire /\ next.inc <= MaxInc
      /\ ~(c # 0 /\ wires[c].boot = b /\ ~expired(wires[c].inc))
      /\ LET w == IF c # 0 /\ expired(wires[c].inc) THEN c ELSE 0
         IN  /\ wires' = RetiredWires(wires, w)
             /\ own' = IF w = 0 THEN own ELSE RetiredOwn(own, w)
             /\ groups' = RetiredGroups(groups, sess, wires, w)
      /\ olock' = j
      /\ job' = [job EXCEPT ![j] = [Idle EXCEPT !.pc = "register", !.boot = b]]
      /\ Issue
      /\ UNCHANGED <<durable, boot, startup, sess, opens, todo, next>>

(* register: a confirmed incarnation is first expired if its lease ran out. *)
Register(j) ==
    /\ job[j].pc = "register"
    /\ IF record # 0 /\ clientLive(record)
       THEN job' = [job EXCEPT ![j].pc = "decide", ![j].inc = record, ![j].old = record,
                               ![j].state = FALSE, ![j].ret = "registered"]
       ELSE job' = [job EXCEPT ![j].pc = "addwire", ![j].inc = 0]
    /\ UNCHANGED <<durable, boot, startup, wires, own, groups, sess, opens, olock, todo, next, used>>

Registered(j) ==
    LET i == job[j].old
        b == job[j].boot
    IN  /\ job[j].pc = "registered"
        /\ CASE job[j].res = "err" -> End(j) /\ Unlock(j)
             [] job[j].res = "no" /\ boot[i].p # b.p /\ holdsWriteState(i)  \* CLID_INUSE
                   -> End(j) /\ Unlock(j)
             [] job[j].res = "no" /\ boot[i] = b
                   -> job' = [job EXCEPT ![j].pc = "addwire", ![j].inc = i] /\ UNCHANGED olock
             [] OTHER -> job' = [job EXCEPT ![j].pc = "addwire", ![j].inc = 0] /\ UNCHANGED olock
        /\ UNCHANGED <<durable, boot, startup, wires, own, groups, sess, opens, todo, next, used>>

(* The new wire record supersedes the owner's unconfirmed one, and the one   *)
(* of the incarnation it adopts.                                             *)
AddWire(j) ==
    LET adopted == job[j].inc # 0
        i  == IF adopted THEN job[j].inc ELSE next.inc
        c  == own.confirmed
        W1 == RetiredWires(wires, own.unconfirmed)
        G1 == RetiredGroups(groups, sess, wires, own.unconfirmed)
        O1 == RetiredOwn(own, own.unconfirmed)
        v  == G1[i].wire
        w  == next.wire
    IN  /\ job[j].pc = "addwire"
        /\ IF \/ adopted /\ c # 0 /\ wires[c].inc = i
              \/ groups[i].there /\ groups[i].state = "closing"
           THEN UNCHANGED <<boot, wires, own, groups, next>>
           ELSE /\ wires' = [RetiredWires(W1, v) EXCEPT
                               ![w] = [NoWire EXCEPT !.inc = i, !.boot = job[j].boot,
                                                     !.adopted = adopted, !.retired = FALSE]]
                /\ own' = [RetiredOwn(O1, v) EXCEPT !.unconfirmed = w]
                /\ groups' = [RetiredGroups(G1, sess, W1, v) EXCEPT ![i].there = TRUE, ![i].wire = w]
                /\ boot' = [boot EXCEPT ![i] = job[j].boot]
                /\ next' = [next EXCEPT !.wire = @ + 1, !.inc = IF adopted THEN @ ELSE @ + 1]
        /\ End(j) /\ Unlock(j)
        /\ UNCHANGED <<durable, startup, sess, opens, todo, used>>

-----------------------------------------------------------------------------
(* CREATE_SESSION. *)

(* The creation slot's answer to sequence q when no creation is needed. *)
SlotAnswers(c, q) == c.busy # 0 \/ q # c.csSeq + 1   \* in progress, cached or misordered

(* Outcomes that create nothing change nothing; a creation is counted on its *)
(* group, which neither replacement nor expiry overtakes.                    *)
beginCreate(j) ==
    \E w \in Wires, q \in 1..MaxSess + 1, p \in Principals :
      LET c == wires[w]
          g == groups[c.inc]
      IN  /\ job[j].pc = "idle" /\ ~c.retired /\ next.sid <= MaxSess
          /\ ~SlotAnswers(c, q)
          /\ g.state = "open" /\ g.lease = "live"
          /\ groups' = [groups EXCEPT ![c.inc].there = TRUE, ![c.inc].creating = @ + 1]
          /\ job' = [job EXCEPT ![j] = [Idle EXCEPT !.pc = "claim", !.wire = w, !.seq = q,
                                              !.boot = [NoBoot EXCEPT !.p = p]]]
          /\ Issue
          /\ UNCHANGED <<durable, boot, startup, wires, own, sess, opens, olock, todo, next>>

(* creation.release: the slot is rolled back unless an outcome was cached,   *)
(* the file of a session not inserted is removed, the group let go.          *)
EndCreate(j, W, G, S, F) ==
    LET w == job[j].wire
        i == W[w].inc
    IN  /\ wires' = [W EXCEPT ![w].busy = IF @ = job[j].seq /\ job[j].sid # 0 THEN 0 ELSE @]
        /\ groups' = Released([G EXCEPT ![i].creating = @ - 1], S, i)
        /\ sess' = S
        /\ files' = IF job[j].sid # 0 /\ ~S[job[j].sid].att THEN F \ {job[j].sid} ELSE F
        /\ End(j) /\ Unlock(j)
FailCreate(j) == EndCreate(j, wires, groups, sess, files)

Cache(W, w, q, outcome) == [W EXCEPT ![w].csSeq = q, ![w].cached = outcome, ![w].busy = 0]

(* Mutant: the slot is not looked at again once the reservations are held. *)
ClaimSlot_unchecked(j) ==
    LET w == job[j].wire IN
    /\ job[j].pc = "claim" /\ next.sid <= MaxSess
    /\ wires' = [wires EXCEPT ![w].busy = job[j].seq]
    /\ next' = [next EXCEPT !.sid = @ + 1]
    /\ files' = files \cup {next.sid}
    /\ job' = [job EXCEPT ![j].sid = next.sid,
                          ![j].pc = IF wires[w].confirmed \/ wires[w].adopted THEN "islive" ELSE "confirm"]
    /\ UNCHANGED <<record, staged, served, boot, startup, own, groups, sess, opens, olock, todo, used>>

(* The slot again, now that the reservations are held; then the file. *)
ClaimSlot(j) ==
    LET w == job[j].wire
        c == wires[w]
    IN  /\ job[j].pc = "claim"
        /\ IF c.retired \/ SlotAnswers(c, job[j].seq) \/ next.sid > MaxSess
           THEN FailCreate(j) /\ UNCHANGED <<next, served>>
           ELSE /\ wires' = [wires EXCEPT ![w].busy = job[j].seq]
                /\ next' = [next EXCEPT !.sid = @ + 1]
                /\ files' = files \cup {next.sid}
                /\ job' = [job EXCEPT ![j].sid = next.sid,
                                      ![j].pc = IF c.confirmed \/ c.adopted THEN "islive" ELSE "confirm"]
                /\ UNCHANGED <<groups, sess, olock, served>>
        /\ UNCHANGED <<record, staged, boot, startup, own, opens, todo, used>>

(* An adopted or confirmed record: the client record must still confirm it. *)
CheckLive(j) ==
    LET w == job[j].wire
        c == wires[w]
    IN  /\ job[j].pc = "islive"
        /\ CASE ~c.confirmed /\ c.boot.p # job[j].boot.p ->
                   /\ EndCreate(j, Cache(wires, w, job[j].seq, "CLID_INUSE"), groups, sess, files)
                   /\ UNCHANGED own
             [] record # c.inc /\ (c.confirmed \/ c.boot.p = job[j].boot.p) ->
                   /\ EndCreate(j, RetiredWires(wires, w), RetiredGroups(groups, sess, wires, w), sess, files)
                   /\ own' = RetiredOwn(own, w)
             [] OTHER -> Go(j, "commit") /\ UNCHANGED <<wires, own, groups, sess, files, olock>>
        /\ UNCHANGED <<record, staged, served, boot, startup, opens, todo, next, used>>

(* confirmPending, under the owner's lock. *)
confirmPending(j) ==
    LET w == job[j].wire
        c == wires[w]
    IN  /\ job[j].pc = "confirm"
        /\ CASE c.boot.p # job[j].boot.p ->
                   EndCreate(j, Cache(wires, w, job[j].seq, "CLID_INUSE"), groups, sess, files)
             [] c.boot.p = job[j].boot.p /\ olock = none /\ c.retired -> FailCreate(j)
             [] OTHER ->
                   /\ olock = none /\ olock' = j
                   /\ IF record \notin {0, c.inc} THEN Call(j, record, TRUE, "close") ELSE Go(j, "write")
                   /\ UNCHANGED <<wires, groups, sess, files>>
        /\ UNCHANGED <<record, staged, served, boot, startup, own, opens, todo, next, used>>

(* closeForReplacement of the incarnation the record still confirms. *)
ClosePrevious(j) ==
    LET p == record IN
    /\ job[j].pc = "close"
    /\ CASE job[j].res = "err" -> FailCreate(j)
         [] job[j].res # "err" /\ p \in {0, wires[job[j].wire].inc} ->
               Go(j, "write") /\ UNCHANGED <<wires, groups, sess, files, olock>>
         [] job[j].res # "err" /\ p \notin {0, wires[job[j].wire].inc}
            /\ (busy(groups[p]) \/ groups[p].state # "open") -> FailCreate(j)
         [] OTHER ->
               /\ groups' = [groups EXCEPT ![p].there = TRUE, ![p].state = "closing"]
               /\ job' = [job EXCEPT ![j].pc = "principal", ![j].old = p]
               /\ UNCHANGED <<wires, sess, files, olock>>
    /\ UNCHANGED <<record, staged, served, boot, startup, own, opens, todo, next, used>>

Reopened(p) == IF p = 0 THEN groups ELSE Released([groups EXCEPT ![p].state = "open"], sess, p)

(* Mutant: the principal is checked at the registration only. *)
CheckPrincipal_skipped(j) ==
    /\ job[j].pc = "principal"
    /\ Go(j, "write")
    /\ UNCHANGED <<durable, boot, startup, wires, own, groups, sess, opens, olock, todo, next, used>>

(* The principal check again, now that no OPEN can come behind it. *)
CheckPrincipal(j) ==
    LET w == job[j].wire
        p == job[j].old
    IN  /\ job[j].pc = "principal"
        /\ IF boot[p].p # wires[w].boot.p /\ holdsWriteState(p)
           THEN EndCreate(j, Cache(wires, w, job[j].seq, "CLID_INUSE"), Reopened(p), sess, files)
           ELSE Go(j, "write") /\ UNCHANGED <<wires, groups, sess, files, olock>>
        /\ UNCHANGED <<record, staged, served, boot, startup, own, opens, todo, next, used>>

(* records.Confirm: durable once it returns. *)
Confirm(j) ==
    LET i == wires[job[j].wire].inc
        p == job[j].old
    IN  /\ job[j].pc = "write"
        /\ \/ /\ record' = i
              /\ Go(j, IF p = 0 THEN "commit" ELSE "replaced")
              /\ UNCHANGED <<wires, groups, sess, files, olock, used>>
           \/ /\ record # i /\ Fault
              /\ EndCreate(j, wires, Reopened(p), sess, files)
              /\ UNCHANGED record
        /\ UNCHANGED <<staged, served, boot, startup, own, opens, todo, next>>

Replaced(j) ==
    LET p == job[j].old IN
    /\ job[j].pc = "replaced"
    /\ groups' = Released([groups EXCEPT ![p].state = "replaced"], sess, p)
    /\ Go(j, "drop")
    /\ UNCHANGED <<durable, boot, startup, wires, own, sess, opens, olock, todo, next, used>>

(* dropClientLocked, for a replaced or destroyed incarnation. *)
dropClient(j, p) ==
    LET T == Detached(sess, p)
        w == groups[p].wire
    IN  IF ~groups[p].there THEN UNCHANGED <<wires, own, groups, sess, files>>
        ELSE /\ sess' = T
             /\ files' = files \ Closed(sess, T)
             /\ wires' = RetiredWires(wires, w)
             /\ own' = IF w = 0 THEN own ELSE RetiredOwn(own, w)
             /\ groups' = Released([groups EXCEPT ![p].dropped = TRUE, ![p].quiet = FALSE, ![p].wire = 0], T, p)

DropReplaced(j) ==
    /\ job[j].pc = "drop"
    /\ dropClient(j, job[j].old)
    /\ Go(j, "purge")
    /\ UNCHANGED <<record, staged, served, boot, startup, opens, olock, todo, next, used>>

PurgeState(j) ==
    /\ job[j].pc = "purge"
    /\ expireClientState(job[j].old)
    /\ Go(j, "commit")
    /\ UNCHANGED <<record, files, served, boot, startup, wires, own, groups, sess, olock, todo, next, used>>

(* commitLocked: the session is inserted, the wire record confirmed, the     *)
(* lease started and OK cached, unless the record went meanwhile.            *)
Commit(j) ==
    LET w == job[j].wire
        c == wires[w]
        i == c.inc
        s == job[j].sid
    IN  /\ job[j].pc = "commit"
        /\ IF c.retired \/ expired(i)
           THEN FailCreate(j) /\ UNCHANGED own
           ELSE /\ EndCreate(j, [Cache(wires, w, job[j].seq, "OK") EXCEPT ![w].confirmed = TRUE],
                             [groups EXCEPT ![i].dropped = FALSE, ![i].quiet = TRUE],
                             [sess EXCEPT ![s] = [inc |-> i, att |-> TRUE, users |-> 1, from |-> <<w, job[j].seq>>]],
                             files)
                /\ own' = IF c.confirmed THEN own
                          ELSE [confirmed |-> w,
                                unconfirmed |-> IF own.unconfirmed = w THEN 0 ELSE own.unconfirmed]
        /\ UNCHANGED <<record, staged, served, boot, startup, opens, todo, next, used>>

createSession(j) ==
    \/ ClaimSlot(j) \/ CheckLive(j) \/ confirmPending(j) \/ ClosePrevious(j) \/ CheckPrincipal(j)
    \/ Confirm(j) \/ Replaced(j) \/ DropReplaced(j) \/ PurgeState(j) \/ Commit(j)

-----------------------------------------------------------------------------
(* A request: SEQUENCE's admission, an operation, the reply.                 *)

(* holdRequest: the gate and the hold share the lock. *)
holdRequest(j) ==
    \E s \in SIds :
      LET g == groups[sess[s].inc] IN
      /\ job[j].pc = "idle" /\ sess[s].att
      /\ g.there /\ g.state = "open" /\ g.lease = "live"
      /\ groups' = [groups EXCEPT ![sess[s].inc].prov = @ + 1]
      /\ job' = [job EXCEPT ![j] = [Idle EXCEPT !.pc = "use", !.sid = s, !.inc = sess[s].inc]]
      /\ Issue
      /\ UNCHANGED <<durable, boot, startup, wires, own, sess, opens, olock, todo, next>>

(* A failed admission's hold renews nothing. *)
useSession(j) ==
    LET s == job[j].sid IN
    /\ job[j].pc = "use"
    /\ IF sess[s].att
       THEN sess' = [sess EXCEPT ![s].users = @ + 1] /\ Go(j, "gate") /\ UNCHANGED groups
       ELSE /\ groups' = Released([groups EXCEPT ![job[j].inc].prov = @ - 1], sess, job[j].inc)
            /\ End(j) /\ UNCHANGED sess
    /\ UNCHANGED <<durable, boot, startup, wires, own, opens, olock, todo, next, used>>

(* releaseSessionUse: the file goes with the last use of a detached session. *)
Unused(s) == [sess EXCEPT ![s].users = @ - 1]

activate(j) ==
    LET s == job[j].sid
        i == job[j].inc
    IN  /\ job[j].pc = "gate"
        /\ IF groups[i].lease = "live" /\ sess[s].att
           THEN /\ groups' = [groups EXCEPT ![i].prov = @ - 1, ![i].act = @ + 1]
                /\ Go(j, "run") /\ UNCHANGED <<sess, files>>
           ELSE /\ groups' = Released([groups EXCEPT ![i].prov = @ - 1], Unused(s), i)
                /\ sess' = Unused(s)
                /\ files' = files \ Closed(sess, Unused(s))
                /\ End(j)
        /\ UNCHANGED <<record, staged, served, boot, startup, wires, own, opens, olock, todo, next, used>>

(* OPEN for writing stages its writer; CLOSE publishes it; other operations  *)
(* touch neither.                                                            *)
RunRequest(j) ==
    LET i == job[j].inc IN
    /\ job[j].pc = "run"
    /\ \/ /\ i \notin opens
          /\ staged' = staged \cup {i}
          /\ job' = [job EXCEPT ![j].pc = "status", ![j].state = i \notin staged]
          /\ UNCHANGED opens
       \/ /\ i \in opens
          /\ opens' = opens \ {i} /\ staged' = staged \ {i}
          /\ Go(j, "finish")
       \/ Go(j, "finish") /\ UNCHANGED <<opens, staged>>
    /\ UNCHANGED <<record, files, served, boot, startup, wires, own, groups, sess, olock, todo, next, used>>

(* clientStatus: an open needs a live client; staging made for it goes. *)
OpenStatus(j) ==
    LET i == job[j].inc IN
    /\ job[j].pc = "status"
    /\ IF clientLive(i) THEN Go(j, "open") /\ UNCHANGED staged
       ELSE Go(j, "finish") /\ staged' = IF job[j].state THEN staged \ {i} ELSE staged
    /\ UNCHANGED <<record, files, served, boot, startup, wires, own, groups, sess, opens, olock, todo, next, used>>

RegisterOpen(j) ==
    /\ job[j].pc = "open"
    /\ opens' = opens \cup {job[j].inc}
    /\ Go(j, "finish")
    /\ UNCHANGED <<durable, boot, startup, wires, own, groups, sess, olock, todo, next, used>>

(* finish records the reply in the session's file and ends the session use; *)
(* the hold ends once the reply is written.                                 *)
FinishRequest(j) ==
    LET s == job[j].sid IN
    /\ job[j].pc = "finish"
    /\ served' = IF s \in files THEN served \cup {s} ELSE served
    /\ sess' = Unused(s)
    /\ files' = files \ Closed(sess, Unused(s))
    /\ Go(j, "release")
    /\ UNCHANGED <<record, staged, boot, startup, wires, own, groups, opens, olock, todo, next, used>>

releaseHold(j) ==
    LET i == job[j].inc IN
    /\ job[j].pc = "release"
    /\ groups' = Released([groups EXCEPT ![i].act = @ - 1,
                                         ![i].quiet = @ \/ ~groups[i].dropped], sess, i)
    /\ End(j)
    /\ UNCHANGED <<durable, boot, startup, wires, own, sess, opens, olock, todo, next, used>>

request(j) == useSession(j) \/ activate(j) \/ RunRequest(j) \/ OpenStatus(j)
              \/ RegisterOpen(j) \/ FinishRequest(j) \/ releaseHold(j)

destroySession(j) ==
    \E s \in SIds :
      LET T == [sess EXCEPT ![s].att = FALSE, ![s].users = @ - 1] IN
      /\ job[j].pc = "idle" /\ sess[s].att
      /\ sess' = T
      /\ files' = files \ Closed(sess, T)
      /\ groups' = Released(groups, T, sess[s].inc)
      /\ Issue
      /\ UNCHANGED <<record, staged, served, boot, startup, wires, own, opens, olock, job, todo, next>>

-----------------------------------------------------------------------------
(* DESTROY_CLIENTID, under the owner's lock. *)

DestroyClientID(j) ==
    \E w \in Wires :
      LET c == wires[w] IN
      /\ job[j].pc = "idle" /\ olock = none
      /\ ~c.retired /\ c.busy = 0 /\ Members(sess, c.inc) = {} /\ c.inc \notin opens
      /\ olock' = j
      /\ job' = [job EXCEPT ![j] = [Idle EXCEPT !.pc = "destroy", !.wire = w, !.inc = c.inc]]
      /\ Issue
      /\ UNCHANGED <<durable, boot, startup, wires, own, groups, sess, opens, todo, next>>

(* The checks again, now under the lock of the retirement. *)
destroyClientRecord(j) ==
    LET c == wires[job[j].wire] IN
    /\ job[j].pc = "destroy"
    /\ IF c.retired \/ c.busy # 0 \/ Members(sess, c.inc) # {} \/ groups[c.inc].state = "closing"
       THEN End(j) /\ Unlock(j) /\ UNCHANGED <<wires, own, groups, sess, files>>
       ELSE dropClient(j, c.inc) /\ Go(j, "expire") /\ UNCHANGED olock
    /\ UNCHANGED <<record, staged, served, boot, startup, opens, todo, next, used>>

DestroyState(j) ==
    /\ job[j].pc = "expire"
    /\ expireClientState(job[j].inc)
    /\ Go(j, "unrecord")
    /\ UNCHANGED <<record, files, served, boot, startup, wires, own, groups, sess, olock, todo, next, used>>

DestroyRecord(j) ==
    /\ job[j].pc = "unrecord"
    /\ \/ record' = (IF record = job[j].inc THEN 0 ELSE record) /\ UNCHANGED used
       \/ record = job[j].inc /\ Fault /\ UNCHANGED record
    /\ End(j) /\ Unlock(j)
    /\ UNCHANGED <<staged, files, served, boot, startup, wires, own, groups, sess, opens, todo, next>>

destroyClient(j) == destroyClientRecord(j) \/ DestroyState(j) \/ DestroyRecord(j)

-----------------------------------------------------------------------------
(* The sweeper, time and restarts. *)

(* runLeaseSweep, the sweeper's tick.  Each table is listed under its own    *)
(* lock; the clients found are visited once all are listed.                  *)
Turn(pc, S) == job' = [job EXCEPT ![sweeper] = [Idle EXCEPT !.pc = pc]] /\ todo' = S

(* removeExpiredStaging: nothing is listed during the startup lease. *)
ListStaged ==
    /\ job[sweeper].pc = "idle"
    /\ Turn("staging", IF startup THEN {} ELSE staged)
    /\ UNCHANGED <<durable, boot, startup, wires, own, groups, sess, opens, olock, next, used>>

(* Mutant: a client that is in no table of this process is not looked for. *)
ListClients_tracked ==
    /\ \/ job[sweeper].pc = "staging" /\ todo = {} /\ Turn("records", opens)
       \/ job[sweeper].pc = "records" /\ Turn("groups", todo)
       \/ job[sweeper].pc = "groups" /\ Turn("visit", todo \cup {i \in Incs : groups[i].there})
    /\ UNCHANGED <<durable, boot, startup, wires, own, groups, sess, opens, olock, next, used>>

(* sweepExpiredClientState: opens.ActiveClientIDs, records.List, the groups. *)
ListClients ==
    /\ \/ job[sweeper].pc = "staging" /\ todo = {} /\ Turn("records", opens)
       \/ job[sweeper].pc = "records" /\ Turn("groups", todo \cup ({record} \ {0}))
       \/ job[sweeper].pc = "groups" /\ Turn("visit", todo \cup {i \in Incs : groups[i].there})
    /\ UNCHANGED <<durable, boot, startup, wires, own, groups, sess, opens, olock, next, used>>

(* The next client of a list: decideExpired, which decides nothing about one  *)
(* that is held.                                                             *)
Sweep(i) ==
    /\ job[sweeper].pc \in {"staging", "visit"} /\ i \in todo
    /\ IF expired(i) \/ ~held(i)
       THEN /\ Call(sweeper, i, TRUE, IF job[sweeper].pc = "staging" THEN "retire" ELSE "swept")
            /\ UNCHANGED <<groups, todo>>
       ELSE /\ groups' = Released(groups, sess, i)
            /\ Turn(job[sweeper].pc, todo \ {i})
    /\ UNCHANGED <<durable, boot, startup, wires, own, sess, opens, olock, next, used>>

(* removeClientExpiredStaging retires the staged writers of an expired client. *)
Swept ==
    LET i == job[sweeper].inc IN
    /\ job[sweeper].pc \in {"retire", "swept"}
    /\ staged' = IF job[sweeper].pc = "retire" /\ job[sweeper].res = "yes" THEN staged \ {i} ELSE staged
    /\ Turn(IF job[sweeper].pc = "retire" THEN "staging" ELSE "visit", todo \ {i})
    /\ UNCHANGED <<record, files, served, boot, startup, wires, own, groups, sess, opens, olock, next, used>>

(* pruneGroupsLocked ends the tick. *)
Prune ==
    /\ job[sweeper].pc = "visit" /\ todo = {}
    /\ groups' = [i \in Incs |-> Released(groups, sess, i)[i]]
    /\ Turn("idle", {})
    /\ UNCHANGED <<durable, boot, startup, wires, own, sess, opens, olock, next, used>>

runLeaseSweep == ListStaged \/ ListClients \/ (\E i \in Incs : Sweep(i)) \/ Swept \/ Prune

(* A quiet period, or the lease a restart gives, runs out. *)
QuietEnds(i) ==
    /\ groups[i].quiet
    /\ groups' = [groups EXCEPT ![i].quiet = FALSE]
    /\ UNCHANGED <<durable, boot, startup, wires, own, sess, opens, olock, job, todo, next, used>>

StartupEnds ==
    /\ startup
    /\ startup' = FALSE
    /\ UNCHANGED <<durable, boot, wires, own, groups, sess, opens, olock, job, todo, next, used>>

(* Mutant: every session file with a request is restored. *)
Restart_unconfirmed ==
    LET back == files \cap served IN
    /\ used.kills < MaxKills /\ Trouble
    /\ used' = [used EXCEPT !.kills = @ + 1]
    /\ startup' = TRUE
    /\ wires' = [w \in Wires |-> NoWire] /\ own' = [confirmed |-> 0, unconfirmed |-> 0]
    /\ files' = back
    /\ sess' = [s \in SIds |-> [sess[s] EXCEPT !.att = s \in back, !.users = IF s \in back THEN 1 ELSE 0]]
    /\ groups' = [i \in Incs |-> [NoGroup EXCEPT !.there = \E s \in back : sess[s].inc = i]]
    /\ opens' = {} /\ olock' = none /\ job' = [j \in All |-> Idle] /\ todo' = {}
    /\ UNCHANGED <<record, staged, served, boot, next>>

(* A kill, and the next start with what is on disk.  restoreSessions: a file *)
(* with a request, of the confirmed incarnation, is a session again; every   *)
(* other file is removed.                                                   *)
Restart ==
    LET back == {s \in files \cap served : sess[s].inc = record} IN
    /\ used.kills < MaxKills /\ Trouble
    /\ used' = [used EXCEPT !.kills = @ + 1]
    /\ startup' = TRUE
    /\ wires' = [w \in Wires |-> NoWire] /\ own' = [confirmed |-> 0, unconfirmed |-> 0]
    /\ files' = back
    /\ sess' = [s \in SIds |-> [sess[s] EXCEPT !.att = s \in back, !.users = IF s \in back THEN 1 ELSE 0]]
    /\ groups' = [i \in Incs |-> [NoGroup EXCEPT !.there = i = record /\ back # {}]]
    /\ opens' = {} /\ olock' = none /\ job' = [j \in All |-> Idle] /\ todo' = {}
    /\ UNCHANGED <<record, staged, served, boot, next>>

-----------------------------------------------------------------------------
Steps(j) == decideExpired(j) \/ Register(j) \/ Registered(j) \/ AddWire(j) \/ createSession(j)
            \/ request(j) \/ destroyClient(j)

Next ==
    \/ \E j \in Workers : ExchangeID(j) \/ beginCreate(j) \/ holdRequest(j) \/ destroySession(j) \/ DestroyClientID(j)
    \/ \E j \in All : Steps(j)
    \/ \E i \in Incs : QuietEnds(i)
    \/ runLeaseSweep \/ StartupEnds \/ Restart

Spec == Init /\ [][Next]_vars

(* A goroutine that runs goes on; time passes; the sweeper's ticker ticks.   *)
Fairness ==
    /\ \A j \in All : WF_vars(Steps(j))
    /\ \A i \in Incs : WF_vars(QuietEnds(i))
    /\ WF_vars(runLeaseSweep) /\ WF_vars(StartupEnds)
LiveSpec == Spec /\ Fairness

-----------------------------------------------------------------------------
(* The counts of a group never go below zero, and a session that can be found *)
(* is in use (useSession, releaseSessionUse, detachSession).                  *)
TypeOK ==
    /\ record \in 0..MaxInc /\ staged \subseteq Incs /\ opens \subseteq Incs /\ todo \subseteq Incs
    /\ served \subseteq SIds /\ files \subseteq SIds
    /\ own \in [confirmed : 0..MaxWire, unconfirmed : 0..MaxWire]
    /\ \A i \in Incs : groups[i].prov >= 0 /\ groups[i].act >= 0 /\ groups[i].creating >= 0
    /\ \A s \in SIds : sess[s].users >= 0 /\ (sess[s].att => sess[s].users > 0 /\ sess[s].inc # 0)
    /\ olock \in All \cup {none}

(* A session belongs to the incarnation the durable client record confirms,  *)
(* unless the request that removed or replaced the record is still retiring  *)
(* it: otherwise two boots would be served at once, and a restart would drop *)
(* a session whose requests were answered (restoreSession).                  *)
Retiring(i) ==
    \E j \in All : \/ job[j].inc = i /\ job[j].pc \in {"remove", "retirewire", "retiresess"}
                   \/ job[j].old = i /\ job[j].pc \in {"replaced", "drop"}
SessionHasRecord == \A s \in SIds : sess[s].att /\ ~Retiring(sess[s].inc) => record = sess[s].inc

(* The lease gate: an incarnation that has a request admitted, or another    *)
(* session of its confirmed wire record being created, is never expired      *)
(* under it.  (A creation on an unconfirmed record is what writes the client *)
(* record, or checks it before it commits.)                                  *)
HeldClientHasRecord ==
    \A i \in Incs :
      LET g == groups[i]
          admitted == g.prov + g.act > 0
          creating == g.creating > 0 /\ g.wire # 0 /\ wires[g.wire].confirmed
      IN  (admitted \/ creating) /\ ~g.dropped => record = i

(* Another principal takes the identity over only from an incarnation that   *)
(* holds no write state (CLID_INUSE otherwise), whatever opens in between.   *)
TakeoverOnlyIdle ==
    [][\A p, i \in Incs : record = p /\ record' = i /\ p # i /\ boot[p].p # boot[i].p
                          => ~holdsWriteState(p)]_vars

(* The creation slot runs each CREATE_SESSION of a wire clientid once: no    *)
(* two sessions come from one sequence number, however it is retransmitted.  *)
CreationOnce ==
    \A s, t \in SIds : sess[s].from # <<0, 0>> /\ sess[s].from = sess[t].from => s = t

(* A client that stays quiet is reaped: if no request and no creation of an   *)
(* incarnation runs any more, its client record, its opens and its staged    *)
(* writers go in the end, those of an earlier process included, although the *)
(* sweeper lists the tables one after the other while calls, restarts and    *)
(* failing removals change them.                                             *)
QuietIsReaped ==
    \A i \in Incs : <>[](~busy(groups[i])) => <>[](record # i /\ ~holdsWriteState(i))
====
