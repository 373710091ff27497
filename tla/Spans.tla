------------------------------- MODULE Spans -------------------------------
(***************************************************************************)
(* The spans of the files of one shard, the blocks they are made of, and   *)
(* everybody who touches them: a client writing a file, the movers         *)
(* (migrator and scrubber), the defragmenter and the garbage collector.    *)
(*                                                                         *)
(* Nothing but the shard's log makes two of these parties take turns.  A   *)
(* block is a promise of the shard (a span that names it) and a file on a  *)
(* block service; the two are brought together, moved and taken apart by   *)
(* several requests to different servers, any of which may be answered     *)
(* late, twice or not at all.                                              *)
(*                                                                         *)
(* A request that changes the shard is applied in one step, as one entry   *)
(* of the shard's log: applyLogEntry(q) is the new state and the answer.   *)
(* Pending says which request a party sends at its program counter,        *)
(* Answered what it does with the answer.                                  *)
(*                                                                         *)
(* Time is counted in ticks, on the blocks (their age, which stops at      *)
(* EraseCutoff) and on the files (the time left, which stops at -1, when   *)
(* the deadline is past), so that it has no end.  Of the durations of the  *)
(* code only the order matters: a write is accepted for five minutes after *)
(* its block was made (WriteCutoff), an erase after one hour               *)
(* (EraseCutoff), a transient file expires after two (DeadlineInterval)    *)
(* and a scratch file is given up after three (Lifetime).                  *)
(***************************************************************************)
EXTENDS Integers, Sequences, FiniteSets, SequencesExt

CONSTANTS
    Services,           \* the block services
    Domain,             \* the failure domain of each of them
    Content,            \* what the writer's file is made of, span by span
    Inline,             \* the contents small enough to be kept in the span
    Copies,             \* the blocks of a span
    Placed,             \* where the first file's blocks are
    Drainable,          \* the block services that may have to be emptied
    Casts,              \* who takes part: a set of sets of parties
    WriteCutoff, EraseCutoff, DeadlineInterval, Lifetime,
    MoverLag,           \* the ticks between the making and the swap of a block
    GCLag,              \* the ticks between condemning a span and erasing it
    Skew,               \* how far the collector's clock is ahead of the shard's
    SpanSize,           \* the size of a span ...
    RecordSize,         \* ... and of the record that describes it
    MaxAttempts,        \* attempts to write one span
    MaxFiles, MaxBlocks, MaxTrouble, MaxLost, MaxJobs

VARIABLES
    shard,      \* [files, blocks]: what the shard's log has built
    disk,       \* the blocks that are on their block service
    writing,    \* the blocks being uploaded
    lost,       \* the blocks whose disk failed
    draining,   \* the block services blocks are being moved away from
    act,        \* what each party is doing
    late,       \* copies of requests that are still under way
    trouble     \* the faults there have been

vars == <<shard, disk, writing, lost, draining, act, late, trouble>>

Movers == {"migrator", "scrubber"}
Parties == Movers \cup {"writer", "defrag", "gc"}

Blocks == DOMAIN shard.blocks
Files == DOMAIN shard.files

----------------------------------------------------------------------------
(* The shard's log entries.                                                *)

Ok(s, resp) == [shard |-> s, err |-> "NO_ERROR", resp |-> resp]
Err(e) == [shard |-> shard, err |-> e, resp |-> <<>>]

NoSpans == [o \in {} |-> <<>>]
NoBlocks == [b \in Services |-> 0]

_getTransientFile(f, allowPastDeadline) ==
    /\ shard.files[f].kind = "transient"
    /\ allowPastDeadline \/ shard.files[f].left >= 0

_applyConstructFile(q) ==
    Ok([shard EXCEPT !.files =
            Append(@, [kind |-> "transient", left |-> DeadlineInterval,
                       size |-> 0, state |-> "CLEAN", spans |-> NoSpans,
                       count |-> NoBlocks])],
       Len(shard.files) + 1)

(* Mutant: blocks that leave the file are counted as if they came.         *)
_addBlockServicesToFiles_unsigned(bs, count, blocks, delta) ==
    [s \in Services |-> count[s] + Cardinality({i \in DOMAIN blocks : bs[blocks[i]].service = s})]

(* The index from block services to the files that have blocks there.      *)
_addBlockServicesToFiles(bs, count, blocks, delta) ==
    [s \in Services |-> count[s] + delta * Cardinality(
        {i \in DOMAIN blocks : bs[blocks[i]].service = s})]

_initiateTransientFileModification(g) ==
    [g EXCEPT !.left = DeadlineInterval]

_applyAddInlineSpan(q) ==
    LET g == shard.files[q.file]
        h == _initiateTransientFileModification(g)
        span == [crc |-> q.crc, blocks |-> <<>>]
    IN  IF ~_getTransientFile(q.file, FALSE) THEN Err("FILE_NOT_FOUND")
        ELSE IF g.size = q.off + SpanSize /\ q.off \in DOMAIN g.spans /\ g.spans[q.off] = span
        THEN Ok([shard EXCEPT !.files[q.file] = h], <<>>)
        ELSE IF g.size # q.off THEN Err("SPAN_NOT_FOUND")
        ELSE IF g.state # "CLEAN" THEN Err("LAST_SPAN_STATE_NOT_CLEAN")
        ELSE Ok([shard EXCEPT !.files[q.file] =
                   [h EXCEPT !.size = q.off + SpanSize, !.spans = (q.off :> span) @@ @]],
                <<>>)

(* The first answer stands: a second request for the span is given the     *)
(* blocks the first one made, whatever its blacklist.                      *)
_applyAddSpanInitiate(q) ==
    LET g == shard.files[q.file]
        h == _initiateTransientFileModification(g)
        n == Len(shard.blocks)
        ids == [i \in DOMAIN q.services |-> n + i]
        bs == shard.blocks \o [i \in DOMAIN q.services |->
                 [service |-> q.services[i], crc |-> q.crc, age |-> 0]]
    IN  IF q.services = <<>> THEN Err("COULD_NOT_PICK_BLOCK_SERVICES")
        ELSE IF ~_getTransientFile(q.file, FALSE) THEN Err("FILE_NOT_FOUND")
        ELSE IF /\ g.size = q.off + SpanSize
                /\ q.off \in DOMAIN g.spans
                /\ g.spans[q.off].crc = q.crc
                /\ Len(g.spans[q.off].blocks) = Len(q.services)
        THEN Ok([shard EXCEPT !.files[q.file] = h], g.spans[q.off].blocks)
        ELSE IF g.size # q.off THEN Err("SPAN_NOT_FOUND")
        ELSE IF g.state # "CLEAN" THEN Err("LAST_SPAN_STATE_NOT_CLEAN")
        ELSE Ok([files |-> [shard.files EXCEPT ![q.file] =
                   [h EXCEPT !.size = q.off + SpanSize, !.state = "DIRTY",
                             !.spans = (q.off :> [crc |-> q.crc, blocks |-> ids]) @@ @,
                             !.count = _addBlockServicesToFiles(bs, @, ids, 1)]],
                 blocks |-> bs], ids)

(* A proof shows that the block service q.blocks[i] stands on took a       *)
(* block; that it is this span's block is not compared.                    *)
_checkBlockAddProof(b, proof) ==
    shard.blocks[b].service = shard.blocks[proof].service

_applyAddSpanCertify(q) ==
    LET g == shard.files[q.file]
        h == _initiateTransientFileModification(g)
        bs == g.spans[q.off].blocks
    IN  IF ~_getTransientFile(q.file, FALSE) THEN Err("FILE_NOT_FOUND")
        ELSE IF q.off \notin DOMAIN g.spans THEN Err("SPAN_NOT_FOUND")
        ELSE IF g.size > q.off + SpanSize \/ g.state = "CLEAN"
        THEN Ok([shard EXCEPT !.files[q.file] = h], <<>>)
        ELSE IF g.state = "CONDEMNED" THEN Err("SPAN_NOT_FOUND")
        ELSE IF Len(bs) # Len(q.blocks) THEN Err("BAD_NUMBER_OF_BLOCKS_PROOFS")
        ELSE IF \E i \in DOMAIN bs : ~_checkBlockAddProof(bs[i], q.blocks[i])
        THEN Err("BAD_BLOCK_PROOF")
        ELSE Ok([shard EXCEPT !.files[q.file] = [h EXCEPT !.state = "CLEAN"]], <<>>)

(* A client that repeats the request finds its file linked already.        *)
_applyLinkFile(q) ==
    LET g == shard.files[q.file]
    IN  IF g.kind = "file" THEN Ok(shard, <<>>)
        ELSE IF ~_getTransientFile(q.file, FALSE) THEN Err("FILE_NOT_FOUND")
        ELSE IF g.state # "CLEAN" THEN Err("LAST_SPAN_STATE_NOT_CLEAN")
        ELSE Ok([shard EXCEPT !.files[q.file] = [@ EXCEPT !.kind = "file", !.left = 0]], <<>>)

_applyMakeFileTransient(q) ==
    IF shard.files[q.file].kind = "file"
    THEN Ok([shard EXCEPT !.files[q.file] =
               [@ EXCEPT !.kind = "transient", !.left = 0, !.state = "CLEAN"]], <<>>)
    ELSE IF shard.files[q.file].kind = "transient" THEN Ok(shard, <<>>)
    ELSE Err("FILE_NOT_FOUND")

_applyScrapTransientFile(q) ==
    IF _getTransientFile(q.file, TRUE)
    THEN Ok([shard EXCEPT !.files[q.file].left = 0], <<>>)
    ELSE Err("FILE_NOT_FOUND")

(* The last span of a file, dirty or not, is condemned; an inline one has  *)
(* nothing to erase and goes at once.                                      *)
_applyRemoveSpanInitiate(q) ==
    LET g == shard.files[q.file]
        off == g.size - SpanSize
    IN  IF ~_getTransientFile(q.file, TRUE) THEN Err("FILE_NOT_FOUND")
        ELSE IF g.size = 0 THEN Err("FILE_EMPTY")
        ELSE IF g.spans[off].blocks = <<>>
        THEN Ok([shard EXCEPT !.files[q.file] =
                   [g EXCEPT !.size = off, !.spans = [o \in DOMAIN @ \ {off} |-> @[o]]]],
                [off |-> off, blocks |-> <<>>])
        ELSE Ok([shard EXCEPT !.files[q.file].state = "CONDEMNED"],
                [off |-> off, blocks |-> g.spans[off].blocks])

_applyRemoveSpanCertify(q) ==
    LET g == shard.files[q.file]
        bs == g.spans[q.off].blocks
    IN  IF ~_getTransientFile(q.file, TRUE) THEN Err("FILE_NOT_FOUND")
        ELSE IF q.off \notin DOMAIN g.spans THEN Ok(shard, <<>>)
        ELSE IF bs = <<>> THEN Err("CANNOT_CERTIFY_BLOCKLESS_SPAN")
        ELSE IF g.state # "CONDEMNED" THEN Err("SPAN_NOT_FOUND")
        ELSE IF bs # q.blocks THEN Err("BAD_BLOCK_PROOF")
        ELSE Ok([shard EXCEPT !.files[q.file] =
                   [g EXCEPT !.size = q.off, !.state = "CLEAN",
                             !.spans = [o \in DOMAIN @ \ {q.off} |-> @[o]],
                             !.count = _addBlockServicesToFiles(shard.blocks, @, bs, -1)]],
                <<>>)

_applyRemoveFileInode(q) ==
    LET g == shard.files[q.file]
    IN  IF g.kind = "gone" THEN Ok(shard, <<>>)
        ELSE IF g.kind = "file" THEN Err("FILE_IS_NOT_TRANSIENT")
        ELSE IF g.left >= 0 THEN Err("DEADLINE_NOT_PASSED")
        ELSE IF DOMAIN g.spans # {} THEN Err("FILE_NOT_EMPTY")
        ELSE Ok([shard EXCEPT !.files[q.file].kind = "gone"], <<>>)

(* The state of the span that ends at spanEnd: that of the file's last     *)
(* span if it is the one, and clean otherwise.                             *)
_fetchSpanState(f, spanEnd) ==
    IF shard.files[f].kind = "transient" /\ shard.files[f].size = spanEnd
    THEN shard.files[f].state
    ELSE "CLEAN"

_fetchSpan(f, off) == off \in DOMAIN shard.files[f].spans

Has(bs, b) == \E i \in DOMAIN bs : bs[i] = b

(* Mutant: the block services beside it are not looked at.                 *)
checkNoDuplicateBlockServicesOrFailureDomains_absent(bs, old, b) == TRUE

(* May b stand where old stood?  Not beside a block of its own block       *)
(* service or failure domain.                                              *)
checkNoDuplicateBlockServicesOrFailureDomains(bs, old, b) ==
    \A i \in DOMAIN bs : bs[i] = old \/
        Domain[shard.blocks[bs[i]].service] # Domain[shard.blocks[b].service]

swapBlocks(bs, old, new) == [i \in DOMAIN bs |-> IF bs[i] = old THEN new ELSE bs[i]]

_applySwapBlocks(q) ==
    IF ~(_fetchSpan(q.file, q.off) /\ _fetchSpan(q.file2, q.off2))
    THEN Err("SPAN_NOT_FOUND")
    ELSE
    LET bs1 == shard.files[q.file].spans[q.off].blocks
        bs2 == shard.files[q.file2].spans[q.off2].blocks
        recount(f, del, add) ==
            _addBlockServicesToFiles(shard.blocks, _addBlockServicesToFiles(
                shard.blocks, shard.files[f].count, <<del>>, -1), <<add>>, 1)
    IN  IF bs1 = <<>> \/ bs2 = <<>> THEN Err("SWAP_BLOCKS_INLINE_STORAGE")
        ELSE IF _fetchSpanState(q.file, q.off + RecordSize)
                  # _fetchSpanState(q.file2, q.off2 + RecordSize)
        THEN Err("SWAP_BLOCKS_MISMATCHING_STATE")
        ELSE IF ~Has(bs1, q.block) /\ ~Has(bs2, q.block2)
                  /\ Has(bs1, q.block2) /\ Has(bs2, q.block)
        THEN Ok(shard, <<>>)
        ELSE IF ~Has(bs1, q.block) \/ ~Has(bs2, q.block2) THEN Err("BLOCK_NOT_FOUND")
        ELSE IF shard.blocks[q.block].crc # shard.blocks[q.block2].crc
        THEN Err("SWAP_BLOCKS_MISMATCHING_CRC")
        ELSE IF ~(/\ checkNoDuplicateBlockServicesOrFailureDomains(bs1, q.block, q.block2)
                  /\ checkNoDuplicateBlockServicesOrFailureDomains(bs2, q.block2, q.block))
        THEN Err("SWAP_BLOCKS_DUPLICATE_FAILURE_DOMAIN")
        ELSE Ok([shard EXCEPT
                   !.files[q.file] =
                       [@ EXCEPT !.spans[q.off].blocks = swapBlocks(@, q.block, q.block2),
                                 !.count = recount(q.file, q.block, q.block2)],
                   !.files[q.file2] =
                       [@ EXCEPT !.spans[q.off2].blocks = swapBlocks(@, q.block2, q.block),
                                 !.count = recount(q.file2, q.block2, q.block)]], <<>>)

(* A span whose upload failed is put aside in a file of its own.           *)
_applyMoveSpan(q) ==
    LET g == shard.files[q.file]
        h == shard.files[q.file2]
        bs == g.spans[q.off].blocks
    IN  IF ~(_getTransientFile(q.file, TRUE) /\ _getTransientFile(q.file2, TRUE))
        THEN Err("FILE_NOT_FOUND")
        ELSE IF /\ g.size = q.off /\ g.state = "CLEAN"
                /\ h.size = q.off2 + SpanSize /\ h.state = "DIRTY"
        THEN Ok(shard, <<>>)
        ELSE IF \/ g.state # "DIRTY" \/ g.size # q.off + SpanSize
                \/ h.state # "CLEAN" \/ h.size # q.off2
        THEN Err("SPAN_NOT_FOUND")
        ELSE Ok([shard EXCEPT
                   !.files[q.file] =
                       [@ EXCEPT !.size = q.off, !.state = "CLEAN",
                                 !.spans = [o \in DOMAIN @ \ {q.off} |-> @[o]],
                                 !.count = _addBlockServicesToFiles(shard.blocks, @, bs, -1)],
                   !.files[q.file2] =
                       [@ EXCEPT !.size = q.off2 + SpanSize, !.state = "DIRTY",
                                 !.spans = (q.off2 :> g.spans[q.off]) @@ @,
                                 !.count = _addBlockServicesToFiles(shard.blocks, @, bs, 1)]],
                <<>>)

_applySwapSpans(q) ==
    IF ~(_fetchSpan(q.file, q.off) /\ _fetchSpan(q.file2, q.off2))
    THEN Err("SPAN_NOT_FOUND")
    ELSE
    LET sp1 == shard.files[q.file].spans[q.off]
        sp2 == shard.files[q.file2].spans[q.off2]
        recount(f, del, add) ==
            _addBlockServicesToFiles(shard.blocks, _addBlockServicesToFiles(
                shard.blocks, shard.files[f].count, del.blocks, -1), add.blocks, 1)
    IN  IF sp1.blocks = <<>> \/ sp2.blocks = <<>> THEN Err("SWAP_SPANS_INLINE_STORAGE")
        ELSE IF sp1.crc # sp2.crc THEN Err("SWAP_SPANS_MISMATCHING_CRC")
        ELSE IF \/ _fetchSpanState(q.file, q.off + RecordSize) # "CLEAN"
                \/ _fetchSpanState(q.file2, q.off2 + RecordSize) # "CLEAN"
        THEN Err("SWAP_SPANS_NOT_CLEAN")
        ELSE IF sp1.blocks = q.blocks2 /\ sp2.blocks = q.blocks THEN Ok(shard, <<>>)
        ELSE IF ~(sp1.blocks = q.blocks /\ sp2.blocks = q.blocks2)
        THEN Err("SWAP_SPANS_MISMATCHING_BLOCKS")
        ELSE Ok([shard EXCEPT
                   !.files[q.file] =
                       [@ EXCEPT !.spans[q.off] = sp2, !.count = recount(q.file, sp1, sp2)],
                   !.files[q.file2] =
                       [@ EXCEPT !.spans[q.off2] = sp1, !.count = recount(q.file2, sp2, sp1)]],
                <<>>)

applyLogEntry(q) ==
    CASE q.op = "ConstructFile" -> _applyConstructFile(q)
      [] q.op = "AddInlineSpan" -> _applyAddInlineSpan(q)
      [] q.op = "AddSpanInitiate" -> _applyAddSpanInitiate(q)
      [] q.op = "AddSpanCertify" -> _applyAddSpanCertify(q)
      [] q.op = "LinkFile" -> _applyLinkFile(q)
      [] q.op = "MakeFileTransient" -> _applyMakeFileTransient(q)
      [] q.op = "ScrapTransientFile" -> _applyScrapTransientFile(q)
      [] q.op = "RemoveSpanInitiate" -> _applyRemoveSpanInitiate(q)
      [] q.op = "RemoveSpanCertify" -> _applyRemoveSpanCertify(q)
      [] q.op = "RemoveInode" -> _applyRemoveFileInode(q)
      [] q.op = "SwapBlocks" -> _applySwapBlocks(q)
      [] q.op = "MoveSpan" -> _applyMoveSpan(q)
      [] q.op = "SwapSpans" -> _applySwapSpans(q)

----------------------------------------------------------------------------
(* The parties.  A party that appends to a file holds in file, off, crc, n *)
(* and blocks the span it is adding and in acked the blocks it has seen    *)
(* written; the collector uses the same fields for the span it removes.    *)
(* src is what a mover or the defragmenter read of the span it replaces.   *)

NoScratch == [id |-> 0, size |-> 0, left |-> 0]
NoSource == [file |-> 0, off |-> 0, blocks |-> <<>>, good |-> {}]

Idle == [pc |-> "idle", file |-> 0, off |-> 0, crc |-> "", n |-> 0, blocks |-> <<>>,
         acked |-> {}, black |-> {}, temp |-> 0, tries |-> 0, todo |-> {}, waited |-> 0,
         src |-> NoSource, scratch |-> NoScratch, jobs |-> 0]

(* Done with this job, well or badly; the scratch file stays.              *)
Finished(p) == [Idle EXCEPT !.scratch = p.scratch, !.jobs = p.jobs]

Dead == [Idle EXCEPT !.pc = "dead"]

(* The scratch file is locked from before the span is initiated until      *)
(* after it is certified, and by the defragmenter until it is swapped.     *)
Locked(a) ==
    act[a].pc \in {"lock", "initiate", "write", "await", "certify", "temp", "move", "scrap"}
        \/ (a = "defrag" /\ act[a].pc = "swap")

(* An error under the lock: the scratch file is given up on Unlock.  The   *)
(* writer just stops; its file is left to expire.                          *)
ClearOnUnlock(a, p) == IF a = "writer" THEN Dead ELSE [Finished(p) EXCEPT !.pc = "scrap"]

(* Block services in different failure domains, none of them blacklisted.  *)
Picks(p) ==
    LET open == {s \in Services \ draining : Domain[s] \notin p.black}
        sets == {S \in SUBSET open : Cardinality(S) = p.n
                                     /\ \A s, t \in S : s # t => Domain[s] # Domain[t]}
    IN  IF sets = {} THEN {<<>>} ELSE {SetToSeq(S) : S \in sets}

Room(q) ==
    /\ q.op = "ConstructFile" => Len(shard.files) < MaxFiles
    /\ q.op = "AddSpanInitiate" => Len(shard.blocks) + Len(q.services) <= MaxBlocks

(* The requests party a may be sending.                                    *)
Pending(a) ==
    LET p == act[a]
    IN  CASE p.pc \in {"construct", "lock", "temp"} -> {[op |-> "ConstructFile"]}
          [] p.pc = "initiate" ->
                IF p.crc \in Inline
                THEN {[op |-> "AddInlineSpan", file |-> p.file, off |-> p.off, crc |-> p.crc]}
                ELSE {[op |-> "AddSpanInitiate", file |-> p.file, off |-> p.off,
                       crc |-> p.crc, services |-> ss] : ss \in Picks(p)}
          [] p.pc = "certify" ->
                {[op |-> "AddSpanCertify", file |-> p.file, off |-> p.off, blocks |-> p.blocks]}
          [] p.pc = "move" ->
                {[op |-> "MoveSpan", file |-> p.file, off |-> p.off,
                  file2 |-> p.temp, off2 |-> 0]}
          [] p.pc = "link" -> {[op |-> "LinkFile", file |-> p.file]}
          [] p.pc = "swap" ->
                IF a = "defrag"
                THEN {[op |-> "SwapSpans", file |-> p.src.file, off |-> p.src.off,
                       blocks |-> p.src.blocks,
                       file2 |-> p.file, off2 |-> p.off, blocks2 |-> p.blocks]}
                ELSE {[op |-> "SwapBlocks", file |-> p.src.file, off |-> p.src.off,
                       block |-> p.src.blocks[Min(p.todo)],
                       file2 |-> p.file, off2 |-> p.off, block2 |-> p.blocks[1]]}
          [] p.pc = "scrap" -> {[op |-> "ScrapTransientFile", file |-> p.scratch.id]}
          [] p.pc = "unlink" -> {[op |-> "MakeFileTransient", file |-> p.file]}
          [] p.pc = "condemn" -> {[op |-> "RemoveSpanInitiate", file |-> p.file]}
          [] p.pc = "uncertify" ->
                {[op |-> "RemoveSpanCertify", file |-> p.file, off |-> p.off,
                  blocks |-> p.blocks]}
          [] p.pc = "inode" -> {[op |-> "RemoveInode", file |-> p.file]}
          [] OTHER -> {}

----------------------------------------------------------------------------
(* What a party does with an answer.                                       *)

Done(r) == r.err = "NO_ERROR"

(* The writer's next span, or the end of the file.                         *)
WriteFile(p) ==
    LET next == [p EXCEPT !.off = p.off + SpanSize, !.tries = 0, !.black = {}, !.temp = 0,
                          !.blocks = <<>>, !.acked = {}]
        k == next.off \div SpanSize + 1
    IN  IF k > Len(Content) THEN [next EXCEPT !.pc = "link"]
        ELSE [next EXCEPT !.pc = "initiate", !.crc = Content[k]]

Constructed(a, p, r) ==
    IF a = "writer"
    THEN IF Done(r) THEN [p EXCEPT !.pc = "initiate", !.file = r.resp] ELSE Dead
    ELSE IF Done(r)
    THEN [p EXCEPT !.pc = "initiate", !.file = r.resp, !.off = 0,
                   !.scratch = [id |-> r.resp, size |-> 0, left |-> Lifetime]]
    ELSE Finished(p)

Initiated(a, p, r) ==
    IF ~Done(r) THEN ClearOnUnlock(a, p)
    ELSE IF p.crc \in Inline THEN WriteFile(p)
    ELSE [p EXCEPT !.pc = "write", !.blocks = r.resp, !.acked = {}]

Certified(a, p, r) ==
    IF ~Done(r) THEN ClearOnUnlock(a, p)
    ELSE IF a = "writer" THEN WriteFile(p)
    ELSE [p EXCEPT !.pc = "swap", !.acked = {}, !.scratch.size = @ + SpanSize]

TempConstructed(a, p, r) ==
    IF Done(r) THEN [p EXCEPT !.pc = "move", !.temp = r.resp] ELSE ClearOnUnlock(a, p)

Moved(a, p, r) ==
    IF Done(r) THEN [p EXCEPT !.pc = "initiate", !.temp = 0] ELSE ClearOnUnlock(a, p)

(* A mover goes on with the next bad block of the span it read.            *)
BlocksSwapped(p, r) ==
    IF ~Done(r) \/ p.todo = {Min(p.todo)} THEN Finished(p)
    ELSE [p EXCEPT !.pc = "fetch", !.file = 0, !.off = 0, !.blocks = <<>>, !.todo = @ \ {Min(@)},
                   !.black = @ \cup {Domain[shard.blocks[p.blocks[1]].service]}]

SpansSwapped(a, p, r) == IF Done(r) THEN Finished(p) ELSE ClearOnUnlock(a, p)

(* Whatever the answer, the scratch file is forgotten.                     *)
Unlocked(p) == [Finished(p) EXCEPT !.scratch = NoScratch]

Condemned(p, r) ==
    IF Done(r)
    THEN IF r.resp.blocks = <<>> THEN p
         ELSE [p EXCEPT !.pc = "erase", !.off = r.resp.off, !.blocks = r.resp.blocks,
                        !.acked = {}, !.waited = 0]
    ELSE IF r.err = "FILE_EMPTY" THEN [p EXCEPT !.pc = "inode"]
    ELSE Finished(p)

RemovalCertified(p, r) ==
    IF Done(r) THEN [Finished(p) EXCEPT !.pc = "condemn", !.file = p.file] ELSE Finished(p)

Answered(a, p, r) ==
    CASE p.pc \in {"construct", "lock"} -> Constructed(a, p, r)
      [] p.pc = "initiate" -> Initiated(a, p, r)
      [] p.pc = "certify" -> Certified(a, p, r)
      [] p.pc = "temp" -> TempConstructed(a, p, r)
      [] p.pc = "move" -> Moved(a, p, r)
      [] p.pc = "link" -> Dead
      [] p.pc = "swap" -> IF a = "defrag" THEN SpansSwapped(a, p, r) ELSE BlocksSwapped(p, r)
      [] p.pc = "scrap" -> Unlocked(p)
      [] p.pc = "condemn" -> Condemned(p, r)
      [] p.pc = "uncertify" -> RemovalCertified(p, r)
      [] OTHER -> Finished(p)

----------------------------------------------------------------------------
(* Requests and the network between the parties and the shard.             *)

Fault == trouble < MaxTrouble /\ trouble' = trouble + 1

ShardRequest(a) ==
    \E q \in Pending(a) :
        LET r == applyLogEntry(q)
        IN  /\ Room(q)
            /\ shard' = r.shard
            /\ act' = [act EXCEPT ![a] = Answered(a, @, r)]
            /\ \/ UNCHANGED <<late, trouble>>
               \/ Fault /\ late' = late \cup {q}
            /\ UNCHANGED <<disk, writing, lost, draining>>

(* The answer is lost and the request is sent again.                       *)
Retry(a) ==
    \E q \in Pending(a) :
        /\ Room(q)
        /\ shard' = applyLogEntry(q).shard
        /\ Fault
        /\ UNCHANGED <<disk, writing, lost, draining, act, late>>

(* The party gives up waiting; the request may still arrive.               *)
TimedOut(a) ==
    \E q \in Pending(a) :
        /\ Fault
        /\ act' = [act EXCEPT ![a] = Answered(a, @, Err("TIMEOUT"))]
        /\ late' = late \cup {q}
        /\ UNCHANGED <<shard, disk, writing, lost, draining>>

Late(q) ==
    /\ late' = late \ {q}
    /\ \/ Room(q) /\ shard' = applyLogEntry(q).shard
       \/ UNCHANGED shard
    /\ UNCHANGED <<disk, writing, lost, draining, act, trouble>>

----------------------------------------------------------------------------
(* Writing a file (CreateFile, WriteFile, writeSpanBlocks).                *)

CreateFile ==
    /\ act["writer"].pc = "idle"
    /\ act' = [act EXCEPT !["writer"] =
                 [Idle EXCEPT !.pc = "construct", !.crc = Content[1], !.n = Copies]]
    /\ UNCHANGED <<shard, disk, writing, lost, draining, late, trouble>>

(* The span is put aside and tried again elsewhere, a limited number of    *)
(* times; a mover does not try again.                                      *)
FailedAttempt(a, p, b) ==
    IF a \in Movers \/ p.tries >= MaxAttempts THEN ClearOnUnlock(a, p)
    ELSE [p EXCEPT !.pc = "temp", !.tries = @ + 1, !.blocks = <<>>, !.acked = {},
                   !.black = @ \cup {Domain[shard.blocks[b].service]}]

Unwritten(a) ==
    {b \in ToSet(act[a].blocks) : act[a].pc = "await" /\ b \notin act[a].acked}

(* Mutant: a write is accepted however old the block is.                   *)
TooOld_never(b) == FALSE

TooOld(b) == shard.blocks[b].age > WriteCutoff

(* All the blocks are started, then awaited in whatever order they end.    *)
StartWriteBlock(a) ==
    /\ act[a].pc = "write"
    /\ IF TooOld(act[a].blocks[1])
       THEN act' = [act EXCEPT ![a] = FailedAttempt(a, @, act[a].blocks[1])] /\ UNCHANGED writing
       ELSE act' = [act EXCEPT ![a].pc = "await"] /\ writing' = writing \cup ToSet(act[a].blocks)
    /\ UNCHANGED <<shard, disk, lost, draining, late, trouble>>

(* Mutant: the block is acknowledged without being put in its place.       *)
writeBlock_unplaced(b) ==
    /\ writing' = writing \ {b}
    /\ act' = [a \in Parties |->
                 IF b \notin Unwritten(a) THEN act[a]
                 ELSE IF Unwritten(a) = {b} THEN [act[a] EXCEPT !.pc = "certify", !.acked = {}]
                 ELSE [act[a] EXCEPT !.acked = @ \cup {b}]]
    /\ UNCHANGED <<shard, disk, lost, draining, late, trouble>>

(* The block is complete, checked and in its place before the party hears  *)
(* of it.                                                                  *)
writeBlock(b) ==
    /\ writing' = writing \ {b}
    /\ disk' = disk \cup {b}
    /\ act' = [a \in Parties |->
                 IF b \notin Unwritten(a) THEN act[a]
                 ELSE IF Unwritten(a) = {b} THEN [act[a] EXCEPT !.pc = "certify", !.acked = {}]
                 ELSE [act[a] EXCEPT !.acked = @ \cup {b}]]
    /\ UNCHANGED <<shard, lost, draining, late, trouble>>

(* The upload breaks off and leaves nothing.                               *)
WriteBreaks(b) ==
    /\ \A a \in Parties : b \notin Unwritten(a)
    /\ writing' = writing \ {b}
    /\ UNCHANGED <<shard, disk, lost, draining, act, late, trouble>>

(* The party is told that a write failed, or believes so.                  *)
WriteFails(a) ==
    \E b \in Unwritten(a) :
        /\ Fault
        /\ act' = [act EXCEPT ![a] = FailedAttempt(a, @, b)]
        /\ UNCHANGED <<shard, disk, writing, lost, draining, late>>

----------------------------------------------------------------------------
(* Moving blocks (migrateBlocksInFileGeneric) and defragmenting.           *)

(* The migrator goes by the block services it was told to empty, the       *)
(* scrubber by what it finds on the disks.                                 *)
badBlock(a, b) ==
    IF a = "migrator" THEN shard.blocks[b].service \in draining ELSE b \notin disk

(* A span of a linked file with bad blocks, as the shard shows it now.     *)
FileSpans(a) ==
    /\ a \in Movers /\ act[a].pc = "idle" /\ act[a].jobs < MaxJobs
    /\ \E f \in Files : \E o \in DOMAIN shard.files[f].spans :
        LET bs == shard.files[f].spans[o].blocks
            bad == {i \in DOMAIN bs : badBlock(a, bs[i])}
        IN  /\ shard.files[f].kind = "file"
            /\ bad # {}
            /\ act' = [act EXCEPT ![a] =
                 [@ EXCEPT !.pc = "fetch", !.jobs = @ + 1, !.n = 1, !.todo = bad,
                           !.black = {Domain[shard.blocks[bs[i]].service] : i \in DOMAIN bs},
                           !.src = [file |-> f, off |-> o, blocks |-> bs,
                                    good |-> {bs[i] : i \in DOMAIN bs \ bad}]]]
    /\ UNCHANGED <<shard, disk, writing, lost, draining, late, trouble>>

(* Lock the scratch file, made first if there is none.                     *)
Lock(p) ==
    [p EXCEPT !.pc = IF p.scratch.id = 0 THEN "lock" ELSE "initiate",
              !.file = p.scratch.id, !.off = p.scratch.size]

(* The contents come from a block that was good when the span was read.    *)
recoverBlock(a) ==
    /\ act[a].pc = "fetch"
    /\ act' = [act EXCEPT ![a] =
         IF act[a].src.good \cap disk = {} THEN Finished(@)
         ELSE Lock([@ EXCEPT !.crc = shard.blocks[act[a].src.blocks[Min(act[a].todo)]].crc])]
    /\ UNCHANGED <<shard, disk, writing, lost, draining, late, trouble>>

defragFileInternal ==
    /\ act["defrag"].pc = "idle" /\ act["defrag"].jobs < MaxJobs
    /\ \E f \in Files : \E o \in DOMAIN shard.files[f].spans :
        LET sp == shard.files[f].spans[o]
        IN  /\ shard.files[f].kind = "file"
            /\ ToSet(sp.blocks) \cap disk # {}
            /\ act' = [act EXCEPT !["defrag"] =
                 Lock([@ EXCEPT !.jobs = @ + 1, !.n = Copies, !.crc = sp.crc,
                                !.src = [file |-> f, off |-> o, blocks |-> sp.blocks,
                                         good |-> {}]])]
    /\ UNCHANGED <<shard, disk, writing, lost, draining, late, trouble>>

(* Every minute a scratch file past its lifetime is given up, unless it is *)
(* locked.                                                                 *)
releaseScratchFile(a) ==
    /\ act[a].scratch.id # 0 /\ ~Locked(a)
    /\ act[a].scratch.left < 0
    /\ shard' = applyLogEntry([op |-> "ScrapTransientFile", file |-> act[a].scratch.id]).shard
    /\ act' = [act EXCEPT ![a].scratch = NoScratch]
    /\ UNCHANGED <<disk, writing, lost, draining, late, trouble>>

----------------------------------------------------------------------------
(* The garbage collector (DestructFile).                                   *)

(* Mutant: transient files are collected before their deadline.            *)
Collect_early ==
    /\ act["gc"].pc = "idle"
    /\ \E f \in Files :
        /\ shard.files[f].kind = "transient"
        /\ act' = [act EXCEPT !["gc"] = [@ EXCEPT !.pc = "condemn", !.file = f]]
    /\ UNCHANGED <<shard, disk, writing, lost, draining, late, trouble>>

(* It reads its clock before it sends its request, so that a deadline that *)
(* it sees reached is past when the shard applies it, if the clocks agree. *)
Collect ==
    /\ act["gc"].pc = "idle"
    /\ \E f \in Files :
        \/ /\ shard.files[f].kind = "file" /\ act["gc"].jobs < 1
           /\ act' = [act EXCEPT !["gc"] =
                        [@ EXCEPT !.pc = "unlink", !.file = f, !.jobs = @ + 1]]
        \/ /\ shard.files[f].kind = "transient"
           /\ shard.files[f].left < Skew
           /\ act' = [act EXCEPT !["gc"] = [@ EXCEPT !.pc = "condemn", !.file = f]]
    /\ UNCHANGED <<shard, disk, writing, lost, draining, late, trouble>>

TooRecent(b) == shard.blocks[b].age < EraseCutoff

(* Erasing what is not there is fine: it may be the second time.           *)
eraseBlock ==
    /\ act["gc"].pc = "erase"
    /\ \E b \in ToSet(act["gc"].blocks) \ act["gc"].acked :
        LET acked == act["gc"].acked \cup {b}
        IN  /\ ~TooRecent(b)
            /\ disk' = disk \ {b}
            /\ act' = [act EXCEPT !["gc"] =
                 [@ EXCEPT !.acked = acked,
                           !.pc = IF acked = ToSet(act["gc"].blocks) THEN "uncertify" ELSE "erase"]]
    /\ UNCHANGED <<shard, writing, lost, draining, late, trouble>>

(* One block cannot be erased: the file is left for another round.         *)
EraseFails ==
    /\ act["gc"].pc = "erase"
    /\ \E b \in ToSet(act["gc"].blocks) \ act["gc"].acked :
        \/ TooRecent(b) /\ UNCHANGED trouble
        \/ Fault
    /\ act' = [act EXCEPT !["gc"] = Finished(@)]
    /\ UNCHANGED <<shard, disk, writing, lost, draining, late>>

----------------------------------------------------------------------------
(* What else happens.                                                      *)

Crash(a) ==
    /\ act[a].pc \notin {"idle", "dead", "absent"}
    /\ Fault
    /\ act' = [act EXCEPT ![a] = IF a = "writer" THEN Dead
                                 ELSE [Idle EXCEPT !.jobs = act[a].jobs]]
    /\ UNCHANGED <<shard, disk, writing, lost, draining, late>>

UpdateScheduled(s) ==
    /\ act["migrator"].pc # "absent"
    /\ s \notin draining
    /\ draining' = draining \cup {s}
    /\ UNCHANGED <<shard, disk, writing, lost, act, late, trouble>>

Rot(b) ==
    /\ act["scrubber"].pc # "absent"
    /\ Cardinality(lost) < MaxLost
    /\ disk' = disk \ {b} /\ lost' = lost \cup {b}
    /\ UNCHANGED <<shard, writing, draining, act, late, trouble>>

Later(left) == IF left < 0 THEN left ELSE left - 1

(* An hour is long: no packet and no upload survives it, and the parties   *)
(* between two steps that belong together do not take that long.           *)
Tick ==
    /\ late = {}
    /\ \A b \in writing : shard.blocks[b].age + 1 < EraseCutoff
    /\ \A a \in Movers \cup {"defrag"} :
          act[a].pc \in {"write", "await", "certify", "swap"} =>
              \A b \in ToSet(act[a].blocks) : shard.blocks[b].age < MoverLag
    /\ act["gc"].pc = "erase" => act["gc"].waited < GCLag
    /\ shard' = [files |-> [f \in Files |-> [shard.files[f] EXCEPT !.left =
                     IF shard.files[f].kind = "transient" THEN Later(@) ELSE @]],
                 blocks |-> [b \in Blocks |-> [shard.blocks[b] EXCEPT !.age =
                     IF @ < EraseCutoff THEN @ + 1 ELSE @]]]
    /\ act' = [a \in Parties |->
                 [act[a] EXCEPT !.scratch.left = IF act[a].scratch.id = 0 THEN 0 ELSE Later(@),
                                !.waited = IF act[a].pc = "erase" THEN @ + 1 ELSE 0]]
    /\ UNCHANGED <<disk, writing, lost, draining, late, trouble>>

(* One file is linked already; its blocks are old.  The movers and the     *)
(* defragmenter come with a scratch file they used a while ago.            *)
Init ==
    /\ \E cast \in Casts :
        LET users == SetToSeq(cast \ {"writer", "gc"})
            file == [kind |-> "file", left |-> 0, size |-> SpanSize, state |-> "CLEAN",
                     spans |-> (0 :> [crc |-> Content[1], blocks |-> [i \in 1..Copies |-> i]]),
                     count |-> [t \in Services |-> IF t \in Range(Placed) THEN 1 ELSE 0]]
            empty == [kind |-> "transient", left |-> DeadlineInterval, size |-> 0,
                      state |-> "CLEAN", spans |-> NoSpans, count |-> NoBlocks]
        IN  /\ shard = [files |-> <<file>> \o [i \in DOMAIN users |-> empty],
                        blocks |-> [i \in 1..Copies |->
                            [service |-> Placed[i], crc |-> Content[1], age |-> EraseCutoff]]]
            /\ act = [a \in Parties |->
                        IF a \notin cast THEN [Idle EXCEPT !.pc = "absent"]
                        ELSE IF a \in {"writer", "gc"} THEN Idle
                        ELSE [Idle EXCEPT !.scratch =
                                [id |-> 1 + CHOOSE i \in DOMAIN users : users[i] = a,
                                 size |-> 0, left |-> 0]]]
    /\ disk = 1..Copies /\ writing = {} /\ lost = {} /\ draining = {} /\ late = {}
    /\ trouble = 0

Next ==
    \/ \E a \in Parties :
          \/ ShardRequest(a) \/ Retry(a) \/ TimedOut(a) \/ Crash(a)
          \/ StartWriteBlock(a) \/ WriteFails(a)
          \/ FileSpans(a) \/ recoverBlock(a) \/ releaseScratchFile(a)
    \/ \E q \in late : Late(q)
    \/ \E b \in writing : writeBlock(b) \/ WriteBreaks(b)
    \/ \E b \in disk : Rot(b)
    \/ \E s \in Drainable : UpdateScheduled(s)
    \/ CreateFile \/ defragFileInternal \/ Collect \/ eraseBlock \/ EraseFails
    \/ Tick

Spec == Init /\ [][Next]_vars

----------------------------------------------------------------------------
(* Properties.                                                             *)

Exists(f) == shard.files[f].kind \in {"transient", "file"}

(* The blocks the spans of file f name, in all.                            *)
BlocksOf(f) == UNION {ToSet(shard.files[f].spans[o].blocks) : o \in DOMAIN shard.files[f].spans}

Places == UNION {{<<f, o>> : o \in DOMAIN shard.files[f].spans} : f \in Files}
At(p) == shard.files[p[1]].spans[p[2]]

(* The state space: what the variables may hold.  A file is as long as its *)
(* spans, which follow one another from its start (_applyAddSpanInitiate,  *)
(* _applyRemoveSpanCertify, _applyMoveSpan).                               *)
TypeOK ==
    /\ \A f \in Files :
          /\ shard.files[f].kind \in {"transient", "file", "gone"}
          /\ shard.files[f].state \in {"CLEAN", "DIRTY", "CONDEMNED"}
          /\ DOMAIN shard.files[f].spans =
                {o \in 0..(shard.files[f].size - 1) : o % SpanSize = 0}
    /\ disk \cup writing \cup lost \subseteq Blocks
    /\ draining \subseteq Services
    /\ trouble \in 0..MaxTrouble
    /\ \A a \in Parties : act[a].scratch.id \in 0..Len(shard.files)

(* No block of a linked file is missing from its block service, unless     *)
(* the disk failed: nothing the writer, the movers, the defragmenter and   *)
(* the collector do, in any order, takes a live block away                 *)
(* (_applySwapBlocks, DestructFile, migrateBlocksInFileGeneric).           *)
LinkedDataIntact ==
    \A f \in Files : shard.files[f].kind = "file" => BlocksOf(f) \subseteq disk \cup lost

(* No block is leaked and none has two owners: a block on a block service, *)
(* or on its way there, is named by exactly one span of one file, linked   *)
(* or waiting to be destructed ("we need to be certain that we don't leak  *)
(* blocks", _applyAddSpanInitiate).                                        *)
NoLeakedBlock ==
    /\ \A b \in disk \cup writing : \E f \in Files : Exists(f) /\ b \in BlocksOf(f)
    /\ \A p, q \in Places : p # q => ToSet(At(p).blocks) \cap ToSet(At(q).blocks) = {}

(* The index from block services to files, from which the migrator learns  *)
(* what to move, counts exactly the blocks of each file's spans            *)
(* (_addBlockServicesToFiles).                                             *)
IndexAgrees ==
    \A f \in Files : shard.files[f].count =
        [s \in Services |-> Cardinality({b \in BlocksOf(f) : shard.blocks[b].service = s})]

(* The copies of a span of a linked file are in different failure domains, *)
(* also when two movers replaced them at once, each with what it had read  *)
(* before (checkNoDuplicateBlockServicesOrFailureDomains).                 *)
DomainsApart ==
    \A p \in Places : shard.files[p[1]].kind = "file" =>
        \A b, c \in ToSet(At(p).blocks) :
            b # c => Domain[shard.blocks[b].service] # Domain[shard.blocks[c].service]

(* A file is linked with everything that was written to it, each span with *)
(* the contents it was written with (CreateFile, _applyLinkFile), and      *)
(* stays so whatever replaces its blocks.                                  *)
LinkedWhole ==
    \A f \in Files : shard.files[f].kind = "file" =>
        LET contents == IF f = 1 THEN <<Content[1]>> ELSE Content
            spans == shard.files[f].spans
        IN  /\ shard.files[f].size = SpanSize * Len(contents)
            /\ \A k \in DOMAIN contents :
                  LET sp == spans[(k - 1) * SpanSize]
                  IN  sp.crc = contents[k]
                      /\ \A b \in ToSet(sp.blocks) : shard.blocks[b].crc = contents[k]

(* A block goes from a span that was there to another that was there only  *)
(* if both are in the same state: "We don't want to put not-certified      *)
(* blocks in clean spans, or similar" (_applySwapBlocks).                  *)
SpanStateAt(p) == _fetchSpanState(p[1], p[2] + SpanSize)
SwapKeepsState ==
    [][\A p, q \in Places :
          (p # q /\ p[1] \in DOMAIN shard'.files /\ q[2] \in DOMAIN shard'.files[q[1]].spans
             /\ \E b \in ToSet(At(p).blocks) : b \in ToSet(shard'.files[q[1]].spans[q[2]].blocks))
          => SpanStateAt(p) = SpanStateAt(q)]_vars
=============================================================================
