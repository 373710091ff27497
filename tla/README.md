# TLA+ models of TernFS

TernFS is a distributed filesystem for large immutable files. These modules model the parts
of it where several machines, or several requests on one machine, change the same state: the
cross-directory coordinator (CDC), the directories and the spans of a shard, the replicated
log under both, the NFS server's sessions and leases, and the messages that these processes
exchange. TLC checks the modules on small instances; TLAPS proves, for all instances, the
properties of the CDC's scheduler, of a persistent NFS session and of the creation of
sessions.

`PROJECT.json` lists, in a form tools can read, the components, the runs, the correspondence
between definitions and source lines, the findings, the hazards and the theorems.

## 1. The system and its parts

| Part | Source | What it keeps, and who talks to it | Modelled by |
|---|---|---|---|
| CDC scheduler | `cpp/cdc/CDCDB.cpp` (1500-2010) | queue of transactions per directory, in RocksDB | `CDCQueue` |
| CDC transactions | `cpp/cdc/CDCDB.cpp` (180-1490) | six state machines that change directories of several shards | `CDCTxns` |
| CDC server | `cpp/cdc/CDC.cpp` | the loop around CDCDB: client requests, shard requests in flight, log | - |
| Shard, directories | `cpp/shard/ShardDB.cpp` | directories, files and edges of one of 256 shards | `ShardDirs` |
| Shard, spans and blocks | `cpp/shard/ShardDB.cpp` (2719-3690) | what a file consists of, which blocks hold it | `Spans` |
| Shard server | `cpp/shard/Shard.cpp` | the loop around ShardDB: reader, writer, append window, proxies | - |
| LogsDB | `cpp/core/logsdb/` | log with five replicas under shards, CDC and registry | `LogsDB` |
| Registry | `cpp/registry/` | where every service is, who leads, block services and their flags | its connections, in `Wire` |
| Registry proxy | `go/ternregistryproxy/` | a registry for one location in front of the real one | `Wire` |
| Thread queues | `cpp/core/SPSC.hpp` | single-producer queues between the threads of a server | - |
| Block service | `go/ternblocks/` | blocks on disk, write and erase with certificates | `Spans`, `Wire` |
| Garbage collector | `go/cleanup/` | applies snapshot policies, destroys files and directories | `CDCTxns`, `Spans` |
| Migration, scrub, defrag | `go/cleanup/` | moves blocks and spans between files | `Spans` |
| NFS server, sessions | `go/nfsd/internal/server`, `sessionstore` | slots with recorded replies that survive a restart | `NFSReplay`, `NFSReplayState` |
| NFS server, clients | `go/nfsd/internal/server`, `clientrecords` | incarnations of a client, their sessions and leases | `NFSClients` |
| NFS server, staging | `go/nfsd/internal/server`, `staging` | copy-on-write writers on a local disk, published on CLOSE | - |
| NFS messages | `go/nfsd/internal/nfs4/nfs.go` | encoders, decoders and accessors of all NFSv4.1 types | `XDR` and its tables |
| TernFS messages | `go/msgs`, `go/core/bincode`, `cpp/core/MsgsGen.*` | the same for the TernFS protocols, in Go and in C++ | `Wire` and its tables |
| Clients | `go/client`, `kmod`, FUSE, S3 | retries, caches, buffered writes | their requests, in `CDCTxns`, `Spans` and `Wire` |
| Erasure coding, CRC, tools, web | `go/core/rs`, `go/core/crc32c`, ... | pure functions, views | - |

(All paths are under `src/`.) How they interact: a client asks the registry where things are,
creates a file in a shard, writes its spans to block services under certificates of the
shard, and links it into a directory of the same shard. Whatever touches two directories, or
a directory and an inode of another shard, is a transaction of the CDC: it sends requests to
the shards one at a time, which lock an edge, create one, set an owner, and unlock. A shard
and the CDC are deterministic functions of their logs; LogsDB makes the log the same on every
replica and decides who may append to it. Deleting only turns current edges into snapshots;
the garbage collector walks directories, removes snapshot edges that the policies give up,
and through the shard or the CDC makes their files transient, erases the blocks and removes
the inodes. Migration, scrubbing and defragmentation write data again under a scratch file
and swap it into the file it belongs to. The NFS server is one more client of TernFS, which
owes its own clients an answer to each request, given once, across its restarts.

## 2. How the models fit together

1. `CDCQueue` implements `SerialTxns`, proved in `CDCQueueProofs`. (Modules that end in
   `Proofs`, and `NFSReplayInv`, `Facts`, `Steps`, `Records` and `Truth`, are about proofs.)
2. `CDCTxns` composes the CDC's transactions with the shards (`ShardDirs`), the network,
   clients and collectors, and takes its scheduler from `SerialTxns`.
3. `LogsDB` is below both: a shard's or the CDC's log entry is applied in one step there.
4. `Spans` is the other half of a shard, with block services, writers, movers and collector.
5. `NFSReplay` and `NFSClients` are the NFS server: one session in depth, and all sessions of
   a client in breadth.
6. `XDR` and `Wire` are the messages all of these send: the other models take a message for a
   value, and these two show that what one process writes another reads.

## 3. The modules

### CDCRequests, CDCQueue, SerialTxns

`CDCRequests` says which directories a request locks (`directoriesNeedingLock`; two directory
moves also share the pseudo-directory `MOVE_DIRECTORY_LOCK`). `CDCQueue` models `CDCDBImpl`:

| Variable | Code |
|---|---|
| `lastTxn` | `LAST_TXN_KEY` |
| `enqueued` | `_enqueuedCf` |
| `executing` | keys of `_executingCf` |
| `dirsToTxns`, `sentinel` | `_dirsToTxnsCf`: the queue of a directory and its sentinel key |
| `txnIds` | the worklist of `_startExecuting`, as a count per id (the order is left open) |
| `phase` | which of the three loops of `update()` is running |

One action is one iteration of a loop: `EnqueueReq` (`_enqueueCDCReqs`), `AdvanceFinishes`
(a shard response ends a transaction), `SkipTxn`, `StartTxn`, `StartAndFinish`, `VisitMissing`
(the visits of `_startExecuting`), `Commit`. A request carries whether `start()` refuses it,
since a transaction that ends as it starts frees others in the middle of the loop.

`SerialTxns` is what the comment that opens `CDCDB.cpp` promises, without queues: conflicting
transactions run one at a time in the order of their ids. `CDCQueue` implements it with the
mapping `live <- enqueued, running <- executing`.

### ShardDirs

A library of operators, one per log entry: `applyX(sh, time, ...)` returns the error, the
database and the response of `_applyX` in `ShardDB.cpp`, with its checks in the order of the
code. A database has `dirs` (owner, mtime, policies), `cur` (current edges: target, creation
time, lock), `snap` (snapshot edges, owned or not) and `files` (`none`, `transient`, `file`).
An error leaves the database as it was, as the code rolls back its write batch. Names are
model values, a policy is represented by the directory it was set on, and file contents,
sizes, cookies and hashes are left out.

### CDCTxns

The composition. A transaction's state is that of the code (`step`, the ids and times it
saved, its exit error), plus `again` (the request is repeated under its old id). Actions:

- `Submit`, `StartTxn`: a client's request arrives and starts when `SerialTxns` allows it;
- `Deliver(s, i)`: shard `s` applies a request and answers it;
- `Respond`: the CDC gets an answer: the state machine is advanced, `parent` updated, and the
  next request sent. One operator per step of the code (`AfterLockOldEdge` and so on);
- `Timeout(t, lost)`: the CDC gives up on an answer, whose request is lost or only late;
- `Restart`: another replica of the CDC takes over and resumes every transaction from what is
  in the database (what a state machine held in memory is gone);
- `LinkFile`, `SameDirectoryRename`, `SoftUnlinkFile`, `SameDirectoryRenameSnapshot`,
  `RemoveNonOwnedEdge`, `SameShardHardFileUnlink`, `SetDirectoryInfo`, `RemoveFileInode`: what
  clients and the collector do on a shard without the CDC.

A shard stamps a log entry with a time. It is normally later than all before; `MaxTies`
entries may carry a time already used, as after a change of leader with a clock behind.

### LogsDB

A replica is a record; what `LogMetadata`, `DataPartitions`, `LeaderElection`,
`BatchWriter`, `CatchupReader` and `Appender` do to it are operators on the record, and an
action is one turn of the replica's loop: at most one message, then the calls that end
`processIncomingMessages`. Requests are not stored: a request may be delivered at any time
while its sender waits for an answer, once, often or never, which is what resending over UDP
amounts to. `late` holds copies that outlive the wait. A crash loses what is in memory (the
nominee token, the election, the entries in flight) and keeps what is in RocksDB.

Simplifications: a turn takes one message, where the code may take several; a LOG_READ and
its answer are one step (`CatchUp`); request ids never repeat (in the code they start at 1
in every process); reading takes all that is released; RocksDB writes survive a crash.
Not modelled: rotation of partitions, the catch-up window's size, and the start-up options
`noReplication`, `skipLeaderElection` and `avoidBeingLeader`.

### Spans

One shard's files, span by span, and the blocks they name. `shard` is what the log has built:
files (kind, time left before the deadline, size, state of the last span, spans, the count per
block service of the index) and blocks (service, age, content). `disk`, `writing` and `lost`
are the block services. `act` has a program counter for each party: the writer (`CreateFile`,
`span.go`), the movers, which are migrator and scrubber (`migrate.go` with `scratch.go`), the
defragmenter (`defrag.go`) and the collector (`destructfiles.go`).

An operator `_applyX` per log entry (`AddInlineSpan`, `AddSpanInitiate`, `AddSpanCertify`,
`LinkFile`, `SwapBlocks`, `SwapSpans`, `MoveSpan`, `RemoveSpanInitiate`, `RemoveSpanCertify`
and those that make and remove transient files) returns the new shard and the answer.
`Pending` says which request a party sends at its program counter and `Answered` what it does
with the answer; `ShardRequest`, `Retry` (an answer is lost and the request sent again),
`TimedOut`, `Late` (a copy is applied after its sender went on) and `Crash` are the steps of
every such exchange. A block is written by `StartWriteBlock`, then `writeBlock`, which the
service refuses when the block is too old, or `WriteFails`/`WriteBreaks`; it is erased by
`eraseBlock`, which the service refuses when the block is too young. `Rot` loses a block,
`UpdateScheduled` starts to drain a service, and `Tick` is time: of the durations only the
order matters, so they are small numbers in the order of the code.

Two constants state what an operator of TernFS has to provide. `MoverLag` and `GCLag` bound
the time between the making and the swap of a block and between condemning a span and erasing
it, and `Skew` how far the collector's clock may be ahead (sections 4 and 5). `RecordSize`
next to `SpanSize` is there because the code looks up the state of a span at the length of
its record (`span().size()`, `ShardDB.cpp:3453` and `3650`).

### NFSReplay, NFSReplayState

One session of the NFS server. `NFSReplayState` has the state and what the code computes from
it (`Admission`, `newer`, `NewestArea`, `replayGate`, `Decision`), `NFSReplay` the steps. `slots` and `th` are the process (`session.slots`, and the
compound that runs on a slot with its program counter), `disk`, `file` and `cur` the session's
file with two areas per slot (`sessionstore/store.go`), `edges` and `calls` TernFS with what
was submitted to it and may still be carried out, `client` and `net` the NFS client. A
compound goes through the admission of its SEQUENCE (`startSequence`, `ServeReplay`, `Refuse`),
the gates before an operation (`Gates`), the decision about an operation that an earlier
process may have carried out (`Decide`, from `replay_decide.go`), the lookup, the intent
(`persistIntent`, `IntentWritten`: two steps, between which the area is torn), `Submit`, `Land`
or `NoAnswer`, and `finish`, `SlotWritten`. `Kill` may come between any two of them and
`restoreSessions` reads what is on disk. `OtherHost` changes the same names.

### NFSClients

All sessions of one client owner. A worker is a goroutine with a request; one step is one
section under a lock, or one write to disk: EXCHANGE_ID (`ExchangeID`, `Register`, `AddWire`),
CREATE_SESSION (`beginCreate`, `SlotAnswers`, `ClaimSlot`, `confirmPending`, `CheckPrincipal`,
`Confirm`, `ClosePrevious`, `PurgeState`, ..., `CheckLive`), SEQUENCE (`holdRequest`,
`useSession`, `activate`, `releaseHold`), DESTROY_SESSION, DESTROY_CLIENTID, and the expiry
decision (`decideExpired` and its steps) that the sweeper and others call. A tick of the
sweeper (`runLeaseSweep`) lists the staged writers (`ListStaged`) and decides about their
clients, lists the open state, the records and the groups, each under its own lock
(`ListClients`), visits the clients it found (`Sweep`, `Swept`; those still to be visited are
`todo`) and ends with `Prune`. `record`, `staged`, `files` and `served` are on disk; `Restart` keeps them and restores what `restoreSessions`
does.

### XDR: the NFS messages

`nfs.go` has, for each of about 400 types, a writer, a decoder and accessors. `XDRSteps` is a
vocabulary of what this code does to a buffer (take n bytes, record an offset, align, patch a
count, ...). `NFSTypes`, `NFSOwners`, `NFSOps`, `NFSOpsFh`, `NFSOps41`, `NFSOps42`,
`NFSCompound` and `NFSCallback` state each function as its steps, in the order of the file,
and `NFSTable` collects them. `XDR` gives the steps their meaning and sends messages:
a writer fills in a value behind other bytes, the message arrives whole, followed by more or
cut, and is decoded and looked at.

Three sets of types are exceptions, as constants: `Partial` (a field has only an accessor or
only a method of the writer, so that there is no value to compare), `Even` and `Peopled` (see
section 5).

### Wire: the TernFS messages

The same for the TernFS protocols. `Bincode` has the steps of both implementations of the
format, `MsgsKinds` the numbers of kinds and errors on both sides, `MsgsGoShard`, `MsgsGoCDC`,
`MsgsGoRegistry` and `MsgsGo` each message as the calls that its generated Go code makes,
`MsgsCppShard`, `MsgsCppRegistry` and `MsgsCpp` the same for the C++ code, and `Wire` an exchange: which side packs and which reads, over datagrams or
connections, for the shard, the CDC, the registry, block services and LogsDB. Between client
and registry there may be the registry proxy (`handleRequestParsed`, `proxyResponse`).
`MCCodecs` puts `XDR` and `Wire` side by side, one exchange of either kind at a time.

### What is checked on which instance

The modules whose name begins with `MC` name the instances; each `.cfg` gives the bounds.
Every module with state has a type invariant (`TypeOK`, `WireTypeOK`), which holds on the
instances of the runs and can be added to any of them.

## 4. The runs

Runs that pass:

| Run | Instance | Shows |
|---|---|---|
| `queue` | 3 directories, 5 requests of which two are refused at start, 4 transactions; with fairness | `QueueInv` (the inductive invariant), `NoSharedDirectory`, `NoForgottenTxn`, `RefinesSerialTxns`, `EveryTxnEnds` |
| `dirs` | dB inside dA, 3 of 8 directory transactions, one request lost or late | `NoAssertFails`, `TreeUnderRoot`, `TreesAgree`, `AnswersAreTrue` |
| `clients` | 2 of 4 directory transactions, one change of leader, one direct request, two policies | `NoLeakedLock`, `RemovedIsEmpty`, `RemovedHasPolicies` |
| `files` | two files, moves by the CDC both ways, 3 direct requests of seven kinds, one time tie | `OwnedOnce`, `NoDataLoss`, `NoLostFile` |
| `live` | 2 of 5 transactions, one lost or late request, one change of leader; with fairness | `EveryTxnEnds`, `NoLostFile` |
| `logs` | 3 replicas, 2 appends, 2 elections, 2 crashes, window 2, one late recovery write | `ReadersAgree`, `OneLeaderPerEpoch`, `ReleasedSurvives`, `NoReplicaAborts`, `ReleasedIsFinal` |
| `spans` | 3 services, 5 pairs of parties, 3 files, 6 blocks, one lost answer, crash or late copy, one rotten block | `LinkedDataIntact`, `NoLeakedBlock`, `IndexAgrees`, `DomainsApart`, `LinkedWhole` |
| `nfs_replay` | one slot, 4 kinds of compounds, 2 requests, up to 3 of: kills, disk faults, unanswered calls, changes by another host | `AtMostOnce`, `SuccessIsTrue`, `IntentCoversEffect`, `RecordsAdvance` |
| `nfs_clients` | 2 workers and the sweeper, 2 boots of the same or different principals, with the same or different verifiers, 2 sessions, 5 calls, one kill or disk fault | `SessionHasRecord`, `HeldClientHasRecord`, `CreationOnce`, `TakeoverOnlyIdle` |
| `nfs_lease` | one worker and the sweeper, boots of one principal, 5 calls, one kill or disk fault; with fairness | `QuietIsReaped` |
| `codecs` | the types of `nfs.go` but the 11 of `Partial`, those of `Even` with lengths divisible by 4, and the messages of the TernFS protocols | `ReadsBack`, `CutIsRefused`, `Faithful`, `AnswerFits` |

Why the bounds suffice. A conflict of the scheduler involves a transaction, the one behind it
and one that waits in two queues: four ids make chains of each kind. A loop of directories
needs two that can move, and a third transaction to come in between. A lock leaks, or an
answer is wrong, because of one repeated request at one point, and every point is tried. The
file hazards need a move, a delete and the undoing of it. In LogsDB a released entry is lost
or not in the election that follows its release; two elections let the second one start from
an unfinished recovery, and two appends let one entry be released and the other not. The code has
five replicas; with three a majority is two, so that one crash or one silent replica is enough
to make two majorities meet in a single replica, which is the tightest case.

In `spans`, every pair of parties that can meet on a file meets (a writer has its file to
itself until it is linked or given up to the collector); two copies are the least number that
can be apart or not; a file of one span and one of two make the last span differ from the
others. In `nfs_replay`, slots share the session file's state only, and a request is followed
by at most one other before the area it was written to is used again. `nfs_clients` has two
incarnations because a replacement involves two; a third one meets the second in the same
way. In `codecs` a list has up to two elements, so that what follows the first is seen; an
opaque has each length modulo 4; strings of the TernFS messages have 0, 1, 2, 255 and 256
bytes; a message is cut at every byte of its last 40 (NFS) or, up to 60 bytes, at every byte
(TernFS). No list is so long that its 16-bit count overflows. The registry's limit of 32 MiB for a request is above all of them.

Larger instances of `logs` were checked too and take longer than the run: one append with any
late request (876,554 states), two appends with one election and one crash and any late
request (291,395), two appends with a late NEW_LEADER_CONFIRM (736,950), and three elections
without late requests (523,202). All pass.

Deadlock is checked in `codecs`, where the next exchange can always begin, and nowhere else:
the other models stop when their bounds are used up, and a filesystem nobody uses does nothing.

Fairness. `queue`: `update()` runs to its end (one thread, no waiting), and a transaction
that runs ends. The second is an assumption there, which `live` discharges for its instance.
`live`: what can start does (the CDC applies its log to the end), a request at the head of a
shard's queue is applied, and an answer reaches the CDC. A request that is lost is one that
the CDC sends again in the same step, which the timeout in `CDC.cpp` guarantees; losing
requests without end is excluded by the bound, as it must be for anything to terminate.
Clients, timeouts and changes of leader have no fairness.
`nfs_lease`: a goroutine that can go on does (weak fairness of a worker's steps; no step waits
for a client), time passes (`QuietEnds`, `StartupEnds`), and the sweeper goes on: its ticker
starts a tick, and a tick that has begun comes to its end (weak fairness of `runLeaseSweep`).
A client may be held by a request at one tick, or be moved from one table to another between
two listings; `QuietIsReaped` is about one that in the end has no request under way. Clients have no fairness.

Each property is violated when a definition is replaced by a plausible wrong one; these
variants are the definitions marked "Mutant" in the modules.

## 5. Findings

The code does something else than a comment, an assertion or a document says. Run
`queue_missing` is one such case. For the others the item names the run to start from, what to
change in its configuration and the one property to check; TLC's trace is the scenario.

- `queue_missing`: `MCCDCQueue_missing.cfg` (`CDCDB.cpp:1891`). Two requests of one directory
  come in one log entry. The second is on the worklist because it was enqueued (line 1928), and
  once more because `start()` refused the first and so freed the directory (line 1754). When
  `start()` refuses the second too, at the first visit, the second visit looks up a key that is
  gone, and the checked `Get` throws while the log entry is applied. The same happens to a
  transaction that waits in two directories freed together. Theorem
  `NoMissWithoutRefusal` shows that a refusal is needed.
- `files` with `Menu <- OntoMenu`, one file, no direct requests or ties: `NoAssertFails`
  (`CDCDB.cpp:754`). Renaming a file onto a directory is rolled back by
  unlocking the old edge under `newCreationTime`, which was never set; the shard refuses it and
  an assertion fails. `RenameDirectory` uses the right field.
- `files` with one file, one transaction, `MaxTimeouts = 1`, one direct
  SAME_DIRECTORY_RENAME: `NoAssertFails` (`CDCDB.cpp:717`). The unlock of `RenameFile`'s new edge is sent again
  after a timeout. Its first copy was applied, a client has moved or deleted the file since,
  the shard answers EDGE_NOT_FOUND, and the step asserts that the only error is a timeout. The
  comment at line 737 ("This can only be because of repeated calls from here: we have the edge
  locked, and only the CDC does changes.") holds until the edge is unlocked.
- `files` with one file, one transaction, `Reorder = TRUE`, `MaxTimeouts = 1`, no direct
  requests: `NoLeakedLock` (`ShardDB.cpp:2039`). A copy of `CreateLockedCurrentEdge` that
  arrives when its transaction is over leaves a lock, although `msgs.go:1275` says
  `OldCreationTime` prevents it.
- `files` with `Menu <- FileMenu`, one file, two direct requests among SOFT_UNLINK_FILE and
  SAME_DIRECTORY_RENAME_SNAPSHOT: `NoDataLoss` (`CDCDB.cpp:1301`). The cross-shard hard unlink of a file does not
  check, as the one within a shard does, that nobody brought the file back in between.
- `logs` with `Gaps = TRUE`, three appends, one election, one crash, nothing late:
  `ReadersAgree` (`LeaderElection.cpp:322`). `seek(lastReleased); next()` assumes that the
  entry `lastReleased` is there. If it is not, the entry after it is skipped and recovery may
  give its index to another one.
- `logs` with `Overlap = TRUE`, no crash, nothing late: `ReadersAgree`
  (`LeaderElection.cpp:301`). A replica that gave a promise to a nominee
  and then tries an election of its own forgets the promise when it is refused.
- `spans` with `Casts <- MCMovers`: `SwapKeepsState` (`ShardDB.cpp:3455`, "We don't want to put not-certified blocks in clean
  spans, or similar"). `SwapBlocks` and `SwapSpans` look up a span's state at
  `byteOffset + size()`, and `size()` is the length of the record and not of the span. The
  migrator certifies a block in its scratch file, the collector condemns the file's last span,
  and the swap puts the good block into the condemned span.
- `codecs` with `Even = {}`: `ReadsBack` (`nfs.go:873`). The decoder of `AuthsysParms` records where a field
  begins before it aligns; after a machine name whose length is not divisible by 4 its
  accessors look at the padding. The same is true of `CopyConfirmAuthPriv`,
  `FsLocationsServer4` and `EXCHANGEID4resok` (constant `Even`).

What the passing runs therefore assume: requests of the CDC reach a shard in the order they
were sent (`Reorder = FALSE`); a file is not moved onto a directory; a transaction of files is
not timed out in `clients` and `files`; a file that the collector takes to the CDC is not
brought back meanwhile (`files` has no cross-shard hard unlink, `live` has no direct requests);
in LogsDB, writes reach a follower in order (`Gaps = FALSE`) and no election starts while a
leader or a nominee is alive (`Overlap = FALSE`).

Of `spans`: with the look-up as it is, `LinkedDataIntact` holds only while
`MoverLag + GCLag < EraseCutoff`, that is while a mover swaps a block and the collector erases
what it condemned within the hour in which a block service refuses to erase. Neither side
checks that. With the state looked up at the span's size it holds without a bound. And
`LinkedWhole` needs `Skew = 0`: `RemoveSpanInitiate` does not check the deadline of a
transient file, so a collector whose clock is ahead condemns the spans of a file its writer is
about to link.

Scenarios that the models show when these assumptions are dropped:

- LogsDB, overlapping elections: a leader that accepts a LOG_WRITE or RELEASE of a later
  leader keeps the state LEADER, and its next append fails an assertion (`LogMetadata.cpp:90`).
  With three elections, the drop in `setNomineeToken` for a nominee two epochs ahead loses an
  entry that was written in a recovery and released.
- LogsDB: it is not true that a majority stores every entry that was read: on the first
  message of a new leader, a replica drops what lies after its own release point. What holds
  is the second half of `ReleasedSurvives`.
- CDC: while `SoftUnlinkDirectory` walks up the owners, the policies it has collected are in
  memory; only those of the last directory asked about are stored (`CDCDB.cpp:857`). After a
  change of leader a policy of the removed directory itself may be replaced by one of its
  owner's. It still has a value for every policy, which is what `RemovedHasPolicies` says.
- CDC: an operator who removes a policy of the root makes that walk fail; the runs assume the
  root keeps a value for every policy (`SetDirectoryInfo`).
- Spans: the proof that `AddSpanCertify` accepts is checked against the block it names, not
  against the span's; and `blocksMatch` of `SwapSpans` compares as many blocks per location as
  there are in all locations.
- NFS messages: fields that cannot be written or cannot be read (constant `Partial`:
  `NfsImplId4.nii_date`, `Fs4Status.fss_version`, `WriteResponse4.wr_writeverf`,
  `COPY4resok.cr_requirements`, `LayoutrecallFile4.lor_stateid`, `CBOFFLOAD4args.coa_stateid`
  and others); a list that is left empty before another field has its count appended at the
  end (constant `Peopled`: `CopyToAuthPriv`, `SsvSpParms4`); and 19 list types whose exported
  `ReadX` checks only the header, which `CutIsRefused` accounts for.
- The registry proxy has no case for four kinds of requests, which it refuses (`NotProxied`).
- NFS server: DESTROY_CLIENTID does not ask for requests that still run on detached sessions.
- CDC, requests that overtake each other (`dirs` with `Reorder = TRUE`): an unlock of
  RenameDirectory's new edge, sent twice after a timeout, arrives the second time when a later
  move has locked that edge, and unlocks it. The directory then has two unlocked names while
  the later move is between its two unlocks (`TreeUnderRoot`).

Further assumptions: a new leader of the CDC has applied all its predecessor's log entries
before it resumes transactions, and direct requests get a fresh time.

## 6. The proofs

`CDCQueueProofs`, about `CDCQueue`, for any sets of directories and requests and any bound on
ids. Assumptions on the constants are `QueueAssumption` and those of `CDCRequests`.

| Theorem | States |
|---|---|
| `QueueInvariant` | `Spec => []QueueInv` |
| `LocksAreExclusive` | `Spec => []NoSharedDirectory` |
| `NothingForgotten` | `Spec => []NoForgottenTxn` |
| `QueueRefinesSerial` | `Spec => RefinesSerialTxns` |
| `NoMissWithoutRefusal` | if `start()` refuses no request, `Spec => []NeverVisitsMissing` |

The argument. Exclusive locks follow from "a running transaction is the sentinel of all its
directories" (`ExecutingIsFirst`). That is kept only if a sentinel is moved on when, and only
when, its transaction ends, and moved to the next id in line, which needs `SentinelIsFirst`
(the sentinel is the least id of the queue) and `QueuesMatch` (a queue holds exactly the live
transactions that need its directory). Nothing being forgotten needs `ReadyIsVisited`: inside
`update()`, a transaction that became ready is still on the worklist; together with
`IdleIsDone` it gives that after a log entry nothing ready waits, and the least waiting id in
a queue is behind a live smaller one. `FreshIds` keeps new ids above all others. The two
ways of ending a transaction share the lemma `FinishKeepsInv`; that a least id exists
(`LeastNat`) is derived from the well-foundedness of strict inclusion on finite sets.
Refinement maps every step to a step of `SerialTxns` or a stutter; the one fact it needs of
the invariant is that a ready transaction may run (`ReadyMayRun`).

`NFSReplayProofs`, about `NFSReplay`, for any slots, names, compounds, and numbers of requests,
kills, failing writes, unanswered calls and changes by other hosts. The assumption on the
constants, `ReplayAssumption`, is that a session does not live through half of its sequence ids
(`MaxReqs < SeqIds \div 2`, 2^31 requests in the code): behind it `newer`, which compares
modulo 2^32, would take an old record for the newest.

| Theorem | States |
|---|---|
| `ReplayInvariant` | `Spec => []ReplayInv` |
| `AppliedOnce` | `Spec => []AtMostOnce` |
| `OkIsTrue` | `Spec => []SuccessIsTrue` |
| `EffectsAccounted` | `Spec => []IntentCoversEffect` |
| `NewestAdvances` | `Spec => RecordsAdvance` |
| `WellTyped` | `Spec => []TypeOK` |

The argument. None of these is inductive: that an operation is not repeated depends on what
is on disk, which depends on where the compound was when it was written, which depends on the
client having waited. `NFSReplayInv` has the invariant in layers that are proved in this order:
the shape of the state and whose a slot, a thread and a record are (`Base`, `CallsInv`); only
the request that its client waits for can be taken up (`WireInv`); where a compound is,
relative to the intent it was run again with (`CompoundInv`); the newest record of a slot is what
the process thinks it is, and the intent the compound runs with (`RecordsInv`); what has been
touched in TernFS lies behind the compound or is its intent's operation (`AheadInv`), which
gives `AtMostOnce`; a process hears only of calls that it has submitted itself (`LivesInv`),
and an edge that an intent names, once gone, does not come back, so that `Decision` is right about
what it finds, which gives `SuccessIsTrue`. The layers are proved from `Step`, a description of
what a step may do to a slot, a compound, the records and TernFS. `NFSReplaySteps` proves that
every step of the model is one; `NFSReplayFacts` has what is needed of `newer` and of the
records, `NFSReplayRecords` and `NFSReplayTruth` the layers.

`NFSClientsProofs`, about `NFSClients`: `CreatesOnce`, `Spec => []CreationOnce`, for any number
of workers, calls, incarnations, sessions, restarts and failing writes. The invariant,
`CreationInv`: a creation that has claimed the slot of its wire record is alone in it, the slot
is busy with its sequence number and its session id is its own (`OwnersInv`, `ApartInv`); a
sequence number that made a session is past, or its wire record is retired (`PastInv`).

Only model-checked, and why. Liveness under fairness (`EveryTxnEnds`, both, and
`QuietIsReaped`) is outside the prover, and so is what the recursive decoders of `XDR` and
`Bincode` compute. `CDCTxns` and `Spans`: an invariant would have to say, for each program counter of
each kind of transaction, mover and collector, what the shards and block services look like then.
`LogsDB`: its properties hold under restrictions of the environment (section 5), which a proof
would need in a stronger form than the constants give.

## 7. Not modelled

- NFS server, staging and publication (`ops_open.go`, `staging/`): the state of a writer is
  spread over the staging store, its sidecar file, the open state and TernFS, and nearly every
  early return depends on several of them. `NFSReplay` and `NFSClients` have what they need of
  it: an operation has an effect or not, a client holds write state or not. A publication
  candidate whose link is not answered (`ops_open.go:754`) is the hazard to begin with.
- NFS server, open state, views and callback channels: tables of one process under one lock
  order; capacity credits and admission: reservations always succeed in `NFSClients`.
- CDC server loop and shard server: the append window, the in-flight tables and the catch-up
  window. The models above them take a log entry for one step. What can go wrong there:
  `_logsDBLogIndex` moves with the process's own appends only (`CDC.cpp:399`); one flush of the
  shared write-ahead log stands for two databases (`Shard.cpp:1948`).
- Registry database: batches of log entries; a claim of leadership reads the database and not
  the batch (`RegistryDB.cpp:263`).
- LogsDB, that an election ends: a nominee that has an entry at every index of the recovery
  window sends no LOG_RECOVERY_READ (`LeaderElection.cpp:336`), and one that meets a later
  leader keeps its state (`LeaderElection.cpp:285`). The model has both behaviours; no property
  says that a leader is elected in the end.
- Spans in several locations (`AddSpanLocation`), erase proofs of decommissioned block
  services, and the removal of block services without files.
- The collector's worker pools (`collectdirectories.go:235`) and the migrator's queue of files
  (`migrate.go` 640-960). The latter's aggregator sends to a channel that only it reads and
  that is bounded (10000), and after a service was taken off the schedule and put on it again
  the fetchers of the first time are subtracted from the counter of the second.
- Queues between threads (`SPSC.hpp`): their properties are about the order of single atomic
  operations, for a while with a negative counter in a waiter (`SPSC.hpp:213`).
- Block service picker: weighted random sampling; `Spans` takes any choice it may return.
- Kernel module, FUSE and S3 gateways: caches and buffering above the metadata protocol;
  their requests are those of any client.
- Reed-Solomon and CRC: pure functions over bytes, tested against references. A block is its
  content in `Spans`.
- Tools, web interface, metrics, deployment: no state of the filesystem.
