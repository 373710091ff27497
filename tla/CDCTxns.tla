------------------------------- MODULE CDCTxns -------------------------------
(***************************************************************************)
(* The six cross-directory transactions of the CDC (the state machines of  *)
(* CDCDB.cpp), run against the shards (ShardDirs) over a network that      *)
(* delays, loses and, with Reorder, reorders requests, while clients and   *)
(* the garbage collector change the same directories on the shards         *)
(* directly.  When a transaction may start is taken from SerialTxns, which *)
(* CDCQueue implements.                                                    *)
(*                                                                         *)
(* One step of a transaction is one action: the response (or its absence)  *)
(* comes in, the state machine is advanced, and the next request goes out. *)
(***************************************************************************)
EXTENDS ShardDirs, Sequences, SequencesExt

CONSTANTS MOVE_DIRECTORY_LOCK,
          Shards,
          ShardOf,      \* inode -> its shard
          Tree,         \* the initial edges: [dir, name, target]
          OwnInfo,      \* the pairs <<dir, policy>> set at first, besides the root's
          NewDirs,      \* the sequence of ids nextDirectoryId hands out
          Menu,         \* the transactions clients ask for: requests without a time
          Direct,       \* the operations clients send to the shards directly
          Reorder,      \* whether requests to a shard may overtake each other
          NoReq, NoTxn,
          MaxTxns,      \* bound: transactions in a behaviour
          MaxTimeouts,  \* bound: requests that are given up and sent again
          MaxRestarts,  \* bound: changes of the CDC's leader
          MaxDirect,    \* bound: direct operations
          MaxTies       \* bound: log entries a shard stamps with a time already used

VARIABLES live,     \* txn id -> its request, NoReq before it arrives and after it ends
          txn,      \* txn id -> state of its state machine, NoTxn if it does not run
          exit,     \* txn id -> the error it ended with, "" before
          parent,   \* _parentCf: directory -> its owner, NullInode if there is no key
          nextDir,  \* ids handed out of NewDirs
          failed,   \* an ALWAYS_ASSERT of a state machine fired
          sh,       \* the shards
          now,      \* the latest time of a log entry
          net,      \* shard -> requests of the CDC under way to it
          resps,    \* responses under way to the CDC
          toLink,   \* the files a client has made and not linked yet
          spent     \* how much of the bounds above is used up

cdcVars == <<live, txn, exit, parent, nextDir, failed>>
vars    == <<live, txn, exit, parent, nextDir, failed, sh, now, net, resps, toLink, spent>>

Txns    == 1..MaxTxns
Times   == 0..(MaxTxns * (12 + MaxTimeouts) + MaxDirect + 2)
Running == {t \in Txns : txn[t] # NoTxn}

INSTANCE CDCRequests

Serial == INSTANCE SerialTxns WITH Reqs <- {}, running <- Running

-----------------------------------------------------------------------------
(* What the state machines ask of a shard, and the shard's answer. *)

lockEdge(d, n, target, time) ==
  [op |-> "LOCK_CURRENT_EDGE", at |-> d, name |-> n, target |-> target, time |-> time]

unlockEdge(d, n, target, time, wasMoved) ==
  [op |-> "UNLOCK_CURRENT_EDGE", at |-> d, name |-> n, target |-> target, time |-> time,
   moved |-> wasMoved]

createLockedEdge(d, n, target, oldTime) ==
  [op |-> "CREATE_LOCKED_CURRENT_EDGE", at |-> d, name |-> n, target |-> target,
   time |-> oldTime]

lookupOldCreationTime(d, n) == [op |-> "FULL_READ_DIR", at |-> d, name |-> n]

removeDirectoryOwner(d, info) == [op |-> "REMOVE_DIRECTORY_OWNER", at |-> d, info |-> info]

applyShardReq(db, time, q) ==
  CASE q.op = "LOOKUP" -> lookup(db, q.at, q.name)
    [] q.op = "FULL_READ_DIR" -> fullReadDirLast(db, q.at, q.name)
    [] q.op = "STAT_DIRECTORY" -> statDirectory(db, q.at)
    [] q.op = "CREATE_DIRECTORY_INODE" -> applyCreateDirectoryInode(db, time, q.at, q.owner)
    [] q.op = "CREATE_LOCKED_CURRENT_EDGE" ->
         applyCreateLockedCurrentEdge(db, time, q.at, q.name, q.target, q.time)
    [] q.op = "LOCK_CURRENT_EDGE" ->
         applyLockCurrentEdge(db, time, q.at, q.name, q.time, q.target)
    [] q.op = "UNLOCK_CURRENT_EDGE" ->
         applyUnlockCurrentEdge(db, time, q.at, q.name, q.time, q.target, q.moved)
    [] q.op = "REMOVE_DIRECTORY_OWNER" -> applyRemoveDirectoryOwner(db, time, q.at, q.info)
    [] q.op = "SET_DIRECTORY_OWNER" -> applySetDirectoryOwner(db, time, q.at, q.owner)
    [] q.op = "REMOVE_INODE" -> applyRemoveDirectoryInode(db, time, q.at)
    [] q.op = "REMOVE_OWNED_SNAPSHOT_FILE_EDGE" ->
         applyRemoveOwnedSnapshotFileEdge(db, time, q.at, q.name, q.time)
    [] q.op = "MAKE_FILE_TRANSIENT" -> applyMakeFileTransient(db, q.at)

-----------------------------------------------------------------------------
(***************************************************************************)
(* The state of a transaction.  `again' : the request is sent once more    *)
(* under the id it has (needsShard with repeated = true); otherwise it     *)
(* gets a new id, and responses to older ids are dropped.                  *)
(***************************************************************************)
startState == [step |-> "TXN_START", id |-> 0, again |-> FALSE, dirId |-> NullInode,
               oldTime |-> 0, newTime |-> 0, exitError |-> "NO_ERROR",
               statDir |-> NullInode, info |-> inheritInfo]

Go(x, step)          == [x EXCEPT !.step = step, !.again = FALSE]
Again(x)             == [x EXCEPT !.again = TRUE]
\* Mutant: an error ends the transaction at once.
FinishUnrolled(x, err) == [x EXCEPT !.step = "DONE", !.again = FALSE, !.exitError = err]

Rollback(x, err)     == [Go(x, "ROLLBACK") EXCEPT !.exitError = err]
finish(x)            == Go(x, "DONE")
finishWithError(x, err) == [finish(x) EXCEPT !.exitError = err]
AssertFails(x)       == Go(x, "ASSERT")

\* ALWAYS_ASSERT(err == NO_ERROR), then y.
Expect(x, err, y) == IF err = "NO_ERROR" THEN y ELSE AssertFails(x)

\* Mutant: a name that cannot be overridden is tried again.
RetryOverride(err) ==
  err \in {"TIMEOUT", "MTIME_IS_TOO_RECENT", "MORE_RECENT_SNAPSHOT_EDGE",
           "MORE_RECENT_CURRENT_EDGE", "CANNOT_OVERRIDE_NAME"}

createCurrentLockedEdgeRetry(err) ==
  err \in {"TIMEOUT", "MTIME_IS_TOO_RECENT", "MORE_RECENT_SNAPSHOT_EDGE",
           "MORE_RECENT_CURRENT_EDGE"}

-----------------------------------------------------------------------------
(* MakeDirectory: the new directory is made first, then the edge to it. *)

MakeDirectoryReq(r, x) ==
  CASE x.step = "LOOKUP" -> [op |-> "LOOKUP", at |-> r.dir1, name |-> r.name1]
    [] x.step = "CREATE_DIR" ->
         [op |-> "CREATE_DIRECTORY_INODE", at |-> x.dirId, owner |-> r.dir1]
    [] x.step = "LOOKUP_OLD_CREATION_TIME" -> lookupOldCreationTime(r.dir1, r.name1)
    [] x.step = "CREATE_LOCKED_EDGE" ->
         createLockedEdge(r.dir1, r.name1, x.dirId, x.oldTime)
    [] x.step = "UNLOCK_EDGE" -> unlockEdge(r.dir1, r.name1, x.dirId, x.newTime, FALSE)
    [] x.step = "ROLLBACK" -> removeDirectoryOwner(x.dirId, [p \in Tags |-> x.dirId])

AfterMakeDirectory(r, x, p) ==
  CASE x.step = "LOOKUP" ->
         IF p.err = "DIRECTORY_NOT_FOUND" THEN finishWithError(x, p.err)
         ELSE IF p.err = "NAME_NOT_FOUND" THEN Go(x, "CREATE_DIR")
         ELSE Expect(x, p.err, IF p.val \in Dirs THEN finish(x)
                             ELSE finishWithError(x, "CANNOT_OVERRIDE_NAME"))
    [] x.step = "CREATE_DIR" -> Expect(x, p.err, Go(x, "LOOKUP_OLD_CREATION_TIME"))
    [] x.step = "LOOKUP_OLD_CREATION_TIME" ->
         IF p.err = "DIRECTORY_NOT_FOUND" THEN Rollback(x, p.err)
         ELSE Expect(x, p.err, [Go(x, "CREATE_LOCKED_EDGE") EXCEPT !.oldTime = p.val])
    [] x.step = "CREATE_LOCKED_EDGE" ->
         IF createCurrentLockedEdgeRetry(p.err) THEN Again(x)
         ELSE IF p.err = "CANNOT_OVERRIDE_NAME" THEN Rollback(x, p.err)
         ELSE IF p.err = "MISMATCHING_CREATION_TIME" THEN Go(x, "LOOKUP_OLD_CREATION_TIME")
         ELSE Expect(x, p.err, [Go(x, "UNLOCK_EDGE") EXCEPT !.newTime = p.val])
    [] x.step = "UNLOCK_EDGE" ->
         IF p.err = "MTIME_IS_TOO_RECENT" THEN Again(x) ELSE Expect(x, p.err, finish(x))
    [] x.step = "ROLLBACK" -> Expect(x, p.err, finishWithError(x, x.exitError))

-----------------------------------------------------------------------------
HardUnlinkDirectoryReq(r, x) == [op |-> "REMOVE_INODE", at |-> r.dir1]

AfterHardUnlinkDirectory(r, x, p) ==
  IF p.err \in {"DIRECTORY_NOT_FOUND", "DIRECTORY_HAS_OWNER", "DIRECTORY_NOT_EMPTY"}
  THEN finishWithError(x, p.err)
  ELSE Expect(x, p.err, finish(x))

-----------------------------------------------------------------------------
(***************************************************************************)
(* The two renames lock the old edge, create the new one locked, unlock    *)
(* it, and turn the old one into a snapshot.  RenameDirectory then sets    *)
(* the owner.                                                              *)
(***************************************************************************)
RenameReq(r, x, rollbackTime) ==
  CASE x.step = "LOCK_OLD_EDGE" -> lockEdge(r.dir1, r.name1, r.target, r.time)
    [] x.step = "LOOKUP_OLD_CREATION_TIME" -> lookupOldCreationTime(r.dir2, r.name2)
    [] x.step = "CREATE_NEW_LOCKED_EDGE" ->
         createLockedEdge(r.dir2, r.name2, r.target, x.oldTime)
    [] x.step = "UNLOCK_NEW_EDGE" -> unlockEdge(r.dir2, r.name2, r.target, x.newTime, FALSE)
    [] x.step = "UNLOCK_OLD_EDGE" -> unlockEdge(r.dir1, r.name1, r.target, r.time, TRUE)
    [] x.step = "SET_OWNER" -> [op |-> "SET_DIRECTORY_OWNER", at |-> r.target, owner |-> r.dir2]
    [] x.step = "ROLLBACK" -> unlockEdge(r.dir1, r.name1, r.target, rollbackTime, FALSE)

\* rollback() unlocks the old edge under the creation time of the new one.
RenameFileReq(r, x) == RenameReq(r, x, x.newTime)

RenameDirectoryReq(r, x) == RenameReq(r, x, r.time)

\* Mutant: an old edge that is gone is not expected.
AfterLockOldEdgeStrict(x, err) ==
  IF err = "DIRECTORY_NOT_FOUND" THEN finishWithError(x, "OLD_DIRECTORY_NOT_FOUND")
  ELSE Expect(x, err, Go(x, "LOOKUP_OLD_CREATION_TIME"))

\* The steps both renames handle alike.
AfterLockOldEdge(x, err) ==
  IF err = "DIRECTORY_NOT_FOUND" THEN finishWithError(x, "OLD_DIRECTORY_NOT_FOUND")
  ELSE IF err \in {"EDGE_NOT_FOUND", "MISMATCHING_CREATION_TIME"} THEN finishWithError(x, err)
  ELSE Expect(x, err, Go(x, "LOOKUP_OLD_CREATION_TIME"))

AfterLookupOldCreationTime(x, err, val, exitError) ==
  IF err = "DIRECTORY_NOT_FOUND" THEN Rollback(x, exitError)
  ELSE Expect(x, err, [Go(x, "CREATE_NEW_LOCKED_EDGE") EXCEPT !.oldTime = val])

AfterRenameFile(r, x, p) ==
  CASE x.step = "LOCK_OLD_EDGE" -> AfterLockOldEdge(x, p.err)
    [] x.step = "LOOKUP_OLD_CREATION_TIME" ->
         AfterLookupOldCreationTime(x, p.err, p.val, "NEW_DIRECTORY_NOT_FOUND")
    [] x.step = "CREATE_NEW_LOCKED_EDGE" ->
         IF createCurrentLockedEdgeRetry(p.err) THEN Again(x)
         ELSE IF p.err = "MISMATCHING_CREATION_TIME" THEN Go(x, "LOOKUP_OLD_CREATION_TIME")
         ELSE IF p.err = "CANNOT_OVERRIDE_NAME" THEN Rollback(x, p.err)
         ELSE Expect(x, p.err, [Go(x, "UNLOCK_NEW_EDGE") EXCEPT !.newTime = p.val])
    [] x.step = "UNLOCK_NEW_EDGE" -> Expect(x, p.err, Go(x, "UNLOCK_OLD_EDGE"))
    [] x.step = "UNLOCK_OLD_EDGE" ->
         IF p.err = "EDGE_NOT_FOUND" THEN finish(x) ELSE Expect(x, p.err, finish(x))
    [] x.step = "ROLLBACK" -> Expect(x, p.err, finishWithError(x, x.exitError))

\* Here a rollback ends the transaction whatever the shard answers.
AfterRenameDirectory(r, x, p) ==
  CASE x.step = "LOCK_OLD_EDGE" -> AfterLockOldEdge(x, p.err)
    [] x.step = "LOOKUP_OLD_CREATION_TIME" -> AfterLookupOldCreationTime(x, p.err, p.val, p.err)
    [] x.step = "CREATE_NEW_LOCKED_EDGE" ->
         IF createCurrentLockedEdgeRetry(p.err) THEN Again(x)
         ELSE IF p.err = "MISMATCHING_CREATION_TIME" THEN Go(x, "LOOKUP_OLD_CREATION_TIME")
         ELSE IF p.err \in {"CANNOT_OVERRIDE_NAME", "DIRECTORY_NOT_FOUND"} THEN Rollback(x, p.err)
         ELSE Expect(x, p.err, [Go(x, "UNLOCK_NEW_EDGE") EXCEPT !.newTime = p.val])
    [] x.step = "UNLOCK_NEW_EDGE" ->
         IF p.err = "EDGE_NOT_FOUND" THEN Go(x, "UNLOCK_OLD_EDGE")
         ELSE Expect(x, p.err, Go(x, "UNLOCK_OLD_EDGE"))
    [] x.step = "UNLOCK_OLD_EDGE" ->
         IF p.err = "EDGE_NOT_FOUND" THEN Go(x, "SET_OWNER")
         ELSE Expect(x, p.err, Go(x, "SET_OWNER"))
    [] x.step = "SET_OWNER" -> Expect(x, p.err, finish(x))
    [] x.step = "ROLLBACK" -> finishWithError(x, x.exitError)

\* Mutant: only the new owner itself is compared with the target.
loopCheckOneLevel(r) ==
  IF r.dir2 = r.target THEN "LOOP_IN_DIRECTORY_RENAME" ELSE "NO_ERROR"

\* The walk from the new owner up the parents must reach the root without meeting
\* the target; `c' is the cursor after each turn.
loopCheck(r) ==
  LET N == Cardinality(Dirs) + 1
      c[k \in 1..N] == IF k = 1 THEN r.dir2
                       ELSE IF c[k-1] \in {Root, NullInode, r.target} THEN c[k-1]
                       ELSE parent[c[k-1]]
  IN  IF c[N] = Root THEN "NO_ERROR"
      ELSE IF c[N] = NullInode THEN "DIRECTORY_NOT_FOUND"
      ELSE "LOOP_IN_DIRECTORY_RENAME"

-----------------------------------------------------------------------------
(* SoftUnlinkDirectory: the directory loses its owner, its edge becomes a snapshot. *)

SoftUnlinkDirectoryReq(r, x) ==
  CASE x.step = "LOCK_EDGE" -> lockEdge(r.dir1, r.name1, r.target, r.time)
    [] x.step = "STAT" -> [op |-> "STAT_DIRECTORY", at |-> x.statDir]
    [] x.step = "REMOVE_OWNER" -> removeDirectoryOwner(r.target, x.info)
    [] x.step = "UNLOCK_EDGE" -> unlockEdge(r.dir1, r.name1, r.target, r.time, TRUE)
    [] x.step = "ROLLBACK" -> unlockEdge(r.dir1, r.name1, r.target, r.time, FALSE)

\* Mutant: the first directory asked about has to do.
AfterStatOnce(x, p) == Expect(x, p.err, [Go(x, "REMOVE_OWNER") EXCEPT !.info = p.info])

\* The policies found so far live in the state machine object, which is made anew for
\* every response: they are those of the directory just asked about.
AfterStat(x, p) ==
  Expect(x, p.err,
    IF \A tag \in Tags : p.info[tag] # NullInode
    THEN [Go(x, "REMOVE_OWNER") EXCEPT !.info = p.info]
    ELSE IF p.val # NullInode THEN [Go(x, "STAT") EXCEPT !.statDir = p.val]
    ELSE AssertFails(x))

AfterSoftUnlinkDirectory(r, x, p) ==
  CASE x.step = "LOCK_EDGE" ->
         IF p.err \in {"MISMATCHING_CREATION_TIME", "EDGE_NOT_FOUND", "DIRECTORY_NOT_FOUND"}
         THEN finishWithError(x, p.err)
         ELSE Expect(x, p.err, [Go(x, "STAT") EXCEPT !.statDir = r.target])
    [] x.step = "STAT" -> AfterStat(x, p)
    [] x.step = "REMOVE_OWNER" ->
         IF p.err = "DIRECTORY_NOT_EMPTY" THEN Rollback(x, p.err)
         ELSE Expect(x, p.err, Go(x, "UNLOCK_EDGE"))
    [] x.step = "UNLOCK_EDGE" ->
         IF p.err = "EDGE_NOT_FOUND" THEN finish(x) ELSE Expect(x, p.err, finish(x))
    [] x.step = "ROLLBACK" ->
         IF p.err = "EDGE_NOT_FOUND" THEN finishWithError(x, x.exitError)
         ELSE Expect(x, p.err, finishWithError(x, x.exitError))

-----------------------------------------------------------------------------
CrossShardHardUnlinkFileReq(r, x) ==
  IF x.step = "REMOVE_EDGE"
  THEN [op |-> "REMOVE_OWNED_SNAPSHOT_FILE_EDGE", at |-> r.dir1, name |-> r.name1,
        time |-> r.time]
  ELSE [op |-> "MAKE_FILE_TRANSIENT", at |-> r.target]

\* Mutant: the file is taken to go with its edge.
AfterCrossShardEdgeOnly(r, x, p) ==
  IF p.err = "MTIME_IS_TOO_RECENT" THEN Again(x)
  ELSE IF p.err = "DIRECTORY_NOT_FOUND" THEN finishWithError(x, p.err)
  ELSE Expect(x, p.err, finish(x))

AfterCrossShardHardUnlinkFile(r, x, p) ==
  CASE x.step = "REMOVE_EDGE" ->
         IF p.err = "MTIME_IS_TOO_RECENT" THEN Again(x)
         ELSE IF p.err = "DIRECTORY_NOT_FOUND" THEN finishWithError(x, p.err)
         ELSE Expect(x, p.err, Go(x, "MAKE_TRANSIENT"))
    [] x.step = "MAKE_TRANSIENT" ->
         IF p.err = "FILE_NOT_FOUND" THEN finish(x) ELSE Expect(x, p.err, finish(x))

-----------------------------------------------------------------------------
(* A state machine is started, goes on with a response, or goes on without one. *)

StartState(r) ==
  CASE r.kind = "MAKE_DIRECTORY" ->
         [Go(startState, "LOOKUP") EXCEPT !.dirId = NewDirs[nextDir + 1]]
    [] r.kind = "HARD_UNLINK_DIRECTORY" -> Go(startState, "REMOVE_INODE")
    [] r.kind = "RENAME_FILE" ->
         IF r.target \in Dirs THEN finishWithError(startState, "TYPE_IS_NOT_DIRECTORY")
         ELSE IF r.dir1 = r.dir2 THEN finishWithError(startState, "SAME_DIRECTORIES")
         ELSE Go(startState, "LOCK_OLD_EDGE")
    [] r.kind = "SOFT_UNLINK_DIRECTORY" ->
         IF r.target \notin Dirs THEN finishWithError(startState, "TYPE_IS_NOT_DIRECTORY")
         ELSE Go(startState, "LOCK_EDGE")
    [] r.kind = "RENAME_DIRECTORY" ->
         IF r.target \notin Dirs THEN finishWithError(startState, "TYPE_IS_NOT_DIRECTORY")
         ELSE IF r.dir1 = r.dir2 THEN finishWithError(startState, "SAME_DIRECTORIES")
         ELSE IF loopCheck(r) # "NO_ERROR" THEN finishWithError(startState, loopCheck(r))
         ELSE Go(startState, "LOCK_OLD_EDGE")
    [] r.kind = "CROSS_SHARD_HARD_UNLINK_FILE" ->
         IF ShardOf[r.dir1] = ShardOf[r.target] THEN finishWithError(startState, "SAME_SHARD")
         ELSE IF r.target \in Dirs THEN finishWithError(startState, "TYPE_IS_DIRECTORY")
         ELSE Go(startState, "REMOVE_EDGE")

ShardReq(r, x) ==
  CASE r.kind = "MAKE_DIRECTORY" -> MakeDirectoryReq(r, x)
    [] r.kind = "HARD_UNLINK_DIRECTORY" -> HardUnlinkDirectoryReq(r, x)
    [] r.kind = "RENAME_FILE" -> RenameFileReq(r, x)
    [] r.kind = "SOFT_UNLINK_DIRECTORY" -> SoftUnlinkDirectoryReq(r, x)
    [] r.kind = "RENAME_DIRECTORY" -> RenameDirectoryReq(r, x)
    [] r.kind = "CROSS_SHARD_HARD_UNLINK_FILE" -> CrossShardHardUnlinkFileReq(r, x)

After(r, x, p) ==
  CASE r.kind = "MAKE_DIRECTORY" -> AfterMakeDirectory(r, x, p)
    [] r.kind = "HARD_UNLINK_DIRECTORY" -> AfterHardUnlinkDirectory(r, x, p)
    [] r.kind = "RENAME_FILE" -> AfterRenameFile(r, x, p)
    [] r.kind = "SOFT_UNLINK_DIRECTORY" -> AfterSoftUnlinkDirectory(r, x, p)
    [] r.kind = "RENAME_DIRECTORY" -> AfterRenameDirectory(r, x, p)
    [] r.kind = "CROSS_SHARD_HARD_UNLINK_FILE" -> AfterCrossShardHardUnlinkFile(r, x, p)

\* The policies to write are not kept: without them SoftUnlinkDirectory stats again.
SendAgain(r, x) ==
  IF r.kind = "SOFT_UNLINK_DIRECTORY" /\ x.step = "REMOVE_OWNER" THEN Go(x, "STAT")
  ELSE Again(x)

resume(r, x) == Go(SendAgain(r, x), SendAgain(r, x).step)

-----------------------------------------------------------------------------
Edge(d, n) == CHOOSE e \in Tree : e.dir = d /\ e.name = n

InitDir(d) ==
  IF d = Root
  THEN [owner |-> NullInode, mtime |-> 1, info |-> [p \in Tags |-> Root]]
  ELSE IF \E e \in Tree : e.target = d
  THEN [owner |-> (CHOOSE e \in Tree : e.target = d).dir, mtime |-> 1,
        info |-> [p \in Tags |-> IF <<d, p>> \in OwnInfo THEN d ELSE NullInode]]
  ELSE NoDir

Init ==
  /\ live = [t \in Txns |-> NoReq]
  /\ txn = [t \in Txns |-> NoTxn]
  /\ exit = [t \in Txns |-> ""]
  /\ sh = [dirs  |-> [d \in Dirs |-> InitDir(d)],
           cur   |-> [d \in Dirs |-> [n \in Names |->
                       IF \E e \in Tree : e.dir = d /\ e.name = n
                       THEN [target |-> Edge(d, n).target, time |-> 1, locked |-> FALSE]
                       ELSE NoEdge]],
           snap  |-> {},
           files |-> [f \in Files |->
                       IF \E e \in Tree : e.target = f THEN "file" ELSE "transient"]]
  /\ parent = [d \in Dirs |-> IF sh.dirs[d] = NoDir THEN NullInode ELSE sh.dirs[d].owner]
  /\ nextDir = 0
  /\ failed = FALSE
  /\ now = 1
  /\ net = [s \in Shards |-> <<>>]
  /\ resps = {}
  /\ toLink = {f \in Files : \A e \in Tree : e.target # f}
  /\ spent = [timeouts |-> 0, restarts |-> 0, direct |-> 0, ties |-> 0]

Spend(what, max) == /\ spent[what] < max
                    /\ spent' = [spent EXCEPT ![what] = @ + 1]

\* update() starts every transaction that may run before it is done with an entry.
StartPending == \E t \in Txns \ Running : Serial!MayRun(t)

Up == ~failed /\ ~StartPending

-----------------------------------------------------------------------------
(***************************************************************************)
(* A client asks for a transaction on edges it can see: it sends the       *)
(* creation time that a lookup gave it.  By the time the transaction runs, *)
(* the edge may be gone.                                                   *)
(***************************************************************************)
CreationTimes(m) ==
  CASE m.kind \in {"MAKE_DIRECTORY", "HARD_UNLINK_DIRECTORY"} -> {0}
    [] m.kind = "CROSS_SHARD_HARD_UNLINK_FILE" ->
         {s.time : s \in {s \in sh.snap : /\ s.dir = m.dir1 /\ s.name = m.name1
                                          /\ s.target = m.target /\ s.owned}}
    [] OTHER -> {e.time : e \in {e \in {sh.cur[m.dir1][m.name1]} :
                                   e # NoEdge /\ e.target = m.target}}

Waiting(kind) == {t \in Txns \ Running : live[t] # NoReq /\ live[t].kind = kind}

Submit(m) ==
  /\ Up
  /\ m.kind = "MAKE_DIRECTORY" => nextDir + Cardinality(Waiting(m.kind)) < Len(NewDirs)
  /\ \E t \in Txns :
       /\ live[t] = NoReq /\ exit[t] = ""
       /\ \A u \in Txns : u < t => live[u] # NoReq \/ exit[u] # ""
       /\ \E time \in CreationTimes(m) :
            live' = [live EXCEPT ![t] = [kind |-> m.kind, dir1 |-> m.dir1, dir2 |-> m.dir2,
                                         name1 |-> m.name1, name2 |-> m.name2,
                                         target |-> m.target, time |-> time]]
  /\ UNCHANGED <<txn, exit, parent, nextDir, failed, sh, now, net, resps, toLink, spent>>

\* The requests in `ch' and those of the transactions that move on to the states ys.
Numbered(y) == IF y.again THEN y ELSE [y EXCEPT !.id = @ + 1]

Sent(ch, ys) ==
  [s \in Shards |-> ch[s] \o SetToSeq(
     {m \in {[txn |-> t, id |-> Numbered(ys[t]).id, req |-> ShardReq(live[t], ys[t])] :
               t \in DOMAIN ys} : ShardOf[m.req.at] = s})]

\* Mutant: a move does not update the parent map.
parentAfterMoveKept(r, x, y) ==
  IF y.step # "DONE" \/ y.exitError # "NO_ERROR" THEN parent
  ELSE CASE r.kind = "MAKE_DIRECTORY" /\ x.step = "UNLOCK_EDGE" ->
              [parent EXCEPT ![x.dirId] = r.dir1]
         [] r.kind = "SOFT_UNLINK_DIRECTORY" -> [parent EXCEPT ![r.target] = NullInode]
         [] OTHER -> parent

\* What a finished transaction leaves in the parent map.
parentAfter(r, x, y) ==
  IF y.step # "DONE" \/ y.exitError # "NO_ERROR" THEN parent
  ELSE CASE r.kind = "MAKE_DIRECTORY" /\ x.step = "UNLOCK_EDGE" ->
              [parent EXCEPT ![x.dirId] = r.dir1]
         [] r.kind = "SOFT_UNLINK_DIRECTORY" -> [parent EXCEPT ![r.target] = NullInode]
         [] r.kind = "RENAME_DIRECTORY" -> [parent EXCEPT ![r.target] = r.dir2]
         [] OTHER -> parent

\* Transaction t, in state x, has been advanced to y.
advance(t, x, y) ==
  /\ failed' = (y.step = "ASSERT")
  /\ live' = IF y.step = "DONE" THEN [live EXCEPT ![t] = NoReq] ELSE live
  /\ exit' = IF y.step = "DONE" THEN [exit EXCEPT ![t] = y.exitError] ELSE exit
  /\ parent' = parentAfter(live[t], x, y)
  /\ CASE y.step = "DONE"   -> txn' = [txn EXCEPT ![t] = NoTxn] /\ UNCHANGED net
       [] y.step = "ASSERT" -> UNCHANGED <<txn, net>>
       [] OTHER -> /\ txn' = [txn EXCEPT ![t] = [Numbered(y) EXCEPT !.again = FALSE]]
                   /\ net' = Sent(net, t :> y)

StartTxn(t) ==
  /\ ~failed
  /\ t \notin Running
  /\ Serial!MayRun(t)
  /\ advance(t, startState, StartState(live[t]))
  /\ nextDir' = IF live[t].kind = "MAKE_DIRECTORY" THEN nextDir + 1 ELSE nextDir
  /\ UNCHANGED <<sh, now, resps, toLink, spent>>

\* A response to the latest request of t comes in.
Respond(p) ==
  /\ Up
  /\ LET x == txn[p.txn]
         y == After(live[p.txn], x, p) IN
     /\ advance(p.txn, x, y)
     /\ resps' = {q \in resps \ {p} : q.txn # p.txn \/ y.again}
  /\ UNCHANGED <<nextDir, sh, now, toLink, spent>>

\* The CDC gives up on the answer to t's request, which may be lost or just late.
Timeout(t, lost) ==
  /\ Up
  /\ t \in Running
  /\ Spend("timeouts", MaxTimeouts)
  /\ LET x == txn[t]
         y == SendAgain(live[t], x)
         kept == [s \in Shards |->
                    SelectSeq(net[s], LAMBDA m : ~lost \/ m.txn # t \/ m.id # x.id)] IN
     /\ lost => kept # net
     /\ txn' = [txn EXCEPT ![t] = [Numbered(y) EXCEPT !.again = FALSE]]
     /\ resps' = {q \in resps : q.txn # t \/ y.again}
     /\ net' = Sent(kept, t :> y)
  /\ UNCHANGED <<live, exit, parent, nextDir, failed, sh, now, toLink>>

\* A new leader has no request in flight: it resumes what was running.
Restart ==
  /\ Up
  /\ Spend("restarts", MaxRestarts)
  /\ Running # {}
  /\ LET ys == [t \in Running |-> resume(live[t], txn[t])] IN
     /\ txn' = [t \in Txns |-> IF t \in Running THEN Numbered(ys[t]) ELSE NoTxn]
     /\ net' = Sent(net, ys)
     /\ resps' = {}
  /\ UNCHANGED <<live, exit, parent, nextDir, failed, sh, now, toLink>>

-----------------------------------------------------------------------------
(***************************************************************************)
(* A shard applies a request and answers it.  The leader of a shard stamps *)
(* its log entries with its own clock: after a change of leader an entry   *)
(* may carry a time that is not later than the one before.                 *)
(***************************************************************************)
Stamp(time) == \/ time = now + 1 /\ UNCHANGED spent
               \/ time = now /\ Spend("ties", MaxTies)

\* The answer to m is awaited: it is the latest request of its transaction.
InFlight(m) == m.txn \in Running /\ txn[m.txn].id = m.id

Deliver(s, i) ==
  /\ Up
  /\ i \in 1..Len(net[s])
  /\ i = 1 \/ Reorder
  /\ \E time \in {now, now + 1} :
       LET m == net[s][i]
           a == applyShardReq(sh, time, m.req) IN
       /\ Stamp(time)
       /\ sh' = a.sh
       /\ now' = IF a.sh = sh THEN now ELSE time
       /\ net' = [net EXCEPT ![s] = RemoveAt(@, i)]
       /\ resps' = IF InFlight(m)
                   THEN resps \cup {[txn |-> m.txn, id |-> m.id, err |-> a.err,
                                     val |-> a.val, info |-> a.info]}
                   ELSE resps
  /\ UNCHANGED <<cdcVars, toLink>>

(* What clients and the garbage collector ask of a shard without the CDC. *)

DirectWrite(op, a) ==
  /\ Up
  /\ op \in Direct
  /\ Spend("direct", MaxDirect)
  /\ a.err = "NO_ERROR"
  /\ sh' = a.sh
  /\ now' = now + 1
  /\ UNCHANGED <<live, txn, exit, parent, nextDir, failed, net, resps>>

LinkFile(d, n, f) ==
  /\ ShardOf[d] = ShardOf[f]
  /\ f \in toLink
  /\ toLink' = toLink \ {f}
  /\ DirectWrite("LINK_FILE", applyLinkFile(sh, now + 1, d, n, f))

SameDirectoryRename(d, n, newName) ==
  /\ n # newName
  /\ sh.cur[d][n] # NoEdge
  /\ UNCHANGED toLink
  /\ DirectWrite("SAME_DIRECTORY_RENAME",
       applySameDirectoryRename(sh, now + 1, d, n, sh.cur[d][n].time, sh.cur[d][n].target,
                                newName))

SoftUnlinkFile(d, n) ==
  /\ sh.cur[d][n] # NoEdge
  /\ sh.cur[d][n].target \in Files
  /\ UNCHANGED toLink
  /\ DirectWrite("SOFT_UNLINK_FILE",
       applySoftUnlinkFile(sh, now + 1, d, n, sh.cur[d][n].time, sh.cur[d][n].target))

SameDirectoryRenameSnapshot(s, newName) ==
  /\ s.target \in Files
  /\ UNCHANGED toLink
  /\ DirectWrite("SAME_DIRECTORY_RENAME_SNAPSHOT",
       applySameDirectoryRenameSnapshot(sh, now + 1, s.dir, s.name, s.time, s.target, newName))

RemoveNonOwnedEdge(s) ==
  /\ UNCHANGED toLink
  /\ DirectWrite("REMOVE_NON_OWNED_EDGE",
       applyRemoveNonOwnedEdge(sh, now + 1, s.dir, s.name, s.time))

SameShardHardFileUnlink(s) ==
  /\ s.target \in Files
  /\ ShardOf[s.dir] = ShardOf[s.target]
  /\ UNCHANGED toLink
  /\ DirectWrite("SAME_SHARD_HARD_FILE_UNLINK",
       applySameShardHardFileUnlink(sh, now + 1, s.dir, s.name, s.time, s.target))

\* Assumed of operators: the root keeps a value for every policy.
SetDirectoryInfo(d, tags) ==
  /\ d = Root => tags = Tags
  /\ UNCHANGED toLink
  /\ DirectWrite("SET_DIRECTORY_INFO",
       applySetDirectoryInfo(sh, now + 1, d,
         [tag \in Tags |-> IF tag \in tags THEN d ELSE NullInode]))

RemoveFileInode(f) ==
  /\ sh.files[f] = "transient"
  /\ toLink' = toLink \ {f}
  /\ DirectWrite("REMOVE_INODE", applyRemoveFileInode(sh, f))

-----------------------------------------------------------------------------
ClientStep ==
  \/ \E d \in Dirs, n \in Names : \/ \E f \in Files : LinkFile(d, n, f)
                                  \/ \E m \in Names : SameDirectoryRename(d, n, m)
                                  \/ SoftUnlinkFile(d, n)
  \/ \E s \in sh.snap : \/ \E n \in Names : SameDirectoryRenameSnapshot(s, n)
                        \/ RemoveNonOwnedEdge(s)
                        \/ SameShardHardFileUnlink(s)
  \/ \E d \in Dirs, tags \in SUBSET Tags : SetDirectoryInfo(d, tags)
  \/ \E f \in Files : RemoveFileInode(f)

Next == \/ \E m \in Menu : Submit(m)
        \/ \E t \in Txns : StartTxn(t) \/ Timeout(t, TRUE) \/ Timeout(t, FALSE)
        \/ \E p \in resps : Respond(p)
        \/ \E s \in Shards : \E i \in 1..Len(net[s]) : Deliver(s, i)
        \/ Restart
        \/ ClientStep

Spec == Init /\ [][Next]_vars

(***************************************************************************)
(* A request that is not lost reaches its shard and its answer comes back; *)
(* one that is lost is sent again after a timeout.  The CDC's log is       *)
(* applied to the end, so what can start does.                             *)
(***************************************************************************)
Fairness == /\ \A t \in Txns : WF_vars(StartTxn(t))
            /\ \A t \in Txns : WF_vars(\E p \in resps : p.txn = t /\ Respond(p))
            /\ \A s \in Shards : WF_vars(Deliver(s, 1))

FairSpec == Spec /\ Fairness

-----------------------------------------------------------------------------
Errors == {"NO_ERROR", "DIRECTORY_NOT_FOUND", "OLD_DIRECTORY_NOT_FOUND",
           "NEW_DIRECTORY_NOT_FOUND", "NAME_NOT_FOUND", "EDGE_NOT_FOUND", "FILE_NOT_FOUND",
           "CANNOT_OVERRIDE_NAME", "MISMATCHING_CREATION_TIME", "MISMATCHING_TARGET",
           "MISMATCHING_OWNER", "MTIME_IS_TOO_RECENT", "MORE_RECENT_SNAPSHOT_EDGE",
           "MORE_RECENT_CURRENT_EDGE", "NAME_IS_LOCKED", "DIRECTORY_NOT_EMPTY",
           "DIRECTORY_HAS_OWNER", "TYPE_IS_DIRECTORY", "TYPE_IS_NOT_DIRECTORY",
           "SAME_DIRECTORIES", "SAME_SHARD", "LOOP_IN_DIRECTORY_RENAME"}

TypeOK ==
  /\ \A t \in Txns : live[t] # NoReq => live[t].kind \in Kinds /\ live[t].time \in Times
  /\ \A t \in Running : live[t] # NoReq /\ txn[t].exitError \in Errors
  /\ exit \in [Txns -> Errors \cup {""}]
  /\ parent \in [Dirs -> Dirs \cup {NullInode}]
  /\ nextDir \in 0..Len(NewDirs)
  /\ failed \in BOOLEAN
  /\ sh \in ShardState(Times)
  /\ now \in Times
  /\ \A p \in resps : p.txn \in Running /\ p.id = txn[p.txn].id /\ p.err \in Errors

Edges == {e \in Dirs \X Names : sh.cur[e[1]][e[2]] # NoEdge}
Target(e) == sh.cur[e[1]][e[2]].target
Locked(e) == sh.cur[e[1]][e[2]].locked

\* No assertion of a state machine ever fires: a shard only answers what the
\* transaction is prepared for (an assertion takes every replica of the CDC down, again
\* at each restart, since the log entry is applied again).
NoAssertFails == ~failed

\* The edges that a running transaction has the right to lock.
NamedEdges(r) ==
  CASE r.kind \in {"MAKE_DIRECTORY", "SOFT_UNLINK_DIRECTORY"} -> {<<r.dir1, r.name1>>}
    [] r.kind \in {"RENAME_FILE", "RENAME_DIRECTORY"} ->
         {<<r.dir1, r.name1>>, <<r.dir2, r.name2>>}
    [] OTHER -> {}

\* No lock is leaked: a locked edge is one that a transaction which still runs names,
\* so somebody is going to unlock it, however its requests were repeated.
NoLeakedLock ==
  \A e \in Edges : Locked(e) => \E t \in Running : e \in NamedEdges(live[t])

Unlocked(i) == {e \in Edges : Target(e) = i /\ ~Locked(e)}

\* A file is owned by one edge at most, current or snapshot, outside of the locked ones:
\* with two, deleting it through one makes it transient under the other.
OwnedOnce ==
  \A f \in Files :
    Cardinality(Unlocked(f)) + Cardinality({s \in sh.snap : s.target = f /\ s.owned}) <= 1

\* A file that a name leads to, or that a snapshot edge owns, is a linked file: it is never
\* transient, let alone removed (no data is lost to a delete racing a rename).  The locked
\* old name of a file on the move is about to go and does not count.
NoDataLoss ==
  \A f \in Files : sh.files[f] # "file" =>
    Unlocked(f) = {} /\ \A s \in sh.snap : s.owned => s.target # f

\* A linked file without an edge has a transaction on its way to make it transient:
\* nobody else would ever find and collect it.
NoLostFile ==
  \A f \in Files : sh.files[f] = "file" =>
    \/ \E e \in Edges : Target(e) = f
    \/ \E s \in sh.snap : s.target = f /\ s.owned
    \/ \E t \in Running : /\ live[t].kind = "CROSS_SHARD_HARD_UNLINK_FILE"
                          /\ live[t].target = f

-----------------------------------------------------------------------------
Exists(d) == sh.dirs[d] # NoDir

\* The cursor of a walk from d up the owners, after as many steps as there are directories.
Top(d) ==
  LET c[k \in 0..Cardinality(Dirs)] ==
        IF k = 0 THEN d
        ELSE IF c[k-1] = NullInode \/ c[k-1] = Root \/ ~Exists(c[k-1]) THEN c[k-1]
        ELSE sh.dirs[c[k-1]].owner
  IN  c[Cardinality(Dirs)]

\* At every moment, also in the middle of renames, the directories with an owner form a
\* tree under the root: no loop, nothing below a removed directory, and at most one name
\* that is not locked for each.
TreeUnderRoot ==
  \A d \in Dirs : /\ Exists(d) /\ sh.dirs[d].owner # NullInode => Top(d) = Root
                  /\ Cardinality(Unlocked(d)) <= 1

\* A directory that lost its owner has no current edge: nothing can be linked, made or
\* moved into it, so what was in it is only reached as a snapshot.
RemovedIsEmpty ==
  \A d \in Dirs \ {Root} : Exists(d) /\ sh.dirs[d].owner = NullInode =>
    \A n \in Names : sh.cur[d][n] = NoEdge

\* Whenever no transaction runs, three records of the tree in different databases agree: a
\* directory's owner, the edge that leads to it, and the CDC's parent map (which loopCheck
\* trusts).
TreesAgree ==
  Running = {} =>
    \A d \in Dirs \ {Root} : Exists(d) =>
      /\ {e[1] : e \in {e \in Edges : Target(e) = d}} = {sh.dirs[d].owner} \ {NullInode}
      /\ parent[d] = sh.dirs[d].owner

\* What a transaction that ends without an error has done by then.
Achieved(r, x) ==
  CASE r.kind = "MAKE_DIRECTORY" ->
         x.step = "UNLOCK_EDGE" =>
           /\ sh.dirs[x.dirId].owner = r.dir1
           /\ \E e \in Edges : e[1] = r.dir1 /\ Target(e) = x.dirId
    [] r.kind = "HARD_UNLINK_DIRECTORY" -> ~Exists(r.dir1)
    [] r.kind = "RENAME_FILE" ->
         \A e \in Edges : e = <<r.dir1, r.name1>> => sh.cur[r.dir1][r.name1].time # r.time
    [] r.kind = "SOFT_UNLINK_DIRECTORY" ->
         Exists(r.target) => /\ sh.dirs[r.target].owner = NullInode
                             /\ \A e \in Edges : Target(e) # r.target
    [] r.kind = "RENAME_DIRECTORY" -> sh.dirs[r.target].owner = r.dir2
    [] r.kind = "CROSS_SHARD_HARD_UNLINK_FILE" -> sh.files[r.target] # "file"

\* A transaction answered without an error has done all it was asked for by then, on
\* every shard, however often its steps were repeated.
AnswersAreTrue ==
  [][\A t \in Running : live'[t] = NoReq /\ exit'[t] = "NO_ERROR"
                         => Achieved(live[t], txn[t])]_vars

\* Every transaction ends, and gives back its locks: no response leaves it waiting.
EveryTxnEnds == \A t \in Txns : (live[t] # NoReq) ~> (live[t] = NoReq)

\* A directory that loses its owner, in a removal or in the rollback of a MakeDirectory,
\* has a value of its own for every policy from then on: there is no owner left for the
\* garbage collector to inherit one from.
RemovedHasPolicies ==
  [][\A d \in Dirs : /\ Exists(d) /\ sh.dirs[d].owner # NullInode
                     /\ sh'.dirs[d] # NoDir /\ sh'.dirs[d].owner = NullInode
       => \A tag \in Tags : sh'.dirs[d].info[tag] # NullInode]_vars
=============================================================================
