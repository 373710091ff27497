------------------------------ MODULE ShardDirs ------------------------------
(***************************************************************************)
(* The part of a shard's database (ShardDB.cpp) that holds directories,    *)
(* files and the edges between them, and the log entries that change it.   *)
(* An edge is current, or a snapshot of what a name once pointed to; an    *)
(* owned snapshot edge is what keeps a deleted file alive.  All shards are *)
(* one record here: an inode lives in exactly one of them, no log entry    *)
(* reads another one's, and ShardOf tells them apart where it matters.     *)
(*                                                                         *)
(* Every operator is one log entry: it takes the database `sh' and the     *)
(* time of the entry and returns the error, the database after it (the     *)
(* batch is rolled back on an error) and what the response carries: a       *)
(* creation time, a target or owner, or the policies of a directory.       *)
(***************************************************************************)
EXTENDS Naturals, FiniteSets

CONSTANTS Dirs,       \* directory inodes
          Root,       \* ROOT_DIR_INODE_ID
          Files,      \* file inodes
          Names,
          Tags,       \* REQUIRED_DIR_INFO_TAGS: the policies a directory may set
          NullInode,  \* NULL_INODE_ID: no owner; the target of a deletion edge
          NoEdge,     \* no current edge of that name
          NoDir       \* no such key in _directoriesCf

ASSUME InodeAssumption == /\ Root \in Dirs
                          /\ Dirs \cap Files = {}
                          /\ NullInode \notin Dirs \cup Files

\* For each policy, the directory it was set on; NullInode where it is inherited.
DirectoryInfo == [Tags -> Dirs \cup {NullInode}]

inheritInfo == [p \in Tags |-> NullInode]

\* What the log entries of directories read and write.
ShardState(Times) ==
  [dirs  : [Dirs -> [owner : Dirs \cup {NullInode}, mtime : Times,
                     info : DirectoryInfo] \cup {NoDir}],
   cur   : [Dirs -> [Names -> [target : Dirs \cup Files, time : Times, locked : BOOLEAN]
                              \cup {NoEdge}]],
   snap  : SUBSET [dir : Dirs, name : Names, time : Times,
                   target : Dirs \cup Files \cup {NullInode}, owned : BOOLEAN],
   files : [Files -> {"none", "transient", "file"}]]

Fail(sh, err) == [err |-> err, sh |-> sh, val |-> 0, info |-> inheritInfo]
Done(sh, val) == [err |-> "NO_ERROR", sh |-> sh, val |-> val, info |-> inheritInfo]

-----------------------------------------------------------------------------
getDirectory(sh, d, allowSnapshot) ==
  IF d \notin Dirs THEN "TYPE_IS_NOT_DIRECTORY"
  ELSE IF \/ sh.dirs[d] = NoDir
          \/ ~allowSnapshot /\ sh.dirs[d].owner = NullInode /\ d # Root
       THEN "DIRECTORY_NOT_FOUND"
       ELSE "NO_ERROR"

\* A directory is never modified at a time it was already modified at.
initiateDirectoryModification(sh, time, d, allowSnapshot) ==
  LET err == getDirectory(sh, d, allowSnapshot) IN
  IF err # "NO_ERROR" THEN err
  ELSE IF sh.dirs[d].mtime >= time THEN "MTIME_IS_TOO_RECENT" ELSE "NO_ERROR"

SetMtime(sh, d, time) == [sh EXCEPT !.dirs[d].mtime = time]

Snapshot(d, n, time, target, owned) ==
  [dir |-> d, name |-> n, time |-> time, target |-> target, owned |-> owned]

\* Writing a snapshot edge replaces the one with the same key.
PutSnapshot(sh, s) ==
  [sh EXCEPT !.snap = {o \in @ : <<o.dir, o.name, o.time>> # <<s.dir, s.name, s.time>>}
                      \cup {s}]

-----------------------------------------------------------------------------
createCurrentEdgeError(sh, time, d, n, target, locked, oldTime) ==
  LET err == initiateDirectoryModification(sh, time, d, FALSE)
      e   == sh.cur[d][n] IN
  IF err # "NO_ERROR" THEN err
  ELSE IF e = NoEdge
  THEN IF \E s \in sh.snap : s.dir = d /\ s.name = n /\ s.time >= time
       THEN "MORE_RECENT_SNAPSHOT_EDGE" ELSE "NO_ERROR"
  ELSE IF e.locked
  THEN IF ~locked THEN "NAME_IS_LOCKED"
       ELSE IF e.target # target THEN "MISMATCHING_TARGET"
       ELSE IF e.time # oldTime THEN "MISMATCHING_CREATION_TIME" ELSE "NO_ERROR"
  ELSE IF e.time >= time THEN "MORE_RECENT_CURRENT_EDGE"
       ELSE IF target \in Dirs \/ e.target \in Dirs THEN "CANNOT_OVERRIDE_NAME"
       ELSE "NO_ERROR"

(***************************************************************************)
(* A locked edge that is created again keeps its creation time.  A file    *)
(* that is overridden stays, owned by a snapshot edge.                     *)
(***************************************************************************)
newCreationTime(sh, time, d, n) ==
  IF sh.cur[d][n] # NoEdge /\ sh.cur[d][n].locked THEN sh.cur[d][n].time ELSE time

InsertCurrentEdge(sh, time, d, n, target, locked) ==
  LET e    == sh.cur[d][n]
      kept == IF e # NoEdge /\ ~e.locked
              THEN PutSnapshot(sh, Snapshot(d, n, e.time, e.target, TRUE)) ELSE sh
  IN  [SetMtime(kept, d, time) EXCEPT
         !.cur[d][n] = [target |-> target, time |-> newCreationTime(sh, time, d, n),
                        locked |-> locked]]

\* The current edge becomes a snapshot edge, and a deletion edge marks the time.
MakeSnapshot(sh, time, d, n, target, owned) ==
  LET e == sh.cur[d][n] IN
  [PutSnapshot(PutSnapshot(sh, Snapshot(d, n, e.time, target, owned)),
               Snapshot(d, n, time, NullInode, FALSE)) EXCEPT !.cur[d][n] = NoEdge]

softUnlinkCurrentEdge(sh, time, d, n, creationTime, target, owned) ==
  LET err == initiateDirectoryModification(sh, time, d, FALSE)
      e   == sh.cur[d][n] IN
  IF err # "NO_ERROR" THEN Fail(sh, err)
  ELSE IF e = NoEdge THEN Fail(sh, "EDGE_NOT_FOUND")
  ELSE IF e.target # target THEN Fail(sh, "MISMATCHING_TARGET")
  ELSE IF e.time # creationTime THEN Fail(sh, "MISMATCHING_CREATION_TIME")
  ELSE IF e.locked THEN Fail(sh, "EDGE_IS_LOCKED")
  ELSE Done(MakeSnapshot(SetMtime(sh, d, time), time, d, n, target, owned), time)

-----------------------------------------------------------------------------
(* The log entries clients and the garbage collector ask for. *)

\* A transient file gets its first edge.  Asking again finds the file linked.
applyLinkFile(sh, time, d, n, f) ==
  IF sh.files[f] # "transient"
  THEN IF /\ getDirectory(sh, d, FALSE) = "NO_ERROR"
          /\ sh.cur[d][n] # NoEdge
          /\ sh.cur[d][n].target = f
       THEN Done(sh, sh.cur[d][n].time) ELSE Fail(sh, "FILE_NOT_FOUND")
  ELSE LET err == createCurrentEdgeError(sh, time, d, n, f, FALSE, 0) IN
       IF err # "NO_ERROR" THEN Fail(sh, err)
       ELSE Done([InsertCurrentEdge(sh, time, d, n, f, FALSE) EXCEPT !.files[f] = "file"], time)

\* Mutant: the old name goes on owning the file.
applySameDirectoryRenameOwned(sh, time, d, n, creationTime, target, newName) ==
  LET unlinked == softUnlinkCurrentEdge(sh, time, d, n, creationTime, target, TRUE)
      err      == createCurrentEdgeError(sh, time, d, newName, target, FALSE, 0) IN
  IF unlinked.err # "NO_ERROR" THEN unlinked
  ELSE IF err # "NO_ERROR" THEN Fail(sh, err)
  ELSE Done(InsertCurrentEdge(unlinked.sh, time, d, newName, target, FALSE), time)

\* Both halves check the database as it was before the entry.
applySameDirectoryRename(sh, time, d, n, creationTime, target, newName) ==
  LET unlinked == softUnlinkCurrentEdge(sh, time, d, n, creationTime, target, FALSE)
      err      == createCurrentEdgeError(sh, time, d, newName, target, FALSE, 0) IN
  IF unlinked.err # "NO_ERROR" THEN unlinked
  ELSE IF err # "NO_ERROR" THEN Fail(sh, err)
  ELSE Done(InsertCurrentEdge(unlinked.sh, time, d, newName, target, FALSE), time)

\* A deleted file is brought back: its owned snapshot edge gives up the file.
applySameDirectoryRenameSnapshot(sh, time, d, n, creationTime, target, newName) ==
  LET err  == initiateDirectoryModification(sh, time, d, FALSE)
      old  == {s \in sh.snap : s.dir = d /\ s.name = n /\ s.time = creationTime}
      err2 == createCurrentEdgeError(sh, time, d, newName, target, FALSE, 0) IN
  IF err # "NO_ERROR" THEN Fail(sh, err)
  ELSE IF old = {} THEN Fail(sh, "EDGE_NOT_FOUND")
  ELSE IF \E s \in old : s.target # target THEN Fail(sh, "MISMATCHING_TARGET")
  ELSE IF \E s \in old : ~s.owned THEN Fail(sh, "EDGE_NOT_OWNED")
  ELSE IF err2 # "NO_ERROR" THEN Fail(sh, err2)
  ELSE Done(InsertCurrentEdge(PutSnapshot(sh, Snapshot(d, n, creationTime, target, FALSE)),
                              time, d, newName, target, FALSE), time)

\* Mutant: the snapshot of a deleted file does not own it.
applySoftUnlinkFileNotOwned(sh, time, d, n, creationTime, f) ==
  softUnlinkCurrentEdge(sh, time, d, n, creationTime, f, FALSE)

applySoftUnlinkFile(sh, time, d, n, creationTime, f) ==
  softUnlinkCurrentEdge(sh, time, d, n, creationTime, f, TRUE)

applyRemoveNonOwnedEdge(sh, time, d, n, creationTime) ==
  LET err  == initiateDirectoryModification(sh, time, d, TRUE)
      gone == {s \in sh.snap : s.dir = d /\ s.name = n /\ s.time = creationTime} IN
  IF err # "NO_ERROR" THEN Fail(sh, err)
  ELSE IF \E s \in gone : s.owned THEN Fail(sh, "EDGE_NOT_FOUND")
  ELSE Done([SetMtime(sh, d, time) EXCEPT !.snap = @ \ gone], 0)

\* Mutant: any snapshot edge will do.
applyHardFileUnlinkNotOwned(sh, time, d, n, creationTime, f) ==
  LET gone == {s \in sh.snap : s.dir = d /\ s.name = n /\ s.time = creationTime} IN
  IF sh.files[f] # "file" \/ gone = {} THEN Fail(sh, "EDGE_NOT_FOUND")
  ELSE Done([sh EXCEPT !.snap = @ \ gone, !.files[f] = "transient"], 0)

\* The error of _initiateDirectoryModification is not looked at: after one the directory
\* is a null pointer, and the shard crashes when it reads the hash mode.
applySameShardHardFileUnlink(sh, time, d, n, creationTime, f) ==
  LET err  == initiateDirectoryModification(sh, time, d, TRUE)
      gone == {s \in sh.snap : s.dir = d /\ s.name = n /\ s.time = creationTime} IN
  IF sh.files[f] = "none" THEN Fail(sh, "FILE_NOT_FOUND")
  ELSE IF sh.files[f] = "transient" THEN Done(sh, 0)
  ELSE IF err # "NO_ERROR" THEN Fail(sh, "CRASH")
  ELSE IF gone = {} \/ \E s \in gone : ~s.owned THEN Fail(sh, "EDGE_NOT_FOUND")
  ELSE Done([SetMtime(sh, d, time) EXCEPT !.snap = @ \ gone, !.files[f] = "transient"], 0)

applySetDirectoryInfo(sh, time, d, info) ==
  LET err == initiateDirectoryModification(sh, time, d, TRUE) IN
  IF err # "NO_ERROR" THEN Fail(sh, err)
  ELSE Done([SetMtime(sh, d, time) EXCEPT !.dirs[d].info = info], 0)

\* Spans and the deadline are not modelled: a transient file may be removed.
applyRemoveFileInode(sh, f) ==
  IF sh.files[f] = "file" THEN Fail(sh, "FILE_IS_NOT_TRANSIENT")
  ELSE Done([sh EXCEPT !.files[f] = "none"], 0)

-----------------------------------------------------------------------------
(* The log entries the CDC asks for. *)

\* The reads: the target of a name, and the time of the last edge of a name.
lookup(sh, d, n) ==
  LET err == getDirectory(sh, d, FALSE) IN
  IF err # "NO_ERROR" THEN Fail(sh, err)
  ELSE IF sh.cur[d][n] = NoEdge THEN Fail(sh, "NAME_NOT_FOUND")
  ELSE Done(sh, sh.cur[d][n].target)

fullReadDirLast(sh, d, n) ==
  LET err   == getDirectory(sh, d, TRUE)
      times == {s.time : s \in {s \in sh.snap : s.dir = d /\ s.name = n}} IN
  IF err # "NO_ERROR" THEN Fail(sh, err)
  ELSE IF sh.cur[d][n] # NoEdge THEN Done(sh, sh.cur[d][n].time)
  ELSE IF times = {} THEN Done(sh, 0)
  ELSE Done(sh, CHOOSE t \in times : \A u \in times : u <= t)

statDirectory(sh, d) ==
  LET err == getDirectory(sh, d, TRUE) IN
  IF err # "NO_ERROR" THEN Fail(sh, err)
  ELSE [Done(sh, sh.dirs[d].owner) EXCEPT !.info = sh.dirs[d].info]

applyCreateDirectoryInode(sh, time, d, owner) ==
  IF getDirectory(sh, d, FALSE) = "NO_ERROR"
  THEN IF sh.dirs[d].owner # owner THEN Fail(sh, "MISMATCHING_OWNER") ELSE Done(sh, 0)
  ELSE Done([sh EXCEPT !.dirs[d] = [owner |-> owner, mtime |-> time,
                                       info |-> inheritInfo]], time)

applyCreateLockedCurrentEdge(sh, time, d, n, target, oldTime) ==
  LET err == createCurrentEdgeError(sh, time, d, n, target, TRUE, oldTime) IN
  IF err # "NO_ERROR" THEN Fail(sh, err)
  ELSE Done(InsertCurrentEdge(sh, time, d, n, target, TRUE), newCreationTime(sh, time, d, n))

\* Of the edge, only the creation time is checked.
edgeError(sh, time, d, n, creationTime) ==
  LET err == initiateDirectoryModification(sh, time, d, FALSE) IN
  IF err # "NO_ERROR" THEN err
  ELSE IF sh.cur[d][n] = NoEdge THEN "EDGE_NOT_FOUND"
  ELSE IF sh.cur[d][n].time # creationTime THEN "MISMATCHING_CREATION_TIME"
  ELSE "NO_ERROR"

applyLockCurrentEdge(sh, time, d, n, creationTime, target) ==
  LET err == edgeError(sh, time, d, n, creationTime)
      e   == sh.cur[d][n] IN
  IF err # "NO_ERROR" THEN Fail(sh, err)
  ELSE Done([SetMtime(sh, d, time) EXCEPT
               !.cur[d][n] = IF e.locked THEN e
                             ELSE [e EXCEPT !.target = target, !.locked = TRUE]], 0)

applyUnlockCurrentEdge(sh, time, d, n, creationTime, target, wasMoved) ==
  LET err == edgeError(sh, time, d, n, creationTime)
      e   == sh.cur[d][n]
      touched == SetMtime(sh, d, time) IN
  IF err # "NO_ERROR" THEN Fail(sh, err)
  ELSE IF wasMoved THEN Done(MakeSnapshot(touched, time, d, n, target, FALSE), 0)
  ELSE Done([touched EXCEPT
               !.cur[d][n] = IF e.locked THEN [e EXCEPT !.target = target, !.locked = FALSE]
                             ELSE e], 0)

\* Mutant: a directory with current edges may lose its owner.
applyRemoveDirectoryOwnerFull(sh, time, d, info) ==
  LET err == initiateDirectoryModification(sh, time, d, TRUE) IN
  IF err # "NO_ERROR" THEN Fail(sh, err)
  ELSE Done([sh EXCEPT !.dirs[d] = [owner |-> NullInode, mtime |-> time, info |-> info]], 0)

applyRemoveDirectoryOwner(sh, time, d, info) ==
  LET err == initiateDirectoryModification(sh, time, d, TRUE) IN
  IF err # "NO_ERROR" THEN Fail(sh, err)
  ELSE IF sh.dirs[d].owner = NullInode THEN Done(SetMtime(sh, d, time), 0)
  ELSE IF \E n \in Names : sh.cur[d][n] # NoEdge THEN Fail(sh, "DIRECTORY_NOT_EMPTY")
  ELSE Done([sh EXCEPT !.dirs[d] = [owner |-> NullInode, mtime |-> time, info |-> info]], 0)

\* Mutant: a directory that has an owner keeps it.
applySetDirectoryOwnerOnce(sh, time, d, owner) ==
  LET err == initiateDirectoryModification(sh, time, d, TRUE) IN
  IF err # "NO_ERROR" THEN Fail(sh, err)
  ELSE IF sh.dirs[d].owner # NullInode THEN Done(SetMtime(sh, d, time), 0)
  ELSE Done([SetMtime(sh, d, time) EXCEPT !.dirs[d].owner = owner], 0)

applySetDirectoryOwner(sh, time, d, owner) ==
  LET err == initiateDirectoryModification(sh, time, d, TRUE) IN
  IF err # "NO_ERROR" THEN Fail(sh, err)
  ELSE Done([SetMtime(sh, d, time) EXCEPT !.dirs[d].owner = owner], 0)

applyRemoveDirectoryInode(sh, time, d) ==
  LET err == initiateDirectoryModification(sh, time, d, TRUE) IN
  IF err = "DIRECTORY_NOT_FOUND" THEN Done(sh, 0)
  ELSE IF err # "NO_ERROR" THEN Fail(sh, err)
  ELSE IF sh.dirs[d].owner # NullInode THEN Fail(sh, "DIRECTORY_HAS_OWNER")
  ELSE IF \/ \E n \in Names : sh.cur[d][n] # NoEdge
          \/ \E s \in sh.snap : s.dir = d
  THEN Fail(sh, "DIRECTORY_NOT_EMPTY")
  ELSE Done([sh EXCEPT !.dirs[d] = NoDir], 0)

\* Neither that the edge exists nor that it owns the file is checked.
applyRemoveOwnedSnapshotFileEdge(sh, time, d, n, creationTime) ==
  LET err == initiateDirectoryModification(sh, time, d, TRUE) IN
  IF err # "NO_ERROR" THEN Fail(sh, err)
  ELSE Done([SetMtime(sh, d, time) EXCEPT
               !.snap = {s \in @ : ~(s.dir = d /\ s.name = n /\ s.time = creationTime)}], 0)

applyMakeFileTransient(sh, f) ==
  IF sh.files[f] = "none" THEN Fail(sh, "FILE_NOT_FOUND")
  ELSE Done([sh EXCEPT !.files[f] = "transient"], 0)
=============================================================================
