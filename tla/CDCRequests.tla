---------------------------- MODULE CDCRequests ----------------------------
(***************************************************************************)
(* The requests the cross-directory coordinator (CDC) takes, as far as the *)
(* scheduling of its transactions tells them apart: their kind and the two *)
(* directories they name.  "dir1" is the (old) owner, "dir2" the new owner *)
(* or the target; requests that name one directory repeat it.              *)
(***************************************************************************)
CONSTANTS Dirs,               \* directory inode ids
          MOVE_DIRECTORY_LOCK \* the dummy inode id standing for "some directory is moving"

ASSUME MoveLockAssumption == MOVE_DIRECTORY_LOCK \notin Dirs

Kinds == {"MAKE_DIRECTORY", "RENAME_FILE", "SOFT_UNLINK_DIRECTORY",
          "RENAME_DIRECTORY", "HARD_UNLINK_DIRECTORY", "CROSS_SHARD_HARD_UNLINK_FILE"}

\* `rejected' : start() answers with an error before the transaction talks to any
\* shard, because the target has the wrong type, the move would close a loop, or
\* owner and target are in one shard.
CDCReqs == [kind : Kinds, dir1 : Dirs, dir2 : Dirs, rejected : BOOLEAN]

Lockable == Dirs \cup {MOVE_DIRECTORY_LOCK}

(***************************************************************************)
(* The directories whose edges a request locks, as a set: the code's       *)
(* DirectoriesNeedingLock drops duplicates as they are added.              *)
(***************************************************************************)
directoriesNeedingLock(req) ==
  CASE req.kind \in {"RENAME_FILE", "SOFT_UNLINK_DIRECTORY"} -> {req.dir1, req.dir2}
    [] req.kind = "RENAME_DIRECTORY" -> {req.dir1, req.dir2, MOVE_DIRECTORY_LOCK}
    [] OTHER -> {req.dir1}

(***************************************************************************)
(* Whether the transaction ends in start().  Only four kinds have checks   *)
(* there; the renames also refuse twice the same directory.                *)
(***************************************************************************)
finishesAtStart(req) ==
  \/ /\ req.kind \in {"RENAME_FILE", "SOFT_UNLINK_DIRECTORY", "RENAME_DIRECTORY",
                      "CROSS_SHARD_HARD_UNLINK_FILE"}
     /\ req.rejected
  \/ req.kind \in {"RENAME_FILE", "RENAME_DIRECTORY"} /\ req.dir1 = req.dir2
=============================================================================
