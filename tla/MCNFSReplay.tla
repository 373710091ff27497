---------------------------- MODULE MCNFSReplay ----------------------------
(* Instances of NFSReplay for TLC. *)
EXTENDS NFSReplay

CONSTANTS nameA, nameB

Rm(n)    == [k |-> "REMOVE", from |-> n, to |-> n]
Mv(n, m) == [k |-> "RENAME", from |-> n, to |-> m]
Mk(n)    == [k |-> "CREATE", from |-> n, to |-> n]
Wr       == [k |-> "WRITE", from |-> nameA, to |-> nameA]
Sync     == [k |-> "COMMIT", from |-> nameA, to |-> nameA]

(* An operation with an intent alone, after one without effect, before one  *)
(* that makes the session file go, and after one that has an effect itself. *)
MCCompounds ==
    { [ops |-> <<Rm(nameA)>>, cache |-> TRUE],
      [ops |-> <<Sync, Mv(nameA, nameB)>>, cache |-> FALSE],
      [ops |-> <<Mk(nameB), Rm(nameA)>>, cache |-> TRUE],
      [ops |-> <<Wr, Mv(nameA, nameB)>>, cache |-> TRUE] }
MCStart == [n \in {nameA, nameB} |-> IF n = nameA THEN 1 ELSE 0]
=============================================================================
