------------------------------ MODULE MCCDCTxns ------------------------------
EXTENDS CDCTxns

CONSTANTS root, dA, dB, dC, f1, f2, n1, n2, s1, s2, p1, p2

E(d, n, i) == [dir |-> d, name |-> n, target |-> i]
Req(k, d, n, e, m, i) ==
  [kind |-> k, dir1 |-> d, name1 |-> n, dir2 |-> e, name2 |-> m, target |-> i]

MakeDir(d, n)           == Req("MAKE_DIRECTORY", d, n, d, n, d)
MoveFile(d, n, e, m, i) == Req("RENAME_FILE", d, n, e, m, i)
MoveDir(d, n, e, m, i)  == Req("RENAME_DIRECTORY", d, n, e, m, i)
RemoveDir(d, n, i)      == Req("SOFT_UNLINK_DIRECTORY", d, n, i, n, i)
DestroyDir(i)           == Req("HARD_UNLINK_DIRECTORY", i, n1, i, n1, i)
DestroyFile(d, n, i)    == Req("CROSS_SHARD_HARD_UNLINK_FILE", d, n, d, n, i)

\* The root and dA in one shard with the file f1, dB and the directory to be made in the other.
TwoShards == [i \in {root, dA, f1} |-> s1] @@ [i \in {dB, dC, f2} |-> s2]

\* /n1 = dA, /n2 = dB, /n1/n1 = f1
Siblings == {E(root, n1, dA), E(root, n2, dB), E(dA, n1, f1)}
\* /n1 = dA, /n1/n2 = dB, /n1/n1 = f1
Nested == {E(root, n1, dA), E(dA, n2, dB), E(dA, n1, f1)}
\* The siblings without the file.
EmptyDirs == {E(root, n1, dA), E(root, n2, dB)}

\* Both files in the shard of the root, f2 in a directory of the other: /n2/n1 = f2.
FilesInOne == [i \in {root, dA, f1, f2} |-> s1] @@ [i \in {dB, dC} |-> s2]
TwoFiles   == Siblings \cup {E(dB, n1, f2)}

OneNew == <<dC>>

NoInfo == {}
\* dA has a policy p1 of its own and inherits p2.
OwnPolicy == {<<dA, p1>>}

\* Directories are made, moved both ways, removed and collected.
DirMenu == {MakeDir(root, n2), MakeDir(dA, n2), MoveDir(root, n2, dA, n2, dB),
            MoveDir(dA, n2, root, n2, dB), MoveDir(root, n1, dB, n1, dA), RemoveDir(root, n2, dB),
            RemoveDir(dA, n2, dB), DestroyDir(dB)}
\* A MakeDirectory that rolls back when its name is taken meanwhile, a move, a removal.
ClientMenu == {MakeDir(dA, n2), MoveDir(root, n2, dA, n2, dB), RemoveDir(root, n1, dA),
               RemoveDir(root, n2, dB)}
\* Transactions that meet on a name, and a file that is overridden and collected.
LiveMenu == {MakeDir(dA, n2), MoveDir(root, n2, dA, n2, dB), RemoveDir(root, n1, dA),
             MoveFile(dA, n1, dB, n1, f1), DestroyFile(dB, n1, f2)}
\* A file is moved to a directory of another shard and back.
FileMoves == {MoveFile(dA, n1, dB, n1, f1), MoveFile(dB, n1, dA, n1, f1)}
\* A file is moved to a directory of another shard, deleted there and collected.
FileMenu == {MoveFile(dA, n1, dB, n1, f1), DestroyFile(dB, n1, f1)}
\* A file is moved onto a directory.
OntoMenu == {MoveFile(dA, n1, root, n2, f1)}
=============================================================================
