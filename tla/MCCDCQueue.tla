---------------------------- MODULE MCCDCQueue ----------------------------
EXTENDS CDCQueue

CONSTANTS d1, d2, d3

Req(k, a, b, bad) == [kind |-> k, dir1 |-> a, dir2 |-> b, rejected |-> bad]

\* Requests of five kinds on three directories, two of them refused by start(): one for
\* its arguments (a loop, a wrong type), one because it names one directory twice.
Requests == {Req("MAKE_DIRECTORY", d1, d1, FALSE),
             Req("RENAME_DIRECTORY", d1, d2, FALSE),
             Req("RENAME_DIRECTORY", d1, d2, TRUE),
             Req("RENAME_FILE", d2, d2, FALSE),
             Req("SOFT_UNLINK_DIRECTORY", d2, d3, FALSE)}
=============================================================================
