------------------------------ MODULE XDRSteps ------------------------------
(***************************************************************************)
(* The vocabulary in which NFSTypes, NFSOwners, NFSOps, NFSOpsFh, NFSOps41,*)
(* NFSOps42, NFSCompound and NFSCallback state the encoders and decoders of*)
(* go/nfsd/internal/nfs4/nfs.go.  A type X is a record.  Its decoder       *)
(* X.read (readX in the code) is the sequence of its checks and advances   *)
(* over the buffer, X.peek the exported ReadX of a list, where it looks    *)
(* only at the header; X.get maps each accessor of X to the place it looks *)
(* at; X.write (XWriter) is the number of bytes its Start function appends *)
(* and the effects of its methods, in the order its comment lists the      *)
(* fields, then of Finish.  A union has no writer of its own.  XDR.tla     *)
(* gives the steps their meaning.                                          *)
(***************************************************************************)
EXTENDS Integers, Sequences

-----------------------------------------------------------------------------
(* Steps of a decoder.  Every step that finds too few bytes fails.         *)

\* len(*b) < n fails; *b = (*b)[n:].
Take(n) == [op |-> "take", n |-> n]

\* The same, and the word at k of what is taken becomes the count.
TakeCount(n, k) == [op |-> "takeCount", n |-> n, k |-> k]

\* A header of n bytes with the length at k, then the opaque, padded to 4.
TakePadded(n, k) == [op |-> "takePadded", n |-> n, k |-> k]

\* count elements of n bytes each.
Elems(n) == [op |-> "elems", n |-> n]

\* offK := startLen - len(*b).
Mark == [op |-> "mark"]

\* *b = start[aligned:], aligned = (off + 3) &^ 3.
Align == [op |-> "align"]

\* readT(b), and readT(b) count times.
Sub(t) == [op |-> "sub", t |-> t]
Each(t) == [op |-> "each", t |-> t]

\* readU(b, disc): the discriminant is the word at k of the start, or the count.
SubArm(u, k) == [op |-> "arm", t |-> u, k |-> k]
SubArmHere(u) == [op |-> "armHere", t |-> u]

\* ReadX of a list: only its header is looked at, all of b is kept.
Peek(n) == [op |-> "peek", n |-> n]

\* A decoder with an external discriminant: one decoder a case, the default.
Union(cases, default) == [cases |-> cases, default |-> default]

-----------------------------------------------------------------------------
(* Places an accessor looks at: offset c from the start (k = 0) or offK.   *)

At(k, c) == [k |-> k, c |-> c]
End == [k |-> -1, c |-> 0]

Num(p, n) == [op |-> "num", p |-> p, n |-> n]
LenOf(f, p) == [op |-> "len", f |-> f, p |-> p]
Data(l, p) == [op |-> "data", l |-> l, p |-> p]
Cast(t, p, q) == [op |-> "cast", t |-> t, p |-> p, q |-> q]
Reread(t, p, q) == [op |-> "reread", t |-> t, p |-> p, q |-> q]
Struct(t, p) == [op |-> "struct", t |-> t, p |-> p]
Arm(u, p, q, d) == [op |-> "arm", t |-> u, p |-> p, q |-> q, d |-> d]
Iter(t, l, p) == [op |-> "iter", t |-> t, l |-> l, p |-> p]
Nth(t, l, p, n) == [op |-> "nth", t |-> t, l |-> l, p |-> p, n |-> n]
Array(p, n, count) == [op |-> "array", p |-> p, n |-> n * count]

\* AsT of a union: T(m.b) as it is, or ReadT(m.b).
As(t) == [op |-> "as", t |-> t]
AsRead(t) == [op |-> "asRead", t |-> t]
Nothing == [x \in {} |-> As(x)]

-----------------------------------------------------------------------------
(* Methods of a writer.                                                    *)

Writer(n, steps) == [start |-> n, steps |-> steps]

\* Into the bytes Start appended: a number, an array, a fixed structure.
Put(f, a, n) == [op |-> "put", f |-> f, a |-> a, n |-> n]
PutEach(f, a, n) == [op |-> "put", f |-> f, a |-> a, n |-> n]
PutIn(f, t, a) == [op |-> "putIn", f |-> f, t |-> t, a |-> a]

\* After them: a number, padded bytes, a length with padded bytes, a child.
App(f, n) == [op |-> "app", f |-> f, n |-> n]
Pad(f) == [op |-> "pad", f |-> f]
Opaque(f) == [op |-> "opaque", f |-> f]
Child(f, t) == [op |-> "child", f |-> f, t |-> t]

\* Elements.  Late lists put their count in front of the first element.
Items(f, item) == [op |-> "items", f |-> f, item |-> item]
Late(f, item) == [op |-> "late", f |-> f, item |-> item]
LatePad(f) == [op |-> "latePad", f |-> f]

\* A union: its discriminant is appended, or goes to offset a of the start.
Choice(f, arms) == [op |-> "choice", f |-> f, arms |-> arms]
ChoiceAt(f, a, arms) == [op |-> "choiceAt", f |-> f, a |-> a, arms |-> arms]

\* if w.phase > p { panic }; w.phase = p.
In(p, step) == [op |-> "in", phase |-> p, step |-> step]

\* Finish: the length of field f at offset a; the count of a late list.
Patch(f, a) == [op |-> "patch", f |-> f, a |-> a]
Close(f) == [op |-> "close", f |-> f]

-----------------------------------------------------------------------------
(* What an arm or an element appends.                                      *)

Void == [op |-> "void", t |-> ""]
Word(n) == [op |-> "word", t |-> "", n |-> n]
Start(t) == [op |-> "start", t |-> t]
\* n zero bytes, in which the fields of t are then set.
Fixed(t, n) == [op |-> "inline", t |-> t, n |-> n]
Inline(t, n) == [op |-> "inline", t |-> t, n |-> n]
OneOf(arms) == [op |-> "oneOf", t |-> "", arms |-> arms]

-----------------------------------------------------------------------------
(* Types of a common shape.                                                *)

\* A structure whose only field is a number of n bytes.
NumberOnly(f, n) ==
    [read |-> <<Take(n)>>,
     get |-> [x \in {f} |-> Num(At(0, 0), n)],
     write |-> Writer(n, <<Put(f, 0, n)>>)]

\* A typedef of opaque<>.
OpaqueBytes ==
    [read |-> <<TakePadded(4, 0)>>,
     get |-> [DataLen |-> LenOf("Data", At(0, 0)), Data |-> Data(At(0, 0), At(0, 4))],
     write |-> Writer(0, <<Opaque("Data")>>)]

\* The entry of a union u: its discriminant, then the arm.
EntryOf(u, arms) ==
    [read |-> <<Take(4), SubArm(u, 0)>>,
     get |-> [Disc |-> Num(At(0, 0), 4), Value |-> Arm(u, At(0, 4), End, At(0, 0))],
     write |-> Writer(0, <<Choice("Value", arms)>>)]
=============================================================================
