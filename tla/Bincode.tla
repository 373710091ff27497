------------------------------- MODULE Bincode -------------------------------
(***************************************************************************)
(* The wire format that every TernFS message uses (package go/core/bincode *)
(* and cpp/core/Bincode.hpp), as two independent implementations: the Go   *)
(* one, whose names begin with a capital, and the C++ one.                 *)
(*                                                                         *)
(* A scalar is the sequence of its bytes, most significant byte first; a   *)
(* string or a fixed array of bytes is the sequence of its bytes; a list   *)
(* is the sequence of its elements; a struct is a function from the names  *)
(* of its fields.  A message type is described by a sequence of steps, one *)
(* per call that its Pack or Unpack function makes, in the order of the    *)
(* calls: the modules MsgsGo* and MsgsCpp* hold these sequences.           *)
(***************************************************************************)
EXTENDS Integers, Sequences, SequencesExt

-----------------------------------------------------------------------------
(* The steps.  Each names the field it moves. *)

Scalar(n, f) == [op |-> "scalar", n |-> n, f |-> f]
Flag(f) == [op |-> "bool", n |-> 1, f |-> f]
ByteString(f) == [op |-> "bytes", f |-> f]
FixedBytes(n, f) == [op |-> "fixed", n |-> n, f |-> f]
Blob(n, f) == [op |-> "blob", n |-> n, f |-> f]
Nested(f, type) == [op |-> "sub", f |-> f, steps |-> type.steps]
\* Go: a length of n bytes, then each element; C++: min is what bincodeMinSize gives
List(n, f, el) == [op |-> "list", n |-> n, f |-> f, el |-> el, min |-> 1]
ListMin(n, f, el, min) == [List(n, f, el) EXCEPT !.min = min]
\* a body whose type depends on a field of the header before it
Body(tag, refused, inline, type, other) ==
  [op |-> "body", f |-> "Body", tag |-> tag, refused |-> refused, inline |-> inline,
   arm |-> type.steps, other |-> other.steps]
\* a field whose value the C++ reader checks
Checked(what, n, f) == [op |-> what, n |-> n, f |-> f]

StepList(steps) == [steps |-> steps]
Msg(k, steps) == [kind |-> k, steps |-> steps]

-----------------------------------------------------------------------------
(* Writers and readers. A write either fails or adds bytes; a read at      *)
(* position pos of buf either fails or gives a value and the next position.*)

Wrote(bytes) == [ok |-> TRUE, out |-> bytes]
Unwritten == [ok |-> FALSE, out |-> <<>>]
And(v, w) == IF v.ok /\ w.ok THEN Wrote(v.out \o w.out) ELSE Unwritten

Got(pos, val) == [ok |-> TRUE, pos |-> pos, val |-> val]
Short == [ok |-> FALSE, pos |-> 0, val |-> <<>>]
TakeBytes(buf, pos, n) == IF pos + n > Len(buf) THEN Short ELSE Got(pos + n, SubSeq(buf, pos + 1, pos + n))

\* what a read that was made gives, or fails with it
Reversed(r) == IF r.ok THEN Got(r.pos, Reverse(r.val)) ELSE Short
TakeCounted(buf, l) == IF l.ok THEN TakeBytes(buf, l.pos, l.val) ELSE Short

\* the length l as a number of n bytes (the lengths used here are below 2^24)
NumberOf(l, n) == [i \in 1..n |-> IF n - i > 2 THEN 0 ELSE (l \div 256 ^ (n - i)) % 256]
RECURSIVE Value(_)
Value(x) == IF x = <<>> THEN 0 ELSE 256 * Value(Front(x)) + Last(x)
Low(x, n) == SubSeq(x, Len(x) - n + 1, Len(x))
SetField(val, f, x) == [g \in DOMAIN val \cup {f} |-> IF g = f THEN x ELSE val[g]]
IsInline(step, val) == val["Header"][step.tag] = step.inline

-----------------------------------------------------------------------------
(* go/core/bincode. *)

PackScalar(n, x) == Wrote(Reverse(Low(x, n)))

PackLength(n, l) == IF n < 4 /\ l >= 256 ^ n THEN Unwritten ELSE PackScalar(n, NumberOf(l, n))

\* Mutant: a string of 256 bytes is not refused.
PackBytes_uncut(x) == And(PackScalar(1, NumberOf(Len(x), 1)), Wrote(x))

PackBytes(x) == And(PackLength(1, Len(x)), Wrote(x))

PackFixedBytes(n, x) == IF Len(x) # n THEN Unwritten ELSE Wrote(x)

PackBlob(n, x) == And(PackLength(n, Len(x)), Wrote([i \in DOMAIN x |-> x[i][1]]))

UnpackScalar(n, buf, pos) == Reversed(TakeBytes(buf, pos, n))

Truth(r) == IF r.ok THEN Got(r.pos, <<IF r.val[1] = 0 THEN 0 ELSE 1>>) ELSE Short
UnpackBool(buf, pos) == Truth(TakeBytes(buf, pos, 1))

Counted(r) == IF r.ok THEN Got(r.pos, Value(r.val)) ELSE Short
UnpackLength(n, buf, pos) == Counted(UnpackScalar(n, buf, pos))

UnpackBytes(buf, pos) == TakeCounted(buf, UnpackLength(1, buf, pos))

Apart(r) == IF r.ok THEN Got(r.pos, [i \in DOMAIN r.val |-> <<r.val[i]>>]) ELSE Short
UnpackBlob(n, buf, pos) == Apart(TakeCounted(buf, UnpackLength(n, buf, pos)))

RECURSIVE PackSteps(_, _)
RECURSIVE PackList(_, _)

PackStep(step, x) ==
  CASE step.op = "scalar" -> PackScalar(step.n, x)
    [] step.op = "bool" -> PackScalar(1, x)
    [] step.op = "bytes" -> PackBytes(x)
    [] step.op = "fixed" -> PackFixedBytes(step.n, x)
    [] step.op = "blob" -> PackBlob(step.n, x)
    [] step.op = "sub" -> PackSteps(step.steps, x)
    [] step.op = "list" -> And(PackLength(step.n, Len(x)), PackList(step.el, x))

\* FetchedSpan.Pack and FetchedFullSpan.Pack: the body goes with the header
PackBody(step, v) ==
  IF v["Header"][step.tag] \in step.refused THEN Unwritten
  ELSE PackSteps(IF IsInline(step, v) THEN step.arm ELSE step.other, v["Body"])

PackList(el, xs) ==
  IF xs = <<>> THEN Wrote(<<>>) ELSE And(PackStep(el, Head(xs)), PackList(el, Tail(xs)))

PackSteps(steps, v) ==
  IF steps = <<>> THEN Wrote(<<>>)
  ELSE And(IF Head(steps).op = "body" THEN PackBody(Head(steps), v)
           ELSE PackStep(Head(steps), v[Head(steps).f]),
           PackSteps(Tail(steps), v))

RECURSIVE UnpackSteps(_, _, _, _)
RECURSIVE UnpackList(_, _, _, _, _)

UnpackCounted(el, buf, l) == IF l.ok THEN UnpackList(el, buf, l.pos, l.val, <<>>) ELSE Short

UnpackStep(step, buf, pos) ==
  CASE step.op = "scalar" -> UnpackScalar(step.n, buf, pos)
    [] step.op = "bool" -> UnpackBool(buf, pos)
    [] step.op = "bytes" -> UnpackBytes(buf, pos)
    [] step.op = "fixed" -> TakeBytes(buf, pos, step.n)
    [] step.op = "blob" -> UnpackBlob(step.n, buf, pos)
    [] step.op = "sub" -> UnpackSteps(step.steps, buf, pos, <<>>)
    [] step.op = "list" -> UnpackCounted(step.el, buf, UnpackLength(step.n, buf, pos))

UnpackBody(step, buf, pos, v) ==
  IF v["Header"][step.tag] \in step.refused THEN Short
  ELSE UnpackSteps(IF IsInline(step, v) THEN step.arm ELSE step.other, buf, pos, <<>>)

NextElement(el, buf, r, n, xs) ==
  IF r.ok THEN UnpackList(el, buf, r.pos, n - 1, Append(xs, r.val)) ELSE Short
UnpackList(el, buf, pos, n, xs) ==
  IF n = 0 THEN Got(pos, xs) ELSE NextElement(el, buf, UnpackStep(el, buf, pos), n, xs)

NextField(steps, buf, r, v) ==
  IF r.ok THEN UnpackSteps(Tail(steps), buf, r.pos, SetField(v, Head(steps).f, r.val)) ELSE Short
UnpackSteps(steps, buf, pos, v) ==
  IF steps = <<>> THEN Got(pos, v)
  ELSE NextField(steps, buf,
                 IF Head(steps).op = "body" THEN UnpackBody(Head(steps), buf, pos, v)
                 ELSE UnpackStep(Head(steps), buf, pos), v)

-----------------------------------------------------------------------------
(* cpp/core/Bincode.hpp and the unpack functions of cpp/core/Msgs.hpp.     *)
(* The buffer of a writer is as large as packedSize says.                  *)

packScalar(n, x) == Wrote(Reverse(Low(x, n)))

packBytes(x) == And(packScalar(1, NumberOf(Len(x), 1)), Wrote(x))

\* InodeId::valid: zero, or a type and an id that is not the last one
validInode(x) ==
  LET top == x[1] % 128
  IN \/ \A i \in DOMAIN x : x[i] = 0
     \/ top \div 32 # 0 /\ ~ (top % 32 = 31 /\ \A i \in 2..7 : x[i] = 255)

valid(what, x) ==
  CASE what = "InodeId" -> validInode(x)
    [] what = "InodeIdExtra" -> validInode([x EXCEPT ![1] = @ % 128])
    [] what = "ShardReplicaId" -> x[1] < 5

unpackScalar(n, buf, pos) == Reversed(TakeBytes(buf, pos, n))

validated(what, r) == IF r.ok /\ valid(what, r.val) THEN r ELSE Short
unpackChecked(what, n, buf, pos) == validated(what, unpackScalar(n, buf, pos))

counted(r) == IF r.ok THEN Got(r.pos, Value(r.val)) ELSE Short
unpackBytes(buf, pos) == TakeCounted(buf, counted(unpackScalar(1, buf, pos)))

RECURSIVE packSteps(_, _)
RECURSIVE packElements(_, _)

packList(step, xs) ==
  IF step.n < 4 /\ Len(xs) >= 256 ^ step.n THEN Unwritten
  ELSE And(packScalar(step.n, NumberOf(Len(xs), step.n)), packElements(step.el, xs))

packStep(step, x) ==
  CASE step.op \in {"scalar", "bool", "InodeId", "InodeIdExtra", "ShardReplicaId"} -> packScalar(step.n, x)
    [] step.op = "bytes" -> packBytes(x)
    [] step.op = "fixed" -> Wrote(x)
    [] step.op = "sub" -> packSteps(step.steps, x)
    [] step.op = "list" -> packList(step, x)

packElements(el, xs) ==
  IF xs = <<>> THEN Wrote(<<>>) ELSE And(packStep(el, Head(xs)), packElements(el, Tail(xs)))

\* FetchedSpan::pack asserts that the storage class is not EMPTY
packBody(step, v) ==
  IF v["Header"][step.tag] \in step.refused THEN Unwritten
  ELSE packSteps(IF IsInline(step, v) THEN step.arm ELSE step.other, v["Body"])

packSteps(steps, v) ==
  IF steps = <<>> THEN Wrote(<<>>)
  ELSE And(IF Head(steps).op = "body" THEN packBody(Head(steps), v)
           ELSE packStep(Head(steps), v[Head(steps).f]),
           packSteps(Tail(steps), v))

RECURSIVE unpackSteps(_, _, _, _)
RECURSIVE unpackElements(_, _, _, _, _)

\* the count is refused before any element is read when so many cannot fit
unpackCounted(step, buf, l) ==
  IF ~ l.ok \/ l.val > (Len(buf) - l.pos) \div step.min THEN Short
  ELSE unpackElements(step.el, buf, l.pos, l.val, <<>>)
unpackList(step, buf, pos) == unpackCounted(step, buf, counted(unpackScalar(step.n, buf, pos)))

unpackStep(step, buf, pos) ==
  CASE step.op \in {"scalar", "bool"} -> unpackScalar(step.n, buf, pos)
    [] step.op \in {"InodeId", "InodeIdExtra", "ShardReplicaId"} -> unpackChecked(step.op, step.n, buf, pos)
    [] step.op = "bytes" -> unpackBytes(buf, pos)
    [] step.op = "fixed" -> TakeBytes(buf, pos, step.n)
    [] step.op = "sub" -> unpackSteps(step.steps, buf, pos, <<>>)
    [] step.op = "list" -> unpackList(step, buf, pos)

unpackBody(step, buf, pos, v) ==
  IF v["Header"][step.tag] \in step.refused THEN Short
  ELSE unpackSteps(IF IsInline(step, v) THEN step.arm ELSE step.other, buf, pos, <<>>)

nextElement(el, buf, r, n, xs) ==
  IF r.ok THEN unpackElements(el, buf, r.pos, n - 1, Append(xs, r.val)) ELSE Short
unpackElements(el, buf, pos, n, xs) ==
  IF n = 0 THEN Got(pos, xs) ELSE nextElement(el, buf, unpackStep(el, buf, pos), n, xs)

nextField(steps, buf, r, v) ==
  IF r.ok THEN unpackSteps(Tail(steps), buf, r.pos, SetField(v, Head(steps).f, r.val)) ELSE Short
unpackSteps(steps, buf, pos, v) ==
  IF steps = <<>> THEN Got(pos, v)
  ELSE nextField(steps, buf,
                 IF Head(steps).op = "body" THEN unpackBody(Head(steps), buf, pos, v)
                 ELSE unpackStep(Head(steps), buf, pos), v)
=============================================================================
