-------------------------------- MODULE XDR --------------------------------
(***************************************************************************)
(* The NFS messages of go/nfsd/internal/nfs4/nfs.go on the wire.  A peer   *)
(* fills in a value of some type with the type's writer, behind bytes that *)
(* are already in the buffer (an RPC header, an earlier result); the other *)
(* side receives the message whole and followed by more, or cut, decodes   *)
(* it with readX (or the exported ReadX) and looks at it with the          *)
(* accessors.  The steps of the generated functions are in the modules     *)
(* that NFSTable extends; here is what a step does.                        *)
(*                                                                         *)
(* A number is the sequence of its bytes, an opaque a sequence of bytes, a *)
(* list a sequence, a union its arm, its discriminant and the arm's value. *)
(***************************************************************************)
EXTENDS NFSTable, FiniteSets

CONSTANTS
    Kinds,     \* the types sent
    Lengths,   \* the lengths of opaques, and (at most 2) of lists
    Leads,     \* how many bytes are in the buffer before the message
    Follow,    \* how many bytes may follow the message
    MaxCut,    \* how many bytes may be missing at its end
    Partial,   \* the types with a field only their writer or only their accessors have
    Even,      \* the types whose opaques have a length divisible by 4
    Peopled    \* the types whose lists are not empty

ASSUME KindsAssumption == Kinds \subseteq DOMAIN Writers
ASSUME BoundsAssumption ==
    /\ Lengths \cup Leads \cup Follow \subseteq Nat
    /\ MaxCut \in Nat

VARIABLES
    phase,    \* "idle" | "sent" | "arrived" | "read"
    kind,     \* the type sent
    value,    \* what the peer filled in
    buf,      \* the message: what the writer appended
    wire,     \* what arrived
    got       \* what the decoder and the accessors make of it

vars == <<phase, kind, value, buf, wire, got>>

\* The tables of the generated file.  The operators below take them as T.
Tables ==
    [Writers |-> Writers, Readers |-> Readers, Lazy |-> Lazy, Accessors |-> Accessors, Code |-> Code]

-----------------------------------------------------------------------------
(* Bytes.                                                                  *)

Zeros(n) == [i \in 1 .. n |-> 0]

\* (n + 3) &^ 3.
Padded(n) == ((n + 3) \div 4) * 4

BE32(n) == <<n \div 16777216, (n \div 65536) % 256, (n \div 256) % 256, n % 256>>

\* A count or length of 2^16 or more is longer than every message.
Number(w) == IF w[1] = 0 /\ w[2] = 0 THEN w[4] + 256 * w[3] ELSE 65536

\* buf[at : at+Len(bytes)] = bytes.
Overwrite(b, at, bytes) ==
    [i \in 1 .. Len(b) |-> IF i \in at + 1 .. at + Len(bytes) THEN bytes[i - at] ELSE b[i]]

\* b[from:to]; a slice out of range panics, which no message contains.
Panic == <<-1, -1, -1, -1>>

Slice(b, from, to) ==
    IF 0 <= from /\ from <= to /\ to <= Len(b) THEN SubSeq(b, from + 1, to) ELSE Panic

-----------------------------------------------------------------------------
(* Writers.                                                                *)

\* The discriminant of an arm; _Default is called with a value of no other arm.
DiscOf(T, arms, a) ==
    IF a \in DOMAIN T.Code THEN BE32(T.Code[a])
    ELSE IF \E x \in DOMAIN arms \ {a} : T.Code[x] = 0 THEN BE32(9999) ELSE BE32(0)

RECURSIVE Compose(_, _, _, _), RunWriter(_, _, _, _, _), Method(_, _, _, _), Appended(_, _, _, _),
          AppendAll(_, _, _, _, _)

\* What an arm or an element appends to b.
Appended(T, item, v, b) ==
    CASE item.op = "void" -> b
      [] item.op = "word" -> b \o v
      [] item.op = "start" -> Compose(T, item.t, v, b)
      [] item.op = "inline" ->
            RunWriter(T, T.Writers[item.t].steps, 1, v,
                      [b |-> b \o Zeros(item.n), off |-> Len(b), phase |-> 0, late |-> 0])
      [] item.op = "oneOf" -> Appended(T, item.arms[v.Value.arm], v.Value.val, b \o v.Value.disc)

AppendAll(T, item, vs, i, b) ==
    IF i > Len(vs) THEN b ELSE AppendAll(T, item, vs, i + 1, Appended(T, item, vs[i], b))

\* A method of a writer w on field m.f of v.  A field that a later call of
\* the same writer sets again is not part of v.
Method(T, m, v, w) ==
    LET x == IF m.op # "in" /\ m.f \in DOMAIN v THEN v[m.f] ELSE <<>>
    IN  CASE m.op = "in" ->
                IF w.phase > m.phase THEN [w EXCEPT !.b = Panic]
                ELSE Method(T, m.step, v, [w EXCEPT !.phase = m.phase])
          [] m.op = "put" -> [w EXCEPT !.b = Overwrite(w.b, w.off + m.a, x)]
          [] m.op = "putIn" ->
                [w EXCEPT !.b = RunWriter(T, T.Writers[m.t].steps, 1, x,
                                          [w EXCEPT !.off = w.off + m.a])]
          [] m.op = "app" -> [w EXCEPT !.b = w.b \o x]
          [] m.op = "pad" -> [w EXCEPT !.b = w.b \o x \o Zeros(Padded(Len(x)) - Len(x))]
          [] m.op = "latePad" ->
                [w EXCEPT !.late = Len(w.b),
                          !.b = w.b \o BE32(0) \o x \o Zeros(Padded(Len(x)) - Len(x))]
          [] m.op = "opaque" ->
                [w EXCEPT !.b = Overwrite(w.b \o Zeros(4 + Padded(Len(x))), w.off, BE32(Len(x)) \o x)]
          [] m.op = "child" -> [w EXCEPT !.b = Compose(T, m.t, x, w.b)]
          [] m.op = "items" -> [w EXCEPT !.b = AppendAll(T, m.item, x, 1, w.b)]
          [] m.op = "late" ->
                IF x = <<>> THEN w
                ELSE [w EXCEPT !.late = Len(w.b), !.b = AppendAll(T, m.item, x, 1, w.b \o BE32(0))]
          [] m.op = "choice" -> [w EXCEPT !.b = Appended(T, m.arms[x.arm], x.val, w.b \o x.disc)]
          [] m.op = "choiceAt" ->
                [w EXCEPT !.b = Appended(T, m.arms[x.arm], x.val, Overwrite(w.b, w.off + m.a, x.disc))]
          [] m.op = "patch" -> [w EXCEPT !.b = Overwrite(w.b, w.off + m.a, BE32(Len(x)))]
          [] m.op = "close" ->
                [w EXCEPT !.b = IF w.late = 0 THEN w.b \o BE32(0)
                                ELSE Overwrite(w.b, w.late, BE32(Len(x)))]

RunWriter(T, steps, i, v, w) ==
    IF i > Len(steps) THEN w.b ELSE RunWriter(T, steps, i + 1, v, Method(T, steps[i], v, w))

\* StartT(b), the methods in order, Finish: b with the message behind it.
Compose(T, t, v, b) ==
    RunWriter(T, T.Writers[t].steps, 1, v,
              [b |-> b \o Zeros(T.Writers[t].start), off |-> Len(b), phase |-> 0, late |-> 0])

-----------------------------------------------------------------------------
(* Decoders.  r is the decoder's state: where it is in b, the count it read *)
(* last and the offsets it marked; from is where it started.               *)

Failed == [ok |-> FALSE, at |-> 0, count |-> BE32(0), off |-> <<>>]

\* The case of union u for a discriminant, or "default".
CaseOf(T, u, disc) ==
    LET named == {c \in DOMAIN T.Readers[u].cases : BE32(T.Code[c]) = disc}
    IN  IF named = {} THEN "default" ELSE CHOOSE c \in named : TRUE

RECURSIVE ReadAt(_, _, _, _), RunReader(_, _, _, _, _, _), ReadEach(_, _, _, _, _)

\* readU(b, disc).
ReadArm(T, u, b, from, disc) ==
    LET c == CaseOf(T, u, disc)
        t == IF c = "default" THEN T.Readers[u].default ELSE T.Readers[u].cases[c]
    IN  CASE t = "Refused" -> Failed
          [] t = "Void" -> [Failed EXCEPT !.ok = TRUE, !.at = from]
          [] OTHER -> ReadAt(T, t, b, from)

\* Mutant: an element that does not decode ends the loop, not the decoder.
ReadEach_lenient(T, t, n, b, from) ==
    IF n = 0 \/ ~ReadAt(T, t, b, from).ok THEN [Failed EXCEPT !.ok = TRUE, !.at = from]
    ELSE ReadEach(T, t, n - 1, b, ReadAt(T, t, b, from).at)

ReadEach(T, t, n, b, from) ==
    IF n = 0 THEN [Failed EXCEPT !.ok = TRUE, !.at = from]
    ELSE LET r == ReadAt(T, t, b, from) IN IF r.ok THEN ReadEach(T, t, n - 1, b, r.at) ELSE Failed

Check(T, s, b, from, r) ==
    LET left == Len(b) - r.at
        Skip(n) == IF left < n THEN Failed ELSE [r EXCEPT !.at = r.at + n]
        Counted(n) == IF left < n THEN Failed
                      ELSE [r EXCEPT !.at = r.at + n, !.count = Slice(b, r.at + s.k, r.at + s.k + 4)]
        After(x) == IF x.ok THEN [r EXCEPT !.at = x.at] ELSE Failed
    IN  CASE s.op = "take" -> Skip(s.n)
          [] s.op = "takeCount" -> Counted(s.n)
          [] s.op = "takePadded" ->
                IF left < s.n THEN Failed ELSE Skip(s.n + Padded(Number(Counted(s.n).count)))
          [] s.op = "elems" -> Skip(Number(r.count) * s.n)
          [] s.op = "mark" -> [r EXCEPT !.off = Append(r.off, r.at - from)]
          [] s.op = "align" -> Skip(Padded(r.at - from) - (r.at - from))
          [] s.op = "sub" -> After(ReadAt(T, s.t, b, r.at))
          [] s.op = "each" -> After(ReadEach(T, s.t, Number(r.count), b, r.at))
          [] s.op = "arm" -> After(ReadArm(T, s.t, b, r.at, Slice(b, from + s.k, from + s.k + 4)))
          [] s.op = "armHere" -> After(ReadArm(T, s.t, b, r.at, r.count))
          [] s.op = "peek" -> IF left < s.n THEN Failed ELSE [r EXCEPT !.at = Len(b)]

RunReader(T, steps, i, b, from, r) ==
    IF i > Len(steps) \/ ~r.ok THEN r
    ELSE RunReader(T, steps, i + 1, b, from, Check(T, steps[i], b, from, r))

\* readT on b[from:]; ok, where it stopped, and the offsets it recorded.
ReadAt(T, t, b, from) ==
    RunReader(T, T.Readers[t], 1, b, from, [Failed EXCEPT !.ok = TRUE, !.at = from])

\* ReadT(b): the decoder, except for the lists that only check their header.
ReadAll(T, t, b) ==
    IF t \in DOMAIN T.Lazy
    THEN RunReader(T, T.Lazy[t], 1, b, 0, [Failed EXCEPT !.ok = TRUE])
    ELSE ReadAt(T, t, b, 0)

-----------------------------------------------------------------------------
(* Accessors, on a message m: its bytes and the offsets recorded in it.    *)

\* The fields a writer sets and no later call of it overwrites.
Plain(s) == IF s.op = "in" THEN s.step ELSE s

Methods(T, t) == {Plain(T.Writers[t].steps[i]) : i \in 1 .. Len(T.Writers[t].steps)}

Fields(T, t) ==
    LET taken == {m.a : m \in {x \in Methods(T, t) : x.op = "choiceAt"}}
    IN  {m.f : m \in {x \in Methods(T, t) : x.op = "put" => x.a \notin taken}}

Message(b, off) == [data |-> b, off |-> off]

Place(m, p) == (IF p.k = 0 THEN 0 ELSE m.off[p.k]) + p.c

\* m[p:q], and n bytes from p on.
Part(m, p, q) == Slice(m.data, Place(m, p), IF q = End THEN Len(m.data) ELSE Place(m, q))
Bytes(m, p, n) == Slice(m.data, Place(m, p), Place(m, p) + n)

\* A length that ran off the message is no length.
LengthAt(m, p) == LET w == Bytes(m, p, 4) IN IF w = Panic THEN 0 ELSE Number(w)

RECURSIVE View(_, _, _), Access(_, _, _), Iterate(_, _, _, _, _)

\* ReadT(b), or the zero value when it fails.
Reviewed(T, t, b) ==
    LET r == ReadAll(T, t, b) IN IF r.ok THEN View(T, t, Message(Slice(b, 0, r.at), r.off)) ELSE Panic

\* The elements an iterator yields: Next stops at the count, or when the
\* bytes do not hold another element.
Iterate(T, t, n, b, from) ==
    LET r == ReadAt(T, t, b, from)
    IN  IF n = 0 \/ ~r.ok THEN <<>>
        ELSE <<View(T, t, Message(Slice(b, from, r.at), r.off))>> \o Iterate(T, t, n - 1, b, r.at)

\* AsT(), T being the arm of the discriminant.
ViewArm(T, u, b, disc) ==
    LET c == CaseOf(T, u, disc)
        arm == IF c = "default" THEN "Default" ELSE c
    IN  [arm |-> arm, disc |-> disc,
         val |-> IF arm \notin DOMAIN T.Accessors[u] THEN <<>>
                 ELSE LET a == T.Accessors[u][arm]
                      IN  IF a.op = "as" THEN View(T, a.t, Message(b, <<>>)) ELSE Reviewed(T, a.t, b)]

Access(T, a, m) ==
    CASE a.op \in {"num", "array"} -> Bytes(m, a.p, a.n)
      [] a.op = "len" -> Bytes(m, a.p, 4)
      [] a.op = "data" -> Bytes(m, a.p, LengthAt(m, a.l))
      [] a.op = "cast" -> View(T, a.t, Message(Part(m, a.p, a.q), <<>>))
      [] a.op = "reread" -> Reviewed(T, a.t, Part(m, a.p, a.q))
      [] a.op = "struct" -> View(T, a.t, Message(Bytes(m, a.p, T.Writers[a.t].start), <<>>))
      [] a.op = "arm" -> ViewArm(T, a.t, Part(m, a.p, a.q), Bytes(m, a.d, 4))
      [] a.op = "iter" -> Iterate(T, a.t, LengthAt(m, a.l), Part(m, a.p, End), 0)
      [] a.op = "nth" ->
            IF LengthAt(m, a.l) > Len(m.data) THEN <<Panic>>
            ELSE [i \in 1 .. LengthAt(m, a.l) |->
                LET b == Slice(m.data, Place(m, a.p) + (i - 1) * a.n, Place(m, a.p) + i * a.n)
                IN  IF a.t = "" THEN b ELSE View(T, a.t, Message(b, <<>>))]

\* What the accessors of T return for the fields its writer sets.
View(T, t, m) == [f \in Fields(T, t) \cap DOMAIN T.Accessors[t] |-> Access(T, T.Accessors[t][f], m)]

\* What XLen, XCount and the accessors of a discriminant return.
Derived(T, t, m) ==
    [f \in DOMAIN T.Accessors[t] \ Fields(T, t) |-> Access(T, T.Accessors[t][f], m)]

-----------------------------------------------------------------------------
(* Values: every field filled with bytes of its own.  n is the length of   *)
(* the opaques, arm the arm of the unions that have it, deep bounds the    *)
(* entries chained behind one another, seed tells fields apart.            *)

Fill(n, seed) == [i \in 1 .. n |-> 1 + ((seed * 31 + i * 7) % 250)]

Usable(arms) == {a \in DOMAIN arms : arms[a].t \notin Partial}

\* The arm that is asked for, or one that nests nothing deeper, or any.
Picked(arms, arm, deep) ==
    LET flat == {a \in Usable(arms) : arms[a].op = "void"}
    IN  IF arm \in Usable(arms) /\ deep > 0 THEN arm
        ELSE IF flat # {} THEN CHOOSE a \in flat : TRUE
        ELSE CHOOSE a \in Usable(arms) : TRUE

RECURSIVE Sample(_, _, _, _, _, _), SampleItem(_, _, _, _, _, _)

SampleArm(T, arms, n, arm, deep, seed) ==
    LET a == Picked(arms, arm, deep)
    IN  [arm |-> a, disc |-> DiscOf(T, arms, a), val |-> SampleItem(T, arms[a], n, arm, deep - 1, seed)]

SampleItem(T, item, n, arm, deep, seed) ==
    CASE item.op = "void" -> <<>>
      [] item.op = "word" -> Fill(item.n, seed)
      [] item.op = "oneOf" -> [Value |-> SampleArm(T, item.arms, n, arm, deep, seed)]
      [] OTHER -> Sample(T, item.t, n, arm, deep, seed)

SampleField(T, t, m, n, arm, deep, seed) ==
    LET size == IF t \in Even THEN Padded(n) ELSE n
        len == IF m.item.t \in Partial THEN 0
               ELSE IF t \in Peopled /\ n = 0 THEN 1
               ELSE IF n > 2 THEN 2 ELSE n
    IN  CASE m.op \in {"put", "app"} -> Fill(m.n, seed)
          [] m.op \in {"pad", "latePad", "opaque"} -> Fill(size, seed)
          [] m.op \in {"putIn", "child"} -> Sample(T, m.t, n, arm, deep, seed)
          [] m.op \in {"items", "late"} ->
                [i \in 1 .. len |-> SampleItem(T, m.item, n, arm, deep, seed + i)]
          [] m.op \in {"choice", "choiceAt"} -> SampleArm(T, m.arms, n, arm, deep, seed)

\* The value of type t whose fields the writer's methods are given.
Sample(T, t, n, arm, deep, seed) ==
    LET steps == T.Writers[t].steps
        first == [f \in Fields(T, t) |->
                    CHOOSE i \in 1 .. Len(steps) :
                        /\ Plain(steps[i]).f = f
                        /\ \A j \in 1 .. i - 1 : Plain(steps[j]).f # f]
    IN  [f \in Fields(T, t) |->
            SampleField(T, t, Plain(steps[first[f]]), n, arm, deep, seed * 3 + first[f])]

\* The arms a value of type t can be asked for.
ArmsOf(m) ==
    CASE m.op \in {"choice", "choiceAt"} -> Usable(m.arms)
      [] m.op \in {"items", "late"} -> IF m.item.op = "oneOf" THEN Usable(m.item.arms) ELSE {}
      [] OTHER -> {}

Arms(T, t) == LET arms == UNION {ArmsOf(m) : m \in Methods(T, t)} IN IF arms = {} THEN {"none"} ELSE arms

-----------------------------------------------------------------------------
(* The exchange.                                                           *)

None == [ok |-> FALSE, used |-> 0, view |-> <<>>, derived |-> <<>>, yielded |-> <<>>]

Init ==
    /\ phase = "idle"
    /\ kind = ""
    /\ value = <<>>
    /\ buf = <<>>
    /\ wire = <<>>
    /\ got = None

\* The peer fills in a message behind what its buffer already holds.
Send(T) ==
    /\ phase = "idle"
    /\ \E t \in Kinds : \E n \in Lengths, lead \in Leads, arm \in Arms(T, t) :
          LET v == Sample(T, t, n, arm, 4, 1)
              b == Compose(T, t, v, Fill(lead, 90))
          IN  /\ value' = v
              /\ buf' = SubSeq(b, lead + 1, Len(b))
              /\ kind' = t
    /\ phase' = "sent"
    /\ UNCHANGED <<wire, got>>

\* It arrives whole, other bytes behind it.
Arrive ==
    /\ phase = "sent"
    /\ \E n \in Follow : wire' = buf \o Fill(n, 50)
    /\ phase' = "arrived"
    /\ UNCHANGED <<kind, value, buf, got>>

\* Its end is missing.
Cut ==
    /\ phase = "sent"
    /\ \E n \in 1 .. MaxCut :
          /\ n <= Len(buf)
          /\ wire' = SubSeq(buf, 1, Len(buf) - n)
    /\ phase' = "arrived"
    /\ UNCHANGED <<kind, value, buf, got>>

\* readT, and the accessors of what it returns.  A list that only has its
\* header checked is iterated over even if the decoder would refuse it.
Read(T) ==
    /\ phase = "arrived"
    /\ LET r == ReadAt(T, kind, wire, 0)
           lazy == ReadAll(T, kind, wire)
           m == Message(Slice(wire, 0, r.at), r.off)
           all == Message(wire, <<>>)
       IN  got' = [ok |-> r.ok,
                   used |-> r.at,
                   view |-> IF r.ok THEN View(T, kind, m) ELSE <<>>,
                   derived |-> IF r.ok THEN Derived(T, kind, m) ELSE <<>>,
                   yielded |-> IF kind \in DOMAIN T.Lazy /\ lazy.ok THEN View(T, kind, all) ELSE <<>>]
    /\ phase' = "read"
    /\ UNCHANGED <<kind, value, buf, wire>>

Again ==
    /\ phase = "read"
    /\ phase' = "idle"
    /\ kind' = ""
    /\ value' = <<>>
    /\ buf' = <<>>
    /\ wire' = <<>>
    /\ got' = None

Next ==
    \E T \in {Tables} :
        \/ Send(T)
        \/ Arrive
        \/ Cut
        \/ Read(T)
        \/ Again

Spec == Init /\ [][Next]_vars

-----------------------------------------------------------------------------
(* Properties.                                                             *)

\* The state is well formed: a message is bytes, and a multiple of 4 of them.
TypeOK ==
    /\ phase \in {"idle", "sent", "arrived", "read"}
    /\ kind \in Kinds \cup {""}
    /\ \A i \in 1 .. Len(buf) : buf[i] \in 0 .. 255
    /\ Len(buf) % 4 = 0

Whole == phase = "read" /\ Len(wire) >= Len(buf)

\* XLen and XCount return the length of field X, and the accessor of a
\* discriminant the one of the arm that was set, though the writer never takes
\* them as arguments (or sets them before SetX_Arm).
CountsAgree ==
    \A f \in DOMAIN got.derived :
        LET a == Accessors[kind][f]
        IN  CASE a.op = "len" -> got.derived[f] = BE32(Len(value[a.f]))
              [] a.op = "num" ->
                    \A g \in DOMAIN value :
                        Accessors[kind][g].op = "arm" /\ Accessors[kind][g].d = a.p
                            => got.derived[f] = value[g].disc
              [] OTHER -> TRUE

\* A message written by the methods of XWriter in the order of its comment is
\* accepted by readX, which stops exactly behind it whatever follows, and the
\* accessors of X (reread, cast and iterated ones included) return what the
\* methods were given: the offsets readX records, the padding of opaques, the
\* counts Finish patches and the arms of unions are the same on both sides.
ReadsBack ==
    Whole => got.ok /\ got.used = Len(buf) /\ got.view = value /\ CountsAgree

\* A message whose end is missing is refused by readX, at whatever byte it was
\* cut: no accessor is ever called on one.  The exported ReadX of a list checks
\* only the header, so a cut list is accepted; its iterator then yields a prefix
\* of the elements that were sent and stops, never an element the peer did not
\* send.
CutIsRefused ==
    phase = "read" =>
        /\ Len(wire) < Len(buf) => ~got.ok
        /\ got.yielded # <<>> =>
             \A f \in DOMAIN got.yielded :
                Accessors[kind][f].op = "iter" =>
                    /\ Len(got.yielded[f]) <= Len(value[f])
                    /\ got.yielded[f] = SubSeq(value[f], 1, Len(got.yielded[f]))
                    /\ Len(wire) >= Len(buf) => got.yielded[f] = value[f]
=============================================================================
