------------------------------ MODULE FilesProofs ------------------------------
(***************************************************************************)
(* What is proved of the file operations and of cp, cat and the sharing    *)
(* tasks, for files and buffers of any length, any number of offsets and   *)
(* any number of tasks.                                                    *)
(***************************************************************************)
EXTENDS Files, SequenceTheorems, TLAPS

-----------------------------------------------------------------------------
(* The inductive invariant.                                                *)

Completed == ret[Main] # NULL /\ ~Failed
Source == origin["src"]
Old == IF origin[destPath] = NULL THEN <<>> ELSE origin[destPath]

(* The request that a program makes where it is.                           *)
Expects(where, r) ==
  \/ r = NULL
  \/ where = "open" /\ r = Open("src", options)
  \/ where = "dest" /\ r = Open(destPath, [New EXCEPT !.create = TRUE, !.write = TRUE])
  \/ where = "read" /\ r = Read(1, BufLen)
  \/ where = "write" /\ r = Write(2, r.bytes)
  \/ where = "close" /\ r = Close(1)
  \/ where = "closeDest" /\ r = Close(2)

(* A task has a request or a result; no offset of read_at or write_at is   *)
(* the position.                                                           *)
RequestInv ==
  /\ \A t \in Task : req[t] = NULL \/ ret[t] = NULL
  /\ \A t \in Task : (Is(t, "read") \/ Is(t, "write")) /\ req[t].at => req[t].off # Position
  /\ \A t \in Task : req[t] # NULL =>
       IF pc \in {"share", "panicked"} THEN program = "share" /\ (Is(t, "read") \/ Is(t, "write"))
                                       ELSE t = Main
  /\ pc \notin {"share", "panicked"} => Expects(pc, req[Main])

(* Where the programs are, and what a result says.                         *)
ProgramInv ==
  /\ program # "share" => options = New
  /\ program = "cat" => destPath = "dest"
  /\ pc = "share" => program = "share"
  /\ pc = "read" => program \in {"cp", "cat"}
  /\ pc \in {"dest", "write", "closeDest"} => program = "cp"
  /\ pc = "read" /\ Completed => ret[Main] \in [bytes : Content] /\ Len(Bytes) <= BufLen
  /\ Failed => "error" \in faults

(* What is open: the first descriptor until it is closed, and in cp, and   *)
(* only there, the second one.                                             *)
FirstOpen == pc \in {"dest", "read", "write", "share"} \/ (pc = "open" /\ Completed)
SecondOpen ==
  program = "cp" /\ \/ pc \in {"read", "write", "close"}
                    \/ pc = "dest" /\ Completed
                    \/ pc = "closeDest" /\ ~Completed
OpenedInv ==
  /\ \A fd \in Fd : opened[fd] # NULL => content[opened[fd].path] # NULL
  /\ FirstOpen => opened[1] # NULL /\ opened[1].path = "src" /\ opened[1].flags = Flags(options)
  /\ pc = "open" /\ ~FirstOpen => opened[1] = NULL
  /\ SecondOpen => opened[2] # NULL /\ opened[2].path = destPath
                     /\ opened[2].flags = {"CREAT", "WRONLY"}
  /\ pc \in {"open", "dest", "closeDest"} /\ ~SecondOpen => opened[2] = NULL
  /\ program = "cp" /\ (pc \in {"closeDest", "done"} \/ (pc = "close" /\ Completed))
       => opened[1] = NULL
  /\ program = "cp" /\ pc = "done" => opened[2] = NULL
  /\ program # "cp" => opened[2] = NULL

(* cp between two operations: the destination is what it was, overwritten  *)
(* by the source as far as its position; what was read and not yet written *)
(* is in the result or in the request.                                     *)
ReadPos == opened[1].pos
WritePos == opened[2].pos
ReadAll == "short read" \notin faults => ReadPos = Len(Source)

CopyProgress ==
  /\ WritePos <= ReadPos /\ ReadPos <= Len(Source)
  /\ content[destPath] = Overwritten(Old, 0, SubSeq(Source, 1, WritePos))
  /\ pc = "read" /\ ~Completed => ReadPos = WritePos
  /\ pc = "read" /\ Completed => /\ Bytes = SubSeq(Source, WritePos + 1, ReadPos)
                                 /\ Len(Bytes) < BufLen => ReadAll
  /\ pc = "write" /\ req[Main] # NULL => req[Main].bytes = SubSeq(Source, WritePos + 1, ReadPos)
  /\ pc = "write" /\ Completed => ReadPos = WritePos
  /\ pc = "write" /\ LastChunk => ReadAll

CopyInv ==
  program = "cp" =>
    /\ SourceIntact
    /\ pc \in {"open", "panicked"} \/ Source # NULL
    /\ pc = "open" => content = origin /\ (Completed => Source # NULL /\ ReadPos = 0)
    /\ pc = "dest" => /\ content = IF Completed THEN [origin EXCEPT ![destPath] = Old] ELSE origin
                      /\ ReadPos = 0
                      /\ Completed => WritePos = 0
    /\ pc \in {"read", "write"} /\ "short write" \notin faults => CopyProgress
    /\ pc \in {"close", "closeDest", "done"} /\ faults \cap {"short read", "short write"} = {} =>
         content[destPath] = Overwritten(Old, 0, Source)

(* cat between two reads: what is printed is where the last read began,    *)
(* after a number of full buffers if no read was short.                    *)
FullBuffers == \E k \in 0..Len(out) : Len(out) = k * BufLen

CatProgress ==
  /\ Len(out) <= ReadPos /\ ReadPos <= Len(Source)
  /\ ~Completed => ReadPos = Len(out)
  /\ Completed => /\ Bytes = SubSeq(Source, Len(out) + 1, ReadPos)
                  /\ Len(Bytes) < BufLen => ReadAll
  /\ "short read" \notin faults => FullBuffers

CatInv ==
  program = "cat" =>
    /\ content = origin /\ ValidUtf8(out)
    /\ out # <<>> => Source # NULL
    /\ Source # NULL => Len(out) <= Len(Source) /\ out = SubSeq(Source, 1, Len(out))
    /\ pc = "open" => out = <<>>
    /\ pc = "open" /\ Completed => ReadPos = 0 /\ Source # NULL
    /\ pc = "read" => Source # NULL /\ CatProgress
    /\ pc \in {"close", "done"} => Source # NULL /\ ("short read" \notin faults => out = Source)
    /\ pc = "panicked" /\ faults = {} /\ ValidUtf8(Source)
         => \E i \in DOMAIN Source : i % BufLen = 0 /\ Source[i] = "hi"

IInv == TypeOK /\ RequestInv /\ ProgramInv /\ OpenedInv /\ CopyInv /\ CatInv

-----------------------------------------------------------------------------
(* Constants and offsets.                                                  *)

LEMMA Constants ==
  /\ Main \in Task
  /\ Position \in Nat /\ BufLen \in Nat \ {0}
  /\ NULL \notin Content /\ NULL \notin Description /\ NULL \notin Request /\ NULL \notin Result
BY FilesTaskAssumption, HalfAssumption, BufLenAssumption, FilesNULLAssumption DEF Main, Position

(* An offset that does not panic is one that the kernel takes for what it  *)
(* is.                                                                     *)
LEMMA OffsetsStay ==
  ASSUME NEW o \in 0..Position, ~OffsetPanics(o)
  PROVE  AsI64(o) \in 0..Position /\ AsI64(o) # Position
BY HalfAssumption DEF Position, AsI64, OffsetPanics

-----------------------------------------------------------------------------
(* Files as sequences.                                                     *)

(* A part of a file.                                                       *)
LEMMA Parts ==
  ASSUME NEW s \in Content, NEW p \in Nat, NEW q \in Nat, p <= q, q <= Len(s)
  PROVE  /\ SubSeq(s, p + 1, q) \in Content
         /\ Len(SubSeq(s, p + 1, q)) = q - p
         /\ \A i \in 1..(q - p) : SubSeq(s, p + 1, q)[i] = s[p + i]
         /\ SubSeq(s, p + 1, q) \in Seq(Byte \cup {"0"})
<1>1. s \in Seq(Byte \cup {"0"}) /\ Len(s) \in Nat
  BY DEF Content
<1>2. \A i \in (p + 1)..q : s[i] \in Byte \cup {"0"}
  BY <1>1, ElementOfSeq
<1>3. /\ SubSeq(s, p + 1, q) \in Seq(Byte \cup {"0"})
      /\ Len(SubSeq(s, p + 1, q)) = IF p + 1 <= q THEN q - (p + 1) + 1 ELSE 0
      /\ \A i \in 1..(q - (p + 1) + 1) : SubSeq(s, p + 1, q)[i] = s[p + 1 + i - 1]
  BY <1>2, SubSeqProperties
<1>4. QED
  BY <1>3 DEF Content

LEMMA Beginnings ==
  ASSUME NEW s \in Content, NEW q \in Nat, q <= Len(s)
  PROVE  /\ SubSeq(s, 1, q) \in Content
         /\ Len(SubSeq(s, 1, q)) = q
         /\ \A i \in 1..q : SubSeq(s, 1, q)[i] = s[i]
BY Parts, 0 \in Nat, 0 + 1 = 1

LEMMA Same ==
  ASSUME NEW s \in Content, NEW u \in Content, Len(s) = Len(u),
         \A i \in 1..Len(s) : s[i] = u[i]
  PROVE  s = u
BY SeqEqual DEF Content

LEMMA Whole ==
  ASSUME NEW s \in Content
  PROVE  SubSeq(s, 1, Len(s)) = s /\ SubSeq(s, 1, 0) = <<>> /\ <<>> \in Content /\ Len(<<>>) = 0
BY SubSeqFull, SubSeqEmpty, EmptySeq DEF Content

LEMMA Empty == <<>> \in Content /\ Len(<<>>) = 0
BY EmptySeq DEF Content

LEMMA Sources ==
  ASSUME TypeOK
  PROVE  /\ Source # NULL => Source \in Content /\ Len(Source) \in Nat /\ DOMAIN Source = 1..Len(Source)
         /\ Old \in Content /\ destPath \in Path /\ "src" \in Path
         /\ out \in Content /\ Len(out) \in Nat
<1>1. \A s \in Content : Len(s) \in Nat /\ DOMAIN s = 1..Len(s)
  BY DEF Content
<1>2. QED
  BY <1>1, Empty DEF TypeOK, Source, Old, Path

LEMMA OverwrittenIs ==
  ASSUME NEW f \in Content, NEW s \in Nat, NEW b \in Content
  PROVE  /\ Overwritten(f, s, b) \in Content
         /\ Len(Overwritten(f, s, b)) = IF s + Len(b) > Len(f) THEN s + Len(b) ELSE Len(f)
         /\ \A i \in 1..Len(Overwritten(f, s, b)) :
              Overwritten(f, s, b)[i] = IF i > s /\ i <= s + Len(b) THEN b[i - s]
                                        ELSE IF i <= Len(f) THEN f[i] ELSE "0"
<1> DEFINE m == IF s + Len(b) > Len(f) THEN s + Len(b) ELSE Len(f)
           o == Overwritten(f, s, b)
<1>1. f \in Seq(Byte \cup {"0"}) /\ b \in Seq(Byte \cup {"0"}) /\ Len(f) \in Nat /\ Len(b) \in Nat /\ m \in Nat
  BY DEF Content
<1>2. \A i \in 1..m :
        (CASE i > s /\ i <= s + Len(b) -> b[i - s]
           [] i <= Len(f) /\ (i <= s \/ i > s + Len(b)) -> f[i]
           [] OTHER -> "0")
        = IF i > s /\ i <= s + Len(b) THEN b[i - s] ELSE IF i <= Len(f) THEN f[i] ELSE "0"
  BY <1>1
<1>3. o = [i \in 1..m |-> IF i > s /\ i <= s + Len(b) THEN b[i - s]
                          ELSE IF i <= Len(f) THEN f[i] ELSE "0"]
  BY <1>2 DEF Overwritten
<1>4. \A i \in 1..m : o[i] \in Byte \cup {"0"}
  BY <1>1, <1>3, ElementOfSeq
<1>5. o \in [1..m -> Byte \cup {"0"}]
  BY <1>3, <1>4
<1>6. o \in Seq(Byte \cup {"0"}) /\ Len(o) = m
  BY <1>1, <1>3, <1>5
<1>7. QED
  BY <1>3, <1>6 DEF Content

LEMMA OverwriteNothing ==
  ASSUME NEW f \in Content
  PROVE  Overwritten(f, 0, <<>>) = f
<1>1. <<>> \in Content /\ Len(<<>>) = 0 /\ Len(f) \in Nat
  BY Whole DEF Content
<1>2. QED
  BY <1>1, OverwrittenIs, Same

(* The next part of s behind the one before it.                            *)
LEMMA OverwriteNext ==
  ASSUME NEW f \in Content, NEW s \in Content,
         NEW p \in Nat, NEW q \in Nat, p <= q, q <= Len(s)
  PROVE  Overwritten(Overwritten(f, 0, SubSeq(s, 1, p)), p, SubSeq(s, p + 1, q))
           = Overwritten(f, 0, SubSeq(s, 1, q))
<1> DEFINE a == SubSeq(s, 1, p)
           b == SubSeq(s, p + 1, q)
           c == SubSeq(s, 1, q)
           g == Overwritten(f, 0, a)
           x == Overwritten(g, p, b)
           y == Overwritten(f, 0, c)
<1>1. Len(s) \in Nat /\ Len(f) \in Nat /\ p <= Len(s)
  BY DEF Content
<1>2. a \in Content /\ Len(a) = p /\ \A i \in 1..p : a[i] = s[i]
  BY <1>1, Beginnings
<1>3. b \in Content /\ Len(b) = q - p /\ \A i \in 1..(q - p) : b[i] = s[p + i]
  BY Parts
<1>4. c \in Content /\ Len(c) = q /\ \A i \in 1..q : c[i] = s[i]
  BY Beginnings
<1> HIDE DEF a, b, c
<1>5. /\ g \in Content /\ Len(g) = IF p > Len(f) THEN p ELSE Len(f)
      /\ \A i \in 1..Len(g) : g[i] = IF i > 0 /\ i <= p THEN a[i] ELSE IF i <= Len(f) THEN f[i] ELSE "0"
  BY <1>1, <1>2, OverwrittenIs
<1>6. /\ y \in Content /\ Len(y) = IF q > Len(f) THEN q ELSE Len(f)
      /\ \A i \in 1..Len(y) : y[i] = IF i > 0 /\ i <= q THEN c[i] ELSE IF i <= Len(f) THEN f[i] ELSE "0"
  BY <1>1, <1>4, OverwrittenIs
<1> HIDE DEF g, y
<1>7. /\ x \in Content /\ Len(x) = IF q > Len(g) THEN q ELSE Len(g)
      /\ \A i \in 1..Len(x) : x[i] = IF i > p /\ i <= q THEN b[i - p] ELSE IF i <= Len(g) THEN g[i] ELSE "0"
  BY <1>1, <1>3, <1>5, OverwrittenIs
<1> HIDE DEF x
<1>8. Len(x) = Len(y)
  BY <1>1, <1>5, <1>6, <1>7
<1>9. ASSUME NEW i \in 1..Len(x) PROVE x[i] = y[i]
  <2>1. CASE i <= p
    BY <1>1, <1>2, <1>4, <1>5, <1>6, <1>7, <1>8, <2>1
  <2>2. CASE i > p /\ i <= q
    <3>1. i - p \in 1..(q - p) /\ p + (i - p) = i /\ i \in 1..q
      BY <2>2
    <3>2. b[i - p] = s[i]
      BY <1>3, <3>1
    <3>3. QED
      BY <1>4, <1>6, <1>7, <1>8, <2>2, <3>1, <3>2
  <2>3. CASE i > q
    BY <1>1, <1>5, <1>6, <1>7, <1>8, <2>3
  <2>4. QED
    BY <1>1, <1>6, <1>8, <2>1, <2>2, <2>3
<1>10. x = y
  BY <1>6, <1>7, <1>8, <1>9, Same
<1>11. QED
  BY <1>10 DEF x, y, g, a, b, c

(* A file onto itself.                                                     *)
LEMMA OverwriteSelf ==
  ASSUME NEW s \in Content, NEW p \in Nat, p <= Len(s)
  PROVE  Overwritten(s, 0, SubSeq(s, 1, p)) = s
<1>1. PICK b : b = SubSeq(s, 1, p)
  OBVIOUS
<1>2. b \in Content /\ Len(b) = p /\ Len(s) \in Nat /\ \A i \in 1..p : b[i] = s[i]
  BY <1>1, Beginnings DEF Content
<1>3. PICK o : o = Overwritten(s, 0, b)
  OBVIOUS
<1>4. /\ o \in Content /\ Len(o) = IF 0 + Len(b) > Len(s) THEN 0 + Len(b) ELSE Len(s)
      /\ \A i \in 1..Len(o) : o[i] = IF i > 0 /\ i <= 0 + Len(b) THEN b[i - 0]
                                     ELSE IF i <= Len(s) THEN s[i] ELSE "0"
  BY <1>2, <1>3, OverwrittenIs
<1>5. Len(o) = Len(s)
  BY <1>2, <1>4
<1>6. \A i \in 1..Len(o) : o[i] = s[i]
  BY <1>2, <1>4, <1>5
<1>7. QED
  BY <1>1, <1>3, <1>4, <1>5, <1>6, Same

(* What was written from the start is a prefix.                            *)
LEMMA OverwritePrefix ==
  ASSUME NEW f \in Content, NEW b \in Content
  PROVE  IsPrefix(b, Overwritten(f, 0, b))
<1> DEFINE o == Overwritten(f, 0, b)
<1>1. /\ o \in Content /\ Len(b) \in Nat /\ Len(f) \in Nat /\ Len(o) \in Nat /\ Len(b) <= Len(o)
      /\ \A i \in 1..Len(b) : o[i] = b[i]
  BY OverwrittenIs DEF Content
<1> HIDE DEF o
<1>2. SubSeq(o, 1, Len(b)) \in Content /\ Len(SubSeq(o, 1, Len(b))) = Len(b)
      /\ \A i \in 1..Len(b) : SubSeq(o, 1, Len(b))[i] = o[i]
  BY <1>1, Beginnings
<1>3. SubSeq(o, 1, Len(b)) = b
  BY <1>1, <1>2, Same
<1>4. SubSeq(b, 1, Len(b)) = b
  BY Whole
<1>5. QED
  BY <1>1, <1>3, <1>4 DEF IsPrefix, o

(* A write at the end of a file.                                           *)
LEMMA AppendPrefix ==
  ASSUME NEW f \in Content, NEW b \in Content
  PROVE  IsPrefix(f, Overwritten(f, Len(f), b)) /\ IsPrefix(f, f)
<1> DEFINE o == Overwritten(f, Len(f), b)
<1>1. /\ o \in Content /\ Len(b) \in Nat /\ Len(f) \in Nat /\ Len(o) \in Nat /\ Len(f) <= Len(o)
      /\ \A i \in 1..Len(f) : o[i] = f[i]
  BY OverwrittenIs DEF Content
<1> HIDE DEF o
<1>2. SubSeq(o, 1, Len(f)) \in Content /\ Len(SubSeq(o, 1, Len(f))) = Len(f)
      /\ \A i \in 1..Len(f) : SubSeq(o, 1, Len(f))[i] = o[i]
  BY <1>1, Beginnings
<1>3. SubSeq(o, 1, Len(f)) = f
  BY <1>1, <1>2, Same
<1>4. SubSeq(f, 1, Len(f)) = f
  BY Whole
<1>5. QED
  BY <1>1, <1>3, <1>4 DEF IsPrefix, o

(* Two parts, one behind the other.                                        *)
LEMMA JoinParts ==
  ASSUME NEW s \in Content, NEW p \in Nat, NEW q \in Nat, p <= q, q <= Len(s)
  PROVE  SubSeq(s, 1, p) \o SubSeq(s, p + 1, q) = SubSeq(s, 1, q)
<1>1. s \in Seq(Byte \cup {"0"}) /\ Len(s) \in Nat
  BY DEF Content
<1>2. 1 \in 1..(Len(s) + 1) /\ p \in (1 - 1)..Len(s) /\ q \in p..Len(s)
  BY <1>1
<1>3. QED
  BY <1>1, <1>2, ConcatAdjacentSubSeq

-----------------------------------------------------------------------------
(* Characters.                                                             *)

LEMMA Utf8Join ==
  ASSUME NEW a \in Content, NEW b \in Content, ValidUtf8(a), ValidUtf8(b)
  PROVE  a \o b \in Content /\ Len(a \o b) = Len(a) + Len(b) /\ ValidUtf8(a \o b)
<1> DEFINE c == a \o b
<1>1. /\ a \in Seq(Byte \cup {"0"}) /\ b \in Seq(Byte \cup {"0"})
      /\ Len(a) \in Nat /\ Len(b) \in Nat /\ DOMAIN a = 1..Len(a) /\ DOMAIN b = 1..Len(b)
  BY DEF Content
<1>2. /\ c \in Seq(Byte \cup {"0"}) /\ Len(c) = Len(a) + Len(b)
      /\ \A i \in 1..(Len(a) + Len(b)) : c[i] = IF i <= Len(a) THEN a[i] ELSE b[i - Len(a)]
  BY <1>1, ConcatProperties
<1> HIDE DEF c
<1>3. DOMAIN c = 1..Len(c)
  BY <1>2
<1>4. ASSUME NEW i \in DOMAIN c, c[i] = "hi" PROVE i < Len(c) /\ c[i + 1] = "lo"
  <2>1. CASE i <= Len(a)
    <3>1. i \in DOMAIN a /\ a[i] = "hi"
      BY <1>1, <1>2, <1>3, <1>4, <2>1
    <3>2. i < Len(a) /\ a[i + 1] = "lo"
      BY <3>1 DEF ValidUtf8
    <3>3. QED
      BY <1>1, <1>2, <1>3, <3>2
  <2>2. CASE i > Len(a)
    <3>1. i - Len(a) \in DOMAIN b /\ b[i - Len(a)] = "hi"
      BY <1>1, <1>2, <1>3, <1>4, <2>2
    <3>2. i - Len(a) < Len(b) /\ b[(i - Len(a)) + 1] = "lo"
      BY <3>1 DEF ValidUtf8
    <3>3. i + 1 \in 1..(Len(a) + Len(b)) /\ (i - Len(a)) + 1 = (i + 1) - Len(a) /\ i < Len(c)
      BY <1>1, <1>2, <1>3, <2>2, <3>2
    <3>4. QED
      BY <1>1, <1>2, <1>3, <2>2, <3>2, <3>3
  <2>3. QED
    BY <1>1, <1>3, <2>1, <2>2
<1>5. ASSUME NEW i \in DOMAIN c, c[i] = "lo" PROVE i > 1 /\ c[i - 1] = "hi"
  <2>1. CASE i <= Len(a)
    <3>1. i \in DOMAIN a /\ a[i] = "lo"
      BY <1>1, <1>2, <1>3, <1>5, <2>1
    <3>2. i > 1 /\ a[i - 1] = "hi"
      BY <3>1 DEF ValidUtf8
    <3>3. QED
      BY <1>1, <1>2, <1>3, <2>1, <3>2
  <2>2. CASE i > Len(a)
    <3>1. i - Len(a) \in DOMAIN b /\ b[i - Len(a)] = "lo"
      BY <1>1, <1>2, <1>3, <1>5, <2>2
    <3>2. i - Len(a) > 1 /\ b[(i - Len(a)) - 1] = "hi"
      BY <3>1 DEF ValidUtf8
    <3>3. i - 1 \in 1..(Len(a) + Len(b)) /\ (i - Len(a)) - 1 = (i - 1) - Len(a) /\ i - 1 > Len(a) /\ i > 1
      BY <1>1, <1>2, <1>3, <2>2, <3>2
    <3>4. QED
      BY <1>1, <1>2, <1>3, <2>2, <3>2, <3>3
  <2>3. QED
    BY <1>1, <1>3, <2>1, <2>2
<1>6. ValidUtf8(c)
  BY <1>4, <1>5 DEF ValidUtf8
<1>7. QED
  BY <1>2, <1>6 DEF c, Content

(* A part of a valid text is not valid only if it begins or ends inside of *)
(* a character.                                                            *)
LEMMA CutCharacter ==
  ASSUME NEW s \in Content, NEW p \in Nat, NEW q \in Nat, p <= q, q <= Len(s),
         ValidUtf8(s), ~ValidUtf8(SubSeq(s, p + 1, q))
  PROVE  \/ p \in DOMAIN s /\ s[p] = "hi"
         \/ q < Len(s) /\ q \in DOMAIN s /\ s[q] = "hi"
<1> DEFINE b == SubSeq(s, p + 1, q)
<1>1. /\ b \in Seq(Byte \cup {"0"}) /\ Len(b) = q - p /\ \A i \in 1..(q - p) : b[i] = s[p + i]
      /\ Len(s) \in Nat /\ DOMAIN s = 1..Len(s)
  BY Parts DEF Content
<1>2. ~ValidUtf8(b)
  OBVIOUS
<1> HIDE DEF b
<1>3. DOMAIN b = 1..(q - p)
  BY <1>1
<1>4. CASE \E i \in DOMAIN b : b[i] = "hi" /\ ~(i < Len(b) /\ b[i + 1] = "lo")
  <2>1. PICK i \in 1..(q - p) : b[i] = "hi" /\ ~(i < Len(b) /\ b[i + 1] = "lo")
    BY <1>3, <1>4
  <2>2. p + i \in DOMAIN s /\ s[p + i] = "hi"
    BY <1>1, <2>1
  <2>3. p + i < Len(s) /\ s[(p + i) + 1] = "lo"
    BY <2>2 DEF ValidUtf8
  <2>4. i = q - p
    <3>1. SUFFICES ASSUME i < q - p PROVE FALSE
      OBVIOUS
    <3>2. i + 1 \in 1..(q - p) /\ p + (i + 1) = (p + i) + 1
      BY <3>1
    <3>3. b[i + 1] = "lo"
      BY <1>1, <2>3, <3>2
    <3>4. QED
      BY <1>1, <2>1, <3>1, <3>3
  <2>5. p + i = q
    BY <2>4
  <2>6. QED
    BY <2>2, <2>3, <2>5
<1>5. CASE \E i \in DOMAIN b : b[i] = "lo" /\ ~(i > 1 /\ b[i - 1] = "hi")
  <2>1. PICK i \in 1..(q - p) : b[i] = "lo" /\ ~(i > 1 /\ b[i - 1] = "hi")
    BY <1>3, <1>5
  <2>2. p + i \in DOMAIN s /\ s[p + i] = "lo"
    BY <1>1, <2>1
  <2>3. p + i > 1 /\ s[(p + i) - 1] = "hi"
    BY <2>2 DEF ValidUtf8
  <2>4. i = 1
    <3>1. SUFFICES ASSUME i > 1 PROVE FALSE
      OBVIOUS
    <3>2. i - 1 \in 1..(q - p) /\ p + (i - 1) = (p + i) - 1
      BY <3>1
    <3>3. b[i - 1] = "hi"
      BY <1>1, <2>3, <3>2
    <3>4. QED
      BY <2>1, <3>1, <3>3
  <2>5. (p + i) - 1 = p /\ p \in 1..Len(s)
    BY <1>1, <2>3, <2>4
  <2>6. QED
    BY <1>1, <2>3, <2>5
<1>6. QED
  BY <1>2, <1>4, <1>5 DEF ValidUtf8

(* Positions after full buffers.                                           *)
LEMMA Multiples ==
  ASSUME NEW k \in Nat
  PROVE  (k * BufLen) % BufLen = 0 /\ k * BufLen + BufLen = (k + 1) * BufLen /\ k <= k * BufLen
BY BufLenAssumption

-----------------------------------------------------------------------------
(* Requests and results.                                                   *)

LEMMA SameNames ==
  ASSUME UNCHANGED <<program, destPath, options, origin, opened>>
  PROVE  Source' = Source /\ Old' = Old /\ ReadPos' = ReadPos /\ WritePos' = WritePos
BY DEF Source, Old, ReadPos, WritePos

LEMMA Requests ==
  ASSUME TypeOK, NEW t \in Task
  PROVE  /\ req[t] # NULL => Is(t, "open") \/ Is(t, "close") \/ Is(t, "read") \/ Is(t, "write")
         /\ Is(t, "open") => req[t].path \in Path /\ req[t].flags \in SUBSET Flag
         /\ Is(t, "close") => req[t].fd \in Fd
         /\ Is(t, "read") => /\ req[t].fd \in Fd /\ req[t].off \in 0..Position
                             /\ req[t].at \in BOOLEAN /\ req[t].len = BufLen
         /\ Is(t, "write") => /\ req[t].fd \in Fd /\ req[t].off \in 0..Position
                              /\ req[t].at \in BOOLEAN /\ req[t].bytes \in Content
<1>1. req[t] \in Request \cup {NULL}
  BY DEF TypeOK
<1>2. QED
  BY <1>1 DEF Request, Is

LEMMA MadeRequests ==
  /\ \A o \in OpenOptions : Flags(o) \in SUBSET Flag
  /\ Flags(New) = {} /\ New \in OpenOptions
  /\ Flags([New EXCEPT !.create = TRUE, !.write = TRUE]) = {"CREAT", "WRONLY"}
  /\ \A p \in Path, o \in OpenOptions : Open(p, o) \in Request
  /\ \A p \in Path : Open(p, [New EXCEPT !.create = TRUE, !.write = TRUE]) \in Request
  /\ \A fd \in Fd : Close(fd) \in Request /\ Read(fd, BufLen) \in Request
  /\ \A fd \in Fd, b \in Content : Write(fd, b) \in Request
  /\ \A fd \in Fd, o \in 0..Position : ~OffsetPanics(o) => ReadAt(fd, BufLen, o) \in Request
  /\ \A fd \in Fd, b \in Content, o \in 0..Position : ~OffsetPanics(o) => WriteAt(fd, b, o) \in Request
<1>1. \A o \in OpenOptions : Flags(o) \in SUBSET Flag
  BY DEF OpenOptions, Flags, Flag
<1>2. Flags(New) = {} /\ New \in OpenOptions
  BY DEF New, Flags, OpenOptions
<1>3. Flags([New EXCEPT !.create = TRUE, !.write = TRUE]) = {"CREAT", "WRONLY"}
  BY DEF New, Flags
<1>4. \A p \in Path, f \in SUBSET Flag : [op |-> "open", path |-> p, flags |-> f] \in Request
  BY DEF Request
<1>5. \A p \in Path, o \in OpenOptions : Open(p, o) \in Request
  BY <1>1, <1>4 DEF Open
<1>6. \A p \in Path : Open(p, [New EXCEPT !.create = TRUE, !.write = TRUE]) \in Request
  BY <1>3, <1>4 DEF Open, Flag
<1>7. \A fd \in Fd : Close(fd) \in Request /\ Read(fd, BufLen) \in Request
  BY Constants DEF Request, Close, Read
<1>8. \A fd \in Fd, b \in Content : Write(fd, b) \in Request
  BY Constants DEF Request, Write
<1>9. \A fd \in Fd, o \in 0..Position : ~OffsetPanics(o) => ReadAt(fd, BufLen, o) \in Request
  BY OffsetsStay DEF Request, ReadAt
<1>10. \A fd \in Fd, b \in Content, o \in 0..Position : ~OffsetPanics(o) => WriteAt(fd, b, o) \in Request
  BY OffsetsStay DEF Request, WriteAt
<1>11. QED
  BY <1>1, <1>2, <1>3, <1>5, <1>6, <1>7, <1>8, <1>9, <1>10

LEMMA Issued ==
  ASSUME TypeOK, NEW t \in Task, NEW r, Issues(t, r)
  PROVE  /\ req'[t] = r /\ ret'[t] = NULL
         /\ \A u \in Task : u # t => req'[u] = req[u] /\ ret'[u] = ret[u]
         /\ UNCHANGED <<program, destPath, options, origin, content, opened, faults>>
         /\ t = Main => ~Completed' /\ ~Failed'
<1>1. /\ req' = [req EXCEPT ![t] = r] /\ ret' = [ret EXCEPT ![t] = NULL]
      /\ UNCHANGED <<program, destPath, options, origin, content, opened, faults>>
  BY DEF Issues, args
<1>2. req'[t] = r /\ ret'[t] = NULL
  BY <1>1 DEF TypeOK
<1>3. \A u \in Task : u # t => req'[u] = req[u] /\ ret'[u] = ret[u]
  BY <1>1 DEF TypeOK
<1>4. QED
  BY <1>1, <1>2, <1>3 DEF Completed, Failed

LEMMA Returned ==
  ASSUME TypeOK, NEW t \in Task, NEW result, Returns(t, result)
  PROVE  /\ req'[t] = NULL /\ ret'[t] = result
         /\ \A u \in Task : u # t => req'[u] = req[u] /\ ret'[u] = ret[u]
         /\ UNCHANGED <<program, destPath, options, origin, pc, read, out, ops>>
BY DEF Returns, args, TypeOK

(* A program goes on to its next request.                                  *)
LEMMA GoesOn ==
  ASSUME IInv, NEW where, NEW r, Goes(where, r),
         where \in {"open", "dest", "read", "write", "close", "closeDest", "share", "done", "panicked"},
         r \in Request \cup {NULL}, Expects(where, r),
         \A t \in Task : t # Main => req[t] = NULL,
         read' \in 0..BufLen, out' \in Content
  PROVE  /\ TypeOK' /\ RequestInv'
         /\ req'[Main] = r /\ pc' = where /\ ~Completed' /\ ~Failed'
         /\ UNCHANGED <<program, destPath, options, origin, content, opened, faults>>
         /\ UNCHANGED <<Source, Old, ReadPos, WritePos>>
<1>1. /\ TypeOK /\ RequestInv /\ Main \in Task /\ Issues(Main, r) /\ pc' = where /\ UNCHANGED ops
  BY Constants DEF IInv, Goes
<1>2. /\ req'[Main] = r /\ ret'[Main] = NULL /\ ~Completed' /\ ~Failed'
      /\ \A u \in Task : u # Main => req'[u] = req[u] /\ ret'[u] = ret[u]
      /\ UNCHANGED <<program, destPath, options, origin, content, opened, faults>>
  BY <1>1, Issued
<1>3. req' \in [Task -> Request \cup {NULL}] /\ ret' \in [Task -> Result \cup {NULL}]
  BY <1>1, <1>2 DEF Issues, TypeOK
<1>4. TypeOK'
  BY <1>1, <1>2, <1>3 DEF TypeOK
<1>5. \A t \in Task : req'[t] # NULL => t = Main
  BY <1>2
<1>6. RequestInv'
  <2>1. \A t \in Task : req'[t] = NULL \/ ret'[t] = NULL
    BY <1>2, <1>5
  <2>2. Expects(where, r)'
    BY <1>2 DEF Expects
  <2>3. where \in {"share", "panicked"} => r = NULL
    BY DEF Expects
  <2>4. r # NULL /\ r.op \in {"read", "write"} => r.at = FALSE
    BY DEF Expects, Open, Close, Read, Write
  <2>5. \A t \in Task : (Is(t, "read")' \/ Is(t, "write")') => req'[t].at = FALSE
    BY <1>2, <1>5, <2>4 DEF Is
  <2>6. \A t \in Task : req'[t] # NULL => pc' \notin {"share", "panicked"} /\ t = Main
    BY <1>1, <1>2, <1>5, <2>3
  <2>7. pc' \notin {"share", "panicked"} => Expects(pc, req[Main])'
    BY <1>1, <1>2, <2>2 DEF Expects
  <2>8. QED
    BY <2>1, <2>5, <2>6, <2>7 DEF RequestInv
<1>7. QED
  BY <1>1, <1>2, <1>4, <1>6, SameNames

-----------------------------------------------------------------------------
(* The steps of the programs.                                              *)

LEMMA PanicsStep == IInv /\ Panics => IInv'
<1> SUFFICES ASSUME IInv, Panics PROVE IInv'
  OBVIOUS
<1> USE DEF SourceIntact
<1>1. /\ TypeOK /\ RequestInv /\ ProgramInv /\ OpenedInv /\ CopyInv /\ CatInv
      /\ Goes("panicked", NULL) /\ UNCHANGED <<read, out>>
      /\ pc \notin {"share", "panicked"} /\ Failed
  BY DEF IInv, Panics, Ready
<1>2. /\ TypeOK' /\ RequestInv' /\ pc' = "panicked" /\ ~Completed' /\ ~Failed'
      /\ UNCHANGED <<program, destPath, options, origin, content, opened, faults>>
      /\ UNCHANGED <<Source, Old, ReadPos, WritePos>>
  <2>1. \A t \in Task : t # Main => req[t] = NULL
    BY <1>1 DEF RequestInv
  <2>2. Expects("panicked", NULL) /\ read' \in 0..BufLen /\ out' \in Content
    BY <1>1 DEF Expects, TypeOK
  <2>3. QED
    BY <1>1, <2>1, <2>2, GoesOn
<1>3. ProgramInv'
  BY <1>1, <1>2 DEF ProgramInv
<1>4. OpenedInv'
  BY <1>1, <1>2 DEF OpenedInv, FirstOpen, SecondOpen
<1>5. CopyInv'
  BY <1>1, <1>2 DEF CopyInv
<1>6. CatInv'
  <2>1. faults' # {}
    BY <1>1, <1>2 DEF ProgramInv
  <2>2. QED
    BY <1>1, <1>2, <2>1 DEF CatInv
<1>7. QED
  BY <1>2, <1>3, <1>4, <1>5, <1>6 DEF IInv

LEMMA OpenFirstStep == IInv /\ OpenFirst => IInv'
<1> SUFFICES ASSUME IInv, OpenFirst PROVE IInv'
  OBVIOUS
<1> USE DEF SourceIntact
<1>1. /\ TypeOK /\ RequestInv /\ ProgramInv /\ OpenedInv /\ CopyInv /\ CatInv
      /\ Goes("open", Open("src", options)) /\ UNCHANGED <<read, out>>
      /\ pc = "open" /\ ~Completed /\ options \in OpenOptions
  BY DEF IInv, OpenFirst, Completed, TypeOK
<1>2. /\ TypeOK' /\ RequestInv' /\ pc' = "open" /\ ~Completed' /\ ~Failed'
      /\ UNCHANGED <<program, destPath, options, origin, content, opened, faults>>
      /\ UNCHANGED <<Source, Old, ReadPos, WritePos>>
  <2>1. \A t \in Task : t # Main => req[t] = NULL
    BY <1>1 DEF RequestInv
  <2>2. /\ Expects("open", Open("src", options)) /\ read' \in 0..BufLen /\ out' \in Content
        /\ Open("src", options) \in Request
    BY <1>1, MadeRequests DEF Expects, TypeOK, Path
  <2>3. QED
    BY <1>1, <2>1, <2>2, GoesOn
<1>3. ProgramInv'
  BY <1>1, <1>2 DEF ProgramInv
<1>4. OpenedInv'
  BY <1>1, <1>2 DEF OpenedInv, FirstOpen, SecondOpen
<1>5. CopyInv'
  BY <1>1, <1>2 DEF CopyInv
<1>6. CatInv'
  BY <1>1, <1>2 DEF CatInv
<1>7. QED
  BY <1>2, <1>3, <1>4, <1>5, <1>6 DEF IInv

LEMMA OpenedStep == IInv /\ Opened => IInv'
<1> SUFFICES ASSUME IInv, Opened PROVE IInv'
  OBVIOUS
<1> USE DEF SourceIntact
<1>1. /\ TypeOK /\ RequestInv /\ ProgramInv /\ OpenedInv /\ CopyInv /\ CatInv
      /\ UNCHANGED <<read, out>> /\ pc = "open" /\ Completed /\ destPath \in Path
  BY DEF IInv, Opened, Got, Completed, TypeOK
<1>2. /\ \A t \in Task : t # Main => req[t] = NULL
      /\ read' \in 0..BufLen /\ out' \in Content
  BY <1>1 DEF RequestInv, TypeOK
<1>3. CASE program = "cp"
  <2>1. Goes("dest", Open(destPath, [New EXCEPT !.create = TRUE, !.write = TRUE]))
    BY <1>3 DEF Opened
  <2>2. Open(destPath, [New EXCEPT !.create = TRUE, !.write = TRUE]) \in Request
    BY <1>1, MadeRequests
  <2>3. Expects("dest", Open(destPath, [New EXCEPT !.create = TRUE, !.write = TRUE]))
    BY DEF Expects
  <2>4. /\ TypeOK' /\ RequestInv' /\ pc' = "dest" /\ ~Completed' /\ ~Failed'
        /\ UNCHANGED <<program, destPath, options, origin, content, opened, faults>>
        /\ UNCHANGED <<Source, Old, ReadPos, WritePos>>
    BY <1>1, <1>2, <2>1, <2>2, <2>3, GoesOn
  <2>5. ProgramInv' /\ OpenedInv'
    BY <1>1, <1>3, <2>4 DEF ProgramInv, OpenedInv, FirstOpen, SecondOpen
  <2>6. CopyInv' /\ CatInv'
    BY <1>1, <1>3, <2>4 DEF CopyInv, CatInv
  <2>7. QED
    BY <2>4, <2>5, <2>6 DEF IInv
<1>4. CASE program = "cat"
  <2>1. Goes("read", Read(1, BufLen)) /\ Read(1, BufLen) \in Request /\ Expects("read", Read(1, BufLen))
    BY <1>4, MadeRequests DEF Opened, Expects, Fd
  <2>2. /\ TypeOK' /\ RequestInv' /\ pc' = "read" /\ ~Completed' /\ ~Failed'
        /\ UNCHANGED <<program, destPath, options, origin, content, opened, faults>>
        /\ UNCHANGED <<Source, Old, ReadPos, WritePos>>
    BY <1>1, <1>2, <2>1, GoesOn
  <2>3. ProgramInv' /\ OpenedInv'
    BY <1>1, <1>4, <2>2 DEF ProgramInv, OpenedInv, FirstOpen, SecondOpen
  <2>4. CopyInv'
    BY <1>4, <2>2 DEF CopyInv
  <2>5. out = <<>> /\ Source # NULL /\ ReadPos = 0
    BY <1>1, <1>4 DEF CatInv
  <2>6. Len(out) = 0 /\ Len(Source) \in Nat
    BY <1>1, <2>5, Empty, Sources
  <2>7. FullBuffers'
    <3>1. 0 \in 0..Len(out) /\ Len(out) = 0 * BufLen
      BY <2>6, BufLenAssumption
    <3>2. FullBuffers
      BY <3>1 DEF FullBuffers
    <3>3. QED
      BY <1>1, <3>2 DEF FullBuffers
  <2>8. CatInv'
    <3>1. CatProgress'
      BY <1>1, <2>2, <2>5, <2>6, <2>7 DEF CatProgress
    <3>2. QED
      BY <1>1, <1>4, <2>2, <2>5, <3>1 DEF CatInv
  <2>9. QED
    BY <2>2, <2>3, <2>4, <2>8 DEF IInv
<1>5. CASE program = "share"
  <2>1. Goes("share", NULL) /\ Expects("share", NULL)
    BY <1>5 DEF Opened, Expects
  <2>2. /\ TypeOK' /\ RequestInv' /\ pc' = "share" /\ ~Completed' /\ ~Failed'
        /\ UNCHANGED <<program, destPath, options, origin, content, opened, faults>>
        /\ UNCHANGED <<Source, Old, ReadPos, WritePos>>
    BY <1>1, <1>2, <2>1, GoesOn
  <2>3. ProgramInv' /\ OpenedInv'
    BY <1>1, <1>5, <2>2 DEF ProgramInv, OpenedInv, FirstOpen, SecondOpen
  <2>4. CopyInv' /\ CatInv'
    BY <1>5, <2>2 DEF CopyInv, CatInv
  <2>5. QED
    BY <2>2, <2>3, <2>4 DEF IInv
<1>6. QED
  BY <1>1, <1>3, <1>4, <1>5 DEF TypeOK, Program

LEMMA DestOpenedStep == IInv /\ DestOpened => IInv'
<1> SUFFICES ASSUME IInv, DestOpened PROVE IInv'
  OBVIOUS
<1> USE DEF SourceIntact
<1>1. /\ TypeOK /\ RequestInv /\ ProgramInv /\ OpenedInv /\ CopyInv /\ CatInv
      /\ Goes("read", Read(1, BufLen))
      /\ UNCHANGED <<read, out>> /\ pc = "dest" /\ Completed /\ program = "cp"
  BY DEF IInv, DestOpened, Got, Completed, ProgramInv
<1>2. /\ TypeOK' /\ RequestInv' /\ pc' = "read" /\ ~Completed' /\ ~Failed'
      /\ UNCHANGED <<program, destPath, options, origin, content, opened, faults>>
      /\ UNCHANGED <<Source, Old, ReadPos, WritePos>>
  <2>1. \A t \in Task : t # Main => req[t] = NULL
    BY <1>1 DEF RequestInv
  <2>2. /\ Expects("read", Read(1, BufLen)) /\ read' \in 0..BufLen /\ out' \in Content
        /\ Read(1, BufLen) \in Request
    BY <1>1, MadeRequests DEF Expects, TypeOK, Fd
  <2>3. QED
    BY <1>1, <2>1, <2>2, GoesOn
<1>3. ProgramInv' /\ OpenedInv'
  BY <1>1, <1>2 DEF ProgramInv, OpenedInv, FirstOpen, SecondOpen
<1>4. CopyInv'
  <2>1. Source \in Content /\ Len(Source) \in Nat /\ destPath \in Path /\ Old \in Content
    BY <1>1, Sources DEF CopyInv
  <2>2. ReadPos = 0 /\ WritePos = 0 /\ content = [origin EXCEPT ![destPath] = Old]
    BY <1>1 DEF CopyInv
  <2>3. content[destPath] = Old /\ SubSeq(Source, 1, 0) = <<>>
    <3>1. content[destPath] = Old
      BY <1>1, <2>1, <2>2 DEF TypeOK
    <3>2. SubSeq(Source, 1, 0) = <<>>
      BY <2>1, Whole
    <3>3. QED
      BY <3>1, <3>2
  <2>4. content[destPath] = Overwritten(Old, 0, SubSeq(Source, 1, 0))
    BY <2>1, <2>3, OverwriteNothing
  <2>5. CopyProgress'
    BY <1>1, <1>2, <2>1, <2>2, <2>4 DEF CopyProgress
  <2>6. QED
    BY <1>1, <1>2, <2>1, <2>5 DEF CopyInv
<1>5. CatInv'
  BY <1>1, <1>2 DEF CatInv
<1>6. QED
  BY <1>2, <1>3, <1>4, <1>5 DEF IInv

(* The bytes that a read returned.                                         *)
LEMMA BytesRead ==
  ASSUME IInv, pc = "read", Completed
  PROVE  Bytes \in Content /\ Len(Bytes) \in 0..BufLen /\ Len(Bytes) \in Nat
<1>1. ret[Main] \in [bytes : Content] /\ Len(Bytes) <= BufLen
  BY DEF IInv, ProgramInv
<1>2. Bytes \in Content
  BY <1>1 DEF Bytes
<1>3. Len(Bytes) \in Nat
  BY <1>2 DEF Content
<1>4. QED
  BY <1>1, <1>2, <1>3, BufLenAssumption

LEMMA Positions ==
  ASSUME TypeOK, OpenedInv
  PROVE  /\ FirstOpen => ReadPos \in Nat
         /\ SecondOpen => WritePos \in Nat
<1>1. \A fd \in Fd : opened[fd] # NULL => opened[fd].pos \in Nat
  BY DEF TypeOK, Description
<1>2. QED
  BY <1>1 DEF OpenedInv, ReadPos, WritePos, Fd

LEMMA CpWritesStep == IInv /\ CpWrites => IInv'
<1> SUFFICES ASSUME IInv, CpWrites PROVE IInv'
  OBVIOUS
<1>1. /\ TypeOK /\ RequestInv /\ ProgramInv /\ OpenedInv /\ CopyInv /\ CatInv
      /\ Goes("write", Write(2, Bytes)) /\ read' = Len(Bytes) /\ UNCHANGED out
      /\ pc = "read" /\ Completed /\ program = "cp"
  BY DEF IInv, CpWrites, Got, Completed
<1>2. Bytes \in Content /\ Len(Bytes) \in 0..BufLen
  BY <1>1, BytesRead
<1>3. /\ TypeOK' /\ RequestInv' /\ pc' = "write" /\ ~Completed' /\ ~Failed'
      /\ UNCHANGED <<program, destPath, options, origin, content, opened, faults>>
      /\ UNCHANGED <<Source, Old, ReadPos, WritePos>>
      /\ req'[Main] = Write(2, Bytes)
  <2>1. \A t \in Task : t # Main => req[t] = NULL
    BY <1>1 DEF RequestInv
  <2>2. /\ Expects("write", Write(2, Bytes)) /\ read' \in 0..BufLen /\ out' \in Content
        /\ Write(2, Bytes) \in Request
    BY <1>1, <1>2, MadeRequests DEF Expects, TypeOK, Fd, Write
  <2>3. QED
    BY <1>1, <2>1, <2>2, GoesOn
<1>4. ProgramInv' /\ OpenedInv'
  BY <1>1, <1>3 DEF ProgramInv, OpenedInv, FirstOpen, SecondOpen
<1>5. CopyInv'
  <2>1. ASSUME "short write" \notin faults PROVE CopyProgress'
    <3>1. CopyProgress
      BY <1>1, <2>1 DEF CopyInv
    <3>2. req'[Main].bytes = SubSeq(Source, WritePos + 1, ReadPos)
      BY <1>1, <1>3, <3>1 DEF CopyProgress, Write
    <3>3. LastChunk' => ReadAll /\ ReadAll'
      BY <1>1, <1>3, <3>1 DEF CopyProgress, LastChunk, ReadAll
    <3>4. QED
      BY <1>1, <1>3, <3>1, <3>2, <3>3 DEF CopyProgress
  <2>2. QED
    BY <1>1, <1>3, <2>1 DEF CopyInv, SourceIntact
<1>6. CatInv'
  BY <1>1, <1>3 DEF CatInv
<1>7. QED
  BY <1>3, <1>4, <1>5, <1>6 DEF IInv

LEMMA CpLoopsStep == IInv /\ CpLoops => IInv'
<1> SUFFICES ASSUME IInv, CpLoops PROVE IInv'
  OBVIOUS
<1>1. /\ TypeOK /\ RequestInv /\ ProgramInv /\ OpenedInv /\ CopyInv /\ CatInv
      /\ Goes("read", Read(1, BufLen)) /\ UNCHANGED <<read, out>>
      /\ pc = "write" /\ Completed /\ program = "cp"
  BY DEF IInv, CpLoops, Got, Completed, ProgramInv
<1>2. /\ TypeOK' /\ RequestInv' /\ pc' = "read" /\ ~Completed' /\ ~Failed'
      /\ UNCHANGED <<program, destPath, options, origin, content, opened, faults>>
      /\ UNCHANGED <<Source, Old, ReadPos, WritePos>>
  <2>1. \A t \in Task : t # Main => req[t] = NULL
    BY <1>1 DEF RequestInv
  <2>2. /\ Expects("read", Read(1, BufLen)) /\ read' \in 0..BufLen /\ out' \in Content
        /\ Read(1, BufLen) \in Request
    BY <1>1, MadeRequests DEF Expects, TypeOK, Fd
  <2>3. QED
    BY <1>1, <2>1, <2>2, GoesOn
<1>3. ProgramInv' /\ OpenedInv'
  BY <1>1, <1>2 DEF ProgramInv, OpenedInv, FirstOpen, SecondOpen
<1>4. CopyInv'
  <2>1. CopyProgress => CopyProgress'
    BY <1>1, <1>2 DEF CopyProgress
  <2>2. QED
    BY <1>1, <1>2, <2>1 DEF CopyInv, SourceIntact
<1>5. CatInv'
  BY <1>1, <1>2 DEF CatInv
<1>6. QED
  BY <1>2, <1>3, <1>4, <1>5 DEF IInv

LEMMA CpClosesStep == IInv /\ CpCloses => IInv'
<1> SUFFICES ASSUME IInv, CpCloses PROVE IInv'
  OBVIOUS
<1>1. /\ TypeOK /\ RequestInv /\ ProgramInv /\ OpenedInv /\ CopyInv /\ CatInv
      /\ Goes("close", Close(1)) /\ UNCHANGED <<read, out>>
      /\ pc = "write" /\ Completed /\ LastChunk /\ program = "cp"
  BY DEF IInv, CpCloses, Got, Completed, ProgramInv
<1>2. /\ TypeOK' /\ RequestInv' /\ pc' = "close" /\ ~Completed' /\ ~Failed'
      /\ UNCHANGED <<program, destPath, options, origin, content, opened, faults>>
      /\ UNCHANGED <<Source, Old, ReadPos, WritePos>>
  <2>1. \A t \in Task : t # Main => req[t] = NULL
    BY <1>1 DEF RequestInv
  <2>2. /\ Expects("close", Close(1)) /\ read' \in 0..BufLen /\ out' \in Content
        /\ Close(1) \in Request
    BY <1>1, MadeRequests DEF Expects, TypeOK, Fd
  <2>3. QED
    BY <1>1, <2>1, <2>2, GoesOn
<1>3. ProgramInv' /\ OpenedInv'
  BY <1>1, <1>2 DEF ProgramInv, OpenedInv, FirstOpen, SecondOpen
<1>4. CopyInv'
  <2>1. ASSUME faults \cap {"short read", "short write"} = {}
        PROVE  content[destPath] = Overwritten(Old, 0, Source)
    <3>1. CopyProgress /\ Source \in Content
      BY <1>1, <2>1, Sources DEF CopyInv
    <3>2. WritePos = Len(Source)
      BY <1>1, <2>1, <3>1 DEF CopyProgress, ReadAll
    <3>3. QED
      BY <3>1, <3>2, Whole DEF CopyProgress
  <2>2. QED
    BY <1>1, <1>2, <2>1 DEF CopyInv, SourceIntact
<1>5. CatInv'
  BY <1>1, <1>2 DEF CatInv
<1>6. QED
  BY <1>2, <1>3, <1>4, <1>5 DEF IInv

LEMMA CpClosesDestStep == IInv /\ CpClosesDest => IInv'
<1> SUFFICES ASSUME IInv, CpClosesDest PROVE IInv'
  OBVIOUS
<1>1. /\ TypeOK /\ RequestInv /\ ProgramInv /\ OpenedInv /\ CopyInv /\ CatInv
      /\ Goes("closeDest", Close(2)) /\ UNCHANGED <<read, out>>
      /\ pc = "close" /\ Completed /\ program = "cp"
  BY DEF IInv, CpClosesDest, Got, Completed
<1>2. /\ TypeOK' /\ RequestInv' /\ pc' = "closeDest" /\ ~Completed' /\ ~Failed'
      /\ UNCHANGED <<program, destPath, options, origin, content, opened, faults>>
      /\ UNCHANGED <<Source, Old, ReadPos, WritePos>>
  <2>1. \A t \in Task : t # Main => req[t] = NULL
    BY <1>1 DEF RequestInv
  <2>2. /\ Expects("closeDest", Close(2)) /\ read' \in 0..BufLen /\ out' \in Content
        /\ Close(2) \in Request
    BY <1>1, MadeRequests DEF Expects, TypeOK, Fd
  <2>3. QED
    BY <1>1, <2>1, <2>2, GoesOn
<1>3. ProgramInv' /\ OpenedInv'
  BY <1>1, <1>2 DEF ProgramInv, OpenedInv, FirstOpen, SecondOpen
<1>4. CopyInv' /\ CatInv'
  BY <1>1, <1>2 DEF CopyInv, CatInv, SourceIntact
<1>5. QED
  BY <1>2, <1>3, <1>4 DEF IInv

LEMMA EndsStep == IInv /\ Ends => IInv'
<1> SUFFICES ASSUME IInv, Ends PROVE IInv'
  OBVIOUS
<1>1. /\ TypeOK /\ RequestInv /\ ProgramInv /\ OpenedInv /\ CopyInv /\ CatInv
      /\ Goes("done", NULL) /\ UNCHANGED <<read, out>>
      /\ pc = (IF program = "cp" THEN "closeDest" ELSE "close") /\ Completed
  BY DEF IInv, Ends, Got, Completed
<1>2. /\ TypeOK' /\ RequestInv' /\ pc' = "done" /\ ~Completed' /\ ~Failed'
      /\ UNCHANGED <<program, destPath, options, origin, content, opened, faults>>
      /\ UNCHANGED <<Source, Old, ReadPos, WritePos>>
  <2>1. \A t \in Task : t # Main => req[t] = NULL
    BY <1>1 DEF RequestInv
  <2>2. Expects("done", NULL) /\ read' \in 0..BufLen /\ out' \in Content
    BY <1>1 DEF Expects, TypeOK
  <2>3. QED
    BY <1>1, <2>1, <2>2, GoesOn
<1>3. ProgramInv' /\ OpenedInv'
  BY <1>1, <1>2 DEF ProgramInv, OpenedInv, FirstOpen, SecondOpen
<1>4. CopyInv' /\ CatInv'
  BY <1>1, <1>2 DEF CopyInv, CatInv, SourceIntact
<1>5. QED
  BY <1>2, <1>3, <1>4 DEF IInv

LEMMA ShareEndsStep == IInv /\ ShareEnds => IInv'
<1> SUFFICES ASSUME IInv, ShareEnds PROVE IInv'
  OBVIOUS
<1>1. /\ TypeOK /\ RequestInv /\ ProgramInv /\ OpenedInv /\ CopyInv /\ CatInv
      /\ Goes("close", Close(1)) /\ UNCHANGED <<read, out>>
      /\ pc = "share" /\ program = "share" /\ \A t \in Task : req[t] = NULL
  BY DEF IInv, ShareEnds, ProgramInv
<1>2. /\ TypeOK' /\ RequestInv' /\ pc' = "close" /\ ~Completed' /\ ~Failed'
      /\ UNCHANGED <<program, destPath, options, origin, content, opened, faults>>
      /\ UNCHANGED <<Source, Old, ReadPos, WritePos>>
  <2>1. /\ Expects("close", Close(1)) /\ read' \in 0..BufLen /\ out' \in Content
        /\ Close(1) \in Request
    BY <1>1, MadeRequests DEF Expects, TypeOK, Fd
  <2>2. QED
    BY <1>1, <2>1, GoesOn
<1>3. ProgramInv' /\ OpenedInv'
  BY <1>1, <1>2 DEF ProgramInv, OpenedInv, FirstOpen, SecondOpen
<1>4. CopyInv' /\ CatInv'
  BY <1>1, <1>2 DEF CopyInv, CatInv
<1>5. QED
  BY <1>2, <1>3, <1>4 DEF IInv

(* What cat has printed when it goes on.                                   *)
LEMMA CatPrinted ==
  ASSUME IInv, CatPrints
  PROVE  /\ Source \in Content /\ ReadPos \in Nat /\ ReadPos <= Len(Source) /\ Len(Source) \in Nat
         /\ out' \in Content /\ ValidUtf8(out)'
         /\ out' = SubSeq(Source, 1, ReadPos) /\ Len(out') = ReadPos
         /\ Len(Bytes) < BufLen => ReadAll
         /\ "short read" \notin faults => FullBuffers
         /\ Len(out) \in Nat /\ Len(out') = Len(out) + Len(Bytes)
<1>1. /\ TypeOK /\ OpenedInv /\ CatInv /\ out' = out \o Bytes
      /\ pc = "read" /\ Completed /\ program = "cat" /\ ValidUtf8(Bytes)
  BY DEF IInv, CatPrints, Got, Completed, CatChunk
<1>2. Bytes \in Content /\ Len(Bytes) \in Nat
  BY <1>1, BytesRead
<1>3. Source # NULL /\ CatProgress /\ ValidUtf8(out) /\ out = SubSeq(Source, 1, Len(out))
  BY <1>1 DEF CatInv
<1>4. Source \in Content /\ Len(Source) \in Nat /\ out \in Content /\ Len(out) \in Nat
  BY <1>1, <1>3, Sources
<1>5. ReadPos \in Nat
  BY <1>1, Positions DEF FirstOpen
<1>6. /\ Len(out) <= ReadPos /\ ReadPos <= Len(Source)
      /\ Bytes = SubSeq(Source, Len(out) + 1, ReadPos)
      /\ Len(Bytes) < BufLen => ReadAll
      /\ "short read" \notin faults => FullBuffers
  BY <1>1, <1>3 DEF CatProgress
<1>7. out' = SubSeq(Source, 1, ReadPos)
  <2>1. SubSeq(Source, 1, Len(out)) \o SubSeq(Source, Len(out) + 1, ReadPos) = SubSeq(Source, 1, ReadPos)
    BY <1>4, <1>5, <1>6, JoinParts
  <2>2. QED
    BY <1>1, <1>3, <1>6, <2>1
<1>8. Len(out') = ReadPos
  BY <1>4, <1>5, <1>6, <1>7, Beginnings
<1>9. out \o Bytes \in Content /\ Len(out \o Bytes) = Len(out) + Len(Bytes) /\ ValidUtf8(out \o Bytes)
  BY <1>1, <1>2, <1>3, <1>4, Utf8Join
<1>10. ValidUtf8(out)'
  BY <1>1, <1>9 DEF ValidUtf8
<1>11. QED
  BY <1>1, <1>4, <1>5, <1>6, <1>7, <1>8, <1>9, <1>10

LEMMA CatPrintsStep == IInv /\ CatPrints => IInv'
<1> SUFFICES ASSUME IInv, CatPrints PROVE IInv'
  OBVIOUS
<1>1. /\ TypeOK /\ RequestInv /\ ProgramInv /\ OpenedInv /\ CopyInv /\ CatInv
      /\ IF LastChunk' THEN Goes("close", Close(1)) ELSE Goes("read", Read(1, BufLen))
      /\ read' = Len(Bytes) /\ pc = "read" /\ Completed /\ program = "cat"
  BY DEF IInv, CatPrints, Got, Completed
<1>2. Bytes \in Content /\ Len(Bytes) \in 0..BufLen
  BY <1>1, BytesRead
<1>3. /\ Source \in Content /\ ReadPos \in Nat /\ ReadPos <= Len(Source) /\ Len(Source) \in Nat
      /\ out' \in Content /\ ValidUtf8(out)'
      /\ out' = SubSeq(Source, 1, ReadPos) /\ Len(out') = ReadPos
      /\ Len(Bytes) < BufLen => ReadAll
      /\ "short read" \notin faults => FullBuffers
      /\ Len(out) \in Nat /\ Len(out') = Len(out) + Len(Bytes)
  BY CatPrinted
<1> DEFINE last == ReadPos
           n == Len(out)
           l == Len(Source)
<1>0. last \in Nat /\ last <= l /\ l \in Nat /\ n \in Nat
  BY <1>3
<1> HIDE DEF last, n, l
<1>4. \A t \in Task : t # Main => req[t] = NULL
  BY <1>1 DEF RequestInv
<1>5. Source # NULL /\ content = origin
  BY <1>1, <1>3, Constants DEF CatInv
<1>6. CASE Len(Bytes) < BufLen
  <2>1. Goes("close", Close(1)) /\ Close(1) \in Request /\ Expects("close", Close(1))
    BY <1>1, <1>6, MadeRequests DEF LastChunk, Expects, Fd
  <2>2. /\ TypeOK' /\ RequestInv' /\ pc' = "close" /\ ~Completed' /\ ~Failed'
        /\ UNCHANGED <<program, destPath, options, origin, content, opened, faults>>
        /\ UNCHANGED <<Source, Old, ReadPos, WritePos>>
    BY <1>1, <1>2, <1>3, <1>4, <2>1, GoesOn
  <2>3. ProgramInv' /\ OpenedInv' /\ CopyInv'
    BY <1>1, <2>2 DEF ProgramInv, OpenedInv, FirstOpen, SecondOpen, CopyInv
  <2>4. "short read" \notin faults => out' = Source
    BY <1>3, <1>6, Whole DEF ReadAll
  <2>5. CatInv'
    BY <1>1, <1>3, <1>5, <2>2, <2>4 DEF CatInv
  <2>6. QED
    BY <2>2, <2>3, <2>5 DEF IInv
<1>7. CASE ~(Len(Bytes) < BufLen)
  <2>1. Goes("read", Read(1, BufLen)) /\ Read(1, BufLen) \in Request /\ Expects("read", Read(1, BufLen))
    BY <1>1, <1>7, MadeRequests DEF LastChunk, Expects, Fd
  <2>2. /\ TypeOK' /\ RequestInv' /\ pc' = "read" /\ ~Completed' /\ ~Failed'
        /\ UNCHANGED <<program, destPath, options, origin, content, opened, faults>>
        /\ UNCHANGED <<Source, Old, ReadPos, WritePos>>
    BY <1>1, <1>2, <1>3, <1>4, <2>1, GoesOn
  <2>3. ProgramInv' /\ OpenedInv' /\ CopyInv'
    BY <1>1, <2>2 DEF ProgramInv, OpenedInv, FirstOpen, SecondOpen, CopyInv
  <2>4. ReadPos = Len(out) + BufLen
    <3>1. Len(Bytes) = BufLen
      BY <1>2, <1>7, BufLenAssumption
    <3>2. ReadPos = Len(out) + Len(Bytes)
      BY <1>3
    <3>3. QED
      BY <3>1, <3>2
  <2>5. ASSUME "short read" \notin faults PROVE FullBuffers'
    <3>1. PICK k \in 0..Len(out) : Len(out) = k * BufLen
      BY <1>3, <2>5 DEF FullBuffers
    <3>2. k \in Nat
      BY <3>1
    <3>3. ReadPos = (k + 1) * BufLen
      BY <2>4, <3>1, <3>2, Multiples
    <3>4. k + 1 \in 0..ReadPos
      <4>1. k \in 0..n /\ last = n + BufLen
        BY <2>4, <3>1 DEF n, last
      <4>2. k + 1 \in 0..last
        BY <1>0, <4>1, BufLenAssumption
      <4>3. QED
        BY <4>2 DEF last
    <3>5. Len(out') = (k + 1) * BufLen /\ k + 1 \in 0..Len(out')
      BY <1>3, <3>3, <3>4
    <3>6. QED
      BY <3>5 DEF FullBuffers
  <2>6. CatProgress'
    <3>1. ReadPos <= Len(Source) /\ ReadPos <= ReadPos
      <4>1. last <= l /\ last <= last
        BY <1>0
      <4>2. QED
        BY <4>1 DEF last, l
    <3>2. ReadPos' = Len(out') /\ ReadPos' <= Len(Source') /\ ReadPos' <= ReadPos'
      BY <1>3, <2>2, <3>1
    <3>3. QED
      BY <2>2, <2>5, <3>2 DEF CatProgress
  <2>7. CatInv'
    BY <1>1, <1>3, <1>5, <2>2, <2>6 DEF CatInv
  <2>8. QED
    BY <2>2, <2>3, <2>7 DEF IInv
<1>8. QED
  BY <1>6, <1>7

LEMMA CatPanicsStep == IInv /\ CatPanics => IInv'
<1> SUFFICES ASSUME IInv, CatPanics PROVE IInv'
  OBVIOUS
<1>1. /\ TypeOK /\ RequestInv /\ ProgramInv /\ OpenedInv /\ CopyInv /\ CatInv
      /\ Goes("panicked", NULL) /\ UNCHANGED <<read, out>>
      /\ pc = "read" /\ Completed /\ program = "cat" /\ ~ValidUtf8(Bytes)
  BY DEF IInv, CatPanics, Got, Completed, CatChunk
<1>2. /\ TypeOK' /\ RequestInv' /\ pc' = "panicked" /\ ~Completed' /\ ~Failed'
      /\ UNCHANGED <<program, destPath, options, origin, content, opened, faults>>
      /\ UNCHANGED <<Source, Old, ReadPos, WritePos>>
  <2>1. \A t \in Task : t # Main => req[t] = NULL
    BY <1>1 DEF RequestInv
  <2>2. Expects("panicked", NULL) /\ read' \in 0..BufLen /\ out' \in Content
    BY <1>1 DEF Expects, TypeOK
  <2>3. QED
    BY <1>1, <2>1, <2>2, GoesOn
<1>3. ProgramInv' /\ OpenedInv' /\ CopyInv'
  BY <1>1, <1>2 DEF ProgramInv, OpenedInv, FirstOpen, SecondOpen, CopyInv
<1>4. ASSUME faults = {}, ValidUtf8(Source)
      PROVE  \E i \in DOMAIN Source : i % BufLen = 0 /\ Source[i] = "hi"
  <2>1. /\ Source # NULL /\ Len(out) <= ReadPos /\ ReadPos <= Len(Source)
        /\ Bytes = SubSeq(Source, Len(out) + 1, ReadPos)
        /\ Len(Bytes) < BufLen => ReadPos = Len(Source)
        /\ FullBuffers
    BY <1>1, <1>4 DEF CatInv, CatProgress, ReadAll
  <2>2. /\ Source \in Content /\ Len(Source) \in Nat /\ Len(out) \in Nat /\ ReadPos \in Nat
        /\ Len(Bytes) \in 0..BufLen /\ BufLen \in Nat \ {0}
    BY <1>1, <2>1, Sources, Positions, BytesRead, Constants DEF FirstOpen
  <2>3. \/ Len(out) \in DOMAIN Source /\ Source[Len(out)] = "hi"
        \/ ReadPos < Len(Source) /\ ReadPos \in DOMAIN Source /\ Source[ReadPos] = "hi"
    BY <1>1, <1>4, <2>1, <2>2, CutCharacter
  <2>4. PICK k \in 0..Len(out) : Len(out) = k * BufLen
    BY <2>1 DEF FullBuffers
  <2>5. k \in Nat /\ k + 1 \in Nat
    BY <2>2, <2>4
  <2>6. Len(out) % BufLen = 0
    BY <2>4, <2>5, Multiples
  <2>7. ASSUME ReadPos < Len(Source) PROVE ReadPos % BufLen = 0
    <3>1. Len(Bytes) = BufLen
      <4>1. ReadPos # Len(Source)
        BY <2>2, <2>7
      <4>2. ~(Len(Bytes) < BufLen)
        BY <2>1, <4>1
      <4>3. QED
        BY <2>2, <4>2
    <3>2. Len(Bytes) = ReadPos - Len(out)
      BY <2>1, <2>2, Parts
    <3>3. ReadPos = (k + 1) * BufLen
      BY <2>2, <2>4, <2>5, <3>1, <3>2, Multiples
    <3>4. QED
      BY <2>5, <3>3, Multiples
  <2>8. QED
    BY <2>3, <2>6, <2>7
<1>5. CatInv'
  BY <1>1, <1>2, <1>4 DEF CatInv
<1>6. QED
  BY <1>2, <1>3, <1>5 DEF IInv

(* A sharing task makes a request whose offset is not the position.        *)
LEMMA SharedStep ==
  ASSUME IInv, NEW t \in Task, Shares(t), NEW r \in Request, Issues(t, r), UNCHANGED pc,
         r.op \in {"read", "write"}, r.at => r.off # Position
  PROVE  IInv'
<1>1. /\ TypeOK /\ RequestInv /\ ProgramInv /\ OpenedInv /\ CopyInv /\ CatInv
      /\ pc = "share" /\ program = "share" /\ ops < MaxOps /\ ops' = ops + 1
      /\ UNCHANGED <<read, out>>
  BY DEF IInv, Shares, ProgramInv
<1>2. /\ req'[t] = r /\ ret'[t] = NULL
      /\ \A u \in Task : u # t => req'[u] = req[u] /\ ret'[u] = ret[u]
      /\ UNCHANGED <<program, destPath, options, origin, content, opened, faults>>
      /\ t = Main => ~Completed' /\ ~Failed'
  BY <1>1, Issued
<1>3. TypeOK'
  <2>1. ops' \in 0..MaxOps
    <3>1. ops \in 0..MaxOps /\ ops < MaxOps /\ ops' = ops + 1
      BY <1>1 DEF TypeOK
    <3>2. QED
      BY <3>1, FilesBoundsAssumption
  <2>2. req' \in [Task -> Request \cup {NULL}] /\ ret' \in [Task -> Result \cup {NULL}]
    BY <1>1 DEF Issues, TypeOK
  <2>3. QED
    BY <1>1, <1>2, <2>1, <2>2 DEF TypeOK
<1>4. RequestInv'
  <2>1. r # NULL
    BY Constants
  <2>2. \A u \in Task : req'[u] = NULL \/ ret'[u] = NULL
    BY <1>1, <1>2 DEF RequestInv
  <2>3. \A u \in Task : (Is(u, "read")' \/ Is(u, "write")') /\ req'[u].at => req'[u].off # Position
    BY <1>1, <1>2 DEF RequestInv, Is
  <2>4. \A u \in Task : req'[u] # NULL => Is(u, "read")' \/ Is(u, "write")'
    BY <1>1, <1>2, <2>1 DEF RequestInv, Is
  <2>5. QED
    BY <1>1, <1>2, <2>2, <2>3, <2>4 DEF RequestInv
<1>5. ProgramInv'
  <2>1. Failed' => "error" \in faults
    BY <1>1, <1>2, Constants DEF ProgramInv, Failed
  <2>2. QED
    BY <1>1, <1>2, <2>1 DEF ProgramInv
<1>6. OpenedInv' /\ CopyInv' /\ CatInv'
  BY <1>1, <1>2 DEF OpenedInv, FirstOpen, SecondOpen, CopyInv, CatInv
<1>7. QED
  BY <1>3, <1>4, <1>5, <1>6 DEF IInv

LEMMA SharingStep ==
  ASSUME IInv, NEW t \in Task
  PROVE  /\ ShareSequential(t) => IInv'
         /\ \A o \in 0..Position : ShareAt(t, o) => IInv'
<1>1. <<"x", "x">> \in Content /\ 1 \in Fd
  BY DEF Content, Byte, Fd
<1>2. ASSUME ShareSequential(t) PROVE IInv'
  <2>1. Shares(t) /\ UNCHANGED pc
    BY <1>2 DEF ShareSequential
  <2>2. CASE Issues(t, Read(1, BufLen))
    <3>1. Read(1, BufLen) \in Request /\ Read(1, BufLen).op = "read" /\ ~Read(1, BufLen).at
      BY <1>1, MadeRequests DEF Read
    <3>2. QED
      BY <2>1, <2>2, <3>1, SharedStep
  <2>3. CASE Issues(t, Write(1, <<"x", "x">>))
    <3>1. /\ Write(1, <<"x", "x">>) \in Request /\ Write(1, <<"x", "x">>).op = "write"
          /\ ~Write(1, <<"x", "x">>).at
      BY <1>1, MadeRequests DEF Write
    <3>2. QED
      BY <2>1, <2>3, <3>1, SharedStep
  <2>4. QED
    BY <1>2, <2>2, <2>3 DEF ShareSequential
<1>3. ASSUME NEW o \in 0..Position, ShareAt(t, o) PROVE IInv'
  <2>1. Shares(t) /\ UNCHANGED pc /\ ~OffsetPanics(o)
    BY <1>3 DEF ShareAt
  <2>2. AsI64(o) # Position
    BY <2>1, OffsetsStay
  <2>3. CASE Issues(t, ReadAt(1, BufLen, o))
    <3>1. /\ ReadAt(1, BufLen, o) \in Request /\ ReadAt(1, BufLen, o).op = "read"
          /\ ReadAt(1, BufLen, o).off # Position
      BY <1>1, <2>1, <2>2, MadeRequests DEF ReadAt
    <3>2. QED
      BY <2>1, <2>3, <3>1, SharedStep
  <2>4. CASE Issues(t, WriteAt(1, <<"x", "x">>, o))
    <3>1. /\ WriteAt(1, <<"x", "x">>, o) \in Request /\ WriteAt(1, <<"x", "x">>, o).op = "write"
          /\ WriteAt(1, <<"x", "x">>, o).off # Position
      BY <1>1, <2>1, <2>2, MadeRequests DEF WriteAt
    <3>2. QED
      BY <2>1, <2>4, <3>1, SharedStep
  <2>5. QED
    BY <1>3, <2>3, <2>4 DEF ShareAt
<1>4. QED
  BY <1>2, <1>3

LEMMA ShareAtPanicsStep ==
  ASSUME IInv, NEW t \in Task, NEW o \in 0..Position, ShareAtPanics(t, o)
  PROVE  IInv'
<1>1. /\ TypeOK /\ RequestInv /\ ProgramInv /\ OpenedInv /\ CopyInv /\ CatInv
      /\ pc = "share" /\ program = "share" /\ ops < MaxOps /\ ops' = ops + 1
      /\ UNCHANGED <<read, out, program, destPath, options, origin, content, opened, req, ret, faults>>
      /\ pc' = "panicked"
  BY DEF IInv, Shares, ShareAtPanics, ProgramInv, args
<1>2. TypeOK'
  <2>1. ops' \in 0..MaxOps
    <3>1. ops \in 0..MaxOps /\ ops < MaxOps /\ ops' = ops + 1
      BY <1>1 DEF TypeOK
    <3>2. QED
      BY <3>1, FilesBoundsAssumption
  <2>2. QED
    BY <1>1, <2>1 DEF TypeOK
<1>3. RequestInv'
  BY <1>1 DEF RequestInv, Is
<1>4. ProgramInv'
  BY <1>1 DEF ProgramInv, Failed
<1>5. OpenedInv' /\ CopyInv' /\ CatInv'
  BY <1>1 DEF OpenedInv, FirstOpen, SecondOpen, CopyInv, CatInv
<1>6. QED
  BY <1>2, <1>3, <1>4, <1>5 DEF IInv

-----------------------------------------------------------------------------
(* The steps of the kernel.                                                *)

(* A request that waits for the kernel, and whose it is.                   *)
LEMMA Pending ==
  ASSUME IInv, NEW t \in Task, req[t] # NULL
  PROVE  /\ ret[t] = NULL
         /\ pc \in {"share", "panicked"} => program = "share" /\ (Is(t, "read") \/ Is(t, "write"))
         /\ pc \notin {"share", "panicked"} =>
              /\ t = Main /\ ~Completed /\ ~Failed
              /\ \/ pc = "open" /\ req[t] = Open("src", options)
                 \/ pc = "dest" /\ req[t] = Open(destPath, [New EXCEPT !.create = TRUE, !.write = TRUE])
                 \/ pc = "read" /\ req[t] = Read(1, BufLen)
                 \/ pc = "write" /\ req[t] = Write(2, req[t].bytes)
                 \/ pc = "close" /\ req[t] = Close(1)
                 \/ pc = "closeDest" /\ req[t] = Close(2)
<1>1. RequestInv
  BY DEF IInv
<1>2. ret[t] = NULL
  BY <1>1 DEF RequestInv
<1>3. pc \in {"share", "panicked"} => program = "share" /\ (Is(t, "read") \/ Is(t, "write"))
  BY <1>1 DEF RequestInv
<1>4. ASSUME pc \notin {"share", "panicked"}
      PROVE  t = Main /\ Expects(pc, req[t])
  BY <1>1, <1>4 DEF RequestInv
<1>5. QED
  BY <1>2, <1>3, <1>4 DEF Expects, Completed, Failed

(* Where the program is tells what it asked for.                           *)
LEMMA Asked ==
  ASSUME IInv, NEW t \in Task
  PROVE  /\ Is(t, "open") =>
              /\ t = Main /\ ~Completed /\ ~Failed
              /\ \/ pc = "open" /\ req[t] = Open("src", options)
                 \/ pc = "dest" /\ req[t] = Open(destPath, [New EXCEPT !.create = TRUE, !.write = TRUE])
         /\ Is(t, "close") =>
              /\ t = Main /\ ~Completed /\ ~Failed
              /\ \/ pc = "close" /\ req[t] = Close(1)
                 \/ pc = "closeDest" /\ req[t] = Close(2)
         /\ Is(t, "read") =>
              \/ pc \in {"share", "panicked"} /\ program = "share"
              \/ /\ t = Main /\ ~Completed /\ ~Failed
                 /\ pc = "read" /\ req[t] = Read(1, BufLen)
         /\ Is(t, "write") =>
              \/ pc \in {"share", "panicked"} /\ program = "share"
              \/ /\ t = Main /\ ~Completed /\ ~Failed
                 /\ pc = "write" /\ req[t] = Write(2, req[t].bytes)
<1>1. \A op \in {"open", "close", "read", "write"} : Is(t, op) => req[t] # NULL /\ req[t].op = op
  BY DEF Is
<1>2. Is(t, "read") \/ Is(t, "write") => req[t].op \in {"read", "write"}
  BY DEF Is
<1>3. /\ Open("src", options).op = "open" /\ Close(1).op = "close" /\ Close(2).op = "close"
      /\ Open(destPath, [New EXCEPT !.create = TRUE, !.write = TRUE]).op = "open"
      /\ Read(1, BufLen).op = "read" /\ Write(2, req[t].bytes).op = "write"
  BY DEF Open, Close, Read, Write
<1>4. QED
  BY <1>1, <1>2, <1>3, Pending

LEMMA Results ==
  /\ \A fd \in Fd : [fd |-> fd] \in Result /\ "error" \notin DOMAIN [fd |-> fd]
  /\ \A b \in Content : [bytes |-> b] \in Result /\ "error" \notin DOMAIN [bytes |-> b]
  /\ \A n \in Nat : [n |-> n] \in Result /\ "error" \notin DOMAIN [n |-> n]
  /\ [error |-> TRUE] \in Result /\ "error" \in DOMAIN [error |-> TRUE]
BY DEF Result

(* The kernel answers a request.                                           *)
LEMMA Answered ==
  ASSUME IInv, NEW t \in Task, req[t] # NULL, NEW result \in Result, Returns(t, result),
         content' \in [Path -> Content \cup {NULL}], opened' \in [Fd -> Description \cup {NULL}],
         faults \subseteq faults', faults' \subseteq {"short read", "short write", "error"},
         "error" \in DOMAIN result => "error" \in faults'
  PROVE  /\ TypeOK' /\ RequestInv' /\ (Failed' => "error" \in faults')
         /\ UNCHANGED <<program, destPath, options, origin, pc, read, out, ops, Source, Old>>
         /\ t = Main => (Completed' <=> "error" \notin DOMAIN result)
         /\ t = Main => ret'[Main] = result /\ req'[Main] = NULL
<1>1. /\ TypeOK /\ RequestInv /\ ProgramInv
      /\ req'[t] = NULL /\ ret'[t] = result /\ result # NULL
      /\ \A u \in Task : u # t => req'[u] = req[u] /\ ret'[u] = ret[u]
      /\ UNCHANGED <<program, destPath, options, origin, pc, read, out, ops>>
  BY Returned, Constants DEF IInv
<1>2. UNCHANGED <<Source, Old>>
  BY <1>1 DEF Source, Old
<1>3. TypeOK'
  <2>1. req' \in [Task -> Request \cup {NULL}] /\ ret' \in [Task -> Result \cup {NULL}]
    BY <1>1 DEF Returns, TypeOK
  <2>2. QED
    BY <1>1, <2>1 DEF TypeOK
<1>4. RequestInv'
  <2>1. \A u \in Task : req'[u] = NULL \/ ret'[u] = NULL
    BY <1>1 DEF RequestInv
  <2>2. \A u \in Task : req'[u] # NULL => u # t /\ req'[u] = req[u]
    BY <1>1
  <2>3. \A u \in Task : (Is(u, "read")' \/ Is(u, "write")') /\ req'[u].at => req'[u].off # Position
    <3>1. SUFFICES ASSUME NEW u \in Task, Is(u, "read")' \/ Is(u, "write")', req'[u].at
                   PROVE  req'[u].off # Position
      OBVIOUS
    <3>2. req'[u] = req[u] /\ (Is(u, "read") \/ Is(u, "write"))
      BY <2>2, <3>1 DEF Is
    <3>3. QED
      BY <1>1, <3>1, <3>2 DEF RequestInv
  <2>4. \A u \in Task : req'[u] # NULL =>
          IF pc' \in {"share", "panicked"} THEN program' = "share" /\ (Is(u, "read")' \/ Is(u, "write")')
                                           ELSE u = Main
    <3>1. SUFFICES ASSUME NEW u \in Task, req'[u] # NULL
                   PROVE  IF pc \in {"share", "panicked"}
                          THEN program = "share" /\ (Is(u, "read")' \/ Is(u, "write")') ELSE u = Main
      BY <1>1
    <3>2. req'[u] = req[u] /\ req[u] # NULL
      BY <2>2, <3>1
    <3>3. IF pc \in {"share", "panicked"}
          THEN program = "share" /\ (Is(u, "read") \/ Is(u, "write")) ELSE u = Main
      BY <1>1, <3>2 DEF RequestInv
    <3>4. (Is(u, "read")' <=> Is(u, "read")) /\ (Is(u, "write")' <=> Is(u, "write"))
      BY <3>2 DEF Is
    <3>5. QED
      BY <3>3, <3>4
  <2>5. pc' \notin {"share", "panicked"} => Expects(pc, req[Main])'
    <3>1. req'[Main] = req[Main] \/ req'[Main] = NULL
      BY <1>1, Constants
    <3>2. QED
      BY <1>1, <3>1 DEF RequestInv, Expects
  <2>6. QED
    BY <1>1, <2>1, <2>3, <2>4, <2>5 DEF RequestInv
<1>5. Failed' => "error" \in faults'
  BY <1>1, Constants DEF ProgramInv, Failed
<1>6. t = Main => (Completed' <=> "error" \notin DOMAIN result)
  BY <1>1 DEF Completed, Failed
<1>7. QED
  BY <1>1, <1>2, <1>3, <1>4, <1>5, <1>6

LEMMA FailsStep ==
  ASSUME IInv, NEW t \in Task, Fails(t)
  PROVE  IInv'
<1>1. /\ TypeOK /\ RequestInv /\ ProgramInv /\ OpenedInv /\ CopyInv /\ CatInv
      /\ req[t] # NULL /\ faults' = faults \cup {"error"} /\ Returns(t, [error |-> TRUE])
      /\ UNCHANGED <<content, opened>>
  BY DEF IInv, Fails
<1>2. /\ TypeOK' /\ RequestInv' /\ (Failed' => "error" \in faults')
      /\ UNCHANGED <<program, destPath, options, origin, pc, read, out, ops, Source, Old>>
      /\ t = Main => ~Completed'
  <2>1. /\ content' \in [Path -> Content \cup {NULL}] /\ opened' \in [Fd -> Description \cup {NULL}]
        /\ faults \subseteq faults' /\ faults' \subseteq {"short read", "short write", "error"}
    BY <1>1 DEF TypeOK
  <2>2. QED
    BY <1>1, <2>1, Results, Answered
<1>3. t # Main => pc \in {"share", "panicked"} /\ program = "share"
  BY <1>1, Pending
<1>4. /\ pc \notin {"share", "panicked"} => ~Completed /\ ~Completed'
      /\ pc \notin {"share", "panicked"} => req[Main] # NULL
      /\ UNCHANGED <<ReadPos, WritePos>>
  BY <1>1, <1>2, <1>3, Pending DEF ReadPos, WritePos
<1>5. ProgramInv'
  BY <1>1, <1>2, <1>4 DEF ProgramInv
<1>6. OpenedInv'
  BY <1>1, <1>2, <1>4 DEF OpenedInv, FirstOpen, SecondOpen
<1>7. CopyInv'
  <2>1. req'[Main] = req[Main] \/ req'[Main] = NULL
    BY <1>1, Returned, Constants
  <2>2. ASSUME CopyProgress, pc \in {"read", "write"} PROVE CopyProgress'
    BY <1>1, <1>2, <1>4, <2>1, <2>2 DEF CopyProgress, ReadAll, LastChunk
  <2>3. QED
    BY <1>1, <1>2, <1>4, <2>2 DEF CopyInv, SourceIntact
<1>8. CatInv'
  <2>1. CatProgress /\ pc = "read" => CatProgress'
    BY <1>1, <1>2, <1>4 DEF CatProgress, ReadAll, FullBuffers
  <2>2. ValidUtf8(out)' <=> ValidUtf8(out)
    BY <1>2 DEF ValidUtf8
  <2>3. QED
    BY <1>1, <1>2, <1>4, <2>1, <2>2 DEF CatInv
<1>9. QED
  BY <1>2, <1>5, <1>6, <1>7, <1>8 DEF IInv

LEMMA CloseDoneStep ==
  ASSUME IInv, NEW t \in Task, CloseDone(t)
  PROVE  IInv'
<1>1. /\ TypeOK /\ RequestInv /\ ProgramInv /\ OpenedInv /\ CopyInv /\ CatInv
      /\ Is(t, "close") /\ req[t] # NULL /\ Returns(t, [n |-> 0])
      /\ opened' = [opened EXCEPT ![req[t].fd] = NULL]
      /\ UNCHANGED <<content, faults>>
  BY DEF IInv, CloseDone, Is
<1>2. /\ TypeOK' /\ RequestInv' /\ (Failed' => "error" \in faults')
      /\ UNCHANGED <<program, destPath, options, origin, pc, read, out, ops, Source, Old>>
      /\ t = Main => Completed'
  <2>1. /\ content' \in [Path -> Content \cup {NULL}] /\ opened' \in [Fd -> Description \cup {NULL}]
        /\ faults \subseteq faults' /\ faults' \subseteq {"short read", "short write", "error"}
    BY <1>1 DEF TypeOK
  <2>2. QED
    BY <1>1, <2>1, 0 \in Nat, Results, Answered
<1>3. /\ t = Main /\ ~Completed
      /\ \/ pc = "close" /\ req[t].fd = 1
         \/ pc = "closeDest" /\ req[t].fd = 2
  BY <1>1, Asked DEF Close
<1>4. ProgramInv'
  BY <1>1, <1>2, <1>3 DEF ProgramInv
<1>5. OpenedInv'
  <2>1. \A fd \in Fd : opened'[fd] = IF fd = req[t].fd THEN NULL ELSE opened[fd]
    BY <1>1 DEF TypeOK
  <2>2. \A fd \in Fd : opened'[fd] # NULL => content'[opened'[fd].path] # NULL
    BY <1>1, <2>1 DEF OpenedInv
  <2>3. 1 \in Fd /\ 2 \in Fd
    BY DEF Fd
  <2>4. QED
    BY <1>1, <1>2, <1>3, <2>1, <2>2, <2>3 DEF OpenedInv, FirstOpen, SecondOpen
<1>6. CopyInv'
  BY <1>1, <1>2, <1>3 DEF CopyInv, SourceIntact
<1>7. CatInv'
  <2>1. ValidUtf8(out)' <=> ValidUtf8(out)
    BY <1>2 DEF ValidUtf8
  <2>2. QED
    BY <1>1, <1>2, <1>3, <2>1 DEF CatInv
<1>8. QED
  BY <1>2, <1>4, <1>5, <1>6, <1>7 DEF IInv

(* The lowest free descriptor.                                             *)
FreeFd == CHOOSE f \in Fd : opened[f] = NULL /\ \A g \in Fd : g < f => opened[g] # NULL

LEMMA LowestFd ==
  /\ opened[1] = NULL => FreeFd = 1
  /\ opened[1] # NULL /\ opened[2] = NULL => FreeFd = 2
<1> DEFINE P(f) == opened[f] = NULL /\ \A g \in Fd : g < f => opened[g] # NULL
<1>1. ASSUME opened[1] = NULL PROVE FreeFd = 1
  <2>1. \A f \in Fd : P(f) <=> f = 1
    BY <1>1 DEF Fd
  <2>2. QED
    BY <2>1 DEF FreeFd, Fd
<1>2. ASSUME opened[1] # NULL, opened[2] = NULL PROVE FreeFd = 2
  <2>1. \A f \in Fd : P(f) <=> f = 2
    BY <1>2 DEF Fd
  <2>2. QED
    BY <2>1 DEF FreeFd, Fd
<1>3. QED
  BY <1>1, <1>2

LEMMA OpenDoneStep ==
  ASSUME IInv, NEW t \in Task, OpenDone(t)
  PROVE  IInv'
<1> DEFINE p == req[t].path
           f == req[t].flags
           d == [path |-> p, flags |-> f, pos |-> 0]
           file == IF content[p] = NULL \/ "TRUNC" \in f THEN <<>> ELSE content[p]
<1>1. /\ TypeOK /\ RequestInv /\ ProgramInv /\ OpenedInv /\ CopyInv /\ CatInv
      /\ Is(t, "open") /\ req[t] # NULL /\ UNCHANGED faults
      /\ content[p] = NULL => "CREAT" \in f
      /\ content' = [content EXCEPT ![p] = file]
      /\ opened' = [opened EXCEPT ![FreeFd] = d]
      /\ Returns(t, [fd |-> FreeFd])
  BY DEF IInv, OpenDone, Is, FreeFd
<1>2. /\ t = Main /\ ~Completed
      /\ \/ pc = "open" /\ p = "src" /\ f = Flags(options) /\ FreeFd = 1
         \/ pc = "dest" /\ p = destPath /\ f = {"CREAT", "WRONLY"} /\ FreeFd = 2 /\ opened[1] # NULL
  <2>1. /\ t = Main /\ ~Completed
        /\ \/ pc = "open" /\ p = "src" /\ f = Flags(options)
           \/ pc = "dest" /\ p = destPath /\ f = {"CREAT", "WRONLY"}
    BY <1>1, Asked, MadeRequests DEF Open
  <2>2. pc = "open" => opened[1] = NULL
    BY <1>1, <2>1 DEF OpenedInv, FirstOpen
  <2>3. pc = "dest" => opened[1] # NULL /\ opened[2] = NULL
    BY <1>1, <2>1 DEF OpenedInv, FirstOpen, SecondOpen
  <2>4. QED
    BY <2>1, <2>2, <2>3, LowestFd
<1>3. FreeFd \in Fd /\ p \in Path /\ f \in SUBSET Flag /\ d \in Description /\ file \in Content
  <2>1. p \in Path /\ f \in SUBSET Flag
    BY <1>1, Requests
  <2>2. content[p] \in Content \cup {NULL}
    BY <1>1, <2>1 DEF TypeOK
  <2>3. file \in Content
    BY <2>2, Empty
  <2>4. d \in Description
    BY <2>1 DEF Description
  <2>5. QED
    BY <1>2, <2>1, <2>3, <2>4 DEF Fd
<1> HIDE DEF p, f, file
<1>4. /\ TypeOK' /\ RequestInv' /\ (Failed' => "error" \in faults')
      /\ UNCHANGED <<program, destPath, options, origin, pc, read, out, ops, Source, Old>>
      /\ Completed'
  <2>1. /\ content' \in [Path -> Content \cup {NULL}] /\ opened' \in [Fd -> Description \cup {NULL}]
        /\ faults \subseteq faults' /\ faults' \subseteq {"short read", "short write", "error"}
    BY <1>1, <1>3 DEF TypeOK
  <2>2. QED
    BY <1>1, <1>2, <1>3, <2>1, Results, Answered
<1>5. /\ opened'[FreeFd] = d /\ \A g \in Fd : g # FreeFd => opened'[g] = opened[g]
      /\ content'[p] = file /\ \A q \in Path : q # p => content'[q] = content[q]
      /\ file # NULL
  BY <1>1, <1>3, Constants DEF TypeOK
<1>6. ProgramInv'
  BY <1>1, <1>2, <1>4 DEF ProgramInv
<1>7. OpenedInv'
  <2>1. \A g \in Fd : opened'[g] # NULL => content'[opened'[g].path] # NULL
    <3>1. SUFFICES ASSUME NEW g \in Fd, opened'[g] # NULL PROVE content'[opened'[g].path] # NULL
      OBVIOUS
    <3>2. CASE g = FreeFd
      BY <1>5, <3>2
    <3>3. CASE g # FreeFd
      <4>1. opened'[g] = opened[g] /\ opened[g] # NULL /\ opened[g].path \in Path
        BY <1>1, <1>5, <3>1, <3>3 DEF TypeOK, Description
      <4>2. content[opened[g].path] # NULL
        BY <1>1, <4>1 DEF OpenedInv
      <4>3. QED
        BY <1>5, <4>1, <4>2
    <3>4. QED
      BY <3>2, <3>3
  <2>2. d # NULL /\ 1 \in Fd /\ 2 \in Fd
    BY <1>3, Constants DEF Fd
  <2>3. CASE pc = "open"
    <3>1. opened'[1] = d /\ opened'[2] = opened[2] /\ p = "src" /\ f = Flags(options)
      BY <1>2, <1>5, <2>2, <2>3
    <3>2. opened[2] = NULL
      BY <1>1, <2>3 DEF OpenedInv, SecondOpen
    <3>3. QED
      BY <1>4, <2>1, <2>2, <2>3, <3>1, <3>2 DEF OpenedInv, FirstOpen, SecondOpen
  <2>4. CASE pc = "dest"
    <3>1. opened'[2] = d /\ opened'[1] = opened[1] /\ p = destPath /\ f = {"CREAT", "WRONLY"}
      BY <1>2, <1>5, <2>2, <2>4
    <3>2. program = "cp" /\ opened[1] # NULL /\ opened[1].path = "src" /\ opened[1].flags = Flags(options)
      BY <1>1, <2>4 DEF OpenedInv, FirstOpen, ProgramInv
    <3>3. QED
      BY <1>4, <2>1, <2>2, <2>4, <3>1, <3>2 DEF OpenedInv, FirstOpen, SecondOpen
  <2>5. QED
    BY <1>2, <2>3, <2>4
(* Without CREAT and TRUNC an open leaves the files alone.                 *)
<1>8. pc = "open" /\ program # "share" => content' = content /\ content["src"] # NULL /\ ReadPos' = 0
  <2>1. SUFFICES ASSUME pc = "open", program # "share"
                 PROVE  content' = content /\ content["src"] # NULL /\ ReadPos' = 0
    OBVIOUS
  <2>2. f = {} /\ p = "src" /\ FreeFd = 1
    BY <1>1, <1>2, <2>1, MadeRequests DEF ProgramInv
  <2>3. content[p] # NULL /\ file = content[p]
    BY <1>1, <2>2 DEF file
  <2>4. content' = content
    BY <1>1, <1>3, <2>3 DEF TypeOK
  <2>5. QED
    BY <1>5, <2>2, <2>3, <2>4 DEF ReadPos
<1>9. CopyInv'
  <2>1. SUFFICES ASSUME program = "cp" PROVE CopyInv'
    BY <1>4 DEF CopyInv
  <2>2. CASE pc = "open"
    BY <1>1, <1>4, <1>8, <2>1, <2>2 DEF CopyInv, SourceIntact, Source
  <2>3. CASE pc = "dest"
    <3>1. p = destPath /\ f = {"CREAT", "WRONLY"} /\ FreeFd = 2 /\ content = origin /\ Source # NULL /\ ReadPos = 0
      BY <1>1, <1>2, <2>1, <2>3 DEF CopyInv
    <3>2. file = Old
      BY <3>1 DEF file, Old
    <3>3. content' = [origin EXCEPT ![destPath] = Old]
      BY <1>1, <3>1, <3>2
    <3>4. ReadPos' = 0 /\ WritePos' = 0
      BY <1>5, <3>1 DEF ReadPos, WritePos, Fd
    <3>5. content'["src"] = origin["src"]
      BY <1>1, <3>1, <3>3 DEF TypeOK, Old, Source, Path
    <3>6. QED
      BY <1>4, <2>3, <3>1, <3>3, <3>4, <3>5 DEF CopyInv, SourceIntact
  <2>4. QED
    BY <1>2, <2>2, <2>3
<1>10. CatInv'
  <2>1. SUFFICES ASSUME program = "cat" PROVE CatInv'
    BY <1>4 DEF CatInv
  <2>2. pc = "open"
    BY <1>1, <1>2, <2>1 DEF ProgramInv
  <2>3. ValidUtf8(out)' <=> ValidUtf8(out)
    BY <1>4 DEF ValidUtf8
  <2>4. Source # NULL
    BY <1>1, <1>8, <2>1, <2>2 DEF CatInv, Source
  <2>5. QED
    BY <1>1, <1>4, <1>8, <2>1, <2>2, <2>3, <2>4 DEF CatInv
<1>11. QED
  BY <1>4, <1>6, <1>7, <1>9, <1>10 DEF IInv

(* A part that may lie behind the end of the file is empty there.          *)
LEMMA Chunk ==
  ASSUME NEW file \in Content, NEW start \in Nat, NEW n \in Nat,
         n = 0 \/ start + n <= Len(file)
  PROVE  /\ SubSeq(file, start + 1, start + n) \in Content
         /\ Len(SubSeq(file, start + 1, start + n)) = n
<1>1. CASE n = 0
  <2>1. SubSeq(file, start + 1, start + n) = <<>>
    BY <1>1, SubSeqEmpty, start + 0 = start, start < start + 1
  <2>2. QED
    BY <1>1, <2>1, Empty
<1>2. CASE start + n <= Len(file)
  <2>1. start <= start + n /\ start + n \in Nat /\ (start + n) - start = n
    OBVIOUS
  <2>2. QED
    BY <1>2, <2>1, Parts
<1>3. QED
  BY <1>1, <1>2

(* How much a read may return.                                             *)
Available(file, start) == IF start >= Len(file) THEN 0 ELSE Len(file) - start
AtMost(len, available) == IF len < available THEN len ELSE available

LEMMA ReadAmounts ==
  ASSUME NEW file \in Content, NEW start \in Nat,
         NEW n \in Amounts(AtMost(BufLen, Available(file, start)))
  PROVE  /\ n \in Nat /\ n <= BufLen
         /\ n = 0 \/ start + n <= Len(file)
         /\ start <= Len(file) => start + n <= Len(file)
         /\ start <= Len(file) /\ ~(n < AtMost(BufLen, Available(file, start))) /\ n < BufLen
              => start + n = Len(file)
<1>1. Len(file) \in Nat /\ BufLen \in Nat \ {0}
  BY BufLenAssumption DEF Content
<1>2. PICK l \in Nat : l = Len(file)
  BY <1>1
<1>3. PICK a \in Nat : a = IF start >= l THEN 0 ELSE l - start
  <2>1. (IF start >= l THEN 0 ELSE l - start) \in Nat
    OBVIOUS
  <2>2. QED
    BY <2>1
<1>4. PICK m \in Nat : m = IF BufLen < a THEN BufLen ELSE a
  BY <1>1, <1>3
<1>5. m = AtMost(BufLen, Available(file, start))
  BY <1>2, <1>3, <1>4 DEF AtMost, Available
<1>6. n \in 0..m
  <2>1. n \in Amounts(m)
    BY <1>5
  <2>2. QED
    BY <1>4, <2>1 DEF Amounts
<1>7. /\ n \in Nat /\ n <= BufLen
      /\ n = 0 \/ start + n <= l
      /\ start <= l => start + n <= l
      /\ start <= l /\ ~(n < m) /\ n < BufLen => start + n = l
  BY <1>1, <1>3, <1>4, <1>6
<1>8. QED
  BY <1>2, <1>5, <1>7

LEMMA ReadResult ==
  ASSUME IInv, NEW t \in Task, ReadDone(t)
  PROVE  LET fd == req[t].fd
             file == content[opened[fd].path]
             start == IF req[t].off = Position THEN opened[fd].pos ELSE req[t].off
         IN
         /\ fd \in Fd /\ opened[fd] # NULL /\ file \in Content /\ start \in Nat
         /\ UNCHANGED content /\ faults \subseteq faults' /\ faults' \subseteq faults \cup {"short read"}
         /\ \E n \in Nat :
              /\ n <= BufLen
              /\ opened' = IF req[t].off = Position THEN [opened EXCEPT ![fd].pos = start + n] ELSE opened
              /\ Returns(t, [bytes |-> SubSeq(file, start + 1, start + n)])
              /\ SubSeq(file, start + 1, start + n) \in Content
              /\ Len(SubSeq(file, start + 1, start + n)) = n
              /\ start <= Len(file) => start + n <= Len(file)
              /\ start <= Len(file) /\ "short read" \notin faults' /\ n < BufLen => start + n = Len(file)
<1> DEFINE fd == req[t].fd
           file == content[opened[fd].path]
           start == IF req[t].off = Position THEN opened[fd].pos ELSE req[t].off
           most == AtMost(BufLen, Available(file, start))
<1>1. /\ TypeOK /\ OpenedInv /\ Is(t, "read") /\ opened[fd] # NULL
  BY DEF IInv, ReadDone, Readable
<1>2. fd \in Fd /\ req[t].off \in 0..Position /\ req[t].len = BufLen
  BY <1>1, Requests
<1>3. opened[fd] \in Description
  BY <1>1, <1>2 DEF TypeOK
<1>4. file \in Content
  <2>1. opened[fd].path \in Path
    BY <1>3 DEF Description
  <2>2. content[opened[fd].path] # NULL
    BY <1>1, <1>2 DEF OpenedInv
  <2>3. QED
    BY <1>1, <2>1, <2>2 DEF TypeOK
<1>5. start \in Nat
  <2>1. opened[fd].pos \in Nat
    BY <1>3 DEF Description
  <2>2. req[t].off \in Nat
    BY <1>2, Constants
  <2>3. QED
    BY <2>1, <2>2
<1>6. UNCHANGED content /\ \E n \in Amounts(most) :
        /\ faults' = faults \cup IF n < most THEN {"short read"} ELSE {}
        /\ opened' = IF req[t].off = Position THEN [opened EXCEPT ![fd].pos = start + n] ELSE opened
        /\ Returns(t, [bytes |-> SubSeq(file, start + 1, start + n)])
  BY <1>2 DEF ReadDone, AtMost, Available
<1> HIDE DEF fd, file, start, most
<1>7. PICK n \in Amounts(most) :
        /\ faults' = faults \cup IF n < most THEN {"short read"} ELSE {}
        /\ opened' = IF req[t].off = Position THEN [opened EXCEPT ![fd].pos = start + n] ELSE opened
        /\ Returns(t, [bytes |-> SubSeq(file, start + 1, start + n)])
  BY <1>6
<1>8. /\ n \in Nat /\ n <= BufLen
      /\ n = 0 \/ start + n <= Len(file)
      /\ start <= Len(file) => start + n <= Len(file)
      /\ start <= Len(file) /\ ~(n < most) /\ n < BufLen => start + n = Len(file)
  BY <1>4, <1>5, ReadAmounts DEF most
<1>9. SubSeq(file, start + 1, start + n) \in Content /\ Len(SubSeq(file, start + 1, start + n)) = n
  BY <1>4, <1>5, <1>8, Chunk
<1>10. /\ faults \subseteq faults' /\ faults' \subseteq faults \cup {"short read"}
       /\ "short read" \notin faults' => ~(n < most)
  BY <1>7
<1>11. QED
  <2>1. fd \in Fd /\ opened[fd] # NULL /\ file \in Content /\ start \in Nat /\ UNCHANGED content
    BY <1>1, <1>2, <1>4, <1>5, <1>6
  <2>2. start <= Len(file) /\ "short read" \notin faults' /\ n < BufLen => start + n = Len(file)
    BY <1>8, <1>10
  <2>3. QED
    BY <1>7, <1>8, <1>9, <1>10, <2>1, <2>2 DEF fd, file, start

(* A position moves, or none does.                                         *)
LEMMA Moved ==
  ASSUME TypeOK, NEW fd \in Fd, opened[fd] # NULL, NEW q \in Nat,
         opened' = [opened EXCEPT ![fd].pos = q] \/ opened' = opened
  PROVE  /\ opened' \in [Fd -> Description \cup {NULL}]
         /\ \A g \in Fd : /\ opened'[g] = NULL <=> opened[g] = NULL
                          /\ opened[g] # NULL => /\ opened'[g].path = opened[g].path
                                                 /\ opened'[g].flags = opened[g].flags
         /\ opened' = [opened EXCEPT ![fd].pos = q] =>
              opened'[fd].pos = q /\ \A g \in Fd : g # fd => opened'[g] = opened[g]
<1>1. opened \in [Fd -> Description \cup {NULL}] /\ opened[fd] \in Description
  BY DEF TypeOK
<1>2. CASE opened' = opened
  <2>1. ASSUME opened' = [opened EXCEPT ![fd].pos = q]
        PROVE  opened'[fd].pos = q /\ \A g \in Fd : g # fd => opened'[g] = opened[g]
    BY <1>1, <2>1 DEF Description
  <2>2. QED
    BY <1>1, <1>2, <2>1
<1>3. CASE opened' = [opened EXCEPT ![fd].pos = q]
  <2>1. opened' = [opened EXCEPT ![fd] = [opened[fd] EXCEPT !.pos = q]]
    BY <1>3
  <2>2. /\ [opened[fd] EXCEPT !.pos = q] \in Description
        /\ [opened[fd] EXCEPT !.pos = q].pos = q
        /\ [opened[fd] EXCEPT !.pos = q].path = opened[fd].path
        /\ [opened[fd] EXCEPT !.pos = q].flags = opened[fd].flags
    BY <1>1 DEF Description
  <2>3. \A g \in Fd : opened'[g] = IF g = fd THEN [opened[fd] EXCEPT !.pos = q] ELSE opened[g]
    BY <1>1, <2>1
  <2>4. opened' \in [Fd -> Description \cup {NULL}]
    BY <1>1, <2>1, <2>2
  <2>5. QED
    BY <2>2, <2>3, <2>4, Constants
<1>4. QED
  BY <1>2, <1>3

(* Reads and writes leave open what is open.                               *)
LEMMA StaysOpen ==
  ASSUME TypeOK, OpenedInv, pc \in {"read", "write", "share", "panicked"},
         UNCHANGED <<program, destPath, options, pc>>,
         \A q \in Path : content[q] # NULL => content'[q] # NULL,
         \A g \in Fd : /\ opened'[g] = NULL <=> opened[g] = NULL
                       /\ opened[g] # NULL => /\ opened'[g].path = opened[g].path
                                              /\ opened'[g].flags = opened[g].flags
  PROVE  OpenedInv'
<1>1. 1 \in Fd /\ 2 \in Fd
  BY DEF Fd
<1>2. \A g \in Fd : opened'[g] # NULL => content'[opened'[g].path] # NULL
  <2>1. \A g \in Fd : opened[g] # NULL => opened[g].path \in Path
    BY DEF TypeOK, Description
  <2>2. QED
    BY <2>1 DEF OpenedInv
<1>3. QED
  BY <1>1, <1>2 DEF OpenedInv, FirstOpen, SecondOpen

LEMMA ReadDoneStep ==
  ASSUME IInv, NEW t \in Task, ReadDone(t)
  PROVE  IInv'
<1> DEFINE fd == req[t].fd
           file == content[opened[fd].path]
           start == IF req[t].off = Position THEN opened[fd].pos ELSE req[t].off
<1>1. /\ TypeOK /\ RequestInv /\ ProgramInv /\ OpenedInv /\ CopyInv /\ CatInv
      /\ Is(t, "read") /\ req[t] # NULL
  BY DEF IInv, ReadDone, Is
<1>2. /\ fd \in Fd /\ opened[fd] # NULL /\ file \in Content /\ start \in Nat
      /\ UNCHANGED content /\ faults \subseteq faults' /\ faults' \subseteq faults \cup {"short read"}
  BY ReadResult
<1>3. PICK n \in Nat :
        /\ n <= BufLen
        /\ opened' = IF req[t].off = Position THEN [opened EXCEPT ![fd].pos = start + n] ELSE opened
        /\ Returns(t, [bytes |-> SubSeq(file, start + 1, start + n)])
        /\ SubSeq(file, start + 1, start + n) \in Content
        /\ Len(SubSeq(file, start + 1, start + n)) = n
        /\ start <= Len(file) => start + n <= Len(file)
        /\ start <= Len(file) /\ "short read" \notin faults' /\ n < BufLen => start + n = Len(file)
  BY ReadResult
<1> DEFINE bytes == SubSeq(file, start + 1, start + n)
<1> HIDE DEF fd, start, file
<1>4. start + n \in Nat
  <2>1. start \in Nat
    BY <1>2
  <2>2. QED
    BY <2>1
<1>5. /\ opened' \in [Fd -> Description \cup {NULL}]
      /\ \A g \in Fd : /\ opened'[g] = NULL <=> opened[g] = NULL
                       /\ opened[g] # NULL => /\ opened'[g].path = opened[g].path
                                              /\ opened'[g].flags = opened[g].flags
      /\ req[t].off = Position =>
           opened'[fd].pos = start + n /\ \A g \in Fd : g # fd => opened'[g] = opened[g]
  BY <1>1, <1>2, <1>3, <1>4, Moved
<1>6. /\ TypeOK' /\ RequestInv' /\ (Failed' => "error" \in faults')
      /\ UNCHANGED <<program, destPath, options, origin, pc, read, out, ops, Source, Old>>
      /\ t = Main => Completed' /\ ret'[Main] = [bytes |-> bytes]
  <2>1. /\ content' \in [Path -> Content \cup {NULL}]
        /\ faults' \subseteq {"short read", "short write", "error"}
    BY <1>1, <1>2 DEF TypeOK
  <2>2. [bytes |-> bytes] \in Result /\ "error" \notin DOMAIN [bytes |-> bytes]
    BY <1>3, Results
  <2>3. QED
    BY <1>1, <1>2, <1>3, <1>5, <2>1, <2>2, Answered
<1>7. \/ pc \in {"share", "panicked"} /\ program = "share"
      \/ /\ t = Main /\ ~Completed /\ pc = "read" /\ program \in {"cp", "cat"}
         /\ fd = 1 /\ req[t].off = Position
  BY <1>1, Asked DEF Read, fd, ProgramInv
<1>8. OpenedInv'
  BY <1>1, <1>2, <1>5, <1>6, <1>7, StaysOpen
<1>9. CASE pc \in {"share", "panicked"} /\ program = "share"
  <2>1. ProgramInv' /\ CopyInv' /\ CatInv'
    BY <1>1, <1>6, <1>9 DEF ProgramInv, CopyInv, CatInv
  <2>2. QED
    BY <1>6, <1>8, <2>1 DEF IInv
<1>10. CASE /\ t = Main /\ ~Completed /\ pc = "read" /\ program \in {"cp", "cat"}
            /\ fd = 1 /\ req[t].off = Position
  <2>1. Completed' /\ Bytes' = bytes /\ ret'[Main] = [bytes |-> bytes]
    BY <1>6, <1>10 DEF Bytes
  <2>2. ProgramInv'
    <3>1. bytes \in Content /\ Len(bytes) <= BufLen
      BY <1>3
    <3> HIDE DEF bytes
    <3>2. ret'[Main] \in [bytes : Content] /\ Len(Bytes') <= BufLen
      BY <2>1, <3>1
    <3>3. QED
      BY <1>1, <1>6, <1>10, <3>2 DEF ProgramInv
  <2>3. /\ file = content["src"] /\ start = ReadPos /\ ReadPos' = ReadPos + n
        /\ WritePos' = WritePos /\ ReadPos \in Nat
    <3>1. opened[1].path = "src"
      BY <1>1, <1>10 DEF OpenedInv, FirstOpen
    <3>2. file = content["src"] /\ start = ReadPos
      BY <1>10, <3>1 DEF file, start, ReadPos
    <3>3. ReadPos' = ReadPos + n /\ WritePos' = WritePos
      BY <1>5, <1>10, <3>2 DEF ReadPos, WritePos, Fd
    <3>4. QED
      BY <1>2, <3>2, <3>3
  (* The bytes are the next ones of the source.                            *)
  <2>4. ASSUME content["src"] = Source, ReadPos <= Len(Source)
        PROVE  /\ bytes = SubSeq(Source, ReadPos + 1, ReadPos')
               /\ ReadPos' <= Len(Source) /\ ReadPos' \in Nat /\ ReadPos <= ReadPos'
               /\ Len(bytes) < BufLen => ReadAll'
    <3>1. bytes = SubSeq(Source, ReadPos + 1, ReadPos')
      BY <2>3, <2>4
    <3>2. ReadPos' <= Len(Source)
      BY <1>3, <2>3, <2>4
    <3>3. ReadPos' \in Nat /\ ReadPos <= ReadPos'
      BY <2>3
    <3>4. n < BufLen /\ "short read" \notin faults' => ReadPos' = Len(Source)
      BY <1>3, <2>3, <2>4
    <3>5. Len(bytes) < BufLen => ReadAll'
      BY <1>3, <1>6, <3>4 DEF ReadAll
    <3>6. QED
      BY <3>1, <3>2, <3>3, <3>5
  <2> HIDE DEF bytes
  <2>5. CopyInv'
    <3>1. SUFFICES ASSUME program = "cp" PROVE CopyInv'
      BY <1>6 DEF CopyInv
    <3>2. ASSUME "short write" \notin faults' PROVE CopyProgress'
      <4>1. CopyProgress /\ content["src"] = Source /\ "short write" \notin faults
        BY <1>1, <1>2, <1>10, <3>1, <3>2 DEF CopyInv, SourceIntact, Source
      <4>2. ReadPos <= Len(Source) /\ ReadPos = WritePos
        BY <1>10, <4>1 DEF CopyProgress
      <4>3. /\ bytes = SubSeq(Source, ReadPos + 1, ReadPos')
            /\ ReadPos' <= Len(Source) /\ ReadPos <= ReadPos'
            /\ Len(bytes) < BufLen => ReadAll'
        BY <2>4, <4>1, <4>2
      <4>4. WritePos' <= ReadPos' /\ ReadPos' <= Len(Source') /\ Bytes' = SubSeq(Source', WritePos' + 1, ReadPos')
        BY <1>6, <2>1, <2>3, <4>2, <4>3
      <4>5. content'[destPath'] = Overwritten(Old', 0, SubSeq(Source', 1, WritePos'))
        BY <1>2, <1>6, <2>3, <4>1 DEF CopyProgress
      <4>6. QED
        BY <1>6, <1>10, <2>1, <4>3, <4>4, <4>5 DEF CopyProgress
    <3>3. SourceIntact'
      BY <1>1, <1>2, <1>6, <3>1 DEF CopyInv, SourceIntact
    <3>4. QED
      BY <1>1, <1>6, <1>10, <3>1, <3>2, <3>3 DEF CopyInv
  <2>6. CatInv'
    <3>1. SUFFICES ASSUME program = "cat" PROVE CatInv'
      BY <1>6 DEF CatInv
    <3>2. /\ content["src"] = Source /\ Source # NULL /\ CatProgress
      BY <1>1, <1>10, <3>1 DEF CatInv, Source
    <3>3. ReadPos <= Len(Source) /\ ReadPos = Len(out)
      BY <1>10, <3>2 DEF CatProgress
    <3>4. /\ bytes = SubSeq(Source, ReadPos + 1, ReadPos')
          /\ ReadPos' <= Len(Source) /\ ReadPos <= ReadPos'
          /\ Len(bytes) < BufLen => ReadAll'
      BY <2>4, <3>2, <3>3
    <3>5. FullBuffers' <=> FullBuffers
      BY <1>6 DEF FullBuffers
    <3>6. CatProgress'
      BY <1>2, <1>6, <2>1, <3>2, <3>3, <3>4, <3>5 DEF CatProgress
    <3>7. ValidUtf8(out)' <=> ValidUtf8(out)
      BY <1>6 DEF ValidUtf8
    <3>8. QED
      BY <1>1, <1>2, <1>6, <1>10, <3>1, <3>2, <3>6, <3>7 DEF CatInv
  <2>7. QED
    BY <1>6, <1>8, <2>2, <2>5, <2>6 DEF IInv
<1>11. QED
  BY <1>7, <1>9, <1>10

(* What a write of n bytes makes of a file.                                *)
Written(file, start, bytes, n) ==
  IF n = 0 THEN file ELSE Overwritten(file, start, SubSeq(bytes, 1, n))

LEMMA WrittenIs ==
  ASSUME NEW file \in Content, NEW start \in Nat, NEW bytes \in Content, NEW n \in Nat, n <= Len(bytes)
  PROVE  /\ Written(file, start, bytes, n) \in Content
         /\ start = Len(file) => IsPrefix(file, Written(file, start, bytes, n))
<1>1. SubSeq(bytes, 1, n) \in Content
  BY Beginnings
<1>2. PICK b \in Content : b = SubSeq(bytes, 1, n)
  BY <1>1
<1>3. Overwritten(file, start, b) \in Content
  BY OverwrittenIs
<1>4. IsPrefix(file, file) /\ IsPrefix(file, Overwritten(file, Len(file), b))
  BY AppendPrefix
<1>5. QED
  BY <1>2, <1>3, <1>4 DEF Written

LEMMA WriteResult ==
  ASSUME IInv, NEW t \in Task, WriteDone(t)
  PROVE  LET fd == req[t].fd
             path == opened[fd].path
             start == IF "APPEND" \in opened[fd].flags THEN Len(content[path])
                      ELSE IF req[t].off = Position THEN opened[fd].pos ELSE req[t].off
         IN
         /\ fd \in Fd /\ opened[fd] # NULL /\ path \in Path /\ content[path] \in Content /\ start \in Nat
         /\ req[t].bytes \in Content
         /\ faults \subseteq faults' /\ faults' \subseteq faults \cup {"short write"}
         /\ \E n \in Nat :
              /\ n <= Len(req[t].bytes)
              /\ "short write" \notin faults' => n = Len(req[t].bytes)
              /\ content' = [content EXCEPT ![path] = Written(content[path], start, req[t].bytes, n)]
              /\ opened' = IF req[t].off = Position THEN [opened EXCEPT ![fd].pos = start + n] ELSE opened
              /\ Returns(t, [n |-> n])
<1> DEFINE fd == req[t].fd
           path == opened[fd].path
           file == content[path]
           bytes == req[t].bytes
           start == IF "APPEND" \in opened[fd].flags THEN Len(content[path])
                    ELSE IF req[t].off = Position THEN opened[fd].pos ELSE req[t].off
<1>1. /\ TypeOK /\ OpenedInv /\ Is(t, "write") /\ opened[fd] # NULL
  BY DEF IInv, WriteDone, Writable
<1>2. fd \in Fd /\ req[t].off \in 0..Position /\ bytes \in Content
  BY <1>1, Requests
<1>3. opened[fd] \in Description
  BY <1>1, <1>2 DEF TypeOK
<1>4. path \in Path /\ file \in Content
  <2>1. path \in Path
    BY <1>3 DEF Description
  <2>2. file # NULL
    BY <1>1, <1>2 DEF OpenedInv
  <2>3. QED
    BY <1>1, <2>1, <2>2 DEF TypeOK
<1>5. start \in Nat
  <2>1. opened[fd].pos \in Nat
    BY <1>3 DEF Description
  <2>2. req[t].off \in Nat
    BY <1>2, Constants
  <2>3. Len(file) \in Nat
    BY <1>4 DEF Content
  <2>4. QED
    BY <2>1, <2>2, <2>3
<1>6. \E n \in Amounts(Len(bytes)) :
        /\ faults' = faults \cup IF n < Len(bytes) THEN {"short write"} ELSE {}
        /\ content' = IF n = 0 THEN content
                      ELSE [content EXCEPT ![path] = Overwritten(@, start, SubSeq(bytes, 1, n))]
        /\ opened' = IF req[t].off = Position THEN [opened EXCEPT ![fd].pos = start + n] ELSE opened
        /\ Returns(t, [n |-> n])
  BY DEF WriteDone
<1> HIDE DEF fd, path, file, bytes, start
<1>7. PICK n \in Amounts(Len(bytes)) :
        /\ faults' = faults \cup IF n < Len(bytes) THEN {"short write"} ELSE {}
        /\ content' = IF n = 0 THEN content
                      ELSE [content EXCEPT ![path] = Overwritten(@, start, SubSeq(bytes, 1, n))]
        /\ opened' = IF req[t].off = Position THEN [opened EXCEPT ![fd].pos = start + n] ELSE opened
        /\ Returns(t, [n |-> n])
  BY <1>6
<1>8. n \in Nat /\ n <= Len(bytes) /\ (~(n < Len(bytes)) => n = Len(bytes))
  <2>1. PICK l \in Nat : l = Len(bytes)
    BY <1>2 DEF Content
  <2>2. n \in 0..l
    <3>1. n \in Amounts(l)
      BY <2>1
    <3>2. QED
      BY <2>1, <3>1 DEF Amounts
  <2>3. n \in Nat /\ n <= l /\ (~(n < l) => n = l)
    BY <2>1, <2>2
  <2>4. QED
    BY <2>1, <2>3
<1>9. content' = [content EXCEPT ![path] = Written(content[path], start, bytes, n)]
  <2>1. CASE n = 0
    <3>1. Written(content[path], start, bytes, n) = content[path] /\ content' = content
      BY <1>7, <2>1 DEF Written
    <3>2. QED
      BY <1>1, <1>4, <3>1 DEF TypeOK
  <2>2. CASE n # 0
    BY <1>7, <2>2 DEF Written
  <2>3. QED
    BY <2>1, <2>2
<1>10. /\ faults \subseteq faults' /\ faults' \subseteq faults \cup {"short write"}
       /\ "short write" \notin faults' => ~(n < Len(bytes))
  BY <1>7
<1>11. QED
  <2>1. "short write" \notin faults' => n = Len(bytes)
    BY <1>8, <1>10
  <2>2. opened[fd] # NULL /\ fd \in Fd /\ path \in Path /\ content[path] \in Content /\ start \in Nat
    BY <1>1, <1>2, <1>4, <1>5 DEF file
  <2>3. QED
    BY <1>2, <1>7, <1>8, <1>9, <1>10, <2>1, <2>2 DEF fd, path, bytes, start

LEMMA WriteDoneStep ==
  ASSUME IInv, NEW t \in Task, WriteDone(t)
  PROVE  IInv'
<1> DEFINE fd == req[t].fd
           path == opened[fd].path
           bytes == req[t].bytes
           start == IF "APPEND" \in opened[fd].flags THEN Len(content[path])
                    ELSE IF req[t].off = Position THEN opened[fd].pos ELSE req[t].off
<1>1. /\ TypeOK /\ RequestInv /\ ProgramInv /\ OpenedInv /\ CopyInv /\ CatInv
      /\ Is(t, "write") /\ req[t] # NULL
  BY DEF IInv, WriteDone, Is
<1>2. /\ fd \in Fd /\ opened[fd] # NULL /\ path \in Path /\ content[path] \in Content /\ start \in Nat
      /\ bytes \in Content
      /\ faults \subseteq faults' /\ faults' \subseteq faults \cup {"short write"}
  BY WriteResult
<1>3. PICK n \in Nat :
        /\ n <= Len(bytes)
        /\ "short write" \notin faults' => n = Len(bytes)
        /\ content' = [content EXCEPT ![path] = Written(content[path], start, bytes, n)]
        /\ opened' = IF req[t].off = Position THEN [opened EXCEPT ![fd].pos = start + n] ELSE opened
        /\ Returns(t, [n |-> n])
  BY WriteResult
<1> HIDE DEF fd, path, start, bytes
<1>4. start + n \in Nat
  <2>1. start \in Nat
    BY <1>2
  <2>2. QED
    BY <2>1
<1>5. /\ opened' \in [Fd -> Description \cup {NULL}]
      /\ \A g \in Fd : /\ opened'[g] = NULL <=> opened[g] = NULL
                       /\ opened[g] # NULL => /\ opened'[g].path = opened[g].path
                                              /\ opened'[g].flags = opened[g].flags
      /\ req[t].off = Position =>
           opened'[fd].pos = start + n /\ \A g \in Fd : g # fd => opened'[g] = opened[g]
  BY <1>1, <1>2, <1>3, <1>4, Moved
<1>6. /\ Written(content[path], start, bytes, n) \in Content
      /\ content' \in [Path -> Content \cup {NULL}]
      /\ content'[path] = Written(content[path], start, bytes, n)
      /\ \A q \in Path : q # path => content'[q] = content[q]
      /\ \A q \in Path : content[q] # NULL => content'[q] # NULL
  <2>1. Written(content[path], start, bytes, n) \in Content
    BY <1>2, <1>3, WrittenIs
  <2>2. QED
    BY <1>1, <1>2, <1>3, <2>1, Constants DEF TypeOK
<1>7. /\ TypeOK' /\ RequestInv' /\ (Failed' => "error" \in faults')
      /\ UNCHANGED <<program, destPath, options, origin, pc, read, out, ops, Source, Old>>
      /\ t = Main => Completed' /\ req'[Main] = NULL
  <2>1. faults' \subseteq {"short read", "short write", "error"}
    BY <1>1, <1>2 DEF TypeOK
  <2>2. [n |-> n] \in Result /\ "error" \notin DOMAIN [n |-> n]
    BY Results
  <2>3. QED
    BY <1>1, <1>2, <1>3, <1>5, <1>6, <2>1, <2>2, Answered
<1>8. \/ pc \in {"share", "panicked"} /\ program = "share"
      \/ /\ t = Main /\ ~Completed /\ pc = "write" /\ program = "cp"
         /\ fd = 2 /\ req[t].off = Position
  <2>1. \A b : Write(2, b).fd = 2 /\ Write(2, b).off = Position
    BY DEF Write
  <2>2. \/ pc \in {"share", "panicked"} /\ program = "share"
        \/ /\ t = Main /\ ~Completed /\ pc = "write"
           /\ \E b : req[t] = Write(2, b)
    BY <1>1, Asked
  <2>3. (\E b : req[t] = Write(2, b)) => fd = 2 /\ req[t].off = Position
    BY <2>1 DEF fd
  <2>4. QED
    BY <1>1, <2>2, <2>3 DEF ProgramInv
<1>9. OpenedInv'
  BY <1>1, <1>2, <1>5, <1>6, <1>7, <1>8, StaysOpen
<1>10. ProgramInv'
  BY <1>1, <1>7, <1>8 DEF ProgramInv
<1>11. CASE pc \in {"share", "panicked"} /\ program = "share"
  <2>1. CopyInv' /\ CatInv'
    BY <1>7, <1>11 DEF CopyInv, CatInv
  <2>2. QED
    BY <1>7, <1>9, <1>10, <2>1 DEF IInv
<1>12. CASE /\ t = Main /\ ~Completed /\ pc = "write" /\ program = "cp"
            /\ fd = 2 /\ req[t].off = Position
  <2>1. /\ path = destPath /\ start = WritePos /\ WritePos' = WritePos + n /\ ReadPos' = ReadPos
        /\ ReadPos \in Nat /\ WritePos \in Nat
    <3>1. opened[2] # NULL /\ opened[2].path = destPath /\ opened[2].flags = {"CREAT", "WRONLY"}
      BY <1>1, <1>12 DEF OpenedInv, SecondOpen
    <3>2. path = destPath /\ start = WritePos
      BY <1>12, <3>1 DEF path, start, WritePos
    <3>3. WritePos' = WritePos + n /\ ReadPos' = ReadPos
      BY <1>5, <1>12, <3>2 DEF ReadPos, WritePos, Fd
    <3>4. ReadPos \in Nat /\ WritePos \in Nat
      BY <1>1, <1>12, Positions DEF FirstOpen, SecondOpen
    <3>5. QED
      BY <3>2, <3>3, <3>4
  <2>2. Source \in Content /\ Len(Source) \in Nat /\ Old \in Content /\ Source # NULL
    BY <1>1, <1>12, Sources DEF CopyInv
  <2>3. ASSUME "short write" \notin faults'
        PROVE  /\ CopyProgress /\ WritePos' = ReadPos /\ ReadPos <= Len(Source)
               /\ content'[destPath] = Overwritten(Old, 0, SubSeq(Source, 1, ReadPos))
    <3>1. CopyProgress
      BY <1>1, <1>2, <1>12, <2>3 DEF CopyInv
    <3>2. /\ WritePos <= ReadPos /\ ReadPos <= Len(Source)
          /\ content[destPath] = Overwritten(Old, 0, SubSeq(Source, 1, WritePos))
          /\ bytes = SubSeq(Source, WritePos + 1, ReadPos)
      BY <1>1, <1>12, <3>1 DEF CopyProgress, bytes
    <3>3. Len(bytes) = ReadPos - WritePos /\ n = Len(bytes)
      BY <1>3, <2>1, <2>2, <2>3, <3>2, Parts
    <3>4. WritePos' = ReadPos
      BY <2>1, <3>3
    <3>5. CASE n = 0
      <4>1. WritePos = ReadPos
        BY <2>1, <3>3, <3>5
      <4>2. content'[destPath] = content[destPath]
        BY <1>6, <2>1, <3>5 DEF Written
      <4>3. QED
        BY <3>1, <3>2, <3>4, <4>1, <4>2
    <3>6. CASE n # 0
      <4>1. SubSeq(bytes, 1, n) = bytes
        BY <1>2, <3>3, Whole
      <4>2. content'[destPath] = Overwritten(content[destPath], WritePos, bytes)
        BY <1>6, <2>1, <3>6, <4>1 DEF Written
      <4>3. content'[destPath] = Overwritten(Old, 0, SubSeq(Source, 1, ReadPos))
        BY <2>1, <2>2, <3>2, <4>2, OverwriteNext
      <4>4. QED
        BY <3>1, <3>2, <3>4, <4>3
    <3>7. QED
      BY <3>5, <3>6
  <2>4. SourceIntact'
    <3>1. CASE destPath # "src"
      BY <1>1, <1>6, <1>7, <1>12, <2>1, <3>1 DEF CopyInv, SourceIntact, Path
    <3>2. CASE destPath = "src" /\ "short write" \notin faults'
      <4>1. Old = Source
        BY <2>2, <3>2 DEF Old, Source
      <4>2. content'["src"] = Source
        BY <2>1, <2>2, <2>3, <3>2, <4>1, OverwriteSelf
      <4>3. QED
        BY <1>7, <4>2 DEF SourceIntact, Source
    <3>3. CASE destPath = "src" /\ "short write" \in faults'
      BY <1>7, <3>3 DEF SourceIntact
    <3>4. QED
      BY <3>1, <3>2, <3>3
  <2>5. ASSUME "short write" \notin faults' PROVE CopyProgress'
    <3>1. ReadPos <= ReadPos
      BY <2>1
    <3>2. LastChunk' => ReadAll'
      BY <1>2, <1>7, <1>12, <2>1, <2>3, <2>5 DEF CopyProgress, LastChunk, ReadAll
    <3>3. QED
      BY <1>7, <1>12, <2>1, <2>3, <2>5, <3>1, <3>2 DEF CopyProgress
  <2>6. CopyInv'
    BY <1>7, <1>12, <2>2, <2>4, <2>5 DEF CopyInv
  <2>7. CatInv'
    BY <1>7, <1>12 DEF CatInv
  <2>8. QED
    BY <1>7, <1>9, <1>10, <2>6, <2>7 DEF IInv
<1>13. QED
  BY <1>8, <1>11, <1>12

-----------------------------------------------------------------------------
(* The invariant.                                                          *)

(* A file as the program found it is a sequence of bytes.                  *)
LEMMA Found ==
  ASSUME NEW f, f \in [Path -> BoundedSeq(Byte, MaxSrc) \cup {NULL}]
  PROVE  f \in [Path -> Content \cup {NULL}]
<1>1. \A s \in BoundedSeq(Byte, MaxSrc) : s \in Content
  BY DEF BoundedSeq, SeqOf, Content
<1>2. QED
  BY <1>1

LEMMA InitStep == Init => IInv
<1> SUFFICES ASSUME Init PROVE IInv
  OBVIOUS
<1>1. /\ program \in Program /\ destPath \in Path /\ options \in OpenOptions
      /\ program # "cp" => destPath = "dest"
      /\ program # "share" => options = New
      /\ origin = content /\ pc = "open" /\ read = 0 /\ out = <<>> /\ ops = 0 /\ faults = {}
      /\ opened = [fd \in Fd |-> NULL]
      /\ req = [t \in Task |-> NULL] /\ ret = [t \in Task |-> NULL]
  BY DEF Init
<1>2. content \in [Path -> Content \cup {NULL}]
  BY Found DEF Init
<1>3. \A t \in Task : req[t] = NULL /\ ret[t] = NULL
  BY <1>1
<1>4. ~Completed /\ ~Failed
  BY <1>3, Constants DEF Completed, Failed
<1>5. TypeOK
  BY <1>1, <1>2, BufLenAssumption, FilesBoundsAssumption, Empty DEF TypeOK
<1>6. RequestInv
  BY <1>1, <1>3, Constants DEF RequestInv, Expects, Is
<1>7. ProgramInv /\ OpenedInv
  BY <1>1, <1>4 DEF ProgramInv, OpenedInv, FirstOpen, SecondOpen, Fd
<1>8. CopyInv
  BY <1>1, <1>4 DEF CopyInv, SourceIntact
<1>9. CatInv
  <2>1. ValidUtf8(out)
    BY <1>1 DEF ValidUtf8
  <2>2. Source # NULL => Len(out) <= Len(Source) /\ out = SubSeq(Source, 1, Len(out))
    BY <1>1, <1>5, Sources, Whole, Empty
  <2>3. QED
    BY <1>1, <1>4, <2>1, <2>2 DEF CatInv
<1>10. QED
  BY <1>5, <1>6, <1>7, <1>8, <1>9 DEF IInv

LEMMA NextStep == IInv /\ [Next]_vars => IInv'
<1> SUFFICES ASSUME IInv, [Next]_vars PROVE IInv'
  OBVIOUS
<1>1. CASE Programs
  <2>1. ASSUME NEW t \in Task, ShareSequential(t) PROVE IInv'
    BY <2>1, SharingStep
  <2>2. ASSUME NEW t \in Task, NEW o \in 0..Position, ShareAt(t, o) \/ ShareAtPanics(t, o) PROVE IInv'
    BY <2>2, SharingStep, ShareAtPanicsStep
  <2>3. QED
    BY <1>1, <2>1, <2>2, PanicsStep, OpenFirstStep, OpenedStep, DestOpenedStep,
       CpWritesStep, CpLoopsStep, CpClosesStep, CatPrintsStep, CatPanicsStep,
       CpClosesDestStep, EndsStep, ShareEndsStep DEF Programs
<1>2. CASE \E t \in Task : Kernel(t)
  BY <1>2, OpenDoneStep, ReadDoneStep, WriteDoneStep, CloseDoneStep, FailsStep DEF Kernel
<1>3. CASE UNCHANGED vars
  <2>1. UNCHANGED <<program, destPath, options, origin, pc, read, content, opened, req, ret, out, ops, faults>>
    BY <1>3 DEF vars, args
  <2>2. UNCHANGED <<Source, Old, ReadPos, WritePos, Completed, Failed, Bytes>>
    BY <2>1 DEF Source, Old, ReadPos, WritePos, Completed, Failed, Bytes
  <2>3. TypeOK' /\ RequestInv'
    BY <2>1, <2>2 DEF IInv, TypeOK, RequestInv, Is, Expects
  <2>4. ProgramInv'
    BY <2>1, <2>2 DEF IInv, ProgramInv
  <2>5. OpenedInv'
    BY <2>1, <2>2 DEF IInv, OpenedInv, FirstOpen, SecondOpen
  <2>6. CopyInv'
    BY <2>1, <2>2 DEF IInv, CopyInv, SourceIntact, CopyProgress, ReadAll, LastChunk
  <2>7. CatInv'
    BY <2>1, <2>2 DEF IInv, CatInv, CatProgress, ReadAll, FullBuffers, ValidUtf8
  <2>8. QED
    BY <2>3, <2>4, <2>5, <2>6, <2>7 DEF IInv
<1>4. QED
  BY <1>1, <1>2, <1>3 DEF Next

-----------------------------------------------------------------------------
(* The theorems.                                                           *)

(* The inductive invariant holds in every reachable state.                 *)
THEOREM Invariance == SafeSpec => []IInv
BY InitStep, NextStep, PTL DEF SafeSpec

(* Every variable keeps its type: the offset of a request is one that the  *)
(* kernel is given as a u64, for a negative one panics on its way          *)
(* (reika-reactor ops/io.rs:146-159, 206, 288), and what cat prints or a   *)
(* file holds is bytes.                                                    *)
THEOREM TypeCorrect == SafeSpec => []TypeOK
<1>1. IInv => TypeOK
  BY DEF IInv
<1>2. QED
  BY <1>1, Invariance, PTL

(* cp copies the source as far as it was read, in front of what the        *)
(* destination held, and leaves a file alone that it copies onto itself    *)
(* (examples/cp main.rs:8-25).                                             *)
THEOREM CopyIsFaithful == SafeSpec => []CopyFaithful
<1>1. IInv => CopyFaithful
  <2>1. SUFFICES ASSUME IInv, program = "cp"
                 PROVE  /\ SourceIntact
                        /\ Is(Main, "read") /\ "short write" \notin faults
                             => /\ opened[2].pos = opened[1].pos
                                /\ IsPrefix(SubSeq(origin["src"], 1, opened[1].pos), content[destPath])
                        /\ pc = "done" /\ faults = {} =>
                             /\ content[destPath] = Overwritten(Old, 0, origin["src"])
                             /\ opened = [fd \in Fd |-> NULL]
    BY DEF CopyFaithful, Old
  <2>2. TypeOK /\ OpenedInv /\ CopyInv
    BY <2>1 DEF IInv
  <2>3. ASSUME Is(Main, "read"), "short write" \notin faults
        PROVE  /\ WritePos = ReadPos
               /\ IsPrefix(SubSeq(Source, 1, ReadPos), content[destPath])
    <3>1. pc = "read" /\ ~Completed
      BY <2>1, <2>3, Asked, Constants
    <3>2. CopyProgress /\ Source # NULL
      BY <2>1, <2>2, <2>3, <3>1 DEF CopyInv
    <3>3. /\ ReadPos = WritePos /\ ReadPos <= Len(Source)
          /\ content[destPath] = Overwritten(Old, 0, SubSeq(Source, 1, ReadPos))
      BY <3>1, <3>2 DEF CopyProgress
    <3>4. ReadPos \in Nat /\ Source \in Content /\ Old \in Content
      BY <2>2, <3>1, <3>2, Positions, Sources DEF FirstOpen
    <3>5. SubSeq(Source, 1, ReadPos) \in Content
      BY <3>3, <3>4, Beginnings
    <3>6. IsPrefix(SubSeq(Source, 1, ReadPos), Overwritten(Old, 0, SubSeq(Source, 1, ReadPos)))
      BY <3>4, <3>5, OverwritePrefix
    <3>7. QED
      BY <3>3, <3>6
  <2>4. ASSUME pc = "done", faults = {}
        PROVE  /\ content[destPath] = Overwritten(Old, 0, Source)
               /\ opened = [fd \in Fd |-> NULL]
    <3>1. opened[1] = NULL /\ opened[2] = NULL
      BY <2>1, <2>2, <2>4 DEF OpenedInv
    <3>2. opened = [fd \in Fd |-> NULL]
      BY <2>2, <3>1 DEF TypeOK, Fd
    <3>3. QED
      BY <2>1, <2>2, <2>4, <3>2 DEF CopyInv
  <2>5. SourceIntact
    BY <2>1, <2>2 DEF CopyInv
  <2>6. QED
    BY <2>3, <2>4, <2>5 DEF Source, ReadPos, WritePos
<1>2. QED
  BY <1>1, Invariance, PTL

(* cat prints a beginning of the file, in whole characters, all of it if   *)
(* nothing fails, and panics on a text only where a buffer cuts a          *)
(* character (examples/cat main.rs:8-27).                                  *)
THEOREM CatIsFaithful == SafeSpec => []CatFaithful
<1>1. IInv => CatFaithful
  <2>1. SUFFICES ASSUME IInv, program = "cat"
                 PROVE  /\ out # <<>> => IsPrefix(out, Source) /\ ValidUtf8(out)
                        /\ pc = "done" /\ faults = {} => out = Source
                        /\ pc = "panicked" /\ faults = {} /\ ValidUtf8(Source)
                             => \E i \in DOMAIN Source : i % BufLen = 0 /\ Source[i] = "hi"
    BY DEF CatFaithful, Source
  <2>2. TypeOK /\ CatInv
    BY <2>1 DEF IInv
  <2>3. ASSUME out # <<>> PROVE IsPrefix(out, Source) /\ ValidUtf8(out)
    <3>1. ValidUtf8(out) /\ Len(out) <= Len(Source) /\ out = SubSeq(Source, 1, Len(out))
      BY <2>1, <2>2, <2>3 DEF CatInv
    <3>2. out \in Content
      BY <2>2, Sources
    <3>3. SubSeq(out, 1, Len(out)) = out
      BY <3>2, Whole
    <3>4. QED
      BY <3>1, <3>3 DEF IsPrefix
  <2>4. QED
    BY <2>1, <2>2, <2>3 DEF CatInv
<1>2. QED
  BY <1>1, Invariance, PTL

(* A program touches a file and a description through the kernel only.     *)
LEMMA ProgramsAsk ==
  ASSUME TypeOK, Programs
  PROVE  UNCHANGED <<content, opened>>
<1>1. \A t, r : Issues(t, r) => UNCHANGED <<content, opened>>
  BY DEF Issues
<1>2. \A where, r : Goes(where, r) => UNCHANGED <<content, opened>>
  BY <1>1 DEF Goes
<1>3. Panics \/ OpenFirst \/ DestOpened \/ CpWrites \/ CpLoops \/ CpCloses
        => UNCHANGED <<content, opened>>
  BY <1>2 DEF Panics, OpenFirst, DestOpened, CpWrites, CpLoops, CpCloses
<1>4. Opened => UNCHANGED <<content, opened>>
  BY <1>2 DEF Opened, TypeOK, Program
<1>5. CatPrints \/ CatPanics \/ CpClosesDest \/ Ends \/ ShareEnds
        => UNCHANGED <<content, opened>>
  BY <1>2 DEF CatPrints, CatPanics, CpClosesDest, Ends, ShareEnds
<1>6. \A t \in Task : ShareSequential(t) => UNCHANGED <<content, opened>>
  BY <1>1 DEF ShareSequential
<1>7. \A t \in Task, o \in 0..Position : ShareAt(t, o) \/ ShareAtPanics(t, o) => UNCHANGED <<content, opened>>
  BY <1>1 DEF ShareAt, ShareAtPanics
<1>8. QED
  BY <1>3, <1>4, <1>5, <1>6, <1>7 DEF Programs

(* The position moves by read and write only: no offset of read_at and     *)
(* write_at, whatever u64 the caller passes, is taken for u64::MAX         *)
(* (reika-reactor ops/io.rs:146-149, 156-159, 206, 288).                   *)
THEOREM OffsetsNeverMove == SafeSpec => OffsetNeverPosition
<1>1. IInv /\ [Next]_vars =>
        [\A t \in Task :
           (Is(t, "read") \/ Is(t, "write")) /\ req[t].at /\ req'[t] = NULL => opened' = opened]_vars
  <2>1. SUFFICES ASSUME IInv, Next, NEW t \in Task, Is(t, "read") \/ Is(t, "write"), req[t].at, req'[t] = NULL
                 PROVE  opened' = opened
    OBVIOUS
  <2>2. TypeOK /\ req[t] # NULL /\ req[t].off # Position
    BY <2>1 DEF IInv, RequestInv, Is
  <2>3. CASE Programs
    BY <2>2, <2>3, ProgramsAsk
  <2>4. ASSUME NEW u \in Task, Kernel(u) PROVE opened' = opened
    <3>1. CASE Fails(u)
      BY <3>1 DEF Fails
    <3>2. CASE OpenDone(u) \/ ReadDone(u) \/ WriteDone(u) \/ CloseDone(u)
      <4>1. \E result : Returns(u, result)
        BY <3>2 DEF OpenDone, ReadDone, WriteDone, CloseDone
      <4>2. u = t
        BY <2>1, <2>2, <4>1, Returned
      <4>3. ReadDone(t) \/ WriteDone(t)
        BY <2>1, <3>2, <4>2 DEF OpenDone, CloseDone, Is
      <4>4. ReadDone(t) => opened' = opened
        BY <2>1, <2>2, ReadResult
      <4>5. WriteDone(t) => opened' = opened
        BY <2>1, <2>2, WriteResult
      <4>6. QED
        BY <4>3, <4>4, <4>5
    <3>3. QED
      BY <2>4, <3>1, <3>2 DEF Kernel
  <2>5. QED
    BY <2>1, <2>3, <2>4 DEF Next
<1>2. QED
  BY <1>1, Invariance, PTL DEF SafeSpec, OffsetNeverPosition

(* A file opened with append(true) only grows at its end, whatever the     *)
(* other options are and whatever the tasks that share it do               *)
(* (reika-reactor ops/io.rs:65-92).                                        *)
THEOREM AppendsOnly == SafeSpec => AppendNeverOverwrites
<1>1. IInv /\ [Next]_vars =>
        [program = "share" /\ options.append /\ pc = "share"
           => IsPrefix(content["src"], content'["src"])]_vars
  <2>1. SUFFICES ASSUME IInv, Next, program = "share", options.append, pc = "share"
                 PROVE  IsPrefix(content["src"], content'["src"])
    OBVIOUS
  <2>2. TypeOK /\ OpenedInv
    BY <2>1 DEF IInv
  <2>3. /\ opened[1] # NULL /\ opened[1].path = "src" /\ opened[1].flags = Flags(options)
        /\ opened[2] = NULL
    BY <2>1, <2>2 DEF OpenedInv, FirstOpen
  <2>4. content["src"] \in Content
    <3>1. content["src"] # NULL
      BY <2>2, <2>3 DEF OpenedInv, Fd
    <3>2. QED
      BY <2>2, <3>1 DEF TypeOK, Path
  <2>5. "APPEND" \in opened[1].flags
    BY <2>1, <2>3 DEF Flags
  <2>6. content' = content => IsPrefix(content["src"], content'["src"])
    BY <2>4, AppendPrefix, Empty
  <2>7. CASE Programs
    BY <2>2, <2>6, <2>7, ProgramsAsk
  <2>8. ASSUME NEW t \in Task, Kernel(t) PROVE IsPrefix(content["src"], content'["src"])
    <3>1. ~OpenDone(t)
      BY <2>1, Asked DEF OpenDone
    <3>2. ReadDone(t) \/ CloseDone(t) \/ Fails(t) => content' = content
      BY DEF ReadDone, CloseDone, Fails
    <3>3. ASSUME WriteDone(t) PROVE IsPrefix(content["src"], content'["src"])
      <4> DEFINE fd == req[t].fd
                 path == opened[fd].path
                 bytes == req[t].bytes
                 start == IF "APPEND" \in opened[fd].flags THEN Len(content[path])
                          ELSE IF req[t].off = Position THEN opened[fd].pos ELSE req[t].off
      <4>1. fd \in Fd /\ opened[fd] # NULL /\ start \in Nat /\ bytes \in Content
        BY <2>1, <3>3, WriteResult
      <4>2. PICK n \in Nat :
              /\ n <= Len(bytes)
              /\ content' = [content EXCEPT ![path] = Written(content[path], start, bytes, n)]
        BY <2>1, <3>3, WriteResult
      <4>3. fd = 1
        BY <2>3, <4>1 DEF Fd
      <4>4. path = "src" /\ start = Len(content["src"])
        BY <2>3, <2>5, <4>3
      <4> HIDE DEF fd, path, bytes, start
      <4>5. content'["src"] = Written(content["src"], start, bytes, n)
        BY <2>2, <4>2, <4>4 DEF TypeOK, Path
      <4>6. IsPrefix(content["src"], Written(content["src"], start, bytes, n))
        BY <2>4, <4>1, <4>2, <4>4, WrittenIs
      <4>7. QED
        BY <4>5, <4>6
    <3>4. QED
      BY <2>6, <2>8, <3>1, <3>2, <3>3 DEF Kernel
  <2>9. QED
    BY <2>1, <2>7, <2>8 DEF Next
<1>2. QED
  BY <1>1, Invariance, PTL DEF SafeSpec, AppendNeverOverwrites

==============================================================================
