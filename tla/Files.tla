--------------------------------- MODULE Files ---------------------------------
(***************************************************************************)
(* The file operations of reika-reactor/src/ops/io.rs and the programs on  *)
(* top of them: examples/cp, examples/cat, and two tasks that share one    *)
(* File.  An operation makes a request, which the kernel performs some     *)
(* time later (Runtime is about the way there and back); the kernel's part *)
(* is external.                                                            *)
(*                                                                         *)
(* A file is a sequence of bytes: "x" is a character of one byte, "hi" and *)
(* "lo" make one of two, "0" fills a gap.  A u64 has 2 * Half values.      *)
(* sync_all, sync_data and fallocate are left out: nothing crashes here,   *)
(* and no program of the repository calls them.                            *)
(***************************************************************************)
EXTENDS Integers, FiniteSets, Sequences, SequencesExt

CONSTANTS
  Task,       \* the tasks that share a File
  Half,       \* 2^63: the values of a u64 that are no negative i64
  BufLen,     \* the length of a buffer (4096 in the programs)
  MaxSrc,     \* bound: the length of the files at the start
  MaxOps,     \* bound: operations of the sharing tasks
  NULL

ASSUME FilesTaskAssumption == Task # {}
ASSUME HalfAssumption == Half \in Nat \ {0}
ASSUME BufLenAssumption == BufLen \in Nat \ {0}
ASSUME FilesBoundsAssumption == MaxSrc \in Nat /\ MaxOps \in Nat

Program == {"cp", "cat", "share"}
Byte == {"x", "hi", "lo"}
Content == Seq(Byte \cup {"0"})
Path == {"src", "dest"}
Fd == {1, 2}
Flag == {"APPEND", "TRUNC", "CREAT", "RDWR", "WRONLY"}
Position == 2 * Half - 1       \* u64::MAX: the kernel takes it for -1

(* What the setters of OpenOptions can make of OpenOptions::new().         *)
OpenOptions ==
  [read : BOOLEAN, write : BOOLEAN, append : BOOLEAN, truncate : BOOLEAN,
   create : BOOLEAN, custom_flags : {{}, {"APPEND"}}]
New == [read |-> FALSE, write |-> FALSE, append |-> FALSE, truncate |-> FALSE,
        create |-> FALSE, custom_flags |-> {}]

VARIABLES
  program,    \* the program that runs, on its task or tasks
  pc,         \* what its first task does
  read,       \* the local `read` of copy_file and read_file
  destPath,   \* the second argument of cp
  options,    \* how the sharing tasks open their File
  origin,     \* history: the files as the program found them
  content,    \* the files, NULL for one that does not exist
  opened,     \* the open descriptions: path, flags, position
  req,        \* the request of each task
  ret,        \* and its result
  out,        \* what cat has printed
  ops,        \* operations that the sharing tasks have begun
  faults      \* history: what went wrong in the kernel

args == <<program, destPath, options, origin>>
vars == <<args, pc, read, content, opened, req, ret, out, ops, faults>>

(* A mutant: append is forgotten.                                          *)
FlagsDropAppend(o) ==
  o.custom_flags
    \cup (IF o.truncate THEN {"TRUNC"} ELSE {})
    \cup (IF o.create THEN {"CREAT"} ELSE {})
    \cup (IF o.write THEN {IF o.read THEN "RDWR" ELSE "WRONLY"} ELSE {})

(* O_RDONLY has no bit: options that ask for neither access get it too.    *)
Flags(o) ==
  o.custom_flags
    \cup (IF o.append THEN {"APPEND"} ELSE {})
    \cup (IF o.truncate THEN {"TRUNC"} ELSE {})
    \cup (IF o.create THEN {"CREAT"} ELSE {})
    \cup (IF o.write THEN {IF o.read THEN "RDWR" ELSE "WRONLY"} ELSE {})

(* A mutant: the u64 is passed on as it is.                                *)
AsUnsigned(o) == o

(* `offset as _` makes an i64 of a u64, `try_into().unwrap()` a u64 again. *)
AsI64(o) == IF o < Half THEN o ELSE o - 2 * Half

(* A mutant: a cast instead of try_into.                                   *)
NeverPanics(o) == FALSE

OffsetPanics(o) == AsI64(o) < 0

Open(path, o) == [op |-> "open", path |-> path, flags |-> Flags(o)]
Close(fd) == [op |-> "close", fd |-> fd]

(* `at` is history: whether the caller gave an offset.                     *)
Read(fd, n) == [op |-> "read", fd |-> fd, off |-> Position, at |-> FALSE, len |-> n]
ReadAt(fd, n, o) == [op |-> "read", fd |-> fd, off |-> AsI64(o), at |-> TRUE, len |-> n]
Write(fd, bytes) == [op |-> "write", fd |-> fd, off |-> Position, at |-> FALSE, bytes |-> bytes]
WriteAt(fd, bytes, o) == [op |-> "write", fd |-> fd, off |-> AsI64(o), at |-> TRUE, bytes |-> bytes]

Description == [path : Path, flags : SUBSET Flag, pos : Nat]
Request ==
  [op : {"open"}, path : Path, flags : SUBSET Flag]
    \cup [op : {"close"}, fd : Fd]
    \cup [op : {"read"}, fd : Fd, off : 0..Position, at : BOOLEAN, len : {BufLen}]
    \cup [op : {"write"}, fd : Fd, off : 0..Position, at : BOOLEAN, bytes : Content]
Result == [fd : Fd] \cup [bytes : Content] \cup [n : Nat] \cup [error : {TRUE}]

ASSUME FilesNULLAssumption ==
  NULL \notin Content /\ NULL \notin Description /\ NULL \notin Request /\ NULL \notin Result

Main == CHOOSE t \in Task : TRUE

Init ==
  /\ program \in Program
  /\ content \in [Path -> BoundedSeq(Byte, MaxSrc) \cup {NULL}]
  /\ destPath \in Path
  /\ options \in OpenOptions
  /\ program # "cp" => destPath = "dest" /\ content["dest"] = NULL
  /\ content["dest"] \in BoundedSeq({"x"}, MaxSrc) \cup {NULL}
  /\ program # "share" => options = New
  /\ program = "share" => content["src"] \in BoundedSeq({"hi"}, MaxSrc) \cup {NULL}
  /\ origin = content
  /\ pc = "open" /\ read = 0
  /\ opened = [fd \in Fd |-> NULL]
  /\ req = [t \in Task |-> NULL]
  /\ ret = [t \in Task |-> NULL]
  /\ out = <<>>
  /\ ops = 0
  /\ faults = {}

----------------------------------------------------------------------------
(* The kernel performs a request.                                          *)

Returns(t, result) ==
  /\ req' = [req EXCEPT ![t] = NULL]
  /\ ret' = [ret EXCEPT ![t] = result]
  /\ UNCHANGED <<args, pc, read, out, ops>>

Is(t, op) == req[t] # NULL /\ req[t].op = op
Readable(fd) == opened[fd] # NULL /\ "WRONLY" \notin opened[fd].flags
Writable(fd) == opened[fd] # NULL /\ opened[fd].flags \cap {"WRONLY", "RDWR"} # {}
Amounts(n) == IF n = 0 THEN {0} ELSE 1..n

OpenDone(t) ==
  /\ Is(t, "open")
  /\ LET r == req[t]
         fd == CHOOSE f \in Fd : opened[f] = NULL /\ \A g \in Fd : g < f => opened[g] # NULL
     IN
     /\ content[r.path] = NULL => "CREAT" \in r.flags
     /\ content' = [content EXCEPT ![r.path] =
                      IF @ = NULL \/ "TRUNC" \in r.flags THEN <<>> ELSE @]
     /\ opened' = [opened EXCEPT ![fd] = [path |-> r.path, flags |-> r.flags, pos |-> 0]]
     /\ Returns(t, [fd |-> fd])
  /\ UNCHANGED faults

ReadDone(t) ==
  /\ Is(t, "read") /\ Readable(req[t].fd)
  /\ LET r == req[t]
         file == content[opened[r.fd].path]
         start == IF r.off = Position THEN opened[r.fd].pos ELSE r.off
         available == IF start >= Len(file) THEN 0 ELSE Len(file) - start
         most == IF r.len < available THEN r.len ELSE available
     IN \E n \in Amounts(most) :
          /\ faults' = faults \cup IF n < most THEN {"short read"} ELSE {}
          /\ opened' = IF r.off = Position THEN [opened EXCEPT ![r.fd].pos = start + n]
                                           ELSE opened
          /\ Returns(t, [bytes |-> SubSeq(file, start + 1, start + n)])
  /\ UNCHANGED content

(* The file with these bytes from the offset on.                           *)
Overwritten(file, start, bytes) ==
  [i \in 1..(IF start + Len(bytes) > Len(file) THEN start + Len(bytes) ELSE Len(file)) |->
     CASE i > start /\ i <= start + Len(bytes) -> bytes[i - start]
       [] i <= Len(file) /\ (i <= start \/ i > start + Len(bytes)) -> file[i]
       [] OTHER -> "0"]

WriteDone(t) ==
  /\ Is(t, "write") /\ Writable(req[t].fd)
  /\ LET r == req[t]
         file == content[opened[r.fd].path]
         start == IF "APPEND" \in opened[r.fd].flags THEN Len(file)
                  ELSE IF r.off = Position THEN opened[r.fd].pos ELSE r.off
     IN \E n \in Amounts(Len(r.bytes)) :
          /\ faults' = faults \cup IF n < Len(r.bytes) THEN {"short write"} ELSE {}
          /\ content' = IF n = 0 THEN content
                        ELSE [content EXCEPT ![opened[r.fd].path] =
                                Overwritten(@, start, SubSeq(r.bytes, 1, n))]
          /\ opened' = IF r.off = Position THEN [opened EXCEPT ![r.fd].pos = start + n]
                                           ELSE opened
          /\ Returns(t, [n |-> n])

CloseDone(t) ==
  /\ Is(t, "close")
  /\ opened' = [opened EXCEPT ![req[t].fd] = NULL]
  /\ Returns(t, [n |-> 0])
  /\ UNCHANGED <<content, faults>>

(* Any request may fail; one that is not allowed does.                     *)
Fails(t) ==
  /\ req[t] # NULL
  /\ faults' = faults \cup {"error"}
  /\ Returns(t, [error |-> TRUE])
  /\ UNCHANGED <<content, opened>>

----------------------------------------------------------------------------
(* The programs.                                                           *)

(* A task takes its result and makes the next request, if any.             *)
Issues(t, r) ==
  /\ req' = [req EXCEPT ![t] = r]
  /\ ret' = [ret EXCEPT ![t] = NULL]
  /\ UNCHANGED <<args, content, opened, faults>>

Goes(where, r) == pc' = where /\ Issues(Main, r) /\ UNCHANGED ops

Ready(t) == pc \notin {"done", "panicked"} /\ req[t] = NULL
Failed == ret[Main] # NULL /\ "error" \in DOMAIN ret[Main]
Got(where) == pc = where /\ Ready(Main) /\ ret[Main] # NULL /\ ~Failed
Bytes == ret[Main].bytes

(* cp and cat unwrap every result.                                         *)
Panics ==
  /\ pc # "share" /\ Ready(Main) /\ Failed
  /\ Goes("panicked", NULL)
  /\ UNCHANGED <<read, out>>

(* File::open for the source; the sharing tasks use their own options.     *)
OpenFirst ==
  /\ pc = "open" /\ Ready(Main) /\ ret[Main] = NULL
  /\ Goes("open", Open("src", options))
  /\ UNCHANGED <<read, out>>

Opened ==
  /\ Got("open")
  /\ CASE program = "cp" ->
             Goes("dest", Open(destPath, [New EXCEPT !.create = TRUE, !.write = TRUE]))
       [] program = "cat" -> Goes("read", Read(1, BufLen))
       [] program = "share" -> Goes("share", NULL)
  /\ UNCHANGED <<read, out>>

DestOpened ==
  /\ Got("dest")
  /\ Goes("read", Read(1, BufLen))
  /\ UNCHANGED <<read, out>>

(* copy_file writes what was read, and the next read follows ...           *)
CpWrites ==
  /\ program = "cp" /\ Got("read")
  /\ read' = Len(Bytes)
  /\ Goes("write", Write(2, Bytes))
  /\ UNCHANGED out

(* Mutants: off by one; the comparison the other way round.                *)
LastChunkAlways == read <= BufLen
LastChunkNever == read > BufLen

(* ... unless this one did not fill the buffer.                            *)
LastChunk == read < BufLen

CpLoops ==
  /\ Got("write") /\ ~LastChunk
  /\ Goes("read", Read(1, BufLen))
  /\ UNCHANGED <<read, out>>

CpCloses ==
  /\ Got("write") /\ LastChunk
  /\ Goes("close", Close(1))
  /\ UNCHANGED <<read, out>>

(* read_file: each chunk for itself has to be UTF-8.                       *)
ValidUtf8(bytes) ==
  /\ \A i \in DOMAIN bytes : bytes[i] = "hi" => i < Len(bytes) /\ bytes[i + 1] = "lo"
  /\ \A i \in DOMAIN bytes : bytes[i] = "lo" => i > 1 /\ bytes[i - 1] = "hi"

(* A mutant: from_utf8_unchecked.                                          *)
CatChunkUnchecked(bytes) == TRUE

CatChunk(bytes) == ValidUtf8(bytes)

CatPrints ==
  /\ program = "cat" /\ Got("read") /\ CatChunk(Bytes)
  /\ out' = out \o Bytes
  /\ read' = Len(Bytes)
  /\ IF LastChunk' THEN Goes("close", Close(1)) ELSE Goes("read", Read(1, BufLen))

CatPanics ==
  /\ program = "cat" /\ Got("read") /\ ~CatChunk(Bytes)
  /\ Goes("panicked", NULL)
  /\ UNCHANGED <<read, out>>

CpClosesDest ==
  /\ program = "cp" /\ Got("close")
  /\ Goes("closeDest", Close(2))
  /\ UNCHANGED <<read, out>>

Ends ==
  /\ Got(IF program = "cp" THEN "closeDest" ELSE "close")
  /\ Goes("done", NULL)
  /\ UNCHANGED <<read, out>>

(* The tasks that share a File, each with one operation at a time.         *)
Shares(t) ==
  /\ pc = "share" /\ Ready(t) /\ ops < MaxOps
  /\ ops' = ops + 1
  /\ UNCHANGED <<read, out>>

ShareSequential(t) ==
  /\ Shares(t)
  /\ Issues(t, Read(1, BufLen)) \/ Issues(t, Write(1, <<"x", "x">>))
  /\ UNCHANGED pc

ShareAt(t, o) ==
  /\ Shares(t) /\ ~OffsetPanics(o)
  /\ Issues(t, ReadAt(1, BufLen, o)) \/ Issues(t, WriteAt(1, <<"x", "x">>, o))
  /\ UNCHANGED pc

ShareAtPanics(t, o) ==
  /\ Shares(t) /\ OffsetPanics(o)
  /\ pc' = "panicked"
  /\ UNCHANGED <<args, content, opened, req, ret, faults>>

ShareEnds ==
  /\ pc = "share" /\ ops = MaxOps
  /\ \A t \in Task : req[t] = NULL
  /\ Goes("close", Close(1))
  /\ UNCHANGED <<read, out>>

----------------------------------------------------------------------------
Kernel(t) == OpenDone(t) \/ ReadDone(t) \/ WriteDone(t) \/ CloseDone(t) \/ Fails(t)

Programs ==
  \/ Panics \/ OpenFirst \/ Opened \/ DestOpened
  \/ CpWrites \/ CpLoops \/ CpCloses
  \/ CatPrints \/ CatPanics \/ CpClosesDest \/ Ends
  \/ \E t \in Task : ShareSequential(t)
  \/ \E t \in Task, o \in 0..Position : ShareAt(t, o) \/ ShareAtPanics(t, o)
  \/ ShareEnds

Next == Programs \/ \E t \in Task : Kernel(t)

(* The executor polls a woken task, and the kernel performs a request.     *)
Fairness == WF_vars(Programs) /\ \A t \in Task : WF_vars(Kernel(t))

SafeSpec == Init /\ [][Next]_vars
Spec == SafeSpec /\ Fairness

----------------------------------------------------------------------------
TypeOK ==
  /\ program \in Program /\ destPath \in Path /\ options \in OpenOptions
  /\ pc \in {"open", "dest", "read", "write", "close", "closeDest", "share", "done", "panicked"}
  /\ read \in 0..BufLen /\ ops \in 0..MaxOps
  /\ origin \in [Path -> Content \cup {NULL}]
  /\ content \in [Path -> Content \cup {NULL}]
  /\ opened \in [Fd -> Description \cup {NULL}]
  /\ req \in [Task -> Request \cup {NULL}]
  /\ ret \in [Task -> Result \cup {NULL}]
  /\ out \in Content
  /\ faults \subseteq {"short read", "short write", "error"}

(* cp: while no write is short, the copy is the source as far as the       *)
(* source was read, in front of what the destination held before (it is    *)
(* not truncated); copying a file onto itself leaves it alone; and if no   *)
(* read is short either, cp ends with the whole of it copied.              *)
SourceIntact == destPath # "src" \/ "short write" \notin faults => content["src"] = origin["src"]
CopyFaithful ==
  program = "cp" =>
    /\ SourceIntact
    /\ Is(Main, "read") /\ "short write" \notin faults
         => /\ opened[2].pos = opened[1].pos
            /\ IsPrefix(SubSeq(origin["src"], 1, opened[1].pos), content[destPath])
    /\ pc = "done" /\ faults = {} =>
         LET old == IF origin[destPath] = NULL THEN <<>> ELSE origin[destPath]
         IN /\ content[destPath] = Overwritten(old, 0, origin["src"])
            /\ opened = [fd \in Fd |-> NULL]

(* cat prints the file from its start, and whole characters only.  If the  *)
(* kernel does all that it is asked for, cat prints all of it or panics,   *)
(* and panics on a file of valid UTF-8 only for a character that lies      *)
(* across the end of a buffer.                                             *)
CatFaithful ==
  program = "cat" =>
    /\ out # <<>> => IsPrefix(out, origin["src"]) /\ ValidUtf8(out)
    /\ pc = "done" /\ faults = {} => out = origin["src"]
    /\ pc = "panicked" /\ faults = {} /\ ValidUtf8(origin["src"])
         => \E i \in DOMAIN origin["src"] : i % BufLen = 0 /\ origin["src"][i] = "hi"

(* read_at and write_at of two tasks never fall on the position that read  *)
(* and write share, whatever u64 the caller passes: the kernel takes       *)
(* u64::MAX for "at the position", and the position moves by read and      *)
(* write only.                                                             *)
OffsetNeverPosition ==
  [][\A t \in Task :
       (Is(t, "read") \/ Is(t, "write")) /\ req[t].at /\ req'[t] = NULL
         => opened' = opened]_vars

(* With append(true), whatever the other options and operations, a file    *)
(* only grows at its end.                                                  *)
AppendNeverOverwrites ==
  [][program = "share" /\ options.append /\ pc = "share"
       => IsPrefix(content["src"], content'["src"])]_vars

(* Each program ends, or panics: each read takes cp and cat on, with short *)
(* reads and writes and with the source for a destination, too.            *)
ProgramEnds == <>(pc \in {"done", "panicked"})

==============================================================================
