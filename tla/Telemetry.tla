----------------------------- MODULE Telemetry -----------------------------
(***************************************************************************)
(* src/telemetry.cpp as main.cpp uses it: log lines are queued under a     *)
(* mutex, one writer thread copies them into a mapped file, and any thread *)
(* stamps samples into a lock-free benchmark ring.                         *)
(*                                                                         *)
(* stop() lowers running_ and notifies without the mutex, and the writer   *)
(* maps the file and writes its lines without it, so that the writer's     *)
(* wait and grow_mmap() are split into their steps, in the order of the    *)
(* source.  A line is its number, and its size counts the newline.         *)
(***************************************************************************)
EXTENDS Integers, Sequences, FiniteSets

CONSTANTS
  LineSize,       \* sizes of the lines, in the order they are logged
  SmallRegion,    \* MMAP_PREALLOC_MB
  DefaultRegion,  \* what grow_mmap(0) asks for
  BigRegion,      \* MMAP_PREALLOC_BIG_MB
  MaxFailures,    \* bound: failed attempts to map the file
  Markers,        \* threads that call bench_mark()
  RingSlots,      \* slots of the benchmark ring
  MaxMarks        \* bound: calls of bench_mark()

ASSUME TelemetryAssumption ==
  /\ LineSize \in Seq(Nat \ {0})
  /\ {SmallRegion, DefaultRegion, BigRegion, RingSlots} \subseteq Nat \ {0}
  /\ {MaxFailures, MaxMarks} \subseteq Nat
  /\ IsFiniteSet(Markers)

\* The callers of grow_mmap() once there are two threads, and what they want.
Growers == {"main", "writer"}
Wanted(t) == IF t = "main" THEN BigRegion ELSE DefaultRegion

VARIABLES
  mmap,       \* mmap_
  running,    \* running_
  queue,      \* queue_
  fileSize,   \* size of the log file
  map,        \* map_: base (the extent of its mapping, 0 for null), len, used
  main,       \* main(): "prealloc", "start", "log", "grow", "run", "notify",
              \*   "join", "returned"
  writer,     \* writer_loop(): "off", "grow", "top", "deciding", "asleep",
              \*   "writing", "exit", "gone"
  grow,       \* per caller, where in grow_mmap() it is: "out", "truncate",
              \*   "map", "len", "used"
  line,       \* writer_loop's local line
  failures,   \* bound: failed attempts to map
  logged,     \* bound and history: number of lines pushed
  file,       \* history: lines before map_.used
  dropped,    \* history: lines write_line() had no room for
  erased,     \* history: written lines that lie behind map_.used again
  crashed     \* history: an access outside of the mapping or of the file

logVars == <<mmap, running, queue, fileSize, map, main, writer, grow, line,
             failures, logged, file, dropped, erased, crashed>>

VARIABLES
  head, seq, pub,  \* ring_head_, ring_seq_, ring_pub_
  slots,           \* the ring: the sequence number of a slot, 0 if not valid
  mark             \* per thread: step of bench_mark() and its locals

benchVars == <<head, seq, pub, slots, mark>>
telemetryVars == <<logVars, benchVars>>

TelemetryInit ==
  /\ mmap \in BOOLEAN
  /\ running = FALSE /\ queue = <<>>
  /\ fileSize = 0 /\ map = [base |-> 0, len |-> 0, used |-> 0]
  /\ main = "prealloc" /\ writer = "off" /\ line = 0
  /\ grow = [t \in Growers |-> "out"]
  /\ failures = 0 /\ logged = 0
  /\ file = <<>> /\ dropped = {} /\ erased = {} /\ crashed = FALSE
  /\ head = 0 /\ seq = 0 /\ pub = 0
  /\ slots = [i \in 0 .. RingSlots - 1 |-> 0]
  /\ mark = [t \in Markers |-> [at |-> "idle", slot |-> 0, seq |-> 0]]

\* The mutex is kept over more than one step only here.
MutexFree == writer # "deciding" /\ grow["main"] = "out"

FileLines == {file[i] : i \in DOMAIN file}

-----------------------------------------------------------------------------
(* grow_mmap(): the test of map_.base, ftruncate(), mmap() with the store  *)
(* of base, and the stores of len and of used (with fd).  main() is in it  *)
(* with the mutex, the writer without.                                     *)

\* Mutant: a second call maps the file again.
MayMapAlways == mmap

MayMap == mmap /\ map.base = 0

EnterGrow(t) == grow' = [grow EXCEPT ![t] = IF MayMap THEN "truncate" ELSE "out"]

GrowStep(t, from, to) == grow[t] = from /\ grow' = [grow EXCEPT ![t] = to]

MapFails(t, from) ==
  /\ GrowStep(t, from, "out")
  /\ failures < MaxFailures
  /\ failures' = failures + 1

\* open() and ftruncate().
Truncate(t) ==
  /\ \/ GrowStep(t, "truncate", "map") /\ fileSize' = Wanted(t) /\ UNCHANGED failures
     \/ MapFails(t, "truncate") /\ UNCHANGED fileSize
  /\ UNCHANGED <<mmap, running, queue, map, main, writer, line, logged, file,
                 dropped, erased, crashed>>

MapFile(t) ==
  /\ \/ /\ GrowStep(t, "map", "len")
        /\ map' = [map EXCEPT !.base = Wanted(t)]
        /\ UNCHANGED failures
     \/ MapFails(t, "map") /\ UNCHANGED map
  /\ UNCHANGED <<mmap, running, queue, fileSize, main, writer, line, logged,
                 file, dropped, erased, crashed>>

StoreLen(t) ==
  /\ GrowStep(t, "len", "used")
  /\ map' = [map EXCEPT !.len = Wanted(t)]
  /\ UNCHANGED <<mmap, running, queue, fileSize, main, writer, line, failures,
                 logged, file, dropped, erased, crashed>>

StoreUsed(t) ==
  /\ GrowStep(t, "used", "out")
  /\ map' = [map EXCEPT !.used = 0]
  /\ file' = <<>> /\ erased' = erased \cup FileLines
  /\ UNCHANGED <<mmap, running, queue, fileSize, main, writer, line, failures,
                 logged, dropped, crashed>>

Grow(t) == Truncate(t) \/ MapFile(t) \/ StoreLen(t) \/ StoreUsed(t)

-----------------------------------------------------------------------------
(* main(): preallocate, start, log the first line, preallocate the big     *)
(* region, run, stop.                                                      *)

MainStep(from, to) == main = from /\ main' = to

\* No other thread is there yet.
Preallocate ==
  /\ MainStep("prealloc", "start")
  /\ \/ /\ MayMap
        /\ fileSize' = SmallRegion
        /\ map' = [base |-> SmallRegion, len |-> SmallRegion, used |-> 0]
        /\ UNCHANGED failures
     \/ /\ MayMap /\ failures < MaxFailures
        /\ failures' = failures + 1
        /\ fileSize' \in {fileSize, SmallRegion}
        /\ UNCHANGED map
     \/ ~MayMap /\ UNCHANGED <<fileSize, map, failures>>
  /\ UNCHANGED <<mmap, running, queue, writer, grow, line, logged, file,
                 dropped, erased, crashed>>

LogStart ==
  /\ MainStep("start", "log")
  /\ running' = TRUE
  /\ writer' = "grow"
  /\ UNCHANGED <<mmap, queue, fileSize, map, grow, line, failures, logged,
                 file, dropped, erased, crashed>>

\* Mutant: the producer notifies nobody.
PushLineSilent ==
  /\ MutexFree /\ logged < Len(LineSize)
  /\ logged' = logged + 1
  /\ queue' = Append(queue, logged')
  /\ UNCHANGED writer

\* push(), in one critical section.
PushLine ==
  /\ MutexFree /\ logged < Len(LineSize)
  /\ logged' = logged + 1
  /\ queue' = Append(queue, logged')
  /\ writer' = IF writer = "asleep" THEN "top" ELSE writer

FirstLine ==
  /\ MainStep("log", "grow") /\ PushLine
  /\ UNCHANGED <<mmap, running, fileSize, map, grow, line, failures, file,
                 dropped, erased, crashed>>

\* preallocate_mmap(big) takes the mutex.
PreallocateBig ==
  /\ MainStep("grow", "run") /\ MutexFree
  /\ EnterGrow("main")
  /\ UNCHANGED <<mmap, running, queue, fileSize, map, writer, line, failures,
                 logged, file, dropped, erased, crashed>>

\* log() by any thread.
Push ==
  /\ main = "run" /\ PushLine
  /\ UNCHANGED <<mmap, running, fileSize, map, main, grow, line, failures, file,
                 dropped, erased, crashed>>

\* stop(): running_ is stored without the mutex ...
LogStop ==
  /\ MainStep("run", "notify") /\ grow["main"] = "out"
  /\ running' = FALSE
  /\ UNCHANGED <<mmap, queue, fileSize, map, writer, grow, line, failures,
                 logged, file, dropped, erased, crashed>>

\* ... and the notification reaches the writer only if it waits by now.
Notify ==
  /\ MainStep("notify", "join")
  /\ writer' = IF writer = "asleep" THEN "top" ELSE writer
  /\ UNCHANGED <<mmap, running, queue, fileSize, map, grow, line, failures,
                 logged, file, dropped, erased, crashed>>

LogJoin ==
  /\ MainStep("join", "returned")
  /\ writer = "gone"
  /\ UNCHANGED <<mmap, running, queue, fileSize, map, writer, grow, line,
                 failures, logged, file, dropped, erased, crashed>>

-----------------------------------------------------------------------------
(* writer_loop().                                                          *)

WriterStep(from, to) == writer = from /\ grow["writer"] = "out" /\ writer' = to

WriterGrow ==
  /\ WriterStep("grow", "top")
  /\ EnterGrow("writer")
  /\ UNCHANGED <<mmap, running, queue, fileSize, map, main, line, failures,
                 logged, file, dropped, erased, crashed>>

\* The predicate of the wait; a line is taken in the same critical section.
WriterTest ==
  /\ MutexFree
  /\ IF queue # <<>>
     THEN /\ WriterStep("top", "writing")
          /\ line' = Head(queue) /\ queue' = Tail(queue)
     ELSE /\ WriterStep("top", IF running THEN "deciding" ELSE "exit")
          /\ UNCHANGED <<queue, line>>
  /\ UNCHANGED <<mmap, running, fileSize, map, main, grow, failures, logged,
                 file, dropped, erased, crashed>>

\* The wait releases the mutex.
WriterSleep ==
  /\ WriterStep("deciding", "asleep")
  /\ UNCHANGED <<mmap, running, queue, fileSize, map, main, grow, line,
                 failures, logged, file, dropped, erased, crashed>>

SpuriousWakeUp ==
  /\ WriterStep("asleep", "top")
  /\ UNCHANGED <<mmap, running, queue, fileSize, map, main, grow, line,
                 failures, logged, file, dropped, erased, crashed>>

LineEnd == map.used + LineSize[line]
Fits == map.base > 0 /\ LineEnd <= map.len
Backed == LineEnd <= map.base /\ LineEnd <= fileSize

(* write_line(): log_file_ is never opened, so that a line without a       *)
(* region is dropped, as is one that does not fit.  The copy is one step:  *)
(* when main() stores used = 0 amid it, the line is lost like one that was *)
(* complete.                                                               *)
WriteLine ==
  \/ /\ WriterStep("writing", "top") /\ Fits /\ Backed
     /\ map' = [map EXCEPT !.used = LineEnd]
     /\ file' = Append(file, line)
     /\ UNCHANGED <<mmap, running, queue, fileSize, main, grow, line, failures,
                    logged, dropped, erased, crashed>>
  \/ /\ WriterStep("writing", "top") /\ ~Fits
     /\ dropped' = dropped \cup {line}
     /\ UNCHANGED <<mmap, running, queue, fileSize, map, main, grow, line,
                    failures, logged, file, erased, crashed>>
  \/ /\ WriterStep("writing", "writing") /\ Fits /\ ~Backed
     /\ crashed' = TRUE
     /\ UNCHANGED <<mmap, running, queue, fileSize, map, main, grow, line,
                    failures, logged, file, dropped, erased>>

\* munmap(base, len): the lines are in the file; a length beyond the mapping
\* unmaps what lies there.
WriterExit ==
  /\ WriterStep("exit", "gone") /\ MutexFree
  /\ map' = [map EXCEPT !.base = 0]
  /\ crashed' \in (IF 0 < map.base /\ map.base < map.len THEN BOOLEAN ELSE {FALSE})
  /\ UNCHANGED <<mmap, running, queue, fileSize, main, grow, line, failures,
                 logged, file, dropped, erased>>

-----------------------------------------------------------------------------
(* bench_mark(): two separate counters, then the slot, then ring_pub_.     *)

MarkStep(t, from, to) ==
  /\ mark[t].at = from
  /\ mark' = [mark EXCEPT ![t].at = to]
  /\ UNCHANGED logVars

ClaimSlot(t) ==
  /\ main = "run" /\ grow["main"] = "out" /\ head < MaxMarks
  /\ mark[t].at = "idle"
  /\ mark' = [mark EXCEPT ![t].at = "slot", ![t].slot = head % RingSlots]
  /\ head' = head + 1
  /\ UNCHANGED <<logVars, seq, pub, slots>>

ClaimSeq(t) ==
  /\ mark[t].at = "slot"
  /\ mark' = [mark EXCEPT ![t].at = "seq", ![t].seq = seq + 1]
  /\ seq' = seq + 1
  /\ UNCHANGED <<logVars, head, pub, slots>>

\* Mutant: the sample is counted before it is written.
WriteSampleLate(t) ==
  /\ MarkStep(t, "seq", "written")
  /\ UNCHANGED <<head, seq, pub, slots>>

WriteSample(t) ==
  /\ MarkStep(t, "seq", "written")
  /\ slots' = [slots EXCEPT ![mark[t].slot] = mark[t].seq]
  /\ UNCHANGED <<head, seq, pub>>

Publish(t) ==
  /\ MarkStep(t, "written", "idle")
  /\ pub' = pub + 1
  /\ UNCHANGED <<head, seq, slots>>

BenchMark(t) == ClaimSlot(t) \/ ClaimSeq(t) \/ WriteSample(t) \/ Publish(t)

-----------------------------------------------------------------------------
\* All of main() but the wait for a signal.
MainThread ==
  \/ Preallocate \/ LogStart \/ FirstLine \/ PreallocateBig \/ Grow("main")
  \/ Notify \/ LogJoin

WriterThread ==
  \/ WriterGrow \/ Grow("writer") \/ WriterTest \/ WriterSleep \/ WriteLine
  \/ WriterExit

\* Nothing happens in a process that has crashed.
TelemetryNext ==
  /\ ~crashed
  /\ \/ /\ MainThread \/ LogStop \/ Push \/ WriterThread \/ SpuriousWakeUp
        /\ UNCHANGED benchVars
     \/ \E t \in Markers : BenchMark(t)

\* The writer and main() are scheduled; a signal, a line and a spurious
\* wake-up need never come.
TelemetryFairness ==
  /\ WF_telemetryVars(~crashed /\ WriterThread /\ UNCHANGED benchVars)
  /\ WF_telemetryVars(~crashed /\ MainThread /\ UNCHANGED benchVars)

TelemetrySpec ==
  TelemetryInit /\ [][TelemetryNext]_telemetryVars /\ TelemetryFairness

-----------------------------------------------------------------------------
TelemetryTypeOK ==
  /\ mmap \in BOOLEAN /\ running \in BOOLEAN /\ crashed \in BOOLEAN
  /\ {map.base, map.len, fileSize} \subseteq
       {0, SmallRegion, DefaultRegion, BigRegion}
  /\ grow \in [Growers -> {"out", "truncate", "map", "len", "used"}]
  /\ logged \in 0 .. Len(LineSize)
  /\ line \in 0 .. logged
  /\ failures \in 0 .. MaxFailures
  /\ head \in 0 .. MaxMarks
  /\ \A t \in Markers : mark[t].slot \in DOMAIN slots

(* telemetry.cpp:86-98, 111-153.  Every line is in exactly one place: in   *)
(* the queue, in the writer's hand, in the file, dropped, or erased; the   *)
(* file keeps the order of logging; and once stop() has returned nothing   *)
(* is queued.  The unsynchronised calls of grow_mmap() do harm only when   *)
(* attempts to map fail: one failure may leave a length beyond the file,   *)
(* and the access crashes; two may let main() reset used behind a line     *)
(* that was just written, but never behind a second one.  While none       *)
(* failed, a line is dropped only for want of room in the first region.    *)
LinesAccounted ==
  LET inHand == IF writer = "writing" THEN {line} ELSE {}
      queued == {queue[i] : i \in DOMAIN queue}
  IN  /\ TelemetryTypeOK
      /\ 1 .. logged = FileLines \cup inHand \cup queued \cup dropped \cup erased
      /\ Len(file) + Cardinality(inHand) + Len(queue) + Cardinality(dropped)
           + Cardinality(erased) = logged
      /\ \A i, j \in DOMAIN file : i < j => file[i] < file[j]
      /\ main = "returned" => queue = <<>> /\ writer = "gone"
      /\ crashed => failures >= 1
      /\ erased # {} => failures >= 2 /\ erased = {1}
      /\ failures = 0 /\ mmap =>
           \A l \in dropped : map.used + LineSize[l] > SmallRegion

(* telemetry.cpp:209-226, 249-255.  Whatever threads mark at once, pub     *)
(* falls behind the claimed slots by the marks under way only, and of the  *)
(* slots bench_stats() walks no more are unwritten than there are marks    *)
(* under way.                                                              *)
MarksAccounted ==
  LET busy == {t \in Markers : mark[t].at # "idle"}
      lesser == IF pub < RingSlots THEN pub ELSE RingSlots
      walked == {(pub - 1 - k) % RingSlots : k \in 0 .. lesser - 1}
  IN  /\ head - pub = Cardinality(busy)
      /\ head - seq = Cardinality({t \in busy : mark[t].at = "slot"})
      /\ Cardinality({i \in walked : slots[i] = 0})
           <= Cardinality({t \in busy : mark[t].at \in {"slot", "seq"}})

(* telemetry.cpp:72-74, 91.  Every line is taken from the queue at last:   *)
(* a notification of push() cannot be missed, as it is sent under the      *)
(* mutex.                                                                  *)
QueueDrains == queue # <<>> ~> queue = <<>> \/ crashed

(* telemetry.h:106, "drain + join": a call of stop() returns.              *)
StopReturns == main = "notify" ~> main = "returned" \/ crashed
=============================================================================
