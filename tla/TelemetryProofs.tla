--------------------------- MODULE TelemetryProofs --------------------------
(***************************************************************************)
(* The event log and the benchmark ring, for all lines, region sizes,      *)
(* numbers of failed mappings, slots, marking threads and marks.           *)
(*                                                                         *)
(* The two share no variable but main, and neither do their invariants.    *)
(* That of the log (LogInv) says where every line is, and how many         *)
(* attempts to map the file have failed when the two calls of grow_mmap()  *)
(* meet or when main() maps with a line in the writer's hand; that of the  *)
(* ring (BenchInv) finds the claimer of every slot not yet written.        *)
(***************************************************************************)
EXTENDS Telemetry, FiniteSetTheorems, SequenceTheorems, FunctionTheorems, TLAPS

Lines == 1 .. Len(LineSize)
Sizes == {0, SmallRegion, DefaultRegion, BigRegion}
Maps == [base : Sizes, len : Sizes, used : Nat]
GrowPlaces == {"out", "truncate", "map", "len", "used"}

LogTypes ==
  /\ mmap \in BOOLEAN /\ running \in BOOLEAN /\ crashed \in BOOLEAN
  /\ map \in Maps /\ fileSize \in Sizes
  /\ grow \in [Growers -> GrowPlaces]
  /\ logged \in 0 .. Len(LineSize) /\ line \in 0 .. logged
  /\ failures \in 0 .. MaxFailures
  /\ queue \in Seq(Lines) /\ file \in Seq(Lines)
  /\ main \in {"prealloc", "start", "log", "grow", "run", "notify", "join",
               "returned"}
  /\ writer \in {"off", "grow", "top", "deciding", "asleep", "writing", "exit",
                 "gone"}

\* The lines taken from the queue, and those no longer in the writer's hand.
taken == logged - Len(queue)
handled == IF writer = "writing" THEN taken - 1 ELSE taken

(* The queue holds the lines after the ones taken, in order; a line that   *)
(* was taken and is no longer in the writer's hand is in the file, dropped *)
(* or erased, and in one of them only.                                     *)
LineInv ==
  /\ Len(queue) <= logged
  /\ \A i \in DOMAIN queue : queue[i] = taken + i
  /\ writer = "writing" => line = taken /\ line \in Lines
  /\ \A i, j \in DOMAIN file : i < j => file[i] < file[j]
  /\ 1 .. handled = FileLines \cup dropped \cup erased
  /\ \A i \in DOMAIN file : file[i] \notin dropped
  /\ Len(file) + Cardinality(dropped) + Cardinality(erased) = handled

(* The places of main() and of the writer: the writer lives from start()   *)
(* on, and leaves only when running_ is down and the queue is empty.  Only *)
(* the first line is logged when main() is in grow_mmap().                 *)
PlaceInv ==
  /\ writer = "off" <=> main \in {"prealloc", "start"}
  /\ running <=> main \in {"log", "grow", "run"}
  /\ main \in {"prealloc", "start", "log"} => logged = 0
  /\ main = "grow" => logged = 1
  /\ writer \in {"exit", "gone"} => ~running /\ queue = <<>>
  /\ main = "returned" => writer = "gone"
  /\ grow["main"] # "out" => main = "run" /\ logged = 1
  /\ grow["writer"] # "out" => writer = "top"

(* The region.  Where nothing is mapped, nothing is written; the first     *)
(* attempt failed where nothing is mapped after it, and the writer's too   *)
(* when that is over.  So two have failed when main() is in grow_mmap()    *)
(* with a line in the writer's hand or in the file.                        *)
RegionInv ==
  /\ main = "prealloc" => map.base = 0
  /\ ~mmap => map.base = 0 /\ grow["main"] = "out" /\ grow["writer"] = "out"
  /\ \A t \in Growers : grow[t] \in {"len", "used"} => map.base # 0
  /\ map.base = 0 /\ writer # "gone" => file = <<>>
  /\ writer \in {"off", "grow"} \/ grow["writer"] # "out" => file = <<>>
  /\ main \in {"prealloc", "start", "log", "grow"} \/ grow["main"] # "out" =>
       erased = {}
  /\ mmap /\ map.base = 0 /\ main # "prealloc" /\ writer # "gone" => failures >= 1
  /\ mmap /\ map.base = 0 /\ writer \notin {"off", "grow", "gone"}
       /\ grow["writer"] = "out" => failures >= 2
  /\ grow["main"] # "out" /\ (file # <<>> \/ writer = "writing") => failures >= 2
  /\ erased # {} => failures >= 2 /\ erased = {1}
  /\ crashed => failures >= 1

(* While no attempt failed, the region is the one preallocated first, and  *)
(* nobody maps another.                                                    *)
FirstInv ==
  failures = 0 /\ mmap =>
    /\ main # "prealloc" /\ writer # "gone" =>
         map.base = SmallRegion /\ map.len = SmallRegion /\ fileSize = SmallRegion
    /\ grow["main"] = "out" /\ grow["writer"] = "out"
    /\ \A l \in dropped : map.used + LineSize[l] > SmallRegion

LogInv == LogTypes /\ PlaceInv /\ LineInv /\ RegionInv /\ FirstInv

Marks == [at : {"idle", "slot", "seq", "written"}, slot : 0 .. RingSlots - 1, seq : Nat]

\* The threads that are within bench_mark() at one of steps.
At(steps) == {t \in Markers : mark[t].at \in steps}

BenchTypes ==
  /\ head \in 0 .. MaxMarks /\ seq \in Nat /\ pub \in Nat
  /\ slots \in [0 .. RingSlots - 1 -> Nat]
  /\ mark \in [Markers -> Marks]

(* A slot that was ever claimed is written, or its claimer is under way.   *)
SlotInv ==
  /\ \A t \in At({"seq", "written"}) : mark[t].seq > 0
  /\ \A k \in 0 .. head - 1 :
       slots[k % RingSlots] = 0 =>
         \E t \in At({"slot", "seq"}) : mark[t].slot = k % RingSlots

\* The two counters that follow head lag by the marks that have not come so far.
CountInv ==
  /\ head - pub = Cardinality(At({"slot", "seq", "written"}))
  /\ head - seq = Cardinality(At({"slot"}))

BenchInv == BenchTypes /\ SlotInv /\ CountInv

-----------------------------------------------------------------------------
(* The log.                                                                *)

LEMMA LogFacts ==
  ASSUME LogTypes
  PROVE  /\ Len(LineSize) \in Nat /\ DOMAIN LineSize = Lines
         /\ \A l \in Lines : LineSize[l] \in Nat
         /\ Len(queue) \in Nat /\ DOMAIN queue = 1 .. Len(queue)
         /\ Len(file) \in Nat /\ DOMAIN file = 1 .. Len(file)
         /\ logged \in Nat /\ line \in Nat /\ failures \in Nat
         /\ map.base \in Nat /\ map.len \in Nat /\ map.used \in Nat
         /\ fileSize \in Nat
         /\ SmallRegion \in Nat \ {0} /\ Sizes \subseteq Nat
         /\ \A t \in Growers : Wanted(t) \in Sizes \ {0}
<1>1. /\ LineSize \in Seq(Nat \ {0})
      /\ {SmallRegion, DefaultRegion, BigRegion} \subseteq Nat \ {0}
  BY TelemetryAssumption
<1>2. /\ Len(LineSize) \in Nat /\ DOMAIN LineSize = Lines
      /\ \A l \in Lines : LineSize[l] \in Nat
  BY <1>1 DEF Lines
<1>3. Sizes \subseteq Nat /\ \A t \in Growers : Wanted(t) \in Sizes \ {0}
  BY <1>1 DEF Sizes, Wanted
<1>4. map.base \in Nat /\ map.len \in Nat /\ map.used \in Nat /\ fileSize \in Nat
  BY <1>3 DEF LogTypes, Maps
<1>5. QED
  BY <1>1, <1>2, <1>3, <1>4, TelemetryAssumption DEF LogTypes

LEMMA LogInvInit == TelemetryInit => LogInv
<1>1. SUFFICES ASSUME TelemetryInit PROVE LogInv
  OBVIOUS
<1>2. queue = <<>> /\ file = <<>> /\ DOMAIN queue = {} /\ DOMAIN file = {}
      /\ Len(queue) = 0 /\ Len(file) = 0
      /\ queue \in Seq(Lines) /\ file \in Seq(Lines)
  BY <1>1 DEF TelemetryInit
<1>3. Len(LineSize) \in Nat /\ MaxFailures \in Nat
  BY TelemetryAssumption
<1>4. LogTypes
  <2>1. map \in Maps /\ fileSize \in Sizes /\ grow \in [Growers -> GrowPlaces]
    BY <1>1 DEF TelemetryInit, Maps, Sizes, GrowPlaces
  <2>2. logged \in 0 .. Len(LineSize) /\ line \in 0 .. logged
        /\ failures \in 0 .. MaxFailures
    BY <1>1, <1>3 DEF TelemetryInit
  <2>3. QED
    BY <1>1, <1>2, <2>1, <2>2 DEF TelemetryInit, LogTypes
<1>5. PlaceInv /\ RegionInv /\ FirstInv
  <2>1. map.base = 0 /\ grow["main"] = "out" /\ grow["writer"] = "out"
    BY <1>1 DEF TelemetryInit, Growers
  <2>2. QED
    BY <1>1, <2>1 DEF TelemetryInit, PlaceInv, RegionInv, FirstInv
<1>6. LineInv
  <2>1. /\ Cardinality(dropped) = 0 /\ dropped = {} /\ Cardinality(erased) = 0
        /\ erased = {} /\ logged = 0 /\ writer = "off"
    BY <1>1, FS_EmptySet DEF TelemetryInit
  <2>2. taken = 0 /\ handled = 0 /\ 1 .. handled = {}
    <3>1. taken = 0
      <4>1. Len(queue) = 0 /\ logged = 0
        BY <1>2, <2>1
      <4>2. QED
        BY <4>1 DEF taken
    <3>2. handled = 0
      BY <2>1, <3>1 DEF handled
    <3>3. 1 .. 0 = {}
      OBVIOUS
    <3>4. QED
      BY <3>1, <3>2, <3>3
  <2>3. FileLines = {}
    BY <1>2 DEF FileLines
  <2>4. QED
    BY <1>2, <2>1, <2>2, <2>3 DEF LineInv
<1>7. QED
  BY <1>4, <1>5, <1>6 DEF LogInv

LEMMA ErasedFinite ==
  ASSUME RegionInv
  PROVE  IsFiniteSet(erased) /\ Cardinality(erased) \in Nat
<1>1. erased = {} \/ erased = {1}
  BY DEF RegionInv
<1>2. CASE erased = {}
  BY <1>2, FS_EmptySet
<1>3. CASE erased = {1}
  BY <1>3, FS_Singleton
<1>4. QED
  BY <1>1, <1>2, <1>3

\* A step that takes no line, writes none and loses none.
LEMMA LineSame ==
  ASSUME LineInv, UNCHANGED <<queue, logged, line, file, dropped, erased>>,
         writer' = "writing" <=> writer = "writing"
  PROVE  LineInv'
<1>1. taken' = taken /\ handled' = handled /\ FileLines' = FileLines
  BY DEF taken, handled, FileLines
<1>2. QED
  BY <1>1 DEF LineInv

LEMMA MoveStep ==
  ASSUME LogInv,
         LogStart \/ LogStop \/ Notify \/ LogJoin \/ WriterSleep \/ SpuriousWakeUp
  PROVE  LogInv'
<1>1. LogTypes /\ PlaceInv /\ LineInv /\ RegionInv /\ FirstInv
  BY DEF LogInv
<1>2. /\ UNCHANGED <<mmap, queue, fileSize, map, grow, line, failures, logged, file,
                     dropped, erased, crashed>>
      /\ writer' = "writing" <=> writer = "writing"
      /\ writer' = "gone" <=> writer = "gone"
  BY <1>1 DEF LogStart, LogStop, Notify, LogJoin, WriterSleep, SpuriousWakeUp, MainStep,
       WriterStep, PlaceInv
<1>3. LogTypes'
  BY <1>1, <1>2 DEF LogStart, LogStop, Notify, LogJoin, WriterSleep, SpuriousWakeUp,
       MainStep, WriterStep, LogTypes
<1>4. PlaceInv'
  BY <1>1, <1>2 DEF LogStart, LogStop, Notify, LogJoin, WriterSleep, SpuriousWakeUp,
       MainStep, WriterStep, PlaceInv
<1>5. LineInv'
  BY <1>1, <1>2, LineSame
<1>6. RegionInv' /\ FirstInv'
  BY <1>1, <1>2 DEF LogStart, LogStop, Notify, LogJoin, WriterSleep, SpuriousWakeUp,
       MainStep, WriterStep, PlaceInv, RegionInv, FirstInv
<1>7. QED
  BY <1>3, <1>4, <1>5, <1>6 DEF LogInv

\* main() finds a line in the writer's hand only after both other attempts.
LEMMA EnterStep ==
  ASSUME LogInv, PreallocateBig \/ WriterGrow
  PROVE  LogInv'
<1>1. LogTypes /\ PlaceInv /\ LineInv /\ RegionInv /\ FirstInv
  BY DEF LogInv
<1>2. /\ UNCHANGED <<mmap, running, queue, fileSize, map, line, failures, logged, file,
                     dropped, erased, crashed>>
      /\ writer' = "writing" <=> writer = "writing"
      /\ writer' = "gone" <=> writer = "gone"
  BY <1>1 DEF PreallocateBig, WriterGrow, MainStep, WriterStep
<1>3. PICK t \in Growers :
        /\ grow' = [grow EXCEPT ![t] = IF MayMap THEN "truncate" ELSE "out"]
        /\ \/ t = "main" /\ main = "grow" /\ main' = "run" /\ writer' = writer
           \/ /\ t = "writer" /\ writer = "grow" /\ writer' = "top" /\ main' = main
              /\ grow["writer"] = "out"
  BY DEF PreallocateBig, WriterGrow, MainStep, WriterStep, EnterGrow, Growers
<1>4. /\ grow' \in [Growers -> GrowPlaces]
      /\ grow'[t] = (IF MayMap THEN "truncate" ELSE "out")
      /\ \A u \in Growers : u # t => grow'[u] = grow[u]
  BY <1>1, <1>3 DEF LogTypes, GrowPlaces
<1>5. "main" \in Growers /\ "writer" \in Growers
  BY DEF Growers
<1>6. LogTypes'
  BY <1>1, <1>2, <1>3, <1>4 DEF LogTypes
<1>7. PlaceInv'
  BY <1>1, <1>2, <1>3, <1>4, <1>5 DEF PlaceInv
<1>8. LineInv'
  BY <1>1, <1>2, LineSame
<1>9. RegionInv'
  BY <1>1, <1>2, <1>3, <1>4, <1>5 DEF PlaceInv, RegionInv, MayMap
<1>10. FirstInv'
  <2>1. SmallRegion # 0
    BY TelemetryAssumption
  <2>2. QED
    BY <1>1, <1>2, <1>3, <1>4, <1>5, <2>1 DEF PlaceInv, FirstInv, MayMap
<1>11. QED
  BY <1>6, <1>7, <1>8, <1>9, <1>10 DEF LogInv

LEMMA PreallocateStep ==
  ASSUME LogInv, Preallocate
  PROVE  LogInv'
<1>1. LogTypes /\ PlaceInv /\ LineInv /\ RegionInv /\ FirstInv
  BY DEF LogInv
<1>2. /\ UNCHANGED <<mmap, running, queue, writer, grow, line, logged, file, dropped,
                     erased, crashed>>
      /\ main = "prealloc" /\ main' = "start" /\ writer = "off"
  BY <1>1 DEF Preallocate, MainStep, PlaceInv
<1>3. \/ /\ fileSize' = SmallRegion /\ failures' = failures
         /\ map' = [base |-> SmallRegion, len |-> SmallRegion, used |-> 0] /\ mmap
      \/ /\ map' = map /\ failures' = failures + 1 /\ failures < MaxFailures
         /\ fileSize' \in Sizes /\ mmap
      \/ map' = map /\ failures' = failures /\ fileSize' = fileSize /\ ~mmap
  BY <1>1, <1>2 DEF Preallocate, MayMap, RegionInv, LogTypes, Sizes
<1>4. /\ SmallRegion \in Sizes /\ SmallRegion \in Nat \ {0} /\ MaxFailures \in Nat
      /\ failures \in Nat
  BY <1>1, LogFacts, TelemetryAssumption DEF Sizes
<1>5. LogTypes'
  <2>1. map' \in Maps /\ fileSize' \in Sizes
    BY <1>1, <1>3, <1>4 DEF LogTypes, Maps
  <2>2. failures' \in 0 .. MaxFailures
    BY <1>1, <1>3, <1>4 DEF LogTypes
  <2>3. QED
    BY <1>1, <1>2, <2>1, <2>2 DEF LogTypes
<1>6. PlaceInv'
  BY <1>1, <1>2 DEF PlaceInv
<1>7. LineInv'
  BY <1>1, <1>2, LineSame
<1>8. file = <<>> /\ dropped = {} /\ erased = {}
  <2>1. logged = 0 /\ file = <<>> /\ erased = {}
    BY <1>1, <1>2 DEF PlaceInv, RegionInv
  <2>2. 1 .. handled = {}
    BY <1>1, <1>2, <2>1, LogFacts DEF LineInv, taken, handled
  <2>3. QED
    BY <1>1, <2>1, <2>2 DEF LineInv
<1>9. RegionInv'
  BY <1>1, <1>2, <1>3, <1>4, <1>8 DEF RegionInv, PlaceInv
<1>10. FirstInv'
  BY <1>1, <1>2, <1>3, <1>4, <1>8 DEF FirstInv, RegionInv
<1>11. QED
  BY <1>5, <1>6, <1>7, <1>9, <1>10 DEF LogInv

\* grow_mmap() up to the store of used, by either thread.
LEMMA MapStep ==
  ASSUME LogInv, NEW t \in Growers, Truncate(t) \/ MapFile(t) \/ StoreLen(t)
  PROVE  LogInv'
<1>1. LogTypes /\ PlaceInv /\ LineInv /\ RegionInv /\ FirstInv
  BY DEF LogInv
<1>2. UNCHANGED <<mmap, running, queue, main, writer, line, logged, file, dropped, erased,
                  crashed>>
  BY DEF Truncate, MapFile, StoreLen
<1>3. PICK p \in GrowPlaces : grow' = [grow EXCEPT ![t] = p]
  BY DEF Truncate, MapFile, StoreLen, MapFails, GrowStep, GrowPlaces
<1>4. grow[t] # "out"
  BY DEF Truncate, MapFile, StoreLen, MapFails, GrowStep
<1>5. /\ grow' \in [Growers -> GrowPlaces] /\ grow'[t] = p
      /\ \A u \in Growers : u # t => grow'[u] = grow[u]
  BY <1>1, <1>3 DEF LogTypes
<1>6. Wanted(t) \in Sizes /\ Wanted(t) # 0 /\ failures \in Nat /\ MaxFailures \in Nat
  BY <1>1, LogFacts, TelemetryAssumption
<1>7. /\ map' \in Maps
      /\ map'.base = map.base \/ map'.base # 0
      /\ fileSize' \in Sizes
      /\ p \in {"len", "used"} => map'.base # 0
  <2>1. map' \in {map, [map EXCEPT !.base = Wanted(t)], [map EXCEPT !.len = Wanted(t)]}
        /\ fileSize' \in {fileSize, Wanted(t)}
    BY DEF Truncate, MapFile, StoreLen
  <2>2. map \in Maps /\ fileSize \in Sizes
    BY <1>1 DEF LogTypes
  <2>3. grow'[t] \in {"len", "used"} => map'.base # 0
    <3>1. CASE MapFile(t)
      BY <1>1, <1>6, <2>2, <3>1 DEF MapFile, MapFails, GrowStep, LogTypes, Maps
    <3>2. CASE StoreLen(t)
      <4>1. map.base # 0
        BY <1>1, <3>2 DEF StoreLen, GrowStep, RegionInv
      <4>2. QED
        BY <2>2, <3>2, <4>1 DEF StoreLen, Maps
    <3>3. CASE Truncate(t)
      BY <1>1, <3>3 DEF Truncate, MapFails, GrowStep, LogTypes
    <3>4. QED
      BY <3>1, <3>2, <3>3
  <2>4. QED
    BY <1>5, <1>6, <2>1, <2>2, <2>3 DEF Maps
<1>8. /\ failures' \in {failures, failures + 1} /\ failures' \in 0 .. MaxFailures
      /\ failures' = failures => p # "out"
  <2>1. \/ failures' = failures /\ p # "out"
        \/ failures' = failures + 1 /\ failures < MaxFailures
    <3>1. grow'[t] = p
      BY <1>5
    <3>2. \/ failures' = failures /\ grow'[t] # "out"
          \/ failures' = failures + 1 /\ failures < MaxFailures
      BY <1>1 DEF Truncate, MapFile, StoreLen, MapFails, GrowStep, LogTypes
    <3>3. QED
      BY <3>1, <3>2
  <2>2. failures \in 0 .. MaxFailures
    BY <1>1 DEF LogTypes
  <2>3. QED
    BY <1>6, <2>1, <2>2
<1>9. LogTypes'
  BY <1>1, <1>2, <1>5, <1>7, <1>8 DEF LogTypes
<1>10. "main" \in Growers /\ "writer" \in Growers /\ t \in {"main", "writer"}
  BY DEF Growers
<1>11. PlaceInv'
  BY <1>1, <1>2, <1>4, <1>5, <1>10 DEF PlaceInv
<1>12. LineInv'
  BY <1>1, <1>2, LineSame
<1>13. failures' >= failures /\ (failures' # failures => failures' = failures + 1)
  BY <1>6, <1>8
<1>14. main # "prealloc" /\ mmap
  BY <1>1, <1>4, <1>10 DEF PlaceInv, RegionInv
<1>15. RegionInv'
  <2>1. map'.base = 0 => map.base = 0
    BY <1>7
  <2>0. \A u \in Growers : grow'[u] \in {"len", "used"} => map'.base # 0
    BY <1>1, <1>5, <1>7 DEF RegionInv
  <2>2. /\ main' = "prealloc" => map'.base = 0
        /\ ~mmap' => /\ map'.base = 0 /\ grow'["main"] = "out"
                     /\ grow'["writer"] = "out"
        /\ map'.base = 0 /\ writer' # "gone" => file' = <<>>
        /\ writer' \in {"off", "grow"} \/ grow'["writer"] # "out" => file' = <<>>
    BY <1>1, <1>2, <1>4, <1>5, <1>10, <1>14, <2>1 DEF RegionInv
  <2>3. main' \in {"prealloc", "start", "log", "grow"} \/ grow'["main"] # "out" =>
          erased' = {}
    BY <1>1, <1>2, <1>4, <1>5, <1>10 DEF RegionInv
  <2>4. mmap' /\ map'.base = 0 /\ main' # "prealloc" /\ writer' # "gone" =>
          failures' >= 1
    BY <1>1, <1>2, <1>6, <1>8, <2>1 DEF RegionInv
  <2>5. mmap' /\ map'.base = 0 /\ writer' \notin {"off", "grow", "gone"}
          /\ grow'["writer"] = "out" => failures' >= 2
    <3>1. SUFFICES ASSUME map'.base = 0, writer \notin {"off", "grow", "gone"},
                          grow'["writer"] = "out"
                   PROVE  failures' >= 2
      BY <1>2
    <3>2. failures >= 1
      BY <1>1, <1>14, <2>1, <3>1 DEF RegionInv
    <3>3. CASE t = "writer"
      BY <1>5, <1>6, <1>8, <3>1, <3>2, <3>3
    <3>4. CASE t = "main"
      <4>1. failures >= 2
        BY <1>1, <1>5, <1>10, <1>14, <2>1, <3>1, <3>4 DEF RegionInv
      <4>2. QED
        BY <1>6, <1>8, <4>1
    <3>5. QED
      BY <1>10, <3>3, <3>4
  <2>6. grow'["main"] # "out" /\ (file' # <<>> \/ writer' = "writing") => failures' >= 2
    <3>1. grow'["main"] # "out" => grow["main"] # "out"
      BY <1>4, <1>5, <1>10
    <3>2. grow["main"] # "out" /\ (file # <<>> \/ writer = "writing") => failures >= 2
      BY <1>1 DEF RegionInv
    <3>3. QED
      BY <1>2, <1>6, <1>8, <3>1, <3>2
  <2>7. (erased' # {} => failures' >= 2 /\ erased' = {1}) /\ (crashed' => failures' >= 1)
    BY <1>1, <1>2, <1>6, <1>8 DEF RegionInv
  <2>8. QED
    BY <2>0, <2>2, <2>3, <2>4, <2>5, <2>6, <2>7 DEF RegionInv
<1>16. FirstInv'
  <2>1. failures # 0
    BY <1>1, <1>4, <1>10, <1>14 DEF FirstInv
  <2>2. failures' # 0
    BY <1>6, <1>8, <2>1
  <2>3. QED
    BY <2>2 DEF FirstInv
<1>17. QED
  BY <1>9, <1>11, <1>12, <1>15, <1>16 DEF LogInv

(* The store of used.  The file is empty, unless main() resets used behind *)
(* the first line, which the writer had in hand.                           *)
LEMMA UsedStep ==
  ASSUME LogInv, NEW t \in Growers, StoreUsed(t), IsFiniteSet(dropped)
  PROVE  LogInv'
<1>1. LogTypes /\ PlaceInv /\ LineInv /\ RegionInv /\ FirstInv
  BY DEF LogInv
<1>2. /\ UNCHANGED <<mmap, running, queue, fileSize, main, writer, line, failures, logged,
                     dropped, crashed>>
      /\ grow[t] = "used" /\ grow' = [grow EXCEPT ![t] = "out"]
      /\ map' = [map EXCEPT !.used = 0]
      /\ file' = <<>> /\ erased' = erased \cup FileLines
  BY DEF StoreUsed, GrowStep
<1>3. /\ grow' \in [Growers -> GrowPlaces] /\ grow'[t] = "out"
      /\ \A u \in Growers : u # t => grow'[u] = grow[u]
      /\ "main" \in Growers /\ "writer" \in Growers /\ t \in {"main", "writer"}
  BY <1>1, <1>2 DEF LogTypes, GrowPlaces, Growers
<1>4. map' \in Maps /\ map'.base = map.base
  BY <1>1, <1>2 DEF LogTypes, Maps
<1>5. LogTypes'
  BY <1>1, <1>2, <1>3, <1>4 DEF LogTypes
<1>6. PlaceInv'
  BY <1>1, <1>2, <1>3 DEF PlaceInv
<1>7. \/ file = <<>> /\ erased' = erased
      \/ /\ Len(file) = 1 /\ FileLines = {1} /\ erased = {} /\ erased' = {1}
         /\ failures >= 2 /\ t = "main"
  <2>1. CASE file = <<>>
    BY <1>2, <2>1 DEF FileLines
  <2>2. CASE file # <<>>
    <3>1. t = "main" /\ logged = 1 /\ erased = {} /\ failures >= 2
      BY <1>1, <1>2, <1>3, <2>2 DEF PlaceInv, RegionInv
    <3>2. handled \in Int /\ handled <= 1
      BY <1>1, <3>1, LogFacts DEF handled, taken
    <3>3. FileLines \subseteq {1}
      <4>1. FileLines \subseteq 1 .. handled
        BY <1>1 DEF LineInv
      <4>2. QED
        BY <3>2, <4>1
    <3>4. Len(file) \in Nat /\ DOMAIN file = 1 .. Len(file) /\ Len(file) # 0
      BY <1>1, <2>2, LogFacts, EmptySeq DEF LogTypes
    <3>5. \A i \in DOMAIN file : file[i] = 1
      BY <3>3 DEF FileLines
    <3>6. Len(file) = 1
      <4>1. SUFFICES ASSUME Len(file) >= 2 PROVE FALSE
        BY <3>4
      <4>2. 1 \in DOMAIN file /\ 2 \in DOMAIN file
        BY <3>4, <4>1
      <4>3. file[1] < file[2]
        BY <1>1, <4>2 DEF LineInv
      <4>4. QED
        BY <3>5, <4>2, <4>3
    <3>7. FileLines = {1}
      <4>1. 1 \in DOMAIN file /\ file[1] = 1
        BY <3>4, <3>5, <3>6
      <4>2. QED
        BY <3>3, <4>1 DEF FileLines
    <3>8. QED
      BY <1>2, <3>1, <3>6, <3>7
  <2>3. QED
    BY <2>1, <2>2
<1>8. LineInv'
  <2>1. FileLines' = {} /\ Len(file') = 0 /\ DOMAIN file' = {}
    BY <1>2 DEF FileLines
  <2>2. taken' = taken /\ handled' = handled
    BY <1>2 DEF taken, handled
  <2>3. 1 .. handled' = FileLines' \cup dropped' \cup erased'
    BY <1>1, <1>2, <2>1, <2>2 DEF LineInv
  <2>4. Len(file) + Cardinality(erased) = Cardinality(erased')
    <3>1. CASE file = <<>> /\ erased' = erased
      <4>1. Len(file) = 0 /\ IsFiniteSet(erased)
        BY <1>1, <3>1, ErasedFinite
      <4>2. Cardinality(erased) \in Nat
        BY <4>1, FS_CardinalityType
      <4>3. QED
        BY <3>1, <4>1, <4>2
    <3>2. CASE Len(file) = 1 /\ erased = {} /\ erased' = {1}
      <4>1. Cardinality({}) = 0 /\ Cardinality({1}) = 1
        BY FS_EmptySet, FS_Singleton
      <4>2. QED
        BY <3>2, <4>1
    <3>3. QED
      BY <1>7, <3>1, <3>2
  <2>5. Len(file') + Cardinality(dropped') + Cardinality(erased') = handled'
    <3>1. Len(file) + Cardinality(dropped) + Cardinality(erased) = handled
      BY <1>1 DEF LineInv
    <3>2. /\ Len(file) \in Nat /\ Cardinality(erased) \in Nat /\ handled \in Int
      BY <1>1, ErasedFinite, LogFacts DEF handled, taken
    <3>3. Cardinality(dropped) \in Nat
      BY FS_CardinalityType
    <3>4. QED
      BY <1>2, <2>1, <2>2, <2>4, <3>1, <3>2, <3>3
  <2>6. QED
    BY <1>1, <1>2, <2>1, <2>2, <2>3, <2>5 DEF LineInv
<1>9. RegionInv'
  <2>1. failures \in Nat
    BY <1>1, LogFacts
  <2>2. main # "prealloc" /\ mmap /\ map.base = map'.base
    BY <1>1, <1>2, <1>3, <1>4 DEF PlaceInv, RegionInv
  <2>3. mmap /\ map.base = 0 /\ writer \notin {"off", "grow", "gone"}
          /\ grow'["writer"] = "out" => failures >= 2
    BY <1>1, <1>2, <1>3 DEF RegionInv
  <2>4. \A u \in Growers : grow'[u] \in {"len", "used"} => map'.base # 0
    BY <1>1, <1>3, <2>2 DEF RegionInv
  <2>5. main \in {"prealloc", "start", "log", "grow"} \/ grow'["main"] # "out" =>
          erased' = {}
    BY <1>1, <1>3, <1>6, <1>7, <1>2 DEF RegionInv, PlaceInv
  <2>6. erased' # {} => failures >= 2 /\ erased' = {1}
    BY <1>1, <1>7 DEF RegionInv
  <2>7. grow'["main"] # "out" /\ writer = "writing" => failures >= 2
    BY <1>1, <1>3 DEF RegionInv
  <2>8. QED
    BY <1>1, <1>2, <1>3, <2>1, <2>2, <2>3, <2>4, <2>5, <2>6, <2>7 DEF RegionInv
<1>10. FirstInv'
  <2>1. failures # 0 \/ ~mmap
    BY <1>1, <1>2, <1>3 DEF FirstInv
  <2>2. QED
    BY <1>2, <2>1 DEF FirstInv
<1>11. QED
  BY <1>5, <1>6, <1>8, <1>9, <1>10 DEF LogInv

LEMMA PushStep ==
  ASSUME LogInv, FirstLine \/ Push
  PROVE  LogInv'
<1>1. LogTypes /\ PlaceInv /\ LineInv /\ RegionInv /\ FirstInv
  BY DEF LogInv
<1>2. /\ \/ main = "log" /\ main' = "grow"
         \/ main = "run" /\ main' = "run"
      /\ grow["main"] = "out" /\ logged < Len(LineSize)
      /\ logged' = logged + 1 /\ queue' = Append(queue, logged + 1)
      /\ UNCHANGED <<mmap, running, fileSize, map, grow, line, failures, file, dropped,
                     erased, crashed>>
      /\ writer' = (IF writer = "asleep" THEN "top" ELSE writer)
  BY DEF FirstLine, Push, PushLine, MainStep, MutexFree
<1>3. /\ logged + 1 \in Lines /\ logged' \in 0 .. Len(LineSize)
      /\ line \in 0 .. logged'
  BY <1>1, <1>2, LogFacts DEF LogTypes, Lines
<1>4. /\ queue' \in Seq(Lines) /\ Len(queue') = Len(queue) + 1
      /\ DOMAIN queue' = 1 .. Len(queue) + 1
      /\ queue'[Len(queue) + 1] = logged + 1
      /\ \A i \in DOMAIN queue : queue'[i] = queue[i]
  <2>1. queue \in Seq(Lines) /\ Len(queue) \in Nat /\ DOMAIN queue = 1 .. Len(queue)
    BY <1>1, LogFacts DEF LogTypes
  <2>2. /\ queue' \in Seq(Lines) /\ Len(queue') = Len(queue) + 1
        /\ queue'[Len(queue) + 1] = logged + 1
        /\ \A i \in 1 .. Len(queue) : queue'[i] = queue[i]
    BY <1>2, <1>3, <2>1, AppendProperties
  <2>3. QED
    BY <2>1, <2>2
<1>5. LogTypes'
  BY <1>1, <1>2, <1>3, <1>4 DEF LogTypes
<1>6. PlaceInv'
  BY <1>1, <1>2 DEF PlaceInv
<1>7. LineInv'
  <2>1. taken' = taken /\ taken \in Int /\ handled' = handled /\ FileLines' = FileLines
    BY <1>1, <1>2, <1>4, LogFacts DEF taken, handled, FileLines
  <2>2. Len(queue') <= logged'
    BY <1>1, <1>2, <1>4, LogFacts DEF LineInv
  <2>3. ASSUME NEW i \in DOMAIN queue' PROVE queue'[i] = taken + i
    <3>1. CASE i = Len(queue) + 1
      BY <1>1, <1>4, <3>1, LogFacts DEF taken
    <3>2. CASE i \in DOMAIN queue
      BY <1>1, <1>4, <3>2 DEF LineInv
    <3>3. QED
      BY <1>1, <1>4, <3>1, <3>2, LogFacts
  <2>4. QED
    BY <1>1, <1>2, <2>1, <2>2, <2>3 DEF LineInv
<1>8. RegionInv' /\ FirstInv'
  BY <1>1, <1>2 DEF RegionInv, FirstInv, PlaceInv
<1>9. QED
  BY <1>5, <1>6, <1>7, <1>8 DEF LogInv

LEMMA TestStep ==
  ASSUME LogInv, WriterTest
  PROVE  LogInv'
<1>1. LogTypes /\ PlaceInv /\ LineInv /\ RegionInv /\ FirstInv
  BY DEF LogInv
<1>2. /\ writer = "top" /\ grow["main"] = "out" /\ grow["writer"] = "out"
      /\ UNCHANGED <<mmap, running, fileSize, map, main, grow, failures, logged, file,
                     dropped, erased, crashed>>
  BY DEF WriterTest, MutexFree, WriterStep
<1>3. CASE queue = <<>>
  <2>1. /\ writer' = (IF running THEN "deciding" ELSE "exit")
        /\ UNCHANGED <<queue, line>>
    BY <1>3 DEF WriterTest, WriterStep
  <2>2. LogTypes' /\ PlaceInv'
    BY <1>1, <1>2, <1>3, <2>1 DEF LogTypes, PlaceInv
  <2>3. LineInv'
    BY <1>1, <1>2, <2>1, LineSame
  <2>4. RegionInv' /\ FirstInv'
    BY <1>1, <1>2, <2>1 DEF RegionInv, FirstInv
  <2>5. QED
    BY <2>2, <2>3, <2>4 DEF LogInv
<1>4. CASE queue # <<>>
  <2>1. writer' = "writing" /\ line' = Head(queue) /\ queue' = Tail(queue)
    BY <1>4 DEF WriterTest, WriterStep
  <2>2. /\ Len(queue) \in Nat \ {0} /\ 1 \in DOMAIN queue
        /\ Head(queue) = queue[1] /\ queue[1] \in Lines
    BY <1>1, <1>4 DEF LogTypes
  <2>3. /\ queue' \in Seq(Lines) /\ Len(queue') = Len(queue) - 1
        /\ \A i \in 1 .. Len(queue) - 1 : queue'[i] = queue[i + 1]
    BY <1>1, <1>4, <2>1, HeadTailProperties DEF LogTypes
  <2>4. line' = taken + 1 /\ taken' = taken + 1 /\ taken \in Int
    <3>1. queue[1] = taken + 1
      BY <1>1, <2>2 DEF LineInv
    <3>2. logged \in Nat /\ taken = logged - Len(queue)
          /\ taken' = logged - (Len(queue) - 1)
      BY <1>1, <1>2, <2>3, LogFacts DEF taken
    <3>3. QED
      BY <2>1, <2>2, <3>1, <3>2
  <2>5. LogTypes'
    <3>1. line' \in 0 .. logged
      BY <1>1, <2>2, <2>4, LogFacts DEF taken, LineInv
    <3>2. QED
      BY <1>1, <1>2, <2>1, <2>3, <3>1 DEF LogTypes
  <2>6. PlaceInv'
    BY <1>1, <1>2, <2>1 DEF PlaceInv
  <2>7. LineInv'
    <3>1. handled' = handled /\ FileLines' = FileLines
      BY <1>2, <2>1, <2>4 DEF handled, FileLines
    <3>2. \A i \in DOMAIN queue' : queue'[i] = taken' + i
      <4>1. DOMAIN queue' = 1 .. Len(queue) - 1
        BY <2>2, <2>3
      <4>2. ASSUME NEW i \in 1 .. Len(queue) - 1
            PROVE  queue'[i] = taken' + i
        <5>1. i + 1 \in DOMAIN queue
          BY <1>1, <2>2, LogFacts
        <5>2. queue[i + 1] = taken + (i + 1)
          BY <1>1, <5>1 DEF LineInv
        <5>3. QED
          BY <2>2, <2>3, <2>4, <5>2
      <4>3. QED
        BY <4>1, <4>2
    <3>3. line' \in Lines /\ Len(queue') <= logged'
      BY <1>1, <1>2, <2>1, <2>2, <2>3, LogFacts DEF LineInv
    <3>4. QED
      BY <1>1, <1>2, <2>1, <2>4, <3>1, <3>2, <3>3 DEF LineInv
  <2>8. RegionInv' /\ FirstInv'
    BY <1>1, <1>2, <2>1 DEF RegionInv, FirstInv
  <2>9. QED
    BY <2>5, <2>6, <2>7, <2>8 DEF LogInv
<1>5. QED
  BY <1>3, <1>4

(* write_line().  The line in hand is the last one taken, so that it is    *)
(* above every line in the file, and in none of the places yet.            *)
LEMMA WriteLineStep ==
  ASSUME LogInv, WriteLine, IsFiniteSet(dropped)
  PROVE  LogInv' /\ IsFiniteSet(dropped')
<1>1. LogTypes /\ PlaceInv /\ LineInv /\ RegionInv /\ FirstInv
  BY DEF LogInv
<1>2. /\ writer = "writing" /\ grow["writer"] = "out"
      /\ UNCHANGED <<mmap, running, queue, fileSize, main, grow, line, failures, logged,
                     erased>>
  BY DEF WriteLine, WriterStep
<1>3. /\ line = taken /\ line \in Lines /\ line \in Nat \ {0} /\ taken \in Int
      /\ taken' = taken /\ handled = line - 1
      /\ LineSize[line] \in Nat
  <2>1. line = taken /\ line \in Lines
    BY <1>1, <1>2 DEF LineInv
  <2>2. line \in Nat \ {0} /\ LineSize[line] \in Nat
    BY <1>1, <2>1, LogFacts DEF Lines
  <2>3. taken' = taken
    BY <1>2 DEF taken
  <2>4. QED
    BY <1>2, <2>1, <2>2, <2>3 DEF handled
<1>4. /\ 1 .. line - 1 = FileLines \cup dropped \cup erased
      /\ Len(file) + Cardinality(dropped) + Cardinality(erased) = line - 1
      /\ Cardinality(dropped) \in Nat /\ Cardinality(erased) \in Nat
      /\ 1 .. line = (1 .. line - 1) \cup {line}
      /\ line \notin 1 .. line - 1
  <2>1. Cardinality(dropped) \in Nat
    BY FS_CardinalityType
  <2>2. 1 .. line = (1 .. line - 1) \cup {line} /\ line \notin 1 .. line - 1
    BY <1>3
  <2>3. Cardinality(erased) \in Nat
    BY <1>1, ErasedFinite
  <2>4. QED
    BY <1>1, <1>3, <2>1, <2>2, <2>3 DEF LineInv
<1>5. /\ LineEnd = map.used + LineSize[line] /\ LineEnd \in Nat
      /\ map.used \in Nat /\ map.base \in Nat /\ map.len \in Nat /\ failures \in Nat
  BY <1>1, <1>3, LogFacts DEF LineEnd
<1>6. CASE Fits /\ Backed
  <2>1. /\ map' = [map EXCEPT !.used = LineEnd] /\ writer' = "top"
        /\ file' = Append(file, line) /\ dropped' = dropped /\ crashed' = crashed
    BY <1>6 DEF WriteLine, WriterStep
  <2>2. /\ map' \in Maps /\ map'.base = map.base /\ map'.len = map.len
        /\ map'.used = map.used + LineSize[line] /\ map.base # 0
    <3>1. map \in Maps /\ map.base # 0
      BY <1>1, <1>5, <1>6 DEF LogTypes, Fits
    <3>2. QED
      BY <1>5, <2>1, <3>1 DEF Maps
  <2>3. /\ file' \in Seq(Lines) /\ Len(file') = Len(file) + 1
        /\ file'[Len(file) + 1] = line
        /\ \A i \in 1 .. Len(file) : file'[i] = file[i]
    BY <1>1, <1>3, <2>1, AppendProperties DEF LogTypes
  <2>4. /\ Len(file) \in Nat /\ DOMAIN file = 1 .. Len(file)
        /\ DOMAIN file' = 1 .. Len(file) + 1
    BY <1>1, <2>3, LogFacts
  <2>5. LogTypes' /\ PlaceInv'
    BY <1>1, <1>2, <2>1, <2>2, <2>3 DEF LogTypes, PlaceInv
  <2>6. \A i \in DOMAIN file : file[i] \in 1 .. line - 1
    BY <1>4 DEF FileLines
  <2>7. \A i, j \in DOMAIN file' : i < j => file'[i] < file'[j]
    <3>1. SUFFICES ASSUME NEW i \in DOMAIN file', NEW j \in DOMAIN file', i < j
                   PROVE  file'[i] < file'[j]
      OBVIOUS
    <3>2. i \in DOMAIN file /\ file'[i] = file[i] /\ file[i] \in 1 .. line - 1
      BY <2>3, <2>4, <2>6, <3>1
    <3>3. CASE j = Len(file) + 1
      BY <1>3, <2>3, <3>2, <3>3
    <3>4. CASE j \in DOMAIN file
      BY <1>1, <2>3, <2>4, <3>1, <3>2, <3>4 DEF LineInv
    <3>5. QED
      BY <2>4, <3>3, <3>4
  <2>8. FileLines' = FileLines \cup {line}
    <3>1. ASSUME NEW i \in DOMAIN file'
          PROVE  file'[i] \in FileLines \cup {line}
      BY <2>3, <2>4 DEF FileLines
    <3>2. ASSUME NEW i \in DOMAIN file
          PROVE  file[i] \in FileLines'
      BY <2>3, <2>4 DEF FileLines
    <3>3. line \in FileLines'
      BY <2>3, <2>4 DEF FileLines
    <3>4. QED
      BY <3>1, <3>2, <3>3 DEF FileLines
  <2>9. LineInv'
    <3>0. handled' = line
      BY <1>3, <2>1 DEF handled
    <3>1. 1 .. handled' = FileLines' \cup dropped' \cup erased'
      BY <1>2, <1>4, <2>1, <2>8, <3>0
    <3>2. \A i \in DOMAIN file' : file'[i] \notin dropped'
      <4>1. line \notin dropped
        BY <1>4
      <4>2. QED
        BY <1>1, <2>1, <2>3, <2>4, <4>1 DEF LineInv
    <3>3. Len(file') + Cardinality(dropped') + Cardinality(erased') = handled'
      <4>1. Cardinality(dropped') = Cardinality(dropped)
            /\ Cardinality(erased') = Cardinality(erased)
        BY <1>2, <2>1
      <4>2. Len(file) \in Nat /\ Len(file') = Len(file) + 1
        BY <2>3, <2>4
      <4>3. QED
        BY <1>3, <1>4, <3>0, <4>1, <4>2
    <3>4. QED
      BY <1>1, <1>2, <1>3, <2>1, <2>7, <3>1, <3>2, <3>3 DEF LineInv
  <2>10. RegionInv'
    BY <1>1, <1>2, <2>1, <2>2 DEF RegionInv, PlaceInv
  <2>11. FirstInv'
    <3>1. SUFFICES ASSUME failures = 0, mmap, NEW l \in dropped
                   PROVE  map'.used + LineSize[l] > SmallRegion
      BY <1>1, <1>2, <2>1, <2>2 DEF FirstInv
    <3>2. map.used + LineSize[l] > SmallRegion
      BY <1>1, <3>1 DEF FirstInv
    <3>3. l \in Lines
      <4>1. l \in 1 .. line - 1
        BY <1>4
      <4>2. QED
        BY <1>1, <1>3, <4>1, LogFacts DEF Lines
    <3>4. LineSize[l] \in Nat /\ map.used \in Nat /\ SmallRegion \in Nat
      BY <1>1, <3>3, LogFacts
    <3>5. QED
      BY <1>3, <2>2, <3>2, <3>4
  <2>12. QED
    BY <2>1, <2>5, <2>9, <2>10, <2>11 DEF LogInv
<1>7. CASE ~Fits
  <2>1. /\ dropped' = dropped \cup {line} /\ writer' = "top"
        /\ UNCHANGED <<map, file, crashed>>
    BY <1>7 DEF WriteLine, WriterStep
  <2>2. line \notin dropped
    BY <1>4
  <2>3. /\ IsFiniteSet(dropped')
        /\ Cardinality(dropped') = Cardinality(dropped) + 1
    BY <2>1, <2>2, FS_AddElement
  <2>4. LogTypes' /\ PlaceInv'
    BY <1>1, <1>2, <2>1 DEF LogTypes, PlaceInv
  <2>5. LineInv'
    <3>0. handled' = line /\ FileLines' = FileLines
      BY <1>3, <2>1 DEF handled, FileLines
    <3>1. 1 .. handled' = FileLines' \cup dropped' \cup erased'
      BY <1>2, <1>4, <2>1, <3>0
    <3>2. \A i \in DOMAIN file : file[i] \notin dropped'
      <4>1. \A i \in DOMAIN file : file[i] \in 1 .. line - 1
        BY <1>4 DEF FileLines
      <4>2. \A i \in DOMAIN file : file[i] # line
        BY <1>4, <4>1
      <4>3. QED
        BY <1>1, <2>1, <4>2 DEF LineInv
    <3>3. Len(file) + Cardinality(dropped') + Cardinality(erased) = handled'
      <4>1. Len(file) \in Nat
        BY <1>1, LogFacts
      <4>2. QED
        BY <1>3, <1>4, <2>3, <3>0, <4>1
    <3>4. QED
      BY <1>1, <1>2, <1>3, <2>1, <3>1, <3>2, <3>3 DEF LineInv
  <2>6. RegionInv'
    BY <1>1, <1>2, <2>1 DEF RegionInv
  <2>7. FirstInv'
    <3>1. SUFFICES ASSUME failures = 0, mmap
                   PROVE  map.used + LineSize[line] > SmallRegion
      BY <1>1, <1>2, <2>1 DEF FirstInv
    <3>2. map.base = SmallRegion /\ map.len = SmallRegion
      BY <1>1, <1>2, <3>1 DEF FirstInv, PlaceInv
    <3>3. SmallRegion > 0 /\ map.used \in Nat /\ SmallRegion \in Nat
      BY <1>1, LogFacts
    <3>4. QED
      BY <1>3, <1>5, <1>7, <3>2, <3>3 DEF Fits
  <2>8. QED
    BY <2>3, <2>4, <2>5, <2>6, <2>7 DEF LogInv
<1>8. CASE Fits /\ ~Backed
  <2>1. /\ crashed' = TRUE /\ UNCHANGED <<map, writer, file, dropped>>
    BY <1>2, <1>8 DEF WriteLine, WriterStep
  <2>2. failures >= 1
    <3>1. mmap
      BY <1>1, <1>5, <1>8 DEF RegionInv, Fits
    <3>2. failures # 0
      <4>1. SUFFICES ASSUME failures = 0 PROVE FALSE
        OBVIOUS
      <4>2. map.base = SmallRegion /\ map.len = SmallRegion /\ fileSize = SmallRegion
        BY <1>1, <1>2, <3>1, <4>1 DEF FirstInv, PlaceInv
      <4>3. QED
        BY <1>8, <4>2 DEF Fits, Backed
    <3>3. QED
      BY <1>5, <3>2
  <2>3. LogTypes' /\ PlaceInv' /\ RegionInv' /\ FirstInv'
    BY <1>1, <1>2, <2>1, <2>2 DEF LogTypes, PlaceInv, RegionInv, FirstInv
  <2>4. LineInv'
    BY <1>1, <1>2, <2>1, LineSame
  <2>5. QED
    BY <2>1, <2>3, <2>4 DEF LogInv
<1>9. QED
  BY <1>6, <1>7, <1>8

LEMMA WriterExitStep ==
  ASSUME LogInv, WriterExit, ~crashed
  PROVE  LogInv'
<1>1. LogTypes /\ PlaceInv /\ LineInv /\ RegionInv /\ FirstInv
  BY DEF LogInv
<1>2. /\ writer = "exit" /\ writer' = "gone" /\ grow["main"] = "out"
      /\ grow["writer"] = "out"
      /\ map' = [map EXCEPT !.base = 0]
      /\ UNCHANGED <<mmap, running, queue, fileSize, main, grow, line, failures, logged,
                     file, dropped, erased>>
      /\ crashed' \in BOOLEAN
      /\ crashed' => 0 < map.base /\ map.base < map.len
  BY DEF WriterExit, WriterStep, MutexFree
<1>3. map' \in Maps /\ map'.base = 0 /\ map'.used = map.used
  BY <1>1, <1>2 DEF LogTypes, Maps, Sizes
<1>4. LogTypes'
  BY <1>1, <1>2, <1>3 DEF LogTypes
<1>5. crashed' => failures >= 1
  <2>1. SUFFICES ASSUME crashed' PROVE failures # 0
    BY <1>1, LogFacts
  <2>2. mmap /\ map.base # map.len
    BY <1>1, <1>2, <2>1, LogFacts DEF RegionInv
  <2>3. QED
    BY <1>1, <1>2, <2>2 DEF FirstInv, PlaceInv
<1>6. PlaceInv' /\ RegionInv' /\ FirstInv'
  <2>1. \A t \in Growers : grow'[t] = "out"
    BY <1>2 DEF Growers
  <2>2. QED
    BY <1>1, <1>2, <1>3, <1>5, <2>1 DEF PlaceInv, RegionInv, FirstInv
<1>7. LineInv'
  BY <1>1, <1>2, LineSame
<1>8. QED
  BY <1>4, <1>6, <1>7 DEF LogInv

\* dropped is finite, which its cardinality supposes.
LogIndInv == LogInv /\ IsFiniteSet(dropped)

LEMMA LogInvNext == LogIndInv /\ [TelemetryNext]_telemetryVars => LogIndInv'
<1>1. SUFFICES ASSUME LogIndInv, [TelemetryNext]_telemetryVars PROVE LogIndInv'
  OBVIOUS
<1>2. LogInv /\ IsFiniteSet(dropped)
  BY <1>1 DEF LogIndInv
<1>3. CASE UNCHANGED logVars
  <2>1. /\ LogTypes' /\ PlaceInv' /\ RegionInv' /\ FirstInv' /\ dropped' = dropped
        /\ UNCHANGED <<queue, logged, line, file, dropped, erased, writer>>
    BY <1>2, <1>3 DEF LogInv, LogTypes, PlaceInv, RegionInv, FirstInv, logVars
  <2>2. LineInv'
    BY <1>2, <2>1, LineSame DEF LogInv
  <2>3. QED
    BY <1>2, <2>1, <2>2 DEF LogInv, LogIndInv
<1>4. CASE WriteLine
  BY <1>2, <1>4, WriteLineStep DEF LogIndInv
<1>5. ASSUME NEW t \in Growers, Grow(t) PROVE LogIndInv'
  <2>1. LogInv'
    BY <1>2, <1>5, MapStep, UsedStep DEF Grow
  <2>2. dropped' = dropped
    BY <1>5 DEF Grow, Truncate, MapFile, StoreLen, StoreUsed
  <2>3. QED
    BY <1>2, <2>1, <2>2 DEF LogIndInv
<1>6. CASE /\ ~crashed
           /\ \/ Preallocate \/ LogStart \/ FirstLine \/ PreallocateBig \/ Notify
              \/ LogJoin \/ LogStop \/ Push \/ WriterGrow \/ WriterTest \/ WriterSleep
              \/ WriterExit \/ SpuriousWakeUp
  <2>1. LogInv'
    BY <1>2, <1>6, MoveStep, EnterStep, PreallocateStep, PushStep, TestStep, WriterExitStep
  <2>2. dropped' = dropped
    BY <1>6 DEF Preallocate, LogStart, FirstLine, PreallocateBig, Notify, LogJoin, LogStop,
         Push, WriterGrow, WriterTest, WriterSleep, WriterExit, SpuriousWakeUp
  <2>3. QED
    BY <1>2, <2>1, <2>2 DEF LogIndInv
<1>7. ASSUME NEW t \in Markers, BenchMark(t) PROVE UNCHANGED logVars
  BY <1>7 DEF BenchMark, ClaimSlot, ClaimSeq, WriteSample, Publish, MarkStep
<1>8. "main" \in Growers /\ "writer" \in Growers
  BY DEF Growers
<1>9. QED
  BY <1>1, <1>3, <1>4, <1>5, <1>6, <1>7, <1>8
     DEF TelemetryNext, MainThread, WriterThread, telemetryVars

-----------------------------------------------------------------------------
(* The benchmark ring.                                                     *)

LEMMA RingFacts ==
  /\ RingSlots \in Nat \ {0} /\ MaxMarks \in Nat
  /\ \A k \in Nat : k % RingSlots \in 0 .. RingSlots - 1
<1>1. RingSlots \in Nat \ {0} /\ MaxMarks \in Nat
  BY TelemetryAssumption
<1>2. QED
  BY <1>1

LEMMA AtFinite ==
  ASSUME NEW steps
  PROVE  IsFiniteSet(At(steps)) /\ Cardinality(At(steps)) \in Nat
<1>1. At(steps) \in SUBSET Markers /\ IsFiniteSet(Markers)
  BY TelemetryAssumption DEF At
<1>2. QED
  BY <1>1, FS_Subset, FS_CardinalityType

\* A thread that takes a step of bench_mark() enters or leaves such sets.
LEMMA MarkMoves ==
  ASSUME mark \in [Markers -> Marks], NEW t \in Markers, NEW m \in Marks,
         mark' = [mark EXCEPT ![t] = m], NEW steps
  PROVE  /\ mark' \in [Markers -> Marks] /\ mark'[t] = m
         /\ \A u \in Markers : u # t => mark'[u] = mark[u]
         /\ mark[t].at \in steps /\ m.at \notin steps =>
              Cardinality(At(steps))' = Cardinality(At(steps)) - 1
         /\ mark[t].at \notin steps /\ m.at \in steps =>
              Cardinality(At(steps))' = Cardinality(At(steps)) + 1
         /\ (mark[t].at \in steps <=> m.at \in steps) =>
              Cardinality(At(steps))' = Cardinality(At(steps))
<1>1. /\ mark' \in [Markers -> Marks] /\ mark'[t] = m
      /\ \A u \in Markers : u # t => mark'[u] = mark[u]
  OBVIOUS
<1>2. IsFiniteSet(At(steps)) /\ Cardinality(At(steps)) \in Nat
  BY AtFinite
<1>3. t \in At(steps) <=> mark[t].at \in steps
  BY DEF At
<1>4. CASE mark[t].at \in steps /\ m.at \notin steps
  <2>1. At(steps)' = At(steps) \ {t}
    BY <1>1, <1>4 DEF At
  <2>2. Cardinality(At(steps) \ {t}) = Cardinality(At(steps)) - 1
    BY <1>2, <1>3, <1>4, FS_RemoveElement
  <2>3. QED
    BY <1>1, <1>4, <2>1, <2>2
<1>5. CASE mark[t].at \notin steps /\ m.at \in steps
  <2>1. At(steps)' = At(steps) \cup {t}
    BY <1>1, <1>5 DEF At
  <2>2. Cardinality(At(steps) \cup {t}) = Cardinality(At(steps)) + 1
    BY <1>2, <1>3, <1>5, FS_AddElement
  <2>3. QED
    BY <1>1, <1>5, <2>1, <2>2
<1>6. CASE mark[t].at \in steps <=> m.at \in steps
  <2>1. At(steps)' = At(steps)
    BY <1>1, <1>6 DEF At
  <2>2. QED
    BY <1>1, <1>6, <2>1
<1>7. QED
  BY <1>4, <1>5, <1>6

LEMMA BenchInvInit == TelemetryInit => BenchInv
<1>1. SUFFICES ASSUME TelemetryInit PROVE BenchInv
  OBVIOUS
<1>2. BenchTypes
  <2>1. 0 \in 0 .. RingSlots - 1 /\ 0 \in 0 .. MaxMarks
    BY RingFacts
  <2>2. [at |-> "idle", slot |-> 0, seq |-> 0] \in Marks
    BY <2>1 DEF Marks
  <2>3. QED
    BY <1>1, <2>1, <2>2 DEF TelemetryInit, BenchTypes
<1>3. ASSUME NEW steps, "idle" \notin steps PROVE At(steps) = {}
  BY <1>1, <1>3 DEF TelemetryInit, At
<1>4. /\ At({"seq", "written"}) = {} /\ At({"slot", "seq", "written"}) = {}
      /\ At({"slot"}) = {}
  BY <1>3
<1>5. Cardinality({}) = 0
  BY FS_EmptySet
<1>6. head = 0 /\ pub = 0 /\ seq = 0
  BY <1>1 DEF TelemetryInit
<1>7. SlotInv
  <2>1. 0 .. head - 1 = {}
    BY <1>6
  <2>2. QED
    BY <1>4, <2>1 DEF SlotInv
<1>8. CountInv
  BY <1>4, <1>5, <1>6 DEF CountInv
<1>9. QED
  BY <1>2, <1>7, <1>8 DEF BenchInv

LEMMA ClaimSlotStep ==
  ASSUME BenchInv, NEW t \in Markers, ClaimSlot(t)
  PROVE  BenchInv'
<1>1. BenchTypes /\ SlotInv /\ CountInv
  BY DEF BenchInv
<1> DEFINE m == [mark[t] EXCEPT !.at = "slot", !.slot = head % RingSlots]
<1>2. /\ mark[t].at = "idle" /\ head < MaxMarks /\ head' = head + 1
      /\ UNCHANGED <<seq, pub, slots>>
      /\ mark' = [mark EXCEPT ![t] = m]
  BY <1>1 DEF ClaimSlot, BenchTypes
<1>3. /\ head \in Nat /\ head % RingSlots \in 0 .. RingSlots - 1
      /\ mark \in [Markers -> Marks] /\ head' \in 0 .. MaxMarks
  BY <1>1, <1>2, RingFacts DEF BenchTypes
<1>4. m \in Marks /\ m.at = "slot" /\ m.slot = head % RingSlots
  BY <1>3 DEF Marks
<1> HIDE DEF m
<1>5. /\ mark' \in [Markers -> Marks] /\ mark'[t] = m
      /\ \A u \in Markers : u # t => mark'[u] = mark[u]
  BY <1>2, <1>3, <1>4
<1>6. BenchTypes'
  BY <1>1, <1>2, <1>3, <1>5 DEF BenchTypes
<1>7. SlotInv'
  <2>1. ASSUME NEW u \in Markers, mark'[u].at \in {"seq", "written"}
        PROVE  mark'[u].seq > 0
    BY <1>1, <1>4, <1>5, <2>1 DEF SlotInv, At
  <2>2. ASSUME NEW k \in 0 .. head, slots[k % RingSlots] = 0
        PROVE  \E u \in Markers : /\ mark'[u].at \in {"slot", "seq"}
                                  /\ mark'[u].slot = k % RingSlots
    <3>1. CASE k = head
      BY <1>4, <1>5, <3>1
    <3>2. CASE k # head
      <4>1. k \in 0 .. head - 1
        BY <1>3, <3>2
      <4>2. PICK u \in At({"slot", "seq"}) : mark[u].slot = k % RingSlots
        BY <1>1, <2>2, <4>1 DEF SlotInv
      <4>3. u \in Markers /\ u # t
        BY <1>2, <4>2 DEF At
      <4>4. QED
        BY <1>5, <4>2, <4>3 DEF At
    <3>3. QED
      BY <3>1, <3>2
  <2>3. 0 .. head' - 1 = 0 .. head
    BY <1>2, <1>3
  <2>4. QED
    BY <1>2, <2>1, <2>2, <2>3 DEF SlotInv, At
<1>8. CountInv'
  <2>1. ASSUME NEW steps, "slot" \in steps, "idle" \notin steps
        PROVE  Cardinality(At(steps))' = Cardinality(At(steps)) + 1
    <3>1. mark[t].at \notin steps /\ m.at \in steps
      BY <1>2, <1>4, <2>1
    <3>2. QED
      BY <1>2, <1>3, <1>4, <3>1, MarkMoves
  <2>2. /\ Cardinality(At({"slot", "seq", "written"}))'
             = Cardinality(At({"slot", "seq", "written"})) + 1
        /\ Cardinality(At({"slot"}))' = Cardinality(At({"slot"})) + 1
    BY <2>1
  <2>3. pub \in Nat /\ seq \in Nat
    BY <1>1 DEF BenchTypes
  <2>4. QED
    BY <1>1, <1>2, <1>3, <2>2, <2>3, AtFinite DEF CountInv
<1>9. QED
  BY <1>6, <1>7, <1>8 DEF BenchInv

LEMMA ClaimSeqStep ==
  ASSUME BenchInv, NEW t \in Markers, ClaimSeq(t)
  PROVE  BenchInv'
<1>1. BenchTypes /\ SlotInv /\ CountInv
  BY DEF BenchInv
<1> DEFINE m == [mark[t] EXCEPT !.at = "seq", !.seq = seq + 1]
<1>2. /\ mark[t].at = "slot" /\ seq' = seq + 1 /\ UNCHANGED <<head, pub, slots>>
      /\ mark' = [mark EXCEPT ![t] = m]
  BY <1>1 DEF ClaimSeq, BenchTypes
<1>3. head \in Nat /\ seq \in Nat /\ pub \in Nat /\ mark \in [Markers -> Marks]
  BY <1>1, RingFacts DEF BenchTypes
<1>4. m \in Marks /\ m.at = "seq" /\ m.slot = mark[t].slot /\ m.seq = seq + 1
  <2>1. mark[t] \in Marks /\ seq + 1 \in Nat
    BY <1>3
  <2>2. QED
    BY <2>1 DEF Marks
<1> HIDE DEF m
<1>5. /\ mark' \in [Markers -> Marks] /\ mark'[t] = m
      /\ \A u \in Markers : u # t => mark'[u] = mark[u]
  BY <1>2, <1>3, <1>4
<1>6. BenchTypes'
  BY <1>1, <1>2, <1>3, <1>5 DEF BenchTypes
<1>7. SlotInv'
  <2>1. ASSUME NEW u \in Markers, mark'[u].at \in {"seq", "written"}
        PROVE  mark'[u].seq > 0
    <3>1. CASE u = t
      BY <1>3, <1>4, <1>5, <3>1
    <3>2. CASE u # t
      BY <1>1, <1>5, <2>1, <3>2 DEF SlotInv, At
    <3>3. QED
      BY <3>1, <3>2
  <2>2. ASSUME NEW u \in At({"slot", "seq"})
        PROVE  u \in At({"slot", "seq"})' /\ mark'[u].slot = mark[u].slot
    BY <1>4, <1>5 DEF At
  <2>3. QED
    BY <1>1, <1>2, <2>1, <2>2 DEF SlotInv, At
<1>8. CountInv'
  <2>1. Cardinality(At({"slot", "seq", "written"}))'
          = Cardinality(At({"slot", "seq", "written"}))
    <3>1. ASSUME NEW steps, "slot" \in steps, "seq" \in steps
          PROVE  Cardinality(At(steps))' = Cardinality(At(steps))
      <4>1. mark[t].at \in steps /\ m.at \in steps
        BY <1>2, <1>4, <3>1
      <4>2. QED
        BY <1>2, <1>3, <1>4, <4>1, MarkMoves
    <3>2. QED
      BY <3>1
  <2>2. Cardinality(At({"slot"}))' = Cardinality(At({"slot"})) - 1
    <3>1. ASSUME NEW steps, "slot" \in steps, "seq" \notin steps
          PROVE  Cardinality(At(steps))' = Cardinality(At(steps)) - 1
      <4>1. mark[t].at \in steps /\ m.at \notin steps
        BY <1>2, <1>4, <3>1
      <4>2. QED
        BY <1>2, <1>3, <1>4, <4>1, MarkMoves
    <3>2. QED
      BY <3>1
  <2>3. QED
    BY <1>1, <1>2, <1>3, <2>1, <2>2, AtFinite DEF CountInv
<1>9. QED
  BY <1>6, <1>7, <1>8 DEF BenchInv

LEMMA WriteSampleStep ==
  ASSUME BenchInv, NEW t \in Markers, WriteSample(t)
  PROVE  BenchInv'
<1>1. BenchTypes /\ SlotInv /\ CountInv
  BY DEF BenchInv
<1> DEFINE m == [mark[t] EXCEPT !.at = "written"]
<1>2. /\ mark[t].at = "seq" /\ UNCHANGED <<head, seq, pub>>
      /\ slots' = [slots EXCEPT ![mark[t].slot] = mark[t].seq]
      /\ mark' = [mark EXCEPT ![t] = m]
  BY <1>1 DEF WriteSample, MarkStep, BenchTypes
<1>3. /\ head \in Nat /\ mark \in [Markers -> Marks]
      /\ slots \in [0 .. RingSlots - 1 -> Nat]
  <2>1. head \in Nat
    BY <1>1, RingFacts DEF BenchTypes
  <2>2. QED
    BY <1>1, <2>1 DEF BenchTypes
<1>4. /\ m \in Marks /\ m.at = "written" /\ m.seq = mark[t].seq
      /\ mark[t].slot \in 0 .. RingSlots - 1 /\ mark[t].seq \in Nat
  BY <1>3 DEF Marks
<1> HIDE DEF m
<1>5. /\ mark' \in [Markers -> Marks] /\ mark'[t] = m
      /\ \A u \in Markers : u # t => mark'[u] = mark[u]
  BY <1>2, <1>3, <1>4
<1>6. BenchTypes'
  BY <1>1, <1>2, <1>3, <1>4, <1>5 DEF BenchTypes
<1>7. SlotInv'
  <2>0. mark[t].seq > 0
    BY <1>1, <1>2 DEF SlotInv, At
  <2>1. ASSUME NEW u \in Markers, mark'[u].at \in {"seq", "written"}
        PROVE  mark'[u].seq > 0
    <3>1. CASE u = t
      BY <1>4, <1>5, <2>0, <3>1
    <3>2. CASE u # t
      BY <1>1, <1>5, <2>1, <3>2 DEF SlotInv, At
    <3>3. QED
      BY <3>1, <3>2
  <2>2. ASSUME NEW k \in 0 .. head - 1, slots'[k % RingSlots] = 0
        PROVE  \E u \in Markers : /\ mark'[u].at \in {"slot", "seq"}
                                  /\ mark'[u].slot = k % RingSlots
    <3>1. k % RingSlots \in 0 .. RingSlots - 1
      <4>1. k \in Nat
        BY <1>3
      <4>2. QED
        BY <4>1, RingFacts
    <3>2. k % RingSlots # mark[t].slot /\ slots[k % RingSlots] = 0
      <4>1. slots'[mark[t].slot] = mark[t].seq /\ mark[t].seq # 0
        BY <1>2, <1>3, <1>4, <2>0
      <4>2. k % RingSlots # mark[t].slot
        BY <2>2, <4>1
      <4>3. QED
        BY <1>2, <1>3, <2>2, <3>1, <4>2
    <3>3. PICK u \in At({"slot", "seq"}) : mark[u].slot = k % RingSlots
      BY <1>1, <3>2 DEF SlotInv
    <3>4. u \in Markers /\ u # t
      BY <3>2, <3>3 DEF At
    <3>5. QED
      BY <1>5, <3>3, <3>4 DEF At
  <2>3. QED
    BY <1>2, <2>1, <2>2 DEF SlotInv, At
<1>8. CountInv'
  <2>1. Cardinality(At({"slot", "seq", "written"}))'
          = Cardinality(At({"slot", "seq", "written"}))
    <3>1. ASSUME NEW steps, "seq" \in steps, "written" \in steps
          PROVE  Cardinality(At(steps))' = Cardinality(At(steps))
      <4>1. mark[t].at \in steps /\ m.at \in steps
        BY <1>2, <1>4, <3>1
      <4>2. QED
        BY <1>2, <1>3, <1>4, <4>1, MarkMoves
    <3>2. QED
      BY <3>1
  <2>2. Cardinality(At({"slot"}))' = Cardinality(At({"slot"}))
    <3>1. ASSUME NEW steps, "seq" \notin steps, "written" \notin steps
          PROVE  Cardinality(At(steps))' = Cardinality(At(steps))
      <4>1. mark[t].at \notin steps /\ m.at \notin steps
        BY <1>2, <1>4, <3>1
      <4>2. QED
        BY <1>2, <1>3, <1>4, <4>1, MarkMoves
    <3>2. QED
      BY <3>1
  <2>3. QED
    BY <1>1, <1>2, <2>1, <2>2 DEF CountInv
<1>9. QED
  BY <1>6, <1>7, <1>8 DEF BenchInv

LEMMA PublishStep ==
  ASSUME BenchInv, NEW t \in Markers, Publish(t)
  PROVE  BenchInv'
<1>1. BenchTypes /\ SlotInv /\ CountInv
  BY DEF BenchInv
<1> DEFINE m == [mark[t] EXCEPT !.at = "idle"]
<1>2. /\ mark[t].at = "written" /\ UNCHANGED <<head, seq, slots>> /\ pub' = pub + 1
      /\ mark' = [mark EXCEPT ![t] = m]
  BY <1>1 DEF Publish, MarkStep, BenchTypes
<1>3. head \in Nat /\ pub \in Nat /\ mark \in [Markers -> Marks]
  BY <1>1, RingFacts DEF BenchTypes
<1>4. m \in Marks /\ m.at = "idle"
  BY <1>3 DEF Marks
<1> HIDE DEF m
<1>5. /\ mark' \in [Markers -> Marks] /\ mark'[t] = m
      /\ \A u \in Markers : u # t => mark'[u] = mark[u]
  BY <1>2, <1>3, <1>4
<1>6. BenchTypes'
  BY <1>1, <1>2, <1>3, <1>5 DEF BenchTypes
<1>7. SlotInv'
  <2>1. ASSUME NEW u \in Markers, mark'[u].at \in {"seq", "written"}
        PROVE  mark'[u].seq > 0
    BY <1>1, <1>4, <1>5, <2>1 DEF SlotInv, At
  <2>2. ASSUME NEW u \in At({"slot", "seq"})
        PROVE  u \in At({"slot", "seq"})' /\ mark'[u].slot = mark[u].slot
    BY <1>2, <1>5 DEF At
  <2>3. QED
    BY <1>1, <1>2, <2>1, <2>2 DEF SlotInv, At
<1>8. CountInv'
  <2>1. Cardinality(At({"slot", "seq", "written"}))'
          = Cardinality(At({"slot", "seq", "written"})) - 1
    <3>1. ASSUME NEW steps, "written" \in steps, "idle" \notin steps
          PROVE  Cardinality(At(steps))' = Cardinality(At(steps)) - 1
      <4>1. mark[t].at \in steps /\ m.at \notin steps
        BY <1>2, <1>4, <3>1
      <4>2. QED
        BY <1>2, <1>3, <1>4, <4>1, MarkMoves
    <3>2. QED
      BY <3>1
  <2>2. Cardinality(At({"slot"}))' = Cardinality(At({"slot"}))
    <3>1. ASSUME NEW steps, "written" \notin steps, "idle" \notin steps
          PROVE  Cardinality(At(steps))' = Cardinality(At(steps))
      <4>1. mark[t].at \notin steps /\ m.at \notin steps
        BY <1>2, <1>4, <3>1
      <4>2. QED
        BY <1>2, <1>3, <1>4, <4>1, MarkMoves
    <3>2. QED
      BY <3>1
  <2>3. QED
    BY <1>1, <1>2, <1>3, <2>1, <2>2, AtFinite DEF CountInv
<1>9. QED
  BY <1>6, <1>7, <1>8 DEF BenchInv

LEMMA BenchInvNext == BenchInv /\ [TelemetryNext]_telemetryVars => BenchInv'
<1>1. SUFFICES ASSUME BenchInv, [TelemetryNext]_telemetryVars PROVE BenchInv'
  OBVIOUS
<1>2. CASE UNCHANGED benchVars
  <2>1. UNCHANGED <<head, seq, pub, slots, mark>>
    BY <1>2 DEF benchVars
  <2>2. \A steps : At(steps)' = At(steps)
    BY <2>1 DEF At
  <2>3. QED
    BY <1>1, <2>1, <2>2 DEF BenchInv, BenchTypes, SlotInv, CountInv
<1>3. ASSUME NEW t \in Markers, BenchMark(t) PROVE BenchInv'
  BY <1>1, <1>3, ClaimSlotStep, ClaimSeqStep, WriteSampleStep, PublishStep DEF BenchMark
<1>4. QED
  BY <1>1, <1>2, <1>3 DEF TelemetryNext, telemetryVars

-----------------------------------------------------------------------------
LEMMA MarksFromInv == BenchInv => MarksAccounted
<1>1. SUFFICES ASSUME BenchInv PROVE MarksAccounted
  OBVIOUS
<1> DEFINE busy == {t \in Markers : mark[t].at # "idle"}
           lesser == IF pub < RingSlots THEN pub ELSE RingSlots
           walked == {(pub - 1 - k) % RingSlots : k \in 0 .. lesser - 1}
           zeros == {i \in walked : slots[i] = 0}
           under == At({"slot", "seq"})
           claimed == {mark[t].slot : t \in under}
<1>2. BenchTypes /\ SlotInv /\ CountInv
  BY <1>1 DEF BenchInv
<1>3. \A t \in Markers : mark[t].at \in {"idle", "slot", "seq", "written"}
  BY <1>2 DEF BenchTypes, Marks
<1>4. /\ busy = At({"slot", "seq", "written"})
      /\ {t \in busy : mark[t].at = "slot"} = At({"slot"})
      /\ {t \in busy : mark[t].at \in {"slot", "seq"}} = under
  BY <1>3 DEF At
<1>5. head \in Nat /\ pub \in Nat /\ pub <= head
  <2>1. head \in Nat /\ pub \in Nat
    BY <1>2, RingFacts DEF BenchTypes
  <2>2. Cardinality(At({"slot", "seq", "written"})) \in Nat
    BY AtFinite
  <2>3. QED
    BY <1>2, <2>1, <2>2 DEF CountInv
<1>6. zeros \subseteq claimed
  <2>1. SUFFICES ASSUME NEW k \in 0 .. lesser - 1, slots[(pub - 1 - k) % RingSlots] = 0
                 PROVE  (pub - 1 - k) % RingSlots \in claimed
    OBVIOUS
  <2>2. lesser \in Nat /\ lesser <= pub
    BY <1>5, RingFacts
  <2>3. pub - 1 - k \in 0 .. head - 1
    BY <1>5, <2>2
  <2>4. PICK t \in At({"slot", "seq"}) : mark[t].slot = (pub - 1 - k) % RingSlots
    BY <1>2, <2>1, <2>3 DEF SlotInv
  <2>5. QED
    BY <2>4
<1>7. Cardinality(zeros) <= Cardinality(under)
  <2> DEFINE f == [t \in under |-> mark[t].slot]
  <2>1. IsFiniteSet(under) /\ Cardinality(under) \in Nat
    BY AtFinite
  <2>2. f \in Surjection(under, claimed)
    BY DEF Surjection
  <2>3. IsFiniteSet(claimed) /\ Cardinality(claimed) <= Cardinality(under)
    BY <2>1, <2>2, FS_Surjection
  <2>4. IsFiniteSet(zeros) /\ Cardinality(zeros) <= Cardinality(claimed)
    BY <1>6, <2>3, FS_Subset
  <2>5. Cardinality(zeros) \in Nat /\ Cardinality(claimed) \in Nat
    BY <2>3, <2>4, FS_CardinalityType
  <2>6. QED
    BY <2>1, <2>3, <2>4, <2>5
<1>8. QED
  BY <1>2, <1>4, <1>7 DEF MarksAccounted, CountInv

(* telemetry.cpp:209-226, 249-255.  Whatever threads mark at once, and     *)
(* however many there are, pub falls behind the claimed slots by the marks *)
(* under way only, and bench_stats() meets no more unwritten slots than    *)
(* there are marks under way: an unwritten slot below head has a claimer   *)
(* that has not written it yet.                                            *)
THEOREM TelemetryMarksAccounted == TelemetrySpec => []MarksAccounted
<1>1. TelemetrySpec => []BenchInv
  BY BenchInvInit, BenchInvNext, PTL DEF TelemetrySpec
<1>2. QED
  BY <1>1, MarksFromInv, PTL

LEMMA LinesFromInv == LogIndInv /\ BenchTypes => LinesAccounted
<1>1. SUFFICES ASSUME LogIndInv, BenchTypes PROVE LinesAccounted
  OBVIOUS
<1> DEFINE inHand == IF writer = "writing" THEN {line} ELSE {}
           queued == {queue[i] : i \in DOMAIN queue}
<1>2. /\ LogTypes /\ PlaceInv /\ LineInv /\ RegionInv /\ FirstInv
      /\ IsFiniteSet(dropped)
  BY <1>1 DEF LogIndInv, LogInv
<1>3. TelemetryTypeOK
  <2>1. {map.base, map.len, fileSize} \subseteq
          {0, SmallRegion, DefaultRegion, BigRegion}
    BY <1>2 DEF LogTypes, Maps, Sizes
  <2>2. \A t \in Markers : mark[t].slot \in DOMAIN slots
    BY <1>1 DEF BenchTypes, Marks
  <2>3. QED
    BY <1>1, <1>2, <2>1, <2>2 DEF TelemetryTypeOK, LogTypes, GrowPlaces, BenchTypes
<1>4. /\ logged \in Nat /\ Len(queue) \in Nat /\ Len(file) \in Nat
      /\ Len(queue) <= logged /\ taken = logged - Len(queue)
      /\ DOMAIN queue = 1 .. Len(queue)
  BY <1>2, LogFacts DEF LineInv, taken
<1>5. queued = taken + 1 .. logged
  <2>1. ASSUME NEW i \in DOMAIN queue PROVE queue[i] \in taken + 1 .. logged
    <3>1. queue[i] = taken + i
      BY <1>2 DEF LineInv
    <3>2. QED
      BY <1>4, <3>1
  <2>2. ASSUME NEW n \in taken + 1 .. logged PROVE n \in queued
    <3>1. n - taken \in DOMAIN queue /\ taken + (n - taken) = n
      BY <1>4
    <3>2. queue[n - taken] = n
      BY <1>2, <3>1 DEF LineInv
    <3>3. QED
      BY <3>1, <3>2
  <2>3. QED
    BY <2>1, <2>2
<1>6. /\ 1 .. taken = (1 .. handled) \cup inHand
      /\ handled + Cardinality(inHand) = taken
  <2>1. CASE writer = "writing"
    <3>1. /\ inHand = {line} /\ line = taken /\ handled = taken - 1 /\ taken \in Int
          /\ line \in Nat \ {0}
      <4>1. inHand = {line} /\ line = taken /\ handled = taken - 1 /\ line \in Lines
        BY <1>2, <2>1 DEF LineInv, handled
      <4>2. line \in Nat \ {0}
        BY <1>2, <4>1, LogFacts DEF Lines
      <4>3. QED
        BY <4>1, <4>2
    <3>2. Cardinality({line}) = 1
      BY FS_Singleton
    <3>3. 1 .. taken = (1 .. taken - 1) \cup {taken}
      BY <3>1
    <3>4. QED
      BY <3>1, <3>2, <3>3
  <2>2. CASE writer # "writing"
    <3>1. inHand = {} /\ handled = taken /\ taken \in Int
      BY <1>4, <2>2 DEF handled
    <3>2. Cardinality({}) = 0
      BY FS_EmptySet
    <3>3. QED
      BY <3>1, <3>2
  <2>3. QED
    BY <2>1, <2>2
<1>7. 1 .. logged = FileLines \cup inHand \cup queued \cup dropped \cup erased
  <2>1. 1 .. logged = (1 .. taken) \cup (taken + 1 .. logged)
    BY <1>4
  <2>2. 1 .. handled = FileLines \cup dropped \cup erased
    BY <1>2 DEF LineInv
  <2>3. QED
    BY <1>5, <1>6, <2>1, <2>2
<1>8. Len(file) + Cardinality(inHand) + Len(queue) + Cardinality(dropped)
        + Cardinality(erased) = logged
  <2>1. Len(file) + Cardinality(dropped) + Cardinality(erased) = handled
    BY <1>2 DEF LineInv
  <2>2. Cardinality(dropped) \in Nat
    BY <1>2, FS_CardinalityType
  <2>3. Cardinality(inHand) \in Nat
    <3>1. IsFiniteSet(inHand)
      BY FS_Singleton, FS_EmptySet
    <3>2. QED
      BY <3>1, FS_CardinalityType
  <2>4. Cardinality(erased) \in Nat
    BY <1>2, ErasedFinite
  <2>5. QED
    BY <1>4, <1>6, <2>1, <2>2, <2>3, <2>4
<1>9. main = "returned" => queue = <<>> /\ writer = "gone"
  BY <1>2 DEF PlaceInv
<1>10. \A i, j \in DOMAIN file : i < j => file[i] < file[j]
  BY <1>2 DEF LineInv
<1>11. /\ crashed => failures >= 1
       /\ erased # {} => failures >= 2 /\ erased = {1}
  BY <1>2 DEF RegionInv
<1>12. failures = 0 /\ mmap =>
         \A l \in dropped : map.used + LineSize[l] > SmallRegion
  BY <1>2 DEF FirstInv
<1> HIDE DEF inHand, queued
<1>13. QED
  BY <1>3, <1>7, <1>8, <1>9, <1>10, <1>11, <1>12 DEF LinesAccounted, inHand, queued

(* telemetry.cpp:86-98, 111-153.  No line is lost or written twice between *)
(* the queue, the writer's hand, the file, the dropped and the erased ones *)
(* whatever the interleaving of the two calls of grow_mmap(), which share  *)
(* no lock; the file is in the order of logging, and nothing is queued     *)
(* once stop() has returned.  Only after one failed attempt to map does    *)
(* the process crash, and only after two is a written line reset: the      *)
(* first, and no other.  For any lines, region sizes and number of         *)
(* failures.                                                               *)
THEOREM TelemetryLinesAccounted == TelemetrySpec => []LinesAccounted
<1>1. TelemetryInit => LogIndInv
  BY LogInvInit, FS_EmptySet DEF LogIndInv, TelemetryInit
<1>2. TelemetrySpec => []LogIndInv
  BY <1>1, LogInvNext, PTL DEF TelemetrySpec
<1>3. TelemetrySpec => []BenchInv
  BY BenchInvInit, BenchInvNext, PTL DEF TelemetrySpec
<1>4. BenchInv => BenchTypes
  BY DEF BenchInv
<1>5. QED
  BY <1>2, <1>3, <1>4, LinesFromInv, PTL
=============================================================================
