----------------------------- MODULE InputTheorems -----------------------------
(***************************************************************************)
(* The input.  The reader of lines is free of races, its assertions hold,  *)
(* and what it returns is the stream of the file's lines: for every length *)
(* of a block, every file, with and without the thread, whenever reads     *)
(* fail and however the two threads interleave.  The command line is read  *)
(* in pairs, the reader of rows gives each variable the column of its      *)
(* name, cells and numbers are read as they are written, and trades and    *)
(* snapshots are loaded as the lines of their files say.                   *)
(***************************************************************************)
EXTENDS LineReader, CommandLine, CsvReader, CsvCells, CsvNumbers, LobLoader, TradesLoader,
        SumTheorems, FiniteSetTheorems

----------------------------------------------------------------------------
(* The inductive invariant.                                                *)

\* Who may be where: a read is asked for only while the owner keeps out of
\* the third block, and no thread is left when the reader is gone.
Threads ==
  /\ worker = "none" <=> ~(IsValid /\ threaded)
  /\ worker = "reading" => desired_byte_count # -1
  /\ threaded /\ desired_byte_count # -1 =>
       read_byte_count = -1 /\ caller \notin {"constructing", "copying", "starting"}
  /\ caller = "destroyed" => worker \in {"none", "ended"}

\* Where the data are: in the first two blocks, and when a line is looked
\* for it starts in the first.
Bounds ==
  /\ data_begin <= data_end /\ data_end <= 2 * BlockLen
  /\ caller \in {"finishing", "sleeping"} => data_begin < data_end /\ data_end <= BlockLen
  /\ caller \in {"copying", "starting", "scanning"} => data_begin < data_end /\ data_begin < BlockLen
  /\ caller = "constructing" => outcome = "none"

\* The line that was returned last lies there too, as it was returned.
Returned ==
  caller = "outside" /\ outcome = "line" =>
    /\ delivered # << >>
    /\ line_at + Len(delivered[Len(delivered)]) <= 2 * BlockLen
    /\ LineStays

LineInv == LineTypeOK /\ Threads /\ Bounds /\ Returned

----------------------------------------------------------------------------
(* What a read gives: at most a block, and at most what there is.          *)
LEMMA GivenBounds ==
  ASSUME LineTypeOK
  PROVE  Given \in 0..BlockLen /\ offset + Given <= Len(file)
<1>1. file \in Seq({"newline", "return", "bom", "other"}) /\ offset \in 0..Len(file)
  BY FilesAssumption DEF LineTypeOK
<1>2. {BlockLen, Len(file) - offset} \in SUBSET Nat
  BY <1>1, BlockAssumption
<1>3. /\ Min({BlockLen, Len(file) - offset}) \in {BlockLen, Len(file) - offset}
      /\ \A y \in {BlockLen, Len(file) - offset} : Min({BlockLen, Len(file) - offset}) <= y
  BY <1>2, LeastOf
<1> QED BY <1>1, <1>3, BlockAssumption DEF Given

(* A read that goes to the third block leaves the first two alone, and     *)
(* fills it with places of the file.                                       *)
LEMMA FilledCells ==
  ASSUME LineTypeOK
  PROVE  /\ Filled(Target) \in [Slots -> 0..Len(file)]
         /\ \A c \in Slots : c < 2 * BlockLen => Filled(Target)[c] = buffer[c]
<1>1. file \in Seq({"newline", "return", "bom", "other"}) /\ offset \in 0..Len(file)
      /\ buffer \in [Slots -> 0..Len(file)] /\ Len(file) \in Nat
  BY FilesAssumption DEF LineTypeOK
<1>2. Given \in 0..BlockLen /\ offset + Given <= Len(file)
  BY GivenBounds
<1>3. ASSUME NEW c \in Slots, Target <= c, c < Target + Given
      PROVE  offset + (c - Target) + 1 \in 0..Len(file)
  BY <1>1, <1>2, <1>3, BlockAssumption DEF Slots, Target
<1>4. \A c \in Slots : buffer[c] \in 0..Len(file)
  BY <1>1
<1> QED BY <1>3, <1>4, BlockAssumption DEF Filled, Target, Slots

(* A line ends at or after its beginning and at or before the end of the   *)
(* data.                                                                   *)
LEMMA LineEndBounds ==
  ASSUME LineTypeOK, data_begin <= data_end
  PROVE  LineEnd \in Nat /\ data_begin <= LineEnd /\ LineEnd <= data_end
<1> DEFINE T == {data_end} \cup {c \in data_begin..(data_end - 1) : Kind(c) = "newline"}
<1>1. data_begin \in Nat /\ data_end \in Nat
  BY DEF LineTypeOK
<1>2. T \in SUBSET Nat /\ data_end \in T /\ \A c \in T : data_begin <= c
  BY <1>1
<1>3. Min(T) \in T /\ \A y \in T : Min(T) <= y
  BY <1>2, LeastOf
<1> QED BY <1>1, <1>2, <1>3 DEF LineEnd

(* The text of a line is no longer than the line.                          *)
LEMMA TextEndBounds ==
  ASSUME LineTypeOK, data_begin <= data_end
  PROVE  TextEnd \in Nat /\ data_begin <= TextEnd /\ TextEnd <= LineEnd
<1>1. data_begin \in Nat /\ LineEnd \in Nat /\ data_begin <= LineEnd
  BY LineEndBounds DEF LineTypeOK
<1> QED BY <1>1 DEF TextEnd

----------------------------------------------------------------------------
(* The initial states satisfy the invariant.                               *)
LEMMA LineInitInv == LineInit => LineInv
<1> SUFFICES ASSUME LineInit PROVE LineInv
  OBVIOUS
<1>1. file \in Seq({"newline", "return", "bom", "other"}) /\ Len(file) \in Nat
  BY FilesAssumption DEF LineInit
<1>2. /\ Min({2 * BlockLen, Len(file)}) \in {2 * BlockLen, Len(file)}
      /\ \A y \in {2 * BlockLen, Len(file)} : Min({2 * BlockLen, Len(file)}) <= y
  BY <1>1, BlockAssumption, LeastOf, {2 * BlockLen, Len(file)} \in SUBSET Nat
<1>3. offset \in 0..Len(file) /\ offset <= 2 * BlockLen
  BY <1>1, <1>2, BlockAssumption DEF LineInit
<1>4. data_begin \in Nat /\ data_begin <= offset /\ data_end = offset
  BY <1>3 DEF LineInit, Marked
<1>5. buffer \in [Slots -> 0..Len(file)]
  BY <1>1, <1>3, BlockAssumption DEF LineInit, Slots
<1>6. 0 \in Slots
  BY BlockAssumption DEF Slots
<1>7. LineTypeOK
  BY <1>1, <1>3, <1>4, <1>5, <1>6, BlockAssumption DEF LineInit, LineTypeOK
<1>8. Threads
  BY DEF LineInit, Threads
<1>9. Bounds
  BY <1>3, <1>4 DEF LineInit, Bounds
<1>10. Returned
  BY DEF LineInit, Returned
<1> QED BY <1>7, <1>8, <1>9, <1>10 DEF LineInv

----------------------------------------------------------------------------
(* The steps.                                                              *)

(* A step that leaves the owner outside with the line it has, and the      *)
(* cells of that line alone, keeps the line.                               *)
LEMMA LineKept ==
  ASSUME LineInv, UNCHANGED <<outcome, line_at, delivered>>,
         caller' = "outside" => caller = "outside",
         \A c \in Slots : c < 2 * BlockLen => buffer'[c] = buffer[c]
  PROVE  Returned'
<1> SUFFICES ASSUME caller' = "outside", outcome' = "line" PROVE Returned'
  BY DEF Returned
<1> DEFINE text == delivered[Len(delivered)]
<1>1. caller = "outside" /\ outcome = "line"
  OBVIOUS
<1>2. delivered # << >> /\ line_at + Len(text) <= 2 * BlockLen
      /\ \A k \in 1..Len(text) : buffer[line_at + k - 1] = text[k]
  BY <1>1 DEF LineInv, Returned, LineStays
<1>3. text \in Seq(Nat) /\ Len(text) \in Nat /\ line_at \in Slots
  BY <1>2 DEF LineInv, LineTypeOK
<1>4. \A k \in 1..Len(text) : line_at + k - 1 \in Slots /\ line_at + k - 1 < 2 * BlockLen
  BY <1>2, <1>3, BlockAssumption DEF Slots
<1> QED BY <1>2, <1>4 DEF Returned, LineStays

(* The steps of the thread.                                                *)
LEMMA WorkKeeps == ASSUME LineInv, Work PROVE LineInv'
<1>1. CASE WorkerTests
  <2>1. LineTypeOK'
    BY <1>1 DEF WorkerTests, LineInv, LineTypeOK, bufferVars, readerVars, resultVars, Slots
  <2>2. Threads' /\ Bounds'
    BY <1>1 DEF WorkerTests, LineInv, Threads, Bounds, bufferVars, readerVars, resultVars, IsValid
  <2>3. Returned'
    BY <1>1, LineKept DEF WorkerTests, bufferVars, resultVars
  <2> QED BY <2>1, <2>2, <2>3 DEF LineInv
<1>2. CASE WorkerReads
  <2>1. Given \in 0..BlockLen /\ offset + Given <= Len(file)
    BY GivenBounds DEF LineInv
  <2>2. /\ Filled(Target) \in [Slots -> 0..Len(file)]
        /\ \A c \in Slots : c < 2 * BlockLen => Filled(Target)[c] = buffer[c]
    BY FilledCells DEF LineInv
  <2>3. LineTypeOK'
    <3>1. buffer' \in [Slots -> 0..Len(file')]
      BY <1>2, <2>2 DEF WorkerReads
    <3>2. offset' \in 0..Len(file') /\ read_byte_count' \in -1..BlockLen
      BY <1>2, <2>1, BlockAssumption, FilesAssumption DEF WorkerReads, LineInv, LineTypeOK
    <3> QED BY <1>2, <3>1, <3>2 DEF WorkerReads, WakeCaller, LineInv, LineTypeOK, resultVars
  <2>4. Threads' /\ Bounds'
    BY <1>2 DEF WorkerReads, WakeCaller, LineInv, Threads, Bounds, resultVars, IsValid
  <2>5. Returned'
    BY <1>2, <2>2, LineKept DEF WorkerReads, WakeCaller, resultVars
  <2> QED BY <2>3, <2>4, <2>5 DEF LineInv
<1>3. CASE WorkerFails
  <2>1. LineTypeOK'
    BY <1>3 DEF WorkerFails, WakeCaller, LineInv, LineTypeOK, bufferVars, resultVars, Slots
  <2>2. Threads' /\ Bounds'
    BY <1>3 DEF WorkerFails, WakeCaller, LineInv, Threads, Bounds, bufferVars, resultVars, IsValid
  <2>3. Returned'
    BY <1>3, LineKept DEF WorkerFails, WakeCaller, bufferVars, resultVars
  <2> QED BY <2>1, <2>2, <2>3 DEF LineInv
<1> QED BY <1>1, <1>2, <1>3 DEF Work

(* A call begins, or the destructor does.                                  *)
LEMMA CallsKeep ==
  ASSUME LineInv, AtEnd \/ NextLine \/ NextLineShifts \/ Destroy PROVE LineInv'
<1>1. CASE AtEnd
  BY <1>1 DEF AtEnd, LineInv, LineTypeOK, Threads, Bounds, Returned, bufferVars, readerVars, IsValid
<1>2. CASE NextLine
  <2>1. LineTypeOK'
    BY <1>2 DEF NextLine, LineInv, LineTypeOK, bufferVars, readerVars, resultVars
  <2>2. Threads' /\ Bounds' /\ Returned'
    BY <1>2, BlockAssumption DEF NextLine, PastFirstBlock, LineInv, LineTypeOK, Threads, Bounds, Returned,
      bufferVars, readerVars, resultVars, IsValid
  <2> QED BY <2>1, <2>2 DEF LineInv
<1>3. CASE NextLineShifts
  <2>1. data_begin \in Nat /\ data_end \in Nat /\ data_begin >= BlockLen
        /\ data_begin < data_end /\ data_end <= 2 * BlockLen
    BY <1>3 DEF NextLineShifts, PastFirstBlock, LineInv, LineTypeOK, Bounds
  <2>2. buffer' \in [Slots -> 0..Len(file')]
    <3>1. buffer \in [Slots -> 0..Len(file)]
      BY DEF LineInv, LineTypeOK
    <3>2. \A c \in Slots : c < BlockLen => c + BlockLen \in Slots
      BY BlockAssumption DEF Slots
    <3> QED BY <1>3, <3>1, <3>2 DEF NextLineShifts
  <2>3. LineTypeOK'
    BY <1>3, <2>1, <2>2, BlockAssumption DEF NextLineShifts, LineInv, LineTypeOK, readerVars, resultVars
  <2>4. Threads' /\ Bounds' /\ Returned'
    BY <1>3, <2>1, BlockAssumption DEF NextLineShifts, LineInv, Threads, Bounds, Returned,
      readerVars, resultVars, IsValid
  <2> QED BY <2>3, <2>4 DEF LineInv
<1>4. CASE Destroy
  <2>1. LineTypeOK'
    BY <1>4 DEF Destroy, LineInv, LineTypeOK, bufferVars, resultVars
  <2>2. Threads' /\ Bounds' /\ Returned'
    BY <1>4 DEF Destroy, LineInv, Threads, Bounds, Returned, bufferVars, resultVars, IsValid
  <2> QED BY <2>1, <2>2 DEF LineInv
<1> QED BY <1>1, <1>2, <1>3, <1>4

(* finish_read: the wait, its end, and the read of the build without the   *)
(* thread.                                                                 *)
LEMMA FinishKeeps ==
  ASSUME LineInv, FinishWaits \/ FinishThrows \/ FinishReturns \/ FinishReads \/ FinishFails
  PROVE  LineInv'
<1>1. CASE FinishWaits
  <2>1. LineTypeOK'
    BY <1>1 DEF FinishWaits, LineInv, LineTypeOK, bufferVars, readerVars, resultVars
  <2>2. Threads' /\ Bounds' /\ Returned'
    BY <1>1 DEF FinishWaits, LineInv, Threads, Bounds, Returned, bufferVars, readerVars, resultVars, IsValid
  <2> QED BY <2>1, <2>2 DEF LineInv
<1>2. CASE FinishThrows \/ FinishFails
  <2>1. LineTypeOK'
    BY <1>2 DEF FinishThrows, FinishFails, Throws, LineInv, LineTypeOK, bufferVars, readerVars
  <2>2. Threads' /\ Bounds' /\ Returned'
    BY <1>2 DEF FinishThrows, FinishFails, Throws, LineInv, Threads, Bounds, Returned, bufferVars,
      readerVars, IsValid
  <2> QED BY <2>1, <2>2 DEF LineInv
<1>3. CASE FinishReturns
  <2>1. read_byte_count \in 0..BlockLen /\ data_begin \in Nat /\ data_end \in Nat
        /\ data_begin < data_end /\ data_end <= BlockLen
    BY <1>3, BlockAssumption DEF FinishReturns, LineInv, LineTypeOK, Bounds
  <2>2. LineTypeOK'
    BY <1>3, <2>1 DEF FinishReturns, LineInv, LineTypeOK, readerVars, resultVars
  <2>3. Threads' /\ Bounds' /\ Returned'
    BY <1>3, <2>1, BlockAssumption DEF FinishReturns, LineInv, Threads, Bounds, Returned, readerVars,
      resultVars, IsValid
  <2> QED BY <2>2, <2>3 DEF LineInv
<1>4. CASE FinishReads
  <2>1. Given \in 0..BlockLen /\ offset + Given <= Len(file)
    BY GivenBounds DEF LineInv
  <2>2. Filled(Target) \in [Slots -> 0..Len(file)]
    BY FilledCells DEF LineInv
  <2>3. data_begin \in Nat /\ data_end \in Nat /\ data_begin < data_end /\ data_end <= BlockLen
    BY <1>4 DEF FinishReads, LineInv, LineTypeOK, Bounds
  <2>4. offset' \in 0..Len(file') /\ data_end' \in Nat
    BY <1>4, <2>1, <2>3, BlockAssumption DEF FinishReads, LineInv, LineTypeOK
  <2>5. LineTypeOK'
    BY <1>4, <2>2, <2>4 DEF FinishReads, LineInv, LineTypeOK, readerVars, resultVars
  <2>6. Threads' /\ Bounds' /\ Returned'
    BY <1>4, <2>1, <2>3, BlockAssumption DEF FinishReads, LineInv, Threads, Bounds, Returned, readerVars,
      resultVars, IsValid
  <2> QED BY <2>5, <2>6 DEF LineInv
<1> QED BY <1>1, <1>2, <1>3, <1>4

(* The copy of the third block, and the request of the next read.          *)
LEMMA CopyAndStartKeep == ASSUME LineInv, CopyBlock \/ StartRead PROVE LineInv'
<1>1. CASE CopyBlock
  <2>1. buffer' \in [Slots -> 0..Len(file')]
    <3>1. buffer \in [Slots -> 0..Len(file)]
      BY DEF LineInv, LineTypeOK
    <3>2. \A c \in Slots : c < 2 * BlockLen => c + BlockLen \in Slots
      BY BlockAssumption DEF Slots
    <3> QED BY <1>1, <3>1, <3>2 DEF CopyBlock
  <2>2. LineTypeOK'
    BY <1>1, <2>1 DEF CopyBlock, LineInv, LineTypeOK, readerVars, resultVars
  <2>3. Threads' /\ Bounds' /\ Returned'
    BY <1>1 DEF CopyBlock, LineInv, Threads, Bounds, Returned, readerVars, resultVars, IsValid
  <2> QED BY <2>2, <2>3 DEF LineInv
<1>2. CASE StartRead
  <2>1. LineTypeOK'
    BY <1>2, BlockAssumption DEF StartRead, NotifyWorker, LineInv, LineTypeOK, bufferVars, resultVars
  <2>2. Threads' /\ Bounds' /\ Returned'
    BY <1>2, BlockAssumption DEF StartRead, NotifyWorker, LineInv, Threads, Bounds, Returned, bufferVars,
      resultVars, IsValid
  <2> QED BY <2>1, <2>2 DEF LineInv
<1> QED BY <1>1, <1>2

(* A line that is not too long ends before the third block.                *)
LEMMA LineBeforeTarget ==
  ASSUME LineInv, caller = "scanning", ~TooLong PROVE LineEnd < 2 * BlockLen - 1
<1>1. data_begin \in Nat /\ data_begin <= data_end /\ data_begin < BlockLen
  BY DEF LineInv, LineTypeOK, Bounds
<1>2. LineEnd \in Nat
  BY <1>1, LineEndBounds DEF LineInv
<1> QED BY <1>1, <1>2, BlockAssumption DEF TooLong

(* A line is returned: it lies in the first two blocks, and the zeros that *)
(* end it are behind it.                                                   *)
LEMMA ReturnLineKeeps == ASSUME LineInv, ReturnLine PROVE LineInv'
<1> DEFINE text == [k \in 1..(TextEnd - data_begin) |-> buffer[data_begin + k - 1]]
<1>1. /\ data_begin \in Nat /\ data_end \in Nat /\ data_begin < data_end
      /\ data_begin < BlockLen /\ data_end <= 2 * BlockLen
  BY DEF ReturnLine, LineInv, LineTypeOK, Bounds
<1>2. LineEnd \in Nat /\ data_begin <= LineEnd /\ LineEnd <= data_end
  BY <1>1, LineEndBounds DEF LineInv
<1>3. TextEnd \in Nat /\ data_begin <= TextEnd /\ TextEnd <= LineEnd
  BY <1>1, TextEndBounds DEF LineInv
<1>4. LineEnd < 2 * BlockLen - 1
  BY LineBeforeTarget DEF ReturnLine
<1>5. buffer \in [Slots -> 0..Len(file)] /\ Len(file) \in Nat
  BY FilesAssumption DEF LineInv, LineTypeOK
<1>6. \A k \in 1..(TextEnd - data_begin) :
        data_begin + k - 1 \in Slots /\ data_begin + k - 1 < TextEnd
  BY <1>1, <1>3, <1>2, <1>4, BlockAssumption DEF Slots
<1>7. text \in Seq(Nat) /\ Len(text) = TextEnd - data_begin
  <2>1. \A k \in 1..(TextEnd - data_begin) : buffer[data_begin + k - 1] \in Nat
    BY <1>5, <1>6
  <2> QED BY <1>1, <1>3, <2>1
<1>8. /\ delivered' = Append(delivered, text) /\ delivered \in Seq(Seq(Nat))
      /\ line_at' = data_begin /\ outcome' = "line" /\ caller' = "outside"
      /\ buffer' = [buffer EXCEPT ![LineEnd] = 0, ![TextEnd] = 0]
  BY DEF ReturnLine, LineInv, LineTypeOK
<1> HIDE DEF text
<1>9. /\ delivered' \in Seq(Seq(Nat)) /\ delivered' # << >>
      /\ delivered'[Len(delivered')] = text
  BY <1>7, <1>8
<1>10. buffer' \in [Slots -> 0..Len(file)]
       /\ \A c \in Slots : c # LineEnd /\ c # TextEnd => buffer'[c] = buffer[c]
  <2>1. 0 \in 0..Len(file)
    BY <1>5
  <2>2. [buffer EXCEPT ![LineEnd] = 0] \in [Slots -> 0..Len(file)]
    BY <1>5, <2>1
  <2>3. [[buffer EXCEPT ![LineEnd] = 0] EXCEPT ![TextEnd] = 0] \in [Slots -> 0..Len(file)]
    BY <2>1, <2>2
  <2>4. buffer' = [[buffer EXCEPT ![LineEnd] = 0] EXCEPT ![TextEnd] = 0]
    BY <1>8
  <2>5. \A c \in Slots : c # LineEnd /\ c # TextEnd =>
          [[buffer EXCEPT ![LineEnd] = 0] EXCEPT ![TextEnd] = 0][c] = buffer[c]
    BY <1>5
  <2> QED BY <2>3, <2>4, <2>5
<1>11. LineTypeOK'
  <2>1. data_begin \in Slots
    BY <1>1, BlockAssumption DEF Slots
  <2>2. data_begin' \in Nat /\ data_end' \in Nat
    BY <1>1, <1>2 DEF ReturnLine, EndAfterLine
  <2> QED BY <1>8, <1>9, <1>10, <2>1, <2>2 DEF ReturnLine, LineInv, LineTypeOK, readerVars
<1>12. Threads'
  BY DEF ReturnLine, LineInv, Threads, readerVars, IsValid
<1>13. Bounds'
  BY <1>1, <1>2, <1>4, <1>8, BlockAssumption DEF ReturnLine, EndAfterLine, Bounds
<1>14. Returned'
  <2>1. line_at' + Len(text) <= 2 * BlockLen
    BY <1>1, <1>2, <1>3, <1>4, <1>7, <1>8, BlockAssumption
  <2>2. ASSUME NEW k \in 1..Len(text) PROVE buffer'[line_at' + k - 1] = text[k]
    <3>1. k \in 1..(TextEnd - data_begin)
      BY <1>7
    <3>2. data_begin + k - 1 \in Slots /\ data_begin + k - 1 < TextEnd
      BY <3>1, <1>6
    <3>3. data_begin + k - 1 # LineEnd /\ data_begin + k - 1 # TextEnd
      BY <3>1, <3>2, <1>1, <1>2, <1>3
    <3>4. text[k] = buffer[data_begin + k - 1]
      BY <3>1 DEF text
    <3> QED BY <1>8, <1>10, <3>2, <3>3, <3>4
  <2> QED BY <1>9, <2>1, <2>2 DEF Returned, LineStays
<1> QED BY <1>11, <1>12, <1>13, <1>14 DEF LineInv

(* The end of the destructor.                                              *)
LEMMA DestructorKeeps == ASSUME LineInv, NotifyTermination \/ Join PROVE LineInv'
<1>1. LineTypeOK'
  BY DEF NotifyTermination, NotifyWorker, Join, LineInv, LineTypeOK, bufferVars, readerVars, resultVars
<1>2. Threads' /\ Bounds' /\ Returned'
  BY DEF NotifyTermination, NotifyWorker, Join, LineInv, Threads, Bounds, Returned, bufferVars, readerVars,
    resultVars, IsValid
<1> QED BY <1>1, <1>2 DEF LineInv

(* The rest of a call.                                                     *)
LEMMA CallStepKeeps == ASSUME LineInv, CallStep PROVE LineInv'
<1>1. CASE LineTooLong
  <2>1. LineTypeOK'
    BY <1>1 DEF LineTooLong, Throws, LineInv, LineTypeOK, bufferVars, readerVars
  <2>2. Threads' /\ Bounds' /\ Returned'
    BY <1>1 DEF LineTooLong, Throws, LineInv, Threads, Bounds, Returned, bufferVars, readerVars, IsValid
  <2> QED BY <2>1, <2>2 DEF LineInv
<1> QED BY <1>1, FinishKeeps, CopyAndStartKeep, ReturnLineKeeps, DestructorKeeps DEF CallStep

(* A wait ends without a notification.                                     *)
LEMMA SpuriousKeeps == ASSUME LineInv, SpuriousWakeup PROVE LineInv'
<1>1. LineTypeOK'
  BY DEF SpuriousWakeup, LineInv, LineTypeOK, bufferVars, readerVars, resultVars
<1>2. Threads' /\ Bounds'
  BY DEF SpuriousWakeup, LineInv, Threads, Bounds, bufferVars, readerVars, resultVars, IsValid
<1>3. Returned'
  BY LineKept DEF SpuriousWakeup, bufferVars, resultVars
<1> QED BY <1>1, <1>2, <1>3 DEF LineInv

(* Nothing happens to the reader.                                          *)
LEMMA StutterKeeps == ASSUME LineInv, UNCHANGED lineVars PROVE LineInv'
<1>1. LineTypeOK'
  BY DEF lineVars, bufferVars, readerVars, resultVars, LineInv, LineTypeOK
<1>2. Threads' /\ Bounds' /\ Returned'
  BY DEF lineVars, bufferVars, readerVars, resultVars, LineInv, Threads, Bounds, Returned, IsValid, LineStays
<1> QED BY <1>1, <1>2 DEF LineInv

(* Every step of either thread preserves the invariant.                    *)
THEOREM LineInvInductive == LineSpec => []LineInv
<1>1. LineInv /\ [LineNext]_lineVars => LineInv'
  BY WorkKeeps, CallsKeep, CallStepKeeps, SpuriousKeeps, StutterKeeps DEF LineNext
<1> QED BY <1>1, LineInitInv, PTL DEF LineSpec

----------------------------------------------------------------------------
(* The state of the reader keeps its types.                                *)
THEOREM LineTypeCorrect == LineSpec => []LineTypeOK
<1>1. LineInv => LineTypeOK
  BY DEF LineInv
<1> QED BY <1>1, LineInvInductive, PTL

(* The assertions of next_line never fail.                                 *)
THEOREM AssertionsNeverFail == LineSpec => []AssertionsHold
<1>1. LineInv => AssertionsHold
  BY DEF LineInv, LineTypeOK, Bounds, AssertionsHold
<1> QED BY <1>1, LineInvInductive, PTL

(* While the thread writes to the third block its owner neither copies it  *)
(* nor ends a line in it.                                                  *)
THEOREM FreeOfRaces == LineSpec => []NoDataRace
<1>1. LineInv => NoDataRace
  <2> SUFFICES ASSUME LineInv, worker = "reading" PROVE NoDataRace
    BY DEF NoDataRace
  <2>1. caller \notin {"copying", "destroyed"}
    <3>1. CASE threaded
      BY <3>1 DEF LineInv, Threads
    <3>2. CASE ~threaded
      BY <3>2 DEF LineInv, Threads
    <3> QED BY <3>1, <3>2
  <2>2. ASSUME caller = "scanning", ~TooLong PROVE LineEnd < Target
    <3>1. data_begin \in Nat /\ data_begin <= data_end
      BY DEF LineInv, LineTypeOK, Bounds
    <3> QED BY <2>2, <3>1, LineBeforeTarget, LineEndBounds, BlockAssumption DEF LineInv, Target
  <2> QED BY <2>1, <2>2 DEF NoDataRace
<1> QED BY <1>1, LineInvInductive, PTL

(* The line that was returned last stays as it was.                        *)
THEOREM LinesStay == LineSpec => []LineStays
<1>1. LineInv => LineStays
  BY DEF LineInv, Returned, LineStays
<1> QED BY <1>1, LineInvInductive, PTL

----------------------------------------------------------------------------
(* The starts of lines, and the bytes of one, in any sequence of bytes.    *)

(* How many numbers an interval has.                                       *)
LEMMA IntervalSize ==
  ASSUME NEW a \in Nat, NEW m \in Nat
  PROVE  IsFiniteSet(a..(a + m - 1)) /\ Cardinality(a..(a + m - 1)) = m
<1>1. /\ IsFiniteSet(a..(a + m - 1))
      /\ Cardinality(a..(a + m - 1)) = IF a > a + m - 1 THEN 0 ELSE (a + m - 1) - a + 1
  BY FS_Interval
<1> QED BY <1>1

(* The starts of lines are places of the bytes, finitely many.             *)
LEMMA StartsFinite ==
  ASSUME NEW bytes \in Seq({"newline", "return", "bom", "other"}), NEW from
  PROVE  /\ Stream!Starts(bytes) \subseteq 1..Len(bytes)
         /\ IsFiniteSet({k \in Stream!Starts(bytes) : k < from})
         /\ Cardinality({k \in Stream!Starts(bytes) : k < from}) \in Nat
<1>1. Stream!Starts(bytes) \subseteq 1..Len(bytes)
  BY DEF Stream!Starts
<1>2. IsFiniteSet(1..Len(bytes))
  BY FS_Interval
<1>3. {k \in Stream!Starts(bytes) : k < from} \subseteq 1..Len(bytes)
  BY <1>1
<1>4. IsFiniteSet({k \in Stream!Starts(bytes) : k < from})
  BY <1>2, <1>3, FS_Subset
<1> QED BY <1>1, <1>4, FS_CardinalityType

(* No line starts before the first, which starts behind the mark.          *)
LEMMA FirstStart ==
  ASSUME NEW bytes \in Seq({"newline", "return", "bom", "other"}), NEW from,
         from = IF Stream!HasBOM(bytes) THEN 4 ELSE 1
  PROVE  /\ from \in Stream!Starts(bytes) \cup {Len(bytes) + 1}
         /\ {k \in Stream!Starts(bytes) : k < from} = {}
<1>1. Len(bytes) \in Nat
  OBVIOUS
<1>2. from \in Stream!Starts(bytes) \cup {Len(bytes) + 1}
  BY <1>1 DEF Stream!Starts, Stream!HasBOM
<1>3. ASSUME NEW k \in Stream!Starts(bytes), k < from PROVE FALSE
  <2>1. k \in 1..Len(bytes) /\ (k = from \/ (k > 1 /\ bytes[k-1] = "newline"))
    BY DEF Stream!Starts
  <2>2. k \in Nat /\ k > 1 /\ bytes[k-1] = "newline" /\ Stream!HasBOM(bytes)
    BY <1>3, <2>1
  <2>3. k - 1 \in 1..3
    BY <1>3, <2>2
  <2> QED BY <2>2, <2>3 DEF Stream!HasBOM
<1> QED BY <1>2, <1>3

(* From the start of a line to its newline, or to the end, no other line   *)
(* starts, and the next one starts there.                                  *)
LEMMA NextStart ==
  ASSUME NEW bytes \in Seq({"newline", "return", "bom", "other"}),
         NEW from \in Stream!Starts(bytes), NEW next \in Nat,
         from < next, next <= Len(bytes) + 1,
         \A j \in from..(next - 2) : bytes[j] # "newline",
         next <= Len(bytes) => bytes[next - 1] = "newline"
  PROVE  /\ next \in Stream!Starts(bytes) \cup {Len(bytes) + 1}
         /\ Cardinality({k \in Stream!Starts(bytes) : k < next})
              = Cardinality({k \in Stream!Starts(bytes) : k < from}) + 1
<1> DEFINE B == {k \in Stream!Starts(bytes) : k < from}
           A == {k \in Stream!Starts(bytes) : k < next}
<1>1. from \in 1..Len(bytes) /\ Len(bytes) \in Nat
  BY DEF Stream!Starts
<1>2. next \in Stream!Starts(bytes) \cup {Len(bytes) + 1}
  BY <1>1 DEF Stream!Starts
<1>3. ASSUME NEW k \in A, k > from PROVE FALSE
  <2>1. k \in 1..Len(bytes) /\ k < next
    BY DEF Stream!Starts
  <2>2. k - 1 \in from..(next - 2)
    BY <1>1, <1>3, <2>1
  <2>3. k = (IF Stream!HasBOM(bytes) THEN 4 ELSE 1)
    BY <2>2 DEF Stream!Starts
  <2>4. k = 4 /\ Stream!HasBOM(bytes)
    BY <1>1, <1>3, <2>3
  <2>5. from > 1 /\ bytes[from - 1] = "newline"
    BY <1>3, <2>4 DEF Stream!Starts
  <2>6. from - 1 \in 1..3
    BY <1>1, <1>3, <2>4, <2>5
  <2> QED BY <2>4, <2>5, <2>6 DEF Stream!HasBOM
<1>4. A = B \cup {from} /\ from \notin B
  <2>1. \A k \in A : k \in 1..Len(bytes)
    BY DEF Stream!Starts
  <2>2. \A k \in A : k < from \/ k = from
    BY <1>1, <1>3, <2>1
  <2>3. \A k \in B : k \in 1..Len(bytes) /\ k < next
    BY <1>1 DEF Stream!Starts
  <2>4. A \subseteq B \cup {from}
    BY <2>2
  <2>5. B \subseteq A
    BY <2>3
  <2>6. from \in A /\ from \notin B
    BY <1>1
  <2> QED BY <2>4, <2>5, <2>6
<1>5. IsFiniteSet(B)
  BY StartsFinite
<1> HIDE DEF A, B
<1>6. Cardinality(A) = Cardinality(B) + 1
  BY <1>4, <1>5, FS_AddElement
<1> QED BY <1>2, <1>6 DEF A, B

(* Behind the last byte all lines have started.                            *)
LEMMA AllStarted ==
  ASSUME NEW bytes \in Seq({"newline", "return", "bom", "other"})
  PROVE  {k \in Stream!Starts(bytes) : k < Len(bytes) + 1} = Stream!Starts(bytes)
BY DEF Stream!Starts

(* A file that is cut behind the start of a line has the same lines before *)
(* it.                                                                     *)
LEMMA CutStarts ==
  ASSUME NEW bytes \in Seq({"newline", "return", "bom", "other"}), NEW n \in 3..Len(bytes),
         NEW from \in Stream!Starts(bytes) \cup {Len(bytes) + 1}, from <= n + 1
  PROVE  LET cut == SubSeq(bytes, 1, n)
         IN  /\ from \in Stream!Starts(cut) \cup {Len(cut) + 1}
             /\ {k \in Stream!Starts(cut) : k < from} = {k \in Stream!Starts(bytes) : k < from}
<1> DEFINE cut == SubSeq(bytes, 1, n)
<1>1. cut \in Seq({"newline", "return", "bom", "other"}) /\ Len(cut) = n
      /\ \A k \in 1..n : cut[k] = bytes[k]
  OBVIOUS
<1>2. n \in Nat /\ Len(bytes) \in Nat /\ n >= 3 /\ n <= Len(bytes)
  OBVIOUS
<1> HIDE DEF cut
<1>3. Stream!HasBOM(cut) <=> Stream!HasBOM(bytes)
  BY <1>1, <1>2 DEF Stream!HasBOM
<1>4. ASSUME NEW k \in 1..n PROVE k \in Stream!Starts(cut) <=> k \in Stream!Starts(bytes)
  <2>1. k > 1 => cut[k-1] = bytes[k-1]
    BY <1>1, <1>2
  <2> QED BY <1>1, <1>2, <1>3, <2>1 DEF Stream!Starts
<1>5. Stream!Starts(cut) \subseteq 1..n /\ Stream!Starts(bytes) \subseteq 1..Len(bytes)
  BY <1>1 DEF Stream!Starts
<1>6. from \in Nat
  BY <1>2, <1>5
<1>7. from \in Stream!Starts(cut) \cup {Len(cut) + 1}
  BY <1>1, <1>2, <1>4, <1>5, <1>6
<1>8. {k \in Stream!Starts(cut) : k < from} = {k \in Stream!Starts(bytes) : k < from}
  <2>1. \A k \in Stream!Starts(bytes) : k < from => k \in 1..n
    BY <1>2, <1>5, <1>6
  <2> QED BY <1>4, <1>5, <2>1
<1> QED BY <1>7, <1>8 DEF cut

(* A line has at least the bytes up to which no newline was found.         *)
LEMMA LineAtLeast ==
  ASSUME NEW bytes \in Seq({"newline", "return", "bom", "other"}),
         NEW from \in 1..Len(bytes), NEW m \in Nat, from + m <= Len(bytes) + 1,
         \A j \in from..(from + m - 1) : bytes[j] # "newline"
  PROVE  /\ IsFiniteSet(Stream!LineFrom(bytes, from))
         /\ Cardinality(Stream!LineFrom(bytes, from)) >= m
<1>1. IsFiniteSet(Stream!LineFrom(bytes, from))
  <2>1. Stream!LineFrom(bytes, from) \subseteq from..Len(bytes)
    BY DEF Stream!LineFrom
  <2>2. IsFiniteSet(from..Len(bytes))
    BY FS_Interval
  <2> QED BY <2>1, <2>2, FS_Subset
<1>2. from..(from + m - 1) \subseteq Stream!LineFrom(bytes, from)
  BY DEF Stream!LineFrom
<1>3. IsFiniteSet(from..(from + m - 1)) /\ Cardinality(from..(from + m - 1)) = m
  BY IntervalSize, from \in Nat
<1>4. Cardinality(from..(from + m - 1)) <= Cardinality(Stream!LineFrom(bytes, from))
  BY <1>1, <1>2, FS_Subset
<1> QED BY <1>1, <1>3, <1>4

(* And exactly those, when a newline or the end is behind them.            *)
LEMMA LineIs ==
  ASSUME NEW bytes \in Seq({"newline", "return", "bom", "other"}),
         NEW from \in 1..Len(bytes), NEW m \in Nat, from + m <= Len(bytes) + 1,
         \A j \in from..(from + m - 1) : bytes[j] # "newline",
         from + m <= Len(bytes) => bytes[from + m] = "newline"
  PROVE  Cardinality(Stream!LineFrom(bytes, from)) = m
<1>1. Stream!LineFrom(bytes, from) = from..(from + m - 1)
  <2>1. ASSUME NEW k \in Stream!LineFrom(bytes, from), k >= from + m PROVE FALSE
    <3>1. k \in from..Len(bytes) /\ \A j \in from..k : bytes[j] # "newline"
      BY DEF Stream!LineFrom
    <3>2. from + m \in from..k /\ from + m <= Len(bytes)
      BY <2>1, <3>1
    <3> QED BY <3>1, <3>2
  <2>2. ASSUME NEW k \in Stream!LineFrom(bytes, from) PROVE k \in from..(from + m - 1)
    <3>1. k \in from..Len(bytes) /\ ~(k >= from + m)
      BY <2>1 DEF Stream!LineFrom
    <3> QED BY <3>1
  <2>3. from..(from + m - 1) \subseteq Stream!LineFrom(bytes, from)
    BY DEF Stream!LineFrom
  <2> QED BY <2>2, <2>3
<1> QED BY <1>1, IntervalSize, from \in Nat

----------------------------------------------------------------------------
(* The inductive invariant of the refinement.                              *)

Bytes == {"newline", "return", "bom", "other"}

\* What there is to serve: a source that threw gives no more.
Seen == IF read_error THEN SubSeq(file, 1, offset) ELSE file

\* The owner is between finish_read and start_read: what was read last is
\* data already.
HandsOver == caller \in {"constructing", "copying", "starting"}

\* A block that was read lies in the third block and is not data yet.
Pending == threaded /\ ~HandsOver /\ read_byte_count # -1

\* The place of the last byte of the data, and that of the byte of a cell.
Loaded == IF Pending THEN offset - read_byte_count ELSE offset
Place(c) == Loaded - data_end + c + 1

\* Blocks are read whole, until the source has no more to give.  While there
\* is more than the data, they fill the first two blocks, or the first when
\* the next is to follow it.
Reads ==
  /\ IF IsValid THEN offset >= 2 * BlockLen
     ELSE offset = Len(file) /\ ~HandsOver /\ ~Pending /\ caller \notin {"finishing", "sleeping"}
  /\ read_error => IF threaded THEN worker = "ended" /\ read_byte_count = -1 /\ ~HandsOver
                   ELSE /\ ~HandsOver /\ caller \notin {"finishing", "sleeping"}
                        /\ data_end <= BlockLen \/ data_begin = data_end
  /\ Pending => read_byte_count = BlockLen \/ offset = Len(file)
  /\ Loaded < Len(Seen) => IF caller \in {"finishing", "sleeping"} THEN data_end = BlockLen
                           ELSE data_end = 2 * BlockLen /\ data_begin < 2 * BlockLen
  /\ data_end - data_begin <= Loaded

\* The cell where a byte of the data is: behind the second block until it
\* has been copied there.
Held(c) == buffer[IF caller = "copying" /\ c >= BlockLen THEN c + BlockLen ELSE c]

\* The data are a piece of the file, and so is the block that waits.
InPlace ==
  /\ \A c \in data_begin..(data_end - 1) : Held(c) = Place(c)
  /\ Pending => \A c \in 1..read_byte_count : buffer[Target + c - 1] = Loaded + c

\* The data begin where a line does, and the lines before it were returned.
From == Place(data_begin)
Counted ==
  /\ From \in Stream!Starts(Seen) \cup {Len(Seen) + 1}
  /\ Len(delivered) = Cardinality({k \in Stream!Starts(Seen) : k < From})

StreamInv == Reads /\ InPlace /\ Counted

----------------------------------------------------------------------------
(* What there is to serve is the file or a beginning of it, and reaches at *)
(* least as far as the data.                                               *)
LEMMA SeenFacts ==
  ASSUME LineInv, Reads
  PROVE  /\ file \in Seq(Bytes) /\ Len(file) \in Nat /\ offset \in 0..Len(file)
         /\ Seen \in Seq(Bytes) /\ Len(Seen) = IF read_error THEN offset ELSE Len(file)
         /\ \A j \in 1..Len(Seen) : Seen[j] = file[j]
         /\ data_begin \in Nat /\ data_end \in Nat /\ data_begin <= data_end
         /\ Loaded \in Nat /\ Loaded <= offset /\ Loaded <= Len(Seen)
         /\ From \in Nat /\ From >= 1 /\ From = Loaded - data_end + data_begin + 1
<1>1. file \in Seq(Bytes) /\ offset \in 0..Len(file) /\ read_byte_count \in -1..BlockLen
      /\ data_begin \in Nat /\ data_end \in Nat /\ data_begin <= data_end
  BY FilesAssumption DEF LineInv, LineTypeOK, Bytes, Bounds
<1>2. Len(file) \in Nat /\ offset \in Nat /\ offset <= Len(file)
  BY <1>1
<1>3. Seen \in Seq(Bytes) /\ Len(Seen) = (IF read_error THEN offset ELSE Len(file))
      /\ \A j \in 1..Len(Seen) : Seen[j] = file[j]
  <2>1. CASE read_error
    <3>1. Seen = SubSeq(file, 1, offset)
      BY <2>1 DEF Seen
    <3>2. SubSeq(file, 1, offset) \in Seq(Bytes) /\ Len(SubSeq(file, 1, offset)) = offset
          /\ \A j \in 1..offset : SubSeq(file, 1, offset)[j] = file[j]
      BY <1>1, <1>2
    <3> QED BY <2>1, <3>1, <3>2
  <2>2. CASE ~read_error
    BY <1>1, <2>2 DEF Seen
  <2> QED BY <2>1, <2>2
<1>4. Loaded \in Int /\ Loaded <= offset /\ data_end - data_begin <= Loaded
  <2>1. CASE Pending
    BY <1>1, <1>2, <2>1, BlockAssumption DEF Loaded, Pending, Reads
  <2>2. CASE ~Pending
    BY <1>2, <2>2 DEF Loaded, Reads
  <2> QED BY <2>1, <2>2
<1>5. From = Loaded - data_end + data_begin + 1
  BY DEF From, Place
<1> HIDE DEF Seen, Loaded, From
<1> QED BY <1>1, <1>2, <1>3, <1>4, <1>5

(* A step that leaves the data, what was read and the lines alone.         *)
LEMMA QuietKeeps ==
  ASSUME LineInv, StreamInv,
         UNCHANGED <<file, offset, threaded, buffer, data_begin, data_end, read_byte_count,
                     read_error, delivered>>,
         worker = "ended" => worker' = "ended",
         HandsOver' <=> HandsOver, caller' = "copying" <=> caller = "copying",
         caller' \in {"finishing", "sleeping"} <=> caller \in {"finishing", "sleeping"}
  PROVE  StreamInv' /\ Seen' = Seen
<1>1. Seen' = Seen /\ (Pending' <=> Pending) /\ (IsValid' <=> IsValid) /\ Target' = Target
  BY DEF Seen, Pending, IsValid, Target
<1>2. Loaded' = Loaded
  BY <1>1 DEF Loaded
<1>3. Reads'
  BY <1>1, <1>2 DEF StreamInv, Reads
<1>4. InPlace'
  BY <1>1, <1>2 DEF StreamInv, InPlace, Held, Place
<1>5. Counted'
  BY <1>1, <1>2 DEF StreamInv, Counted, From, Place
<1> QED BY <1>1, <1>3, <1>4, <1>5 DEF StreamInv

(* The steps of which the stream sees nothing, because nothing is read,    *)
(* moved or returned.                                                      *)
LEMMA QuietSteps ==
  ASSUME LineInv, StreamInv,
         \/ AtEnd \/ NextLine \/ Destroy \/ FinishWaits \/ LineTooLong \/ NotifyTermination
         \/ Join \/ WorkerTests \/ SpuriousWakeup \/ UNCHANGED lineVars
  PROVE  StreamInv' /\ Seen' = Seen
<1>1. CASE AtEnd
  BY <1>1, QuietKeeps DEF AtEnd, HandsOver, bufferVars, readerVars
<1>2. CASE NextLine \/ FinishWaits
  BY <1>2, QuietKeeps DEF NextLine, FinishWaits, HandsOver, bufferVars, readerVars, resultVars
<1>3. CASE Destroy
  BY <1>3, QuietKeeps DEF Destroy, HandsOver, bufferVars, resultVars
<1>4. CASE LineTooLong
  BY <1>4, QuietKeeps DEF LineTooLong, Throws, HandsOver, bufferVars, readerVars
<1>5. CASE NotifyTermination \/ Join
  BY <1>5, QuietKeeps DEF NotifyTermination, NotifyWorker, Join, HandsOver, bufferVars, readerVars,
    resultVars
<1>6. CASE WorkerTests \/ SpuriousWakeup
  BY <1>6, QuietKeeps DEF WorkerTests, SpuriousWakeup, HandsOver, bufferVars, readerVars, resultVars
<1>7. CASE UNCHANGED lineVars
  BY <1>7, QuietKeeps DEF lineVars, HandsOver, bufferVars, readerVars, resultVars
<1> QED BY <1>1, <1>2, <1>3, <1>4, <1>5, <1>6, <1>7

(* A step that moves or adds data but takes none leaves the count.         *)
LEMMA SameCount ==
  ASSUME Counted, Seen' = Seen, From' = From, delivered' = delivered
  PROVE  Counted'
BY DEF Counted

(* A source that throws cuts the file, but not the lines before the data.  *)
LEMMA BreakCount ==
  ASSUME LineInv, StreamInv, IsValid, ~read_error, read_error', UNCHANGED <<file, offset, delivered>>,
         From' = From
  PROVE  Counted' /\ Stream!Breaks
<1> DEFINE cut == SubSeq(file, 1, offset)
<1>1. /\ file \in Seq(Bytes) /\ Len(file) \in Nat /\ offset \in 0..Len(file)
      /\ From \in Nat /\ From <= offset + 1 /\ Seen = file
  <2>1. Reads
    BY DEF StreamInv
  <2> QED BY <2>1, SeenFacts DEF Seen
<1>2. offset \in 3..Len(file)
  BY <1>1, BlockAssumption DEF StreamInv, Reads
<1>3. Seen' = cut
  BY DEF Seen
<1>4. From \in Stream!Starts(file) \cup {Len(file) + 1}
      /\ Len(delivered) = Cardinality({k \in Stream!Starts(file) : k < From})
  BY <1>1 DEF StreamInv, Counted
<1>5. /\ From \in Stream!Starts(cut) \cup {Len(cut) + 1}
      /\ {k \in Stream!Starts(cut) : k < From} = {k \in Stream!Starts(file) : k < From}
  BY <1>1, <1>2, <1>4, CutStarts DEF Bytes
<1> HIDE DEF cut
<1>6. Counted'
  BY <1>3, <1>4, <1>5 DEF Counted
<1>7. Stream!Breaks
  BY <1>1, <1>2 DEF Stream!Breaks
<1> QED BY <1>6, <1>7

(* The data are moved to the beginning of the buffer.                      *)
LEMMA ShiftStep ==
  ASSUME LineInv, StreamInv, NextLineShifts
  PROVE  StreamInv' /\ Seen' = Seen
<1>1. /\ data_begin \in Nat /\ data_end \in Nat /\ data_begin >= BlockLen
      /\ data_begin < data_end /\ data_end <= 2 * BlockLen /\ caller = "outside"
      /\ read_byte_count \in -1..BlockLen
  BY DEF NextLineShifts, PastFirstBlock, LineInv, LineTypeOK, Bounds
<1>2. /\ UNCHANGED <<file, offset, threaded, read_byte_count, read_error, worker, delivered>>
      /\ data_begin' = data_begin - BlockLen /\ data_end' = data_end - BlockLen
      /\ caller' = (IF IsValid THEN "finishing" ELSE "scanning")
      /\ buffer' = [c \in Slots |-> IF c < BlockLen THEN buffer[c + BlockLen] ELSE buffer[c]]
  BY DEF NextLineShifts, readerVars, resultVars
<1>3. Seen' = Seen /\ (Pending' <=> Pending) /\ (IsValid' <=> IsValid) /\ ~HandsOver /\ ~HandsOver'
  BY <1>1, <1>2 DEF Seen, Pending, IsValid, HandsOver
<1>4. Loaded' = Loaded /\ Loaded \in Nat /\ Loaded <= Len(Seen)
  BY <1>2, <1>3, SeenFacts DEF Loaded, StreamInv
<1>5. Reads'
  <2>1. IF IsValid' THEN offset' >= 2 * BlockLen
        ELSE offset' = Len(file') /\ ~HandsOver' /\ ~Pending' /\ caller' \notin {"finishing", "sleeping"}
    BY <1>2, <1>3 DEF StreamInv, Reads
  <2>2. read_error => threaded
    BY <1>1, BlockAssumption DEF StreamInv, Reads
  <2>3. read_error' => threaded' /\ worker' = "ended" /\ read_byte_count' = -1
    BY <1>2, <2>2 DEF StreamInv, Reads
  <2>4. Pending' => read_byte_count' = BlockLen \/ offset' = Len(file')
    BY <1>2, <1>3 DEF StreamInv, Reads
  <2>5. Loaded' < Len(Seen') => IsValid /\ data_end = 2 * BlockLen
    <3>1. Len(Seen) = IF read_error THEN offset ELSE Len(file)
      BY SeenFacts DEF StreamInv
    <3>2. ~IsValid => ~Pending /\ offset = Len(file)
      BY DEF StreamInv, Reads
    <3>3. ~IsValid => Loaded = Len(Seen)
      BY <3>1, <3>2 DEF Loaded
    <3>4. Loaded < Len(Seen) => data_end = 2 * BlockLen
      BY <1>1 DEF StreamInv, Reads
    <3> QED BY <1>3, <1>4, <3>3, <3>4
  <2>6. Loaded' < Len(Seen') => caller' = "finishing" /\ data_end' = BlockLen
    BY <1>2, <2>5, BlockAssumption
  <2>7. data_end' - data_begin' <= Loaded'
    BY <1>1, <1>2, <1>4, BlockAssumption DEF StreamInv, Reads
  <2> QED BY <1>3, <2>1, <2>3, <2>4, <2>6, <2>7 DEF Reads
<1>6. ASSUME NEW c \in Int PROVE Place(c)' = Place(c + BlockLen)
  BY <1>1, <1>2, <1>4, BlockAssumption DEF Place
<1>7. InPlace'
  <2>1. ASSUME NEW c \in data_begin'..(data_end' - 1) PROVE Held(c)' = Place(c)'
    <3>1. c \in Nat /\ c < BlockLen /\ c + BlockLen \in data_begin..(data_end - 1) /\ c \in Slots
      BY <1>1, <1>2, BlockAssumption DEF Slots
    <3>2. Held(c)' = buffer[c + BlockLen]
      BY <1>2, <3>1, BlockAssumption DEF Held
    <3>3. Held(c + BlockLen) = Place(c + BlockLen)
      BY <3>1 DEF StreamInv, InPlace
    <3>4. Held(c + BlockLen) = buffer[c + BlockLen]
      BY <1>1 DEF Held
    <3> QED BY <1>6, <3>1, <3>2, <3>3, <3>4
  <2>2. ASSUME Pending', NEW c \in 1..read_byte_count' PROVE buffer'[Target + c - 1] = Loaded' + c
    <3>1. Target + c - 1 \in Slots /\ ~(Target + c - 1 < BlockLen) /\ c \in 1..read_byte_count
      BY <1>1, <1>2, BlockAssumption DEF Slots, Target
    <3>2. buffer[Target + c - 1] = Loaded + c
      BY <1>3, <2>2, <3>1 DEF StreamInv, InPlace
    <3> QED BY <1>2, <1>4, <3>1, <3>2
  <2>3. Target' = Target
    BY DEF Target
  <2> QED BY <2>1, <2>2, <2>3 DEF InPlace
<1>8. From' = From
  BY <1>1, <1>2, <1>4, <1>6, BlockAssumption DEF From, Place
<1> QED BY <1>2, <1>3, <1>5, <1>7, <1>8, SameCount DEF StreamInv

(* finish_read throws what the source threw.                               *)
LEMMA ThrowSteps ==
  ASSUME LineInv, StreamInv, FinishThrows \/ FinishFails
  PROVE  StreamInv' /\ Stream!Report
<1>1. CASE FinishThrows
  <2>1. /\ UNCHANGED <<file, offset, threaded, buffer, data_begin, data_end, read_byte_count,
                       read_error, worker, delivered>>
        /\ caller = "finishing" /\ caller' = "outside" /\ threaded /\ read_error
        /\ outcome' = "error"
    BY <1>1 DEF FinishThrows, Throws, bufferVars, readerVars
  <2>2. read_byte_count = -1 /\ worker = "ended"
    BY <2>1 DEF StreamInv, Reads
  <2>3. Seen' = Seen /\ ~Pending' /\ ~Pending /\ (IsValid' <=> IsValid) /\ ~HandsOver'
    BY <2>1, <2>2 DEF Seen, Pending, IsValid, HandsOver
  <2>4. Loaded' = Loaded /\ Len(Seen) = Loaded
    BY <2>1, <2>3, SeenFacts DEF Loaded, StreamInv
  <2>5. Reads'
    BY <2>1, <2>2, <2>3, <2>4, SeenFacts DEF StreamInv, Reads
  <2>6. InPlace'
    BY <2>1, <2>3, <2>4 DEF StreamInv, InPlace, Held, Place
  <2>7. Counted'
    BY <2>1, <2>3, <2>4, SameCount DEF From, Place, StreamInv
  <2> QED BY <2>1, <2>3, <2>5, <2>6, <2>7 DEF StreamInv, Stream!Report, Seen
<1>2. CASE FinishFails
  <2>1. /\ UNCHANGED <<file, offset, threaded, buffer, data_begin, data_end, read_byte_count,
                       worker, delivered>>
        /\ caller = "finishing" /\ caller' = "outside" /\ ~threaded /\ read_error'
        /\ outcome' = "error"
    BY <1>2 DEF FinishFails, Throws, bufferVars
  <2>2. ~read_error /\ IsValid /\ data_end <= BlockLen
    BY <2>1 DEF StreamInv, Reads, LineInv, Bounds
  <2>3. ~Pending' /\ ~Pending /\ (IsValid' <=> IsValid) /\ ~HandsOver'
    BY <2>1, <2>2 DEF Pending, IsValid, HandsOver
  <2>4. Loaded' = Loaded /\ Loaded = offset
    BY <2>1, <2>3 DEF Loaded
  <2>5. Len(Seen') = offset /\ offset \in Nat
    <3>1. /\ file \in Seq(Bytes) /\ offset \in 0..Len(file) /\ Len(file) \in Nat
      BY SeenFacts DEF StreamInv
    <3> QED BY <2>1, <3>1 DEF Seen
  <2>6. Reads'
    BY <2>1, <2>2, <2>3, <2>4, <2>5 DEF StreamInv, Reads
  <2>7. InPlace'
    BY <2>1, <2>3, <2>4 DEF StreamInv, InPlace, Held, Place
  <2>8. Counted' /\ Stream!Breaks
    BY <2>1, <2>2, <2>4, BreakCount DEF From, Place
  <2> QED BY <2>1, <2>6, <2>7, <2>8 DEF StreamInv, Stream!Report
<1> QED BY <1>1, <1>2

(* What the state of the reader is while its thread reads.                 *)
LEMMA WhileReading ==
  ASSUME LineInv, StreamInv, worker = "reading"
  PROVE  /\ threaded /\ IsValid /\ read_byte_count = -1 /\ ~HandsOver /\ ~read_error
         /\ ~Pending /\ Loaded = offset /\ Seen = file /\ caller # "copying"
<1>1. threaded /\ IsValid /\ read_byte_count = -1 /\ ~HandsOver
  BY DEF LineInv, Threads, HandsOver
<1>2. ~read_error
  BY <1>1 DEF StreamInv, Reads
<1> QED BY <1>1, <1>2 DEF Pending, Loaded, Seen, HandsOver

(* The thread's read fails.                                                *)
LEMMA WorkerFailsStep ==
  ASSUME LineInv, StreamInv, WorkerFails
  PROVE  StreamInv' /\ Stream!Break
<1>1. /\ UNCHANGED <<file, offset, threaded, buffer, data_begin, data_end, read_byte_count,
                     delivered, outcome>>
      /\ worker = "reading" /\ worker' = "ended" /\ read_error'
      /\ caller' = (IF caller = "sleeping" THEN "finishing" ELSE caller)
  BY DEF WorkerFails, WakeCaller, bufferVars, resultVars
<1>2. /\ threaded /\ IsValid /\ read_byte_count = -1 /\ ~HandsOver /\ ~read_error
      /\ ~Pending /\ Loaded = offset /\ Seen = file /\ caller # "copying"
  BY <1>1, WhileReading
<1>3. ~Pending' /\ ~HandsOver' /\ (IsValid' <=> IsValid) /\ caller' # "copying"
  BY <1>1, <1>2 DEF Pending, HandsOver, IsValid
<1>4. Loaded' = Loaded
  BY <1>1, <1>2, <1>3 DEF Loaded
<1>5. Len(Seen') = offset /\ offset \in Nat
  <2>1. /\ file \in Seq(Bytes) /\ offset \in 0..Len(file) /\ Len(file) \in Nat
    BY SeenFacts DEF StreamInv
  <2> QED BY <1>1, <2>1 DEF Seen
<1>6. Reads'
  BY <1>1, <1>2, <1>3, <1>4, <1>5 DEF StreamInv, Reads
<1>7. InPlace'
  BY <1>1, <1>2, <1>3, <1>4 DEF StreamInv, InPlace, Held, Place
<1>8. Counted' /\ Stream!Breaks
  BY <1>1, <1>2, <1>4, BreakCount DEF From, Place
<1> QED BY <1>1, <1>6, <1>7, <1>8 DEF StreamInv, Stream!Break

(* What a read puts into the third block is the next piece of the file,    *)
(* of a whole block unless the file ends in it.                            *)
LEMMA FilledPlaces ==
  ASSUME LineTypeOK
  PROVE  /\ \A c \in 1..Given : Filled(Target)[Target + c - 1] = offset + c
         /\ Given = BlockLen \/ offset + Given = Len(file)
         /\ Given > 0 => offset < Len(file)
<1>1. file \in Seq({"newline", "return", "bom", "other"}) /\ offset \in 0..Len(file) /\ Len(file) \in Nat
  BY FilesAssumption DEF LineTypeOK
<1>2. Given \in 0..BlockLen /\ offset + Given <= Len(file)
  BY GivenBounds
<1>3. ASSUME NEW c \in 1..Given PROVE Filled(Target)[Target + c - 1] = offset + c
  <2>1. Target + c - 1 \in Slots /\ Target <= Target + c - 1 /\ Target + c - 1 < Target + Given
    BY <1>2, BlockAssumption DEF Slots, Target
  <2>2. Filled(Target)[Target + c - 1] = offset + ((Target + c - 1) - Target) + 1
    BY <2>1 DEF Filled
  <2> QED BY <1>1, <1>2, <2>2, BlockAssumption DEF Target
<1>4. Given = BlockLen \/ Given = Len(file) - offset
  <2>1. {BlockLen, Len(file) - offset} \in SUBSET Nat
    BY <1>1, BlockAssumption
  <2>2. Min({BlockLen, Len(file) - offset}) \in {BlockLen, Len(file) - offset}
    BY <2>1, LeastOf
  <2> QED BY <2>2 DEF Given
<1> QED BY <1>1, <1>2, <1>3, <1>4

(* The thread reads a block.                                               *)
LEMMA WorkerReadsStep ==
  ASSUME LineInv, StreamInv, WorkerReads
  PROVE  StreamInv' /\ Seen' = Seen
<1>1. /\ UNCHANGED <<file, threaded, data_begin, data_end, read_error, delivered, outcome>>
      /\ buffer' = Filled(Target) /\ offset' = offset + Given /\ read_byte_count' = Given
      /\ worker = "reading"
      /\ caller' = (IF caller = "sleeping" THEN "finishing" ELSE caller)
  BY DEF WorkerReads, WakeCaller, resultVars
<1>2. /\ threaded /\ IsValid /\ read_byte_count = -1 /\ ~HandsOver /\ ~read_error
      /\ ~Pending /\ Loaded = offset /\ Seen = file /\ caller # "copying"
  BY <1>1, WhileReading
<1>3. /\ Given \in 0..BlockLen /\ offset + Given <= Len(file)
      /\ \A c \in 1..Given : Filled(Target)[Target + c - 1] = offset + c
      /\ Given = BlockLen \/ offset + Given = Len(file)
      /\ \A c \in Slots : c < 2 * BlockLen => Filled(Target)[c] = buffer[c]
  BY GivenBounds, FilledPlaces, FilledCells DEF LineInv
<1>4. /\ offset \in Nat /\ Len(file) \in Nat /\ data_begin \in Nat /\ data_end \in Nat
      /\ data_end <= 2 * BlockLen
  BY SeenFacts DEF StreamInv, LineInv, Bounds
<1>5. Pending' /\ ~HandsOver' /\ (IsValid' <=> IsValid) /\ Seen' = Seen /\ caller' # "copying"
      /\ (caller' \in {"finishing", "sleeping"} <=> caller \in {"finishing", "sleeping"})
  BY <1>1, <1>2, <1>3 DEF Pending, HandsOver, IsValid, Seen
<1>6. Loaded' = Loaded
  BY <1>1, <1>2, <1>3, <1>4, <1>5 DEF Loaded
<1>7. Reads'
  <2>1. offset' >= 2 * BlockLen
    BY <1>1, <1>2, <1>3, <1>4, BlockAssumption DEF StreamInv, Reads
  <2>2. Loaded' < Len(Seen') =>
          IF caller' \in {"finishing", "sleeping"} THEN data_end' = BlockLen
          ELSE data_end' = 2 * BlockLen /\ data_begin' < 2 * BlockLen
    BY <1>1, <1>5, <1>6 DEF StreamInv, Reads
  <2>3. data_end' - data_begin' <= Loaded'
    BY <1>1, <1>6 DEF StreamInv, Reads
  <2> QED BY <1>1, <1>2, <1>3, <1>5, <2>1, <2>2, <2>3 DEF Reads
<1>8. InPlace'
  <2>1. ASSUME NEW c \in data_begin..(data_end - 1) PROVE Held(c)' = Place(c)'
    <3>1. c \in Slots /\ c < 2 * BlockLen
      BY <1>4, BlockAssumption DEF Slots
    <3>2. Held(c)' = buffer[c] /\ Held(c) = buffer[c]
      BY <1>1, <1>2, <1>3, <1>5, <3>1 DEF Held
    <3>3. Place(c)' = Place(c)
      BY <1>1, <1>6 DEF Place
    <3> QED BY <3>2, <3>3 DEF StreamInv, InPlace
  <2>2. \A c \in 1..read_byte_count' : buffer'[Target + c - 1] = Loaded' + c
    BY <1>1, <1>2, <1>3, <1>6
  <2>3. Target' = Target
    BY DEF Target
  <2> QED BY <1>1, <2>1, <2>2, <2>3 DEF InPlace
<1>9. Counted'
  BY <1>1, <1>5, <1>6, SameCount DEF From, Place, StreamInv
<1> QED BY <1>5, <1>7, <1>8, <1>9 DEF StreamInv

(* A block is added behind the data, in the third block, and follows them  *)
(* when it is not empty.  It was read by the thread or is read now.        *)
LEMMA BlockAdded ==
  ASSUME LineInv, StreamInv, caller = "finishing", caller' = "copying", NEW n \in 0..BlockLen, ~read_error,
         UNCHANGED <<file, data_begin, read_error, delivered>>,
         data_end' = data_end + n,
         offset \in Nat, offset' \in 0..Len(file), offset' = Loaded + n, offset' >= offset,
         n = BlockLen \/ offset' = Len(file),
         \A c \in Slots : c < 2 * BlockLen => buffer'[c] = buffer[c],
         \A c \in 1..n : buffer'[Target + c - 1] = Loaded + c
  PROVE  StreamInv' /\ Seen' = Seen
<1>1. /\ data_begin \in Nat /\ data_end \in Nat /\ data_begin < data_end /\ data_end <= BlockLen
      /\ IsValid /\ Loaded \in Nat /\ Len(file) \in Nat /\ Len(Seen) = Len(file) /\ offset >= 2 * BlockLen
      /\ data_end - data_begin <= Loaded
  <2>1. data_begin < data_end /\ data_end <= BlockLen
    BY DEF LineInv, Bounds
  <2>2. IsValid /\ data_end - data_begin <= Loaded
    BY DEF StreamInv, Reads
  <2>3. offset >= 2 * BlockLen
    BY <2>2 DEF StreamInv, Reads
  <2> QED BY <2>1, <2>2, <2>3, SeenFacts DEF StreamInv
<1>2. Seen' = Seen /\ ~Pending' /\ HandsOver' /\ (IsValid' <=> IsValid)
  BY DEF Seen, Pending, IsValid, HandsOver
<1>3. Loaded' = Loaded + n
  BY <1>2 DEF Loaded
<1>4. n > 0 => data_end = BlockLen
  <2>1. n > 0 => Loaded < Len(Seen)
    BY <1>1
  <2> QED BY <2>1 DEF StreamInv, Reads
<1>5. Reads'
  <2>1. offset' >= 2 * BlockLen
    BY <1>1, BlockAssumption
  <2>2. Loaded' < Len(Seen') => data_end' = 2 * BlockLen /\ data_begin' < 2 * BlockLen
    <3>1. Loaded' < Len(Seen') => n = BlockLen
      BY <1>1, <1>2, <1>3
    <3> QED BY <1>1, <1>4, <3>1, BlockAssumption
  <2>3. data_end' - data_begin' <= Loaded'
    BY <1>1, <1>3
  <2> QED BY <1>1, <1>2, <2>1, <2>2, <2>3 DEF Reads
<1>6. ASSUME NEW c \in Int PROVE Place(c)' = Place(c)
  BY <1>1, <1>3 DEF Place
<1>7. InPlace'
  <2>1. ASSUME NEW c \in data_begin..(data_end' - 1) PROVE Held(c)' = Place(c)'
    <3>1. c \in Nat
      BY <1>1
    <3>2. CASE c < data_end
      <4>1. c \in Slots /\ c < BlockLen /\ c \in data_begin..(data_end - 1)
        BY <1>1, <2>1, <3>1, <3>2, BlockAssumption DEF Slots
      <4>2. Held(c)' = buffer[c] /\ Held(c) = buffer[c]
        BY <4>1, BlockAssumption DEF Held
      <4> QED BY <1>6, <3>1, <4>1, <4>2 DEF StreamInv, InPlace
    <3>3. CASE c >= data_end
      <4>1. data_end = BlockLen /\ c - BlockLen + 1 \in 1..n
        BY <1>1, <1>4, <2>1, <3>1, <3>3, BlockAssumption
      <4>2. Held(c)' = buffer'[c + BlockLen]
        BY <3>3, <4>1 DEF Held
      <4>3. buffer'[Target + (c - BlockLen + 1) - 1] = Loaded + (c - BlockLen + 1)
        BY <4>1
      <4>4. Target + (c - BlockLen + 1) - 1 = c + BlockLen
        BY <3>1, BlockAssumption DEF Target
      <4>5. Place(c) = Loaded + (c - BlockLen + 1)
        BY <1>1, <3>1, <4>1, BlockAssumption DEF Place
      <4> QED BY <1>6, <3>1, <4>2, <4>3, <4>4, <4>5
    <3> QED BY <1>1, <3>1, <3>2, <3>3
  <2> QED BY <1>2, <2>1 DEF InPlace
<1>8. Counted'
  BY <1>1, <1>2, <1>6, SameCount DEF From, StreamInv
<1> QED BY <1>2, <1>5, <1>7, <1>8 DEF StreamInv

(* finish_read returns what the thread has read, or reads it.              *)
LEMMA FinishSteps ==
  ASSUME LineInv, StreamInv, FinishReturns \/ FinishReads
  PROVE  StreamInv' /\ Seen' = Seen
<1>1. file \in Seq(Bytes) /\ offset \in 0..Len(file) /\ Len(file) \in Nat /\ Loaded \in Nat
  BY SeenFacts DEF StreamInv
<1>2. CASE FinishReturns
  <2>1. /\ UNCHANGED <<file, offset, buffer, data_begin, read_error, delivered>>
        /\ caller = "finishing" /\ caller' = "copying" /\ threaded
        /\ read_byte_count # -1 /\ ~read_error /\ data_end' = data_end + read_byte_count
    BY <1>2 DEF FinishReturns, readerVars, resultVars
  <2>2. read_byte_count \in 0..BlockLen
    BY <2>1, BlockAssumption DEF LineInv, LineTypeOK
  <2>3. Pending
    BY <2>1 DEF Pending, HandsOver
  <2>4. offset' = Loaded + read_byte_count
    BY <1>1, <2>1, <2>2, <2>3 DEF Loaded
  <2>5. read_byte_count = BlockLen \/ offset' = Len(file)
    BY <2>1, <2>3 DEF StreamInv, Reads
  <2>6. \A c \in 1..read_byte_count : buffer'[Target + c - 1] = Loaded + c
    BY <2>1, <2>3 DEF StreamInv, InPlace
  <2>7. offset \in Nat /\ offset' \in 0..Len(file) /\ offset' >= offset
    BY <1>1, <2>1
  <2>8. \A c \in Slots : c < 2 * BlockLen => buffer'[c] = buffer[c]
    BY <2>1
  <2> QED BY <2>1, <2>2, <2>4, <2>5, <2>6, <2>7, <2>8, BlockAdded
<1>3. CASE FinishReads
  <2>1. /\ UNCHANGED <<file, data_begin, read_error, delivered>>
        /\ caller = "finishing" /\ caller' = "copying" /\ ~threaded
        /\ offset' = offset + Given /\ data_end' = data_end + Given /\ buffer' = Filled(Target)
    BY <1>3 DEF FinishReads, readerVars, resultVars
  <2>2. ~read_error
    BY <2>1 DEF StreamInv, Reads
  <2>3. Loaded = offset
    BY <2>1 DEF Loaded, Pending
  <2>4. /\ Given \in 0..BlockLen /\ offset + Given <= Len(file)
        /\ \A c \in 1..Given : buffer'[Target + c - 1] = Loaded + c
        /\ Given = BlockLen \/ offset' = Len(file)
        /\ \A c \in Slots : c < 2 * BlockLen => buffer'[c] = buffer[c]
    BY <2>1, <2>3, GivenBounds, FilledPlaces, FilledCells DEF LineInv
  <2>5. offset \in Nat /\ offset' \in 0..Len(file) /\ offset' >= offset /\ offset' = Loaded + Given
    BY <1>1, <2>1, <2>3, <2>4
  <2> QED BY <2>1, <2>2, <2>4, <2>5, BlockAdded
<1> QED BY <1>2, <1>3

(* The block is copied to where it belongs.                                *)
LEMMA CopyStep ==
  ASSUME LineInv, StreamInv, CopyBlock
  PROVE  StreamInv' /\ Seen' = Seen
<1>1. /\ UNCHANGED <<file, offset, threaded, data_begin, data_end, read_byte_count, read_error,
                     worker, delivered>>
      /\ caller = "copying" /\ caller' = "starting"
      /\ buffer' = [c \in Slots |-> IF BlockLen <= c /\ c < 2 * BlockLen THEN buffer[c + BlockLen]
                                    ELSE buffer[c]]
  BY DEF CopyBlock, readerVars, resultVars
<1>2. Seen' = Seen /\ ~Pending' /\ ~Pending /\ HandsOver /\ HandsOver' /\ (IsValid' <=> IsValid)
  BY <1>1 DEF Seen, Pending, IsValid, HandsOver
<1>3. Loaded' = Loaded
  BY <1>1, <1>2 DEF Loaded
<1>4. Reads'
  BY <1>1, <1>2, <1>3 DEF StreamInv, Reads
<1>5. InPlace'
  <2>1. ASSUME NEW c \in data_begin..(data_end - 1) PROVE Held(c)' = Place(c)'
    <3>1. c \in Slots /\ c < 2 * BlockLen
      BY BlockAssumption DEF LineInv, LineTypeOK, Bounds, Slots
    <3>2. Held(c)' = Held(c)
      BY <1>1, <3>1, BlockAssumption DEF Held, Slots
    <3>3. Place(c)' = Place(c)
      BY <1>1, <1>3 DEF Place
    <3> QED BY <3>2, <3>3 DEF StreamInv, InPlace
  <2> QED BY <1>1, <1>2, <2>1 DEF InPlace
<1>6. Counted'
  BY <1>1, <1>2, <1>3, SameCount DEF From, Place, StreamInv
<1> QED BY <1>2, <1>4, <1>5, <1>6 DEF StreamInv

(* The next block is asked for.                                            *)
LEMMA StartStep ==
  ASSUME LineInv, StreamInv, StartRead
  PROVE  StreamInv' /\ Seen' = Seen
<1>1. /\ UNCHANGED <<file, offset, threaded, buffer, data_begin, data_end, read_error, delivered>>
      /\ caller \in {"constructing", "starting"} /\ read_byte_count' = -1
      /\ caller' = (IF caller = "constructing" THEN "outside" ELSE "scanning")
  BY DEF StartRead, bufferVars, resultVars
<1>2. Seen' = Seen /\ ~Pending' /\ ~Pending /\ HandsOver /\ ~HandsOver' /\ (IsValid' <=> IsValid)
  BY <1>1 DEF Seen, Pending, IsValid, HandsOver
<1>3. Loaded' = Loaded
  BY <1>1, <1>2 DEF Loaded
<1>4. Reads'
  <2>1. IsValid /\ ~read_error
    BY <1>2 DEF StreamInv, Reads
  <2> QED BY <1>1, <1>2, <1>3, <2>1 DEF StreamInv, Reads
<1>5. InPlace'
  BY <1>1, <1>2, <1>3 DEF StreamInv, InPlace, Held, Place
<1>6. Counted'
  BY <1>1, <1>2, <1>3, SameCount DEF From, Place, StreamInv
<1> QED BY <1>2, <1>4, <1>5, <1>6 DEF StreamInv

----------------------------------------------------------------------------
(* The line that is looked for: its bytes are the file's from From on, as  *)
(* far as its end was found, and then there is a newline or, unless more   *)
(* is to be read, the end.                                                 *)
LEMMA LineFound ==
  ASSUME LineInv, StreamInv, caller = "scanning", NEW n, n = LineEnd - data_begin
  PROVE  /\ n \in Nat /\ LineEnd \in Nat /\ LineEnd = data_begin + n /\ LineEnd <= data_end
         /\ From \in Stream!Starts(Seen) /\ From \in 1..Len(Seen) /\ From + n <= Len(Seen) + 1
         /\ \A c \in data_begin..(data_end - 1) :
              buffer[c] = From + (c - data_begin) /\ Kind(c) = Seen[From + (c - data_begin)]
         /\ \A j \in From..(From + n - 1) : Seen[j] # "newline"
         /\ LineEnd < data_end => From + n <= Len(Seen) /\ Seen[From + n] = "newline"
         /\ LineEnd = data_end => From + n = Loaded + 1
<1>1. /\ file \in Seq(Bytes) /\ Len(Seen) \in Nat /\ Len(Seen) <= Len(file)
      /\ \A j \in 1..Len(Seen) : Seen[j] = file[j]
      /\ data_begin \in Nat /\ data_end \in Nat /\ data_begin < data_end /\ data_end <= 2 * BlockLen
      /\ Loaded \in Nat /\ Loaded <= Len(Seen)
      /\ From \in Nat /\ From >= 1 /\ From = Loaded - data_end + data_begin + 1
  <2>1. data_begin < data_end /\ data_end <= 2 * BlockLen
    BY DEF LineInv, Bounds
  <2>2. Len(Seen) \in Nat /\ Len(Seen) <= Len(file)
    BY SeenFacts DEF StreamInv
  <2> QED BY <2>1, <2>2, SeenFacts DEF StreamInv
<1> DEFINE T == {data_end} \cup {c \in data_begin..(data_end - 1) : Kind(c) = "newline"}
<1>2. LineEnd \in T /\ \A y \in T : LineEnd <= y
  <2>1. T \in SUBSET Nat /\ T # {}
    BY <1>1
  <2> QED BY <2>1, LeastOf DEF LineEnd
<1>3. LineEnd \in Nat /\ data_begin <= LineEnd /\ LineEnd <= data_end
  BY <1>1, LineEndBounds DEF LineInv
<1>4. n \in Nat /\ LineEnd = data_begin + n
  BY <1>1, <1>3
<1>5. From <= Loaded /\ From + n <= Loaded + 1
  BY <1>1, <1>3, <1>4
<1>6. From \in Stream!Starts(Seen) /\ From \in 1..Len(Seen) /\ From + n <= Len(Seen) + 1
  <2>1. From + n <= Len(Seen) + 1 /\ From \in 1..Len(Seen)
    BY <1>1, <1>4, <1>5
  <2>2. From \in Stream!Starts(Seen) \cup {Len(Seen) + 1}
    BY DEF StreamInv, Counted
  <2>3. From # Len(Seen) + 1
    BY <2>1
  <2> QED BY <2>1, <2>2, <2>3
<1>7. ASSUME NEW c \in data_begin..(data_end - 1)
      PROVE  buffer[c] = From + (c - data_begin) /\ Kind(c) = Seen[From + (c - data_begin)]
             /\ From + (c - data_begin) \in 1..Len(Seen)
  <2>1. Held(c) = Place(c) /\ Held(c) = buffer[c]
    BY DEF StreamInv, InPlace, Held
  <2>2. Place(c) = From + (c - data_begin)
    BY <1>1 DEF Place
  <2>3. From + (c - data_begin) \in 1..Len(Seen)
    BY <1>1
  <2>4. Kind(c) = file[From + (c - data_begin)]
    <3>1. From + (c - data_begin) # 0
      BY <1>1, <2>3
    <3> QED BY <2>1, <2>2, <3>1 DEF Kind
  <2> QED BY <1>1, <2>1, <2>2, <2>3, <2>4
<1>8. ASSUME NEW j \in From..(From + n - 1) PROVE Seen[j] # "newline"
  <2> DEFINE c == data_begin + (j - From)
  <2>1. c \in data_begin..(data_end - 1) /\ c < LineEnd /\ From + (c - data_begin) = j
    BY <1>1, <1>3, <1>4
  <2>2. Kind(c) # "newline"
    <3>1. c \notin T
      BY <1>1, <1>2, <1>3, <2>1
    <3> QED BY <2>1, <3>1
  <2> HIDE DEF c
  <2> QED BY <1>7, <2>1, <2>2
<1>9. LineEnd < data_end => From + n <= Len(Seen) /\ Seen[From + n] = "newline"
  <2> SUFFICES ASSUME LineEnd < data_end PROVE From + n <= Len(Seen) /\ Seen[From + n] = "newline"
    OBVIOUS
  <2>1. LineEnd \in data_begin..(data_end - 1) /\ Kind(LineEnd) = "newline"
    BY <1>1, <1>2, <1>3
  <2>2. From + (LineEnd - data_begin) = From + n
    BY <1>4
  <2> QED BY <1>7, <2>1, <2>2
<1>10. LineEnd = data_end => From + n = Loaded + 1
  BY <1>1, <1>4
<1> QED BY <1>3, <1>4, <1>6, <1>7, <1>8, <1>9, <1>10

(* The stream counts as its reader does.                                   *)
LEMMA StreamCardinality == ASSUME NEW S PROVE Stream!Cardinality(S) = Cardinality(S)
BY DEF Stream!Cardinality, Cardinality

(* The line after those returned starts where the data do, when it does.   *)
LEMMA FromIsNext ==
  ASSUME Counted, From \in Stream!Starts(Seen)
  PROVE  Stream!IsNext(From)
BY StreamCardinality DEF Counted, Stream!IsNext, Seen

(* A line is returned: the next one of the stream.                         *)
LEMMA ReturnDelivers ==
  ASSUME LineInv, StreamInv, ReturnLine
  PROVE  /\ Cardinality(Stream!LineFrom(Seen, From)) <= BlockLen - 1
         /\ delivered' = Append(delivered, Stream!Text(Seen, From))
         /\ Stream!IsNext(From)
<1> DEFINE n == LineEnd - data_begin
<1>1. caller = "scanning" /\ ~TooLong
      /\ delivered' = Append(delivered, [k \in 1..(TextEnd - data_begin) |-> buffer[data_begin + k - 1]])
  BY DEF ReturnLine
<1>2. /\ n \in Nat /\ LineEnd \in Nat /\ LineEnd = data_begin + n /\ LineEnd <= data_end
      /\ From \in Stream!Starts(Seen) /\ From \in 1..Len(Seen) /\ From + n <= Len(Seen) + 1
      /\ \A c \in data_begin..(data_end - 1) :
           buffer[c] = From + (c - data_begin) /\ Kind(c) = Seen[From + (c - data_begin)]
      /\ \A j \in From..(From + n - 1) : Seen[j] # "newline"
      /\ LineEnd < data_end => From + n <= Len(Seen) /\ Seen[From + n] = "newline"
      /\ LineEnd = data_end => From + n = Loaded + 1
  BY <1>1, LineFound
<1>3. LineEnd < 2 * BlockLen - 1
  BY <1>1, LineBeforeTarget
<1>4. Seen \in Seq(Bytes) /\ Len(Seen) \in Nat /\ data_begin \in Nat /\ data_end \in Nat
      /\ Loaded \in Nat /\ Loaded <= Len(Seen)
  BY SeenFacts DEF StreamInv
<1>5. LineEnd = data_end => Loaded = Len(Seen)
  <2>1. data_end # 2 * BlockLen \/ LineEnd # data_end
    BY <1>2, <1>3, <1>4, BlockAssumption
  <2>2. Loaded < Len(Seen) => data_end = 2 * BlockLen
    BY <1>1 DEF StreamInv, Reads
  <2> QED BY <1>4, <2>1, <2>2
<1> HIDE DEF n
<1>6. From + n <= Len(Seen) => Seen[From + n] = "newline"
  BY <1>2, <1>4, <1>5
<1>7. Cardinality(Stream!LineFrom(Seen, From)) = n
  BY <1>2, <1>4, <1>6, LineIs DEF Bytes
<1>8. n <= BlockLen - 1
  BY <1>1, <1>2, <1>4, BlockAssumption DEF TooLong, n
<1>9. [k \in 1..(TextEnd - data_begin) |-> buffer[data_begin + k - 1]] = Stream!Text(Seen, From)
  <2> DEFINE m == IF n > 0 /\ Seen[From + n - 1] = "return" THEN n - 1 ELSE n
  <2>1. TextEnd - data_begin = m
    <3>1. CASE n > 0
      <4>1. LineEnd - 1 \in data_begin..(data_end - 1) /\ LineEnd # data_begin
        BY <1>2, <1>4, <3>1
      <4>2. Kind(LineEnd - 1) = Seen[From + ((LineEnd - 1) - data_begin)]
        BY <1>2, <4>1
      <4>3. From + ((LineEnd - 1) - data_begin) = From + n - 1
        BY <1>2, <1>4
      <4> QED BY <1>2, <1>4, <3>1, <4>1, <4>2, <4>3 DEF TextEnd
    <3>2. CASE n = 0
      BY <1>2, <1>4, <3>2 DEF TextEnd
    <3> QED BY <1>2, <3>1, <3>2
  <2>2. m \in Nat /\ m <= n
    BY <1>2
  <2>3. Stream!Text(Seen, From) = [k \in 1..m |-> From + k - 1]
    BY <1>7, StreamCardinality DEF Stream!Text
  <2> HIDE DEF m
  <2>4. ASSUME NEW k \in 1..m PROVE buffer[data_begin + k - 1] = From + k - 1
    <3>1. data_begin + k - 1 \in data_begin..(data_end - 1)
      BY <1>2, <1>4, <2>2
    <3>2. buffer[data_begin + k - 1] = From + ((data_begin + k - 1) - data_begin)
      BY <1>2, <3>1
    <3> QED BY <1>2, <1>4, <2>2, <3>2
  <2> QED BY <2>1, <2>3, <2>4
<1> QED BY <1>1, <1>2, <1>7, <1>8, <1>9, FromIsNext DEF StreamInv

(* The data then begin behind that line.                                   *)
LEMMA ReturnStep ==
  ASSUME LineInv, StreamInv, ReturnLine
  PROVE  StreamInv' /\ Seen' = Seen
<1> DEFINE n == LineEnd - data_begin
<1>1. /\ caller = "scanning" /\ caller' = "outside" /\ ~TooLong
      /\ UNCHANGED <<file, offset, threaded, read_byte_count, read_error, worker>>
      /\ buffer' = [buffer EXCEPT ![LineEnd] = 0, ![TextEnd] = 0]
      /\ data_end' = (IF LineEnd = data_end THEN data_end + 1 ELSE data_end)
      /\ data_begin' = LineEnd + 1
  BY DEF ReturnLine, EndAfterLine, readerVars
<1>2. /\ n \in Nat /\ LineEnd \in Nat /\ LineEnd = data_begin + n /\ LineEnd <= data_end
      /\ From \in Stream!Starts(Seen) /\ From \in 1..Len(Seen) /\ From + n <= Len(Seen) + 1
      /\ \A j \in From..(From + n - 1) : Seen[j] # "newline"
      /\ LineEnd < data_end => From + n <= Len(Seen) /\ Seen[From + n] = "newline"
      /\ LineEnd = data_end => From + n = Loaded + 1
  BY <1>1, LineFound
<1>3. LineEnd < 2 * BlockLen - 1
  BY <1>1, LineBeforeTarget
<1>4. /\ Seen \in Seq(Bytes) /\ Len(Seen) \in Nat /\ data_begin \in Nat /\ data_end \in Nat
      /\ Loaded \in Nat /\ Loaded <= Len(Seen) /\ From \in Nat /\ From = Loaded - data_end + data_begin + 1
      /\ data_begin < data_end /\ data_end <= 2 * BlockLen /\ read_byte_count \in -1..BlockLen
      /\ data_end - data_begin <= Loaded
  <2>1. data_begin < data_end /\ data_end <= 2 * BlockLen /\ read_byte_count \in -1..BlockLen
    BY <1>1 DEF LineInv, LineTypeOK, Bounds
  <2>2. data_end - data_begin <= Loaded
    BY DEF StreamInv, Reads
  <2> QED BY <2>1, <2>2, SeenFacts DEF StreamInv
<1>5. Loaded < Len(Seen) => data_end = 2 * BlockLen /\ LineEnd < data_end
  <2>1. Loaded < Len(Seen) => data_end = 2 * BlockLen
    BY <1>1 DEF StreamInv, Reads
  <2> QED BY <1>2, <1>3, <1>4, <2>1, BlockAssumption
<1>6. /\ Seen' = Seen /\ (Pending' <=> Pending) /\ ~HandsOver /\ ~HandsOver' /\ (IsValid' <=> IsValid)
  BY <1>1 DEF Seen, Pending, IsValid, HandsOver
<1>7. Loaded' = Loaded
  BY <1>1, <1>6 DEF Loaded
<1> HIDE DEF n
<1>8. Reads'
  <2>1. IF IsValid' THEN offset' >= 2 * BlockLen
        ELSE offset' = Len(file') /\ ~HandsOver' /\ ~Pending' /\ caller' \notin {"finishing", "sleeping"}
    BY <1>1, <1>6 DEF StreamInv, Reads
  <2>2. read_error' => IF threaded' THEN worker' = "ended" /\ read_byte_count' = -1 /\ ~HandsOver'
                       ELSE /\ ~HandsOver' /\ caller' \notin {"finishing", "sleeping"}
                            /\ data_end' <= BlockLen \/ data_begin' = data_end'
    <3>1. read_error => IF threaded THEN worker = "ended" /\ read_byte_count = -1
                        ELSE data_end <= BlockLen
      BY <1>4 DEF StreamInv, Reads
    <3> QED BY <1>1, <1>6, <3>1
  <2>3. Pending' => read_byte_count' = BlockLen \/ offset' = Len(file')
    BY <1>1, <1>6 DEF StreamInv, Reads
  <2>4. Loaded' < Len(Seen') => data_end' = 2 * BlockLen /\ data_begin' < 2 * BlockLen
    BY <1>1, <1>2, <1>3, <1>4, <1>5, <1>6, <1>7, BlockAssumption
  <2>5. data_end' - data_begin' <= Loaded'
    BY <1>1, <1>2, <1>4, <1>7
  <2> QED BY <1>1, <2>1, <2>2, <2>3, <2>4, <2>5 DEF Reads
<1>9. \A c \in Slots : c > LineEnd => buffer'[c] = buffer[c]
  <2>1. TextEnd \in Nat /\ TextEnd <= LineEnd
    BY <1>4, TextEndBounds DEF LineInv
  <2>2. buffer \in [Slots -> 0..Len(file)]
    BY DEF LineInv, LineTypeOK
  <2>3. \A c \in Slots : c # LineEnd /\ c # TextEnd =>
          [[buffer EXCEPT ![LineEnd] = 0] EXCEPT ![TextEnd] = 0][c] = buffer[c]
    BY <2>2
  <2>4. \A c \in Slots : c > LineEnd => c # LineEnd /\ c # TextEnd
    BY <1>2, <2>1 DEF Slots
  <2>5. buffer' = [[buffer EXCEPT ![LineEnd] = 0] EXCEPT ![TextEnd] = 0]
    BY <1>1
  <2> QED BY <2>3, <2>4, <2>5
<1>10. InPlace'
  <2>1. ASSUME NEW c \in data_begin'..(data_end' - 1) PROVE Held(c)' = Place(c)'
    <3>1. data_end' = data_end /\ c \in data_begin..(data_end - 1) /\ c > LineEnd /\ c \in Slots
      BY <1>1, <1>2, <1>4, BlockAssumption DEF Slots
    <3>2. Held(c)' = buffer'[c] /\ Held(c) = buffer[c]
      BY <1>1 DEF Held
    <3>3. Place(c)' = Place(c)
      BY <1>7, <3>1 DEF Place
    <3> QED BY <1>9, <3>1, <3>2, <3>3 DEF StreamInv, InPlace
  <2>2. ASSUME Pending', NEW c \in 1..read_byte_count' PROVE buffer'[Target + c - 1] = Loaded' + c
    <3>1. Target + c - 1 \in Slots /\ Target + c - 1 > LineEnd /\ c \in 1..read_byte_count
      BY <1>1, <1>2, <1>3, <1>4, BlockAssumption DEF Slots, Target
    <3> QED BY <1>6, <1>7, <1>9, <2>2, <3>1 DEF StreamInv, InPlace
  <2>3. Target' = Target
    BY DEF Target
  <2> QED BY <2>1, <2>2, <2>3 DEF InPlace
<1>11. Counted'
  <2> DEFINE next == From'
  <2>1. next = IF LineEnd = data_end THEN From + n ELSE From + n + 1
    <3>1. next = Loaded - data_end' + data_begin' + 1
      BY <1>7 DEF From, Place
    <3> QED BY <1>1, <1>2, <1>4, <3>1
  <2>2. LineEnd = data_end => n > 0
    BY <1>2, <1>4
  <2>3. next \in Nat /\ From < next /\ next <= Len(Seen) + 1
    BY <1>2, <1>4, <2>1, <2>2
  <2>4. \A j \in From..(next - 2) : Seen[j] # "newline"
    BY <1>2, <1>4, <2>1
  <2>5. next <= Len(Seen) => Seen[next - 1] = "newline"
    BY <1>2, <1>4, <1>5, <2>1
  <2> HIDE DEF next
  <2>6. /\ next \in Stream!Starts(Seen) \cup {Len(Seen) + 1}
        /\ Cardinality({k \in Stream!Starts(Seen) : k < next})
             = Cardinality({k \in Stream!Starts(Seen) : k < From}) + 1
    <3>1. Seen \in Seq({"newline", "return", "bom", "other"})
      BY <1>4 DEF Bytes
    <3>2. From \in Stream!Starts(Seen)
      BY <1>2
    <3> QED BY <1>4, <2>3, <2>4, <2>5, <3>1, <3>2, NextStart
  <2>7. Len(delivered') = Len(delivered) + 1
    BY DEF ReturnLine, LineInv, LineTypeOK
  <2>8. Len(delivered) = Cardinality({k \in Stream!Starts(Seen) : k < From})
    BY DEF StreamInv, Counted
  <2>9. Len(delivered') = Cardinality({k \in Stream!Starts(Seen) : k < next})
    BY <2>6, <2>7, <2>8
  <2> QED BY <1>6, <2>6, <2>9 DEF Counted, next
<1> QED BY <1>6, <1>8, <1>10, <1>11 DEF StreamInv

(* A line that is too long is one of the stream.                           *)
LEMMA TooLongRefuses ==
  ASSUME LineInv, StreamInv, LineTooLong
  PROVE  Stream!IsNext(From) /\ Cardinality(Stream!LineFrom(Seen, From)) > BlockLen - 1
         /\ From \in Stream!Starts(Seen)
<1> DEFINE n == LineEnd - data_begin
<1>1. caller = "scanning" /\ TooLong
  BY DEF LineTooLong
<1>2. /\ n \in Nat
      /\ From \in Stream!Starts(Seen) /\ From \in 1..Len(Seen) /\ From + n <= Len(Seen) + 1
      /\ \A j \in From..(From + n - 1) : Seen[j] # "newline"
  BY <1>1, LineFound
<1>3. n >= BlockLen
  BY <1>1, <1>2, BlockAssumption DEF TooLong
<1> HIDE DEF n
<1>4. /\ IsFiniteSet(Stream!LineFrom(Seen, From))
      /\ Cardinality(Stream!LineFrom(Seen, From)) >= n
  BY <1>2, LineAtLeast, SeenFacts DEF Bytes, StreamInv
<1>5. Cardinality(Stream!LineFrom(Seen, From)) \in Nat
  BY <1>4, FS_CardinalityType
<1> QED BY <1>2, <1>3, <1>4, <1>5, FromIsNext, BlockAssumption DEF StreamInv

(* The end is told when all lines were returned.                           *)
LEMMA EndIsEnd ==
  ASSUME LineInv, StreamInv, AtEnd
  PROVE  Len(delivered) = Cardinality(Stream!Starts(Seen))
<1>1. data_begin = data_end /\ caller = "outside"
  BY DEF AtEnd
<1>2. Loaded \in Nat /\ Loaded <= Len(Seen) /\ Seen \in Seq(Bytes) /\ Len(Seen) \in Nat
      /\ data_end \in Nat /\ From = Loaded - data_end + data_begin + 1
  BY SeenFacts DEF StreamInv
<1>3. ~(Loaded < Len(Seen))
  BY <1>1, BlockAssumption DEF StreamInv, Reads
<1>4. From = Len(Seen) + 1
  BY <1>1, <1>2, <1>3
<1> QED BY <1>2, <1>4, AllStarted DEF StreamInv, Counted, Bytes

(* Init fills two blocks, or reads the whole file.                         *)
LEMMA StreamInitInv == LineInit => StreamInv
<1> SUFFICES ASSUME LineInit PROVE StreamInv
  OBVIOUS
<1>1. file \in Seq(Bytes) /\ Len(file) \in Nat
  BY FilesAssumption DEF LineInit, Bytes
<1>2. offset \in Nat /\ offset <= Len(file) /\ IF IsValid THEN offset = 2 * BlockLen ELSE offset = Len(file)
  <2>1. {2 * BlockLen, Len(file)} \in SUBSET Nat
    BY <1>1, BlockAssumption
  <2>2. /\ Min({2 * BlockLen, Len(file)}) \in {2 * BlockLen, Len(file)}
        /\ \A y \in {2 * BlockLen, Len(file)} : Min({2 * BlockLen, Len(file)}) <= y
    BY <2>1, LeastOf
  <2> QED BY <1>1, <2>2, BlockAssumption DEF LineInit, IsValid
<1>3. /\ data_begin = (IF Stream!HasBOM(file) THEN 3 ELSE 0) /\ data_end = offset
      /\ data_begin \in 0..3 /\ data_begin <= offset
  <2>1. Marked(offset) <=> Stream!HasBOM(file)
    BY <1>1, <1>2, BlockAssumption DEF Marked, Stream!HasBOM, IsValid
  <2>2. Marked(offset) => offset >= 3
    BY DEF Marked
  <2> QED BY <1>2, <2>1, <2>2 DEF LineInit
<1>4. ~Pending /\ Loaded = offset /\ Seen = file /\ ~read_error /\ delivered = << >>
      /\ caller = (IF IsValid THEN "constructing" ELSE "outside")
  BY DEF LineInit, Pending, Loaded, Seen
<1>5. Reads
  BY <1>2, <1>3, <1>4, BlockAssumption DEF Reads, HandsOver
<1>6. InPlace
  <2>1. ASSUME NEW c \in data_begin..(data_end - 1) PROVE Held(c) = Place(c)
    <3>1. offset <= 2 * BlockLen
      BY <1>1, <1>2, BlockAssumption DEF IsValid
    <3>2. c \in Slots /\ c < offset /\ c \in Nat
      BY <1>2, <1>3, <3>1, BlockAssumption DEF Slots
    <3>3. Held(c) = c + 1
      BY <1>4, <3>2 DEF Held, LineInit
    <3> QED BY <1>2, <1>3, <1>4, <3>2, <3>3 DEF Place
  <2> QED BY <1>4, <2>1 DEF InPlace
<1>7. Counted
  <2>1. From = IF Stream!HasBOM(file) THEN 4 ELSE 1
    BY <1>2, <1>3, <1>4 DEF From, Place
  <2>2. /\ From \in Stream!Starts(file) \cup {Len(file) + 1}
        /\ {k \in Stream!Starts(file) : k < From} = {}
    BY <1>1, <2>1, FirstStart DEF Bytes
  <2>3. Cardinality({k \in Stream!Starts(file) : k < From}) = 0
    BY <2>2, FS_EmptySet
  <2> QED BY <1>4, <2>2, <2>3 DEF Counted
<1> QED BY <1>5, <1>6, <1>7 DEF StreamInv

(* A state of the reader maps to a state of the stream, and a step to a    *)
(* step or to none.                                                        *)
LEMMA StreamStep ==
  ASSUME LineInv, StreamInv, [LineNext]_lineVars
  PROVE  StreamInv' /\ [Stream!StreamNext]_Stream!streamVars
<1> DEFINE stays == UNCHANGED Stream!streamVars
<1>1. CASE AtEnd
  <2>1. StreamInv' /\ Seen' = Seen
    BY <1>1, QuietSteps
  <2>2. Stream!End
    <3>1. Len(delivered) = Stream!Cardinality(Stream!Starts(Seen))
      BY <1>1, EndIsEnd, StreamCardinality
    <3>2. outcome' = "end" /\ UNCHANGED <<read_error, delivered>>
      BY <1>1 DEF AtEnd, readerVars
    <3> QED BY <2>1, <3>1, <3>2 DEF Stream!End, Seen
  <2> QED BY <2>1, <2>2 DEF Stream!StreamNext
<1>2. CASE LineTooLong
  <2>1. StreamInv' /\ Seen' = Seen
    BY <1>2, QuietSteps
  <2>2. Stream!Refuse
    <3>1. /\ Stream!IsNext(From) /\ From \in Stream!Starts(Seen)
          /\ Stream!Cardinality(Stream!LineFrom(Seen, From)) > BlockLen - 1
      BY <1>2, TooLongRefuses, StreamCardinality
    <3>2. outcome' = "too_long" /\ UNCHANGED <<read_error, delivered>>
      BY <1>2 DEF LineTooLong, Throws, readerVars
    <3> QED BY <2>1, <3>1, <3>2 DEF Stream!Refuse, Seen
  <2> QED BY <2>1, <2>2 DEF Stream!StreamNext
<1>3. CASE ReturnLine
  <2>1. StreamInv' /\ Seen' = Seen
    BY <1>3, ReturnStep
  <2>2. Stream!Deliver
    <3>1. From \in Stream!Starts(Seen)
      BY <1>3, LineFound DEF ReturnLine
    <3>2. /\ Stream!Cardinality(Stream!LineFrom(Seen, From)) <= BlockLen - 1
          /\ delivered' = Append(delivered, Stream!Text(Seen, From)) /\ Stream!IsNext(From)
      BY <1>3, ReturnDelivers, StreamCardinality
    <3>3. outcome' = "line" /\ UNCHANGED read_error
      BY <1>3 DEF ReturnLine, readerVars
    <3> QED BY <2>1, <3>1, <3>2, <3>3 DEF Stream!Deliver, Seen
  <2> QED BY <2>1, <2>2 DEF Stream!StreamNext
<1>4. CASE FinishThrows \/ FinishFails
  BY <1>4, ThrowSteps DEF Stream!StreamNext
<1>5. CASE WorkerFails
  BY <1>5, WorkerFailsStep DEF Stream!StreamNext
<1>6. CASE NextLine \/ Destroy \/ FinishWaits \/ NotifyTermination \/ Join \/ WorkerTests
           \/ SpuriousWakeup \/ UNCHANGED lineVars
  <2>1. StreamInv' /\ Seen' = Seen
    BY <1>6, QuietSteps
  <2>2. UNCHANGED <<read_error, delivered, outcome>>
    BY <1>6 DEF NextLine, Destroy, FinishWaits, NotifyTermination, Join, WorkerTests, SpuriousWakeup,
      lineVars, readerVars, resultVars
  <2>3. stays
    BY <2>1, <2>2 DEF Stream!streamVars, Seen
  <2> QED BY <2>1, <2>3
<1>7. CASE NextLineShifts \/ WorkerReads \/ FinishReturns \/ FinishReads \/ CopyBlock \/ StartRead
  <2>1. StreamInv' /\ Seen' = Seen
    BY <1>7, ShiftStep, WorkerReadsStep, FinishSteps, CopyStep, StartStep
  <2>2. UNCHANGED <<read_error, delivered, outcome>>
    BY <1>7 DEF NextLineShifts, WorkerReads, FinishReturns, FinishReads, CopyBlock, StartRead,
      readerVars, resultVars
  <2>3. stays
    BY <2>1, <2>2 DEF Stream!streamVars, Seen
  <2> QED BY <2>1, <2>3
<1> QED BY <1>1, <1>2, <1>3, <1>4, <1>5, <1>6, <1>7 DEF LineNext, CallStep, Work

(* Whatever its two threads do, the reader of lines is a stream of the     *)
(* file's lines: complete, in order, none twice, the end after the last.   *)
THEOREM LineReaderImplementsStream == LineSpec => ImplementsStream
<1>1. LineInit => Stream!StreamInit
  BY DEF LineInit, Stream!StreamInit
<1>2. LineInv /\ StreamInv /\ [LineNext]_lineVars => StreamInv' /\ [Stream!StreamNext]_Stream!streamVars
  BY StreamStep
<1> QED BY <1>1, <1>2, LineInvInductive, StreamInitInv, PTL
  DEF LineSpec, ImplementsStream, Stream!StreamSpec

----------------------------------------------------------------------------
(* The command line.                                                       *)

\* The value option has after the words before place n.
ValueBefore(option, n) ==
  LET places == {k \in 1..n-1 : k % 2 = 1 /\ argv[k] = option}
  IN  IF places = {} THEN "" ELSE argv[Max(places) + 1]

\* The index is always at the start of a pair, and all before it were pairs.
PairsRead ==
  /\ argv \in Seq(STRING)
  /\ at \in Nat /\ at >= 1 /\ at % 2 = 1 /\ at <= Len(argv) + 1
  /\ args = [o \in Options |-> args[o]]
  /\ \A k \in 1..at-1 : k % 2 = 1 => argv[k] \in Options
  /\ \A o \in Options : args[o] = ValueBefore(o, at)

Outcome ==
  /\ main \in {"opening", "opening_trades", "loaded", "unreadable"} =>
       at = Len(argv) + 1 /\ args["--lob"] # ""
  /\ main = "refused" =>
       \/ at = Len(argv) + 1 /\ args["--lob"] = ""
       \/ at <= Len(argv) /\ argv[at] # "--help" /\ (argv[at] \in Options => at = Len(argv))
  /\ main = "helped" => at <= Len(argv) /\ argv[at] = "--help"

CommandInv == PairsRead /\ Outcome

LEMMA ValueOfPair ==
  ASSUME argv \in Seq(STRING), NEW n \in Nat, n >= 1, n % 2 = 1, NEW o
  PROVE  ValueBefore(o, n + 2) = IF argv[n] = o THEN argv[n + 1] ELSE ValueBefore(o, n)
<1> DEFINE P == {k \in 1..n-1 : k % 2 = 1 /\ argv[k] = o}
           Q == {k \in 1..(n+2)-1 : k % 2 = 1 /\ argv[k] = o}
<1>1. Q = P \cup (IF argv[n] = o THEN {n} ELSE {})
  <2>1. \A k : k \in 1..(n+2)-1 <=> k \in 1..n-1 \/ k = n \/ k = n + 1
    OBVIOUS
  <2>2. (n + 1) % 2 = 0
    OBVIOUS
  <2> QED BY <2>1, <2>2
<1>2. ValueBefore(o, n + 2) = IF Q = {} THEN "" ELSE argv[Max(Q) + 1]
  BY DEF ValueBefore
<1>3. ValueBefore(o, n) = IF P = {} THEN "" ELSE argv[Max(P) + 1]
  BY DEF ValueBefore
<1>4. CASE argv[n] # o
  <2>1. Q = P
    BY <1>1, <1>4
  <2> HIDE DEF P, Q
  <2> QED BY <1>2, <1>3, <1>4, <2>1
<1>5. CASE argv[n] = o
  <2>1. Q \in SUBSET (0..n) /\ n \in Q
    BY <1>1, <1>5
  <2> HIDE DEF P, Q
  <2>2. Max(Q) \in 0..n /\ n <= Max(Q)
    BY <2>1, GreatestOf
  <2>3. Max(Q) = n
    BY <2>2
  <2> QED BY <1>2, <1>5, <2>1, <2>3
<1> QED BY <1>4, <1>5

LEMMA CommandStarts == ASSUME CommandInit PROVE CommandInv
<1>1. argv \in Seq(STRING) /\ at = 1 /\ main = "parsing"
  BY CommandLinesAssumption DEF CommandInit
<1>2. args = [o \in Options |-> ""]
  BY DEF CommandInit
<1> HIDE DEF CommandInit
<1>3. \A o \in Options : args[o] = ValueBefore(o, at)
  <2>1. \A o : {k \in 1..at-1 : k % 2 = 1 /\ argv[k] = o} = {}
    BY <1>1
  <2> QED BY <1>2, <2>1 DEF ValueBefore
<1>4. /\ at \in Nat /\ at >= 1 /\ at % 2 = 1 /\ at <= Len(argv) + 1 /\ args = [o \in Options |-> args[o]]
      /\ \A k \in 1..at-1 : k % 2 = 1 => argv[k] \in Options
  <2>1. at \in Nat /\ at >= 1 /\ at % 2 = 1 /\ at <= Len(argv) + 1
    BY <1>1
  <2>2. \A k \in 1..at-1 : k % 2 = 1 => argv[k] \in Options
    BY <1>1
  <2>3. args = [o \in Options |-> args[o]]
    BY <1>2
  <2> QED BY <2>1, <2>2, <2>3
<1>5. PairsRead
  BY <1>1, <1>3, <1>4 DEF PairsRead
<1>6. Outcome
  BY <1>1 DEF Outcome
<1> QED BY <1>5, <1>6 DEF CommandInv

LEMMA CommandStep ==
  ASSUME CommandInv, [CommandNext]_commandVars
  PROVE  CommandInv'
<1>1. ASSUME argv' = argv, at' = at, args' = args,
             main' \in {"opening", "opening_trades", "loaded", "unreadable"} =>
               at = Len(argv) + 1 /\ args["--lob"] # "",
             main' = "refused" =>
               \/ at = Len(argv) + 1 /\ args["--lob"] = ""
               \/ at <= Len(argv) /\ argv[at] # "--help" /\ (argv[at] \in Options => at = Len(argv)),
             main' = "helped" => at <= Len(argv) /\ argv[at] = "--help"
      PROVE  CommandInv'
  <2>1. \A o : ValueBefore(o, at)' = ValueBefore(o, at)
    BY <1>1 DEF ValueBefore
  <2>2. PairsRead'
    BY <1>1, <2>1 DEF CommandInv, PairsRead
  <2> QED BY <1>1, <2>2 DEF CommandInv, Outcome
<1>2. CASE TakeOption
  <2>1. /\ main = "parsing" /\ argv[at] \in Options /\ at < Len(argv) /\ main' = main /\ argv' = argv
        /\ args' = [args EXCEPT ![argv[at]] = argv[at + 1]] /\ at' = at + 2
    BY <1>2 DEF TakeOption, Parsing
  <2>2. /\ argv \in Seq(STRING) /\ at \in Nat /\ at >= 1 /\ at % 2 = 1 /\ Len(argv) \in Nat
        /\ args = [o \in Options |-> args[o]]
    BY DEF CommandInv, PairsRead
  <2>3. at' \in Nat /\ at' >= 1 /\ at' % 2 = 1 /\ at' <= Len(argv') + 1
    BY <2>1, <2>2
  <2>4. args' = [o \in Options |-> args'[o]]
    BY <2>1, <2>2
  <2>5. \A k \in 1..at'-1 : k % 2 = 1 => argv'[k] \in Options
    <3>1. \A k : k \in 1..(at+2)-1 <=> k \in 1..at-1 \/ k = at \/ k = at + 1
      BY <2>2
    <3>2. (at + 1) % 2 = 0
      BY <2>2
    <3>3. \A k \in 1..at-1 : k % 2 = 1 => argv[k] \in Options
      BY DEF CommandInv, PairsRead
    <3> QED BY <2>1, <3>1, <3>2, <3>3
  <2>6. ASSUME NEW o \in Options PROVE args'[o] = ValueBefore(o, at)'
    <3>1. ValueBefore(o, at)' = ValueBefore(o, at + 2)
      BY <2>1 DEF ValueBefore
    <3>2. ValueBefore(o, at + 2) = IF argv[at] = o THEN argv[at + 1] ELSE ValueBefore(o, at)
      BY <2>2, ValueOfPair
    <3>3. args'[o] = IF argv[at] = o THEN argv[at + 1] ELSE args[o]
      BY <2>1, <2>2
    <3> QED BY <3>1, <3>2, <3>3 DEF CommandInv, PairsRead
  <2>7. argv' \in Seq(STRING)
    BY <2>1, <2>2
  <2>8. PairsRead'
    BY <2>3, <2>4, <2>5, <2>6, <2>7 DEF PairsRead
  <2>9. Outcome'
    BY <2>1 DEF Outcome
  <2> QED BY <2>8, <2>9 DEF CommandInv
<1>3. CASE ThrowOnWord
  BY <1>1, <1>3 DEF ThrowOnWord, Parsing
<1>4. CASE Help
  BY <1>1, <1>4 DEF Help, Parsing
<1>5. CASE EndOfWords
  <2>1. at \in Nat /\ at <= Len(argv) + 1 /\ Len(argv) \in Nat
    BY DEF CommandInv, PairsRead
  <2>2. at > Len(argv)
    BY <1>5 DEF EndOfWords
  <2>3. at = Len(argv) + 1
    BY <2>1, <2>2
  <2> QED BY <1>1, <1>5, <2>3 DEF EndOfWords
<1>6. CASE OpenBook \/ OpenTrades
  BY <1>1, <1>6 DEF OpenBook, OpenTrades, CommandInv, Outcome
<1>7. CASE UNCHANGED commandVars
  BY <1>1, <1>7 DEF commandVars, CommandInv, Outcome
<1> QED BY <1>2, <1>3, <1>4, <1>5, <1>6, <1>7 DEF CommandNext

LEMMA CommandShows == ASSUME CommandInv PROVE ParsedAsMeant
<1>1. /\ argv \in Seq(STRING) /\ Len(argv) \in Nat /\ at \in Nat /\ at >= 1 /\ at % 2 = 1
      /\ "--help" \notin Options
      /\ \A k \in 1..at-1 : k % 2 = 1 => argv[k] \in Options
      /\ \A o \in Options : args[o] = ValueBefore(o, at)
  BY DEF CommandInv, PairsRead, Options
<1>2. ASSUME at = Len(argv) + 1
      PROVE  InPairs /\ ~Helpful /\ \A o \in Options : args[o] = LastValue(o)
  <2>1. at - 1 = Len(argv) /\ Len(argv) % 2 = 0
    BY <1>1, <1>2
  <2>2. \A o : ValueBefore(o, at) = LastValue(o)
    BY <2>1 DEF ValueBefore, LastValue
  <2> QED BY <1>1, <2>1, <2>2 DEF InPairs, Helpful
<1>3. ASSUME at <= Len(argv), argv[at] # "--help", argv[at] \in Options => at = Len(argv)
      PROVE  ~Helpful /\ ~InPairs
  <2>1. ~InPairs
    <3> SUFFICES ASSUME InPairs PROVE FALSE
      OBVIOUS
    <3>1. argv[at] \in Options /\ Len(argv) % 2 = 0
      BY <1>1, <1>3 DEF InPairs
    <3> QED BY <1>1, <1>3, <3>1
  <2>2. ~Helpful
    <3> SUFFICES ASSUME NEW k \in 1..Len(argv), k % 2 = 1, argv[k] = "--help",
                        \A j \in 1..k-1 : j % 2 = 1 => argv[j] \in Options
                 PROVE  FALSE
      BY DEF Helpful
    <3>1. CASE k < at
      <4>1. k \in 1..at-1
        BY <1>1, <3>1
      <4> QED BY <1>1, <4>1
    <3>2. CASE k > at
      <4>1. at \in 1..k-1 /\ k <= Len(argv)
        BY <1>1, <3>2
      <4> QED BY <1>1, <1>3, <3>2, <4>1
    <3> QED BY <1>1, <1>3, <3>1, <3>2
  <2> QED BY <2>1, <2>2
<1>4. ASSUME at <= Len(argv), argv[at] = "--help" PROVE Helpful
  <2>1. at \in 1..Len(argv)
    BY <1>1, <1>4
  <2> QED BY <1>1, <1>4, <2>1 DEF Helpful
<1>5. "--lob" \in Options
  BY DEF Options
<1> QED BY <1>2, <1>3, <1>4, <1>5 DEF CommandInv, Outcome, ParsedAsMeant

(* Whatever the words, the loop of parse_arguments, which moves its own    *)
(* index, reads them in pairs: the last value of an option counts, also    *)
(* one that looks like an option, what is not pairs with a book is         *)
(* refused, and help is given where a pair would start with --help.        *)
THEOREM CommandLineIsParsed == CommandSpec => []ParsedAsMeant
<1>1. CommandInit => CommandInv
  BY CommandStarts
<1>2. CommandInv /\ [CommandNext]_commandVars => CommandInv'
  BY CommandStep
<1>3. CommandInv => ParsedAsMeant
  BY CommandShows
<1> QED BY <1>1, <1>2, <1>3, PTL DEF CommandSpec
----------------------------------------------------------------------------
(* The rows of a file.                                                     *)

\* The cells that are still to be read are cells, none a mark of a pointer.
CellsUnread ==
  /\ unread \in Seq(Seq(STRING))
  /\ \A n \in 1..Len(unread) : \A k \in 1..Len(unread[n]) : unread[n][k] \notin {"null", "stale"}

\* Where order says the columns of header are, under these names; a name
\* that is asked for is not there twice.
Sorts(order, names, head) ==
  /\ Len(order) = Len(head) /\ Len(head) \in Nat
  /\ \A k \in 1..Len(head) : order[k] = IF Known(names, head[k]) THEN ColumnOf(names, head[k]) ELSE 0
  /\ \A j, k \in 1..Len(head) : head[j] = head[k] /\ Known(names, head[k]) => j = k

Untouched ==
  header # << >> /\ fresh => \A i \in Columns : Places(column_names[i]) = {} => pointers[i] = "null"

CsvInv ==
  /\ column_names \in Wanted
  /\ CellsUnread
  /\ header # << >> => Sorts(col_order, column_names, header)
  /\ Untouched

LEMMA ColumnOfName ==
  ASSUME NEW names \in Wanted, NEW name
  PROVE  /\ Known(names, name) <=> \E i \in Columns : names[i] = name
         /\ \A i \in Columns : ColumnOf(names, name) = i <=> names[i] = name
         /\ ColumnOf(names, name) # 0
<1> DEFINE here == {i \in Columns : names[i] = name} \cup {ColumnCount + 1}
           c == Min(here)
<1>1. ColumnCount \in Nat
  BY ColumnCountAssumption
<1>2. here \in SUBSET Nat /\ here # {}
  BY <1>1 DEF Columns
<1>3. c \in here /\ \A y \in here : c <= y
  <2> HIDE DEF here
  <2> QED BY <1>2, LeastOf
<1>4. \A i, j \in Columns : names[i] = names[j] => i = j
  BY WantedAssumption DEF Columns
<1>5. c # 0 /\ (c \in Columns => names[c] = name)
  BY <1>1, <1>3 DEF Columns
<1>6. ASSUME NEW i \in Columns, names[i] = name PROVE c \in Columns
  <2>1. c <= i /\ i <= ColumnCount
    BY <1>1, <1>3, <1>6 DEF Columns
  <2>2. c # ColumnCount + 1
    BY <1>1, <2>1 DEF Columns
  <2> QED BY <1>3, <2>2
<1>7. ColumnOf(names, name) = c
  BY DEF ColumnOf
<1> HIDE DEF c
<1> QED BY <1>4, <1>5, <1>6, <1>7 DEF Known

LEMMA DefaultSorts ==
  ASSUME NEW names \in Wanted
  PROVE  Sorts(Default, names, names)
<1>1. ColumnCount \in Nat /\ Len(names) = ColumnCount
  BY ColumnCountAssumption, WantedAssumption
<1>2. \A i, j \in Columns : names[i] = names[j] => i = j
  BY WantedAssumption DEF Columns
<1>3. Len(Default) = ColumnCount /\ \A k \in Columns : Default[k] = k
  BY <1>1 DEF Default, Columns
<1>4. \A k \in Columns : Known(names, names[k]) /\ ColumnOf(names, names[k]) = k
  BY ColumnOfName
<1> QED BY <1>1, <1>2, <1>3, <1>4 DEF Sorts, Columns

\* next_line, as far as it is asked: the line, and what is left.
LEMMA NextCells ==
  ASSUME CellsUnread
  PROVE  /\ ~NoLine => /\ Line \in Seq(STRING)
                       /\ \A k \in 1..Len(Line) : Line[k] \notin {"null", "stale"}
                       /\ Advance => CellsUnread'
         /\ unread' = << >> => CellsUnread'
<1> DEFINE some == {k \in 1..Len(unread) : ~IsComment(unread[k])} \cup {Len(unread) + 1}
<1>1. unread \in Seq(Seq(STRING)) /\ Len(unread) \in Nat
  BY DEF CellsUnread
<1>2. some \in SUBSET Nat /\ some # {}
  BY <1>1
<1>3. Skipped \in some
  <2>1. Skipped = Min(some)
    BY DEF Skipped
  <2> HIDE DEF some
  <2> QED BY <1>2, <2>1, LeastOf
<1>4. ASSUME ~NoLine PROVE Skipped \in 1..Len(unread)
  BY <1>1, <1>3, <1>4 DEF NoLine
<1>5. ASSUME ~NoLine
      PROVE  Line \in Seq(STRING) /\ \A k \in 1..Len(Line) : Line[k] \notin {"null", "stale"}
  BY <1>1, <1>4, <1>5 DEF Line, CellsUnread
<1>6. ASSUME ~NoLine, Advance PROVE CellsUnread'
  <2> DEFINE s == Skipped
  <2>1. s \in 1..Len(unread) /\ unread' = SubSeq(unread, s + 1, Len(unread))
    BY <1>4, <1>6 DEF Advance
  <2> HIDE DEF s
  <2>2. unread' \in Seq(Seq(STRING)) /\ Len(unread') = Len(unread) - s
    BY <1>1, <2>1
  <2>3. \A n \in 1..Len(unread') : n + s \in 1..Len(unread) /\ unread'[n] = unread[n + s]
    <3> TAKE n \in 1..Len(unread')
    <3>1. n + s \in 1..Len(unread) /\ (s + 1) + n - 1 = n + s /\ n \in 1..(Len(unread) - s)
      BY <1>1, <2>1, <2>2
    <3>2. unread'[n] = unread[(s + 1) + n - 1]
      BY <1>1, <2>1, <3>1
    <3> QED BY <3>1, <3>2
  <2> QED BY <2>2, <2>3 DEF CellsUnread
<1>7. ASSUME unread' = << >> PROVE CellsUnread'
  BY <1>7 DEF CellsUnread
<1> QED BY <1>5, <1>6, <1>7

LEMMA HeaderSorts ==
  ASSUME CellsUnread, ~NoLine, NEW names \in Wanted, NEW ignored, Refused(names, ignored) = {}
  PROVE  Sorts(OrderOf(names, ignored), names, Line)
<1>1. Line \in Seq(STRING) /\ Len(Line) \in Nat
  BY NextCells
<1>2. Accepted(names, ignored) = Len(Line)
  <2> DEFINE end == {Len(Line) + 1}
  <2>1. Min(Refused(names, ignored) \cup end) = Min(end)
    <3>1. Refused(names, ignored) \cup end = end
      OBVIOUS
    <3> QED BY <3>1
  <2>2. end \in SUBSET Nat /\ end # {}
    BY <1>1
  <2>3. Min(end) \in end
    <3> HIDE DEF end
    <3> QED BY <2>2, LeastOf
  <2> QED BY <1>1, <2>1, <2>3 DEF Accepted
<1>3. /\ Len(OrderOf(names, ignored)) = Len(Line)
      /\ \A k \in 1..Len(Line) : OrderOf(names, ignored)[k] =
           IF Known(names, Line[k]) THEN ColumnOf(names, Line[k]) ELSE 0
  BY <1>1, <1>2 DEF OrderOf
<1>4. \A k \in 1..Len(Line) : Known(names, Line[k]) => ~\E j \in 1..k-1 : Line[j] = Line[k]
  BY DEF Refused
<1>5. ASSUME NEW j \in 1..Len(Line), NEW k \in 1..Len(Line), Line[j] = Line[k], Known(names, Line[k])
      PROVE  j = k
  <2>1. Known(names, Line[j])
    BY <1>5
  <2>2. ~(j \in 1..k-1) /\ ~(k \in 1..j-1)
    BY <1>4, <1>5, <2>1
  <2> QED BY <1>1, <2>2
<1> HIDE DEF Refused, Accepted, OrderOf, Line
<1> QED BY <1>1, <1>3, <1>5 DEF Sorts

\* The columns of the line that go to a variable are those with its name.
LEMMA SortedColumns ==
  ASSUME CsvInv, header # << >>, NEW i \in Columns
  PROVE  /\ {k \in 1..Len(col_order) : col_order[k] = i} = Places(column_names[i])
         /\ \A j, k \in Places(column_names[i]) : j = k
<1>1. column_names \in Wanted /\ Sorts(col_order, column_names, header)
  BY DEF CsvInv
<1>2. i # 0
  BY ColumnCountAssumption DEF Columns
<1>3. ASSUME NEW k \in 1..Len(header)
      PROVE  col_order[k] = i <=> header[k] = column_names[i]
  <2>1. /\ Known(column_names, header[k]) <=> \E c \in Columns : column_names[c] = header[k]
        /\ \A c \in Columns : ColumnOf(column_names, header[k]) = c <=> column_names[c] = header[k]
    BY <1>1, ColumnOfName
  <2>2. col_order[k] = IF Known(column_names, header[k]) THEN ColumnOf(column_names, header[k]) ELSE 0
    BY <1>1 DEF Sorts
  <2> QED BY <1>2, <2>1, <2>2
<1>4. \A j, k \in Places(column_names[i]) : j = k
  <2>1. Known(column_names, column_names[i])
    BY <1>1, ColumnOfName
  <2> QED BY <1>1, <2>1 DEF Sorts, Places
<1>5. Len(col_order) = Len(header)
  BY <1>1 DEF Sorts
<1> QED BY <1>3, <1>4, <1>5 DEF Places

\* What parse_line does to a variable's pointer.
LEMMA PointedCells ==
  ASSUME CsvInv, header # << >>, NEW i \in Columns
  PROVE  /\ Places(column_names[i]) = {} /\ pointers[i] = "null" => Pointed[i] = "null"
         /\ \A k \in Places(column_names[i]) :
              ~NoLine /\ ~OpenQuote /\ Len(Line) = Len(col_order) =>
                k \in 1..Len(Line) /\ Pointed[i] = Line[k]
<1> DEFINE here == {k \in 1..Len(col_order) : k <= Len(Line) /\ Line[k] # "open" /\ col_order[k] = i}
           all == {k \in 1..Len(col_order) : col_order[k] = i}
<1>1. all = Places(column_names[i]) /\ \A j, k \in Places(column_names[i]) : j = k
  BY SortedColumns
<1>2. Pointed[i] = IF here # {} THEN Line[Max(here)] ELSE IF pointers[i] = "null" THEN "null" ELSE "stale"
  BY DEF Pointed
<1>3. here \subseteq all
  OBVIOUS
<1>4. Len(col_order) \in Nat
  BY DEF CsvInv, Sorts
<1>5. ASSUME NEW k \in Places(column_names[i]), ~NoLine, ~OpenQuote, Len(Line) = Len(col_order)
      PROVE  k \in 1..Len(Line) /\ Pointed[i] = Line[k]
  <2>1. k \in all
    BY <1>1
  <2>2. k \in here /\ k \in 1..Len(Line)
    <3>1. k \in 1..Len(Line) /\ k <= Len(col_order) /\ col_order[k] = i
      BY <1>4, <1>5, <2>1
    <3>2. Line[k] # "open"
      BY <1>5, <3>1 DEF OpenQuote
    <3> QED BY <1>4, <1>5, <2>1, <3>1, <3>2
  <2>3. here \in SUBSET (0..Len(col_order)) /\ here # {}
    BY <1>4, <2>2
  <2>4. \A j \in here : j = k
    BY <1>1, <1>3
  <2>5. Max(here) \in here
    <3> HIDE DEF here
    <3> QED BY <1>4, <2>3, GreatestOf
  <2> HIDE DEF here, all
  <2> QED BY <1>2, <2>2, <2>3, <2>4, <2>5
<1> HIDE DEF here, all
<1> QED BY <1>1, <1>2, <1>3, <1>5

LEMMA CsvStarts == ASSUME CsvInit PROVE CsvInv
<1>1. CellsUnread
  BY TextsAssumption DEF CsvInit, CellsUnread
<1>2. /\ column_names \in Wanted /\ col_order = Default /\ header = column_names
      /\ \A i \in Columns : pointers[i] = "null"
  BY DEF CsvInit, Unset
<1>3. Sorts(col_order, column_names, header)
  BY <1>2, DefaultSorts
<1> QED BY <1>1, <1>2, <1>3 DEF CsvInv, Untouched

\* A row leaves the header as it is, and what it makes stale was not null.
LEMMA RowKeeps ==
  ASSUME CsvInv, ~NoLine, Advance, pointers' = Pointed, UNCHANGED <<column_names, col_order, header, fresh>>
  PROVE  CsvInv'
<1>1. CellsUnread'
  BY NextCells DEF CsvInv
<1>2. column_names' = column_names /\ col_order' = col_order /\ header' = header /\ fresh' = fresh
  OBVIOUS
<1>3. \A name : Places(name)' = Places(name)
  BY <1>2 DEF Places
<1>4. Untouched'
  <2> SUFFICES ASSUME header # << >>, fresh, NEW i \in Columns, Places(column_names[i]) = {}
               PROVE  pointers'[i] = "null"
    BY <1>2, <1>3 DEF Untouched
  <2>1. pointers[i] = "null"
    BY DEF CsvInv, Untouched
  <2> QED BY <2>1, PointedCells
<1>5. column_names' \in Wanted /\ (header' # << >> => Sorts(col_order', column_names', header'))
  BY <1>2 DEF CsvInv
<1> QED BY <1>1, <1>4, <1>5 DEF CsvInv

LEMMA CsvStep ==
  ASSUME CsvInv, [CsvNext]_csvVars
  PROVE  CsvInv'
<1>1. ASSUME NEW ignored \in Policies, NEW names \in Wanted, ReadHeader(ignored, names)
      PROVE  CsvInv'
  <2>1. column_names' = names /\ fresh' = (pointers = Unset) /\ pointers' = pointers
    BY <1>1 DEF ReadHeader
  <2>2. Untouched'
    <3>1. pointers = Unset => \A i \in Columns : pointers[i] = "null"
      BY DEF Unset
    <3> QED BY <2>1, <3>1 DEF Untouched
  <2>3. CASE NoLine
    <3>1. unread' = << >> /\ header' = << >>
      BY <1>1, <2>3 DEF ReadHeader
    <3>2. CellsUnread'
      BY <3>1, NextCells DEF CsvInv
    <3> QED BY <2>1, <2>2, <3>1, <3>2 DEF CsvInv
  <2>4. CASE ~NoLine
    <3>1. Advance /\ col_order' = OrderOf(names, ignored)
      BY <1>1, <2>4 DEF ReadHeader
    <3>2. header' # << >> => header' = Line /\ Refused(names, ignored) = {}
      BY <1>1, <2>4 DEF ReadHeader
    <3>3. CellsUnread'
      BY <2>4, <3>1, NextCells DEF CsvInv
    <3>4. Refused(names, ignored) = {} => Sorts(OrderOf(names, ignored), names, Line)
      BY <2>4, HeaderSorts DEF CsvInv
    <3> QED BY <2>1, <2>2, <3>1, <3>2, <3>3, <3>4 DEF CsvInv
  <2> QED BY <2>3, <2>4
<1>2. ASSUME NEW names \in Wanted, SetHeader(names)
      PROVE  CsvInv'
  <2>1. column_names' = names /\ col_order' = Default /\ header' = names /\ unread' = unread
    BY <1>2 DEF SetHeader
  <2>2. \A i \in Columns : pointers'[i] = "null"
    BY <1>2 DEF SetHeader, Unset
  <2>3. Sorts(col_order', column_names', header')
    BY <2>1, DefaultSorts
  <2>4. CellsUnread' /\ Untouched'
    BY <2>1, <2>2 DEF CsvInv, CellsUnread, Untouched
  <2> QED BY <2>1, <2>3, <2>4 DEF CsvInv
<1>3. ASSUME unread' = << >> \/ unread' = unread,
             UNCHANGED <<column_names, col_order, pointers, header, fresh>>
      PROVE  CsvInv'
  <2>1. CellsUnread'
    BY <1>3, NextCells DEF CsvInv, CellsUnread
  <2>2. Untouched'
    BY <1>3 DEF CsvInv, Untouched, Places
  <2> QED BY <1>3, <2>1, <2>2 DEF CsvInv
<1>4. CASE EndOfRows \/ UNCHANGED csvVars
  BY <1>3, <1>4 DEF EndOfRows, csvVars
<1>5. CASE WrongLength \/ Unclosed
  BY <1>5, RowKeeps DEF WrongLength, Unclosed
<1>6. CASE ReadRow
  BY <1>6, RowKeeps DEF ReadRow
<1> QED BY <1>1, <1>2, <1>4, <1>5, <1>6 DEF CsvNext

\* What a row that parses leaves in the variables.
LEMMA RowShows ==
  ASSUME CsvInv, ReadRow, answer' = "row", header # << >>, NEW i \in Columns
  PROVE  IF Places(column_names[i]) # {}
         THEN \A k \in Places(column_names[i]) : values'[i] = Line[k]
         ELSE fresh => values'[i] = values[i]
<1>1. ~NoLine /\ ~OpenQuote /\ Len(Line) = Len(col_order)
  BY DEF ReadRow
<1>2. Pointed[i] # "stale" =>
        values'[i] = IF Pointed[i] # "null" THEN Pointed[i] ELSE values[i]
  <2>1. PICK garbage \in [{j \in Columns : Pointed[j] = "stale"} -> Numbers \cup {"bad"}] :
          LET found(j) == IF Pointed[j] = "stale" THEN garbage[j] ELSE Pointed[j]
              first == Min({j \in Columns : found(j) \notin Numbers \cup {"null"}} \cup {ColumnCount + 1})
          IN  /\ \E begun \in IF first \in Columns THEN Numbers \cup {values[first]} ELSE {"none"} :
                   values' = [j \in Columns |-> IF j < first /\ found(j) # "null" THEN found(j)
                                               ELSE IF j = first THEN begun ELSE values[j]]
              /\ answer' = IF first > ColumnCount THEN "row" ELSE "does_not_parse"
    BY DEF ReadRow
  <2> DEFINE found(j) == IF Pointed[j] = "stale" THEN garbage[j] ELSE Pointed[j]
             failing == {j \in Columns : found(j) \notin Numbers \cup {"null"}} \cup {ColumnCount + 1}
             first == Min(failing)
  <2>2. /\ \E begun :
             values' = [j \in Columns |-> IF j < first /\ found(j) # "null" THEN found(j)
                                         ELSE IF j = first THEN begun ELSE values[j]]
        /\ answer' = IF first > ColumnCount THEN "row" ELSE "does_not_parse"
    BY <2>1
  <2>3. failing \in SUBSET Nat /\ failing # {}
    BY ColumnCountAssumption DEF Columns
  <2>4. first \in Nat
    <3> HIDE DEF failing
    <3> QED BY <2>3, LeastOf
  <2> HIDE DEF first
  <2>5. first > ColumnCount
    BY <2>2
  <2>6. i < first
    BY <2>4, <2>5, ColumnCountAssumption DEF Columns
  <2> QED BY <2>2, <2>6
<1>3. CASE Places(column_names[i]) # {}
  <2> SUFFICES ASSUME NEW k \in Places(column_names[i])
               PROVE  values'[i] = Line[k]
    BY <1>3
  <2>1. k \in 1..Len(Line) /\ Pointed[i] = Line[k]
    BY <1>1, PointedCells
  <2>2. Line[k] \notin {"null", "stale"}
    BY <1>1, <2>1, NextCells DEF CsvInv
  <2> QED BY <1>2, <2>1, <2>2
<1>4. CASE Places(column_names[i]) = {} /\ fresh
  <2>1. Pointed[i] = "null"
    BY <1>4, PointedCells DEF CsvInv, Untouched
  <2> QED BY <1>2, <1>4, <2>1
<1> QED BY <1>3, <1>4

LEMMA ColumnsShow == ASSUME CsvInv PROVE ColumnsAreTold
<1> SUFFICES ASSUME header # << >>, NEW name
             PROVE  HasColumn(name) <=> Places(name) # {} /\ Known(column_names, name)
  BY DEF ColumnsAreTold
<1>1. column_names \in Wanted /\ Len(col_order) = Len(header)
  BY DEF CsvInv, Sorts
<1> DEFINE c == ColumnOf(column_names, name)
<1>2. CASE Known(column_names, name)
  <2>1. c \in Columns /\ column_names[c] = name
    BY <1>1, <1>2, ColumnOfName DEF Known
  <2> HIDE DEF c
  <2>2. {k \in 1..Len(col_order) : col_order[k] = c} = Places(name)
    BY <2>1, SortedColumns
  <2> USE DEF c
  <2> QED BY <1>2, <2>2 DEF HasColumn
<1>3. CASE ~Known(column_names, name)
  <2>1. c \notin Columns /\ c # 0
    BY <1>1, <1>3, ColumnOfName DEF Known
  <2>2. \A k \in 1..Len(col_order) : col_order[k] \in Columns \cup {0}
    BY <1>1 DEF CsvInv, Sorts, Known
  <2> QED BY <1>3, <2>1, <2>2 DEF HasColumn
<1> QED BY <1>2, <1>3

\* The inductive invariant of the reader of rows.
THEOREM CsvInvInductive == CsvSpec => []CsvInv
<1>1. CsvInit => CsvInv
  BY CsvStarts
<1>2. CsvInv /\ [CsvNext]_csvVars => CsvInv'
  BY CsvStep
<1> QED BY <1>1, <1>2, PTL DEF CsvSpec

(* A row goes where its header says, whatever the headers before it were,  *)
(* what was refused of them and what rows they left pointers to.           *)
THEOREM RowsGoByHeader == CsvSpec => RowsFollowHeader
<1>1. ASSUME CsvInv, ReadRow, answer' = "row", header # << >>
      PROVE  \A i \in Columns :
               IF Places(column_names[i]) # {}
               THEN \A k \in Places(column_names[i]) : values'[i] = Line[k]
               ELSE fresh => values'[i] = values[i]
  BY <1>1, RowShows
<1> QED BY <1>1, CsvInvInductive, PTL DEF RowsFollowHeader

(* has_column is right about every header, and about every name.           *)
THEOREM HeaderIsTold == CsvSpec => []ColumnsAreTold
<1>1. CsvInv => ColumnsAreTold
  BY ColumnsShow
<1> QED BY <1>1, CsvInvInductive, PTL

----------------------------------------------------------------------------
(* The numbers in cells.  What the definitions about the cell compute, for *)
(* any sequence of characters b and with or without a minus.               *)

IsMagnitude(w, b, n) == w = [k \in 0..n |-> IF k = 0 THEN 0 ELSE 10 * w[k - 1] + DigitOf(b[k])]
WorthOf(b, neg, n) == LET w == CHOOSE w : IsMagnitude(w, b, n) IN IF neg THEN -w[n] ELSE w[n]

LeadingOf(b) == Cardinality({n \in 1..Len(b) : \A k \in 1..n : IsDigit(b[k])})

FittingOf(b, neg, least, greatest) ==
  CHOOSE n \in 0..LeadingOf(b) :
    /\ WorthOf(b, neg, n) \in least..greatest
    /\ n < LeadingOf(b) => WorthOf(b, neg, n + 1) \notin least..greatest

\* The magnitudes of the first digits, one after the other.
Magnitudes(f, b, m) ==
  /\ f \in [0..m -> Nat] /\ f[0] = 0
  /\ \A k \in 1..m : f[k] = 10 * f[k - 1] + DigitOf(b[k]) /\ DigitOf(b[k]) \in 0..9

LEMMA DigitRange == ASSUME NEW c, IsDigit(c) PROVE DigitOf(c) \in 0..9
<1>1. PICK d \in 0..9 : c = Characters[d + 1]
  BY DEF IsDigit
<1> QED BY <1>1 DEF DigitOf

LEMMA MagnitudesExist ==
  ASSUME NEW b, NEW m \in Nat, \A k \in 1..m : IsDigit(b[k])
  PROVE  \E f : Magnitudes(f, b, m)
<1> DEFINE step == [k \in 1..m |-> [v \in Nat |-> 10 * v + DigitOf(b[k])]]
<1>1. \A k \in 1..m : DigitOf(b[k]) \in 0..9
  BY DigitRange
<1>2. step \in [1..m -> [Nat -> Nat]]
  BY <1>1
<1>3. PICK f : Iterates(f, m, Nat, 0, step)
  <2> HIDE DEF step
  <2> QED BY <1>2, RecursionExists
<1>4. ASSUME NEW k \in 1..m PROVE f[k] = 10 * f[k - 1] + DigitOf(b[k])
  <2>1. f[k-1] \in Nat /\ f[k] = step[k][f[k-1]]
    <3> HIDE DEF step
    <3>1. k - 1 \in 0..m
      OBVIOUS
    <3> QED BY <1>3, <3>1 DEF Iterates
  <2> QED BY <2>1
<1> QED BY <1>1, <1>3, <1>4 DEF Magnitudes, Iterates

LEMMA WorthIsMagnitude ==
  ASSUME NEW b, NEW m \in Nat, NEW f, Magnitudes(f, b, m), NEW n \in 0..m, NEW neg
  PROVE  WorthOf(b, neg, n) = IF neg THEN -f[n] ELSE f[n]
<1> DEFINE g == [k \in 0..n |-> f[k]]
           w == CHOOSE h : IsMagnitude(h, b, n)
<1>1. IsMagnitude(g, b, n)
  <2>1. \A k \in 0..n : g[k] = IF k = 0 THEN 0 ELSE 10 * g[k - 1] + DigitOf(b[k])
    BY DEF Magnitudes
  <2> HIDE DEF g
  <2>2. g = [k \in 0..n |-> g[k]]
    BY DEF g
  <2> QED BY <2>1, <2>2 DEF IsMagnitude
<1>2. IsMagnitude(w, b, n)
  <2> HIDE DEF g
  <2> QED BY <1>1
<1> HIDE DEF w
<1>3. \A k \in 0..n : w[k] = IF k = 0 THEN 0 ELSE 10 * w[k - 1] + DigitOf(b[k])
  BY <1>2 DEF IsMagnitude
<1> DEFINE S == {k \in Nat : k <= n => w[k] = f[k]}
<1>4. 0 \in S
  BY <1>3 DEF Magnitudes
<1>5. ASSUME NEW k \in S PROVE k + 1 \in S
  <2>1. k \in Nat /\ n \in Nat
    OBVIOUS
  <2>2. CASE k + 1 <= n
    <3>1. w[k + 1] = 10 * w[k] + DigitOf(b[k + 1]) /\ f[k + 1] = 10 * f[k] + DigitOf(b[k + 1])
      BY <1>3, <2>1, <2>2 DEF Magnitudes
    <3>2. w[k] = f[k]
      BY <1>5, <2>1, <2>2
    <3> QED BY <2>1, <3>1, <3>2
  <2> QED BY <2>1, <2>2
<1>6. S = Nat
  <2> HIDE DEF S
  <2> QED BY <1>4, <1>5, NatSetInduction, S \subseteq Nat DEF S
<1>7. w[n] = f[n]
  BY <1>6
<1>8. WorthOf(b, neg, n) = IF neg THEN -w[n] ELSE w[n]
  BY DEF WorthOf, w
<1> QED BY <1>7, <1>8

LEMMA MagnitudesGrow ==
  ASSUME NEW b, NEW m \in Nat, NEW f, Magnitudes(f, b, m), NEW j \in 0..m, NEW k \in 0..m, j <= k
  PROVE  f[j] <= f[k]
<1> DEFINE S == {l \in Nat : j <= l /\ l <= m => f[j] <= f[l]}
<1>0. \A l \in 0..m : f[l] \in Nat
  BY DEF Magnitudes
<1>1. 0 \in S
  BY <1>0
<1>2. ASSUME NEW l \in S PROVE l + 1 \in S
  <2>1. l \in Nat /\ j \in Nat
    OBVIOUS
  <2>2. CASE j <= l /\ l + 1 <= m
    <3>1. f[l + 1] = 10 * f[l] + DigitOf(b[l + 1]) /\ DigitOf(b[l + 1]) \in 0..9 /\ f[l] \in Nat /\ f[j] \in Nat
      BY <1>0, <2>1, <2>2 DEF Magnitudes
    <3>2. f[j] <= f[l]
      BY <1>2, <2>1, <2>2
    <3> QED BY <2>1, <3>1, <3>2
  <2>3. CASE j = l + 1 /\ l + 1 <= m
    BY <1>0, <2>1, <2>3
  <2> QED BY <2>1, <2>2, <2>3
<1>3. S = Nat
  <2> HIDE DEF S
  <2> QED BY <1>1, <1>2, NatSetInduction, S \subseteq Nat DEF S
<1> QED BY <1>3

\* How many digits lead.
LEMMA LeadingDigits ==
  ASSUME NEW b \in Seq(STRING)
  PROVE  /\ LeadingOf(b) \in 0..Len(b)
         /\ \A k \in 1..LeadingOf(b) : IsDigit(b[k])
         /\ \A n \in 0..Len(b) : (\A k \in 1..n : IsDigit(b[k])) => n <= LeadingOf(b)
<1> DEFINE D == {n \in 1..Len(b) : \A k \in 1..n : IsDigit(b[k])}
<1>1. Len(b) \in Nat
  OBVIOUS
<1>2. \E m \in 0..Len(b) : D = 1..m
  <2>1. CASE D = {}
    <3>1. D = 1..0
      BY <2>1
    <3> QED BY <1>1, <3>1
  <2>2. CASE D # {}
    <3>1. D \in SUBSET (0..Len(b))
      BY <1>1
    <3>2. Max(D) \in D /\ \A y \in D : y <= Max(D)
      <4> HIDE DEF D
      <4> QED BY <1>1, <2>2, <3>1, GreatestOf
    <3>3. \A n \in 1..Max(D) : n \in D
      BY <1>1, <3>2
    <3>4. \A n \in D : n \in 1..Max(D)
      BY <1>1, <3>2
    <3>5. D = 1..Max(D) /\ Max(D) \in 0..Len(b)
      BY <1>1, <3>2, <3>3, <3>4
    <3> HIDE DEF D
    <3> QED BY <3>5
  <2> QED BY <2>1, <2>2
<1>3. PICK m \in 0..Len(b) : D = 1..m
  BY <1>2
<1>4. Cardinality(D) = m
  <2>1. Cardinality(1..m) = IF 1 > m THEN 0 ELSE m - 1 + 1
    BY FS_Interval
  <2> HIDE DEF D
  <2> QED BY <1>3, <2>1
<1>5. LeadingOf(b) = m
  BY <1>4 DEF LeadingOf
<1>6. \A k \in 1..m : IsDigit(b[k])
  BY <1>3
<1>7. \A n \in 0..Len(b) : (\A k \in 1..n : IsDigit(b[k])) => n <= m
  <2> SUFFICES ASSUME NEW n \in 0..Len(b), \A k \in 1..n : IsDigit(b[k]), ~(n <= m) PROVE FALSE
    OBVIOUS
  <2>1. n \in D
    BY <1>1
  <2> HIDE DEF D
  <2> QED BY <1>3, <2>1
<1> QED BY <1>5, <1>6, <1>7

\* The number that fits, however long the digits go on.
LEMMA FittingIs ==
  ASSUME NEW b \in Seq(STRING), NEW neg \in BOOLEAN, NEW least \in Int, NEW greatest \in Int,
         least <= 0, 0 <= greatest,
         NEW n \in 0..LeadingOf(b), WorthOf(b, neg, n) \in least..greatest,
         n < LeadingOf(b) => WorthOf(b, neg, n + 1) \notin least..greatest
  PROVE  FittingOf(b, neg, least, greatest) = n
<1> DEFINE m == LeadingOf(b)
           bound == IF neg THEN -least ELSE greatest
           Fits(k) == WorthOf(b, neg, k) \in least..greatest
           Ends(k) == Fits(k) /\ (k < m => ~Fits(k + 1))
<1>1. m \in Nat /\ \A k \in 1..m : IsDigit(b[k])
  BY LeadingDigits
<1>2. PICK f : Magnitudes(f, b, m)
  <2> HIDE DEF m
  <2> QED BY <1>1, MagnitudesExist
<1> HIDE DEF m
<1>3. ASSUME NEW k \in 0..m PROVE Fits(k) <=> f[k] <= bound
  <2>1. f[k] \in Nat
    BY <1>2 DEF Magnitudes
  <2>2. WorthOf(b, neg, k) = IF neg THEN -f[k] ELSE f[k]
    BY <1>1, <1>2, WorthIsMagnitude
  <2> QED BY <2>1, <2>2
<1>4. ASSUME NEW k \in 0..m, NEW l \in 0..m, Ends(k), Ends(l) PROVE ~(k < l)
  <2> SUFFICES ASSUME k < l PROVE FALSE
    OBVIOUS
  <2> HIDE DEF Fits
  <2>1. k + 1 \in 0..m /\ k + 1 <= l /\ k < m
    BY <1>1
  <2>2. ~Fits(k + 1) /\ Fits(l)
    BY <1>4, <2>1
  <2>3. f[k + 1] <= f[l]
    BY <1>1, <1>2, <2>1, MagnitudesGrow
  <2>4. ~(f[k + 1] <= bound) /\ f[l] <= bound /\ bound \in Int
    BY <1>3, <2>1, <2>2
  <2>5. f[k + 1] \in Nat /\ f[l] \in Nat
    BY <1>2, <2>1 DEF Magnitudes
  <2> HIDE DEF bound
  <2> QED BY <2>3, <2>4, <2>5
<1>5. n \in 0..m /\ Ends(n)
  BY DEF m
<1> DEFINE c == CHOOSE k \in 0..m : Ends(k)
<1>6. FittingOf(b, neg, least, greatest) = c
  BY DEF FittingOf, m
<1> HIDE DEF Ends
<1>7. c \in 0..m /\ Ends(c)
  BY <1>5
<1> HIDE DEF c
<1>8. ~(c < n) /\ ~(n < c)
  BY <1>4, <1>5, <1>7
<1> QED BY <1>1, <1>5, <1>6, <1>7, <1>8

----------------------------------------------------------------------------
\* How many digits were read.
Done == IF signed /\ Signed(literal) THEN col - 2 ELSE col - 1

NumbersTypeOK ==
  /\ literal \in Seq(STRING) /\ signed \in BOOLEAN /\ minus \in BOOLEAN
  /\ policy \in {"throw", "ignore", "set_to_max"}
  /\ col \in Nat
  /\ number \in Least..Greatest
  /\ minus \/ reading \in {"scaling", "scaled"} => signed
  /\ reading \in {"digits", "read", "no_digit", "overflow", "scaling", "scaled"}

\* So far only digits, all of them in the number.
DigitsRead ==
  reading = "digits" =>
    /\ Done \in 0..Len(Body)
    /\ \A k \in 1..Done : IsDigit(Body[k])
    /\ number = Worth(Done)

\* NumberAsWritten, case by case.
CutShort ==
  /\ policy = "throw"      => reading = "overflow"
  /\ policy = "ignore"     => reading = "read" /\ number = Worth(Fitting)
  /\ policy = "set_to_max" => reading # "no_digit" /\ number = IF minus THEN Least ELSE Greatest
NotCut ==
  /\ reading = "no_digit" <=> Leading < Len(Body)
  /\ reading # "no_digit" => reading # "overflow" /\ number = Worth(Leading)
Told == reading # "digits" => (Fitting < Leading => CutShort) /\ (~(Fitting < Leading) => NotCut)

NumbersInv == NumbersTypeOK /\ DigitsRead /\ Told

\* The definitions about the cell depend on what never changes.
LEMMA CellFacts ==
  /\ Leading = LeadingOf(Body)
  /\ Fitting = FittingOf(Body, minus, Least, Greatest)
  /\ \A n : Worth(n) = WorthOf(Body, minus, n)
<1>1. \A n : Worth(n) = WorthOf(Body, minus, n)
  BY DEF Worth, WorthOf, IsMagnitude
<1>2. Leading = LeadingOf(Body)
  BY DEF Leading, LeadingOf
<1>3. Fitting = FittingOf(Body, minus, Least, Greatest)
  BY DEF Fitting, FittingOf, Leading, LeadingOf, Worth, WorthOf, IsMagnitude
<1> QED BY <1>1, <1>2, <1>3

LEMMA SameCell ==
  ASSUME UNCHANGED <<literal, signed, minus>>
  PROVE  /\ Body' = Body /\ Least' = Least /\ Greatest' = Greatest
         /\ Leading' = Leading /\ Fitting' = Fitting /\ (col' = col => Done' = Done)
         /\ Worth(Leading)' = Worth(Leading) /\ Worth(Fitting)' = Worth(Fitting)
         /\ Worth(Done)' = Worth(Done')
<1>1. Body' = Body /\ Least' = Least /\ Greatest' = Greatest /\ (col' = col => Done' = Done) /\ minus' = minus
  BY DEF Body, Least, Greatest, Signed, Done
<1>2. Leading' = LeadingOf(Body')
  BY DEF Leading, LeadingOf
<1>3. Fitting' = FittingOf(Body', minus', Least', Greatest')
  BY DEF Fitting, FittingOf, Leading, LeadingOf, Worth, WorthOf, IsMagnitude
<1>4. Worth(Leading)' = WorthOf(Body', minus', Leading')
  BY DEF Worth, WorthOf, IsMagnitude
<1>5. Worth(Fitting)' = WorthOf(Body', minus', Fitting')
  BY DEF Worth, WorthOf, IsMagnitude
<1>6. Worth(Done)' = WorthOf(Body', minus', Done')
  BY DEF Worth, WorthOf, IsMagnitude
<1>7. Leading' = Leading /\ Fitting' = Fitting
  BY <1>1, <1>2, <1>3, CellFacts
<1>8. \A n : Worth(n) = WorthOf(Body, minus, n)
  BY CellFacts
<1> QED BY <1>1, <1>4, <1>5, <1>6, <1>7, <1>8

LEMMA LimitsOfType ==
  ASSUME NumbersTypeOK
  PROVE  /\ Least \in Int /\ Greatest \in Int /\ Least <= 0 /\ 9 <= Greatest
         /\ minus => Least <= -10
  BY LimitAssumption DEF NumbersTypeOK, Least, Greatest

\* The next character of the cell, after the sign.
LEMMA NextCharacter ==
  ASSUME NumbersTypeOK, DigitsRead, reading = "digits"
  PROVE  /\ Body \in Seq(STRING) /\ Len(Body) \in Nat /\ Done \in Nat
         /\ col <= Len(literal) => Done < Len(Body) /\ Body[Done + 1] = literal[col]
         /\ col > Len(literal) => Done = Len(Body)
<1>1. literal \in Seq(STRING) /\ Len(literal) \in Nat /\ col \in Nat
  BY DEF NumbersTypeOK
<1>2. CASE signed /\ Signed(literal)
  <2>1. Body = Tail(literal) /\ Done = col - 2 /\ Len(literal) > 0
    BY <1>2 DEF Body, Done, Signed
  <2>2. Body \in Seq(STRING) /\ Len(Body) = Len(literal) - 1
    BY <1>1, <2>1
  <2>3. \A k \in 1..Len(Body) : Body[k] = literal[k + 1]
    BY <1>1, <2>1
  <2>4. Done \in 0..Len(Body)
    BY DEF DigitsRead
  <2> QED BY <1>1, <2>1, <2>2, <2>3, <2>4
<1>3. CASE ~(signed /\ Signed(literal))
  <2>1. Body = literal /\ Done = col - 1
    BY <1>3 DEF Body, Done
  <2>2. Done \in 0..Len(Body)
    BY DEF DigitsRead
  <2> QED BY <1>1, <2>1, <2>2
<1> QED BY <1>2, <1>3

\* The test for overflow is exact.
LEMMA OverflowIsExact ==
  ASSUME NumbersTypeOK, Digit \in 0..9, minus => number <= 0, ~minus => number >= 0
  PROVE  Overflows <=> (IF minus THEN 10 * number - Digit ELSE 10 * number + Digit) \notin Least..Greatest
<1> DEFINE d == Digit
           l == Least
           g == Greatest
           x == number
<1>1. l \in Int /\ g \in Int /\ l <= 0 /\ 9 <= g /\ d \in 0..9 /\ x \in l..g
  BY LimitsOfType DEF NumbersTypeOK
<1>2. Overflows <=> IF minus THEN x < Tenth(l + d) ELSE x > Tenth(g - d)
  BY DEF Overflows
<1>3. minus => l <= -10
  BY LimitsOfType
<1>4. minus => x <= 0
  OBVIOUS
<1>5. ~minus => x >= 0
  OBVIOUS
<1> HIDE DEF d, l, g, x
<1>6. CASE minus
  <2>1. Tenth(l + d) = -((-(l + d)) \div 10)
    BY <1>1, <1>3, <1>6 DEF Tenth
  <2>2. x < -((-(l + d)) \div 10) <=> 10 * x - d < l
    BY <1>1
  <2>3. 10 * x - d <= g
    BY <1>1, <1>4, <1>6
  <2> QED BY <1>1, <1>2, <1>6, <2>1, <2>2, <2>3 DEF d, l, g, x
<1>7. CASE ~minus
  <2>1. Tenth(g - d) = (g - d) \div 10
    BY <1>1 DEF Tenth
  <2>2. x > (g - d) \div 10 <=> 10 * x + d > g
    BY <1>1
  <2>3. 10 * x + d >= l
    BY <1>1, <1>5, <1>7
  <2> QED BY <1>1, <1>2, <1>7, <2>1, <2>2, <2>3 DEF d, l, g, x
<1> QED BY <1>6, <1>7

\* One digit more.
LEMMA NextWorth ==
  ASSUME NumbersTypeOK, DigitsRead, reading = "digits"
  PROVE  /\ minus => number <= 0
         /\ ~minus => number >= 0
         /\ More /\ IsDigit(literal[col]) =>
              /\ Digit \in 0..9
              /\ Worth(Done + 1) = IF minus THEN 10 * number - Digit ELSE 10 * number + Digit
<1> DEFINE n == Done
<1>1. /\ Body \in Seq(STRING) /\ n \in Nat
      /\ col <= Len(literal) => n < Len(Body) /\ Body[n + 1] = literal[col]
  BY NextCharacter
<1>2. number = WorthOf(Body, minus, n) /\ \A k \in 1..n : IsDigit(Body[k])
  BY CellFacts DEF DigitsRead
<1> HIDE DEF n
<1>3. PICK f : Magnitudes(f, Body, n)
  BY <1>1, <1>2, MagnitudesExist
<1>4. number = (IF minus THEN -f[n] ELSE f[n])
  BY <1>1, <1>2, <1>3, WorthIsMagnitude
<1>5. f[n] \in Nat
  BY <1>1, <1>3 DEF Magnitudes
<1>6. ASSUME More, IsDigit(literal[col])
      PROVE  /\ Digit \in 0..9
             /\ Worth(n + 1) = IF minus THEN 10 * number - Digit ELSE 10 * number + Digit
  <2>1. Body[n + 1] = literal[col] /\ Digit \in 0..9 /\ Digit = DigitOf(Body[n + 1])
    BY <1>1, <1>6, DigitRange DEF More, Digit
  <2>2. \A k \in 1..n + 1 : IsDigit(Body[k])
    <3>1. \A k \in 1..n + 1 : k \in 1..n \/ k = n + 1
      BY <1>1
    <3> QED BY <1>2, <1>6, <2>1, <3>1
  <2>3. n + 1 \in Nat /\ n \in 0..n + 1 /\ n + 1 \in 0..n + 1 /\ n + 1 \in 1..n + 1 /\ (n + 1) - 1 = n
    BY <1>1
  <2>4. PICK g : Magnitudes(g, Body, n + 1)
    BY <2>2, <2>3, MagnitudesExist
  <2>5. WorthOf(Body, minus, n + 1) = IF minus THEN -g[n + 1] ELSE g[n + 1]
    BY <2>3, <2>4, WorthIsMagnitude
  <2>6. WorthOf(Body, minus, n) = IF minus THEN -g[n] ELSE g[n]
    BY <2>3, <2>4, WorthIsMagnitude
  <2>7. g[n + 1] = 10 * g[n] + Digit /\ g[n] \in Nat
    BY <2>1, <2>3, <2>4 DEF Magnitudes
  <2>8. Worth(n + 1) = WorthOf(Body, minus, n + 1)
    BY CellFacts
  <2> QED BY <1>2, <2>1, <2>5, <2>6, <2>7, <2>8
<1> QED BY <1>4, <1>5, <1>6 DEF n

LEMMA NumbersStart == ASSUME NumbersInit PROVE NumbersInv
<1>1. /\ literal \in Seq(STRING) /\ signed \in BOOLEAN
      /\ minus = (signed /\ Signed(literal) /\ literal[1] = "-")
      /\ policy \in {"throw", "ignore", "set_to_max"} /\ reading = "digits" /\ number = 0
  BY LiteralsAssumption DEF NumbersInit
<1>2. col = IF signed /\ Signed(literal) THEN 2 ELSE 1
  BY DEF NumbersInit
<1>3. Done = 0 /\ col \in Nat
  BY <1>2 DEF Done
<1>4. number \in Least..Greatest
  BY <1>1, LimitAssumption DEF Least, Greatest
<1>5. NumbersTypeOK
  BY <1>1, <1>3, <1>4 DEF NumbersTypeOK
<1>6. Len(Body) \in Nat
  <2>1. CASE signed /\ Signed(literal)
    <3>1. Body = Tail(literal) /\ Len(literal) > 0
      BY <2>1 DEF Body, Signed
    <3> QED BY <1>1, <3>1
  <2>2. CASE ~(signed /\ Signed(literal))
    BY <1>1, <2>2 DEF Body
  <2> QED BY <2>1, <2>2
<1>7. Worth(0) = 0
  <2>1. PICK f : Magnitudes(f, Body, 0)
    BY MagnitudesExist
  <2>2. WorthOf(Body, minus, 0) = IF minus THEN -f[0] ELSE f[0]
    BY <2>1, WorthIsMagnitude
  <2>3. f[0] = 0
    BY <2>1 DEF Magnitudes
  <2> QED BY <2>2, <2>3, CellFacts
<1>8. DigitsRead
  BY <1>1, <1>3, <1>6, <1>7 DEF DigitsRead
<1>9. Told
  BY <1>1 DEF Told
<1> QED BY <1>5, <1>8, <1>9 DEF NumbersInv

\* Where the digits end, and where they no longer fit.
LEMMA EndOfDigits ==
  ASSUME NumbersTypeOK, DigitsRead, reading = "digits"
  PROVE  /\ col > Len(literal) => Leading = Done /\ Done = Len(Body)
         /\ More /\ ~IsDigit(literal[col]) => Leading = Done /\ Done < Len(Body)
         /\ More /\ IsDigit(literal[col]) => Done < Leading
         /\ Leading = Done => Fitting = Done
         /\ Done < Leading /\ Worth(Done + 1) \notin Least..Greatest => Fitting = Done
<1> DEFINE n == Done
           m == LeadingOf(Body)
<1>1. /\ Body \in Seq(STRING) /\ Len(Body) \in Nat /\ n \in Nat
      /\ col <= Len(literal) => n < Len(Body) /\ Body[n + 1] = literal[col]
      /\ col > Len(literal) => n = Len(Body)
  BY NextCharacter
<1>2. n <= Len(Body) /\ \A k \in 1..n : IsDigit(Body[k])
  BY DEF DigitsRead
<1>3. number = WorthOf(Body, minus, n) /\ Worth(n + 1) = WorthOf(Body, minus, n + 1)
  BY CellFacts DEF DigitsRead
<1>4. Leading = m /\ Fitting = FittingOf(Body, minus, Least, Greatest)
  BY CellFacts
<1>5. /\ m \in 0..Len(Body) /\ \A k \in 1..m : IsDigit(Body[k])
      /\ \A k \in 0..Len(Body) : (\A j \in 1..k : IsDigit(Body[j])) => k <= m
  BY <1>1, LeadingDigits
<1>6. minus \in BOOLEAN /\ Least \in Int /\ Greatest \in Int /\ Least <= 0 /\ 0 <= Greatest
      /\ number \in Least..Greatest
  BY LimitsOfType DEF NumbersTypeOK
<1>7. m = n \/ (n < m /\ WorthOf(Body, minus, n + 1) \notin Least..Greatest) =>
        FittingOf(Body, minus, Least, Greatest) = n
  <2> SUFFICES ASSUME m = n \/ (n < m /\ WorthOf(Body, minus, n + 1) \notin Least..Greatest)
               PROVE  FittingOf(Body, minus, Least, Greatest) = n
    OBVIOUS
  <2>1. n \in 0..LeadingOf(Body)
    BY <1>1, <1>5
  <2>2. WorthOf(Body, minus, n) \in Least..Greatest
    BY <1>3, <1>6
  <2>3. n < LeadingOf(Body) => WorthOf(Body, minus, n + 1) \notin Least..Greatest
    BY <1>1
  <2> HIDE DEF n, m
  <2> QED BY <1>1, <1>6, <2>1, <2>2, <2>3, FittingIs
<1> HIDE DEF n, m
<1>8. n <= m
  BY <1>1, <1>2, <1>5
<1>9. ASSUME col > Len(literal) PROVE m = n /\ n = Len(Body)
  BY <1>1, <1>5, <1>8, <1>9
<1>10. ASSUME More, ~IsDigit(literal[col]) PROVE m = n /\ n < Len(Body)
  <2>1. n < Len(Body) /\ ~IsDigit(Body[n + 1])
    BY <1>1, <1>10 DEF More
  <2>2. n + 1 \notin 1..m
    BY <1>5, <2>1
  <2> QED BY <1>1, <1>5, <1>8, <2>1, <2>2
<1>11. ASSUME More, IsDigit(literal[col]) PROVE n < m
  <2>1. n < Len(Body) /\ IsDigit(Body[n + 1])
    BY <1>1, <1>11 DEF More
  <2>2. \A k \in 1..n + 1 : k \in 1..n \/ k = n + 1
    BY <1>1
  <2>3. \A k \in 1..n + 1 : IsDigit(Body[k])
    BY <1>2, <2>1, <2>2
  <2>4. n + 1 \in 0..Len(Body)
    BY <1>1, <2>1
  <2>5. n + 1 <= m
    BY <1>5, <2>3, <2>4
  <2> QED BY <1>1, <1>5, <2>5
<1>12. m = n => Fitting = n
  BY <1>4, <1>7
<1>13. n < m /\ Worth(n + 1) \notin Least..Greatest => Fitting = n
  BY <1>3, <1>4, <1>7
<1> QED BY <1>4, <1>9, <1>10, <1>11, <1>12, <1>13 DEF n

LEMMA NumbersStep ==
  ASSUME NumbersInv, [NumbersNext]_numberVars
  PROVE  NumbersInv'
<1>0. NumbersTypeOK /\ DigitsRead /\ Told
  BY DEF NumbersInv
<1>1. CASE ReadDigit
  <2>1. /\ reading = "digits" /\ reading' = "digits" /\ More /\ IsDigit(literal[col]) /\ ~Overflows
        /\ number' = (IF minus THEN 10 * number - Digit ELSE 10 * number + Digit) /\ col' = col + 1
        /\ UNCHANGED <<literal, signed, policy, minus>>
    BY <1>1 DEF ReadDigit, More
  <2>2. /\ Body' = Body /\ Least' = Least /\ Greatest' = Greatest /\ Worth(Done)' = Worth(Done')
    BY <2>1, SameCell
  <2>3. /\ Digit \in 0..9 /\ number' = Worth(Done + 1)
        /\ number' \in Least..Greatest
    BY <1>0, <2>1, NextWorth, OverflowIsExact
  <2>4. col \in Nat /\ Done' = Done + 1
    BY <1>0, <2>1 DEF NumbersTypeOK, Done, Signed
  <2>5. /\ Body \in Seq(STRING) /\ Len(Body) \in Nat /\ Done \in Nat /\ Done < Len(Body)
        /\ Body[Done + 1] = literal[col]
    BY <1>0, <2>1, NextCharacter DEF More
  <2>6. \A k \in 1..Done' : IsDigit(Body[k])
    <3>1. \A k \in 1..Done + 1 : k \in 1..Done \/ k = Done + 1
      BY <2>5
    <3> QED BY <1>0, <2>1, <2>4, <2>5, <3>1 DEF DigitsRead
  <2>7. number' = Worth(Done)'
    BY <2>2, <2>3, <2>4
  <2>8. Done' \in 0..Len(Body)
    BY <2>4, <2>5
  <2>9. DigitsRead'
    BY <2>2, <2>6, <2>7, <2>8 DEF DigitsRead
  <2>10. NumbersTypeOK'
    BY <1>0, <2>1, <2>2, <2>3, <2>4 DEF NumbersTypeOK
  <2>11. Told'
    BY <2>1 DEF Told
  <2> QED BY <2>9, <2>10, <2>11 DEF NumbersInv
<1>2. ASSUME reading = "digits", reading' # "digits", UNCHANGED <<literal, signed, policy, minus, col>>,
             reading' \in {"read", "no_digit", "overflow"}, number' \in Least..Greatest,
             Fitting < Leading => CutShort', ~(Fitting < Leading) => NotCut'
      PROVE  NumbersInv'
  <2>1. /\ Body' = Body /\ Least' = Least /\ Greatest' = Greatest /\ Leading' = Leading /\ Fitting' = Fitting
        /\ Worth(Leading)' = Worth(Leading) /\ Worth(Fitting)' = Worth(Fitting)
    BY <1>2, SameCell
  <2>2. NumbersTypeOK'
    BY <1>0, <1>2, <2>1 DEF NumbersTypeOK
  <2>3. DigitsRead'
    BY <1>2 DEF DigitsRead
  <2>4. Told'
    BY <1>2, <2>1 DEF Told
  <2> QED BY <2>2, <2>3, <2>4 DEF NumbersInv
<1>3. CASE Overflow
  <2>1. /\ reading = "digits" /\ More /\ IsDigit(literal[col]) /\ Overflows
        /\ number' = (IF policy # "set_to_max" THEN number ELSE IF minus THEN Least ELSE Greatest)
        /\ reading' = (IF policy = "throw" THEN "overflow" ELSE "read")
        /\ UNCHANGED <<literal, signed, policy, minus, col>>
    BY <1>3 DEF Overflow, More
  <2>2. Worth(Done + 1) \notin Least..Greatest
    BY <1>0, <2>1, NextWorth, OverflowIsExact
  <2>3. Done < Leading /\ Fitting = Done
    BY <1>0, <2>1, <2>2, EndOfDigits
  <2>4. number = Worth(Fitting)
    BY <1>0, <2>1, <2>3 DEF DigitsRead
  <2>5. number' \in Least..Greatest
    BY <1>0, <2>1, LimitsOfType DEF NumbersTypeOK
  <2>6. reading' \in {"read", "no_digit", "overflow"} /\ reading' # "digits" /\ reading' # "no_digit"
    BY <2>1
  <2>7. Least' = Least /\ Greatest' = Greatest /\ Worth(Fitting)' = Worth(Fitting)
    BY <2>1, SameCell
  <2>8. CutShort'
    BY <2>1, <2>4, <2>7 DEF CutShort
  <2>9. Fitting < Leading
    BY <2>3
  <2> QED BY <1>2, <2>1, <2>5, <2>6, <2>8, <2>9
<1>4. CASE NoDigit \/ EndOfCell
  <2>1. /\ reading = "digits" /\ number' = number
        /\ UNCHANGED <<literal, signed, policy, minus, col>>
        /\ \/ More /\ ~IsDigit(literal[col]) /\ reading' = "no_digit"
           \/ col > Len(literal) /\ reading' = "read"
    BY <1>4 DEF NoDigit, EndOfCell, More
  <2>2. Leading = Done /\ Fitting = Done /\ (reading' = "no_digit" <=> Done < Len(Body))
    <3>1. Len(Body) \in Nat /\ Done \in Nat
      BY <1>0, <2>1, NextCharacter
    <3> QED BY <1>0, <2>1, <3>1, EndOfDigits
  <2>3. number = Worth(Leading) /\ number' \in Least..Greatest
    BY <1>0, <2>1, <2>2 DEF DigitsRead, NumbersTypeOK
  <2>4. ~(Fitting < Leading)
    <3>1. Done \in Nat
      BY <1>0, <2>1, NextCharacter
    <3> QED BY <2>2, <3>1
  <2>5. Leading' = Leading /\ Worth(Leading)' = Worth(Leading) /\ Body' = Body
    BY <2>1, SameCell
  <2>6. NotCut'
    BY <2>1, <2>2, <2>3, <2>5 DEF NotCut
  <2>7. reading' \in {"read", "no_digit", "overflow"} /\ reading' # "digits"
    BY <2>1
  <2> QED BY <1>2, <2>1, <2>3, <2>4, <2>6, <2>7
<1>5. CASE BeginScaling \/ SquareBase \/ MultiplyBase \/ EndScaling \/ UNCHANGED numberVars
  <2>1. /\ UNCHANGED <<literal, signed, policy, minus, col, number>>
        /\ reading' = reading \/ (reading \in {"read", "scaling"} /\ reading' \in {"scaling", "scaled"})
    BY <1>5 DEF BeginScaling, SquareBase, MultiplyBase, EndScaling, numberVars
  <2>2. /\ Body' = Body /\ Least' = Least /\ Greatest' = Greatest /\ Leading' = Leading /\ Fitting' = Fitting
        /\ Done' = Done /\ Worth(Done)' = Worth(Done')
        /\ Worth(Leading)' = Worth(Leading) /\ Worth(Fitting)' = Worth(Fitting)
    BY <2>1, SameCell
  <2>3. NumbersTypeOK'
    <3>1. reading' = reading \/ reading = "scaling" \/ signed
      BY <1>5 DEF BeginScaling, SquareBase, MultiplyBase, EndScaling, numberVars
    <3> QED BY <1>0, <2>1, <2>2, <3>1 DEF NumbersTypeOK
  <2>4. Worth(Done)' = Worth(Done) /\ number' = number /\ policy' = policy /\ minus' = minus
    BY <2>1, <2>2
  <2>5. DigitsRead'
    BY <1>0, <2>1, <2>2, <2>4 DEF DigitsRead
  <2>6. Told'
    <3>1. CASE reading' = reading
      <4>1. (CutShort' <=> CutShort) /\ (NotCut' <=> NotCut)
        BY <2>2, <2>4, <3>1 DEF CutShort, NotCut
      <4> QED BY <1>0, <2>2, <3>1, <4>1 DEF Told
    <3>2. CASE reading \in {"read", "scaling"} /\ reading' \in {"scaling", "scaled"}
      <4>1. policy # "ignore" \/ reading = "scaling"
        BY <1>5, <3>2 DEF BeginScaling, SquareBase, MultiplyBase, EndScaling, numberVars
      <4>2. reading' # "no_digit" /\ reading' # "overflow" /\ reading # "no_digit" /\ reading # "overflow"
            /\ reading # "digits"
        BY <3>2
      <4>3. CutShort => CutShort'
        BY <2>2, <2>4, <4>1, <4>2 DEF CutShort
      <4>4. NotCut => NotCut'
        BY <2>2, <2>4, <4>2 DEF NotCut
      <4> QED BY <1>0, <2>2, <4>2, <4>3, <4>4 DEF Told
    <3> QED BY <2>1, <3>1, <3>2
  <2> QED BY <2>3, <2>5, <2>6 DEF NumbersInv
<1> QED BY <1>1, <1>3, <1>4, <1>5 DEF NumbersNext

\* The inductive invariant of the reader of numbers.
THEOREM NumbersInvInductive == NumbersSpec => []NumbersInv
<1>1. NumbersInit => NumbersInv
  BY NumbersStart
<1>2. NumbersInv /\ [NumbersNext]_numberVars => NumbersInv'
  BY NumbersStep
<1> QED BY <1>1, <1>2, PTL DEF NumbersSpec

(* For every type that holds a digit and every cell, however long.         *)
THEOREM NumbersAreAsWritten == NumbersSpec => []NumberAsWritten
<1>1. NumbersInv => NumberAsWritten
  <2> SUFFICES ASSUME NumbersInv PROVE NumberAsWritten
    OBVIOUS
  <2>1. Told /\ policy \in {"throw", "ignore", "set_to_max"}
    BY DEF NumbersInv, NumbersTypeOK
  <2> QED BY <2>1 DEF NumberAsWritten, Told, CutShort, NotCut
<1> QED BY <1>1, NumbersInvInductive, PTL

----------------------------------------------------------------------------
(* The power of ten.                                                       *)

\* In the scaling loop nothing reaches the bound, unless the exponent is the
\* least int: then it stays negative and the loop does not end.
InScale ==
  /\ power + square * exponent = number
  /\ exponent >= 1
  /\ \/ number > 0 /\ square >= 1 /\ power >= 0
     \/ number < 0 /\ square <= -1 /\ power <= 0

Scaling ==
  /\ exponent \in Int /\ square \in Int /\ power \in Int
  /\ reading \notin {"scaling", "scaled"} => power = 0
  /\ reading = "scaling" => exponent < 0 \/ InScale
  /\ PowerAsWritten

ScalingInv == NumbersInv /\ Scaling

\* Terms of a sum of one sign stay between zero and the sum.
LEMMA TermsBelowSum ==
  ASSUME NEW p \in Int, NEW s \in Int, NEW e \in Int, e >= 1, p >= 0, s >= 1
  PROVE  s * e \in Int /\ s <= s * e /\ p + s <= p + s * e
<1>1. 1 * s <= e * s /\ e * s \in Int
  BY ProductsOrdered
<1>2. e * s = s * e
  OBVIOUS
<1> DEFINE x == s * e
<1>3. x \in Int /\ s <= x
  BY <1>1, <1>2
<1> HIDE DEF x
<1>4. p + s <= p + x
  BY <1>3
<1> QED BY <1>3, <1>4 DEF x

\* Negative numbers are scaled as positive ones are, with both signs changed.
LEMMA TermsWithin ==
  ASSUME NEW p \in Int, NEW s \in Int, NEW e \in Int, NEW n \in Int,
         p + s * e = n, e >= 1, \/ n > 0 /\ s >= 1 /\ p >= 0
                                \/ n < 0 /\ s <= -1 /\ p <= 0
  PROVE  \/ n > 0 /\ p + s <= n /\ s <= n
         \/ n < 0 /\ p + s >= n /\ s >= n
<1>1. CASE n > 0 /\ s >= 1 /\ p >= 0
  <2>1. s * e \in Int /\ s <= s * e /\ p + s <= p + s * e
    BY <1>1, TermsBelowSum
  <2> DEFINE x == s * e
  <2>2. x \in Int /\ s <= x /\ p + s <= p + x /\ p + x = n
    BY <2>1
  <2> HIDE DEF x
  <2> QED BY <1>1, <2>2
<1>2. CASE n < 0 /\ s <= -1 /\ p <= 0
  <2> DEFINE t == -s
             q == -p
  <2>1. t \in Int /\ q \in Int /\ t >= 1 /\ q >= 0
    BY <1>2
  <2>2. t * e \in Int /\ t <= t * e /\ q + t <= q + t * e
    <3> HIDE DEF t, q
    <3> QED BY <2>1, TermsBelowSum
  <2>3. t * e = -(s * e) /\ s * e \in Int
    OBVIOUS
  <2> DEFINE x == s * e
             y == t * e
  <2>4. x \in Int /\ y = -x /\ t <= y /\ q + t <= q + y /\ p + x = n
    BY <2>2, <2>3
  <2> HIDE DEF x, y
  <2> QED BY <1>2, <2>4
<1> QED BY <1>1, <1>2

LEMMA NotCapped ==
  ASSUME NumbersTypeOK, signed, NEW n \in Int, n <= number \/ n <= 2 * Limit, n >= number \/ n >= -(2 * Limit)
  PROVE  Capped(n) = n
<1>1. Limit \in Int /\ Limit >= 10 /\ number \in Int /\ number <= Limit /\ number >= -Limit
  BY LimitAssumption DEF NumbersTypeOK, Least, Greatest
<1> QED BY <1>1 DEF Capped

LEMMA ScalingStep ==
  ASSUME ScalingInv, [NumbersNext]_numberVars
  PROVE  Scaling'
<1>0. NumbersTypeOK /\ exponent \in Int /\ square \in Int /\ power \in Int /\ number \in Int
  <2>1. NumbersTypeOK
    BY DEF ScalingInv, NumbersInv
  <2>2. Least \in Int /\ Greatest \in Int
    BY <2>1, LimitsOfType
  <2> QED BY <2>1, <2>2 DEF ScalingInv, Scaling, NumbersTypeOK
<1> DEFINE s == square
           e == exponent
           p == power
           n == number
<1>1. CASE ReadDigit \/ Overflow \/ NoDigit \/ EndOfCell \/ UNCHANGED numberVars
  <2>1. /\ UNCHANGED <<exponent, square, power>>
        /\ \/ reading = "digits" /\ reading' \in {"digits", "read", "overflow", "no_digit"}
           \/ UNCHANGED <<reading, number>>
    BY <1>1 DEF ReadDigit, Overflow, NoDigit, EndOfCell, More, numberVars
  <2> QED BY <2>1 DEF ScalingInv, Scaling, InScale, PowerAsWritten
<1>2. CASE BeginScaling
  <2>1. /\ reading = "read" /\ number' = number /\ power' = 0 /\ power = 0
        /\ exponent' = (IF number < 0 THEN Negated(number) ELSE number)
        /\ square' = (IF number < 0 THEN -1 ELSE 1)
        /\ reading' = (IF number = 0 THEN "scaled" ELSE "scaling")
    BY <1>2 DEF BeginScaling, ScalingInv, Scaling
  <2>2. Least \in Int
    BY <1>0, LimitsOfType
  <2>3. CASE number = 0
    BY <2>1, <2>3 DEF Scaling, PowerAsWritten
  <2>4. CASE number > 0
    <3>1. exponent' = number /\ square' = 1 /\ reading' = "scaling"
      BY <1>0, <2>1, <2>4
    <3>2. power' + square' * exponent' = number'
      BY <1>0, <2>1, <3>1
    <3> QED BY <1>0, <2>1, <2>4, <3>1, <3>2 DEF Scaling, InScale, PowerAsWritten
  <2>5. CASE number < 0 /\ number = Least
    BY <1>0, <2>1, <2>5 DEF Scaling, PowerAsWritten, Negated
  <2>6. CASE number < 0 /\ number # Least
    <3>1. exponent' = -number /\ square' = -1 /\ reading' = "scaling"
      BY <1>0, <2>1, <2>6 DEF Negated
    <3>2. power' + square' * exponent' = number'
      BY <1>0, <2>1, <3>1
    <3> QED BY <1>0, <2>1, <2>6, <3>1, <3>2 DEF Scaling, InScale, PowerAsWritten
  <2> QED BY <1>0, <2>3, <2>4, <2>5, <2>6
<1>3. CASE exponent < 0 /\ (SquareBase \/ MultiplyBase \/ EndScaling)
  <2>1. /\ reading = "scaling" /\ reading' = "scaling"
        /\ \/ exponent' = exponent \div 2 /\ square' = Capped(2 * square) /\ power' = power
           \/ exponent' = exponent - 1 /\ square' = square /\ power' = Capped(power + square)
    BY <1>0, <1>3 DEF SquareBase, MultiplyBase, EndScaling
  <2>2. \A k \in Int : Capped(k) \in Int
    BY LimitAssumption DEF Capped
  <2>3. exponent' \in Int /\ exponent' < 0
    BY <1>0, <1>3, <2>1
  <2>4. square' \in Int /\ power' \in Int
    <3>1. 2 * square \in Int /\ power + square \in Int
      BY <1>0
    <3> QED BY <1>0, <2>1, <2>2, <3>1
  <2> QED BY <2>1, <2>3, <2>4 DEF Scaling, PowerAsWritten
<1>4. CASE ~(exponent < 0) /\ (SquareBase \/ MultiplyBase \/ EndScaling)
  <2>1. reading = "scaling" /\ signed /\ number' = number
    BY <1>0, <1>4 DEF SquareBase, MultiplyBase, EndScaling, NumbersTypeOK
  <2>2. /\ p + s * e = n /\ e >= 1
        /\ \/ n > 0 /\ s >= 1 /\ p >= 0
           \/ n < 0 /\ s <= -1 /\ p <= 0
    BY <1>4, <2>1 DEF ScalingInv, Scaling, InScale
  <2>3. CASE SquareBase
    <3> DEFINE h == e \div 2
               t == 2 * s
    <3>1. exponent' = h /\ square' = Capped(t) /\ power' = p /\ reading' = "scaling" /\ e % 2 = 0
      BY <2>3 DEF SquareBase
    <3>2. h \in Int /\ h >= 1 /\ e = 2 * h /\ t \in Int
      BY <1>0, <2>2, <3>1
    <3>3. (s >= 1 => t >= 1) /\ (s <= -1 => t <= -1)
      BY <1>0
    <3>4. s * e = t * h
      <4> HIDE DEF s, e, h
      <4>1. s \in Int /\ h \in Int /\ e = 2 * h
        BY <1>0, <3>2 DEF s
      <4>2. s * (2 * h) = (2 * s) * h
        BY <4>1
      <4> QED BY <4>1, <4>2
    <3> HIDE DEF s, e, p, n, h, t
    <3>5. s \in Int /\ p \in Int /\ n \in Int
      BY <1>0 DEF s, p, n
    <3>6. p + t * h = n
      BY <2>2, <3>4
    <3>7. \/ n > 0 /\ t >= 1 /\ p >= 0
          \/ n < 0 /\ t <= -1 /\ p <= 0
      BY <2>2, <3>3
    <3>8. \/ n > 0 /\ t <= n
          \/ n < 0 /\ t >= n
      BY <3>2, <3>5, <3>6, <3>7, TermsWithin
    <3>9. Capped(t) = t
      <4>1. Limit >= 10 /\ Limit \in Int
        BY LimitAssumption
      <4>2. t <= n \/ t <= 2 * Limit
        BY <3>2, <3>5, <3>7, <3>8, <4>1
      <4>3. t >= n \/ t >= -(2 * Limit)
        BY <3>2, <3>5, <3>7, <3>8, <4>1
      <4> QED BY <1>0, <2>1, <3>2, <4>2, <4>3, NotCapped DEF n
    <3>10. power' + square' * exponent' = number'
      BY <2>1, <3>1, <3>6, <3>9 DEF n
    <3>11. exponent' >= 1 /\ exponent' \in Int /\ square' \in Int /\ power' \in Int
      BY <3>1, <3>2, <3>5, <3>9
    <3>12. \/ number' > 0 /\ square' >= 1 /\ power' >= 0
           \/ number' < 0 /\ square' <= -1 /\ power' <= 0
      BY <2>1, <3>1, <3>7, <3>9 DEF n
    <3> QED BY <3>1, <3>10, <3>11, <3>12 DEF Scaling, InScale, PowerAsWritten
  <2>4. ASSUME MultiplyBase \/ EndScaling
        PROVE  Capped(p + s) = p + s
    <3>1. /\ p \in Int /\ s \in Int /\ e \in Int /\ n \in Int
      BY <1>0
    <3> HIDE DEF s, e, p, n
    <3>2. \/ n > 0 /\ p + s <= n
          \/ n < 0 /\ p + s >= n
      BY <2>2, <3>1, TermsWithin
    <3>3. \/ n > 0 /\ p + s >= 0
          \/ n < 0 /\ p + s <= 0
      BY <2>2, <3>1
    <3> DEFINE t == p + s
    <3>4. t \in Int /\ Limit >= 10 /\ Limit \in Int
      BY <3>1, LimitAssumption
    <3>5. t <= n \/ t <= 2 * Limit
      BY <3>1, <3>2, <3>3, <3>4
    <3>6. t >= n \/ t >= -(2 * Limit)
      BY <3>1, <3>2, <3>3, <3>4
    <3> HIDE DEF t
    <3>7. Capped(t) = t
      BY <1>0, <2>1, <3>4, <3>5, <3>6, NotCapped DEF n
    <3> QED BY <3>7 DEF t
  <2>5. CASE MultiplyBase
    <3>1. exponent' = e - 1 /\ square' = s /\ power' = p + s /\ reading' = "scaling" /\ e # 1
      BY <2>4, <2>5 DEF MultiplyBase
    <3>2. (p + s) + s * (e - 1) = p + s * e
      <4>1. s \in Int /\ e \in Int /\ p \in Int
        BY <1>0
      <4> HIDE DEF s, e, p
      <4>2. s * (e - 1) = s * e - s /\ s * e \in Int
        <5>1. (e - 1) * s = e * s - 1 * s
          BY <4>1, Distributes
        <5>2. e * s = s * e /\ (e - 1) * s = s * (e - 1) /\ 1 * s = s /\ s * e \in Int
          BY <4>1
        <5> QED BY <5>1, <5>2
      <4> DEFINE x == s * e
      <4>3. (p + s) + (x - s) = p + x
        <5> HIDE DEF x
        <5>1. x \in Int
          BY <4>2 DEF x
        <5> QED BY <4>1, <5>1
      <4> QED BY <4>2, <4>3
    <3>3. power' + square' * exponent' = number'
      BY <2>1, <2>2, <3>1, <3>2
    <3>4. exponent' \in Int /\ exponent' >= 1 /\ square' \in Int /\ power' \in Int
      BY <1>0, <2>2, <3>1
    <3>5. \/ number' > 0 /\ square' >= 1 /\ power' >= 0
          \/ number' < 0 /\ square' <= -1 /\ power' <= 0
      BY <1>0, <2>1, <2>2, <3>1
    <3> QED BY <3>1, <3>3, <3>4, <3>5 DEF Scaling, InScale, PowerAsWritten
  <2>6. CASE EndScaling
    <3>1. power' = p + s /\ reading' = "scaled" /\ e = 1 /\ exponent' = e /\ square' = s
      BY <2>4, <2>6 DEF EndScaling
    <3>2. s * 1 = s
      BY <1>0
    <3>3. power' = number'
      BY <2>1, <2>2, <3>1, <3>2
    <3>4. power' \in Int
      BY <1>0, <3>1
    <3> QED BY <1>0, <3>1, <3>3, <3>4 DEF Scaling, PowerAsWritten
  <2> QED BY <1>4, <2>3, <2>5, <2>6
<1> QED BY <1>1, <1>2, <1>3, <1>4 DEF NumbersNext

THEOREM ScalingInvInductive == NumbersSpec => []ScalingInv
<1>1. NumbersInit => Scaling
  BY DEF NumbersInit, Scaling, PowerAsWritten
<1>2. ScalingInv /\ [NumbersNext]_numberVars => Scaling'
  BY ScalingStep
<1>3. NumbersInv /\ Scaling <=> ScalingInv
  BY DEF ScalingInv
<1> QED BY <1>1, <1>2, <1>3, NumbersInvInductive, PTL DEF NumbersSpec

(* The loop that scales applies the exponent it was given, if it ends: it  *)
(* does not for the least int, which negating leaves negative.             *)
THEOREM PowersAreAsWritten == NumbersSpec => []PowerAsWritten
<1>1. ScalingInv => PowerAsWritten
  BY DEF ScalingInv, Scaling
<1> QED BY <1>1, ScalingInvInductive, PTL

----------------------------------------------------------------------------
(* Sequences of sequences, one behind the other.                           *)

\* One sequence behind another; and what FlattenSeq collects, from nothing on.
Joined(s, t) == s \o t

LEMMA JoinedSeq ==
  ASSUME NEW X, NEW s \in Seq(X), NEW t \in Seq(X)
  PROVE  Joined(s, t) \in Seq(X) /\ Joined(<< >>, t) = t
BY DEF Joined

Flattens(h, t, X) ==
  h \in [0..Len(t) -> Seq(X)] /\ h[0] = << >> /\ \A k \in 1..Len(t) : h[k] = Joined(h[k-1], t[k])

IsFlat(f, t) == f = [i \in 1..Len(t) |-> IF i = 1 THEN t[i] ELSE Joined(f[i-1], t[i])]

LEMMA FlattenIsChoice ==
  ASSUME NEW t, Len(t) # 0 PROVE FlattenSeq(t) = (CHOOSE f : IsFlat(f, t))[Len(t)]
BY Zenon DEF FlattenSeq, IsFlat, Joined

LEMMA FlattensStep ==
  ASSUME NEW X, NEW t \in Seq(Seq(X)), NEW h, Flattens(h, t, X), NEW k \in 1..Len(t)
  PROVE  /\ t[k] \in Seq(X) /\ h[k-1] \in Seq(X) /\ h[k] \in Seq(X) /\ h[0] = << >>
         /\ h[k] = Joined(h[k-1], t[k])
<1>1. Len(t) \in Nat /\ k \in 0..Len(t) /\ k - 1 \in 0..Len(t)
  OBVIOUS
<1>2. t[k] \in Seq(X)
  OBVIOUS
<1>3. h \in [0..Len(t) -> Seq(X)] /\ h[0] = << >>
  BY DEF Flattens
<1>4. h[k] = Joined(h[k-1], t[k])
  BY Zenon DEF Flattens
<1> QED BY <1>1, <1>2, <1>3, <1>4

LEMMA Flattened ==
  ASSUME NEW X, NEW t \in Seq(Seq(X)), NEW h, Flattens(h, t, X)
  PROVE  FlattenSeq(t) = h[Len(t)]
<1>1. CASE Len(t) = 0
  BY <1>1 DEF FlattenSeq, Flattens
<1>2. CASE Len(t) # 0
  <2> DEFINE n == Len(t)
             g == [k \in 1..n |-> h[k]]
             w == CHOOSE f : IsFlat(f, t)
  <2>1. n \in Nat /\ n >= 1
    BY <1>2
  <2>2. \A k \in 1..n : t[k] \in Seq(X) /\ h[k-1] \in Seq(X) /\ h[k] = Joined(h[k-1], t[k])
    BY FlattensStep
  <2>3. h[1] = t[1]
    <3>1. 1 \in 1..n /\ 1 - 1 = 0
      BY <2>1
    <3>2. t[1] \in Seq(X) /\ h[0] = << >> /\ h[1] = Joined(h[0], t[1])
      BY <2>2, <3>1 DEF Flattens
    <3> QED BY <3>2, JoinedSeq
  <2>4. IsFlat(g, t)
    <3>1. ASSUME NEW k \in 1..n PROVE g[k] = IF k = 1 THEN t[k] ELSE Joined(g[k-1], t[k])
      <4>1. CASE k = 1
        BY <2>3, <4>1
      <4>2. CASE k # 1
        <5>1. k - 1 \in 1..n
          BY <2>1, <4>2
        <5>2. g[k] = h[k] /\ g[k-1] = h[k-1]
          BY <5>1
        <5> QED BY <2>2, <4>2, <5>2
      <4> QED BY <4>1, <4>2
    <3> HIDE DEF g
    <3>2. g = [k \in 1..n |-> g[k]]
      BY DEF g
    <3> QED BY <3>1, <3>2 DEF IsFlat
  <2>5. IsFlat(w, t)
    <3> HIDE DEF g
    <3> QED BY <2>4
  <2> HIDE DEF w, g
  <2>6. \A k \in 1..n : w[k] = IF k = 1 THEN t[k] ELSE Joined(w[k-1], t[k])
    BY <2>5, Zenon DEF IsFlat
  <2> DEFINE S == {k \in Nat : 1 <= k /\ k <= n => w[k] = h[k]}
  <2>7. 0 \in S
    OBVIOUS
  <2>8. ASSUME NEW k \in S PROVE k + 1 \in S
    <3>1. k \in Nat
      OBVIOUS
    <3>2. CASE k + 1 <= n
      <4>1. k + 1 \in 1..n /\ (k + 1) - 1 = k
        BY <2>1, <3>1, <3>2
      <4>2. CASE k = 0
        BY <2>1, <2>3, <2>6, <4>1, <4>2
      <4>3. CASE k # 0
        <5>1. w[k] = h[k]
          BY <2>8, <3>1, <3>2, <4>3
        <5> QED BY <2>2, <2>6, <4>1, <4>3, <5>1
      <4> QED BY <3>1, <4>2, <4>3
    <3> QED BY <3>1, <3>2
  <2>9. S = Nat
    <3> HIDE DEF S
    <3> QED BY <2>7, <2>8, NatSetInduction, S \subseteq Nat DEF S
  <2>10. w[n] = h[n]
    BY <2>1, <2>9
  <2> QED BY <1>2, <2>10, FlattenIsChoice DEF w
<1> QED BY <1>1, <1>2

LEMMA FlattenExists ==
  ASSUME NEW X, NEW t \in Seq(Seq(X))
  PROVE  \E h : Flattens(h, t, X)
<1> DEFINE n == Len(t)
           step == [k \in 1..n |-> [v \in Seq(X) |-> Joined(v, t[k])]]
<1>1. n \in Nat /\ << >> \in Seq(X) /\ \A k \in 1..n : t[k] \in Seq(X)
  OBVIOUS
<1>2. step \in [1..n -> [Seq(X) -> Seq(X)]]
  BY <1>1, JoinedSeq
<1>3. PICK h : Iterates(h, n, Seq(X), << >>, step)
  <2> HIDE DEF step, n
  <2> QED BY <1>1, <1>2, RecursionExists
<1>4. ASSUME NEW k \in 1..n PROVE h[k] = Joined(h[k-1], t[k])
  <2>1. h[k-1] \in Seq(X) /\ h[k] = step[k][h[k-1]]
    <3> HIDE DEF step
    <3>1. k - 1 \in 0..n
      BY <1>1
    <3> QED BY <1>3, <3>1 DEF Iterates
  <2> QED BY <2>1
<1> QED BY <1>3, <1>4 DEF Flattens, Iterates

(* One more sequence goes behind the others.                               *)
LEMMA FlattenGrows ==
  ASSUME NEW X, NEW s \in Seq(Seq(X)), NEW t \in Seq(Seq(X)),
         Len(t) = Len(s) + 1, \A k \in 1..Len(s) : t[k] = s[k]
  PROVE  /\ FlattenSeq(s) \in Seq(X) /\ FlattenSeq(t) \in Seq(X)
         /\ FlattenSeq(t) = FlattenSeq(s) \o t[Len(t)]
<1>1. PICK h : Flattens(h, t, X)
  BY FlattenExists
<1> DEFINE g == [k \in 0..Len(s) |-> h[k]]
<1>2. Flattens(g, s, X)
  <2>1. Len(s) \in Nat /\ Len(t) \in Nat
    OBVIOUS
  <2>2. \A k \in 1..Len(s) : k \in 1..Len(t) /\ k - 1 \in 0..Len(s)
    BY <2>1
  <2>3. \A k \in 1..Len(s) : g[k] = Joined(g[k-1], s[k])
    BY <1>1, <2>2 DEF Flattens
  <2>4. g \in [0..Len(s) -> Seq(X)] /\ g[0] = << >>
    BY <1>1, <2>1 DEF Flattens
  <2> QED BY <2>3, <2>4 DEF Flattens
<1>3. FlattenSeq(s) = h[Len(s)]
  <2>1. FlattenSeq(s) = g[Len(s)]
    <3> HIDE DEF g
    <3> QED BY <1>2, Flattened
  <2> QED BY <2>1
<1>4. FlattenSeq(t) = h[Len(t)]
  BY <1>1, Flattened
<1>5. Len(t) \in 1..Len(t) /\ Len(t) - 1 = Len(s) /\ Len(s) \in 0..Len(t)
  OBVIOUS
<1>6. h[Len(t)] = Joined(h[Len(t) - 1], t[Len(t)]) /\ h[Len(s)] \in Seq(X) /\ h[Len(t)] \in Seq(X)
  <2>1. h[Len(t)] = Joined(h[Len(t) - 1], t[Len(t)]) /\ h[Len(t) - 1] \in Seq(X) /\ h[Len(t)] \in Seq(X)
    BY <1>1, <1>5, FlattensStep
  <2> QED BY <1>5, <2>1
<1> QED BY <1>3, <1>4, <1>5, <1>6 DEF Joined

LEMMA FlattenNothing == ASSUME NEW s, Len(s) = 0 PROVE FlattenSeq(s) = s
BY DEF FlattenSeq

----------------------------------------------------------------------------
(* The cells of a line: the quotes in it.                                  *)

Chars == {"sep", "quote", "space", "other"}

IsOpened(f, s) == f = [k \in 0..Len(s) |-> k # 0 /\ (f[k-1] # (s[k] = "quote"))]

LEMMA OpenedIsChoice == ASSUME NEW s PROVE Opened(s) = CHOOSE f : IsOpened(f, s)
BY DEF Opened, IsOpened

(* A quote opens what is closed and closes what is open.                   *)
LEMMA OpenedIs ==
  ASSUME NEW s \in Seq(Chars)
  PROVE  /\ Opened(s)[0] = FALSE
         /\ \A k \in 0..Len(s) : Opened(s)[k] \in BOOLEAN
         /\ \A k \in 1..Len(s) : s[k] = "quote" => Opened(s)[k] = ~Opened(s)[k-1]
         /\ \A k \in 1..Len(s) : s[k] # "quote" => Opened(s)[k] = Opened(s)[k-1]
<1> DEFINE n == Len(s)
           step == [k \in 1..n |-> [b \in BOOLEAN |-> b # (s[k] = "quote")]]
<1>1. n \in Nat
  OBVIOUS
<1>2. PICK f : Iterates(f, n, BOOLEAN, FALSE, step)
  <2>1. step \in [1..n -> [BOOLEAN -> BOOLEAN]]
    OBVIOUS
  <2> HIDE DEF step, n
  <2> QED BY <1>1, <2>1, RecursionExists
<1>3. IsOpened(f, s)
  <2>1. ASSUME NEW k \in 0..n PROVE f[k] = (k # 0 /\ (f[k-1] # (s[k] = "quote")))
    <3>1. CASE k = 0
      <4>1. f[k] = FALSE
        BY <1>2, <3>1 DEF Iterates
      <4> QED BY <3>1, <4>1
    <3>2. CASE k # 0
      <4>1. k \in 1..n /\ k - 1 \in 0..n
        BY <1>1, <3>2
      <4>2. f[k] = step[k][f[k-1]] /\ f[k-1] \in BOOLEAN
        <5> HIDE DEF step
        <5> QED BY <1>2, <4>1 DEF Iterates
      <4>3. step[k][f[k-1]] = (f[k-1] # (s[k] = "quote"))
        BY <4>1, <4>2
      <4> HIDE DEF step
      <4> QED BY <3>2, <4>2, <4>3
    <3> QED BY <3>1, <3>2
  <2>2. f = [k \in 0..n |-> f[k]]
    BY <1>2 DEF Iterates
  <2> HIDE DEF step
  <2> QED BY <2>1, <2>2 DEF IsOpened
<1> DEFINE g == Opened(s)
<1>4. IsOpened(g, s)
  BY <1>3, OpenedIsChoice, Zenon
<1> HIDE DEF g
<1>5. \A k \in 0..n : g[k] = (k # 0 /\ (g[k-1] # (s[k] = "quote")))
  BY <1>4, Zenon DEF IsOpened
<1>6. g[0] = FALSE
  <2>1. 0 \in 0..n
    BY <1>1
  <2> QED BY <1>5, <2>1, Zenon
<1>7. \A k \in 0..n : g[k] \in BOOLEAN
  BY <1>5, Zenon
<1>8. ASSUME NEW k \in 1..n
      PROVE  /\ s[k] = "quote" => g[k] = ~g[k-1]
             /\ s[k] # "quote" => g[k] = g[k-1]
  <2>1. k \in 0..n /\ k - 1 \in 0..n /\ k # 0
    BY <1>1
  <2>2. g[k] \in BOOLEAN /\ g[k-1] \in BOOLEAN
    BY <1>7, <2>1, Zenon
  <2>3. g[k] = (g[k-1] # (s[k] = "quote"))
    BY <1>5, <2>1, Zenon
  <2> QED BY <2>2, <2>3
<1> QED BY <1>6, <1>7, <1>8 DEF g

IsPassed(f, s) ==
  f = [k \in 0..Len(s) |-> k \in 1..Len(s)-1 /\ ~f[k-1] /\ s[k] = "quote" /\ s[k+1] = "quote"]

LEMMA PassedIsChoice == ASSUME NEW s PROVE Passed(s) = CHOOSE f : IsPassed(f, s)
BY DEF Passed, IsPassed

(* The first of two quotes is passed, unless it is the second of two.      *)
LEMMA PassedIs ==
  ASSUME NEW s \in Seq(Chars)
  PROVE  /\ Passed(s)[0] = FALSE
         /\ \A k \in 1..Len(s) : Passed(s)[k] = (/\ k < Len(s) /\ Passed(s)[k-1] = FALSE
                                                 /\ s[k] = "quote" /\ s[k+1] = "quote")
<1> DEFINE n == Len(s)
           step == [k \in 1..n |-> [b \in BOOLEAN |->
                      k \in 1..n-1 /\ ~b /\ s[k] = "quote" /\ s[k+1] = "quote"]]
<1>1. n \in Nat
  OBVIOUS
<1>2. PICK f : Iterates(f, n, BOOLEAN, FALSE, step)
  <2>1. step \in [1..n -> [BOOLEAN -> BOOLEAN]]
    OBVIOUS
  <2> HIDE DEF step, n
  <2> QED BY <1>1, <2>1, RecursionExists
<1>3. IsPassed(f, s)
  <2>1. ASSUME NEW k \in 0..n
        PROVE  f[k] = (k \in 1..n-1 /\ ~f[k-1] /\ s[k] = "quote" /\ s[k+1] = "quote")
    <3>1. CASE k = 0
      <4>1. f[k] = FALSE /\ k \notin 1..n-1
        BY <1>2, <3>1 DEF Iterates
      <4> QED BY <4>1
    <3>2. CASE k # 0
      <4>1. k \in 1..n /\ k - 1 \in 0..n
        BY <1>1, <3>2
      <4>2. f[k] = step[k][f[k-1]] /\ f[k-1] \in BOOLEAN
        <5> HIDE DEF step
        <5> QED BY <1>2, <4>1 DEF Iterates
      <4>3. step[k][f[k-1]] = (k \in 1..n-1 /\ ~f[k-1] /\ s[k] = "quote" /\ s[k+1] = "quote")
        BY <4>1, <4>2
      <4> HIDE DEF step
      <4> QED BY <4>2, <4>3
    <3> QED BY <3>1, <3>2
  <2>2. f = [k \in 0..n |-> f[k]]
    BY <1>2 DEF Iterates
  <2> HIDE DEF step
  <2> QED BY <2>1, <2>2 DEF IsPassed
<1> DEFINE g == Passed(s)
<1>4. IsPassed(g, s)
  BY <1>3, PassedIsChoice, Zenon
<1> HIDE DEF g
<1>5. \A k \in 0..n : g[k] = (k \in 1..n-1 /\ ~g[k-1] /\ s[k] = "quote" /\ s[k+1] = "quote")
  BY <1>4, Zenon DEF IsPassed
<1>6. g[0] = FALSE
  <2>1. 0 \in 0..n /\ 0 \notin 1..n-1
    BY <1>1
  <2> QED BY <1>5, <2>1, Zenon
<1>7. ASSUME NEW k \in 1..n
      PROVE  g[k] = (k < n /\ g[k-1] = FALSE /\ s[k] = "quote" /\ s[k+1] = "quote")
  <2>1. k \in 0..n /\ k - 1 \in 0..n /\ (k \in 1..n-1 <=> k < n)
    BY <1>1
  <2>2. g[k-1] \in BOOLEAN
    BY <1>5, <2>1, Zenon
  <2>3. g[k] = (k \in 1..n-1 /\ ~g[k-1] /\ s[k] = "quote" /\ s[k+1] = "quote")
    BY <1>5, <2>1, Zenon
  <2>4. ~g[k-1] <=> g[k-1] = FALSE
    BY <2>2
  <2> QED BY <2>1, <2>3, <2>4
<1> QED BY <1>6, <1>7 DEF g

(* Behind quotes that are closed a line begins anew; behind an open one    *)
(* what was open is closed.                                                *)
LEMMA OpenedJoined ==
  ASSUME NEW a \in Seq(Chars), NEW b \in Seq(Chars)
  PROVE  /\ \A j \in 0..Len(a) : Opened(a \o b)[j] = Opened(a)[j]
         /\ \A j \in 0..Len(b) :
              Opened(a \o b)[Len(a) + j] = (Opened(a)[Len(a)] # Opened(b)[j])
<1> DEFINE s == a \o b
           m == Len(a)
           n == Len(b)
           f == Opened(a)
           g == Opened(b)
           h == Opened(s)
<1>1. /\ s \in Seq(Chars) /\ Len(s) = m + n /\ m \in Nat /\ n \in Nat
      /\ \A j \in 1..m : s[j] = a[j]
      /\ \A j \in 1..n : s[m + j] = b[j]
  OBVIOUS
<1> HIDE DEF s
<1>2. /\ f[0] = FALSE /\ g[0] = FALSE /\ h[0] = FALSE
      /\ (\A k \in 0..m : f[k] \in BOOLEAN) /\ (\A k \in 0..n : g[k] \in BOOLEAN)
      /\ \A k \in 0..(m + n) : h[k] \in BOOLEAN
  BY <1>1, OpenedIs
<1>3. /\ \A k \in 1..m : (a[k] = "quote" => f[k] = ~f[k-1]) /\ (a[k] # "quote" => f[k] = f[k-1])
      /\ \A k \in 1..n : (b[k] = "quote" => g[k] = ~g[k-1]) /\ (b[k] # "quote" => g[k] = g[k-1])
      /\ \A k \in 1..(m + n) : (s[k] = "quote" => h[k] = ~h[k-1]) /\ (s[k] # "quote" => h[k] = h[k-1])
  <2>1. \A k \in 1..m : (a[k] = "quote" => f[k] = ~f[k-1]) /\ (a[k] # "quote" => f[k] = f[k-1])
    BY OpenedIs
  <2>2. \A k \in 1..n : (b[k] = "quote" => g[k] = ~g[k-1]) /\ (b[k] # "quote" => g[k] = g[k-1])
    BY OpenedIs
  <2>3. \A k \in 1..Len(s) : (s[k] = "quote" => h[k] = ~h[k-1]) /\ (s[k] # "quote" => h[k] = h[k-1])
    <3>1. s \in Seq(Chars)
      BY <1>1
    <3> QED BY <3>1, OpenedIs
  <2> HIDE DEF f, g, h
  <2> QED BY <1>1, <2>1, <2>2, <2>3
<1> HIDE DEF f, g, h, m, n
<1> DEFINE S == {j \in Nat : j <= m => h[j] = f[j]}
<1>4. 0 \in S
  BY <1>2
<1>5. ASSUME NEW j \in S PROVE j + 1 \in S
  <2>1. j \in Nat
    OBVIOUS
  <2>2. CASE j + 1 <= m
    <3>1. j + 1 \in 1..m /\ j + 1 \in 1..(m + n) /\ (j + 1) - 1 = j /\ h[j] = f[j]
      BY <1>1, <1>5, <2>1, <2>2
    <3>2. s[j + 1] = a[j + 1]
      BY <1>1, <3>1
    <3>3. h[j + 1] = f[j + 1]
      BY <1>3, <3>1, <3>2
    <3> QED BY <2>1, <3>3
  <2> QED BY <2>1, <2>2
<1>6. S = Nat
  <2> HIDE DEF S
  <2> QED BY <1>4, <1>5, NatSetInduction, S \subseteq Nat DEF S
<1>7. \A j \in 0..m : h[j] = f[j]
  BY <1>6
<1> DEFINE T == {j \in Nat : j <= n => h[m + j] = (f[m] # g[j])}
<1>8. 0 \in T
  <2>1. m \in 0..m /\ m + 0 = m
    BY <1>1
  <2>2. h[m] = f[m] /\ f[m] \in BOOLEAN /\ g[0] = FALSE
    BY <1>2, <1>7, <2>1
  <2>3. h[m + 0] = (f[m] # g[0])
    BY <2>1, <2>2
  <2> QED BY <2>3
<1>9. ASSUME NEW j \in T PROVE j + 1 \in T
  <2>1. j \in Nat
    OBVIOUS
  <2>2. CASE j + 1 <= n
    <3>1. /\ j + 1 \in 1..n /\ m + (j + 1) \in 1..(m + n) /\ (j + 1) - 1 = j /\ (m + (j + 1)) - 1 = m + j
          /\ j \in 0..n /\ j + 1 \in 0..n /\ m \in 0..m
      BY <1>1, <2>1, <2>2
    <3>2. h[m + j] = (f[m] # g[j])
      BY <1>1, <1>9, <2>1, <2>2
    <3>3. s[m + (j + 1)] = b[j + 1]
      BY <1>1, <3>1
    <3>4. f[m] \in BOOLEAN /\ g[j] \in BOOLEAN /\ g[j + 1] \in BOOLEAN
      BY <1>2, <3>1
    <3>5. CASE b[j + 1] = "quote"
      <4>1. h[m + (j + 1)] = ~h[m + j] /\ g[j + 1] = ~g[j]
        BY <1>3, <3>1, <3>3, <3>5
      <4>2. h[m + (j + 1)] = (f[m] # g[j + 1])
        BY <3>2, <3>4, <4>1
      <4> QED BY <2>1, <4>2
    <3>6. CASE b[j + 1] # "quote"
      <4>1. h[m + (j + 1)] = h[m + j] /\ g[j + 1] = g[j]
        BY <1>3, <3>1, <3>3, <3>6
      <4>2. h[m + (j + 1)] = (f[m] # g[j + 1])
        BY <3>2, <4>1
      <4> QED BY <2>1, <4>2
    <3> QED BY <3>5, <3>6
  <2> QED BY <2>1, <2>2
<1>10. T = Nat
  <2> HIDE DEF T
  <2> QED BY <1>8, <1>9, NatSetInduction, T \subseteq Nat DEF T
<1>11. \A j \in 0..n : h[m + j] = (f[m] # g[j])
  BY <1>10
<1> QED BY <1>7, <1>11 DEF f, g, h, m, n, s

(* The elements of one sequence and of the one behind it.                  *)
LEMMA CharsBehind ==
  ASSUME NEW a \in Seq(Chars), NEW b \in Seq(Chars)
  PROVE  /\ a \o b \in Seq(Chars) /\ Len(a \o b) = Len(a) + Len(b)
         /\ \A j \in 1..Len(a) : (a \o b)[j] = a[j]
         /\ \A j \in 1..Len(b) : (a \o b)[Len(a) + j] = b[j]
OBVIOUS

LEMMA JoinedAt ==
  ASSUME NEW X, NEW a \in Seq(X), NEW b \in Seq(X)
  PROVE  /\ Joined(a, b) \in Seq(X) /\ Len(Joined(a, b)) = Len(a) + Len(b)
         /\ \A j \in 1..Len(a) : Joined(a, b)[j] = a[j]
         /\ \A j \in 1..Len(b) : Joined(a, b)[Len(a) + j] = b[j]
         /\ Joined(a, << >>) = a
BY DEF Joined

LEMMA JoinedBoth ==
  ASSUME NEW X, NEW a \in Seq(X), NEW b \in Seq(X), NEW c \in Seq(X)
  PROVE  Joined(Joined(a, b), c) = Joined(a, Joined(b, c))
BY DEF Joined

\* What leaves no quote open and has separators only between quotes; and
\* what may be put between quotes.
Shut(s) == /\ Opened(s)[Len(s)] = FALSE
           /\ \A j \in 1..Len(s) : s[j] = "sep" => Opened(s)[j] = TRUE
Inner(s) == /\ Opened(s)[Len(s)] = FALSE
            /\ \A j \in 1..Len(s) : s[j] = "sep" => Opened(s)[j] = FALSE

LEMMA OpenedBehind ==
  ASSUME NEW a \in Seq(Chars), NEW b \in Seq(Chars), NEW j \in 0..Len(b)
  PROVE  /\ Opened(a)[Len(a)] = FALSE => Opened(a \o b)[Len(a) + j] = Opened(b)[j]
         /\ Opened(a)[Len(a)] = TRUE /\ Opened(b)[j] = FALSE => Opened(a \o b)[Len(a) + j] = TRUE
         /\ Opened(a)[Len(a)] = TRUE /\ Opened(b)[j] = TRUE => Opened(a \o b)[Len(a) + j] = FALSE
<1>1. Opened(b)[j] \in BOOLEAN
  BY OpenedIs
<1>2. Opened(a \o b)[Len(a) + j] = (Opened(a)[Len(a)] # Opened(b)[j])
  BY OpenedJoined
<1> DEFINE x == Opened(a)[Len(a)]
           y == Opened(b)[j]
           z == Opened(a \o b)[Len(a) + j]
<1> HIDE DEF x, y, z
<1>3. y \in BOOLEAN /\ z = (x # y)
  BY <1>1, <1>2 DEF x, y, z
<1>4. (x = FALSE => z = y) /\ (x = TRUE /\ y = FALSE => z = TRUE) /\ (x = TRUE /\ y = TRUE => z = FALSE)
  BY <1>3
<1> QED BY <1>4 DEF x, y, z

LEMMA BothShut ==
  ASSUME NEW a \in Seq(Chars), NEW b \in Seq(Chars)
  PROVE  /\ a \o b \in Seq(Chars)
         /\ Shut(a) /\ Shut(b) => Shut(a \o b)
         /\ Inner(a) /\ Inner(b) => Inner(a \o b)
<1> DEFINE s == a \o b
           m == Len(a)
           n == Len(b)
<1>1. /\ s \in Seq(Chars) /\ Len(s) = m + n /\ m \in Nat /\ n \in Nat
      /\ \A j \in 1..m : s[j] = a[j]
      /\ \A j \in 1..n : s[m + j] = b[j]
  OBVIOUS
<1>2. \A j \in 0..m : Opened(s)[j] = Opened(a)[j]
  BY OpenedJoined
<1>4. \A j \in 0..n : Opened(a)[m] = FALSE => Opened(s)[m + j] = Opened(b)[j]
  BY OpenedBehind
<1> HIDE DEF s, m, n
<1>5. \A j \in 1..(m + n) : j \in 1..m \/ \E i \in 1..n : j = m + i
  <2> TAKE j \in 1..(m + n)
  <2>1. CASE ~(j <= m)
    <3>1. j - m \in 1..n /\ j = m + (j - m)
      BY <1>1, <2>1
    <3> QED BY <3>1
  <2> QED BY <1>1, <2>1
<1>6. n \in 0..n /\ \A j \in 1..n : j \in 0..n
  BY <1>1
<1>7. \A j \in 1..m : j \in 0..m
  BY <1>1
<1>8. ASSUME Shut(a), Shut(b) PROVE Shut(s)
  <2>1. Opened(a)[m] = FALSE /\ Opened(b)[n] = FALSE
    BY <1>8 DEF Shut, m, n
  <2>2. Opened(s)[Len(s)] = FALSE
    BY <1>1, <1>4, <1>6, <2>1
  <2>3. \A j \in 1..m : a[j] = "sep" => Opened(a)[j] = TRUE
    BY <1>8 DEF Shut, m
  <2>4. \A j \in 1..n : b[j] = "sep" => Opened(b)[j] = TRUE
    BY <1>8 DEF Shut, n
  <2>5. \A j \in 1..m : s[j] = "sep" => Opened(s)[j] = TRUE
    BY <1>1, <1>2, <1>7, <2>3
  <2>6. \A j \in 1..n : s[m + j] = "sep" => Opened(s)[m + j] = TRUE
    BY <1>1, <1>4, <1>6, <2>1, <2>4
  <2>7. \A j \in 1..Len(s) : s[j] = "sep" => Opened(s)[j] = TRUE
    <3> TAKE j \in 1..Len(s)
    <3>1. CASE j \in 1..m
      BY <2>5, <3>1
    <3>2. CASE j \notin 1..m
      <4>1. PICK i \in 1..n : j = m + i
        BY <1>1, <1>5, <3>2
      <4> QED BY <2>6, <4>1
    <3> QED BY <3>1, <3>2
  <2> QED BY <2>2, <2>7 DEF Shut
<1>9. ASSUME Inner(a), Inner(b) PROVE Inner(s)
  <2>1. Opened(a)[m] = FALSE /\ Opened(b)[n] = FALSE
    BY <1>9 DEF Inner, m, n
  <2>2. Opened(s)[Len(s)] = FALSE
    BY <1>1, <1>4, <1>6, <2>1
  <2>3. \A j \in 1..m : a[j] = "sep" => Opened(a)[j] = FALSE
    BY <1>9 DEF Inner, m
  <2>4. \A j \in 1..n : b[j] = "sep" => Opened(b)[j] = FALSE
    BY <1>9 DEF Inner, n
  <2>5. \A j \in 1..m : s[j] = "sep" => Opened(s)[j] = FALSE
    BY <1>1, <1>2, <1>7, <2>3
  <2>6. \A j \in 1..n : s[m + j] = "sep" => Opened(s)[m + j] = FALSE
    BY <1>1, <1>4, <1>6, <2>1, <2>4
  <2>7. \A j \in 1..Len(s) : s[j] = "sep" => Opened(s)[j] = FALSE
    <3> TAKE j \in 1..Len(s)
    <3>1. CASE j \in 1..m
      BY <2>5, <3>1
    <3>2. CASE j \notin 1..m
      <4>1. PICK i \in 1..n : j = m + i
        BY <1>1, <1>5, <3>2
      <4> QED BY <2>6, <4>1
    <3> QED BY <3>1, <3>2
  <2> QED BY <2>2, <2>7 DEF Inner
<1> QED BY <1>1, <1>8, <1>9 DEF s

LEMMA NothingShut == << >> \in Seq(Chars) /\ Shut(<< >>) /\ Inner(<< >>)
<1>1. << >> \in Seq(Chars) /\ Len(<< >>) = 0
  OBVIOUS
<1>2. Opened(<< >>)[0] = FALSE
  BY <1>1, OpenedIs
<1> QED BY <1>1, <1>2 DEF Shut, Inner

LEMMA OpenedOne ==
  ASSUME NEW x \in Chars
  PROVE  <<x>> \in Seq(Chars) /\ Len(<<x>>) = 1 /\ Opened(<<x>>)[1] = (x = "quote")
<1> DEFINE s == <<x>>
<1>1. s \in Seq(Chars) /\ Len(s) = 1 /\ s[1] = x
  OBVIOUS
<1> HIDE DEF s
<1>2. 1 \in 1..Len(s) /\ 1 - 1 = 0
  BY <1>1
<1>3. /\ Opened(s)[0] = FALSE
      /\ s[1] = "quote" => Opened(s)[1] = ~Opened(s)[1 - 1]
      /\ s[1] # "quote" => Opened(s)[1] = Opened(s)[1 - 1]
  BY <1>1, <1>2, OpenedIs
<1>4. Opened(s)[1] = (x = "quote")
  BY <1>1, <1>2, <1>3
<1> QED BY <1>1, <1>4 DEF s

(* A quoted content may hold separators, and is shut.                      *)
LEMMA QuotesShut ==
  ASSUME NEW d \in Seq(Chars), Inner(d)
  PROVE  LET s == <<"quote">> \o d \o <<"quote">> IN s \in Seq(Chars) /\ Shut(s)
<1> DEFINE q == <<"quote">>
           a == q \o d
           s == a \o q
           n == Len(d)
<1>1. "quote" \in Chars
  BY DEF Chars
<1>2. q \in Seq(Chars) /\ Len(q) = 1 /\ q[1] = "quote" /\ Opened(q)[1] = TRUE
  BY <1>1, OpenedOne
<1>3. /\ a \in Seq(Chars) /\ Len(a) = 1 + n /\ n \in Nat /\ a[1] = "quote"
      /\ \A j \in 1..n : a[1 + j] = d[j]
  BY <1>2
<1>4. /\ s \in Seq(Chars) /\ Len(s) = 1 + n + 1
      /\ \A j \in 1..(1 + n) : s[j] = a[j]
      /\ s[1 + n + 1] = "quote"
  <2> HIDE DEF q, a
  <2>1. /\ s \in Seq(Chars) /\ Len(s) = Len(a) + Len(q)
        /\ \A j \in 1..Len(a) : s[j] = a[j]
        /\ \A j \in 1..Len(q) : s[Len(a) + j] = q[j]
    <3>1. a \in Seq(Chars) /\ q \in Seq(Chars)
      BY <1>2, <1>3
    <3> QED BY <3>1, CharsBehind
  <2>2. 1 \in 1..Len(q) /\ Len(q) = 1 /\ q[1] = "quote" /\ Len(a) = 1 + n
    BY <1>2, <1>3
  <2> HIDE DEF s, n
  <2>3. s[Len(a) + 1] = "quote"
    BY <2>1, <2>2
  <2>4. \A j \in 1..(1 + n) : s[j] = a[j]
    BY <2>1, <2>2
  <2> QED BY <2>1, <2>2, <2>3, <2>4
<1>5. \A j \in 0..n : Opened(d)[j] = FALSE => Opened(a)[1 + j] = TRUE
  <2> HIDE DEF q
  <2>0. q \in Seq(Chars) /\ Opened(q)[Len(q)] = TRUE
    BY <1>2
  <2>1. \A j \in 0..n : Opened(d)[j] = FALSE => Opened(q \o d)[Len(q) + j] = TRUE
    BY <2>0, OpenedBehind
  <2> QED BY <1>2, <2>1
<1>6. \A j \in 0..(1 + n) : Opened(s)[j] = Opened(a)[j]
  <2> HIDE DEF q, a
  <2> QED BY <1>2, <1>3, OpenedJoined
<1>7. Opened(a)[1 + n] = TRUE => Opened(s)[(1 + n) + 1] = FALSE
  <2>1. 1 \in 0..Len(q)
    BY <1>2
  <2> HIDE DEF q, a
  <2>2. Opened(a)[Len(a)] = TRUE => Opened(a \o q)[Len(a) + 1] = FALSE
    BY <1>2, <1>3, <2>1, OpenedBehind
  <2> QED BY <1>3, <2>2
<1> HIDE DEF q, a, s
<1>8. Opened(d)[n] = FALSE /\ \A j \in 1..n : d[j] = "sep" => Opened(d)[j] = FALSE
  BY DEF Inner
<1>9. n \in 0..n /\ (\A j \in 1..n : j \in 0..n /\ 1 + j \in 0..(1 + n) /\ 1 + j \in 1..(1 + n))
      /\ 1 \in 1..(1 + n)
  BY <1>3
<1>10. Opened(a)[1 + n] = TRUE
  BY <1>2, <1>5, <1>8, <1>9
<1>11. Opened(s)[Len(s)] = FALSE
  BY <1>2, <1>4, <1>7, <1>10
<1>12. ASSUME NEW j \in 1..Len(s), s[j] = "sep" PROVE Opened(s)[j] = TRUE
  <2>1. j \in 1..(1 + n + 1) /\ j # 1 + n + 1 /\ j # 1
    <3>1. s[1] = "quote"
      BY <1>3, <1>4, <1>9
    <3> QED BY <1>4, <1>12, <3>1
  <2> DEFINE i == j - 1
  <2>2. i \in 1..n /\ j = 1 + i
    BY <1>3, <2>1
  <2> HIDE DEF i
  <2>3. d[i] = "sep"
    BY <1>3, <1>4, <1>9, <1>12, <2>2
  <2>4. Opened(d)[i] = FALSE
    BY <1>8, <2>2, <2>3
  <2>5. Opened(a)[1 + i] = TRUE
    BY <1>2, <1>5, <1>9, <2>2, <2>4
  <2> QED BY <1>6, <1>9, <2>2, <2>5
<1> QED BY <1>4, <1>11, <1>12 DEF Shut, s, a, q

(* So is what needs no quotes.                                             *)
LEMMA PlainShut ==
  ASSUME NEW c \in Seq(Chars), Plain(c)
  PROVE  Shut(c) /\ \A j \in 1..Len(c) : c[j] # "sep" /\ c[j] # "quote"
<1> DEFINE f == Opened(c)
           S == {j \in Nat : j <= Len(c) => f[j] = FALSE}
<1>1. Len(c) \in Nat /\ \A j \in 1..Len(c) : c[j] # "sep" /\ c[j] # "quote"
  BY DEF Plain
<1>2. f[0] = FALSE /\ \A j \in 1..Len(c) : f[j] = f[j-1]
  BY <1>1, OpenedIs
<1> HIDE DEF f
<1> DEFINE n == Len(c)
<1>6. n \in Nat
  BY <1>1
<1>3. ASSUME NEW j \in S PROVE j + 1 \in S
  <2>1. j \in Nat
    OBVIOUS
  <2>2. CASE j + 1 <= Len(c)
    <3>1. j + 1 \in 1..Len(c) /\ (j + 1) - 1 = j
      BY <1>1, <2>1, <2>2
    <3>2. f[j + 1] = f[j]
      BY <1>2, <3>1
    <3>3. f[j] = FALSE
      BY <1>1, <1>3, <2>1, <2>2
    <3> QED BY <2>1, <3>2, <3>3
  <2>3. CASE ~(j + 1 <= n)
    <3> HIDE DEF n
    <3>1. ~(j + 1 <= n)
      BY <2>3
    <3> QED BY <2>1, <3>1 DEF n
  <2> QED BY <2>2, <2>3
<1>4. S = Nat
  <2>1. 0 \in S
    BY <1>2
  <2> HIDE DEF S
  <2> QED BY <1>3, <2>1, NatSetInduction, S \subseteq Nat DEF S
<1>5. Opened(c)[Len(c)] = FALSE
  BY <1>1, <1>4 DEF f
<1> QED BY <1>1, <1>5 DEF Shut

\* The pieces of a doubled content.
Pairs(c) == [k \in 1..Len(c) |-> IF c[k] = "quote" THEN <<"quote", "quote">> ELSE <<c[k]>>]

LEMMA PairsAre ==
  ASSUME NEW c \in Seq(Chars)
  PROVE  /\ Pairs(c) \in Seq(Seq(Chars)) /\ Len(Pairs(c)) = Len(c) /\ Doubled(c) = FlattenSeq(Pairs(c))
         /\ \A k \in 1..Len(c) : Pairs(c)[k] = IF c[k] = "quote" THEN <<"quote", "quote">> ELSE <<c[k]>>
<1>1. <<"quote", "quote">> \in Seq(Chars) /\ \A k \in 1..Len(c) : <<c[k]>> \in Seq(Chars)
  BY DEF Chars
<1>2. Pairs(c) \in [1..Len(c) -> Seq(Chars)] /\ Len(c) \in Nat
  BY <1>1 DEF Pairs
<1> QED BY <1>2 DEF Pairs, Doubled

LEMMA PieceIsInner ==
  ASSUME NEW x \in Chars
  PROVE  LET p == IF x = "quote" THEN <<"quote", "quote">> ELSE <<x>> IN p \in Seq(Chars) /\ Inner(p)
<1>1. CASE x # "quote"
  <2>1. <<x>> \in Seq(Chars) /\ Len(<<x>>) = 1 /\ Opened(<<x>>)[1] = FALSE
    BY <1>1, OpenedOne
  <2>2. Inner(<<x>>)
    BY <2>1 DEF Inner
  <2> QED BY <1>1, <2>1, <2>2
<1>2. CASE x = "quote"
  <2> DEFINE q == <<"quote">>
             p == q \o q
  <2>1. q \in Seq(Chars) /\ Len(q) = 1 /\ Opened(q)[1] = TRUE
    BY <1>2, OpenedOne
  <2>2. p = <<"quote", "quote">> /\ Len(p) = 2 /\ p[1] = "quote" /\ p[2] = "quote"
    <3> DEFINE r == <<"quote", "quote">>
    <3>1. r \in Seq(Chars) /\ Len(r) = 2 /\ r[1] = "quote" /\ r[2] = "quote"
      BY DEF Chars
    <3>2. q \in Seq(Chars) /\ Len(q) = 1 /\ q[1] = "quote"
      BY <2>1
    <3> HIDE DEF q, r
    <3>3. p \in Seq(Chars) /\ Len(p) = 2 /\ p[1] = "quote" /\ p[2] = "quote"
      <4>1. 1 \in 1..Len(q)
        BY <3>2
      <4>2. /\ p \in Seq(Chars) /\ Len(p) = Len(q) + Len(q)
            /\ p[1] = q[1] /\ p[Len(q) + 1] = q[1]
        BY <3>2, <4>1, CharsBehind
      <4> HIDE DEF p
      <4> QED BY <3>2, <4>2
    <3> HIDE DEF p
    <3>4. p = r
      BY <3>1, <3>3
    <3> QED BY <3>3, <3>4 DEF r
  <2>3. Opened(p)[1 + 1] = FALSE /\ p \in Seq(Chars)
    <3>1. 1 \in 0..Len(q)
      BY <2>1
    <3> HIDE DEF q
    <3>2. Opened(q \o q)[Len(q) + 1] = FALSE
      BY <2>1, <3>1, OpenedBehind
    <3> QED BY <2>1, <3>2
  <2> HIDE DEF q, p
  <2>4. Opened(p)[Len(p)] = FALSE
    BY <2>1, <2>2, <2>3
  <2>5. \A j \in 1..Len(p) : p[j] # "sep"
    BY <2>2
  <2> QED BY <1>2, <2>2, <2>3, <2>4, <2>5 DEF Inner
<1> QED BY <1>1, <1>2

LEMMA DoubledIsInner ==
  ASSUME NEW c \in Seq(Chars)
  PROVE  Doubled(c) \in Seq(Chars) /\ Inner(Doubled(c))
<1> DEFINE t == Pairs(c)
           n == Len(c)
<1>1. t \in Seq(Seq(Chars)) /\ Len(t) = n /\ Doubled(c) = FlattenSeq(t) /\ n \in Nat
      /\ \A k \in 1..n : t[k] = IF c[k] = "quote" THEN <<"quote", "quote">> ELSE <<c[k]>>
  BY PairsAre
<1> HIDE DEF t
<1>2. PICK h : Flattens(h, t, Chars)
  BY <1>1, FlattenExists
<1>3. Doubled(c) = h[n]
  BY <1>1, <1>2, Flattened
<1>4. \A k \in 1..n : h[k-1] \in Seq(Chars) /\ h[k] = Joined(h[k-1], t[k])
  BY <1>1, <1>2, FlattensStep
<1>5. h[0] = << >>
  BY <1>2 DEF Flattens
<1>6. \A k \in 1..n : t[k] \in Seq(Chars) /\ Inner(t[k])
  <2> TAKE k \in 1..n
  <2> DEFINE x == c[k]
  <2>1. x \in Chars /\ t[k] = IF x = "quote" THEN <<"quote", "quote">> ELSE <<x>>
    BY <1>1
  <2> HIDE DEF x
  <2> QED BY <2>1, PieceIsInner
<1> HIDE DEF n
<1> DEFINE S == {k \in Nat : k <= n => h[k] \in Seq(Chars) /\ Inner(h[k])}
<1>7. 0 \in S
  BY <1>5, NothingShut
<1>8. ASSUME NEW k \in S PROVE k + 1 \in S
  <2>1. k \in Nat
    OBVIOUS
  <2>2. CASE k + 1 <= n
    <3>1. k + 1 \in 1..n /\ (k + 1) - 1 = k /\ h[k] \in Seq(Chars) /\ Inner(h[k])
      BY <1>1, <1>8, <2>1, <2>2
    <3>2. h[k + 1] = h[k] \o t[k + 1] /\ t[k + 1] \in Seq(Chars) /\ Inner(t[k + 1])
      BY <1>4, <1>6, <3>1 DEF Joined
    <3>3. h[k + 1] \in Seq(Chars) /\ Inner(h[k + 1])
      BY <3>1, <3>2, BothShut
    <3> QED BY <2>1, <3>3
  <2> QED BY <2>1, <2>2
<1>9. S = Nat
  <2> HIDE DEF S
  <2> QED BY <1>7, <1>8, NatSetInduction, S \subseteq Nat DEF S
<1> QED BY <1>1, <1>3, <1>9

(* What is collected first stays in front of what follows.                 *)
LEMMA FlattensAt ==
  ASSUME NEW X, NEW t \in Seq(Seq(X)), NEW h, Flattens(h, t, X)
  PROVE  /\ Len(t) \in Nat /\ h[0] = << >>
         /\ \A k \in 0..Len(t) : h[k] \in Seq(X)
         /\ \A k \in 1..Len(t) : t[k] \in Seq(X) /\ h[k] = Joined(h[k-1], t[k])
<1>1. Len(t) \in Nat
  OBVIOUS
<1>2. h \in [0..Len(t) -> Seq(X)] /\ h[0] = << >>
  BY DEF Flattens
<1>3. \A k \in 1..Len(t) : t[k] \in Seq(X) /\ h[k] = Joined(h[k-1], t[k])
  BY FlattensStep
<1>4. \A k \in 0..Len(t) : h[k] \in Seq(X)
  BY <1>2
<1> QED BY <1>1, <1>2, <1>3, <1>4

LEMMA FlattenPrefix ==
  ASSUME NEW X, NEW t \in Seq(Seq(X)), NEW h, Flattens(h, t, X), NEW k \in 0..Len(t)
  PROVE  \E r \in Seq(X) : h[Len(t)] = Joined(h[k], r)
<1> DEFINE n == Len(t)
           Extends(j) == \E r \in Seq(X) : h[k + j] = Joined(h[k], r)
           S == {j \in Nat : k + j <= n => Extends(j)}
<1>1. /\ n \in Nat
      /\ \A j \in 0..n : h[j] \in Seq(X)
      /\ \A j \in 1..n : t[j] \in Seq(X) /\ h[j] = Joined(h[j-1], t[j])
  BY FlattensAt
<1>2. k \in Nat /\ k <= n
  BY <1>1
<1> HIDE DEF n
<1>3. 0 \in S
  <2>1. << >> \in Seq(X) /\ h[k] \in Seq(X) /\ k + 0 = k
    BY <1>1, <1>2
  <2>2. Joined(h[k], << >>) = h[k]
    BY <2>1, JoinedAt
  <2> QED BY <2>1, <2>2
<1>4. ASSUME NEW j \in S PROVE j + 1 \in S
  <2>1. j \in Nat
    OBVIOUS
  <2>2. CASE k + (j + 1) <= n
    <3>1. k + (j + 1) \in 1..n /\ (k + (j + 1)) - 1 = k + j /\ k + j <= n
      BY <1>1, <1>2, <2>1, <2>2
    <3>2. Extends(j)
      <4> HIDE DEF Extends
      <4> QED BY <3>1
    <3>3. PICK r \in Seq(X) : h[k + j] = Joined(h[k], r)
      BY <3>2
    <3> DEFINE p == t[k + (j + 1)]
    <3>4. h[k + (j + 1)] = Joined(h[k + j], p) /\ p \in Seq(X)
      BY <1>1, <3>1
    <3> HIDE DEF p
    <3>5. h[k] \in Seq(X)
      BY <1>1, <1>2
    <3>6. Joined(Joined(h[k], r), p) = Joined(h[k], Joined(r, p)) /\ Joined(r, p) \in Seq(X)
      <4> DEFINE a == h[k]
      <4>1. a \in Seq(X) /\ r \in Seq(X) /\ p \in Seq(X)
        BY <3>4, <3>5
      <4> HIDE DEF a
      <4>2. Joined(Joined(a, r), p) = Joined(a, Joined(r, p))
        BY <4>1, JoinedBoth
      <4>3. Joined(r, p) \in Seq(X)
        BY <4>1, JoinedAt
      <4> QED BY <4>2, <4>3 DEF a
    <3>7. Extends(j + 1)
      BY <3>3, <3>4, <3>6
    <3> HIDE DEF Extends
    <3> QED BY <2>1, <3>7
  <2>3. CASE ~(k + (j + 1) <= n)
    <3> HIDE DEF Extends
    <3> QED BY <2>1, <2>3
  <2> QED BY <2>2, <2>3
<1>5. S = Nat
  <2> HIDE DEF S
  <2> QED BY <1>3, <1>4, NatSetInduction, S \subseteq Nat DEF S
<1> DEFINE m == n - k
<1>6. m \in Nat /\ k + m = n
  BY <1>1, <1>2
<1> HIDE DEF m
<1>7. Extends(m)
  <2>1. m \in S
    <3> HIDE DEF S
    <3> QED BY <1>5, <1>6
  <2> HIDE DEF Extends
  <2> QED BY <1>1, <1>6, <2>1
<1> QED BY <1>6, <1>7 DEF n

(* Sequences of characters: when two are the same, and what is where in    *)
(* one that is put together.                                               *)
LEMMA SameChars ==
  ASSUME NEW u \in Seq(Chars), NEW r \in Seq(Chars), Len(u) = Len(r), \A j \in 1..Len(r) : u[j] = r[j]
  PROVE  u = r
OBVIOUS

LEMMA BehindChars ==
  ASSUME NEW b \in Seq(Chars), NEW p \in Seq(Chars)
  PROVE  /\ Joined(b, p) \in Seq(Chars) /\ Len(Joined(b, p)) = Len(b) + Len(p)
         /\ \A j \in 1..Len(b) : Joined(b, p)[j] = b[j]
         /\ \A j \in 1..Len(p) : Joined(b, p)[Len(b) + j] = p[j]
BY DEF Joined

LEMMA BehindOne ==
  ASSUME NEW v \in Seq(Chars), NEW x \in Chars
  PROVE  /\ Joined(v, <<x>>) \in Seq(Chars) /\ Len(Joined(v, <<x>>)) = Len(v) + 1
         /\ \A i \in 1..Len(v) : Joined(v, <<x>>)[i] = v[i]
         /\ Joined(v, <<x>>)[Len(v) + 1] = x
BY DEF Joined

(* Collapsing undoes doubling.                                             *)
LEMMA CollapsedIs ==
  ASSUME NEW c \in Seq(Chars)
  PROVE  Collapsed(Doubled(c)) = c
<1> DEFINE t == Pairs(c)
           n == Len(c)
           d == Doubled(c)
           f == Passed(d)
           out == [k \in 1..Len(d) |-> IF f[k] THEN << >> ELSE <<d[k]>>]
<1>1. t \in Seq(Seq(Chars)) /\ Len(t) = n /\ d = FlattenSeq(t) /\ n \in Nat
      /\ \A k \in 1..n : t[k] = IF c[k] = "quote" THEN <<"quote", "quote">> ELSE <<c[k]>>
  BY PairsAre
<1> HIDE DEF t
<1>2. PICK h : Flattens(h, t, Chars)
  BY <1>1, FlattenExists
<1>3. d = h[n]
  BY <1>1, <1>2, Flattened
<1>4. \A k \in 1..n : t[k] \in Seq(Chars) /\ h[k] = Joined(h[k-1], t[k])
  BY <1>1, <1>2, FlattensAt
<1>5. h[0] = << >> /\ \A k \in 0..n : h[k] \in Seq(Chars)
  BY <1>1, <1>2, FlattensAt
<1>6. \A k \in 0..n : \E r \in Seq(Chars) : h[n] = Joined(h[k], r)
  <2> HIDE DEF d, n
  <2> QED BY <1>1, <1>2, FlattenPrefix
<1>7. d \in Seq(Chars) /\ Len(d) \in Nat /\ \A k \in 1..Len(d) : d[k] \in Chars
  <2>1. d \in Seq(Chars)
    BY DoubledIsInner
  <2> HIDE DEF d
  <2> QED BY <2>1
<1> HIDE DEF d
<1>8. /\ f[0] = FALSE
      /\ \A k \in 1..Len(d) : f[k] = (k < Len(d) /\ f[k-1] = FALSE /\ d[k] = "quote" /\ d[k+1] = "quote")
  BY <1>7, PassedIs
<1> HIDE DEF f
<1>9. out \in Seq(Seq(Chars)) /\ Len(out) = Len(d)
      /\ \A k \in 1..Len(d) : out[k] = IF f[k] THEN << >> ELSE <<d[k]>>
  <2>1. \A k \in 1..Len(d) : (IF f[k] THEN << >> ELSE <<d[k]>>) \in Seq(Chars)
    BY <1>7
  <2> QED BY <1>7, <2>1
<1>10. Collapsed(d) = FlattenSeq(out)
  BY DEF Collapsed, f
<1> HIDE DEF out
<1>11. PICK g : Flattens(g, out, Chars)
  BY <1>9, FlattenExists
<1>12. Collapsed(d) = g[Len(d)]
  BY <1>9, <1>10, <1>11, Flattened
<1>13. \A k \in 1..Len(d) : g[k] = Joined(g[k-1], out[k])
  BY <1>9, <1>11, FlattensAt
<1>14. g[0] = << >>
  BY <1>9, <1>11, FlattensAt
<1> DEFINE Restored(k) == /\ f[Len(h[k])] = FALSE
                          /\ g[Len(h[k])] \in Seq(Chars) /\ Len(g[Len(h[k])]) = k
                          /\ \A i \in 1..k : g[Len(h[k])][i] = c[i]
           S == {k \in Nat : k <= n => Restored(k)}
<1> HIDE DEF n
<1>15. 0 \in S
  <2>1. Len(h[0]) = 0 /\ g[0] \in Seq(Chars) /\ Len(g[0]) = 0 /\ 1..0 = {}
    BY <1>5, <1>14
  <2> QED BY <1>8, <2>1
<1>16. ASSUME NEW k \in S PROVE k + 1 \in S
  <2>1. k \in Nat
    OBVIOUS
  <2>2. CASE k + 1 <= n
    <3> DEFINE e == Len(h[k])
               v == g[e]
               x == c[k + 1]
    <3>1. k + 1 \in 1..n /\ (k + 1) - 1 = k /\ k \in 0..n /\ k + 1 \in 0..n /\ k <= n
      <4> HIDE DEF Restored
      <4> QED BY <1>1, <2>1, <2>2
    <3>2. f[e] = FALSE /\ v \in Seq(Chars) /\ Len(v) = k /\ \A i \in 1..k : v[i] = c[i]
      <4>1. Restored(k)
        <5> HIDE DEF Restored
        <5> QED BY <1>16, <3>1
      <4> QED BY <4>1
    <3>3. h[k] \in Seq(Chars) /\ t[k + 1] \in Seq(Chars) /\ h[k + 1] = Joined(h[k], t[k + 1])
      BY <1>4, <1>5, <3>1
    <3>4. x \in Chars /\ t[k + 1] = IF x = "quote" THEN <<"quote", "quote">> ELSE <<x>>
      BY <1>1, <3>1 DEF n
    <3>5. PICK r \in Seq(Chars) : d = Joined(h[k + 1], r)
      BY <1>3, <1>6, <3>1
    <3>6. e \in Nat
      BY <3>3
    <3>7. /\ h[k + 1] \in Seq(Chars) /\ Len(h[k + 1]) = e + Len(t[k + 1]) /\ Len(h[k + 1]) <= Len(d)
          /\ \A j \in 1..Len(t[k + 1]) : d[e + j] = t[k + 1][j]
      <4> DEFINE p == t[k + 1]
                 a == h[k + 1]
      <4>1. /\ a \in Seq(Chars) /\ Len(a) = e + Len(p)
            /\ \A j \in 1..Len(p) : a[e + j] = p[j]
        <5> DEFINE b == h[k]
        <5>1. b \in Seq(Chars) /\ p \in Seq(Chars) /\ a = Joined(b, p) /\ e = Len(b)
          BY <3>3
        <5> HIDE DEF a, b, p, e
        <5>2. /\ Joined(b, p) \in Seq(Chars) /\ Len(Joined(b, p)) = Len(b) + Len(p)
              /\ \A j \in 1..Len(p) : Joined(b, p)[Len(b) + j] = p[j]
          BY <5>1, BehindChars
        <5> QED BY <5>1, <5>2
      <4>2. Len(d) = Len(a) + Len(r) /\ \A j \in 1..Len(a) : d[j] = a[j]
        <5>1. d = Joined(a, r) /\ a \in Seq(Chars)
          BY <3>5, <4>1
        <5> HIDE DEF a
        <5> QED BY <5>1, BehindChars
      <4>3. Len(p) \in Nat /\ Len(r) \in Nat
        BY <3>3
      <4> HIDE DEF a, p, e
      <4>4. \A j \in 1..Len(p) : e + j \in 1..Len(a)
        BY <3>6, <4>1, <4>3
      <4>5. \A j \in 1..Len(p) : d[e + j] = p[j]
        BY <4>1, <4>2, <4>4
      <4>6. Len(a) <= Len(d)
        BY <3>6, <4>1, <4>2, <4>3
      <4> QED BY <4>1, <4>5, <4>6 DEF a, p
    <3> HIDE DEF x
    <3>8. /\ Joined(v, <<x>>) \in Seq(Chars) /\ Len(Joined(v, <<x>>)) = k + 1
          /\ \A i \in 1..(k + 1) : Joined(v, <<x>>)[i] = c[i]
      <4>1. v \in Seq(Chars) /\ x \in Chars
        BY <3>2, <3>4
      <4>2. /\ Joined(v, <<x>>) \in Seq(Chars) /\ Len(Joined(v, <<x>>)) = Len(v) + 1
            /\ \A i \in 1..Len(v) : Joined(v, <<x>>)[i] = v[i]
            /\ Joined(v, <<x>>)[Len(v) + 1] = x
        <5> HIDE DEF v
        <5> QED BY <4>1, BehindOne
      <4> DEFINE w == Joined(v, <<x>>)
      <4> HIDE DEF w, v
      <4>3. \A i \in 1..(k + 1) : i \in 1..k \/ i = k + 1
        BY <2>1
      <4>4. w \in Seq(Chars) /\ Len(w) = k + 1 /\ (\A i \in 1..k : w[i] = v[i]) /\ w[k + 1] = x
        BY <3>2, <4>2 DEF w
      <4>5. \A i \in 1..(k + 1) : w[i] = c[i]
        BY <3>2, <4>3, <4>4 DEF x
      <4> QED BY <4>4, <4>5 DEF w
    <3>9. ASSUME f[Len(h[k + 1])] = FALSE, g[Len(h[k + 1])] = Joined(v, <<x>>) PROVE k + 1 \in S
      <4>1. Restored(k + 1)
        BY <3>8, <3>9
      <4> HIDE DEF Restored
      <4> QED BY <2>1, <4>1
    <3>10. CASE x = "quote"
      <4>1. Len(t[k + 1]) = 2 /\ t[k + 1][1] = "quote" /\ t[k + 1][2] = "quote" /\ 1 \in 1..2 /\ 2 \in 1..2
        BY <3>4, <3>10
      <4>2. Len(h[k + 1]) = e + 2 /\ e + 2 <= Len(d) /\ d[e + 1] = "quote" /\ d[e + 2] = "quote"
        BY <3>7, <4>1
      <4> HIDE DEF e
      <4>3. e + 1 \in 1..Len(d) /\ e + 2 \in 1..Len(d) /\ (e + 1) - 1 = e /\ (e + 2) - 1 = e + 1
            /\ (e + 1) + 1 = e + 2 /\ e + 1 < Len(d)
        BY <1>7, <3>6, <4>2
      <4>4. f[e + 1] = TRUE
        BY <1>8, <3>2, <4>2, <4>3
      <4>5. f[e + 2] = FALSE
        BY <1>8, <4>3, <4>4
      <4>6. out[e + 1] = << >> /\ out[e + 2] = <<x>>
        BY <1>9, <3>10, <4>2, <4>3, <4>4, <4>5
      <4>7. g[e + 1] = Joined(v, << >>) /\ g[e + 2] = Joined(g[e + 1], <<x>>)
        BY <1>13, <4>3, <4>6
      <4>8. g[e + 2] = Joined(v, <<x>>)
        BY <3>2, <4>7, JoinedAt
      <4> QED BY <3>9, <4>2, <4>5, <4>8
    <3>11. CASE x # "quote"
      <4>1. Len(t[k + 1]) = 1 /\ t[k + 1][1] = x /\ 1 \in 1..1
        BY <3>4, <3>11
      <4>2. Len(h[k + 1]) = e + 1 /\ e + 1 <= Len(d) /\ d[e + 1] = x
        BY <3>7, <4>1
      <4> HIDE DEF e
      <4>3. e + 1 \in 1..Len(d) /\ (e + 1) - 1 = e
        BY <1>7, <3>6, <4>2
      <4>4. f[e + 1] = FALSE
        BY <1>8, <3>11, <4>2, <4>3
      <4>5. out[e + 1] = <<x>>
        BY <1>9, <4>2, <4>3, <4>4
      <4>6. g[e + 1] = Joined(v, <<x>>)
        BY <1>13, <4>3, <4>5
      <4> QED BY <3>9, <4>2, <4>4, <4>6
    <3> QED BY <3>10, <3>11
  <2>3. CASE ~(k + 1 <= n)
    <3> HIDE DEF Restored
    <3> QED BY <2>1, <2>3
  <2> QED BY <2>2, <2>3
<1>17. S = Nat
  <2> HIDE DEF S
  <2> QED BY <1>15, <1>16, NatSetInduction, S \subseteq Nat DEF S
<1>18. Restored(n)
  <2> HIDE DEF Restored
  <2> QED BY <1>1, <1>17
<1>19. g[Len(d)] \in Seq(Chars) /\ Len(g[Len(d)]) = n /\ \A i \in 1..n : g[Len(d)][i] = c[i]
  BY <1>3, <1>18
<1>20. g[Len(d)] = c
  <2> DEFINE w == g[Len(d)]
  <2>1. w \in Seq(Chars) /\ Len(w) = Len(c) /\ \A i \in 1..Len(c) : w[i] = c[i]
    BY <1>19 DEF n
  <2> HIDE DEF w
  <2>2. w = c
    BY <2>1, SameChars
  <2> QED BY <2>2 DEF w
<1> QED BY <1>12, <1>20 DEF d

----------------------------------------------------------------------------
(* The cells of a line: one cell.                                          *)

LEMMA LeastIs ==
  ASSUME NEW T \in SUBSET Nat, NEW x \in T, \A y \in T : x <= y
  PROVE  Min(T) = x
<1>1. Min(T) \in T /\ Min(T) <= x /\ x <= Min(T)
  BY LeastOf
<1>2. Min(T) \in Nat /\ x \in Nat
  BY <1>1
<1> QED BY <1>1, <1>2

LEMMA GreatestIs ==
  ASSUME NEW n \in Nat, NEW T \in SUBSET (0..n), NEW x \in T, \A y \in T : y <= x
  PROVE  Max(T) = x
<1>1. Max(T) \in T /\ Max(T) <= x /\ x <= Max(T)
  BY GreatestOf
<1>2. Max(T) \in Nat /\ x \in Nat
  <2>1. \A y \in T : y \in 0..n
    OBVIOUS
  <2>2. \A y \in 0..n : y \in Nat
    OBVIOUS
  <2> QED BY <1>1, <2>1, <2>2
<1> QED BY <1>1, <1>2

(* The elements of a part of one.                                          *)
LEMMA CharsOf ==
  ASSUME NEW s \in Seq(Chars), NEW i \in Nat, NEW k \in Nat, i >= 1, k <= Len(s), i <= k + 1
  PROVE  /\ SubSeq(s, i, k) \in Seq(Chars) /\ Len(SubSeq(s, i, k)) = (k - i) + 1
         /\ \A j \in 1..((k - i) + 1) : SubSeq(s, i, k)[j] = s[(i + j) - 1]
OBVIOUS

Ended(m) == m # << >> => m[1] # "space" /\ m[Len(m)] # "space"
Spaces(s) == s = << >> \/ s = <<"space">>

LEMMA SpacesAre ==
  ASSUME NEW s, Spaces(s)
  PROVE  /\ s \in Seq(Chars) /\ Len(s) \in Nat /\ \A j \in 1..Len(s) : s[j] = "space"
         /\ Shut(s)
<1>1. CASE s = << >>
  BY <1>1, NothingShut
<1>2. CASE s = <<"space">>
  <2>1. "space" \in Chars
    BY DEF Chars
  <2>2. <<"space">> \in Seq(Chars) /\ Len(<<"space">>) = 1 /\ Opened(<<"space">>)[1] = FALSE
    BY <2>1, OpenedOne
  <2>3. \A j \in 1..1 : <<"space">>[j] = "space"
    OBVIOUS
  <2> QED BY <1>2, <2>2, <2>3 DEF Shut
<1> QED BY <1>1, <1>2 DEF Spaces

(* Spaces around what has none at its ends are taken off.                  *)
LEMMA TrimmedIs ==
  ASSUME NEW m \in Seq(Chars), Ended(m), NEW lead, NEW trail, Spaces(lead), Spaces(trail)
  PROVE  Trimmed(lead \o m \o trail) = m
<1> DEFINE a == lead \o m
           s == a \o trail
           l == Len(lead)
           n == Len(m)
           inner == {k \in 1..Len(s) : s[k] # "space"}
<1>1. /\ lead \in Seq(Chars) /\ l \in Nat /\ \A j \in 1..l : lead[j] = "space"
      /\ trail \in Seq(Chars) /\ Len(trail) \in Nat /\ \A j \in 1..Len(trail) : trail[j] = "space"
      /\ n \in Nat
  BY SpacesAre
<1>2. /\ a \in Seq(Chars) /\ Len(a) = l + n
      /\ \A j \in 1..l : a[j] = "space"
      /\ \A j \in 1..n : a[l + j] = m[j]
  BY <1>1, CharsBehind
<1>3. /\ s \in Seq(Chars) /\ Len(s) = l + n + Len(trail)
      /\ \A j \in 1..(l + n) : s[j] = a[j]
      /\ \A j \in 1..Len(trail) : s[l + n + j] = "space"
  <2> HIDE DEF a
  <2>1. /\ s \in Seq(Chars) /\ Len(s) = Len(a) + Len(trail)
        /\ \A j \in 1..Len(a) : s[j] = a[j]
        /\ \A j \in 1..Len(trail) : s[Len(a) + j] = trail[j]
    BY <1>1, <1>2, CharsBehind
  <2> QED BY <1>1, <1>2, <2>1
<1> HIDE DEF a, s, l, n
<1>4. /\ \A j \in 1..l : s[j] = "space"
      /\ \A j \in 1..n : s[l + j] = m[j]
  <2>1. /\ \A j \in 1..l : j \in 1..(l + n)
        /\ \A j \in 1..n : l + j \in 1..(l + n)
    BY <1>1
  <2> QED BY <1>2, <1>3, <2>1
<1>5. ASSUME NEW k \in 1..Len(s), s[k] # "space" PROVE k >= l + 1 /\ k <= l + n
  <2>1. k > l
    BY <1>1, <1>3, <1>4, <1>5
  <2>2. ASSUME k > l + n PROVE FALSE
    <3> DEFINE j == k - (l + n)
    <3>1. j \in 1..Len(trail) /\ k = l + n + j
      BY <1>1, <1>3, <2>2
    <3> HIDE DEF j
    <3> QED BY <1>3, <1>5, <3>1
  <2> QED BY <1>1, <1>3, <2>1, <2>2
<1>6. CASE m = << >>
  <2>1. n = 0
    BY <1>6 DEF n
  <2>2. inner = {}
    BY <1>1, <1>5, <2>1
  <2>3. Trimmed(s) = << >>
    BY <2>2 DEF Trimmed
  <2> QED BY <1>6, <2>3 DEF s, a
<1>7. CASE m # << >>
  <2>1. n >= 1 /\ m[1] # "space" /\ m[n] # "space"
    BY <1>7 DEF Ended, n
  <2>2. 1 \in 1..n /\ n \in 1..n /\ l + 1 \in 1..Len(s) /\ l + n \in 1..Len(s)
    BY <1>1, <1>3, <2>1
  <2>3. l + 1 \in inner /\ l + n \in inner
    BY <1>4, <2>1, <2>2
  <2>4. inner \subseteq 0..Len(s) /\ Len(s) \in Nat /\ inner \subseteq Nat
    BY <1>1, <1>3
  <2>5. \A k \in inner : l + 1 <= k /\ k <= l + n
    <3> TAKE k \in inner
    <3>1. k \in 1..Len(s) /\ s[k] # "space"
      OBVIOUS
    <3>2. k >= l + 1 /\ k <= l + n
      BY <1>5, <3>1
    <3> QED BY <1>1, <1>3, <3>1, <3>2
  <2>6. Trimmed(s) = SubSeq(s, Min(inner), Max(inner))
    BY <2>3 DEF Trimmed
  <2> HIDE DEF inner
  <2>7. Min(inner) = l + 1
    BY <2>3, <2>4, <2>5, LeastIs
  <2>8. Max(inner) = l + n
    BY <2>3, <2>4, <2>5, GreatestIs
  <2> DEFINE r == SubSeq(s, l + 1, l + n)
  <2>9. r \in Seq(Chars) /\ Len(r) = n /\ \A j \in 1..n : r[j] = s[l + j]
    BY <1>1, <1>3, <2>1
  <2> HIDE DEF r
  <2>10. r = m
    <3>1. \A j \in 1..n : r[j] = m[j]
      BY <1>4, <2>9
    <3>2. Len(r) = Len(m)
      BY <2>9 DEF n
    <3> QED BY <2>9, <3>1, <3>2, SameChars DEF n
  <2> QED BY <2>6, <2>7, <2>8, <2>10 DEF r, s, a
<1> QED BY <1>6, <1>7

\* Separators only where the policy for quotes passes them.
Together(w) == IF quoting THEN Shut(w) ELSE \A j \in 1..Len(w) : w[j] # "sep"

(* The first column ends where the first separator is that no quote holds. *)
LEMMA ColumnIs ==
  ASSUME NEW w \in Seq(Chars), Together(w), NEW tail \in Seq(Chars),
         tail # << >> => tail[1] = "sep", quoting \in BOOLEAN
  PROVE  LET s == w \o tail
         IN  /\ Column(s) = w
             /\ ~(Column(s) = s /\ Open(s, Len(s)))
             /\ (Column(s) # s) <=> (tail # << >>)
             /\ SubSeq(s, Len(w) + 2, Len(s)) = SubSeq(tail, 2, Len(tail))
<1> DEFINE s == w \o tail
           n == Len(w)
           m == Len(tail)
           ends == {k \in 1..Len(s) : s[k] = "sep" /\ ~Open(s, k)}
<1>1. /\ s \in Seq(Chars) /\ Len(s) = n + m /\ n \in Nat /\ m \in Nat
      /\ \A j \in 1..n : s[j] = w[j]
      /\ \A j \in 1..m : s[n + j] = tail[j]
  BY CharsBehind
<1>2. \A j \in 0..n : Opened(s)[j] = Opened(w)[j]
  BY OpenedJoined
<1>3. quoting => Opened(w)[n] = FALSE /\ \A j \in 1..n : w[j] = "sep" => Opened(w)[j] = TRUE
  BY DEF Together, Shut
<1>4. ~quoting => \A j \in 1..n : w[j] # "sep"
  BY DEF Together
<1>5. (tail = << >>) <=> (m = 0)
  OBVIOUS
<1> HIDE DEF s, n, m
<1>6. \A k \in ends : k > n
  <2> SUFFICES ASSUME NEW k \in 1..Len(s), s[k] = "sep", ~Open(s, k), k <= n PROVE FALSE
    BY <1>1
  <2>1. k \in 1..n /\ k \in 0..n
    BY <1>1
  <2>2. w[k] = "sep"
    BY <1>1, <2>1
  <2>3. quoting /\ Opened(w)[k] = TRUE
    BY <1>3, <1>4, <2>1, <2>2
  <2>4. Open(s, k)
    BY <1>2, <2>1, <2>3 DEF Open
  <2> QED BY <2>4
<1>7. CASE tail = << >>
  <2>1. s = w
    BY <1>7 DEF s
  <2>2. ends = {}
    BY <1>1, <1>5, <1>6, <1>7
  <2>3. Column(s) = s
    BY <2>2 DEF Column
  <2>4. ~Open(s, Len(s))
    <3>1. n \in 0..n /\ Len(s) = n
      BY <1>1, <1>5, <1>7
    <3>2. quoting => Opened(s)[Len(s)] = FALSE
      BY <1>2, <1>3, <3>1
    <3> QED BY <3>2 DEF Open
  <2>5. SubSeq(s, n + 2, Len(s)) = SubSeq(tail, 2, m)
    <3>1. Len(s) = n /\ m = 0
      BY <1>1, <1>5, <1>7
    <3>2. SubSeq(s, n + 2, n) = << >> /\ SubSeq(tail, 2, 0) = << >>
      BY <1>1
    <3> QED BY <3>1, <3>2
  <2> QED BY <1>7, <2>1, <2>3, <2>4, <2>5 DEF s, n, m
<1>8. CASE tail # << >>
  <2>1. m >= 1 /\ 1 \in 1..m /\ tail[1] = "sep"
    BY <1>1, <1>5, <1>8
  <2>2. n + 1 \in 1..Len(s) /\ s[n + 1] = "sep"
    BY <1>1, <2>1
  <2>3. ~Open(s, n + 1)
    <3>1. quoting => Opened(s)[n] = FALSE
      <4>1. n \in 0..n
        BY <1>1
      <4> QED BY <1>2, <1>3, <4>1
    <3>2. Opened(s)[n + 1] = Opened(s)[(n + 1) - 1]
      <4>1. \A k \in 1..Len(s) : s[k] # "quote" => Opened(s)[k] = Opened(s)[k-1]
        BY <1>1, OpenedIs
      <4> QED BY <2>2, <4>1
    <3>3. (n + 1) - 1 = n
      BY <1>1
    <3> QED BY <3>1, <3>2, <3>3 DEF Open
  <2>4. n + 1 \in ends /\ ends \subseteq Nat /\ \A k \in ends : n + 1 <= k
    BY <1>1, <1>6, <2>2, <2>3
  <2>5. Column(s) = SubSeq(s, 1, Min(ends) - 1)
    BY <2>4 DEF Column
  <2> HIDE DEF ends
  <2>6. Min(ends) = n + 1
    BY <2>4, LeastIs
  <2> DEFINE r == SubSeq(s, 1, n)
  <2>7. r \in Seq(Chars) /\ Len(r) = n /\ \A j \in 1..n : r[j] = s[j]
    BY <1>1
  <2> HIDE DEF r
  <2>8. r = w
    <3>1. Len(r) = Len(w) /\ \A j \in 1..Len(w) : r[j] = w[j]
      BY <1>1, <2>7 DEF n
    <3> QED BY <2>7, <3>1, SameChars
  <2>9. Column(s) = w
    <3>1. (n + 1) - 1 = n
      BY <1>1
    <3> QED BY <2>5, <2>6, <2>8, <3>1 DEF r
  <2>10. w # s
    BY <1>1, <2>1 DEF n
  <2>11. SubSeq(s, n + 2, Len(s)) = SubSeq(tail, 2, m)
    <3> DEFINE u == SubSeq(s, n + 2, n + m)
               v == SubSeq(tail, 2, m)
    <3>0. /\ n + 2 \in Nat /\ n + m \in Nat /\ n + 2 >= 1 /\ n + 2 <= (n + m) + 1 /\ ((n + m) - (n + 2)) + 1 = m - 1
          /\ 2 <= m + 1 /\ (m - 2) + 1 = m - 1 /\ m = Len(tail)
      BY <1>1, <2>1 DEF m
    <3>1. u \in Seq(Chars) /\ Len(u) = m - 1 /\ \A j \in 1..(m - 1) : u[j] = s[((n + 2) + j) - 1]
      <4>1. /\ u \in Seq(Chars) /\ Len(u) = ((n + m) - (n + 2)) + 1
            /\ \A j \in 1..(((n + m) - (n + 2)) + 1) : u[j] = s[((n + 2) + j) - 1]
        BY <1>1, <3>0, CharsOf
      <4> QED BY <3>0, <4>1
    <3>2. v \in Seq(Chars) /\ Len(v) = m - 1 /\ \A j \in 1..(m - 1) : v[j] = tail[(2 + j) - 1]
      <4>1. /\ v \in Seq(Chars) /\ Len(v) = (m - 2) + 1
            /\ \A j \in 1..((m - 2) + 1) : v[j] = tail[(2 + j) - 1]
        BY <1>1, <3>0, CharsOf
      <4> QED BY <3>0, <4>1
    <3>3. \A j \in 1..(m - 1) : 1 + j \in 1..m /\ ((n + 2) + j) - 1 = n + (1 + j) /\ (2 + j) - 1 = 1 + j
      BY <1>1, <2>1
    <3> HIDE DEF u, v
    <3>4. \A j \in 1..(m - 1) : u[j] = v[j]
      BY <1>1, <3>1, <3>2, <3>3
    <3>5. u = v
      <4>1. Len(u) = Len(v) /\ \A j \in 1..Len(v) : u[j] = v[j]
        BY <3>1, <3>2, <3>4
      <4> QED BY <3>1, <3>2, <4>1, SameChars
    <3> QED BY <1>1, <3>5 DEF u, v
  <2> QED BY <1>8, <2>9, <2>10, <2>11 DEF s, n, m
<1> QED BY <1>7, <1>8

(* Quotes around a doubled content are taken off and the content is as it  *)
(* was; so is what needs none, or is read without the policy for quotes.   *)
LEMMA UnquotedIs ==
  ASSUME NEW c \in Seq(Chars), quoting
  PROVE  Unescaped(Quoted(c)) = c
<1> DEFINE q == <<"quote">>
           d == Doubled(c)
           a == q \o d
           s == a \o q
           n == Len(d)
           r == SubSeq(s, 2, Len(s) - 1)
<1>1. d \in Seq(Chars) /\ Collapsed(d) = c
  BY DoubledIsInner, CollapsedIs
<1>2. q \in Seq(Chars) /\ Len(q) = 1 /\ q[1] = "quote" /\ 1 \in 1..Len(q)
  BY DEF Chars
<1>3. Quoted(c) = s
  BY DEF Quoted
<1> HIDE DEF q, d
<1>4. a \in Seq(Chars) /\ Len(a) = 1 + n /\ n \in Nat /\ a[1] = "quote" /\ \A j \in 1..n : a[1 + j] = d[j]
  <2>1. /\ a \in Seq(Chars) /\ Len(a) = Len(q) + n
        /\ \A j \in 1..Len(q) : a[j] = q[j]
        /\ \A j \in 1..n : a[Len(q) + j] = d[j]
    BY <1>1, <1>2, CharsBehind
  <2>2. n \in Nat
    BY <1>1
  <2> HIDE DEF a, n
  <2> QED BY <1>2, <2>1, <2>2
<1> HIDE DEF a, n
<1>5. /\ s \in Seq(Chars) /\ Len(s) = n + 2 /\ s[n + 2] = "quote"
      /\ \A j \in 1..(1 + n) : s[j] = a[j]
  <2>1. /\ s \in Seq(Chars) /\ Len(s) = Len(a) + Len(q)
        /\ \A j \in 1..Len(a) : s[j] = a[j]
        /\ \A j \in 1..Len(q) : s[Len(a) + j] = q[j]
    BY <1>2, <1>4, CharsBehind
  <2>2. (1 + n) + 1 = n + 2
    BY <1>4
  <2> HIDE DEF s
  <2> QED BY <1>2, <1>4, <2>1, <2>2
<1> HIDE DEF s
<1>6. s[1] = "quote" /\ Len(s) >= 2 /\ Len(s) - 1 = n + 1
  <2>1. 1 \in 1..(1 + n)
    BY <1>4
  <2> QED BY <1>4, <1>5, <2>1
<1>7. r \in Seq(Chars) /\ Len(r) = n /\ \A j \in 1..n : r[j] = s[1 + j]
  <2>1. 2 \in Nat /\ n + 1 \in Nat /\ 2 >= 1 /\ n + 1 <= Len(s) /\ 2 <= (n + 1) + 1 /\ ((n + 1) - 2) + 1 = n
    BY <1>4, <1>5
  <2>2. /\ r \in Seq(Chars) /\ Len(r) = ((n + 1) - 2) + 1
        /\ \A j \in 1..(((n + 1) - 2) + 1) : r[j] = s[(2 + j) - 1]
    BY <1>5, <1>6, <2>1, CharsOf
  <2>3. \A j \in 1..n : (2 + j) - 1 = 1 + j
    BY <1>4
  <2> HIDE DEF r
  <2> QED BY <2>1, <2>2, <2>3
<1> HIDE DEF r
<1>8. r = d
  <2>1. \A j \in 1..n : 1 + j \in 1..(1 + n)
    BY <1>4
  <2>2. \A j \in 1..n : r[j] = d[j]
    BY <1>4, <1>5, <1>7, <2>1
  <2>3. Len(r) = Len(d)
    BY <1>7 DEF n
  <2>4. \A j \in 1..Len(d) : r[j] = d[j]
    BY <2>2 DEF n
  <2> QED BY <1>1, <1>7, <2>3, <2>4, SameChars
<1>9. Unescaped(s) = Collapsed(r)
  BY <1>5, <1>6 DEF Unescaped, r
<1> QED BY <1>1, <1>3, <1>8, <1>9

\* What is written of a content: no separator is taken for one of the line,
\* no space at its ends for one around it, and it is read as the content.
Readable(m, c) == m \in Seq(Chars) /\ Together(m) /\ Ended(m) /\ Unescaped(m) = c

LEMMA WrittenIs ==
  ASSUME NEW c \in Seq(Chars), quoting \in BOOLEAN, quoting \/ Plain(c), NEW m \in Written(c, quoting)
  PROVE  Readable(m, c)
<1>1. (quoting /\ m = Quoted(c)) \/ (Plain(c) /\ m = c)
  BY DEF Written
<1>2. CASE quoting /\ m = Quoted(c)
  <2>1. Doubled(c) \in Seq(Chars) /\ Inner(Doubled(c))
    BY DoubledIsInner
  <2>2. m \in Seq(Chars) /\ Shut(m)
    BY <1>2, <2>1, QuotesShut DEF Quoted
  <2>3. Ended(m)
    <3> DEFINE q == <<"quote">>
               d == Doubled(c)
               a == q \o d
    <3>1. q \in Seq(Chars) /\ Len(q) = 1 /\ q[1] = "quote" /\ 1 \in 1..Len(q)
      BY DEF Chars
    <3>2. m = a \o q
      BY <1>2 DEF Quoted
    <3>3. d \in Seq(Chars)
      BY <2>1
    <3> HIDE DEF q, d
    <3>4. a \in Seq(Chars) /\ Len(a) \in Nat /\ Len(a) >= 1 /\ a[1] = "quote"
      <4>1. a \in Seq(Chars) /\ Len(a) = Len(q) + Len(d) /\ \A j \in 1..Len(q) : a[j] = q[j]
        BY <3>1, <3>3, CharsBehind
      <4>2. Len(d) \in Nat
        BY <3>3
      <4> HIDE DEF a
      <4> QED BY <3>1, <4>1, <4>2
    <3> HIDE DEF a
    <3>5. /\ Len(m) = Len(a) + Len(q) /\ (\A j \in 1..Len(a) : m[j] = a[j])
          /\ \A j \in 1..Len(q) : m[Len(a) + j] = q[j]
      BY <3>1, <3>2, <3>4, CharsBehind
    <3>6. 1 \in 1..Len(a)
      BY <3>4
    <3>7. m[1] = "quote" /\ m[Len(m)] = "quote"
      BY <3>1, <3>4, <3>5, <3>6
    <3> QED BY <3>7 DEF Ended
  <2> QED BY <1>2, <2>2, <2>3, UnquotedIs DEF Readable, Together
<1>3. CASE Plain(c) /\ m = c
  <2>1. Shut(c) /\ \A j \in 1..Len(c) : c[j] # "sep" /\ c[j] # "quote"
    BY <1>3, PlainShut
  <2>2. Together(c)
    BY <2>1 DEF Together
  <2>3. Ended(c)
    BY <1>3 DEF Plain, Ended
  <2>4. Len(c) >= 2 => c[1] # "quote"
    <3>1. Len(c) >= 2 => 1 \in 1..Len(c)
      OBVIOUS
    <3> QED BY <2>1, <3>1
  <2>5. Unescaped(c) = c
    BY <2>4 DEF Unescaped
  <2> QED BY <1>3, <2>2, <2>3, <2>5 DEF Readable
<1> QED BY <1>1, <1>2, <1>3

LEMMA TogetherBehind ==
  ASSUME NEW a \in Seq(Chars), NEW b \in Seq(Chars), Together(a), Together(b)
  PROVE  a \o b \in Seq(Chars) /\ Together(a \o b)
<1>1. a \o b \in Seq(Chars)
  BY CharsBehind
<1>2. CASE quoting
  BY <1>1, <1>2, BothShut DEF Together
<1>3. CASE ~quoting
  <2> DEFINE s == a \o b
             m == Len(a)
             n == Len(b)
  <2>1. /\ Len(s) = m + n /\ m \in Nat /\ n \in Nat
        /\ \A j \in 1..m : s[j] = a[j]
        /\ \A j \in 1..n : s[m + j] = b[j]
    BY CharsBehind
  <2>2. (\A j \in 1..m : a[j] # "sep") /\ \A j \in 1..n : b[j] # "sep"
    BY <1>3 DEF Together
  <2> HIDE DEF s, m, n
  <2>3. ASSUME NEW j \in 1..Len(s) PROVE s[j] # "sep"
    <3>1. CASE j <= m
      <4>1. j \in 1..m
        BY <2>1, <3>1
      <4> QED BY <2>1, <2>2, <4>1
    <3>2. CASE ~(j <= m)
      <4> DEFINE i == j - m
      <4>1. i \in 1..n /\ j = m + i
        BY <2>1, <3>2
      <4> HIDE DEF i
      <4> QED BY <2>1, <2>2, <4>1
    <3> QED BY <3>1, <3>2
  <2> QED BY <1>1, <1>3, <2>3 DEF Together, s
<1> QED BY <1>2, <1>3

(* However a cell is written, it holds its column together and its content *)
(* is what is read.                                                        *)
LEMMA CellReadBack ==
  ASSUME NEW c \in Seq(Chars), quoting \in BOOLEAN, quoting \/ Plain(c), NEW w \in Padded(c, quoting)
  PROVE  w \in Seq(Chars) /\ Together(w) /\ CellOf(w) = c
<1>1. PICK lead \in {<< >>, <<"space">>}, trail \in {<< >>, <<"space">>}, m \in Written(c, quoting) :
        w = lead \o m \o trail
  BY DEF Padded
<1>2. Readable(m, c)
  BY WrittenIs
<1>3. Spaces(lead) /\ Spaces(trail)
  BY DEF Spaces
<1>4. \A s : Spaces(s) => s \in Seq(Chars) /\ Together(s)
  <2> TAKE s
  <2> HAVE Spaces(s)
  <2>1. s \in Seq(Chars) /\ Shut(s) /\ \A j \in 1..Len(s) : s[j] # "sep"
    BY SpacesAre
  <2> QED BY <2>1 DEF Together
<1>5. lead \o m \in Seq(Chars) /\ Together(lead \o m)
  BY <1>2, <1>3, <1>4, TogetherBehind DEF Readable
<1>6. w \in Seq(Chars) /\ Together(w)
  BY <1>1, <1>3, <1>4, <1>5, TogetherBehind
<1>7. Trimmed(w) = m
  BY <1>1, <1>2, <1>3, TrimmedIs DEF Readable
<1> QED BY <1>2, <1>6, <1>7 DEF CellOf, Readable

----------------------------------------------------------------------------
(* The cells of a line: the whole line.                                    *)

LEMMA JoinedCancels ==
  ASSUME NEW a \in Seq(Chars), NEW b \in Seq(Chars), NEW c \in Seq(Chars), Joined(a, b) = Joined(a, c)
  PROVE  b = c
<1>1. /\ Len(Joined(a, b)) = Len(a) + Len(b)
      /\ \A j \in 1..Len(b) : Joined(a, b)[Len(a) + j] = b[j]
  BY BehindChars
<1>2. /\ Len(Joined(a, c)) = Len(a) + Len(c)
      /\ \A j \in 1..Len(c) : Joined(a, c)[Len(a) + j] = c[j]
  BY BehindChars
<1>3. Len(a) \in Nat /\ Len(b) \in Nat /\ Len(c) \in Nat
  OBVIOUS
<1>4. Len(b) = Len(c)
  BY <1>1, <1>2, <1>3
<1>5. \A j \in 1..Len(b) : b[j] = c[j]
  BY <1>1, <1>2, <1>4
<1> QED BY <1>4, <1>5, SameChars

\* Cells and the separators between them.
Pieces(cell, n) == [k \in 1..2 * n - 1 |-> IF k % 2 = 0 THEN <<"sep">> ELSE cell[(k + 1) \div 2]]

LEMMA PiecesAre ==
  ASSUME NEW n \in Nat, n >= 1, NEW cell, \A k \in 1..n : cell[k] \in Seq(Chars)
  PROVE  /\ Pieces(cell, n) \in Seq(Seq(Chars)) /\ Len(Pieces(cell, n)) = 2 * n - 1
         /\ \A k \in 1..n : Pieces(cell, n)[2 * k - 1] = cell[k]
         /\ \A k \in 1..(n - 1) : Pieces(cell, n)[2 * k] = <<"sep">>
<1> DEFINE t == Pieces(cell, n)
           m == 2 * n - 1
<1>1. m \in Nat
  OBVIOUS
<1>2. ASSUME NEW k \in 1..m
      PROVE  (IF k % 2 = 0 THEN <<"sep">> ELSE cell[(k + 1) \div 2]) \in Seq(Chars)
  <2>1. <<"sep">> \in Seq(Chars)
    BY DEF Chars
  <2>2. (k + 1) \div 2 \in 1..n
    OBVIOUS
  <2> QED BY <2>1, <2>2
<1>3. t \in [1..m -> Seq(Chars)] /\ \A k \in 1..m : t[k] = IF k % 2 = 0 THEN <<"sep">> ELSE cell[(k + 1) \div 2]
  BY <1>2 DEF Pieces
<1>4. t \in Seq(Seq(Chars)) /\ Len(t) = m
  <2> HIDE DEF t, m
  <2> QED BY <1>1, <1>3
<1>5. \A k \in 1..n : 2 * k - 1 \in 1..m /\ (2 * k - 1) % 2 # 0 /\ ((2 * k - 1) + 1) \div 2 = k
  OBVIOUS
<1>6. \A k \in 1..(n - 1) : 2 * k \in 1..m /\ (2 * k) % 2 = 0
  OBVIOUS
<1> HIDE DEF t, m
<1>7. \A k \in 1..n : t[2 * k - 1] = cell[k]
  <2> TAKE k \in 1..n
  <2> DEFINE i == 2 * k - 1
  <2>1. i \in 1..m /\ i % 2 # 0 /\ (i + 1) \div 2 = k
    BY <1>5
  <2> HIDE DEF i
  <2>2. t[i] = cell[k]
    BY <1>3, <2>1
  <2> QED BY <2>2 DEF i
<1>8. \A k \in 1..(n - 1) : t[2 * k] = <<"sep">>
  <2> TAKE k \in 1..(n - 1)
  <2> DEFINE i == 2 * k
  <2>1. i \in 1..m /\ i % 2 = 0
    BY <1>6
  <2> HIDE DEF i
  <2>2. t[i] = <<"sep">>
    BY <1>3, <2>1
  <2> QED BY <2>2 DEF i
<1> QED BY <1>4, <1>7, <1>8 DEF t, m

\* What is left of a line when g of its n cells are taken: the next cell, and
\* behind it a separator and what is left then, unless it is the last.
Follows(s, cell, h, n, g) ==
  \E tail \in Seq(Chars) :
    /\ s = cell[g + 1] \o tail
    /\ g + 1 = n => tail = << >>
    /\ g + 1 < n => /\ tail # << >> /\ tail[1] = "sep"
                    /\ SubSeq(tail, 2, Len(tail)) \in Seq(Chars)
                    /\ h[2 * n - 1] = Joined(h[2 * (g + 1)], SubSeq(tail, 2, Len(tail)))

(* The rest of a line begins with the next cell, and a separator is behind *)
(* it unless it is the last.                                               *)
LEMMA RestOfLine ==
  ASSUME NEW n \in Nat, NEW cell, \A k \in 1..n : cell[k] \in Seq(Chars),
         NEW h, Flattens(h, Pieces(cell, n), Chars),
         NEW g \in Nat, g < n, NEW s \in Seq(Chars), h[2 * n - 1] = Joined(h[2 * g], s)
  PROVE  Follows(s, cell, h, n, g)
<1> DEFINE t == Pieces(cell, n)
           m == 2 * n - 1
           w == cell[g + 1]
           i == 2 * g
<1>1. n >= 1 /\ m \in Nat /\ i \in 0..m /\ i + 1 \in 0..m /\ i + 1 \in 1..m /\ g + 1 \in 1..n
  OBVIOUS
<1>2. t \in Seq(Seq(Chars)) /\ Len(t) = m /\ (\A k \in 1..n : t[2 * k - 1] = cell[k])
      /\ \A k \in 1..(n - 1) : t[2 * k] = <<"sep">>
  BY <1>1, PiecesAre
<1>3. w \in Seq(Chars)
  BY <1>1
<1>4. t[i + 1] = w
  <2>1. t[2 * (g + 1) - 1] = cell[g + 1]
    BY <1>1, <1>2
  <2>2. 2 * (g + 1) - 1 = i + 1
    OBVIOUS
  <2> QED BY <2>1, <2>2
<1>5. g + 1 = n => m = i + 1
  OBVIOUS
<1>6. g + 1 < n => t[i + 2] = <<"sep">> /\ i + 2 \in 1..m /\ i + 2 \in 0..m /\ 2 * (g + 1) = i + 2 /\ (i + 2) - 1 = i + 1
  <2>1. g + 1 < n => g + 1 \in 1..(n - 1) /\ 2 * (g + 1) = i + 2 /\ i + 2 \in 1..m /\ i + 2 \in 0..m /\ (i + 2) - 1 = i + 1
    OBVIOUS
  <2> HIDE DEF t, i, m
  <2> QED BY <1>2, <2>1
<1>7. Flattens(h, t, Chars) /\ h[m] = Joined(h[i], s)
  OBVIOUS
<1> HIDE DEF t, m, w, i
<1>8. (\A k \in 0..m : h[k] \in Seq(Chars)) /\ \A k \in 1..m : h[k] = Joined(h[k-1], t[k])
  BY <1>2, <1>7, FlattensAt
<1>9. \A k \in 0..m : \E r \in Seq(Chars) : h[m] = Joined(h[k], r)
  BY <1>2, <1>7, FlattenPrefix
<1>10. PICK tail \in Seq(Chars) : h[m] = Joined(h[i + 1], tail)
  BY <1>1, <1>9
<1>11. h[i + 1] = Joined(h[i], w) /\ h[i] \in Seq(Chars) /\ h[i + 1] \in Seq(Chars)
  <2>1. (i + 1) - 1 = i
    BY <1>1
  <2> QED BY <1>1, <1>4, <1>8, <2>1
<1>12. s = w \o tail
  <2> DEFINE a == h[i]
  <2>1. a \in Seq(Chars) /\ h[m] = Joined(a, s) /\ h[m] = Joined(Joined(a, w), tail)
    BY <1>7, <1>10, <1>11
  <2> HIDE DEF a
  <2>2. Joined(Joined(a, w), tail) = Joined(a, Joined(w, tail)) /\ Joined(w, tail) \in Seq(Chars)
    <3>1. Joined(Joined(a, w), tail) = Joined(a, Joined(w, tail))
      BY <1>3, <2>1, JoinedBoth
    <3>2. Joined(w, tail) \in Seq(Chars)
      BY <1>3, BehindChars
    <3> QED BY <3>1, <3>2
  <2>3. s = Joined(w, tail)
    BY <2>1, <2>2, JoinedCancels
  <2> QED BY <2>3 DEF Joined
<1>13. ASSUME g + 1 = n PROVE tail = << >>
  <2> DEFINE a == h[m]
  <2>1. a \in Seq(Chars) /\ a = Joined(a, tail)
    BY <1>5, <1>10, <1>11, <1>13
  <2> HIDE DEF a
  <2>2. Len(a) = Len(a) + Len(tail) /\ Len(a) \in Nat /\ Len(tail) \in Nat
    <3>1. Len(Joined(a, tail)) = Len(a) + Len(tail)
      BY <2>1, BehindChars
    <3>2. Len(a) = Len(a) + Len(tail)
      BY <2>1, <3>1, Zenon
    <3> QED BY <2>1, <3>2
  <2>3. Len(tail) = 0
    BY <2>2
  <2> QED BY <2>3
<1>14. ASSUME g + 1 < n
       PROVE  /\ tail # << >> /\ tail[1] = "sep"
              /\ SubSeq(tail, 2, Len(tail)) \in Seq(Chars)
              /\ h[m] = Joined(h[2 * (g + 1)], SubSeq(tail, 2, Len(tail)))
  <2> DEFINE e == <<"sep">>
             a == h[i + 1]
  <2>1. PICK r \in Seq(Chars) : h[m] = Joined(h[i + 2], r)
    BY <1>6, <1>9, <1>14
  <2>2. h[i + 2] = Joined(a, e) /\ a \in Seq(Chars) /\ e \in Seq(Chars) /\ Len(e) = 1 /\ e[1] = "sep"
    <3>1. h[i + 2] = Joined(a, e)
      BY <1>6, <1>8, <1>14
    <3>2. e \in Seq(Chars) /\ Len(e) = 1 /\ e[1] = "sep"
      BY DEF Chars
    <3> HIDE DEF e
    <3> QED BY <1>11, <3>1, <3>2
  <2> HIDE DEF e
  <2>3. h[m] = Joined(a, tail)
    BY <1>10
  <2> HIDE DEF a
  <2>4. tail = e \o r
    <3>1. Joined(Joined(a, e), r) = Joined(a, Joined(e, r))
      BY <2>2, JoinedBoth
    <3>2. Joined(e, r) \in Seq(Chars)
      BY <2>2, BehindChars
    <3>3. tail = Joined(e, r)
      BY <2>1, <2>2, <2>3, <3>1, <3>2, JoinedCancels
    <3> QED BY <3>3 DEF Joined
  <2>5. /\ Len(tail) = 1 + Len(r) /\ tail[1] = "sep" /\ Len(r) \in Nat
        /\ \A j \in 1..Len(r) : tail[1 + j] = r[j]
    <3>1. 1 \in 1..Len(e)
      BY <2>2
    <3>2. /\ Len(e \o r) = Len(e) + Len(r)
          /\ \A j \in 1..Len(e) : (e \o r)[j] = e[j]
          /\ \A j \in 1..Len(r) : (e \o r)[Len(e) + j] = r[j]
      BY <2>2, CharsBehind
    <3>3. Len(r) \in Nat
      OBVIOUS
    <3> QED BY <2>2, <2>4, <3>1, <3>2, <3>3
  <2> DEFINE u == SubSeq(tail, 2, Len(tail))
  <2>6. u \in Seq(Chars) /\ Len(u) = Len(r) /\ \A j \in 1..Len(r) : u[j] = tail[1 + j]
    <3>1. 2 \in Nat /\ Len(tail) \in Nat /\ 2 >= 1 /\ Len(tail) <= Len(tail) /\ 2 <= Len(tail) + 1
          /\ (Len(tail) - 2) + 1 = Len(r)
      BY <2>5
    <3>2. /\ u \in Seq(Chars) /\ Len(u) = (Len(tail) - 2) + 1
          /\ \A j \in 1..((Len(tail) - 2) + 1) : u[j] = tail[(2 + j) - 1]
      BY <3>1, CharsOf
    <3>3. \A j \in 1..Len(r) : (2 + j) - 1 = 1 + j
      BY <2>5
    <3> HIDE DEF u
    <3> QED BY <3>1, <3>2, <3>3
  <2> HIDE DEF u
  <2>7. u = r
    <3>1. \A j \in 1..Len(r) : u[j] = r[j]
      BY <2>5, <2>6
    <3> QED BY <2>6, <3>1, SameChars
  <2>8. h[m] = Joined(h[2 * (g + 1)], u)
    BY <1>6, <1>14, <2>1, <2>7
  <2>9. tail # << >>
    BY <2>5
  <2> QED BY <2>5, <2>6, <2>8, <2>9 DEF u
<1> QED BY <1>12, <1>13, <1>14 DEF m, w, Follows

\* What is left of the line is the cells not taken yet and the separators
\* between them.
Remaining ==
  \E cell, h :
    /\ \A k \in 1..Len(written) : cell[k] \in Padded(written[k], quoting)
    /\ Flattens(h, Pieces(cell, Len(written)), Chars)
    /\ Len(got) < Len(written)
    /\ line \in Seq(Chars)
    /\ h[2 * Len(written) - 1] = Joined(h[2 * Len(got)], line)
    /\ \A k \in 1..Len(got) : got[k] = written[k]

WrittenWell ==
  /\ quoting \in BOOLEAN
  /\ written \in Seq(Seq(Chars))
  /\ quoting \/ \A k \in 1..Len(written) : Plain(written[k])

CellsInv ==
  /\ WrittenWell
  /\ got \in Seq(Seq(Chars))
  /\ more \in BOOLEAN
  /\ more => Remaining
  /\ ~more => got = written

LEMMA CellsInitially == CellsInit => CellsInv
<1> SUFFICES ASSUME CellsInit PROVE CellsInv
  OBVIOUS
<1> DEFINE n == Len(written)
<1>1. written \in Seq(Contents) /\ n \in Nat /\ n >= 1 /\ written \in Seq(Seq(Chars))
  <2>1. PICK k \in 1..MaxCells : written \in [1..k -> Contents]
    BY DEF CellsInit
  <2>2. k \in Nat /\ k >= 1
    BY MaxCellsAssumption
  <2>3. Contents \subseteq Seq(Chars)
    BY ContentsAssumption DEF Chars
  <2> QED BY <2>1, <2>2, <2>3
<1>2. WrittenWell
  BY <1>1 DEF WrittenWell, CellsInit
<1>3. PICK cell : /\ \A k \in 1..n : cell[k] \in Padded(written[k], quoting)
                  /\ line = FlattenSeq(Pieces(cell, n))
  BY Zenon DEF CellsInit, Lines, Pieces
<1>4. \A k \in 1..n : cell[k] \in Seq(Chars)
  <2> TAKE k \in 1..n
  <2>1. written[k] \in Seq(Chars) /\ (quoting \/ Plain(written[k])) /\ quoting \in BOOLEAN
    BY <1>1, <1>2 DEF WrittenWell
  <2>2. cell[k] \in Padded(written[k], quoting)
    BY <1>3
  <2> QED BY <2>1, <2>2, CellReadBack
<1> DEFINE t == Pieces(cell, n)
<1> HIDE DEF n
<1>5. t \in Seq(Seq(Chars)) /\ Len(t) = 2 * n - 1
  BY <1>1, <1>4, PiecesAre
<1>6. PICK h : Flattens(h, t, Chars)
  <2> HIDE DEF t
  <2> QED BY <1>5, FlattenExists
<1>7. line = h[2 * n - 1]
  <2> HIDE DEF t
  <2>1. FlattenSeq(t) = h[Len(t)]
    BY <1>5, <1>6, Flattened
  <2> QED BY <1>3, <1>5, <2>1 DEF t
<1>8. line \in Seq(Chars) /\ h[0] = << >>
  <2> HIDE DEF t
  <2>1. h[0] = << >> /\ \A k \in 0..Len(t) : h[k] \in Seq(Chars)
    BY <1>5, <1>6, FlattensAt
  <2>2. 2 * n - 1 \in 0..Len(t)
    BY <1>1, <1>5
  <2> QED BY <1>7, <2>1, <2>2
<1>9. got = << >> /\ more = TRUE
  BY DEF CellsInit
<1>10. line = Joined(h[2 * 0], line)
  <2>1. h[2 * 0] = << >>
    BY <1>8
  <2> QED BY <1>8, <2>1, JoinedSeq
<1>11. Remaining
  <2>1. Len(got) = 0 /\ 1..Len(got) = {}
    BY <1>9
  <2>2. Len(got) < n /\ h[2 * n - 1] = Joined(h[2 * Len(got)], line) /\ \A k \in 1..Len(got) : got[k] = written[k]
    BY <1>1, <1>7, <1>10, <2>1
  <2> QED BY <1>3, <1>6, <1>8, <2>2 DEF Remaining, n
<1> QED BY <1>2, <1>9, <1>11 DEF CellsInv

(* No quote is left open, and the next column is the next cell.            *)
LEMMA NextColumn ==
  ASSUME CellsInv, more
  PROVE  /\ ~NotClosed
         /\ Len(got) + 1 \in 1..Len(written) /\ CellOf(Column(line)) = written[Len(got) + 1]
         /\ Column(line) # line <=> Len(got) + 1 < Len(written)
         /\ Len(got) + 1 < Len(written) =>
              \E cell, h :
                /\ \A k \in 1..Len(written) : cell[k] \in Padded(written[k], quoting)
                /\ Flattens(h, Pieces(cell, Len(written)), Chars)
                /\ SubSeq(line, Len(Column(line)) + 2, Len(line)) \in Seq(Chars)
                /\ h[2 * Len(written) - 1] =
                     Joined(h[2 * (Len(got) + 1)], SubSeq(line, Len(Column(line)) + 2, Len(line)))
<1> DEFINE n == Len(written)
           g == Len(got)
<1>1. PICK cell, h : /\ \A k \in 1..n : cell[k] \in Padded(written[k], quoting)
                     /\ Flattens(h, Pieces(cell, n), Chars)
                     /\ g < n
                     /\ line \in Seq(Chars)
                     /\ h[2 * n - 1] = Joined(h[2 * g], line)
  BY DEF CellsInv, Remaining
<1>2. n \in Nat /\ g \in Nat /\ quoting \in BOOLEAN
  BY DEF CellsInv, WrittenWell
<1>3. \A k \in 1..n : cell[k] \in Seq(Chars) /\ Together(cell[k]) /\ CellOf(cell[k]) = written[k]
  <2> TAKE k \in 1..n
  <2>1. written[k] \in Seq(Chars) /\ (quoting \/ Plain(written[k])) /\ quoting \in BOOLEAN
    BY DEF CellsInv, WrittenWell
  <2>2. cell[k] \in Padded(written[k], quoting)
    BY <1>1
  <2> QED BY <2>1, <2>2, CellReadBack
<1> HIDE DEF n, g
<1>4. g + 1 \in 1..n /\ (g + 1 = n \/ g + 1 < n)
  BY <1>1, <1>2
<1>5. PICK tail \in Seq(Chars) :
           /\ line = cell[g + 1] \o tail
           /\ g + 1 = n => tail = << >>
           /\ g + 1 < n => /\ tail # << >> /\ tail[1] = "sep"
                           /\ SubSeq(tail, 2, Len(tail)) \in Seq(Chars)
                           /\ h[2 * n - 1] = Joined(h[2 * (g + 1)], SubSeq(tail, 2, Len(tail)))
  <2>1. /\ \A k \in 1..n : cell[k] \in Seq(Chars)
        /\ Flattens(h, Pieces(cell, n), Chars)
        /\ g < n /\ n \in Nat /\ g \in Nat /\ line \in Seq(Chars)
        /\ h[2 * n - 1] = Joined(h[2 * g], line)
    BY <1>1, <1>2, <1>3
  <2>2. Follows(line, cell, h, n, g)
    BY <2>1, RestOfLine, Zenon
  <2> QED BY <2>2, Zenon DEF Follows
<1> DEFINE w == cell[g + 1]
<1>6. w \in Seq(Chars) /\ Together(w) /\ CellOf(w) = written[g + 1]
  BY <1>3, <1>4
<1>7. (tail # << >> => tail[1] = "sep") /\ (tail # << >> <=> g + 1 < n)
  BY <1>2, <1>4, <1>5
<1> HIDE DEF w
<1>8. LET s == w \o tail
      IN  /\ Column(s) = w
          /\ ~(Column(s) = s /\ Open(s, Len(s)))
          /\ (Column(s) # s) <=> (tail # << >>)
          /\ SubSeq(s, Len(w) + 2, Len(s)) = SubSeq(tail, 2, Len(tail))
  BY <1>2, <1>6, <1>7, ColumnIs
<1>9. line = w \o tail
  BY <1>5 DEF w
<1>10. /\ Column(line) = w
       /\ ~(Column(line) = line /\ Open(line, Len(line)))
       /\ (Column(line) # line) <=> (tail # << >>)
       /\ SubSeq(line, Len(w) + 2, Len(line)) = SubSeq(tail, 2, Len(tail))
  BY <1>8, <1>9, Zenon
<1>11. ~NotClosed
  BY <1>10 DEF NotClosed
<1>12. CellOf(Column(line)) = written[g + 1] /\ (Column(line) # line <=> g + 1 < n)
  BY <1>6, <1>7, <1>10
<1>13. ASSUME g + 1 < n
       PROVE  /\ SubSeq(line, Len(Column(line)) + 2, Len(line)) \in Seq(Chars)
              /\ h[2 * n - 1] = Joined(h[2 * (g + 1)], SubSeq(line, Len(Column(line)) + 2, Len(line)))
  BY <1>5, <1>10, <1>13
<1> QED BY <1>1, <1>4, <1>11, <1>12, <1>13 DEF n, g

LEMMA CellsNextStep == CellsInv /\ [CellsNext]_cellVars => CellsInv'
<1> SUFFICES ASSUME CellsInv, [CellsNext]_cellVars PROVE CellsInv'
  OBVIOUS
<1>1. CASE ChopNextColumn
  <2> DEFINE n == Len(written)
             g == Len(got)
             rest == SubSeq(line, Len(Column(line)) + 2, Len(line))
  <2>1. /\ more
        /\ got' = Append(got, CellOf(Column(line)))
        /\ more' = (Column(line) # line)
        /\ line' = rest
        /\ quoting' = quoting /\ written' = written
    BY <1>1 DEF ChopNextColumn
  <2>2. /\ g + 1 \in 1..n /\ CellOf(Column(line)) = written[g + 1]
        /\ Column(line) # line <=> g + 1 < n
        /\ g + 1 < n =>
              \E cell, h :
                /\ \A k \in 1..n : cell[k] \in Padded(written[k], quoting)
                /\ Flattens(h, Pieces(cell, n), Chars)
                /\ rest \in Seq(Chars)
                /\ h[2 * n - 1] = Joined(h[2 * (g + 1)], rest)
    BY <2>1, NextColumn
  <2>3. /\ WrittenWell /\ got \in Seq(Seq(Chars)) /\ g \in Nat /\ n \in Nat
        /\ written \in Seq(Seq(Chars)) /\ g < n
        /\ \A k \in 1..g : got[k] = written[k]
    BY <2>1 DEF CellsInv, Remaining, WrittenWell
  <2>4. WrittenWell'
    BY <2>1, <2>3 DEF WrittenWell
  <2> HIDE DEF rest
  <2>5. got' = Append(got, written[g + 1]) /\ written[g + 1] \in Seq(Chars)
    BY <2>1, <2>2, <2>3
  <2>6. /\ got' \in Seq(Seq(Chars)) /\ Len(got') = g + 1
        /\ \A k \in 1..(g + 1) : got'[k] = written[k]
    BY <2>3, <2>5
  <2> HIDE DEF n, g
  <2>7. CASE g + 1 < n
    <3>1. PICK cell, h :
                /\ \A k \in 1..n : cell[k] \in Padded(written[k], quoting)
                /\ Flattens(h, Pieces(cell, n), Chars)
                /\ rest \in Seq(Chars)
                /\ h[2 * n - 1] = Joined(h[2 * (g + 1)], rest)
      BY <2>2, <2>7
    <3>2. /\ \A k \in 1..Len(written') : cell[k] \in Padded(written'[k], quoting')
          /\ Flattens(h, Pieces(cell, Len(written')), Chars)
          /\ Len(got') < Len(written')
          /\ line' \in Seq(Chars)
          /\ h[2 * Len(written') - 1] = Joined(h[2 * Len(got')], line')
          /\ \A k \in 1..Len(got') : got'[k] = written'[k]
      BY <2>1, <2>6, <2>7, <3>1 DEF n
    <3>3. Remaining'
      BY <3>2, Zenon DEF Remaining
    <3>4. more' = TRUE
      BY <2>1, <2>2, <2>7
    <3> QED BY <2>4, <2>6, <3>3, <3>4 DEF CellsInv
  <2>8. CASE g + 1 = n
    <3> DEFINE last == Column(line) = line
    <3>0. last
      BY <2>2, <2>3, <2>8
    <3>1. more' = FALSE
      <4>1. more' = ~last
        BY <2>1
      <4> HIDE DEF last
      <4> QED BY <3>0, <4>1
    <3>2. got' = written
      BY <2>3, <2>6, <2>8 DEF n
    <3> QED BY <2>1, <2>4, <2>6, <3>1, <3>2 DEF CellsInv
  <2> QED BY <2>2, <2>3, <2>7, <2>8
<1>2. CASE ChopThrows
  <2>1. more /\ NotClosed
    BY <1>2 DEF ChopThrows
  <2> QED BY <2>1, NextColumn
<1>3. CASE UNCHANGED cellVars
  BY <1>3 DEF cellVars, CellsInv, WrittenWell, Remaining
<1> QED BY <1>1, <1>2, <1>3 DEF CellsNext

(* Whatever the cells hold and however they are padded and quoted, a line  *)
(* is read without a throw into the contents that were written to it       *)
(* (csv.h, chop_next_column, trim and unescape).                           *)
THEOREM CellsAreReadBack == CellsSpec => []CellsReadBack
<1>1. CellsInv => CellsReadBack
  BY DEF CellsInv, CellsReadBack
<1> QED BY CellsInitially, CellsNextStep, <1>1, PTL DEF CellsSpec

----------------------------------------------------------------------------
(* The loader of trades.                                                   *)

\* What a line adds to the trades.
Additions(ls) == [k \in 1..Len(ls) |-> IF RowConverts(ls[k]) THEN <<RowTrade(ls[k])>> ELSE << >>]

TradesInv ==
  /\ lines \in Seq(TradeRows)
  /\ trades = FlattenSeq(Additions(lines))
  /\ \A k \in 1..Len(lines) : RowConverts(lines[k]) => RowTrade(lines[k]) \in Range(trades)

RowTrades == {RowTrade(r) : r \in TradeRows}

LEMMA AdditionsSeq ==
  ASSUME NEW ls \in Seq(TradeRows)
  PROVE  /\ Additions(ls) \in Seq(Seq(RowTrades)) /\ Len(Additions(ls)) = Len(ls)
         /\ \A k \in 1..Len(ls) :
              Additions(ls)[k] = IF RowConverts(ls[k]) THEN <<RowTrade(ls[k])>> ELSE << >>
<1>1. ASSUME NEW k \in 1..Len(ls)
      PROVE  (IF RowConverts(ls[k]) THEN <<RowTrade(ls[k])>> ELSE << >>) \in Seq(RowTrades)
  <2>1. RowTrade(ls[k]) \in RowTrades
    BY DEF RowTrades
  <2> QED BY <2>1
<1> QED BY <1>1 DEF Additions

LEMMA TradesStart == ASSUME TradesInit PROVE TradesInv
<1>1. lines \in Seq(TradeRows) /\ Len(lines) = 0 /\ trades = << >>
  BY DEF TradesInit
<1>2. Additions(lines) = << >>
  <2>1. Additions(lines) \in Seq(Seq(RowTrades)) /\ Len(Additions(lines)) = 0
    BY <1>1, AdditionsSeq
  <2> QED BY <2>1
<1> QED BY <1>1, <1>2, FlattenNothing DEF TradesInv

LEMMA LineAdds ==
  ASSUME TradesInv, NEW r \in TradeRows, LoadTrade(r) \/ SkipLine(r)
  PROVE  TradesInv'
<1> DEFINE new == IF RowConverts(r) THEN <<RowTrade(r)>> ELSE << >>
<1>1. lines \in Seq(TradeRows) /\ lines' = Append(lines, r)
  BY DEF TradesInv, LoadTrade, SkipLine
<1>2. /\ lines' \in Seq(TradeRows) /\ Len(lines') = Len(lines) + 1 /\ lines'[Len(lines')] = r
      /\ Len(lines) \in Nat /\ \A k \in 1..Len(lines) : lines'[k] = lines[k]
  BY <1>1
<1>3. /\ FlattenSeq(Additions(lines)) \in Seq(RowTrades)
      /\ FlattenSeq(Additions(lines')) = FlattenSeq(Additions(lines)) \o Additions(lines')[Len(lines')]
  <2>1. /\ Additions(lines) \in Seq(Seq(RowTrades)) /\ Len(Additions(lines)) = Len(lines)
        /\ Additions(lines') \in Seq(Seq(RowTrades)) /\ Len(Additions(lines')) = Len(lines')
    BY <1>1, <1>2, AdditionsSeq
  <2>2. \A k \in 1..Len(lines) : Additions(lines')[k] = Additions(lines)[k]
    <3> SUFFICES ASSUME NEW k \in 1..Len(lines) PROVE Additions(lines')[k] = Additions(lines)[k]
      OBVIOUS
    <3>1. Additions(lines)[k] = IF RowConverts(lines[k]) THEN <<RowTrade(lines[k])>> ELSE << >>
      BY <1>1, AdditionsSeq
    <3>2. k \in 1..Len(lines') /\ lines'[k] = lines[k]
      BY <1>2
    <3>3. Additions(lines')[k] = IF RowConverts(lines'[k]) THEN <<RowTrade(lines'[k])>> ELSE << >>
      BY <1>2, <3>2, AdditionsSeq
    <3> QED BY <3>1, <3>2, <3>3
  <2> QED BY <1>2, <2>1, <2>2, FlattenGrows
<1>4. Additions(lines')[Len(lines')] = new
  BY <1>2, AdditionsSeq
<1>5. trades \in Seq(RowTrades) /\ trades' = trades \o new
  <2>1. trades \in Seq(RowTrades)
    BY <1>3 DEF TradesInv
  <2>2. CASE LoadTrade(r)
    BY <2>1, <2>2 DEF LoadTrade
  <2>3. CASE SkipLine(r)
    BY <2>1, <2>3 DEF SkipLine
  <2> QED BY <2>1, <2>2, <2>3
<1>6. trades' = FlattenSeq(Additions(lines'))
  BY <1>3, <1>4, <1>5 DEF TradesInv
<1>7. Range(trades) \subseteq Range(trades') /\ (RowConverts(r) => RowTrade(r) \in Range(trades'))
  <2>1. ASSUME NEW x \in Range(trades) PROVE x \in Range(trades')
    <3>1. PICK k \in 1..Len(trades) : x = trades[k]
      BY <1>5 DEF Range
    <3>2. k \in DOMAIN trades' /\ trades'[k] = x
      <4>1. CASE RowConverts(r)
        <5>1. trades' = trades \o <<RowTrade(r)>>
          BY <1>5, <4>1
        <5> QED BY <1>5, <3>1, <5>1
      <4>2. CASE ~RowConverts(r)
        <5>1. trades' = trades \o << >>
          BY <1>5, <4>2
        <5> QED BY <1>5, <3>1, <5>1
      <4> QED BY <4>1, <4>2
    <3> QED BY <3>2 DEF Range
  <2>2. ASSUME RowConverts(r) PROVE RowTrade(r) \in Range(trades')
    <3>1. trades' = trades \o <<RowTrade(r)>>
      BY <1>5, <2>2
    <3>2. trades'[Len(trades) + 1] = RowTrade(r) /\ Len(trades) + 1 \in DOMAIN trades'
      BY <1>5, <3>1
    <3> QED BY <3>2 DEF Range
  <2> QED BY <2>1, <2>2
<1>8. ASSUME NEW k \in 1..Len(lines'), RowConverts(lines'[k])
      PROVE  RowTrade(lines'[k]) \in Range(trades')
  <2>1. CASE k \in 1..Len(lines)
    BY <1>2, <1>7, <1>8, <2>1 DEF TradesInv
  <2>2. CASE k = Len(lines')
    BY <1>2, <1>7, <1>8, <2>2
  <2> QED BY <1>2, <2>1, <2>2
<1> QED BY <1>2, <1>6, <1>8 DEF TradesInv, RowConverts, Timestamp, Price, Volume, RowTrade

LEMMA CompleteMeans ==
  ASSUME NEW r \in Row, Complete(r)
  PROVE  Meant(r) = IF RowConverts(r) THEN <<RowTrade(r)>> ELSE << >>
<1>1. \A k \in {2, 3, 4, 5} : CellAfter(r, k) = r.cells[k]
  BY DEF Complete, CellAfter, Read, Row
<1>2. RowConverts(r) <=> \A k \in {2, 4, 5} : Converts(r.cells[k])
  BY <1>1 DEF RowConverts, Timestamp, Price, Volume
<1> QED BY <1>1, <1>2 DEF Meant, RowTrade, Timestamp, Price, Volume

\* A cell that converts, also for one that is missing, is one of the line.
LEMMA CellOfLine ==
  ASSUME NEW r \in Row, NEW k \in Positive, Converts(CellAfter(r, k))
  PROVE  Num(CellAfter(r, k)) \in CellNumbers(r)
<1>1. r.cells \in Seq(Cell) /\ Len(r.cells) \in Nat /\ k \in Nat /\ k >= 1
  BY DEF Row, Positive
<1>2. CellAfter(r, k) \in Range(r.cells)
  <2>1. CASE Read(r, k)
    <3>1. k \in DOMAIN r.cells /\ CellAfter(r, k) = r.cells[k]
      BY <1>1, <2>1 DEF CellAfter, Read
    <3> QED BY <3>1 DEF Range
  <2>2. CASE ~Read(r, k)
    <3>1. r.cells # << >> /\ CellAfter(r, k) = Last(r.cells)
      BY <2>2 DEF CellAfter, Converts, Empty
    <3>2. Len(r.cells) \in DOMAIN r.cells /\ CellAfter(r, k) = r.cells[Len(r.cells)]
      BY <1>1, <3>1 DEF Last
    <3> QED BY <3>2 DEF Range
  <2> QED BY <2>1, <2>2
<1> QED BY <1>2 DEF CellNumbers

LEMMA ShortMeans ==
  ASSUME NEW r \in Row, RowConverts(r)
  PROVE  Salvaged(RowTrade(r), r)
<1> DEFINE t == RowTrade(r)
<1>1. /\ t.local_timestamp = Num(CellAfter(r, 2)) /\ t.side = CellAfter(r, 3).side
      /\ t.price = Num(CellAfter(r, 4)) /\ t.amount = Num(CellAfter(r, 5))
  BY DEF RowTrade, Timestamp, Price, Volume
<1>2. Converts(CellAfter(r, 2)) /\ Converts(CellAfter(r, 4)) /\ Converts(CellAfter(r, 5))
  BY DEF RowConverts, Timestamp, Price, Volume
<1> HIDE DEF t
<1>3. {t.local_timestamp, t.price, t.amount} \subseteq CellNumbers(r)
  <2>1. 2 \in Positive /\ 4 \in Positive /\ 5 \in Positive
    BY DEF Positive
  <2>2. /\ Num(CellAfter(r, 2)) \in CellNumbers(r) /\ Num(CellAfter(r, 4)) \in CellNumbers(r)
        /\ Num(CellAfter(r, 5)) \in CellNumbers(r)
    BY <1>2, <2>1, CellOfLine
  <2> QED BY <1>1, <2>2
<1>4. ASSUME NEW k \in 2..4, Len(r.cells) >= k
      PROVE  /\ CellAfter(r, k) = r.cells[k]
             /\ Converts(r.cells[k]) => r.cells[k].number = <<Num(r.cells[k])>>
  <2>1. r.cells \in Seq(Cell)
    BY DEF Row
  <2>2. r.cells[k] \in Cell /\ k <= Len(r.cells)
    BY <1>4, <2>1
  <2>3. r.cells[k].number \in Seq(Int) /\ Len(r.cells[k].number) <= 1
    BY <2>2 DEF Cell
  <2> QED BY <2>2, <2>3 DEF CellAfter, Read, Converts, Num
<1>5. Len(r.cells) >= 2 => r.cells[2].number = <<t.local_timestamp>>
  BY <1>1, <1>2, <1>4
<1>6. Len(r.cells) >= 3 => t.side = r.cells[3].side
  BY <1>1, <1>4
<1>7. Len(r.cells) >= 4 => r.cells[4].number = <<t.price>>
  BY <1>1, <1>2, <1>4
<1>8. Salvaged(t, r)
  BY <1>3, <1>5, <1>6, <1>7 DEF Salvaged
<1> QED BY <1>8 DEF t

LEMMA TradesInvShows == ASSUME TradesInv PROVE TradesReadAsMeant
<1> DEFINE added == Additions(lines)
<1>1. lines \in Seq(TradeRows) /\ \A k \in 1..Len(lines) : lines[k] \in Row
  BY TradeRowsAssumption DEF TradesInv
<1>2. /\ Len(added) = Len(lines) /\ added = [k \in 1..Len(lines) |-> added[k]]
      /\ \A k \in 1..Len(lines) : added[k] = IF RowConverts(lines[k]) THEN <<RowTrade(lines[k])>> ELSE << >>
  BY <1>1, AdditionsSeq DEF Additions
<1> HIDE DEF added
<1>3. added \in [1..Len(lines) -> {<< >>} \cup {<<t>> : t \in Range(trades)}]
  <2>1. ASSUME NEW k \in 1..Len(lines)
        PROVE  added[k] \in {<< >>} \cup {<<t>> : t \in Range(trades)}
    BY <1>2 DEF TradesInv
  <2> QED BY <1>2, <2>1
<1>4. ASSUME NEW k \in 1..Len(lines)
      PROVE  IF Complete(lines[k]) THEN added[k] = Meant(lines[k])
             ELSE \A t \in Range(added[k]) : Salvaged(t, lines[k])
  <2>1. lines[k] \in Row
    BY <1>1
  <2>2. CASE Complete(lines[k])
    BY <1>2, <2>1, <2>2, CompleteMeans
  <2>3. ASSUME NEW t \in Range(added[k]) PROVE Salvaged(t, lines[k])
    <3>1. PICK j \in DOMAIN added[k] : t = added[k][j]
      BY DEF Range
    <3>2. RowConverts(lines[k]) /\ t = RowTrade(lines[k])
      BY <1>2, <3>1
    <3> QED BY <2>1, <3>2, ShortMeans
  <2> QED BY <2>2, <2>3
<1>5. trades = FlattenSeq(added)
  BY DEF TradesInv, added
<1> QED BY <1>3, <1>4, <1>5, Zenon DEF TradesReadAsMeant

(* The trades loaded are what the lines say, one behind the other, and a   *)
(* line that ends too early adds nothing but what stands in it, for every  *)
(* file (CSVParser::parse_trades).                                         *)
THEOREM TradesAreReadAsMeant == TradesSpec => []TradesReadAsMeant
<1>1. TradesInv /\ [TradesNext]_tradesVars => TradesInv'
  <2> SUFFICES ASSUME TradesInv, [TradesNext]_tradesVars PROVE TradesInv'
    OBVIOUS
  <2>1. CASE TradesNext
    BY <2>1, LineAdds DEF TradesNext
  <2>2. CASE UNCHANGED tradesVars
    BY <2>2 DEF tradesVars, TradesInv, Additions, RowConverts, Timestamp, Price, Volume, RowTrade
  <2> QED BY <2>1, <2>2
<1> QED BY <1>1, TradesStart, TradesInvShows, PTL DEF TradesSpec

----------------------------------------------------------------------------
(* The loader of books.                                                    *)

LEMMA PrefixMeans ==
  ASSUME NEW X, NEW s \in Seq(X), NEW t \in Seq(X)
  PROVE  IsPrefix(s, t) <=> Len(s) <= Len(t) /\ \A k \in 1..Len(s) : s[k] = t[k]
<1>1. /\ Len(s) \in Nat /\ Len(t) \in Nat
      /\ SubSeq(s, 1, Len(s)) = s
  OBVIOUS
<1>2. CASE Len(s) <= Len(t)
  <2>1. /\ SubSeq(t, 1, Len(s)) \in Seq(X) /\ Len(SubSeq(t, 1, Len(s))) = Len(s)
        /\ \A k \in 1..Len(s) : SubSeq(t, 1, Len(s))[k] = t[k]
    BY <1>1, <1>2
  <2>2. s = SubSeq(t, 1, Len(s)) <=> \A k \in 1..Len(s) : s[k] = SubSeq(t, 1, Len(s))[k]
    <3> DEFINE u == SubSeq(t, 1, Len(s))
    <3>1. u \in Seq(X) /\ Len(u) = Len(s)
      BY <2>1
    <3> HIDE DEF u
    <3>2. (\A k \in 1..Len(s) : s[k] = u[k]) => s = u
      BY <3>1
    <3> QED BY <3>2 DEF u
  <2> QED BY <1>1, <1>2, <2>1, <2>2 DEF IsPrefix
<1>3. CASE ~(Len(s) <= Len(t))
  BY <1>3 DEF IsPrefix
<1> QED BY <1>2, <1>3

LEMMA PrefixOfItself == ASSUME NEW X, NEW s \in Seq(X) PROVE IsPrefix(s, s)
BY PrefixMeans

LEMMA PrefixOfLonger ==
  ASSUME NEW X, NEW s \in Seq(X), NEW t \in Seq(X), NEW u \in Seq(X), IsPrefix(s, t)
  PROVE  IsPrefix(s, t \o u)
<1>1. Len(s) <= Len(t) /\ \A k \in 1..Len(s) : s[k] = t[k]
  BY PrefixMeans
<1>2. t \o u \in Seq(X) /\ Len(s) <= Len(t \o u) /\ \A k \in 1..Len(s) : (t \o u)[k] = t[k]
  BY <1>1
<1> HIDE <1>2
<1>3. \A k \in 1..Len(s) : s[k] = (t \o u)[k]
  BY <1>1, <1>2
<1> QED BY <1>2, <1>3, PrefixMeans

\* A row: its cells are cells, and a level is whole when its last cell is there.
LEMMA RowFacts ==
  ASSUME NEW r \in Row
  PROVE  /\ Len(r.cells) \in Nat /\ Whole(r) \in Int /\ Whole(r) <= Depth
         /\ \A l \in Nat : l <= Whole(r) <=> l <= Depth /\ 4 * l + 2 <= Len(r.cells)
         /\ \A k \in 1..Len(r.cells) : Converts(r.cells[k]) => Num(r.cells[k]) \in Int
<1>1. r.cells \in Seq(Cell) /\ Len(r.cells) \in Nat
  BY DEF Row
<1>2. /\ Whole(r) \in Int /\ Whole(r) <= Depth
      /\ \A l \in Nat : l <= Whole(r) <=> l <= Depth /\ 4 * l + 2 <= Len(r.cells)
  <2> DEFINE n == Len(r.cells)
             d == (n - 2) \div 4
  <2>1. n \in Int /\ Depth \in Nat
    BY <1>1, DepthAssumption
  <2>2. d \in Int /\ \A l \in Nat : l <= d <=> 4 * l + 2 <= n
    <3> HIDE DEF n
    <3> QED BY <2>1
  <2>3. Whole(r) = IF Depth < d THEN Depth ELSE d
    BY DEF Whole, Smaller
  <2> HIDE DEF d, n
  <2>4. Whole(r) \in Int /\ Whole(r) <= Depth /\ \A l \in Nat : l <= Whole(r) <=> l <= Depth /\ l <= d
    BY <2>1, <2>2, <2>3
  <2> QED BY <2>2, <2>4 DEF n
<1>3. ASSUME NEW k \in 1..Len(r.cells), Converts(r.cells[k]) PROVE Num(r.cells[k]) \in Int
  <2>1. r.cells[k] \in Cell
    BY <1>1
  <2>2. r.cells[k].number \in Seq(Int) /\ Len(r.cells[k].number) <= 1 /\ r.cells[k].number # << >>
    BY <1>3, <2>1 DEF Cell, Converts
  <2> DEFINE u == r.cells[k].number
  <2>3. u[1] \in Int
    <3>1. u \in Seq(Int) /\ Len(u) <= 1 /\ u # << >>
      BY <2>2
    <3> HIDE DEF u
    <3>2. Len(u) # 0
      BY <3>1
    <3> QED BY <3>1, <3>2
  <2> QED BY <2>3 DEF Num
<1> QED BY <1>1, <1>2, <1>3

LEMMA TradableSeq ==
  ASSUME NEW p \in Int, NEW a \in Int PROVE Tradable(p, a) \in Seq(OrderBookEntry)
<1>1. CASE p > 0 /\ a > 0
  <2> DEFINE e == [price |-> p, amount |-> a]
  <2>1. e \in OrderBookEntry
    BY <1>1 DEF OrderBookEntry, Positive
  <2>2. Tradable(p, a) = <<e>>
    BY <1>1 DEF Tradable
  <2> HIDE DEF e
  <2> QED BY <2>1, <2>2
<1>2. CASE ~(p > 0 /\ a > 0)
  BY <1>2 DEF Tradable
<1> QED BY <1>1, <1>2

\* What a level adds to the side of the book that begins with its cell c.
Addition(r, c, l) == IF Good(r, l) THEN Tradable(Num(Cells(r, l)[c]), Num(Cells(r, l)[c + 1])) ELSE << >>

LEMMA CellsOfLevel ==
  ASSUME NEW r, NEW l \in Nat
  PROVE  /\ Cells(r, l)[1] = r.cells[4 * l - 1] /\ Cells(r, l)[2] = r.cells[4 * l]
         /\ Cells(r, l)[3] = r.cells[4 * l + 1] /\ Cells(r, l)[4] = r.cells[4 * l + 2]
         /\ Good(r, l) <=> /\ Converts(r.cells[4 * l - 1]) /\ Converts(r.cells[4 * l])
                           /\ Converts(r.cells[4 * l + 1]) /\ Converts(r.cells[4 * l + 2])
<1>1. /\ Cells(r, l)[1] = r.cells[4 * l - 2 + 1] /\ Cells(r, l)[2] = r.cells[4 * l - 2 + 2]
      /\ Cells(r, l)[3] = r.cells[4 * l - 2 + 3] /\ Cells(r, l)[4] = r.cells[4 * l - 2 + 4]
  BY DEF Cells
<1>2. 4 * l - 2 + 1 = 4 * l - 1 /\ 4 * l - 2 + 2 = 4 * l /\ 4 * l - 2 + 3 = 4 * l + 1 /\ 4 * l - 2 + 4 = 4 * l + 2
  OBVIOUS
<1>3. 1..4 = {1, 2, 3, 4}
  OBVIOUS
<1>4. Good(r, l) <=> /\ Converts(Cells(r, l)[1]) /\ Converts(Cells(r, l)[2])
                     /\ Converts(Cells(r, l)[3]) /\ Converts(Cells(r, l)[4])
  BY <1>3 DEF Good
<1> QED BY <1>1, <1>2, <1>4

LEMMA AdditionSeq ==
  ASSUME NEW r \in Row, NEW c \in {1, 3}, NEW l \in Nat, l >= 1, l <= Whole(r)
  PROVE  Addition(r, c, l) \in Seq(OrderBookEntry)
<1>1. CASE Good(r, l)
  <2>1. /\ 4 * l - 1 \in 1..Len(r.cells) /\ 4 * l \in 1..Len(r.cells)
        /\ 4 * l + 1 \in 1..Len(r.cells) /\ 4 * l + 2 \in 1..Len(r.cells)
    BY RowFacts
  <2>2. /\ Num(Cells(r, l)[1]) \in Int /\ Num(Cells(r, l)[2]) \in Int
        /\ Num(Cells(r, l)[3]) \in Int /\ Num(Cells(r, l)[4]) \in Int
    BY <1>1, <2>1, CellsOfLevel, RowFacts
  <2>3. Num(Cells(r, l)[c]) \in Int /\ Num(Cells(r, l)[c + 1]) \in Int
    <3>1. (c = 1 /\ c + 1 = 2) \/ (c = 3 /\ c + 1 = 4)
      OBVIOUS
    <3> QED BY <2>2, <3>1
  <2> QED BY <1>1, <2>3, TradableSeq DEF Addition
<1>2. CASE ~Good(r, l)
  BY <1>2 DEF Addition
<1> QED BY <1>1, <1>2

LEMMA EntriesGrow ==
  ASSUME NEW r \in Row, NEW c \in {1, 3}, NEW n \in Nat, n <= Whole(r)
  PROVE  /\ Entries(r, c, 0) = << >> /\ Entries(r, c, n) \in Seq(OrderBookEntry)
         /\ n + 1 <= Whole(r) => Entries(r, c, n + 1) = Entries(r, c, n) \o Addition(r, c, n + 1)
<1> DEFINE ad(m) == [l \in 1..m |-> Addition(r, c, l)]
<1>1. \A m \in Nat : Entries(r, c, m) = FlattenSeq(ad(m))
  BY DEF Entries, Addition
<1>2. ASSUME NEW m \in Nat, m <= Whole(r)
      PROVE  ad(m) \in Seq(Seq(OrderBookEntry)) /\ Len(ad(m)) = m
  <2>1. Whole(r) \in Int
    BY RowFacts
  <2>2. \A l \in 1..m : Addition(r, c, l) \in Seq(OrderBookEntry)
    BY <1>2, <2>1, AdditionSeq
  <2> QED BY <2>2
<1>3. Entries(r, c, 0) = << >>
  <2>1. ad(0) = << >>
    OBVIOUS
  <2> HIDE DEF ad
  <2> QED BY <1>1, <2>1, FlattenNothing
<1>4. ASSUME NEW m \in Nat, m + 1 <= Whole(r)
      PROVE  /\ Entries(r, c, m) \in Seq(OrderBookEntry)
             /\ Entries(r, c, m + 1) \in Seq(OrderBookEntry)
             /\ Entries(r, c, m + 1) = Entries(r, c, m) \o Addition(r, c, m + 1)
  <2>1. Whole(r) \in Int /\ m <= Whole(r) /\ m + 1 \in Nat
    BY <1>4, RowFacts
  <2>2. /\ \A k \in 1..m : ad(m + 1)[k] = ad(m)[k]
        /\ ad(m + 1)[m + 1] = Addition(r, c, m + 1)
    OBVIOUS
  <2>3. /\ ad(m) \in Seq(Seq(OrderBookEntry)) /\ Len(ad(m)) = m
        /\ ad(m + 1) \in Seq(Seq(OrderBookEntry)) /\ Len(ad(m + 1)) = m + 1
    BY <1>2, <1>4, <2>1
  <2> HIDE DEF ad
  <2>4. /\ FlattenSeq(ad(m)) \in Seq(OrderBookEntry) /\ FlattenSeq(ad(m + 1)) \in Seq(OrderBookEntry)
        /\ FlattenSeq(ad(m + 1)) = FlattenSeq(ad(m)) \o ad(m + 1)[m + 1]
    <3> DEFINE old == ad(m)
               new == ad(m + 1)
    <3>1. /\ old \in Seq(Seq(OrderBookEntry)) /\ new \in Seq(Seq(OrderBookEntry))
          /\ Len(old) = m /\ Len(new) = m + 1 /\ \A k \in 1..m : new[k] = old[k]
      BY <2>2, <2>3
    <3> HIDE DEF old, new
    <3>2. Len(new) = Len(old) + 1 /\ \A k \in 1..Len(old) : new[k] = old[k]
      BY <3>1
    <3>3. /\ FlattenSeq(old) \in Seq(OrderBookEntry) /\ FlattenSeq(new) \in Seq(OrderBookEntry)
          /\ FlattenSeq(new) = FlattenSeq(old) \o new[Len(new)]
      BY <3>1, <3>2, FlattenGrows
    <3> QED BY <3>1, <3>3 DEF old, new
  <2> QED BY <1>1, <2>1, <2>2, <2>4
<1>5. Entries(r, c, n) \in Seq(OrderBookEntry)
  <2>1. CASE n = 0
    <3>1. << >> \in Seq(OrderBookEntry)
      OBVIOUS
    <3> HIDE DEF ad
    <3> QED BY <1>3, <2>1, <3>1, Zenon
  <2>2. CASE n # 0
    <3>1. n - 1 \in Nat /\ (n - 1) + 1 = n
      BY <2>2
    <3> QED BY <1>4, <3>1
  <2> QED BY <2>1, <2>2
<1> QED BY <1>3, <1>4, <1>5

\* What was loaded of the row so far: until the first level that does not
\* convert, and when only the last cells of levels do not.
FrontRead ==
  \A m \in Nat : m <= Whole(row) /\ (\A l \in 1..m : Good(row, l)) =>
    IF level <= m
    THEN column = 4 * level + 3 /\ entry.asks = Asks(row, level) /\ entry.bids = Bids(row, level)
    ELSE IsPrefix(Asks(row, m), entry.asks) /\ IsPrefix(Bids(row, m), entry.bids)

InStep ==
  Len(row.cells) >= 2 /\ ErrorsAtLevelEnds(row) =>
    /\ level <= Whole(row) /\ column = 4 * level + 3
    /\ entry.local_timestamp = Num(row.cells[2])
    /\ entry.asks = Asks(row, level) /\ entry.bids = Bids(row, level)

LobTypeOK ==
  /\ lob_data \in Seq(LOBData) /\ sources \in Seq(Row) /\ Len(sources) = Len(lob_data)
  /\ row \in Row /\ entry \in LOBData
  /\ column \in Nat /\ column >= 1
  /\ level \in Nat /\ level <= Depth

LobInv ==
  /\ LobTypeOK
  /\ loader = "levels" => FrontRead /\ InStep
  /\ RowsReadAsMeant
  /\ FrontIsIntact

LEMMA LobStart == ASSUME LobInit PROVE LobInv
<1>1. NoRow \in Row /\ EmptyBook \in LOBData
  BY DEF NoRow, Row, EmptyBook, LOBData
<1>2. LobTypeOK
  BY <1>1, DepthAssumption DEF LobInit, LobTypeOK
<1>3. Len(lob_data) = 0 /\ loader = "rows"
  BY DEF LobInit
<1> QED BY <1>2, <1>3 DEF LobInv, RowsReadAsMeant, FrontIsIntact

\* Steps that end no row leave what was loaded.
LEMMA LoadedStays ==
  ASSUME LobInv, lob_data' = lob_data, sources' = sources
  PROVE  RowsReadAsMeant' /\ FrontIsIntact'
BY DEF LobInv, RowsReadAsMeant, FrontIsIntact

LEMMA TimestampIsNumber ==
  ASSUME NEW r \in Row, Converts(CellAfter(r, 2)) PROVE Num(CellAfter(r, 2)) \in Int
<1>1. r.cells \in Seq(Cell) /\ Len(r.cells) \in Nat
  BY DEF Row
<1>2. CASE Read(r, 2)
  <2>1. CellAfter(r, 2) = r.cells[2] /\ 2 \in 1..Len(r.cells)
    BY <1>1, <1>2 DEF CellAfter, Read
  <2> QED BY <2>1, RowFacts
<1>3. CASE ~Read(r, 2)
  <2>1. CellAfter(r, 2) # Empty
    BY DEF Converts, Empty
  <2>2. CellAfter(r, 2) = Last(r.cells) /\ r.cells # << >>
    BY <1>3, <2>1 DEF CellAfter
  <2>3. Last(r.cells) = r.cells[Len(r.cells)] /\ Len(r.cells) \in 1..Len(r.cells)
    BY <1>1, <2>2 DEF Last
  <2> QED BY <2>2, <2>3, RowFacts
<1> QED BY <1>2, <1>3

LEMMA BeginRowLoads ==
  ASSUME LobInv, NEW r \in LobRows, BeginRow(r) PROVE LobInv'
<1>1. /\ r \in Row /\ row' = r /\ column' = 3 /\ level' = 0
      /\ entry' = [EmptyBook EXCEPT !.local_timestamp = Num(CellAfter(r, 2))]
      /\ Converts(CellAfter(r, 2)) /\ lob_data' = lob_data /\ sources' = sources
  BY LobRowsAssumption DEF BeginRow
<1>2. Num(CellAfter(r, 2)) \in Int
  BY <1>1, TimestampIsNumber
<1>3. /\ entry' \in LOBData /\ entry'.asks = << >> /\ entry'.bids = << >>
      /\ entry'.local_timestamp = Num(CellAfter(r, 2))
  <2> DEFINE t == Num(CellAfter(r, 2))
  <2>1. entry' = [local_timestamp |-> t, asks |-> << >>, bids |-> << >>]
    BY <1>1 DEF EmptyBook
  <2>2. t \in Int /\ << >> \in Seq(OrderBookEntry)
    BY <1>2
  <2> HIDE DEF t
  <2>3. /\ entry' \in LOBData /\ entry'.asks = << >> /\ entry'.bids = << >>
        /\ entry'.local_timestamp = t
    BY <2>1, <2>2 DEF LOBData
  <2> QED BY <2>3 DEF t
<1>4. LobTypeOK'
  BY <1>1, <1>3, DepthAssumption DEF LobInv, LobTypeOK
<1>5. \A m \in Nat : m <= Whole(r) => Asks(r, 0) = << >> /\ Bids(r, 0) = << >>
  <2>1. ASSUME NEW m \in Nat, m <= Whole(r) PROVE Entries(r, 1, 0) = << >> /\ Entries(r, 3, 0) = << >>
    BY <1>1, <2>1, EntriesGrow
  <2> QED BY <2>1 DEF Asks, Bids
<1>6. FrontRead'
  BY <1>1, <1>3, <1>5 DEF FrontRead
<1>7. InStep'
  <2> SUFFICES ASSUME Len(r.cells) >= 2
               PROVE  /\ 0 <= Whole(r) /\ Num(CellAfter(r, 2)) = Num(r.cells[2])
                      /\ << >> = Asks(r, 0) /\ << >> = Bids(r, 0)
    BY <1>1, <1>3 DEF InStep
  <2>1. 0 <= Whole(r)
    BY <1>1, RowFacts, DepthAssumption
  <2>2. CellAfter(r, 2) = r.cells[2]
    BY DEF CellAfter, Read
  <2> QED BY <1>5, <2>1, <2>2
<1> QED BY <1>1, <1>4, <1>6, <1>7, LoadedStays DEF LobInv

\* The level at which the loop is, when no cell was left over or missed.
LEMMA LevelInStep ==
  ASSUME LobTypeOK, column = 4 * level + 3
  PROVE  /\ level + 1 \in Nat /\ level + 1 >= 1
         /\ row.cells[column] = Cells(row, level + 1)[1] /\ row.cells[column + 1] = Cells(row, level + 1)[2]
         /\ row.cells[column + 2] = Cells(row, level + 1)[3] /\ row.cells[column + 3] = Cells(row, level + 1)[4]
         /\ Good(row, level + 1) <=> \A k \in 0..3 : Converts(row.cells[column + k])
<1>1. level \in Nat /\ level + 1 \in Nat
  BY DEF LobTypeOK
<1>2. /\ column = 4 * (level + 1) - 1 /\ column + 1 = 4 * (level + 1)
      /\ column + 2 = 4 * (level + 1) + 1 /\ column + 3 = 4 * (level + 1) + 2
      /\ column + 0 = column
  BY <1>1
<1>3. (\A k \in 0..3 : Converts(row.cells[column + k])) <=>
        /\ Converts(row.cells[column + 0]) /\ Converts(row.cells[column + 1])
        /\ Converts(row.cells[column + 2]) /\ Converts(row.cells[column + 3])
  <2>1. 0..3 = {0, 1, 2, 3}
    OBVIOUS
  <2> QED BY <2>1
<1> QED BY <1>1, <1>2, <1>3, CellsOfLevel

LEMMA ReadLevelLoads ==
  ASSUME LobInv, ReadLevel PROVE LobInv'
<1>1. /\ loader = "levels" /\ level < Depth /\ Converted(4) /\ LobTypeOK /\ FrontRead /\ InStep
      /\ entry' = Pushed(entry, column) /\ column' = column + 4 /\ level' = level + 1
      /\ row' = row /\ lob_data' = lob_data /\ sources' = sources
  BY DEF ReadLevel, LobInv
<1>2. /\ row \in Row /\ entry \in LOBData /\ level \in Nat /\ column \in Nat /\ column >= 1
      /\ Whole(row) \in Int /\ Whole(row) <= Depth /\ Len(row.cells) \in Nat
      /\ Depth \in Nat
  BY <1>1, RowFacts, DepthAssumption DEF LobTypeOK
<1>3. /\ \A k \in 0..3 : column + k <= Len(row.cells) /\ Converts(row.cells[column + k])
      /\ Num(row.cells[column]) \in Int /\ Num(row.cells[column + 1]) \in Int
      /\ Num(row.cells[column + 2]) \in Int /\ Num(row.cells[column + 3]) \in Int
  <2>1. \A k \in 0..3 : column + k <= Len(row.cells) /\ Converts(row.cells[column + k])
    BY <1>1 DEF Converted, Read
  <2>2. \A k \in 0..3 : column + k \in 1..Len(row.cells)
    BY <1>2, <2>1
  <2>3. \A k \in 0..3 : Num(row.cells[column + k]) \in Int
    BY <1>2, <2>1, <2>2, RowFacts
  <2>4. column + 0 = column
    BY <1>2
  <2>5. /\ Num(row.cells[column + 0]) \in Int /\ Num(row.cells[column + 1]) \in Int
        /\ Num(row.cells[column + 2]) \in Int /\ Num(row.cells[column + 3]) \in Int
    BY <2>3
  <2> QED BY <2>1, <2>4, <2>5
<1> DEFINE a == Tradable(Num(row.cells[column]), Num(row.cells[column + 1]))
           b == Tradable(Num(row.cells[column + 2]), Num(row.cells[column + 3]))
<1>4. a \in Seq(OrderBookEntry) /\ b \in Seq(OrderBookEntry)
  BY <1>3, TradableSeq
<1>5. /\ entry' \in LOBData /\ entry'.asks = entry.asks \o a /\ entry'.bids = entry.bids \o b
      /\ entry'.local_timestamp = entry.local_timestamp
      /\ entry.asks \in Seq(OrderBookEntry) /\ entry.bids \in Seq(OrderBookEntry)
  <2>1. entry' = [entry EXCEPT !.asks = @ \o a, !.bids = @ \o b]
    BY <1>1 DEF Pushed
  <2>2. entry.asks \in Seq(OrderBookEntry) /\ entry.bids \in Seq(OrderBookEntry)
    BY <1>2 DEF LOBData
  <2> HIDE DEF a, b
  <2>3. entry.asks \o a \in Seq(OrderBookEntry) /\ entry.bids \o b \in Seq(OrderBookEntry)
    BY <1>4, <2>2
  <2> QED BY <1>2, <2>1, <2>2, <2>3 DEF LOBData
<1>6. LobTypeOK'
  BY <1>1, <1>2, <1>5 DEF LobTypeOK
<1>7. ASSUME column = 4 * level + 3, level <= Whole(row),
             entry.asks = Asks(row, level), entry.bids = Bids(row, level)
      PROVE  /\ Good(row, level + 1) /\ level + 1 <= Whole(row) /\ column' = 4 * (level + 1) + 3
             /\ entry'.asks = Asks(row, level + 1) /\ entry'.bids = Bids(row, level + 1)
  <2>1. Good(row, level + 1)
    BY <1>1, <1>3, <1>7, LevelInStep
  <2>2. level + 1 <= Whole(row)
    <3>1. column + 3 <= Len(row.cells)
      BY <1>3
    <3>2. level + 1 \in Nat /\ level + 1 <= Depth /\ 4 * (level + 1) + 2 <= Len(row.cells)
      BY <1>1, <1>2, <1>7, <3>1
    <3> QED BY <1>2, <3>2, RowFacts
  <2>3. a = Addition(row, 1, level + 1) /\ b = Addition(row, 3, level + 1)
    <3>1. 1 + 1 = 2 /\ 3 + 1 = 4
      OBVIOUS
    <3> QED BY <1>1, <1>7, <2>1, <3>1, LevelInStep DEF Addition
  <2> HIDE DEF a, b
  <2>4. /\ Entries(row, 1, level + 1) = Entries(row, 1, level) \o a
        /\ Entries(row, 3, level + 1) = Entries(row, 3, level) \o b
    BY <1>2, <1>7, <2>2, <2>3, EntriesGrow
  <2>5. column' = 4 * (level + 1) + 3
    BY <1>1, <1>2, <1>7
  <2> QED BY <1>5, <1>7, <2>1, <2>2, <2>4, <2>5 DEF Asks, Bids
<1> HIDE DEF a, b
<1>8. FrontRead'
  <2> SUFFICES ASSUME NEW m \in Nat, m <= Whole(row), \A l \in 1..m : Good(row, l)
               PROVE  IF level + 1 <= m
                      THEN /\ column' = 4 * (level + 1) + 3
                           /\ entry'.asks = Asks(row, level + 1) /\ entry'.bids = Bids(row, level + 1)
                      ELSE IsPrefix(Asks(row, m), entry'.asks) /\ IsPrefix(Bids(row, m), entry'.bids)
    BY <1>1 DEF FrontRead
  <2>1. Asks(row, m) \in Seq(OrderBookEntry) /\ Bids(row, m) \in Seq(OrderBookEntry)
    BY <1>2, EntriesGrow DEF Asks, Bids
  <2>2. CASE level + 1 <= m
    <3>1. level <= m /\ level <= Whole(row)
      BY <1>2, <2>2
    <3> QED BY <1>1, <1>7, <2>2, <3>1 DEF FrontRead
  <2>3. CASE ~(level + 1 <= m)
    <3>1. IsPrefix(Asks(row, m), entry.asks) /\ IsPrefix(Bids(row, m), entry.bids)
      <4>1. CASE level = m
        <5>1. entry.asks = Asks(row, m) /\ entry.bids = Bids(row, m)
          BY <1>1, <1>2, <4>1 DEF FrontRead
        <5> QED BY <2>1, <5>1, PrefixOfItself
      <4>2. CASE level # m
        <5>1. ~(level <= m)
          BY <1>2, <2>3, <4>2
        <5> QED BY <1>1, <5>1 DEF FrontRead
      <4> QED BY <4>1, <4>2
    <3> QED BY <1>4, <1>5, <2>1, <2>3, <3>1, PrefixOfLonger
  <2> QED BY <2>2, <2>3
<1>9. InStep'
  <2> SUFFICES ASSUME Len(row.cells) >= 2, ErrorsAtLevelEnds(row)
               PROVE  /\ level + 1 <= Whole(row) /\ column' = 4 * (level + 1) + 3
                      /\ entry'.local_timestamp = Num(row.cells[2])
                      /\ entry'.asks = Asks(row, level + 1) /\ entry'.bids = Bids(row, level + 1)
    BY <1>1 DEF InStep
  <2> QED BY <1>1, <1>5, <1>7 DEF InStep
<1> QED BY <1>1, <1>6, <1>8, <1>9, LoadedStays DEF LobInv

LEMMA SkipLevelLoads ==
  ASSUME LobInv, SkipLevel PROVE LobInv'
<1>1. /\ loader = "levels" /\ level < Depth /\ LobTypeOK /\ FrontRead /\ InStep
      /\ entry' = entry /\ level' = level + 1
      /\ row' = row /\ lob_data' = lob_data /\ sources' = sources
  BY DEF SkipLevel, LobInv
<1>2. PICK j \in 0..3 : /\ Converted(j) /\ Read(row, column + j)
                        /\ ~Converts(row.cells[column + j]) /\ column' = column + j + 1
  BY DEF SkipLevel
<1>3. /\ row \in Row /\ entry \in LOBData /\ level \in Nat /\ column \in Nat /\ column >= 1
      /\ Whole(row) \in Int /\ Whole(row) <= Depth /\ Len(row.cells) \in Nat
      /\ Depth \in Nat /\ column + j <= Len(row.cells)
  BY <1>1, <1>2, RowFacts, DepthAssumption DEF LobTypeOK, Read
<1>4. LobTypeOK'
  BY <1>1, <1>2, <1>3 DEF LobTypeOK
<1>5. column = 4 * level + 3 => ~Good(row, level + 1)
  BY <1>1, <1>2, LevelInStep
<1>6. FrontRead'
  <2> SUFFICES ASSUME NEW m \in Nat, m <= Whole(row), \A l \in 1..m : Good(row, l)
               PROVE  /\ ~(level + 1 <= m)
                      /\ IsPrefix(Asks(row, m), entry.asks) /\ IsPrefix(Bids(row, m), entry.bids)
    BY <1>1 DEF FrontRead
  <2>1. Asks(row, m) \in Seq(OrderBookEntry) /\ Bids(row, m) \in Seq(OrderBookEntry)
    BY <1>3, EntriesGrow DEF Asks, Bids
  <2>2. ~(level + 1 <= m)
    <3> SUFFICES ASSUME level + 1 <= m PROVE FALSE
      OBVIOUS
    <3>1. level <= m /\ level + 1 \in 1..m
      BY <1>3
    <3>2. Good(row, level + 1)
      BY <3>1
    <3>3. column = 4 * level + 3
      BY <1>1, <3>1 DEF FrontRead
    <3> QED BY <1>5, <3>2, <3>3
  <2>3. CASE level = m
    <3>1. entry.asks = Asks(row, m) /\ entry.bids = Bids(row, m)
      BY <1>1, <1>3, <2>3 DEF FrontRead
    <3> QED BY <2>1, <2>2, <3>1, PrefixOfItself
  <2>4. CASE level # m
    <3>1. ~(level <= m)
      BY <1>3, <2>2, <2>4
    <3> QED BY <1>1, <2>2, <3>1 DEF FrontRead
  <2> QED BY <2>3, <2>4
<1>7. InStep'
  <2> SUFFICES ASSUME Len(row.cells) >= 2, ErrorsAtLevelEnds(row)
               PROVE  /\ level + 1 <= Whole(row) /\ column + j + 1 = 4 * (level + 1) + 3
                      /\ entry.local_timestamp = Num(row.cells[2])
                      /\ entry.asks = Asks(row, level + 1) /\ entry.bids = Bids(row, level + 1)
    BY <1>1, <1>2 DEF InStep
  <2>1. /\ level <= Whole(row) /\ column = 4 * level + 3
        /\ entry.local_timestamp = Num(row.cells[2])
        /\ entry.asks = Asks(row, level) /\ entry.bids = Bids(row, level)
    BY <1>1 DEF InStep
  <2>2. j = 3
    <3>1. column + j \in 3..Len(row.cells)
      BY <1>3, <2>1
    <3>2. (column + j - 2) % 4 = 0
      <4>1. \A k \in 3..Len(row.cells) : ~Converts(row.cells[k]) => (k - 2) % 4 = 0
        BY Zenon DEF ErrorsAtLevelEnds
      <4> DEFINE c == column + j
      <4>2. c \in 3..Len(row.cells) /\ ~Converts(row.cells[c])
        BY <1>2, <3>1
      <4>3. (c - 2) % 4 = 0
        <5> HIDE DEF c
        <5> QED BY <4>1, <4>2, Zenon
      <4>4. column + j - 2 = c - 2
        BY <1>3
      <4> QED BY <4>3, <4>4
    <3>3. column + j - 2 = 4 * level + (1 + j)
      BY <1>3, <2>1
    <3> QED BY <1>3, <3>2, <3>3
  <2>3. level + 1 <= Whole(row)
    <3>1. level + 1 \in Nat /\ level + 1 <= Depth /\ 4 * (level + 1) + 2 <= Len(row.cells)
      BY <1>1, <1>3, <2>1, <2>2
    <3> QED BY <1>3, <3>1, RowFacts
  <2>4. Addition(row, 1, level + 1) = << >> /\ Addition(row, 3, level + 1) = << >>
    BY <1>5, <2>1 DEF Addition
  <2>5. Entries(row, 1, level + 1) = Entries(row, 1, level) /\ Entries(row, 3, level + 1) = Entries(row, 3, level)
    <3>1. /\ Entries(row, 1, level + 1) = Entries(row, 1, level) \o << >>
          /\ Entries(row, 3, level + 1) = Entries(row, 3, level) \o << >>
          /\ Entries(row, 1, level) \in Seq(OrderBookEntry) /\ Entries(row, 3, level) \in Seq(OrderBookEntry)
      BY <1>3, <2>1, <2>3, <2>4, EntriesGrow
    <3> QED BY <3>1
  <2> QED BY <1>3, <2>1, <2>2, <2>3, <2>5 DEF Asks, Bids
<1> QED BY <1>1, <1>4, <1>6, <1>7, LoadedStays DEF LobInv

\* The loop ends when there are no more levels to read.
LEMMA LoopEnds ==
  ASSUME LobTypeOK, column = 4 * level + 3, level = Depth \/ NoMoreCells
  PROVE  ~(level + 1 <= Whole(row))
<1>1. /\ row \in Row /\ level \in Nat /\ column \in Nat /\ Whole(row) \in Int /\ Whole(row) <= Depth
      /\ Len(row.cells) \in Nat /\ Depth \in Nat
  BY RowFacts, DepthAssumption DEF LobTypeOK
<1>2. CASE level = Depth
  BY <1>1, <1>2
<1>3. CASE NoMoreCells
  <2>1. PICK j \in 0..3 : ~(column + j <= Len(row.cells))
    BY <1>3 DEF NoMoreCells, Read
  <2>2. ~(4 * (level + 1) + 2 <= Len(row.cells)) /\ level + 1 \in Nat
    BY <1>1, <2>1
  <2> QED BY <1>1, <2>2, RowFacts
<1> QED BY <1>2, <1>3

LEMMA EndRowLoads ==
  ASSUME LobInv, EndRow PROVE LobInv'
<1>1. /\ loader = "levels" /\ (level = Depth \/ NoMoreCells)
      /\ LobTypeOK /\ FrontRead /\ InStep /\ RowsReadAsMeant /\ FrontIsIntact
      /\ lob_data' = Append(lob_data, entry) /\ sources' = Append(sources, row)
      /\ loader' = "rows" /\ row' = NoRow /\ column' = 1 /\ level' = 0 /\ entry' = EmptyBook
  BY DEF EndRow, LobInv
<1>2. /\ row \in Row /\ entry \in LOBData /\ level \in Nat /\ column \in Nat
      /\ Whole(row) \in Int /\ Depth \in Nat
      /\ lob_data \in Seq(LOBData) /\ sources \in Seq(Row) /\ Len(sources) = Len(lob_data)
  BY <1>1, RowFacts, DepthAssumption DEF LobTypeOK
<1>3. NoRow \in Row /\ EmptyBook \in LOBData
  BY DEF NoRow, Row, EmptyBook, LOBData
<1>4. LobTypeOK'
  BY <1>1, <1>2, <1>3 DEF LobTypeOK
<1>5. /\ Len(lob_data') = Len(lob_data) + 1 /\ Len(lob_data) \in Nat
      /\ lob_data'[Len(lob_data) + 1] = entry /\ sources'[Len(lob_data) + 1] = row
      /\ \A n \in 1..Len(lob_data) : lob_data'[n] = lob_data[n] /\ sources'[n] = sources[n]
  BY <1>1, <1>2
<1>6. ASSUME Len(row.cells) >= 2, ErrorsAtLevelEnds(row)
      PROVE  entry = [local_timestamp |-> Num(row.cells[2]),
                      asks |-> Asks(row, Whole(row)), bids |-> Bids(row, Whole(row))]
  <2>1. /\ level <= Whole(row) /\ column = 4 * level + 3
        /\ entry.local_timestamp = Num(row.cells[2])
        /\ entry.asks = Asks(row, level) /\ entry.bids = Bids(row, level)
    BY <1>1, <1>6 DEF InStep
  <2>2. level = Whole(row)
    <3>1. ~(level + 1 <= Whole(row))
      BY <1>1, <2>1, LoopEnds
    <3> QED BY <1>2, <2>1, <3>1
  <2>3. entry = [local_timestamp |-> entry.local_timestamp, asks |-> entry.asks, bids |-> entry.bids]
    BY <1>2 DEF LOBData
  <2> QED BY <2>1, <2>2, <2>3
<1>7. ASSUME NEW m \in Nat, m <= Whole(row), \A l \in 1..m : Good(row, l)
      PROVE  IsPrefix(Asks(row, m), entry.asks) /\ IsPrefix(Bids(row, m), entry.bids)
  <2>1. Asks(row, m) \in Seq(OrderBookEntry) /\ Bids(row, m) \in Seq(OrderBookEntry)
    BY <1>2, <1>7, EntriesGrow DEF Asks, Bids
  <2>2. CASE level <= m
    <3>1. column = 4 * level + 3 /\ entry.asks = Asks(row, level) /\ entry.bids = Bids(row, level)
      BY <1>1, <1>7, <2>2 DEF FrontRead
    <3>2. ~(level + 1 <= Whole(row))
      BY <1>1, <3>1, LoopEnds
    <3>3. level = m
      BY <1>2, <1>7, <2>2, <3>2
    <3> QED BY <2>1, <3>1, <3>3, PrefixOfItself
  <2>3. CASE ~(level <= m)
    BY <1>1, <1>7, <2>3 DEF FrontRead
  <2> QED BY <2>2, <2>3
<1>8. RowsReadAsMeant'
  <2> SUFFICES ASSUME NEW n \in 1..Len(lob_data'), Len(sources'[n].cells) >= 2, ErrorsAtLevelEnds(sources'[n])
               PROVE  lob_data'[n] = [local_timestamp |-> Num(sources'[n].cells[2]),
                                      asks |-> Asks(sources'[n], Whole(sources'[n])),
                                      bids |-> Bids(sources'[n], Whole(sources'[n]))]
    BY DEF RowsReadAsMeant
  <2>1. CASE n \in 1..Len(lob_data)
    BY <1>1, <1>5, <2>1 DEF RowsReadAsMeant
  <2>2. CASE n = Len(lob_data) + 1
    BY <1>5, <1>6, <2>2
  <2> QED BY <1>5, <2>1, <2>2
<1>9. FrontIsIntact'
  <2> SUFFICES ASSUME NEW n \in 1..Len(lob_data'), NEW m \in 1..Whole(sources'[n]),
                      \A l \in 1..m : Good(sources'[n], l)
               PROVE  /\ IsPrefix(Asks(sources'[n], m), lob_data'[n].asks)
                      /\ IsPrefix(Bids(sources'[n], m), lob_data'[n].bids)
    BY DEF FrontIsIntact
  <2>1. CASE n \in 1..Len(lob_data)
    BY <1>1, <1>5, <2>1 DEF FrontIsIntact
  <2>2. CASE n = Len(lob_data) + 1
    <3>1. sources'[n] = row /\ lob_data'[n] = entry
      BY <1>5, <2>2
    <3>2. m \in Nat /\ m <= Whole(row)
      BY <1>2, <3>1
    <3> QED BY <1>7, <3>1, <3>2
  <2> QED BY <1>5, <2>1, <2>2
<1> QED BY <1>1, <1>4, <1>8, <1>9 DEF LobInv

(* What the loop knows of the row it is at, and what was loaded before.    *)
THEOREM LobInvInductive == LobSpec => []LobInv
<1>1. LobInv /\ [LobNext]_lobVars => LobInv'
  <2> SUFFICES ASSUME LobInv, [LobNext]_lobVars PROVE LobInv'
    OBVIOUS
  <2>1. ASSUME NEW r \in LobRows, SkipRow(r) PROVE LobInv'
    <3>1. UNCHANGED <<loader, row, column, level, entry, lob_data, sources>>
      BY <2>1 DEF SkipRow
    <3> QED BY <3>1, LoadedStays DEF LobInv, LobTypeOK, FrontRead, InStep
  <2>2. CASE UNCHANGED lobVars
    <3>1. UNCHANGED <<loader, row, column, level, entry, lob_data, sources>>
      BY <2>2 DEF lobVars
    <3> QED BY <3>1, LoadedStays DEF LobInv, LobTypeOK, FrontRead, InStep
  <2> QED BY <2>1, <2>2, BeginRowLoads, ReadLevelLoads, SkipLevelLoads, EndRowLoads DEF LobNext
<1> QED BY <1>1, LobStart, PTL DEF LobSpec

(* Rows load as what they say, in the columns of their levels, whenever    *)
(* only last cells of levels do not convert (CSVParser::parse_lob).        *)
THEOREM RowsAreReadAsMeant == LobSpec => []RowsReadAsMeant
<1>1. LobInv => RowsReadAsMeant
  BY DEF LobInv
<1> QED BY <1>1, LobInvInductive, PTL

(* Nothing further on in a row harms the levels before its first cell that *)
(* does not convert.                                                       *)
THEOREM FrontStaysIntact == LobSpec => []FrontIsIntact
<1>1. LobInv => FrontIsIntact
  BY DEF LobInv
<1> QED BY <1>1, LobInvInductive, PTL
=============================================================================
