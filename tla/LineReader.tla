------------------------------ MODULE LineReader ------------------------------
(***************************************************************************)
(* io::LineReader and io::detail::AsynchronousReader of the header         *)
(* include/data_loader/csv.h: a buffer of three blocks, of which a worker  *)
(* thread fills the third while its owner takes lines from the first two.  *)
(* The buffer holds, for each cell, the place in the file of the byte it   *)
(* holds, and 0 for '\0' and for what was never written.                   *)
(***************************************************************************)
EXTENDS Integers, Sequences, FiniteSetsExt

CONSTANTS
  BlockLen,   \* block_len
  Files,      \* the files, sequences of "newline", "return", "bom" and "other"
  MayThrow    \* whether byte_source->read may throw

ASSUME BlockAssumption == BlockLen \in Nat /\ BlockLen >= 2
ASSUME FilesAssumption == Files \subseteq Seq({"newline", "return", "bom", "other"})
ASSUME ThrowAssumption == MayThrow \in BOOLEAN

VARIABLES
  file, offset,  \* the byte source: its bytes and how many it has given
  threaded,      \* false for a build with CSV_IO_NO_THREAD
  buffer, data_begin, data_end,                     \* members of LineReader
  desired_byte_count, read_byte_count, read_error,  \* members of the reader
  termination_requested,
  caller,        \* where the owner of the LineReader is
  worker,        \* where the thread is; it holds the lock while "reading"
  outcome,       \* of the last next_line
  line_at,       \* the cell at which the line it returned starts
  delivered      \* history variable: the lines returned

bufferVars == <<buffer, data_begin, data_end>>
readerVars == <<desired_byte_count, read_byte_count, read_error, termination_requested>>
resultVars == <<outcome, line_at, delivered>>
lineVars == <<file, offset, threaded, bufferVars, readerVars, caller, worker, resultVars>>

Slots == 0..(3 * BlockLen - 1)

\* Mutant: reads go to the second block, which saves the copy.
SecondBlock == BlockLen

\* The third block, the target of every read after the first.
Target == 2 * BlockLen

----------------------------------------------------------------------------
Kind(cell) == IF buffer[cell] = 0 THEN "null" ELSE file[buffer[cell]]

\* reader.is_valid(): init hands the source over when it fills two blocks.
IsValid == Len(file) >= 2 * BlockLen

\* The file starts with a byte order mark.
Marked(n) == n >= 3 /\ \A k \in 1..3 : file[k] = "bom"

LineInit ==
  /\ file \in Files
  /\ threaded \in BOOLEAN
  /\ offset = Min({2 * BlockLen, Len(file)})
  /\ buffer = [c \in Slots |-> IF c < offset THEN c + 1 ELSE 0]
  /\ data_begin = IF Marked(offset) THEN 3 ELSE 0
  /\ data_end = offset
  /\ desired_byte_count = -1
  /\ read_byte_count = -1
  /\ read_error = FALSE
  /\ termination_requested = FALSE
  /\ worker = IF IsValid /\ threaded THEN "awake" ELSE "none"
  /\ caller = IF IsValid THEN "constructing" ELSE "outside"
  /\ outcome = "none"
  /\ line_at = 0
  /\ delivered = << >>

\* The lock is taken for each of the caller's critical sections, and the
\* worker keeps it for the whole of a read.
LockFree == worker # "reading"

NotifyWorker == worker' = IF worker = "asleep" THEN "awake" ELSE worker

\* What byte_source->read(buffer, BlockLen) gives, and where it puts it.
Given == Min({BlockLen, Len(file) - offset})
Filled(at) == [c \in Slots |-> IF at <= c /\ c < at + Given THEN offset + (c - at) + 1 ELSE buffer[c]]

----------------------------------------------------------------------------
(* The thread.                                                             *)

\* The wait: with the lock, test the predicate, and go to sleep without it.
WorkerTests ==
  /\ worker = "awake"
  /\ worker' = IF termination_requested THEN "ended"
               ELSE IF desired_byte_count # -1 THEN "reading" ELSE "asleep"
  /\ UNCHANGED <<file, offset, threaded, bufferVars, readerVars, caller, resultVars>>

WakeCaller == caller' = IF caller = "sleeping" THEN "finishing" ELSE caller

\* A read that gives nothing is the thread's last; after any other it waits
\* again, still with the lock, for a request that cannot be there yet.
WorkerReads ==
  /\ worker = "reading"
  /\ buffer' = Filled(Target)
  /\ offset' = offset + Given
  /\ read_byte_count' = Given
  /\ desired_byte_count' = -1
  /\ worker' = IF Given = 0 THEN "ended" ELSE "asleep"
  /\ WakeCaller
  /\ UNCHANGED <<file, threaded, data_begin, data_end, read_error, termination_requested, resultVars>>

WorkerFails ==
  /\ MayThrow
  /\ worker = "reading"
  /\ read_error' = TRUE
  /\ worker' = "ended"
  /\ WakeCaller
  /\ UNCHANGED <<file, offset, threaded, bufferVars, desired_byte_count, read_byte_count,
                 termination_requested, resultVars>>

----------------------------------------------------------------------------
(* next_line.                                                              *)

AtEnd ==
  /\ caller = "outside"
  /\ data_begin = data_end
  /\ outcome' = "end"
  /\ UNCHANGED <<file, offset, threaded, bufferVars, readerVars, caller, worker, line_at, delivered>>

PastFirstBlock == data_begin >= BlockLen

NextLine ==
  /\ caller = "outside"
  /\ data_begin # data_end
  /\ ~PastFirstBlock
  /\ caller' = "scanning"
  /\ UNCHANGED <<file, offset, threaded, bufferVars, readerVars, worker, resultVars>>

NextLineShifts ==
  /\ caller = "outside"
  /\ data_begin # data_end
  /\ PastFirstBlock
  /\ buffer' = [c \in Slots |-> IF c < BlockLen THEN buffer[c + BlockLen] ELSE buffer[c]]
  /\ data_begin' = data_begin - BlockLen
  /\ data_end' = data_end - BlockLen
  /\ caller' = IF IsValid THEN "finishing" ELSE "scanning"
  /\ UNCHANGED <<file, offset, threaded, readerVars, worker, resultVars>>

\* Mutant: only a finished read ends the wait, not a failed one.
ReadFinishedOnly == read_byte_count # -1

\* The predicate of the wait in finish_read.
ReadFinished == read_byte_count # -1 \/ read_error

FinishWaits ==
  /\ caller = "finishing"
  /\ threaded
  /\ LockFree
  /\ ~ReadFinished
  /\ caller' = "sleeping"
  /\ UNCHANGED <<file, offset, threaded, bufferVars, readerVars, worker, resultVars>>

Throws(what) ==
  /\ outcome' = what
  /\ caller' = "outside"
  /\ UNCHANGED <<line_at, delivered>>

FinishThrows ==
  /\ caller = "finishing"
  /\ threaded
  /\ LockFree
  /\ read_error
  /\ Throws("error")
  /\ UNCHANGED <<file, offset, threaded, bufferVars, readerVars, worker>>

\* Mutant: the next read is requested before the block is copied.
FinishReturnsAndStarts ==
  /\ caller = "finishing"
  /\ threaded
  /\ LockFree
  /\ read_byte_count # -1 /\ ~read_error
  /\ data_end' = data_end + read_byte_count
  /\ desired_byte_count' = BlockLen
  /\ read_byte_count' = -1
  /\ NotifyWorker
  /\ caller' = "copying"
  /\ UNCHANGED <<file, offset, threaded, buffer, data_begin, read_error, termination_requested, resultVars>>

FinishReturns ==
  /\ caller = "finishing"
  /\ threaded
  /\ LockFree
  /\ read_byte_count # -1 /\ ~read_error
  /\ data_end' = data_end + read_byte_count
  /\ caller' = "copying"
  /\ UNCHANGED <<file, offset, threaded, buffer, data_begin, readerVars, worker, resultVars>>

\* The build without threads reads now what start_read only asked for.
FinishReads ==
  /\ caller = "finishing"
  /\ ~threaded
  /\ buffer' = Filled(Target)
  /\ offset' = offset + Given
  /\ data_end' = data_end + Given
  /\ caller' = "copying"
  /\ UNCHANGED <<file, threaded, data_begin, readerVars, worker, resultVars>>

FinishFails ==
  /\ MayThrow
  /\ caller = "finishing"
  /\ ~threaded
  /\ read_error' = TRUE
  /\ Throws("error")
  /\ UNCHANGED <<file, offset, threaded, bufferVars, desired_byte_count, read_byte_count,
                 termination_requested, worker>>

CopyBlock ==
  /\ caller = "copying"
  /\ buffer' = [c \in Slots |-> IF BlockLen <= c /\ c < 2 * BlockLen THEN buffer[c + BlockLen]
                                ELSE buffer[c]]
  /\ caller' = "starting"
  /\ UNCHANGED <<file, offset, threaded, data_begin, data_end, readerVars, worker, resultVars>>

\* start_read, called by init and by next_line.
StartRead ==
  /\ caller \in {"constructing", "starting"}
  /\ LockFree
  /\ desired_byte_count' = BlockLen
  /\ read_byte_count' = -1
  /\ NotifyWorker
  /\ caller' = IF caller = "constructing" THEN "outside" ELSE "scanning"
  /\ UNCHANGED <<file, offset, threaded, bufferVars, read_error, termination_requested, resultVars>>

\* Where the line ends: at its newline or where the data does.
LineEnd ==
  Min({data_end} \cup {c \in data_begin..(data_end - 1) : Kind(c) = "newline"})

\* Mutant: the newline is not counted.
TooLongWithout == LineEnd - data_begin > BlockLen

TooLong == (LineEnd - data_begin) + 1 > BlockLen

LineTooLong ==
  /\ caller = "scanning"
  /\ TooLong
  /\ Throws("too_long")
  /\ UNCHANGED <<file, offset, threaded, bufferVars, readerVars, worker>>

\* The cell that gets the '\0': the carriage return if there is one.
TextEnd ==
  IF LineEnd # data_begin /\ Kind(LineEnd - 1) = "return" THEN LineEnd - 1 ELSE LineEnd

\* Mutant: the end stays when the last line has no newline.
EndKept == data_end

\* A last line without a newline is given one, after the data.
EndAfterLine == IF LineEnd = data_end THEN data_end + 1 ELSE data_end

ReturnLine ==
  /\ caller = "scanning"
  /\ ~TooLong
  /\ delivered' = Append(delivered, [k \in 1..(TextEnd - data_begin) |-> buffer[data_begin + k - 1]])
  /\ line_at' = data_begin
  /\ outcome' = "line"
  /\ buffer' = [buffer EXCEPT ![LineEnd] = 0, ![TextEnd] = 0]
  /\ data_end' = EndAfterLine
  /\ data_begin' = LineEnd + 1
  /\ caller' = "outside"
  /\ UNCHANGED <<file, offset, threaded, readerVars, worker>>

----------------------------------------------------------------------------
(* The destructor: of the reader, and only then of the buffer.             *)

Destroy ==
  /\ caller = "outside"
  /\ IF IsValid /\ threaded
     THEN LockFree /\ termination_requested' = TRUE /\ caller' = "notifying"
     ELSE caller' = "destroyed" /\ UNCHANGED termination_requested
  /\ UNCHANGED <<file, offset, threaded, bufferVars, desired_byte_count, read_byte_count,
                 read_error, worker, resultVars>>

NotifyTermination ==
  /\ caller = "notifying"
  /\ NotifyWorker
  /\ caller' = "joining"
  /\ UNCHANGED <<file, offset, threaded, bufferVars, readerVars, resultVars>>

Join ==
  /\ caller = "joining"
  /\ worker = "ended"
  /\ caller' = "destroyed"
  /\ UNCHANGED <<file, offset, threaded, bufferVars, readerVars, worker, resultVars>>

----------------------------------------------------------------------------
Work == WorkerTests \/ WorkerReads \/ WorkerFails

\* The rest of a call that has begun.
CallStep ==
  \/ FinishWaits \/ FinishThrows \/ FinishReturns \/ FinishReads \/ FinishFails
  \/ CopyBlock \/ StartRead \/ LineTooLong \/ ReturnLine
  \/ NotifyTermination \/ Join

\* A wait may end without a notification.
SpuriousWakeup ==
  /\ \/ worker = "asleep" /\ worker' = "awake" /\ UNCHANGED caller
     \/ caller = "sleeping" /\ caller' = "finishing" /\ UNCHANGED worker
  /\ UNCHANGED <<file, offset, threaded, bufferVars, readerVars, resultVars>>

LineNext ==
  \/ AtEnd \/ NextLine \/ NextLineShifts \/ Destroy
  \/ CallStep
  \/ Work
  \/ SpuriousWakeup

LineSpec == LineInit /\ [][LineNext]_lineVars

(* Both threads are scheduled while they can go on, and a read returns.    *)
(* Nobody has to ask for a line, and no wakeup has to be spurious.         *)
FairLineSpec == LineSpec /\ WF_lineVars(CallStep) /\ WF_lineVars(Work)

----------------------------------------------------------------------------
LineTypeOK ==
  /\ file \in Files /\ offset \in 0..Len(file) /\ threaded \in BOOLEAN
  /\ buffer \in [Slots -> 0..Len(file)]
  /\ data_begin \in Nat /\ data_end \in Nat
  /\ desired_byte_count \in {-1, BlockLen} /\ read_byte_count \in -1..BlockLen
  /\ read_error \in BOOLEAN /\ termination_requested \in BOOLEAN
  /\ caller \in {"constructing", "outside", "finishing", "sleeping", "copying", "starting",
                 "scanning", "notifying", "joining", "destroyed"}
  /\ worker \in {"none", "awake", "asleep", "reading", "ended"}
  /\ outcome \in {"none", "line", "end", "too_long", "error"}
  /\ line_at \in Slots
  /\ delivered \in Seq(Seq(Nat))

(* next_line asserts it (csv.h:429-430): the data is never behind its end, *)
(* and its end is never in the block that the thread is filling, however   *)
(* blocks, lines and the end of the file meet.                             *)
AssertionsHold ==
  caller = "outside" /\ data_begin # data_end => data_begin < data_end /\ data_end <= 2 * BlockLen

(* The thread writes to the third block without its owner looking at it:   *)
(* neither to copy it nor to end a line in it.  Nor has the owner freed it *)
(* (csv.h:292-293, "must be constructed before (and thus destructed after) *)
(* the reader!").                                                          *)
NoDataRace ==
  worker = "reading" =>
    /\ caller \notin {"copying", "destroyed"}
    /\ caller = "scanning" /\ ~TooLong => LineEnd < Target

(* A line stays as it was returned until the next call, whatever the       *)
(* thread does meanwhile: the pointers read_row hands out point into it.   *)
LineStays ==
  caller = "outside" /\ outcome = "line" =>
    LET text == delivered[Len(delivered)]
    IN  \A k \in 1..Len(text) : buffer[line_at + k - 1] = text[k]

(* The reader implements a stream of lines of fewer than BlockLen bytes:   *)
(* they are the file's, complete, in order, none twice, and the end comes  *)
(* after the last.  A source that throws cuts the file where it stopped.   *)
Stream == INSTANCE LineStream
  WITH Limit <- BlockLen - 1, broken <- read_error,
       seen <- IF read_error THEN SubSeq(file, 1, offset) ELSE file
ImplementsStream == Stream!StreamSpec

(* Every call returns or throws, also the destructor, whose thread may be  *)
(* asleep, reading, or gone: no notification is lost.                      *)
CallsReturn == caller \notin {"outside", "destroyed"} ~> caller \in {"outside", "destroyed"}
=============================================================================
