------------------------------ MODULE LineStream ------------------------------
(***************************************************************************)
(* What io::LineReader (include/data_loader/csv.h) promises: the lines of  *)
(* a file, one per call and in their order, then the end.  A line that is  *)
(* too long is refused, and a source that fails cuts the file short.       *)
(***************************************************************************)
EXTENDS Integers, Sequences, FiniteSets

CONSTANTS
  Files,  \* the sequences of bytes a file may be
  Limit   \* the most bytes a line may have before its newline

VARIABLES
  seen,       \* the bytes there are to serve
  broken,     \* the source has failed
  delivered,  \* the lines served, each the places of its bytes in the file
  outcome     \* of the last call

streamVars == <<seen, broken, delivered, outcome>>

HasBOM(bytes) == Len(bytes) >= 3 /\ \A k \in 1..3 : bytes[k] = "bom"

\* Where the lines of a sequence of bytes start: after the byte order mark,
\* and after each newline that something follows.
Starts(bytes) ==
  {k \in 1..Len(bytes) :
     \/ k = (IF HasBOM(bytes) THEN 4 ELSE 1)
     \/ k > 1 /\ bytes[k-1] = "newline"}

\* The line that starts at the byte "from": up to a newline or the end.
LineFrom(bytes, from) ==
  {k \in from..Len(bytes) : \A j \in from..k : bytes[j] # "newline"}

\* Its text, without the carriage return that may end it.
Text(bytes, from) ==
  LET n == Cardinality(LineFrom(bytes, from))
      m == IF n > 0 /\ bytes[from + n - 1] = "return" THEN n - 1 ELSE n
  IN  [k \in 1..m |-> from + k - 1]

\* The start of the line after those delivered.
IsNext(from) ==
  /\ from \in Starts(seen)
  /\ Cardinality({k \in Starts(seen) : k < from}) = Len(delivered)

StreamInit ==
  /\ seen \in Files
  /\ broken = FALSE
  /\ delivered = << >>
  /\ outcome = "none"

Deliver ==
  \E from \in Starts(seen) :
    /\ IsNext(from)
    /\ Cardinality(LineFrom(seen, from)) <= Limit
    /\ delivered' = Append(delivered, Text(seen, from))
    /\ outcome' = "line"
    /\ UNCHANGED <<seen, broken>>

Refuse ==
  /\ \E from \in Starts(seen) : IsNext(from) /\ Cardinality(LineFrom(seen, from)) > Limit
  /\ outcome' = "too_long"
  /\ UNCHANGED <<seen, broken, delivered>>

End ==
  /\ Len(delivered) = Cardinality(Starts(seen))
  /\ outcome' = "end"
  /\ UNCHANGED <<seen, broken, delivered>>

\* The source fails: what it has not given is lost.
Breaks ==
  /\ ~broken
  /\ broken' = TRUE
  /\ \E k \in 0..Len(seen) : seen' = SubSeq(seen, 1, k)

Break == Breaks /\ UNCHANGED <<delivered, outcome>>

Report ==
  /\ Breaks \/ (broken /\ UNCHANGED <<seen, broken>>)
  /\ outcome' = "error"
  /\ UNCHANGED delivered

StreamNext == Deliver \/ Refuse \/ End \/ Break \/ Report

StreamSpec == StreamInit /\ [][StreamNext]_streamVars
=============================================================================
