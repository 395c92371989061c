----------------------------- MODULE BlockRange -----------------------------
(***************************************************************************)
(* Moving a range of bytes between memory and a file (load_block_range,    *)
(* dump_block_range and appendfile in util/io.hpp).  One system call may   *)
(* move less than it is asked for, so each function loops.                 *)
(*                                                                         *)
(* The result of a call, -1 included, is kept in a size_t.  The assertion  *)
(* that it is positive lets -1 through as Limit - 1, and adding that to a  *)
(* counter takes one away: the loop goes back a byte, or, when nothing has *)
(* been moved yet, takes itself to be far past the end.                    *)
(***************************************************************************)
EXTENDS Loops

CONSTANTS Limit,      \* the number of values of a size_t
          Calls,      \* calls that may be made: operation, bytes, offset
          Length,     \* length of the file before the call
          MaxFails,   \* bound on the failures that go back a byte
          MaxOthers   \* bound on the appends of other threads

\* A range that is written back was read before, so the file has it.
ASSUME RangeAssumption ==
  /\ Limit \in Nat /\ Length \in Nat /\ MaxFails \in Nat /\ MaxOthers \in Nat
  /\ Calls \subseteq [op : {"load", "dump", "append"}, total : Nat, off : Nat]
  /\ \A c \in Calls : /\ c.off + c.total + 1 < Limit
                      /\ c.op = "dump" => c.off + c.total <= Length

\* What a byte may be: one of the file, at its position; one of the data to be
\* written, as a negative number; one another thread wrote; or none of these.
Stale   == 0
Foreign == Length + 1
Byte    == Int

VARIABLES
  call,      \* the call that is made
  file,      \* the bytes of the file
  buf,       \* the bytes in memory
  nbr,       \* nbr or nbw: bytes moved
  bufptr,    \* bytes from the start of the buffer to bufptr
  off,       \* offset of the next system call
  pc,        \* "loop", "returned", or "aborted" after the assertion
  rewound,   \* failures that went back a byte (history)
  others     \* bytes other threads appended (history)

rangeVars == <<call, file, buf, nbr, bufptr, off, pc, rewound, others>>

Init ==
  /\ call \in Calls
  /\ file = [i \in 1..Length |-> i]
  /\ buf = [i \in 1..call.total |-> IF call.op = "load" THEN Stale ELSE -i]
  /\ nbr = 0 /\ bufptr = 0 /\ off = call.off
  /\ pc = "loop"
  /\ rewound = 0 /\ others = 0

More == pc = "loop" /\ nbr < call.total

\* Unsigned addition; pointers and offsets are as wide.
Plus(a, ret) == IF a + ret >= Limit THEN a + ret - Limit ELSE a + ret

\* Mutant: the offset in the file stays.
Advance_KeepsOffset(ret) ==
  /\ nbr' = Plus(nbr, ret)
  /\ bufptr' = Plus(bufptr, ret)
  /\ off' = off

\* Mutant: the place in the buffer stays.
Advance_KeepsPointer(ret) ==
  /\ nbr' = Plus(nbr, ret)
  /\ bufptr' = bufptr
  /\ off' = Plus(off, ret)

Advance(ret) ==
  /\ nbr' = Plus(nbr, ret)
  /\ bufptr' = Plus(bufptr, ret)
  /\ off' = Plus(off, ret)

Moved(n) ==
  /\ Advance(n)
  /\ UNCHANGED <<call, pc, rewound, others>>

\* pread fills n bytes of what is left of the buffer.
Load(n) ==
  /\ More /\ call.op = "load"
  /\ n \in 1..(call.total - nbr) /\ off + n <= Len(file)
  /\ buf' = [i \in 1..call.total |-> IF i \in (bufptr + 1)..(bufptr + n)
                                     THEN file[off + (i - bufptr)] ELSE buf[i]]
  /\ Moved(n)
  /\ UNCHANGED file

\* pread at the end of the file returns 0, and the assertion fails.
EndOfFile ==
  /\ More /\ call.op = "load"
  /\ off >= Len(file)
  /\ pc' = "aborted"
  /\ UNCHANGED <<call, file, buf, nbr, bufptr, off, rewound, others>>

\* pwrite puts n bytes at the offset.
Dump(n) ==
  /\ More /\ call.op = "dump"
  /\ n \in 1..(call.total - nbr)
  /\ file' = [i \in 1..Len(file) |-> IF i \in (off + 1)..(off + n)
                                     THEN buf[bufptr + (i - off)] ELSE file[i]]
  /\ Moved(n)
  /\ UNCHANGED buf

\* Mutant: every call writes from the start of the buffer.
Write_FromStart(n) ==
  /\ More /\ call.op = "append"
  /\ n \in 1..(call.total - nbr)
  /\ file' = file \o SubSeq(buf, 1, n)
  /\ Moved(n)
  /\ UNCHANGED buf

\* pwrite to a file opened with O_APPEND puts them at its end.
Write(n) ==
  /\ More /\ call.op = "append"
  /\ n \in 1..(call.total - nbr)
  /\ file' = file \o SubSeq(buf, bufptr + 1, bufptr + n)
  /\ Moved(n)
  /\ UNCHANGED buf

\* Any of them returns -1: the descriptor is not open, the disk is full or bad.
Fail ==
  /\ More
  /\ Advance(Limit - 1)
  /\ IF nbr = 0 THEN UNCHANGED rewound
                ELSE rewound < MaxFails /\ rewound' = rewound + 1
  /\ UNCHANGED <<call, file, buf, pc, others>>

\* Mutant: the loop ends only at exactly the number asked for.
Return_IfEqual ==
  /\ pc = "loop" /\ nbr = call.total
  /\ pc' = "returned"
  /\ UNCHANGED <<call, file, buf, nbr, bufptr, off, rewound, others>>

Return ==
  /\ pc = "loop" /\ nbr >= call.total
  /\ pc' = "returned"
  /\ UNCHANGED <<call, file, buf, nbr, bufptr, off, rewound, others>>

\* Another thread spills to the same walk file.
OtherThread ==
  /\ call.op = "append" /\ others < MaxOthers
  /\ file' = Append(file, Foreign)
  /\ others' = others + 1
  /\ UNCHANGED <<call, buf, nbr, bufptr, off, pc, rewound>>

Stop == pc # "loop" /\ UNCHANGED rangeVars

Next ==
  \/ \E n \in 1..call.total : Load(n) \/ Dump(n) \/ Write(n)
  \/ EndOfFile \/ Fail \/ Return \/ OtherThread \/ Stop

Spec     == Init /\ [][Next]_rangeVars
FairSpec == Spec /\ WF_rangeVars(Next)
-----------------------------------------------------------------------------
(* Properties.                                                             *)

\* The call returned without having moved anything at its last try.
Lost == nbr = Limit - 1

RangeTypeOK ==
  /\ call \in Calls
  /\ file \in Seq(Byte) /\ buf \in [1..call.total -> Byte]
  /\ nbr \in Nat /\ bufptr \in Nat /\ off \in Nat
  /\ pc \in {"loop", "returned", "aborted"}
  /\ rewound \in 0..MaxFails /\ others \in 0..MaxOthers

\* The three counters move together, backwards too: no call of the loop is
\* given an address outside the buffer or an offset outside the range
\* (io.hpp:43-68).
StaysInside ==
  \/ nbr \in 0..call.total /\ bufptr = nbr /\ off = call.off + nbr
  \/ Lost /\ pc # "aborted"

\* Whatever was moved piecemeal, failed and was tried again, a load that returns
\* has the bytes of the range in memory, and a dump has those of memory in the
\* range and nowhere else; unless the last call failed with nothing moved.
RangeMoved ==
  pc = "returned" /\ ~Lost =>
    /\ call.op = "load" =>
         \A i \in 1..call.total : buf[i] = file[call.off + i]
    /\ call.op = "dump" =>
         file = [i \in 1..Length |-> IF i \in (call.off + 1)..(call.off + call.total)
                                     THEN -(i - call.off) ELSE i]

\* An append adds a byte too many for every failure it went back on.
AppendLength ==
  call.op = "append" =>
    Len(file) = Length + (IF Lost THEN 0 ELSE nbr) + rewound + others

\* Without such a failure it adds the bytes of memory once, in their order; with
\* one, a file of records is no longer a file of records (io.hpp:73-76,
\* walk.hpp:123).
AppendedOnce ==
  /\ AppendLength
  /\ call.op = "append" /\ rewound = 0 /\ ~Lost =>
       Only(file, Int \ {Foreign})
         = [i \in 1..(Length + nbr) |-> IF i <= Length THEN i ELSE Length - i]

\* A call ends: what fails is tried again a bounded number of times, or given up.
Returns == <>(pc # "loop")

\* What the loop keeps.  In memory a load has the bytes up to nbr; in the file a
\* dump has them, and the file is as it was outside the range.
LoadKeeps ==
  call.op = "load" =>
    /\ Len(file) = Length
    /\ ~Lost => \A i \in 1..nbr : buf[i] = file[call.off + i]

DumpKeeps ==
  call.op = "dump" =>
    /\ Len(file) = Length
    /\ \A i \in 1..Length :
         i \notin (call.off + 1)..(call.off + call.total) => file[i] = i
    /\ ~Lost => \A i \in 1..nbr : file[call.off + i] = -i

DataKept == call.op # "load" => buf = [i \in 1..call.total |-> -i]

\* The inductive invariant.
RangeInv ==
  /\ RangeTypeOK
  /\ StaysInside
  /\ LoadKeeps
  /\ DumpKeeps
  /\ DataKept
  /\ AppendLength

\* The assertions of io.hpp:50 and 64, `assert(ret > 0)` after every system call: a
\* function that returns has not had a failed one.
FailuresCaught == pc = "returned" => nbr = call.total /\ rewound = 0
=============================================================================
