---------------------------- MODULE MultipartBuffer ----------------------------
(* The buffer through which the multipart parser reads a request body        *)
(* (apache_multipart_buffer.c): the memory of the buffer, the place and the  *)
(* number of the bytes in it that are still to be read.  Operators only; the *)
(* parser that drives them is in BodyParser.                                 *)
(*                                                                           *)
(* A byte is a name.  The boundary of the request is the one byte "B"; a     *)
(* header line is one byte too.  Searches compare memory, so the memory      *)
(* behind the valid bytes, left over from earlier fills, is kept.            *)
EXTENDS Integers, Sequences, FiniteSetsExt

CONSTANT FillUnit      \* FILLUNIT, 5120 in the code

ASSUME FillAssumption == FillUnit \in Nat /\ FillUnit > 2

CR == "CR"
LF == "LF"
NUL == "NUL"

Boundary     == <<"-", "-", "B">>
BoundaryNext == <<LF>> \o Boundary
BufSize      == Max({FillUnit, 1 + 6})

NoPtr == -1
NoLine == <<NUL>>      \* next_line's NULL: no line holds a NUL
None == "none"

NewBuffer == [mem |-> [i \in 0..BufSize |-> NUL], begin |-> 0, n |-> 0]

(* The bytes still to be read.                                               *)
Data(b) == [i \in 1..b.n |-> b.mem[b.begin + i - 1]]

(* memcmp of the whole needle at p: past the valid bytes it sees what earlier *)
(* fills left, past the allocation nothing that matches.                     *)
MatchesAt(b, p, needle) ==
    /\ p + Len(needle) - 1 <= BufSize
    /\ \A i \in 1..Len(needle) : b.mem[p + i - 1] = needle[i]

(* my_memstr with partial set, as all callers do: the first match that begins *)
(* in the valid bytes.                                                       *)
MemStr(b, needle) ==
    LET P == {p \in b.begin..(b.begin + b.n - 1) : MatchesAt(b, p, needle)}
    IN  IF P = {} THEN NoPtr ELSE Min(P)

(* How much fill_buffer asks for: the free space, or what it is told remains *)
(* less the length of the boundary.                                          *)
Wanted(b, remaining) ==
    LET free == BufSize - b.n
    IN  IF free >= remaining THEN remaining - Len(Boundary) ELSE free

(* The data is moved to the front of the buffer, the block put behind it.    *)
\* mutant: the data is left where it is
Fill_NoMove(b, block) ==
    [mem   |-> [i \in 0..BufSize |->
                  IF i \in b.n..(b.n + Len(block) - 1) THEN block[i - b.n + 1] ELSE b.mem[i]],
     begin |-> 0,
     n     |-> b.n + Len(block)]

Fill(b, block) ==
    [mem   |-> [i \in 0..BufSize |->
                  IF i < b.n THEN b.mem[b.begin + i]
                  ELSE IF i < b.n + Len(block) THEN block[i - b.n + 1]
                  ELSE b.mem[i]],
     begin |-> 0,
     n     |-> b.n + Len(block)]

(* next_line: the bytes up to an LF without the CR before it; a full buffer  *)
(* without LF is a line; otherwise there is none yet.                        *)
NextLine(b) ==
    LET d == Data(b)
        P == {i \in 1..b.n : d[i] = LF}
        p == Min(P)
        strip == p > 1 /\ d[p - 1] = CR
        eol == IF strip THEN p - 1 ELSE p
    IN  IF P # {}
        THEN [line |-> SubSeq(d, 1, eol - 1),
              buf  |-> [b EXCEPT !.mem[b.begin + eol - 1] = NUL,
                                 !.begin = @ + p, !.n = @ - p]]
        ELSE IF b.n < BufSize
        THEN [line |-> NoLine, buf |-> b]
        ELSE [line |-> d,
              buf  |-> [b EXCEPT !.mem[BufSize] = NUL, !.begin = NoPtr, !.n = 0]]

(* get_line: one more try after a fill.                                      *)
NeedsFill(b) == NextLine(b).line = NoLine
GetLine(b, block) == IF NeedsFill(b) THEN NextLine(Fill(b, block)) ELSE NextLine(b)

(* multipart_buffer_read, after its fill: data up to the delimiter, one byte *)
(* less than the caller's buffer holds, without a CR before the delimiter.   *)
\* mutant: the CR before the delimiter is data
Read_KeepCR(b, bytes) ==
    LET bound == MemStr(b, BoundaryNext)
        max == IF bound # NoPtr THEN bound - b.begin ELSE b.n
        len == Min({max, bytes - 1})
    IN  [data |-> SubSeq(Data(b), 1, len),
         buf |-> [b EXCEPT !.begin = @ + len, !.n = @ - len]]

Read(b, bytes) ==
    LET d == Data(b)
        bound == MemStr(b, BoundaryNext)
        max == IF bound # NoPtr THEN bound - b.begin ELSE b.n
        most == Min({max, bytes - 1})
        len == IF bound # NoPtr /\ most > 0 /\ d[most] = CR THEN most - 1 ELSE most
    IN  [data |-> SubSeq(d, 1, len),
         buf  |-> [b EXCEPT !.begin = @ + len, !.n = @ - len]]
=============================================================================
