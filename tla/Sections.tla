------------------------------- MODULE Sections -------------------------------
(***************************************************************************)
(* head and tail (cmd/hdfs/cat.go): which bytes of a file they print.  A    *)
(* file is a sequence of bytes, TRUE where the byte is a newline.  Offsets   *)
(* count from 0.                                                            *)
(***************************************************************************)
EXTENDS Integers, Sequences, FiniteSets

CONSTANT TailSearchSize     \* 16384 in the code

ASSUME SectionsAssumption == TailSearchSize \in Nat \ {0}

\* What is printed: the bytes from one offset to before another, or a panic.
Printed(from, to) == [from |-> from, to |-> to, panic |-> FALSE]
Panics == [from |-> 0, to |-> 0, panic |-> TRUE]

\* headLines: the offset after n newlines, or the end of the file.
RECURSIVE CountHead(_, _, _, _)
CountHead(file, n, newlines, offset) ==
    IF newlines >= n THEN offset
    ELSE IF offset = Len(file) THEN -1
    ELSE CountHead(file, n, newlines + IF file[offset + 1] THEN 1 ELSE 0, offset + 1)

headLines(file, n) ==
    LET offset == CountHead(file, n, 0, 0)
    IN  Printed(0, IF offset < 0 THEN Len(file) ELSE offset)

\* Mutant: a newline at the end of the file begins a line.
NewlinesLast(file, from, size) ==
    {off \in from .. from + size - 1 : off < Len(file) /\ file[off + 1]}

\* The newlines of one section of tailLines, but not one that ends the file.
Newlines(file, from, size) ==
    {off \in from .. from + size - 1 : off < Len(file) /\ file[off + 1] /\ off + 1 # Len(file)}

\* The loop of tailLines, back from the end by TailSearchSize at a time.  It
\* gives up when that goes below 0, whether or not a part of the file is left.
RECURSIVE SearchBack(_, _, _, _)
SearchBack(file, n, searchPoint, readSize) ==
    LET newlines == Newlines(file, searchPoint, readSize)
        found == Cardinality(newlines)
    IN  IF searchPoint < 0 THEN Printed(0, Len(file))
        ELSE IF found >= n
             THEN IF n <= 0 THEN Panics   \* the index is past the end
                  ELSE Printed(1 + CHOOSE off \in newlines :
                                      Cardinality({o \in newlines : o >= off}) = n,
                               Len(file))
        ELSE SearchBack(file, n - found, searchPoint - TailSearchSize, readSize)

tailLines(file, n) ==
    SearchBack(file, n,
               IF Len(file) < TailSearchSize THEN 0 ELSE Len(file) - TailSearchSize,
               IF Len(file) < TailSearchSize THEN Len(file) ELSE TailSearchSize)

\* The -c case of printSection: a section reader from offset; reading at a
\* negative offset fails, and the error is dropped.
SectionBytes(file, n, fromEnd) ==
    LET offset == IF fromEnd THEN Len(file) - n ELSE 0
        end == IF offset + n > Len(file) THEN Len(file) ELSE offset + n
    IN  IF offset < 0 THEN Printed(0, 0) ELSE Printed(offset, end)

\* printSection for one file.  -1 stands for an option that is not given.
printSection(file, numLines, numBytes, fromEnd) ==
    IF numBytes # -1 THEN SectionBytes(file, numBytes, fromEnd)
    ELSE LET n == IF numLines = -1 THEN 10 ELSE numLines
         IN  IF fromEnd THEN tailLines(file, n) ELSE headLines(file, n)

-------------------------------------------------------------------------------
\* What head and tail should print: a line ends with its newline, or with the
\* file.

\* The offsets where lines begin.
LineStarts(file) ==
    {o \in 0 .. Len(file) - 1 : o = 0 \/ file[o]}

FirstLines(file, n) ==
    LET later == {o \in LineStarts(file) : Cardinality({s \in LineStarts(file) : s < o}) = n}
    IN  Printed(0, IF later = {} THEN Len(file) ELSE CHOOSE o \in later : TRUE)

LastLines(file, n) ==
    LET start == {o \in LineStarts(file) : Cardinality({s \in LineStarts(file) : s >= o}) = n}
    IN  Printed(IF start = {} THEN 0 ELSE CHOOSE o \in start : TRUE, Len(file))
===============================================================================
