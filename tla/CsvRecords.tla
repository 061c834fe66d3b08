------------------------------ MODULE CsvRecords ------------------------------
(***************************************************************************)
(* SentinaxCanonicalCsvParserV1: the bytes of a file are cut into physical *)
(* lines of one newline style, the quotes of every line are checked, and   *)
(* the csv module splits it into cells.                                    *)
(*                                                                         *)
(* A byte is a newline, a carriage return, a quote, a comma or a letter.   *)
(***************************************************************************)
EXTENDS Naturals, Sequences, SequencesExt, FiniteSets

CONSTANTS
    Contents,      \* the contents of files: non-empty sequences of bytes
    MaxRecord,     \* MAX_RECORD_BYTES
    MaxRecords,    \* MAX_DATA_RECORDS
    MaxColumns     \* MAX_COLUMNS

VARIABLES
    content,
    at,            \* the next byte
    start,         \* the first byte of the line
    style,         \* the newline style found
    lines,
    outcome        \* scanning, scanned, accepted, rejected

vars == <<content, at, start, style, lines, outcome>>

\* The line that ends before the next byte.
Line == SubSeq(content, start, at - 1)

Reject == outcome' = "rejected" /\ UNCHANGED <<content, at, start, style, lines>>

TooLong == at - start > MaxRecord

SameStyle(s) == style \in {"none", s}

\* A line ends: it is not empty and there is room for it beside the header.
LineIsGood == Line # <<>> /\ Len(lines) < MaxRecords + 1

EndLine(s, width) ==
    /\ lines' = Append(lines, Line)
    /\ start' = at + width /\ at' = at + width
    /\ style' = s
    /\ UNCHANGED <<content, outcome>>

NewlineAt(s, width) ==
    IF SameStyle(s) /\ LineIsGood THEN EndLine(s, width) ELSE Reject

ScanByte ==
    /\ outcome = "scanning" /\ at <= Len(content)
    /\ IF TooLong THEN Reject
       ELSE CASE content[at] = "LF" -> NewlineAt("LF", 1)
              [] content[at] = "CR" ->
                    IF at < Len(content) /\ content[at + 1] = "LF"
                    THEN NewlineAt("CRLF", 2) ELSE Reject
              [] OTHER -> at' = at + 1 /\ UNCHANGED <<content, start, style, lines, outcome>>

\* The end of the file ends a last line without a newline.
ScanEnd ==
    /\ outcome = "scanning" /\ at > Len(content)
    /\ IF start <= Len(content) /\ (TooLong \/ Len(lines) >= MaxRecords + 1)
       THEN Reject
       ELSE /\ lines' = IF start <= Len(content) THEN Append(lines, Line) ELSE lines
            /\ outcome' = "scanned"
            /\ UNCHANGED <<content, at, start, style>>

-----------------------------------------------------------------------------

\* mutant: a quote inside a bare field is let through.
QuoteStepBare(state, byte) ==
    CASE state = "start" -> IF byte = "QUOTE" THEN "quoted" ELSE IF byte = "COMMA" THEN "start" ELSE "bare"
      [] state = "bare" -> IF byte = "COMMA" THEN "start" ELSE "bare"
      [] state = "quoted" -> IF byte = "QUOTE" THEN "closed" ELSE "quoted"
      [] state = "closed" -> IF byte = "QUOTE" THEN "quoted" ELSE IF byte = "COMMA" THEN "start" ELSE "error"
      [] OTHER -> "error"

\* Where the quotes of a line are: before a field, in a bare or a quoted one,
\* or after a quote that closes it or is the first of a doubled one.
QuoteStep(state, byte) ==
    CASE state = "start" -> IF byte = "QUOTE" THEN "quoted" ELSE IF byte = "COMMA" THEN "start" ELSE "bare"
      [] state = "bare" -> IF byte = "COMMA" THEN "start" ELSE IF byte = "QUOTE" THEN "error" ELSE "bare"
      [] state = "quoted" -> IF byte = "QUOTE" THEN "closed" ELSE "quoted"
      [] state = "closed" -> IF byte = "QUOTE" THEN "quoted" ELSE IF byte = "COMMA" THEN "start" ELSE "error"
      [] OTHER -> "error"

QuotesAreValid(line) == FoldLeft(QuoteStep, "start", line) \in {"start", "bare", "closed"}

\* csv.reader on one line: the cells read and the state of the last one.
ReaderStep(r, byte) ==
    LET cell == r.cell
        next == QuoteStep(r.state, byte) IN
    CASE r.state = "bare" /\ byte # "COMMA" -> [r EXCEPT !.cell = Append(cell, byte)]
      [] r.state \in {"start", "bare", "closed"} /\ byte = "COMMA" ->
            [cells |-> Append(r.cells, cell), cell |-> <<>>, state |-> "start"]
      [] r.state = "start" -> [r EXCEPT !.cell = IF byte = "QUOTE" THEN <<>> ELSE <<byte>>, !.state = next]
      [] r.state = "quoted" ->
            [r EXCEPT !.cell = IF byte = "QUOTE" THEN cell ELSE Append(cell, byte), !.state = next]
      [] r.state = "closed" /\ byte = "QUOTE" -> [r EXCEPT !.cell = Append(cell, byte), !.state = next]
      [] OTHER -> [r EXCEPT !.state = "error"]

Read(line) == FoldLeft(ReaderStep, [cells |-> <<>>, cell |-> <<>>, state |-> "start"], line)

Cells(line) == Append(Read(line).cells, Read(line).cell)

IsKey(cell) == cell # <<>> /\ Range(cell) = {"TEXT"}

\* The header's keys are distinct; every row has a cell for each.
Acceptable ==
    /\ lines # <<>>
    /\ \A i \in DOMAIN lines : QuotesAreValid(lines[i]) /\ Read(lines[i]).state # "error"
    /\ LET header == Cells(lines[1]) IN
       /\ Len(header) <= MaxColumns
       /\ \A i \in DOMAIN header : IsKey(header[i])
       /\ IsInjective(header)
       /\ \A i \in DOMAIN lines : Len(Cells(lines[i])) = Len(header)

Extract ==
    /\ outcome = "scanned"
    /\ outcome' = IF Acceptable THEN "accepted" ELSE "rejected"
    /\ UNCHANGED <<content, at, start, style, lines>>

Init ==
    /\ content \in Contents
    /\ at = 1 /\ start = 1 /\ style = "none" /\ lines = <<>>
    /\ outcome = "scanning"

Next == ScanByte \/ ScanEnd \/ Extract

Spec == Init /\ [][Next]_vars

-----------------------------------------------------------------------------

\* The scan stays within the bytes, the lines within their bounds.
TypeOK ==
    /\ at \in 1 .. Len(content) + 1 /\ start \in 1 .. at
    /\ outcome \in {"scanning", "scanned", "accepted", "rejected"}
    /\ Len(lines) <= MaxRecords + 1
    /\ \A i \in DOMAIN lines : Len(lines[i]) \in 1 .. MaxRecord

Newline == IF style = "CRLF" THEN <<"CR", "LF">> ELSE <<"LF">>

\* The lines with newlines between them, and perhaps one after the last, are
\* the file: the evidence of the records holds every byte of it.
LinesAreTheFile ==
    outcome \in {"scanned", "accepted"} =>
        LET joined == FoldLeft(LAMBDA text, line : text \o line \o Newline, <<>>, lines)
        IN  content = joined \/ content \o Newline = joined

\* The commas of an accepted line that separate cells are those with an even
\* number of quotes before them, and a cell is the text between them without
\* the quotes around it and with one quote for two.
Separators(line) ==
    {i \in DOMAIN line : line[i] = "COMMA" /\ Cardinality({j \in 1 .. i : line[j] = "QUOTE"}) % 2 = 0}

CellsAreFields ==
    outcome = "accepted" =>
        \A k \in DOMAIN lines :
            LET line == lines[k]
                cells == Cells(line)
                quotes == Cardinality({j \in DOMAIN line : line[j] = "QUOTE"})
                Count(b) == Cardinality({p \in (1 .. MaxColumns) \X (1 .. MaxRecord) :
                                /\ p[1] \in DOMAIN cells /\ p[2] \in DOMAIN cells[p[1]]
                                /\ cells[p[1]][p[2]] = b})
            IN  /\ Len(cells) = Cardinality(Separators(line)) + 1
                /\ quotes % 2 = 0
                /\ Count("TEXT") = Cardinality({j \in DOMAIN line : line[j] = "TEXT"})
                /\ 2 * Count("QUOTE") <= quotes
=============================================================================
